--------------------------------- MODULE Web ---------------------------------
(***************************************************************************)
(* The Web server: its job, the review of cues, and what the two share: the *)
(* job's process rewrites the manifest a draft is made from, a workspace   *)
(* that is deleted takes its draft along, and both die with the server.    *)
(***************************************************************************)
EXTENDS WebJob, WebReview

CONSTANT MaxActivity   \* bound: jobs started, crashes and revisions together

vars == <<jobVars, reviewVars>>

Init == JobInit /\ ReviewInit

(* A stage of the job writes the manifest the review shows. *)
WritesSource(j) ==
    /\ proc[j] \in Alive
    /\ source' \in Episodes \ {source}
    /\ UNCHANGED <<jobVars, draft, backup, audit, pending, seen>>

(* delete_workspace looks neither at the job nor at the draft; a project   *)
(* of that name is then made anew.                                         *)
DeleteWorkspace ==
    /\ pending = {} /\ draft # NoDraft
    /\ source' \in Episodes
    /\ draft' = NoDraft
    /\ backup' = [r \in 1..MaxRev |-> <<>>]
    /\ audit' = {}
    /\ seen' = [u \in Users |-> [rev |-> 0, cues |-> <<>>]]
    /\ UNCHANGED <<jobVars, pending>>

Activity == Cardinality(Started) + crashes + draft.rev

Next == /\ \/ JobNext /\ UNCHANGED reviewVars
           \/ ReviewNext /\ UNCHANGED jobVars
           \/ \E j \in Jobs : WritesSource(j)
           \/ DeleteWorkspace
           \/ JobCrash /\ ReviewCrash
        /\ Activity' <= MaxActivity

Spec == Init /\ [][Next]_vars

(* Every variable has its type. *)
TypeOK == JobTypeOK /\ ReviewTypeOK
=============================================================================
