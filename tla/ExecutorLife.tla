---------------------------- MODULE ExecutorLife ----------------------------
(***************************************************************************)
(* What the run table relies on of the worker's executor of a run: it      *)
(* works, may be told once to stop while it does, settles on an outcome,   *)
(* and reports it.  CiRuns takes its executors to be like this.            *)
(***************************************************************************)
CONSTANTS Executors

VARIABLES phase,     \* phase[e]: none, working, reporting or over
          told,      \* told[e]: working, and told to stop
          outcome    \* outcome[e]: what it settled on

Init == /\ phase = [e \in Executors |-> "none"]
        /\ told = [e \in Executors |-> FALSE]
        /\ outcome = [e \in Executors |-> "none"]

Start(e) == /\ phase[e] = "none"
            /\ phase' = [phase EXCEPT ![e] = "working"]
            /\ UNCHANGED <<told, outcome>>

Tell(e) == /\ phase[e] = "working" /\ ~told[e]
           /\ told' = [told EXCEPT ![e] = TRUE]
           /\ UNCHANGED <<phase, outcome>>

(* Told to stop it says "cancelled", or "failed" after an exception, but    *)
(* never "succeeded"; and it never says "cancelled" of its own accord.     *)
Settle(e, result) ==
    /\ phase[e] = "working"
    /\ result \in IF told[e] THEN {"cancelled", "failed"} ELSE {"succeeded", "failed"}
    /\ phase' = [phase EXCEPT ![e] = "reporting"]
    /\ told' = [told EXCEPT ![e] = FALSE]
    /\ outcome' = [outcome EXCEPT ![e] = result]

Report(e) == /\ phase[e] = "reporting"
             /\ phase' = [phase EXCEPT ![e] = "over"]
             /\ UNCHANGED <<told, outcome>>

(* The worker's process dies, with all its executors. *)
Die(dead) == /\ dead \subseteq {e \in Executors : phase[e] \in {"working", "reporting"}}
             /\ dead # {}
             /\ phase' = [e \in Executors |-> IF e \in dead THEN "over" ELSE phase[e]]
             /\ told' = [e \in Executors |-> told[e] /\ e \notin dead]
             /\ UNCHANGED outcome

Next == \/ \E e \in Executors : \/ Start(e) \/ Tell(e) \/ Report(e)
                                \/ \E result \in {"succeeded", "failed", "cancelled"} :
                                       Settle(e, result)
        \/ \E dead \in SUBSET Executors : Die(dead)

Spec == Init /\ [][Next]_<<phase, told, outcome>>
=============================================================================
