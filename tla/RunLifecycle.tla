---------------------------- MODULE RunLifecycle ----------------------------
(***************************************************************************)
(* What the run table of the CI server promises its users, whatever the    *)
(* handlers do in between: a run is submitted once, is handed to at most   *)
(* one worker, ends, and stays ended until somebody deletes it.            *)
(* CiRuns is the detailed specification that implements this one.          *)
(***************************************************************************)
CONSTANTS Runs,       \* the run ids
          Workers,    \* the worker ids
          NoWorker    \* the worker_id of a run nobody has claimed

VARIABLES phase,      \* phase[r]: how far run r has come
          owner       \* owner[r]: the worker r was handed to

vars == <<phase, owner>>

Init == /\ phase = [r \in Runs |-> "absent"]
        /\ owner = [r \in Runs |-> NoWorker]

Move(r, from, to) == phase[r] \in from /\ phase' = [phase EXCEPT ![r] = to]

(* A user creates or retries a run. *)
Submit(r) == Move(r, {"absent"}, "queued") /\ UNCHANGED owner

(* The queue hands the run to one worker, and never to a second one. *)
Assign(r, w) == /\ Move(r, {"queued"}, "running")
                /\ owner[r] = NoWorker
                /\ owner' = [owner EXCEPT ![r] = w]

(* The run is cancelled before its start, completes, or loses its worker. *)
End(r) == Move(r, {"queued", "running"}, "ended") /\ UNCHANGED owner

Remove(r) == /\ Move(r, {"ended"}, "deleted")
             /\ owner' = [owner EXCEPT ![r] = NoWorker]

Next == \E r \in Runs : \/ Submit(r)
                        \/ \E w \in Workers : Assign(r, w)
                        \/ End(r)
                        \/ Remove(r)

Spec == Init /\ [][Next]_vars
=============================================================================
