------------------------------- MODULE CiRuns -------------------------------
(***************************************************************************)
(* The run table of the CI server (qwen_asr/ci/store.py), the handlers of  *)
(* its HTTP API (qwen_asr/ci/api.py) and, as far as the protocol sees them,*)
(* the workers' executors (qwen_asr/ci/worker.py).                         *)
(*                                                                         *)
(* A handler runs in a thread of the server.  Every read of the table and  *)
(* every transaction is a step of its own: between the row a handler has   *)
(* read and the update it writes, all other handlers may run.              *)
(***************************************************************************)
EXTENDS Integers, FiniteSets, TLC

CONSTANTS MaxRuns,    \* bound: how many runs are ever submitted
          Afresh,     \* bound: the runs that POST runs creates; the others are retries
          Workers,    \* the worker ids
          Reliable,   \* the workers that stay in service (for liveness only)
          Threads,    \* the server's threads (request threads and the reaper)
          NoWorker,   \* the NULL of worker_id and worker_hint
          Presets,    \* the presets runs are submitted with
          NoPreset,   \* no preset: where there is no run
          Serves,     \* Serves[w]: --preset of worker w, or {} if it takes any
          Priorities, \* the priorities POST and PATCH may give a run
          ExecSlots,  \* --max-runs of a worker
          MaxFaults   \* bound: lost replies, crashes and time-outs together

Runs == 1..MaxRuns    \* ids in the order of created_at
NoRun == 0

ASSUME RunsAssumption ==
    /\ MaxRuns \in Nat /\ ExecSlots \in Nat /\ MaxFaults \in Nat
    /\ NoWorker \notin Workers /\ Reliable \subseteq Workers
    /\ NoPreset \notin Presets /\ Serves \in [Workers -> SUBSET Presets]
    /\ Priorities \subseteq Int

VARIABLES run,        \* run[r]: the row of run r
          thread,     \* thread[t]: the handler t executes, with what it has read
          exec,       \* exec[r]: the executor of run r, inside the worker of run[r]
          announced,  \* announced[r]: what the last run.finished event of r said:
                      \* that r is over, or ("early") that it is not
          faults      \* faults so far

vars == <<run, thread, exec, announced, faults>>

Final    == {"succeeded", "failed", "cancelled"}
Statuses == {"absent", "queued", "running", "deleted"} \cup Final
Ended    == Final \cup {"deleted"}

Row == [status : Statuses, worker : Workers \cup {NoWorker},
        hint : Workers \cup {NoWorker}, cancelRequested : BOOLEAN,
        aged : BOOLEAN,       \* queued for longer than worker_affinity_seconds
        stale : BOOLEAN,      \* running, with heartbeat_at past worker_stale_seconds
        parent : Runs \cup {NoRun}, preset : Presets \cup {NoPreset},
        results : {"partial", "final"}]   \* stages, metrics, checks, summary

Handler == [op : {"idle", "claim", "heartbeat", "complete", "cancel", "retry",
                  "delete", "reap"},
            step : {"write", "notify"},
            run : Runs \cup {NoRun},
            seen : Statuses,              \* the status as read
            flag : BOOLEAN,               \* cancel_requested as read
            todo : SUBSET Runs,           \* the stale runs still to be failed
            worker : Workers \cup {NoWorker},
            preset : Presets \cup {NoPreset}]

Executor == [state : {"none", "offered", "working", "reporting", "acked", "gone"},
             told : BOOLEAN,              \* working, and the cancelled event is set
             outcome : {"none"} \cup Final]

Idle == [op |-> "idle", step |-> "write", run |-> NoRun, seen |-> "absent",
         flag |-> FALSE, todo |-> {}, worker |-> NoWorker, preset |-> NoPreset]
NewRow == [status |-> "queued", worker |-> NoWorker, hint |-> NoWorker,
           cancelRequested |-> FALSE, aged |-> FALSE, stale |-> FALSE,
           parent |-> NoRun, preset |-> NoPreset, results |-> "partial"]
NoExecutor == [state |-> "none", told |-> FALSE, outcome |-> "none"]

Init == /\ run = [r \in Runs |-> [NewRow EXCEPT !.status = "absent"]]
        /\ thread = [t \in Threads |-> Idle]
        /\ exec = [r \in Runs |-> NoExecutor]
        /\ announced = [r \in Runs |-> "none"]
        /\ faults = 0
-----------------------------------------------------------------------------
Exists(r) == run[r].status \notin {"absent", "deleted"}
Vacant    == {r \in Runs : run[r].status = "absent"}

(* The id the next insert gets: ids are handed out in order.  SpareId is   *)
(* the bound: no request to submit a run starts that MaxRuns would stop.   *)
IsNext(r) == r \in Vacant /\ \A q \in Vacant : r <= q
SpareId   == Cardinality(Vacant) > Cardinality({t \in Threads : thread[t].op = "retry"})

Fault == faults < MaxFaults /\ faults' = faults + 1

Begin(t, op, h) == /\ thread[t].op = "idle"
                   /\ thread' = [thread EXCEPT ![t] = [h EXCEPT !.op = op]]
At(t, op, step) == thread[t].op = op /\ thread[t].step = step
Goto(t, h) == thread' = [thread EXCEPT ![t] = h]
Return(t)  == Goto(t, Idle)

(* Store.update_run: no condition but the id, so nothing for a deleted run. *)
Update(r, row) == run' = IF Exists(r) THEN [run EXCEPT ![r] = row] ELSE run

(* What happens to the executor of run r. *)
Become(r, state) == exec' = [exec EXCEPT ![r] = [@ EXCEPT !.state = state]]

InFlight(op, r) == \E t \in Threads : thread[t].op = op /\ thread[t].run = r
-----------------------------------------------------------------------------
(* POST runs: one insert. *)
CreateRun(r) ==
    /\ r \in Afresh /\ SpareId /\ IsNext(r)
    /\ \E preset \in Presets : run' = [run EXCEPT ![r] = [NewRow EXCEPT !.preset = preset]]
    /\ UNCHANGED <<thread, exec, announced, faults>>

(* POST runs/{id}/retry: the parent is read and must be final; the child    *)
(* has its preset, and prefers its worker, which has the workspace, unless  *)
(* fresh_workspace.                                                        *)
MayRetry(r)       == run[r].status \in Final

RetryRead(t, r, fresh) ==
    /\ SpareId
    /\ MayRetry(r)
    /\ Begin(t, "retry", [Idle EXCEPT !.run = r, !.preset = run[r].preset,
              !.worker = IF fresh THEN NoWorker ELSE run[r].worker])
    /\ UNCHANGED <<run, exec, announced, faults>>

RetryInsert(t, r) ==
    /\ At(t, "retry", "write")
    /\ IsNext(r)
    /\ run' = [run EXCEPT ![r] = [NewRow EXCEPT !.parent = thread[t].run,
                                            !.preset = thread[t].preset,
                                            !.hint = thread[t].worker]]
    /\ Return(t)
    /\ UNCHANGED <<exec, announced, faults>>

(* POST runs/{id}/cancel: `before` is read, then request_cancel updates a  *)
(* queued or a running row, then the event is sent if `before` was queued. *)
CancelRead(t, r) ==
    /\ run[r].status \in {"queued", "running"}     \* else nothing is written
    /\ Begin(t, "cancel", [Idle EXCEPT !.run = r,
                                       !.seen = run[r].status])
    /\ UNCHANGED <<run, exec, announced, faults>>

WasQueuedNever(t) == FALSE
WasQueued(t)      == thread[t].seen = "queued"

CancelWrite(t) ==
    LET r == thread[t].run IN
    /\ At(t, "cancel", "write")
    /\ run' = [run EXCEPT ![r] =
         CASE @.status = "queued"  -> [@ EXCEPT !.status = "cancelled",
                                                !.cancelRequested = TRUE]
           [] @.status = "running" -> [@ EXCEPT !.cancelRequested = TRUE]
           [] OTHER                -> @]
    /\ IF WasQueued(t) THEN Goto(t, [thread[t] EXCEPT !.step = "notify"]) ELSE Return(t)
    /\ UNCHANGED <<exec, announced, faults>>

(* DELETE runs/{id}: the row is read and must be final, then it is deleted. *)
DeleteRead(t, r) ==
    /\ run[r].status \in Final
    /\ Begin(t, "delete", [Idle EXCEPT !.run = r])
    /\ UNCHANGED <<run, exec, announced, faults>>

DeleteWrite(t) ==
    /\ At(t, "delete", "write")
    /\ run' = [run EXCEPT ![thread[t].run] = [NewRow EXCEPT !.status = "deleted"]]
    /\ Return(t)
    /\ UNCHANGED <<exec, announced, faults>>

(* A queued retry has waited longer than the affinity time. *)
AffinityExpires(r) ==
    /\ run[r].status = "queued" /\ run[r].hint # NoWorker /\ ~run[r].aged
    /\ run' = [run EXCEPT ![r] = [@ EXCEPT !.aged = TRUE]]
    /\ UNCHANGED <<thread, exec, announced, faults>>
-----------------------------------------------------------------------------
(* POST worker/claim: under the claim lock, the best run of those a worker  *)
(* asks for is selected and then updated on condition that it is still      *)
(* queued.  The worker's presets filter before the order does: a run that   *)
(* nobody serves waits, and the ones behind it do not.                      *)
Wants(w, r) == Serves[w] = {} \/ run[r].preset \in Serves[w]

EligibleHinted(w) == {r \in Runs : /\ run[r].status = "queued" /\ Wants(w, r)
                                   /\ run[r].hint \in {NoWorker, w}}
Eligible(w) == {r \in Runs : /\ run[r].status = "queued" /\ Wants(w, r)
                             /\ run[r].hint \in {NoWorker, w} \/ run[r].aged}

(* PATCH runs/{id} changes a priority at any time, so that a claim finds    *)
(* any priorities; the rest of PATCH is wording.                           *)
Best(r, C) ==
    /\ r \in C
    /\ \E priority \in [C -> Priorities] : \A q \in C :
          \/ priority[q] < priority[r]
          \/ priority[q] = priority[r] /\ r <= q

Load(w) == {r \in Runs : /\ run[r].worker = w
                         /\ exec[r].state \in {"offered", "working", "reporting"}}

(* Worker.can_claim lets the poll loop ask only below --max-runs. *)
ClaimSelect(t, w, r) ==
    /\ Cardinality(Load(w)) < ExecSlots
    /\ ~\E u \in Threads : thread[u].op = "claim"     \* _claim_lock is free
    /\ Best(r, Eligible(w))
    /\ Begin(t, "claim", [Idle EXCEPT !.run = r, !.worker = w])
    /\ UNCHANGED <<run, exec, announced, faults>>

StillQueuedUnchecked(r) == Exists(r)
StillQueued(r)          == run[r].status = "queued"

ClaimUpdate(t) ==
    LET r == thread[t].run IN
    /\ At(t, "claim", "write")
    /\ IF StillQueued(r)
       THEN /\ run' = [run EXCEPT ![r] = [@ EXCEPT !.status = "running", !.stale = FALSE,
                                                   !.worker = thread[t].worker]]
            /\ Become(r, "offered")
       ELSE UNCHANGED <<run, exec>>
    /\ Return(t)
    /\ UNCHANGED <<announced, faults>>

(* The claim's reply reaches the worker, which starts an executor, or is   *)
(* lost: the worker's next claim then asks for another run.                *)
ClaimReply(r) ==
    /\ exec[r].state = "offered"
    /\ \/ Become(r, "working") /\ UNCHANGED faults
       \/ Become(r, "gone") /\ Fault
    /\ UNCHANGED <<run, thread, announced>>
-----------------------------------------------------------------------------
(* POST worker/runs/{id}/heartbeat: the row is read by the dependency; the *)
(* update is unconditional; the reply carries the flag read before it.  The *)
(* last heartbeat may be under way while the executor reports: the main     *)
(* thread waits ten seconds for it, and then goes on.                       *)
WithRow(r) == [Idle EXCEPT !.run = r, !.seen = run[r].status,
                            !.flag = run[r].cancelRequested]

Tell(r, cancel) == IF cancel /\ exec[r].state = "working"
                   THEN exec' = [exec EXCEPT ![r] = [@ EXCEPT !.told = TRUE]]
                   ELSE UNCHANGED exec

AcceptsBeat(r)    == run[r].status = "running"

HeartbeatRead(t, r) ==
    /\ exec[r].state \in {"working", "reporting"}
    /\ IF AcceptsBeat(r)
       THEN /\ Begin(t, "heartbeat", WithRow(r))
            /\ UNCHANGED exec
       ELSE Tell(r, Exists(r)) /\ UNCHANGED thread
    /\ UNCHANGED <<run, announced, faults>>

HeartbeatWrite(t) ==
    LET r == thread[t].run IN
    /\ At(t, "heartbeat", "write")
    /\ Update(r, [run[r] EXCEPT !.stale = FALSE, !.results = "partial"])
    /\ Tell(r, thread[t].flag)
    /\ Return(t)
    /\ UNCHANGED <<announced, faults>>

(* The phases end, are killed, or the executor fails: it reports once told *)
(* to stop only "cancelled", or "failed" after an exception.               *)
Finish(r, outcome) ==
    /\ exec[r].state = "working"
    /\ outcome \in IF exec[r].told THEN {"cancelled", "failed"}
                                   ELSE {"succeeded", "failed"}
    /\ exec' = [exec EXCEPT ![r] = [state |-> "reporting", told |-> FALSE,
                                      outcome |-> outcome]]
    /\ UNCHANGED <<run, thread, announced, faults>>

(* POST worker/runs/{id}/complete.  The client sends it again after a       *)
(* time-out, when the first request may still be on the server.             *)
Reply(r, state) == IF exec[r].state = "reporting" THEN Become(r, state) ELSE UNCHANGED exec

IsClosed(r)      == run[r].status \in Final

ReadyToReport(r)        == exec[r].state = "reporting"

AckAtOnce(r)    == Reply(r, "acked")
AckAfterNotify(r) == UNCHANGED exec

CompleteRead(t, r) ==
    /\ ReadyToReport(r)
    /\ IF InFlight("complete", r) THEN Fault ELSE UNCHANGED faults
    /\ CASE ~Exists(r)  -> Reply(r, "gone") /\ UNCHANGED thread
         [] Exists(r) /\ IsClosed(r) -> Reply(r, "acked") /\ UNCHANGED thread
         [] OTHER        -> Begin(t, "complete", WithRow(r)) /\ AckAfterNotify(r)
    /\ UNCHANGED <<run, announced>>

StatusHidingSuccess(h) == IF h.flag THEN "cancelled" ELSE exec[h.run].outcome
StatusToStore(h) == IF h.flag /\ exec[h.run].outcome # "succeeded"
                    THEN "cancelled" ELSE exec[h.run].outcome

CompleteWrite(t) ==
    LET r == thread[t].run IN
    /\ At(t, "complete", "write")
    /\ Update(r, [run[r] EXCEPT !.status = StatusToStore(thread[t]), !.stale = FALSE,
                                !.results = "final"])
    /\ Goto(t, [thread[t] EXCEPT !.step = "notify"])
    /\ UNCHANGED <<exec, announced, faults>>
-----------------------------------------------------------------------------
(* No heartbeat for worker_stale_seconds. *)
HeartbeatAges(r) ==
    /\ run[r].status = "running" /\ ~run[r].stale
    /\ run' = [run EXCEPT ![r] = [@ EXCEPT !.stale = TRUE]]
    /\ UNCHANGED <<thread, exec, announced, faults>>

(* reap_stale, by the reaper thread or POST admin/reap: the stale running   *)
(* rows are listed, then each is failed by an unconditional update.         *)
ReapList(t) ==
    LET staleRuns == {r \in Runs : run[r].status = "running" /\ run[r].stale} IN
    /\ staleRuns # {}
    /\ Begin(t, "reap", [Idle EXCEPT !.todo = staleRuns])
    /\ UNCHANGED <<run, exec, announced, faults>>

ReapWrite(t, r) ==
    /\ At(t, "reap", "write")
    /\ r \in thread[t].todo
    /\ Update(r, [run[r] EXCEPT !.status = "failed", !.stale = FALSE])
    /\ Goto(t, [thread[t] EXCEPT !.step = "notify", !.run = r, !.todo = @ \ {r}])
    /\ UNCHANGED <<exec, announced, faults>>

(* The row is read again and run.finished is sent with what it holds now;   *)
(* the reaper goes on to its next run, the others return.                   *)
Notify(t) ==
    LET r == thread[t].run IN
    /\ thread[t].step = "notify"
    /\ announced' = IF Exists(r)
                    THEN [announced EXCEPT ![r] = IF run[r].status \in Final
                                                  THEN "over" ELSE "early"]
                    ELSE announced
    /\ IF thread[t].op = "complete" /\ Exists(r) THEN Reply(r, "acked") ELSE UNCHANGED exec
    /\ IF thread[t].todo = {} THEN Return(t)
                              ELSE Goto(t, [thread[t] EXCEPT !.step = "write"])
    /\ UNCHANGED <<run, faults>>
-----------------------------------------------------------------------------
(* The server stops and starts again: the table survives, handlers do not. *)
ServerRestart ==
    /\ Fault
    /\ \E t \in Threads : thread[t] # Idle
    /\ thread' = [t \in Threads |-> Idle]
    /\ UNCHANGED <<run, exec, announced>>

(* The worker process dies, or gives up reporting after five attempts: a    *)
(* restarted worker knows nothing of the runs it had claimed.               *)
WorkerCrash(w) ==
    /\ Fault
    /\ Load(w) # {}
    /\ exec' = [r \in Runs |-> IF r \in Load(w)
                               THEN [exec[r] EXCEPT !.state = "gone", !.told = FALSE]
                               ELSE exec[r]]
    /\ UNCHANGED <<run, thread, announced>>

GiveUp(r) ==
    /\ Fault
    /\ exec[r].state = "reporting"
    /\ Become(r, "gone")
    /\ UNCHANGED <<run, thread, announced>>
-----------------------------------------------------------------------------
UserStep(t) == \E r \in Runs : \/ \E fresh \in BOOLEAN : RetryRead(t, r, fresh)
                               \/ CancelRead(t, r)
                               \/ DeleteRead(t, r)

(* The rest of a handler that has begun. *)
HandlerStep(t) == \/ \E r \in Runs : RetryInsert(t, r) \/ ReapWrite(t, r)
                  \/ CancelWrite(t) \/ DeleteWrite(t) \/ ClaimUpdate(t)
                  \/ HeartbeatWrite(t) \/ CompleteWrite(t) \/ Notify(t)

Claim(w)     == \E t \in Threads, r \in Runs : ClaimSelect(t, w, r)
Heartbeat(r) == \E t \in Threads : HeartbeatRead(t, r)
Complete(r)  == \E t \in Threads : CompleteRead(t, r)
Reap         == \E t \in Threads : ReapList(t)
FinishRun(r) == \E outcome \in Final : Finish(r, outcome)

Next == \/ \E t \in Threads : UserStep(t) \/ HandlerStep(t)
        \/ \E r \in Runs : \/ CreateRun(r) \/ AffinityExpires(r) \/ ClaimReply(r)
                           \/ Heartbeat(r) \/ FinishRun(r) \/ Complete(r)
                           \/ HeartbeatAges(r) \/ GiveUp(r)
        \/ \E w \in Workers : Claim(w) \/ WorkerCrash(w)
        \/ Reap
        \/ ServerRestart

Spec == Init /\ [][Next]_vars

(* Requests are served first come, first served and the reaper wakes up     *)
(* periodically (strong fairness over the threads); a handler that began    *)
(* is executed; a phase process ends; a reliable worker keeps polling; an   *)
(* executor reports or is gone.  (One whose upload raises does neither: its *)
(* run stays "running" until the worker is restarted.)                     *)
Orphan(r) == run[r].status = "running" /\ exec[r].state = "gone"

Fairness == /\ \A t \in Threads : WF_vars(HandlerStep(t))
            /\ \A r \in Runs : /\ WF_vars(AffinityExpires(r))
                               /\ WF_vars(ClaimReply(r))
                               /\ WF_vars(FinishRun(r))
                               /\ SF_vars(Complete(r))
                               /\ WF_vars(Orphan(r) /\ HeartbeatAges(r))
            /\ \A w \in Reliable : SF_vars(Claim(w))
            /\ SF_vars(Reap)

FairSpec == Spec /\ Fairness
-----------------------------------------------------------------------------
TypeOK == /\ run \in [Runs -> Row]
          /\ thread \in [Threads -> Handler]
          /\ exec \in [Runs -> Executor]
          /\ announced \in [Runs -> {"none", "early", "over"}]
          /\ faults \in 0..MaxFaults

(* A run ends "cancelled" only if a user asked for it: neither the reaper,  *)
(* nor a worker told to stop because its run was failed behind its back,    *)
(* nor a request served late ever makes up a cancellation.                  *)
CancelledWasRequested ==
    \A r \in Runs : run[r].status = "cancelled" => run[r].cancelRequested

(* A run is shown as succeeded only if its worker said so, and a success    *)
(* the worker reports is never hidden behind a cancellation that came too  *)
(* late to stop it.                                                        *)
SuccessIsHonest ==
    \A r \in Runs : /\ run[r].status = "succeeded" => exec[r].outcome = "succeeded"
                    /\ run[r].status = "cancelled" => exec[r].outcome # "succeeded"

(* When a worker's complete request has been acknowledged, the run is over *)
(* on the server, and stays so: the worker may forget it.                  *)
AckedRunIsOver ==
    \A r \in Runs : exec[r].state = "acked" => run[r].status \in Ended

(* While a retry exists its parent is over: the check retry_run makes when *)
(* it reads the parent still holds when it inserts the child, and later.   *)
ParentIsOver ==
    \A r \in Runs : run[r].parent # NoRun => run[run[r].parent].status \in Ended

(* What the table says of a run is so: no cancellation is made up, no      *)
(* success is claimed or hidden, no retry runs beside its parent.          *)
RowsAreHonest == CancelledWasRequested /\ SuccessIsHonest /\ ParentIsOver

(* A handler that read run r as active and has not written yet. *)
LateWriter(r) == \E t \in Threads :
    \/ /\ thread[t].op \in {"heartbeat", "complete"} /\ thread[t].step = "write"
       /\ thread[t].run = r /\ thread[t].seen = "running"
    \/ r \in thread[t].todo

(* The row of a run that is over changes only by its deletion or by a      *)
(* handler that read it while it was active: late heartbeats, repeated     *)
(* complete requests and cancellations that arrive afterwards leave it be. *)
FinalRowFrozen ==
    [][\A r \in Runs : run[r].status \in Final /\ ~LateWriter(r)
                        => run'[r] = run[r] \/ run'[r].status = "deleted"]_vars

(* As long as nothing fails, the end of a run is announced: a run that is   *)
(* over has its run.finished event, or a handler is about to send it.      *)
EndIsAnnounced ==
    faults = 0 => \A r \in Runs : run[r].status \in Final =>
        \/ announced[r] = "over"
        \/ \E t \in Threads : thread[t].step = "notify" /\ thread[t].run = r

(* The table implements RunLifecycle: queued, running and ended only in     *)
(* that order, one worker per run, and only ended runs are deleted.         *)
Lifecycle == INSTANCE RunLifecycle WITH
    phase <- [r \in Runs |-> IF run[r].status \in Final THEN "ended" ELSE run[r].status],
    owner <- [r \in Runs |-> run[r].worker]
ImplementsLifecycle == Lifecycle!Spec

(* Every submitted run with a preset that a reliable worker asks for is    *)
(* over some day, whichever worker claimed it, whatever waits before it    *)
(* that nobody serves, even if the claim's reply was lost, the worker died *)
(* or the reaper was killed between listing and failing it.                *)
Served(r) == \E w \in Reliable : Wants(w, r)
EveryRunEnds ==
    \A r \in Runs : run[r].status = "queued" /\ Served(r) ~> run[r].status \in Ended

(* What the runs give to Serves and to SYMMETRY.                           *)
AnyPreset         == [w \in Workers |-> {}]
ReliableIsChoosy  == [w \in Workers |-> IF w \in Reliable
                                        THEN {CHOOSE preset \in Presets : TRUE} ELSE {}]
Symmetry          == Permutations(Threads)
=============================================================================
