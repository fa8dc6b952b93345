---------------------------- MODULE CiRunsProofs ----------------------------
(***************************************************************************)
(* Theorems about CiRuns for every number of runs, workers, threads and    *)
(* faults.                                                                 *)
(*                                                                         *)
(* TypeOK alone is not inductive: the status worker_complete stores is in  *)
(* the schema only because the executor it answers has an outcome.  IInv   *)
(* adds what a handler may still rely on of the row it has read (HandlerOK)*)
(* and what a row says of its executor (ExecOK).  Evolves is the part of a *)
(* step's effect on a row that keeps HandlerOK true for all other handlers.*)
(***************************************************************************)
EXTENDS CiRuns, TLAPS

Started(r)   == run[r].status \notin {"absent", "queued"}
Asked(r)     == run[r].cancelRequested \/ run[r].status = "deleted"
Reported(r)  == exec[r].state \in {"reporting", "acked", "gone"}

HandlerOK(t) ==
    LET h == thread[t]  r == thread[t].run IN
    /\ h.op = "idle" => h = Idle
    /\ h.op \notin {"idle", "reap"} => r \in Runs /\ h.todo = {}
    /\ h.op \in {"claim", "heartbeat", "retry", "delete"} => h.step = "write"
    /\ h.op \in {"heartbeat", "complete"} => h.seen = "running"
    /\ h.op = "claim" => h.worker \in Workers
    /\ h.op = "heartbeat" => Started(r) /\ (h.flag => Asked(r) \/ run[r].status \in Ended)
    /\ h.op = "complete" =>
         /\ Reported(r) /\ exec[r].outcome \in Final /\ Started(r)
         /\ h.step = "write" /\ (h.flag \/ exec[r].outcome = "cancelled") => Asked(r)
         /\ h.step = "notify" => run[r].status \in Ended
    /\ h.op \in {"retry", "delete"} => run[r].status \in Ended
    /\ h.op = "cancel" => /\ run[r].status # "absent"
                          /\ h.step = "write" /\ run[r].status = "queued" => h.seen = "queued"
    /\ h.op = "reap" => /\ \A q \in h.todo : Started(q)
                        /\ h.step = "notify" => r \in Runs

ExecOK(r) ==
    LET s == run[r].status  e == exec[r] IN
    /\ s \in {"absent", "queued"} => e = NoExecutor
    /\ s \in {"absent", "queued", "deleted"} => run[r].worker = NoWorker
    /\ e.state = "none" => e = NoExecutor
    /\ e.state \in {"offered", "working"} => /\ s \in {"running", "failed", "deleted"}
                                             /\ e.outcome = "none"
    /\ e.state \in {"reporting", "acked"} => e.outcome \in Final
    /\ e.state = "acked" => s \in Ended
    /\ e.told \/ e.outcome = "cancelled" => run[r].cancelRequested \/ s \in Ended
    /\ s = "succeeded" => e.outcome = "succeeded"
    /\ s = "cancelled" => e.outcome # "succeeded" /\ run[r].cancelRequested

ParentOK(r) == run[r].parent # NoRun => run[run[r].parent].status \in Ended

IInv == /\ TypeOK
        /\ \A t \in Threads : HandlerOK(t)
        /\ \A r \in Runs : ExecOK(r) /\ ParentOK(r)

Evolves(r) ==
    /\ run[r].status # "absent" => run'[r].status # "absent"
    /\ Started(r) => Started(r)'
    /\ run[r].status \in Ended => run'[r].status \in Ended
    /\ Started(r) /\ Asked(r) => Asked(r)'
    /\ Reported(r) => Reported(r)' /\ exec'[r].outcome = exec[r].outcome

-----------------------------------------------------------------------------
(* A freshly submitted row, a handler at rest and a missing executor have  *)
(* the types of the table they are put in.                                 *)
LEMMA DefaultsTyped == NewRow \in Row /\ Idle \in Handler /\ NoExecutor \in Executor
BY DEF NewRow, Row, Idle, Handler, NoExecutor, Executor, Statuses, Final, NoRun

(* POST runs inserts a row that waits, with the preset that was asked for.  *)
LEMMA CreatedRow ==
    ASSUME NEW r \in Runs, CreateRun(r)
    PROVE  /\ run[r].status = "absent"
           /\ \E row \in Row : /\ run' = [run EXCEPT ![r] = row]
                              /\ row.status = "queued" /\ row.parent = NoRun /\ row.worker = NoWorker
<1>1. PICK preset \in Presets : run' = [run EXCEPT ![r] = [NewRow EXCEPT !.preset = preset]]
  BY DEF CreateRun
<1> DEFINE row == [NewRow EXCEPT !.preset = preset]
<1>2. row \in Row
  BY DefaultsTyped DEF Row
<1>3. row.status = "queued" /\ row.parent = NoRun /\ row.worker = NoWorker
  BY DEF NewRow
<1>4. run' = [run EXCEPT ![r] = row] /\ run[r].status = "absent"
  BY <1>1 DEF CreateRun, IsNext, Vacant
<1> HIDE DEF row
<1> QED BY <1>2, <1>3, <1>4

LEMMA IdNotZero == NoRun \notin Runs
BY DEF NoRun, Runs

(* A handler that does not move keeps what it relies on, when every row    *)
(* and executor evolves.                                                   *)
LEMMA HandlerStable ==
    ASSUME NEW t \in Threads, HandlerOK(t), thread \in [Threads -> Handler],
           thread'[t] = thread[t], \A r \in Runs : Evolves(r)
    PROVE  HandlerOK(t)'
<1> DEFINE h == thread[t]
<1>1. CASE h.op = "reap"
  <2>1. h.todo \subseteq Runs
    BY DEF Handler
  <2> QED BY <1>1, <2>1 DEF HandlerOK, Evolves, Started
<1>2. CASE h.op = "idle"
  BY <1>2 DEF HandlerOK, Idle
<1>3. CASE h.op \notin {"idle", "reap"}
  <2>1. h.run \in Runs /\ Evolves(h.run)
    BY <1>3 DEF HandlerOK
  <2> QED BY <1>3, <2>1 DEF HandlerOK, Evolves, Started, Asked, Reported
<1> QED BY <1>1, <1>2, <1>3

(* The shape of every step: the handler that moves is right about its row, *)
(* every row evolves and agrees with its executor.                         *)
LEMMA StepKeepsIInv ==
    ASSUME IInv, TypeOK', \A r \in Runs : Evolves(r),
           \A t \in Threads : thread'[t] = thread[t] \/ HandlerOK(t)',
           \A r \in Runs : (run'[r] = run[r] /\ exec'[r] = exec[r]) \/ ExecOK(r)',
           \A r \in Runs : run'[r].parent \in {run[r].parent, NoRun} \/ ParentOK(r)'
    PROVE  IInv'
<1>1. ASSUME NEW t \in Threads PROVE HandlerOK(t)'
  BY <1>1, HandlerStable DEF IInv, TypeOK
<1>2. ASSUME NEW r \in Runs PROVE ExecOK(r)'
  <2>1. CASE run'[r] = run[r] /\ exec'[r] = exec[r]
    BY <2>1 DEF IInv, ExecOK
  <2> QED BY <2>1
<1>3. ASSUME NEW r \in Runs PROVE ParentOK(r)'
  <2>1. CASE run'[r].parent = run[r].parent
    <3>1. run[r].parent \in Runs \cup {NoRun}
      BY DEF IInv, TypeOK, Row
    <3> QED BY <2>1, <3>1 DEF IInv, ParentOK, Evolves
  <2>2. CASE run'[r].parent = NoRun
    BY <2>2 DEF ParentOK
  <2> QED BY <2>1, <2>2
<1> QED BY <1>1, <1>2, <1>3 DEF IInv

(* A handler that begins, and touches neither the table nor an executor. *)
LEMMA BeginKeepsIInv ==
    ASSUME IInv, NEW t \in Threads, NEW h \in Handler,
           thread' = [thread EXCEPT ![t] = h], HandlerOK(t)',
           run' = run, exec' = exec, announced' = announced, faults' \in 0..MaxFaults
    PROVE  IInv'
<1>1. TypeOK'
  BY DEF IInv, TypeOK
<1>2. \A r \in Runs : Evolves(r)
  BY DEF Evolves, Started, Asked, Reported
<1>3. \A u \in Threads : thread'[u] = thread[u] \/ HandlerOK(u)'
  BY DEF IInv, TypeOK
<1> QED BY <1>1, <1>2, <1>3, StepKeepsIInv

(* The table is empty, the server idle and no executor exists at first. *)
LEMMA InitIInv == Init => IInv
<1> SUFFICES ASSUME Init PROVE IInv
  OBVIOUS
<1>1. [NewRow EXCEPT !.status = "absent"] \in Row
  BY DefaultsTyped DEF Row, Statuses
<1>2. 0 \in 0..MaxFaults
  BY RunsAssumption
<1>3. TypeOK
  BY DefaultsTyped, <1>1, <1>2 DEF Init, TypeOK
<1>4. \A t \in Threads : HandlerOK(t)
  BY DEF Init, HandlerOK, Idle
<1>5. \A r \in Runs : ExecOK(r) /\ ParentOK(r)
  BY DEF Init, ExecOK, ParentOK, NewRow, NoExecutor
<1> QED BY <1>3, <1>4, <1>5 DEF IInv

(* A step that changes the row and the executor of one run only. *)
LEMMA RowStepKeepsIInv ==
    ASSUME IInv, NEW r \in Runs,
           run' \in [Runs -> Row], thread' \in [Threads -> Handler],
           exec' \in [Runs -> Executor], announced' = announced, faults' \in 0..MaxFaults,
           \A q \in Runs \ {r} : run'[q] = run[q] /\ exec'[q] = exec[q],
           \A t \in Threads : thread'[t] = thread[t] \/ HandlerOK(t)',
           Evolves(r), ExecOK(r)', run'[r].parent \in {run[r].parent, NoRun} \/ ParentOK(r)'
    PROVE  IInv'
<1>1. TypeOK'
  BY DEF IInv, TypeOK
<1>2. \A q \in Runs \ {r} : Evolves(q)
  BY DEF Evolves, Started, Asked, Reported
<1> QED BY <1>1, <1>2, StepKeepsIInv

(* A handler that returns relies on nothing any more. *)
LEMMA ReturnOK ==
    ASSUME thread \in [Threads -> Handler], NEW t \in Threads, Return(t)
    PROVE  /\ thread' \in [Threads -> Handler]
           /\ \A u \in Threads : thread'[u] = thread[u] \/ HandlerOK(u)'
<1>1. thread'[t] = Idle /\ \A u \in Threads \ {t} : thread'[u] = thread[u]
  BY DEF Return, Goto
<1>2. HandlerOK(t)'
  BY <1>1 DEF HandlerOK, Idle
<1> QED BY <1>1, <1>2, DefaultsTyped DEF Return, Goto

(* What Store.update_run does to the row it is given. *)
LEMMA UpdateFacts ==
    ASSUME run \in [Runs -> Row], NEW r \in Runs, NEW STATE row, row \in Row, Update(r, row)
    PROVE  /\ run' \in [Runs -> Row]
           /\ \A q \in Runs \ {r} : run'[q] = run[q]
           /\ run'[r] = IF Exists(r) THEN row ELSE run[r]
BY DEF Update

(* Only an executor that still works can be told to stop. *)
LEMMA TellFacts ==
    ASSUME exec \in [Runs -> Executor], NEW r \in Runs, NEW STATE cancel, cancel \in BOOLEAN,
           Tell(r, cancel)
    PROVE  /\ exec' \in [Runs -> Executor] /\ \A q \in Runs \ {r} : exec'[q] = exec[q]
           /\ exec'[r].state = exec[r].state /\ exec'[r].outcome = exec[r].outcome
           /\ exec'[r].told => exec[r].told \/ (cancel /\ exec[r].state = "working")
           /\ exec'[r] = exec[r] \/ exec[r].state = "working"
<1>1. exec[r] \in Executor
  OBVIOUS
<1>2. CASE cancel /\ exec[r].state = "working"
  <2>1. [exec[r] EXCEPT !.told = TRUE] \in Executor
    BY <1>1 DEF Executor
  <2>2. exec' = [exec EXCEPT ![r] = [exec[r] EXCEPT !.told = TRUE]]
    BY <1>2 DEF Tell
  <2> QED BY <1>1, <1>2, <2>1, <2>2 DEF Executor
<1>3. CASE ~(cancel /\ exec[r].state = "working")
  BY <1>3 DEF Tell
<1> QED BY <1>2, <1>3

(* The handlers that only read, and remember what they have read. *)
LEMMA ReadsKeepIInv ==
    ASSUME IInv, NEW t \in Threads, NEW r \in Runs
    PROVE  /\ \A fresh \in BOOLEAN : RetryRead(t, r, fresh) => IInv'
           /\ CancelRead(t, r) => IInv'
           /\ DeleteRead(t, r) => IInv'
           /\ \A w \in Workers : ClaimSelect(t, w, r) => IInv'
           /\ ReapList(t) => IInv'
<1> USE DefaultsTyped DEF IInv
<1>1. ASSUME NEW fresh \in BOOLEAN, RetryRead(t, r, fresh) PROVE IInv'
  <2> DEFINE h == [[Idle EXCEPT !.run = r, !.preset = run[r].preset,
                      !.worker = IF fresh THEN NoWorker ELSE run[r].worker] EXCEPT !.op = "retry"]
  <2>1. run[r].worker \in Workers \cup {NoWorker} /\ run[r].preset \in Presets \cup {NoPreset}
    BY DEF TypeOK, Row
  <2>2. h \in Handler
    BY <2>1 DEF Handler
  <2>3. thread'[t] = h /\ run' = run /\ exec' = exec
    BY <1>1 DEF RetryRead, Begin, TypeOK
  <2>4. run[r].status \in Ended
    BY <1>1 DEF RetryRead, MayRetry, Ended
  <2>5. HandlerOK(t)'
    BY <2>3, <2>4 DEF HandlerOK, Idle
  <2>6. thread' = [thread EXCEPT ![t] = h] /\ announced' = announced /\ faults' = faults
    BY <1>1 DEF RetryRead, Begin
  <2> HIDE DEF h
  <2> QED BY <2>2, <2>3, <2>5, <2>6, BeginKeepsIInv DEF TypeOK
<1>2. ASSUME CancelRead(t, r) PROVE IInv'
  <2> DEFINE h == [[Idle EXCEPT !.run = r, !.seen = run[r].status] EXCEPT !.op = "cancel"]
  <2>1. run[r].status \in Statuses
    BY DEF TypeOK, Row
  <2>2. h \in Handler
    BY <2>1 DEF Handler
  <2>3. thread'[t] = h /\ run' = run /\ exec' = exec
    BY <1>2 DEF CancelRead, Begin, TypeOK
  <2>4. run[r].status \in {"queued", "running"}
    BY <1>2 DEF CancelRead
  <2>5. HandlerOK(t)'
    BY <2>3, <2>4 DEF HandlerOK, Idle
  <2>6. thread' = [thread EXCEPT ![t] = h] /\ announced' = announced /\ faults' = faults
    BY <1>2 DEF CancelRead, Begin
  <2> HIDE DEF h
  <2> QED BY <2>2, <2>3, <2>5, <2>6, BeginKeepsIInv DEF TypeOK
<1>3. ASSUME DeleteRead(t, r) PROVE IInv'
  <2> DEFINE h == [[Idle EXCEPT !.run = r] EXCEPT !.op = "delete"]
  <2>1. h \in Handler
    BY DEF Handler
  <2>2. thread'[t] = h /\ run' = run /\ exec' = exec
    BY <1>3 DEF DeleteRead, Begin, TypeOK
  <2>3. run[r].status \in Ended
    BY <1>3 DEF DeleteRead, Ended
  <2>4. HandlerOK(t)'
    BY <2>2, <2>3 DEF HandlerOK, Idle
  <2>5. thread' = [thread EXCEPT ![t] = h] /\ announced' = announced /\ faults' = faults
    BY <1>3 DEF DeleteRead, Begin
  <2> HIDE DEF h
  <2> QED BY <2>1, <2>2, <2>4, <2>5, BeginKeepsIInv DEF TypeOK
<1>4. ASSUME NEW w \in Workers, ClaimSelect(t, w, r) PROVE IInv'
  <2> DEFINE h == [[Idle EXCEPT !.run = r, !.worker = w] EXCEPT !.op = "claim"]
  <2>1. h \in Handler
    BY DEF Handler
  <2>2. thread'[t] = h /\ run' = run /\ exec' = exec
    BY <1>4 DEF ClaimSelect, Begin, TypeOK
  <2>3. HandlerOK(t)'
    BY <2>2 DEF HandlerOK, Idle
  <2>4. thread' = [thread EXCEPT ![t] = h] /\ announced' = announced /\ faults' = faults
    BY <1>4 DEF ClaimSelect, Begin
  <2> HIDE DEF h
  <2> QED BY <2>1, <2>2, <2>3, <2>4, BeginKeepsIInv DEF TypeOK
<1>5. ASSUME ReapList(t) PROVE IInv'
  <2> DEFINE todo == {q \in Runs : run[q].status = "running" /\ run[q].stale}
             h == [[Idle EXCEPT !.todo = todo] EXCEPT !.op = "reap"]
  <2>1. h \in Handler
    BY DEF Handler
  <2>2. thread'[t] = h /\ run' = run /\ exec' = exec
    BY <1>5 DEF ReapList, Begin, TypeOK
  <2>3. HandlerOK(t)'
    BY <2>2 DEF HandlerOK, Idle, Started
  <2>4. thread' = [thread EXCEPT ![t] = h] /\ announced' = announced /\ faults' = faults
    BY <1>5 DEF ReapList, Begin
  <2> HIDE DEF h
  <2> QED BY <2>1, <2>2, <2>3, <2>4, BeginKeepsIInv DEF TypeOK
<1> QED BY <1>1, <1>2, <1>3, <1>4, <1>5

(* What the users' and the workers' handlers write. *)
LEMMA CancelWriteKeepsIInv == ASSUME IInv, NEW t \in Threads, CancelWrite(t) PROVE IInv'
<1>0. PICK r \in Runs : r = thread[t].run
  BY DEF CancelWrite, IInv, HandlerOK, At
<1> DEFINE row == CASE run[r].status = "queued"  -> [run[r] EXCEPT !.status = "cancelled",
                                                               !.cancelRequested = TRUE]
                    [] run[r].status = "running" -> [run[r] EXCEPT !.cancelRequested = TRUE]
                    [] OTHER                     -> run[r]
<1>1. /\ r \in Runs /\ HandlerOK(t) /\ ExecOK(r) /\ run[r] \in Row
      /\ run' = [run EXCEPT ![r] = row] /\ exec' = exec
      /\ run[r].status # "absent"
  BY <1>0 DEF CancelWrite, IInv, TypeOK, HandlerOK, At
<1>2. row \in Row
  BY <1>1 DEF Row, Statuses, Final
<1>3. run' \in [Runs -> Row] /\ run'[r] = row /\ \A q \in Runs \ {r} : run'[q] = run[q]
  BY <1>1, <1>2 DEF IInv, TypeOK
<1>f. /\ run'[r].status = IF run[r].status = "queued" THEN "cancelled" ELSE run[r].status
      /\ run[r].cancelRequested => run'[r].cancelRequested
      /\ run[r].status = "queued" => run'[r].cancelRequested
      /\ run'[r].parent = run[r].parent
      /\ exec'[r] = exec[r]
  <2>1. CASE run[r].status = "queued"
    BY <1>1, <1>3, <2>1 DEF Row
  <2>2. CASE run[r].status = "running"
    BY <1>1, <1>3, <2>2 DEF Row
  <2>3. CASE run[r].status \notin {"queued", "running"}
    BY <1>1, <1>3, <2>3 DEF Row
  <2> QED BY <2>1, <2>2, <2>3
<1>4. Evolves(r)
  BY <1>1, <1>f DEF Evolves, Started, Asked, Reported, Ended, Final
<1>5. ExecOK(r)'
  BY <1>1, <1>f DEF ExecOK, Ended, Final, NoExecutor
<1>6. run'[r].parent = run[r].parent
  BY <1>f
<1>7. thread' \in [Threads -> Handler]
  <2>1. [thread[t] EXCEPT !.step = "notify"] \in Handler
    BY DEF IInv, TypeOK, Handler
  <2> QED BY <2>1, DefaultsTyped DEF CancelWrite, Goto, Return, IInv, TypeOK
<1>8. \A u \in Threads : thread'[u] = thread[u] \/ HandlerOK(u)'
  <2>1. thread'[t] \in {Idle, [thread[t] EXCEPT !.step = "notify"]}
    BY DEF CancelWrite, Goto, Return, IInv, TypeOK
  <2>2. run'[r].status # "absent"
    BY <1>1, <1>4 DEF Evolves
  <2>3. HandlerOK(t)'
    <3>1. CASE thread'[t] = Idle
      BY <3>1 DEF HandlerOK, Idle
    <3>2. CASE thread'[t] = [thread[t] EXCEPT !.step = "notify"]
      <4>1. /\ thread'[t].op = "cancel" /\ thread'[t].step = "notify"
            /\ thread'[t].run = r /\ thread'[t].todo = {}
        BY <1>0, <1>1, <3>2 DEF CancelWrite, At, HandlerOK, IInv, TypeOK, Handler
      <4> QED BY <1>1, <2>2, <4>1 DEF HandlerOK
    <3> QED BY <2>1, <3>1, <3>2
  <2> QED BY <2>3 DEF CancelWrite, Goto, Return, IInv, TypeOK
<1>9. announced' = announced /\ faults' \in 0..MaxFaults /\ exec' \in [Runs -> Executor]
  BY DEF CancelWrite, IInv, TypeOK
<1> HIDE DEF row
<1> QED BY <1>1, <1>3, <1>4, <1>5, <1>6, <1>7, <1>8, <1>9, RowStepKeepsIInv

LEMMA HeartbeatWriteKeepsIInv == ASSUME IInv, NEW t \in Threads, HeartbeatWrite(t) PROVE IInv'
<1>0. PICK r \in Runs : r = thread[t].run
  BY DEF HeartbeatWrite, IInv, HandlerOK, At
<1> DEFINE row == [run[r] EXCEPT !.stale = FALSE, !.results = "partial"]
<1>1. /\ HandlerOK(t) /\ ExecOK(r) /\ run[r] \in Row /\ exec[r] \in Executor
      /\ Started(r) /\ (thread[t].flag => Asked(r) \/ run[r].status \in Ended)
      /\ thread[t].flag \in BOOLEAN
  BY <1>0 DEF HeartbeatWrite, IInv, TypeOK, HandlerOK, At, Handler
<1>2. /\ row \in Row /\ row.status = run[r].status /\ row.parent = run[r].parent
      /\ row.worker = run[r].worker
      /\ row.cancelRequested = run[r].cancelRequested
  BY <1>1 DEF Row
<1>3. Update(r, row)
  BY <1>0 DEF HeartbeatWrite
<1>4. /\ run' \in [Runs -> Row]
      /\ \A q \in Runs \ {r} : run'[q] = run[q]
      /\ run'[r] = IF Exists(r) THEN row ELSE run[r]
  <2> HIDE DEF row
  <2> QED BY <1>2, <1>3, UpdateFacts DEF IInv, TypeOK
<1>5. /\ run'[r].status = run[r].status /\ run'[r].parent = run[r].parent
      /\ run'[r].worker = run[r].worker
      /\ run'[r].cancelRequested = run[r].cancelRequested
  BY <1>2, <1>4
<1>6. /\ exec' \in [Runs -> Executor] /\ \A q \in Runs \ {r} : exec'[q] = exec[q]
      /\ exec'[r].state = exec[r].state /\ exec'[r].outcome = exec[r].outcome
      /\ exec'[r].told => exec[r].told \/ (thread[t].flag /\ exec[r].state = "working")
      /\ exec'[r] = exec[r] \/ exec[r].state = "working"
  BY <1>0, <1>1, TellFacts DEF HeartbeatWrite, IInv, TypeOK
<1>7. Evolves(r)
  BY <1>5, <1>6 DEF Evolves, Started, Asked, Reported
<1>8. ExecOK(r)'
  BY <1>1, <1>5, <1>6 DEF ExecOK, Asked, Ended, Final
<1>9. thread' \in [Threads -> Handler] /\ \A u \in Threads : thread'[u] = thread[u] \/ HandlerOK(u)'
  BY ReturnOK DEF HeartbeatWrite, IInv, TypeOK
<1>10. announced' = announced /\ faults' \in 0..MaxFaults
  BY DEF HeartbeatWrite, IInv, TypeOK
<1> QED BY <1>4, <1>5, <1>6, <1>7, <1>8, <1>9, <1>10, RowStepKeepsIInv

LEMMA RetryInsertKeepsIInv ==
    ASSUME IInv, NEW t \in Threads, NEW r \in Runs, RetryInsert(t, r) PROVE IInv'
<1> DEFINE row == [NewRow EXCEPT !.parent = thread[t].run, !.preset = thread[t].preset,
                                 !.hint = thread[t].worker]
<1>1. /\ thread[t].run \in Runs /\ run[thread[t].run].status \in Ended
      /\ thread[t].worker \in Workers \cup {NoWorker} /\ thread[t].preset \in Presets \cup {NoPreset}
  BY DEF RetryInsert, At, IInv, HandlerOK, TypeOK, Handler
<1>2. row \in Row /\ row.status = "queued" /\ row.worker = NoWorker /\ row.parent = thread[t].run
  BY <1>1, DefaultsTyped DEF Row, NewRow
<1>3. run' = [run EXCEPT ![r] = row] /\ exec' = exec /\ run[r].status = "absent"
  BY DEF RetryInsert, IsNext, Vacant
<1>4. /\ run' \in [Runs -> Row] /\ run'[r] = row
      /\ \A q \in Runs \ {r} : run'[q] = run[q]
  BY <1>2, <1>3 DEF IInv, TypeOK
<1>5. exec[r] = NoExecutor
  BY <1>3 DEF IInv, ExecOK
<1>6. Evolves(r)
  BY <1>2, <1>3, <1>4, <1>5 DEF Evolves, Started, Asked, Reported, Ended, Final, NoExecutor, NewRow
<1>7. ExecOK(r)'
  BY <1>2, <1>3, <1>4, <1>5 DEF ExecOK, NoExecutor, Ended, Final
<1>8. ParentOK(r)'
  <2> PICK q \in Runs : q = thread[t].run
    BY <1>1
  <2>1. q # r
    BY <1>1, <1>3 DEF Ended, Final
  <2> QED BY <1>1, <1>2, <1>4, <2>1 DEF ParentOK
<1>9. thread' \in [Threads -> Handler] /\ \A u \in Threads : thread'[u] = thread[u] \/ HandlerOK(u)'
  BY ReturnOK DEF RetryInsert, IInv, TypeOK
<1>10. announced' = announced /\ faults' \in 0..MaxFaults /\ exec' \in [Runs -> Executor]
  BY DEF RetryInsert, IInv, TypeOK
<1> QED BY <1>3, <1>4, <1>6, <1>7, <1>8, <1>9, <1>10, RowStepKeepsIInv

LEMMA DeleteWriteKeepsIInv == ASSUME IInv, NEW t \in Threads, DeleteWrite(t) PROVE IInv'
<1>0. PICK r \in Runs : r = thread[t].run
  BY DEF DeleteWrite, IInv, HandlerOK, At
<1> DEFINE row == [NewRow EXCEPT !.status = "deleted"]
<1>1. row \in Row /\ row.status = "deleted" /\ row.parent = NoRun /\ row.worker = NoWorker
  BY DefaultsTyped DEF Row, NewRow, Statuses
<1>2. run[r].status \in Ended /\ ExecOK(r)
  BY <1>0 DEF DeleteWrite, At, IInv, HandlerOK
<1>3. run' \in [Runs -> Row] /\ run'[r] = row /\ \A q \in Runs \ {r} : run'[q] = run[q]
  BY <1>0, <1>1 DEF DeleteWrite, IInv, TypeOK
<1>4. exec' = exec /\ announced' = announced /\ faults' \in 0..MaxFaults
      /\ exec' \in [Runs -> Executor]
  BY DEF DeleteWrite, IInv, TypeOK
<1>5. Evolves(r)
  BY <1>1, <1>2, <1>3, <1>4 DEF Evolves, Started, Asked, Reported, Ended
<1>6. ExecOK(r)'
  BY <1>1, <1>2, <1>3, <1>4 DEF ExecOK, Ended, Final
<1>7. thread' \in [Threads -> Handler] /\ \A u \in Threads : thread'[u] = thread[u] \/ HandlerOK(u)'
  BY ReturnOK DEF DeleteWrite, IInv, TypeOK
<1> QED BY <1>1, <1>3, <1>4, <1>5, <1>6, <1>7, RowStepKeepsIInv

LEMMA ClaimUpdateKeepsIInv == ASSUME IInv, NEW t \in Threads, ClaimUpdate(t) PROVE IInv'
<1>0. PICK r \in Runs : r = thread[t].run
  BY DEF ClaimUpdate, IInv, HandlerOK, At
<1> DEFINE row == [run[r] EXCEPT !.status = "running", !.stale = FALSE,
                                 !.worker = thread[t].worker]
           executor == [exec[r] EXCEPT !.state = "offered"]
<1>1. /\ run[r] \in Row /\ exec[r] \in Executor /\ ExecOK(r)
      /\ thread[t].worker \in Workers
  BY <1>0 DEF ClaimUpdate, At, IInv, HandlerOK, TypeOK, Handler
<1>2. /\ row \in Row /\ row.status = "running" /\ row.parent = run[r].parent
      /\ row.cancelRequested = run[r].cancelRequested
      /\ executor \in Executor /\ executor.state = "offered"
  BY <1>1 DEF Row, Executor, Statuses
<1>3. CASE StillQueued(r)
  <2>1. run' = [run EXCEPT ![r] = row] /\ exec' = [exec EXCEPT ![r] = executor]
    BY <1>0, <1>3 DEF ClaimUpdate, Become
  <2>2. /\ run' \in [Runs -> Row] /\ exec' \in [Runs -> Executor]
        /\ run'[r] = row /\ exec'[r] = executor
        /\ \A q \in Runs \ {r} : run'[q] = run[q] /\ exec'[q] = exec[q]
    BY <1>2, <2>1 DEF IInv, TypeOK
  <2>3. run[r].status = "queued" /\ exec[r] = NoExecutor
    BY <1>1, <1>3 DEF StillQueued, ExecOK
  <2>r. ~executor.told /\ executor.outcome = "none"
    BY <2>3 DEF NoExecutor
  <2> HIDE DEF row, executor
  <2>4. Evolves(r)
    BY <1>2, <2>2, <2>3 DEF Evolves, Started, Asked, Reported, Ended, Final, NoExecutor
  <2>5. ExecOK(r)'
    <3>1. /\ run'[r].status = "running" /\ exec'[r].state = "offered"
          /\ exec'[r].outcome = "none" /\ ~exec'[r].told
      BY <1>2, <2>2, <2>r
    <3> QED BY <3>1 DEF ExecOK, Final
  <2>6. /\ thread' \in [Threads -> Handler]
        /\ \A u \in Threads : thread'[u] = thread[u] \/ HandlerOK(u)'
    BY ReturnOK DEF ClaimUpdate, IInv, TypeOK
  <2>7. announced' = announced /\ faults' \in 0..MaxFaults
    BY DEF ClaimUpdate, IInv, TypeOK
  <2> QED BY <1>2, <2>2, <2>4, <2>5, <2>6, <2>7, RowStepKeepsIInv
<1>4. CASE ~StillQueued(r)
  <2>1. run' = run /\ exec' = exec /\ announced' = announced /\ faults' = faults
    BY <1>0, <1>4 DEF ClaimUpdate
  <2>2. thread' = [thread EXCEPT ![t] = Idle] /\ HandlerOK(t)'
    BY DEF ClaimUpdate, Return, Goto, HandlerOK, Idle, IInv, TypeOK
  <2>3. faults' \in 0..MaxFaults
    BY <2>1 DEF IInv, TypeOK
  <2> QED BY <2>1, <2>2, <2>3, DefaultsTyped, BeginKeepsIInv
<1> QED BY <1>3, <1>4

LEMMA CompleteWriteKeepsIInv == ASSUME IInv, NEW t \in Threads, CompleteWrite(t) PROVE IInv'
<1>0. PICK r \in Runs : r = thread[t].run
  BY DEF CompleteWrite, IInv, HandlerOK, At
<1> DEFINE status == StatusToStore(thread[t])
           row == [run[r] EXCEPT !.status = status, !.stale = FALSE, !.results = "final"]
           after == [thread[t] EXCEPT !.step = "notify"]
<1>1. /\ run[r] \in Row /\ exec[r] \in Executor /\ ExecOK(r) /\ HandlerOK(t)
      /\ thread[t] \in Handler /\ thread[t].op = "complete" /\ thread[t].step = "write"
  BY <1>0 DEF CompleteWrite, At, IInv, TypeOK
<1>2. /\ Reported(r) /\ exec[r].outcome \in Final /\ Started(r) /\ thread[t].todo = {} /\ thread[t].seen = "running"
      /\ thread[t].flag \/ exec[r].outcome = "cancelled" => Asked(r)
  BY <1>0, <1>1 DEF HandlerOK
<1>3. /\ status \in Final
      /\ status = "succeeded" => exec[r].outcome = "succeeded"
      /\ status = "cancelled" => exec[r].outcome # "succeeded" /\ Asked(r)
  BY <1>0, <1>2 DEF StatusToStore, Final
<1> HIDE DEF status
<1>4. /\ row \in Row /\ row.status = status /\ row.parent = run[r].parent
      /\ row.cancelRequested = run[r].cancelRequested
  BY <1>1, <1>3 DEF Row, Statuses
<1>5. Update(r, row)
  BY <1>0 DEF CompleteWrite, status
<1> HIDE DEF row
<1>6. /\ run' \in [Runs -> Row] /\ \A q \in Runs \ {r} : run'[q] = run[q]
      /\ run'[r] = IF Exists(r) THEN row ELSE run[r]
  BY <1>4, <1>5, UpdateFacts DEF IInv, TypeOK
<1>7. exec' = exec /\ announced' = announced /\ faults' \in 0..MaxFaults
      /\ exec' \in [Runs -> Executor]
  BY DEF CompleteWrite, IInv, TypeOK
<1>8. ASSUME Exists(r)
      PROVE  Evolves(r) /\ ExecOK(r)' /\ run'[r].parent = run[r].parent /\ run'[r].status \in Ended
  <2>1. run'[r] = row /\ run[r].status # "deleted"
    BY <1>6, <1>8 DEF Exists
  <2>2. Evolves(r)
    BY <1>2, <1>3, <1>4, <1>7, <2>1 DEF Evolves, Started, Asked, Reported, Ended, Final
  <2>3. ExecOK(r)'
    BY <1>1, <1>2, <1>3, <1>4, <1>7, <2>1 DEF ExecOK, Asked, Reported, Started, Ended, Final
  <2>4. run'[r].parent = run[r].parent /\ run'[r].status \in Ended
    BY <1>3, <1>4, <2>1 DEF Ended
  <2> QED BY <2>2, <2>3, <2>4
<1>9. ASSUME ~Exists(r)
      PROVE  Evolves(r) /\ ExecOK(r)' /\ run'[r].parent = run[r].parent /\ run'[r].status \in Ended
  <2>1. run'[r] = run[r] /\ run[r].status = "deleted"
    BY <1>2, <1>6, <1>9 DEF Exists, Started
  <2>2. Evolves(r) /\ ExecOK(r)'
    BY <1>1, <1>7, <2>1 DEF Evolves, Started, Asked, Reported, ExecOK
  <2> QED BY <2>1, <2>2 DEF Ended
<1>10. Evolves(r) /\ ExecOK(r)' /\ run'[r].parent = run[r].parent /\ run'[r].status \in Ended
  BY <1>8, <1>9
<1>11. thread'[t] = after /\ after \in Handler /\ \A u \in Threads \ {t} : thread'[u] = thread[u]
  BY <1>1 DEF CompleteWrite, Goto, IInv, TypeOK, Handler
<1>12. after.op = "complete" /\ after.step = "notify" /\ after.run = r
       /\ after.todo = {} /\ after.seen = "running"
  BY <1>0, <1>1, <1>2 DEF Handler
<1> HIDE DEF after
<1>13. HandlerOK(t)'
  BY <1>2, <1>7, <1>10, <1>11, <1>12 DEF HandlerOK, Evolves, Reported
<1>14. thread' \in [Threads -> Handler] /\ \A u \in Threads : thread'[u] = thread[u] \/ HandlerOK(u)'
  BY <1>11, <1>13 DEF CompleteWrite, Goto, IInv, TypeOK, after
<1> QED BY <1>6, <1>7, <1>10, <1>14, RowStepKeepsIInv

LEMMA ReapWriteKeepsIInv ==
    ASSUME IInv, NEW t \in Threads, NEW r \in Runs, ReapWrite(t, r) PROVE IInv'
<1> DEFINE row == [run[r] EXCEPT !.status = "failed", !.stale = FALSE]
           after == [thread[t] EXCEPT !.step = "notify", !.run = r, !.todo = @ \ {r}]
<1>1. /\ run[r] \in Row /\ ExecOK(r) /\ HandlerOK(t) /\ thread[t] \in Handler
      /\ thread[t].op = "reap" /\ r \in thread[t].todo
  BY DEF ReapWrite, At, IInv, TypeOK
<1>2. Started(r)
  BY <1>1 DEF HandlerOK
<1>3. /\ row \in Row /\ row.status = "failed" /\ row.parent = run[r].parent
      /\ row.cancelRequested = run[r].cancelRequested
  BY <1>1 DEF Row, Statuses, Final
<1>4. Update(r, row)
  BY DEF ReapWrite
<1> HIDE DEF row
<1>5. /\ run' \in [Runs -> Row] /\ \A q \in Runs \ {r} : run'[q] = run[q]
      /\ run'[r] = IF Exists(r) THEN row ELSE run[r]
  BY <1>3, <1>4, UpdateFacts DEF IInv, TypeOK
<1>6. exec' = exec /\ announced' = announced /\ faults' \in 0..MaxFaults
      /\ exec' \in [Runs -> Executor]
  BY DEF ReapWrite, IInv, TypeOK
<1>7. ASSUME Exists(r) PROVE Evolves(r) /\ ExecOK(r)'
  <2>1. run'[r] = row /\ run[r].status # "deleted"
    BY <1>5, <1>7 DEF Exists
  <2> QED BY <1>1, <1>2, <1>3, <1>6, <2>1
          DEF Evolves, ExecOK, Started, Asked, Reported, Ended, Final
<1>8. ASSUME ~Exists(r) PROVE Evolves(r) /\ ExecOK(r)'
  <2>1. run'[r] = run[r]
    BY <1>5, <1>8
  <2> QED BY <1>1, <1>6, <2>1 DEF Evolves, Started, Asked, Reported, ExecOK
<1>9. run'[r].parent = run[r].parent
  BY <1>3, <1>5
<1>10. after \in Handler /\ after.op = "reap" /\ after.run = r /\ after.todo = thread[t].todo \ {r}
  BY <1>1 DEF Handler
<1>11. thread' = [thread EXCEPT ![t] = after]
  BY DEF ReapWrite, Goto
<1> HIDE DEF after
<1>12. thread' \in [Threads -> Handler] /\ thread'[t] = after
       /\ \A u \in Threads \ {t} : thread'[u] = thread[u]
  BY <1>10, <1>11 DEF IInv, TypeOK
<1>13. \A q \in Runs : Evolves(q)
  BY <1>5, <1>6, <1>7, <1>8 DEF Evolves, Started, Asked, Reported
<1>14. HandlerOK(t)'
  <2>1. thread[t].todo \subseteq Runs
    BY <1>1 DEF Handler
  <2> QED BY <1>1, <1>10, <1>12, <1>13, <2>1 DEF HandlerOK, Evolves, Started
<1> QED BY <1>5, <1>6, <1>7, <1>8, <1>9, <1>12, <1>14, RowStepKeepsIInv

LEMMA NotifyKeepsIInv == ASSUME IInv, NEW t \in Threads, Notify(t) PROVE IInv'
<1>1. HandlerOK(t) /\ thread[t] \in Handler /\ thread[t].step = "notify"
  BY DEF Notify, IInv, TypeOK
<1>2. /\ thread[t].op \in {"complete", "cancel", "reap"} /\ thread[t].run \in Runs
      /\ thread[t].op # "reap" => thread[t].todo = {}
  BY <1>1 DEF HandlerOK, Handler, Idle
<1>3. PICK r \in Runs : r = thread[t].run
  BY <1>2
<1>4. /\ run' = run /\ faults' = faults /\ run' \in [Runs -> Row] /\ faults' \in 0..MaxFaults
      /\ announced' \in [Runs -> {"none", "early", "over"}]
  BY <1>3 DEF Notify, IInv, TypeOK
<1>5. ExecOK(r) /\ exec[r] \in Executor
  BY DEF IInv, TypeOK
<1>6. \/ exec' = exec
      \/ /\ exec[r].state = "reporting" /\ thread[t].op = "complete" /\ Become(r, "acked")
  BY <1>3 DEF Notify, Reply
<1>7. /\ exec' \in [Runs -> Executor] /\ (\A q \in Runs \ {r} : exec'[q] = exec[q])
      /\ Evolves(r) /\ ExecOK(r)'
  <2>1. CASE exec' = exec
    BY <1>4, <1>5, <2>1 DEF Evolves, Started, Asked, Reported, ExecOK, IInv, TypeOK
  <2>2. CASE exec' # exec
    <3> DEFINE e == [exec[r] EXCEPT !.state = "acked"]
    <3>1. /\ exec[r].state = "reporting" /\ run[r].status \in Ended
          /\ exec' = [exec EXCEPT ![r] = e]
      BY <1>1, <1>3, <1>6, <2>2 DEF Become, HandlerOK
    <3>2. /\ e \in Executor /\ e.state = "acked" /\ e.outcome = exec[r].outcome
          /\ e.told => exec[r].told
      BY <1>5 DEF Executor
    <3>3. exec' \in [Runs -> Executor] /\ exec'[r] = e /\ \A q \in Runs \ {r} : exec'[q] = exec[q]
      BY <3>1, <3>2 DEF IInv, TypeOK
    <3> HIDE DEF e
    <3>4. Evolves(r)
      BY <1>4, <3>1, <3>2, <3>3 DEF Evolves, Started, Asked, Reported
    <3>5. ExecOK(r)'
      BY <1>4, <1>5, <3>1, <3>2, <3>3 DEF ExecOK, Ended, Final, NoExecutor
    <3> QED BY <3>3, <3>4, <3>5
  <2> QED BY <2>1, <2>2
<1>8. thread' \in [Threads -> Handler] /\ \A u \in Threads : thread'[u] = thread[u] \/ HandlerOK(u)'
  <2>1. CASE thread[t].todo = {}
    BY <2>1, ReturnOK DEF Notify, IInv, TypeOK
  <2>2. CASE thread[t].todo # {}
    <3> DEFINE h == [thread[t] EXCEPT !.step = "write"]
    <3>1. thread' = [thread EXCEPT ![t] = h] /\ thread[t].op = "reap"
      BY <1>2, <2>2 DEF Notify, Goto
    <3>2. h \in Handler /\ h.op = "reap" /\ h.step = "write" /\ h.todo = thread[t].todo
      BY <1>1, <3>1 DEF Handler
    <3> HIDE DEF h
    <3>3. thread' \in [Threads -> Handler] /\ thread'[t] = h
          /\ \A u \in Threads \ {t} : thread'[u] = thread[u]
      BY <3>1, <3>2 DEF IInv, TypeOK
    <3>4. HandlerOK(t)'
      BY <1>1, <1>4, <3>1, <3>2, <3>3 DEF HandlerOK, Started
    <3> QED BY <3>3, <3>4
  <2> QED BY <2>1, <2>2
<1>9. \A q \in Runs : Evolves(q)
  BY <1>4, <1>7 DEF Evolves, Started, Asked, Reported
<1>10. TypeOK'
  BY <1>4, <1>7, <1>8 DEF TypeOK
<1> QED BY <1>4, <1>7, <1>8, <1>9, <1>10, StepKeepsIInv

(* The handlers a worker calls: what they read, and the answers they give  *)
(* at once to a worker whose run is not active any more.                   *)
LEMMA HeartbeatReadKeepsIInv ==
    ASSUME IInv, NEW t \in Threads, NEW r \in Runs, HeartbeatRead(t, r) PROVE IInv'
<1>1. CASE AcceptsBeat(r)
  <2> DEFINE h == [WithRow(r) EXCEPT !.op = "heartbeat"]
  <2>1. run[r] \in Row /\ run[r].status = "running"
    BY <1>1 DEF AcceptsBeat, IInv, TypeOK
  <2>2. /\ h \in Handler /\ h.op = "heartbeat" /\ h.step = "write" /\ h.run = r
        /\ h.todo = {} /\ h.seen = "running" /\ (h.flag => run[r].cancelRequested)
    BY <2>1, DefaultsTyped DEF WithRow, Idle, Handler, Row
  <2>3. thread' = [thread EXCEPT ![t] = h] /\ run' = run /\ exec' = exec
        /\ announced' = announced /\ faults' \in 0..MaxFaults
    BY <1>1 DEF HeartbeatRead, Begin, IInv, TypeOK
  <2> HIDE DEF h
  <2>4. HandlerOK(t)'
    <3>1. thread'[t] = h
      BY <2>3 DEF IInv, TypeOK
    <3> QED BY <2>1, <2>2, <2>3, <3>1 DEF HandlerOK, Started, Asked
  <2> QED BY <2>2, <2>3, <2>4, BeginKeepsIInv
<1>2. CASE ~AcceptsBeat(r)
  <2>1. /\ Tell(r, Exists(r)) /\ Exists(r) \in BOOLEAN
        /\ run' = run /\ thread' = thread /\ announced' = announced /\ faults' \in 0..MaxFaults
        /\ run' \in [Runs -> Row] /\ thread' \in [Threads -> Handler]
    BY <1>2 DEF HeartbeatRead, Exists, IInv, TypeOK
  <2>2. /\ exec' \in [Runs -> Executor] /\ \A q \in Runs \ {r} : exec'[q] = exec[q]
        /\ exec'[r].state = exec[r].state /\ exec'[r].outcome = exec[r].outcome
        /\ exec'[r] = exec[r] \/ exec[r].state = "working"
    BY <2>1, TellFacts DEF IInv, TypeOK
  <2>3. ExecOK(r) /\ run[r].status # "running"
    BY <1>2 DEF AcceptsBeat, IInv
  <2>4. Evolves(r)
    BY <2>1, <2>2 DEF Evolves, Started, Asked, Reported
  <2>5. ExecOK(r)'
    BY <2>1, <2>2, <2>3 DEF ExecOK, Ended, Final
  <2> QED BY <2>1, <2>2, <2>4, <2>5, RowStepKeepsIInv
<1> QED BY <1>1, <1>2

LEMMA CompleteReadKeepsIInv ==
    ASSUME IInv, NEW t \in Threads, NEW r \in Runs, CompleteRead(t, r) PROVE IInv'
<1>1. /\ run[r] \in Row /\ exec[r] \in Executor /\ exec[r].state = "reporting" /\ ExecOK(r)
      /\ run' = run /\ announced' = announced /\ run' \in [Runs -> Row]
  BY DEF CompleteRead, ReadyToReport, IInv, TypeOK
<1>2. faults' \in 0..MaxFaults
  BY RunsAssumption DEF CompleteRead, Fault, IInv, TypeOK
<1>3. ASSUME NEW state \in {"acked", "gone"}, Reply(r, state), thread' = thread,
             state = "acked" => run[r].status \in Ended
      PROVE  IInv'
  <2> DEFINE e == [exec[r] EXCEPT !.state = state]
  <2>1. /\ e \in Executor /\ e.state = state /\ e.outcome = exec[r].outcome
        /\ e.told => exec[r].told
    BY <1>1 DEF Executor
  <2>2. exec' = [exec EXCEPT ![r] = e]
    BY <1>1, <1>3 DEF Reply, Become
  <2>3. exec' \in [Runs -> Executor] /\ exec'[r] = e /\ \A q \in Runs \ {r} : exec'[q] = exec[q]
    BY <2>1, <2>2 DEF IInv, TypeOK
  <2> HIDE DEF e
  <2>4. Evolves(r)
    BY <1>1, <2>1, <2>3 DEF Evolves, Started, Asked, Reported
  <2>5. ExecOK(r)'
    BY <1>1, <1>3, <2>1, <2>3 DEF ExecOK, Ended, Final, NoExecutor
  <2>6. thread' \in [Threads -> Handler]
    BY <1>3 DEF IInv, TypeOK
  <2> QED BY <1>1, <1>2, <1>3, <2>3, <2>4, <2>5, <2>6, RowStepKeepsIInv
<1>4. CASE ~Exists(r)
  BY <1>3, <1>4 DEF CompleteRead
<1>5. CASE Exists(r) /\ IsClosed(r)
  <2>1. run[r].status \in Ended
    BY <1>5 DEF IsClosed, Ended
  <2> QED BY <1>3, <1>5, <2>1 DEF CompleteRead
<1>6. CASE Exists(r) /\ ~IsClosed(r)
  <2> DEFINE h == [WithRow(r) EXCEPT !.op = "complete"]
  <2>1. /\ h \in Handler /\ h.op = "complete" /\ h.step = "write" /\ h.run = r
        /\ h.todo = {} /\ h.seen = run[r].status /\ (h.flag => run[r].cancelRequested)
    BY <1>1, DefaultsTyped DEF WithRow, Idle, Handler, Row
  <2>2. thread' = [thread EXCEPT ![t] = h] /\ exec' = exec
    BY <1>6 DEF CompleteRead, Begin, AckAfterNotify
  <2>3. run[r].status = "running"
    BY <1>1, <1>6 DEF Exists, IsClosed, ExecOK, Row, Statuses, NoExecutor
  <2> HIDE DEF h
  <2>4. HandlerOK(t)'
    <3>1. thread'[t] = h
      BY <2>2 DEF IInv, TypeOK
    <3>2. exec[r].outcome \in Final
      BY <1>1 DEF ExecOK
    <3>3. exec[r].outcome = "cancelled" => run[r].cancelRequested
      BY <1>1, <2>3 DEF ExecOK, Ended, Final
    <3> QED BY <1>1, <2>1, <2>2, <2>3, <3>1, <3>2, <3>3 DEF HandlerOK, Started, Asked, Reported
  <2> QED BY <1>1, <1>2, <2>1, <2>2, <2>4, BeginKeepsIInv
<1> QED BY <1>4, <1>5, <1>6

(* The steps without a handler that change a row only: a submission, and   *)
(* the two clocks.                                                         *)
LEMMA RowsKeepIInv ==
    ASSUME IInv, NEW r \in Runs, CreateRun(r) \/ AffinityExpires(r) \/ HeartbeatAges(r)
    PROVE  IInv'
<1>1. /\ thread' = thread /\ exec' = exec /\ announced' = announced /\ faults' \in 0..MaxFaults
      /\ thread' \in [Threads -> Handler] /\ exec' \in [Runs -> Executor]
  BY DEF CreateRun, AffinityExpires, HeartbeatAges, IInv, TypeOK
<1>2. ExecOK(r) /\ run[r] \in Row /\ run \in [Runs -> Row]
  BY DEF IInv, TypeOK
<1>3. CASE CreateRun(r)
  <2>0. run[r].status = "absent"
    BY <1>3, CreatedRow
  <2>1. PICK row \in Row : /\ run' = [run EXCEPT ![r] = row]
                          /\ row.status = "queued" /\ row.parent = NoRun /\ row.worker = NoWorker
    BY <1>3, CreatedRow
  <2>2. run' \in [Runs -> Row] /\ run'[r] = row /\ \A q \in Runs \ {r} : run'[q] = run[q]
    BY <1>2, <2>1
  <2>3. exec[r] = NoExecutor
    BY <1>2, <2>0 DEF ExecOK
  <2>5. Evolves(r)
    BY <1>1, <2>0, <2>1, <2>2, <2>3 DEF Evolves, Started, Asked, Reported, Ended, Final, NoExecutor
  <2>6. ExecOK(r)'
    BY <1>1, <2>1, <2>2, <2>3 DEF ExecOK, NoExecutor, Ended, Final
  <2> QED BY <1>1, <2>1, <2>2, <2>5, <2>6, RowStepKeepsIInv
<1>4. CASE AffinityExpires(r) \/ HeartbeatAges(r)
  <2>1. PICK row \in {[run[r] EXCEPT !.aged = TRUE], [run[r] EXCEPT !.stale = TRUE]} :
            run' = [run EXCEPT ![r] = row]
    BY <1>4 DEF AffinityExpires, HeartbeatAges
  <2>2. /\ row \in Row /\ row.status = run[r].status /\ row.parent = run[r].parent
        /\ row.worker = run[r].worker
        /\ row.cancelRequested <=> run[r].cancelRequested
    BY <1>2 DEF Row
  <2>3. run' \in [Runs -> Row] /\ run'[r] = row /\ \A q \in Runs \ {r} : run'[q] = run[q]
    BY <1>2, <2>1, <2>2
  <2>4. Evolves(r)
    BY <1>1, <2>2, <2>3 DEF Evolves, Started, Asked, Reported
  <2>5. ExecOK(r)'
    BY <1>1, <1>2, <2>2, <2>3 DEF ExecOK
  <2> QED BY <1>1, <2>2, <2>3, <2>4, <2>5, RowStepKeepsIInv
<1> QED BY <1>3, <1>4

(* The steps of the executors alone, and what fails. *)
LEMMA ExecutorsKeepIInv ==
    ASSUME IInv, NEW r \in Runs,
           ClaimReply(r) \/ GiveUp(r) \/ \E outcome \in Final : Finish(r, outcome)
    PROVE  IInv'
<1>1. /\ run' = run /\ thread' = thread /\ announced' = announced
      /\ run' \in [Runs -> Row] /\ thread' \in [Threads -> Handler]
  BY DEF ClaimReply, GiveUp, Finish, IInv, TypeOK
<1>2. faults' \in 0..MaxFaults
  BY RunsAssumption DEF ClaimReply, GiveUp, Finish, Fault, IInv, TypeOK
<1>3. exec[r] \in Executor /\ ExecOK(r) /\ exec \in [Runs -> Executor]
  BY DEF IInv, TypeOK
<1>4. PICK e \in Executor :
         /\ exec' = [exec EXCEPT ![r] = e]
         /\ \/ /\ exec[r].state = "offered" /\ e.state \in {"working", "gone"}
               /\ e.outcome = exec[r].outcome /\ (e.told => exec[r].told)
            \/ /\ exec[r].state = "reporting" /\ e.state = "gone"
               /\ e.outcome = exec[r].outcome /\ (e.told => exec[r].told)
            \/ /\ exec[r].state = "working" /\ e.state = "reporting"
               /\ e.outcome \in Final /\ ~e.told /\ (e.outcome = "cancelled" => exec[r].told)
  <2>1. CASE ClaimReply(r)
    <3>1. PICK state \in {"working", "gone"} : Become(r, state) /\ exec[r].state = "offered"
      BY <2>1 DEF ClaimReply
    <3> DEFINE e == [exec[r] EXCEPT !.state = state]
    <3>2. e \in Executor /\ e.state = state /\ e.outcome = exec[r].outcome /\ (e.told => exec[r].told)
      BY <1>3 DEF Executor
    <3>3. exec' = [exec EXCEPT ![r] = e]
      BY <3>1 DEF Become
    <3> HIDE DEF e
    <3> QED BY <3>1, <3>2, <3>3
  <2>2. CASE GiveUp(r)
    <3> DEFINE e == [exec[r] EXCEPT !.state = "gone"]
    <3>1. e \in Executor /\ e.state = "gone" /\ e.outcome = exec[r].outcome /\ (e.told => exec[r].told)
      BY <1>3 DEF Executor
    <3>2. exec' = [exec EXCEPT ![r] = e] /\ exec[r].state = "reporting"
      BY <2>2 DEF GiveUp, Become
    <3> HIDE DEF e
    <3> QED BY <3>1, <3>2
  <2>3. ASSUME NEW outcome \in Final, Finish(r, outcome)
        PROVE  \E e \in Executor : /\ exec' = [exec EXCEPT ![r] = e]
                                   /\ exec[r].state = "working" /\ e.state = "reporting"
                                   /\ e.outcome \in Final /\ ~e.told
                                   /\ e.outcome = "cancelled" => exec[r].told
    <3> DEFINE e == [state |-> "reporting", told |-> FALSE, outcome |-> outcome]
    <3>1. e \in Executor /\ e.state = "reporting" /\ ~e.told /\ e.outcome = outcome
      BY DEF Executor
    <3>2. exec' = [exec EXCEPT ![r] = e] /\ exec[r].state = "working"
          /\ (outcome = "cancelled" => exec[r].told)
      BY <2>3 DEF Finish
    <3> HIDE DEF e
    <3> QED BY <3>1, <3>2
  <2> QED BY <2>1, <2>2, <2>3
<1>5. exec' \in [Runs -> Executor] /\ exec'[r] = e /\ \A q \in Runs \ {r} : exec'[q] = exec[q]
  BY <1>3, <1>4
<1>6. Evolves(r)
  BY <1>1, <1>4, <1>5 DEF Evolves, Started, Asked, Reported
<1>7. ExecOK(r)'
  BY <1>1, <1>3, <1>4, <1>5 DEF ExecOK, NoExecutor, Ended, Final
<1> QED BY <1>1, <1>2, <1>5, <1>6, <1>7, RowStepKeepsIInv

LEMMA CrashKeepsIInv == ASSUME IInv, NEW w \in Workers, WorkerCrash(w) PROVE IInv'
<1>0. Fault /\ UNCHANGED <<run, thread, announced>>
  BY Zenon DEF WorkerCrash
<1>1. /\ run' = run /\ thread' = thread /\ announced' = announced
      /\ faults' \in 0..MaxFaults
  BY <1>0, RunsAssumption DEF Fault, IInv, TypeOK
<1>2. ASSUME NEW r \in Runs PROVE exec'[r] \in Executor /\ Evolves(r) /\ ExecOK(r)'
  <2> DEFINE e == [exec[r] EXCEPT !.state = "gone", !.told = FALSE]
  <2>1. exec[r] \in Executor /\ ExecOK(r)
    BY DEF IInv, TypeOK
  <2>2. e \in Executor /\ e.state = "gone" /\ ~e.told /\ e.outcome = exec[r].outcome
    BY <2>1 DEF Executor
  <2>3. exec'[r] = IF r \in Load(w) THEN e ELSE exec[r]
    BY DEF WorkerCrash
  <2>4. r \in Load(w) => exec[r].state \in {"offered", "working", "reporting"}
    BY DEF Load
  <2> HIDE DEF e
  <2>5. CASE r \in Load(w)
    BY <1>1, <2>1, <2>2, <2>3, <2>4, <2>5
       DEF Evolves, Started, Asked, Reported, ExecOK, NoExecutor, Ended, Final
  <2>6. CASE r \notin Load(w)
    BY <1>1, <2>1, <2>3, <2>6 DEF Evolves, Started, Asked, Reported, ExecOK
  <2> QED BY <2>5, <2>6
<1>3. exec' \in [Runs -> Executor]
  BY <1>2 DEF WorkerCrash
<1>4. TypeOK'
  BY <1>1, <1>3 DEF IInv, TypeOK
<1> QED BY <1>1, <1>2, <1>4, StepKeepsIInv

LEMMA RestartKeepsIInv == ASSUME IInv, ServerRestart PROVE IInv'
<1>1. /\ run' = run /\ exec' = exec /\ announced' = announced /\ faults' \in 0..MaxFaults
      /\ thread' = [t \in Threads |-> Idle]
  BY RunsAssumption DEF ServerRestart, Fault, IInv, TypeOK
<1>2. TypeOK'
  BY <1>1, DefaultsTyped DEF IInv, TypeOK
<1>3. \A t \in Threads : HandlerOK(t)'
  BY <1>1 DEF HandlerOK, Idle
<1>4. \A r \in Runs : Evolves(r)
  BY <1>1 DEF Evolves, Started, Asked, Reported
<1> QED BY <1>1, <1>2, <1>3, <1>4, StepKeepsIInv

(* The invariant is inductive. *)
LEMMA NextIInv == IInv /\ [Next]_vars => IInv'
<1> SUFFICES ASSUME IInv, [Next]_vars PROVE IInv'
  OBVIOUS
<1>1. ASSUME NEW t \in Threads, UserStep(t) PROVE IInv'
  BY <1>1, ReadsKeepIInv DEF UserStep
<1>2. ASSUME NEW t \in Threads, HandlerStep(t) PROVE IInv'
  BY <1>2, RetryInsertKeepsIInv, ReapWriteKeepsIInv, CancelWriteKeepsIInv,
     DeleteWriteKeepsIInv, ClaimUpdateKeepsIInv, HeartbeatWriteKeepsIInv,
     CompleteWriteKeepsIInv, NotifyKeepsIInv DEF HandlerStep
<1>3. ASSUME NEW r \in Runs, \/ CreateRun(r) \/ AffinityExpires(r) \/ ClaimReply(r)
                             \/ Heartbeat(r) \/ FinishRun(r) \/ Complete(r)
                             \/ HeartbeatAges(r) \/ GiveUp(r)
      PROVE  IInv'
  BY <1>3, RowsKeepIInv, ExecutorsKeepIInv, HeartbeatReadKeepsIInv, CompleteReadKeepsIInv
     DEF Heartbeat, Complete, FinishRun
<1>4. ASSUME NEW w \in Workers, Claim(w) \/ WorkerCrash(w) PROVE IInv'
  BY <1>4, ReadsKeepIInv, CrashKeepsIInv DEF Claim
<1>5. ASSUME Reap PROVE IInv'
  <2> PICK t \in Threads : ReapList(t)
    BY <1>5 DEF Reap
  <2>1. CASE Runs = {}
    BY <2>1 DEF ReapList
  <2>2. CASE Runs # {}
    BY <2>2, ReadsKeepIInv
  <2> QED BY <2>1, <2>2
<1>6. ASSUME ServerRestart PROVE IInv'
  BY <1>6, RestartKeepsIInv
<1>7. CASE UNCHANGED vars
  <2>1. run' = run /\ thread' = thread /\ exec' = exec /\ TypeOK'
    BY <1>7 DEF vars, IInv, TypeOK
  <2>2. \A r \in Runs : Evolves(r)
    BY <2>1 DEF Evolves, Started, Asked, Reported
  <2> QED BY <2>1, <2>2, StepKeepsIInv
<1> QED BY <1>1, <1>2, <1>3, <1>4, <1>5, <1>6, <1>7 DEF Next

THEOREM Invariance == Spec => []IInv
BY InitIInv, NextIInv, PTL DEF Spec

(* Every handler returns to idle, and no row ever holds a status outside   *)
(* the schema: what worker_complete stores is the outcome of an executor.  *)
THEOREM TypeCorrect == Spec => []TypeOK
<1>1. IInv => TypeOK
  BY DEF IInv
<1> QED BY <1>1, Invariance, PTL

(* Nobody but a user ever makes a run end "cancelled". *)
THEOREM CancelledWasRequestedAlways == Spec => []CancelledWasRequested
<1>1. IInv => CancelledWasRequested
  BY DEF IInv, ExecOK, CancelledWasRequested
<1> QED BY <1>1, Invariance, PTL

(* What the table says of a success is what the worker said. *)
THEOREM SuccessIsHonestAlways == Spec => []SuccessIsHonest
<1>1. IInv => SuccessIsHonest
  BY DEF IInv, ExecOK, SuccessIsHonest
<1> QED BY <1>1, Invariance, PTL

(* An acknowledged run is over on the server, faults or not. *)
THEOREM AckedRunIsOverAlways == Spec => []AckedRunIsOver
<1>1. IInv => AckedRunIsOver
  BY DEF IInv, ExecOK, AckedRunIsOver
<1> QED BY <1>1, Invariance, PTL

(* A retry never coexists with an active parent, although retry_run does   *)
(* not look at the parent again when it inserts the child.                 *)
THEOREM ParentIsOverAlways == Spec => []ParentIsOver
<1>1. IInv => ParentIsOver
  BY DEF IInv, ParentOK, ParentIsOver
<1> QED BY <1>1, Invariance, PTL

(* What the table says of cancellations, successes and retries holds under *)
(* every interleaving of the handlers and every fault.                     *)
THEOREM RowsAreHonestAlways == Spec => []RowsAreHonest
<1>1. CancelledWasRequested /\ SuccessIsHonest /\ ParentIsOver => RowsAreHonest
  BY DEF RowsAreHonest
<1> QED BY <1>1, CancelledWasRequestedAlways, SuccessIsHonestAlways, ParentIsOverAlways, PTL
-----------------------------------------------------------------------------
(***************************************************************************)
(* CiRuns implements RunLifecycle, and a finished row is frozen, for every *)
(* value of the constants.  Both follow from one fact about the steps: a   *)
(* step writes at most one row, and only in one of the ways of LegalWrite. *)
(***************************************************************************)
Phase(row) == IF row.status \in Final THEN "ended" ELSE row.status

LegalWrite(r) ==
    /\ \A q \in Runs \ {r} : run'[q] = run[q]
    /\ \/ run'[r] = run[r]
       \/ /\ run'[r].status = run[r].status /\ run'[r].worker = run[r].worker
          /\ run[r].status \in Final => LateWriter(r)
       \/ /\ run[r].status \in Final /\ run'[r].status \in Final
          /\ run'[r].worker = run[r].worker /\ LateWriter(r)
       \/ /\ run[r].status = "absent" /\ run'[r].status = "queued"
          /\ run'[r].worker = NoWorker
       \/ /\ run[r].status = "queued" /\ run'[r].status = "running"
          /\ run'[r].worker \in Workers
       \/ /\ run[r].status \in {"queued", "running"} /\ run'[r].status \in Final
          /\ run'[r].worker = run[r].worker
       \/ /\ run[r].status \in Ended /\ run'[r].status = "deleted"
          /\ run'[r].worker = NoWorker
-----------------------------------------------------------------------------
(* What the handlers write is legal. *)
LEMMA CancelIsLegal == ASSUME IInv, NEW t \in Threads, CancelWrite(t)
                       PROVE  \E r \in Runs : LegalWrite(r)
<1>0. PICK r \in Runs : r = thread[t].run
  BY DEF CancelWrite, IInv, HandlerOK, At
<1>1. run[r] \in Row /\ run \in [Runs -> Row]
  BY DEF IInv, TypeOK
<1>2. CASE run[r].status = "queued"
  <2> DEFINE row == [run[r] EXCEPT !.status = "cancelled", !.cancelRequested = TRUE]
  <2>1. run' = [run EXCEPT ![r] = row] /\ row.status = "cancelled" /\ row.worker = run[r].worker
    BY <1>0, <1>1, <1>2 DEF CancelWrite, Row
  <2> HIDE DEF row
  <2> QED BY <1>1, <1>2, <2>1 DEF LegalWrite, Final
<1>3. CASE run[r].status = "running"
  <2> DEFINE row == [run[r] EXCEPT !.cancelRequested = TRUE]
  <2>1. run' = [run EXCEPT ![r] = row] /\ row.status = run[r].status /\ row.worker = run[r].worker
    BY <1>0, <1>1, <1>3 DEF CancelWrite, Row
  <2> HIDE DEF row
  <2> QED BY <1>1, <1>3, <2>1 DEF LegalWrite, Final
<1>4. CASE run[r].status \notin {"queued", "running"}
  BY <1>0, <1>1, <1>4 DEF CancelWrite, LegalWrite
<1> QED BY <1>2, <1>3, <1>4

LEMMA DeleteIsLegal == ASSUME IInv, NEW t \in Threads, DeleteWrite(t)
                       PROVE  \E r \in Runs : LegalWrite(r)
<1>0. PICK r \in Runs : r = thread[t].run /\ run[r].status \in Ended
  BY DEF DeleteWrite, IInv, HandlerOK, At
<1> DEFINE row == [NewRow EXCEPT !.status = "deleted"]
<1>1. row.status = "deleted" /\ row.worker = NoWorker /\ run' = [run EXCEPT ![r] = row]
  BY <1>0 DEF DeleteWrite, NewRow
<1> HIDE DEF row
<1> QED BY <1>0, <1>1 DEF LegalWrite, IInv, TypeOK

LEMMA InsertIsLegal == ASSUME IInv, NEW r \in Runs,
                              CreateRun(r) \/ \E t \in Threads : RetryInsert(t, r)
                       PROVE  LegalWrite(r)
<1>1. PICK row \in Row : /\ run' = [run EXCEPT ![r] = row] /\ run[r].status = "absent"
                         /\ row.status = "queued" /\ row.worker = NoWorker
  <2>1. CASE CreateRun(r)
    BY <2>1, CreatedRow
  <2>2. ASSUME NEW t \in Threads, RetryInsert(t, r)
        PROVE  \E row \in Row : /\ run' = [run EXCEPT ![r] = row] /\ run[r].status = "absent"
                                /\ row.status = "queued" /\ row.worker = NoWorker
    <3> DEFINE row == [NewRow EXCEPT !.parent = thread[t].run, !.preset = thread[t].preset,
                                     !.hint = thread[t].worker]
    <3>1. /\ thread[t].worker \in Workers \cup {NoWorker} /\ thread[t].run \in Runs
          /\ thread[t].preset \in Presets \cup {NoPreset}
      BY <2>2 DEF RetryInsert, At, IInv, HandlerOK, TypeOK, Handler
    <3>2. row \in Row /\ row.status = "queued" /\ row.worker = NoWorker
      BY <3>1, DefaultsTyped DEF Row, NewRow
    <3>3. run' = [run EXCEPT ![r] = row] /\ run[r].status = "absent"
      BY <2>2 DEF RetryInsert, IsNext, Vacant
    <3> HIDE DEF row
    <3> QED BY <3>2, <3>3
  <2> QED BY <2>1, <2>2
<1> QED BY <1>1 DEF LegalWrite, IInv, TypeOK

LEMMA ClaimIsLegal == ASSUME IInv, NEW t \in Threads, ClaimUpdate(t)
                      PROVE  \E r \in Runs : LegalWrite(r)
<1>0. PICK r \in Runs : r = thread[t].run /\ thread[t].worker \in Workers
  BY DEF ClaimUpdate, IInv, HandlerOK, At
<1>1. CASE StillQueued(r)
  <2> DEFINE row == [run[r] EXCEPT !.status = "running", !.stale = FALSE,
                                   !.worker = thread[t].worker]
  <2>1. row.status = "running" /\ row.worker \in Workers /\ run' = [run EXCEPT ![r] = row]
    BY <1>0, <1>1 DEF ClaimUpdate, IInv, TypeOK, Row
  <2> HIDE DEF row
  <2> QED BY <1>1, <2>1 DEF LegalWrite, StillQueued, IInv, TypeOK
<1>2. CASE ~StillQueued(r)
  BY <1>0, <1>2 DEF ClaimUpdate, LegalWrite
<1> QED BY <1>1, <1>2

(* An unconditional update is legal if it comes from a handler that read   *)
(* the row while the run was active.                                       *)
LEMMA UpdateIsLegal ==
    ASSUME IInv, NEW r \in Runs, NEW row \in Row, Update(r, row), Started(r), LateWriter(r),
           row.worker = run[r].worker, row.status \in {run[r].status} \cup Final
    PROVE  LegalWrite(r)
<1>1. run' = IF Exists(r) THEN [run EXCEPT ![r] = row] ELSE run
  BY DEF Update
<1>2. CASE Exists(r)
  <2>1. run[r] \in Row
    BY DEF IInv, TypeOK
  <2>2. run[r].status \in {"running"} \cup Final
    BY <1>2, <2>1 DEF Exists, Started, Row, Statuses
  <2> QED BY <1>1, <1>2, <2>2 DEF LegalWrite, IInv, TypeOK
<1>3. CASE ~Exists(r)
  BY <1>1, <1>3 DEF LegalWrite
<1> QED BY <1>2, <1>3

LEMMA LateWritesAreLegal ==
    ASSUME IInv, NEW t \in Threads,
           \/ HeartbeatWrite(t) \/ CompleteWrite(t) \/ \E r \in Runs : ReapWrite(t, r)
    PROVE  \E r \in Runs : LegalWrite(r)
<1>1. HandlerOK(t)
  BY DEF IInv
<1>2. CASE HeartbeatWrite(t)
  <2>1. PICK r \in Runs : /\ r = thread[t].run /\ Started(r) /\ LateWriter(r)
    BY <1>1, <1>2 DEF HeartbeatWrite, HandlerOK, At, LateWriter
  <2> DEFINE row == [run[r] EXCEPT !.stale = FALSE, !.results = "partial"]
  <2>2. /\ row \in Row /\ row.status = run[r].status /\ row.worker = run[r].worker
    BY DEF IInv, TypeOK, Row
  <2>3. Update(r, row)
    BY <1>2, <2>1 DEF HeartbeatWrite
  <2> HIDE DEF row
  <2>4. PICK new \in Row : new = row
    BY <2>2
  <2> QED BY <2>1, <2>2, <2>3, <2>4, UpdateIsLegal
<1>3. CASE CompleteWrite(t)
  <2>1. PICK r \in Runs : /\ r = thread[t].run /\ Started(r) /\ LateWriter(r)
                          /\ exec[r].outcome \in Final
    BY <1>1, <1>3 DEF CompleteWrite, HandlerOK, At, LateWriter
  <2>2. PICK status \in Final : status = StatusToStore(thread[t])
    BY <2>1 DEF StatusToStore, Final
  <2> DEFINE row == [run[r] EXCEPT !.status = status, !.stale = FALSE, !.results = "final"]
  <2>3. /\ row \in Row /\ row.status = status /\ row.worker = run[r].worker
    BY ZenonT(60) DEF IInv, TypeOK, Row, Statuses
  <2>4. Update(r, row)
    BY <1>3, <2>1, <2>2 DEF CompleteWrite
  <2> HIDE DEF row
  <2>5. PICK new \in Row : new = row
    BY <2>3
  <2> QED BY <2>1, <2>3, <2>4, <2>5, UpdateIsLegal
<1>4. ASSUME NEW r \in Runs, ReapWrite(t, r) PROVE LegalWrite(r)
  <2>1. Started(r) /\ LateWriter(r)
    BY <1>1, <1>4 DEF ReapWrite, HandlerOK, At, LateWriter
  <2> DEFINE row == [run[r] EXCEPT !.status = "failed", !.stale = FALSE]
  <2>2. row \in Row /\ row.status \in Final /\ row.worker = run[r].worker
    BY ZenonT(60) DEF IInv, TypeOK, Row, Statuses, Final
  <2>3. Update(r, row)
    BY <1>4 DEF ReapWrite
  <2> HIDE DEF row
  <2>4. PICK new \in Row : new = row
    BY <2>2
  <2> QED BY <2>1, <2>2, <2>3, <2>4, UpdateIsLegal
<1> QED BY <1>2, <1>3, <1>4

LEMMA ClocksAreLegal == ASSUME IInv, NEW r \in Runs, AffinityExpires(r) \/ HeartbeatAges(r)
                        PROVE  LegalWrite(r)
<1>1. PICK row \in {[run[r] EXCEPT !.aged = TRUE], [run[r] EXCEPT !.stale = TRUE]} :
          run' = [run EXCEPT ![r] = row] /\ run[r].status \in {"queued", "running"}
  BY DEF AffinityExpires, HeartbeatAges
<1>2. row.status = run[r].status /\ row.worker = run[r].worker
  BY DEF IInv, TypeOK, Row
<1> QED BY <1>1, <1>2 DEF LegalWrite, Final, IInv, TypeOK

LEMMA StepsAreLegal == IInv /\ [Next]_vars => run' = run \/ \E r \in Runs : LegalWrite(r)
<1> SUFFICES ASSUME IInv, [Next]_vars
             PROVE  run' = run \/ \E r \in Runs : LegalWrite(r)
  OBVIOUS
<1>1. ASSUME NEW t \in Threads, UserStep(t) PROVE run' = run
  BY <1>1 DEF UserStep, RetryRead, CancelRead, DeleteRead
<1>2. ASSUME NEW t \in Threads, HandlerStep(t)
      PROVE  run' = run \/ \E r \in Runs : LegalWrite(r)
  <2>1. Notify(t) => run' = run
    BY DEF Notify
  <2> QED BY <1>2, <2>1, CancelIsLegal, DeleteIsLegal, InsertIsLegal, ClaimIsLegal,
             LateWritesAreLegal DEF HandlerStep
<1>3. ASSUME NEW r \in Runs, CreateRun(r) \/ AffinityExpires(r) \/ HeartbeatAges(r)
      PROVE  LegalWrite(r)
  BY <1>3, InsertIsLegal, ClocksAreLegal
<1>4. ASSUME NEW r \in Runs, ClaimReply(r) \/ Heartbeat(r) \/ FinishRun(r) \/ Complete(r) \/ GiveUp(r)
      PROVE  run' = run
  BY <1>4 DEF ClaimReply, Heartbeat, HeartbeatRead, FinishRun, Finish, Complete, CompleteRead,
     GiveUp
<1>5. ASSUME NEW w \in Workers, Claim(w) PROVE run' = run
  BY <1>5 DEF Claim, ClaimSelect
<1>6. ASSUME NEW w \in Workers, WorkerCrash(w) PROVE run' = run
  BY <1>6, Zenon DEF WorkerCrash
<1>7. ASSUME Reap \/ ServerRestart \/ UNCHANGED vars PROVE run' = run
  BY <1>7 DEF Reap, ReapList, ServerRestart, vars
<1> QED BY <1>1, <1>2, <1>3, <1>4, <1>5, <1>6, <1>7 DEF Next

(* A finished row is written only by a handler that read it earlier.  What *)
(* is read before the end of a run is all that can still touch its row.    *)
THEOREM FinalRowFrozenAlways == Spec => FinalRowFrozen
<1> DEFINE Frozen == \A r \in Runs : run[r].status \in Final /\ ~LateWriter(r)
                        => run'[r] = run[r] \/ run'[r].status = "deleted"
<1>1. IInv /\ [Next]_vars => Frozen
  <2> SUFFICES ASSUME IInv, [Next]_vars PROVE Frozen
    OBVIOUS
  <2>1. CASE run' = run
    BY <2>1
  <2>2. ASSUME NEW r \in Runs, LegalWrite(r) PROVE Frozen
    BY <2>2 DEF LegalWrite, Final
  <2> QED BY <2>1, <2>2, StepsAreLegal
<1>2. IInv /\ [Next]_vars => [Frozen]_vars
  BY <1>1
<1> QED BY <1>2, Invariance, PTL DEF Spec, FinalRowFrozen
-----------------------------------------------------------------------------
(* RunLifecycle's variables, as CiRuns instantiates them. *)
phase == [r \in Runs |-> IF run[r].status \in Final THEN "ended" ELSE run[r].status]
owner == [r \in Runs |-> run[r].worker]

(* A legal write is a step of RunLifecycle or a stutter. *)
LEMMA LegalIsLifecycle ==
    ASSUME IInv, NEW r \in Runs, LegalWrite(r)
    PROVE  [Lifecycle!Next]_(Lifecycle!vars)
<1>1. /\ phase[r] = Phase(run[r]) /\ phase'[r] = Phase(run'[r])
      /\ owner[r] = run[r].worker /\ owner'[r] = run'[r].worker
      /\ DOMAIN phase' = Runs /\ DOMAIN owner' = Runs
      /\ \A q \in Runs \ {r} : phase'[q] = phase[q] /\ owner'[q] = owner[q]
  BY DEF phase, owner, Phase, LegalWrite
<1>2. phase' = [phase EXCEPT ![r] = phase'[r]] /\ owner' = [owner EXCEPT ![r] = owner'[r]]
  BY <1>1 DEF phase, owner
<1>3. run[r].status \in {"absent", "queued", "deleted"} => owner[r] = NoWorker
  BY <1>1 DEF IInv, ExecOK
<1>4. CASE phase'[r] = phase[r] /\ owner'[r] = owner[r]
  BY <1>1, <1>2, <1>4 DEF Lifecycle!vars, phase, owner
<1>5. CASE ~(phase'[r] = phase[r] /\ owner'[r] = owner[r])
  <2>1. \/ phase[r] = "absent" /\ phase'[r] = "queued" /\ owner'[r] = owner[r]
        \/ phase[r] = "queued" /\ phase'[r] = "running" /\ owner[r] = NoWorker
           /\ owner'[r] \in Workers
        \/ phase[r] \in {"queued", "running"} /\ phase'[r] = "ended" /\ owner'[r] = owner[r]
        \/ phase[r] = "ended" /\ phase'[r] = "deleted" /\ owner'[r] = NoWorker
    BY <1>1, <1>3, <1>5 DEF LegalWrite, Phase, Final, Ended
  <2>2. Lifecycle!Next
    <3>1. owner'[r] = owner[r] => owner' = owner
      BY <1>1, <1>2 DEF owner
    <3>2. phase[r] = "absent" /\ phase' = [phase EXCEPT ![r] = "queued"] /\ owner' = owner
          => Lifecycle!Submit(r)
      BY Zenon DEF Lifecycle!Submit, Lifecycle!Move, phase, owner
    <3>3. \A w \in Workers :
             phase[r] = "queued" /\ phase' = [phase EXCEPT ![r] = "running"]
             /\ owner[r] = NoWorker /\ owner' = [owner EXCEPT ![r] = w]
             => Lifecycle!Assign(r, w)
      BY Zenon DEF Lifecycle!Assign, Lifecycle!Move, phase, owner
    <3>4. phase[r] \in {"queued", "running"} /\ phase' = [phase EXCEPT ![r] = "ended"]
          /\ owner' = owner => Lifecycle!End(r)
      BY Zenon DEF Lifecycle!End, Lifecycle!Move, phase, owner
    <3>5. phase[r] = "ended" /\ phase' = [phase EXCEPT ![r] = "deleted"]
          /\ owner' = [owner EXCEPT ![r] = NoWorker] => Lifecycle!Remove(r)
      BY Zenon DEF Lifecycle!Remove, Lifecycle!Move, phase, owner
    <3>6. Lifecycle!Submit(r) \/ (\E w \in Workers : Lifecycle!Assign(r, w))
          \/ Lifecycle!End(r) \/ Lifecycle!Remove(r)
      BY <1>2, <2>1, <3>1, <3>2, <3>3, <3>4, <3>5
    <3> QED BY <3>6, Zenon DEF Lifecycle!Next
  <2> QED BY <2>2
<1> QED BY <1>4, <1>5

(* The table of runs implements RunLifecycle: one worker per run, no step  *)
(* back, no end undone, whatever the handlers interleave.                  *)
THEOREM ImplementsLifecycleAlways == Spec => ImplementsLifecycle
<1>1. Init => Lifecycle!Init
  <2> SUFFICES ASSUME Init PROVE Lifecycle!Init
    OBVIOUS
  <2>1. \A r \in Runs : run[r].status = "absent" /\ run[r].worker = NoWorker
    BY DEF Init, NewRow
  <2> QED BY <2>1 DEF Lifecycle!Init, Final
<1>2. IInv /\ [Next]_vars => [Lifecycle!Next]_(Lifecycle!vars)
  <2> SUFFICES ASSUME IInv, [Next]_vars PROVE [Lifecycle!Next]_(Lifecycle!vars)
    OBVIOUS
  <2>1. CASE run' = run
    BY <2>1 DEF Lifecycle!vars
  <2>2. ASSUME NEW r \in Runs, LegalWrite(r) PROVE [Lifecycle!Next]_(Lifecycle!vars)
    BY <2>2, LegalIsLifecycle
  <2> QED BY <2>1, <2>2, StepsAreLegal
<1> QED BY <1>1, <1>2, Invariance, PTL DEF Spec, ImplementsLifecycle, Lifecycle!Spec
-----------------------------------------------------------------------------
Noted(r) == \/ announced[r] = "over"
            \/ \E t \in Threads : thread[t].step = "notify" /\ thread[t].run = r

(* A handler that is about to send an event moves only by sending it, as   *)
(* long as the server does not stop.                                       *)
LEMMA NotedStays ==
    ASSUME NEW r \in Runs, Noted(r), announced' = announced,
           \A t \in Threads : thread'[t] = thread[t] \/ thread[t].step = "write"
    PROVE  Noted(r)'
BY DEF Noted

(* Who may move: a handler that was idle or about to write. *)
LEMMA MovesFromWrite ==
    ASSUME IInv, NEW u \in Threads, thread[u].step = "write" \/ thread[u].op = "idle",
           \A t \in Threads \ {u} : thread'[t] = thread[t]
    PROVE  \A t \in Threads : thread'[t] = thread[t] \/ thread[t].step = "write"
BY DEF IInv, HandlerOK, Idle

LEMMA WriteIsNoted ==
    ASSUME IInv, NEW t \in Threads, NEW r \in Runs, EndIsAnnounced, faults = 0,
           run'[r].status \in Final,
           \/ CancelWrite(t) \/ CompleteWrite(t) \/ ReapWrite(t, r)
    PROVE  Noted(r)'
<1>1. /\ HandlerOK(t) /\ ExecOK(r) /\ thread[t].step = "write" /\ announced' = announced
      /\ \A u \in Threads \ {t} : thread'[u] = thread[u]
      /\ thread[t] \in Handler /\ run[r] \in Row
  BY DEF CancelWrite, CompleteWrite, ReapWrite, At, Goto, Return, IInv, TypeOK
<1>2. CASE run[r].status \in Final
  BY <1>1, <1>2, NotedStays, MovesFromWrite DEF EndIsAnnounced, Noted
<1>3. CASE ReapWrite(t, r)
  <2>1. thread'[t].step = "notify" /\ thread'[t].run = r
    BY <1>1, <1>3 DEF ReapWrite, Goto, IInv, TypeOK, Handler
  <2> QED BY <2>1 DEF Noted
<1>4. CASE CompleteWrite(t) /\ run[r].status \notin Final
  <2>1. thread[t].run = r
    BY <1>1, <1>4 DEF CompleteWrite, Update, At, HandlerOK, IInv, TypeOK
  <2>2. thread'[t].step = "notify" /\ thread'[t].run = r
    BY <1>1, <1>4, <2>1 DEF CompleteWrite, Goto, IInv, TypeOK, Handler
  <2> QED BY <2>2 DEF Noted
<1>5. CASE CancelWrite(t) /\ run[r].status \notin Final
  <2>1. thread[t].run = r /\ run[r].status = "queued"
    <3>1. thread[t].run = r
      BY <1>1, <1>5 DEF CancelWrite, At, HandlerOK, IInv, TypeOK
    <3>2. ~(run[r].status = "running")
      <4> SUFFICES ASSUME run[r].status = "running" PROVE FALSE
        OBVIOUS
      <4>1. run'[r] = [run[r] EXCEPT !.cancelRequested = TRUE]
        BY <1>5, <3>1 DEF CancelWrite, IInv, TypeOK
      <4>2. run'[r].status = "running"
        BY <1>1, <4>1 DEF Row
      <4> QED BY <4>2 DEF Final
    <3>3. run[r].status # "queued" => run'[r] = run[r]
      BY <1>5, <3>1, <3>2 DEF CancelWrite, IInv, TypeOK
    <3> QED BY <1>5, <3>1, <3>3
  <2>2. WasQueued(t)
    BY <1>1, <1>5, <2>1 DEF HandlerOK, CancelWrite, At, WasQueued
  <2>3. thread'[t].step = "notify" /\ thread'[t].run = r
    BY <1>1, <1>5, <2>1, <2>2 DEF CancelWrite, Goto, IInv, TypeOK, Handler
  <2> QED BY <2>3 DEF Noted
<1> QED BY <1>2, <1>3, <1>4, <1>5

(* A step that sends nothing and finishes nothing. *)
LEMMA QuietKeepsNoted ==
    ASSUME IInv, EndIsAnnounced, faults = 0, announced' = announced,
           NEW u \in Threads, thread[u].step = "write" \/ thread[u].op = "idle",
           \A t \in Threads \ {u} : thread'[t] = thread[t],
           \A r \in Runs : run'[r].status \in Final => run[r].status \in Final
    PROVE  EndIsAnnounced'
<1> SUFFICES ASSUME NEW r \in Runs, run'[r].status \in Final PROVE Noted(r)'
  BY DEF EndIsAnnounced, Noted
<1>1. Noted(r)
  BY DEF EndIsAnnounced, Noted
<1> QED BY <1>1, NotedStays, MovesFromWrite

LEMMA NotifyKeepsNoted ==
    ASSUME IInv, EndIsAnnounced, faults = 0, NEW t \in Threads, Notify(t)
    PROVE  EndIsAnnounced'
<1> SUFFICES ASSUME NEW r \in Runs, run'[r].status \in Final PROVE Noted(r)'
  BY DEF EndIsAnnounced, Noted
<1>1. /\ Noted(r) /\ run' = run
      /\ \A u \in Threads \ {t} : thread'[u] = thread[u]
      /\ announced \in [Runs -> {"none", "early", "over"}]
  BY DEF Notify, Return, Goto, IInv, TypeOK, EndIsAnnounced, Noted
<1>2. Exists(r)
  BY <1>1 DEF Exists, Final
<1>3. CASE thread[t].run = r
  BY <1>1, <1>2, <1>3 DEF Notify, Noted
<1>4. CASE thread[t].run # r
  <2>1. announced'[r] = announced[r]
    BY <1>1, <1>4 DEF Notify
  <2> QED BY <1>1, <1>4, <2>1 DEF Noted
<1> QED BY <1>3, <1>4

LEMMA HandlersKeepNoted ==
    ASSUME IInv, EndIsAnnounced, faults = 0, NEW t \in Threads,
           UserStep(t) \/ HandlerStep(t)
    PROVE  EndIsAnnounced'
<1>1. CASE UserStep(t)
  <2>1. /\ thread[t].op = "idle" /\ run' = run /\ announced' = announced
        /\ \A u \in Threads \ {t} : thread'[u] = thread[u]
    BY <1>1 DEF UserStep, RetryRead, CancelRead, DeleteRead, Begin, IInv, TypeOK
  <2> QED BY <2>1, QuietKeepsNoted
<1>2. ASSUME NEW r \in Runs, RetryInsert(t, r) PROVE EndIsAnnounced'
  <2>1. LegalWrite(r) /\ run'[r].status = "queued"
    BY <1>2, InsertIsLegal DEF RetryInsert, IInv, TypeOK, NewRow
  <2>2. \A q \in Runs : run'[q].status \in Final => run[q].status \in Final
    BY <2>1 DEF LegalWrite, Final
  <2> QED BY <1>2, <2>2, QuietKeepsNoted DEF RetryInsert, At, Return, Goto
<1>3. CASE DeleteWrite(t)
  <2>1. \A q \in Runs : run'[q].status \in Final => run[q].status \in Final
    BY <1>3 DEF DeleteWrite, NewRow, Final, IInv, TypeOK
  <2> QED BY <1>3, <2>1, QuietKeepsNoted DEF DeleteWrite, At, Return, Goto
<1>4. CASE ClaimUpdate(t)
  <2>0. PICK r \in Runs : r = thread[t].run
    BY <1>4 DEF ClaimUpdate, IInv, HandlerOK, At
  <2> DEFINE row == [run[r] EXCEPT !.status = "running", !.stale = FALSE,
                                   !.worker = thread[t].worker]
  <2>r. row.status = "running" /\ run' \in {run, [run EXCEPT ![r] = row]}
    BY <1>4, <2>0 DEF ClaimUpdate, IInv, TypeOK, Row
  <2> HIDE DEF row
  <2>1. \A q \in Runs : run'[q].status \in Final => run[q].status \in Final
    BY <2>r DEF IInv, TypeOK, Final
  <2> QED BY <1>4, <2>1, QuietKeepsNoted DEF ClaimUpdate, At, Return, Goto
<1>5. CASE HeartbeatWrite(t)
  <2>0. PICK r \in Runs : r = thread[t].run
    BY <1>5 DEF HeartbeatWrite, IInv, HandlerOK, At
  <2> DEFINE row == [run[r] EXCEPT !.stale = FALSE, !.results = "partial"]
  <2>r. row.status = run[r].status /\ Update(r, row)
    BY <1>5, <2>0 DEF HeartbeatWrite, IInv, TypeOK, Row
  <2> HIDE DEF row
  <2>1. \A q \in Runs : run'[q].status \in Final => run[q].status \in Final
    BY <2>r DEF Update, IInv, TypeOK
  <2> QED BY <1>5, <2>1, QuietKeepsNoted DEF HeartbeatWrite, At, Return, Goto
<1>6. ASSUME CancelWrite(t) \/ CompleteWrite(t) PROVE EndIsAnnounced'
  <2> SUFFICES ASSUME NEW r \in Runs, run'[r].status \in Final PROVE Noted(r)'
    BY DEF EndIsAnnounced, Noted
  <2> QED BY <1>6, WriteIsNoted
<1>7. ASSUME NEW q \in Runs, ReapWrite(t, q) PROVE EndIsAnnounced'
  <2> SUFFICES ASSUME NEW r \in Runs, run'[r].status \in Final PROVE Noted(r)'
    BY DEF EndIsAnnounced, Noted
  <2>1. CASE r = q
    BY <1>7, <2>1, WriteIsNoted
  <2>2. CASE r # q
    <3>1. /\ run'[r] = run[r] /\ announced' = announced /\ thread[t].step = "write"
          /\ \A u \in Threads \ {t} : thread'[u] = thread[u]
      BY <1>7, <2>2 DEF ReapWrite, Update, At, Goto, IInv, TypeOK
    <3>2. Noted(r)
      BY <3>1 DEF EndIsAnnounced, Noted
    <3> QED BY <3>1, <3>2, NotedStays, MovesFromWrite
  <2> QED BY <2>1, <2>2
<1> QED BY <1>1, <1>2, <1>3, <1>4, <1>5, <1>6, <1>7, NotifyKeepsNoted DEF HandlerStep

LEMMA NextKeepsNoted == IInv /\ EndIsAnnounced /\ [Next]_vars => EndIsAnnounced'
<1> SUFFICES ASSUME IInv, EndIsAnnounced, [Next]_vars, faults' = 0 PROVE EndIsAnnounced'
  BY DEF EndIsAnnounced
<1>0. ASSUME run' = run, thread' = thread, announced' = announced, faults = 0
      PROVE  EndIsAnnounced'
  BY <1>0 DEF EndIsAnnounced
<1>f. ~Fault
  BY DEF Fault, IInv, TypeOK
<1>1. ASSUME NEW t \in Threads, UserStep(t) \/ HandlerStep(t) PROVE EndIsAnnounced'
  <2>1. faults' = faults
    BY <1>1 DEF UserStep, HandlerStep, RetryRead, CancelRead, DeleteRead, RetryInsert, ReapWrite,
       CancelWrite, DeleteWrite, ClaimUpdate, HeartbeatWrite, CompleteWrite, Notify
  <2> QED BY <1>1, <2>1, HandlersKeepNoted
<1>2. ASSUME NEW r \in Runs, CreateRun(r) \/ AffinityExpires(r) \/ HeartbeatAges(r)
      PROVE  EndIsAnnounced'
  <2>1. /\ thread' = thread /\ announced' = announced /\ faults = 0
        /\ LegalWrite(r)
    BY <1>2, InsertIsLegal, ClocksAreLegal DEF CreateRun, AffinityExpires, HeartbeatAges
  <2>3. run'[r].status \notin Final
    <3>1. CASE CreateRun(r)
      BY <3>1, CreatedRow DEF Final, IInv, TypeOK
    <3>2. CASE AffinityExpires(r) \/ HeartbeatAges(r)
      BY <3>2 DEF AffinityExpires, HeartbeatAges, Final, IInv, TypeOK, Row
    <3> QED BY <1>2, <3>1, <3>2
  <2>2. \A q \in Runs : run'[q].status \in Final => run[q].status \in Final
    BY <2>1, <2>3 DEF LegalWrite
  <2> QED BY <2>1, <2>2 DEF EndIsAnnounced
<1>3. ASSUME NEW r \in Runs, ClaimReply(r) \/ FinishRun(r) \/ GiveUp(r) PROVE EndIsAnnounced'
  BY <1>0, <1>3, <1>f DEF ClaimReply, FinishRun, Finish, GiveUp
<1>4. ASSUME NEW r \in Runs, NEW t \in Threads, HeartbeatRead(t, r) \/ CompleteRead(t, r)
      PROVE  EndIsAnnounced'
  <2>1. /\ run' = run /\ announced' = announced /\ faults = 0
        /\ thread' = thread \/ /\ thread[t].op = "idle"
                               /\ \A u \in Threads \ {t} : thread'[u] = thread[u]
    BY <1>4, <1>f DEF HeartbeatRead, CompleteRead, Begin, IInv, TypeOK
  <2> QED BY <1>0, <2>1, QuietKeepsNoted
<1>5. ASSUME NEW w \in Workers, NEW t \in Threads, NEW r \in Runs, ClaimSelect(t, w, r)
      PROVE  EndIsAnnounced'
  <2>1. /\ run' = run /\ announced' = announced /\ faults = 0 /\ thread[t].op = "idle"
        /\ \A u \in Threads \ {t} : thread'[u] = thread[u]
    BY <1>5 DEF ClaimSelect, Begin, IInv, TypeOK
  <2> QED BY <2>1, QuietKeepsNoted
<1>6. ASSUME NEW t \in Threads, ReapList(t) PROVE EndIsAnnounced'
  <2>1. /\ run' = run /\ announced' = announced /\ faults = 0 /\ thread[t].op = "idle"
        /\ \A u \in Threads \ {t} : thread'[u] = thread[u]
    BY <1>6 DEF ReapList, Begin, IInv, TypeOK
  <2> QED BY <2>1, QuietKeepsNoted
<1>7. ~ServerRestart /\ \A w \in Workers : ~WorkerCrash(w)
  BY <1>f, Zenon DEF ServerRestart, WorkerCrash
<1>8. CASE UNCHANGED vars
  BY <1>0, <1>8 DEF vars
<1> QED BY <1>1, <1>2, <1>3, <1>4, <1>5, <1>6, <1>7, <1>8
        DEF Next, Heartbeat, Complete, Claim, Reap

(* Without faults no end of a run goes unannounced. *)
THEOREM EndIsAnnouncedAlways == Spec => []EndIsAnnounced
<1>1. Init => EndIsAnnounced
  BY DEF Init, EndIsAnnounced, NewRow, Final
<1> QED BY <1>1, NextKeepsNoted, Invariance, PTL DEF Spec
=============================================================================
