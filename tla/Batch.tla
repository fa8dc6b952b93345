-------------------------------- MODULE Batch --------------------------------
(***************************************************************************)
(* batch-run (qwen_asr/batch_runner.py): the media of a batch get a        *)
(* directory each, are prepared by a few threads and then run one after    *)
(* another; a summary tells what became of them.  What a run does in its   *)
(* directory is Pipeline.                                                  *)
(***************************************************************************)
EXTENDS Naturals, Sequences, FiniteSets

CONSTANTS NMedia,         \* the media of the batch
          Requested,      \* the directories that may be asked for
          PrepareWorkers  \* prepare_workers

(* No media is an error of the command line; a directory is a name and the *)
(* numbers behind it.                                                      *)
ASSUME BatchAssumption ==
    /\ NMedia \in Nat \ {0} /\ PrepareWorkers \in Nat \ {0}
    /\ Requested \subseteq Seq(Nat)

Media == 1..NMedia

VARIABLES phase,    \* where run_batch_command is
          failFast, \* fail_fast
          dirs,     \* the directory of each medium
          pool,     \* the future of its prepare
          row,      \* its row of the summary
          outcome,  \* how its run has ended in fact
          summary   \* batch-summary.json, one of an earlier batch at first

batchVars == <<phase, failFast, dirs, pool, row, outcome, summary>>

BatchInit == /\ phase = "load"
             /\ failFast \in BOOLEAN
             /\ dirs = <<>>
             /\ pool = [m \in Media |-> "new"]
             /\ row = [m \in Media |-> "pending"]
             /\ outcome = [m \in Media |-> "not"]
             /\ summary = [m \in Media |-> "earlier"]
-----------------------------------------------------------------------------
(* _unique_workdir: what is asked for, or else with the first number that  *)
(* no medium before has.                                                   *)
Unique(d, taken) ==
    IF d \notin taken THEN d
    ELSE LET free == {i \in 2..NMedia + 1 : Append(d, i) \notin taken}
         IN  Append(d, CHOOSE i \in free : \A j \in free : i <= j)

(* _load_tasks *)
Load ==
    /\ phase = "load"
    /\ \E d \in Requested :
          dirs' = Append(dirs, Unique(d, {dirs[i] : i \in DOMAIN dirs}))
    /\ phase' = IF Len(dirs') = NMedia THEN "prepare" ELSE "load"
    /\ pool' = IF Len(dirs') = NMedia THEN [m \in Media |-> "queued"] ELSE pool
    /\ UNCHANGED <<failFast, row, outcome, summary>>

(* A thread of the pool: _prepare_only, which returns, fails or raises.    *)
StartPrepare(m) ==
    /\ pool[m] = "queued"
    /\ Cardinality({n \in Media : pool[n] = "running"}) < PrepareWorkers
    /\ \A n \in Media : n < m => pool[n] # "queued"
    /\ pool' = [pool EXCEPT ![m] = "running"]
    /\ UNCHANGED <<phase, failFast, dirs, row, outcome, summary>>

EndPrepare(m) ==
    /\ pool[m] = "running"
    /\ \E result \in {"ok", "error"} : pool' = [pool EXCEPT ![m] = result]
    /\ UNCHANGED <<phase, failFast, dirs, row, outcome, summary>>

(* _normalize_summary_row, _write_batch_summary *)
Normalized(status) == IF status = "prepared" THEN "pending" ELSE status
Write(rows) == summary' = [m \in Media |-> Normalized(rows[m])]

(* What the loops of run_batch_command make of a result: with fail_fast a  *)
(* failure ends the batch with the summary of the moment.                  *)
Set(m, status, next) ==
    LET rows == [row EXCEPT ![m] = status]
        stops == failFast /\ status = "failed"
    IN  /\ row' = rows
        /\ phase' = IF stops THEN "stopping" ELSE next
        /\ IF stops THEN Write(rows) ELSE UNCHANGED summary

(* as_completed yields the futures in the order in which they end.         *)
CollectPrepare(m) ==
    /\ phase = "prepare"
    /\ pool[m] \in {"ok", "error"} /\ row[m] = "pending"
    /\ Set(m, IF pool[m] = "ok" THEN "prepared" ELSE "failed", "prepare")
    /\ UNCHANGED <<failFast, dirs, pool, outcome>>

AllPrepared ==
    /\ phase = "prepare" /\ phase' = "run"
    /\ \A m \in Media : row[m] # "pending"
    /\ UNCHANGED <<failFast, dirs, pool, row, outcome, summary>>

ToRun(m) == row[m] = "prepared"

StatusAlways(m, code) == "completed"
StatusOf(m, code)     == IF code = "ok" THEN "completed" ELSE "failed"

(* PipelineRunner.run: nothing else of the batch is under way.             *)
Run(m) ==
    /\ phase = "run" /\ ToRun(m)
    /\ \A n \in Media : n < m => ~ToRun(n)
    /\ \E code \in {"ok", "error"} :
          /\ outcome' = [outcome EXCEPT ![m] = code]
          /\ Set(m, StatusOf(m, code), "run")
    /\ UNCHANGED <<failFast, dirs, pool>>

Finish ==
    /\ phase = "run" /\ phase' = "end"
    /\ \A m \in Media : ~ToRun(m)
    /\ Write(row)
    /\ UNCHANGED <<failFast, dirs, pool, row, outcome>>

(* The end of the with block: what has been submitted is still done.       *)
Stop ==
    /\ phase = "stopping" /\ phase' = "end"
    /\ \A m \in Media : pool[m] \in {"ok", "error"}
    /\ UNCHANGED <<failFast, dirs, pool, row, outcome, summary>>

BatchNext ==
    \/ Load \/ AllPrepared \/ Finish \/ Stop
    \/ \E m \in Media : StartPrepare(m) \/ EndPrepare(m) \/ CollectPrepare(m) \/ Run(m)

BatchSpec == BatchInit /\ [][BatchNext]_batchVars
-----------------------------------------------------------------------------
(* No two media of a batch share a directory, whatever was asked for, so   *)
(* that their prepares may run at the same time.                           *)
MediaApart == \A m, n \in DOMAIN dirs : m # n => dirs[m] # dirs[n]

(* When the batch is over its summary names as completed what has run well *)
(* and as failed only what has failed; without fail_fast nothing is left   *)
(* pending, with it a prepare that was not waited for may be.              *)
SummaryIsTrue ==
    phase = "end" => \A m \in Media :
        /\ summary[m] = "completed" <=> outcome[m] = "ok"
        /\ summary[m] = "failed" => pool[m] = "error" \/ outcome[m] = "error"
        /\ summary[m] = "pending" => failFast
        /\ summary[m] \in {"completed", "failed", "pending"}

(* Both: what may run at the same time is apart, and what is told of it is *)
(* what happened.                                                          *)
BatchIsTrue == MediaApart /\ SummaryIsTrue
=============================================================================
