------------------------------- MODULE WebJob -------------------------------
(***************************************************************************)
(* The job of the Web server (qwen_asr/web/server.py, job_state.py): one   *)
(* process of the pipeline at a time, the thread that waits for it, the    *)
(* request that stops it, and the job's state in memory (ACTIVE_JOB, under *)
(* JOB_LOCK) and in job.json, which the stage view reads and corrects      *)
(* without the lock.                                                       *)
(***************************************************************************)
EXTENDS Naturals, FiniteSets

CONSTANTS MaxJobs,      \* bound: jobs started
          MaxCrashes    \* bound: crashes of the server

ASSUME JobAssumption == MaxJobs \in Nat /\ MaxCrashes \in Nat

Jobs == 1..MaxJobs

VARIABLES active,    \* ACTIVE_JOB; id 0 if there is none
          saved,     \* job.json
          proc,      \* proc[j]: the process of job j
          waiter,    \* waiter[j]: its _wait_job thread
          stopper,   \* stopper[j]: the request that stops it
          viewer,    \* the job a stage view has read and is to correct, or 0
          asked,     \* the jobs that a user asked to stop
          crashes    \* crashes so far

jobVars == <<active, saved, proc, waiter, stopper, viewer, asked, crashes>>

Statuses == {"running", "stopping", "stopped", "completed", "failed", "interrupted"}
Record   == [id : Jobs, status : Statuses]
NoJob    == [id |-> 0, status |-> "none"]

(* A process: runs, runs on although told to end, has ended and is not yet *)
(* waited for, is gone.  It ended well or not.                             *)
Alive == {"live", "told"}
Ended == {"endedOk", "endedBad"}
Gone  == {"goneOk", "goneBad"}
ProcStates == {"none"} \cup Alive \cup Ended \cup Gone
Started == {j \in Jobs : proc[j] # "none"}

JobInit == /\ active = NoJob
           /\ saved = NoJob
           /\ proc = [j \in Jobs |-> "none"]
           /\ waiter = [j \in Jobs |-> "none"]
           /\ stopper = [j \in Jobs |-> "none"]
           /\ viewer = 0
           /\ asked = {}
           /\ crashes = 0
-----------------------------------------------------------------------------
MayStartAnytime == TRUE
MayStart        == active.status # "running"

Start(j) ==
    /\ MayStart
    /\ j = Cardinality(Started) + 1
    /\ active' = [id |-> j, status |-> "running"]
    /\ saved' = active'
    /\ proc' = [proc EXCEPT ![j] = "live"]
    /\ waiter' = [waiter EXCEPT ![j] = "waits"]
    /\ UNCHANGED <<stopper, viewer, asked, crashes>>

(* The process ends, or its server is gone and nobody waits for it. *)
ProcEnds(j) ==
    /\ proc[j] \in Alive
    /\ \E well \in BOOLEAN :
         proc' = [proc EXCEPT ![j] =
             IF waiter[j] = "waits" THEN IF well THEN "endedOk" ELSE "endedBad"
             ELSE IF well THEN "goneOk" ELSE "goneBad"]
    /\ UNCHANGED <<active, saved, waiter, stopper, viewer, asked, crashes>>

WaitReturns(j) ==
    /\ waiter[j] = "waits" /\ proc[j] \in Ended
    /\ proc' = [proc EXCEPT ![j] = IF @ = "endedOk" THEN "goneOk" ELSE "goneBad"]
    /\ waiter' = [waiter EXCEPT ![j] = "returned"]
    /\ UNCHANGED <<active, saved, stopper, viewer, asked, crashes>>

OutcomeAlwaysOk(j) == IF active.status = "stopping" THEN "stopped" ELSE "completed"
OutcomeOf(j) ==
    IF active.status = "stopping" THEN "stopped"
    ELSE IF proc[j] = "goneOk" THEN "completed" ELSE "failed"

(* The rest of _wait_job, for a job that is still the active one. *)
Finish(j) ==
    /\ waiter[j] = "returned"
    /\ waiter' = [waiter EXCEPT ![j] = "none"]
    /\ IF active.id = j
       THEN /\ active' = [id |-> j, status |-> OutcomeOf(j)]
            /\ saved' = active'
       ELSE UNCHANGED <<active, saved>>
    /\ UNCHANGED <<proc, stopper, viewer, asked, crashes>>

(* stop_job: marks the job, ends its process without the lock, and notes   *)
(* that it is stopped, unless another job has been started meanwhile.      *)
StopBegins(j) ==
    /\ active = [id |-> j, status |-> "running"]
    /\ active' = [active EXCEPT !.status = "stopping"]
    /\ stopper' = [stopper EXCEPT ![j] = "marked"]
    /\ asked' = asked \cup {j}
    /\ UNCHANGED <<saved, proc, waiter, viewer, crashes>>

Terminate(j) ==
    /\ stopper[j] = "marked"
    /\ stopper' = [stopper EXCEPT ![j] = "told"]
    /\ proc' = [proc EXCEPT ![j] = IF @ = "live" THEN "told" ELSE @]
    /\ UNCHANGED <<active, saved, waiter, viewer, asked, crashes>>

StopEnds(j) ==
    /\ stopper[j] = "told"
    /\ stopper' = [stopper EXCEPT ![j] = "none"]
    /\ IF active.id = j
       THEN /\ active' = [id |-> j, status |-> "stopped"]
            /\ saved' = active'
       ELSE UNCHANGED <<active, saved>>
    /\ UNCHANGED <<proc, waiter, viewer, asked, crashes>>

(* load_job: a saved job whose process is gone is corrected.  The stage    *)
(* view (and get_active_job of a server without a job) reads, and writes   *)
(* what it has read, in two steps.                                         *)
IsLost(j)       == proc[j] \in Gone

Look ==
    /\ viewer = 0 /\ saved.status \in {"running", "stopping"}
    /\ IsLost(saved.id)
    /\ viewer' = saved.id
    /\ UNCHANGED <<active, saved, proc, waiter, stopper, asked, crashes>>

Correct ==
    /\ viewer # 0
    /\ saved' = [id |-> viewer, status |-> "interrupted"]
    /\ viewer' = 0
    /\ UNCHANGED <<active, proc, waiter, stopper, asked, crashes>>

(* The processes outlive the server; the ended ones are waited for by init. *)
JobCrash ==
    /\ crashes < MaxCrashes
    /\ crashes' = crashes + 1
    /\ active' = NoJob
    /\ proc' = [j \in Jobs |-> CASE proc[j] = "endedOk" -> "goneOk"
                                 [] proc[j] = "endedBad" -> "goneBad"
                                 [] OTHER -> proc[j]]
    /\ waiter' = [j \in Jobs |-> "none"]
    /\ stopper' = [j \in Jobs |-> "none"]
    /\ viewer' = 0
    /\ UNCHANGED <<saved, asked>>

Threads(j) == WaitReturns(j) \/ Finish(j) \/ Terminate(j) \/ StopEnds(j)

JobNext == \/ \E j \in Jobs : Start(j) \/ ProcEnds(j) \/ StopBegins(j) \/ Threads(j)
           \/ Look \/ Correct
-----------------------------------------------------------------------------
JobTypeOK ==
    /\ active \in Record \cup {NoJob}
    /\ saved \in Record \cup {NoJob}
    /\ proc \in [Jobs -> ProcStates]
    /\ waiter \in [Jobs -> {"none", "waits", "returned"}]
    /\ stopper \in [Jobs -> {"none", "marked", "told"}]
    /\ viewer \in 0..MaxJobs
    /\ asked \subseteq Jobs
    /\ crashes \in 0..MaxCrashes

(* start_job, "Another job is already running": two processes work at a    *)
(* time only if the user asked the older one to stop, or the server that   *)
(* started it is gone; and a server never loses sight of the one it runs.  *)
OneJob ==
    \A j \in Jobs : waiter[j] = "waits" /\ proc[j] = "live" /\ j \notin asked =>
        /\ active = [id |-> j, status |-> "running"]
        /\ \A i \in Jobs \ {j} : proc[i] = "live" /\ i \notin asked => waiter[i] = "none"

(* What job.json says of the end of a job is true of its process, whichever *)
(* of the waiter, the stop request and the views of a page or of a         *)
(* restarted server has written it last.                                   *)
SavedEndIsTrue ==
    CASE saved.status = "completed"   -> proc[saved.id] = "goneOk"
      [] saved.status = "failed"      -> proc[saved.id] = "goneBad"
      [] saved.status = "stopped"     -> saved.id \in asked
      [] saved.status = "interrupted" -> proc[saved.id] \in Gone
      [] OTHER -> TRUE
=============================================================================
