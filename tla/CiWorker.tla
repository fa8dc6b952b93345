------------------------------ MODULE CiWorker ------------------------------
(***************************************************************************)
(* One worker (qwen_asr/ci/worker.py): its poll loop, the executors of the *)
(* runs it has claimed, each with a main and a heartbeat thread, and the   *)
(* phase processes they start (qwen_asr/ci/phase.py), which share the GPU  *)
(* by a lock file.  The threads of an executor share `cancelled` and       *)
(* `process` without a lock: what one reads, the other may change before   *)
(* the first acts on it.                                                   *)
(***************************************************************************)
EXTENDS Naturals, FiniteSets

CONSTANTS Execs,       \* the executors: one per run the worker claims
          MaxRuns,     \* --max-runs
          MaxCrashes   \* bound: crashes of the worker process

ASSUME WorkerAssumption == MaxRuns \in Nat /\ MaxCrashes \in Nat

VARIABLES main,      \* main[e]: where the main thread of e is
          aux,       \* aux[e]: where its heartbeat thread is
          exec,      \* exec[e]: what the two threads share, and the outcome
          proc,      \* proc[e]: the phase process e has started last
          cancel,    \* cancel[e]: the server answers heartbeats with cancel_requested
          crashes    \* crashes so far

vars == <<main, aux, exec, proc, cancel, crashes>>

MainStates == {"idle", "prepare", "check", "spawn", "phase", "verdict", "upload",
               "join", "report", "over"}
AuxStates  == {"none", "loop", "asked", "found", "kill", "dead", "stopped"}

Exec == [inGpu : BOOLEAN,            \* in_gpu_phase
         phase : {"gpu", "api"},     \* the loop variable of run()
         cancelled : BOOLEAN,        \* the event
         process : BOOLEAN,          \* self.process is not None
         stop : BOOLEAN,             \* _stop_aux
         code : {"ok", "failed"},    \* of the last phase
         outcome : {"none", "succeeded", "failed", "cancelled"}]
NewExec == [inGpu |-> TRUE, phase |-> "gpu", cancelled |-> FALSE, process |-> FALSE,
            stop |-> FALSE, code |-> "failed", outcome |-> "none"]

(* A phase process: it has not used the GPU yet, waits for its lock, holds *)
(* it, has given it back; or has exited with 0 or otherwise.               *)
ProcStates == {"none", "start", "waiting", "gpu", "free", "ok", "failed"}
Live    == {"start", "waiting", "gpu", "free"}
OnGpu   == {e \in Execs : proc[e] = "gpu"}

Init == /\ main = [e \in Execs |-> "idle"]
        /\ aux = [e \in Execs |-> "none"]
        /\ exec = [e \in Execs |-> NewExec]
        /\ proc = [e \in Execs |-> "none"]
        /\ cancel = [e \in Execs |-> FALSE]
        /\ crashes = 0
-----------------------------------------------------------------------------
Main(e, from, to) == main[e] = from /\ main' = [main EXCEPT ![e] = to]
Aux(e, from, to)  == aux[e] = from /\ aux' = [aux EXCEPT ![e] = to]
Share(e, x)       == exec' = [exec EXCEPT ![e] = x]

(* The executors whose thread is alive. *)
Active == {e \in Execs : main[e] \notin {"idle", "over"}}

CanClaim == /\ Cardinality(Active) < MaxRuns
            /\ \A e \in Active : ~exec[e].inGpu

Claim(e) ==
    /\ CanClaim
    /\ Main(e, "idle", "prepare")
    /\ Aux(e, "none", "loop")
    /\ UNCHANGED <<exec, proc, cancel, crashes>>

(* Media and inputs are fetched and the spec is written, or that fails.    *)
Settle(e, outcome) == Share(e, [exec[e] EXCEPT !.outcome = outcome, !.inGpu = FALSE])

Prepare(e) ==
    /\ Main(e, "prepare", "check")
    /\ UNCHANGED <<aux, exec, proc, cancel, crashes>>

(* An exception, for one if the phase process cannot be started.           *)
Raises(e) ==
    /\ \/ Main(e, "prepare", "upload")
       \/ Main(e, "spawn", "upload")
    /\ Settle(e, "failed")
    /\ UNCHANGED <<aux, proc, cancel, crashes>>

(* The top of the loop over the phases. *)
StopsHere(e)      == exec[e].cancelled

Check(e) ==
    /\ Main(e, "check", IF StopsHere(e) THEN "verdict" ELSE "spawn")
    /\ Share(e, IF StopsHere(e) THEN exec[e]
                ELSE [exec[e] EXCEPT !.inGpu = (@ /\ exec[e].phase = "gpu")])
    /\ UNCHANGED <<aux, proc, cancel, crashes>>

(* run_phase: the process is started; its output is read until it ends.    *)
Spawn(e) ==
    /\ Main(e, "spawn", "phase")
    /\ proc' = [proc EXCEPT ![e] = "start"]
    /\ Share(e, [exec[e] EXCEPT !.process = TRUE])
    /\ UNCHANGED <<aux, cancel, crashes>>

Ended(e)         == proc[e] \notin Live

PhaseOver(e) ==
    LET next == IF proc[e] = "ok" /\ exec[e].phase = "gpu" THEN "check" ELSE "verdict" IN
    /\ Ended(e)
    /\ Main(e, "phase", next)
    /\ Share(e, [exec[e] EXCEPT !.process = FALSE, !.inGpu = FALSE, !.code = proc[e],
                                !.phase = IF next = "check" THEN "api" ELSE @])
    /\ UNCHANGED <<aux, proc, cancel, crashes>>

VerdictByCode(e) == IF exec[e].code = "ok" THEN "succeeded" ELSE "failed"
VerdictOf(e) == IF exec[e].cancelled THEN "cancelled" ELSE VerdictByCode(e)

Verdict(e) ==
    /\ Main(e, "verdict", "upload")
    /\ Settle(e, VerdictOf(e))
    /\ UNCHANGED <<aux, proc, cancel, crashes>>

(* Unless cancelled what there is is uploaded; then the heartbeat thread is *)
(* told to stop, and waited for, for ten seconds.                          *)
Upload(e) ==
    /\ Main(e, "upload", "join")
    /\ Share(e, [exec[e] EXCEPT !.stop = TRUE])
    /\ UNCHANGED <<aux, proc, cancel, crashes>>

(* upload_artifacts catches what a request raises, not what reading the    *)
(* subtitles or writing the archives does: the executor's thread ends with *)
(* the exception, and neither stops the heartbeat thread nor reports.  (No  *)
(* phase, nothing to upload.)                                              *)
UploadRaises(e) ==
    /\ exec[e].outcome # "cancelled" /\ proc[e] # "none"
    /\ Main(e, "upload", "over")
    /\ UNCHANGED <<aux, exec, proc, cancel, crashes>>

JoinedWhenStopped(e) == aux[e] = "stopped"
Joined(e) == aux[e] \in {"stopped", "dead"}

Join(e) ==
    /\ Joined(e)
    /\ Main(e, "join", "report")
    /\ UNCHANGED <<aux, exec, proc, cancel, crashes>>

JoinTimesOut(e) ==
    /\ aux[e] = "asked"                     \* a request that takes longer
    /\ Main(e, "join", "report")
    /\ UNCHANGED <<aux, exec, proc, cancel, crashes>>

Report(e) ==
    /\ Main(e, "report", "over")
    /\ UNCHANGED <<aux, exec, proc, cancel, crashes>>
-----------------------------------------------------------------------------
(* The heartbeat thread.  After a reply with cancel_requested it sets the   *)
(* event, looks whether there is a process, and kills the one it then finds *)
(* there: none, if the main thread has cleared the attribute, is an error  *)
(* that ends the thread.                                                   *)
Ask(e) ==
    /\ ~exec[e].stop
    /\ Aux(e, "loop", "asked")
    /\ UNCHANGED <<main, exec, proc, cancel, crashes>>

Hears(e) == cancel[e] /\ ~exec[e].cancelled

Reply(e) ==
    /\ Aux(e, "asked", IF Hears(e) THEN "found" ELSE "loop")
    /\ Share(e, [exec[e] EXCEPT !.cancelled = @ \/ Hears(e)])
    /\ UNCHANGED <<main, proc, cancel, crashes>>

Look(e) ==
    /\ Aux(e, "found", IF exec[e].process THEN "kill" ELSE "loop")
    /\ UNCHANGED <<main, exec, proc, cancel, crashes>>

Killed(e) == IF proc[e] \in Live THEN [proc EXCEPT ![e] = "failed"] ELSE proc

Kill(e) ==
    /\ Aux(e, "kill", IF exec[e].process THEN "loop" ELSE "dead")
    /\ proc' = IF exec[e].process THEN Killed(e) ELSE proc
    /\ UNCHANGED <<main, exec, cancel, crashes>>

AuxStops(e) ==
    /\ exec[e].stop
    /\ Aux(e, "loop", "stopped")
    /\ UNCHANGED <<main, exec, proc, cancel, crashes>>

(* The main thread sends a heartbeat too when a stage of the phase ends.   *)
MainBeat(e) ==
    /\ main[e] = "phase" /\ Hears(e)
    /\ Share(e, [exec[e] EXCEPT !.cancelled = TRUE])
    /\ proc' = Killed(e)
    /\ UNCHANGED <<main, aux, cancel, crashes>>
-----------------------------------------------------------------------------
(* The phase processes.  The GPU phase takes the lock for its stages and    *)
(* again to recover failed alignments (here: as often as it likes), the API *)
(* phase once, for proofread-realign, if anything must be aligned again.   *)
NoLock   == TRUE
LockFree == OnGpu = {}

Proc(e, from, to) == /\ proc[e] \in from
                     /\ proc' = [proc EXCEPT ![e] = to]
                     /\ UNCHANGED <<main, aux, exec, cancel, crashes>>

WantGpu(e) == Proc(e, {"start"} \cup (IF exec[e].phase = "gpu" THEN {"free"} ELSE {}), "waiting")
TakeGpu(e) == LockFree /\ Proc(e, {"waiting"}, "gpu")
FreeGpu(e) == Proc(e, {"gpu"}, "free")

ExitsOk(e)   == Proc(e, {"free"} \cup (IF exec[e].phase = "api" THEN {"start"} ELSE {}), "ok")
ExitsElse(e) == Proc(e, Live, "failed")

(* A user cancels, or the run was failed or deleted behind its back: from  *)
(* now on the heartbeats are answered with cancel_requested.               *)
Cancel(e) ==
    /\ ~cancel[e] /\ main[e] # "over"
    /\ cancel' = [cancel EXCEPT ![e] = TRUE]
    /\ UNCHANGED <<main, aux, exec, proc, crashes>>

(* The worker process dies; the phase processes, in sessions of their own,  *)
(* live on.  A restarted worker starts with no executors.                  *)
Crash ==
    /\ \E e \in Execs : main[e] \notin {"idle", "over"} \/ aux[e] \notin {"none", "dead", "stopped"}
    /\ crashes < MaxCrashes
    /\ crashes' = crashes + 1
    /\ main' = [e \in Execs |-> IF e \in Active THEN "over" ELSE main[e]]
    /\ aux' = [e \in Execs |-> IF aux[e] \in {"none", "stopped"} THEN aux[e] ELSE "dead"]
    /\ UNCHANGED <<exec, proc, cancel>>
-----------------------------------------------------------------------------
MainStep(e) == \/ Prepare(e) \/ Raises(e) \/ Check(e) \/ Spawn(e) \/ PhaseOver(e)
               \/ Verdict(e) \/ Upload(e) \/ UploadRaises(e)
               \/ Join(e) \/ JoinTimesOut(e) \/ Report(e)
AuxStep(e)  == Reply(e) \/ Look(e) \/ Kill(e) \/ AuxStops(e)
Exits(e)    == ExitsOk(e) \/ ExitsElse(e)

Next == \/ \E e \in Execs : \/ Claim(e) \/ MainStep(e)
                            \/ Ask(e) \/ AuxStep(e) \/ MainBeat(e)
                            \/ WantGpu(e) \/ TakeGpu(e) \/ FreeGpu(e) \/ Exits(e)
                            \/ Cancel(e)
        \/ Crash

Spec == Init /\ [][Next]_vars

(* The threads run, a free lock is taken, and a process comes to its end:   *)
(* it uses the GPU finitely often, and waits for nothing else.             *)
Fairness == \A e \in Execs : /\ WF_vars(MainStep(e)) /\ WF_vars(AuxStep(e))
                             /\ WF_vars(TakeGpu(e))
                             /\ SF_vars(proc[e] # "waiting" /\ Exits(e))

FairSpec == Spec /\ Fairness
-----------------------------------------------------------------------------
TypeOK == /\ main \in [Execs -> MainStates]
          /\ aux \in [Execs -> AuxStates]
          /\ exec \in [Execs -> Exec]
          /\ proc \in [Execs -> ProcStates]
          /\ cancel \in [Execs -> BOOLEAN]
          /\ crashes \in 0..MaxCrashes

(* docs/CI.md section 1: the GPU is used by one phase process at a time,   *)
(* also when one outlived its worker or realigns in its API phase.         *)
GpuIsSerial == Cardinality(OnGpu) <= 1

(* docs/CI.md section 1: a worker claims nothing while one of its runs is  *)
(* in the GPU phase.  So no two of its executors ever are, a GPU phase only *)
(* waits for a realignment or for what a crashed worker left behind, and   *)
(* in_gpu_phase tells the truth: no GPU phase process runs without it.     *)
OneGpuPhase ==
    \A e \in Active : /\ exec[e].inGpu => \A d \in Active \ {e} : ~exec[d].inGpu
                      /\ exec[e].phase = "gpu" /\ proc[e] \in Live => exec[e].inGpu

(* Once an executor has noticed the cancellation before it checks for it,  *)
(* it starts no further phase.                                             *)
NoPhaseAfterCancel ==
    [][\A e \in Execs : exec[e].cancelled /\ main[e] # "spawn" => main'[e] # "spawn"]_vars

(* Both threads together behave as the run table expects of an executor.   *)
PhaseOf(e) == CASE main[e] = "idle" -> "none"
                [] main[e] \in {"prepare", "check", "spawn", "phase", "verdict"} -> "working"
                [] main[e] \in {"upload", "join", "report"} -> "reporting"
                [] OTHER -> "over"
ToldOf(e) == exec[e].cancelled /\ PhaseOf(e) = "working"
Life == INSTANCE ExecutorLife WITH
    Executors <- Execs,
    phase <- [e \in Execs |-> PhaseOf(e)],
    told <- [e \in Execs |-> ToldOf(e)],
    outcome <- [e \in Execs |-> exec[e].outcome]
ImplementsLife == Life!Spec

(* A success is reported only if the API phase, hence both, exited with 0. *)
SuccessRanBoth == \A e \in Execs : exec[e].outcome = "succeeded"
                                     => exec[e].phase = "api" /\ proc[e] = "ok"

(* However its threads, its phases and those of a crashed worker overlap:  *)
(* the GPU is serial, one run at a time is in its GPU phase, and only a    *)
(* run whose phases both ended well is reported as a success.              *)
WorkerIsOrderly == GpuIsSerial /\ OneGpuPhase /\ SuccessRanBoth

(* The thread of every claimed run ends: no lock, no phase and no heartbeat *)
(* thread that hangs or has died keeps an executor, and its place among the *)
(* max_runs of the worker, for ever.                                       *)
EveryExecutorEnds == \A e \in Execs : main[e] = "prepare" ~> main[e] = "over"

=============================================================================
