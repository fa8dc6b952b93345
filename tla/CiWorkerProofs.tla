--------------------------- MODULE CiWorkerProofs ---------------------------
(***************************************************************************)
(* Theorems about CiWorker for every number of executors, --max-runs and   *)
(* crashes.  IInv says, for every place the main thread may be at, what it *)
(* knows there of in_gpu_phase, of its last process and of the outcome.    *)
(***************************************************************************)
EXTENDS CiWorker, FiniteSetTheorems, TLAPS

Settled == {"upload", "join", "report"}

(* in_gpu_phase against the phase and the process. *)
GpuOK(e) ==
    /\ main[e] \in {"idle", "prepare"} => exec[e].inGpu /\ exec[e].phase = "gpu"
    /\ main[e] \in {"check", "spawn", "phase"} => (exec[e].inGpu <=> exec[e].phase = "gpu")
    /\ main[e] \in Settled => ~exec[e].inGpu
    /\ main[e] \in {"prepare", "check", "spawn", "verdict"} \cup Settled => proc[e] \notin Live
    /\ main[e] \in {"idle", "prepare"} => proc[e] = "none"
    /\ main[e] = "phase" => proc[e] # "none"

(* The outcome against the exit codes. *)
OutcomeOK(e) ==
    /\ main[e] \in {"idle", "prepare", "check", "spawn", "phase", "verdict"} => exec[e].outcome = "none"
    /\ main[e] \in Settled => exec[e].outcome # "none"
    /\ main[e] = "verdict" /\ exec[e].code = "ok" /\ ~exec[e].cancelled
         => exec[e].phase = "api" /\ proc[e] = "ok"
    /\ exec[e].outcome = "succeeded" => exec[e].phase = "api" /\ proc[e] = "ok"
    /\ main[e] = "idle" => aux[e] = "none" /\ ~exec[e].cancelled

Alone(e) == main[e] \notin {"idle", "over"} /\ exec[e].inGpu
OneAlone == \A d, e \in Execs : Alone(d) /\ Alone(e) => d = e
OneHolds == \A d, e \in Execs : proc[d] = "gpu" /\ proc[e] = "gpu" => d = e

IInv == /\ TypeOK
        /\ \A e \in Execs : GpuOK(e) /\ OutcomeOK(e)
        /\ OneAlone
        /\ OneHolds
-----------------------------------------------------------------------------
LEMMA NewExecTyped == NewExec \in Exec
BY DEF NewExec, Exec

LEMMA InitIInv == Init => IInv
<1> SUFFICES ASSUME Init PROVE IInv
  OBVIOUS
<1>1. TypeOK
  BY WorkerAssumption, NewExecTyped DEF Init, TypeOK, MainStates, AuxStates, ProcStates
<1>2. ASSUME NEW e \in Execs PROVE GpuOK(e) /\ OutcomeOK(e)
  BY DEF Init, GpuOK, OutcomeOK, NewExec, Settled
<1>3. OneAlone /\ OneHolds
  BY DEF Init, OneAlone, Alone, OneHolds
<1> QED
  BY <1>1, <1>2, <1>3 DEF IInv

(* A step that touches e only need be looked at for e. *)
Frame(e) == \A d \in Execs : d # e =>
    main'[d] = main[d] /\ aux'[d] = aux[d] /\ exec'[d] = exec[d] /\ proc'[d] = proc[d]

LEMMA LocalStep ==
    ASSUME IInv, NEW e \in Execs, TypeOK', Frame(e), GpuOK(e)', OutcomeOK(e)',
           Alone(e)' => Alone(e), proc'[e] = "gpu" => proc[e] = "gpu"
    PROVE  IInv'
<1>1. ASSUME NEW d \in Execs PROVE GpuOK(d)' /\ OutcomeOK(d)'
  <2>1. CASE d = e
    BY <2>1
  <2>2. CASE d # e
    BY <2>2 DEF IInv, GpuOK, OutcomeOK, Frame
  <2> QED
    BY <2>1, <2>2
<1>2. \A d \in Execs : Alone(d)' => Alone(d)
  BY DEF Frame, Alone
<1>3. \A d \in Execs : proc'[d] = "gpu" => proc[d] = "gpu"
  BY DEF Frame
<1>4. OneAlone'
  BY <1>2 DEF IInv, OneAlone
<1>5. OneHolds'
  BY <1>3 DEF IInv, OneHolds
<1> QED
  BY <1>1, <1>4, <1>5 DEF IInv

(* The steps of the main thread after the claim. *)
LEMMA MainStepKeepsIInv == ASSUME IInv, NEW e \in Execs, MainStep(e) PROVE IInv'
<1> USE DEF Main, Share
<1>t. /\ TypeOK /\ GpuOK(e) /\ OutcomeOK(e) /\ exec[e] \in Exec
      /\ proc[e] \in ProcStates /\ main[e] \in MainStates
  BY DEF IInv, TypeOK
<1>1. CASE Prepare(e)
  <2>1. TypeOK'
    BY <1>1, <1>t DEF Prepare, TypeOK, MainStates
  <2>2. Frame(e) /\ GpuOK(e)' /\ OutcomeOK(e)' /\ (Alone(e)' => Alone(e)) /\ proc' = proc
    BY <1>1, <1>t DEF Prepare, Frame, GpuOK, OutcomeOK, Alone, TypeOK, Settled, Live
  <2> QED
    BY <2>1, <2>2, LocalStep
<1>2. CASE Raises(e)
  <2>1. TypeOK'
    BY <1>2, <1>t DEF Raises, Settle, TypeOK, MainStates, Exec
  <2>2. Frame(e) /\ GpuOK(e)' /\ OutcomeOK(e)' /\ (Alone(e)' => Alone(e)) /\ proc' = proc
    BY <1>2, <1>t DEF Raises, Settle, Frame, GpuOK, OutcomeOK, Alone, TypeOK, Settled, Live, Exec
  <2> QED
    BY <2>1, <2>2, LocalStep
<1>3. CASE Check(e)
  <2>1. TypeOK'
    BY <1>3, <1>t DEF Check, StopsHere, TypeOK, MainStates, Exec
  <2>2. Frame(e) /\ GpuOK(e)' /\ OutcomeOK(e)' /\ (Alone(e)' => Alone(e)) /\ proc' = proc
    BY <1>3, <1>t DEF Check, StopsHere, Frame, GpuOK, OutcomeOK, Alone, TypeOK, Settled, Live, Exec
  <2> QED
    BY <2>1, <2>2, LocalStep
<1>4. CASE Spawn(e)
  <2>1. TypeOK'
    BY <1>4, <1>t DEF Spawn, TypeOK, MainStates, Exec, ProcStates
  <2>2. Frame(e) /\ GpuOK(e)' /\ OutcomeOK(e)' /\ (Alone(e)' => Alone(e)) /\ proc'[e] # "gpu"
    BY <1>4, <1>t DEF Spawn, Frame, GpuOK, OutcomeOK, Alone, TypeOK, Settled, Live, Exec
  <2> QED
    BY <2>1, <2>2, LocalStep
<1>5. CASE PhaseOver(e)
  <2>1. TypeOK'
    BY <1>5, <1>t DEF PhaseOver, Ended, TypeOK, GpuOK, MainStates, Exec, ProcStates, Live
  <2>2. Frame(e) /\ GpuOK(e)' /\ OutcomeOK(e)' /\ (Alone(e)' => Alone(e)) /\ proc' = proc
    BY <1>5, <1>t DEF PhaseOver, Ended, Frame, GpuOK, OutcomeOK, Alone, TypeOK, Settled, Live, Exec, ProcStates
  <2> QED
    BY <2>1, <2>2, LocalStep
<1>6. CASE Verdict(e)
  <2>1. TypeOK'
    BY <1>6, <1>t DEF Verdict, VerdictOf, VerdictByCode, Settle, TypeOK, MainStates, Exec
  <2>2. Frame(e) /\ GpuOK(e)' /\ OutcomeOK(e)' /\ (Alone(e)' => Alone(e)) /\ proc' = proc
    BY <1>6, <1>t DEF Verdict, VerdictOf, VerdictByCode, Settle, Frame, GpuOK, OutcomeOK, Alone,
                      TypeOK, Settled, Live, Exec
  <2> QED
    BY <2>1, <2>2, LocalStep
<1>7. CASE Upload(e)
  <2>1. TypeOK'
    BY <1>7, <1>t DEF Upload, TypeOK, MainStates, Exec
  <2>2. Frame(e) /\ GpuOK(e)' /\ OutcomeOK(e)' /\ (Alone(e)' => Alone(e)) /\ proc' = proc
    BY <1>7, <1>t DEF Upload, Frame, GpuOK, OutcomeOK, Alone, TypeOK, Settled, Live, Exec
  <2> QED
    BY <2>1, <2>2, LocalStep
<1>8. CASE UploadRaises(e) \/ Join(e) \/ JoinTimesOut(e) \/ Report(e)
  <2>1. TypeOK'
    BY <1>8, <1>t DEF UploadRaises, Join, JoinTimesOut, Report, TypeOK, MainStates
  <2>2. Frame(e) /\ GpuOK(e)' /\ OutcomeOK(e)' /\ (Alone(e)' => Alone(e)) /\ proc' = proc
    BY <1>8, <1>t DEF UploadRaises, Join, JoinTimesOut, Report, Frame, GpuOK, OutcomeOK, Alone,
                      TypeOK, Settled, Live
  <2> QED
    BY <2>1, <2>2, LocalStep
<1> QED
  BY <1>1, <1>2, <1>3, <1>4, <1>5, <1>6, <1>7, <1>8 DEF MainStep

(* A claim: no active executor has in_gpu_phase set, so the new one has it  *)
(* alone.                                                                  *)
LEMMA ClaimKeepsIInv == ASSUME IInv, NEW e \in Execs, Claim(e) PROVE IInv'
<1> USE DEF Main, Aux
<1>t. TypeOK /\ GpuOK(e) /\ OutcomeOK(e)
  BY DEF IInv
<1>1. TypeOK'
  BY <1>t DEF Claim, TypeOK, MainStates, AuxStates
<1>2. \A d \in Execs : GpuOK(d)' /\ OutcomeOK(d)'
  <2>1. GpuOK(e)' /\ OutcomeOK(e)'
    BY <1>t DEF Claim, GpuOK, OutcomeOK, TypeOK, Settled, Live
  <2>2. ASSUME NEW d \in Execs, d # e PROVE GpuOK(d)' /\ OutcomeOK(d)'
    <3>1. GpuOK(d) /\ OutcomeOK(d)
      BY DEF IInv
    <3>2. main'[d] = main[d] /\ aux'[d] = aux[d] /\ exec'[d] = exec[d] /\ proc'[d] = proc[d]
      BY <2>2, <1>t DEF Claim, TypeOK
    <3> QED
      BY <3>1, <3>2 DEF GpuOK, OutcomeOK
  <2> QED
    BY <2>1, <2>2
<1>3. OneAlone'
  <2>1. \A d \in Execs : Alone(d)' => d = e
    BY <1>t DEF Claim, CanClaim, Active, Alone, TypeOK
  <2> QED
    BY <2>1 DEF OneAlone
<1>4. OneHolds'
  BY DEF IInv, OneHolds, Claim
<1> QED
  BY <1>1, <1>2, <1>3, <1>4 DEF IInv

LEMMA AuxStepKeepsIInv ==
    ASSUME IInv, NEW e \in Execs, Ask(e) \/ AuxStep(e) \/ MainBeat(e)
    PROVE  IInv'
<1> USE DEF Aux, Share
<1>t. /\ TypeOK /\ GpuOK(e) /\ OutcomeOK(e) /\ exec[e] \in Exec
      /\ proc[e] \in ProcStates /\ main[e] \in MainStates
  BY DEF IInv, TypeOK
<1>1. CASE Ask(e) \/ Look(e) \/ AuxStops(e)
  <2>1. TypeOK'
    BY <1>1, <1>t DEF Ask, Look, AuxStops, TypeOK, AuxStates
  <2>2. UNCHANGED <<main, exec, proc>>
    BY <1>1 DEF Ask, Look, AuxStops
  <2>3. Frame(e) /\ GpuOK(e)' /\ OutcomeOK(e)' /\ (Alone(e)' => Alone(e))
    BY <1>1, <2>2, <1>t DEF Ask, Look, AuxStops, Frame, GpuOK, OutcomeOK, Alone, TypeOK
  <2> QED
    BY <2>1, <2>2, <2>3, LocalStep
<1>2. CASE Reply(e)
  <2>1. TypeOK'
    BY <1>2, <1>t DEF Reply, Hears, TypeOK, AuxStates, Exec
  <2>2. Frame(e) /\ GpuOK(e)' /\ OutcomeOK(e)' /\ (Alone(e)' => Alone(e)) /\ proc' = proc
    BY <1>2, <1>t DEF Reply, Hears, Frame, GpuOK, OutcomeOK, Alone, TypeOK, Exec
  <2> QED
    BY <2>1, <2>2, LocalStep
<1>3. CASE Kill(e)
  <2>1. TypeOK'
    BY <1>3, <1>t DEF Kill, Killed, TypeOK, AuxStates, ProcStates
  <2>2. /\ Frame(e) /\ GpuOK(e)' /\ OutcomeOK(e)' /\ (Alone(e)' => Alone(e))
        /\ proc'[e] = "gpu" => proc[e] = "gpu"
    BY <1>3, <1>t DEF Kill, Killed, Frame, GpuOK, OutcomeOK, Alone, TypeOK, Live, Settled
  <2> QED
    BY <2>1, <2>2, LocalStep
<1>4. CASE MainBeat(e)
  <2>1. TypeOK'
    BY <1>4, <1>t DEF MainBeat, Killed, TypeOK, Exec, ProcStates
  <2>2. /\ Frame(e) /\ GpuOK(e)' /\ OutcomeOK(e)' /\ (Alone(e)' => Alone(e))
        /\ proc'[e] = "gpu" => proc[e] = "gpu"
    BY <1>4, <1>t DEF MainBeat, Killed, Frame, GpuOK, OutcomeOK, Alone, TypeOK, Live, Settled, Exec
  <2> QED
    BY <2>1, <2>2, LocalStep
<1> QED
  BY <1>1, <1>2, <1>3, <1>4 DEF AuxStep

(* The steps of a phase process. *)
LEMMA ProcStepKeepsIInv ==
    ASSUME IInv, NEW e \in Execs, WantGpu(e) \/ TakeGpu(e) \/ FreeGpu(e) \/ Exits(e)
    PROVE  IInv'
<1>t. TypeOK /\ GpuOK(e) /\ OutcomeOK(e) /\ proc[e] \in ProcStates /\ main[e] \in MainStates
  BY DEF IInv, TypeOK
<1>0. /\ UNCHANGED <<main, aux, exec, cancel, crashes>> /\ proc[e] \in Live
      /\ \E to \in ProcStates \ {"none"} : proc' = [proc EXCEPT ![e] = to]
  BY DEF WantGpu, TakeGpu, FreeGpu, Exits, ExitsOk, ExitsElse, Proc, Live, ProcStates
<1>1. TypeOK'
  BY <1>0, <1>t DEF TypeOK
<1>2. \A d \in Execs : Alone(d)' <=> Alone(d)
  BY <1>0 DEF Alone
<1>3. Frame(e) /\ GpuOK(e)' /\ OutcomeOK(e)'
  BY <1>0, <1>t DEF Frame, GpuOK, OutcomeOK, TypeOK, Live, MainStates, Settled
<1>4. CASE proc'[e] = "gpu" => proc[e] = "gpu"
  BY <1>1, <1>2, <1>3, <1>4, LocalStep
<1>5. CASE TakeGpu(e)
  <2>1. \A d \in Execs : GpuOK(d)' /\ OutcomeOK(d)'
    <3>1. ASSUME NEW d \in Execs, d # e PROVE GpuOK(d)' /\ OutcomeOK(d)'
      BY <3>1, <1>3 DEF IInv, Frame, GpuOK, OutcomeOK
    <3> QED
      BY <3>1, <1>3
  <2>2. OneAlone'
    BY <1>2 DEF IInv, OneAlone
  <2>3. OneHolds'
    BY <1>5, <1>t DEF TakeGpu, LockFree, OnGpu, Proc, OneHolds, TypeOK
  <2> QED
    BY <1>1, <2>1, <2>2, <2>3 DEF IInv
<1>6. TakeGpu(e) \/ proc'[e] # "gpu"
  BY <1>t DEF WantGpu, FreeGpu, Exits, ExitsOk, ExitsElse, Proc, TypeOK
<1> QED
  BY <1>4, <1>5, <1>6

LEMMA CrashKeepsIInv == ASSUME IInv, Crash PROVE IInv'
<1>t. TypeOK
  BY DEF IInv
<1>1. TypeOK'
  BY <1>t, WorkerAssumption DEF Crash, TypeOK, MainStates, AuxStates
<1>2. ASSUME NEW d \in Execs PROVE GpuOK(d)' /\ OutcomeOK(d)' /\ (Alone(d)' => Alone(d))
  BY <1>t DEF IInv, Crash, GpuOK, OutcomeOK, Alone, Active, Settled, TypeOK
<1>3. OneAlone' /\ OneHolds'
  BY <1>2 DEF IInv, OneAlone, OneHolds, Crash
<1> QED
  BY <1>1, <1>2, <1>3 DEF IInv

LEMMA CancelKeepsIInv == ASSUME IInv, NEW e \in Execs, Cancel(e) PROVE IInv'
BY DEF IInv, TypeOK, Cancel, GpuOK, OutcomeOK, OneAlone, Alone, OneHolds

LEMMA NextIInv == IInv /\ [Next]_vars => IInv'
<1> SUFFICES ASSUME IInv, [Next]_vars PROVE IInv'
  OBVIOUS
<1>1. CASE UNCHANGED vars
  BY <1>1 DEF vars, IInv, TypeOK, GpuOK, OutcomeOK, OneAlone, Alone, OneHolds
<1>2. CASE Next
  BY <1>2, MainStepKeepsIInv, ClaimKeepsIInv, AuxStepKeepsIInv, ProcStepKeepsIInv,
     CancelKeepsIInv, CrashKeepsIInv DEF Next
<1> QED
  BY <1>1, <1>2
-----------------------------------------------------------------------------
(* IInv is inductive: after any number of steps of any threads, worker.py's *)
(* executors and their processes fit together as it says.                  *)
THEOREM WorkerInvariance == Spec => []IInv
BY InitIInv, NextIInv, PTL DEF Spec

(* worker.py's state keeps its types: a phase's code is read only after the *)
(* process has ended.                                                      *)
THEOREM WorkerTypeCorrect == Spec => []TypeOK
<1>1. IInv => TypeOK
  BY DEF IInv
<1> QED
  BY <1>1, WorkerInvariance, PTL

(* However many executors and orphans of crashed workers there are, at most *)
(* one phase process uses the GPU (gpu.lock of phase.py).                   *)
THEOREM GpuIsSerialAlways == Spec => []GpuIsSerial
<1>1. ASSUME IInv PROVE GpuIsSerial
  <2>1. CASE OnGpu = {}
    BY <2>1, FS_EmptySet DEF GpuIsSerial
  <2>2. CASE OnGpu # {}
    <3>1. PICK e \in Execs : OnGpu = {e}
      BY <1>1, <2>2 DEF IInv, OneHolds, OnGpu
    <3>2. Cardinality({e}) = 1
      BY FS_Singleton
    <3> QED
      BY <3>1, <3>2 DEF GpuIsSerial
  <2> QED
    BY <2>1, <2>2
<1> QED
  BY <1>1, WorkerInvariance, PTL

(* Worker.can_claim lets at most one executor into the GPU phase, and       *)
(* in_gpu_phase is set whenever a GPU phase process runs.                   *)
THEOREM OneGpuPhaseAlways == Spec => []OneGpuPhase
<1>1. ASSUME IInv PROVE OneGpuPhase
  <2> SUFFICES ASSUME NEW e \in Active
               PROVE  /\ exec[e].inGpu => \A d \in Active \ {e} : ~exec[d].inGpu
                      /\ exec[e].phase = "gpu" /\ proc[e] \in Live => exec[e].inGpu
    BY DEF OneGpuPhase
  <2>1. exec[e].inGpu => \A d \in Active \ {e} : ~exec[d].inGpu
    BY <1>1 DEF IInv, OneAlone, Alone, Active
  <2>2. GpuOK(e) /\ main[e] \in MainStates
    BY <1>1 DEF IInv, TypeOK, Active
  <2>3. exec[e].phase = "gpu" /\ proc[e] \in Live => exec[e].inGpu
    BY <2>2 DEF GpuOK, Active, MainStates, Settled, Live
  <2> QED
    BY <2>1, <2>3
<1> QED
  BY <1>1, WorkerInvariance, PTL

(* RunExecutor.run reports a success only after both phases exited with 0,  *)
(* whatever the heartbeat thread did meanwhile.                            *)
THEOREM SuccessRanBothAlways == Spec => []SuccessRanBoth
<1>1. IInv => SuccessRanBoth
  BY DEF IInv, OutcomeOK, SuccessRanBoth
<1> QED
  BY <1>1, WorkerInvariance, PTL
-----------------------------------------------------------------------------
(* An executor that has noticed the cancellation before RunExecutor.run     *)
(* looks at the event starts no further phase.                             *)
THEOREM NoPhaseAfterCancelAlways == Spec => NoPhaseAfterCancel
<1>1. ASSUME IInv, [Next]_vars, NEW e \in Execs, exec[e].cancelled, main[e] # "spawn"
      PROVE  main'[e] # "spawn"
  <2>t. main \in [Execs -> MainStates]
    BY <1>1 DEF IInv, TypeOK
  <2>1. ASSUME NEW d \in Execs, MainStep(d) PROVE main'[e] # "spawn"
    BY <1>1, <2>1, <2>t DEF MainStep, Main, Prepare, Raises, Check, StopsHere, Spawn, PhaseOver,
       Verdict, Upload, UploadRaises, Join, JoinTimesOut, Report
  <2>2. ASSUME NEW d \in Execs, Claim(d) PROVE main'[e] # "spawn"
    BY <1>1, <2>2, <2>t DEF Claim, Main
  <2>3. ASSUME NEW d \in Execs, \/ Ask(d) \/ AuxStep(d) \/ MainBeat(d) \/ WantGpu(d)
                                \/ TakeGpu(d) \/ FreeGpu(d) \/ Exits(d) \/ Cancel(d)
        PROVE  main' = main
    BY <2>3 DEF Ask, AuxStep, Reply, Look, Kill, AuxStops, MainBeat, WantGpu, TakeGpu, FreeGpu,
       Exits, ExitsOk, ExitsElse, Proc, Cancel
  <2>4. CASE Crash
    BY <1>1, <2>4, <2>t DEF Crash
  <2>5. CASE UNCHANGED vars
    BY <1>1, <2>5 DEF vars
  <2> QED
    BY <1>1, <2>1, <2>2, <2>3, <2>4, <2>5 DEF Next
<1>2. IInv /\ [Next]_vars =>
        [\A e \in Execs : exec[e].cancelled /\ main[e] # "spawn" => main'[e] # "spawn"]_vars
  BY <1>1
<1> QED
  BY <1>2, WorkerInvariance, PTL DEF Spec, NoPhaseAfterCancel

(* How the abstract state moves when only e does. *)
LifePhase   == [e \in Execs |-> PhaseOf(e)]
LifeTold    == [e \in Execs |-> ToldOf(e)]
LifeOutcome == [e \in Execs |-> exec[e].outcome]

LEMMA LifeFrame ==
    ASSUME NEW e \in Execs, Frame(e)
    PROVE  /\ LifePhase' = [LifePhase EXCEPT ![e] = PhaseOf(e)']
           /\ LifeTold' = [LifeTold EXCEPT ![e] = ToldOf(e)']
           /\ LifeOutcome' = [LifeOutcome EXCEPT ![e] = exec'[e].outcome]
<1>1. ASSUME NEW d \in Execs, d # e
      PROVE  PhaseOf(d)' = PhaseOf(d) /\ ToldOf(d)' = ToldOf(d) /\ exec'[d] = exec[d]
  BY <1>1 DEF Frame, PhaseOf, ToldOf
<1>2. LifePhase' = [LifePhase EXCEPT ![e] = PhaseOf(e)']
  BY <1>1, Zenon DEF LifePhase
<1>3. LifeTold' = [LifeTold EXCEPT ![e] = ToldOf(e)']
  BY <1>1, Zenon DEF LifeTold
<1>4. LifeOutcome' = [LifeOutcome EXCEPT ![e] = exec'[e].outcome]
  BY <1>1, Zenon DEF LifeOutcome
<1> QED
  BY <1>2, <1>3, <1>4

LEMMA LifeStutter ==
    ASSUME NEW e \in Execs, Frame(e), PhaseOf(e)' = PhaseOf(e), ToldOf(e)' = ToldOf(e),
           exec'[e].outcome = exec[e].outcome
    PROVE  UNCHANGED <<LifePhase, LifeTold, LifeOutcome>>
<1>1. \A d \in Execs : /\ PhaseOf(d)' = PhaseOf(d) /\ ToldOf(d)' = ToldOf(d)
                       /\ exec'[d].outcome = exec[d].outcome
  BY DEF Frame, PhaseOf, ToldOf
<1> QED
  BY <1>1, Zenon DEF LifePhase, LifeTold, LifeOutcome

Still == UNCHANGED <<LifePhase, LifeTold, LifeOutcome>>

LEMMA MainStepIsLife == ASSUME IInv, NEW e \in Execs, MainStep(e) PROVE Life!Next \/ Still
<1> USE DEF Main, Share
<1>t. TypeOK /\ exec[e] \in Exec /\ main[e] \in MainStates
  BY DEF IInv, TypeOK
<1>f. Frame(e)
  BY <1>t DEF MainStep, Prepare, Raises, Settle, Check, Spawn, PhaseOver, Verdict, Upload,
     UploadRaises, Join, JoinTimesOut, Report, Frame, TypeOK
<1>1. CASE Prepare(e) \/ Check(e) \/ Spawn(e) \/ PhaseOver(e)
  <2>1. PhaseOf(e) = "working" /\ PhaseOf(e)' = "working"
    BY <1>1, <1>t DEF Prepare, Check, Spawn, PhaseOver, PhaseOf, TypeOK
  <2>2. exec'[e].outcome = exec[e].outcome /\ (exec'[e].cancelled <=> exec[e].cancelled)
    <3>1. CASE Prepare(e)
      BY <3>1 DEF Prepare
    <3>2. CASE Check(e)
      BY <3>2, <1>t DEF Check, StopsHere, TypeOK, Exec
    <3>3. CASE Spawn(e)
      BY <3>3, <1>t DEF Spawn, TypeOK, Exec
    <3>4. CASE PhaseOver(e)
      BY <3>4, <1>t DEF PhaseOver, TypeOK, Exec
    <3> QED
      BY <1>1, <3>1, <3>2, <3>3, <3>4
  <2>3. ToldOf(e)' = ToldOf(e)
    BY <2>1, <2>2 DEF ToldOf
  <2> QED
    BY <1>f, <2>1, <2>2, <2>3, LifeStutter DEF Still
<1>2. CASE Raises(e) \/ Verdict(e)
  <2>1. /\ PhaseOf(e) = "working" /\ PhaseOf(e)' = "reporting" /\ ToldOf(e)' = FALSE
    BY <1>2, <1>t DEF Raises, Verdict, PhaseOf, ToldOf, TypeOK
  <2>2. exec'[e].outcome \in IF ToldOf(e) THEN {"cancelled", "failed"} ELSE {"succeeded", "failed"}
    <3>1. CASE Raises(e)
      <4>1. exec'[e].outcome = "failed"
        BY <3>1, <1>t DEF Raises, Settle, TypeOK, Exec
      <4> QED
        BY <4>1
    <3>2. CASE Verdict(e)
      <4>1. exec'[e].outcome = VerdictOf(e)
        BY <3>2, <1>t DEF Verdict, Settle, TypeOK, Exec
      <4>2. ToldOf(e) <=> exec[e].cancelled
        BY <2>1 DEF ToldOf
      <4> QED
        BY <4>1, <4>2 DEF VerdictOf, VerdictByCode
    <3> QED
      BY <1>2, <3>1, <3>2
  <2>3. PICK result \in {"succeeded", "failed", "cancelled"} : result = exec'[e].outcome
    BY <2>2
  <2>4. /\ LifePhase' = [LifePhase EXCEPT ![e] = "reporting"]
        /\ LifeTold' = [LifeTold EXCEPT ![e] = FALSE]
        /\ LifeOutcome' = [LifeOutcome EXCEPT ![e] = result]
    BY <1>f, <2>1, <2>3, LifeFrame
  <2>5. LifePhase[e] = "working" /\ LifeTold[e] = ToldOf(e)
    BY <2>1 DEF LifePhase, LifeTold
  <2>6. Life!Settle(e, result)
    BY <2>2, <2>3, <2>4, <2>5, Zenon DEF Life!Settle, LifePhase, LifeTold, LifeOutcome
  <2> QED
    BY <2>6, Zenon DEF Life!Next
<1>3. CASE Upload(e) \/ Join(e) \/ JoinTimesOut(e)
  <2>1. PhaseOf(e) = "reporting" /\ PhaseOf(e)' = "reporting"
    BY <1>3, <1>t DEF Upload, Join, JoinTimesOut, PhaseOf, TypeOK
  <2>2. exec'[e].outcome = exec[e].outcome
    BY <1>3, <1>t DEF Upload, Join, JoinTimesOut, TypeOK, Exec
  <2>3. ToldOf(e)' = ToldOf(e)
    BY <2>1 DEF ToldOf
  <2> QED
    BY <1>f, <2>1, <2>2, <2>3, LifeStutter DEF Still
<1>4. CASE UploadRaises(e) \/ Report(e)
  <2>1. /\ PhaseOf(e) = "reporting" /\ PhaseOf(e)' = "over"
        /\ ToldOf(e) = FALSE /\ ToldOf(e)' = FALSE /\ exec' = exec
    BY <1>4, <1>t DEF UploadRaises, Report, PhaseOf, ToldOf, TypeOK
  <2>2. LifePhase' = [LifePhase EXCEPT ![e] = "over"] /\ LifePhase[e] = "reporting"
    BY <1>f, <2>1, LifeFrame DEF LifePhase
  <2>3. LifeTold' = LifeTold /\ LifeOutcome' = LifeOutcome
    <3>1. LifeTold' = [LifeTold EXCEPT ![e] = LifeTold[e]]
      BY <1>f, <2>1, LifeFrame DEF LifeTold
    <3> QED
      BY <3>1, <2>1 DEF LifeTold, LifeOutcome
  <2>4. Life!Report(e)
    BY <2>2, <2>3, Zenon DEF Life!Report, LifePhase, LifeTold, LifeOutcome
  <2> QED
    BY <2>4, Zenon DEF Life!Next
<1> QED
  BY <1>1, <1>2, <1>3, <1>4 DEF MainStep

LEMMA ClaimIsLife == ASSUME IInv, NEW e \in Execs, Claim(e) PROVE Life!Next
<1>t. TypeOK /\ OutcomeOK(e)
  BY DEF IInv
<1>f. Frame(e) /\ exec' = exec
  BY <1>t DEF Claim, Main, Aux, Frame, TypeOK
<1>1. PhaseOf(e) = "none" /\ PhaseOf(e)' = "working" /\ ToldOf(e) = FALSE /\ ToldOf(e)' = FALSE
  BY <1>t DEF Claim, Main, PhaseOf, ToldOf, OutcomeOK, TypeOK
<1>2. LifePhase' = [LifePhase EXCEPT ![e] = "working"] /\ LifePhase[e] = "none"
  BY <1>f, <1>1, LifeFrame DEF LifePhase
<1>3. LifeTold' = LifeTold /\ LifeOutcome' = LifeOutcome
  <2>1. LifeTold' = [LifeTold EXCEPT ![e] = LifeTold[e]]
    BY <1>f, <1>1, LifeFrame DEF LifeTold
  <2> QED
    BY <2>1, <1>f DEF LifeTold, LifeOutcome
<1>4. Life!Start(e)
  BY <1>2, <1>3, Zenon DEF Life!Start, LifePhase, LifeTold, LifeOutcome
<1> QED
  BY <1>4, Zenon DEF Life!Next

LEMMA HearIsLife ==
    ASSUME IInv, NEW e \in Execs, Reply(e) \/ MainBeat(e)
    PROVE  Life!Next \/ Still
<1> USE DEF Aux, Share
<1>t. TypeOK /\ exec[e] \in Exec
  BY DEF IInv, TypeOK
<1>f. Frame(e) /\ main' = main
  BY <1>t DEF Reply, MainBeat, Killed, Frame, TypeOK
<1>1. /\ exec'[e].outcome = exec[e].outcome
      /\ exec'[e].cancelled <=> exec[e].cancelled \/ Hears(e)
      /\ PhaseOf(e)' = PhaseOf(e)
  <2>1. exec' = [exec EXCEPT ![e] = [exec[e] EXCEPT !.cancelled = exec[e].cancelled \/ Hears(e)]]
    <3>1. CASE Reply(e)
      BY <3>1 DEF Reply
    <3>2. CASE MainBeat(e)
      <4>1. TRUE = (exec[e].cancelled \/ Hears(e))
        BY <3>2 DEF MainBeat
      <4> QED
        BY <3>2, <4>1 DEF MainBeat
    <3> QED
      BY <3>1, <3>2
  <2>2. exec'[e] = [exec[e] EXCEPT !.cancelled = exec[e].cancelled \/ Hears(e)]
    BY <2>1, <1>t DEF TypeOK
  <2>3. exec'[e].outcome = exec[e].outcome
    BY <2>2, <1>t DEF Exec
  <2>4. exec'[e].cancelled <=> exec[e].cancelled \/ Hears(e)
    BY <2>2, <1>t DEF Exec
  <2>5. PhaseOf(e)' = PhaseOf(e)
    BY <1>f DEF PhaseOf
  <2> QED
    BY <2>3, <2>4, <2>5
<1>2. CASE Hears(e) /\ PhaseOf(e) = "working"
  <2>1. ToldOf(e) = FALSE /\ ToldOf(e)' = TRUE
    BY <1>1, <1>2 DEF ToldOf, Hears
  <2>2. LifeTold' = [LifeTold EXCEPT ![e] = TRUE] /\ LifeTold[e] = FALSE /\ LifePhase[e] = "working"
    BY <1>f, <1>2, <2>1, LifeFrame DEF LifeTold, LifePhase
  <2>3. LifePhase' = LifePhase
    BY <1>f DEF LifePhase, PhaseOf
  <2>4. LifeOutcome' = LifeOutcome
    <3>1. \A d \in Execs : exec'[d].outcome = exec[d].outcome
      BY <1>f, <1>1 DEF Frame
    <3> QED
      BY <3>1, Zenon DEF LifeOutcome
  <2>5. Life!Tell(e)
    BY <2>2, <2>3, <2>4, Zenon DEF Life!Tell, LifePhase, LifeTold, LifeOutcome
  <2> QED
    BY <2>5, Zenon DEF Life!Next
<1>3. CASE ~(Hears(e) /\ PhaseOf(e) = "working")
  <2>1. ToldOf(e)' = ToldOf(e)
    BY <1>1, <1>3 DEF ToldOf
  <2> QED
    BY <1>f, <1>1, <2>1, LifeStutter DEF Still
<1> QED
  BY <1>2, <1>3

LEMMA CrashIsLife == ASSUME IInv, Crash PROVE Life!Next \/ Still
<1>t. TypeOK
  BY DEF IInv
<1>1. \A d \in Execs : PhaseOf(d)' = IF d \in Active THEN "over" ELSE PhaseOf(d)
  BY <1>t DEF Crash, PhaseOf, Active, TypeOK
<1>2. \A d \in Execs : ToldOf(d)' = (ToldOf(d) /\ d \notin Active)
  BY <1>1, <1>t DEF Crash, ToldOf, PhaseOf, Active
<1>3. CASE Active = {}
  <2>1. LifePhase' = LifePhase
    BY <1>1, <1>3, Zenon DEF LifePhase
  <2>2. LifeTold' = LifeTold
    <3>1. \A d \in Execs : ToldOf(d)' = ToldOf(d)
      BY <1>2, <1>3 DEF ToldOf
    <3> QED
      BY <3>1, Zenon DEF LifeTold
  <2> QED
    BY <2>1, <2>2 DEF Crash, Still, LifeOutcome
<1>4. CASE Active # {}
  <2>1. Active \subseteq {d \in Execs : LifePhase[d] \in {"working", "reporting"}}
    BY <1>t DEF Active, LifePhase, PhaseOf, TypeOK, MainStates
  <2>2. LifePhase' = [d \in Execs |-> IF d \in Active THEN "over" ELSE LifePhase[d]]
    BY <1>1, Zenon DEF LifePhase
  <2>3. LifeTold' = [d \in Execs |-> LifeTold[d] /\ d \notin Active]
    BY <1>2, Zenon DEF LifeTold
  <2>4. LifeOutcome' = LifeOutcome
    BY DEF Crash, LifeOutcome
  <2>5. Life!Die(Active)
    BY <1>4, <2>1, <2>2, <2>3, <2>4, Zenon DEF Life!Die, LifePhase, LifeTold, LifeOutcome
  <2>6. Active \in SUBSET Execs
    BY DEF Active
  <2> QED
    BY <2>5, <2>6, Zenon DEF Life!Next
<1> QED
  BY <1>3, <1>4

LEMMA NextIsLife == IInv /\ [Next]_vars => [Life!Next]_<<LifePhase, LifeTold, LifeOutcome>>
<1> SUFFICES ASSUME IInv, [Next]_vars PROVE Life!Next \/ Still
  BY DEF Still
<1>1. ASSUME UNCHANGED <<main, exec>> PROVE Still
  BY <1>1 DEF Still, LifePhase, LifeTold, LifeOutcome, PhaseOf, ToldOf
<1>2. ASSUME NEW e \in Execs, \/ Ask(e) \/ Look(e) \/ Kill(e) \/ AuxStops(e) \/ WantGpu(e)
                              \/ TakeGpu(e) \/ FreeGpu(e) \/ Exits(e) \/ Cancel(e)
      PROVE  UNCHANGED <<main, exec>>
  BY <1>2 DEF Ask, Look, Kill, AuxStops, WantGpu, TakeGpu, FreeGpu, Exits, ExitsOk, ExitsElse,
     Proc, Cancel
<1>3. CASE UNCHANGED vars
  BY <1>1, <1>3 DEF vars
<1>4. CASE Next
  BY <1>1, <1>2, <1>4, MainStepIsLife, ClaimIsLife, HearIsLife, CrashIsLife DEF Next, AuxStep
<1> QED
  BY <1>3, <1>4

(* Main and heartbeat thread of RunExecutor together, with the processes   *)
(* and crashes, implement ExecutorLife, on which CiRuns relies: told to     *)
(* stop an executor never reports a success, and never a cancellation it   *)
(* was not told of.                                                        *)
THEOREM ImplementsLifeAlways == Spec => ImplementsLife
<1>1. ASSUME Init PROVE Life!Init
  <2>1. \A e \in Execs : PhaseOf(e) = "none" /\ ToldOf(e) = FALSE /\ exec[e].outcome = "none"
    BY <1>1 DEF Init, PhaseOf, ToldOf, NewExec
  <2> QED
    BY <2>1, Zenon DEF Life!Init
<1>2. IInv /\ [Next]_vars =>
        [Life!Next]_<<[e \in Execs |-> PhaseOf(e)], [e \in Execs |-> ToldOf(e)],
                      [e \in Execs |-> exec[e].outcome]>>
  BY NextIsLife DEF LifePhase, LifeTold, LifeOutcome
<1> QED
  BY <1>1, <1>2, WorkerInvariance, PTL DEF Spec, ImplementsLife, Life!Spec

(* The three together, for any number of executors and crashes.            *)
THEOREM WorkerIsOrderlyAlways == Spec => []WorkerIsOrderly
<1>1. GpuIsSerial /\ OneGpuPhase /\ SuccessRanBoth => WorkerIsOrderly
  BY DEF WorkerIsOrderly
<1> QED BY <1>1, GpuIsSerialAlways, OneGpuPhaseAlways, SuccessRanBothAlways, PTL
=============================================================================
