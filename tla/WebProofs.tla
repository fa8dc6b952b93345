------------------------------ MODULE WebProofs ------------------------------
(***************************************************************************)
(* Theorems about Web for every number of jobs, users, crashes and         *)
(* revisions, every episode, and every depth of the undo stack; about the  *)
(* page of a workspace, StagePage, for every number of stages; and about   *)
(* the file store of the other server, CiBlobs, for every set of contents  *)
(* and requests.  The two machines of Web are proved apart: a step of one  *)
(* leaves the other as it is, but for a crash, which both know, and for    *)
(* what a job or a deletion does to the source of a draft.                 *)
(***************************************************************************)
EXTENDS MCWeb, Integers, FiniteSetTheorems, SequenceTheorems, WellFoundedInduction, TLAPS

-----------------------------------------------------------------------------
(* The job.  Jobs are started in turn; a thread that waits for a process   *)
(* has it before it, and one whose job nobody asked to stop has its job    *)
(* active; who stops a job was asked to; a view that found a job lost      *)
(* still finds it lost when it writes.                                     *)
InTurn == \E k \in 0..MaxJobs : Started = 1..k

ThreadsOK(j) ==
    /\ waiter[j] = "waits" => proc[j] \in Alive \cup Ended
    /\ waiter[j] = "returned" => proc[j] \in Gone
    /\ waiter[j] # "none" /\ j \notin asked => active = [id |-> j, status |-> "running"]
    /\ stopper[j] # "none" => j \in asked

JobIInv ==
    /\ JobTypeOK
    /\ InTurn
    /\ \A j \in Jobs : ThreadsOK(j)
    /\ active.status = "stopping" => active.id \in asked
    /\ viewer # 0 => proc[viewer] \in Gone
    /\ SavedEndIsTrue
-----------------------------------------------------------------------------
LEMMA InitJob == JobInit => JobIInv
<1> SUFFICES ASSUME JobInit PROVE JobIInv
  OBVIOUS
<1>1. JobTypeOK
  BY JobAssumption DEF JobInit, JobTypeOK, ProcStates, Jobs
<1>2. Started = 1..0 /\ 0 \in 0..MaxJobs
  BY JobAssumption DEF JobInit, Started, Jobs
<1>3. \A j \in Jobs : ThreadsOK(j)
  BY DEF JobInit, ThreadsOK
<1> QED
  BY <1>1, <1>2, <1>3 DEF JobIInv, InTurn, JobInit, NoJob, SavedEndIsTrue

(* A job that is started has not been started before. *)
LEMMA StartIsNew ==
    ASSUME JobIInv, NEW j \in Jobs, Start(j)
    PROVE  proc[j] = "none" /\ Started' = Started \cup {j} /\ InTurn'
<1>1. PICK k \in 0..MaxJobs : Started = 1..k
  BY DEF JobIInv, InTurn
<1>2. j = k + 1
  BY <1>1, FS_Interval, JobAssumption, SMTT(30) DEF Start
<1>3. proc[j] = "none"
  BY <1>1, <1>2 DEF Started
<1>4. Started' = Started \cup {j}
  BY DEF Start, Started, JobIInv, JobTypeOK
<1>5. Started' = 1..(k + 1) /\ k + 1 \in 0..MaxJobs
  BY <1>1, <1>2, <1>4, JobAssumption DEF Jobs
<1> QED
  BY <1>3, <1>4, <1>5 DEF InTurn

(* Every other step leaves the started jobs as they are. *)
LEMMA NoStart ==
    ASSUME JobIInv, proc' \in [Jobs -> ProcStates], \A j \in Jobs : proc'[j] = "none" <=> proc[j] = "none"
    PROVE  InTurn'
<1>1. Started' = Started
  BY DEF Started
<1> QED
  BY <1>1 DEF JobIInv, InTurn

LEMMA StepStart == ASSUME JobIInv, NEW j \in Jobs, Start(j) PROVE JobIInv'
<1>1. JobTypeOK'
  BY JobAssumption DEF JobIInv, JobTypeOK, Start, Record, Statuses, ProcStates, Alive, Jobs
<1>2. proc[j] = "none" /\ InTurn'
  BY StartIsNew
<1>3. ASSUME NEW i \in Jobs PROVE ThreadsOK(i)'
  BY <1>2, <1>3 DEF JobIInv, JobTypeOK, ThreadsOK, Start, MayStart, Alive, Ended, Gone
<1>4. active'.status # "stopping" /\ (viewer' # 0 => proc'[viewer'] \in Gone)
  BY <1>2 DEF JobIInv, JobTypeOK, Start, Gone, Jobs
<1>5. SavedEndIsTrue'
  BY DEF Start, SavedEndIsTrue
<1> QED
  BY <1>1, <1>2, <1>3, <1>4, <1>5 DEF JobIInv

LEMMA StepProcEnds == ASSUME JobIInv, NEW j \in Jobs, ProcEnds(j) PROVE JobIInv'
<1>0. proc' \in [Jobs -> ProcStates] /\ \A i \in Jobs \ {j} : proc'[i] = proc[i]
  BY DEF JobIInv, JobTypeOK, ProcEnds, ProcStates, Ended, Gone
<1>1. JobTypeOK'
  BY <1>0 DEF JobIInv, JobTypeOK, ProcEnds
<1>2. /\ proc[j] \in Alive /\ proc'[j] \in Ended \cup Gone
      /\ waiter[j] = "waits" => proc'[j] \in Ended
  BY DEF JobIInv, JobTypeOK, ProcEnds, Ended, Gone
<1>3. InTurn'
  BY <1>0, <1>2, NoStart DEF Alive, Ended, Gone
<1>4. ASSUME NEW i \in Jobs PROVE ThreadsOK(i)'
  BY <1>0, <1>2, <1>4 DEF JobIInv, ThreadsOK, ProcEnds, Alive, Ended, Gone
<1>5. /\ active'.status = "stopping" => active'.id \in asked'
      /\ viewer' # 0 => proc'[viewer'] \in Gone
  BY <1>0, <1>2 DEF JobIInv, JobTypeOK, ProcEnds, Alive, Gone, Jobs
<1>6. SavedEndIsTrue'
  BY <1>0, <1>2 DEF JobIInv, JobTypeOK, ProcEnds, SavedEndIsTrue, Alive, Gone, Record, NoJob
<1> QED
  BY <1>1, <1>3, <1>4, <1>5, <1>6 DEF JobIInv

LEMMA StepWaitReturns == ASSUME JobIInv, NEW j \in Jobs, WaitReturns(j) PROVE JobIInv'
<1>0. proc' \in [Jobs -> ProcStates] /\ \A i \in Jobs \ {j} : proc'[i] = proc[i]
  BY DEF JobIInv, JobTypeOK, WaitReturns, ProcStates, Gone
<1>1. JobTypeOK'
  BY <1>0 DEF JobIInv, JobTypeOK, WaitReturns
<1>2. proc[j] \in Ended /\ proc'[j] \in Gone
  BY DEF JobIInv, JobTypeOK, WaitReturns, Gone
<1>3. InTurn'
  BY <1>0, <1>2, NoStart DEF Ended, Gone
<1>4. ASSUME NEW i \in Jobs PROVE ThreadsOK(i)'
  BY <1>0, <1>2, <1>4 DEF JobIInv, JobTypeOK, ThreadsOK, WaitReturns
<1>5. /\ active'.status = "stopping" => active'.id \in asked'
      /\ viewer' # 0 => proc'[viewer'] \in Gone
  BY <1>0, <1>2 DEF JobIInv, JobTypeOK, WaitReturns, Ended, Gone, Jobs
<1>6. SavedEndIsTrue'
  BY <1>0, <1>2 DEF JobIInv, JobTypeOK, WaitReturns, SavedEndIsTrue, Ended, Gone, Record, NoJob
<1> QED
  BY <1>1, <1>3, <1>4, <1>5, <1>6 DEF JobIInv

(* What is written of the end of a job is true of its process. *)
LEMMA StepFinish == ASSUME JobIInv, NEW j \in Jobs, Finish(j) PROVE JobIInv'
<1>1. JobTypeOK'
  BY DEF JobIInv, JobTypeOK, Finish, OutcomeOf, Record, Statuses
<1>2. InTurn'
  BY DEF JobIInv, InTurn, Finish, Started
<1>3. proc[j] \in Gone
  BY DEF JobIInv, ThreadsOK, Finish
<1>4. ASSUME NEW i \in Jobs PROVE ThreadsOK(i)'
  BY <1>4 DEF JobIInv, JobTypeOK, ThreadsOK, Finish
<1>5. /\ active'.status = "stopping" => active'.id \in asked'
      /\ viewer' # 0 => proc'[viewer'] \in Gone
  BY DEF JobIInv, Finish, OutcomeOf
<1>6. SavedEndIsTrue'
  BY <1>3 DEF JobIInv, Finish, OutcomeOf, SavedEndIsTrue, Gone
<1> QED
  BY <1>1, <1>2, <1>4, <1>5, <1>6 DEF JobIInv

LEMMA StepStopBegins == ASSUME JobIInv, NEW j \in Jobs, StopBegins(j) PROVE JobIInv'
<1>1. JobTypeOK'
  BY DEF JobIInv, JobTypeOK, StopBegins, Record, Statuses
<1>2. InTurn'
  BY DEF JobIInv, InTurn, StopBegins, Started
<1>3. ASSUME NEW i \in Jobs PROVE ThreadsOK(i)'
  BY <1>3 DEF JobIInv, JobTypeOK, ThreadsOK, StopBegins
<1>4. /\ active'.status = "stopping" => active'.id \in asked'
      /\ viewer' # 0 => proc'[viewer'] \in Gone
  BY DEF JobIInv, StopBegins
<1>5. SavedEndIsTrue'
  BY DEF JobIInv, StopBegins, SavedEndIsTrue
<1> QED
  BY <1>1, <1>2, <1>3, <1>4, <1>5 DEF JobIInv

LEMMA StepTerminate == ASSUME JobIInv, NEW j \in Jobs, Terminate(j) PROVE JobIInv'
<1>0. /\ proc' \in [Jobs -> ProcStates]
      /\ \A i \in Jobs : proc'[i] = proc[i] \/ (proc[i] = "live" /\ proc'[i] = "told")
  BY DEF JobIInv, JobTypeOK, Terminate, ProcStates, Alive
<1>1. JobTypeOK'
  BY <1>0 DEF JobIInv, JobTypeOK, Terminate
<1>2. InTurn'
  BY <1>0, NoStart
<1>3. ASSUME NEW i \in Jobs PROVE ThreadsOK(i)'
  BY <1>0, <1>3 DEF JobIInv, JobTypeOK, ThreadsOK, Terminate, Alive, Ended, Gone
<1>4. /\ active'.status = "stopping" => active'.id \in asked'
      /\ viewer' # 0 => proc'[viewer'] \in Gone
  BY <1>0 DEF JobIInv, JobTypeOK, Terminate, Gone, Jobs
<1>5. SavedEndIsTrue'
  BY <1>0 DEF JobIInv, JobTypeOK, Terminate, SavedEndIsTrue, Gone, Record, NoJob
<1> QED
  BY <1>1, <1>2, <1>3, <1>4, <1>5 DEF JobIInv

LEMMA StepStopEnds == ASSUME JobIInv, NEW j \in Jobs, StopEnds(j) PROVE JobIInv'
<1>1. JobTypeOK'
  BY DEF JobIInv, JobTypeOK, StopEnds, Record, Statuses
<1>2. InTurn'
  BY DEF JobIInv, InTurn, StopEnds, Started
<1>3. j \in asked
  BY DEF JobIInv, ThreadsOK, StopEnds
<1>4. ASSUME NEW i \in Jobs PROVE ThreadsOK(i)'
  BY <1>3, <1>4 DEF JobIInv, JobTypeOK, ThreadsOK, StopEnds
<1>5. /\ active'.status = "stopping" => active'.id \in asked'
      /\ viewer' # 0 => proc'[viewer'] \in Gone
  BY DEF JobIInv, StopEnds
<1>6. SavedEndIsTrue'
  BY <1>3 DEF JobIInv, StopEnds, SavedEndIsTrue
<1> QED
  BY <1>1, <1>2, <1>4, <1>5, <1>6 DEF JobIInv

(* The two halves of a view that corrects job.json. *)
LEMMA StepView == ASSUME JobIInv, Look \/ Correct PROVE JobIInv'
<1>0. viewer # 0 => viewer \in Jobs
  BY JobAssumption DEF JobIInv, JobTypeOK, Jobs
<1>1. JobTypeOK'
  <2>1. CASE Look
    <3>1. saved \in Record
      BY <2>1 DEF Look, NoJob, JobIInv, JobTypeOK
    <3>2. saved.id \in 0..MaxJobs
      BY <3>1, JobAssumption DEF Record, Jobs
    <3> QED
      BY <2>1, <3>2 DEF Look, JobIInv, JobTypeOK
  <2>2. CASE Correct
    BY <1>0, <2>2, JobAssumption DEF Correct, JobIInv, JobTypeOK, Record, Statuses
  <2> QED
    BY <2>1, <2>2
<1>2. InTurn' /\ \A j \in Jobs : ThreadsOK(j)'
  BY DEF JobIInv, InTurn, ThreadsOK, Look, Correct, Started
<1>3. /\ active'.status = "stopping" => active'.id \in asked'
      /\ viewer' # 0 => proc'[viewer'] \in Gone
  BY DEF JobIInv, Look, Correct, IsLost
<1>4. SavedEndIsTrue'
  BY DEF JobIInv, Look, Correct, SavedEndIsTrue
<1> QED
  BY <1>1, <1>2, <1>3, <1>4 DEF JobIInv

LEMMA StepJobCrash == ASSUME JobIInv, JobCrash PROVE JobIInv'
<1>0. /\ proc' \in [Jobs -> ProcStates]
      /\ \A i \in Jobs : \/ proc'[i] = proc[i]
                         \/ proc[i] \in Ended /\ proc'[i] \in Gone
  BY DEF JobIInv, JobTypeOK, JobCrash, ProcStates, Ended, Gone
<1>1. JobTypeOK'
  BY <1>0, JobAssumption DEF JobIInv, JobTypeOK, JobCrash
<1>2. InTurn'
  BY <1>0, NoStart DEF Ended, Gone
<1>3. ASSUME NEW i \in Jobs PROVE ThreadsOK(i)'
  BY <1>3 DEF ThreadsOK, JobCrash
<1>4. active'.status # "stopping" /\ viewer' = 0
  BY DEF JobCrash, NoJob
<1>5. SavedEndIsTrue'
  BY <1>0 DEF JobIInv, JobTypeOK, JobCrash, SavedEndIsTrue, Ended, Gone, Record, NoJob
<1> QED
  BY <1>1, <1>2, <1>3, <1>4, <1>5 DEF JobIInv

LEMMA JobUnchanged == JobIInv /\ UNCHANGED jobVars => JobIInv'
BY DEF JobIInv, JobTypeOK, InTurn, Started, ThreadsOK, SavedEndIsTrue, jobVars

LEMMA StepJob == JobIInv /\ [Next]_vars => JobIInv'
<1> SUFFICES ASSUME JobIInv, [Next]_vars PROVE JobIInv'
  OBVIOUS
<1>1. CASE JobNext
  BY <1>1, StepStart, StepProcEnds, StepStopBegins, StepWaitReturns, StepFinish, StepTerminate,
     StepStopEnds, StepView DEF JobNext, Threads
<1>2. CASE JobCrash
  BY <1>2, StepJobCrash
<1>3. CASE UNCHANGED jobVars
  BY <1>3, JobUnchanged
<1> QED
  BY <1>1, <1>2, <1>3 DEF Next, vars, WritesSource, DeleteWorkspace

(* Only one job whose user did not ask for its end is waited for. *)
LEMMA JobIInvMeansOneJob == JobIInv => OneJob
BY DEF JobIInv, OneJob, ThreadsOK, JobTypeOK

THEOREM JobInvariant == Spec => []JobIInv
<1>1. Init => JobIInv
  BY InitJob DEF Init
<1> QED
  BY <1>1, StepJob, PTL DEF Spec

(* start_job, "Another job is already running": of two processes that work *)
(* at a time the user asked to stop the older one, or its server is gone,  *)
(* for any number of jobs, stop requests, page views and crashes.          *)
THEOREM OneJobAlways == Spec => []OneJob
BY JobInvariant, JobIInvMeansOneJob, PTL

(* job.json never tells an end that the process of its job did not have,   *)
(* in whichever order waiter, stop request and views write it.             *)
THEOREM SavedEndIsTrueAlways == Spec => []SavedEndIsTrue
<1>1. JobIInv => SavedEndIsTrue
  BY DEF JobIInv
<1> QED
  BY <1>1, JobInvariant, PTL
-----------------------------------------------------------------------------
(* The review.  An undo takes the last entry off the stack, so what counts *)
(* is the first entry of each cue: it holds what the cue was in the base   *)
(* of the draft, and a cue without entry still is what it was there.       *)
DraftsFrom(rev) == [rev : rev..MaxRev, cues : [Cues -> Snapshot], stack : Seq(Edits),
                    dirty : BOOLEAN, base : Episodes, dropped : BOOLEAN]

FirstOfCue(stack, i) == \A j \in 1..(i - 1) : stack[j].cue # stack[i].cue

LeadsBack(d) ==
    ~d.dropped =>
        /\ \A i \in 1..Len(d.stack) :
             FirstOfCue(d.stack, i) => d.stack[i].before = d.base[d.stack[i].cue]
        /\ \A cue \in Cues :
             (\A i \in 1..Len(d.stack) : d.stack[i].cue # cue) => d.cues[cue] = d.base[cue]

DraftOK ==
    /\ draft \in DraftsFrom(1) /\ Len(draft.stack) <= MaxUndo
    /\ ~draft.dirty => draft.stack = <<>>
    /\ LeadsBack(draft)

ReviewIInv ==
    /\ source \in Episodes
    /\ draft # NoDraft => DraftOK
    /\ audit \subseteq 1..MaxRev
    /\ pending \subseteq Users
    /\ pending # {} => draft # NoDraft
-----------------------------------------------------------------------------
(* What Write makes of a draft: the revision counts on, and a draft with   *)
(* something to undo is dirty.                                             *)
LEMMA WriteKeeps ==
    ASSUME NEW u \in Users, NEW d \in DraftsFrom(0), d.rev < MaxRev,
           Len(d.stack) <= MaxUndo, LeadsBack(d), Write(u, d)
    PROVE  DraftOK'
<1> DEFINE w == [d EXCEPT !.rev = @ + 1, !.dirty = d.stack # <<>>]
<1>1. draft' = w
  BY DEF Write
<1>2. w \in DraftsFrom(1)
  <2>1. d.rev + 1 \in 1..MaxRev /\ (d.stack # <<>>) \in BOOLEAN
    BY ReviewAssumption DEF DraftsFrom
  <2> QED
    BY <2>1 DEF DraftsFrom
<1>3. /\ w.stack = d.stack /\ w.cues = d.cues /\ w.base = d.base /\ w.dropped = d.dropped
      /\ w.dirty = (d.stack # <<>>)
  BY DEF DraftsFrom
<1>4. LeadsBack(w)
  BY <1>3 DEF LeadsBack
<1> HIDE DEF w
<1> QED
  BY <1>1, <1>2, <1>3, <1>4 DEF DraftOK, LeadsBack, FirstOfCue

(* The entries a stack with a new one keeps. *)
LEMMA LastOfKeeps ==
    ASSUME NEW stack \in Seq(Edits), NEW n \in Nat \ {0}
    PROVE  LastOf(stack, n) \in Seq(Edits) /\ Len(LastOf(stack, n)) <= n
BY DEF LastOf

(* An edit puts its cue's former state on the stack. *)
LEMMA EditLeadsBack ==
    ASSUME NEW d \in DraftsFrom(0), LeadsBack(d), NEW cue \in Cues, NEW after \in Snapshot,
           NEW e \in DraftsFrom(0),
           e.stack = Append(d.stack, EntryOf(cue, d.cues[cue], after)),
           e.cues = [d.cues EXCEPT ![cue] = after], e.base = d.base, ~e.dropped => ~d.dropped
    PROVE  LeadsBack(e)
<1> SUFFICES ASSUME ~e.dropped PROVE LeadsBack(e)
  BY DEF LeadsBack
<1> DEFINE n == Len(d.stack)
<1>1. /\ d.stack \in Seq(Edits) /\ n \in Nat /\ Len(e.stack) = n + 1
      /\ \A i \in 1..n : e.stack[i] = d.stack[i]
      /\ e.stack[n + 1].cue = cue /\ e.stack[n + 1].before = d.cues[cue]
  BY DEF DraftsFrom, EntryOf, Entry
<1>2. /\ d.cues \in [Cues -> Snapshot]
      /\ \A i \in 1..n : FirstOfCue(d.stack, i) => d.stack[i].before = d.base[d.stack[i].cue]
      /\ \A c \in Cues : (\A i \in 1..n : d.stack[i].cue # c) => d.cues[c] = d.base[c]
  BY DEF LeadsBack, DraftsFrom
<1> HIDE DEF n
<1>3. ASSUME NEW i \in 1..(n + 1), FirstOfCue(e.stack, i)
      PROVE  e.stack[i].before = e.base[e.stack[i].cue]
  <2>1. CASE i \in 1..n
    <3>1. FirstOfCue(d.stack, i)
      BY <1>1, <1>3, <2>1 DEF FirstOfCue
    <3> QED
      BY <1>1, <1>2, <2>1, <3>1
  <2>2. CASE i = n + 1
    <3>1. \A j \in 1..n : d.stack[j].cue # cue
      BY <1>1, <1>3, <2>2 DEF FirstOfCue
    <3> QED
      BY <1>1, <1>2, <2>2, <3>1
  <2> QED
    BY <1>1, <2>1, <2>2
<1>4. ASSUME NEW c \in Cues, \A i \in 1..(n + 1) : e.stack[i].cue # c
      PROVE  e.cues[c] = e.base[c]
  <2>1. c # cue /\ \A i \in 1..n : d.stack[i].cue # c
    BY <1>1, <1>4
  <2> QED
    BY <1>2, <2>1
<1> QED
  BY <1>1, <1>3, <1>4 DEF LeadsBack

(* An undo gives the cue of the last entry back what it says. *)
LEMMA UndoOneLeadsBack ==
    ASSUME NEW d \in DraftsFrom(1), LeadsBack(d), d.stack # <<>>,
           NEW e \in DraftsFrom(1),
           e.stack = SubSeq(d.stack, 1, Len(d.stack) - 1),
           e.cues = [d.cues EXCEPT ![d.stack[Len(d.stack)].cue] = d.stack[Len(d.stack)].before],
           e.base = d.base, e.dropped = d.dropped
    PROVE  LeadsBack(e)
<1> SUFFICES ASSUME ~e.dropped PROVE LeadsBack(e)
  BY DEF LeadsBack
<1> DEFINE n == Len(d.stack)
           last == d.stack[n]
<1>1. d.stack \in Seq(Edits) /\ n \in Nat \ {0} /\ last \in Edits /\ d.cues \in [Cues -> Snapshot]
  BY DEF DraftsFrom
<1>2. Len(e.stack) = n - 1 /\ \A i \in 1..(n - 1) : e.stack[i] = d.stack[i]
  BY <1>1
<1>3. /\ \A i \in 1..n : FirstOfCue(d.stack, i) => d.stack[i].before = d.base[d.stack[i].cue]
      /\ \A c \in Cues : (\A i \in 1..n : d.stack[i].cue # c) => d.cues[c] = d.base[c]
  BY DEF LeadsBack
<1>4. e.cues = [d.cues EXCEPT ![last.cue] = last.before]
  OBVIOUS
<1>l. last = d.stack[n]
  OBVIOUS
<1> HIDE DEF n, last
<1>5. ASSUME NEW i \in 1..(n - 1), FirstOfCue(e.stack, i)
      PROVE  e.stack[i].before = e.base[e.stack[i].cue]
  <2>1. FirstOfCue(d.stack, i) /\ i \in 1..n
    BY <1>1, <1>2, <1>5 DEF FirstOfCue
  <2> QED
    BY <1>2, <1>3, <2>1
<1>6. ASSUME NEW c \in Cues, \A i \in 1..(n - 1) : e.stack[i].cue # c
      PROVE  e.cues[c] = e.base[c]
  <2>0. \A i \in 1..(n - 1) : d.stack[i].cue # c
    BY <1>2, <1>6
  <2>1. CASE c = last.cue
    <3>1. FirstOfCue(d.stack, n) /\ n \in 1..n
      BY <1>1, <1>l, <2>0, <2>1 DEF FirstOfCue
    <3>2. last.before = d.base[c]
      BY <1>3, <1>l, <2>1, <3>1
    <3> QED
      BY <1>1, <1>4, <2>1, <3>2
  <2>2. CASE c # last.cue
    <3>1. \A i \in 1..n : d.stack[i].cue # c
      BY <1>1, <1>l, <2>0, <2>2
    <3> QED
      BY <1>1, <1>3, <1>4, <2>2, <3>1
  <2> QED
    BY <2>1, <2>2
<1> QED
  BY <1>1, <1>2, <1>5, <1>6 DEF LeadsBack
-----------------------------------------------------------------------------
LEMMA InitReview == ReviewInit => ReviewIInv
BY DEF ReviewInit, ReviewIInv

LEMMA StepEdit ==
    ASSUME ReviewIInv, NEW u \in Users, NEW cue \in Cues, NEW after \in Snapshot,
           Edit(u, cue, after)
    PROVE  ReviewIInv'
<1> DEFINE d == IF draft = NoDraft THEN NewDraft ELSE draft
           stack == Append(d.stack, EntryOf(cue, d.cues[cue], after))
           e == [d EXCEPT !.cues[cue] = after, !.stack = LastOf(stack, MaxUndo),
                          !.dropped = @ \/ Len(stack) > MaxUndo]
<1>1. d \in DraftsFrom(0) /\ LeadsBack(d)
  <2>1. CASE draft = NoDraft
    <3>1. NewDraft \in DraftsFrom(0)
      BY ReviewAssumption DEF DraftsFrom, NewDraft, ReviewIInv, Episodes
    <3>2. LeadsBack(NewDraft)
      BY DEF LeadsBack, NewDraft
    <3> QED
      BY <2>1, <3>1, <3>2
  <2>2. CASE draft # NoDraft
    BY <2>2, ReviewAssumption DEF ReviewIInv, DraftOK, DraftsFrom
  <2> QED
    BY <2>1, <2>2
<1>2. d.rev < MaxRev /\ Write(u, e) /\ pending = {}
  BY DEF Edit
<1> HIDE DEF d
<1>3. stack \in Seq(Edits) /\ Len(stack) \in Nat
  BY <1>1 DEF DraftsFrom, EntryOf, Entry, Edits
<1> DEFINE kept == LastOf(stack, MaxUndo)
           off == d.dropped \/ Len(stack) > MaxUndo
           cues == [d.cues EXCEPT ![cue] = after]
<1>4. kept \in Seq(Edits) /\ Len(kept) <= MaxUndo
  BY <1>3, LastOfKeeps, ReviewAssumption
<1>5. cues \in [Cues -> Snapshot] /\ off \in BOOLEAN
  BY <1>1 DEF DraftsFrom
<1>6. Len(stack) <= MaxUndo => kept = stack
  BY <1>3, ReviewAssumption DEF LastOf
<1>7. e = [d EXCEPT !.cues = cues, !.stack = kept, !.dropped = off]
  BY <1>1 DEF DraftsFrom
<1> HIDE DEF e, stack, kept, off, cues
<1>8. /\ e \in DraftsFrom(0) /\ e.rev = d.rev /\ e.stack = kept /\ e.cues = cues
      /\ e.base = d.base /\ e.dropped = off
  BY <1>1, <1>4, <1>5, <1>7 DEF DraftsFrom
<1>9. LeadsBack(e)
  <2>1. CASE off
    BY <1>8, <2>1 DEF LeadsBack
  <2>2. CASE ~off
    <3>1. kept = stack /\ ~d.dropped
      BY <1>3, <1>6, <2>2, ReviewAssumption DEF off
    <3>2. /\ e.stack = Append(d.stack, EntryOf(cue, d.cues[cue], after))
          /\ e.cues = [d.cues EXCEPT ![cue] = after]
      BY <1>8, <3>1 DEF stack, cues
    <3> QED
      BY <1>1, <1>8, <3>1, <3>2, EditLeadsBack
  <2> QED
    BY <2>1, <2>2
<1>10. DraftOK'
  BY <1>2, <1>4, <1>8, <1>9, WriteKeeps
<1>11. draft' # NoDraft
  BY <1>10, ReviewAssumption DEF DraftOK, DraftsFrom, NoDraft
<1> QED
  BY <1>2, <1>10, <1>11 DEF ReviewIInv, Write

LEMMA StepUndo == ASSUME ReviewIInv, NEW u \in Users, Undo(u) PROVE ReviewIInv'
<1> DEFINE last == draft.stack[Len(draft.stack)]
           cues == [draft.cues EXCEPT ![last.cue] = last.before]
           stack == SubSeq(draft.stack, 1, Len(draft.stack) - 1)
           e == [draft EXCEPT !.cues = cues, !.stack = stack]
<1>1. draft \in DraftsFrom(1) /\ LeadsBack(draft) /\ Len(draft.stack) <= MaxUndo
  BY DEF Undo, ReviewIInv, DraftOK
<1>2. Len(draft.stack) \in Nat \ {0} /\ last \in Edits
  BY <1>1 DEF DraftsFrom, Undo
<1>3. draft.rev < MaxRev /\ pending = {} /\ Write(u, e)
  BY <1>1 DEF Undo, DraftsFrom
<1>4. /\ cues \in [Cues -> Snapshot]
      /\ stack \in Seq(Edits) /\ Len(stack) <= MaxUndo
  <2> DEFINE n == Len(draft.stack)
  <2>1. draft.stack \in Seq(Edits) /\ draft.cues \in [Cues -> Snapshot]
    BY <1>1 DEF DraftsFrom
  <2>2. last.before \in Snapshot
    BY <1>2 DEF Edits
  <2>3. cues \in [Cues -> Snapshot]
    BY <2>1, <2>2
  <2>4. stack \in Seq(Edits) /\ Len(stack) = n - 1
    <3> HIDE DEF last, cues
    <3> QED
      BY <1>2, <2>1, SubSeqProperties
  <2>5. Len(stack) <= MaxUndo
    BY <1>1, <1>2, <2>4, ReviewAssumption
  <2> QED
    BY <2>3, <2>4, <2>5
<1> HIDE DEF cues, stack
<1>5. /\ e \in DraftsFrom(1) /\ e.rev = draft.rev /\ e.stack = stack /\ e.cues = cues
      /\ e.base = draft.base /\ e.dropped = draft.dropped
  BY <1>1, <1>4 DEF DraftsFrom
<1> HIDE DEF e
<1>6. LeadsBack(e)
  BY <1>1, <1>5, UndoOneLeadsBack DEF Undo, cues, stack
<1>7. e \in DraftsFrom(0)
  BY <1>5, ReviewAssumption DEF DraftsFrom
<1>8. DraftOK'
  BY <1>3, <1>4, <1>5, <1>6, <1>7, WriteKeeps
<1>9. draft' # NoDraft
  BY <1>8, ReviewAssumption DEF DraftOK, DraftsFrom, NoDraft
<1> QED
  BY <1>3, <1>8, <1>9 DEF ReviewIInv, Write

LEMMA ReviewUnchanged ==
    ASSUME ReviewIInv, draft' = draft, source' \in Episodes, audit' \subseteq 1..MaxRev,
           pending' \subseteq pending
    PROVE  ReviewIInv'
BY DEF ReviewIInv, DraftOK, LeadsBack, FirstOfCue

LEMMA StepAudit == ASSUME ReviewIInv, NEW u \in Users, Audit(u) PROVE ReviewIInv'
<1>1. draft.rev \in 1..MaxRev
  BY DEF ReviewIInv, DraftOK, DraftsFrom, Audit
<1> QED
  BY <1>1, ReviewUnchanged DEF ReviewIInv, Audit

LEMMA StepReview == ReviewIInv /\ [Next]_vars => ReviewIInv'
<1> SUFFICES ASSUME ReviewIInv, [Next]_vars PROVE ReviewIInv'
  OBVIOUS
<1>1. CASE ReviewNext
  <2>1. ASSUME NEW u \in Users, View(u) PROVE ReviewIInv'
    BY <2>1, ReviewUnchanged DEF View, ReviewIInv
  <2> QED
    BY <1>1, <2>1, StepEdit, StepUndo, StepAudit DEF ReviewNext
<1>2. ASSUME NEW j \in Jobs, WritesSource(j) PROVE ReviewIInv'
  BY <1>2, ReviewUnchanged DEF WritesSource, ReviewIInv
<1>3. CASE DeleteWorkspace
  BY <1>3 DEF DeleteWorkspace, ReviewIInv
<1>4. CASE ReviewCrash
  BY <1>4, ReviewUnchanged DEF ReviewCrash, ReviewIInv
<1>5. CASE UNCHANGED reviewVars
  BY <1>5, ReviewUnchanged DEF reviewVars, ReviewIInv
<1> QED
  BY <1>1, <1>2, <1>3, <1>4, <1>5 DEF Next, vars

(* The least of some natural numbers, for the first entry of a cue. *)
LEMMA LeastExists ==
    ASSUME NEW S \in SUBSET Nat, S # {}
    PROVE  \E i \in S : \A j \in S : i <= j
<1> DEFINE R == OpToRel(<, Nat)
<1>1. IsWellFoundedOn(R, Nat)
  BY NatLessThanWellFounded
<1>2. ASSUME NEW i \in Nat, NEW j \in Nat, j < i PROVE <<j, i>> \in R
  BY <1>2 DEF OpToRel
<1> HIDE DEF R
<1>3. PICK i \in S : \A j \in S : ~ (<<j, i>> \in R)
  BY <1>1, WFMin, Zenon
<1>4. ASSUME NEW j \in S PROVE i <= j
  <2>1. i \in Nat /\ j \in Nat
    OBVIOUS
  <2>2. ~ (j < i)
    BY <1>2, <1>3, <2>1
  <2> QED
    BY <2>1, <2>2
<1> QED
  BY <1>4

LEMMA ReviewIInvMeansUndo == ReviewIInv => UndoLeadsBack
<1> SUFFICES ASSUME ReviewIInv, draft # NoDraft, ~draft.dropped
             PROVE  /\ \A cue \in Cues : Undone(cue) = draft.base[cue]
                    /\ ~draft.dirty => draft.cues = draft.base
  BY DEF UndoLeadsBack
<1>1. /\ draft \in DraftsFrom(1) /\ LeadsBack(draft)
      /\ ~draft.dirty => draft.stack = <<>>
  BY DEF ReviewIInv, DraftOK
<1>2. DOMAIN draft.stack = 1..Len(draft.stack) /\ Len(draft.stack) \in Nat
  BY <1>1 DEF DraftsFrom
<1>3. ASSUME NEW cue \in Cues PROVE Undone(cue) = draft.base[cue]
  <2> DEFINE ofCue == {i \in DOMAIN draft.stack : draft.stack[i].cue = cue}
  <2>1. CASE ofCue = {}
    <3>1. \A i \in 1..Len(draft.stack) : draft.stack[i].cue # cue
      BY <1>2, <2>1
    <3>2. Undone(cue) = draft.cues[cue]
      BY <2>1 DEF Undone
    <3> QED
      BY <1>1, <3>1, <3>2 DEF LeadsBack
  <2>2. CASE ofCue # {}
    <3> DEFINE first == CHOOSE i \in ofCue : \A j \in ofCue : i <= j
    <3>1. \E i \in ofCue : \A j \in ofCue : i <= j
      <4>1. ofCue \in SUBSET Nat
        BY <1>2
      <4> HIDE DEF ofCue
      <4> QED
        BY <2>2, <4>1, LeastExists
    <3>2. first \in ofCue /\ \A j \in ofCue : first <= j
      BY <3>1
    <3>3. Undone(cue) = draft.stack[first].before
      BY <2>2 DEF Undone
    <3> HIDE DEF first
    <3>4. first \in 1..Len(draft.stack) /\ FirstOfCue(draft.stack, first)
      BY <1>2, <3>2, SMTT(30) DEF FirstOfCue
    <3>5. draft.stack[first].before = draft.base[draft.stack[first].cue]
      BY <1>1, <3>4 DEF LeadsBack
    <3> QED
      BY <3>2, <3>3, <3>5
  <2> QED
    BY <2>1, <2>2
<1>4. ASSUME ~draft.dirty PROVE draft.cues = draft.base
  <2>1. \A cue \in Cues : draft.cues[cue] = draft.base[cue]
    <3>1. Len(draft.stack) = 0
      BY <1>1, <1>4
    <3> QED
      BY <1>1, <3>1 DEF LeadsBack
  <2>2. draft.cues \in [Cues -> Snapshot] /\ draft.base \in [Cues -> Snapshot]
    BY <1>1 DEF DraftsFrom, Episodes
  <2> QED
    BY <2>1, <2>2
<1> QED
  BY <1>3, <1>4

THEOREM ReviewInvariant == Spec => []ReviewIInv
<1>1. Init => ReviewIInv
  BY InitReview DEF Init
<1> QED
  BY <1>1, StepReview, PTL DEF Spec

(* undo_review_edit: while nothing has fallen off the undo stack, undoing  *)
(* leads back to the cues the draft was made from, and a draft that is not *)
(* dirty is back there, for every undo depth and any number of reviewers,  *)
(* edits, jobs that rewrite the source, deletions and crashes.             *)
THEOREM UndoLeadsBackAlways == Spec => []UndoLeadsBack
BY ReviewInvariant, ReviewIInvMeansUndo, PTL

(* Type correctness of server and workbench together.                      *)
THEOREM WebTypeOK == Spec => []TypeOK
<1>1. JobIInv => JobTypeOK
  BY DEF JobIInv
<1>2. ReviewIInv => ReviewTypeOK
  BY DEF ReviewIInv, ReviewTypeOK, DraftOK, DraftsFrom
<1> QED
  BY <1>1, <1>2, JobInvariant, ReviewInvariant, PTL DEF TypeOK
-----------------------------------------------------------------------------
(* The file store.  A blob is lost to a run or artifact only where raced   *)
(* says so, because a blob belongs to one artifact at most, to one request *)
(* that is to make it one, or to a deletion.                               *)
Ids == 1..nextBlob

(* What a request can be doing, and what it then has in hand. *)
Kinds ==
    {Free}
    \cup [at : {"stored"}, content : Contents, then : {"end", "inputs", "artifact"},
          refs : SUBSET Nat, run : Nat]
    \cup [at : {"inputs", "artifact"}, refs : SUBSET Nat, new : Nat, run : Nat]
    \cup [at : {"insert"}, refs : SUBSET Nat]
    \cup [at : {"ask"}, todo : SUBSET Nat]
    \cup [at : {"row"}, todo : SUBSET Nat, blob : Nat]
    \cup [at : {"file"}, todo : SUBSET Nat, content : Contents, last : {TRUE}]

RefsOf(q)   == IF "refs" \in DOMAIN q THEN q.refs ELSE {}
DoomedOf(q) == (IF "todo" \in DOMAIN q THEN q.todo ELSE {})
               \cup (IF q.at = "row" THEN {q.blob} ELSE {})

BlobTypeOK ==
    /\ disk \subseteq Contents
    /\ nextBlob \in Nat /\ nextRun \in Nat /\ halts \in Nat
    /\ DOMAIN blob \subseteq Ids /\ blob \in [DOMAIN blob -> Contents]
    /\ DOMAIN runs \subseteq Nat
    /\ runs \in [DOMAIN runs -> [final : BOOLEAN, refs : SUBSET Nat]]
    /\ req \in [Requests -> Kinds]
    /\ arts \subseteq [run : Nat, name : Names, blob : Nat]
    /\ \A t \in Requests : DoomedOf(req[t]) \subseteq Ids

(* The blob of an artifact, and the one a request is to make an artifact   *)
(* of, is no other's, and no deletion is to remove it.                     *)
Artifacts == {t \in Requests : req[t].at = "artifact"}

OwnersOK ==
    /\ \A a \in arts : a.blob \in DOMAIN blob
    /\ \A a, b \in arts : a.blob = b.blob => a = b
    /\ \A t \in Artifacts : req[t].new \in DOMAIN blob
    /\ \A t \in Artifacts : \A a \in arts : req[t].new # a.blob
    /\ \A t, u \in Artifacts : req[t].new = req[u].new => t = u
    /\ \A t \in Requests : \A a \in arts : a.blob \notin DoomedOf(req[t])
    /\ \A t \in Requests : \A u \in Artifacts : req[u].new \notin DoomedOf(req[t])

(* A content that a row or a request names is on the disk, a blob that a   *)
(* run or a request names is a row, but for what raced tells of.           *)
ContentsOK ==
    /\ \A b \in DOMAIN blob : blob[b] \in disk \/ <<"content", blob[b]>> \in raced
    /\ \A t \in Requests : req[t].at = "stored" =>
         req[t].content \in disk \/ <<"content", req[t].content>> \in raced

RefsOK ==
    /\ \A r \in DOMAIN runs : \A b \in runs[r].refs : b \in DOMAIN blob \/ <<"blob", b>> \in raced
    /\ \A t \in Requests : \A b \in RefsOf(req[t]) : b \in DOMAIN blob \/ <<"blob", b>> \in raced

(* Until a crash every content on the disk has a row, or a request that is *)
(* about to give it one or to delete it.                                   *)
Attended(c) == \/ Rows(c) # {}
               \/ \E t \in Requests : req[t].at \in {"stored", "file"} /\ req[t].content = c
AllAttended == halts = 0 => \A c \in disk : Attended(c)

BlobIInv == BlobTypeOK /\ OwnersOK /\ ContentsOK /\ RefsOK /\ AllAttended
-----------------------------------------------------------------------------
LEMMA KindsAre ==
    ASSUME NEW q \in Kinds
    PROVE  /\ q = Free <=> q.at = "free"
           /\ q.at \in {"free", "stored", "inputs", "artifact", "insert", "ask", "row", "file"}
           /\ q.at \in {"stored", "inputs", "artifact", "insert"} => RefsOf(q) = q.refs
           /\ q.at \in {"free", "ask", "row", "file"} => RefsOf(q) = {}
           /\ RefsOf(q) \subseteq Nat
           /\ q.at \in {"free", "stored", "inputs", "artifact", "insert"} => DoomedOf(q) = {}
           /\ q.at \in {"ask", "file"} => DoomedOf(q) = q.todo
           /\ q.at = "row" => DoomedOf(q) = q.todo \cup {q.blob}
           /\ DoomedOf(q) \subseteq Nat
           /\ q.at \in {"stored", "file"} => q.content \in Contents
           /\ q.at = "stored" => q.then \in {"end", "inputs", "artifact"} /\ q.run \in Nat
           /\ q.at \in {"inputs", "artifact"} => q.new \in Nat /\ q.run \in Nat
           /\ q.at = "file" => q.last = TRUE
<1>1. CASE q = Free
  BY <1>1 DEF RefsOf, DoomedOf, Free
<1>2. CASE q \in [at : {"stored"}, content : Contents, then : {"end", "inputs", "artifact"},
                  refs : SUBSET Nat, run : Nat]
  BY <1>2 DEF RefsOf, DoomedOf, Free
<1>3. CASE q \in [at : {"inputs", "artifact"}, refs : SUBSET Nat, new : Nat, run : Nat]
  BY <1>3 DEF RefsOf, DoomedOf, Free
<1>4. CASE q \in [at : {"insert"}, refs : SUBSET Nat]
  BY <1>4 DEF RefsOf, DoomedOf, Free
<1>5. CASE q \in [at : {"ask"}, todo : SUBSET Nat]
  BY <1>5 DEF RefsOf, DoomedOf, Free
<1>6. CASE q \in [at : {"row"}, todo : SUBSET Nat, blob : Nat]
  BY <1>6 DEF RefsOf, DoomedOf, Free
<1>7. CASE q \in [at : {"file"}, todo : SUBSET Nat, content : Contents, last : {TRUE}]
  <2>1. q.last = TRUE
    BY <1>7, Zenon
  <2>2. /\ q.at = "file" /\ DOMAIN q = {"at", "todo", "content", "last"}
        /\ q.todo \in SUBSET Nat /\ q.content \in Contents
    BY <1>7, Zenon
  <2> QED
    BY <2>1, <2>2 DEF RefsOf, DoomedOf, Free
<1> QED
  BY <1>1, <1>2, <1>3, <1>4, <1>5, <1>6, <1>7 DEF Kinds

LEMMA MadeKinds ==
    /\ Free \in Kinds /\ Free.at = "free"
    /\ \A c \in Contents, th \in {"end", "inputs", "artifact"}, refs \in SUBSET Nat, r \in Nat :
         [at |-> "stored", content |-> c, then |-> th, refs |-> refs, run |-> r] \in Kinds
    /\ \A a \in {"inputs", "artifact"}, refs \in SUBSET Nat, n \in Nat, r \in Nat :
         [at |-> a, refs |-> refs, new |-> n, run |-> r] \in Kinds
    /\ \A refs \in SUBSET Nat : [at |-> "insert", refs |-> refs] \in Kinds
    /\ \A bs \in SUBSET Nat : [at |-> "ask", todo |-> bs] \in Kinds
    /\ \A bs \in SUBSET Nat, b \in Nat : [at |-> "row", todo |-> bs, blob |-> b] \in Kinds
    /\ \A bs \in SUBSET Nat, c \in Contents :
         [at |-> "file", todo |-> bs, content |-> c, last |-> TRUE] \in Kinds
BY DEF Kinds, Free

LEMMA MovesTo ==
    ASSUME BlobTypeOK, NEW t \in Requests, NEW to \in Kinds, Moves(t, to)
    PROVE  /\ req' \in [Requests -> Kinds] /\ req'[t] = to
           /\ \A u \in Requests \ {t} : req'[u] = req[u]
BY DEF BlobTypeOK, Moves

LEMMA SetIs ==
    ASSUME NEW f, NEW x, NEW v
    PROVE  /\ DOMAIN Set(f, x, v) = DOMAIN f \cup {x} /\ Set(f, x, v)[x] = v
           /\ \A y \in DOMAIN f : y # x => Set(f, x, v)[y] = f[y]
           /\ \A S, T : f \in [S -> T] /\ v \in T => Set(f, x, v) \in [DOMAIN Set(f, x, v) -> T]
BY DEF Set

LEMMA DropIs ==
    ASSUME NEW f, NEW x
    PROVE  /\ DOMAIN Drop(f, x) = DOMAIN f \ {x}
           /\ \A y \in DOMAIN f \ {x} : Drop(f, x)[y] = f[y]
           /\ \A S, T : f \in [S -> T] => Drop(f, x) \in [DOMAIN Drop(f, x) -> T]
BY DEF Drop

(* A request that only moves, to what neither threatens nor claims         *)
(* anything it did not, keeps the invariant.                               *)
LEMMA Quiet ==
    ASSUME BlobIInv, NEW t \in Requests, NEW to \in Kinds, Moves(t, to),
           UNCHANGED <<blob, nextBlob, arts, raced, halts>>,
           disk \subseteq disk', disk' \subseteq Contents,
           nextRun' \in Nat, DOMAIN runs' \subseteq Nat,
           runs' \in [DOMAIN runs' -> [final : BOOLEAN, refs : SUBSET Nat]],
           to.at # "artifact", DoomedOf(to) \subseteq DoomedOf(req[t]),
           to.at = "stored" => to.content \in disk',
           req[t].at \notin {"stored", "file"},
           \A c \in disk' \ disk : to.at = "stored" /\ to.content = c,
           \A b \in RefsOf(to) : b \in DOMAIN blob \/ <<"blob", b>> \in raced,
           \A r \in DOMAIN runs' : \A b \in runs'[r].refs : b \in DOMAIN blob \/ <<"blob", b>> \in raced
    PROVE  BlobIInv'
<1>0. /\ req' \in [Requests -> Kinds] /\ req'[t] = to
      /\ \A u \in Requests \ {t} : req'[u] = req[u]
  BY MovesTo DEF BlobIInv
<1>1. BlobTypeOK'
  BY <1>0 DEF BlobIInv, BlobTypeOK, Ids
<1>2. OwnersOK'
  BY <1>0 DEF BlobIInv, OwnersOK, Artifacts
<1>3. ContentsOK'
  BY <1>0 DEF BlobIInv, ContentsOK
<1>4. RefsOK'
  BY <1>0 DEF BlobIInv, RefsOK
<1>5. AllAttended'
  BY <1>0 DEF BlobIInv, AllAttended, Attended, Rows
<1> QED
  BY <1>1, <1>2, <1>3, <1>4, <1>5 DEF BlobIInv
-----------------------------------------------------------------------------
LEMMA InitBlobs == BlobInit => BlobIInv
<1> SUFFICES ASSUME BlobInit PROVE BlobIInv
  OBVIOUS
<1>1. \A t \in Requests : req[t] = Free /\ req[t].at = "free" /\ DoomedOf(req[t]) = {} /\ RefsOf(req[t]) = {}
  BY KindsAre, MadeKinds DEF BlobInit
<1>2. req \in [Requests -> Kinds]
  BY MadeKinds DEF BlobInit
<1> QED
  BY <1>1, <1>2 DEF BlobInit, BlobIInv, BlobTypeOK, Ids, OwnersOK, Artifacts, ContentsOK, RefsOK,
     AllAttended

(* The requests that put a content away: an upload, a run with the files   *)
(* of its preset, a retry with those of a new one.                         *)
LEMMA StepPut ==
    ASSUME BlobIInv, NEW t \in Requests, NEW c \in Contents, NEW th \in {"end", "inputs", "artifact"},
           NEW refs \in SUBSET Nat, NEW r \in Nat, req[t] = Free, Put(t, c, th, refs, r),
           \A b \in refs : b \in DOMAIN blob \/ <<"blob", b>> \in raced,
           UNCHANGED <<blob, runs, nextRun, nextBlob, arts, raced, halts>>
    PROVE  BlobIInv'
<1> DEFINE to == [at |-> "stored", content |-> c, then |-> th, refs |-> refs, run |-> r]
<1>1. to \in Kinds /\ to.at = "stored" /\ to.content = c /\ to.refs = refs /\ Moves(t, to)
  BY MadeKinds DEF Put
<1> HIDE DEF to
<1>2. RefsOf(to) = refs /\ DoomedOf(to) = {}
  BY <1>1, KindsAre
<1>3. req[t].at = "free"
  BY MadeKinds
<1>4. disk' = disk \cup {c}
  BY DEF Put
<1> QED
  BY <1>1, <1>2, <1>3, <1>4, Quiet DEF BlobIInv, BlobTypeOK, RefsOK

LEMMA StepUpload ==
    ASSUME BlobIInv, NEW t \in Requests, NEW c \in Contents, Upload(t, c) PROVE BlobIInv'
BY StepPut DEF Upload

LEMMA StepBeginCreate ==
    ASSUME BlobIInv, NEW t \in Requests, NEW c \in Contents, NEW b \in DOMAIN blob, BeginCreate(t, b, c)
    PROVE  BlobIInv'
<1>1. {b} \in SUBSET Nat
  BY DEF BlobIInv, BlobTypeOK, Ids
<1> QED
  BY <1>1, StepPut DEF BeginCreate

LEMMA StepBeginRefresh ==
    ASSUME BlobIInv, NEW t \in Requests, NEW c \in Contents, NEW r \in DOMAIN runs,
           NEW b \in runs[r].refs, BeginRefresh(t, r, b, c)
    PROVE  BlobIInv'
<1>1. {b} \in SUBSET Nat
  BY DEF BlobIInv, BlobTypeOK
<1>2. b \in DOMAIN blob \/ <<"blob", b>> \in raced
  BY DEF BlobIInv, RefsOK
<1> QED
  BY <1>1, <1>2, StepPut DEF BeginRefresh

LEMMA StepBeginArtifact ==
    ASSUME BlobIInv, NEW t \in Requests, NEW c \in Contents, NEW r \in DOMAIN runs, BeginArtifact(t, r, c)
    PROVE  BlobIInv'
<1>1. r \in Nat
  BY DEF BlobIInv, BlobTypeOK
<1> QED
  BY <1>1, StepPut DEF BeginArtifact

LEMMA StepUserInput ==
    ASSUME BlobIInv, NEW t \in Requests, NEW b \in DOMAIN blob, NEW same \in BOOLEAN, UserInput(t, b, same)
    PROVE  BlobIInv'
<1> DEFINE refs == {b} \cup IF same THEN req[t].refs \ {req[t].new} ELSE req[t].refs
           to == [at |-> "insert", refs |-> refs]
<1>1. /\ req[t] \in Kinds /\ req[t].at = "inputs" /\ RefsOf(req[t]) = req[t].refs
      /\ RefsOf(req[t]) \subseteq Nat
  BY KindsAre DEF BlobIInv, BlobTypeOK, UserInput
<1>2. refs \in SUBSET Nat /\ refs \subseteq RefsOf(req[t]) \cup {b}
  BY <1>1 DEF BlobIInv, BlobTypeOK, Ids
<1>3. Moves(t, to)
  BY DEF UserInput
<1> HIDE DEF refs
<1>4. to \in Kinds /\ to.at = "insert" /\ to.refs = refs
  BY <1>2, MadeKinds
<1> HIDE DEF to
<1>5. RefsOf(to) = refs /\ DoomedOf(to) = {}
  BY <1>4, KindsAre
<1>6. \A i \in refs : i \in DOMAIN blob \/ <<"blob", i>> \in raced
  BY <1>2 DEF BlobIInv, RefsOK
<1> QED
  BY <1>1, <1>3, <1>4, <1>5, <1>6, Quiet DEF BlobIInv, BlobTypeOK, RefsOK, UserInput

LEMMA StepInsertRun ==
    ASSUME BlobIInv, NEW t \in Requests, InsertRun(t) PROVE BlobIInv'
<1> DEFINE row == [final |-> FALSE, refs |-> req[t].refs]
<1>1. /\ req[t] \in Kinds /\ req[t].at \in {"inputs", "insert"} /\ RefsOf(req[t]) = req[t].refs
      /\ RefsOf(req[t]) \subseteq Nat
  BY KindsAre DEF BlobIInv, BlobTypeOK, InsertRun
<1>2. row \in [final : BOOLEAN, refs : SUBSET Nat] /\ row.refs = RefsOf(req[t])
  BY <1>1
<1>3. runs' = Set(runs, nextRun + 1, row)
  BY DEF InsertRun
<1> HIDE DEF row
<1>4. /\ DOMAIN runs' = DOMAIN runs \cup {nextRun + 1} /\ runs'[nextRun + 1] = row
      /\ \A r \in DOMAIN runs : r # nextRun + 1 => runs'[r] = runs[r]
      /\ runs' \in [DOMAIN runs' -> [final : BOOLEAN, refs : SUBSET Nat]]
  <2>1. runs \in [DOMAIN runs -> [final : BOOLEAN, refs : SUBSET Nat]]
    BY DEF BlobIInv, BlobTypeOK
  <2> QED
    BY <1>2, <1>3, <2>1, SetIs DEF Set
<1>5. \A r \in DOMAIN runs' : \A b \in runs'[r].refs : b \in DOMAIN blob \/ <<"blob", b>> \in raced
  BY <1>2, <1>4 DEF BlobIInv, RefsOK
<1>6. Free \in Kinds /\ Free.at = "free" /\ RefsOf(Free) = {} /\ DoomedOf(Free) = {}
  BY MadeKinds, KindsAre
<1> QED
  <2>1. nextRun' \in Nat /\ DOMAIN runs' \subseteq Nat
    BY <1>4 DEF BlobIInv, BlobTypeOK, InsertRun
  <2>2. /\ Moves(t, Free) /\ disk' = disk /\ disk \subseteq Contents
        /\ UNCHANGED <<blob, nextBlob, arts, raced, halts>>
    BY DEF InsertRun, BlobIInv, BlobTypeOK
  <2> QED
    BY <1>1, <1>4, <1>5, <1>6, <2>1, <2>2, Quiet

LEMMA StepBeginRetry ==
    ASSUME BlobIInv, NEW t \in Requests, NEW r \in DOMAIN runs, BeginRetry(t, r) PROVE BlobIInv'
<1> DEFINE to == [at |-> "insert", refs |-> runs[r].refs]
<1>1. runs[r].refs \in SUBSET Nat /\ req[t].at = "free"
  BY MadeKinds DEF BlobIInv, BlobTypeOK, BeginRetry
<1>2. to \in Kinds /\ to.at = "insert" /\ to.refs = runs[r].refs /\ Moves(t, to)
  BY <1>1, MadeKinds DEF BeginRetry
<1> HIDE DEF to
<1>3. RefsOf(to) = runs[r].refs /\ DoomedOf(to) = {}
  BY <1>2, KindsAre
<1> QED
  BY <1>1, <1>2, <1>3, Quiet DEF BlobIInv, BlobTypeOK, RefsOK, BeginRetry

LEMMA StepAskInUse ==
    ASSUME BlobIInv, NEW t \in Requests, AskInUse(t) PROVE BlobIInv'
<1>1. /\ req[t] \in Kinds /\ req[t].at = "ask" /\ DoomedOf(req[t]) = req[t].todo
      /\ DoomedOf(req[t]) \subseteq Nat
  BY KindsAre DEF BlobIInv, BlobTypeOK, AskInUse
<1>2. PICK to \in Kinds : /\ Moves(t, to) /\ to.at \in {"free", "ask", "row"}
                          /\ DoomedOf(to) \subseteq DoomedOf(req[t])
  <2>1. CASE req[t].todo = {}
    BY <2>1, MadeKinds, KindsAre DEF AskInUse
  <2>2. ASSUME NEW b \in req[t].todo, InUse(b), Moves(t, [at |-> "ask", todo |-> req[t].todo \ {b}])
        PROVE  \E to \in Kinds : /\ Moves(t, to) /\ to.at \in {"free", "ask", "row"}
                                 /\ DoomedOf(to) \subseteq DoomedOf(req[t])
    <3> DEFINE to == [at |-> "ask", todo |-> req[t].todo \ {b}]
    <3>1. to \in Kinds /\ to.at = "ask" /\ to.todo = req[t].todo \ {b}
      BY <1>1, MadeKinds
    <3> HIDE DEF to
    <3>2. DoomedOf(to) = to.todo
      BY <3>1, KindsAre
    <3>3. Moves(t, to)
      BY <2>2 DEF to
    <3> QED
      BY <1>1, <3>1, <3>2, <3>3
  <2>3. ASSUME NEW b \in req[t].todo, Moves(t, [at |-> "row", todo |-> req[t].todo \ {b}, blob |-> b])
        PROVE  \E to \in Kinds : /\ Moves(t, to) /\ to.at \in {"free", "ask", "row"}
                                 /\ DoomedOf(to) \subseteq DoomedOf(req[t])
    <3> DEFINE to == [at |-> "row", todo |-> req[t].todo \ {b}, blob |-> b]
    <3>1. to \in Kinds /\ to.at = "row" /\ to.todo = req[t].todo \ {b} /\ to.blob = b
      BY <1>1, MadeKinds
    <3> HIDE DEF to
    <3>2. DoomedOf(to) = to.todo \cup {to.blob}
      BY <3>1, KindsAre
    <3>3. Moves(t, to)
      BY <2>3 DEF to
    <3> QED
      BY <1>1, <3>1, <3>2, <3>3
  <2> QED
    BY <2>1, <2>2, <2>3 DEF AskInUse
<1>3. RefsOf(to) = {}
  BY <1>2, KindsAre
<1> QED
  BY <1>1, <1>2, <1>3, Quiet DEF BlobIInv, BlobTypeOK, RefsOK, AskInUse
-----------------------------------------------------------------------------
(* A row for a stored content: its id is new to every request and artifact. *)
LEMMA StepAddBlob ==
    ASSUME BlobIInv, NEW t \in Requests, AddBlob(t) PROVE BlobIInv'
<1> DEFINE b == nextBlob + 1
           to == IF req[t].then = "end" THEN Free
                 ELSE [at |-> req[t].then, refs |-> req[t].refs \cup {b}, new |-> b, run |-> req[t].run]
<1>1. /\ req[t] \in Kinds /\ req[t].at = "stored" /\ RefsOf(req[t]) = req[t].refs
      /\ RefsOf(req[t]) \subseteq Nat /\ req[t].content \in Contents
      /\ req[t].then \in {"end", "inputs", "artifact"} /\ req[t].run \in Nat
  BY KindsAre DEF BlobIInv, BlobTypeOK, AddBlob
<1>2. /\ Moves(t, to) /\ blob' = Set(blob, b, req[t].content) /\ nextBlob' = b
      /\ UNCHANGED <<disk, runs, nextRun, arts, raced, halts>>
  BY DEF AddBlob
<1>3. b \in Nat /\ b \notin Ids /\ Ids' = Ids \cup {b} /\ b \notin DOMAIN blob
  BY <1>2 DEF BlobIInv, BlobTypeOK, Ids
<1>4. /\ to \in Kinds /\ to.at \in {"free", "inputs", "artifact"}
      /\ to.at # "free" => to.refs = req[t].refs \cup {b} /\ to.new = b
  BY <1>1, <1>3, MadeKinds
<1> HIDE DEF b, to
<1>5. DoomedOf(to) = {} /\ RefsOf(to) \subseteq RefsOf(req[t]) \cup {b}
  BY <1>1, <1>4, KindsAre
<1>6. /\ req' \in [Requests -> Kinds] /\ req'[t] = to
      /\ \A u \in Requests \ {t} : req'[u] = req[u]
  BY <1>2, <1>4, MovesTo DEF BlobIInv
<1>7. /\ DOMAIN blob' = DOMAIN blob \cup {b} /\ blob'[b] = req[t].content
      /\ \A i \in DOMAIN blob : blob'[i] = blob[i]
      /\ blob' \in [DOMAIN blob' -> Contents]
  <2>1. blob \in [DOMAIN blob -> Contents]
    BY DEF BlobIInv, BlobTypeOK
  <2> QED
    BY <1>1, <1>2, <1>3, <2>1, SetIs DEF Set
<1>8. BlobTypeOK'
  BY <1>2, <1>3, <1>5, <1>6, <1>7 DEF BlobIInv, BlobTypeOK
<1>9. OwnersOK'
  <2>1. \A a \in arts : a.blob # b
    BY <1>3 DEF BlobIInv, OwnersOK
  <2>2. \A u \in Artifacts : req[u].new # b
    BY <1>3 DEF BlobIInv, OwnersOK
  <2>3. \A u \in Requests : b \notin DoomedOf(req[u])
    BY <1>3 DEF BlobIInv, BlobTypeOK
  <2>4. /\ Artifacts' \subseteq Artifacts \cup {t}
        /\ \A u \in Artifacts' \ {t} : u \in Artifacts /\ req'[u] = req[u]
        /\ t \in Artifacts' => req'[t].new = b
    BY <1>4, <1>6 DEF Artifacts
  <2>5. \A u \in Requests : DoomedOf(req'[u]) \subseteq DoomedOf(req[u])
    BY <1>5, <1>6
  <2> QED
    BY <1>2, <1>7, <2>1, <2>2, <2>3, <2>4, <2>5 DEF BlobIInv, OwnersOK, Artifacts
<1>10. ContentsOK'
  BY <1>1, <1>2, <1>4, <1>6, <1>7 DEF BlobIInv, ContentsOK
<1>11. RefsOK'
  BY <1>2, <1>5, <1>6, <1>7 DEF BlobIInv, RefsOK
<1>12. AllAttended'
  <2>1. ASSUME NEW c \in disk, Attended(c) PROVE Attended(c)'
    <3>1. CASE c = req[t].content
      BY <1>7, <3>1 DEF Attended, Rows
    <3>2. CASE Rows(c) # {}
      BY <1>7, <3>2 DEF Attended, Rows
    <3>3. CASE \E u \in Requests \ {t} : req[u].at \in {"stored", "file"} /\ req[u].content = c
      BY <1>6, <3>3 DEF Attended
    <3> QED
      BY <2>1, <3>1, <3>2, <3>3 DEF Attended
  <2> QED
    BY <1>2, <2>1 DEF BlobIInv, AllAttended
<1> QED
  BY <1>8, <1>9, <1>10, <1>11, <1>12 DEF BlobIInv

LEMMA StepAddArtifact ==
    ASSUME BlobIInv, NEW t \in Requests, NEW n \in Names, AddArtifact(t, n) PROVE BlobIInv'
<1> DEFINE new == [run |-> req[t].run, name |-> n, blob |-> req[t].new]
<1>1. /\ req[t] \in Kinds /\ req[t].at = "artifact" /\ req[t].new \in Nat /\ req[t].run \in Nat
  BY KindsAre DEF BlobIInv, BlobTypeOK, AddArtifact
<1>2. /\ Free \in Kinds /\ Free.at = "free" /\ RefsOf(Free) = {} /\ DoomedOf(Free) = {}
      /\ Moves(t, Free) /\ UNCHANGED <<disk, blob, runs, nextRun, nextBlob, raced, halts>>
  BY MadeKinds, KindsAre DEF AddArtifact
<1>3. /\ req' \in [Requests -> Kinds] /\ req'[t] = Free
      /\ \A u \in Requests \ {t} : req'[u] = req[u]
  BY <1>2, MovesTo DEF BlobIInv
<1>4. arts' \subseteq arts \cup {new}
  BY DEF AddArtifact
<1>5. new \in [run : Nat, name : Names, blob : Nat] /\ new.blob = req[t].new
  BY <1>1
<1> HIDE DEF new
<1>6. BlobTypeOK'
  BY <1>2, <1>3, <1>4, <1>5 DEF BlobIInv, BlobTypeOK, Ids
<1>7. OwnersOK'
  <2>1. t \in Artifacts /\ t \notin Artifacts' /\ Artifacts' \subseteq Artifacts
    BY <1>1, <1>2, <1>3 DEF Artifacts
  <2>2. \A u \in Requests : DoomedOf(req'[u]) \subseteq DoomedOf(req[u])
    BY <1>2, <1>3
  <2>3. \A u \in Artifacts' : u # t /\ req'[u] = req[u]
    BY <1>3, <2>1 DEF Artifacts
  <2> QED
    BY <1>2, <1>4, <1>5, <2>1, <2>2, <2>3 DEF BlobIInv, OwnersOK
<1>8. ContentsOK' /\ RefsOK'
  BY <1>2, <1>3 DEF BlobIInv, ContentsOK, RefsOK
<1>9. AllAttended'
  BY <1>1, <1>2, <1>3 DEF BlobIInv, AllAttended, Attended, Rows
<1> QED
  BY <1>6, <1>7, <1>8, <1>9 DEF BlobIInv

LEMMA StepEndRun == ASSUME BlobIInv, NEW r \in DOMAIN runs, EndRun(r) PROVE BlobIInv'
<1>1. /\ DOMAIN runs' = DOMAIN runs /\ \A i \in DOMAIN runs : runs'[i].refs = runs[i].refs
      /\ runs' \in [DOMAIN runs' -> [final : BOOLEAN, refs : SUBSET Nat]]
  BY DEF BlobIInv, BlobTypeOK, EndRun
<1>2. UNCHANGED <<disk, blob, nextRun, nextBlob, arts, req, raced, halts>>
  BY DEF EndRun
<1> QED
  BY <1>1, <1>2 DEF BlobIInv, BlobTypeOK, Ids, OwnersOK, Artifacts, ContentsOK, RefsOK, AllAttended,
     Attended, Rows

(* A run goes with its artifacts, and their blobs are nobody else's.       *)
LEMMA StepDeleteRun ==
    ASSUME BlobIInv, NEW t \in Requests, NEW r \in DOMAIN runs, DeleteRun(t, r) PROVE BlobIInv'
<1> DEFINE bs == {a.blob : a \in arts \ arts'}
           to == [at |-> "ask", todo |-> bs]
<1>1. /\ arts' \subseteq arts /\ Moves(t, to) /\ runs' = Drop(runs, r) /\ req[t].at = "free"
      /\ UNCHANGED <<disk, blob, nextRun, nextBlob, raced, halts>>
  BY MadeKinds DEF DeleteRun
<1>2. bs \subseteq DOMAIN blob /\ bs \subseteq Ids /\ bs \in SUBSET Nat
  BY DEF BlobIInv, BlobTypeOK, OwnersOK, Ids
<1>3. \A i \in bs : \E a \in arts \ arts' : i = a.blob
  OBVIOUS
<1> HIDE DEF bs
<1>4. to \in Kinds /\ to.at = "ask" /\ to.todo = bs
  BY <1>2, MadeKinds
<1> HIDE DEF to
<1>5. RefsOf(to) = {} /\ DoomedOf(to) = bs
  BY <1>4, KindsAre
<1>6. /\ req' \in [Requests -> Kinds] /\ req'[t] = to
      /\ \A u \in Requests \ {t} : req'[u] = req[u]
  BY <1>1, <1>4, MovesTo DEF BlobIInv
<1>7. /\ DOMAIN runs' = DOMAIN runs \ {r} /\ \A i \in DOMAIN runs \ {r} : runs'[i] = runs[i]
      /\ runs' \in [DOMAIN runs' -> [final : BOOLEAN, refs : SUBSET Nat]]
  <2>1. runs \in [DOMAIN runs -> [final : BOOLEAN, refs : SUBSET Nat]]
    BY DEF BlobIInv, BlobTypeOK
  <2> QED
    BY <1>1, <2>1, DropIs DEF Drop
<1>8. BlobTypeOK'
  BY <1>1, <1>2, <1>5, <1>6, <1>7 DEF BlobIInv, BlobTypeOK, Ids
<1>9. OwnersOK'
  <2>1. Artifacts' = Artifacts /\ \A u \in Artifacts : req'[u] = req[u]
    BY <1>1, <1>4, <1>6 DEF Artifacts
  <2>2. \A u \in Requests \ {t} : DoomedOf(req'[u]) = DoomedOf(req[u])
    BY <1>6
  <2>3. DoomedOf(req'[t]) = bs
    BY <1>5, <1>6
  <2>4. \A i \in bs : /\ \A a \in arts' : a.blob # i
                     /\ \A u \in Artifacts : req[u].new # i
    BY <1>1, <1>3 DEF BlobIInv, OwnersOK
  <2>5. OwnersOK
    BY DEF BlobIInv
  <2>6. /\ \A a \in arts' : a.blob \in DOMAIN blob'
        /\ \A a, b \in arts' : a.blob = b.blob => a = b
        /\ \A u \in Artifacts' : req'[u].new \in DOMAIN blob'
        /\ \A u \in Artifacts' : \A a \in arts' : req'[u].new # a.blob
        /\ \A u, w \in Artifacts' : req'[u].new = req'[w].new => u = w
    BY <1>1, <2>1, <2>5 DEF OwnersOK
  <2>7. ASSUME NEW u \in Requests
        PROVE  /\ \A a \in arts' : a.blob \notin DoomedOf(req'[u])
               /\ \A w \in Artifacts' : req'[w].new \notin DoomedOf(req'[u])
    <3>1. CASE u = t
      BY <2>1, <2>3, <2>4, <3>1
    <3>2. CASE u # t
      BY <1>1, <2>1, <2>2, <2>5, <3>2 DEF OwnersOK
    <3> QED
      BY <3>1, <3>2
  <2> QED
    BY <2>6, <2>7 DEF OwnersOK
<1>10. ContentsOK' /\ RefsOK'
  BY <1>1, <1>4, <1>5, <1>6, <1>7 DEF BlobIInv, ContentsOK, RefsOK
<1>11. AllAttended'
  BY <1>1, <1>4, <1>6 DEF BlobIInv, AllAttended, Attended, Rows
<1> QED
  BY <1>8, <1>9, <1>10, <1>11 DEF BlobIInv

(* A deletion never finds the blob of an artifact; of a run or a request   *)
(* it may, and then raced says so.                                         *)
LEMMA StepDeleteBlob ==
    ASSUME BlobIInv, NEW t \in Requests, DeleteBlob(t) PROVE BlobIInv'
<1> DEFINE b == req[t].blob
<1>1. /\ req[t] \in Kinds /\ req[t].at = "row" /\ DoomedOf(req[t]) = req[t].todo \cup {b}
      /\ DoomedOf(req[t]) \subseteq Nat
  BY KindsAre DEF BlobIInv, BlobTypeOK, DeleteBlob
<1>2. UNCHANGED <<disk, runs, nextRun, nextBlob, arts, halts>> /\ raced \subseteq raced'
  BY DEF DeleteBlob
<1>3. PICK to \in Kinds :
        /\ Moves(t, to) /\ to.at \in {"ask", "file"} /\ to.todo = req[t].todo
        /\ b \in DOMAIN blob /\ NoOtherRow(b) => to.at = "file" /\ to.content = blob[b]
  <2>1. CASE b \in DOMAIN blob /\ NoOtherRow(b)
    <3> DEFINE to == [at |-> "file", todo |-> req[t].todo, content |-> blob[b], last |-> TRUE]
    <3>1. to \in Kinds /\ to.at = "file" /\ to.todo = req[t].todo /\ to.content = blob[b]
      BY <1>1, <2>1, MadeKinds DEF BlobIInv, BlobTypeOK
    <3>2. Moves(t, to)
      BY <2>1 DEF DeleteBlob, NoOtherRow
    <3> QED
      BY <3>1, <3>2
  <2>2. CASE ~(b \in DOMAIN blob /\ NoOtherRow(b))
    <3> DEFINE to == [at |-> "ask", todo |-> req[t].todo]
    <3>1. to \in Kinds /\ to.at = "ask" /\ to.todo = req[t].todo
      BY <1>1, MadeKinds
    <3>2. Moves(t, to)
      BY <2>2 DEF DeleteBlob
    <3> QED
      BY <2>2, <3>1, <3>2
  <2> QED
    BY <2>1, <2>2
<1>4. RefsOf(to) = {} /\ DoomedOf(to) = req[t].todo
  BY <1>3, KindsAre
<1>5. /\ req' \in [Requests -> Kinds] /\ req'[t] = to
      /\ \A u \in Requests \ {t} : req'[u] = req[u]
  BY <1>3, MovesTo DEF BlobIInv
<1>6. /\ DOMAIN blob' = DOMAIN blob \ {b} /\ \A i \in DOMAIN blob' : blob'[i] = blob[i]
      /\ blob' \in [DOMAIN blob' -> Contents]
  <2>1. blob \in [DOMAIN blob -> Contents]
    BY DEF BlobIInv, BlobTypeOK
  <2>2. CASE b \notin DOMAIN blob
    BY <2>1, <2>2 DEF DeleteBlob
  <2>3. CASE b \in DOMAIN blob
    <3>1. blob' = Drop(blob, b)
      BY <2>3 DEF DeleteBlob
    <3> QED
      BY <2>1, <3>1, DropIs DEF Drop
  <2> QED
    BY <2>2, <2>3
<1>7. BlobTypeOK'
  BY <1>1, <1>2, <1>4, <1>5, <1>6 DEF BlobIInv, BlobTypeOK, Ids
<1>8. OwnersOK'
  <2>1. Artifacts' = Artifacts /\ \A u \in Artifacts : req'[u] = req[u]
    BY <1>1, <1>3, <1>5 DEF Artifacts
  <2>2. \A u \in Requests : DoomedOf(req'[u]) \subseteq DoomedOf(req[u])
    BY <1>1, <1>4, <1>5
  <2>3. /\ \A a \in arts : a.blob # b
        /\ \A u \in Artifacts : req[u].new # b
    BY <1>1 DEF BlobIInv, OwnersOK
  <2>4. /\ \A a \in arts' : a.blob \in DOMAIN blob'
        /\ \A u \in Artifacts' : req'[u].new \in DOMAIN blob'
    BY <1>2, <1>6, <2>1, <2>3 DEF BlobIInv, OwnersOK
  <2> QED
    BY <1>2, <2>1, <2>2, <2>4 DEF BlobIInv, OwnersOK
<1>9. ContentsOK'
  BY <1>2, <1>3, <1>5, <1>6 DEF BlobIInv, ContentsOK
<1>10. RefsOK'
  <2>1. ASSUME NEW r \in DOMAIN runs, b \in runs[r].refs PROVE <<"blob", b>> \in raced'
    BY <2>1 DEF DeleteBlob, InUse
  <2>2. ASSUME NEW u \in Requests, b \in RefsOf(req[u]) PROVE <<"blob", b>> \in raced'
    <3>1. b \in HeldBlobs
      BY <2>2 DEF HeldBlobs, RefsOf
    <3> QED
      BY <3>1 DEF DeleteBlob
  <2> QED
    BY <1>2, <1>4, <1>5, <1>6, <2>1, <2>2 DEF BlobIInv, RefsOK
<1>11. AllAttended'
  <2>1. ASSUME NEW c \in disk, Attended(c) PROVE Attended(c)'
    <3>1. CASE \E i \in Rows(c) : i # b
      BY <1>6, <3>1 DEF Attended, Rows
    <3>2. CASE Rows(c) = {b}
      <4>1. b \in DOMAIN blob /\ blob[b] = c
        BY <3>2 DEF Rows
      <4>2. NoOtherRow(b)
        BY <3>2, <4>1 DEF NoOtherRow
      <4> QED
        BY <1>3, <1>5, <4>1, <4>2 DEF Attended
    <3>3. CASE \E u \in Requests : req[u].at \in {"stored", "file"} /\ req[u].content = c
      BY <1>1, <1>5, <3>3 DEF Attended
    <3> QED
      BY <2>1, <3>1, <3>2, <3>3 DEF Attended
  <2> QED
    BY <1>2, <2>1 DEF BlobIInv, AllAttended
<1> QED
  BY <1>7, <1>8, <1>9, <1>10, <1>11 DEF BlobIInv

(* The content goes although somebody may have named it since; then raced  *)
(* says so.                                                                *)
LEMMA StepDeleteFile ==
    ASSUME BlobIInv, NEW t \in Requests, DeleteFile(t) PROVE BlobIInv'
<1> DEFINE c == req[t].content
           to == [at |-> "ask", todo |-> req[t].todo]
<1>1. /\ req[t] \in Kinds /\ req[t].at = "file" /\ DoomedOf(req[t]) = req[t].todo
      /\ DoomedOf(req[t]) \subseteq Nat /\ req[t].last = TRUE
  BY KindsAre DEF BlobIInv, BlobTypeOK, DeleteFile
<1>2. /\ UNCHANGED <<blob, runs, nextRun, nextBlob, arts, halts>> /\ raced \subseteq raced'
      /\ disk' = disk \ {c} /\ Moves(t, to)
      /\ Rows(c) # {} \/ c \in HeldContents => <<"content", c>> \in raced'
  BY <1>1 DEF DeleteFile
<1>3. to \in Kinds /\ to.at = "ask" /\ to.todo = req[t].todo
  BY <1>1, MadeKinds
<1> HIDE DEF to
<1>4. RefsOf(to) = {} /\ DoomedOf(to) = req[t].todo
  BY <1>3, KindsAre
<1>5. /\ req' \in [Requests -> Kinds] /\ req'[t] = to
      /\ \A u \in Requests \ {t} : req'[u] = req[u]
  BY <1>2, <1>3, MovesTo DEF BlobIInv
<1>6. BlobTypeOK'
  BY <1>1, <1>2, <1>4, <1>5 DEF BlobIInv, BlobTypeOK, Ids
<1>7. OwnersOK'
  <2>1. Artifacts' = Artifacts /\ \A u \in Artifacts : req'[u] = req[u]
    BY <1>1, <1>3, <1>5 DEF Artifacts
  <2>2. \A u \in Requests : DoomedOf(req'[u]) \subseteq DoomedOf(req[u])
    BY <1>1, <1>4, <1>5
  <2>3. UNCHANGED <<arts, blob>>
    BY <1>2
  <2>4. /\ \A a \in arts' : a.blob \in DOMAIN blob'
        /\ \A u \in Artifacts' : req'[u].new \in DOMAIN blob'
    BY <2>1, <2>3 DEF BlobIInv, OwnersOK
  <2> QED
    BY <2>1, <2>2, <2>3, <2>4 DEF BlobIInv, OwnersOK
<1>8. ContentsOK'
  <2>1. ASSUME NEW b \in DOMAIN blob PROVE blob[b] \in disk' \/ <<"content", blob[b]>> \in raced'
    <3>1. blob[b] = c => Rows(c) # {}
      BY DEF Rows
    <3> QED
      BY <1>2, <3>1 DEF BlobIInv, ContentsOK
  <2>2. ASSUME NEW u \in Requests, req'[u].at = "stored"
        PROVE  req'[u].content \in disk' \/ <<"content", req'[u].content>> \in raced'
    <3>1. req'[u] = req[u]
      BY <1>3, <1>5, <2>2
    <3>2. req[u].content = c => c \in HeldContents
      BY <2>2, <3>1 DEF HeldContents
    <3> QED
      BY <1>2, <2>2, <3>1, <3>2 DEF BlobIInv, ContentsOK
  <2> QED
    BY <1>2, <2>1, <2>2 DEF ContentsOK
<1>9. RefsOK'
  BY <1>2, <1>4, <1>5 DEF BlobIInv, RefsOK
<1>10. AllAttended'
  BY <1>2, <1>5 DEF BlobIInv, AllAttended, Attended, Rows
<1> QED
  BY <1>6, <1>7, <1>8, <1>9, <1>10 DEF BlobIInv

LEMMA StepBlobCrash == BlobIInv /\ Crash => BlobIInv'
<1> SUFFICES ASSUME BlobIInv, Crash PROVE BlobIInv'
  OBVIOUS
<1>1. Free \in Kinds /\ Free.at = "free" /\ RefsOf(Free) = {} /\ DoomedOf(Free) = {}
  BY MadeKinds, KindsAre
<1>2. \A t \in Requests : req'[t] = Free
  BY DEF Crash
<1>3. req' \in [Requests -> Kinds]
  BY <1>1 DEF Crash
<1>4. /\ halts' \in Nat \ {0}
      /\ UNCHANGED <<disk, blob, runs, nextRun, nextBlob, arts, raced>>
  BY DEF Crash, BlobIInv, BlobTypeOK
<1> QED
  BY <1>1, <1>2, <1>3, <1>4 DEF BlobIInv, BlobTypeOK, Ids, OwnersOK, Artifacts, ContentsOK, RefsOK,
     AllAttended

LEMMA StepBlobs == BlobIInv /\ [BlobNext]_blobVars => BlobIInv'
<1> SUFFICES ASSUME BlobIInv, [BlobNext]_blobVars PROVE BlobIInv'
  OBVIOUS
<1>1. CASE BlobNext
  BY <1>1, StepAddBlob, StepInsertRun, StepAskInUse, StepDeleteBlob, StepDeleteFile, StepUpload,
     StepBeginCreate, StepBeginArtifact, StepBeginRefresh, StepUserInput, StepBeginRetry,
     StepDeleteRun, StepAddArtifact, StepEndRun, StepBlobCrash DEF BlobNext
<1>2. CASE UNCHANGED blobVars
  BY <1>2 DEF blobVars, BlobIInv, BlobTypeOK, Ids, OwnersOK, Artifacts, ContentsOK, RefsOK,
     AllAttended, Attended, Rows
<1> QED
  BY <1>1, <1>2

LEMMA BlobIInvMeansKept == BlobIInv => BlobsKept
<1> SUFFICES ASSUME BlobIInv PROVE BlobsKept
  OBVIOUS
<1>1. ASSUME halts = 0, \A t \in Requests : req[t] = Free, NEW c \in disk
      PROVE  c \in {blob[b] : b \in DOMAIN blob}
  <2>1. Attended(c)
    BY <1>1 DEF BlobIInv, AllAttended
  <2>2. \A t \in Requests : req[t].at = "free"
    BY <1>1, MadeKinds
  <2> QED
    BY <2>1, <2>2 DEF Attended, Rows
<1> QED
  BY <1>1 DEF BlobIInv, ContentsOK, RefsOK, OwnersOK, BlobsKept

THEOREM BlobInvariant == BlobSpec => []BlobIInv
BY InitBlobs, StepBlobs, PTL DEF BlobSpec

(* ci/blobs.py, store.py, api.py: a file that a run or an artifact names   *)
(* can be had, unless it was put or named between the look at what uses it *)
(* and its deletion (artifacts lose none even then); and without a crash   *)
(* no content stays behind.                                                *)
THEOREM BlobsKeptAlways == BlobSpec => []BlobsKept
BY BlobInvariant, BlobIInvMeansKept, PTL

(* The types, and that a blob belongs to one artifact at most, to one      *)
(* upload that is to make it one, or to a deletion.                        *)
THEOREM BlobOwnersAlways == BlobSpec => [](BlobTypeOK /\ OwnersOK)
<1>1. BlobIInv => BlobTypeOK /\ OwnersOK
  BY DEF BlobIInv
<1> QED
  BY <1>1, BlobInvariant, PTL
-----------------------------------------------------------------------------
(* The page.  A list of files names each of a set once.                    *)
Lists(s, S) == /\ s \in Seq(S) /\ Page!Listed(s) = S
               /\ \A i, j \in DOMAIN s : s[i] = s[j] => i = j

LEMMA ListsJoin ==
    ASSUME NEW S, NEW T, NEW a, NEW b, Lists(a, S), Lists(b, T), S \cap T = {}
    PROVE  /\ Lists(a \o b, S \cup T)
           /\ \A i, j \in DOMAIN (a \o b) : (a \o b)[i] \in S /\ (a \o b)[j] \in T => i < j
<1> DEFINE c == a \o b
<1>1. a \in Seq(S \cup T) /\ b \in Seq(S \cup T)
  BY DEF Lists
<1>2. /\ c \in Seq(S \cup T) /\ Len(c) = Len(a) + Len(b) /\ DOMAIN c = 1..Len(a) + Len(b)
      /\ Len(a) \in Nat /\ Len(b) \in Nat /\ DOMAIN a = 1..Len(a) /\ DOMAIN b = 1..Len(b)
  BY <1>1, ConcatProperties, LenProperties
<1>3. \A i \in 1..Len(a) : c[i] = a[i] /\ a[i] \in S
  BY <1>1, <1>2, ConcatProperties, ElementOfSeq DEF Lists
<1>4. \A i \in 1..Len(b) : c[i + Len(a)] = b[i] /\ b[i] \in T
  BY <1>1, <1>2, ConcatProperties, ElementOfSeq DEF Lists
<1>5. \A i \in DOMAIN c : \/ i \in 1..Len(a) /\ c[i] \in S /\ c[i] = a[i]
                          \/ i - Len(a) \in 1..Len(b) /\ c[i] \in T /\ c[i] = b[i - Len(a)]
  <2> SUFFICES ASSUME NEW i \in DOMAIN c, i \notin 1..Len(a)
               PROVE  i - Len(a) \in 1..Len(b) /\ c[i] \in T /\ c[i] = b[i - Len(a)]
    BY <1>3
  <2>1. i - Len(a) \in 1..Len(b) /\ (i - Len(a)) + Len(a) = i
    BY <1>2
  <2> QED
    BY <2>1, <1>4
<1>6. \A i, j \in DOMAIN c : c[i] = c[j] => i = j
  <2> SUFFICES ASSUME NEW i \in DOMAIN c, NEW j \in DOMAIN c, c[i] = c[j] PROVE i = j
    OBVIOUS
  <2>1. CASE c[i] \in S
    BY <2>1, <1>2, <1>5 DEF Lists
  <2>2. CASE c[i] \in T
    <3>1. b[i - Len(a)] = b[j - Len(a)] /\ i - Len(a) \in DOMAIN b /\ j - Len(a) \in DOMAIN b
      BY <2>2, <1>2, <1>5
    <3>2. i - Len(a) = j - Len(a)
      BY <3>1 DEF Lists
    <3> QED
      BY <3>2, <1>2
  <2> QED
    BY <2>1, <2>2, <1>5
<1>7. Page!Listed(c) = S \cup T
  <2>1. \A x \in S : \E i \in DOMAIN c : c[i] = x
    <3> SUFFICES ASSUME NEW x \in S PROVE \E i \in DOMAIN c : c[i] = x
      OBVIOUS
    <3>1. PICK i \in DOMAIN a : a[i] = x
      BY DEF Lists, Page!Listed
    <3> QED
      BY <3>1, <1>2, <1>3
  <2>2. \A x \in T : \E i \in DOMAIN c : c[i] = x
    <3> SUFFICES ASSUME NEW x \in T PROVE \E i \in DOMAIN c : c[i] = x
      OBVIOUS
    <3>1. PICK i \in DOMAIN b : b[i] = x
      BY DEF Lists, Page!Listed
    <3>2. c[i + Len(a)] = x /\ i + Len(a) \in DOMAIN c
      BY <3>1, <1>2, <1>4
    <3> QED
      BY <3>2
  <2>3. \A i \in DOMAIN c : c[i] \in S \cup T
    BY <1>5
  <2> QED
    BY <2>1, <2>2, <2>3 DEF Page!Listed
<1>8. ASSUME NEW i \in DOMAIN c, NEW j \in DOMAIN c, c[i] \in S, c[j] \in T PROVE i < j
  <2>1. i \in 1..Len(a) /\ j - Len(a) \in 1..Len(b)
    BY <1>8, <1>5
  <2> QED
    BY <2>1, <1>2
<1> QED
  BY <1>2, <1>6, <1>7, <1>8 DEF Lists

LEMMA ListsCount ==
    ASSUME NEW S, NEW s, Lists(s, S)
    PROVE  IsFiniteSet(S) /\ Cardinality(S) = Len(s) /\ DOMAIN s = 1..Len(s) /\ Len(s) \in Nat
<1>1. Len(s) \in Nat /\ DOMAIN s = 1..Len(s) /\ s \in [1..Len(s) -> S]
  BY LenProperties DEF Lists
<1>2. \A x \in S : \E i \in 1..Len(s) : s[i] = x
  BY <1>1 DEF Lists, Page!Listed
<1>3. s \in Bijection(1..Len(s), S)
  BY <1>1, <1>2 DEF Lists, Bijection, Injection, Surjection, IsInjective
<1>4. ExistsBijection(1..Len(s), S)
  BY <1>3 DEF ExistsBijection
<1>5. IsFiniteSet(1..Len(s)) /\ Cardinality(1..Len(s)) = IF 1 > Len(s) THEN 0 ELSE Len(s) - 1 + 1
  BY <1>1, FS_Interval
<1>6. Cardinality(1..Len(s)) = Len(s)
  BY <1>1, <1>5
<1> QED
  BY <1>1, <1>4, <1>5, <1>6, FS_Bijection

LEMMA OutputsAre ==
    /\ Page!Outputs.prepare = <<"audio", "segments">> /\ Page!Outputs.transcribe = <<"transcript", "text">>
    /\ Page!Outputs.correct = <<"corrected">> /\ Page!Outputs.align = <<"aligned">>
    /\ Page!Outputs.split = <<"split", "splitSrt">>
    /\ Page!Outputs.translate = <<"translated", "translatedSrt">>
    /\ Page!Outputs.mimo = <<"mimo", "mimoReport", "mimoSrt">> /\ Page!Outputs.gate = <<"gate">>
    /\ Page!Outputs.realign = <<"mimo">>
    /\ Page!Outputs.normalize = <<"normalized", "normalizedSrt">>
    /\ Page!Outputs.export = <<"srt", "vtt">>
BY DEF Page!Outputs

AfterNormalizeFiles == {"srt", "vtt"}
AfterGateFiles      == {"normalized", "normalizedSrt"} \cup AfterNormalizeFiles
AfterTranslateFiles == {"mimo", "mimoReport", "mimoSrt", "gate"} \cup AfterGateFiles
AfterCorrectFiles   == {"aligned", "split", "splitSrt", "translated", "translatedSrt"} \cup AfterTranslateFiles
FirstFiles == {"audio", "segments", "transcript", "text", "corrected"}
PageFiles  == FirstFiles \cup {"journal"} \cup AfterCorrectFiles
EarlierFiles == FirstFiles \cup {"translated", "translatedSrt", "gate"} \cup AfterGateFiles
AgainFiles   == {"journal", "aligned", "split", "splitSrt"}

LEMMA OutputNames ==
    /\ Lists(Page!Outputs.prepare, {"audio", "segments"}) /\ Lists(Page!Outputs.transcribe, {"transcript", "text"})
    /\ Lists(Page!Outputs.correct, {"corrected"}) /\ Lists(Page!Outputs.align, {"aligned"})
    /\ Lists(Page!Outputs.split, {"split", "splitSrt"})
    /\ Lists(Page!Outputs.translate, {"translated", "translatedSrt"})
    /\ Lists(Page!Outputs.mimo, {"mimo", "mimoReport", "mimoSrt"}) /\ Lists(Page!Outputs.gate, {"gate"})
    /\ Lists(Page!Outputs.normalize, {"normalized", "normalizedSrt"})
    /\ Lists(Page!Outputs.export, {"srt", "vtt"})
    /\ Lists(<<"journal">>, {"journal"})
<1>1. ASSUME NEW x PROVE Lists(<<x>>, {x})
  BY DEF Lists, Page!Listed
<1>2. ASSUME NEW x, NEW y, x # y PROVE Lists(<<x, y>>, {x, y})
  BY <1>2 DEF Lists, Page!Listed
<1>3. ASSUME NEW x, NEW y, NEW z, x # y, y # z, x # z PROVE Lists(<<x, y, z>>, {x, y, z})
  BY <1>3 DEF Lists, Page!Listed
<1>4. /\ "transcript" # "text" /\ "split" # "splitSrt" /\ "translated" # "translatedSrt"
      /\ "mimo" # "mimoReport" /\ "mimoReport" # "mimoSrt" /\ "mimo" # "mimoSrt"
      /\ "normalized" # "normalizedSrt" /\ "srt" # "vtt" /\ "audio" # "segments"
  OBVIOUS
<1> QED
  BY <1>1, <1>2, <1>3, <1>4, OutputsAre, SMTT(30)

LEMMA AgainNames == Lists(Page!Again, AgainFiles)
<1>1. /\ {"journal"} \cap {"aligned"} = {} /\ ({"journal"} \cup {"aligned"}) \cap {"split", "splitSrt"} = {}
      /\ ({"journal"} \cup {"aligned"}) \cup {"split", "splitSrt"} = AgainFiles
  BY DEF AgainFiles
<1>2. Lists(<<"journal">> \o Page!Outputs.align, {"journal"} \cup {"aligned"})
  BY <1>1, OutputNames, ListsJoin
<1>3. Lists(Page!Again, ({"journal"} \cup {"aligned"}) \cup {"split", "splitSrt"})
  BY <1>1, <1>2, OutputNames, ListsJoin DEF Page!Again
<1> QED
  BY <1>1, <1>3

LEMMA ListNames ==
    /\ Lists(Page!AfterNormalize, AfterNormalizeFiles)
    /\ Lists(Page!AfterGate, AfterGateFiles)
    /\ Lists(Page!AfterTranslate, AfterTranslateFiles)
    /\ Lists(Page!AfterCorrect, AfterCorrectFiles)
    /\ Lists(Page!InOrder, PageFiles)
    /\ Lists(Page!SplitAgain, EarlierFiles \cup AgainFiles)
    /\ \A i, j \in DOMAIN Page!SplitAgain :
          Page!SplitAgain[i] \in EarlierFiles /\ Page!SplitAgain[j] \in AgainFiles => i < j
<1>1. Lists(Page!AfterNormalize, AfterNormalizeFiles)
  BY OutputNames DEF Page!AfterNormalize, AfterNormalizeFiles
<1>2. Lists(Page!AfterGate, AfterGateFiles)
  <2>1. {"normalized", "normalizedSrt"} \cap AfterNormalizeFiles = {}
    BY DEF AfterNormalizeFiles
  <2> QED
    BY <1>1, <2>1, OutputNames, ListsJoin DEF Page!AfterGate, AfterGateFiles
<1>3. Lists(Page!AfterTranslate, AfterTranslateFiles)
  <2>1. /\ {"mimo", "mimoReport", "mimoSrt"} \cap {"gate"} = {}
        /\ ({"mimo", "mimoReport", "mimoSrt"} \cup {"gate"}) \cap AfterGateFiles = {}
    BY DEF AfterGateFiles, AfterNormalizeFiles
  <2>2. Lists(Page!Outputs.mimo \o Page!Outputs.gate, {"mimo", "mimoReport", "mimoSrt"} \cup {"gate"})
    BY <2>1, OutputNames, ListsJoin
  <2>3. Lists(Page!AfterTranslate, ({"mimo", "mimoReport", "mimoSrt"} \cup {"gate"}) \cup AfterGateFiles)
    BY <1>2, <2>1, <2>2, ListsJoin DEF Page!AfterTranslate
  <2>4. ({"mimo", "mimoReport", "mimoSrt"} \cup {"gate"}) \cup AfterGateFiles = AfterTranslateFiles
    BY DEF AfterTranslateFiles
  <2> QED
    BY <2>3, <2>4
<1>4. Lists(Page!AfterCorrect, AfterCorrectFiles)
  <2> DEFINE A == {"aligned"} \cup {"split", "splitSrt"}
             B == A \cup {"translated", "translatedSrt"}
  <2>1. /\ {"aligned"} \cap {"split", "splitSrt"} = {} /\ A \cap {"translated", "translatedSrt"} = {}
        /\ B \cap AfterTranslateFiles = {} /\ B \cup AfterTranslateFiles = AfterCorrectFiles
    BY DEF AfterCorrectFiles, AfterTranslateFiles, AfterGateFiles, AfterNormalizeFiles
  <2>2. Lists(Page!Outputs.align \o Page!Outputs.split, A)
    BY <2>1, OutputNames, ListsJoin
  <2> HIDE DEF A
  <2>3. Lists(Page!Outputs.align \o Page!Outputs.split \o Page!Outputs.translate, B)
    BY <2>1, <2>2, OutputNames, ListsJoin
  <2> HIDE DEF B
  <2>4. Lists(Page!AfterCorrect, B \cup AfterTranslateFiles)
    BY <1>3, <2>1, <2>3, ListsJoin DEF Page!AfterCorrect
  <2> QED
    BY <2>1, <2>4
<1>5. Lists(Page!Outputs.prepare \o Page!Outputs.transcribe \o Page!Outputs.correct, FirstFiles)
  <2>1. /\ {"audio", "segments"} \cap {"transcript", "text"} = {}
        /\ ({"audio", "segments"} \cup {"transcript", "text"}) \cap {"corrected"} = {}
        /\ ({"audio", "segments"} \cup {"transcript", "text"}) \cup {"corrected"} = FirstFiles
    BY DEF FirstFiles
  <2>2. Lists(Page!Outputs.prepare \o Page!Outputs.transcribe, {"audio", "segments"} \cup {"transcript", "text"})
    BY <2>1, OutputNames, ListsJoin
  <2>3. Lists(Page!Outputs.prepare \o Page!Outputs.transcribe \o Page!Outputs.correct,
              ({"audio", "segments"} \cup {"transcript", "text"}) \cup {"corrected"})
    BY <2>1, <2>2, OutputNames, ListsJoin
  <2> QED
    BY <2>1, <2>3
<1>6. Lists(Page!InOrder, PageFiles)
  <2>1. FirstFiles \cap {"journal"} = {} /\ (FirstFiles \cup {"journal"}) \cap AfterCorrectFiles = {}
    BY DEF FirstFiles, AfterCorrectFiles, AfterTranslateFiles, AfterGateFiles, AfterNormalizeFiles
  <2>2. Lists(Page!Outputs.prepare \o Page!Outputs.transcribe \o Page!Outputs.correct \o <<"journal">>,
              FirstFiles \cup {"journal"})
    BY <1>5, <2>1, OutputNames, ListsJoin
  <2> QED
    BY <1>4, <2>1, <2>2, ListsJoin DEF Page!InOrder, PageFiles
<1>7. Lists(Page!Again, AgainFiles)
  BY AgainNames
<1>8. Lists(Page!Outputs.prepare \o Page!Outputs.transcribe \o Page!Outputs.correct \o Page!Outputs.translate
               \o Page!Outputs.gate \o Page!AfterGate, EarlierFiles)
  <2> DEFINE A == FirstFiles \cup {"translated", "translatedSrt"}
             B == A \cup {"gate"}
  <2>1. /\ FirstFiles \cap {"translated", "translatedSrt"} = {} /\ A \cap {"gate"} = {}
        /\ B \cap AfterGateFiles = {} /\ B \cup AfterGateFiles = EarlierFiles
    BY DEF FirstFiles, EarlierFiles, AfterGateFiles, AfterNormalizeFiles
  <2>2. Lists(Page!Outputs.prepare \o Page!Outputs.transcribe \o Page!Outputs.correct \o Page!Outputs.translate, A)
    BY <1>5, <2>1, OutputNames, ListsJoin
  <2> HIDE DEF A
  <2>3. Lists(Page!Outputs.prepare \o Page!Outputs.transcribe \o Page!Outputs.correct \o Page!Outputs.translate
                 \o Page!Outputs.gate, B)
    BY <2>1, <2>2, OutputNames, ListsJoin
  <2> HIDE DEF B
  <2>4. Lists(Page!Outputs.prepare \o Page!Outputs.transcribe \o Page!Outputs.correct \o Page!Outputs.translate
                 \o Page!Outputs.gate \o Page!AfterGate, B \cup AfterGateFiles)
    BY <1>2, <2>1, <2>3, ListsJoin
  <2> QED
    BY <2>1, <2>4
<1>9. EarlierFiles \cap AgainFiles = {}
  BY DEF EarlierFiles, AgainFiles, FirstFiles, AfterGateFiles, AfterNormalizeFiles
<1>10. /\ Lists(Page!SplitAgain, EarlierFiles \cup AgainFiles)
       /\ \A i, j \in DOMAIN Page!SplitAgain :
             Page!SplitAgain[i] \in EarlierFiles /\ Page!SplitAgain[j] \in AgainFiles => i < j
  <2> DEFINE a == Page!Outputs.prepare \o Page!Outputs.transcribe \o Page!Outputs.correct
                     \o Page!Outputs.translate \o Page!Outputs.gate \o Page!AfterGate
  <2>1. Page!SplitAgain = a \o Page!Again
    BY DEF Page!SplitAgain
  <2>2. Lists(a, EarlierFiles)
    BY <1>8
  <2> HIDE DEF a
  <2> QED
    BY <1>7, <1>9, <2>1, <2>2, ListsJoin
<1> QED
  BY <1>1, <1>2, <1>3, <1>4, <1>6, <1>10

(* Files are numbered by when they were written, each by another number    *)
(* and none by a greater one than there are files.                         *)
PageWork(U, W, D, v) == {<<"unlink", f>> : f \in U} \cup {<<"write", f, x>> : f \in W, x \in Nat}
                       \cup {<<"write", f, v>> : f \in D}
AnyWork == PageWork(PageFiles, PageFiles, {}, 0)

PageTypeOK == /\ files \in [PageFiles -> [at : Nat, of : Nat]]
              /\ jobs \in Nat /\ todo \in Seq(AnyWork)
Ranked == \A f \in PageFiles : /\ files[f].at <= Page!Newest
                               /\ \A g \in PageFiles : Page!Exists(f) /\ f # g => files[f].at # files[g].at

(* A file that is newer than the one it is made from was made from it as   *)
(* it is.  Normalised subtitles are made from MiMo's where there are any;  *)
(* those are known by MiMo's report, for realignment writes them again.    *)
Follows(g, s) == /\ Page!Exists(g) /\ Page!Exists(s) /\ files[g].at > files[s].at
                 => Page!Of(g) = Page!Of(s)
Reviewed == /\ Page!Exists("mimo") /\ Page!Exists("mimoReport") /\ Page!Exists("translated")
            /\ files["mimoReport"].at > files["translated"].at
            => Page!Of("mimo") = Page!Of("translated")
Chain == /\ Follows("split", "aligned") /\ Follows("translated", "split")
         /\ Reviewed /\ Follows("normalized", "mimo")
         /\ ~Page!Exists("mimo") => Follows("normalized", "translated")
         /\ Follows("srt", "normalized") /\ Follows("vtt", "normalized")

(* What a stage is going to write is of the source as it is, which it      *)
(* leaves alone; it reports on MiMo's subtitles when they are written, and *)
(* unlinks no MiMo file before the translations.                           *)
Touched == {todo[i][2] : i \in DOMAIN todo}
Stays(s, v, T) == s \notin T /\ (Page!Exists(s) => Page!Of(s) = v)
Right(g, v, T) ==
    /\ g = "split" => Stays("aligned", v, T)
    /\ g = "translated" => Stays("split", v, T)
    /\ g \in {"mimo", "mimoReport"} => Stays("translated", v, T)
    /\ g = "normalized" => /\ Stays("mimo", v, T) /\ "translated" \notin T
                           /\ ~Page!Exists("mimo") => Stays("translated", v, T)
    /\ g \in {"srt", "vtt"} => Stays("normalized", v, T)
Retimed == Page!Exists("mimo") /\ todo = << <<"write", "mimo", Page!Of("mimo")>> >>
Owed == Retimed \/ \A i \in DOMAIN todo : todo[i][1] = "write" => Right(todo[i][2], todo[i][3], Touched)
Reported(ops) ==
    \A i \in DOMAIN ops : ops[i][1] = "write" /\ ops[i][2] = "mimoReport" =>
        /\ \A j \in DOMAIN ops : ops[j][2] = "mimo" => ops[j] = <<"write", "mimo", ops[i][3]>>
        /\ \/ Page!Exists("mimo") => Page!Of("mimo") = ops[i][3]
           \/ \E j \in 1..i - 1 : ops[j][2] = "mimo"
MimoAfter(ops) ==
    \A i \in DOMAIN ops : ops[i] = <<"unlink", "mimo">> =>
        /\ ~Page!Exists("translated") \/ \E j \in 1..i - 1 : ops[j] = <<"unlink", "translated">>
        /\ \A j \in 1..i - 1 : ops[j][2] = "translated" => ops[j][1] = "unlink"

PageIInv == PageTypeOK /\ Ranked /\ Chain /\ Owed /\ MimoAfter(todo) /\ Reported(todo)
-----------------------------------------------------------------------------
LEMMA Named ==
    /\ Page!Listed(Page!InOrder) = PageFiles /\ IsFiniteSet(PageFiles)
    /\ {"aligned", "split", "translated", "mimo", "mimoReport", "normalized", "srt", "vtt"} \subseteq PageFiles
<1>1. Page!Listed(Page!InOrder) = PageFiles
  BY ListNames DEF Lists
<1>2. IsFiniteSet(PageFiles)
  BY ListNames, ListsCount
<1> QED
  BY <1>1, <1>2 DEF PageFiles, AfterCorrectFiles, AfterTranslateFiles, AfterGateFiles, AfterNormalizeFiles

LEMMA PageCounts == \A S : Page!Cardinality(S) = Cardinality(S)
BY DEF Page!Cardinality, Cardinality

LEMMA NewestIs ==
    ASSUME files \in [PageFiles -> [at : Nat, of : Nat]]
    PROVE  /\ DOMAIN files = PageFiles /\ IsFiniteSet({f \in PageFiles : Page!Exists(f)})
           /\ Page!Newest = Cardinality({f \in PageFiles : Page!Exists(f)}) /\ Page!Newest \in Nat
<1>1. DOMAIN files = PageFiles
  OBVIOUS
<1>2. IsFiniteSet({f \in PageFiles : Page!Exists(f)})
  BY Named, FS_Subset
<1> QED
  BY <1>1, <1>2, FS_CardinalityType, PageCounts DEF Page!Newest

(* Before and after a file is unlinked or written: of the others, which    *)
(* there are, what they are of and which of two is the newer stays.        *)
Others(f) ==
    /\ \A g \in PageFiles \ {f} : /\ Page!Exists(g)' <=> Page!Exists(g)
                                  /\ Page!Of(g)' = Page!Of(g)
    /\ \A g, h \in PageFiles \ {f} :
          Page!Exists(g) /\ Page!Exists(h) =>
             (files'[g].at > files'[h].at <=> files[g].at > files[h].at)

LEMMA WithoutIs ==
    ASSUME PageTypeOK, Ranked, NEW f \in PageFiles
    PROVE  LET w == Page!Without(f)
           IN  /\ w \in [PageFiles -> [at : Nat, of : Nat]]
               /\ w[f] = [at |-> 0, of |-> 0]
               /\ \A g \in PageFiles \ {f} :
                     /\ w[g].of = files[g].of /\ (w[g].at # 0 <=> files[g].at # 0)
                     /\ w[g].at <= Page!Newest
                     /\ Page!Exists(f) => w[g].at <= Page!Newest - 1
               /\ \A g, h \in PageFiles \ {f} :
                     Page!Exists(g) /\ Page!Exists(h) =>
                        /\ w[g].at > w[h].at <=> files[g].at > files[h].at
                        /\ g # h => w[g].at # w[h].at
               /\ \A g, h \in PageFiles \ {f} : Page!Exists(g) /\ g # h => w[g].at # w[h].at
<1> DEFINE w == Page!Without(f)
           r == files[f].at
<1>0. /\ DOMAIN files = PageFiles /\ Page!Newest \in Nat /\ r \in Nat
      /\ \A g \in PageFiles : files[g] \in [at : Nat, of : Nat] /\ files[g].at \in Nat /\ files[g].of \in Nat
  BY NewestIs DEF PageTypeOK
<1>1. w[f] = [at |-> 0, of |-> 0] /\ DOMAIN w = PageFiles
  BY <1>0 DEF Page!Without
<1>2. \A g \in PageFiles \ {f} : w[g] = [files[g] EXCEPT !.at = IF r # 0 /\ @ > r THEN @ - 1 ELSE @]
  BY <1>0 DEF Page!Without, Page!Exists
<1>3. \A g \in PageFiles \ {f} :
          /\ w[g] \in [at : Nat, of : Nat] /\ w[g].of = files[g].of
          /\ w[g].at = IF r # 0 /\ files[g].at > r THEN files[g].at - 1 ELSE files[g].at
  <2> SUFFICES ASSUME NEW g \in PageFiles \ {f}
               PROVE  /\ w[g] \in [at : Nat, of : Nat] /\ w[g].of = files[g].of
                      /\ w[g].at = IF r # 0 /\ files[g].at > r THEN files[g].at - 1 ELSE files[g].at
    OBVIOUS
  <2>1. files[g] \in [at : Nat, of : Nat] /\ files[g].at \in Nat
    BY <1>0
  <2>2. w[g] = [files[g] EXCEPT !.at = IF r # 0 /\ files[g].at > r THEN files[g].at - 1 ELSE files[g].at]
    BY <1>2
  <2>3. (IF r # 0 /\ files[g].at > r THEN files[g].at - 1 ELSE files[g].at) \in Nat
    BY <2>1, <1>0
  <2> HIDE DEF r, w
  <2> QED
    BY <2>1, <2>2, <2>3
<1>4. w \in [PageFiles -> [at : Nat, of : Nat]]
  <2>1. \A g \in PageFiles : w[g] \in [at : Nat, of : Nat]
    BY <1>1, <1>3
  <2>2. w = [g \in PageFiles |-> w[g]]
    BY <1>0 DEF Page!Without
  <2> QED
    BY <2>1, <2>2
<1>5. \A g \in PageFiles : files[g].at <= Page!Newest
  BY DEF Ranked
<1>6. \A g, h \in PageFiles : files[g].at # 0 /\ g # h => files[g].at # files[h].at
  BY DEF Ranked, Page!Exists
<1> HIDE DEF w
<1>7. \A g \in PageFiles \ {f} :
          /\ w[g].at # 0 <=> files[g].at # 0
          /\ w[g].at <= Page!Newest
          /\ r # 0 => w[g].at <= Page!Newest - 1
  <2> SUFFICES ASSUME NEW g \in PageFiles \ {f}
               PROVE  /\ w[g].at # 0 <=> files[g].at # 0
                      /\ w[g].at <= Page!Newest
                      /\ r # 0 => w[g].at <= Page!Newest - 1
    OBVIOUS
  <2>1. /\ files[g].at \in Nat /\ files[g].at <= Page!Newest /\ (r # 0 => files[g].at # r) /\ r <= Page!Newest
        /\ w[g].at = IF r # 0 /\ files[g].at > r THEN files[g].at - 1 ELSE files[g].at
    BY <1>0, <1>3, <1>5, <1>6
  <2> QED
    BY <2>1, <1>0
<1>8. \A g, h \in PageFiles \ {f} : files[g].at # 0 =>
          /\ files[h].at # 0 => (w[g].at > w[h].at <=> files[g].at > files[h].at)
          /\ g # h => w[g].at # w[h].at
  <2> SUFFICES ASSUME NEW g \in PageFiles \ {f}, NEW h \in PageFiles \ {f}, files[g].at # 0
               PROVE  /\ files[h].at # 0 => (w[g].at > w[h].at <=> files[g].at > files[h].at)
                      /\ g # h => w[g].at # w[h].at
    OBVIOUS
  <2>1. /\ files[g].at \in Nat /\ files[h].at \in Nat /\ (r # 0 => files[g].at # r /\ files[h].at # r)
        /\ w[g].at = IF r # 0 /\ files[g].at > r THEN files[g].at - 1 ELSE files[g].at
        /\ w[h].at = IF r # 0 /\ files[h].at > r THEN files[h].at - 1 ELSE files[h].at
        /\ g # h => files[g].at # files[h].at
    BY <1>0, <1>3, <1>6
  <2> QED
    BY <2>1, <1>0
<1> QED
  BY <1>1, <1>3, <1>4, <1>7, <1>8 DEF w, Page!Exists

LEMMA UnlinkStep ==
    ASSUME PageTypeOK, Ranked, NEW f \in PageFiles, files' = Page!Without(f)
    PROVE  /\ files' \in [PageFiles -> [at : Nat, of : Nat]] /\ Ranked'
           /\ Others(f) /\ ~Page!Exists(f)'
<1>1. files' \in [PageFiles -> [at : Nat, of : Nat]]
  BY WithoutIs
<1>2. Others(f) /\ ~Page!Exists(f)'
  BY WithoutIs DEF Others, Page!Exists, Page!Of
<1> DEFINE E == {g \in PageFiles : Page!Exists(g)}
           N == {g \in PageFiles : Page!Exists(g)'}
<1>3. Page!Newest = Cardinality(E) /\ IsFiniteSet(E) /\ Page!Newest \in Nat
  BY NewestIs DEF PageTypeOK
<1>4. Page!Newest' = Cardinality(N)
  BY <1>1, PageCounts DEF Page!Newest
<1>5. N = E \ {f}
  BY <1>2 DEF Others
<1>6. Page!Newest' = IF Page!Exists(f) THEN Page!Newest - 1 ELSE Page!Newest
  BY <1>3, <1>4, <1>5, FS_RemoveElement
<1>7. \A g \in PageFiles : files'[g].at <= Page!Newest'
  <2> SUFFICES ASSUME NEW g \in PageFiles PROVE files'[g].at <= Page!Newest'
    OBVIOUS
  <2>1. CASE g = f
    <3>1. files'[g].at = 0 /\ (Page!Exists(f) => E # {})
      BY <2>1, WithoutIs
    <3>2. Page!Exists(f) => Page!Newest # 0
      BY <3>1, <1>3, FS_EmptySet
    <3> QED
      BY <3>1, <3>2, <1>3, <1>6
  <2>2. CASE g # f
    BY <2>2, <1>6, WithoutIs
  <2> QED
    BY <2>1, <2>2
<1>8. \A g, h \in PageFiles : Page!Exists(g)' /\ g # h => files'[g].at # files'[h].at
  <2> SUFFICES ASSUME NEW g \in PageFiles, NEW h \in PageFiles, Page!Exists(g)', g # h
               PROVE  files'[g].at # files'[h].at
    OBVIOUS
  <2>1. g # f /\ Page!Exists(g) /\ files'[g].at # 0
    BY <1>2 DEF Others, Page!Exists
  <2>2. CASE h = f
    BY <2>1, <2>2, WithoutIs
  <2>3. CASE h # f
    BY <2>1, <2>3, WithoutIs
  <2> QED
    BY <2>2, <2>3
<1> QED
  BY <1>1, <1>2, <1>7, <1>8 DEF Ranked

LEMMA WriteStep ==
    ASSUME PageTypeOK, Ranked, NEW f \in PageFiles, NEW v \in Nat,
           files' = [Page!Without(f) EXCEPT ![f] =
                       [at |-> IF Page!Exists(f) THEN Page!Newest ELSE Page!Newest + 1, of |-> v]]
    PROVE  /\ files' \in [PageFiles -> [at : Nat, of : Nat]] /\ Ranked'
           /\ Others(f) /\ Page!Exists(f)' /\ Page!Of(f)' = v
           /\ \A g \in PageFiles \ {f} : ~(files'[g].at > files'[f].at)
<1> DEFINE n == IF Page!Exists(f) THEN Page!Newest ELSE Page!Newest + 1
           w == Page!Without(f)
           E == {g \in PageFiles : Page!Exists(g)}
           N == {g \in PageFiles : Page!Exists(g)'}
<1>1. Page!Newest = Cardinality(E) /\ IsFiniteSet(E) /\ Page!Newest \in Nat
  BY NewestIs DEF PageTypeOK
<1>2. n \in Nat /\ n # 0
  <2>1. Page!Exists(f) => E # {}
    OBVIOUS
  <2>2. Page!Exists(f) => Page!Newest # 0
    BY <2>1, <1>1, FS_EmptySet
  <2> QED
    BY <2>2, <1>1
<1>3. w \in [PageFiles -> [at : Nat, of : Nat]]
  BY WithoutIs
<1>4. /\ files' \in [PageFiles -> [at : Nat, of : Nat]]
      /\ files'[f] = [at |-> n, of |-> v] /\ \A g \in PageFiles \ {f} : files'[g] = w[g]
  <2> HIDE DEF n, w
  <2>1. files' = [w EXCEPT ![f] = [at |-> n, of |-> v]]
    BY DEF n, w
  <2>2. [at |-> n, of |-> v] \in [at : Nat, of : Nat]
    BY <1>2
  <2>3. files' \in [PageFiles -> [at : Nat, of : Nat]]
    BY <1>3, <2>1, <2>2
  <2>4. files'[f] = [at |-> n, of |-> v]
    BY <1>3, <2>1
  <2>5. \A g \in PageFiles \ {f} : files'[g] = w[g]
    BY <1>3, <2>1
  <2> QED
    BY <2>3, <2>4, <2>5
<1>5. Others(f) /\ Page!Exists(f)' /\ Page!Of(f)' = v
  <2> HIDE DEF n
  <2> QED
    BY <1>2, <1>4, WithoutIs DEF Others, Page!Exists, Page!Of
<1>6. Page!Newest' = Cardinality(N)
  BY <1>4, PageCounts DEF Page!Newest
<1>7. N = E \cup {f}
  BY <1>5 DEF Others
<1>8. Page!Newest' = n
  <2>1. Cardinality(E \cup {f}) = IF f \in E THEN Cardinality(E) ELSE Cardinality(E) + 1
    BY <1>1, FS_AddElement
  <2>2. f \in E <=> Page!Exists(f)
    OBVIOUS
  <2> QED
    BY <1>1, <1>6, <1>7, <2>1, <2>2
<1>9. \A g \in PageFiles \ {f} : w[g].at \in Nat /\ w[g].at < n
  BY <1>1, <1>3, WithoutIs
<1> HIDE DEF n
<1>10. \A g \in PageFiles \ {f} : files'[g].at \in Nat /\ files'[g].at < files'[f].at
  BY <1>4, <1>9
<1>11. \A g \in PageFiles : files'[g].at <= Page!Newest'
  BY <1>2, <1>4, <1>8, <1>9
<1>12. \A g, h \in PageFiles : Page!Exists(g)' /\ g # h => files'[g].at # files'[h].at
  <2> SUFFICES ASSUME NEW g \in PageFiles, NEW h \in PageFiles, Page!Exists(g)', g # h
               PROVE  files'[g].at # files'[h].at
    OBVIOUS
  <2>1. CASE g = f \/ h = f
    BY <2>1, <1>2, <1>4, <1>10
  <2>2. CASE g # f /\ h # f
    <3>1. Page!Exists(g) /\ files'[g] = w[g] /\ files'[h] = w[h]
      BY <2>2, <1>4, <1>5 DEF Others
    <3> QED
      BY <2>2, <3>1, WithoutIs
  <2> QED
    BY <2>1, <2>2
<1> QED
  BY <1>2, <1>4, <1>5, <1>10, <1>11, <1>12 DEF Ranked

LEMMA ChainUnlinked ==
    ASSUME Chain, NEW f \in PageFiles, Others(f), ~Page!Exists(f)',
           f = "mimo" => ~Page!Exists("translated")
    PROVE  Chain'
<1>1. ASSUME NEW g \in PageFiles, NEW s \in PageFiles, Follows(g, s) PROVE Follows(g, s)'
  BY <1>1 DEF Follows, Others
<1>2. ~Page!Exists("mimo")' => Follows("normalized", "translated")'
  <2>1. CASE f = "mimo"
    BY <2>1, Named DEF Follows, Others
  <2>2. CASE f # "mimo"
    BY <1>1, <2>2, Named DEF Chain, Others
  <2> QED
    BY <2>1, <2>2
<1>3. Reviewed'
  BY Named DEF Chain, Reviewed, Others
<1> QED
  BY <1>1, <1>2, <1>3, Named DEF Chain

LEMMA ChainWritten ==
    ASSUME Chain, NEW f \in PageFiles, NEW v, NEW T, Others(f), Page!Exists(f)', Page!Of(f)' = v,
           \A g \in PageFiles \ {f} : ~(files'[g].at > files'[f].at),
           Right(f, v, T) \/ (f = "mimo" /\ Page!Exists("mimo") /\ Page!Of("mimo") = v),
           f = "mimoReport" /\ Page!Exists("mimo") => Page!Of("mimo") = v
    PROVE  Chain'
<1>1. ASSUME NEW g \in PageFiles \ {f}, NEW s \in PageFiles, Follows(g, s) PROVE Follows(g, s)'
  BY <1>1 DEF Follows, Others
<1>2. ASSUME NEW s \in PageFiles \ {f}, Stays(s, v, T) PROVE Follows(f, s)'
  BY <1>2 DEF Follows, Others, Stays
<1>3. /\ Follows("split", "aligned")' /\ Follows("translated", "split")'
      /\ Follows("normalized", "mimo")'
      /\ Follows("srt", "normalized")' /\ Follows("vtt", "normalized")'
  <2>1. CASE Right(f, v, T)
    BY <1>1, <1>2, <2>1, Named DEF Chain, Right
  <2>2. CASE f = "mimo"
    <3>1. Follows("normalized", "mimo")'
      BY <2>2, Named DEF Follows
    <3> QED
      BY <1>1, <2>2, <3>1, Named DEF Chain
  <2> QED
    BY <2>1, <2>2
<1>4. ~Page!Exists("mimo")' => Follows("normalized", "translated")'
  <2> SUFFICES ASSUME ~Page!Exists("mimo")' PROVE Follows("normalized", "translated")'
    OBVIOUS
  <2>1. f # "mimo" /\ ~Page!Exists("mimo")
    BY Named DEF Others
  <2> QED
    BY <1>1, <1>2, <2>1, Named DEF Chain, Right
<1>5. Reviewed'
  <2> SUFFICES ASSUME Page!Exists("mimo")', Page!Exists("mimoReport")', Page!Exists("translated")',
                      files'["mimoReport"].at > files'["translated"].at
               PROVE  Page!Of("mimo")' = Page!Of("translated")'
    BY DEF Reviewed
  <2>1. f # "translated"
    BY Named
  <2>2. Page!Exists("translated") /\ Page!Of("translated")' = Page!Of("translated")
    BY <2>1, Named DEF Others
  <2>3. f # "mimoReport" => Reviewed /\ Page!Exists("mimoReport") /\ files["mimoReport"].at > files["translated"].at
    BY <2>1, <2>2, Named DEF Chain, Others
  <2>4. CASE f = "mimo"
    <3>1. CASE Right(f, v, T)
      BY <2>2, <2>4, <3>1 DEF Right, Stays
    <3>2. CASE Page!Exists("mimo") /\ Page!Of("mimo") = v
      BY <2>2, <2>3, <2>4, <3>2 DEF Reviewed
    <3> QED
      BY <3>1, <3>2
  <2>5. CASE f = "mimoReport"
    <3>1. Page!Exists("mimo") /\ Page!Of("mimo")' = Page!Of("mimo") /\ Page!Of("translated") = v
      BY <2>2, <2>5, Named DEF Others, Right, Stays
    <3> QED
      BY <2>2, <2>5, <3>1
  <2>6. CASE f \notin {"mimo", "mimoReport"}
    <3>1. Page!Exists("mimo") /\ Page!Of("mimo")' = Page!Of("mimo")
      BY <2>6, Named DEF Others
    <3> QED
      BY <2>2, <2>3, <2>6, <3>1 DEF Reviewed
  <2> QED
    BY <2>4, <2>5, <2>6
<1> QED
  BY <1>3, <1>4, <1>5 DEF Chain

(* The next of the writes and unlinks.                                     *)
LEMMA PageWorks == ASSUME PageIInv, Page!Work PROVE PageIInv'
<1> DEFINE op == Head(todo)
<1>1. /\ todo \in Seq(AnyWork) /\ todo # <<>> /\ op = todo[1] /\ op \in AnyWork
      /\ Len(todo) \in Nat /\ DOMAIN todo = 1..Len(todo) /\ 1 \in DOMAIN todo
  BY HeadTailProperties, LenProperties, EmptySeq DEF PageIInv, PageTypeOK, Page!Work
<1>2. /\ todo' \in Seq(AnyWork) /\ Len(todo') \in Nat /\ DOMAIN todo' = 1..Len(todo') /\ Len(todo') = Len(todo) - 1
      /\ \A i \in DOMAIN todo' : i + 1 \in DOMAIN todo /\ todo'[i] = todo[i + 1]
  <2>1. todo' = Tail(todo) /\ todo' \in Seq(AnyWork) /\ Len(todo') = Len(todo) - 1
    BY <1>1, HeadTailProperties DEF Page!Work
  <2>2. Len(todo') \in Nat /\ DOMAIN todo' = 1..Len(todo')
    BY <2>1, LenProperties
  <2>3. \A i \in 1..Len(todo') : todo'[i] = todo[i + 1]
    BY <1>1, <2>1, HeadTailProperties
  <2> QED
    BY <1>1, <2>1, <2>2, <2>3
<1>3. Touched' \subseteq Touched /\ op[2] \in Touched
  BY <1>1, <1>2 DEF Touched
<1>4. PICK f \in PageFiles, v \in Nat : op = <<"unlink", f>> \/ op = <<"write", f, v>>
  BY <1>1 DEF AnyWork, PageWork
<1>5. op[2] = f /\ op[1] \in {"unlink", "write"}
  BY <1>4
<1>6. PageTypeOK /\ Ranked /\ Chain /\ Owed /\ MimoAfter(todo) /\ Reported(todo)
  BY DEF PageIInv
<1>7. /\ files' \in [PageFiles -> [at : Nat, of : Nat]] /\ Ranked' /\ Chain' /\ Others(f)
      /\ op[1] = "unlink" => ~Page!Exists(f)'
      /\ op[1] = "write" => Page!Of(f)' = v
  <2>1. CASE op = <<"unlink", f>>
    <3>1. files' = Page!Without(f)
      BY <2>1 DEF Page!Work
    <3>2. f = "mimo" => ~Page!Exists("translated")
      BY <1>1, <1>6, <2>1 DEF MimoAfter
    <3>3. /\ files' \in [PageFiles -> [at : Nat, of : Nat]] /\ Ranked'
          /\ Others(f) /\ ~Page!Exists(f)'
      BY <1>6, <3>1, UnlinkStep
    <3>4. Chain'
      BY <1>6, <3>2, <3>3, ChainUnlinked
    <3> QED
      BY <2>1, <3>3, <3>4
  <2>2. CASE op = <<"write", f, v>>
    <3>1. files' = [Page!Without(f) EXCEPT ![f] =
                       [at |-> IF Page!Exists(f) THEN Page!Newest ELSE Page!Newest + 1, of |-> v]]
      BY <2>2 DEF Page!Work
    <3>2. /\ Right(f, v, Touched) \/ (f = "mimo" /\ Page!Exists("mimo") /\ Page!Of("mimo") = v)
          /\ f = "mimoReport" /\ Page!Exists("mimo") => Page!Of("mimo") = v
      <4>1. todo[1][1] = "write" /\ todo[1][2] = f /\ todo[1][3] = v
        BY <1>1, <2>2
      <4>2. Retimed => f = "mimo" /\ Page!Exists("mimo") /\ Page!Of("mimo") = v
        BY <4>1 DEF Retimed
      <4>3. ~Retimed => Right(f, v, Touched)
        BY <1>1, <1>6, <4>1 DEF Owed
      <4>4. f = "mimoReport" /\ Page!Exists("mimo") => Page!Of("mimo") = v
        BY <1>1, <1>6, <4>1 DEF Reported
      <4> QED
        BY <4>2, <4>3, <4>4
    <3>3. /\ files' \in [PageFiles -> [at : Nat, of : Nat]] /\ Ranked'
          /\ Others(f) /\ Page!Exists(f)' /\ Page!Of(f)' = v
          /\ \A g \in PageFiles \ {f} : ~(files'[g].at > files'[f].at)
      BY <1>6, <3>1, WriteStep
    <3>4. Chain'
      BY <1>6, <3>2, <3>3, ChainWritten
    <3> QED
      BY <2>2, <3>3, <3>4
  <2> QED
    BY <1>4, <2>1, <2>2
<1>8. Owed'
  <2>0. CASE Retimed
    <3>1. DOMAIN todo' = {}
      BY <1>2, <2>0 DEF Retimed
    <3> QED
      BY <3>1 DEF Owed
  <2>1. ASSUME NEW s \in PageFiles, NEW x, Stays(s, x, Touched) PROVE Stays(s, x, Touched)'
    BY <1>3, <1>5, <1>7, <2>1 DEF Stays, Others
  <2>2. ASSUME NEW g, NEW x, Right(g, x, Touched) PROVE Right(g, x, Touched)'
    <3>1. g = "normalized" => "mimo" # f /\ (Page!Exists("mimo")' <=> Page!Exists("mimo"))
      BY <1>3, <1>5, <1>7, <2>2, Named DEF Right, Stays, Others
    <3>2. "translated" \notin Touched => "translated" \notin Touched'
      BY <1>3
    <3> QED
      BY <2>1, <2>2, <3>1, <3>2, Named DEF Right
  <2>3. ASSUME ~Retimed, NEW i \in DOMAIN todo', todo'[i][1] = "write"
        PROVE  \E g, x : g = todo'[i][2] /\ x = todo'[i][3] /\ Right(g, x, Touched)'
    <3>1. Right(todo[i + 1][2], todo[i + 1][3], Touched)
      BY <1>2, <1>6, <2>3 DEF Owed
    <3>2. \E g, x : g = todo[i + 1][2] /\ x = todo[i + 1][3] /\ Right(g, x, Touched)'
      BY <2>2, <3>1
    <3> QED
      BY <1>2, <3>2
  <2> QED
    BY <2>0, <2>3 DEF Owed, Right, Stays
<1>9. MimoAfter(todo)'
  <2> SUFFICES ASSUME NEW i \in DOMAIN todo', todo'[i] = <<"unlink", "mimo">>
               PROVE  /\ ~Page!Exists("translated")' \/ \E j \in 1..i - 1 : todo'[j] = <<"unlink", "translated">>
                      /\ \A j \in 1..i - 1 : todo'[j][2] = "translated" => todo'[j][1] = "unlink"
    BY DEF MimoAfter
  <2>1. i \in Nat /\ i # 0 /\ i + 1 \in DOMAIN todo /\ todo[i + 1] = <<"unlink", "mimo">> /\ (i + 1) - 1 = i
    BY <1>2
  <2>2. /\ ~Page!Exists("translated") \/ \E j \in 1..i : todo[j] = <<"unlink", "translated">>
        /\ \A j \in 1..i : todo[j][2] = "translated" => todo[j][1] = "unlink"
    BY <1>6, <2>1 DEF MimoAfter
  <2>3. \A j \in 1..i - 1 : j \in DOMAIN todo' /\ todo'[j] = todo[j + 1] /\ j + 1 \in 1..i
    <3> SUFFICES ASSUME NEW j \in 1..i - 1
                 PROVE  j \in DOMAIN todo' /\ todo'[j] = todo[j + 1] /\ j + 1 \in 1..i
      OBVIOUS
    <3>1. i \in 1..Len(todo')
      BY <1>2
    <3>2. j \in 1..Len(todo') /\ j + 1 \in 1..i
      BY <1>2, <3>1
    <3> QED
      BY <1>2, <3>2
  <2>4. ASSUME NEW j \in 1..i - 1, todo'[j][2] = "translated" PROVE todo'[j][1] = "unlink"
    BY <2>2, <2>3, <2>4
  <2>5. ~Page!Exists("translated")' \/ \E j \in 1..i - 1 : todo'[j] = <<"unlink", "translated">>
    <3>1. f = "translated" => ~Page!Exists("translated")'
      BY <1>1, <1>5, <1>7, <2>1, <2>2
    <3>2. CASE ~Page!Exists("translated")
      BY <1>7, <3>1, <3>2, Named DEF Others
    <3>3. ASSUME NEW j \in 1..i, todo[j] = <<"unlink", "translated">>
         PROVE  ~Page!Exists("translated")' \/ \E k \in 1..i - 1 : todo'[k] = <<"unlink", "translated">>
      <4>1. CASE j = 1
        BY <1>1, <1>5, <3>1, <3>3, <4>1
      <4>2. CASE j # 1
        <5>1. j - 1 \in 1..i - 1 /\ (j - 1) + 1 = j
          BY <2>1, <4>2
        <5> QED
          BY <2>3, <3>3, <5>1
      <4> QED
        BY <4>1, <4>2
    <3> QED
      BY <2>2, <3>2, <3>3
  <2> QED
    BY <2>4, <2>5
<1>10. PageTypeOK'
  BY <1>2, <1>6, <1>7 DEF PageTypeOK, Page!Work
<1>11. Reported(todo)'
  <2> SUFFICES ASSUME NEW i \in DOMAIN todo', todo'[i][1] = "write", todo'[i][2] = "mimoReport"
               PROVE  /\ \A j \in DOMAIN todo' : todo'[j][2] = "mimo" => todo'[j] = <<"write", "mimo", todo'[i][3]>>
                      /\ \/ Page!Exists("mimo")' => Page!Of("mimo")' = todo'[i][3]
                         \/ \E j \in 1..i - 1 : todo'[j][2] = "mimo"
    BY DEF Reported
  <2>1. i \in Nat /\ i + 1 \in DOMAIN todo /\ todo[i + 1] = todo'[i] /\ (i + 1) - 1 = i
    BY <1>2
  <2> DEFINE x == todo'[i][3]
  <2>2. /\ \A j \in DOMAIN todo : todo[j][2] = "mimo" => todo[j] = <<"write", "mimo", x>>
        /\ \/ Page!Exists("mimo") => Page!Of("mimo") = x
           \/ \E j \in 1..i : todo[j][2] = "mimo"
    BY <1>6, <2>1 DEF Reported
  <2> HIDE DEF x
  <2>3. \A j \in DOMAIN todo' : todo'[j][2] = "mimo" => todo'[j] = <<"write", "mimo", x>>
    BY <1>2, <2>2
  <2>4. f = "mimo" => Page!Of("mimo")' = x
    <3>1. f = "mimo" => op = <<"write", "mimo", x>>
      BY <1>1, <1>5, <2>2
    <3>2. f = "mimo" => op[1] = "write" /\ v = x
      BY <1>4, <3>1
    <3> QED
      BY <1>7, <3>2
  <2>5. f # "mimo" => (Page!Exists("mimo")' <=> Page!Exists("mimo")) /\ Page!Of("mimo")' = Page!Of("mimo")
    BY <1>7, Named DEF Others
  <2>6. CASE Page!Exists("mimo") => Page!Of("mimo") = x
    BY <2>3, <2>4, <2>5, <2>6 DEF x
  <2>7. ASSUME NEW j \in 1..i, todo[j][2] = "mimo"
        PROVE  \/ Page!Exists("mimo")' => Page!Of("mimo")' = x
               \/ \E k \in 1..i - 1 : todo'[k][2] = "mimo"
    <3>1. CASE j = 1
      BY <1>1, <1>5, <2>4, <2>7, <3>1
    <3>2. CASE j # 1
      <4>1. j - 1 \in 1..i - 1 /\ (j - 1) + 1 = j /\ j - 1 \in DOMAIN todo'
        BY <1>2, <2>1, <3>2
      <4>2. todo'[j - 1][2] = "mimo"
        BY <1>2, <2>7, <4>1
      <4> QED
        BY <4>1, <4>2
    <3> QED
      BY <3>1, <3>2
  <2> QED
    BY <2>2, <2>3, <2>6, <2>7 DEF x
<1> QED
  BY <1>6, <1>7, <1>8, <1>9, <1>10, <1>11 DEF PageIInv
-----------------------------------------------------------------------------
(* What a stage is going to do, put together from lists of files.          *)
LEMMA UnlinkWork ==
    ASSUME NEW U, NEW W, NEW D, NEW v, NEW fs \in Seq(U)
    PROVE  /\ Page!Unlink(fs) \in Seq(PageWork(U, W, D, v))
           /\ DOMAIN Page!Unlink(fs) = DOMAIN fs /\ Len(fs) \in Nat /\ DOMAIN fs = 1..Len(fs)
           /\ \A i \in DOMAIN fs : Page!Unlink(fs)[i] = <<"unlink", fs[i]>>
<1>1. Len(fs) \in Nat /\ DOMAIN fs = 1..Len(fs) /\ \A i \in DOMAIN fs : fs[i] \in U
  BY LenProperties, ElementOfSeq
<1>2. \A i \in DOMAIN fs : <<"unlink", fs[i]>> \in PageWork(U, W, D, v)
  BY <1>1 DEF PageWork
<1>3. Page!Unlink(fs) \in [1..Len(fs) -> PageWork(U, W, D, v)]
  BY <1>1, <1>2 DEF Page!Unlink
<1> QED
  BY <1>1, <1>3 DEF Page!Unlink

LEMMA WriteWork ==
    ASSUME NEW U, NEW W, NEW D, NEW v, NEW x, NEW fs,
           (fs \in Seq(D) /\ x = v) \/ (fs \in Seq(W) /\ x \in Nat)
    PROVE  Page!Write(fs, x) \in Seq(PageWork(U, W, D, v))
<1>1. Len(fs) \in Nat /\ DOMAIN fs = 1..Len(fs)
  BY LenProperties
<1>2. \A i \in DOMAIN fs : <<"write", fs[i], x>> \in PageWork(U, W, D, v)
  <2>1. CASE fs \in Seq(D) /\ x = v
    <3>1. \A i \in DOMAIN fs : fs[i] \in D
      BY <1>1, <2>1, ElementOfSeq
    <3> QED
      BY <2>1, <3>1 DEF PageWork
  <2>2. CASE fs \in Seq(W) /\ x \in Nat
    <3>1. \A i \in DOMAIN fs : fs[i] \in W
      BY <1>1, <2>2, ElementOfSeq
    <3> QED
      BY <2>2, <3>1 DEF PageWork
  <2> QED
    BY <2>1, <2>2
<1>3. Page!Write(fs, x) \in [1..Len(fs) -> PageWork(U, W, D, v)]
  BY <1>1, <1>2 DEF Page!Write
<1> QED
  BY <1>1, <1>3

LEMMA NoWork == ASSUME NEW S PROVE <<>> \in Seq(S)
OBVIOUS

(* A plan that unlinks MiMo's subtitles unlinks the translations first.    *)
Led(ops) == \A i \in DOMAIN ops : ops[i] = <<"unlink", "mimo">> =>
                /\ \E j \in 1..i - 1 : ops[j] = <<"unlink", "translated">>
                /\ \A j \in 1..i - 1 : ops[j][2] = "translated" => ops[j][1] = "unlink"
Leading(fs) == \A i \in DOMAIN fs : fs[i] = "mimo" => \E j \in 1..i - 1 : fs[j] = "translated"

LEMMA LeadingJoin ==
    ASSUME NEW S, NEW a \in Seq(S), NEW b \in Seq(S), "mimo" \notin Page!Listed(a),
           "translated" \in Page!Listed(a) \/ Leading(b)
    PROVE  Leading(a \o b)
<1> DEFINE c == a \o b
<1>1. /\ Len(a) \in Nat /\ Len(b) \in Nat /\ DOMAIN a = 1..Len(a) /\ DOMAIN b = 1..Len(b)
      /\ DOMAIN c = 1..Len(a) + Len(b)
      /\ \A i \in 1..Len(a) + Len(b) : c[i] = IF i <= Len(a) THEN a[i] ELSE b[i - Len(a)]
  <2>1. c \in Seq(S) /\ Len(c) = Len(a) + Len(b)
    BY ConcatProperties
  <2> QED
    BY <2>1, ConcatProperties, LenProperties
<1>2. \A k \in 1..Len(a) : k \in DOMAIN c /\ c[k] = a[k] /\ a[k] # "mimo"
  BY <1>1 DEF Page!Listed
<1> SUFFICES ASSUME NEW i \in DOMAIN c, c[i] = "mimo" PROVE \E j \in 1..i - 1 : c[j] = "translated"
  BY DEF Leading
<1>3. i > Len(a) /\ i \in Nat /\ i - Len(a) \in DOMAIN b /\ b[i - Len(a)] = "mimo"
  BY <1>1, <1>2
<1>4. CASE "translated" \in Page!Listed(a)
  <2>1. PICK k \in 1..Len(a) : a[k] = "translated"
    BY <1>1, <1>4 DEF Page!Listed
  <2>2. k \in 1..i - 1 /\ c[k] = "translated"
    BY <1>1, <1>2, <1>3, <2>1
  <2> QED
    BY <2>2
<1>5. CASE Leading(b)
  <2>1. PICK k \in 1..(i - Len(a)) - 1 : b[k] = "translated"
    BY <1>3, <1>5 DEF Leading
  <2>2. k + Len(a) \in 1..i - 1 /\ k + Len(a) \in 1..Len(a) + Len(b) /\ ~(k + Len(a) <= Len(a)) /\ (k + Len(a)) - Len(a) = k
    BY <1>1, <1>3, <2>1
  <2>3. c[k + Len(a)] = "translated"
    BY <1>1, <2>1, <2>2
  <2> QED
    BY <2>2, <2>3
<1> QED
  BY <1>4, <1>5

LEMMA LeadingUnlinked ==
    ASSUME NEW S, NEW fs \in Seq(S), Leading(fs)
    PROVE  Led(Page!Unlink(fs))
<1> DEFINE u == Page!Unlink(fs)
<1>1. /\ DOMAIN u = DOMAIN fs /\ Len(fs) \in Nat /\ DOMAIN fs = 1..Len(fs)
      /\ \A i \in DOMAIN fs : u[i] = <<"unlink", fs[i]>>
  BY UnlinkWork
<1> HIDE DEF u
<1> SUFFICES ASSUME NEW i \in DOMAIN u, u[i] = <<"unlink", "mimo">>
             PROVE  /\ \E j \in 1..i - 1 : u[j] = <<"unlink", "translated">>
                    /\ \A j \in 1..i - 1 : u[j][2] = "translated" => u[j][1] = "unlink"
  BY DEF Led, u
<1>2. fs[i] = "mimo" /\ i \in 1..Len(fs)
  BY <1>1
<1>3. \A j \in 1..i - 1 : j \in DOMAIN fs
  BY <1>1, <1>2
<1>4. PICK j \in 1..i - 1 : fs[j] = "translated"
  BY <1>1, <1>2 DEF Leading
<1>5. u[j] = <<"unlink", "translated">>
  BY <1>1, <1>3, <1>4
<1>6. \A k \in 1..i - 1 : u[k][1] = "unlink"
  BY <1>1, <1>3
<1> QED
  BY <1>5, <1>6

LEMMA LedThen ==
    ASSUME NEW U, NEW W, NEW D, NEW v, NEW a, NEW b \in Seq(PageWork(U, W, D, v)), "mimo" \notin U,
           NEW S, a \in Seq(S), Led(a)
    PROVE  Led(a \o b)
<1> DEFINE P == S \cup PageWork(U, W, D, v)
           c == a \o b
<1>1. a \in Seq(P) /\ b \in Seq(P)
  BY SeqMonotonic
<1>2. /\ Len(a) \in Nat /\ Len(b) \in Nat /\ DOMAIN a = 1..Len(a) /\ DOMAIN b = 1..Len(b)
      /\ DOMAIN c = 1..Len(a) + Len(b)
      /\ \A i \in 1..Len(a) + Len(b) : c[i] = IF i <= Len(a) THEN a[i] ELSE b[i - Len(a)]
  <2> HIDE DEF P
  <2>1. c \in Seq(P) /\ Len(c) = Len(a) + Len(b)
    BY <1>1, ConcatProperties
  <2> QED
    BY <1>1, <2>1, ConcatProperties, LenProperties
<1>3. \A k \in DOMAIN b : b[k] # <<"unlink", "mimo">>
  <2>1. <<"unlink", "mimo">> \notin PageWork(U, W, D, v)
    BY DEF PageWork
  <2>2. \A k \in DOMAIN b : b[k] \in PageWork(U, W, D, v)
    BY <1>2, ElementOfSeq
  <2> QED
    BY <2>1, <2>2
<1> HIDE DEF c
<1> SUFFICES ASSUME NEW i \in DOMAIN c, c[i] = <<"unlink", "mimo">>
             PROVE  /\ \E j \in 1..i - 1 : c[j] = <<"unlink", "translated">>
                    /\ \A j \in 1..i - 1 : c[j][2] = "translated" => c[j][1] = "unlink"
  BY DEF Led, c
<1>4. i \in 1..Len(a) /\ a[i] = <<"unlink", "mimo">>
  <2>1. CASE i <= Len(a)
    BY <1>2, <2>1
  <2>2. CASE ~(i <= Len(a))
    <3>1. i - Len(a) \in DOMAIN b /\ c[i] = b[i - Len(a)]
      BY <1>2, <2>2
    <3> QED
      BY <1>3, <3>1
  <2> QED
    BY <2>1, <2>2
<1>5. \A j \in 1..i - 1 : c[j] = a[j]
  BY <1>2, <1>4
<1>6. /\ \E j \in 1..i - 1 : a[j] = <<"unlink", "translated">>
      /\ \A j \in 1..i - 1 : a[j][2] = "translated" => a[j][1] = "unlink"
  BY <1>2, <1>4 DEF Led
<1> QED
  BY <1>5, <1>6

LEMMA ThenLed ==
    ASSUME NEW U, NEW W, NEW D, NEW v, NEW a \in Seq(PageWork(U, W, D, v)), NEW b,
           "mimo" \notin U, "translated" \notin U \cup W \cup D, NEW S, b \in Seq(S), Led(b)
    PROVE  Led(a \o b)
<1> DEFINE P == S \cup PageWork(U, W, D, v)
           c == a \o b
<1>1. a \in Seq(P) /\ b \in Seq(P)
  BY SeqMonotonic
<1>2. /\ Len(a) \in Nat /\ Len(b) \in Nat /\ DOMAIN a = 1..Len(a) /\ DOMAIN b = 1..Len(b)
      /\ DOMAIN c = 1..Len(a) + Len(b)
      /\ \A i \in 1..Len(a) + Len(b) : c[i] = IF i <= Len(a) THEN a[i] ELSE b[i - Len(a)]
  <2> HIDE DEF P
  <2>1. c \in Seq(P) /\ Len(c) = Len(a) + Len(b)
    BY <1>1, ConcatProperties
  <2> QED
    BY <1>1, <2>1, ConcatProperties, LenProperties
<1>3. \A k \in DOMAIN a : a[k] # <<"unlink", "mimo">> /\ a[k][2] # "translated"
  <2>1. \A op \in PageWork(U, W, D, v) : op # <<"unlink", "mimo">> /\ op[2] # "translated"
    BY DEF PageWork
  <2> QED
    BY <1>2, <2>1, ElementOfSeq
<1> HIDE DEF c
<1> SUFFICES ASSUME NEW i \in DOMAIN c, c[i] = <<"unlink", "mimo">>
             PROVE  /\ \E j \in 1..i - 1 : c[j] = <<"unlink", "translated">>
                    /\ \A j \in 1..i - 1 : c[j][2] = "translated" => c[j][1] = "unlink"
  BY DEF Led, c
<1> DEFINE k == i - Len(a)
<1>4. i > Len(a) /\ i \in Nat /\ k \in DOMAIN b /\ k \in Nat /\ b[k] = <<"unlink", "mimo">>
  BY <1>2, <1>3
<1>5. \A j \in 1..i - 1 : \/ j <= Len(a) /\ j \in DOMAIN a /\ c[j] = a[j]
                          \/ j - Len(a) \in 1..k - 1 /\ c[j] = b[j - Len(a)]
  BY <1>2, <1>4
<1>6. /\ \E j \in 1..k - 1 : b[j] = <<"unlink", "translated">>
      /\ \A j \in 1..k - 1 : b[j][2] = "translated" => b[j][1] = "unlink"
  BY <1>4 DEF Led
<1>7. PICK m \in 1..k - 1 : b[m] = <<"unlink", "translated">>
  BY <1>6
<1>8. m + Len(a) \in 1..i - 1 /\ m + Len(a) \in 1..Len(a) + Len(b) /\ ~(m + Len(a) <= Len(a)) /\ (m + Len(a)) - Len(a) = m
  BY <1>2, <1>4
<1>9. c[m + Len(a)] = <<"unlink", "translated">>
  BY <1>2, <1>7, <1>8
<1> QED
  BY <1>3, <1>5, <1>6, <1>8, <1>9, SMTT(30)

LEMMA ListsLead ==
    /\ Leading(Page!AfterCorrect) /\ Leading(Page!Outputs.translate \o Page!AfterTranslate)
    /\ Leading(<<"transcript", "corrected", "text">> \o Page!AfterCorrect)
<1> DEFINE a == Page!Outputs.align \o Page!Outputs.split \o Page!Outputs.translate
           A == {"aligned"} \cup {"split", "splitSrt"} \cup {"translated", "translatedSrt"}
<1>1. Lists(a, A)
  <2>1. Lists(Page!Outputs.align \o Page!Outputs.split, {"aligned"} \cup {"split", "splitSrt"})
    BY OutputNames, ListsJoin
  <2> QED
    BY <2>1, OutputNames, ListsJoin
<1>2. a \in Seq(PageFiles) /\ "mimo" \notin Page!Listed(a) /\ "translated" \in Page!Listed(a)
  <2> HIDE DEF a
  <2>1. A \subseteq PageFiles
    BY DEF PageFiles, AfterCorrectFiles
  <2>2. "mimo" \notin A /\ "translated" \in A
    OBVIOUS
  <2> HIDE DEF A
  <2> QED
    BY <1>1, <2>1, <2>2 DEF Lists
<1>3. /\ Page!AfterTranslate \in Seq(PageFiles) /\ Page!AfterCorrect \in Seq(PageFiles)
      /\ Page!Outputs.translate \in Seq(PageFiles) /\ Page!Listed(Page!Outputs.translate) = {"translated", "translatedSrt"}
      /\ <<"transcript", "corrected", "text">> \in Seq(PageFiles)
  <2>1. AfterTranslateFiles \subseteq PageFiles /\ AfterCorrectFiles \subseteq PageFiles
        /\ {"translated", "translatedSrt"} \subseteq PageFiles /\ {"transcript", "corrected", "text"} \subseteq PageFiles
    BY DEF PageFiles, AfterCorrectFiles, FirstFiles
  <2>2. Page!AfterTranslate \in Seq(AfterTranslateFiles) /\ Page!AfterCorrect \in Seq(AfterCorrectFiles)
    BY ListNames DEF Lists
  <2>3. /\ Page!Outputs.translate \in Seq({"translated", "translatedSrt"})
        /\ Page!Listed(Page!Outputs.translate) = {"translated", "translatedSrt"}
    BY OutputNames DEF Lists
  <2>4. <<"transcript", "corrected", "text">> \in Seq({"transcript", "corrected", "text"})
    OBVIOUS
  <2> QED
    BY <2>1, <2>2, <2>3, <2>4, SeqMonotonic, SMTT(30)
<1>4. Page!AfterCorrect = a \o Page!AfterTranslate
  BY DEF Page!AfterCorrect
<1> HIDE DEF a
<1>5. Leading(Page!AfterCorrect)
  BY <1>2, <1>3, <1>4, LeadingJoin
<1>6. Leading(Page!Outputs.translate \o Page!AfterTranslate)
  BY <1>3, LeadingJoin
<1>7. "mimo" \notin Page!Listed(<<"transcript", "corrected", "text">>)
  BY DEF Page!Listed
<1>8. Leading(<<"transcript", "corrected", "text">> \o Page!AfterCorrect)
  BY <1>3, <1>5, <1>7, LeadingJoin
<1> QED
  BY <1>5, <1>6, <1>8
-----------------------------------------------------------------------------
(* A stage that starts with such a plan.                                   *)
Derived == {"split", "translated", "mimo", "mimoReport", "normalized", "srt", "vtt"}

LEMMA PlanKeeps ==
    ASSUME PageIInv, UNCHANGED files, jobs' \in Nat,
           NEW U \in SUBSET PageFiles, NEW W \in SUBSET PageFiles, NEW D \in SUBSET PageFiles, NEW v \in Nat,
           todo' \in Seq(PageWork(U, W, D, v)), W \cap Derived = {},
           \A g \in D : Right(g, v, U \cup W \cup D), "mimo" \notin U \/ Led(todo'),
           "mimoReport" \notin D \/ Reported(todo)'
    PROVE  PageIInv'
<1>1. PageTypeOK /\ Ranked /\ Chain
  BY DEF PageIInv
<1>2. Ranked' /\ Chain'
  BY <1>1, ZenonT(60) DEF Ranked, Chain, Follows, Reviewed, Page!Exists, Page!Of, Page!Newest
<1>3. Len(todo') \in Nat /\ DOMAIN todo' = 1..Len(todo') /\ \A i \in DOMAIN todo' : todo'[i] \in PageWork(U, W, D, v)
  BY LenProperties, ElementOfSeq
<1>4. PageTypeOK'
  <2>1. PageWork(U, W, D, v) \subseteq AnyWork
    BY DEF PageWork, AnyWork
  <2>2. todo' \in Seq(AnyWork)
    BY <2>1, SeqMonotonic
  <2> QED
    BY <1>1, <2>2 DEF PageTypeOK
<1>5. \A op \in PageWork(U, W, D, v) : /\ op[2] \in U \cup W \cup D
                                       /\ op = <<"unlink", "mimo">> => "mimo" \in U
                                       /\ op[1] = "write" => op[2] \in W \/ (op[2] \in D /\ op[3] = v)
  BY DEF PageWork
<1>6. Touched' \subseteq U \cup W \cup D
  BY <1>3, <1>5 DEF Touched
<1>7. ASSUME NEW g, NEW x, Right(g, x, U \cup W \cup D) PROVE Right(g, x, Touched)'
  <2>1. ASSUME NEW s, Stays(s, x, U \cup W \cup D) PROVE Stays(s, x, Touched)'
    BY <1>6, <2>1 DEF Stays, Page!Exists, Page!Of
  <2>2. Page!Exists("mimo")' <=> Page!Exists("mimo")
    BY DEF Page!Exists
  <2>3. "translated" \notin U \cup W \cup D => "translated" \notin Touched'
    BY <1>6
  <2> QED
    BY <1>7, <2>1, <2>2, <2>3 DEF Right
<1>8. ASSUME NEW g \in W, NEW x PROVE Right(g, x, Touched)'
  BY <1>8 DEF Right, Derived
<1>9. Owed'
  <2>1. ASSUME NEW i \in DOMAIN todo', todo'[i][1] = "write"
        PROVE  \E g, x : g = todo'[i][2] /\ x = todo'[i][3] /\ Right(g, x, Touched)'
    <3>1. todo'[i][2] \in W \/ (todo'[i][2] \in D /\ todo'[i][3] = v)
      BY <1>3, <1>5, <2>1
    <3>2. CASE todo'[i][2] \in W
      BY <1>8, <3>2
    <3>3. CASE todo'[i][2] \in D /\ todo'[i][3] = v
      BY <1>7, <3>3
    <3> QED
      BY <3>1, <3>2, <3>3
  <2> QED
    BY <2>1 DEF Owed, Right, Stays
<1>10. MimoAfter(todo)'
  BY <1>3, <1>5 DEF MimoAfter, Led
<1>11. Reported(todo)'
  <2>1. CASE "mimoReport" \notin D
    <3>1. "mimoReport" \notin W
      BY DEF Derived
    <3>2. \A i \in DOMAIN todo' : ~(todo'[i][1] = "write" /\ todo'[i][2] = "mimoReport")
      BY <1>3, <1>5, <2>1, <3>1
    <3> QED
      BY <3>2 DEF Reported
  <2> QED
    BY <2>1
<1> QED
  BY <1>1, <1>2, <1>4, <1>9, <1>10, <1>11 DEF PageIInv

LEMMA OfIsNat == ASSUME PageTypeOK, NEW f \in PageFiles PROVE Page!Of(f) \in Nat
BY DEF PageTypeOK, Page!Of

(* The first that is there of a list of files.                             *)
LEMMA LeastIndex ==
    ASSUME NEW S \in SUBSET Nat, S # {}
    PROVE  \E n \in S : \A k \in S : n <= k
<1>1. PICK n \in S : \A k \in S : <<k, n>> \notin OpToRel(<, Nat)
  BY NatLessThanWellFounded, WFMin
<1>2. \A k \in S : <<k, n>> \notin {ss \in Nat \X Nat : ss[1] < ss[2]}
  BY <1>1, Zenon DEF OpToRel
<1>3. \A k \in Nat : <<k, n>> \notin {ss \in Nat \X Nat : ss[1] < ss[2]} => n <= k
  OBVIOUS
<1> QED
  BY <1>2, <1>3

LEMMA SourceIs ==
    ASSUME NEW fs \in Seq(PageFiles)
    PROVE  /\ Page!Source(fs) \in PageFiles \cup {"none"}
           /\ \A k \in DOMAIN fs :
                 Page!Exists(fs[k]) /\ (\A i \in DOMAIN fs : i < k => ~Page!Exists(fs[i])) => Page!Source(fs) = fs[k]
<1> DEFINE there == {i \in DOMAIN fs : Page!Exists(fs[i])}
           least == CHOOSE i \in there : \A j \in there : i <= j
<1>1. DOMAIN fs = 1..Len(fs) /\ Len(fs) \in Nat /\ \A i \in DOMAIN fs : fs[i] \in PageFiles
  BY LenProperties, ElementOfSeq
<1>2. Page!Source(fs) = IF there = {} THEN "none" ELSE fs[least]
  BY DEF Page!Source
<1>3. there \in SUBSET Nat
  BY <1>1
<1>4. ASSUME there # {} PROVE least \in there /\ \A j \in there : least <= j
  <2>1. \E i \in there : \A j \in there : i <= j
    BY <1>3, <1>4, LeastIndex
  <2> QED
    BY <2>1
<1>5. Page!Source(fs) \in PageFiles \cup {"none"}
  BY <1>1, <1>2, <1>4
<1>6. ASSUME NEW k \in DOMAIN fs, Page!Exists(fs[k]), \A i \in DOMAIN fs : i < k => ~Page!Exists(fs[i])
      PROVE  Page!Source(fs) = fs[k]
  <2>1. k \in there /\ least \in there /\ least <= k
    BY <1>4, <1>6
  <2>2. ~(least < k)
    BY <1>6, <2>1
  <2>3. least = k
    BY <1>3, <2>1, <2>2
  <2> QED
    BY <1>2, <2>1, <2>3
<1> QED
  BY <1>5, <1>6

LEMMA SourcesAre ==
    /\ Page!NormalizeSource \in PageFiles \cup {"none"} /\ Page!ExportSource \in PageFiles \cup {"none"}
    /\ Page!Exists("mimo") => Page!NormalizeSource = "mimo"
    /\ ~Page!Exists("mimo") /\ Page!Exists("translated") => Page!NormalizeSource = "translated"
    /\ Page!Exists("normalized") => Page!ExportSource = "normalized"
<1> DEFINE n == <<"mimo", "translated", "split", "transcript">>
           e == <<"normalized", "mimo", "translated", "split", "transcript">>
<1>1. {"mimo", "translated", "split", "transcript", "normalized"} \subseteq PageFiles
  BY Named DEF PageFiles, FirstFiles
<1>2. n \in Seq(PageFiles) /\ e \in Seq(PageFiles)
  BY <1>1
<1>3. /\ DOMAIN n = 1..4 /\ n[1] = "mimo" /\ n[2] = "translated" /\ DOMAIN e = 1..5 /\ e[1] = "normalized"
  OBVIOUS
<1>4. Page!NormalizeSource = Page!Source(n) /\ Page!ExportSource = Page!Source(e)
  BY DEF Page!NormalizeSource, Page!ExportSource
<1> HIDE DEF n, e
<1>5. \A i \in DOMAIN n : i < 2 => i = 1
  BY <1>3
<1>6. \A i \in DOMAIN n : ~(i < 1)
  BY <1>3
<1>7. \A i \in DOMAIN e : ~(i < 1)
  BY <1>3
<1>8. 1 \in DOMAIN n /\ 2 \in DOMAIN n /\ 1 \in DOMAIN e
  BY <1>3
<1>9. Page!Exists("mimo") => Page!NormalizeSource = "mimo"
  BY <1>2, <1>3, <1>4, <1>6, <1>8, SourceIs
<1>10. ~Page!Exists("mimo") /\ Page!Exists("translated") => Page!NormalizeSource = "translated"
  BY <1>2, <1>3, <1>4, <1>5, <1>8, SourceIs
<1>11. Page!Exists("normalized") => Page!ExportSource = "normalized"
  BY <1>2, <1>3, <1>4, <1>7, <1>8, SourceIs
<1> QED
  BY <1>2, <1>4, <1>9, <1>10, <1>11, SourceIs

LEMMA JoinWork ==
    ASSUME NEW S, NEW a \in Seq(S), NEW b \in Seq(S)
    PROVE  a \o b \in Seq(S)
BY ConcatProperties

LEMMA ForcedWork ==
    ASSUME NEW st, NEW mode, NEW U, NEW W, NEW D, NEW v, NEW fs \in Seq(U)
    PROVE  Page!Forced(st, mode, fs) \in Seq(PageWork(U, W, D, v))
BY UnlinkWork, NoWork DEF Page!Forced

LEMMA TranscriptsWork ==
    ASSUME NEW U, NEW W, NEW D, NEW v, "transcript" \in W
    PROVE  Page!Transcripts \in Seq(PageWork(U, W, D, v))
<1>1. <<"transcript">> \in Seq(W)
  OBVIOUS
<1>2. Page!Write(<<"transcript">>, 0) \in Seq(PageWork(U, W, D, v))
  BY <1>1, WriteWork
<1> QED
  BY <1>2, NoWork DEF Page!Transcripts

LEMMA PrepareKeeps ==
    ASSUME PageIInv, UNCHANGED files, jobs' \in Nat, NEW mode, todo' \in Page!Prepare(mode)
    PROVE  PageIInv'
<1> DEFINE W == {"audio", "segments"}
           P == PageWork(W, W, {}, 0)
<1>1. Page!Outputs.prepare \in Seq(W) /\ <<"audio">> \in Seq(W) /\ <<"segments">> \in Seq(W)
  BY OutputNames DEF Lists
<1>2. W \subseteq PageFiles /\ W \cap Derived = {} /\ "mimo" \notin W
  BY DEF PageFiles, FirstFiles, Derived
<1> HIDE DEF W
<1>3. /\ Page!Forced("prepare", mode, Page!Outputs.prepare) \in Seq(P) /\ <<>> \in Seq(P)
      /\ Page!Write(<<"audio">>, 0) \in Seq(P) /\ Page!Write(<<"segments">>, 0) \in Seq(P)
  BY <1>1, ForcedWork, WriteWork, NoWork
<1>4. todo' \in Seq(P)
  <2> HIDE DEF P
  <2>1. \A c \in {<<>>, Page!Write(<<"audio">>, 0)} :
           Page!Forced("prepare", mode, Page!Outputs.prepare) \o c \in Seq(P)
    BY <1>3, JoinWork
  <2>2. \A c \in {<<>>, Page!Write(<<"audio">>, 0)} :
           Page!Forced("prepare", mode, Page!Outputs.prepare) \o c \o Page!Write(<<"segments">>, 0) \in Seq(P)
    BY <1>3, <2>1, JoinWork
  <2> QED
    BY <2>2 DEF Page!Prepare
<1> QED
  BY <1>2, <1>4, PlanKeeps

LEMMA TranscribeKeeps ==
    ASSUME PageIInv, UNCHANGED files, jobs' \in Nat, NEW mode, todo' \in Page!Transcribe(mode)
    PROVE  PageIInv'
<1> DEFINE U == {"transcript", "corrected", "text"} \cup AfterCorrectFiles
           W == {"transcript", "text"}
           P == PageWork(U, W, {}, 0)
           Q == PageWork({}, W, {}, 0)
           fs == <<"transcript", "corrected", "text">> \o Page!AfterCorrect
           a == Page!Forced("transcribe", mode, fs)
           b == IF ~Page!Exists("segments") THEN <<>>
                ELSE (IF mode = "resume" THEN Page!Transcripts ELSE Page!Write(<<"transcript">>, 0))
                        \o Page!Write(<<"text">>, 0)
<1>1. todo' = a \o b
  BY DEF Page!Transcribe
<1>2. fs \in Seq(U)
  <2>1. <<"transcript", "corrected", "text">> \in Seq(U)
    OBVIOUS
  <2>2. Page!AfterCorrect \in Seq(AfterCorrectFiles)
    BY ListNames DEF Lists
  <2>3. Page!AfterCorrect \in Seq(U)
    BY <2>2, SeqMonotonic
  <2> HIDE DEF U
  <2> QED
    BY <2>1, <2>3, JoinWork
<1>3. b \in Seq(Q)
  <2>1. <<"transcript">> \in Seq(W) /\ <<"text">> \in Seq(W) /\ "transcript" \in W
    OBVIOUS
  <2>2. Page!Write(<<"transcript">>, 0) \in Seq(Q) /\ Page!Write(<<"text">>, 0) \in Seq(Q) /\ Page!Transcripts \in Seq(Q)
    <3> HIDE DEF W
    <3> QED
      BY <2>1, WriteWork, TranscriptsWork
  <2> HIDE DEF Q
  <2> QED
    BY <2>2, JoinWork, NoWork
<1>4. Led(a) /\ a \in Seq(P)
  <2> HIDE DEF fs, U, W
  <2>1. a \in Seq(P)
    BY <1>2, ForcedWork
  <2>2. Leading(fs)
    BY ListsLead DEF fs
  <2>3. Led(Page!Unlink(fs))
    BY <1>2, <2>2, LeadingUnlinked
  <2>4. Led(<<>>)
    BY DEF Led
  <2> QED
    BY <2>1, <2>3, <2>4 DEF Page!Forced
<1>5. Led(todo') /\ todo' \in Seq(P)
  <2>1. "mimo" \notin {} /\ Q \subseteq P
    BY DEF PageWork
  <2> HIDE DEF a, b, U, W
  <2>2. Led(a \o b)
    BY <1>3, <1>4, <2>1, LedThen
  <2> HIDE DEF P, Q
  <2>3. b \in Seq(P)
    BY <1>3, <2>1, SeqMonotonic
  <2> QED
    BY <1>1, <1>4, <2>2, <2>3, JoinWork
<1>6. U \subseteq PageFiles /\ W \subseteq PageFiles /\ W \cap Derived = {}
  BY DEF PageFiles, FirstFiles, Derived
<1> HIDE DEF U, W
<1> QED
  BY <1>5, <1>6, PlanKeeps

LEMMA CorrectKeeps ==
    ASSUME PageIInv, UNCHANGED files, jobs' \in Nat, NEW mode, todo' \in Page!Correct(mode)
    PROVE  PageIInv'
<1> DEFINE U == {"corrected"} \cup AfterCorrectFiles
           W == {"transcript", "corrected", "text"}
           P == PageWork(U, W, {}, 0)
           Q == PageWork({"corrected"}, W, {}, 0)
           a == Page!Forced("correct", mode, <<"corrected">>) \o Page!Transcripts
                   \o Page!Write(<<"transcript", "corrected", "text">>, 0)
<1>1. todo' = Page!Transcripts \/ todo' = a \o Page!Unlink(<<>>) \/ todo' = a \o Page!Unlink(Page!AfterCorrect)
  BY DEF Page!Correct
<1>2. Page!Transcripts \in Seq(Q) /\ a \in Seq(Q)
  <2>1. <<"corrected">> \in Seq({"corrected"}) /\ <<"transcript", "corrected", "text">> \in Seq(W) /\ "transcript" \in W
    OBVIOUS
  <2> HIDE DEF W
  <2>2. /\ Page!Forced("correct", mode, <<"corrected">>) \in Seq(Q) /\ Page!Transcripts \in Seq(Q)
        /\ Page!Write(<<"transcript", "corrected", "text">>, 0) \in Seq(Q)
    BY <2>1, ForcedWork, TranscriptsWork, WriteWork
  <2> HIDE DEF Q
  <2> QED
    BY <2>2, JoinWork
<1>3. /\ "mimo" \notin {"corrected"} /\ "translated" \notin {"corrected"} \cup W \cup {} /\ Q \subseteq P
      /\ {"corrected"} \subseteq PageFiles /\ U \subseteq PageFiles /\ W \subseteq PageFiles /\ W \cap Derived = {}
  BY DEF PageWork, PageFiles, FirstFiles, Derived
<1> HIDE DEF a, W
<1>4. CASE todo' \in Seq(Q)
  BY <1>3, <1>4, PlanKeeps
<1>5. CASE todo' = a \o Page!Unlink(<<>>)
  <2>1. Page!Unlink(<<>>) \in Seq(Q)
    BY NoWork, UnlinkWork
  <2> HIDE DEF Q
  <2>2. todo' \in Seq(Q)
    BY <1>2, <1>5, <2>1, JoinWork
  <2> QED
    BY <1>4, <2>2
<1>6. CASE todo' = a \o Page!Unlink(Page!AfterCorrect)
  <2>1. Page!AfterCorrect \in Seq(AfterCorrectFiles)
    BY ListNames DEF Lists
  <2>2. Page!AfterCorrect \in Seq(U)
    BY <2>1, SeqMonotonic
  <2> HIDE DEF U
  <2>3. Page!Unlink(Page!AfterCorrect) \in Seq(P)
    BY <2>2, UnlinkWork
  <2>4. Led(Page!Unlink(Page!AfterCorrect))
    BY <2>2, ListsLead, LeadingUnlinked
  <2>5. Led(todo')
    BY <1>2, <1>3, <1>6, <2>3, <2>4, ThenLed
  <2>6. todo' \in Seq(P)
    <3> HIDE DEF P, Q
    <3>1. a \in Seq(P)
      BY <1>2, <1>3, SeqMonotonic
    <3> QED
      BY <1>6, <2>3, <3>1, JoinWork
  <2> QED
    BY <1>3, <2>5, <2>6, PlanKeeps
<1> QED
  BY <1>1, <1>2, <1>4, <1>5, <1>6

LEMMA AlignKeeps ==
    ASSUME PageIInv, UNCHANGED files, jobs' \in Nat, NEW mode, NEW n \in Nat, todo' \in Page!AlignStage(mode, n)
    PROVE  PageIInv'
<1> DEFINE U == {"aligned"}
           W == {"transcript", "journal", "aligned"}
           P == PageWork(U, W, {}, 0)
<1>1. /\ <<"aligned">> \in Seq(U) /\ <<"aligned">> \in Seq(W) /\ <<"journal", "aligned">> \in Seq(W)
      /\ "transcript" \in W
  OBVIOUS
<1>2. Page!Of("journal") \in Nat
  BY OfIsNat DEF PageIInv, PageFiles
<1>3. U \subseteq PageFiles /\ W \subseteq PageFiles /\ W \cap Derived = {} /\ "mimo" \notin U
  BY DEF PageFiles, FirstFiles, AfterCorrectFiles, Derived
<1> HIDE DEF U, W
<1>4. /\ Page!Unlink(<<"aligned">>) \in Seq(P) /\ Page!Transcripts \in Seq(P)
      /\ Page!Align(n) \in Seq(P) /\ Page!Write(<<"aligned">>, Page!Of("journal")) \in Seq(P)
  BY <1>1, <1>2, UnlinkWork, WriteWork, TranscriptsWork DEF Page!Align
<1>5. todo' \in Seq(P)
  <2> HIDE DEF P
  <2>1. Page!AlignedRows \in Seq(P)
    BY <1>4, NoWork DEF Page!AlignedRows
  <2>2. Page!Unlink(<<"aligned">>) \o Page!Transcripts \o Page!Align(n) \in Seq(P)
    BY <1>4, JoinWork
  <2>3. Page!Transcripts \o Page!AlignedRows \in Seq(P)
    BY <1>4, <2>1, JoinWork
  <2>4. \A c \in {<<>>, Page!Align(n)} : Page!Transcripts \o Page!AlignedRows \o c \in Seq(P)
    BY <1>4, <2>3, JoinWork, NoWork
  <2> QED
    BY <2>2, <2>4 DEF Page!AlignStage
<1> QED
  BY <1>3, <1>5, PlanKeeps

LEMMA SplitKeeps ==
    ASSUME PageIInv, UNCHANGED files, jobs' \in Nat, NEW mode, todo' \in Page!Split(mode)
    PROVE  PageIInv'
<1> DEFINE U == {"split", "splitSrt"}
           v == Page!Of("aligned")
           P == PageWork(U, {}, U, v)
<1>1. Page!Outputs.split \in Seq(U)
  BY OutputNames DEF Lists
<1>2. v \in Nat /\ U \subseteq PageFiles /\ "mimo" \notin U /\ "mimoReport" \notin U
  BY Named, OfIsNat DEF PageIInv, PageFiles, AfterCorrectFiles
<1>3. \A g \in U : Right(g, v, U \cup {} \cup U)
  BY DEF Right, Stays
<1> HIDE DEF U, v
<1>4. Page!Forced("split", mode, Page!Outputs.split) \in Seq(P) /\ Page!Write(Page!Outputs.split, v) \in Seq(P)
  BY <1>1, ForcedWork, WriteWork
<1>5. todo' \in Seq(P)
  <2> HIDE DEF P
  <2>1. Page!Forced("split", mode, Page!Outputs.split) \o <<>> \in Seq(P)
    BY <1>4, NoWork, JoinWork
  <2>2. Page!Forced("split", mode, Page!Outputs.split) \o Page!Write(Page!Outputs.split, v) \in Seq(P)
    BY <1>4, JoinWork
  <2> QED
    BY <2>1, <2>2, NoWork DEF Page!Split, v
<1> QED
  BY <1>2, <1>3, <1>5, PlanKeeps

LEMMA TranslateKeeps ==
    ASSUME PageIInv, UNCHANGED files, jobs' \in Nat, NEW mode, todo' \in Page!Translate(mode)
    PROVE  PageIInv'
<1> DEFINE D == {"translated", "translatedSrt"}
           U == D \cup AfterTranslateFiles
           v == Page!Of("split")
           P == PageWork(U, {}, D, v)
           Q == PageWork({}, {}, D, v)
           fs == Page!Outputs.translate \o Page!AfterTranslate
           a == Page!Forced("translate", mode, fs)
           b == IF Page!Exists("split") THEN Page!Write(Page!Outputs.translate, v) ELSE <<>>
<1>1. todo' = <<>> \/ todo' = a \o b
  BY DEF Page!Translate
<1>2. fs \in Seq(U) /\ Page!Outputs.translate \in Seq(D)
  <2>1. Page!Outputs.translate \in Seq(D) /\ Page!AfterTranslate \in Seq(AfterTranslateFiles)
    BY ListNames, OutputNames DEF Lists
  <2>2. Page!Outputs.translate \in Seq(U) /\ Page!AfterTranslate \in Seq(U)
    BY <2>1, SeqMonotonic
  <2> HIDE DEF U, D
  <2> QED
    BY <2>1, <2>2, JoinWork
<1>3. v \in Nat /\ U \subseteq PageFiles /\ D \subseteq PageFiles /\ "mimoReport" \notin D
  BY Named, OfIsNat DEF PageIInv, PageFiles, AfterCorrectFiles
<1>4. \A g \in D : Right(g, v, U \cup {} \cup D)
  BY DEF Right, Stays, AfterTranslateFiles, AfterGateFiles, AfterNormalizeFiles
<1> HIDE DEF U, D, v
<1>5. b \in Seq(Q)
  BY <1>2, WriteWork, NoWork
<1>6. Led(a) /\ a \in Seq(P)
  <2> HIDE DEF fs
  <2>1. a \in Seq(P)
    BY <1>2, ForcedWork
  <2>2. Leading(fs)
    BY ListsLead DEF fs
  <2>3. Led(Page!Unlink(fs))
    BY <1>2, <2>2, LeadingUnlinked
  <2>4. Led(<<>>)
    BY DEF Led
  <2> QED
    BY <2>1, <2>3, <2>4 DEF Page!Forced
<1>7. Led(todo') /\ todo' \in Seq(P)
  <2>1. "mimo" \notin {} /\ Q \subseteq P
    BY DEF PageWork
  <2> HIDE DEF a, b
  <2>2. Led(a \o b)
    BY <1>5, <1>6, <2>1, LedThen
  <2> HIDE DEF P, Q
  <2>3. b \in Seq(P)
    BY <1>5, <2>1, SeqMonotonic
  <2>4. a \o b \in Seq(P)
    BY <1>6, <2>3, JoinWork
  <2>5. Led(<<>>)
    BY DEF Led
  <2> QED
    BY <1>1, <2>2, <2>4, <2>5, NoWork
<1> QED
  BY <1>3, <1>4, <1>7, PlanKeeps

LEMMA MimoKeeps ==
    ASSUME PageIInv, UNCHANGED files, jobs' \in Nat, NEW mode, todo' \in Page!Mimo(mode)
    PROVE  PageIInv'
<1> DEFINE D == {"mimo", "mimoReport", "mimoSrt"}
           v == Page!Of("translated")
           P == PageWork({}, {}, D, v)
<1>1. Page!Outputs.mimo \in Seq(D)
  BY OutputNames DEF Lists
<1>2. v \in Nat /\ D \subseteq PageFiles /\ "mimo" \notin {}
  BY Named, OfIsNat DEF PageIInv, PageFiles, AfterCorrectFiles, AfterTranslateFiles
<1>3. \A g \in D : Right(g, v, {} \cup {} \cup D)
  BY DEF Right, Stays
<1> HIDE DEF D
<1>4. Page!Write(Page!Outputs.mimo, v) \in Seq(P)
  BY <1>1, WriteWork
<1>5. todo' \in Seq(P)
  BY <1>4, NoWork DEF Page!Mimo
<1>6. Reported(todo)'
  <2>1. CASE todo' = <<>>
    BY <2>1 DEF Reported
  <2>2. CASE todo' = Page!Write(Page!Outputs.mimo, v)
    <3>1. /\ DOMAIN todo' = 1..3 /\ todo'[1] = <<"write", "mimo", v>>
          /\ todo'[2] = <<"write", "mimoReport", v>> /\ todo'[3] = <<"write", "mimoSrt", v>>
      BY <2>2, OutputsAre DEF Page!Write
    <3> HIDE DEF v
    <3>2. \A i \in DOMAIN todo' : todo'[i][2] = "mimoReport" => i = 2
      BY <3>1
    <3>3. \A i \in DOMAIN todo' : todo'[i][2] = "mimo" => i = 1
      BY <3>1
    <3>4. 1 \in 1..2 - 1 /\ todo'[1][2] = "mimo" /\ todo'[2][3] = v
      BY <3>1
    <3> QED
      BY <3>1, <3>2, <3>3, <3>4 DEF Reported
  <2> QED
    BY <2>1, <2>2 DEF Page!Mimo
<1> HIDE DEF v
<1> QED
  BY <1>2, <1>3, <1>5, <1>6, PlanKeeps

LEMMA RealignKeeps ==
    ASSUME PageIInv, UNCHANGED files, jobs' \in Nat, todo' \in Page!Realign
    PROVE  PageIInv'
<1> DEFINE v == Page!Of("mimo")
<1>1. CASE todo' = <<>>
  <2>1. todo' \in Seq(PageWork({}, {}, {}, 0))
    BY <1>1, NoWork
  <2>2. {} \in SUBSET PageFiles /\ {} \cap Derived = {} /\ "mimo" \notin {} /\ "mimoReport" \notin {}
    OBVIOUS
  <2> QED
    BY <2>1, <2>2, PlanKeeps
<1>2. CASE Page!Exists("mimo") /\ todo' = Page!Write(<<"mimo">>, v)
  <2>1. v \in Nat /\ "mimo" \in PageFiles
    BY Named, OfIsNat DEF PageIInv
  <2>2. todo' = << <<"write", "mimo", v>> >>
    BY <1>2 DEF Page!Write
  <2>3. UNCHANGED <<Page!Exists("mimo"), v>>
    BY DEF Page!Exists, Page!Of
  <2>4. Owed'
    BY <1>2, <2>2, <2>3 DEF Owed, Retimed
  <2> HIDE DEF v
  <2>5. todo' \in Seq(AnyWork)
    <3>1. <<"write", "mimo", v>> \in AnyWork
      BY <2>1 DEF AnyWork, PageWork
    <3> QED
      BY <2>2, <3>1
  <2>6. DOMAIN todo' = {1} /\ todo'[1] = <<"write", "mimo", v>>
    BY <2>2
  <2>7. MimoAfter(todo)' /\ Reported(todo)'
    BY <2>6 DEF MimoAfter, Reported
  <2>8. Ranked' /\ Chain'
    BY DEF PageIInv, Ranked, Chain, Follows, Reviewed, Page!Exists, Page!Of, Page!Newest
  <2>9. PageTypeOK'
    BY <2>5 DEF PageIInv, PageTypeOK
  <2> QED
    BY <2>4, <2>7, <2>8, <2>9 DEF PageIInv
<1>3. Page!Outputs.realign = <<"mimo">>
  BY OutputsAre
<1>4. todo' = <<>> \/ (Page!Exists("mimo") /\ todo' = Page!Write(<<"mimo">>, v))
  BY <1>3 DEF Page!Realign
<1> QED
  BY <1>1, <1>2, <1>4

LEMMA GatedWork ==
    ASSUME NEW U, NEW W, NEW D, NEW v, "gate" \in W,
           NEW a \in Seq(PageWork(U, W, D, v)), NEW b \in Seq(PageWork(U, W, D, v)), NEW ops \in Page!Gated(a, b)
    PROVE  ops \in Seq(PageWork(U, W, D, v))
<1> DEFINE P == PageWork(U, W, D, v)
<1>1. <<"gate">> \in Seq(W)
  OBVIOUS
<1>2. Page!Write(<<"gate">>, 0) \in Seq(P) /\ Page!Write(<<"gate">>, 1) \in Seq(P)
  BY <1>1, WriteWork
<1> HIDE DEF P
<1>3. a \in Seq(P) /\ b \in Seq(P)
  BY DEF P
<1>4. a \o Page!Write(<<"gate">>, 0) \in Seq(P) /\ a \o Page!Write(<<"gate">>, 1) \in Seq(P)
  BY <1>2, <1>3, JoinWork
<1>5. a \o Page!Write(<<"gate">>, 1) \o b \in Seq(P)
  BY <1>3, <1>4, JoinWork
<1> QED
  BY <1>4, <1>5 DEF Page!Gated, P

LEMMA GateKeeps ==
    ASSUME PageIInv, UNCHANGED files, jobs' \in Nat, todo' \in Page!Gate
    PROVE  PageIInv'
<1>1. todo' \in Seq(PageWork({}, {"gate"}, {}, 0))
  <2> DEFINE W == {"gate"}
  <2>1. "gate" \in W
    OBVIOUS
  <2> HIDE DEF W
  <2>2. todo' \in Page!Gated(<<>>, <<>>)
    BY DEF Page!Gate
  <2>3. <<>> \in Seq(PageWork({}, W, {}, 0))
    BY NoWork
  <2>4. todo' \in Seq(PageWork({}, W, {}, 0))
    BY <2>1, <2>2, <2>3, GatedWork
  <2> QED
    BY <2>4 DEF W
<1>2. {"gate"} \subseteq PageFiles /\ {"gate"} \cap Derived = {} /\ "mimo" \notin {}
  BY DEF PageFiles, AfterCorrectFiles, AfterTranslateFiles, Derived
<1> QED
  BY <1>1, <1>2, PlanKeeps

LEMMA NormalizeKeeps ==
    ASSUME PageIInv, UNCHANGED files, jobs' \in Nat, NEW mode, todo' \in Page!Normalize(mode)
    PROVE  PageIInv'
<1> DEFINE D == IF Page!NormalizeSource = "none" THEN {} ELSE {"normalized", "normalizedSrt"}
           U == AfterGateFiles
           W == {"gate"}
           v == IF Page!NormalizeSource = "none" THEN 0 ELSE Page!Of(Page!NormalizeSource)
           P == PageWork(U, W, D, v)
           a == Page!Forced("normalize", mode, Page!Outputs.normalize \o Page!AfterNormalize)
           b == IF (mode = "resume" /\ Page!Exists("normalized")) \/ Page!NormalizeSource = "none" THEN <<>>
                ELSE Page!Write(Page!Outputs.normalize, Page!Of(Page!NormalizeSource))
<1>1. todo' \in Page!Gated(a, b)
  BY DEF Page!Normalize
<1>2. Page!Outputs.normalize \o Page!AfterNormalize \in Seq(U)
  BY ListNames DEF Lists, Page!AfterGate
<1>3. Page!NormalizeSource # "none" => Page!Outputs.normalize \in Seq(D) /\ v = Page!Of(Page!NormalizeSource)
  BY OutputNames DEF Lists
<1>4. v \in Nat /\ U \subseteq PageFiles /\ W \subseteq PageFiles /\ D \subseteq PageFiles /\ W \cap Derived = {}
      /\ "mimo" \notin U /\ "gate" \in W /\ "mimoReport" \notin D
  <2>1. v \in Nat
    BY SourcesAre, OfIsNat DEF PageIInv
  <2> QED
    BY <2>1 DEF PageFiles, AfterCorrectFiles, AfterTranslateFiles, AfterGateFiles, AfterNormalizeFiles, Derived
<1>5. \A g \in D : Right(g, v, U \cup W \cup D)
  <2>1. CASE Page!NormalizeSource = "none"
    BY <2>1
  <2>2. CASE Page!NormalizeSource # "none"
    <3>1. D = {"normalized", "normalizedSrt"} /\ v = Page!Of(Page!NormalizeSource)
      BY <2>2
    <3>2. "mimo" \notin U \cup W \cup D /\ "translated" \notin U \cup W \cup D
      BY <3>1 DEF AfterGateFiles, AfterNormalizeFiles
    <3> HIDE DEF D, U, W, v
    <3>3. Stays("mimo", v, U \cup W \cup D) /\ (~Page!Exists("mimo") => Stays("translated", v, U \cup W \cup D))
      BY <3>1, <3>2, SourcesAre DEF Stays
    <3>4. Right("normalized", v, U \cup W \cup D) /\ Right("normalizedSrt", v, U \cup W \cup D)
      BY <3>2, <3>3 DEF Right
    <3> QED
      BY <3>1, <3>4
  <2> QED
    BY <2>1, <2>2
<1> HIDE DEF D, U, W, v
<1>6. a \in Seq(P) /\ b \in Seq(P)
  BY <1>2, <1>3, ForcedWork, WriteWork, NoWork
<1>7. todo' \in Seq(P)
  <2> HIDE DEF a, b
  <2> QED
    BY <1>1, <1>4, <1>6, GatedWork
<1> QED
  BY <1>4, <1>5, <1>7, PlanKeeps

LEMMA ExportKeeps ==
    ASSUME PageIInv, UNCHANGED files, jobs' \in Nat, NEW mode, NEW formats \in SUBSET Seq({"srt", "vtt"}),
           todo' \in Page!Export(mode, formats)
    PROVE  PageIInv'
<1> DEFINE D == {"srt", "vtt"}
           W == {"gate", "transcript", "text"}
           v == IF Page!ExportSource = "none" THEN 0 ELSE Page!Of(Page!ExportSource)
           P == PageWork(D, W, D, v)
           a == Page!Forced("export", mode, Page!Outputs.export)
<1>1. PICK fs \in formats : todo' \in Page!Gated(a, Page!Transcripts \o Page!Write(<<"text">>, 0)
          \o (IF Page!ExportSource = "none" THEN <<>> ELSE Page!Write(fs, Page!Of(Page!ExportSource))))
  BY DEF Page!Export
<1> DEFINE c == IF Page!ExportSource = "none" THEN <<>> ELSE Page!Write(fs, Page!Of(Page!ExportSource))
           b == Page!Transcripts \o Page!Write(<<"text">>, 0) \o c
<1>2. Page!Outputs.export \in Seq(D) /\ fs \in Seq(D) /\ <<"text">> \in Seq(W)
  BY OutputNames DEF Lists
<1>3. v \in Nat /\ D \subseteq PageFiles /\ W \subseteq PageFiles /\ W \cap Derived = {}
      /\ "mimo" \notin D /\ "gate" \in W /\ "transcript" \in W /\ "mimoReport" \notin D
  <2>1. v \in Nat
    BY SourcesAre, OfIsNat DEF PageIInv
  <2> QED
    BY <2>1 DEF PageFiles, FirstFiles, AfterCorrectFiles, AfterTranslateFiles, AfterGateFiles, AfterNormalizeFiles, Derived
<1>4. Page!Exists("normalized") => v = Page!Of("normalized")
  BY SourcesAre
<1>5. \A g \in D : Right(g, v, D \cup W \cup D)
  <2> HIDE DEF v
  <2>1. "normalized" \notin D \cup W \cup D
    OBVIOUS
  <2>2. Stays("normalized", v, D \cup W \cup D)
    BY <1>4, <2>1 DEF Stays
  <2> QED
    BY <2>2 DEF Right
<1>6. Page!ExportSource # "none" => v = Page!Of(Page!ExportSource)
  OBVIOUS
<1> HIDE DEF D, W, v
<1>7. a \in Seq(P) /\ c \in Seq(P) /\ Page!Transcripts \in Seq(P) /\ Page!Write(<<"text">>, 0) \in Seq(P)
  BY <1>2, <1>3, <1>6, ForcedWork, WriteWork, TranscriptsWork, NoWork
<1>8. todo' \in Seq(P)
  <2>1. b \in Seq(P)
    <3> HIDE DEF P, c
    <3> QED
      BY <1>7, JoinWork
  <2>2. todo' \in Page!Gated(a, b)
    BY <1>1
  <2> HIDE DEF a, b
  <2> QED
    BY <1>3, <1>7, <2>1, <2>2, GatedWork
<1> QED
  BY <1>3, <1>5, <1>8, PlanKeeps

LEMMA PageStarts ==
    ASSUME PageIInv, NEW st \in Page!Stages, NEW mode, NEW formats \in SUBSET Seq({"srt", "vtt"}),
           Page!Begin(st, mode, formats)
    PROVE  PageIInv'
<1>1. /\ UNCHANGED files /\ jobs + 1 \in Nat /\ jobs' \in Nat
      /\ todo' \in Page!Does(st, mode, formats, jobs + 1)
  BY DEF Page!Begin, PageIInv, PageTypeOK
<1>2. CASE st = "prepare"
  <2>1. todo' \in Page!Prepare(mode)
    BY <1>1, <1>2 DEF Page!Does
  <2> QED
    BY <1>1, <2>1, PrepareKeeps
<1>3. CASE st = "transcribe"
  <2>1. todo' \in Page!Transcribe(mode)
    BY <1>1, <1>3 DEF Page!Does
  <2> QED
    BY <1>1, <2>1, TranscribeKeeps
<1>4. CASE st = "correct"
  <2>1. todo' \in Page!Correct(mode)
    BY <1>1, <1>4 DEF Page!Does
  <2> QED
    BY <1>1, <2>1, CorrectKeeps
<1>5. CASE st = "align"
  <2>1. todo' \in Page!AlignStage(mode, jobs + 1)
    BY <1>1, <1>5 DEF Page!Does
  <2> QED
    BY <1>1, <2>1, AlignKeeps
<1>6. CASE st = "split"
  <2>1. todo' \in Page!Split(mode)
    BY <1>1, <1>6 DEF Page!Does
  <2> QED
    BY <1>1, <2>1, SplitKeeps
<1>7. CASE st = "translate"
  <2>1. todo' \in Page!Translate(mode)
    BY <1>1, <1>7 DEF Page!Does
  <2> QED
    BY <1>1, <2>1, TranslateKeeps
<1>8. CASE st = "mimo"
  <2>1. todo' \in Page!Mimo(mode)
    BY <1>1, <1>8 DEF Page!Does
  <2> QED
    BY <1>1, <2>1, MimoKeeps
<1>9. CASE st = "gate"
  <2>1. todo' \in Page!Gate
    BY <1>1, <1>9 DEF Page!Does
  <2> QED
    BY <1>1, <2>1, GateKeeps
<1>10. CASE st = "normalize"
  <2>1. todo' \in Page!Normalize(mode)
    BY <1>1, <1>10 DEF Page!Does
  <2> QED
    BY <1>1, <2>1, NormalizeKeeps
<1>11. CASE st = "export"
  <2>1. todo' \in Page!Export(mode, formats)
    BY <1>1, <1>11 DEF Page!Does
  <2> QED
    BY <1>1, <2>1, ExportKeeps
<1>12. CASE st = "realign"
  <2>1. todo' \in Page!Realign
    BY <1>1, <1>12 DEF Page!Does
  <2> QED
    BY <1>1, <2>1, RealignKeeps
<1> QED
  BY <1>2, <1>3, <1>4, <1>5, <1>6, <1>7, <1>8, <1>9, <1>10, <1>11, <1>12 DEF Page!Stages

LEMMA PageBreaks == ASSUME PageIInv, Page!Break PROVE PageIInv'
<1>1. UNCHANGED <<files, jobs>> /\ todo' = <<>>
  BY DEF Page!Break
<1>2. todo' \in Seq(AnyWork) /\ DOMAIN todo' = {}
  BY <1>1
<1>3. Ranked' /\ Chain'
  BY <1>1, ZenonT(60) DEF PageIInv, Ranked, Chain, Follows, Reviewed, Page!Exists, Page!Of, Page!Newest
<1>4. PageTypeOK' /\ Owed' /\ MimoAfter(todo)' /\ Reported(todo)'
  BY <1>1, <1>2 DEF PageIInv, PageTypeOK, Owed, MimoAfter, Reported
<1> QED
  BY <1>3, <1>4 DEF PageIInv

LEMMA PageNext == PageIInv /\ [Page!Next]_Page!vars => PageIInv'
<1> SUFFICES ASSUME PageIInv, [Page!Next]_Page!vars PROVE PageIInv'
  OBVIOUS
<1>1. ASSUME NEW st \in Page!Stages, Page!FromPage(st) PROVE PageIInv'
  <2>1. {<<"srt">>} \in SUBSET Seq({"srt", "vtt"})
    OBVIOUS
  <2>2. Page!Begin(st, "resume", {<<"srt">>})
    BY <1>1 DEF Page!FromPage, Page!PageOptions
  <2> QED
    BY <2>1, <2>2, PageStarts
<1>2. ASSUME NEW st \in Page!Stages, Page!WithOptions(st) PROVE PageIInv'
  <2>1. Page!Formats \in SUBSET Seq({"srt", "vtt"})
    BY DEF Page!Formats
  <2>2. PICK mode \in Page!Modes : Page!Begin(st, mode, Page!Formats)
    BY <1>2 DEF Page!WithOptions
  <2> QED
    BY <2>1, <2>2, PageStarts
<1>3. CASE UNCHANGED Page!vars \/ Page!Review
  <2>1. UNCHANGED <<files, jobs, todo>>
    BY <1>3 DEF Page!vars, Page!Review
  <2>2. PageTypeOK' /\ MimoAfter(todo)'
    BY <2>1 DEF PageIInv, PageTypeOK, MimoAfter, Page!Exists
  <2>5. Reported(todo)'
    BY <2>1 DEF PageIInv, Reported, Page!Exists, Page!Of
  <2>3. Ranked' /\ Chain'
    BY <2>1 DEF PageIInv, Ranked, Chain, Follows, Reviewed, Page!Exists, Page!Of, Page!Newest
  <2>4. Owed'
    BY <2>1 DEF PageIInv, Owed, Retimed, Right, Stays, Touched, Page!Exists, Page!Of
  <2> QED
    BY <2>2, <2>3, <2>4, <2>5 DEF PageIInv
<1> QED
  BY <1>1, <1>2, <1>3, PageWorks, PageBreaks DEF Page!Next
-----------------------------------------------------------------------------
LEMMA PageInit == Page!Init => PageIInv
<1> SUFFICES ASSUME Page!Init PROVE PageIInv
  OBVIOUS
<1>1. jobs \in Nat /\ todo = <<>> /\ todo \in Seq(AnyWork) /\ DOMAIN todo = {}
  BY DEF Page!Init
<1>2. PICK order \in {Page!InOrder, Page!SplitAgain}, of \in [PageFiles -> Nat] :
          /\ files = Page!At(order, of)
          /\ \/ order = Page!InOrder /\ \A f \in PageFiles : of[f] = 1
             \/ /\ order = Page!SplitAgain
                /\ \A f \in PageFiles : of[f] = IF f \in AgainFiles THEN 2 ELSE 1
  <2>1. Page!Listed(Page!Again) = AgainFiles
    BY AgainNames DEF Lists
  <2> DEFINE first == [f \in PageFiles |-> 1]
             again == [f \in PageFiles |-> IF f \in AgainFiles THEN 2 ELSE 1]
  <2>2. files = Page!At(Page!InOrder, first) \/ files = Page!At(Page!SplitAgain, again)
    BY <2>1, Named DEF Page!Init
  <2>3. first \in [PageFiles -> Nat] /\ again \in [PageFiles -> Nat]
    OBVIOUS
  <2>4. (\A f \in PageFiles : first[f] = 1) /\ \A f \in PageFiles : again[f] = IF f \in AgainFiles THEN 2 ELSE 1
    OBVIOUS
  <2> HIDE DEF first, again
  <2> QED
    BY <2>2, <2>3, <2>4
<1> DEFINE S == Page!Listed(order)
<1>3. Lists(order, S) /\ S \subseteq PageFiles
  <2>1. CASE order = Page!InOrder
    BY <2>1, ListNames DEF Lists
  <2>2. CASE order = Page!SplitAgain
    <3>1. Lists(order, EarlierFiles \cup AgainFiles)
      BY <2>2, ListNames
    <3>2. S = EarlierFiles \cup AgainFiles
      BY <3>1 DEF Lists
    <3>3. EarlierFiles \cup AgainFiles \subseteq PageFiles
      BY DEF EarlierFiles, AgainFiles, PageFiles, AfterCorrectFiles, AfterTranslateFiles
    <3> QED
      BY <3>1, <3>2, <3>3
  <2> QED
    BY <2>1, <2>2
<1>4. IsFiniteSet(S) /\ Cardinality(S) = Len(order) /\ DOMAIN order = 1..Len(order) /\ Len(order) \in Nat
  BY <1>3, ListsCount
<1> DEFINE Place(f) == CHOOSE i \in DOMAIN order : order[i] = f
<1>5. \A f \in S : Place(f) \in DOMAIN order /\ order[Place(f)] = f
  BY DEF Page!Listed
<1>6. \A f \in PageFiles : files[f] = IF f \notin S THEN [at |-> 0, of |-> 0] ELSE [at |-> Place(f), of |-> of[f]]
  BY <1>2, Named DEF Page!At
<1>7. DOMAIN files = PageFiles /\ files = [f \in PageFiles |-> files[f]]
  BY <1>2, Named DEF Page!At
<1> HIDE DEF Place, S
<1>8. \A f \in PageFiles : /\ f \notin S => files[f].at = 0 /\ files[f].of = 0
                           /\ f \in S => files[f].at = Place(f) /\ files[f].of = of[f] /\ Place(f) \in 1..Len(order)
                           /\ files[f] \in [at : Nat, of : Nat]
  <2> SUFFICES ASSUME NEW f \in PageFiles
               PROVE  /\ f \notin S => files[f].at = 0 /\ files[f].of = 0
                      /\ f \in S => files[f].at = Place(f) /\ files[f].of = of[f] /\ Place(f) \in 1..Len(order)
                      /\ files[f] \in [at : Nat, of : Nat]
    OBVIOUS
  <2>1. CASE f \notin S
    <3>1. files[f] = [at |-> 0, of |-> 0]
      BY <1>6, <2>1
    <3> QED
      BY <2>1, <3>1
  <2>2. CASE f \in S
    <3>1. Place(f) \in 1..Len(order) /\ Place(f) \in Nat /\ of[f] \in Nat
      BY <1>2, <1>4, <1>5, <2>2
    <3>2. files[f] = [at |-> Place(f), of |-> of[f]]
      BY <1>6, <2>2
    <3> QED
      BY <2>2, <3>1, <3>2
  <2> QED
    BY <2>1, <2>2
<1>9. files \in [PageFiles -> [at : Nat, of : Nat]]
  BY <1>7, <1>8
<1>10. \A f \in PageFiles : Page!Exists(f) <=> f \in S
  BY <1>4, <1>8 DEF Page!Exists
<1>11. Page!Newest = Len(order)
  <2>1. {f \in PageFiles : Page!Exists(f)} = S
    BY <1>3, <1>10
  <2> QED
    BY <1>4, <1>9, <2>1, NewestIs
<1>12. Ranked
  <2>1. \A f \in PageFiles : files[f].at <= Page!Newest
    BY <1>4, <1>8, <1>11
  <2>2. \A f, g \in PageFiles : Page!Exists(f) /\ f # g => files[f].at # files[g].at
    BY <1>4, <1>5, <1>8, <1>10
  <2> QED
    BY <2>1, <2>2 DEF Ranked
<1>13. Chain
  <2>1. CASE order = Page!InOrder /\ \A f \in PageFiles : of[f] = 1
    BY <1>8, <1>10, <2>1, Named DEF Chain, Follows, Reviewed, Page!Of
  <2>2. CASE order = Page!SplitAgain /\ \A f \in PageFiles : of[f] = IF f \in AgainFiles THEN 2 ELSE 1
    <3>1. S = EarlierFiles \cup AgainFiles
      BY <2>2, ListNames DEF Lists, S
    <3>2. "mimo" \notin S
      BY <3>1 DEF EarlierFiles, AgainFiles, FirstFiles, AfterGateFiles, AfterNormalizeFiles
    <3>3. /\ "aligned" \in AgainFiles /\ "split" \in AgainFiles /\ "translated" \notin AgainFiles
          /\ "normalized" \notin AgainFiles /\ "srt" \notin AgainFiles /\ "vtt" \notin AgainFiles
          /\ "translated" \in EarlierFiles
      BY DEF AgainFiles, EarlierFiles
    <3>4. files["translated"].at < files["split"].at
      BY <1>5, <1>8, <2>2, <3>1, <3>3, ListNames, Named
    <3>5. Follows("translated", "split")
      BY <1>9, <3>4, Named DEF Follows
    <3>6. Follows("split", "aligned") /\ Follows("normalized", "translated")
          /\ Follows("srt", "normalized") /\ Follows("vtt", "normalized")
      BY <1>8, <1>10, <2>2, <3>3, Named, SMTT(30) DEF Follows, Page!Of
    <3>7. Reviewed /\ Follows("normalized", "mimo")
      BY <1>10, <3>2, Named DEF Follows, Reviewed
    <3> QED
      BY <3>5, <3>6, <3>7 DEF Chain
  <2> QED
    BY <1>2, <2>1, <2>2
<1>14. Owed /\ MimoAfter(todo) /\ Reported(todo)
  BY <1>1 DEF Owed, MimoAfter, Reported
<1> QED
  BY <1>1, <1>9, <1>12, <1>13, <1>14 DEF PageIInv, PageTypeOK

(* How the files of a workspace relate to the files they are made from is  *)
(* inductive, with what a running stage has still to do (PageIInv): for    *)
(* any stages, with any options, broken off anywhere (cli.py, commands).   *)
THEOREM PageInvariant == Page!Spec => []PageIInv
<1> QED
  BY PageInit, PageNext, PTL DEF Page!Spec

LEMMA NotOutdated ==
    ASSUME PageTypeOK, NEW st, ~Page!Outdated(st), NEW f \in Page!Inputs[st], Page!Exists(f), f \in PageFiles,
           NEW g \in Page!Written(st), Page!Written(st) \subseteq PageFiles, Ranked, f # g, Page!Exists(g)
    PROVE  files[g].at > files[f].at
<1> DEFINE times == {files[h].at : h \in Page!Written(st)}
           oldest == CHOOSE t \in times : \A u \in times : t <= u
<1>1. times \in SUBSET Nat /\ files[g].at \in times /\ files[f].at \in Nat /\ files[g].at \in Nat
  BY DEF PageTypeOK
<1>2. \E t \in times : \A u \in times : t <= u
  <2> HIDE DEF times
  <2> QED
    BY <1>1, LeastIndex
<1>3. oldest \in times /\ oldest <= files[g].at
  <2> HIDE DEF times
  <2> QED
    BY <1>1, <1>2
<1>4. Page!OldestOutput(st, times) = oldest
  BY DEF Page!OldestOutput
<1>5. ~(files[f].at > oldest)
  BY <1>4 DEF Page!Outdated
<1>6. files[f].at # files[g].at
  BY DEF Ranked
<1> HIDE DEF times, oldest
<1>7. oldest \in Nat
  BY <1>1, <1>3
<1> QED
  BY <1>1, <1>3, <1>5, <1>6, <1>7

LEMMA WrittenIs ==
    ASSUME NEW S, NEW st, Lists(Page!Outputs[st], S)
    PROVE  Page!Written(st) = {f \in S : Page!Exists(f)}
BY DEF Lists, Page!Written, Page!Listed

LEMMA PageIInvMeansTrue == PageIInv => Page!PageIsTrue
<1> SUFFICES ASSUME PageIInv, Page!AllWell, NEW f \in {"srt", "vtt"}, Page!Exists(f)
             PROVE  Page!Of(f) = Page!Of("aligned")
  BY DEF Page!PageIsTrue
<1>1. PageTypeOK /\ Ranked /\ Chain
  BY DEF PageIInv
<1>2. \A st \in Page!Stages : ~Page!Outdated(st)
  BY DEF Page!AllWell, Page!Shown, Page!Optional
<1>3. ASSUME NEW st \in {"align", "split", "translate", "normalize"} PROVE Page!IsComplete(st)
  BY DEF Page!AllWell, Page!Shown, Page!Optional, Page!Stages
<1>14. Page!Written("mimo") # {} => Page!Exists("mimoReport")
  BY <1>2 DEF Page!AllWell, Page!Shown, Page!Optional, Page!Stages, Page!IsComplete, Page!Needed
<1>4. /\ Page!Exists("aligned") /\ Page!Exists("split") /\ Page!Exists("translated") /\ Page!Exists("normalized")
  <2>1. Page!Exists("aligned")
    BY <1>3 DEF Page!IsComplete, Page!Needed
  <2>2. Page!Exists("split")
    BY <1>3 DEF Page!IsComplete, Page!Needed
  <2>3. Page!Exists("translated")
    BY <1>3 DEF Page!IsComplete, Page!Needed
  <2>4. Page!Exists("normalized")
    BY <1>3 DEF Page!IsComplete
  <2> QED
    BY <2>1, <2>2, <2>3, <2>4
<1>5. /\ "aligned" \in Page!Inputs.split /\ "split" \in Page!Inputs.translate /\ "translated" \in Page!Inputs.mimo
      /\ "translated" \in Page!Inputs.normalize /\ "mimo" \in Page!Inputs.normalize
      /\ "normalized" \in Page!Inputs.export
  BY DEF Page!Inputs
<1>6. {"split", "translate", "mimo", "normalize", "export"} \subseteq Page!Stages
  BY DEF Page!Stages
<1>7. /\ Page!Written("split") = {g \in {"split", "splitSrt"} : Page!Exists(g)}
      /\ Page!Written("translate") = {g \in {"translated", "translatedSrt"} : Page!Exists(g)}
      /\ Page!Written("mimo") = {g \in {"mimo", "mimoReport", "mimoSrt"} : Page!Exists(g)}
      /\ Page!Written("normalize") = {g \in {"normalized", "normalizedSrt"} : Page!Exists(g)}
      /\ Page!Written("export") = {g \in {"srt", "vtt"} : Page!Exists(g)}
  BY OutputNames, WrittenIs
<1>8. {"split", "splitSrt", "translated", "translatedSrt", "mimo", "mimoReport", "mimoSrt", "normalized",
       "normalizedSrt", "srt", "vtt"} \subseteq PageFiles
  BY DEF PageFiles, AfterCorrectFiles, AfterTranslateFiles, AfterGateFiles, AfterNormalizeFiles
<1>9. /\ Page!Written("split") \subseteq PageFiles /\ Page!Written("translate") \subseteq PageFiles
      /\ Page!Written("mimo") \subseteq PageFiles /\ Page!Written("normalize") \subseteq PageFiles
      /\ Page!Written("export") \subseteq PageFiles
  BY <1>7, <1>8
<1>10. Page!Of("split") = Page!Of("aligned")
  <2>1. "split" \in Page!Written("split")
    BY <1>4, <1>7
  <2>2. files["split"].at > files["aligned"].at
    BY <1>1, <1>2, <1>4, <1>5, <1>6, <1>9, <2>1, NotOutdated, Named
  <2> QED
    BY <1>1, <1>4, <2>2 DEF Chain, Follows
<1>11. Page!Of("translated") = Page!Of("split")
  <2>1. "translated" \in Page!Written("translate")
    BY <1>4, <1>7
  <2>2. files["translated"].at > files["split"].at
    BY <1>1, <1>2, <1>4, <1>5, <1>6, <1>9, <2>1, NotOutdated, Named
  <2> QED
    BY <1>1, <1>4, <2>2 DEF Chain, Follows
<1>12. Page!Of("normalized") = Page!Of("translated")
  <2>1. "normalized" \in Page!Written("normalize")
    BY <1>4, <1>7
  <2>2. files["normalized"].at > files["translated"].at
    BY <1>1, <1>2, <1>4, <1>5, <1>6, <1>9, <2>1, NotOutdated, Named
  <2>3. CASE ~Page!Exists("mimo")
    BY <1>1, <1>4, <2>2, <2>3 DEF Chain, Follows
  <2>4. CASE Page!Exists("mimo")
    <3>1. Page!Exists("mimoReport") /\ "mimoReport" \in Page!Written("mimo")
      BY <1>7, <1>14, <2>4
    <3>2. files["mimoReport"].at > files["translated"].at
      BY <1>1, <1>2, <1>4, <1>5, <1>6, <1>9, <2>4, <3>1, NotOutdated, Named
    <3>3. files["normalized"].at > files["mimo"].at
      BY <1>1, <1>2, <1>4, <1>5, <1>6, <1>9, <2>1, <2>4, NotOutdated, Named
    <3> QED
      BY <1>1, <1>4, <2>4, <3>1, <3>2, <3>3 DEF Chain, Follows, Reviewed
  <2> QED
    BY <2>3, <2>4
<1>13. Page!Of(f) = Page!Of("normalized")
  <2>1. f \in Page!Written("export") /\ f # "normalized"
    BY <1>7
  <2>2. files[f].at > files["normalized"].at
    BY <1>1, <1>2, <1>4, <1>5, <1>6, <1>9, <2>1, NotOutdated, Named
  <2> QED
    BY <1>1, <1>4, <2>2 DEF Chain, Follows
<1> QED
  BY <1>10, <1>11, <1>12, <1>13

(* When the page shows every stage as done, the subtitles come from the    *)
(* alignment that is there, whatever was started in whichever order        *)
(* (web/stage_service.py).                                                 *)
THEOREM PageIsTrueAlways == Page!Spec => []PageIsTrue
<1>1. PageIInv => PageIsTrue
  BY PageIInvMeansTrue DEF PageIsTrue
<1> QED
  BY <1>1, PageInvariant, PTL
=============================================================================
