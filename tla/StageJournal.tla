---------------------------- MODULE StageJournal ----------------------------
(***************************************************************************)
(* The files in which the transcribe and align stages keep their rows      *)
(* (qwen_asr/commands/transcribe.py, align.py, stages.py over storage.py): *)
(* per stage a manifest, a checkpoint and a journal of events, written one *)
(* after the other for every segment.  A run is a process that may be      *)
(* killed between any two writes; the next run resumes from the files, and *)
(* a forced run, or a CI run with reset_from (qwen_asr/ci/phase.py), is to *)
(* compute them anew.                                                      *)
(***************************************************************************)
EXTENDS Naturals

CONSTANTS Segments,     \* the segments of the media
          Outcomes,     \* bound: what the models may make of a segment
          MaxRequests   \* bound: how often anything is asked to be computed anew

ASSUME JournalAssumption == /\ Segments # {} /\ MaxRequests \in Nat
                            /\ Outcomes \subseteq {"failed", "blank", "completed"}

VARIABLES file,      \* file[s]: the three files of stage s
          job,       \* the process at work, or (stage "off") the last one
          memory,    \* memory[s]: the rows of stage s that process has read
          requests,  \* how often anything was asked to be computed anew
          reported,  \* reported[s]: the segments last shown as done for stage s
          ok         \* ok[s]: stage s of the last process returned 0

vars == <<file, job, memory, requests, reported, ok>>

Stages    == {"transcribe", "align"}
FromOn(s) == IF s = "transcribe" THEN Stages ELSE {s}   \* s and the stages after it

(* A transcript without text is "completed" too, but cannot be aligned.    *)
States(s) == IF s = "transcribe" THEN {"none", "failed", "blank", "completed"}
                                 ELSE {"none", "failed", "completed"}
Row(s)  == [state : States(s), of : 0..MaxRequests]     \* of: the request it answers
Rows(s) == [Segments -> Row(s)]
NoRow   == [state |-> "none", of |-> 0]
Empty   == [g \in Segments |-> NoRow]

(* A file that was being written in place when the process died is torn.   *)
(* Of the journal only the last event of a segment can be told from disk.  *)
Files(s) == [manifest : Rows(s), checkpoint : Rows(s), events : Rows(s),
             torn : SUBSET {"manifest", "checkpoint"}]
NoMemory == [s \in Stages |-> Empty]
NoFiles  == [manifest |-> Empty, checkpoint |-> Empty, events |-> Empty, torn |-> {}]

Job == [stage : Stages \cup {"off"}, last : Stages,
        step : {"clear", "read", "restore", "begin", "work", "checkpoint",
                "manifest", "progress"},
        reading : Stages, force : BOOLEAN, reset : Stages \cup {"none"},
        clear : SUBSET Stages, pending : SUBSET Segments]
Off == [stage |-> "off", last |-> "align", step |-> "clear", reading |-> "transcribe",
        force |-> FALSE, reset |-> "none", clear |-> {}, pending |-> {}]

Init == /\ file = [s \in Stages |-> NoFiles]
        /\ job = Off
        /\ memory = NoMemory
        /\ requests = 0
        /\ reported = [s \in Stages |-> {}]
        /\ ok = [s \in Stages |-> FALSE]
-----------------------------------------------------------------------------
Done(rows)     == {g \in Segments : rows[g].state \in {"blank", "completed"}}
WithText(rows) == {g \in Segments : rows[g].state = "completed"}
Eligible(s)    == IF s = "transcribe" THEN Segments ELSE WithText(memory["transcribe"])

(* _recover_manifest_from_checkpoint_and_events: the checkpoint, overridden *)
(* by every event of the journal.                                          *)
Recovered(s) == [g \in Segments |-> IF file[s].events[g].state # "none"
                                    THEN file[s].events[g] ELSE file[s].checkpoint[g]]

(* The rows of the segments the stage goes through, in their order.        *)
Ordered(s) == [g \in Segments |->
                 IF s = "align" /\ memory["transcribe"][g].state = "none"
                 THEN NoRow ELSE memory[s][g]]

At(step)     == job.stage # "off" /\ job.step = step
Goto(step)   == job' = [job EXCEPT !.step = step]
Stop         == /\ job' = [Off EXCEPT !.force = job.force, !.reset = job.reset]
                /\ memory' = NoMemory
Remember(s, rows) == memory' = [memory EXCEPT ![s] = rows]
PutManifest(s, rows) ==
    file' = [file EXCEPT ![s].manifest = rows, ![s].torn = @ \ {"manifest"}]
PutCheckpoint(s, rows) ==
    file' = [file EXCEPT ![s].checkpoint = rows, ![s].torn = @ \ {"checkpoint"}]
-----------------------------------------------------------------------------
(* A run of the stages first..last.  Only a CI run, which has both, may     *)
(* name a stage to reset.                                                  *)
ToClear(first, force, reset) ==
    (IF reset # "none" THEN FromOn(reset) ELSE {}) \cup (IF force THEN FromOn(first) ELSE {})

Start(first, last, force, reset) ==
    /\ job.stage = "off"
    /\ last \in FromOn(first)
    /\ reset # "none" => first = "transcribe" /\ last = "align"
    /\ force \/ reset # "none" => requests < MaxRequests
    /\ requests' = IF force \/ reset # "none" THEN requests + 1 ELSE requests
    /\ job' = [Off EXCEPT !.stage = first, !.last = last, !.force = force,
                          !.reset = reset, !.clear = ToClear(first, force, reset)]
    /\ memory' = NoMemory
    /\ reported' = [s \in Stages |-> IF s \in ToClear(first, force, reset)
                                     THEN {} ELSE reported[s]]
    /\ ok' = [s \in Stages |-> FALSE]
    /\ UNCHANGED file

(* reset_from and --force delete the manifests of the stage and of those    *)
(* after it, one unlink at a time (not the checkpoints and the journals).   *)
Clear(s) ==
    /\ At("clear") /\ s \in job.clear
    /\ s = "align" => "transcribe" \notin job.clear
    /\ PutManifest(s, Empty)
    /\ job' = [job EXCEPT !.clear = @ \ {s}]
    /\ UNCHANGED <<memory, requests, reported, ok>>

Cleared ==
    /\ At("clear") /\ job.clear = {}
    /\ Goto("read")
    /\ UNCHANGED <<file, memory, requests, reported, ok>>

(* load_transcripts and load_aligned_segments: the manifest, or if that is  *)
(* missing or empty what can be recovered, which then is written back.  The *)
(* align stage reads the transcripts, which must not be empty, and then its *)
(* own rows; a forced stage does not read its own.                         *)
Proceed(s, rows) ==
    IF s # job.stage /\ rows = Empty THEN Stop
    ELSE /\ job' = IF s = job.stage THEN [job EXCEPT !.step = "begin"]
                   ELSE [job EXCEPT !.step = "read", !.reading = "align"]
         /\ Remember(s, rows)

ReadsOwn     == job.reading = job.stage
StartsEmptyNever  == FALSE
StartsEmptyAlways == ReadsOwn
StartsEmpty  == job.force /\ ReadsOwn

ReadNothing ==
    /\ At("read") /\ StartsEmpty
    /\ Goto("begin")
    /\ UNCHANGED <<file, memory, requests, reported, ok>>

ReadManifest ==
    LET s == job.reading IN
    /\ At("read") /\ ~StartsEmpty
    /\ "manifest" \notin file[s].torn /\ file[s].manifest # Empty
    /\ Proceed(s, file[s].manifest)
    /\ UNCHANGED <<file, requests, reported, ok>>

ReadJournal ==
    LET s == job.reading IN
    /\ At("read") /\ ~StartsEmpty
    /\ "manifest" \notin file[s].torn /\ file[s].manifest = Empty
    /\ "checkpoint" \notin file[s].torn
    /\ IF Recovered(s) = Empty THEN Proceed(s, Empty)
       ELSE Goto("restore") /\ Remember(s, Recovered(s))
    /\ UNCHANGED <<file, requests, reported, ok>>

Restored(s)    == memory[s]
Restore ==
    LET s == job.reading IN
    /\ At("restore")
    /\ PutManifest(s, Restored(s))
    /\ Proceed(s, memory[s])
    /\ UNCHANGED <<requests, reported, ok>>

(* read_json raises on a torn file: the stage fails, now and next time.    *)
ReadFails ==
    LET s == job.reading IN
    /\ At("read") /\ ~StartsEmpty
    /\ \/ "manifest" \in file[s].torn
       \/ file[s].manifest = Empty /\ "checkpoint" \in file[s].torn
    /\ Stop
    /\ UNCHANGED <<file, requests, reported, ok>>
-----------------------------------------------------------------------------
(* The stage is over, with 0 if good; the run goes on only then.           *)
Finish(good) ==
    /\ ok' = [ok EXCEPT ![job.stage] = good]
    /\ IF good /\ job.stage # job.last
       THEN /\ job' = [job EXCEPT !.stage = "align", !.step = "clear",
                                   !.reading = "transcribe",
                                   !.clear = IF job.force THEN {"align"} ELSE {}]
            /\ memory' = NoMemory
       ELSE Stop

(* If every row is there already the model is not even loaded.             *)
AllThere == /\ ~job.force
            /\ Eligible(job.stage) # {}
            /\ Eligible(job.stage) \subseteq Done(memory[job.stage])

Skip ==
    /\ At("begin") /\ AllThere
    /\ reported' = [reported EXCEPT ![job.stage] = Eligible(job.stage)]
    /\ Finish(TRUE)
    /\ UNCHANGED <<file, requests>>

Pending(s)       == Eligible(s) \ Done(memory[s])

BeginWork ==
    /\ At("begin") /\ ~AllThere
    /\ job' = [job EXCEPT !.step = "work", !.pending = Pending(job.stage)]
    /\ UNCHANGED <<file, memory, requests, reported, ok>>

(* A segment has been transcribed or aligned, well or not: its row is       *)
(* appended to the journal.  Batches come in the planner's order.          *)
Work(g, state) ==
    LET s == job.stage
        row == [state |-> state, of |-> requests] IN
    /\ At("work") /\ g \in job.pending
    /\ state \in Outcomes \cap States(s)
    /\ Remember(s, [memory[s] EXCEPT ![g] = row])
    /\ file' = [file EXCEPT ![s].events[g] = row]
    /\ job' = [job EXCEPT !.step = "checkpoint", !.pending = @ \ {g}]
    /\ UNCHANGED <<requests, reported, ok>>

WriteCheckpoint ==
    /\ At("checkpoint")
    /\ PutCheckpoint(job.stage, Ordered(job.stage))
    /\ Goto("manifest")
    /\ UNCHANGED <<memory, requests, reported, ok>>

WriteManifest ==
    /\ At("manifest")
    /\ PutManifest(job.stage, Ordered(job.stage))
    /\ Goto("progress")
    /\ UNCHANGED <<memory, requests, reported, ok>>

ReportProgress ==
    /\ At("progress")
    /\ reported' = [reported EXCEPT ![job.stage] = Done(Ordered(job.stage))]
    /\ Goto("work")
    /\ UNCHANGED <<file, memory, requests, ok>>

(* Transcribing is good enough with one text, aligning with every text.    *)
GoodEnough(s) == IF s = "transcribe"
                 THEN WithText(Ordered(s)) # {}
                 ELSE Eligible(s) # {} /\ Eligible(s) \subseteq Done(Ordered(s))

End ==
    /\ At("work") /\ job.pending = {}
    /\ Finish(GoodEnough(job.stage))
    /\ UNCHANGED <<file, requests, reported>>
-----------------------------------------------------------------------------
(* The process is killed, or an exception ends it.                         *)
Crash ==
    /\ job.stage # "off"
    /\ Stop
    /\ UNCHANGED <<file, requests, reported, ok>>

(* write_json_atomic replaces a file, but writes it in place if a reader    *)
(* has it open (PermissionError): killed in the middle it leaves it torn.   *)
TearManifest(s) ==
    /\ \/ At("manifest") /\ s = job.stage
       \/ At("restore") /\ s = job.reading
    /\ file' = [file EXCEPT ![s].manifest = Empty, ![s].torn = @ \cup {"manifest"}]
    /\ Stop
    /\ UNCHANGED <<requests, reported, ok>>

TearCheckpoint(s) ==
    /\ At("checkpoint") /\ s = job.stage
    /\ file' = [file EXCEPT ![s].checkpoint = Empty, ![s].torn = @ \cup {"checkpoint"}]
    /\ Stop
    /\ UNCHANGED <<requests, reported, ok>>
-----------------------------------------------------------------------------
Next == \/ \E first, last \in Stages, force \in BOOLEAN, reset \in Stages \cup {"none"} :
              Start(first, last, force, reset)
        \/ \E s \in Stages : Clear(s)
        \/ Cleared \/ ReadNothing \/ ReadManifest \/ ReadJournal \/ Restore \/ ReadFails
        \/ Skip \/ BeginWork
        \/ \E g \in Segments, state \in Outcomes : Work(g, state)
        \/ WriteCheckpoint \/ WriteManifest \/ ReportProgress \/ End
        \/ Crash
        \/ \E s \in Stages : TearManifest(s) \/ TearCheckpoint(s)

Spec == Init /\ [][Next]_vars
-----------------------------------------------------------------------------
TypeOK == /\ file = [s \in Stages |-> file[s]]
          /\ memory = [s \in Stages |-> memory[s]]
          /\ \A s \in Stages : file[s] \in Files(s) /\ memory[s] \in Rows(s)
          /\ job \in Job
          /\ job.stage = "align" => job.pending \subseteq WithText(memory["transcribe"])
          /\ requests \in 0..MaxRequests
          /\ reported \in [Stages -> SUBSET Segments]
          /\ ok \in [Stages -> BOOLEAN]

Torn(s, name) == name \in file[s].torn

(* What was once shown as done is never lost, wherever a process is killed  *)
(* and whichever file it leaves torn: it is in the manifest or, if that is  *)
(* torn or gone, in what the checkpoint and the journal still hold.        *)
ReportedIsKept == \A s \in Stages :
    IF ~Torn(s, "manifest") /\ file[s].manifest # Empty
    THEN reported[s] \subseteq Done(file[s].manifest)
    ELSE reported[s] # {} => /\ ~Torn(s, "checkpoint")
                             /\ reported[s] \subseteq Done(Recovered(s))

(* When the align stage has returned 0, skipped or not, the two manifests   *)
(* alone, which is all ArtifactState reads, show it complete.              *)
AlignedMeansComplete ==
    ok["align"] => /\ ~Torn("transcribe", "manifest") /\ ~Torn("align", "manifest")
                   /\ WithText(file["transcribe"].manifest) # {}
                   /\ WithText(file["transcribe"].manifest) \subseteq WithText(file["align"].manifest)

Fresh(s) == \A g \in Segments : file[s].manifest[g].state # "none"
                                  => file[s].manifest[g].of = requests

(* A stage that was forced and returned 0 holds only rows of that run,      *)
(* whatever older runs, killed or not, had left in checkpoint and journal. *)
ForcedIsFresh == \A s \in Stages : job.force /\ ok[s] => Fresh(s)

(* A stage that has ended well has left what its run was asked for. *)
EndedIsWhole == AlignedMeansComplete /\ ForcedIsFresh

(* A run that was not asked to compute anything anew changes no row that   *)
(* was completed (of the alignments, while the transcript is still there). *)
ResumeKeepsRows ==
    [][\A s \in Stages :
         ~job.force /\ job.reset = "none" /\ ~Torn(s, "manifest") /\ ~Torn(s, "manifest")'
           => \A g \in Done(file[s].manifest) :
                file["transcribe"].manifest[g].state # "none"
                  => file'[s].manifest[g] = file[s].manifest[g]]_vars

(* qwen_asr/ci/phase.py:84: reset_from discards the outputs of the stage    *)
(* and of everything downstream, so the resumed run recomputes them.       *)
ResetRecomputes ==
    \A s \in Stages : job.reset # "none" /\ s \in FromOn(job.reset) /\ ok[s] => Fresh(s)
=============================================================================
