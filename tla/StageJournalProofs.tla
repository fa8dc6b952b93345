------------------------- MODULE StageJournalProofs -------------------------
(***************************************************************************)
(* Theorems about StageJournal for every number of segments, requests and  *)
(* crashes, and whatever the models make of a segment.                     *)
(*                                                                         *)
(* The key of the argument is that the journal is never deleted: whatever  *)
(* manifest, checkpoint or memory hold is in it too, and what was reported *)
(* is done in it.  So all that can lose a reported row is a torn file, and *)
(* one of manifest and checkpoint is whole whenever the other is written.  *)
(*                                                                         *)
(* And, for every recording and any commands, about the windows the rows   *)
(* of transcribe are of (Transcription, as MCTranscription instantiates    *)
(* it).                                                                    *)
(***************************************************************************)
EXTENDS StageJournal, MCTranscription, SequenceTheorems, WellFoundedInduction, TLAPS

Present(rows) == {g \in Segments : rows[g].state # "none"}

(* What a stage must not lose: the rows reported for it and, of the        *)
(* transcripts, those of reported alignments, without which these are      *)
(* dropped from the order.                                                 *)
Needed(s)  == IF s = "transcribe" THEN reported["align"] ELSE {}
Holds(s, rows) == reported[s] \subseteq Done(rows) /\ Needed(s) \subseteq Present(rows)
Whole(s)   == ~Torn(s, "manifest") /\ file[s].manifest # Empty
Claims(s)  == reported[s] \cup Needed(s) # {}
Logged(s, rows) == Present(rows) \subseteq Present(file[s].events)
Recent(rows) == \A g \in Segments : rows[g].state # "none" => rows[g].of = requests

Own    == {"begin", "work", "checkpoint", "manifest", "progress"}
Before == {"clear", "read", "restore"}

JobOK == job.stage # "off" =>
    /\ job.stage = "transcribe" => job.reading = "transcribe"
    /\ job.step \in Own => job.reading = job.stage
    /\ job.step = "clear" => job.reading = "transcribe"
    /\ job.step # "clear" => job.clear = {}
    /\ job.stage = "align" => job.clear \subseteq {"align"}
    /\ job.last \in FromOn(job.stage)
    /\ job.clear # {} => job.force \/ job.reset # "none"
    /\ job.step \in Before \cup {"begin"} => job.pending = {}
    /\ job.force /\ job.step = "restore" => job.reading # job.stage
    /\ \A s \in job.clear : reported[s] = {} /\ Needed(s) = {}
    /\ job.force /\ job.step \in Before => reported[job.stage] = {} /\ Needed(job.stage) = {}
    /\ job.force /\ job.stage = "transcribe" => reported["align"] = {}

FilesOK(s) ==
    /\ Torn(s, "manifest") => file[s].manifest = Empty
    /\ Logged(s, file[s].manifest) /\ Logged(s, file[s].checkpoint)
    /\ Done(file[s].manifest) \subseteq Done(file[s].events)
    /\ Holds(s, file[s].events)
    /\ Whole(s) => Holds(s, file[s].manifest)
    /\ Claims(s) /\ ~Whole(s) => ~Torn(s, "checkpoint")

(* What the process has read of the transcripts and of its own rows. *)
MemoryOK ==
    LET s == job.stage IN
    job.stage # "off" =>
    /\ job.step \in {"clear", "read"} => memory[s] = Empty
    /\ job.step = "restore" /\ job.reading # s => memory[s] = Empty
    /\ job.step = "restore" =>
         LET r == job.reading IN
         /\ Holds(r, memory[r]) /\ Logged(r, memory[r])
         /\ Done(memory[r]) \subseteq Done(file[r].events)
         /\ memory[r] # Empty /\ file[r].manifest = Empty /\ ~Torn(r, "checkpoint")
    /\ s = "align" /\ job.reading = "align" =>
         Whole("transcribe") /\ memory["transcribe"] = file["transcribe"].manifest
    /\ job.step \in Own =>
         /\ Holds(s, memory[s]) /\ Logged(s, memory[s])
         /\ Done(memory[s]) \subseteq Done(file[s].events)
         /\ job.pending \cap Done(memory[s]) = {}
    /\ job.step \in {"begin", "work", "checkpoint"} /\ Claims(s) => Whole(s)
    /\ job.step = "begin" => memory[s] = Empty \/ (Whole(s) /\ memory[s] = file[s].manifest)
    /\ job.step = "work" => Done(Ordered(s)) \subseteq Done(file[s].manifest)
    /\ job.step = "manifest" => ~Torn(s, "checkpoint")
    /\ job.step = "progress" => ~Torn(s, "manifest") /\ file[s].manifest = Ordered(s)
    /\ job.step \in Own => Done(file[s].manifest) \subseteq Done(memory[s])
    /\ ~job.force /\ job.step \in Own =>
         \A g \in Done(file[s].manifest) : memory[s][g] = file[s].manifest[g]

(* A forced run, and what stages that returned 0 have left. *)
ForcedOK ==
    LET s == job.stage IN
    /\ job.force /\ s # "off" /\ s \notin job.clear => Recent(file[s].manifest) /\ Recent(memory[s])
    /\ job.force /\ job.step \in Before \cup {"begin"} /\ s # "off" /\ s \notin job.clear
         => file[s].manifest = Empty
    /\ job.force => \A r \in Stages : ok[r] => Recent(file[r].manifest) /\ Whole(r)

ReturnedOK == /\ ok["transcribe"] => job.stage # "transcribe"
              /\ ok["align"] => job.stage = "off"
              /\ AlignedMeansComplete

IInv == TypeOK /\ JobOK /\ (\A s \in Stages : FilesOK(s)) /\ MemoryOK /\ ForcedOK /\ ReturnedOK
-----------------------------------------------------------------------------
(* Types, in parts, so that a step need only look at what it changes. *)
FileType   == file = [s \in Stages |-> file[s]] /\ \A s \in Stages : file[s] \in Files(s)
MemoryType == memory = [s \in Stages |-> memory[s]] /\ \A s \in Stages : memory[s] \in Rows(s)
PendingOK  == job.stage = "align" => job.pending \subseteq WithText(memory["transcribe"])

LEMMA TypeParts ==
    TypeOK <=> /\ FileType /\ MemoryType /\ job \in Job /\ PendingOK
               /\ requests \in 0..MaxRequests
               /\ reported \in [Stages -> SUBSET Segments]
               /\ ok \in [Stages -> BOOLEAN]
  BY DEF TypeOK, FileType, MemoryType, PendingOK

LEMMA TypePartsAfter ==
  ASSUME FileType', MemoryType', job' \in Job, PendingOK', requests' \in 0..MaxRequests,
         reported' \in [Stages -> SUBSET Segments], ok' \in [Stages -> BOOLEAN]
  PROVE  TypeOK'
  BY DEF TypeOK, FileType, MemoryType, PendingOK

LEMMA EmptyType == \A s \in Stages : Empty \in Rows(s)
  <1> SUFFICES ASSUME NEW s \in Stages PROVE Empty \in Rows(s)
      OBVIOUS
  <1>1. 0 \in 0..MaxRequests
    BY JournalAssumption
  <1>2. NoRow \in Row(s)
    BY <1>1 DEF NoRow, Row, States
  <1> QED
    BY <1>2 DEF Empty, Rows

LEMMA EmptyHasNothing == Done(Empty) = {} /\ Present(Empty) = {} /\ WithText(Empty) = {}
  BY DEF Done, Present, WithText, Empty, NoRow

LEMMA NoMemoryType == memory' = NoMemory => MemoryType'
  BY EmptyType DEF NoMemory, MemoryType

LEMMA StopFacts ==
  ASSUME job \in Job, Stop
  PROVE  /\ job' \in Job /\ job'.stage = "off" /\ job'.force = job.force
         /\ MemoryType' /\ PendingOK' /\ \A s \in Stages : memory'[s] = Empty
  BY NoMemoryType DEF Stop, Off, Job, PendingOK, Stages, NoMemory

(* Writing one file of stage s leaves its other files, and stage r, alone. *)
LEMMA PutManifestFacts ==
  ASSUME FileType, NEW s \in Stages, NEW rows \in Rows(s), PutManifest(s, rows)
  PROVE  /\ FileType'
         /\ file'[s].manifest = rows /\ file'[s].checkpoint = file[s].checkpoint
         /\ file'[s].events = file[s].events /\ file'[s].torn = file[s].torn \ {"manifest"}
         /\ \A r \in Stages : r # s => file'[r] = file[r]
  <1>1. file[s] \in Files(s) /\ \A r \in Stages : file[r] \in Files(r)
    BY DEF FileType
  <1>2. file'[s] = [file[s] EXCEPT !.manifest = rows, !.torn = @ \ {"manifest"}]
    BY DEF FileType, PutManifest
  <1>3. \A r \in Stages : r # s => file'[r] = file[r]
    BY DEF FileType, PutManifest
  <1>4. file' = [r \in Stages |-> file'[r]]
    BY Zenon DEF FileType, PutManifest
  <1>5. /\ file'[s].manifest = rows /\ file'[s].checkpoint = file[s].checkpoint
        /\ file'[s].events = file[s].events /\ file'[s].torn = file[s].torn \ {"manifest"}
    BY <1>1, <1>2 DEF Files
  <1>6. file[s].torn \ {"manifest"} \in SUBSET {"manifest", "checkpoint"}
    BY <1>1 DEF Files
  <1>7. [file[s] EXCEPT !.manifest = rows, !.torn = @ \ {"manifest"}] \in Files(s)
    <2>1. file[s] \in Files(s)
      BY <1>1
    <2> QED
      BY <2>1, <1>6 DEF Files
  <1>8. file'[s] \in Files(s)
    BY <1>2, <1>7
  <1> QED
    BY <1>1, <1>3, <1>4, <1>5, <1>8 DEF FileType

LEMMA PutCheckpointFacts ==
  ASSUME FileType, NEW s \in Stages, NEW rows \in Rows(s), PutCheckpoint(s, rows)
  PROVE  /\ FileType'
         /\ file'[s].checkpoint = rows /\ file'[s].manifest = file[s].manifest
         /\ file'[s].events = file[s].events /\ file'[s].torn = file[s].torn \ {"checkpoint"}
         /\ \A r \in Stages : r # s => file'[r] = file[r]
  <1>1. file[s] \in Files(s) /\ \A r \in Stages : file[r] \in Files(r)
    BY DEF FileType
  <1>2. file'[s] = [file[s] EXCEPT !.checkpoint = rows, !.torn = @ \ {"checkpoint"}]
    BY DEF FileType, PutCheckpoint
  <1>3. \A r \in Stages : r # s => file'[r] = file[r]
    BY DEF FileType, PutCheckpoint
  <1>4. file' = [r \in Stages |-> file'[r]]
    BY Zenon DEF FileType, PutCheckpoint
  <1>5. /\ file'[s].checkpoint = rows /\ file'[s].manifest = file[s].manifest
        /\ file'[s].events = file[s].events /\ file'[s].torn = file[s].torn \ {"checkpoint"}
    BY <1>1, <1>2 DEF Files
  <1>6. file[s].torn \ {"checkpoint"} \in SUBSET {"manifest", "checkpoint"}
    BY <1>1 DEF Files
  <1>7. [file[s] EXCEPT !.checkpoint = rows, !.torn = @ \ {"checkpoint"}] \in Files(s)
    <2>1. file[s] \in Files(s)
      BY <1>1
    <2> QED
      BY <2>1, <1>6 DEF Files
  <1>8. file'[s] \in Files(s)
    BY <1>2, <1>7
  <1> QED
    BY <1>1, <1>3, <1>4, <1>5, <1>8 DEF FileType

(* A whole manifest may be replaced by any rows that hold what is needed.  *)
LEMMA PutManifestStep ==
  ASSUME IInv, NEW s \in Stages, NEW rows \in Rows(s), PutManifest(s, rows),
         reported' = reported, Holds(s, rows), Logged(s, rows),
         Done(rows) \subseteq Done(file[s].events)
  PROVE  FileType' /\ \A r \in Stages : FilesOK(r)'
  <1>1. FileType
    BY TypeParts DEF IInv
  <1>2. /\ FileType'
        /\ file'[s].manifest = rows /\ file'[s].checkpoint = file[s].checkpoint
        /\ file'[s].events = file[s].events /\ file'[s].torn = file[s].torn \ {"manifest"}
        /\ \A r \in Stages : r # s => file'[r] = file[r]
    BY <1>1, PutManifestFacts
  <1>3. \A r \in Stages : FilesOK(r)
    BY DEF IInv
  <1>4. ASSUME NEW r \in Stages, r # s PROVE FilesOK(r)'
    BY <1>2, <1>3, <1>4 DEF FilesOK, Holds, Needed, Whole, Claims, Logged, Torn
  <1>5. rows = Empty => ~Claims(s)'
    BY EmptyHasNothing DEF Claims, Holds, Needed
  <1>6. FilesOK(s)'
    BY <1>2, <1>3, <1>5 DEF FilesOK, Holds, Needed, Whole, Claims, Logged, Torn
  <1> QED
    BY <1>2, <1>4, <1>6

LEMMA PutCheckpointStep ==
  ASSUME IInv, NEW s \in Stages, NEW rows \in Rows(s), PutCheckpoint(s, rows),
         reported' = reported, Logged(s, rows)
  PROVE  FileType' /\ \A r \in Stages : FilesOK(r)'
  <1>1. FileType
    BY TypeParts DEF IInv
  <1>2. /\ FileType'
        /\ file'[s].checkpoint = rows /\ file'[s].manifest = file[s].manifest
        /\ file'[s].events = file[s].events /\ file'[s].torn = file[s].torn \ {"checkpoint"}
        /\ \A r \in Stages : r # s => file'[r] = file[r]
    BY <1>1, PutCheckpointFacts
  <1>3. \A r \in Stages : FilesOK(r)
    BY DEF IInv
  <1>4. ASSUME NEW r \in Stages, r # s PROVE FilesOK(r)'
    BY <1>2, <1>3, <1>4 DEF FilesOK, Holds, Needed, Whole, Claims, Logged, Torn
  <1>6. FilesOK(s)'
    BY <1>2, <1>3 DEF FilesOK, Holds, Needed, Whole, Claims, Logged, Torn
  <1> QED
    BY <1>2, <1>4, <1>6

(* What the checkpoint and the journal together still hold. *)
LEMMA RecoveredFacts ==
  ASSUME IInv, NEW s \in Stages
  PROVE  /\ Recovered(s) \in Rows(s)
         /\ Holds(s, Recovered(s)) /\ Logged(s, Recovered(s))
         /\ Done(Recovered(s)) = Done(file[s].events)
  <1>1. /\ FilesOK(s) /\ file[s].events \in Rows(s) /\ file[s].checkpoint \in Rows(s)
        /\ s \in Stages
    BY DEF IInv, TypeOK, Files
  <1>2. Recovered(s) \in Rows(s)
    BY <1>1 DEF Recovered, Rows
  <1>3. \A g \in Segments : Recovered(s)[g].state = file[s].events[g].state
    BY <1>1 DEF FilesOK, Logged, Present, Recovered
  <1>4. Done(Recovered(s)) = Done(file[s].events) /\ Present(Recovered(s)) = Present(file[s].events)
    BY <1>3 DEF Done, Present
  <1> QED
    BY <1>1, <1>2, <1>4 DEF FilesOK, Holds, Logged

(* The rows a stage at work writes hold everything its memory must hold. *)
LEMMA OrderedFacts ==
  ASSUME IInv, job.stage # "off", job.step \in Own
  PROVE  LET s == job.stage IN
         /\ Ordered(s) \in Rows(s)
         /\ Holds(s, Ordered(s)) /\ Logged(s, Ordered(s))
         /\ Done(Ordered(s)) \subseteq Done(memory[s])
         /\ Done(Ordered(s)) \subseteq Done(file[s].events)
         /\ s = "align" => Done(Ordered(s)) \subseteq Present(memory["transcribe"])
         /\ \A g \in Present(Ordered(s)) : Ordered(s)[g] = memory[s][g]
         /\ s = "transcribe" => Present(Ordered(s)) = Present(memory[s])
  <1> DEFINE s == job.stage
  <1>1. s \in Stages /\ memory[s] \in Rows(s) /\ Empty \in Rows(s)
    BY EmptyType DEF IInv, TypeOK, Job
  <1>2. NoRow \in Row(s)
    BY <1>1, JournalAssumption DEF NoRow, Row, States
  <1>3. Ordered(s) \in Rows(s)
    BY <1>1, <1>2 DEF Rows, Ordered
  <1>4. \A g \in Present(Ordered(s)) : Ordered(s)[g] = memory[s][g]
    BY DEF Present, Ordered, NoRow
  <1>5. Done(Ordered(s)) \subseteq Done(memory[s]) /\ Present(Ordered(s)) \subseteq Present(memory[s])
    BY <1>4 DEF Present, Done
  <1>6. Holds(s, memory[s]) /\ Logged(s, memory[s]) /\ Done(memory[s]) \subseteq Done(file[s].events)
    BY DEF IInv, MemoryOK
  <1>7. s = "align" => Done(Ordered(s)) \subseteq Present(memory["transcribe"])
    BY DEF Present, Done, Ordered, NoRow
  <1>8. Holds(s, Ordered(s)) /\ (s = "transcribe" => Present(Ordered(s)) = Present(memory[s]))
    <2>1. CASE s = "transcribe"
      <3>1. \A g \in Segments : Ordered(s)[g] = memory[s][g]
        BY <2>1 DEF Ordered
      <3>2. Done(Ordered(s)) = Done(memory[s]) /\ Present(Ordered(s)) = Present(memory[s])
        BY <3>1 DEF Done, Present
      <3> QED
        BY <3>2, <1>6 DEF Holds
    <2>2. CASE s = "align"
      <3>1. Whole("transcribe") /\ memory["transcribe"] = file["transcribe"].manifest
        BY <2>2 DEF IInv, MemoryOK, JobOK
      <3>2. reported["align"] \subseteq Present(memory["transcribe"])
        BY <3>1 DEF IInv, FilesOK, Holds, Needed, Stages
      <3>3. reported["align"] \subseteq Done(Ordered("align"))
        BY <3>2, <1>6, <2>2 DEF Holds, Done, Present, Ordered
      <3> QED
        BY <3>3, <2>2 DEF Holds, Needed
    <2> QED
      BY <1>1, <2>1, <2>2 DEF Stages
  <1> QED
    BY <1>3, <1>4, <1>5, <1>6, <1>7, <1>8 DEF Logged

(* Whatever ends a process: a stage that returned 0 keeps its manifest. *)
LEMMA StopStep ==
  ASSUME IInv, Stop, UNCHANGED <<requests, reported, ok>>, job.stage # "off",
         FileType', \A s \in Stages : FilesOK(s)',
         \A s \in Stages : job.force /\ ok[s] => file'[s].manifest = file[s].manifest
                                                 /\ file'[s].torn = file[s].torn
  PROVE  IInv'
  <1>1. job \in Job
    BY DEF IInv, TypeOK
  <1>2. /\ job' \in Job /\ job'.stage = "off" /\ job'.force = job.force
        /\ MemoryType' /\ PendingOK' /\ \A s \in Stages : memory'[s] = Empty
    BY <1>1, StopFacts
  <1>3. TypeOK'
    BY <1>2, TypeParts DEF IInv, TypeOK, FileType, MemoryType, PendingOK
  <1>4. JobOK' /\ MemoryOK'
    BY <1>2 DEF JobOK, MemoryOK
  <1>5. ForcedOK'
    BY <1>2 DEF ForcedOK, IInv, Recent, Whole, Torn
  <1>6. ReturnedOK'
    BY <1>2 DEF ReturnedOK, IInv, AlignedMeansComplete, Torn
  <1> QED
    BY <1>3, <1>4, <1>5, <1>6 DEF IInv
-----------------------------------------------------------------------------
LEMMA CrashIInv == IInv /\ Crash => IInv'
  <1> SUFFICES ASSUME IInv, Crash PROVE IInv'
      OBVIOUS
  <1>1. FileType'
    BY DEF Crash, IInv, TypeOK, FileType
  <1>2. \A s \in Stages : FilesOK(s)'
    BY DEF Crash, IInv, FilesOK, Holds, Needed, Whole, Claims, Logged, Torn
  <1> QED
    BY <1>1, <1>2, StopStep DEF Crash

LEMMA ReadFailsIInv == IInv /\ ReadFails => IInv'
  <1> SUFFICES ASSUME IInv, ReadFails PROVE IInv'
      OBVIOUS
  <1>1. FileType'
    BY DEF ReadFails, IInv, TypeOK, FileType
  <1>2. \A s \in Stages : FilesOK(s)'
    BY DEF ReadFails, IInv, FilesOK, Holds, Needed, Whole, Claims, Logged, Torn
  <1> QED
    BY <1>1, <1>2, StopStep DEF ReadFails, At

(* A torn file counts as empty, and the other one was whole before. *)
LEMMA TearFacts ==
  ASSUME FileType, NEW s \in Stages, TearManifest(s) \/ TearCheckpoint(s)
  PROVE  /\ FileType'
         /\ file'[s].events = file[s].events
         /\ \A r \in Stages : r # s => file'[r] = file[r]
  BY EmptyType DEF FileType, TearManifest, TearCheckpoint, Files

LEMMA TearManifestIInv == \A s \in Stages : IInv /\ TearManifest(s) => IInv'
  <1> SUFFICES ASSUME NEW s \in Stages, IInv, TearManifest(s) PROVE IInv'
      OBVIOUS
  <1>1. FileType /\ job.stage # "off"
    BY TypeParts DEF IInv, TearManifest, At
  <1>2. /\ FileType' /\ file'[s].events = file[s].events
        /\ \A r \in Stages : r # s => file'[r] = file[r]
    BY <1>1, TearFacts
  <1>3. /\ file'[s].manifest = Empty /\ file'[s].checkpoint = file[s].checkpoint
        /\ file'[s].torn = file[s].torn \cup {"manifest"}
    BY <1>1 DEF FileType, Files, TearManifest
  <1>4. ~Torn(s, "checkpoint")
    BY DEF TearManifest, At, IInv, MemoryOK
  <1>5. ASSUME NEW r \in Stages PROVE FilesOK(r)'
    <2>1. FilesOK(r) /\ FilesOK(s) /\ reported' = reported
      BY DEF IInv, TearManifest
    <2>2. CASE r # s
      BY <2>1, <2>2, <1>2 DEF FilesOK, Holds, Needed, Whole, Claims, Logged, Torn
    <2>3. CASE r = s
      BY <2>1, <2>3, <1>2, <1>3, <1>4, EmptyHasNothing
      DEF FilesOK, Holds, Needed, Whole, Claims, Logged, Torn
    <2> QED
      BY <2>2, <2>3
  <1>6. ~(job.force /\ ok[s])
    <2>1. CASE At("manifest") /\ s = job.stage
      BY <2>1 DEF IInv, ReturnedOK, At, Stages
    <2>2. CASE At("restore") /\ s = job.reading
      BY <2>2 DEF IInv, ForcedOK, MemoryOK, Whole, At
    <2> QED
      BY <2>1, <2>2 DEF TearManifest
  <1> QED
    BY <1>1, <1>2, <1>5, <1>6, StopStep DEF TearManifest

LEMMA TearCheckpointIInv == \A s \in Stages : IInv /\ TearCheckpoint(s) => IInv'
  <1> SUFFICES ASSUME NEW s \in Stages, IInv, TearCheckpoint(s) PROVE IInv'
      OBVIOUS
  <1>1. FileType /\ job.stage # "off"
    BY TypeParts DEF IInv, TearCheckpoint, At
  <1>2. /\ FileType' /\ file'[s].events = file[s].events
        /\ \A r \in Stages : r # s => file'[r] = file[r]
    BY <1>1, TearFacts
  <1>3. /\ file'[s].checkpoint = Empty /\ file'[s].manifest = file[s].manifest
        /\ file'[s].torn = file[s].torn \cup {"checkpoint"}
    BY <1>1 DEF FileType, Files, TearCheckpoint
  <1>4. Claims(s) => Whole(s)
    BY DEF TearCheckpoint, At, IInv, MemoryOK
  <1>5. ASSUME NEW r \in Stages PROVE FilesOK(r)'
    <2>1. FilesOK(r) /\ FilesOK(s) /\ reported' = reported
      BY DEF IInv, TearCheckpoint
    <2>2. CASE r # s
      BY <2>1, <2>2, <1>2 DEF FilesOK, Holds, Needed, Whole, Claims, Logged, Torn
    <2>3. CASE r = s
      BY <2>1, <2>3, <1>2, <1>3, <1>4, EmptyHasNothing
      DEF FilesOK, Holds, Needed, Whole, Claims, Logged, Torn
    <2> QED
      BY <2>2, <2>3
  <1>6. ~ok[s]
    BY DEF IInv, ReturnedOK, TearCheckpoint, At, Stages
  <1> QED
    BY <1>1, <1>2, <1>5, <1>6, StopStep DEF TearCheckpoint

-----------------------------------------------------------------------------
(* A run begins: nothing on disk changes, only what is claimed shrinks. *)
LEMMA StartIInv ==
    \A first, last \in Stages, force \in BOOLEAN, reset \in Stages \cup {"none"} :
      IInv /\ Start(first, last, force, reset) => IInv'
  <1> SUFFICES ASSUME NEW first \in Stages, NEW last \in Stages, NEW force \in BOOLEAN,
                      NEW reset \in Stages \cup {"none"},
                      IInv, Start(first, last, force, reset)
               PROVE  IInv'
      OBVIOUS
  <1> DEFINE clear == ToClear(first, force, reset)
  <1>1. /\ job'.stage = first /\ job'.last = last /\ job'.step = "clear"
        /\ job'.reading = "transcribe" /\ job'.force = force /\ job'.reset = reset
        /\ job'.clear = clear /\ job'.pending = {}
    BY DEF Start, Off
  <1>2. clear \in SUBSET Stages /\ ("transcribe" \in clear => "align" \in clear)
        /\ (force => first \in clear) /\ (first = "align" => clear \subseteq {"align"})
        /\ (clear # {} => force \/ reset # "none")
    BY DEF ToClear, FromOn, Stages, Start
  <1>3. job' \in Job
    BY <1>2 DEF Start, Off, Job, Stages
  <1>4. MemoryType' /\ \A s \in Stages : memory'[s] = Empty
    BY NoMemoryType DEF Start, NoMemory
  <1>5. reported' \in [Stages -> SUBSET Segments]
        /\ \A s \in Stages : /\ reported'[s] \subseteq reported[s]
                             /\ s \in clear => reported'[s] = {}
    BY DEF Start, IInv, TypeOK
  <1>6. \A s \in Stages : Needed(s)' \subseteq Needed(s) /\ (s \in clear => Needed(s)' = {})
    BY <1>2, <1>5 DEF Needed, Stages
  <1>7. TypeOK'
    <2>1. ok' \in [Stages -> BOOLEAN]
      BY DEF Start
    <2>2. requests' \in 0..MaxRequests
      BY JournalAssumption DEF Start, IInv, TypeOK
    <2>3. FileType'
      BY TypeParts DEF IInv, Start, FileType
    <2>4. PendingOK'
      BY <1>1 DEF PendingOK
    <2> QED
      BY <1>3, <1>4, <1>5, <2>1, <2>2, <2>3, <2>4 DEF TypeOK, FileType, MemoryType, PendingOK
  <1>8. JobOK'
    BY <1>1, <1>2, <1>5, <1>6 DEF JobOK, Own, Before, Start, FromOn, Stages
  <1>9. \A s \in Stages : FilesOK(s)'
    <2> SUFFICES ASSUME NEW s \in Stages PROVE FilesOK(s)'
        OBVIOUS
    <2>1. FilesOK(s) /\ file' = file
      BY DEF IInv, Start
    <2> QED
      BY <2>1, <1>5, <1>6 DEF FilesOK, Holds, Whole, Claims, Logged, Torn
  <1>10. MemoryOK'
    BY <1>1, <1>4 DEF MemoryOK, Own
  <1>11. ForcedOK' /\ ReturnedOK'
    BY <1>1, <1>2 DEF ForcedOK, ReturnedOK, AlignedMeansComplete, Start, Stages
  <1> QED
    BY <1>7, <1>8, <1>9, <1>10, <1>11 DEF IInv

LEMMA ClearIInv == \A s \in Stages : IInv /\ Clear(s) => IInv'
  <1> SUFFICES ASSUME NEW s \in Stages, IInv, Clear(s) PROVE IInv'
      OBVIOUS
  <1>1. /\ FileType /\ job \in Job /\ job.stage # "off" /\ job.step = "clear"
        /\ s \in job.clear /\ Empty \in Rows(s)
    BY TypeParts, EmptyType DEF IInv, Clear, At
  <1>2. reported[s] = {} /\ Needed(s) = {}
    BY <1>1 DEF IInv, JobOK
  <1>3. Holds(s, Empty) /\ Logged(s, Empty) /\ Done(Empty) \subseteq Done(file[s].events)
    BY <1>2, EmptyHasNothing DEF Holds, Logged
  <1>4. FileType' /\ \A r \in Stages : FilesOK(r)'
    BY <1>1, <1>3, PutManifestStep DEF Clear
  <1>5. file'[s].manifest = Empty /\ \A r \in Stages : r # s => file'[r] = file[r]
    BY <1>1, PutManifestFacts DEF Clear
  <1>6. job' \in Job /\ job' = [job EXCEPT !.clear = @ \ {s}]
    BY <1>1 DEF Clear, Job
  <1>7. TypeOK'
    BY <1>4, <1>6, <1>1 DEF IInv, TypeOK, FileType, Clear, Job
  <1>8. JobOK'
    BY <1>1, <1>6 DEF IInv, JobOK, Clear, Needed, Own, Before, Job
  <1>9. MemoryOK'
    BY <1>1, <1>6 DEF IInv, MemoryOK, JobOK, Clear, Own, Job
  <1>10. ~ok[s] \/ ~job.force
    BY <1>1 DEF IInv, ReturnedOK, JobOK, Stages, Job
  <1>11. ForcedOK'
    <2>1. Recent(Empty)'
      BY DEF Recent, Empty, NoRow
    <2>2. memory' = memory /\ memory[job.stage] = Empty /\ job.stage \in Stages
      BY <1>1 DEF IInv, MemoryOK, Clear, Job
    <2>3. /\ job'.stage = job.stage /\ job'.force = job.force /\ job'.clear = job.clear \ {s}
          /\ job'.step = job.step /\ UNCHANGED <<requests, ok>>
      BY <1>1, <1>6 DEF Clear, Job
    <2>4. CASE s = job.stage
      BY <2>1, <2>2, <2>3, <2>4, <1>5, <1>10 DEF IInv, ForcedOK, Recent, Whole, Torn
    <2>5. CASE s # job.stage
      BY <2>2, <2>3, <2>5, <1>5, <1>10 DEF IInv, ForcedOK, Recent, Whole, Torn
    <2> QED
      BY <2>4, <2>5
  <1>12. ReturnedOK'
    BY <1>1, <1>6 DEF IInv, ReturnedOK, AlignedMeansComplete, Clear, Job
  <1> QED
    BY <1>4, <1>7, <1>8, <1>9, <1>11, <1>12 DEF IInv

LEMMA ClearedIInv == IInv /\ Cleared => IInv'
  <1> SUFFICES ASSUME IInv, Cleared PROVE IInv'
      OBVIOUS
  <1>1. TypeOK'
    BY DEF Cleared, Goto, IInv, TypeOK, Job
  <1>2. JobOK'
    BY DEF Cleared, Goto, At, IInv, TypeOK, Job, JobOK, Own, Before, Needed
  <1>3. \A s \in Stages : FilesOK(s)'
    BY DEF Cleared, IInv, FilesOK, Holds, Needed, Whole, Claims, Logged, Torn
  <1>4. MemoryOK'
    BY DEF Cleared, Goto, At, IInv, TypeOK, Job, JobOK, MemoryOK, Own
  <1>5. ForcedOK'
    BY DEF Cleared, Goto, At, IInv, TypeOK, Job, ForcedOK, Recent, Whole, Torn, Before
  <1>6. ReturnedOK'
    BY DEF Cleared, Goto, IInv, TypeOK, Job, ReturnedOK, AlignedMeansComplete, Torn
  <1> QED
    BY <1>1, <1>2, <1>3, <1>4, <1>5, <1>6 DEF IInv

LEMMA ReadNothingIInv == IInv /\ ReadNothing => IInv'
  <1> SUFFICES ASSUME IInv, ReadNothing PROVE IInv'
      OBVIOUS
  <1>1. TypeOK'
    BY DEF ReadNothing, Goto, IInv, TypeOK, Job
  <1>2. JobOK'
    BY DEF ReadNothing, Goto, At, IInv, TypeOK, Job, JobOK, Own, Before, Needed, StartsEmpty, ReadsOwn
  <1>3. \A s \in Stages : FilesOK(s)'
    BY DEF ReadNothing, IInv, FilesOK, Holds, Needed, Whole, Claims, Logged, Torn
  <1>4. MemoryOK'
    <2>1. job.stage \in Stages /\ job.step = "read" /\ job.force /\ job.reading = job.stage
      BY DEF ReadNothing, At, StartsEmpty, ReadsOwn, IInv, TypeOK, Job
    <2>2. /\ reported[job.stage] = {} /\ Needed(job.stage) = {} /\ job.pending = {} /\ job.clear = {}
          /\ job.stage # "off"
      BY <2>1 DEF IInv, JobOK, Before, Stages
    <2>4. memory[job.stage] = Empty
      BY <2>1, <2>2 DEF IInv, MemoryOK
    <2>5. file[job.stage].manifest = Empty
      BY <2>1, <2>2 DEF IInv, ForcedOK, Before
    <2>3. job' = [job EXCEPT !.step = "begin"] /\ UNCHANGED <<file, memory, reported>>
      BY DEF ReadNothing, Goto
    <2> QED
      BY <2>1, <2>2, <2>3, <2>4, <2>5, EmptyHasNothing
      DEF IInv, TypeOK, Job, MemoryOK, Own, Holds, Logged, Claims, Needed, Whole, Torn
  <1>5. ForcedOK'
    BY DEF ReadNothing, Goto, At, IInv, TypeOK, Job, ForcedOK, Recent, Whole, Torn, Before
  <1>6. ReturnedOK'
    BY DEF ReadNothing, Goto, IInv, TypeOK, Job, ReturnedOK, AlignedMeansComplete, Torn
  <1> QED
    BY <1>1, <1>2, <1>3, <1>4, <1>5, <1>6 DEF IInv

(* The rows of r have been read, from the manifest or by recovering them. *)
LEMMA ProceedStep ==
  ASSUME IInv, job.stage # "off", job.step \in {"read", "restore"},
         NEW r \in Stages, r = job.reading,
         NEW rows \in Rows(r), Proceed(r, rows), ~(job.force /\ job.reading = job.stage),
         UNCHANGED <<requests, reported, ok>>,
         FileType', \A s \in Stages : FilesOK(s)',
         \A s \in Stages : s # r => file'[s] = file[s],
         job.force /\ ok[r] => file'[r] = file[r],
         file'[r].manifest = rows, rows # Empty => Whole(r)',
         Holds(r, rows), Logged(r, rows), Done(rows) \subseteq Done(file[r].events),
         file'[r].events = file[r].events
  PROVE  IInv'
  <1>1. job \in Job /\ MemoryType /\ job.stage \in Stages /\ job.pending = {} /\ job.clear = {}
    BY TypeParts DEF IInv, Job, JobOK, Before
  <1>2. CASE r # job.stage /\ rows = Empty
    <2>1. Stop
      BY <1>2 DEF Proceed
    <2> QED
      BY <2>1, StopStep
  <1>3. CASE r # job.stage /\ rows # Empty
    <2>1. r = "transcribe" /\ job.stage = "align"
      BY <1>1, <1>3 DEF IInv, JobOK, Stages
    <2>2. /\ job' = [job EXCEPT !.step = "read", !.reading = "align"] /\ job' \in Job
          /\ job'.stage = "align" /\ job'.pending = {}
      BY <1>1, <1>3, <2>1, ZenonT(40) DEF Proceed, Job, Stages
    <2>3. MemoryType' /\ memory'["align"] = memory["align"] /\ memory'["transcribe"] = rows
      BY <1>1, <1>3, <2>1 DEF Proceed, Remember, MemoryType, Stages
    <2>4. TypeOK'
      BY <2>2, <2>3, TypeParts DEF IInv, TypeOK, FileType, MemoryType
    <2>5. JobOK'
      BY <1>1, <2>1, <2>2 DEF IInv, JobOK, Own, Before, Needed, Job
    <2>6. MemoryOK'
      BY <1>1, <1>3, <2>1, <2>2, <2>3 DEF IInv, MemoryOK, Own, Job
    <2>7. ForcedOK'
      BY <1>1, <2>1, <2>2, <2>3 DEF IInv, ForcedOK, Recent, Whole, Torn, Before, Job, Stages
    <2>8. ReturnedOK'
      BY <2>1, <2>2 DEF IInv, ReturnedOK, AlignedMeansComplete
    <2> QED
      BY <2>4, <2>5, <2>6, <2>7, <2>8 DEF IInv
  <1>4. CASE r = job.stage
    <2>1. /\ job' = [job EXCEPT !.step = "begin"] /\ job' \in Job /\ ~job.force
          /\ job'.pending = {} /\ job'.stage = r /\ job'.reading = r
      BY <1>1, <1>4 DEF Proceed, Job
    <2>2. MemoryType' /\ memory'[r] = rows /\ \A s \in Stages : s # r => memory'[s] = memory[s]
      BY <1>1, <1>4 DEF Proceed, Remember, MemoryType
    <2>3. TypeOK'
      BY <2>1, <2>2, TypeParts DEF IInv, TypeOK, FileType, MemoryType
    <2>4. JobOK'
      BY <1>1, <1>4, <2>1 DEF IInv, JobOK, Own, Before, Needed, Job
    <2>5. rows = Empty => ~Claims(r)'
      BY EmptyHasNothing DEF Claims, Holds, Needed
    <2>6. r = "align" => /\ Whole("transcribe")'
                         /\ memory'["transcribe"] = file'["transcribe"].manifest
      BY <1>4, <2>2 DEF IInv, MemoryOK, Whole, Torn, Stages
    <2>7. MemoryOK'
      <3>1. Holds(r, rows)' /\ Logged(r, rows)' /\ Done(rows) \subseteq Done(file'[r].events)
        BY DEF Holds, Logged, Needed
      <3>2. job'.step = "begin"
        BY <1>1, <2>1 DEF Job
      <3> QED
        BY <2>1, <2>2, <2>5, <2>6, <3>1, <3>2 DEF MemoryOK, Own, Holds, Logged
    <2>8. ForcedOK'
      BY <1>1, <2>1 DEF ForcedOK, Job
    <2>9. ReturnedOK'
      BY <1>1, <1>4, <2>1 DEF IInv, ReturnedOK, AlignedMeansComplete, Job
    <2> QED
      BY <2>3, <2>4, <2>7, <2>8, <2>9 DEF IInv
  <1> QED
    BY <1>2, <1>3, <1>4

LEMMA ReadManifestIInv == IInv /\ ReadManifest => IInv'
  <1> SUFFICES ASSUME IInv, ReadManifest PROVE IInv'
      OBVIOUS
  <1>0. PICK r \in Stages : r = job.reading
    BY DEF IInv, TypeOK, Job
  <1> DEFINE rows == file[r].manifest
  <1>1. /\ r \in Stages /\ job.stage # "off" /\ job.step = "read" /\ FileType
        /\ Proceed(r, rows) /\ ~(job.force /\ r = job.stage)
        /\ Whole(r) /\ rows # Empty
        /\ UNCHANGED <<file, requests, reported, ok>>
    BY <1>0, TypeParts DEF IInv, TypeOK, Job, ReadManifest, At, StartsEmpty, ReadsOwn, Whole, Torn
  <1>2. rows \in Rows(r) /\ FilesOK(r)
    BY <1>1 DEF IInv, FileType, Files
  <1>3. Holds(r, rows) /\ Logged(r, rows) /\ Done(rows) \subseteq Done(file[r].events)
    BY <1>1, <1>2 DEF FilesOK
  <1>4. FileType' /\ \A s \in Stages : FilesOK(s)'
    BY <1>1 DEF IInv, FileType, FilesOK, Holds, Needed, Whole, Claims, Logged, Torn
  <1>5. Whole(r)'
    BY <1>1 DEF Whole, Torn
  <1> QED
    BY <1>0, <1>1, <1>2, <1>3, <1>4, <1>5, ProceedStep

LEMMA ReadJournalIInv == IInv /\ ReadJournal => IInv'
  <1> SUFFICES ASSUME IInv, ReadJournal PROVE IInv'
      OBVIOUS
  <1>0. PICK r \in Stages : r = job.reading
    BY DEF IInv, TypeOK, Job
  <1> DEFINE rows == Recovered(r)
  <1>1. /\ r \in Stages /\ job.stage # "off" /\ job.step = "read" /\ FileType
        /\ ~(job.force /\ r = job.stage)
        /\ file[r].manifest = Empty /\ ~Torn(r, "manifest") /\ ~Torn(r, "checkpoint")
        /\ UNCHANGED <<file, requests, reported, ok>>
    BY <1>0, TypeParts DEF IInv, TypeOK, Job, ReadJournal, At, StartsEmpty, ReadsOwn, Torn
  <1>2. /\ rows \in Rows(r) /\ Holds(r, rows) /\ Logged(r, rows)
        /\ Done(rows) \subseteq Done(file[r].events)
    BY <1>1, RecoveredFacts
  <1>3. FileType' /\ \A s \in Stages : FilesOK(s)'
    BY <1>1 DEF IInv, FileType, FilesOK, Holds, Needed, Whole, Claims, Logged, Torn
  <1>4. CASE rows = Empty
    <2>1. Proceed(r, Empty)
      BY <1>0, <1>4 DEF ReadJournal
    <2> QED
      BY <1>0, <1>1, <1>2, <1>3, <1>4, <2>1, ProceedStep
  <1>5. CASE rows # Empty
    <2>1. /\ job' = [job EXCEPT !.step = "restore"]
          /\ memory' = [memory EXCEPT ![r] = rows]
      BY <1>0, <1>5 DEF ReadJournal, Goto, Remember
    <2>2. job \in Job /\ MemoryType /\ job.stage \in Stages /\ job.pending = {} /\ job.clear = {}
      BY <1>1, TypeParts DEF IInv, Job, JobOK, Before
    <2>3. /\ job' \in Job /\ job'.step = "restore" /\ job'.stage = job.stage /\ job'.reading = r
          /\ job'.force = job.force /\ job'.pending = {} /\ job'.clear = {}
      BY <1>0, <2>1, <2>2 DEF Job
    <2>4. MemoryType' /\ memory'[r] = rows /\ \A s \in Stages : s # r => memory'[s] = memory[s]
      BY <1>1, <1>2, <2>1, <2>2 DEF MemoryType
    <2>5. TypeOK'
      BY <1>1, <2>3, <2>4, TypeParts DEF IInv, TypeOK, FileType, MemoryType
    <2>6. JobOK'
      BY <1>0, <1>1, <2>1, <2>2 DEF IInv, JobOK, Own, Before, Needed, Job
    <2>7. MemoryOK'
      <3>1. r # job.stage => memory[job.stage] = Empty
        BY <1>0, <1>1 DEF IInv, MemoryOK
      <3>2. ~(job.stage = "align" /\ r = "align") => ~(job'.stage = "align" /\ job'.reading = "align")
        BY <2>3
      <3>3. job.stage = "align" /\ r = "align" =>
              /\ Whole("transcribe")' /\ memory'["transcribe"] = file'["transcribe"].manifest
        BY <1>0, <1>1, <2>4 DEF IInv, MemoryOK, Whole, Torn, Stages
      <3> QED
        BY <1>1, <1>2, <1>5, <2>2, <2>3, <2>4, <3>1, <3>2, <3>3
        DEF MemoryOK, Own, Holds, Logged, Needed, Torn
    <2>8. ForcedOK'
      BY <1>1, <2>2, <2>3, <2>4 DEF IInv, ForcedOK, Recent, Whole, Torn, Before
    <2>9. ReturnedOK'
      BY <1>1, <2>3 DEF IInv, ReturnedOK, AlignedMeansComplete
    <2> QED
      BY <1>3, <2>5, <2>6, <2>7, <2>8, <2>9 DEF IInv
  <1> QED
    BY <1>4, <1>5

LEMMA RestoreIInv == IInv /\ Restore => IInv'
  <1> SUFFICES ASSUME IInv, Restore PROVE IInv'
      OBVIOUS
  <1>0. PICK r \in Stages : r = job.reading
    BY DEF IInv, TypeOK, Job
  <1> DEFINE rows == memory[r]
  <1>1. /\ r \in Stages /\ job.stage # "off" /\ job.step = "restore" /\ FileType
        /\ Proceed(r, rows) /\ PutManifest(r, rows)
        /\ UNCHANGED <<requests, reported, ok>> /\ rows \in Rows(r)
    BY <1>0, TypeParts DEF IInv, TypeOK, Job, Restore, Restored, At
  <1>2. ~(job.force /\ r = job.stage)
    BY <1>0, <1>1 DEF IInv, JobOK
  <1>3. /\ Holds(r, rows) /\ Logged(r, rows) /\ Done(rows) \subseteq Done(file[r].events)
        /\ rows # Empty /\ file[r].manifest = Empty
    BY <1>0, <1>1 DEF IInv, MemoryOK
  <1>4. FileType' /\ \A s \in Stages : FilesOK(s)'
    BY <1>1, <1>3, PutManifestStep
  <1>5. /\ file'[r].manifest = rows /\ \A s \in Stages : s # r => file'[s] = file[s]
        /\ file'[r].events = file[r].events /\ file'[r].torn = file[r].torn \ {"manifest"}
    BY <1>1, PutManifestFacts
  <1>6. Whole(r)'
    BY <1>3, <1>5 DEF Whole, Torn
  <1>7. ~(job.force /\ ok[r])
    BY <1>1, <1>3 DEF IInv, ForcedOK, Whole
  <1> QED
    BY <1>0, <1>1, <1>2, <1>3, <1>4, <1>5, <1>6, <1>7, ProceedStep

-----------------------------------------------------------------------------
LEMMA BeginWorkIInv == IInv /\ BeginWork => IInv'
  <1> SUFFICES ASSUME IInv, BeginWork PROVE IInv'
      OBVIOUS
  <1>0. PICK s \in Stages : s = job.stage
    BY DEF IInv, TypeOK, Job, BeginWork, At
  <1>1. /\ job \in Job /\ job.step = "begin" /\ job.reading = s /\ job.clear = {}
        /\ job' = [job EXCEPT !.step = "work", !.pending = Pending(s)]
        /\ UNCHANGED <<file, memory, requests, reported, ok>>
    BY <1>0 DEF IInv, TypeOK, BeginWork, At, JobOK, Own, Stages
  <1>2. Pending(s) \subseteq Segments /\ Pending(s) \cap Done(memory[s]) = {}
        /\ (s = "align" => Pending(s) \subseteq WithText(memory["transcribe"]))
    BY <1>0 DEF Pending, Eligible, WithText, Stages
  <1>3. /\ job' \in Job /\ job'.step = "work" /\ job'.pending = Pending(s) /\ job'.stage = s
        /\ job'.reading = s /\ job'.force = job.force /\ job'.clear = {}
        /\ job'.last = job.last /\ job'.reset = job.reset
    BY <1>0, <1>1, <1>2 DEF Job
  <1>4. TypeOK'
    BY <1>1, <1>2, <1>3, TypeParts DEF IInv, TypeOK, FileType, MemoryType, PendingOK
  <1>5. JobOK'
    BY <1>0, <1>1, <1>3 DEF IInv, JobOK, Own, Before
  <1>6. \A r \in Stages : FilesOK(r)'
    BY <1>1 DEF IInv, FilesOK, Holds, Needed, Whole, Claims, Logged, Torn
  <1>7. Done(Ordered(s)) \subseteq Done(file[s].manifest)
    <2>1. memory[s] = Empty \/ memory[s] = file[s].manifest
      BY <1>0, <1>1 DEF IInv, MemoryOK, Stages
    <2>2. Done(Ordered(s)) \subseteq Done(memory[s])
      BY <1>0, <1>1, OrderedFacts DEF Own, Stages
    <2> QED
      BY <2>1, <2>2, EmptyHasNothing
  <1>8. MemoryOK'
    <2>1. Ordered(s)' = Ordered(s)
      BY <1>1 DEF Ordered
    <2>2. MemoryOK /\ job.stage # "off"
      BY <1>0 DEF IInv, Stages
    <2> QED
      BY <1>0, <1>1, <1>2, <1>3, <1>7, <2>1, <2>2
      DEF MemoryOK, Own, Holds, Logged, Needed, Claims, Whole, Torn
  <1>9. ForcedOK'
    BY <1>0, <1>1, <1>3 DEF IInv, ForcedOK, Recent, Whole, Torn, Before
  <1>10. ReturnedOK'
    BY <1>0, <1>1, <1>3 DEF IInv, ReturnedOK, AlignedMeansComplete, Torn
  <1> QED
    BY <1>4, <1>5, <1>6, <1>8, <1>9, <1>10 DEF IInv

LEMMA WorkIInv == \A g \in Segments, state \in Outcomes : IInv /\ Work(g, state) => IInv'
  <1> SUFFICES ASSUME NEW g \in Segments, NEW state \in Outcomes, IInv, Work(g, state)
               PROVE  IInv'
      OBVIOUS
  <1>0. PICK s \in Stages : s = job.stage
    BY DEF IInv, TypeOK, Job, Work, At
  <1> DEFINE row == [state |-> state, of |-> requests]
  <1>1. /\ job \in Job /\ job.step = "work" /\ job.reading = s /\ job.clear = {}
        /\ g \in job.pending /\ s # "off"
        /\ job' = [job EXCEPT !.step = "checkpoint", !.pending = @ \ {g}]
        /\ memory' = [memory EXCEPT ![s] = [memory[s] EXCEPT ![g] = row]]
        /\ file' = [file EXCEPT ![s].events[g] = row]
        /\ UNCHANGED <<requests, reported, ok>>
        /\ state \in States(s) /\ state # "none"
    BY <1>0, JournalAssumption DEF IInv, TypeOK, Work, At, JobOK, Own, Stages, Remember
  <1>2. FileType /\ MemoryType /\ row \in Row(s) /\ PendingOK
    BY <1>1, TypeParts DEF IInv, TypeOK, Row
  <1>3. /\ memory[s] \in Rows(s) /\ file[s] \in Files(s) /\ file[s].events \in Rows(s)
        /\ file[s].manifest \in Rows(s)
    BY <1>2 DEF MemoryType, FileType, Files
  <1>4. /\ memory'[s] = [memory[s] EXCEPT ![g] = row]
        /\ \A r \in Stages : r # s => memory'[r] = memory[r]
        /\ memory' = [r \in Stages |-> memory'[r]]
    BY <1>1, <1>2 DEF MemoryType
  <1>5. /\ file'[s] = [file[s] EXCEPT !.events = [file[s].events EXCEPT ![g] = row]]
        /\ \A r \in Stages : r # s => file'[r] = file[r]
        /\ file' = [r \in Stages |-> file'[r]]
    BY <1>1, <1>2 DEF FileType
  <1>6. /\ file'[s].events = [file[s].events EXCEPT ![g] = row]
        /\ file'[s].manifest = file[s].manifest /\ file'[s].checkpoint = file[s].checkpoint
        /\ file'[s].torn = file[s].torn
    BY <1>3, <1>5 DEF Files
  <1>7. [memory[s] EXCEPT ![g] = row] \in Rows(s) /\ [file[s].events EXCEPT ![g] = row] \in Rows(s)
    BY <1>2, <1>3 DEF Rows
  <1>8. MemoryType' /\ FileType'
    <2>1. file'[s] \in Files(s)
      BY <1>3, <1>5, <1>7 DEF Files
    <2> QED
      BY <1>2, <1>4, <1>5, <1>7, <2>1 DEF MemoryType, FileType
  <1>9. /\ job' \in Job /\ job'.step = "checkpoint" /\ job'.stage = s /\ job'.reading = s
        /\ job'.pending = job.pending \ {g} /\ job'.force = job.force /\ job'.clear = {}
        /\ job'.last = job.last /\ job'.reset = job.reset
    BY <1>0, <1>1 DEF Job
  <1>10. TypeOK'
    <2>1. PendingOK'
      BY <1>0, <1>2, <1>4, <1>9 DEF PendingOK, Stages
    <2> QED
      BY <1>1, <1>8, <1>9, <2>1, TypeParts, TypePartsAfter DEF IInv
  <1>11. JobOK'
    BY <1>0, <1>1, <1>9 DEF IInv, JobOK, Own, Before, Needed
  <1>12. /\ Holds(s, memory[s]) /\ Logged(s, memory[s]) /\ Done(memory[s]) \subseteq Done(file[s].events)
         /\ job.pending \cap Done(memory[s]) = {} /\ (Claims(s) => Whole(s))
         /\ Done(file[s].manifest) \subseteq Done(memory[s])
         /\ (s = "align" => Whole("transcribe") /\ memory["transcribe"] = file["transcribe"].manifest)
         /\ (~job.force => \A h \in Done(file[s].manifest) : memory[s][h] = file[s].manifest[h])
    BY <1>0, <1>1 DEF IInv, MemoryOK, Own
  <1>13. g \notin Done(memory[s])
    BY <1>1, <1>12
  <1>14. /\ Done(memory[s]) \subseteq Done(memory'[s]) /\ Present(memory[s]) \subseteq Present(memory'[s])
         /\ Done(memory'[s]) \subseteq Done(memory[s]) \cup {g}
         /\ Present(memory'[s]) \subseteq Present(memory[s]) \cup {g}
         /\ Present(file'[s].events) = Present(file[s].events) \cup {g}
         /\ Done(file[s].events) \ {g} \subseteq Done(file'[s].events)
         /\ (g \in Done(memory'[s]) <=> g \in Done(file'[s].events))
         /\ \A h \in Done(memory[s]) : memory'[s][h] = memory[s][h]
    BY <1>1, <1>3, <1>4, <1>6, <1>13 DEF Done, Present, Rows
  <1>15. ASSUME NEW r \in Stages PROVE FilesOK(r)'
    <2>1. FilesOK(r)
      BY DEF IInv
    <2>2. CASE r # s
      BY <2>1, <2>2, <1>1, <1>5 DEF FilesOK, Holds, Needed, Whole, Claims, Logged, Torn
    <2>3. CASE r = s
      <3>1. Torn(s, "manifest")' => file'[s].manifest = Empty
        BY <2>1, <2>3, <1>6 DEF FilesOK, Torn
      <3>2. Logged(s, file[s].manifest)' /\ Logged(s, file[s].checkpoint)'
        BY <2>1, <2>3, <1>6, <1>14 DEF FilesOK, Logged
      <3>3. Done(file'[s].manifest) \subseteq Done(file'[s].events)
        BY <1>6, <1>12, <1>13, <1>14
      <3>4. Holds(s, file[s].events)'
        BY <2>1, <2>3, <1>1, <1>12, <1>13, <1>14 DEF FilesOK, Holds, Needed
      <3>5. Whole(s)' => Holds(s, file[s].manifest)'
        BY <2>1, <2>3, <1>1, <1>6 DEF FilesOK, Holds, Whole, Needed, Torn
      <3>6. Claims(s)' /\ ~Whole(s)' => ~Torn(s, "checkpoint")'
        BY <2>1, <2>3, <1>1, <1>6 DEF FilesOK, Whole, Claims, Needed, Torn
      <3> QED
        BY <2>3, <3>1, <3>2, <3>3, <3>4, <3>5, <3>6 DEF FilesOK
    <2> QED
      BY <2>2, <2>3
  <1>16. MemoryOK'
    <2>1. Holds(s, memory[s])' /\ Logged(s, memory[s])'
      BY <1>1, <1>6, <1>12, <1>14 DEF Holds, Logged, Needed
    <2>2. Done(memory'[s]) \subseteq Done(file'[s].events)
      BY <1>12, <1>13, <1>14
    <2>3. job'.pending \cap Done(memory'[s]) = {}
      BY <1>9, <1>12, <1>14
    <2>4. Claims(s)' => Whole(s)'
      BY <1>1, <1>6, <1>12 DEF Claims, Needed, Whole, Torn
    <2>5. s = "align" => Whole("transcribe")' /\ memory'["transcribe"] = file'["transcribe"].manifest
      BY <1>4, <1>5, <1>12 DEF Whole, Torn, Stages
    <2>6. /\ Done(file'[s].manifest) \subseteq Done(memory'[s])
          /\ ~job.force => \A h \in Done(file'[s].manifest) : memory'[s][h] = file'[s].manifest[h]
      BY <1>6, <1>12, <1>14
    <2> QED
      BY <1>9, <2>1, <2>2, <2>3, <2>4, <2>5, <2>6 DEF MemoryOK, Own
  <1>17. ForcedOK'
    <2>1. Recent(memory[s]) => Recent(memory[s])'
      BY <1>1, <1>3, <1>4 DEF Recent, Rows
    <2>2. \A r \in Stages : Recent(file[r].manifest) => Recent(file[r].manifest)'
      BY <1>1, <1>5, <1>6 DEF Recent
    <2>3. \A r \in Stages : Whole(r) => Whole(r)'
      BY <1>5, <1>6 DEF Whole, Torn
    <2>4. ForcedOK
      BY DEF IInv
    <2> QED
      BY <1>0, <1>1, <1>9, <2>1, <2>2, <2>3, <2>4 DEF ForcedOK, Before
  <1>18. ReturnedOK'
    BY <1>0, <1>1, <1>9 DEF IInv, ReturnedOK, AlignedMeansComplete, Stages
  <1> QED
    BY <1>10, <1>11, <1>15, <1>16, <1>17, <1>18 DEF IInv

(* The three writes after a segment: what they have in common. *)
LEMMA GotoFacts ==
  ASSUME IInv, NEW step \in {"manifest", "progress", "work"},
         job.stage # "off", job.step \in {"checkpoint", "manifest", "progress"}, Goto(step)
  PROVE  /\ job' \in Job /\ job'.step = step /\ job'.stage = job.stage /\ job.stage \in Stages
         /\ job'.reading = job.stage /\ job.reading = job.stage
         /\ job'.pending = job.pending /\ job'.force = job.force /\ job'.clear = {} /\ job.clear = {}
         /\ job'.last = job.last /\ job'.reset = job.reset
  BY DEF IInv, TypeOK, Job, JobOK, Own, Goto

LEMMA WriteCheckpointIInv == IInv /\ WriteCheckpoint => IInv'
  <1> SUFFICES ASSUME IInv, WriteCheckpoint PROVE IInv'
      OBVIOUS
  <1>0. PICK s \in Stages : s = job.stage
    BY DEF IInv, TypeOK, Job, WriteCheckpoint, At
  <1>1. /\ job.step = "checkpoint" /\ s # "off" /\ job.step \in Own
        /\ PutCheckpoint(s, Ordered(s)) /\ Goto("manifest")
        /\ UNCHANGED <<memory, requests, reported, ok>>
    BY <1>0 DEF WriteCheckpoint, At, Own, Stages
  <1>2. /\ job' \in Job /\ job'.step = "manifest" /\ job'.stage = s
        /\ job'.reading = s /\ job.reading = s
        /\ job'.pending = job.pending /\ job'.force = job.force /\ job'.clear = {} /\ job.clear = {}
        /\ job'.last = job.last /\ job'.reset = job.reset
    BY <1>0, <1>1, GotoFacts
  <1>3. Ordered(s) \in Rows(s) /\ Logged(s, Ordered(s))
    BY <1>0, <1>1, OrderedFacts
  <1>4. FileType' /\ \A r \in Stages : FilesOK(r)'
    BY <1>1, <1>3, PutCheckpointStep
  <1>5. /\ file'[s].manifest = file[s].manifest /\ file'[s].events = file[s].events
        /\ file'[s].torn = file[s].torn \ {"checkpoint"}
        /\ \A r \in Stages : r # s => file'[r] = file[r]
    BY <1>1, <1>3, TypeParts, PutCheckpointFacts DEF IInv
  <1>6. TypeOK'
    <2>1. TypeOK
      BY DEF IInv
    <2>2. MemoryType' /\ PendingOK'
      BY <2>1, <1>0, <1>1, <1>2, TypeParts DEF MemoryType, PendingOK
    <2> QED
      BY <2>1, <2>2, <1>1, <1>2, <1>4, TypeParts, TypePartsAfter
  <1>7. JobOK'
    BY <1>0, <1>1, <1>2 DEF IInv, JobOK, Own, Before
  <1>8. MemoryOK'
    BY <1>0, <1>1, <1>2, <1>5 DEF IInv, MemoryOK, Own, Holds, Logged, Needed, Whole, Torn, Stages
  <1>9. ForcedOK'
    BY <1>0, <1>1, <1>2, <1>5 DEF IInv, ForcedOK, Recent, Whole, Torn, Before
  <1>10. ReturnedOK'
    BY <1>0, <1>1, <1>2 DEF IInv, ReturnedOK, AlignedMeansComplete
  <1> QED
    BY <1>4, <1>6, <1>7, <1>8, <1>9, <1>10 DEF IInv

LEMMA WriteManifestIInv == IInv /\ WriteManifest => IInv'
  <1> SUFFICES ASSUME IInv, WriteManifest PROVE IInv'
      OBVIOUS
  <1>0. PICK s \in Stages : s = job.stage
    BY DEF IInv, TypeOK, Job, WriteManifest, At
  <1>1. /\ job.step = "manifest" /\ s # "off" /\ job.step \in Own
        /\ PutManifest(s, Ordered(s)) /\ Goto("progress")
        /\ UNCHANGED <<memory, requests, reported, ok>>
    BY <1>0 DEF WriteManifest, At, Own, Stages
  <1>2. /\ job' \in Job /\ job'.step = "progress" /\ job'.stage = s
        /\ job'.reading = s /\ job.reading = s
        /\ job'.pending = job.pending /\ job'.force = job.force /\ job'.clear = {} /\ job.clear = {}
        /\ job'.last = job.last /\ job'.reset = job.reset
    BY <1>0, <1>1, GotoFacts
  <1>3. /\ Ordered(s) \in Rows(s) /\ Holds(s, Ordered(s)) /\ Logged(s, Ordered(s))
        /\ Done(Ordered(s)) \subseteq Done(memory[s]) /\ Done(Ordered(s)) \subseteq Done(file[s].events)
        /\ \A g \in Present(Ordered(s)) : Ordered(s)[g] = memory[s][g]
    BY <1>0, <1>1, OrderedFacts
  <1>4. FileType' /\ \A r \in Stages : FilesOK(r)'
    BY <1>1, <1>3, PutManifestStep
  <1>5. /\ file'[s].manifest = Ordered(s) /\ file'[s].events = file[s].events
        /\ file'[s].torn = file[s].torn \ {"manifest"}
        /\ \A r \in Stages : r # s => file'[r] = file[r]
    BY <1>1, <1>3, TypeParts, PutManifestFacts DEF IInv
  <1>6. TypeOK'
    <2>1. TypeOK
      BY DEF IInv
    <2>2. MemoryType' /\ PendingOK'
      BY <2>1, <1>0, <1>1, <1>2, TypeParts DEF MemoryType, PendingOK
    <2> QED
      BY <2>1, <2>2, <1>1, <1>2, <1>4, TypeParts, TypePartsAfter
  <1>7. JobOK'
    BY <1>0, <1>1, <1>2 DEF IInv, JobOK, Own, Before
  <1>8. MemoryOK'
    <2>1. Ordered(s)' = Ordered(s)
      BY <1>1 DEF Ordered
    <2>2. \A g \in Done(file'[s].manifest) : memory'[s][g] = file'[s].manifest[g]
      BY <1>1, <1>3, <1>5 DEF Done, Present
    <2>3. Done(file'[s].manifest) \subseteq Done(memory'[s])
      BY <1>1, <1>3, <1>5
    <2>4. ~Torn(s, "manifest")'
      BY <1>5 DEF Torn
    <2>5. /\ Holds(s, memory[s])' /\ Logged(s, memory[s])'
          /\ Done(memory'[s]) \subseteq Done(file'[s].events)
          /\ job'.pending \cap Done(memory'[s]) = {}
      BY <1>0, <1>1, <1>2, <1>5 DEF IInv, MemoryOK, Holds, Logged, Needed
    <2>6. s = "align" => Whole("transcribe")' /\ memory'["transcribe"] = file'["transcribe"].manifest
      BY <1>0, <1>1, <1>2, <1>5 DEF IInv, MemoryOK, Whole, Torn, Stages
    <2> QED
      BY <1>2, <1>5, <2>1, <2>2, <2>3, <2>4, <2>5, <2>6 DEF MemoryOK, Own
  <1>9. ForcedOK'
    <2>1. ~ok[s]
      BY <1>0, <1>1 DEF IInv, ReturnedOK, Stages
    <2>2. ForcedOK
      BY DEF IInv
    <2>3. job.force => Recent(memory[s])
      BY <1>0, <1>1, <1>2, <2>2 DEF ForcedOK, Stages
    <2>4. job.force => Recent(file[s].manifest)' /\ Recent(memory[s])'
      BY <1>1, <1>3, <1>5, <2>3 DEF Recent, Present
    <2> QED
      BY <1>0, <1>1, <1>2, <1>5, <2>1, <2>2, <2>4 DEF ForcedOK, Recent, Whole, Torn, Before
  <1>10. ReturnedOK'
    BY <1>0, <1>1, <1>2 DEF IInv, ReturnedOK, AlignedMeansComplete, Stages
  <1> QED
    BY <1>4, <1>6, <1>7, <1>8, <1>9, <1>10 DEF IInv

LEMMA ReportProgressIInv == IInv /\ ReportProgress => IInv'
  <1> SUFFICES ASSUME IInv, ReportProgress PROVE IInv'
      OBVIOUS
  <1>0. PICK s \in Stages : s = job.stage
    BY DEF IInv, TypeOK, Job, ReportProgress, At
  <1>1. /\ job.step = "progress" /\ s # "off" /\ job.step \in Own /\ Goto("work")
        /\ reported' = [reported EXCEPT ![s] = Done(Ordered(s))]
        /\ UNCHANGED <<file, memory, requests, ok>>
    BY <1>0 DEF ReportProgress, At, Own, Stages
  <1>2. /\ job' \in Job /\ job'.step = "work" /\ job'.stage = s
        /\ job'.reading = s /\ job.reading = s
        /\ job'.pending = job.pending /\ job'.force = job.force /\ job'.clear = {} /\ job.clear = {}
        /\ job'.last = job.last /\ job'.reset = job.reset
    BY <1>0, <1>1, GotoFacts
  <1>3. /\ Ordered(s) \in Rows(s) /\ Holds(s, Ordered(s)) /\ Logged(s, Ordered(s))
        /\ Done(Ordered(s)) \subseteq Done(memory[s]) /\ Done(Ordered(s)) \subseteq Done(file[s].events)
        /\ (s = "align" => Done(Ordered(s)) \subseteq Present(memory["transcribe"]))
        /\ (s = "transcribe" => Present(Ordered(s)) = Present(memory[s]))
    BY <1>0, <1>1, OrderedFacts
  <1>4. ~Torn(s, "manifest") /\ file[s].manifest = Ordered(s)
    BY <1>0, <1>1 DEF IInv, MemoryOK, Stages
  <1>5. s = "align" => Whole("transcribe") /\ memory["transcribe"] = file["transcribe"].manifest
    BY <1>0, <1>1, <1>2 DEF IInv, MemoryOK
  <1>6. /\ reported \in [Stages -> SUBSET Segments] /\ reported' \in [Stages -> SUBSET Segments]
        /\ reported'[s] = Done(Ordered(s))
        /\ \A r \in Stages : r # s => reported'[r] = reported[r]
    BY <1>1 DEF IInv, TypeOK, Done
  <1>7. TypeOK'
    <2>1. TypeOK
      BY DEF IInv
    <2>2. MemoryType' /\ FileType' /\ PendingOK'
      BY <2>1, <1>0, <1>1, <1>2, TypeParts DEF MemoryType, FileType, PendingOK
    <2> QED
      BY <2>1, <2>2, <1>1, <1>2, <1>6, TypeParts, TypePartsAfter
  <1>8. JobOK'
    BY <1>0, <1>1, <1>2, <1>6 DEF IInv, JobOK, Own, Before, Needed, Stages
  <1>9. FilesOK("transcribe") /\ FilesOK("align") /\ "transcribe" \in Stages /\ "align" \in Stages
    BY DEF IInv, Stages
  <1>10. \A r \in Stages : r # s => FilesOK(r)'
    <2>1. CASE s = "transcribe"
      BY <2>1, <1>1, <1>6, <1>9 DEF Stages, FilesOK, Holds, Needed, Whole, Claims, Logged, Torn
    <2>2. CASE s = "align"
      <3>1. reported'["align"] \subseteq Present(file["transcribe"].manifest)
        BY <2>2, <1>3, <1>5, <1>6
      <3>2. /\ reported'["transcribe"] = reported["transcribe"]
            /\ Needed("transcribe")' = reported'["align"]
        BY <2>2, <1>6, <1>9 DEF Needed
      <3>3. Present(file["transcribe"].manifest) \subseteq Present(file["transcribe"].events)
        BY <1>9 DEF FilesOK, Logged
      <3>4. FilesOK("transcribe")'
        BY <2>2, <1>1, <1>5, <1>9, <3>1, <3>2, <3>3 DEF FilesOK, Holds, Whole, Claims, Logged, Torn
      <3> QED
        BY <2>2, <3>4 DEF Stages
    <2> QED
      BY <1>0, <2>1, <2>2 DEF Stages
  <1>11. Needed(s)' = Needed(s) /\ Holds(s, Ordered(s))' /\ Holds(s, memory[s])'
         /\ Holds(s, file[s].events)'
    <2>1. Needed(s)' = Needed(s)
      BY <1>6, <1>9 DEF Needed
    <2>2. Holds(s, memory[s]) /\ Holds(s, file[s].events)
      BY <1>0, <1>1 DEF IInv, MemoryOK, FilesOK, Stages
    <2>3. Ordered(s)' = Ordered(s)
      BY <1>1 DEF Ordered
    <2> QED
      BY <1>1, <1>3, <1>6, <2>1, <2>2, <2>3 DEF Holds
  <1>12. Claims(s)' => Whole(s)'
    <2>1. CASE Done(Ordered(s)) # {}
      BY <2>1, <1>1, <1>4, EmptyHasNothing DEF Whole, Torn
    <2>2. CASE Needed(s) # {}
      BY <2>2, <1>1, <1>3, <1>4, EmptyHasNothing DEF Whole, Torn, Holds
    <2> QED
      BY <1>6, <1>11, <2>1, <2>2 DEF Claims
  <1>13. FilesOK(s)'
    <2>1. FilesOK(s)
      BY DEF IInv
    <2> QED
      BY <2>1, <1>1, <1>4, <1>11, <1>12 DEF FilesOK, Logged, Whole, Torn, Holds
  <1>14. MemoryOK'
    <2>1. Ordered(s)' = Ordered(s)
      BY <1>1 DEF Ordered
    <2>2. /\ Logged(s, memory[s])' /\ Done(memory'[s]) \subseteq Done(file'[s].events)
          /\ job'.pending \cap Done(memory'[s]) = {}
          /\ Done(file'[s].manifest) \subseteq Done(memory'[s])
          /\ job'.force \/ \A g \in Done(file'[s].manifest) : memory'[s][g] = file'[s].manifest[g]
      BY <1>0, <1>1, <1>2 DEF IInv, MemoryOK, Logged
    <2>3. s = "align" => Whole("transcribe")' /\ memory'["transcribe"] = file'["transcribe"].manifest
      BY <1>1, <1>5 DEF Whole, Torn
    <2> QED
      BY <1>1, <1>2, <1>4, <1>11, <1>12, <2>1, <2>2, <2>3 DEF MemoryOK, Own
  <1>15. ForcedOK'
    BY <1>0, <1>1, <1>2 DEF IInv, ForcedOK, Recent, Whole, Torn, Before
  <1>16. ReturnedOK'
    BY <1>0, <1>1, <1>2 DEF IInv, ReturnedOK, AlignedMeansComplete, Stages
  <1> QED
    BY <1>7, <1>8, <1>10, <1>13, <1>14, <1>15, <1>16 DEF IInv

(* A stage is over: if it was good, its manifest is whole and says so. *)
LEMMA FinishStep ==
  ASSUME IInv, NEW s \in Stages, s = job.stage, NEW good \in BOOLEAN, Finish(good),
         job.step \in {"begin", "work"}, job.pending = {},
         UNCHANGED <<file, requests>>,
         reported' \in [Stages -> SUBSET Segments],
         \A r \in Stages : r # s => reported'[r] = reported[r],
         \A r \in Stages : FilesOK(r)',
         good => Whole(s),
         good /\ s = "align" =>
              /\ WithText(memory["transcribe"]) # {}
              /\ WithText(memory["transcribe"]) \subseteq WithText(file["align"].manifest)
  PROVE  IInv'
  <1>1. /\ job \in Job /\ job.clear = {} /\ job.reading = s /\ s # "off"
        /\ job.last \in FromOn(s)
    BY DEF IInv, TypeOK, JobOK, Own, Stages
  <1>2. ~ok[s] /\ ~ok["align"] /\ ok \in [Stages -> BOOLEAN] /\ ok' = [ok EXCEPT ![s] = good]
    BY <1>1 DEF IInv, ReturnedOK, TypeOK, Finish, Stages
  <1>3. ok' \in [Stages -> BOOLEAN] /\ ok'[s] = good /\ \A r \in Stages : r # s => ok'[r] = ok[r]
    BY <1>2
  <1>4. ForcedOK
    BY DEF IInv
  <1>5. \A r \in Stages : job.force /\ ok'[r] => Recent(file[r].manifest)' /\ Whole(r)'
    <2>1. job.force /\ good => Recent(file[s].manifest) /\ Whole(s)
      BY <1>1, <1>4 DEF ForcedOK
    <2>2. \A r \in Stages : job.force /\ ok[r] => Recent(file[r].manifest) /\ Whole(r)
      BY <1>4 DEF ForcedOK
    <2> QED
      BY <1>3, <2>1, <2>2 DEF Recent, Whole, Torn
  <1>6. CASE good /\ s # job.last
    <2>1. s = "transcribe"
      BY <1>1, <1>6 DEF FromOn, Stages
    <2>2. /\ job' = [job EXCEPT !.stage = "align", !.step = "clear", !.reading = "transcribe",
                                !.clear = IF job.force THEN {"align"} ELSE {}]
          /\ memory' = NoMemory
      BY <1>6 DEF Finish
    <2>3. /\ job' \in Job /\ job'.stage = "align" /\ job'.step = "clear"
          /\ job'.reading = "transcribe" /\ job'.pending = {} /\ job'.force = job.force
          /\ job'.clear = (IF job.force THEN {"align"} ELSE {})
          /\ job'.last = "align" /\ job'.reset = job.reset
      BY <1>1, <1>6, <2>1, <2>2 DEF Job, Stages
    <2>4. MemoryType' /\ PendingOK' /\ \A r \in Stages : memory'[r] = Empty
      BY <2>2, <2>3, NoMemoryType DEF NoMemory, PendingOK
    <2>5. TypeOK'
      <3>1. TypeOK
        BY DEF IInv
      <3>2. FileType'
        BY <3>1, TypeParts DEF FileType
      <3> QED
        BY <3>1, <3>2, <1>3, <2>3, <2>4, TypeParts, TypePartsAfter
    <2>6. JobOK'
      <3>1. job.force => reported["align"] = {}
        BY <2>1 DEF IInv, JobOK
      <3>2. job.force => reported'["align"] = {} /\ Needed("align")' = {}
        BY <3>1, <2>1 DEF Needed, Stages
      <3> QED
        BY <2>3, <3>2 DEF JobOK, Own, Before, FromOn
    <2>7. MemoryOK'
      BY <2>3, <2>4 DEF MemoryOK, Own, Stages
    <2>8. ForcedOK'
      BY <1>5, <2>3 DEF ForcedOK
    <2>9. ReturnedOK'
      BY <1>2, <1>3, <2>1, <2>3 DEF ReturnedOK, AlignedMeansComplete, Stages
    <2> QED
      BY <2>5, <2>6, <2>7, <2>8, <2>9 DEF IInv
  <1>7. CASE ~(good /\ s # job.last)
    <2>1. Stop
      BY <1>7 DEF Finish
    <2>2. /\ job' \in Job /\ job'.stage = "off" /\ job'.force = job.force
          /\ MemoryType' /\ PendingOK' /\ \A r \in Stages : memory'[r] = Empty
      BY <1>1, <2>1, StopFacts
    <2>3. TypeOK'
      <3>1. TypeOK
        BY DEF IInv
      <3>2. FileType'
        BY <3>1, TypeParts DEF FileType
      <3> QED
        BY <3>1, <3>2, <1>3, <2>2, TypeParts, TypePartsAfter
    <2>4. JobOK' /\ MemoryOK'
      BY <2>2 DEF JobOK, MemoryOK
    <2>5. ForcedOK'
      BY <1>5, <2>2 DEF ForcedOK
    <2>6. ReturnedOK'
      <3>1. CASE s = "align" /\ good
        <4>1. Whole("transcribe") /\ memory["transcribe"] = file["transcribe"].manifest
          BY <1>1, <3>1 DEF IInv, MemoryOK
        <4> QED
          BY <1>2, <1>3, <2>2, <3>1, <4>1 DEF ReturnedOK, AlignedMeansComplete, Whole, Torn
      <3>2. CASE ~(s = "align" /\ good)
        <4>1. ~ok'["align"]
          BY <1>2, <1>3, <3>2 DEF Stages
        <4> QED
          BY <4>1, <2>2 DEF ReturnedOK, AlignedMeansComplete
      <3> QED
        BY <3>1, <3>2
    <2> QED
      BY <2>3, <2>4, <2>5, <2>6 DEF IInv
  <1> QED
    BY <1>6, <1>7

(* An alignment has no blank state. *)
LEMMA AlignedHasText == \A rows \in Rows("align") : Done(rows) = WithText(rows)
  BY DEF Rows, Row, States, Done, WithText

LEMMA EndIInv == IInv /\ End => IInv'
  <1> SUFFICES ASSUME IInv, End PROVE IInv'
      OBVIOUS
  <1>0. PICK s \in Stages : s = job.stage
    BY DEF IInv, TypeOK, Job, End, At
  <1>1. /\ job.step = "work" /\ s # "off" /\ job.step \in Own /\ job.pending = {}
        /\ Finish(GoodEnough(s)) /\ UNCHANGED <<file, requests, reported>>
    BY <1>0 DEF End, At, Own, Stages
  <1>2. GoodEnough(s) \in BOOLEAN
    BY DEF GoodEnough
  <1>3. Done(Ordered(s)) \subseteq Done(file[s].manifest) /\ FilesOK(s)
    BY <1>0, <1>1 DEF IInv, MemoryOK, Stages
  <1>4. GoodEnough(s) => Done(Ordered(s)) # {}
    BY DEF GoodEnough, WithText, Done
  <1>5. GoodEnough(s) => Whole(s)
    BY <1>3, <1>4, EmptyHasNothing DEF Whole, FilesOK
  <1>6. GoodEnough(s) /\ s = "align" =>
              /\ WithText(memory["transcribe"]) # {}
              /\ WithText(memory["transcribe"]) \subseteq WithText(file["align"].manifest)
    <2>1. s = "align" => Done(file["align"].manifest) = WithText(file["align"].manifest)
      BY AlignedHasText DEF IInv, TypeOK, Files, Stages
    <2> QED
      BY <1>3, <2>1 DEF GoodEnough, Eligible
  <1>7. \A r \in Stages : FilesOK(r)'
    BY <1>1 DEF IInv, FilesOK, Holds, Needed, Whole, Claims, Logged, Torn
  <1>8. reported' \in [Stages -> SUBSET Segments]
    BY <1>1 DEF IInv, TypeOK
  <1> QED
    BY <1>0, <1>1, <1>2, <1>5, <1>6, <1>7, <1>8, FinishStep

LEMMA SkipIInv == IInv /\ Skip => IInv'
  <1> SUFFICES ASSUME IInv, Skip PROVE IInv'
      OBVIOUS
  <1>0. PICK s \in Stages : s = job.stage
    BY DEF IInv, TypeOK, Job, Skip, At
  <1>1. /\ job.step = "begin" /\ s # "off" /\ job.step \in Own /\ Finish(TRUE)
        /\ UNCHANGED <<file, requests>>
        /\ reported' = [reported EXCEPT ![s] = Eligible(s)]
        /\ Eligible(s) # {} /\ Eligible(s) \subseteq Done(memory[s]) /\ ~job.force
    BY <1>0 DEF Skip, AllThere, At, Own, Stages
  <1>2. Whole(s) /\ memory[s] = file[s].manifest
    BY <1>0, <1>1, EmptyHasNothing DEF IInv, MemoryOK, Stages
  <1>3. job.pending = {} /\ job.reading = s
    BY <1>0, <1>1 DEF IInv, JobOK, Before, Own, Stages
  <1>4. s = "align" => /\ Whole("transcribe") /\ memory["transcribe"] = file["transcribe"].manifest
                       /\ Eligible(s) = WithText(file["transcribe"].manifest)
    BY <1>0, <1>1, <1>3 DEF IInv, MemoryOK, Eligible
  <1>5. Eligible(s) \subseteq Segments
    BY DEF Eligible, WithText
  <1>6. /\ reported' \in [Stages -> SUBSET Segments] /\ reported'[s] = Eligible(s)
        /\ \A r \in Stages : r # s => reported'[r] = reported[r]
    BY <1>1, <1>5 DEF IInv, TypeOK
  <1>7. FilesOK("transcribe") /\ FilesOK("align") /\ "transcribe" \in Stages /\ "align" \in Stages
    BY DEF IInv, Stages
  <1>8. \A r \in Stages : r # s => FilesOK(r)'
    <2>1. CASE s = "transcribe"
      BY <2>1, <1>1, <1>6, <1>7 DEF Stages, FilesOK, Holds, Needed, Whole, Claims, Logged, Torn
    <2>2. CASE s = "align"
      <3>1. reported'["align"] \subseteq Present(file["transcribe"].manifest)
        BY <2>2, <1>4, <1>6 DEF WithText, Present
      <3>2. /\ reported'["transcribe"] = reported["transcribe"]
            /\ Needed("transcribe")' = reported'["align"]
        BY <2>2, <1>6, <1>7 DEF Needed
      <3>3. Present(file["transcribe"].manifest) \subseteq Present(file["transcribe"].events)
        BY <1>7 DEF FilesOK, Logged
      <3>4. FilesOK("transcribe")'
        BY <2>2, <1>1, <1>4, <1>7, <3>1, <3>2, <3>3 DEF FilesOK, Holds, Whole, Claims, Logged, Torn
      <3> QED
        BY <2>2, <3>4 DEF Stages
    <2> QED
      BY <1>0, <2>1, <2>2 DEF Stages
  <1>9. FilesOK(s)'
    <2>1. FilesOK(s)
      BY DEF IInv
    <2>2. Needed(s)' = Needed(s)
      BY <1>6, <1>7 DEF Needed
    <2> QED
      BY <2>1, <2>2, <1>1, <1>2, <1>6 DEF FilesOK, Holds, Logged, Whole, Torn
  <1>10. s = "align" =>
              /\ WithText(memory["transcribe"]) # {}
              /\ WithText(memory["transcribe"]) \subseteq WithText(file["align"].manifest)
    <2>1. s = "align" => Done(file["align"].manifest) = WithText(file["align"].manifest)
      BY AlignedHasText DEF IInv, TypeOK, Files, Stages
    <2> QED
      BY <1>1, <1>2, <1>4, <2>1
  <1> QED
    BY <1>0, <1>1, <1>2, <1>3, <1>6, <1>8, <1>9, <1>10, FinishStep

-----------------------------------------------------------------------------
LEMMA InitIInv == Init => IInv
  <1> SUFFICES ASSUME Init PROVE IInv
      OBVIOUS
  <1>1. \A s \in Stages : file[s] = NoFiles /\ memory[s] = Empty /\ reported[s] = {} /\ ~ok[s]
    BY DEF Init, NoMemory
  <1>2. \A s \in Stages : NoFiles \in Files(s) /\ Empty \in Rows(s)
    BY EmptyType DEF NoFiles, Files
  <1>3. job \in Job /\ job.stage = "off" /\ ~job.force /\ job = Off
    BY DEF Init, Off, Job, Stages
  <1>4. TypeOK
    <2>1. file = [s \in Stages |-> file[s]] /\ memory = [s \in Stages |-> memory[s]]
      BY DEF Init, NoMemory
    <2>2. requests \in 0..MaxRequests
      BY JournalAssumption DEF Init
    <2>3. reported \in [Stages -> SUBSET Segments] /\ ok \in [Stages -> BOOLEAN]
      BY DEF Init
    <2>4. job.stage # "align"
      BY <1>3
    <2> QED
      BY <1>1, <1>2, <1>3, <2>1, <2>2, <2>3, <2>4 DEF TypeOK
  <1>5. JobOK /\ MemoryOK /\ ForcedOK
    BY <1>1, <1>3 DEF JobOK, MemoryOK, ForcedOK
  <1>6. ReturnedOK
    BY <1>1, <1>3 DEF ReturnedOK, AlignedMeansComplete, Stages
  <1>7. ASSUME NEW s \in Stages PROVE FilesOK(s)
    <2>1. reported[s] = {} /\ Needed(s) = {}
      BY <1>1 DEF Needed, Stages
    <2>2. /\ file[s].manifest = Empty /\ file[s].checkpoint = Empty /\ file[s].events = Empty
      BY <1>1 DEF NoFiles
    <2> QED
      BY <2>1, <2>2, EmptyHasNothing DEF FilesOK, Holds, Whole, Claims, Logged
  <1> QED
    BY <1>4, <1>5, <1>6, <1>7 DEF IInv

(* The same state again, also where a temporal step stutters. *)
LEMMA StutterIInv == IInv /\ UNCHANGED vars => IInv'
  <1> SUFFICES ASSUME IInv, UNCHANGED vars PROVE IInv'
      OBVIOUS
  <1>1. TypeOK'
    BY DEF IInv, TypeOK, vars
  <1>2. JobOK'
    BY DEF IInv, JobOK, vars, Needed
  <1>3. \A s \in Stages : FilesOK(s)'
    BY DEF IInv, FilesOK, Holds, Needed, Whole, Claims, Logged, Torn, vars
  <1>4. MemoryOK'
    <2>1. Ordered(job.stage)' = Ordered(job.stage)
      BY DEF vars, Ordered
    <2> QED
      BY <2>1 DEF IInv, MemoryOK, Holds, Needed, Whole, Claims, Logged, Torn, vars
  <1>5. ForcedOK' /\ ReturnedOK'
    BY DEF IInv, ForcedOK, ReturnedOK, AlignedMeansComplete, Recent, Whole, Torn, vars
  <1> QED
    BY <1>1, <1>2, <1>3, <1>4, <1>5 DEF IInv

LEMMA NextIInv == IInv /\ [Next]_vars => IInv'
  <1> SUFFICES ASSUME IInv, Next PROVE IInv'
      BY StutterIInv
  <1>1. CASE \E first, last \in Stages, force \in BOOLEAN, reset \in Stages \cup {"none"} :
               Start(first, last, force, reset)
    BY <1>1, StartIInv
  <1>2. CASE \E s \in Stages : Clear(s)
    BY <1>2, ClearIInv
  <1>3. CASE Cleared \/ ReadNothing \/ ReadManifest \/ ReadJournal \/ Restore \/ ReadFails
    BY <1>3, ClearedIInv, ReadNothingIInv, ReadManifestIInv, ReadJournalIInv, RestoreIInv,
       ReadFailsIInv
  <1>4. CASE Skip \/ BeginWork
    BY <1>4, SkipIInv, BeginWorkIInv
  <1>5. CASE \E g \in Segments, state \in Outcomes : Work(g, state)
    BY <1>5, WorkIInv
  <1>6. CASE WriteCheckpoint \/ WriteManifest \/ ReportProgress \/ End
    BY <1>6, WriteCheckpointIInv, WriteManifestIInv, ReportProgressIInv, EndIInv
  <1>7. CASE Crash
    BY <1>7, CrashIInv
  <1>8. CASE \E s \in Stages : TearManifest(s) \/ TearCheckpoint(s)
    BY <1>8, TearManifestIInv, TearCheckpointIInv
  <1> QED
    BY <1>1, <1>2, <1>3, <1>4, <1>5, <1>6, <1>7, <1>8 DEF Next

(* The invariant holds in every reachable state. *)
THEOREM JournalInvariance == Spec => []IInv
  <1> QED
    BY InitIInv, NextIInv, PTL DEF Spec
-----------------------------------------------------------------------------
(* Every file, the process and what it has read keep their types: in        *)
(* particular the align stage never has a segment without a text to align. *)
THEOREM JournalTypeCorrect == Spec => []TypeOK
  <1>1. IInv => TypeOK
    BY DEF IInv
  <1> QED
    BY <1>1, JournalInvariance, PTL

(* No kill between two writes, and no torn file, loses a segment that      *)
(* write_progress_json has reported as done.                               *)
THEOREM ReportedIsKeptAlways == Spec => []ReportedIsKept
  <1>1. IInv => ReportedIsKept
    <2> SUFFICES ASSUME IInv, NEW s \in Stages
                 PROVE  IF Whole(s) THEN reported[s] \subseteq Done(file[s].manifest)
                        ELSE reported[s] # {} => /\ ~Torn(s, "checkpoint")
                                                 /\ reported[s] \subseteq Done(Recovered(s))
        BY DEF ReportedIsKept, Whole
    <2>1. FilesOK(s) /\ Holds(s, Recovered(s))
      BY RecoveredFacts DEF IInv
    <2> QED
      BY <2>1 DEF FilesOK, Holds, Claims
  <1> QED
    BY <1>1, JournalInvariance, PTL

(* An align stage that returned 0 leaves manifests that say it is complete. *)
THEOREM AlignedMeansCompleteAlways == Spec => []AlignedMeansComplete
  <1>1. IInv => AlignedMeansComplete
    BY DEF IInv, ReturnedOK
  <1> QED
    BY <1>1, JournalInvariance, PTL

(* --force mixes no row of an older run into what it returns. *)
THEOREM ForcedIsFreshAlways == Spec => []ForcedIsFresh
  <1>1. IInv => ForcedIsFresh
    BY DEF IInv, ForcedOK, ForcedIsFresh, Fresh, Recent
  <1> QED
    BY <1>1, JournalInvariance, PTL

Kept(s) == ~job.force /\ job.reset = "none" /\ ~Torn(s, "manifest") /\ ~Torn(s, "manifest")'
             => \A g \in Done(file[s].manifest) :
                  file["transcribe"].manifest[g].state # "none"
                    => file'[s].manifest[g] = file[s].manifest[g]

(* A step that writes no manifest keeps every row, and so do the others. *)
LEMMA NextKeeps == IInv /\ [Next]_vars => \A s \in Stages : Kept(s)
  <1> SUFFICES ASSUME IInv, [Next]_vars, NEW s \in Stages PROVE Kept(s)
      OBVIOUS
  <1>1. FileType
    BY TypeParts DEF IInv
  <1>2. ASSUME NEW r \in Stages, Clear(r) PROVE Kept(s)
    BY <1>2 DEF Clear, At, IInv, JobOK, Kept
  <1>3. CASE Restore
    <2>1. PICK r \in Stages : r = job.reading
      BY DEF IInv, TypeOK, Job
    <2>2. memory[r] \in Rows(r) /\ PutManifest(r, memory[r]) /\ file[r].manifest = Empty
      BY <1>3, <2>1 DEF Restore, Restored, At, IInv, TypeOK, MemoryOK
    <2>3. \A q \in Stages : q # r => file'[q] = file[q]
      BY <1>1, <2>2, PutManifestFacts
    <2> QED
      BY <2>2, <2>3, EmptyHasNothing DEF Kept
  <1>4. CASE WriteManifest
    <2>1. PICK r \in Stages : r = job.stage
      BY <1>4 DEF WriteManifest, At, IInv, TypeOK, Job
    <2>2. /\ job.step = "manifest" /\ job.step \in Own /\ PutManifest(r, Ordered(r)) /\ r # "off"
      BY <1>4, <2>1 DEF WriteManifest, At, Own
    <2>3. Ordered(r) \in Rows(r)
      BY <2>1, <2>2, OrderedFacts
    <2>4. /\ file'[r].manifest = Ordered(r)
          /\ \A q \in Stages : q # r => file'[q] = file[q]
      BY <1>1, <2>2, <2>3, PutManifestFacts
    <2>5. ~job.force => \A g \in Done(file[r].manifest) : memory[r][g] = file[r].manifest[g]
      BY <2>1, <2>2 DEF IInv, MemoryOK
    <2>6. r = "align" => memory["transcribe"] = file["transcribe"].manifest
      BY <2>1, <2>2 DEF IInv, MemoryOK, JobOK
    <2>7. \A g \in Segments : file["transcribe"].manifest[g].state # "none"
                                => r = "transcribe" \/ Ordered(r)[g] = memory[r][g]
      BY <2>1, <2>6 DEF Ordered, Stages
    <2>8. r = "transcribe" => \A g \in Segments : Ordered(r)[g] = memory[r][g]
      BY DEF Ordered
    <2> QED
      BY <2>4, <2>5, <2>7, <2>8 DEF Kept, Done
  <1>5. ASSUME NEW r \in Stages, TearManifest(r) PROVE Kept(s)
    <2>1. /\ file'[r].torn = file[r].torn \cup {"manifest"}
          /\ \A q \in Stages : q # r => file'[q] = file[q]
      BY <1>1, <1>5 DEF FileType, Files, TearManifest
    <2> QED
      BY <2>1 DEF Kept, Torn
  <1>6. ASSUME NEW r \in Stages, TearCheckpoint(r) PROVE Kept(s)
    <2>1. file'[r].manifest = file[r].manifest /\ \A q \in Stages : q # r => file'[q] = file[q]
      BY <1>1, <1>6 DEF FileType, Files, TearCheckpoint
    <2> QED
      BY <2>1 DEF Kept
  <1>7. CASE WriteCheckpoint
    <2>1. PICK r \in Stages : r = job.stage
      BY <1>7 DEF WriteCheckpoint, At, IInv, TypeOK, Job
    <2>2. /\ job.step \in Own /\ PutCheckpoint(r, Ordered(r)) /\ r # "off"
      BY <1>7, <2>1 DEF WriteCheckpoint, At, Own
    <2>3. Ordered(r) \in Rows(r)
      BY <2>1, <2>2, OrderedFacts
    <2>4. file'[r].manifest = file[r].manifest /\ \A q \in Stages : q # r => file'[q] = file[q]
      BY <1>1, <2>2, <2>3, PutCheckpointFacts
    <2> QED
      BY <2>4 DEF Kept
  <1>8. ASSUME NEW g \in Segments, NEW state \in Outcomes, Work(g, state) PROVE Kept(s)
    <2>1. PICK r \in Stages : r = job.stage
      BY <1>8 DEF Work, At, IInv, TypeOK, Job
    <2>2. file[r] \in Files(r) /\ file' = [file EXCEPT ![r].events[g] = [state |-> state, of |-> requests]]
      BY <1>1, <1>8, <2>1 DEF FileType, Work
    <2>3. file'[r].manifest = file[r].manifest /\ \A q \in Stages : q # r => file'[q] = file[q]
      BY <1>1, <2>2 DEF FileType, Files
    <2> QED
      BY <2>3 DEF Kept
  <1>9. CASE UNCHANGED file
    BY <1>9 DEF Kept
  <1> QED
    BY <1>2, <1>3, <1>4, <1>5, <1>6, <1>7, <1>8, <1>9
    DEF Next, vars, Start, Cleared, ReadNothing, ReadManifest, ReadJournal, ReadFails, Skip,
        BeginWork, ReportProgress, End, Crash

(* Resuming never recomputes a row that is there, nor changes it. *)
THEOREM ResumeKeepsRowsAlways == Spec => ResumeKeepsRows
  <1>1. IInv /\ [Next]_vars => [\A s \in Stages : Kept(s)]_vars
    BY NextKeeps
  <1>2. Spec => [][\A s \in Stages : Kept(s)]_vars
    BY <1>1, JournalInvariance, PTL DEF Spec
  <1> QED
    BY <1>2 DEF ResumeKeepsRows, Kept

(* Whatever was killed, torn and recovered before: what a stage leaves that *)
(* ended well is complete and, if it was forced, its own.                  *)
THEOREM EndedIsWholeAlways == Spec => []EndedIsWhole
  <1>1. AlignedMeansComplete /\ ForcedIsFresh => EndedIsWhole
    BY DEF EndedIsWhole
  <1> QED
    BY <1>1, AlignedMeansCompleteAlways, ForcedIsFreshAlways, PTL
-----------------------------------------------------------------------------
(* The windows transcribe makes rows of.                                   *)

(* An audio file is of its window, and a row was heard in its window, but  *)
(* for what prepare left behind; what is transcribed has its audio file,   *)
(* and what is heard from a file left behind is a row left behind.         *)
FilesAreOfWindows ==
    "audio" \notin excused => \A n \in DOMAIN wavs \cap DOMAIN segs : wavs[n] = segs[n].heard
RowsAreOfWindows ==
    "rows" \notin excused =>
        \A n \in DOMAIN transcripts \cap DOMAIN segs :
            transcripts[n].status = "completed" => transcripts[n].of = segs[n].heard
WorkHasAudio ==
    at = "transcribing" => /\ remaining \subseteq DOMAIN segs \cap DOMAIN wavs
                           /\ "audio" \in excused => "rows" \in excused
WindowIInv == FilesAreOfWindows /\ RowsAreOfWindows /\ WorkHasAudio

(* A batch is a sequence of windows that remain.                           *)
LEMMA BatchRemains ==
    ASSUME NEW batch \in T!NextBatches
    PROVE  /\ batch \in Seq(remaining) /\ batch # <<>>
           /\ DOMAIN batch = 1..Len(batch)
<1>1. PICK first \in T!Firsts : batch \in T!Orders(first)
  BY DEF T!NextBatches
<1>2. T!Cardinality(first) \in Nat /\ T!Cardinality(first) > 0 /\ first \subseteq remaining
  BY DEF T!Firsts, T!Shortest
<1>3. batch \in [1..T!Cardinality(first) -> first]
  BY <1>1 DEF T!Orders
<1> QED
  BY <1>2, <1>3

(* Rows that are of their windows keep the others.                         *)
LEMMA AdoptKeeps ==
    ASSUME WindowIInv, at = "transcribing", NEW new, T!Adopt(new),
           UNCHANGED <<segs, wavs, at, excused>>, remaining' \subseteq remaining,
           "rows" \notin excused =>
               \A n \in DOMAIN new : new[n].status = "completed" => new[n].of = segs[n].heard
    PROVE  WindowIInv'
<1>1. RowsAreOfWindows'
  BY DEF WindowIInv, RowsAreOfWindows, T!Adopt
<1> QED
  BY <1>1 DEF WindowIInv, FilesAreOfWindows, WorkHasAudio

(* A row made of the audio file of its window is of that window.           *)
LEMMA RowIsHeard ==
    ASSUME WindowIInv, at = "transcribing", "rows" \notin excused, NEW n \in remaining, NEW text
    PROVE  T!RowOf(n, text, wavs[n]).of = segs[n].heard
BY DEF WindowIInv, FilesAreOfWindows, WorkHasAudio, T!RowOf, T!Row

LEMMA WindowStep == WindowIInv /\ [T!Next]_(T!vars) => WindowIInv'
<1> SUFFICES ASSUME WindowIInv, [T!Next]_(T!vars) PROVE WindowIInv'
  OBVIOUS
<1>1. ASSUME NEW s \in Settings, NEW force \in BOOLEAN, T!Prepare(s, force)
      PROVE  WindowIInv'
  <2>1. FilesAreOfWindows'
    BY <1>1 DEF WindowIInv, FilesAreOfWindows, T!Prepare, T!Kept, T!None
  <2>2. RowsAreOfWindows'
    BY <1>1 DEF WindowIInv, RowsAreOfWindows, T!Prepare, T!None
  <2>3. WorkHasAudio'
    BY <1>1 DEF WorkHasAudio, T!Prepare
  <2> QED
    BY <2>1, <2>2, <2>3 DEF WindowIInv
<1>2. ASSUME NEW force \in BOOLEAN, NEW m \in Modes, T!Transcribe(force, m)
      PROVE  WindowIInv'
  <2> DEFINE old == IF force THEN T!None ELSE transcripts
             pending == {n \in T!Numbers : ~(n \in DOMAIN old /\ old[n].status = "completed")}
  <2>1. /\ transcripts' = old /\ segs' = segs
        /\ pending = {} => wavs' = wavs /\ at' = at
        /\ pending # {} => wavs' = T!Cut(pending) /\ remaining' = pending
        /\ excused' = IF pending # {} /\ "audio" \in excused THEN excused \cup {"rows"}
                      ELSE IF force THEN excused \ {"rows"} ELSE excused
        /\ at = "idle"
    BY <1>2 DEF T!Transcribe
  <2>2. FilesAreOfWindows'
    <3>1. CASE pending = {}
      BY <2>1, <3>1 DEF WindowIInv, FilesAreOfWindows
    <3>2. CASE pending # {}
      BY <2>1, <3>2 DEF WindowIInv, FilesAreOfWindows, T!Cut
    <3> QED
      BY <3>1, <3>2
  <2>3. RowsAreOfWindows'
    <3>1. CASE force
      BY <2>1, <3>1 DEF RowsAreOfWindows, T!None
    <3>2. CASE ~force
      BY <2>1, <3>2 DEF WindowIInv, RowsAreOfWindows
    <3> QED
      BY <3>1, <3>2
  <2>4. WorkHasAudio'
    <3>1. CASE pending = {}
      BY <2>1, <3>1 DEF WorkHasAudio
    <3>2. CASE pending # {}
      <4>1. pending \subseteq DOMAIN segs /\ pending \subseteq DOMAIN T!Cut(pending)
        BY DEF T!Numbers, T!Cut
      <4> HIDE DEF pending, old
      <4> QED
        BY <2>1, <3>2, <4>1 DEF WorkHasAudio
    <3> QED
      BY <3>1, <3>2
  <2> QED
    BY <2>2, <2>3, <2>4 DEF WindowIInv
<1>3. ASSUME T!OutOfMemory
      PROVE  WindowIInv'
  BY <1>3 DEF T!OutOfMemory, WindowIInv, FilesAreOfWindows, RowsAreOfWindows, WorkHasAudio
<1>4. ASSUME T!Finish
      PROVE  WindowIInv'
  BY <1>4 DEF T!Finish, WindowIInv, FilesAreOfWindows, RowsAreOfWindows, WorkHasAudio
<1>5. ASSUME NEW batch \in T!NextBatches, T!OneByOne(batch)
      PROVE  WindowIInv'
  <2>1. /\ at = "transcribing" /\ UNCHANGED <<segs, wavs, at, excused>> /\ remaining' \subseteq remaining
    BY <1>5 DEF T!OneByOne, T!Answered
  <2>2. PICK text : T!Adopt([n \in T!ToSet(batch) |-> T!RowOf(n, text[n], wavs[n])])
    BY <1>5 DEF T!OneByOne
  <2>3. T!ToSet(batch) \subseteq remaining
    BY BatchRemains DEF T!ToSet
  <2> DEFINE new == [n \in T!ToSet(batch) |-> T!RowOf(n, text[n], wavs[n])]
  <2>4. ASSUME "rows" \notin excused, NEW n \in DOMAIN new
        PROVE  new[n].of = segs[n].heard
    BY <2>1, <2>3, <2>4, RowIsHeard
  <2> HIDE DEF new
  <2> QED
    BY <2>1, <2>2, <2>4, AdoptKeeps DEF new
<1>6. ASSUME NEW batch \in T!NextBatches, NEW list \in {batch, Tail(batch)}, T!BatchAnswer(batch, list)
      PROVE  WindowIInv'
  <2> DEFINE count == T!AtMost(Len(batch), Len(list))
  <2>1. /\ at = "transcribing" /\ UNCHANGED <<segs, wavs, at, excused>> /\ remaining' \subseteq remaining
        /\ Len(list) = Len(batch)
    BY <1>6 DEF T!BatchAnswer, T!Answered, T!SizeMatches
  <2>2. list = batch /\ batch \in Seq(remaining)
    BY <2>1, BatchRemains
  <2>3. count = Len(batch) /\ DOMAIN batch = 1..Len(batch)
    BY <2>2, BatchRemains DEF T!AtMost
  <2> DEFINE place(n) == CHOOSE i \in 1..count : batch[i] = n
             made(text) == [n \in {batch[i] : i \in 1..count} |->
                               T!RowOf(n, text[place(n)], wavs[list[place(n)]])]
  <2>4. PICK text : T!Adopt(made(text))
    BY <1>6 DEF T!BatchAnswer
  <2>5. ASSUME "rows" \notin excused, NEW n \in DOMAIN made(text)
        PROVE  made(text)[n].of = segs[n].heard
    <3>1. n \in {batch[i] : i \in 1..count}
      BY <2>5
    <3>2. place(n) \in 1..count /\ batch[place(n)] = n
      BY <3>1
    <3>3. n \in remaining
      BY <2>2, <2>3, <3>2
    <3>4. made(text)[n] = T!RowOf(n, text[place(n)], wavs[n])
      BY <3>1, <3>2, <2>2
    <3> QED
      BY <2>1, <2>5, <3>3, <3>4, RowIsHeard
  <2> HIDE DEF made
  <2> QED
    BY <2>1, <2>4, <2>5, AdoptKeeps
<1>7. ASSUME UNCHANGED T!vars
      PROVE  WindowIInv'
  BY <1>7 DEF T!vars, WindowIInv, FilesAreOfWindows, RowsAreOfWindows, WorkHasAudio
<1> QED
  BY <1>1, <1>2, <1>3, <1>4, <1>5, <1>6, <1>7 DEF T!Next, T!Run

(* The inductive invariant of transcribe over one workspace, for every     *)
(* recording, cut and context mode, and any number of commands.            *)
THEOREM WindowInvariant == TranscribeSpec => []WindowIInv
<1>1. T!Init => WindowIInv
  BY DEF T!Init, T!None, WindowIInv, FilesAreOfWindows, RowsAreOfWindows, WorkHasAudio
<1> QED
  BY <1>1, WindowStep, PTL DEF TranscribeSpec, T!Spec

(* A row's text was heard in the window the row stands for, whatever was   *)
(* prepared and transcribed again, but for what preparing left behind.     *)
THEOREM RowIsOfItsWindowAlways == TranscribeSpec => []RowIsOfItsWindow
<1>1. WindowIInv => RowIsOfItsWindow
  BY DEF WindowIInv, RowsAreOfWindows, RowIsOfItsWindow, T!RowIsOfItsWindow, T!Completed, T!Numbers
<1> QED
  BY <1>1, WindowInvariant, PTL

-----------------------------------------------------------------------------
(***************************************************************************)
(* That no speech is lost when a recording is cut.  The regions and the    *)
(* windows are computed by recursive functions, and what these compute is  *)
(* proved by induction over sets: a property of numbers is the set of      *)
(* numbers that have it.                                                   *)
(***************************************************************************)
(* Every set of numbers that has one has a least.                          *)
LEMMA LeastNatural ==
    ASSUME NEW S \in SUBSET Nat, S # {}
    PROVE  \E n \in S : \A k \in S : n <= k
<1>1. PICK n \in S : \A k \in S : <<k, n>> \notin OpToRel(<, Nat)
  BY NatLessThanWellFounded, WFMin
<1>2. \A k \in S : <<k, n>> \notin {ss \in Nat \X Nat : ss[1] < ss[2]}
  BY <1>1, Zenon DEF OpToRel
<1>3. \A k \in Nat : <<k, n>> \notin {ss \in Nat \X Nat : ss[1] < ss[2]} => n <= k
  OBVIOUS
<1> QED
  BY <1>2, <1>3

(* What holds of a number whenever it holds of all below it holds of all.  *)
LEMMA StrongInduction ==
    ASSUME NEW n \in Nat, NEW S, \A i \in 0..n : 0..(i - 1) \subseteq S => i \in S
    PROVE  0..n \subseteq S
<1> DEFINE Bad == {i \in 0..n : i \notin S}
<1>1. CASE Bad = {}
  BY <1>1
<1>2. CASE Bad # {}
  <2>1. Bad \in SUBSET Nat
    OBVIOUS
  <2>2. PICK i \in Bad : \A k \in Bad : i <= k
    <3> HIDE DEF Bad
    <3> QED BY <1>2, <2>1, LeastNatural
  <2>3. 0..(i - 1) \subseteq S
    BY <2>2
  <2> QED BY <2>2, <2>3
<1> QED BY <1>1, <1>2

(* A definition of f[i] by the f[j] of j < i (G[i][f], which looks at      *)
(* those only) has a function that satisfies it.                           *)
Looks(n, V, G) ==
    /\ G \in [0..n -> [[0..n -> V] -> V]]
    /\ \A i \in 0..n : \A g, h \in [0..n -> V] :
           (\A j \in 0..(i - 1) : g[j] = h[j]) => G[i][g] = G[i][h]
Solved(n, V, G) == \E f \in [0..n -> V] : \A i \in 0..n : f[i] = G[i][f]

LEMMA Recursion ==
    ASSUME NEW n \in Nat, NEW V, V # {}, NEW G, Looks(n, V, G)
    PROVE  Solved(n, V, G)
<1> DEFINE Until(k, f) == \A i \in 0..(k - 1) : f[i] = G[i][f]
           Bad == {k \in 0..(n + 1) : ~ \E f \in [0..n -> V] : Until(k, f)}
<1>1. Bad = {}
  <2> SUFFICES ASSUME Bad # {} PROVE FALSE
    OBVIOUS
  <2>1. Bad \subseteq 0..(n + 1)
    OBVIOUS
  <2>2. PICK k \in Bad : \A m \in Bad : k <= m
    <3> HIDE DEF Bad
    <3> QED BY <2>1, LeastNatural
  <2>3. k # 0
    <3>1. PICK v \in V : TRUE
      OBVIOUS
    <3>2. [i \in 0..n |-> v] \in [0..n -> V]
      OBVIOUS
    <3>3. \A f \in [0..n -> V] : Until(0, f)
      OBVIOUS
    <3> QED BY <3>2, <3>3
  <2>4. k \in 1..(n + 1) /\ k - 1 \notin Bad /\ k - 1 \in 0..n
    <3> HIDE DEF Bad
    <3> QED BY <2>1, <2>2, <2>3
  <2>5. PICK f \in [0..n -> V] : Until(k - 1, f)
    BY <2>4
  <2> DEFINE h == [f EXCEPT ![k - 1] = G[k - 1][f]]
  <2>6. h \in [0..n -> V] /\ h[k - 1] = G[k - 1][f] /\ \A j \in 0..(k - 2) : h[j] = f[j]
    BY <2>4 DEF Looks
  <2>7. Until(k, h)
    <3> SUFFICES ASSUME NEW i \in 0..(k - 1) PROVE h[i] = G[i][h]
      OBVIOUS
    <3>1. i \in 0..n /\ \A j \in 0..(i - 1) : f[j] = h[j]
      BY <2>4, <2>6
    <3>2. G[i][f] = G[i][h]
      <4> HIDE DEF h
      <4> QED BY <3>1, <2>6 DEF Looks
    <3>3. CASE i = k - 1
      BY <2>6, <3>2, <3>3
    <3>4. CASE i # k - 1
      <4>1. i \in 0..(k - 1 - 1) /\ f[i] = G[i][f]
        BY <3>4, <2>5, <2>4
      <4> QED BY <2>6, <3>2, <4>1, <2>4
    <3> QED BY <3>3, <3>4
  <2> QED BY <2>6, <2>7
<1>2. \A k \in 0..(n + 1) : \E f \in [0..n -> V] : Until(k, f)
  <2> HIDE DEF Until
  <2> QED BY <1>1
<1>3. PICK f \in [0..n -> V] : Until(n + 1, f)
  <2> HIDE DEF Until
  <2>1. n + 1 \in 0..(n + 1)
    OBVIOUS
  <2> QED BY <1>2, <2>1
<1>4. (n + 1) - 1 = n
  OBVIOUS
<1>5. \A i \in 0..n : f[i] = G[i][f]
  BY <1>3, <1>4
<1> QED BY <1>5 DEF Solved

(* A fold: each value is made of the one before.                           *)
Steps(n, V, v, F) == v \in V /\ F \in [1..n -> [V -> V]]
Folds(n, V, v, F) == \E f \in [0..n -> V] : f[0] = v /\ \A i \in 1..n : f[i] = F[i][f[i - 1]]

LEMMA Folding ==
    ASSUME NEW n \in Nat, NEW V, NEW v, NEW F, Steps(n, V, v, F)
    PROVE  Folds(n, V, v, F)
<1> DEFINE G == [i \in 0..n |-> [g \in [0..n -> V] |-> IF i = 0 THEN v ELSE F[i][g[i - 1]]]]
<1>1. Looks(n, V, G)
  <2>1. G \in [0..n -> [[0..n -> V] -> V]]
    BY DEF Steps
  <2>2. ASSUME NEW i \in 0..n, NEW g \in [0..n -> V], NEW h \in [0..n -> V], \A j \in 0..(i - 1) : g[j] = h[j]
        PROVE  G[i][g] = G[i][h]
    BY <2>2
  <2> HIDE DEF G
  <2> QED BY <2>1, <2>2 DEF Looks
<1>2. V # {}
  BY DEF Steps
<1>3. Solved(n, V, G)
  <2> HIDE DEF G
  <2> QED BY <1>1, <1>2, Recursion
<1>4. PICK f \in [0..n -> V] : \A i \in 0..n : f[i] = G[i][f]
  BY <1>3 DEF Solved
<1>5. f[0] = v /\ \A i \in 1..n : f[i] = F[i][f[i - 1]]
  BY <1>4
<1> QED BY <1>5 DEF Folds

-----------------------------------------------------------------------------
(* The windows of a recording: runs of marked frames long enough.          *)
LongRuns(r) == {w \in T!Runs(r.speech) : T!Length(w) >= MinSpeech}
Spans(last) == [start : Nat, end : 0..last]

LEMMA RunFacts ==
    ASSUME NEW r \in Recordings, NEW w \in T!Runs(r.speech)
    PROVE  /\ w \in Spans(T!Duration(r)) /\ w.start < w.end
           /\ \E f \in 1..r.frames : w.end = 2 * f
           /\ \A v \in T!Runs(r.speech) :
                  (v.end < w.end => v.end <= w.start) /\ (v.end = w.end => v.start = w.start)
<1>1. r.frames \in Nat /\ r.speech \subseteq 0..(r.frames - 1)
  BY TAssumption DEF T!TranscriptionAssumption
<1>2. PICK p \in r.speech \X r.speech :
          /\ p[1] <= p[2] /\ p[1]..p[2] \subseteq r.speech
          /\ p[1] - 1 \notin r.speech /\ p[2] + 1 \notin r.speech
          /\ w = T!Span(2 * p[1], 2 * p[2] + 2)
  BY DEF T!Runs
<1>3. p[1] \in 0..(r.frames - 1) /\ p[2] \in 0..(r.frames - 1) /\ w.start = 2 * p[1] /\ w.end = 2 * p[2] + 2
  BY <1>1, <1>2 DEF T!Span
<1>4. w \in Spans(T!Duration(r)) /\ w.start < w.end
  BY <1>1, <1>2, <1>3 DEF T!Span, Spans, T!Duration
<1>5. p[2] + 1 \in 1..r.frames /\ w.end = 2 * (p[2] + 1)
  BY <1>1, <1>3
<1>6. ASSUME NEW v \in T!Runs(r.speech)
      PROVE  (v.end < w.end => v.end <= w.start) /\ (v.end = w.end => v.start = w.start)
  <2>1. PICK q \in r.speech \X r.speech :
            /\ q[1] <= q[2] /\ q[1]..q[2] \subseteq r.speech
            /\ q[1] - 1 \notin r.speech /\ q[2] + 1 \notin r.speech
            /\ v = T!Span(2 * q[1], 2 * q[2] + 2)
    BY DEF T!Runs
  <2>2. q[1] \in 0..(r.frames - 1) /\ q[2] \in 0..(r.frames - 1) /\ v.start = 2 * q[1] /\ v.end = 2 * q[2] + 2
    BY <1>1, <2>1 DEF T!Span
  <2>3. ASSUME v.end < w.end PROVE v.end <= w.start
    <3>1. q[2] < p[2]
      BY <1>3, <2>3, <2>2
    <3>2. q[2] + 1 < p[1] \/ q[2] + 1 \in p[1]..p[2]
      BY <1>3, <2>2, <3>1
    <3>3. q[2] + 1 < p[1]
      BY <1>2, <2>1, <3>2
    <3> QED BY <1>3, <2>2, <3>3
  <2>4. ASSUME v.end = w.end PROVE v.start = w.start
    <3>1. q[2] = p[2]
      BY <1>1, <1>3, <2>4, <2>2
    <3>2. q[1] - 1 \in p[1]..p[2] \/ p[1] - 1 \in q[1]..q[2] \/ p[1] = q[1]
      BY <1>2, <1>3, <2>1, <2>2, <3>1
    <3>3. p[1] = q[1]
      BY <1>2, <2>1, <3>2
    <3> QED BY <1>3, <2>2, <3>3
  <2> QED BY <2>3, <2>4
<1> QED BY <1>4, <1>5, <1>6

(* SpeechRegions, up to a frame: what has been marked is between the first *)
(* region's start and the last one's end.                                  *)
Regions(r, f, g) ==
    /\ g \in Seq(Spans(T!Duration(r)))
    /\ g # <<>> => \E u \in LongRuns(r) : u.end <= 2 * f /\ g[1].start <= u.start /\ u.end <= g[Len(g)].end
    /\ \A w \in LongRuns(r) : w.end <= 2 * f =>
           g # <<>> /\ g[1].start <= w.start /\ w.end <= g[Len(g)].end

LEMMA PaddedSuits ==
    ASSUME NEW r \in Recordings, NEW w \in T!Runs(r.speech)
    PROVE  LET p == T!Padded(w, r) IN p \in Spans(T!Duration(r)) /\ p.start <= w.start /\ w.end <= p.end
<1>1. r.frames \in Nat /\ SpeechPad \in Nat
  BY TAssumption DEF T!TranscriptionAssumption, T!SegmentationAssumption
<1>2. w.start \in Nat /\ w.end \in 0..(2 * r.frames) /\ w.start < w.end
  BY RunFacts DEF Spans, T!Duration
<1> QED BY <1>1, <1>2 DEF T!Padded, T!Span, T!AtLeast, T!AtMost, Spans, T!Duration

LEMMA JoinedSpans ==
    ASSUME NEW D \in Nat, NEW g \in Seq(Spans(D)), NEW p \in Spans(D)
    PROVE  LET h == T!Joined(g, p)
           IN  /\ h \in Seq(Spans(D)) /\ h # <<>> /\ p.end <= h[Len(h)].end
               /\ g # <<>> => h[1].start = g[1].start
               /\ g = <<>> => h = <<p>>
<1> DEFINE n == Len(g)
           h == T!Joined(g, p)
<1>1. MergeGap \in Nat /\ n \in Nat /\ p.start \in Nat /\ p.end \in 0..D
  BY TAssumption DEF T!TranscriptionAssumption, T!SegmentationAssumption, Spans
<1>2. CASE g # <<>> /\ p.start <= g[n].end + MergeGap
  <2> DEFINE e == T!AtLeast(g[n].end, p.end)
             last == [g[n] EXCEPT !.end = e]
  <2>1. n \in 1..n /\ 1 \in 1..n /\ n - 1 \in Nat
    BY <1>1, <1>2
  <2>2. g[n] \in Spans(D)
    BY <2>1, ElementOfSeq
  <2>3. g[n].start \in Nat /\ g[n].end \in 0..D
    BY <2>2 DEF Spans
  <2>4. last \in Spans(D) /\ last.start = g[n].start /\ g[n].end <= last.end /\ p.end <= last.end
    <3>1. e \in 0..D /\ g[n].end <= e /\ p.end <= e
      BY <1>1, <2>3 DEF T!AtLeast
    <3> HIDE DEF e
    <3>2. last = [start |-> g[n].start, end |-> e]
      BY <2>2 DEF Spans
    <3> QED BY <2>3, <3>1, <3>2 DEF Spans
  <2>5. h = [g EXCEPT ![n] = last]
    BY <1>2 DEF T!Joined, T!Last
  <2> HIDE DEF last, h
  <2>6. h \in Seq(Spans(D)) /\ Len(h) = n /\ h[n] = last /\ \A k \in 1..n : k # n => h[k] = g[k]
    BY <2>1, <2>4, <2>5
  <2>7. h[1].start = g[1].start
    BY <2>1, <2>4, <2>6
  <2>8. h # <<>>
    BY <2>1, <2>6
  <2> QED BY <1>2, <2>4, <2>6, <2>7, <2>8 DEF h
<1>3. CASE ~(g # <<>> /\ p.start <= g[n].end + MergeGap)
  <2>1. h = Append(g, p)
    BY <1>3 DEF T!Joined, T!Last
  <2> HIDE DEF h
  <2>2. h \in Seq(Spans(D)) /\ Len(h) = n + 1 /\ h[n + 1] = p /\ h # <<>> /\ \A k \in 1..n : h[k] = g[k]
    BY <1>1, <2>1
  <2>3. g # <<>> => h[1] = g[1]
    BY <1>1, <2>2
  <2>4. g = <<>> => h = <<p>>
    BY <2>1
  <2>5. p.end <= h[Len(h)].end
    BY <1>1, <2>2
  <2> QED BY <2>1, <2>2, <2>3, <2>4, <2>5 DEF h
<1> QED BY <1>2, <1>3

RegionStep(r, f, g) ==
    IF T!Spoken(r, f) = {} THEN g ELSE T!Joined(g, T!Padded(CHOOSE w \in T!Spoken(r, f) : TRUE, r))

LEMMA RegionStepHolds ==
    ASSUME NEW r \in Recordings, NEW f \in 1..r.frames, NEW g, Regions(r, f - 1, g)
    PROVE  Regions(r, f, RegionStep(r, f, g))
<1> DEFINE D == T!Duration(r)
<1>1. r.frames \in Nat /\ D \in Nat /\ f \in Nat /\ f - 1 \in Nat /\ 2 * (f - 1) = 2 * f - 2
  BY TAssumption DEF T!TranscriptionAssumption, T!Duration
<1>2. \A w \in LongRuns(r) :
          /\ w \in T!Runs(r.speech) /\ w.start \in Nat /\ w.end \in Nat /\ w.start < w.end
          /\ w.end <= 2 * f => (w.end <= 2 * (f - 1) \/ w.end = 2 * f)
  <2> SUFFICES ASSUME NEW w \in LongRuns(r)
               PROVE  /\ w \in T!Runs(r.speech) /\ w.start \in Nat /\ w.end \in Nat /\ w.start < w.end
                      /\ w.end <= 2 * f => (w.end <= 2 * (f - 1) \/ w.end = 2 * f)
    OBVIOUS
  <2>1. w \in T!Runs(r.speech)
    BY DEF LongRuns
  <2>2. w.start \in Nat /\ w.end \in 0..D /\ w.start < w.end
    BY <2>1, RunFacts DEF Spans
  <2>3. PICK k \in 1..r.frames : w.end = 2 * k
    BY <2>1, RunFacts
  <2> QED BY <1>1, <2>1, <2>2, <2>3
<1>3. CASE T!Spoken(r, f) = {}
  <2>1. \A w \in LongRuns(r) : w.end # 2 * f
    BY <1>3 DEF LongRuns, T!Spoken
  <2>2. \A w \in LongRuns(r) : w.end <= 2 * f <=> w.end <= 2 * (f - 1)
    BY <1>1, <1>2, <2>1
  <2>3. RegionStep(r, f, g) = g
    BY <1>3 DEF RegionStep
  <2> QED BY <2>2, <2>3 DEF Regions
<1>4. CASE T!Spoken(r, f) # {}
  <2> DEFINE w0 == CHOOSE w \in T!Spoken(r, f) : TRUE
             p == T!Padded(w0, r)
             h == T!Joined(g, p)
  <2>1. w0 \in T!Spoken(r, f)
    BY <1>4
  <2>2. RegionStep(r, f, g) = h
    BY <1>4 DEF RegionStep
  <2> HIDE DEF w0
  <2>3. w0 \in LongRuns(r) /\ w0.end = 2 * f
    BY <2>1 DEF T!Spoken, LongRuns
  <2>4. p \in Spans(D) /\ p.start <= w0.start /\ 2 * f <= p.end /\ p.start \in Nat /\ p.end \in Nat
    BY <1>1, <1>2, <2>3, PaddedSuits DEF Spans
  <2>5. g \in Seq(Spans(D))
    BY DEF Regions
  <2> HIDE DEF p
  <2>6. /\ h \in Seq(Spans(D)) /\ h # <<>> /\ p.end <= h[Len(h)].end
        /\ g # <<>> => h[1].start = g[1].start
        /\ g = <<>> => h = <<p>>
    BY <1>1, <2>4, <2>5, JoinedSpans
  <2> HIDE DEF h, D
  <2>7. h[1].start \in Nat /\ h[Len(h)].end \in Nat
    <3>1. 1 \in 1..Len(h) /\ Len(h) \in 1..Len(h)
      BY <2>6
    <3>2. h[1] \in Spans(D) /\ h[Len(h)] \in Spans(D)
      BY <2>6, <3>1, ElementOfSeq
    <3> QED BY <1>1, <3>2 DEF Spans
  <2>8. \A w \in LongRuns(r) : w.end <= 2 * f => w.end <= h[Len(h)].end
    BY <1>1, <1>2, <2>4, <2>6, <2>7
  <2>9. \A w \in LongRuns(r) : w.end <= 2 * f => h[1].start <= w.start
    <3> SUFFICES ASSUME NEW w \in LongRuns(r), w.end <= 2 * f PROVE h[1].start <= w.start
      OBVIOUS
    <3>1. CASE g = <<>>
      <4>1. w.end = 2 * f
        BY <1>2, <3>1 DEF Regions
      <4>2. w.start = w0.start
        BY <1>2, <2>3, <4>1, RunFacts
      <4>3. h[1] = p
        BY <2>6, <3>1
      <4> QED BY <1>2, <2>3, <2>4, <4>2, <4>3
    <3>2. CASE g # <<>> /\ w.end <= 2 * (f - 1)
      BY <2>6, <3>2 DEF Regions
    <3>3. CASE g # <<>> /\ w.end = 2 * f
      <4>1. PICK u \in LongRuns(r) : u.end <= 2 * (f - 1) /\ g[1].start <= u.start
        BY <3>3 DEF Regions
      <4>2. u.end < w.end
        BY <1>1, <1>2, <3>3, <4>1
      <4>3. u.end <= w.start
        BY <1>2, <4>2, RunFacts
      <4> QED BY <1>2, <2>6, <2>7, <3>3, <4>1, <4>3
    <3> QED BY <1>2, <3>1, <3>2, <3>3
  <2>10. \E u \in LongRuns(r) : u.end <= 2 * f /\ h[1].start <= u.start /\ u.end <= h[Len(h)].end
    <3>1. w0.end <= 2 * f
      BY <1>1, <2>3
    <3> QED BY <2>3, <2>8, <2>9, <3>1
  <2>11. h \in Seq(Spans(T!Duration(r)))
    BY <2>6 DEF D
  <2> QED BY <2>2, <2>6, <2>8, <2>9, <2>10, <2>11 DEF Regions
<1> QED BY <1>3, <1>4

LEMMA RegionsHold == ASSUME NEW r \in Recordings PROVE Regions(r, r.frames, T!SpeechRegions(r))
<1> DEFINE n == r.frames
           V == Seq(Spans(T!Duration(r)))
           F == [f \in 1..n |-> [g \in V |-> RegionStep(r, f, g)]]
           IsIt(d) == d = [f \in 0..n |-> IF f = 0 THEN <<>> ELSE RegionStep(r, f, d[f - 1])]
           upto == CHOOSE d : IsIt(d)
<1>1. n \in Nat /\ T!Duration(r) \in Nat
  BY TAssumption DEF T!TranscriptionAssumption, T!Duration
<1>2. \A f \in 1..n, g \in V : RegionStep(r, f, g) \in V
  <2> SUFFICES ASSUME NEW f \in 1..n, NEW g \in V, T!Spoken(r, f) # {} PROVE RegionStep(r, f, g) \in V
    BY DEF RegionStep
  <2> DEFINE w0 == CHOOSE w \in T!Spoken(r, f) : TRUE
  <2>1. w0 \in T!Spoken(r, f)
    OBVIOUS
  <2>2. RegionStep(r, f, g) = T!Joined(g, T!Padded(w0, r))
    BY DEF RegionStep
  <2> HIDE DEF w0
  <2>3. w0 \in T!Runs(r.speech)
    BY <2>1 DEF T!Spoken
  <2>4. T!Padded(w0, r) \in Spans(T!Duration(r))
    BY <2>3, PaddedSuits
  <2> QED BY <1>1, <2>2, <2>4, JoinedSpans
<1>3. Steps(n, V, <<>>, F)
  <2>1. <<>> \in V
    OBVIOUS
  <2> HIDE DEF V, n
  <2> QED BY <1>2, <2>1 DEF Steps
<1>4. Folds(n, V, <<>>, F)
  <2> HIDE DEF V, n, F
  <2> QED BY <1>1, <1>3, Folding
<1>5. PICK d \in [0..n -> V] : d[0] = <<>> /\ \A i \in 1..n : d[i] = F[i][d[i - 1]]
  <2> HIDE DEF V, n, F
  <2> QED BY <1>4 DEF Folds
<1>6. IsIt(d)
  <2>1. \A f \in 1..n : f - 1 \in 0..n /\ d[f] = RegionStep(r, f, d[f - 1])
    <3> SUFFICES ASSUME NEW f \in 1..n PROVE f - 1 \in 0..n /\ d[f] = RegionStep(r, f, d[f - 1])
      OBVIOUS
    <3>1. f - 1 \in 0..n
      BY <1>1
    <3>2. d[f - 1] \in V
      BY <1>5, <3>1
    <3>3. d[f] = F[f][d[f - 1]]
      BY <1>5
    <3> HIDE DEF V, n
    <3> QED BY <3>1, <3>2, <3>3
  <2> HIDE DEF V, n, F
  <2> QED BY <1>5, <2>1
<1>7. IsIt(upto)
  <2> HIDE DEF IsIt
  <2> QED BY <1>6
<1>8. T!SpeechRegions(r) = upto[n]
  BY DEF T!SpeechRegions, RegionStep
<1> HIDE DEF upto
<1>9. upto[0] = <<>> /\ \A f \in 1..n : upto[f] = RegionStep(r, f, upto[f - 1])
  BY <1>1, <1>7
<1> DEFINE S == {f \in 0..n : Regions(r, f, upto[f])}
<1>10. \A f \in 0..n : 0..(f - 1) \subseteq S => f \in S
  <2> SUFFICES ASSUME NEW f \in 0..n, 0..(f - 1) \subseteq S PROVE Regions(r, f, upto[f])
    OBVIOUS
  <2>1. CASE f = 0
    <3>1. \A w \in LongRuns(r) : ~(w.end <= 2 * 0)
      <4> SUFFICES ASSUME NEW w \in LongRuns(r) PROVE ~(w.end <= 2 * 0)
        OBVIOUS
      <4>1. w \in T!Runs(r.speech)
        BY DEF LongRuns
      <4>2. w.start \in Nat /\ w.end \in Nat /\ w.start < w.end
        BY <4>1, RunFacts DEF Spans
      <4> QED BY <4>2
    <3>2. upto[f] = <<>> /\ \A w \in LongRuns(r) : ~(w.end <= 2 * f)
      BY <1>9, <2>1, <3>1
    <3>3. Regions(r, f, <<>>)
      BY <3>2 DEF Regions
    <3> QED BY <3>2, <3>3
  <2>2. CASE f # 0
    <3>1. f \in 1..n /\ f - 1 \in 0..(f - 1)
      BY <1>1, <2>2
    <3>2. Regions(r, f - 1, upto[f - 1])
      BY <3>1
    <3> HIDE DEF S
    <3> QED BY <1>9, <3>1, <3>2, RegionStepHolds
  <2> QED BY <2>1, <2>2
<1>11. n \in S
  <2> HIDE DEF S
  <2>1. 0..n \subseteq S
    BY <1>1, <1>10, StrongInduction
  <2> QED BY <1>1, <2>1
<1> QED BY <1>8, <1>11

(* Of a set of integers between bounds.                                    *)
LEMMA GreatestOf ==
    ASSUME NEW a \in Int, NEW b \in Int, NEW S, S \subseteq a..b, S # {}
    PROVE  T!Greatest(S) \in S /\ \A y \in S : y <= T!Greatest(S)
<1> DEFINE N == {b - x : x \in S}
<1>1. N \in SUBSET Nat /\ N # {}
  <2>1. \A x \in a..b : b - x \in Nat
    OBVIOUS
  <2>2. \A x \in S : x \in a..b
    OBVIOUS
  <2>3. \A x \in S : b - x \in Nat
    BY <2>1, <2>2
  <2> QED BY <2>3
<1>2. PICK m \in N : \A k \in N : m <= k
  <2> HIDE DEF N
  <2> QED BY <1>1, LeastNatural
<1>3. PICK x \in S : m = b - x
  BY <1>2
<1>4. \A y \in S : y <= x
  <2> SUFFICES ASSUME NEW y \in S PROVE y <= x
    OBVIOUS
  <2>1. m <= b - y
    BY <1>2
  <2>2. x \in a..b /\ y \in a..b
    OBVIOUS
  <2> QED BY <1>3, <2>1, <2>2
<1>5. \A y \in S : x >= y
  <2> SUFFICES ASSUME NEW y \in S PROVE x >= y
    OBVIOUS
  <2>1. x \in a..b /\ y \in a..b
    OBVIOUS
  <2> QED BY <1>4, <2>1
<1> DEFINE g == T!Greatest(S)
<1>6. g \in S /\ \A y \in S : g >= y
  BY <1>5 DEF T!Greatest
<1> HIDE DEF g
<1>7. ASSUME NEW y \in S PROVE y <= g
  <2>1. g \in a..b /\ y \in a..b
    BY <1>6
  <2> QED BY <1>6, <2>1
<1> QED BY <1>6, <1>7 DEF g

LEMMA LeastOf ==
    ASSUME NEW a \in Int, NEW b \in Int, NEW S, S \subseteq a..b, S # {}
    PROVE  T!Least(S) \in S
<1> DEFINE N == {x - a : x \in S}
<1>1. N \in SUBSET Nat /\ N # {}
  <2>1. \A x \in a..b : x - a \in Nat
    OBVIOUS
  <2>2. \A x \in S : x \in a..b
    OBVIOUS
  <2>3. \A x \in S : x - a \in Nat
    BY <2>1, <2>2
  <2> QED BY <2>3
<1>2. PICK m \in N : \A k \in N : m <= k
  <2> HIDE DEF N
  <2> QED BY <1>1, LeastNatural
<1>3. PICK x \in S : m = x - a
  BY <1>2
<1>4. \A y \in S : x <= y
  <2> SUFFICES ASSUME NEW y \in S PROVE x <= y
    OBVIOUS
  <2>1. m <= y - a
    BY <1>2
  <2>2. x \in a..b /\ y \in a..b
    OBVIOUS
  <2> QED BY <1>3, <2>1, <2>2
<1> QED BY <1>4 DEF T!Least

(* Wherever a window is cut, it has time and does not pass the limit.      *)
LEMMA CutIsInside ==
    ASSUME NEW r \in Recordings, NEW c \in Nat, NEW latest \in Nat, c < latest, NEW silences
    PROVE  LET w == T!CutAfter(c, latest, silences, r)
           IN  w.start = c /\ w.end \in (c + 1)..latest /\ w.dip \in BOOLEAN
               /\ w = [start |-> w.start, end |-> w.end, dip |-> w.dip]
<1> DEFINE silence == T!SilenceCut(c, latest, silences)
           dip     == T!DipCut(c, latest, r)
<1>1. MinSegment \in Nat /\ MinSegment > 0 /\ r.frames \in Nat /\ T!NoCut \in Int
  BY TAssumption DEF T!TranscriptionAssumption, T!SegmentationAssumption, T!NoCut
<1>2. silence \in Int
  <2> DEFINE middles(least) == {(s.start + s.end) \div 2 : s \in {s \in silences :
                /\ T!Length(s) >= least
                /\ (s.start + s.end) \div 2 \in (c + MinSegment)..latest}}
  <2>1. \A least : middles(least) \subseteq (c + MinSegment)..latest
    OBVIOUS
  <2>2. \A least : middles(least) # {} => T!Greatest(middles(least)) \in Int
    <3> SUFFICES ASSUME NEW least, middles(least) # {} PROVE T!Greatest(middles(least)) \in Int
      OBVIOUS
    <3>1. c + MinSegment \in Int /\ latest \in Int
      BY <1>1
    <3>2. T!Greatest(middles(least)) \in middles(least)
      <4>1. middles(least) \subseteq (c + MinSegment)..latest
        BY <2>1
      <4> HIDE DEF middles
      <4> QED BY <3>1, <4>1, GreatestOf
    <3>3. T!Greatest(middles(least)) \in (c + MinSegment)..latest
      BY <2>1, <3>2
    <3> QED BY <3>1, <3>3
  <2>3. silence = IF middles(Preferred) # {} THEN T!Greatest(middles(Preferred))
                  ELSE IF middles(Minimal) # {} THEN T!Greatest(middles(Minimal)) ELSE T!NoCut
    BY DEF T!SilenceCut
  <2> HIDE DEF middles, silence
  <2> QED BY <1>1, <2>2, <2>3
<1>3. dip \in Int
  <2> DEFINE within(s, e) == T!Frames(s, e) \cap 0..(r.frames - 1)
             whole == within(c, latest)
             tail  == within(T!AtLeast(c + MinSegment,
                             latest - ((latest - c) * SearchPercent) \div 100), latest)
             dips  == tail \cap r.quiet
             first == T!Least(dips)
             run   == {f \in dips : first..f \subseteq dips}
  <2>1. dips \subseteq 0..(r.frames - 1) /\ run \subseteq 0..(r.frames - 1)
    OBVIOUS
  <2>2. dip = IF dips = {} \/ 2 * T!Cardinality(whole \cap r.quiet) > T!Cardinality(whole) THEN T!NoCut
              ELSE first + T!Greatest(run) + 1
    BY DEF T!DipCut
  <2>3. 0 \in Int /\ r.frames - 1 \in Int
    BY <1>1
  <2>4. CASE dips = {}
    <3>1. dip = T!NoCut
      BY <2>2, <2>4
    <3> HIDE DEF dip
    <3> QED BY <1>1, <3>1
  <2>5. CASE dips # {}
    <3>1. first \in dips
      <4> HIDE DEF dips
      <4> QED BY <2>1, <2>3, <2>5, LeastOf
    <3>2. first \in Int
      BY <2>1, <2>3, <3>1
    <3>3. first \in run
      <4>1. first..first = {first}
        BY <3>2
      <4> HIDE DEF dips, first
      <4> QED BY <3>1, <4>1
    <3>4. T!Greatest(run) \in run
      <4>1. run # {} /\ run \subseteq 0..(r.frames - 1)
        BY <2>1, <3>3
      <4> HIDE DEF dips, run
      <4> QED BY <2>3, <4>1, GreatestOf
    <3>5. T!Greatest(run) \in Int
      <4> HIDE DEF run, dips
      <4>1. T!Greatest(run) \in 0..(r.frames - 1)
        BY <2>1, <3>4
      <4> QED BY <2>3, <4>1
    <3>6. first + T!Greatest(run) + 1 \in Int
      <4> HIDE DEF run, first
      <4> QED BY <3>2, <3>5
    <3> HIDE DEF dips, run, first, whole, dip
    <3> QED BY <1>1, <2>2, <3>6
  <2> QED BY <2>4, <2>5
<1> DEFINE wanted == IF silence # T!NoCut THEN silence ELSE IF dip # T!NoCut THEN dip ELSE latest
           cut    == T!AtMost(T!AtLeast(c + MinSegment, wanted), latest)
           w      == T!CutAfter(c, latest, silences, r)
<1>4. w = T!Window(c, IF cut <= c THEN latest ELSE cut, silence = T!NoCut /\ dip # T!NoCut)
  BY DEF T!CutAfter
<1> HIDE DEF silence, dip
<1>5. wanted \in Int
  BY <1>2, <1>3
<1> HIDE DEF wanted
<1>6. cut \in (c + 1)..latest
  BY <1>1, <1>5 DEF T!AtMost, T!AtLeast
<1> HIDE DEF cut, w
<1>7. w.start = c /\ w.end = cut /\ w.dip = (silence = T!NoCut /\ dip # T!NoCut)
      /\ w = [start |-> w.start, end |-> w.end, dip |-> w.dip]
  BY <1>4, <1>6 DEF T!Window
<1>8. (silence = T!NoCut /\ dip # T!NoCut) \in BOOLEAN
  BY Zenon
<1>9. w.dip \in BOOLEAN
  BY <1>7, <1>8, Zenon
<1> QED BY <1>6, <1>7, <1>9 DEF w

(* Windows from a time to another, with no time between them.              *)
Windows == [start : Nat, end : Nat, dip : BOOLEAN]
Chain(ws, from, to) ==
    /\ ws \in Seq(Windows) /\ ws # <<>>
    /\ ws[1].start = from /\ ws[Len(ws)].end = to
    /\ \A k \in 1..Len(ws) : from <= ws[k].start /\ ws[k].start < ws[k].end /\ ws[k].end <= to
    /\ \A k \in 1..(Len(ws) - 1) : ws[k].start <= ws[k + 1].start /\ ws[k + 1].start <= ws[k].end

LEMMA ChainGrows ==
    ASSUME NEW w \in Windows, NEW ws, NEW c \in Nat, NEW from \in Nat, NEW to \in Nat, Chain(ws, from, to),
           w.start = c, c < from, from <= w.end, w.end <= to
    PROVE  Chain(<<w>> \o ws, c, to)
<1> DEFINE all == <<w>> \o ws
           n == Len(ws)
<1>1. w.start \in Nat /\ w.end \in Nat /\ ws \in Seq(Windows) /\ n \in Nat /\ n > 0
  BY DEF Windows, Chain
<1>2. all \in Seq(Windows) /\ Len(all) = n + 1 /\ all[1] = w /\ \A k \in 2..(n + 1) : all[k] = ws[k - 1]
  BY <1>1
<1> HIDE DEF all
<1>3. all # <<>> /\ all[1].start = c
  BY <1>1, <1>2
<1>4. all[Len(all)].end = to
  <2>1. n + 1 \in 2..(n + 1) /\ (n + 1) - 1 = n
    BY <1>1
  <2> QED BY <1>2, <2>1 DEF Chain
<1>5. \A k \in 1..Len(all) : c <= all[k].start /\ all[k].start < all[k].end /\ all[k].end <= to
  <2> SUFFICES ASSUME NEW k \in 1..(n + 1)
               PROVE  c <= all[k].start /\ all[k].start < all[k].end /\ all[k].end <= to
    BY <1>2
  <2>1. CASE k = 1
    BY <1>1, <1>2, <2>1
  <2>2. CASE k # 1
    <3>1. k \in 2..(n + 1) /\ k - 1 \in 1..n
      BY <1>1, <2>2
    <3>2. ws[k - 1] \in Windows
      BY <1>1, <3>1, ElementOfSeq
    <3>3. from <= ws[k - 1].start /\ ws[k - 1].start < ws[k - 1].end /\ ws[k - 1].end <= to
      BY <3>1 DEF Chain
    <3>4. all[k] = ws[k - 1]
      BY <1>2, <3>1
    <3>5. ws[k - 1].start \in Nat /\ ws[k - 1].end \in Nat
      BY <3>2 DEF Windows
    <3>6. c <= ws[k - 1].start
      BY <3>3, <3>5
    <3> QED BY <3>3, <3>4, <3>6
  <2> QED BY <2>1, <2>2
<1>6. \A k \in 1..(Len(all) - 1) : all[k].start <= all[k + 1].start /\ all[k + 1].start <= all[k].end
  <2> SUFFICES ASSUME NEW k \in 1..n
               PROVE  all[k].start <= all[k + 1].start /\ all[k + 1].start <= all[k].end
    BY <1>1, <1>2
  <2>1. k + 1 \in 2..(n + 1) /\ (k + 1) - 1 = k /\ all[k + 1] = ws[k]
    BY <1>1, <1>2
  <2>2. CASE k = 1
    BY <1>1, <1>2, <2>1, <2>2 DEF Chain
  <2>3. CASE k # 1
    <3>1. k \in 2..(n + 1) /\ k - 1 \in 1..(n - 1) /\ (k - 1) + 1 = k
      BY <1>1, <2>3
    <3>2. ws[k - 1].start <= ws[(k - 1) + 1].start /\ ws[(k - 1) + 1].start <= ws[k - 1].end
      BY <3>1 DEF Chain
    <3> QED BY <1>2, <2>1, <3>1, <3>2
  <2> QED BY <2>2, <2>3
<1> QED BY <1>2, <1>3, <1>4, <1>5, <1>6 DEF all, Chain

LEMMA ChainOfOne ==
    ASSUME NEW w \in Windows, w.start < w.end PROVE Chain(<<w>>, w.start, w.end)
<1>1. <<w>> \in Seq(Windows) /\ Len(<<w>>) = 1 /\ <<w>>[1] = w /\ <<w>> # <<>>
  OBVIOUS
<1>2. w.start \in Nat /\ w.end \in Nat
  BY DEF Windows
<1> DEFINE ws == <<w>>
<1> HIDE DEF ws
<1>3. ws \in Seq(Windows) /\ Len(ws) = 1 /\ ws[1] = w /\ ws # <<>>
  BY <1>1 DEF ws
<1>4. Chain(ws, w.start, w.end)
  BY <1>2, <1>3 DEF Chain
<1> QED BY <1>4 DEF ws

LEMMA LogicalChain ==
    ASSUME NEW r \in Recordings, NEW regions, NEW limit \in Nat \ {0}, NEW overlap \in Nat,
           regions[1].start \in Nat, T!Last(regions).end \in Nat, regions[1].start < T!Last(regions).end
    PROVE  Chain(T!LogicalWindows(regions, r, limit, overlap), regions[1].start, T!Last(regions).end)
<1> DEFINE final == T!Last(regions).end
           silences == T!Silences(regions, r)
           next(c) == T!CutAfter(c, c + limit, silences, r)
           on(c) == T!Onward(c, next(c), overlap)
           IsIt(d) == d = [c \in 0..final |->
                               IF c = final THEN <<>>
                               ELSE IF final - c <= limit THEN <<T!Window(c, final, FALSE)>>
                               ELSE <<next(c)>> \o d[on(c)]]
           from == CHOOSE d : IsIt(d)
           V == Seq(Windows)
           G == [i \in 0..final |-> [g \in [0..final -> V] |->
                    IF i = 0 THEN <<>>
                    ELSE IF i <= limit THEN <<T!Window(final - i, final, FALSE)>>
                    ELSE <<next(final - i)>> \o g[final - on(final - i)]]]
<1>1. final \in Nat /\ limit \in Nat /\ limit > 0
  OBVIOUS
<1>2. ASSUME NEW c \in 0..final, ~(final - c <= limit)
      PROVE  /\ next(c) \in Windows /\ next(c).start = c /\ c < next(c).end /\ next(c).end <= final
             /\ on(c) \in (c + 1)..final /\ on(c) <= next(c).end
  <2>1. c \in Nat /\ c + limit \in Nat /\ c < c + limit /\ c + limit < final
    BY <1>1, <1>2
  <2>2. /\ next(c).start = c /\ next(c).end \in (c + 1)..(c + limit) /\ next(c).dip \in BOOLEAN
        /\ next(c) = [start |-> next(c).start, end |-> next(c).end, dip |-> next(c).dip]
    <3> HIDE DEF silences
    <3> QED BY <2>1, CutIsInside
  <2> HIDE DEF next
  <2>3. next(c) \in Windows
    BY <2>1, <2>2 DEF Windows
  <2>4. on(c) \in (c + 1)..next(c).end
    BY <2>1, <2>2 DEF T!Onward, T!AtLeast
  <2> HIDE DEF on
  <2> QED BY <1>1, <2>1, <2>2, <2>3, <2>4
<1>3. ASSUME NEW c \in 0..final, c # final
      PROVE  T!Window(c, final, FALSE) \in Windows /\ Chain(<<T!Window(c, final, FALSE)>>, c, final)
  <2> DEFINE w == T!Window(c, final, FALSE)
  <2>1. w \in Windows /\ w.start = c /\ w.end = final /\ c < final /\ c \in Nat
    BY <1>1, <1>3 DEF Windows, T!Window
  <2> HIDE DEF w
  <2> QED BY <1>1, <2>1, ChainOfOne DEF w
<1> HIDE DEF next, on
<1>4. Looks(final, V, G)
  <2>1. ASSUME NEW i \in 0..final, i # 0, ~(i <= limit)
        PROVE  /\ final - i \in 0..final /\ ~(final - (final - i) <= limit)
               /\ final - on(final - i) \in 0..(i - 1) /\ next(final - i) \in Windows
    <3>1. final - i \in 0..final /\ final - (final - i) = i
      BY <1>1
    <3>2. on(final - i) \in ((final - i) + 1)..final /\ next(final - i) \in Windows
      BY <1>2, <2>1, <3>1
    <3> QED BY <1>1, <2>1, <3>1, <3>2
  <2>2. ASSUME NEW i \in 0..final, NEW g \in [0..final -> V]
        PROVE  G[i][g] \in V
    <3>1. CASE i = 0
      BY <3>1
    <3>2. CASE i # 0 /\ i <= limit
      <4>1. final - i \in 0..final /\ final - i # final
        BY <1>1, <3>2
      <4>2. T!Window(final - i, final, FALSE) \in Windows
        BY <1>3, <4>1
      <4>3. \A w \in Windows : <<w>> \in V
        OBVIOUS
      <4> HIDE DEF V, final
      <4> QED BY <3>2, <4>2, <4>3
    <3>3. CASE i # 0 /\ ~(i <= limit)
      <4>1. final - on(final - i) \in 0..final
        BY <1>1, <2>1, <3>3
      <4>2. g[final - on(final - i)] \in V /\ <<next(final - i)>> \in V
        BY <2>1, <3>3, <4>1
      <4>3. <<next(final - i)>> \o g[final - on(final - i)] \in V
        BY <4>2
      <4> HIDE DEF V
      <4> QED BY <3>3, <4>3
    <3> QED BY <3>1, <3>2, <3>3
  <2>3. ASSUME NEW i \in 0..final, NEW g \in [0..final -> V], NEW h \in [0..final -> V],
               \A j \in 0..(i - 1) : g[j] = h[j]
        PROVE  G[i][g] = G[i][h]
    <3> HIDE DEF V
    <3>1. CASE i = 0 \/ i <= limit
      BY <3>1
    <3>2. CASE i # 0 /\ ~(i <= limit)
      BY <2>1, <2>3, <3>2
    <3> QED BY <3>1, <3>2
  <2>4. G \in [0..final -> [[0..final -> V] -> V]]
    <3> HIDE DEF V
    <3> QED BY <2>2
  <2> HIDE DEF G, V, final
  <2> QED BY <2>3, <2>4 DEF Looks
<1>5. PICK f \in [0..final -> V] : \A i \in 0..final : f[i] = G[i][f]
  <2>1. <<>> \in V
    OBVIOUS
  <2>2. Solved(final, V, G)
    <3> HIDE DEF V, G, final
    <3> QED BY <1>1, <1>4, <2>1, Recursion
  <2> HIDE DEF V, G, final
  <2> QED BY <2>2 DEF Solved
<1> DEFINE d == [c \in 0..final |-> f[final - c]]
<1>6. IsIt(d)
  <2> SUFFICES ASSUME NEW c \in 0..final
               PROVE  d[c] = IF c = final THEN <<>>
                             ELSE IF final - c <= limit THEN <<T!Window(c, final, FALSE)>>
                             ELSE <<next(c)>> \o d[on(c)]
    OBVIOUS
  <2>1. final - c \in 0..final /\ final - (final - c) = c /\ (final - c = 0 <=> c = final)
    BY <1>1
  <2>2. d[c] = G[final - c][f]
    <3> HIDE DEF G, V
    <3> QED BY <1>5, <2>1
  <2>3. G[final - c][f] = IF c = final THEN <<>>
                          ELSE IF final - c <= limit THEN <<T!Window(c, final, FALSE)>>
                          ELSE <<next(c)>> \o f[final - on(c)]
    <3> HIDE DEF V, final
    <3> QED BY <2>1
  <2>4. ~(final - c <= limit) => d[on(c)] = f[final - on(c)]
    <3>1. ~(final - c <= limit) => on(c) \in 0..final
      BY <1>1, <1>2
    <3> HIDE DEF G, V
    <3> QED BY <3>1
  <2> HIDE DEF d, G, V
  <2> QED BY <2>2, <2>3, <2>4
<1>7. IsIt(from)
  <2> HIDE DEF IsIt
  <2> QED BY <1>6
<1>8. T!LogicalWindows(regions, r, limit, overlap) = from[regions[1].start]
  BY DEF T!LogicalWindows, next, on
<1> HIDE DEF from, G, V, d
<1> DEFINE S == {i \in 0..final : i = 0 \/ Chain(from[final - i], final - i, final)}
<1>9. \A i \in 0..final : 0..(i - 1) \subseteq S => i \in S
  <2> SUFFICES ASSUME NEW i \in 0..final, 0..(i - 1) \subseteq S, i # 0
               PROVE  Chain(from[final - i], final - i, final)
    OBVIOUS
  <2> DEFINE c == final - i
  <2>1. c \in 0..final /\ final - c = i /\ c # final
    BY <1>1
  <2> HIDE DEF c
  <2>2. from[c] = IF final - c <= limit THEN <<T!Window(c, final, FALSE)>> ELSE <<next(c)>> \o from[on(c)]
    BY <1>7, <2>1
  <2>3. CASE final - c <= limit
    BY <1>3, <2>1, <2>2, <2>3 DEF c
  <2>4. CASE ~(final - c <= limit)
    <3>1. /\ next(c) \in Windows /\ next(c).start = c /\ c < next(c).end /\ next(c).end <= final
          /\ on(c) \in (c + 1)..final /\ on(c) <= next(c).end
      BY <1>2, <2>1, <2>4
    <3>2. CASE on(c) = final
      <4>1. next(c).end = final
        BY <1>1, <3>1, <3>2 DEF Windows
      <4>2. from[on(c)] = <<>>
        BY <1>1, <1>7, <3>2
      <4>3. from[c] = <<next(c)>>
        <5>1. <<next(c)>> \o <<>> = <<next(c)>>
          BY <3>1
        <5> QED BY <2>2, <2>4, <4>2, <5>1
      <4>4. Chain(<<next(c)>>, c, final)
        BY <3>1, <4>1, ChainOfOne
      <4> QED BY <4>3, <4>4 DEF c
    <3>3. CASE on(c) # final
      <4>1. final - on(c) \in 0..(i - 1) /\ final - on(c) # 0
            /\ final - (final - on(c)) = on(c) /\ on(c) \in Nat
        BY <1>1, <2>1, <3>1, <3>3
      <4>2. Chain(from[on(c)], on(c), final)
        BY <4>1
      <4> HIDE DEF S, final
      <4>3. c < on(c) /\ c \in Nat
        BY <1>1, <2>1, <3>1
      <4>4. Chain(<<next(c)>> \o from[on(c)], c, final)
        BY <1>1, <3>1, <4>1, <4>2, <4>3, ChainGrows
      <4> QED BY <2>2, <2>4, <4>4 DEF c
    <3> QED BY <3>2, <3>3
  <2> QED BY <2>3, <2>4
<1>10. 0..final \subseteq S
  <2> HIDE DEF S, final
  <2> QED BY <1>1, <1>9, StrongInduction
<1>11. final - regions[1].start \in 0..final /\ final - regions[1].start # 0
       /\ final - (final - regions[1].start) = regions[1].start
  BY <1>1
<1>12. Chain(from[regions[1].start], regions[1].start, final)
  <2>1. final - regions[1].start \in S
    <3> HIDE DEF S, final
    <3> QED BY <1>10, <1>11
  <2>2. Chain(from[final - (final - regions[1].start)], final - (final - regions[1].start), final)
    <3> HIDE DEF final
    <3> QED BY <1>11, <2>1
  <2> HIDE DEF final
  <2> QED BY <1>11, <2>2
<1> QED BY <1>8, <1>12

(* What the first windows of a chain come to when those that overlap or    *)
(* are too short have been joined: all their time is in a window.          *)
Within(ws, t) == \E k \in 1..Len(ws) : ws[k].start <= t /\ t < ws[k].end
KeptUpTo(ws, i, done) ==
    /\ done \in Seq(Windows)
    /\ i = 0 => done = <<>>
    /\ i > 0 => /\ done # <<>> /\ done[Len(done)].start <= ws[i].start /\ ws[i].end <= done[Len(done)].end
                /\ \A t \in ws[1].start..(ws[i].end - 1) : Within(done, t)

(* What becomes of the windows so far when one more is taken.              *)
Shapes(done, n, w, end, h) ==
    /\ h \in Seq(Windows)
    /\ \/ h = done /\ end <= w.start
       \/ /\ n > 0 /\ Len(h) = n /\ (w.start < done[n].end \/ end - w.start < MinSegment)
          /\ h[n].start = done[n].start /\ done[n].end <= h[n].end /\ end <= h[n].end
          /\ \A k \in 1..n : k # n => h[k] = done[k]
       \/ /\ Len(h) = n + 1 /\ h[n + 1].start = w.start /\ h[n + 1].end = end
          /\ (n > 0 => done[n].end <= w.start)
          /\ \A k \in 1..n : h[k] = done[k]

LEMMA TakingShapes ==
    ASSUME NEW r \in Recordings, NEW w \in Windows, NEW done \in Seq(Windows)
    PROVE  Shapes(done, Len(done), w, T!AtMost(T!Duration(r), w.end), T!Taking(done, w, r))
<1> DEFINE n == Len(done)
           end == T!AtMost(T!Duration(r), w.end)
           h == T!Taking(done, w, r)
<1> SUFFICES Shapes(done, n, w, end, h)
  OBVIOUS
<1>1. w.start \in Nat /\ w.end \in Nat /\ end \in Nat /\ n \in Nat
  <2>1. T!Duration(r) \in Nat
    BY TAssumption DEF T!TranscriptionAssumption, T!Duration
  <2> QED BY <2>1 DEF Windows, T!AtMost
<1>2. h = IF end <= w.start THEN done
          ELSE IF done # <<>> /\ (w.start < done[n].end \/ end - w.start < MinSegment)
          THEN [done EXCEPT ![n].end = T!AtLeast(@, end)]
          ELSE Append(done, [w EXCEPT !.end = end])
  BY DEF T!Taking, T!Last
<1> HIDE DEF end, h, n
<1>3. CASE end <= w.start
  BY <1>2, <1>3 DEF Shapes
<1>4. CASE ~(end <= w.start) /\ done # <<>> /\ (w.start < done[n].end \/ end - w.start < MinSegment)
  <2> DEFINE last == [done[n] EXCEPT !.end = T!AtLeast(done[n].end, end)]
  <2>1. n \in 1..n
    BY <1>1, <1>4 DEF n
  <2>2. done[n] \in Windows
    BY <2>1, ElementOfSeq DEF n
  <2>3. last \in Windows /\ last.start = done[n].start /\ done[n].end <= last.end /\ end <= last.end
    <3>1. done[n].start \in Nat /\ done[n].end \in Nat
      BY <2>2 DEF Windows
    <3>2. T!AtLeast(done[n].end, end) \in Nat /\ done[n].end <= T!AtLeast(done[n].end, end)
          /\ end <= T!AtLeast(done[n].end, end)
      BY <1>1, <3>1 DEF T!AtLeast
    <3> QED BY <2>2, <3>2 DEF Windows
  <2>4. h = [done EXCEPT ![n] = last]
    BY <1>2, <1>4
  <2> HIDE DEF last
  <2>5. h \in Seq(Windows) /\ Len(h) = n /\ h[n] = last /\ \A k \in 1..n : k # n => h[k] = done[k]
    BY <2>1, <2>3, <2>4 DEF n
  <2> QED BY <1>4, <2>1, <2>3, <2>5 DEF Shapes
<1>5. CASE ~(end <= w.start) /\ ~(done # <<>> /\ (w.start < done[n].end \/ end - w.start < MinSegment))
  <2> DEFINE last == [w EXCEPT !.end = end]
  <2>1. last \in Windows /\ last.start = w.start /\ last.end = end
    BY <1>1 DEF Windows
  <2>2. h = Append(done, last)
    BY <1>2, <1>5
  <2> HIDE DEF last
  <2>3. h \in Seq(Windows) /\ Len(h) = n + 1 /\ h[n + 1] = last /\ \A k \in 1..n : h[k] = done[k]
    BY <1>1, <2>1, <2>2 DEF n
  <2>4. n > 0 => done[n].end <= w.start
    <3> SUFFICES ASSUME n > 0 PROVE done[n].end <= w.start
      OBVIOUS
    <3>1. n \in 1..n /\ done # <<>>
      BY <1>1 DEF n
    <3>2. done[n] \in Windows
      BY <3>1, ElementOfSeq DEF n
    <3>3. done[n].end \in Nat
      BY <3>2 DEF Windows
    <3> QED BY <1>1, <1>5, <3>1, <3>3
  <2> QED BY <1>1, <2>1, <2>3, <2>4 DEF Shapes
<1> QED BY <1>3, <1>4, <1>5

LEMMA TakingKeeps ==
    ASSUME NEW r \in Recordings, NEW ws, NEW from \in Nat, NEW to \in Nat,
           Chain(ws, from, to), to <= T!Duration(r),
           NEW i \in 1..Len(ws), NEW done, KeptUpTo(ws, i - 1, done)
    PROVE  KeptUpTo(ws, i, T!Taking(done, ws[i], r))
<1> DEFINE w == ws[i]
           n == Len(done)
           D == T!Duration(r)
           h == T!Taking(done, w, r)
<1>1. w \in Windows /\ w.start \in Nat /\ w.end \in Nat /\ w.start < w.end /\ w.end <= to /\ D \in Nat
  <2>1. ws \in Seq(Windows)
    BY DEF Chain
  <2>2. w \in Windows
    BY <2>1, ElementOfSeq
  <2>3. D \in Nat
    BY TAssumption DEF T!TranscriptionAssumption, T!Duration
  <2> QED BY <2>2, <2>3 DEF Chain, Windows
<1>2. done \in Seq(Windows) /\ n \in Nat
  BY DEF KeptUpTo
<1>3. ASSUME NEW k \in 1..n
      PROVE  done[k] \in Windows /\ done[k].start \in Nat /\ done[k].end \in Nat
  <2>1. done[k] \in Windows
    BY <1>2, ElementOfSeq
  <2> QED BY <2>1 DEF Windows
<1>4. T!AtMost(T!Duration(r), w.end) = w.end
  BY <1>1 DEF T!AtMost
<1>5. i - 1 > 0 => /\ ws[i - 1].start \in Nat /\ ws[i - 1].end \in Nat
                   /\ ws[i - 1].start <= w.start /\ w.start <= ws[i - 1].end
  <2> SUFFICES ASSUME i - 1 > 0
               PROVE  /\ ws[i - 1].start \in Nat /\ ws[i - 1].end \in Nat
                      /\ ws[i - 1].start <= w.start /\ w.start <= ws[i - 1].end
    OBVIOUS
  <2>1. ws \in Seq(Windows) /\ Len(ws) \in Nat
    BY DEF Chain
  <2>2. i - 1 \in 1..(Len(ws) - 1) /\ i - 1 \in 1..Len(ws) /\ (i - 1) + 1 = i
    BY <2>1
  <2>3. ws[i - 1] \in Windows
    BY <2>1, <2>2, ElementOfSeq
  <2>4. ws[i - 1].start <= ws[(i - 1) + 1].start /\ ws[(i - 1) + 1].start <= ws[i - 1].end
    BY <2>2 DEF Chain
  <2> QED BY <2>2, <2>3, <2>4 DEF Windows
<1>6. i \in Nat /\ i > 0 /\ ws[1].start \in Nat
  <2>1. ws[1].start = from
    BY DEF Chain
  <2> QED BY <2>1
<1>7. i - 1 > 0 \/ (i = 1 /\ i - 1 = 0)
  BY <1>6
<1>8. i = 1 => n = 0
  BY <1>7 DEF KeptUpTo
<1>9. /\ h \in Seq(Windows)
      /\ \/ /\ n > 0 /\ Len(h) = n /\ (w.start < done[n].end \/ w.end - w.start < MinSegment)
            /\ h[n].start = done[n].start /\ done[n].end <= h[n].end /\ w.end <= h[n].end
            /\ \A k \in 1..n : k # n => h[k] = done[k]
         \/ /\ Len(h) = n + 1 /\ h[n + 1].start = w.start /\ h[n + 1].end = w.end
            /\ (n > 0 => done[n].end <= w.start)
            /\ \A k \in 1..n : h[k] = done[k]
  <2>1. ~(w.end <= w.start)
    BY <1>1
  <2>2. Shapes(done, n, w, T!AtMost(T!Duration(r), w.end), h)
    <3> HIDE DEF w
    <3> QED BY <1>1, <1>2, TakingShapes
  <2>3. Shapes(done, n, w, w.end, h)
    BY <1>4, <2>2
  <2> HIDE DEF w, h, n
  <2> QED BY <2>1, <2>3 DEF Shapes
<1>10. Len(h) \in Nat
  BY <1>9
<1>11. ASSUME NEW k \in 1..Len(h) PROVE h[k].start \in Nat /\ h[k].end \in Nat
  <2>1. h[k] \in Windows
    <3> HIDE DEF h
    <3> QED BY <1>9, ElementOfSeq
  <2> QED BY <2>1 DEF Windows
<1>12. i - 1 > 0 => /\ n > 0 /\ done[n].start <= ws[i - 1].start /\ ws[i - 1].end <= done[n].end
                    /\ \A t \in ws[1].start..(ws[i - 1].end - 1) : Within(done, t)
  BY <1>2 DEF KeptUpTo
<1> HIDE DEF h, w, D
<1>13. h # <<>> /\ h[Len(h)].start <= w.start /\ w.end <= h[Len(h)].end
  <2>1. CASE Len(h) = n /\ n > 0 /\ h[n].start = done[n].start /\ w.end <= h[n].end
    <3>1. i - 1 > 0 /\ n \in 1..n
      BY <1>2, <1>7, <1>8, <2>1
    <3>2. done[n].start <= ws[i - 1].start /\ ws[i - 1].start <= w.start
          /\ done[n].start \in Nat /\ ws[i - 1].start \in Nat
      BY <1>3, <1>5, <1>12, <3>1
    <3>3. h[n].start <= w.start
      BY <1>1, <2>1, <3>2
    <3> QED BY <2>1, <3>3
  <2>2. CASE Len(h) = n + 1 /\ h[n + 1].start = w.start /\ h[n + 1].end = w.end
    BY <1>1, <1>2, <2>2
  <2> QED BY <1>9, <2>1, <2>2
<1>14. ASSUME NEW t \in ws[1].start..(w.end - 1) PROVE Within(h, t)
  <2>1. t \in Nat /\ ws[1].start <= t /\ t < w.end
    BY <1>1, <1>6
  <2>2. CASE i - 1 > 0 /\ t < ws[i - 1].end
    <3>1. t \in ws[1].start..(ws[i - 1].end - 1)
      BY <1>5, <1>6, <2>1, <2>2
    <3>2. PICK k \in 1..n : done[k].start <= t /\ t < done[k].end
      BY <1>12, <2>2, <3>1 DEF Within
    <3>3. k \in 1..Len(h)
      BY <1>2, <1>9
    <3>4. h[k].start = done[k].start /\ done[k].end <= h[k].end
      <4>1. done[k].end \in Nat
        BY <1>3
      <4>2. CASE k = n
        BY <1>2, <1>9, <4>1, <4>2
      <4>3. CASE k # n
        <5>1. h[k] = done[k]
          BY <1>9, <4>3
        <5> QED BY <4>1, <5>1
      <4> QED BY <4>2, <4>3
    <3>5. h[k].start <= t /\ t < h[k].end
      BY <1>3, <1>11, <2>1, <3>2, <3>3, <3>4, SMTT(30)
    <3> QED BY <3>3, <3>5 DEF Within
  <2>3. CASE ~(i - 1 > 0 /\ t < ws[i - 1].end)
    <3>1. w.start <= t
      <4>1. CASE i = 1
        BY <2>1, <4>1 DEF w
      <4>2. CASE i - 1 > 0
        BY <1>1, <1>5, <2>1, <2>3, <4>2
      <4> QED BY <1>7, <4>1, <4>2
    <3>2. Len(h) \in 1..Len(h)
      BY <1>10, <1>13, <1>9
    <3>3. h[Len(h)].start <= t /\ t < h[Len(h)].end
      BY <1>1, <1>11, <1>13, <2>1, <3>1, <3>2, SMTT(30)
    <3> QED BY <3>2, <3>3 DEF Within
  <2> QED BY <2>2, <2>3
<1>15. KeptUpTo(ws, i, h)
  BY <1>6, <1>9, <1>13, <1>14 DEF KeptUpTo, w
<1> QED BY <1>15 DEF h, w

LEMMA NormalizedKeeps ==
    ASSUME NEW r \in Recordings, NEW ws, NEW from \in Nat, NEW to \in Nat,
           Chain(ws, from, to), to <= T!Duration(r)
    PROVE  T!Normalized(ws, r) \in Seq(Windows) /\ \A t \in from..(to - 1) : Within(T!Normalized(ws, r), t)
<1> DEFINE n == Len(ws)
           V == Seq(Windows)
           F == [i \in 1..n |-> [v \in V |-> T!Taking(v, ws[i], r)]]
           IsIt(d) == d = [i \in 0..n |-> IF i = 0 THEN <<>> ELSE T!Taking(d[i - 1], ws[i], r)]
           done == CHOOSE d : IsIt(d)
<1>1. n \in Nat /\ n > 0 /\ ws \in V /\ ws[1].start = from /\ ws[n].end = to
  BY DEF Chain
<1>2. \A i \in 1..n, v \in V : T!Taking(v, ws[i], r) \in V
  <2> SUFFICES ASSUME NEW i \in 1..n, NEW v \in V PROVE T!Taking(v, ws[i], r) \in V
    OBVIOUS
  <2>1. ws[i] \in Windows
    BY <1>1, ElementOfSeq
  <2>2. Shapes(v, Len(v), ws[i], T!AtMost(T!Duration(r), ws[i].end), T!Taking(v, ws[i], r))
    BY <2>1, TakingShapes
  <2> QED BY <2>2 DEF Shapes
<1>3. Steps(n, V, <<>>, F)
  <2>1. <<>> \in V
    OBVIOUS
  <2> HIDE DEF V, n
  <2> QED BY <1>2, <2>1 DEF Steps
<1>4. Folds(n, V, <<>>, F)
  <2> HIDE DEF V, n, F
  <2> QED BY <1>1, <1>3, Folding
<1>5. PICK d \in [0..n -> V] : d[0] = <<>> /\ \A i \in 1..n : d[i] = F[i][d[i - 1]]
  <2> HIDE DEF V, n, F
  <2> QED BY <1>4 DEF Folds
<1>6. IsIt(d)
  <2>1. \A i \in 1..n : i - 1 \in 0..n /\ d[i] = T!Taking(d[i - 1], ws[i], r)
    <3> SUFFICES ASSUME NEW i \in 1..n PROVE i - 1 \in 0..n /\ d[i] = T!Taking(d[i - 1], ws[i], r)
      OBVIOUS
    <3>1. i - 1 \in 0..n
      BY <1>1
    <3>2. d[i - 1] \in V
      BY <1>5, <3>1
    <3>3. d[i] = F[i][d[i - 1]]
      BY <1>5
    <3> HIDE DEF V, n
    <3> QED BY <3>1, <3>2, <3>3
  <2> HIDE DEF V, n, F
  <2> QED BY <1>5, <2>1
<1>7. IsIt(done)
  <2> HIDE DEF IsIt
  <2> QED BY <1>6
<1>8. T!Normalized(ws, r) = done[n]
  BY DEF T!Normalized
<1> HIDE DEF done
<1>9. done[0] = <<>> /\ \A i \in 1..n : done[i] = T!Taking(done[i - 1], ws[i], r)
  <2>1. 0 \in 0..n /\ \A i \in 1..n : i \in 0..n /\ i # 0
    BY <1>1
  <2> HIDE DEF n
  <2> QED BY <1>7, <2>1
<1> DEFINE S == {i \in 0..n : KeptUpTo(ws, i, done[i])}
<1>10. \A i \in 0..n : 0..(i - 1) \subseteq S => i \in S
  <2> SUFFICES ASSUME NEW i \in 0..n, 0..(i - 1) \subseteq S PROVE KeptUpTo(ws, i, done[i])
    OBVIOUS
  <2>1. CASE i = 0
    <3>1. KeptUpTo(ws, 0, <<>>)
      BY DEF KeptUpTo
    <3> QED BY <1>9, <2>1, <3>1
  <2>2. CASE i # 0
    <3>1. i \in 1..n /\ i - 1 \in 0..(i - 1)
      BY <1>1, <2>2
    <3>2. KeptUpTo(ws, i - 1, done[i - 1])
      BY <3>1
    <3> HIDE DEF S
    <3> QED BY <1>9, <3>1, <3>2, TakingKeeps
  <2> QED BY <2>1, <2>2
<1>11. n \in S
  <2> HIDE DEF S
  <2>1. 0..n \subseteq S
    BY <1>1, <1>10, StrongInduction
  <2> QED BY <1>1, <2>1
<1>12. KeptUpTo(ws, n, done[n])
  BY <1>11
<1> HIDE DEF n
<1> QED BY <1>1, <1>8, <1>12 DEF KeptUpTo

(* The margins of a window only add to it.                                 *)
LEMMA SegmentHears ==
    ASSUME NEW r \in Recordings, NEW w \in Windows, NEW dips, NEW t \in Nat,
           w.start <= t, t < w.end, t < T!Duration(r)
    PROVE  LET heard == T!Segment(w, dips, r).heard IN heard.start <= t /\ t < heard.end
<1>1. Padding \in Nat /\ DipPadding \in Nat /\ T!Duration(r) \in Nat
  BY TAssumption DEF T!TranscriptionAssumption, T!SegmentationAssumption, T!Duration
<1>2. w.start \in Nat /\ w.end \in Nat
  BY DEF Windows
<1>3. ASSUME NEW a \in Nat, NEW b \in Nat, NEW D \in Nat, t < D
      PROVE  T!AtLeast(0, w.start - a) <= t /\ t < T!AtMost(D, w.end + b)
  BY <1>2, <1>3 DEF T!AtLeast, T!AtMost
<1> DEFINE margin(u) == IF u \in dips THEN DipPadding ELSE Padding
<1>4. margin(w.start) \in Nat /\ margin(w.end) \in Nat
  BY <1>1
<1>5. T!Segment(w, dips, r).heard = T!Span(T!AtLeast(0, w.start - margin(w.start)),
                                           T!AtMost(T!Duration(r), w.end + margin(w.end)))
  BY DEF T!Segment
<1> HIDE DEF margin
<1>6. T!AtLeast(0, w.start - margin(w.start)) <= t /\ t < T!AtMost(T!Duration(r), w.end + margin(w.end))
  BY <1>1, <1>3, <1>4
<1> QED BY <1>5, <1>6 DEF T!Span

HeardIn(ss, t) == \E k \in DOMAIN ss : ss[k].heard.start <= t /\ t < ss[k].heard.end
AllHeard(r, ss) ==
    /\ \A w \in T!Runs(r.speech) :
           T!Length(w) >= MinSpeech => \A t \in w.start..(w.end - 1) : HeardIn(ss, t)
    /\ T!SpeechRegions(r) # <<>> =>
           \A t \in T!SpeechRegions(r)[1].start..(T!Last(T!SpeechRegions(r)).end - 1) : HeardIn(ss, t)

LEMMA SegmentsHear ==
    ASSUME NEW r \in Recordings, NEW limit \in Nat \ {0}, NEW overlap \in Nat
    PROVE  AllHeard(r, T!BuildSegments(r, limit, overlap))
<1> DEFINE g == T!SpeechRegions(r)
           D == T!Duration(r)
           ss == T!BuildSegments(r, limit, overlap)
<1>1. r.frames \in Nat /\ D \in Nat
  BY TAssumption DEF T!TranscriptionAssumption, T!Duration
<1>2. Regions(r, r.frames, g)
  BY RegionsHold
<1>3. ASSUME NEW w \in LongRuns(r)
      PROVE  w.start \in Nat /\ w.end \in 0..D /\ w.start < w.end /\ w.end <= 2 * r.frames
  <2>1. w \in T!Runs(r.speech)
    BY DEF LongRuns
  <2> QED BY <1>1, <2>1, RunFacts DEF Spans, T!Duration
<1>4. \A w \in T!Runs(r.speech) : T!Length(w) >= MinSpeech => w \in LongRuns(r)
  BY DEF LongRuns
<1> HIDE DEF g
<1>5. CASE g = <<>>
  <2>1. LongRuns(r) = {}
    BY <1>2, <1>3, <1>5 DEF Regions
  <2> QED BY <1>4, <1>5, <2>1 DEF AllHeard, g
<1>6. CASE g # <<>>
  <2> DEFINE from == g[1].start
             to == g[Len(g)].end
             logical == T!LogicalWindows(g, r, limit, overlap)
             dips == {w.end : w \in {w \in T!ToSet(logical) : w.dip}}
             windows == T!Normalized(logical, r)
  <2>1. g \in Seq(Spans(D)) /\ T!Last(g) = g[Len(g)]
    BY <1>2 DEF Regions, T!Last
  <2>2. 1 \in 1..Len(g) /\ Len(g) \in 1..Len(g)
    BY <1>6, <2>1
  <2>3. g[1] \in Spans(D) /\ g[Len(g)] \in Spans(D)
    <3> HIDE DEF D
    <3> QED BY <2>1, <2>2, ElementOfSeq
  <2>4. from \in Nat /\ to \in Nat /\ to <= D
    BY <1>1, <2>3 DEF Spans
  <2>5. PICK u \in LongRuns(r) : from <= u.start /\ u.end <= to
    BY <1>2, <1>6 DEF Regions
  <2>6. from < to
    BY <1>1, <1>3, <2>4, <2>5
  <2>7. Chain(logical, from, to)
    BY <2>1, <2>4, <2>6, LogicalChain
  <2>8. windows \in Seq(Windows) /\ \A t \in from..(to - 1) : Within(windows, t)
    <3> HIDE DEF from, to, logical
    <3> QED BY <2>4, <2>7, NormalizedKeeps
  <2>9. ss = [i \in DOMAIN windows |-> T!Segment(windows[i], dips, r)]
    BY <1>6 DEF T!BuildSegments, g
  <2> HIDE DEF from, to, logical, dips, windows, ss
  <2>10. ASSUME NEW t \in from..(to - 1) PROVE HeardIn(ss, t)
    <3>1. PICK k \in 1..Len(windows) : windows[k].start <= t /\ t < windows[k].end
      BY <2>8 DEF Within
    <3>2. windows[k] \in Windows /\ k \in DOMAIN windows
      BY <2>8, ElementOfSeq
    <3>3. t \in Nat /\ t < D
      BY <1>1, <2>4
    <3>4. T!Segment(windows[k], dips, r).heard.start <= t /\ t < T!Segment(windows[k], dips, r).heard.end
      BY <3>1, <3>2, <3>3, SegmentHears
    <3> QED BY <2>9, <3>2, <3>4 DEF HeardIn
  <2>11. ASSUME NEW w \in LongRuns(r), NEW t \in w.start..(w.end - 1) PROVE HeardIn(ss, t)
    <3>1. from <= w.start /\ w.end <= to
      BY <1>2, <1>3 DEF Regions, from, to
    <3>2. t \in from..(to - 1)
      BY <1>1, <1>3, <2>4, <3>1
    <3> QED BY <2>10, <3>2
  <2>12. \A t \in g[1].start..(T!Last(g).end - 1) : HeardIn(ss, t)
    BY <2>1, <2>10 DEF from, to
  <2> QED BY <1>4, <2>11, <2>12 DEF AllHeard, g, ss
<1> QED BY <1>5, <1>6

(* The windows are what prepare made of the recording.                     *)
SegmentsAreCut ==
    /\ recording \in Recordings
    /\ segs = <<>> \/ (setting \in Settings /\ segs = T!BuildSegments(recording, setting.limit, setting.overlap))

LEMMA SegmentsStayCut == SegmentsAreCut /\ [T!Next]_T!vars => SegmentsAreCut'
<1> SUFFICES ASSUME SegmentsAreCut, [T!Next]_T!vars PROVE SegmentsAreCut'
  OBVIOUS
<1>1. ASSUME NEW s \in Settings, NEW f \in BOOLEAN, T!Prepare(s, f) PROVE SegmentsAreCut'
  BY <1>1 DEF SegmentsAreCut, T!Prepare
<1>2. CASE UNCHANGED <<recording, setting, segs>>
  BY <1>2 DEF SegmentsAreCut
<1>3. ASSUME NEW f \in BOOLEAN, NEW m \in Modes, T!Transcribe(f, m) PROVE UNCHANGED <<recording, setting, segs>>
  BY <1>3 DEF T!Transcribe
<1>4. CASE T!OutOfMemory
  BY <1>2, <1>4 DEF T!OutOfMemory
<1>5. CASE T!Finish
  BY <1>2, <1>5 DEF T!Finish
<1>6. ASSUME NEW batch, T!OneByOne(batch) PROVE UNCHANGED <<recording, setting, segs>>
  BY <1>6 DEF T!OneByOne, T!Answered
<1>7. ASSUME NEW batch, NEW list, T!BatchAnswer(batch, list) PROVE UNCHANGED <<recording, setting, segs>>
  BY <1>7 DEF T!BatchAnswer, T!Answered
<1>8. CASE T!Run
  BY <1>2, <1>4, <1>5, <1>6, <1>7, <1>8 DEF T!Run
<1>9. CASE UNCHANGED T!vars
  BY <1>2, <1>9 DEF T!vars
<1> QED BY <1>1, <1>2, <1>3, <1>8, <1>9 DEF T!Next

(* Whatever the recording, the settings and the order of commands: what   *)
(* the detector marked, but for runs too short, is in a window that will  *)
(* be transcribed, and so is all from the first of it to the last         *)
(* (segmenter.build_segments).                                             *)
THEOREM SpeechIsHeardAlways == TranscribeSpec => []SpeechIsHeard
<1>1. T!Init => SegmentsAreCut
  BY DEF T!Init, SegmentsAreCut
<1>2. SegmentsAreCut => SpeechIsHeard
  <2> SUFFICES ASSUME SegmentsAreCut, segs # <<>>
               PROVE  AllHeard(recording, segs)
    BY DEF SpeechIsHeard, T!SpeechIsHeard, AllHeard, HeardIn, T!Heard, T!Numbers
  <2>1. setting.limit \in Nat \ {0} /\ setting.overlap \in Nat /\ recording \in Recordings
    BY TAssumption DEF T!TranscriptionAssumption, SegmentsAreCut
  <2> QED BY <2>1, SegmentsHear DEF SegmentsAreCut
<1> QED BY <1>1, <1>2, SegmentsStayCut, PTL DEF TranscribeSpec, T!Spec
-----------------------------------------------------------------------------
(***************************************************************************)
(* That a repair of squeezed tokens is local.  The tokens of a run share   *)
(* the time between their neighbours by their lengths, rounded; the runs   *)
(* are repaired one after the other, and what the ones before have come to *)
(* is kept by the next.                                                    *)
(***************************************************************************)
(* Division by a number that is not known. *)
LEMMA Products ==
    ASSUME NEW a \in Nat, NEW b \in Int, NEW c \in Int, b <= c
    PROVE  a * b <= a * c
<1>1. c - b \in Nat /\ a * (c - b) \in Nat
  OBVIOUS
<1> QED
  BY <1>1

LEMMA Quotient ==
    ASSUME NEW x \in Int, NEW d \in Nat, d > 0
    PROVE  /\ x \div d \in Int
           /\ d * (x \div d) <= x /\ x < d * (x \div d) + d
<1>1. x \div d \in Int /\ x % d \in 0..(d - 1) /\ x = d * (x \div d) + (x % d)
  OBVIOUS
<1>2. d * (x \div d) \in Int
  BY <1>1
<1> QED BY <1>1, <1>2

LEMMA QuotientIs ==
    ASSUME NEW x \in Int, NEW d \in Nat, d > 0, NEW q \in Int, d * q <= x, x < d * q + d
    PROVE  x \div d = q
<1> DEFINE p == x \div d
<1>1. p \in Int /\ d * p <= x /\ x < d * p + d
  BY Quotient
<1> HIDE DEF p
<1>2. ~(p + 1 <= q)
  <2> SUFFICES ASSUME p + 1 <= q PROVE FALSE
    OBVIOUS
  <2>1. d * (p + 1) <= d * q /\ d * (p + 1) = d * p + d
    BY <1>1, Products
  <2> QED BY <1>1, <2>1
<1>3. ~(q + 1 <= p)
  <2> SUFFICES ASSUME q + 1 <= p PROVE FALSE
    OBVIOUS
  <2>1. d * (q + 1) <= d * p /\ d * (q + 1) = d * q + d
    BY <1>1, Products
  <2> QED BY <1>1, <2>1
<1> QED BY <1>1, <1>2, <1>3

LEMMA QuotientGrows ==
    ASSUME NEW x \in Int, NEW y \in Int, NEW d \in Nat, d > 0, x <= y
    PROVE  x \div d <= y \div d
<1> DEFINE p == x \div d
           q == y \div d
<1>1. p \in Int /\ q \in Int /\ d * p <= x /\ y < d * q + d
  BY Quotient
<1> HIDE DEF p, q
<1>2. ~(q + 1 <= p)
  <2> SUFFICES ASSUME q + 1 <= p PROVE FALSE
    OBVIOUS
  <2>1. d * (q + 1) <= d * p /\ d * (q + 1) = d * q + d
    BY <1>1, Products
  <2> QED BY <1>1, <2>1
<1>3. p <= q
  BY <1>1, <1>2
<1> QED BY <1>3 DEF p, q

(* The time a token is given is its share, rounded.                        *)
Rounding(took, x, all) == (2 * took * x + all) \div (2 * all)

LEMMA RoundingFacts ==
    ASSUME NEW took \in Nat, NEW all \in Nat, all > 0
    PROVE  /\ Rounding(took, 0, all) = 0 /\ Rounding(took, all, all) = took
           /\ \A x, y \in Nat : x <= y => Rounding(took, x, all) <= Rounding(took, y, all)
           /\ \A x \in Nat : Rounding(took, x, all) \in Int
<1>1. 2 * all \in Nat /\ 2 * all > 0
  OBVIOUS
<1>2. Rounding(took, 0, all) = 0
  <2>1. (2 * all) * 0 = 0 /\ 2 * took * 0 + all = all
    OBVIOUS
  <2>2. all \div (2 * all) = 0
    BY <1>1, <2>1, QuotientIs
  <2> QED BY <2>1, <2>2 DEF Rounding
<1>3. Rounding(took, all, all) = took
  <2>1. (2 * all) * took \in Int /\ 2 * took * all = (2 * all) * took
    OBVIOUS
  <2>2. 2 * took * all + all \in Int /\ (2 * all) * took <= 2 * took * all + all
        /\ 2 * took * all + all < (2 * all) * took + 2 * all
    BY <2>1
  <2> QED BY <1>1, <2>2, QuotientIs DEF Rounding
<1>4. ASSUME NEW x \in Nat, NEW y \in Nat, x <= y
      PROVE  Rounding(took, x, all) <= Rounding(took, y, all)
  <2>1. 2 * took \in Nat
    OBVIOUS
  <2>2. 2 * took * x <= 2 * took * y /\ 2 * took * x \in Int /\ 2 * took * y \in Int
    BY <1>4, <2>1, Products
  <2>3. 2 * took * x + all \in Int /\ 2 * took * y + all \in Int /\ 2 * took * x + all <= 2 * took * y + all
    BY <2>2
  <2> QED BY <1>1, <2>3, QuotientGrows DEF Rounding
<1>5. ASSUME NEW x \in Nat PROVE Rounding(took, x, all) \in Int
  <2>1. 2 * took * x + all \in Int
    OBVIOUS
  <2> QED BY <1>1, <2>1, Quotient DEF Rounding
<1> QED BY <1>2, <1>3, <1>4, <1>5

(* Sums of numbers grow.                                                   *)
SumFacts(f) ==
    /\ A!Sums(f) \in [0..Len(f) -> Nat] /\ A!Sums(f)[0] = 0
    /\ \A i \in 1..Len(f) : A!Sums(f)[i] = A!Sums(f)[i - 1] + f[i]
    /\ \A j \in 0..Len(f) : \A i \in 0..j : A!Sums(f)[i] <= A!Sums(f)[j]

LEMMA SumsGrow == ASSUME NEW f \in Seq(Nat) PROVE SumFacts(f)
<1> DEFINE n == Len(f)
           F == [i \in 1..n |-> [m \in Nat |-> m + f[i]]]
           IsIt(d) == d = [i \in 0..n |-> IF i = 0 THEN 0 ELSE d[i - 1] + f[i]]
           sums == CHOOSE d : IsIt(d)
<1>1. n \in Nat /\ \A i \in 1..n : f[i] \in Nat
  OBVIOUS
<1>2. Steps(n, Nat, 0, F)
  <2> HIDE DEF n
  <2> QED BY <1>1 DEF Steps
<1>3. Folds(n, Nat, 0, F)
  <2> HIDE DEF n, F
  <2> QED BY <1>1, <1>2, Folding
<1>4. PICK d \in [0..n -> Nat] : d[0] = 0 /\ \A i \in 1..n : d[i] = F[i][d[i - 1]]
  <2> HIDE DEF n, F
  <2> QED BY <1>3 DEF Folds
<1>5. \A i \in 1..n : i - 1 \in 0..n /\ d[i] = d[i - 1] + f[i]
  <2> SUFFICES ASSUME NEW i \in 1..n PROVE i - 1 \in 0..n /\ d[i] = d[i - 1] + f[i]
    OBVIOUS
  <2>1. i - 1 \in 0..n
    BY <1>1
  <2>2. d[i - 1] \in Nat
    BY <1>4, <2>1
  <2> QED BY <1>4, <2>1, <2>2
<1>6. IsIt(d)
  <2> HIDE DEF n, F
  <2> QED BY <1>4, <1>5
<1>7. IsIt(sums)
  <2> HIDE DEF IsIt
  <2> QED BY <1>6
<1>8. A!Sums(f) = sums
  BY DEF A!Sums
<1> HIDE DEF sums
<1>9. sums[0] = 0 /\ \A i \in 1..n : sums[i] = sums[i - 1] + f[i]
  BY <1>1, <1>7, SMTT(30)
<1> DEFINE S == {j \in 0..n : sums[j] \in Nat /\ \A i \in 0..j : sums[i] <= sums[j]}
<1>10. \A j \in 0..n : 0..(j - 1) \subseteq S => j \in S
  <2> SUFFICES ASSUME NEW j \in 0..n, 0..(j - 1) \subseteq S
               PROVE sums[j] \in Nat /\ \A i \in 0..j : sums[i] <= sums[j]
    OBVIOUS
  <2>1. CASE j = 0
    BY <1>9, <2>1
  <2>2. CASE j # 0
    <3>1. j \in 1..n /\ j - 1 \in 0..(j - 1) /\ j \in Nat
      BY <1>1, <2>2
    <3>2. sums[j - 1] \in Nat /\ \A i \in 0..(j - 1) : sums[i] <= sums[j - 1] /\ sums[i] \in Nat
      BY <3>1
    <3>3. sums[j] = sums[j - 1] + f[j] /\ f[j] \in Nat
      BY <1>1, <1>9, <3>1
    <3>4. \A i \in 0..j : i = j \/ i \in 0..(j - 1)
      BY <3>1
    <3> HIDE DEF S
    <3>5. sums[j] \in Nat /\ sums[j - 1] <= sums[j]
      BY <3>2, <3>3
    <3>6. ASSUME NEW i \in 0..j PROVE sums[i] <= sums[j]
      BY <3>2, <3>4, <3>5
    <3> QED BY <3>5, <3>6
  <2> QED BY <2>1, <2>2
<1>11. 0..n \subseteq S
  <2> HIDE DEF S
  <2> QED BY <1>1, <1>10, StrongInduction
<1>12. sums \in [0..n -> Nat]
  <2>1. \A j \in 0..n : sums[j] \in Nat
    BY <1>11
  <2> HIDE DEF S
  <2> QED BY <1>7, <2>1
<1> HIDE DEF IsIt, F
<1> QED BY <1>8, <1>9, <1>11, <1>12 DEF SumFacts

(* The tokens of an alignment.                                             *)
Tokens(n, W) == [1..n -> [word : W, start : Int, end : Int]]
Counted(W) == \A w \in W : w.len \in Nat

LEMMA ShareSums ==
    ASSUME NEW n \in Nat, NEW W, Counted(W), NEW t \in Tokens(n, W)
    PROVE  LET f == [i \in DOMAIN t |-> A!AtLeast(t[i].word.len, 1)]
           IN  f \in Seq(Nat) /\ Len(f) = n /\ \A i \in 1..n : f[i] > 0
<1> DEFINE f == [i \in DOMAIN t |-> A!AtLeast(t[i].word.len, 1)]
<1>1. DOMAIN t = 1..n
  BY DEF Tokens
<1>2. \A i \in 1..n : A!AtLeast(t[i].word.len, 1) \in Nat /\ A!AtLeast(t[i].word.len, 1) > 0
  <2> SUFFICES ASSUME NEW i \in 1..n PROVE A!AtLeast(t[i].word.len, 1) \in Nat /\ A!AtLeast(t[i].word.len, 1) > 0
    OBVIOUS
  <2>1. t[i].word \in W
    BY DEF Tokens
  <2>2. t[i].word.len \in Nat
    BY <2>1 DEF Counted
  <2> QED BY <2>2 DEF A!AtLeast
<1>3. f \in [1..n -> Nat] /\ \A i \in 1..n : f[i] > 0
  BY <1>1, <1>2
<1> HIDE DEF f
<1>4. f \in Seq(Nat) /\ Len(f) = n
  BY <1>3
<1> QED BY <1>3, <1>4 DEF f

(* What of a run's characters comes before a token.                        *)
SharesGrow(t, n, lo, hi) ==
    /\ A!Shares(t, lo, lo - 1) = 0 /\ A!Shares(t, lo, hi) > 0
    /\ \A i \in lo..(hi + 1) : A!Shares(t, lo, i - 1) \in Nat /\ A!Shares(t, lo, i - 1) <= A!Shares(t, lo, hi)
    /\ \A i \in lo..hi : A!Shares(t, lo, i - 1) <= A!Shares(t, lo, i)

LEMMA SharesHold ==
    ASSUME NEW n \in Nat, NEW W, Counted(W), NEW t \in Tokens(n, W), NEW lo \in 1..n, NEW hi \in lo..n
    PROVE  SharesGrow(t, n, lo, hi)
<1> DEFINE f == [i \in DOMAIN t |-> A!AtLeast(t[i].word.len, 1)]
           s == A!Sums(f)
<1>1. f \in Seq(Nat) /\ Len(f) = n /\ \A i \in 1..n : f[i] > 0
  BY ShareSums
<1>2. \A a, b : A!Shares(t, a, b) = s[b] - s[a - 1]
  BY DEF A!Shares, A!SumOf
<1> HIDE DEF f
<1>3. SumFacts(f)
  BY <1>1, SumsGrow
<1>4. s \in [0..n -> Nat] /\ (\A i \in 1..n : s[i] = s[i - 1] + f[i]) /\ \A j \in 0..n : \A i \in 0..j : s[i] <= s[j]
  BY <1>1, <1>3 DEF SumFacts
<1> HIDE DEF s
<1>5. lo \in Nat /\ hi \in Nat /\ lo - 1 \in 0..n /\ hi \in 0..n /\ lo <= hi
  OBVIOUS
<1>6. \A i \in lo..(hi + 1) : i - 1 \in 0..hi /\ lo - 1 \in 0..(i - 1) /\ i - 1 \in 0..n
  BY <1>5
<1>7. s[lo - 1] \in Nat /\ s[lo] \in Nat /\ s[hi] \in Nat /\ s[lo] = s[lo - 1] + f[lo] /\ f[lo] > 0 /\ s[lo] <= s[hi]
  <2>1. lo \in 0..n /\ lo \in 0..hi
    BY <1>5
  <2> QED BY <1>1, <1>4, <1>5, <2>1
<1>8. f[lo] \in Nat
  BY <1>1
<1>9. A!Shares(t, lo, lo - 1) = 0 /\ A!Shares(t, lo, hi) > 0
  BY <1>2, <1>7, <1>8
<1>10. ASSUME NEW i \in lo..(hi + 1)
       PROVE  A!Shares(t, lo, i - 1) \in Nat /\ A!Shares(t, lo, i - 1) <= A!Shares(t, lo, hi)
  <2>1. s[i - 1] \in Nat /\ s[lo - 1] <= s[i - 1] /\ s[i - 1] <= s[hi]
    BY <1>4, <1>5, <1>6
  <2> QED BY <1>2, <1>7, <2>1
<1>11. ASSUME NEW i \in lo..hi PROVE A!Shares(t, lo, i - 1) <= A!Shares(t, lo, i)
  <2>1. i \in 0..n /\ i - 1 \in 0..i /\ i - 1 \in 0..n
    BY <1>5
  <2>2. s[i - 1] \in Nat /\ s[i] \in Nat /\ s[i - 1] <= s[i]
    BY <1>4, <2>1
  <2> QED BY <1>2, <1>7, <2>2
<1> QED BY <1>9, <1>10, <1>11 DEF SharesGrow

(* The tokens lo..hi share the time from left on: one after the other.     *)
Shared(t, u, n, W, lo, hi, left, took) ==
    /\ u \in Tokens(n, W)
    /\ \A i \in 1..n : u[i].word = t[i].word /\ (i \notin lo..hi => u[i] = t[i])
    /\ \A i \in lo..hi : left <= u[i].start /\ u[i].start <= u[i].end /\ u[i].end <= left + took
    /\ \A i \in lo..hi : i < hi => u[i].end = u[i + 1].start

LEMMA SpreadShares ==
    ASSUME NEW n \in Nat, NEW W, Counted(W), NEW t \in Tokens(n, W), NEW lo \in 1..n, NEW hi \in lo..n,
           NEW left \in Int, NEW took \in Nat
    PROVE  Shared(t, A!Spread(t, lo, hi, left, took), n, W, lo, hi, left, took)
<1> DEFINE all == A!Shares(t, lo, hi)
           Onset(i) == left + Rounding(took, A!Shares(t, lo, i - 1), all)
           u == [i \in DOMAIN t |-> IF i \in lo..hi THEN [word |-> t[i].word, start |-> Onset(i), end |-> Onset(i + 1)]
                                    ELSE t[i]]
<1>1. A!Spread(t, lo, hi, left, took) = u
  BY DEF A!Spread, Rounding
<1>2. SharesGrow(t, n, lo, hi)
  BY SharesHold
<1>3. all \in Nat /\ all > 0
  <2>1. hi + 1 \in lo..(hi + 1) /\ (hi + 1) - 1 = hi
    OBVIOUS
  <2> QED BY <1>2, <2>1 DEF SharesGrow
<1>4. \A i \in lo..(hi + 1) : Onset(i) \in Int /\ left <= Onset(i) /\ Onset(i) <= left + took
  <2> SUFFICES ASSUME NEW i \in lo..(hi + 1) PROVE Onset(i) \in Int /\ left <= Onset(i) /\ Onset(i) <= left + took
    OBVIOUS
  <2> DEFINE x == A!Shares(t, lo, i - 1)
  <2>1. x \in Nat /\ x <= all /\ 0 <= x
    BY <1>2 DEF SharesGrow
  <2> HIDE DEF x, all
  <2>2. Rounding(took, x, all) \in Int /\ 0 <= Rounding(took, x, all) /\ Rounding(took, x, all) <= took
    <3>1. 0 \in Nat
      OBVIOUS
    <3> QED BY <1>3, <2>1, <3>1, RoundingFacts
  <2> QED BY <2>2 DEF x
<1>5. \A i \in lo..hi : Onset(i) <= Onset(i + 1)
  <2> SUFFICES ASSUME NEW i \in lo..hi PROVE Onset(i) <= Onset(i + 1)
    OBVIOUS
  <2> DEFINE x == A!Shares(t, lo, i - 1)
             y == A!Shares(t, lo, i)
  <2>1. i \in lo..(hi + 1) /\ i + 1 \in lo..(hi + 1) /\ (i + 1) - 1 = i
    OBVIOUS
  <2>2. x \in Nat /\ y \in Nat /\ x <= y
    BY <1>2, <2>1 DEF SharesGrow
  <2>3. Onset(i) = left + Rounding(took, x, all) /\ Onset(i + 1) = left + Rounding(took, y, all)
    BY <2>1
  <2>4. Rounding(took, x, all) \in Int /\ Rounding(took, y, all) \in Int
        /\ Rounding(took, x, all) <= Rounding(took, y, all)
    <3> HIDE DEF x, y, all
    <3> QED BY <1>3, <2>2, RoundingFacts
  <2> HIDE DEF x, y, all, Onset
  <2> QED BY <2>3, <2>4
<1> HIDE DEF Onset, all
<1>6. DOMAIN t = 1..n /\ \A i \in 1..n : t[i] \in [word : W, start : Int, end : Int]
  BY DEF Tokens
<1>7. \A i \in lo..hi : i \in 1..n /\ i \in lo..(hi + 1) /\ i + 1 \in lo..(hi + 1)
  OBVIOUS
<1>8. u \in Tokens(n, W)
  <2>1. ASSUME NEW i \in lo..hi
        PROVE  [word |-> t[i].word, start |-> Onset(i), end |-> Onset(i + 1)] \in [word : W, start : Int, end : Int]
    <3>1. t[i].word \in W /\ Onset(i) \in Int /\ Onset(i + 1) \in Int
      BY <1>4, <1>6, <1>7
    <3> QED BY <3>1
  <2> QED BY <1>6, <2>1 DEF Tokens
<1>9. \A i \in 1..n : u[i].word = t[i].word /\ (i \notin lo..hi => u[i] = t[i])
  BY <1>6
<1>10. \A i \in lo..hi : u[i].start = Onset(i) /\ u[i].end = Onset(i + 1)
  BY <1>6, <1>7
<1> HIDE DEF u
<1>11. \A i \in lo..hi : left <= u[i].start /\ u[i].start <= u[i].end /\ u[i].end <= left + took
  BY <1>4, <1>5, <1>7, <1>10
<1>12. \A i \in lo..hi : i < hi => u[i].end = u[i + 1].start
  <2> SUFFICES ASSUME NEW i \in lo..hi, i < hi PROVE u[i].end = u[i + 1].start
    OBVIOUS
  <2>1. i + 1 \in lo..hi
    OBVIOUS
  <2> QED BY <1>10, <2>1
<1> QED BY <1>1, <1>8, <1>9, <1>11, <1>12 DEF Shared

(* Where a run of squeezed tokens is, and how far it is widened.           *)
LEMMA ChoicesOf ==
    ASSUME NEW a \in Int, NEW b \in Int, NEW S, S \subseteq a..b, S # {}
    PROVE  A!Least(S) \in S /\ A!Greatest(S) \in S
<1>1. A!Least(S) \in S
  BY LeastOf DEF T!Least, A!Least
<1>2. A!Greatest(S) \in S
  <2> DEFINE x == T!Greatest(S)
  <2>1. x \in S /\ \A y \in S : y <= x
    BY GreatestOf
  <2> HIDE DEF x
  <2>2. ASSUME NEW y \in S PROVE x >= y
    <3>1. x \in a..b /\ y \in a..b
      BY <2>1
    <3> QED BY <2>1, <3>1
  <2> QED BY <2>1, <2>2 DEF A!Greatest
<1> QED BY <1>1, <1>2

LEMMA WidenedBy ==
    ASSUME NEW t, NEW s, NEW a, NEW b
    PROVE  A!Widened(t, s, a, b) \in 0..(MaxExpand + 1)
<1> DEFINE stops == {k \in 0..MaxExpand : \/ A!Enough(t, s, A!Lo(a, k), A!Hi(t, b, k))
                                          \/ A!Lo(a, k) = 1 /\ A!Hi(t, b, k) = Len(t)}
<1>1. MaxExpand \in Nat
  BY AAssumption DEF A!AlignTimingAssumption
<1>2. A!Widened(t, s, a, b) = IF stops = {} THEN MaxExpand + 1 ELSE A!Least(stops)
  BY DEF A!Widened
<1>3. stops \subseteq 0..MaxExpand
  OBVIOUS
<1> HIDE DEF stops
<1>4. ASSUME stops # {} PROVE A!Least(stops) \in 0..MaxExpand
  <2>1. 0 \in Int /\ MaxExpand \in Int
    BY <1>1
  <2>2. A!Least(stops) \in stops
    BY <1>3, <1>4, <2>1, ChoicesOf
  <2> QED BY <1>3, <2>2
<1> QED BY <1>1, <1>2, <1>4

LEMMA SqueezedInside ==
    ASSUME NEW n \in Nat, NEW W, NEW t \in Tokens(n, W)
    PROVE  A!Collapsed(t) \subseteq 1..n
<1>1. DOMAIN t = 1..n
  BY DEF Tokens
<1>2. \A w \in A!Dense(t) : w[1] \in 1..n /\ w[2] \in 1..n
  BY <1>1 DEF A!Dense
<1>3. \A w \in A!Dense(t) : w[1]..w[2] \subseteq 1..n
  BY <1>2
<1> QED BY <1>3 DEF A!Collapsed

LEMMA RunIsSqueezed ==
    ASSUME NEW n \in Nat, NEW c \in SUBSET (1..n), NEW a \in c
    PROVE  /\ A!RunOf(c, a) \in c /\ a <= A!RunOf(c, a)
           /\ \A i \in a..A!RunOf(c, a) : i \in c \/ i - 1 \in c
<1> DEFINE S == {b \in c : a <= b /\ \A i \in a..b : i \in c \/ {i - 1, i + 1} \subseteq c}
<1>1. A!RunOf(c, a) = A!Greatest(S)
  BY DEF A!RunOf
<1>2. S \subseteq 1..n /\ 1 \in Int /\ n \in Int
  <2>1. S \subseteq c /\ c \subseteq 1..n
    OBVIOUS
  <2> HIDE DEF S
  <2> QED BY <2>1
<1>3. a \in S
  <2>1. a \in Int /\ a..a = {a}
    OBVIOUS
  <2> QED BY <2>1
<1>4. A!Greatest(S) \in S
  <2> HIDE DEF S
  <2> QED BY <1>2, <1>3, ChoicesOf
<1> QED BY <1>1, <1>4

LEMMA TokensAreSequences ==
    ASSUME NEW n \in Nat, NEW W, NEW t \in Tokens(n, W)
    PROVE  Len(t) = n /\ DOMAIN t = 1..n /\ t \in Seq([word : W, start : Int, end : Int])
<1> DEFINE T0 == [word : W, start : Int, end : Int]
<1>1. t \in [1..n -> T0]
  BY DEF Tokens
<1> SUFFICES Len(t) = n /\ DOMAIN t = 1..n /\ t \in Seq(T0)
  OBVIOUS
<1> HIDE DEF T0
<1> QED BY <1>1

(* What a repair has come to, as long as it has not been given up.         *)
Inside(n, s, r) == \A i \in 1..n : r[i].start <= s.end
Fits(n, s, r, c, u, i) ==
    /\ \E j \in c : j - i <= MaxExpand + 1 /\ i - j <= MaxExpand + 1
    /\ s.start <= u[i].start
    /\ Inside(n, s, r) => u[i].end <= s.end
    /\ i < n => u[i].end <= u[i + 1].start
    /\ i > 1 => u[i - 1].end <= u[i].start
Repairing(n, W, s, r, c, u) ==
    /\ u \in Tokens(n, W)
    /\ \A i \in 1..n : u[i].word = r[i].word /\ s.start <= u[i].end
    /\ Inside(n, s, r) => \A i \in 1..n : u[i].start <= s.end
    /\ \A i \in 1..n : u[i] # r[i] => Fits(n, s, r, c, u, i)

LEMMA RetimedKeeps ==
    ASSUME NEW n \in Nat, NEW W, Counted(W), NEW s, s.start \in Nat, s.end \in Nat, NEW r,
           NEW c \in SUBSET (1..n), NEW u, Repairing(n, W, s, r, c, u), NEW a \in c, NEW anchor \in Int,
           A!Retimed(u, s, a, A!RunOf(c, a), anchor) # <<>>
    PROVE  Repairing(n, W, s, r, c, A!Retimed(u, s, a, A!RunOf(c, a), anchor))
<1> DEFINE b == A!RunOf(c, a)
           k == A!Widened(u, s, a, b)
           lo == A!Lo(a, k)
           hi == A!Hi(u, b, k)
           first == A!Left(u, s, lo)
           last == A!Right(u, s, hi)
           free == A!Room(u, s, lo, hi)
           needed == (1000 * A!Shares(u, lo, hi)) \div NaturalCps
           left == IF needed < free
                   THEN A!AtMost(A!AtLeast(anchor - needed \div 2, first), last - needed)
                   ELSE first
           took == A!AtMost(needed, free)
           v == A!Retimed(u, s, a, b, anchor)
<1>1. v = IF free <= 0 THEN <<>> ELSE A!Spread(u, lo, hi, left, took)
  BY DEF A!Retimed
<1>2. free = last - first
  BY DEF A!Room
<1>3. u \in Tokens(n, W) /\ \A i \in 1..n : u[i] \in [word : W, start : Int, end : Int]
  BY DEF Repairing, Tokens
<1>4. Len(u) = n
  BY <1>3, TokensAreSequences
<1>5. b \in c /\ a <= b /\ \A i \in a..b : i \in c \/ i - 1 \in c
  BY RunIsSqueezed
<1>6. a \in 1..n /\ b \in 1..n
  BY <1>5
<1>7. k \in 0..(MaxExpand + 1) /\ MaxExpand \in Nat
  BY WidenedBy, AAssumption DEF A!AlignTimingAssumption
<1> HIDE DEF b, k
<1>8. lo \in 1..n /\ lo <= a /\ a - lo <= k /\ hi \in lo..n /\ b <= hi /\ hi - b <= k
  BY <1>4, <1>5, <1>6, <1>7 DEF A!Lo, A!Hi, A!AtLeast, A!AtMost
<1>9. /\ first = IF lo > 1 THEN u[lo - 1].end ELSE s.start
      /\ last = IF hi < n THEN u[hi + 1].start ELSE s.end
  BY <1>4 DEF A!Left, A!Right
<1> HIDE DEF lo, hi, first, last, free
<1>10. first \in Int /\ last \in Int
  <2>1. lo > 1 => lo - 1 \in 1..n
    BY <1>8
  <2>2. hi < n => hi + 1 \in 1..n
    BY <1>8
  <2> QED BY <1>3, <1>9, <2>1, <2>2
<1>11. needed \in Nat
  <2>1. A!Shares(u, lo, hi) \in Nat
    <3>1. SharesGrow(u, n, lo, hi)
      BY <1>3, <1>8, SharesHold
    <3>2. hi + 1 \in lo..(hi + 1) /\ (hi + 1) - 1 = hi
      BY <1>8
    <3> QED BY <3>1, <3>2 DEF SharesGrow
  <2>2. NaturalCps \in Nat /\ NaturalCps > 0
    BY AAssumption DEF A!AlignTimingAssumption
  <2> QED BY <2>1, <2>2, SMTT(30)
<1> HIDE DEF needed
<1>12. free > 0 /\ v = A!Spread(u, lo, hi, left, took)
  <2>1. ~(free <= 0)
    BY <1>1 DEF b
  <2> QED BY <1>1, <1>2, <1>10, <2>1
<1>13. left \in Int /\ took \in Nat /\ first <= left /\ left + took <= last
  <2>1. needed \div 2 \in Int
    BY <1>11
  <2> QED BY <1>2, <1>10, <1>11, <1>12, <2>1 DEF A!AtMost, A!AtLeast
<1> HIDE DEF left, took
<1>14. Shared(u, v, n, W, lo, hi, left, took)
  BY <1>3, <1>8, <1>12, <1>13, SpreadShares
<1> HIDE DEF v
<1>15. v \in Tokens(n, W) /\ \A i \in 1..n : v[i] \in [word : W, start : Int, end : Int]
  BY <1>14 DEF Shared, Tokens
<1>16. \A i \in lo..hi : /\ i \in 1..n /\ first <= v[i].start /\ v[i].start <= v[i].end /\ v[i].end <= last
                         /\ v[i].start \in Int /\ v[i].end \in Int
  <2> SUFFICES ASSUME NEW i \in lo..hi
               PROVE  /\ i \in 1..n /\ first <= v[i].start /\ v[i].start <= v[i].end /\ v[i].end <= last
                      /\ v[i].start \in Int /\ v[i].end \in Int
    OBVIOUS
  <2>1. i \in 1..n
    BY <1>8
  <2>2. v[i].start \in Int /\ v[i].end \in Int
    BY <1>15, <2>1
  <2>3. left <= v[i].start /\ v[i].start <= v[i].end /\ v[i].end <= left + took
    BY <1>14 DEF Shared
  <2> QED BY <1>10, <1>13, <2>1, <2>2, <2>3
<1>17. s.start <= first
  <2>1. lo > 1 => lo - 1 \in 1..n
    BY <1>8
  <2> QED BY <1>9, <2>1 DEF Repairing
<1>18. Inside(n, s, r) => last <= s.end
  <2>1. hi < n => hi + 1 \in 1..n
    BY <1>8
  <2> QED BY <1>9, <2>1 DEF Repairing
<1>19. \A i \in 1..n : v[i].word = r[i].word /\ s.start <= v[i].end
  <2> SUFFICES ASSUME NEW i \in 1..n PROVE v[i].word = r[i].word /\ s.start <= v[i].end
    OBVIOUS
  <2>1. v[i].word = u[i].word /\ (i \notin lo..hi => v[i] = u[i])
    BY <1>14 DEF Shared
  <2>2. u[i].word = r[i].word /\ s.start <= u[i].end
    BY DEF Repairing
  <2>3. i \in lo..hi => s.start <= v[i].end
    BY <1>10, <1>16, <1>17
  <2> QED BY <2>1, <2>2, <2>3
<1>20. Inside(n, s, r) => \A i \in 1..n : v[i].start <= s.end
  <2> SUFFICES ASSUME Inside(n, s, r), NEW i \in 1..n PROVE v[i].start <= s.end
    OBVIOUS
  <2>1. i \notin lo..hi => v[i] = u[i]
    BY <1>14 DEF Shared
  <2>2. u[i].start <= s.end
    BY DEF Repairing
  <2>3. i \in lo..hi => v[i].start <= s.end
    BY <1>10, <1>16, <1>18
  <2> QED BY <2>1, <2>2, <2>3
<1>21. ASSUME NEW i \in lo..hi PROVE Fits(n, s, r, c, v, i)
  <2>1. \E j \in c : j - i <= MaxExpand + 1 /\ i - j <= MaxExpand + 1
    <3>1. CASE i < a
      BY <1>6, <1>7, <1>8, <3>1
    <3>2. CASE i > b
      BY <1>5, <1>6, <1>7, <1>8, <3>2
    <3>3. CASE i \in a..b
      <4>1. i \in c \/ i - 1 \in c
        BY <1>5, <3>3
      <4>2. i - i = 0 /\ (i - 1) - i <= 0 /\ i - (i - 1) = 1
        BY <1>8
      <4>3. 0 <= MaxExpand + 1 /\ 1 <= MaxExpand + 1
        BY <1>7
      <4> QED BY <1>7, <4>1, <4>2, <4>3
    <3> QED BY <1>6, <1>8, <3>1, <3>2, <3>3
  <2>2. s.start <= v[i].start
    BY <1>10, <1>16, <1>17
  <2>3. Inside(n, s, r) => v[i].end <= s.end
    BY <1>10, <1>16, <1>18
  <2>4. ASSUME i < n PROVE v[i].end <= v[i + 1].start
    <3>1. CASE i < hi
      <4>1. v[i].end = v[i + 1].start
        BY <1>14, <3>1 DEF Shared
      <4>2. v[i].end \in Int
        BY <1>16
      <4> QED BY <4>1, <4>2
    <3>2. CASE i = hi
      <4>1. hi + 1 \in 1..n /\ hi + 1 \notin lo..hi
        BY <1>8, <2>4, <3>2
      <4>2. v[hi + 1] = u[hi + 1]
        BY <1>14, <4>1 DEF Shared
      <4>3. last = u[hi + 1].start
        BY <1>9, <2>4, <3>2
      <4> QED BY <1>16, <3>2, <4>2, <4>3
    <3> QED BY <1>8, <3>1, <3>2
  <2>5. ASSUME i > 1 PROVE v[i - 1].end <= v[i].start
    <3>1. CASE i > lo
      <4>1. i - 1 \in lo..hi /\ i - 1 < hi /\ (i - 1) + 1 = i
        BY <1>8, <3>1
      <4>2. v[i - 1].end = v[i].start
        BY <1>14, <4>1 DEF Shared
      <4>3. v[i].start \in Int
        BY <1>16
      <4> QED BY <4>2, <4>3
    <3>2. CASE i = lo
      <4>1. lo - 1 \in 1..n /\ lo - 1 \notin lo..hi
        BY <1>8, <2>5, <3>2
      <4>2. v[lo - 1] = u[lo - 1]
        BY <1>14, <4>1 DEF Shared
      <4>3. first = u[lo - 1].end
        BY <1>9, <2>5, <3>2
      <4> QED BY <1>16, <3>2, <4>2, <4>3
    <3> QED BY <1>8, <3>1, <3>2
  <2> QED BY <2>1, <2>2, <2>3, <2>4, <2>5 DEF Fits
<1>22. ASSUME NEW i \in 1..n, i \notin lo..hi, v[i] # r[i] PROVE Fits(n, s, r, c, v, i)
  <2>1. v[i] = u[i]
    BY <1>14, <1>22 DEF Shared
  <2>2. Fits(n, s, r, c, u, i)
    BY <1>22, <2>1 DEF Repairing
  <2>3. ASSUME i < n PROVE v[i].end <= v[i + 1].start
    <3>1. i + 1 \in 1..n
      BY <2>3
    <3>2. CASE i + 1 \in lo..hi
      <4>1. i + 1 = lo /\ lo > 1 /\ lo - 1 = i
        BY <1>8, <1>22, <3>2
      <4>2. first = u[i].end
        BY <1>9, <4>1
      <4> QED BY <1>16, <2>1, <3>2, <4>2
    <3>3. CASE i + 1 \notin lo..hi
      <4>1. v[i + 1] = u[i + 1]
        BY <1>14, <3>1, <3>3 DEF Shared
      <4> QED BY <2>1, <2>2, <2>3, <4>1 DEF Fits
    <3> QED BY <3>2, <3>3
  <2>4. ASSUME i > 1 PROVE v[i - 1].end <= v[i].start
    <3>1. i - 1 \in 1..n
      BY <2>4
    <3>2. CASE i - 1 \in lo..hi
      <4>1. i - 1 = hi /\ hi < n /\ hi + 1 = i
        BY <1>8, <1>22, <3>2
      <4>2. last = u[i].start
        BY <1>9, <4>1
      <4> QED BY <1>16, <2>1, <3>2, <4>2
    <3>3. CASE i - 1 \notin lo..hi
      <4>1. v[i - 1] = u[i - 1]
        BY <1>14, <3>1, <3>3 DEF Shared
      <4> QED BY <2>1, <2>2, <2>4, <4>1 DEF Fits
    <3> QED BY <3>2, <3>3
  <2> QED BY <2>1, <2>2, <2>3, <2>4 DEF Fits
<1>23. Repairing(n, W, s, r, c, v)
  BY <1>15, <1>19, <1>20, <1>21, <1>22 DEF Repairing
<1> QED BY <1>23 DEF v, b

(* The repair of all runs, from the left.                                  *)
Answered(n, W, s, r) ==
    /\ r \in Tokens(n, W) /\ Counted(W) /\ s.start \in Nat /\ s.end \in Nat
    /\ \A i \in 1..n : s.start <= r[i].end
RepairStep(s, r, c, a, u) ==
    IF u = <<>> \/ a \notin A!RunStarts(c) THEN u ELSE A!Retimed(u, s, a, A!RunOf(c, a), r[a].start)
Repairs(n, W, s, r, c) == {<<>>} \cup {u \in Tokens(n, W) : Repairing(n, W, s, r, c, u)}

LEMMA RepairStepKeeps ==
    ASSUME NEW n \in Nat, NEW W, NEW s, NEW r, Answered(n, W, s, r), NEW c \in SUBSET (1..n),
           NEW a \in 1..n, NEW u \in Repairs(n, W, s, r, c)
    PROVE  RepairStep(s, r, c, a, u) \in Repairs(n, W, s, r, c)
<1> DEFINE v == A!Retimed(u, s, a, A!RunOf(c, a), r[a].start)
<1>1. CASE u = <<>> \/ a \notin A!RunStarts(c)
  BY <1>1 DEF RepairStep
<1>2. CASE ~(u = <<>> \/ a \notin A!RunStarts(c)) /\ v # <<>>
  <2>1. Repairing(n, W, s, r, c, u) /\ a \in c
    BY <1>2 DEF Repairs, A!RunStarts
  <2>2. r[a].start \in Int
    BY DEF Answered, Tokens
  <2>3. Repairing(n, W, s, r, c, v)
    BY <1>2, <2>1, <2>2, RetimedKeeps DEF Answered
  <2>4. RepairStep(s, r, c, a, u) = v
    BY <1>2 DEF RepairStep
  <2> HIDE DEF v
  <2>5. v \in Tokens(n, W)
    BY <2>3 DEF Repairing
  <2> QED BY <2>3, <2>4, <2>5 DEF Repairs
<1>3. CASE ~(u = <<>> \/ a \notin A!RunStarts(c)) /\ v = <<>>
  BY <1>3 DEF RepairStep, Repairs
<1> QED BY <1>1, <1>2, <1>3

LEMMA RepairKeeps ==
    ASSUME NEW n \in Nat, NEW W, NEW s, NEW r, Answered(n, W, s, r)
    PROVE  A!Repaired(r, s) \in Repairs(n, W, s, r, A!Collapsed(r))
<1> DEFINE c == A!Collapsed(r)
           V == Repairs(n, W, s, r, c)
           F == [a \in 1..n |-> [u \in V |-> RepairStep(s, r, c, a, u)]]
           IsIt(d) == d = [a \in 0..n |-> IF a = 0 THEN r ELSE RepairStep(s, r, c, a, d[a - 1])]
           upto == CHOOSE d : IsIt(d)
<1>1. n \in Nat /\ r \in Tokens(n, W)
  BY DEF Answered
<1>2. Len(r) = n /\ c \in SUBSET (1..n)
  BY <1>1, TokensAreSequences, SqueezedInside
<1>3. \A a \in 1..n, u \in V : RepairStep(s, r, c, a, u) \in V
  <2> HIDE DEF c
  <2> QED BY <1>2, RepairStepKeeps
<1>4. r \in V
  <2>1. Repairing(n, W, s, r, c, r)
    BY <1>1 DEF Repairing, Answered, Inside
  <2> QED BY <1>1, <2>1 DEF Repairs
<1>5. Steps(n, V, r, F)
  <2> HIDE DEF V, c
  <2> QED BY <1>3, <1>4 DEF Steps
<1>6. Folds(n, V, r, F)
  <2> HIDE DEF V, F
  <2> QED BY <1>1, <1>5, Folding
<1>7. PICK d \in [0..n -> V] : d[0] = r /\ \A i \in 1..n : d[i] = F[i][d[i - 1]]
  <2> HIDE DEF V, F
  <2> QED BY <1>6 DEF Folds
<1>8. \A i \in 1..n : i - 1 \in 0..n /\ d[i] = RepairStep(s, r, c, i, d[i - 1])
  <2> SUFFICES ASSUME NEW i \in 1..n PROVE i - 1 \in 0..n /\ d[i] = RepairStep(s, r, c, i, d[i - 1])
    OBVIOUS
  <2>1. i - 1 \in 0..n
    BY <1>1
  <2>2. d[i - 1] \in V
    BY <1>7, <2>1
  <2>3. d[i] = F[i][d[i - 1]]
    BY <1>7
  <2> HIDE DEF V
  <2> QED BY <2>1, <2>2, <2>3
<1>9. IsIt(d)
  <2>1. \A a \in 0..n : a = 0 \/ a \in 1..n
    BY <1>1
  <2> HIDE DEF V, F, c
  <2>2. \A a \in 0..n : d[a] = IF a = 0 THEN r ELSE RepairStep(s, r, c, a, d[a - 1])
    BY <1>7, <1>8, <2>1
  <2> QED BY <2>2
<1>10. IsIt(upto)
  <2> HIDE DEF IsIt
  <2> QED BY <1>9
<1>11. upto[0] = r /\ \A a \in 1..n : upto[a] = RepairStep(s, r, c, a, upto[a - 1])
  <2> HIDE DEF upto
  <2> QED BY <1>1, <1>10
<1>12. A!Repaired(r, s) = <<>> \/ A!Repaired(r, s) = upto[n]
  BY <1>2 DEF A!Repaired, RepairStep
<1> HIDE DEF upto
<1> DEFINE S == {a \in 0..n : upto[a] \in V}
<1>13. \A a \in 0..n : 0..(a - 1) \subseteq S => a \in S
  <2> SUFFICES ASSUME NEW a \in 0..n, 0..(a - 1) \subseteq S PROVE upto[a] \in V
    OBVIOUS
  <2>1. CASE a = 0
    BY <1>4, <1>11, <2>1
  <2>2. CASE a # 0
    <3>1. a \in 1..n /\ a - 1 \in 0..(a - 1)
      BY <1>1, <2>2
    <3>2. upto[a - 1] \in V
      BY <3>1
    <3> HIDE DEF S, V
    <3> QED BY <1>3, <1>11, <3>1, <3>2
  <2> QED BY <2>1, <2>2
<1>14. n \in S
  <2> HIDE DEF S
  <2>1. 0..n \subseteq S
    BY <1>1, <1>13, StrongInduction
  <2> QED BY <1>1, <2>1
<1>15. <<>> \in V
  BY DEF Repairs
<1> QED BY <1>12, <1>14, <1>15

(* What RepairIsLocal says of a repair.                                    *)
IsLocal(r, s, t) ==
    LET squeezed == A!Collapsed(r)
        moved == {i \in DOMAIN t : t[i] # r[i]}
        inside == \A i \in DOMAIN t : r[i].start <= s.end
    IN  /\ \A i \in moved : \E j \in squeezed : j - i <= MaxExpand + 1 /\ i - j <= MaxExpand + 1
        /\ \A i \in moved : t[i].start >= s.start /\ (inside => t[i].end <= s.end)
        /\ \A i \in moved : /\ i < Len(t) => t[i].end <= t[i + 1].start
                            /\ i > 1 => t[i].start >= t[i - 1].end
        /\ A!WordsOf(t) = s.words

LEMMA RepairedIsLocal ==
    ASSUME NEW n \in Nat, NEW W, NEW s, NEW r, Answered(n, W, s, r), s.words = [i \in 1..n |-> r[i].word],
           NEW t, Repairing(n, W, s, r, A!Collapsed(r), t)
    PROVE  IsLocal(r, s, t)
<1> DEFINE c == A!Collapsed(r)
           moved == {i \in DOMAIN t : t[i] # r[i]}
<1>1. t \in Tokens(n, W) /\ \A i \in 1..n : t[i] \in [word : W, start : Int, end : Int]
  BY DEF Repairing, Tokens
<1>2. Len(t) = n /\ DOMAIN t = 1..n
  BY <1>1, TokensAreSequences
<1>3. \A i \in moved : Fits(n, s, r, c, t, i) /\ i \in 1..n
  BY <1>2 DEF Repairing
<1>4. Inside(n, s, r) <=> \A i \in DOMAIN t : r[i].start <= s.end
  BY <1>2 DEF Inside
<1>5. A!WordsOf(t) = s.words
  BY <1>1, <1>2 DEF A!WordsOf, Repairing
<1> HIDE DEF c
<1>6. ASSUME NEW i \in moved
      PROVE  /\ \E j \in c : j - i <= MaxExpand + 1 /\ i - j <= MaxExpand + 1
             /\ t[i].start >= s.start /\ (Inside(n, s, r) => t[i].end <= s.end)
             /\ i < n => t[i].end <= t[i + 1].start
             /\ i > 1 => t[i].start >= t[i - 1].end
  <2>1. Fits(n, s, r, c, t, i) /\ i \in 1..n
    BY <1>3
  <2>2. t[i].start \in Int /\ s.start \in Nat
    BY <1>1, <2>1 DEF Answered
  <2>3. i > 1 => i - 1 \in 1..n /\ t[i - 1].end \in Int
    BY <1>1, <2>1
  <2>4. s.start <= t[i].start => t[i].start >= s.start
    BY <2>2
  <2>5. i > 1 => (t[i - 1].end <= t[i].start => t[i].start >= t[i - 1].end)
    BY <2>2, <2>3
  <2> HIDE DEF moved
  <2> QED BY <2>1, <2>4, <2>5 DEF Fits
<1> HIDE DEF moved
<1> QED BY <1>2, <1>4, <1>5, <1>6 DEF IsLocal, c, moved
-----------------------------------------------------------------------------
(* What is true of an alignment, and of its fallback.                      *)
Says(t, s) == A!InOrder(t) /\ (A!Content(s.words) # <<>> => A!Content(A!WordsOf(t)) = A!Content(s.words))
AlignIInv ==
    /\ segment \in Texts
    /\ aligned.status = "repaired" => IsLocal(answer, segment, aligned.tokens)
    /\ aligned.status \in {"completed", "repaired"} => Says(aligned.tokens, segment)

LEMMA AnswerFacts ==
    ASSUME NEW s \in Texts, NEW times \in Timings(Len(s.words))
    PROVE  LET n == Len(s.words)
               W == {s.words[i] : i \in 1..n}
               r == A!Offset(s.words, times, s.start)
           IN  n \in Nat /\ Answered(n, W, s, r) /\ s.words = [i \in 1..n |-> r[i].word]
               /\ A!WordsOf(r) = s.words
<1> DEFINE n == Len(s.words)
           W == {s.words[i] : i \in 1..n}
           r == A!Offset(s.words, times, s.start)
<1>1. /\ s.start \in Nat /\ s.end \in Nat
      /\ s.words \in Seq({s.words[i] : i \in DOMAIN s.words})
      /\ \A i \in DOMAIN s.words : s.words[i].len \in Nat
      /\ Timings(Len(s.words)) \subseteq [1..Len(s.words) -> Nat \X Nat]
  BY AAssumption DEF A!AlignTimingAssumption
<1>2. n \in Nat /\ DOMAIN s.words = 1..n
  BY <1>1
<1>3. times \in [1..n -> Nat \X Nat]
  BY <1>1
<1>4. \A i \in 1..n : times[i][1] \in Nat /\ times[i][2] \in Nat
  <2> HIDE DEF n
  <2> QED BY <1>3
<1>5. DOMAIN times = 1..n
  <2> HIDE DEF n
  <2> QED BY <1>3
<1>6. r = [i \in 1..n |-> [word |-> s.words[i], start |-> s.start + times[i][1], end |-> s.start + times[i][2]]]
  BY <1>5 DEF A!Offset
<1>7. s.words = [i \in 1..n |-> s.words[i]]
  <2>1. s.words \in Seq(W)
    BY <1>1, <1>2
  <2> HIDE DEF W
  <2>2. s.words \in [1..n -> W]
    BY <2>1
  <2> QED BY <2>2
<1> HIDE DEF n, r
<1>8. r \in Tokens(n, W)
  BY <1>1, <1>4, <1>6 DEF Tokens
<1>9. Counted(W)
  BY <1>1, <1>2 DEF Counted
<1>10. \A i \in 1..n : s.start <= r[i].end /\ r[i].word = s.words[i]
  <2> SUFFICES ASSUME NEW i \in 1..n PROVE s.start <= r[i].end /\ r[i].word = s.words[i]
    OBVIOUS
  <2>1. r[i].word = s.words[i] /\ r[i].end = s.start + times[i][2]
    BY <1>6
  <2>2. times[i][2] \in Nat /\ s.start \in Nat
    BY <1>1, <1>4
  <2> QED BY <2>1, <2>2
<1>11. Answered(n, W, s, r)
  BY <1>1, <1>8, <1>9, <1>10 DEF Answered
<1>12. s.words = [i \in 1..n |-> r[i].word]
  BY <1>7, <1>10
<1>13. A!WordsOf(r) = s.words
  <2>1. DOMAIN r = 1..n
    BY <1>6
  <2> QED BY <1>12, <2>1 DEF A!WordsOf
<1> QED BY <1>2, <1>11, <1>12, <1>13 DEF n, r

LEMMA AlignedHolds ==
    ASSUME NEW s \in Texts, NEW times \in Timings(Len(s.words))
    PROVE  LET r == A!Offset(s.words, times, s.start)
               w == A!Aligned(r, s)
           IN  /\ w.status = "repaired" => IsLocal(r, s, w.tokens)
               /\ w.status \in {"completed", "repaired"} => Says(w.tokens, s)
<1> DEFINE n == Len(s.words)
           W == {s.words[i] : i \in 1..n}
           r == A!Offset(s.words, times, s.start)
           w == A!Aligned(r, s)
           repair == A!Repaired(r, s)
<1>1. n \in Nat /\ Answered(n, W, s, r) /\ s.words = [i \in 1..n |-> r[i].word] /\ A!WordsOf(r) = s.words
  BY AnswerFacts
<1> HIDE DEF n, W, r
<1>2. w = IF A!Reliable(r, s) THEN A!Row("completed", r)
          ELSE IF repair # <<>> THEN A!Row("repaired", repair) ELSE A!Row("failed", <<>>)
  BY DEF A!Aligned
<1> HIDE DEF w
<1>3. CASE A!Reliable(r, s)
  <2>1. w.status = "completed" /\ w.tokens = r
    BY <1>2, <1>3 DEF A!Row
  <2>2. Says(r, s)
    BY <1>1, <1>3 DEF Says, A!Reliable
  <2> QED BY <2>1, <2>2 DEF w, r
<1>4. CASE ~A!Reliable(r, s) /\ repair # <<>>
  <2>1. w.status = "repaired" /\ w.tokens = repair
    BY <1>2, <1>4 DEF A!Row
  <2>2. Repairing(n, W, s, r, A!Collapsed(r), repair)
    BY <1>1, <1>4, RepairKeeps DEF Repairs
  <2>3. IsLocal(r, s, repair)
    <3> HIDE DEF repair
    <3> QED BY <1>1, <2>2, RepairedIsLocal
  <2>4. A!Reliable(repair, s)
    BY <1>4 DEF A!Repaired
  <2> HIDE DEF repair
  <2>5. Says(repair, s)
    BY <2>3, <2>4 DEF Says, IsLocal, A!Reliable
  <2> QED BY <2>1, <2>3, <2>5 DEF w, r
<1>5. CASE ~A!Reliable(r, s) /\ repair = <<>>
  <2>1. w.status = "failed"
    BY <1>2, <1>5 DEF A!Row
  <2> QED BY <2>1 DEF w, r
<1> QED BY <1>3, <1>4, <1>5

(* Alignment keeps the invariant.                                          *)
LEMMA AlignStep == AlignIInv /\ [A!AlignNext]_(A!alignVars) => AlignIInv'
<1> SUFFICES ASSUME AlignIInv, [A!AlignNext]_(A!alignVars) PROVE AlignIInv'
  OBVIOUS
<1>1. CASE A!Align
  <2>1. PICK times \in Timings(Len(segment.words)) : answer' = A!Offset(segment.words, times, segment.start)
    BY <1>1 DEF A!Align
  <2>2. aligned' = A!Aligned(answer', segment) /\ segment' = segment /\ segment \in Texts
    BY <1>1 DEF A!Align, AlignIInv
  <2>3. /\ aligned'.status = "repaired" => IsLocal(answer', segment, aligned'.tokens)
        /\ aligned'.status \in {"completed", "repaired"} => Says(aligned'.tokens, segment)
    BY <2>1, <2>2, AlignedHolds
  <2> QED BY <2>2, <2>3 DEF AlignIInv
<1>2. CASE A!HearWindow
  BY <1>2 DEF A!HearWindow, AlignIInv
<1>3. CASE A!EndFallback
  <2> DEFINE t == A!Sorted(pieces)
  <2>1. segment' = segment /\ answer' = answer
        /\ aligned' = IF A!Reliable(t, segment) /\ A!Faithful(t, segment) THEN A!Row("completed", t)
                      ELSE A!Row("failed", <<>>)
    BY <1>3 DEF A!EndFallback
  <2> HIDE DEF t
  <2>2. CASE A!Reliable(t, segment) /\ A!Faithful(t, segment)
    <3>1. aligned'.status = "completed" /\ aligned'.tokens = t
      BY <2>1, <2>2 DEF A!Row
    <3>2. Says(t, segment)
      BY <2>2 DEF Says, A!Reliable, A!Faithful
    <3> QED BY <2>1, <3>1, <3>2 DEF AlignIInv
  <2>3. CASE ~(A!Reliable(t, segment) /\ A!Faithful(t, segment))
    <3>1. aligned'.status = "failed"
      BY <2>1, <2>3 DEF A!Row
    <3> QED BY <2>1, <3>1 DEF AlignIInv
  <2> QED BY <2>2, <2>3
<1>4. CASE UNCHANGED A!alignVars
  BY <1>4 DEF A!alignVars, AlignIInv
<1> QED BY <1>1, <1>2, <1>3, <1>4 DEF A!AlignNext

(* Whatever the aligner answers, for every segment and every threshold: a  *)
(* repair of squeezed tokens is local, and an aligned segment says what    *)
(* its text says (align.py:363, commands/align.py:325).                    *)
THEOREM RepairIsHonestAlways == AlignSpec => []RepairIsHonest
<1>1. A!AlignInit => AlignIInv
  BY DEF A!AlignInit, A!NoRow, A!Row, AlignIInv
<1>2. AlignIInv => RepairIsHonest
  BY DEF AlignIInv, RepairIsHonest, A!RepairIsLocal, A!AlignedKeepsContent, IsLocal, Says
<1> QED
  BY <1>1, <1>2, AlignStep, PTL DEF AlignSpec
=============================================================================
