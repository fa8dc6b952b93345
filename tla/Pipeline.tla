------------------------------- MODULE Pipeline -------------------------------
(***************************************************************************)
(* A workspace over many commands: PipelineRunner (pipeline_runner.py) and *)
(* the stage commands it calls (commands/*.py), which skip what they find, *)
(* clear what they force, write the stage artifacts one after the other    *)
(* and are stopped by the aggregated quality gate (final_quality.py,       *)
(* content_quality.py).  A process may be killed between any two writes;   *)
(* what the next command makes of the files it finds is the question.      *)
(*                                                                         *)
(* A text is known by the command whose transcription it comes from, and   *)
(* by whether it has been corrected.  Suspects, MiMo's proofreading and    *)
(* its re-alignment are not in these commands.                             *)
(***************************************************************************)
EXTENDS Integers, Sequences, FiniteSets

CONSTANTS Segs,       \* the segments of segments.json, prepared beforehand
          Tolerant,   \* segments so small that the conservation check does not miss them
          Commands,   \* the commands that are run: [stages, mode, memory]
          MaxRuns,    \* bound: commands that are run
          MaxKills    \* bound: commands that are killed

ASSUME PipelineAssumption ==
    /\ IsFiniteSet(Segs) /\ Segs # {} /\ Tolerant \subseteq Segs
    /\ MaxRuns \in Nat /\ MaxKills \in Nat

VARIABLES disk,       \* the artifacts of the workspace
          cmd,        \* the command that runs, or ran last
          left,       \* the stages it has still to do, the current one first
          at,         \* how far it is in the current one
          todo,       \* files the stage has still to unlink
          pending,    \* segments it has still to do
          ended,      \* how the last command ended
          runs, kills,
          excused     \* what has happened for which a gate may stay closed

vars == <<disk, cmd, left, at, todo, pending, ended, runs, kills, excused>>

(* A segment's row in a manifest: there is none, it failed, it is complete *)
(* without any text, or it has the text of a command.                      *)
Absent == 0
Failed == -1
Silent == -2
Corrected(v) == IF v \in 1..MaxRuns THEN v + MaxRuns ELSE v
Texts  == 1..(2 * MaxRuns)
Family(v) == IF v > MaxRuns THEN v - MaxRuns ELSE v
Complete(row) == row \in Texts \cup {Silent}

None == [s \in Segs |-> Absent]
Empty == [transcript |-> None, tJournal |-> None, corrected |-> 0,
          aligned |-> None, aJournal |-> None, split |-> None,
          translated |-> [text |-> None, full |-> FALSE],
          normalized |-> [text |-> None, memory |-> FALSE, chinese |-> FALSE],
          reverts |-> None,
          srt |-> [text |-> None, memory |-> FALSE, chinese |-> FALSE]]
Torn == [s \in Segs |-> Failed]        \* the text of a file that was cut short

(* The stages of a run with some options; a command as the page builds it, *)
(* where a stage by itself does not resume unless that is asked for, and   *)
(* no program memory can be given.                                         *)
Order == <<"transcribe", "correct", "align", "split", "translate", "gate", "normalize", "export">>
StagesOf(options) ==
    SelectSeq(Order, LAMBDA stage : stage \in {"transcribe", "gate", "export"} \cup options)
ModeOf(resume, force) == IF force THEN "force" ELSE IF resume THEN "resume" ELSE "plain"
FromPage(stage, options, asked, force) ==
    [stages |-> IF stage = "run" THEN StagesOf(options) ELSE <<stage>>,
     mode   |-> ModeOf(asked = "resume" \/ (asked = "unset" /\ stage = "run"), force),
     memory |-> FALSE]
Has(c, stage) == stage \in {c.stages[i] : i \in DOMAIN c.stages}
Full(c) == c.stages # <<>> /\ Head(c.stages) = "transcribe" /\ Has(c, "export")

(* Any other command is of one stage.                                      *)
Precedes(a, b) == \E i, j \in DOMAIN Order : i < j /\ Order[i] = a /\ Order[j] = b
ASSUME CommandsAssumption == \A c \in Commands :
    /\ c.mode \in {"resume", "force", "plain"} /\ c.memory \in BOOLEAN
    /\ c.stages \in Seq({Order[i] : i \in DOMAIN Order})
    /\ \/ Len(c.stages) = 1
       \/ /\ Full(c) /\ c.stages[Len(c.stages)] = "export"
          /\ \A i, j \in DOMAIN c.stages : i < j => Precedes(c.stages[i], c.stages[j])

Init == /\ disk = Empty
        /\ cmd = [stages |-> <<>>, mode |-> "resume", memory |-> FALSE]
        /\ left = <<>> /\ at = "idle" /\ todo = <<>> /\ pending = {}
        /\ ended = "none" /\ runs = 0 /\ kills = 0 /\ excused = {}
-----------------------------------------------------------------------------
(* What the stages read: manifests, and where there is none the journal.   *)
Manifest(rows, journal) == IF rows = None THEN journal ELSE rows
HasText(rows)  == {s \in Segs : rows[s] \in Texts}
AllComplete(rows, segs) == \A s \in segs : Complete(rows[s])
KeysOf(text) == {s \in Segs : text[s] # Absent}
TranslationComplete(d) ==
    d.translated.full /\ KeysOf(d.split) \subseteq KeysOf(d.translated.text)
CorrectionComplete(d) ==
    LET eligible == Cardinality(HasText(Manifest(d.transcript, d.tJournal)))
    IN  eligible > 0 /\ d.corrected >= eligible

(* The subtitles a stage starts from: those of the latest stage there are. *)
Latest(d) == IF d.translated.text # None THEN d.translated.text
             ELSE IF d.split # None THEN d.split
             ELSE [s \in Segs |-> IF d.transcript[s] \in Texts THEN d.transcript[s] ELSE Absent]
ForExport(d) == IF d.normalized.text # None THEN d.normalized
                ELSE [text |-> Latest(d), memory |-> FALSE,
                      chinese |-> d.translated.text # None]

(* A segment that was aligned is taken with the text it has now.           *)
AlignText(d) == [s \in Segs |->
    IF d.aligned[s] # Absent /\ d.transcript[s] \in Texts THEN d.transcript[s]
    ELSE IF d.aligned[s] \in Texts THEN d.aligned[s] ELSE Absent]
Unusable(d) == \E s \in Segs : d.aligned[s] = Failed /\ d.transcript[s] \notin Texts
-----------------------------------------------------------------------------
(* The gate.  A later stage conserves an earlier one's text if it has all  *)
(* but the little that its threshold of 90 per cent lets go.               *)
Conserved(from, to) ==
    \A s \in Segs \ Tolerant : from[s] \in Texts => Family(from[s]) = Family(to[s])

ContentFails(d, withExport) ==
    LET Chain == <<d.transcript>>
                 \o (IF AlignText(d) # None THEN <<AlignText(d)>> ELSE <<>>)
                 \o (IF d.split # None THEN <<d.split>> ELSE <<>>)
                 \o (IF withExport /\ d.srt.text # None THEN <<d.srt.text>> ELSE <<>>)
    IN  \E i \in 1..(Len(Chain) - 1) : ~Conserved(Chain[i], Chain[i + 1])

(* What the program memory changed is undone by its report, if the report  *)
(* is about this text.                                                     *)
Undone(d) == ~d.normalized.memory \/ d.reverts = d.normalized.text
NormalizeFails(d) ==
    \/ d.normalized.text # None /\ ~(Undone(d) /\ d.normalized.text = Latest(d))
    \/ d.srt.text # None /\ d.srt # [ForExport(d) EXCEPT !.chinese = d.srt.chinese]
AlignmentFails(d)   == \E s \in Segs : d.aligned[s] = Failed
TranslationFails(d) == d.translated.text # None /\ ~TranslationComplete(d)
CheckpointFails(d) ==
    \/ d.tJournal # None /\ HasText(d.transcript) # Segs
    \/ /\ d.aJournal # None
       /\ \/ HasText(d.transcript) = {}
          \/ \E s \in HasText(d.transcript) : ~Complete(d.aligned[s])

GateFails(d, withExport, requireSrt) ==
    \/ ContentFails(d, withExport)
    \/ AlignmentFails(d)
    \/ NormalizeFails(d)
    \/ TranslationFails(d)
    \/ CheckpointFails(d)
    \/ requireSrt /\ d.srt.text = None
-----------------------------------------------------------------------------
(* Running a command.  The split stage takes an alignment that was broken  *)
(* off for whole, and its text where there is no transcript; the gate asks *)
(* for one that an earlier stage has cleared.  No command without align    *)
(* completes it.                                                           *)
LeavesOut(c) ==
    /\ disk.aJournal # None /\ ~Has(c, "align")
    /\ IF Full(c) THEN HasText(disk.aligned) # Segs \/ Has(c, "correct") \/ c.mode = "force"
       ELSE Has(c, "split") /\ (HasText(disk.aligned) # Segs \/ HasText(disk.transcript) # Segs)
Begin(c) ==
    /\ at = "idle" /\ runs < MaxRuns
    /\ cmd' = c /\ left' = c.stages /\ at' = "start"
    /\ ended' = "none" /\ runs' = runs + 1
    /\ excused' = excused \cup (IF LeavesOut(c) THEN {"align"} ELSE {})
                          \cup (IF c.mode = "plain" \/ (c.mode = "force" /\ ~Full(c))
                                THEN {c.mode} ELSE {})
    /\ UNCHANGED <<disk, todo, pending, kills>>

Stage(name, where) == left # <<>> /\ Head(left) = name /\ at = where

Proceed == /\ left' = Tail(left)
           /\ IF Len(left) = 1
              THEN at' = "idle" /\ ended' = "ok"
              ELSE at' = "start" /\ ended' = ended
Fails(how) == left' = <<>> /\ at' = "idle" /\ ended' = how
Stay(where) == at' = where /\ UNCHANGED <<left, ended>>
Counters == <<cmd, runs, kills>>

(* --force clears the outputs of a stage, some stages those of later ones  *)
(* too; the checkpoints and events are never cleared.                      *)
DownstreamButSplit(stage) ==
    CASE stage = "correct" -> <<"aligned", "translated", "normalized", "srt">>
      [] stage = "translate" -> <<"normalized", "srt">>
      [] stage = "normalize" -> <<"srt">>
DownstreamOf(stage) ==
    CASE stage = "correct" -> <<"aligned", "split", "translated", "normalized", "srt">>
      [] stage = "translate" -> <<"normalized", "srt">>
      [] stage = "normalize" -> <<"srt">>
OutputsOf(stage) ==
    CASE stage = "transcribe" -> <<"transcript", "corrected">>
      [] stage = "correct" -> <<"corrected">>
      [] stage = "align" -> <<"aligned">>
      [] stage = "split" -> <<"split">>
      [] stage = "translate" -> <<"translated">>
      [] stage = "normalize" -> <<"normalized">>
      [] stage = "export" -> <<"srt">>
      [] stage = "gate" -> <<>>
Cleared(stage) ==
    CASE stage = "transcribe" -> OutputsOf(stage) \o DownstreamOf("correct")
      [] stage \in {"translate", "normalize"} -> OutputsOf(stage) \o DownstreamOf(stage)
      [] OTHER -> OutputsOf(stage)

(* --resume is on unless it is turned off, and --force goes before it.      *)
Forces == cmd.mode = "force"

Enter ==
    /\ left # <<>> /\ at = "start"
    /\ at' = "clear"
    /\ todo' = IF Forces THEN Cleared(Head(left)) ELSE <<>>
    /\ UNCHANGED <<disk, left, pending, ended, excused, Counters>>

Unlink ==
    /\ at \in {"clear", "wipe"} /\ todo # <<>>
    /\ disk' = [disk EXCEPT ![Head(todo)] = Empty[Head(todo)]]
    /\ todo' = Tail(todo)
    /\ UNCHANGED <<left, at, pending, ended, excused, Counters>>

Ready(stage) == Stage(stage, "clear") /\ todo = <<>>
Resumes == cmd.mode # "plain" /\ ~Forces

(* A stage that leaves everything as it is. *)
Skip == Proceed /\ UNCHANGED <<disk, todo, pending, excused, Counters>>
-----------------------------------------------------------------------------
(* transcribe and align go through the segments, each row saved at once.   *)
Loaded(rows, journal) == IF Forces THEN None ELSE Manifest(rows, journal)
NotDone(rows, segs) == {s \in segs : ~(Resumes /\ Complete(rows[s]))}

Transcribe ==
    /\ Ready("transcribe")
    /\ LET rows == Loaded(disk.transcript, disk.tJournal) IN
       /\ disk' = [disk EXCEPT !.transcript = rows]
       /\ pending' = NotDone(rows, Segs)
       /\ IF pending' = {} THEN Proceed ELSE Stay("rows")
    /\ UNCHANGED <<todo, excused, Counters>>

TranscribeRow(s, row) ==
    /\ Stage("transcribe", "rows") /\ s \in pending
    /\ disk' = [disk EXCEPT !.transcript[s] = row, !.tJournal[s] = row]
    /\ pending' = pending \ {s}
    /\ excused' = IF row \in Texts THEN excused ELSE excused \cup {"lost"}
    /\ UNCHANGED <<left, at, todo, ended, Counters>>

Transcribed ==
    /\ Stage("transcribe", "rows") /\ pending = {}
    /\ IF HasText(disk.transcript) # {} THEN Proceed ELSE Fails("failed")
    /\ UNCHANGED <<disk, todo, pending, excused, Counters>>

Align ==
    /\ Ready("align")
    /\ LET texts == Manifest(disk.transcript, disk.tJournal)
           rows == Loaded(disk.aligned, disk.aJournal) IN
       /\ disk' = [disk EXCEPT !.transcript = texts, !.aligned = rows]
       /\ pending' = IF texts = None THEN {} ELSE NotDone(rows, HasText(texts))
       /\ CASE texts = None -> Fails("failed")
            [] HasText(texts) # {} /\ pending' = {} -> Proceed
            [] OTHER -> Stay("rows")
    /\ UNCHANGED <<todo, excused, Counters>>

AlignRow(s, ok) ==
    /\ Stage("align", "rows") /\ s \in pending /\ \A p \in pending : s <= p
    /\ LET row == IF ok THEN disk.transcript[s] ELSE Failed
       IN  disk' = [disk EXCEPT !.aligned[s] = row, !.aJournal[s] = row]
    /\ pending' = pending \ {s}
    /\ excused' = IF ok THEN excused ELSE excused \cup {"lost"}
    /\ UNCHANGED <<left, at, todo, ended, Counters>>

Aligned ==
    /\ Stage("align", "rows") /\ pending = {}
    /\ IF HasText(disk.transcript) # {} /\ AllComplete(disk.aligned, HasText(disk.transcript))
       THEN Proceed ELSE Fails("failed")
    /\ UNCHANGED <<disk, todo, pending, excused, Counters>>
-----------------------------------------------------------------------------
(* correct rewrites the transcripts, then its report, and clears what came *)
(* after only then and only if it changed something.                       *)
SkipCorrect == Ready("correct") /\ Resumes /\ CorrectionComplete(disk) /\ Skip

Correct(changed) ==
    /\ Ready("correct") /\ ~(Resumes /\ CorrectionComplete(disk))
    /\ LET texts == Manifest(disk.transcript, disk.tJournal) IN
       /\ changed \subseteq {s \in HasText(texts) : Corrected(texts[s]) # texts[s]}
       /\ disk' = [disk EXCEPT !.transcript =
                     [s \in Segs |-> IF s \in changed THEN Corrected(texts[s]) ELSE texts[s]]]
       /\ todo' = IF changed = {} THEN <<>> ELSE DownstreamOf("correct")
       /\ IF texts = None THEN Fails("failed") ELSE Stay("report")
    /\ UNCHANGED <<pending, excused, Counters>>

ReportCorrection ==
    /\ Stage("correct", "report")
    /\ disk' = [disk EXCEPT !.corrected = Cardinality(HasText(disk.transcript))]
    /\ Stay("wipe")
    /\ UNCHANGED <<todo, pending, excused, Counters>>

CorrectionDone ==
    /\ Stage("correct", "wipe") /\ todo = <<>>
    /\ IF disk.corrected > 0 THEN Proceed ELSE Fails("failed")
    /\ UNCHANGED <<disk, todo, pending, excused, Counters>>
-----------------------------------------------------------------------------
SkipSplit == Ready("split") /\ Resumes /\ disk.split # None /\ Skip

Split ==
    /\ Ready("split") /\ ~(Resumes /\ disk.split # None)
    /\ IF AlignText(disk) = None \/ Unusable(disk)
       THEN Fails("failed") /\ disk' = disk
       ELSE Proceed /\ disk' = [disk EXCEPT !.split = AlignText(disk)]
    /\ UNCHANGED <<todo, pending, excused, Counters>>

SkipTranslate == Ready("translate") /\ Resumes /\ TranslationComplete(disk) /\ Skip

Translate(full) ==
    /\ Ready("translate") /\ ~(Resumes /\ TranslationComplete(disk))
    /\ IF disk.split = None
       THEN Fails("failed") /\ disk' = disk
       ELSE /\ disk' = [disk EXCEPT !.translated = [text |-> disk.split, full |-> full]]
            /\ IF full THEN Proceed ELSE Fails("failed")
    /\ excused' = IF full THEN excused ELSE excused \cup {"lost"}
    /\ UNCHANGED <<todo, pending, Counters>>

Gate ==
    /\ Ready("gate")
    /\ IF GateFails(disk, FALSE, FALSE) THEN Fails("gate") ELSE Proceed
    /\ UNCHANGED <<disk, todo, pending, excused, Counters>>

(* normalize and export ask the gate themselves before they write.         *)
Closed(stage) ==
    /\ Ready(stage) /\ GateFails(disk, FALSE, FALSE)
    /\ Fails("gate")
    /\ UNCHANGED <<disk, todo, pending, excused, Counters>>

Open(stage) == Ready(stage) /\ ~GateFails(disk, FALSE, FALSE)

SkipNormalize == Open("normalize") /\ Resumes /\ disk.normalized.text # None /\ Skip

Normalize ==
    /\ Open("normalize") /\ ~(Resumes /\ disk.normalized.text # None)
    /\ disk' = [disk EXCEPT !.normalized = [text |-> Latest(disk), memory |-> FALSE,
                                            chinese |-> disk.translated.text # None]]
    /\ IF cmd.memory THEN Stay("memory") ELSE Proceed
    /\ UNCHANGED <<todo, pending, excused, Counters>>

(* apply_to_work_paths: the cues, the older SRT, and then the report that  *)
(* tells the gate what was changed.                                        *)
ApplyMemory ==
    /\ Stage("normalize", "memory")
    /\ disk' = [disk EXCEPT !.normalized.memory = TRUE]
    /\ Stay("stale srt")
    /\ UNCHANGED <<todo, pending, excused, Counters>>

DropSrt ==
    /\ Stage("normalize", "stale srt")
    /\ disk' = [disk EXCEPT !.srt = Empty.srt]
    /\ Stay("reverts")
    /\ UNCHANGED <<todo, pending, excused, Counters>>

ReportMemory ==
    /\ Stage("normalize", "reverts")
    /\ disk' = [disk EXCEPT !.reverts = disk.normalized.text]
    /\ Proceed
    /\ UNCHANGED <<todo, pending, excused, Counters>>

(* The SRT is written in place. *)
OpenSrt ==
    /\ Open("export")
    /\ disk' = [disk EXCEPT !.srt = [ForExport(disk) EXCEPT !.text = Torn]]
    /\ Stay("srt")
    /\ UNCHANGED <<todo, pending, excused, Counters>>

WriteSrt ==
    /\ Stage("export", "srt")
    /\ disk' = [disk EXCEPT !.srt = ForExport(disk)]
    /\ Stay("final")
    /\ UNCHANGED <<todo, pending, excused, Counters>>

(* The runner's own gate after export; a single command has none.  What a  *)
(* whole forced run has passed, nothing from before it can trouble.        *)
FinalGate ==
    /\ Stage("export", "final")
    /\ IF Full(cmd) /\ GateFails(disk, TRUE, TRUE) THEN Fails("gate") ELSE Proceed
    /\ excused' = IF Full(cmd) /\ cmd.mode = "force" /\ ended' = "ok" THEN {} ELSE excused
    /\ UNCHANGED <<disk, todo, pending, Counters>>

(* The process is killed.  Where that leaves a mark which no resumed run   *)
(* removes, the mark is noted.                                             *)
Mark == CASE at = "clear" /\ todo \notin {<<>>, Cleared(Head(left))} -> {"half cleared"}
          [] Stage("correct", "report") \/ (Stage("correct", "wipe") /\ todo # <<>>) -> {"correct"}
          [] Stage("normalize", "stale srt") \/ Stage("normalize", "reverts") -> {"memory"}
          [] Stage("export", "srt") -> {"torn srt"}
          [] OTHER -> {}
Kill ==
    /\ left # <<>> /\ kills < MaxKills
    /\ kills' = kills + 1
    /\ Fails("killed")
    /\ todo' = <<>> /\ pending' = {}
    /\ excused' = excused \cup Mark
    /\ UNCHANGED <<disk, cmd, runs>>
-----------------------------------------------------------------------------
Next ==
    \/ \E c \in Commands : Begin(c)
    \/ Enter \/ Unlink
    \/ Transcribe \/ Transcribed
    \/ \E s \in Segs, row \in {runs, Failed, Silent} : TranscribeRow(s, row)
    \/ Align \/ Aligned
    \/ \E s \in Segs, ok \in BOOLEAN : AlignRow(s, ok)
    \/ SkipCorrect \/ ReportCorrection \/ CorrectionDone
    \/ \E changed \in SUBSET Segs : Correct(changed)
    \/ SkipSplit \/ Split
    \/ SkipTranslate \/ (\E full \in BOOLEAN : Translate(full))
    \/ Gate \/ (\E stage \in {"normalize", "export"} : Closed(stage))
    \/ SkipNormalize \/ Normalize \/ ApplyMemory \/ DropSrt \/ ReportMemory
    \/ OpenSrt \/ WriteSrt \/ FinalGate
    \/ Kill

Spec == Init /\ [][Next]_vars
-----------------------------------------------------------------------------
(* The texts a command that has exported has exported. *)
Exported == ended = "ok" /\ Full(cmd)

(* Nothing but the failure of a segment, a command that was told to redo   *)
(* single stages or leaves out an alignment that was broken off, and a     *)
(* kill at one of four places ever makes the quality gate stop a run of    *)
(* all stages: a workspace that was only killed, however often and         *)
(* wherever else, passes when it is resumed.                               *)
ResumePasses == ended = "gate" /\ Full(cmd) => excused # {}

(* And what such a workspace exports is the whole text of its transcripts, *)
(* in its latest form.                                                     *)
ExportIsWhole == Exported /\ excused = {} => disk.srt.text = disk.transcript
=============================================================================
