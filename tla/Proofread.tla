------------------------------- MODULE Proofread ------------------------------
(***************************************************************************)
(* MiMo's review of the translated subtitles and the re-alignment that     *)
(* follows: mimo_proofread.py with its checkpoint, output and candidate    *)
(* modules, quality_suspects.py, proofread_realign.py, and the checks of   *)
(* the final gate that judge them.                                         *)
(*                                                                         *)
(* The reviewer keeps four files beside the translation: the reviewed      *)
(* branch of the subtitles, a report of each stage and a summary.  They    *)
(* are written one after the other after every answer, read back by the    *)
(* next run, and removed only in part when an earlier stage is repeated.   *)
(* A run may be killed between any two writes.                             *)
(***************************************************************************)
EXTENDS SuggestionGuards, SuspectMarks, FiniteSets

CONSTANTS Ids,         \* subtitle ids, 1..n
          Segs,        \* audio segments
          SegOf,       \* [Ids -> Segs]: the segment a subtitle starts in
          BatchSize,   \* --nearby-batch-size
          MaxGap,      \* ids further apart do not share a request
          Markings,    \* what the translator may have noted of its lines
          Reviews,     \* inputs: [mode, scope, resume], the options of a review
          MaxCommands, MaxReviews, MaxKills  \* bounds: commands of all sorts, reviews among them, kills

ASSUME ProofreadAssumption ==
    /\ Ids \subseteq Nat \ {0} /\ Ids # {} /\ IsFiniteSet(Ids) /\ SegOf \in [Ids -> Segs]
    /\ "translation-manifest" \notin Segs /\ BatchSize \in Nat \ {0} /\ MaxGap \in Nat
    /\ Markings \subseteq [Ids -> [types : SUBSET SuspicionTypes, audio : BOOLEAN, realign : BOOLEAN]]
    /\ Reviews \subseteq [mode : {"segment-audio", "two-stage-nearby"}, scope : {"suspects", "all"},
                           resume : BOOLEAN]

VARIABLES tr,          \* translated_segments.json: its version, each line's marks, whether
                       \* it has keys for them (one of another writer has none), and how
                       \* many rows the last quality report put there
          disk,        \* the reviewer's files and the re-alignment's report
          run,         \* options of the run
          mem,         \* its copies of the files
          tasks,       \* requests whose answers it waits for
          at, then,    \* where it is, and where it goes after writing
          commands, kills,
          excused      \* what has happened for which the gate may pass in error

vars == <<tr, disk, run, mem, tasks, at, then, commands, kills, excused>>

IdsIn(seg) == {i \in Ids : SegOf[i] = seg}
Empty == {s \in Segs : IdsIn(s) = {}}
-----------------------------------------------------------------------------
(* (A confidence below the threshold makes a line a suspect that the gate  *)
(* does not count, as marks of some types do; it is left out.)             *)
Suspect(line) == (line.audio \/ NeedsAudio(line.types)) /\ ~OnlyLowYield(line.types)
Suspects == {i \in Ids : Suspect(tr.line[i])}

(* What the gate counts in the translation. *)
PendingAudio == {i \in Ids : tr.line[i].audio /\ ~OnlyLowYield(tr.line[i].types)}
-----------------------------------------------------------------------------
(* A subtitle of the branch.  "owes" says that the timing is of another    *)
(* text, "last" what the last answer changed in the text.                  *)
Fresh(i) == [version |-> tr.version, edited |-> FALSE, last |-> "none",
             owes |-> FALSE, disputed |-> FALSE, needs |-> tr.line[i].realign,
             status |-> IF tr.line[i].realign THEN "pending" ELSE "none", method |-> "none"]
NoBranch == [i \in Ids |-> [version |-> 0]]
Copy     == [i \in Ids |-> Fresh(i)]
Anew(branch) == Copy
Existing(branch) == IF branch = NoBranch THEN Copy ELSE branch

Updated(item, o) ==
    IF o.change = "none" THEN item
    ELSE IF o.change = "translation" THEN [item EXCEPT !.edited = TRUE]
    ELSE [item EXCEPT !.edited = TRUE, !.last = o.change,
                      !.owes = @ \/ o.change = "words",
                      !.disputed = @ \/ o.disputed,
                      !.needs = TRUE, !.status = "pending"]

(* Rows of a report, by segment or by subtitle, with the version they      *)
(* were made of.                                                           *)
NoRow == [status |-> "none", version |-> 0, suspects |-> {}, applied |-> FALSE]
Row(status, suspects, applied) ==
    [status |-> status, version |-> tr.version, suspects |-> suspects, applied |-> applied]
NoStage1 == [s \in Segs |-> NoRow]
NoStage2 == [i \in Ids |-> NoRow]
Manifest == "translation-manifest"            \* the row made from the marks
Done(rows) == {k \in DOMAIN rows : rows[k].status = "completed"}
FailedRows(rows) == {k \in DOMAIN rows : rows[k].status = "failed"}
CollectSuspects(stage1) == UNION {stage1[k].suspects : k \in Done(stage1)}

NoReport == [mode |-> "none"]
ListOf(rows) == [mode |-> "segment-audio", rows |-> rows]
Summary(stage1, stage2) ==
    [mode |-> "two-stage-nearby",
     failed |-> FailedRows(stage1) # {} \/ FailedRows(stage2) # {},
     candidates |-> Cardinality(CollectSuspects(stage1)),
     reviewed |-> Cardinality(Done(stage2))]

NoFiles == [branch |-> NoBranch, stage1 |-> NoStage1, stage2 |-> NoStage2,
            report |-> NoReport, realign |-> "none"]
NoRun   == [mode |-> "none", scope |-> "suspects", resume |-> TRUE, answered |-> FALSE]

Init == /\ \E m \in Markings, noted \in BOOLEAN :
              tr = [version |-> 1, line |-> m, noted |-> noted, reported |-> 0]
        /\ disk = NoFiles /\ run = NoRun /\ mem = NoFiles /\ tasks = {} /\ at = "idle" /\ then = "idle"
        /\ commands = [all |-> 0, reviews |-> 0] /\ kills = 0 /\ excused = {}
-----------------------------------------------------------------------------
MayRun  == at = "idle" /\ commands.all < MaxCommands
Command == MayRun /\ commands' = [commands EXCEPT !.all = @ + 1]

(* The stages before.  Translating again by force, or resetting a run to   *)
(* an earlier stage, removes the branch, the summary and the SRT.          *)
Retranslate(clear, marks) ==
    /\ Command
    /\ \E noted \in BOOLEAN :
          tr' = [version |-> tr.version + 1, line |-> marks, noted |-> noted, reported |-> tr.reported]
    /\ disk' = IF clear THEN [disk EXCEPT !.branch = NoBranch, !.report = NoReport] ELSE disk
    /\ excused' = excused \cup (IF ~clear THEN {"stale"}
                               ELSE IF Done(disk.stage2) # {} THEN {"forced"} ELSE {})
    /\ run' = [run EXCEPT !.answered = FALSE]
    /\ UNCHANGED <<mem, tasks, at, then, kills>>

(* A quality report's suspects are put into the translation; how a row of  *)
(* the report finds its line is QualitySuspects.                           *)
ApplySuspects(i, types) ==
    /\ Command /\ tr.line[i] # Merged(tr.line[i], types)
    /\ tr' = [tr EXCEPT !.line[i] = Merged(@, types), !.noted = TRUE, !.reported = 1]
    /\ excused' = excused \cup (IF Done(disk.stage2) # {} THEN {"stale"} ELSE {})
    /\ run' = [run EXCEPT !.answered = FALSE]
    /\ UNCHANGED <<disk, mem, tasks, at, then, kills>>
-----------------------------------------------------------------------------
Start(mode, scope, resume) ==
    /\ MayRun /\ commands.reviews < MaxReviews
    /\ commands' = [all |-> commands.all + 1, reviews |-> commands.reviews + 1]
    /\ run' = [mode |-> mode, scope |-> scope, resume |-> resume, answered |-> TRUE]
    /\ mem' = IF mode = "two-stage-nearby" /\ ~resume
              THEN [disk EXCEPT !.branch = Copy, !.stage1 = NoStage1, !.stage2 = NoStage2]
              ELSE [disk EXCEPT !.branch = Existing(@)]
    /\ at' = IF mode = "two-stage-nearby" THEN "stage1" ELSE "segments"
    /\ excused' = excused \cup (IF scope = "all" THEN {"all"} ELSE {})
    /\ UNCHANGED <<tr, disk, tasks, then, kills>>

(* The files are written in turn: branch, stage reports, summary.          *)
Save(where) == at' = "branch" /\ then' = where
WriteBranch ==
    /\ at = "branch" /\ at' = "reports"
    /\ disk' = [disk EXCEPT !.branch = mem.branch]
    /\ UNCHANGED <<tr, run, mem, tasks, then, commands, kills, excused>>
WriteReports ==
    /\ at = "reports" /\ at' = "summary"
    /\ disk' = IF run.mode = "segment-audio" THEN disk
               ELSE [disk EXCEPT !.stage1 = mem.stage1, !.stage2 = mem.stage2]
    /\ UNCHANGED <<tr, run, mem, tasks, then, commands, kills, excused>>
WriteSummary ==
    /\ at = "summary" /\ at' = then
    /\ disk' = [disk EXCEPT !.report = IF run.mode = "segment-audio" THEN mem.report
                                       ELSE Summary(mem.stage1, mem.stage2)]
    /\ UNCHANGED <<tr, run, mem, tasks, then, commands, kills, excused>>
Kept == UNCHANGED <<tr, disk, run, commands, kills, excused>>
-----------------------------------------------------------------------------
(* Segment by segment: a request for each that is not completed.           *)
Rows(report) == IF report.mode = "segment-audio" THEN report.rows ELSE NoStage1
Skips(rows, seg) == run.resume /\ seg \in Done(rows)
PlanSegments ==
    LET rows == Rows(mem.report)
        new  == {s \in Segs : ~Skips(rows, s)}
    IN  /\ at = "segments"
        /\ mem' = [mem EXCEPT !.report = ListOf([s \in Segs |->
                       IF s \notin new THEN rows[s]
                       ELSE IF s \in Empty THEN Row("skipped", {}, FALSE) ELSE NoRow])]
        /\ tasks' = {IdsIn(s) : s \in new \ Empty}
        /\ IF new \cap Empty # {} THEN Save("segment") ELSE at' = "segment" /\ UNCHANGED then
        /\ Kept

SegmentAnswer(ids, ok, changed) ==
    LET seg == SegOf[CHOOSE i \in ids : TRUE] IN
    /\ at = "segment" /\ ids \in tasks /\ tasks' = tasks \ {ids}
    /\ mem' = [mem EXCEPT
           !.report.rows[seg] = Row(IF ok THEN "completed" ELSE "failed", {}, FALSE),
           !.branch = [i \in Ids |-> IF ok /\ i \in changed
                       THEN Updated(@[i], [change |-> "translation"]) ELSE @[i]]]
    /\ Save("segment") /\ Kept
-----------------------------------------------------------------------------
(* Two stages: suspects are taken from the marks where the translation has *)
(* such keys, or asked of the text model, segment by segment.              *)
HasMarks == tr.noted \/ \E i \in Ids : tr.line[i].types # {} \/ tr.line[i].audio
Stage1FromMarks ==
    /\ at = "stage1" /\ HasMarks
    /\ mem' = [mem EXCEPT !.stage1 = [k \in {Manifest} |-> Row("completed", Suspects, FALSE)]]
    /\ Save("plan") /\ UNCHANGED tasks /\ Kept

With(rows, k, row) == [x \in DOMAIN rows \cup {k} |-> IF x = k THEN row ELSE rows[x]]
PlanStage1 ==
    LET new     == {s \in Segs : ~(run.resume /\ s \in Done(mem.stage1))}
        skipped == new \cap Empty
    IN  /\ at = "stage1" /\ ~HasMarks
        /\ mem' = [mem EXCEPT !.stage1 = [k \in DOMAIN @ \cup skipped |->
                       IF k \in skipped THEN Row("skipped", {}, FALSE) ELSE @[k]]]
        /\ tasks' = {IdsIn(s) : s \in new \ Empty}
        /\ IF skipped # {} THEN Save("text") ELSE at' = "text" /\ UNCHANGED then
        /\ Kept

Stage1Answer(ids, ok, suspects) ==
    /\ at = "text" /\ ids \in tasks /\ suspects \subseteq ids
    /\ tasks' = tasks \ {ids}
    /\ mem' = [mem EXCEPT !.stage1 = With(@, SegOf[CHOOSE i \in ids : TRUE],
                   IF ok THEN Row("completed", suspects, FALSE) ELSE Row("failed", {}, FALSE))]
    /\ Save("text") /\ Kept

(* Subtitles that are to be heard, near ones of a segment in one request:  *)
(* those of a segment are taken in order, and a request is closed when the *)
(* next one is far away or the request is full.  A run is what no gap      *)
(* divides; its requests are its pieces of BatchSize.                      *)
Followed(ids, k) == \E l \in ids : SegOf[l] = SegOf[k] /\ k < l /\ l <= k + MaxGap
SameRun(ids, i, j) ==
    /\ SegOf[i] = SegOf[j]
    /\ \A k \in ids : /\ SegOf[k] = SegOf[i]
                      /\ k \in i .. j - 1 \/ k \in j .. i - 1
                      => Followed(ids, k)
Place(ids, i) == Cardinality({k \in ids : k < i /\ SameRun(ids, k, i)})
SameBatch(ids, i, j) == /\ SameRun(ids, i, j)
                        /\ Place(ids, i) \div BatchSize = Place(ids, j) \div BatchSize
Batches(ids) == {{j \in ids : SameBatch(ids, i, j)} : i \in ids}
Unreviewed(ids, stage2) == {i \in ids : ~(run.resume /\ i \in Done(stage2))}
PlanReview ==
    LET ids == IF run.scope = "all" THEN Ids ELSE CollectSuspects(mem.stage1) IN
    /\ at = "plan"
    /\ tasks' = Batches(Unreviewed(ids, mem.stage2))
    /\ at' = "audio" /\ UNCHANGED <<mem, then>> /\ Kept

(* An answer, or an error, about a batch: after an error each subtitle is  *)
(* asked about by itself, so that any of them may fail.                    *)
FailedReview == [change |-> "failed"]
ReviewRow(o) == IF o = FailedReview THEN Row("failed", {}, FALSE)
                ELSE Row("completed", {}, o.change # "none")
AudioAnswer(ids, result) ==
    /\ at = "audio" /\ ids \in tasks /\ tasks' = tasks \ {ids}
    /\ mem' = [mem EXCEPT
           !.stage2 = [i \in Ids |-> IF i \in ids THEN ReviewRow(result[i]) ELSE @[i]],
           !.branch = [i \in Ids |-> IF i \in ids /\ result[i] # FailedReview
                                     THEN Updated(@[i], result[i]) ELSE @[i]]]
    /\ Save("audio") /\ Kept

Finish ==
    /\ tasks = {}
    /\ CASE at = "text"  -> at' = "plan" /\ UNCHANGED then
         [] at = "audio" -> Save("end")
         [] OTHER -> FALSE
    /\ UNCHANGED <<mem, tasks>> /\ Kept
End ==
    /\ tasks = {} /\ at \in {"segment", "end"}
    /\ at' = "idle" /\ then' = "idle" /\ mem' = NoFiles
    /\ run' = [NoRun EXCEPT !.answered = run.mode = "two-stage-nearby" /\ run.answered]
    /\ excused' = excused \ (IF at = "end" THEN {"partial"} ELSE {})
    /\ UNCHANGED <<tr, disk, tasks, commands, kills>>
-----------------------------------------------------------------------------
(* Re-alignment of what was changed: flags of changes that touch the marks *)
(* only are cleared, every other line is aligned, keeps its timing with a  *)
(* warning, or fails; all are written at once, the report afterwards.      *)
ClearedAny(item) ==
    IF item.needs
    THEN [item EXCEPT !.needs = FALSE, !.status = "completed", !.method = "punctuation-only"]
    ELSE item
ClearedFlag(item) ==
    IF item.needs /\ item.last = "marks"
    THEN [item EXCEPT !.needs = FALSE, !.status = "completed", !.method = "punctuation-only"]
    ELSE item
NeedsRealign(item, retry) ==
    \/ item.needs /\ item.status # "completed"
    \/ retry /\ item.status = "completed" /\ item.method = "original-timing"
Realigned(item, how) ==
    CASE how = "aligned"  -> [item EXCEPT !.needs = FALSE, !.status = "completed",
                                          !.owes = FALSE, !.method = "aligned"]
      [] how = "fallback" -> [item EXCEPT !.needs = FALSE, !.status = "completed",
                                          !.method = "original-timing"]
      [] how = "failed"   -> [item EXCEPT !.status = "failed"]

(* In the order of the ids, no more than --proofread-realign-max-items.    *)
IsNextOf(pending, S) == /\ S \subseteq pending /\ (S = {} => pending = {})
                        /\ \A i \in S, j \in pending \ S : i < j
Realign(retry, how) ==
    LET cleared == [i \in Ids |-> ClearedFlag(disk.branch[i])]
        taken   == DOMAIN how
    IN  /\ Command /\ disk.branch # NoBranch
        /\ IsNextOf({i \in Ids : NeedsRealign(cleared[i], retry)}, taken)
        /\ how \in [taken -> {"aligned", "fallback", "failed"}]
        /\ disk' = [disk EXCEPT !.branch = [i \in Ids |->
                        IF i \in taken THEN Realigned(cleared[i], how[i]) ELSE cleared[i]]]
        /\ at' = "realigned"
        /\ then' = IF \E i \in taken : how[i] = "failed" THEN "FAIL"
                   ELSE IF \E i \in taken : how[i] = "fallback" THEN "WARN" ELSE "PASS"
        /\ UNCHANGED <<tr, run, mem, tasks, kills, excused>>
(* The recording is not there: nothing is written but the report.          *)
RealignWithoutAudio(retry) ==
    /\ Command /\ disk.branch # NoBranch
    /\ \E i \in Ids : NeedsRealign(ClearedFlag(disk.branch[i]), retry)
    /\ at' = "realigned" /\ then' = "FAIL"
    /\ UNCHANGED <<tr, disk, run, mem, tasks, kills, excused>>
RealignReport ==
    /\ at = "realigned" /\ at' = "idle" /\ then' = "idle"
    /\ disk' = [disk EXCEPT !.realign = then]
    /\ UNCHANGED <<tr, run, mem, tasks, commands, kills, excused>>

(* Killed: between the branch and the reports, or the reports and the      *)
(* summary, of a run that started afresh beside older ones; or with        *)
(* reports of the text stage that the summary does not count yet.          *)
Kill ==
    /\ at # "idle" /\ kills < MaxKills
    /\ kills' = kills + 1 /\ at' = "idle" /\ then' = "idle" /\ tasks' = {}
    /\ excused' = excused \cup
           (IF /\ run.mode = "two-stage-nearby" /\ ~run.resume
               /\ \/ at = "reports" /\ Done(disk.stage2) # {}
                  \/ at = "summary" /\ disk.report # NoReport
            THEN {"restart"} ELSE {}) \cup
           (IF at = "summary" /\ ~HasMarks THEN {"partial"} ELSE {})
    /\ run' = NoRun /\ mem' = NoFiles
    /\ UNCHANGED <<tr, disk, commands>>

Next ==
    \/ \E c \in BOOLEAN, m \in Markings : Retranslate(c, m)
    \/ \E i \in Ids, t \in {{Heard}, {Low, Shifted}} : ApplySuspects(i, t)
    \/ \E r \in Reviews : Start(r.mode, r.scope, r.resume)
    \/ WriteBranch \/ WriteReports \/ WriteSummary
    \/ PlanSegments
    \/ \E ids \in tasks, ok \in BOOLEAN : \E c \in SUBSET ids : SegmentAnswer(ids, ok, c)
    \/ Stage1FromMarks \/ PlanStage1
    \/ \E ids \in tasks, ok \in BOOLEAN : \E s \in SUBSET ids : Stage1Answer(ids, ok, s)
    \/ PlanReview
    \/ \E ids \in tasks : \E r \in [ids -> Outcomes \cup {FailedReview}] : AudioAnswer(ids, r)
    \/ Finish \/ End
    \/ \E r \in BOOLEAN, how \in UNION {[p -> {"aligned", "fallback", "failed"}] :
                                        p \in SUBSET Ids} : Realign(r, how)
    \/ \E r \in BOOLEAN : RealignWithoutAudio(r)
    \/ RealignReport \/ Kill

Spec == Init /\ [][Next]_vars
-----------------------------------------------------------------------------
(* The lines that were put to review by the marks, or else by the last     *)
(* quality report.                                                         *)
Expected == IF PendingAudio # {} THEN Cardinality(PendingAudio) ELSE tr.reported

(* When the stage counts as complete, and what its check in the gate lets  *)
(* pass (without a report, a translation that has no marks).               *)
RowsCompleted(report) ==
    /\ \E s \in Segs : report.rows[s] # NoRow
    /\ \A s \in Segs : report.rows[s].status \in {"completed", "none"}
MimoComplete(d) ==
    /\ d.branch # NoBranch
    /\ CASE d.report.mode = "segment-audio" -> RowsCompleted(d.report)
         [] d.report.mode = "two-stage-nearby" ->
              ~d.report.failed /\ d.report.reviewed >= d.report.candidates
         [] OTHER -> FALSE
CheckpointPassesUncounted(d) == MimoComplete(d)
CheckpointPasses(d) ==
    CASE d.report.mode = "two-stage-nearby" ->
           /\ ~d.report.failed /\ d.report.candidates >= Expected
           /\ d.report.candidates <= IF Done(d.stage2) # {} THEN Cardinality(Done(d.stage2))
                                     ELSE d.report.reviewed
      [] d.report.mode = "segment-audio" -> RowsCompleted(d.report)
      [] OTHER -> PendingAudio = {}
RealignPasses(d) ==
    /\ \A i \in Ids : ~(d.branch[i].needs /\ d.branch[i].status # "completed")
    /\ \A i \in Ids : d.branch[i].status # "failed"
    /\ d.realign # "FAIL"
-----------------------------------------------------------------------------
(* When the gate lets a two-stage review pass, every line that was marked  *)
(* or that the text model suspected has been listened to.  Not so (README, *)
(* divergences) once the lines changed after a review was recorded, or     *)
(* when lines that nobody suspected were reviewed too: the gate counts.    *)
PassedIsReviewed ==
    /\ at = "idle" /\ CheckpointPasses(disk) /\ disk.report.mode = "two-stage-nearby"
    /\ excused = {}
    => \A i \in PendingAudio \cup CollectSuspects(disk.stage1) :
           disk.stage2[i].status = "completed" /\ disk.stage2[i].version = tr.version

(* A change that the report of a completed review says was applied is in   *)
(* the branch: a kill between the writes may lose a report, not a change.  *)
AppliedIsKept ==
    at = "idle" /\ disk.branch # NoBranch /\ excused \cap {"stale", "forced", "restart"} = {}
    => \A i \in Ids : disk.stage2[i].applied => disk.branch[i].edited

(* The gate asks of a review no more than its run can give: when every     *)
(* request of a run was answered, its checkpoint passes.  Not so when all  *)
(* that a quality report marked is to be aligned again and not listened    *)
(* to, or a failed row of a line that is no longer suspected remains.      *)
AnsweredPasses ==
    /\ at = "idle" /\ run.answered
    /\ FailedRows(disk.stage2) = {} /\ FailedRows(disk.stage1) = {}
    /\ PendingAudio # {} \/ tr.reported = 0
    => CheckpointPasses(disk)

(* What the guards of the stage let through, the guard of the gate accepts *)
(* too, but for a fall among the highest scores and for content lost with  *)
(* an unimproved score.                                                    *)
AppliedIsAccepted ==
    disk.branch # NoBranch => \A i \in Ids : ~disk.branch[i].disputed

(* The gate judges a review as it was: no more and no less than its run    *)
(* could give lets it pass, and it does not refuse for ever what the       *)
(* guards of the stage allowed.                                            *)
GateJudgesReview == PassedIsReviewed /\ AnsweredPasses /\ AppliedIsAccepted

(* A line whose words were changed is not left with the timing of the old  *)
(* ones unless it was kept on purpose.  Not so when the last change to it   *)
(* was of its marks only (README, divergences): that clears it.            *)
ChangedIsRealigned ==
    at = "idle" /\ disk.branch # NoBranch /\ RealignPasses(disk) =>
        \A i \in Ids : disk.branch[i].owes =>
            disk.branch[i].method = "original-timing" \/ disk.branch[i].last = "marks"
=============================================================================
