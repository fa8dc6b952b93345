---------------------------- MODULE ProofreadProofs ---------------------------
(***************************************************************************)
(* Theorems about Proofread for every set of lines and segments, every     *)
(* size of request, and any number of commands, reviews and kills.         *)
(*                                                                         *)
(* What the gate counts is only as good as the files it counts in, and     *)
(* those are written one after another.  The invariant has a part for      *)
(* each: the place of a run and what it has written by then, the requests  *)
(* it still waits for (BatchesDivide: they are disjoint, so that an answer *)
(* does not overwrite another), which changes the rows claim and which     *)
(* lines have them, which suspects the rows are of, and how far a summary  *)
(* may lag behind the rows it counts; a second invariant says that what    *)
(* is put to review is counted before it is.  The last two parts are about *)
(* Realign, for every manifest and whatever the aligners answer, and about *)
(* QualitySuspects, for every set of lines and every report.               *)
(***************************************************************************)
EXTENDS MCProofread, FiniteSetTheorems, WellFoundedInduction, TLAPS

(* The steps of a run: one that is writing will go on with "then". *)
Saving   == at \in {"branch", "reports", "summary"}
Phase    == IF Saving THEN then ELSE at
Running  == at \notin {"idle", "realigned"}
BySegment == Phase \in {"segments", "segment"}
Restarted == Running /\ ~BySegment /\ ~run.resume     \* nothing was loaded

RowSet == [status : {"none", "completed", "failed", "skipped"}, version : Nat,
           suspects : SUBSET Ids, applied : BOOLEAN]
ItemSet == [version : Nat \ {0}, edited : BOOLEAN, last : {"none", "marks", "words"},
            owes : BOOLEAN, disputed : {FALSE}, needs : BOOLEAN,
            status : {"none", "pending", "completed", "failed"},
            method : {"none", "punctuation-only", "aligned", "original-timing"}]

(* A line whose timing is of other words waits for its alignment, was left *)
(* as it is on purpose, or had only its marks changed last.                *)
ItemOK(item) ==
    /\ item \in ItemSet
    /\ item.needs => item.status \in {"pending", "failed"}
    /\ item.owes => item.needs \/ item.method = "original-timing" \/ item.last = "marks"
    /\ item.owes => item.last # "none"
BranchOK(branch) == /\ branch \in [Ids -> ItemSet]
                    /\ \A i \in Ids : ItemOK(branch[i])
RowsOK(rows) == \A i \in Ids : rows[i].applied => rows[i].status = "completed"

ReportOK(report) ==
    \/ report = NoReport
    \/ /\ report.mode = "segment-audio"
       /\ report = [mode |-> "segment-audio", rows |-> report.rows]
    \/ /\ report.mode = "two-stage-nearby"
       /\ report = [mode |-> "two-stage-nearby", failed |-> report.failed,
                    candidates |-> report.candidates, reviewed |-> report.reviewed]
       /\ report.candidates \in Nat /\ report.reviewed \in Nat
FilesOK(files) ==
    /\ files = [branch |-> files.branch, stage1 |-> files.stage1, stage2 |-> files.stage2,
                report |-> files.report, realign |-> files.realign]
    /\ files.stage1 \in [DOMAIN files.stage1 -> RowSet] /\ files.stage2 \in [Ids -> RowSet]
    /\ RowsOK(files.stage2) /\ ReportOK(files.report)
TypesInv ==
    /\ tr \in [version : Nat \ {0}, noted : BOOLEAN, reported : {0, 1},
               line : [Ids -> [types : SUBSET SuspicionTypes, audio : BOOLEAN, realign : BOOLEAN]]]
    /\ FilesOK(disk) /\ FilesOK(mem)
    /\ disk.branch = NoBranch \/ BranchOK(disk.branch)
    /\ Running => BranchOK(mem.branch)
    /\ run \in [mode : {"none", "segment-audio", "two-stage-nearby"}, scope : {"suspects", "all"},
                resume : BOOLEAN, answered : BOOLEAN]

(* Where a run is. *)
PlaceInv ==
    /\ at \in {"idle", "realigned", "segments", "segment", "stage1", "text", "plan", "audio",
               "end", "branch", "reports", "summary"}
    /\ Saving => then \in {"segment", "text", "plan", "audio", "end"}
    /\ Running => /\ run.mode = IF BySegment THEN "segment-audio" ELSE "two-stage-nearby"
                  /\ run.scope = "all" => "all" \in excused
    /\ Phase = "segment" => mem.report.mode = "segment-audio"
    /\ Phase = "text" => ~HasMarks

(* What has been written is as in memory. *)
WrittenInv ==
    /\ at \in {"reports", "summary", "end"} => disk.branch = mem.branch
    /\ at \in {"summary", "end"} /\ ~BySegment =>
         disk.stage1 = mem.stage1 /\ disk.stage2 = mem.stage2
    /\ at = "end" => disk.report = Summary(disk.stage1, disk.stage2)

(* The requests of a stage are about disjoint sets of lines that have no   *)
(* completed row, and an audio request is about lines of the review.       *)
TasksInv ==
    /\ Phase \in {"text", "segment"} => \A ids \in tasks : \E s \in Segs \ Empty : ids = IdsIn(s)
    /\ Phase = "text" /\ run.resume =>
         \A s \in Segs \ Empty : IdsIn(s) \in tasks => s \notin Done(mem.stage1)
    /\ Phase = "audio" =>
         /\ \A ids \in tasks : ids \subseteq Ids
         /\ \A a, b \in tasks : a = b \/ a \cap b = {}
         /\ run.resume => \A ids \in tasks : ids \cap Done(mem.stage2) = {}
         /\ "all" \notin excused => \A ids \in tasks : ids \subseteq CollectSuspects(mem.stage1)
         /\ CollectSuspects(mem.stage1) \subseteq
              (UNION tasks) \cup Done(mem.stage2) \cup FailedRows(mem.stage2)
    /\ Phase = "end" =>
         /\ tasks = {}
         /\ CollectSuspects(mem.stage1) \subseteq Done(mem.stage2) \cup FailedRows(mem.stage2)

(* Changes and the rows that report them. *)
NoLoss == excused \cap {"stale", "forced", "restart"} = {}
Kept2(stage2, branch) == \A i \in Ids : stage2[i].applied => branch[i].edited
KeptOrNone(stage2, branch) == IF branch = NoBranch THEN Done(stage2) = {}
                              ELSE Kept2(stage2, branch)
KeptInv ==
    /\ NoLoss /\ Running => Kept2(mem.stage2, mem.branch)
    /\ NoLoss /\ Running /\ ~Restarted => Kept2(disk.stage2, mem.branch)
    /\ NoLoss /\ ~(at = "reports" /\ Restarted) => KeptOrNone(disk.stage2, disk.branch)

(* Reviews and suspects. *)
NoStale == NoLoss /\ "all" \notin excused
Suspected(stage1) == HasMarks => CollectSuspects(stage1) = Suspects
OfSuspects(stage1, stage2) ==
    Done(stage2) # {} =>
        /\ Done(stage2) \subseteq CollectSuspects(stage1)
        /\ Suspected(stage1)
        /\ \A i \in Done(stage2) : stage2[i].version = tr.version
SuspectsInv ==
    /\ NoStale => OfSuspects(disk.stage1, disk.stage2)
    /\ NoStale /\ Running => OfSuspects(mem.stage1, mem.stage2)
    /\ Restarted /\ Phase \in {"stage1", "text"} => Done(mem.stage2) = {}
    /\ Phase \in {"plan", "audio", "end"} => Suspected(mem.stage1)
    /\ Running /\ BySegment => mem.stage1 = disk.stage1 /\ mem.stage2 = disk.stage2
    /\ Running /\ ~Restarted => Done(disk.stage2) \subseteq Done(mem.stage2)

(* The summary and the rows it counts. *)
TwoStage == disk.report.mode = "two-stage-nearby"
Between == at = "summary" /\ Restarted
SummaryInv ==
    /\ NoStale /\ TwoStage /\ ~Between =>
         disk.report.reviewed <= Cardinality(Done(disk.stage2))
    /\ NoStale /\ TwoStage /\ ("partial" \notin excused \/ at = "end")
       /\ ~Between /\ ~(at = "summary" /\ ~HasMarks) =>
         \/ /\ disk.report.candidates = Cardinality(CollectSuspects(disk.stage1))
            /\ Suspected(disk.stage1)
         \/ disk.report.reviewed = 0 /\ tr.reported = 1
AnsweredInv ==
    ~Running /\ run.answered =>
        /\ disk.branch # NoBranch
        /\ disk.report = Summary(disk.stage1, disk.stage2)
        /\ CollectSuspects(disk.stage1) \subseteq Done(disk.stage2) \cup FailedRows(disk.stage2)
        /\ Suspected(disk.stage1)

IInv == /\ TypesInv /\ PlaceInv /\ WrittenInv /\ TasksInv
        /\ KeptInv /\ SuspectsInv /\ SummaryInv /\ AnsweredInv

(* What is put to review is counted before any of it is: a summary beside  *)
(* completed rows counts the suspects they are of.                         *)
NotYetHeard == Phase \in {"stage1", "text", "plan"} => Done(mem.stage2) \subseteq Done(disk.stage2)
CountedFirst ==
    HasMarks /\ (at \in {"plan", "audio"} \/ (Saving /\ then \in {"audio", "end"})) =>
        TwoStage /\ disk.report.candidates = Cardinality(CollectSuspects(mem.stage1))
SummaryCounts ==
    /\ NoStale /\ TwoStage /\ ("partial" \notin excused \/ at = "end")
    /\ ~Between /\ ~(at = "summary" /\ ~HasMarks) /\ Done(disk.stage2) # {}
    => /\ disk.report.candidates = Cardinality(CollectSuspects(disk.stage1))
       /\ Suspected(disk.stage1)
CountedInv == NotYetHeard /\ CountedFirst /\ SummaryCounts
-----------------------------------------------------------------------------
(* Of what the guards let change an original, the gate refuses only the    *)
(* two sorts it is known to.                                               *)
LEMMA OutcomesAreUndisputed ==
    ASSUME NEW o \in Outcomes
    PROVE  /\ o = [change |-> o.change, disputed |-> FALSE]
           /\ o.change \in {"none", "translation", "marks", "words"}
<1>1. PICK s \in Suggestions : o = Outcome(s)
  BY DEF Outcomes
<1>2. CASE ~ChangesTranslation(s)
  BY <1>1, <1>2 DEF Outcome
<1>3. CASE ChangesTranslation(s) /\ ~ChangesOriginal(s)
  BY <1>1, <1>3 DEF Outcome
<1>4. CASE ChangesTranslation(s) /\ ChangesOriginal(s)
  <2>1. Accepted(s) /\ s.orig # "none"
    BY <1>4 DEF ChangesTranslation, ChangesOriginal
  <2>2. s.orig \in OrigKinds /\ (s.ass = NoAss \/ s.ass \in [cur : Scores, sug : Scores])
    BY DEF Suggestions
  <2>3. PostGuardRefuses(s) => KnownDispute(s)
    <3>1. CASE s.ass = NoAss
      BY <2>1, <2>2, <3>1 DEF PostGuardRefuses, Accepted, AssGuard, DeletionGuard, WithoutAss,
           AssReason, Regresses
    <3>2. CASE s.ass # NoAss
      <4>1. s.ass.cur \in Int /\ s.ass.sug \in Int
        BY <2>2, <3>2 DEF Scores
      <4>2. AssGuard(s)
        BY <2>1 DEF Accepted
      <4>3. ~FragmentRefused(s) /\ AssReason(s) = AssAccepts(s)
        BY <2>1, <3>2, <4>2 DEF AssGuard, AssReason
      <4>4. AssAccepts(s) # "ass-score-not-improved"
        BY <4>2, <4>3 DEF AssGuard
      <4>5. CASE s.ass.sug < s.ass.cur
        <5>1. s.ass.sug >= 95
          BY <4>1, <4>4, <4>5 DEF AssAccepts
        <5> QED BY <4>5, <5>1 DEF KnownDispute
      <4>6. CASE ~(s.ass.sug < s.ass.cur)
        <5>1. HAVE PostGuardRefuses(s)
        <5>2. Regresses(s) /\ AssReason(s) \notin {"ass-improved", "ass-high-score"}
          BY <4>2, <4>6, <5>1 DEF PostGuardRefuses
        <5>3. AssReason(s) = "ass-no-regression"
          BY <4>3, <4>4, <5>2 DEF AssAccepts
        <5> QED BY <5>2, <5>3 DEF KnownDispute
      <4> QED BY <4>5, <4>6
    <3> QED BY <3>1, <3>2
  <2>4. o.disputed = FALSE
    BY <1>1, <1>4, <2>3 DEF Outcome
  <2> QED BY <1>1, <1>4, <2>4 DEF Outcome
<1> QED BY <1>2, <1>3, <1>4

(* An answer changes a line so that it stays well formed, and marks what   *)
(* it has changed.                                                         *)
LEMMA UpdatedIsOK ==
    ASSUME NEW item, NEW o, ItemOK(item),
           o.change \in {"none", "translation", "marks", "words"},
           o.change \in {"marks", "words"} => o.disputed = FALSE
    PROVE  /\ ItemOK(Updated(item, o))
           /\ item.edited => Updated(item, o).edited
           /\ o.change # "none" => Updated(item, o).edited
<1> DEFINE new == Updated(item, o)
<1>0. item \in ItemSet
  BY DEF ItemOK
<1>1. CASE o.change = "none"
  BY <1>1 DEF Updated
<1>2. CASE o.change = "translation"
  <2>1. new = [item EXCEPT !.edited = TRUE]
    BY <1>2 DEF Updated
  <2>2. new \in ItemSet /\ new.edited
    BY <1>0, <2>1 DEF ItemSet
  <2>3. /\ new.needs = item.needs /\ new.status = item.status /\ new.owes = item.owes
        /\ new.method = item.method /\ new.last = item.last
    BY <1>0, <2>1 DEF ItemSet
  <2> HIDE DEF new
  <2>4. ItemOK(new)
    BY <2>2, <2>3 DEF ItemOK
  <2> QED BY <2>2, <2>4 DEF new
<1>3. CASE o.change \in {"marks", "words"}
  <2>1. new = [item EXCEPT !.edited = TRUE, !.last = o.change,
                      !.owes = @ \/ o.change = "words",
                      !.disputed = @ \/ o.disputed,
                      !.needs = TRUE, !.status = "pending"]
    BY <1>3 DEF Updated
  <2>2. /\ new.edited = TRUE /\ new.last = o.change /\ new.needs = TRUE /\ new.status = "pending"
        /\ new.owes = (item.owes \/ o.change = "words")
        /\ new.method = item.method /\ new.version = item.version
    BY <1>0, <2>1 DEF ItemSet
  <2>3. new.disputed = FALSE
    BY <1>0, <1>3, <2>1 DEF ItemSet
  <2>4. new \in ItemSet
    BY <1>0, <1>3, <2>1, <2>2, <2>3 DEF ItemSet
  <2> HIDE DEF new
  <2>5. item.owes => item.last # "none"
    BY DEF ItemOK
  <2>6. ItemOK(new)
    BY <1>3, <2>2, <2>4, <2>5 DEF ItemOK
  <2> QED BY <2>2, <2>6 DEF new
<1> QED BY <1>1, <1>2, <1>3

LEMMA ClearedIsOK ==
    ASSUME NEW item, ItemOK(item)
    PROVE  ItemOK(ClearedFlag(item)) /\ ClearedFlag(item).edited = item.edited
<1>0. item \in ItemSet
  BY DEF ItemOK
<1>1. CASE item.needs /\ item.last = "marks"
  <2> DEFINE new == [item EXCEPT !.needs = FALSE, !.status = "completed", !.method = "punctuation-only"]
  <2>1. new \in ItemSet /\ new.needs = FALSE /\ new.owes = item.owes
        /\ new.last = item.last /\ new.edited = item.edited
    BY <1>0 DEF ItemSet
  <2> HIDE DEF new
  <2>2. ItemOK(new)
    BY <1>1, <2>1 DEF ItemOK
  <2> QED BY <1>1, <2>1, <2>2 DEF ClearedFlag, new
<1>2. CASE ~(item.needs /\ item.last = "marks")
  BY <1>2 DEF ClearedFlag
<1> QED BY <1>1, <1>2

LEMMA RealignedIsOK ==
    ASSUME NEW item, ItemOK(item), NEW how \in {"aligned", "fallback", "failed"}
    PROVE  ItemOK(Realigned(item, how)) /\ Realigned(item, how).edited = item.edited
<1>0. item \in ItemSet
  BY DEF ItemOK
<1> DEFINE new == Realigned(item, how)
<1>1. CASE how = "aligned"
  <2>1. new = [item EXCEPT !.needs = FALSE, !.status = "completed",
                           !.owes = FALSE, !.method = "aligned"]
    BY <1>1 DEF Realigned
  <2>2. new \in ItemSet /\ new.needs = FALSE /\ new.owes = FALSE /\ new.edited = item.edited
    BY <1>0, <2>1 DEF ItemSet
  <2> HIDE DEF new
  <2> QED BY <2>2 DEF ItemOK, new
<1>2. CASE how = "fallback"
  <2>1. new = [item EXCEPT !.needs = FALSE, !.status = "completed", !.method = "original-timing"]
    BY <1>2 DEF Realigned
  <2>2. new \in ItemSet /\ new.needs = FALSE /\ new.method = "original-timing"
        /\ new.owes = item.owes /\ new.last = item.last
        /\ new.edited = item.edited
    BY <1>0, <2>1 DEF ItemSet
  <2> HIDE DEF new
  <2>3. ItemOK(new)
    BY <2>2 DEF ItemOK
  <2> QED BY <2>2, <2>3 DEF new
<1>3. CASE how = "failed"
  <2>1. new = [item EXCEPT !.status = "failed"]
    BY <1>3 DEF Realigned
  <2>2. new \in ItemSet /\ new.needs = item.needs /\ new.method = item.method
        /\ new.owes = item.owes /\ new.last = item.last
        /\ new.edited = item.edited /\ new.status = "failed"
    BY <1>0, <2>1 DEF ItemSet
  <2> HIDE DEF new
  <2>3. ItemOK(new)
    BY <2>2 DEF ItemOK
  <2> QED BY <2>2, <2>3 DEF new
<1> QED BY <1>1, <1>2, <1>3

(* Requests divide the lines that are put to review. *)
LEMMA RunsAreClasses ==
    ASSUME NEW ids, ids \subseteq Ids, NEW i \in ids, NEW j \in ids, NEW k \in ids
    PROVE  /\ SameRun(ids, i, i)
           /\ SameRun(ids, i, j) => SameRun(ids, j, i)
           /\ SameRun(ids, i, j) /\ SameRun(ids, j, k) => SameRun(ids, i, k)
<1> USE ProofreadAssumption DEF SameRun
<1>1. i \in Int /\ j \in Int /\ k \in Int /\ \A m \in ids : m \in Int
  OBVIOUS
<1> HIDE ProofreadAssumption
<1>2. SameRun(ids, i, i)
  BY <1>1
<1>3. SameRun(ids, i, j) => SameRun(ids, j, i)
  BY <1>1
<1>4. SameRun(ids, i, j) /\ SameRun(ids, j, k) => SameRun(ids, i, k)
  <2>1. HAVE SameRun(ids, i, j) /\ SameRun(ids, j, k)
  <2>2. SegOf[i] = SegOf[k] /\ SegOf[j] = SegOf[i]
    BY <2>1
  <2>3. ASSUME NEW m \in ids, SegOf[m] = SegOf[i], m \in i .. k - 1 \/ m \in k .. i - 1
        PROVE  Followed(ids, m)
    <3>1. m \in i .. j - 1 \/ m \in j .. i - 1 \/ m \in j .. k - 1 \/ m \in k .. j - 1
      BY <1>1, <2>3
    <3> QED BY <2>1, <2>2, <2>3, <3>1
  <2> QED BY <2>2, <2>3
<1> QED BY <1>2, <1>3, <1>4

LEMMA BatchesDivide ==
    ASSUME NEW ids, ids \subseteq Ids
    PROVE  /\ UNION Batches(ids) = ids
           /\ \A a \in Batches(ids) : a \subseteq ids
           /\ \A a, b \in Batches(ids) : a = b \/ a \cap b = {}
<1>1. ASSUME NEW i \in ids, NEW j \in ids, NEW k \in ids
      PROVE  /\ SameBatch(ids, i, i)
             /\ SameBatch(ids, i, j) => SameBatch(ids, j, i)
             /\ SameBatch(ids, i, j) /\ SameBatch(ids, j, k) => SameBatch(ids, i, k)
  BY RunsAreClasses DEF SameBatch
<1>2. \A a \in Batches(ids) : a \subseteq ids
  BY DEF Batches
<1>3. ids \subseteq UNION Batches(ids)
  <2>1. ASSUME NEW i \in ids PROVE i \in {j \in ids : SameBatch(ids, i, j)}
    BY <1>1
  <2> QED BY <2>1 DEF Batches
<1>4. ASSUME NEW a \in Batches(ids), NEW b \in Batches(ids), a \cap b # {}
      PROVE  a = b
  <2>1. PICK i \in ids : a = {j \in ids : SameBatch(ids, i, j)}
    BY DEF Batches
  <2>2. PICK k \in ids : b = {j \in ids : SameBatch(ids, k, j)}
    BY DEF Batches
  <2>3. PICK m \in ids : SameBatch(ids, i, m) /\ SameBatch(ids, k, m)
    BY <1>4, <2>1, <2>2
  <2>4. SameBatch(ids, i, k) /\ SameBatch(ids, k, i)
    BY <1>1, <2>3
  <2> QED BY <1>1, <2>1, <2>2, <2>4
<1> QED BY <1>2, <1>3, <1>4
-----------------------------------------------------------------------------
(* What the fields of the state are counted over. *)
LEMMA RowsAreCounted ==
    ASSUME NEW stage1, stage1 \in [DOMAIN stage1 -> RowSet], NEW stage2 \in [Ids -> RowSet]
    PROVE  /\ CollectSuspects(stage1) \subseteq Ids /\ IsFiniteSet(CollectSuspects(stage1))
           /\ Cardinality(CollectSuspects(stage1)) \in Nat
           /\ Done(stage2) \subseteq Ids /\ IsFiniteSet(Done(stage2))
           /\ Cardinality(Done(stage2)) \in Nat
           /\ ReportOK(Summary(stage1, stage2))
           /\ Summary(stage1, stage2).mode = "two-stage-nearby"
           /\ Summary(stage1, stage2).candidates = Cardinality(CollectSuspects(stage1))
           /\ Summary(stage1, stage2).reviewed = Cardinality(Done(stage2))
           /\ Summary(stage1, stage2).failed =>
                 FailedRows(stage1) # {} \/ FailedRows(stage2) # {}
<1>1. CollectSuspects(stage1) \subseteq Ids
  BY DEF CollectSuspects, Done, RowSet
<1>2. Done(stage2) \subseteq Ids
  BY DEF Done
<1>3. IsFiniteSet(Ids)
  BY ProofreadAssumption
<1>4. IsFiniteSet(CollectSuspects(stage1)) /\ IsFiniteSet(Done(stage2))
  BY <1>1, <1>2, <1>3, FS_Subset
<1>5. Cardinality(CollectSuspects(stage1)) \in Nat /\ Cardinality(Done(stage2)) \in Nat
  BY <1>4, FS_CardinalityType
<1> QED BY <1>1, <1>2, <1>4, <1>5 DEF Summary, ReportOK

LEMMA BranchIsThere ==
    ASSUME NEW branch, BranchOK(branch)
    PROVE  branch # NoBranch
<1>1. PICK i \in Ids : TRUE
  BY ProofreadAssumption
<1>2. branch[i].version # 0
  BY <1>1 DEF BranchOK, ItemSet
<1>3. NoBranch[i] = [version |-> 0]
  BY <1>1 DEF NoBranch
<1>4. [version |-> 0].version = 0
  OBVIOUS
<1> QED BY <1>2, <1>3, <1>4

LEMMA CopyIsOK == ASSUME TypesInv PROVE BranchOK(Copy)
<1>1. ASSUME NEW i \in Ids PROVE ItemOK(Fresh(i))
  <2>1. tr.version \in Nat \ {0} /\ tr.line[i].realign \in BOOLEAN
    BY DEF TypesInv
  <2>2. Fresh(i) \in ItemSet
    BY <2>1 DEF Fresh, ItemSet
  <2>3. Fresh(i).owes = FALSE /\ (Fresh(i).needs => Fresh(i).status = "pending")
    BY DEF Fresh
  <2> QED BY <2>2, <2>3 DEF ItemOK
<1>2. Copy \in [Ids -> ItemSet] /\ \A i \in Ids : Copy[i] = Fresh(i)
  BY <1>1 DEF Copy, ItemOK
<1> QED BY <1>1, <1>2 DEF BranchOK

LEMMA NoFilesAreOK == /\ FilesOK(NoFiles)
                      /\ NoFiles.stage1 = NoStage1 /\ NoFiles.stage2 = NoStage2
                      /\ NoStage1 \in [DOMAIN NoStage1 -> RowSet] /\ NoStage2 \in [Ids -> RowSet]
                      /\ RowsOK(NoStage2) /\ Done(NoStage2) = {}
<1>1. NoRow \in RowSet /\ NoRow.status = "none" /\ NoRow.applied = FALSE
  BY DEF NoRow, RowSet
<1>2. NoStage1 \in [DOMAIN NoStage1 -> RowSet] /\ NoStage2 \in [Ids -> RowSet]
  BY <1>1 DEF NoStage1, NoStage2
<1>3. \A i \in Ids : NoStage2[i] = NoRow
  BY DEF NoStage2
<1>4. RowsOK(NoStage2) /\ Done(NoStage2) = {}
  BY <1>1, <1>2, <1>3 DEF RowsOK, Done
<1>5. FilesOK(NoFiles)
  BY <1>2, <1>4 DEF FilesOK, NoFiles, ReportOK
<1> QED BY <1>2, <1>4, <1>5 DEF NoFiles

LEMMA NothingApplied ==
    ASSUME NEW stage2, RowsOK(stage2), stage2 \in [Ids -> RowSet], Done(stage2) = {}, NEW branch
    PROVE  Kept2(stage2, branch)
BY DEF RowsOK, Done, Kept2

LEMMA SameTranslation ==
    ASSUME tr' = tr
    PROVE  HasMarks' = HasMarks /\ Suspects' = Suspects /\ PendingAudio' = PendingAudio
BY DEF HasMarks, Suspects, PendingAudio, Suspect

LEMMA InitIsOK == Init => IInv
<1> SUFFICES ASSUME Init PROVE IInv
  OBVIOUS
<1>1. PICK m \in Markings, noted \in BOOLEAN :
           tr = [version |-> 1, line |-> m, noted |-> noted, reported |-> 0]
  BY DEF Init
<1>2. TypesInv
  <2>1. tr \in [version : Nat \ {0}, noted : BOOLEAN, reported : {0, 1},
               line : [Ids -> [types : SUBSET SuspicionTypes, audio : BOOLEAN, realign : BOOLEAN]]]
    BY <1>1, ProofreadAssumption
  <2>2. disk = NoFiles /\ mem = NoFiles /\ disk.branch = NoBranch /\ ~Running /\ run = NoRun
    BY DEF Init, NoFiles, Running
  <2> QED BY <2>1, <2>2, NoFilesAreOK DEF TypesInv, NoRun
<1>3. /\ at = "idle" /\ Phase = "idle" /\ ~Saving /\ ~Running /\ ~Restarted /\ run.answered = FALSE
      /\ disk.branch = NoBranch /\ Done(disk.stage2) = {} /\ disk.report = NoReport
  BY NoFilesAreOK DEF Init, Phase, Saving, Running, Restarted, NoRun, NoFiles
<1>4. PlaceInv /\ WrittenInv /\ TasksInv /\ KeptInv /\ AnsweredInv
  BY <1>3 DEF PlaceInv, WrittenInv, TasksInv, KeptInv, KeptOrNone, AnsweredInv
<1>5. SuspectsInv /\ SummaryInv
  BY <1>3 DEF SuspectsInv, OfSuspects, SummaryInv, TwoStage, NoReport
<1> QED BY <1>2, <1>4, <1>5 DEF IInv
-----------------------------------------------------------------------------
(* The files are written in turn. *)
LEMMA WriteBranchKeeps == ASSUME IInv, WriteBranch PROVE IInv'
<1>1. /\ at = "branch" /\ at' = "reports" /\ then' = then /\ tr' = tr /\ run' = run /\ mem' = mem
      /\ tasks' = tasks /\ excused' = excused
      /\ FilesOK(disk) /\ BranchOK(mem.branch)
      /\ Running /\ Running' /\ Saving /\ Saving' /\ Phase' = Phase
  BY DEF WriteBranch, IInv, TypesInv, Running, Saving, Phase
<1>2. /\ disk'.branch = mem.branch /\ disk'.stage1 = disk.stage1 /\ disk'.stage2 = disk.stage2
      /\ disk'.report = disk.report
      /\ disk' = [branch |-> disk'.branch, stage1 |-> disk'.stage1, stage2 |-> disk'.stage2,
                  report |-> disk'.report, realign |-> disk'.realign]
  BY <1>1 DEF WriteBranch, FilesOK
<1>3. HasMarks' = HasMarks /\ Suspects' = Suspects
  BY <1>1, SameTranslation
<1>4. (BySegment <=> BySegment') /\ (Restarted <=> Restarted')
  BY <1>1 DEF BySegment, Restarted
<1>5. TypesInv'
  BY <1>1, <1>2 DEF IInv, TypesInv, FilesOK
<1>6. PlaceInv'
  BY <1>1, <1>3, <1>4 DEF IInv, PlaceInv
<1>7. WrittenInv'
  BY <1>1, <1>2 DEF WrittenInv
<1>8. TasksInv'
  BY <1>1 DEF IInv, TasksInv
<1>9. KeptInv'
  BY <1>1, <1>2, <1>4, BranchIsThere DEF IInv, KeptInv, KeptOrNone, NoLoss
<1>10. SuspectsInv'
  BY <1>1, <1>2, <1>3, <1>4 DEF IInv, SuspectsInv, OfSuspects, Suspected, NoStale, NoLoss
<1>11. SummaryInv'
  BY <1>1, <1>2, <1>3, <1>4 DEF IInv, SummaryInv, Between, TwoStage, Suspected, NoStale, NoLoss
<1>12. AnsweredInv'
  BY <1>1 DEF AnsweredInv
<1> QED BY <1>5, <1>6, <1>7, <1>8, <1>9, <1>10, <1>11, <1>12 DEF IInv

LEMMA WriteReportsKeeps == ASSUME IInv, WriteReports PROVE IInv'
<1>1. /\ at = "reports" /\ at' = "summary" /\ then' = then /\ tr' = tr /\ run' = run /\ mem' = mem
      /\ tasks' = tasks /\ excused' = excused
      /\ FilesOK(disk) /\ FilesOK(mem) /\ BranchOK(mem.branch) /\ disk.branch = mem.branch
      /\ Running /\ Running' /\ Saving /\ Saving' /\ Phase' = Phase /\ Phase = then
      /\ then \in {"segment", "text", "plan", "audio", "end"}
  BY DEF WriteReports, IInv, TypesInv, PlaceInv, WrittenInv, Running, Saving, Phase
<1>2. /\ disk'.branch = disk.branch /\ disk'.report = disk.report
      /\ disk'.stage1 = IF BySegment THEN disk.stage1 ELSE mem.stage1
      /\ disk'.stage2 = IF BySegment THEN disk.stage2 ELSE mem.stage2
      /\ disk' = [branch |-> disk'.branch, stage1 |-> disk'.stage1, stage2 |-> disk'.stage2,
                  report |-> disk'.report, realign |-> disk'.realign]
  <2>1. BySegment <=> run.mode = "segment-audio"
    BY <1>1 DEF IInv, PlaceInv
  <2> QED BY <1>1, <2>1 DEF WriteReports, FilesOK
<1>3. HasMarks' = HasMarks /\ Suspects' = Suspects
  BY <1>1, SameTranslation
<1>4. (BySegment <=> BySegment') /\ (Restarted <=> Restarted') /\ (BySegment => ~Restarted)
  BY <1>1 DEF BySegment, Restarted
<1>5. TypesInv'
  BY <1>1, <1>2 DEF IInv, TypesInv, FilesOK
<1>6. PlaceInv'
  BY <1>1, <1>3, <1>4 DEF IInv, PlaceInv
<1>7. WrittenInv'
  BY <1>1, <1>2, <1>4 DEF WrittenInv
<1>8. TasksInv'
  BY <1>1 DEF IInv, TasksInv
<1>9. KeptInv'
  BY <1>1, <1>2, <1>4, BranchIsThere DEF IInv, KeptInv, KeptOrNone, NoLoss
<1>10. SuspectsInv'
  BY <1>1, <1>2, <1>3, <1>4 DEF IInv, SuspectsInv, OfSuspects, Suspected, NoStale, NoLoss
<1>11. SummaryInv'
  <2>1. CASE BySegment
    BY <1>1, <1>2, <1>3, <1>4, <2>1 DEF IInv, SummaryInv, Between, TwoStage, Suspected, NoStale, NoLoss
  <2>2. CASE ~BySegment
    <3>1. ASSUME ~Restarted, NoStale, TwoStage
          PROVE  disk.report.reviewed <= Cardinality(Done(mem.stage2))
      <4>1. disk.report.reviewed <= Cardinality(Done(disk.stage2))
        BY <1>1, <3>1 DEF IInv, SummaryInv, Between
      <4>2. Done(disk.stage2) \subseteq Done(mem.stage2)
        BY <1>1, <3>1 DEF IInv, SuspectsInv
      <4>3. IsFiniteSet(Done(mem.stage2)) /\ Cardinality(Done(mem.stage2)) \in Nat
            /\ Cardinality(Done(disk.stage2)) \in Nat
        BY <1>1, RowsAreCounted DEF FilesOK
      <4>4. Cardinality(Done(disk.stage2)) <= Cardinality(Done(mem.stage2))
        BY <4>2, <4>3, FS_Subset
      <4>5. disk.report.reviewed \in Nat
        BY <1>1, <3>1 DEF FilesOK, ReportOK, TwoStage, NoReport
      <4> QED BY <4>1, <4>3, <4>4, <4>5
    <3>2. HasMarks => Suspected(mem.stage1)
      <4>1. ~BySegment => Phase # "segment"
        BY DEF BySegment
      <4> QED BY <1>1, <2>2, <4>1 DEF IInv, SuspectsInv, PlaceInv
    <3> QED BY <1>1, <1>2, <1>3, <1>4, <2>2, <3>1, <3>2
          DEF IInv, SummaryInv, Between, TwoStage, Suspected, NoStale, NoLoss
  <2> QED BY <2>1, <2>2
<1>12. AnsweredInv'
  BY <1>1 DEF AnsweredInv
<1> QED BY <1>5, <1>6, <1>7, <1>8, <1>9, <1>10, <1>11, <1>12 DEF IInv

LEMMA WriteSummaryKeeps == ASSUME IInv, WriteSummary PROVE IInv'
<1>1. /\ at = "summary" /\ at' = then /\ then' = then /\ tr' = tr /\ run' = run /\ mem' = mem
      /\ tasks' = tasks /\ excused' = excused
      /\ FilesOK(disk) /\ FilesOK(mem) /\ BranchOK(mem.branch) /\ disk.branch = mem.branch
      /\ then \in {"segment", "text", "plan", "audio", "end"}
      /\ Running /\ Running' /\ Saving /\ ~Saving' /\ Phase' = Phase /\ Phase = then
  BY DEF WriteSummary, IInv, TypesInv, PlaceInv, WrittenInv, Running, Saving, Phase
<1>2. BySegment <=> run.mode = "segment-audio"
  BY <1>1 DEF IInv, PlaceInv
<1>3. HasMarks' = HasMarks /\ Suspects' = Suspects
  BY <1>1, SameTranslation
<1>4. /\ (BySegment <=> BySegment') /\ (Restarted <=> Restarted')
      /\ (BySegment <=> then = "segment")
  BY <1>1 DEF BySegment, Restarted
<1>5. /\ disk'.branch = disk.branch
      /\ disk'.report = IF BySegment THEN mem.report ELSE Summary(mem.stage1, mem.stage2)
      /\ disk'.stage1 = disk.stage1 /\ disk'.stage2 = disk.stage2
      /\ disk' = [branch |-> disk'.branch, stage1 |-> disk'.stage1, stage2 |-> disk'.stage2,
                  report |-> disk'.report, realign |-> disk'.realign]
  BY <1>1, <1>2 DEF WriteSummary, FilesOK
<1>6. ~BySegment => disk.stage1 = mem.stage1 /\ disk.stage2 = mem.stage2
  BY <1>1 DEF IInv, WrittenInv
<1>7. TypesInv'
  <2>1. ReportOK(disk'.report)
    BY <1>1, <1>5, RowsAreCounted DEF FilesOK
  <2> QED BY <1>1, <1>5, <2>1 DEF IInv, TypesInv, FilesOK
<1>8. PlaceInv'
  BY <1>1, <1>3, <1>4 DEF IInv, PlaceInv
<1>9. WrittenInv'
  BY <1>1, <1>4, <1>5, <1>6 DEF WrittenInv
<1>10. TasksInv'
  BY <1>1 DEF IInv, TasksInv
<1>11. KeptInv'
  BY <1>1, <1>4, <1>5 DEF IInv, KeptInv, KeptOrNone, NoLoss
<1>12. SuspectsInv'
  BY <1>1, <1>3, <1>4, <1>5 DEF IInv, SuspectsInv, OfSuspects, Suspected, NoStale, NoLoss
<1>13. SummaryInv'
  <2>1. CASE BySegment
    <3>1. mem.report.mode = "segment-audio"
      BY <1>1, <1>4, <2>1 DEF IInv, PlaceInv
    <3> QED BY <1>5, <2>1, <3>1 DEF SummaryInv, TwoStage
  <2>2. CASE ~BySegment
    <3>1. /\ disk'.report.reviewed = Cardinality(Done(disk'.stage2))
          /\ disk'.report.candidates = Cardinality(CollectSuspects(disk'.stage1))
          /\ Cardinality(Done(disk'.stage2)) \in Nat
      BY <1>1, <1>5, <1>6, <2>2, RowsAreCounted DEF FilesOK
    <3>2. Suspected(mem.stage1)
      BY <1>1, <1>4, <2>2 DEF IInv, SuspectsInv, PlaceInv, Suspected
    <3>3. Suspected(disk.stage1)'
      BY <1>1, <1>3, <1>5, <1>6, <2>2, <3>2 DEF Suspected
    <3> QED BY <3>1, <3>3 DEF SummaryInv
  <2> QED BY <2>1, <2>2
<1>14. AnsweredInv'
  BY <1>1 DEF AnsweredInv
<1> QED BY <1>7, <1>8, <1>9, <1>10, <1>11, <1>12, <1>13, <1>14 DEF IInv
-----------------------------------------------------------------------------
(* A review begins: with what the files hold, or afresh. *)
LEMMA StartKeeps ==
    ASSUME IInv, NEW r \in Reviews, Start(r.mode, r.scope, r.resume)
    PROVE  IInv'
<1> DEFINE afresh == r.mode = "two-stage-nearby" /\ ~r.resume
<1>1. /\ at = "idle" /\ tr' = tr /\ disk' = disk /\ tasks' = tasks /\ FilesOK(disk)
      /\ run' = [mode |-> r.mode, scope |-> r.scope, resume |-> r.resume, answered |-> TRUE]
      /\ r.mode \in {"segment-audio", "two-stage-nearby"} /\ r.scope \in {"suspects", "all"}
      /\ r.resume \in BOOLEAN
      /\ at' = (IF r.mode = "two-stage-nearby" THEN "stage1" ELSE "segments")
      /\ excused' = excused \cup (IF r.scope = "all" THEN {"all"} ELSE {})
  BY ProofreadAssumption DEF Start, MayRun, IInv, TypesInv
<1>2. /\ ~Running /\ ~Saving /\ ~Restarted /\ Running' /\ ~Saving'
      /\ Phase' = at' /\ (Phase' = "stage1" \/ Phase' = "segments")
      /\ (BySegment' <=> r.mode = "segment-audio")
      /\ (Restarted' <=> afresh)
  BY <1>1 DEF Running, Saving, Phase, BySegment, Restarted
<1>3. /\ mem'.branch = IF afresh THEN Copy ELSE Existing(disk.branch)
      /\ mem'.stage1 = IF afresh THEN NoStage1 ELSE disk.stage1
      /\ mem'.stage2 = IF afresh THEN NoStage2 ELSE disk.stage2
      /\ mem'.report = disk.report
      /\ mem' = [branch |-> mem'.branch, stage1 |-> mem'.stage1, stage2 |-> mem'.stage2,
                 report |-> mem'.report, realign |-> mem'.realign]
  BY <1>1 DEF Start, FilesOK
<1>4. HasMarks' = HasMarks /\ Suspects' = Suspects
  BY <1>1, SameTranslation
<1>5. BranchOK(mem'.branch)
  BY <1>3, CopyIsOK DEF IInv, TypesInv, Existing
<1>6. TypesInv'
  BY <1>1, <1>3, <1>5, NoFilesAreOK DEF IInv, TypesInv, FilesOK
<1>7. PlaceInv'
  BY <1>1, <1>2 DEF PlaceInv
<1>8. WrittenInv'
  BY <1>1 DEF WrittenInv
<1>9. TasksInv'
  BY <1>2 DEF TasksInv
<1>10. KeptInv'
  <2>1. NoLoss' => NoLoss
    BY <1>1 DEF NoLoss
  <2>2. NoLoss => KeptOrNone(disk.stage2, disk.branch)
    BY <1>1 DEF IInv, KeptInv
  <2>3. disk.branch = NoBranch /\ NoLoss => Kept2(disk.stage2, mem'.branch)
    BY <1>1, <2>2, NothingApplied DEF KeptOrNone, FilesOK
  <2>4. ~afresh /\ NoLoss => Kept2(disk.stage2, mem'.branch)
    BY <1>3, <2>2, <2>3 DEF KeptOrNone, Existing
  <2>5. afresh => Kept2(mem'.stage2, mem'.branch)
    BY <1>3, NoFilesAreOK, NothingApplied
  <2> QED BY <1>1, <1>2, <1>3, <2>1, <2>2, <2>4, <2>5 DEF KeptInv
<1>11. SuspectsInv'
  <2>1. NoStale' => NoStale
    BY <1>1 DEF NoStale, NoLoss
  <2>2. NoStale => OfSuspects(disk.stage1, disk.stage2)
    BY DEF IInv, SuspectsInv
  <2>3. NoStale' => OfSuspects(disk.stage1, disk.stage2)'
    BY <1>1, <1>4, <2>1, <2>2 DEF OfSuspects, Suspected
  <2>4. NoStale' => OfSuspects(mem.stage1, mem.stage2)'
    BY <1>1, <1>3, <1>4, <2>1, <2>2, NoFilesAreOK DEF OfSuspects, Suspected
  <2> QED BY <1>1, <1>2, <1>3, <2>3, <2>4, NoFilesAreOK DEF SuspectsInv
<1>12. SummaryInv'
  BY <1>1, <1>2, <1>4 DEF IInv, SummaryInv, Between, TwoStage, Suspected, NoStale, NoLoss
<1>13. AnsweredInv'
  BY <1>2 DEF AnsweredInv
<1> QED BY <1>6, <1>7, <1>8, <1>9, <1>10, <1>11, <1>12, <1>13 DEF IInv

LEMMA PlanSegmentsKeeps == ASSUME IInv, PlanSegments PROVE IInv'
<1>1. /\ at = "segments" /\ tr' = tr /\ disk' = disk /\ run' = run /\ excused' = excused
      /\ FilesOK(disk) /\ FilesOK(mem)
      /\ \/ at' = "branch" /\ then' = "segment"
         \/ at' = "segment" /\ then' = then
      /\ \E new \in SUBSET Segs : tasks' = {IdsIn(s) : s \in new \ Empty}
  BY DEF PlanSegments, Save, Kept, IInv, TypesInv
<1>2. /\ Running /\ ~Saving /\ BySegment /\ ~Restarted /\ Phase' = "segment"
      /\ Running' /\ BySegment' /\ ~Restarted'
  BY <1>1 DEF Running, Saving, Phase, BySegment, Restarted
<1>3. /\ mem'.branch = mem.branch /\ mem'.stage1 = mem.stage1 /\ mem'.stage2 = mem.stage2
      /\ mem'.report = [mode |-> "segment-audio", rows |-> mem'.report.rows]
      /\ mem'.report.mode = "segment-audio"
      /\ mem' = [branch |-> mem'.branch, stage1 |-> mem'.stage1, stage2 |-> mem'.stage2,
                 report |-> mem'.report, realign |-> mem'.realign]
  BY <1>1 DEF PlanSegments, ListOf, FilesOK
<1>4. HasMarks' = HasMarks /\ Suspects' = Suspects
  BY <1>1, SameTranslation
<1>5. TypesInv'
  BY <1>1, <1>2, <1>3 DEF IInv, TypesInv, FilesOK, ReportOK
<1>6. PlaceInv'
  BY <1>1, <1>2, <1>3 DEF IInv, PlaceInv, Saving
<1>7. WrittenInv'
  BY <1>1 DEF WrittenInv
<1>8. TasksInv'
  BY <1>1, <1>2 DEF TasksInv
<1>9. KeptInv'
  BY <1>1, <1>2, <1>3 DEF IInv, KeptInv, NoLoss
<1>10. SuspectsInv'
  BY <1>1, <1>2, <1>3, <1>4 DEF IInv, SuspectsInv, OfSuspects, Suspected, NoStale, NoLoss
<1>11. SummaryInv'
  BY <1>1, <1>2, <1>4 DEF IInv, SummaryInv, Between, TwoStage, Suspected, NoStale, NoLoss
<1>12. AnsweredInv'
  BY <1>2 DEF AnsweredInv
<1> QED BY <1>5, <1>6, <1>7, <1>8, <1>9, <1>10, <1>11, <1>12 DEF IInv

LEMMA SegmentAnswerKeeps ==
    ASSUME IInv, NEW ids \in tasks, NEW ok \in BOOLEAN, NEW changed \in SUBSET ids,
           SegmentAnswer(ids, ok, changed)
    PROVE  IInv'
<1>1. /\ at = "segment" /\ tr' = tr /\ disk' = disk /\ run' = run /\ excused' = excused
      /\ FilesOK(disk) /\ FilesOK(mem) /\ at' = "branch" /\ then' = "segment"
      /\ tasks' \subseteq tasks
  BY DEF SegmentAnswer, Save, Kept, IInv, TypesInv
<1>2. /\ Running /\ ~Saving /\ BySegment /\ ~Restarted /\ Phase = "segment" /\ Phase' = "segment"
      /\ Running' /\ BySegment' /\ ~Restarted' /\ BranchOK(mem.branch)
  BY <1>1 DEF Running, Saving, Phase, BySegment, Restarted, IInv, TypesInv
<1> DEFINE o == [change |-> "translation"]
           answered == [i \in Ids |-> IF ok /\ i \in changed THEN Updated(mem.branch[i], o)
                                      ELSE mem.branch[i]]
<1>3. mem.report.mode = "segment-audio" /\ mem.report = [mode |-> "segment-audio", rows |-> mem.report.rows]
  BY <1>1, <1>2 DEF IInv, PlaceInv, FilesOK, ReportOK, NoReport
<1>4. /\ mem'.branch = answered /\ mem'.stage1 = mem.stage1 /\ mem'.stage2 = mem.stage2
      /\ mem' = [branch |-> mem'.branch, stage1 |-> mem'.stage1, stage2 |-> mem'.stage2,
                 report |-> mem'.report, realign |-> mem'.realign]
  BY <1>1 DEF SegmentAnswer, FilesOK
<1>5. mem'.report.mode = "segment-audio" /\ mem'.report = [mode |-> "segment-audio", rows |-> mem'.report.rows]
  BY <1>1, <1>3 DEF SegmentAnswer, FilesOK
<1>6. ASSUME NEW i \in Ids
      PROVE  ItemOK(answered[i]) /\ (mem.branch[i].edited => answered[i].edited)
  <2>1. ItemOK(mem.branch[i])
    BY <1>2 DEF BranchOK
  <2>2. o.change = "translation"
    OBVIOUS
  <2> HIDE DEF o
  <2>3. ItemOK(Updated(mem.branch[i], o)) /\ (mem.branch[i].edited => Updated(mem.branch[i], o).edited)
    <3> DEFINE item == mem.branch[i]
    <3>1. ItemOK(item) /\ o.change \in {"none", "translation", "marks", "words"}
          /\ (o.change \in {"marks", "words"} => o.disputed = FALSE)
      BY <2>1, <2>2
    <3> HIDE DEF item
    <3>2. ItemOK(Updated(item, o))
      BY <3>1, UpdatedIsOK
    <3>3. item.edited => Updated(item, o).edited
      BY <3>1, UpdatedIsOK
    <3> QED BY <3>2, <3>3 DEF item
  <2> QED BY <2>1, <2>3
<1>7. BranchOK(mem'.branch)
  BY <1>4, <1>6 DEF BranchOK, ItemOK
<1>8. \A s2 : Kept2(s2, mem.branch) => Kept2(s2, mem'.branch)
  BY <1>4, <1>6 DEF Kept2
<1>9. HasMarks' = HasMarks /\ Suspects' = Suspects
  BY <1>1, SameTranslation
<1>10. TypesInv'
  BY <1>1, <1>2, <1>4, <1>5, <1>7 DEF IInv, TypesInv, FilesOK, ReportOK
<1>11. PlaceInv'
  BY <1>1, <1>2, <1>5 DEF IInv, PlaceInv
<1>12. WrittenInv'
  BY <1>1 DEF WrittenInv
<1>13. TasksInv'
  BY <1>1, <1>2 DEF IInv, TasksInv
<1>14. KeptInv'
  BY <1>1, <1>2, <1>4, <1>8 DEF IInv, KeptInv, NoLoss
<1>15. SuspectsInv'
  BY <1>1, <1>2, <1>4, <1>9 DEF IInv, SuspectsInv, OfSuspects, Suspected, NoStale, NoLoss
<1>16. SummaryInv'
  BY <1>1, <1>2, <1>9 DEF IInv, SummaryInv, Between, TwoStage, Suspected, NoStale, NoLoss
<1>17. AnsweredInv'
  BY <1>2 DEF AnsweredInv
<1> QED BY <1>10, <1>11, <1>12, <1>13, <1>14, <1>15, <1>16, <1>17 DEF IInv
-----------------------------------------------------------------------------
(* The suspects of a two-stage review. *)
LEMMA RowIsOK ==
    ASSUME TypesInv, NEW status \in {"completed", "failed", "skipped"}, NEW suspects \in SUBSET Ids,
           NEW applied \in BOOLEAN
    PROVE  /\ Row(status, suspects, applied) \in RowSet
           /\ Row(status, suspects, applied).status = status
           /\ Row(status, suspects, applied).suspects = suspects
           /\ Row(status, suspects, applied).applied = applied
           /\ Row(status, suspects, applied).version = tr.version
BY DEF Row, RowSet, TypesInv

LEMMA Stage1FromMarksKeeps == ASSUME IInv, Stage1FromMarks PROVE IInv'
<1> DEFINE row == Row("completed", Suspects, FALSE)
<1>1. /\ at = "stage1" /\ HasMarks /\ tr' = tr /\ disk' = disk /\ run' = run /\ excused' = excused
      /\ FilesOK(disk) /\ FilesOK(mem) /\ TypesInv /\ at' = "branch" /\ then' = "plan" /\ tasks' = tasks
  BY DEF Stage1FromMarks, Save, Kept, IInv, TypesInv
<1>2. /\ Running /\ ~Saving /\ ~BySegment /\ Phase = "stage1" /\ Phase' = "plan"
      /\ Running' /\ ~BySegment' /\ (Restarted' <=> Restarted)
  BY <1>1 DEF Running, Saving, Phase, BySegment, Restarted
<1>3. /\ mem'.branch = mem.branch /\ mem'.stage2 = mem.stage2 /\ mem'.report = mem.report
      /\ mem'.stage1 = [k \in {Manifest} |-> row]
      /\ mem' = [branch |-> mem'.branch, stage1 |-> mem'.stage1, stage2 |-> mem'.stage2,
                 report |-> mem'.report, realign |-> mem'.realign]
  BY <1>1 DEF Stage1FromMarks, FilesOK
<1>4. HasMarks' = HasMarks /\ Suspects' = Suspects
  BY <1>1, SameTranslation
<1>5. row \in RowSet /\ row.status = "completed" /\ row.suspects = Suspects
  <2>1. Suspects \in SUBSET Ids
    BY DEF Suspects
  <2> QED BY <1>1, <2>1, RowIsOK, ZenonT(60)
<1> HIDE DEF row
<1>6. mem'.stage1 \in [DOMAIN mem'.stage1 -> RowSet] /\ CollectSuspects(mem'.stage1) = Suspects
  BY <1>3, <1>5 DEF CollectSuspects, Done
<1>7. TypesInv'
  BY <1>1, <1>2, <1>3, <1>6 DEF IInv, TypesInv, FilesOK
<1>8. PlaceInv'
  BY <1>1, <1>2 DEF IInv, PlaceInv
<1>9. WrittenInv'
  BY <1>1 DEF WrittenInv
<1>10. TasksInv'
  BY <1>2 DEF TasksInv
<1>11. KeptInv'
  BY <1>1, <1>2, <1>3 DEF IInv, KeptInv, NoLoss
<1>12. SuspectsInv'
  <2>1. NoStale => OfSuspects(disk.stage1, disk.stage2) /\ OfSuspects(mem.stage1, mem.stage2)
    BY <1>2 DEF IInv, SuspectsInv
  <2>2. (NoStale' <=> NoStale) /\ Suspected(mem.stage1)'
    BY <1>1, <1>4, <1>6 DEF NoStale, NoLoss, Suspected
  <2>3. NoStale => OfSuspects(disk.stage1, disk.stage2)'
    BY <1>1, <1>4, <2>1 DEF OfSuspects, Suspected
  <2>4. NoStale => OfSuspects(mem.stage1, mem.stage2)'
    BY <1>1, <1>3, <1>4, <1>6, <2>1 DEF OfSuspects, Suspected
  <2> QED BY <1>1, <1>2, <1>3, <2>2, <2>3, <2>4 DEF IInv, SuspectsInv
<1>13. SummaryInv'
  BY <1>1, <1>2, <1>4 DEF IInv, SummaryInv, Between, TwoStage, Suspected, NoStale, NoLoss
<1>14. AnsweredInv'
  BY <1>2 DEF AnsweredInv
<1> QED BY <1>7, <1>8, <1>9, <1>10, <1>11, <1>12, <1>13, <1>14 DEF IInv

LEMMA PlanStage1Keeps == ASSUME IInv, PlanStage1 PROVE IInv'
<1> DEFINE new     == {s \in Segs : ~(run.resume /\ s \in Done(mem.stage1))}
           skipped == new \cap Empty
           row     == Row("skipped", {}, FALSE)
<1>1. /\ at = "stage1" /\ ~HasMarks /\ tr' = tr /\ disk' = disk /\ run' = run /\ excused' = excused
      /\ FilesOK(disk) /\ FilesOK(mem) /\ TypesInv
      /\ tasks' = {IdsIn(s) : s \in new \ Empty}
      /\ \/ at' = "branch" /\ then' = "text"
         \/ at' = "text" /\ then' = then
  BY DEF PlanStage1, Save, Kept, IInv, TypesInv
<1>2. /\ Running /\ ~Saving /\ ~BySegment /\ Phase = "stage1" /\ Phase' = "text"
      /\ Running' /\ ~BySegment' /\ (Restarted' <=> Restarted) /\ (Restarted <=> ~run.resume)
  BY <1>1 DEF Running, Saving, Phase, BySegment, Restarted
<1>3. /\ mem'.branch = mem.branch /\ mem'.stage2 = mem.stage2 /\ mem'.report = mem.report
      /\ mem'.stage1 = [k \in DOMAIN mem.stage1 \cup skipped |->
                           IF k \in skipped THEN row ELSE mem.stage1[k]]
      /\ mem' = [branch |-> mem'.branch, stage1 |-> mem'.stage1, stage2 |-> mem'.stage2,
                 report |-> mem'.report, realign |-> mem'.realign]
  BY <1>1 DEF PlanStage1, FilesOK
<1>4. HasMarks' = HasMarks /\ Suspects' = Suspects
  BY <1>1, SameTranslation
<1>5. row \in RowSet /\ row.status = "skipped"
  BY <1>1, RowIsOK
<1> HIDE DEF row
<1>6. mem.stage1 \in [DOMAIN mem.stage1 -> RowSet]
  BY <1>1 DEF FilesOK
<1>7. mem'.stage1 \in [DOMAIN mem'.stage1 -> RowSet]
  BY <1>3, <1>5, <1>6
<1>8. Done(mem'.stage1) \subseteq Done(mem.stage1)
  BY <1>3, <1>5 DEF Done
<1>9. run.resume => CollectSuspects(mem.stage1) \subseteq CollectSuspects(mem'.stage1)
  <2>1. HAVE run.resume
  <2>2. ASSUME NEW k \in Done(mem.stage1)
        PROVE  k \in Done(mem'.stage1) /\ mem'.stage1[k] = mem.stage1[k]
    BY <1>3, <2>1, <2>2 DEF Done
  <2> QED BY <2>2 DEF CollectSuspects
<1>10. ASSUME run.resume, NEW s \in Segs \ Empty, IdsIn(s) \in tasks'
       PROVE  s \notin Done(mem'.stage1)
  <2>1. PICK t \in new \ Empty : IdsIn(s) = IdsIn(t)
    BY <1>1, <1>10
  <2>2. s = t
    BY <1>10, <2>1 DEF IdsIn, Empty
  <2> QED BY <1>8, <1>10, <2>1, <2>2
<1>11. TypesInv'
  BY <1>1, <1>2, <1>3, <1>7 DEF IInv, TypesInv, FilesOK
<1>12. PlaceInv'
  BY <1>1, <1>2, <1>4 DEF IInv, PlaceInv, Saving
<1>13. WrittenInv'
  BY <1>1 DEF WrittenInv
<1>14. TasksInv'
  BY <1>1, <1>2, <1>10 DEF TasksInv
<1>15. KeptInv'
  BY <1>1, <1>2, <1>3 DEF IInv, KeptInv, NoLoss
<1>16. SuspectsInv'
  <2>1. NoStale => OfSuspects(disk.stage1, disk.stage2) /\ OfSuspects(mem.stage1, mem.stage2)
    BY <1>2 DEF IInv, SuspectsInv
  <2>2. NoStale' <=> NoStale
    BY <1>1 DEF NoStale, NoLoss
  <2>3. NoStale => OfSuspects(disk.stage1, disk.stage2)'
    BY <1>1, <1>4, <2>1 DEF OfSuspects, Suspected
  <2>4. ~run.resume => Done(mem.stage2) = {}
    BY <1>2 DEF IInv, SuspectsInv
  <2>5. NoStale => OfSuspects(mem.stage1, mem.stage2)'
    BY <1>1, <1>3, <1>4, <1>9, <2>1, <2>4 DEF OfSuspects, Suspected
  <2> QED BY <1>1, <1>2, <1>3, <2>2, <2>3, <2>4, <2>5 DEF IInv, SuspectsInv
<1>17. SummaryInv'
  BY <1>1, <1>2, <1>4 DEF IInv, SummaryInv, Between, TwoStage, Suspected, NoStale, NoLoss
<1>18. AnsweredInv'
  BY <1>2 DEF AnsweredInv
<1> QED BY <1>11, <1>12, <1>13, <1>14, <1>15, <1>16, <1>17, <1>18 DEF IInv
LEMMA Stage1AnswerKeeps ==
    ASSUME IInv, NEW ids \in tasks, NEW ok \in BOOLEAN, NEW suspects \in SUBSET ids,
           Stage1Answer(ids, ok, suspects)
    PROVE  IInv'
<1> DEFINE seg == SegOf[CHOOSE i \in ids : TRUE]
           row == IF ok THEN Row("completed", suspects, FALSE) ELSE Row("failed", {}, FALSE)
<1>1. /\ at = "text" /\ tr' = tr /\ disk' = disk /\ run' = run /\ excused' = excused
      /\ FilesOK(disk) /\ FilesOK(mem) /\ TypesInv
      /\ tasks' = tasks \ {ids} /\ at' = "branch" /\ then' = "text"
  BY DEF Stage1Answer, Save, Kept, IInv, TypesInv
<1>2. /\ Running /\ ~Saving /\ ~BySegment /\ Phase = "text" /\ Phase' = "text"
      /\ Running' /\ ~BySegment' /\ (Restarted' <=> Restarted) /\ (Restarted <=> ~run.resume)
  BY <1>1 DEF Running, Saving, Phase, BySegment, Restarted
<1>3. /\ mem'.branch = mem.branch /\ mem'.stage2 = mem.stage2 /\ mem'.report = mem.report
      /\ mem'.stage1 = With(mem.stage1, seg, row)
      /\ mem' = [branch |-> mem'.branch, stage1 |-> mem'.stage1, stage2 |-> mem'.stage2,
                 report |-> mem'.report, realign |-> mem'.realign]
  BY <1>1 DEF Stage1Answer, FilesOK
<1>4. HasMarks' = HasMarks /\ Suspects' = Suspects /\ ~HasMarks
  BY <1>1, <1>2, SameTranslation DEF IInv, PlaceInv
<1>5. PICK s \in Segs \ Empty : ids = IdsIn(s)
  BY <1>2 DEF IInv, TasksInv
<1>6. seg = s
  BY <1>5 DEF IdsIn, Empty
<1>7. row \in RowSet
  <2>1. suspects \in SUBSET Ids
    BY <1>5 DEF IdsIn
  <2> QED BY <1>1, <2>1, RowIsOK
<1>8. mem.stage1 \in [DOMAIN mem.stage1 -> RowSet]
  BY <1>1 DEF FilesOK
<1> HIDE DEF row, seg
<1>9. /\ mem'.stage1 \in [DOMAIN mem'.stage1 -> RowSet]
      /\ Done(mem'.stage1) \subseteq Done(mem.stage1) \cup {seg}
  BY <1>3, <1>7, <1>8 DEF With, Done
<1>10. run.resume => CollectSuspects(mem.stage1) \subseteq CollectSuspects(mem'.stage1)
  <2>1. HAVE run.resume
  <2>2. seg \notin Done(mem.stage1)
    BY <1>2, <1>5, <1>6, <2>1 DEF IInv, TasksInv
  <2>3. ASSUME NEW k \in Done(mem.stage1)
        PROVE  k \in Done(mem'.stage1) /\ mem'.stage1[k] = mem.stage1[k]
    BY <1>3, <2>2, <2>3 DEF With, Done
  <2> QED BY <2>3 DEF CollectSuspects
<1>11. ASSUME run.resume, NEW t \in Segs \ Empty, IdsIn(t) \in tasks'
       PROVE  t \notin Done(mem'.stage1)
  <2>1. IdsIn(t) \in tasks /\ IdsIn(t) # ids
    BY <1>1, <1>11
  <2>2. t \notin Done(mem.stage1) /\ t # seg
    BY <1>2, <1>5, <1>6, <1>11, <2>1 DEF IInv, TasksInv
  <2> QED BY <1>9, <2>2
<1>12. TypesInv'
  BY <1>1, <1>2, <1>3, <1>9 DEF IInv, TypesInv, FilesOK
<1>13. PlaceInv'
  BY <1>1, <1>2, <1>4 DEF IInv, PlaceInv
<1>14. WrittenInv'
  BY <1>1 DEF WrittenInv
<1>15. TasksInv'
  <2>1. \A a \in tasks' : \E t \in Segs \ Empty : a = IdsIn(t)
    BY <1>1, <1>2 DEF IInv, TasksInv
  <2> QED BY <1>1, <1>2, <1>11, <2>1 DEF TasksInv
<1>16. KeptInv'
  BY <1>1, <1>2, <1>3 DEF IInv, KeptInv, NoLoss
<1>17. SuspectsInv'
  <2>1. NoStale => OfSuspects(disk.stage1, disk.stage2) /\ OfSuspects(mem.stage1, mem.stage2)
    BY <1>2 DEF IInv, SuspectsInv
  <2>2. NoStale' <=> NoStale
    BY <1>1 DEF NoStale, NoLoss
  <2>3. NoStale => OfSuspects(disk.stage1, disk.stage2)'
    BY <1>1, <1>4, <2>1 DEF OfSuspects, Suspected
  <2>4. ~run.resume => Done(mem.stage2) = {}
    BY <1>2 DEF IInv, SuspectsInv
  <2>5. NoStale => OfSuspects(mem.stage1, mem.stage2)'
    BY <1>1, <1>3, <1>4, <1>10, <2>1, <2>4 DEF OfSuspects, Suspected
  <2> QED BY <1>1, <1>2, <1>3, <2>2, <2>3, <2>4, <2>5 DEF IInv, SuspectsInv
<1>18. SummaryInv'
  BY <1>1, <1>2, <1>4 DEF IInv, SummaryInv, Between, TwoStage, Suspected, NoStale, NoLoss
<1>19. AnsweredInv'
  BY <1>2 DEF AnsweredInv
<1> QED BY <1>12, <1>13, <1>14, <1>15, <1>16, <1>17, <1>18, <1>19 DEF IInv
-----------------------------------------------------------------------------
(* The suspects are listened to. *)
LEMMA PlanReviewKeeps == ASSUME IInv, PlanReview PROVE IInv'
<1> DEFINE ids == IF run.scope = "all" THEN Ids ELSE CollectSuspects(mem.stage1)
           new == Unreviewed(ids, mem.stage2)
<1>1. /\ at = "plan" /\ at' = "audio" /\ then' = then /\ tr' = tr /\ disk' = disk /\ run' = run
      /\ mem' = mem /\ excused' = excused /\ FilesOK(mem) /\ TypesInv /\ tasks' = Batches(new)
  BY DEF PlanReview, Kept, IInv, TypesInv
<1>2. /\ Running /\ ~Saving /\ ~BySegment /\ Phase = "plan" /\ Phase' = "audio"
      /\ Running' /\ ~BySegment' /\ (Restarted' <=> Restarted)
  BY <1>1 DEF Running, Saving, Phase, BySegment, Restarted
<1>3. HasMarks' = HasMarks /\ Suspects' = Suspects
  BY <1>1, SameTranslation
<1>4. CollectSuspects(mem.stage1) \subseteq Ids
  BY <1>1, RowsAreCounted DEF FilesOK
<1>5. /\ new \subseteq ids /\ ids \subseteq Ids
      /\ CollectSuspects(mem.stage1) \subseteq ids
      /\ ids \subseteq new \cup Done(mem.stage2)
      /\ run.resume => new \cap Done(mem.stage2) = {}
  BY <1>4 DEF Unreviewed
<1>6. "all" \notin excused => ids = CollectSuspects(mem.stage1)
  BY <1>1, <1>2 DEF IInv, PlaceInv
<1> HIDE DEF ids, new
<1>7. /\ UNION tasks' = new /\ \A a \in tasks' : a \subseteq new
      /\ \A a, b \in tasks' : a = b \/ a \cap b = {}
  BY <1>1, <1>5, BatchesDivide
<1>8. TypesInv'
  BY <1>1, <1>2 DEF IInv, TypesInv
<1>9. PlaceInv'
  BY <1>1, <1>2 DEF IInv, PlaceInv, Saving
<1>10. WrittenInv'
  BY <1>1 DEF WrittenInv
<1>11. TasksInv'
  <2>1. \A a \in tasks' : a \subseteq Ids /\ a \subseteq ids
    BY <1>5, <1>7
  <2>2. run.resume => \A a \in tasks' : a \cap Done(mem.stage2) = {}
    BY <1>5, <1>7
  <2>3. CollectSuspects(mem.stage1) \subseteq
          (UNION tasks') \cup Done(mem.stage2) \cup FailedRows(mem.stage2)
    <3>1. CollectSuspects(mem.stage1) \subseteq new \cup Done(mem.stage2)
      BY <1>5
    <3>2. UNION tasks' = new
      BY <1>7
    <3> QED BY <3>1, <3>2
  <2> QED BY <1>1, <1>2, <1>6, <1>7, <2>1, <2>2, <2>3 DEF TasksInv
<1>12. KeptInv'
  BY <1>1, <1>2 DEF IInv, KeptInv, NoLoss
<1>13. SuspectsInv'
  BY <1>1, <1>2, <1>3 DEF IInv, SuspectsInv, OfSuspects, Suspected, NoStale, NoLoss
<1>14. SummaryInv'
  BY <1>1, <1>2, <1>3 DEF IInv, SummaryInv, Between, TwoStage, Suspected, NoStale, NoLoss
<1>15. AnsweredInv'
  BY <1>2 DEF AnsweredInv
<1> QED BY <1>8, <1>9, <1>10, <1>11, <1>12, <1>13, <1>14, <1>15 DEF IInv

LEMMA AudioAnswerKeeps ==
    ASSUME IInv, NEW ids \in tasks, NEW result \in [ids -> Outcomes \cup {FailedReview}],
           AudioAnswer(ids, result)
    PROVE  IInv'
<1> DEFINE rows2 == [i \in Ids |-> IF i \in ids THEN ReviewRow(result[i]) ELSE mem.stage2[i]]
           lines == [i \in Ids |-> IF i \in ids /\ result[i] # FailedReview
                                   THEN Updated(mem.branch[i], result[i]) ELSE mem.branch[i]]
<1>1. /\ at = "audio" /\ tr' = tr /\ disk' = disk /\ run' = run /\ excused' = excused
      /\ FilesOK(disk) /\ FilesOK(mem) /\ TypesInv
      /\ tasks' = tasks \ {ids} /\ at' = "branch" /\ then' = "audio"
  BY DEF AudioAnswer, Save, Kept, IInv, TypesInv
<1>2. /\ Running /\ ~Saving /\ ~BySegment /\ Phase = "audio" /\ Phase' = "audio"
      /\ Running' /\ ~BySegment' /\ (Restarted' <=> Restarted) /\ (Restarted <=> ~run.resume)
      /\ BranchOK(mem.branch)
  BY <1>1 DEF Running, Saving, Phase, BySegment, Restarted, IInv, TypesInv
<1>3. /\ mem'.branch = lines /\ mem'.stage2 = rows2 /\ mem'.report = mem.report
      /\ mem'.stage1 = mem.stage1
      /\ mem' = [branch |-> mem'.branch, stage1 |-> mem'.stage1, stage2 |-> mem'.stage2,
                 report |-> mem'.report, realign |-> mem'.realign]
  BY <1>1 DEF AudioAnswer, FilesOK
<1>4. HasMarks' = HasMarks /\ Suspects' = Suspects
  BY <1>1, SameTranslation
<1>5. mem.stage2 \in [Ids -> RowSet] /\ RowsOK(mem.stage2)
  BY <1>1 DEF FilesOK
<1>6. ASSUME NEW i \in Ids, i \notin ids
      PROVE  rows2[i] = mem.stage2[i] /\ lines[i] = mem.branch[i]
  BY <1>6
<1>7. ASSUME NEW i \in Ids, i \in ids
      PROVE  /\ rows2[i] \in RowSet /\ rows2[i].status \in {"completed", "failed"}
             /\ rows2[i].version = tr.version
             /\ rows2[i].applied => rows2[i].status = "completed" /\ lines[i].edited
             /\ ItemOK(lines[i]) /\ (mem.branch[i].edited => lines[i].edited)
  <2> DEFINE item == mem.branch[i]  o == result[i]
  <2>1. ItemOK(item) /\ rows2[i] = ReviewRow(o)
        /\ lines[i] = IF o # FailedReview THEN Updated(item, o) ELSE item
    BY <1>2, <1>7 DEF BranchOK
  <2>2. o \in Outcomes \cup {FailedReview}
    BY <1>7
  <2> HIDE DEF item, o, rows2, lines
  <2>3. CASE o = FailedReview
    <3>1. rows2[i] = Row("failed", {}, FALSE) /\ lines[i] = item
      BY <2>1, <2>3 DEF ReviewRow
    <3>2. rows2[i] \in RowSet /\ rows2[i].status = "failed" /\ rows2[i].applied = FALSE
          /\ rows2[i].version = tr.version
      BY <1>1, <3>1 DEF Row, RowSet, TypesInv
    <3> QED BY <2>1, <3>1, <3>2 DEF item
  <2>4. CASE o # FailedReview
    <3>1. /\ o.change \in {"none", "translation", "marks", "words"}
          /\ o.change \in {"marks", "words"} => o.disputed = FALSE
      <4>1. o \in Outcomes
        BY <2>2, <2>4
      <4>2. o = [change |-> o.change, disputed |-> FALSE]
        BY <4>1, OutcomesAreUndisputed
      <4> QED BY <4>1, <4>2, OutcomesAreUndisputed
    <3>2. rows2[i] = Row("completed", {}, o.change # "none") /\ lines[i] = Updated(item, o)
      BY <2>1, <2>4 DEF ReviewRow
    <3>3. ItemOK(Updated(item, o))
      BY <2>1, <3>1, UpdatedIsOK
    <3>4. item.edited => Updated(item, o).edited
      BY <2>1, <3>1, UpdatedIsOK
    <3>5. o.change # "none" => Updated(item, o).edited
      BY <2>1, <3>1, UpdatedIsOK
    <3>6. rows2[i] \in RowSet /\ rows2[i].status = "completed" /\ rows2[i].version = tr.version
      BY <1>1, <3>2 DEF Row, RowSet, TypesInv
    <3>7. rows2[i].applied => o.change # "none"
      <4>1. SUFFICES ASSUME o.change = "none" PROVE rows2[i].applied = FALSE
        OBVIOUS
      <4>2. rows2[i] = Row("completed", {}, FALSE)
        BY <3>2, <4>1
      <4> QED BY <4>2 DEF Row
    <3> QED BY <3>2, <3>3, <3>4, <3>5, <3>6, <3>7 DEF item
  <2> QED BY <2>3, <2>4
<1>8. rows2 \in [Ids -> RowSet] /\ RowsOK(rows2)
  BY <1>5, <1>6, <1>7 DEF RowsOK
<1>9. BranchOK(lines)
  BY <1>2, <1>6, <1>7 DEF BranchOK, ItemOK
<1>10. ids \subseteq Ids
  BY <1>2 DEF IInv, TasksInv
<1>11. /\ Done(mem.stage2) \ ids \subseteq Done(rows2)
       /\ Done(rows2) \subseteq Done(mem.stage2) \cup ids
       /\ FailedRows(mem.stage2) \ ids \subseteq FailedRows(rows2)
       /\ ids \subseteq Done(rows2) \cup FailedRows(rows2)
  <2>1. DOMAIN rows2 = Ids /\ DOMAIN mem.stage2 = Ids
    BY <1>5
  <2> HIDE DEF rows2, lines
  <2> QED BY <1>6, <1>7, <1>10, <2>1 DEF Done, FailedRows
<1>12. NoLoss /\ Kept2(mem.stage2, mem.branch) => Kept2(rows2, lines)
  <2> HIDE DEF rows2, lines
  <2> QED BY <1>6, <1>7 DEF Kept2
<1>13. \A s2 : Kept2(s2, mem.branch) => Kept2(s2, lines)
  <2> HIDE DEF rows2, lines
  <2> QED BY <1>6, <1>7 DEF Kept2
<1>14. \A i \in ids : rows2[i].version = tr.version
  BY <1>7, <1>10
<1>15. \A i \in Ids \ ids : rows2[i] = mem.stage2[i]
  BY <1>6
<1> HIDE DEF rows2, lines
<1>16. TypesInv'
  BY <1>1, <1>2, <1>3, <1>8, <1>9 DEF IInv, TypesInv, FilesOK
<1>17. PlaceInv'
  BY <1>1, <1>2, <1>4 DEF IInv, PlaceInv
<1>18. WrittenInv'
  BY <1>1 DEF WrittenInv
<1>19. TasksInv'
  <2>1. /\ \A a \in tasks : a \subseteq Ids
        /\ \A a, b \in tasks : a = b \/ a \cap b = {}
        /\ run.resume => \A a \in tasks : a \cap Done(mem.stage2) = {}
        /\ "all" \notin excused => \A a \in tasks : a \subseteq CollectSuspects(mem.stage1)
        /\ CollectSuspects(mem.stage1) \subseteq
             (UNION tasks) \cup Done(mem.stage2) \cup FailedRows(mem.stage2)
    BY <1>2 DEF IInv, TasksInv
  <2>2. run.resume => \A a \in tasks' : a \cap Done(rows2) = {}
    BY <1>1, <1>11, <2>1
  <2>3. ASSUME NEW i \in UNION tasks PROVE i \in (UNION tasks') \cup ids
    <3>1. PICK a \in tasks : i \in a
      OBVIOUS
    <3> QED BY <1>1, <3>1
  <2>4. CollectSuspects(mem.stage1) \subseteq
             (UNION tasks') \cup Done(rows2) \cup FailedRows(rows2)
    BY <1>11, <2>1, <2>3
  <2> QED BY <1>1, <1>2, <1>3, <2>1, <2>2, <2>4 DEF TasksInv
<1>20. KeptInv'
  BY <1>1, <1>2, <1>3, <1>12, <1>13 DEF IInv, KeptInv, NoLoss
<1>21. SuspectsInv'
  <2>1. NoStale => OfSuspects(disk.stage1, disk.stage2) /\ OfSuspects(mem.stage1, mem.stage2)
    BY <1>2 DEF IInv, SuspectsInv
  <2>2. (NoStale' <=> NoStale) /\ (NoStale => "all" \notin excused)
    BY <1>1 DEF NoStale, NoLoss
  <2>3. NoStale => OfSuspects(disk.stage1, disk.stage2)'
    BY <1>1, <1>4, <2>1 DEF OfSuspects, Suspected
  <2>4. Suspected(mem.stage1) /\ Suspected(mem.stage1)'
    BY <1>2, <1>3, <1>4 DEF IInv, SuspectsInv, Suspected
  <2>5. ASSUME NoStale PROVE OfSuspects(mem.stage1, mem.stage2)'
    <3>1. ids \subseteq CollectSuspects(mem.stage1)
      BY <1>2, <2>2, <2>5 DEF IInv, TasksInv
    <3>2. Done(mem.stage2) # {} => /\ Done(mem.stage2) \subseteq CollectSuspects(mem.stage1)
                                  /\ \A i \in Done(mem.stage2) : mem.stage2[i].version = tr.version
      BY <2>1, <2>5 DEF OfSuspects
    <3>3. Done(rows2) \subseteq CollectSuspects(mem.stage1)
      BY <1>11, <3>1, <3>2
    <3>4. Done(mem.stage2) \subseteq Ids
      BY <1>5 DEF Done
    <3>5. \A i \in Done(rows2) : rows2[i].version = tr.version
      BY <1>11, <1>14, <1>15, <3>2, <3>4
    <3> QED BY <1>1, <1>3, <2>4, <3>3, <3>5 DEF OfSuspects
  <2>6. ~Restarted => Done(disk.stage2) \subseteq Done(rows2)
    <3>1. ~Restarted => Done(disk.stage2) \subseteq Done(mem.stage2)
      BY <1>2 DEF IInv, SuspectsInv
    <3>2. ~Restarted => ids \cap Done(mem.stage2) = {}
      BY <1>2 DEF IInv, TasksInv
    <3> QED BY <1>11, <3>1, <3>2
  <2> QED BY <1>1, <1>2, <1>3, <2>2, <2>3, <2>4, <2>5, <2>6 DEF SuspectsInv
<1>22. SummaryInv'
  BY <1>1, <1>2, <1>4 DEF IInv, SummaryInv, Between, TwoStage, Suspected, NoStale, NoLoss
<1>23. AnsweredInv'
  BY <1>2 DEF AnsweredInv
<1> QED BY <1>16, <1>17, <1>18, <1>19, <1>20, <1>21, <1>22, <1>23 DEF IInv

LEMMA FinishKeeps == ASSUME IInv, Finish PROVE IInv'
<1>1. /\ tasks = {} /\ tasks' = tasks /\ mem' = mem /\ tr' = tr /\ disk' = disk /\ run' = run
      /\ excused' = excused
      /\ \/ at = "text" /\ at' = "plan" /\ then' = then
         \/ at = "audio" /\ at' = "branch" /\ then' = "end"
  BY DEF Finish, Save, Kept
<1>2. /\ Running /\ ~Saving /\ ~BySegment /\ Running' /\ ~BySegment' /\ (Restarted' <=> Restarted)
      /\ \/ Phase = "text" /\ Phase' = "plan" /\ ~Saving'
         \/ Phase = "audio" /\ Phase' = "end" /\ then' = "end"
  BY <1>1 DEF Running, Saving, Phase, BySegment, Restarted
<1>3. HasMarks' = HasMarks /\ Suspects' = Suspects
  BY <1>1, SameTranslation
<1>4. TypesInv'
  BY <1>1, <1>2 DEF IInv, TypesInv
<1>5. PlaceInv'
  BY <1>1, <1>2 DEF IInv, PlaceInv
<1>6. WrittenInv'
  BY <1>1 DEF WrittenInv
<1>7. TasksInv'
  <2>1. CASE Phase = "text"
    BY <1>2, <2>1 DEF TasksInv
  <2>2. CASE Phase = "audio"
    BY <1>1, <1>2, <2>2 DEF IInv, TasksInv
  <2> QED BY <1>2, <2>1, <2>2
<1>8. KeptInv'
  BY <1>1, <1>2 DEF IInv, KeptInv, NoLoss
<1>9. SuspectsInv'
  <2>1. Suspected(mem.stage1)
    BY <1>2 DEF IInv, SuspectsInv, PlaceInv, Suspected
  <2> QED BY <1>1, <1>2, <1>3, <2>1 DEF IInv, SuspectsInv, OfSuspects, Suspected, NoStale, NoLoss
<1>10. SummaryInv'
  BY <1>1, <1>2, <1>3 DEF IInv, SummaryInv, Between, TwoStage, Suspected, NoStale, NoLoss
<1>11. AnsweredInv'
  BY <1>2 DEF AnsweredInv
<1> QED BY <1>4, <1>5, <1>6, <1>7, <1>8, <1>9, <1>10, <1>11 DEF IInv

LEMMA EndKeeps == ASSUME IInv, End PROVE IInv'
<1>1. /\ tasks = {} /\ at \in {"segment", "end"} /\ at' = "idle" /\ mem' = NoFiles /\ tr' = tr
      /\ disk' = disk /\ tasks' = tasks
      /\ excused' = excused \ (IF at = "end" THEN {"partial"} ELSE {})
      /\ run' = [NoRun EXCEPT !.answered = run.mode = "two-stage-nearby" /\ run.answered]
      /\ run \in [mode : {"none", "segment-audio", "two-stage-nearby"}, scope : {"suspects", "all"},
                resume : BOOLEAN, answered : BOOLEAN]
  BY DEF End, IInv, TypesInv
<1>2. /\ Running /\ ~Saving /\ Phase = at /\ (BySegment <=> at = "segment")
      /\ ~Running' /\ ~Saving' /\ Phase' = "idle" /\ ~Restarted'
  BY <1>1 DEF Running, Saving, Phase, BySegment, Restarted
<1>3. HasMarks' = HasMarks /\ Suspects' = Suspects
  BY <1>1, SameTranslation
<1>4. /\ run'.mode = "none" /\ run'.scope = "suspects" /\ run'.resume = TRUE
      /\ run' \in [mode : {"none", "segment-audio", "two-stage-nearby"}, scope : {"suspects", "all"},
                resume : BOOLEAN, answered : BOOLEAN]
  BY <1>1 DEF NoRun
<1>5. run'.answered => at = "end"
  <2>1. at = "segment" => run.mode = "segment-audio"
    BY <1>2 DEF IInv, PlaceInv
  <2>2. run.mode = "segment-audio" => run'.answered = FALSE
    BY <1>1 DEF NoRun
  <2> QED BY <1>1, <2>1, <2>2
<1>6. TypesInv'
  BY <1>1, <1>2, <1>4, NoFilesAreOK DEF IInv, TypesInv
<1>7. PlaceInv'
  BY <1>1, <1>2 DEF PlaceInv
<1>8. WrittenInv'
  BY <1>1 DEF WrittenInv
<1>9. TasksInv'
  BY <1>2 DEF TasksInv
<1>10. KeptInv'
  BY <1>1, <1>2 DEF IInv, KeptInv, NoLoss
<1>11. SuspectsInv'
  BY <1>1, <1>2, <1>3 DEF IInv, SuspectsInv, OfSuspects, Suspected, NoStale, NoLoss
<1>12. SummaryInv'
  BY <1>1, <1>2, <1>3 DEF IInv, SummaryInv, Between, TwoStage, Suspected, NoStale, NoLoss
<1>13. AnsweredInv'
  <2>1. SUFFICES ASSUME at = "end" PROVE AnsweredInv'
    BY <1>5 DEF AnsweredInv
  <2>2. /\ disk.branch = mem.branch /\ disk.stage1 = mem.stage1 /\ disk.stage2 = mem.stage2
        /\ disk.report = Summary(disk.stage1, disk.stage2)
    BY <1>2, <2>1 DEF IInv, WrittenInv
  <2>3. disk.branch # NoBranch
    BY <1>2, <2>2, BranchIsThere DEF IInv, TypesInv
  <2>4. Suspected(disk.stage1)'
    BY <1>1, <1>2, <1>3, <2>1, <2>2 DEF IInv, SuspectsInv, Suspected
  <2>5. CollectSuspects(disk.stage1) \subseteq Done(disk.stage2) \cup FailedRows(disk.stage2)
    BY <1>2, <2>1, <2>2 DEF IInv, TasksInv
  <2> QED BY <1>1, <2>2, <2>3, <2>4, <2>5 DEF AnsweredInv
<1> QED BY <1>6, <1>7, <1>8, <1>9, <1>10, <1>11, <1>12, <1>13 DEF IInv
-----------------------------------------------------------------------------
(* The other commands, and the end of any. *)
LEMMA RealignKeeps ==
    ASSUME IInv, NEW retry \in BOOLEAN, NEW how, Realign(retry, how)
    PROVE  IInv'
<1> DEFINE cleared == [i \in Ids |-> ClearedFlag(disk.branch[i])]
           taken == DOMAIN how
           lines == [i \in Ids |-> IF i \in taken THEN Realigned(cleared[i], how[i])
                                   ELSE cleared[i]]
<1>1. /\ at = "idle" /\ at' = "realigned" /\ tr' = tr /\ run' = run /\ mem' = mem /\ tasks' = tasks
      /\ excused' = excused /\ disk.branch # NoBranch /\ FilesOK(disk)
      /\ how \in [taken -> {"aligned", "fallback", "failed"}]
  BY DEF Realign, Command, MayRun, IInv, TypesInv
<1>2. /\ ~Running /\ ~Saving /\ ~Running' /\ ~Saving' /\ Phase' = "realigned" /\ ~Restarted'
      /\ ~Restarted
  BY <1>1 DEF Running, Saving, Phase, Restarted
<1>3. /\ disk'.branch = lines /\ disk'.stage1 = disk.stage1 /\ disk'.stage2 = disk.stage2
      /\ disk'.report = disk.report
      /\ disk' = [branch |-> disk'.branch, stage1 |-> disk'.stage1, stage2 |-> disk'.stage2,
                  report |-> disk'.report, realign |-> disk'.realign]
  BY <1>1 DEF Realign, FilesOK
<1>4. HasMarks' = HasMarks /\ Suspects' = Suspects
  BY <1>1, SameTranslation
<1>5. BranchOK(disk.branch)
  BY <1>1 DEF IInv, TypesInv
<1>6. ASSUME NEW i \in Ids
      PROVE  ItemOK(lines[i]) /\ lines[i].edited = disk.branch[i].edited
  <2>1. ItemOK(disk.branch[i])
    BY <1>5 DEF BranchOK
  <2>2. ItemOK(cleared[i]) /\ cleared[i].edited = disk.branch[i].edited
    BY <2>1, ClearedIsOK
  <2>3. i \in taken => how[i] \in {"aligned", "fallback", "failed"}
    BY <1>1
  <2>4. lines[i] = IF i \in taken THEN Realigned(cleared[i], how[i]) ELSE cleared[i]
    OBVIOUS
  <2> HIDE DEF cleared, taken, lines
  <2> QED BY <2>2, <2>3, <2>4, RealignedIsOK
<1>7. BranchOK(lines)
  BY <1>6 DEF BranchOK, ItemOK
<1>8. Kept2(disk.stage2, disk.branch) => Kept2(disk.stage2, lines)
  BY <1>6 DEF Kept2
<1> HIDE DEF lines, cleared, taken
<1>9. TypesInv'
  BY <1>1, <1>2, <1>3, <1>7 DEF IInv, TypesInv, FilesOK
<1>10. PlaceInv'
  BY <1>1, <1>2 DEF PlaceInv
<1>11. WrittenInv'
  BY <1>1 DEF WrittenInv
<1>12. TasksInv'
  BY <1>2 DEF TasksInv
<1>13. KeptInv'
  BY <1>1, <1>2, <1>3, <1>7, <1>8, BranchIsThere DEF IInv, KeptInv, KeptOrNone, NoLoss
<1>14. SuspectsInv'
  BY <1>1, <1>2, <1>3, <1>4 DEF IInv, SuspectsInv, OfSuspects, Suspected, NoStale, NoLoss
<1>15. SummaryInv'
  BY <1>1, <1>2, <1>3, <1>4 DEF IInv, SummaryInv, Between, TwoStage, Suspected, NoStale, NoLoss
<1>16. AnsweredInv'
  BY <1>1, <1>2, <1>3, <1>4, <1>7, BranchIsThere DEF IInv, AnsweredInv, Suspected
<1> QED BY <1>9, <1>10, <1>11, <1>12, <1>13, <1>14, <1>15, <1>16 DEF IInv

LEMMA RealignWithoutAudioKeeps ==
    ASSUME IInv, NEW retry \in BOOLEAN, RealignWithoutAudio(retry)
    PROVE  IInv'
<1>1. /\ at = "idle" /\ at' = "realigned" /\ tr' = tr /\ run' = run /\ mem' = mem /\ tasks' = tasks
      /\ excused' = excused /\ disk' = disk
  BY DEF RealignWithoutAudio, Command, MayRun
<1>2. /\ ~Running /\ ~Saving /\ ~Running' /\ ~Saving' /\ Phase' = "realigned" /\ ~Restarted'
      /\ ~Restarted
  BY <1>1 DEF Running, Saving, Phase, Restarted
<1>3. HasMarks' = HasMarks /\ Suspects' = Suspects
  BY <1>1, SameTranslation
<1>4. TypesInv'
  BY <1>1, <1>2 DEF IInv, TypesInv
<1>5. PlaceInv' /\ WrittenInv' /\ TasksInv'
  BY <1>1, <1>2 DEF PlaceInv, WrittenInv, TasksInv
<1>6. KeptInv'
  BY <1>1, <1>2 DEF IInv, KeptInv, NoLoss
<1>7. SuspectsInv'
  BY <1>1, <1>2, <1>3 DEF IInv, SuspectsInv, OfSuspects, Suspected, NoStale, NoLoss
<1>8. SummaryInv'
  BY <1>1, <1>2, <1>3 DEF IInv, SummaryInv, Between, TwoStage, Suspected, NoStale, NoLoss
<1>9. AnsweredInv'
  BY <1>1, <1>2, <1>3 DEF IInv, AnsweredInv, Suspected
<1> QED BY <1>4, <1>5, <1>6, <1>7, <1>8, <1>9 DEF IInv

LEMMA RealignReportKeeps == ASSUME IInv, RealignReport PROVE IInv'
<1>1. /\ at = "realigned" /\ at' = "idle" /\ tr' = tr /\ run' = run /\ mem' = mem /\ tasks' = tasks
      /\ excused' = excused /\ FilesOK(disk)
  BY DEF RealignReport, IInv, TypesInv
<1>2. /\ ~Running /\ ~Saving /\ ~Running' /\ ~Saving' /\ Phase' = "idle" /\ ~Restarted'
      /\ ~Restarted
  BY <1>1 DEF Running, Saving, Phase, Restarted
<1>3. /\ disk'.branch = disk.branch /\ disk'.stage1 = disk.stage1 /\ disk'.stage2 = disk.stage2
      /\ disk'.report = disk.report
      /\ disk' = [branch |-> disk'.branch, stage1 |-> disk'.stage1, stage2 |-> disk'.stage2,
                  report |-> disk'.report, realign |-> disk'.realign]
  BY <1>1 DEF RealignReport, FilesOK
<1>4. HasMarks' = HasMarks /\ Suspects' = Suspects
  BY <1>1, SameTranslation
<1>5. TypesInv'
  BY <1>1, <1>2, <1>3 DEF IInv, TypesInv, FilesOK
<1>6. PlaceInv' /\ WrittenInv' /\ TasksInv'
  BY <1>1, <1>2 DEF PlaceInv, WrittenInv, TasksInv
<1>7. KeptInv'
  BY <1>1, <1>2, <1>3 DEF IInv, KeptInv, KeptOrNone, NoLoss
<1>8. SuspectsInv'
  BY <1>1, <1>2, <1>3, <1>4 DEF IInv, SuspectsInv, OfSuspects, Suspected, NoStale, NoLoss
<1>9. SummaryInv'
  BY <1>1, <1>2, <1>3, <1>4 DEF IInv, SummaryInv, Between, TwoStage, Suspected, NoStale, NoLoss
<1>10. AnsweredInv'
  BY <1>1, <1>2, <1>3, <1>4 DEF IInv, AnsweredInv, Suspected
<1> QED BY <1>5, <1>6, <1>7, <1>8, <1>9, <1>10 DEF IInv

LEMMA KillKeeps == ASSUME IInv, Kill PROVE IInv'
<1>1. /\ at # "idle" /\ at' = "idle" /\ tr' = tr /\ run' = NoRun /\ mem' = NoFiles /\ disk' = disk
      /\ excused \subseteq excused' /\ FilesOK(disk)
      /\ excused' \cap {"stale", "forced", "all"} = excused \cap {"stale", "forced", "all"}
  BY DEF Kill, IInv, TypesInv
<1>2. ~Running' /\ ~Saving' /\ Phase' = "idle" /\ ~Restarted' /\ run'.answered = FALSE
  BY <1>1 DEF Running, Saving, Phase, Restarted, NoRun
<1>3. HasMarks' = HasMarks /\ Suspects' = Suspects
  BY <1>1, SameTranslation
<1>4. (NoLoss' => NoLoss) /\ (NoStale' => NoStale)
  BY <1>1 DEF NoLoss, NoStale
<1>5. Restarted /\ at = "reports" /\ Done(disk.stage2) # {} => ~NoLoss'
  BY DEF Kill, NoLoss, Restarted, IInv, PlaceInv
<1>6. Between /\ TwoStage => ~NoStale'
  <2>1. TwoStage => disk.report # NoReport
    BY DEF TwoStage, NoReport
  <2> QED BY <2>1 DEF Kill, NoLoss, NoStale, Between, Restarted, IInv, PlaceInv
<1>7. at = "summary" /\ ~HasMarks => "partial" \in excused'
  BY DEF Kill
<1>8. TypesInv'
  BY <1>1, <1>2, NoFilesAreOK DEF IInv, TypesInv, NoRun
<1>9. PlaceInv' /\ WrittenInv' /\ TasksInv'
  BY <1>1, <1>2 DEF PlaceInv, WrittenInv, TasksInv
<1>10. KeptInv'
  <2>1. ASSUME NoLoss' PROVE KeptOrNone(disk.stage2, disk.branch)
    <3>1. CASE at = "reports" /\ Restarted
      BY <1>1, <1>5, <2>1, <3>1, NothingApplied DEF FilesOK, KeptOrNone
    <3>2. CASE ~(at = "reports" /\ Restarted)
      BY <1>4, <2>1, <3>2 DEF IInv, KeptInv
    <3> QED BY <3>1, <3>2
  <2> QED BY <1>1, <1>2, <2>1 DEF KeptInv
<1>11. SuspectsInv'
  BY <1>1, <1>2, <1>3, <1>4 DEF IInv, SuspectsInv, OfSuspects, Suspected
<1>12. SummaryInv'
  BY <1>1, <1>2, <1>3, <1>4, <1>6, <1>7 DEF IInv, SummaryInv, Between, TwoStage, Suspected
<1>13. AnsweredInv'
  BY <1>2 DEF AnsweredInv
<1> QED BY <1>8, <1>9, <1>10, <1>11, <1>12, <1>13 DEF IInv

LEMMA RetranslateKeeps ==
    ASSUME IInv, NEW clear \in BOOLEAN, NEW marks \in Markings, Retranslate(clear, marks)
    PROVE  IInv'
<1>1. /\ at = "idle" /\ at' = at /\ mem' = mem /\ tasks' = tasks
      /\ \E noted \in BOOLEAN :
            tr' = [version |-> tr.version + 1, line |-> marks, noted |-> noted, reported |-> tr.reported]
      /\ run' = [run EXCEPT !.answered = FALSE] /\ FilesOK(disk)
      /\ excused' = excused \cup (IF ~clear THEN {"stale"}
                                 ELSE IF Done(disk.stage2) # {} THEN {"forced"} ELSE {})
  BY DEF Retranslate, Command, MayRun, IInv, TypesInv
<1>2. ~Running' /\ ~Running /\ ~Saving' /\ Phase' = "idle" /\ ~Restarted'
  BY <1>1 DEF Running, Saving, Phase, Restarted
<1>3. /\ disk'.branch = IF clear THEN NoBranch ELSE disk.branch
      /\ disk'.report = IF clear THEN NoReport ELSE disk.report
      /\ disk'.stage1 = disk.stage1 /\ disk'.stage2 = disk.stage2
      /\ disk' = [branch |-> disk'.branch, stage1 |-> disk'.stage1, stage2 |-> disk'.stage2,
                  report |-> disk'.report, realign |-> disk'.realign]
  BY <1>1 DEF Retranslate, FilesOK
<1>4. NoLoss' => clear /\ Done(disk.stage2) = {}
  BY <1>1 DEF NoLoss
<1>5. TypesInv'
  <2>1. tr' \in [version : Nat \ {0}, noted : BOOLEAN, reported : {0, 1},
               line : [Ids -> [types : SUBSET SuspicionTypes, audio : BOOLEAN, realign : BOOLEAN]]]
    BY <1>1, ProofreadAssumption DEF IInv, TypesInv
  <2> QED BY <1>1, <1>2, <1>3, <2>1 DEF IInv, TypesInv, FilesOK, ReportOK
<1>6. PlaceInv' /\ WrittenInv' /\ TasksInv'
  BY <1>1, <1>2 DEF PlaceInv, WrittenInv, TasksInv
<1>7. KeptInv'
  BY <1>2, <1>3, <1>4 DEF KeptInv, KeptOrNone
<1>8. SuspectsInv' /\ SummaryInv'
  BY <1>1, <1>2, <1>3, <1>4 DEF SuspectsInv, SummaryInv, OfSuspects, NoStale, TwoStage, NoReport
<1>9. run'.answered = FALSE
  BY <1>1 DEF IInv, TypesInv
<1>10. AnsweredInv'
  BY <1>9 DEF AnsweredInv
<1> QED BY <1>5, <1>6, <1>7, <1>8, <1>10 DEF IInv

LEMMA ApplySuspectsKeeps ==
    ASSUME IInv, NEW i \in Ids, NEW types \in SUBSET SuspicionTypes, ApplySuspects(i, types)
    PROVE  IInv'
<1>1. /\ at = "idle" /\ at' = at /\ mem' = mem /\ tasks' = tasks /\ disk' = disk
      /\ tr' = [tr EXCEPT !.line[i] = Merged(tr.line[i], types), !.noted = TRUE, !.reported = 1]
      /\ run' = [run EXCEPT !.answered = FALSE] /\ FilesOK(disk)
      /\ excused' = excused \cup (IF Done(disk.stage2) # {} THEN {"stale"} ELSE {})
  BY DEF ApplySuspects, Command, MayRun, IInv, TypesInv
<1>2. ~Running' /\ ~Running /\ ~Saving' /\ Phase' = "idle" /\ ~Restarted' /\ ~Restarted
  BY <1>1 DEF Running, Saving, Phase, Restarted
<1>3. (NoLoss' => NoLoss /\ Done(disk.stage2) = {}) /\ (NoStale' => NoStale /\ NoLoss')
  BY <1>1 DEF NoLoss, NoStale
<1>4. /\ tr' \in [version : Nat \ {0}, noted : BOOLEAN, reported : {0, 1},
               line : [Ids -> [types : SUBSET SuspicionTypes, audio : BOOLEAN, realign : BOOLEAN]]]
      /\ tr'.reported = 1
  <2> DEFINE line == tr.line[i]
             LineSet == [types : SUBSET SuspicionTypes, audio : BOOLEAN, realign : BOOLEAN]
  <2>1. line \in LineSet
    BY DEF IInv, TypesInv
  <2>2. Merged(line, types) \in LineSet
    BY <2>1 DEF Merged
  <2> HIDE DEF line, LineSet
  <2>3. tr \in [version : Nat \ {0}, noted : BOOLEAN, reported : {0, 1}, line : [Ids -> LineSet]]
    BY DEF IInv, TypesInv, LineSet
  <2>4. tr' = [tr EXCEPT !.line[i] = Merged(line, types), !.noted = TRUE, !.reported = 1]
    BY <1>1 DEF line
  <2>5. tr' \in [version : Nat \ {0}, noted : BOOLEAN, reported : {0, 1}, line : [Ids -> LineSet]] /\ tr'.reported = 1
    BY <2>2, <2>3, <2>4
  <2> QED BY <2>5 DEF LineSet
<1>5. TypesInv'
  BY <1>1, <1>2, <1>4 DEF IInv, TypesInv
<1>6. PlaceInv' /\ WrittenInv' /\ TasksInv'
  BY <1>1, <1>2 DEF PlaceInv, WrittenInv, TasksInv
<1>7. KeptInv'
  BY <1>1, <1>2, <1>3 DEF IInv, KeptInv
<1>8. SuspectsInv'
  BY <1>1, <1>2, <1>3 DEF SuspectsInv, OfSuspects
<1>9. SummaryInv'
  <2>1. ASSUME NoStale', TwoStage'
        PROVE  disk.report.reviewed = 0
    <3>1. NoStale /\ TwoStage /\ ~Between
      BY <1>1, <1>3, <2>1 DEF TwoStage, Between
    <3>2. disk.report.reviewed <= Cardinality(Done(disk.stage2)) /\ Done(disk.stage2) = {}
      BY <1>3, <2>1, <3>1 DEF IInv, SummaryInv
    <3>3. disk.report.reviewed \in Nat
      BY <1>1, <3>1 DEF FilesOK, ReportOK, TwoStage, NoReport
    <3> QED BY <3>2, <3>3, FS_EmptySet
  <2>2. 0 <= Cardinality(Done(disk.stage2))
    BY <1>1, RowsAreCounted DEF FilesOK
  <2> QED BY <1>1, <1>4, <2>1, <2>2 DEF SummaryInv
<1>10. run'.answered = FALSE
  BY <1>1 DEF IInv, TypesInv
<1>11. AnsweredInv'
  BY <1>10 DEF AnsweredInv
<1> QED BY <1>5, <1>6, <1>7, <1>8, <1>9, <1>11 DEF IInv

LEMMA NextKeeps == IInv /\ [Next]_vars => IInv'
<1> SUFFICES ASSUME IInv, [Next]_vars PROVE IInv'
  OBVIOUS
<1>1. ASSUME NEW clear \in BOOLEAN, NEW m \in Markings, Retranslate(clear, m) PROVE IInv'
  BY <1>1, RetranslateKeeps
<1>2. ASSUME NEW i \in Ids, NEW t \in {{Heard}, {Low, Shifted}}, ApplySuspects(i, t) PROVE IInv'
  <2>1. t \in SUBSET SuspicionTypes
    BY DEF SuspicionTypes
  <2> QED BY <1>2, <2>1, ApplySuspectsKeeps
<1>3. ASSUME NEW r \in Reviews, Start(r.mode, r.scope, r.resume) PROVE IInv'
  BY <1>3, StartKeeps
<1>4. CASE WriteBranch \/ WriteReports \/ WriteSummary
  BY <1>4, WriteBranchKeeps, WriteReportsKeeps, WriteSummaryKeeps
<1>5. ASSUME NEW ids \in tasks, NEW ok \in BOOLEAN, NEW c \in SUBSET ids, SegmentAnswer(ids, ok, c)
      PROVE  IInv'
  BY <1>5, SegmentAnswerKeeps
<1>6. CASE PlanSegments \/ Stage1FromMarks \/ PlanStage1 \/ PlanReview
  BY <1>6, PlanSegmentsKeeps, Stage1FromMarksKeeps, PlanStage1Keeps, PlanReviewKeeps
<1>7. ASSUME NEW ids \in tasks, NEW ok \in BOOLEAN, NEW s \in SUBSET ids, Stage1Answer(ids, ok, s)
      PROVE  IInv'
  BY <1>7, Stage1AnswerKeeps
<1>8. ASSUME NEW ids \in tasks, NEW r \in [ids -> Outcomes \cup {FailedReview}], AudioAnswer(ids, r)
      PROVE  IInv'
  BY <1>8, AudioAnswerKeeps
<1>9. CASE Finish \/ End \/ RealignReport \/ Kill
  BY <1>9, FinishKeeps, EndKeeps, RealignReportKeeps, KillKeeps
<1>10. ASSUME NEW retry \in BOOLEAN, NEW how, Realign(retry, how) \/ RealignWithoutAudio(retry)
       PROVE  IInv'
  BY <1>10, RealignKeeps, RealignWithoutAudioKeeps
<1>11. CASE UNCHANGED vars
  <2>1. /\ tr' = tr /\ disk' = disk /\ run' = run /\ mem' = mem /\ tasks' = tasks /\ at' = at
        /\ then' = then /\ excused' = excused
    BY <1>11 DEF vars
  <2>2. HasMarks' = HasMarks /\ Suspects' = Suspects
    BY <2>1, SameTranslation
  <2>3. (Running' <=> Running) /\ (Saving' <=> Saving) /\ Phase' = Phase
        /\ (BySegment' <=> BySegment) /\ (Restarted' <=> Restarted)
    BY <2>1 DEF Running, Saving, Phase, BySegment, Restarted
  <2>4. TypesInv' /\ PlaceInv' /\ WrittenInv' /\ TasksInv' /\ KeptInv'
    BY <2>1, <2>2, <2>3 DEF IInv, TypesInv, PlaceInv, WrittenInv, TasksInv, KeptInv, NoLoss
  <2>5. SuspectsInv' /\ SummaryInv' /\ AnsweredInv'
    BY <2>1, <2>2, <2>3 DEF IInv, SuspectsInv, SummaryInv, AnsweredInv, OfSuspects, Suspected,
       NoStale, NoLoss, Between, TwoStage
  <2> QED BY <2>4, <2>5 DEF IInv
<1> QED BY <1>1, <1>2, <1>3, <1>4, <1>5, <1>6, <1>7, <1>8, <1>9, <1>10, <1>11 DEF Next

(* The invariant of a review and its files, by induction over the steps. *)
THEOREM ReviewInvariant == Spec => []IInv
BY InitIsOK, NextKeeps, PTL DEF Spec
-----------------------------------------------------------------------------
(* What is put to review is counted first.  Most steps change neither the  *)
(* summary nor the rows on disk.                                           *)
LEMMA SameSummary ==
    ASSUME SummaryCounts, tr' = tr, excused \subseteq excused',
           disk'.report = disk.report, disk'.stage1 = disk.stage1, disk'.stage2 = disk.stage2,
           at \notin {"summary", "end"}, at' \notin {"summary", "end"}
    PROVE  SummaryCounts'
<1>1. HasMarks' = HasMarks /\ Suspects' = Suspects
  BY SameTranslation
<1>2. NoStale' => NoStale
  BY DEF NoStale, NoLoss
<1> QED BY <1>1, <1>2 DEF SummaryCounts, Between, TwoStage, Suspected

LEMMA CountedInit == Init => CountedInv
<1> SUFFICES ASSUME Init PROVE CountedInv
  OBVIOUS
<1>1. at = "idle" /\ Phase = "idle" /\ ~Saving /\ Done(disk.stage2) = {}
  BY NoFilesAreOK DEF Init, Phase, Saving
<1> QED BY <1>1 DEF CountedInv, NotYetHeard, CountedFirst, SummaryCounts

(* A run that asks, hears an answer, or goes on writes first; what it      *)
(* listened to is only in memory until the next step.                      *)
LEMMA StartCounted ==
    ASSUME IInv, CountedInv, NEW r \in Reviews, Start(r.mode, r.scope, r.resume)
    PROVE  CountedInv'
<1>1. /\ at = "idle" /\ at' \in {"stage1", "segments"} /\ tr' = tr /\ disk' = disk
      /\ excused \subseteq excused' /\ FilesOK(disk)
  BY DEF Start, MayRun, IInv, TypesInv
<1>2. ~Saving' /\ Phase' = at'
  BY <1>1 DEF Saving, Phase
<1>3. mem'.stage2 = disk.stage2 \/ mem'.stage2 = NoStage2
  BY <1>1 DEF Start, FilesOK
<1>4. NotYetHeard'
  BY <1>1, <1>3, NoFilesAreOK DEF NotYetHeard, Done
<1>5. CountedFirst'
  BY <1>1, <1>2 DEF CountedFirst
<1>6. SummaryCounts'
  BY <1>1, SameSummary DEF CountedInv
<1> QED BY <1>4, <1>5, <1>6 DEF CountedInv

LEMMA AskCounted ==
    ASSUME IInv, CountedInv,
           \/ PlanSegments \/ Stage1FromMarks \/ PlanStage1 \/ PlanReview \/ Finish
           \/ \E ids \in tasks, ok \in BOOLEAN : \E c \in SUBSET ids : SegmentAnswer(ids, ok, c)
           \/ \E ids \in tasks, ok \in BOOLEAN : \E s \in SUBSET ids : Stage1Answer(ids, ok, s)
           \/ \E ids \in tasks : \E r \in [ids -> Outcomes \cup {FailedReview}] : AudioAnswer(ids, r)
    PROVE  CountedInv'
<1>1. /\ tr' = tr /\ disk' = disk /\ excused' = excused
      /\ FilesOK(mem)
  BY DEF PlanSegments, Stage1FromMarks, PlanStage1, PlanReview, Finish, SegmentAnswer,
         Stage1Answer, AudioAnswer, Kept, IInv, TypesInv
<1>2. HasMarks' = HasMarks
  BY <1>1, SameTranslation
<1>3. /\ \/ at = "segments" /\ (at' = "segment" \/ (at' = "branch" /\ then' = "segment"))
         \/ at = "segment" /\ at' = "branch" /\ then' = "segment"
         \/ at = "stage1" /\ at' = "branch" /\ then' = "plan" /\ mem'.stage2 = mem.stage2
         \/ /\ at = "stage1" /\ mem'.stage2 = mem.stage2
            /\ at' = "text" \/ (at' = "branch" /\ then' = "text")
         \/ at = "plan" /\ at' = "audio" /\ mem' = mem
         \/ at = "text" /\ at' = "plan" /\ mem' = mem /\ ~HasMarks
         \/ at = "text" /\ at' = "branch" /\ then' = "text" /\ mem'.stage2 = mem.stage2
         \/ at = "audio" /\ at' = "branch" /\ then' = "end" /\ mem' = mem
         \/ at = "audio" /\ at' = "branch" /\ then' = "audio" /\ mem'.stage1 = mem.stage1
  <2>1. at = "text" => ~HasMarks
    BY DEF IInv, PlaceInv, Phase, Saving
  <2>2. CASE PlanSegments
    <3>1. at = "segments" /\ (Save("segment") \/ at' = "segment")
      BY <2>2, Zenon DEF PlanSegments
    <3> QED BY <3>1 DEF Save
  <2>3. CASE Stage1FromMarks
    BY <1>1, <2>3 DEF Stage1FromMarks, Save, FilesOK
  <2>4. CASE PlanStage1
    <3>1. at = "stage1" /\ (Save("text") \/ at' = "text")
      BY <2>4, Zenon DEF PlanStage1
    <3>2. mem'.stage2 = mem.stage2
      BY <1>1, <2>4 DEF PlanStage1, FilesOK
    <3> QED BY <3>1, <3>2 DEF Save
  <2>5. CASE PlanReview \/ Finish
    BY <2>1, <2>5 DEF PlanReview, Finish, Save
  <2>6. ASSUME NEW ids \in tasks, NEW ok \in BOOLEAN, NEW c \in SUBSET ids,
               SegmentAnswer(ids, ok, c)
        PROVE  at = "segment" /\ at' = "branch" /\ then' = "segment"
    BY <2>6 DEF SegmentAnswer, Save
  <2>7. ASSUME NEW ids \in tasks, NEW ok \in BOOLEAN, NEW s \in SUBSET ids,
               Stage1Answer(ids, ok, s)
        PROVE  at = "text" /\ at' = "branch" /\ then' = "text" /\ mem'.stage2 = mem.stage2
    BY <1>1, <2>7 DEF Stage1Answer, Save, FilesOK
  <2>8. ASSUME NEW ids \in tasks, NEW r \in [ids -> Outcomes \cup {FailedReview}],
               AudioAnswer(ids, r)
        PROVE  at = "audio" /\ at' = "branch" /\ then' = "audio" /\ mem'.stage1 = mem.stage1
    BY <1>1, <2>8 DEF AudioAnswer, Save, FilesOK
  <2> QED BY <2>2, <2>3, <2>4, <2>5, <2>6, <2>7, <2>8
<1>4. NotYetHeard'
  BY <1>1, <1>3 DEF CountedInv, NotYetHeard, Phase, Saving
<1>5. CountedFirst'
  BY <1>1, <1>2, <1>3 DEF CountedInv, CountedFirst, Saving, TwoStage
<1>6. SummaryCounts'
  BY <1>1, <1>3, SameSummary DEF CountedInv
<1> QED BY <1>4, <1>5, <1>6 DEF CountedInv

(* The files are written in turn.                                          *)
LEMMA WriteCounted ==
    ASSUME IInv, CountedInv, WriteBranch \/ WriteReports \/ WriteSummary
    PROVE  CountedInv'
<1>1. /\ Saving /\ Phase = then /\ then' = then /\ tr' = tr /\ run' = run /\ mem' = mem
      /\ excused' = excused /\ FilesOK(disk) /\ FilesOK(mem)
      /\ then \in {"segment", "text", "plan", "audio", "end"} /\ Phase' = Phase
      /\ Running /\ (BySegment <=> then = "segment")
  BY DEF WriteBranch, WriteReports, WriteSummary, IInv, TypesInv, PlaceInv, Running, Saving,
         Phase, BySegment
<1>2. HasMarks' = HasMarks /\ Suspects' = Suspects
  BY <1>1, SameTranslation
<1>3. /\ then = "text" => ~HasMarks
      /\ then \in {"plan", "audio", "end"} => Suspected(mem.stage1)
      /\ BySegment <=> run.mode = "segment-audio"
  BY <1>1 DEF IInv, PlaceInv, SuspectsInv
<1>4. CASE WriteBranch
  <2>1. /\ at = "branch" /\ at' = "reports" /\ disk'.report = disk.report
        /\ disk'.stage1 = disk.stage1 /\ disk'.stage2 = disk.stage2
    BY <1>1, <1>4 DEF WriteBranch, FilesOK
  <2>2. Saving'
    BY <2>1 DEF Saving
  <2>3. NotYetHeard' /\ CountedFirst'
    BY <1>1, <1>2, <2>1, <2>2 DEF CountedInv, NotYetHeard, CountedFirst, TwoStage
  <2>4. SummaryCounts'
    BY <1>1, <2>1, SameSummary DEF CountedInv
  <2> QED BY <2>3, <2>4 DEF CountedInv
<1>5. CASE WriteReports
  <2>1. /\ at = "reports" /\ at' = "summary" /\ disk'.report = disk.report
        /\ disk'.stage1 = IF BySegment THEN disk.stage1 ELSE mem.stage1
        /\ disk'.stage2 = IF BySegment THEN disk.stage2 ELSE mem.stage2
    BY <1>1, <1>3, <1>5 DEF WriteReports, FilesOK
  <2>2. Saving' /\ TwoStage' = TwoStage /\ NoStale' = NoStale
    BY <1>1, <2>1 DEF Saving, TwoStage, NoStale, NoLoss
  <2>3. NotYetHeard' /\ CountedFirst'
    BY <1>1, <1>2, <2>1, <2>2 DEF CountedInv, NotYetHeard, CountedFirst
  <2>4. SUFFICES ASSUME NoStale, TwoStage, "partial" \notin excused, ~Between', HasMarks,
                        Done(disk'.stage2) # {}
                 PROVE  /\ disk.report.candidates = Cardinality(CollectSuspects(disk'.stage1))
                        /\ Suspected(disk.stage1)'
    BY <1>1, <1>2, <2>1, <2>2, <2>3 DEF CountedInv, SummaryCounts
  <2>5. CASE BySegment
    <3>1. /\ disk.report.candidates = Cardinality(CollectSuspects(disk.stage1))
          /\ Suspected(disk.stage1)
      BY <2>1, <2>4, <2>5 DEF CountedInv, SummaryCounts, Between
    <3> QED BY <1>2, <2>1, <2>5, <3>1 DEF Suspected
  <2>6. CASE then = "plan"
    <3>1. ~BySegment /\ Done(disk.stage2) # {}
      BY <1>1, <2>1, <2>4, <2>6 DEF CountedInv, NotYetHeard
    <3>2. /\ disk.report.candidates = Cardinality(CollectSuspects(disk.stage1))
          /\ Suspected(disk.stage1)
      BY <2>1, <2>4, <3>1 DEF CountedInv, SummaryCounts, Between
    <3>3. CollectSuspects(disk.stage1) = CollectSuspects(mem.stage1)
      BY <1>3, <2>4, <2>6, <3>2 DEF Suspected
    <3> QED BY <1>2, <1>3, <2>1, <2>6, <3>1, <3>2, <3>3 DEF Suspected
  <2>7. CASE then \in {"audio", "end"}
    <3>1. disk.report.candidates = Cardinality(CollectSuspects(mem.stage1))
      BY <1>1, <2>4, <2>7 DEF CountedInv, CountedFirst
    <3> QED BY <1>1, <1>2, <1>3, <2>1, <2>7, <3>1 DEF Suspected
  <2> QED BY <1>1, <1>3, <2>4, <2>5, <2>6, <2>7
<1>6. CASE WriteSummary
  <2>1. /\ at = "summary" /\ at' = then
        /\ disk'.report = IF BySegment THEN mem.report ELSE Summary(mem.stage1, mem.stage2)
        /\ disk'.stage1 = disk.stage1 /\ disk'.stage2 = disk.stage2
    BY <1>1, <1>3, <1>6 DEF WriteSummary, FilesOK
  <2>2. ~BySegment => disk.stage1 = mem.stage1 /\ disk.stage2 = mem.stage2
    BY <2>1 DEF IInv, WrittenInv
  <2>3. ~Saving'
    BY <1>1, <2>1 DEF Saving
  <2>4. NotYetHeard'
    BY <1>1, <2>1 DEF CountedInv, NotYetHeard
  <2>5. BySegment => ~TwoStage'
    BY <1>1, <2>1 DEF IInv, PlaceInv, TwoStage
  <2>6. ~BySegment => TwoStage' /\ disk'.report.candidates = Cardinality(CollectSuspects(mem.stage1))
    BY <1>1, <2>1, RowsAreCounted DEF TwoStage, FilesOK
  <2>7. CountedFirst'
    BY <1>1, <2>1, <2>3, <2>6 DEF CountedFirst
  <2>8. ~BySegment => Suspected(disk.stage1)'
    BY <1>1, <1>2, <1>3, <2>1, <2>2 DEF Suspected
  <2>9. SummaryCounts'
    BY <2>1, <2>2, <2>5, <2>6, <2>8 DEF SummaryCounts
  <2> QED BY <2>4, <2>7, <2>9 DEF CountedInv
<1> QED BY <1>4, <1>5, <1>6

(* Between commands nothing is being counted.                              *)
LEMMA CommandCounted ==
    ASSUME IInv, CountedInv,
           \/ \E clear \in BOOLEAN, m \in Markings : Retranslate(clear, m)
           \/ \E i \in Ids, t \in {{Heard}, {Low, Shifted}} : ApplySuspects(i, t)
           \/ \E retry \in BOOLEAN, how \in UNION {[p -> {"aligned", "fallback", "failed"}] :
                                                   p \in SUBSET Ids} : Realign(retry, how)
           \/ \E retry \in BOOLEAN : RealignWithoutAudio(retry)
           \/ RealignReport \/ End \/ Kill
    PROVE  CountedInv'
<1>1. at' \in {"idle", "realigned"}
  BY DEF Retranslate, ApplySuspects, Realign, RealignWithoutAudio, RealignReport, End, Kill,
         Command, MayRun
<1>2. ~Saving' /\ Phase' = at'
  BY <1>1 DEF Saving, Phase
<1>3. NotYetHeard' /\ CountedFirst'
  BY <1>1, <1>2 DEF NotYetHeard, CountedFirst
<1>4. FilesOK(disk)
  BY DEF IInv, TypesInv
<1>5. ASSUME NEW clear \in BOOLEAN, NEW m \in Markings, Retranslate(clear, m)
      PROVE  SummaryCounts'
  <2>1. NoStale' => Done(disk.stage2) = {} /\ disk'.stage2 = disk.stage2
    BY <1>4, <1>5 DEF Retranslate, NoStale, NoLoss, FilesOK
  <2> QED BY <2>1 DEF SummaryCounts
<1>6. ASSUME NEW i \in Ids, NEW t \in {{Heard}, {Low, Shifted}}, ApplySuspects(i, t)
      PROVE  SummaryCounts'
  <2>1. NoStale' => Done(disk.stage2) = {} /\ disk' = disk
    BY <1>6 DEF ApplySuspects, NoStale, NoLoss
  <2> QED BY <2>1 DEF SummaryCounts
<1>7. ASSUME NEW retry \in BOOLEAN, NEW how,
             Realign(retry, how) \/ RealignWithoutAudio(retry) \/ RealignReport
      PROVE  SummaryCounts'
  <2>1. /\ tr' = tr /\ excused' = excused /\ at \in {"idle", "realigned"}
        /\ disk'.report = disk.report /\ disk'.stage1 = disk.stage1 /\ disk'.stage2 = disk.stage2
    BY <1>4, <1>7 DEF Realign, RealignWithoutAudio, RealignReport, Command, MayRun, FilesOK
  <2> QED BY <1>1, <2>1, SameSummary DEF CountedInv
<1>8. CASE End
  <2>1. /\ tr' = tr /\ disk' = disk /\ at \in {"segment", "end"}
        /\ at = "end" \/ excused' = excused
        /\ excused' \cap {"stale", "forced", "restart", "all"} =
              excused \cap {"stale", "forced", "restart", "all"}
    BY <1>8 DEF End
  <2>2. HasMarks' = HasMarks /\ Suspects' = Suspects
    BY <2>1, SameTranslation
  <2>3. NoStale' => NoStale
    BY <2>1 DEF NoStale, NoLoss
  <2>4. SummaryCounts'
    BY <1>1, <2>1, <2>2, <2>3 DEF CountedInv, SummaryCounts, Between, TwoStage, Suspected
  <2> QED BY <1>3, <2>4 DEF CountedInv
<1>9. CASE Kill
  <2>1. /\ tr' = tr /\ disk' = disk /\ at # "idle" /\ excused \subseteq excused'
        /\ at = "summary" /\ ~HasMarks => "partial" \in excused'
    BY <1>9 DEF Kill
  <2>2. HasMarks' = HasMarks /\ Suspects' = Suspects
    BY <2>1, SameTranslation
  <2>3. NoStale' => NoStale
    BY <2>1 DEF NoStale, NoLoss
  <2>4. Between /\ TwoStage => ~NoStale'
    <3>1. TwoStage => disk.report # NoReport
      BY DEF TwoStage, NoReport
    <3> QED BY <1>9, <3>1 DEF Kill, NoLoss, NoStale, Between, Restarted, IInv, PlaceInv
  <2>5. SummaryCounts'
    BY <1>1, <2>1, <2>2, <2>3, <2>4 DEF CountedInv, SummaryCounts, Between, TwoStage, Suspected
  <2> QED BY <1>3, <2>5 DEF CountedInv
<1> QED BY <1>3, <1>5, <1>6, <1>7, <1>8, <1>9 DEF CountedInv

LEMMA CountedKeeps == IInv /\ CountedInv /\ [Next]_vars => CountedInv'
<1> SUFFICES ASSUME IInv, CountedInv, [Next]_vars PROVE CountedInv'
  OBVIOUS
<1>1. CASE UNCHANGED vars
  <2>1. /\ tr' = tr /\ disk' = disk /\ run' = run /\ mem' = mem /\ at' = at
        /\ then' = then /\ excused' = excused
    BY <1>1 DEF vars
  <2>2. HasMarks' = HasMarks /\ Suspects' = Suspects
    BY <2>1, SameTranslation
  <2>3. (Saving' <=> Saving) /\ Phase' = Phase /\ (Between' <=> Between)
    BY <2>1 DEF Saving, Phase, Between, Restarted, Running, BySegment
  <2> QED BY <2>1, <2>2, <2>3 DEF CountedInv, NotYetHeard, CountedFirst, SummaryCounts,
             TwoStage, Suspected, NoStale, NoLoss
<1>2. CASE Next
  BY <1>2, StartCounted, AskCounted, WriteCounted, CommandCounted DEF Next
<1> QED BY <1>1, <1>2

LEMMA CountedInvariant == Spec => []CountedInv
BY CountedInit, CountedKeeps, ReviewInvariant, PTL DEF Spec
-----------------------------------------------------------------------------
(* A change that the report of a completed review says was applied is in   *)
(* the branch, for any number of lines, commands, reviews and kills.       *)
THEOREM AppliedIsKeptAlways == Spec => []AppliedIsKept
<1>1. IInv => AppliedIsKept
  BY DEF IInv, KeptInv, KeptOrNone, Kept2, NoLoss, AppliedIsKept, Restarted, Running
<1> QED BY <1>1, ReviewInvariant, PTL

(* When the gate passes the re-alignment, no line whose words were changed *)
(* has the timing of the old ones, unless that was kept on purpose.        *)
THEOREM ChangedIsRealignedAlways == Spec => []ChangedIsRealigned
<1>1. IInv => ChangedIsRealigned
  <2> SUFFICES ASSUME IInv, disk.branch # NoBranch, RealignPasses(disk), NEW i \in Ids,
                      disk.branch[i].owes
               PROVE  disk.branch[i].method = "original-timing" \/ disk.branch[i].last = "marks"
    BY DEF ChangedIsRealigned
  <2>1. ItemOK(disk.branch[i])
    BY DEF IInv, TypesInv, BranchOK
  <2>2. ~disk.branch[i].needs
    BY <2>1 DEF ItemOK, RealignPasses
  <2> QED BY <2>1, <2>2 DEF ItemOK
<1> QED BY <1>1, ReviewInvariant, PTL

LEMMA AcceptedThere == IInv => AppliedIsAccepted
<1> SUFFICES ASSUME IInv, disk.branch # NoBranch, NEW i \in Ids PROVE disk.branch[i].disputed = FALSE
  BY DEF AppliedIsAccepted
<1> QED BY DEF IInv, TypesInv, BranchOK, ItemSet

LEMMA AnsweredThere == IInv => AnsweredPasses
<1> SUFFICES ASSUME IInv, at = "idle", run.answered, FailedRows(disk.stage2) = {},
                    FailedRows(disk.stage1) = {}, PendingAudio # {} \/ tr.reported = 0
             PROVE  CheckpointPasses(disk)
  BY DEF AnsweredPasses
<1>1. /\ disk.branch # NoBranch /\ disk.report = Summary(disk.stage1, disk.stage2)
      /\ CollectSuspects(disk.stage1) \subseteq Done(disk.stage2) \cup FailedRows(disk.stage2)
      /\ Suspected(disk.stage1)
  BY DEF IInv, AnsweredInv, Running
<1>2. FilesOK(disk)
  BY DEF IInv, TypesInv
<1> DEFINE suspects == Cardinality(CollectSuspects(disk.stage1))
           done == Cardinality(Done(disk.stage2))
<1>3. /\ disk.report.mode = "two-stage-nearby" /\ disk.report.candidates = suspects
      /\ disk.report.reviewed = done /\ suspects \in Nat /\ done \in Nat
      /\ IsFiniteSet(Done(disk.stage2)) /\ IsFiniteSet(CollectSuspects(disk.stage1))
  BY <1>1, <1>2, RowsAreCounted DEF FilesOK
<1>4. ~disk.report.failed
  BY <1>1, <1>2, RowsAreCounted DEF FilesOK
<1>5. suspects <= done
  <2>1. CollectSuspects(disk.stage1) \subseteq Done(disk.stage2)
    BY <1>1
  <2> QED BY <1>3, <2>1, FS_Subset
<1>6. Expected <= suspects
  <2>1. CASE PendingAudio = {}
    BY <1>3, <2>1 DEF Expected
  <2>2. CASE PendingAudio # {}
    <3>1. HasMarks
      BY <2>2 DEF PendingAudio, HasMarks
    <3>2. PendingAudio \subseteq CollectSuspects(disk.stage1)
      BY <1>1, <3>1 DEF Suspected, PendingAudio, Suspects, Suspect
    <3>3. Cardinality(PendingAudio) <= suspects
      BY <1>3, <3>2, FS_Subset
    <3> QED BY <2>2, <3>3 DEF Expected
  <2> QED BY <2>1, <2>2
<1>7. Expected \in Int
  <2>1. IsFiniteSet(PendingAudio)
    BY ProofreadAssumption, FS_Subset DEF PendingAudio
  <2>2. Cardinality(PendingAudio) \in Nat /\ tr.reported \in Nat
    BY <2>1, FS_CardinalityType DEF IInv, TypesInv
  <2> QED BY <2>2 DEF Expected
<1> HIDE DEF suspects, done
<1>8. (IF Done(disk.stage2) # {} THEN done ELSE disk.report.reviewed) = done
  BY <1>3
<1> QED BY <1>3, <1>4, <1>5, <1>6, <1>7, <1>8 DEF CheckpointPasses, done

LEMMA ReviewedThere == IInv /\ CountedInv => PassedIsReviewed
<1> SUFFICES ASSUME IInv, CountedInv, at = "idle", CheckpointPasses(disk), disk.report.mode = "two-stage-nearby",
                    excused = {}
             PROVE  \A i \in PendingAudio \cup CollectSuspects(disk.stage1) :
                        disk.stage2[i].status = "completed" /\ disk.stage2[i].version = tr.version
  BY DEF PassedIsReviewed
<1> DEFINE suspects == CollectSuspects(disk.stage1)
           done == Done(disk.stage2)
<1>1. NoStale /\ TwoStage /\ ~Between /\ "partial" \notin excused
  BY DEF NoStale, NoLoss, TwoStage, Between
<1>2. FilesOK(disk) /\ tr.reported \in {0, 1}
  BY DEF IInv, TypesInv
<1>3. /\ suspects \subseteq Ids /\ IsFiniteSet(suspects) /\ Cardinality(suspects) \in Nat
      /\ done \subseteq Ids /\ IsFiniteSet(done) /\ Cardinality(done) \in Nat
  BY <1>2, RowsAreCounted DEF FilesOK
<1>4. /\ disk.report.reviewed <= Cardinality(done)
      /\ \/ disk.report.candidates = Cardinality(suspects) /\ Suspected(disk.stage1)
         \/ disk.report.reviewed = 0 /\ tr.reported = 1
  BY <1>1 DEF IInv, SummaryInv
<1>5. /\ disk.report.candidates \in Nat /\ disk.report.reviewed \in Nat
  BY <1>1, <1>2 DEF FilesOK, ReportOK, TwoStage, NoReport
<1>6. /\ disk.report.candidates >= Expected
      /\ disk.report.candidates <= IF done # {} THEN Cardinality(done) ELSE disk.report.reviewed
  BY DEF CheckpointPasses
<1>7. PendingAudio # {} => HasMarks
  BY DEF PendingAudio, HasMarks
<1>8. /\ IsFiniteSet(PendingAudio) /\ Cardinality(PendingAudio) \in Nat
      /\ PendingAudio # {} => Cardinality(PendingAudio) # 0
  <2>1. IsFiniteSet(PendingAudio)
    BY ProofreadAssumption, FS_Subset DEF PendingAudio
  <2> QED BY <2>1, FS_CardinalityType, FS_EmptySet
<1>9. disk.report.candidates = Cardinality(suspects) /\ Suspected(disk.stage1)
  <2>1. SUFFICES ASSUME disk.report.reviewed = 0, tr.reported = 1, done = {} PROVE FALSE
    BY <1>1, <1>4 DEF CountedInv, SummaryCounts
  <2>2. Expected >= 1
    BY <1>8, <2>1 DEF Expected
  <2>3. Expected \in Nat
    BY <1>8, <2>1 DEF Expected
  <2> QED BY <1>5, <1>6, <2>1, <2>2, <2>3
<1>10. Cardinality(suspects) <= Cardinality(done)
  BY <1>3, <1>4, <1>5, <1>6, <1>9
<1>11. done # {} => /\ done \subseteq suspects
                    /\ \A i \in done : disk.stage2[i].version = tr.version
  BY <1>1 DEF IInv, SuspectsInv, OfSuspects
<1>12. suspects = done
  <2>1. CASE done = {}
    <3>1. Cardinality(suspects) = 0
      BY <1>3, <1>10, <2>1, FS_EmptySet
    <3> QED BY <1>3, <2>1, <3>1, FS_EmptySet
  <2>2. CASE done # {}
    <3>1. done \subseteq suspects
      BY <1>11, <2>2
    <3>2. Cardinality(done) <= Cardinality(suspects)
      BY <1>3, <3>1, FS_Subset
    <3>3. Cardinality(done) = Cardinality(suspects)
      BY <1>3, <1>10, <3>2
    <3> QED BY <1>3, <3>1, <3>3, FS_Subset
  <2> QED BY <2>1, <2>2
<1>13. PendingAudio \subseteq suspects
  BY <1>7, <1>9 DEF Suspected, PendingAudio, Suspects, Suspect
<1> QED BY <1>11, <1>12, <1>13 DEF Done

(* The gate judges a review as it was: it lets it pass when and only when  *)
(* what its run could give was given, but for the excused cases, and it    *)
(* refuses for ever no change that the guards of the stage allowed.        *)
THEOREM GateJudgesReviewAlways == Spec => []GateJudgesReview
<1>1. IInv /\ CountedInv => GateJudgesReview
  BY ReviewedThere, AnsweredThere, AcceptedThere DEF GateJudgesReview
<1> QED BY <1>1, ReviewInvariant, CountedInvariant, PTL
-----------------------------------------------------------------------------
(* The realignment of cues (Realign).  A cue has its fields, and times     *)
(* that are not negative; what an aligner answered is in milliseconds.     *)
IsCue(c) ==
    /\ c = [start |-> c.start, end |-> c.end, text |-> c.text, pending |-> c.pending, mixed |-> c.mixed,
            status |-> c.status, method |-> c.method]
    /\ c.start \in Nat /\ c.end \in Nat
Timed(answer) == answer.start \in Int /\ answer.end \in Int
CuesInv ==
    /\ DOMAIN cues = DOMAIN before /\ DOMAIN before \subseteq Nat
    /\ cues = [i \in DOMAIN before |-> cues[i]]
    /\ \A i \in DOMAIN before : /\ IsCue(cues[i])
                                /\ before[i].start \in Nat /\ before[i].end \in Nat
                                /\ cues[i].status = "completed" => cues[i].start < cues[i].end
    /\ todo \subseteq DOMAIN before
    /\ Timed(left) /\ \A k \in DOMAIN cache : Timed(cache[k])

(* Two cues overlap by no more than the tolerance, or than they did.       *)
Apart(i, j) ==
    \/ R!Overlap(cues, i, j) <= MaxOverlap
    \/ R!Overlap(cues, i, j) <= R!Overlap(before, i, j)
RealignIInv == CuesInv /\ \A i, j \in DOMAIN before : i < j /\ i \notin blind => Apart(i, j)

(* A range a cue may be given: it has a duration and, but for a later cue  *)
(* that begins at 0, is near enough to every other with a duration.        *)
Suits(i, s, e) ==
    /\ s \in Nat /\ e \in Nat /\ s < e
    /\ \A j \in DOMAIN cues : cues[j].start < cues[j].end =>
          /\ j < i => cues[j].end - s <= MaxOverlap
          /\ j > i => 0 \in R!Starts(cues, i) \/ e - cues[j].start <= MaxOverlap

LEMMA LeastTime ==
    ASSUME NEW S \in SUBSET Nat, S # {}
    PROVE  R!LeastOf(S) \in S /\ \A y \in S : R!LeastOf(S) <= y
<1>1. PICK n \in S : \A k \in S : <<k, n>> \notin OpToRel(<, Nat)
  BY NatLessThanWellFounded, WFMin
<1>2. \A k \in S : <<k, n>> \notin {ss \in Nat \X Nat : ss[1] < ss[2]}
  BY <1>1, Zenon DEF OpToRel
<1>3. \A k \in Nat : <<k, n>> \notin {ss \in Nat \X Nat : ss[1] < ss[2]} => n <= k
  OBVIOUS
<1>4. n \in S /\ \A y \in S : n <= y
  BY <1>2, <1>3
<1> QED
  BY <1>4 DEF R!LeastOf

(* Of some cues before another one ends last.                              *)
LEMMA LastEnd ==
    ASSUME NEW n \in Nat, NEW J \in SUBSET (0..n), J # {}, NEW f, \A j \in J : f[j] \in Int
    PROVE  \E j \in J : \A k \in J : f[k] <= f[j]
<1> DEFINE Upto(m) == J \cap 0..m
           Fails(m) == Upto(m) # {} /\ ~ \E j \in Upto(m) : \A k \in Upto(m) : f[k] <= f[j]
           Bad == {m \in 0..n : Fails(m)}
<1>1. Upto(n) = J
  OBVIOUS
<1>2. CASE Bad = {}
  <2>1. n \notin Bad
    BY <1>2
  <2>2. ~Fails(n)
    BY <2>1
  <2> HIDE DEF Upto
  <2> QED
    BY <1>1, <2>2
<1>3. CASE Bad # {}
  <2>1. Bad \in SUBSET Nat
    OBVIOUS
  <2> HIDE DEF Bad
  <2> DEFINE m == R!LeastOf(Bad)
  <2>2. m \in Bad /\ \A y \in Bad : m <= y
    BY <1>3, <2>1, LeastTime
  <2> HIDE DEF m
  <2>3. m \in 0..n /\ Fails(m)
    BY <2>2 DEF Bad
  <2>4. CASE m = 0
    <3>1. Upto(0) \subseteq {0}
      OBVIOUS
    <3>2. 0 \in Upto(0)
      BY <2>3, <2>4, <3>1
    <3>3. f[0] <= f[0]
      BY <3>2
    <3>4. \A k \in Upto(0) : f[k] <= f[0]
      BY <3>1, <3>3
    <3> QED
      BY <2>3, <2>4, <3>2, <3>4
  <2>5. CASE m > 0
    <3>1. m - 1 \in 0..n /\ ~Fails(m - 1)
      <4>1. m - 1 \in 0..n /\ m - 1 \notin Bad
        BY <2>2, <2>3, <2>5
      <4> QED
        BY <4>1 DEF Bad
    <3>2. Upto(m) = Upto(m - 1) \cup (J \cap {m})
      BY <2>3, <2>5
    <3>3. CASE Upto(m - 1) = {}
      <4>1. Upto(m) \subseteq {m}
        BY <3>2, <3>3
      <4>2. m \in Upto(m)
        BY <2>3, <4>1
      <4>3. f[m] <= f[m]
        BY <4>2
      <4>4. \A k \in Upto(m) : f[k] <= f[m]
        BY <4>1, <4>3
      <4> QED
        BY <2>3, <4>2, <4>4
    <3>4. CASE Upto(m - 1) # {}
      <4>1. PICK j \in Upto(m - 1) : \A k \in Upto(m - 1) : f[k] <= f[j]
        BY <3>1, <3>4
      <4>2. \A k \in Upto(m) : f[k] \in Int
        OBVIOUS
      <4>3. j \in Upto(m) /\ f[j] \in Int
        BY <3>2, <4>1, <4>2
      <4>4. CASE m \in J /\ f[j] <= f[m]
        <5>1. \A k \in Upto(m) : f[k] <= f[m]
          BY <3>2, <4>1, <4>2, <4>3, <4>4
        <5>2. m \in Upto(m)
          BY <3>2, <4>4
        <5> QED
          BY <2>3, <5>1, <5>2
      <4>5. CASE ~(m \in J /\ f[j] <= f[m])
        <5>1. \A k \in Upto(m) : f[k] <= f[j]
          BY <3>2, <4>1, <4>2, <4>3, <4>5
        <5> QED
          BY <2>3, <4>3, <5>1
      <4> QED
        BY <4>4, <4>5
    <3> QED
      BY <3>3, <3>4
  <2> QED
    BY <2>3, <2>4, <2>5
<1> QED
  BY <1>2, <1>3

(* timing_candidate_guard: what it lets pass is near enough to the others. *)
LEMMA GuardIsTrue ==
    ASSUME CuesInv, NEW i \in DOMAIN cues, NEW s \in Int, NEW e \in Int, NEW clip, clip[1] \in Nat,
           clip[2] \in Int
    PROVE  /\ R!TimingGuard(cues, i, s, e, clip).ok => Suits(i, s, e)
           /\ R!TimingGuard(cues, i, s, e, clip).previous \in Int
           /\ R!TimingGuard(cues, i, s, e, clip).next \in Int
<1> USE RAssumption DEF R!RealignAssumption
<1> DEFINE ends == R!Ends(cues, i)
           starts == R!Starts(cues, i)
           previous == IF ends = {} THEN -1 ELSE R!GreatestOf(ends)
           next == IF starts = {} THEN -1 ELSE R!LeastOf(starts)
<1>1. \A j \in DOMAIN cues : j \in Nat /\ cues[j].start \in Nat /\ cues[j].end \in Nat
  BY DEF CuesInv, IsCue
<1>2. previous \in Int /\ \A x \in ends : x > 0 /\ previous >= x
  <2>1. CASE ends = {}
    BY <2>1
  <2>2. CASE ends # {}
    <3> DEFINE J == {j \in DOMAIN cues : j < i /\ cues[j].end > cues[j].start}
               f == [j \in DOMAIN cues |-> cues[j].end]
    <3>1. ends = {f[j] : j \in J}
      BY DEF R!Ends
    <3>2. J \in SUBSET (0..i) /\ J # {} /\ i \in Nat /\ \A j \in J : f[j] \in Int
      BY <1>1, <2>2, <3>1
    <3>3. PICK j \in J : \A k \in J : f[k] <= f[j]
      <4> HIDE DEF J, f
      <4> QED
        BY <3>2, LastEnd
    <3>4. f[j] \in ends /\ \A x \in ends : f[j] >= x
      <4> HIDE DEF f
      <4> QED
        BY <3>1, <3>2, <3>3
    <3>5. R!GreatestOf(ends) \in ends /\ \A x \in ends : R!GreatestOf(ends) >= x
      <4> HIDE DEF ends, f, J
      <4> QED
        BY <3>4 DEF R!GreatestOf
    <3>6. \A x \in ends : x \in Nat /\ x > 0
      BY <1>1 DEF R!Ends
    <3> HIDE DEF ends
    <3> QED
      BY <2>2, <3>5, <3>6
  <2> QED
    BY <2>1, <2>2
<1>3. next \in Int /\ \A x \in starts : x \in Nat /\ next \in Nat /\ next <= x /\ (next = 0 => 0 \in starts)
  <2>1. CASE starts = {}
    BY <2>1
  <2>2. CASE starts # {}
    <3>1. starts \in SUBSET Nat
      BY <1>1 DEF R!Starts
    <3>2. R!LeastOf(starts) \in starts /\ \A y \in starts : R!LeastOf(starts) <= y
      <4> HIDE DEF starts
      <4> QED
        BY <2>2, <3>1, LeastTime
    <3> DEFINE n == R!LeastOf(starts)
    <3>3. n \in starts /\ \A y \in starts : n <= y
      BY <3>2
    <3>4. next = n
      BY <2>2
    <3> HIDE DEF starts, n, next
    <3> QED
      BY <3>1, <3>3, <3>4
  <2> QED
    BY <2>1, <2>2
<1> DEFINE severe == \/ previous > 0 /\ previous - s > MaxOverlap
                     \/ next > 0 /\ e - next > MaxOverlap
<1>4. R!TimingGuard(cues, i, s, e, clip) =
        IF e <= s THEN R!Refusal("non-positive-duration")
        ELSE IF s < clip[1] \/ e > clip[2] THEN R!Refusal("outside-realign-clip")
        ELSE [ok |-> ~severe, reason |-> IF severe THEN "severe-neighbor-overlap" ELSE "timing-ok",
              previous |-> previous, next |-> next]
  BY DEF R!TimingGuard
<1> HIDE DEF previous, next
<1> DEFINE G == R!TimingGuard(cues, i, s, e, clip)
<1> HIDE DEF G
<1>5. \/ /\ ~G.ok /\ G.previous = -1 /\ G.next = -1
      \/ /\ e > s /\ s >= clip[1]
         /\ G.ok = ~severe /\ G.previous = previous /\ G.next = next
  <2>1. CASE e <= s \/ s < clip[1] \/ e > clip[2]
    <3>1. \E reason : G = R!Refusal(reason)
      BY <1>4, <2>1 DEF G
    <3> QED
      BY <3>1 DEF R!Refusal
  <2>2. CASE ~(e <= s \/ s < clip[1] \/ e > clip[2])
    <3>1. e > s /\ s >= clip[1]
      BY <2>2
    <3>2. \E reason : G = [ok |-> ~severe, reason |-> reason, previous |-> previous, next |-> next]
      <4> HIDE DEF severe
      <4> QED
        BY <1>4, <2>2, Zenon DEF G
    <3>3. G.ok = ~severe /\ G.previous = previous /\ G.next = next
      <4>1. G.previous = previous /\ G.next = next
        <5> HIDE DEF severe
        <5> QED
          BY <3>2
      <4>2. G.ok = ~severe
        <5>1. \E reason : G = [ok |-> ~severe, reason |-> reason, previous |-> previous, next |-> next]
          BY <3>2
        <5> HIDE DEF severe
        <5> QED
          BY <5>1
      <4> QED
        BY <4>1, <4>2
    <3> QED
      BY <3>1, <3>3
  <2> QED
    BY <2>1, <2>2
<1>6. ASSUME G.ok
      PROVE  Suits(i, s, e)
  <2>1. e > s /\ s >= clip[1] /\ ~severe
    <3> HIDE DEF severe
    <3> QED
      BY <1>5, <1>6
  <2>2. ASSUME NEW j \in DOMAIN cues, cues[j].start < cues[j].end, j < i
        PROVE  cues[j].end - s <= MaxOverlap
    <3>1. cues[j].end \in ends
      BY <2>2 DEF R!Ends
    <3>2. previous > 0 /\ previous >= cues[j].end
      BY <1>1, <1>2, <3>1
    <3> QED
      BY <1>1, <1>2, <2>1, <3>2
  <2>3. ASSUME NEW j \in DOMAIN cues, cues[j].start < cues[j].end, j > i, 0 \notin starts
        PROVE  e - cues[j].start <= MaxOverlap
    <3>1. cues[j].start \in starts
      BY <2>3 DEF R!Starts
    <3>2. next > 0 /\ next <= cues[j].start
      BY <1>1, <1>3, <2>3, <3>1
    <3> QED
      BY <1>1, <1>3, <2>1, <3>2
  <2> QED
    BY <2>1, <2>2, <2>3 DEF Suits
<1>7. G.previous \in Int /\ G.next \in Int
  BY <1>2, <1>3, <1>5
<1> QED
  BY <1>6, <1>7 DEF G

(* A range within one that suits, suits.                                   *)
LEMMA WithinSuits ==
    ASSUME CuesInv, NEW i, NEW s \in Int, NEW e \in Int, Suits(i, s, e),
           NEW t \in Int, NEW u \in Int, s <= t, t < u, u <= e
    PROVE  Suits(i, t, u)
<1>1. \A j \in DOMAIN cues : cues[j].start \in Nat /\ cues[j].end \in Nat
  BY DEF CuesInv, IsCue
<1> QED
  BY <1>1, RAssumption DEF R!RealignAssumption, Suits

(* One cue is done: it keeps its times, is of a millisecond, or is given a *)
(* range that suits.                                                       *)
SameTimes(c, d) == c.start = d.start /\ c.end = d.end
MayBe(i, c) == /\ IsCue(c)
               /\ c.status = "completed" => c.start < c.end
               /\ SameTimes(c, cues[i]) \/ c.end = c.start + 1 \/ Suits(i, c.start, c.end)
LEMMA DoneKeeps ==
    ASSUME RealignIInv, NEW i \in DOMAIN cues, NEW c, MayBe(i, c), R!Done(i, c), before' = before,
           cache' = cache, Timed(left')
    PROVE  RealignIInv'
<1> USE RAssumption DEF R!RealignAssumption
<1>1. cues' = [cues EXCEPT ![i] = c] /\ todo' = todo \ {i} /\ i \in DOMAIN before
  BY DEF R!Done, RealignIInv, CuesInv
<1>b. blind' = IF SameTimes(c, cues[i]) THEN blind
               ELSE IF 0 \in R!Starts(cues, i) THEN blind \cup {i} ELSE blind \ {i}
  BY DEF R!Done, SameTimes
<1>2. IsCue(c) /\ (c.status = "completed" => c.start < c.end)
  BY DEF MayBe
<1>3. CuesInv'
  <2>1. DOMAIN cues' = DOMAIN before
    BY <1>1 DEF RealignIInv, CuesInv
  <2>2. cues' = [j \in DOMAIN before |-> cues'[j]] /\ cues'[i] = c
        /\ \A j \in DOMAIN before : j # i => cues'[j] = cues[j]
    BY <1>1 DEF RealignIInv, CuesInv
  <2>3. \A j \in DOMAIN before : /\ IsCue(cues'[j])
                                 /\ cues'[j].status = "completed" => cues'[j].start < cues'[j].end
    BY <1>2, <2>2 DEF RealignIInv, CuesInv
  <2> QED
    BY <1>1, <2>1, <2>2, <2>3 DEF RealignIInv, CuesInv, IsCue
<1>4. ASSUME NEW k \in DOMAIN before, NEW l \in DOMAIN before, k < l, k \notin blind'
      PROVE  Apart(k, l)'
  <2>1. /\ k \in Nat /\ l \in Nat
        /\ \A j \in DOMAIN before : /\ cues[j].start \in Nat /\ cues[j].end \in Nat
                                    /\ before[j].start \in Nat /\ before[j].end \in Nat
    BY DEF RealignIInv, CuesInv, IsCue
  <2>2. cues'[i] = c /\ \A j \in DOMAIN before : j # i => cues'[j] = cues[j]
    BY <1>1 DEF RealignIInv, CuesInv
  <2>3. c.start \in Nat /\ c.end \in Nat
    BY <1>2 DEF IsCue
  <2>4. ASSUME \/ SameTimes(c, cues[i])
               \/ i \notin {k, l}
        PROVE  Apart(k, l)'
    <3>1. SameTimes(cues'[k], cues[k]) /\ SameTimes(cues'[l], cues[l])
      BY <2>2, <2>4 DEF SameTimes
    <3>2. k \notin blind
      BY <1>b, <1>4, <2>4
    <3>3. Apart(k, l)
      BY <1>4, <3>2 DEF RealignIInv
    <3> QED
      BY <3>1, <3>3 DEF Apart, R!Overlap, SameTimes
  <2>5. ASSUME c.end = c.start + 1, i \in {k, l}
        PROVE  Apart(k, l)'
    <3>1. cues'[k].start \in Nat /\ cues'[k].end \in Nat /\ cues'[l].start \in Nat /\ cues'[l].end \in Nat
      BY <2>1, <2>2, <2>3
    <3>2. \/ cues'[k].end = cues'[k].start + 1
          \/ cues'[l].end = cues'[l].start + 1
      BY <2>2, <2>5
    <3>3. R!Overlap(cues', k, l) <= 1
      BY <3>1, <3>2 DEF R!Overlap, R!AtMost, R!AtLeast
    <3>4. R!Overlap(cues', k, l) \in Int
      BY <3>1 DEF R!Overlap, R!AtMost, R!AtLeast
    <3> QED
      BY <3>3, <3>4 DEF Apart
  <2>6. ASSUME Suits(i, c.start, c.end), i = k, ~SameTimes(c, cues[i])
        PROVE  Apart(k, l)'
    <3>1. 0 \notin R!Starts(cues, i)
      BY <1>b, <1>4, <2>6
    <3>2. cues[l].start < cues[l].end => c.end - cues[l].start <= MaxOverlap
      BY <1>4, <2>1, <2>6, <3>1 DEF Suits, RealignIInv, CuesInv
    <3>3. cues'[k] = c /\ cues'[l] = cues[l]
      BY <1>4, <2>1, <2>2, <2>6
    <3>4. R!Overlap(cues', k, l) <= MaxOverlap
      BY <2>1, <2>3, <3>2, <3>3 DEF R!Overlap, R!AtMost, R!AtLeast
    <3> QED
      BY <3>4 DEF Apart
  <2>7. ASSUME Suits(i, c.start, c.end), i = l
        PROVE  Apart(k, l)'
    <3>2. cues[k].start < cues[k].end => cues[k].end - c.start <= MaxOverlap
      BY <1>4, <2>1, <2>7 DEF Suits, RealignIInv, CuesInv
    <3>3. cues'[l] = c /\ cues'[k] = cues[k]
      BY <1>4, <2>1, <2>2, <2>7
    <3>4. R!Overlap(cues', k, l) <= MaxOverlap
      BY <2>1, <2>3, <3>2, <3>3 DEF R!Overlap, R!AtMost, R!AtLeast
    <3> QED
      BY <3>4 DEF Apart
  <2> QED
    BY <2>4, <2>5, <2>6, <2>7 DEF MayBe
<1> QED
  BY <1>1, <1>3, <1>4 DEF RealignIInv

LEMMA PlacedIsCue ==
    ASSUME NEW c, IsCue(c), NEW s \in Nat, NEW e \in Nat, NEW how
    PROVE  LET d == R!Placed(c, <<s, e>>, how)
           IN  IsCue(d) /\ d.start = s /\ d.end = e /\ d.status = "completed"
<1>1. R!Placed(c, <<s, e>>, how) =
        [start |-> s, end |-> e, text |-> c.text, pending |-> FALSE, mixed |-> c.mixed,
         status |-> "completed", method |-> how]
  <2> DEFINE no == FALSE    \* a value like others to the provers
             c1 == [c EXCEPT !.start = s]
             c2 == [c1 EXCEPT !.end = e]
             c3 == [c2 EXCEPT !.pending = no]
             c4 == [c3 EXCEPT !.status = "completed"]
             c5 == [c4 EXCEPT !.method = how]
  <2>1. R!Placed(c, <<s, e>>, how) = c5
    BY DEF R!Placed
  <2> HIDE DEF no
  <2>2. c1 = [start |-> s, end |-> c.end, text |-> c.text, pending |-> c.pending, mixed |-> c.mixed,
              status |-> c.status, method |-> c.method]
    BY DEF IsCue
  <2> HIDE DEF c1
  <2>3. c2 = [start |-> s, end |-> e, text |-> c.text, pending |-> c.pending, mixed |-> c.mixed,
              status |-> c.status, method |-> c.method]
    BY <2>2
  <2> HIDE DEF c2
  <2>4. c3 = [start |-> s, end |-> e, text |-> c.text, pending |-> no, mixed |-> c.mixed,
              status |-> c.status, method |-> c.method]
    BY <2>3
  <2> HIDE DEF c3
  <2>5. c4 = [start |-> s, end |-> e, text |-> c.text, pending |-> no, mixed |-> c.mixed,
              status |-> "completed", method |-> c.method]
    BY <2>4
  <2> HIDE DEF c4
  <2>6. c5 = [start |-> s, end |-> e, text |-> c.text, pending |-> no, mixed |-> c.mixed,
              status |-> "completed", method |-> how]
    BY <2>5
  <2> HIDE DEF c5
  <2> QED
    BY <2>1, <2>6 DEF no
<1> QED
  BY <1>1 DEF IsCue

LEMMA SuitedMayBe ==
    ASSUME CuesInv, NEW i \in DOMAIN cues, NEW s, NEW e, Suits(i, s, e), NEW how
    PROVE  MayBe(i, R!Placed(cues[i], <<s, e>>, how))
<1>1. s \in Nat /\ e \in Nat /\ s < e /\ IsCue(cues[i])
  BY DEF Suits, CuesInv
<1> QED
  BY <1>1, PlacedIsCue DEF MayBe

(* A cue whose times are kept is given a millisecond when it had none.     *)
LEMMA KeptMayBe ==
    ASSUME CuesInv, NEW i \in DOMAIN cues
    PROVE  /\ \A how : LET d == R!Kept(cues[i], how)
                       IN  IsCue(d) /\ d.start < d.end /\ (SameTimes(d, cues[i]) \/ d.end = d.start + 1)
           /\ \A how : MayBe(i, R!Kept(cues[i], how))
           /\ MayBe(i, R!GivenUp(cues[i]))
           /\ MayBe(i, R!Otherwise(cues[i]))
<1>1. IsCue(cues[i]) /\ cues[i].start \in Nat /\ cues[i].end \in Nat
  BY DEF CuesInv, IsCue
<1>2. ASSUME NEW how
      PROVE  LET d == R!Kept(cues[i], how)
             IN  IsCue(d) /\ d.start < d.end /\ (SameTimes(d, cues[i]) \/ d.end = d.start + 1)
  <2> DEFINE s == R!StartOf(cues[i]) e == R!EndOf(cues[i])
  <2>1. /\ s = cues[i].start /\ s \in Nat /\ e \in Nat /\ s < e
        /\ e = cues[i].end \/ e = s + 1
    BY <1>1 DEF R!StartOf, R!EndOf, R!AtLeast
  <2>2. R!Kept(cues[i], how) = R!Placed(cues[i], <<s, e>>, how)
    BY DEF R!Kept
  <2> HIDE DEF s, e
  <2>3. LET d == R!Placed(cues[i], <<s, e>>, how) IN IsCue(d) /\ d.start = s /\ d.end = e
    BY <1>1, <2>1, PlacedIsCue
  <2> QED
    BY <2>1, <2>2, <2>3 DEF SameTimes
<1>3. \A how : MayBe(i, R!Kept(cues[i], how))
  BY <1>2 DEF MayBe
<1>4. MayBe(i, R!GivenUp(cues[i]))
  <2>1. R!GivenUp(cues[i]) =
          [start |-> cues[i].start, end |-> cues[i].end, text |-> cues[i].text,
           pending |-> cues[i].pending, mixed |-> cues[i].mixed, status |-> "failed",
           method |-> cues[i].method]
    BY <1>1 DEF R!GivenUp, IsCue
  <2> QED
    BY <1>1, <2>1 DEF MayBe, IsCue, SameTimes
<1>5. MayBe(i, R!Otherwise(cues[i]))
  BY <1>3, <1>4 DEF R!Otherwise
<1> QED
  BY <1>2, <1>3, <1>4, <1>5

LEMMA ExpandedIsInt ==
    ASSUME NEW s \in Int, NEW e \in Int, NEW lower \in Int, NEW upper \in Int,
           R!Expanded(s, e, lower, upper) # R!None
    PROVE  \E t, u \in Int : R!Expanded(s, e, lower, upper) = <<t, u>>
<1>1. MinDuration \in Nat
  BY RAssumption DEF R!RealignAssumption
<1> DEFINE deficit == MinDuration - (e - s)
           after == R!AtMost(deficit, R!AtLeast(0, upper - e))
           earlier == R!AtMost(deficit - after, R!AtLeast(0, s - lower))
<1>2. deficit \in Int /\ after \in Int /\ earlier \in Int
  BY <1>1 DEF R!AtMost, R!AtLeast
<1>3. R!Expanded(s, e, lower, upper) =
        IF deficit <= 0 THEN <<s, e>>
        ELSE IF deficit > DisplayPad \/ after + earlier < deficit THEN R!None
        ELSE <<s - earlier, e + after>>
  BY DEF R!Expanded
<1> HIDE DEF deficit, after, earlier
<1>4. s - earlier \in Int /\ e + after \in Int
  BY <1>2
<1> QED
  BY <1>3, <1>4

(* clamp_timing_candidate_to_neighbors: what it gives passed the guard.    *)
LEMMA ClampedSuits ==
    ASSUME CuesInv, NEW i \in DOMAIN cues, NEW s \in Int, NEW e \in Int,
           NEW clip, clip[1] \in Nat, clip[2] \in Int,
           NEW guard, guard.previous \in Int, guard.next \in Int,
           R!Clamped(cues, i, s, e, clip, guard) # R!None
    PROVE  \E t, u : R!Clamped(cues, i, s, e, clip, guard) = <<t, u>> /\ Suits(i, t, u)
<1> DEFINE from == IF guard.previous = -1 THEN s ELSE R!AtLeast(s, guard.previous)
           to   == IF guard.next = -1 THEN e ELSE R!AtMost(e, guard.next)
           lower == IF guard.previous = -1 THEN clip[1] ELSE guard.previous
           upper == IF guard.next = -1 THEN clip[2] ELSE guard.next
           range == R!Expanded(from, to, lower, upper)
<1>1. from \in Int /\ to \in Int /\ lower \in Int /\ upper \in Int
  BY DEF R!AtLeast, R!AtMost
<1>2. R!Clamped(cues, i, s, e, clip, guard) =
        IF guard.reason = "severe-neighbor-overlap" /\ range # R!None
           /\ R!TimingGuard(cues, i, range[1], range[2], clip).ok
        THEN range ELSE R!None
  BY DEF R!Clamped
<1> HIDE DEF from, to, lower, upper
<1>3. /\ R!Clamped(cues, i, s, e, clip, guard) = range
      /\ range # R!None /\ R!TimingGuard(cues, i, range[1], range[2], clip).ok
  BY <1>2
<1>4. PICK t, u \in Int : range = <<t, u>>
  BY <1>1, <1>3, ExpandedIsInt
<1>5. R!TimingGuard(cues, i, t, u, clip).ok
  <2>1. range[1] = t /\ range[2] = u
    BY <1>4
  <2> QED
    BY <1>3, <2>1
<1>6. Suits(i, t, u)
  BY <1>5, GuardIsTrue
<1> QED
  BY <1>3, <1>4, <1>6

(* _realign_one. *)
LEMMA FoundMayBe ==
    ASSUME CuesInv, NEW i \in DOMAIN cues, NEW s \in Int, NEW e \in Int
    PROVE  MayBe(i, R!Found(cues[i], i, s, e))
<1> DEFINE clip == R!QwenClip(cues[i])
           guard == R!TimingGuard(cues, i, s, e, clip)
           range == IF guard.ok THEN <<s, e>> ELSE R!Clamped(cues, i, s, e, clip, guard)
<1>1. cues[i].start \in Nat /\ cues[i].end \in Nat
  BY DEF CuesInv, IsCue
<1>2. clip[1] \in Nat /\ clip[2] \in Int
  BY <1>1, RAssumption
     DEF R!QwenClip, R!StartOf, R!EndOf, R!AtMost, R!AtLeast, R!RealignAssumption
<1>3. R!Found(cues[i], i, s, e) =
        IF range = R!None THEN R!Otherwise(cues[i])
        ELSE LET shown == R!Shown(range[1], range[2], cues[i])
             IN  R!Placed(cues[i], shown, IF shown = <<s, e>> THEN "" ELSE "qwen-clamped")
  BY DEF R!Found, R!Around
<1> HIDE DEF clip
<1>4. guard.previous \in Int /\ guard.next \in Int /\ (guard.ok => Suits(i, s, e))
  BY <1>2, GuardIsTrue
<1> HIDE DEF guard
<1>5. CASE range = R!None
  BY <1>3, <1>5, KeptMayBe
<1>6. CASE range # R!None
  <2>1. PICK t, u : range = <<t, u>> /\ Suits(i, t, u)
    <3>1. CASE guard.ok
      BY <1>4, <3>1
    <3>2. CASE ~guard.ok
      <4>1. range = R!Clamped(cues, i, s, e, clip, guard)
        BY <3>2
      <4> HIDE DEF range
      <4> QED
        BY <1>2, <1>4, <1>6, <4>1, ClampedSuits
    <3> QED
      BY <3>1, <3>2
  <2> HIDE DEF range
  <2>2. t \in Nat /\ u \in Nat /\ range[1] = t /\ range[2] = u
    BY <2>1 DEF Suits
  <2>3. \E v, w : R!Shown(t, u, cues[i]) = <<v, w>> /\ Suits(i, v, w)
    <3> DEFINE v == R!StartOf(cues[i]) w == R!EndOf(cues[i])
    <3>1. v \in Int /\ w \in Int /\ v < w
      BY <1>1 DEF R!StartOf, R!EndOf, R!AtLeast
    <3>2. R!Shown(t, u, cues[i]) = IF u - t > MaxDuration /\ w - v <= MaxDuration /\ v >= t /\ w <= u
                                   THEN <<v, w>> ELSE <<t, u>>
      BY DEF R!Shown
    <3> HIDE DEF v, w
    <3>3. CASE v >= t /\ w <= u
      <4>1. Suits(i, v, w)
        BY <2>1, <2>2, <3>1, <3>3, WithinSuits
      <4> QED
        BY <2>1, <3>2, <4>1
    <3>4. CASE ~(v >= t /\ w <= u)
      BY <2>1, <3>2, <3>4
    <3> QED
      BY <3>3, <3>4
  <2>4. PICK v, w : R!Shown(t, u, cues[i]) = <<v, w>> /\ Suits(i, v, w)
    BY <2>3
  <2>5. \E how : R!Found(cues[i], i, s, e) = R!Placed(cues[i], <<v, w>>, how)
    BY <1>3, <1>6, <2>2, <2>4
  <2> QED
    BY <2>4, <2>5, SuitedMayBe
<1> QED
  BY <1>5, <1>6

(* _try_mfa_local_realign. *)
LEMMA MfaMayBe ==
    ASSUME CuesInv, NEW i \in DOMAIN cues, NEW answer, Timed(answer)
    PROVE  MayBe(i, R!MfaPlaced(cues[i], i, answer))
<1> DEFINE clip == R!MfaClip(cues[i])
           s == clip[1] + answer.start
           e == clip[1] + answer.end
<1>1. cues[i].start \in Nat /\ cues[i].end \in Nat
  BY DEF CuesInv, IsCue
<1>2. clip[1] \in Nat /\ clip[2] \in Int
  BY <1>1, RAssumption DEF R!MfaClip, R!StartOf, R!EndOf, R!AtLeast, R!RealignAssumption
<1>3. R!MfaPlaced(cues[i], i, answer) =
        IF answer.known /\ answer.says = cues[i].text /\ R!TimingGuard(cues, i, s, e, clip).ok
        THEN R!Placed(cues[i], <<s, e>>, "mfa-local") ELSE R!Otherwise(cues[i])
  BY DEF R!MfaPlaced, R!Around
<1> HIDE DEF clip
<1>4. s \in Int /\ e \in Int
  BY <1>2 DEF Timed
<1> HIDE DEF s, e
<1>5. CASE R!TimingGuard(cues, i, s, e, clip).ok
  <2>1. Suits(i, s, e)
    BY <1>2, <1>4, <1>5, GuardIsTrue
  <2>2. MayBe(i, R!Placed(cues[i], <<s, e>>, "mfa-local"))
    BY <2>1, SuitedMayBe
  <2> QED
    BY <1>3, <2>2, KeptMayBe
<1>6. CASE ~R!TimingGuard(cues, i, s, e, clip).ok
  BY <1>3, <1>6, KeptMayBe
<1> QED
  BY <1>5, <1>6

LEMMA AnswersAreTimed ==
    ASSUME CuesInv, NEW i \in DOMAIN cues
    PROVE  \A answer \in R!MfaAnswers(cues[i]) : Timed(answer)
<1>1. cues[i].start \in Nat
  BY DEF CuesInv, IsCue
<1> DEFINE clip == R!MfaClip(cues[i])
<1>2. clip[1] \in Int
  BY <1>1, RAssumption DEF R!MfaClip, R!StartOf, R!AtLeast, R!RealignAssumption
<1>3. \A r \in R!Heard(cues[i], clip) : r[1] \in Int /\ r[2] \in Int
  BY DEF R!Heard
<1>4. Timed(R!NoAnswer)
  BY DEF Timed, R!NoAnswer
<1>5. R!MfaAnswers(cues[i]) =
        {R!NoAnswer} \cup
        {[known |-> TRUE, start |-> r[1] - clip[1], end |-> r[2] - clip[1],
          says |-> R!LabText(cues[i])] : r \in R!Heard(cues[i], clip)}
  BY DEF R!MfaAnswers
<1> HIDE DEF clip
<1>6. ASSUME NEW r \in R!Heard(cues[i], clip)
      PROVE  Timed([known |-> TRUE, start |-> r[1] - clip[1], end |-> r[2] - clip[1],
                    says |-> R!LabText(cues[i])])
  BY <1>2, <1>3 DEF Timed
<1> QED
  BY <1>4, <1>5, <1>6

LEMMA RealignInitTrue == R!RealignInit => RealignIInv
<1> SUFFICES ASSUME R!RealignInit
             PROVE  RealignIInv
  OBVIOUS
<1>1. /\ DOMAIN before \subseteq Nat
      /\ \A i \in DOMAIN before : before[i].start \in Nat /\ before[i].end \in Nat
  BY RAssumption DEF R!RealignInit, R!RealignAssumption
<1>2. cues = [i \in DOMAIN before |-> R!Cue(before[i])]
  BY DEF R!RealignInit
<1>3. \A i \in DOMAIN before : /\ IsCue(cues[i]) /\ cues[i].status = ""
                               /\ SameTimes(cues[i], before[i])
  BY <1>1, <1>2 DEF R!Cue, IsCue, SameTimes
<1>4. Timed(left) /\ todo = {} /\ DOMAIN cache = {}
  <2>1. left = R!NoAnswer /\ todo = {} /\ cache = [k \in {} |-> R!NoAnswer]
    BY DEF R!RealignInit
  <2>2. Timed(R!NoAnswer)
    BY DEF R!NoAnswer, Timed
  <2> QED
    BY <2>1, <2>2
<1>5. CuesInv
  <2>1. DOMAIN cues = DOMAIN before /\ cues = [i \in DOMAIN before |-> cues[i]]
    BY <1>2
  <2> QED
    BY <1>1, <1>3, <1>4, <2>1 DEF CuesInv
<1>6. ASSUME NEW i \in DOMAIN before, NEW j \in DOMAIN before
      PROVE  Apart(i, j)
  <2>1. R!Overlap(cues, i, j) = R!Overlap(before, i, j)
    BY <1>3 DEF R!Overlap, SameTimes
  <2>2. R!Overlap(before, i, j) \in Int
    BY <1>1 DEF R!Overlap, R!AtMost, R!AtLeast
  <2> QED
    BY <2>1, <2>2 DEF Apart
<1> QED
  BY <1>5, <1>6 DEF RealignIInv

(* Whatever MFA answers, and whatever is left of its answers.              *)
LEMMA ByMfaKeeps ==
    ASSUME RealignIInv, NEW i \in DOMAIN cues, R!ByMfa(i), before' = before, cache' = cache
    PROVE  RealignIInv'
<1>1. CuesInv /\ Timed(left)
  BY DEF RealignIInv, CuesInv
<1>2. CASE R!Done(i, R!Otherwise(cues[i])) /\ left' = left
  BY <1>1, <1>2, KeptMayBe, DoneKeeps
<1>3. ASSUME NEW answer, Timed(answer), R!Done(i, R!MfaPlaced(cues[i], i, answer)), Timed(left')
      PROVE  RealignIInv'
  BY <1>1, <1>3, MfaMayBe, DoneKeeps
<1>4. CASE /\ R!Key(cues[i]) \in DOMAIN cache
           /\ R!Done(i, R!MfaPlaced(cues[i], i, cache[R!Key(cues[i])])) /\ left' = left
  <2>1. Timed(cache[R!Key(cues[i])])
    BY <1>1, <1>4 DEF CuesInv
  <2> QED
    BY <1>1, <1>3, <1>4, <2>1
<1>5. ASSUME NEW answer \in R!MfaAnswers(cues[i]) \cup {left}, left' = answer,
             R!Done(i, R!MfaPlaced(cues[i], i, answer)) \/ R!Done(i, R!Otherwise(cues[i]))
      PROVE  RealignIInv'
  <2>1. Timed(answer)
    BY <1>1, AnswersAreTimed
  <2>2. CASE R!Done(i, R!Otherwise(cues[i]))
    BY <1>1, <1>5, <2>1, <2>2, KeptMayBe, DoneKeeps
  <2> QED
    BY <1>3, <1>5, <2>1, <2>2
<1>6. \/ R!Done(i, R!Otherwise(cues[i])) /\ left' = left
      \/ /\ R!Key(cues[i]) \in DOMAIN cache
         /\ R!Done(i, R!MfaPlaced(cues[i], i, cache[R!Key(cues[i])])) /\ left' = left
      \/ \E answer \in R!MfaAnswers(cues[i]) \cup {left} :
            /\ R!Done(i, R!MfaPlaced(cues[i], i, answer)) \/ R!Done(i, R!Otherwise(cues[i]))
            /\ left' = answer
  BY DEF R!ByMfa
<1> QED
  BY <1>2, <1>4, <1>5, <1>6

(* The stage begins: cues of two languages keep their times.               *)
LEMMA BeginRealignKeeps ==
    ASSUME RealignIInv, NEW retry, NEW p, R!BeginRealign(retry, p)
    PROVE  RealignIInv'
<1> DEFINE kept == {i \in DOMAIN cues : R!Pending(cues[i], retry) /\ R!KeptMixed(i, p)}
           how == "mixed-language-original-timing"
<1>1. /\ before' = before /\ left' = left /\ blind' = blind
      /\ todo' \subseteq DOMAIN cues /\ cache' \in R!Prefetched(todo', p)
      /\ cues' = [i \in DOMAIN cues |-> IF i \in kept THEN R!Kept(cues[i], how) ELSE cues[i]]
  BY DEF R!BeginRealign, R!CueIds
<1>2. CuesInv
  BY DEF RealignIInv
<1>3. ASSUME NEW i \in DOMAIN cues
      PROVE  /\ IsCue(cues'[i]) /\ (cues'[i].status = "completed" => cues'[i].start < cues'[i].end)
             /\ SameTimes(cues'[i], cues[i]) \/ cues'[i].end = cues'[i].start + 1
  <2>1. CASE i \in kept
    <3>1. cues'[i] = R!Kept(cues[i], how)
      BY <1>1, <2>1
    <3> QED
      BY <1>2, <3>1, KeptMayBe
  <2>2. CASE i \notin kept
    <3>1. cues'[i] = cues[i]
      BY <1>1, <2>2
    <3> QED
      BY <1>2, <3>1 DEF CuesInv, SameTimes
  <2> QED
    BY <2>1, <2>2
<1>4. \A k \in DOMAIN cache' : Timed(cache'[k])
  <2> DEFINE new == {i \in todo' : R!LabText(cues[i]) # "" /\ R!Key(cues[i]) \notin DOMAIN cache}
             keys == {R!Key(cues[i]) : i \in new}
             all == UNION {R!MfaAnswers(cues[i]) : i \in new}
  <2>1. \/ cache' = cache
        \/ \E found \in [keys -> all] :
              cache' = [k \in DOMAIN cache \cup keys |-> IF k \in keys THEN found[k] ELSE cache[k]]
    BY <1>1 DEF R!Prefetched
  <2>2. \A answer \in all : Timed(answer)
    BY <1>1, <1>2, AnswersAreTimed
  <2>3. \A k \in DOMAIN cache : Timed(cache[k])
    BY <1>2 DEF CuesInv
  <2>4. CASE cache' = cache
    BY <2>3, <2>4
  <2>5. ASSUME NEW found \in [keys -> all],
               cache' = [k \in DOMAIN cache \cup keys |-> IF k \in keys THEN found[k] ELSE cache[k]]
        PROVE  \A k \in DOMAIN cache' : Timed(cache'[k])
    <3> HIDE DEF keys, all
    <3> QED
      BY <2>2, <2>3, <2>5
  <2> QED
    BY <2>1, <2>4, <2>5
<1>5. CuesInv'
  <2>1. DOMAIN cues = DOMAIN before
    BY <1>2 DEF CuesInv
  <2>2. DOMAIN cues' = DOMAIN before' /\ cues' = [i \in DOMAIN before' |-> cues'[i]]
    BY <1>1, <2>1
  <2> QED
    BY <1>1, <1>2, <1>3, <1>4, <2>1, <2>2 DEF CuesInv
<1>6. ASSUME NEW k \in DOMAIN before, NEW l \in DOMAIN before, k < l, k \notin blind
      PROVE  Apart(k, l)'
  <2>1. Apart(k, l)
    BY <1>6 DEF RealignIInv
  <2>2. /\ k \in DOMAIN cues /\ l \in DOMAIN cues
        /\ cues[k].start \in Nat /\ cues[k].end \in Nat /\ cues[l].start \in Nat /\ cues[l].end \in Nat
    BY <1>2 DEF CuesInv, IsCue
  <2>3. /\ cues'[k].start \in Nat /\ cues'[k].end \in Nat
        /\ cues'[l].start \in Nat /\ cues'[l].end \in Nat
    BY <1>3, <2>2 DEF IsCue
  <2>4. CASE SameTimes(cues'[k], cues[k]) /\ SameTimes(cues'[l], cues[l])
    BY <1>1, <2>1, <2>4 DEF Apart, R!Overlap, SameTimes
  <2>5. CASE cues'[k].end = cues'[k].start + 1 \/ cues'[l].end = cues'[l].start + 1
    <3>1. R!Overlap(cues', k, l) <= 1 /\ R!Overlap(cues', k, l) \in Int
      BY <2>3, <2>5 DEF R!Overlap, R!AtMost, R!AtLeast
    <3> QED
      BY <3>1, RAssumption DEF Apart, R!RealignAssumption
  <2> QED
    BY <1>3, <2>2, <2>4, <2>5
<1> QED
  BY <1>1, <1>5, <1>6 DEF RealignIInv

LEMMA RealignStepKeeps == RealignIInv /\ [R!RealignNext]_realignVars => RealignIInv'
<1> SUFFICES ASSUME RealignIInv, [R!RealignNext]_realignVars
             PROVE  RealignIInv'
  OBVIOUS
<1>1. CuesInv /\ DOMAIN cues = DOMAIN before
  BY DEF RealignIInv, CuesInv
<1>2. ASSUME todo # {}
      PROVE  R!Current \in DOMAIN cues
  <2>1. todo \in SUBSET Nat /\ todo \subseteq DOMAIN cues
    BY <1>1 DEF CuesInv
  <2> QED
    BY <1>2, <2>1, LeastTime DEF R!Current
<1>3. ASSUME NEW retry \in BOOLEAN, NEW p \in Plans, R!BeginRealign(retry, p)
      PROVE  RealignIInv'
  BY <1>3, BeginRealignKeeps
<1>4. CASE R!KeepTiming
  <2>1. /\ R!Current \in DOMAIN cues
        /\ R!Done(R!Current, R!Kept(cues[R!Current], "original-timing"))
        /\ before' = before /\ cache' = cache /\ Timed(left')
    BY <1>1, <1>2, <1>4 DEF R!KeepTiming, CuesInv
  <2> QED
    BY <1>1, <2>1, KeptMayBe, DoneKeeps
<1>5. CASE R!ByMfaFirst
  <2>1. R!Current \in DOMAIN cues /\ R!ByMfa(R!Current) /\ before' = before /\ cache' = cache
    BY <1>2, <1>5 DEF R!ByMfaFirst
  <2> QED
    BY <2>1, ByMfaKeeps
<1>6. CASE R!ByAligner
  <2> DEFINE i == R!Current
  <2>1. /\ i \in DOMAIN cues /\ before' = before /\ cache' = cache
        /\ \/ \E r \in R!Heard(cues[i], R!QwenClip(cues[i])) :
                 /\ R!Done(i, R!Found(cues[i], i, r[1], R!AtLeast(r[1] + 1, r[2])))
                 /\ left' = left
           \/ R!Done(i, R!Otherwise(cues[i])) /\ left' = left
           \/ R!ByMfa(i)
    BY <1>2, <1>6 DEF R!ByAligner
  <2>2. Timed(left)
    BY <1>1 DEF CuesInv
  <2> HIDE DEF i
  <2>3. ASSUME NEW r \in R!Heard(cues[i], R!QwenClip(cues[i])),
               R!Done(i, R!Found(cues[i], i, r[1], R!AtLeast(r[1] + 1, r[2]))), left' = left
        PROVE  RealignIInv'
    <3>1. r[1] \in Int /\ R!AtLeast(r[1] + 1, r[2]) \in Int
      BY DEF R!Heard, R!AtLeast
    <3>2. MayBe(i, R!Found(cues[i], i, r[1], R!AtLeast(r[1] + 1, r[2])))
      BY <1>1, <2>1, <3>1, FoundMayBe
    <3> QED
      BY <2>1, <2>2, <2>3, <3>2, DoneKeeps
  <2>4. CASE R!Done(i, R!Otherwise(cues[i])) /\ left' = left
    BY <1>1, <2>1, <2>2, <2>4, KeptMayBe, DoneKeeps
  <2>5. CASE R!ByMfa(i)
    BY <2>1, <2>5, ByMfaKeeps
  <2> QED
    BY <2>1, <2>3, <2>4, <2>5
<1>7. CASE UNCHANGED realignVars
  <2>1. /\ cues' = cues /\ before' = before /\ todo' = todo /\ left' = left /\ cache' = cache
        /\ blind' = blind
    BY <1>7 DEF realignVars
  <2>2. CuesInv'
    BY <1>1, <2>1 DEF CuesInv
  <2> QED
    BY <2>1, <2>2 DEF RealignIInv, Apart
<1> QED
  BY <1>3, <1>4, <1>5, <1>6, <1>7 DEF R!RealignNext

(* However the cues are realigned: they have times, and a cue placed while *)
(* no later one begins at 0 is apart from all others                       *)
(* (proofread_realign.py, proofread_realign_strategy.py).                  *)
THEOREM RealignInvariant == R!RealignSpec => []RealignIInv
<1>1. [R!RealignNext]_R!realignVars => [R!RealignNext]_realignVars
  BY DEF realignVars, R!realignVars
<1> QED
  BY <1>1, RealignInitTrue, RealignStepKeeps, PTL DEF R!RealignSpec

(* Two realigned cues never overlap by more than the tolerance unless they *)
(* did before or a later one begins at 0, and none is without a duration   *)
(* (timing_candidate_guard and _realign_one).                              *)
THEOREM RealignedApartAlways == R!RealignSpec => []RealignedApart
<1>1. RealignIInv => RealignedApart
  BY DEF RealignIInv, CuesInv, Apart, RealignedApart, R!RealignedApart, R!CueIds
<1> QED
  BY <1>1, RealignInvariant, PTL
-----------------------------------------------------------------------------
(* The suspects of quality reports (QualitySuspects).  A line's marks say  *)
(* what is to be done about them, and each of them is of a row of a report *)
(* that speaks of the line.                                                *)
IsMark(m) == m = [types |-> m.types, audio |-> m.audio, realign |-> m.realign]
Tells(m) == m.types # {} => IF Of!RealignOnly(m.types) THEN m.realign ELSE m.audio
Marks(marks) ==
    /\ marks = [l \in Lines |-> marks[l]]
    /\ \A l \in Lines : /\ IsMark(marks[l]) /\ Tells(marks[l])
                        /\ \A t \in marks[l].types :
                              \E r \in reportRows : t \in Of!TypesOf(r) /\ l \in Of!Matches(r)
Noted(r) == /\ \A l \in Of!Matches(r) : Of!TypesOf(r) \subseteq copy.line[l].types
            /\ Of!Matches(r) # {} => copy.count > 0
SuspectsIInv ==
    /\ times \in Placements /\ reportRows \in Reports /\ read \subseteq reportRows
    /\ Marks(spot) /\ Marks(copy.line) /\ copy.count \in Nat
    /\ \A r \in read : Of!TypesOf(r) # {} => Noted(r)
    /\ phase \in {"written", "reported"} => spot = copy.line /\ read = reportRows
    /\ phase = "reported" => count = copy.count

LEMMA MergedTells ==
    ASSUME NEW m, IsMark(m), NEW types, types # {}
    PROVE  LET n == Of!Merged(m, types) IN IsMark(n) /\ Tells(n) /\ n.types = m.types \cup types
<1> DEFINE all == m.types \cup types
           yes == TRUE
           n1 == [m EXCEPT !.types = all]
<1>1. n1 = [types |-> all, audio |-> m.audio, realign |-> m.realign]
  BY DEF IsMark
<1> HIDE DEF n1, yes
<1>2. CASE Of!NeedsAudio(all)
  <2> DEFINE n == [n1 EXCEPT !.audio = yes]
  <2>1. n = [types |-> all, audio |-> yes, realign |-> m.realign]
    BY <1>1
  <2>2. Of!Merged(m, types) = n
    BY <1>2 DEF Of!Merged, n1, yes
  <2>3. ~Of!RealignOnly(all)
    BY <1>2 DEF Of!NeedsAudio
  <2> HIDE DEF n, all
  <2> QED
    BY <2>1, <2>2, <2>3 DEF IsMark, Tells, yes, all
<1>3. CASE ~Of!NeedsAudio(all)
  <2> DEFINE n == [n1 EXCEPT !.realign = yes]
  <2>1. n = [types |-> all, audio |-> m.audio, realign |-> yes]
    BY <1>1
  <2>2. Of!Merged(m, types) = n
    BY <1>3 DEF Of!Merged, n1, yes
  <2>3. Of!RealignOnly(all)
    BY <1>3 DEF Of!NeedsAudio
  <2> HIDE DEF n, all
  <2> QED
    BY <2>1, <2>2, <2>3 DEF IsMark, Tells, yes, all
<1> QED
  BY <1>2, <1>3

(* _nearest_subtitle finds a line with the least distance.                 *)
LEMMA NearestIsNearest ==
    ASSUME NEW r, \A l \in Lines : Of!Distance(l, r) \in Int
    PROVE  /\ Of!Nearest(r) \in Lines
           /\ \A k \in Lines : Of!Distance(Of!Nearest(r), r) <= Of!Distance(k, r)
<1> USE SuspectsAssumption
<1> DEFINE n == Cardinality(Lines)
<1>1. n \in Nat /\ ExistsBijection(1..n, Lines)
  BY FS_CardinalityType
<1>2. PICK f \in Bijection(1..n, Lines) : TRUE
  BY <1>1 DEF ExistsBijection
<1>3. f \in [1..n -> Lines] /\ \A l \in Lines : \E i \in 1..n : f[i] = l
  BY <1>2 DEF Bijection, Surjection, Injection
<1> HIDE DEF n
<1> DEFINE back == [i \in 1..n |-> -Of!Distance(f[i], r)]
<1>4. 1..n \in SUBSET (0..n) /\ 1..n # {} /\ \A i \in 1..n : back[i] \in Int
  <2>1. 1..n \in SUBSET (0..n)
    BY <1>1
  <2>2. 1..n # {}
    BY <1>3
  <2>3. ASSUME NEW i \in 1..n
        PROVE  back[i] \in Int
    <3>1. f[i] \in Lines
      BY <1>3
    <3>2. Of!Distance(f[i], r) \in Int
      BY <3>1
    <3> QED
      BY <3>2
  <2> QED
    BY <2>1, <2>2, <2>3
<1>5. PICK i \in 1..n : \A k \in 1..n : back[k] <= back[i]
  <2> HIDE DEF back
  <2> QED
    BY <1>1, <1>4, LastEnd
<1>6. f[i] \in Lines /\ \A l \in Lines : Of!Distance(f[i], r) <= Of!Distance(l, r)
  <2>1. ASSUME NEW l \in Lines
        PROVE  Of!Distance(f[i], r) <= Of!Distance(l, r)
    <3>1. PICK k \in 1..n : f[k] = l
      BY <1>3
    <3>2. -Of!Distance(f[k], r) <= -Of!Distance(f[i], r)
      BY <1>5
    <3>3. f[i] \in Lines
      BY <1>3
    <3>4. Of!Distance(f[i], r) \in Int /\ Of!Distance(l, r) \in Int
      BY <3>3
    <3> QED
      BY <3>1, <3>2, <3>4
  <2> QED
    BY <1>3, <2>1
<1> DEFINE near == {l \in Lines : Of!Distance(l, r) = Of!Distance(f[i], r)}
           first == R!LeastOf(near)
<1>7. first \in near /\ \A l \in near : first <= l
  <2>1. near \in SUBSET Nat /\ near # {}
    BY <1>6
  <2> HIDE DEF near
  <2> QED
    BY <2>1, LeastTime
<1> HIDE DEF first
<1>8. first \in Lines /\ \A k \in Lines : \/ Of!Distance(first, r) < Of!Distance(k, r)
                                          \/ Of!Distance(first, r) = Of!Distance(k, r) /\ first <= k
  <2>1. first \in Lines /\ Of!Distance(first, r) = Of!Distance(f[i], r)
    BY <1>7
  <2>2. ASSUME NEW k \in Lines
        PROVE  \/ Of!Distance(first, r) < Of!Distance(k, r)
               \/ Of!Distance(first, r) = Of!Distance(k, r) /\ first <= k
    <3>1. Of!Distance(first, r) <= Of!Distance(k, r)
      BY <1>6, <2>1
    <3>2. Of!Distance(first, r) = Of!Distance(k, r) => first <= k
      BY <1>7, <2>1
    <3>3. Of!Distance(first, r) \in Int /\ Of!Distance(k, r) \in Int
      BY <2>1
    <3> QED
      BY <3>1, <3>2, <3>3
  <2> QED
    BY <2>1, <2>2
<1>9. /\ Of!Nearest(r) \in Lines
      /\ \A k \in Lines : \/ Of!Distance(Of!Nearest(r), r) < Of!Distance(k, r)
                          \/ Of!Distance(Of!Nearest(r), r) = Of!Distance(k, r) /\ Of!Nearest(r) <= k
  BY <1>8, Zenon DEF Of!Nearest
<1> DEFINE found == Of!Nearest(r)
<1> HIDE DEF found
<1>10. /\ found \in Lines
       /\ \A k \in Lines : \/ Of!Distance(found, r) < Of!Distance(k, r)
                           \/ Of!Distance(found, r) = Of!Distance(k, r)
  BY <1>9, Zenon DEF found
<1>11. \A k \in Lines : Of!Distance(found, r) <= Of!Distance(k, r)
  BY <1>10
<1> QED
  BY <1>10, <1>11 DEF found

(* _time_distance_ms is how far a line and a row are apart, and not more   *)
(* than 0 when they are not.                                               *)
LEMMA DistanceIsGap ==
    ASSUME SuspectsIInv, NEW r \in reportRows, NEW l \in Lines
    PROVE  /\ Of!Distance(l, r) \in Int
           /\ Of!Gap(l, r) = IF Of!Distance(l, r) > 0 THEN Of!Distance(l, r) ELSE 0
<1>1. times[l].start \in Int /\ times[l].end \in Int
  BY SuspectsAssumption DEF SuspectsIInv
<1>2. r.start \in Int /\ r.end \in Int /\ r.start <= r.end
  BY SuspectsAssumption DEF SuspectsIInv
<1>3. Of!EndOf(l) \in Int /\ Of!EndOf(l) > times[l].start
  BY <1>1 DEF Of!EndOf
<1> QED
  BY <1>1, <1>2, <1>3 DEF Of!Distance, Of!Gap

(* A row that has lines close enough, or one by its key, is noted at one   *)
(* of them, and at none but these and the one further off.                 *)
LEMMA MatchesAreHomes ==
    ASSUME SuspectsIInv, NEW r \in reportRows
    PROVE  /\ Of!Matches(r) \subseteq Lines
           /\ Of!Matches(r) \subseteq Of!Homes(r) \cup Of!Further(r)
           /\ Of!Homes(r) # {} => \E l \in Of!Homes(r) : l \in Of!Matches(r)
<1>1. Of!Second(r) \subseteq Lines /\ Of!Second(r) \subseteq Of!Further(r)
  BY DEF Of!Second, Of!Further
<1>2. CASE Of!Keyed(r)
  <2>1. Of!PreferredKey(r) \in Lines
    BY <1>2 DEF Of!Keyed
  <2>2. Of!Homes(r) = {Of!PreferredKey(r)} /\ Of!First(r) = {Of!PreferredKey(r)}
    BY <1>2 DEF Of!Homes, Of!First, Of!Primary
  <2> QED
    BY <1>1, <2>1, <2>2 DEF Of!Matches
<1>3. CASE ~Of!Keyed(r)
  <2> DEFINE near == Of!Nearest(r)
  <2>1. \A l \in Lines : /\ Of!Distance(l, r) \in Int
                         /\ Of!Gap(l, r) = IF Of!Distance(l, r) > 0 THEN Of!Distance(l, r) ELSE 0
    BY DistanceIsGap
  <2>2. near \in Lines /\ \A k \in Lines : Of!Distance(near, r) <= Of!Distance(k, r)
    BY <2>1, NearestIsNearest
  <2>3. Of!Homes(r) = Of!Close(r) /\ Of!First(r) = IF Of!Distance(near, r) <= MaxDistance THEN {near} ELSE {}
    BY <1>3 DEF Of!Homes, Of!First, Of!Primary
  <2> HIDE DEF near
  <2>4. \A k \in Lines : Of!Gap(near, r) <= Of!Gap(k, r)
    BY <2>1, <2>2
  <2>5. Of!Distance(near, r) <= MaxDistance <=> Of!Gap(near, r) <= MaxDistance
    BY <2>1, <2>2, SuspectsAssumption
  <2>6. near \in Of!Close(r) <=> Of!Gap(near, r) <= MaxDistance
    BY <2>2, <2>4 DEF Of!Close
  <2>7. ASSUME NEW l \in Of!Close(r)
        PROVE  Of!Gap(near, r) <= MaxDistance
    <3>1. l \in Lines /\ Of!Gap(l, r) <= MaxDistance
      BY DEF Of!Close
    <3>2. Of!Gap(near, r) \in Int /\ Of!Gap(l, r) \in Int
      BY <2>1, <2>2, <3>1
    <3> QED
      BY <2>4, <3>1, <3>2, SuspectsAssumption
  <2> QED
    BY <1>1, <2>2, <2>3, <2>5, <2>6, <2>7 DEF Of!Matches
<1> QED
  BY <1>2, <1>3

LEMMA SuspectsInitTrue == Of!Init => SuspectsIInv
<1> SUFFICES ASSUME Of!Init
             PROVE  SuspectsIInv
  OBVIOUS
<1>1. /\ times \in Placements /\ reportRows \in Reports /\ spot = Of!Clean /\ read = {}
      /\ copy = [line |-> spot, count |-> 0] /\ phase = "reading"
  BY DEF Of!Init
<1>2. \A l \in Lines : spot[l] = [types |-> {}, audio |-> FALSE, realign |-> FALSE]
  BY <1>1 DEF Of!Clean
<1>3. \A l \in Lines : IsMark(spot[l]) /\ Tells(spot[l]) /\ spot[l].types = {}
  BY <1>2 DEF IsMark, Tells
<1>4. spot = [l \in Lines |-> spot[l]]
  BY <1>1 DEF Of!Clean
<1>5. Marks(spot)
  BY <1>3, <1>4 DEF Marks
<1>6. copy.line = spot /\ copy.count \in Nat
  BY <1>1
<1> QED
  BY <1>1, <1>5, <1>6 DEF SuspectsIInv

(* What a row says and where it belongs depends on the lines' times alone. *)
LEMMA RowsAreFixed ==
    ASSUME times' = times
    PROVE  \A r : Of!Matches(r)' = Of!Matches(r) /\ Of!TypesOf(r)' = Of!TypesOf(r)
<1>1. \A l, r : Of!Distance(l, r)' = Of!Distance(l, r)
  BY DEF Of!Distance, Of!EndOf
<1>2. \A r : Of!Nearest(r)' = Of!Nearest(r)
  BY DEF Of!Nearest, Of!Distance, Of!EndOf
<1>3. \A r : Of!Keyed(r)' = Of!Keyed(r) /\ Of!PreferredKey(r)' = Of!PreferredKey(r) /\ Of!Further(r)' = Of!Further(r)
  BY DEF Of!Keyed, Of!PreferredKey, Of!Further
<1>4. \A r : Of!Primary(r)' = Of!Primary(r)
  BY <1>2, <1>3 DEF Of!Primary
<1>5. \A r : Of!First(r)' = Of!First(r)
  BY <1>1, <1>3, <1>4 DEF Of!First
<1>6. \A r : Of!Second(r)' = Of!Second(r)
  BY <1>3, <1>4 DEF Of!Second
<1>7. \A r : Of!TypesOf(r)' = Of!TypesOf(r)
  BY DEF Of!TypesOf, Of!DiffTypes, Of!QualityTypes, Of!Diagnosed
<1> QED
  BY <1>5, <1>6, <1>7 DEF Of!Matches

LEMMA ApplyKeeps ==
    ASSUME SuspectsIInv, NEW r \in reportRows, Of!Apply(r)
    PROVE  SuspectsIInv'
<1> DEFINE types == Of!TypesOf(r)
           hit == Of!Matches(r)
<1>1. /\ phase = "reading" /\ read' = read \cup {r}
      /\ copy' = IF types = {} THEN copy
                 ELSE [line  |-> [l \in Lines |-> IF l \in hit THEN Of!Merged(copy.line[l], types)
                                                  ELSE copy.line[l]],
                       count |-> copy.count + Of!Applied(r)]
      /\ times' = times /\ reportRows' = reportRows /\ spot' = spot /\ count' = count /\ phase' = phase
  BY DEF Of!Apply
<1>2. \A s : Of!Matches(s)' = Of!Matches(s) /\ Of!TypesOf(s)' = Of!TypesOf(s)
  BY <1>1, RowsAreFixed
<1>3. hit \subseteq Lines
  BY MatchesAreHomes
<1>4. Marks(spot) /\ Marks(copy.line)
  BY DEF SuspectsIInv
<1>5. Marks(spot)'
  BY <1>1, <1>2, <1>4 DEF Marks
<1>6. CASE types = {}
  <2>1. copy' = copy
    BY <1>1, <1>6
  <2>2. Marks(copy.line)'
    BY <1>1, <1>2, <1>4, <2>1 DEF Marks
  <2>3. \A s \in read' : Of!TypesOf(s)' # {} => Noted(s)'
    BY <1>1, <1>2, <1>6, <2>1 DEF SuspectsIInv, Noted
  <2> QED
    BY <1>1, <1>5, <2>1, <2>2, <2>3 DEF SuspectsIInv
<1>7. CASE types # {}
  <2> HIDE DEF types, hit
  <2>1. /\ copy'.line = [l \in Lines |-> IF l \in hit THEN Of!Merged(copy.line[l], types)
                                         ELSE copy.line[l]]
        /\ copy'.count = copy.count + Of!Applied(r)
    BY <1>1, <1>7
  <2>2. \A l \in Lines : /\ IsMark(copy.line[l]) /\ Tells(copy.line[l])
                         /\ \A t \in copy.line[l].types :
                               \E s \in reportRows : t \in Of!TypesOf(s) /\ l \in Of!Matches(s)
    BY <1>4 DEF Marks
  <2>3. ASSUME NEW l \in Lines
        PROVE  /\ IsMark(copy'.line[l]) /\ Tells(copy'.line[l])
               /\ copy'.line[l].types = copy.line[l].types \cup (IF l \in hit THEN types ELSE {})
    <3>1. CASE l \in hit
      <4>1. copy'.line[l] = Of!Merged(copy.line[l], types)
        BY <2>1, <3>1
      <4> QED
        BY <1>7, <2>2, <3>1, <4>1, MergedTells
    <3>2. CASE l \notin hit
      <4>1. copy'.line[l] = copy.line[l]
        BY <2>1, <3>2
      <4> QED
        BY <2>2, <3>2, <4>1
    <3> QED
      BY <3>1, <3>2
  <2>4. ASSUME NEW l \in Lines, NEW t \in copy'.line[l].types
        PROVE  \E s \in reportRows : t \in Of!TypesOf(s) /\ l \in Of!Matches(s)
    <3>1. CASE t \in copy.line[l].types
      BY <2>2, <3>1
    <3>2. CASE t \notin copy.line[l].types
      <4>1. l \in hit /\ t \in types
        BY <2>3, <3>2
      <4> QED
        BY <4>1 DEF hit, types
    <3> QED
      BY <3>1, <3>2
  <2>5. copy'.line = [l \in Lines |-> copy'.line[l]]
    BY <2>1
  <2>6. Marks(copy.line)'
    BY <1>1, <1>2, <2>3, <2>4, <2>5 DEF Marks
  <2>7. Of!Applied(r) \in Nat /\ (hit # {} => Of!Applied(r) > 0)
    BY DEF Of!Applied, hit, Of!Matches
  <2>8. copy.count \in Nat /\ copy'.count \in Nat
    BY <2>1, <2>7 DEF SuspectsIInv
  <2>9. ASSUME NEW s \in read', Of!TypesOf(s) # {}
        PROVE  Noted(s)'
    <3>1. s \in reportRows
      BY <1>1 DEF SuspectsIInv
    <3>2. Of!Matches(s) \subseteq Lines
      BY <3>1, MatchesAreHomes
    <3>3. CASE s \in read
      <4>1. /\ \A l \in Of!Matches(s) : Of!TypesOf(s) \subseteq copy.line[l].types
            /\ Of!Matches(s) # {} => copy.count > 0
        BY <2>9, <3>3 DEF SuspectsIInv, Noted
      <4>2. \A l \in Of!Matches(s) : Of!TypesOf(s) \subseteq copy'.line[l].types
        BY <2>3, <3>2, <4>1
      <4>3. Of!Matches(s) # {} => copy'.count > 0
        BY <2>1, <2>7, <2>8, <4>1
      <4> QED
        BY <1>2, <4>2, <4>3 DEF Noted
    <3>4. CASE s = r
      <4>1. \A l \in hit : types \subseteq copy'.line[l].types
        BY <1>3, <2>3
      <4>2. hit # {} => copy'.count > 0
        BY <2>1, <2>7, <2>8
      <4> QED
        BY <1>2, <3>4, <4>1, <4>2 DEF Noted, hit, types
    <3> QED
      BY <1>1, <2>9, <3>3, <3>4
  <2> QED
    BY <1>1, <1>2, <1>5, <2>6, <2>8, <2>9 DEF SuspectsIInv
<1> QED
  BY <1>6, <1>7

LEMMA SuspectsStepKeeps == SuspectsIInv /\ [Of!Next]_matchVars => SuspectsIInv'
<1> SUFFICES ASSUME SuspectsIInv, [Of!Next]_matchVars
             PROVE  SuspectsIInv'
  OBVIOUS
<1>1. ASSUME NEW r \in reportRows, Of!Apply(r)
      PROVE  SuspectsIInv'
  BY <1>1, ApplyKeeps
<1>2. ASSUME times' = times
      PROVE  \A r : Of!Matches(r)' = Of!Matches(r) /\ Of!TypesOf(r)' = Of!TypesOf(r)
  BY <1>2, RowsAreFixed
<1>3. CASE Of!WriteLines
  <2>1. /\ read = reportRows /\ phase' = "written" /\ spot' = copy.line /\ times' = times
        /\ reportRows' = reportRows /\ count' = count /\ copy' = copy /\ read' = read
    BY <1>3 DEF Of!WriteLines
  <2>2. Marks(spot)' /\ Marks(copy.line)'
    BY <1>2, <2>1 DEF SuspectsIInv, Marks
  <2>3. \A r \in read' : Of!TypesOf(r)' # {} => Noted(r)'
    BY <1>2, <2>1 DEF SuspectsIInv, Noted
  <2> QED
    BY <2>1, <2>2, <2>3 DEF SuspectsIInv
<1>4. CASE Of!WriteCount \/ Of!Break \/ UNCHANGED matchVars
  <2>1. /\ spot' = spot /\ times' = times /\ reportRows' = reportRows /\ copy' = copy /\ read' = read
        /\ \/ phase = "written" /\ phase' = "reported" /\ count' = copy.count
           \/ phase' = "lost"
           \/ phase' = phase /\ count' = count
    BY <1>4 DEF Of!WriteCount, Of!Break, matchVars
  <2>2. Marks(spot)' /\ Marks(copy.line)'
    BY <1>2, <2>1 DEF SuspectsIInv, Marks
  <2>3. \A r \in read' : Of!TypesOf(r)' # {} => Noted(r)'
    BY <1>2, <2>1 DEF SuspectsIInv, Noted
  <2> QED
    BY <2>1, <2>2, <2>3 DEF SuspectsIInv
<1>5. CASE Of!Again
  <2>1. /\ phase' = "reading" /\ spot' = spot /\ times' = times /\ reportRows' = reportRows
        /\ copy' = [line |-> spot, count |-> 0] /\ read' = {}
    BY <1>5 DEF Of!Again
  <2>2. copy'.line = spot /\ copy'.count = 0
    BY <2>1
  <2>3. Marks(spot)' /\ Marks(copy.line)'
    BY <1>2, <2>1, <2>2 DEF SuspectsIInv, Marks
  <2> QED
    BY <2>1, <2>2, <2>3 DEF SuspectsIInv
<1> QED
  BY <1>1, <1>3, <1>4, <1>5 DEF Of!Next

(* Marks tell what to do and are of a row each, in the file and in what    *)
(* the command holds; what has been read is noted (quality_suspects.py).   *)
THEOREM SuspectsInvariant == Of!Spec => []SuspectsIInv
<1>1. [Of!Next]_Of!vars => [Of!Next]_matchVars
  BY DEF matchVars, Of!vars
<1> QED
  BY <1>1, SuspectsInitTrue, SuspectsStepKeeps, PTL DEF Of!Spec

(* Each row with a line by its key or close enough is noted at such a line *)
(* however often the command breaks off, and the marks of a line are of    *)
(* rows that speak of it (quality_suspects.py).                            *)
THEOREM SuspectsFindTheirLineAlways == Of!Spec => []SuspectsFindTheirLine
<1>1. SuspectsIInv => SuspectsFindTheirLine
  <2> SUFFICES ASSUME SuspectsIInv, phase = "reported"
               PROVE  Of!SuspectsFindTheirLine
    BY DEF SuspectsFindTheirLine, Of!SuspectsFindTheirLine
  <2>1. spot = copy.line /\ read = reportRows /\ count = copy.count /\ Marks(spot)
    BY DEF SuspectsIInv
  <2>2. ASSUME NEW r \in reportRows, Of!TypesOf(r) # {}, Of!Homes(r) # {}
        PROVE  (\E l \in Of!Homes(r) : Of!TypesOf(r) \subseteq spot[l].types) /\ count > 0
    <3>1. PICK l \in Of!Homes(r) : l \in Of!Matches(r)
      BY <2>2, MatchesAreHomes
    <3>2. Noted(r)
      BY <2>1, <2>2 DEF SuspectsIInv
    <3> QED
      BY <2>1, <3>1, <3>2 DEF Noted
  <2>3. \A l \in Lines : spot[l].types # {} =>
           IF Of!RealignOnly(spot[l].types) THEN spot[l].realign ELSE spot[l].audio
    BY <2>1 DEF Marks, Tells
  <2>4. ASSUME NEW l \in Lines, NEW t \in spot[l].types
        PROVE  \E r \in reportRows : t \in Of!TypesOf(r) /\ l \in Of!Homes(r) \cup Of!Further(r)
    <3>1. PICK r \in reportRows : t \in Of!TypesOf(r) /\ l \in Of!Matches(r)
      BY <2>1 DEF Marks
    <3> QED
      BY <3>1, MatchesAreHomes
  <2> QED
    BY <2>2, <2>3, <2>4 DEF Of!SuspectsFindTheirLine
<1> QED
  BY <1>1, SuspectsInvariant, PTL
===============================================================================
