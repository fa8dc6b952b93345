---------------------------- MODULE MfaExperiment ----------------------------
(***************************************************************************)
(* The local alignment experiment (qwen_asr/mfa_experiment.py and the      *)
(* mfa_* modules it calls): lines that reports doubt become candidates,    *)
(* the first of them are aligned by MFA one after the other, and what      *)
(* passes the guards is written into a copy of the split manifest.         *)
(*                                                                         *)
(* A text is a member of Texts; how alike two of them are is a constant.   *)
(***************************************************************************)
EXTENDS Integers, Sequences, FiniteSets

CONSTANTS Reports,          \* what the reports may hold
          Manifests,        \* what split_segments.json may hold
          Answers,          \* what MFA may answer about a clip
          Texts, Empty,     \* texts, and the empty one
          Marks, Japanese,  \* those of punctuation only, and those with kana
          Match,            \* local_ass_match_score of two texts, in percent
          MaxCandidates, MaxRunCandidates, Padding,   \* options of the command
          MaxFar,           \* 2500 ms
          LowScore,         \* 45 %
          TargetScore       \* 70 %

None == 0 - 1                  \* a time or a score that is not there

ExperimentAssumption ==
    /\ MaxCandidates \in Nat /\ MaxRunCandidates \in Nat /\ Padding \in Nat /\ MaxFar \in Nat
    /\ LowScore \in 1..100 /\ TargetScore \in 1..100
    /\ Empty \in Marks /\ Marks \subseteq Texts /\ Japanese \subseteq Texts \ Marks
    /\ Match \in [Texts \X Texts -> 0..100]
    /\ \A s, t \in Texts : s \in Marks \/ t \in Marks => Match[s, t] = 0

VARIABLES mode,       \* --mfa-local-writeback
          doubts,     \* what the reports say, and the lines of the manifests after the split one
          lines,      \* the split manifest as it was read; <<>> is one that is missing or no table
          left,       \* candidates not yet taken, no two of them the same
          taken,      \* how many were
          runs,       \* what came of aligning them
          draft,      \* the copy of the split manifest
          items,      \* the decision about each run
          output,     \* {}, or the file that was written
          pc

vars == <<mode, doubts, lines, left, taken, runs, draft, items, output, pc>>
-----------------------------------------------------------------------------
(* The reports' rows that become candidates.  Only a comparison of two ASS *)
(* reports knows a score before and after, and where the line is now.      *)
ContentKinds == {"missing_short_response", "short_response_timing_shifted",
                 "missing_unique_text", "alignment_fallback_too_short"}
DiffKinds    == {"became-fail", "became-low", "score-drop", "matched-text-shortened"}
Short        == {"short-dialogue-missing", "short-dialogue-timing-shifted"}

Candidate(source, reason, failed, id, row, text, details) ==
    [source |-> source, reason |-> reason, failed |-> failed, id |-> id,
     start |-> row.start, end |-> row.end, text |-> text, details |-> details]
Details(from, to, previous, current) == [start |-> from, end |-> to, previous |-> previous, current |-> current]
NoDetails == Details(None, None, None, None)

FromContent(rows) ==
    {Candidate("content-quality", r.kind, r.failed, 0, r, r.text, NoDetails) :
        r \in {r \in rows : r.kind \in ContentKinds}}
FromRealign(rows) ==
    {Candidate("proofread-realign", r.status, r.status = "failed", r.id, r, Empty, NoDetails) :
        r \in {r \in rows : r.status \in {"fallback", "failed"}}}
FromAss(rows) ==
    {Candidate("ass-quality", r.diagnostics, "short-dialogue-missing" \in r.diagnostics, 0, r, r.text,
               Details(None, None, None, r.score)) :
        r \in {r \in rows : r.diagnostics \cap Short # {}}}
FromDiff(rows) ==
    {Candidate("ass-quality-diff", r.kind, r.failed, 0, r, r.text, Details(r.from, r.to, r.previous, r.current)) :
        r \in {r \in rows : r.kind \in DiffKinds \/ r.diagnostics \cap Short # {}}}
FromMimo(rows) ==
    {Candidate("mimo-proofread", "mimo-change", FALSE, r.id, r, r.text, NoDetails) :
        r \in {r \in rows : r.changed \/ r.pending}}

Collected(read) == FromContent(read.content) \cup FromRealign(read.realign) \cup FromAss(read.ass)
                   \cup FromDiff(read.diff) \cup FromMimo(read.mimo)

(* Of the candidates that say the same, the one that was read first stays; *)
(* which one that is, is the order of the reports.  No two sources give    *)
(* the same reason.                                                        *)
Key(c) == <<c.id, c.start, c.end, c.text, c.source, c.reason>>
Unique(all) == {kept \in SUBSET all : /\ \A c \in all : \E d \in kept : Key(d) = Key(c)
                                      /\ \A c, d \in kept : Key(c) = Key(d) => c = d}

SourceRank(source) == CASE source = "proofread-realign" -> 0
                        [] source = "content-quality"   -> 1
                        [] source = "ass-quality-diff"  -> 2
                        [] source = "mimo-proofread"    -> 3
                        [] OTHER                        -> 4
(* c is sorted before d; one without a time comes last of its source.      *)
Precedes(c, d) ==
    \/ c.failed /\ ~d.failed
    \/ /\ c.failed = d.failed
       /\ \/ SourceRank(c.source) < SourceRank(d.source)
          \/ /\ SourceRank(c.source) = SourceRank(d.source)
             /\ c.start # None /\ (d.start = None \/ c.start < d.start)
First(c) == c \in left /\ \A d \in left : ~Precedes(d, c)

Runnable(c) == c.start # None /\ c.end # None /\ c.end > c.start /\ c.text # Empty
-----------------------------------------------------------------------------
RangeDistance(a, b, c, d) == IF b >= c /\ d >= a THEN 0 ELSE IF b < c THEN c - b ELSE a - d

(* The text MFA is to find in the clip: the candidate's own, or, when that *)
(* has no kana, that of the nearest line in any manifest, if it is near.   *)
(* (Fragments before a short response are dropped; not modelled.)          *)
Known == {row \in doubts.mimo \cup doubts.translated \cup {lines[i] : i \in DOMAIN lines} : row.text \in Japanese}
Gap(c, row) == RangeDistance(c.start, c.end, row.start, row.end)
Nearest(c) == {row \in Known : Gap(c, row) <= MaxFar /\ \A other \in Known : Gap(c, row) <= Gap(c, other)}
LabTexts(c) == IF c.text \in Japanese \/ Nearest(c) = {} THEN {c.text} ELSE {row.text : row \in Nearest(c)}

ClipStart(c) == IF c.start > Padding THEN c.start - Padding ELSE 0

(* The words MFA timed, [start, end, known], as times of the recording.    *)
Globalized(words, from) == {[w EXCEPT !.start = from + @, !.end = from + @] : w \in words}
Usable(words)   == \E w \in words : w.known /\ w.end > w.start
AllKnown(words) == \A w \in words : w.known
Earliest(words) == CHOOSE t \in {w.start : w \in words} : \A w \in words : t <= w.start
Latest(words)   == CHOOSE t \in {w.end : w \in words} : \A w \in words : t >= w.end

Overlap(c, start, end) == (IF c.end < end THEN c.end ELSE end) > (IF c.start > start THEN c.start ELSE start)

LocalGuard(c, text, words, start, end) ==
    /\ Usable(words) /\ AllKnown(words)
    /\ Match[c.text, text] >= LowScore
    /\ Overlap(c, start, end)

(* Mutant: a score that is not known is taken for a low one. *)
DryRunWithoutBaseline(c, text) ==
    /\ Match[c.text, text] >= c.details.current
    /\ ~(c.details.previous >= LowScore /\ Match[c.text, text] < LowScore)

(* What is written back must be known not to be worse than what is there.  *)
DryRun(c, text) ==
    /\ c.details.previous # None /\ c.details.current # None
    /\ Match[c.text, text] >= c.details.current
    /\ ~(c.details.previous >= LowScore /\ Match[c.text, text] < LowScore)

Run(status, c, text, start, end, guard, dry) ==
    [status |-> status, candidate |-> c, text |-> text, start |-> start, end |-> end, guard |-> guard, dry |-> dry]
Nothing(status, c) == Run(status, c, Empty, None, None, FALSE, FALSE)

MfaResult(c, lab, answer) ==
    LET words == Globalized(answer.words, ClipStart(c))
        text  == IF answer.text = Empty THEN lab ELSE answer.text
        start == IF words = {} THEN None ELSE Earliest(words)
        end   == IF words = {} THEN None ELSE Latest(words)
        guard == words # {} /\ LocalGuard(c, text, words, start, end)
    IN  Run(IF answer.ok THEN "completed" ELSE "failed", c, text, start, end, guard, guard /\ DryRun(c, text))

(* The clip may not be cut.                                                *)
Aligned(c, lab) == IF lab \in Marks THEN {Nothing("skipped", c)}
                   ELSE {Nothing("failed", c)} \cup {MfaResult(c, lab, answer) : answer \in Answers}
-----------------------------------------------------------------------------
(* The row of the draft a candidate is about: the nearest one in time, and *)
(* of those the first.  Rows that were moved count where they are now.     *)
TargetSpan(c) == IF c.details.start = None \/ c.details.end = None THEN [start |-> c.start, end |-> c.end]
                 ELSE [start |-> c.details.start, end |-> c.details.end]
Abs(n) == IF n < 0 THEN 0 - n ELSE n
Distance(span, row) == RangeDistance(span.start, span.end, row.start, row.end)
TargetCost(span, row) ==
    10 * Distance(span, row) + Abs((span.start + span.end) \div 2 - (row.start + row.end) \div 2)
Near(span) == {i \in DOMAIN draft : Distance(span, draft[i]) <= MaxFar}
Targets(c) ==
    LET span == TargetSpan(c) IN
    IF span.start = None \/ span.end = None THEN {}
    ELSE {i \in Near(span) : \A j \in Near(span) :
              \/ TargetCost(span, draft[i]) < TargetCost(span, draft[j])
              \/ TargetCost(span, draft[i]) = TargetCost(span, draft[j]) /\ i <= j}

Accepted(r, i) ==
    /\ r.status = "completed" /\ r.guard /\ r.dry
    /\ r.start # None /\ r.end > r.start
    /\ Match[draft[i].text, r.text] >= TargetScore
    /\ Distance(draft[i], r) <= MaxFar

Item(status, i) == [status |-> status, row |-> i]
Moved(row, r) == [start |-> r.start, end |-> r.end, text |-> row.text,
                  moved |-> {[start |-> row.start, end |-> row.end, text |-> r.text]}]
-----------------------------------------------------------------------------
NoCandidate == Candidate("", "", FALSE, 0, [start |-> None, end |-> None], Empty, NoDetails)

Init == /\ mode \in {"off", "propose", "apply"}
        /\ lines \in Manifests
        /\ doubts \in Reports /\ left \in Unique(Collected(doubts))
        /\ draft = [i \in DOMAIN lines |->
                       [start |-> lines[i].start, end |-> lines[i].end, text |-> lines[i].text, moved |-> {}]]
        /\ taken = 0 /\ runs = <<>> /\ items = <<>> /\ output = {} /\ pc = "align"

(* No alignment was asked for, or MFA or the audio is missing.             *)
NoRuns == /\ pc = "align" /\ taken = 0
          /\ runs' \in {<<>>, <<Nothing("skipped", NoCandidate)>>}
          /\ left' = {} /\ pc' = "write"
          /\ UNCHANGED <<mode, doubts, lines, taken, draft, items, output>>

Take(c) ==
    /\ pc = "align" /\ taken < MaxCandidates /\ First(c)
    /\ left' = left \ {c} /\ taken' = taken + 1
    /\ IF Runnable(c) /\ Len(runs) < MaxRunCandidates
       THEN \E lab \in LabTexts(c) : \E r \in Aligned(c, lab) : runs' = Append(runs, r)
       ELSE UNCHANGED runs
    /\ UNCHANGED <<mode, doubts, lines, draft, items, output, pc>>

EndRuns == /\ pc = "align" /\ (taken = MaxCandidates \/ left = {})
           /\ pc' = "write"
           /\ UNCHANGED <<mode, doubts, lines, left, taken, runs, draft, items, output>>

Decide ==
    /\ pc = "write" /\ mode # "off" /\ lines # <<>> /\ Len(items) < Len(runs)
    /\ LET r == runs[Len(items) + 1] IN
       \/ /\ \/ Targets(r.candidate) = {}
             \/ \E i \in Targets(r.candidate) : ~Accepted(r, i)
          /\ items' = Append(items, Item("REJECT", 0)) /\ UNCHANGED draft
       \/ \E i \in Targets(r.candidate) :
             /\ Accepted(r, i)
             /\ IF mode = "apply"
                THEN /\ items' = Append(items, Item("APPLIED", i))
                     /\ draft' = [draft EXCEPT ![i] = Moved(draft[i], r)]
                ELSE items' = Append(items, Item("APPLY", i)) /\ UNCHANGED draft
    /\ UNCHANGED <<mode, doubts, lines, left, taken, runs, output, pc>>

Applied == {k \in DOMAIN items : items[k].status = "APPLIED"}

Finish == /\ pc = "write" /\ (mode = "off" \/ lines = <<>> \/ Len(items) = Len(runs))
          /\ output' = IF mode = "apply" /\ Applied # {} THEN {draft} ELSE {}
          /\ pc' = "done"
          /\ UNCHANGED <<mode, doubts, lines, left, taken, runs, draft, items>>

Next == NoRuns \/ (\E c \in left : Take(c)) \/ EndRuns \/ Decide \/ Finish

Spec == Init /\ [][Next]_vars
-----------------------------------------------------------------------------
(* A row of the copy that differs from the manifest was moved by a run     *)
(* that was compared with the line before: of the last one, the words      *)
(* overlap what the report doubts, are at least as like the reference as   *)
(* what is shown now, are like the row's own text, and are near where the  *)
(* row was.  A second run may find a row that the first one has moved.     *)
Justified(i, m) ==
    \E k \in Applied :
        LET r == runs[k] IN
        /\ items[k].row = i
        /\ draft[i].start = r.start /\ draft[i].end = r.end /\ m.text = r.text
        /\ r.candidate.source = "ass-quality-diff"
        /\ Overlap(r.candidate, r.start, r.end)
        /\ Match[r.candidate.text, r.text] >= r.candidate.details.current
        /\ Match[r.candidate.text, r.text] >= LowScore
RowsAreJustified ==
    \A i \in DOMAIN lines :
        /\ draft[i].text = lines[i].text
        /\ draft[i].moved = {} => draft[i].start = lines[i].start /\ draft[i].end = lines[i].end
        /\ \A m \in draft[i].moved :
              /\ draft[i].start < draft[i].end
              /\ Distance(m, draft[i]) <= MaxFar
              /\ Match[draft[i].text, m.text] >= TargetScore
              /\ Justified(i, m)

(* The file is the copy, and is written if and only if a row was moved.    *)
OutputIsTheDraft ==
    pc = "done" => output = IF \E i \in DOMAIN lines : draft[i].moved # {} THEN {draft} ELSE {}

(* No failure is left out in favour of a warning.                          *)
FailuresFirst ==
    \A c \in left : c.failed => \A k \in DOMAIN runs : runs[k].candidate.failed

(* What the experiment writes is justified by the runs it reports.         *)
WritebackIsJustified == RowsAreJustified /\ OutputIsTheDraft /\ FailuresFirst
=============================================================================
