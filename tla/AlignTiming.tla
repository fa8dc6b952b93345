----------------------------- MODULE AlignTiming -----------------------------
(***************************************************************************)
(* The align stage of one segment: the times the aligner answers with are  *)
(* validated (align.py), tokens it squeezed together are given new times   *)
(* between their neighbours, and what stays unreliable is listened to once *)
(* more in short windows (commands/align.py, --align-fallback).            *)
(*                                                                         *)
(* Times are milliseconds.  A word has a length in characters and a        *)
(* content, the sequence of its letters once normalised.  The LLM-like     *)
(* models are external: what they answer is chosen from constants.         *)
(***************************************************************************)
EXTENDS Integers, Sequences, FiniteSets

CONSTANTS Segments,            \* inputs: [start, end, words] of a transcript row
          Timings(_),          \* inputs: how the aligner may time a segment of n words
          Heard(_, _),         \* inputs: the words a window of the segment may hold
          Window,              \* --align-fallback-window-seconds
          ZeroRun, MinCoverage, DenseCoverage, DenseZeros, ExpectedCps,
          MinChars, MaxSpan, MaxCps, MaxTokens,
          MaxRatio, TargetCps, NaturalCps, MaxExpand, CollapsedAt

(* The aligner times every word it is given, from the start of the audio.  *)
AlignTimingAssumption ==
    /\ Window > 0 /\ {MaxTokens, MaxExpand, MinChars, NaturalCps} \subseteq Nat \ {0}
    /\ \A s \in Segments :
           /\ {s.start, s.end} \subseteq Nat /\ s.words \in Seq({s.words[i] : i \in DOMAIN s.words})
           /\ \A i \in DOMAIN s.words : s.words[i].len \in Nat
           /\ Timings(Len(s.words)) \subseteq [1..Len(s.words) -> Nat \X Nat]

VARIABLES segment, answer, row, offset, windows, phase
alignVars == <<segment, answer, row, offset, windows, phase>>

Least(S)      == CHOOSE x \in S : \A y \in S : x <= y
Greatest(S)   == CHOOSE x \in S : \A y \in S : x >= y
AtLeast(a, b) == IF a > b THEN a ELSE b
AtMost(a, b)  == IF a < b THEN a ELSE b

(* How many characters the tokens of an interval have; none counts as one  *)
(* where a token needs a share of the time.                                *)
Sums(f) == LET s[i \in 0..Len(f)] == IF i = 0 THEN 0 ELSE s[i - 1] + f[i] IN s
SumOf(f, lo, hi) == Sums(f)[hi] - Sums(f)[lo - 1]
Chars(t, lo, hi) == SumOf([i \in DOMAIN t |-> t[i].word.len], lo, hi)
Shares(t, lo, hi) == SumOf([i \in DOMAIN t |-> AtLeast(t[i].word.len, 1)], lo, hi)
Took(t, i)  == t[i].end - t[i].start
Zero(t, i)  == Took(t, i) <= 0
-----------------------------------------------------------------------------
(* validate_aligned_token_timing: "" or what is wrong.                     *)
Covered(t) ==
    LET spoken == {i \in DOMAIN t : ~Zero(t, i)}
    IN  IF spoken = {} THEN 0
        ELSE Greatest({t[i].end : i \in spoken}) - Least({t[i].start : i \in spoken})
Expected(t, s) == AtMost(AtLeast(0, s.end - s.start), (1000 * Chars(t, 1, Len(t))) \div ExpectedCps)
Below(t, s, percent) == Expected(t, s) > 0 /\ 100 * Covered(t) < percent * Expected(t, s)
LongZeroRun(t) ==
    \E i \in DOMAIN t : i + ZeroRun \in DOMAIN t /\ \A j \in i..(i + ZeroRun) : Zero(t, j)

(* The windows of tokens too dense to have been spoken; tokens without     *)
(* text, or that end before they start, are passed over.                   *)
Dense(t) ==
    LET timed == {i \in DOMAIN t : t[i].word.len > 0 /\ Took(t, i) >= 0}
        In(a, b) == {i \in timed : a <= i /\ i <= b}
        End(a, b) == Greatest({t[i].end : i \in In(a, b)})
        Text(a, b) == SumOf([i \in DOMAIN t |-> IF i \in timed THEN t[i].word.len ELSE 0], a, b)
    IN  {w \in timed \X timed :
            LET a == w[1] b == w[2] took == End(a, b) - t[a].start
            IN  /\ a <= b /\ Cardinality(In(a, b)) <= MaxTokens
                /\ took > 0 /\ took <= MaxSpan
                /\ Text(a, b) >= MinChars /\ 1000 * Text(a, b) >= MaxCps * took}

InOrder(t) == \A i \in 1..(Len(t) - 1) : t[i].start <= t[i + 1].start
Reliable(t, s) ==
    /\ t # <<>> /\ InOrder(t)
    /\ ~Below(t, s, MinCoverage) /\ ~LongZeroRun(t)
    /\ ~(/\ 100 * Cardinality({i \in DOMAIN t : Zero(t, i)}) >= DenseZeros * Len(t)
         /\ Below(t, s, DenseCoverage))
    /\ Dense(t) = {}
-----------------------------------------------------------------------------
(* repair_local_token_collapse: the tokens squeezed inside a dense window, *)
(* in runs (one good token between two of them belongs to the run).        *)
Collapsed(t) ==
    LET dense == UNION {w[1]..w[2] : w \in Dense(t)}
    IN  {i \in dense : \/ Took(t, i) <= CollapsedAt
                       \/ 1000 * AtLeast(t[i].word.len, 1) >= MaxCps * Took(t, i)}
RunOf(c, a)   == Greatest({b \in c : a <= b /\ \A i \in a..b : i \in c \/ {i - 1, i + 1} \subseteq c})
RunStarts(c)  == {a \in c : ~\E b \in c : b < a /\ a <= b + 2}

(* The time between the neighbours of an interval. *)
Left(t, s, lo)  == IF lo > 1 THEN t[lo - 1].end ELSE s.start
Right(t, s, hi) == IF hi < Len(t) THEN t[hi + 1].start ELSE s.end
Room(t, s, lo, hi)  == Right(t, s, hi) - Left(t, s, lo)
Enough(t, s, lo, hi) == /\ Room(t, s, lo, hi) > 0
                        /\ 1000 * Shares(t, lo, hi) <= TargetCps * Room(t, s, lo, hi)

(* A run is widened by neighbours on both sides until it has room. *)
Lo(a, k)    == AtLeast(1, a - k)
Hi(t, b, k) == AtMost(Len(t), b + k)
Widened(t, s, a, b) ==
    LET stops == {k \in 0..MaxExpand : \/ Enough(t, s, Lo(a, k), Hi(t, b, k))
                                       \/ Lo(a, k) = 1 /\ Hi(t, b, k) = Len(t)}
    IN  IF stops = {} THEN MaxExpand + 1 ELSE Least(stops)

(* The tokens lo..hi share the time from left on by their lengths. *)
Spread(t, lo, hi, left, took) ==
    LET all == Shares(t, lo, hi)
        At(i) == left + (2 * took * Shares(t, lo, i - 1) + all) \div (2 * all)
    IN  [i \in DOMAIN t |-> IF i \in lo..hi THEN [word |-> t[i].word, start |-> At(i), end |-> At(i + 1)]
                            ELSE t[i]]
Retimed(t, s, a, b, anchor) ==
    LET k == Widened(t, s, a, b) lo == Lo(a, k) hi == Hi(t, b, k)
        room == Room(t, s, lo, hi) needed == (1000 * Shares(t, lo, hi)) \div NaturalCps
        left == IF needed < room
                THEN AtMost(AtLeast(anchor - needed \div 2, Left(t, s, lo)), Right(t, s, hi) - needed)
                ELSE Left(t, s, lo)
    IN  IF room <= 0 THEN <<>> ELSE Spread(t, lo, hi, left, AtMost(needed, room))

(* The runs are repaired from the left, each with what the ones before it  *)
(* have come to; <<>> when the repair is given up.                         *)
Repaired(t, s) ==
    LET c == Collapsed(t)
        upto[a \in 0..Len(t)] ==
            IF a = 0 THEN t
            ELSE IF upto[a - 1] = <<>> \/ a \notin RunStarts(c) THEN upto[a - 1]
            ELSE Retimed(upto[a - 1], s, a, RunOf(c, a), t[a].start)
        all == upto[Len(t)]
        squeezed == SumOf([i \in DOMAIN t |-> IF i \in c THEN t[i].word.len ELSE 0], 1, Len(t))
    IN  IF c = {} \/ 100 * squeezed > MaxRatio * Chars(t, 1, Len(t)) \/ Chars(t, 1, Len(t)) = 0 THEN <<>>
        ELSE IF all # <<>> /\ Reliable(all, s) THEN all ELSE <<>>

(* run_segment: the row of one call of the aligner. *)
Row(status, tokens) == [status |-> status, tokens |-> tokens]
Aligned(t, s) ==
    LET repair == Repaired(t, s)
    IN  IF Reliable(t, s) THEN Row("completed", t)
        ELSE IF repair # <<>> THEN Row("repaired", repair) ELSE Row("failed", <<>>)

(* _extract_tokens: what the aligner answers is offset by the start. *)
Offset(words, times, start) ==
    [i \in DOMAIN times |-> [word |-> words[i], start |-> start + times[i][1], end |-> start + times[i][2]]]
-----------------------------------------------------------------------------
Content(words) ==
    LET c[i \in 0..Len(words)] == IF i = 0 THEN <<>> ELSE c[i - 1] \o words[i].letters
    IN  c[Len(words)]
WordsOf(t) == [i \in DOMAIN t |-> t[i].word]

(* Python's sort is stable: equal times keep the order they came in. *)
Sorted(t) ==
    LET Before(i, j) == \/ t[i].start < t[j].start
                        \/ t[i].start = t[j].start /\ t[i].end < t[j].end
                        \/ t[i].start = t[j].start /\ t[i].end = t[j].end /\ i < j
        rank == [i \in DOMAIN t |-> 1 + Cardinality({j \in DOMAIN t : Before(j, i)})]
    IN  [k \in DOMAIN t |-> t[CHOOSE i \in DOMAIN t : rank[i] = k]]

SameLength(t, s) == Content(s.words) = <<>> \/ Len(Content(WordsOf(t))) = Len(Content(s.words))
Faithful(t, s) == Content(s.words) = <<>> \/ Content(WordsOf(t)) = Content(s.words)
-----------------------------------------------------------------------------
NoRow == Row("none", <<>>)
AlignInit == /\ segment \in Segments /\ answer = <<>> /\ row = NoRow
             /\ offset = 0 /\ windows = <<>> /\ phase = "align"

Align == /\ phase = "align"
         /\ \E times \in Timings(Len(segment.words)) :
               answer' = Offset(segment.words, times, segment.start)
         /\ row' = Aligned(answer', segment)
         /\ phase' = IF row'.status = "failed" THEN "fallback" ELSE "done"
         /\ UNCHANGED <<segment, offset, windows>>

(* One window of the fallback: what is heard in it is aligned like a       *)
(* segment of its own; a window without words, or whose alignment fails,   *)
(* adds nothing.                                                           *)
WindowAt(k, words) == [start |-> segment.start + k, words |-> words,
                       end |-> AtMost(segment.end, segment.start + k + Window)]
HearWindow ==
    /\ phase = "fallback" /\ segment.start + offset < segment.end
    /\ \E words \in Heard(segment, offset) :
          LET w == WindowAt(offset, words)
          IN  \/ words = <<>> /\ UNCHANGED windows
              \/ /\ words # <<>>
                 /\ \E times \in Timings(Len(words)) :
                       windows' = windows \o Aligned(Offset(words, times, w.start), w).tokens
    /\ offset' = offset + Window
    /\ UNCHANGED <<segment, answer, row, phase>>

EndFallback ==
    /\ phase = "fallback" /\ segment.start + offset >= segment.end
    /\ row' = LET t == Sorted(windows)
              IN  IF Reliable(t, segment) /\ Faithful(t, segment) THEN Row("completed", t)
                  ELSE Row("failed", <<>>)
    /\ phase' = "done"
    /\ UNCHANGED <<segment, answer, offset, windows>>

AlignNext == Align \/ HearWindow \/ EndFallback
-----------------------------------------------------------------------------
(* A repair is local: only tokens at most MaxExpand + 1 from a squeezed    *)
(* one move, the tokens it moves lie between their neighbours and inside   *)
(* the segment, and none that was good overlaps one that moved more than   *)
(* it overlapped before.                                                   *)
RepairIsLocal ==
    row.status = "repaired" =>
      LET t == row.tokens
          squeezed == Collapsed(answer)
          moved == {i \in DOMAIN t : t[i] # answer[i]}
          inside == \A i \in DOMAIN t : answer[i].start <= segment.end
      IN  /\ \A i \in moved : \E j \in squeezed : j - i <= MaxExpand + 1 /\ i - j <= MaxExpand + 1
          /\ \A i \in moved : t[i].start >= segment.start /\ (inside => t[i].end <= segment.end)
          /\ \A i \in moved : /\ i < Len(t) => t[i].end <= t[i + 1].start
                              /\ i > 1 => t[i].start >= t[i - 1].end
          /\ WordsOf(t) = segment.words

(* Whichever way a segment is aligned, its tokens say what its text says,  *)
(* in the order of their times: neither windows that cut a word in two nor *)
(* ones that heard it twice get through.  (Of a text without letters       *)
(* anything gets through, README, divergences.)                            *)
AlignedKeepsContent ==
    row.status \in {"completed", "repaired"} =>
        /\ InOrder(row.tokens)
        /\ Content(segment.words) # <<>> => Content(WordsOf(row.tokens)) = Content(segment.words)
=============================================================================
