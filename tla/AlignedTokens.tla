--------------------------- MODULE AlignedTokens ---------------------------
(***************************************************************************)
(* What the split stage makes of the aligned manifest                      *)
(* (qwen_asr/optimizer_bridge_adapter.py): one timed token for every piece *)
(* of text, in order, none of them without a duration and none before the  *)
(* end of the one before it, whatever the aligner wrote.                   *)
(*                                                                         *)
(* A word stands for a bit of text that no pass takes apart: its text says *)
(* how the passes treat it (see CueRules), its id which bit it is.         *)
(* Times are counted in ticks.                                             *)
(***************************************************************************)
EXTENDS Integers, SequencesExt

CONSTANTS InterpolationGap,  \* ALIGN_LOCAL_INTERPOLATION_MAX_GAP_MS
          ZeroDuration,      \* ALIGN_ZERO_TOKEN_DEFAULT_DURATION_MS
          FallbackLong,      \* FALLBACK_SHORT_TEXT_LONG_DURATION_MS
          FallbackTarget     \* FALLBACK_SHORT_TEXT_MIN_DURATION_MS

MaxOf(a, b) == IF a >= b THEN a ELSE b
MinOf(a, b) == IF a <= b THEN a ELSE b

(* op applied from left to right for every position of seq. *)
OverDomain(op(_, _), base, seq) ==
    LET acc[i \in 0..Len(seq)] == IF i = 0 THEN base ELSE op(acc[i - 1], i) IN acc[Len(seq)]

(* round(a / b) of Python: to the nearest, ties to the even one. *)
Round(a, b) ==
    LET q == a \div b  r == a % b
    IN IF 2 * r > b \/ (2 * r = b /\ q % 2 = 1) THEN q + 1 ELSE q

Words(items) == FlattenSeq([i \in DOMAIN items |-> items[i].words])
Texts(ws) == [i \in DOMAIN ws |-> ws[i].text]
Piece(ws, s, e) == [words |-> ws, start |-> s, end |-> e]

(* A chunk of the aligned manifest and of the transcript: its bounds,      *)
(* whether there is a transcript of it, whether its alignment can be used  *)
(* (completed, plausible times, the transcript's content) and its pieces.  *)

(* The bounds of chunk i, less what half of an overlap gives its neighbours. *)
OwnedBounds(chunks, i) ==
    LET c  == chunks[i]
        lo == IF i > 1 /\ chunks[i - 1].end > c.start
              THEN (chunks[i - 1].end + c.start) \div 2 ELSE c.start
        hi == IF i < Len(chunks) /\ c.end > chunks[i + 1].start
              THEN (c.end + chunks[i + 1].start) \div 2 ELSE c.end
    IN <<lo, MaxOf(hi, lo + 1)>>

(* A chunk that has neither a usable alignment nor a transcript fails the  *)
(* stage; without a usable alignment its text is one piece.                *)
Unusable(chunk) == ~chunk.usable /\ ~chunk.known
PiecesOf(chunk, owned) ==
    IF chunk.usable THEN chunk.pieces
    ELSE <<Piece(Words(chunk.pieces), owned[1], owned[2])>>

(* Leading pieces which repeat the end of the chunk before are dropped.    *)
WithoutDuplicate(previous, pieces) ==
    LET repeats(n) == IsSuffix(Texts(Words(SubSeq(pieces, 1, n))), Texts(previous))
        best == {n \in 1..Len(pieces) : repeats(n)}
    IN IF best = {} THEN pieces
       ELSE SubSeq(pieces, (CHOOSE n \in best : \A m \in best : m <= n) + 1, Len(pieces))

NoRange == <<>>

(* The piece's own range, if it has a duration, moved into the bounds. *)
ClippedRange(piece, lo, hi) ==
    IF piece.end <= piece.start THEN NoRange
    ELSE LET s == MaxOf(lo, MinOf(piece.start, hi - 1))
         IN <<s, MaxOf(s + 1, MinOf(piece.end, hi))>>

(* Pieces without one share a short gap between their neighbours, or take  *)
(* a default duration each, as far as the next range leaves room.          *)
FillMissingRanges(clipped, lo, hi) ==
    LET n == Len(clipped)
        First(i) == CHOOSE k \in 1..i : /\ \A j \in k..i : clipped[j] = NoRange
                                        /\ k = 1 \/ clipped[k - 1] # NoRange
        Next(i)  == CHOOSE k \in i..(n + 1) : /\ \A j \in i..(k - 1) : clipped[j] = NoRange
                                              /\ k = n + 1 \/ clipped[k] # NoRange
        filled[i \in 1..n] ==
            IF clipped[i] # NoRange THEN clipped[i] ELSE
            LET f == First(i)
                k == Next(i)
                right == k <= n
                cursor == IF i > 1 THEN filled[i - 1][2] ELSE lo
                gap == clipped[k][1] - clipped[f - 1][2]
                interpolate == f > 1 /\ right /\ gap >= k - f /\ gap <= InterpolationGap
                left == k - i
                shared == MinOf(clipped[k][1] - (left - 1),
                                cursor + MaxOf(1, Round(clipped[k][1] - cursor, left)))
                default == MinOf(cursor + ZeroDuration,
                                 MaxOf(cursor + 1, (IF right THEN clipped[k][1] ELSE hi) - (left - 1)))
                fitted == IF right THEN MinOf(default, clipped[k][1] - (left - 1)) ELSE default
            IN <<cursor, MaxOf(cursor + 1, IF interpolate THEN shared ELSE fitted)>>
    IN filled

(* Every range begins where the one before it ended or later, and leaves   *)
(* room for those that follow.                                             *)
EnforceMonotonic(ranges, lo, hi) ==
    LET n == Len(ranges)
        kept[i \in 1..n] ==
            LET cursor == IF i = 1 THEN lo ELSE kept[i - 1][2]
                latest == MaxOf(cursor + 1, hi - (n - i))
                s == MaxOf(cursor, MinOf(ranges[i][1], latest - 1))
            IN <<s, MaxOf(s + 1, MinOf(ranges[i][2], latest))>>
    IN kept

RepairRanges(pieces, owned) ==
    LET lo == owned[1]
        hi == MaxOf(owned[2], lo + Len(pieces))
        clipped == [i \in DOMAIN pieces |-> ClippedRange(pieces[i], lo, hi)]
    IN EnforceMonotonic(FillMissingRanges(clipped, lo, hi), lo, hi)

(* A short reply that would be shown for long is shown briefly, in the     *)
(* middle of its time.                                                     *)
Narrowed(range, reply) ==
    LET duration == range[2] - range[1]
        s == MaxOf(range[1], range[1] + duration \div 2 - FallbackTarget \div 2)
    IN IF reply /\ duration > FallbackLong
       THEN <<s, MaxOf(s + 1, MinOf(range[2], s + FallbackTarget))>> ELSE range

(* _chunks_to_asr_segments: the tokens of all the chunks; Reply(words)     *)
(* tells a short reply.                                                    *)
Tokens(chunks, Reply(_)) ==
    LET after[i \in 0..Len(chunks)] ==
          IF i = 0 THEN [out |-> <<>>, said |-> <<>>] ELSE
          LET before == after[i - 1]
              owned == OwnedBounds(chunks, i)
              overlaps == i > 1 /\ chunks[i - 1].end > chunks[i].start
              all == PiecesOf(chunks[i], owned)
              pieces == IF overlaps /\ before.said # <<>>
                        THEN WithoutDuplicate(before.said, all) ELSE all
              ranges == RepairRanges(pieces, owned)
              put(out, j) ==
                  LET r == Narrowed(ranges[j], Reply(pieces[j].words))
                      s == IF out = <<>> THEN r[1] ELSE MaxOf(r[1], Last(out).end)
                  IN Append(out, Piece(pieces[j].words, s, MaxOf(r[2], s + 1)))
          IN [out  |-> OverDomain(put, before.out, pieces),
              said |-> IF pieces = <<>> THEN before.said ELSE Words(pieces)]
    IN after[Len(chunks)].out
=============================================================================
