------------------------------ MODULE CueRules ------------------------------
(***************************************************************************)
(* The rules by which tokens become cues and cues are joined: the rule     *)
(* splitter (optimizer/splitter.py), its text rules                        *)
(* (splitter_readability.py, splitter_boundaries.py), its boundary between *)
(* phrases (splitter_bunsetsu.py), its timing (splitter_timing.py) and     *)
(* its display times (splitter_display.py).  The text of a word:           *)
(*   "word"  no particular one             "yes"   a reply that the guards *)
(*   "mm"    a reply at any place                  protect if it is alone  *)
(*   "uhm"   a filler                      "tail"  a dangling ending       *)
(*   "head"  the opening of a clause       "stop"  the end of a sentence   *)
(*   "join"  a connecting word             "comma" what a clause ends with *)
(*   "so"    an unprotected reply          "self"  who speaks              *)
(* The words of one text are the same text.                                *)
(***************************************************************************)
EXTENDS AlignedTokens

CONSTANTS MaxWords,          \* max_word_count_cjk, max_word_count_english
          RuleGap, MaxGap,   \* RULE_SPLIT_GAP, MAX_GAP
          GapWindow, GapFactor, MinGroup,
                             \* TIME_GAP_WINDOW_SIZE, _MULTIPLIER, MIN_GROUP_SIZE
          PrefixMin, SuffixMin,  \* max_wc times PREFIX_WORD_RATIO, SUFFIX_WORD_RATIO
          MinTokens,         \* RULE_MIN_SEGMENT_SIZE
          FillerGap, FillerWords,          \* filler_merge_max_gap, _max_cjk
          ReadableGap, TailGap, ReadableWords, \* readability_merge_max_gap,
                             \* tail_fragment_merge_max_gap, readability_merge_max_cjk
          PreferGap,         \* by how much the next silence must be shorter
          InlineMinRest,     \* the words that must follow a leading reply
          InlineShort,       \* short_utterance_min_duration
          MinProtected, MinOrdinary, MaxDisplay  \* DisplayDurationConfig

(* The phrases of a Japanese analyser: the ids of the words it lets a cut  *)
(* follow; or no analyser, and a cut may be anywhere.                      *)
NoAnalyser == {0}   \* no word has the id 0

Cue(tokens) == Piece(Words(tokens), tokens[1].start, Last(tokens).end)
Joined(l, r) == Piece(l.words \o r.words, MinOf(l.start, r.start), MaxOf(l.end, r.end))
Duration(c) == MaxOf(0, c.end - c.start)
Gap(l, r)   == MaxOf(0, r.start - l.end)
Only(c, texts) == Len(c.words) = 1 /\ c.words[1].text \in texts
-----------------------------------------------------------------------------
(* splitter_readability.py. *)
IsReply(c)      == Only(c, {"yes", "mm", "so"}) \* is_dialogue_standalone_response
IsProtected(c)  == Only(c, {"yes", "mm"})       \* is_protected_short_display_response
IsFiller(c)     == c.words # <<>> /\ \A i \in DOMAIN c.words : c.words[i].text = "uhm"
IsStructural(c) == c.words # <<>> /\ (c.words[1].text = "head" \/ Last(c.words).text = "tail")
IsTail(c)       == Only(c, {"tail"})
IsUtterance(c)  == Len(c.words) \in 1..4 /\ ~IsFiller(c) /\ ~IsStructural(c)
IsShort(c)      == ~IsReply(c) /\ (Duration(c) < MinOrdinary \/ IsStructural(c))

CanMergeFiller(l, r) ==
    /\ ~IsReply(l) /\ ~IsReply(r)
    /\ Gap(l, r) <= FillerGap /\ Len(l.words \o r.words) <= FillerWords

CanMerge(l, r) ==
    /\ ~IsReply(l) /\ ~IsReply(r)
    /\ ~IsUtterance(l) \/ IsStructural(r)
    /\ ~IsUtterance(r)
    /\ Gap(l, r) <= (IF IsStructural(l) \/ IsStructural(r) THEN TailGap ELSE ReadableGap)
    /\ Len(l.words \o r.words) <= ReadableWords

PreferNext(prev, c, next) ==
    \/ prev = <<>>
    \/ c.words[1].text = "head"
    \/ Last(c.words).text # "tail" /\ Gap(c, next[1]) + PreferGap < Gap(prev[1], c)
-----------------------------------------------------------------------------
(* A pass over the cues from left to right: Rule says of each one whether  *)
(* it joins the cue put out last, or the next one (which is then passed    *)
(* over), or stays.  prev and next are <<>> where there is none.           *)
Sweep(cues, Rule(_, _, _)) ==
    LET step(acc, i) ==
          LET prev == IF acc.out = <<>> THEN <<>> ELSE <<Last(acc.out)>>
              next == IF i < Len(cues) THEN <<cues[i + 1]>> ELSE <<>>
              move == Rule(prev, cues[i], next)
          IN CASE acc.skip -> [acc EXCEPT !.skip = FALSE]
               [] ~acc.skip /\ move = "left" ->
                    [acc EXCEPT !.out = Append(Front(@), Joined(prev[1], cues[i]))]
               [] ~acc.skip /\ move = "right" ->
                    [out |-> Append(acc.out, Joined(cues[i], next[1])), skip |-> TRUE]
               [] OTHER -> [acc EXCEPT !.out = Append(@, cues[i])]
    IN OverDomain(step, [out |-> <<>>, skip |-> FALSE], cues).out

FillerLeft(prev, c, next) ==
    IF prev # <<>> /\ IsFiller(c) /\ CanMergeFiller(prev[1], c) THEN "left" ELSE "stay"
FillerRight(prev, c, next) ==
    IF next # <<>> /\ IsFiller(c) /\ CanMergeFiller(c, next[1]) THEN "right" ELSE "stay"
SmoothFillers(cues) == Sweep(Sweep(cues, FillerLeft), FillerRight)

Readability(prev, c, next) ==
    LET left  == prev # <<>> /\ CanMerge(prev[1], c)
        right == next # <<>> /\ CanMerge(c, next[1])
    IN CASE ~IsShort(c) \/ ~(left \/ right) -> "stay"
         [] IsShort(c) /\ right /\ PreferNext(prev, c, next) -> "right"
         [] IsShort(c) /\ left /\ ~(right /\ PreferNext(prev, c, next)) -> "left"
         [] OTHER -> "right"
SmoothReadability(cues) == Sweep(cues, Readability)

TailLeft(prev, c, next) ==
    IF /\ prev # <<>> /\ IsTail(c) /\ Gap(prev[1], c) <= TailGap
       /\ Len(prev[1].words \o c.words) <= ReadableWords
    THEN "left" ELSE "stay"
MergeTails(cues) == Sweep(cues, TailLeft)
-----------------------------------------------------------------------------
(* splitter.py, _process_by_rules. *)

(* The positions in tokens after which a phrase ends; every one if there   *)
(* is nothing to analyse.                                                  *)
Cuts(tokens) == 1..(Len(tokens) - 1)
AllowedCuts(tokens, analyser) ==
    {i \in Cuts(tokens) : \/ Last(tokens[i].words).id \in analyser
                          \/ Last(tokens[i].words).text \in {"stop", "comma"}}
Restricted(tokens, analyser) == analyser # NoAnalyser /\ Len(tokens) >= 2

(* Groups between long silences, and silences long for their neighbourhood. *)
GroupByGaps(tokens, analyser) ==
    LET unrestricted == ~Restricted(tokens, analyser)
        allowed == IF unrestricted THEN Cuts(tokens) ELSE AllowedCuts(tokens, analyser)
        step(acc, i) ==
          LET gap == tokens[i].start - tokens[i - 1].end
              recent == LET all == Append(acc.recent, gap)
                        IN IF Len(all) > GapWindow THEN Tail(all) ELSE all
              large == /\ Len(recent) = GapWindow
                       /\ gap * GapWindow > FoldSeq(LAMBDA x, y : x + y, 0, recent) * GapFactor
                       /\ Len(acc.current) > MinGroup
                       /\ (i - 1) \in allowed
              silent == gap > RuleGap /\ ((i - 1) \in allowed \/ gap > MaxGap)
          IN CASE i = 1 -> [acc EXCEPT !.current = <<tokens[1]>>]
               [] i > 1 /\ (large \/ silent) ->
                    [out |-> Append(acc.out, acc.current), current |-> <<tokens[i]>>, recent |-> <<>>]
               [] OTHER -> [acc EXCEPT !.current = Append(@, tokens[i]), !.recent = recent]
        end == OverDomain(step, [out |-> <<>>, current |-> <<>>, recent |-> <<>>], tokens)
    IN Append(end.out, end.current)

(* Cut a group before token i wherever Before holds of what is collected   *)
(* and i.                                                                  *)
CutBefore(tokens, Before(_, _)) ==
    LET step(acc, i) ==
          IF acc.current # <<>> /\ Before(acc.current, i)
          THEN [out |-> Append(acc.out, acc.current), current |-> <<tokens[i]>>]
          ELSE [acc EXCEPT !.current = Append(@, tokens[i])]
        end == OverDomain(step, [out |-> <<>>, current |-> <<>>], tokens)
    IN IF end.current = <<>> THEN end.out ELSE Append(end.out, end.current)

AtSentences(tokens) ==
    CutBefore(tokens, LAMBDA current, i : Last(Last(current).words).text = "stop")

ByCommonWords(tokens) ==
    CutBefore(tokens, LAMBDA current, i :
        \/ tokens[i].words[1].text = "join" /\ Len(current) >= PrefixMin
        \/ /\ Last(tokens[i - 1].words).text \in {"comma", "stop"}
           /\ Len(current) >= SuffixMin)

(* The place to cut a long group after: the longest silence in its middle, *)
(* between phrases if there are some; the middle if they are all the same. *)
LongCut(tokens, analyser) ==
    LET n == Len(tokens)
        gap(i) == tokens[i + 1].start - tokens[i].end
        middle == n \div 2 + 1
        inner == {i \in Cuts(tokens) : i > MaxOf(n \div 6, 1) /\ i <= MinOf((5 * n) \div 6, n - 2)}
        allowed == IF Restricted(tokens, analyser) THEN AllowedCuts(tokens, analyser) ELSE {}
        far(i) == IF i >= middle THEN i - middle ELSE middle - i
        candidates == IF allowed \cap inner # {} THEN allowed \cap inner ELSE allowed
        longest(S) == {i \in S : \A j \in S : gap(j) <= gap(i)}
        nearest(S) == {i \in S : \A j \in S : far(i) <= far(j)}
        first(S) == CHOOSE i \in S : \A j \in S : i <= j
    IN CASE allowed # {} -> first(nearest(longest(candidates)))
         [] allowed = {} /\ inner # {} /\ longest(Cuts(tokens)) # Cuts(tokens) -> first(longest(inner))
         [] OTHER -> middle

(* Tokens never start together, so that the sort by start of the pieces    *)
(* leaves them in the order of their tokens.                               *)
SplitLong(tokens, analyser) ==
    LET n == Len(tokens)
        cues[p \in (1..n) \X (1..n)] ==
            LET part == SubSeq(tokens, p[1], p[2])
                cut  == p[1] + LongCut(part, analyser) - 1
            IN IF Len(Words(part)) <= MaxWords \/ Len(part) < MinTokens THEN <<Cue(part)>>
               ELSE cues[<<p[1], cut>>] \o cues[<<cut + 1, p[2]>>]
    IN IF n = 0 THEN <<>> ELSE cues[<<1, n>>]

(* A cue is cut at the end of a sentence inside it, and after a reply that *)
(* the speaker goes on from; its time is divided by the lengths of the     *)
(* parts, and a short utterance takes some of the time of the next part.   *)
InlineParts(ws) ==
    LET parts == AtSentences([i \in DOMAIN ws |-> Piece(<<ws[i]>>, 0, 0)])
        leads(part) == /\ Len(part) > InlineMinRest
                      /\ part[1].text = "yes" /\ part[2].text = "self"
        both(part) == IF leads(part) THEN <<<<part[1]>>, Tail(part)>> ELSE <<part>>
    IN FlattenSeq([k \in DOMAIN parts |-> both(Words(parts[k]))])

TimedParts(c, parts) ==
    LET n == Len(parts)
        duration == MaxOf(1, c.end - c.start)
        upto(k) == Len(FlattenSeq(SubSeq(parts, 1, k)))
        ends[k \in 0..n] ==
            IF k = 0 THEN c.start ELSE IF k = n THEN c.end
            ELSE MaxOf(ends[k - 1] + 1,
                       MinOf(c.end - (n - k), c.start + Round(duration * upto(k), upto(n))))
    IN [k \in 1..n |-> Piece(parts[k], ends[k - 1], ends[k])]

(* As Borrow, but nothing is left to the next cue. *)
TakeAll(cues, i, minimum, spared) ==
    LET shift == MinOf(minimum - Duration(cues[i]), Duration(cues[i + 1]))
    IN IF shift <= 0 THEN cues
       ELSE [cues EXCEPT ![i].end = @ + shift, ![i + 1].start = cues[i].end + shift]

Borrow(cues, i, minimum, spared) ==
    LET shift == MinOf(minimum - Duration(cues[i]), MaxOf(0, Duration(cues[i + 1]) - spared))
    IN IF shift <= 0 THEN cues
       ELSE [cues EXCEPT ![i].end = @ + shift, ![i + 1].start = cues[i].end + shift]

InlineSplit(c) ==
    LET parts == InlineParts(c.words)
        timed == TimedParts(c, parts)
        extend(cues, i) == IF i < Len(cues) /\ IsUtterance(cues[i])
                           THEN Borrow(cues, i, InlineShort, 1) ELSE cues
    IN IF Len(parts) <= 1 THEN <<c>> ELSE OverDomain(extend, timed, timed)

RuleSplit(tokens, analyser) ==
    LET each(S, Op(_)) == FlattenSeq([i \in DOMAIN S |-> Op(S[i])])
        sentences == each(GroupByGaps(tokens, analyser), AtSentences)
        clauses == each(sentences, LAMBDA g : IF Len(Words(g)) > MaxWords THEN ByCommonWords(g) ELSE <<g>>)
    IN each(each(clauses, LAMBDA g : SplitLong(g, analyser)), InlineSplit)
-----------------------------------------------------------------------------
(* splitter_display.py. *)
MinimumOf(c) == IF IsProtected(c) THEN MinProtected ELSE MinOrdinary

ZeroGapRight(prev, c, next) ==
    IF /\ next # <<>> /\ next[1].start = c.end
       /\ Len(c.words \o next[1].words) <= ReadableWords
       /\ \/ IsProtected(c) /\ IsProtected(next[1]) /\ Duration(c) < MinProtected
          \/ ~IsProtected(c) /\ Duration(c) < MinOrdinary /\ ~IsReply(c)
    THEN "right" ELSE "stay"

(* A cue takes the silence after it, then the silence before it, until it  *)
(* is shown for the minimum.                                               *)
Extend(cues, i, minimum) ==
    LET c == cues[i]
        needed == minimum - Duration(c)
        after == IF i < Len(cues) THEN MinOf(needed, Gap(c, cues[i + 1])) ELSE 0
        rest == needed - after
        before == IF i = 1 THEN MinOf(rest, c.start) ELSE MinOf(rest, Gap(cues[i - 1], c))
    IN IF needed <= 0 THEN cues
       ELSE [cues EXCEPT ![i].end = @ + after, ![i].start = @ - before]

Redistribute(cues) ==
    LET step(cs, i) ==
          IF /\ i < Len(cs) /\ Duration(cs[i]) < MinimumOf(cs[i])
             /\ cs[i + 1].start = cs[i].end
          THEN Borrow(cs, i, MinimumOf(cs[i]), MinimumOf(cs[i + 1])) ELSE cs
    IN OverDomain(step, cues, cues)

Capped(c) == IF Duration(c) > MaxDisplay THEN [c EXCEPT !.end = c.start + MaxDisplay] ELSE c

ExtendDisplay(cues) ==
    LET merged == Sweep(cues, ZeroGapRight)
        replies == OverDomain(LAMBDA cs, i : IF IsProtected(cs[i]) THEN Extend(cs, i, MinProtected) ELSE cs, merged, merged)
        others == OverDomain(LAMBDA cs, i : IF IsProtected(cs[i]) THEN cs ELSE Extend(cs, i, MinOrdinary), replies, replies)
        shared == Redistribute(others)
        all == OverDomain(LAMBDA cs, i : Extend(cs, i, MinimumOf(cs[i])), shared, shared)
    IN [i \in DOMAIN all |-> Capped(all[i])]
=============================================================================
