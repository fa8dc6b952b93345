----------------------------- MODULE SplitStage -----------------------------
(***************************************************************************)
(* The split stage: run_split_stage (qwen_asr/optimizer_bridge_stages.py)  *)
(* with its guards (optimizer_bridge_guards.py), the cuts between speakers *)
(* (speaker/assign.py) and the merge that an LLM proposes                  *)
(* (semantic_boundary_merge.py).  One pass after the other takes the cues  *)
(* apart, joins them and moves their times; none may change their content. *)
(***************************************************************************)
EXTENDS CueRules, FiniteSets

CONSTANTS Inputs,          \* sets of what the stage may find, see Init
          MergeBatch, MergeWords, MergeDuration, MergeGap,
                           \* batch_size, max_chars and the limits of _merge_allowed
          MinReply, MaxReply, ReplyAlone, ReplyDistance
                           \* SPLIT_SHORT_RESPONSE_MIN_DURATION_MS, _MAX_DURATION_MS,
                           \* _ISOLATION_GAP_MS and _MAX_DISTANCE_MS

VARIABLES input,     \* the manifests, the analyser and the options
          tokens,    \* source.segments
          cues,      \* processed, then result.segments
          pc,        \* the pass that comes next
          files      \* which of the stage's two files hold these cues

vars == <<input, tokens, cues, pc, files>>

(* input.chunks are the chunks of the manifests (AlignedTokens),           *)
(* input.analyser the ends of phrases (CueRules), input.voice the voice of *)
(* each word if speakers are enrolled, or <<>>, input.llm whether an LLM   *)
(* is configured.                                                          *)
Init == /\ \E found \in Inputs : input \in found
        /\ tokens = <<>> /\ cues = <<>>
        /\ pc = "load"
        /\ files = {}

Pass(from, to, result) ==
    /\ pc = from /\ pc' = to
    /\ cues' = result
    /\ UNCHANGED <<input, tokens, files>>

Raise(from) == /\ pc = from /\ pc' = "raised"
               /\ UNCHANGED <<input, tokens, cues, files>>
-----------------------------------------------------------------------------
(* aligned_manifest_to_asr_data. *)
IsFallbackReply(ws) == Len(ws) = 1 /\ ws[1].text \in {"yes", "mm"}

Load ==
    LET all == Tokens(input.chunks, IsFallbackReply) IN
    /\ pc = "load"
    /\ IF (\E i \in DOMAIN input.chunks : Unusable(input.chunks[i])) \/ all = <<>>
       THEN Raise("load")
       ELSE /\ tokens' = all /\ pc' = "rules"
            /\ UNCHANGED <<input, cues, files>>

Rules == Pass("rules", "fillers", RuleSplit(tokens, input.analyser))

(* postprocess_split_segments. *)
Fillers      == Pass("fillers", "readability", SmoothFillers(cues))
Readability1 == Pass("readability", "tails", SmoothReadability(cues))
Tails        == Pass("tails", "readability2", MergeTails(cues))
Readability2 == Pass("readability2", "display", SmoothReadability(cues))
Display      == Pass("display", "speakers", ExtendDisplay(cues))
-----------------------------------------------------------------------------
(* A token belongs to the cue that holds most of its words. *)
Homes(cs) ==
    LET held(t, j) == Cardinality({i \in DOMAIN cs[j].words : \E k \in DOMAIN tokens[t].words :
                                       cs[j].words[i].id = tokens[t].words[k].id})
    IN [t \in DOMAIN tokens |->
          CHOOSE j \in DOMAIN cs : \A k \in DOMAIN cs :
              held(t, k) < held(t, j) \/ (held(t, k) = held(t, j) /\ j <= k)]
VoiceOf(t) == input.voice[tokens[t].words[1].id]
Voices(cs, j) == {VoiceOf(t) : t \in {t \in DOMAIN tokens : Homes(cs)[t] = j}}

(* A cue is cut before the first word of a token with another voice than   *)
(* the token before it; the pieces end and begin with the tokens there.    *)
CutBySpeaker(cs, j) ==
    LET c == cs[j]
        homes == Homes(cs)
        first(t) == CHOOSE i \in DOMAIN c.words :
                       /\ \E k \in DOMAIN tokens[t].words : tokens[t].words[k].id = c.words[i].id
                       /\ \A h \in 1..(i - 1) : \A k \in DOMAIN tokens[t].words :
                              tokens[t].words[k].id # c.words[h].id
        cut(out, t) ==
          LET last == Last(out)
              pos == first(t) - (Len(c.words) - Len(last.words))
              end == MaxOf(MinOf(tokens[t - 1].end, tokens[t].start), last.start + 1)
              next == MaxOf(tokens[t].start, end)
          IN IF /\ homes[t] = j /\ t > 1 /\ homes[t - 1] = j
                /\ VoiceOf(t) # VoiceOf(t - 1) /\ pos > 1
             THEN Front(out) \o
                  <<Piece(SubSeq(last.words, 1, pos - 1), last.start, end),
                    Piece(SubSeq(last.words, pos, Len(last.words)), next, MaxOf(c.end, next + 1))>>
             ELSE out
    IN OverDomain(cut, <<c>>, tokens)

(* Without a track of the voices the stage goes on without speakers. *)
Speakers ==
    \/ /\ input.voice # <<>>
       /\ Pass("speakers", "merge", FlattenSeq([j \in DOMAIN cues |-> CutBySpeaker(cues, j)]))
    \/ Pass("speakers", "merge", cues)
-----------------------------------------------------------------------------
(* _merge_allowed: what may be one cue of cs[a] to cs[b]. *)
MergeAllowed(cs, a, b) ==
    /\ Len(Words(SubSeq(cs, a, b))) <= MergeWords
    /\ cs[b].end - cs[a].start <= MergeDuration
    /\ \A i \in a..(b - 1) : /\ cs[i + 1].start - cs[i].end <= MergeGap
                             /\ Last(cs[i].words).text # "stop"
    /\ \A i \in a..b : ~IsReply(cs[i])
    /\ input.voice = <<>> \/
       Cardinality({v \in {"A", "B"} : \E i \in a..b : Voices(cs, i) = {v}}) <= 1

Merged(cs, a, b) == Piece(Words(SubSeq(cs, a, b)), cs[a].start, cs[b].end)

(* A group that may be one cue becomes one, else its longest runs do.      *)
MergeGroup(cs, a, b) ==
    LET step(runs, i) == IF MergeAllowed(cs, Last(runs)[1], i)
                         THEN Append(Front(runs), <<Last(runs)[1], i>>)
                         ELSE Append(runs, <<i, i>>)
        runs == IF MergeAllowed(cs, a, b) THEN <<<<a, b>>>>
                ELSE FoldLeft(step, <<<<a, a>>>>, [i \in 1..(b - a) |-> a + i])
    IN [k \in DOMAIN runs |-> Merged(cs, runs[k][1], runs[k][2])]

MergeBatches(cs, ends) ==
    LET n == Len(cs)
        closed == ends \cup {n} \cup {i \in 1..n : i % MergeBatch = 0}
        groupEnd(a) == CHOOSE b \in a..n : b \in closed /\ \A i \in a..(b - 1) : i \notin closed
        isFirst(a) == a = 1 \/ (a - 1) \in closed
    IN FlattenSeq([a \in 1..n |-> IF isFirst(a) THEN MergeGroup(cs, a, groupEnd(a)) ELSE <<>>])

(* The answers to a batch: where its groups end.  A batch whose requests   *)
(* fail keeps its cues; a refused key fails the stage.                     *)
MergeByLLM ==
    /\ pc = "merge" /\ input.llm
    /\ \/ \E ends \in SUBSET DOMAIN cues : Pass("merge", "extract", MergeBatches(cues, ends))
       \/ Raise("merge")
NoMerge == ~input.llm /\ Pass("merge", "extract", cues)
-----------------------------------------------------------------------------
(* protected_short_response_segments.  (A "yes" written with a full stop  *)
(* need not be alone to its right; no word here has such a mark.)          *)
IsAlone(cs, i) ==
    LET left  == i = 1 \/ cs[i].start - cs[i - 1].end >= ReplyAlone
        right == i = Len(cs) \/ cs[i + 1].start - cs[i].end >= ReplyAlone
    IN Only(cs[i], {"mm"}) \/ (left /\ right)

Replies(cs, standalone) ==
    LET ids == {i \in DOMAIN cs : /\ Only(cs[i], {"yes", "mm"})
                                  /\ cs[i].end > cs[i].start
                                  /\ cs[i].end - cs[i].start \in MinReply..MaxReply
                                  /\ ~standalone \/ IsAlone(cs, i)}
    IN SelectSeq(cs, LAMBDA c : \E i \in ids : cs[i] = c)

(* split_text_part_by_protected_item: the reply's text is looked for from  *)
(* the end of a part that it ends, and gets its own time back.             *)
SplitByReply(part, reply) ==
    LET fromEnd == reply.end >= part.end /\ reply.start > part.start
        found == {j \in DOMAIN part.words : part.words[j].text = reply.words[1].text}
        j == CHOOSE j \in found : \A k \in found : IF fromEnd THEN k <= j ELSE j <= k
        before == SubSeq(part.words, 1, j - 1)
        after  == SubSeq(part.words, j + 1, Len(part.words))
        opt(ws, s, e) == IF ws = <<>> THEN <<>> ELSE <<Piece(ws, s, e)>>
    IN IF \/ reply.start < part.start \/ reply.end > part.end \/ found = {}
          \/ before # <<>> /\ reply.start <= part.start
          \/ after # <<>> /\ reply.end >= part.end
       THEN <<part>>
       ELSE opt(before, part.start, reply.start)
            \o <<Piece(<<part.words[j]>>, reply.start, reply.end)>>
            \o opt(after, reply.end, part.end)

ExtractReplies(cs) ==
    LET replies == Replies(tokens, TRUE)
        inside(c) == SelectSeq(replies, LAMBDA r : r.start >= c.start /\ r.end <= c.end)
        split(parts, r) == FlattenSeq([k \in DOMAIN parts |-> SplitByReply(parts[k], r)])
        whole(c) == [c EXCEPT !.end = MaxOf(c.end, c.start + 1)]
        parts(c) == FoldLeft(split, <<c>>, inside(c))
    IN FlattenSeq([i \in DOMAIN cs |->
         IF cs[i].end <= cs[i].start \/ parts(cs[i]) = <<cs[i]>> THEN <<cs[i]>>
         ELSE [k \in DOMAIN parts(cs[i]) |-> whole(parts(cs[i])[k])]])

Extract  == Pass("extract", "display2", ExtractReplies(cues))
Display2 == Pass("display2", "extract2", ExtendDisplay(cues))
Extract2 == Pass("extract2", "check", ExtractReplies(cues))
-----------------------------------------------------------------------------
(* validate_split_content_preserved. *)
ContentPreserved == Words(cues) = Words(tokens)

(* validate_split_short_responses_preserved: every reply of the source has *)
(* a cue of its own that is near enough; the nearest is taken first.       *)
Distance(r, c) == IF r.end <= c.start THEN c.start - r.end
                  ELSE IF c.end <= r.start THEN r.start - c.end ELSE 0
RepliesPreserved ==
    LET source == Replies(tokens, TRUE)
        result == Replies(cues, FALSE)
        near(used, r) == {i \in DOMAIN result \ used : /\ result[i].words[1].text = r.words[1].text
                                                       /\ Distance(r, result[i]) <= ReplyDistance}
        best(S, r) == CHOOSE i \in S : \A k \in S : \/ Distance(r, result[i]) < Distance(r, result[k])
                                                    \/ /\ Distance(r, result[i]) = Distance(r, result[k])
                                                       /\ i <= k
        step(acc, r) ==
            LET S == near(acc.used, r)
            IN IF S = {} THEN [acc EXCEPT !.ok = FALSE]
               ELSE [acc EXCEPT !.used = @ \cup {best(S, r)}]
    IN FoldLeft(step, [used |-> {}, ok |-> TRUE], source).ok

Check ==
    \/ ~(ContentPreserved /\ RepliesPreserved) /\ Raise("check")
    \/ ContentPreserved /\ RepliesPreserved /\ Pass("check", "manifest", cues)

WriteManifest == /\ pc = "manifest" /\ pc' = "srt"
                 /\ files' = {"manifest"}
                 /\ UNCHANGED <<input, tokens, cues>>
WriteSrt == /\ pc = "srt" /\ pc' = "written"
            /\ files' = files \cup {"srt"}
            /\ UNCHANGED <<input, tokens, cues>>

Done == pc \in {"written", "raised"} /\ UNCHANGED vars

Next == \/ Load \/ Rules \/ Fillers \/ Readability1 \/ Tails \/ Readability2 \/ Display
        \/ Speakers \/ MergeByLLM \/ NoMerge \/ Extract \/ Display2 \/ Extract2
        \/ Check \/ WriteManifest \/ WriteSrt \/ Done

Spec == Init /\ [][Next]_vars
-----------------------------------------------------------------------------
HasCues == pc \notin {"load", "rules", "raised"}

(* No pass loses a word, doubles it or moves it, and none swallows a reply *)
(* that stood alone: the guards at the end of the stage, which would fail  *)
(* it, have nothing to find (validate_split_content_preserved,             *)
(* validate_split_short_responses_preserved).  Two things are lost to the  *)
(* second one: a reply at the end of a cue that is cut for being shown too *)
(* long, and one next to another of the same text.                         *)
CutShort == \E i \in DOMAIN cues : Duration(cues[i]) = MaxDisplay
Repeated == \E t, u \in DOMAIN tokens : /\ t < u /\ Only(tokens[t], {"yes", "mm"})
                                       /\ Texts(tokens[t].words) = Texts(tokens[u].words)
GuardsHold == /\ HasCues => ContentPreserved
              /\ pc = "check" => RepliesPreserved \/ CutShort \/ Repeated

(* The tokens of any aligned manifest follow each other, each with a       *)
(* duration, which every pass takes for granted; and after every pass so   *)
(* do the cues.  (A token that is cut at the end of a sentence shares its  *)
(* time by length; its own times, which a cut between speakers takes, may  *)
(* then lie outside of the cue.)                                           *)
InOrder(pieces) == /\ \A i \in DOMAIN pieces : pieces[i].start < pieces[i].end
                   /\ \A i \in 1..(Len(pieces) - 1) : pieces[i].end <= pieces[i + 1].start
Orderly == input.voice = <<>> \/ \A t \in DOMAIN tokens : Len(InlineParts(tokens[t].words)) = 1
TimesInOrder == InOrder(tokens) /\ (HasCues /\ Orderly => InOrder(cues))

(* What is written is shown long enough, or there is no silence beside it  *)
(* that it could have been given; but what the cut of a cue shown for too  *)
(* long has left, and beside a reply that the last pass took out of it.    *)
BesideReply(i) == \/ i > 1 /\ IsProtected(cues[i - 1])
                  \/ i < Len(cues) /\ IsProtected(cues[i + 1])
SilenceIsUsed ==
    pc = "written" /\ Orderly =>
      \A i \in DOMAIN cues : Duration(cues[i]) < MinimumOf(cues[i]) /\ ~BesideReply(i) =>
          /\ i < Len(cues) => cues[i].end = cues[i + 1].start
          /\ IF i = 1 THEN cues[i].start = 0
             ELSE cues[i - 1].end = cues[i].start \/ Duration(cues[i - 1]) = MaxDisplay

(* No pass takes time from a cue that another gave it, or leaves any       *)
(* unused: the cues follow each other, and what is short could not be      *)
(* longer.                                                                 *)
TimesAreSound == TimesInOrder /\ SilenceIsUsed

(* The split stage neither loses words nor spoils times.                   *)
SplitIsSound == GuardsHold /\ TimesAreSound
=============================================================================
