------------------------------ MODULE Normalize ------------------------------
(***************************************************************************)
(* The normalize stage (commands/normalize.py, normalize.py and            *)
(* subtitle_layout.py): what the split, translated or proofread cues       *)
(* become on the screen.  Each pass works on what the one before left.     *)
(*                                                                         *)
(* A text is a sequence of sentences [id, kind, len], len the number of    *)
(* letters in it.  The kinds:                                              *)
(*   "line"   a sentence with its mark     "open"  one without             *)
(*   "reply"  a reply that stands alone    "tail"  open, with a particle   *)
(*   "suffix" a verb ending (desu.)        "head"  begins with a particle  *)
(*   "this"   a demonstrative with a mark  "jan"   an opening cry          *)
(*   "mark"   commas and full stops only, without a letter                 *)
(* A cue also has what the aligner knows of it: ends[k] is when its first  *)
(* k letters have been said, where a token ends there and the tokens hold  *)
(* the text of the cue.  No cue is without a text of its own: ASRData      *)
(* drops those when they are read.                                         *)
(***************************************************************************)
EXTENDS Integers, Sequences, FiniteSets

CONSTANTS Manifests,          \* inputs: the cues of the stage before
          JoinFragments,      \* inputs: NormalizeParams.join_fragments
          ExtendMs, SnapGap, MinBlank, MinDuration,  \* NormalizeParams
          TightPart, ScreenPart,   \* the time a part needs: said, and shown
          JoinGap, JoinSpan, JoinLetters

Kinds    == {"line", "open", "reply", "tail", "suffix", "head", "this", "jan", "mark"}
Sentence == [id : Int, kind : Kinds, len : Nat]
IsCue(c) == /\ c \in [start : Nat, end : Int, source : Seq(Sentence), target : Seq(Sentence), ends : {c.ends}]
            /\ c.source # <<>>
            /\ \A k \in DOMAIN c.ends : c.ends[k] \in Int
            /\ \A p \in DOMAIN c.source : c.source[p].kind = "mark" => c.source[p].len = 0
            /\ \A p \in DOMAIN c.target : c.target[p].kind = "mark" => c.target[p].len = 0

(* _validate_params.  The command has no option for the minimum, 500 ms.   *)
NormalizeAssumption ==
    /\ {ExtendMs, SnapGap, MinBlank, MinDuration, TightPart, ScreenPart} \subseteq Nat
    /\ MinBlank >= SnapGap /\ MinDuration > 0
    /\ JoinFragments \subseteq BOOLEAN
    /\ \A m \in Manifests : m \in Seq({m[i] : i \in DOMAIN m}) /\ \A i \in DOMAIN m : IsCue(m[i])

VARIABLES given, cues, join, pass
normalizeVars == <<given, cues, join, pass>>

LesserOf(a, b)  == IF a < b THEN a ELSE b
GreaterOf(a, b) == IF a > b THEN a ELSE b

(* op(acc, i) for i from 1 to n.                                           *)
Folded(op(_, _), base, n) ==
    LET f[i \in 0..n] == IF i = 0 THEN base ELSE op(f[i - 1], i)
    IN  f[n]
Flat(ss) == Folded(LAMBDA acc, i : acc \o ss[i], <<>>, Len(ss))
Chosen(s, Test(_)) == Flat([i \in DOMAIN s |-> IF Test(s[i]) THEN <<s[i]>> ELSE <<>>])

LettersOf(text) == Folded(LAMBDA n, i : n + text[i].len, 0, Len(text))
ContentOf(text) == Chosen(text, LAMBDA p : p.len > 0)
Lasts(c)        == c.end - c.start
-----------------------------------------------------------------------------
(* reflow_subtitle_segments.                                               *)
(* The parts of a cue and what each is translated by; a verb ending is no  *)
(* part of its own where there are more parts than translations.           *)
Attach(parts, i) == [k \in 1..(Len(parts) - 1) |->
    IF k < i THEN parts[k] ELSE IF k = i THEN parts[i] \o parts[i + 1] ELSE parts[k + 1]]
IsSuffix(part) == Len(part) = 1 /\ part[1].kind = "suffix"
Is(part, kind) == LET c == ContentOf(part) IN Len(c) = 1 /\ c[1].kind = kind

SourceParts(c, wanted) ==
    LET all == [i \in DOMAIN c.source |-> <<c.source[i]>>]
        step(s, k) ==
          IF Len(s.parts) <= wanted \/ s.at >= Len(s.parts) THEN s
          ELSE IF \/ IsSuffix(s.parts[s.at + 1])
                  \/ s.at = 1 /\ Is(s.parts[1], "jan")
          THEN [s EXCEPT !.parts = Attach(s.parts, s.at)] ELSE [s EXCEPT !.at = @ + 1]
    IN  Folded(step, [parts |-> all, at |-> 1], Len(all)).parts

Paired(c) ==
    LET wanted == IF c.target = <<>> THEN Len(c.source) ELSE Len(c.target)
        source == SourceParts(c, wanted)
    IN  IF \/ Len(source) # wanted \/ Len(source) < 2
           \/ \E i \in 1..(Len(source) - 1) : Is(source[i], "this")
        THEN <<>> ELSE source

(* Where the i-th part ends: after its share of the letters, or where the  *)
(* aligner heard it end, but each part keeps a minimum of time.            *)
Ends(c, parts) ==
    LET n == Len(parts) took == Lasts(c) minimum == LesserOf(500, took \div n)
        Upto(i) == Folded(LAMBDA sum, k : sum + GreaterOf(1, LettersOf(parts[k])), 0, i)
        said(i) == IF Upto(i) \in DOMAIN c.ends THEN c.ends[Upto(i)]
                   ELSE c.start + (2 * took * Upto(i) + Upto(n)) \div (2 * Upto(n))
        end[i \in 0..n] == IF i = 0 THEN c.start ELSE IF i = n THEN c.end
                           ELSE GreaterOf(end[i - 1] + minimum, LesserOf(said(i), c.end - minimum * (n - i)))
    IN  end

Sentences(c) ==
    LET parts == Paired(c) n == Len(parts) end == Ends(c, parts)
    IN  IF n = 0 THEN <<c>>
        ELSE IF Lasts(c) < n * TightPart \/ Lasts(c) + ExtendMs < n * ScreenPart THEN <<c>>
        ELSE [i \in 1..n |-> [start |-> end[i - 1], end |-> end[i], source |-> parts[i],
                              target |-> IF c.target = <<>> THEN <<>> ELSE <<c.target[i]>>,
                              ends |-> <<>>]]

Unfinished(text) == text # <<>> /\ text[Len(text)].kind \in {"open", "tail"}
CanJoin(l, r) ==
    /\ ~(Len(l.source) = 1 /\ l.source[1].kind = "reply")
    /\ ~(Len(r.source) = 1 /\ r.source[1].kind = "reply")
    /\ Unfinished(l.source)
    /\ r.start - l.end <= JoinGap /\ r.start >= l.start /\ r.end - l.start <= JoinSpan
    /\ LettersOf(l.source \o r.source) <= JoinLetters
    /\ LettersOf(l.target \o r.target) <= JoinLetters
    /\ \/ l.source[Len(l.source)].kind = "tail"
       \/ r.source # <<>> /\ r.source[1].kind = "head"
       \/ l.target # <<>> /\ l.target[Len(l.target)].kind = "tail"
       \/ Len(r.target) = 1 /\ r.target[1].kind = "tail"

Prefixed(l, r, start, end) ==
    [r EXCEPT !.source = l.source \o r.source, !.target = l.target \o r.target, !.start = start, !.end = end]
JoinedUp(cs) ==
    LET step(acc, i) ==
          LET n == Len(acc) c == cs[i]
          IN  IF n > 0 /\ CanJoin(acc[n], c)
              THEN [acc EXCEPT ![n] = Prefixed(acc[n], c, acc[n].start, GreaterOf(acc[n].end, c.end))]
              ELSE Append(acc, c)
    IN  Folded(step, <<>>, Len(cs))

Reflowed(cs) == LET split == Flat([i \in DOMAIN cs |-> Sentences(cs[i])])
                IN  IF join THEN JoinedUp(split) ELSE split

Contents(texts) == Flat([i \in DOMAIN texts |-> ContentOf(texts[i])])
AllSource(cs)   == Contents([i \in DOMAIN cs |-> cs[i].source])
AllTarget(cs)   == Contents([i \in DOMAIN cs |-> cs[i].target])
SameContent(a, b) == AllSource(a) = AllSource(b) /\ AllTarget(a) = AllTarget(b)
-----------------------------------------------------------------------------
(* The display times.  A cue stays on the screen a little longer; a short  *)
(* blank before the next one is closed, a longer one is made a real blank. *)
Shown(cs, i) ==
    LET end == cs[i].end + ExtendMs
        next == cs[i + 1].start
        blanked == IF i = Len(cs) THEN end
                   ELSE IF next - end < SnapGap THEN next
                   ELSE IF next - end <= MinBlank THEN GreaterOf(cs[i].end, next - MinBlank) ELSE end
    IN  IF blanked <= cs[i].start THEN cs[i].end ELSE blanked
Display(cs) == [i \in DOMAIN cs |-> [cs[i] EXCEPT !.end = Shown(cs, i)]]

Shortened(cs) ==
    [i \in DOMAIN cs |-> IF i < Len(cs) /\ cs[i].end > cs[i + 1].start
                         THEN [cs[i] EXCEPT !.end = cs[i + 1].start] ELSE cs[i]]
AtMinimum(cs) ==
    [i \in DOMAIN cs |->
        IF Lasts(cs[i]) >= MinDuration THEN cs[i]
        ELSE [cs[i] EXCEPT !.end = LET full == cs[i].start + MinDuration
                                   IN IF i = Len(cs) THEN full ELSE LesserOf(full, cs[i + 1].start)]]

(* Mutant: a cue without time is dropped. *)
OnlyTimed(cs) == Chosen(cs, LAMBDA c : Lasts(c) > 0)

(* _merge_non_positive_segments: a cue without time gives its text to the  *)
(* next one, the last one to the one before.                               *)
WithoutEmpty(cs) ==
    LET step(s, i) ==
          LET c == IF s.held = <<>> THEN cs[i]
                   ELSE Prefixed(s.held[1], cs[i], LesserOf(s.held[1].start, cs[i].start), cs[i].end)
              n == Len(s.kept)
          IN  IF Lasts(c) > 0 THEN [kept |-> Append(s.kept, c), held |-> <<>>]
              ELSE IF i < Len(cs) THEN [kept |-> s.kept, held |-> <<c>>]
              ELSE IF n = 0 THEN s
              ELSE [s EXCEPT !.kept[n] = Prefixed(@, c, @.start, GreaterOf(@.end, c.end))]
    IN  Folded(step, [kept |-> <<>>, held |-> <<>>], Len(cs)).kept

(* A cue still too short starts earlier, then takes time from the next,    *)
(* then from the one before.                                               *)
StartEarlier(cs) ==
    [i \in DOMAIN cs |->
        LET missing == MinDuration - Lasts(cs[i])
        IN  IF missing <= 0 THEN cs[i]
            ELSE [cs[i] EXCEPT !.start = GreaterOf(IF i = 1 THEN 0 ELSE cs[i - 1].end, @ - missing)]]

Spare(c) == GreaterOf(0, Lasts(c) - MinDuration)
(* The time cue i lacks and cue j can spare. *)
Lent(cs, i, j) == GreaterOf(0, LesserOf(MinDuration - Lasts(cs[i]), Spare(cs[j])))
Touch(cs, i) == cs[i].end = cs[i + 1].start
MoveCut(cs, i, by) == [cs EXCEPT ![i].end = @ + by, ![i + 1].start = @ + by]

FromNext(cs) ==
    Folded(LAMBDA s, i : IF i < Len(s) /\ Touch(s, i) THEN MoveCut(s, i, Lent(s, i, i + 1)) ELSE s,
           cs, Len(cs))
FromPrevious(cs) ==
    Folded(LAMBDA s, i : IF i > 1 /\ Touch(s, i - 1) THEN MoveCut(s, i - 1, -Lent(s, i, i - 1)) ELSE s,
           cs, Len(cs))

(* The commas and full stops leave the screen.  A cue whose text is only   *)
(* that is dropped, whatever its translation says (ASRData), and the rest  *)
(* is sorted.                                                              *)
Stripped(text) == Chosen(text, LAMBDA p : p.kind # "mark")
Kept(cs) == Chosen([i \in DOMAIN cs |-> [cs[i] EXCEPT !.source = Stripped(@), !.target = Stripped(@)]],
                   LAMBDA c : c.source # <<>>)
InTimeOrder(cs) ==
    LET rank == [i \in DOMAIN cs |-> 1 + Cardinality({j \in DOMAIN cs :
                    cs[j].start < cs[i].start \/ (cs[j].start = cs[i].start /\ j < i)})]
    IN  [k \in DOMAIN cs |-> cs[CHOOSE i \in DOMAIN cs : rank[i] = k]]
-----------------------------------------------------------------------------
NormalizeInit == /\ given \in Manifests /\ join \in JoinFragments
                 /\ cues = given /\ pass = "reflow"

(* A pass that runs when its turn comes and leaves the cues at the next. *)
Becomes(from, to, new) == /\ pass = from /\ pass' = to /\ cues' = new
                          /\ UNCHANGED <<given, join>>

Reflow ==
    /\ pass = "reflow"
    /\ LET new == Reflowed(cues)
       IN  Becomes("reflow", IF SameContent(new, given) THEN "display" ELSE "raised", new)

Extend == Becomes("display", "fit", Display(cues))
Fit    == Becomes("fit", "merge", AtMinimum(Shortened(cues)))
Merge  == Becomes("merge", "widen", WithoutEmpty(cues))
Widen  == Becomes("widen", "share", StartEarlier(cues))
Share  == Becomes("share", "strip", FromPrevious(FromNext(cues)))
Strip  == Becomes("strip", "written", InTimeOrder(Kept(cues)))

NormalizeNext == Reflow \/ Extend \/ Fit \/ Merge \/ Widen \/ Share \/ Strip

NormalizeSpec == NormalizeInit /\ [][NormalizeNext]_normalizeVars
-----------------------------------------------------------------------------
AllSaid == \A i \in DOMAIN given : \A p \in DOMAIN given[i].source : given[i].source[p].kind # "mark"

(* The sentences begin in their order.  The second one of a cue that the   *)
(* next cue overlaps may begin after that one, which then takes its text   *)
(* and is sorted before what was said first.                               *)
InStartOrder(cs) == \A i \in DOMAIN cs : i > 1 => cs[i - 1].start <= cs[i].start

(* The passes move times and cues, never words: what was said is shown,    *)
(* and its translation with it, in the order of the input where sentences  *)
(* begin in their order.  Only a part whose own text is all punctuation    *)
(* may take its translation with it.                                       *)
Words(text) == {text[p] : p \in DOMAIN text}
NormalizedKeepsText ==
    /\ pass # "raised"
    /\ pass \in {"display", "fit", "merge", "widen", "share", "strip"} => SameContent(cues, given)
    /\ pass = "written" =>
         /\ Words(AllSource(cues)) = Words(AllSource(given))
         /\ AllSaid => Words(AllTarget(cues)) = Words(AllTarget(given))
         /\ InStartOrder(Reflowed(given)) => /\ AllSource(cues) = AllSource(given)
                                             /\ AllSaid => AllTarget(cues) = AllTarget(given)

(* What is written can be read, where sentences begin in their order:      *)
(* every cue has time, none overlaps another, and a cue is shorter than    *)
(* the minimum only where neither the silence around it nor its neighbours *)
(* had time to give.                                                       *)
HasNoRoom(i) ==
    /\ IF i = 1 THEN cues[i].start = 0
       ELSE cues[i - 1].end = cues[i].start /\ Spare(cues[i - 1]) = 0
    /\ i < Len(cues)
    /\ cues[i + 1].start = cues[i].end /\ Spare(cues[i + 1]) = 0
NormalizedReadable ==
    pass = "written" /\ InStartOrder(Reflowed(given)) =>
        \A i \in DOMAIN cues :
            /\ Lasts(cues[i]) > 0
            /\ i < Len(cues) => cues[i].end <= cues[i + 1].start
            /\ (AllSaid /\ Lasts(cues[i]) < MinDuration) => HasNoRoom(i)
=============================================================================
