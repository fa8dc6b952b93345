------------------------------- MODULE Realign -------------------------------
(***************************************************************************)
(* proofread-realign, cue by cue (proofread_realign.py and its strategy):  *)
(* a cue whose text was changed is given the times an aligner finds for it *)
(* in a clip around it, unless they fall upon its neighbours; MFA, a       *)
(* second aligner, comes first or when the other fails; else the cue keeps *)
(* the times it has.  The stage may run again to retry kept times.         *)
(*                                                                         *)
(* Times are milliseconds.  A text is a value; two texts agree when their  *)
(* content score reaches the minimum.  The aligners are external: what     *)
(* they answer is chosen from a constant.  (Flags, checkpoints and the     *)
(* gate of the stage are Proofread's.)                                     *)
(***************************************************************************)
EXTENDS Integers, Sequences, FiniteSets

CONSTANTS Manifests,      \* inputs: sequences of cues [start, end, text, pending, mixed]
          Kana,           \* texts with kana; another is replaced by a near cue's text
          Plans,          \* inputs: [primary, fallback, second] of the runs of the stage
          Answers(_, _),  \* inputs: the times an aligner may give a cue in a clip
          Recording,      \* the length of the recording
          QwenPad, MfaPad, MaxOverlap, MinDuration, DisplayPad, MaxDuration, Near

RealignAssumption ==
    /\ {QwenPad, MfaPad, MinDuration, DisplayPad, Near, Recording, MaxDuration} \subseteq Nat
    /\ MaxOverlap \in Nat \ {0}
    /\ \A m \in Manifests : DOMAIN m \subseteq Nat /\ \A i \in DOMAIN m : {m[i].start, m[i].end} \subseteq Nat

VARIABLES before, cues, plan, round, todo,
          cache,          \* batch-cache.json: [start, end, lab] -> what MFA answered
          left,           \* candidate_001/out/clip.json: the last answer MFA left there
          mfa,            \* whether MFA is installed
          blind           \* cues placed while a later one began at 0, which is no neighbour
realignVars == <<before, cues, plan, round, todo, cache, left, mfa, blind>>

CueIds == DOMAIN cues
LeastOf(S)    == CHOOSE x \in S : \A y \in S : x <= y
GreatestOf(S) == CHOOSE x \in S : \A y \in S : x >= y
AtLeast(a, b) == IF a > b THEN a ELSE b
AtMost(a, b)  == IF a < b THEN a ELSE b
StartOf(c) == AtLeast(0, c.start)
EndOf(c)   == AtLeast(StartOf(c) + 1, c.end)
-----------------------------------------------------------------------------
(* timing_candidate_guard: a range may overlap the cues before it and the  *)
(* cues after it a little; cues without a duration do not count.           *)
Refusal(reason) == [ok |-> FALSE, reason |-> reason, previous |-> -1, next |-> -1]
Ends(c, i)   == {c[j].end : j \in {j \in DOMAIN c : j < i /\ c[j].end > c[j].start}}
Starts(c, i) == {c[j].start : j \in {j \in DOMAIN c : j > i /\ c[j].end > c[j].start}}
TimingGuard(c, i, s, e, clip) ==
    LET previous == IF Ends(c, i) = {} THEN -1 ELSE GreatestOf(Ends(c, i))
        next     == IF Starts(c, i) = {} THEN -1 ELSE LeastOf(Starts(c, i))
        severe   == \/ previous > 0 /\ previous - s > MaxOverlap
                    \/ next > 0 /\ e - next > MaxOverlap
    IN  IF e <= s THEN Refusal("non-positive-duration")
        ELSE IF s < clip[1] \/ e > clip[2] THEN Refusal("outside-realign-clip")
        ELSE [ok |-> ~severe, reason |-> IF severe THEN "severe-neighbor-overlap" ELSE "timing-ok",
              previous |-> previous, next |-> next]

(* expand_display_range_to_min_duration: after it first, then before it.   *)
None == <<>>
Expanded(s, e, lower, upper) ==
    LET deficit == MinDuration - (e - s)
        after == AtMost(deficit, AtLeast(0, upper - e))
        earlier == AtMost(deficit - after, AtLeast(0, s - lower))
    IN  IF deficit <= 0 THEN <<s, e>>
        ELSE IF deficit > DisplayPad \/ after + earlier < deficit THEN None
        ELSE <<s - earlier, e + after>>

(* clamp_timing_candidate_to_neighbors *)
Clamped(c, i, s, e, clip, guard) ==
    LET from == IF guard.previous = -1 THEN s ELSE AtLeast(s, guard.previous)
        to   == IF guard.next = -1 THEN e ELSE AtMost(e, guard.next)
        range == Expanded(from, to, IF guard.previous = -1 THEN clip[1] ELSE guard.previous,
                          IF guard.next = -1 THEN clip[2] ELSE guard.next)
    IN  IF guard.reason = "severe-neighbor-overlap" /\ range # None
           /\ TimingGuard(c, i, range[1], range[2], clip).ok
        THEN range ELSE None

(* clamp_display_range_to_original_window: for an overlong range. *)
Shown(s, e, c) ==
    IF /\ e - s > MaxDuration /\ EndOf(c) - StartOf(c) <= MaxDuration
       /\ StartOf(c) >= s /\ EndOf(c) <= e
    THEN <<StartOf(c), EndOf(c)>> ELSE <<s, e>>
-----------------------------------------------------------------------------
(* The manifest a guard reads: with the cues placed so far. *)
AsLoaded == before
Around   == cues

(* What becomes of a cue. *)
Placed(c, range, how) == [c EXCEPT !.start = range[1], !.end = range[2],
                                   !.pending = FALSE, !.status = "completed", !.method = how]
Kept(c, how) == Placed(c, <<StartOf(c), EndOf(c)>>, how)
GivenUp(c)   == [c EXCEPT !.status = "failed"]
Otherwise(c) == IF plan.fallback = "original-timing" THEN Kept(c, "original-timing") ELSE GivenUp(c)

(* The clip an aligner hears; the one for MFA is not cut at the end of the *)
(* recording.                                                              *)
QwenClip(c) == <<AtMost(AtLeast(0, StartOf(c) - QwenPad), Recording),
                 AtMost(EndOf(c) + QwenPad, Recording)>>
MfaClip(c)  == <<AtLeast(0, StartOf(c) - MfaPad), EndOf(c) + MfaPad>>

(* choose_mfa_lab_text: a text without kana is replaced by the text of the *)
(* nearest cue that has some, where one is near.  (`before` stands for the *)
(* three manifests the code looks through, which have the same times; how  *)
(* a text is normalised is left out.)                                      *)
Distance(c, d) == AtLeast(0, AtLeast(d.start - EndOf(c), StartOf(c) - d.end))
LabText(c) ==
    LET near == {i \in CueIds : before[i].text \in Kana /\ Distance(c, before[i]) <= Near}
        best == {i \in near : \A j \in near : Distance(c, before[i]) <= Distance(c, before[j])}
    IN  IF c.text \in Kana \/ best = {} THEN c.text ELSE before[LeastOf(best)].text

Key(c) == [clip |-> MfaClip(c), lab |-> LabText(c)]
NoAnswer == [known |-> FALSE, start |-> 0, end |-> 0, says |-> ""]

(* Tokens are rounded to milliseconds.                                     *)
Heard(c, clip) == {r \in Answers(c, clip) : r[1] \in Int /\ r[2] \in Int}

(* The words MFA writes for a clip, timed from its start, or none that is  *)
(* known; for a row of the cache, that may also stand for no output.       *)
MfaAnswers(c) ==
    {NoAnswer} \cup {[known |-> TRUE, start |-> r[1] - MfaClip(c)[1], end |-> r[2] - MfaClip(c)[1],
                      says |-> LabText(c)] : r \in Heard(c, MfaClip(c))}

(* _try_mfa_local_realign with what MFA answers. *)
MfaPlaced(c, i, answer) ==
    LET s == MfaClip(c)[1] + answer.start e == MfaClip(c)[1] + answer.end
        ok == /\ answer.known /\ answer.says = c.text
              /\ TimingGuard(Around, i, s, e, MfaClip(c)).ok
    IN  IF ok THEN Placed(c, <<s, e>>, "mfa-local") ELSE Otherwise(c)
-----------------------------------------------------------------------------
Cue(c) == [start |-> c.start, end |-> c.end, text |-> c.text, pending |-> c.pending,
           mixed |-> c.mixed, status |-> "", method |-> ""]
NoPlan == [primary |-> "none", fallback |-> "none", second |-> FALSE]
RealignInit == /\ before \in Manifests /\ cues = [i \in DOMAIN before |-> Cue(before[i])]
               /\ plan = NoPlan /\ round = 0 /\ todo = {}
               /\ cache = [k \in {} |-> NoAnswer] /\ left = NoAnswer /\ mfa \in BOOLEAN /\ blind = {}

(* The stage begins: what is pending, and with --retry-method what only    *)
(* kept its times; long lines of two languages keep theirs.  Where MFA     *)
(* comes first, all clips not in the cache are aligned in one run of it,   *)
(* which may fail.                                                         *)
Pending(c, retry) == \/ c.pending /\ c.status # "completed"
                     \/ retry /\ c.status = "completed" /\ c.method = "original-timing"
KeptMixed(i, p) == p.primary # "original-timing" /\ cues[i].mixed
Prefetched(S, p) ==
    LET new == {i \in S : LabText(cues[i]) # "" /\ Key(cues[i]) \notin DOMAIN cache}
        keys == {Key(cues[i]) : i \in new}
        Of(k) == CHOOSE i \in new : Key(cues[i]) = k
    IN  {cache} \cup
        (IF ~mfa \/ p.primary # "mfa-local" \/ Cardinality(S) < 2 THEN {}
         ELSE {[k \in DOMAIN cache \cup keys |-> IF k \in keys THEN found[k] ELSE cache[k]] :
                  found \in {f \in [keys -> UNION {MfaAnswers(cues[i]) : i \in new}] :
                                \A k \in keys : f[k] \in MfaAnswers(cues[Of(k)])}})
BeginRealign(retry, p) ==
    /\ todo = {} /\ round < 2 /\ round' = round + 1 /\ plan' = p
    /\ retry => round = 1
    /\ LET pending == {i \in CueIds : Pending(cues[i], retry)}
       IN  /\ todo' = {i \in pending : ~KeptMixed(i, p)}
           /\ cues' = [i \in CueIds |-> IF i \in pending /\ KeptMixed(i, p)
                                     THEN Kept(cues[i], "mixed-language-original-timing") ELSE cues[i]]
           /\ cache' \in Prefetched(todo', p)
    /\ UNCHANGED <<before, left, mfa, blind>>

Current == LeastOf(todo)
Done(i, c) ==
    /\ cues' = [cues EXCEPT ![i] = c] /\ todo' = todo \ {i}
    /\ blind' = IF c.start = cues[i].start /\ c.end = cues[i].end THEN blind
                ELSE IF 0 \in Starts(cues, i) THEN blind \cup {i} ELSE blind \ {i}

KeepTiming ==
    /\ todo # {} /\ plan.primary = "original-timing"
    /\ Done(Current, Kept(cues[Current], "original-timing"))
    /\ UNCHANGED <<before, plan, round, cache, left, mfa>>

(* One cue by MFA: by the cache, if it has an output; or by a run of its   *)
(* own, whose output lies where the one before left it: an MFA that exits  *)
(* without output leaves the answer for another clip to be read.  A run    *)
(* may fail, whatever it wrote.  (The text "" is of marks only.)           *)
ByMfa(i) ==
    LET c == cues[i] row == Key(c)
    IN  IF ~mfa \/ LabText(c) = "" THEN Done(i, Otherwise(c)) /\ UNCHANGED left
        ELSE \/ /\ row \in DOMAIN cache
                /\ Done(i, MfaPlaced(c, i, cache[row])) /\ UNCHANGED left
             \/ /\ ~(row \in DOMAIN cache /\ cache[row].known)
                /\ \E answer \in MfaAnswers(c) \cup {left} :
                      /\ Done(i, MfaPlaced(c, i, answer)) \/ Done(i, Otherwise(c))
                      /\ left' = answer
ByMfaFirst == /\ todo # {} /\ plan.primary = "mfa-local" /\ ByMfa(Current)
              /\ UNCHANGED <<before, plan, round, cache, mfa>>

(* _realign_one: by the aligner; MFA only when it finds nothing. *)
Found(c, i, s, e) ==
    LET clip == QwenClip(c) guard == TimingGuard(Around, i, s, e, clip)
        range == IF guard.ok THEN <<s, e>> ELSE Clamped(Around, i, s, e, clip, guard)
    IN  IF range = None THEN Otherwise(c)
        ELSE LET shown == Shown(range[1], range[2], c)
             IN  Placed(c, shown, IF shown = <<s, e>> THEN "" ELSE "qwen-clamped")
ByAligner ==
    /\ todo # {} /\ plan.primary = "qwen-first"
    /\ LET i == Current c == cues[i]
       IN  \/ \E r \in Heard(c, QwenClip(c)) :
                 Done(i, Found(c, i, r[1], AtLeast(r[1] + 1, r[2]))) /\ UNCHANGED left
           \/ Done(i, Otherwise(c)) /\ UNCHANGED left       \* other words were recognised
           \/ IF plan.second THEN ByMfa(i) ELSE Done(i, Otherwise(c)) /\ UNCHANGED left
    /\ UNCHANGED <<before, plan, round, cache, mfa>>

RealignNext == \/ \E retry \in BOOLEAN, p \in Plans : BeginRealign(retry, p)
               \/ KeepTiming \/ ByMfaFirst \/ ByAligner
-----------------------------------------------------------------------------
RealignSpec == RealignInit /\ [][RealignNext]_realignVars

(* However the cues of an episode are realigned, in what order and how     *)
(* often, two of them never overlap by more than the tolerance unless they *)
(* did before, and none is left without a duration.  (A later cue that     *)
(* begins at 0 is taken for none, README, divergences: a cue placed while  *)
(* there is one may fall upon all that follow.)                            *)
Overlap(c, i, j) == AtMost(c[i].end, c[j].end) - AtLeast(c[i].start, c[j].start)
RealignedApart ==
    /\ \A i \in CueIds : cues[i].status = "completed" => cues[i].start < cues[i].end
    /\ \A i, j \in CueIds : i < j /\ i \notin blind =>
          \/ Overlap(cues, i, j) <= MaxOverlap
          \/ Overlap(cues, i, j) <= Overlap(before, i, j)
=============================================================================
