--------------------------- MODULE SuggestionGuards ---------------------------
(***************************************************************************)
(* What MiMo's answer about one subtitle may change: the guards of         *)
(* mimo_guards.py in the order in which evaluate_stage2_suggestion         *)
(* (mimo_application.py) asks them, and the guard of the final gate        *)
(* (final_quality_postproofread.py) that judges the same change later from *)
(* the evidence that was kept.                                             *)
(*                                                                         *)
(* A text is known by what the guards tell of it: how the suggested        *)
(* original differs from the present one, how well either matches the ASS  *)
(* reference (hundredths), how the suggested translation differs.          *)
(***************************************************************************)
EXTENDS Integers

CONSTANT ApplyThreshold     \* --stage2-apply-threshold, in hundredths

ASSUME ThresholdAssumption == ApplyThreshold \in 0..100

(* "marks": only punctuation differs; "latin", "unlatin": Latin words are  *)
(* added or dropped beside the same Japanese signs; "edit": a few Japanese *)
(* signs differ; "cut": many are dropped; "reply": a protected short reply *)
(* is replaced; "grown": a short line becomes a long one; "next": the head *)
(* of the next subtitle is appended.                                       *)
OrigKinds  == {"none", "marks", "latin", "unlatin", "edit", "cut", "reply", "grown", "next"}
TransKinds == {"none", "edit", "short", "kana"}
NoAss      == [cur |-> -1, sug |-> -1]
Scores     == {10, 20, 60, 75, 94, 95, 100}

(* The reply of the model: fields the parser normalises (normalize_qa_item)*)
(* after unusable values were emptied (safe_suggestion_value).  The score  *)
(* is taken of the text without its marks.                                 *)
Suggestions ==
    {s \in [orig : OrigKinds, trans : TransKinds,
            ass : {NoAss} \cup [cur : Scores, sug : Scores], fragment : BOOLEAN,
            conf : {50, 89, 90}, asr : BOOLEAN, audio : BOOLEAN] :
        s.orig = "marks" => s.ass.cur = s.ass.sug /\ ~s.fragment}

Regresses(s)  == s.orig \in {"unlatin", "cut", "reply"}
SameSignal(s) == s.orig \in {"none", "marks", "latin", "unlatin"}
-----------------------------------------------------------------------------
AssAccepts(s) == IF s.ass.sug >= 95 THEN "ass-high-score"
                 ELSE IF s.ass.cur >= 75 /\ s.ass.sug >= s.ass.cur THEN "ass-no-regression"
                 ELSE IF s.ass.sug >= s.ass.cur + 5 THEN "ass-improved"
                 ELSE "ass-score-not-improved"

(* A piece of a long reference line must not replace a line that shares    *)
(* little with it.                                                         *)
FragmentRefused(s) == s.fragment /\ s.ass.cur >= 20 /\ s.ass.sug < 75

AssReason(s) == IF s.orig = "none" THEN "no-original-change"
                ELSE IF s.ass = NoAss THEN "no-ass-reference"
                ELSE IF FragmentRefused(s) THEN "ass-long-reference-fragment-replacement"
                ELSE AssAccepts(s)
AssGuard(s) == AssReason(s) \notin {"ass-score-not-improved",
                                    "ass-long-reference-fragment-replacement"}

WithoutAss(s)    == AssReason(s) \in {"no-ass-reference", "no-original-change"}
DeletionGuard(s) == s.orig # "none" /\ WithoutAss(s) => ~Regresses(s)
NeighborGuard(s) == s.orig # "next"
HighRiskGuard(s) == s.orig # "none" /\ WithoutAss(s) => s.orig \notin {"reply", "grown"}
RewriteGuard(s)  == AssReason(s) = "no-ass-reference" => SameSignal(s)
ShorteningGuard(s) == s.trans # "short"
KanaGuard(s)       == s.trans # "kana"

Accepted(s) == /\ AssGuard(s) /\ DeletionGuard(s) /\ NeighborGuard(s)
               /\ HighRiskGuard(s) /\ RewriteGuard(s)
               /\ ShorteningGuard(s) /\ KanaGuard(s)

(* Which fields are changed.  The original is changed only along with the  *)
(* translation.                                                            *)
ChangesTranslation(s) == /\ Accepted(s) /\ ~s.audio
                         /\ s.trans # "none" /\ s.conf >= ApplyThreshold
ChangesOriginal(s) == /\ ChangesTranslation(s) /\ s.orig # "none" /\ s.asr
                      /\ s.conf >= IF ApplyThreshold > 90 THEN ApplyThreshold ELSE 90
-----------------------------------------------------------------------------
(* The gate's judgement of a changed original.                             *)
PostGuardRefuses(s) ==
    \/ ~AssGuard(s)
    \/ s.ass # NoAss /\ s.ass.sug < s.ass.cur
    \/ Regresses(s) /\ AssReason(s) \notin {"ass-improved", "ass-high-score"}

(* Two sorts of change are applied and refused later: a fall among the     *)
(* highest scores, and content lost with a score that is merely no worse.  *)
KnownDispute(s) == \/ s.ass.sug >= 95 /\ s.ass.sug < s.ass.cur
                   \/ Regresses(s) /\ AssReason(s) = "ass-no-regression"

(* What an answer comes to: nothing, another translation, an original that *)
(* differs in its marks or in what is said.                                *)
Outcome(s) ==
    IF ~ChangesTranslation(s) THEN [change |-> "none", disputed |-> FALSE]
    ELSE IF ~ChangesOriginal(s) THEN [change |-> "translation", disputed |-> FALSE]
    ELSE [change |-> IF s.orig = "marks" THEN "marks" ELSE "words",
          disputed |-> PostGuardRefuses(s) /\ ~KnownDispute(s)]
Outcomes == {Outcome(s) : s \in Suggestions}
=============================================================================
