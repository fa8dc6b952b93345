----------------------------- MODULE SuspectMarks -----------------------------
(***************************************************************************)
(* What is noted of a translated line that is under suspicion              *)
(* (quality_suspects.py, mimo_candidates.py): the kinds of suspicion,      *)
(* whether it is to be listened to, and whether it is to be aligned again. *)
(***************************************************************************)

Weak    == "short_response"
Heard   == "ass_short_dialogue_missing"
Shifted == "ass_short_dialogue_timing_shifted"
Low     == "ass_low_score"
Fail    == "ass_fail_score"
Worse   == "ass_stage_became_fail"
SuspicionTypes == {Weak, Heard, Shifted, Low, Fail, Worse}
OnlyLowYield(types) == types # {} /\ types \subseteq {Weak}
RealignOnly(types)  == Shifted \in types /\ types \subseteq {Shifted, Low, Fail}
NeedsAudio(types)   == types # {} /\ ~RealignOnly(types)

(* A quality report's row about a line is merged into its marks. *)
Merged(line, types) ==
    LET all == line.types \cup types
    IN  IF NeedsAudio(all) THEN [line EXCEPT !.types = all, !.audio = TRUE]
        ELSE [line EXCEPT !.types = all, !.realign = TRUE]
=============================================================================
