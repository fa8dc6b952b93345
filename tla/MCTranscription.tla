---------------------------- MODULE MCTranscription ----------------------------
(* From a recording to aligned words.  Every short recording with at most  *)
(* one quiet place is prepared; a few of them, cut into two to four        *)
(* windows, are transcribed as well; and rows of a few words are aligned.  *)
(* Transcription and alignment of a row meet only in the rows, so a        *)
(* behaviour is one of one machine, the other being idle.                  *)
EXTENDS Integers, Sequences

CONSTANTS MinSpeech, SpeechPad, MergeGap, MinSegment, Preferred, Minimal, Padding, DipPadding, SearchPercent,
          Recordings, Settings, Transcribed(_, _), Modes, Defaults, LongAt, HalfLong, MostLong, VeryLong,
          FreeItems, Memories, Buckets, MaxCommands,
          Texts, Timings(_), Answers(_, _), FallbackWindow, ZeroRun, MinCoverage, DenseCoverage, DenseZeros,
          ExpectedCps, MinChars, MaxSpan, MaxCps, MaxTokens, MaxRatio, TargetCps, NaturalCps, MaxExpand, CollapsedAt

VARIABLES recording, setting, segs, wavs, transcripts, remaining, limits, room, mode, at, commands, excused,
          segment, answer, aligned, offset, pieces, phase      \* AlignTiming

T == INSTANCE Transcription

A == INSTANCE AlignTiming WITH Segments <- Texts, Heard <- Answers, Window <- FallbackWindow,
                              row <- aligned, windows <- pieces

ASSUME TAssumption == T!TranscriptionAssumption
ASSUME AAssumption == A!AlignTimingAssumption

Count == 9
Marked == SUBSET (0..(Count - 1))
Quiet  == {{}} \cup {{f} : f \in 1..(Count - 2)} \cup {{f, f + 1} : f \in 1..(Count - 3)}
MCRecordings == [frames : {Count}, speech : Marked, quiet : Quiet]
MCSettings   == {[limit |-> 7, overlap |-> 0], [limit |-> 10, overlap |-> 0]}

MCTranscribed(r, s) == r \in {[frames |-> Count, speech |-> v, quiet |-> {2}] :
                                 v \in {0..8, {0, 1, 4, 5, 8}, {0, 3, 4, 5, 6, 7, 8}}}

MCDefaults == [short_form |-> [items |-> 2, target |-> 12, alone |-> 9],
               mixed      |-> [items |-> 2, target |-> 14, alone |-> 8],
               long_form  |-> [items |-> 2, target |-> 16, alone |-> 10]]
-----------------------------------------------------------------------------
(* The alignment of a segment: two to six words, each timed after the one  *)
(* before as a spoken word, a squeezed one, one without time, one after a  *)
(* silence or one out of order.                                            *)
AWord(n, l) == [len |-> n, letters |-> l]
WordA == AWord(4, <<"a">>)
WordB == AWord(3, <<"b">>)
Mark  == AWord(1, <<>>)
Both  == AWord(4, <<"a", "b">>)

MCTexts ==
    {[start |-> 1000, end |-> 7000, words |-> <<WordA, WordA, WordB, WordA, WordA, WordB>>],
     [start |-> 1000, end |-> 3400, words |-> <<WordA, WordA, Mark, WordA, WordB>>]}
    \cup {[start |-> 0, end |-> 4000, words |-> w] : w \in {<<WordA, WordB>>, <<WordA, WordB, WordA>>, <<Mark, Mark>>}}
After == <<<<0, 400>>, <<0, 10>>, <<0, 0>>, <<700, 300>>, <<-100, 300>>>>
MCTimings(n) ==
    LET kinds == IF n > 3 THEN 1..5 ELSE 1..4
        Times(f) == LET ends[i \in 0..n] ==
                          IF i = 0 THEN <<0, 100>>
                          ELSE <<ends[i - 1][2] + After[f[i]][1], ends[i - 1][2] + After[f[i]][1] + After[f[i]][2]>>
                    IN  [i \in 1..n |-> ends[i]]
    IN  {Times(f) : f \in [1..n -> kinds]}
MCAnswers(s, k) == {<<>>} \cup (IF Len(s.words) > 3 THEN {} ELSE
                 {<<WordA>>, <<WordB>>, <<WordA, WordB>>, <<Both>>, <<WordB, WordA>>})
-----------------------------------------------------------------------------
TranscribeSpec == T!Spec
AlignSpec      == A!AlignInit /\ [][A!AlignNext]_A!alignVars

transcribeVars == <<recording, setting, segs, wavs, transcripts, remaining, limits, room, mode, at, commands, excused>>
alignVars      == <<segment, answer, aligned, offset, pieces, phase>>
IdleTranscribe ==
    /\ recording = [frames |-> 0, speech |-> {}, quiet |-> {}] /\ setting = T!NoSetting
    /\ segs = <<>> /\ wavs = T!None /\ transcripts = T!None /\ remaining = {} /\ limits = T!NoLimits
    /\ room = 0 /\ mode = "off" /\ at = "away" /\ commands = 0 /\ excused = {}
IdleAlign ==
    /\ segment = [start |-> 0, end |-> 0, words |-> <<>>] /\ answer = <<>> /\ aligned = A!NoRow
    /\ offset = 0 /\ pieces = <<>> /\ phase = "idle"

PartsInit == (T!Init /\ IdleAlign) \/ (IdleTranscribe /\ A!AlignInit)
PartsNext == (T!Next /\ UNCHANGED alignVars) \/ (A!AlignNext /\ UNCHANGED transcribeVars)
PartsSpec == PartsInit /\ [][PartsNext]_<<transcribeVars, alignVars>> /\ WF_transcribeVars(T!Run)

(* All that the detector took for speech is in a window.                   *)
SpeechIsHeard == T!SpeechIsHeard

(* A row's text was heard in the window the row stands for.                *)
RowIsOfItsWindow == T!RowIsOfItsWindow

(* A run of transcribe ends, and then every window has a row.              *)
EveryWindowEnds == T!EveryWindowEnds

(* A repair of squeezed tokens is local, and an aligned segment says what  *)
(* its text says (AlignTiming, align.py, commands/align.py).               *)
RepairIsHonest == A!RepairIsLocal /\ A!AlignedKeepsContent
=============================================================================
