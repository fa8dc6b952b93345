--------------------------- MODULE MCAlignRecovery ---------------------------
(***************************************************************************)
(* AlignRecovery with a few segments and processes, RecoveryTimes with two *)
(* padded segments, and MfaExperiment with two lines, for TLC.  Every      *)
(* behaviour is of one of them, the others being idle.                     *)
(***************************************************************************)
EXTENDS AlignRecovery, Integers, TLC

CONSTANTS Bounds, ShortOnes, MaxOverlap, MaxRecoveries

ASSUME TimesAssumption ==
    /\ MaxOverlap \in Nat /\ MaxRecoveries \in Nat
    /\ Bounds \in Seq(Nat \X Nat)
    /\ \A g \in DOMAIN Bounds : Bounds[g][1] < Bounds[g][2]

VARIABLES row, undo, heard, exec, offer, reverted, raced, written     \* RecoveryTimes

T == INSTANCE RecoveryTimes

CONSTANTS Reports, Manifests, Answers, Texts, Empty, Marks, Japanese, Match,
          MaxCandidates, MaxRunCandidates, Padding, MaxFar, LowScore, TargetScore

VARIABLES mode, doubts, lines, left, taken, runs, draft, items, output, pc     \* MfaExperiment

M == INSTANCE MfaExperiment

ASSUME MfaAssumption == M!ExperimentAssumption

timesVars == <<row, undo, heard, exec, offer, reverted, raced, written>>
mfaVars   == <<mode, doubts, lines, left, taken, runs, draft, items, output, pc>>

(* Idle, a machine has none of its steps. *)
IdleFiles == /\ disk = [manifest |-> NoRows, checkpoint |-> NoRows, events |-> NoRows]
             /\ backups = <<>> /\ saved = NoTasks /\ report = {} /\ lock = NoLock
             /\ proc = [p \in Procs |-> Idle] /\ robbed = {}
             /\ starts = MaxStarts + 1 /\ crashes = 0
IdleTimes == /\ row = <<>> /\ undo = <<>> /\ heard = <<>> /\ exec = T!None /\ offer = T!None
             /\ reverted = {} /\ raced = {} /\ written = 0

IdleMfa   == /\ mode = "off" /\ doubts = <<>> /\ lines = <<>> /\ left = {} /\ taken = 0 /\ runs = <<>>
             /\ draft = <<>> /\ items = <<>> /\ output = {} /\ pc = "done"

MCInit == \/ Init /\ IdleTimes /\ IdleMfa
          \/ IdleFiles /\ T!Init /\ IdleMfa
          \/ IdleFiles /\ IdleTimes /\ M!Init
MCNext == \/ starts <= MaxStarts /\ Next /\ UNCHANGED <<timesVars, mfaVars>>
          \/ row # <<>> /\ T!Next /\ UNCHANGED <<vars, mfaVars>>
          \/ M!Next /\ UNCHANGED <<vars, timesVars>>
MCSpec == MCInit /\ [][MCNext]_<<vars, timesVars, mfaVars>>

(* Two segments of two units, padded into each other by one. *)
Padded == <<<<0, 2>>, <<1, 3>>>>

(* Lines of a manifest that follow, overlap or have the same times; texts  *)
(* of which "ab" is like both others.                                      *)
MCTexts == {"", "!", "a", "b", "ab"}
Alike(s, t) == IF {s, t} \cap {"", "!"} # {} THEN 0
               ELSE IF s = t THEN 100 ELSE IF "ab" \in {s, t} THEN 70 ELSE 30
MCMatch == [st \in MCTexts \X MCTexts |-> Alike(st[1], st[2])]
MLine(s, e, t) == [start |-> s, end |-> e, text |-> t]
MCLines == {<<>>} \cup {<<MLine(1, 3, "a"), MLine(s, s + 2, t)>> : s \in {1, 2, 5}, t \in {"a", "ab"}}

Word(s, e, k) == [start |-> s, end |-> e, known |-> k]
MCAnswers == {[ok |-> TRUE, words |-> w, text |-> t] :
                w \in {{Word(0, 2, TRUE)}, {Word(1, 1, TRUE)}, {Word(2, 3, TRUE), Word(4, 6, TRUE)},
                       {Word(0, 1, FALSE), Word(1, 3, TRUE)}},
                t \in {"", "a", "ab"}}
             \cup {[ok |-> o, words |-> {}, text |-> ""] : o \in BOOLEAN}

(* What each kind of report may say, and which reports are read together.  *)
Issue(k, f, s, e, t) == [kind |-> k, failed |-> f, start |-> s, end |-> e, text |-> t]
Diff(k, f, s, e, t, from, to, p, c, d) ==
    [kind |-> k, failed |-> f, start |-> s, end |-> e, text |-> t, from |-> from, to |-> to,
     previous |-> p, current |-> c, diagnostics |-> d]
Said(c, r, a, d, m) == [content |-> c, realign |-> r, ass |-> a, diff |-> d, mimo |-> m, translated |-> {}]
Unknown == 0 - 1
OfFirst(f)  == Diff("became-low", f, 1, 3, "a", 1, 3, 80, 30, {})
OfSecond(t) == Diff("score-drop", TRUE, 4, 7, t, 5, 7, 60, 70, {})
MCReports ==
    {Said({}, {}, {}, {OfFirst(f), OfSecond(t)}, {}) : f \in BOOLEAN, t \in {"a", "ab", "!"}}
    \cup {Said({Issue(k, f, 1, 3, "a")}, {}, {}, {d}, {}) :
             k \in {"missing_unique_text", "duplicate"}, f \in BOOLEAN,
             d \in {OfFirst(TRUE), Diff("other", FALSE, 1, 3, "ab", Unknown, Unknown, Unknown, 40, {"short-dialogue-missing"})}}
    \cup {Said({}, {[status |-> s, id |-> 1, start |-> 1, end |-> 3]},
               {[diagnostics |-> d, start |-> 1, end |-> 3, text |-> t, score |-> 40]}, {OfFirst(FALSE)},
               {[id |-> 2, start |-> s2, end |-> 6, text |-> "a", changed |-> c, pending |-> FALSE]}) :
             s \in {"failed", "kept"}, d \in {{}, {"short-dialogue-missing"}}, t \in {"b", "!"},
             s2 \in {Unknown, 4}, c \in BOOLEAN}
    \cup {Said({}, {}, {}, {OfFirst(FALSE), [OfFirst(TRUE) EXCEPT !.current = 100]}, {})}

Symmetric == Permutations(Segments) \cup Permutations(Procs)
-----------------------------------------------------------------------------
(* Recovered times do not overlap by more than is tolerated, whatever was  *)
(* recovered and undone before (RecoveryTimes, recovery_executor.py,       *)
(* recovery_service.py).                                                   *)
RecoveredApart == row # <<>> => T!RecoveredApart

(* What the experiment with MFA writes is justified by what it reports     *)
(* (MfaExperiment, mfa_writeback.py).                                      *)
WritebackIsJustified == M!WritebackIsJustified
=============================================================================
