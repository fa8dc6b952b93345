------------------------------ MODULE MCProofread -----------------------------
(***************************************************************************)
(* Two lines that may share a request, and a segment without lines; or the *)
(* rows of quality reports about two lines; or the realignment of cues: a  *)
(* behaviour is one of one of the three.                                   *)
(***************************************************************************)
EXTENDS Proofread

Where == [i \in Ids |-> "s1"]
Line(types) == [types |-> types, audio |-> types # {}, realign |-> FALSE]
Unmarked == [i \in Ids |-> Line({})]
Marked   == [i \in Ids |-> IF i = 1 THEN Line({Weak}) ELSE Line({Heard})]
AllMarkings == {Unmarked, Marked}

(* The scope matters in two stages only, and "all" is for diagnosis.       *)
Review(mode, scope, resume) == [mode |-> mode, scope |-> scope, resume |-> resume]
MCReviews == {Review(m, "suspects", r) : m \in {"segment-audio", "two-stage-nearby"}, r \in BOOLEAN}
             \cup {Review("two-stage-nearby", "all", TRUE)}
-----------------------------------------------------------------------------
(* Lines that follow, touch, overlap or have no duration; every row alone, *)
(* and two rows whose suspicions mix.                                      *)
Span(a, b) == [start |-> a, end |-> b]
MCPlacements == {<<Span(0, 2), Span(4, 6)>>, <<Span(1, 3), Span(3, 5)>>,
                 <<Span(0, 4), Span(2, 6)>>, <<Span(2, 2), Span(2, 5)>>,
                 <<Span(0, 0), Span(6, 7)>>}
RowOf(span, diagnostics, level, key, other, better, compares) ==
    [start |-> span.start, end |-> span.end, diagnostics |-> diagnostics, level |-> level,
     key |-> key, other |-> other, better |-> better, compares |-> compares]
Times == {Span(0, 0), Span(1, 1), Span(2, 3), Span(3, 3), Span(1, 5), Span(5, 8), Span(9, 9)}
Diagnostics == SUBSET {"missing", "shifted"}
Single == {RowOf(t, d, v, k, o, b, FALSE) : t \in Times, d \in Diagnostics,
                 v \in {"ok", "low", "fail"}, k \in {0, 1, 3}, o \in {0, 2}, b \in BOOLEAN}
          \cup {RowOf(t, d, v, 0, 0, FALSE, TRUE) : t \in Times, d \in Diagnostics,
                      v \in {"ok", "fail"}}
Mixed  == {RowOf(t, d, v, 0, 0, FALSE, c) : t \in {Span(1, 1), Span(2, 3)},
                 d \in Diagnostics \ {{"missing", "shifted"}},
                 v \in {"ok", "low", "fail"}, c \in BOOLEAN}
MCReports == {{r} : r \in Single} \cup {{a, b} : a, b \in Mixed}

CONSTANTS Lines, Placements, Reports, MaxDistance
VARIABLES times, reportRows, spot, count, copy, read, phase
matchVars == <<times, reportRows, spot, count, copy, read, phase>>
Of == INSTANCE QualitySuspects WITH mem <- copy, rows <- reportRows, line <- spot

(* Lines are numbered, and no row ends before it begins.                   *)
ASSUME SuspectsAssumption ==
    /\ IsFiniteSet(Lines) /\ Lines # {} /\ Lines \subseteq Nat /\ MaxDistance \in Nat
    /\ \A placed \in Placements : \A l \in Lines : placed[l].start \in Int /\ placed[l].end \in Int
    /\ \A given \in Reports : \A r \in given : r.start \in Int /\ r.end \in Int /\ r.start <= r.end
-----------------------------------------------------------------------------
(* The realignment: cues that overlap, that touch, and that are too long.  *)
RCue(s, e, t, p) == [start |-> s, end |-> e, text |-> t, pending |-> p, mixed |-> FALSE]
MCManifests ==
    {<<RCue(1000, 2000, "a", TRUE), RCue(s, e, "a", TRUE), RCue(2900, 3200, "a", FALSE)>> :
        s \in {1800, 2050}, e \in {2050, 2600}}
    \cup {<<RCue(1000, 2000, "ok", TRUE), RCue(2100, 2300, "a", p), RCue(2600, 3000, "a", TRUE)>> : p \in BOOLEAN}
    \cup {<<[RCue(0, 7000, "a", TRUE) EXCEPT !.mixed = m], RCue(8000, 15000, "b", TRUE)>> : m \in BOOLEAN}
    \cup {<<RCue(0, 100, "a", TRUE), RCue(300, 900, "a", TRUE)>>}
Plan(first, otherwise, second) == [primary |-> first, fallback |-> otherwise, second |-> second]
MCPlans == {Plan("qwen-first", "original-timing", FALSE), Plan("qwen-first", "none", TRUE),
            Plan("mfa-local", "original-timing", FALSE), Plan("original-timing", "none", FALSE)}
MCAnswers(c, clip) == {<<clip[1], clip[2]>>, <<c.start - 100, c.end + 50>>,
                       <<clip[1] + 600, c.start - 50>>, <<c.end - 50, c.end + 430>>}

CONSTANTS Manifests, Kana, Plans, Answers(_, _), Recording, QwenPad, MfaPad, MaxOverlap, MinDuration,
          DisplayPad, MaxDuration, Near
VARIABLES before, cues, plan, round, todo, cache, left, mfa, blind
realignVars == <<before, cues, plan, round, todo, cache, left, mfa, blind>>
R == INSTANCE Realign

ASSUME RAssumption == R!RealignAssumption
-----------------------------------------------------------------------------
Still == /\ times = <<>> /\ reportRows = {} /\ spot = <<>> /\ count = 0
         /\ copy = <<>> /\ read = {} /\ phase = "none"
Settled == /\ before = <<>> /\ cues = <<>> /\ plan = R!NoPlan /\ round = 2 /\ todo = {}
           /\ cache = <<>> /\ left = R!NoAnswer /\ mfa = FALSE /\ blind = {}
Waiting == Init /\ tr = [version |-> 1, line |-> Unmarked, noted |-> FALSE, reported |-> 0]

MCInit == \/ Init /\ Still /\ Settled
          \/ Of!Init /\ Waiting /\ Settled
          \/ R!RealignInit /\ Waiting /\ Still
MCNext == \/ phase = "none" /\ before = <<>> /\ Next /\ UNCHANGED <<matchVars, realignVars>>
          \/ phase # "none" /\ Of!Next /\ UNCHANGED <<vars, realignVars>>
          \/ R!RealignNext /\ UNCHANGED <<vars, matchVars>>
MCSpec == MCInit /\ [][MCNext]_<<vars, matchVars, realignVars>>

SuspectsFindTheirLine == Of!SuspectsFindTheirLine

(* Realigned cues overlap by no more than the tolerance (Realign,          *)
(* proofread_realign.py).                                                  *)
RealignedApart == R!RealignedApart
=============================================================================
