------------------------------ MODULE Segmentation -----------------------------
(***************************************************************************)
(* How prepare cuts a recording into the windows that are transcribed:     *)
(* vad.py (speech regions and silences), segmenter.py (cuts at silences,   *)
(* at dips of the loudness, or at the limit; merging; padding).            *)
(*                                                                         *)
(* Time is in ticks, a frame of the recording is two of them, so that the  *)
(* middle of a silence is a tick.  A recording is its number of frames,    *)
(* the frames the voice detector marks, and the frames that are quiet: at  *)
(* least twice energy_cut_min_depth_db below the others.                   *)
(***************************************************************************)
EXTENDS Integers, Sequences, FiniteSets, SequencesExt

CONSTANTS MinSpeech, SpeechPad, MergeGap,     \* vad: shortest region, its margin, gap to close
          MinSegment, Preferred, Minimal,     \* segmenter: shortest window, silences to cut at
          Padding, DipPadding,                \* margins of a window, at a dip of the loudness
          SearchPercent                       \* the tail of a window that is searched for a dip

SegmentationAssumption ==
    /\ {MinSpeech, SpeechPad, MergeGap, Minimal, Padding, DipPadding} \subseteq Nat
    /\ MinSegment \in Nat \ {0} /\ Preferred >= Minimal /\ SearchPercent \in 0..100

Least(S)    == CHOOSE x \in S : \A y \in S : x <= y
Greatest(S) == CHOOSE x \in S : \A y \in S : y <= x
AtLeast(a, b) == IF a > b THEN a ELSE b
AtMost(a, b)  == IF a < b THEN a ELSE b

Span(s, e)    == [start |-> s, end |-> e]
Length(w)     == w.end - w.start
Duration(r)   == 2 * r.frames
Frames(s, e)  == (s \div 2)..(e \div 2 - 1)       \* EnergyProfile.window

(* Runs of marked frames; those that are not too short and end before a    *)
(* frame, of which there is one at most; a run with its margins.           *)
Runs(frames) == {Span(2 * p[1], 2 * p[2] + 2) : p \in
    {p \in frames \X frames : /\ p[1] <= p[2] /\ p[1]..p[2] \subseteq frames
                              /\ p[1] - 1 \notin frames /\ p[2] + 1 \notin frames}}
Spoken(r, f) == {w \in Runs(r.speech) : w.end = 2 * f /\ Length(w) >= MinSpeech}
Padded(w, r) == Span(AtLeast(0, w.start - SpeechPad), AtMost(Duration(r), w.end + SpeechPad))

(* Regions closer than the gap become one. *)
Joined(regions, w) ==
    IF regions # <<>> /\ w.start <= Last(regions).end + MergeGap
    THEN [regions EXCEPT ![Len(regions)].end = AtLeast(@, w.end)]
    ELSE Append(regions, w)
SpeechRegions(r) ==
    LET upto[f \in 0..r.frames] ==
            IF f = 0 THEN <<>>
            ELSE IF Spoken(r, f) = {} THEN upto[f - 1]
            ELSE Joined(upto[f - 1], Padded(CHOOSE w \in Spoken(r, f) : TRUE, r))
    IN  upto[r.frames]

Silences(regions, r) ==
    LET n == Len(regions)
        between == {Span(IF i = 0 THEN 0 ELSE regions[i].end,
                         IF i = n THEN Duration(r) ELSE regions[i + 1].start) : i \in 0..n}
    IN  {s \in between : Length(s) > 0}
-----------------------------------------------------------------------------
NoCut == 0 - 1

(* The silence whose middle is nearest the end of the window, of those     *)
(* long enough to be preferred if there are any.                           *)
SilenceCut(from, latest, silences) ==
    LET middles(least) == {(s.start + s.end) \div 2 : s \in {s \in silences :
                /\ Length(s) >= least
                /\ (s.start + s.end) \div 2 \in (from + MinSegment)..latest}}
    IN  IF middles(Preferred) # {} THEN Greatest(middles(Preferred))
        ELSE IF middles(Minimal) # {} THEN Greatest(middles(Minimal)) ELSE NoCut

(* The middle of the first quiet run in the tail of the window; quiet must *)
(* be rarer in the window than loud.                                       *)
DipCut(from, latest, r) ==
    LET within(s, e) == Frames(s, e) \cap 0..(r.frames - 1)
        whole  == within(from, latest)
        tail   == within(AtLeast(from + MinSegment,
                                 latest - ((latest - from) * SearchPercent) \div 100), latest)
        dips   == tail \cap r.quiet
        first  == Least(dips)
        last   == Greatest({f \in dips : first..f \subseteq dips})
    IN  IF dips = {} \/ 2 * Cardinality(whole \cap r.quiet) > Cardinality(whole) THEN NoCut
        ELSE first + last + 1

Window(s, e, dip) == [start |-> s, end |-> e, dip |-> dip]
CutAfter(from, latest, silences, r) ==
    LET silence == SilenceCut(from, latest, silences)
        dip     == DipCut(from, latest, r)
        wanted  == IF silence # NoCut THEN silence ELSE IF dip # NoCut THEN dip ELSE latest
        cut     == AtMost(AtLeast(from + MinSegment, wanted), latest)
    IN  Window(from, IF cut <= from THEN latest ELSE cut, silence = NoCut /\ dip # NoCut)

Onward(c, w, overlap) ==
    LET back == AtLeast(0, w.end - overlap) IN IF back <= c THEN w.end ELSE back
LogicalWindows(regions, r, limit, overlap) ==
    LET final == Last(regions).end
        next(c) == CutAfter(c, c + limit, Silences(regions, r), r)
        from[c \in 0..final] ==
            IF c = final THEN <<>>
            ELSE IF final - c <= limit THEN <<Window(c, final, FALSE)>>
            ELSE <<next(c)>> \o from[Onward(c, next(c), overlap)]
    IN  from[regions[1].start]

(* A window that begins inside the one before it, or is too short, is      *)
(* joined to it.                                                           *)
Dropping(done, w, r) ==
    LET end == AtMost(Duration(r), w.end) IN
    IF end <= w.start THEN done
    ELSE IF done # <<>> /\ w.start < Last(done).end
    THEN [done EXCEPT ![Len(done)].end = AtLeast(@, end)]
    ELSE IF done # <<>> /\ end - w.start < MinSegment THEN done
    ELSE Append(done, [w EXCEPT !.end = end])
Taking(done, w, r) ==
    LET end == AtMost(Duration(r), w.end) IN
    IF end <= w.start THEN done
    ELSE IF done # <<>> /\ (w.start < Last(done).end \/ end - w.start < MinSegment)
    THEN [done EXCEPT ![Len(done)].end = AtLeast(@, end)]
    ELSE Append(done, [w EXCEPT !.end = end])
Normalized(windows, r) ==
    LET done[i \in 0..Len(windows)] ==
            IF i = 0 THEN <<>> ELSE Taking(done[i - 1], windows[i], r)
    IN  done[Len(windows)]

(* The windows of the manifest: what they stand for and, with margins,     *)
(* what is cut out of the recording.                                       *)
Segment(w, dips, r) ==
    LET margin(t) == IF t \in dips THEN DipPadding ELSE Padding
    IN  [logical |-> Span(w.start, w.end),
         heard   |-> Span(AtLeast(0, w.start - margin(w.start)),
                          AtMost(Duration(r), w.end + margin(w.end)))]

BuildSegments(r, limit, overlap) ==
    LET regions == SpeechRegions(r)
        logical == LogicalWindows(regions, r, limit, overlap)
        dips    == {w.end : w \in {w \in ToSet(logical) : w.dip}}
        windows == Normalized(logical, r)
    IN  IF regions = <<>> THEN <<Segment(Window(0, Duration(r), FALSE), {}, r)>>
        ELSE [i \in DOMAIN windows |-> Segment(windows[i], dips, r)]
=============================================================================
