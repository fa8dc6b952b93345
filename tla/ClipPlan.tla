------------------------------ MODULE ClipPlan ------------------------------
(***************************************************************************)
(* Clips of an episode: an LLM proposes ranges of cues (plan), looks at    *)
(* their boundaries once more (refine), and the ranges the user picks are  *)
(* cut, with the cues they hold (cut): qwen_asr/clip_planner.py and        *)
(* tools/radio_clips.py.  Titles, stars and reasons are left out.          *)
(***************************************************************************)
EXTENDS Integers, Sequences

CONSTANTS CueLists,        \* the cues of an episode, [start, end]
          Durations,       \* the duration of the media, or Unknown
          Responses(_),    \* candidates the model names, [from, to], from 1
          Ranges(_),       \* ranges of cues it or the user suggests later
          PreRoll, PostRoll, MinLead,      \* DEFAULT_PRE_ROLL_S, _POST_ROLL_S, MIN_LEAD_S
          MinClip, MaxClip,                \* MIN_CLIP_S, MAX_CLIP_S
          MinSliced, Tolerance, MinCue,    \* MIN_SLICED_CUE_S, the 0.05 of slice_cues, twice
          RefineBefore, RefineAfter, EndBefore, EndAfter  \* REFINE_BEFORE, ...

Unknown == 0

(* Times are not negative, also where a cue ends before it begins.         *)
ASSUME ClipPlanAssumption ==
    /\ \A cues \in CueLists : cues \in Seq([start : Nat, end : Nat])
    /\ Durations \subseteq Nat
    /\ {PreRoll, PostRoll, MinLead, Tolerance, RefineBefore, RefineAfter, EndBefore, EndAfter} \subseteq Nat
    /\ {MinClip, MaxClip, MinSliced, MinCue} \subseteq Nat \ {0} /\ MinCue <= MinSliced

VARIABLES cues, duration,
          step,      \* the command that may come next
          clipPlan,  \* the candidates of plan.json; a candidate's number is its index
          top,       \* the picks of the model: the position it named, our number
          clips,     \* the clips on disk
          subs,      \* the subtitles beside them
          cutting,   \* the cut under way: the picks left, the clip whose subtitle
                     \* is to be written, --overwrite and --with-srt
          broken,    \* the clips at which a cut broke off since they were cut
          bare       \* the clips cut last without the whole of a subtitle

clipVars == <<cues, duration, step, clipPlan, top, clips, subs, cutting, broken, bare>>

NoClip == 0
NoCut  == [picks |-> {}, at |-> NoClip, overwrite |-> FALSE, srt |-> FALSE]
AtRest == cutting.picks = {} /\ cutting.at = NoClip

Low(a, b)  == IF a <= b THEN a ELSE b
High(a, b) == IF a >= b THEN a ELSE b

ClipsInit == /\ cues \in CueLists
             /\ duration \in Durations
             /\ step = "plan"
             /\ clipPlan = <<>> /\ top = {} /\ clips = <<>> /\ subs = <<>>
             /\ cutting = NoCut /\ broken = {} /\ bare = {}
-----------------------------------------------------------------------------
(* cut_window: some time before the first cue, but not inside the one      *)
(* before it; if that one runs right up to the first or into it, a little  *)
(* before the first.                                                       *)
InRange(r) == r.from \in DOMAIN cues /\ r.to \in DOMAIN cues /\ r.from <= r.to

NotBeforePrevious(r)  == cues[r.from - 1].end
NotBefore(r)          == Low(cues[r.from - 1].end, cues[r.from].start - MinLead)

CutStart(r) ==
    LET rolled == cues[r.from].start - PreRoll
    IN  High(0, IF r.from > 1 THEN High(rolled, NotBefore(r)) ELSE rolled)
CutEnd(r) ==
    LET rolled == cues[r.to].end + PostRoll
    IN  IF duration = Unknown THEN rolled ELSE Low(rolled, duration)

Fits(r) == CutEnd(r) - CutStart(r) \in MinClip..MaxClip

Candidate(r, raw) == [from |-> r.from, to |-> r.to, start |-> CutStart(r), end |-> CutEnd(r), raw |-> raw]

(* build_plan: what is no range or too short or too long is dropped, so    *)
(* that numbers are not positions; they are given in order of position.    *)
Kept(response) == {i \in DOMAIN response : InRange(response[i]) /\ Fits(response[i])}

InOrder(order, kept) ==
    /\ \A i \in kept : \E n \in DOMAIN order : order[n] = i
    /\ \A m, n \in DOMAIN order : m < n => order[m] < order[n]

(* An answer without a valid candidate is asked for again, and the command *)
(* fails in the end.                                                       *)
Plan ==
    /\ step = "plan"
    /\ \E response \in Responses(cues) : \E last \in DOMAIN response :
          \E order \in [1..last -> Kept(response)] :
             /\ InOrder(order, Kept(response))
             /\ clipPlan' = [n \in 1..last |-> Candidate(response[order[n]], order[n])]
             /\ top' = {[position |-> order[n], number |-> n] : n \in 1..last}
    /\ step' = "cut"
    /\ UNCHANGED <<cues, duration, clips, subs, cutting, broken, bare>>

(* apply_refinement: each end of a range moves only within the cues the    *)
(* model was shown around it, and only if the clip is still of good length. *)
Shown(i, before, after) == High(1, i - before)..Low(Len(cues), i + after)

Moved(c, r) == [from |-> IF r.from \in Shown(c.from, RefineBefore, RefineAfter) THEN r.from ELSE c.from,
                to   |-> IF r.to \in Shown(c.to, EndBefore, EndAfter) THEN r.to ELSE c.to]
Refined(c, r) == IF Moved(c, r).from <= Moved(c, r).to /\ Fits(Moved(c, r))
                 THEN Candidate(Moved(c, r), c.raw) ELSE c

(* plan and refine, one candidate at a time as they do not depend on each  *)
(* other; a failure leaves the plan as it is.                              *)
Refine ==
    /\ step \in {"cut", "again"} /\ AtRest
    /\ \E n \in DOMAIN clipPlan : \E r \in Ranges(cues) :
          clipPlan' = [clipPlan EXCEPT ![n] = Refined(@, r)]
    /\ UNCHANGED <<cues, duration, step, top, clips, subs, cutting, broken, bare>>

(* recompute_times, and adjust_candidate for any of them: of any length.   *)
AsPlanned == [from |-> 0, to |-> 0]
Adjusted(c, r) == Candidate(IF r = AsPlanned THEN c ELSE r, c.raw)

(* slice_cues: the cues heard in the clip, in its time; what is cut off by *)
(* its end, or a sliver left by its start, is not shown.                   *)
Heard(i, c) == /\ cues[i].end > c.start /\ cues[i].start < c.end
               /\ cues[i].end <= c.end + Tolerance
               /\ Low(cues[i].end, c.end) - High(cues[i].start, c.start)
                    >= (IF cues[i].start < c.start THEN MinSliced ELSE MinCue)
Sliced(c) == [i \in {i \in DOMAIN cues : Heard(i, c)} |->
                 [start |-> High(cues[i].start, c.start) - c.start, end |-> Low(cues[i].end, c.end) - c.start]]

(* cmd_cut, twice at most, of any candidates.  plan.json stays as it is.   *)
StartCut ==
    /\ step \in {"cut", "again"} /\ AtRest
    /\ step' = IF step = "again" THEN "done" ELSE "again"
    /\ \E picks \in SUBSET (DOMAIN clipPlan) \ {{}}, overwrite, srt \in BOOLEAN :
          cutting' = [picks |-> picks, at |-> NoClip, overwrite |-> overwrite, srt |-> srt]
    /\ UNCHANGED <<cues, duration, clipPlan, top, clips, subs, broken, bare>>

(* The next pick, in whichever order they were given: a clip that exists,  *)
(* be it half a clip, is cut again only if that is asked for.              *)
IsPick(n) == cutting.at = NoClip /\ n \in cutting.picks
Exists(n) == n \in DOMAIN clips /\ ~cutting.overwrite

SkipClip(n) ==
    /\ IsPick(n) /\ Exists(n)
    /\ cutting' = [cutting EXCEPT !.picks = @ \ {n}]
    /\ UNCHANGED <<cues, duration, step, clipPlan, top, clips, subs, broken, bare>>

With(f, n, v) == [m \in DOMAIN f \cup {n} |-> IF m = n THEN v ELSE f[m]]

(* cut_clip: ffmpeg writes the clip of the range as planned or as --adjust *)
(* says; its subtitle comes afterwards.                                    *)
Planned(n) == {Adjusted(clipPlan[n], asked) : asked \in {AsPlanned} \cup {r \in Ranges(cues) : InRange(r)}}

CutClip(n) ==
    /\ IsPick(n) /\ ~Exists(n)
    /\ \E c \in Planned(n) : clips' = With(clips, n, c)
    /\ cutting' = [cutting EXCEPT !.picks = @ \ {n}, !.at = IF cutting.srt THEN n ELSE NoClip]
    /\ broken' = broken \ {n} /\ bare' = bare \cup {n}
    /\ UNCHANGED <<cues, duration, step, clipPlan, top, subs>>

(* ffmpeg fails, and the command with it, or they are killed: the old file *)
(* is still there, or the new one ends too soon, at its start say.         *)
Truncated(c) == [c EXCEPT !.end = c.start]

CutBreaks(n) ==
    /\ IsPick(n) /\ ~Exists(n)
    /\ \/ UNCHANGED clips
       \/ \E c \in Planned(n) : clips' = With(clips, n, Truncated(c))
    /\ cutting' = NoCut
    /\ broken' = broken \cup {n} /\ bare' = bare \cup {n}
    /\ UNCHANGED <<cues, duration, step, clipPlan, top, subs>>

(* The subtitle is written for the clip just cut, or the write breaks off  *)
(* and leaves a file that says less, nothing say.                          *)
WriteSubtitle ==
    /\ cutting.at # NoClip
    /\ subs' = With(subs, cutting.at, [window |-> clips[cutting.at], rows |-> Sliced(clips[cutting.at])])
    /\ cutting' = [cutting EXCEPT !.at = NoClip]
    /\ bare' = bare \ {cutting.at}
    /\ UNCHANGED <<cues, duration, step, clipPlan, top, clips, broken>>

SubtitleBreaks ==
    /\ cutting.at # NoClip
    /\ subs' = With(subs, cutting.at, [window |-> clips[cutting.at], rows |-> <<>>])
    /\ cutting' = NoCut
    /\ UNCHANGED <<cues, duration, step, clipPlan, top, clips, broken, bare>>

(* The command is killed between two files.                                *)
CutIsKilled ==
    /\ ~AtRest
    /\ cutting' = NoCut
    /\ UNCHANGED <<cues, duration, step, clipPlan, top, clips, subs, broken, bare>>

ClipsNext == \/ Plan \/ Refine \/ StartCut \/ WriteSubtitle \/ SubtitleBreaks \/ CutIsKilled
             \/ \E n \in cutting.picks : SkipClip(n) \/ CutClip(n) \/ CutBreaks(n)

ClipsSpec == ClipsInit /\ [][ClipsNext]_clipVars
-----------------------------------------------------------------------------
(* A clip holds all of the cues it was cut for, and no more of the cue     *)
(* before them than the lead asks for.                                     *)
WholeClip(c) ==
    /\ c.start <= cues[c.from].start
    /\ duration = Unknown \/ duration >= cues[c.to].end => cues[c.to].end <= c.end
    /\ c.from > 1 => c.start >= Low(cues[c.from - 1].end, cues[c.from].start - MinLead)

(* Its subtitle shows every one of them that ends within the clip and is   *)
(* no sliver, in the order of the episode and within the time of the clip. *)
WholeSubtitle(s) ==
    /\ \A i \in s.window.from..s.window.to :
         cues[i].end <= s.window.end /\ cues[i].end - High(s.window.start, cues[i].start) >= MinSliced =>
            i \in DOMAIN s.rows
    /\ \A i \in DOMAIN s.rows :
         /\ 0 <= s.rows[i].start /\ s.rows[i].start < s.rows[i].end
         /\ s.rows[i].end <= s.window.end - s.window.start
         /\ \A j \in DOMAIN s.rows : cues[i].start <= cues[j].start => s.rows[i].start <= s.rows[j].start

(* What is cut is whole, after any plan, refinement and adjustment, unless *)
(* it is the clip at which a cut broke off and it was not cut since; its   *)
(* subtitle is whole and of the clip that is there unless that was cut     *)
(* last without writing all of one; and a number in the picks is the       *)
(* candidate the model meant.                                              *)
ClipsAreWhole ==
    /\ \A n \in DOMAIN clips \ broken : WholeClip(clips[n])
    /\ \A n \in DOMAIN subs \ bare : /\ WholeSubtitle(subs[n])
                                     /\ n \in DOMAIN clips \ broken /\ subs[n].window = clips[n]
    /\ \A t \in top : clipPlan[t.number].raw = t.position
=============================================================================
