--------------------------- MODULE MCTranslation ---------------------------
(***************************************************************************)
(* Translation with a few chunks, the pool of MiMo requests with a few     *)
(* tasks, and the normalize stage with a few cues, for TLC: a behaviour is *)
(* one of the one or one of the others, which meet in files only.          *)
(***************************************************************************)
EXTENDS Translation, Integers, Sequences

CONSTANTS NTasks, Workers, MaxRetries, ExtraBody,
          Manifests, JoinFragments, ExtendMs, SnapGap, MinBlank, MinDuration,   \* Normalize
          TightPart, ScreenPart, JoinGap, JoinSpan, JoinLetters

ASSUME CallsAssumption == NTasks \in Nat \ {0} /\ MaxRetries \in Nat /\ ExtraBody \in BOOLEAN

VARIABLES kind, pool, task, missed, report, shown,
          given, cues, join, pass                       \* Normalize

Calls == INSTANCE MimoCalls WITH main <- pool
N == INSTANCE Normalize

ASSUME CuesAssumption == N!NormalizeAssumption
-----------------------------------------------------------------------------
(* The normalize stage: three cues of every kind of sentence with and      *)
(* without time and silence, and one of three sentences.                   *)
ASentence(i, k) == [id |-> i, kind |-> k, len |-> CASE k = "mark" -> 0
                                                   [] k \in {"line", "open", "tail"} -> 4
                                                   [] OTHER -> 2]
Text(kinds, from) == [i \in DOMAIN kinds |-> ASentence(from + i, kinds[i])]
NCue(i, s, d, source, target, ends) ==
    [start |-> s, end |-> s + d, source |-> Text(source, 10 * i), target |-> Text(target, 100 * i), ends |-> ends]
Lines == <<<<"line">>, <<"line", "line">>, <<"line", "line", "line">>>>

ThreeCues ==
    {<<NCue(1, s, d[1], a, Lines[Len(a)], <<>>),
       NCue(2, s + d[1] + g, d[2], b, <<"line">>, <<>>),
       NCue(3, s + d[1] + g + d[2] + h, d[3], <<"line">>, <<>>, <<>>)>> :
        s \in {0, 400}, d \in {60, 1200} \X {0, 300, 900} \X {60, 700},
        g \in {-200, 0, 250}, h \in {-100, 0, 400},
        a \in {<<"line">>, <<"tail">>, <<"reply">>, <<"line", "line">>, <<"line", "mark">>, <<"jan", "line">>,
               <<"head", "open">>},
        b \in {<<"line">>, <<"head">>, <<"suffix">>, <<"mark">>}}
ThreeSentences ==
    {<<NCue(1, 100, d, a, b, e), NCue(2, 150 + d, 600, <<"line">>, <<"line">>, <<>>)>> :
        d \in {300, 900, 1800}, e \in {<<>>} \cup {[x \in {4} |-> t] : t \in {200, 900, 1700}},
        a \in [1..3 -> {"line", "suffix", "this", "jan"}], b \in {Lines[1], Lines[2], Lines[3]}}
(* The later sentences of a cue may begin after the next cue does. *)
Overlapped ==
    {<<NCue(1, 0, 600 * n, Lines[n], Lines[n], <<>>), NCue(2, s, d, <<"line">>, <<"line">>, <<>>)>> :
        n \in {2, 3}, s \in {300, 700, 1000}, d \in {400, 1500}}
(* ASRData sorts the cues it is made of. *)
MCManifests == {m \in ThreeCues \cup ThreeSentences \cup Overlapped :
                    \A i \in DOMAIN m : m[i].start >= 0 /\ (i > 1 => m[i - 1].start <= m[i].start)}
-----------------------------------------------------------------------------
(* The values of the one that does not run. *)
StillTranslation ==
    /\ main = "error" /\ next = 1 /\ running = FALSE /\ cool = 0
    /\ chunk = [c \in Chunks |-> New] /\ manifest = Unwritten
StillCalls ==
    /\ kind = "none" /\ pool = "over" /\ task = [t \in Calls!Tasks |-> Calls!New]
    /\ missed = 0 /\ report = Calls!NoReport /\ shown = [status |-> "running", counts |-> Calls!NoReport]

StillCues == given = <<>> /\ cues = <<>> /\ join = FALSE /\ pass = "idle"

MCInit == \/ Init /\ StillCalls /\ StillCues
          \/ StillTranslation /\ Calls!Init /\ StillCues
          \/ StillTranslation /\ StillCalls /\ N!NormalizeInit
callVars == <<kind, pool, task, missed, report, shown>>
cueVars  == <<given, cues, join, pass>>
MCNext == \/ kind = "none" /\ pass = "idle" /\ Next /\ UNCHANGED <<callVars, cueVars>>
          \/ kind # "none" /\ Calls!Next /\ UNCHANGED <<vars, cueVars>>
          \/ N!NormalizeNext /\ UNCHANGED <<vars, callVars>>

(* The fairness of Translation; nothing of it is enabled beside the others. *)
MCSpec == MCInit /\ [][MCNext]_<<vars, callVars, cueVars>> /\ Fairness

(* The requests of a review (MimoCalls): each task sends a bounded number,  *)
(* the first warms the cache alone, and the report counts every one.       *)
CallsAreOrderly == /\ Calls!PoolIsOrderly
                   /\ kind # "none" => Calls!RequestsAreCounted

(* The normalize stage keeps words and translations, and what it writes    *)
(* can be read (Normalize, normalize.py).                                  *)
NormalizedIsWhole == N!NormalizedKeepsText /\ N!NormalizedReadable
=============================================================================
