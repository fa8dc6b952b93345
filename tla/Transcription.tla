----------------------------- MODULE Transcription -----------------------------
(***************************************************************************)
(* prepare and transcribe over one workspace: the windows a recording is   *)
(* cut into, the batches they are transcribed in (batching.py, with the    *)
(* defaults of transcribe_profile.py), what a batch or a single window     *)
(* comes to when the model runs out of memory, fails, answers short or   *)
(* copies its prompt (asr.py, asr_context.py), and the rows that are left. *)
(*                                                                         *)
(* The audio of a window lies in a file named for its number and is cut    *)
(* when it is first needed.  A command prepares again or transcribes again,*)
(* by force or resuming.  (The files rows are written to, and kills, are   *)
(* StageJournal's.)                                                        *)
(***************************************************************************)
EXTENDS Segmentation

CONSTANTS Recordings, Settings,     \* inputs: recordings; [limit, overlap] of a prepare
          Transcribed(_, _),        \* bound: the recordings and settings that are transcribed
          Modes,                    \* subset of {"off", "full", "merge"}: --asr-context-mode
          Defaults,                 \* of a profile: [items, target, alone]
          LongAt, HalfLong, MostLong, VeryLong, \* seconds: a long window, percentiles, a very long one
          FreeItems,                \* batch sizes the free video memory may allow
          Memories,                 \* seconds of padded audio the device holds at most
          Buckets,                  \* upper bounds of the duration buckets but the last
          MaxCommands               \* bound

TranscriptionAssumption ==
    /\ SegmentationAssumption
    /\ Modes \subseteq {"off", "full", "merge"}
    /\ \A r \in Recordings : r.frames \in Nat /\ {r.speech, r.quiet} \subseteq SUBSET (0..(r.frames - 1))
    /\ \A s \in Settings : s.limit \in Nat \ {0} /\ s.overlap \in Nat
    /\ \A p \in DOMAIN Defaults : Defaults[p].items \in Nat \ {0}

VARIABLES recording, setting,
          segs,        \* segments.json: a sequence of windows, by number
          wavs,        \* the audio files: number -> what was cut
          transcripts, \* transcript_segments.json: number -> row
          remaining,   \* the planner: windows to transcribe
          limits,      \* and how large a batch may be
          room,        \* seconds a batch may have at most, which no one knows
          mode, at, commands,
          excused      \* what may be of other windows: rows, audio files

vars == <<recording, setting, segs, wavs, transcripts, remaining, limits, room, mode, at, commands, excused>>

NoSetting == [limit |-> 0, overlap |-> 0]
NoLimits  == [items |-> 0, target |-> 0, alone |-> 0]
None      == [k \in {} |-> 0]
Numbers   == DOMAIN segs
Seconds(n) == Length(segs[n].heard)

Row(status, text, of) == [status |-> status, text |-> text, of |-> of]
Completed == {n \in DOMAIN transcripts : transcripts[n].status = "completed"}

Init == /\ recording \in Recordings /\ setting = NoSetting
        /\ segs = <<>> /\ wavs = None /\ transcripts = None
        /\ remaining = {} /\ limits = NoLimits /\ room = 0 /\ mode = "off" /\ at = "idle"
        /\ commands = 0 /\ excused = {}
-----------------------------------------------------------------------------
(* prepare: by force the audio files of the windows go, the rows stay.     *)
KeepsAudio(force) == wavs
Kept(force)       == IF force THEN None ELSE wavs
Prepare(s, force) ==
    /\ at = "idle" /\ commands < MaxCommands /\ commands' = commands + 1
    /\ segs # <<>> => Transcribed(recording, s) /\ Transcribed(recording, setting)
    /\ setting' = s /\ segs' = BuildSegments(recording, s.limit, s.overlap)
    /\ wavs' = Kept(force)
    /\ excused' = (IF force THEN excused \ {"audio"} ELSE excused) \cup
           (IF segs' # segs /\ ~force /\ wavs # None THEN {"audio"} ELSE {}) \cup
           (IF segs' # segs /\ transcripts # None THEN {"rows"} ELSE {})
    /\ UNCHANGED <<recording, transcripts, remaining, limits, room, mode, at>>
-----------------------------------------------------------------------------
(* The defaults of a batch are chosen by the lengths of the windows; round *)
(* is Python's, which takes halves to the even neighbour.                  *)
Rounded(a, b) == LET q == a \div b r == a % b
                 IN  IF 2 * r > b \/ (2 * r = b /\ q % 2 = 1) THEN q + 1 ELSE q
Before(m, n) == Seconds(m) > Seconds(n) \/ (Seconds(m) = Seconds(n) /\ m < n)
Percentile(S, percent) ==
    LET place == Cardinality(S) - Rounded((Cardinality(S) - 1) * percent, 100)
    IN  Seconds(CHOOSE n \in S : Cardinality({m \in S : Before(m, n)}) = place - 1)
Share(S, least) == (100 * Cardinality({n \in S : Seconds(n) >= least})) \div Cardinality(S)
Profile(S) == IF Percentile(S, 50) >= HalfLong \/ Share(S, LongAt) >= 40 THEN "long_form"
              ELSE IF Percentile(S, 75) >= MostLong \/ Share(S, LongAt) >= 20 THEN "mixed"
              ELSE "short_form"
Limits(S) ==
    LET d == [Defaults[Profile(S)] EXCEPT !.alone = IF Share(S, VeryLong) >= 10 THEN AtMost(@, LongAt) ELSE @]
    IN  {[d EXCEPT !.items = AtLeast(@, n)] :
            n \in IF Profile(S) = "short_form" THEN FreeItems \cup {1} ELSE {1}}

(* The audio of a window that has none is cut now. *)
Cut(S) == [n \in DOMAIN wavs \cup S |-> IF n \in DOMAIN wavs THEN wavs[n] ELSE segs[n].heard]

Transcribe(force, m) ==
    LET old == IF force THEN None ELSE transcripts
        pending == {n \in Numbers : ~(n \in DOMAIN old /\ old[n].status = "completed")}
    IN  /\ at = "idle" /\ commands < MaxCommands /\ commands' = commands + 1
        /\ segs # <<>> /\ Transcribed(recording, setting)
        /\ transcripts' = old
        /\ IF pending = {} THEN UNCHANGED <<wavs, remaining, limits, room, mode, at>>
           ELSE /\ limits' \in Limits(Numbers) /\ room' \in Memories /\ mode' = m /\ at' = "transcribing"
                /\ remaining' = pending /\ wavs' = Cut(pending)
        /\ excused' = IF pending # {} /\ "audio" \in excused THEN excused \cup {"rows"}
                      ELSE IF force THEN excused \ {"rows"} ELSE excused
        /\ UNCHANGED <<recording, setting, segs>>
-----------------------------------------------------------------------------
(* The next batch: of the bucket of the shortest windows the longest ones, *)
(* one at least; a very long window is a batch of its own.  (A set of one  *)
(* batch, or of none when nothing remains.)                                *)
Bucket(n) == Cardinality({b \in Buckets : b < Seconds(n)})
Shortest  == {n \in remaining : \A m \in remaining : Bucket(n) <= Bucket(m)}
Firsts == {first \in SUBSET Shortest :
    Cardinality(first) \in 1..limits.items /\ \A m \in first, n \in Shortest \ first : Before(m, n)}
Total(S) == FoldSet(LAMBDA n, t : t + Seconds(n), 0, S)
Fits(S) == Cardinality(S) = 1 \/ Total(S) <= limits.target
Orders(S) == {s \in [1..Cardinality(S) -> S] : \A i, j \in DOMAIN s : i < j => Before(s[i], s[j])}
NextBatches ==
    LET long  == Greatest({Cardinality(first) : first \in {first \in Firsts : Fits(first)}})
        alone == \E n \in Shortest : Seconds(n) >= limits.alone
    IN  UNION {Orders(first) : first \in {first \in Firsts : Cardinality(first) = IF alone THEN 1 ELSE long}}

(* A batch is padded to its longest window.  One beyond the device's room   *)
(* always runs out of memory; any other of several may, as others use it.  *)
TooLarge(batch) ==
    Len(batch) > 1 /\ Len(batch) * Greatest({Seconds(n) : n \in ToSet(batch)}) > room

(* Out of memory, which only a batch of several reports: smaller ones.   *)
Unreduced(l, batch) == [l EXCEPT !.target = AtLeast(Seconds(batch[1]), @)]
Reduced(l, batch) ==
    [l EXCEPT !.items = AtLeast(1, @ - 1),
              !.target = AtLeast(Greatest({Seconds(batch[i]) : i \in DOMAIN batch}), (4 * @) \div 5)]
OutOfMemory ==
    /\ at = "transcribing"
    /\ \E batch \in NextBatches : Len(batch) > 1 /\ limits' = Reduced(limits, batch)
    /\ UNCHANGED <<recording, setting, segs, wavs, transcripts, remaining, room, mode, at, commands, excused>>
-----------------------------------------------------------------------------
(* What the model makes of a window: nothing, what is said in it, and with *)
(* a list of terms before it also their spelling or a copy of the list.    *)
Plain   == {"silence", "speech"}
Context == Plain \cup {"terms", "copy"}
Failed  == "failed"

(* The plain transcript with the edits that touch a term. *)
Merge(base, context) == IF context = "terms" THEN "terms" ELSE base

(* A window by itself: any error makes a failed row. *)
Alone(m) == {Failed} \cup
    CASE m = "off"   -> Plain
      [] m = "full"  -> (Context \ {"copy"}) \cup Plain
      [] m = "merge" -> {Merge(b, c) : b \in Plain, c \in Context}

(* A window of a batch, before copies are asked for again; after it.       *)
InBatch(m) == CASE m = "off"   -> Plain
                [] m = "full"  -> Context
                [] m = "merge" -> {Merge(b, c) : b \in Plain, c \in Context}
Again(answer) == IF answer = "copy" THEN Alone("off") ELSE {answer}

(* The answers of a batch are told apart by their place in the list, so    *)
(* that the list must be as long as the batch, or else every window is     *)
(* transcribed by itself.                                                  *)
SizeMatches(batch, list) == Len(list) = Len(batch)
RowOf(n, text, of) == IF text = Failed THEN Row("failed", "", segs[n].heard)
                      ELSE Row("completed", text, of)
Adopt(new) == transcripts' =
    [n \in DOMAIN transcripts \cup DOMAIN new |-> IF n \in DOMAIN new THEN new[n] ELSE transcripts[n]]
Answered(batch) ==
    /\ remaining' = remaining \ ToSet(batch)
    /\ UNCHANGED <<recording, setting, segs, wavs, limits, room, mode, at, commands, excused>>

(* The list is of the whole batch, or not of the first window.             *)
BatchAnswer(batch, list) ==
    LET count == AtMost(Len(batch), Len(list))
    IN  /\ at = "transcribing" /\ Len(batch) > 1 /\ ~TooLarge(batch) /\ SizeMatches(batch, list)
        /\ Answered(batch)
        /\ \E text \in [1..count -> UNION {Again(a) : a \in InBatch(mode)}] :
             Adopt([n \in {batch[i] : i \in 1..count} |->
                    LET i == CHOOSE i \in 1..count : batch[i] = n
                    IN  RowOf(n, text[i], wavs[list[i]])])

OneByOne(batch) ==
    /\ at = "transcribing" /\ ~TooLarge(batch)
    /\ Answered(batch)
    /\ \E text \in [ToSet(batch) -> Alone(mode)] :
         Adopt([n \in ToSet(batch) |-> RowOf(n, text[n], wavs[n])])

Finish ==
    /\ at = "transcribing" /\ remaining = {}
    /\ at' = "idle" /\ limits' = NoLimits /\ room' = 0 /\ mode' = "off"
    /\ UNCHANGED <<recording, setting, segs, wavs, transcripts, remaining, commands, excused>>

Run == \/ OutOfMemory \/ Finish
       \/ \E batch \in NextBatches :
            OneByOne(batch) \/ \E list \in {batch, Tail(batch)} : BatchAnswer(batch, list)
Next == \/ \E s \in Settings, f \in BOOLEAN : Prepare(s, f)
        \/ \E f \in BOOLEAN, m \in Modes : Transcribe(f, m)
        \/ Run

Spec == Init /\ [][Next]_vars /\ WF_vars(Run)
-----------------------------------------------------------------------------
(* What the detector marked, but for runs too short, is in a window that   *)
(* will be transcribed, and so is all between, with the margins.           *)
Heard(t) == \E n \in Numbers : segs[n].heard.start <= t /\ t < segs[n].heard.end
SpeechIsHeard ==
    segs # <<>> =>
    /\ \A w \in Runs(recording.speech) :
           Length(w) >= MinSpeech => \A t \in w.start..(w.end - 1) : Heard(t)
    /\ LET regions == SpeechRegions(recording)
       IN  regions # <<>> => \A t \in regions[1].start..(Last(regions).end - 1) : Heard(t)

(* A row's text was heard in the window the row stands for.  Not so after  *)
(* prepare cut other windows, until all are transcribed by force from audio*)
(* files that are of them (README, divergences): neither the rows nor,     *)
(* without force, the audio files go.                                      *)
RowIsOfItsWindow ==
    \A n \in Completed \cap Numbers : excused = {} => transcripts[n].of = segs[n].heard

(* A run of transcribe ends, however often the memory runs out, and then *)
(* no window is without a row.                                             *)
EveryWindowEnds ==
    (at = "transcribing") ~> (at = "idle" /\ Numbers \subseteq DOMAIN transcripts)
=============================================================================
