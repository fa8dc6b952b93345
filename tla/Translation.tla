----------------------------- MODULE Translation -----------------------------
(***************************************************************************)
(* The translate stage: run_translate_stage (optimizer_bridge_stages.py),  *)
(* the thread pool and agent loop of SubtitleTranslator                    *)
(* (optimizer/translator.py) and what the LLM client makes of a provider's *)
(* replies (optimizer/llm_client.py, gemini_native.py).  The cues are      *)
(* translated in chunks, each by a thread of the pool; the threads share   *)
(* is_running and the time until which a 429 holds all of them back.  Time *)
(* is counted in units of a delay and passes in Tick.                      *)
(***************************************************************************)
EXTENDS Naturals, FiniteSets

CONSTANTS NChunks,     \* the number of chunks
          Threads,     \* thread_num
          MaxSteps,    \* MAX_STEPS
          BaseDelay,   \* RATE_LIMIT_BASE_DELAY and CONNECTION_BASE_DELAY
          MaxDelay,    \* MAX_DELAY
          Native       \* the provider is spoken to by Gemini's own protocol

ASSUME TranslationAssumption ==
    /\ NChunks \in Nat \ {0} /\ Threads \in Nat \ {0} /\ MaxSteps \in Nat \ {0}
    /\ BaseDelay \in Nat \ {0} /\ MaxDelay \in Nat /\ BaseDelay <= MaxDelay
    /\ Native \in BOOLEAN

Chunks == 1..NChunks

VARIABLES main,       \* where run_translate_stage is
          next,       \* the chunk to be submitted next
          running,    \* is_running
          cool,       \* time left until _cooldown_until
          chunk,      \* chunk[c]: its future and the locals of its agent loop
          manifest    \* the cues of each chunk in translated_segments.json

vars == <<main, next, running, cool, chunk, manifest>>

(* What is known of the translations of a chunk: there are none, "{}" was  *)
(* answered, something is missing, only kana are left in them, all good.   *)
Results == {"none", "blank", "incomplete", "kana", "good"}
InLoop  == {"wait", "call", "rate", "connection", "judge"}
Settled == {"done", "failed", "cancelled"}

New == [pc |-> "new", step |-> 0, last |-> "none", rate |-> BaseDelay,
        connection |-> BaseDelay, sleep |-> 0]
Entry == [text : {"none", "kana", "good"}, review : BOOLEAN]
Unwritten == [c \in Chunks |-> [text |-> "none", review |-> FALSE]]

Init == /\ main = IF NChunks > 1 THEN "prewarm" ELSE "submit"
        /\ next = 1
        /\ running = TRUE
        /\ cool = 0
        /\ chunk = [c \in Chunks |-> New]
        /\ manifest = Unwritten
-----------------------------------------------------------------------------
(* The client.  A provider refuses or breaks off in one of these ways, or  *)
(* answers: with no text, with text that is no dictionary, or with one.    *)
Broken  == {"unauthorized", "http429", "upstream", "timeout", "refused",
            "http400", "http500", "other"}
Answers == {"empty", "text", "blank", "incomplete", "kana", "good"}

(* The exception _do_llm_call raises, and generate_content.                *)
RaisedByOpenAI(reply) ==
    CASE reply \in {"http429", "upstream"} -> "rate"
      [] reply \in {"timeout", "refused", "http400", "http500"} -> "connection"
      [] OTHER -> "error"
RaisedByGemini(reply) ==
    CASE reply \in {"http429", "upstream", "http500"} -> "rate"
      [] reply \in {"timeout", "refused", "http400"} -> "connection"
      [] OTHER -> "error"
Raised(reply) == IF Native THEN RaisedByGemini(reply) ELSE RaisedByOpenAI(reply)

(* call_llm: an HTTP 400 is followed by one request without the optional   *)
(* parameters; an answer without text is an exception too.                 *)
Outcome(reply, again) ==
    LET final == IF reply = "http400" /\ ~Native THEN again ELSE reply IN
    CASE final \in Broken -> Raised(final)
      [] final = "empty" -> "error"
      [] OTHER -> final
Outcomes == {Outcome(r, a) : r \in Broken \cup Answers, a \in Broken \cup Answers}
-----------------------------------------------------------------------------
(* The stage. *)
Main(from, to) == main = from /\ main' = to

(* A request that fills the provider's cache; what becomes of it is all one. *)
Prewarm ==
    /\ Main("prewarm", "submit")
    /\ UNCHANGED <<next, running, cool, chunk, manifest>>

Submit ==
    /\ running /\ next <= NChunks
    /\ Main("submit", IF next = NChunks THEN "collect" ELSE "submit")
    /\ next' = next + 1
    /\ chunk' = [chunk EXCEPT ![next].pc = "queued"]
    /\ UNCHANGED <<running, cool, manifest>>

Succeeded == {c \in Chunks : chunk[c].pc = "done"}
Over(c) == chunk[c].pc \in Settled

(* stop: the threads are told, what no thread has begun is cancelled and   *)
(* what one has begun is waited for ("stopping").                          *)
StopPool == /\ running' = FALSE
            /\ chunk' = [c \in Chunks |->
                         IF chunk[c].pc = "queued" THEN [chunk[c] EXCEPT !.pc = "cancelled"]
                         ELSE chunk[c]]

(* as_completed has yielded every future; translate raises if none of the  *)
(* chunks is translated.                                                   *)
AnyAtAll     == TRUE
AnySucceeded == Succeeded # {}

Collect ==
    /\ \A c \in Chunks : Over(c)
    /\ Main("collect", IF AnySucceeded THEN "manifest" ELSE "error")
    /\ StopPool
    /\ UNCHANGED <<next, cool, manifest>>

(* An interrupt of the main thread: the finally clause, then it goes on up. *)
Interrupt ==
    /\ main \in {"prewarm", "submit", "collect"}
    /\ main' = "stopping"
    /\ StopPool
    /\ UNCHANGED <<next, cool, manifest>>

Stopped ==
    /\ \A c \in Chunks : chunk[c].pc \in Settled \cup {"new"}
    /\ Main("stopping", "error")
    /\ UNCHANGED <<next, running, cool, chunk, manifest>>

(* What _translate_chunk has set on the cues of a chunk, and the manifest's *)
(* entries: kana left in a translation make the cue a suspect that is to   *)
(* be reviewed by ear.                                                     *)
Translated(c) == IF chunk[c].pc = "done" /\ chunk[c].last \in {"kana", "good"}
                 THEN chunk[c].last ELSE "none"
Suspect(text) == text = "kana"
EntryOf(c) == [text |-> Translated(c), review |-> Suspect(Translated(c))]

WriteManifest ==
    /\ Main("manifest", "srt")
    /\ manifest' = [c \in Chunks |-> EntryOf(c)]
    /\ UNCHANGED <<next, running, cool, chunk>>

WriteSrt ==
    /\ Main("srt", "over")
    /\ UNCHANGED <<next, running, cool, chunk, manifest>>
-----------------------------------------------------------------------------
(* The agent loop of a chunk. *)
Go(c, from, to) == chunk[c].pc = from /\ chunk' = [chunk EXCEPT ![c].pc = to]
Rest == <<main, next, running, manifest>>

Start(c) ==
    /\ Cardinality({d \in Chunks : chunk[d].pc \in InLoop}) < Threads
    /\ \A d \in Chunks : d < c => chunk[d].pc # "queued"
    /\ Go(c, "queued", "wait")
    /\ UNCHANGED <<Rest, cool>>

(* The rest of the loop after a step: it ends after MAX_STEPS.             *)
Again(steps) == IF steps < MaxSteps THEN "wait" ELSE "judge"

(* _wait_for_cooldown, the checks of is_running around it, and the request. *)
Cool == cool = 0 \/ ~running

Request(c) ==
    /\ Cool
    /\ Go(c, "wait", IF running THEN "call" ELSE "judge")
    /\ UNCHANGED <<Rest, cool>>

LongerOf(a, b) == IF a > b THEN a ELSE b
Doubled(d)     == IF 2 * d > MaxDelay THEN MaxDelay ELSE 2 * d

SetCooldownLast(seconds) == cool' = seconds
SetCooldown(seconds)     == cool' = LongerOf(cool, seconds)

UsesUpUnlimited(c) == chunk[c].step
UsesUp(c)          == chunk[c].step + 1

(* 429 or an upstream failure: all threads are held back, this one sleeps. *)
RateLimited(c) ==
    /\ chunk[c].pc = "call" /\ "rate" \in Outcomes
    /\ SetCooldown(chunk[c].rate)
    /\ chunk' = [chunk EXCEPT ![c] = [@ EXCEPT
            !.pc = "rate", !.step = UsesUp(c), !.sleep = chunk[c].rate,
            !.rate = Doubled(chunk[c].rate)]]
    /\ UNCHANGED Rest

ConnectionFails(c) ==
    /\ chunk[c].pc = "call" /\ "connection" \in Outcomes
    /\ chunk' = [chunk EXCEPT ![c] = [@ EXCEPT
            !.pc = "connection", !.step = UsesUp(c), !.sleep = chunk[c].connection,
            !.connection = Doubled(chunk[c].connection)]]
    /\ UNCHANGED <<Rest, cool>>

(* Any other exception, or text that is no dictionary. *)
Useless(c) ==
    /\ chunk[c].pc = "call" /\ {"error", "text"} \cap Outcomes # {}
    /\ chunk' = [chunk EXCEPT ![c] = [@ EXCEPT !.pc = Again(UsesUp(c)), !.step = UsesUp(c)]]
    /\ UNCHANGED <<Rest, cool>>

(* A dictionary: the delays start anew; it is returned if it is valid and  *)
(* else sent back with what is wrong with it.                              *)
Answer(c) ==
    /\ chunk[c].pc = "call"
    /\ \E result \in Outcomes \cap Results :
          chunk' = [chunk EXCEPT ![c] = [@ EXCEPT
              !.pc = IF result = "good" THEN "done" ELSE Again(UsesUp(c)), !.step = UsesUp(c),
              !.last = result, !.rate = BaseDelay, !.connection = BaseDelay]]
    /\ UNCHANGED <<Rest, cool>>

(* After the loop.  No dictionary, or an incomplete one, fails the chunk;  *)
(* one in which only kana are left is kept; "{}" is falsy, so that it is   *)
(* neither validated nor None, and counts as a result.                     *)
Kept == {"blank", "kana", "good"}

Judge(c) ==
    /\ Go(c, "judge", IF chunk[c].last \in Kept THEN "done" ELSE "failed")
    /\ UNCHANGED <<Rest, cool>>

(* _sleep_interruptible *)
Awake(c) ==
    /\ chunk[c].pc \in {"rate", "connection"}
    /\ chunk[c].sleep = 0 \/ ~running
    /\ chunk' = [chunk EXCEPT ![c] = [@ EXCEPT !.pc = Again(chunk[c].step), !.sleep = 0]]
    /\ UNCHANGED <<Rest, cool>>

Tick ==
    /\ cool > 0 \/ \E c \in Chunks : chunk[c].sleep > 0
    /\ cool' = IF cool > 0 THEN cool - 1 ELSE 0
    /\ chunk' = [c \in Chunks |-> [chunk[c] EXCEPT !.sleep = IF @ > 0 THEN @ - 1 ELSE 0]]
    /\ UNCHANGED Rest

Thread(c) ==
    \/ Start(c) \/ Request(c) \/ Judge(c) \/ RateLimited(c)
    \/ ConnectionFails(c) \/ Useless(c) \/ Answer(c) \/ Awake(c)

Stage == Prewarm \/ Submit \/ Collect \/ Stopped \/ WriteManifest \/ WriteSrt

Next == Stage \/ Interrupt \/ Tick \/ \E c \in Chunks : Thread(c)

(* The main thread and the threads of the pool are scheduled, requests end *)
(* by their timeout, and time passes.                                      *)
Fairness == WF_vars(Stage) /\ WF_vars(Tick) /\ \A c \in Chunks : WF_vars(Thread(c))

Spec == Init /\ [][Next]_vars /\ Fairness
-----------------------------------------------------------------------------
(* Every variable has its type. *)
TypeOK ==
    /\ main \in {"prewarm", "submit", "collect", "stopping", "manifest", "srt", "over", "error"}
    /\ next \in 1..NChunks + 1
    /\ running \in BOOLEAN
    /\ cool \in 0..MaxDelay
    /\ chunk \in [Chunks -> [pc : {"new", "queued"} \cup InLoop \cup Settled,
                             step : 0..MaxSteps, last : Results,
                             rate : BaseDelay..MaxDelay, connection : BaseDelay..MaxDelay,
                             sleep : 0..MaxDelay]]
    /\ manifest \in [Chunks -> Entry]

(* _set_global_cooldown, _wait_for_cooldown: while the stage is not being  *)
(* stopped, no thread goes on to its next request as long as another still *)
(* sleeps off a 429, however the delays of the two have grown.             *)
HeldBack ==
    [][\A c \in Chunks : running /\ chunk[c].pc = "wait" /\ chunk'[c].pc = "call" =>
         \A d \in Chunks : chunk[d].pc = "rate" => chunk[d].sleep = 0]_vars

(* The manifest is written only by a run that was not interrupted, when    *)
(* every chunk is settled and one is translated at least; a cue it leaves  *)
(* without translation is one of a chunk for which no usable dictionary    *)
(* came in MAX_STEPS attempts; a translation that may still hold source    *)
(* text is marked for review.                                              *)
ManifestIsHonest ==
    main \in {"srt", "over"} =>
        /\ \A c \in Chunks : chunk[c].pc \in {"done", "failed"}
        /\ Succeeded # {}
        /\ \A c \in Chunks :
             /\ manifest[c].text = "none" => /\ chunk[c].step = MaxSteps
                                             /\ chunk[c].last \notin {"kana", "good"}
             /\ manifest[c].text # "none" => chunk[c].last = manifest[c].text
             /\ manifest[c].text = "kana" => manifest[c].review

(* The stage ends whatever the provider answers, interrupted or not.       *)
StageEnds == <>(main \in {"over", "error"})

=============================================================================
