-------------------------- MODULE TranslationProofs --------------------------
(***************************************************************************)
(* Theorems about Translation, for every number of chunks, threads, steps  *)
(* and every delay, about MimoCalls, for every number of tasks and         *)
(* retries, and about Normalize, for every manifest and every parameter.   *)
(***************************************************************************)
EXTENDS MCTranslation, FiniteSetTheorems, SequenceTheorems, WellFoundedInduction, TLAPS

(* The stage.  A chunk that waits for its next request has a step left;    *)
(* unless the stage was interrupted, one that stops without a good         *)
(* dictionary has none left; a dictionary is kept or fails its chunk.      *)
Futures == [pc : {"new", "queued"} \cup InLoop \cup Settled, step : 0..MaxSteps, last : Results,
            rate : BaseDelay..MaxDelay, connection : BaseDelay..MaxDelay, sleep : 0..MaxDelay]

ChunkOK(r) ==
    /\ r.pc \in {"new", "queued"} => r.step = 0
    /\ r.pc \in {"wait", "call"} => r.step < MaxSteps
    /\ r.pc = "done" => r.last \in Kept
    /\ r.pc = "failed" => r.last \notin Kept

Spent(r) == r.pc \in {"judge", "failed"} \/ (r.pc = "done" /\ r.last # "good") => r.step = MaxSteps

StageIInv ==
    /\ TypeOK
    /\ \A c \in Chunks : ChunkOK(chunk[c])
    /\ \A c \in Chunks : chunk[c].pc = "rate" => chunk[c].sleep <= cool
    /\ main \in {"prewarm", "submit", "collect"} => running /\ \A c \in Chunks : chunk[c].pc # "cancelled"
    /\ main \in {"prewarm", "submit"} => \A c \in Chunks : c >= next => chunk[c].pc = "new"
    /\ main \notin {"stopping", "error"} => \A c \in Chunks : Spent(chunk[c])
    /\ main \in {"manifest", "srt", "over"} =>
         Succeeded # {} /\ \A c \in Chunks : chunk[c].pc \in {"done", "failed"}
    /\ main \in {"srt", "over"} => manifest = [c \in Chunks |-> EntryOf(c)]
-----------------------------------------------------------------------------
LEMMA InitStage == Init => StageIInv
<1> SUFFICES ASSUME Init PROVE StageIInv
  OBVIOUS
<1>1. New \in Futures /\ New.pc = "new" /\ New.step = 0 /\ New.last = "none"
  BY TranslationAssumption DEF New, Futures, InLoop, Settled, Results
<1>2. \A c \in Chunks : chunk[c] = New
  BY DEF Init
<1>3. TypeOK
  BY <1>1, TranslationAssumption DEF Init, TypeOK, Futures, Unwritten, Entry
<1> QED
  BY <1>1, <1>2, <1>3 DEF Init, StageIInv, ChunkOK, Spent

(* A step of the thread of a chunk. *)
LEMMA ThreadMoves ==
    ASSUME StageIInv, NEW c \in Chunks, chunk[c].pc \notin Settled \cup {"new"},
           NEW r \in Futures, ChunkOK(r),
           main \in {"prewarm", "submit", "collect"} => Spent(r), r.pc # "cancelled",
           chunk' = [chunk EXCEPT ![c] = r], UNCHANGED Rest,
           cool' \in cool..MaxDelay, r.pc = "rate" => r.sleep <= cool'
    PROVE  StageIInv'
<1>1. chunk'[c] = r /\ \A d \in Chunks \ {c} : chunk'[d] = chunk[d]
  BY DEF StageIInv, TypeOK
<1>2. TypeOK'
  BY TranslationAssumption DEF StageIInv, TypeOK, Futures, Rest
<1>3. \A d \in Chunks : chunk'[d].pc = "rate" => chunk'[d].sleep <= cool'
  <2>1. ASSUME NEW d \in Chunks, chunk[d].pc = "rate" PROVE chunk[d].sleep <= cool'
    <3>1. chunk[d].sleep \in Nat /\ cool \in Nat /\ cool' \in Nat /\ cool <= cool'
      BY TranslationAssumption DEF StageIInv, TypeOK
    <3> QED
      BY <2>1, <3>1 DEF StageIInv
  <2> QED
    BY <1>1, <2>1
<1>4. main \notin {"manifest", "srt", "over"}
  BY DEF StageIInv, Settled
<1>5. /\ main \in {"prewarm", "submit", "collect", "stopping", "error"}
      /\ UNCHANGED <<main, next, running>>
  BY <1>4 DEF StageIInv, TypeOK, Rest
<1> QED
  BY <1>1, <1>2, <1>3, <1>5 DEF StageIInv

LEMMA StepStart == ASSUME StageIInv, NEW c \in Chunks, Start(c) PROVE StageIInv'
<1> DEFINE r == [chunk[c] EXCEPT !.pc = "wait"]
<1>1. chunk[c] \in Futures /\ chunk[c].pc = "queued" /\ ChunkOK(chunk[c])
  BY DEF StageIInv, TypeOK, Futures, Start, Go
<1>2. r \in Futures /\ r.pc = "wait" /\ r.step = 0
  BY <1>1 DEF Futures, InLoop, ChunkOK
<1>3. chunk' = [chunk EXCEPT ![c] = r]
  BY <1>1 DEF StageIInv, TypeOK, Start, Go
<1> HIDE DEF r
<1>4. ChunkOK(r) /\ Spent(r) /\ cool' \in cool..MaxDelay
  BY <1>2, TranslationAssumption DEF ChunkOK, Spent, Start, StageIInv, TypeOK
<1> QED
  BY <1>1, <1>2, <1>3, <1>4, ThreadMoves DEF Start, Settled

LEMMA StepRequest == ASSUME StageIInv, NEW c \in Chunks, Request(c) PROVE StageIInv'
<1> DEFINE r == [chunk[c] EXCEPT !.pc = IF running THEN "call" ELSE "judge"]
<1>1. chunk[c] \in Futures /\ chunk[c].pc = "wait" /\ ChunkOK(chunk[c])
  BY DEF StageIInv, TypeOK, Futures, Request, Go
<1>2. r \in Futures /\ r.pc = (IF running THEN "call" ELSE "judge") /\ r.step = chunk[c].step
  BY <1>1 DEF Futures, InLoop
<1>3. chunk' = [chunk EXCEPT ![c] = r]
  BY <1>1 DEF StageIInv, TypeOK, Request, Go
<1> HIDE DEF r
<1>4. ChunkOK(r) /\ (main \in {"prewarm", "submit", "collect"} => Spent(r)) /\ cool' \in cool..MaxDelay
  BY <1>1, <1>2, TranslationAssumption DEF ChunkOK, Spent, Request, StageIInv, TypeOK
<1> QED
  BY <1>1, <1>2, <1>3, <1>4, ThreadMoves DEF Request, Settled

LEMMA StepJudge == ASSUME StageIInv, NEW c \in Chunks, Judge(c) PROVE StageIInv'
<1> DEFINE r == [chunk[c] EXCEPT !.pc = IF chunk[c].last \in Kept THEN "done" ELSE "failed"]
<1>1. /\ chunk[c] \in Futures /\ chunk[c].pc = "judge" /\ ChunkOK(chunk[c])
      /\ main \notin {"stopping", "error"} => Spent(chunk[c])
  BY DEF StageIInv, TypeOK, Futures, Judge, Go
<1>2. /\ r \in Futures /\ r.pc = (IF chunk[c].last \in Kept THEN "done" ELSE "failed")
      /\ r.step = chunk[c].step /\ r.last = chunk[c].last
  BY <1>1 DEF Futures, Settled
<1>3. chunk' = [chunk EXCEPT ![c] = r]
  BY <1>1 DEF StageIInv, TypeOK, Judge, Go
<1> HIDE DEF r
<1>4. ChunkOK(r) /\ cool' \in cool..MaxDelay
  BY <1>2, TranslationAssumption DEF ChunkOK, Judge, StageIInv, TypeOK
<1>5. main \notin {"stopping", "error"} => Spent(r)
  BY <1>1, <1>2 DEF Spent
<1> QED
  BY <1>1, <1>2, <1>3, <1>4, <1>5, ThreadMoves DEF Judge, Settled

LEMMA DelaysGrow == ASSUME NEW d \in BaseDelay..MaxDelay PROVE Doubled(d) \in BaseDelay..MaxDelay
BY TranslationAssumption DEF Doubled

LEMMA AgainIs ==
    ASSUME NEW n \in 0..MaxSteps
    PROVE  /\ Again(n) = "wait" => n < MaxSteps
           /\ Again(n) = "judge" => n = MaxSteps
           /\ Again(n) \in {"wait", "judge"}
BY TranslationAssumption DEF Again

(* What a thread in a request has still left. *)
LEMMA InCall ==
    ASSUME StageIInv, NEW c \in Chunks, chunk[c].pc = "call"
    PROVE  chunk[c] \in Futures /\ ChunkOK(chunk[c]) /\ UsesUp(c) \in 0..MaxSteps
BY TranslationAssumption DEF StageIInv, TypeOK, Futures, ChunkOK, UsesUp

LEMMA StepRateLimited == ASSUME StageIInv, NEW c \in Chunks, RateLimited(c) PROVE StageIInv'
<1> DEFINE r == [chunk[c] EXCEPT !.pc = "rate", !.step = UsesUp(c), !.sleep = chunk[c].rate,
                                 !.rate = Doubled(chunk[c].rate)]
<1>1. chunk[c] \in Futures /\ chunk[c].pc = "call" /\ UsesUp(c) \in 0..MaxSteps
  BY InCall DEF RateLimited
<1>2. Doubled(chunk[c].rate) \in BaseDelay..MaxDelay /\ chunk[c].rate \in 0..MaxDelay
  BY <1>1, DelaysGrow, TranslationAssumption DEF Futures
<1>3. r \in Futures /\ r.pc = "rate" /\ r.sleep = chunk[c].rate
  BY <1>1, <1>2 DEF Futures, InLoop
<1>4. chunk' = [chunk EXCEPT ![c] = r]
  BY DEF RateLimited
<1> HIDE DEF r
<1>5. ChunkOK(r) /\ Spent(r)
  BY <1>3 DEF ChunkOK, Spent
<1>6. cool' \in cool..MaxDelay /\ r.sleep <= cool'
  BY <1>2, <1>3, TranslationAssumption DEF RateLimited, SetCooldown, LongerOf, StageIInv, TypeOK
<1> QED
  BY <1>1, <1>3, <1>4, <1>5, <1>6, ThreadMoves DEF RateLimited, Settled

LEMMA StepConnectionFails == ASSUME StageIInv, NEW c \in Chunks, ConnectionFails(c) PROVE StageIInv'
<1> DEFINE r == [chunk[c] EXCEPT !.pc = "connection", !.step = UsesUp(c),
                                 !.sleep = chunk[c].connection,
                                 !.connection = Doubled(chunk[c].connection)]
<1>1. chunk[c] \in Futures /\ chunk[c].pc = "call" /\ UsesUp(c) \in 0..MaxSteps
  BY InCall DEF ConnectionFails
<1>2. Doubled(chunk[c].connection) \in BaseDelay..MaxDelay /\ chunk[c].connection \in 0..MaxDelay
  BY <1>1, DelaysGrow, TranslationAssumption DEF Futures
<1>3. r \in Futures /\ r.pc = "connection"
  BY <1>1, <1>2 DEF Futures, InLoop
<1>4. chunk' = [chunk EXCEPT ![c] = r]
  BY DEF ConnectionFails
<1> HIDE DEF r
<1>5. ChunkOK(r) /\ Spent(r) /\ cool' \in cool..MaxDelay
  BY <1>3, TranslationAssumption DEF ChunkOK, Spent, ConnectionFails, StageIInv, TypeOK
<1> QED
  BY <1>1, <1>3, <1>4, <1>5, ThreadMoves DEF ConnectionFails, Settled

LEMMA StepUseless == ASSUME StageIInv, NEW c \in Chunks, Useless(c) PROVE StageIInv'
<1> DEFINE r == [chunk[c] EXCEPT !.pc = Again(UsesUp(c)), !.step = UsesUp(c)]
<1>1. chunk[c] \in Futures /\ chunk[c].pc = "call" /\ UsesUp(c) \in 0..MaxSteps
  BY InCall DEF Useless
<1>2. /\ Again(UsesUp(c)) \in {"wait", "judge"}
      /\ Again(UsesUp(c)) = "wait" => UsesUp(c) < MaxSteps
      /\ Again(UsesUp(c)) = "judge" => UsesUp(c) = MaxSteps
  BY <1>1, AgainIs
<1>3. r \in Futures /\ r.pc = Again(UsesUp(c)) /\ r.step = UsesUp(c)
  BY <1>1, <1>2 DEF Futures, InLoop
<1>4. chunk' = [chunk EXCEPT ![c] = r]
  BY DEF Useless
<1> HIDE DEF r
<1>5. ChunkOK(r) /\ Spent(r) /\ cool' \in cool..MaxDelay
  BY <1>2, <1>3, TranslationAssumption DEF ChunkOK, Spent, Useless, StageIInv, TypeOK
<1> QED
  BY <1>1, <1>2, <1>3, <1>4, <1>5, ThreadMoves DEF Useless, Settled

LEMMA StepAnswer == ASSUME StageIInv, NEW c \in Chunks, Answer(c) PROVE StageIInv'
<1>1. chunk[c] \in Futures /\ chunk[c].pc = "call" /\ UsesUp(c) \in 0..MaxSteps
  BY InCall DEF Answer
<1>2. PICK result \in Results :
        chunk' = [chunk EXCEPT ![c] = [@ EXCEPT
            !.pc = IF result = "good" THEN "done" ELSE Again(UsesUp(c)), !.step = UsesUp(c),
            !.last = result, !.rate = BaseDelay, !.connection = BaseDelay]]
  BY DEF Answer
<1> DEFINE pc == IF result = "good" THEN "done" ELSE Again(UsesUp(c))
           r == [chunk[c] EXCEPT !.pc = pc, !.step = UsesUp(c), !.last = result,
                                 !.rate = BaseDelay, !.connection = BaseDelay]
<1>3. /\ pc \in {"wait", "judge", "done"}
      /\ pc = "wait" => UsesUp(c) < MaxSteps
      /\ pc = "judge" => UsesUp(c) = MaxSteps
      /\ pc = "done" => result = "good"
  BY <1>1, AgainIs
<1>4. chunk' = [chunk EXCEPT ![c] = r]
  BY <1>2
<1> HIDE DEF pc
<1>5. r \in Futures /\ r.pc = pc /\ r.step = UsesUp(c) /\ r.last = result
  <2>1. pc \in {"new", "queued"} \cup InLoop \cup Settled /\ BaseDelay \in BaseDelay..MaxDelay
    BY <1>3, TranslationAssumption DEF InLoop, Settled
  <2> QED
    BY <1>1, <2>1 DEF Futures
<1> HIDE DEF r
<1>6. ChunkOK(r) /\ Spent(r) /\ cool' \in cool..MaxDelay
  BY <1>3, <1>5, TranslationAssumption DEF ChunkOK, Spent, Kept, Answer, StageIInv, TypeOK
<1> QED
  BY <1>1, <1>3, <1>4, <1>5, <1>6, ThreadMoves DEF Answer, Settled

LEMMA StepAwake == ASSUME StageIInv, NEW c \in Chunks, Awake(c) PROVE StageIInv'
<1> DEFINE n == chunk[c].step
           r == [chunk[c] EXCEPT !.pc = Again(n), !.sleep = 0]
<1>1. chunk[c] \in Futures /\ chunk[c].pc \in {"rate", "connection"} /\ n \in 0..MaxSteps
  BY DEF StageIInv, TypeOK, Futures, Awake
<1>2. /\ Again(n) \in {"wait", "judge"}
      /\ Again(n) = "wait" => n < MaxSteps
      /\ Again(n) = "judge" => n = MaxSteps
  BY <1>1, AgainIs
<1>3. r \in Futures /\ r.pc = Again(n) /\ r.step = n
  <2>1. 0 \in 0..MaxDelay /\ Again(n) \in {"new", "queued"} \cup InLoop \cup Settled
    BY <1>2, TranslationAssumption DEF InLoop
  <2> HIDE DEF n
  <2>2. chunk[c].step = n
    BY DEF n
  <2> QED
    BY <1>1, <2>1, <2>2 DEF Futures
<1>4. chunk' = [chunk EXCEPT ![c] = r]
  BY DEF Awake
<1> HIDE DEF r
<1>5. ChunkOK(r) /\ Spent(r) /\ cool' \in cool..MaxDelay
  BY <1>2, <1>3, TranslationAssumption DEF ChunkOK, Spent, Awake, StageIInv, TypeOK
<1> QED
  BY <1>1, <1>2, <1>3, <1>4, <1>5, ThreadMoves DEF Awake, Settled
-----------------------------------------------------------------------------
LEMMA StepSubmit == ASSUME StageIInv, Submit PROVE StageIInv'
<1>1. /\ next \in Chunks /\ next' = next + 1 /\ next' \in 1..NChunks + 1
      /\ main = "submit" /\ main' \in {"submit", "collect"}
      /\ UNCHANGED <<running, cool, manifest>>
  BY TranslationAssumption DEF StageIInv, TypeOK, Submit, Main, Chunks
<1> DEFINE r == [chunk[next] EXCEPT !.pc = "queued"]
<1>2. chunk[next] \in Futures /\ chunk[next].pc = "new" /\ ChunkOK(chunk[next])
  BY <1>1 DEF StageIInv, TypeOK, Futures, Chunks
<1>3. chunk' = [chunk EXCEPT ![next] = r]
  BY <1>1, <1>2 DEF Submit, StageIInv, TypeOK
<1>4. r \in Futures /\ r.pc = "queued" /\ r.step = 0
  BY <1>2 DEF Futures, ChunkOK
<1> HIDE DEF r
<1>5. chunk'[next] = r /\ \A d \in Chunks \ {next} : chunk'[d] = chunk[d]
  BY <1>1, <1>3 DEF StageIInv, TypeOK
<1>6. TypeOK'
  BY <1>1, <1>3, <1>4 DEF StageIInv, TypeOK, Futures
<1>7. \A c \in Chunks : /\ ChunkOK(chunk'[c]) /\ Spent(chunk'[c]) /\ chunk'[c].pc # "cancelled"
                        /\ chunk'[c].pc = "rate" => chunk'[c].sleep <= cool'
  BY <1>1, <1>4, <1>5 DEF StageIInv, ChunkOK, Spent
<1>8. \A c \in Chunks : c >= next' => chunk'[c].pc = "new"
  BY <1>1, <1>5 DEF StageIInv, Chunks
<1> QED
  BY <1>1, <1>6, <1>7, <1>8 DEF StageIInv

(* What stopping the pool does to a chunk. *)
LEMMA PoolStops ==
    ASSUME StageIInv, StopPool
    PROVE  /\ running' = FALSE /\ chunk' \in [Chunks -> Futures]
           /\ \A c \in Chunks : \/ chunk'[c] = chunk[c]
                                \/ chunk[c].pc = "queued" /\ chunk'[c].pc = "cancelled"
           /\ \A c \in Chunks : /\ ChunkOK(chunk'[c])
                                /\ chunk'[c].pc = "rate" => chunk'[c].sleep <= cool
<1>1. ASSUME NEW c \in Chunks, chunk[c].pc = "queued"
      PROVE  /\ [chunk[c] EXCEPT !.pc = "cancelled"] \in Futures
             /\ [chunk[c] EXCEPT !.pc = "cancelled"].pc = "cancelled"
  BY DEF StageIInv, TypeOK, Futures, Settled
<1>2. \A c \in Chunks : chunk[c] \in Futures
  BY DEF StageIInv, TypeOK, Futures
<1>3. \A c \in Chunks : chunk'[c] = IF chunk[c].pc = "queued" THEN [chunk[c] EXCEPT !.pc = "cancelled"]
                                    ELSE chunk[c]
  BY DEF StopPool
<1>4. running' = FALSE /\ DOMAIN chunk' = Chunks /\ chunk' = [c \in Chunks |-> chunk'[c]]
  BY DEF StopPool
<1>5. \A c \in Chunks : \/ chunk'[c] = chunk[c]
                        \/ chunk[c].pc = "queued" /\ chunk'[c].pc = "cancelled"
  BY <1>1, <1>3
<1>6. \A c \in Chunks : chunk'[c] \in Futures
  BY <1>1, <1>2, <1>3
<1> QED
  BY <1>4, <1>5, <1>6 DEF StageIInv, ChunkOK

LEMMA StepCollect == ASSUME StageIInv, Collect PROVE StageIInv'
<1>1. /\ main = "collect" /\ main' \in {"manifest", "error"} /\ StopPool
      /\ main' = "manifest" => Succeeded # {}
      /\ UNCHANGED <<next, cool, manifest>>
      /\ \A c \in Chunks : chunk[c].pc \in Settled
  BY DEF Collect, Main, AnySucceeded, Over
<1>2. \A c \in Chunks : chunk'[c] = chunk[c] /\ chunk[c].pc \in {"done", "failed"}
  BY <1>1, PoolStops DEF Settled, StageIInv
<1>3. Succeeded' = Succeeded
  BY <1>2 DEF Succeeded
<1>4. TypeOK'
  BY <1>1, PoolStops DEF StageIInv, TypeOK, Futures
<1> QED
  BY <1>1, <1>2, <1>3, <1>4 DEF StageIInv

LEMMA StepInterrupt == ASSUME StageIInv, Interrupt PROVE StageIInv'
<1>1. main' = "stopping" /\ StopPool /\ UNCHANGED <<next, cool, manifest>>
  BY DEF Interrupt
<1>2. TypeOK'
  BY <1>1, PoolStops DEF StageIInv, TypeOK, Futures
<1> QED
  BY <1>1, <1>2, PoolStops DEF StageIInv

LEMMA StepWriteManifest == ASSUME StageIInv, WriteManifest PROVE StageIInv'
<1>1. /\ main = "manifest" /\ main' = "srt" /\ UNCHANGED <<next, running, cool, chunk>>
      /\ manifest' = [c \in Chunks |-> EntryOf(c)]
  BY DEF WriteManifest, Main
<1>2. \A c \in Chunks : EntryOf(c) \in Entry
  BY DEF EntryOf, Entry, Translated, Suspect
<1>3. TypeOK' /\ Succeeded' = Succeeded
  BY <1>1, <1>2 DEF StageIInv, TypeOK, Succeeded
<1>4. \A c \in Chunks : EntryOf(c)' = EntryOf(c)
  BY <1>1 DEF EntryOf, Translated
<1> QED
  BY <1>1, <1>3, <1>4 DEF StageIInv

(* The steps of the stage that only go on. *)
LEMMA StepGoOn ==
    ASSUME StageIInv, Prewarm \/ Stopped \/ WriteSrt PROVE StageIInv'
<1>1. /\ UNCHANGED <<next, running, cool, chunk, manifest>>
      /\ \/ main = "prewarm" /\ main' = "submit"
         \/ main' = "error"
         \/ main = "srt" /\ main' = "over"
  BY DEF Prewarm, Stopped, WriteSrt, Main
<1>2. TypeOK' /\ Succeeded' = Succeeded /\ \A c \in Chunks : EntryOf(c)' = EntryOf(c)
  BY <1>1 DEF StageIInv, TypeOK, Succeeded, EntryOf, Translated
<1> QED
  BY <1>1, <1>2 DEF StageIInv

LEMMA StepTick == ASSUME StageIInv, Tick PROVE StageIInv'
<1> DEFINE r(c) == [chunk[c] EXCEPT !.sleep = IF @ > 0 THEN @ - 1 ELSE 0]
           less(n) == IF n > 0 THEN n - 1 ELSE 0
<1>1. UNCHANGED Rest /\ cool' = less(cool) /\ chunk' = [c \in Chunks |-> r(c)]
  BY DEF Tick
<1>2. \A n \in 0..MaxDelay : less(n) \in 0..MaxDelay
  BY TranslationAssumption
<1>3. \A m, n \in 0..MaxDelay : m <= n => less(m) <= less(n)
  BY TranslationAssumption
<1>4. ASSUME NEW c \in Chunks
      PROVE  /\ r(c) \in Futures /\ r(c).pc = chunk[c].pc /\ r(c).step = chunk[c].step
             /\ r(c).last = chunk[c].last /\ r(c).sleep = less(chunk[c].sleep)
  <2>1. chunk[c] \in Futures
    BY DEF StageIInv, TypeOK, Futures
  <2>2. r(c) = [chunk[c] EXCEPT !.sleep = less(chunk[c].sleep)]
    OBVIOUS
  <2>3. less(chunk[c].sleep) \in 0..MaxDelay
    BY <1>2, <2>1 DEF Futures
  <2> HIDE DEF r, less
  <2> QED
    BY <2>1, <2>2, <2>3 DEF Futures
<1> HIDE DEF r, less
<1>5. TypeOK'
  BY <1>1, <1>2, <1>4 DEF StageIInv, TypeOK, Futures, Rest
<1>6. \A c \in Chunks : chunk'[c] = r(c)
  BY <1>1
<1>7. ASSUME NEW c \in Chunks, chunk'[c].pc = "rate" PROVE chunk'[c].sleep <= cool'
  <2>1. chunk[c].sleep \in 0..MaxDelay /\ cool \in 0..MaxDelay /\ chunk[c].sleep <= cool
    BY <1>4, <1>6, <1>7 DEF StageIInv, TypeOK
  <2> QED
    BY <1>1, <1>3, <1>4, <1>6, <2>1
<1>8. Succeeded' = Succeeded /\ \A c \in Chunks : EntryOf(c)' = EntryOf(c)
  BY <1>4, <1>6 DEF Succeeded, EntryOf, Translated
<1>9. \A c \in Chunks : ChunkOK(chunk'[c]) /\ (Spent(chunk[c]) => Spent(chunk'[c]))
  BY <1>4, <1>6 DEF ChunkOK, Spent, StageIInv
<1> QED
  BY <1>1, <1>4, <1>5, <1>6, <1>7, <1>8, <1>9 DEF StageIInv, Rest

LEMMA StepStage == StageIInv /\ [Next]_vars => StageIInv'
<1> SUFFICES ASSUME StageIInv, [Next]_vars PROVE StageIInv'
  OBVIOUS
<1>1. CASE Next
  BY <1>1, StepSubmit, StepCollect, StepInterrupt, StepWriteManifest, StepGoOn, StepTick, StepStart,
     StepRequest, StepJudge, StepRateLimited, StepConnectionFails, StepUseless, StepAnswer, StepAwake
     DEF Next, Stage, Thread
<1>2. CASE UNCHANGED vars
  BY <1>2 DEF vars, StageIInv, TypeOK, Succeeded, EntryOf, Translated
<1> QED
  BY <1>1, <1>2

LEMMA StageIInvMeansHonest == StageIInv => ManifestIsHonest
<1> SUFFICES ASSUME StageIInv, main \in {"srt", "over"} PROVE ManifestIsHonest
  BY DEF ManifestIsHonest
<1>0. Succeeded # {} /\ \A c \in Chunks : chunk[c].pc \in {"done", "failed"}
  BY DEF StageIInv
<1> SUFFICES ASSUME NEW c \in Chunks
             PROVE  /\ manifest[c].text = "none" => /\ chunk[c].step = MaxSteps
                                                    /\ chunk[c].last \notin {"kana", "good"}
                    /\ manifest[c].text # "none" => chunk[c].last = manifest[c].text
                    /\ manifest[c].text = "kana" => manifest[c].review
  BY <1>0 DEF ManifestIsHonest
<1>1. /\ chunk[c].pc \in {"done", "failed"} /\ Succeeded # {}
      /\ ChunkOK(chunk[c]) /\ Spent(chunk[c])
      /\ manifest[c] = EntryOf(c)
  BY DEF StageIInv
<1>2. manifest[c].text = Translated(c) /\ manifest[c].review = Suspect(Translated(c))
  BY <1>1 DEF EntryOf
<1> QED
  BY <1>1, <1>2 DEF Translated, Suspect, ChunkOK, Spent, Kept

(* A thread comes to its next request in no other way. *)
LEMMA OnlyRequest ==
    ASSUME StageIInv, [Next]_vars, NEW c \in Chunks, chunk[c].pc = "wait", chunk'[c].pc = "call"
    PROVE  Request(c)
<1>1. \A d \in Chunks : chunk[d] \in Futures
  BY DEF StageIInv, TypeOK, Futures
<1>2. chunk' # chunk
  OBVIOUS
<1>3. ASSUME StopPool PROVE FALSE
  BY <1>3, PoolStops
<1>4. ASSUME Submit PROVE FALSE
  <2>1. next \in Chunks /\ chunk' = [chunk EXCEPT ![next].pc = "queued"]
    BY <1>4, TranslationAssumption DEF Submit, StageIInv, TypeOK, Chunks
  <2> QED
    BY <1>1, <2>1 DEF Futures, StageIInv, TypeOK
<1>5. ASSUME Tick PROVE FALSE
  BY <1>1, <1>5 DEF Tick, Futures
<1>6. ASSUME NEW d \in Chunks, Thread(d), chunk'[d].pc # "call" \/ chunk[d].pc # "wait" PROVE FALSE
  <2>1. d # c
    BY <1>6
  <2>2. PICK r : chunk' = [chunk EXCEPT ![d] = r]
    BY <1>6 DEF Thread, Start, Request, Judge, Go, RateLimited, ConnectionFails, Useless, Answer, Awake
  <2> QED
    BY <2>1, <2>2 DEF StageIInv, TypeOK
<1>7. ASSUME NEW d \in Chunks, Thread(d), chunk[d].pc = "wait" PROVE Request(d)
  BY <1>7 DEF Thread, Start, Judge, Go, RateLimited, ConnectionFails, Useless, Answer, Awake
<1>8. ASSUME NEW d \in Chunks, Request(d) PROVE d = c
  BY <1>8 DEF Request, Go, StageIInv, TypeOK
<1> QED
  BY <1>2, <1>3, <1>4, <1>5, <1>6, <1>7, <1>8 DEF vars, Next, Stage, Prewarm, Collect, Interrupt,
     Stopped, WriteManifest, WriteSrt

THEOREM StageInvariant == Spec => []StageIInv
BY InitStage, StepStage, PTL DEF Spec

(* Type correctness of the translate stage.                                *)
THEOREM TranslationTypeOK == Spec => []TypeOK
<1>1. StageIInv => TypeOK
  BY DEF StageIInv
<1> QED
  BY <1>1, StageInvariant, PTL

(* run_translate_stage: the manifest comes from an uninterrupted run whose *)
(* every chunk is settled; a cue without translation was given MAX_STEPS   *)
(* attempts; kana left over are marked for review: for any replies.        *)
THEOREM ManifestIsHonestAlways == Spec => []ManifestIsHonest
BY StageInvariant, StageIInvMeansHonest, PTL

(* _set_global_cooldown: no thread goes on to its next request while       *)
(* another sleeps off a 429, unless the stage is being stopped.            *)
THEOREM HeldBackAlways == Spec => HeldBack
<1>1. ASSUME StageIInv, [Next]_vars
      PROVE  [\A c \in Chunks : running /\ chunk[c].pc = "wait" /\ chunk'[c].pc = "call" =>
               \A d \in Chunks : chunk[d].pc = "rate" => chunk[d].sleep = 0]_vars
  <2> SUFFICES ASSUME NEW c \in Chunks, running, chunk[c].pc = "wait", chunk'[c].pc = "call",
                      NEW d \in Chunks, chunk[d].pc = "rate"
               PROVE  chunk[d].sleep = 0
    BY Zenon
  <2>1. cool = 0
    <3>1. Request(c)
      BY <1>1, OnlyRequest
    <3> QED
      BY <3>1 DEF Cool, Request
  <2> QED
    BY <1>1, <2>1, TranslationAssumption DEF StageIInv, TypeOK
<1> QED
  BY <1>1, StageInvariant, PTL DEF Spec, HeldBack
-----------------------------------------------------------------------------
(* The requests of a review.  An attempt costs two requests where there is *)
(* an extra_body, an ask Turns + 1 attempts.                               *)
PerAttempt == IF ExtraBody THEN 2 ELSE 1
Attempts   == Calls!Turns + 1
Before(ask, attempt) == ((ask - 1) * Attempts + (attempt - 1)) * PerAttempt

Jobs == [pc : {"new", "queued", "over"} \cup Calls!Under, ask : 1..Calls!Turns, attempt : 1..Attempts,
         plain : BOOLEAN, sent : Nat, row : {"none", "completed", "failed"}]

(* What a task has sent is what its asks and attempts before cost, and a   *)
(* part of this attempt's; one that is over has a row.                     *)
JobOK(r) ==
    /\ r.sent <= Before(r.ask, r.attempt) +
         (IF r.pc # "asked" THEN 0 ELSE IF r.plain THEN PerAttempt ELSE 1)
    /\ r.pc = "asked" /\ ~r.plain => ExtraBody
    /\ r.pc = "over" => r.row # "none"

(* The requests that are under way and not yet recorded: one of a task, or *)
(* two if it has fallen back.                                              *)
Asking(tasks)  == {t \in Calls!Tasks : tasks[t].pc = "asked"}
Twice(tasks)   == {t \in Asking(tasks) : ExtraBody /\ tasks[t].plain}
Pending(tasks) == Cardinality(Asking(tasks)) + Cardinality(Twice(tasks))
PendingOf(r)   == IF r.pc # "asked" THEN 0 ELSE IF ExtraBody /\ r.plain THEN 2 ELSE 1

CallsTypeOK ==
    /\ kind \in Calls!Kinds
    /\ pool \in {"first", "prewarm", "rest", "collect", "exit", "over"}
    /\ task \in [Calls!Tasks -> Jobs]
    /\ missed \in Nat

CallsIInv ==
    /\ CallsTypeOK
    /\ \A t \in Calls!Tasks : JobOK(task[t])
    /\ missed = Pending(task)
    /\ pool = "first" => \A t \in Calls!Tasks : task[t].pc = "new"
    /\ pool \in {"first", "prewarm"} => \A t \in Calls!Tasks \ {1} : task[t].pc = "new"
    /\ pool \in {"rest", "collect"} /\ kind # "segment" /\ NTasks > 1 => task[1].pc = "over"
    /\ pool \in {"exit", "over"} =>
         \/ \A t \in Calls!Tasks : task[t] = Calls!New
         \/ \A t \in Calls!Tasks : task[t].pc = "over"
    /\ pool \in {"exit", "over"} /\ (\A t \in Calls!Tasks : task[t].pc = "over") =>
         report.of = "own" /\ report.missed = 0
    /\ pool = "over" /\ (\A t \in Calls!Tasks : task[t].pc = "over") => shown.counts = report
-----------------------------------------------------------------------------
LEMMA TurnsAre == /\ Calls!Turns \in Nat \ {0} /\ Attempts \in Nat \ {0} /\ Attempts = Calls!Turns + 1
                  /\ PerAttempt \in {1, 2} /\ PerAttempt \in Nat
BY CallsAssumption DEF Calls!Turns, Attempts, PerAttempt

LEMMA Times ==
    ASSUME NEW a \in Nat, NEW b \in Nat, NEW c \in Nat, a <= b
    PROVE  a * c <= b * c /\ a * c \in Nat
OBVIOUS

(* An attempt after an attempt, an ask after the last attempt of an ask,   *)
(* and the last attempt of the last ask.                                   *)
LEMMA CostGrows ==
    ASSUME NEW ask \in 1..Calls!Turns, NEW attempt \in 1..Attempts
    PROVE  /\ Before(ask, attempt) \in Nat
           /\ Before(ask, attempt + 1) = Before(ask, attempt) + PerAttempt
           /\ Before(ask, attempt) + PerAttempt <= Before(ask + 1, 1)
           /\ Before(ask, attempt) + PerAttempt <= Calls!Turns * Attempts * PerAttempt
           /\ Before(1, 1) = 0
<1> DEFINE A == Attempts
           T == Calls!Turns
           K == PerAttempt
           x == (ask - 1) * A
<1>1. A \in Nat \ {0} /\ T \in Nat \ {0} /\ K \in {1, 2}
  BY TurnsAre
<1>2. ask \in 1..T /\ attempt \in 1..A
  OBVIOUS
<1>3. /\ Before(ask, attempt) = (x + (attempt - 1)) * K
      /\ Before(ask, attempt + 1) = (x + ((attempt + 1) - 1)) * K
      /\ Before(ask + 1, 1) = (((ask + 1) - 1) * A + (1 - 1)) * K
      /\ Before(1, 1) = ((1 - 1) * A + (1 - 1)) * K
  BY DEF Before
<1> HIDE DEF A, T, K
<1>4. x \in Nat /\ ((ask + 1) - 1) * A = x + A
  BY <1>1, <1>2
<1>5. ask * A <= T * A /\ T * A \in Nat /\ ask * A = x + A
  BY <1>1, <1>2, <1>4, Times
<1> HIDE DEF x
<1>6. (x + attempt) * K <= (T * A) * K
  BY <1>1, <1>2, <1>4, <1>5, Times
<1>7. T * A * K = (T * A) * K
  OBVIOUS
<1>8. (x + (attempt - 1)) * K + K = (x + attempt) * K
  BY <1>1, <1>2, <1>4
<1>9. (x + attempt) * K <= (x + A) * K
  BY <1>1, <1>2, <1>4
<1> QED
  BY <1>1, <1>2, <1>3, <1>4, <1>6, <1>7, <1>8, <1>9 DEF A, T, K

LEMMA PendingIs ==
    ASSUME NEW f \in [Calls!Tasks -> Jobs], NEW t \in Calls!Tasks
    PROVE  /\ Cardinality(Asking(f)) \in Nat /\ Cardinality(Twice(f)) \in Nat
           /\ Cardinality(Asking(f) \ {t}) \in Nat /\ Cardinality(Twice(f) \ {t}) \in Nat
           /\ Pending(f) = Cardinality(Asking(f) \ {t}) + Cardinality(Twice(f) \ {t}) + PendingOf(f[t])
<1>1. IsFiniteSet(Calls!Tasks)
  BY FS_Interval, CallsAssumption DEF Calls!Tasks
<1>2. IsFiniteSet(Asking(f)) /\ IsFiniteSet(Twice(f))
  BY <1>1, FS_Subset DEF Asking, Twice
<1>3. /\ Cardinality(Asking(f)) \in Nat /\ Cardinality(Twice(f)) \in Nat
      /\ Cardinality(Asking(f) \ {t}) = Cardinality(Asking(f)) - (IF t \in Asking(f) THEN 1 ELSE 0)
      /\ Cardinality(Twice(f) \ {t}) = Cardinality(Twice(f)) - (IF t \in Twice(f) THEN 1 ELSE 0)
  <2>1. ASSUME NEW S, IsFiniteSet(S)
        PROVE  /\ Cardinality(S) \in Nat
               /\ Cardinality(S \ {t}) = Cardinality(S) - (IF t \in S THEN 1 ELSE 0)
    BY <2>1, FS_CardinalityType, FS_RemoveElement
  <2> QED
    BY <1>2, <2>1
<1>4. IsFiniteSet(Asking(f) \ {t}) /\ IsFiniteSet(Twice(f) \ {t})
  BY <1>2, FS_RemoveElement
<1>5. /\ t \in Asking(f) <=> f[t].pc = "asked"
      /\ t \in Twice(f) <=> f[t].pc = "asked" /\ ExtraBody /\ f[t].plain
  BY DEF Asking, Twice
<1>6. Cardinality(Asking(f) \ {t}) \in Nat /\ Cardinality(Twice(f) \ {t}) \in Nat
  BY <1>4, FS_CardinalityType
<1> QED
  BY <1>3, <1>5, <1>6 DEF Pending, PendingOf

LEMMA PendingMoves ==
    ASSUME NEW f \in [Calls!Tasks -> Jobs], NEW t \in Calls!Tasks, NEW r \in Jobs
    PROVE  /\ Pending([f EXCEPT ![t] = r]) \in Nat /\ Pending(f) \in Nat
           /\ Pending([f EXCEPT ![t] = r]) + PendingOf(f[t]) = Pending(f) + PendingOf(r)
<1> DEFINE g == [f EXCEPT ![t] = r]
<1>1. g \in [Calls!Tasks -> Jobs] /\ g[t] = r /\ \A u \in Calls!Tasks \ {t} : g[u] = f[u]
  OBVIOUS
<1> HIDE DEF g
<1>2. Asking(g) \ {t} = Asking(f) \ {t} /\ Twice(g) \ {t} = Twice(f) \ {t}
  BY <1>1 DEF Asking, Twice
<1>3. PendingOf(r) \in Nat /\ PendingOf(f[t]) \in Nat
  BY DEF PendingOf
<1>4. /\ Pending(g) = Cardinality(Asking(f) \ {t}) + Cardinality(Twice(f) \ {t}) + PendingOf(r)
      /\ Pending(f) = Cardinality(Asking(f) \ {t}) + Cardinality(Twice(f) \ {t}) + PendingOf(f[t])
      /\ Cardinality(Asking(f) \ {t}) \in Nat /\ Cardinality(Twice(f) \ {t}) \in Nat
  BY <1>1, <1>2, PendingIs
<1> QED
  BY <1>3, <1>4 DEF g

(* Nothing is under way if nobody asks. *)
LEMMA NonePending ==
    ASSUME NEW f, \A t \in Calls!Tasks : f[t].pc # "asked" PROVE Pending(f) = 0
<1>1. Asking(f) = {} /\ Twice(f) = {}
  BY DEF Asking, Twice
<1> QED
  BY <1>1, FS_EmptySet DEF Pending

(* A step of a task. *)
LEMMA TaskMoves ==
    ASSUME CallsIInv, NEW t \in Calls!Tasks, task[t].pc \notin {"new", "over"},
           NEW r \in Jobs, JobOK(r), task' = [task EXCEPT ![t] = r],
           missed' + PendingOf(task[t]) = missed + PendingOf(r), missed' \in Int,
           UNCHANGED <<kind, pool, report, shown>>
    PROVE  CallsIInv'
<1>1. /\ task' \in [Calls!Tasks -> Jobs] /\ task'[t] = r
      /\ \A u \in Calls!Tasks \ {t} : task'[u] = task[u]
  BY DEF CallsIInv, CallsTypeOK
<1>2. missed' = Pending(task') /\ missed' \in Nat
  <2>1. PendingOf(r) \in Nat /\ PendingOf(task[t]) \in Nat
    BY DEF PendingOf
  <2>2. missed \in Nat /\ missed = Pending(task)
    BY DEF CallsIInv, CallsTypeOK
  <2>3. Pending(task') \in Nat /\ Pending(task') + PendingOf(task[t]) = Pending(task) + PendingOf(r)
    BY PendingMoves DEF CallsIInv, CallsTypeOK
  <2> QED
    BY <2>1, <2>2, <2>3
<1>3. CallsTypeOK'
  BY <1>1, <1>2 DEF CallsIInv, CallsTypeOK
<1>4. \A u \in Calls!Tasks : JobOK(task'[u])
  BY <1>1 DEF CallsIInv
<1>5. pool \notin {"exit", "over"}
  BY DEF CallsIInv, Calls!New
<1>6. /\ pool \in {"first", "prewarm"} => \A u \in Calls!Tasks \ {1} : task'[u].pc = "new"
      /\ pool \in {"rest", "collect"} /\ kind # "segment" /\ NTasks > 1 => task'[1].pc = "over"
  <2>1. 1 \in Calls!Tasks
    BY CallsAssumption DEF Calls!Tasks
  <2> QED
    BY <1>1, <2>1 DEF CallsIInv
<1> QED
  BY <1>2, <1>3, <1>4, <1>5, <1>6 DEF CallsIInv

LEMMA JobIs ==
    ASSUME CallsIInv, NEW t \in Calls!Tasks
    PROVE  /\ task[t] \in Jobs /\ JobOK(task[t]) /\ missed \in Nat
           /\ Before(task[t].ask, task[t].attempt) \in Nat
           /\ PendingOf(task[t]) \in 0..2 /\ missed >= PendingOf(task[t])
<1>1. task[t] \in Jobs /\ JobOK(task[t]) /\ missed \in Nat /\ missed = Pending(task)
  BY DEF CallsIInv, CallsTypeOK
<1>2. Before(task[t].ask, task[t].attempt) \in Nat
  BY <1>1, CostGrows DEF Jobs
<1>3. PendingOf(task[t]) \in 0..2
  BY DEF PendingOf
<1>4. Pending(task) >= PendingOf(task[t])
  <2>1. task \in [Calls!Tasks -> Jobs]
    BY DEF CallsIInv, CallsTypeOK
  <2>2. /\ Cardinality(Asking(task) \ {t}) \in Nat /\ Cardinality(Twice(task) \ {t}) \in Nat
        /\ Pending(task) = Cardinality(Asking(task) \ {t}) + Cardinality(Twice(task) \ {t})
                           + PendingOf(task[t])
    BY <2>1, PendingIs
  <2> QED
    BY <1>3, <2>2
<1> QED
  BY <1>1, <1>2, <1>3, <1>4

LEMMA StepTaskStart == ASSUME CallsIInv, NEW t \in Calls!Tasks, Calls!Start(t) PROVE CallsIInv'
<1> DEFINE r == [task[t] EXCEPT !.pc = "ready"]
<1>1. task[t] \in Jobs /\ JobOK(task[t]) /\ task[t].pc = "queued"
  BY JobIs DEF Calls!Start
<1>2. /\ r \in Jobs /\ r.pc = "ready" /\ r.ask = task[t].ask /\ r.attempt = task[t].attempt
      /\ r.sent = task[t].sent
  BY <1>1 DEF Jobs, Calls!Under
<1>3. task' = [task EXCEPT ![t] = r] /\ UNCHANGED <<kind, pool, missed, report, shown>>
  BY DEF Calls!Start, Calls!Set, Calls!TaskRest
<1> HIDE DEF r
<1>4. JobOK(r) /\ PendingOf(r) = 0 /\ PendingOf(task[t]) = 0
  BY <1>1, <1>2 DEF JobOK, PendingOf
<1>5. missed' + PendingOf(task[t]) = missed + PendingOf(r) /\ missed' \in Int
  BY <1>3, <1>4, JobIs
<1> QED
  BY <1>1, <1>2, <1>3, <1>4, <1>5, TaskMoves

LEMMA StepTaskAwake == ASSUME CallsIInv, NEW t \in Calls!Tasks, Calls!Awake(t) PROVE CallsIInv'
<1> DEFINE r == [task[t] EXCEPT !.pc = "ready"]
<1>1. task[t] \in Jobs /\ JobOK(task[t]) /\ task[t].pc = "sleep"
  BY JobIs DEF Calls!Awake
<1>2. /\ r \in Jobs /\ r.pc = "ready" /\ r.ask = task[t].ask /\ r.attempt = task[t].attempt
      /\ r.sent = task[t].sent
  BY <1>1 DEF Jobs, Calls!Under
<1>3. task' = [task EXCEPT ![t] = r] /\ UNCHANGED <<kind, pool, missed, report, shown>>
  BY DEF Calls!Awake, Calls!Set, Calls!TaskRest
<1> HIDE DEF r
<1>4. JobOK(r) /\ PendingOf(r) = 0 /\ PendingOf(task[t]) = 0
  BY <1>1, <1>2 DEF JobOK, PendingOf
<1>5. missed' + PendingOf(task[t]) = missed + PendingOf(r) /\ missed' \in Int
  BY <1>3, <1>4, JobIs
<1> QED
  BY <1>1, <1>2, <1>3, <1>4, <1>5, TaskMoves

LEMMA AskedIs ==
    ASSUME NEW t \in Calls!Tasks, task[t] \in Jobs, NEW plain \in BOOLEAN,
           NEW r, r = Calls!Asked(t, plain)
    PROVE  /\ r \in Jobs /\ r.pc = "asked" /\ r.ask = task[t].ask /\ r.attempt = task[t].attempt
           /\ r.sent = task[t].sent + 1 /\ r.plain = plain /\ task[t].sent \in Nat
<1>1. r = [task[t] EXCEPT !.pc = "asked", !.plain = plain, !.sent = task[t].sent + 1]
  BY DEF Calls!Asked
<1>2. "asked" \in {"new", "queued", "over"} \cup Calls!Under
  BY DEF Calls!Under
<1>3. task[t].sent \in Nat /\ task[t].sent + 1 \in Nat
  BY DEF Jobs
<1>4. r \in Jobs
  BY <1>1, <1>2, <1>3 DEF Jobs
<1>5. r.pc = "asked" /\ r.ask = task[t].ask /\ r.attempt = task[t].attempt /\ r.sent = task[t].sent + 1
  BY <1>1 DEF Jobs
<1>6. r.plain = plain
  BY <1>1 DEF Jobs
<1> QED
  BY <1>3, <1>4, <1>5, <1>6

LEMMA StepSend == ASSUME CallsIInv, NEW t \in Calls!Tasks, Calls!Send(t) PROVE CallsIInv'
<1> DEFINE r == Calls!Asked(t, ~ExtraBody)
<1>1. /\ task[t] \in Jobs /\ JobOK(task[t]) /\ task[t].pc = "ready" /\ missed \in Nat
      /\ Before(task[t].ask, task[t].attempt) \in Nat
  BY JobIs DEF Calls!Send
<1>2. /\ r \in Jobs /\ r.pc = "asked" /\ r.ask = task[t].ask /\ r.attempt = task[t].attempt
      /\ r.sent = task[t].sent + 1 /\ r.plain = ~ExtraBody /\ task[t].sent \in Nat
  <2>1. (~ExtraBody) \in BOOLEAN
    OBVIOUS
  <2> HIDE DEF r
  <2>2. r = Calls!Asked(t, ~ExtraBody)
    BY DEF r
  <2> QED
    BY <1>1, <2>1, <2>2, AskedIs, ZenonT(60)
<1>3. task' = [task EXCEPT ![t] = r] /\ missed' = missed + 1 /\ UNCHANGED <<kind, pool, report, shown>>
  BY DEF Calls!Send, Calls!Set, Calls!TaskRest
<1> HIDE DEF r
<1>5. JobOK(r)
  <2>1. task[t].sent <= Before(task[t].ask, task[t].attempt)
    BY <1>1, <1>2 DEF JobOK
  <2>2. r.sent <= Before(r.ask, r.attempt) + (IF r.plain THEN PerAttempt ELSE 1)
    BY <1>1, <1>2, <2>1, TurnsAre
  <2> QED
    BY <1>2, <2>2 DEF JobOK
<1>6. PendingOf(r) = 1 /\ PendingOf(task[t]) = 0
  BY <1>1, <1>2 DEF PendingOf
<1>7. missed' + PendingOf(task[t]) = missed + PendingOf(r) /\ missed' \in Int
  BY <1>1, <1>3, <1>6
<1> QED
  BY <1>1, <1>2, <1>3, <1>5, <1>7, TaskMoves

LEMMA StepFallBack == ASSUME CallsIInv, NEW t \in Calls!Tasks, Calls!FallBack(t) PROVE CallsIInv'
<1> DEFINE r == Calls!Asked(t, TRUE)
<1>1. /\ task[t] \in Jobs /\ JobOK(task[t]) /\ task[t].pc = "asked" /\ ~task[t].plain
      /\ missed \in Nat /\ Before(task[t].ask, task[t].attempt) \in Nat
  BY JobIs DEF Calls!FallBack
<1>2. /\ r \in Jobs /\ r.pc = "asked" /\ r.ask = task[t].ask /\ r.attempt = task[t].attempt
      /\ r.sent = task[t].sent + 1 /\ r.plain
  BY <1>1, AskedIs
<1>3. task' = [task EXCEPT ![t] = r] /\ missed' = missed + 1 /\ UNCHANGED <<kind, pool, report, shown>>
  BY DEF Calls!FallBack, Calls!Set, Calls!TaskRest
<1> HIDE DEF r
<1>4. task[t].sent \in Nat /\ ExtraBody
  BY <1>1 DEF Jobs, JobOK
<1>5. JobOK(r)
  BY <1>1, <1>2, <1>4 DEF JobOK, PerAttempt
<1>6. PendingOf(r) = 2 /\ PendingOf(task[t]) = 1
  BY <1>1, <1>2, <1>4 DEF PendingOf
<1>7. missed' + PendingOf(task[t]) = missed + PendingOf(r) /\ missed' \in Int
  BY <1>1, <1>3, <1>6
<1> QED
  BY <1>1, <1>2, <1>3, <1>5, <1>7, TaskMoves

(* A task that is over. *)
LEMMA OverIs ==
    ASSUME NEW row \in {"completed", "failed"}
    PROVE  /\ Calls!OverWith(row) \in Jobs /\ JobOK(Calls!OverWith(row))
           /\ PendingOf(Calls!OverWith(row)) = 0
<1> DEFINE r == Calls!OverWith(row)
<1>1. r \in Jobs /\ r.pc = "over" /\ r.sent = 0 /\ r.row = row /\ r.ask = 1 /\ r.attempt = 1
  <2>1. r = [Calls!New EXCEPT !.pc = "over", !.row = row]
    BY DEF Calls!OverWith
  <2>2. Calls!New \in Jobs /\ Calls!New.sent = 0 /\ Calls!New.ask = 1 /\ Calls!New.attempt = 1
    BY TurnsAre DEF Calls!New, Jobs
  <2> QED
    BY <2>1, <2>2 DEF Jobs
<1> HIDE DEF r
<1>2. Before(1, 1) = 0
  BY TurnsAre, CostGrows
<1>3. JobOK(r) /\ PendingOf(r) = 0
  BY <1>1, <1>2 DEF JobOK, PendingOf
<1> QED
  BY <1>1, <1>3 DEF r

LEMMA EndsOver ==
    ASSUME CallsIInv, NEW t \in Calls!Tasks, task[t].pc \notin {"new", "over"},
           NEW row \in {"completed", "failed"}, task' = [task EXCEPT ![t] = Calls!OverWith(row)],
           missed' + PendingOf(task[t]) = missed + 0, missed' \in Int,
           UNCHANGED <<kind, pool, report, shown>>
    PROVE  CallsIInv'
<1> DEFINE r == Calls!OverWith(row)
<1>1. r \in Jobs /\ JobOK(r) /\ PendingOf(r) = 0 /\ task' = [task EXCEPT ![t] = r]
  BY OverIs
<1> HIDE DEF r
<1>2. missed' + PendingOf(task[t]) = missed + PendingOf(r)
  BY <1>1
<1> QED
  BY <1>1, <1>2, TaskMoves

LEMMA StepUnreadable == ASSUME CallsIInv, NEW t \in Calls!Tasks, Calls!Unreadable(t) PROVE CallsIInv'
<1>1. /\ task[t].pc = "ready" /\ task' = [task EXCEPT ![t] = Calls!OverWith("failed")]
      /\ UNCHANGED <<kind, pool, missed, report, shown>>
  BY DEF Calls!Unreadable, Calls!Set, Calls!TaskRest
<1>2. PendingOf(task[t]) = 0
  BY <1>1 DEF PendingOf
<1>3. CallsIInv /\ missed' + PendingOf(task[t]) = missed + 0 /\ missed' \in Int
  BY <1>1, <1>2, JobIs
<1> QED
  BY <1>1, <1>3, EndsOver

(* What a call has sent is counted when it ends. *)
LEMMA RecordCounts ==
    ASSUME CallsIInv, NEW t \in Calls!Tasks, Calls!Record(t), task[t].pc = "asked"
    PROVE  missed' + PendingOf(task[t]) = missed /\ missed' \in Int
<1>1. Calls!SentByCall(t) = PendingOf(task[t])
  BY DEF Calls!SentByCall, PendingOf
<1> QED
  BY <1>1, JobIs DEF Calls!Record, Calls!Counted

LEMMA StepFail == ASSUME CallsIInv, NEW t \in Calls!Tasks, Calls!Fail(t) PROVE CallsIInv'
<1> DEFINE r == [task[t] EXCEPT !.pc = "sleep", !.attempt = @ + 1]
<1>1. /\ task[t] \in Jobs /\ JobOK(task[t]) /\ task[t].pc = "asked" /\ task[t].plain
      /\ missed' + PendingOf(task[t]) = missed /\ missed' \in Int
      /\ UNCHANGED <<kind, pool, report, shown>>
  BY JobIs, RecordCounts DEF Calls!Fail, Calls!TaskRest
<1>2. CASE task' = [task EXCEPT ![t] = Calls!OverWith("failed")]
  <2>1. missed' + PendingOf(task[t]) = missed + 0
    BY <1>1, JobIs
  <2> QED
    BY <1>1, <1>2, <2>1, EndsOver
<1>3. CASE task[t].attempt <= Calls!Turns /\ task' = [task EXCEPT ![t] = r]
  <2>1. task[t].ask \in 1..Calls!Turns /\ task[t].attempt \in 1..Attempts /\ task[t].sent \in Nat
    BY <1>1 DEF Jobs
  <2>2. task[t].attempt + 1 \in 1..Attempts
    BY <1>3, <2>1, TurnsAre
  <2>3. /\ r \in Jobs /\ r.pc = "sleep" /\ r.ask = task[t].ask /\ r.attempt = task[t].attempt + 1
        /\ r.sent = task[t].sent
    BY <1>1, <2>2 DEF Jobs, Calls!Under
  <2> HIDE DEF r
  <2>4. Before(r.ask, r.attempt) = Before(task[t].ask, task[t].attempt) + PerAttempt
    BY <2>1, <2>3, CostGrows
  <2>5. task[t].sent <= Before(task[t].ask, task[t].attempt) + PerAttempt
    BY <1>1 DEF JobOK
  <2>6. Before(r.ask, r.attempt) \in Nat
    BY <2>1, <2>2, <2>3, CostGrows
  <2>7. JobOK(r) /\ PendingOf(r) = 0
    <3>1. r.sent <= Before(r.ask, r.attempt)
      BY <2>3, <2>4, <2>5
    <3> QED
      BY <2>3, <2>6, <3>1 DEF JobOK, PendingOf
  <2>8. missed' + PendingOf(task[t]) = missed + PendingOf(r)
    BY <1>1, <2>7, JobIs
  <2>9. task' = [task EXCEPT ![t] = r]
    BY <1>3 DEF r
  <2> QED
    BY <1>1, <2>3, <2>7, <2>8, <2>9, TaskMoves
<1> QED
  BY <1>2, <1>3 DEF Calls!Fail, Calls!Set, Calls!MoreAttempts

LEMMA StepTaskAnswer == ASSUME CallsIInv, NEW t \in Calls!Tasks, Calls!Answer(t) PROVE CallsIInv'
<1> DEFINE r == [task[t] EXCEPT !.pc = "sleep", !.ask = @ + 1, !.attempt = 1]
<1>1. /\ task[t] \in Jobs /\ JobOK(task[t]) /\ task[t].pc = "asked"
      /\ missed' + PendingOf(task[t]) = missed /\ missed' \in Int
      /\ UNCHANGED <<kind, pool, report, shown>>
  BY JobIs, RecordCounts DEF Calls!Answer, Calls!TaskRest
<1>2. ASSUME NEW row \in {"completed", "failed"}, task' = [task EXCEPT ![t] = Calls!OverWith(row)]
      PROVE  CallsIInv'
  <2>1. missed' + PendingOf(task[t]) = missed + 0
    BY <1>1, JobIs
  <2> QED
    BY <1>1, <1>2, <2>1, EndsOver
<1>3. CASE task[t].ask < Calls!Turns /\ task' = [task EXCEPT ![t] = r]
  <2>1. task[t].ask \in 1..Calls!Turns /\ task[t].attempt \in 1..Attempts /\ task[t].sent \in Nat
    BY <1>1 DEF Jobs
  <2>2. task[t].ask + 1 \in 1..Calls!Turns /\ 1 \in 1..Attempts
    BY <1>3, <2>1, TurnsAre
  <2>3. /\ r \in Jobs /\ r.pc = "sleep" /\ r.ask = task[t].ask + 1 /\ r.attempt = 1
        /\ r.sent = task[t].sent
    BY <1>1, <2>2 DEF Jobs, Calls!Under
  <2> HIDE DEF r
  <2>4. /\ Before(task[t].ask, task[t].attempt) \in Nat
        /\ Before(task[t].ask, task[t].attempt) + PerAttempt <= Before(r.ask, r.attempt)
    BY <2>1, <2>3, CostGrows
  <2>5. task[t].sent <= Before(task[t].ask, task[t].attempt) + PerAttempt
    BY <1>1, <2>1, <2>4, TurnsAre DEF JobOK
  <2>6. Before(r.ask, r.attempt) \in Nat
    BY <2>2, <2>3, CostGrows
  <2>7. JobOK(r) /\ PendingOf(r) = 0
    <3>1. r.sent <= Before(r.ask, r.attempt)
      BY <2>1, <2>3, <2>4, <2>5, <2>6, TurnsAre
    <3> QED
      BY <2>3, <2>6, <3>1 DEF JobOK, PendingOf
  <2>8. missed' + PendingOf(task[t]) = missed + PendingOf(r)
    BY <1>1, <2>7, JobIs
  <2>9. task' = [task EXCEPT ![t] = r]
    BY <1>3 DEF r
  <2> QED
    BY <1>1, <2>3, <2>7, <2>8, <2>9, TaskMoves
<1> QED
  BY <1>2, <1>3 DEF Calls!Answer, Calls!Set, Calls!MoreAsks
-----------------------------------------------------------------------------
LEMMA InitCalls == Calls!Init => CallsIInv
<1> SUFFICES ASSUME Calls!Init PROVE CallsIInv
  OBVIOUS
<1>1. /\ Calls!New \in Jobs /\ Calls!New.pc = "new" /\ Calls!New.sent = 0
      /\ Calls!New.ask = 1 /\ Calls!New.attempt = 1
  BY TurnsAre DEF Calls!New, Jobs
<1>2. JobOK(Calls!New)
  BY <1>1, TurnsAre, CostGrows DEF JobOK
<1>3. \A t \in Calls!Tasks : task[t] = Calls!New
  BY DEF Calls!Init
<1>4. task \in [Calls!Tasks -> Jobs]
  BY <1>1 DEF Calls!Init
<1>5. Pending(task) = 0
  BY <1>1, <1>3, NonePending
<1>6. /\ kind \in Calls!Kinds /\ missed = 0
      /\ pool = IF NTasks > 1 /\ kind # "segment" THEN "first" ELSE "rest"
  BY DEF Calls!Init, Calls!AtFirst
<1> QED
  BY <1>1, <1>2, <1>3, <1>4, <1>5, <1>6 DEF CallsIInv, CallsTypeOK

(* What submitting does to the tasks. *)
LEMMA SubmittedIs ==
    ASSUME CallsIInv, NEW ts \in SUBSET Calls!Tasks, \A t \in ts : task[t].pc = "new",
           task' = Calls!Submitted(ts)
    PROVE  /\ task' \in [Calls!Tasks -> Jobs] /\ Pending(task') = Pending(task)
           /\ \A t \in ts : task'[t].pc = "queued"
           /\ \A t \in Calls!Tasks \ ts : task'[t] = task[t]
           /\ \A t \in Calls!Tasks : JobOK(task'[t])
<1>1. \A t \in Calls!Tasks : task[t] \in Jobs /\ JobOK(task[t])
  BY DEF CallsIInv, CallsTypeOK
<1>2. task' = [t \in Calls!Tasks |-> IF t \in ts THEN [task[t] EXCEPT !.pc = "queued"] ELSE task[t]]
  BY DEF Calls!Submitted
<1>3. ASSUME NEW t \in ts
      PROVE  /\ task'[t] \in Jobs /\ task'[t].pc = "queued" /\ task'[t].ask = task[t].ask
             /\ task'[t].attempt = task[t].attempt /\ task'[t].sent = task[t].sent
  <2>1. task'[t] = [task[t] EXCEPT !.pc = "queued"] /\ task[t] \in Jobs
    BY <1>1, <1>2
  <2> QED
    BY <2>1 DEF Jobs
<1>4. \A t \in Calls!Tasks \ ts : task'[t] = task[t]
  BY <1>2
<1>5. task' \in [Calls!Tasks -> Jobs]
  <2>1. \A t \in Calls!Tasks : task'[t] \in Jobs
    BY <1>1, <1>3, <1>4
  <2> QED
    BY <1>2, <2>1
<1>6. Asking(task') = Asking(task)
  BY <1>3, <1>4 DEF Asking
<1>7. Twice(task') = Twice(task)
  <2>1. \A t \in Asking(task) : task'[t] = task[t]
    BY <1>4 DEF Asking
  <2> QED
    BY <1>6, <2>1 DEF Twice
<1>8. \A t \in Calls!Tasks : JobOK(task'[t])
  BY <1>1, <1>3, <1>4 DEF JobOK
<1> QED
  BY <1>3, <1>4, <1>5, <1>6, <1>7, <1>8 DEF Pending

LEMMA StepSubmitFirst == ASSUME CallsIInv, Calls!SubmitFirst PROVE CallsIInv'
<1>0. {1} \in SUBSET Calls!Tasks
  BY CallsAssumption DEF Calls!Tasks
<1>1. /\ pool = "first" /\ pool' = "prewarm" /\ task' = Calls!Submitted({1})
      /\ UNCHANGED <<kind, missed, report, shown>>
  BY DEF Calls!SubmitFirst
<1>2. \A t \in Calls!Tasks : task[t].pc = "new"
  BY <1>1 DEF CallsIInv
<1>3. /\ task' \in [Calls!Tasks -> Jobs] /\ Pending(task') = Pending(task)
      /\ \A t \in Calls!Tasks \ {1} : task'[t] = task[t]
      /\ \A t \in Calls!Tasks : JobOK(task'[t])
  BY <1>0, <1>1, <1>2, SubmittedIs
<1> QED
  BY <1>1, <1>2, <1>3 DEF CallsIInv, CallsTypeOK

LEMMA StepPause == ASSUME CallsIInv, Calls!Pause PROVE CallsIInv'
<1>1. /\ pool = "prewarm" /\ pool' = "rest" /\ task[1].pc = "over"
      /\ UNCHANGED <<kind, task, missed, report, shown>>
  BY DEF Calls!Pause, Calls!Waited, Calls!Settled
<1> QED
  BY <1>1 DEF CallsIInv, CallsTypeOK

LEMMA StepSubmitRest == ASSUME CallsIInv, Calls!SubmitRest PROVE CallsIInv'
<1> DEFINE ts == {t \in Calls!Tasks : task[t].pc = "new"}
<1>0. ts \in SUBSET Calls!Tasks /\ \A t \in ts : task[t].pc = "new"
  OBVIOUS
<1>1. /\ pool = "rest" /\ pool' = "collect" /\ task' = Calls!Submitted(ts)
      /\ UNCHANGED <<kind, missed, report, shown>>
  BY DEF Calls!SubmitRest
<1>2. 1 \in Calls!Tasks /\ (task[1].pc = "over" => 1 \notin ts)
  BY CallsAssumption DEF Calls!Tasks
<1> HIDE DEF ts
<1>3. /\ task' \in [Calls!Tasks -> Jobs] /\ Pending(task') = Pending(task)
      /\ \A t \in Calls!Tasks \ ts : task'[t] = task[t]
      /\ \A t \in Calls!Tasks : JobOK(task'[t])
  BY <1>0, <1>1, SubmittedIs
<1> QED
  BY <1>1, <1>2, <1>3 DEF CallsIInv, CallsTypeOK

(* The span counts nothing that is not recorded, as nothing is under way. *)
LEMMA StepFinish == ASSUME CallsIInv, Calls!Finish PROVE CallsIInv'
<1>1. /\ pool = "collect" /\ pool' = "exit" /\ missed' = 0 /\ report' = Calls!OwnReport
      /\ \A t \in Calls!Tasks : task[t].pc = "over"
      /\ UNCHANGED <<kind, task>>
  BY DEF Calls!Finish, Calls!Settled
<1>2. Pending(task) = 0 /\ missed = 0
  BY <1>1, NonePending DEF CallsIInv
<1>3. report'.of = "own" /\ report'.missed = 0
  BY <1>1, <1>2 DEF Calls!OwnReport
<1> QED
  BY <1>1, <1>2, <1>3 DEF CallsIInv, CallsTypeOK

LEMMA StepKill == ASSUME CallsIInv, Calls!Kill PROVE CallsIInv'
<1>1. /\ pool' = "exit" /\ missed' = 0 /\ task' = [t \in Calls!Tasks |-> Calls!New]
      /\ UNCHANGED <<kind, report, shown>>
  BY DEF Calls!Kill
<1>2. /\ Calls!New \in Jobs /\ Calls!New.pc = "new" /\ Calls!New.sent = 0
      /\ Calls!New.ask = 1 /\ Calls!New.attempt = 1
  BY TurnsAre DEF Calls!New, Jobs
<1>3. JobOK(Calls!New)
  BY <1>2, TurnsAre, CostGrows DEF JobOK
<1>4. \A t \in Calls!Tasks : task'[t] = Calls!New
  BY <1>1
<1>5. Pending(task') = 0
  BY <1>2, <1>4, NonePending
<1>6. 1 \in Calls!Tasks
  BY CallsAssumption DEF Calls!Tasks
<1> QED
  BY <1>1, <1>2, <1>3, <1>4, <1>5, <1>6 DEF CallsIInv, CallsTypeOK

LEMMA StepMerge == ASSUME CallsIInv, Calls!Merge PROVE CallsIInv'
<1>1. /\ pool = "exit" /\ pool' = "over" /\ UNCHANGED <<kind, task, missed, report>>
      /\ report # Calls!NoReport => shown'.counts = report
  BY DEF Calls!Merge
<1>2. report.of = "own" => report # Calls!NoReport
  BY DEF Calls!NoReport
<1> QED
  BY <1>1, <1>2 DEF CallsIInv, CallsTypeOK

LEMMA StepCalls == CallsIInv /\ [Calls!Next]_callVars => CallsIInv'
<1> SUFFICES ASSUME CallsIInv, [Calls!Next]_callVars PROVE CallsIInv'
  OBVIOUS
<1>1. CASE Calls!Next
  BY <1>1, StepSubmitFirst, StepPause, StepSubmitRest, StepFinish, StepKill, StepMerge,
     StepTaskStart, StepSend, StepUnreadable, StepFallBack, StepFail, StepTaskAnswer, StepTaskAwake
     DEF Calls!Next, Calls!Thread
<1>2. CASE UNCHANGED callVars
  BY <1>2 DEF callVars, CallsIInv, CallsTypeOK
<1> QED
  BY <1>1, <1>2

LEMMA CallsIInvMeansOrderly == CallsIInv => CallsAreOrderly
<1> SUFFICES ASSUME CallsIInv PROVE CallsAreOrderly
  OBVIOUS
<1>1. ASSUME NEW t \in Calls!Tasks
      PROVE  task[t].sent <= Calls!Turns * Attempts * PerAttempt
  <2>1. task[t] \in Jobs /\ JobOK(task[t])
    BY DEF CallsIInv, CallsTypeOK
  <2>2. task[t].ask \in 1..Calls!Turns /\ task[t].attempt \in 1..Attempts /\ task[t].sent \in Nat
    BY <2>1 DEF Jobs
  <2> DEFINE b == Before(task[t].ask, task[t].attempt)
             limit == Calls!Turns * Attempts * PerAttempt
  <2>3. task[t].sent <= b + (IF task[t].pc # "asked" THEN 0 ELSE IF task[t].plain THEN PerAttempt ELSE 1)
    BY <2>1 DEF JobOK
  <2>4. b \in Nat /\ b + PerAttempt <= limit /\ limit \in Nat
    BY <2>2, TurnsAre, CostGrows
  <2> HIDE DEF b, limit
  <2>5. task[t].sent <= limit
    BY <2>2, <2>3, <2>4, TurnsAre
  <2> QED
    BY <2>5 DEF limit
<1>2. Calls!RequestsAreBounded
  BY <1>1 DEF Calls!RequestsAreBounded, Attempts, PerAttempt
<1>3. ASSUME kind # "segment", NEW t \in Calls!Tasks \ {1}, task[t].pc \in Calls!Under
      PROVE  task[1].row # "none"
  <2>1. NTasks > 1 /\ 1 \in Calls!Tasks
    BY CallsAssumption DEF Calls!Tasks
  <2>2. task[t].pc \notin {"new", "over"}
    BY <1>3 DEF Calls!Under
  <2>3. pool \in {"rest", "collect"}
    BY <2>2 DEF CallsIInv, CallsTypeOK, Calls!New
  <2>4. task[1].pc = "over"
    BY <1>3, <2>1, <2>3 DEF CallsIInv
  <2> QED
    BY <2>1, <2>4 DEF CallsIInv, JobOK
<1>4. Calls!FirstIsAlone
  BY <1>3 DEF Calls!FirstIsAlone
<1>5. Calls!RequestsAreCounted
  BY DEF CallsIInv, Calls!RequestsAreCounted, Calls!Settled
<1> QED
  BY <1>2, <1>4, <1>5 DEF CallsAreOrderly, Calls!PoolIsOrderly

THEOREM CallsInvariant == Calls!Spec => []CallsIInv
<1>1. CallsIInv /\ [Calls!Next]_Calls!vars => CallsIInv'
  BY StepCalls DEF Calls!vars, callVars
<1> QED
  BY <1>1, InitCalls, PTL DEF Calls!Spec

(* mimo_requests.py: whatever errors and answers come, a task sends no     *)
(* more requests than its three loops multiply to; the first request of a  *)
(* pool is alone until it has a row; and what is shown of a stage that     *)
(* came to its end misses no request: for any number of tasks and retries. *)
THEOREM CallsAreOrderlyAlways == Calls!Spec => []CallsAreOrderly
BY CallsInvariant, CallsIInvMeansOrderly, PTL
-----------------------------------------------------------------------------
(* The normalize stage, for every manifest.  First the folds it is made of *)
(* and the texts they put together.  Induction is over a set: the least    *)
(* number outside it would follow one inside.  A fold is then a function   *)
(* on 0..n whose i-th value lies in the i-th of given sets.  What holds of *)
(* the base and is kept by a step holds of the result.                     *)
LEMMA LeastOf ==
    ASSUME NEW S \in SUBSET Nat, S # {}
    PROVE  \E n \in S : \A k \in S : n <= k
<1>1. PICK n \in S : \A k \in S : <<k, n>> \notin OpToRel(<, Nat)
  BY NatLessThanWellFounded, WFMin
<1>2. \A k \in S : <<k, n>> \notin {ss \in Nat \X Nat : ss[1] < ss[2]}
  BY <1>1, Zenon DEF OpToRel
<1>3. \A k \in Nat : <<k, n>> \notin {ss \in Nat \X Nat : ss[1] < ss[2]} => n <= k
  OBVIOUS
<1> QED
  BY <1>2, <1>3

(* What holds of a number whenever it holds of the one before it, and of   *)
(* the first, holds of all.                                                *)
LEMMA Induction ==
    ASSUME NEW n \in Nat, NEW S, 0 \in S, \A i \in 1..n : i - 1 \in S => i \in S
    PROVE  0..n \subseteq S
<1> DEFINE Bad == {i \in 0..n : i \notin S}
<1>1. CASE Bad = {}
  BY <1>1
<1>2. CASE Bad # {}
  <2>1. Bad \in SUBSET Nat
    OBVIOUS
  <2>2. PICK i \in Bad : \A k \in Bad : i <= k
    <3> HIDE DEF Bad
    <3> QED BY <1>2, <2>1, LeastOf
  <2>3. i \in 1..n /\ i - 1 \in 0..n
    BY <2>2
  <2>4. i - 1 \in S
    BY <2>2, <2>3
  <2> QED BY <2>2, <2>3, <2>4
<1> QED BY <1>1, <1>2

(* The values of a fold, one set of them for each number.                  *)
Stays(n, base, V, F) ==
    base \in V[0] /\ \A i \in 1..n : \A m \in V[i - 1] : F[i][m] \in V[i]
IsFold(d, n, base, V, F) == /\ d = [i \in 0..n |-> d[i]] /\ d[0] = base
                            /\ \A i \in 1..n : d[i] = F[i][d[i - 1]]
                            /\ \A i \in 0..n : d[i] \in V[i]

(* A fold exists as a function whose values stay in the given sets.        *)
LEMMA FoldHolds ==
    ASSUME NEW n \in Nat, NEW base, NEW V, NEW F, Stays(n, base, V, F)
    PROVE  \E d : IsFold(d, n, base, V, F)
<1> USE DEF Stays, IsFold
<1> DEFINE Upto(k, f) == /\ f = [i \in 0..k |-> f[i]] /\ f[0] = base
                         /\ \A i \in 1..k : f[i] = F[i][f[i - 1]]
                         /\ \A i \in 0..k : f[i] \in V[i]
           S == {k \in 0..n : \E f : Upto(k, f)}
<1>1. 0 \in S
  <2>1. Upto(0, [i \in 0..0 |-> base])
    OBVIOUS
  <2> HIDE DEF Upto
  <2> QED BY <2>1
<1>2. ASSUME NEW k \in 1..n, k - 1 \in S PROVE k \in S
  <2>1. PICK f : Upto(k - 1, f)
    BY <1>2
  <2> DEFINE h == [i \in 0..k |-> IF i = k THEN F[k][f[k - 1]] ELSE f[i]]
  <2>2. h = [i \in 0..k |-> h[i]] /\ h[k] = F[k][f[k - 1]] /\ \A j \in 0..(k - 1) : h[j] = f[j]
    OBVIOUS
  <2> HIDE DEF h
  <2>3. h[0] = base /\ h[k] \in V[k]
    <3>1. k - 1 \in 0..(k - 1) /\ 0 \in 0..(k - 1)
      OBVIOUS
    <3> QED BY <2>1, <2>2, <3>1
  <2>4. ASSUME NEW i \in 1..k PROVE h[i] = F[i][h[i - 1]]
    <3>1. i - 1 \in 0..(k - 1)
      OBVIOUS
    <3>2. CASE i = k
      BY <2>2, <3>1, <3>2
    <3>3. CASE i # k
      <4>1. i \in 1..(k - 1) /\ i \in 0..(k - 1)
        BY <3>3
      <4> QED BY <2>1, <2>2, <3>1, <4>1
    <3> QED BY <3>2, <3>3
  <2>5. \A i \in 0..k : h[i] \in V[i]
    <3> SUFFICES ASSUME NEW i \in 0..k PROVE h[i] \in V[i]
      OBVIOUS
    <3>1. i = k \/ i \in 0..(k - 1)
      OBVIOUS
    <3> QED BY <2>1, <2>2, <2>3, <3>1
  <2>6. Upto(k, h)
    BY <2>2, <2>3, <2>4, <2>5
  <2> HIDE DEF Upto
  <2> QED BY <2>6
<1>3. n \in S
  <2> HIDE DEF S
  <2>1. 0..n \subseteq S
    BY <1>1, <1>2, Induction
  <2> QED BY <2>1
<1>4. PICK f : Upto(n, f)
  <2> HIDE DEF Upto
  <2> QED BY <1>3
<1> QED BY <1>4

(* Sequences one after the other.                                          *)
LEMMA FlatFold ==
    ASSUME NEW T, NEW ss \in Seq(Seq(T))
    PROVE  \E g \in [0..Len(ss) -> Seq(T)] :
              /\ g[0] = <<>> /\ \A i \in 1..Len(ss) : g[i] = g[i - 1] \o ss[i]
              /\ N!Flat(ss) = g[Len(ss)]
<1> DEFINE n == Len(ss)
           V == [i \in 0..n |-> Seq(T)]
           F == [i \in 1..n |-> [m \in Seq(T) |-> m \o ss[i]]]
           IsIt(d) == d = [i \in 0..n |-> IF i = 0 THEN <<>> ELSE d[i - 1] \o ss[i]]
           all == CHOOSE d : IsIt(d)
<1>1. n \in Nat /\ \A i \in 1..n : ss[i] \in Seq(T)
  OBVIOUS
<1>2. Stays(n, <<>>, V, F)
  <2> HIDE DEF n
  <2>1. \A i \in 1..n : \A m \in Seq(T) : m \o ss[i] \in Seq(T)
    BY <1>1, ConcatProperties
  <2>2. 0 \in 0..n /\ \A i \in 1..n : i - 1 \in 0..n /\ i \in 0..n
    BY <1>1
  <2>3. \A i \in 0..n : V[i] = Seq(T)
    OBVIOUS
  <2>4. \A i \in 1..n : \A m \in Seq(T) : F[i][m] = m \o ss[i]
    OBVIOUS
  <2>5. <<>> \in V[0]
    BY <2>2, <2>3
  <2>6. ASSUME NEW i \in 1..n, NEW m \in V[i - 1] PROVE F[i][m] \in V[i]
    <3>1. i - 1 \in 0..n /\ i \in 0..n
      BY <2>2
    <3>2. V[i - 1] = Seq(T) /\ V[i] = Seq(T)
      BY <2>3, <3>1
    <3> HIDE DEF V, F
    <3>3. F[i][m] = m \o ss[i] /\ m \o ss[i] \in Seq(T)
      BY <2>1, <2>4, <3>2
    <3> QED BY <3>2, <3>3
  <2> HIDE DEF V, F
  <2> QED BY <2>5, <2>6 DEF Stays
<1>3. PICK d : IsFold(d, n, <<>>, V, F)
  <2> HIDE DEF n, F, V
  <2> QED BY <1>1, <1>2, FoldHolds
<1>4. \A i \in 0..n : d[i] \in Seq(T)
  <2> HIDE DEF n, F
  <2> QED BY <1>3 DEF IsFold
<1>5. \A i \in 1..n : d[i] = d[i - 1] \o ss[i]
  <2> HIDE DEF n, V
  <2>1. \A i \in 1..n : i - 1 \in 0..n
    BY <1>1
  <2> QED BY <1>3, <1>4, <2>1 DEF IsFold
<1>6. IsIt(d)
  <2>1. \A i \in 0..n : i = 0 \/ i \in 1..n
    BY <1>1
  <2> HIDE DEF n, F, V
  <2>2. \A i \in 0..n : d[i] = IF i = 0 THEN <<>> ELSE d[i - 1] \o ss[i]
    BY <1>3, <1>5, <2>1 DEF IsFold
  <2>3. d = [i \in 0..n |-> d[i]]
    BY <1>3 DEF IsFold
  <2> QED BY <2>2, <2>3, Zenon
<1>7. IsIt(all)
  <2> HIDE DEF IsIt
  <2> QED BY <1>6
<1>8. N!Flat(ss) = all[n]
  BY DEF N!Flat, N!Folded
<1> HIDE DEF all, F, V
<1> DEFINE S == {i \in 0..n : all[i] \in Seq(T)}
<1>9. all = [i \in 0..n |-> all[i]] /\ all[0] = <<>> /\ \A i \in 1..n : all[i] = all[i - 1] \o ss[i]
  <2> HIDE DEF n
  <2>1. 0 \in 0..n /\ \A i \in 1..n : i \in 0..n /\ i # 0
    BY <1>1
  <2>2. \A i \in 0..n : all[i] = IF i = 0 THEN <<>> ELSE all[i - 1] \o ss[i]
    BY <1>7, Zenon
  <2>3. DOMAIN all = 0..n
    BY <1>7, Zenon
  <2>4. all = [i \in 0..n |-> all[i]]
    BY <1>7, <2>3
  <2> QED BY <2>1, <2>2, <2>4
<1>10. 0 \in S /\ \A i \in 1..n : i - 1 \in S => i \in S
  <2> HIDE DEF n
  <2>1. \A i \in 1..n : all[i - 1] \in Seq(T) => all[i] \in Seq(T)
    BY <1>1, <1>9, ConcatProperties
  <2>2. 0 \in 0..n /\ <<>> \in Seq(T) /\ \A i \in 1..n : i \in 0..n
    BY <1>1
  <2> QED BY <1>9, <2>1, <2>2
<1>11. 0..n \subseteq S
  <2> HIDE DEF S, n
  <2> QED BY <1>1, <1>10, Induction
<1>12. all \in [0..n -> Seq(T)]
  <2> HIDE DEF n
  <2> QED BY <1>9, <1>11
<1> QED BY <1>8, <1>9, <1>12

(* What adds up like them is them.                                         *)
LEMMA FlatIs ==
    ASSUME NEW T, NEW ss \in Seq(Seq(T)), NEW h, h[0] = <<>>,
           \A i \in 1..Len(ss) : h[i] = h[i - 1] \o ss[i]
    PROVE  N!Flat(ss) = h[Len(ss)] /\ N!Flat(ss) \in Seq(T)
<1>1. PICK g \in [0..Len(ss) -> Seq(T)] :
              /\ g[0] = <<>> /\ \A i \in 1..Len(ss) : g[i] = g[i - 1] \o ss[i]
              /\ N!Flat(ss) = g[Len(ss)]
  BY FlatFold
<1> DEFINE n == Len(ss)
           S == {i \in 0..n : h[i] = g[i]}
<1>2. n \in Nat
  OBVIOUS
<1>3. 0 \in S /\ \A i \in 1..n : i - 1 \in S => i \in S
  <2>1. 0 \in 0..n /\ \A i \in 1..n : i \in 0..n
    BY <1>2
  <2>2. \A i \in 1..n : h[i - 1] = g[i - 1] => h[i] = g[i]
    BY <1>1
  <2> QED BY <1>1, <2>1, <2>2
<1>4. 0..n \subseteq S
  <2> HIDE DEF S, n
  <2> QED BY <1>2, <1>3, Induction
<1> QED BY <1>1, <1>2, <1>4

(* Texts put together are a text.                                          *)
LEMMA FlatType ==
    ASSUME NEW T, NEW ss \in Seq(Seq(T))
    PROVE  N!Flat(ss) \in Seq(T)
<1>1. PICK g \in [0..Len(ss) -> Seq(T)] : N!Flat(ss) = g[Len(ss)]
  BY FlatFold
<1>2. Len(ss) \in 0..Len(ss)
  OBVIOUS
<1> QED BY <1>1, <1>2

Joins(T) == \A x, y, z \in Seq(T) : (x \o y) \o z = x \o (y \o z)
LEMMA Assoc == ASSUME NEW T PROVE Joins(T)
BY ConcatAssociative DEF Joins

IsJoin(c, T, a, b) ==
    /\ c \in Seq(T) /\ Len(c) = Len(a) + Len(b)
    /\ \A i \in 1..(Len(a) + Len(b)) : c[i] = IF i <= Len(a) THEN a[i] ELSE b[i - Len(a)]
LEMMA JoinIs ==
    ASSUME NEW T, NEW a \in Seq(T), NEW b \in Seq(T)
    PROVE  IsJoin(a \o b, T, a, b)
BY ConcatProperties DEF IsJoin

(* Flat of nothing, of one text, of two sequences of texts.                *)
LEMMA FlatEmpty == N!Flat(<<>>) = <<>>
<1>1. <<>> \in Seq(Seq({})) /\ Len(<<>>) = 0
  OBVIOUS
<1>2. [i \in {0} |-> <<>>][0] = <<>>
  OBVIOUS
<1>3. \A i \in 1..Len(<<>>) : FALSE
  BY <1>1
<1> HIDE DEF N!Flat
<1> QED BY <1>1, <1>2, <1>3, FlatIs

LEMMA FlatOne ==
    ASSUME NEW T, NEW s \in Seq(T)
    PROVE  N!Flat(<<s>>) = s
<1> DEFINE h == [i \in 0..1 |-> IF i = 0 THEN <<>> ELSE s]
<1>1. <<s>> \in Seq(Seq(T)) /\ Len(<<s>>) = 1 /\ <<s>>[1] = s
  OBVIOUS
<1>2. h[0] = <<>> /\ h[1] = s /\ <<>> \o s = s
  OBVIOUS
<1>3. \A i \in 1..1 : h[i] = h[i - 1] \o <<s>>[i]
  <2> HIDE DEF h
  <2>1. h[1] = h[0] \o <<s>>[1]
    BY <1>1, <1>2
  <2> QED BY <2>1
<1> HIDE DEF h
<1> QED BY <1>1, <1>2, <1>3, FlatIs

LEMMA FlatConcat ==
    ASSUME NEW T, NEW a \in Seq(Seq(T)), NEW b \in Seq(Seq(T))
    PROVE  N!Flat(a \o b) = N!Flat(a) \o N!Flat(b)
<1> DEFINE m == Len(a)
           n == Len(b)
<1>1. PICK g \in [0..m -> Seq(T)] :
              g[0] = <<>> /\ (\A i \in 1..m : g[i] = g[i - 1] \o a[i]) /\ N!Flat(a) = g[m]
  BY FlatFold
<1>2. PICK k \in [0..n -> Seq(T)] :
              k[0] = <<>> /\ (\A i \in 1..n : k[i] = k[i - 1] \o b[i]) /\ N!Flat(b) = k[n]
  BY FlatFold
<1> DEFINE h == [i \in 0..(m + n) |-> IF i <= m THEN g[i] ELSE g[m] \o k[i - m]]
<1>3. m \in Nat /\ n \in Nat
  OBVIOUS
<1>4. /\ a \o b \in Seq(Seq(T)) /\ Len(a \o b) = m + n
      /\ \A i \in 1..(m + n) : (a \o b)[i] = IF i <= m THEN a[i] ELSE b[i - m]
  BY ConcatProperties
<1>5. \A i \in 0..(m + n) : h[i] = IF i <= m THEN g[i] ELSE g[m] \o k[i - m]
  OBVIOUS
<1> HIDE DEF h, m, n
<1>6. h[0] = <<>>
  <2>1. 0 \in 0..(m + n) /\ 0 <= m
    BY <1>3
  <2>2. h[0] = g[0]
    BY <1>5, <2>1
  <2> QED BY <1>1, <2>2
<1>7. g[m] \in Seq(T) /\ g[m] \o <<>> = g[m]
  <2>1. g[m] \in Seq(T)
    BY <1>1, <1>3
  <2> QED BY <2>1
<1>8. h[m + n] = g[m] \o k[n]
  <2>1. CASE n = 0
    <3>1. m + n \in 0..(m + n) /\ m + n <= m /\ m + n = m
      BY <1>3, <2>1
    <3>2. h[m + n] = g[m]
      BY <1>5, <3>1
    <3> QED BY <1>2, <1>7, <2>1, <3>2
  <2>2. CASE n # 0
    <3>1. m + n \in 0..(m + n) /\ ~(m + n <= m) /\ (m + n) - m = n
      BY <1>3, <2>2
    <3> QED BY <1>5, <3>1
  <2> QED BY <2>1, <2>2
<1>9. ASSUME NEW i \in 1..(m + n) PROVE h[i] = h[i - 1] \o (a \o b)[i]
  <2>1. i \in 0..(m + n) /\ i - 1 \in 0..(m + n)
    BY <1>3
  <2>2. CASE i <= m
    <3>1. i \in 1..m /\ i - 1 <= m
      BY <1>3, <2>2
    <3> QED BY <1>1, <1>4, <1>5, <2>1, <2>2, <3>1
  <2>3. CASE i = m + 1
    <3>1. ~(i <= m) /\ i - m = 1 /\ i - 1 <= m /\ i - 1 = m /\ 1 \in 1..n /\ 1 - 1 = 0
      BY <1>3, <2>3
    <3>2. h[i - 1] = g[m] /\ h[i] = g[m] \o k[1] /\ (a \o b)[i] = b[1]
      BY <1>4, <1>5, <2>1, <3>1, ZenonT(60)
    <3>3. k[1] = <<>> \o b[1] /\ b[1] \in Seq(T)
      <4>1. b[1] \in Seq(T)
        BY <3>1, ElementOfSeq DEF n
      <4> QED BY <1>2, <3>1, <4>1
    <3>4. k[1] = b[1]
      BY <3>3
    <3> QED BY <3>2, <3>4
  <2>4. CASE i > m + 1
    <3>1. ~(i <= m) /\ ~(i - 1 <= m) /\ i - m \in 1..n /\ (i - m) - 1 = (i - 1) - m /\ (i - 1) - m \in 0..n
      BY <1>3, <2>4
    <3>2. h[i - 1] = g[m] \o k[(i - 1) - m] /\ h[i] = g[m] \o k[i - m] /\ (a \o b)[i] = b[i - m]
      BY <1>4, <1>5, <2>1, <3>1
    <3>3. k[i - m] = k[(i - 1) - m] \o b[i - m]
      BY <1>2, <3>1
    <3>4. b[i - m] \in Seq(T) /\ k[(i - 1) - m] \in Seq(T)
      <4>1. b[i - m] \in Seq(T)
        BY <3>1, ElementOfSeq DEF n
      <4> QED BY <1>2, <3>1, <4>1
    <3>5. g[m] \o (k[(i - 1) - m] \o b[i - m]) = (g[m] \o k[(i - 1) - m]) \o b[i - m]
      <4>1. Joins(T)
        BY Assoc
      <4> QED BY <1>7, <3>4, <4>1, Zenon DEF Joins
    <3> QED BY <3>2, <3>3, <3>5, Zenon
  <2>5. i <= m \/ i = m + 1 \/ i > m + 1
    BY <1>3
  <2> QED BY <2>2, <2>3, <2>4, <2>5, Zenon
<1> QED BY <1>1, <1>2, <1>4, <1>6, <1>8, <1>9, FlatIs, ZenonT(60)

(* One more text is put at the end.                                        *)
LEMMA FlatAppend ==
    ASSUME NEW T, NEW a \in Seq(Seq(T)), NEW s \in Seq(T)
    PROVE  N!Flat(Append(a, s)) = N!Flat(a) \o s
<1>1. Append(a, s) = a \o <<s>> /\ <<s>> \in Seq(Seq(T))
  BY AppendIsConcat
<1>2. N!Flat(a \o <<s>>) = N!Flat(a) \o N!Flat(<<s>>)
  BY <1>1, FlatConcat
<1>3. N!Flat(<<s>>) = s
  BY FlatOne
<1> QED BY <1>1, <1>2, <1>3, Zenon

(* More at the end of the last one.                                        *)
LEMMA FlatPut ==
    ASSUME NEW T, NEW a \in Seq(Seq(T)), Len(a) > 0, NEW w \in Seq(T)
    PROVE  N!Flat([a EXCEPT ![Len(a)] = a[Len(a)] \o w]) = N!Flat(a) \o w
<1> DEFINE n == Len(a)
           b == [a EXCEPT ![n] = a[n] \o w]
<1>0. Joins(T)
  BY Assoc
<1>1. PICK g \in [0..n -> Seq(T)] :
              g[0] = <<>> /\ (\A i \in 1..n : g[i] = g[i - 1] \o a[i]) /\ N!Flat(a) = g[n]
  BY FlatFold
<1>2. n \in Nat \ {0} /\ \A i \in 1..n : a[i] \in Seq(T)
  OBVIOUS
<1>3. /\ b \in Seq(Seq(T)) /\ Len(b) = n /\ b[n] = a[n] \o w
      /\ \A i \in 1..n : i # n => b[i] = a[i]
  <2>1. a[n] \o w \in Seq(T)
    BY <1>2, ConcatProperties
  <2> QED BY <1>2, <2>1
<1> DEFINE h == [g EXCEPT ![n] = g[n] \o w]
<1>4. h[n] = g[n] \o w /\ \A i \in 0..n : i # n => h[i] = g[i]
  BY <1>1, <1>2
<1> HIDE DEF h, b, n
<1>5. h[0] = <<>>
  <2>1. 0 \in 0..n /\ 0 # n
    BY <1>2
  <2>2. h[0] = g[0]
    BY <1>4, <2>1
  <2> QED BY <1>1, <2>2
<1>6. ASSUME NEW i \in 1..n PROVE h[i] = h[i - 1] \o b[i]
  <2>1. h[i - 1] = g[i - 1] /\ g[i - 1] \in Seq(T)
    <3>1. i - 1 \in 0..n /\ i - 1 # n
      BY <1>2
    <3> QED BY <1>1, <1>4, <3>1
  <2>2. CASE i = n
    <3>1. g[i] = g[i - 1] \o a[i] /\ a[i] \in Seq(T)
      BY <1>1, <1>2, Zenon
    <3>2. (g[i - 1] \o a[i]) \o w = g[i - 1] \o (a[i] \o w)
      BY <1>0, <2>1, <3>1, Zenon DEF Joins
    <3>3. h[i] = g[i] \o w /\ b[i] = a[i] \o w
      BY <1>3, <1>4, <2>2, Zenon
    <3> QED BY <2>1, <3>1, <3>2, <3>3, Zenon
  <2>3. CASE i # n
    <3>1. i \in 0..n
      BY <1>2
    <3>2. h[i] = g[i] /\ b[i] = a[i] /\ g[i] = g[i - 1] \o a[i]
      BY <1>1, <1>3, <1>4, <2>3, <3>1, Zenon
    <3> QED BY <2>1, <3>2, Zenon
  <2> QED BY <2>2, <2>3
<1>7. N!Flat(b) = h[n]
  BY <1>3, <1>5, <1>6, FlatIs
<1> QED BY <1>1, <1>4, <1>7 DEF b, n

(* A text is what its sentences, one by one, put together.                 *)
LEMMA FlatSingles ==
    ASSUME NEW T, NEW t \in Seq(T), NEW ss, ss = [p \in DOMAIN t |-> <<t[p]>>]
    PROVE  ss \in Seq(Seq(T)) /\ N!Flat(ss) = t
<1> DEFINE n == Len(t)
           h == [i \in 0..n |-> SubSeq(t, 1, i)]
<1>1. n \in Nat /\ DOMAIN t = 1..n /\ \A i \in 1..n : t[i] \in T
  OBVIOUS
<1>2. ss \in Seq(Seq(T)) /\ Len(ss) = n /\ \A i \in 1..n : ss[i] = <<t[i]>>
  <2>1. \A i \in 1..n : <<t[i]>> \in Seq(T)
    BY <1>1
  <2> QED BY <1>1, <2>1
<1>3. \A i \in 0..n : h[i] = SubSeq(t, 1, i)
  OBVIOUS
<1> HIDE DEF h
<1>4. h[0] = <<>> /\ h[n] = t
  BY <1>1, <1>3
<1>5. ASSUME NEW i \in 1..n PROVE h[i] = h[i - 1] \o ss[i]
  <2>1. i \in 0..n /\ i - 1 \in 0..n
    BY <1>1
  <2>2. SubSeq(t, 1, i) = SubSeq(t, 1, i - 1) \o <<t[i]>>
    BY <1>1, <2>1
  <2> QED BY <1>2, <1>3, <2>1, <2>2
<1> HIDE DEF n
<1> QED BY <1>2, <1>4, <1>5, FlatIs

(* What is in one of them is in them.                                      *)
LEMMA FlatWords ==
    ASSUME NEW T, NEW ss \in Seq(Seq(T))
    PROVE  N!Words(N!Flat(ss)) = UNION {N!Words(ss[i]) : i \in DOMAIN ss}
<1> DEFINE n == Len(ss)
<1>1. PICK g \in [0..n -> Seq(T)] :
              g[0] = <<>> /\ (\A i \in 1..n : g[i] = g[i - 1] \o ss[i]) /\ N!Flat(ss) = g[n]
  BY FlatFold
<1>2. n \in Nat /\ DOMAIN ss = 1..n /\ \A i \in 1..n : ss[i] \in Seq(T)
  OBVIOUS
<1> DEFINE Of(i) == UNION {N!Words(ss[k]) : k \in 1..i}
           S == {i \in 0..n : N!Words(g[i]) = Of(i)}
<1> HIDE DEF n
<1>3. 0 \in S
  <2>1. N!Words(g[0]) = {}
    BY <1>1 DEF N!Words
  <2>2. Of(0) = {} /\ 0 \in 0..n
    BY <1>2
  <2> QED BY <2>1, <2>2
<1>4. ASSUME NEW i \in 1..n, i - 1 \in S PROVE i \in S
  <2>0. i - 1 \in 0..n /\ i \in 0..n
    BY <1>2
  <2>1. i - 1 \in 0..n /\ i \in 0..n /\ g[i - 1] \in Seq(T) /\ ss[i] \in Seq(T)
    BY <1>1, <1>2, <2>0
  <2>2. N!Words(g[i]) = N!Words(g[i - 1]) \cup N!Words(ss[i])
    <3> DEFINE a == g[i - 1]
               b == ss[i]
    <3>0. a \in Seq(T) /\ b \in Seq(T) /\ g[i] = a \o b
      BY <1>1, <2>1
    <3> HIDE DEF a, b
    <3>1. /\ a \o b \in Seq(T) /\ Len(a \o b) = Len(a) + Len(b)
          /\ \A j \in 1..(Len(a) + Len(b)) : (a \o b)[j] = IF j <= Len(a) THEN a[j] ELSE b[j - Len(a)]
      BY <3>0, ConcatProperties
    <3>2. Len(a) \in Nat /\ Len(b) \in Nat /\ DOMAIN a = 1..Len(a) /\ DOMAIN b = 1..Len(b)
          /\ DOMAIN (a \o b) = 1..(Len(a) + Len(b))
      BY <3>0, <3>1
    <3>3. ASSUME NEW j \in DOMAIN (a \o b) PROVE (a \o b)[j] \in N!Words(a) \cup N!Words(b)
      <4>1. CASE j <= Len(a)
        BY <3>1, <3>2, <4>1 DEF N!Words
      <4>2. CASE ~(j <= Len(a))
        <5>1. j - Len(a) \in 1..Len(b)
          BY <3>2, <4>2
        <5> QED BY <3>1, <3>2, <4>2, <5>1 DEF N!Words
      <4> QED BY <4>1, <4>2
    <3>4. ASSUME NEW j \in 1..Len(a) PROVE a[j] \in N!Words(a \o b)
      <4>1. j \in 1..(Len(a) + Len(b)) /\ j <= Len(a)
        BY <3>2
      <4> QED BY <3>1, <3>2, <4>1 DEF N!Words
    <3>5. ASSUME NEW j \in 1..Len(b) PROVE b[j] \in N!Words(a \o b)
      <4>1. j + Len(a) \in 1..(Len(a) + Len(b)) /\ ~(j + Len(a) <= Len(a)) /\ (j + Len(a)) - Len(a) = j
        BY <3>2
      <4>2. (a \o b)[j + Len(a)] = b[j]
        BY <3>1, <4>1
      <4> QED BY <3>2, <4>1, <4>2 DEF N!Words
    <3>6. N!Words(a \o b) = N!Words(a) \cup N!Words(b)
      BY <3>2, <3>3, <3>4, <3>5 DEF N!Words
    <3> QED BY <3>0, <3>6 DEF a, b
  <2>3. Of(i) = Of(i - 1) \cup N!Words(ss[i])
    <3>1. 1..i = 1..(i - 1) \cup {i}
      BY <1>2
    <3> QED BY <3>1
  <2> QED BY <1>4, <2>1, <2>2, <2>3
<1>5. n \in S
  <2> HIDE DEF S
  <2>1. 0..n \subseteq S
    BY <1>2, <1>3, <1>4, Induction
  <2> QED BY <1>2, <2>1
<1> QED BY <1>1, <1>2, <1>5

(* A function on 1..n is a sequence.                                       *)
LEMMA MakeSeq ==
    ASSUME NEW S, NEW n \in Nat, NEW f, DOMAIN f = 1..n, f = [k \in DOMAIN f |-> f[k]],
           \A k \in 1..n : f[k] \in S
    PROVE  f \in Seq(S) /\ Len(f) = n
OBVIOUS

(* The parts of a verb ending and its sentence are put together.           *)
LEMMA FlatAttach ==
    ASSUME NEW T, NEW a \in Seq(Seq(T) \ {<<>>}), NEW i \in 1..(Len(a) - 1)
    PROVE  /\ N!Attach(a, i) \in Seq(Seq(T) \ {<<>>}) /\ Len(N!Attach(a, i)) = Len(a) - 1
           /\ N!Flat(N!Attach(a, i)) = N!Flat(a)
<1> DEFINE n == Len(a)
           b == N!Attach(a, i)
<1>1. a \in Seq(Seq(T)) /\ n \in Nat /\ \A k \in 1..n : a[k] \in Seq(T) /\ a[k] # <<>>
  OBVIOUS
<1>2. PICK g \in [0..n -> Seq(T)] :
              g[0] = <<>> /\ (\A k \in 1..n : g[k] = g[k - 1] \o a[k]) /\ N!Flat(a) = g[n]
  BY <1>1, FlatFold
<1>3. \A k \in 1..(n - 1) : b[k] = IF k < i THEN a[k] ELSE IF k = i THEN a[i] \o a[i + 1] ELSE a[k + 1]
  BY DEF N!Attach
<1>4. ASSUME NEW k \in 1..(n - 1) PROVE b[k] \in Seq(T) /\ b[k] # <<>>
  <2> HIDE DEF b, n
  <2>1. i \in 1..n /\ i + 1 \in 1..n /\ k \in 1..n /\ k + 1 \in 1..n
    BY <1>1 DEF n
  <2>2. a[i] \o a[i + 1] \in Seq(T) /\ a[i] \o a[i + 1] # <<>>
    BY <1>1, <2>1, ConcatProperties, ConcatEqualIffEmpty
  <2> QED BY <1>1, <1>3, <2>1, <2>2
<1>5. b = [k \in DOMAIN b |-> b[k]] /\ DOMAIN b = 1..(n - 1) /\ n - 1 \in Nat
  <2>1. b = [k \in DOMAIN b |-> b[k]] /\ DOMAIN b = 1..(n - 1)
    BY DEF N!Attach
  <2>2. n - 1 \in Nat
    BY <1>1
  <2> QED BY <2>1, <2>2
<1>6. b \in Seq(Seq(T) \ {<<>>}) /\ b \in Seq(Seq(T)) /\ Len(b) = n - 1
  <2> HIDE DEF b, n
  <2>1. \A k \in 1..(n - 1) : b[k] \in Seq(T) \ {<<>>}
    BY <1>4
  <2>2. b \in Seq(Seq(T) \ {<<>>}) /\ Len(b) = n - 1
    BY <1>5, <2>1, MakeSeq
  <2> QED BY <2>2
<1> DEFINE h == [k \in 0..(n - 1) |-> IF k < i THEN g[k] ELSE g[k + 1]]
<1>7. \A k \in 0..(n - 1) : h[k] = IF k < i THEN g[k] ELSE g[k + 1]
  OBVIOUS
<1>8. i \in 1..(n - 1)
  OBVIOUS
<1>9. Joins(T)
  BY Assoc
<1> HIDE DEF h, b, n
<1>10. h[0] = <<>> /\ h[n - 1] = g[n]
  <2>1. 0 \in 0..(n - 1) /\ n - 1 \in 0..(n - 1) /\ 0 < i /\ ~(n - 1 < i) /\ (n - 1) + 1 = n
    BY <1>1, <1>8
  <2> QED BY <1>2, <1>7, <2>1
<1>11. ASSUME NEW k \in 1..(n - 1) PROVE h[k] = h[k - 1] \o b[k]
  <2>1. /\ k \in 0..(n - 1) /\ k - 1 \in 0..(n - 1) /\ k \in 1..n /\ k - 1 \in 0..n /\ k + 1 \in 1..n
        /\ i \in 1..n /\ i + 1 \in 1..n /\ i - 1 \in 0..n /\ (k + 1) - 1 = k /\ (k - 1) + 1 = k /\ (i + 1) - 1 = i
        /\ (k < i => k - 1 < i) /\ (k = i => k - 1 < i) /\ (k > i => ~(k - 1 < i)) /\ (k < i \/ k = i \/ k > i)
        /\ (k = i => ~(k < i)) /\ (k > i => ~(k < i) /\ k # i)
    BY <1>1, <1>8
  <2>2. CASE k < i
    <3>1. h[k] = g[k] /\ h[k - 1] = g[k - 1] /\ b[k] = a[k] /\ g[k] = g[k - 1] \o a[k]
      BY <1>2, <1>3, <1>7, <2>1, <2>2
    <3> QED BY <3>1, Zenon
  <2>3. CASE k = i
    <3>1. h[k] = g[i + 1] /\ h[k - 1] = g[i - 1] /\ b[k] = a[i] \o a[i + 1]
      BY <1>3, <1>7, <2>1, <2>3
    <3>2. g[i + 1] = g[i] \o a[i + 1] /\ g[i] = g[i - 1] \o a[i]
      BY <1>2, <2>1
    <3>3. g[i - 1] \in Seq(T) /\ a[i] \in Seq(T) /\ a[i + 1] \in Seq(T)
      BY <1>1, <1>2, <2>1
    <3>4. (g[i - 1] \o a[i]) \o a[i + 1] = g[i - 1] \o (a[i] \o a[i + 1])
      BY <1>9, <3>3, Zenon DEF Joins
    <3> QED BY <3>1, <3>2, <3>4, Zenon
  <2>4. CASE k > i
    <3>1. h[k] = g[k + 1] /\ h[k - 1] = g[k] /\ b[k] = a[k + 1] /\ g[k + 1] = g[k] \o a[k + 1]
      BY <1>2, <1>3, <1>7, <2>1, <2>4
    <3> QED BY <3>1, Zenon
  <2> QED BY <2>1, <2>2, <2>3, <2>4
<1>12. N!Flat(b) = h[n - 1]
  BY <1>6, <1>10, <1>11, FlatIs
<1> QED BY <1>2, <1>6, <1>10, <1>12 DEF b, n

(* Those of a sequence that are in a set.                                  *)
OnesOf(t, X)  == [p \in DOMAIN t |-> IF t[p] \in X THEN <<t[p]>> ELSE <<>>]
Picked(t, X) == N!Flat(OnesOf(t, X))

AreOnes(u, T, t, X) ==
    /\ u \in Seq(Seq(T)) /\ u \in Seq(Seq(T \cap X)) /\ Len(u) = Len(t)
    /\ DOMAIN u = DOMAIN t /\ DOMAIN t = 1..Len(t)
    /\ \A i \in 1..Len(t) : t[i] \in T /\ u[i] = IF t[i] \in X THEN <<t[i]>> ELSE <<>>

(* The sentences of a text that are in X, and the others not.              *)
LEMMA OnesType ==
    ASSUME NEW T, NEW t \in Seq(T), NEW X
    PROVE  AreOnes(OnesOf(t, X), T, t, X)
<1> DEFINE u == OnesOf(t, X)
<1>1. Len(t) \in Nat /\ DOMAIN t = 1..Len(t) /\ \A i \in 1..Len(t) : t[i] \in T
  OBVIOUS
<1>2. \A i \in 1..Len(t) : u[i] = IF t[i] \in X THEN <<t[i]>> ELSE <<>>
  BY <1>1 DEF OnesOf
<1>3. u = [k \in DOMAIN u |-> u[k]] /\ DOMAIN u = 1..Len(t)
  BY <1>1 DEF OnesOf
<1> HIDE DEF u
<1>4. ASSUME NEW i \in 1..Len(t) PROVE u[i] \in Seq(T \cap X) /\ u[i] \in Seq(T)
  <2>1. CASE t[i] \in X
    <3>1. t[i] \in T \cap X
      BY <1>1, <2>1
    <3>2. <<t[i]>> \in Seq(T \cap X) /\ <<t[i]>> \in Seq(T)
      BY <3>1
    <3>3. u[i] = <<t[i]>>
      BY <1>2, <2>1
    <3> QED BY <3>2, <3>3
  <2>2. CASE t[i] \notin X
    <3>1. u[i] = <<>>
      BY <1>2, <2>2
    <3> QED BY <3>1
  <2> QED BY <2>1, <2>2
<1>5. u \in Seq(Seq(T)) /\ u \in Seq(Seq(T \cap X)) /\ Len(u) = Len(t)
  <2>1. \A i \in 1..Len(t) : u[i] \in Seq(T \cap X)
    BY <1>4
  <2>2. u \in Seq(Seq(T \cap X))
    BY <1>1, <1>3, <2>1, MakeSeq
  <2>3. \A i \in 1..Len(t) : u[i] \in Seq(T)
    BY <1>4
  <2>4. u \in Seq(Seq(T)) /\ Len(u) = Len(t)
    BY <1>1, <1>3, <2>3, MakeSeq
  <2> QED BY <2>2, <2>4
<1>6. AreOnes(u, T, t, X)
  BY <1>1, <1>2, <1>3, <1>5 DEF AreOnes
<1> QED BY <1>6 DEF u

LEMMA PickedType ==
    ASSUME NEW T, NEW t \in Seq(T), NEW X
    PROVE  Picked(t, X) \in Seq(T) /\ Picked(t, X) \in Seq(T \cap X)
<1>1. AreOnes(OnesOf(t, X), T, t, X)
  BY OnesType
<1>2. OnesOf(t, X) \in Seq(Seq(T)) /\ OnesOf(t, X) \in Seq(Seq(T \cap X))
  BY <1>1 DEF AreOnes
<1> QED BY <1>2, FlatType DEF Picked

(* Where all are in X the text stays.                                      *)
LEMMA PickedAll ==
    ASSUME NEW T, NEW t \in Seq(T), NEW X, T \subseteq X
    PROVE  Picked(t, X) = t
<1>1. DOMAIN t = 1..Len(t) /\ \A i \in 1..Len(t) : t[i] \in X
  OBVIOUS
<1>2. OnesOf(t, X) = [p \in DOMAIN t |-> <<t[p]>>]
  BY <1>1 DEF OnesOf
<1> QED BY <1>2, FlatSingles DEF Picked

LEMMA PickedOne ==
    ASSUME NEW x, NEW X
    PROVE  Picked(<<x>>, X) = (IF x \in X THEN <<x>> ELSE <<>>) /\ Picked(<<>>, X) = <<>>
<1>1. OnesOf(<<x>>, X) = <<IF x \in X THEN <<x>> ELSE <<>>>>
  BY DEF OnesOf
<1>2. (IF x \in X THEN <<x>> ELSE <<>>) \in Seq({x})
  <2>1. <<x>> \in Seq({x}) /\ <<>> \in Seq({x})
    OBVIOUS
  <2> QED BY <2>1
<1>3. OnesOf(<<>>, X) = <<>>
  BY DEF OnesOf
<1>4. N!Flat(<<IF x \in X THEN <<x>> ELSE <<>>>>) = IF x \in X THEN <<x>> ELSE <<>>
  <2> DEFINE s == IF x \in X THEN <<x>> ELSE <<>>
  <2> HIDE DEF s
  <2> QED BY <1>2, FlatOne DEF s
<1> QED BY <1>1, <1>3, <1>4, FlatEmpty, Zenon DEF Picked

(* Picking goes through the putting together of texts.                     *)
LEMMA PickedConcat ==
    ASSUME NEW T, NEW a \in Seq(T), NEW b \in Seq(T), NEW X
    PROVE  Picked(a \o b, X) = Picked(a, X) \o Picked(b, X)
<1> DEFINE m == Len(a)
           n == Len(b)
           u == OnesOf(a, X)
           v == OnesOf(b, X)
           w == OnesOf(a \o b, X)
<1>1. /\ a \o b \in Seq(T) /\ Len(a \o b) = m + n /\ m \in Nat /\ n \in Nat
      /\ \A i \in 1..(m + n) : (a \o b)[i] = IF i <= m THEN a[i] ELSE b[i - m]
  BY ConcatProperties
<1>a. AreOnes(u, T, a, X) /\ AreOnes(v, T, b, X) /\ AreOnes(w, T, a \o b, X)
  BY <1>1, OnesType
<1> HIDE DEF u, v, w
<1>2. /\ u \in Seq(Seq(T)) /\ Len(u) = m
      /\ \A i \in 1..m : u[i] = IF a[i] \in X THEN <<a[i]>> ELSE <<>>
  BY <1>a DEF AreOnes
<1>3. /\ v \in Seq(Seq(T)) /\ Len(v) = n
      /\ \A i \in 1..n : v[i] = IF b[i] \in X THEN <<b[i]>> ELSE <<>>
  BY <1>a DEF AreOnes
<1>4. /\ w \in Seq(Seq(T)) /\ Len(w) = m + n
      /\ \A i \in 1..(m + n) : w[i] = IF (a \o b)[i] \in X THEN <<(a \o b)[i]>> ELSE <<>>
  <2> DEFINE ab == a \o b
  <2> HIDE DEF ab
  <2> QED BY <1>1, <1>a DEF AreOnes, ab
<1>5. /\ u \o v \in Seq(Seq(T)) /\ Len(u \o v) = m + n
      /\ \A i \in 1..(m + n) : (u \o v)[i] = IF i <= m THEN u[i] ELSE v[i - m]
  <2>1. IsJoin(u \o v, Seq(T), u, v)
    BY <1>2, <1>3, JoinIs
  <2> QED BY <1>2, <1>3, <2>1 DEF IsJoin
<1> HIDE DEF m, n
<1>6. ASSUME NEW i \in 1..(m + n) PROVE w[i] = (u \o v)[i]
  <2>1. CASE i <= m
    <3>1. i \in 1..m
      BY <1>1, <2>1
    <3> QED BY <1>1, <1>2, <1>4, <1>5, <2>1, <3>1, ZenonT(60)
  <2>2. CASE ~(i <= m)
    <3>1. i - m \in 1..n
      BY <1>1, <2>2
    <3> QED BY <1>1, <1>3, <1>4, <1>5, <2>2, <3>1
  <2> QED BY <2>1, <2>2
<1>7. w = u \o v
  BY <1>4, <1>5, <1>6, SeqEqual
<1> QED BY <1>2, <1>3, <1>7, FlatConcat DEF Picked, u, v, w

PicksOf(ss, X) == [i \in DOMAIN ss |-> Picked(ss[i], X)]
LEMMA PickedFlat ==
    ASSUME NEW T, NEW ss \in Seq(Seq(T)), NEW X
    PROVE  /\ Picked(N!Flat(ss), X) = N!Flat(PicksOf(ss, X))
           /\ PicksOf(ss, X) \in Seq(Seq(T)) /\ Len(PicksOf(ss, X)) = Len(ss)
<1> DEFINE n == Len(ss)
           ps == PicksOf(ss, X)
<1>1. PICK g \in [0..n -> Seq(T)] :
              g[0] = <<>> /\ (\A i \in 1..n : g[i] = g[i - 1] \o ss[i]) /\ N!Flat(ss) = g[n]
  BY FlatFold
<1>2. n \in Nat /\ DOMAIN ss = 1..n /\ \A i \in 1..n : ss[i] \in Seq(T)
  OBVIOUS
<1>3. \A i \in 1..n : ps[i] = Picked(ss[i], X) /\ ps[i] \in Seq(T)
  BY <1>2, PickedType DEF PicksOf
<1>4. ps \in Seq(Seq(T)) /\ Len(ps) = n
  <2>1. ps = [k \in DOMAIN ps |-> ps[k]] /\ DOMAIN ps = 1..n
    BY <1>2 DEF PicksOf
  <2> HIDE DEF ps
  <2> QED BY <1>2, <1>3, <2>1, MakeSeq
<1> DEFINE h == [i \in 0..n |-> Picked(g[i], X)]
<1>5. \A i \in 0..n : h[i] = Picked(g[i], X)
  OBVIOUS
<1> HIDE DEF h, n, ps
<1>6. h[0] = <<>> /\ h[n] = Picked(g[n], X)
  <2>1. 0 \in 0..n /\ n \in 0..n
    BY <1>2
  <2> QED BY <1>1, <1>5, <2>1, PickedOne, ZenonT(60)
<1>7. ASSUME NEW i \in 1..n PROVE h[i] = h[i - 1] \o ps[i]
  <2>1. i \in 0..n /\ i - 1 \in 0..n
    BY <1>2
  <2>2. g[i - 1] \in Seq(T) /\ ss[i] \in Seq(T) /\ g[i] = g[i - 1] \o ss[i]
    BY <1>1, <1>2, <2>1
  <2>3. Picked(g[i - 1] \o ss[i], X) = Picked(g[i - 1], X) \o Picked(ss[i], X)
    <3> DEFINE x == g[i - 1]
               y == ss[i]
    <3>1. x \in Seq(T) /\ y \in Seq(T)
      BY <2>2
    <3> HIDE DEF x, y
    <3>2. Picked(x \o y, X) = Picked(x, X) \o Picked(y, X)
      BY <3>1, PickedConcat
    <3> QED BY <3>2 DEF x, y
  <2> QED BY <1>3, <1>5, <2>1, <2>2, <2>3
<1>8. N!Flat(ps) = h[n]
  BY <1>4, <1>6, <1>7, FlatIs
<1> QED BY <1>1, <1>4, <1>6, <1>8 DEF n, ps

(* Picking by X and then by Y is picking by both.                          *)
LEMMA PickedTwice ==
    ASSUME NEW T, NEW t \in Seq(T), NEW X, NEW Y
    PROVE  Picked(Picked(t, X), Y) = Picked(t, X \cap Y)
<1> DEFINE u == OnesOf(t, X)
           ps == PicksOf(u, Y)
<1>a. AreOnes(u, T, t, X)
  BY OnesType
<1> HIDE DEF u
<1>1. /\ u \in Seq(Seq(T)) /\ DOMAIN u = DOMAIN t /\ DOMAIN t = 1..Len(t)
      /\ \A i \in 1..Len(t) : u[i] = IF t[i] \in X THEN <<t[i]>> ELSE <<>>
  BY <1>a DEF AreOnes
<1>2. Picked(N!Flat(u), Y) = N!Flat(ps)
  BY <1>1, PickedFlat
<1>3. ps = OnesOf(t, X \cap Y)
  <2>1. \A i \in DOMAIN t : Picked(u[i], Y) = IF t[i] \in X \cap Y THEN <<t[i]>> ELSE <<>>
    BY <1>1, PickedOne, ZenonT(60)
  <2> QED BY <1>1, <2>1 DEF OnesOf, PicksOf
<1> QED BY <1>2, <1>3 DEF Picked, u

(* The texts of cues: f is "source" or "target".                           *)
Texts(cs, f)   == [i \in DOMAIN cs |-> cs[i][f]]
Told(cs, f)    == N!Flat(Texts(cs, f))
Tells(C, f, T) == \A c \in C : c[f] \in Seq(T)
AreTexts(ts, cs, f, T) ==
    /\ ts \in Seq(Seq(T)) /\ Len(ts) = Len(cs) /\ DOMAIN cs = 1..Len(cs) /\ DOMAIN ts = 1..Len(cs)
    /\ \A i \in 1..Len(cs) : ts[i] = cs[i][f]

(* What cues tell is a text.                                               *)
LEMMA TextsType ==
    ASSUME NEW C, NEW f, NEW T, Tells(C, f, T), NEW cs \in Seq(C)
    PROVE  AreTexts(Texts(cs, f), cs, f, T)
<1> DEFINE ts == Texts(cs, f)
<1>1. Len(cs) \in Nat /\ DOMAIN cs = 1..Len(cs) /\ \A i \in 1..Len(cs) : cs[i] \in C
  OBVIOUS
<1>2. ts = [k \in DOMAIN ts |-> ts[k]] /\ DOMAIN ts = 1..Len(cs) /\ \A i \in 1..Len(cs) : ts[i] = cs[i][f]
  BY <1>1 DEF Texts
<1> HIDE DEF ts
<1>3. \A i \in 1..Len(cs) : ts[i] \in Seq(T)
  BY <1>1, <1>2 DEF Tells
<1>4. ts \in Seq(Seq(T)) /\ Len(ts) = Len(cs)
  BY <1>1, <1>2, <1>3, MakeSeq
<1>5. AreTexts(ts, cs, f, T)
  BY <1>1, <1>2, <1>4 DEF AreTexts
<1> QED BY <1>5 DEF ts

LEMMA ToldType ==
    ASSUME NEW C, NEW f, NEW T, Tells(C, f, T), NEW cs \in Seq(C)
    PROVE  Told(cs, f) \in Seq(T)
<1>1. AreTexts(Texts(cs, f), cs, f, T)
  BY TextsType
<1>2. Texts(cs, f) \in Seq(Seq(T))
  BY <1>1 DEF AreTexts
<1> QED BY <1>2, FlatType DEF Told

LEMMA ToldOne ==
    ASSUME NEW c, NEW f, NEW T, c[f] \in Seq(T)
    PROVE  Told(<<c>>, f) = c[f] /\ Told(<<>>, f) = <<>>
<1>1. Texts(<<c>>, f) = <<c[f]>> /\ Texts(<<>>, f) = <<>>
  BY DEF Texts
<1>2. N!Flat(<<c[f]>>) = c[f]
  BY FlatOne
<1> QED BY <1>1, <1>2, FlatEmpty, Zenon DEF Told

(* What two sequences of cues tell, and one cue more.                      *)
LEMMA ToldJoin ==
    ASSUME NEW C, NEW f, NEW T, Tells(C, f, T), NEW a \in Seq(C), NEW b \in Seq(C)
    PROVE  Told(a \o b, f) = Told(a, f) \o Told(b, f)
<1> DEFINE c == a \o b
           u == Texts(a, f)
           v == Texts(b, f)
           w == Texts(c, f)
<1>1. IsJoin(c, C, a, b)
  BY JoinIs
<1> HIDE DEF c
<1>2. c \in Seq(C)
  BY <1>1 DEF IsJoin
<1>3. AreTexts(u, a, f, T) /\ AreTexts(v, b, f, T) /\ AreTexts(w, c, f, T)
  BY <1>2, TextsType
<1> HIDE DEF u, v, w
<1>4. u \in Seq(Seq(T)) /\ v \in Seq(Seq(T)) /\ w \in Seq(Seq(T))
  BY <1>3 DEF AreTexts
<1>5. IsJoin(u \o v, Seq(T), u, v)
  BY <1>4, JoinIs
<1>6. Len(a) \in Nat /\ Len(b) \in Nat
  OBVIOUS
<1>7. Len(w) = Len(a) + Len(b) /\ Len(u \o v) = Len(a) + Len(b) /\ u \o v \in Seq(Seq(T))
  BY <1>1, <1>3, <1>5 DEF AreTexts, IsJoin
<1>8. ASSUME NEW i \in 1..Len(w) PROVE w[i] = (u \o v)[i]
  <2>1. CASE i <= Len(a)
    <3>1. i \in 1..Len(a) /\ i \in 1..(Len(a) + Len(b))
      BY <1>6, <1>7, <2>1
    <3>2. w[i] = c[i][f] /\ c[i] = a[i] /\ u[i] = a[i][f]
      BY <1>1, <1>3, <2>1, <3>1 DEF AreTexts, IsJoin
    <3>3. (u \o v)[i] = u[i]
      BY <1>3, <1>5, <2>1, <3>1 DEF AreTexts, IsJoin
    <3> QED BY <3>2, <3>3
  <2>2. CASE ~(i <= Len(a))
    <3>1. i - Len(a) \in 1..Len(b) /\ i \in 1..(Len(a) + Len(b))
      BY <1>6, <1>7, <2>2
    <3>2. w[i] = c[i][f] /\ c[i] = b[i - Len(a)] /\ v[i - Len(a)] = b[i - Len(a)][f]
      BY <1>1, <1>3, <2>2, <3>1 DEF AreTexts, IsJoin
    <3>3. (u \o v)[i] = v[i - Len(a)]
      BY <1>3, <1>5, <2>2, <3>1 DEF AreTexts, IsJoin
    <3> QED BY <3>2, <3>3
  <2> QED BY <2>1, <2>2
<1>9. w = u \o v
  BY <1>4, <1>7, <1>8, SeqEqual
<1>10. N!Flat(u \o v) = N!Flat(u) \o N!Flat(v)
  BY <1>4, FlatConcat
<1> QED BY <1>9, <1>10 DEF Told, u, v, w, c

LEMMA ToldAppend ==
    ASSUME NEW C, NEW f, NEW T, Tells(C, f, T), NEW a \in Seq(C), NEW c \in C
    PROVE  Append(a, c) \in Seq(C) /\ Told(Append(a, c), f) = Told(a, f) \o c[f]
<1>1. Append(a, c) = a \o <<c>> /\ <<c>> \in Seq(C) /\ Append(a, c) \in Seq(C)
  BY AppendIsConcat
<1>2. Told(a \o <<c>>, f) = Told(a, f) \o Told(<<c>>, f)
  BY <1>1, ToldJoin
<1>3. c[f] \in Seq(T)
  BY DEF Tells
<1>4. Told(<<c>>, f) = c[f]
  BY <1>3, ToldOne
<1> QED BY <1>1, <1>2, <1>4, Zenon

(* Cues with the same texts tell the same.                                 *)
LEMMA ToldSame ==
    ASSUME NEW a, NEW b, NEW f, DOMAIN a = DOMAIN b, \A i \in DOMAIN a : a[i][f] = b[i][f]
    PROVE  Told(a, f) = Told(b, f)
<1>1. Texts(a, f) = Texts(b, f)
  BY DEF Texts
<1> QED BY <1>1 DEF Told

(* The last cue says more.                                                 *)
PutLast(a, c) == [a EXCEPT ![Len(a)] = c]
SaysMore(C, f, T, a, c, x) ==
    Tells(C, f, T) /\ a \in Seq(C) /\ Len(a) > 0 /\ c \in C /\ x \in Seq(T) /\ c[f] = a[Len(a)][f] \o x
LEMMA ToldLast ==
    ASSUME NEW C, NEW f, NEW T, NEW a, NEW c, NEW x, SaysMore(C, f, T, a, c, x)
    PROVE  Told(PutLast(a, c), f) = Told(a, f) \o x
<1>0. Tells(C, f, T) /\ a \in Seq(C) /\ Len(a) > 0 /\ c \in C /\ x \in Seq(T) /\ c[f] = a[Len(a)][f] \o x
  BY DEF SaysMore
<1> DEFINE n == Len(a)
           b == [a EXCEPT ![n] = c]
           u == Texts(a, f)
<1>1. n \in 1..n /\ DOMAIN a = 1..n /\ DOMAIN b = 1..n /\ b[n] = c /\ \A i \in 1..n : i # n => b[i] = a[i]
  BY <1>0
<1> HIDE DEF b, n
<1>2. AreTexts(u, a, f, T)
  BY <1>0, TextsType
<1>3. u \in Seq(Seq(T)) /\ Len(u) = n /\ DOMAIN u = 1..n /\ \A i \in 1..n : u[i] = a[i][f]
  BY <1>2 DEF AreTexts, n
<1> HIDE DEF u
<1>4. Texts(b, f) = [u EXCEPT ![n] = u[n] \o x]
  <2>1. \A i \in 1..n : b[i][f] = [u EXCEPT ![n] = u[n] \o x][i]
    BY <1>0, <1>1, <1>3 DEF n
  <2>2. Texts(b, f) = [i \in 1..n |-> b[i][f]]
    BY <1>1 DEF Texts
  <2>3. [u EXCEPT ![n] = u[n] \o x] = [i \in 1..n |-> [u EXCEPT ![n] = u[n] \o x][i]]
    BY <1>3
  <2> QED BY <2>1, <2>2, <2>3
<1>5. Len(u) > 0
  BY <1>0, <1>3 DEF n
<1>6. N!Flat([u EXCEPT ![Len(u)] = u[Len(u)] \o x]) = N!Flat(u) \o x
  BY <1>0, <1>3, <1>5, FlatPut
<1> QED BY <1>3, <1>4, <1>6 DEF Told, PutLast, b, u, n

ToldOf(ccs, f) == [j \in DOMAIN ccs |-> Told(ccs[j], f)]
LEMMA ToldFlat ==
    ASSUME NEW C, NEW f, NEW T, Tells(C, f, T), NEW ccs \in Seq(Seq(C))
    PROVE  Told(N!Flat(ccs), f) = N!Flat(ToldOf(ccs, f))
<1> DEFINE n == Len(ccs)
           ps == ToldOf(ccs, f)
<1>1. PICK g \in [0..n -> Seq(C)] :
              g[0] = <<>> /\ (\A i \in 1..n : g[i] = g[i - 1] \o ccs[i]) /\ N!Flat(ccs) = g[n]
  BY FlatFold
<1>2. n \in Nat /\ DOMAIN ccs = 1..n /\ \A i \in 1..n : ccs[i] \in Seq(C)
  OBVIOUS
<1>3. \A i \in 1..n : ps[i] = Told(ccs[i], f) /\ ps[i] \in Seq(T)
  <2>1. \A cs \in Seq(C) : Told(cs, f) \in Seq(T)
    BY ToldType
  <2> QED BY <1>2, <2>1 DEF ToldOf
<1>4. ps \in Seq(Seq(T)) /\ Len(ps) = n
  <2>1. ps = [k \in DOMAIN ps |-> ps[k]] /\ DOMAIN ps = 1..n
    BY <1>2 DEF ToldOf
  <2> HIDE DEF ps
  <2> QED BY <1>2, <1>3, <2>1, MakeSeq
<1> DEFINE h == [i \in 0..n |-> Told(g[i], f)]
<1>5. \A i \in 0..n : h[i] = Told(g[i], f)
  OBVIOUS
<1> HIDE DEF h, n, ps
<1>6. h[0] = <<>> /\ h[n] = Told(g[n], f)
  <2>1. 0 \in 0..n /\ n \in 0..n
    BY <1>2
  <2>2. Told(<<>>, f) = <<>>
    BY FlatEmpty DEF Told, Texts
  <2> QED BY <1>1, <1>5, <2>1, <2>2
<1>7. ASSUME NEW i \in 1..n PROVE h[i] = h[i - 1] \o ps[i]
  <2>1. i \in 0..n /\ i - 1 \in 0..n
    BY <1>2
  <2>2. g[i - 1] \in Seq(C) /\ ccs[i] \in Seq(C) /\ g[i] = g[i - 1] \o ccs[i]
    BY <1>1, <1>2, <2>1
  <2>3. Told(g[i - 1] \o ccs[i], f) = Told(g[i - 1], f) \o Told(ccs[i], f)
    <3> DEFINE x == g[i - 1]
               y == ccs[i]
    <3>1. x \in Seq(C) /\ y \in Seq(C)
      BY <2>2
    <3> HIDE DEF x, y
    <3>2. Told(x \o y, f) = Told(x, f) \o Told(y, f)
      BY <3>1, ToldJoin
    <3> QED BY <3>2 DEF x, y
  <2> QED BY <1>3, <1>5, <2>1, <2>2, <2>3
<1>8. N!Flat(ps) = h[n]
  BY <1>4, <1>6, <1>7, FlatIs
<1> QED BY <1>1, <1>6, <1>8 DEF n, ps

(* What has letters, and what is left of a text without marks.             *)
Marked   == {s \in N!Sentence : s.kind = "mark" => s.len = 0}
Lettered == {s \in N!Sentence : s.len > 0}
Spelt    == {s \in N!Sentence : s.kind # "mark"}

(* The content of a text is its sentences with letters; a mark has none.   *)
LEMMA ContentIs ==
    ASSUME NEW t \in Seq(Marked)
    PROVE  N!ContentOf(t) = Picked(t, Lettered) /\ N!Stripped(t) = Picked(t, Spelt)
<1>1. \A i \in DOMAIN t : t[i] \in N!Sentence
  BY DEF Marked
<1>2. [i \in DOMAIN t |-> IF t[i].len > 0 THEN <<t[i]>> ELSE <<>>] = OnesOf(t, Lettered)
  BY <1>1 DEF OnesOf, Lettered
<1>3. [i \in DOMAIN t |-> IF t[i].kind # "mark" THEN <<t[i]>> ELSE <<>>] = OnesOf(t, Spelt)
  BY <1>1 DEF OnesOf, Spelt
<1> QED BY <1>2, <1>3, Zenon DEF Picked, N!ContentOf, N!Stripped, N!Chosen

LEMMA ContentStripped ==
    ASSUME NEW t \in Seq(Marked)
    PROVE  /\ N!Stripped(t) \in Seq(Marked) /\ N!ContentOf(N!Stripped(t)) = N!ContentOf(t)
           /\ N!ContentOf(t) \in Seq(Marked)
<1>1. Picked(t, Spelt) \in Seq(Marked) /\ Picked(t, Lettered) \in Seq(Marked)
  BY PickedType
<1>2. Picked(Picked(t, Spelt), Lettered) = Picked(t, Spelt \cap Lettered)
  BY PickedTwice
<1>3. \A i \in DOMAIN t : t[i] \in Lettered <=> t[i] \in Spelt \cap Lettered
  <2>1. \A i \in DOMAIN t : t[i] \in Marked
    OBVIOUS
  <2>2. \A s \in Marked : s \in Lettered => s \in Spelt
    BY DEF Marked, Lettered, Spelt, N!Sentence
  <2> QED BY <2>1, <2>2
<1>4. OnesOf(t, Spelt \cap Lettered) = OnesOf(t, Lettered)
  BY <1>3 DEF OnesOf
<1> QED BY <1>1, <1>2, <1>4, ContentIs DEF Picked

LEMMA ContentsIs ==
    ASSUME NEW ts \in Seq(Seq(Marked))
    PROVE  N!Contents(ts) = N!ContentOf(N!Flat(ts))
<1>1. N!Flat(ts) \in Seq(Marked)
  BY FlatType
<1>2. N!ContentOf(N!Flat(ts)) = Picked(N!Flat(ts), Lettered)
  BY <1>1, ContentIs
<1>3. Picked(N!Flat(ts), Lettered) = N!Flat(PicksOf(ts, Lettered))
  BY PickedFlat
<1>4. [i \in DOMAIN ts |-> N!ContentOf(ts[i])] = PicksOf(ts, Lettered)
  <2>1. \A t \in Seq(Marked) : N!ContentOf(t) = Picked(t, Lettered)
    BY ContentIs
  <2>2. \A i \in DOMAIN ts : ts[i] \in Seq(Marked)
    OBVIOUS
  <2> QED BY <2>1, <2>2 DEF PicksOf
<1> QED BY <1>2, <1>3, <1>4, Zenon DEF N!Contents

(* Cues whose text is of sentences in T and whose start is in S.           *)
AllEnds     == {<<>>} \cup UNION {{m[i].ends : i \in DOMAIN m} : m \in Manifests}
Loose(T, S) == [start : S, end : Int, source : Seq(T), target : Seq(Marked), ends : AllEnds]
Cue(T, S)   == {c \in Loose(T, S) : c.source # <<>>}

(* What the assumptions give.                                              *)
LEMMA Constants ==
    /\ ExtendMs \in Nat /\ SnapGap \in Nat /\ MinBlank \in Nat /\ MinDuration \in Nat /\ MinDuration > 0
    /\ TightPart \in Nat /\ ScreenPart \in Nat
BY CuesAssumption DEF N!NormalizeAssumption

LEMMA EndsAre == \A e \in AllEnds : \A k \in DOMAIN e : e[k] \in Int
<1> SUFFICES ASSUME NEW e \in AllEnds, NEW k \in DOMAIN e PROVE e[k] \in Int
  OBVIOUS
<1>1. CASE e = <<>>
  BY <1>1
<1>2. CASE e # <<>>
  <2>1. PICK m \in Manifests : e \in {m[i].ends : i \in DOMAIN m}
    BY <1>2 DEF AllEnds
  <2>2. PICK i \in DOMAIN m : e = m[i].ends
    BY <2>1
  <2>3. N!IsCue(m[i])
    BY CuesAssumption DEF N!NormalizeAssumption
  <2> QED BY <2>2, <2>3 DEF N!IsCue
<1> QED BY <1>1, <1>2

LEMMA CuesTell ==
    ASSUME NEW T \in SUBSET Marked, NEW S
    PROVE  /\ Tells(Loose(T, S), "source", T) /\ Tells(Loose(T, S), "source", Marked)
           /\ Tells(Loose(T, S), "target", Marked)
           /\ Tells(Cue(T, S), "source", T) /\ Tells(Cue(T, S), "source", Marked)
           /\ Tells(Cue(T, S), "target", Marked)
<1>1. \A t \in Seq(T) : t \in Seq(Marked)
  BY SeqMonotonic
<1> QED BY <1>1 DEF Tells, Loose, Cue

LEMMA LettersType ==
    ASSUME NEW t \in Seq(N!Sentence)
    PROVE  N!LettersOf(t) \in Nat
<1> DEFINE n == Len(t)
           V == [i \in 0..n |-> Nat]
           F == [i \in 1..n |-> [m \in Nat |-> m + t[i].len]]
           IsIt(d) == d = [i \in 0..n |-> IF i = 0 THEN 0 ELSE d[i - 1] + t[i].len]
           all == CHOOSE d : IsIt(d)
<1>1. n \in Nat /\ \A i \in 1..n : t[i].len \in Nat
  <2>1. n \in Nat /\ \A i \in 1..n : t[i] \in N!Sentence
    OBVIOUS
  <2> QED BY <2>1 DEF N!Sentence
<1>2. Stays(n, 0, V, F)
  <2> HIDE DEF n
  <2>1. 0 \in 0..n /\ \A i \in 1..n : i - 1 \in 0..n /\ i \in 0..n
    BY <1>1
  <2>2. ASSUME NEW i \in 1..n, NEW m \in V[i - 1] PROVE F[i][m] \in V[i]
    <3>1. m \in Nat /\ V[i] = Nat
      BY <2>1
    <3>2. F[i][m] = m + t[i].len
      BY <3>1
    <3> QED BY <1>1, <3>1, <3>2
  <2> QED BY <2>1, <2>2 DEF Stays
<1>3. PICK d : IsFold(d, n, 0, V, F)
  <2> HIDE DEF n, V, F
  <2> QED BY <1>1, <1>2, FoldHolds
<1>4. \A i \in 0..n : d[i] \in Nat
  <2> HIDE DEF n, F
  <2> QED BY <1>3 DEF IsFold
<1>5. IsIt(d)
  <2> HIDE DEF n, V
  <2>1. \A i \in 0..n : i = 0 \/ (i \in 1..n /\ i - 1 \in 0..n)
    BY <1>1
  <2>2. \A i \in 0..n : d[i] = IF i = 0 THEN 0 ELSE d[i - 1] + t[i].len
    BY <1>3, <1>4, <2>1 DEF IsFold
  <2>3. d = [i \in 0..n |-> d[i]]
    BY <1>3 DEF IsFold
  <2> QED BY <2>2, <2>3, Zenon
<1>6. IsIt(all)
  <2> HIDE DEF IsIt
  <2> QED BY <1>5
<1>7. N!LettersOf(t) = all[n]
  BY DEF N!LettersOf, N!Folded
<1> HIDE DEF all, n
<1> DEFINE W == {i \in 0..n : all[i] \in Nat}
<1>8. 0 \in W /\ \A i \in 1..n : i - 1 \in W => i \in W
  <2>1. 0 \in 0..n /\ \A i \in 1..n : i - 1 \in 0..n /\ i \in 0..n /\ i # 0
    BY <1>1
  <2>2. \A i \in 0..n : all[i] = IF i = 0 THEN 0 ELSE all[i - 1] + t[i].len
    BY <1>6, Zenon
  <2>3. 0 \in W
    BY <2>1, <2>2
  <2>4. ASSUME NEW i \in 1..n, i - 1 \in W PROVE i \in W
    <3>1. all[i] = all[i - 1] + t[i].len /\ i \in 0..n
      BY <2>1, <2>2
    <3>2. all[i - 1] \in Nat /\ t[i].len \in Nat
      BY <1>1, <2>4
    <3> QED BY <3>1, <3>2
  <2> QED BY <2>3, <2>4
<1>9. 0..n \subseteq W
  <2> HIDE DEF W
  <2> QED BY <1>1, <1>8, Induction
<1> QED BY <1>1, <1>7, <1>9

Share(t) == N!GreaterOf(1, N!LettersOf(t))
Upto(parts, n) == N!Folded(LAMBDA sum, k : sum + N!GreaterOf(1, N!LettersOf(parts[k])), 0, n)
LEMMA UptoType ==
    ASSUME NEW parts \in Seq(Seq(N!Sentence)), NEW n \in 0..Len(parts)
    PROVE  Upto(parts, n) \in Nat /\ (n > 0 => Upto(parts, n) > 0)
<1> DEFINE V == [i \in 0..n |-> Nat]
           F == [i \in 1..n |-> [m \in Nat |-> m + Share(parts[i])]]
           IsIt(d) == d = [i \in 0..n |-> IF i = 0 THEN 0 ELSE d[i - 1] + Share(parts[i])]
           all == CHOOSE d : IsIt(d)
<1>1. n \in Nat /\ \A i \in 1..n : Share(parts[i]) \in Nat \ {0}
  <2>1. n \in Nat /\ \A i \in 1..n : parts[i] \in Seq(N!Sentence)
    OBVIOUS
  <2>2. \A i \in 1..n : N!LettersOf(parts[i]) \in Nat
    BY <2>1, LettersType
  <2> QED BY <2>1, <2>2 DEF Share, N!GreaterOf
<1>2. Stays(n, 0, V, F)
  <2>1. 0 \in 0..n /\ \A i \in 1..n : i - 1 \in 0..n /\ i \in 0..n
    BY <1>1
  <2>2. ASSUME NEW i \in 1..n, NEW m \in V[i - 1] PROVE F[i][m] \in V[i]
    <3>1. m \in Nat /\ V[i] = Nat
      BY <2>1
    <3>2. F[i][m] = m + Share(parts[i])
      BY <3>1
    <3> QED BY <1>1, <3>1, <3>2
  <2> QED BY <2>1, <2>2 DEF Stays
<1>3. PICK d : IsFold(d, n, 0, V, F)
  <2> HIDE DEF V, F
  <2> QED BY <1>1, <1>2, FoldHolds
<1>4. \A i \in 0..n : d[i] \in Nat
  <2> HIDE DEF F
  <2> QED BY <1>3 DEF IsFold
<1>5. IsIt(d)
  <2> HIDE DEF V
  <2>1. \A i \in 0..n : i = 0 \/ (i \in 1..n /\ i - 1 \in 0..n)
    BY <1>1
  <2>2. \A i \in 0..n : d[i] = IF i = 0 THEN 0 ELSE d[i - 1] + Share(parts[i])
    BY <1>3, <1>4, <2>1 DEF IsFold
  <2>3. d = [i \in 0..n |-> d[i]]
    BY <1>3 DEF IsFold
  <2> QED BY <2>2, <2>3, Zenon
<1>6. IsIt(all)
  <2> HIDE DEF IsIt
  <2> QED BY <1>5
<1>7. Upto(parts, n) = all[n]
  BY DEF N!Folded, Share, Upto
<1> HIDE DEF all
<1> DEFINE W == {i \in 0..n : all[i] \in Nat /\ (i > 0 => all[i] > 0)}
<1>8. 0 \in W /\ \A i \in 1..n : i - 1 \in W => i \in W
  <2>1. 0 \in 0..n /\ \A i \in 1..n : i - 1 \in 0..n /\ i \in 0..n /\ i # 0
    BY <1>1
  <2>2. all[0] = 0 /\ \A i \in 1..n : all[i] = all[i - 1] + Share(parts[i])
    BY <1>6, <2>1
  <2>3. \A i \in 1..n : all[i - 1] \in Nat => all[i] \in Nat /\ all[i] > 0
    BY <1>1, <2>2
  <2> QED BY <2>1, <2>2, <2>3
<1>9. 0..n \subseteq W
  <2> HIDE DEF W
  <2> QED BY <1>1, <1>8, Induction
<1> QED BY <1>1, <1>7, <1>9

LEMMA DivType == ASSUME NEW a \in Nat, NEW b \in Nat \ {0} PROVE a \div b \in Nat
<1>1. a \div b \in Int /\ a = b * (a \div b) + (a % b) /\ a % b \in 0..(b - 1)
  OBVIOUS
<1> DEFINE q == a \div b
           r == a % b
<1> HIDE DEF q, r
<1>2. q \in Int /\ r \in 0..(b - 1) /\ a = b * q + r
  BY <1>1 DEF q, r
<1>3. q >= 0
  <2> SUFFICES ASSUME q <= -1 PROVE FALSE
    BY <1>2
  <2>1. b * q <= b * (-1)
    BY <1>2
  <2> QED BY <1>2, <2>1
<1> QED BY <1>2, <1>3 DEF q

(* Where the parts of a cue end: after it begins.                          *)
AllNat(f, n) == \A i \in 0..n : f[i] \in Nat
LEMMA EndsType ==
    ASSUME NEW T \in SUBSET Marked, NEW c \in Cue(T, Nat), NEW parts \in Seq(Seq(N!Sentence)),
           Len(parts) > 0, N!Lasts(c) >= 0
    PROVE  AllNat(N!Ends(c, parts), Len(parts))
<1> DEFINE n == Len(parts)
           took == N!Lasts(c)
           minimum == N!LesserOf(500, took \div n)
           said(i) == IF Upto(parts, i) \in DOMAIN c.ends THEN c.ends[Upto(parts, i)]
                      ELSE c.start + (2 * took * Upto(parts, i) + Upto(parts, n)) \div (2 * Upto(parts, n))
           Of(m, i) == N!GreaterOf(m + minimum, N!LesserOf(said(i), c.end - minimum * (n - i)))
           V == [i \in 0..n |-> Nat]
           F == [i \in 1..n |-> [m \in Nat |-> IF i = n THEN c.end ELSE Of(m, i)]]
           IsIt(d) == d = [i \in 0..n |-> IF i = 0 THEN c.start ELSE IF i = n THEN c.end ELSE Of(d[i - 1], i)]
           all == CHOOSE d : IsIt(d)
<1>1. n \in Nat \ {0} /\ c.start \in Nat /\ c.end \in Int /\ took \in Nat /\ c.end \in Nat /\ c.ends \in AllEnds
  BY DEF Cue, Loose, N!Lasts
<1>2. minimum \in Nat
  <2>1. took \div n \in Nat
    <3> HIDE DEF took, n
    <3> QED BY <1>1, DivType
  <2> HIDE DEF took, n
  <2> QED BY <2>1 DEF N!LesserOf
<1>3. \A i \in 0..n : Upto(parts, i) \in Nat /\ (i > 0 => Upto(parts, i) > 0)
  BY UptoType
<1>4. \A i \in 0..n : said(i) \in Int
  <2> HIDE DEF took, n
  <2> SUFFICES ASSUME NEW i \in 0..n PROVE said(i) \in Int
    OBVIOUS
  <2>1. n \in 0..n
    BY <1>1
  <2>2. Upto(parts, i) \in Nat /\ Upto(parts, n) \in Nat /\ Upto(parts, n) > 0
    BY <1>1, <1>3, <2>1
  <2>3. Upto(parts, i) \in DOMAIN c.ends => c.ends[Upto(parts, i)] \in Int
    BY <1>1, EndsAre
  <2>4. 2 * took * Upto(parts, i) + Upto(parts, n) \in Int /\ 2 * Upto(parts, n) \in Nat /\ 2 * Upto(parts, n) > 0
    BY <1>1, <2>2
  <2>5. (2 * took * Upto(parts, i) + Upto(parts, n)) \div (2 * Upto(parts, n)) \in Int
    <3> DEFINE x == 2 * took * Upto(parts, i) + Upto(parts, n)
               y == 2 * Upto(parts, n)
    <3>1. x \in Int /\ y \in Nat /\ y > 0
      BY <2>4
    <3> HIDE DEF x, y
    <3>2. x \div y \in Int
      BY <3>1
    <3> QED BY <3>2 DEF x, y
  <2> QED BY <1>1, <2>3, <2>5
<1>5. ASSUME NEW m \in Nat, NEW i \in 0..n PROVE Of(m, i) \in Nat
  <2> HIDE DEF said, minimum, n
  <2>1. minimum * (n - i) \in Int
    BY <1>1, <1>2
  <2> QED BY <1>1, <1>2, <1>4, <2>1 DEF N!GreaterOf, N!LesserOf
<1> HIDE DEF Of, n
<1>6. Stays(n, c.start, V, F)
  <2>1. 0 \in 0..n /\ \A i \in 1..n : i - 1 \in 0..n /\ i \in 0..n
    BY <1>1
  <2>2. ASSUME NEW i \in 1..n, NEW m \in V[i - 1] PROVE F[i][m] \in V[i]
    <3>1. m \in Nat /\ V[i] = Nat /\ i \in 0..n
      BY <2>1
    <3>2. F[i][m] = IF i = n THEN c.end ELSE Of(m, i)
      BY <3>1
    <3> QED BY <1>1, <1>5, <3>1, <3>2
  <2>3. c.start \in V[0]
    BY <1>1, <2>1
  <2> QED BY <2>2, <2>3 DEF Stays
<1>7. PICK d : IsFold(d, n, c.start, V, F)
  <2> HIDE DEF V, F
  <2> QED BY <1>1, <1>6, FoldHolds
<1>8. \A i \in 0..n : d[i] \in Nat
  <2> HIDE DEF F
  <2> QED BY <1>7 DEF IsFold
<1>9. IsIt(d)
  <2> HIDE DEF V
  <2>1. \A i \in 0..n : i = 0 \/ (i \in 1..n /\ i - 1 \in 0..n /\ i # 0)
    BY <1>1
  <2>2. \A i \in 1..n : \A m \in Nat : F[i][m] = IF i = n THEN c.end ELSE Of(m, i)
    OBVIOUS
  <2> HIDE DEF F
  <2>3. \A i \in 0..n : d[i] = IF i = 0 THEN c.start ELSE IF i = n THEN c.end ELSE Of(d[i - 1], i)
    BY <1>7, <1>8, <2>1, <2>2 DEF IsFold
  <2>4. d = [i \in 0..n |-> d[i]]
    BY <1>7 DEF IsFold
  <2> QED BY <2>3, <2>4, Zenon
<1>10. IsIt(all)
  <2> HIDE DEF IsIt
  <2> QED BY <1>9
<1>11. N!Ends(c, parts) = all
  BY Zenon DEF N!Ends, Of, n, Upto
<1> HIDE DEF all
<1> DEFINE W == {i \in 0..n : all[i] \in Nat}
<1>12. 0 \in W /\ all[0] = c.start /\ \A i \in 1..n : i - 1 \in W => i \in W
  <2>1. 0 \in 0..n /\ \A i \in 1..n : i - 1 \in 0..n /\ i \in 0..n /\ i # 0
    BY <1>1
  <2>2. all[0] = c.start /\ \A i \in 1..n : all[i] = IF i = n THEN c.end ELSE Of(all[i - 1], i)
    BY <1>10, <2>1
  <2> QED BY <1>1, <1>5, <2>1, <2>2
<1>13. 0..n \subseteq W
  <2> HIDE DEF W
  <2> QED BY <1>1, <1>12, Induction
<1> QED BY <1>11, <1>12, <1>13 DEF n, AllNat

(* The parts of a cue are its sentences, some of them put together.        *)
PartsOf(T, c) == {s \in [parts : Seq(Seq(T) \ {<<>>}), at : Nat \ {0}] : N!Flat(s.parts) = c.source}
PartStep(wanted, s) ==
    IF Len(s.parts) <= wanted \/ s.at >= Len(s.parts) THEN s
    ELSE IF \/ N!IsSuffix(s.parts[s.at + 1])
            \/ s.at = 1 /\ N!Is(s.parts[1], "jan")
    THEN [s EXCEPT !.parts = N!Attach(s.parts, s.at)] ELSE [s EXCEPT !.at = @ + 1]

LEMMA PartStepKeeps ==
    ASSUME NEW T, NEW c, NEW wanted \in Nat, NEW s \in PartsOf(T, c)
    PROVE  PartStep(wanted, s) \in PartsOf(T, c)
<1>1. s \in [parts : Seq(Seq(T) \ {<<>>}), at : Nat \ {0}] /\ N!Flat(s.parts) = c.source
  BY DEF PartsOf
<1>2. CASE Len(s.parts) <= wanted \/ s.at >= Len(s.parts)
  BY <1>2 DEF PartStep
<1>3. CASE ~(Len(s.parts) <= wanted \/ s.at >= Len(s.parts))
  <2> DEFINE a == s.parts
             i == s.at
  <2>1. a \in Seq(Seq(T) \ {<<>>}) /\ i \in 1..(Len(a) - 1) /\ i + 1 \in Nat \ {0}
    BY <1>1, <1>3
  <2>2. N!Attach(a, i) \in Seq(Seq(T) \ {<<>>}) /\ N!Flat(N!Attach(a, i)) = N!Flat(a)
    <3> HIDE DEF a, i
    <3> QED BY <2>1, FlatAttach
  <2>3. [s EXCEPT !.parts = N!Attach(s.parts, s.at)] \in PartsOf(T, c)
    <3> DEFINE r == [s EXCEPT !.parts = N!Attach(a, i)]
    <3>1. r.parts = N!Attach(a, i) /\ r \in [parts : Seq(Seq(T) \ {<<>>}), at : Nat \ {0}]
      BY <1>1, <2>2
    <3> QED BY <1>1, <2>2, <3>1 DEF PartsOf
  <2>4. [s EXCEPT !.at = s.at + 1] \in PartsOf(T, c)
    BY <1>1, <2>1 DEF PartsOf
  <2> QED BY <1>3, <2>3, <2>4 DEF PartStep
<1> QED BY <1>2, <1>3

(* The parts of a cue put together are its text.                           *)
LEMMA SourcePartsAre ==
    ASSUME NEW T, NEW S, NEW c \in Cue(T, S), NEW wanted \in Nat
    PROVE  /\ N!SourceParts(c, wanted) \in Seq(Seq(T) \ {<<>>})
           /\ N!Flat(N!SourceParts(c, wanted)) = c.source
<1> DEFINE full == [i \in DOMAIN c.source |-> <<c.source[i]>>]
           n == Len(full)
           base == [parts |-> full, at |-> 1]
           P == PartsOf(T, c)
           V == [i \in 0..n |-> P]
           F == [i \in 1..n |-> [m \in P |-> PartStep(wanted, m)]]
           IsIt(d) == d = [i \in 0..n |-> IF i = 0 THEN base ELSE PartStep(wanted, d[i - 1])]
           all == CHOOSE d : IsIt(d)
<1>1. full \in Seq(Seq(T) \ {<<>>}) /\ N!Flat(full) = c.source /\ n \in Nat
  <2> DEFINE t == c.source
  <2>1. t \in Seq(T)
    BY DEF Cue, Loose
  <2> HIDE DEF t
  <2> DEFINE u == [i \in DOMAIN t |-> <<t[i]>>]
  <2>2. u = [p \in DOMAIN t |-> <<t[p]>>] /\ u = [p \in DOMAIN u |-> u[p]] /\ DOMAIN u = 1..Len(t)
    BY <2>1
  <2>3. ASSUME NEW i \in 1..Len(t) PROVE u[i] \in Seq(T) \ {<<>>}
    <3>1. t[i] \in T /\ u[i] = <<t[i]>>
      BY <2>1
    <3> HIDE DEF u
    <3>2. <<t[i]>> \in Seq(T) /\ <<t[i]>> # <<>>
      BY <3>1
    <3> QED BY <3>1, <3>2
  <2> HIDE DEF u
  <2>4. u \in Seq(Seq(T) \ {<<>>}) /\ Len(u) = Len(t) /\ Len(t) \in Nat
    BY <2>1, <2>2, <2>3, MakeSeq
  <2>5. N!Flat(u) = t
    BY <2>1, <2>2, FlatSingles
  <2> QED BY <2>4, <2>5 DEF u, t
<1>2. base \in P
  <2> HIDE DEF full
  <2> QED BY <1>1 DEF PartsOf
<1> HIDE DEF full, n, base, P
<1>3. \A m \in P : PartStep(wanted, m) \in P
  BY PartStepKeeps DEF P
<1>4. Stays(n, base, V, F)
  <2>1. 0 \in 0..n /\ \A i \in 1..n : i - 1 \in 0..n /\ i \in 0..n
    BY <1>1
  <2>2. ASSUME NEW i \in 1..n, NEW m \in V[i - 1] PROVE F[i][m] \in V[i]
    <3>1. m \in P /\ V[i] = P
      BY <2>1
    <3>2. F[i][m] = PartStep(wanted, m)
      BY <3>1
    <3> QED BY <1>3, <3>1, <3>2
  <2>3. base \in V[0]
    BY <1>2, <2>1
  <2> QED BY <2>2, <2>3 DEF Stays
<1>5. PICK d : IsFold(d, n, base, V, F)
  <2> HIDE DEF V, F
  <2> QED BY <1>1, <1>4, FoldHolds
<1>6. \A i \in 0..n : d[i] \in P
  <2> HIDE DEF F
  <2> QED BY <1>5 DEF IsFold
<1>7. IsIt(d)
  <2> HIDE DEF V
  <2>1. \A i \in 0..n : i = 0 \/ (i \in 1..n /\ i - 1 \in 0..n /\ i # 0)
    BY <1>1
  <2>2. \A i \in 1..n : \A m \in P : F[i][m] = PartStep(wanted, m)
    OBVIOUS
  <2> HIDE DEF F
  <2>3. \A i \in 0..n : d[i] = IF i = 0 THEN base ELSE PartStep(wanted, d[i - 1])
    BY <1>5, <1>6, <2>1, <2>2 DEF IsFold
  <2>4. d = [i \in 0..n |-> d[i]]
    BY <1>5 DEF IsFold
  <2> QED BY <2>3, <2>4, Zenon
<1>8. IsIt(all)
  <2> HIDE DEF IsIt
  <2> QED BY <1>7
<1>9. N!SourceParts(c, wanted) = all[n].parts
  BY DEF N!SourceParts, N!Folded, PartStep, full, n, base
<1> HIDE DEF all
<1> DEFINE W == {i \in 0..n : all[i] \in P}
<1>10. 0 \in W /\ \A i \in 1..n : i - 1 \in W => i \in W
  <2>1. 0 \in 0..n /\ \A i \in 1..n : i - 1 \in 0..n /\ i \in 0..n /\ i # 0
    BY <1>1
  <2>2. all[0] = base /\ \A i \in 1..n : all[i] = PartStep(wanted, all[i - 1])
    BY <1>8, <2>1
  <2> QED BY <1>2, <1>3, <2>1, <2>2
<1>11. 0..n \subseteq W
  <2> HIDE DEF W
  <2> QED BY <1>1, <1>10, Induction
<1>12. all[n] \in P
  BY <1>1, <1>11
<1> QED BY <1>9, <1>12 DEF P, PartsOf

(* The sentences of a cue say what the cue says.                           *)
SaysAs(r, C, source, target) ==
    /\ r \in Seq(C) /\ Told(r, "source") = source /\ Told(r, "target") = target

LEMMA FlatNothing ==
    ASSUME NEW n \in Nat
    PROVE  N!Flat([i \in 1..n |-> <<>>]) = <<>>
<1> DEFINE ss == [i \in 1..n |-> <<>>]
           h == [i \in 0..n |-> <<>>]
<1>1. <<>> \in Seq({}) /\ ss = [k \in DOMAIN ss |-> ss[k]] /\ DOMAIN ss = 1..n /\ \A i \in 1..n : ss[i] = <<>>
  OBVIOUS
<1>2. h[0] = <<>> /\ h[n] = <<>> /\ \A i \in 1..n : h[i] = <<>> /\ h[i - 1] = <<>>
  <2>1. \A i \in 1..n : i \in 0..n /\ i - 1 \in 0..n
    OBVIOUS
  <2> QED BY <2>1
<1> HIDE DEF ss, h
<1>3. ss \in Seq(Seq({})) /\ Len(ss) = n
  <2>1. \A i \in 1..n : ss[i] \in Seq({})
    BY <1>1
  <2> QED BY <1>1, <2>1, MakeSeq
<1>4. \A i \in 1..n : h[i] = h[i - 1] \o ss[i]
  <2>1. <<>> \o <<>> = <<>>
    OBVIOUS
  <2> QED BY <1>1, <1>2, <2>1
<1>5. N!Flat(ss) = h[n]
  BY <1>2, <1>3, <1>4, FlatIs
<1> QED BY <1>2, <1>5 DEF ss

(* The sentences of a cue tell its text and its translation.               *)
LEMMA SentencesSay ==
    ASSUME NEW T \in SUBSET Marked, NEW c \in Cue(T, Nat)
    PROVE  SaysAs(N!Sentences(c), Cue(T, Nat), c.source, c.target)
<1> DEFINE parts == N!Paired(c)
           n == Len(parts)
           end == N!Ends(c, parts)
           C == Cue(T, Nat)
           wanted == IF c.target = <<>> THEN Len(c.source) ELSE Len(c.target)
           r == [i \in 1..n |-> [start |-> end[i - 1], end |-> end[i], source |-> parts[i],
                                 target |-> IF c.target = <<>> THEN <<>> ELSE <<c.target[i]>>,
                                 ends |-> <<>>]]
<1>1. /\ c.source \in Seq(T) /\ c.target \in Seq(Marked) /\ c.source \in Seq(Marked)
      /\ c.start \in Nat /\ c.end \in Int /\ wanted \in Nat
  <2>1. c.source \in Seq(T) /\ c.target \in Seq(Marked) /\ c.start \in Nat /\ c.end \in Int
    BY DEF Cue, Loose
  <2>2. c.source \in Seq(Marked)
    BY <2>1, SeqMonotonic
  <2>3. Len(c.source) \in Nat /\ Len(c.target) \in Nat
    BY <2>1
  <2> QED BY <2>1, <2>2, <2>3
<1>2. SaysAs(<<c>>, C, c.source, c.target)
  <2>1. c["source"] \in Seq(Marked) /\ c["target"] \in Seq(Marked)
    BY <1>1
  <2>2. Told(<<c>>, "source") = c["source"] /\ Told(<<c>>, "target") = c["target"]
    BY <2>1, ToldOne
  <2>3. <<c>> \in Seq(C)
    OBVIOUS
  <2> HIDE DEF C
  <2> QED BY <2>2, <2>3 DEF SaysAs
<1>3. CASE n # 0 /\ ~(N!Lasts(c) < n * TightPart)
  <2>1. /\ parts = N!SourceParts(c, wanted) /\ Len(parts) = wanted
    <3> HIDE DEF wanted
    <3>1. parts # <<>>
      <4>1. Len(<<>>) = 0
        OBVIOUS
      <4> QED BY <1>3, <4>1
    <3>2. parts = <<>> \/ (parts = N!SourceParts(c, wanted) /\ Len(N!SourceParts(c, wanted)) = wanted)
      BY Zenon DEF N!Paired, wanted
    <3> QED BY <3>1, <3>2
  <2>2. parts \in Seq(Seq(T) \ {<<>>}) /\ N!Flat(parts) = c.source
    <3> HIDE DEF wanted, parts
    <3> QED BY <1>1, <2>1, SourcePartsAre
  <2> HIDE DEF wanted, parts
  <2>3. n \in Nat \ {0} /\ parts = [i \in 1..n |-> parts[i]] /\ \A i \in 1..n : parts[i] \in Seq(T) /\ parts[i] # <<>>
    BY <1>3, <2>2
  <2>4. parts \in Seq(Seq(N!Sentence))
    <3>1. \A t \in Seq(T) : t \in Seq(N!Sentence)
      <4>1. T \subseteq N!Sentence
        BY DEF Marked
      <4> QED BY <4>1, SeqMonotonic
    <3>2. \A i \in 1..n : parts[i] \in Seq(N!Sentence)
      BY <2>3, <3>1
    <3>3. parts = [k \in DOMAIN parts |-> parts[k]] /\ DOMAIN parts = 1..n /\ n \in Nat
      BY <2>3
    <3> HIDE DEF n
    <3> QED BY <3>2, <3>3, MakeSeq
  <2>5. N!Lasts(c) >= 0
    <3>1. n * TightPart \in Nat
      BY <2>3, Constants
    <3>2. N!Lasts(c) \in Int
      BY <1>1 DEF N!Lasts
    <3> QED BY <1>3, <3>1, <3>2
  <2>6. \A i \in 0..n : end[i] \in Nat
    <3>1. AllNat(end, n)
      BY <2>3, <2>4, <2>5, EndsType
    <3> QED BY <3>1 DEF AllNat
  <2> HIDE DEF end, n
  <2>7. ASSUME NEW i \in 1..n
        PROVE  r[i] \in C /\ r[i]["source"] = parts[i]
               /\ r[i]["target"] = IF c.target = <<>> THEN <<>> ELSE <<c.target[i]>>
    <3> DEFINE tgt == IF c.target = <<>> THEN <<>> ELSE <<c.target[i]>>
    <3>1. tgt \in Seq(Marked)
      <4>1. CASE c.target = <<>>
        BY <4>1
      <4>2. CASE c.target # <<>>
        <5>1. i \in 1..Len(c.target)
          BY <2>1, <4>2 DEF wanted, n
        <5>2. c.target[i] \in Marked
          BY <1>1, <5>1, ElementOfSeq
        <5>3. <<c.target[i]>> \in Seq(Marked)
          BY <5>2
        <5> QED BY <4>2, <5>3
      <4> QED BY <4>1, <4>2
    <3>2. end[i - 1] \in Nat /\ end[i] \in Nat
      <4>1. i - 1 \in 0..n /\ i \in 0..n
        BY <2>3
      <4> QED BY <2>6, <4>1
    <3>3. <<>> \in AllEnds
      BY DEF AllEnds
    <3>4. r[i] = [start |-> end[i - 1], end |-> end[i], source |-> parts[i], target |-> tgt, ends |-> <<>>]
      OBVIOUS
    <3> HIDE DEF tgt, r
    <3>5. r[i] \in C
      BY <2>3, <3>1, <3>2, <3>3, <3>4 DEF Cue, Loose
    <3> QED BY <3>4, <3>5 DEF tgt
  <2>8. r \in Seq(C)
    <3>1. r = [k \in DOMAIN r |-> r[k]] /\ DOMAIN r = 1..n /\ n \in Nat
      BY <2>3
    <3>2. \A i \in 1..n : r[i] \in C
      BY <2>7
    <3> HIDE DEF r, C
    <3> QED BY <3>1, <3>2, MakeSeq
  <2>9. Texts(r, "source") = parts 
        /\ Texts(r, "target") = [i \in 1..n |-> IF c.target = <<>> THEN <<>> ELSE <<c.target[i]>>]
    <3>1. DOMAIN r = 1..n
      OBVIOUS
    <3> HIDE DEF r
    <3>2. Texts(r, "source") = [i \in 1..n |-> parts[i]]
      BY <2>7, <3>1 DEF Texts
    <3>3. Texts(r, "target") = [i \in 1..n |-> IF c.target = <<>> THEN <<>> ELSE <<c.target[i]>>]
      BY <2>7, <3>1 DEF Texts
    <3> QED BY <2>3, <3>2, <3>3
  <2>10. N!Flat([i \in 1..n |-> IF c.target = <<>> THEN <<>> ELSE <<c.target[i]>>]) = c.target
    <3>1. CASE c.target = <<>>
      <4>1. [i \in 1..n |-> IF c.target = <<>> THEN <<>> ELSE <<c.target[i]>>] = [i \in 1..n |-> <<>>]
        BY <3>1
      <4> QED BY <2>3, <3>1, <4>1, FlatNothing
    <3>2. CASE c.target # <<>>
      <4> DEFINE t == c.target
      <4>1. t \in Seq(Marked) /\ n = Len(t)
        BY <1>1, <2>1, <3>2 DEF wanted, n
      <4>2. [i \in 1..n |-> IF c.target = <<>> THEN <<>> ELSE <<c.target[i]>>] = [p \in 1..n |-> <<t[p]>>]
        BY <3>2
      <4> HIDE DEF t
      <4>3. DOMAIN t = 1..n
        BY <4>1
      <4>4. N!Flat([p \in DOMAIN t |-> <<t[p]>>]) = t
        BY <4>1, FlatSingles
      <4> QED BY <4>2, <4>3, <4>4 DEF t
    <3> QED BY <3>1, <3>2
  <2>11. SaysAs(r, C, c.source, c.target)
    <3> HIDE DEF r, C
    <3> QED BY <2>2, <2>8, <2>9, <2>10, Zenon DEF SaysAs, Told
  <2> QED BY <1>2, <1>3, <2>11 DEF N!Sentences, parts, end, n
<1>4. CASE ~(n # 0 /\ ~(N!Lasts(c) < n * TightPart))
  <2>1. N!Sentences(c) = <<c>>
    BY <1>4 DEF N!Sentences
  <2> QED BY <1>2, <2>1
<1> QED BY <1>3, <1>4

IsPrefixed(p, C, l, r, s, e) ==
    /\ p \in C /\ p.start = s /\ p.end = e
    /\ p["source"] = l["source"] \o r["source"] /\ p["target"] = l["target"] \o r["target"]
LEMMA PrefixedIs ==
    ASSUME NEW T \in SUBSET Marked, NEW S, NEW l \in Cue(T, S), NEW r \in Cue(T, S), NEW s \in S, NEW e \in Int
    PROVE  IsPrefixed(N!Prefixed(l, r, s, e), Cue(T, S), l, r, s, e)
<1> DEFINE p == N!Prefixed(l, r, s, e)
           a == l.source \o r.source
           b == l.target \o r.target
<1>1. /\ l.source \in Seq(T) /\ r.source \in Seq(T) /\ l.source # <<>> /\ r.source # <<>>
      /\ l.target \in Seq(Marked) /\ r.target \in Seq(Marked) /\ r.ends \in AllEnds /\ r \in Loose(T, S)
  BY DEF Cue, Loose
<1>2. a \in Seq(T) /\ a # <<>> /\ b \in Seq(Marked)
  <2> DEFINE ls == l.source
             rs == r.source
             lt == l.target
             rt == r.target
  <2>1. ls \in Seq(T) /\ rs \in Seq(T) /\ ls # <<>> /\ lt \in Seq(Marked) /\ rt \in Seq(Marked)
    BY <1>1
  <2> HIDE DEF ls, rs, lt, rt
  <2>2. ls \o rs \in Seq(T) /\ lt \o rt \in Seq(Marked)
    BY <2>1, ConcatProperties
  <2>3. ls \o rs # <<>>
    BY <2>1, ConcatEqualIffEmpty
  <2> QED BY <2>2, <2>3 DEF ls, rs, lt, rt
<1> HIDE DEF a, b
<1>3. p = [r EXCEPT !.source = a, !.target = b, !.start = s, !.end = e]
  BY DEF N!Prefixed, a, b
<1> HIDE DEF p
<1>4. p \in Loose(T, S) /\ p.source = a /\ p.target = b /\ p.start = s /\ p.end = e
  BY <1>1, <1>2, <1>3 DEF Loose
<1>5. IsPrefixed(p, Cue(T, S), l, r, s, e)
  BY <1>2, <1>4 DEF IsPrefixed, Cue, a, b
<1> QED BY <1>5 DEF p

(* What the first cues say.                                                *)
Sums(g, cs, f, T) ==
    /\ g \in [0..Len(cs) -> Seq(T)] /\ g[0] = <<>> /\ Told(cs, f) = g[Len(cs)]
    /\ \A i \in 1..Len(cs) : g[i] = g[i - 1] \o cs[i][f]
LEMMA SumsExist ==
    ASSUME NEW C, NEW f, NEW T, Tells(C, f, T), NEW cs \in Seq(C)
    PROVE  \E g : Sums(g, cs, f, T)
<1> DEFINE ts == Texts(cs, f)
<1>1. AreTexts(ts, cs, f, T)
  BY TextsType
<1> HIDE DEF ts
<1>2. ts \in Seq(Seq(T)) /\ Len(ts) = Len(cs) /\ \A i \in 1..Len(cs) : ts[i] = cs[i][f]
  BY <1>1 DEF AreTexts
<1>3. PICK g \in [0..Len(ts) -> Seq(T)] :
              g[0] = <<>> /\ (\A i \in 1..Len(ts) : g[i] = g[i - 1] \o ts[i]) /\ N!Flat(ts) = g[Len(ts)]
  BY <1>2, FlatFold
<1>4. Sums(g, cs, f, T)
  BY <1>2, <1>3 DEF Sums, Told, ts
<1> QED BY <1>4

JoinStep(acc, c) ==
    IF Len(acc) > 0 /\ N!CanJoin(acc[Len(acc)], c)
    THEN [acc EXCEPT ![Len(acc)] = N!Prefixed(acc[Len(acc)], c, acc[Len(acc)].start,
                                              N!GreaterOf(acc[Len(acc)].end, c.end))]
    ELSE Append(acc, c)

(* A step of the joining tells one cue more.                               *)
LEMMA JoinStepSays ==
    ASSUME NEW T \in SUBSET Marked, NEW S, NEW acc \in Seq(Cue(T, S)), NEW c \in Cue(T, S)
    PROVE  SaysAs(JoinStep(acc, c), Cue(T, S), Told(acc, "source") \o c["source"], Told(acc, "target") \o c["target"])
<1> DEFINE C == Cue(T, S)
           n == Len(acc)
<1>1. Tells(C, "source", Marked) /\ Tells(C, "target", Marked)
  BY CuesTell
<1>2. c["source"] \in Seq(Marked) /\ c["target"] \in Seq(Marked)
  BY <1>1 DEF Tells
<1>3. CASE n > 0 /\ N!CanJoin(acc[n], c)
  <2> DEFINE l == acc[n]
             e == N!GreaterOf(l.end, c.end)
             p == N!Prefixed(l, c, l.start, e)
  <2>1. n \in 1..n /\ l \in C
    BY <1>3
  <2>2. l.start \in S /\ e \in Int
    BY <2>1 DEF Cue, Loose, N!GreaterOf
  <2>3. IsPrefixed(p, C, l, c, l.start, e)
    <3> HIDE DEF l, e
    <3> QED BY <2>1, <2>2, PrefixedIs
  <2> HIDE DEF p, e
  <2>4. p \in C /\ p["source"] = acc[Len(acc)]["source"] \o c["source"]
        /\ p["target"] = acc[Len(acc)]["target"] \o c["target"]
    BY <2>3 DEF IsPrefixed
  <2>a. acc \in Seq(C) /\ Len(acc) > 0
    BY <1>3
  <2> HIDE DEF C
  <2> DEFINE x == c["source"]
             y == c["target"]
  <2>b. x \in Seq(Marked) /\ y \in Seq(Marked) /\ p["source"] = acc[Len(acc)]["source"] \o x
        /\ p["target"] = acc[Len(acc)]["target"] \o y /\ p \in C
    BY <1>2, <2>4
  <2> HIDE DEF x, y
  <2>5. Told(PutLast(acc, p), "source") = Told(acc, "source") \o x
    <3>1. SaysMore(C, "source", Marked, acc, p, x)
      BY <1>1, <2>a, <2>b DEF SaysMore
    <3> QED BY <3>1, ToldLast
  <2>6. Told(PutLast(acc, p), "target") = Told(acc, "target") \o y
    <3>1. SaysMore(C, "target", Marked, acc, p, y)
      BY <1>1, <2>a, <2>b DEF SaysMore
    <3> QED BY <3>1, ToldLast
  <2>7. [acc EXCEPT ![Len(acc)] = p] \in Seq(C)
    BY <2>a, <2>4
  <2>8. JoinStep(acc, c) = [acc EXCEPT ![Len(acc)] = p]
    BY <1>3 DEF JoinStep, p, e
  <2> QED BY <2>5, <2>6, <2>7, <2>8 DEF SaysAs, C, PutLast, x, y
<1>4. CASE ~(n > 0 /\ N!CanJoin(acc[n], c))
  <2>1. JoinStep(acc, c) = Append(acc, c)
    BY <1>4 DEF JoinStep
  <2> HIDE DEF C
  <2>2. acc \in Seq(C) /\ c \in C
    BY DEF C
  <2>3. Append(acc, c) \in Seq(C) /\ Told(Append(acc, c), "source") = Told(acc, "source") \o c["source"]
    BY <1>1, <2>2, ToldAppend
  <2>4. Told(Append(acc, c), "target") = Told(acc, "target") \o c["target"]
    BY <1>1, <2>2, ToldAppend
  <2> QED BY <2>1, <2>3, <2>4 DEF SaysAs, C
<1> QED BY <1>3, <1>4

(* Joined cues tell what they told apart.                                  *)
LEMMA JoinedUpSays ==
    ASSUME NEW T \in SUBSET Marked, NEW S, NEW cs \in Seq(Cue(T, S))
    PROVE  SaysAs(N!JoinedUp(cs), Cue(T, S), Told(cs, "source"), Told(cs, "target"))
<1> DEFINE C == Cue(T, S)
           n == Len(cs)
<1>1. Tells(C, "source", Marked) /\ Tells(C, "target", Marked)
  BY CuesTell
<1>2. PICK gs : Sums(gs, cs, "source", Marked)
  <2> HIDE DEF C
  <2>1. cs \in Seq(C)
    BY DEF C
  <2> QED BY <1>1, <2>1, SumsExist
<1>3. PICK gt : Sums(gt, cs, "target", Marked)
  <2> HIDE DEF C
  <2>1. cs \in Seq(C)
    BY DEF C
  <2> QED BY <1>1, <2>1, SumsExist
<1> DEFINE Ok(acc, i) == SaysAs(acc, C, gs[i], gt[i])
           V == [i \in 0..n |-> {acc \in Seq(C) : Ok(acc, i)}]
           F == [i \in 1..n |-> [m \in Seq(C) |-> JoinStep(m, cs[i])]]
           IsIt(d) == d = [i \in 0..n |-> IF i = 0 THEN <<>> ELSE JoinStep(d[i - 1], cs[i])]
           all == CHOOSE d : IsIt(d)
<1>4. n \in Nat /\ \A i \in 1..n : cs[i] \in C
  OBVIOUS
<1>5. ASSUME NEW i \in 1..n, NEW m, Ok(m, i - 1) PROVE Ok(JoinStep(m, cs[i]), i)
  <2>1. m \in Seq(C) /\ Told(m, "source") = gs[i - 1] /\ Told(m, "target") = gt[i - 1] /\ cs[i] \in C
    BY <1>4, <1>5 DEF SaysAs
  <2>2. SaysAs(JoinStep(m, cs[i]), C, Told(m, "source") \o cs[i]["source"], Told(m, "target") \o cs[i]["target"])
    <3> DEFINE x == cs[i]
    <3>1. x \in C
      BY <2>1
    <3> HIDE DEF x
    <3>2. SaysAs(JoinStep(m, x), C, Told(m, "source") \o x["source"], Told(m, "target") \o x["target"])
      BY <2>1, <3>1, JoinStepSays
    <3> QED BY <3>2 DEF x
  <2>3. gs[i] = gs[i - 1] \o cs[i]["source"] /\ gt[i] = gt[i - 1] \o cs[i]["target"]
    BY <1>2, <1>3 DEF Sums
  <2> HIDE DEF C
  <2> QED BY <2>1, <2>2, <2>3, Zenon
<1>6. Ok(<<>>, 0)
  <2>1. gs[0] = <<>> /\ gt[0] = <<>>
    BY <1>2, <1>3 DEF Sums
  <2>2. Told(<<>>, "source") = <<>> /\ Told(<<>>, "target") = <<>>
    BY FlatEmpty DEF Told, Texts
  <2>3. <<>> \in Seq(C)
    OBVIOUS
  <2> HIDE DEF C
  <2> QED BY <2>1, <2>2, <2>3 DEF SaysAs
<1>7. \A acc, i : Ok(acc, i) => acc \in Seq(C)
  BY DEF SaysAs
<1> HIDE DEF C, n, Ok
<1>8. Stays(n, <<>>, V, F)
  <2>1. 0 \in 0..n /\ \A i \in 1..n : i - 1 \in 0..n /\ i \in 0..n
    BY <1>4
  <2>2. \A i \in 0..n : \A acc : acc \in V[i] <=> Ok(acc, i)
    BY <1>7
  <2>3. \A i \in 1..n : \A m \in Seq(C) : F[i][m] = JoinStep(m, cs[i])
    OBVIOUS
  <2> HIDE DEF V, F
  <2>4. ASSUME NEW i \in 1..n, NEW m \in V[i - 1] PROVE F[i][m] \in V[i]
    <3>1. Ok(m, i - 1) /\ m \in Seq(C)
      BY <1>7, <2>1, <2>2
    <3>2. F[i][m] = JoinStep(m, cs[i]) /\ Ok(JoinStep(m, cs[i]), i)
      BY <1>5, <2>3, <3>1
    <3> QED BY <2>1, <2>2, <3>2
  <2> QED BY <1>6, <2>1, <2>2, <2>4 DEF Stays
<1>9. PICK d : IsFold(d, n, <<>>, V, F)
  <2> HIDE DEF V, F
  <2> QED BY <1>4, <1>8, FoldHolds
<1>10. \A i \in 0..n : d[i] \in Seq(C)
  <2> HIDE DEF F
  <2> QED BY <1>9 DEF IsFold
<1>11. IsIt(d)
  <2> HIDE DEF V
  <2>1. \A i \in 0..n : i = 0 \/ (i \in 1..n /\ i - 1 \in 0..n /\ i # 0)
    BY <1>4
  <2>2. \A i \in 1..n : \A m \in Seq(C) : F[i][m] = JoinStep(m, cs[i])
    OBVIOUS
  <2> HIDE DEF F
  <2>3. \A i \in 0..n : d[i] = IF i = 0 THEN <<>> ELSE JoinStep(d[i - 1], cs[i])
    BY <1>9, <1>10, <2>1, <2>2 DEF IsFold
  <2>4. d = [i \in 0..n |-> d[i]]
    BY <1>9 DEF IsFold
  <2> QED BY <2>3, <2>4, Zenon
<1>12. IsIt(all)
  <2> HIDE DEF IsIt
  <2> QED BY <1>11
<1>13. N!JoinedUp(cs) = all[n]
  BY DEF N!JoinedUp, N!Folded, JoinStep, n
<1> HIDE DEF all
<1> DEFINE W == {i \in 0..n : Ok(all[i], i)}
<1>14. 0 \in W /\ \A i \in 1..n : i - 1 \in W => i \in W
  <2>1. 0 \in 0..n /\ \A i \in 1..n : i - 1 \in 0..n /\ i \in 0..n /\ i # 0
    BY <1>4
  <2>2. all[0] = <<>> /\ \A i \in 1..n : all[i] = JoinStep(all[i - 1], cs[i])
    BY <1>12, <2>1
  <2>3. \A i \in 1..n : Ok(all[i - 1], i - 1) => Ok(all[i], i)
    BY <1>5, <2>2
  <2> QED BY <1>6, <2>1, <2>2, <2>3
<1>15. 0..n \subseteq W
  <2> HIDE DEF W
  <2> QED BY <1>4, <1>14, Induction
<1>16. Ok(all[n], n)
  BY <1>4, <1>15
<1> QED BY <1>2, <1>3, <1>13, <1>16 DEF Ok, C, n, Sums

(* The reflow keeps what is told.                                          *)
LEMMA ReflowedSays ==
    ASSUME NEW T \in SUBSET Marked, NEW cs \in Seq(Cue(T, Nat))
    PROVE  SaysAs(N!Reflowed(cs), Cue(T, Nat), Told(cs, "source"), Told(cs, "target"))
<1> DEFINE C == Cue(T, Nat)
           ccs == [i \in DOMAIN cs |-> N!Sentences(cs[i])]
           split == N!Flat(ccs)
<1>1. Tells(C, "source", Marked) /\ Tells(C, "target", Marked)
  BY CuesTell
<1>2. Len(cs) \in Nat /\ DOMAIN cs = 1..Len(cs) /\ \A i \in 1..Len(cs) : cs[i] \in C
  OBVIOUS
<1>3. \A i \in 1..Len(cs) : SaysAs(N!Sentences(cs[i]), C, cs[i].source, cs[i].target)
  BY <1>2, SentencesSay
<1> HIDE DEF C
<1>4. ccs \in Seq(Seq(C))
  <2>1. ccs = [k \in DOMAIN ccs |-> ccs[k]] /\ DOMAIN ccs = 1..Len(cs)
    BY <1>2
  <2>2. \A i \in 1..Len(cs) : ccs[i] \in Seq(C)
    BY <1>2, <1>3 DEF SaysAs
  <2> HIDE DEF ccs
  <2> QED BY <1>2, <2>1, <2>2, MakeSeq
<1>5. ToldOf(ccs, "source") = Texts(cs, "source") /\ ToldOf(ccs, "target") = Texts(cs, "target")
  BY <1>2, <1>3 DEF ToldOf, Texts, SaysAs
<1> HIDE DEF ccs
<1>6. Told(split, "source") = N!Flat(ToldOf(ccs, "source"))
  BY <1>1, <1>4, ToldFlat
<1>7. Told(split, "target") = N!Flat(ToldOf(ccs, "target"))
  BY <1>1, <1>4, ToldFlat
<1>8. split \in Seq(C)
  BY <1>4, FlatType
<1>9. SaysAs(split, C, Told(cs, "source"), Told(cs, "target"))
  BY <1>5, <1>6, <1>7, <1>8 DEF SaysAs, Told
<1>10. SaysAs(N!JoinedUp(split), C, Told(split, "source"), Told(split, "target"))
  <2> HIDE DEF split
  <2> QED BY <1>8, JoinedUpSays DEF C
<1>11. N!Reflowed(cs) = IF join THEN N!JoinedUp(split) ELSE split
  BY Zenon DEF N!Reflowed, split, ccs
<1> HIDE DEF split
<1> QED BY <1>9, <1>10, <1>11 DEF SaysAs, C

(* A cue at other times.                                                   *)
IsTimed(p, C, c, s, e) ==
    p \in C /\ p.start = s /\ p.end = e /\ p["source"] = c["source"] /\ p["target"] = c["target"]
LEMMA EndPut ==
    ASSUME NEW T \in SUBSET Marked, NEW S, NEW c \in Cue(T, S), NEW e \in Int
    PROVE  IsTimed([c EXCEPT !.end = e], Cue(T, S), c, c.start, e)
BY DEF IsTimed, Cue, Loose
LEMMA StartPut ==
    ASSUME NEW T \in SUBSET Marked, NEW S, NEW c \in Cue(T, S), NEW Q, NEW s \in Q
    PROVE  IsTimed([c EXCEPT !.start = s], Cue(T, Q), c, s, c.end)
BY DEF IsTimed, Cue, Loose
LEMMA NotPut ==
    ASSUME NEW T \in SUBSET Marked, NEW S, NEW c \in Cue(T, S), NEW Q, S \subseteq Q
    PROVE  IsTimed(c, Cue(T, Q), c, c.start, c.end)
BY DEF IsTimed, Cue, Loose

TimesAre(C) == \A c \in C : c.start \in Int /\ c.end \in Int
LEMMA TimesType ==
    ASSUME NEW T \in SUBSET Marked, NEW S \in SUBSET Int
    PROVE  TimesAre(Cue(T, S))
BY DEF Cue, Loose, TimesAre

(* Cues at other times say the same.                                       *)
AreTimed(r, C, cs, s, e) ==
    /\ DOMAIN r = DOMAIN cs /\ r = [i \in DOMAIN r |-> r[i]]
    /\ \A i \in 1..Len(cs) : IsTimed(r[i], C, cs[i], s[i], e[i])
SaysSame(r, C, cs) == SaysAs(r, C, Told(cs, "source"), Told(cs, "target"))
IsRetimed(r, C, cs, s, e) ==
    /\ SaysSame(r, C, cs) /\ r \in Seq(C) /\ Len(r) = Len(cs) /\ Len(r) \in Nat
    /\ \A i \in 1..Len(cs) : r[i].start = s[i] /\ r[i].end = e[i]
LEMMA Retimed ==
    ASSUME NEW B, NEW C, NEW cs \in Seq(B), NEW r, NEW s, NEW e, AreTimed(r, C, cs, s, e)
    PROVE  IsRetimed(r, C, cs, s, e)
<1>1. Len(cs) \in Nat /\ DOMAIN cs = 1..Len(cs)
  OBVIOUS
<1>2. /\ DOMAIN r = 1..Len(cs) /\ r = [i \in DOMAIN r |-> r[i]] /\ \A i \in 1..Len(cs) : r[i] \in C
      /\ \A i \in 1..Len(cs) : r[i].start = s[i] /\ r[i].end = e[i]
      /\ \A i \in 1..Len(cs) : r[i]["source"] = cs[i]["source"] /\ r[i]["target"] = cs[i]["target"]
  BY <1>1 DEF AreTimed, IsTimed
<1>3. r \in Seq(C) /\ Len(r) = Len(cs)
  BY <1>1, <1>2, MakeSeq
<1>4. Texts(r, "source") = Texts(cs, "source") /\ Texts(r, "target") = Texts(cs, "target")
  BY <1>1, <1>2 DEF Texts
<1> QED BY <1>1, <1>2, <1>3, <1>4 DEF IsRetimed, SaysSame, SaysAs, Told

(* Saying the same goes on from pass to pass.                              *)
LEMMA SaysOn ==
    ASSUME NEW a, NEW b, NEW c, NEW B, NEW C, SaysSame(b, B, a), SaysSame(c, C, b)
    PROVE  SaysSame(c, C, a)
BY DEF SaysSame, SaysAs

EndsOf(cs)   == [i \in DOMAIN cs |-> cs[i].end]
StartsOf(cs) == [i \in DOMAIN cs |-> cs[i].start]

(* On the screen a cue begins when it did.                                 *)
LEMMA DisplayIs ==
    ASSUME NEW T \in SUBSET Marked, NEW cs \in Seq(Cue(T, Nat))
    PROVE  IsRetimed(N!Display(cs), Cue(T, Nat), cs, StartsOf(cs), [i \in DOMAIN cs |-> N!Shown(cs, i)])
<1> DEFINE C == Cue(T, Nat)
           r == N!Display(cs)
           e == [i \in DOMAIN cs |-> N!Shown(cs, i)]
           s == StartsOf(cs)
<1>1. Len(cs) \in Nat /\ DOMAIN cs = 1..Len(cs) /\ \A i \in 1..Len(cs) : cs[i] \in C
  OBVIOUS
<1>2. TimesAre(C)
  BY TimesType
<1>3. DOMAIN r = DOMAIN cs /\ r = [i \in DOMAIN r |-> r[i]] /\ \A i \in DOMAIN cs : r[i] = [cs[i] EXCEPT !.end = e[i]]
  BY DEF N!Display
<1> HIDE DEF r
<1>4. ASSUME NEW i \in 1..Len(cs) PROVE IsTimed(r[i], C, cs[i], s[i], e[i])
  <2>1. cs[i] \in C /\ s[i] = cs[i].start /\ cs[i].start \in Int /\ cs[i].end \in Int
    BY <1>1, <1>2 DEF TimesAre, StartsOf
  <2>2. i # Len(cs) => cs[i + 1].start \in Int
    <3> SUFFICES ASSUME i # Len(cs) PROVE cs[i + 1].start \in Int
      OBVIOUS
    <3>0. Len(cs) \in Nat
      OBVIOUS
    <3>1. i + 1 \in 1..Len(cs)
      BY <3>0
    <3> QED BY <1>1, <1>2, <3>1 DEF TimesAre
  <2>3. N!Shown(cs, i) \in Int
    BY <2>1, <2>2, Constants DEF N!Shown, N!GreaterOf
  <2> DEFINE c == cs[i]
             v == N!Shown(cs, i)
  <2> HIDE DEF v, s
  <2>4. IsTimed([c EXCEPT !.end = v], C, c, c.start, v)
    <3>1. c \in Cue(T, Nat) /\ v \in Int
      BY <2>1, <2>3 DEF v
    <3> HIDE DEF c
    <3> QED BY <3>1, EndPut
  <2> QED BY <1>1, <1>3, <2>1, <2>4 DEF v
<1> HIDE DEF C, s, e
<1>5. AreTimed(r, C, cs, s, e)
  BY <1>3, <1>4 DEF AreTimed
<1>6. cs \in Seq(C)
  BY DEF C
<1>7. IsRetimed(r, C, cs, s, e)
  BY <1>5, <1>6, Retimed
<1> QED BY <1>7 DEF r, C, s, e

(* A cue ends where the next one begins; it lasts a minimum.               *)
CutAt(cs, i)  == IF i < Len(cs) /\ cs[i].end > cs[i + 1].start THEN cs[i + 1].start ELSE cs[i].end
FullAt(cs, i) == IF cs[i].end - cs[i].start >= MinDuration THEN cs[i].end
                 ELSE IF i = Len(cs) THEN cs[i].start + MinDuration
                 ELSE N!LesserOf(cs[i].start + MinDuration, cs[i + 1].start)
LEMMA NextIn == ASSUME NEW n \in Nat, NEW i \in 1..n PROVE (i # n <=> i < n) /\ (i < n => i + 1 \in 1..n)
OBVIOUS

(* No cue ends after the next one begins.                                  *)
LEMMA ShortenedIs ==
    ASSUME NEW T \in SUBSET Marked, NEW cs \in Seq(Cue(T, Nat))
    PROVE  IsRetimed(N!Shortened(cs), Cue(T, Nat), cs, StartsOf(cs), [i \in DOMAIN cs |-> CutAt(cs, i)])
<1> DEFINE C == Cue(T, Nat)
           r == N!Shortened(cs)
           e == [i \in DOMAIN cs |-> CutAt(cs, i)]
           s == StartsOf(cs)
<1>1. Len(cs) \in Nat /\ DOMAIN cs = 1..Len(cs) /\ \A i \in 1..Len(cs) : cs[i] \in C
  OBVIOUS
<1>2. TimesAre(C)
  BY TimesType
<1>3. /\ DOMAIN r = DOMAIN cs /\ r = [i \in DOMAIN r |-> r[i]]
      /\ \A i \in DOMAIN cs : r[i] = IF i < Len(cs) /\ cs[i].end > cs[i + 1].start
                                     THEN [cs[i] EXCEPT !.end = cs[i + 1].start] ELSE cs[i]
  BY DEF N!Shortened
<1> HIDE DEF r
<1>4. ASSUME NEW i \in 1..Len(cs) PROVE IsTimed(r[i], C, cs[i], s[i], e[i])
  <2> DEFINE c == cs[i]
             v == cs[i + 1].start
  <2>1. c \in Cue(T, Nat) /\ s[i] = c.start
    BY <1>1 DEF StartsOf
  <2>2. CASE i < Len(cs) /\ cs[i].end > cs[i + 1].start
    <3>1. i + 1 \in 1..Len(cs)
      BY <1>1, <2>2, NextIn
    <3>2. v \in Int
      BY <1>1, <1>2, <3>1 DEF TimesAre
    <3>3. r[i] = [c EXCEPT !.end = v] /\ e[i] = v
      BY <1>1, <1>3, <2>2 DEF CutAt
    <3> HIDE DEF v, c, e, s
    <3>4. IsTimed([c EXCEPT !.end = v], C, c, c.start, v)
      BY <2>1, <3>2, EndPut
    <3> QED BY <2>1, <3>3, <3>4 DEF c
  <2>3. CASE ~(i < Len(cs) /\ cs[i].end > cs[i + 1].start)
    <3>1. r[i] = c /\ e[i] = c.end
      BY <1>1, <1>3, <2>3 DEF CutAt
    <3> HIDE DEF v, c, e, s
    <3>2. IsTimed(c, C, c, c.start, c.end)
      BY <2>1, NotPut
    <3> QED BY <2>1, <3>1, <3>2 DEF c
  <2> QED BY <2>2, <2>3
<1> HIDE DEF C, s, e
<1>5. AreTimed(r, C, cs, s, e)
  BY <1>3, <1>4 DEF AreTimed
<1>6. cs \in Seq(C)
  BY DEF C
<1>7. IsRetimed(r, C, cs, s, e)
  BY <1>5, <1>6, Retimed
<1> QED BY <1>7 DEF r, C, s, e

(* A short cue ends later, but not after the next one begins.              *)
LEMMA AtMinimumIs ==
    ASSUME NEW T \in SUBSET Marked, NEW cs \in Seq(Cue(T, Nat))
    PROVE  IsRetimed(N!AtMinimum(cs), Cue(T, Nat), cs, StartsOf(cs), [i \in DOMAIN cs |-> FullAt(cs, i)])
<1> DEFINE C == Cue(T, Nat)
           r == N!AtMinimum(cs)
           e == [i \in DOMAIN cs |-> FullAt(cs, i)]
           s == StartsOf(cs)
<1>1. Len(cs) \in Nat /\ DOMAIN cs = 1..Len(cs) /\ \A i \in 1..Len(cs) : cs[i] \in C
  OBVIOUS
<1>2. TimesAre(C)
  BY TimesType
<1>3. /\ DOMAIN r = DOMAIN cs /\ r = [i \in DOMAIN r |-> r[i]]
      /\ \A i \in DOMAIN cs :
            r[i] = IF cs[i].end - cs[i].start >= MinDuration THEN cs[i]
                   ELSE [cs[i] EXCEPT !.end = IF i = Len(cs) THEN cs[i].start + MinDuration
                                              ELSE N!LesserOf(cs[i].start + MinDuration, cs[i + 1].start)]
  BY DEF N!AtMinimum, N!Lasts
<1> HIDE DEF r
<1>4. ASSUME NEW i \in 1..Len(cs) PROVE IsTimed(r[i], C, cs[i], s[i], e[i])
  <2> DEFINE c == cs[i]
             v == IF i = Len(cs) THEN cs[i].start + MinDuration
                  ELSE N!LesserOf(cs[i].start + MinDuration, cs[i + 1].start)
  <2>1. c \in Cue(T, Nat) /\ s[i] = c.start
    BY <1>1 DEF StartsOf
  <2>2. CASE ~(cs[i].end - cs[i].start >= MinDuration)
    <3>1. i # Len(cs) => i + 1 \in 1..Len(cs)
      BY <1>1, <2>2, NextIn
    <3>2. i # Len(cs) => cs[i + 1].start \in Int
      BY <1>1, <1>2, <3>1 DEF TimesAre
    <3>3. cs[i].start + MinDuration \in Int
      BY <1>1, <1>2, Constants DEF TimesAre
    <3>4. v \in Int
      BY <3>2, <3>3 DEF N!LesserOf
    <3>5. r[i] = [c EXCEPT !.end = v] /\ e[i] = v
      BY <1>1, <1>3, <2>2 DEF FullAt
    <3> HIDE DEF v, c, e, s
    <3>6. IsTimed([c EXCEPT !.end = v], C, c, c.start, v)
      BY <2>1, <3>4, EndPut
    <3> QED BY <2>1, <3>5, <3>6 DEF c
  <2>3. CASE cs[i].end - cs[i].start >= MinDuration
    <3>1. r[i] = c /\ e[i] = c.end
      BY <1>1, <1>3, <2>3 DEF FullAt
    <3> HIDE DEF v, c, e, s
    <3>2. IsTimed(c, C, c, c.start, c.end)
      BY <2>1, NotPut
    <3> QED BY <2>1, <3>1, <3>2 DEF c
  <2> QED BY <2>2, <2>3
<1> HIDE DEF C, s, e
<1>5. AreTimed(r, C, cs, s, e)
  BY <1>3, <1>4 DEF AreTimed
<1>6. cs \in Seq(C)
  BY DEF C
<1>7. IsRetimed(r, C, cs, s, e)
  BY <1>5, <1>6, Retimed
<1> QED BY <1>7 DEF r, C, s, e

(* Cues that neither overlap nor are too short with silence behind them.   *)
IsShort(c) == c.end - c.start < MinDuration
Chain(cs) ==
    \A i \in 1..Len(cs) :
       /\ cs[i].start <= cs[i].end
       /\ i < Len(cs) => cs[i].end <= cs[i + 1].start
       /\ IsShort(cs[i]) => i < Len(cs) /\ cs[i].end = cs[i + 1].start
LastsLong(cs) == Len(cs) > 0 => ~IsShort(cs[Len(cs)])
LEMMA FitIs ==
    ASSUME NEW T \in SUBSET Marked, NEW cs \in Seq(Cue(T, Nat)), NEW r, r = N!AtMinimum(N!Shortened(cs))
    PROVE  /\ SaysSame(r, Cue(T, Nat), cs) /\ r \in Seq(Cue(T, Nat)) /\ LastsLong(r)
           /\ N!InStartOrder(cs) => Chain(r)
<1> DEFINE C == Cue(T, Nat)
           n == Len(cs)
           b == N!Shortened(cs)
<1>1. n \in Nat /\ DOMAIN cs = 1..n /\ \A i \in 1..n : cs[i] \in C
  OBVIOUS
<1>2. TimesAre(C)
  BY TimesType
<1>3. \A i \in 1..n : cs[i].start \in Int /\ cs[i].end \in Int
  BY <1>1, <1>2 DEF TimesAre
<1>4. IsRetimed(b, C, cs, StartsOf(cs), [i \in DOMAIN cs |-> CutAt(cs, i)])
  BY ShortenedIs
<1>5. SaysSame(b, C, cs) /\ b \in Seq(C) /\ Len(b) = n
  BY <1>4 DEF IsRetimed
<1>6. \A i \in 1..n : b[i].start = cs[i].start /\ b[i].end = CutAt(cs, i)
  BY <1>1, <1>4 DEF IsRetimed, StartsOf
<1> HIDE DEF b
<1>7. IsRetimed(r, C, b, StartsOf(b), [i \in DOMAIN b |-> FullAt(b, i)])
  BY <1>5, AtMinimumIs DEF b
<1>8. SaysSame(r, C, b) /\ r \in Seq(C) /\ Len(r) = n
  BY <1>5, <1>7 DEF IsRetimed
<1>9. \A i \in 1..n : r[i].start = b[i].start /\ r[i].end = FullAt(b, i)
  <2>1. DOMAIN b = 1..n
    BY <1>5
  <2> QED BY <1>5, <1>7, <2>1 DEF IsRetimed, StartsOf
<1> HIDE DEF C
<1>10. SaysSame(r, C, cs)
  BY <1>5, <1>8, SaysOn
<1>11. MinDuration \in Nat
  BY Constants
<1> DEFINE s == [i \in 1..n |-> cs[i].start]
           e == [i \in 1..n |-> cs[i].end]
           cut(i) == IF i < n /\ e[i] > s[i + 1] THEN s[i + 1] ELSE e[i]
           full(i) == IF cut(i) - s[i] >= MinDuration THEN cut(i)
                      ELSE IF i = n THEN s[i] + MinDuration
                      ELSE IF s[i] + MinDuration < s[i + 1] THEN s[i] + MinDuration ELSE s[i + 1]
<1>12. \A i \in 1..n : s[i] \in Int /\ e[i] \in Int /\ s[i] = cs[i].start /\ e[i] = cs[i].end
                      /\ (i # n => i + 1 \in 1..n) /\ (i # n <=> i < n)
  BY <1>1, <1>3, NextIn
<1> HIDE DEF s, e
<1>13. \A i \in 1..n : r[i].start = s[i] /\ r[i].end = full(i)
  <2> SUFFICES ASSUME NEW i \in 1..n PROVE r[i].start = s[i] /\ r[i].end = full(i)
    OBVIOUS
  <2>1. /\ i # n => i < n /\ i + 1 \in 1..n /\ s[i + 1] = cs[i + 1].start /\ b[i + 1].start = s[i + 1]
        /\ i = n => ~(i < n)
        /\ s[i] = cs[i].start /\ e[i] = cs[i].end /\ b[i].start = s[i]
    BY <1>6, <1>12
  <2>2. b[i].end = cut(i)
    BY <1>6, <2>1 DEF CutAt
  <2>3. FullAt(b, i) = full(i)
    BY <1>5, <2>1, <2>2 DEF FullAt, N!LesserOf
  <2> QED BY <1>9, <2>1, <2>3
<1>14. \A i \in 1..n : full(i) \in Int /\ cut(i) \in Int
  BY <1>11, <1>12
<1>15. ASSUME n > 0 PROVE ~IsShort(r[n])
  <2>1. n \in 1..n
    BY <1>1, <1>15
  <2> QED BY <1>11, <1>12, <1>13, <1>14, <2>1 DEF IsShort
<1>16. ASSUME N!InStartOrder(cs) PROVE Chain(r)
  <2>1. \A i \in 1..n : i < n => s[i] <= s[i + 1]
    <3>1. ASSUME NEW i \in 1..n, i < n PROVE s[i] <= s[i + 1]
      <4>1. i + 1 \in 1..n /\ i + 1 > 1 /\ (i + 1) - 1 = i
        BY <1>1, <3>1
      <4>2. \A j \in 1..n : j > 1 => cs[j - 1].start <= cs[j].start
        BY <1>1, <1>16 DEF N!InStartOrder
      <4>3. cs[(i + 1) - 1].start <= cs[i + 1].start
        BY <4>1, <4>2
      <4> QED BY <1>12, <3>1, <4>1, <4>3
    <3> QED BY <3>1
  <2>2. ASSUME NEW i \in 1..n
        PROVE  /\ s[i] <= full(i) /\ (i < n => full(i) <= s[i + 1])
               /\ full(i) - s[i] < MinDuration => i < n /\ full(i) = s[i + 1]
    <3>1. s[i] \in Int /\ e[i] \in Int /\ (i < n => s[i + 1] \in Int /\ s[i] <= s[i + 1]) /\ (i # n <=> i < n)
      BY <1>12, <2>1
    <3> QED BY <1>11, <3>1
  <2>3. \A i \in 1..n : i < n => r[i + 1].start = s[i + 1]
    BY <1>12, <1>13
  <2> QED BY <1>8, <1>13, <2>2, <2>3 DEF Chain, IsShort
<1> QED BY <1>8, <1>10, <1>15, <1>16 DEF LastsLong, C

(* The fold that merges cues without time: what is kept and what is held   *)
(* back say what the cues so far do; a cue held back begins where the next *)
(* one does.                                                               *)
MergeStep(s, cs, i) ==
    LET c == IF s.held = <<>> THEN cs[i]
             ELSE N!Prefixed(s.held[1], cs[i], N!LesserOf(s.held[1].start, cs[i].start), cs[i].end)
        n == Len(s.kept)
    IN  IF N!Lasts(c) > 0 THEN [kept |-> Append(s.kept, c), held |-> <<>>]
        ELSE IF i < Len(cs) THEN [kept |-> s.kept, held |-> <<c>>]
        ELSE IF n = 0 THEN s
        ELSE [s EXCEPT !.kept[n] = N!Prefixed(@, c, @.start, N!GreaterOf(@.end, c.end))]

KeptChain(k) == \A j \in 1..Len(k) : /\ k[j].start < k[j].end
                                     /\ j < Len(k) => k[j].end <= k[j + 1].start
                                     /\ j < Len(k) /\ IsShort(k[j]) => k[j].end = k[j + 1].start
Meets(k, cs, i) == Len(k) > 0 =>
    /\ i < Len(cs) => k[Len(k)].end <= cs[i + 1].start
    /\ IsShort(k[Len(k)]) => i < Len(cs) /\ k[Len(k)].end = cs[i + 1].start
Merging(k, h, cs, i) == KeptChain(k) /\ Meets(k, cs, i) /\ (h # <<>> => h[1].start = cs[i + 1].start)
HoldsOne(h, C) == h = <<>> \/ (\E c \in C : h = <<c>>)
Says(k, h, f, text) == Told(k, f) \o Told(h, f) = text
Merged(s, C, cs, i, gs, gt) ==
    /\ s \in [kept : Seq(C), held : Seq(C)] /\ HoldsOne(s.held, C)
    /\ Says(s.kept, s.held, "source", gs[i]) /\ Says(s.kept, s.held, "target", gt[i])
    /\ i = Len(cs) => s.held = <<>>
    /\ Chain(cs) => Merging(s.kept, s.held, cs, i)

(* The cue with what is held back.                                         *)
Carries(c, C, h, x) ==
    /\ c \in C /\ c.end = x.end /\ c.start <= x.start /\ (h # <<>> /\ h[1].start = x.start => c.start = x.start)
    /\ (h = <<>> => c.start = x.start)
    /\ c["source"] = Told(h, "source") \o x["source"] /\ c["target"] = Told(h, "target") \o x["target"]
Carried(h, x) == IF h = <<>> THEN x ELSE N!Prefixed(h[1], x, N!LesserOf(h[1].start, x.start), x.end)
LEMMA NothingBefore == ASSUME NEW T, NEW t \in Seq(T) PROVE <<>> \o t = t /\ t \o <<>> = t
OBVIOUS
LEMMA CarriedIs ==
    ASSUME NEW T \in SUBSET Marked, NEW h, HoldsOne(h, Cue(T, Nat)), NEW x \in Cue(T, Nat)
    PROVE  Carries(Carried(h, x), Cue(T, Nat), h, x)
<1> DEFINE C == Cue(T, Nat)
<1>1. Tells(C, "source", Marked) /\ Tells(C, "target", Marked)
  BY CuesTell
<1>2. x["source"] \in Seq(Marked) /\ x["target"] \in Seq(Marked)
  BY <1>1 DEF Tells
<1>3. \A c \in C : c.start \in Nat /\ c.end \in Int
  BY DEF Cue, Loose
<1>4. CASE h = <<>>
  <2>1. Told(h, "source") = <<>> /\ Told(h, "target") = <<>>
    BY <1>2, <1>4, ToldOne
  <2>2. <<>> \o x["source"] = x["source"] /\ <<>> \o x["target"] = x["target"]
    BY <1>2, NothingBefore
  <2>3. Carried(h, x) = x
    BY <1>4 DEF Carried
  <2>4. x \in C /\ x.start <= x.start
    BY <1>3
  <2> HIDE DEF C
  <2>5. Carries(x, C, h, x)
    BY <1>4, <2>1, <2>2, <2>4 DEF Carries
  <2> QED BY <2>3, <2>5 DEF C
<1>5. CASE h # <<>>
  <2>1. PICK l \in C : h = <<l>>
    BY <1>5 DEF HoldsOne
  <2>2. l["source"] \in Seq(Marked) /\ l["target"] \in Seq(Marked) /\ h[1] = l
    BY <1>1, <2>1 DEF Tells
  <2>3. Told(h, "source") = l["source"] /\ Told(h, "target") = l["target"]
    BY <2>1, <2>2, ToldOne
  <2> DEFINE s == N!LesserOf(l.start, x.start)
             p == N!Prefixed(l, x, s, x.end)
  <2>4. s \in Nat /\ s <= x.start /\ (l.start = x.start => s = x.start) /\ x.end \in Int
    BY <1>3 DEF N!LesserOf
  <2>5. Carried(h, x) = p
    BY <1>5, <2>2 DEF Carried
  <2> HIDE DEF s
  <2>6. IsPrefixed(p, C, l, x, s, x.end)
    BY <2>4, PrefixedIs
  <2> HIDE DEF p, C
  <2> QED BY <1>5, <2>2, <2>3, <2>4, <2>5, <2>6 DEF Carries, IsPrefixed, C
<1> QED BY <1>4, <1>5

(* A step of the merge.                                                    *)
LEMMA MergeStepKeeps ==
    ASSUME NEW T \in SUBSET Marked, NEW cs \in Seq(Cue(T, Nat)), LastsLong(cs),
           NEW gs, NEW gt, Sums(gs, cs, "source", Marked), Sums(gt, cs, "target", Marked),
           NEW i \in 1..Len(cs), NEW s, Merged(s, Cue(T, Nat), cs, i - 1, gs, gt)
    PROVE  Merged(MergeStep(s, cs, i), Cue(T, Nat), cs, i, gs, gt)
<1> DEFINE C == Cue(T, Nat)
           x == cs[i]
           k == s.kept
           h == s.held
           c == Carried(h, x)
           r == MergeStep(s, cs, i)
           n == Len(cs)
<1>0. n \in Nat
  OBVIOUS
<1>1. i \in 1..n /\ (i < n => i + 1 \in 1..n) /\ (i # n <=> i < n)
  BY <1>0, NextIn
<1>2. \A j \in 1..n : cs[j] \in C
  OBVIOUS
<1>3. \A d \in C : d.start \in Nat /\ d.end \in Int
  BY DEF Cue, Loose
<1>4. Tells(C, "source", Marked) /\ Tells(C, "target", Marked)
  BY CuesTell
<1>5. s \in [kept : Seq(C), held : Seq(C)] /\ k \in Seq(C) /\ h \in Seq(C) /\ HoldsOne(h, C)
  BY DEF Merged
<1>6. Says(k, h, "source", gs[i - 1]) /\ Says(k, h, "target", gt[i - 1])
  BY DEF Merged
<1>7. ASSUME Chain(cs) PROVE Merging(k, h, cs, i - 1)
  BY <1>7 DEF Merged
<1>8. x \in C
  BY <1>1, <1>2
<1>9. Carries(c, C, h, x)
  <2> HIDE DEF x, h
  <2> QED BY <1>5, <1>8, CarriedIs
<1>10. r = IF N!Lasts(c) > 0 THEN [kept |-> Append(k, c), held |-> <<>>]
           ELSE IF i < n THEN [kept |-> k, held |-> <<c>>]
           ELSE IF Len(k) = 0 THEN s
           ELSE [s EXCEPT !.kept[Len(k)] = N!Prefixed(@, c, @.start, N!GreaterOf(@.end, c.end))]
  BY Zenon DEF MergeStep, Carried
<1>11. gs[i] = gs[i - 1] \o x["source"] /\ gt[i] = gt[i - 1] \o x["target"]
  BY <1>1 DEF Sums
<1> HIDE DEF c, r, C, k, h, n
<1>12. c \in C /\ c.end = x.end /\ c.start <= x.start /\ c["source"] = Told(h, "source") \o x["source"]
       /\ c["target"] = Told(h, "target") \o x["target"]
  BY <1>9 DEF Carries
<1>13. c.start \in Nat /\ c.end \in Int /\ x.start \in Nat /\ x.end \in Int
  BY <1>3, <1>8, <1>12
(* With what is carried, all is said so far.                               *)
<1>14. Told(k, "source") \o c["source"] = gs[i] /\ Told(k, "target") \o c["target"] = gt[i]
  <2>1. Told(k, "source") \in Seq(Marked) /\ Told(h, "source") \in Seq(Marked) /\ x["source"] \in Seq(Marked)
    <3> HIDE DEF x
    <3> QED BY <1>4, <1>5, <1>8, ToldType DEF Tells
  <2>2. Told(k, "target") \in Seq(Marked) /\ Told(h, "target") \in Seq(Marked) /\ x["target"] \in Seq(Marked)
    <3> HIDE DEF x
    <3> QED BY <1>4, <1>5, <1>8, ToldType DEF Tells
  <2>3. Joins(Marked)
    BY Assoc
  <2> DEFINE a == Told(k, "source")
             b == Told(h, "source")
             p == x["source"]
             d == Told(k, "target")
             e == Told(h, "target")
             q == x["target"]
  <2>4. gs[i - 1] = a \o b /\ gt[i - 1] = d \o e
    BY <1>6 DEF Says
  <2>6. a \in Seq(Marked) /\ b \in Seq(Marked) /\ p \in Seq(Marked) /\ d \in Seq(Marked)
        /\ e \in Seq(Marked) /\ q \in Seq(Marked)
    BY <2>1, <2>2
  <2> HIDE DEF a, b, p, d, e, q
  <2>5. (a \o b) \o p = a \o (b \o p) /\ (d \o e) \o q = d \o (e \o q)
    <3>1. a \in Seq(Marked) /\ b \in Seq(Marked) /\ p \in Seq(Marked)
      BY <2>6
    <3>2. d \in Seq(Marked) /\ e \in Seq(Marked) /\ q \in Seq(Marked)
      BY <2>6
    <3>3. (a \o b) \o p = a \o (b \o p)
      BY <2>3, <3>1, Zenon DEF Joins
    <3>4. (d \o e) \o q = d \o (e \o q)
      BY <2>3, <3>2, Zenon DEF Joins
    <3> QED BY <3>3, <3>4
  <2> QED BY <1>11, <1>12, <2>4, <2>5, Zenon DEF a, b, p, d, e, q
(* Times of the cue and of what is carried.                                *)
<1>15. ASSUME Chain(cs)
       PROVE  /\ KeptChain(k) /\ Meets(k, cs, i - 1) /\ c.start = x.start /\ x.start <= x.end
              /\ i < n => x.end <= cs[i + 1].start
              /\ IsShort(x) => i < n /\ x.end = cs[i + 1].start
  <2>1. KeptChain(k) /\ Meets(k, cs, i - 1) /\ (h # <<>> => h[1].start = cs[(i - 1) + 1].start)
    BY <1>7, <1>15 DEF Merging
  <2>2. (i - 1) + 1 = i
    BY <1>1
  <2>3. c.start = x.start
    BY <1>9, <2>1, <2>2 DEF Carries
  <2> QED BY <1>1, <1>15, <2>1, <2>3 DEF Chain, n
<1>16. CASE N!Lasts(c) > 0
  <2>1. r = [kept |-> Append(k, c), held |-> <<>>]
    BY <1>10, <1>16
  <2> DEFINE a == Append(k, c)
  <2>2. a \in Seq(C) /\ Len(a) = Len(k) + 1 /\ Len(k) \in Nat
    BY <1>5, <1>12
  <2>3. \A j \in 1..Len(k) : a[j] = k[j]
    BY <1>5, <1>12
  <2>4. a[Len(k) + 1] = c
    BY <1>5, <1>12
  <2>5. Told(a, "source") = gs[i] /\ Told(a, "target") = gt[i]
    <3>0. k \in Seq(C) /\ c \in C
      BY <1>5, <1>12
    <3>1. Told(a, "source") = Told(k, "source") \o c["source"]
      BY <1>4, <3>0, ToldAppend
    <3>2. Told(a, "target") = Told(k, "target") \o c["target"]
      BY <1>4, <3>0, ToldAppend
    <3> QED BY <1>14, <3>1, <3>2
  <2> HIDE DEF a
  <2>6. Says(a, <<>>, "source", gs[i]) /\ Says(a, <<>>, "target", gt[i])
    <3>1. Told(a, "source") \in Seq(Marked) /\ Told(a, "target") \in Seq(Marked)
      BY <1>4, <2>2, ToldType
    <3>2. c["source"] \in Seq(Marked) /\ c["target"] \in Seq(Marked)
      BY <1>4, <1>12 DEF Tells
    <3>3. Told(<<>>, "source") = <<>> /\ Told(<<>>, "target") = <<>>
      BY <3>2, ToldOne
    <3>4. Told(a, "source") \o <<>> = Told(a, "source") /\ Told(a, "target") \o <<>> = Told(a, "target")
      BY <3>1, NothingBefore
    <3> QED BY <2>5, <3>3, <3>4 DEF Says
  <2>7. ASSUME Chain(cs) PROVE Merging(a, <<>>, cs, i)
    <3>1. KeptChain(k) /\ Meets(k, cs, i - 1) /\ c.start = x.start /\ (i < n => x.end <= cs[i + 1].start)
          /\ (IsShort(x) => i < n /\ x.end = cs[i + 1].start)
      BY <1>15, <2>7
    <3>2. IsShort(c) <=> IsShort(x)
      BY <1>12, <3>1 DEF IsShort
    <3>3. Meets(a, cs, i)
      BY <1>12, <2>2, <2>4, <3>1, <3>2 DEF Meets, n
    <3>4. ASSUME NEW j \in 1..Len(k) PROVE /\ a[j].start < a[j].end /\ a[j].end <= a[j + 1].start
                                           /\ IsShort(a[j]) => a[j].end = a[j + 1].start
      <4>1. CASE j = Len(k)
        <5>1. a[j + 1] = c /\ a[j] = k[Len(k)] /\ Len(k) > 0 /\ (i - 1) + 1 = i /\ i - 1 < n
          BY <1>0, <1>1, <2>2, <2>3, <2>4, <4>1
        <5>2. k[Len(k)].start < k[Len(k)].end
          BY <3>1, <4>1 DEF KeptChain
        <5>3. k[Len(k)].end <= x.start /\ (IsShort(k[Len(k)]) => k[Len(k)].end = x.start)
          BY <3>1, <5>1 DEF Meets, n
        <5> QED BY <3>1, <5>1, <5>2, <5>3
      <4>2. CASE j # Len(k)
        <5>1. j + 1 \in 1..Len(k) /\ j < Len(k)
          BY <2>2, <4>2, NextIn
        <5>2. a[j + 1] = k[j + 1] /\ a[j] = k[j]
          BY <2>3, <5>1
        <5> QED BY <3>1, <5>1, <5>2 DEF KeptChain
      <4> QED BY <4>1, <4>2
    <3>5. KeptChain(a)
      <4>1. a[Len(a)].start < a[Len(a)].end
        BY <1>13, <1>16, <2>2, <2>4 DEF N!Lasts
      <4>2. ASSUME NEW j \in 1..Len(a)
            PROVE  /\ a[j].start < a[j].end
                   /\ j < Len(a) => a[j].end <= a[j + 1].start
                   /\ j < Len(a) /\ IsShort(a[j]) => a[j].end = a[j + 1].start
        <5>1. j = Len(a) \/ j \in 1..Len(k)
          BY <2>2
        <5> QED BY <2>2, <3>4, <4>1, <5>1
      <4> QED BY <4>2 DEF KeptChain
    <3> QED BY <3>3, <3>5 DEF Merging
  <2>8. r.kept = a /\ r.held = <<>> /\ r \in [kept : Seq(C), held : Seq(C)]
    <3>1. <<>> \in Seq(C)
      OBVIOUS
    <3> QED BY <2>1, <2>2, <3>1 DEF a
  <2> QED BY <2>6, <2>7, <2>8 DEF Merged, HoldsOne, r, C
<1>17. CASE ~(N!Lasts(c) > 0)
  <2>1. i < n
    <3> SUFFICES ASSUME i = n PROVE FALSE
      BY <1>1
    <3>1. ~IsShort(x)
      BY <1>0, <1>1 DEF LastsLong, n
    <3> QED BY <1>12, <1>13, <1>17, <3>1, Constants DEF IsShort, N!Lasts
  <2>2. r = [kept |-> k, held |-> <<c>>]
    BY <1>10, <1>17, <2>1
  <2>3. r.kept = k /\ r.held = <<c>> /\ r \in [kept : Seq(C), held : Seq(C)]
    <3>1. <<c>> \in Seq(C)
      BY <1>12
    <3> QED BY <1>5, <2>2, <3>1
  <2>4. Says(k, <<c>>, "source", gs[i]) /\ Says(k, <<c>>, "target", gt[i])
    <3>1. c["source"] \in Seq(Marked) /\ c["target"] \in Seq(Marked)
      BY <1>4, <1>12 DEF Tells
    <3>2. Told(<<c>>, "source") = c["source"] /\ Told(<<c>>, "target") = c["target"]
      BY <3>1, ToldOne
    <3> QED BY <1>14, <3>2 DEF Says
  <2>5. ASSUME Chain(cs) PROVE Merging(k, <<c>>, cs, i)
    <3>1. KeptChain(k) /\ Meets(k, cs, i - 1) /\ c.start = x.start /\ x.start <= x.end
          /\ (IsShort(x) => x.end = cs[i + 1].start)
      BY <1>15, <2>5
    <3>2. x.start = x.end
      BY <1>12, <1>13, <1>17, <3>1 DEF N!Lasts
    <3>3. IsShort(x)
      BY <1>13, <3>2, Constants DEF IsShort
    <3>4. c.start = cs[i + 1].start /\ x.start = cs[i + 1].start
      BY <3>1, <3>2, <3>3
    <3>5. Meets(k, cs, i)
      <4>1. (i - 1) + 1 = i /\ i - 1 < n
        BY <1>0, <1>1
      <4> QED BY <2>1, <3>1, <3>4, <4>1 DEF Meets, n
    <3>6. <<c>>[1] = c
      OBVIOUS
    <3> QED BY <3>1, <3>4, <3>5, <3>6 DEF Merging
  <2> QED BY <1>12, <2>1, <2>3, <2>4, <2>5 DEF Merged, HoldsOne, r, C, n
<1> QED BY <1>16, <1>17

(* Merging keeps what is said; after it every cue has time.                *)
Timed(cs) ==
    \A i \in 1..Len(cs) :
       /\ cs[i].start < cs[i].end
       /\ i < Len(cs) => cs[i].end <= cs[i + 1].start
       /\ IsShort(cs[i]) => i < Len(cs) /\ cs[i].end = cs[i + 1].start
LEMMA MergedSay ==
    ASSUME NEW T \in SUBSET Marked, NEW cs \in Seq(Cue(T, Nat)), LastsLong(cs)
    PROVE  SaysSame(N!WithoutEmpty(cs), Cue(T, Nat), cs) /\ (Chain(cs) => Timed(N!WithoutEmpty(cs)))
<1> DEFINE C == Cue(T, Nat)
           n == Len(cs)
           M == [kept : Seq(C), held : Seq(C)]
           none == [kept |-> <<>>, held |-> <<>>]
<1>1. Tells(C, "source", Marked) /\ Tells(C, "target", Marked)
  BY CuesTell
<1>2. PICK gs : Sums(gs, cs, "source", Marked)
  <2> HIDE DEF C
  <2>1. cs \in Seq(C)
    BY DEF C
  <2> QED BY <1>1, <2>1, SumsExist
<1>3. PICK gt : Sums(gt, cs, "target", Marked)
  <2> HIDE DEF C
  <2>1. cs \in Seq(C)
    BY DEF C
  <2> QED BY <1>1, <2>1, SumsExist
<1> DEFINE Ok(acc, i) == Merged(acc, C, cs, i, gs, gt)
<1>4. n \in Nat
  OBVIOUS
<1>5. ASSUME NEW i \in 1..n, NEW m, Ok(m, i - 1) PROVE Ok(MergeStep(m, cs, i), i)
  BY <1>2, <1>3, <1>5, MergeStepKeeps
<1>6. Ok(none, 0)
  <2>1. gs[0] = <<>> /\ gt[0] = <<>>
    BY <1>2, <1>3 DEF Sums
  <2>2. Told(<<>>, "source") = <<>> /\ Told(<<>>, "target") = <<>>
    BY FlatEmpty DEF Told, Texts
  <2>3. <<>> \o <<>> = <<>>
    OBVIOUS
  <2>4. Says(<<>>, <<>>, "source", gs[0]) /\ Says(<<>>, <<>>, "target", gt[0])
    BY <2>1, <2>2, <2>3 DEF Says
  <2>5. none \in M /\ none.kept = <<>> /\ none.held = <<>>
    <3>1. <<>> \in Seq(C)
      OBVIOUS
    <3> HIDE DEF C
    <3> QED BY <3>1
  <2>6. Merging(<<>>, <<>>, cs, 0)
    <3>1. Len(<<>>) = 0 /\ 1..0 = {}
      OBVIOUS
    <3> QED BY <3>1 DEF Merging, KeptChain, Meets
  <2> HIDE DEF none, C
  <2> QED BY <2>4, <2>5, <2>6 DEF Merged, HoldsOne
<1>7. \A acc, i : Ok(acc, i) => acc \in M
  BY DEF Merged
<1> DEFINE V == [i \in 0..n |-> {acc \in M : Ok(acc, i)}]
           F == [i \in 1..n |-> [m \in M |-> MergeStep(m, cs, i)]]
           IsIt(d) == d = [i \in 0..n |-> IF i = 0 THEN none ELSE MergeStep(d[i - 1], cs, i)]
           all == CHOOSE d : IsIt(d)
<1> HIDE DEF C, n, Ok, M, none
<1>8. Stays(n, none, V, F)
  <2>1. 0 \in 0..n /\ \A i \in 1..n : i - 1 \in 0..n /\ i \in 0..n
    BY <1>4
  <2>2. \A i \in 0..n : \A acc : acc \in V[i] <=> Ok(acc, i)
    BY <1>7
  <2>3. \A i \in 1..n : \A m \in M : F[i][m] = MergeStep(m, cs, i)
    OBVIOUS
  <2> HIDE DEF V, F
  <2>4. ASSUME NEW i \in 1..n, NEW m \in V[i - 1] PROVE F[i][m] \in V[i]
    <3>1. Ok(m, i - 1) /\ m \in M
      BY <1>7, <2>1, <2>2
    <3>2. F[i][m] = MergeStep(m, cs, i) /\ Ok(MergeStep(m, cs, i), i)
      BY <1>5, <2>3, <3>1
    <3> QED BY <2>1, <2>2, <3>2
  <2> QED BY <1>6, <2>1, <2>2, <2>4 DEF Stays
<1>9. PICK d : IsFold(d, n, none, V, F)
  <2> HIDE DEF V, F
  <2> QED BY <1>4, <1>8, FoldHolds
<1>10. \A i \in 0..n : d[i] \in M
  <2> HIDE DEF F
  <2> QED BY <1>9 DEF IsFold
<1>11. IsIt(d)
  <2> HIDE DEF V
  <2>1. \A i \in 0..n : i = 0 \/ (i \in 1..n /\ i - 1 \in 0..n /\ i # 0)
    BY <1>4
  <2>2. \A i \in 1..n : \A m \in M : F[i][m] = MergeStep(m, cs, i)
    OBVIOUS
  <2> HIDE DEF F
  <2>3. \A i \in 0..n : d[i] = IF i = 0 THEN none ELSE MergeStep(d[i - 1], cs, i)
    BY <1>9, <1>10, <2>1, <2>2 DEF IsFold
  <2>4. d = [i \in 0..n |-> d[i]]
    BY <1>9 DEF IsFold
  <2> QED BY <2>3, <2>4, Zenon
<1>12. IsIt(all)
  <2> HIDE DEF IsIt
  <2> QED BY <1>11
<1>13. N!WithoutEmpty(cs) = all[n].kept
  BY DEF N!WithoutEmpty, N!Folded, MergeStep, n, none
<1> HIDE DEF all
<1> DEFINE W == {i \in 0..n : Ok(all[i], i)}
<1>14. 0 \in W /\ \A i \in 1..n : i - 1 \in W => i \in W
  <2>1. 0 \in 0..n /\ \A i \in 1..n : i - 1 \in 0..n /\ i \in 0..n /\ i # 0
    BY <1>4
  <2>2. all[0] = none /\ \A i \in 1..n : all[i] = MergeStep(all[i - 1], cs, i)
    BY <1>12, <2>1
  <2>3. \A i \in 1..n : Ok(all[i - 1], i - 1) => Ok(all[i], i)
    BY <1>5, <2>2
  <2> QED BY <1>6, <2>1, <2>2, <2>3
<1>15. 0..n \subseteq W
  <2> HIDE DEF W
  <2> QED BY <1>4, <1>14, Induction
<1>16. Ok(all[n], n)
  BY <1>4, <1>15
<1> DEFINE r == all[n]
           k == r.kept
<1>17. r.kept \in Seq(C) /\ r.held = <<>>
       /\ Says(r.kept, r.held, "source", gs[n]) /\ Says(r.kept, r.held, "target", gt[n])
  BY <1>16 DEF Ok, Merged, n
<1> HIDE DEF r
<1>18. Told(k, "source") = gs[n] /\ Told(k, "target") = gt[n]
  <2>1. Told(k, "source") \in Seq(Marked) /\ Told(k, "target") \in Seq(Marked)
    BY <1>1, <1>17, ToldType
  <2>2. Told(<<>>, "source") = <<>> /\ Told(<<>>, "target") = <<>>
    BY FlatEmpty DEF Told, Texts
  <2>3. Told(k, "source") \o <<>> = Told(k, "source") /\ Told(k, "target") \o <<>> = Told(k, "target")
    BY <2>1, NothingBefore
  <2> QED BY <1>17, <2>2, <2>3 DEF Says
<1>19. SaysSame(k, C, cs)
  BY <1>2, <1>3, <1>17, <1>18 DEF SaysSame, SaysAs, Sums, n
<1>20. ASSUME Chain(cs) PROVE Timed(k)
  <2>1. KeptChain(k) /\ Meets(k, cs, n)
    BY <1>16, <1>20 DEF Ok, Merged, Merging, r
  <2>2. Len(k) \in Nat
    BY <1>17
  <2>3. ASSUME NEW i \in 1..Len(k)
        PROVE  /\ k[i].start < k[i].end
               /\ i < Len(k) => k[i].end <= k[i + 1].start
               /\ IsShort(k[i]) => i < Len(k) /\ k[i].end = k[i + 1].start
    <3>1. CASE i < Len(k)
      BY <2>1, <3>1 DEF KeptChain
    <3>2. CASE ~(i < Len(k))
      <4>1. i = Len(k) /\ Len(k) > 0 /\ ~(n < n)
        BY <1>4, <2>2, <3>2
      <4>2. ~IsShort(k[i])
        BY <2>1, <4>1 DEF Meets, n
      <4> QED BY <2>1, <3>2, <4>2 DEF KeptChain
    <3> QED BY <3>1, <3>2
  <2> QED BY <2>3 DEF Timed
<1> QED BY <1>13, <1>19, <1>20 DEF C, r

(* A cue that is too short begins earlier.                                 *)
EarlierAt(cs, i) == IF MinDuration - (cs[i].end - cs[i].start) <= 0 THEN cs[i].start
                    ELSE N!GreaterOf(IF i = 1 THEN 0 ELSE cs[i - 1].end,
                                     cs[i].start - (MinDuration - (cs[i].end - cs[i].start)))
LEMMA PreviousIn ==
    ASSUME NEW n \in Nat, NEW i \in 1..n
    PROVE  (i # 1 <=> i > 1) /\ (i # 1 => i - 1 \in 1..n /\ (i - 1) + 1 = i)
OBVIOUS
LEMMA EarlierIs ==
    ASSUME NEW T \in SUBSET Marked, NEW cs \in Seq(Cue(T, Nat))
    PROVE  IsRetimed(N!StartEarlier(cs), Cue(T, Int), cs, [i \in DOMAIN cs |-> EarlierAt(cs, i)], EndsOf(cs))
<1> DEFINE B == Cue(T, Nat)
           C == Cue(T, Int)
           r == N!StartEarlier(cs)
           s == [i \in DOMAIN cs |-> EarlierAt(cs, i)]
           e == EndsOf(cs)
<1>1. Len(cs) \in Nat /\ DOMAIN cs = 1..Len(cs) /\ \A i \in 1..Len(cs) : cs[i] \in B
  OBVIOUS
<1>2. TimesAre(B)
  BY TimesType
<1>3. /\ DOMAIN r = DOMAIN cs /\ r = [i \in DOMAIN r |-> r[i]]
      /\ \A i \in DOMAIN cs :
            r[i] = IF MinDuration - (cs[i].end - cs[i].start) <= 0 THEN cs[i]
                   ELSE [cs[i] EXCEPT !.start = N!GreaterOf(IF i = 1 THEN 0 ELSE cs[i - 1].end,
                                       cs[i].start - (MinDuration - (cs[i].end - cs[i].start)))]
  BY DEF N!StartEarlier, N!Lasts
<1> HIDE DEF r
<1>4. ASSUME NEW i \in 1..Len(cs) PROVE IsTimed(r[i], C, cs[i], s[i], e[i])
  <2> DEFINE c == cs[i]
             short == MinDuration - (cs[i].end - cs[i].start) <= 0
             v == N!GreaterOf(IF i = 1 THEN 0 ELSE cs[i - 1].end,
                              cs[i].start - (MinDuration - (cs[i].end - cs[i].start)))
  <2>1. c \in Cue(T, Nat) /\ e[i] = c.end
    BY <1>1 DEF EndsOf
  <2>2. CASE ~short
    <3>1. i # 1 => i - 1 \in 1..Len(cs)
      BY <1>1, PreviousIn
    <3>2. i # 1 => cs[i - 1].end \in Int
      BY <1>1, <1>2, <3>1 DEF TimesAre
    <3>3. cs[i].start - (MinDuration - (cs[i].end - cs[i].start)) \in Int
      BY <1>1, <1>2, Constants DEF TimesAre
    <3>4. v \in Int
      BY <3>2, <3>3 DEF N!GreaterOf
    <3>5. r[i] = [c EXCEPT !.start = v] /\ s[i] = v
      BY <1>1, <1>3, <2>2 DEF EarlierAt
    <3> HIDE DEF v, c, e, s
    <3>6. IsTimed([c EXCEPT !.start = v], C, c, v, c.end)
      BY <2>1, <3>4, StartPut
    <3> QED BY <2>1, <3>5, <3>6 DEF c
  <2>3. CASE short
    <3>1. r[i] = c /\ s[i] = c.start /\ Nat \subseteq Int
      BY <1>1, <1>3, <2>3 DEF EarlierAt
    <3> HIDE DEF v, c, e, s
    <3>2. IsTimed(c, C, c, c.start, c.end)
      BY <2>1, <3>1, NotPut
    <3> QED BY <2>1, <3>1, <3>2 DEF c
  <2> QED BY <2>2, <2>3
<1> HIDE DEF C, B, s, e
<1>5. AreTimed(r, C, cs, s, e)
  BY <1>3, <1>4 DEF AreTimed
<1>6. cs \in Seq(B)
  BY DEF B
<1>7. IsRetimed(r, C, cs, s, e)
  BY <1>5, <1>6, Retimed
<1> QED BY <1>7 DEF r, C, s, e

(* A cue that is still too short touches both its neighbours, or begins    *)
(* at 0.                                                                   *)
Tight(cs) ==
    \A i \in 1..Len(cs) :
       /\ 0 <= cs[i].start /\ cs[i].start < cs[i].end
       /\ i < Len(cs) => cs[i].end <= cs[i + 1].start
       /\ IsShort(cs[i]) => /\ i < Len(cs) /\ cs[i].end = cs[i + 1].start
                            /\ IF i = 1 THEN cs[i].start = 0 ELSE cs[i - 1].end = cs[i].start
LEMMA WidenIs ==
    ASSUME NEW T \in SUBSET Marked, NEW cs \in Seq(Cue(T, Nat)), NEW r, r = N!StartEarlier(cs)
    PROVE  SaysSame(r, Cue(T, Int), cs) /\ r \in Seq(Cue(T, Int)) /\ (Timed(cs) => Tight(r))
<1> DEFINE n == Len(cs)
<1>0. n \in Nat
  OBVIOUS
<1>1. n \in Nat /\ DOMAIN cs = 1..n /\ \A i \in 1..n : cs[i] \in Cue(T, Nat)
  OBVIOUS
<1>2. \A c \in Cue(T, Nat) : c.start \in Nat /\ c.end \in Int
  BY DEF Cue, Loose
<1>3. \A i \in 1..n : cs[i].start \in Nat /\ cs[i].end \in Int
  BY <1>1, <1>2
<1>4. IsRetimed(r, Cue(T, Int), cs, [i \in DOMAIN cs |-> EarlierAt(cs, i)], EndsOf(cs))
  BY EarlierIs
<1>5. SaysSame(r, Cue(T, Int), cs) /\ r \in Seq(Cue(T, Int)) /\ Len(r) = n
  BY <1>4 DEF IsRetimed
<1>6. \A i \in 1..n : r[i].start = EarlierAt(cs, i) /\ r[i].end = cs[i].end
  BY <1>1, <1>4 DEF IsRetimed, EndsOf
<1>7. ASSUME Timed(cs) PROVE Tight(r)
  <2> DEFINE s(i) == cs[i].start
             e(i) == cs[i].end
             from(i) == IF i = 1 THEN 0 ELSE e(i - 1)
  <2>1. MinDuration \in Nat
    BY Constants
  <2>2. \A i \in 1..n : s(i) \in Nat /\ e(i) \in Int /\ s(i) < e(i)
    BY <1>3, <1>7 DEF Timed
  <2>3. \A i \in 1..n : i < n => i + 1 \in 1..n /\ e(i) <= s(i + 1) /\ i + 1 # 1 /\ (i + 1) - 1 = i
    BY <1>0, <1>7, NextIn DEF Timed
  <2>4. \A i \in 1..n : e(i) - s(i) < MinDuration => i < n /\ e(i) = s(i + 1)
    BY <1>7 DEF Timed, IsShort
  <2>5. \A i \in 1..n : from(i) \in Nat /\ from(i) <= s(i)
    <3>1. ASSUME NEW i \in 1..n PROVE from(i) \in Nat /\ from(i) <= s(i)
      <4>1. CASE i = 1
        BY <2>2, <4>1
      <4>2. CASE i # 1
        <5>1. i - 1 \in 1..n /\ (i - 1) + 1 = i /\ i - 1 < n
          BY <1>0, <4>2
        <5>2. e(i - 1) <= s(i) /\ s(i - 1) < e(i - 1) /\ s(i - 1) \in Nat /\ e(i - 1) \in Int
          BY <2>2, <2>3, <5>1
        <5> HIDE DEF s, e
        <5> QED BY <4>2, <5>2
      <4> QED BY <4>1, <4>2
    <3> QED BY <3>1
  <2> HIDE DEF n
  <2>6. \A i \in 1..n : r[i].end = e(i) /\ r[i].start = IF e(i) - s(i) >= MinDuration THEN s(i)
                            ELSE IF from(i) > s(i) - (MinDuration - (e(i) - s(i))) THEN from(i)
                            ELSE s(i) - (MinDuration - (e(i) - s(i)))
    <3>1. ASSUME NEW i \in 1..n PROVE (MinDuration - (e(i) - s(i)) <= 0) <=> (e(i) - s(i) >= MinDuration)
      <4>1. s(i) \in Nat /\ e(i) \in Int
        BY <2>2
      <4> HIDE DEF s, e
      <4> QED BY <2>1, <4>1
    <3>2. \A i \in 1..n : r[i].end = e(i) /\ r[i].start = EarlierAt(cs, i)
      BY <1>6
    <3> QED BY <3>1, <3>2 DEF EarlierAt, N!GreaterOf
  <2> HIDE DEF s, e, from
  <2>7. ASSUME NEW i \in 1..n
        PROVE  /\ r[i].start \in Nat /\ from(i) <= r[i].start /\ r[i].start <= s(i) /\ r[i].end = e(i)
               /\ IsShort(r[i]) => e(i) - s(i) < MinDuration /\ r[i].start = from(i)
    <3>1. s(i) \in Nat /\ e(i) \in Int /\ s(i) < e(i) /\ from(i) \in Nat /\ from(i) <= s(i)
      BY <2>2, <2>5
    <3>2. r[i].end = e(i) /\ r[i].start = IF e(i) - s(i) >= MinDuration THEN s(i)
                            ELSE IF from(i) > s(i) - (MinDuration - (e(i) - s(i))) THEN from(i)
                            ELSE s(i) - (MinDuration - (e(i) - s(i)))
      BY <2>6
    <3> QED BY <2>1, <3>1, <3>2 DEF IsShort
  <2>8. ASSUME NEW i \in 1..n, i < n PROVE e(i) <= r[i + 1].start /\ r[i + 1].start <= s(i + 1)
    <3>1. i + 1 \in 1..n /\ i + 1 # 1 /\ (i + 1) - 1 = i
      BY <2>3, <2>8
    <3>2. from(i + 1) = e(i)
      BY <3>1 DEF from
    <3> QED BY <2>7, <3>1, <3>2
  <2>9. ASSUME NEW i \in 1..n
        PROVE  /\ 0 <= r[i].start /\ r[i].start < r[i].end
               /\ i < n => r[i].end <= r[i + 1].start
               /\ IsShort(r[i]) => /\ i < n /\ r[i].end = r[i + 1].start
                                   /\ IF i = 1 THEN r[i].start = 0 ELSE r[i - 1].end = r[i].start
    <3>1. 0 <= r[i].start /\ r[i].start < r[i].end
      BY <2>2, <2>7
    <3>2. i < n => r[i].end <= r[i + 1].start
      BY <2>7, <2>8
    <3>3. ASSUME IsShort(r[i])
          PROVE  /\ i < n /\ r[i].end = r[i + 1].start
                 /\ IF i = 1 THEN r[i].start = 0 ELSE r[i - 1].end = r[i].start
      <4>1. e(i) - s(i) < MinDuration /\ r[i].start = from(i)
        BY <2>7, <3>3
      <4>2. i < n /\ e(i) = s(i + 1)
        BY <2>4, <4>1
      <4>3. r[i].end = r[i + 1].start
        <5>1. i + 1 \in 1..n
          BY <2>3, <4>2
        <5>2. r[i + 1].start \in Nat /\ e(i) \in Int
          BY <2>2, <2>7, <5>1
        <5> QED BY <2>7, <2>8, <4>2, <5>2
      <4>4. i # 1 => r[i - 1].end = e(i - 1)
        BY <1>1, <2>7, PreviousIn DEF n
      <4> QED BY <4>1, <4>2, <4>3, <4>4 DEF from
    <3> QED BY <3>1, <3>2, <3>3
  <2> QED BY <1>5, <2>9 DEF Tight
<1> QED BY <1>5, <1>7

(* The cut between two cues is moved.                                      *)
CutStart(cs, i, by, j) == IF j = i + 1 THEN cs[j].start + by ELSE cs[j].start
CutEnd(cs, i, by, j)   == IF j = i THEN cs[j].end + by ELSE cs[j].end
LEMMA MoveCutIs ==
    ASSUME NEW T \in SUBSET Marked, NEW cs \in Seq(Cue(T, Int)), NEW i \in 1..(Len(cs) - 1), NEW by \in Int
    PROVE  IsRetimed(N!MoveCut(cs, i, by), Cue(T, Int), cs, [j \in DOMAIN cs |-> CutStart(cs, i, by, j)],
                     [j \in DOMAIN cs |-> CutEnd(cs, i, by, j)])
<1> DEFINE C == Cue(T, Int)
           n == Len(cs)
           r == N!MoveCut(cs, i, by)
           s == [j \in DOMAIN cs |-> CutStart(cs, i, by, j)]
           e == [j \in DOMAIN cs |-> CutEnd(cs, i, by, j)]
<1>0. n \in Nat
  OBVIOUS
<1>1. n \in Nat /\ DOMAIN cs = 1..n /\ \A j \in 1..n : cs[j] \in C
  OBVIOUS
<1>2. i \in 1..n /\ i + 1 \in 1..n /\ i # i + 1
  BY <1>0
<1>3. TimesAre(C)
  BY TimesType
<1> DEFINE a == cs[i]
           b == cs[i + 1]
           p == [a EXCEPT !.end = a.end + by]
           q == [b EXCEPT !.start = b.start + by]
<1>4. a \in C /\ b \in C
  BY <1>1, <1>2
<1>5. IsTimed(p, C, a, a.start, a.end + by)
  <2>1. a.end + by \in Int
    BY <1>3, <1>4 DEF TimesAre
  <2> HIDE DEF a
  <2> QED BY <1>4, <2>1, EndPut
<1>6. IsTimed(q, C, b, b.start + by, b.end)
  <2>1. b.start + by \in Int
    BY <1>3, <1>4 DEF TimesAre
  <2> HIDE DEF b
  <2> QED BY <1>4, <2>1, StartPut
<1>7. \A c \in C : IsTimed(c, C, c, c.start, c.end)
  BY DEF IsTimed
<1>8. r = [cs EXCEPT ![i].end = @ + by, ![i + 1].start = @ + by]
  BY DEF N!MoveCut
<1>9. r = [[cs EXCEPT ![i] = p] EXCEPT ![i + 1] = q]
  BY <1>1, <1>2, <1>8
<1>10. DOMAIN r = DOMAIN cs /\ r = [j \in DOMAIN r |-> r[j]] /\ r[i] = p /\ r[i + 1] = q
  BY <1>1, <1>2, <1>9
<1>11. \A j \in 1..n : j # i /\ j # i + 1 => r[j] = cs[j]
  BY <1>1, <1>2, <1>9
<1> HIDE DEF r, p, q
<1>12. \A j \in 1..n : s[j] = CutStart(cs, i, by, j) /\ e[j] = CutEnd(cs, i, by, j)
  BY <1>1
<1> HIDE DEF s, e, C, n
<1>13. ASSUME NEW j \in 1..n PROVE IsTimed(r[j], C, cs[j], s[j], e[j])
  <2>1. CASE j = i
    BY <1>2, <1>5, <1>10, <1>12, <2>1 DEF CutStart, CutEnd
  <2>2. CASE j = i + 1
    BY <1>2, <1>6, <1>10, <1>12, <2>2 DEF CutStart, CutEnd
  <2>3. CASE j # i /\ j # i + 1
    BY <1>1, <1>7, <1>11, <1>12, <2>3 DEF CutStart, CutEnd
  <2> QED BY <2>1, <2>2, <2>3
<1>14. AreTimed(r, C, cs, s, e)
  BY <1>10, <1>13 DEF AreTimed, n
<1>15. cs \in Seq(C)
  BY DEF C
<1>16. IsRetimed(r, C, cs, s, e)
  BY <1>14, <1>15, Retimed
<1> QED BY <1>16 DEF r, C, s, e

(* A cut is moved by what one cue lacks and the other can spare.           *)
Fair(s, i, by) ==
    \/ by = 0
    \/ by > 0 /\ s[i].end - s[i].start + by <= MinDuration /\ s[i + 1].end - s[i + 1].start - by >= MinDuration
    \/ by < 0 /\ s[i + 1].end - s[i + 1].start - by <= MinDuration /\ s[i].end - s[i].start + by >= MinDuration
HasTimes(s) == Len(s) \in Nat /\ \A j \in 1..Len(s) : s[j].start \in Int /\ s[j].end \in Int
IsMoved(t, s, i, by) ==
    /\ Len(t) = Len(s) /\ i \in 1..Len(s) /\ i + 1 \in 1..Len(s) /\ s[i].end = s[i + 1].start
    /\ by \in Int /\ Fair(s, i, by)
    /\ \A j \in 1..Len(s) : t[j].start = CutStart(s, i, by, j) /\ t[j].end = CutEnd(s, i, by, j)
Took(c) == c.end - c.start
LEMMA MovedTook ==
    ASSUME NEW s, NEW t, NEW i, NEW by, HasTimes(s), IsMoved(t, s, i, by)
    PROVE  /\ \A j \in 1..Len(s) : Took(t[j]) = IF j = i THEN Took(s[j]) + by
                                                ELSE IF j = i + 1 THEN Took(s[j]) - by ELSE Took(s[j])
           /\ \A j \in 1..Len(s) : Took(s[j]) \in Int /\ Took(t[j]) \in Int
           /\ \A j \in 1..Len(s) : IsShort(t[j]) => IsShort(s[j])
           /\ \A j \in 1..Len(s) : Took(t[j]) >= MinDuration \/ Took(t[j]) >= Took(s[j])
<1>0. MinDuration \in Nat
  BY Constants
<1>1. \A j \in 1..Len(s) : s[j].start \in Int /\ s[j].end \in Int
  BY DEF HasTimes
<1>2. i \in 1..Len(s) /\ i + 1 \in 1..Len(s) /\ by \in Int /\ i + 1 # i
  BY DEF IsMoved, HasTimes
<1>3. \A j \in 1..Len(s) : t[j].start = CutStart(s, i, by, j) /\ t[j].end = CutEnd(s, i, by, j)
  BY DEF IsMoved
<1>4. ASSUME NEW j \in 1..Len(s)
      PROVE  /\ Took(t[j]) = IF j = i THEN Took(s[j]) + by ELSE IF j = i + 1 THEN Took(s[j]) - by ELSE Took(s[j])
             /\ Took(s[j]) \in Int /\ Took(t[j]) \in Int
  <2> DEFINE b == s[j].start
             e == s[j].end
  <2>1. b \in Int /\ e \in Int /\ t[j].start = CutStart(s, i, by, j) /\ t[j].end = CutEnd(s, i, by, j)
    BY <1>1, <1>3
  <2>2. t[j].start = (IF j = i + 1 THEN b + by ELSE b) /\ t[j].end = (IF j = i THEN e + by ELSE e)
        /\ Took(s[j]) = e - b
    BY <2>1 DEF CutStart, CutEnd, Took
  <2> HIDE DEF b, e
  <2> QED BY <1>2, <2>1, <2>2 DEF Took
<1>5. \/ by = 0
      \/ by > 0 /\ Took(s[i]) + by <= MinDuration /\ Took(s[i + 1]) - by >= MinDuration
      \/ by < 0 /\ Took(s[i + 1]) - by <= MinDuration /\ Took(s[i]) + by >= MinDuration
  BY DEF IsMoved, Fair, Took
<1>6. ASSUME NEW j \in 1..Len(s) PROVE Took(t[j]) >= MinDuration \/ Took(t[j]) >= Took(s[j])
  <2>1. Took(s[i]) \in Int /\ Took(s[i + 1]) \in Int /\ Took(s[j]) \in Int
    BY <1>2, <1>4, <1>6
  <2>2. CASE j = i
    <3>1. Took(t[j]) = Took(s[i]) + by
      BY <1>4, <1>6, <2>2
    <3> QED BY <1>0, <1>2, <1>5, <2>1, <2>2, <3>1
  <2>3. CASE j # i /\ j = i + 1
    <3>1. Took(t[j]) = Took(s[i + 1]) - by
      BY <1>4, <1>6, <2>3
    <3> QED BY <1>0, <1>2, <1>5, <2>1, <2>3, <3>1
  <2>4. CASE j # i /\ j # i + 1
    <3>1. Took(t[j]) = Took(s[j])
      BY <1>4, <1>6, <2>4
    <3> QED BY <2>1, <3>1
  <2> QED BY <2>2, <2>3, <2>4
<1>7. ASSUME NEW j \in 1..Len(s) PROVE Took(t[j]) < MinDuration => Took(s[j]) < MinDuration
  BY <1>0, <1>4, <1>6
<1> QED BY <1>4, <1>6, <1>7 DEF IsShort, Took

(* A fair move leaves the cues tight.                                      *)
LEMMA MovedTight ==
    ASSUME NEW s, NEW t, NEW i, NEW by, HasTimes(s), IsMoved(t, s, i, by), Tight(s)
    PROVE  Tight(t)
<1> DEFINE n == Len(s)
<1>0. MinDuration \in Nat /\ MinDuration > 0
  BY Constants
<1>1. \A j \in 1..n : s[j].start \in Int /\ s[j].end \in Int
  BY DEF HasTimes
<1>2. i \in 1..n /\ i + 1 \in 1..n /\ by \in Int /\ n \in Nat /\ Len(t) = n /\ s[i].end = s[i + 1].start
  BY DEF IsMoved, HasTimes
<1>3. \A j \in 1..n : t[j].start = CutStart(s, i, by, j) /\ t[j].end = CutEnd(s, i, by, j)
  BY DEF IsMoved
<1>4. \A j \in 1..n : IsShort(t[j]) => IsShort(s[j])
  BY MovedTook
<1>5. \A j \in 1..n : t[j].start \in Int /\ t[j].end \in Int /\ t[j].start < t[j].end
  <2>1. ASSUME NEW j \in 1..n PROVE t[j].start \in Int /\ t[j].end \in Int /\ t[j].start < t[j].end
    <3>1. t[j].start \in Int /\ t[j].end \in Int
      <4>1. t[j].start = CutStart(s, i, by, j) /\ t[j].end = CutEnd(s, i, by, j)
        BY <1>3, <2>1
      <4>2. s[j].start \in Int /\ s[j].end \in Int /\ by \in Int
        BY <1>1, <1>2, <2>1
      <4> QED BY <4>1, <4>2 DEF CutStart, CutEnd
    <3>2. Took(t[j]) >= MinDuration \/ Took(t[j]) >= Took(s[j])
      BY MovedTook
    <3>3. s[j].start < s[j].end
      BY DEF Tight
    <3> QED BY <1>0, <1>1, <3>1, <3>2, <3>3 DEF Took
  <2> QED BY <2>1
<1> HIDE DEF n
<1>6. \A j \in 1..n : j < n => /\ j + 1 \in 1..n /\ s[j].end <= s[j + 1].start
                               /\ (s[j].end = s[j + 1].start => t[j].end = t[j + 1].start)
                               /\ t[j].end <= t[j + 1].start
  <2>1. ASSUME NEW j \in 1..n, j < n
        PROVE  /\ j + 1 \in 1..n /\ s[j].end <= s[j + 1].start
               /\ (s[j].end = s[j + 1].start => t[j].end = t[j + 1].start)
               /\ t[j].end <= t[j + 1].start
    <3>1. j + 1 \in 1..n
      BY <1>2, <2>1
    <3>2. s[j].end <= s[j + 1].start
      BY <2>1 DEF Tight, n
    <3>3. t[j].end = CutEnd(s, i, by, j) /\ t[j + 1].start = CutStart(s, i, by, j + 1)
      BY <1>3, <3>1
    <3>4. s[j].end \in Int /\ s[j + 1].start \in Int
      BY <1>1, <3>1 DEF n
    <3>5. j + 1 = i + 1 <=> j = i
      BY <1>2
    <3> QED BY <1>2, <3>1, <3>2, <3>3, <3>4, <3>5 DEF CutEnd, CutStart
  <2> QED BY <2>1
<1>7. ASSUME NEW j \in 1..n PROVE 0 <= t[j].start /\ (j = 1 => t[j].start = s[j].start)
  <2>1. 0 <= s[j].start
    BY DEF Tight, n
  <2>2. CASE j = i + 1
    <3>1. t[j].start = t[i].end /\ j # 1
      BY <1>2, <1>3, <2>2 DEF CutStart, CutEnd
    <3>2. t[i].start = s[i].start
      BY <1>2, <1>3 DEF CutStart
    <3>3. 0 <= s[i].start /\ t[i].start < t[i].end /\ t[i].end \in Int /\ s[i].start \in Int
      BY <1>1, <1>2, <1>5 DEF Tight, n
    <3> QED BY <3>1, <3>2, <3>3
  <2>3. CASE j # i + 1
    BY <1>3, <2>1, <2>3 DEF CutStart
  <2> QED BY <2>2, <2>3
<1>8. ASSUME NEW j \in 1..n, IsShort(t[j])
      PROVE  /\ j < n /\ t[j].end = t[j + 1].start
             /\ IF j = 1 THEN t[j].start = 0 ELSE t[j - 1].end = t[j].start
  <2>1. IsShort(s[j])
    BY <1>4, <1>8 DEF n
  <2>2. /\ j < n /\ s[j].end = s[j + 1].start
        /\ IF j = 1 THEN s[j].start = 0 ELSE s[j - 1].end = s[j].start
    BY <2>1 DEF Tight, n
  <2>3. CASE j = 1
    BY <1>6, <1>7, <2>2, <2>3
  <2>4. CASE j # 1
    <3>1. j - 1 \in 1..n /\ (j - 1) + 1 = j /\ j - 1 < n
      BY <1>2, <2>4
    <3>2. s[j - 1].end = s[j].start
      BY <2>2, <2>4
    <3>3. t[j - 1].end = t[j].start
      BY <1>6, <3>1, <3>2
    <3> QED BY <1>6, <2>2, <2>4, <3>3
  <2> QED BY <2>3, <2>4
<1> QED BY <1>2, <1>5, <1>6, <1>7, <1>8 DEF Tight

(* What a cue lacks and another can spare.                                 *)
LEMMA LentIs ==
    ASSUME NEW s, HasTimes(s), NEW i \in 1..Len(s), NEW j \in 1..Len(s), NEW by, by = N!Lent(s, i, j)
    PROVE  /\ by \in Nat
           /\ by = 0 \/ (by > 0 /\ Took(s[i]) + by <= MinDuration /\ Took(s[j]) - by >= MinDuration)
           /\ Took(s[i]) + by < MinDuration => Took(s[j]) - by <= MinDuration
<1> DEFINE a == Took(s[i])
           b == Took(s[j])
<1>1. a \in Int /\ b \in Int
  BY DEF HasTimes, Took
<1>2. by = N!GreaterOf(0, N!LesserOf(MinDuration - a, N!GreaterOf(0, b - MinDuration)))
  BY DEF N!Lent, N!Spare, N!Lasts, Took
<1>3. MinDuration \in Nat
  BY Constants
<1> HIDE DEF a, b
<1>4. /\ by \in Nat
      /\ by = 0 \/ (by > 0 /\ a + by <= MinDuration /\ b - by >= MinDuration)
      /\ a + by < MinDuration => b - by <= MinDuration
  BY <1>1, <1>2, <1>3 DEF N!GreaterOf, N!LesserOf
<1> QED BY <1>4 DEF a, b

(* Cues have times.                                                        *)
LEMMA CuesHaveTimes ==
    ASSUME NEW T \in SUBSET Marked, NEW cs \in Seq(Cue(T, Int))
    PROVE  HasTimes(cs)
<1>1. TimesAre(Cue(T, Int))
  BY TimesType
<1>2. Len(cs) \in Nat /\ \A j \in 1..Len(cs) : cs[j] \in Cue(T, Int)
  OBVIOUS
<1> QED BY <1>1, <1>2 DEF HasTimes, TimesAre

(* The neighbours of a cue that is still too short have nothing to spare.  *)
NoNext(s, i) == \A j \in 1..i : j < Len(s) /\ IsShort(s[j]) => Took(s[j + 1]) <= MinDuration
NoPrev(s, i) == \A j \in 1..i : j > 1 /\ IsShort(s[j]) => Took(s[j - 1]) <= MinDuration
NextStep(s, i) == IF i < Len(s) /\ N!Touch(s, i) THEN N!MoveCut(s, i, N!Lent(s, i, i + 1)) ELSE s
PrevStep(s, i) == IF i > 1 /\ N!Touch(s, i - 1) THEN N!MoveCut(s, i - 1, -N!Lent(s, i, i - 1)) ELSE s
NextGood(s, C, cs, i) ==
    /\ SaysSame(s, C, cs) /\ s \in Seq(C) /\ Len(s) = Len(cs)
    /\ Tight(cs) => Tight(s) /\ NoNext(s, i)
PrevGood(s, C, cs, i) ==
    /\ SaysSame(s, C, cs) /\ s \in Seq(C) /\ Len(s) = Len(cs)
    /\ Tight(cs) /\ NoNext(cs, Len(cs)) => Tight(s) /\ NoNext(s, Len(s)) /\ NoPrev(s, i)

(* A cue takes from the next: those before it keep what they have.         *)
LEMMA NextStepKeeps ==
    ASSUME NEW T \in SUBSET Marked, NEW cs, NEW i \in 1..Len(cs), NEW s, NextGood(s, Cue(T, Int), cs, i - 1)
    PROVE  NextGood(NextStep(s, i), Cue(T, Int), cs, i)
<1> DEFINE C == Cue(T, Int)
           n == Len(s)
           by == N!Lent(s, i, i + 1)
           t == N!MoveCut(s, i, by)
<1>1. SaysSame(s, C, cs) /\ s \in Seq(C) /\ n = Len(cs) /\ n \in Nat /\ i \in 1..n
  BY DEF NextGood
<1>2. Tight(cs) => Tight(s) /\ NoNext(s, i - 1)
  BY DEF NextGood
<1>3. HasTimes(s)
  BY <1>1, CuesHaveTimes
<1>4. N!Touch(s, i) <=> s[i].end = s[i + 1].start
  BY DEF N!Touch
<1>5. CASE i < n /\ N!Touch(s, i)
  <2>0. i \in 1..(n - 1) /\ i + 1 \in 1..n /\ i + 1 # i
    BY <1>1, <1>5
  <2>1. /\ by \in Nat
        /\ by = 0 \/ (by > 0 /\ Took(s[i]) + by <= MinDuration /\ Took(s[i + 1]) - by >= MinDuration)
        /\ Took(s[i]) + by < MinDuration => Took(s[i + 1]) - by <= MinDuration
    BY <1>1, <1>3, <2>0, LentIs
  <2> HIDE DEF by, n
  <2>2. IsRetimed(t, C, s, [j \in DOMAIN s |-> CutStart(s, i, by, j)], [j \in DOMAIN s |-> CutEnd(s, i, by, j)])
    BY <1>1, <2>0, <2>1, MoveCutIs DEF n
  <2> HIDE DEF t
  <2>3. SaysSame(t, C, s) /\ t \in Seq(C) /\ Len(t) = n
    BY <2>2 DEF IsRetimed, n
  <2>4. SaysSame(t, C, cs)
    BY <1>1, <2>3, SaysOn
  <2>5. Fair(s, i, by)
    BY <2>1 DEF Fair, Took
  <2>6. IsMoved(t, s, i, by)
    <3>1. DOMAIN s = 1..n
      BY <1>1 DEF n
    <3> HIDE DEF C
    <3> QED BY <1>1, <1>4, <1>5, <2>0, <2>1, <2>2, <2>5, <3>1 DEF IsMoved, IsRetimed, n
  <2>7. ASSUME Tight(cs) PROVE Tight(t) /\ NoNext(t, i)
    <3>1. Tight(s) /\ NoNext(s, i - 1)
      BY <1>2, <2>7
    <3>2. Tight(t)
      BY <1>3, <2>6, <3>1, MovedTight
    <3>3. /\ \A j \in 1..n : Took(t[j]) = IF j = i THEN Took(s[j]) + by
                                           ELSE IF j = i + 1 THEN Took(s[j]) - by ELSE Took(s[j])
          /\ \A j \in 1..n : Took(s[j]) \in Int /\ Took(t[j]) \in Int
          /\ \A j \in 1..n : IsShort(t[j]) => IsShort(s[j])
      BY <1>3, <2>6, MovedTook, SMTT(30) DEF n
    <3>4. ASSUME NEW j \in 1..i, j < n, IsShort(t[j]) PROVE Took(t[j + 1]) <= MinDuration
      <4>1. j \in 1..n /\ j + 1 \in 1..n /\ Took(t[j]) < MinDuration
        BY <1>1, <2>0, <3>4 DEF IsShort, Took
      <4>2. CASE j = i
        <5>1. Took(t[j]) = Took(s[i]) + by /\ Took(t[j + 1]) = Took(s[i + 1]) - by
          BY <2>0, <3>3, <4>1, <4>2
        <5> QED BY <2>1, <4>1, <5>1
      <4>3. CASE j # i
        <5>1. j \in 1..(i - 1) /\ j + 1 # i + 1 /\ j # i + 1
          BY <1>1, <4>3
        <5>2. Took(s[j + 1]) <= MinDuration
          BY <3>1, <3>3, <3>4, <4>1, <5>1 DEF NoNext, n
        <5>3. CASE j + 1 = i
          <6>1. Took(t[j + 1]) = Took(s[i]) + by
            BY <3>3, <4>1, <5>3
          <6>2. CASE by = 0
            BY <3>3, <4>1, <5>2, <5>3, <6>1, <6>2
          <6>3. CASE by # 0
            BY <2>1, <6>1, <6>3
          <6> QED BY <6>2, <6>3
        <5>4. CASE j + 1 # i
          <6>1. Took(t[j + 1]) = Took(s[j + 1])
            BY <3>3, <4>1, <5>1, <5>4
          <6> QED BY <5>2, <6>1
        <5> QED BY <5>3, <5>4
      <4> QED BY <4>2, <4>3
    <3> QED BY <2>3, <3>2, <3>4 DEF NoNext
  <2>8. NextStep(s, i) = t
    BY <1>5 DEF NextStep, n, t, by
  <2> QED BY <1>1, <2>3, <2>4, <2>7, <2>8 DEF NextGood
<1>6. CASE ~(i < n /\ N!Touch(s, i))
  <2>1. NextStep(s, i) = s
    BY <1>6 DEF NextStep
  <2>2. ASSUME Tight(s), NoNext(s, i - 1) PROVE NoNext(s, i)
    <3>1. ASSUME NEW j \in 1..i, j < n, IsShort(s[j]) PROVE Took(s[j + 1]) <= MinDuration
      <4>1. CASE j = i
        <5>1. s[i].end = s[i + 1].start
          BY <1>1, <2>2, <3>1, <4>1 DEF Tight
        <5> QED BY <1>4, <1>6, <3>1, <4>1, <5>1
      <4>2. CASE j # i
        <5>1. j \in 1..(i - 1)
          BY <1>1, <4>2
        <5> QED BY <2>2, <3>1, <5>1 DEF NoNext
      <4> QED BY <4>1, <4>2
    <3> QED BY <3>1 DEF NoNext
  <2> QED BY <1>1, <1>2, <2>1, <2>2 DEF NextGood
<1> QED BY <1>5, <1>6

(* A cue takes from the one before.                                        *)
LEMMA PrevStepKeeps ==
    ASSUME NEW T \in SUBSET Marked, NEW cs, NEW i \in 1..Len(cs), NEW s, PrevGood(s, Cue(T, Int), cs, i - 1)
    PROVE  PrevGood(PrevStep(s, i), Cue(T, Int), cs, i)
<1> DEFINE C == Cue(T, Int)
           n == Len(s)
           h == i - 1
           by == N!Lent(s, i, i - 1)
           t == N!MoveCut(s, i - 1, -by)
<1>1. SaysSame(s, C, cs) /\ s \in Seq(C) /\ n = Len(cs) /\ n \in Nat /\ i \in 1..n
  BY DEF PrevGood
<1>2. Tight(cs) /\ NoNext(cs, Len(cs)) => Tight(s) /\ NoNext(s, n) /\ NoPrev(s, i - 1)
  BY DEF PrevGood
<1>3. HasTimes(s)
  BY <1>1, CuesHaveTimes
<1>4. N!Touch(s, i - 1) <=> s[i - 1].end = s[(i - 1) + 1].start
  BY DEF N!Touch
<1>5. CASE i > 1 /\ N!Touch(s, i - 1)
  <2>0. h \in 1..(n - 1) /\ h \in 1..n /\ h + 1 \in 1..n /\ h + 1 = i /\ h # i
    BY <1>1, <1>5
  <2>1. /\ by \in Nat
        /\ by = 0 \/ (by > 0 /\ Took(s[i]) + by <= MinDuration /\ Took(s[h]) - by >= MinDuration)
        /\ Took(s[i]) + by < MinDuration => Took(s[h]) - by <= MinDuration
    BY <1>1, <1>3, <2>0, LentIs
  <2> DEFINE less == -by
  <2>a. less \in Int
    BY <2>1
  <2> HIDE DEF by, n, h, less
  <2>b. t = N!MoveCut(s, h, less)
    BY DEF h, less
  <2>2. IsRetimed(t, C, s, [j \in DOMAIN s |-> CutStart(s, h, less, j)], [j \in DOMAIN s |-> CutEnd(s, h, less, j)])
    BY <1>1, <2>0, <2>a, <2>b, MoveCutIs DEF n
  <2> HIDE DEF t
  <2>3. SaysSame(t, C, s) /\ t \in Seq(C) /\ Len(t) = n
    BY <2>2 DEF IsRetimed, n
  <2>4. SaysSame(t, C, cs)
    BY <1>1, <2>3, SaysOn
  <2>c. HasTimes(s) /\ Took(s[i]) \in Int /\ Took(s[h]) \in Int
    BY <1>1, <1>3, <2>0 DEF HasTimes, Took, n
  <2>5. Fair(s, h, less)
    <3>1. Took(s[i]) = s[h + 1].end - s[h + 1].start /\ Took(s[h]) = s[h].end - s[h].start
      BY <2>0 DEF Took
    <3>2. \/ less = 0
          \/ less < 0 /\ Took(s[i]) - less <= MinDuration /\ Took(s[h]) + less >= MinDuration
      BY <2>1, <2>c, Constants DEF less
    <3> QED BY <3>1, <3>2 DEF Fair
  <2>6. IsMoved(t, s, h, less)
    <3>1. DOMAIN s = 1..n
      BY <1>1 DEF n
    <3>2. s[h].end = s[h + 1].start
      BY <1>4, <1>5 DEF h
    <3> HIDE DEF C
    <3> QED BY <1>1, <2>0, <2>a, <2>2, <2>5, <3>1, <3>2 DEF IsMoved, IsRetimed, n
  <2>7. ASSUME Tight(cs), NoNext(cs, Len(cs)) PROVE Tight(t) /\ NoNext(t, n) /\ NoPrev(t, i)
    <3>1. Tight(s) /\ NoNext(s, n) /\ NoPrev(s, h)
      BY <1>2, <2>7 DEF h
    <3>2. Tight(t)
      BY <1>3, <2>6, <3>1, MovedTight
    <3>3. /\ \A j \in 1..n : Took(t[j]) = IF j = h THEN Took(s[j]) + less
                                           ELSE IF j = h + 1 THEN Took(s[j]) - less ELSE Took(s[j])
          /\ \A j \in 1..n : Took(s[j]) \in Int /\ Took(t[j]) \in Int
          /\ \A j \in 1..n : IsShort(t[j]) => IsShort(s[j])
      BY <1>3, <2>6, MovedTook DEF n
    <3>a. ASSUME NEW j \in 1..n, j # h PROVE j = i \/ Took(t[j]) = Took(s[j])
      BY <2>0, <3>3, <3>a
    <3>b. Took(t[h]) = Took(s[h]) - by /\ Took(t[i]) = Took(s[i]) + by
      <4>1. Took(t[h]) = Took(s[h]) + less /\ Took(t[i]) = Took(s[i]) - less
        BY <2>0, <3>3
      <4> QED BY <2>1, <2>c, <4>1 DEF less
    <3>4. ASSUME NEW j \in 1..n, j < n, IsShort(t[j]) PROVE Took(t[j + 1]) <= MinDuration
      <4>1. j \in 1..n /\ j + 1 \in 1..n
        BY <1>1, <3>4
      <4>2. Took(s[j + 1]) <= MinDuration
        BY <3>1, <3>3, <3>4, <4>1 DEF NoNext, n
      <4>3. CASE j + 1 = h
        BY <2>1, <3>3, <3>b, <4>1, <4>2, <4>3, Constants
      <4>4. CASE j + 1 = i
        <5>1. CASE by = 0
          BY <3>3, <3>b, <4>1, <4>2, <4>4, <5>1
        <5>2. CASE by # 0
          BY <2>1, <3>b, <4>4, <5>2
        <5> QED BY <5>1, <5>2
      <4>5. CASE j + 1 # h /\ j + 1 # i
        BY <3>a, <4>1, <4>2, <4>5
      <4> QED BY <4>3, <4>4, <4>5
    <3>5. ASSUME NEW j \in 1..i, j > 1, IsShort(t[j]) PROVE Took(t[j - 1]) <= MinDuration
      <4>1. j \in 1..n /\ j - 1 \in 1..n /\ Took(t[j]) < MinDuration /\ j - 1 # i
        BY <1>1, <2>0, <3>5 DEF IsShort, Took
      <4>2. CASE j = i
        <5>1. j - 1 = h
          BY <2>0, <4>2
        <5> QED BY <2>1, <3>b, <4>1, <4>2, <5>1
      <4>3. CASE j # i
        <5>1. j \in 1..h /\ j - 1 # h
          BY <1>1, <4>3 DEF h
        <5>2. Took(s[j - 1]) <= MinDuration
          BY <3>1, <3>3, <3>5, <4>1, <5>1 DEF NoPrev
        <5> QED BY <3>a, <4>1, <5>1, <5>2
      <4> QED BY <4>2, <4>3
    <3> QED BY <2>3, <3>2, <3>4, <3>5 DEF NoNext, NoPrev
  <2>8. PrevStep(s, i) = t
    BY <1>5 DEF PrevStep, t, by
  <2> QED BY <1>1, <2>3, <2>4, <2>7, <2>8 DEF PrevGood
<1>6. CASE ~(i > 1 /\ N!Touch(s, i - 1))
  <2>1. PrevStep(s, i) = s
    BY <1>6 DEF PrevStep
  <2>2. ASSUME Tight(s), NoPrev(s, i - 1) PROVE NoPrev(s, i)
    <3>1. ASSUME NEW j \in 1..i, j > 1, IsShort(s[j]) PROVE Took(s[j - 1]) <= MinDuration
      <4>1. CASE j = i
        <5>1. s[i - 1].end = s[i].start
          BY <1>1, <2>2, <3>1, <4>1 DEF Tight
        <5>2. (i - 1) + 1 = i
          BY <1>1
        <5> QED BY <1>4, <1>6, <3>1, <4>1, <5>1, <5>2
      <4>2. CASE j # i
        <5>1. j \in 1..(i - 1)
          BY <1>1, <4>2
        <5> QED BY <2>2, <3>1, <5>1 DEF NoPrev
      <4> QED BY <4>1, <4>2
    <3> QED BY <3>1 DEF NoPrev
  <2> QED BY <1>1, <1>2, <2>1, <2>2 DEF PrevGood
<1> QED BY <1>5, <1>6

(* The folds of the two.                                                   *)
LEMMA NextShared ==
    ASSUME NEW T \in SUBSET Marked, NEW cs \in Seq(Cue(T, Int))
    PROVE  NextGood(N!FromNext(cs), Cue(T, Int), cs, Len(cs))
<1> DEFINE C == Cue(T, Int)
           n == Len(cs)
           M == Seq(C)
           Ok(acc, i) == NextGood(acc, C, cs, i)
<1>1. n \in Nat
  OBVIOUS
<1>2. ASSUME NEW i \in 1..n, NEW m, Ok(m, i - 1) PROVE Ok(NextStep(m, i), i)
  BY <1>2, NextStepKeeps
<1>3. Ok(cs, 0)
  <2>1. SaysSame(cs, C, cs)
    BY DEF SaysSame, SaysAs
  <2>2. NoNext(cs, 0) /\ NoPrev(cs, 0)
    BY DEF NoNext, NoPrev
  <2> QED BY <2>1, <2>2 DEF NextGood
<1>4. \A acc, i : Ok(acc, i) => acc \in M
  BY DEF NextGood
<1> DEFINE V == [i \in 0..n |-> {acc \in M : Ok(acc, i)}]
           F == [i \in 1..n |-> [m \in M |-> NextStep(m, i)]]
           IsIt(d) == d = [i \in 0..n |-> IF i = 0 THEN cs ELSE NextStep(d[i - 1], i)]
           all == CHOOSE d : IsIt(d)
<1> HIDE DEF C, n, Ok, M
<1>5. Stays(n, cs, V, F)
  <2>1. 0 \in 0..n /\ \A i \in 1..n : i - 1 \in 0..n /\ i \in 0..n
    BY <1>1
  <2>2. \A i \in 0..n : \A acc : acc \in V[i] <=> Ok(acc, i)
    BY <1>4
  <2>3. \A i \in 1..n : \A m \in M : F[i][m] = NextStep(m, i)
    OBVIOUS
  <2> HIDE DEF V, F
  <2>4. ASSUME NEW i \in 1..n, NEW m \in V[i - 1] PROVE F[i][m] \in V[i]
    <3>1. Ok(m, i - 1) /\ m \in M
      BY <1>4, <2>1, <2>2
    <3>2. F[i][m] = NextStep(m, i) /\ Ok(NextStep(m, i), i)
      BY <1>2, <2>3, <3>1
    <3> QED BY <2>1, <2>2, <3>2
  <2> QED BY <1>3, <2>1, <2>2, <2>4 DEF Stays
<1>6. PICK d : IsFold(d, n, cs, V, F)
  <2> HIDE DEF V, F
  <2> QED BY <1>1, <1>5, FoldHolds
<1>7. \A i \in 0..n : d[i] \in M
  <2> HIDE DEF F
  <2> QED BY <1>6 DEF IsFold
<1>8. IsIt(d)
  <2> HIDE DEF V
  <2>1. \A i \in 0..n : i = 0 \/ (i \in 1..n /\ i - 1 \in 0..n /\ i # 0)
    BY <1>1
  <2>2. \A i \in 1..n : \A m \in M : F[i][m] = NextStep(m, i)
    OBVIOUS
  <2> HIDE DEF F
  <2>3. \A i \in 0..n : d[i] = IF i = 0 THEN cs ELSE NextStep(d[i - 1], i)
    BY <1>6, <1>7, <2>1, <2>2 DEF IsFold
  <2>4. d = [i \in 0..n |-> d[i]]
    BY <1>6 DEF IsFold
  <2> QED BY <2>3, <2>4, Zenon
<1>9. IsIt(all)
  <2> HIDE DEF IsIt
  <2> QED BY <1>8
<1>10. N!FromNext(cs) = all[n]
  BY DEF N!FromNext, N!Folded, NextStep, n
<1> HIDE DEF all
<1> DEFINE W == {i \in 0..n : Ok(all[i], i)}
<1>11. 0 \in W /\ \A i \in 1..n : i - 1 \in W => i \in W
  <2>1. 0 \in 0..n /\ \A i \in 1..n : i - 1 \in 0..n /\ i \in 0..n /\ i # 0
    BY <1>1
  <2>2. all[0] = cs /\ \A i \in 1..n : all[i] = NextStep(all[i - 1], i)
    BY <1>9, <2>1
  <2>3. \A i \in 1..n : Ok(all[i - 1], i - 1) => Ok(all[i], i)
    BY <1>2, <2>2
  <2> QED BY <1>3, <2>1, <2>2, <2>3
<1>12. 0..n \subseteq W
  <2> HIDE DEF W
  <2> QED BY <1>1, <1>11, Induction
<1>13. Ok(all[n], n)
  BY <1>1, <1>12
<1> QED BY <1>10, <1>13 DEF Ok, n, C

LEMMA PrevShared ==
    ASSUME NEW T \in SUBSET Marked, NEW cs \in Seq(Cue(T, Int))
    PROVE  PrevGood(N!FromPrevious(cs), Cue(T, Int), cs, Len(cs))
<1> DEFINE C == Cue(T, Int)
           n == Len(cs)
           M == Seq(C)
           Ok(acc, i) == PrevGood(acc, C, cs, i)
<1>1. n \in Nat
  OBVIOUS
<1>2. ASSUME NEW i \in 1..n, NEW m, Ok(m, i - 1) PROVE Ok(PrevStep(m, i), i)
  BY <1>2, PrevStepKeeps
<1>3. Ok(cs, 0)
  <2>1. SaysSame(cs, C, cs)
    BY DEF SaysSame, SaysAs
  <2>2. NoNext(cs, 0) /\ NoPrev(cs, 0)
    BY DEF NoNext, NoPrev
  <2> QED BY <2>1, <2>2 DEF PrevGood
<1>4. \A acc, i : Ok(acc, i) => acc \in M
  BY DEF PrevGood
<1> DEFINE V == [i \in 0..n |-> {acc \in M : Ok(acc, i)}]
           F == [i \in 1..n |-> [m \in M |-> PrevStep(m, i)]]
           IsIt(d) == d = [i \in 0..n |-> IF i = 0 THEN cs ELSE PrevStep(d[i - 1], i)]
           all == CHOOSE d : IsIt(d)
<1> HIDE DEF C, n, Ok, M
<1>5. Stays(n, cs, V, F)
  <2>1. 0 \in 0..n /\ \A i \in 1..n : i - 1 \in 0..n /\ i \in 0..n
    BY <1>1
  <2>2. \A i \in 0..n : \A acc : acc \in V[i] <=> Ok(acc, i)
    BY <1>4
  <2>3. \A i \in 1..n : \A m \in M : F[i][m] = PrevStep(m, i)
    OBVIOUS
  <2> HIDE DEF V, F
  <2>4. ASSUME NEW i \in 1..n, NEW m \in V[i - 1] PROVE F[i][m] \in V[i]
    <3>1. Ok(m, i - 1) /\ m \in M
      BY <1>4, <2>1, <2>2
    <3>2. F[i][m] = PrevStep(m, i) /\ Ok(PrevStep(m, i), i)
      BY <1>2, <2>3, <3>1
    <3> QED BY <2>1, <2>2, <3>2
  <2> QED BY <1>3, <2>1, <2>2, <2>4 DEF Stays
<1>6. PICK d : IsFold(d, n, cs, V, F)
  <2> HIDE DEF V, F
  <2> QED BY <1>1, <1>5, FoldHolds
<1>7. \A i \in 0..n : d[i] \in M
  <2> HIDE DEF F
  <2> QED BY <1>6 DEF IsFold
<1>8. IsIt(d)
  <2> HIDE DEF V
  <2>1. \A i \in 0..n : i = 0 \/ (i \in 1..n /\ i - 1 \in 0..n /\ i # 0)
    BY <1>1
  <2>2. \A i \in 1..n : \A m \in M : F[i][m] = PrevStep(m, i)
    OBVIOUS
  <2> HIDE DEF F
  <2>3. \A i \in 0..n : d[i] = IF i = 0 THEN cs ELSE PrevStep(d[i - 1], i)
    BY <1>6, <1>7, <2>1, <2>2 DEF IsFold
  <2>4. d = [i \in 0..n |-> d[i]]
    BY <1>6 DEF IsFold
  <2> QED BY <2>3, <2>4, Zenon
<1>9. IsIt(all)
  <2> HIDE DEF IsIt
  <2> QED BY <1>8
<1>10. N!FromPrevious(cs) = all[n]
  BY DEF N!FromPrevious, N!Folded, PrevStep, n
<1> HIDE DEF all
<1> DEFINE W == {i \in 0..n : Ok(all[i], i)}
<1>11. 0 \in W /\ \A i \in 1..n : i - 1 \in W => i \in W
  <2>1. 0 \in 0..n /\ \A i \in 1..n : i - 1 \in 0..n /\ i \in 0..n /\ i # 0
    BY <1>1
  <2>2. all[0] = cs /\ \A i \in 1..n : all[i] = PrevStep(all[i - 1], i)
    BY <1>9, <2>1
  <2>3. \A i \in 1..n : Ok(all[i - 1], i - 1) => Ok(all[i], i)
    BY <1>2, <2>2
  <2> QED BY <1>3, <2>1, <2>2, <2>3
<1>12. 0..n \subseteq W
  <2> HIDE DEF W
  <2> QED BY <1>1, <1>11, Induction
<1>13. Ok(all[n], n)
  BY <1>1, <1>12
<1> QED BY <1>10, <1>13 DEF Ok, n, C

(* After both a short cue has no neighbour with time to spare.             *)
LEMMA SharedIs ==
    ASSUME NEW T \in SUBSET Marked, NEW cs \in Seq(Cue(T, Int)), NEW r, r = N!FromPrevious(N!FromNext(cs))
    PROVE  /\ SaysSame(r, Cue(T, Int), cs) /\ r \in Seq(Cue(T, Int))
           /\ Tight(cs) => Tight(r) /\ NoNext(r, Len(r)) /\ NoPrev(r, Len(r))
<1> DEFINE C == Cue(T, Int)
           b == N!FromNext(cs)
<1>1. NextGood(b, C, cs, Len(cs))
  BY NextShared
<1>2. b \in Seq(C) /\ SaysSame(b, C, cs) /\ Len(b) = Len(cs) /\ (Tight(cs) => Tight(b) /\ NoNext(b, Len(b)))
  BY <1>1 DEF NextGood
<1> HIDE DEF b
<1>3. PrevGood(r, C, b, Len(b))
  BY <1>2, PrevShared DEF b
<1>4. r \in Seq(C) /\ SaysSame(r, C, b) /\ Len(r) = Len(b)
      /\ (Tight(b) /\ NoNext(b, Len(b)) => Tight(r) /\ NoNext(r, Len(r)) /\ NoPrev(r, Len(b)))
  BY <1>3 DEF PrevGood
<1> HIDE DEF C
<1>5. SaysSame(r, C, cs)
  BY <1>2, <1>4, SaysOn
<1> QED BY <1>2, <1>4, <1>5 DEF C

(* Commas and full stops leave the screen.                                 *)
Unmarked(cs) == [i \in DOMAIN cs |-> [cs[i] EXCEPT !.source = N!Stripped(@), !.target = N!Stripped(@)]]
AreUnmarked(b, cs) ==
    /\ b \in Seq(Loose(Marked, Int)) /\ Len(b) = Len(cs) /\ DOMAIN b = DOMAIN cs /\ DOMAIN cs = 1..Len(cs)
    /\ \A i \in 1..Len(cs) : /\ b[i].start = cs[i].start /\ b[i].end = cs[i].end
                             /\ b[i]["source"] = N!Stripped(cs[i]["source"])
                             /\ b[i]["target"] = N!Stripped(cs[i]["target"])
    /\ \A i \in 1..Len(cs) : /\ N!ContentOf(b[i]["source"]) = N!ContentOf(cs[i]["source"])
                             /\ N!ContentOf(b[i]["target"]) = N!ContentOf(cs[i]["target"])
LEMMA UnmarkedIs ==
    ASSUME NEW T \in SUBSET Marked, NEW cs \in Seq(Cue(T, Int))
    PROVE  AreUnmarked(Unmarked(cs), cs)
<1> DEFINE b == Unmarked(cs)
<1>1. Len(cs) \in Nat /\ DOMAIN cs = 1..Len(cs) /\ \A i \in 1..Len(cs) : cs[i] \in Cue(T, Int)
  OBVIOUS
<1>2. b = [i \in DOMAIN b |-> b[i]] /\ DOMAIN b = 1..Len(cs)
      /\ \A i \in 1..Len(cs) : b[i] = [cs[i] EXCEPT !.source = N!Stripped(@), !.target = N!Stripped(@)]
  BY <1>1 DEF Unmarked
<1> HIDE DEF b
<1>3. ASSUME NEW i \in 1..Len(cs)
      PROVE  /\ b[i] \in Loose(Marked, Int) /\ b[i].start = cs[i].start /\ b[i].end = cs[i].end
             /\ b[i]["source"] = N!Stripped(cs[i]["source"]) /\ b[i]["target"] = N!Stripped(cs[i]["target"])
             /\ N!ContentOf(b[i]["source"]) = N!ContentOf(cs[i]["source"])
             /\ N!ContentOf(b[i]["target"]) = N!ContentOf(cs[i]["target"])
  <2> DEFINE c == cs[i]
             p == N!Stripped(c.source)
             q == N!Stripped(c.target)
  <2>1. c \in Cue(T, Int)
    BY <1>1
  <2> HIDE DEF c
  <2>2. c.source \in Seq(Marked) /\ c.target \in Seq(Marked) /\ c \in Loose(T, Int)
        /\ c["source"] = c.source /\ c["target"] = c.target
    <3>1. \A t \in Seq(T) : t \in Seq(Marked)
      BY SeqMonotonic
    <3> QED BY <2>1, <3>1 DEF Cue, Loose
  <2>3. p \in Seq(Marked) /\ q \in Seq(Marked) /\ N!ContentOf(p) = N!ContentOf(c.source)
        /\ N!ContentOf(q) = N!ContentOf(c.target)
    BY <2>2, ContentStripped
  <2>4. b[i] = [c EXCEPT !.source = p, !.target = q]
    BY <1>2 DEF c
  <2> HIDE DEF p, q
  <2>5. /\ b[i] \in Loose(Marked, Int) /\ b[i].start = c.start /\ b[i].end = c.end
        /\ b[i]["source"] = p /\ b[i]["target"] = q
    BY <2>2, <2>3, <2>4 DEF Loose
  <2> QED BY <2>2, <2>3, <2>5 DEF c, p, q
<1>4. b \in Seq(Loose(Marked, Int)) /\ Len(b) = Len(cs)
  <2>1. \A i \in 1..Len(cs) : b[i] \in Loose(Marked, Int)
    BY <1>3
  <2> QED BY <1>1, <1>2, <2>1, MakeSeq, ZenonT(60)
<1>5. AreUnmarked(b, cs)
  BY <1>1, <1>2, <1>3, <1>4 DEF AreUnmarked
<1> QED BY <1>5 DEF b

(* What is said, without the marks.                                        *)
LEMMA AllIs ==
    ASSUME NEW S, NEW cs \in Seq(Loose(Marked, S))
    PROVE  /\ N!AllSource(cs) = N!Contents(Texts(cs, "source")) /\ N!AllTarget(cs) = N!Contents(Texts(cs, "target"))
           /\ N!AllSource(cs) = N!ContentOf(Told(cs, "source")) /\ N!AllTarget(cs) = N!ContentOf(Told(cs, "target"))
<1>1. Tells(Loose(Marked, S), "source", Marked) /\ Tells(Loose(Marked, S), "target", Marked)
  BY CuesTell
<1>2. AreTexts(Texts(cs, "source"), cs, "source", Marked) /\ AreTexts(Texts(cs, "target"), cs, "target", Marked)
  BY <1>1, TextsType
<1>3. Texts(cs, "source") \in Seq(Seq(Marked)) /\ Texts(cs, "target") \in Seq(Seq(Marked))
  BY <1>2 DEF AreTexts
<1>4. N!Contents(Texts(cs, "source")) = N!ContentOf(Told(cs, "source"))
  BY <1>3, ContentsIs DEF Told
<1>5. N!Contents(Texts(cs, "target")) = N!ContentOf(Told(cs, "target"))
  BY <1>3, ContentsIs DEF Told
<1>6. N!AllSource(cs) = N!Contents(Texts(cs, "source"))
  <2>1. [i \in DOMAIN cs |-> cs[i].source] = Texts(cs, "source")
    BY DEF Texts
  <2> QED BY <2>1, Zenon DEF N!AllSource
<1>7. N!AllTarget(cs) = N!Contents(Texts(cs, "target"))
  <2>1. [i \in DOMAIN cs |-> cs[i].target] = Texts(cs, "target")
    BY DEF Texts
  <2> QED BY <2>1, Zenon DEF N!AllTarget
<1> QED BY <1>4, <1>5, <1>6, <1>7

ContentsOf(x, f) == [i \in DOMAIN x |-> N!ContentOf(x[i][f])]
LEMMA ContentsTold ==
    ASSUME NEW x, NEW f
    PROVE  N!Contents(Texts(x, f)) = N!Flat(ContentsOf(x, f))
<1>1. [i \in DOMAIN Texts(x, f) |-> N!ContentOf(Texts(x, f)[i])] = ContentsOf(x, f)
  BY DEF Texts, ContentsOf
<1> QED BY <1>1, Zenon DEF N!Contents

(* Cues without their marks have the content they had.                     *)
LEMMA UnmarkedSay ==
    ASSUME NEW b, NEW cs, AreUnmarked(b, cs)
    PROVE  /\ N!Contents(Texts(b, "source")) = N!Contents(Texts(cs, "source"))
           /\ N!Contents(Texts(b, "target")) = N!Contents(Texts(cs, "target"))
<1>1. DOMAIN b = DOMAIN cs /\ DOMAIN cs = 1..Len(cs)
  BY DEF AreUnmarked
<1>2. ContentsOf(b, "source") = ContentsOf(cs, "source") /\ ContentsOf(b, "target") = ContentsOf(cs, "target")
  BY <1>1 DEF AreUnmarked, ContentsOf
<1> QED BY <1>2, ContentsTold

(* Cues with time that do not overlap.                                     *)
Apart(k) == \A j \in 1..Len(k) : /\ k[j].start < k[j].end
                                 /\ j < Len(k) => k[j].end <= k[j + 1].start
EndsBy(k, c) == Len(k) > 0 => k[Len(k)].end <= c.end
LEMMA ApartOn ==
    ASSUME NEW C, TimesAre(C), NEW k \in Seq(C), Apart(k), NEW c \in C, c.start < c.end,
           Len(k) > 0 => k[Len(k)].end <= c.start
    PROVE  Apart(k \o <<c>>) /\ EndsBy(k \o <<c>>, c)
<1> DEFINE r == k \o <<c>>
           n == Len(k)
<1>1. n \in Nat /\ Len(r) = n + 1 /\ r[n + 1] = c
  OBVIOUS
<1>2. \A j \in 1..n : r[j] = k[j] /\ k[j] \in C
  OBVIOUS
<1>3. n > 0 => n \in 1..n
  BY <1>1
<1> HIDE DEF r
<1>4. ASSUME NEW j \in 1..Len(r) PROVE /\ r[j].start < r[j].end /\ (j < Len(r) => r[j].end <= r[j + 1].start)
  <2>1. CASE j = n + 1
    BY <1>1, <2>1
  <2>2. CASE j = n
    <3>1. n > 0 /\ r[j] = k[n] /\ j + 1 = n + 1
      BY <1>1, <1>2, <2>2
    <3>2. k[n].start < k[n].end
      BY <1>3, <3>1 DEF Apart
    <3> QED BY <1>1, <3>1, <3>2
  <2>3. CASE j # n /\ j # n + 1
    <3>1. j \in 1..n /\ j + 1 \in 1..n /\ j < n
      BY <1>1, <2>3
    <3>2. k[j].start < k[j].end /\ k[j].end <= k[j + 1].start
      BY <3>1 DEF Apart
    <3> QED BY <1>2, <3>1, <3>2
  <2> QED BY <2>1, <2>2, <2>3
<1>5. Apart(r)
  BY <1>4 DEF Apart
<1>6. EndsBy(r, c)
  <2>1. c.end <= c.end
    BY DEF TimesAre
  <2> QED BY <1>1, <2>1 DEF EndsBy
<1> QED BY <1>5, <1>6 DEF r

(* What is picked of cues apart is apart.                                  *)
LEMMA PickedApart ==
    ASSUME NEW C, TimesAre(C), NEW b \in Seq(C), NEW X, Apart(b)
    PROVE  Apart(Picked(b, X))
<1> DEFINE u == OnesOf(b, X)
           n == Len(b)
<1>1. AreOnes(u, C, b, X)
  BY OnesType
<1> HIDE DEF u
<1>2. /\ u \in Seq(Seq(C)) /\ Len(u) = n /\ n \in Nat
      /\ \A i \in 1..n : b[i] \in C /\ u[i] = IF b[i] \in X THEN <<b[i]>> ELSE <<>>
  BY <1>1 DEF AreOnes
<1>3. PICK g \in [0..Len(u) -> Seq(C)] :
              g[0] = <<>> /\ (\A i \in 1..Len(u) : g[i] = g[i - 1] \o u[i]) /\ N!Flat(u) = g[Len(u)]
  BY <1>2, FlatFold
<1> DEFINE Ok(i) == Apart(g[i]) /\ (i > 0 => EndsBy(g[i], b[i])) /\ (i = 0 => g[i] = <<>>)
           W == {i \in 0..n : Ok(i)}
<1> HIDE DEF n
<1>4. \A i \in 0..n : g[i] \in Seq(C)
  BY <1>2, <1>3
<1>5. ASSUME NEW i \in 1..n, Ok(i - 1) PROVE Ok(i)
  <2> DEFINE k == g[i - 1]
             c == b[i]
  <2>0. i - 1 \in 0..n /\ i \in 0..n /\ i # 0
    BY <1>2
  <2>1. k \in Seq(C) /\ c \in C /\ Apart(k)
    BY <1>2, <1>4, <1>5, <2>0
  <2>2. c.start < c.end
    BY DEF Apart, n
  <2>3. Len(k) > 0 => k[Len(k)].end <= c.start
    <3> SUFFICES ASSUME Len(k) > 0 PROVE k[Len(k)].end <= c.start
      OBVIOUS
    <3>1. i - 1 # 0
      <4>1. Len(<<>>) = 0
        OBVIOUS
      <4> QED BY <1>5, <4>1
    <3>2. i - 1 \in 1..n /\ (i - 1) + 1 = i /\ i - 1 < n /\ i - 1 > 0
      BY <1>2, <3>1
    <3>3. k[Len(k)].end <= b[i - 1].end
      BY <1>5, <3>2 DEF EndsBy
    <3>4. b[i - 1].end <= c.start
      BY <3>2 DEF Apart, n
    <3>5. k[Len(k)] \in C /\ b[i - 1] \in C
      <4>1. Len(k) \in 1..Len(k)
        BY <2>1
      <4> QED BY <1>2, <2>1, <3>2, <4>1, ElementOfSeq
    <3> QED BY <2>1, <3>3, <3>4, <3>5 DEF TimesAre
  <2>4. g[i] = k \o u[i]
    BY <1>2, <1>3
  <2>5. CASE b[i] \in X
    <3>1. g[i] = k \o <<c>>
      BY <1>2, <2>4, <2>5
    <3> HIDE DEF k, c
    <3>2. Apart(k \o <<c>>) /\ EndsBy(k \o <<c>>, c)
      BY <2>1, <2>2, <2>3, ApartOn
    <3> QED BY <2>0, <3>1, <3>2 DEF c
  <2>6. CASE b[i] \notin X
    <3>1. k \o <<>> = k
      BY <2>1, NothingBefore
    <3>2. g[i] = k
      BY <1>2, <2>4, <2>6, <3>1
    <3>3. EndsBy(k, c)
      <4> SUFFICES ASSUME Len(k) > 0 PROVE k[Len(k)].end <= c.end
        BY DEF EndsBy
      <4>1. Len(k) \in 1..Len(k)
        BY <2>1
      <4>2. k[Len(k)] \in C
        BY <2>1, <4>1, ElementOfSeq
      <4> QED BY <2>1, <2>2, <2>3, <4>2 DEF TimesAre
    <3> QED BY <2>0, <2>1, <3>2, <3>3
  <2> QED BY <2>5, <2>6
<1>6. Ok(0)
  <2>1. Apart(<<>>)
    BY DEF Apart
  <2> QED BY <1>3, <2>1
<1>7. 0 \in W /\ \A i \in 1..n : i - 1 \in W => i \in W
  <2>1. 0 \in 0..n /\ \A i \in 1..n : i \in 0..n
    BY <1>2
  <2> HIDE DEF Ok
  <2> QED BY <1>5, <1>6, <2>1
<1>8. 0..n \subseteq W
  <2> HIDE DEF W
  <2> QED BY <1>2, <1>7, Induction
<1>9. Ok(n)
  <2>1. n \in 0..n
    BY <1>2
  <2> HIDE DEF Ok
  <2> QED BY <1>8, <2>1
<1> QED BY <1>2, <1>3, <1>9 DEF Picked, u

(* What is kept of the cues says all there is to say.                      *)
KeepsAll(k, cs) ==
    /\ k \in Seq(Cue(Marked, Int)) /\ N!AllSource(k) = N!AllSource(cs)
    /\ Apart(cs) => Apart(k)
SameTimes(k, cs) == Len(k) = Len(cs) /\ \A i \in 1..Len(cs) : k[i].start = cs[i].start /\ k[i].end = cs[i].end
LEMMA KeptIs ==
    ASSUME NEW T \in SUBSET Marked, NEW cs \in Seq(Cue(T, Int)), NEW k, k = N!Kept(cs)
    PROVE  /\ KeepsAll(k, cs)
           /\ T \subseteq Spelt => N!AllTarget(k) = N!AllTarget(cs) /\ SameTimes(k, cs)
<1> DEFINE b == Unmarked(cs)
           L == Loose(Marked, Int)
           X == Cue(Marked, Int)
           u == OnesOf(b, X)
<1>1. AreUnmarked(b, cs)
  BY UnmarkedIs
<1> HIDE DEF b
<1>2. b \in Seq(L) /\ Len(b) = Len(cs) /\ DOMAIN b = 1..Len(cs) /\ DOMAIN cs = 1..Len(cs) /\ Len(cs) \in Nat
  BY <1>1 DEF AreUnmarked
<1>3. \A i \in 1..Len(cs) : b[i] \in L /\ (b[i] \in X <=> b[i].source # <<>>)
  BY <1>2, ElementOfSeq DEF Cue
<1>4. [i \in DOMAIN b |-> IF b[i].source # <<>> THEN <<b[i]>> ELSE <<>>] = u
  BY <1>2, <1>3 DEF OnesOf
<1>5. k = Picked(b, X)
  BY <1>4, Zenon DEF N!Kept, N!Chosen, Picked, b, Unmarked
<1>6. AreOnes(u, L, b, X)
  BY <1>2, OnesType
<1>7. /\ u \in Seq(Seq(L)) /\ DOMAIN u = 1..Len(cs)
      /\ \A i \in 1..Len(cs) : u[i] = IF b[i] \in X THEN <<b[i]>> ELSE <<>>
  BY <1>2, <1>6 DEF AreOnes
<1>8. k \in Seq(X)
  <2>1. Picked(b, X) \in Seq(L \cap X)
    BY <1>2, PickedType
  <2>2. L \cap X \subseteq X
    OBVIOUS
  <2> QED BY <1>5, <2>1, <2>2, SeqMonotonic
<1>9. Tells(L, "source", Marked) /\ Tells(L, "target", Marked)
  BY CuesTell
<1> HIDE DEF u, X, L
<1>10. Told(k, "source") = Told(b, "source")
  <2>1. Told(N!Flat(u), "source") = N!Flat(ToldOf(u, "source"))
    BY <1>7, <1>9, ToldFlat
  <2>2. ASSUME NEW i \in 1..Len(cs) PROVE Told(u[i], "source") = b[i]["source"]
    <3> DEFINE c == b[i]
    <3>1. c \in L /\ c["source"] = c.source
      BY <1>3
    <3>2. c["source"] \in Seq(Marked)
      BY <1>9, <3>1 DEF Tells
    <3>3. (c \in X <=> c.source # <<>>) /\ u[i] = IF c \in X THEN <<c>> ELSE <<>>
      BY <1>3, <1>7
    <3> HIDE DEF c
    <3>4. Told(<<c>>, "source") = c["source"] /\ Told(<<>>, "source") = <<>>
      BY <3>2, ToldOne
    <3>5. Told(u[i], "source") = c["source"]
      BY <3>1, <3>3, <3>4
    <3> QED BY <3>5 DEF c
  <2>3. ToldOf(u, "source") = Texts(b, "source")
    BY <1>2, <1>7, <2>2 DEF ToldOf, Texts
  <2> QED BY <1>5, <2>1, <2>3 DEF Told, Picked, u
<1>11. /\ N!Contents(Texts(b, "source")) = N!Contents(Texts(cs, "source"))
       /\ N!Contents(Texts(b, "target")) = N!Contents(Texts(cs, "target"))
  BY <1>1, UnmarkedSay
<1>12. cs \in Seq(Loose(Marked, Int)) /\ k \in Seq(Loose(Marked, Int))
  <2>1. Cue(T, Int) \subseteq Loose(Marked, Int)
    <3>1. \A t \in Seq(T) : t \in Seq(Marked)
      BY SeqMonotonic
    <3> QED BY <3>1 DEF Cue, Loose
  <2>2. X \subseteq Loose(Marked, Int)
    BY DEF X, Cue
  <2> QED BY <1>8, <2>1, <2>2, SeqMonotonic
<1>13. N!AllSource(k) = N!AllSource(cs)
  <2>1. N!AllSource(k) = N!ContentOf(Told(k, "source"))
    BY <1>12, AllIs
  <2>2. N!AllSource(b) = N!ContentOf(Told(b, "source")) /\ N!AllSource(b) = N!Contents(Texts(b, "source"))
    BY <1>2, AllIs DEF L
  <2>3. N!AllSource(cs) = N!Contents(Texts(cs, "source"))
    BY <1>12, AllIs
  <2> QED BY <1>10, <1>11, <2>1, <2>2, <2>3
<1>14. \A i \in 1..Len(cs) : b[i].start = cs[i].start /\ b[i].end = cs[i].end
  BY <1>1 DEF AreUnmarked
<1>15. ASSUME Apart(cs) PROVE Apart(k)
  <2>1. Apart(b)
    <3>1. ASSUME NEW j \in 1..Len(cs), j < Len(cs) PROVE j + 1 \in 1..Len(cs)
      BY <1>2, <3>1, NextIn
    <3> QED BY <1>2, <1>14, <1>15, <3>1 DEF Apart
  <2>2. TimesAre(L)
    BY DEF TimesAre, L, Loose
  <2> QED BY <1>2, <1>5, <2>1, <2>2, PickedApart
<1>16. ASSUME T \subseteq Spelt PROVE N!AllTarget(k) = N!AllTarget(cs) /\ SameTimes(k, cs)
  <2>1. \A i \in 1..Len(cs) : b[i] \in X
    <3> SUFFICES ASSUME NEW i \in 1..Len(cs) PROVE b[i] \in X
      OBVIOUS
    <3>1. b[i]["source"] = N!Stripped(cs[i]["source"])
      BY <1>1 DEF AreUnmarked
    <3>2. cs[i] \in Cue(T, Int)
      BY <1>2
    <3> DEFINE t == cs[i].source
    <3>3. t \in Seq(T) /\ t \in Seq(Marked) /\ t # <<>> /\ cs[i]["source"] = t
      <4>1. \A v \in Seq(T) : v \in Seq(Marked)
        BY SeqMonotonic
      <4> QED BY <3>2, <4>1 DEF Cue, Loose
    <3> HIDE DEF t
    <3>4. N!Stripped(t) = Picked(t, Spelt)
      BY <3>3, ContentIs
    <3>5. Picked(t, Spelt) = t
      BY <1>16, <3>3, PickedAll
    <3> QED BY <1>3, <3>1, <3>3, <3>4, <3>5
  <2>2. b \in Seq(X)
    <3>1. b = [i \in DOMAIN b |-> b[i]]
      BY <1>2
    <3> QED BY <1>2, <2>1, <3>1, MakeSeq
  <2>3. k = b
    BY <1>5, <2>2, PickedAll
  <2>4. N!AllTarget(b) = N!Contents(Texts(b, "target"))
    BY <1>2, AllIs DEF L
  <2>5. N!AllTarget(cs) = N!Contents(Texts(cs, "target"))
    BY <1>12, AllIs
  <2> QED BY <1>2, <1>11, <1>14, <2>3, <2>4, <2>5 DEF SameTimes
<1> QED BY <1>8, <1>13, <1>15, <1>16 DEF KeepsAll, X

(* Sorting by start: every cue has a place of its own.                     *)
Ahead(cs, i) == {j \in DOMAIN cs : cs[j].start < cs[i].start \/ (cs[j].start = cs[i].start /\ j < i)}
RankOf(cs)    == [i \in DOMAIN cs |-> 1 + Cardinality(Ahead(cs, i))]
PlaceOf(cs, k) == CHOOSE i \in DOMAIN cs : RankOf(cs)[i] = k
Starts(cs) == Len(cs) \in Nat /\ DOMAIN cs = 1..Len(cs) /\ \A i \in 1..Len(cs) : cs[i].start \in Int

(* The rank of a cue is its place in the sorted order.                     *)
LEMMA BeforeIs ==
    ASSUME NEW cs, Starts(cs), NEW i \in 1..Len(cs)
    PROVE  /\ Ahead(cs, i) \subseteq 1..Len(cs) /\ i \notin Ahead(cs, i)
           /\ IsFiniteSet(Ahead(cs, i)) /\ Cardinality(Ahead(cs, i)) \in Nat
           /\ Cardinality(Ahead(cs, i)) < Len(cs)
<1> DEFINE n == Len(cs)
           b == Ahead(cs, i)
<1>1. n \in Nat /\ DOMAIN cs = 1..n /\ cs[i].start \in Int
  BY DEF Starts
<1>2. b \subseteq 1..n /\ i \notin b
  BY <1>1 DEF Ahead
<1> HIDE DEF b
<1>3. IsFiniteSet(1..n) /\ Cardinality(1..n) = n
  <2>1. 1 \in Int /\ n \in Int
    BY <1>1
  <2>2. IsFiniteSet(1..n) /\ Cardinality(1..n) = IF 1 > n THEN 0 ELSE n - 1 + 1
    BY <2>1, FS_Interval
  <2> HIDE DEF n
  <2> QED BY <1>1, <2>2
<1>4. IsFiniteSet(b) /\ Cardinality(b) <= n /\ (n = Cardinality(b) => 1..n = b)
  <2>1. b \in SUBSET (1..n)
    BY <1>2
  <2> QED BY <1>3, <2>1, FS_Subset
<1>5. Cardinality(b) \in Nat
  BY <1>4, FS_CardinalityType
<1>6. Cardinality(b) # n
  BY <1>2, <1>4
<1> QED BY <1>1, <1>2, <1>4, <1>5, <1>6 DEF b

(* A cue before another has a lower rank.                                  *)
LEMMA RanksDiffer ==
    ASSUME NEW cs, Starts(cs), NEW i \in 1..Len(cs), NEW j \in Ahead(cs, i)
    PROVE  Cardinality(Ahead(cs, j)) < Cardinality(Ahead(cs, i))
<1> DEFINE a == Ahead(cs, j)
           b == Ahead(cs, i)
<1>1. DOMAIN cs = 1..Len(cs) /\ \A k \in 1..Len(cs) : cs[k].start \in Int /\ k \in Int
  BY DEF Starts
<1>2. j \in 1..Len(cs) /\ (cs[j].start < cs[i].start \/ (cs[j].start = cs[i].start /\ j < i))
  BY <1>1 DEF Ahead
<1>3. a \subseteq b
  <2>1. ASSUME NEW k \in a PROVE k \in b
    <3>1. k \in 1..Len(cs) /\ (cs[k].start < cs[j].start \/ (cs[k].start = cs[j].start /\ k < j))
      BY <1>1, <2>1 DEF Ahead
    <3>2. cs[k].start < cs[i].start \/ (cs[k].start = cs[i].start /\ k < i)
      <4>1. cs[i].start \in Int /\ cs[j].start \in Int /\ cs[k].start \in Int /\ i \in Int /\ j \in Int /\ k \in Int
        BY <1>1, <1>2, <3>1
      <4> QED BY <1>2, <3>1, <4>1
    <3> QED BY <1>1, <3>1, <3>2 DEF Ahead
  <2> QED BY <2>1
<1>4. j \notin a /\ IsFiniteSet(a) /\ Cardinality(a) \in Nat
  BY <1>2, BeforeIs
<1>5. IsFiniteSet(b) /\ Cardinality(b) \in Nat
  BY BeforeIs
<1>6. j \in b
  OBVIOUS
<1> HIDE DEF a, b
<1>7. Cardinality(a) <= Cardinality(b) /\ (Cardinality(b) = Cardinality(a) => b = a)
  <2>1. a \in SUBSET b
    BY <1>3
  <2> QED BY <1>5, <2>1, FS_Subset
<1> QED BY <1>4, <1>5, <1>6, <1>7 DEF a, b

(* The ranks are a permutation.                                            *)
LEMMA RanksAre ==
    ASSUME NEW cs, Starts(cs)
    PROVE  /\ \A i \in 1..Len(cs) : RankOf(cs)[i] = 1 + Cardinality(Ahead(cs, i))
           /\ \A i, j \in 1..Len(cs) : RankOf(cs)[i] = RankOf(cs)[j] => i = j
           /\ \A k \in 1..Len(cs) : \E i \in 1..Len(cs) : RankOf(cs)[i] = k
<1> DEFINE n == Len(cs)
           r == RankOf(cs)
<1>1. DOMAIN cs = 1..n /\ n \in Nat /\ \A i \in 1..n : cs[i].start \in Int
  BY DEF Starts
<1>2. \A i \in 1..n : r[i] = 1 + Cardinality(Ahead(cs, i))
  BY <1>1 DEF RankOf
<1>3. r = [i \in 1..n |-> r[i]]
  BY <1>1 DEF RankOf
<1> HIDE DEF r
<1>4. \A i \in 1..n : r[i] \in 1..n
  <2>1. ASSUME NEW i \in 1..n PROVE r[i] \in 1..n
    <3>1. Cardinality(Ahead(cs, i)) \in Nat /\ Cardinality(Ahead(cs, i)) < n
      BY BeforeIs
    <3> HIDE DEF n
    <3> QED BY <1>1, <1>2, <3>1
  <2> QED BY <2>1
<1>5. \A i, j \in 1..n : r[i] = r[j] => i = j
  <2> SUFFICES ASSUME NEW i \in 1..n, NEW j \in 1..n, r[i] = r[j], i # j PROVE FALSE
    OBVIOUS
  <2>1. j \in Ahead(cs, i) \/ i \in Ahead(cs, j)
    <3>1. cs[i].start \in Int /\ cs[j].start \in Int /\ i \in Int /\ j \in Int
      BY <1>1
    <3>2. \/ cs[j].start < cs[i].start \/ (cs[j].start = cs[i].start /\ j < i)
          \/ cs[i].start < cs[j].start \/ (cs[i].start = cs[j].start /\ i < j)
      BY <3>1
    <3> QED BY <1>1, <3>2 DEF Ahead
  <2>2. Cardinality(Ahead(cs, i)) \in Nat /\ Cardinality(Ahead(cs, j)) \in Nat
    BY BeforeIs
  <2>3. Cardinality(Ahead(cs, i)) # Cardinality(Ahead(cs, j))
    <3>1. CASE j \in Ahead(cs, i)
      <4>1. Cardinality(Ahead(cs, j)) < Cardinality(Ahead(cs, i))
        BY <3>1, RanksDiffer
      <4> QED BY <2>2, <4>1
    <3>2. CASE i \in Ahead(cs, j)
      <4>1. Cardinality(Ahead(cs, i)) < Cardinality(Ahead(cs, j))
        BY <3>2, RanksDiffer
      <4> QED BY <2>2, <4>1
    <3> QED BY <2>1, <3>1, <3>2
  <2> QED BY <1>2, <2>2, <2>3
<1>6. \A k \in 1..n : \E i \in 1..n : r[i] = k
  <2>1. r \in [1..n -> 1..n]
    BY <1>3, <1>4
  <2>2. r \in Injection(1..n, 1..n)
    BY <1>5, <2>1 DEF Injection, IsInjective
  <2>3. IsFiniteSet(1..n)
    BY <1>1, FS_Interval
  <2>4. r \in Surjection(1..n, 1..n)
    BY <2>2, <2>3, FS_Injection
  <2> QED BY <2>4 DEF Surjection
<1> QED BY <1>2, <1>5, <1>6 DEF r

IsPlacing(cs) ==
    /\ \A k \in 1..Len(cs) : PlaceOf(cs, k) \in 1..Len(cs) /\ RankOf(cs)[PlaceOf(cs, k)] = k
    /\ \A i \in 1..Len(cs) : \E k \in 1..Len(cs) : PlaceOf(cs, k) = i
LEMMA Placed ==
    ASSUME NEW cs, Starts(cs)
    PROVE  IsPlacing(cs)
<1> DEFINE n == Len(cs)
           r == RankOf(cs)
<1>1. DOMAIN cs = 1..n /\ n \in Nat
  BY DEF Starts
<1>2. /\ \A i \in 1..n : r[i] = 1 + Cardinality(Ahead(cs, i))
      /\ \A i, j \in 1..n : r[i] = r[j] => i = j
      /\ \A k \in 1..n : \E i \in 1..n : r[i] = k
  BY RanksAre
<1> HIDE DEF r
<1>3. \A k \in 1..n : PlaceOf(cs, k) \in 1..n /\ r[PlaceOf(cs, k)] = k
  BY <1>1, <1>2 DEF PlaceOf, r
<1>4. ASSUME NEW i \in 1..n PROVE r[i] \in 1..n /\ PlaceOf(cs, r[i]) = i
  <2>1. Cardinality(Ahead(cs, i)) \in Nat /\ Cardinality(Ahead(cs, i)) < n
    BY BeforeIs
  <2>2. r[i] \in 1..n
    <3>1. r[i] = 1 + Cardinality(Ahead(cs, i))
      BY <1>2
    <3> HIDE DEF n
    <3> QED BY <1>1, <2>1, <3>1
  <2> QED BY <1>2, <1>3, <2>2
<1> QED BY <1>3, <1>4 DEF IsPlacing, r

(* Sorting keeps the words, and cues apart as they are.                    *)
LEMMA SortedIs ==
    ASSUME NEW cs \in Seq(Cue(Marked, Int)), NEW r, r = N!InTimeOrder(cs)
    PROVE  /\ N!Words(N!AllSource(r)) = N!Words(N!AllSource(cs))
           /\ N!Words(N!AllTarget(r)) = N!Words(N!AllTarget(cs))
           /\ Apart(cs) => r = cs
<1> DEFINE C == Cue(Marked, Int)
           n == Len(cs)
<1>1. n \in Nat /\ DOMAIN cs = 1..n /\ \A i \in 1..n : cs[i] \in C
  OBVIOUS
<1>2. TimesAre(C)
  BY TimesType
<1>3. Starts(cs)
  BY <1>1, <1>2 DEF Starts, TimesAre
<1>4. IsPlacing(cs)
  BY <1>3, Placed
<1>5. r = [k \in DOMAIN cs |-> cs[PlaceOf(cs, k)]]
  BY Zenon DEF N!InTimeOrder, PlaceOf, RankOf, Ahead, N!Cardinality, N!IsFiniteSet, Cardinality, IsFiniteSet
<1>6. DOMAIN r = 1..n /\ \A k \in 1..n : r[k] = cs[PlaceOf(cs, k)] /\ r[k] \in C
  BY <1>1, <1>4, <1>5 DEF IsPlacing
<1>7. r \in Seq(C)
  <2>1. r = [k \in DOMAIN r |-> r[k]]
    BY <1>5
  <2> QED BY <1>1, <1>6, <2>1, MakeSeq
<1>8. C \subseteq Loose(Marked, Int)
  BY DEF Cue
<1>9. cs \in Seq(Loose(Marked, Int)) /\ r \in Seq(Loose(Marked, Int))
  BY <1>7, <1>8, SeqMonotonic
<1> HIDE DEF C
<1>10. ASSUME NEW f, Tells(Loose(Marked, Int), f, Marked)
       PROVE  N!Words(N!Contents(Texts(r, f))) = N!Words(N!Contents(Texts(cs, f)))
  <2> DEFINE a == ContentsOf(r, f)
             b == ContentsOf(cs, f)
  <2>1. \A x \in Seq(Loose(Marked, Int)) : ContentsOf(x, f) \in Seq(Seq(Marked))
    <3> SUFFICES ASSUME NEW x \in Seq(Loose(Marked, Int)) PROVE ContentsOf(x, f) \in Seq(Seq(Marked))
      OBVIOUS
    <3>1. Len(x) \in Nat /\ DOMAIN x = 1..Len(x) /\ \A i \in 1..Len(x) : x[i] \in Loose(Marked, Int)
      OBVIOUS
    <3> DEFINE y == ContentsOf(x, f)
    <3>2. y = [i \in DOMAIN y |-> y[i]] /\ DOMAIN y = 1..Len(x)
      BY <3>1 DEF ContentsOf
    <3>3. \A i \in 1..Len(x) : y[i] = N!ContentOf(x[i][f]) /\ x[i][f] \in Seq(Marked)
      BY <1>10, <3>1 DEF ContentsOf, Tells
    <3>4. \A t \in Seq(Marked) : N!ContentOf(t) \in Seq(Marked)
      BY ContentStripped
    <3> HIDE DEF y
    <3>5. \A i \in 1..Len(x) : y[i] \in Seq(Marked)
      BY <3>3, <3>4
    <3> QED BY <3>1, <3>2, <3>5, MakeSeq DEF y
  <2>2. a \in Seq(Seq(Marked)) /\ b \in Seq(Seq(Marked))
    BY <1>9, <2>1
  <2>3. DOMAIN a = 1..n /\ DOMAIN b = 1..n /\ \A k \in 1..n : a[k] = b[PlaceOf(cs, k)]
    BY <1>1, <1>4, <1>6 DEF ContentsOf, IsPlacing
  <2> HIDE DEF a, b
  <2>4. {N!Words(a[k]) : k \in DOMAIN a} = {N!Words(b[k]) : k \in DOMAIN b}
    <3>1. ASSUME NEW k \in 1..n PROVE \E j \in 1..n : N!Words(a[k]) = N!Words(b[j])
      BY <1>4, <2>3 DEF IsPlacing
    <3>2. ASSUME NEW j \in 1..n PROVE \E k \in 1..n : N!Words(b[j]) = N!Words(a[k])
      <4>1. PICK k \in 1..n : PlaceOf(cs, k) = j
        BY <1>4 DEF IsPlacing
      <4> QED BY <2>3, <4>1
    <3> DEFINE A == {N!Words(a[k]) : k \in DOMAIN a}
               B == {N!Words(b[k]) : k \in DOMAIN b}
    <3>3. ASSUME NEW x \in A PROVE x \in B
      <4>1. PICK k \in 1..n : x = N!Words(a[k])
        BY <2>3
      <4>2. PICK j \in 1..n : N!Words(a[k]) = N!Words(b[j])
        BY <3>1
      <4> QED BY <2>3, <4>1, <4>2
    <3>4. ASSUME NEW x \in B PROVE x \in A
      <4>1. PICK j \in 1..n : x = N!Words(b[j])
        BY <2>3
      <4>2. PICK k \in 1..n : N!Words(b[j]) = N!Words(a[k])
        BY <3>2
      <4> QED BY <2>3, <4>1, <4>2
    <3> HIDE DEF A, B
    <3>5. A = B
      BY <3>3, <3>4
    <3> QED BY <3>5 DEF A, B
  <2>5. N!Words(N!Flat(a)) = UNION {N!Words(a[k]) : k \in DOMAIN a}
    BY <2>2, FlatWords
  <2>6. N!Words(N!Flat(b)) = UNION {N!Words(b[k]) : k \in DOMAIN b}
    BY <2>2, FlatWords
  <2> QED BY <2>4, <2>5, <2>6, ContentsTold, Zenon DEF a, b
<1>11. Tells(Loose(Marked, Int), "source", Marked) /\ Tells(Loose(Marked, Int), "target", Marked)
  BY CuesTell
<1>12. N!Words(N!AllSource(r)) = N!Words(N!AllSource(cs))
  <2>1. N!AllSource(r) = N!Contents(Texts(r, "source")) /\ N!AllSource(cs) = N!Contents(Texts(cs, "source"))
    BY <1>9, AllIs
  <2> QED BY <1>10, <1>11, <2>1
<1>13. N!Words(N!AllTarget(r)) = N!Words(N!AllTarget(cs))
  <2>1. N!AllTarget(r) = N!Contents(Texts(r, "target")) /\ N!AllTarget(cs) = N!Contents(Texts(cs, "target"))
    BY <1>9, AllIs
  <2> QED BY <1>10, <1>11, <2>1
<1>14. ASSUME Apart(cs) PROVE r = cs
  <2> DEFINE later(i) == \A j \in 1..n : j < i => cs[j].start < cs[i].start
             W == {i \in 0..n : i > 0 => later(i)}
  <2>0. \A i \in 1..n : cs[i].start \in Int /\ cs[i].end \in Int
    BY <1>1, <1>2 DEF TimesAre
  <2>1. ASSUME NEW i \in 1..n, i - 1 \in W PROVE later(i)
    <3> SUFFICES ASSUME NEW j \in 1..n, j < i PROVE cs[j].start < cs[i].start
      OBVIOUS
    <3>1. i - 1 \in 1..n /\ i - 1 < n /\ (i - 1) + 1 = i /\ i - 1 > 0
      BY <1>1
    <3>2. cs[i - 1].start < cs[i].start
      <4>1. cs[i - 1].start < cs[i - 1].end /\ cs[i - 1].end <= cs[i].start
        BY <1>14, <3>1 DEF Apart
      <4> QED BY <2>0, <3>1, <4>1
    <3>3. CASE j = i - 1
      BY <3>2, <3>3
    <3>4. CASE j # i - 1
      <4>1. j < i - 1
        BY <1>1, <3>4
      <4>2. cs[j].start < cs[i - 1].start
        BY <2>1, <3>1, <4>1
      <4> QED BY <2>0, <3>1, <3>2, <4>2
    <3> QED BY <3>3, <3>4
  <2>2. 0 \in W /\ \A i \in 1..n : i - 1 \in W => i \in W
    <3>1. 0 \in 0..n /\ \A i \in 1..n : i \in 0..n
      BY <1>1
    <3>2. \A i \in 1..n : i - 1 \in W => later(i)
      BY <2>1
    <3> HIDE DEF later
    <3> QED BY <3>1, <3>2
  <2>3. 0..n \subseteq W
    <3> HIDE DEF W, n
    <3> QED BY <1>1, <2>2, Induction
  <2>4. ASSUME NEW i \in 1..n PROVE Ahead(cs, i) = 1..(i - 1)
    <3>1. \A k \in 1..n : \A j \in 1..n : j < k => cs[j].start < cs[k].start
      <4>1. \A k \in 1..n : k \in 0..n /\ k > 0
        BY <1>1
      <4> QED BY <2>3, <4>1
    <3>2. ASSUME NEW j \in 1..n
          PROVE  (cs[j].start < cs[i].start \/ (cs[j].start = cs[i].start /\ j < i)) <=> j < i
      <4>1. CASE j < i
        BY <3>1, <4>1
      <4>2. CASE j = i
        BY <2>0, <4>2
      <4>3. CASE i < j
        <5>1. cs[i].start < cs[j].start
          BY <3>1, <4>3
        <5> QED BY <2>0, <4>3, <5>1
      <4> QED BY <1>1, <4>1, <4>2, <4>3
    <3>3. Ahead(cs, i) = {j \in 1..n : j < i}
      BY <1>1, <3>2 DEF Ahead
    <3>4. {j \in 1..n : j < i} = 1..(i - 1)
      <4> HIDE DEF n
      <4> QED BY <1>1
    <3> QED BY <3>3, <3>4
  <2>5. ASSUME NEW i \in 1..n PROVE RankOf(cs)[i] = i
    <3>1. RankOf(cs)[i] = 1 + Cardinality(Ahead(cs, i))
      BY <1>3, RanksAre
    <3>2. Cardinality(1..(i - 1)) = i - 1
      <4>1. 1 \in Int /\ i - 1 \in Int
        BY <1>1
      <4>2. Cardinality(1..(i - 1)) = IF 1 > i - 1 THEN 0 ELSE (i - 1) - 1 + 1
        BY <4>1, FS_Interval
      <4>3. i \in Nat /\ i > 0
        BY <1>1
      <4> HIDE DEF n
      <4> QED BY <4>2, <4>3
    <3>3. i \in Nat
      BY <1>1
    <3> QED BY <2>4, <3>1, <3>2, <3>3
  <2>6. \A k \in 1..n : PlaceOf(cs, k) = k
    BY <1>4, <2>5 DEF IsPlacing
  <2> QED BY <1>1, <1>5, <1>6, <2>6
<1> QED BY <1>12, <1>13, <1>14

(* What is written.                                                        *)
FinallySays(r, cs) ==
    /\ N!Words(N!AllSource(r)) = N!Words(N!AllSource(cs))
    /\ Apart(cs) => N!AllSource(r) = N!AllSource(cs) /\ Apart(r)
FinallyAll(r, cs) ==
    /\ N!Words(N!AllTarget(r)) = N!Words(N!AllTarget(cs))
    /\ Apart(cs) => N!AllTarget(r) = N!AllTarget(cs) /\ SameTimes(r, cs)
LEMMA FinallyIs ==
    ASSUME NEW T \in SUBSET Marked, NEW cs \in Seq(Cue(T, Int)), NEW r, r = N!InTimeOrder(N!Kept(cs))
    PROVE  FinallySays(r, cs) /\ (T \subseteq Spelt => FinallyAll(r, cs))
<1> DEFINE k == N!Kept(cs)
<1>1. KeepsAll(k, cs) /\ (T \subseteq Spelt => N!AllTarget(k) = N!AllTarget(cs) /\ SameTimes(k, cs))
  BY KeptIs
<1> HIDE DEF k
<1>2. k \in Seq(Cue(Marked, Int)) /\ N!AllSource(k) = N!AllSource(cs) /\ (Apart(cs) => Apart(k))
  BY <1>1 DEF KeepsAll
<1>3. /\ N!Words(N!AllSource(r)) = N!Words(N!AllSource(k))
      /\ N!Words(N!AllTarget(r)) = N!Words(N!AllTarget(k))
      /\ Apart(k) => r = k
  BY <1>2, SortedIs DEF k
<1>4. FinallySays(r, cs)
  BY <1>2, <1>3 DEF FinallySays
<1>5. ASSUME T \subseteq Spelt PROVE FinallyAll(r, cs)
  BY <1>1, <1>2, <1>3, <1>5 DEF FinallyAll
<1> QED BY <1>4, <1>5

(* Tight cues do not overlap.                                              *)
LEMMA TightApart == ASSUME NEW cs, Tight(cs) PROVE Apart(cs)
BY DEF Tight, Apart

(* Where a cue is too short there is no room.                              *)
NoRoom(cs, i) ==
    /\ IF i = 1 THEN cs[i].start = 0 ELSE cs[i - 1].end = cs[i].start /\ N!Spare(cs[i - 1]) = 0
    /\ i < Len(cs) /\ cs[i + 1].start = cs[i].end /\ N!Spare(cs[i + 1]) = 0
LEMMA SpareIs == ASSUME NEW c, c.start \in Int, c.end \in Int, Took(c) <= MinDuration PROVE N!Spare(c) = 0
BY Constants DEF N!Spare, N!Lasts, N!GreaterOf, Took
LEMMA ShortHasNoRoom ==
    ASSUME NEW cs, HasTimes(cs), Tight(cs), NoNext(cs, Len(cs)), NoPrev(cs, Len(cs)),
           NEW r, SameTimes(r, cs), NEW i \in 1..Len(r), N!Lasts(r[i]) < MinDuration
    PROVE  NoRoom(r, i)
<1> DEFINE n == Len(cs)
<1>1. n \in Nat /\ Len(r) = n /\ i \in 1..n /\ \A j \in 1..n : r[j].start = cs[j].start /\ r[j].end = cs[j].end
  BY DEF HasTimes, SameTimes
<1>2. \A j \in 1..n : cs[j].start \in Int /\ cs[j].end \in Int
  BY DEF HasTimes
<1>3. IsShort(cs[i])
  BY <1>1 DEF IsShort, N!Lasts
<1>4. i < n /\ cs[i].end = cs[i + 1].start /\ (IF i = 1 THEN cs[i].start = 0 ELSE cs[i - 1].end = cs[i].start)
  BY <1>1, <1>3 DEF Tight
<1>5. i + 1 \in 1..n
  BY <1>1, <1>4, NextIn
<1>6. Took(cs[i + 1]) <= MinDuration
  BY <1>1, <1>3, <1>4 DEF NoNext
<1>7. i # 1 => i - 1 \in 1..n /\ i > 1
  BY <1>1, PreviousIn
<1>8. i # 1 => Took(cs[i - 1]) <= MinDuration
  BY <1>1, <1>3, <1>7 DEF NoPrev
<1> HIDE DEF n
<1>9. N!Spare(r[i + 1]) = 0
  <2>1. Took(r[i + 1]) <= MinDuration /\ r[i + 1].start \in Int /\ r[i + 1].end \in Int
    BY <1>1, <1>2, <1>5, <1>6 DEF Took
  <2> QED BY <2>1, SpareIs
<1>10. ASSUME i # 1 PROVE N!Spare(r[i - 1]) = 0
  <2>1. Took(r[i - 1]) <= MinDuration /\ r[i - 1].start \in Int /\ r[i - 1].end \in Int
    BY <1>1, <1>2, <1>7, <1>8, <1>10 DEF Took
  <2> QED BY <2>1, SpareIs
<1> QED BY <1>1, <1>4, <1>5, <1>7, <1>9, <1>10 DEF NoRoom

(* The cues the stage is given.                                            *)
Texted == IF N!AllSaid THEN Spelt ELSE Marked
LEMMA GivenIs ==
    ASSUME given \in Manifests
    PROVE  given \in Seq(Cue(Texted, Nat)) /\ Texted \in SUBSET Marked /\ (N!AllSaid => Texted \subseteq Spelt)
<1>1. given \in Seq({given[i] : i \in DOMAIN given}) /\ \A i \in DOMAIN given : N!IsCue(given[i])
  BY CuesAssumption DEF N!NormalizeAssumption
<1>2. Len(given) \in Nat /\ DOMAIN given = 1..Len(given) /\ given = [i \in DOMAIN given |-> given[i]]
  BY <1>1
<1>3. Spelt \subseteq Marked /\ (N!AllSaid => Texted \subseteq Spelt) /\ Texted \in SUBSET Marked
  BY DEF Spelt, Marked, Texted
<1>4. ASSUME NEW i \in 1..Len(given) PROVE given[i] \in Cue(Texted, Nat)
  <2> DEFINE c == given[i]
  <2>1. N!IsCue(c) /\ i \in DOMAIN given
    BY <1>1, <1>2
  <2>2. c.ends \in AllEnds
    BY <1>2 DEF AllEnds
  <2>3. N!AllSaid => \A p \in DOMAIN c.source : c.source[p].kind # "mark"
    BY <2>1 DEF N!AllSaid
  <2> HIDE DEF c
  <2>4. /\ c \in [start : Nat, end : Int, source : Seq(N!Sentence), target : Seq(N!Sentence), ends : {c.ends}]
        /\ c.source # <<>> /\ c.source \in Seq(N!Sentence) /\ c.target \in Seq(N!Sentence)
        /\ \A p \in DOMAIN c.source : c.source[p].kind = "mark" => c.source[p].len = 0
        /\ \A p \in DOMAIN c.target : c.target[p].kind = "mark" => c.target[p].len = 0
    BY <2>1 DEF N!IsCue
  <2> DEFINE s == c.source
             t == c.target
  <2>5. s \in Seq(Texted)
    <3>1. Len(s) \in Nat /\ DOMAIN s = 1..Len(s) /\ s = [p \in DOMAIN s |-> s[p]]
          /\ \A p \in 1..Len(s) : s[p] \in N!Sentence
      BY <2>4
    <3>2. \A p \in 1..Len(s) : s[p] \in Texted
      BY <2>3, <2>4, <3>1 DEF Texted, Marked, Spelt
    <3> HIDE DEF s
    <3> QED BY <3>1, <3>2, MakeSeq
  <2>6. t \in Seq(Marked)
    <3>1. Len(t) \in Nat /\ DOMAIN t = 1..Len(t) /\ t = [p \in DOMAIN t |-> t[p]]
          /\ \A p \in 1..Len(t) : t[p] \in N!Sentence
      BY <2>4
    <3>2. \A p \in 1..Len(t) : t[p] \in Marked
      BY <2>4, <3>1 DEF Marked
    <3> HIDE DEF t
    <3> QED BY <3>1, <3>2, MakeSeq
  <2>7. c \in Loose(Texted, Nat)
    <3>1. Nat \subseteq Int
      OBVIOUS
    <3> QED BY <2>2, <2>4, <2>5, <2>6, <3>1 DEF Loose
  <2> QED BY <2>4, <2>7 DEF Cue, c
<1>5. given \in Seq(Cue(Texted, Nat))
  BY <1>2, <1>4, MakeSeq
<1> QED BY <1>3, <1>5

(* The stage, pass by pass.                                                *)
InOrder == N!InStartOrder(N!Reflowed(given))
Early   == {"display", "fit", "merge", "widen"}
Late    == {"share", "strip"}
SaysGiven(cs, S) == SaysSame(cs, Cue(Texted, S), given)
CutsAreFair(cs)  == Tight(cs) /\ NoNext(cs, Len(cs)) /\ NoPrev(cs, Len(cs))
NormSays ==
    /\ pass = "reflow" => cues = given
    /\ pass \in Early => SaysGiven(cues, Nat)
    /\ pass \in Late => SaysGiven(cues, Int)
NormTimes ==
    /\ pass = "display" => cues = N!Reflowed(given)
    /\ pass = "merge" => LastsLong(cues)
    /\ pass = "fit" /\ InOrder => N!InStartOrder(cues)
    /\ pass = "merge" /\ InOrder => Chain(cues)
    /\ pass = "widen" /\ InOrder => Timed(cues)
    /\ pass = "share" /\ InOrder => Tight(cues)
    /\ pass = "strip" /\ InOrder => CutsAreFair(cues)
NormWritten ==
    pass = "written" => N!NormalizedKeepsText /\ N!NormalizedReadable
NormIInv ==
    /\ given \in Manifests /\ pass \in {"reflow", "written"} \cup Early \cup Late
    /\ NormSays /\ NormTimes /\ NormWritten

(* Whoever says what was given has its content.                            *)
LEMMA LooseIn ==
    ASSUME NEW T \in SUBSET Marked, NEW S \in SUBSET Int
    PROVE  Cue(T, S) \subseteq Loose(Marked, Int)
<1>1. \A t \in Seq(T) : t \in Seq(Marked)
  BY SeqMonotonic
<1> SUFFICES ASSUME NEW c \in Loose(T, S) PROVE c \in Loose(Marked, Int)
  BY DEF Cue
<1> QED BY <1>1 DEF Loose

LEMMA SaysContent ==
    ASSUME given \in Manifests, NEW S \in SUBSET Int, NEW r, SaysGiven(r, S)
    PROVE  N!SameContent(r, given) /\ r \in Seq(Cue(Texted, S))
<1>1. given \in Seq(Cue(Texted, Nat)) /\ Texted \in SUBSET Marked
  BY GivenIs
<1>2. /\ r \in Seq(Cue(Texted, S)) /\ Told(r, "source") = Told(given, "source")
      /\ Told(r, "target") = Told(given, "target")
  BY DEF SaysGiven, SaysSame, SaysAs
<1>3. Nat \in SUBSET Int
  OBVIOUS
<1>4. Cue(Texted, S) \subseteq Loose(Marked, Int) /\ Cue(Texted, Nat) \subseteq Loose(Marked, Int)
  BY <1>1, <1>3, LooseIn
<1>5. r \in Seq(Loose(Marked, Int)) /\ given \in Seq(Loose(Marked, Int))
  BY <1>1, <1>2, <1>4, SeqMonotonic
<1>6. /\ N!AllSource(r) = N!ContentOf(Told(r, "source")) /\ N!AllTarget(r) = N!ContentOf(Told(r, "target"))
      /\ N!AllSource(given) = N!ContentOf(Told(given, "source"))
      /\ N!AllTarget(given) = N!ContentOf(Told(given, "target"))
  BY <1>5, AllIs
<1> QED BY <1>2, <1>6 DEF N!SameContent

(* The inputs stay.                                                        *)
LEMMA InputsStay ==
    ASSUME given' = given, join' = join
    PROVE  /\ InOrder' = InOrder /\ Texted' = Texted /\ N!AllSaid' = N!AllSaid
           /\ N!Reflowed(given)' = N!Reflowed(given)
<1>1. N!Reflowed(given)' = N!Reflowed(given)
  BY DEF N!Reflowed
<1>2. N!AllSaid' = N!AllSaid
  BY DEF N!AllSaid
<1> QED BY <1>1, <1>2 DEF InOrder, Texted

(* The steps, one lemma for each pass.                                     *)
LEMMA InitNorm == N!NormalizeInit => NormIInv
BY DEF N!NormalizeInit, NormIInv, NormSays, NormTimes, NormWritten, Early, Late

LEMMA ExtendNorm ==
    ASSUME NormIInv, N!Extend
    PROVE  NormIInv'
<1>1. /\ pass = "display" /\ pass' = "fit" /\ cues' = N!Display(cues) /\ given' = given /\ join' = join
      /\ given \in Manifests /\ SaysGiven(cues, Nat) /\ cues = N!Reflowed(given)
  BY DEF N!Extend, N!Becomes, NormIInv, NormSays, NormTimes, Early
<1>2. Texted \in SUBSET Marked /\ cues \in Seq(Cue(Texted, Nat))
  BY <1>1, GivenIs, SaysContent
<1> DEFINE r == N!Display(cues)
<1>3. IsRetimed(r, Cue(Texted, Nat), cues, StartsOf(cues), [i \in DOMAIN cues |-> N!Shown(cues, i)])
  BY <1>2, DisplayIs
<1>4. cues' = r
  BY <1>1
<1> HIDE DEF r
<1>5. SaysSame(r, Cue(Texted, Nat), cues) /\ r \in Seq(Cue(Texted, Nat)) /\ Len(r) = Len(cues)
      /\ \A i \in 1..Len(cues) : r[i].start = StartsOf(cues)[i]
  BY <1>3 DEF IsRetimed
<1>6. SaysGiven(r, Nat)
  BY <1>1, <1>5, SaysOn DEF SaysGiven
<1>7. ASSUME InOrder PROVE N!InStartOrder(r)
  <2>1. DOMAIN r = 1..Len(r) /\ DOMAIN cues = 1..Len(cues) /\ Len(cues) \in Nat
    BY <1>2, <1>5
  <2>2. \A i \in 1..Len(cues) : r[i].start = cues[i].start
    BY <1>5, <2>1 DEF StartsOf
  <2>3. N!InStartOrder(cues)
    BY <1>1, <1>7 DEF InOrder
  <2>4. \A i \in 1..Len(cues) : i > 1 => cues[i - 1].start <= cues[i].start
    BY <2>1, <2>3 DEF N!InStartOrder
  <2>5. ASSUME NEW i \in 1..Len(cues), i > 1 PROVE i - 1 \in 1..Len(cues)
    BY <2>1, <2>5
  <2> QED BY <1>5, <2>1, <2>2, <2>4, <2>5 DEF N!InStartOrder
<1>8. InOrder' = InOrder /\ Texted' = Texted
  BY <1>1, InputsStay
<1>9. NormSays'
  BY <1>1, <1>4, <1>6, <1>8 DEF NormSays, SaysGiven, Early, Late
<1>10. NormTimes'
  BY <1>1, <1>4, <1>7, <1>8 DEF NormTimes, N!InStartOrder
<1>11. NormWritten'
  BY <1>1 DEF NormWritten
<1> QED BY <1>1, <1>9, <1>10, <1>11 DEF NormIInv, Early

LEMMA ReflowNorm ==
    ASSUME NormIInv, N!Reflow
    PROVE  NormIInv'
<1>1. /\ pass = "reflow" /\ cues' = N!Reflowed(cues) /\ given' = given /\ join' = join
      /\ pass' = IF N!SameContent(N!Reflowed(cues), given) THEN "display" ELSE "raised"
  BY Zenon DEF N!Reflow, N!Becomes
<1>2. given \in Manifests /\ cues = given
  BY <1>1 DEF NormIInv, NormSays
<1> DEFINE r == N!Reflowed(given)
<1>3. cues' = r /\ pass' = IF N!SameContent(r, given) THEN "display" ELSE "raised"
  BY <1>1, <1>2
<1>4. SaysAs(r, Cue(Texted, Nat), Told(given, "source"), Told(given, "target"))
  BY <1>2, GivenIs, ReflowedSays
<1>5. r' = r /\ Texted' = Texted
  BY <1>1, InputsStay
<1> HIDE DEF r
<1>6. SaysGiven(r, Nat)
  BY <1>4 DEF SaysGiven, SaysSame
<1>7. N!SameContent(r, given)
  BY <1>2, <1>6, SaysContent
<1>8. pass' = "display"
  BY <1>3, <1>7
<1>9. NormSays'
  BY <1>1, <1>3, <1>5, <1>6, <1>8 DEF NormSays, SaysGiven, Early, Late
<1>10. NormTimes'
  <2>1. cues' = N!Reflowed(given)'
    BY <1>3, <1>5 DEF r
  <2> QED BY <1>8, <2>1 DEF NormTimes
<1>11. NormWritten'
  BY <1>8 DEF NormWritten
<1> QED BY <1>1, <1>2, <1>8, <1>9, <1>10, <1>11 DEF NormIInv, Early

(* A pass that keeps what is said.                                         *)
Passes(from, to, S, Q, r) ==
    /\ pass = from /\ pass' = to /\ cues' = r /\ given' = given /\ join' = join
    /\ given \in Manifests /\ SaysGiven(cues, S) /\ SaysSame(r, Cue(Texted, Q), cues)
LEMMA PassSays ==
    ASSUME NEW from, NEW to, NEW S, NEW Q, NEW r, Passes(from, to, S, Q, r),
           \/ to \in Early /\ Q = Nat
           \/ to \in Late /\ Q = Int
    PROVE  /\ NormSays' /\ NormWritten' /\ InOrder' = InOrder
           /\ given' \in Manifests /\ pass' \in {"reflow", "written"} \cup Early \cup Late
<1>1. SaysGiven(r, Q) /\ cues' = r /\ given' = given /\ join' = join /\ pass' = to
  BY SaysOn DEF Passes, SaysGiven
<1>2. InOrder' = InOrder /\ Texted' = Texted
  BY <1>1, InputsStay
<1>3. NormSays'
  BY <1>1, <1>2 DEF NormSays, SaysGiven, Early, Late
<1>4. NormWritten'
  BY <1>1 DEF NormWritten, Early, Late
<1> QED BY <1>1, <1>2, <1>3, <1>4 DEF Passes

LEMMA FitNorm ==
    ASSUME NormIInv, N!Fit
    PROVE  NormIInv'
<1> DEFINE r == N!AtMinimum(N!Shortened(cues))
<1>1. pass = "fit" /\ pass' = "merge" /\ cues' = r /\ given' = given /\ join' = join
  BY DEF N!Fit, N!Becomes
<1>2. given \in Manifests /\ SaysGiven(cues, Nat) /\ (InOrder => N!InStartOrder(cues))
  BY <1>1 DEF NormIInv, NormSays, NormTimes, Early
<1>3. Texted \in SUBSET Marked /\ cues \in Seq(Cue(Texted, Nat))
  BY <1>2, GivenIs, SaysContent
<1>4. SaysSame(r, Cue(Texted, Nat), cues) /\ LastsLong(r) /\ (N!InStartOrder(cues) => Chain(r))
  BY <1>3, FitIs
<1> HIDE DEF r
<1>5. Passes("fit", "merge", Nat, Nat, r)
  BY <1>1, <1>2, <1>4 DEF Passes
<1>6. /\ NormSays' /\ NormWritten' /\ InOrder' = InOrder
      /\ given' \in Manifests /\ pass' \in {"reflow", "written"} \cup Early \cup Late
  BY <1>5, PassSays DEF Early
<1>7. NormTimes'
  BY <1>1, <1>2, <1>4, <1>6 DEF NormTimes, LastsLong, Chain
<1> QED BY <1>6, <1>7 DEF NormIInv

LEMMA MergeNorm ==
    ASSUME NormIInv, N!Merge
    PROVE  NormIInv'
<1> DEFINE r == N!WithoutEmpty(cues)
<1>1. pass = "merge" /\ pass' = "widen" /\ cues' = r /\ given' = given /\ join' = join
  BY DEF N!Merge, N!Becomes
<1>2. given \in Manifests /\ SaysGiven(cues, Nat) /\ LastsLong(cues) /\ (InOrder => Chain(cues))
  BY <1>1 DEF NormIInv, NormSays, NormTimes, Early
<1>3. Texted \in SUBSET Marked /\ cues \in Seq(Cue(Texted, Nat))
  BY <1>2, GivenIs, SaysContent
<1>4. SaysSame(r, Cue(Texted, Nat), cues) /\ (Chain(cues) => Timed(r))
  BY <1>2, <1>3, MergedSay
<1> HIDE DEF r
<1>5. Passes("merge", "widen", Nat, Nat, r)
  BY <1>1, <1>2, <1>4 DEF Passes
<1>6. /\ NormSays' /\ NormWritten' /\ InOrder' = InOrder
      /\ given' \in Manifests /\ pass' \in {"reflow", "written"} \cup Early \cup Late
  BY <1>5, PassSays DEF Early
<1>7. NormTimes'
  BY <1>1, <1>2, <1>4, <1>6 DEF NormTimes, Timed
<1> QED BY <1>6, <1>7 DEF NormIInv

LEMMA WidenNorm ==
    ASSUME NormIInv, N!Widen
    PROVE  NormIInv'
<1> DEFINE r == N!StartEarlier(cues)
<1>1. pass = "widen" /\ pass' = "share" /\ cues' = r /\ given' = given /\ join' = join
  BY DEF N!Widen, N!Becomes
<1>2. given \in Manifests /\ SaysGiven(cues, Nat) /\ (InOrder => Timed(cues))
  BY <1>1 DEF NormIInv, NormSays, NormTimes, Early
<1>3. Texted \in SUBSET Marked /\ cues \in Seq(Cue(Texted, Nat))
  BY <1>2, GivenIs, SaysContent
<1>4. SaysSame(r, Cue(Texted, Int), cues) /\ (Timed(cues) => Tight(r))
  BY <1>3, WidenIs
<1> HIDE DEF r
<1>5. Passes("widen", "share", Nat, Int, r)
  BY <1>1, <1>2, <1>4 DEF Passes
<1>6. /\ NormSays' /\ NormWritten' /\ InOrder' = InOrder
      /\ given' \in Manifests /\ pass' \in {"reflow", "written"} \cup Early \cup Late
  BY <1>5, PassSays DEF Late
<1>7. NormTimes'
  BY <1>1, <1>2, <1>4, <1>6 DEF NormTimes, Tight
<1> QED BY <1>6, <1>7 DEF NormIInv

LEMMA ShareNorm ==
    ASSUME NormIInv, N!Share
    PROVE  NormIInv'
<1> DEFINE r == N!FromPrevious(N!FromNext(cues))
<1>1. pass = "share" /\ pass' = "strip" /\ cues' = r /\ given' = given /\ join' = join
  BY DEF N!Share, N!Becomes
<1>2. given \in Manifests /\ SaysGiven(cues, Int) /\ (InOrder => Tight(cues))
  BY <1>1 DEF NormIInv, NormSays, NormTimes, Late
<1>3. Texted \in SUBSET Marked /\ cues \in Seq(Cue(Texted, Int))
  BY <1>2, GivenIs, SaysContent
<1>4. SaysSame(r, Cue(Texted, Int), cues) /\ (Tight(cues) => CutsAreFair(r))
  BY <1>3, SharedIs DEF CutsAreFair
<1> HIDE DEF r
<1>5. Passes("share", "strip", Int, Int, r)
  BY <1>1, <1>2, <1>4 DEF Passes
<1>6. /\ NormSays' /\ NormWritten' /\ InOrder' = InOrder
      /\ given' \in Manifests /\ pass' \in {"reflow", "written"} \cup Early \cup Late
  BY <1>5, PassSays DEF Late
<1>7. NormTimes'
  BY <1>1, <1>2, <1>4, <1>6 DEF NormTimes, CutsAreFair, Tight, NoNext, NoPrev
<1> QED BY <1>6, <1>7 DEF NormIInv

(* Cues apart are written as they are kept.                                *)
LEMMA FinalType ==
    ASSUME NEW T \in SUBSET Marked, NEW cs \in Seq(Cue(T, Int)), NEW r, r = N!InTimeOrder(N!Kept(cs)), Apart(cs)
    PROVE  r \in Seq(Cue(Marked, Int))
<1> DEFINE k == N!Kept(cs)
<1>1. KeepsAll(k, cs)
  BY KeptIs
<1> HIDE DEF k
<1>2. k \in Seq(Cue(Marked, Int)) /\ Apart(k)
  BY <1>1 DEF KeepsAll
<1>3. r = k
  BY <1>2, SortedIs DEF k
<1> QED BY <1>2, <1>3

LEMMA StripNorm ==
    ASSUME NormIInv, N!Strip
    PROVE  NormIInv'
<1> DEFINE r == N!InTimeOrder(N!Kept(cues))
<1>1. pass = "strip" /\ pass' = "written" /\ cues' = r /\ given' = given /\ join' = join
  BY DEF N!Strip, N!Becomes
<1>2. given \in Manifests /\ SaysGiven(cues, Int) /\ (InOrder => CutsAreFair(cues))
  BY <1>1 DEF NormIInv, NormSays, NormTimes, Late
<1>3. Texted \in SUBSET Marked /\ cues \in Seq(Cue(Texted, Int)) /\ (N!AllSaid => Texted \subseteq Spelt)
  BY <1>2, GivenIs, SaysContent
<1>4. N!AllSource(cues) = N!AllSource(given) /\ N!AllTarget(cues) = N!AllTarget(given)
  BY <1>2, SaysContent DEF N!SameContent
<1>5. FinallySays(r, cues) /\ (N!AllSaid => FinallyAll(r, cues))
  BY <1>3, FinallyIs
<1>6. InOrder => Apart(cues)
  BY <1>2, TightApart DEF CutsAreFair
<1>7. InOrder' = InOrder /\ N!AllSaid' = N!AllSaid
  BY <1>1, InputsStay
<1>8. HasTimes(cues)
  BY <1>3, CuesHaveTimes
<1> HIDE DEF r
<1>9. /\ N!Words(N!AllSource(r)) = N!Words(N!AllSource(given))
      /\ N!AllSaid => N!Words(N!AllTarget(r)) = N!Words(N!AllTarget(given))
      /\ InOrder => /\ N!AllSource(r) = N!AllSource(given)
                    /\ N!AllSaid => N!AllTarget(r) = N!AllTarget(given)
  BY <1>4, <1>5, <1>6 DEF FinallySays, FinallyAll
<1>10. N!NormalizedKeepsText'
  BY <1>1, <1>7, <1>9 DEF N!NormalizedKeepsText, InOrder
<1>11. ASSUME InOrder PROVE Apart(r)
  BY <1>5, <1>6, <1>11 DEF FinallySays
<1>12. ASSUME InOrder, N!AllSaid, NEW i \in 1..Len(r), N!Lasts(r[i]) < MinDuration PROVE NoRoom(r, i)
  <2>1. SameTimes(r, cues) /\ Tight(cues) /\ NoNext(cues, Len(cues)) /\ NoPrev(cues, Len(cues))
    BY <1>2, <1>5, <1>6, <1>12 DEF FinallyAll, CutsAreFair
  <2> QED BY <1>8, <1>12, <2>1, ShortHasNoRoom
<1>13. ASSUME InOrder PROVE r \in Seq(Cue(Marked, Int))
  BY <1>3, <1>6, <1>13, FinalType DEF r
<1>14. ASSUME InOrder, NEW i \in DOMAIN r
       PROVE  /\ N!Lasts(r[i]) > 0
              /\ i < Len(r) => r[i].end <= r[i + 1].start
              /\ N!AllSaid /\ N!Lasts(r[i]) < MinDuration => NoRoom(r, i)
  <2>1. Marked \in SUBSET Marked
    OBVIOUS
  <2>2. r \in Seq(Cue(Marked, Int))
    BY <1>13, <1>14
  <2>3. HasTimes(r)
    BY <2>1, <2>2, CuesHaveTimes
  <2>4. i \in 1..Len(r)
    BY <2>2, <1>14
  <2>5. r[i].start \in Int /\ r[i].end \in Int /\ r[i].start < r[i].end
        /\ (i < Len(r) => r[i].end <= r[i + 1].start)
    BY <1>11, <1>14, <2>3, <2>4 DEF HasTimes, Apart
  <2> QED BY <1>12, <1>14, <2>4, <2>5 DEF N!Lasts
<1>15. \A i : N!HasNoRoom(i)' <=> NoRoom(r, i)
  BY <1>1 DEF N!HasNoRoom, NoRoom
<1>16. N!NormalizedReadable'
  BY <1>1, <1>7, <1>14, <1>15 DEF N!NormalizedReadable, InOrder
<1>17. NormSays' /\ NormTimes' /\ NormWritten'
  BY <1>1, <1>10, <1>16 DEF NormSays, NormTimes, NormWritten, Early, Late
<1> QED BY <1>1, <1>2, <1>17 DEF NormIInv

LEMMA StutterNorm ==
    ASSUME NormIInv, UNCHANGED N!normalizeVars
    PROVE  NormIInv'
<1>1. cues' = cues /\ given' = given /\ join' = join /\ pass' = pass
  BY DEF N!normalizeVars
<1>2. /\ InOrder' = InOrder /\ Texted' = Texted /\ N!AllSaid' = N!AllSaid
      /\ N!Reflowed(given)' = N!Reflowed(given)
  BY <1>1, InputsStay
<1>3. NormSays'
  BY <1>1, <1>2 DEF NormIInv, NormSays, SaysGiven
<1>4. NormTimes'
  BY <1>1, <1>2 DEF NormIInv, NormTimes
<1>5. NormWritten'
  <2>1. N!NormalizedKeepsText' <=> N!NormalizedKeepsText
    BY <1>1, <1>2 DEF N!NormalizedKeepsText, InOrder
  <2>2. \A i : N!HasNoRoom(i)' <=> N!HasNoRoom(i)
    BY <1>1 DEF N!HasNoRoom
  <2>3. N!NormalizedReadable' <=> N!NormalizedReadable
    BY <1>1, <1>2, <2>2 DEF N!NormalizedReadable, InOrder
  <2> QED BY <1>1, <2>1, <2>3 DEF NormIInv, NormWritten
<1> QED BY <1>1, <1>3, <1>4, <1>5 DEF NormIInv

LEMMA StepNorm == NormIInv /\ [N!NormalizeNext]_(N!normalizeVars) => NormIInv'
<1> SUFFICES ASSUME NormIInv, [N!NormalizeNext]_(N!normalizeVars) PROVE NormIInv'
  OBVIOUS
<1> QED BY ReflowNorm, ExtendNorm, FitNorm, MergeNorm, WidenNorm, ShareNorm, StripNorm, StutterNorm DEF N!NormalizeNext

(* The invariant of the normalize stage (normalize.py).                    *)
THEOREM NormalizeInvariant == N!NormalizeSpec => []NormIInv
BY InitNorm, StepNorm, PTL DEF N!NormalizeSpec

(* While a pass is not the last, the cues say what was given.              *)
LEMMA NormImplies == NormIInv => NormalizedIsWhole
<1> SUFFICES ASSUME NormIInv PROVE NormalizedIsWhole
  OBVIOUS
<1>1. given \in Manifests /\ pass \in {"reflow", "written"} \cup Early \cup Late
  BY DEF NormIInv
<1>2. CASE pass = "written"
  BY <1>2 DEF NormIInv, NormWritten, NormalizedIsWhole
<1>3. CASE pass # "written"
  <2>1. N!NormalizedReadable
    BY <1>3 DEF N!NormalizedReadable
  <2>2. pass \in Early => N!SameContent(cues, given)
    BY <1>1, SaysContent DEF NormIInv, NormSays
  <2>3. pass \in Late => N!SameContent(cues, given)
    BY <1>1, SaysContent DEF NormIInv, NormSays
  <2>4. N!NormalizedKeepsText
    BY <1>1, <1>3, <2>2, <2>3 DEF N!NormalizedKeepsText, Early, Late
  <2> QED BY <2>1, <2>4 DEF NormalizedIsWhole
<1> QED BY <1>2, <1>3

(* The normalize stage keeps words and translations in their order, and    *)
(* what it writes can be read: every cue has time, none overlaps another,  *)
(* and one that is too short had no room (normalize.py,                    *)
(* subtitle_layout.py).                                                    *)
THEOREM NormalizedIsWholeAlways == N!NormalizeSpec => []NormalizedIsWhole
BY NormalizeInvariant, NormImplies, PTL
=============================================================================
