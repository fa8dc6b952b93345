------------------------------ MODULE MimoCalls ------------------------------
(***************************************************************************)
(* The requests of the MiMo proofreading: a pool of tasks, each a request  *)
(* with three loops around it (the fallback without extra_body, the repeat *)
(* of a transient error, the repeat of an answer that is no JSON), in      *)
(* qwen_asr/mimo_requests.py and mimo_proofread.py; and how the requests   *)
(* are counted: by the span of the stage (performance.py), in the report   *)
(* of the phase, and in what the worker shows of it (ci/worker.py).        *)
(* Waiting times, prompts and tokens are left out; a count is modelled by  *)
(* how many requests are missing from it.                                  *)
(***************************************************************************)
EXTENDS Naturals, FiniteSets

CONSTANTS NTasks,      \* the number of segments or batches
          Workers,     \* workers, nearby_audio_workers
          MaxRetries,  \* max_retries
          ExtraBody    \* an extra_body is configured

Tasks == 1..NTasks

(* Whole segments by ear, segments by their text, batches of cues by ear.  *)
Kinds == {"segment", "text", "nearby"}

VARIABLES kind,    \* the kind of request
          main,    \* where the main thread is, until the worker has merged the report
          task,    \* task[t]: its future and the locals of its loops
          missed,  \* requests that were sent and that the open span has not counted
          report,  \* the stage's entry in pipeline_performance.api.json
          shown    \* the worker's entry of the stage

vars == <<kind, main, task, missed, report, shown>>

New == [pc |-> "new", ask |-> 1, attempt |-> 1, plain |-> FALSE, sent |-> 0, row |-> "none"]
Under == {"ready", "asked", "sleep"}

(* A report of an earlier attempt is still in the workspace of a retry.    *)
NoReport == [of |-> "none", missed |-> 0, status |-> "running"]
Earlier(status) == [of |-> "earlier", missed |-> 0, status |-> status]

AtFirst(k) == IF NTasks > 1 /\ k # "segment" THEN "first" ELSE "rest"

Init == /\ kind \in Kinds
        /\ main = AtFirst(kind)
        /\ task = [t \in Tasks |-> New]
        /\ missed = 0
        /\ report \in {NoReport} \cup {Earlier(s) : s \in {"completed", "failed"}}
        /\ shown = [status |-> "running", counts |-> NoReport]
-----------------------------------------------------------------------------
(* The main thread. *)
Settled(t) == task[t].pc = "over"
Submitted(ts) == [t \in Tasks |-> IF t \in ts THEN [task[t] EXCEPT !.pc = "queued"] ELSE task[t]]

(* _submit_with_cache_prewarm: the first request alone, then a pause. *)
SubmitFirst ==
    /\ main = "first" /\ main' = "prewarm"
    /\ task' = Submitted({1})
    /\ UNCHANGED <<kind, missed, report, shown>>

Waited == Settled(1)

Pause ==
    /\ main = "prewarm" /\ Waited /\ main' = "rest"
    /\ UNCHANGED <<kind, task, missed, report, shown>>

SubmitRest ==
    /\ main = "rest" /\ main' = "collect"
    /\ task' = Submitted({t \in Tasks : task[t].pc = "new"})
    /\ UNCHANGED <<kind, missed, report, shown>>

(* What the span writes of itself, and an event of the phase. *)
OwnReport == [of |-> "own", missed |-> missed, status |->
                 IF \A t \in Tasks : task[t].row = "completed" THEN "completed" ELSE "failed"]
Announced(status) == [shown EXCEPT !.status = status]

(* Every future has given its row and the outputs are written: main returns *)
(* 0, whatever the rows, which the phase announces as completed; then the  *)
(* checkpoint of the stage looks at the rows, and the span is closed and   *)
(* written.                                                                *)
Finish ==
    /\ main = "collect" /\ main' = "exit"
    /\ \A t \in Tasks : Settled(t)
    /\ report' = OwnReport
    /\ missed' = 0
    /\ shown' = Announced("completed")
    /\ UNCHANGED <<kind, task>>

(* The process is killed: nothing is reported, the requests are lost.      *)
Kill ==
    /\ main \in {"first", "prewarm", "rest", "collect"} /\ main' = "exit"
    /\ task' = [t \in Tasks |-> New]
    /\ missed' = 0
    /\ UNCHANGED <<kind, report, shown>>

(* _merge_reports, merge_performance: the numbers of the file, whoever     *)
(* wrote it, and its status if no event has told how the stage ended.      *)
Merge ==
    /\ main = "exit" /\ main' = "over"
    /\ shown' = IF report = NoReport THEN shown
                ELSE [status |-> IF shown.status = "running" THEN report.status ELSE shown.status,
                      counts |-> report]
    /\ UNCHANGED <<kind, task, missed, report>>
-----------------------------------------------------------------------------
(* A task. *)
Turns == IF MaxRetries > 1 THEN MaxRetries ELSE 1

(* Replies: an error that is_transient_error takes for a passing one, one  *)
(* it does not, an answer that parse_suggestions can read and one it can't. *)
Errors  == {"transient", "permanent"}
Answers == {"json", "garbage"}

Set(t, new) == task' = [task EXCEPT ![t] = new]
OverWith(row) == [New EXCEPT !.pc = "over", !.row = row]
TaskRest == <<kind, main, report, shown>>

Start(t) ==
    /\ Cardinality({u \in Tasks : task[u].pc \in Under}) < Workers
    /\ \A u \in Tasks : u < t => task[u].pc # "queued"
    /\ task[t].pc = "queued"
    /\ Set(t, [task[t] EXCEPT !.pc = "ready"])
    /\ UNCHANGED <<TaskRest, missed>>

Asked(t, plain) == [task[t] EXCEPT !.pc = "asked", !.plain = plain, !.sent = @ + 1]

Send(t) ==
    /\ task[t].pc = "ready"
    /\ Set(t, Asked(t, ~ExtraBody))
    /\ missed' = missed + 1
    /\ UNCHANGED TaskRest

(* The audio of a segment or of a clip cannot be read: an error as others, *)
(* which is not a passing one.                                             *)
SegmentHasAudio == kind = "segment"
NearbyHasAudio  == kind = "nearby"

Unreadable(t) ==
    /\ task[t].pc = "ready"
    /\ SegmentHasAudio \/ NearbyHasAudio
    /\ Set(t, OverWith("failed"))
    /\ UNCHANGED <<TaskRest, missed>>

(* chat_completion_create: any error is answered by one request without    *)
(* extra_body; what the call has sent is then recorded.                    *)
FallBack(t) ==
    /\ task[t].pc = "asked" /\ ~task[t].plain
    /\ Set(t, Asked(t, TRUE))
    /\ missed' = missed + 1
    /\ UNCHANGED TaskRest

SentByCall(t) == IF ExtraBody /\ task[t].plain THEN 2 ELSE 1
LastOnly(t) == missed - 1
Counted(t)  == missed - SentByCall(t)
Record(t) == missed' = Counted(t)

MoreAttempts(t) == task[t].attempt <= Turns
MoreAsks(t)     == task[t].ask < Turns

(* call_..._with_retries *)
Fail(t) ==
    /\ task[t].pc = "asked" /\ task[t].plain
    /\ Record(t)
    /\ \E error \in Errors :
          Set(t, IF MoreAttempts(t) /\ error = "transient"
                 THEN [task[t] EXCEPT !.pc = "sleep", !.attempt = @ + 1]
                 ELSE OverWith("failed"))
    /\ UNCHANGED TaskRest

(* request_suggestions_with_parse_retries *)
Answer(t) ==
    /\ task[t].pc = "asked"
    /\ Record(t)
    /\ \E answer \in Answers :
          Set(t, IF answer = "json" THEN OverWith("completed")
                 ELSE IF MoreAsks(t) THEN [task[t] EXCEPT !.pc = "sleep", !.ask = @ + 1, !.attempt = 1]
                 ELSE OverWith("failed"))
    /\ UNCHANGED TaskRest

Awake(t) ==
    /\ task[t].pc = "sleep"
    /\ Set(t, [task[t] EXCEPT !.pc = "ready"])
    /\ UNCHANGED <<TaskRest, missed>>

Thread(t) == Start(t) \/ Send(t) \/ Unreadable(t) \/ FallBack(t) \/ Fail(t) \/ Answer(t) \/ Awake(t)

Next == \/ SubmitFirst \/ Pause \/ SubmitRest \/ Finish \/ Kill \/ Merge
        \/ \E t \in Tasks : Thread(t)

Spec == Init /\ [][Next]_vars
-----------------------------------------------------------------------------
(* The loops of a task multiply: what a task may cost is the product of    *)
(* the asks, one more than the asks of attempts each, and two requests for *)
(* an attempt, and it is never exceeded however errors and unreadable      *)
(* answers follow each other.                                              *)
RequestsAreBounded ==
    \A t \in Tasks : task[t].sent <= Turns * (Turns + 1) * (IF ExtraBody THEN 2 ELSE 1)

(* _submit_with_cache_prewarm: until the first request of a pool has come  *)
(* back, with whatever result, no other is under way.                      *)
FirstIsAlone ==
    kind # "segment" => \A t \in Tasks \ {1} : task[t].pc \in Under => task[1].row # "none"

PoolIsOrderly == RequestsAreBounded /\ FirstIsAlone

(* What a run shows of a stage that came to its end are this process's own *)
(* numbers, and no request that was sent is missing from them, whether it  *)
(* succeeded, fell back or failed.                                         *)
RequestsAreCounted ==
    main = "over" /\ (\A t \in Tasks : Settled(t)) =>
        shown.counts.of = "own" /\ shown.counts.missed = 0
=============================================================================
