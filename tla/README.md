# KoeAxis: a verification development

KoeAxis turns radio episodes and videos into subtitles. This directory holds TLA+ models of the parts of it
that keep state, that run concurrently, or that have to survive a kill; TLC configurations that check the
models on small instances; and proofs, checked by TLAPS, that the safety properties hold for every value of
the constants. Paths are relative to the repository. `PROJECT.json` names, for every definition, the lines
it stands for, for every property the run that checks it and a plausible bug that would violate it, and for
every hazard the properties that watch it.

    tlc -workers 2 -config CiRuns.cfg CiRuns.tla          check one configuration
    tlapm CiRunsProofs.tla                                check the proofs of a module

Contents: 1 the system, 2 the modules and how they correspond to the code, 3 the runs, 4 fairness,
5 the proofs, 6 where code and documents disagree, 7 what is not modelled, 8 what is left to do.

## 1. The system

Two programs share one pipeline.

**The pipeline** (`qwen_asr/pipeline_runner.py`, `qwen_asr/commands/`) is a list of stages over one workspace
directory: prepare, transcribe, align, (recovery), correct, split, translate, proofread, realign, normalize,
export, each a read of the manifest before it and a write of its own. Transcribe and align work segment by
segment for hours and can be killed at any point; they keep a manifest, a checkpoint and a journal.

**CI** (`qwen_asr/ci/`) is a control server with a run table and workers that poll it. A worker runs each run
as two child processes, the GPU phase and the API phase, on the same workspaces.

**The web interface** (`qwen_asr/web/`) runs one command at a time on a workspace, and serves a review of the
cues and the manual recovery of segments that could not be aligned.

| Component | State it keeps | Operations | Talks to | What is hard | What makes it correct |
|---|---|---|---|---|---|
| Run table and handlers (`ci/store.py`, `ci/api.py`) | one SQLite row per run; webhook queue | create, retry, cancel, delete, claim, heartbeat, complete, reap | workers over HTTP; thread pool of handlers | every handler reads a row in one transaction and writes in another; lost replies; repeated requests; restarts | a run is started at most once, ends once, ends honestly, and every run ends |
| Worker (`ci/worker.py`) | executors, each with two threads and a child process; `cancelled`, `in_gpu_phase` | poll, claim, run two phases, heartbeat, kill, upload, complete | server; phase processes | the two threads of an executor race over the process; exceptions in either; the worker dies and its children live | a success ran both phases, a cancellation stops it, one GPU phase at a time |
| Phase (`ci/phase.py`) | GPU lock file; workspace | reset_from, recovery, stages | pipeline runner, recovery flow | orphans of a dead worker; two runs in one workspace | the GPU is serial; what was asked to be recomputed is |
| Stage commands (`commands/`, `storage.py`, `artifact_state.py`) | manifest, checkpoint, journal per stage | clear, load or recover, skip, work, write | artifact state, models | a kill between any two writes; a write that is not atomic; three files that disagree | nothing reported is lost, nothing stale comes back |
| Alignment recovery (`recovery_executor.py`, `recovery_service.py`, `ci/recovery_flow.py`) | lock file, aligned manifest, checkpoint and journal, backups, state file, attempts report | execute, retry, verify, localise, accept coarse, undo; the CI flow | web server threads, CLI and CI processes on one workspace | whole lists are read, changed in one place and written back; only executions take the lock; stale locks | executions exclude each other, every change can be undone, coarse timing only where exact failed |
| Blobs (`ci/blobs.py`) | content-addressed files, blob and artifact rows | put, reference, delete | handlers | a file is deleted while it is being referenced again | a row has its file; unreferenced files go |
| Web job (`web/server.py`, `web/job_state.py`) | ACTIVE_JOB, its process and waiter thread, saved job file | start, wait, stop, restart | pipeline processes | stop races the end; restart beside a running process | one job at a time; a job's end is recorded |
| Review (`review_service.py`) | draft, revision, bounded undo, history | edit, undo | web handlers | lost updates between reviewers; the bound of the undo | undo restores exactly; a stale edit is refused |
| Translation (`optimizer/translator.py`, `llm_client.py`) | thread pool over chunks, shared cool-down, partial results | chunk, retry, validate, stop | LLM endpoint | 429s seen by all threads; stop while sleeping; failed chunks | nothing untranslated goes unseen; stop ends all |
| Proofreading (`mimo_*.py`, `quality_suspects.py`, `proofread_realign*.py`) | branch, two reports, summary, checkpoint flags | collect suspects, two-stage pool, resume, apply, realign | audio model, aligner, quality gate | four files written one after another; rows that outlive their run; two judges of one change | no correction lost, gate and stage agree, changed lines are timed anew |
| Preparation and transcription (`vad.py`, `segmenter.py`, `batching.py`, `asr.py`) | windows, audio files, rows, batch limits | cut, batch, shrink, retry, fall back | detector, model | boundaries; memory that runs out at any point; windows cut anew | all speech in a window, every window ends with a row of its own |
| Splitting, timing, normalisation (`optimizer/splitter*.py`, `normalize.py`, `align.py`) | none beyond their files | a dozen passes over cues | stage commands | each pass undoes a little of the one before | times in order, nothing lost, no shorter than need be |
| Pipeline and gate (`pipeline_runner.py`, `final_quality*.py`) | the artifacts | run, resume, force, memory | all stages | each stage resumes by its own rule | resuming passes; what is exported is the whole, latest text |
| Stage page (`web/stage_service.py`, `artifact_state.py`) | none: times of files | show, start one stage | web job | times of direct inputs only | "all done" is true of the subtitles |
| Batches of media (`batch_runner.py`), clips (`clip_planner.py`) | directories and summary; plan file | prepare pool, run, fail fast; plan, refine, adjust, cut | pipeline; ffmpeg | failures while others run; numbers that are not positions | the summary is true; clips hold what they were cut for |
| History glossary (`history_glossary*.py`, `glossary.py`) | rows, glossaries, review, summary; one workspace per episode | pair, run the stages, match, extract, write | stage commands; an LLM | a break between any two writes; files exchanged between runs | what a finished run leaves is of that run alone |

Models, media tools, speaker embeddings, reports of readability and command-line tables have no state
of their own worth a model. `PROJECT.json` lists every component with what is modelled of it and why the rest is not.

## 2. The modules

### CiRuns, RunLifecycle, CiRunsProofs: the run table

`RunLifecycle` is the life of one run as the API promises it: queued, running, one of the final states, and
which steps may take it from one to the next. `CiRuns` is the server with its clients: `run` is the table
(status, `cancel_requested`, heartbeat age, worker, parent), `thread` the requests being served, each
with the row it has read, `exec` the executors on the workers as the protocol sees them. A handler that
reads, decides and writes in separate transactions is two or three actions (`CancelRead`, `CancelWrite`;
`ClaimSelect`, `ClaimUpdate`; `CompleteRead`, `CompleteWrite`; `ReapList`, `ReapWrite`), because FastAPI runs
handlers in a thread pool and SQLite serialises only the statements; a conditional update is one action whose
guard is its WHERE clause. Requests and replies are lost, requests are repeated, workers and the server restart.

*Choices.* `ClaimSelect` takes a worker to claim whenever it has a slot: that it also waits while a GPU phase
is running is left to CiWorker (CiRuns allows more). A worker claims only runs of its presets (`Serves`, `Wants`; none
means all). PATCH changes titles and labels, which are left out, and priorities, which matter to a claim alone: at each
one, runs have any of `Priorities`. The time a heartbeat may be old is one step, `HeartbeatAges`, at any time after the
last heartbeat. Runs, faults and server threads are bounded by constants, all named in the module.

### CiWorker, ExecutorLife, CiWorkerProofs: one worker

`CiWorker` opens up what CiRuns calls an executor: the main thread of `RunExecutor.run`, its heartbeat
thread, its phase process, the events `cancelled` and `_stop_aux`, and the attribute `process` that one thread
sets and clears while the other looks at it and kills it. `ExecutorLife` is the behaviour towards the server
that CiRuns assumes: claimed, working, told to stop, reporting one outcome, gone. `ImplementsLife` says that
every executor of CiWorker behaves so. With CiRuns over RunLifecycle this gives a chain from threads and
processes up to the API.

*Choices.* A phase may take and release the GPU lock any number of times (the code: at most twice). Killing a
process tree is one step (the code: SIGTERM, up to 20 seconds, SIGKILL). What is uploaded and logged is left
out, that uploading may raise is not.

### CiBlobs, WebProofs: the files of the CI server

Contents lie under their hash, rows with ids name them, runs and artifacts hold ids. Each request is a sequence
of single accesses to disk and database: `put` hashes, looks whether the content is there, moves or drops its
copy, adds a row; `delete_run` removes the run, asks what of it is used elsewhere, removes rows and then contents.
The one unprotected window, between the look at what uses a content and its removal, is recorded in `raced`:
`BlobsKept` says that nothing else loses a file. `BlobSpec` is the machine by itself. Logs are left out.

### StageJournal, StageJournalProofs: transcribe and align under kills

For each of the two stages: manifest, checkpoint and journal, each absent, whole or torn, over a few segments.
The actions follow the commands: `Start` (with `reset_from` or `--force`), `Clear`, reading or restoring the
manifest, skipping, then per segment the append to the journal, the checkpoint and the manifest, then the exit
code. `Crash` may come between any two; `TearManifest` and `TearCheckpoint` are `write_json_atomic` falling back
to writing in place after a PermissionError and dying there.

*Choices.* The journal is abstracted to the last event per segment, which is all that recovery uses; a torn
last line, `--no-resume`, the check of `alignment_backend` and a prepare that cuts other segments are left out.
What the model makes of a segment is any of `Outcomes`.

### Segmentation, Transcription: from a recording to rows

`Segmentation` computes the windows of a recording: speech regions and silences of the frames the detector marks,
cuts of long regions at silences, dips of loudness or the limit, merging of short windows, padding.
`Transcription` runs prepare and transcribe over one workspace: the adaptive batches (the next one is the longest
windows of the lowest bucket of durations, as many as the limits let), what happens when memory runs out (the limits shrink, down to a window alone), when a result is short, copies its prompt or fails, and the
rows that are left, after any sequence of commands with and without force. A frame is two ticks so that the
middle of a silence is a tick; loudness has two levels. Files and kills are StageJournal's. `excused` remembers what
`prepare` left behind of other windows (section 6).

### AlignTiming: times of one aligned segment

The aligner's answer is judged (`Reliable`: order, runs without time, coverage), squeezed tokens are spread between their
neighbours, and what stays unreliable is heard again in short windows and put together. Half milliseconds and
float ties are abstracted. `RepairIsHonest` has two parts. `RepairIsLocal`: a repair moves only squeezed tokens and their
window, keeps order and the words; `AlignedKeepsContent`: an aligned row is in order and says what its text says, unless
the text has no letters (section 6). `MCTranscription` hosts it beside the recordings.

### AlignRecovery, AlignRecoveryProofs, RecoveryTimes: recovering what align rejected

Processes (a CLI call, a web handler, the flow of a CI run) work on one workspace. `disk` holds the aligned
manifest, checkpoint and journal, `lock` the lock file with whether its owner lives and whether a pid is in it,
`backups` the backups in order, `saved` the state file of the web actions, `report` the attempts of the CI
flow, `proc` what each process does and has read. `Look`, `Unlink`, `Create`, `Stamp`, `Unlock` are the lines of
`_execution_lock`; `Read`, `Reject`, `Backup`, `WriteManifest`, `WriteCheckpoint`, `AppendEvent` those of an
execution; coarse acceptance and undo go from `Check` through `Reread` to the same writes, without the lock;
`Save` writes the state file as it was read before. `Clear` to `FlowEnds` are `run_alignment_recovery`.
`RecoveryTimes` has the same operations as times: clips, the guard against neighbours, stated or heard coarse
bounds, proposals and undo. Only MFA and coarse rows are guarded against neighbours (`_execute_qwen` is not).
`raced` notes the two ways by which checked times come to stand beside others than they were checked against: rows that
changed between a proposal and its acceptance, and an undo (`reverted`) of an execution whose old list overwrote both
a row accepted meanwhile and a neighbour of it.

*Choices.* Whether a result is exact is nondeterministic. The view and the state file are read in one step, as
are `exists` and `stat` of the lock. Regions of music, the audit trail and the prefetch of MFA results are left
out. A lock grows old only while a model runs or after its owner died. `robbed` and `clash` are bookkeeping:
who lost the lock to another, and whose list was overtaken by a writer without lock.

### MfaExperiment: lines that reports doubt

The second way MFA is used: rows of five reports become candidates, doubles are dropped, those that failed go first,
each is cut and aligned up to the limit, guarded locally and against the score known before, and with
`--mfa-local-writeback` moves its line in a copy of the split manifest. Texts are members of a set with a table of how
alike they are. `WritebackIsJustified`: a line of the copy differs only where a run that passed both guards says so, no
candidate that failed waits while another is taken, and the items tell what was done. `MCAlignRecovery` hosts it.

### AlignedTokens, CueRules, SplitStage: from aligned tokens to cues

`AlignedTokens` is what the adapter makes of any aligned manifest: one token per piece, each with a duration, none
before the end of the one before. `CueRules` has the rules as operators, `SplitStage` runs the passes of
`run_split_stage` one action each, in their order, with the guards at the end and the optional cuts between
speakers and merges an LLM proposes. A word is an id and a kind of text: the kinds are what the passes tell apart.
Times are ticks; the constants keep the order of the code's thresholds. `SplitIsSound` says that the stage's own guards
pass (`GuardsHold`; `CutShort` and `Repeated` in it are the two cases in which they do fail the stage, section 6) and that
the times are in order and use the silence there is (`TimesAreSound`).

### Realign, Normalize: times after the split

`Realign` takes a line whose words changed through its strategies (Qwen, MFA, kept timing) with clips, the cache
of candidates and `timing_candidate_guard`, line by line, and once more for kept ones; `blind` notes the cues placed
while a later one began at 0, which the guard takes for no neighbour. `Normalize` has the passes
of `normalize.py` with and without joining of fragments; how time is shared inside a split cue follows the letters, or what
the aligner heard. `NormalizedIsWhole` says that the passes keep every word (`NormalizedKeepsText`) and what the times are
like at the end (`NormalizedReadable`), both where sentences begin in their order; words are kept in any case.

### Translation, MimoCalls, TranslationProofs: model calls from a pool of threads

`Translation` is the thread pool, the agent loop of each chunk, the classes of errors and their delays, the
shared cool-down, the stop, and the manifest. Delays are counted in units and `Tick` lets one pass at any time, so that
two threads may both be due. `MimoCalls` is the pool with its first request alone, the
three loops around a request, and every count that is made of it, as the number of requests missing from it. A pool
has a task at least: none is made otherwise (`mimo_proofread.py:148, 431, 481`).

### SuspectMarks, QualitySuspects, SuggestionGuards, Proofread, ProofreadProofs: review by ear

`SuspectMarks` is how suspicions merge into a line's marks, `QualitySuspects` how rows of quality reports find
their lines, all or nothing, and again after a kill; `SuggestionGuards` what a suggestion may change, judged by the
guards of the stage and by the gate. `Proofread` composes them: branch, two reports, summary and the flags of
realignment; commands of review in two modes and two scopes, with and without resume, retranslation,
suspects of reports, realignment, and kills between any two writes; `CheckpointPasses` and `RealignPasses` are the
gate's checks. Lines of one segment that follow each other within `MaxGap` are cut into requests of `BatchSize` by their
place in the run, which is what the code's loop over the sorted lines comes to. A translation has a line at least
(`mimo_proofread.py:55` raises). `excused` notes the ways by which stale rows defeat the gate's counts (section 6),
each only where it can: a kill only between a review's reports and the summary that would count them, and of a review
begun anew only over completed rows of an earlier one. Whether the translation has keys for marks at all is `noted`, apart
from what they say. Realignment takes all lines that wait or the first `--proofread-realign-max-items`; without the
recording it writes its report only (`RealignWithoutAudio`).

### Pipeline, Batch, ClipPlan, PipelineProofs: whole runs, batches and clips

`Pipeline` is a workspace over several commands, each a list of stages, a mode (resume, force, plain) and a program
memory, built as the page builds it (`FromPage`) or as the shell gives it. Every stage has its own
rule to skip, clear and write; `Gate` has the checks that can stop a run; `Kill` comes between any two writes. A
text is known by the command that transcribed it and whether it was corrected. `excused` holds a failed segment
or translation, a command that redid single stages or left out an alignment that was broken off (`LeavesOut`), and the
four places where a kill leaves a mark no resumed run removes (`Mark`); a forced run of all stages clears it. `Batch` is
`batch-run` around such runs; a directory is a name and the numbers `_unique_workdir` has put behind it. `ClipPlan` is
`radio_clips.py`: a plan from any answer of the model, refinements, any number of adjustments, and two cuts, each clip by clip:
`SkipClip` where one exists, else `CutClip` and then `WriteSubtitle`. ffmpeg may fail with half a clip or none (`CutBreaks`), a
subtitle may be written in part, the command may be killed between two files (`CutIsKilled`). `broken` are the clips at which
a cut broke off since they were cut, `bare` those cut last without the whole of a subtitle. One plan is made; the length of the
medium does not change.

### HistoryGlossary: terms from earlier episodes

`discover_history_pairs` (two files of one number: either), `_run_episode_pipeline` with the audio, the segments heard and
the split each episode's directory keeps over runs, then the match of each line with up to four cues in a row, or with
tokens where the cues say little, by the score of `history_glossary_matching.py` in parts of 1000. Terms come from the
rules (frequency, curated exceptions) or from what a model answers; the files are written in the order of
`cmd_history_glossary`, rows first. `Lose` (a kill or anything that raises) comes between any two steps. `HistoryIsTrue`
compares what a finished run left with a plain reading of it: each line once, no better run of cues, terms seen often
enough with a translation no other surpasses, a review of exactly the rest. Words have a length and a kind;
the limit of 160 candidates, the notes of an entry and the spreadsheet format are left out.

### WebJob, WebReview, Web, WebProofs, StagePage: the web interface

`WebJob` has the job under `JOB_LOCK`, its waiter thread, the stop request, and `job.json`, which views correct
without the lock, over restarts. `WebReview` has the draft with revisions, the bounded undo stack, backup and
audit. `Web` composes them: a job rewrites the source of a draft, deleting a workspace takes it along, a crash
ends both. `StagePage` is what the page shows: files known by when they were written and by the alignment
they come from, stages started from the page or with options, each broken off between any two writes, and `dirty`, a
draft with edits, which makes the stages that would read it outdated. Normalize and export take their source as `auto`
does; a source chosen by hand may well be of an older alignment.

### MC modules

CiRuns, CiWorker and StageJournal need no more than their cfg. `MCAlignRecovery`,
`MCTranslation`, `MCCues`, `MCProofread`, `MCWeb`, `MCPipeline` and `MCTranscription` give the inputs, and all but `MCCues`
host machines that meet only in files beside one another: a behaviour is one of one machine, the others idle, so one run
checks several. `MCTranslation` hosts `Normalize`, which shows the translated cues.

## 3. The runs

| Run | Instance | What it shows |
|---|---|---|
| `ci_runs` | two runs, two priorities, one worker with one slot, two server threads, no faults | the table is honest under every interleaving of handlers; `CiRuns` implements `RunLifecycle` |
| `ci_runs_live` | a run and its retry, two presets, an unreliable worker and a reliable one that takes one of them, one thread, one fault, fairness | every run the reliable worker takes ends, also after a lost reply, a crash or a restart |
| `ci_worker` | two executors, two runs, one crash, fairness | serial GPU, one GPU phase, honest success; refinement of `ExecutorLife`; every executor ends |
| `stage_journal` | two segments that fail or succeed, one request to recompute, any number of crashes and tears | nothing reported is lost; a stage that ended well is complete, and fresh if forced |
| `stage_journal_reset` | two segments, transcripts that may be blank | violation: `reset_from` does not recompute (section 6) |
| `align_recovery` | two segments, two processes, any two operations, one crash; two padded segments, six writes; two doubted lines, rows of five reports | every change leads back, executions exclude each other and lose no update of each other; recovered times stay apart; what the experiment moves is justified |
| `transcription` | all recordings of nine frames with at most one quiet place, two limits; three of them transcribed, five commands, two memories; rows of up to six words aligned | all speech is in a window; a row is of its window; every window ends; repairs are local and keep the text |
| `translation` | three chunks on two threads, two attempts; three requests on two threads, two retries; two or three cues to normalise, of up to three sentences | nobody passes a 429; the manifest is honest; the stage ends; requests are bounded and counted; normalised cues have the whole text and times that can be read |
| `cue_times` | some ten thousand inputs of the split stage | replies and content survive all passes, times stay in order and use the silence there is |
| `proofread` | two lines and an empty segment, three commands, two of them reviews, one kill; two lines with all single rows of a report and mixed pairs; two or three cues to realign, two runs | gate and review agree; nothing applied is lost; changed lines are timed anew; suspects find their line; realigned cues stay apart |
| `pipeline` | two segments, one tolerable, seven kinds of command, three commands, one kill; four media, three directories, two prepares; four cues, two candidates, two cuts that may break off; two glossary runs, two episodes of up to two segments, six lines | a resumed workspace passes the gate and exports the whole text; the summary of a batch is true; clips and subtitles that were written hold their cues; a glossary run leaves only its own |
| `web` | two jobs, two users, two cues, undo of two; two contents, two requests; five commands from the page | one job, its end is true; undo leads back; files are kept; "all done" is true |

*Why these bounds are enough to be worth checking.* The races of the run table are between two handlers over
one row, or two rows that compete for one worker: two threads and two runs have them all. Retries relate a parent
to a child, hence two. StageJournal needs two segments for "one is there, the other is not", and bounds neither
crashes nor tears. CiWorker relates two executors over the GPU and two threads within one; a crash makes orphans
that a second generation of executors meets. In AlignRecovery a list has two segments so that a write can revert
another's, and two processes of which one may be a whole CI flow; the initial states include one in which a
segment was recovered before. Of two padded segments six writes are needed: with five no undo of an execution
that wrote back an old list can come between two neighbours. Translation has more chunks than threads, so that one waits for the pool, and delays
that grow once and meet their maximum. A pass over cues looks at the cue before and the one after; three to five
tokens with every kind at every place, and silences on both sides of each threshold, give every pair of rules a
meeting; a cue of two or three sentences that the next one overlaps gives them an order of their own. Proofread's lines may share a request, two reviews are one that is broken off and one that resumes, a third command meets what they left behind, and one kill is one more than the gate
expects. Pipeline's three commands are one that leaves something, one that is broken off and one that resumes. Web's undo
stack is shorter than the edits allowed; the page has the whole chain of stages with one rerun out of order and
more. Transcription's memories let every batch fit, or hardly more than one window, and any batch of several may run out; five commands are what it takes to
hear an audio file of other windows and then remove it. Where the proofs of section 5
cover a property the bounds do not matter; for the rest they do.

## 4. Fairness

`CiRuns!FairSpec`: a handler that has begun goes on (weak fairness: threads are scheduled); a worker that
polls for ever is served eventually, as is an executor with a report, and the reaper's loop comes round (strong
fairness on claiming, completing and reaping, because each is disabled for a while by every other request that
holds the only thread). Time passes too: the affinity window ends and a silent executor's heartbeat ages (weak
fairness). Nothing is assumed of users or of unreliable workers: `Reliable` are those that do not crash.
`EveryRunEnds` thus says: as long as a worker that takes a run's preset keeps polling (`Served`), no sequence of lost
replies, restarts and crashes leaves that run queued or running for ever. A queued run whose preset no worker takes waits until
one does or it is cancelled. It takes it that executors report or die; section 6 has the exception.

`CiWorker!FairSpec`: the two threads of an executor go on (weak fairness); a phase process ends if it does not
wait for the GPU (strong fairness: it may be given and denied turns on the GPU meanwhile, but turns are finite);
the free GPU is taken by someone who waits for it (weak fairness). Nothing is assumed of cancellations or crashes.

`Translation!Fairness`: time passes, each thread and the main thread go on (weak fairness each). Nothing is assumed of
the provider or of the interrupt. `Transcription!Spec`: the command that runs goes on (weak fairness on `Run`); memory
may run out at every batch of several windows. The other modules state safety only.

## 5. The proofs

Each proof module extends the module it is about, defines an inductive invariant, shows that the initial
states satisfy it and every step preserves it, and derives the properties. The assumptions are those on the
constants in the modules.

* `CiRunsProofs`. The invariant ties what a handler has read to what the row may have become since (a row that
  was final is still so, a row that was running was claimed, ...). It proves types, `RowsAreHonest` (its parts
  `CancelledWasRequested`, `SuccessIsHonest`, `ParentIsOver` each on their own) and `AckedRunIsOver`. Without what
  handlers have read the properties are not inductive: `CompleteWrite` and `ReapWrite` are unconditional
  updates, and only the order in which reads and writes can fall saves them.
  The same module has the refinement: every step of CiRuns is a step or a stutter of RunLifecycle for each run; a
  final row is frozen but for a writer that read it as active (`FinalRowFrozen`); `EndIsAnnounced`.
* `CiWorkerProofs`. The invariant ties `in_gpu_phase`, the last process and its code, and the outcome to the
  place of the main thread. It proves types, `WorkerIsOrderly` (`GpuIsSerial`, `OneGpuPhase`, `SuccessRanBoth`),
  `NoPhaseAfterCancel` and the refinement of `ExecutorLife`.
* `StageJournalProofs`. The journal is never deleted, and everything in the manifest, in the checkpoint or in
  memory is in it; while one of manifest and checkpoint is being written the other is whole; a forced stage
  starts from an emptied manifest. From this: types, `ReportedIsKept`, `EndedIsWhole` (`AlignedMeansComplete`,
  `ForcedIsFresh`), `ResumeKeepsRows`. About Transcription, as `MCTranscription` instantiates it: `WindowIInv` says that audio files
  and rows are of their windows but for what prepare left behind, and that what is being transcribed has an audio file;
  what is heard from a file left behind is a row left behind. Hence `RowIsOfItsWindow`, for any recording, windows, modes
  and commands. The attempt found the sequence of five commands of section 6. Of the windows themselves: the regions hold
  every frame the detector marks, a cut at silences or at the limit divides a region without a gap, merging and padding
  only widen; each is a recursive function, about which is proved by induction what it keeps. Hence `SpeechIsHeard`,
  for any recording, any frames and any limits that `TranscriptionAssumption` allows. Of AlignTiming: the times a repair
  spreads add up to the room they share in spite of the rounding, and it keeps this run of squeezed tokens by run; what is
  put together from windows is judged before it is kept. Hence `RepairIsHonest`, for any words and any answer of the
  aligner (`AlignTimingAssumption`: times are natural numbers, the thresholds are positive).
* `AlignRecoveryProofs`. About AlignRecovery three parts. Every backup number in a file or in a process is that of a
  backup made, and the rows in the n-th backup name only earlier ones: hence `Reversible`, and that an undo finds the
  backup it reads (types alone are not inductive). The lock file names every execution that was not robbed of it:
  hence `ExecutionsExclude`. And an execution that holds a list has it as on disk, or was told otherwise: hence
  `ListIsFresh`, where the step of another writer is excluded by the second part. About RecoveryTimes, as
  `MCAlignRecovery` instantiates it: `RecoveredApart` says nothing of the list an execution still holds, nor of the rows
  an undo would bring back, and is not inductive. `TimesIInv` says of each such list that its rows and those that
  may come back suit their neighbours, and that a guard passed against a row is passed against the one that may take its
  place, as a row with tokens counts with its whole segment. `MfaIInv` of MfaExperiment: types, that no candidate that failed
  is left behind one that did not, that an item called applied has a run that passed, and that the file is the draft; hence
  `WritebackIsJustified`. `TimesAssumption`: bounds are natural numbers, a segment
  has a duration, the tolerated overlap is not negative. The attempt showed that the property as it stood failed
  with six writes (`reverted`, section 6).
* `WebProofs`, of the web interface and the files of the CI server. `JobIInv` ties each waiter, stop request and view of the saved job to what it knows of the process: it gives
  `OneJob` and `SavedEndIsTrue`. `ReviewIInv` ties each entry of the undo stack to the cues its edit found, and the draft to
  the source it was made from: hence `UndoLeadsBack`. Types of both together (`WebTypeOK`). `BlobIInv` says of each request what its next access may rely on: a content between its arrival and its
  row, an id between two tables, a deletion that has asked and not yet removed; every blob has one owner. Hence
  `BlobsKept`. Of the page, `PageIInv` says that a file newer than one it is made from was made from that one as it is
  (the normalised subtitles from MiMo's where there are any), that a stage that runs leaves alone what it reads, and that
  MiMo's subtitles, which realignment writes again, are known by the report beside them and removed only after the
  translations. Hence `PageIsTrue`, for any number of stages, with any
  options, broken off anywhere.
* `TranslationProofs`. `StageIInv` ties the place of a chunk in the agent loop to its attempts, result, delay and the shared
  cool-down: hence types, `ManifestIsHonest` and, as an action property, `HeldBack`. `CallsIInv` counts what each of
  the three loops of a task has sent: hence `CallsAreOrderly`. `CallsAssumption`: there is a task, retries are natural.
  Of Normalize, as `MCTranslation` instantiates it: `NormIInv` says of each pass what the one before left it. Of the words:
  what the cues tell, one text after the other, is what was given (`Told`; a fold for each pass, where what a step leaves
  pending counts with what it has put out), until the marks go, which have no letters. Of the times, where sentences begin
  in their order: after the fit no cue overlaps the next and one that is too short touches it (`Chain`), after the merge
  each has time (`Timed`), after widening a short one touches what is before it too or begins at 0 (`Tight`), and after
  sharing neither neighbour of a short one has time to spare (`NoNext`, `NoPrev`: what a later move takes makes no cue
  short that was not). Sorting is a permutation (`RanksAre`) and leaves cues that are apart as they are. Hence
  `NormalizedIsWhole`, for any cues and parameters. `NormalizeAssumption` has what the code checks of its parameters, and
  of the cues what reading them makes sure of. Induction over cues is over a set of numbers (`Induction`, by the least one
  outside it), as is the existence of a fold (`FoldHolds`).
* `ProofreadProofs`. `IInv` relates the four files, what the running command holds of them, the tasks in flight and the
  marks of the translation, apart for each kind of command and each point between two writes: a row on disk is of the
  translation as it was, the branch has what the report calls applied or is about to, the summary counts the reports it
  was made of. Without it none of the three properties is inductive, as each compares files written at different times.
  Relative to it `CountedInv` says that what is put to review is counted before any of it is heard: the gate's count, which
  does not ask whether the stage is complete, is of the suspects whose rows it finds.
  It gives `AppliedIsKept`, `ChangedIsRealigned` and `GateJudgesReview`; lemmas on the way: requests divide the lines
  they are made of (`BatchesDivide`), and no outcome of the guards is one the gate would refuse but for those
  section 6 names (`OutcomesAreUndisputed`). `ProofreadAssumption` has only what the code checks or the module's types say.
  Of `Realign`, `RealignIInv` is the property itself with what it needs of the times: integers that are not negative, also
  those MFA left or the cache holds. `GuardIsTrue` says what `timing_candidate_guard` makes sure of beside the cues as
  they are, every other way to a range (clamped, extended, shown within the old one) gives a part of one that passed or
  passes it again (`ClampedSuits`, `WithinSuits`), and a cue that keeps its times is at worst given one millisecond; hence
  `RealignedApart`. `RealignAssumption`: the tolerance is not 0, times of a manifest are milliseconds from 0. The attempt
  showed that the property failed beside a cue that begins at 0 (`blind`, section 6). Of `QualitySuspects`, `SuspectsIInv`
  says of the marks in the file and of those the command holds that each is of a row that speaks of the line, and
  that what has been read is noted; with what `_nearest_subtitle` finds (`NearestIsNearest`) and what its distance
  means (`DistanceIsGap`: it may be negative) it gives `SuspectsFindTheirLine`, for any finite set of lines and any
  reports whose rows do not end before they begin (`SuspectsAssumption`).
* `PipelineProofs`. `Sound` says how the artifacts of a workspace with nothing excused agree: each is of the rows of the one
  before, in its latest form. A stage between two writes breaks it, so that `IInv` says it not of the disk but of the disk as
  it will be when the writes still owed are made (`Settled`), ties place, rows to do and stages left to what is
  there already (`Progress`), and says of a forced run of all stages, which excuses everything before it, what it has made
  again (`Fresh`). Hence `ResumePasses` and `ExportIsWhole`, for any segments and any commands that
  `CommandsAssumption` allows: one stage, or stages in the order of `stage_names_for_run` from transcribe to export. A
  kill needs one case only because `Settled` forgets what was owed, and `Mark` names the four places where that matters. The
  attempt showed that both properties failed for commands without align (`LeavesOut`, section 6; a whole alignment that
  such a command does not clear is not excused: `Spared`). Of the batch, `BatchIInv`
  ties rows to prepares and runs, and the written summary to the rows; that a free number is always found (`UniqueIsFree`)
  is the pigeonhole principle. Hence `BatchIsTrue`. `BatchAssumption`: there is a medium and a thread. Of the clips,
  `ClipsIInv` says that every range planned, cut or shown is one of cues there are with the times the cut rule gives it
  (`IsCandidate`), but for the clips at which a cut broke off, and that a subtitle not in `bare` is the slice of the clip beside
  it; `WindowIsWhole` and `SliceIsWhole` say what the cut rule and `slice_cues` make of any such range.
  Hence `ClipsAreWhole`, for any cues, also unordered ones. `ClipPlanAssumption`: times and rolls are not
  negative, and `MIN_SLICED_CUE_S` is not below the shortest cue shown. Of the glossary, `HIInv` says while a run goes
  that the rows found so far are those of the episodes passed, each matched in what its directory holds, and that the file
  is those rows but for the unsaved ones; and of each later file that it is made of these rows. What the rows and terms
  are is proved of the functions that compute them: the first best window is one no other surpasses (`FirstBestIs`), a sorted
  set is a sequence of it in order (`OrderedIs`), a term is seen as often as the rows have it (`TermsSeen`), the review
  has the candidates that are no terms (`ReviewIs`). Hence `HistoryIsTrue`, for any words, directories, options and
  answers, broken off anywhere. `HistoryAssumption`: numbers are numbers, a directory is finite.

The chain of refinements and these invariants hold for any number of runs, workers, threads, segments, lines, jobs,
users and crashes, and TLC checked each inductive invariant on small instances as well (`NormIInv` on a part of the
manifests). Only model-checked are:

* liveness (`EveryRunEnds`, `EveryExecutorEnds`, `StageEnds`, `EveryWindowEnds`), which the prover does not handle;
* `SplitIsSound`: a dozen passes whose thresholds matter in their relation to each other. That they are recursive functions
  is no obstacle in itself (`NormalizedIsWhole`, `SpeechIsHeard` and `HistoryIsTrue` are about such functions); their number is.

## 6. Where code and documents disagree

One is a run: `ResetRecomputes`. `reset_from` deletes outputs but neither checkpoint nor journal, from which the
stage recovers what it was to recompute.

The others were met while modelling; the models have the code's behaviour, and where a property would otherwise
fail, its statement names the exception.

*CI.* `cancel_run` decides from a row it read before its update whether to send `run.finished` (`ci/api.py:554-559`);
after a claim in between it announces the end of a run that has just begun, against docs/CI.md:154. A cancellation
heard between the main thread's check and the start of its process kills nothing and is never looked at again
(`ci/worker.py:325`; docs/CI.md:93, 142). An exception in `upload_artifacts` (`ci/worker.py:506`) ends the executor
without stopping its heartbeats: the run stays running for ever (docs/CI.md:213 relies on the heartbeat). The
report of a phase is not removed before the phase is repeated (`ci/worker.py:409`): the figures of the
earlier attempt are shown. Blobs of media and inputs of deleted runs stay, replaced artifacts leave theirs, and a
content may be lost to the race CiBlobs notes (docs/CI.md:90).

*Recovery.* An execution writes back the list it read minutes ago and reverts a coarse acceptance of another
segment made meanwhile (docs/PIPELINE.md:37; `recovery_executor.py:67, 154`). Attempts refused because of the lock
let a segment pass to coarse timing untried (`ci/recovery_flow.py:4` against `:60`). An execution that overwrites a coarse
row of its own segment, accepted meanwhile, and with its old list also reverts the neighbour, makes a backup of rows that no longer
stand: an undo brings back one of them beside a neighbour it overlaps (`recovery_executor.py:135, 154, 196`). Exact rows of Qwen are not
guarded against neighbours; bounds stated by a user may leave the speech that was heard (docs/PIPELINE.md:27).
A repair of squeezed tokens may take up to four neighbours, docs/PIPELINE.md:36 says three. A transcript without letters
is accepted whatever the windows of the fallback said (`commands/align.py:325`).

*Transcription.* With an overlap all windows merge into one (`segmenter.py:247`; README.md:195). Preparing again
leaves rows, and without force audio files, of other windows. Transcribing by force then does not help: it hears the old audio
files, and the rows of it stay when `prepare --force` has removed those (`audio.py:209`, `commands/transcribe.py:18`).

*Translation.* An empty dictionary of results is a success (`translator.py:556` against `:215` and `:412`): the
manifest has no translation and the gate must tell. `max_retries` retries give one more attempt, doubled by the
fallback without `extra_body`; an empty answer is not counted as a request.

*Proofreading.* Report rows of a translation survive `translate --force` (`mimo_checkpoints.py:38`; README.md:408):
lines reviewed before get no request and pass the gate with new words. The gate counts completed rows: a killed run
over all lines passes while suspects are unreviewed, a failed row of an old run blocks for ever, as do an id no
segment covers and a suspect that is about timing only. A change applied although the ASS score fell from a high one,
or with content lost and the score no better, is refused by the gate for ever. Suspects merged in another order give other marks (timing only first, then review: both are
kept; the reverse never sets the realignment). A line whose words changed is cleared with the timing of the old ones when the
last change was of its marks only. The guard of realigned times takes a later cue that begins at 0 for none
(`proofread_realign_strategy.py:105`, `next_start or end_ms`), and with it all that follow: the cue may fall on any of them.

*Pipeline and page.* Split asks of an alignment whether the rows it has are good, never whether all are there
(`optimizer_bridge_adapter.py:551-580`), and takes its text where there is no transcript: after an alignment that was broken
off, a command without align makes subtitles of half a recording, which the gate then refuses. A segment that failed in one run and was resumed in the next is missing from an existing split
(`commands/split.py:43`; README.md:13). `--no-resume` over a finished workspace is stopped by the gate (README.md:303).
A run without translation, then with it, keeps the untranslated normalized manifest. A resumed run with a memory skips
the memory when the manifest is there. On the page an outdated stage can never be made again, exporting only SRT leaves
the export outdated, and the job and progress shown may be another workspace's.

*Splitting.* A reply at the end of a cue longer than the cap, or repeated replies, fail the stage by its own guards; a
speaker's cut inside a token may place a piece past the next cue's start (README.md:253; `splitter_display.py:93`).
Where the next cue begins before a later sentence of a cue does, that sentence gets no time and its text goes to the next
cue (`normalize.py`, `_merge_non_positive_segments`): [0, 1200] with two sentences and [300, 700] become [0, 600] and
[300, 1050], still overlapping; of three sentences in [0, 1800] before [300, 700] the third is shown before the second.
A cue whose own text is punctuation only loses its translation when normalised; export truncates to two lines (`subtitle.py:183`; README.md:204-208).

*Batches and clips.* With `fail_fast` media whose prepare was not waited for stay pending, and a killed batch leaves
the summary of the one before. An existing clip is kept without `--overwrite` also after `--adjust`,
and one cut again without `--with-srt` keeps the subtitle of the earlier cut (`radio_clips.py:150`; `bare`). So does one whose
cut was killed, or failed, before its subtitle was written; and what ffmpeg left of a clip when it failed
(`clip_planner.py:283`) is a clip that exists for the next command, which skips it (`radio_clips.py:146`; `broken`).

*History glossary.* Nobody looks at what the stages of an episode return (`history_glossary.py:432`): where a segment
failed, the split of the others stays for good, and so does the audio of a recording that was exchanged. Without
a term the normalized glossary of an earlier run stays beside the empty new one (`:159`). What a model answers need not
be among the pairs it was given.

## 7. What is not modelled

Everything `PROJECT.json` marks `not_modelled`, and the parts its notes name. Neural models and external programs
(their results are nondeterministic inputs), text rules below the kinds of words, prompts and line breaking (data
without shared state), authentication, settings, pages and progress figures, experiments, tools and scripts (not part
of the program that runs), comparison with ASS files. Two processes of a
pipeline in one workspace are possible after the reaper has given a run up; StageJournal and Pipeline assume one.

## 8. What is left to do

1. A proof of `SplitIsSound`: what each pass keeps, by induction over the cues it has been through, as for `NormalizedIsWhole`.
2. Two StageJournals over one workspace, and a journal with a torn last line.
