------------------------------ MODULE StagePage ------------------------------
(***************************************************************************)
(* The page of a workspace (web/stage_service.py, artifact_state.py) and   *)
(* what it is about: single stages are started from the page, where they   *)
(* are always resumed (web/stage_start_service.py), or with any options    *)
(* (POST /api/start, web/commands.py), and rewrite or unlink the files of  *)
(* a run that was finished before.  The page compares the times of files.  *)
(*                                                                         *)
(* A file is known by when it was written and by the alignment its cues    *)
(* come from; a gate report by whether it says FAIL (0) or not (1).  One   *)
(* process works on the workspace at a time (WebJob), so what a stage is   *)
(* going to do is settled by the files it starts from; it may fail or be   *)
(* killed between any two of its writes.  Segments are one: what happens   *)
(* to some of them only is StageJournal and Pipeline.  The sources of      *)
(* normalize and export are "auto", the default of settings and payloads:  *)
(* on request they are any older file, which may well be of an older       *)
(* alignment.  recover-align is AlignRecovery; the files of the program    *)
(* memory, of speakers and of the layout report are nobody's input.        *)
(***************************************************************************)
EXTENDS Naturals, Sequences, FiniteSets

CONSTANT MaxJobs        \* bound: stages that are started

VARIABLES files,        \* [at, of] of every file, at = 0 if there is none
          dirty,        \* the review draft holds edits (_review_draft_is_dirty)
          jobs,         \* stages started
          todo          \* what the running stage has still to do to the files

vars == <<files, dirty, jobs, todo>>
-----------------------------------------------------------------------------
(* STAGE_DEFINITIONS *)
Stages == {"prepare", "transcribe", "correct", "align", "split", "translate", "mimo",
           "realign", "gate", "normalize", "export"}

Inputs == [prepare |-> {}, transcribe |-> {"segments"}, correct |-> {"transcript"},
           align |-> {"transcript"}, split |-> {"aligned"}, translate |-> {"split"},
           mimo |-> {"translated", "segments"}, realign |-> {"mimo"},
           gate |-> {"transcript", "split", "translated", "mimo"},
           normalize |-> {"transcript", "split", "translated", "mimo"},
           export |-> {"transcript", "aligned", "split", "translated", "mimo", "normalized"}]

Outputs == [prepare |-> <<"audio", "segments">>, transcribe |-> <<"transcript", "text">>,
            correct |-> <<"corrected">>, align |-> <<"aligned">>,
            split |-> <<"split", "splitSrt">>, translate |-> <<"translated", "translatedSrt">>,
            mimo |-> <<"mimo", "mimoReport", "mimoSrt">>, realign |-> <<"mimo">>, gate |-> <<"gate">>,
            normalize |-> <<"normalized", "normalizedSrt">>, export |-> <<"srt", "vtt">>]

Any == {"gate", "normalize", "export"}      \* one of the inputs is enough

Exists(f) == files[f].at # 0
Of(f)     == files[f].of
Written(st) == {f \in {Outputs[st][i] : i \in DOMAIN Outputs[st]} : Exists(f)}

MissingInputs(st) == IF st \in Any THEN \A f \in Inputs[st] : ~Exists(f)
                     ELSE \E f \in Inputs[st] : ~Exists(f)

(* is_outdated *)
NewestOutput(st, times) == CHOOSE t \in times : \A u \in times : t >= u
OldestOutput(st, times) == CHOOSE t \in times : \A u \in times : t <= u
Outdated(st) ==
    LET inputs == {f \in Inputs[st] : Exists(f)}
    IN  /\ Written(st) # {}
        /\ \/ st \in Any /\ dirty
           \/ \E f \in inputs : files[f].at > OldestOutput(st, {files[g].at : g \in Written(st)})

(* is_complete, as far as it is a matter of which files there are. *)
GateAllows == Exists("gate") => Of("gate") # 0
Needed == [prepare |-> {"audio", "segments"}, transcribe |-> {"transcript", "segments"},
           correct |-> {"transcript", "corrected"}, align |-> {"transcript", "aligned"},
           split |-> {"split"}, translate |-> {"translated"}, mimo |-> {"mimo", "mimoReport"},
           realign |-> {"mimo"}, gate |-> {"gate"}, normalize |-> {"normalized"}]
IsComplete(st) ==
    CASE st = "export"    -> GateAllows /\ Written(st) # {}
      [] st = "normalize" -> GateAllows /\ Exists("normalized")
      [] st = "gate"      -> Exists("gate") /\ GateAllows
      [] OTHER            -> \A f \in Needed[st] : Exists(f)

(* _stage_status, unless the last job has left the stage failed: the job   *)
(* on view is the last of any workspace.                                   *)
Shown(st) ==
    IF Outdated(st) THEN "outdated"
    ELSE IF IsComplete(st) THEN "complete"
    ELSE IF Written(st) # {} THEN "failed"
    ELSE IF MissingInputs(st) THEN "blocked" ELSE "pending"
-----------------------------------------------------------------------------
(* What a stage does to the files: <<"unlink", f>>, <<"write", f, of>>.    *)
Unlink(fs)    == [i \in DOMAIN fs |-> <<"unlink", fs[i]>>]
Write(fs, of) == [i \in DOMAIN fs |-> <<"write", fs[i], of>>]

(* The outputs of the stages after one, as delete_downstream_outputs takes *)
(* them.                                                                   *)
AfterNormalize == Outputs.export
AfterGate      == Outputs.normalize \o AfterNormalize
AfterTranslate == Outputs.mimo \o Outputs.gate \o AfterGate
AfterCorrect   == Outputs.align \o Outputs.split \o Outputs.translate \o AfterTranslate

(* The rows of a manifest that is not there are taken from the journal,    *)
(* which writes it again (load_transcripts, load_aligned_segments).        *)
Transcripts == IF Exists("transcript") THEN <<>> ELSE Write(<<"transcript">>, 0)
AlignedRows == IF Exists("aligned") \/ ~Exists("journal") THEN <<>>
               ELSE Write(<<"aligned">>, Of("journal"))
Align(n)    == Write(<<"journal", "aligned">>, n)

(* The first of the files that is there (auto). *)
Source(fs) == LET there == {i \in DOMAIN fs : Exists(fs[i])}
              IN  IF there = {} THEN "none" ELSE fs[CHOOSE i \in there : \A j \in there : i <= j]
NormalizeSource == Source(<<"mimo", "translated", "split", "transcript">>)
ExportSource    == Source(<<"normalized", "mimo", "translated", "split", "transcript">>)

(* The command of a stage, the n-th job: what it may turn out to do.       *)
Forced(st, mode, fs) == IF mode = "force" THEN Unlink(fs) ELSE <<>>

(* extract_audio takes the audio there is, unless it is forced to. *)
Prepare(mode) ==
    {Forced("prepare", mode, Outputs.prepare)
        \o (IF mode # "force" /\ Exists("audio") THEN <<>> ELSE Write(<<"audio">>, 0))
        \o Write(<<"segments">>, 0)}

Transcribe(mode) ==
    {Forced("transcribe", mode, <<"transcript", "corrected", "text">> \o AfterCorrect)
        \o (IF ~Exists("segments") THEN <<>>
            ELSE (IF mode = "resume" THEN Transcripts ELSE Write(<<"transcript">>, 0))
                    \o Write(<<"text">>, 0))}

Correct(mode) ==
    IF mode = "resume" /\ Exists("corrected") THEN {Transcripts}
    ELSE {Forced("correct", mode, <<"corrected">>) \o Transcripts
            \o Write(<<"transcript", "corrected", "text">>, 0) \o Unlink(cleared) :
                cleared \in {<<>>, AfterCorrect}}

AlignStage(mode, n) ==
    {IF mode = "force" THEN Unlink(<<"aligned">>) \o Transcripts \o Align(n)
     ELSE Transcripts \o AlignedRows
            \o (IF mode = "resume" /\ (Exists("aligned") \/ Exists("journal")) THEN <<>> ELSE Align(n))}

Split(mode) ==
    {IF mode = "resume" /\ Exists("split") THEN <<>>
     ELSE Forced("split", mode, Outputs.split)
            \o (IF Exists("aligned") THEN Write(Outputs.split, Of("aligned")) ELSE <<>>)}

(* The cues of another split may by chance have the same keys. *)
Translate(mode) ==
    LET anew == Forced("translate", mode, Outputs.translate \o AfterTranslate)
                    \o (IF Exists("split") THEN Write(Outputs.translate, Of("split")) ELSE <<>>)
    IN  IF mode # "resume" \/ ~Exists("translated") THEN {anew}
        ELSE IF Exists("split") /\ Of("split") # Of("translated") THEN {<<>>, anew} ELSE {<<>>}

(* --force is dropped on the way to the reviewer, which writes its branch  *)
(* whatever it finds.                                                      *)
Mimo(mode) == IF MissingInputs("mimo") THEN {<<>>}
              ELSE {Write(Outputs.mimo, Of("translated"))}

(* The manifest is written with new times, or not at all if there is none, *)
(* or no audio to take them from.                                          *)
Realign == {<<>>} \cup (IF Exists("mimo") THEN {Write(Outputs.realign, Of("mimo"))} ELSE {})

(* The gate is evaluated first, its report written whatever it says.       *)
Gated(before, after) ==
    {before \o Write(<<"gate">>, 0), before \o Write(<<"gate">>, 1) \o after}
Gate == Gated(<<>>, <<>>)

Normalize(mode) ==
    Gated(Forced("normalize", mode, Outputs.normalize \o AfterNormalize),
          IF (mode = "resume" /\ Exists("normalized")) \/ NormalizeSource = "none" THEN <<>>
          ELSE Write(Outputs.normalize, Of(NormalizeSource)))

(* The formats that are asked for are written, the others left; from the   *)
(* page it is SRT.                                                         *)
Export(mode, formats) ==
    UNION {Gated(Forced("export", mode, Outputs.export),
                 Transcripts \o Write(<<"text">>, 0)
                    \o (IF ExportSource = "none" THEN <<>> ELSE Write(fs, Of(ExportSource)))) :
            fs \in formats}

Does(st, mode, formats, n) ==
    CASE st = "prepare"    -> Prepare(mode)
      [] st = "transcribe" -> Transcribe(mode)
      [] st = "correct"    -> Correct(mode)
      [] st = "align"      -> AlignStage(mode, n)
      [] st = "split"      -> Split(mode)
      [] st = "translate"  -> Translate(mode)
      [] st = "mimo"       -> Mimo(mode)
      [] st = "realign"    -> Realign
      [] st = "gate"       -> Gate
      [] st = "normalize"  -> Normalize(mode)
      [] OTHER             -> Export(mode, formats)
-----------------------------------------------------------------------------
(* A run of all stages has been finished, in their order; or one without   *)
(* MiMo, whose segments have been aligned and split again since.           *)
InOrder == Outputs.prepare \o Outputs.transcribe \o Outputs.correct \o <<"journal">> \o AfterCorrect
Again   == <<"journal">> \o Outputs.align \o Outputs.split
SplitAgain == Outputs.prepare \o Outputs.transcribe \o Outputs.correct \o Outputs.translate
                 \o Outputs.gate \o AfterGate \o Again
Listed(order) == {order[i] : i \in DOMAIN order}
At(order, of) ==
    [f \in Listed(InOrder) |->
        IF f \notin Listed(order) THEN [at |-> 0, of |-> 0]
        ELSE [at |-> CHOOSE i \in DOMAIN order : order[i] = f, of |-> of[f]]]
Init == /\ files \in {At(InOrder, [f \in Listed(InOrder) |-> 1]),
                     At(SplitAgain, [f \in Listed(InOrder) |-> IF f \in Listed(Again) THEN 2 ELSE 1])}
        /\ dirty = FALSE /\ jobs = 2 /\ todo = <<>>

Begin(st, mode, formats) ==
    /\ todo = <<>> /\ jobs < MaxJobs
    /\ todo' \in Does(st, mode, formats, jobs + 1)
    /\ jobs' = jobs + 1
    /\ UNCHANGED <<files, dirty>>

(* From the page: resumed, and exported as SRT (_base_payload).            *)
Startable == Stages \ {"realign"}
PageOptions == [mode |-> "resume", formats |-> {<<"srt">>}]
FromPage(st) == /\ st \in Startable /\ ~MissingInputs(st)
                /\ Begin(st, PageOptions.mode, PageOptions.formats)

(* build_command of what /api/start is sent: neither checks the inputs.    *)
Modes   == {"resume", "plain", "force"}
Formats == {<<"srt">>, <<"vtt">>, <<"srt", "vtt">>}
WithOptions(st) == \E mode \in Modes : Begin(st, mode, Formats)

(* Times are only compared: they are kept as ranks. *)
Without(f) ==
    [g \in DOMAIN files |->
        IF g = f THEN [at |-> 0, of |-> 0]
        ELSE [files[g] EXCEPT !.at = IF Exists(f) /\ @ > files[f].at THEN @ - 1 ELSE @]]
Newest == Cardinality({f \in DOMAIN files : Exists(f)})

Work == /\ todo # <<>> /\ todo' = Tail(todo)
        /\ LET op == Head(todo)
           IN  files' = IF op[1] = "unlink" THEN Without(op[2])
                        ELSE [Without(op[2]) EXCEPT ![op[2]] =
                                [at |-> IF Exists(op[2]) THEN Newest ELSE Newest + 1, of |-> op[3]]]
        /\ UNCHANGED <<dirty, jobs>>

(* The process fails or is killed. *)
Break == todo # <<>> /\ todo' = <<>> /\ UNCHANGED <<files, dirty, jobs>>

(* An edit or an undo in the workbench (WebReview), whatever runs.         *)
Review == dirty' = ~dirty /\ UNCHANGED <<files, jobs, todo>>

Next == \/ \E st \in Stages : FromPage(st) \/ WithOptions(st)
        \/ Work \/ Break \/ Review

Spec == Init /\ [][Next]_vars
-----------------------------------------------------------------------------
(* Whenever no process runs and the page shows every stage as complete but *)
(* for optional ones that were not run, whatever job it shows beside them, *)
(* the subtitles that are there come from the alignment that is there:     *)
(* comparing the times of direct inputs with the oldest output is enough,  *)
(* whichever stages were run again, in whichever order, with whichever     *)
(* options, and wherever they broke off.                                   *)
Optional == {"correct", "mimo", "realign", "gate"}
AllWell == \A st \in Stages :
              Shown(st) \in {"complete"} \cup (IF st \in Optional THEN {"pending", "blocked"} ELSE {})

PageIsTrue ==
    todo = <<>> /\ AllWell => \A f \in {"srt", "vtt"} : Exists(f) => Of(f) = Of("aligned")
=============================================================================
