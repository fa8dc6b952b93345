------------------------------ MODULE MCPipeline ------------------------------
(***************************************************************************)
(* Pipeline with two segments, the second of them too small to be missed,  *)
(* a batch whose runs Pipeline describes, clips cut by the subtitles it    *)
(* exports, and a glossary made from episodes whose first stages it        *)
(* describes: a behaviour is one of one of the four, the others being      *)
(* idle.                                                                   *)
(***************************************************************************)
EXTENDS Pipeline, Batch, ClipPlan

MCSegs == {1, 2}
MCTolerant == {2}

(* From the shell with every option, from the page with fewer or by stage. *)
Options == {"correct", "align", "split", "translate", "normalize"}
Shell(mode, memory) == [stages |-> StagesOf(Options), mode |-> mode, memory |-> memory]

MCCommands == {Shell("resume", TRUE), Shell("force", TRUE),
               FromPage("align", {}, "unset", FALSE),
               FromPage("run", {"align", "split"}, "unset", FALSE),
               FromPage("transcribe", {}, "unset", TRUE),
               FromPage("split", {}, "resume", FALSE),
               FromPage("export", {}, "resume", FALSE)}
-----------------------------------------------------------------------------
(* Directories of which two are the same and one is the second's number. *)
MCRequested == {<<1>>, <<1, 2>>, <<3>>}

StillBatch == /\ phase = "none" /\ failFast = FALSE /\ dirs = <<>> /\ pool = <<>>
              /\ row = <<>> /\ outcome = <<>> /\ summary = <<>>
-----------------------------------------------------------------------------
(* Cues that overlap the one before or leave it time, and two candidates,  *)
(* the first of which may be no range.                                     *)
ECue(s, e)  == [start |-> s, end |-> e]
Cues(a, b)  == [from |-> a, to |-> b]
MCCueLists == {<<ECue(2, 6), ECue(a, b), ECue(c, 18), ECue(20, a + 17)>> :
                  a \in {5, 9}, b \in {11, 15}, c \in {11, 14}}
MCRanges(e)    == {Cues(a, b) : a \in {0, 2, 3}, b \in {2, 4}}
MCResponses(e) == {<<r, Cues(2, 3)>> : r \in MCRanges(e)}

StillClips == /\ cues = <<>> /\ duration = 0 /\ step = "none" /\ clipPlan = <<>> /\ top = {}
              /\ clips = <<>> /\ subs = <<>> /\ cutting = NoCut /\ broken = {} /\ bare = {}
-----------------------------------------------------------------------------
CONSTANTS Words, Directories, HistoryOptions, ModelAnswers(_), HistoryRuns
VARIABLES pairs, option, number, works, found, unsaved, matches,
          canonical, normalized, review, noted, runsOfHistory, stageOfHistory

H == INSTANCE HistoryGlossary WITH
        Word <- Words, Options <- HistoryOptions, Answers <- ModelAnswers, MaxRuns <- HistoryRuns,
        at <- number, rows <- found, summary <- noted, runs <- runsOfHistory, phase <- stageOfHistory

ASSUME HAssumption == H!HistoryAssumption

HistorySpec == H!Init /\ [][H!Next]_(H!vars)

(* A recording of two segments, of which the second repeats the first and  *)
(* says more, another one, their translations, and directories that hold   *)
(* some of them; among these files without a partner, two of one number,   *)
(* and one exchanged for another.                                          *)
Knows(n, kinds) == [len |-> n, kinds |-> kinds]
MCWord == [aka |-> Knows(3, {"kana"}), akai |-> Knows(9, {"kana"}), bun |-> Knows(8, {"kana", "sentence"}),
           san |-> Knows(4, {"kana", "role"}), show |-> Knows(7, {"kana", "keyword", "hint", "term"}),
           zepp |-> Knows(4, {"latin"}), dot |-> Knows(1, {"mark"}), hong |-> Knows(3, {"han"}),
           zhu |-> Knows(9, {"han"}), dan |-> Knows(6, {"han", "role", "hint", "term"}),
           ju |-> Knows(8, {"han", "sentence"}), tai |-> Knows(7, {"han", "keyword", "hint", "term"})]
Span(s, e, text) == [start |-> s, end |-> e, text |-> text]
TokensOf(s, words, i) ==
    IF i > Len(words) THEN <<>>
    ELSE [k \in DOMAIN words[i] |-> Span(s + 1000 * (i - 1) + 300 * k - 300, s + 1000 * (i - 1) + 300 * k,
                                         <<words[i][k]>>)]
Segment(s, words) ==
    [cues   |-> [i \in DOMAIN words |-> Span(s + 1000 * (i - 1), s + 1000 * i, words[i])],
     tokens |-> TokensOf(s, words, 1) \o TokensOf(s, words, 2) \o TokensOf(s, words, 3)]
First  == <<Segment(0, <<<<"akai">>, <<"aka", "dot">>>>), Segment(4000, <<<<"akai">>, <<"akai">>, <<"show">>>>)>>
Second == <<Segment(500, <<<<"bun", "san">>, <<"akai">>, <<"zepp">>>>)>>
LinesA == <<Span(0, 1000, <<"zhu">>), Span(1000, 2000, <<"hong">>), Span(4000, 5000, <<"zhu">>),
            Span(4000, 5000, <<"zhu">>), Span(5000, 6000, <<"dan">>), Span(6000, 7000, <<"dot", "tai">>)>>
LinesB == <<Span(500, 1500, <<"ju", "dot">>), Span(1600, 2500, <<"dan">>), Span(2500, 3500, <<"zepp">>)>>
LinesC == <<Span(200, 2100, <<"zhu", "hong">>), Span(9500, 9900, <<>>), Span(20000, 21000, <<"hong">>)>>

Recording(i, media) == [id |-> i, recorded |-> TRUE, holds |-> media]
Subtitles(i, lines) == [id |-> i, recorded |-> FALSE, holds |-> lines]
MCDirectories == {{Recording(1, First), Subtitles(1, LinesA), Recording(2, Second)},
                  {Recording(1, First), Subtitles(1, LinesA), Recording(2, Second), Subtitles(2, LinesB)},
                  {Recording(1, Second), Subtitles(1, LinesB), Subtitles(1, LinesC)},
                  {Recording(1, First), Subtitles(2, LinesB)}}
MCOptions == {[llm |-> FALSE, min |-> 800, often |-> 2], [llm |-> TRUE, min |-> 720, often |-> 2]}
MCAnswers(known) ==
    {{}, {[group |-> "names", source |-> c.source, target |-> c.target] : c \in known},
     {[group |-> "show_terms", source |-> <<"show", "dot">>, target |-> <<"tai">>],
      [group |-> "names", source |-> <<"bun">>, target |-> <<"ju">>]}}

StillHistory == /\ pairs = <<>> /\ option = [llm |-> FALSE] /\ number = 0 /\ works = <<>> /\ found = <<>>
                /\ unsaved = <<>> /\ matches = <<>> /\ canonical = {} /\ normalized = {}
                /\ review = <<>> /\ noted = <<>> /\ runsOfHistory = 0 /\ stageOfHistory = "none"
historyVars == <<pairs, option, number, works, found, unsaved, matches, canonical, normalized, review, noted,
                 runsOfHistory, stageOfHistory>>
-----------------------------------------------------------------------------
MCInit == Init /\ \/ StillBatch /\ StillClips /\ StillHistory
                  \/ BatchInit /\ StillClips /\ StillHistory
                  \/ StillBatch /\ ClipsInit /\ StillHistory
                  \/ StillBatch /\ StillClips /\ H!Init
MCNext == \/ /\ phase = "none" /\ step = "none" /\ stageOfHistory = "none"
             /\ Next /\ UNCHANGED <<batchVars, clipVars, historyVars>>
          \/ phase # "none" /\ BatchNext /\ UNCHANGED <<vars, clipVars, historyVars>>
          \/ step # "none" /\ ClipsNext /\ UNCHANGED <<vars, batchVars, historyVars>>
          \/ stageOfHistory # "none" /\ H!Next /\ UNCHANGED <<vars, batchVars, clipVars>>
MCSpec == MCInit /\ [][MCNext]_<<vars, batchVars, clipVars, historyVars>>

(* A history run that ends well leaves nothing of one that broke off       *)
(* (HistoryGlossary, history_glossary.py).                                 *)
HistoryIsTrue == H!HistoryIsTrue
=============================================================================
