---------------------------- MODULE HistoryGlossary ----------------------------
(***************************************************************************)
(* A glossary is made from episodes that have been translated before       *)
(* (history_glossary.py).  Each recording is transcribed, aligned and      *)
(* split in a directory of its own, the lines of its translated subtitles  *)
(* find what was said at their time, and pairs that fit become terms.  The *)
(* rows are appended to matches.jsonl as they are found, everything else   *)
(* is written at the end; the command may be killed or raise at any point, *)
(* the files may be exchanged, and it is run again.                        *)
(*                                                                         *)
(* A text is a sequence of words, of which Word gives the length and what  *)
(* the rules know it for: its script ("han", "kana", "latin"), "mark" (a   *)
(* full stop, a question or an exclamation mark), or as a word of one of   *)
(* the lists, which overlap without being the same: "keyword" (of          *)
(* is_glossary_like_pair), "hint" (JP_ and CN_CURATION_HINTS), "term" (of  *)
(* guess_glossary_group), "role" (of looks_like_contextual_role_phrase) or *)
(* "sentence" (of looks_like_sentence_text).  What a recording says and    *)
(* what a line says are different words, so that a list of the one         *)
(* language and its counterpart of the other are one kind.  Glossaries are *)
(* sets of entries, without the notes that tell where an entry is from.    *)
(***************************************************************************)
EXTENDS Integers, Sequences, FiniteSets

CONSTANTS Word,         \* [word -> [len, kinds]]
          Directories,  \* inputs: sets of files [id, recorded, holds]
          Options,      \* inputs: [llm, min, often]
          Answers(_),   \* what the model may answer to the candidates
          MaxRuns       \* bound: how often the command is called

(* Pieces of text with their times: cues, tokens, lines of subtitles.      *)
Pieces == Seq([start : Int, end : Int, text : Seq(DOMAIN Word)])
Media  == Seq([cues : Pieces, tokens : Pieces])

HistoryAssumption ==
    /\ \A w \in DOMAIN Word : Word[w].len \in Nat
    /\ \A dir \in Directories :
          IsFiniteSet(dir) /\ \A f \in dir : f.id \in Nat /\ f.holds \in (IF f.recorded THEN Media ELSE Pieces)
    /\ \A o \in Options : o.llm \in BOOLEAN /\ o.min \in Int /\ o.often \in Int

VARIABLES pairs,      \* the episodes of the run: [id, media, lines]
          option, at, \* its options, the episode it is at
          works,      \* [id -> [audio, heard, split]]: the episodes' directories
          rows,       \* all_matches
          unsaved,    \* rows of the episode that are not in the file
          matches, canonical, normalized, review, summary,  \* the files
          runs, phase

run   == <<pairs, option, at, rows, unsaved, runs>>
files == <<canonical, normalized, review, summary>>
vars  == <<run, works, matches, files, phase>>
-----------------------------------------------------------------------------
LesserOf(a, b)  == IF a <= b THEN a ELSE b
GreaterOf(a, b) == IF a >= b THEN a ELSE b
Least(S)        == CHOOSE x \in S : \A y \in S : x <= y
Greatest(S)     == CHOOSE x \in S : \A y \in S : x >= y

(* Of a sequence, the sum, and of sequences, one after the other.          *)
Sum(f)   == LET upTo[n \in 0..Len(f)] == IF n = 0 THEN 0 ELSE upTo[n - 1] + f[n] IN upTo[Len(f)]
Flat(ss) == LET upTo[n \in 0..Len(ss)] == IF n = 0 THEN <<>> ELSE upTo[n - 1] \o ss[n] IN upTo[Len(ss)]

(* The members of S as a sequence, by the pairs in which one is before the *)
(* other.                                                                  *)
Ordered(S, before) ==
    [k \in 1..Cardinality(S) |-> CHOOSE i \in S : Cardinality({j \in S : <<j, i>> \in before}) = k - 1]
Rising(S) == {w \in S \X S : w[1] < w[2]}

Letters(text)   == Sum([i \in DOMAIN text |-> Word[text[i]].len])
Has(text, kind) == \E i \in DOMAIN text : kind \in Word[text[i]].kinds

(* normalize_glossary_text: marks at the ends go, those within remain. *)
Normal(text) ==
    LET said == {i \in DOMAIN text : "mark" \notin Word[text[i]].kinds}
    IN  IF said = {} THEN <<>> ELSE SubSeq(text, Least(said), Greatest(said))

(* How well a span fits a line, in parts of 1000. *)
Overlap(a, b) == GreaterOf(0, LesserOf(a.end, b.end) - GreaterOf(a.start, b.start))
InTime(a, b) ==
    LET union == GreaterOf(a.end, b.end) - LesserOf(a.start, b.start)
    IN  IF union <= 0 THEN 0 ELSE (1000 * Overlap(a, b)) \div union
AtBounds(a, b) ==
    LET off == GreaterOf(a.start - b.start, b.start - a.start) + GreaterOf(a.end - b.end, b.end - a.end)
    IN  GreaterOf(0, 1000 - (10000 * off) \div (16 * GreaterOf(800, a.end - a.start)))
Likeness(a, b) ==
    LET l == Letters(Normal(a)) r == Letters(Normal(b))
    IN  IF l = 0 \/ r = 0 THEN 0 ELSE (1000 * LesserOf(l, r)) \div GreaterOf(l, r)

Scored(match, atBounds) ==
    LET value == (450 * match.inTime + 200 * atBounds + 150 * match.likeness + 200 * match.coverage) \div 1000
                 - LesserOf(400, 80 * (match.count - 1))
    IN  [match EXCEPT !.score = GreaterOf(0, value)]
Of(line, kind, source, span, covered, n) ==
    Scored([line |-> line, kind |-> kind, source |-> source, count |-> n, score |-> 0,
            inTime   |-> InTime(line, span), likeness |-> Likeness(line.text, source),
            coverage |-> LesserOf(1000, (1000 * covered) \div GreaterOf(1, line.end - line.start))],
           AtBounds(line, span))
Candidate(line, kind, pieces) ==
    Of(line, kind, Flat([i \in DOMAIN pieces |-> pieces[i].text]),
       [start |-> pieces[1].start, end |-> pieces[Len(pieces)].end],
       Sum([i \in DOMAIN pieces |-> Overlap(line, pieces[i])]), Len(pieces))

Missing(line) == [line |-> line, kind |-> "missing", source |-> <<>>, count |-> 0, score |-> 0,
                  inTime |-> 0, coverage |-> 0, likeness |-> 0]

Near(pieces, line, by) ==
    {i \in DOMAIN pieces : pieces[i].end >= line.start - by /\ pieces[i].start <= line.end + by}

(* Up to four cues in a row of those around the line. *)
Windows(cues, line) ==
    LET near == Near(cues, line, 2500)
    IN  {w \in near \X (1..LesserOf(4, Cardinality(near))) : w[1]..(w[1] + w[2] - 1) \subseteq near}

(* The first of those with the highest score; no or one candidate. *)
FirstBest(of) ==
    LET best == {w \in DOMAIN of : \A v \in DOMAIN of : of[v].score <= of[w].score}
    IN  {of[w] : w \in {w \in best : \A v \in best : w[1] < v[1] \/ (w[1] = v[1] /\ w[2] <= v[2])}}
BestSplit(cues, line) ==
    FirstBest([w \in Windows(cues, line) |-> Candidate(line, "split", SubSeq(cues, w[1], w[1] + w[2] - 1))])

PiecesAt(pieces, ids) ==
    LET order == Ordered(ids, Rising(ids)) IN [k \in DOMAIN order |-> pieces[order[k]]]
FromTokens(tokens, line) ==
    LET near == Near(tokens, line, 800)
    IN  IF near = {} THEN {} ELSE {Candidate(line, "aligned_tokens", PiecesAt(tokens, near))}

(* The tokens are asked where the cues say little, and have to say more.   *)
Better(best, spoken, missing) ==
    LET more == {t \in spoken : \A b \in best : b.score < 500 /\ t.score > b.score}
    IN  CHOOSE m \in (IF more # {} THEN more ELSE IF best # {} THEN best ELSE {missing}) : TRUE
Match(cues, tokens, line) == Better(BestSplit(cues, line), FromTokens(tokens, line), Missing(line))

Level(score) == CASE score >= option.min -> "high"
                  [] score < option.min /\ score >= GreaterOf(500, option.min - 180) -> "medium"
                  [] OTHER -> "low"
-----------------------------------------------------------------------------
(* The pairs that may become terms: short, at the right time, not put      *)
(* together from many cues, and not the same or a foreign name kept.       *)
Fits(row) == row.count <= 2 /\ row.likeness >= 550 /\ row.inTime >= 700 /\ row.coverage >= 700
Short(text) == Letters(text) <= 18 /\ ~(Has(text, "mark") /\ Letters(text) > 12)
IsLatin(text) == \A i \in DOMAIN text : "latin" \in Word[text[i]].kinds
HasScript(text, scripts) == \E script \in scripts : Has(text, script)
IsCandidate(row) ==
    LET s == Normal(row.source) t == Normal(row.line.text)
    IN  /\ s # <<>> /\ t # <<>> /\ Short(s) /\ Short(t) /\ Fits(row)
        /\ s # t /\ ~IsLatin(t) /\ (IsLatin(s) => Letters(s) > 6)
        /\ (Has(s, "latin") => Letters(s) >= 3)
        /\ HasScript(s, {"han", "kana", "latin"}) /\ HasScript(t, {"han", "latin"})
IsGlossaryLike(s, t) ==
    \/ Has(s, "keyword") \/ Has(t, "keyword")
    \/ Letters(s) <= 6 /\ Letters(t) <= 6 /\ HasScript(s, {"han", "kana"})
    \/ Letters(s) <= 10 /\ Letters(t) <= 10 /\ HasScript(s, {"kana", "latin"}) /\ Has(t, "han")
IsCurated(s, t, all, items) ==
    \/ Has(s, "hint") \/ Has(t, "hint")
    \/ Letters(s) <= 6 /\ Letters(t) <= 8 /\ HasScript(s, {"han", "kana"}) /\ Has(t, "han")
    \/ Letters(s) <= 12 /\ Letters(t) <= 12 /\ \E i \in items : all[i].score >= 900
Group(s, t) == IF Has(s, "term") \/ Has(t, "term") THEN "show_terms"
               ELSE IF Letters(s) \in 2..6 /\ Letters(t) \in 2..6 THEN "names" ELSE "fixed_phrases"
Entry(g, s, t) == [group |-> g, source |-> s, target |-> t]

(* extract_glossary_entries: of each source the translation it has most    *)
(* often, the first of several.                                            *)
Grouped(all, source) ==
    {i \in DOMAIN all : /\ all[i].level = "high" /\ IsCandidate(all[i]) /\ Normal(all[i].source) = source
                        /\ IsGlossaryLike(source, Normal(all[i].line.text))}
Frequency(all, items, target) == Cardinality({i \in items : Normal(all[i].line.text) = target})
MostCommon(all, items) ==
    LET often(i) == Frequency(all, items, Normal(all[i].line.text))
    IN  Normal(all[Least({i \in items : \A j \in items : often(j) <= often(i)})].line.text)
Often(all, items, s, target) ==
    Frequency(all, items, target) >= option.often \/ IsCurated(s, target, all, items)
TermOf(all, items, s) ==
    {Entry(Group(s, t), s, t) : t \in {t \in {MostCommon(all, items)} : Often(all, items, s, t)}}
Terms(all) ==
    UNION {TermOf(all, Grouped(all, s), s) :
              s \in {s \in {Normal(all[i].source) : i \in DOMAIN all} : Grouped(all, s) # {}}}

(* extract_glossary_entries_with_llm.  What the model answers need not be  *)
(* one of the candidates; a sentence or a role in context is no term. (The  *)
(* limit of 160 candidates is never reached here.)                         *)
Candidates(all) ==
    {[source |-> Normal(all[i].source), target |-> Normal(all[i].line.text)] :
        i \in {i \in DOMAIN all : /\ all[i].level \in {"high", "medium"}
                                  /\ all[i].score >= GreaterOf(600, option.min - 120)
                                  /\ Normal(all[i].source) # <<>> /\ Normal(all[i].line.text) # <<>>}}
SentenceLike(text) == Letters(text) >= 14 \/ Has(text, "mark") \/ (Has(text, "sentence") /\ Letters(text) >= 8)
InContext(text)    == Has(text, "role") /\ Letters(text) >= 4
Limits(group) == CASE group = "names"         -> [source |-> 8,  target |-> 8]
                   [] group = "show_terms"    -> [source |-> 20, target |-> 16]
                   [] group = "fixed_phrases" -> [source |-> 20, target |-> 12]
                   [] OTHER                   -> [source |-> 20, target |-> 20]
Allowed(e) ==
    /\ e.source # <<>> /\ e.target # <<>>
    /\ \A text \in {e.source, e.target} : ~SentenceLike(text) /\ ~InContext(text)
    /\ Letters(e.source) <= Limits(e.group).source
    /\ Letters(e.target) <= Limits(e.group).target
FromModel(answer) ==
    {e \in {Entry(x.group, Normal(x.source), Normal(x.target)) : x \in answer} : Allowed(e)}
-----------------------------------------------------------------------------
(* discover_history_pairs: the episodes with a recording and subtitles, by *)
(* number; of several files of a number any may be the last.               *)
Holding(dir, id, recorded) == {f.holds : f \in {f \in dir : f.id = id /\ f.recorded = recorded}}
Episodes(dir) == {id \in DOMAIN works : Holding(dir, id, TRUE) # {} /\ Holding(dir, id, FALSE) # {}}
Pairs(dir) ==
    LET ids == Ordered(Episodes(dir), Rising(Episodes(dir)))
    IN  {p \in [DOMAIN ids -> UNION {[id : {id}, media : Holding(dir, id, TRUE),
                                      lines : Holding(dir, id, FALSE)] : id \in Episodes(dir)}] :
            \A k \in DOMAIN ids : p[k].id = ids[k]}

NoWork == [audio |-> <<>>, heard |-> {}, split |-> {}]
(* parse_ass_dialogues: a line that is there twice is one. *)
Firsts(lines) == {i \in DOMAIN lines : lines[i].text # <<>> /\ \A j \in 1..(i - 1) : lines[j] # lines[i]}
Dialogues(lines) == PiecesAt(lines, Firsts(lines))

(* What the given segments of a recording hold. *)
Cues(audio, segs)   == Flat([i \in DOMAIN audio |-> IF i \in segs THEN audio[i].cues ELSE <<>>])
Tokens(audio, segs) == Flat([i \in DOMAIN audio |-> IF i \in segs THEN audio[i].tokens ELSE <<>>])
RowOf(p, m) == [id |-> p.id, line |-> m.line, kind |-> m.kind, source |-> m.source, count |-> m.count,
                score |-> m.score, inTime |-> m.inTime, coverage |-> m.coverage, likeness |-> m.likeness,
                level |-> Level(m.score)]
RowsIn(p, cues, tokens, lines) ==
    [i \in DOMAIN lines |-> RowOf(p, Match(cues, tokens, lines[i]))]
RowsOf(p, work) ==
    RowsIn(p, Cues(work.audio, work.split), Tokens(work.audio, work.heard), Dialogues(p.lines))
-----------------------------------------------------------------------------
Init == /\ pairs = <<>> /\ option \in Options /\ at = 0 /\ rows = <<>> /\ unsaved = <<>> /\ runs = 0
        /\ works = [id \in UNION {{f.id : f \in dir} : dir \in Directories} |-> NoWork]
        /\ matches = <<>> /\ canonical = {} /\ normalized = {} /\ review = <<>> /\ summary = <<>>
        /\ phase = "idle"

(* Without a pair the command raises before it has touched anything; with  *)
(* one it first deletes the rows of an earlier run.                        *)
KeptRows == matches
FreshRows == <<>>
Start(dir, o) ==
    /\ phase \in {"idle", "done", "lost"} /\ runs < MaxRuns /\ runs' = runs + 1
    /\ pairs' \in Pairs(dir) /\ option' = o /\ at' = 1 /\ rows' = <<>> /\ unsaved' = <<>>
    /\ IF pairs' = <<>> THEN phase' = "lost" /\ UNCHANGED matches
       ELSE phase' = "prepare" /\ matches' = FreshRows
    /\ UNCHANGED <<works, files>>

(* The audio that is there is kept, whatever the recording is now. *)
Episode == pairs[at]
Prepare ==
    /\ phase = "prepare" /\ phase' = "hear"
    /\ works' = [works EXCEPT ![Episode.id].audio = IF @ = <<>> THEN Episode.media ELSE @]
    /\ UNCHANGED <<run, matches, files>>

(* The stages are run to resume and nobody looks at what they return:      *)
(* segments that were aligned before are kept, others may fail again.      *)
Hear(segs) ==
    /\ phase = "hear" /\ phase' = "split"
    /\ segs # {} /\ works[Episode.id].heard \subseteq segs
    /\ works' = [works EXCEPT ![Episode.id].heard = segs]
    /\ UNCHANGED <<run, matches, files>>

(* Split is made of the segments that are aligned; one that is there is    *)
(* not made again, whatever has been aligned since.                        *)
Split ==
    /\ phase = "split" /\ phase' = "match"
    /\ works' = [works EXCEPT ![Episode.id].split = IF @ = {} THEN works[Episode.id].heard ELSE @]
    /\ UNCHANGED <<run, matches, files>>

(* Without cues the command raises (Lose).                                 *)
MatchLines ==
    LET work == works[Episode.id]
    IN  /\ phase = "match" /\ phase' = "append"
        /\ Cues(work.audio, work.split) # <<>>
        /\ unsaved' = RowsOf(Episode, work) /\ rows' = rows \o unsaved'
        /\ UNCHANGED <<pairs, option, at, runs, works, matches, files>>

AppendRow ==
    /\ phase = "append" /\ unsaved # <<>>
    /\ matches' = Append(matches, Head(unsaved)) /\ unsaved' = Tail(unsaved)
    /\ UNCHANGED <<pairs, option, at, rows, runs, works, files, phase>>
NextEpisode ==
    /\ phase = "append" /\ unsaved = <<>>
    /\ phase' = (IF at < Len(pairs) THEN "prepare" ELSE "extract") /\ at' = at + 1
    /\ UNCHANGED <<pairs, option, rows, unsaved, runs, works, matches, files>>

(* A sheet is written, and read, without what lacks a source or a target.  *)
Sheet(entries) == {e \in entries : e.source # <<>> /\ e.target # <<>>}
Extract ==
    /\ phase = "extract" /\ phase' = "normalize"
    /\ IF ~option.llm THEN canonical' = Sheet(Terms(rows))
       ELSE IF Candidates(rows) = {} THEN canonical' = {}
       ELSE \E answer \in Answers(Candidates(rows)) : canonical' = Sheet(FromModel(answer))
    /\ UNCHANGED <<run, works, matches, normalized, review, summary>>

(* The entries of the glossary just written are read back, none of which   *)
(* is there twice; without one the normalized glossary of an earlier run   *)
(* remains.                                                                *)
Normalize ==
    /\ phase = "normalize" /\ phase' = "review"
    /\ normalized' = IF canonical # {} THEN Sheet(canonical) ELSE normalized
    /\ UNCHANGED <<run, works, matches, canonical, review, summary>>

(* By episode and time, low and medium rows in styles of their own.        *)
Earlier(a, b) ==
    \/ a.id < b.id
    \/ a.id = b.id /\ a.line.start < b.line.start
    \/ a.id = b.id /\ a.line.start = b.line.start /\ a.line.end < b.line.end
Sooner(i, j) == Earlier(rows[i], rows[j]) \/ (~Earlier(rows[j], rows[i]) /\ i < j)
ToReview     == {i \in DOMAIN rows : rows[i].level # "high"}
ExportReview ==
    /\ phase = "review" /\ phase' = "summary"
    /\ review' = LET order == Ordered(ToReview, {w \in ToReview \X ToReview : Sooner(w[1], w[2])})
                 IN  [k \in DOMAIN order |-> rows[order[k]]]
    /\ UNCHANGED <<run, works, matches, canonical, normalized, summary>>

(* Counted while the episodes are matched (_build_episode_summary), and    *)
(* written last; the name of the normalized glossary only if there is one. *)
OfEpisode(id, level) == Cardinality({i \in DOMAIN rows : rows[i].id = id /\ rows[i].level = level})
Summary ==
    [episodes |-> [k \in DOMAIN pairs |->
                      [level \in {"high", "medium", "low"} |-> OfEpisode(pairs[k].id, level)]],
     matched |-> Len(rows), terms |-> Cardinality(canonical), normalized |-> canonical # {}]
Summarize ==
    /\ phase = "summary" /\ phase' = "done"
    /\ summary' = Summary
    /\ UNCHANGED <<run, works, matches, canonical, normalized, review>>

(* A kill; a stage, the model or a file that raises. *)
Lose == /\ phase \notin {"idle", "done", "lost"} /\ phase' = "lost"
        /\ UNCHANGED <<run, works, matches, files>>

Next == \/ \E dir \in Directories, o \in Options : Start(dir, o)
        \/ Prepare
        \/ phase = "hear" /\ \E segs \in SUBSET DOMAIN works[Episode.id].audio : Hear(segs)
        \/ Split \/ MatchLines \/ AppendRow \/ NextEpisode \/ Extract \/ Normalize \/ ExportReview \/ Summarize \/ Lose
-----------------------------------------------------------------------------
(* Each line of each episode has one row, whatever earlier runs left.      *)
EachLineOnce ==
    /\ \A k \in DOMAIN pairs : \A n \in DOMAIN pairs[k].lines :
           pairs[k].lines[n].text # <<>> =>
               \E i \in DOMAIN matches : matches[i].id = pairs[k].id /\ matches[i].line = pairs[k].lines[n]
    /\ \A i, j \in DOMAIN matches :
           i # j => matches[i].id # matches[j].id \/ matches[i].line # matches[j].line
    /\ \A i \in DOMAIN matches : \E k \in DOMAIN pairs : pairs[k].id = matches[i].id

(* No run of up to four cues, all of them near, says more than the one     *)
(* chosen, and tokens are chosen only where all of these say little.       *)
NothingBetter ==
    \A i \in DOMAIN matches :
        LET r == matches[i] cues == Cues(works[r.id].audio, works[r.id].split)
        IN  \A a \in DOMAIN cues, b \in DOMAIN cues :
               a <= b /\ b < a + 4 /\ (\A c \in a..b : c \in Near(cues, r.line, 2500)) =>
                   LET other == Candidate(r.line, "split", SubSeq(cues, a, b)).score
                   IN  other <= r.score /\ (r.kind = "aligned_tokens" => other < 500)

(* The glossary of the rules: what was translated alike often enough is a  *)
(* term, with a translation no other one of the source surpasses.          *)
Seen(s, t) == {i \in DOMAIN matches : /\ matches[i].level = "high" /\ IsCandidate(matches[i])
                                      /\ Normal(matches[i].source) = s /\ Normal(matches[i].line.text) = t
                                      /\ IsGlossaryLike(s, t)}
TermsAreSeen ==
    /\ \A e \in canonical :
           /\ Seen(e.source, e.target) # {}
           /\ \A f \in canonical : f.source = e.source => f = e
    /\ \A i \in DOMAIN matches :
           LET s == Normal(matches[i].source) t == Normal(matches[i].line.text)
           IN  Cardinality(Seen(s, t)) >= option.often /\ i \in Seen(s, t) =>
                   \E e \in canonical : /\ e.source = s
                                        /\ Cardinality(Seen(s, t)) <= Cardinality(Seen(s, e.target))

(* A history run that ends well leaves what it found in its own files, and *)
(* nothing of a run that broke off before: rows, terms, review and summary *)
(* agree.  Only without a term may the normalized glossary be an old one.  *)
HistoryIsTrue ==
    phase = "done" =>
    /\ EachLineOnce /\ NothingBetter
    /\ ~option.llm => TermsAreSeen
    /\ option.llm  => \A e \in canonical : ~SentenceLike(e.source) /\ ~SentenceLike(e.target)
    /\ canonical # {} => normalized = canonical
    /\ \A i \in DOMAIN matches : matches[i].level = "high" \/ \E k \in DOMAIN review : review[k] = matches[i]
    /\ \A k \in DOMAIN review : review[k].level # "high" /\ \A j \in 1..k : ~Earlier(review[k], review[j])
    /\ summary.matched = Len(matches) /\ summary.terms = Cardinality(canonical)
    /\ summary.normalized = (canonical # {})
    /\ \A k \in DOMAIN pairs, level \in {"high", "medium", "low"} :
           summary.episodes[k][level]
               = Cardinality({i \in DOMAIN matches : matches[i].id = pairs[k].id /\ matches[i].level = level})
=============================================================================
