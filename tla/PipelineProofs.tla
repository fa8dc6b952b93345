---------------------------- MODULE PipelineProofs ----------------------------
(***************************************************************************)
(* Theorems about Pipeline for every number of segments, commands and      *)
(* kills, and for every command that CommandsAssumption allows.  Sound     *)
(* says what the artifacts have to do with each other when nothing has     *)
(* been excused.  It is broken only while a stage is between two writes,   *)
(* and what the stage still has to write restores it; and a forced run of  *)
(* all stages establishes it again, whatever it began with (Fresh).  At    *)
(* the end the batch, for any number of media and directories asked for,   *)
(* the clips, for any cues, answers of the model and adjustments, and the  *)
(* glossaries, for any episodes and wherever a run breaks off.             *)
(***************************************************************************)
EXTENDS MCPipeline, FiniteSetTheorems, SequenceTheorems, WellFoundedInduction, TLAPS

Stages == {Order[i] : i \in DOMAIN Order}
Pos(stage) ==
    CASE stage = "transcribe" -> 1 [] stage = "correct" -> 2 [] stage = "align" -> 3
      [] stage = "split" -> 4 [] stage = "translate" -> 5 [] stage = "gate" -> 6
      [] stage = "normalize" -> 7 [] stage = "export" -> 8

Row  == Texts \cup {Absent, Failed, Silent}
Rows == [Segs -> Row]
Disk == [transcript : Rows, tJournal : Rows, corrected : Nat, aligned : Rows, aJournal : Rows,
         split : Rows, translated : [text : Rows, full : BOOLEAN],
         normalized : [text : Rows, memory : BOOLEAN, chinese : BOOLEAN], reverts : Rows,
         srt : [text : Rows, memory : BOOLEAN, chinese : BOOLEAN]]
Files == {"transcript", "tJournal", "corrected", "aligned", "aJournal", "split", "translated",
          "normalized", "reverts", "srt"}
Places == {"idle", "start", "clear", "wipe", "rows", "report", "memory", "stale srt",
           "reverts", "srt", "final"}
Command == [stages : Seq(Stages), mode : {"resume", "force", "plain"}, memory : BOOLEAN]

TypeOK ==
    /\ disk \in Disk
    /\ cmd.mode \in {"resume", "force", "plain"} /\ cmd.memory \in BOOLEAN /\ cmd.stages \in Seq(Stages)
    /\ left \in Seq(Stages) /\ at \in Places
    /\ todo \in Seq(Files) /\ pending \subseteq Segs
    /\ runs \in 0..MaxRuns /\ (left # <<>> => runs > 0)

Names(files) == {files[i] : i \in DOMAIN files}

(* The stages that are left are the last ones of the command. *)
Ordered(stages) == \A i, j \in DOMAIN stages : i < j => Pos(stages[i]) < Pos(stages[j])
Whole(c)  == Full(c) /\ Ordered(c.stages) /\ c.stages[Len(c.stages)] = "export"
Remains(k) == /\ k \in 1..Len(cmd.stages) /\ Len(left) = Len(cmd.stages) - k + 1
              /\ \A i \in DOMAIN left : left[i] = cmd.stages[k + i - 1]

LeftOK ==
    /\ left = <<>> <=> at = "idle"
    /\ left # <<>> => /\ \E k \in 1..Len(cmd.stages) : Remains(k)
                      /\ Len(cmd.stages) = 1 \/ Whole(cmd)
                      /\ ended = "none"

(* Where in a stage the process can be, and what it has still to unlink.   *)
PlaceOK ==
    /\ at = "rows" => Head(left) \in {"transcribe", "align"}
    /\ at \in {"report", "wipe"} => Head(left) = "correct"
    /\ at \in {"memory", "stale srt", "reverts"} => Head(left) = "normalize"
    /\ at \in {"srt", "final"} => Head(left) = "export"
    /\ at \notin {"clear", "report", "wipe"} => todo = <<>>
    /\ at \in {"report", "wipe"} => Names(todo) \subseteq Names(DownstreamOf("correct"))
    /\ at = "clear" /\ todo # <<>> =>
         /\ Forces /\ Names(todo) \subseteq Names(Cleared(Head(left)))
         /\ Len(todo) <= Len(Cleared(Head(left)))
    /\ at = "clear" /\ Forces => \A f \in Names(Cleared(Head(left))) \ Names(todo) : disk[f] = Empty[f]

(* A journal has the rows of its manifest. *)
JournalOK == /\ disk.transcript # None => disk.tJournal # None
             /\ disk.aligned # None => disk.aJournal # None
             /\ Stage("align", "rows") => pending \subseteq HasText(disk.transcript)

(* What is on the disk when nothing has been excused. *)
RowsSound(d) == \A s \in Segs : /\ d.transcript[s] \in Texts \cup {Absent} /\ d.tJournal[s] \in Texts \cup {Absent}
                                /\ d.aligned[s] \in Texts \cup {Absent} /\ d.aJournal[s] \in Texts \cup {Absent}
SplitSound(d) == d.split # None => /\ d.split = d.transcript /\ HasText(d.transcript) = Segs
                                   /\ HasText(d.aligned) = Segs
TranslatedSound(d) == d.translated.text # None =>
                          d.translated.full /\ d.translated.text = d.transcript /\ d.split # None
NormalizedSound(d) == d.normalized.text # None =>
                          d.normalized.text = d.transcript /\ HasText(d.transcript) = Segs /\ Undone(d)
SrtSound(d) == d.srt.text # None =>
                   d.srt.text = d.transcript /\ HasText(d.transcript) = Segs /\ d.srt.memory = ForExport(d).memory
Sound(d) == RowsSound(d) /\ SplitSound(d) /\ TranslatedSound(d) /\ NormalizedSound(d) /\ SrtSound(d)

(* The disk when the stage has made the writes it owes. *)
Wiped(d, files) == [f \in Files |-> IF f \in files THEN Empty[f] ELSE d[f]]
Settled ==
    CASE at = "srt"       -> [disk EXCEPT !.srt = ForExport(disk)]
      [] at = "stale srt" -> [disk EXCEPT !.srt = Empty.srt, !.reverts = disk.normalized.text]
      [] at = "reverts"   -> [disk EXCEPT !.reverts = disk.normalized.text]
      [] OTHER            -> Wiped(disk, Names(todo))

Past(n) == left # <<>> /\ Pos(Head(left)) > n

(* A command without align finds no alignment, or a whole one that it does *)
(* not clear.                                                              *)
Spared == \/ disk.aJournal = None
          \/ HasText(disk.aligned) = Segs /\ ~Has(cmd, "correct") /\ ~Forces

(* How far a command has come with the rows. *)
Progress ==
    /\ left # <<>> => cmd.mode \in {"resume", "force"} /\ (Forces => Full(cmd))
    /\ Stage("transcribe", "rows") => \A s \in Segs : s \in pending <=> disk.transcript[s] \notin Texts
    /\ Stage("align", "rows") => \A s \in HasText(disk.transcript) \ pending : disk.aligned[s] \in Texts
    /\ Full(cmd) /\ Past(1) => HasText(disk.transcript) = Segs
    /\ Full(cmd) /\ Past(3) /\ Has(cmd, "align") => HasText(disk.aligned) = Segs
    /\ left # <<>> /\ ~Has(cmd, "align") /\ (Full(cmd) \/ Has(cmd, "split")) => Spared
    /\ (Stage("split", "start") \/ Stage("split", "clear")) /\ ~Full(cmd) /\ disk.aJournal # None =>
         HasText(disk.transcript) = Segs
    /\ Full(cmd) => ended # "gate"
    /\ Exported \/ (Full(cmd) /\ at = "final") => disk.srt.text # None

Clean == excused = {} => Sound(Settled) /\ (Mark = {} => Sound(disk)) /\ Progress

(* What a forced run of all stages has made, excused or not: the rows but  *)
(* for the missing ones, and nothing of the stages after the n-th.         *)
FreshMade(d, missing) ==
    /\ \A s \in Segs \ missing :
         d.transcript[s] # Absent /\ (d.transcript[s] \in Texts <=> d.tJournal[s] \in Texts)
    /\ \A s \in Segs : d.aligned[s] # Absent =>
         /\ d.aligned[s] \in Texts \cup {Failed} /\ d.aJournal[s] = d.aligned[s]
         /\ d.transcript[s] \in Texts
    /\ d.split # None => d.split = AlignText(d)
    /\ d.translated.text # None => d.translated.text = d.split
Unmade(d, n) ==
    /\ n < 3 => d.aligned = None
    /\ n < 4 => d.split = None
    /\ n < 5 => d.translated = Empty.translated
    /\ n < 7 => d.normalized = Empty.normalized
    /\ n < 8 => d.srt = Empty.srt
Missing == IF Stage("transcribe", "rows") THEN pending ELSE {}
Reached == IF at \in {"start", "clear"} THEN Pos(Head(left)) - 1 ELSE Pos(Head(left))
Fresh == left # <<>> /\ Forces /\ Full(cmd) /\ Reached > 0 => FreshMade(disk, Missing) /\ Unmade(disk, Reached)

IInv == TypeOK /\ LeftOK /\ PlaceOK /\ JournalOK /\ Clean /\ Fresh
-----------------------------------------------------------------------------
(* Sequences of stages and of files. *)
LEMMA Positions ==
    /\ Stages = {"transcribe", "correct", "align", "split", "translate", "gate", "normalize", "export"}
    /\ \A s \in Stages : Pos(s) \in 1..8
    /\ \A s, t \in Stages : Pos(s) = Pos(t) => s = t
    /\ \A s, t \in Stages : Precedes(s, t) => Pos(s) < Pos(t)
    /\ Pos("transcribe") = 1 /\ Pos("correct") = 2 /\ Pos("align") = 3 /\ Pos("split") = 4
    /\ Pos("translate") = 5 /\ Pos("gate") = 6 /\ Pos("normalize") = 7 /\ Pos("export") = 8
    /\ Pos("normalize") > 0
<1>1. DOMAIN Order = 1..8 /\ \A i \in 1..8 : Pos(Order[i]) = i
  BY DEF Order, Pos
<1>2. Stages = {"transcribe", "correct", "align", "split", "translate", "gate", "normalize", "export"}
  BY DEF Stages, Order
<1>3. \A s, t \in Stages : Precedes(s, t) => Pos(s) < Pos(t)
  BY <1>1 DEF Precedes
<1>4. \A s \in Stages : Pos(s) \in 1..8
  BY <1>2 DEF Pos
<1>5. \A s, t \in Stages : Pos(s) = Pos(t) => s = t
  BY <1>2 DEF Pos
<1>6. /\ Pos("transcribe") = 1 /\ Pos("correct") = 2 /\ Pos("align") = 3 /\ Pos("split") = 4
      /\ Pos("translate") = 5 /\ Pos("gate") = 6 /\ Pos("normalize") = 7 /\ Pos("export") = 8
  BY DEF Pos
<1> QED
  BY <1>2, <1>3, <1>4, <1>5, <1>6

LEMMA EmptyFiles == DOMAIN Empty = Files
BY DEF Empty, Files

LEMMA ConcatNames ==
    ASSUME NEW S, NEW s \in Seq(S), NEW t \in Seq(S)
    PROVE  Names(s \o t) = Names(s) \cup Names(t)
<1>1. /\ DOMAIN s = 1..Len(s) /\ DOMAIN t = 1..Len(t) /\ DOMAIN (s \o t) = 1..(Len(s) + Len(t))
      /\ Len(s) \in Nat /\ Len(t) \in Nat
  BY ConcatProperties, LenProperties
<1>2. \A i \in 1..Len(s) : (s \o t)[i] = s[i]
  BY <1>1, ConcatProperties
<1>3. \A i \in 1..Len(t) : (s \o t)[i + Len(s)] = t[i]
  BY <1>1, ConcatProperties
<1>4. \A i \in 1..(Len(s) + Len(t)) : i \in 1..Len(s) \/ (i - Len(s) \in 1..Len(t) /\ i = (i - Len(s)) + Len(s))
  BY <1>1
<1>5. ASSUME NEW x \in Names(s \o t) PROVE x \in Names(s) \cup Names(t)
  <2>1. PICK i \in 1..(Len(s) + Len(t)) : x = (s \o t)[i]
    BY <1>1 DEF Names
  <2>2. CASE i \in 1..Len(s)
    BY <2>1, <2>2, <1>1, <1>2 DEF Names
  <2>3. CASE i - Len(s) \in 1..Len(t) /\ i = (i - Len(s)) + Len(s)
    <3>1. (s \o t)[i] = t[i - Len(s)]
      BY <2>3, <1>3
    <3> QED
      BY <2>1, <2>3, <3>1, <1>1 DEF Names
  <2> QED
    BY <1>4, <2>2, <2>3
<1>6. ASSUME NEW x \in Names(s) PROVE x \in Names(s \o t)
  <2>1. PICK i \in 1..Len(s) : x = s[i]
    BY <1>1 DEF Names
  <2>2. i \in 1..(Len(s) + Len(t))
    BY <1>1
  <2> QED
    BY <2>1, <2>2, <1>1, <1>2 DEF Names
<1>7. ASSUME NEW x \in Names(t) PROVE x \in Names(s \o t)
  <2>1. PICK i \in 1..Len(t) : x = t[i]
    BY <1>1 DEF Names
  <2>2. i + Len(s) \in 1..(Len(s) + Len(t))
    BY <1>1
  <2> QED
    BY <2>1, <2>2, <1>1, <1>3 DEF Names
<1> QED
  BY <1>5, <1>6, <1>7

LEMMA TailNames ==
    ASSUME NEW S, NEW s \in Seq(S), s # <<>>
    PROVE  /\ Names(s) = Names(Tail(s)) \cup {Head(s)}
           /\ Len(Tail(s)) = Len(s) - 1 /\ Tail(s) \in Seq(S) /\ Head(s) \in S
<1>1. /\ Len(s) \in Nat \ {0} /\ DOMAIN s = 1..Len(s) /\ DOMAIN Tail(s) = 1..(Len(s) - 1)
      /\ Len(Tail(s)) = Len(s) - 1 /\ Tail(s) \in Seq(S) /\ Head(s) \in S
  BY EmptySeq, LenProperties, HeadTailProperties
<1>2. \A i \in 1..(Len(s) - 1) : Tail(s)[i] = s[i + 1]
  BY <1>1, HeadTailProperties
<1>3. Head(s) = s[1]
  BY <1>1
<1>4. ASSUME NEW x \in Names(s) PROVE x \in Names(Tail(s)) \cup {Head(s)}
  <2>1. PICK i \in 1..Len(s) : x = s[i]
    BY <1>1 DEF Names
  <2>2. CASE i = 1
    BY <2>1, <2>2, <1>3
  <2>3. CASE i # 1
    <3>1. i - 1 \in 1..(Len(s) - 1) /\ (i - 1) + 1 = i
      BY <2>3, <1>1
    <3>2. Tail(s)[i - 1] = s[i]
      BY <3>1, <1>2
    <3> QED
      BY <2>1, <3>1, <3>2, <1>1 DEF Names
  <2> QED
    BY <2>2, <2>3
<1>5. ASSUME NEW x \in Names(Tail(s)) PROVE x \in Names(s)
  <2>1. PICK i \in 1..(Len(s) - 1) : x = Tail(s)[i]
    BY <1>1 DEF Names
  <2>2. i + 1 \in 1..Len(s)
    BY <1>1
  <2> QED
    BY <2>1, <2>2, <1>1, <1>2 DEF Names
<1>6. Head(s) \in Names(s)
  BY <1>1, <1>3 DEF Names
<1> QED
  BY <1>1, <1>4, <1>5, <1>6

LEMMA NoNames == Names(<<>>) = {}
BY DEF Names

(* What the stages clear. *)
LEMMA OfOutputs ==
    /\ \A s \in Stages : OutputsOf(s) \in Seq(Files)
    /\ Names(OutputsOf("transcribe")) = {"transcript", "corrected"}
    /\ Names(OutputsOf("correct")) = {"corrected"}
    /\ Names(OutputsOf("align")) = {"aligned"}
    /\ Names(OutputsOf("split")) = {"split"}
    /\ Names(OutputsOf("translate")) = {"translated"}
    /\ Names(OutputsOf("normalize")) = {"normalized"}
    /\ Names(OutputsOf("export")) = {"srt"}
    /\ Names(OutputsOf("gate")) = {}
BY Positions DEF OutputsOf, Names, Files

LEMMA OfDownstream ==
    /\ DownstreamOf("correct") \in Seq(Files) /\ DownstreamOf("translate") \in Seq(Files)
    /\ DownstreamOf("normalize") \in Seq(Files)
    /\ Names(DownstreamOf("correct")) = {"aligned", "split", "translated", "normalized", "srt"}
    /\ Names(DownstreamOf("translate")) = {"normalized", "srt"}
    /\ Names(DownstreamOf("normalize")) = {"srt"}
BY DEF DownstreamOf, Names, Files

LEMMA OfCleared ==
    /\ \A s \in Stages : Cleared(s) \in Seq(Files)
    /\ Names(Cleared("transcribe")) = {"transcript", "corrected", "aligned", "split", "translated", "normalized", "srt"}
    /\ Names(Cleared("correct")) = {"corrected"}
    /\ Names(Cleared("align")) = {"aligned"}
    /\ Names(Cleared("split")) = {"split"}
    /\ Names(Cleared("translate")) = {"translated", "normalized", "srt"}
    /\ Names(Cleared("normalize")) = {"normalized", "srt"}
    /\ Names(Cleared("export")) = {"srt"}
    /\ Names(Cleared("gate")) = {}
<1>1. /\ Cleared("transcribe") = OutputsOf("transcribe") \o DownstreamOf("correct")
      /\ Cleared("translate") = OutputsOf("translate") \o DownstreamOf("translate")
      /\ Cleared("normalize") = OutputsOf("normalize") \o DownstreamOf("normalize")
      /\ \A s \in {"correct", "align", "split", "gate", "export"} : Cleared(s) = OutputsOf(s)
  BY DEF Cleared
<1>2. \A s, t \in Seq(Files) : s \o t \in Seq(Files) /\ Names(s \o t) = Names(s) \cup Names(t)
  BY ConcatNames, ConcatProperties
<1>3. /\ OutputsOf("transcribe") \in Seq(Files) /\ OutputsOf("translate") \in Seq(Files)
      /\ OutputsOf("normalize") \in Seq(Files)
      /\ \A s \in {"correct", "align", "split", "gate", "export"} : OutputsOf(s) \in Seq(Files)
  BY OfOutputs, Positions
<1>4. Cleared("transcribe") \in Seq(Files) /\ Cleared("translate") \in Seq(Files) /\ Cleared("normalize") \in Seq(Files)
  <2>1. OutputsOf("transcribe") \o DownstreamOf("correct") \in Seq(Files)
    BY <1>2, <1>3, OfDownstream
  <2>2. OutputsOf("translate") \o DownstreamOf("translate") \in Seq(Files)
    BY <1>2, <1>3, OfDownstream
  <2>3. OutputsOf("normalize") \o DownstreamOf("normalize") \in Seq(Files)
    BY <1>2, <1>3, OfDownstream
  <2> QED
    BY <1>1, <2>1, <2>2, <2>3
<1>5. \A s \in Stages : Cleared(s) \in Seq(Files)
  <2>1. \A s \in {"correct", "align", "split", "gate", "export"} : Cleared(s) \in Seq(Files)
    BY <1>1, <1>3
  <2>2. \A s \in Stages : s \in {"correct", "align", "split", "gate", "export"} \/ s = "transcribe" \/ s = "translate" \/ s = "normalize"
    BY Positions
  <2> QED
    BY <1>4, <2>1, <2>2
<1>6. Names(Cleared("transcribe")) = Names(OutputsOf("transcribe")) \cup Names(DownstreamOf("correct"))
  BY <1>1, <1>2, <1>3, OfDownstream
<1>7. Names(Cleared("translate")) = Names(OutputsOf("translate")) \cup Names(DownstreamOf("translate"))
  BY <1>1, <1>2, <1>3, OfDownstream
<1>8. Names(Cleared("normalize")) = Names(OutputsOf("normalize")) \cup Names(DownstreamOf("normalize"))
  BY <1>1, <1>2, <1>3, OfDownstream
<1> QED
  BY <1>1, <1>5, <1>6, <1>7, <1>8, OfOutputs, OfDownstream
-----------------------------------------------------------------------------
(* Rows and disks. *)
LEMMA RowFacts ==
    /\ Absent \notin Texts /\ Failed \notin Texts /\ Silent \notin Texts /\ Absent # Failed /\ Absent # Silent
    /\ None \in Rows /\ HasText(None) = {}
    /\ \A s \in Segs : None[s] = Absent
    /\ \A rows \in Rows : (\A s \in Segs : rows[s] = Absent) => rows = None
    /\ \A rows \in Rows : HasText(rows) = Segs => rows # None
<1>1. Absent \notin Texts /\ Failed \notin Texts /\ Silent \notin Texts /\ Absent # Failed /\ Absent # Silent
  BY PipelineAssumption DEF Absent, Failed, Silent, Texts
<1>2. None \in Rows /\ \A s \in Segs : None[s] = Absent
  BY DEF None, Rows, Row
<1>3. HasText(None) = {}
  BY <1>1, <1>2 DEF HasText
<1>4. ASSUME NEW rows \in Rows, \A s \in Segs : rows[s] = Absent PROVE rows = None
  BY <1>4 DEF Rows, None
<1>5. \A rows \in Rows : HasText(rows) = Segs => rows # None
  BY <1>3, PipelineAssumption
<1> QED
  BY <1>1, <1>2, <1>3, <1>4, <1>5

LEMMA EmptyTyped == Empty \in Disk /\ Empty.translated.text = None /\ Empty.normalized.text = None /\ Empty.srt.text = None
                    /\ Empty.transcript = None /\ Empty.aligned = None /\ Empty.split = None
                    /\ Empty.reverts = None /\ Empty.srt.memory = FALSE
BY RowFacts DEF Empty, Disk

LEMMA DiskFields ==
    ASSUME NEW d \in Disk
    PROVE  /\ d.transcript \in Rows /\ d.tJournal \in Rows /\ d.aligned \in Rows /\ d.aJournal \in Rows
           /\ d.split \in Rows /\ d.reverts \in Rows /\ d.corrected \in Nat
           /\ d.translated \in [text : Rows, full : BOOLEAN]
           /\ d.normalized \in [text : Rows, memory : BOOLEAN, chinese : BOOLEAN]
           /\ d.srt \in [text : Rows, memory : BOOLEAN, chinese : BOOLEAN]
           /\ d.translated.text \in Rows /\ d.normalized.text \in Rows /\ d.srt.text \in Rows
BY DEF Disk

LEMMA LatestTyped == ASSUME NEW d \in Disk PROVE Latest(d) \in Rows
<1>1. [s \in Segs |-> IF d.transcript[s] \in Texts THEN d.transcript[s] ELSE Absent] \in Rows
  BY DEF Rows, Row
<1> QED
  BY <1>1, DiskFields DEF Latest

LEMMA ForExportFields ==
    ASSUME NEW d \in Disk
    PROVE  /\ ForExport(d) \in [text : Rows, memory : BOOLEAN, chinese : BOOLEAN]
           /\ d.normalized.text # None => ForExport(d) = d.normalized
           /\ d.normalized.text = None => ForExport(d).text = Latest(d) /\ ForExport(d).memory = FALSE
BY LatestTyped, DiskFields DEF ForExport

LEMMA AlignTextTyped == ASSUME NEW d \in Disk PROVE AlignText(d) \in Rows
BY DiskFields DEF AlignText, Rows, Row

LEMMA AlignTextFacts ==
    ASSUME NEW d \in Disk
    PROVE  /\ HasText(d.transcript) = Segs /\ HasText(d.aligned) = Segs => AlignText(d) = d.transcript
           /\ d.aligned = None => AlignText(d) = None
<1>1. ASSUME HasText(d.transcript) = Segs, HasText(d.aligned) = Segs PROVE AlignText(d) = d.transcript
  <2>1. \A s \in Segs : d.transcript[s] \in Texts /\ d.aligned[s] # Absent
    BY <1>1, RowFacts DEF HasText
  <2>2. \A s \in Segs : AlignText(d)[s] = d.transcript[s]
    BY <2>1 DEF AlignText
  <2>3. AlignText(d) = [s \in Segs |-> AlignText(d)[s]] /\ d.transcript = [s \in Segs |-> d.transcript[s]]
    BY AlignTextTyped, DiskFields DEF Rows
  <2> QED
    BY <2>2, <2>3
<1>2. ASSUME d.aligned = None PROVE AlignText(d) = None
  <2>1. \A s \in Segs : AlignText(d)[s] = Absent
    BY <1>2, RowFacts DEF AlignText
  <2> QED
    BY <2>1, RowFacts, AlignTextTyped
<1> QED
  BY <1>1, <1>2

LEMMA LatestFacts ==
    ASSUME NEW d \in Disk, SplitSound(d), TranslatedSound(d)
    PROVE  /\ HasText(d.transcript) = Segs => Latest(d) = d.transcript
           /\ d.transcript = None => Latest(d) = None
<1>1. ASSUME d.translated.text = None, d.split = None, HasText(d.transcript) = Segs PROVE Latest(d) = d.transcript
  <2>1. \A s \in Segs : d.transcript[s] \in Texts
    BY <1>1 DEF HasText
  <2>2. d.transcript = [s \in Segs |-> d.transcript[s]]
    BY DiskFields DEF Rows
  <2> QED
    BY <1>1, <2>1, <2>2 DEF Latest
<1>2. ASSUME d.transcript = None PROVE Latest(d) = None
  <2>1. d.split = None
    BY <1>2, RowFacts, PipelineAssumption DEF SplitSound
  <2>2. d.translated.text = None
    BY <2>1 DEF TranslatedSound
  <2>3. \A s \in Segs : d.transcript[s] \notin Texts
    BY <1>2, RowFacts
  <2>4. \A s \in Segs : Latest(d)[s] = Absent
    BY <2>1, <2>2, <2>3 DEF Latest
  <2> QED
    BY <2>4, RowFacts, LatestTyped
<1> QED
  BY <1>1, <1>2 DEF Latest, SplitSound, TranslatedSound

(* Sound does not ask for the correction's report. *)
LEMMA SameSound ==
    ASSUME NEW d, NEW e, Sound(d),
           \A f \in Files \ {"corrected"} : e[f] = d[f]
    PROVE  Sound(e)
<1>1. /\ e.transcript = d.transcript /\ e.tJournal = d.tJournal /\ e.aligned = d.aligned /\ e.aJournal = d.aJournal
      /\ e.split = d.split /\ e.translated = d.translated /\ e.normalized = d.normalized
      /\ e.reverts = d.reverts /\ e.srt = d.srt
  BY DEF Files
<1>2. Undone(e) <=> Undone(d)
  BY <1>1 DEF Undone
<1>3. Latest(e) = Latest(d)
  BY <1>1 DEF Latest
<1>4. ForExport(e) = ForExport(d)
  BY <1>1, <1>3 DEF ForExport
<1> QED
  BY <1>1, <1>2, <1>4 DEF Sound, RowsSound, SplitSound, TranslatedSound, NormalizedSound, SrtSound

(* Before there is a complete transcript there is nothing after the rows,  *)
(* and rows can be added.                                                  *)
LEMMA NothingYet ==
    ASSUME NEW d, Sound(d), HasText(d.transcript) # Segs
    PROVE  d.split = None /\ d.translated.text = None /\ d.normalized.text = None /\ d.srt.text = None
BY DEF Sound, SplitSound, TranslatedSound, NormalizedSound, SrtSound

LEMMA OnlyRows ==
    ASSUME NEW d, RowsSound(d), d.split = None, d.translated.text = None, d.normalized.text = None, d.srt.text = None
    PROVE  Sound(d)
BY DEF Sound, SplitSound, TranslatedSound, NormalizedSound, SrtSound
-----------------------------------------------------------------------------
(* The gate.  What is sound and complete passes. *)
LEMMA ContentPasses ==
    ASSUME NEW d \in Disk, Sound(d), HasText(d.transcript) = Segs,
           HasText(d.aligned) = Segs \/ d.aligned = None, NEW withExport \in BOOLEAN
    PROVE  ~ContentFails(d, withExport)
<1> DEFINE T == d.transcript
           aligned == IF AlignText(d) # None THEN <<AlignText(d)>> ELSE <<>>
           split == IF d.split # None THEN <<d.split>> ELSE <<>>
           srt == IF withExport /\ d.srt.text # None THEN <<d.srt.text>> ELSE <<>>
           chain == <<T>> \o aligned \o split \o srt
<1>1. <<T>> \in Seq({T}) /\ <<>> \in Seq({T})
  OBVIOUS
<1>2. AlignText(d) # None => AlignText(d) = T
  BY AlignTextFacts
<1>3. aligned \in Seq({T})
  BY <1>1, <1>2
<1>4. split \in Seq({T})
  BY <1>1 DEF Sound, SplitSound
<1>5. srt \in Seq({T})
  BY <1>1 DEF Sound, SrtSound
<1>6. chain \in Seq({T})
  <2> HIDE DEF T, aligned, split, srt
  <2>1. <<T>> \o aligned \in Seq({T})
    BY <1>1, <1>3, ConcatProperties
  <2>2. (<<T>> \o aligned) \o split \in Seq({T})
    BY <2>1, <1>4, ConcatProperties
  <2> QED
    BY <2>2, <1>5, ConcatProperties
<1> HIDE DEF chain
<1>7. \A i \in 1..(Len(chain) - 1) : chain[i] = T /\ chain[i + 1] = T
  BY <1>6
<1>8. Conserved(T, T)
  BY DEF Conserved
<1>9. ContentFails(d, withExport) <=> \E i \in 1..(Len(chain) - 1) : ~Conserved(chain[i], chain[i + 1])
  BY DEF ContentFails, chain
<1> HIDE DEF T
<1> QED
  BY <1>7, <1>8, <1>9

LEMMA NormalizePasses ==
    ASSUME NEW d \in Disk, Sound(d), HasText(d.transcript) = Segs
    PROVE  ~NormalizeFails(d)
<1>1. Latest(d) = d.transcript
  BY LatestFacts DEF Sound
<1>2. d.normalized.text # None => Undone(d) /\ d.normalized.text = Latest(d)
  BY <1>1 DEF Sound, NormalizedSound
<1>3. ASSUME d.srt.text # None PROVE d.srt = [ForExport(d) EXCEPT !.chinese = d.srt.chinese]
  <2>1. d.srt.text = d.transcript /\ d.srt.memory = ForExport(d).memory
    BY <1>3 DEF Sound, SrtSound
  <2>2. ForExport(d).text = d.transcript
    BY <1>1, <1>2, ForExportFields
  <2>3. ForExport(d) \in [text : Rows, memory : BOOLEAN, chinese : BOOLEAN]
        /\ d.srt \in [text : Rows, memory : BOOLEAN, chinese : BOOLEAN]
    BY ForExportFields, DiskFields
  <2> QED
    BY <2>1, <2>2, <2>3
<1> QED
  BY <1>2, <1>3 DEF NormalizeFails

LEMMA TranslationPasses ==
    ASSUME NEW d \in Disk, Sound(d)
    PROVE  ~TranslationFails(d)
<1> SUFFICES ASSUME d.translated.text # None PROVE TranslationComplete(d)
  BY DEF TranslationFails
<1>1. d.translated.full /\ d.translated.text = d.transcript /\ d.split = d.transcript
  BY DEF Sound, TranslatedSound, SplitSound
<1> QED
  BY <1>1 DEF TranslationComplete

LEMMA GateOpens ==
    ASSUME NEW d \in Disk, Sound(d), HasText(d.transcript) = Segs,
           HasText(d.aligned) = Segs \/ (d.aligned = None /\ d.aJournal = None),
           NEW withExport \in BOOLEAN, NEW requireSrt \in BOOLEAN, requireSrt => d.srt.text # None
    PROVE  ~GateFails(d, withExport, requireSrt)
<1>1. ~ContentFails(d, withExport)
  BY ContentPasses
<1>2. ~AlignmentFails(d)
  BY RowFacts DEF AlignmentFails, Sound, RowsSound, Absent, Failed, Texts
<1>3. ~CheckpointFails(d)
  <2>1. ASSUME HasText(d.aligned) = Segs, NEW s \in Segs PROVE Complete(d.aligned[s])
    BY <2>1 DEF HasText, Complete
  <2>2. HasText(d.transcript) # {}
    BY PipelineAssumption
  <2>3. HasText(d.transcript) \subseteq Segs
    BY DEF HasText
  <2> QED
    BY <2>1, <2>2, <2>3 DEF CheckpointFails
<1> QED
  BY <1>1, <1>2, <1>3, NormalizePasses, TranslationPasses DEF GateFails

(* With journals, what passes has every row. *)
LEMMA GateAsks ==
    ASSUME NEW d \in Disk, d.transcript # None => d.tJournal # None,
           NEW withExport, NEW requireSrt, ~GateFails(d, withExport, requireSrt)
    PROVE  /\ d.transcript # None => HasText(d.transcript) = Segs
           /\ d.aJournal # None => \A s \in HasText(d.transcript) : Complete(d.aligned[s])
           /\ \A s \in Segs : d.aligned[s] # Failed
           /\ d.translated.text # None => TranslationComplete(d)
           /\ d.normalized.text # None => Undone(d) /\ d.normalized.text = Latest(d)
           /\ d.srt.text # None => d.srt = [ForExport(d) EXCEPT !.chinese = d.srt.chinese]
           /\ requireSrt => d.srt.text # None
BY DEF GateFails, AlignmentFails, NormalizeFails, TranslationFails, CheckpointFails
-----------------------------------------------------------------------------
(* From stage to stage. *)
LEMMA AtHead ==
    ASSUME TypeOK, LeftOK, left # <<>>
    PROVE  /\ Head(left) \in Stages /\ Pos(Head(left)) \in 1..8 /\ Has(cmd, Head(left))
           /\ Full(cmd) => Whole(cmd)
           /\ Full(cmd) /\ Head(left) = "export" => Len(left) = 1
           /\ ~Full(cmd) => Len(left) = 1 /\ \A s \in Stages : Has(cmd, s) => s = Head(left)
<1>1. PICK k \in 1..Len(cmd.stages) : Remains(k)
  BY DEF LeftOK
<1>2. /\ cmd.stages \in Seq(Stages) /\ Len(cmd.stages) \in Nat /\ DOMAIN cmd.stages = 1..Len(cmd.stages)
      /\ DOMAIN left = 1..Len(left) /\ Len(left) \in Nat \ {0} /\ Head(left) = left[1] /\ Head(left) \in Stages
  BY LenProperties, EmptySeq, HeadTailProperties DEF TypeOK
<1>3. Head(left) = cmd.stages[k]
  BY <1>1, <1>2 DEF Remains
<1>4. Has(cmd, Head(left))
  BY <1>1, <1>2, <1>3 DEF Has
<1>5. ASSUME Full(cmd) PROVE Whole(cmd)
  <2>1. cmd.stages[1] = "transcribe"
    BY <1>2, <1>5 DEF Full
  <2>2. PICK i \in 1..Len(cmd.stages) : cmd.stages[i] = "export"
    BY <1>2, <1>5 DEF Full, Has
  <2>3. Len(cmd.stages) # 1
    BY <2>1, <2>2
  <2> QED
    BY <2>3 DEF LeftOK
<1>6. ASSUME Full(cmd), Head(left) = "export" PROVE Len(left) = 1
  <2>1. Ordered(cmd.stages) /\ cmd.stages[Len(cmd.stages)] = "export"
    BY <1>5, <1>6 DEF Whole
  <2>2. ~(k < Len(cmd.stages))
    <3> SUFFICES ASSUME k < Len(cmd.stages) PROVE FALSE
      OBVIOUS
    <3>1. Pos(cmd.stages[k]) < Pos(cmd.stages[Len(cmd.stages)])
      BY <1>1, <1>2, <2>1 DEF Ordered
    <3> QED
      BY <3>1, <2>1, <1>3, <1>6, Positions
  <2> QED
    BY <2>2, <1>1, <1>2 DEF Remains
<1>7. ASSUME ~Full(cmd) PROVE Len(left) = 1 /\ \A s \in Stages : Has(cmd, s) => s = Head(left)
  <2>1. Len(cmd.stages) = 1
    BY <1>7 DEF LeftOK, Whole
  <2>2. k = 1 /\ Len(left) = 1
    BY <2>1, <1>1, <1>2 DEF Remains
  <2> QED
    BY <2>1, <2>2, <1>2, <1>3 DEF Has
<1> QED
  BY <1>2, <1>4, <1>5, <1>6, <1>7, Positions

LEMMA Moves ==
    ASSUME TypeOK, LeftOK, left # <<>>, Proceed, cmd' = cmd
    PROVE  /\ left' \in Seq(Stages) /\ at' \in {"idle", "start"}
           /\ left' = <<>> <=> at' = "idle"
           /\ left' # <<>> =>
                /\ \E k \in 1..Len(cmd.stages) : Remains(k)'
                /\ Full(cmd) /\ Whole(cmd) /\ ended' = ended
                /\ Head(left') \in Stages /\ Pos(Head(left')) > Pos(Head(left)) /\ Pos(Head(left')) > 1
                /\ \A s \in Stages : Has(cmd, s) => Pos(s) <= Pos(Head(left)) \/ Pos(s) >= Pos(Head(left'))
           /\ left' = <<>> => ended' = "ok" /\ (Full(cmd) => Head(left) = "export")
<1>1. PICK k \in 1..Len(cmd.stages) : Remains(k)
  BY DEF LeftOK
<1>2. /\ cmd.stages \in Seq(Stages) /\ Len(cmd.stages) \in Nat /\ DOMAIN cmd.stages = 1..Len(cmd.stages)
      /\ DOMAIN left = 1..Len(left) /\ Len(left) \in Nat \ {0} /\ Head(left) = left[1]
      /\ left \in Seq(Stages)
  BY LenProperties, EmptySeq DEF TypeOK
<1>3. left' = Tail(left) /\ left' \in Seq(Stages) /\ Len(left') = Len(left) - 1 /\ DOMAIN left' = 1..(Len(left) - 1)
  BY <1>2, HeadTailProperties, LenProperties DEF Proceed
<1>3a. \A i \in 1..(Len(left) - 1) : left'[i] = left[i + 1]
  BY <1>2, <1>3, HeadTailProperties
<1>4. left' = <<>> <=> Len(left) = 1
  <2>1. ASSUME NEW q \in Seq(Stages) PROVE q = <<>> <=> Len(q) = 0
    <3>1. q # <<>> => Len(q) \in Nat \ {0}
      BY EmptySeq
    <3>2. Len(<<>>) = 0
      OBVIOUS
    <3>3. q # <<>> => Len(q) # 0
      BY <3>1
    <3> QED
      BY <3>2, <3>3, Zenon
  <2>2. left' = <<>> <=> Len(left') = 0
    BY <2>1, <1>3, Zenon
  <2>3. Len(left') = 0 <=> Len(left) = 1
    BY <1>2, <1>3
  <2> QED
    BY <2>2, <2>3, Zenon
<1>4a. /\ Head(left) \in Stages /\ Pos(Head(left)) \in 1..8
       /\ Full(cmd) => Whole(cmd)
       /\ ~Full(cmd) => Len(left) = 1
  BY AtHead
<1>5. Head(left) = cmd.stages[k]
  BY <1>1, <1>2 DEF Remains
<1>6. ASSUME left' = <<>> PROVE ended' = "ok" /\ at' = "idle" /\ (Full(cmd) => Head(left) = "export")
  <2>1. ended' = "ok" /\ at' = "idle"
    BY <1>4, <1>6 DEF Proceed
  <2>2. k = Len(cmd.stages)
    BY <1>1, <1>2, <1>4, <1>6 DEF Remains
  <2> QED
    BY <2>1, <2>2, <1>5, AtHead DEF Whole
<1>7. ASSUME left' # <<>>
      PROVE  /\ at' = "start" /\ ended' = ended /\ Full(cmd) /\ Whole(cmd)
             /\ Remains(k + 1)' /\ k + 1 \in 1..Len(cmd.stages)
             /\ Head(left') \in Stages /\ Pos(Head(left')) > Pos(Head(left)) /\ Pos(Head(left')) > 1
             /\ \A s \in Stages : Has(cmd, s) => Pos(s) <= Pos(Head(left)) \/ Pos(s) >= Pos(Head(left'))
  <2>1. at' = "start" /\ ended' = ended /\ Len(left) > 1
    <3>1. Len(left) # 1
      BY <1>4, <1>7
    <3>2. at' = "start" /\ ended' = ended
      BY <3>1 DEF Proceed
    <3> QED
      BY <3>1, <3>2, <1>2
  <2>2. Full(cmd) /\ Whole(cmd) /\ Ordered(cmd.stages)
    BY <2>1, <1>2, <1>4a DEF Whole
  <2>3. k + 1 \in 1..Len(cmd.stages)
    BY <2>1, <1>1, <1>2 DEF Remains
  <2>4. \A i \in 1..(Len(left) - 1) : left'[i] = cmd.stages[(k + 1) + i - 1]
    <3> TAKE i \in 1..(Len(left) - 1)
    <3>1. left'[i] = left[i + 1] /\ i + 1 \in DOMAIN left
      BY <1>2, <1>3a
    <3>2. left[i + 1] = cmd.stages[k + (i + 1) - 1]
      BY <3>1, <1>1 DEF Remains
    <3> QED
      BY <3>1, <3>2, <1>2
  <2>5. Remains(k + 1)'
    <3>1. Len(left) = Len(cmd.stages) - k + 1
      BY <1>1 DEF Remains
    <3>2. Len(left') = Len(cmd.stages) - (k + 1) + 1
      BY <3>1, <1>2, <1>3
    <3> QED
      BY <2>3, <2>4, <1>3, <3>2 DEF Remains
  <2>6. Head(left') = left'[1] /\ Head(left') = cmd.stages[k + 1] /\ Head(left') \in Stages
    <3>1. Head(left') = left'[1] /\ Head(left') \in Stages
      BY <1>3, <1>7, HeadTailProperties
    <3>2. 1 \in 1..(Len(left) - 1) /\ (k + 1) + 1 - 1 = k + 1
      BY <1>2, <2>1
    <3> QED
      BY <3>1, <3>2, <2>4
  <2>7. Pos(cmd.stages[k]) < Pos(cmd.stages[k + 1])
    BY <2>2, <2>3, <1>2 DEF Ordered
  <2>8. ASSUME NEW s \in Stages, Has(cmd, s) PROVE Pos(s) <= Pos(Head(left)) \/ Pos(s) >= Pos(Head(left'))
    <3>1. PICK i \in 1..Len(cmd.stages) : s = cmd.stages[i]
      BY <2>8, <1>2 DEF Has
    <3>a. Pos(s) \in 1..8 /\ Pos(Head(left)) \in 1..8 /\ Pos(Head(left')) \in 1..8
      BY <2>8, <2>6, <1>4a, Positions
    <3>b. \A m, n \in 1..Len(cmd.stages) : m < n => Pos(cmd.stages[m]) < Pos(cmd.stages[n])
      BY <2>2, <1>2 DEF Ordered
    <3>2. CASE i < k
      <4>1. Pos(s) < Pos(Head(left))
        BY <3>1, <3>2, <3>b, <1>5
      <4> QED
        BY <4>1, <3>a
    <3>3. CASE i = k
      BY <3>1, <3>3, <3>a, <1>5
    <3>4. CASE i = k + 1
      BY <3>1, <3>4, <3>a, <2>6
    <3>5. CASE i > k + 1
      <4>1. Pos(Head(left')) < Pos(s)
        BY <3>1, <3>5, <3>b, <2>3, <2>6
      <4> QED
        BY <4>1, <3>a
    <3> QED
      BY <3>2, <3>3, <3>4, <3>5, <1>1, <1>2
  <2>9. Pos(Head(left')) > Pos(Head(left)) /\ Pos(Head(left)) \in 1..8 /\ Pos(Head(left')) \in 1..8
    BY <2>6, <2>7, <1>5, AtHead, Positions
  <2> QED
    BY <2>1, <2>2, <2>3, <2>5, <2>6, <2>8, <2>9
<1> QED
  BY <1>3, <1>4, <1>6, <1>7 DEF Proceed
-----------------------------------------------------------------------------
(* Steps that end a stage, and steps within one. *)
Ends == Proceed \/ \E how \in {"failed", "gate", "killed"} : Fails(how)

LEMMA AfterStage ==
    ASSUME TypeOK, LeftOK, left # <<>>, Ends, cmd' = cmd, runs' = runs,
           disk' \in Disk, todo' = <<>>, pending' \subseteq Segs
    PROVE  TypeOK' /\ LeftOK' /\ PlaceOK' /\ at' \in {"idle", "start"}
<1>1. left' \in Seq(Stages) /\ at' \in {"idle", "start"} /\ (left' = <<>> <=> at' = "idle")
  <2>1. CASE Proceed
    BY <2>1, Moves
  <2>2. CASE \E how \in {"failed", "gate", "killed"} : Fails(how)
    BY <2>2 DEF Fails
  <2> QED
    BY <2>1, <2>2 DEF Ends
<1>2. TypeOK'
  <2>1. todo' \in Seq(Files)
    OBVIOUS
  <2>2. at' \in Places
    BY <1>1 DEF Places
  <2> QED
    BY <1>1, <2>1, <2>2 DEF TypeOK
<1>3. LeftOK'
  <2>1. CASE Proceed
    BY <2>1, Moves DEF LeftOK
  <2>2. CASE \E how \in {"failed", "gate", "killed"} : Fails(how)
    BY <2>2 DEF LeftOK, Fails
  <2> QED
    BY <2>1, <2>2 DEF Ends
<1>4. PlaceOK'
  BY <1>1 DEF PlaceOK
<1> QED
  BY <1>1, <1>2, <1>3, <1>4

LEMMA InStage ==
    ASSUME TypeOK, LeftOK, left # <<>>, cmd' = cmd, runs' = runs, left' = left, ended' = ended,
           at' \in Places \ {"idle"}, disk' \in Disk, todo' \in Seq(Files), pending' \subseteq Segs
    PROVE  TypeOK' /\ LeftOK'
<1>1. TypeOK'
  BY DEF TypeOK
<1>2. LeftOK'
  BY DEF LeftOK, Remains, Whole, Full, Has, Ordered
<1> QED
  BY <1>1, <1>2

(* Where no writes are owed it is the disk that is sound. *)
LEMMA NothingOwed ==
    ASSUME at \notin {"srt", "stale srt", "reverts"}, todo = <<>>
    PROVE  Sound(Settled) <=> Sound(disk)
<1>1. Settled = Wiped(disk, {})
  BY NoNames DEF Settled
<1>2. \A f \in Files : Wiped(disk, {})[f] = disk[f]
  BY DEF Wiped
<1>3. Sound(Wiped(disk, {})) => Sound(disk)
  BY <1>2, SameSound
<1>4. Sound(disk) => Sound(Wiped(disk, {}))
  BY <1>2, SameSound
<1> QED
  BY <1>1, <1>3, <1>4

LEMMA CleanAgain ==
    ASSUME at' \notin {"srt", "stale srt", "reverts"}, todo' = <<>>,
           excused' = {} => Sound(disk') /\ Progress'
    PROVE  Clean'
<1>1. Settled' = Wiped(disk', {})
  BY NoNames DEF Settled
<1>2. \A f \in Files : Wiped(disk', {})[f] = disk'[f]
  BY DEF Wiped
<1>3. Sound(disk') => Sound(Wiped(disk', {}))
  BY <1>2, SameSound
<1>4. Sound(Settled') <=> Sound(Settled)'
  BY DEF Sound
<1> QED
  BY <1>1, <1>3 DEF Clean

LEMMA SoundNow ==
    ASSUME IInv, excused = {}, at \notin {"srt", "stale srt", "reverts"}, todo = <<>>
    PROVE  Sound(disk) /\ Progress
BY NothingOwed DEF IInv, Clean

(* Progress is kept where a stage ends that has done its part. *)
LEMMA ProgressEnds ==
    ASSUME TypeOK, LeftOK, Progress, left # <<>>, Ends, cmd' = cmd,
           Full(cmd) /\ left' # <<>> => HasText(disk'.transcript) = Segs,
           Full(cmd) /\ left' # <<>> /\ Pos(Head(left)) >= 3 /\ Has(cmd, "align") => HasText(disk'.aligned) = Segs,
           (disk'.aligned = disk.aligned /\ disk'.aJournal = disk.aJournal) \/ Has(cmd, "align"),
           Full(cmd) => ended' # "gate",
           Full(cmd) /\ ended' = "ok" => disk'.srt.text # None
    PROVE  Progress'
<1>1. CASE left' = <<>>
  <2>1. at' = "idle"
    BY <1>1, Moves DEF Ends, Fails
  <2> QED
    BY <1>1, <2>1 DEF Progress, Stage, Past, Exported
<1>2. CASE left' # <<>>
  <2>1. Proceed
    BY <1>2 DEF Ends, Fails
  <2>2. /\ at' = "start" /\ ended' = "none" /\ Full(cmd) /\ Head(left') \in Stages
        /\ \A s \in Stages : Has(cmd, s) => Pos(s) <= Pos(Head(left)) \/ Pos(s) >= Pos(Head(left'))
    BY <1>2, <2>1, Moves DEF LeftOK
  <2>3. "align" \in Stages /\ Pos("align") = 3 /\ Pos(Head(left)) \in 1..8 /\ Pos(Head(left')) \in 1..8
    BY <2>2, AtHead, Positions DEF Pos
  <2>4. Has(cmd, "align") /\ Pos(Head(left')) > 3 => Pos(Head(left)) >= 3
    BY <2>2, <2>3
  <2>5. (Forces' <=> Forces) /\ Full(cmd') /\ (Has(cmd', "align") <=> Has(cmd, "align"))
    BY <2>2 DEF Forces
  <2>6. left # <<>> => cmd.mode \in {"resume", "force"} /\ (Forces => Full(cmd))
    BY DEF Progress
  <2>7. ~Has(cmd, "align") => Spared
    BY <2>2 DEF Progress
  <2> QED
    BY <1>2, <2>2, <2>4, <2>5, <2>6, <2>7 DEF Progress, Spared, Stage, Past, Exported
<1> QED
  BY <1>1, <1>2

LEMMA Later ==
    ASSUME NEW d, NEW m \in Int, NEW n \in Int, m <= n, Unmade(d, m)
    PROVE  Unmade(d, n)
BY DEF Unmade

LEMMA ReachedEnds ==
    ASSUME TypeOK, LeftOK, left # <<>>, Proceed, cmd' = cmd, left' # <<>>
    PROVE  /\ Reached' \in Int /\ Reached' >= Pos(Head(left)) /\ Reached' > 0 /\ Missing' = {}
           /\ Full(cmd) /\ ended' = "none"
<1>1. /\ at' = "start" /\ Pos(Head(left')) > Pos(Head(left)) /\ Pos(Head(left')) > 1
      /\ Full(cmd) /\ ended' = "none"
  BY Moves DEF LeftOK
<1>2. Pos(Head(left)) \in 1..8 /\ Pos(Head(left')) \in 1..8
  BY Moves, AtHead, Positions
<1> QED
  BY <1>1, <1>2 DEF Reached, Missing, Stage

(* A step that ends a stage. *)
LEMMA EndsStage ==
    ASSUME IInv, left # <<>>, Ends, cmd' = cmd, runs' = runs,
           disk' \in Disk, todo' = <<>>, pending' \subseteq Segs,
           disk'.transcript # None => disk'.tJournal # None,
           disk'.aligned # None => disk'.aJournal # None,
           excused' = {} =>
             /\ excused = {} /\ Progress /\ Sound(disk')
             /\ Full(cmd) /\ left' # <<>> => HasText(disk'.transcript) = Segs
             /\ Full(cmd) /\ left' # <<>> /\ Pos(Head(left)) >= 3 /\ Has(cmd, "align") => HasText(disk'.aligned) = Segs
             /\ (disk'.aligned = disk.aligned /\ disk'.aJournal = disk.aJournal) \/ Has(cmd, "align")
             /\ Full(cmd) => ended' # "gate"
             /\ Full(cmd) /\ ended' = "ok" => disk'.srt.text # None,
           left' # <<>> /\ Forces /\ Full(cmd) => FreshMade(disk', {}) /\ Unmade(disk', Pos(Head(left)))
    PROVE  IInv'
<1>1. TypeOK' /\ LeftOK' /\ PlaceOK' /\ at' \in {"idle", "start"}
  BY AfterStage DEF IInv
<1>2. JournalOK'
  BY <1>1 DEF JournalOK, Stage
<1>3. Clean'
  <2>1. ASSUME excused' = {} PROVE Progress'
    <3>1. /\ Full(cmd) /\ left' # <<>> => HasText(disk'.transcript) = Segs
          /\ Full(cmd) /\ left' # <<>> /\ Pos(Head(left)) >= 3 /\ Has(cmd, "align") => HasText(disk'.aligned) = Segs
          /\ (disk'.aligned = disk.aligned /\ disk'.aJournal = disk.aJournal) \/ Has(cmd, "align")
          /\ Full(cmd) => ended' # "gate"
          /\ Full(cmd) /\ ended' = "ok" => disk'.srt.text # None
          /\ Progress
      BY <2>1
    <3> QED
      BY <3>1, ProgressEnds DEF IInv
  <2>2. at' \notin {"srt", "stale srt", "reverts"}
    BY <1>1
  <2> QED
    BY <2>1, <2>2, CleanAgain
<1>4. Fresh'
  <2> SUFFICES ASSUME left' # <<>>, Forces', Full(cmd') PROVE FreshMade(disk', Missing') /\ Unmade(disk', Reached')
    BY DEF Fresh, FreshMade, Unmade, AlignText
  <2>1. Proceed
    BY DEF Ends, Fails
  <2>2. FreshMade(disk', {}) /\ Unmade(disk', Pos(Head(left))) /\ Pos(Head(left)) \in Int
    BY AtHead DEF Forces, IInv
  <2>3. Reached' \in Int /\ Reached' >= Pos(Head(left)) /\ Missing' = {}
    BY <2>1, ReachedEnds DEF IInv
  <2>4. Unmade(disk', Reached')
    BY <2>2, <2>3, Later
  <2> QED
    BY <2>2, <2>3, <2>4
<1> QED
  BY <1>1, <1>2, <1>3, <1>4 DEF IInv
-----------------------------------------------------------------------------
(* An empty workspace satisfies IInv.                                      *)
THEOREM PipelineInit == Init => IInv
<1> SUFFICES ASSUME Init PROVE IInv
  OBVIOUS
<1>1. Sound(Empty)
  <2>1. RowsSound(Empty)
    BY RowFacts DEF RowsSound, Empty
  <2> QED
    BY <2>1, EmptyTyped, OnlyRows
<1>2. TypeOK
  <2>1. disk \in Disk
    BY EmptyTyped DEF Init
  <2>2. <<>> \in Seq(Stages) /\ <<>> \in Seq(Files) /\ {} \subseteq Segs /\ 0 \in 0..MaxRuns
    BY PipelineAssumption
  <2> QED
    BY <2>1, <2>2 DEF Init, TypeOK, Places
<1>3. LeftOK /\ PlaceOK
  BY DEF Init, LeftOK, PlaceOK
<1>4. JournalOK
  BY RowFacts DEF Init, JournalOK, Stage, Empty
<1>5. Sound(disk) /\ Sound(Settled)
  BY <1>1, NothingOwed DEF Init
<1>6. Progress
  BY DEF Init, Progress, Stage, Past, Full, Exported
<1>7. Clean /\ Fresh
  BY <1>5, <1>6 DEF Clean, Fresh, Init
<1> QED
  BY <1>2, <1>3, <1>4, <1>7 DEF IInv

(* A stage that ends and leaves the disk as it is. *)
LEMMA LeavesDisk ==
    ASSUME IInv, left # <<>>, todo = <<>>, at \in {"clear", "rows", "wipe", "final"}, Ends,
           ~Stage("transcribe", "clear"), Stage("transcribe", "rows") => pending = {},
           disk' = disk, todo' = <<>>, pending' \subseteq Segs, excused' = {} => excused = {}, cmd' = cmd, runs' = runs,
           excused = {} /\ Full(cmd) /\ left' # <<>> /\ Head(left) = "transcribe" => HasText(disk.transcript) = Segs,
           excused = {} /\ Full(cmd) /\ left' # <<>> /\ Head(left) = "align" => HasText(disk.aligned) = Segs,
           excused = {} /\ Full(cmd) => ended' # "gate",
           excused = {} /\ Full(cmd) /\ ended' = "ok" => disk.srt.text # None
    PROVE  IInv'
<1>1. disk' \in Disk /\ (disk'.transcript # None => disk'.tJournal # None) /\ (disk'.aligned # None => disk'.aJournal # None)
  BY DEF IInv, TypeOK, JournalOK
<1>2. Head(left) \in Stages /\ Pos(Head(left)) \in 1..8 /\ Pos("transcribe") = 1 /\ Pos("align") = 3
      /\ "transcribe" \in Stages /\ "align" \in Stages
  BY AtHead, Positions DEF IInv
<1>3. /\ Pos(Head(left)) = 1 => Head(left) = "transcribe"
      /\ Pos(Head(left)) = 3 => Head(left) = "align"
  BY <1>2, Positions
<1>4. ASSUME excused' = {}
      PROVE  /\ excused = {} /\ Progress /\ Sound(disk')
             /\ Full(cmd) /\ left' # <<>> => HasText(disk'.transcript) = Segs
             /\ Full(cmd) /\ left' # <<>> /\ Pos(Head(left)) >= 3 /\ Has(cmd, "align") => HasText(disk'.aligned) = Segs
  <2>1. excused = {} /\ Progress /\ Sound(disk)
    BY <1>4, SoundNow
  <2>2. Pos(Head(left)) = 1 \/ Past(1)
    BY <1>2 DEF Past
  <2>3. Pos(Head(left)) >= 3 => Pos(Head(left)) = 3 \/ Past(3)
    BY <1>2 DEF Past
  <2> QED
    BY <2>1, <2>2, <2>3, <1>3 DEF Progress
<1>5. ASSUME left' # <<>>, Forces, Full(cmd) PROVE FreshMade(disk', {}) /\ Unmade(disk', Pos(Head(left)))
  <2>1. Reached > 0 /\ Reached \in Int /\ Reached <= Pos(Head(left)) /\ Missing = {}
    BY <1>2, <1>3 DEF Reached, Missing, Stage
  <2>2. FreshMade(disk, {}) /\ Unmade(disk, Reached)
    BY <1>5, <2>1 DEF IInv, Fresh
  <2> QED
    BY <2>1, <2>2, <1>2, Later
<1> HIDE DEF IInv
<1> QED
  BY <1>1, <1>4, <1>5, EndsStage

(* Only the export's own gate ends a run of all stages well. *)
LEMMA NotTheEnd ==
    ASSUME TypeOK, LeftOK, left # <<>>, Proceed, cmd' = cmd, Head(left) # "export"
    PROVE  (Full(cmd) => ended' # "gate") /\ (Full(cmd) => ended' # "ok")
BY Moves DEF LeftOK

LEMMA SkipStep ==
    ASSUME IInv, NEW stage \in {"correct", "split", "translate", "normalize"}, Ready(stage), Skip
    PROVE  IInv'
<1>1. /\ left # <<>> /\ at = "clear" /\ todo = <<>> /\ Head(left) = stage /\ Proceed /\ pending \subseteq Segs
      /\ UNCHANGED <<disk, todo, pending, excused, cmd, runs>>
  BY DEF Ready, Stage, Skip, Counters, IInv, TypeOK
<1>2. (Full(cmd) => ended' # "gate") /\ (Full(cmd) => ended' # "ok")
  BY <1>1, NotTheEnd DEF IInv
<1>3. ~Stage("transcribe", "clear") /\ ~Stage("transcribe", "rows") /\ Head(left) \notin {"transcribe", "align"}
  BY <1>1 DEF Stage
<1> QED
  BY <1>1, <1>2, <1>3, LeavesDisk DEF Ends

LEMMA TranscribedStep == ASSUME IInv, Transcribed PROVE IInv'
<1>1. /\ left # <<>> /\ at = "rows" /\ Head(left) = "transcribe" /\ pending = {} /\ todo = <<>>
      /\ UNCHANGED <<disk, todo, pending, excused, cmd, runs>> /\ Stage("transcribe", "rows")
  BY DEF Transcribed, Stage, Counters, IInv, PlaceOK
<1>2. Proceed \/ Fails("failed")
  BY DEF Transcribed
<1>3. Full(cmd) => ended' # "gate" /\ ended' # "ok"
  BY <1>1, <1>2, NotTheEnd DEF IInv, Fails
<1>4. ASSUME excused = {} PROVE HasText(disk.transcript) = Segs
  BY <1>1, <1>4 DEF IInv, Clean, Progress, HasText
<1> QED
  BY <1>1, <1>2, <1>3, <1>4, LeavesDisk DEF Ends, Stage

LEMMA AlignedStep == ASSUME IInv, Aligned PROVE IInv'
<1>1. /\ left # <<>> /\ at = "rows" /\ Head(left) = "align" /\ pending = {} /\ todo = <<>>
      /\ UNCHANGED <<disk, todo, pending, excused, cmd, runs>> /\ Stage("align", "rows")
  BY DEF Aligned, Stage, Counters, IInv, PlaceOK
<1>2. Proceed \/ Fails("failed")
  BY DEF Aligned
<1>3. Full(cmd) => ended' # "gate" /\ ended' # "ok"
  BY <1>1, <1>2, NotTheEnd DEF IInv, Fails
<1>4. ASSUME excused = {}, Full(cmd) PROVE HasText(disk.aligned) = Segs
  <2>1. Past(1)
    BY <1>1, Positions DEF Past
  <2>2. HasText(disk.transcript) = Segs
    BY <2>1, <1>4 DEF IInv, Clean, Progress
  <2> QED
    BY <2>2, <1>1, <1>4 DEF IInv, Clean, Progress, HasText
<1> QED
  BY <1>1, <1>2, <1>3, <1>4, LeavesDisk DEF Ends, Stage

LEMMA CorrectionDoneStep == ASSUME IInv, CorrectionDone PROVE IInv'
<1>1. /\ left # <<>> /\ at = "wipe" /\ Head(left) = "correct" /\ todo = <<>> /\ pending \subseteq Segs
      /\ UNCHANGED <<disk, todo, pending, excused, cmd, runs>>
  BY DEF CorrectionDone, Stage, Counters, IInv, TypeOK
<1>2. Proceed \/ Fails("failed")
  BY DEF CorrectionDone
<1>3. Full(cmd) => ended' # "gate" /\ ended' # "ok"
  BY <1>1, <1>2, NotTheEnd DEF IInv, Fails
<1> QED
  BY <1>1, <1>2, <1>3, LeavesDisk DEF Ends, Stage

LEMMA PastBoth == ASSUME TypeOK, LeftOK, left # <<>>, Pos(Head(left)) > 3 PROVE Past(3) /\ Past(1)
<1>1. Pos(Head(left)) \in 1..8
  BY AtHead
<1> QED
  BY <1>1 DEF Past

(* When nothing is excused, the gate is open to a run that has come to it. *)
LEMMA GateIsOpen ==
    ASSUME IInv, excused = {}, left # <<>>, Full(cmd), Pos(Head(left)) > 3, todo = <<>>,
           at \notin {"srt", "stale srt", "reverts"},
           NEW withExport \in BOOLEAN, NEW requireSrt \in BOOLEAN, requireSrt => disk.srt.text # None
    PROVE  ~GateFails(disk, withExport, requireSrt)
<1>1. Sound(disk) /\ Progress
  BY SoundNow
<1>2. Past(3) /\ Past(1)
  BY PastBoth DEF IInv
<1>3. HasText(disk.transcript) = Segs
  BY <1>1, <1>2 DEF Progress
<1>4. HasText(disk.aligned) = Segs \/ (disk.aligned = None /\ disk.aJournal = None)
  BY <1>1, <1>2 DEF Progress, Spared, IInv, JournalOK
<1>5. disk \in Disk
  BY DEF IInv, TypeOK
<1> QED
  BY <1>1, <1>3, <1>4, <1>5, GateOpens

LEMMA GateStep == ASSUME IInv, Gate PROVE IInv'
<1>1. /\ left # <<>> /\ at = "clear" /\ Head(left) = "gate" /\ todo = <<>> /\ pending \subseteq Segs
      /\ UNCHANGED <<disk, todo, pending, excused, cmd, runs>>
  BY DEF Gate, Ready, Stage, Counters, IInv, TypeOK
<1>2. Proceed \/ (Fails("gate") /\ GateFails(disk, FALSE, FALSE))
  BY DEF Gate
<1>3. ASSUME excused = {}, Full(cmd) PROVE ended' # "gate" /\ ended' # "ok"
  <2>1. Pos(Head(left)) > 3 /\ at \notin {"srt", "stale srt", "reverts"}
    BY <1>1, Positions
  <2>1a. ~GateFails(disk, FALSE, FALSE)
    BY <1>1, <1>3, <2>1, GateIsOpen
  <2> QED
    BY <1>1, <1>2, <1>3, <2>1a, NotTheEnd DEF IInv
<1> QED
  BY <1>1, <1>2, <1>3, LeavesDisk DEF Ends, Stage

LEMMA ClosedStep == ASSUME IInv, NEW stage \in {"normalize", "export"}, Closed(stage) PROVE IInv'
<1>1. /\ left # <<>> /\ at = "clear" /\ Head(left) = stage /\ todo = <<>> /\ pending \subseteq Segs
      /\ UNCHANGED <<disk, todo, pending, excused, cmd, runs>> /\ Fails("gate") /\ GateFails(disk, FALSE, FALSE)
  BY DEF Closed, Ready, Stage, Counters, IInv, TypeOK
<1>2. ASSUME excused = {}, Full(cmd) PROVE FALSE
  <2>1. Pos(Head(left)) > 3
    BY <1>1, Positions
  <2> QED
    BY <1>1, <1>2, <2>1, GateIsOpen
<1>3. ended' = "gate" /\ left' = <<>>
  BY <1>1 DEF Fails
<1> QED
  BY <1>1, <1>2, <1>3, LeavesDisk DEF Ends, Stage
LEMMA KillStep == ASSUME IInv, Kill PROVE IInv'
<1>1. /\ left # <<>> /\ left' = <<>> /\ ended' = "killed" /\ todo' = <<>> /\ pending' = {} /\ Ends
      /\ UNCHANGED <<disk, cmd, runs>> /\ excused' = excused \cup Mark
  BY DEF Kill, Fails, Ends
<1>2. disk' \in Disk /\ (disk'.transcript # None => disk'.tJournal # None) /\ (disk'.aligned # None => disk'.aJournal # None)
  BY <1>1 DEF IInv, TypeOK, JournalOK
<1>3. ASSUME excused' = {} PROVE excused = {} /\ Progress /\ Sound(disk')
  BY <1>1, <1>3 DEF IInv, Clean
<1> QED
  BY <1>1, <1>2, <1>3, EndsStage

(* What a forced run of all stages has made, and the gate has let through, *)
(* is sound.                                                               *)
LEMMA FreshSound ==
    ASSUME NEW d \in Disk, d.transcript # None => d.tJournal # None, d.aligned # None => d.aJournal # None,
           FreshMade(d, {}), ~GateFails(d, TRUE, TRUE)
    PROVE  Sound(d) /\ HasText(d.transcript) = Segs /\ d.srt.text # None
<1>1. /\ d.transcript # None => HasText(d.transcript) = Segs
      /\ d.aJournal # None => \A s \in HasText(d.transcript) : Complete(d.aligned[s])
      /\ \A s \in Segs : d.aligned[s] # Failed
      /\ d.translated.text # None => TranslationComplete(d)
      /\ d.normalized.text # None => Undone(d) /\ d.normalized.text = Latest(d)
      /\ d.srt.text # None => d.srt = [ForExport(d) EXCEPT !.chinese = d.srt.chinese]
      /\ d.srt.text # None
  BY GateAsks
<1>2. HasText(d.transcript) = Segs /\ \A s \in Segs : d.transcript[s] \in Texts /\ d.tJournal[s] \in Texts
  <2>1. \A s \in Segs : d.transcript[s] # Absent /\ (d.transcript[s] \in Texts <=> d.tJournal[s] \in Texts)
    BY DEF FreshMade
  <2>2. d.transcript # None
    BY <2>1, RowFacts, PipelineAssumption
  <2>3. HasText(d.transcript) = Segs
    BY <2>2, <1>1
  <2> QED
    BY <2>1, <2>3 DEF HasText
<1>3. \A s \in Segs : d.aligned[s] # Absent => d.aligned[s] \in Texts /\ d.aJournal[s] = d.aligned[s]
  BY <1>1 DEF FreshMade
<1>4. ASSUME d.aJournal # None PROVE HasText(d.aligned) = Segs
  <2>1. \A s \in Segs : Complete(d.aligned[s])
    BY <1>1, <1>2, <1>4
  <2>2. \A s \in Segs : d.aligned[s] \in Texts
    BY <2>1, <1>3, RowFacts DEF Complete
  <2> QED
    BY <2>2 DEF HasText
<1>5. RowsSound(d)
  <2>1. ASSUME NEW s \in Segs
        PROVE  d.aligned[s] \in Texts \cup {Absent} /\ d.aJournal[s] \in Texts \cup {Absent}
    <3>1. CASE d.aJournal = None
      BY <3>1, <1>3, RowFacts
    <3>2. CASE d.aJournal # None
      BY <3>2, <1>3, <1>4, RowFacts DEF HasText
    <3> QED
      BY <3>1, <3>2
  <2> QED
    BY <2>1, <1>2 DEF RowsSound
<1>6. SplitSound(d)
  <2> SUFFICES ASSUME d.split # None PROVE d.split = d.transcript /\ HasText(d.aligned) = Segs
    BY <1>2 DEF SplitSound
  <2>1. d.split = AlignText(d)
    BY DEF FreshMade
  <2>2. d.aligned # None
    BY <2>1, AlignTextFacts
  <2>3. HasText(d.aligned) = Segs
    BY <2>2, <1>4
  <2> QED
    BY <2>1, <2>3, <1>2, AlignTextFacts
<1>7. TranslatedSound(d)
  <2> SUFFICES ASSUME d.translated.text # None
               PROVE  d.translated.full /\ d.translated.text = d.transcript /\ d.split # None
    BY DEF TranslatedSound
  <2>1. d.translated.text = d.split
    BY DEF FreshMade
  <2>2. d.split # None
    BY <2>1
  <2> QED
    BY <2>1, <2>2, <1>1, <1>6 DEF SplitSound, TranslationComplete
<1>8. Latest(d) = d.transcript
  BY <1>2, <1>6, <1>7, LatestFacts
<1>9. NormalizedSound(d)
  BY <1>1, <1>2, <1>8 DEF NormalizedSound
<1>10. SrtSound(d)
  <2>1. d.srt = [ForExport(d) EXCEPT !.chinese = d.srt.chinese]
    BY <1>1
  <2>2. ForExport(d) \in [text : Rows, memory : BOOLEAN, chinese : BOOLEAN]
    BY ForExportFields
  <2>3. d.srt.text = ForExport(d).text /\ d.srt.memory = ForExport(d).memory
    BY <2>1, <2>2
  <2>4. ForExport(d).text = d.transcript
    BY <1>1, <1>8, ForExportFields
  <2> QED
    BY <2>3, <2>4, <1>2 DEF SrtSound
<1> QED
  BY <1>1, <1>2, <1>5, <1>6, <1>7, <1>9, <1>10 DEF Sound

LEMMA FinalGateStep == ASSUME IInv, FinalGate PROVE IInv'
<1>1. /\ left # <<>> /\ at = "final" /\ Head(left) = "export" /\ todo = <<>> /\ pending \subseteq Segs
      /\ UNCHANGED <<disk, todo, pending, cmd, runs>>
      /\ Proceed \/ (Fails("gate") /\ Full(cmd) /\ GateFails(disk, TRUE, TRUE))
  BY DEF FinalGate, Stage, Counters, IInv, TypeOK, PlaceOK
<1>2. ASSUME Full(cmd), excused = {} PROVE disk.srt.text # None /\ ended' # "gate"
  <2>1. disk.srt.text # None
    BY <1>1, <1>2 DEF IInv, Clean, Progress
  <2>2. Pos(Head(left)) > 3
    BY <1>1, Positions
  <2>3. ~GateFails(disk, TRUE, TRUE)
    BY <1>1, <1>2, <2>1, <2>2, GateIsOpen
  <2>4. Proceed
    BY <1>1, <2>3
  <2> QED
    BY <2>1, <2>4, <1>1, Moves DEF IInv, LeftOK
<1>3. CASE excused' = excused
  <2>1. ~Stage("transcribe", "clear") /\ ~Stage("transcribe", "rows") /\ Head(left) \notin {"transcribe", "align"}
    BY <1>1 DEF Stage
  <2>2. Ends
    BY <1>1 DEF Ends
  <2> QED
    BY <1>1, <1>2, <1>3, <2>1, <2>2, LeavesDisk
<1>4. CASE excused' # excused
  <2>1. Full(cmd) /\ Forces /\ ended' = "ok"
    BY <1>4 DEF FinalGate, Forces
  <2>2. ended' # "gate"
    BY <2>1
  <2>3. Proceed /\ ~GateFails(disk, TRUE, TRUE)
    BY <2>1, <2>2 DEF FinalGate, Fails
  <2>4. Len(left) = 1 /\ left' = <<>> /\ at' = "idle"
    <3>1. Len(left) = 1
      BY <1>1, <2>1, AtHead DEF IInv
    <3>2. at' = "idle"
      BY <3>1, <2>3 DEF Proceed
    <3> QED
      BY <3>1, <3>2, <2>3, <1>1, Moves DEF IInv
  <2>5. FreshMade(disk, {})
    <3>1. Reached = Pos(Head(left)) /\ Missing = {}
      BY <1>1 DEF Reached, Missing, Stage
    <3>2. Reached > 0
      BY <3>1, <1>1, Positions
    <3> QED
      BY <3>1, <3>2, <2>1, <1>1 DEF IInv, Fresh
  <2>6. Sound(disk) /\ disk.srt.text # None
    BY <2>3, <2>5, FreshSound DEF IInv, TypeOK, JournalOK
  <2>7. TypeOK' /\ LeftOK' /\ PlaceOK'
    BY <1>1, <2>3, AfterStage DEF IInv, TypeOK, Ends
  <2>8. JournalOK' /\ Fresh'
    BY <1>1, <2>4 DEF IInv, JournalOK, Fresh, Stage
  <2>9. Progress'
    BY <1>1, <2>1, <2>4, <2>6 DEF Progress, Stage, Past, Exported
  <2>10. Clean'
    BY <1>1, <2>4, <2>6, <2>9, CleanAgain
  <2> QED
    BY <2>7, <2>8, <2>10 DEF IInv
<1> QED
  BY <1>3, <1>4
-----------------------------------------------------------------------------
(* A command begins, and a stage clears its outputs. *)
LEMMA BeginStep == ASSUME IInv, NEW c \in Commands, Begin(c) PROVE IInv'
<1>1. /\ c.mode \in {"resume", "force", "plain"} /\ c.memory \in BOOLEAN
      /\ c.stages \in Seq(Stages)
      /\ Len(c.stages) = 1 \/ Whole(c)
  <2>1. {Order[i] : i \in DOMAIN Order} = Stages
    BY DEF Stages
  <2>2. c.stages \in Seq(Stages)
    BY <2>1, CommandsAssumption
  <2>3. ASSUME \A i, j \in DOMAIN c.stages : i < j => Precedes(c.stages[i], c.stages[j]) PROVE Ordered(c.stages)
    <3>1. \A i \in DOMAIN c.stages : c.stages[i] \in Stages
      BY <2>2, LenProperties
    <3> QED
      BY <2>3, <3>1, Positions DEF Ordered
  <2> QED
    BY <2>2, <2>3, CommandsAssumption DEF Whole
<1>2. /\ left = <<>> /\ at = "idle" /\ todo = <<>> /\ at' = "start" /\ cmd' = c /\ left' = c.stages /\ ended' = "none"
      /\ runs' = runs + 1 /\ runs < MaxRuns /\ UNCHANGED <<disk, todo, pending>>
  BY DEF Begin, IInv, LeftOK, PlaceOK
<1>3. c.stages # <<>> /\ 1 \in 1..Len(c.stages) /\ Len(c.stages) \in Nat /\ DOMAIN c.stages = 1..Len(c.stages)
  <2>1. c.stages # <<>>
    BY <1>1, SMTT(30) DEF Whole, Full
  <2> QED
    BY <2>1, <1>1, EmptySeq, LenProperties
<1>4. TypeOK'
  <2>1. runs' \in 0..MaxRuns /\ runs' > 0
    BY <1>2, PipelineAssumption DEF IInv, TypeOK
  <2>2. at' \in Places
    BY <1>2 DEF Places
  <2>3. cmd'.mode \in {"resume", "force", "plain"} /\ cmd'.memory \in BOOLEAN /\ cmd'.stages \in Seq(Stages) /\ left' \in Seq(Stages)
    BY <1>1, <1>2
  <2> QED
    BY <1>2, <2>1, <2>2, <2>3 DEF IInv, TypeOK
<1>5. LeftOK'
  <2>1. Remains(1)'
    <3>1. Len(left') = Len(cmd'.stages) - 1 + 1 /\ 1 \in 1..Len(cmd'.stages)
      BY <1>2, <1>3
    <3>2. \A i \in DOMAIN left' : left'[i] = cmd'.stages[1 + i - 1]
      BY <1>2, <1>3
    <3> QED
      BY <3>1, <3>2 DEF Remains
  <2>2. \E k \in 1..Len(cmd'.stages) : Remains(k)'
    BY <2>1, <1>2, <1>3
  <2> QED
    BY <2>2, <1>1, <1>2, <1>3 DEF LeftOK
<1>6. PlaceOK' /\ JournalOK'
  BY <1>2 DEF IInv, PlaceOK, JournalOK, Stage
<1>7. Full(c) => Head(left') = "transcribe" /\ Pos(Head(left')) = 1
  BY <1>2, Positions DEF Full
<1>8. ASSUME excused' = {} PROVE Sound(disk') /\ Progress'
  <2>1. /\ excused = {} /\ ~LeavesOut(c) /\ c.mode # "plain" /\ (c.mode = "force" => Full(c))
    BY <1>8 DEF Begin
  <2>2. Sound(disk)
    BY <2>1, <1>2, SoundNow
  <2>3. ~Has(c, "align") /\ (Full(c) \/ Has(c, "split")) /\ disk.aJournal # None =>
          /\ HasText(disk.aligned) = Segs
          /\ Full(c) => ~Has(c, "correct") /\ c.mode # "force"
          /\ ~Full(c) => HasText(disk.transcript) = Segs
    BY <2>1 DEF LeavesOut
  <2>4. ASSUME ~Full(c)
        PROVE  /\ Head(c.stages) = "split" => Has(c, "split")
               /\ Has(c, "split") => ~Has(c, "correct") /\ ~Has(c, "align")
    <3>1. Len(c.stages) = 1
      BY <1>1, <2>4 DEF Whole
    <3>2. DOMAIN c.stages = {1} /\ Head(c.stages) = c.stages[1]
      BY <1>1, <1>3, <3>1
    <3> QED
      BY <3>2 DEF Has
  <2>5. /\ ~Has(cmd', "align") /\ (Full(cmd') \/ Has(cmd', "split")) => Spared'
        /\ ~Full(cmd') /\ Head(left') = "split" /\ disk'.aJournal # None => HasText(disk'.transcript) = Segs
    BY <2>1, <2>3, <2>4, <1>2 DEF Spared, Forces
  <2> QED
    BY <2>1, <2>2, <2>5, <1>1, <1>2, <1>7 DEF Progress, Stage, Past, Exported, Forces
<1>9. Clean'
  BY <1>2, <1>8, CleanAgain
<1>10. Fresh'
  <2>1. Full(c) => Reached' = 0
    BY <1>2, <1>7 DEF Reached
  <2> QED
    BY <2>1, <1>2 DEF Fresh
<1> QED
  BY <1>4, <1>5, <1>6, <1>9, <1>10 DEF IInv

(* In a forced run of all stages, there is nothing to clear after the      *)
(* first of them but the correction's report.                              *)
LEMMA NothingToClear ==
    ASSUME NEW stage \in Stages \ {"transcribe"}, NEW d, Unmade(d, Pos(stage) - 1)
    PROVE  \A f \in Names(Cleared(stage)) \ {"corrected"} : d[f] = Empty[f]
<1>1. CASE stage \in {"correct", "gate"}
  BY <1>1, OfCleared
<1>2. CASE stage = "align"
  BY <1>2, OfCleared, EmptyTyped, Positions, SMTT(30) DEF Unmade
<1>3. CASE stage = "split"
  BY <1>3, OfCleared, EmptyTyped, Positions DEF Unmade
<1>4. CASE stage = "translate"
  <2>1. Pos(stage) - 1 = 4
    BY <1>4, Positions
  <2>2. Unmade(d, 4)
    BY <2>1
  <2>3. d.translated = Empty.translated /\ d.normalized = Empty.normalized /\ d.srt = Empty.srt
    BY <2>2 DEF Unmade
  <2>4. Names(Cleared(stage)) = {"translated", "normalized", "srt"}
    BY <1>4, OfCleared
  <2> QED
    BY <2>3, <2>4
<1>5. CASE stage = "normalize"
  <2>1. Pos(stage) - 1 = 6
    BY <1>5, Positions
  <2>2. Unmade(d, 6)
    BY <2>1
  <2>3. d.normalized = Empty.normalized /\ d.srt = Empty.srt
    BY <2>2 DEF Unmade
  <2>4. Names(Cleared(stage)) = {"normalized", "srt"}
    BY <1>5, OfCleared
  <2> QED
    BY <2>3, <2>4
<1>6. CASE stage = "export"
  BY <1>6, OfCleared, EmptyTyped, Positions DEF Unmade
<1> QED
  BY <1>1, <1>2, <1>3, <1>4, <1>5, <1>6, Positions

LEMMA NothingAfterCorrect ==
    ASSUME NEW d, Unmade(d, 2)
    PROVE  \A f \in Names(DownstreamOf("correct")) : d[f] = Empty[f]
BY OfDownstream, EmptyTyped DEF Unmade

LEMMA SameFresh ==
    ASSUME NEW d, NEW e, NEW missing, NEW n, FreshMade(d, missing), Unmade(d, n),
           \A f \in Files \ {"corrected"} : e[f] = d[f]
    PROVE  FreshMade(e, missing) /\ Unmade(e, n)
<1>1. /\ e.transcript = d.transcript /\ e.tJournal = d.tJournal /\ e.aligned = d.aligned /\ e.aJournal = d.aJournal
      /\ e.split = d.split /\ e.translated = d.translated /\ e.normalized = d.normalized /\ e.srt = d.srt
  BY DEF Files
<1>2. AlignText(e) = AlignText(d)
  BY <1>1 DEF AlignText
<1> QED
  BY <1>1, <1>2 DEF FreshMade, Unmade

LEMMA EnterStep == ASSUME IInv, Enter PROVE IInv'
<1>1. /\ left # <<>> /\ at = "start" /\ at' = "clear" /\ todo = <<>>
      /\ UNCHANGED <<disk, left, pending, ended, excused, cmd, runs>>
      /\ todo' = IF Forces THEN Cleared(Head(left)) ELSE <<>>
      /\ Head(left) \in Stages
  BY AtHead DEF Enter, Counters, IInv, PlaceOK
<1>2. todo' \in Seq(Files)
  BY <1>1, OfCleared
<1>3. TypeOK' /\ LeftOK'
  BY <1>1, <1>2, InStage DEF IInv, TypeOK, Places
<1>4. PlaceOK'
  <2>1. Len(todo') \in Nat
    BY <1>2, LenProperties
  <2> QED
    BY <1>1, <2>1 DEF PlaceOK, Forces
<1>5. JournalOK'
  BY <1>1 DEF IInv, JournalOK, Stage
<1>6. Reached' = Reached /\ Missing' = Missing /\ Reached = Pos(Head(left)) - 1
  BY <1>1 DEF Reached, Missing, Stage
<1>7. Fresh'
  BY <1>1, <1>6 DEF IInv, Fresh, Forces, FreshMade, Unmade, AlignText
<1>8. ASSUME excused = {} PROVE Sound(Settled') /\ Sound(disk') /\ Progress'
  <2>1. Sound(disk) /\ Progress
    BY <1>1, <1>8, SoundNow
  <2>2. Settled' = Wiped(disk, Names(todo'))
    BY <1>1 DEF Settled
  <2>3. Progress'
    BY <1>1, <2>1 DEF Progress, Spared, Stage, Past, Exported, Forces
  <2>4. ASSUME \A f \in Names(todo') \ {"corrected"} : disk[f] = Empty[f] PROVE Sound(Settled')
    <3>1. \A f \in Files \ {"corrected"} : Wiped(disk, Names(todo'))[f] = disk[f]
      BY <2>4 DEF Wiped
    <3> QED
      BY <3>1, <2>1, <2>2, SameSound
  <2>5. Sound(Settled')
    <3>1. CASE ~Forces
      BY <1>1, <2>4, <3>1, NoNames
    <3>2. CASE Forces /\ Head(left) = "transcribe"
      <4> DEFINE e == Wiped(disk, Names(Cleared("transcribe")))
      <4>1. /\ e.transcript = None /\ e.aligned = None /\ e.split = None /\ e.tJournal = disk.tJournal
            /\ e.aJournal = disk.aJournal /\ e.translated.text = None /\ e.normalized.text = None /\ e.srt.text = None
        BY OfCleared, EmptyTyped DEF Wiped, Files
      <4>2. Settled' = e
        BY <1>1, <2>2, <3>2
      <4> HIDE DEF e
      <4>3. RowsSound(e)
        BY <4>1, <2>1, RowFacts DEF Sound, RowsSound
      <4> QED
        BY <4>1, <4>2, <4>3, OnlyRows
    <3>3. CASE Forces /\ Head(left) # "transcribe"
      <4>1. Full(cmd)
        BY <1>1, <2>1, <3>3 DEF Progress
      <4>2. Pos(Head(left)) \in 1..8 /\ Pos(Head(left)) # 1
        BY <1>1, <3>3, Positions
      <4>3. Unmade(disk, Pos(Head(left)) - 1)
        BY <4>1, <4>2, <1>1, <1>6, <3>3 DEF IInv, Fresh
      <4>4. \A f \in Names(Cleared(Head(left))) \ {"corrected"} : disk[f] = Empty[f]
        BY <4>3, <1>1, <3>3, NothingToClear
      <4> QED
        BY <4>4, <1>1, <2>4, <3>3
    <3> QED
      BY <3>1, <3>2, <3>3
  <2> QED
    BY <1>1, <2>1, <2>3, <2>5
<1>9. Clean'
  <2>1. Sound(Settled') <=> Sound(Settled)'
    BY DEF Sound
  <2> QED
    BY <1>1, <1>8, <2>1 DEF Clean
<1> QED
  BY <1>3, <1>4, <1>5, <1>7, <1>9 DEF IInv
LEMMA OneEmptied ==
    ASSUME NEW d \in Disk, NEW f \in Files
    PROVE  /\ [d EXCEPT ![f] = Empty[f]] \in Disk
           /\ \A g \in Files : [d EXCEPT ![f] = Empty[f]][g] = IF g = f THEN Empty[f] ELSE d[g]
<1> DEFINE e == [d EXCEPT ![f] = Empty[f]]
<1>1. DOMAIN d = Files
  BY DEF Disk, Files
<1>2. \A g \in Files : e[g] = IF g = f THEN Empty[f] ELSE d[g]
  BY <1>1
<1>3. DOMAIN e = Files
  BY <1>1
<1>4. /\ Empty.transcript \in Rows /\ Empty.tJournal \in Rows /\ Empty.corrected \in Nat /\ Empty.aligned \in Rows
      /\ Empty.aJournal \in Rows /\ Empty.split \in Rows /\ Empty.reverts \in Rows
      /\ Empty.translated \in [text : Rows, full : BOOLEAN]
      /\ Empty.normalized \in [text : Rows, memory : BOOLEAN, chinese : BOOLEAN]
      /\ Empty.srt \in [text : Rows, memory : BOOLEAN, chinese : BOOLEAN]
  BY EmptyTyped, DiskFields
<1>5. e = [g \in Files |-> e[g]]
  BY <1>3
<1> HIDE DEF e
<1>6. e["transcript"] \in Rows
  BY <1>2, <1>4, DiskFields DEF Files
<1>7. e["tJournal"] \in Rows
  BY <1>2, <1>4, DiskFields DEF Files
<1>8. e["corrected"] \in Nat
  BY <1>2, <1>4, DiskFields DEF Files
<1>9. e["aligned"] \in Rows
  BY <1>2, <1>4, DiskFields DEF Files
<1>10. e["aJournal"] \in Rows
  BY <1>2, <1>4, DiskFields DEF Files
<1>11. e["split"] \in Rows
  BY <1>2, <1>4, DiskFields DEF Files
<1>12. e["reverts"] \in Rows
  BY <1>2, <1>4, DiskFields DEF Files
<1>13. e["translated"] \in [text : Rows, full : BOOLEAN]
  BY <1>2, <1>4, DiskFields DEF Files
<1>14. e["normalized"] \in [text : Rows, memory : BOOLEAN, chinese : BOOLEAN]
  BY <1>2, <1>4, DiskFields DEF Files
<1>15. e["srt"] \in [text : Rows, memory : BOOLEAN, chinese : BOOLEAN]
  BY <1>2, <1>4, DiskFields DEF Files
<1>16. e \in Disk
  BY <1>5, <1>6, <1>7, <1>8, <1>9, <1>10, <1>11, <1>12, <1>13, <1>14, <1>15 DEF Disk, Files
<1> QED
  BY <1>2, <1>16 DEF e

LEMMA CorrectComesEarly == \A s \in {"transcribe", "correct", "align"} : Pos(s) <= 3
BY Positions

(* An unlinked file was one that is cleared, and no journal. *)
LEMMA UnlinkedFile ==
    ASSUME IInv, left # <<>>, at \in {"clear", "wipe"}, todo # <<>>
    PROVE  /\ Head(todo) \in Files \ {"tJournal", "aJournal", "reverts"}
           /\ Head(left) = "transcribe" \/ Head(todo) # "transcript"
           /\ Pos(Head(left)) <= 3 \/ Head(todo) # "aligned"
           /\ at = "clear" => Forces /\ Head(todo) \in Names(Cleared(Head(left)))
           /\ at = "wipe" => Head(left) = "correct" /\ Head(todo) \in Names(DownstreamOf("correct"))
<1>1. Head(left) \in Stages /\ todo \in Seq(Files)
  BY AtHead DEF IInv, TypeOK
<1>2. Head(todo) \in Names(todo) /\ Head(todo) \in Files
  BY <1>1, TailNames
<1>3. CASE at = "clear"
  <2>1. Forces /\ Head(todo) \in Names(Cleared(Head(left)))
    BY <1>2, <1>3 DEF IInv, PlaceOK
  <2>2. CASE Head(left) = "transcribe"
    <3>1. Pos(Head(left)) <= 3
      BY <2>2, CorrectComesEarly, Zenon
    <3>2. Head(todo) \notin {"tJournal", "aJournal", "reverts"}
      BY <2>1, <2>2, OfCleared
    <3> QED
      BY <1>2, <1>3, <2>1, <2>2, <3>1, <3>2
  <2>3. CASE Head(left) \in {"correct", "align"}
    <3>1. Pos(Head(left)) <= 3
      BY <2>3, CorrectComesEarly, Zenon
    <3>2. Head(todo) \notin {"tJournal", "aJournal", "reverts", "transcript"}
      BY <2>1, <2>3, OfCleared
    <3> QED
      BY <1>2, <1>3, <2>1, <2>3, <3>1, <3>2
  <2>4. CASE Head(left) \in {"split", "translate", "gate", "normalize", "export"}
    BY <1>2, <1>3, <2>1, <2>4, OfCleared
  <2> QED
    BY <1>1, <2>2, <2>3, <2>4, Positions
<1>4. CASE at = "wipe"
  <2>1. Head(left) = "correct" /\ Head(todo) \in Names(DownstreamOf("correct"))
    BY <1>2, <1>4 DEF IInv, PlaceOK
  <2>2. Head(todo) \notin {"tJournal", "aJournal", "reverts", "transcript"}
    BY <2>1, OfDownstream
  <2>3. Pos(Head(left)) <= 3
    BY <2>1, CorrectComesEarly, Zenon
  <2> QED
    BY <1>2, <1>4, <2>1, <2>2, <2>3
<1> QED
  BY <1>3, <1>4

LEMMA UnlinkStep == ASSUME IInv, Unlink PROVE IInv'
<1> DEFINE f == Head(todo)
<1>1. /\ at \in {"clear", "wipe"} /\ todo # <<>> /\ left # <<>> /\ todo' = Tail(todo)
      /\ disk' = [disk EXCEPT ![f] = Empty[f]]
      /\ UNCHANGED <<left, at, pending, ended, excused, cmd, runs>>
  BY DEF Unlink, Counters, IInv, LeftOK
<1>2. /\ todo \in Seq(Files) /\ todo' \in Seq(Files) /\ f \in Files /\ Names(todo) = Names(todo') \cup {f}
      /\ Len(todo') = Len(todo) - 1 /\ Len(todo) \in Nat /\ Len(todo') \in Nat
  BY <1>1, TailNames, LenProperties DEF IInv, TypeOK
<1>3. disk' \in Disk /\ \A g \in Files : disk'[g] = IF g = f THEN Empty[f] ELSE disk[g]
  BY <1>1, <1>2, OneEmptied, ZenonT(60) DEF IInv, TypeOK
<1>4. /\ f \in Files \ {"tJournal", "aJournal", "reverts"}
      /\ Head(left) = "transcribe" \/ f # "transcript"
      /\ Pos(Head(left)) <= 3 \/ f # "aligned"
      /\ at = "clear" => Forces /\ f \in Names(Cleared(Head(left)))
      /\ at = "wipe" => Head(left) = "correct" /\ f \in Names(DownstreamOf("correct"))
  BY <1>1, UnlinkedFile
<1> HIDE DEF f
<1>5. TypeOK' /\ LeftOK'
  <2>1. at' \in Places \ {"idle"} /\ pending' \subseteq Segs
    BY <1>1 DEF Places, IInv, TypeOK
  <2> QED
    BY <2>1, <1>1, <1>2, <1>3, InStage DEF IInv
<1>6. PlaceOK'
  <2>1. Head(left) \in Stages
    BY <1>1, AtHead DEF IInv
  <2>2. CASE at = "wipe"
    <3>1. Names(todo') \subseteq Names(DownstreamOf("correct"))
      BY <1>1, <1>2, <2>2 DEF IInv, PlaceOK
    <3> QED
      BY <1>1, <1>4, <2>2, <3>1 DEF PlaceOK
  <2>3. CASE at = "clear"
    <3>1. /\ Forces /\ Names(todo) \subseteq Names(Cleared(Head(left))) /\ Len(todo) <= Len(Cleared(Head(left)))
          /\ \A g \in Names(Cleared(Head(left))) \ Names(todo) : disk[g] = Empty[g]
      BY <1>1, <2>3 DEF IInv, PlaceOK
    <3>2. Names(Cleared(Head(left))) \subseteq Files /\ Len(Cleared(Head(left))) \in Nat
      BY <2>1, OfCleared, LenProperties DEF Names
    <3>3. \A g \in Names(Cleared(Head(left))) \ Names(todo') : disk'[g] = Empty[g]
      BY <1>2, <1>3, <3>1, <3>2
    <3>4. Len(todo') <= Len(Cleared(Head(left)))
      BY <1>2, <3>1, <3>2
    <3>5. Names(todo') \subseteq Names(Cleared(Head(left)))
      BY <1>2, <3>1
    <3> QED
      BY <1>1, <2>3, <3>1, <3>3, <3>4, <3>5 DEF PlaceOK, Forces
  <2> QED
    BY <1>1, <2>2, <2>3
<1>7. disk'.tJournal = disk.tJournal /\ disk'.aJournal = disk.aJournal
  BY <1>3, <1>4 DEF Files
<1>8. JournalOK'
  <2>1. disk'.transcript = None \/ disk'.transcript = disk.transcript
    BY <1>3, EmptyTyped DEF Files
  <2>2. disk'.aligned = None \/ disk'.aligned = disk.aligned
    BY <1>3, EmptyTyped DEF Files
  <2> QED
    BY <1>1, <1>7, <2>1, <2>2 DEF IInv, JournalOK, Stage
<1>9. ASSUME excused = {} PROVE Progress' /\ Sound(Settled') /\ (Mark' = {} => Sound(disk'))
  <2>1. Progress /\ Sound(Settled)
    BY <1>9 DEF IInv, Clean
  <2>2. Pos(Head(left)) > 1 => disk'.transcript = disk.transcript
    <3>1. Pos(Head(left)) > 1 => f # "transcript"
      BY <1>4, Positions
    <3> QED
      BY <3>1, <1>3 DEF Files
  <2>3. Pos(Head(left)) > 3 => disk'.aligned = disk.aligned
    <3>1. Pos(Head(left)) > 3 => f # "aligned"
      <4>1. Pos(Head(left)) \in 1..8
        BY <1>1, AtHead DEF IInv
      <4> QED
        BY <4>1, <1>4
    <3> QED
      BY <3>1, <1>3 DEF Files
  <2>4. Progress'
    <3>1. ended = "none"
      BY <1>1 DEF IInv, LeftOK
    <3>2. f = "aligned" => Forces \/ Has(cmd, "correct")
      BY <1>1, AtHead DEF IInv, PlaceOK
    <3>3. Spared => Spared'
      <4>1. f # "aligned" => disk'.aligned = disk.aligned
        BY <1>3 DEF Files
      <4> QED
        BY <1>1, <1>7, <3>2, <4>1 DEF Spared, Forces
    <3>4. at = "clear" => Forces
      BY <1>1 DEF IInv, PlaceOK
    <3> QED
      BY <1>1, <1>7, <2>1, <2>2, <2>3, <3>1, <3>3, <3>4 DEF Progress, Stage, Past, Exported, Forces
  <2>5. Settled = Wiped(disk, Names(todo)) /\ Settled' = Wiped(disk', Names(todo'))
    BY <1>1 DEF Settled
  <2>6. \A g \in Files : Wiped(disk', Names(todo'))[g] = Wiped(disk, Names(todo))[g]
    BY <1>2, <1>3 DEF Wiped
  <2>7. Sound(Settled')
    BY <2>1, <2>5, <2>6, SameSound
  <2>8. ASSUME Mark' = {} PROVE todo' = <<>>
    <3>1. CASE at = "clear"
      <4>1. Mark' = {} /\ at' = "clear" => todo' \in {<<>>, Cleared(Head(left'))}
        BY Zenon DEF Mark
      <4>2. Len(todo) <= Len(Cleared(Head(left)))
        BY <1>1, <3>1 DEF IInv, PlaceOK
      <4>3. todo' # Cleared(Head(left'))
        BY <4>2, <1>1, <1>2
      <4> QED
        BY <2>8, <3>1, <4>1, <4>3, <1>1
    <3>2. CASE at = "wipe"
      <4>1. Stage("correct", "wipe")'
        BY <1>1, <1>4, <3>2 DEF Stage
      <4>2. Mark' = {} /\ at' # "clear" /\ Stage("correct", "wipe")' => todo' = <<>>
        BY Zenon DEF Mark
      <4> QED
        BY <2>8, <3>2, <4>1, <4>2, <1>1
    <3> QED
      BY <1>1, <3>1, <3>2
  <2>9. Mark' = {} => Sound(disk')
    <3>1. todo' = <<>> => \A g \in Files : disk'[g] = Wiped(disk', Names(todo'))[g]
      BY NoNames DEF Wiped
    <3> QED
      BY <2>5, <2>7, <2>8, <3>1, SameSound
  <2> QED
    BY <2>4, <2>7, <2>9
<1>10. Clean'
  <2>1. Sound(Settled') <=> Sound(Settled)'
    BY DEF Sound
  <2> QED
    BY <1>1, <1>9, <2>1 DEF Clean
<1>11. Fresh'
  <2> SUFFICES ASSUME Forces, Full(cmd), Reached' > 0 PROVE FreshMade(disk', Missing') /\ Unmade(disk', Reached')
    BY <1>1 DEF Fresh, Forces, FreshMade, Unmade, AlignText
  <2>1. Reached' = Reached /\ Missing' = Missing
    BY <1>1 DEF Reached, Missing, Stage
  <2>2. FreshMade(disk, Missing) /\ Unmade(disk, Reached)
    BY <1>1, <2>1 DEF IInv, Fresh
  <2>3. f # "corrected" => disk[f] = Empty[f]
    <3>1. CASE at = "clear"
      <4>1. Reached = Pos(Head(left)) - 1 /\ Head(left) \in Stages
        BY <1>1, <3>1, AtHead DEF Reached, IInv
      <4>2. Head(left) # "transcribe"
        BY <4>1, <2>1, Positions
      <4> QED
        BY <4>1, <4>2, <2>2, <1>4, <3>1, NothingToClear
    <3>2. CASE at = "wipe"
      <4>1. Reached = 2
        BY <1>4, <3>2, Positions DEF Reached
      <4> QED
        BY <4>1, <2>2, <1>4, <3>2, NothingAfterCorrect
    <3> QED
      BY <1>1, <3>1, <3>2
  <2>4. \A g \in Files \ {"corrected"} : disk'[g] = disk[g]
    BY <2>3, <1>3
  <2> QED
    BY <2>1, <2>2, <2>4, SameFresh
<1> QED
  BY <1>5, <1>6, <1>8, <1>10, <1>11 DEF IInv
-----------------------------------------------------------------------------
(* transcribe. *)
LEMMA LoadedRows ==
    ASSUME NEW rows \in Rows, NEW journal \in Rows, rows # None => journal # None, Forces => rows = None
    PROVE  /\ Loaded(rows, journal) \in Rows /\ Manifest(rows, journal) \in Rows
           /\ rows # None => Loaded(rows, journal) = rows /\ Manifest(rows, journal) = rows
           /\ Loaded(rows, journal) # None => journal # None
           /\ Manifest(rows, journal) # None => journal # None
           /\ Loaded(rows, journal) \in {None, rows, journal} /\ Manifest(rows, journal) \in {rows, journal}
           /\ Forces => Loaded(rows, journal) = None
BY RowFacts DEF Loaded, Manifest

(* What else a forced stage finds cleared when it begins. *)
LEMMA IsCleared ==
    ASSUME IInv, NEW stage, Ready(stage), Forces
    PROVE  \A f \in Names(Cleared(stage)) : disk[f] = Empty[f]
<1>1. at = "clear" /\ todo = <<>> /\ Head(left) = stage
  BY DEF Ready, Stage
<1> QED
  BY <1>1, NoNames DEF IInv, PlaceOK

(* A transcript that is taken from its journal is the first thing there is. *)
LEMMA TranscriptLoads ==
    ASSUME NEW d \in Disk, NEW e \in Disk, Sound(d), e.transcript \in {None, d.transcript, d.tJournal},
           e.transcript # d.transcript => d.transcript = None,
           \A f \in Files \ {"transcript"} : e[f] = d[f]
    PROVE  Sound(e)
<1>1. /\ e.tJournal = d.tJournal /\ e.aligned = d.aligned /\ e.aJournal = d.aJournal
      /\ e.split = d.split /\ e.translated = d.translated /\ e.normalized = d.normalized /\ e.srt = d.srt
  BY DEF Files
<1>2. CASE e.transcript = d.transcript
  <2>1. \A f \in Files \ {"corrected"} : e[f] = d[f]
    BY <1>2 DEF Files
  <2> QED
    BY <2>1, SameSound
<1>3. CASE e.transcript # d.transcript
  <2>1. HasText(d.transcript) # Segs
    BY <1>3, RowFacts, PipelineAssumption
  <2>2. e.split = None /\ e.translated.text = None /\ e.normalized.text = None /\ e.srt.text = None
    BY <1>1, <2>1, NothingYet
  <2>3. RowsSound(e)
    BY <1>1, RowFacts DEF Sound, RowsSound
  <2> QED
    BY <2>2, <2>3, OnlyRows
<1> QED
  BY <1>2, <1>3

LEMMA TranscribeStep == ASSUME IInv, Transcribe PROVE IInv'
<1> DEFINE rows == Loaded(disk.transcript, disk.tJournal)
<1>1. /\ left # <<>> /\ at = "clear" /\ todo = <<>> /\ Head(left) = "transcribe" /\ Ready("transcribe")
      /\ disk' = [disk EXCEPT !.transcript = rows] /\ pending' = NotDone(rows, Segs)
      /\ UNCHANGED <<todo, excused, cmd, runs>>
      /\ IF pending' = {} THEN Proceed ELSE Stay("rows")
  BY DEF Transcribe, Ready, Stage, Counters
<1>2. disk \in Disk /\ disk.transcript \in Rows /\ disk.tJournal \in Rows
      /\ (disk.transcript # None => disk.tJournal # None) /\ (disk.aligned # None => disk.aJournal # None)
  BY DiskFields DEF IInv, TypeOK, JournalOK
<1>3. Forces => /\ disk.transcript = None /\ disk.aligned = None /\ disk.split = None /\ disk.translated = Empty.translated
                /\ disk.normalized = Empty.normalized /\ disk.srt = Empty.srt
  BY <1>1, IsCleared, OfCleared, EmptyTyped
<1>4. /\ rows \in Rows /\ (disk.transcript # None => rows = disk.transcript) /\ (rows # None => disk.tJournal # None)
      /\ rows \in {None, disk.transcript, disk.tJournal} /\ (Forces => rows = None)
  BY <1>2, <1>3, LoadedRows
<1> HIDE DEF rows
<1>5. /\ disk' \in Disk /\ disk'.transcript = rows
      /\ \A f \in Files \ {"transcript"} : disk'[f] = disk[f]
  BY <1>1, <1>2, <1>4 DEF Disk, Files
<1>6. /\ disk'.tJournal = disk.tJournal /\ disk'.aligned = disk.aligned /\ disk'.aJournal = disk.aJournal
      /\ disk'.split = disk.split /\ disk'.translated = disk.translated /\ disk'.normalized = disk.normalized
      /\ disk'.srt = disk.srt
  BY <1>5 DEF Files
<1>7. pending' = {s \in Segs : ~(Resumes /\ Complete(rows[s]))} /\ pending' \subseteq Segs
  BY <1>1 DEF NotDone
<1>8. ASSUME excused = {} PROVE Sound(disk') /\ Progress /\ (Resumes <=> ~Forces) /\ \A s \in Segs : Complete(rows[s]) <=> rows[s] \in Texts
  <2>1. Sound(disk) /\ Progress
    BY <1>1, <1>8, SoundNow
  <2>2. Sound(disk')
    BY <2>1, <1>2, <1>4, <1>5, TranscriptLoads
  <2>3. \A s \in Segs : rows[s] \in Texts \cup {Absent}
    BY <1>5, <2>2 DEF Sound, RowsSound
  <2> QED
    BY <1>1, <2>1, <2>2, <2>3, RowFacts DEF Complete, Resumes, Forces, Progress
<1>9. CASE pending' = {}
  <2>1. Proceed /\ Resumes /\ ~Forces /\ \A s \in Segs : Complete(rows[s])
    BY <1>1, <1>7, <1>9, PipelineAssumption DEF Resumes
  <2>2. (Full(cmd) => ended' # "gate") /\ (Full(cmd) => ended' # "ok")
    BY <1>1, <2>1, NotTheEnd DEF IInv
  <2>3. ASSUME excused' = {}
        PROVE  /\ excused = {} /\ Progress /\ Sound(disk')
               /\ Full(cmd) /\ left' # <<>> => HasText(disk'.transcript) = Segs
               /\ Full(cmd) /\ left' # <<>> /\ Pos(Head(left)) >= 3 /\ Has(cmd, "align") => HasText(disk'.aligned) = Segs
               /\ (disk'.aligned = disk.aligned /\ disk'.aJournal = disk.aJournal) \/ Has(cmd, "align")
    <3>1. excused = {}
      BY <2>3, <1>1
    <3>2. \A s \in Segs : rows[s] \in Texts
      BY <3>1, <1>8, <2>1
    <3>3. HasText(disk'.transcript) = Segs
      BY <3>2, <1>5 DEF HasText
    <3>4. ~(Pos(Head(left)) >= 3)
      BY <1>1, Positions
    <3> QED
      BY <3>1, <3>3, <3>4, <1>6, <1>8
  <2>4. /\ disk'.transcript # None => disk'.tJournal # None
        /\ disk'.aligned # None => disk'.aJournal # None
    BY <1>2, <1>4, <1>5, <1>6
  <2>5. Ends
    BY <2>1 DEF Ends
  <2> QED
    BY <1>1, <1>5, <1>7, <2>1, <2>2, <2>3, <2>4, <2>5, EndsStage
<1>10. CASE pending' # {}
  <2>1. at' = "rows" /\ left' = left /\ ended' = ended /\ ended = "none"
    BY <1>1, <1>10 DEF Stay, IInv, LeftOK
  <2>2. TypeOK' /\ LeftOK'
    <3>1. at' \in Places \ {"idle"} /\ todo' \in Seq(Files)
      BY <1>1, <2>1 DEF Places
    <3> QED
      BY <1>1, <1>5, <1>7, <2>1, <3>1, InStage DEF IInv
  <2>3. PlaceOK' /\ JournalOK'
    BY <1>1, <1>2, <1>4, <1>5, <1>6, <2>1 DEF PlaceOK, JournalOK, Stage
  <2>4. ASSUME excused = {} PROVE Progress'
    <3>1. Progress
      BY <1>8, <2>4
    <3>2. \A s \in Segs : s \in pending' <=> disk'.transcript[s] \notin Texts
      <4>1. CASE Forces
        BY <4>1, <1>4, <1>5, <1>7, <1>8, <2>4, RowFacts
      <4>2. CASE ~Forces
        BY <4>2, <1>5, <1>7, <1>8, <2>4
      <4> QED
        BY <4>1, <4>2
    <3>3. ~Past(1)' /\ ~Past(3)'
      BY <1>1, <2>1, Positions DEF Past
    <3> QED
      BY <1>1, <1>6, <2>1, <3>1, <3>2, <3>3 DEF Progress, Spared, Stage, Exported, Forces
  <2>5. Clean'
    BY <1>1, <1>8, <2>1, <2>4, CleanAgain
  <2>6. Fresh'
    <3> SUFFICES ASSUME Forces PROVE FreshMade(disk', Segs) /\ Unmade(disk', 1) /\ Reached' = 1 /\ Missing' = Segs
      BY <1>1, <2>1 DEF Fresh, Forces, FreshMade, Unmade, AlignText
    <3>1. Reached' = 1
      BY <1>1, <2>1, Positions DEF Reached
    <3>2. pending' = Segs
      BY <1>7 DEF Resumes
    <3>3. Missing' = Segs
      BY <1>1, <2>1, <3>2 DEF Missing, Stage
    <3>4. /\ disk'.aligned = None /\ disk'.split = None /\ disk'.translated = Empty.translated
          /\ disk'.normalized = Empty.normalized /\ disk'.srt = Empty.srt /\ disk'.translated.text = None
      BY <1>3, <1>6, EmptyTyped
    <3> QED
      BY <3>1, <3>3, <3>4, RowFacts DEF FreshMade, Unmade
  <2> QED
    BY <2>2, <2>3, <2>5, <2>6 DEF IInv
<1> QED
  BY <1>9, <1>10
LEMMA TranscribeRowStep ==
    ASSUME IInv, NEW s \in Segs, NEW made \in {runs, Failed, Silent}, TranscribeRow(s, made)
    PROVE  IInv'
<1>1. /\ left # <<>> /\ at = "rows" /\ todo = <<>> /\ Head(left) = "transcribe" /\ s \in pending
      /\ Stage("transcribe", "rows")
      /\ disk' = [disk EXCEPT !.transcript[s] = made, !.tJournal[s] = made] /\ pending' = pending \ {s}
      /\ excused' = IF made \in Texts THEN excused ELSE excused \cup {"lost"}
      /\ UNCHANGED <<left, at, todo, ended, cmd, runs>>
  BY DEF TranscribeRow, Stage, Counters, IInv, PlaceOK
<1>2. made \in Row /\ made # Absent
  <2>1. runs \in 1..MaxRuns
    BY <1>1, PipelineAssumption DEF IInv, TypeOK
  <2>2. runs \in Texts /\ runs # Absent
    BY <2>1, PipelineAssumption DEF Texts, Absent
  <2> QED
    BY <2>2, RowFacts DEF Row
<1>3. /\ disk \in Disk /\ disk.transcript \in Rows /\ disk.tJournal \in Rows /\ pending \subseteq Segs
  BY DiskFields DEF IInv, TypeOK
<1> DEFINE T == [disk.transcript EXCEPT ![s] = made]
           J == [disk.tJournal EXCEPT ![s] = made]
<1>4. T \in Rows /\ J \in Rows /\ disk' = [disk EXCEPT !.transcript = T, !.tJournal = J]
  BY <1>1, <1>2, <1>3 DEF Rows, Disk
<1>5. /\ \A t \in Segs : T[t] = IF t = s THEN made ELSE disk.transcript[t]
      /\ \A t \in Segs : J[t] = IF t = s THEN made ELSE disk.tJournal[t]
  BY <1>3 DEF Rows
<1>6. J # None
  BY <1>2, <1>5, RowFacts
<1> HIDE DEF T, J
<1>7. /\ disk' \in Disk /\ disk'.transcript = T /\ disk'.tJournal = J /\ disk'.aligned = disk.aligned
      /\ disk'.aJournal = disk.aJournal /\ disk'.split = disk.split /\ disk'.translated = disk.translated
      /\ disk'.normalized = disk.normalized /\ disk'.srt = disk.srt
  BY <1>3, <1>4 DEF Disk
<1>8. TypeOK' /\ LeftOK'
  <2>1. at' \in Places \ {"idle"} /\ todo' \in Seq(Files) /\ pending' \subseteq Segs
    BY <1>1, <1>3 DEF Places
  <2> QED
    BY <2>1, <1>1, <1>7, InStage DEF IInv
<1>9. PlaceOK'
  BY <1>1 DEF PlaceOK
<1>10. JournalOK'
  BY <1>1, <1>6, <1>7 DEF IInv, JournalOK, Stage
<1>11. ASSUME excused' = {} PROVE Sound(disk') /\ Progress'
  <2>1. made \in Texts /\ excused = {}
    BY <1>1, <1>11
  <2>2. Sound(disk) /\ Progress
    BY <1>1, <2>1, SoundNow
  <2>3. disk.transcript[s] \notin Texts
    BY <1>1, <2>2 DEF Progress
  <2>4. HasText(disk.transcript) # Segs
    BY <2>3 DEF HasText
  <2>5. disk'.split = None /\ disk'.translated.text = None /\ disk'.normalized.text = None /\ disk'.srt.text = None
    BY <1>7, <2>2, <2>4, NothingYet
  <2>6. RowsSound(disk')
    BY <1>5, <1>7, <2>1, <2>2 DEF Sound, RowsSound
  <2>7. Sound(disk')
    BY <2>5, <2>6, OnlyRows
  <2>8. \A t \in Segs : t \in pending' <=> disk'.transcript[t] \notin Texts
    BY <1>1, <1>5, <1>7, <2>1, <2>2, ZenonT(60) DEF Progress
  <2>9. ~Past(1)' /\ ~Past(3)' /\ ended = "none"
    BY <1>1, Positions DEF Past, IInv, LeftOK
  <2>10. Progress'
    BY <1>1, <1>7, <2>2, <2>8, <2>9 DEF Progress, Spared, Stage, Exported, Forces
  <2> QED
    BY <2>7, <2>10
<1>12. Clean'
  BY <1>1, <1>11, CleanAgain
<1>13. Fresh'
  <2> SUFFICES ASSUME Forces, Full(cmd)
               PROVE  FreshMade(disk', pending') /\ Unmade(disk', 1) /\ Reached' = 1 /\ Missing' = pending'
    BY <1>1 DEF Fresh, Forces, FreshMade, Unmade, AlignText
  <2>1. Reached = 1 /\ Missing = pending /\ Reached' = 1 /\ Missing' = pending'
    BY <1>1, Positions DEF Reached, Missing, Stage
  <2>2. FreshMade(disk, pending) /\ Unmade(disk, 1)
    BY <1>1, <2>1 DEF IInv, Fresh
  <2>3. /\ disk.aligned = None /\ disk.split = None /\ disk.translated.text = None
    BY <2>2, EmptyTyped DEF Unmade
  <2>4. Unmade(disk', 1)
    BY <1>7, <2>2 DEF Unmade
  <2>5. ASSUME NEW t \in Segs \ pending'
        PROVE  T[t] # Absent /\ (T[t] \in Texts <=> J[t] \in Texts)
    <3>1. CASE t = s
      BY <3>1, <1>2, <1>5
    <3>2. CASE t # s
      <4>1. disk.transcript[t] # Absent /\ (disk.transcript[t] \in Texts <=> disk.tJournal[t] \in Texts)
        BY <3>2, <2>2, <2>5, <1>1 DEF FreshMade
      <4>2. T[t] = disk.transcript[t] /\ J[t] = disk.tJournal[t]
        BY <1>5, <3>2
      <4> QED
        BY <4>1, <4>2
    <3> QED
      BY <3>1, <3>2
  <2> QED
    BY <1>7, <2>1, <2>3, <2>4, <2>5, RowFacts DEF FreshMade
<1> QED
  BY <1>8, <1>9, <1>10, <1>12, <1>13 DEF IInv
-----------------------------------------------------------------------------
(* align. *)
LEMMA AlignmentLoads ==
    ASSUME NEW d \in Disk, NEW e \in Disk, Sound(d), e.aligned \in {None, d.aligned, d.aJournal},
           e.aligned # d.aligned => d.aligned = None,
           \A f \in Files \ {"aligned"} : e[f] = d[f]
    PROVE  Sound(e)
<1>1. /\ e.transcript = d.transcript /\ e.tJournal = d.tJournal /\ e.aJournal = d.aJournal
      /\ e.split = d.split /\ e.translated = d.translated /\ e.normalized = d.normalized /\ e.srt = d.srt
      /\ e.reverts = d.reverts
  BY DEF Files
<1>2. RowsSound(e)
  BY <1>1, RowFacts DEF Sound, RowsSound
<1>3. SplitSound(e)
  <2>1. d.split # None => HasText(d.aligned) = Segs
    BY DEF Sound, SplitSound
  <2>2. d.split # None => e.aligned = d.aligned
    BY <2>1, RowFacts, PipelineAssumption
  <2> QED
    BY <1>1, <2>1, <2>2 DEF Sound, SplitSound
<1>4. (Undone(e) <=> Undone(d)) /\ Latest(e) = Latest(d)
  BY <1>1 DEF Undone, Latest
<1>5. ForExport(e) = ForExport(d)
  BY <1>1, <1>4 DEF ForExport
<1> QED
  BY <1>1, <1>2, <1>3, <1>4, <1>5 DEF Sound, TranslatedSound, NormalizedSound, SrtSound

LEMMA AlignStep == ASSUME IInv, Align PROVE IInv'
<1> DEFINE texts == Manifest(disk.transcript, disk.tJournal)
           rows == Loaded(disk.aligned, disk.aJournal)
<1>1. /\ left # <<>> /\ at = "clear" /\ todo = <<>> /\ Head(left) = "align" /\ Ready("align")
      /\ disk' = [disk EXCEPT !.transcript = texts, !.aligned = rows]
      /\ pending' = IF texts = None THEN {} ELSE NotDone(rows, HasText(texts))
      /\ UNCHANGED <<todo, excused, cmd, runs>>
  BY DEF Align, Ready, Stage, Counters
<1>1a. /\ texts = None => Fails("failed")
       /\ texts # None /\ HasText(texts) # {} /\ pending' = {} => Proceed
       /\ texts # None /\ ~(HasText(texts) # {} /\ pending' = {}) => Stay("rows")
  <2>1. /\ pending' = IF texts = None THEN {} ELSE NotDone(rows, HasText(texts))
        /\ CASE texts = None -> Fails("failed")
             [] HasText(texts) # {} /\ pending' = {} -> Proceed
             [] OTHER -> Stay("rows")
    BY DEF Align
  <2>2. texts = None => HasText(texts) = {}
    BY RowFacts
  <2> HIDE DEF texts, rows
  <2>3. texts = None => ~(HasText(texts) # {} /\ pending' = {})
    BY <2>2
  <2> QED
    BY <2>1, <2>3, Zenon
<1>2. disk \in Disk /\ disk.transcript \in Rows /\ disk.tJournal \in Rows /\ disk.aligned \in Rows /\ disk.aJournal \in Rows
      /\ (disk.transcript # None => disk.tJournal # None) /\ (disk.aligned # None => disk.aJournal # None)
  BY DiskFields DEF IInv, TypeOK, JournalOK
<1>3. Forces => disk.aligned = None
  BY <1>1, IsCleared, OfCleared, EmptyTyped
<1>4. /\ rows \in Rows /\ (disk.aligned # None => rows = disk.aligned) /\ (rows # None => disk.aJournal # None)
      /\ rows \in {None, disk.aligned, disk.aJournal} /\ (Forces => rows = None)
  BY <1>2, <1>3, LoadedRows
<1>5. /\ texts \in Rows /\ (disk.transcript # None => texts = disk.transcript) /\ (texts # None => disk.tJournal # None)
      /\ texts \in {disk.transcript, disk.tJournal}
  BY <1>2, RowFacts DEF Manifest
<1> HIDE DEF texts, rows
<1>6. /\ disk' \in Disk /\ disk'.transcript = texts /\ disk'.aligned = rows
      /\ \A f \in Files \ {"transcript", "aligned"} : disk'[f] = disk[f]
  BY <1>1, <1>2, <1>4, <1>5 DEF Disk, Files
<1>7. /\ disk'.tJournal = disk.tJournal /\ disk'.aJournal = disk.aJournal
      /\ disk'.split = disk.split /\ disk'.translated = disk.translated /\ disk'.normalized = disk.normalized
      /\ disk'.srt = disk.srt
  BY <1>6 DEF Files
<1>8. /\ texts # None => pending' = {s \in HasText(texts) : ~(Resumes /\ Complete(rows[s]))}
      /\ pending' \subseteq HasText(texts) /\ pending' \subseteq Segs
  BY <1>1 DEF NotDone, HasText
<1>9. ASSUME excused = {}
      PROVE  Sound(disk') /\ Progress /\ \A s \in Segs : Complete(rows[s]) <=> rows[s] \in Texts
  <2>1. Sound(disk) /\ Progress
    BY <1>1, <1>9, SoundNow
  <2> DEFINE d == [disk EXCEPT !.transcript = texts]
  <2>2. d \in Disk /\ d.transcript = texts /\ d.aligned = disk.aligned /\ d.aJournal = disk.aJournal
        /\ \A f \in Files \ {"transcript"} : d[f] = disk[f]
    BY <1>2, <1>5 DEF Disk, Files
  <2>3. \A f \in Files \ {"aligned"} : disk'[f] = d[f]
    BY <1>6, <2>2 DEF Files
  <2> HIDE DEF d
  <2>4. Sound(d)
    BY <2>1, <2>2, <1>2, <1>5, TranscriptLoads
  <2>5. Sound(disk')
    <3>1. disk'.aligned \in {None, d.aligned, d.aJournal} /\ (disk'.aligned # d.aligned => d.aligned = None)
      BY <1>4, <1>6, <2>2
    <3> QED
      BY <3>1, <1>6, <2>2, <2>3, <2>4, AlignmentLoads
  <2>6. \A s \in Segs : rows[s] \in Texts \cup {Absent}
    BY <1>6, <2>5 DEF Sound, RowsSound
  <2> QED
    BY <2>1, <2>5, <2>6, RowFacts DEF Complete
<1>10. /\ disk'.transcript # None => disk'.tJournal # None
       /\ disk'.aligned # None => disk'.aJournal # None
  BY <1>4, <1>5, <1>6, <1>7
<1>11. ASSUME excused = {}, Full(cmd) PROVE HasText(disk'.transcript) = Segs /\ texts # None
  <2>1. Past(1)
    BY <1>1, Positions DEF Past
  <2>2. HasText(disk.transcript) = Segs
    BY <1>9, <1>11, <2>1 DEF Progress
  <2> QED
    BY <2>2, <1>2, <1>5, <1>6, RowFacts
<1>12. CASE texts = None
  <2>1. Ends /\ left' = <<>> /\ ended' = "failed"
    BY <1>1a, <1>12 DEF Ends, Fails
  <2>2. Has(cmd, "align")
    BY <1>1, AtHead DEF IInv
  <2> QED
    BY <1>1, <1>6, <1>7, <1>8, <1>9, <1>10, <2>1, <2>2, EndsStage
<1>13. CASE texts # None /\ HasText(texts) # {} /\ pending' = {}
  <2>1. Proceed /\ Ends /\ Resumes /\ ~Forces /\ \A s \in HasText(texts) : Complete(rows[s])
    BY <1>1a, <1>8, <1>13 DEF Resumes, Ends
  <2>2. (Full(cmd) => ended' # "gate") /\ (Full(cmd) => ended' # "ok")
    BY <1>1, <2>1, NotTheEnd DEF IInv
  <2>3. ASSUME excused' = {}
        PROVE  /\ excused = {} /\ Progress /\ Sound(disk')
               /\ Full(cmd) /\ left' # <<>> => HasText(disk'.transcript) = Segs
               /\ Full(cmd) /\ left' # <<>> /\ Pos(Head(left)) >= 3 /\ Has(cmd, "align") => HasText(disk'.aligned) = Segs
               /\ (disk'.aligned = disk.aligned /\ disk'.aJournal = disk.aJournal) \/ Has(cmd, "align")
    <3>1. excused = {}
      BY <2>3, <1>1
    <3>2. ASSUME Full(cmd) PROVE HasText(disk'.aligned) = Segs
      <4>1. HasText(texts) = Segs
        BY <3>1, <3>2, <1>6, <1>11
      <4>2. \A s \in Segs : rows[s] \in Texts
        BY <4>1, <2>1, <3>1, <1>9
      <4> QED
        BY <4>2, <1>6 DEF HasText
    <3>3. Has(cmd, "align")
      BY <1>1, AtHead DEF IInv
    <3> QED
      BY <3>1, <3>2, <3>3, <1>7, <1>9, <1>11
  <2> QED
    BY <1>1, <1>6, <1>8, <1>10, <2>1, <2>2, <2>3, EndsStage
<1>14. CASE texts # None /\ ~(HasText(texts) # {} /\ pending' = {})
  <2>1. at' = "rows" /\ left' = left /\ ended' = ended /\ ended = "none"
    BY <1>1, <1>1a, <1>14 DEF Stay, IInv, LeftOK
  <2>2. TypeOK' /\ LeftOK'
    <3>1. at' \in Places \ {"idle"} /\ todo' \in Seq(Files)
      BY <1>1, <2>1 DEF Places
    <3> QED
      BY <1>1, <1>6, <1>8, <2>1, <3>1, InStage DEF IInv
  <2>3. PlaceOK' /\ JournalOK'
    BY <1>1, <1>6, <1>8, <1>10, <2>1 DEF PlaceOK, JournalOK, Stage
  <2>4. ASSUME excused = {} PROVE Progress'
    <3>1. Progress
      BY <1>9, <2>4
    <3>2. \A s \in HasText(disk'.transcript) \ pending' : disk'.aligned[s] \in Texts
      <4>1. HasText(texts) \subseteq Segs
        BY DEF HasText
      <4> QED
        BY <4>1, <1>6, <1>8, <1>9, <1>14, <2>4
    <3>3. ~Past(3)' /\ Has(cmd, "align")
      BY <1>1, <2>1, Positions, AtHead DEF Past, IInv
    <3> QED
      BY <1>1, <1>11, <2>1, <2>4, <3>1, <3>2, <3>3 DEF Progress, Stage, Exported, Forces
  <2>5. Clean'
    BY <1>1, <1>9, <2>1, <2>4, CleanAgain
  <2>6. Fresh'
    <3> SUFFICES ASSUME Forces, Full(cmd) PROVE FreshMade(disk', {}) /\ Unmade(disk', 3) /\ Reached' = 3 /\ Missing' = {}
      BY <1>1, <2>1 DEF Fresh, Forces, FreshMade, Unmade, AlignText
    <3>1. Reached' = 3 /\ Missing' = {} /\ Reached = 2 /\ Missing = {}
      BY <1>1, <2>1, Positions DEF Reached, Missing, Stage
    <3>2. FreshMade(disk, {}) /\ Unmade(disk, 2)
      BY <1>1, <3>1 DEF IInv, Fresh
    <3>3. disk.transcript # None
      BY <3>2, RowFacts, PipelineAssumption DEF FreshMade
    <3>4. disk'.transcript = disk.transcript /\ disk'.aligned = disk.aligned
      BY <3>3, <1>3, <1>4, <1>5, <1>6
    <3>5. \A f \in Files \ {"corrected"} : disk'[f] = disk[f]
      BY <3>4, <1>6 DEF Files
    <3>6. FreshMade(disk', {}) /\ Unmade(disk', 2)
      BY <3>2, <3>5, SameFresh
    <3> QED
      BY <3>1, <3>6, Later
  <2> QED
    BY <2>2, <2>3, <2>5, <2>6 DEF IInv
<1> QED
  BY <1>12, <1>13, <1>14

LEMMA AlignRowStep == ASSUME IInv, NEW s \in Segs, NEW ok \in BOOLEAN, AlignRow(s, ok) PROVE IInv'
<1> DEFINE made == IF ok THEN disk.transcript[s] ELSE Failed
           A == [disk.aligned EXCEPT ![s] = made]
           J == [disk.aJournal EXCEPT ![s] = made]
<1>1. /\ left # <<>> /\ at = "rows" /\ todo = <<>> /\ Head(left) = "align" /\ s \in pending
      /\ Stage("align", "rows")
      /\ disk' = [disk EXCEPT !.aligned[s] = made, !.aJournal[s] = made] /\ pending' = pending \ {s}
      /\ excused' = {} => ok /\ excused = {}
      /\ UNCHANGED <<left, at, todo, ended, cmd, runs>>
  BY DEF AlignRow, Stage, Counters, IInv, PlaceOK
<1>2. disk.transcript[s] \in Texts /\ pending \subseteq HasText(disk.transcript)
  BY <1>1 DEF IInv, JournalOK, HasText
<1>3. /\ disk \in Disk /\ disk.aligned \in Rows /\ disk.aJournal \in Rows /\ pending \subseteq Segs
  BY DiskFields DEF IInv, TypeOK
<1>4. made \in Texts \cup {Failed} /\ made \in Row /\ made # Absent /\ (excused' = {} => made \in Texts)
  BY <1>1, <1>2, RowFacts DEF Row
<1> HIDE DEF made
<1>5. A \in Rows /\ J \in Rows /\ disk' = [disk EXCEPT !.aligned = A, !.aJournal = J]
  BY <1>1, <1>3, <1>4 DEF Rows, Disk
<1>6. /\ \A t \in Segs : A[t] = IF t = s THEN made ELSE disk.aligned[t]
      /\ \A t \in Segs : J[t] = IF t = s THEN made ELSE disk.aJournal[t]
  BY <1>3 DEF Rows
<1>7. J # None
  BY <1>4, <1>6, RowFacts
<1> HIDE DEF A, J
<1>8. /\ disk' \in Disk /\ disk'.aligned = A /\ disk'.aJournal = J /\ disk'.transcript = disk.transcript
      /\ disk'.tJournal = disk.tJournal /\ disk'.split = disk.split /\ disk'.translated = disk.translated
      /\ disk'.normalized = disk.normalized /\ disk'.srt = disk.srt /\ disk'.reverts = disk.reverts
  BY <1>3, <1>5 DEF Disk
<1>9. TypeOK' /\ LeftOK'
  <2>1. at' \in Places \ {"idle"} /\ todo' \in Seq(Files) /\ pending' \subseteq Segs
    BY <1>1, <1>3 DEF Places
  <2> QED
    BY <2>1, <1>1, <1>8, InStage DEF IInv
<1>10. PlaceOK'
  BY <1>1 DEF PlaceOK
<1>11. JournalOK'
  BY <1>1, <1>2, <1>7, <1>8 DEF IInv, JournalOK, Stage
<1>12. ASSUME excused' = {} PROVE Sound(disk') /\ Progress'
  <2>1. made \in Texts /\ excused = {}
    BY <1>1, <1>4, <1>12
  <2>2. Sound(disk) /\ Progress
    BY <1>1, <2>1, SoundNow
  <2>3. RowsSound(disk')
    BY <1>6, <1>8, <2>1, <2>2 DEF Sound, RowsSound
  <2>4. SplitSound(disk')
    <3>1. disk.split # None => HasText(disk'.aligned) = Segs
      BY <1>6, <1>8, <2>1, <2>2 DEF Sound, SplitSound, HasText
    <3> QED
      BY <3>1, <1>8, <2>2 DEF Sound, SplitSound
  <2>5. (Undone(disk') <=> Undone(disk)) /\ Latest(disk') = Latest(disk)
    BY <1>8 DEF Undone, Latest
  <2>6. ForExport(disk') = ForExport(disk)
    BY <1>8, <2>5 DEF ForExport
  <2>7. Sound(disk')
    BY <1>8, <2>2, <2>3, <2>4, <2>5, <2>6 DEF Sound, TranslatedSound, NormalizedSound, SrtSound
  <2>8. \A t \in HasText(disk'.transcript) \ pending' : disk'.aligned[t] \in Texts
    <3>1. HasText(disk.transcript) \subseteq Segs
      BY DEF HasText
    <3>2. \A t \in HasText(disk.transcript) \ pending : disk.aligned[t] \in Texts
      BY <1>1, <2>2 DEF Progress
    <3>3. \A t \in HasText(disk.transcript) \ pending' : t = s \/ t \in HasText(disk.transcript) \ pending
      BY <1>1
    <3> QED
      BY <3>1, <3>2, <3>3, <1>6, <1>8, <2>1
  <2>9. ~Past(3)' /\ Has(cmd, "align") /\ ended = "none"
    BY <1>1, Positions, AtHead DEF Past, IInv, LeftOK
  <2>10. Past(1)' <=> Past(1)
    BY <1>1 DEF Past
  <2>11. Progress'
    BY <1>1, <1>8, <2>2, <2>8, <2>9, <2>10 DEF Progress, Stage, Exported, Forces
  <2> QED
    BY <2>7, <2>11
<1>13. Clean'
  BY <1>1, <1>12, CleanAgain
<1>14. Fresh'
  <2> SUFFICES ASSUME Forces, Full(cmd) PROVE FreshMade(disk', {}) /\ Unmade(disk', 3) /\ Reached' = 3 /\ Missing' = {}
    BY <1>1 DEF Fresh, Forces, FreshMade, Unmade, AlignText
  <2>1. Reached = 3 /\ Missing = {} /\ Reached' = 3 /\ Missing' = {}
    BY <1>1, Positions DEF Reached, Missing, Stage
  <2>2. FreshMade(disk, {}) /\ Unmade(disk, 3)
    BY <1>1, <2>1 DEF IInv, Fresh
  <2>3. Unmade(disk', 3)
    BY <1>8, <2>2 DEF Unmade
  <2>4. disk.split = None /\ disk.translated.text = None
    BY <2>2, EmptyTyped DEF Unmade
  <2>5. ASSUME NEW t \in Segs, A[t] # Absent
        PROVE  A[t] \in Texts \cup {Failed} /\ J[t] = A[t] /\ disk.transcript[t] \in Texts
    <3>1. CASE t = s
      BY <3>1, <1>2, <1>4, <1>6
    <3>2. CASE t # s
      <4>1. A[t] = disk.aligned[t] /\ J[t] = disk.aJournal[t]
        BY <1>6, <3>2
      <4> QED
        BY <4>1, <2>2, <2>5 DEF FreshMade
    <3> QED
      BY <3>1, <3>2
  <2> QED
    BY <1>8, <2>1, <2>2, <2>3, <2>4, <2>5 DEF FreshMade
<1> QED
  BY <1>9, <1>10, <1>11, <1>13, <1>14 DEF IInv
-----------------------------------------------------------------------------
(* correct. *)
LEMMA CorrectedText ==
    /\ \A v \in Texts : Corrected(v) \in Texts
    /\ \A v \in Row : v \notin Texts => Corrected(v) = v
BY PipelineAssumption DEF Corrected, Texts, Row, Absent, Failed, Silent

LEMMA CorrectStep == ASSUME IInv, NEW changed \in SUBSET Segs, Correct(changed) PROVE IInv'
<1> DEFINE texts == Manifest(disk.transcript, disk.tJournal)
           T == [s \in Segs |-> IF s \in changed THEN Corrected(texts[s]) ELSE texts[s]]
<1>1. /\ left # <<>> /\ at = "clear" /\ todo = <<>> /\ Head(left) = "correct"
      /\ disk' = [disk EXCEPT !.transcript = T] /\ changed \subseteq HasText(texts)
      /\ todo' = IF changed = {} THEN <<>> ELSE DownstreamOf("correct")
      /\ UNCHANGED <<pending, excused, cmd, runs>>
      /\ IF texts = None THEN Fails("failed") ELSE Stay("report")
  BY DEF Correct, Ready, Stage, Counters
<1>2. disk \in Disk /\ disk.transcript \in Rows /\ disk.tJournal \in Rows /\ pending \subseteq Segs
      /\ (disk.transcript # None => disk.tJournal # None) /\ (disk.aligned # None => disk.aJournal # None)
  BY DiskFields DEF IInv, TypeOK, JournalOK
<1>3. /\ texts \in Rows /\ (disk.transcript # None => texts = disk.transcript) /\ (texts # None => disk.tJournal # None)
      /\ texts \in {disk.transcript, disk.tJournal}
  BY <1>2, RowFacts DEF Manifest
<1>4. \A s \in Segs : T[s] = IF s \in changed THEN Corrected(texts[s]) ELSE texts[s]
  OBVIOUS
<1>5. T = [s \in Segs |-> T[s]] /\ DOMAIN texts = Segs /\ texts = [s \in Segs |-> texts[s]]
  BY <1>3 DEF Rows
<1> HIDE DEF texts, T
<1>6. \A s \in changed : texts[s] \in Texts /\ T[s] \in Texts /\ T[s] # Absent
  BY <1>1, <1>4, CorrectedText, RowFacts DEF HasText
<1>7. T \in Rows
  <2>1. \A s \in Segs : T[s] \in Row
    BY <1>3, <1>4, <1>6 DEF Rows, Row
  <2> QED
    BY <2>1, <1>5 DEF Rows
<1>8. changed = {} => T = texts
  BY <1>4, <1>5
<1>9. /\ disk' \in Disk /\ disk'.transcript = T
      /\ \A f \in Files \ {"transcript"} : disk'[f] = disk[f]
  BY <1>1, <1>2, <1>7 DEF Disk, Files
<1>10. /\ disk'.tJournal = disk.tJournal /\ disk'.aligned = disk.aligned /\ disk'.aJournal = disk.aJournal
       /\ disk'.split = disk.split /\ disk'.translated = disk.translated /\ disk'.normalized = disk.normalized
       /\ disk'.srt = disk.srt
  BY <1>9 DEF Files
<1>11. ASSUME excused = {} PROVE Sound(disk) /\ Progress /\ (changed = {} => Sound(disk')) /\ RowsSound(disk')
  <2>1. Sound(disk) /\ Progress
    BY <1>1, <1>11, SoundNow
  <2>2. changed = {} => Sound(disk')
    BY <2>1, <1>2, <1>3, <1>8, <1>9, TranscriptLoads
  <2>3. \A s \in Segs : texts[s] \in Texts \cup {Absent}
    BY <1>3, <2>1 DEF Sound, RowsSound
  <2>4. RowsSound(disk')
    BY <1>4, <1>6, <1>9, <1>10, <2>1, <2>3 DEF Sound, RowsSound
  <2> QED
    BY <2>1, <2>2, <2>4
<1>12. CASE texts = None
  <2>1. changed = {} /\ todo' = <<>>
    BY <1>1, <1>12, RowFacts
  <2>2. Ends /\ left' = <<>> /\ ended' = "failed"
    BY <1>1, <1>12 DEF Ends, Fails
  <2>3. disk'.transcript # None => disk'.tJournal # None
    BY <1>3, <1>8, <1>9, <1>10, <2>1
  <2>4. disk'.aligned # None => disk'.aJournal # None
    BY <1>2, <1>10
  <2> QED
    BY <1>1, <1>2, <1>9, <1>10, <1>11, <2>1, <2>2, <2>3, <2>4, EndsStage
<1>13. CASE texts # None
  <2>1. at' = "report" /\ left' = left /\ ended' = ended /\ ended = "none"
    BY <1>1, <1>13 DEF Stay, IInv, LeftOK
  <2>2. todo' \in Seq(Files) /\ Names(todo') \subseteq Names(DownstreamOf("correct"))
    BY <1>1, OfDownstream, NoNames
  <2>3. TypeOK' /\ LeftOK'
    <3>1. at' \in Places \ {"idle"}
      BY <2>1 DEF Places
    <3> QED
      BY <1>1, <1>2, <1>9, <2>1, <2>2, <3>1, InStage DEF IInv
  <2>4. PlaceOK' /\ JournalOK'
    BY <1>1, <1>2, <1>3, <1>10, <1>13, <2>1, <2>2 DEF PlaceOK, JournalOK, Stage
  <2>5. ASSUME excused = {} PROVE Sound(Settled')
    <3>1. Settled' = Wiped(disk', Names(todo'))
      BY <2>1 DEF Settled
    <3>2. CASE changed = {}
      <4>1. \A f \in Files : Wiped(disk', Names(todo'))[f] = disk'[f]
        BY <1>1, <3>2, NoNames DEF Wiped
      <4> QED
        BY <4>1, <3>1, <3>2, <2>5, <1>11, SameSound
    <3>3. CASE changed # {}
      <4> DEFINE e == Wiped(disk', Names(DownstreamOf("correct")))
      <4>1. Settled' = e
        BY <1>1, <3>1, <3>3
      <4>2. /\ e.transcript = disk'.transcript /\ e.tJournal = disk'.tJournal /\ e.aJournal = disk'.aJournal
            /\ e.aligned = None /\ e.split = None /\ e.translated.text = None /\ e.normalized.text = None /\ e.srt.text = None
        BY OfDownstream, EmptyTyped DEF Wiped, Files
      <4> HIDE DEF e
      <4>3. RowsSound(e)
        BY <4>2, <1>11, <2>5, RowFacts DEF RowsSound
      <4> QED
        BY <4>1, <4>2, <4>3, OnlyRows
    <3> QED
      BY <3>2, <3>3
  <2>6. ASSUME excused = {} PROVE Progress'
    <3>1. Progress
      BY <1>11, <2>6
    <3>2. ASSUME Full(cmd) PROVE HasText(disk'.transcript) = Segs
      <4>1. Past(1)
        BY <1>1, Positions DEF Past
      <4>2. HasText(disk.transcript) = Segs
        BY <3>1, <3>2, <4>1 DEF Progress
      <4>3. texts = disk.transcript
        BY <4>2, <1>2, <1>3, RowFacts
      <4> QED
        BY <4>2, <4>3, <1>4, <1>6, <1>9 DEF HasText
    <3>3. ~Past(3)'
      BY <1>1, <2>1, Positions DEF Past
    <3> QED
      BY <1>1, <1>10, <2>1, <3>1, <3>2, <3>3 DEF Progress, Spared, Stage, Exported, Forces
  <2>7. Clean'
    <3>1. /\ Stage("correct", "report")' /\ at' # "clear" /\ ~Stage("normalize", "stale srt")'
          /\ ~Stage("normalize", "reverts")' /\ ~Stage("export", "srt")'
      BY <1>1, <2>1 DEF Stage
    <3>2. Mark' = {"correct"}
      BY <3>1, Zenon DEF Mark
    <3>3. Sound(Settled') <=> Sound(Settled)'
      BY DEF Sound
    <3> QED
      BY <1>1, <2>5, <2>6, <3>2, <3>3 DEF Clean
  <2>8. Fresh'
    <3> SUFFICES ASSUME Forces, Full(cmd) PROVE FreshMade(disk', {}) /\ Unmade(disk', 2) /\ Reached' = 2 /\ Missing' = {}
      BY <1>1, <2>1 DEF Fresh, Forces, FreshMade, Unmade, AlignText
    <3>1. Reached' = 2 /\ Missing' = {} /\ Reached = 1 /\ Missing = {}
      BY <1>1, <2>1, Positions DEF Reached, Missing, Stage
    <3>2. FreshMade(disk, {}) /\ Unmade(disk, 1)
      BY <1>1, <3>1 DEF IInv, Fresh
    <3>3. texts = disk.transcript
      BY <3>2, <1>2, <1>3, RowFacts, PipelineAssumption DEF FreshMade
    <3>4. disk.aligned = None /\ disk.split = None /\ disk.translated.text = None
      BY <3>2, EmptyTyped DEF Unmade
    <3>5. \A s \in Segs : T[s] # Absent /\ (T[s] \in Texts <=> disk.tJournal[s] \in Texts)
      <4>1. \A s \in Segs : texts[s] # Absent /\ (texts[s] \in Texts <=> disk.tJournal[s] \in Texts)
        BY <3>2, <3>3 DEF FreshMade
      <4> QED
        BY <4>1, <1>4, <1>6
    <3>6. Unmade(disk', 2)
      BY <3>2, <1>10 DEF Unmade
    <3> QED
      BY <1>9, <1>10, <3>1, <3>4, <3>5, <3>6, RowFacts DEF FreshMade
  <2> QED
    BY <2>3, <2>4, <2>7, <2>8 DEF IInv
<1> QED
  BY <1>12, <1>13

LEMMA ReportCorrectionStep == ASSUME IInv, ReportCorrection PROVE IInv'
<1> DEFINE n == Cardinality(HasText(disk.transcript))
<1>1. /\ left # <<>> /\ at = "report" /\ Head(left) = "correct" /\ at' = "wipe" /\ ended = "none"
      /\ disk' = [disk EXCEPT !.corrected = n]
      /\ UNCHANGED <<left, ended, todo, pending, excused, cmd, runs>>
  BY DEF ReportCorrection, Stay, Stage, Counters, IInv, LeftOK
<1>2. n \in Nat
  <2>1. HasText(disk.transcript) \subseteq Segs
    BY DEF HasText
  <2>2. IsFiniteSet(HasText(disk.transcript))
    BY <2>1, PipelineAssumption, FS_Subset
  <2> QED
    BY <2>2, FS_CardinalityType
<1> HIDE DEF n
<1>3. disk \in Disk /\ pending \subseteq Segs /\ todo \in Seq(Files)
  BY DEF IInv, TypeOK
<1>4. disk' \in Disk /\ \A f \in Files \ {"corrected"} : disk'[f] = disk[f]
  BY <1>1, <1>2, <1>3 DEF Disk, Files
<1>5. /\ disk'.transcript = disk.transcript /\ disk'.tJournal = disk.tJournal /\ disk'.aligned = disk.aligned
      /\ disk'.aJournal = disk.aJournal
  BY <1>4 DEF Files
<1>6. TypeOK' /\ LeftOK'
  <2>1. at' \in Places \ {"idle"}
    BY <1>1 DEF Places
  <2> QED
    BY <1>1, <1>3, <1>4, <2>1, InStage DEF IInv
<1>7. PlaceOK' /\ JournalOK'
  BY <1>1, <1>5 DEF IInv, PlaceOK, JournalOK, Stage
<1>8. ASSUME excused = {} PROVE Sound(Settled') /\ Progress' /\ (Mark' = {} => Sound(disk'))
  <2>1. Sound(Settled) /\ Progress
    BY <1>8 DEF IInv, Clean
  <2>2. Settled = Wiped(disk, Names(todo)) /\ Settled' = Wiped(disk', Names(todo))
    BY <1>1 DEF Settled
  <2>3. \A f \in Files \ {"corrected"} : Wiped(disk', Names(todo))[f] = Wiped(disk, Names(todo))[f]
    BY <1>4 DEF Wiped
  <2>4. Sound(Settled')
    BY <2>1, <2>2, <2>3, SameSound
  <2>5. ~Past(3)' /\ Past(1) /\ Past(1)'
    BY <1>1, Positions DEF Past
  <2>6. Progress'
    BY <1>1, <1>5, <2>1, <2>5 DEF Progress, Spared, Stage, Exported, Forces
  <2>7. Mark' = {} => todo' = <<>>
    <3>1. Stage("correct", "wipe")' /\ at' # "clear"
      BY <1>1 DEF Stage
    <3> QED
      BY <3>1, Zenon DEF Mark
  <2>8. todo' = <<>> => Sound(disk')
    <3>1. todo' = <<>> => \A f \in Files : disk'[f] = Wiped(disk', Names(todo))[f]
      BY <1>1, NoNames DEF Wiped
    <3> QED
      BY <3>1, <2>2, <2>4, SameSound
  <2> QED
    BY <2>4, <2>6, <2>7, <2>8
<1>9. Clean'
  <2>1. Sound(Settled') <=> Sound(Settled)'
    BY DEF Sound
  <2> QED
    BY <1>1, <1>8, <2>1 DEF Clean
<1>10. Fresh'
  <2> SUFFICES ASSUME Forces, Full(cmd), Reached' > 0 PROVE FreshMade(disk', Missing') /\ Unmade(disk', Reached')
    BY <1>1 DEF Fresh, Forces, FreshMade, Unmade, AlignText
  <2>1. Reached' = Reached /\ Missing' = Missing
    BY <1>1 DEF Reached, Missing, Stage
  <2>2. FreshMade(disk, Missing) /\ Unmade(disk, Reached)
    BY <1>1, <2>1 DEF IInv, Fresh
  <2> QED
    BY <2>1, <2>2, <1>4, SameFresh
<1> QED
  BY <1>6, <1>7, <1>9, <1>10 DEF IInv
-----------------------------------------------------------------------------
(* split and translate. *)
LEMMA SplitStep == ASSUME IInv, Split PROVE IInv'
<1> DEFINE text == AlignText(disk)
<1>1. /\ left # <<>> /\ at = "clear" /\ todo = <<>> /\ todo' = <<>> /\ Head(left) = "split"
      /\ UNCHANGED <<pending, excused, cmd, runs>>
      /\ \/ Fails("failed") /\ disk' = disk
         \/ text # None /\ Proceed /\ disk' = [disk EXCEPT !.split = text]
  BY DEF Split, Ready, Stage, Counters
<1>2. disk \in Disk /\ text \in Rows /\ pending \subseteq Segs /\ (disk.aligned # None => disk.aJournal # None)
      /\ (disk.transcript # None => disk.tJournal # None)
  BY AlignTextTyped DEF IInv, TypeOK, JournalOK
<1>3. disk.aligned = None => text = None
  BY <1>2, AlignTextFacts
<1>4. HasText(disk.transcript) = Segs /\ HasText(disk.aligned) = Segs => text = disk.transcript
  BY <1>2, AlignTextFacts
<1>5. CASE Fails("failed") /\ disk' = disk
  <2>1. Ends /\ left' = <<>> /\ ended' = "failed"
    BY <1>5 DEF Ends, Fails
  <2>2. ~Stage("transcribe", "clear") /\ ~Stage("transcribe", "rows")
    BY <1>1 DEF Stage
  <2> QED
    BY <1>1, <1>2, <1>5, <2>1, <2>2, LeavesDisk
<1>6. CASE text # None /\ Proceed /\ disk' = [disk EXCEPT !.split = text]
  <2>1. AlignText(disk') = text
    BY <1>2, <1>6 DEF AlignText, Disk
  <2> HIDE DEF text
  <2>2. /\ disk' \in Disk /\ disk'.split = text /\ disk'.transcript = disk.transcript /\ disk'.tJournal = disk.tJournal
        /\ disk'.aligned = disk.aligned /\ disk'.aJournal = disk.aJournal /\ disk'.translated = disk.translated
        /\ disk'.normalized = disk.normalized /\ disk'.srt = disk.srt /\ disk'.reverts = disk.reverts
    BY <1>2, <1>6 DEF Disk
  <2>3. Ends
    BY <1>6 DEF Ends
  <2>4. (Full(cmd) => ended' # "gate") /\ (Full(cmd) => ended' # "ok")
    BY <1>1, <1>6, NotTheEnd DEF IInv
  <2>5. ASSUME excused' = {}
        PROVE  /\ excused = {} /\ Progress /\ Sound(disk')
               /\ Full(cmd) /\ left' # <<>> => HasText(disk'.transcript) = Segs
               /\ Full(cmd) /\ left' # <<>> /\ Pos(Head(left)) >= 3 /\ Has(cmd, "align") => HasText(disk'.aligned) = Segs
               /\ (disk'.aligned = disk.aligned /\ disk'.aJournal = disk.aJournal) \/ Has(cmd, "align")
    <3>1. excused = {}
      BY <1>1, <2>5
    <3>2. Sound(disk) /\ Progress
      BY <1>1, <3>1, SoundNow
    <3>3. disk.aligned # None /\ disk.aJournal # None
      BY <1>2, <1>3, <1>6
    <3>4. Has(cmd, "split") /\ (~Full(cmd) => ~Has(cmd, "align"))
      BY <1>1, AtHead, Positions DEF IInv
    <3>5. (Full(cmd) /\ Has(cmd, "align")) \/ HasText(disk.aligned) = Segs
      BY <1>1, <3>2, <3>3, <3>4 DEF Progress, Spared
    <3>6. Past(1) /\ Past(3)
      BY <1>1, Positions DEF Past
    <3>7. HasText(disk.transcript) = Segs /\ HasText(disk.aligned) = Segs
      <4>1. HasText(disk.aligned) = Segs
        BY <3>2, <3>5, <3>6 DEF Progress
      <4> QED
        BY <1>1, <3>2, <3>3, <3>6, <4>1 DEF Progress, Stage
    <3>8. text = disk.transcript
      BY <1>4, <3>7
    <3>9. RowsSound(disk') /\ SplitSound(disk') /\ TranslatedSound(disk')
      BY <1>6, <2>2, <3>2, <3>7, <3>8 DEF Sound, RowsSound, SplitSound, TranslatedSound
    <3>10. NormalizedSound(disk')
      BY <2>2, <3>2 DEF Sound, NormalizedSound, Undone
    <3>11. ForExport(disk').memory = ForExport(disk).memory
      BY <2>2 DEF ForExport
    <3>12. SrtSound(disk')
      BY <2>2, <3>2, <3>11 DEF Sound, SrtSound
    <3> QED
      BY <2>2, <3>1, <3>2, <3>7, <3>9, <3>10, <3>12 DEF Sound
  <2>6. ASSUME Forces, Full(cmd) PROVE FreshMade(disk', {}) /\ Unmade(disk', Pos(Head(left)))
    <3>1. Reached = 3 /\ Missing = {} /\ Pos(Head(left)) = 4
      BY <1>1, Positions DEF Reached, Missing, Stage
    <3>2. FreshMade(disk, {}) /\ Unmade(disk, 3)
      BY <1>1, <2>6, <3>1 DEF IInv, Fresh
    <3>3. disk.translated.text = None
      BY <3>2, EmptyTyped DEF Unmade
    <3>4. Unmade(disk', 4)
      BY <2>2, <3>2 DEF Unmade
    <3> QED
      BY <2>1, <2>2, <3>1, <3>2, <3>3, <3>4 DEF FreshMade
  <2>7. /\ disk'.transcript # None => disk'.tJournal # None
        /\ disk'.aligned # None => disk'.aJournal # None
    BY <1>2, <2>2
  <2> QED
    BY <1>1, <1>2, <2>2, <2>3, <2>4, <2>5, <2>6, <2>7, EndsStage
<1> QED
  BY <1>1, <1>5, <1>6

LEMMA TranslateStep == ASSUME IInv, NEW full \in BOOLEAN, Translate(full) PROVE IInv'
<1>1. /\ left # <<>> /\ at = "clear" /\ todo = <<>> /\ todo' = <<>> /\ Head(left) = "translate"
      /\ UNCHANGED <<pending, cmd, runs>> /\ (excused' = {} => full /\ excused = {})
  BY DEF Translate, Ready, Stage, Counters
<1>2. \/ Fails("failed") /\ disk' = disk
      \/ /\ disk.split # None /\ disk' = [disk EXCEPT !.translated = [text |-> disk.split, full |-> full]]
         /\ Proceed \/ Fails("failed")
  BY DEF Translate
<1>3. disk \in Disk /\ disk.split \in Rows /\ pending \subseteq Segs /\ (disk.aligned # None => disk.aJournal # None)
      /\ (disk.transcript # None => disk.tJournal # None)
  BY DiskFields DEF IInv, TypeOK, JournalOK
<1>4. CASE Fails("failed") /\ disk' = disk
  <2>1. Ends /\ left' = <<>> /\ ended' = "failed"
    BY <1>4 DEF Ends, Fails
  <2>2. ~Stage("transcribe", "clear") /\ ~Stage("transcribe", "rows")
    BY <1>1 DEF Stage
  <2>3. excused' = {} => excused = {}
    BY <1>1
  <2> QED
    BY <1>1, <1>3, <1>4, <2>1, <2>2, <2>3, LeavesDisk
<1>5. CASE /\ disk.split # None /\ disk' = [disk EXCEPT !.translated = [text |-> disk.split, full |-> full]]
           /\ Proceed \/ Fails("failed")
  <2>1. /\ disk' \in Disk /\ disk'.split = disk.split /\ disk'.transcript = disk.transcript
        /\ disk'.tJournal = disk.tJournal /\ disk'.aligned = disk.aligned /\ disk'.aJournal = disk.aJournal
        /\ disk'.normalized = disk.normalized /\ disk'.srt = disk.srt /\ disk'.reverts = disk.reverts
        /\ disk'.translated.text = disk.split /\ disk'.translated.full = full
    BY <1>3, <1>5 DEF Disk
  <2>2. Ends
    BY <1>5 DEF Ends
  <2>3. (Full(cmd) => ended' # "gate") /\ (Full(cmd) => ended' # "ok")
    BY <1>1, <1>5, NotTheEnd DEF IInv, Fails
  <2>4. AlignText(disk') = AlignText(disk)
    BY <2>1 DEF AlignText
  <2>5. ForExport(disk').memory = ForExport(disk).memory
    BY <2>1 DEF ForExport
  <2>6. ASSUME excused' = {}
        PROVE  /\ excused = {} /\ Progress /\ Sound(disk')
               /\ Full(cmd) /\ left' # <<>> => HasText(disk'.transcript) = Segs
               /\ Full(cmd) /\ left' # <<>> /\ Pos(Head(left)) >= 3 /\ Has(cmd, "align") => HasText(disk'.aligned) = Segs
               /\ (disk'.aligned = disk.aligned /\ disk'.aJournal = disk.aJournal) \/ Has(cmd, "align")
    <3>1. excused = {} /\ full
      BY <1>1, <2>6
    <3>2. Sound(disk) /\ Progress
      BY <1>1, <3>1, SoundNow
    <3>3. Past(1) /\ Past(3)
      BY <1>1, Positions DEF Past
    <3>4. disk.split = disk.transcript
      BY <1>5, <3>2 DEF Sound, SplitSound
    <3>5. disk'.translated.full
      BY <2>1, <3>1
    <3>6. RowsSound(disk') /\ SplitSound(disk')
      BY <2>1, <3>2 DEF Sound, RowsSound, SplitSound
    <3>7. disk'.translated.text = disk'.transcript /\ disk'.split # None
      BY <1>5, <2>1, <3>4
    <3>8. TranslatedSound(disk')
      BY <3>5, <3>7, Zenon DEF TranslatedSound
    <3>9. NormalizedSound(disk')
      BY <2>1, <3>2 DEF Sound, NormalizedSound, Undone
    <3>10. SrtSound(disk')
      BY <2>1, <2>5, <3>2 DEF Sound, SrtSound
    <3>11. Sound(disk')
      BY <3>6, <3>8, <3>9, <3>10 DEF Sound
    <3>12. /\ Full(cmd) => HasText(disk'.transcript) = Segs
           /\ Full(cmd) /\ Has(cmd, "align") => HasText(disk'.aligned) = Segs
      BY <2>1, <3>2, <3>3 DEF Progress
    <3> QED
      BY <2>1, <3>1, <3>2, <3>11, <3>12
  <2>7. ASSUME Forces, Full(cmd) PROVE FreshMade(disk', {}) /\ Unmade(disk', Pos(Head(left)))
    <3>1. Reached = 4 /\ Missing = {} /\ Pos(Head(left)) = 5
      BY <1>1, Positions DEF Reached, Missing, Stage
    <3>2. FreshMade(disk, {}) /\ Unmade(disk, 4)
      BY <1>1, <2>7, <3>1 DEF IInv, Fresh
    <3>3. Unmade(disk', 5)
      BY <2>1, <3>2 DEF Unmade
    <3> QED
      BY <2>1, <2>4, <3>1, <3>2, <3>3 DEF FreshMade
  <2>8. /\ disk'.transcript # None => disk'.tJournal # None
        /\ disk'.aligned # None => disk'.aJournal # None
    BY <1>3, <2>1
  <2> QED
    BY <1>1, <1>3, <2>1, <2>2, <2>3, <2>6, <2>7, <2>8, EndsStage
<1> QED
  BY <1>2, <1>4, <1>5
-----------------------------------------------------------------------------
(* normalize. *)
LEMMA GateAsked ==
    ASSUME IInv, NEW stage, Open(stage), excused = {}
    PROVE  /\ Sound(disk) /\ Progress
           /\ disk.transcript # None => HasText(disk.transcript) = Segs
           /\ disk.transcript # None => Latest(disk) = disk.transcript
           /\ disk.transcript = None => Latest(disk) = None
<1>1. at = "clear" /\ todo = <<>> /\ ~GateFails(disk, FALSE, FALSE)
  BY DEF Open, Ready, Stage
<1>2. Sound(disk) /\ Progress
  BY <1>1, SoundNow
<1>3. disk \in Disk /\ (disk.transcript # None => disk.tJournal # None)
  BY DEF IInv, TypeOK, JournalOK
<1>4. disk.transcript # None => HasText(disk.transcript) = Segs
  BY <1>1, <1>3, GateAsks
<1> QED
  BY <1>2, <1>3, <1>4, LatestFacts DEF Sound

LEMMA NormalizeStep == ASSUME IInv, Normalize PROVE IInv'
<1> DEFINE new == [text |-> Latest(disk), memory |-> FALSE, chinese |-> disk.translated.text # None]
<1>1. /\ left # <<>> /\ at = "clear" /\ todo = <<>> /\ todo' = <<>> /\ Head(left) = "normalize"
      /\ UNCHANGED <<pending, excused, cmd, runs>> /\ Open("normalize") /\ Ready("normalize")
      /\ ~(Resumes /\ disk.normalized.text # None)
      /\ disk' = [disk EXCEPT !.normalized = new]
      /\ IF cmd.memory THEN Stay("memory") ELSE Proceed
  BY DEF Normalize, Open, Ready, Stage, Counters
<1>2. disk \in Disk /\ pending \subseteq Segs /\ (disk.aligned # None => disk.aJournal # None)
      /\ (disk.transcript # None => disk.tJournal # None)
  BY DEF IInv, TypeOK, JournalOK
<1>3. Forces => disk.normalized = Empty.normalized
  BY <1>1, IsCleared, OfCleared
<1>4. new \in [text : Rows, memory : BOOLEAN, chinese : BOOLEAN] /\ new.text = Latest(disk) /\ new.memory = FALSE
  BY <1>2, LatestTyped
<1> HIDE DEF new
<1>5. /\ disk' \in Disk /\ disk'.normalized = new /\ disk'.transcript = disk.transcript
      /\ disk'.tJournal = disk.tJournal /\ disk'.aligned = disk.aligned /\ disk'.aJournal = disk.aJournal
      /\ disk'.split = disk.split /\ disk'.translated = disk.translated /\ disk'.srt = disk.srt
  BY <1>1, <1>2, <1>4 DEF Disk
<1>6. ASSUME excused = {} PROVE Sound(disk') /\ Progress
  <2>1. /\ Sound(disk) /\ Progress
        /\ disk.transcript # None => HasText(disk.transcript) = Segs
        /\ disk.transcript # None => Latest(disk) = disk.transcript
        /\ disk.transcript = None => Latest(disk) = None
    BY <1>1, <1>6, GateAsked
  <2>2. RowsSound(disk') /\ SplitSound(disk') /\ TranslatedSound(disk')
    BY <1>5, <2>1 DEF Sound, RowsSound, SplitSound, TranslatedSound
  <2>3. NormalizedSound(disk')
    <3>1. Undone(disk')
      BY <1>4, <1>5 DEF Undone
    <3> QED
      BY <1>4, <1>5, <2>1, <3>1 DEF NormalizedSound
  <2>4. SrtSound(disk')
    <3>1. disk.normalized.text = None
      BY <1>1, <1>3, <2>1, EmptyTyped DEF Progress, Resumes, Forces
    <3>2. ForExport(disk).memory = FALSE /\ ForExport(disk').memory = FALSE
      BY <1>4, <1>5, <3>1 DEF ForExport
    <3> QED
      BY <1>5, <2>1, <3>2 DEF Sound, SrtSound
  <2> QED
    BY <2>1, <2>2, <2>3, <2>4 DEF Sound
<1>7. /\ disk'.transcript # None => disk'.tJournal # None
      /\ disk'.aligned # None => disk'.aJournal # None
  BY <1>2, <1>5
<1>8. ASSUME Forces, Full(cmd) PROVE FreshMade(disk', {}) /\ Unmade(disk', 7)
  <2>1. Reached = 6 /\ Missing = {}
    BY <1>1, Positions DEF Reached, Missing, Stage
  <2>2. FreshMade(disk, {}) /\ Unmade(disk, 6)
    BY <1>1, <1>8, <2>1 DEF IInv, Fresh
  <2>3. AlignText(disk') = AlignText(disk)
    BY <1>5 DEF AlignText
  <2> QED
    BY <1>5, <2>2, <2>3 DEF FreshMade, Unmade
<1>9. ASSUME excused = {}
      PROVE  /\ Full(cmd) => HasText(disk'.transcript) = Segs
             /\ Full(cmd) /\ Has(cmd, "align") => HasText(disk'.aligned) = Segs
  <2>1. Past(1) /\ Past(3)
    BY <1>1, Positions DEF Past
  <2> QED
    BY <2>1, <1>5, <1>6, <1>9 DEF Progress
<1>10. CASE ~cmd.memory
  <2>1. Proceed /\ Ends
    BY <1>1, <1>10 DEF Ends
  <2>2. (Full(cmd) => ended' # "gate") /\ (Full(cmd) => ended' # "ok")
    BY <1>1, <2>1, NotTheEnd DEF IInv
  <2>3. Pos(Head(left)) = 7
    BY <1>1, Positions
  <2>4. ASSUME excused' = {}
        PROVE  /\ excused = {} /\ Progress /\ Sound(disk')
               /\ Full(cmd) /\ left' # <<>> => HasText(disk'.transcript) = Segs
               /\ Full(cmd) /\ left' # <<>> /\ Pos(Head(left)) >= 3 /\ Has(cmd, "align") => HasText(disk'.aligned) = Segs
               /\ (disk'.aligned = disk.aligned /\ disk'.aJournal = disk.aJournal) \/ Has(cmd, "align")
    BY <2>4, <1>1, <1>5, <1>6, <1>9
  <2> QED
    BY <1>1, <1>2, <1>5, <1>7, <1>8, <2>1, <2>2, <2>3, <2>4, EndsStage
<1>11. CASE cmd.memory
  <2>1. at' = "memory" /\ left' = left /\ ended' = ended /\ ended = "none"
    BY <1>1, <1>11 DEF Stay, IInv, LeftOK
  <2>2. TypeOK' /\ LeftOK'
    <3>1. at' \in Places \ {"idle"} /\ todo' \in Seq(Files)
      BY <1>1, <2>1 DEF Places
    <3> QED
      BY <1>1, <1>2, <1>5, <2>1, <3>1, InStage DEF IInv
  <2>3. PlaceOK' /\ JournalOK'
    BY <1>1, <1>7, <2>1 DEF PlaceOK, JournalOK, Stage
  <2>4. ASSUME excused = {} PROVE Progress'
    BY <1>1, <1>5, <1>6, <1>9, <2>1, <2>4 DEF Progress, Spared, Stage, Exported, Forces
  <2>5. Clean'
    BY <1>1, <1>6, <2>1, <2>4, CleanAgain
  <2>6. Fresh'
    <3>1. Reached' = 7 /\ Missing' = {}
      BY <1>1, <2>1, Positions DEF Reached, Missing, Stage
    <3> QED
      BY <1>1, <1>8, <2>1, <3>1 DEF Fresh, Forces, FreshMade, Unmade, AlignText
  <2> QED
    BY <2>2, <2>3, <2>5, <2>6 DEF IInv
<1> QED
  BY <1>10, <1>11

(* The first two writes of the program memory. *)
LEMMA SameMade ==
    ASSUME NEW d, NEW e, FreshMade(d, {}), Unmade(d, 7),
           e.transcript = d.transcript, e.tJournal = d.tJournal, e.aligned = d.aligned,
           e.aJournal = d.aJournal, e.split = d.split, e.translated = d.translated,
           e.srt = Empty.srt \/ e.srt = d.srt
    PROVE  FreshMade(e, {}) /\ Unmade(e, 7)
<1>1. AlignText(e) = AlignText(d)
  BY DEF AlignText
<1> QED
  BY <1>1 DEF FreshMade, Unmade

LEMMA MemoryFresh ==
    ASSUME Fresh, left # <<>>, Head(left) = "normalize", at \in {"memory", "stale srt"},
           at' \in {"stale srt", "reverts"}, left' = left, cmd' = cmd,
           disk'.transcript = disk.transcript, disk'.tJournal = disk.tJournal, disk'.aligned = disk.aligned,
           disk'.aJournal = disk.aJournal, disk'.split = disk.split, disk'.translated = disk.translated,
           disk'.srt \in {Empty.srt, disk.srt}
    PROVE  Fresh'
<1>1. Reached = 7 /\ Missing = {} /\ Reached' = 7 /\ Missing' = {}
  BY Positions DEF Reached, Missing, Stage
<1>2. Reached > 0
  <2>1. Reached = Pos("normalize")
    BY DEF Reached
  <2> QED
    BY <2>1, Positions, Zenon
<1>3. Forces /\ Full(cmd) => FreshMade(disk, {}) /\ Unmade(disk, 7)
  BY <1>1, <1>2, Zenon DEF Fresh
<1>4. Forces /\ Full(cmd) => FreshMade(disk', {}) /\ Unmade(disk', 7)
  BY <1>3, SameMade
<1> QED
  BY <1>1, <1>4 DEF Fresh, Forces, FreshMade, Unmade, AlignText

LEMMA MemoryStep ==
    ASSUME IInv, left # <<>>, Head(left) = "normalize", at \in {"memory", "stale srt"},
           at' \in {"stale srt", "reverts"}, disk' \in Disk,
           disk'.transcript = disk.transcript, disk'.tJournal = disk.tJournal, disk'.aligned = disk.aligned,
           disk'.aJournal = disk.aJournal, disk'.split = disk.split, disk'.translated = disk.translated,
           disk'.srt \in {Empty.srt, disk.srt},
           excused = {} => Sound(Settled'),
           left' = left, ended' = ended, todo' = todo, pending' = pending, excused' = excused,
           cmd' = cmd, runs' = runs
    PROVE  IInv'
<1>1. todo = <<>> /\ ended = "none" /\ pending \subseteq Segs /\ todo \in Seq(Files)
  BY DEF IInv, PlaceOK, LeftOK, TypeOK
<1>2. /\ disk'.transcript = disk.transcript /\ disk'.tJournal = disk.tJournal /\ disk'.aligned = disk.aligned
      /\ disk'.aJournal = disk.aJournal /\ disk'.split = disk.split /\ disk'.translated = disk.translated
  OBVIOUS
<1>3. TypeOK' /\ LeftOK'
  <2>1. at' \in Places \ {"idle"}
    BY DEF Places
  <2> QED
    BY <1>1, <2>1, InStage DEF IInv
<1>4. PlaceOK' /\ JournalOK'
  BY <1>1, <1>2 DEF IInv, PlaceOK, JournalOK, Stage
<1>5. Clean'
  <2>1. Stage("normalize", "stale srt")' \/ Stage("normalize", "reverts")'
    BY DEF Stage
  <2>2. ~Stage("correct", "report")' /\ ~Stage("correct", "wipe")' /\ ~Stage("export", "srt")' /\ at' # "clear"
    BY DEF Stage
  <2>3. Mark' = {"memory"}
    BY <2>1, <2>2, Zenon DEF Mark
  <2>4. Sound(Settled') <=> Sound(Settled)'
    BY DEF Sound
  <2>5. ASSUME excused = {} PROVE Progress'
    <3>1. Progress
      BY <2>5 DEF IInv, Clean
    <3>2. (Past(1)' <=> Past(1)) /\ (Past(3)' <=> Past(3))
      BY DEF Past
    <3> QED
      BY <1>1, <1>2, <3>1, <3>2 DEF Progress, Spared, Stage, Exported, Forces
  <2> QED
    BY <2>3, <2>4, <2>5 DEF Clean
<1>6. Fresh'
  BY MemoryFresh DEF IInv
<1> QED
  BY <1>3, <1>4, <1>5, <1>6 DEF IInv

LEMMA ApplyMemoryStep == ASSUME IInv, ApplyMemory PROVE IInv'
<1>1. /\ left # <<>> /\ at = "memory" /\ Head(left) = "normalize" /\ at' = "stale srt"
      /\ disk' = [disk EXCEPT !.normalized.memory = TRUE]
      /\ UNCHANGED <<left, ended, todo, pending, excused, cmd, runs>>
  BY DEF ApplyMemory, Stay, Stage, Counters
<1>2. disk \in Disk /\ todo = <<>>
  BY <1>1 DEF IInv, TypeOK, PlaceOK
<1>3. /\ disk' \in Disk /\ disk'.normalized.text = disk.normalized.text /\ disk'.srt = disk.srt
      /\ disk'.transcript = disk.transcript /\ disk'.tJournal = disk.tJournal /\ disk'.aligned = disk.aligned
      /\ disk'.aJournal = disk.aJournal /\ disk'.split = disk.split /\ disk'.translated = disk.translated
  BY <1>1, <1>2 DEF Disk
<1>4. ASSUME excused = {} PROVE Sound(Settled')
  <2>1. Sound(disk)
    BY <1>1, <1>2, <1>4, SoundNow
  <2> DEFINE e == [disk' EXCEPT !.srt = Empty.srt, !.reverts = disk'.normalized.text]
  <2>2. Settled' = e
    BY <1>1 DEF Settled
  <2>3. /\ e.transcript = disk.transcript /\ e.tJournal = disk.tJournal /\ e.aligned = disk.aligned
        /\ e.aJournal = disk.aJournal /\ e.split = disk.split /\ e.translated = disk.translated
        /\ e.normalized.text = disk.normalized.text /\ e.srt.text = None /\ e.reverts = e.normalized.text
    BY <1>3, EmptyTyped DEF Disk
  <2> HIDE DEF e
  <2>4. RowsSound(e) /\ SplitSound(e) /\ TranslatedSound(e)
    BY <2>1, <2>3 DEF Sound, RowsSound, SplitSound, TranslatedSound
  <2>5. NormalizedSound(e) /\ SrtSound(e)
    BY <2>1, <2>3 DEF Sound, NormalizedSound, SrtSound, Undone
  <2> QED
    BY <2>2, <2>4, <2>5 DEF Sound
<1> QED
  BY <1>1, <1>3, <1>4, MemoryStep

LEMMA DropSrtStep == ASSUME IInv, DropSrt PROVE IInv'
<1>1. /\ left # <<>> /\ at = "stale srt" /\ Head(left) = "normalize" /\ at' = "reverts"
      /\ disk' = [disk EXCEPT !.srt = Empty.srt]
      /\ UNCHANGED <<left, ended, todo, pending, excused, cmd, runs>>
  BY DEF DropSrt, Stay, Stage, Counters
<1>2. disk \in Disk
  BY DEF IInv, TypeOK
<1>3. /\ disk' \in Disk /\ disk'.srt = Empty.srt /\ disk'.normalized = disk.normalized
      /\ disk'.transcript = disk.transcript /\ disk'.tJournal = disk.tJournal /\ disk'.aligned = disk.aligned
      /\ disk'.aJournal = disk.aJournal /\ disk'.split = disk.split /\ disk'.translated = disk.translated
  BY <1>1, <1>2, EmptyTyped DEF Disk
<1>4. ASSUME excused = {} PROVE Sound(Settled')
  <2>1. Sound(Settled)
    BY <1>4 DEF IInv, Clean
  <2>2. Settled = [disk EXCEPT !.srt = Empty.srt, !.reverts = disk.normalized.text]
    BY <1>1 DEF Settled
  <2>3. Settled' = [disk' EXCEPT !.reverts = disk'.normalized.text]
    BY <1>1 DEF Settled
  <2>4. Settled' = Settled
    BY <1>1, <1>2, <2>2, <2>3 DEF Disk
  <2> QED
    BY <2>1, <2>4
<1> QED
  BY <1>1, <1>3, <1>4, MemoryStep

LEMMA ReportMemoryStep == ASSUME IInv, ReportMemory PROVE IInv'
<1>1. /\ left # <<>> /\ at = "reverts" /\ Head(left) = "normalize" /\ Proceed /\ Ends
      /\ disk' = [disk EXCEPT !.reverts = disk.normalized.text]
      /\ UNCHANGED <<todo, pending, excused, cmd, runs>>
  BY DEF ReportMemory, Stage, Counters, Ends
<1>2. disk \in Disk /\ todo = <<>> /\ pending \subseteq Segs /\ (disk.aligned # None => disk.aJournal # None)
      /\ (disk.transcript # None => disk.tJournal # None) /\ disk.normalized.text \in Rows
  BY <1>1, DiskFields DEF IInv, TypeOK, PlaceOK, JournalOK
<1>3. /\ disk' \in Disk /\ disk'.transcript = disk.transcript /\ disk'.tJournal = disk.tJournal
      /\ disk'.aligned = disk.aligned /\ disk'.aJournal = disk.aJournal /\ disk'.split = disk.split
      /\ disk'.translated = disk.translated /\ disk'.normalized = disk.normalized /\ disk'.srt = disk.srt
  BY <1>1, <1>2 DEF Disk
<1>4. (Full(cmd) => ended' # "gate") /\ (Full(cmd) => ended' # "ok")
  BY <1>1, NotTheEnd DEF IInv
<1>5. ASSUME excused' = {}
      PROVE  /\ excused = {} /\ Progress /\ Sound(disk')
             /\ Full(cmd) /\ left' # <<>> => HasText(disk'.transcript) = Segs
             /\ Full(cmd) /\ left' # <<>> /\ Pos(Head(left)) >= 3 /\ Has(cmd, "align") => HasText(disk'.aligned) = Segs
             /\ (disk'.aligned = disk.aligned /\ disk'.aJournal = disk.aJournal) \/ Has(cmd, "align")
  <2>1. excused = {}
    BY <1>1, <1>5
  <2>2. Sound(Settled) /\ Progress
    BY <2>1 DEF IInv, Clean
  <2>3. Settled = disk'
    BY <1>1 DEF Settled
  <2>4. Past(1) /\ Past(3)
    BY <1>1, Positions DEF Past
  <2>5. /\ Full(cmd) => HasText(disk.transcript) = Segs
        /\ Full(cmd) /\ Has(cmd, "align") => HasText(disk.aligned) = Segs
    BY <2>2, <2>4 DEF Progress
  <2> QED
    BY <1>3, <2>1, <2>2, <2>3, <2>5
<1>6. ASSUME Forces, Full(cmd) PROVE FreshMade(disk', {}) /\ Unmade(disk', Pos(Head(left)))
  <2>1. Reached = Pos(Head(left)) /\ Missing = {} /\ Reached > 0
    BY <1>1, Positions DEF Reached, Missing, Stage
  <2>2. FreshMade(disk, {}) /\ Unmade(disk, Pos(Head(left)))
    BY <1>1, <1>6, <2>1 DEF IInv, Fresh
  <2>3. AlignText(disk') = AlignText(disk)
    BY <1>3 DEF AlignText
  <2> QED
    BY <1>3, <2>2, <2>3 DEF FreshMade, Unmade
<1>7. /\ disk'.transcript # None => disk'.tJournal # None
      /\ disk'.aligned # None => disk'.aJournal # None
  BY <1>2, <1>3
<1> QED
  BY <1>1, <1>2, <1>3, <1>4, <1>5, <1>6, <1>7, EndsStage
-----------------------------------------------------------------------------
(* export. *)
LEMMA OpenSrtStep == ASSUME IInv, OpenSrt PROVE IInv'
<1> DEFINE torn == [ForExport(disk) EXCEPT !.text = Torn]
<1>1. /\ left # <<>> /\ at = "clear" /\ todo = <<>> /\ Head(left) = "export" /\ Open("export")
      /\ at' = "srt" /\ ended = "none" /\ disk' = [disk EXCEPT !.srt = torn]
      /\ UNCHANGED <<left, ended, todo, pending, excused, cmd, runs>>
  BY DEF OpenSrt, Open, Ready, Stay, Stage, Counters, IInv, LeftOK
<1>2. disk \in Disk /\ pending \subseteq Segs /\ todo \in Seq(Files)
  BY DEF IInv, TypeOK
<1>3. ForExport(disk) \in [text : Rows, memory : BOOLEAN, chinese : BOOLEAN]
  BY <1>2, ForExportFields
<1>4. torn \in [text : Rows, memory : BOOLEAN, chinese : BOOLEAN]
  <2>1. Torn \in Rows
    BY DEF Torn, Rows, Row
  <2> QED
    BY <1>3, <2>1
<1> HIDE DEF torn
<1>5. /\ disk' \in Disk /\ disk'.transcript = disk.transcript /\ disk'.tJournal = disk.tJournal
      /\ disk'.aligned = disk.aligned /\ disk'.aJournal = disk.aJournal /\ disk'.split = disk.split
      /\ disk'.translated = disk.translated /\ disk'.normalized = disk.normalized /\ disk'.reverts = disk.reverts
  BY <1>1, <1>2, <1>4 DEF Disk
<1>6. TypeOK' /\ LeftOK'
  <2>1. at' \in Places \ {"idle"}
    BY <1>1 DEF Places
  <2> QED
    BY <1>1, <1>2, <1>5, <2>1, InStage DEF IInv
<1>7. PlaceOK' /\ JournalOK'
  BY <1>1, <1>5 DEF IInv, PlaceOK, JournalOK, Stage
<1>8. ASSUME excused = {} PROVE Sound(Settled')
  <2>1. /\ Sound(disk)
        /\ disk.transcript # None => HasText(disk.transcript) = Segs
        /\ disk.transcript # None => Latest(disk) = disk.transcript
        /\ disk.transcript = None => Latest(disk) = None
    BY <1>1, <1>8, GateAsked
  <2> DEFINE e == [disk' EXCEPT !.srt = ForExport(disk')]
  <2>2. Settled' = e
    BY <1>1 DEF Settled
  <2>3. /\ e.transcript = disk.transcript /\ e.tJournal = disk.tJournal /\ e.aligned = disk.aligned
        /\ e.aJournal = disk.aJournal /\ e.split = disk.split /\ e.translated = disk.translated
        /\ e.normalized = disk.normalized /\ e.reverts = disk.reverts /\ e.srt = ForExport(disk')
    BY <1>5 DEF Disk
  <2> HIDE DEF e
  <2>4. Latest(disk') = Latest(disk) /\ Latest(e) = Latest(disk)
    BY <1>5, <2>3 DEF Latest
  <2>5. ForExport(disk') = ForExport(disk) /\ ForExport(e) = ForExport(disk)
    BY <1>5, <2>3, <2>4 DEF ForExport
  <2>6. RowsSound(e) /\ SplitSound(e) /\ TranslatedSound(e) /\ NormalizedSound(e)
    BY <2>1, <2>3 DEF Sound, RowsSound, SplitSound, TranslatedSound, NormalizedSound, Undone
  <2>7. SrtSound(e)
    <3> SUFFICES ASSUME e.srt.text # None PROVE e.srt.text = disk.transcript /\ HasText(disk.transcript) = Segs
      BY <2>3, <2>5 DEF SrtSound
    <3>1. CASE disk.normalized.text # None
      BY <1>2, <2>1, <2>3, <2>5, <3>1, ForExportFields DEF Sound, NormalizedSound
    <3>2. CASE disk.normalized.text = None
      <4>1. e.srt.text = Latest(disk)
        BY <1>2, <2>3, <2>5, <3>2, ForExportFields
      <4> QED
        BY <4>1, <2>1
    <3> QED
      BY <3>1, <3>2
  <2> QED
    BY <2>2, <2>6, <2>7 DEF Sound
<1>9. ASSUME excused = {} PROVE Progress'
  <2>1. Progress
    BY <1>9 DEF IInv, Clean
  <2>2. (Past(1)' <=> Past(1)) /\ (Past(3)' <=> Past(3))
    BY <1>1 DEF Past
  <2> QED
    BY <1>1, <1>5, <2>1, <2>2 DEF Progress, Spared, Stage, Exported, Forces
<1>10. Clean'
  <2>1. /\ Stage("export", "srt")' /\ at' # "clear" /\ ~Stage("correct", "report")' /\ ~Stage("correct", "wipe")'
        /\ ~Stage("normalize", "stale srt")' /\ ~Stage("normalize", "reverts")'
    BY <1>1 DEF Stage
  <2>2. Mark' = {"torn srt"}
    BY <2>1, Zenon DEF Mark
  <2>3. Sound(Settled') <=> Sound(Settled)'
    BY DEF Sound
  <2> QED
    BY <1>1, <1>8, <1>9, <2>2, <2>3 DEF Clean
<1>11. Fresh'
  <2> SUFFICES ASSUME Forces, Full(cmd) PROVE FreshMade(disk', {}) /\ Unmade(disk', 8) /\ Reached' = 8 /\ Missing' = {}
    BY <1>1 DEF Fresh, Forces, FreshMade, Unmade, AlignText
  <2>1. Reached = 7 /\ Missing = {} /\ Reached' = 8 /\ Missing' = {}
    BY <1>1, Positions DEF Reached, Missing, Stage
  <2>2. FreshMade(disk, {})
    BY <1>1, <2>1 DEF IInv, Fresh
  <2>3. AlignText(disk') = AlignText(disk)
    BY <1>5 DEF AlignText
  <2>4. FreshMade(disk', {})
    BY <1>5, <2>2, <2>3 DEF FreshMade
  <2> QED
    BY <2>1, <2>4 DEF Unmade
<1> QED
  BY <1>6, <1>7, <1>10, <1>11 DEF IInv

LEMMA WriteSrtStep == ASSUME IInv, WriteSrt PROVE IInv'
<1>1. /\ left # <<>> /\ at = "srt" /\ todo = <<>> /\ Head(left) = "export"
      /\ at' = "final" /\ ended = "none" /\ disk' = [disk EXCEPT !.srt = ForExport(disk)]
      /\ UNCHANGED <<left, ended, todo, pending, excused, cmd, runs>>
  BY DEF WriteSrt, Stay, Stage, Counters, IInv, LeftOK, PlaceOK
<1>2. disk \in Disk /\ pending \subseteq Segs /\ todo \in Seq(Files)
  BY DEF IInv, TypeOK
<1>3. ForExport(disk) \in [text : Rows, memory : BOOLEAN, chinese : BOOLEAN]
  BY <1>2, ForExportFields
<1>4. /\ disk' \in Disk /\ disk'.transcript = disk.transcript /\ disk'.tJournal = disk.tJournal
      /\ disk'.aligned = disk.aligned /\ disk'.aJournal = disk.aJournal /\ disk'.split = disk.split
      /\ disk'.translated = disk.translated /\ disk'.normalized = disk.normalized
      /\ disk'.srt = ForExport(disk)
  BY <1>1, <1>2, <1>3 DEF Disk
<1>5. TypeOK' /\ LeftOK'
  <2>1. at' \in Places \ {"idle"}
    BY <1>1 DEF Places
  <2> QED
    BY <1>1, <1>2, <1>4, <2>1, InStage DEF IInv
<1>6. PlaceOK' /\ JournalOK'
  BY <1>1, <1>4 DEF IInv, PlaceOK, JournalOK, Stage
<1>7. ASSUME excused = {} PROVE Sound(disk') /\ Progress'
  <2>1. Sound(disk') /\ Progress
    BY <1>1, <1>7 DEF IInv, Clean, Settled
  <2>2. (Past(1)' <=> Past(1)) /\ (Past(3)' <=> Past(3)) /\ Past(1)
    BY <1>1, Positions DEF Past
  <2>3. ASSUME Full(cmd) PROVE disk'.srt.text # None
    <3>1. HasText(disk'.transcript) = Segs
      BY <1>4, <2>1, <2>2, <2>3 DEF Progress
    <3>2. Latest(disk') = disk'.transcript /\ disk'.transcript # None
      BY <1>4, <2>1, <3>1, LatestFacts, RowFacts, DiskFields DEF Sound
    <3>3. Latest(disk') = Latest(disk)
      BY <1>4 DEF Latest
    <3>4. CASE disk.normalized.text # None
      BY <1>2, <1>4, <3>4, ForExportFields
    <3>5. CASE disk.normalized.text = None
      BY <1>2, <1>4, <3>2, <3>3, <3>5, ForExportFields
    <3> QED
      BY <3>4, <3>5
  <2> QED
    BY <1>1, <1>4, <2>1, <2>2, <2>3 DEF Progress, Spared, Stage, Exported, Forces
<1>8. Clean'
  BY <1>1, <1>7, CleanAgain
<1>9. Fresh'
  <2> SUFFICES ASSUME Forces, Full(cmd) PROVE FreshMade(disk', {}) /\ Unmade(disk', 8) /\ Reached' = 8 /\ Missing' = {}
    BY <1>1 DEF Fresh, Forces, FreshMade, Unmade, AlignText
  <2>1. Reached = 8 /\ Missing = {} /\ Reached' = 8 /\ Missing' = {}
    BY <1>1, Positions DEF Reached, Missing, Stage
  <2>2. FreshMade(disk, {})
    BY <1>1, <2>1 DEF IInv, Fresh
  <2>3. AlignText(disk') = AlignText(disk)
    BY <1>4 DEF AlignText
  <2>4. FreshMade(disk', {})
    BY <1>4, <2>2, <2>3 DEF FreshMade
  <2> QED
    BY <2>1, <2>4 DEF Unmade
<1> QED
  BY <1>5, <1>6, <1>8, <1>9 DEF IInv
-----------------------------------------------------------------------------
LEMMA StutterStep == ASSUME IInv, UNCHANGED vars PROVE IInv'
<1>1. /\ disk' = disk /\ cmd' = cmd /\ left' = left /\ at' = at /\ todo' = todo /\ pending' = pending
      /\ ended' = ended /\ runs' = runs /\ excused' = excused
  BY DEF vars
<1>2. TypeOK' /\ LeftOK' /\ PlaceOK' /\ JournalOK'
  BY <1>1, ZenonT(60) DEF IInv, TypeOK, LeftOK, PlaceOK, JournalOK, Remains, Whole, Full, Has, Ordered, Forces, Stage
<1>3. Settled' = Settled /\ Mark' = Mark
  BY <1>1, Zenon DEF Settled, Mark, Stage
<1>4. Clean'
  <2>1. Progress' <=> Progress
    BY <1>1 DEF Progress, Spared, Stage, Past, Exported, Forces
  <2>2. Sound(Settled)' <=> Sound(Settled')
    BY DEF Sound
  <2> QED
    BY <1>1, <1>3, <2>1, <2>2 DEF IInv, Clean
<1>5. Fresh'
  BY <1>1 DEF IInv, Fresh, Reached, Missing, Stage, Forces, FreshMade, Unmade, AlignText
<1> QED
  BY <1>2, <1>4, <1>5 DEF IInv

(* PipelineRunner and the commands: every step keeps what is on the disk   *)
(* sound, or has noted what it is excused by.                              *)
THEOREM PipelineNext == IInv /\ [Next]_vars => IInv'
<1> SUFFICES ASSUME IInv, [Next]_vars PROVE IInv'
  OBVIOUS
<1>1. CASE \E c \in Commands : Begin(c)
  BY <1>1, BeginStep
<1>2. CASE Enter
  BY <1>2, EnterStep
<1>3. CASE Unlink
  BY <1>3, UnlinkStep
<1>4. CASE Transcribe
  BY <1>4, TranscribeStep
<1>5. CASE Transcribed
  BY <1>5, TranscribedStep
<1>6. CASE \E s \in Segs, made \in {runs, Failed, Silent} : TranscribeRow(s, made)
  BY <1>6, TranscribeRowStep
<1>7. CASE Align
  BY <1>7, AlignStep
<1>8. CASE Aligned
  BY <1>8, AlignedStep
<1>9. CASE \E s \in Segs, ok \in BOOLEAN : AlignRow(s, ok)
  BY <1>9, AlignRowStep
<1>10. CASE SkipCorrect
  BY <1>10, SkipStep DEF SkipCorrect
<1>11. CASE ReportCorrection
  BY <1>11, ReportCorrectionStep
<1>12. CASE CorrectionDone
  BY <1>12, CorrectionDoneStep
<1>13. CASE \E changed \in SUBSET Segs : Correct(changed)
  BY <1>13, CorrectStep
<1>14. CASE SkipSplit
  BY <1>14, SkipStep DEF SkipSplit
<1>15. CASE Split
  BY <1>15, SplitStep
<1>16. CASE SkipTranslate
  BY <1>16, SkipStep DEF SkipTranslate
<1>17. CASE \E full \in BOOLEAN : Translate(full)
  BY <1>17, TranslateStep
<1>18. CASE Gate
  BY <1>18, GateStep
<1>19. CASE \E stage \in {"normalize", "export"} : Closed(stage)
  BY <1>19, ClosedStep
<1>20. CASE SkipNormalize
  BY <1>20, SkipStep DEF SkipNormalize, Open
<1>21. CASE Normalize
  BY <1>21, NormalizeStep
<1>22. CASE ApplyMemory
  BY <1>22, ApplyMemoryStep
<1>23. CASE DropSrt
  BY <1>23, DropSrtStep
<1>24. CASE ReportMemory
  BY <1>24, ReportMemoryStep
<1>25. CASE OpenSrt
  BY <1>25, OpenSrtStep
<1>26. CASE WriteSrt
  BY <1>26, WriteSrtStep
<1>27. CASE FinalGate
  BY <1>27, FinalGateStep
<1>28. CASE Kill
  BY <1>28, KillStep
<1>29. CASE UNCHANGED vars
  BY <1>29, StutterStep
<1> QED
  BY <1>1, <1>2, <1>3, <1>4, <1>5, <1>6, <1>7, <1>8, <1>9, <1>10, <1>11, <1>12, <1>13, <1>14, <1>15,
     <1>16, <1>17, <1>18, <1>19, <1>20, <1>21, <1>22, <1>23, <1>24, <1>25, <1>26, <1>27, <1>28, <1>29 DEF Next

(* IInv holds in every state of a workspace, whatever commands it is given *)
(* and wherever they are killed.                                           *)
THEOREM PipelineInvariant == Spec => []IInv
BY PipelineInit, PipelineNext, PTL DEF Spec

(* The gate of a run of all stages (content_quality.py, final_quality.py)  *)
(* stops it only where something has happened that excuses it.             *)
THEOREM ResumePassesAlways == Spec => []ResumePasses
<1>1. IInv => ResumePasses
  BY DEF IInv, Clean, Progress, ResumePasses
<1> QED
  BY <1>1, PipelineInvariant, PTL

(* And what it has exported then is the text of the whole transcript. *)
THEOREM ExportIsWholeAlways == Spec => []ExportIsWhole
<1>1. ASSUME IInv PROVE ExportIsWhole
  <2> SUFFICES ASSUME Exported, excused = {} PROVE disk.srt.text = disk.transcript
    BY DEF ExportIsWhole
  <2>1. at = "idle" /\ todo = <<>>
    BY <1>1 DEF IInv, LeftOK, PlaceOK, Exported
  <2>2. Sound(disk) /\ disk.srt.text # None
    BY <1>1, <2>1, SoundNow DEF Progress
  <2> QED
    BY <2>2 DEF Sound, SrtSound
<1> QED
  BY <1>1, PipelineInvariant, PTL
-----------------------------------------------------------------------------
(* The batch around such runs: a row of the summary is true of its medium  *)
(* at any time, and what the summary says, once written, is what the rows  *)
(* say.                                                                    *)
BatchTypeOK ==
    /\ phase \in {"load", "prepare", "run", "stopping", "end"} /\ failFast \in BOOLEAN
    /\ dirs \in Seq(Seq(Nat)) /\ Len(dirs) <= NMedia
    /\ pool \in [Media -> {"new", "queued", "running", "ok", "error"}]
    /\ row \in [Media -> {"pending", "prepared", "completed", "failed"}]
    /\ outcome \in [Media -> {"not", "ok", "error"}]
    /\ summary \in [Media -> {"earlier", "pending", "completed", "failed"}]

RowsAreTrue ==
    \A m \in Media : /\ row[m] = "completed" <=> outcome[m] = "ok"
                     /\ row[m] = "failed" => pool[m] = "error" \/ outcome[m] = "error"

(* Where a summary has been written it is of the rows that now stand.      *)
SummaryIsOfRows == \A m \in Media : summary[m] = Normalized(row[m])

BatchIInv ==
    /\ BatchTypeOK /\ MediaApart /\ RowsAreTrue
    /\ phase = "load" => Len(dirs) < NMedia /\ \A m \in Media : row[m] = "pending"
    /\ phase = "run" => \A m \in Media : row[m] # "pending"
    /\ phase = "stopping" => failFast
    /\ phase \in {"stopping", "end"} => SummaryIsOfRows
    /\ phase = "end" => failFast \/ \A m \in Media : row[m] \notin {"pending", "prepared"}

LEMMA LeastOf ==
    ASSUME NEW S \in SUBSET Nat, S # {}
    PROVE  \E n \in S : \A k \in S : n <= k
<1>1. PICK n \in S : \A k \in S : <<k, n>> \notin OpToRel(<, Nat)
  BY NatLessThanWellFounded, WFMin
<1>2. \A k \in S : <<k, n>> \notin {ss \in Nat \X Nat : ss[1] < ss[2]}
  BY <1>1, Zenon DEF OpToRel
<1>3. \A k \in Nat : <<k, n>> \notin {ss \in Nat \X Nat : ss[1] < ss[2]} => n <= k
  OBVIOUS
<1> QED
  BY <1>2, <1>3

(* _unique_workdir: among the numbers it may add to a directory is always  *)
(* one that no medium before has, as there are fewer of them.              *)
LEMMA UniqueIsFree ==
    ASSUME NEW dr \in Seq(Seq(Nat)), Len(dr) < NMedia, NEW d \in Seq(Nat),
           NEW taken, taken = {dr[i] : i \in DOMAIN dr}
    PROVE  Unique(d, taken) \in Seq(Nat) /\ Unique(d, taken) \notin taken
<1> USE BatchAssumption
<1> DEFINE Numbers == 2..NMedia + 1
           free == {i \in Numbers : Append(d, i) \notin taken}
           place == [i \in Numbers |-> CHOOSE k \in DOMAIN dr : dr[k] = Append(d, i)]
<1>1. NMedia \in Nat /\ NMedia # 0 /\ Len(dr) \in Nat /\ DOMAIN dr = 1..Len(dr)
  OBVIOUS
<1>2. free # {}
  <2> SUFFICES ASSUME \A i \in Numbers : Append(d, i) \in taken  PROVE FALSE
    OBVIOUS
  <2>1. \A i \in Numbers : place[i] \in DOMAIN dr /\ dr[place[i]] = Append(d, i)
    OBVIOUS
  <2>2. place \in [Numbers -> 1..NMedia - 1]
    <3>1. DOMAIN dr \subseteq 1..NMedia - 1
      BY <1>1
    <3> QED
      BY <2>1, <3>1
  <2>3. IsFiniteSet(Numbers) /\ Cardinality(Numbers) = NMedia
    BY <1>1, FS_Interval
  <2>4. IsFiniteSet(1..NMedia - 1) /\ Cardinality(1..NMedia - 1) < NMedia
    <3>1. 1 \in Int /\ NMedia - 1 \in Int
      BY <1>1
    <3>2. /\ IsFiniteSet(1..NMedia - 1)
          /\ Cardinality(1..NMedia - 1) = IF 1 > NMedia - 1 THEN 0 ELSE (NMedia - 1) - 1 + 1
      BY <3>1, FS_Interval
    <3> QED
      BY <3>2, <1>1
  <2> HIDE DEF place, Numbers
  <2>5. PICK i, j \in Numbers : i # j /\ place[i] = place[j]
    BY <2>2, <2>3, <2>4, FS_PigeonHole
  <2>6. Append(d, i) = Append(d, j)
    BY <2>1, <2>5
  <2>7. i \in Nat /\ j \in Nat
    BY DEF Numbers
  <2>8. Append(d, i)[Len(d) + 1] = i /\ Append(d, j)[Len(d) + 1] = j
    BY <2>7
  <2> QED
    BY <2>5, <2>6, <2>8
<1>3. PICK n \in free : \A j \in free : n <= j
  <2>1. free \subseteq Nat
    BY <1>1
  <2> HIDE DEF free
  <2> QED
    BY <1>2, <2>1, LeastOf
<1> DEFINE c == CHOOSE i \in free : \A j \in free : i <= j
<1>4. c \in free
  BY <1>3
<1>5. Unique(d, taken) = IF d \notin taken THEN d ELSE Append(d, c)
  BY DEF Unique
<1> HIDE DEF c
<1>6. c \in Nat /\ Append(d, c) \notin taken
  BY <1>1, <1>4
<1>7. Append(d, c) \in Seq(Nat)
  BY <1>6
<1> QED
  BY <1>5, <1>6, <1>7

(* _load_tasks gives each medium a directory no other has. *)
LEMMA LoadStep == ASSUME BatchIInv, Load PROVE BatchIInv'
<1> USE BatchAssumption
<1>1. PICK d \in Requested : dirs' = Append(dirs, Unique(d, {dirs[i] : i \in DOMAIN dirs}))
  BY DEF Load
<1>2. dirs \in Seq(Seq(Nat)) /\ Len(dirs) < NMedia /\ d \in Seq(Nat) /\ NMedia \in Nat
  BY DEF BatchIInv, BatchTypeOK, Load
<1> DEFINE new == Unique(d, {dirs[i] : i \in DOMAIN dirs})
<1>3. new \in Seq(Nat) /\ \A i \in DOMAIN dirs : new # dirs[i]
  BY <1>2, UniqueIsFree
<1> HIDE DEF new
<1>4. dirs' = Append(dirs, new)
  BY <1>1 DEF new
<1>5. dirs' \in Seq(Seq(Nat)) /\ Len(dirs') = Len(dirs) + 1
  BY <1>2, <1>3, <1>4
<1>6. MediaApart'
  <2>1. \A i \in DOMAIN dirs' : dirs'[i] = IF i = Len(dirs) + 1 THEN new ELSE dirs[i]
    BY <1>2, <1>3, <1>4
  <2>2. \A i \in DOMAIN dirs' : i # Len(dirs) + 1 => i \in DOMAIN dirs
    BY <1>2, <1>3, <1>4
  <2> QED
    BY <1>3, <2>1, <2>2 DEF MediaApart, BatchIInv
<1>7. Len(dirs') <= NMedia /\ (Len(dirs') # NMedia => Len(dirs') < NMedia)
  BY <1>2, <1>5
<1>8. pool' \in [Media -> {"new", "queued", "running", "ok", "error"}]
  BY DEF BatchIInv, BatchTypeOK, Load
<1>9. phase' \in {"load", "prepare"} /\ (phase' = "load" => Len(dirs') < NMedia)
  BY <1>7 DEF Load
<1>10. BatchTypeOK'
  BY <1>5, <1>7, <1>8, <1>9 DEF BatchIInv, BatchTypeOK, Load
<1>11. RowsAreTrue'
  BY DEF BatchIInv, RowsAreTrue, Load
<1> QED
  BY <1>6, <1>9, <1>10, <1>11 DEF BatchIInv, Load

(* What the loops make of a result keeps the rows true: it is the one way  *)
(* in which a row changes.                                                 *)
LEMMA SetStep ==
    ASSUME BatchIInv, NEW m \in Media, NEW status \in {"prepared", "completed", "failed"},
           NEW next \in {"prepare", "run"}, Set(m, status, next),
           outcome' \in [Media -> {"not", "ok", "error"}], UNCHANGED <<failFast, dirs, pool>>,
           \A n \in Media : n # m => outcome'[n] = outcome[n],
           status = "completed" <=> outcome'[m] = "ok",
           status = "failed" => pool[m] = "error" \/ outcome'[m] = "error",
           next = "run" => \A n \in Media : row[n] # "pending"
    PROVE  BatchIInv'
<1>1. /\ row' = [row EXCEPT ![m] = status]
      /\ phase' = IF failFast /\ status = "failed" THEN "stopping" ELSE next
      /\ IF failFast /\ status = "failed" THEN Write(row') ELSE UNCHANGED summary
  BY DEF Set
<1>2. row' \in [Media -> {"pending", "prepared", "completed", "failed"}]
  BY <1>1 DEF BatchIInv, BatchTypeOK
<1>3. \A n \in Media : row'[n] = IF n = m THEN status ELSE row[n]
  BY <1>1 DEF BatchIInv, BatchTypeOK
<1>4. summary' \in [Media -> {"earlier", "pending", "completed", "failed"}]
  BY <1>1, <1>2 DEF Write, Normalized, BatchIInv, BatchTypeOK
<1>5. phase' = "stopping" => SummaryIsOfRows'
  BY <1>1, <1>2 DEF Write, SummaryIsOfRows
<1>6. BatchTypeOK' /\ MediaApart'
  BY <1>1, <1>2, <1>4 DEF BatchIInv, BatchTypeOK, MediaApart
<1>7. RowsAreTrue'
  BY <1>3 DEF BatchIInv, RowsAreTrue
<1> QED
  BY <1>1, <1>3, <1>5, <1>6, <1>7 DEF BatchIInv

LEMMA CollectStep == ASSUME BatchIInv, NEW m \in Media, CollectPrepare(m) PROVE BatchIInv'
<1> DEFINE status == IF pool[m] = "ok" THEN "prepared" ELSE "failed"
<1>1. /\ Set(m, status, "prepare") /\ UNCHANGED <<failFast, dirs, pool, outcome>>
      /\ pool[m] \in {"ok", "error"} /\ row[m] = "pending"
  BY DEF CollectPrepare
<1>2. /\ status \in {"prepared", "completed", "failed"} /\ (status = "failed" => pool[m] = "error")
      /\ status # "completed" /\ outcome[m] # "ok" /\ outcome \in [Media -> {"not", "ok", "error"}]
  BY <1>1 DEF BatchIInv, BatchTypeOK, RowsAreTrue
<1> HIDE DEF status
<1> QED
  BY <1>1, <1>2, SetStep

LEMMA RunStep == ASSUME BatchIInv, NEW m \in Media, Run(m) PROVE BatchIInv'
<1>1. PICK code \in {"ok", "error"} :
         outcome' = [outcome EXCEPT ![m] = code] /\ Set(m, StatusOf(m, code), "run")
  BY DEF Run
<1>2. /\ UNCHANGED <<failFast, dirs, pool>> /\ phase = "run"
      /\ outcome' \in [Media -> {"not", "ok", "error"}]
      /\ \A n \in Media : outcome'[n] = IF n = m THEN code ELSE outcome[n]
      /\ \A n \in Media : row[n] # "pending"
  BY <1>1 DEF Run, BatchIInv, BatchTypeOK
<1>3. /\ StatusOf(m, code) \in {"prepared", "completed", "failed"}
      /\ StatusOf(m, code) = "completed" <=> code = "ok"
      /\ StatusOf(m, code) = "failed" => code = "error"
  BY DEF StatusOf
<1> QED
  BY <1>1, <1>2, <1>3, SetStep

(* The summary at the end of batch-run is of the rows as they then stand.  *)
LEMMA FinishStep == ASSUME BatchIInv, Finish PROVE BatchIInv'
<1>1. /\ phase = "run" /\ phase' = "end" /\ UNCHANGED <<failFast, dirs, pool, row, outcome>>
      /\ summary' = [m \in Media |-> Normalized(row[m])]
      /\ \A m \in Media : row[m] # "prepared"
  BY DEF Finish, Write, ToRun
<1>2. summary' \in [Media -> {"earlier", "pending", "completed", "failed"}]
  BY <1>1 DEF Normalized, BatchIInv, BatchTypeOK
<1>3. SummaryIsOfRows'
  BY <1>1 DEF SummaryIsOfRows
<1>4. BatchTypeOK' /\ MediaApart' /\ RowsAreTrue'
  BY <1>1, <1>2 DEF BatchIInv, BatchTypeOK, MediaApart, RowsAreTrue
<1> QED
  BY <1>1, <1>3, <1>4 DEF BatchIInv

(* Preparing in the pool changes no row.  *)
LEMMA PoolStep ==
    ASSUME BatchIInv, NEW m \in Media, StartPrepare(m) \/ EndPrepare(m)
    PROVE  BatchIInv'
<1>1. PICK next \in {"running", "ok", "error"} :
         pool[m] # "error" /\ pool' = [pool EXCEPT ![m] = next]
  BY DEF StartPrepare, EndPrepare
<1>2. UNCHANGED <<phase, failFast, dirs, row, outcome, summary>>
  BY DEF StartPrepare, EndPrepare
<1>3. BatchTypeOK' /\ MediaApart' /\ SummaryIsOfRows' = SummaryIsOfRows
  BY <1>1, <1>2 DEF BatchIInv, BatchTypeOK, MediaApart, SummaryIsOfRows
<1>4. RowsAreTrue'
  BY <1>1, <1>2 DEF BatchIInv, BatchTypeOK, RowsAreTrue
<1> QED
  BY <1>2, <1>3, <1>4 DEF BatchIInv

(* BatchIInv is inductive for any number of media, prepares at a time and  *)
(* directories asked for (run_batch_command).                              *)
THEOREM BatchInvariant == BatchSpec => []BatchIInv
<1>1. BatchInit => BatchIInv
  <2> SUFFICES ASSUME BatchInit PROVE BatchIInv
    OBVIOUS
  <2>1. BatchTypeOK /\ Len(dirs) = 0 /\ MediaApart /\ RowsAreTrue
    BY BatchAssumption DEF BatchInit, BatchTypeOK, MediaApart, RowsAreTrue
  <2> QED
    BY <2>1, BatchAssumption DEF BatchInit, BatchIInv
<1>2. ASSUME BatchIInv, [BatchNext]_batchVars PROVE BatchIInv'
  <2>1. CASE Load
    BY <1>2, <2>1, LoadStep
  <2>2. CASE AllPrepared \/ Stop \/ UNCHANGED batchVars
    BY <1>2, <2>2 DEF AllPrepared, Stop, batchVars, BatchIInv, BatchTypeOK, MediaApart, RowsAreTrue,
                      SummaryIsOfRows
  <2>3. CASE Finish
    BY <1>2, <2>3, FinishStep
  <2>4. CASE \E m \in Media : StartPrepare(m) \/ EndPrepare(m)
    BY <1>2, <2>4, PoolStep
  <2>5. CASE \E m \in Media : CollectPrepare(m)
    BY <1>2, <2>5, CollectStep
  <2>6. CASE \E m \in Media : Run(m)
    BY <1>2, <2>6, RunStep
  <2> QED
    BY <1>2, <2>1, <2>2, <2>3, <2>4, <2>5, <2>6 DEF BatchNext
<1> QED
  BY <1>1, <1>2, PTL DEF BatchSpec

(* batch-run (batch_runner.py) gives no directory twice, and its summary   *)
(* says of every medium what has become of it.                             *)
THEOREM BatchIsTrueAlways == BatchSpec => []BatchIsTrue
<1>1. BatchIInv => BatchIsTrue
  BY DEF BatchIInv, BatchTypeOK, BatchIsTrue, RowsAreTrue, SummaryIsOfRows, SummaryIsTrue, Normalized
<1> QED
  BY <1>1, BatchInvariant, PTL
-----------------------------------------------------------------------------
(* Clips.  Every range that is planned, or cut without breaking off, is    *)
(* one of cues there are, with the times the cut rule gives it; a subtitle *)
(* that was written to its end last is what slice_cues makes of its clip.  *)
(* A subtitle is only begun after its clip came to its end.                *)
IsCandidate(c) == InRange(c) /\ c = Candidate(c, c.raw)

Cuts == [picks : SUBSET (DOMAIN clipPlan), at : {NoClip} \cup DOMAIN clipPlan,
         overwrite : BOOLEAN, srt : BOOLEAN]

OfItsClip(n) == /\ n \in DOMAIN clips \ broken
                /\ subs[n].window = clips[n] /\ subs[n].rows = Sliced(clips[n])

ClipsIInv ==
    /\ cues \in CueLists /\ duration \in Durations
    /\ \A n \in DOMAIN clipPlan : IsCandidate(clipPlan[n])
    /\ \A n \in DOMAIN clips \ broken : IsCandidate(clips[n])
    /\ \A n \in DOMAIN subs \ bare : OfItsClip(n)
    /\ cutting \in Cuts
    /\ cutting.at # NoClip => cutting.at \in (DOMAIN clips \ broken) \cap bare
    /\ step = "plan" => cutting = NoCut
    /\ \A t \in top : t.number \in DOMAIN clipPlan /\ clipPlan[t.number].raw = t.position

LEMMA LowIs == ASSUME NEW a \in Int, NEW b \in Int
               PROVE  Low(a, b) \in {a, b} /\ Low(a, b) <= a /\ Low(a, b) <= b
BY DEF Low

LEMMA HighIs == ASSUME NEW a \in Int, NEW b \in Int
                PROVE  High(a, b) \in {a, b} /\ High(a, b) >= a /\ High(a, b) >= b
BY DEF High

LEMMA CueIs ==
    ASSUME cues \in CueLists, NEW i \in DOMAIN cues
    PROVE  cues[i].start \in Nat /\ cues[i].end \in Nat
<1>1. cues \in Seq([start : Nat, end : Nat])
  BY ClipPlanAssumption
<1>2. i \in 1..Len(cues)
  BY <1>1
<1>3. cues[i] \in [start : Nat, end : Nat]
  BY <1>1, <1>2, ElementOfSeq
<1> QED
  BY <1>3

(* cut_window: the first cue is in the clip, and as little of the one      *)
(* before it as the lead leaves; so is the last, but for the end of the    *)
(* media.                                                                  *)
LEMMA WindowIsWhole ==
    ASSUME cues \in CueLists, duration \in Durations, NEW c, IsCandidate(c)
    PROVE  WholeClip(c) /\ c.start \in Nat /\ c.end \in Int
<1>1. /\ c.from \in DOMAIN cues /\ c.to \in DOMAIN cues /\ c.start = CutStart(c) /\ c.end = CutEnd(c)
  BY DEF IsCandidate, InRange, Candidate
<1>2. /\ c.from \in Nat /\ cues[c.from].start \in Nat /\ cues[c.to].end \in Nat
      /\ c.from > 1 => cues[c.from - 1].end \in Nat
  <2>1. cues \in Seq([start : Nat, end : Nat])
    BY ClipPlanAssumption
  <2>2. DOMAIN cues = 1..Len(cues) /\ Len(cues) \in Nat
    BY <2>1
  <2>3. c.from \in Nat /\ (c.from > 1 => c.from - 1 \in DOMAIN cues)
    BY <1>1, <2>2
  <2> QED
    BY <1>1, <2>3, CueIs
<1>3. {PreRoll, PostRoll, MinLead} \subseteq Nat /\ duration \in Nat
  BY ClipPlanAssumption
<1>4. /\ CutStart(c) \in Nat /\ CutStart(c) <= cues[c.from].start
      /\ c.from > 1 => CutStart(c) >= NotBefore(c)
  BY <1>2, <1>3, LowIs, HighIs DEF CutStart, NotBefore, Low, High
<1>5. CutEnd(c) \in Int /\ (duration = Unknown \/ duration >= cues[c.to].end => cues[c.to].end <= CutEnd(c))
  BY <1>2, <1>3 DEF CutEnd, Low
<1> QED
  BY <1>1, <1>4, <1>5 DEF WholeClip, NotBefore

(* slice_cues: a cue of the clip that is no sliver is shown, and each is   *)
(* shown within the clip, in the order of their starts.                    *)
LEMMA SliceIsWhole ==
    ASSUME cues \in CueLists, duration \in Durations, NEW s, IsCandidate(s.window), s.rows = Sliced(s.window)
    PROVE  WholeSubtitle(s)
<1> DEFINE c == s.window
<1>1. c.start \in Nat /\ c.end \in Int /\ c.from \in DOMAIN cues /\ c.to \in DOMAIN cues
  BY WindowIsWhole DEF IsCandidate, InRange
<1>2. /\ MinCue \in Nat /\ MinSliced \in Nat /\ 0 < MinCue /\ MinCue <= MinSliced /\ Tolerance \in Nat
  BY ClipPlanAssumption
<1>3. /\ DOMAIN s.rows = {i \in DOMAIN cues : Heard(i, c)}
      /\ \A i \in DOMAIN s.rows : /\ s.rows[i].start = High(cues[i].start, c.start) - c.start
                                   /\ s.rows[i].end = Low(cues[i].end, c.end) - c.start
  BY DEF Sliced
<1>4. ASSUME NEW i \in c.from..c.to, cues[i].end <= c.end, cues[i].end - High(c.start, cues[i].start) >= MinSliced
      PROVE  i \in DOMAIN s.rows
  <2>1. i \in DOMAIN cues
    <3>1. cues \in Seq([start : Nat, end : Nat])
      BY ClipPlanAssumption
    <3> QED
      BY <1>1, <3>1
  <2>2. cues[i].start \in Nat /\ cues[i].end \in Nat
    BY <2>1, CueIs
  <2>3. Heard(i, c)
    BY <1>1, <1>2, <1>4, <2>2 DEF Heard, Low, High
  <2> QED
    BY <1>3, <2>1, <2>3
<1>5. ASSUME NEW i \in DOMAIN s.rows
      PROVE  /\ 0 <= s.rows[i].start /\ s.rows[i].start < s.rows[i].end
             /\ s.rows[i].end <= c.end - c.start
  <2>1. /\ cues[i].start \in Nat /\ cues[i].end \in Nat /\ Heard(i, c)
    BY <1>3, CueIs
  <2>2. Low(cues[i].end, c.end) - High(cues[i].start, c.start) >= MinCue
    BY <1>1, <1>2, <2>1, LowIs, HighIs DEF Heard
  <2> QED
    BY <1>1, <1>2, <1>3, <2>1, <2>2, LowIs, HighIs
<1>6. ASSUME NEW i \in DOMAIN s.rows, NEW j \in DOMAIN s.rows, cues[i].start <= cues[j].start
      PROVE  s.rows[i].start <= s.rows[j].start
  <2>1. cues[i].start \in Nat /\ cues[j].start \in Nat
    BY <1>3, CueIs
  <2> QED
    BY <1>1, <1>3, <1>6, <2>1 DEF High
<1> QED
  BY <1>4, <1>5, <1>6 DEF WholeSubtitle

(* A range of cues there are gives a candidate, whatever it was before.    *)
LEMMA RangeGives ==
    ASSUME NEW r, InRange(r), NEW raw
    PROVE  IsCandidate(Candidate(r, raw)) /\ Candidate(r, raw).raw = raw
BY DEF IsCandidate, InRange, Candidate, CutStart, CutEnd, NotBefore

(* apply_refinement: what it moves stays within the episode.               *)
LEMMA RefinedIs ==
    ASSUME cues \in CueLists, NEW c, IsCandidate(c), NEW r
    PROVE  IsCandidate(Refined(c, r)) /\ Refined(c, r).raw = c.raw
<1>1. cues \in Seq([start : Nat, end : Nat]) /\ {RefineBefore, RefineAfter, EndBefore, EndAfter} \subseteq Nat
  BY ClipPlanAssumption
<1>2. c.from \in DOMAIN cues /\ c.to \in DOMAIN cues
  BY DEF IsCandidate, InRange
<1>3. ASSUME NEW i \in DOMAIN cues, NEW b \in Nat, NEW a \in Nat PROVE Shown(i, b, a) \subseteq DOMAIN cues
  BY <1>1, SMTT(30) DEF Shown, High, Low
<1>4. Moved(c, r).from \in DOMAIN cues /\ Moved(c, r).to \in DOMAIN cues
  BY <1>1, <1>2, <1>3 DEF Moved
<1>5. CASE Moved(c, r).from <= Moved(c, r).to /\ Fits(Moved(c, r))
  BY <1>4, <1>5, RangeGives DEF Refined, InRange
<1>6. CASE ~(Moved(c, r).from <= Moved(c, r).to /\ Fits(Moved(c, r)))
  BY <1>6 DEF Refined
<1> QED
  BY <1>5, <1>6

(* What a step leaves alone keeps its meaning.                             *)
LEMMA SameCues ==
    ASSUME UNCHANGED <<cues, duration>>
    PROVE  \A c : /\ IsCandidate(c)' = IsCandidate(c)
                  /\ Sliced(c)' = Sliced(c)
BY DEF IsCandidate, InRange, Candidate, CutStart, CutEnd, NotBefore, Sliced, Heard

(* What is left of a cut: it ends, a pick is done, or its subtitle is.     *)
LEMMA CutsGoOn ==
    ASSUME cutting \in Cuts, NEW n, NEW due \in {NoClip} \cup DOMAIN clipPlan
    PROVE  /\ NoCut \in Cuts /\ NoCut.at = NoClip
           /\ [cutting EXCEPT !.at = NoClip] \in Cuts /\ [cutting EXCEPT !.at = NoClip].at = NoClip
           /\ [cutting EXCEPT !.picks = @ \ {n}] \in Cuts
           /\ [cutting EXCEPT !.picks = @ \ {n}].at = cutting.at
           /\ [cutting EXCEPT !.picks = @ \ {n}, !.at = due] \in Cuts
           /\ [cutting EXCEPT !.picks = @ \ {n}, !.at = due].at = due
<1>1. NoCut \in Cuts /\ NoCut.at = NoClip
  BY DEF NoCut, Cuts
<1>2. [cutting EXCEPT !.at = NoClip] \in Cuts /\ [cutting EXCEPT !.at = NoClip].at = NoClip
  BY DEF Cuts
<1>3. /\ [cutting EXCEPT !.picks = @ \ {n}] \in Cuts
      /\ [cutting EXCEPT !.picks = @ \ {n}].at = cutting.at
  BY DEF Cuts
<1>4. /\ [cutting EXCEPT !.picks = @ \ {n}, !.at = due] \in Cuts
      /\ [cutting EXCEPT !.picks = @ \ {n}, !.at = due].at = due
  BY DEF Cuts
<1> QED
  BY <1>1, <1>2, <1>3, <1>4

(* A new plan: a pick is the position whose candidate got the number.      *)
LEMMA PlanClipsStep == ASSUME ClipsIInv, Plan PROVE ClipsIInv'
<1> DEFINE Gives(response, last, order) ==
               /\ clipPlan' = [n \in 1..last |-> Candidate(response[order[n]], order[n])]
               /\ top' = {[position |-> order[n], number |-> n] : n \in 1..last}
<1>0. PICK response \in Responses(cues) : \E last \in DOMAIN response :
         \E order \in [1..last -> Kept(response)] : Gives(response, last, order)
  BY DEF Plan
<1>a. PICK last \in DOMAIN response : \E order \in [1..last -> Kept(response)] : Gives(response, last, order)
  BY <1>0
<1>1. PICK order \in [1..last -> Kept(response)] : Gives(response, last, order)
  BY <1>a
<1>2. /\ UNCHANGED <<cues, duration, clips, subs, cutting, broken, bare>>
      /\ cutting = NoCut
  BY DEF Plan, ClipsIInv
<1>3. ASSUME NEW n \in 1..last
      PROVE  IsCandidate(clipPlan'[n]) /\ clipPlan'[n].raw = order[n]
  <2>1. InRange(response[order[n]])
    BY DEF Kept
  <2> QED
    BY <1>1, <2>1, RangeGives
<1>4. \A t \in top' : t.number \in DOMAIN clipPlan' /\ clipPlan'[t.number].raw = t.position
  BY <1>1, <1>3
<1>5. \A n \in DOMAIN clipPlan' : IsCandidate(clipPlan'[n])
  BY <1>1, <1>3
<1>6. \A c : IsCandidate(c)' = IsCandidate(c) /\ Sliced(c)' = Sliced(c)
  BY <1>2, SameCues
<1> QED
  <2>1. cutting' \in Cuts' /\ cutting'.at = NoClip /\ cutting' = NoCut
    BY <1>2 DEF NoCut, Cuts
  <2> QED
    BY <1>2, <1>4, <1>5, <1>6, <2>1 DEF ClipsIInv, OfItsClip

LEMMA RefineClipsStep == ASSUME ClipsIInv, Refine PROVE ClipsIInv'
<1>1. PICK n \in DOMAIN clipPlan, r \in Ranges(cues) :
         clipPlan' = [clipPlan EXCEPT ![n] = Refined(clipPlan[n], r)]
  BY DEF Refine
<1>2. UNCHANGED <<cues, duration, step, top, clips, subs, cutting, broken, bare>>
  BY DEF Refine
<1>3. IsCandidate(Refined(clipPlan[n], r)) /\ Refined(clipPlan[n], r).raw = clipPlan[n].raw
  BY RefinedIs DEF ClipsIInv
<1>4. /\ DOMAIN clipPlan' = DOMAIN clipPlan
      /\ \A m \in DOMAIN clipPlan : /\ clipPlan'[m] = IF m = n THEN Refined(clipPlan[n], r) ELSE clipPlan[m]
                                    /\ clipPlan'[m].raw = clipPlan[m].raw
  BY <1>1, <1>3
<1>5. \A m \in DOMAIN clipPlan' : IsCandidate(clipPlan'[m])
  BY <1>3, <1>4 DEF ClipsIInv
<1>6. \A t \in top' : t.number \in DOMAIN clipPlan' /\ clipPlan'[t.number].raw = t.position
  BY <1>2, <1>4 DEF ClipsIInv
<1>7. \A c : IsCandidate(c)' = IsCandidate(c) /\ Sliced(c)' = Sliced(c)
  BY <1>2, SameCues
<1> QED
  <2>1. Cuts' = Cuts
    BY <1>4 DEF Cuts
  <2> QED
    BY <1>2, <1>4, <1>5, <1>6, <1>7, <2>1 DEF ClipsIInv, OfItsClip

(* A range as planned or adjusted is one of cues there are.                *)
LEMMA PlannedIs ==
    ASSUME ClipsIInv, NEW n \in DOMAIN clipPlan, NEW c \in Planned(n)
    PROVE  IsCandidate(c)
<1>1. PICK asked \in {AsPlanned} \cup {r \in Ranges(cues) : InRange(r)} : c = Adjusted(clipPlan[n], asked)
  BY DEF Planned
<1>2. IsCandidate(clipPlan[n])
  BY DEF ClipsIInv
<1>3. InRange(IF asked = AsPlanned THEN clipPlan[n] ELSE asked)
  BY <1>2 DEF IsCandidate
<1> QED
  BY <1>1, <1>3, RangeGives DEF Adjusted

(* A clip that is cut is of such a range.  One at which the cut breaks off *)
(* may not be, but then it is noted.                                       *)
LEMMA ClipStep ==
    ASSUME ClipsIInv, NEW n \in cutting.picks, CutClip(n) \/ CutBreaks(n)
    PROVE  ClipsIInv'
<1>1. UNCHANGED <<cues, duration, step, clipPlan, top, subs>> /\ bare' = bare \cup {n}
  BY DEF CutClip, CutBreaks
<1>2. n \in DOMAIN clipPlan /\ step # "plan" /\ cutting \in Cuts
  BY DEF ClipsIInv, NoCut, Cuts
<1>3. \A c : IsCandidate(c)' = IsCandidate(c) /\ Sliced(c)' = Sliced(c)
  BY <1>1, SameCues
<1>4. /\ \A m \in DOMAIN clips \ {n} : m \in DOMAIN clips' /\ clips'[m] = clips[m]
      /\ DOMAIN clips' \subseteq DOMAIN clips \cup {n}
  BY DEF CutClip, CutBreaks, With
<1>5. /\ broken' \ {n} = broken \ {n}
      /\ CutClip(n) => cutting' \in Cuts /\ cutting'.at \in {n, NoClip}
      /\ CutBreaks(n) => cutting' \in Cuts /\ cutting'.at = NoClip
      /\ Cuts' = Cuts
  <2>1. CutClip(n) => cutting' \in Cuts /\ cutting'.at \in {n, NoClip}
    <3> DEFINE due == IF cutting.srt THEN n ELSE NoClip
    <3>1. due \in {NoClip} \cup DOMAIN clipPlan /\ due \in {n, NoClip}
      BY <1>2
    <3>2. CutClip(n) => cutting' = [cutting EXCEPT !.picks = @ \ {n}, !.at = due]
      BY DEF CutClip
    <3> HIDE DEF due
    <3>3. /\ [cutting EXCEPT !.picks = @ \ {n}, !.at = due] \in Cuts
          /\ [cutting EXCEPT !.picks = @ \ {n}, !.at = due].at = due
      BY <1>2, <3>1, CutsGoOn
    <3> QED
      BY <3>1, <3>2, <3>3
  <2>2. CutBreaks(n) => cutting' \in Cuts /\ cutting'.at = NoClip
    BY <1>2, CutsGoOn DEF CutBreaks
  <2> QED
    BY <1>1, <2>1, <2>2 DEF CutClip, CutBreaks, Cuts
<1>6. CASE CutClip(n)
  <2>1. PICK c \in Planned(n) : clips' = With(clips, n, c)
    BY <1>6 DEF CutClip
  <2>2. clips'[n] = c /\ n \in DOMAIN clips' /\ IsCandidate(c)
    BY <1>2, <2>1, PlannedIs DEF With
  <2>3. n \notin broken' /\ n \in bare' /\ cutting'.at \in {n, NoClip}
    BY <1>1, <1>5, <1>6 DEF CutClip
  <2>4. \A m \in DOMAIN clips' \ broken' : IsCandidate(clips'[m])
    BY <1>4, <1>5, <2>2 DEF ClipsIInv
  <2>5. \A m \in DOMAIN subs \ bare' : OfItsClip(m)'
    BY <1>1, <1>3, <1>4, <1>5 DEF ClipsIInv, OfItsClip
  <2> QED
    BY <1>1, <1>2, <1>3, <1>5, <1>6, <2>2, <2>3, <2>4, <2>5 DEF ClipsIInv
<1>7. CASE CutBreaks(n)
  <2>1. n \in broken' /\ cutting'.at = NoClip
    BY <1>5, <1>7 DEF CutBreaks
  <2>2. \A m \in DOMAIN clips' \ broken' : IsCandidate(clips'[m])
    BY <1>4, <1>5, <2>1 DEF ClipsIInv
  <2>3. \A m \in DOMAIN subs \ bare' : OfItsClip(m)'
    BY <1>1, <1>3, <1>4, <1>5 DEF ClipsIInv, OfItsClip
  <2> QED
    BY <1>1, <1>2, <1>3, <1>5, <1>7, <2>1, <2>2, <2>3 DEF ClipsIInv
<1> QED
  BY <1>6, <1>7

(* The subtitle that is written is of the clip that was just cut.          *)
LEMMA SubtitleStep ==
    ASSUME ClipsIInv, WriteSubtitle \/ SubtitleBreaks
    PROVE  ClipsIInv'
<1> DEFINE n == cutting.at
<1>1. /\ UNCHANGED <<cues, duration, step, clipPlan, top, clips, broken>>
      /\ n # NoClip /\ n \in (DOMAIN clips \ broken) \cap bare /\ step # "plan"
      /\ cutting'.at = NoClip /\ cutting' \in Cuts /\ Cuts' = Cuts
  <2>1. /\ UNCHANGED <<cues, duration, step, clipPlan, top, clips, broken>> /\ n # NoClip
        /\ cutting' \in {NoCut, [cutting EXCEPT !.at = NoClip]}
    BY DEF WriteSubtitle, SubtitleBreaks
  <2>2. cutting \in Cuts /\ NoClip \in {NoClip} \cup DOMAIN clipPlan /\ NoCut.at = NoClip
    BY DEF ClipsIInv, NoCut
  <2>3. n \in (DOMAIN clips \ broken) \cap bare /\ step # "plan"
    BY <2>1, <2>2 DEF ClipsIInv
  <2>4. cutting' \in Cuts /\ cutting'.at = NoClip
    BY <2>1, <2>2, CutsGoOn
  <2> QED
    BY <2>1, <2>3, <2>4 DEF Cuts
<1>2. \A c : IsCandidate(c)' = IsCandidate(c) /\ Sliced(c)' = Sliced(c)
  BY <1>1, SameCues
<1>3. /\ DOMAIN subs' = DOMAIN subs \cup {n}
      /\ \A m \in DOMAIN subs \ {n} : subs'[m] = subs[m]
  BY DEF WriteSubtitle, SubtitleBreaks, With
<1>4. ASSUME NEW m \in DOMAIN subs' \ bare' PROVE OfItsClip(m)'
  <2>1. CASE WriteSubtitle /\ m = n
    <3>1. subs'[n] = [window |-> clips[n], rows |-> Sliced(clips[n])]
      BY <2>1 DEF WriteSubtitle, With
    <3> QED
      BY <1>1, <1>2, <2>1, <3>1 DEF OfItsClip
  <2>2. CASE m # n
    <3>1. m \in DOMAIN subs \ bare /\ subs'[m] = subs[m]
      BY <1>3, <1>4, <2>2 DEF WriteSubtitle, SubtitleBreaks
    <3> QED
      BY <1>1, <1>2, <3>1 DEF ClipsIInv, OfItsClip
  <2>3. ~(SubtitleBreaks /\ m = n)
    BY <1>1, <1>4 DEF SubtitleBreaks
  <2> QED
    BY <2>1, <2>2, <2>3
<1>5. \A m \in DOMAIN clips' \ broken' : IsCandidate(clips'[m])
  BY <1>1 DEF ClipsIInv
<1> QED
  BY <1>1, <1>2, <1>4, <1>5 DEF ClipsIInv

(* ClipsIInv is inductive for any cues, whatever the model names and the   *)
(* user adjusts and cuts again (clip_planner.py, radio_clips.py).          *)
THEOREM ClipsInvariant == ClipsSpec => []ClipsIInv
<1>1. ClipsInit => ClipsIInv
  <2>1. ClipsInit => cutting \in Cuts
    BY DEF ClipsInit, Cuts, NoCut
  <2>2. ClipsInit => cutting.at = NoClip
    BY DEF ClipsInit, NoCut
  <2> QED
    BY <2>1, <2>2 DEF ClipsInit, ClipsIInv
<1>2. ASSUME ClipsIInv, [ClipsNext]_clipVars PROVE ClipsIInv'
  <2>1. CASE UNCHANGED clipVars
    <3>1. \A c : IsCandidate(c)' = IsCandidate(c) /\ Sliced(c)' = Sliced(c)
      BY <2>1, SameCues DEF clipVars
    <3> QED
      BY <1>2, <2>1, <3>1 DEF clipVars, ClipsIInv, OfItsClip, Cuts
  <2>2. CASE StartCut \/ CutIsKilled \/ \E n \in cutting.picks : SkipClip(n)
    <3>1. /\ UNCHANGED <<cues, duration, clipPlan, top, clips, subs, broken, bare>>
          /\ cutting' \in Cuts /\ Cuts' = Cuts
          /\ cutting'.at = NoClip /\ step' # "plan"
      <4>1. cutting \in Cuts /\ NoClip \in {NoClip} \cup DOMAIN clipPlan
        BY <1>2 DEF ClipsIInv
      <4>2. step = "plan" => AtRest /\ \A n : n \notin cutting.picks
        BY <1>2 DEF ClipsIInv, NoCut, AtRest
      <4>3. CASE StartCut
        BY <4>3 DEF StartCut, Cuts
      <4>4. CASE CutIsKilled
        BY <4>1, <4>2, <4>4, CutsGoOn DEF CutIsKilled, Cuts
      <4>5. ASSUME NEW n \in cutting.picks, SkipClip(n)
            PROVE  /\ UNCHANGED <<cues, duration, clipPlan, top, clips, subs, broken, bare>>
                   /\ cutting' \in Cuts /\ Cuts' = Cuts
                   /\ cutting'.at = NoClip /\ step' # "plan"
        BY <4>1, <4>2, <4>5, CutsGoOn DEF SkipClip, IsPick, Cuts
      <4> QED
        BY <2>2, <4>3, <4>4, <4>5
    <3>2. \A c : IsCandidate(c)' = IsCandidate(c) /\ Sliced(c)' = Sliced(c)
      BY <3>1, SameCues
    <3> QED
      BY <1>2, <3>1, <3>2 DEF ClipsIInv, OfItsClip
  <2> QED
    BY <1>2, <2>1, <2>2, PlanClipsStep, RefineClipsStep, ClipStep, SubtitleStep DEF ClipsNext
<1> QED
  BY <1>1, <1>2, PTL DEF ClipsSpec

(* A clip cut by cmd_cut holds the cues it was cut for and starts no       *)
(* earlier than the lead asks for, unless its last cut broke off; its      *)
(* subtitle shows them, in order and within it, and is of the clip that is *)
(* there unless that was cut last without writing all of one; a pick has   *)
(* the number of the candidate the model meant.                            *)
THEOREM ClipsAreWholeAlways == ClipsSpec => []ClipsAreWhole
<1>1. ASSUME ClipsIInv PROVE ClipsAreWhole
  <2>1. \A n \in DOMAIN clips \ broken : WholeClip(clips[n])
    BY <1>1, WindowIsWhole DEF ClipsIInv
  <2>2. ASSUME NEW n \in DOMAIN subs \ bare
        PROVE  /\ WholeSubtitle(subs[n])
               /\ n \in DOMAIN clips \ broken /\ subs[n].window = clips[n]
    <3>1. OfItsClip(n) /\ IsCandidate(clips[n])
      BY <1>1, <2>2 DEF ClipsIInv, OfItsClip
    <3>2. IsCandidate(subs[n].window) /\ subs[n].rows = Sliced(subs[n].window)
      BY <3>1 DEF OfItsClip
    <3> QED
      BY <1>1, <3>1, <3>2, SliceIsWhole DEF ClipsIInv, OfItsClip
  <2> QED
    BY <1>1, <2>1, <2>2 DEF ClipsIInv, ClipsAreWhole
<1> QED
  BY <1>1, ClipsInvariant, PTL
-----------------------------------------------------------------------------
(***************************************************************************)
(* HistoryGlossary, as MCPipeline instantiates it.  Sums and joined        *)
(* sequences are recursive functions, and what these compute is proved by  *)
(* induction over sets: a property of numbers is the set of numbers that   *)
(* have it.                                                                *)
(***************************************************************************)
(* What holds of a number whenever it holds of the one before it, and of   *)
(* the first, holds of all.                                                *)
LEMMA Induction ==
    ASSUME NEW n \in Nat, NEW S, 0 \in S, \A i \in 1..n : i - 1 \in S => i \in S
    PROVE  0..n \subseteq S
<1> DEFINE Bad == {i \in 0..n : i \notin S}
<1>1. CASE Bad = {}
  BY <1>1
<1>2. CASE Bad # {}
  <2>1. Bad \in SUBSET Nat
    OBVIOUS
  <2>2. PICK i \in Bad : \A k \in Bad : i <= k
    <3> HIDE DEF Bad
    <3> QED BY <1>2, <2>1, LeastOf
  <2>3. i \in 1..n /\ i - 1 \in 0..n
    BY <2>2
  <2>4. i - 1 \in S
    BY <2>2, <2>3
  <2> QED BY <2>2, <2>3, <2>4
<1> QED BY <1>1, <1>2

(* A fold: each value is made of the one before.                           *)
Steps(n, V, v, F) == v \in V /\ F \in [1..n -> [V -> V]]
Folds(n, V, v, F) == \E f \in [0..n -> V] : f[0] = v /\ \A i \in 1..n : f[i] = F[i][f[i - 1]]

LEMMA Folding ==
    ASSUME NEW n \in Nat, NEW V, NEW v, NEW F, Steps(n, V, v, F)
    PROVE  Folds(n, V, v, F)
<1> DEFINE Upto(k, f) == f[0] = v /\ \A i \in 1..k : f[i] = F[i][f[i - 1]]
           S == {k \in 0..n : \E f \in [0..n -> V] : Upto(k, f)}
<1>1. 0 \in S
  <2>1. [i \in 0..n |-> v] \in [0..n -> V] /\ 0 \in 0..n
    BY DEF Steps
  <2>2. Upto(0, [i \in 0..n |-> v])
    OBVIOUS
  <2> HIDE DEF Upto
  <2> QED BY <2>1, <2>2
<1>2. ASSUME NEW k \in 1..n, k - 1 \in S PROVE k \in S
  <2>1. PICK f \in [0..n -> V] : Upto(k - 1, f)
    BY <1>2
  <2> DEFINE h == [f EXCEPT ![k] = F[k][f[k - 1]]]
  <2>2. k \in 0..n /\ k - 1 \in 0..n /\ f[k - 1] \in V
    BY <1>2
  <2>3. F[k][f[k - 1]] \in V
    BY <1>2, <2>2 DEF Steps
  <2>4. h \in [0..n -> V] /\ h[k] = F[k][f[k - 1]] /\ \A j \in 0..n : j # k => h[j] = f[j]
    BY <2>2, <2>3
  <2> HIDE DEF h
  <2>5. h[0] = v
    BY <1>2, <2>1, <2>4, SMTT(30)
  <2>6. ASSUME NEW i \in 1..k PROVE h[i] = F[i][h[i - 1]]
    <3>1. h[i - 1] = f[i - 1]
      BY <1>2, <2>4
    <3>2. CASE i = k
      BY <2>4, <3>1, <3>2
    <3>3. CASE i # k
      <4>1. i \in 1..(k - 1) /\ i \in 0..n
        BY <3>3
      <4> QED BY <2>1, <2>4, <3>1, <3>3, <4>1
    <3> QED BY <3>2, <3>3
  <2> QED BY <2>2, <2>4, <2>5, <2>6
<1>3. n \in S
  <2> HIDE DEF S
  <2>1. 0..n \subseteq S
    BY <1>1, <1>2, Induction
  <2> QED BY <2>1
<1> QED BY <1>3 DEF Folds

(* The sum of numbers of a kind that is closed under addition.             *)
LEMMA SumIs ==
    ASSUME NEW V, 0 \in V, \A a, b \in V : a + b \in V, NEW f \in Seq(V)
    PROVE  H!Sum(f) \in V
<1> DEFINE n == Len(f)
           F == [i \in 1..n |-> [m \in V |-> m + f[i]]]
           IsIt(d) == d = [i \in 0..n |-> IF i = 0 THEN 0 ELSE d[i - 1] + f[i]]
           sums == CHOOSE d : IsIt(d)
<1>1. n \in Nat /\ \A i \in 1..n : f[i] \in V
  OBVIOUS
<1>2. Steps(n, V, 0, F)
  <2> HIDE DEF n
  <2> QED BY <1>1 DEF Steps
<1>3. Folds(n, V, 0, F)
  <2> HIDE DEF n, F
  <2> QED BY <1>1, <1>2, Folding
<1>4. PICK d \in [0..n -> V] : d[0] = 0 /\ \A i \in 1..n : d[i] = F[i][d[i - 1]]
  <2> HIDE DEF n, F
  <2> QED BY <1>3 DEF Folds
<1>5. \A i \in 1..n : d[i] = d[i - 1] + f[i]
  <2> SUFFICES ASSUME NEW i \in 1..n PROVE d[i] = d[i - 1] + f[i]
    OBVIOUS
  <2>1. i - 1 \in 0..n
    BY <1>1
  <2>2. d[i - 1] \in V
    BY <1>4, <2>1
  <2> QED BY <1>4, <2>2
<1>6. IsIt(d)
  <2> HIDE DEF n, F
  <2> QED BY <1>1, <1>4, <1>5
<1>7. IsIt(sums)
  <2> HIDE DEF IsIt
  <2> QED BY <1>6
<1>8. H!Sum(f) = sums[n]
  BY DEF H!Sum
<1> HIDE DEF sums
<1> DEFINE S == {i \in 0..n : sums[i] \in V}
<1>9. 0 \in S /\ \A i \in 1..n : i - 1 \in S => i \in S
  <2> HIDE DEF n
  <2> QED BY <1>1, <1>7
<1>10. n \in S
  <2> HIDE DEF S, n
  <2>1. 0..n \subseteq S
    BY <1>1, <1>9, Induction
  <2> QED BY <1>1, <2>1
<1> QED BY <1>8, <1>10

(* Sequences one after the other.                                          *)
LEMMA FlatIs ==
    ASSUME NEW T, NEW ss \in Seq(Seq(T))
    PROVE  H!Flat(ss) \in Seq(T)
<1> DEFINE n == Len(ss)
           F == [i \in 1..n |-> [m \in Seq(T) |-> m \o ss[i]]]
           IsIt(d) == d = [i \in 0..n |-> IF i = 0 THEN <<>> ELSE d[i - 1] \o ss[i]]
           all == CHOOSE d : IsIt(d)
<1>1. n \in Nat /\ \A i \in 1..n : ss[i] \in Seq(T)
  OBVIOUS
<1>2. Steps(n, Seq(T), <<>>, F)
  <2>1. \A i \in 1..n : \A m \in Seq(T) : m \o ss[i] \in Seq(T)
    BY <1>1, ConcatProperties
  <2>2. <<>> \in Seq(T)
    OBVIOUS
  <2> HIDE DEF n
  <2> QED BY <2>1, <2>2 DEF Steps
<1>3. Folds(n, Seq(T), <<>>, F)
  <2> HIDE DEF n, F
  <2> QED BY <1>1, <1>2, Folding
<1>4. PICK d \in [0..n -> Seq(T)] : d[0] = <<>> /\ \A i \in 1..n : d[i] = F[i][d[i - 1]]
  <2> HIDE DEF n, F
  <2> QED BY <1>3 DEF Folds
<1>5. \A i \in 1..n : d[i] = d[i - 1] \o ss[i]
  <2> SUFFICES ASSUME NEW i \in 1..n PROVE d[i] = d[i - 1] \o ss[i]
    OBVIOUS
  <2>1. i - 1 \in 0..n
    BY <1>1
  <2>2. d[i - 1] \in Seq(T)
    BY <1>4, <2>1
  <2> QED BY <1>4, <2>2
<1>6. IsIt(d)
  <2>1. \A i \in 0..n : d[i] = IF i = 0 THEN <<>> ELSE d[i - 1] \o ss[i]
    <3>1. \A i \in 0..n : i = 0 \/ i \in 1..n
      BY <1>1
    <3> HIDE DEF n, F
    <3> QED BY <1>4, <1>5, <3>1
  <2> HIDE DEF n, F
  <2> QED BY <1>4, <2>1, Zenon
<1>7. IsIt(all)
  <2> HIDE DEF IsIt
  <2> QED BY <1>6
<1>8. H!Flat(ss) = all[n]
  BY DEF H!Flat
<1> HIDE DEF all
<1> DEFINE S == {i \in 0..n : all[i] \in Seq(T)}
<1>9. 0 \in S
  <2> HIDE DEF n
  <2> QED BY <1>1, <1>7
<1>10. ASSUME NEW i \in 1..n, i - 1 \in S PROVE i \in S
  <2>1. all[i] = all[i - 1] \o ss[i] /\ i \in 0..n
    <3>1. i \in 0..n /\ i # 0
      BY <1>1
    <3>2. all[i] = IF i = 0 THEN <<>> ELSE all[i - 1] \o ss[i]
      BY <1>7, <3>1, Zenon
    <3> QED BY <3>1, <3>2
  <2>2. all[i - 1] \in Seq(T) /\ ss[i] \in Seq(T)
    BY <1>1, <1>10
  <2>3. all[i] \in Seq(T)
    BY <2>1, <2>2, ConcatProperties
  <2> QED BY <2>1, <2>3
<1>11. n \in S
  <2> HIDE DEF S, n
  <2>1. 0..n \subseteq S
    BY <1>1, <1>9, <1>10, Induction
  <2> QED BY <1>1, <2>1
<1> QED BY <1>8, <1>11

(* Of a set of integers between bounds.                                    *)
LEMMA EndsOf ==
    ASSUME NEW a \in Int, NEW b \in Int, NEW S, S \subseteq a..b, S # {}
    PROVE  /\ H!Least(S) \in S /\ H!Greatest(S) \in S
           /\ \A y \in S : H!Least(S) <= y /\ y <= H!Greatest(S)
<1>1. \E x \in S : \A y \in S : x <= y
  <2> DEFINE N == {x - a : x \in S}
  <2>1. N \in SUBSET Nat /\ N # {}
    <3>1. \A x \in S : x \in a..b /\ x - a \in Nat
      OBVIOUS
    <3> QED BY <3>1
  <2>2. PICK m \in N : \A k \in N : m <= k
    <3> HIDE DEF N
    <3> QED BY <2>1, LeastOf
  <2>3. PICK x \in S : m = x - a
    BY <2>2
  <2>4. ASSUME NEW y \in S PROVE x <= y
    <3>1. m <= y - a /\ x \in Int /\ y \in Int
      BY <2>2
    <3> QED BY <2>3, <3>1
  <2> QED BY <2>4
<1>2. \E x \in S : \A y \in S : x >= y
  <2> DEFINE N == {b - x : x \in S}
  <2>1. N \in SUBSET Nat /\ N # {}
    <3>1. \A x \in S : x \in a..b /\ b - x \in Nat
      OBVIOUS
    <3> QED BY <3>1
  <2>2. PICK m \in N : \A k \in N : m <= k
    <3> HIDE DEF N
    <3> QED BY <2>1, LeastOf
  <2>3. PICK x \in S : m = b - x
    BY <2>2
  <2>4. ASSUME NEW y \in S PROVE x >= y
    <3>1. m <= b - y /\ x \in Int /\ y \in Int
      BY <2>2
    <3> QED BY <2>3, <3>1
  <2> QED BY <2>4
<1>3. H!Least(S) \in S /\ \A y \in S : H!Least(S) <= y
  BY <1>1 DEF H!Least
<1>4. H!Greatest(S) \in S /\ \A y \in S : H!Greatest(S) >= y
  BY <1>2 DEF H!Greatest
<1>5. ASSUME NEW y \in S PROVE y <= H!Greatest(S)
  <2> DEFINE g == H!Greatest(S)
  <2>1. g \in S /\ g >= y
    BY <1>4
  <2> HIDE DEF g
  <2>2. y \in Int /\ g \in Int
    BY <2>1
  <2>3. y <= g
    BY <2>1, <2>2
  <2> QED BY <2>3 DEF g
<1> QED BY <1>3, <1>4, <1>5

LEMMA Divided == ASSUME NEW x \in Int, NEW d \in Nat, d > 0 PROVE x \div d \in Int
OBVIOUS

(* Of the values of a function on a finite set one is the greatest.        *)
LEMMA FiniteGreatest ==
    ASSUME NEW S, IsFiniteSet(S), S # {}, NEW f \in [S -> Int]
    PROVE  \E m \in S : \A x \in S : f[x] <= f[m]
<1>1. PICK n \in Nat : ExistsBijection(1..n, S)
  BY FS_NatBijection
<1>2. PICK g \in Bijection(1..n, S) : TRUE
  BY <1>1 DEF ExistsBijection
<1>3. g \in [1..n -> S] /\ \A x \in S : \E i \in 1..n : g[i] = x
  BY <1>2 DEF Bijection, Injection, Surjection
<1> DEFINE Best(k) == \E m \in 1..k : \A i \in 1..k : f[g[i]] <= f[g[m]]
           T == {k \in 0..n : k = 0 \/ Best(k)}
<1>4. 0 \in T
  OBVIOUS
<1>5. ASSUME NEW k \in 1..n, k - 1 \in T PROVE k \in T
  <2>1. \A i \in 1..k : f[g[i]] \in Int
    BY <1>3
  <2>2. CASE k = 1
    <3>1. \A i \in 1..k : f[g[i]] <= f[g[k]]
      BY <2>1, <2>2
    <3>2. Best(k)
      BY <3>1, <2>2
    <3> HIDE DEF Best
    <3> QED BY <3>2
  <2>3. CASE k # 1
    <3>1. Best(k - 1)
      BY <1>5, <2>3
    <3>2. PICK m \in 1..(k - 1) : \A i \in 1..(k - 1) : f[g[i]] <= f[g[m]]
      BY <3>1
    <3>3. m \in 1..k /\ k \in 1..k /\ \A i \in 1..k : i = k \/ i \in 1..(k - 1)
      OBVIOUS
    <3>4. CASE f[g[k]] <= f[g[m]]
      <4>1. Best(k)
        BY <3>2, <3>3, <3>4
      <4> HIDE DEF Best
      <4> QED BY <4>1
    <3>5. CASE ~(f[g[k]] <= f[g[m]])
      <4>1. \A i \in 1..k : f[g[i]] <= f[g[k]]
        BY <2>1, <3>2, <3>3, <3>5
      <4>2. Best(k)
        BY <3>3, <4>1
      <4> HIDE DEF Best
      <4> QED BY <4>2
    <3> QED BY <3>4, <3>5
  <2> QED BY <2>2, <2>3
<1>6. n \in T
  <2> HIDE DEF T
  <2>1. 0..n \subseteq T
    BY <1>4, <1>5, Induction
  <2> QED BY <2>1
<1>7. n # 0
  <2> SUFFICES ASSUME n = 0 PROVE FALSE
    OBVIOUS
  <2> QED BY <1>3
<1>8. PICK m \in 1..n : \A i \in 1..n : f[g[i]] <= f[g[m]]
  BY <1>6, <1>7
<1>9. g[m] \in S /\ \A x \in S : f[x] <= f[g[m]]
  <2> SUFFICES ASSUME NEW x \in S PROVE f[x] <= f[g[m]]
    BY <1>3
  <2>1. PICK i \in 1..n : g[i] = x
    BY <1>3
  <2> QED BY <1>8, <2>1
<1> QED BY <1>9
-----------------------------------------------------------------------------
(* How a line is matched.                                                  *)
Piece == [start : Int, end : Int, text : Seq(DOMAIN Words)]
Kinds == {"split", "aligned_tokens", "missing"}
MatchRow == [line : Piece, kind : Kinds, source : Seq(DOMAIN Words), count : Nat, score : Int,
             inTime : Int, likeness : Int, coverage : Int]

LEMMA WordsCount == \A w \in DOMAIN Words : Words[w].len \in Nat
BY HAssumption DEF H!HistoryAssumption

LEMMA LettersAre == ASSUME NEW text \in Seq(DOMAIN Words) PROVE H!Letters(text) \in Nat
<1> DEFINE f == [i \in DOMAIN text |-> Words[text[i]].len]
<1>1. Len(text) \in Nat /\ DOMAIN text = 1..Len(text) /\ \A i \in DOMAIN text : text[i] \in DOMAIN Words
  OBVIOUS
<1>2. \A i \in DOMAIN text : f[i] \in Nat
  BY <1>1, WordsCount
<1>3. f \in Seq(Nat)
  <2>1. f \in [1..Len(text) -> Nat]
    BY <1>1, <1>2
  <2> HIDE DEF f
  <2> QED BY <1>1, <2>1
<1>4. 0 \in Nat /\ \A a, b \in Nat : a + b \in Nat
  OBVIOUS
<1>5. H!Letters(text) = H!Sum(f)
  BY DEF H!Letters
<1> HIDE DEF f
<1> QED BY <1>3, <1>4, <1>5, SumIs

LEMMA NormalIs == ASSUME NEW text \in Seq(DOMAIN Words) PROVE H!Normal(text) \in Seq(DOMAIN Words)
<1> DEFINE said == {i \in DOMAIN text : "mark" \notin Words[text[i]].kinds}
<1>1. Len(text) \in Nat /\ DOMAIN text = 1..Len(text) /\ \A i \in DOMAIN text : text[i] \in DOMAIN Words
  OBVIOUS
<1>2. H!Normal(text) = IF said = {} THEN <<>> ELSE SubSeq(text, H!Least(said), H!Greatest(said))
  BY DEF H!Normal
<1>3. said \subseteq 1..Len(text) /\ 1 \in Int /\ Len(text) \in Int
  BY <1>1
<1> HIDE DEF said
<1>4. CASE said = {}
  BY <1>2, <1>4
<1>5. CASE said # {}
  <2>1. H!Least(said) \in 1..Len(text) /\ H!Greatest(said) \in 1..Len(text)
    BY <1>3, <1>5, EndsOf
  <2>2. \A i \in H!Least(said)..H!Greatest(said) : text[i] \in DOMAIN Words
    BY <1>1, <2>1
  <2>3. SubSeq(text, H!Least(said), H!Greatest(said)) \in Seq(DOMAIN Words)
    BY <2>1, <2>2, SubSeqProperties
  <2> QED BY <1>2, <1>5, <2>3
<1> QED BY <1>4, <1>5

LEMMA TimesAre ==
    ASSUME NEW a, NEW b, a.start \in Int, a.end \in Int, b.start \in Int, b.end \in Int
    PROVE  H!Overlap(a, b) \in Int /\ H!InTime(a, b) \in Int /\ H!AtBounds(a, b) \in Int
<1>1. H!Overlap(a, b) \in Int
  BY DEF H!Overlap, H!GreaterOf, H!LesserOf
<1>2. H!InTime(a, b) \in Int
  <2> DEFINE union == H!GreaterOf(a.end, b.end) - H!LesserOf(a.start, b.start)
  <2>1. union \in Int /\ 1000 * H!Overlap(a, b) \in Int
    BY <1>1 DEF H!GreaterOf, H!LesserOf
  <2>2. H!InTime(a, b) = IF union <= 0 THEN 0 ELSE (1000 * H!Overlap(a, b)) \div union
    BY DEF H!InTime
  <2> HIDE DEF union
  <2>3. CASE union <= 0
    BY <2>2, <2>3
  <2>4. CASE ~(union <= 0)
    <3>1. union \in Nat /\ union > 0
      BY <2>1, <2>4
    <3> QED BY <2>1, <2>2, <2>4, <3>1, Divided
  <2> QED BY <2>3, <2>4
<1>3. H!AtBounds(a, b) \in Int
  <2> DEFINE off == H!GreaterOf(a.start - b.start, b.start - a.start)
                    + H!GreaterOf(a.end - b.end, b.end - a.end)
             most == 16 * H!GreaterOf(800, a.end - a.start)
             part == (10000 * off) \div most
  <2>1. off \in Int /\ 10000 * off \in Int
    BY DEF H!GreaterOf
  <2>2. most \in Nat /\ most > 0
    BY DEF H!GreaterOf
  <2>3. H!AtBounds(a, b) = H!GreaterOf(0, 1000 - part)
    BY DEF H!AtBounds
  <2> HIDE DEF off, most
  <2>4. part \in Int
    BY <2>1, <2>2, Divided
  <2> HIDE DEF part
  <2> QED BY <2>3, <2>4 DEF H!GreaterOf
<1> QED BY <1>1, <1>2, <1>3

LEMMA LikenessIs ==
    ASSUME NEW a \in Seq(DOMAIN Words), NEW b \in Seq(DOMAIN Words)
    PROVE  H!Likeness(a, b) \in Int
<1> DEFINE l == H!Letters(H!Normal(a))
           r == H!Letters(H!Normal(b))
           most == H!GreaterOf(l, r)
           least == H!LesserOf(l, r)
<1>1. l \in Nat /\ r \in Nat
  BY NormalIs, LettersAre
<1>2. H!Likeness(a, b) = IF l = 0 \/ r = 0 THEN 0 ELSE (1000 * least) \div most
  BY DEF H!Likeness
<1> HIDE DEF l, r
<1>3. CASE l = 0 \/ r = 0
  BY <1>2, <1>3
<1>4. CASE ~(l = 0 \/ r = 0)
  <2>1. 1000 * least \in Int /\ most \in Nat /\ most > 0
    BY <1>1, <1>4 DEF H!GreaterOf, H!LesserOf
  <2> HIDE DEF most, least
  <2> QED BY <1>2, <1>4, <2>1, Divided
<1> QED BY <1>3, <1>4

LEMMA OfIs ==
    ASSUME NEW line \in Piece, NEW kind \in Kinds, NEW source \in Seq(DOMAIN Words),
           NEW span \in [start : Int, end : Int], NEW covered \in Int, NEW n \in Nat
    PROVE  LET m == H!Of(line, kind, source, span, covered, n)
           IN  m \in MatchRow /\ m.line = line /\ m.kind = kind
<1> DEFINE share == (1000 * covered) \div H!GreaterOf(1, line.end - line.start)
           least == H!LesserOf(1000, share)
           inTime == H!InTime(line, span)
           atBounds == H!AtBounds(line, span)
           like == H!Likeness(line.text, source)
           m0 == [line |-> line, kind |-> kind, source |-> source, count |-> n, score |-> 0,
                  inTime |-> inTime, likeness |-> like, coverage |-> least]
           whole == 450 * inTime + 200 * atBounds + 150 * like + 200 * least
           value == whole \div 1000 - H!LesserOf(400, 80 * (n - 1))
           m == H!Of(line, kind, source, span, covered, n)
<1>1. line.start \in Int /\ line.end \in Int /\ line.text \in Seq(DOMAIN Words)
      /\ span.start \in Int /\ span.end \in Int
  BY DEF Piece
<1>2. inTime \in Int /\ atBounds \in Int /\ like \in Int
  BY <1>1, TimesAre, LikenessIs
<1>3. share \in Int
  <2> DEFINE d == H!GreaterOf(1, line.end - line.start)
  <2>1. d \in Nat /\ d > 0 /\ 1000 * covered \in Int
    BY <1>1 DEF H!GreaterOf
  <2> HIDE DEF d
  <2> QED BY <2>1, Divided DEF d
<1>4. least \in Int
  <2> HIDE DEF share
  <2> QED BY <1>3 DEF H!LesserOf
<1>5. m = [m0 EXCEPT !.score = H!GreaterOf(0, value)]
  BY DEF H!Of, H!Scored
<1> HIDE DEF share, least, inTime, atBounds, like, m
<1>6. value \in Int
  <2>1. whole \in Int
    BY <1>2, <1>4
  <2> HIDE DEF whole
  <2>2. whole \div 1000 \in Int
    BY <2>1, Divided
  <2> QED BY <2>2 DEF H!LesserOf
<1> HIDE DEF value
<1>7. H!GreaterOf(0, value) \in Int
  BY <1>6 DEF H!GreaterOf
<1>8. m0 \in MatchRow
  BY <1>2, <1>4 DEF MatchRow
<1>9. m \in MatchRow /\ m.line = line /\ m.kind = kind
  BY <1>5, <1>7, <1>8 DEF MatchRow
<1> QED BY <1>9 DEF m

LEMMA CandidateIs ==
    ASSUME NEW line \in Piece, NEW kind \in Kinds, NEW ps \in Seq(Piece), ps # <<>>
    PROVE  LET m == H!Candidate(line, kind, ps)
           IN  m \in MatchRow /\ m.line = line /\ m.kind = kind
<1> DEFINE n == Len(ps)
           texts == [i \in DOMAIN ps |-> ps[i].text]
           laps == [i \in DOMAIN ps |-> H!Overlap(line, ps[i])]
           span == [start |-> ps[1].start, end |-> ps[Len(ps)].end]
<1>1. n \in Nat /\ n > 0 /\ DOMAIN ps = 1..n /\ \A i \in 1..n : ps[i] \in Piece
  <2>1. n \in Nat /\ n # 0 /\ DOMAIN ps = 1..n
    BY EmptySeq, LenProperties
  <2>2. ASSUME NEW i \in 1..n PROVE ps[i] \in Piece
    BY ElementOfSeq
  <2> QED BY <2>1, <2>2
<1>2. H!Flat(texts) \in Seq(DOMAIN Words)
  <2>1. texts \in [1..n -> Seq(DOMAIN Words)]
    BY <1>1 DEF Piece
  <2>2. texts \in Seq(Seq(DOMAIN Words))
    <3> HIDE DEF texts, n
    <3> QED BY <1>1, <2>1
  <2> HIDE DEF texts
  <2> QED BY <2>2, FlatIs
<1>3. H!Sum(laps) \in Int
  <2>1. ASSUME NEW i \in 1..n PROVE H!Overlap(line, ps[i]) \in Int
    <3>1. ps[i].start \in Int /\ ps[i].end \in Int /\ line.start \in Int /\ line.end \in Int
      BY <1>1 DEF Piece
    <3> QED BY <3>1, TimesAre
  <2>2. laps \in [1..n -> Int]
    BY <1>1, <2>1
  <2>3. laps \in Seq(Int)
    <3> HIDE DEF laps, n
    <3> QED BY <1>1, <2>2
  <2>4. 0 \in Int /\ \A a, b \in Int : a + b \in Int
    OBVIOUS
  <2> HIDE DEF laps
  <2> QED BY <2>3, <2>4, SumIs
<1>4. span \in [start : Int, end : Int]
  <2>1. ps[1] \in Piece /\ ps[Len(ps)] \in Piece
    BY <1>1
  <2> QED BY <2>1 DEF Piece
<1>5. H!Candidate(line, kind, ps) = H!Of(line, kind, H!Flat(texts), span, H!Sum(laps), n)
  BY DEF H!Candidate
<1> HIDE DEF texts, laps, span, n
<1> QED BY <1>1, <1>2, <1>3, <1>4, <1>5, OfIs
-----------------------------------------------------------------------------
LEMMA CardIs == ASSUME NEW S PROVE H!Cardinality(S) = Cardinality(S)
BY DEF H!Cardinality, Cardinality, H!IsFiniteSet, IsFiniteSet

(* The first of the best of a finite set of windows.                       *)
LEMMA FirstBestIs ==
    ASSUME NEW W, IsFiniteSet(W), W \subseteq Nat \X Nat, NEW of, of \in [W -> MatchRow]
    PROVE  /\ W = {} => H!FirstBest(of) = {}
           /\ W # {} => H!FirstBest(of) # {}
           /\ \A m \in H!FirstBest(of) : \E w \in W : m = of[w] /\ \A v \in W : of[v].score <= m.score
<1> DEFINE best == {w \in W : \A v \in W : of[v].score <= of[w].score}
           first == {w \in best : \A v \in best : w[1] < v[1] \/ (w[1] = v[1] /\ w[2] <= v[2])}
<1>1. H!FirstBest(of) = {of[w] : w \in first}
  <2>1. DOMAIN of = W
    OBVIOUS
  <2> QED BY <2>1, Zenon DEF H!FirstBest
<1>2. \A m \in H!FirstBest(of) : \E w \in W : m = of[w] /\ \A v \in W : of[v].score <= m.score
  BY <1>1
<1>3. W = {} => first = {}
  OBVIOUS
<1>4. ASSUME W # {} PROVE first # {}
  <2> DEFINE points == [w \in W |-> of[w].score]
  <2>1. points \in [W -> Int]
    <3>1. \A w \in W : of[w] \in MatchRow
      OBVIOUS
    <3>2. \A w \in W : of[w].score \in Int
      BY <3>1 DEF MatchRow
    <3> QED BY <3>2
  <2>2. PICK t \in W : \A v \in W : points[v] <= points[t]
    <3> HIDE DEF points
    <3> QED BY <1>4, <2>1, FiniteGreatest
  <2>3. t \in best
    BY <2>2
  <2> DEFINE L == {w[1] : w \in best}
  <2>4. L \in SUBSET Nat /\ L # {}
    <3>1. \A w \in best : w \in Nat \X Nat
      OBVIOUS
    <3> HIDE DEF best
    <3> QED BY <2>3, <3>1
  <2>5. PICK l \in L : \A k \in L : l <= k
    <3> HIDE DEF L
    <3> QED BY <2>4, LeastOf
  <2> DEFINE R == {w[2] : w \in {w \in best : w[1] = l}}
  <2>6. R \in SUBSET Nat /\ R # {}
    <3>1. \A w \in best : w \in Nat \X Nat
      OBVIOUS
    <3>2. PICK w \in best : w[1] = l
      BY <2>5
    <3> HIDE DEF best
    <3> QED BY <3>1, <3>2
  <2>7. PICK r \in R : \A k \in R : r <= k
    <3> HIDE DEF R
    <3> QED BY <2>6, LeastOf
  <2>8. PICK w \in best : w[1] = l /\ w[2] = r
    BY <2>7
  <2>9. ASSUME NEW v \in best PROVE w[1] < v[1] \/ (w[1] = v[1] /\ w[2] <= v[2])
    <3>1. v[1] \in L /\ v[1] \in Nat /\ l \in Nat /\ v[2] \in Nat /\ l <= v[1]
      BY <2>4, <2>5
    <3>2. v[1] = l => v[2] \in R
      OBVIOUS
    <3>3. v[1] = l => r <= v[2]
      BY <2>7, <3>2
    <3> QED BY <2>8, <3>1, <3>3
  <2>10. w \in first
    BY <2>8, <2>9
  <2> QED BY <2>10
<1> HIDE DEF first
<1> QED BY <1>1, <1>2, <1>3, <1>4

(* The windows are the runs of up to four cues that are all near.          *)
LEMMA WindowsAre ==
    ASSUME NEW cs \in Seq(Piece), NEW line \in Piece
    PROVE  /\ IsFiniteSet(H!Windows(cs, line)) /\ H!Windows(cs, line) \subseteq Nat \X Nat
           /\ \A w \in H!Windows(cs, line) : w[2] > 0 /\ w[1]..(w[1] + w[2] - 1) \subseteq 1..Len(cs)
           /\ \A a, b \in 1..Len(cs) : 
                  a <= b /\ b < a + 4 /\ a..b \subseteq H!Near(cs, line, 2500) =>
                      <<a, b - a + 1>> \in H!Windows(cs, line)
<1> DEFINE near == H!Near(cs, line, 2500)
           most == H!LesserOf(4, H!Cardinality(near))
           W == H!Windows(cs, line)
<1>1. Len(cs) \in Nat /\ near \subseteq 1..Len(cs)
  <2>1. Len(cs) \in Nat /\ DOMAIN cs = 1..Len(cs)
    OBVIOUS
  <2>2. near \subseteq DOMAIN cs
    BY DEF H!Near
  <2> HIDE DEF near
  <2> QED BY <2>1, <2>2
<1>2. IsFiniteSet(near) /\ H!Cardinality(near) = Cardinality(near) /\ Cardinality(near) \in Nat
  <2>1. IsFiniteSet(1..Len(cs))
    BY <1>1, FS_Interval
  <2>2. IsFiniteSet(near)
    <3> HIDE DEF near
    <3> QED BY <1>1, <2>1, FS_Subset
  <2> QED BY <2>2, CardIs, FS_CardinalityType
<1>3. W = {w \in near \X (1..most) : w[1]..(w[1] + w[2] - 1) \subseteq near}
  BY DEF H!Windows
<1> HIDE DEF near, W
<1>4. most \in Nat /\ (most = 4 \/ most = Cardinality(near)) 
  BY <1>2 DEF H!LesserOf
<1> HIDE DEF most
<1>5. IsFiniteSet(W) /\ W \subseteq Nat \X Nat
  <2>1. IsFiniteSet(1..most)
    BY <1>4, FS_Interval
  <2>2. IsFiniteSet(near \X (1..most))
    BY <1>2, <2>1, FS_Product
  <2>3. W \in SUBSET (near \X (1..most))
    BY <1>3
  <2>4. near \X (1..most) \subseteq Nat \X Nat
    <3>1. near \subseteq Nat /\ 1..most \subseteq Nat
      BY <1>1, <1>4
    <3> QED BY <3>1
  <2> QED BY <2>2, <2>3, <2>4, FS_Subset
<1>6. ASSUME NEW w \in W PROVE w[2] > 0 /\ w[1]..(w[1] + w[2] - 1) \subseteq 1..Len(cs)
  BY <1>1, <1>3, <1>4
<1>7. ASSUME NEW a \in 1..Len(cs), NEW b \in 1..Len(cs), a <= b, b < a + 4, a..b \subseteq near
      PROVE  <<a, b - a + 1>> \in W
  <2>1. Cardinality(a..b) = b - a + 1 /\ a \in near
    <3>1. a \in Int /\ b \in Int
      OBVIOUS
    <3>2. Cardinality(a..b) = IF a > b THEN 0 ELSE b - a + 1
      BY <3>1, FS_Interval
    <3> QED BY <1>7, <3>1, <3>2
  <2>2. Cardinality(a..b) <= Cardinality(near)
    BY <1>2, <1>7, FS_Subset
  <2>3. b - a + 1 \in 1..most
    BY <1>2, <1>4, <1>7, <2>1, <2>2
  <2>4. a + (b - a + 1) - 1 = b
    BY <1>1
  <2> QED BY <1>3, <1>7, <2>1, <2>3, <2>4
<1> QED BY <1>5, <1>6, <1>7 DEF near, W

LEMMA WindowOf ==
    ASSUME NEW cs \in Seq(Piece), NEW line \in Piece, NEW a \in 1..Len(cs), NEW b \in 1..Len(cs),
           a <= b, b < a + 4, a..b \subseteq H!Near(cs, line, 2500)
    PROVE  <<a, b - a + 1>> \in H!Windows(cs, line)
<1>1. \A x, y \in 1..Len(cs) :
         x <= y /\ y < x + 4 /\ x..y \subseteq H!Near(cs, line, 2500) => <<x, y - x + 1>> \in H!Windows(cs, line)
  BY WindowsAre
<1> QED BY <1>1
-----------------------------------------------------------------------------
(* A finite set put in an order.                                           *)
StrictOrder(S, before) ==
    /\ \A i \in S : <<i, i>> \notin before
    /\ \A i, j \in S : i # j => <<i, j>> \in before \/ <<j, i>> \in before
    /\ \A i, j, k \in S : <<i, j>> \in before /\ <<j, k>> \in before => <<i, k>> \in before
Lined(S, before, o) ==
    /\ o \in [1..Cardinality(S) -> S] /\ o \in Seq(S) /\ Len(o) = Cardinality(S) /\ Len(o) \in Nat
    /\ \A i \in S : \E k \in 1..Len(o) : o[k] = i
    /\ \A j, k \in 1..Len(o) : j < k => <<o[j], o[k]>> \in before

LEMMA OrderedIs ==
    ASSUME NEW S, IsFiniteSet(S), NEW before, StrictOrder(S, before)
    PROVE  Lined(S, before, H!Ordered(S, before))
<1> DEFINE n == Cardinality(S)
           below(i) == {j \in S : <<j, i>> \in before}
           rank(i) == Cardinality(below(i))
           o == H!Ordered(S, before)
<1>1. n \in Nat
  BY FS_CardinalityType
<1>2. ASSUME NEW i \in S PROVE IsFiniteSet(below(i)) /\ rank(i) \in Nat /\ rank(i) < n
  <2>1. below(i) \in SUBSET S
    OBVIOUS
  <2>2. IsFiniteSet(below(i)) /\ rank(i) <= n /\ (n = rank(i) => S = below(i))
    <3> HIDE DEF below
    <3> QED BY <2>1, FS_Subset
  <2>3. i \notin below(i)
    BY DEF StrictOrder
  <2>4. rank(i) \in Nat
    <3> HIDE DEF below
    <3> QED BY <2>2, FS_CardinalityType
  <2> HIDE DEF below, rank, n
  <2> QED BY <1>1, <2>2, <2>3, <2>4
<1>3. ASSUME NEW i \in S, NEW j \in S, <<i, j>> \in before PROVE rank(i) < rank(j)
  <2> DEFINE T == below(i) \cup {i}
  <2>1. T \in SUBSET below(j)
    BY <1>3 DEF StrictOrder
  <2>2. i \notin below(i)
    BY DEF StrictOrder
  <2>3. Cardinality(T) = rank(i) + 1
    <3>1. IsFiniteSet(below(i))
      BY <1>2
    <3> HIDE DEF below
    <3> QED BY <2>2, <3>1, FS_AddElement
  <2>4. Cardinality(T) <= rank(j)
    <3>1. IsFiniteSet(below(j))
      BY <1>2
    <3> HIDE DEF T, below
    <3> QED BY <2>1, <3>1, FS_Subset
  <2>5. rank(i) \in Nat /\ rank(j) \in Nat
    BY <1>2
  <2> HIDE DEF T, below, rank
  <2> QED BY <2>3, <2>4, <2>5
<1> DEFINE Ranks == 0..(n - 1)
           f == [i \in S |-> rank(i)]
<1>4. \A i, j \in S : rank(i) = rank(j) => i = j
  <2> SUFFICES ASSUME NEW i \in S, NEW j \in S, rank(i) = rank(j), i # j PROVE FALSE
    OBVIOUS
  <2>1. <<i, j>> \in before \/ <<j, i>> \in before
    BY DEF StrictOrder
  <2>2. rank(i) < rank(j) \/ rank(j) < rank(i)
    BY <1>3, <2>1
  <2>3. rank(i) \in Nat /\ rank(j) \in Nat
    BY <1>2
  <2> HIDE DEF rank
  <2> QED BY <2>2, <2>3
<1>5. \A k \in Ranks : \E i \in S : rank(i) = k
  <2>1. f \in Injection(S, Ranks)
    <3>1. \A i \in S : rank(i) \in Ranks
      <4>1. \A i \in S : rank(i) \in Nat /\ rank(i) < n
        BY <1>2
      <4> HIDE DEF rank, n
      <4> QED BY <1>1, <4>1
    <3> HIDE DEF rank, Ranks
    <3>2. f \in [S -> Ranks] /\ \A i, j \in S : f[i] = f[j] => i = j
      BY <1>4, <3>1
    <3> HIDE DEF f
    <3> QED BY <3>2 DEF Injection, IsInjective
  <2>2. IsFiniteSet(Ranks) /\ Cardinality(Ranks) = n
    <3>1. 0 \in Int /\ n - 1 \in Int
      BY <1>1
    <3>2. IsFiniteSet(Ranks) /\ Cardinality(Ranks) = IF 0 > n - 1 THEN 0 ELSE (n - 1) - 0 + 1
      <4> HIDE DEF n
      <4> QED BY <3>1, FS_Interval
    <3> HIDE DEF n
    <3> QED BY <1>1, <3>2
  <2> HIDE DEF f, Ranks
  <2>3. f \in Surjection(S, Ranks)
    BY <2>1, <2>2, FS_Injection
  <2> QED BY <2>3 DEF Surjection, f
<1>6. o = [k \in 1..n |-> CHOOSE i \in S : rank(i) = k - 1]
  BY Zenon DEF H!Ordered, H!Cardinality, H!IsFiniteSet, Cardinality, IsFiniteSet
<1> HIDE DEF rank, o
<1>7. ASSUME NEW k \in 1..n PROVE o[k] \in S /\ rank(o[k]) = k - 1
  <2>1. k - 1 \in Ranks
    BY <1>1
  <2>2. \E i \in S : rank(i) = k - 1
    BY <1>5, <2>1
  <2>3. o[k] = CHOOSE i \in S : rank(i) = k - 1
    <3> HIDE DEF n
    <3> QED BY <1>6
  <2> QED BY <2>2, <2>3
<1> HIDE DEF n
<1>8. o \in [1..n -> S] /\ o \in Seq(S) /\ Len(o) = n
  <2>1. o \in [1..n -> S]
    BY <1>6, <1>7
  <2> QED BY <1>1, <2>1
<1>9. ASSUME NEW i \in S PROVE \E k \in 1..n : o[k] = i
  <2> DEFINE k == rank(i) + 1
  <2>1. k \in 1..n /\ k - 1 = rank(i)
    <3>1. rank(i) \in Nat /\ rank(i) < n
      BY <1>2
    <3> QED BY <1>1, <3>1
  <2> HIDE DEF k
  <2>2. o[k] \in S /\ rank(o[k]) = rank(i)
    BY <1>7, <2>1
  <2>3. o[k] = i
    BY <1>4, <2>2
  <2> QED BY <2>1, <2>3
<1>10. ASSUME NEW j \in 1..n, NEW k \in 1..n, j < k PROVE <<o[j], o[k]>> \in before
  <2>1. o[j] \in S /\ o[k] \in S /\ rank(o[j]) = j - 1 /\ rank(o[k]) = k - 1
    BY <1>7
  <2>2. o[j] # o[k] /\ ~(rank(o[k]) < rank(o[j]))
    BY <1>1, <1>10, <2>1
  <2>3. ~(<<o[k], o[j]>> \in before)
    BY <1>3, <2>1, <2>2
  <2> QED BY <2>1, <2>2, <2>3 DEF StrictOrder
<1> QED BY <1>1, <1>8, <1>9, <1>10 DEF Lined, n, o

LEMMA RisingIs ==
    ASSUME NEW S, S \subseteq Int
    PROVE  /\ StrictOrder(S, H!Rising(S))
           /\ \A i, j : <<i, j>> \in H!Rising(S) <=> i \in S /\ j \in S /\ i < j
<1>1. \A i, j : <<i, j>> \in H!Rising(S) <=> i \in S /\ j \in S /\ i < j
  BY DEF H!Rising
<1> QED BY <1>1 DEF StrictOrder

(* The members of a set of places in the order of the sequence.            *)
Arranged(ps, ids) ==
    LET order == H!Ordered(ids, H!Rising(ids))
        kept  == H!PiecesAt(ps, ids)
    IN  /\ kept \in Seq(Piece) /\ Len(kept) = Len(order) /\ Len(kept) \in Nat
        /\ \A k \in 1..Len(kept) : order[k] \in ids /\ kept[k] = ps[order[k]]
        /\ \A i \in ids : \E k \in 1..Len(kept) : kept[k] = ps[i]
        /\ \A j, k \in 1..Len(kept) : j # k => order[j] # order[k]

LEMMA PiecesAtIs ==
    ASSUME NEW ps \in Seq(Piece), NEW ids, ids \subseteq 1..Len(ps)
    PROVE  Arranged(ps, ids)
<1> DEFINE order == H!Ordered(ids, H!Rising(ids))
           kept == H!PiecesAt(ps, ids)
<1>1. Len(ps) \in Nat /\ ids \subseteq Int /\ IsFiniteSet(ids)
  <2>1. Len(ps) \in Nat /\ 1 \in Int /\ Len(ps) \in Int
    OBVIOUS
  <2>2. IsFiniteSet(1..Len(ps))
    BY <2>1, FS_Interval
  <2>3. IsFiniteSet(ids)
    BY <2>2, FS_Subset
  <2> QED BY <2>1, <2>3
<1>2. Lined(ids, H!Rising(ids), order)
  BY <1>1, RisingIs, OrderedIs
<1>3. kept = [k \in DOMAIN order |-> ps[order[k]]]
  BY DEF H!PiecesAt
<1> HIDE DEF order, kept
<1>4. /\ order \in Seq(ids) /\ Len(order) \in Nat /\ DOMAIN order = 1..Len(order)
      /\ \A k \in 1..Len(order) : order[k] \in ids
  <2>1. order \in Seq(ids) /\ order \in [1..Cardinality(ids) -> ids] /\ Len(order) = Cardinality(ids)
        /\ Len(order) \in Nat
    BY <1>2 DEF Lined
  <2> QED BY <2>1
<1>5. \A k \in 1..Len(order) : ps[order[k]] \in Piece
  <2> SUFFICES ASSUME NEW k \in 1..Len(order) PROVE ps[order[k]] \in Piece
    OBVIOUS
  <2>1. order[k] \in 1..Len(ps)
    BY <1>4
  <2> QED BY <2>1, ElementOfSeq
<1>6. kept \in [1..Len(order) -> Piece]
  BY <1>3, <1>4, <1>5
<1>7. kept \in Seq(Piece) /\ Len(kept) = Len(order)
  BY <1>4, <1>6
<1>8. \A k \in 1..Len(order) : order[k] \in ids /\ kept[k] = ps[order[k]]
  BY <1>3, <1>4
<1>9. \A i \in ids : \E k \in 1..Len(order) : kept[k] = ps[i]
  BY <1>2, <1>8 DEF Lined
<1>10. ASSUME NEW j \in 1..Len(order), NEW k \in 1..Len(order), j # k PROVE order[j] # order[k]
  <2>1. \A i \in ids : <<i, i>> \notin H!Rising(ids)
    BY <1>1, RisingIs DEF StrictOrder
  <2>2. <<order[j], order[k]>> \in H!Rising(ids) \/ <<order[k], order[j]>> \in H!Rising(ids)
    <3>1. j < k \/ k < j
      BY <1>4, <1>10
    <3> QED BY <1>2, <3>1 DEF Lined
  <2> QED BY <1>4, <2>1, <2>2
<1> QED BY <1>4, <1>7, <1>8, <1>9, <1>10 DEF order, kept, Arranged
-----------------------------------------------------------------------------
(* A row that no run of up to four near cues surpasses.                    *)
Unsurpassed(cs, m) ==
    \A a \in DOMAIN cs, b \in DOMAIN cs :
        a <= b /\ b < a + 4 /\ (\A c \in a..b : c \in H!Near(cs, m.line, 2500)) =>
            LET other == H!Candidate(m.line, "split", SubSeq(cs, a, b)).score
            IN  other <= m.score /\ (m.kind = "aligned_tokens" => other < 500)

LEMMA BestSplitIs ==
    ASSUME NEW cs \in Seq(Piece), NEW line \in Piece
    PROVE  /\ \A m \in H!BestSplit(cs, line) : m \in MatchRow /\ m.line = line /\ m.kind = "split"
           /\ H!BestSplit(cs, line) = {} => H!Windows(cs, line) = {}
           /\ \A m \in H!BestSplit(cs, line) : \A w \in H!Windows(cs, line) :
                 H!Candidate(line, "split", SubSeq(cs, w[1], w[1] + w[2] - 1)).score <= m.score
<1> DEFINE W == H!Windows(cs, line)
           C(w) == H!Candidate(line, "split", SubSeq(cs, w[1], w[1] + w[2] - 1))
           of == [w \in W |-> C(w)]
<1>1. IsFiniteSet(W) /\ W \subseteq Nat \X Nat /\
      \A w \in W : w[2] > 0 /\ w[1]..(w[1] + w[2] - 1) \subseteq 1..Len(cs)
  BY WindowsAre
<1>2. H!BestSplit(cs, line) = H!FirstBest(of)
  BY DEF H!BestSplit
<1> HIDE DEF W
<1>3. ASSUME NEW w \in W PROVE C(w) \in MatchRow /\ C(w).line = line /\ C(w).kind = "split"
  <2> DEFINE a == w[1]
             b == w[1] + w[2] - 1
             part == SubSeq(cs, a, b)
  <2>1. a \in Nat /\ b \in Int /\ a <= b /\ b - a + 1 \in Nat \ {0} /\ a..b \subseteq 1..Len(cs)
    <3>1. w[1] \in Nat /\ w[2] \in Nat /\ w[2] > 0
      BY <1>1
    <3>2. w[1]..(w[1] + w[2] - 1) \subseteq 1..Len(cs)
      BY <1>1
    <3> QED BY <3>1, <3>2
  <2> HIDE DEF a, b
  <2>2. \A i \in a..b : cs[i] \in Piece
    <3> SUFFICES ASSUME NEW i \in a..b PROVE cs[i] \in Piece
      OBVIOUS
    <3>1. i \in 1..Len(cs)
      BY <2>1
    <3> QED BY <3>1, ElementOfSeq
  <2>3. part \in Seq(Piece) /\ Len(part) = b - a + 1
    BY <2>1, <2>2, SubSeqProperties
  <2>4. part # <<>>
    BY <2>1, <2>3, EmptySeq
  <2>5. C(w) = H!Candidate(line, "split", part)
    BY DEF a, b
  <2> HIDE DEF C, part
  <2>6. "split" \in Kinds
    BY DEF Kinds
  <2> QED BY <2>3, <2>4, <2>5, <2>6, CandidateIs
<1> HIDE DEF C
<1>4. of \in [W -> MatchRow] /\ \A w \in W : of[w] = C(w)
  BY <1>3
<1> HIDE DEF of
<1>5. /\ W = {} => H!FirstBest(of) = {}
      /\ W # {} => H!FirstBest(of) # {}
      /\ \A m \in H!FirstBest(of) : \E w \in W : m = of[w] /\ \A v \in W : of[v].score <= m.score
  BY <1>1, <1>4, FirstBestIs
<1>6. \A m \in H!BestSplit(cs, line) : m \in MatchRow /\ m.line = line /\ m.kind = "split"
  BY <1>2, <1>3, <1>4, <1>5
<1>7. H!BestSplit(cs, line) = {} => W = {}
  BY <1>2, <1>5
<1>8. \A m \in H!BestSplit(cs, line) : \A w \in W : C(w).score <= m.score
  BY <1>2, <1>4, <1>5
<1> QED BY <1>6, <1>7, <1>8 DEF W, C

LEMMA FromTokensIs ==
    ASSUME NEW ts \in Seq(Piece), NEW line \in Piece
    PROVE  \A m \in H!FromTokens(ts, line) : m \in MatchRow /\ m.line = line
<1> DEFINE near == H!Near(ts, line, 800)
           part == H!PiecesAt(ts, near)
<1>1. near \subseteq 1..Len(ts)
  <2>1. near \subseteq DOMAIN ts /\ DOMAIN ts = 1..Len(ts)
    BY DEF H!Near
  <2> HIDE DEF near
  <2> QED BY <2>1
<1>2. H!FromTokens(ts, line) = IF near = {} THEN {} ELSE {H!Candidate(line, "aligned_tokens", part)}
  BY DEF H!FromTokens
<1> HIDE DEF near
<1>3. CASE near = {}
  BY <1>2, <1>3
<1>4. CASE near # {}
  <2>1. part \in Seq(Piece) /\ Len(part) \in Nat /\ \A i \in near : \E k \in 1..Len(part) : part[k] = ts[i]
    <3>1. Arranged(ts, near)
      BY <1>1, PiecesAtIs
    <3> QED BY <3>1 DEF Arranged
  <2>2. part # <<>>
    <3>1. Len(part) # 0
      BY <1>4, <2>1
    <3> QED BY <3>1, EmptySeq
  <2>3. "aligned_tokens" \in Kinds
    BY DEF Kinds
  <2> HIDE DEF part
  <2>4. H!Candidate(line, "aligned_tokens", part) \in MatchRow
        /\ H!Candidate(line, "aligned_tokens", part).line = line
    BY <2>1, <2>2, <2>3, CandidateIs
  <2> QED BY <1>2, <1>4, <2>4
<1> QED BY <1>3, <1>4

LEMMA MatchIs ==
    ASSUME NEW cs \in Seq(Piece), NEW ts \in Seq(Piece), NEW line \in Piece
    PROVE  LET m == H!Match(cs, ts, line)
           IN  m \in MatchRow /\ m.line = line /\ Unsurpassed(cs, m)
<1> DEFINE best == H!BestSplit(cs, line)
           spoken == H!FromTokens(ts, line)
           missing == H!Missing(line)
           more == {t \in spoken : \A b \in best : b.score < 500 /\ t.score > b.score}
           from == IF more # {} THEN more ELSE IF best # {} THEN best ELSE {missing}
           m == H!Match(cs, ts, line)
           W == H!Windows(cs, line)
           C(w) == H!Candidate(line, "split", SubSeq(cs, w[1], w[1] + w[2] - 1))
<1>1. m = CHOOSE x \in from : TRUE
  BY DEF H!Match, H!Better
<1>2. /\ \A x \in best : x \in MatchRow /\ x.line = line /\ x.kind = "split"
      /\ best = {} => W = {}
      /\ \A x \in best : \A w \in W : C(w).score <= x.score
  BY BestSplitIs
<1>3. \A x \in spoken : x \in MatchRow /\ x.line = line
  BY FromTokensIs
<1>4. missing \in MatchRow /\ missing.line = line /\ missing.kind = "missing"
  <2>1. missing = [line |-> line, kind |-> "missing", source |-> <<>>, count |-> 0, score |-> 0,
                   inTime |-> 0, coverage |-> 0, likeness |-> 0]
    BY DEF H!Missing
  <2> HIDE DEF missing
  <2>2. "missing" \in Kinds /\ <<>> \in Seq(DOMAIN Words) /\ 0 \in Nat /\ 0 \in Int
    BY DEF Kinds
  <2> QED BY <2>1, <2>2 DEF MatchRow
<1> HIDE DEF best, spoken, missing, m, C, W
<1>5. m \in from
  BY <1>1
<1>6. m \in MatchRow /\ m.line = line
  BY <1>2, <1>3, <1>4, <1>5
<1>7. ASSUME NEW w \in W, C(w).score \in Int PROVE C(w).score <= m.score /\ (m.kind = "aligned_tokens" => C(w).score < 500)
  <2>1. best # {}
    BY <1>2
  <2>2. CASE more # {}
    <3>1. PICK b \in best : TRUE
      BY <2>1
    <3>2. m \in more
      BY <1>5, <2>2
    <3>3. b.score < 500 /\ m.score > b.score /\ C(w).score <= b.score
      BY <1>2, <3>2
    <3>4. b.score \in Int /\ m.score \in Int
      BY <1>2, <1>6 DEF MatchRow
    <3> QED BY <1>7, <3>3, <3>4
  <2>3. CASE more = {}
    <3>1. m \in best
      BY <1>5, <2>1, <2>3
    <3> QED BY <1>2, <3>1
  <2> QED BY <2>2, <2>3
<1>8. ASSUME NEW a \in 1..Len(cs), NEW b \in 1..Len(cs), a <= b, b < a + 4, a..b \subseteq H!Near(cs, line, 2500)
      PROVE  LET other == H!Candidate(m.line, "split", SubSeq(cs, a, b)).score
             IN  other <= m.score /\ (m.kind = "aligned_tokens" => other < 500)
  <2> DEFINE w == <<a, b - a + 1>>
  <2>1. Len(cs) \in Nat
    OBVIOUS
  <2>2. w \in W
    <3>1. <<a, b - a + 1>> \in H!Windows(cs, line)
      BY <1>8, WindowOf
    <3> QED BY <3>1 DEF W
  <2>3. C(w) = H!Candidate(m.line, "split", SubSeq(cs, a, b))
    <3>1. w[1] = a /\ w[1] + w[2] - 1 = b
      BY <2>1
    <3> HIDE DEF w
    <3> QED BY <1>6, <3>1 DEF C
  <2>4. C(w) \in MatchRow
    <3> DEFINE part == SubSeq(cs, a, b)
    <3>1. \A i \in a..b : cs[i] \in Piece
      <4> SUFFICES ASSUME NEW i \in a..b PROVE cs[i] \in Piece
        OBVIOUS
      <4>1. i \in 1..Len(cs)
        BY <2>1
      <4> QED BY <4>1, ElementOfSeq
    <3>2. part \in Seq(Piece) /\ Len(part) = b - a + 1
      <4>1. a \in Int /\ b \in Int /\ b - a + 1 \in Nat /\ a <= b
        BY <1>8, <2>1
      <4>2. Len(part) = IF a <= b THEN b - a + 1 ELSE 0
        BY <3>1, <4>1, SubSeqProperties
      <4>3. part \in Seq(Piece)
        BY <3>1, <4>1, SubSeqProperties
      <4> HIDE DEF part
      <4> QED BY <4>1, <4>2, <4>3
    <3>3. part # <<>>
      <4>1. b - a + 1 # 0
        BY <1>8, <2>1
      <4> HIDE DEF part
      <4> QED BY <3>2, <4>1, EmptySeq
    <3>4. "split" \in Kinds /\ m.line = line
      BY <1>6 DEF Kinds
    <3> HIDE DEF part
    <3>5. H!Candidate(line, "split", part) \in MatchRow
      BY <3>2, <3>3, <3>4, CandidateIs
    <3> QED BY <2>3, <3>4, <3>5 DEF part
  <2>5. C(w).score \in Int
    BY <2>4 DEF MatchRow
  <2> HIDE DEF w
  <2> QED BY <1>7, <2>2, <2>3, <2>5
<1>9. Unsurpassed(cs, m)
  <2> SUFFICES ASSUME NEW a \in DOMAIN cs, NEW b \in DOMAIN cs, a <= b, b < a + 4,
                      \A c \in a..b : c \in H!Near(cs, m.line, 2500)
               PROVE  LET other == H!Candidate(m.line, "split", SubSeq(cs, a, b)).score
                      IN  other <= m.score /\ (m.kind = "aligned_tokens" => other < 500)
    BY DEF Unsurpassed
  <2>1. a \in 1..Len(cs) /\ b \in 1..Len(cs)
    OBVIOUS
  <2>2. a..b \subseteq H!Near(cs, line, 2500)
    BY <1>6
  <2> QED BY <1>8, <2>1, <2>2, SMTT(30)
<1> QED BY <1>6, <1>9 DEF m
-----------------------------------------------------------------------------
(* The rows of an episode.                                                 *)
Levels == {"high", "medium", "low"}
HistoryRow == [id : Nat, line : Piece, kind : Kinds, source : Seq(DOMAIN Words), count : Nat, score : Int,
               inTime : Int, coverage : Int, likeness : Int, level : Levels]
OptionOK   == option.llm \in BOOLEAN /\ option.min \in Int /\ option.often \in Int
Recorded   == [cues : Seq(Piece), tokens : Seq(Piece)]
Work       == [audio : Seq(Recorded), heard : SUBSET Nat, split : SUBSET Nat]
Pair       == [id : Nat, media : Seq(Recorded), lines : Seq(Piece)]

LEMMA KindsOfMedia == H!Pieces = Seq(Piece) /\ H!Media = Seq(Recorded)
BY DEF H!Pieces, H!Media, Piece, Recorded

LEMMA LevelIs == ASSUME OptionOK, NEW score \in Int PROVE H!Level(score) \in Levels
<1> DEFINE low == H!GreaterOf(500, option.min - 180)
<1>1. H!Level(score) = CASE score >= option.min -> "high"
                         [] score < option.min /\ score >= low -> "medium"
                         [] OTHER -> "low"
  BY DEF H!Level
<1>2. low \in Int /\ option.min \in Int
  BY DEF OptionOK, H!GreaterOf
<1> HIDE DEF low
<1> QED BY <1>1, <1>2 DEF Levels

LEMMA RowIs ==
    ASSUME OptionOK, NEW p, p.id \in Nat, NEW m \in MatchRow, NEW cs, Unsurpassed(cs, m)
    PROVE  LET r == H!RowOf(p, m)
           IN  r \in HistoryRow /\ r.id = p.id /\ r.line = m.line /\ Unsurpassed(cs, r)
<1> DEFINE r == H!RowOf(p, m)
           level == H!Level(m.score)
<1>1. m.score \in Int /\ level \in Levels
  <2>1. m.score \in Int
    BY DEF MatchRow
  <2> QED BY <2>1, LevelIs
<1>2. r = [id |-> p.id, line |-> m.line, kind |-> m.kind, source |-> m.source, count |-> m.count,
           score |-> m.score, inTime |-> m.inTime, coverage |-> m.coverage, likeness |-> m.likeness,
           level |-> level]
  BY DEF H!RowOf
<1> HIDE DEF r, level
<1>3. r \in HistoryRow
  BY <1>1, <1>2 DEF MatchRow, HistoryRow
<1>4. r.id = p.id /\ r.line = m.line /\ r.kind = m.kind /\ r.score = m.score
  BY <1>2
<1>5. Unsurpassed(cs, r)
  BY <1>4 DEF Unsurpassed
<1> QED BY <1>3, <1>4, <1>5 DEF r

(* Each line with a text is there, once.                                   *)
Once(lines, d) ==
    /\ d \in Seq(Piece) /\ Len(d) \in Nat
    /\ \A n \in DOMAIN lines : lines[n].text # <<>> => \E k \in 1..Len(d) : d[k] = lines[n]
    /\ \A j, k \in 1..Len(d) : j # k => d[j] # d[k]

LEMMA DialoguesAre == ASSUME NEW lines \in Seq(Piece) PROVE Once(lines, H!Dialogues(lines))
<1> DEFINE ids == H!Firsts(lines)
           d == H!Dialogues(lines)
           order == H!Ordered(ids, H!Rising(ids))
<1>1. d = H!PiecesAt(lines, ids)
  BY DEF H!Dialogues
<1>2. Len(lines) \in Nat /\ DOMAIN lines = 1..Len(lines)
  OBVIOUS
<1>3. ids = {i \in 1..Len(lines) : lines[i].text # <<>> /\ \A j \in 1..(i - 1) : lines[j] # lines[i]}
  BY <1>2 DEF H!Firsts
<1>4. ids \subseteq 1..Len(lines)
  <2> HIDE DEF ids
  <2> QED BY <1>3
<1> HIDE DEF ids, d
<1>5. Arranged(lines, ids)
  BY <1>4, PiecesAtIs
<1>6. /\ d \in Seq(Piece) /\ Len(d) \in Nat
      /\ \A k \in 1..Len(d) : order[k] \in ids /\ d[k] = lines[order[k]]
      /\ \A i \in ids : \E k \in 1..Len(d) : d[k] = lines[i]
      /\ \A j, k \in 1..Len(d) : j # k => order[j] # order[k]
  BY <1>1, <1>5 DEF Arranged
<1> HIDE DEF order
<1>7. ASSUME NEW n \in DOMAIN lines, lines[n].text # <<>> PROVE \E k \in 1..Len(d) : d[k] = lines[n]
  <2> DEFINE same == {j \in 1..Len(lines) : lines[j] = lines[n]}
  <2>1. same \in SUBSET Nat /\ same # {}
    BY <1>2
  <2>2. PICK i \in same : \A j \in same : i <= j
    <3> HIDE DEF same
    <3> QED BY <2>1, LeastOf
  <2>3. i \in 1..Len(lines) /\ lines[i] = lines[n]
    OBVIOUS
  <2>4. ASSUME NEW j \in 1..(i - 1) PROVE lines[j] # lines[i]
    <3>1. j \in 1..Len(lines) /\ ~(i <= j)
      BY <1>2, <2>3
    <3> QED BY <2>2, <2>3, <3>1
  <2> HIDE DEF same
  <2>5. i \in ids
    BY <1>3, <1>7, <2>3, <2>4
  <2> QED BY <1>6, <2>3, <2>5
<1>8. ASSUME NEW i \in ids, NEW j \in ids, i < j PROVE lines[i] # lines[j]
  <2>1. i \in 1..(j - 1)
    BY <1>2, <1>4, <1>8
  <2> QED BY <1>3, <2>1
<1>9. ASSUME NEW j \in 1..Len(d), NEW k \in 1..Len(d), j # k PROVE d[j] # d[k]
  <2>1. order[j] \in ids /\ order[k] \in ids /\ order[j] # order[k]
    BY <1>6, <1>9
  <2>2. order[j] < order[k] \/ order[k] < order[j]
    <3>1. order[j] \in 1..Len(lines) /\ order[k] \in 1..Len(lines)
      BY <1>4, <2>1
    <3> QED BY <1>2, <2>1, <3>1
  <2>3. lines[order[j]] # lines[order[k]]
    BY <1>8, <2>1, <2>2
  <2> QED BY <1>6, <2>3
<1> QED BY <1>6, <1>7, <1>9 DEF Once, d

LEMMA HeardPieces ==
    ASSUME NEW audio \in Seq(Recorded), NEW segs
    PROVE  H!Cues(audio, segs) \in Seq(Piece) /\ H!Tokens(audio, segs) \in Seq(Piece)
<1> DEFINE cs == [i \in DOMAIN audio |-> IF i \in segs THEN audio[i].cues ELSE <<>>]
           ts == [i \in DOMAIN audio |-> IF i \in segs THEN audio[i].tokens ELSE <<>>]
<1>1. Len(audio) \in Nat /\ DOMAIN audio = 1..Len(audio)
  OBVIOUS
<1>2. ASSUME NEW i \in 1..Len(audio) PROVE audio[i].cues \in Seq(Piece) /\ audio[i].tokens \in Seq(Piece)
  <2>1. audio[i] \in Recorded
    BY ElementOfSeq
  <2> QED BY <2>1 DEF Recorded
<1>3. <<>> \in Seq(Piece)
  OBVIOUS
<1>4. cs \in [1..Len(audio) -> Seq(Piece)] /\ ts \in [1..Len(audio) -> Seq(Piece)]
  BY <1>1, <1>2, <1>3
<1>5. cs \in Seq(Seq(Piece)) /\ ts \in Seq(Seq(Piece))
  <2> HIDE DEF cs, ts
  <2> QED BY <1>1, <1>4, SMTT(30)
<1>6. H!Cues(audio, segs) = H!Flat(cs) /\ H!Tokens(audio, segs) = H!Flat(ts)
  BY DEF H!Cues, H!Tokens
<1> HIDE DEF cs, ts
<1> QED BY <1>5, <1>6, FlatIs

EpisodeRows(rs, p, cs) ==
    /\ rs \in Seq(HistoryRow) /\ Len(rs) \in Nat
    /\ \A i \in 1..Len(rs) : rs[i].id = p.id /\ Unsurpassed(cs, rs[i])
    /\ \A n \in DOMAIN p.lines : p.lines[n].text # <<>> => \E i \in 1..Len(rs) : rs[i].line = p.lines[n]
    /\ \A i, j \in 1..Len(rs) : i # j => rs[i].line # rs[j].line

LEMMA RowsOfEpisode ==
    ASSUME OptionOK, NEW p \in Pair, NEW work \in Work
    PROVE  EpisodeRows(H!RowsOf(p, work), p, H!Cues(work.audio, work.split))
<1> DEFINE cs == H!Cues(work.audio, work.split)
           ts == H!Tokens(work.audio, work.heard)
           d == H!Dialogues(p.lines)
           rs == H!RowsOf(p, work)
           M(i) == H!Match(cs, ts, d[i])
<1>1. work.audio \in Seq(Recorded) /\ p.id \in Nat /\ p.lines \in Seq(Piece)
  BY DEF Work, Pair
<1>2. cs \in Seq(Piece) /\ ts \in Seq(Piece)
  BY <1>1, HeardPieces
<1>3. Once(p.lines, d)
  BY <1>1, DialoguesAre
<1>4. rs = [i \in DOMAIN d |-> H!RowOf(p, M(i))]
  BY DEF H!RowsOf, H!RowsIn
<1> HIDE DEF cs, ts, d, rs
<1>5. DOMAIN d = 1..Len(d) /\ Len(d) \in Nat
  BY <1>3 DEF Once
<1>6. ASSUME NEW i \in 1..Len(d) PROVE M(i) \in MatchRow /\ M(i).line = d[i] /\ Unsurpassed(cs, M(i))
  <2>1. d[i] \in Piece
    BY <1>3, ElementOfSeq DEF Once
  <2> QED BY <1>2, <2>1, MatchIs
<1> HIDE DEF M
<1>7. ASSUME NEW i \in 1..Len(d)
      PROVE  rs[i] \in HistoryRow /\ rs[i].id = p.id /\ rs[i].line = d[i] /\ Unsurpassed(cs, rs[i])
  <2>1. rs[i] = H!RowOf(p, M(i))
    BY <1>4, <1>5
  <2> QED BY <1>1, <1>6, <2>1, RowIs
<1>8. rs \in [1..Len(d) -> HistoryRow]
  BY <1>4, <1>5, <1>7
<1>9. rs \in Seq(HistoryRow) /\ Len(rs) = Len(d)
  BY <1>5, <1>8
<1>10. ASSUME NEW n \in DOMAIN p.lines, p.lines[n].text # <<>>
       PROVE  \E i \in 1..Len(rs) : rs[i].line = p.lines[n]
  <2>1. PICK k \in 1..Len(d) : d[k] = p.lines[n]
    BY <1>3, <1>10 DEF Once
  <2> QED BY <1>7, <1>9, <2>1
<1>11. \A i, j \in 1..Len(rs) : i # j => rs[i].line # rs[j].line
  BY <1>3, <1>7, <1>9 DEF Once
<1>12. \A i \in 1..Len(rs) : rs[i].id = p.id /\ Unsurpassed(cs, rs[i])
  BY <1>7, <1>9
<1> QED BY <1>5, <1>9, <1>10, <1>11, <1>12 DEF EpisodeRows, rs, cs
-----------------------------------------------------------------------------
(* The terms that the rules take from the rows.                            *)
Said(rs, i)  == H!Normal(rs[i].source)
Meant(rs, i) == H!Normal(rs[i].line.text)
Times(rs, items, t) == H!Frequency(rs, items, t)
SeenIn(rs, s, t) == {i \in DOMAIN rs : /\ rs[i].level = "high" /\ H!IsCandidate(rs[i])
                                       /\ Said(rs, i) = s /\ Meant(rs, i) = t /\ H!IsGlossaryLike(s, t)}
TermsIn(c, rs, often) ==
    /\ \A e \in c : SeenIn(rs, e.source, e.target) # {} /\ \A f \in c : f.source = e.source => f = e
    /\ \A i \in DOMAIN rs :
          LET s == Said(rs, i) t == Meant(rs, i)
          IN  Cardinality(SeenIn(rs, s, t)) >= often /\ i \in SeenIn(rs, s, t) =>
                 \E e \in c : /\ e.source = s
                             /\ Cardinality(SeenIn(rs, s, t)) <= Cardinality(SeenIn(rs, s, e.target))

LEMMA TimesIs ==
    ASSUME NEW rs, NEW n \in Nat, NEW items, items \subseteq 1..n, NEW t
    PROVE  Times(rs, items, t) \in Nat
<1> DEFINE S == {i \in items : H!Normal(rs[i].line.text) = t}
<1>1. IsFiniteSet(1..n)
  BY FS_Interval
<1>2. S \in SUBSET (1..n)
  OBVIOUS
<1>3. Times(rs, items, t) = Cardinality(S)
  <2>1. Times(rs, items, t) = H!Cardinality(S)
    BY DEF Times, H!Frequency
  <2> QED BY <2>1, CardIs
<1> HIDE DEF S
<1>4. IsFiniteSet(S)
  BY <1>1, <1>2, FS_Subset
<1> QED BY <1>3, <1>4, FS_CardinalityType

LEMMA MostCommonIs ==
    ASSUME NEW rs, NEW n \in Nat, NEW items, items \subseteq 1..n, items # {}
    PROVE  \E i \in items : /\ H!MostCommon(rs, items) = Meant(rs, i)
                            /\ \A j \in items : Times(rs, items, Meant(rs, j)) <= Times(rs, items, Meant(rs, i))
<1> DEFINE often(i) == Times(rs, items, Meant(rs, i))
           f == [i \in items |-> often(i)]
           I == {i \in items : \A j \in items : often(j) <= often(i)}
<1>1. IsFiniteSet(items)
  <2>1. IsFiniteSet(1..n)
    BY FS_Interval
  <2> QED BY <2>1, FS_Subset
<1>2. f \in [items -> Int]
  <2>1. \A i \in items : often(i) \in Nat
    BY TimesIs
  <2> HIDE DEF often
  <2> QED BY <2>1
<1>3. PICK m \in items : \A j \in items : f[j] <= f[m]
  <2> HIDE DEF f
  <2> QED BY <1>1, <1>2, FiniteGreatest
<1>4. m \in I
  BY <1>3
<1>5. H!MostCommon(rs, items) = Meant(rs, H!Least(I))
  BY DEF H!MostCommon, Meant, Times
<1>6. I \subseteq 1..n /\ 1 \in Int /\ n \in Int
  <2>1. I \subseteq items
    OBVIOUS
  <2> HIDE DEF I
  <2> QED BY <2>1
<1>7. H!Least(I) \in I
  <2> HIDE DEF I
  <2> QED BY <1>4, <1>6, EndsOf
<1>8. H!Least(I) \in items /\ \A j \in items : often(j) <= often(H!Least(I))
  BY <1>7
<1> HIDE DEF I
<1> QED BY <1>5, <1>8

LEMMA TermsSeen ==
    ASSUME OptionOK, NEW rs \in Seq(HistoryRow), NEW c, c = H!Sheet(H!Terms(rs))
    PROVE  TermsIn(c, rs, option.often)
<1> DEFINE G(s) == H!Grouped(rs, s)
           MC(s) == H!MostCommon(rs, G(s))
           Ok(s) == H!Often(rs, G(s), s, MC(s))
           E(s) == H!Entry(H!Group(s, MC(s)), s, MC(s))
           Sources == {s \in {H!Normal(rs[i].source) : i \in DOMAIN rs} : G(s) # {}}
           n == Len(rs)
<1>1. n \in Nat /\ DOMAIN rs = 1..n
  OBVIOUS
<1>2. \A s : G(s) = {i \in 1..n : /\ rs[i].level = "high" /\ H!IsCandidate(rs[i]) /\ Said(rs, i) = s
                                  /\ H!IsGlossaryLike(s, Meant(rs, i))}
  BY <1>1, Zenon DEF H!Grouped, Said, Meant
<1>3. \A s : H!TermOf(rs, G(s), s) = {H!Entry(H!Group(s, t), s, t) : 
                                              t \in {t \in {MC(s)} : H!Often(rs, G(s), s, t)}}
  BY Zenon DEF H!TermOf
<1>4. \A s, e : e \in H!TermOf(rs, G(s), s) <=> Ok(s) /\ e = E(s)
  <2> HIDE DEF G, MC
  <2> QED BY <1>3
<1>5. H!Terms(rs) = UNION {H!TermOf(rs, G(s), s) : s \in Sources}
  BY Zenon DEF H!Terms
<1> HIDE DEF Ok, E, Sources
<1>6. \A e : e \in H!Terms(rs) <=> \E s \in Sources : Ok(s) /\ e = E(s)
  BY <1>4, <1>5
<1>7. \A s : E(s).source = s /\ E(s).target = MC(s)
  BY DEF E, H!Entry
<1>8. \A e : e \in c <=> e \in H!Terms(rs) /\ e.source # <<>> /\ e.target # <<>>
  BY DEF H!Sheet
<1>9. \A s, t : SeenIn(rs, s, t) = {i \in G(s) : Meant(rs, i) = t}
  <2> SUFFICES ASSUME NEW s, NEW t PROVE SeenIn(rs, s, t) = {i \in G(s) : Meant(rs, i) = t}
    OBVIOUS
  <2>1. SeenIn(rs, s, t) = {i \in 1..n : /\ rs[i].level = "high" /\ H!IsCandidate(rs[i])
                                     /\ Said(rs, i) = s /\ Meant(rs, i) = t /\ H!IsGlossaryLike(s, t)}
    BY <1>1, Zenon DEF SeenIn
  <2> HIDE DEF G
  <2> QED BY <1>2, <2>1
<1>10. \A s, t : Cardinality(SeenIn(rs, s, t)) = Times(rs, G(s), t)
  <2> SUFFICES ASSUME NEW s, NEW t PROVE Cardinality(SeenIn(rs, s, t)) = Times(rs, G(s), t)
    OBVIOUS
  <2>1. Times(rs, G(s), t) = H!Cardinality({i \in G(s) : Meant(rs, i) = t})
    BY Zenon DEF Times, H!Frequency, Meant
  <2> QED BY <1>9, <2>1, CardIs
<1> HIDE DEF G
<1>11. \A s : G(s) \subseteq 1..n
  BY <1>2
<1>12. ASSUME NEW s, G(s) # {}
       PROVE  \E i \in G(s) : MC(s) = Meant(rs, i) /\ \A j \in G(s) : Times(rs, G(s), Meant(rs, j)) <= Times(rs, G(s), Meant(rs, i))
  BY <1>1, <1>11, <1>12, MostCommonIs
<1> HIDE DEF MC, n
<1>13. \A s : s \in Sources <=> G(s) # {}
  <2> SUFFICES ASSUME NEW s PROVE s \in Sources <=> G(s) # {}
    OBVIOUS
  <2>1. G(s) # {} => \E i \in 1..n : Said(rs, i) = s
    BY <1>2
  <2> QED BY <1>1, <2>1 DEF Sources, Said
<1>14. ASSUME NEW e \in c
       PROVE  /\ SeenIn(rs, e.source, e.target) # {}
              /\ \A f \in c : f.source = e.source => f = e
  <2>1. PICK s \in Sources : Ok(s) /\ e = E(s)
    BY <1>6, <1>8
  <2>2. e.source = s /\ e.target = MC(s) /\ G(s) # {}
    BY <1>7, <1>13, <2>1
  <2>3. PICK i \in G(s) : MC(s) = Meant(rs, i)
    BY <1>12, <2>2
  <2>4. i \in SeenIn(rs, e.source, e.target)
    BY <1>9, <2>2, <2>3
  <2>5. ASSUME NEW f \in c, f.source = e.source PROVE f = e
    <3>1. PICK r \in Sources : Ok(r) /\ f = E(r)
      BY <1>6, <1>8
    <3>2. r = s
      BY <1>7, <2>2, <2>5, <3>1
    <3> QED BY <2>1, <3>1, <3>2
  <2> QED BY <2>4, <2>5
<1>15. ASSUME NEW i \in DOMAIN rs,
              Cardinality(SeenIn(rs, Said(rs, i), Meant(rs, i))) >= option.often, i \in SeenIn(rs, Said(rs, i), Meant(rs, i))
       PROVE  \E e \in c :
                 /\ e.source = Said(rs, i)
                 /\ Cardinality(SeenIn(rs, Said(rs, i), Meant(rs, i))) <= Cardinality(SeenIn(rs, Said(rs, i), e.target))
  <2> DEFINE s == Said(rs, i)
             t == Meant(rs, i)
  <2>1. i \in G(s)
    BY <1>9, <1>15
  <2> HIDE DEF s, t
  <2>2. PICK k \in G(s) : MC(s) = Meant(rs, k) /\ \A j \in G(s) : Times(rs, G(s), Meant(rs, j)) <= Times(rs, G(s), Meant(rs, k))
    BY <1>12, <2>1
  <2>3. Times(rs, G(s), t) <= Times(rs, G(s), MC(s)) /\ Times(rs, G(s), t) >= option.often
    BY <1>10, <1>15, <2>1, <2>2 DEF s, t
  <2>4. Times(rs, G(s), t) \in Nat /\ Times(rs, G(s), MC(s)) \in Nat /\ option.often \in Int
    BY <1>1, <1>11, TimesIs DEF OptionOK
  <2>5. Ok(s)
    <3>1. Times(rs, G(s), MC(s)) >= option.often
      BY <2>3, <2>4
    <3> QED BY <3>1 DEF Ok, H!Often, Times
  <2>6. s # <<>> /\ MC(s) # <<>>
    <3>1. k \in 1..n /\ H!IsCandidate(rs[k]) /\ Said(rs, k) = s
      BY <1>2, <2>2
    <3>2. Said(rs, k) # <<>> /\ Meant(rs, k) # <<>>
      BY <3>1 DEF H!IsCandidate, Said, Meant
    <3> QED BY <2>2, <3>1, <3>2
  <2>7. E(s) \in c
    BY <1>6, <1>7, <1>8, <1>13, <2>1, <2>5, <2>6
  <2> QED BY <1>7, <1>10, <2>3, <2>7 DEF s, t
<1> QED BY <1>14, <1>15 DEF TermsIn
-----------------------------------------------------------------------------
(* The rows to review.                                                     *)
ReviewOf ==
    LET order == H!Ordered(H!ToReview, {w \in H!ToReview \X H!ToReview : H!Sooner(w[1], w[2])})
    IN  [k \in DOMAIN order |-> found[order[k]]]
Reviewed(rs, rv) ==
    /\ \A i \in DOMAIN rs : rs[i].level = "high" \/ \E k \in DOMAIN rv : rv[k] = rs[i]
    /\ \A k \in DOMAIN rv : rv[k].level # "high" /\ \A j \in 1..k : ~H!Earlier(rv[k], rv[j])

LEMMA EarlierIs ==
    ASSUME NEW R, \A r \in R : r.id \in Int /\ r.line.start \in Int /\ r.line.end \in Int
    PROVE  /\ \A a \in R : ~H!Earlier(a, a)
           /\ \A a, b \in R : H!Earlier(a, b) => ~H!Earlier(b, a)
           /\ \A a, b, c \in R : H!Earlier(a, b) /\ ~H!Earlier(c, b) => H!Earlier(a, c)
           /\ \A a, b, c \in R : ~H!Earlier(b, a) /\ H!Earlier(b, c) => H!Earlier(a, c)
           /\ \A a, b, c \in R : ~H!Earlier(b, a) /\ ~H!Earlier(c, b) => ~H!Earlier(c, a)
<1>1. \A a, b : H!Earlier(a, b) <=> \/ a.id < b.id
                                    \/ a.id = b.id /\ a.line.start < b.line.start
                                    \/ a.id = b.id /\ a.line.start = b.line.start /\ a.line.end < b.line.end
  BY DEF H!Earlier
<1>2. \A a \in R : ~H!Earlier(a, a)
  BY <1>1
<1>3. \A a, b \in R : H!Earlier(a, b) => ~H!Earlier(b, a)
  BY <1>1
<1>4. \A a, b, c \in R : H!Earlier(a, b) /\ ~H!Earlier(c, b) => H!Earlier(a, c)
  BY <1>1
<1>5. \A a, b, c \in R : ~H!Earlier(b, a) /\ H!Earlier(b, c) => H!Earlier(a, c)
  BY <1>1
<1>6. \A a, b, c \in R : ~H!Earlier(b, a) /\ ~H!Earlier(c, b) => ~H!Earlier(c, a)
  BY <1>1
<1> QED BY <1>2, <1>3, <1>4, <1>5, <1>6

LEMMA ReviewIs == ASSUME found \in Seq(HistoryRow), NEW rv, rv = ReviewOf PROVE Reviewed(found, rv)
<1> DEFINE S == H!ToReview
           before == {w \in H!ToReview \X H!ToReview : H!Sooner(w[1], w[2])}
           order == H!Ordered(S, before)
           R == {found[i] : i \in S}
           n == Len(found)
<1>1. n \in Nat /\ DOMAIN found = 1..n /\ S = {i \in 1..n : found[i].level # "high"}
  <2>1. Len(found) \in Nat /\ DOMAIN found = 1..Len(found)
    OBVIOUS
  <2> QED BY <2>1 DEF H!ToReview
<1>2. rv = [k \in DOMAIN order |-> found[order[k]]]
  BY DEF ReviewOf
<1>3. \A i, j : <<i, j>> \in before <=> i \in S /\ j \in S /\ H!Sooner(i, j)
  <2> HIDE DEF S
  <2>1. before = {w \in S \X S : H!Sooner(w[1], w[2])}
    BY DEF S
  <2> HIDE DEF before
  <2> QED BY <2>1
<1> HIDE DEF S, before
<1>4. \A i \in S : found[i].id \in Int /\ found[i].line.start \in Int /\ found[i].line.end \in Int
  <2> SUFFICES ASSUME NEW i \in S
               PROVE  found[i].id \in Int /\ found[i].line.start \in Int /\ found[i].line.end \in Int
    OBVIOUS
  <2>1. i \in 1..Len(found)
    BY <1>1
  <2>2. found[i] \in HistoryRow
    BY <2>1, ElementOfSeq
  <2>3. found[i].id \in Nat /\ found[i].line \in Piece
    BY <2>2 DEF HistoryRow
  <2> QED BY <2>3 DEF Piece
<1>5. \A r \in R : r.id \in Int /\ r.line.start \in Int /\ r.line.end \in Int
  BY <1>4
<1>6. \A i \in S : found[i] \in R
  OBVIOUS
<1> HIDE DEF R, n
<1>7. /\ \A i \in S : ~H!Earlier(found[i], found[i])
      /\ \A i, j \in S : H!Earlier(found[i], found[j]) => ~H!Earlier(found[j], found[i])
      /\ \A i, j, k \in S : H!Earlier(found[i], found[j]) /\ ~H!Earlier(found[k], found[j])
                                => H!Earlier(found[i], found[k])
      /\ \A i, j, k \in S : ~H!Earlier(found[j], found[i]) /\ H!Earlier(found[j], found[k])
                                => H!Earlier(found[i], found[k])
      /\ \A i, j, k \in S : ~H!Earlier(found[j], found[i]) /\ ~H!Earlier(found[k], found[j])
                                => ~H!Earlier(found[k], found[i])
  BY <1>5, <1>6, EarlierIs, ZenonT(60)
<1>8. S \subseteq Int /\ IsFiniteSet(S)
  <2>1. IsFiniteSet(1..n)
    BY <1>1, FS_Interval
  <2>2. S \in SUBSET (1..n)
    BY <1>1
  <2> QED BY <1>1, <2>1, <2>2, FS_Subset
<1>9. \A i, j : H!Sooner(i, j) <=> \/ H!Earlier(found[i], found[j])
                                   \/ ~H!Earlier(found[j], found[i]) /\ i < j
  BY DEF H!Sooner
<1>10. StrictOrder(S, before)
  <2>1. \A i \in S : <<i, i>> \notin before
    BY <1>3, <1>7, <1>8, <1>9
  <2>2. \A i, j \in S : i # j => <<i, j>> \in before \/ <<j, i>> \in before
    BY <1>3, <1>7, <1>8, <1>9
  <2>3. ASSUME NEW i \in S, NEW j \in S, NEW k \in S, <<i, j>> \in before, <<j, k>> \in before
        PROVE  <<i, k>> \in before
    <3>1. H!Sooner(i, j) /\ H!Sooner(j, k) /\ i \in Int /\ j \in Int /\ k \in Int
      BY <1>3, <1>8, <2>3
    <3>2. ~H!Earlier(found[j], found[i]) /\ ~H!Earlier(found[k], found[j])
      BY <1>7, <1>9, <3>1
    <3>3. ~H!Earlier(found[k], found[i])
      BY <1>7, <3>2
    <3>4. H!Sooner(i, k)
      <4>1. CASE H!Earlier(found[i], found[j])
        BY <1>7, <1>9, <3>2, <4>1
      <4>2. CASE H!Earlier(found[j], found[k])
        BY <1>7, <1>9, <3>2, <4>2
      <4>3. CASE i < j /\ j < k
        BY <1>9, <3>1, <3>3, <4>3
      <4> QED BY <1>9, <3>1, <4>1, <4>2, <4>3
    <3> QED BY <1>3, <3>4
  <2> QED BY <2>1, <2>2, <2>3 DEF StrictOrder
<1>11. Lined(S, before, order)
  <2> HIDE DEF order
  <2> QED BY <1>8, <1>10, OrderedIs DEF order
<1> HIDE DEF order
<1>12. DOMAIN order = 1..Len(order) /\ Len(order) \in Nat /\ \A k \in 1..Len(order) : order[k] \in S
  BY <1>11 DEF Lined
<1>13. DOMAIN rv = 1..Len(order) /\ \A k \in 1..Len(order) : rv[k] = found[order[k]]
  BY <1>2, <1>12
<1>14. ASSUME NEW i \in DOMAIN found, found[i].level # "high" PROVE \E k \in DOMAIN rv : rv[k] = found[i]
  <2>1. i \in S
    BY <1>1, <1>14
  <2>2. PICK k \in 1..Len(order) : order[k] = i
    BY <1>11, <2>1 DEF Lined
  <2> QED BY <1>13, <2>2
<1>15. ASSUME NEW k \in DOMAIN rv
       PROVE  rv[k].level # "high" /\ \A j \in 1..k : ~H!Earlier(rv[k], rv[j])
  <2>1. k \in 1..Len(order) /\ rv[k] = found[order[k]] /\ order[k] \in S
    BY <1>12, <1>13
  <2>2. ASSUME NEW j \in 1..k PROVE ~H!Earlier(rv[k], rv[j])
    <3>1. j \in 1..Len(order) /\ rv[j] = found[order[j]] /\ order[j] \in S
      BY <1>12, <1>13, <2>1
    <3>2. CASE j = k
      BY <1>7, <2>1, <3>2
    <3>3. CASE j # k
      <4>1. <<order[j], order[k]>> \in before
        <5>1. j < k
          BY <1>12, <2>1, <3>1, <3>3
        <5> QED BY <1>11, <2>1, <3>1, <5>1 DEF Lined
      <4>2. H!Sooner(order[j], order[k])
        BY <1>3, <4>1
      <4> QED BY <1>7, <1>9, <2>1, <3>1, <4>2
    <3> QED BY <3>2, <3>3
  <2> QED BY <1>1, <2>1, <2>2
<1> QED BY <1>14, <1>15 DEF Reviewed
-----------------------------------------------------------------------------
(* The episodes of a run.                                                  *)
Ids == UNION {{f.id : f \in dir} : dir \in Directories}
PairsOK(p) ==
    /\ p \in Seq(Pair) /\ Len(p) \in Nat
    /\ \A j, k \in 1..Len(p) : j # k => p[j].id # p[k].id
    /\ \A k \in 1..Len(p) : p[k].id \in Ids

LEMMA PairsAre ==
    ASSUME NEW dir \in Directories, NEW p \in H!Pairs(dir), works \in [Ids -> Work]
    PROVE  PairsOK(p)
<1> DEFINE S == H!Episodes(dir)
           ids == H!Ordered(S, H!Rising(S))
           Of(id) == [id : {id}, media : H!Holding(dir, id, TRUE), lines : H!Holding(dir, id, FALSE)]
           All == UNION {Of(id) : id \in S}
<1>1. /\ IsFiniteSet(dir)
      /\ \A f \in dir : f.id \in Nat /\ f.holds \in (IF f.recorded THEN Seq(Recorded) ELSE Seq(Piece))
  BY HAssumption, KindsOfMedia DEF H!HistoryAssumption, H!IsFiniteSet, IsFiniteSet
<1>2. \A id : H!Holding(dir, id, TRUE) \subseteq Seq(Recorded) /\ H!Holding(dir, id, FALSE) \subseteq Seq(Piece)
  BY <1>1 DEF H!Holding
<1>3. \A id \in S : id \in Ids /\ id \in Nat /\ \E f \in dir : f.id = id
  <2> SUFFICES ASSUME NEW id \in S PROVE id \in Ids /\ id \in Nat /\ \E f \in dir : f.id = id
    OBVIOUS
  <2>1. id \in DOMAIN works /\ H!Holding(dir, id, TRUE) # {}
    BY DEF H!Episodes
  <2>2. \E f \in dir : f.id = id
    BY <2>1 DEF H!Holding
  <2> QED BY <1>1, <2>1, <2>2
<1>4. IsFiniteSet(S)
  <2> DEFINE T == {f.id : f \in dir}
             g == [f \in dir |-> f.id]
  <2>1. g \in Surjection(dir, T)
    BY DEF Surjection
  <2>2. IsFiniteSet(T)
    <3> HIDE DEF g, T
    <3> QED BY <1>1, <2>1, FS_Surjection
  <2>3. S \in SUBSET T
    BY <1>3
  <2> HIDE DEF T
  <2> QED BY <2>2, <2>3, FS_Subset
<1>5. Lined(S, H!Rising(S), ids)
  <2>1. S \subseteq Int
    BY <1>3
  <2> HIDE DEF S
  <2> QED BY <1>4, <2>1, RisingIs, OrderedIs
<1>6. p \in [DOMAIN ids -> All] /\ \A k \in DOMAIN ids : p[k].id = ids[k]
  BY Zenon DEF H!Pairs
<1>7. \A x \in All : x \in Pair
  <2> SUFFICES ASSUME NEW id \in S, NEW x \in Of(id) PROVE x \in Pair
    OBVIOUS
  <2> QED BY <1>2, <1>3 DEF Pair
<1> HIDE DEF All, S, ids
<1>8. DOMAIN ids = 1..Len(ids) /\ Len(ids) \in Nat /\ \A k \in 1..Len(ids) : ids[k] \in S
  BY <1>5 DEF Lined
<1>9. p \in [1..Len(ids) -> Pair]
  BY <1>6, <1>7, <1>8
<1>10. p \in Seq(Pair) /\ Len(p) = Len(ids)
  BY <1>8, <1>9
<1>11. ASSUME NEW j \in 1..Len(ids), NEW k \in 1..Len(ids), j # k PROVE ids[j] # ids[k]
  <2>1. <<ids[j], ids[k]>> \in H!Rising(S) \/ <<ids[k], ids[j]>> \in H!Rising(S)
    <3>1. j < k \/ k < j
      BY <1>8, <1>11
    <3> QED BY <1>5, <3>1 DEF Lined
  <2>2. ids[j] \in Nat /\ ids[k] \in Nat
    BY <1>3, <1>8
  <2> QED BY <2>1, <2>2 DEF H!Rising
<1>12. \A k \in 1..Len(ids) : p[k].id = ids[k] /\ p[k].id \in Ids
  BY <1>3, <1>6, <1>8
<1>13. \A j, k \in 1..Len(ids) : j # k => p[j].id # p[k].id
  BY <1>11, <1>12
<1> QED BY <1>8, <1>10, <1>12, <1>13 DEF PairsOK
-----------------------------------------------------------------------------
(* What is known of a run that makes a glossary: the rows found so far are *)
(* those of the episodes it has been through, matched in what their        *)
(* directories hold, and lie in the file but for those still unsaved; what *)
(* it wrote later is made of these.                                        *)
EarlyStages == {"prepare", "hear", "split", "match"}
LateStages  == {"extract", "normalize", "review", "summary", "done"}
CuesIn(ws, id) == H!Cues(ws[id].audio, ws[id].split)

RowsFound(ps, ws, rs, n) ==
    /\ \A k \in 1..n : \A l \in DOMAIN ps[k].lines :
          ps[k].lines[l].text # <<>> =>
              \E i \in 1..Len(rs) : rs[i].id = ps[k].id /\ rs[i].line = ps[k].lines[l]
    /\ \A i, j \in 1..Len(rs) : i # j => rs[i].id # rs[j].id \/ rs[i].line # rs[j].line
    /\ \A i \in 1..Len(rs) : /\ \E k \in 1..n : ps[k].id = rs[i].id
                             /\ Unsurpassed(CuesIn(ws, rs[i].id), rs[i])

NoSentence(entries) == \A e \in entries : ~H!SentenceLike(e.source) /\ ~H!SentenceLike(e.target)
Filled(entries) == \A e \in entries : e.source # <<>> /\ e.target # <<>>
Summed(ps, rs, c, s) ==
    /\ s.matched = Len(rs) /\ s.terms = H!Cardinality(c) /\ s.normalized = (c # {})
    /\ \A k \in DOMAIN ps, level \in {"high", "medium", "low"} :
          s.episodes[k][level] = H!Cardinality({i \in DOMAIN rs : rs[i].id = ps[k].id /\ rs[i].level = level})

HistoryTypes == PairsOK(pairs) /\ OptionOK /\ number \in Nat /\ works \in [Ids -> Work]
                /\ stageOfHistory \in {"idle", "lost", "append"} \cup EarlyStages \cup LateStages
FileOK == /\ found \in Seq(HistoryRow) /\ unsaved \in Seq(HistoryRow) /\ matches \in Seq(HistoryRow)
          /\ found = matches \o unsaved
MatchedOK ==
    /\ stageOfHistory \in EarlyStages =>
          number \in 1..Len(pairs) /\ unsaved = <<>> /\ RowsFound(pairs, works, found, number - 1)
    /\ stageOfHistory = "append" => number \in 1..Len(pairs) /\ RowsFound(pairs, works, found, number)
    /\ stageOfHistory \in LateStages => unsaved = <<>> /\ RowsFound(pairs, works, found, Len(pairs))
TermsOK == /\ Filled(canonical)
           /\ ~option.llm => TermsIn(canonical, found, option.often)
           /\ option.llm  => NoSentence(canonical)
HIInv ==
    /\ HistoryTypes
    /\ stageOfHistory \notin {"idle", "lost"} => FileOK
    /\ MatchedOK
    /\ stageOfHistory \in {"normalize", "review", "summary", "done"} => TermsOK
    /\ stageOfHistory \in {"review", "summary", "done"} => (canonical # {} => normalized = canonical)
    /\ stageOfHistory \in {"summary", "done"} => Reviewed(found, review)
    /\ stageOfHistory = "done" => Summed(pairs, found, canonical, noted)

LEMMA HistoryStarts == H!Init => HIInv
<1> SUFFICES ASSUME H!Init PROVE HIInv
  OBVIOUS
<1>1. /\ pairs = <<>> /\ option \in HistoryOptions /\ number = 0 /\ stageOfHistory = "idle"
      /\ works = [id \in Ids |-> H!NoWork]
  BY DEF H!Init, Ids
<1>2. PairsOK(pairs)
  <2>1. pairs \in Seq(Pair) /\ Len(pairs) = 0
    BY <1>1
  <2> QED BY <2>1 DEF PairsOK
<1>3. OptionOK
  BY <1>1, HAssumption DEF H!HistoryAssumption, OptionOK
<1>4. works \in [Ids -> Work]
  <2>1. H!NoWork \in Work
    <3>1. <<>> \in Seq(Recorded) /\ {} \in SUBSET Nat
      OBVIOUS
    <3> QED BY <3>1 DEF H!NoWork, Work
  <2> QED BY <1>1, <2>1
<1>5. HistoryTypes
  BY <1>1, <1>2, <1>3, <1>4 DEF HistoryTypes
<1>6. MatchedOK
  BY <1>1 DEF MatchedOK, EarlyStages, LateStages
<1> QED BY <1>1, <1>5, <1>6 DEF HIInv

LEMMA HistoryBegins ==
    ASSUME HIInv, NEW dir \in Directories, NEW o \in HistoryOptions, H!Start(dir, o)
    PROVE  HIInv'
<1>1. /\ pairs' \in H!Pairs(dir) /\ option' = o /\ number' = 1 /\ found' = <<>> /\ unsaved' = <<>>
      /\ works' = works
      /\ \/ pairs' = <<>> /\ stageOfHistory' = "lost"
         \/ pairs' # <<>> /\ stageOfHistory' = "prepare" /\ matches' = <<>>
  BY DEF H!Start, H!FreshRows
<1>2. works \in [Ids -> Work]
  BY DEF HIInv, HistoryTypes
<1>3. PairsOK(pairs')
  <2>1. \A p \in H!Pairs(dir) : PairsOK(p)
    BY <1>2, PairsAre
  <2> QED BY <1>1, <2>1
<1>4. OptionOK'
  BY <1>1, HAssumption DEF H!HistoryAssumption, OptionOK
<1>5. HistoryTypes'
  <2>1. stageOfHistory' \in {"idle", "lost", "append"} \cup EarlyStages \cup LateStages
    BY <1>1 DEF EarlyStages
  <2> QED BY <1>1, <1>2, <1>3, <1>4, <2>1 DEF HistoryTypes, PairsOK
<1>6. CASE pairs' = <<>>
  <2>1. MatchedOK'
    BY <1>1, <1>6 DEF MatchedOK, EarlyStages, LateStages
  <2> QED BY <1>1, <1>5, <1>6, <2>1 DEF HIInv
<1>7. CASE pairs' # <<>>
  <2>1. stageOfHistory' = "prepare" /\ matches' = <<>>
    BY <1>1, <1>7
  <2>2. FileOK'
    <3>1. <<>> \in Seq(HistoryRow) /\ <<>> = <<>> \o <<>>
      OBVIOUS
    <3> QED BY <1>1, <2>1, <3>1 DEF FileOK
  <2>3. number' \in 1..Len(pairs')
    <3>1. pairs' \in Seq(Pair) /\ Len(pairs') \in Nat /\ Len(pairs') # 0
      BY <1>3, <1>7, EmptySeq DEF PairsOK
    <3> QED BY <1>1, <3>1
  <2>4. RowsFound(pairs', works', found', number' - 1)
    <3>1. Len(found') = 0 /\ number' - 1 = 0
      BY <1>1
    <3> QED BY <3>1 DEF RowsFound
  <2>5. MatchedOK'
    BY <1>1, <2>1, <2>3, <2>4 DEF MatchedOK, EarlyStages, LateStages
  <2> QED BY <1>5, <2>1, <2>2, <2>5 DEF HIInv
<1> QED BY <1>6, <1>7

(* Work on an episode leaves those it has been through as they were.       *)
LEMMA WorkKeeps ==
    ASSUME HIInv, NEW stage \in EarlyStages, NEW next \in EarlyStages, NEW work \in Work,
           stageOfHistory = stage, stageOfHistory' = next,
           works' = [works EXCEPT ![pairs[number].id] = work],
           UNCHANGED <<pairs, option, number, found, unsaved, matches>>
    PROVE  HIInv'
<1> DEFINE id == pairs[number].id
<1>1. /\ HistoryTypes /\ FileOK /\ number \in 1..Len(pairs) /\ unsaved = <<>>
      /\ RowsFound(pairs, works, found, number - 1)
  BY DEF HIInv, MatchedOK, EarlyStages
<1>2. PairsOK(pairs) /\ works \in [Ids -> Work] /\ number \in Nat /\ id \in Ids
  BY <1>1 DEF HistoryTypes, PairsOK
<1>3. works' \in [Ids -> Work] /\ \A r \in Ids : r # id => works'[r] = works[r]
  BY <1>2
<1>4. RowsFound(pairs, works', found, number - 1)
  <2>1. ASSUME NEW i \in 1..Len(found) PROVE Unsurpassed(CuesIn(works', found[i].id), found[i])
    <3>1. PICK k \in 1..(number - 1) : pairs[k].id = found[i].id
      BY <1>1 DEF RowsFound
    <3>2. k \in 1..Len(pairs) /\ k # number
      BY <1>1, <1>2 DEF PairsOK
    <3>3. found[i].id # id /\ found[i].id \in Ids
      BY <1>1, <1>2, <3>1, <3>2 DEF PairsOK
    <3>4. CuesIn(works', found[i].id) = CuesIn(works, found[i].id)
      BY <1>3, <3>3 DEF CuesIn
    <3> QED BY <1>1, <3>4 DEF RowsFound
  <2> HIDE DEF id
  <2> QED BY <1>1, <2>1 DEF RowsFound
<1>5. HistoryTypes'
  <2>1. OptionOK'
    BY <1>1 DEF HistoryTypes, OptionOK
  <2> QED BY <1>1, <1>2, <1>3, <2>1 DEF HistoryTypes
<1>6. FileOK'
  BY <1>1 DEF FileOK
<1>7. MatchedOK'
  BY <1>1, <1>4 DEF MatchedOK, EarlyStages, LateStages
<1> QED BY <1>5, <1>6, <1>7 DEF HIInv, EarlyStages

LEMMA EpisodeWork ==
    ASSUME HIInv, stageOfHistory \in EarlyStages
    PROVE  /\ H!Episode = pairs[number] /\ pairs[number] \in Pair
           /\ pairs[number].id \in Ids /\ works[pairs[number].id] \in Work
<1>1. number \in 1..Len(pairs) /\ PairsOK(pairs) /\ works \in [Ids -> Work]
  BY DEF HIInv, MatchedOK, HistoryTypes
<1>2. pairs[number] \in Pair
  BY <1>1, ElementOfSeq DEF PairsOK
<1>3. pairs[number].id \in Ids
  BY <1>1 DEF PairsOK
<1> QED BY <1>1, <1>2, <1>3 DEF H!Episode

LEMMA HistoryPrepares == ASSUME HIInv, H!Prepare PROVE HIInv'
<1> DEFINE id == pairs[number].id
           audio == IF works[id].audio = <<>> THEN pairs[number].media ELSE works[id].audio
           work == [works[id] EXCEPT !.audio = audio]
<1>1. stageOfHistory = "prepare" /\ stageOfHistory' = "hear"
      /\ "prepare" \in EarlyStages /\ "hear" \in EarlyStages
      /\ UNCHANGED <<pairs, option, number, found, unsaved, matches>>
  BY DEF H!Prepare, H!run, EarlyStages
<1>2. H!Episode = pairs[number] /\ pairs[number] \in Pair /\ id \in Ids /\ works[id] \in Work
  BY <1>1, EpisodeWork
<1>3. works \in [Ids -> Work]
  BY DEF HIInv, HistoryTypes
<1>4. works' = [works EXCEPT ![id] = work]
  BY <1>2, <1>3 DEF H!Prepare
<1>5. work \in Work
  <2>1. audio \in Seq(Recorded)
    BY <1>2 DEF Pair, Work
  <2> HIDE DEF audio
  <2> QED BY <1>2, <2>1 DEF Work
<1> HIDE DEF work
<1> QED BY <1>1, <1>4, <1>5, WorkKeeps

LEMMA HistoryHears ==
    ASSUME HIInv, stageOfHistory = "hear", NEW segs \in SUBSET DOMAIN works[H!Episode.id].audio, H!Hear(segs)
    PROVE  HIInv'
<1> DEFINE id == pairs[number].id
           work == [works[id] EXCEPT !.heard = segs]
<1>1. stageOfHistory = "hear" /\ stageOfHistory' = "split"
      /\ "hear" \in EarlyStages /\ "split" \in EarlyStages
      /\ UNCHANGED <<pairs, option, number, found, unsaved, matches>>
  BY DEF H!Hear, H!run, EarlyStages
<1>2. H!Episode = pairs[number] /\ id \in Ids /\ works[id] \in Work
  BY <1>1, EpisodeWork
<1>3. works \in [Ids -> Work]
  BY DEF HIInv, HistoryTypes
<1>4. works' = [works EXCEPT ![id] = work]
  BY <1>2, <1>3 DEF H!Hear
<1>5. work \in Work
  <2>1. segs \in SUBSET Nat
    <3>1. works[id].audio \in Seq(Recorded)
      BY <1>2 DEF Work
    <3>2. DOMAIN works[id].audio \subseteq Nat
      BY <3>1
    <3> QED BY <1>2, <3>2
  <2> QED BY <1>2, <2>1 DEF Work
<1> HIDE DEF work
<1> QED BY <1>1, <1>4, <1>5, WorkKeeps

LEMMA HistorySplits == ASSUME HIInv, H!Split PROVE HIInv'
<1> DEFINE id == pairs[number].id
           kept == IF works[id].split = {} THEN works[id].heard ELSE works[id].split
           work == [works[id] EXCEPT !.split = kept]
<1>1. stageOfHistory = "split" /\ stageOfHistory' = "match"
      /\ "split" \in EarlyStages /\ "match" \in EarlyStages
      /\ UNCHANGED <<pairs, option, number, found, unsaved, matches>>
  BY DEF H!Split, H!run, EarlyStages
<1>2. H!Episode = pairs[number] /\ id \in Ids /\ works[id] \in Work
  BY <1>1, EpisodeWork
<1>3. works \in [Ids -> Work]
  BY DEF HIInv, HistoryTypes
<1>4. works' = [works EXCEPT ![id] = work]
  BY <1>2, <1>3 DEF H!Split
<1>5. work \in Work
  <2>1. kept \in SUBSET Nat
    BY <1>2 DEF Work
  <2> HIDE DEF kept
  <2> QED BY <1>2, <2>1 DEF Work
<1> HIDE DEF work
<1> QED BY <1>1, <1>4, <1>5, WorkKeeps
-----------------------------------------------------------------------------
LEMMA HistoryMatches == ASSUME HIInv, H!MatchLines PROVE HIInv'
<1> DEFINE p == pairs[number]
           work == works[p.id]
           us == H!RowsOf(p, work)
           n == Len(found)
<1>1. stageOfHistory = "match" /\ stageOfHistory' = "append" /\ "match" \in EarlyStages
      /\ UNCHANGED <<pairs, option, number, works, matches>>
  BY DEF H!MatchLines, EarlyStages
<1>2. H!Episode = p /\ p \in Pair /\ p.id \in Ids /\ work \in Work
  BY <1>1, EpisodeWork
<1>3. /\ HistoryTypes /\ FileOK /\ number \in 1..Len(pairs) /\ unsaved = <<>>
      /\ RowsFound(pairs, works, found, number - 1)
  BY <1>1 DEF HIInv, MatchedOK, EarlyStages
<1>4. unsaved' = us /\ found' = found \o us
  BY <1>2 DEF H!MatchLines
<1>5. OptionOK /\ PairsOK(pairs) /\ number \in Nat
  BY <1>3 DEF HistoryTypes
<1>6. EpisodeRows(us, p, CuesIn(works, p.id))
  BY <1>2, <1>5, RowsOfEpisode DEF CuesIn
<1> HIDE DEF us, n
<1>7. us \in Seq(HistoryRow) /\ found \in Seq(HistoryRow) /\ n \in Nat /\ Len(us) \in Nat
  BY <1>3, <1>6 DEF FileOK, EpisodeRows, n
<1>8. /\ found' \in Seq(HistoryRow) /\ Len(found') = n + Len(us)
      /\ \A i \in 1..(n + Len(us)) : found'[i] = IF i <= n THEN found[i] ELSE us[i - n]
  BY <1>4, <1>7, ConcatProperties DEF n
<1>9. FileOK'
  <2>1. found = matches
    BY <1>3, ConcatEmptySeq DEF FileOK
  <2> QED BY <1>1, <1>3, <1>4, <1>7, <1>8, <2>1 DEF FileOK
<1>10. \A i \in 1..n : i \in 1..Len(found') /\ found'[i] = found[i]
  BY <1>7, <1>8
<1>11. \A i \in 1..Len(us) : n + i \in 1..Len(found') /\ found'[n + i] = us[i]
  <2> SUFFICES ASSUME NEW i \in 1..Len(us) PROVE n + i \in 1..Len(found') /\ found'[n + i] = us[i]
    OBVIOUS
  <2>1. n + i \in 1..(n + Len(us)) /\ ~(n + i <= n) /\ (n + i) - n = i
    BY <1>7
  <2> QED BY <1>8, <2>1
<1>12. \A i \in 1..Len(found') : i \in 1..n \/ \E j \in 1..Len(us) : i = n + j
  <2> SUFFICES ASSUME NEW i \in 1..Len(found'), i \notin 1..n PROVE \E j \in 1..Len(us) : i = n + j
    OBVIOUS
  <2>1. i - n \in 1..Len(us) /\ i = n + (i - n)
    BY <1>7, <1>8
  <2> QED BY <2>1
<1>13. ASSUME NEW i \in 1..n PROVE \E k \in 1..(number - 1) : pairs[k].id = found[i].id
  BY <1>3 DEF RowsFound, n
<1>14. ASSUME NEW i \in 1..n PROVE found[i].id # p.id
  <2>1. PICK k \in 1..(number - 1) : pairs[k].id = found[i].id
    BY <1>13
  <2>2. k \in 1..Len(pairs) /\ k # number
    BY <1>3, <1>5 DEF PairsOK
  <2> QED BY <1>3, <1>5, <2>1, <2>2 DEF PairsOK
<1>15. ASSUME NEW k \in 1..number, NEW l \in DOMAIN pairs[k].lines, pairs[k].lines[l].text # <<>>
       PROVE  \E i \in 1..Len(found') : found'[i].id = pairs[k].id /\ found'[i].line = pairs[k].lines[l]
  <2>1. CASE k = number
    <3>1. PICK j \in 1..Len(us) : us[j].line = p.lines[l]
      BY <1>6, <1>15, <2>1 DEF EpisodeRows
    <3>2. us[j].id = p.id
      BY <1>6 DEF EpisodeRows
    <3> QED BY <1>11, <2>1, <3>1, <3>2
  <2>2. CASE k # number
    <3>1. k \in 1..(number - 1)
      BY <1>5, <2>2
    <3>2. PICK i \in 1..n : found[i].id = pairs[k].id /\ found[i].line = pairs[k].lines[l]
      BY <1>3, <1>15, <3>1 DEF RowsFound, n
    <3> QED BY <1>10, <3>2
  <2> QED BY <2>1, <2>2
<1>16. ASSUME NEW i \in 1..Len(found'), NEW j \in 1..Len(found'), i # j
       PROVE  found'[i].id # found'[j].id \/ found'[i].line # found'[j].line
  <2>1. CASE i \in 1..n /\ j \in 1..n
    <3>1. found[i].id # found[j].id \/ found[i].line # found[j].line
      BY <1>3, <1>16, <2>1 DEF RowsFound, n
    <3> QED BY <1>10, <2>1, <3>1
  <2>2. ASSUME NEW a \in 1..n, NEW b \in 1..Len(us) PROVE found'[a].id # found'[n + b].id
    <3>1. us[b].id = p.id
      BY <1>6 DEF EpisodeRows
    <3> QED BY <1>10, <1>11, <1>14, <3>1
  <2>3. ASSUME NEW a \in 1..Len(us), NEW b \in 1..Len(us), i = n + a, j = n + b
        PROVE  found'[i].line # found'[j].line
    <3>1. a # b
      BY <1>16, <2>3
    <3>2. us[a].line # us[b].line
      BY <1>6, <3>1 DEF EpisodeRows
    <3> QED BY <1>11, <2>3, <3>2
  <2> QED BY <1>12, <2>1, <2>2, <2>3
<1>17. ASSUME NEW i \in 1..Len(found')
       PROVE  /\ \E k \in 1..number : pairs[k].id = found'[i].id
              /\ Unsurpassed(CuesIn(works, found'[i].id), found'[i])
  <2>1. CASE i \in 1..n
    <3>1. PICK k \in 1..(number - 1) : pairs[k].id = found[i].id
      BY <1>13, <2>1
    <3>2. k \in 1..number
      BY <1>5
    <3>3. Unsurpassed(CuesIn(works, found[i].id), found[i])
      BY <1>3, <2>1 DEF RowsFound, n
    <3> QED BY <1>10, <2>1, <3>1, <3>2, <3>3
  <2>2. CASE \E j \in 1..Len(us) : i = n + j
    <3>1. PICK j \in 1..Len(us) : i = n + j
      BY <2>2
    <3>2. us[j].id = p.id /\ Unsurpassed(CuesIn(works, p.id), us[j])
      BY <1>6 DEF EpisodeRows
    <3>3. found'[i] = us[j] /\ number \in 1..number
      BY <1>3, <1>11, <3>1
    <3> QED BY <3>2, <3>3
  <2> QED BY <1>12, <2>1, <2>2
<1>18. RowsFound(pairs, works, found', number)
  BY <1>15, <1>16, <1>17 DEF RowsFound
<1>19. HistoryTypes'
  <2>1. OptionOK'
    BY <1>1, <1>5 DEF OptionOK
  <2> QED BY <1>1, <1>3, <2>1 DEF HistoryTypes
<1>20. MatchedOK'
  BY <1>1, <1>3, <1>18 DEF MatchedOK, EarlyStages, LateStages
<1> QED BY <1>1, <1>9, <1>19, <1>20 DEF HIInv

(* The first of the rows that are not in the file goes into it.            *)
LEMMA HeadMoves ==
    ASSUME NEW S, NEW s \in Seq(S), NEW t \in Seq(S), t # <<>>
    PROVE  /\ Append(s, Head(t)) \in Seq(S) /\ Tail(t) \in Seq(S)
           /\ Append(s, Head(t)) \o Tail(t) = s \o t
<1>1. Head(t) \in S /\ Tail(t) \in Seq(S) /\ <<Head(t)>> \in Seq(S)
  BY HeadTailProperties
<1>2. Append(s, Head(t)) = s \o <<Head(t)>> /\ Append(s, Head(t)) \in Seq(S)
  BY <1>1, AppendIsConcat, AppendProperties
<1>3. <<Head(t)>> \o Tail(t) = t
  BY <1>1
<1>4. (s \o <<Head(t)>>) \o Tail(t) = s \o (<<Head(t)>> \o Tail(t))
  BY <1>1, ConcatAssociative
<1> QED BY <1>1, <1>2, <1>3, <1>4

LEMMA HistoryAppends == ASSUME HIInv, H!AppendRow PROVE HIInv'
<1>1. /\ stageOfHistory = "append" /\ stageOfHistory' = "append" /\ unsaved # <<>>
      /\ matches' = Append(matches, Head(unsaved)) /\ unsaved' = Tail(unsaved)
      /\ UNCHANGED <<pairs, option, number, found, works>>
  BY DEF H!AppendRow
<1>2. HistoryTypes /\ FileOK /\ MatchedOK
  BY <1>1 DEF HIInv
<1>3. FileOK'
  <2>1. matches \in Seq(HistoryRow) /\ unsaved \in Seq(HistoryRow)
    BY <1>2 DEF FileOK
  <2>2. matches' \in Seq(HistoryRow) /\ unsaved' \in Seq(HistoryRow) /\ matches' \o unsaved' = matches \o unsaved
    BY <1>1, <2>1, HeadMoves
  <2> QED BY <1>1, <1>2, <2>2 DEF FileOK
<1>4. HistoryTypes'
  BY <1>1, <1>2 DEF HistoryTypes, OptionOK
<1>5. MatchedOK'
  BY <1>1, <1>2 DEF MatchedOK, EarlyStages, LateStages
<1> QED BY <1>1, <1>3, <1>4, <1>5 DEF HIInv

LEMMA HistoryGoesOn == ASSUME HIInv, H!NextEpisode PROVE HIInv'
<1>1. /\ stageOfHistory = "append" /\ unsaved = <<>> /\ number' = number + 1
      /\ stageOfHistory' = (IF number < Len(pairs) THEN "prepare" ELSE "extract")
      /\ UNCHANGED <<pairs, option, found, unsaved, works, matches>>
  BY DEF H!NextEpisode
<1>2. HistoryTypes /\ FileOK /\ number \in 1..Len(pairs) /\ RowsFound(pairs, works, found, number)
  BY <1>1 DEF HIInv, MatchedOK
<1>3. number \in Nat /\ Len(pairs) \in Nat /\ PairsOK(pairs)
  BY <1>2 DEF HistoryTypes, PairsOK
<1>4. FileOK'
  BY <1>1, <1>2 DEF FileOK
<1>5. HistoryTypes'
  <2>1. stageOfHistory' \in EarlyStages \cup LateStages
    BY <1>1 DEF EarlyStages, LateStages
  <2>2. OptionOK'
    BY <1>1, <1>2 DEF OptionOK, HistoryTypes
  <2> QED BY <1>1, <1>2, <1>3, <2>1, <2>2 DEF HistoryTypes
<1>6. MatchedOK'
  <2>1. CASE number < Len(pairs)
    <3>1. stageOfHistory' = "prepare" /\ number' \in 1..Len(pairs) /\ number' - 1 = number
      BY <1>1, <1>3, <2>1
    <3> QED BY <1>1, <1>2, <3>1 DEF MatchedOK, EarlyStages, LateStages
  <2>2. CASE ~(number < Len(pairs))
    <3>1. stageOfHistory' = "extract" /\ number = Len(pairs)
      BY <1>1, <1>2, <1>3, <2>2
    <3> QED BY <1>1, <1>2, <3>1 DEF MatchedOK, EarlyStages, LateStages
  <2> QED BY <2>1, <2>2
<1>7. stageOfHistory' \in {"prepare", "extract"}
  BY <1>1
<1> QED BY <1>4, <1>5, <1>6, <1>7 DEF HIInv

(* The later stages leave what was found as it is.                         *)
LEMMA LateKeeps ==
    ASSUME HIInv, stageOfHistory \in LateStages, stageOfHistory' \in LateStages,
           UNCHANGED <<pairs, option, number, found, unsaved, works, matches>>
    PROVE  HistoryTypes' /\ FileOK' /\ MatchedOK'
<1>1. HistoryTypes /\ FileOK /\ unsaved = <<>> /\ RowsFound(pairs, works, found, Len(pairs))
  BY DEF HIInv, MatchedOK, LateStages
<1>2. HistoryTypes'
  BY <1>1 DEF HistoryTypes, OptionOK
<1>3. FileOK'
  BY <1>1 DEF FileOK
<1>4. MatchedOK'
  BY <1>1 DEF MatchedOK, EarlyStages, LateStages
<1> QED BY <1>2, <1>3, <1>4

LEMMA SheetIsWhole == ASSUME NEW entries PROVE Filled(H!Sheet(entries)) /\ H!Sheet(entries) \subseteq entries
BY DEF Filled, H!Sheet

LEMMA ModelSaysNoSentence == ASSUME NEW answer PROVE NoSentence(H!FromModel(answer))
<1> SUFFICES ASSUME NEW e \in H!FromModel(answer) PROVE ~H!SentenceLike(e.source) /\ ~H!SentenceLike(e.target)
  BY DEF NoSentence
<1>1. H!Allowed(e)
  BY DEF H!FromModel
<1>2. \A text \in {e.source, e.target} : ~H!SentenceLike(text)
  BY <1>1, Zenon DEF H!Allowed
<1> QED BY <1>2

LEMMA HistoryExtracts == ASSUME HIInv, H!Extract PROVE HIInv'
<1>1. /\ stageOfHistory = "extract" /\ stageOfHistory' = "normalize"
      /\ UNCHANGED <<pairs, option, number, found, unsaved, works, matches>>
  BY DEF H!Extract, H!run
<1>2. OptionOK /\ FileOK
  BY <1>1 DEF HIInv, HistoryTypes
<1>3. HistoryTypes' /\ FileOK' /\ MatchedOK'
  BY <1>1, LateKeeps DEF LateStages
<1>4. CASE ~option.llm
  <2>1. canonical' = H!Sheet(H!Terms(found))
    BY <1>4 DEF H!Extract
  <2>2. found \in Seq(HistoryRow)
    BY <1>2 DEF FileOK
  <2>3. TermsIn(canonical', found, option.often)
    BY <1>2, <2>1, <2>2, TermsSeen
  <2>4. Filled(canonical')
    BY <2>1, SheetIsWhole
  <2>5. TermsOK'
    BY <1>1, <1>4, <2>3, <2>4 DEF TermsOK
  <2> QED BY <1>1, <1>3, <2>5 DEF HIInv
<1>5. CASE option.llm
  <2>1. canonical' = {} \/ \E answer : canonical' = H!Sheet(H!FromModel(answer))
    BY <1>5 DEF H!Extract
  <2>2. Filled(canonical') /\ NoSentence(canonical')
    <3>1. CASE canonical' = {}
      BY <3>1 DEF Filled, NoSentence
    <3>2. CASE \E answer : canonical' = H!Sheet(H!FromModel(answer))
      <4>1. PICK answer : canonical' = H!Sheet(H!FromModel(answer))
        BY <3>2
      <4>2. NoSentence(H!FromModel(answer)) /\ canonical' \subseteq H!FromModel(answer) /\ Filled(canonical')
        BY <4>1, SheetIsWhole, ModelSaysNoSentence
      <4> QED BY <4>2 DEF NoSentence
    <3> QED BY <2>1, <3>1, <3>2
  <2>3. TermsOK'
    BY <1>1, <1>5, <2>2 DEF TermsOK
  <2> QED BY <1>1, <1>3, <2>3 DEF HIInv
<1> QED BY <1>4, <1>5

LEMMA HistoryNormalizes == ASSUME HIInv, H!Normalize PROVE HIInv'
<1>1. /\ stageOfHistory = "normalize" /\ stageOfHistory' = "review" /\ canonical' = canonical
      /\ normalized' = IF canonical # {} THEN H!Sheet(canonical) ELSE normalized
      /\ UNCHANGED <<pairs, option, number, found, unsaved, works, matches>>
  BY DEF H!Normalize, H!run
<1>2. TermsOK
  BY <1>1 DEF HIInv
<1>3. HistoryTypes' /\ FileOK' /\ MatchedOK'
  BY <1>1, LateKeeps DEF LateStages
<1>4. H!Sheet(canonical) = canonical
  BY <1>2 DEF TermsOK, Filled, H!Sheet
<1>5. canonical' # {} => normalized' = canonical'
  BY <1>1, <1>4
<1>6. TermsOK'
  BY <1>1, <1>2 DEF TermsOK
<1> QED BY <1>1, <1>3, <1>5, <1>6 DEF HIInv

LEMMA HistoryExports == ASSUME HIInv, H!ExportReview PROVE HIInv'
<1>1. /\ stageOfHistory = "review" /\ stageOfHistory' = "summary" /\ review' = ReviewOf
      /\ UNCHANGED <<pairs, option, number, found, unsaved, works, matches, canonical, normalized>>
  BY DEF H!ExportReview, H!run, ReviewOf
<1>2. TermsOK /\ FileOK /\ (canonical # {} => normalized = canonical)
  BY <1>1 DEF HIInv
<1>3. HistoryTypes' /\ FileOK' /\ MatchedOK'
  BY <1>1, LateKeeps DEF LateStages
<1>4. Reviewed(found', review')
  <2>1. Reviewed(found, review')
    BY <1>1, <1>2, ReviewIs DEF FileOK
  <2> QED BY <1>1, <2>1
<1>5. TermsOK'
  BY <1>1, <1>2 DEF TermsOK
<1> QED BY <1>1, <1>2, <1>3, <1>4, <1>5 DEF HIInv

LEMMA SummaryIs == ASSUME NEW s, s = H!Summary PROVE Summed(pairs, found, canonical, s)
<1>1. s.matched = Len(found) /\ s.terms = H!Cardinality(canonical)
  BY DEF H!Summary
<1>2. s.normalized = (canonical # {})
  BY Zenon DEF H!Summary
<1>3. s.episodes = [k \in DOMAIN pairs |-> [level \in {"high", "medium", "low"} |-> H!OfEpisode(pairs[k].id, level)]]
  BY DEF H!Summary
<1>4. \A id, level : H!OfEpisode(id, level) = H!Cardinality({i \in DOMAIN found : found[i].id = id /\ found[i].level = level})
  BY DEF H!OfEpisode
<1>5. \A k \in DOMAIN pairs, level \in {"high", "medium", "low"} : s.episodes[k][level] = H!OfEpisode(pairs[k].id, level)
  BY <1>3
<1>6. \A k \in DOMAIN pairs, level \in {"high", "medium", "low"} :
         s.episodes[k][level]
             = H!Cardinality({i \in DOMAIN found : found[i].id = pairs[k].id /\ found[i].level = level})
  BY <1>4, <1>5, Zenon
<1> QED BY <1>1, <1>2, <1>6, Zenon DEF Summed

LEMMA HistorySums == ASSUME HIInv, H!Summarize PROVE HIInv'
<1>1. /\ stageOfHistory = "summary" /\ stageOfHistory' = "done" /\ noted' = H!Summary
      /\ UNCHANGED <<pairs, option, number, found, unsaved, works, matches, canonical, normalized, review>>
  BY DEF H!Summarize, H!run
<1>2. TermsOK /\ (canonical # {} => normalized = canonical) /\ Reviewed(found, review)
  BY <1>1 DEF HIInv
<1>3. HistoryTypes' /\ FileOK' /\ MatchedOK'
  BY <1>1, LateKeeps DEF LateStages
<1>4. Summed(pairs', found', canonical', noted')
  <2>1. Summed(pairs, found, canonical, noted')
    BY <1>1, SummaryIs
  <2> QED BY <1>1, <2>1
<1>5. TermsOK'
  BY <1>1, <1>2 DEF TermsOK
<1> QED BY <1>1, <1>2, <1>3, <1>4, <1>5 DEF HIInv

LEMMA HistoryLost == ASSUME HIInv, H!Lose PROVE HIInv'
<1>1. stageOfHistory' = "lost" /\ UNCHANGED <<pairs, option, number, works>>
  BY DEF H!Lose, H!run
<1>2. HistoryTypes'
  BY <1>1 DEF HIInv, HistoryTypes, OptionOK
<1> QED BY <1>1, <1>2 DEF HIInv, MatchedOK, EarlyStages, LateStages

LEMMA HistoryRests == ASSUME HIInv, UNCHANGED H!vars PROVE HIInv'
<1>1. UNCHANGED <<pairs, option, number, works, found, unsaved, matches, canonical, normalized, review, noted,
                  stageOfHistory>>
  BY DEF H!vars, H!run, H!files
<1>2. HistoryTypes' /\ (FileOK' <=> FileOK) /\ (MatchedOK' <=> MatchedOK) /\ (TermsOK' <=> TermsOK)
  BY <1>1 DEF HIInv, HistoryTypes, OptionOK, FileOK, MatchedOK, TermsOK
<1> QED BY <1>1, <1>2 DEF HIInv

LEMMA HistoryStep == HIInv /\ [H!Next]_(H!vars) => HIInv'
<1> SUFFICES ASSUME HIInv, H!Next PROVE HIInv'
  BY HistoryRests
<1>1. CASE \E dir \in Directories, o \in HistoryOptions : H!Start(dir, o)
  BY <1>1, HistoryBegins
<1>2. CASE stageOfHistory = "hear" /\ \E segs \in SUBSET DOMAIN works[H!Episode.id].audio : H!Hear(segs)
  BY <1>2, HistoryHears
<1> QED BY <1>1, <1>2, HistoryPrepares, HistorySplits, HistoryMatches, HistoryAppends, HistoryGoesOn,
           HistoryExtracts, HistoryNormalizes, HistoryExports, HistorySums, HistoryLost DEF H!Next

LEMMA HistoryHolds == HIInv => HistoryIsTrue
<1> SUFFICES ASSUME HIInv, stageOfHistory = "done" PROVE H!HistoryIsTrue
  BY DEF HistoryIsTrue, H!HistoryIsTrue
<1>1. /\ HistoryTypes /\ FileOK /\ unsaved = <<>> /\ RowsFound(pairs, works, found, Len(pairs)) /\ TermsOK
      /\ (canonical # {} => normalized = canonical) /\ Reviewed(found, review)
      /\ Summed(pairs, found, canonical, noted)
  BY DEF HIInv, MatchedOK, LateStages
<1>2. matches = found /\ found \in Seq(HistoryRow)
  BY <1>1, ConcatEmptySeq DEF FileOK
<1>3. DOMAIN found = 1..Len(found) /\ Len(found) \in Nat
  BY <1>2
<1>4. DOMAIN pairs = 1..Len(pairs) /\ Len(pairs) \in Nat
  <2>1. pairs \in Seq(Pair)
    BY <1>1 DEF HistoryTypes, PairsOK
  <2> QED BY <2>1
<1>5. H!EachLineOnce
  <2>1. RowsFound(pairs, works, matches, Len(pairs)) /\ DOMAIN matches = 1..Len(matches)
    BY <1>1, <1>2, <1>3
  <2>2. \A k \in DOMAIN pairs : \A n \in DOMAIN pairs[k].lines :
           pairs[k].lines[n].text # <<>> =>
               \E i \in DOMAIN matches : matches[i].id = pairs[k].id /\ matches[i].line = pairs[k].lines[n]
    BY <1>4, <2>1 DEF RowsFound
  <2>3. \A i, j \in DOMAIN matches :
           i # j => matches[i].id # matches[j].id \/ matches[i].line # matches[j].line
    BY <2>1 DEF RowsFound
  <2>4. \A i \in DOMAIN matches : \E k \in DOMAIN pairs : pairs[k].id = matches[i].id
    BY <1>4, <2>1 DEF RowsFound
  <2> QED BY <2>2, <2>3, <2>4 DEF H!EachLineOnce
<1>6. H!NothingBetter
  BY <1>1, <1>2, <1>3 DEF RowsFound, H!NothingBetter, Unsurpassed, CuesIn
<1>7. ~option.llm => H!TermsAreSeen
  <2> SUFFICES ASSUME ~option.llm PROVE H!TermsAreSeen
    OBVIOUS
  <2>1. TermsIn(canonical, matches, option.often)
    BY <1>1, <1>2 DEF TermsOK
  <2>2. \A s, t : H!Seen(s, t) = SeenIn(matches, s, t)
    BY Zenon DEF H!Seen, SeenIn, Said, Meant
  <2>3. \A s, t : H!Cardinality(H!Seen(s, t)) = Cardinality(SeenIn(matches, s, t))
    BY <2>2, CardIs
  <2> QED BY <2>1, <2>2, <2>3 DEF TermsIn, H!TermsAreSeen, Said, Meant
<1>8. option.llm => \A e \in canonical : ~H!SentenceLike(e.source) /\ ~H!SentenceLike(e.target)
  BY <1>1 DEF TermsOK, NoSentence
<1>9. /\ \A i \in DOMAIN matches : matches[i].level = "high" \/ \E k \in DOMAIN review : review[k] = matches[i]
      /\ \A k \in DOMAIN review : review[k].level # "high" /\ \A j \in 1..k : ~H!Earlier(review[k], review[j])
  BY <1>1, <1>2 DEF Reviewed
<1>10. /\ noted.matched = Len(matches) /\ noted.terms = H!Cardinality(canonical)
       /\ noted.normalized = (canonical # {})
       /\ \A k \in DOMAIN pairs, level \in {"high", "medium", "low"} :
             noted.episodes[k][level]
                 = H!Cardinality({i \in DOMAIN matches : matches[i].id = pairs[k].id /\ matches[i].level = level})
  <2>1. Summed(pairs, matches, canonical, noted)
    BY <1>1, <1>2
  <2> QED BY <2>1, Zenon DEF Summed
<1> QED BY <1>1, <1>5, <1>6, <1>7, <1>8, <1>9, <1>10 DEF H!HistoryIsTrue

(* HistoryGlossary (history_glossary.py): whatever the directories hold,   *)
(* wherever a run breaks off, a history run that ends well leaves rows,    *)
(* terms, review and summary that agree with each other and with what it   *)
(* found, and nothing of a run before.                                     *)
THEOREM HistoryIsTrueAlways == HistorySpec => []HistoryIsTrue
<1>1. H!Init => HIInv
  BY HistoryStarts
<1>2. HIInv /\ [H!Next]_(H!vars) => HIInv'
  BY HistoryStep
<1>3. HIInv => HistoryIsTrue
  BY HistoryHolds
<1> QED BY <1>1, <1>2, <1>3, PTL DEF HistorySpec
==============================================================================
