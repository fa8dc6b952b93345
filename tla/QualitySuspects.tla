---------------------------- MODULE QualitySuspects ----------------------------
(***************************************************************************)
(* The suspects of quality reports are put into the translation            *)
(* (quality_suspects.py, and pipeline_runner.py after the translation):    *)
(* each row of a report, or issue of a comparison of two reports, finds    *)
(* the line it speaks of by a key or by time and is merged into its marks. *)
(* All is written at once when every report has been read, the count of    *)
(* what was applied after that; the command may be killed, or meet a       *)
(* report that is none, and is then run again.                             *)
(***************************************************************************)
EXTENDS SuspectMarks, Integers

CONSTANTS Lines,        \* the lines of the translation, 1..n
          Placements,   \* the times they may have: [Lines -> [start, end]]
          Reports,      \* what the reports may say together: sets of rows
          MaxDistance   \* quality_suspect_max_distance_ms

VARIABLES times,    \* the lines' times
          rows,     \* the rows of the reports that are given
          line,     \* the lines' marks in translated_segments.json
          count,    \* applied_count of the report that is written
          mem,      \* the marks and the count as the command has them
          read,     \* the rows it has read
          phase     \* "reading", "written", "reported", "lost"

vars == <<times, rows, line, count, mem, read, phase>>

Clean == [l \in Lines |-> [types |-> {}, audio |-> FALSE, realign |-> FALSE]]
Init == /\ times \in Placements /\ rows \in Reports
        /\ line = Clean /\ count = 0
        /\ mem = [line |-> line, count |-> 0]
        /\ read = {} /\ phase = "reading"
-----------------------------------------------------------------------------
(* What a row is about: short dialogue that is missing or shifted, a low   *)
(* score; for a comparison, a line that got worse from stage to stage.     *)
Diagnosed(row) == (IF "missing" \in row.diagnostics THEN {Heard} ELSE {})
                  \cup (IF "shifted" \in row.diagnostics THEN {Shifted} ELSE {})
QualityTypes(row) == Diagnosed(row) \cup (CASE row.level = "fail" -> {Fail}
                                            [] row.level = "low"  -> {Low}
                                            [] OTHER -> {})
DiffTypes(row) == Diagnosed(row) \cup IF row.level = "fail" THEN {Worse} ELSE {}
TypesOf(row) == IF row.compares THEN DiffTypes(row) ELSE QualityTypes(row)

(* A line has some duration for the search.  The distance of an instant    *)
(* within a line comes out negative.                                       *)
EndOf(l) == IF times[l].end > times[l].start THEN times[l].end ELSE times[l].start + 1
DistanceAfter(l, row) == times[l].start - row.end
Distance(l, row) ==
    LET first == IF EndOf(l) < row.end THEN EndOf(l) ELSE row.end
        last  == IF times[l].start > row.start THEN times[l].start ELSE row.start
    IN  CASE first > last -> 0
          [] first <= last /\ EndOf(l) <= row.start -> row.start - EndOf(l)
          [] OTHER -> times[l].start - row.end

Nearest(row) == CHOOSE l \in Lines : \A k \in Lines :
                    \/ Distance(l, row) < Distance(k, row)
                    \/ Distance(l, row) = Distance(k, row) /\ l <= k

(* The keys a row of one report may have: of the line its text was         *)
(* compared with, and of a line further off with a better likeness.        *)
PreferredKey(row) == IF row.other # 0 /\ "shifted" \in row.diagnostics
                     THEN row.other ELSE row.key
Keyed(row) == ~row.compares /\ PreferredKey(row) \in Lines
Further(row) == IF ~row.compares /\ "missing" \in row.diagnostics /\ row.better
                THEN {row.other} \cap Lines ELSE {}
Primary(row) == IF Keyed(row) THEN PreferredKey(row) ELSE Nearest(row)
First(row)   == IF Keyed(row) \/ Distance(Primary(row), row) <= MaxDistance THEN {Primary(row)} ELSE {}
Second(row)  == Further(row) \ {Primary(row)}
Matches(row) == First(row) \cup Second(row)
Applied(row) == (IF First(row) = {} THEN 0 ELSE 1) + (IF Second(row) = {} THEN 0 ELSE 1)
-----------------------------------------------------------------------------
(* apply_quality_suspects_to_translated for the rows of the reports, then  *)
(* apply_quality_diff_suspects_to_translated for those of the comparisons. *)
Apply(row) ==
    /\ phase = "reading" /\ row \in rows \ read
    /\ row.compares => \A r \in rows \ read : r.compares
    /\ read' = read \cup {row}
    /\ mem' = IF TypesOf(row) = {} THEN mem
              ELSE [line  |-> [l \in Lines |-> IF l \in Matches(row)
                                               THEN Merged(mem.line[l], TypesOf(row))
                                               ELSE mem.line[l]],
                    count |-> mem.count + Applied(row)]
    /\ UNCHANGED <<times, rows, line, count, phase>>

WriteLines ==
    /\ phase = "reading" /\ read = rows /\ phase' = "written"
    /\ line' = mem.line
    /\ UNCHANGED <<times, rows, count, mem, read>>

WriteCount ==
    /\ phase = "written" /\ phase' = "reported"
    /\ count' = mem.count
    /\ UNCHANGED <<times, rows, line, mem, read>>

(* A report that is not an object, or a kill. *)
Break ==
    /\ phase \in {"reading", "written"} /\ read # {} /\ phase' = "lost"
    /\ UNCHANGED <<times, rows, line, count, mem, read>>
Again ==
    /\ phase = "lost" /\ phase' = "reading"
    /\ mem' = [line |-> line, count |-> 0] /\ read' = {}
    /\ UNCHANGED <<times, rows, line, count>>

Next == \/ \E row \in rows : Apply(row)
        \/ WriteLines \/ WriteCount \/ Break \/ Again
Spec == Init /\ [][Next]_vars
-----------------------------------------------------------------------------
(* How far a line and a row are apart, said plainly. *)
Gap(l, row) == LET after  == times[l].start - row.end
                   before == row.start - EndOf(l)
               IN  IF after > 0 THEN after ELSE IF before > 0 THEN before ELSE 0
Close(row) == {l \in Lines : /\ Gap(l, row) <= MaxDistance
                             /\ \A k \in Lines : Gap(l, row) <= Gap(k, row)}
Homes(row) == IF Keyed(row) THEN {PreferredKey(row)} ELSE Close(row)

(* No suspect of a report is lost, and none is put elsewhere, however      *)
(* often the command breaks off: when it is through, each row that has a   *)
(* line by its key, or lines close enough, is noted at one of them (the    *)
(* nearest), which is then to be listened to, or to be aligned again if    *)
(* all that was noted concerns its timing; what a line is marked with a    *)
(* row says of it; and the count tells that there was something to mark.   *)
SuspectsFindTheirLine ==
    phase = "reported" =>
    /\ \A row \in rows : TypesOf(row) # {} /\ Homes(row) # {} =>
           /\ \E l \in Homes(row) : TypesOf(row) \subseteq line[l].types
           /\ count > 0
    /\ \A l \in Lines : line[l].types # {} =>
           IF RealignOnly(line[l].types) THEN line[l].realign ELSE line[l].audio
    /\ \A l \in Lines : \A t \in line[l].types :
           \E row \in rows : t \in TypesOf(row) /\ l \in Homes(row) \cup Further(row)
=============================================================================
