---------------------------- MODULE RecoveryTimes ----------------------------
(***************************************************************************)
(* The times that recovery gives to a failed segment                       *)
(* (qwen_asr/recovery_executor.py, recovery_service.py): exact tokens of   *)
(* Qwen or MFA, which have to pass guards; coarse bounds, which a user     *)
(* states or takes from the speech a VAD hears; and what an undo brings    *)
(* back.  Which process holds which list, and that coarse timing needs a   *)
(* verified text, is AlignRecovery; here one execution and one coarse      *)
(* acceptance may be under way at a time.                                  *)
(*                                                                         *)
(* Segments are padded, so that one overlaps the next.                     *)
(***************************************************************************)
EXTENDS Integers, Sequences, FiniteSets

CONSTANTS Bounds,       \* Bounds[g]: start and end of the g-th segment
          ShortOnes,    \* segments of at most four characters
          MaxOverlap,   \* max_neighbor_overlap_ms
          MaxRecoveries \* bound: rows written

Segs == DOMAIN Bounds

VARIABLES row,       \* aligned_segments.json: how a segment was timed, and its times
          undo,      \* the row in the backup that an undo would take, by segment
          heard,     \* the VAD proposal by segment: its regions
          exec,      \* the execution under way: its segment, strategy, and the rows it read
          offer,     \* the coarse acceptance under way: its segment, bounds, and the rows it saw
          reverted,  \* segments whose row in that backup stood beside other neighbours
          raced,     \* segments given times that were checked beside other neighbours
          written    \* rows written

vars == <<row, undo, heard, exec, offer, reverted, raced, written>>

Failed(g) == [how |-> "failed", from |-> Bounds[g][1], to |-> Bounds[g][2]]
NoRow  == [how |-> "none", from |-> 0, to |-> 0]
None   == [seg |-> 0]

Times  == 0..Bounds[Len(Bounds)][2]
Spans  == Times \X Times
-----------------------------------------------------------------------------
(* _exact_result_guard: tokens there are, each with a duration, their      *)
(* starts in order, none outside of the segment; their timing and text are *)
(* compared too.  All that is told apart here is when the first one starts *)
(* and the last one ends.                                                  *)
Inside(g, span) == span[1] >= Bounds[g][1] /\ span[2] <= Bounds[g][2] /\ span[2] > span[1]
Exact(g)        == {span \in Spans : Inside(g, span)}

(* _neighbor_guard, of MFA only.  The range of a neighbour that has tokens *)
(* is that of its segment.                                                 *)
RangeOf(rows, g) == IF rows[g].how = "coarse" THEN <<rows[g].from, rows[g].to>> ELSE Bounds[g]
Timed(rows, g)   == g \in Segs /\ rows[g].how # "failed"

NeighborGuardBefore(rows, g, span) == Timed(rows, g - 1) => span[1] >= RangeOf(rows, g - 1)[2]
NeighborGuard(rows, g, span) ==
    /\ Timed(rows, g - 1) => span[1] >= RangeOf(rows, g - 1)[2]
    /\ Timed(rows, g + 1) => span[2] <= RangeOf(rows, g + 1)[1]

(* The times of Qwen's tokens make no difference to what follows.          *)
Results(rows, g, how) ==
    IF how = "qwen" THEN {Bounds[g]}
    ELSE {s \in Exact(g) : NeighborGuard(rows, g, s)}

(* execute_alignment_recovery: the list is read, the model runs, and the   *)
(* list is written as it was read but for the segment.  A retry from the   *)
(* workbench is saved, so that it can be undone there; recover-align and   *)
(* the attempts of a CI run are not.                                       *)
Begin(g, how) ==
    /\ exec = None /\ row[g].how = "failed" /\ written < MaxRecoveries
    /\ exec' = [seg |-> g, how |-> how, rows |-> row]
    /\ UNCHANGED <<row, undo, heard, offer, reverted, raced, written>>

Reject == exec # None /\ exec' = None
          /\ UNCHANGED <<row, undo, heard, offer, reverted, raced, written>>

(* The neighbours of g have in rows what they have now. *)
Beside(g, rows) == \A h \in {g - 1, g + 1} \cap Segs : row[h] = rows[h]

Replace(g, rows, new) == row' = [rows EXCEPT ![g] = new] /\ written' = written + 1

Accept(saves) ==
    /\ exec # None /\ written < MaxRecoveries
    /\ LET g == exec.seg IN
       /\ \E s \in Results(exec.rows, g, exec.how) :
            Replace(g, exec.rows, [how |-> exec.how, from |-> s[1], to |-> s[2]])
       /\ IF saves
          THEN /\ undo' = [undo EXCEPT ![g] = row[g]]
               /\ reverted' = IF Beside(g, exec.rows) THEN reverted \ {g} ELSE reverted \cup {g}
          ELSE UNCHANGED <<undo, reverted>>
    /\ exec' = None
    /\ UNCHANGED <<heard, offer, raced>>
-----------------------------------------------------------------------------
(* localize_vad: regions are times from the start of the segment, cut at   *)
(* its ends; one without duration is left out.                             *)
AtMost(a, b)  == IF a < b THEN a ELSE b
AtLeast(a, b) == IF a > b THEN a ELSE b
Placed(g, region) == <<AtLeast(Bounds[g][1], Bounds[g][1] + region[1]),
                       AtMost(Bounds[g][2], Bounds[g][1] + region[2])>>
Regions(g, found) ==
    {span \in {Placed(g, region) : region \in found} : span[2] > span[1]}

Localize(g, found) ==
    /\ row[g].how = "failed" /\ Regions(g, found) # {}
    /\ heard' = [heard EXCEPT ![g] = Regions(g, found)]
    /\ UNCHANGED <<row, undo, exec, offer, reverted, raced, written>>

(* _coarse_proposal: bounds that are stated come first, as a CI run states *)
(* its own; then the only region, or the one whose index is stated.        *)
Chosen(g) == Spans \cup heard[g]

Length(span) == span[2] - span[1]
ShortGuard(g, span) == g \in ShortOnes => 5 * Length(span) < 4 * Length(Bounds[g])

(* Neighbours count as they are now, failed or not.                        *)
CoarseGuard(rows, g, span) ==
    /\ Inside(g, span)
    /\ ShortGuard(g, span)
    /\ g - 1 \in Segs => RangeOf(rows, g - 1)[2] - span[1] <= MaxOverlap
    /\ g + 1 \in Segs => span[2] - RangeOf(rows, g + 1)[1] <= MaxOverlap

Propose(g) ==
    /\ offer = None /\ row[g].how = "failed" /\ written < MaxRecoveries
    /\ \E span \in Chosen(g) : /\ CoarseGuard(row, g, span)
                               /\ offer' = [seg |-> g, span |-> span, rows |-> row]
    /\ UNCHANGED <<row, undo, heard, exec, reverted, raced, written>>

(* _apply_completed_coarse reads the list again, and writes its bounds     *)
(* whatever the segment and its neighbours have become.                    *)
Apply ==
    /\ offer # None /\ written < MaxRecoveries
    /\ LET g == offer.seg IN
       /\ Replace(g, row, [how |-> "coarse", from |-> offer.span[1], to |-> offer.span[2]])
       /\ undo' = [undo EXCEPT ![g] = row[g]]
       /\ reverted' = reverted \ {g}
       /\ raced' = IF row[g] = offer.rows[g] /\ Beside(g, offer.rows) THEN raced ELSE raced \cup {g}
    /\ offer' = None
    /\ UNCHANGED <<heard, exec>>

(* restore_alignment_backup: the row of that backup, no guard asked.       *)
Undo(g) ==
    /\ undo[g] # NoRow /\ written < MaxRecoveries
    /\ Replace(g, row, undo[g])
    /\ raced' = IF g \in reverted THEN raced \cup {g} ELSE raced
    /\ UNCHANGED <<undo, heard, exec, offer, reverted>>
-----------------------------------------------------------------------------
(* The align stage has left some segments failed.                          *)
Init == /\ row \in {[g \in Segs |-> IF g \in failed THEN Failed(g)
                       ELSE [how |-> "align", from |-> Bounds[g][1], to |-> Bounds[g][2]]] :
                      failed \in SUBSET Segs}
        /\ undo = [g \in Segs |-> NoRow]
        /\ heard = [g \in Segs |-> {}]
        /\ exec = None /\ offer = None /\ reverted = {} /\ raced = {} /\ written = 0

Strategies == {"qwen", "mfa-local"}
Found(g)   == {<<0, 0>>, <<0, 1>>, <<2, Length(Bounds[g]) + 1>>}  \* what the VAD finds

Next == \/ \E g \in Segs : \/ \E how \in Strategies : Begin(g, how)
                           \/ Propose(g) \/ Undo(g)
                           \/ Localize(g, Found(g))
        \/ Reject \/ Apply
        \/ \E saves \in BOOLEAN : Accept(saves)

Spec == Init /\ [][Next]_vars
-----------------------------------------------------------------------------
(* Between two neighbours that both were timed by MFA or coarsely there is *)
(* at most the overlap that is tolerated, after any sequence of            *)
(* recoveries and undos of both: each was checked against what the other   *)
(* was then, which may have been wider, narrower or failed.  Two ways by   *)
(* which times come beside neighbours they were not checked against are    *)
(* noted in raced (README, divergences): an offer accepted when the rows   *)
(* around it had changed; and the undo of an execution that overwrote a    *)
(* row accepted meanwhile and, writing its old list, changed a neighbour   *)
(* of it as well.                                                          *)
Guarded(g) == row[g].how \in {"mfa-local", "coarse"} /\ g \notin raced
RecoveredApart ==
    \A g \in Segs : g + 1 \in Segs /\ Guarded(g) /\ Guarded(g + 1) =>
        row[g].to - row[g + 1].from <= MaxOverlap
=============================================================================
