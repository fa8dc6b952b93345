------------------------ MODULE AlignRecoveryProofs ------------------------
(***************************************************************************)
(* Theorems about AlignRecovery, for any number of segments, processes,    *)
(* operations and crashes, about RecoveryTimes, for any segments, and      *)
(* about MfaExperiment, for any reports, manifests and answers.            *)
(***************************************************************************)
EXTENDS MCAlignRecovery, Integers, TLAPS

(* What a process at some step has been asked to do, and has in hand.       *)
Placed(x) ==
    /\ x.at \in Locked \cup {"check", "look", "unlink", "create", "reread", "save", "record"}
         => x.seg \in Segments
    /\ x.at \in {"look", "unlink", "create", "stamp", "read", "model", "unlock"}
         => x.task \in {"cli", "retry"}
    /\ x.at \in {"reread", "backup"} => x.task \in {"coarse", "undo"}
    /\ x.at \in {"reread", "backup", "manifest"} /\ x.task = "undo"
         => x.seen[x.seg].backup # 0
    /\ x.at = "manifest" => x.backup # 0

(* The backups it knows of are among the first n.                          *)
Known(x, n) == /\ Traceable(x.rows, n)
               /\ x.backup <= n
               /\ \A g \in Segments : x.seen[g].backup <= n

Good(x, n) == x \in Proc /\ Placed(x) /\ Known(x, n)

AllGood    == \A p \in Procs : Good(proc[p], Len(backups))
SavedKnown == \A g \in Segments : saved[g].backup <= Len(backups)

(* The lock file names the execution under way, if nobody has removed it.   *)
LockNamesIt == \A p \in Executing \ robbed : lock.by = p /\ lock.state \in {"bare", "owned"}

LockHasOwner == lock.state # "free" => lock.by \in Procs

IInv == /\ TypeOK /\ AllGood /\ SavedKnown /\ Reversible
        /\ LockHasOwner /\ LockNamesIt /\ ListIsFresh
-----------------------------------------------------------------------------
LEMMA IdleGood == \A n \in Nat : Good(Idle, n)
  BY DEF Good, Idle, Proc, Placed, Known, Traceable, NoRows, NoTasks, Locked, Ops, Steps,
         Rows, Row, Tasks, Task, Strategies

(* One process has moved.                                                  *)
LEMMA Moved ==
  ASSUME AllGood, TypeOK, Len(backups) \in Nat, Len(backups') \in Nat,
         Len(backups) <= Len(backups'),
         NEW p \in Procs, NEW x, Good(x, Len(backups')), Goto(p, x)
  PROVE  AllGood' /\ proc' \in [Procs -> Proc]
  <1>1. proc' \in [Procs -> Proc]  BY DEF Goto, Good, TypeOK
  <1>2. \A q \in Procs : q # p => Good(proc[q], Len(backups'))
    BY SMTT(30) DEF AllGood, Good, Known, Traceable, Proc, Rows, Row, Tasks, Task
  <1>3. \A q \in Procs : Good(proc'[q], Len(backups'))
    BY <1>2 DEF Goto, TypeOK
  <1> QED  BY <1>1, <1>3 DEF AllGood

(* Whatever an operation is followed by.                                   *)
LEMMA EndedGood ==
  ASSUME NEW p \in Procs, NEW n \in Nat, NEW good \in BOOLEAN,
         Good(proc[p], n), proc[p].seg \in Segments
  PROVE  Good(Ended(p, good), n)
  <1> DEFINE x == proc[p]
  <1> DEFINE Fresh == [x EXCEPT !.task = "none", !.rows = NoRows, !.seen = NoTasks,
                               !.backup = 0, !.clash = FALSE]
  <1> DEFINE Onto(task) == [x EXCEPT !.task = task, !.at = "check"]
  <1>1. Good(Idle, n)  BY IdleGood
  <1>2. \A task \in {"annotate", "coarse"} : Good(Onto(task), n)
    BY ZenonT(40) DEF Good, Proc, Placed, Known, Ops, Steps, Locked
  <1>3. \A to \in {"record", "coarse"} : Good([Fresh EXCEPT !.at = to], n)
    <2>1. /\ NoRows \in Rows /\ NoTasks \in Tasks /\ Traceable(NoRows, n)
          /\ \A g \in Segments : NoTasks[g].backup <= n
      BY DEF NoRows, NoTasks, Rows, Row, Tasks, Task, Traceable
    <2>2. \A to \in {"record", "coarse"} : [Fresh EXCEPT !.at = to] \in Proc
      BY <2>1, ZenonT(40) DEF Good, Proc, Ops, Steps
    <2>3. \A to \in {"record", "coarse"} :
             Placed([Fresh EXCEPT !.at = to]) /\ Known([Fresh EXCEPT !.at = to], n)
      BY <2>1 DEF Good, Proc, Placed, Known, Locked
    <2> QED  BY <2>2, <2>3 DEF Good
  <1> QED  BY <1>1, <1>2, <1>3 DEF Ended
-----------------------------------------------------------------------------
(* What each step leaves its process with.                                 *)
Moves(p) == \E x : Good(x, Len(backups')) /\ Goto(p, x)

LEMMA LensTyped == TypeOK => Len(backups) \in Nat /\ \A i \in 1..Len(backups) : backups[i] \in Rows
  BY DEF TypeOK

LEMMA BeginMoves ==
  ASSUME IInv, NEW p \in Procs
  PROVE  /\ \A g \in Segments, op \in Ops : Begin(p, op, g) => Moves(p)
         /\ BeginFlow(p) => Moves(p)
  <1> Len(backups) \in Nat  BY LensTyped DEF IInv
  <1>1. Good(Idle, Len(backups))  BY IdleGood
  <1>2. ASSUME NEW g \in Segments, NEW op \in Ops, Begin(p, op, g)  PROVE Moves(p)
    <2> DEFINE to == IF op = "cli" THEN "look" ELSE "check"
    <2> DEFINE y == [Idle EXCEPT !.op = op, !.task = op, !.seg = g, !.at = to]
    <2>1. y \in Proc  BY <1>1 DEF Good, Proc, Steps
    <2>2. Placed(y) /\ Known(y, Len(backups))
      BY <1>1 DEF Good, Placed, Known, Locked, Idle
    <2> QED  BY <1>2, <2>1, <2>2 DEF Begin, Moves, Good
  <1>3. ASSUME BeginFlow(p)  PROVE Moves(p)
    <2> DEFINE y == [Idle EXCEPT !.op = "flow", !.at = "clear"]
    <2>1. y \in Proc  BY <1>1, ZenonT(40) DEF Good, Proc, Steps, Ops
    <2>2. Placed(y) /\ Known(y, Len(backups))
      BY <1>1 DEF Good, Placed, Known, Locked, Idle
    <2> QED  BY <1>3, <2>1, <2>2 DEF BeginFlow, Moves, Good
  <1> QED  BY <1>2, <1>3

LEMMA CheckMoves ==
  ASSUME IInv, NEW p \in Procs, Check(p)
  PROVE  Moves(p)
  <1> Len(backups) \in Nat  BY LensTyped DEF IInv
  <1> DEFINE x == proc[p]
  <1>1. Good(x, Len(backups)) /\ x.seg \in Segments /\ x.at = "check"
    BY DEF IInv, AllGood, Good, Placed, Check, At
  <1>2. ASSUME NEW to \in {"look", "reread", "save"},
               to = "look" <=> x.task = "retry",
               to = "reread" <=> x.task \in {"coarse", "undo"},
               x.task = "undo" => MayUndo(x.seg)
        PROVE  Good([x EXCEPT !.seen = saved, !.at = to], Len(backups))
    <2>1. [x EXCEPT !.seen = saved, !.at = to] \in Proc
      BY <1>1 DEF Good, Proc, Steps, IInv, TypeOK
    <2>2. Known([x EXCEPT !.seen = saved, !.at = to], Len(backups))
      BY <1>1 DEF Good, Proc, Known, IInv, SavedKnown
    <2>3. Placed([x EXCEPT !.seen = saved, !.at = to])
      BY <1>1, <1>2 DEF Good, Proc, Placed, Locked, MayUndo
    <2> QED  BY <2>1, <2>2, <2>3 DEF Good
  <1>3. Good(Ended(p, FALSE), Len(backups))  BY <1>1, EndedGood
  <1> QED  BY <1>2, <1>3 DEF Check, Moves

LEMMA RefusedMoves ==
  ASSUME IInv, NEW p \in Procs, NEW result \in {"error", "refused"}, proc[p].seg \in Segments,
         Refused(p, result), backups' = backups
  PROVE  Moves(p)
  <1> Len(backups) \in Nat  BY LensTyped DEF IInv
  <1> DEFINE x == [proc[p] EXCEPT !.result = result]
  <1>1. Good(proc[p], Len(backups))  BY DEF IInv, AllGood
  <1>2. Good([x EXCEPT !.at = "record"], Len(backups))
    BY <1>1 DEF Good, Proc, Placed, Known, Steps, Locked
  <1> QED  BY <1>2, IdleGood DEF Refused, Moves

LEMMA ExecuteMoves ==
  ASSUME IInv, NEW p \in Procs, Execute(p)
  PROVE  Moves(p)
  <1> Len(backups) \in Nat  BY LensTyped DEF IInv
  <1> DEFINE x == proc[p]
  <1>1. Good(x, Len(backups))  BY DEF IInv, AllGood
  <1>2. CASE Look(p)
    <2>1. Good([x EXCEPT !.at = "unlink"], Len(backups))
      BY <1>1, <1>2 DEF Look, At, Good, Proc, Placed, Known, Steps, Locked
    <2> QED  BY <1>2, <2>1 DEF Look, Moves, Step
  <1>3. CASE Unlink(p)
    <2>1. Good([x EXCEPT !.at = "create"], Len(backups)) /\ x.seg \in Segments
      BY <1>1, <1>3 DEF Unlink, At, Good, Proc, Placed, Known, Steps, Locked
    <2> QED  BY <1>3, <2>1, RefusedMoves DEF Unlink, Moves, Step
  <1>4. CASE Create(p)
    <2>1. Good([x EXCEPT !.at = "stamp"], Len(backups)) /\ x.seg \in Segments
      BY <1>1, <1>4 DEF Create, At, Good, Proc, Placed, Known, Steps, Locked
    <2> QED  BY <1>4, <2>1, RefusedMoves DEF Create, Moves, Step
  <1>5. CASE Stamp(p)
    <2>1. Good([x EXCEPT !.at = "read"], Len(backups))
      BY <1>1, <1>5 DEF Stamp, At, Good, Proc, Placed, Known, Steps, Locked
    <2> QED  BY <1>5, <2>1 DEF Stamp, Moves, Step
  <1>6. CASE Read(p)
    <2> DEFINE y == [x EXCEPT !.at = "model", !.rows = disk.manifest, !.clash = FALSE]
    <2>1. y \in Proc  BY <1>1 DEF Good, Proc, Steps, IInv, TypeOK
    <2>2. Placed(y) /\ Known(y, Len(backups))
      BY <1>1, <1>6 DEF Read, At, Good, Proc, Placed, Known, Locked, IInv, Reversible
    <2>3. Good([x EXCEPT !.at = "unlock", !.result = "error"], Len(backups))
      BY <1>1, <1>6 DEF Read, At, Good, Proc, Placed, Known, Steps, Locked
    <2> QED  BY <1>6, <2>1, <2>2, <2>3 DEF Read, Moves, Good
  <1>7. CASE Reject(p)
    <2> DEFINE y == [x EXCEPT !.at = "unlock", !.result = "rejected", !.rows = NoRows]
    <2>1. y \in Proc  BY <1>1 DEF Good, Proc, Steps, NoRows, Rows, Row
    <2>2. Placed(y) /\ Known(y, Len(backups))
      BY <1>1, <1>7 DEF Reject, At, Good, Proc, Placed, Known, Locked, NoRows, Traceable
    <2> QED  BY <1>7, <2>1, <2>2 DEF Reject, Moves, Good
  <1>8. CASE Unlock(p)
    <2>1. Good([x EXCEPT !.at = "save"], Len(backups)) /\ x.seg \in Segments
      BY <1>1, <1>8 DEF Unlock, At, Good, Proc, Placed, Known, Steps, Locked
    <2>2. Good(Ended(p, TRUE), Len(backups))  BY <1>1, <2>1, EndedGood
    <2> QED  BY <1>8, <2>1, <2>2 DEF Unlock, Moves, Step
  <1> QED  BY <1>2, <1>3, <1>4, <1>5, <1>6, <1>7, <1>8 DEF Execute

LEMMA BackupMoves ==
  ASSUME IInv, NEW p \in Procs, Backup(p)
  PROVE  /\ Moves(p) /\ backups' \in Seq(Rows) /\ Len(backups') = Len(backups) + 1
         /\ \A i \in 1..Len(backups) : backups'[i] = backups[i]
         /\ backups'[Len(backups) + 1] = disk.manifest
  <1> DEFINE x == proc[p]
  <1>1. /\ backups' \in Seq(Rows) /\ Len(backups') = Len(backups) + 1
        /\ \A i \in 1..Len(backups) : backups'[i] = backups[i]
        /\ backups'[Len(backups) + 1] = disk.manifest
    BY DEF Backup, IInv, TypeOK
  <1> Len(backups) \in Nat  BY LensTyped DEF IInv
  <1>2. Good(x, Len(backups))  BY DEF IInv, AllGood
  <1> DEFINE y == [x EXCEPT !.at = "manifest", !.result = "exact", !.backup = BackupId]
  <1>3. y \in Proc
    <2>1. BackupId \in Nat /\ "manifest" \in Steps  BY DEF BackupId, Steps
    <2> QED  BY <1>2, <2>1 DEF Good, Proc
  <1>4. Placed(y)
    BY <1>2 DEF Backup, At, Good, Proc, Placed, Locked, BackupId
  <1>5. Known(y, Len(backups'))
    BY <1>1, <1>2 DEF Good, Proc, Known, Traceable, BackupId, Rows, Row, Tasks, Task
  <1> QED  BY <1>1, <1>3, <1>4, <1>5 DEF Backup, Moves, Good

(* The row that is written: of an undo, the one the backup holds.          *)
LEMMA NewRowGood ==
  ASSUME IInv, NEW p \in Procs, At(p, "manifest")
  PROVE  /\ NewRow(p) \in Row /\ NewRow(p).backup <= Len(backups)
         /\ NewRow(p).state = "coarse" => NewRow(p).backup # 0
  <1> DEFINE x == proc[p]
  <1> Len(backups) \in Nat  BY LensTyped DEF IInv
  <1>1. x \in Proc /\ Placed(x) /\ Known(x, Len(backups)) /\ x.at = "manifest"
    BY DEF IInv, AllGood, Good, At
  <1>2. x.seg \in Segments /\ x.backup # 0 /\ x.backup \in Nat /\ x.backup <= Len(backups)
    BY <1>1 DEF Placed, Locked, Proc, Known
  <1>3. CASE x.task = "undo"
    <2> DEFINE b == x.seen[x.seg].backup
    <2>1. b \in Nat /\ b # 0 /\ b <= Len(backups)
      BY <1>1, <1>2, <1>3 DEF Placed, Proc, Known, Tasks, Task
    <2> HIDE DEF b
    <2>2. b \in 1..Len(backups)  BY <2>1
    <2>3. backups[b] \in Rows /\ Traceable(backups[b], b - 1)
      BY <2>2, LensTyped DEF IInv, Reversible
    <2>4. /\ backups[b][x.seg] \in Row /\ backups[b][x.seg].backup <= Len(backups)
          /\ backups[b][x.seg].state = "coarse" => backups[b][x.seg].backup # 0
      BY <2>1, <2>3, <1>2 DEF Rows, Row, Traceable
    <2> QED  BY <2>4, <1>3 DEF NewRow, b
  <1>4. CASE x.task # "undo"
    BY <1>2, <1>4 DEF NewRow, Row
  <1> QED  BY <1>3, <1>4

LEMMA ManifestMoves ==
  ASSUME IInv, NEW p \in Procs, WriteManifest(p)
  PROVE  /\ AllGood' /\ proc' \in [Procs -> Proc]
         /\ disk'.manifest \in Rows /\ Traceable(disk'.manifest, Len(backups))
         /\ disk' = [disk EXCEPT !.manifest = disk'.manifest]
         /\ proc'[p].at = "checkpoint"
         /\ \A q \in Procs \ {p} : proc'[q] = proc[q] \/ proc'[q] = [proc[q] EXCEPT !.clash = TRUE]
         /\ \A q \in Procs \ {p} : Unprotected(p) /\ q \in Holders
                                   => proc'[q] = [proc[q] EXCEPT !.clash = TRUE]
  <1> DEFINE x == proc[p]
  <1> DEFINE rows == [x.rows EXCEPT ![x.seg] = NewRow(p)]
  <1> DEFINE y == [x EXCEPT !.at = "checkpoint", !.rows = rows]
  <1> Len(backups) \in Nat  BY LensTyped DEF IInv
  <1>1. x \in Proc /\ Placed(x) /\ Known(x, Len(backups)) /\ At(p, "manifest") /\ x.at = "manifest"
    BY DEF IInv, AllGood, Good, At, WriteManifest
  <1>2. x.seg \in Segments /\ x.rows \in Rows
    BY <1>1 DEF Placed, Locked, Proc
  <1>3. rows \in Rows /\ Traceable(rows, Len(backups))
    BY <1>1, <1>2, NewRowGood DEF Rows, Row, Traceable, Known
  <1> HIDE DEF rows
  <1>4. Good(y, Len(backups))
    <2>1. y \in Proc  BY <1>1, <1>3 DEF Proc, Steps
    <2>2. Placed(y) /\ Known(y, Len(backups))
      BY <1>1, <1>2, <1>3 DEF Proc, Placed, Known, Locked
    <2> QED  BY <2>1, <2>2 DEF Good
  <1>5. \A q \in Procs : Good([proc[q] EXCEPT !.clash = TRUE], Len(backups))
    <2> TAKE q \in Procs
    <2> DEFINE z == [proc[q] EXCEPT !.clash = TRUE]
    <2>1. Good(proc[q], Len(backups))  BY DEF IInv, AllGood
    <2>2. z \in Proc  BY <2>1 DEF Good, Proc
    <2>3. Placed(z) /\ Known(z, Len(backups))  BY <2>1 DEF Good, Proc, Placed, Known
    <2> QED  BY <2>2, <2>3 DEF Good
  <1>6. /\ proc' = [q \in Procs |->
              IF q = p THEN y
              ELSE IF q \in Holders /\ Unprotected(p) THEN [proc[q] EXCEPT !.clash = TRUE]
              ELSE proc[q]]
        /\ disk' = [disk EXCEPT !.manifest = rows] /\ backups' = backups
    BY DEF WriteManifest, rows
  <1>7. /\ proc'[p] = y
        /\ \A q \in Procs \ {p} : proc'[q] = proc[q] \/ proc'[q] = [proc[q] EXCEPT !.clash = TRUE]
        /\ \A q \in Procs \ {p} : Unprotected(p) /\ q \in Holders =>
              proc'[q] = [proc[q] EXCEPT !.clash = TRUE]
    BY <1>6
  <1>8. \A q \in Procs : Good(proc'[q], Len(backups))
    BY <1>4, <1>5, <1>7 DEF IInv, AllGood
  <1>9. AllGood' /\ proc' \in [Procs -> Proc]
    BY <1>6, <1>8 DEF AllGood, Good
  <1>10. disk'.manifest = rows  BY <1>6 DEF IInv, TypeOK
  <1>11. proc'[p].at = "checkpoint"  BY <1>7, <1>1 DEF Proc
  <1> QED  BY <1>3, <1>6, <1>7, <1>9, <1>10, <1>11

LEMMA WriteMoves ==
  ASSUME IInv, NEW p \in Procs
  PROVE  Reread(p) \/ WriteCheckpoint(p) \/ AppendEvent(p) \/ Save(p) => Moves(p)
  <1> DEFINE x == proc[p]
  <1> Len(backups) \in Nat  BY LensTyped DEF IInv
  <1>1. Good(x, Len(backups))  BY DEF IInv, AllGood
  <1>2. ASSUME Reread(p)  PROVE Moves(p)
    <2> DEFINE y == [x EXCEPT !.at = "backup", !.rows = disk.manifest, !.clash = FALSE]
    <2>1. y \in Proc  BY <1>1 DEF Good, Proc, Steps, IInv, TypeOK
    <2>2. Placed(y) /\ Known(y, Len(backups))
      BY <1>1, <1>2 DEF Reread, At, Good, Proc, Placed, Known, Locked, IInv, Reversible
    <2> QED  BY <1>2, <2>1, <2>2 DEF Reread, Moves, Good
  <1>3. ASSUME WriteCheckpoint(p)  PROVE Moves(p)
    <2>1. Good([x EXCEPT !.at = "event"], Len(backups))
      BY <1>1, <1>3 DEF WriteCheckpoint, At, Good, Proc, Placed, Known, Steps, Locked
    <2> QED  BY <1>3, <2>1 DEF WriteCheckpoint, Moves, Step
  <1>4. ASSUME AppendEvent(p)  PROVE Moves(p)
    <2> DEFINE to == IF p \in Executing THEN "unlock" ELSE "save"
    <2> DEFINE y == [x EXCEPT !.at = to, !.rows = NoRows, !.clash = FALSE]
    <2>1. y \in Proc  BY <1>1 DEF Good, Proc, Steps, NoRows, Rows, Row
    <2>2. Placed(y)
      BY <1>1, <1>4 DEF AppendEvent, At, Good, Proc, Placed, Locked, Executing
    <2>3. Known(y, Len(backups))
      BY <1>1 DEF Good, Proc, Known, NoRows, Traceable
    <2> QED  BY <1>4, <2>1, <2>2, <2>3 DEF AppendEvent, Moves, Good
  <1>5. ASSUME Save(p)  PROVE Moves(p)
    <2>1. x.seg \in Segments  BY <1>1, <1>5 DEF Save, At, Good, Placed
    <2>2. Good(Ended(p, TRUE), Len(backups))  BY <1>1, <2>1, EndedGood
    <2> QED  BY <1>5, <2>2 DEF Save, Moves
  <1> QED  BY <1>2, <1>3, <1>4, <1>5

LEMMA FlowMoves ==
  ASSUME IInv, NEW p \in Procs, Flow(p)
  PROVE  Moves(p)
  <1> DEFINE x == proc[p]
  <1> Len(backups) \in Nat  BY LensTyped DEF IInv
  <1>1. Good(x, Len(backups))  BY DEF IInv, AllGood
  <1>2. CASE Clear(p)
    <2>1. \A to \in {"clearing", "targets"} : Good([x EXCEPT !.at = to], Len(backups))
      BY <1>1 DEF Good, Proc, Placed, Known, Steps, Locked
    <2> QED  BY <1>2, <2>1 DEF Clear, Moves, Step
  <1>3. CASE Clearing(p)
    <2>1. Good([x EXCEPT !.at = "targets"], Len(backups))
      BY <1>1 DEF Good, Proc, Placed, Known, Steps, Locked
    <2> QED  BY <1>3, <2>1 DEF Clearing, Moves, Step
  <1>4. CASE Targets(p)
    <2> DEFINE y == [x EXCEPT !.at = "exact", !.mine = report,
                       !.todo = (Failed(disk.manifest) \X Strategies) \ report]
    <2>1. (Failed(disk.manifest) \X Strategies) \ report \in SUBSET Pairs
      BY DEF Failed, Pairs
    <2>2. report \in SUBSET Pairs  BY DEF IInv, TypeOK
    <2>3. y \in Proc  BY <1>1, <2>1, <2>2 DEF Good, Proc, Steps
    <2>4. Placed(y) /\ Known(y, Len(backups))
      BY <1>1 DEF Good, Proc, Placed, Known, Locked
    <2> QED  BY <1>4, <2>3, <2>4 DEF Targets, Moves, Good
  <1>5. ASSUME NEW pair \in Pairs, Attempt(p, pair)  PROVE Moves(p)
    <2> DEFINE y == [x EXCEPT !.at = "look", !.task = "cli", !.seg = pair[1],
                              !.strategy = pair[2], !.todo = x.todo \ {pair}]
    <2>1. pair[1] \in Segments /\ pair[2] \in Strategies  BY DEF Pairs
    <2>2. x.todo \ {pair} \in SUBSET Pairs  BY <1>1 DEF Good, Proc
    <2>3. y \in Proc  BY <1>1, <2>1, <2>2, ZenonT(40) DEF Good, Proc, Steps, Ops
    <2>4. Placed(y) /\ Known(y, Len(backups))
      BY <1>1, <2>1 DEF Good, Proc, Placed, Known, Locked
    <2> QED  BY <1>5, <2>3, <2>4 DEF Attempt, Moves, Good
  <1>6. CASE Record(p)
    <2> DEFINE done == IF x.result = "refused" THEN x.mine ELSE x.mine \cup {<<x.seg, x.strategy>>}
    <2> DEFINE rest == IF x.result = "exact" THEN x.todo \ ({x.seg} \X Strategies) ELSE x.todo
    <2> DEFINE y == [x EXCEPT !.at = "exact", !.mine = done, !.result = "none",
                              !.task = "none", !.todo = rest]
    <2>1. x.seg \in Segments  BY <1>1, <1>6 DEF Record, At, Good, Placed
    <2>2. done \in SUBSET Pairs /\ rest \in SUBSET Pairs  BY <1>1, <2>1 DEF Good, Proc, Pairs
    <2> HIDE DEF done, rest
    <2>3. y \in Proc
      <3>1. "exact" \in Steps /\ "none" \in Ops  BY DEF Steps, Ops
      <3>2. x \in Proc  BY <1>1 DEF Good
      <3> HIDE DEF x
      <3> QED  BY <2>2, <3>1, <3>2 DEF Proc
    <2>4. Placed(y) /\ Known(y, Len(backups))
      BY <1>1 DEF Good, Proc, Placed, Known, Locked
    <2>5. Goto(p, y)  BY <1>6 DEF Record, done, rest
    <2> QED  BY <1>6, <2>3, <2>4, <2>5 DEF Record, Moves, Good
  <1>7. CASE Attempted(p)
    <2> DEFINE y == [x EXCEPT !.at = "coarse", !.queue = Failed(disk.manifest)]
    <2>1. y \in Proc  BY <1>1 DEF Good, Proc, Steps, Failed
    <2>2. Placed(y) /\ Known(y, Len(backups))
      BY <1>1 DEF Good, Proc, Placed, Known, Locked
    <2> QED  BY <1>7, <2>1, <2>2 DEF Attempted, Moves, Good
  <1>8. ASSUME NEW g \in Segments, GiveCoarse(p, g)  PROVE Moves(p)
    <2> DEFINE y == [x EXCEPT !.at = "check", !.task = "verify", !.seg = g, !.queue = x.queue \ {g}]
    <2>1. x.queue \ {g} \in SUBSET Segments  BY <1>1 DEF Good, Proc
    <2>2. y \in Proc  BY <1>1, <2>1, ZenonT(40) DEF Good, Proc, Steps, Ops
    <2>3. Placed(y) /\ Known(y, Len(backups))
      BY <1>1 DEF Good, Proc, Placed, Known, Locked
    <2> QED  BY <1>8, <2>2, <2>3 DEF GiveCoarse, Moves, Good
  <1>9. CASE FlowEnds(p)
    BY <1>9, IdleGood DEF FlowEnds, Moves
  <1> QED  BY <1>2, <1>3, <1>4, <1>5, <1>6, <1>7, <1>8, <1>9 DEF Flow
-----------------------------------------------------------------------------
LEMMA InitHolds == Init => IInv
  <1> SUFFICES ASSUME Init PROVE IInv
    OBVIOUS
  <1> PICK ok \in SUBSET Segments, before \in SUBSET Segments :
        LET aligned == [g \in Segments |-> [state |-> IF g \in ok THEN "exact" ELSE "failed",
                                             backup |-> 0]]
            rows    == [g \in Segments |-> IF g \in before
                                           THEN [state |-> "exact", backup |-> 1]
                                           ELSE aligned[g]]
        IN /\ disk = [manifest |-> rows, checkpoint |-> rows, events |-> rows]
           /\ backups = IF before = {} THEN <<>> ELSE <<aligned>>
           /\ saved = [g \in Segments |-> [verified |-> FALSE, backup |-> rows[g].backup]]
    BY DEF Init
  <1> DEFINE aligned == [g \in Segments |-> [state |-> IF g \in ok THEN "exact" ELSE "failed",
                                              backup |-> 0]]
  <1> DEFINE rows == [g \in Segments |-> IF g \in before
                                          THEN [state |-> "exact", backup |-> 1]
                                          ELSE aligned[g]]
  <1>1. /\ disk = [manifest |-> rows, checkpoint |-> rows, events |-> rows]
        /\ backups = IF before = {} THEN <<>> ELSE <<aligned>>
        /\ saved = [g \in Segments |-> [verified |-> FALSE, backup |-> rows[g].backup]]
    OBVIOUS
  <1>2. /\ report = {} /\ lock = NoLock /\ robbed = {}
        /\ proc = [p \in Procs |-> Idle] /\ starts = 0 /\ crashes = 0
    BY DEF Init
  <1>3. aligned \in Rows /\ rows \in Rows  BY DEF Rows, Row
  <1>4. /\ Traceable(aligned, 0)
        /\ Traceable(rows, IF before = {} THEN 0 ELSE 1)
    BY DEF Traceable
  <1>5. \A g \in Segments : /\ rows[g].backup \in Nat
                            /\ rows[g].backup <= IF before = {} THEN 0 ELSE 1
    OBVIOUS
  <1> HIDE DEF rows, aligned
  <1>6. backups \in Seq(Rows) /\ Len(backups) = IF before = {} THEN 0 ELSE 1
    BY <1>1, <1>3, SMTT(30)
  <1>7. \A n \in Nat : Good(Idle, n)  BY IdleGood
  <1>8. TypeOK
    <2>1. disk \in [manifest : Rows, checkpoint : Rows, events : Rows]  BY <1>1, <1>3
    <2>2. saved \in Tasks  BY <1>1, <1>5 DEF Tasks, Task
    <2>3. lock \in LockFile  BY <1>2 DEF LockFile, NoLock
    <2>4. proc \in [Procs -> Proc]  BY <1>2, <1>7 DEF Good
    <2> QED  BY <1>2, <1>6, <2>1, <2>2, <2>3, <2>4, RecoveryAssumption DEF TypeOK
  <1>9. AllGood  BY <1>2, <1>6, <1>7 DEF AllGood
  <1>10. SavedKnown  BY <1>1, <1>5, <1>6 DEF SavedKnown
  <1>11. Reversible
    <2>1. \A i \in 1..Len(backups) : i = 1 /\ backups[i] = aligned  BY <1>1, <1>6
    <2>2. \A i \in 1..Len(backups) : Traceable(backups[i], i - 1)  BY <1>4, <2>1, SMTT(30)
    <2>3. Traceable(rows, Len(backups))
      <3>1. CASE before = {}  BY <1>4, <1>6, <3>1
      <3>2. CASE before # {}  BY <1>4, <1>6, <3>2
      <3> QED  BY <3>1, <3>2
    <2>4. disk.manifest = rows /\ disk.checkpoint = rows /\ disk.events = rows
      BY <1>1
    <2> QED  BY <2>2, <2>3, <2>4 DEF Reversible
  <1>12. Executing = {}  BY <1>2 DEF Executing, Idle
  <1>13. LockHasOwner  BY <1>2 DEF LockHasOwner, NoLock
  <1> QED  BY <1>8, <1>9, <1>10, <1>11, <1>12, <1>13 DEF IInv, LockNamesIt, ListIsFresh
-----------------------------------------------------------------------------

(* Every step but a write of the manifest moves one process, or none.       *)
LEMMA StepMoves ==
  ASSUME IInv, [Next]_vars
  PROVE  \/ proc' = proc /\ backups' = backups
         \/ \E p \in Procs : Moves(p)
         \/ \E p \in Procs : WriteManifest(p)
  <1> Len(backups) \in Nat  BY LensTyped DEF IInv
  <1>1. CASE UNCHANGED vars  BY <1>1 DEF vars
  <1>2. CASE LockAges  BY <1>2 DEF LockAges
  <1>3. ASSUME NEW p \in Procs,
               \/ \E g \in Segments, op \in Ops : Begin(p, op, g)
               \/ BeginFlow(p) \/ Check(p) \/ Save(p)
               \/ Execute(p) \/ Write(p) \/ Flow(p) \/ Crash(p)
        PROVE  Moves(p) \/ WriteManifest(p)
    <2>1. CASE Crash(p)  BY <2>1, IdleGood DEF Crash, Moves
    <2>2. CASE Write(p)  BY <2>2, BackupMoves, WriteMoves DEF Write
    <2> QED  BY <1>3, <2>1, <2>2, BeginMoves, CheckMoves, ExecuteMoves, WriteMoves, FlowMoves
  <1> QED  BY <1>1, <1>2, <1>3 DEF Next

(* What a step does to the files.                                          *)
LEMMA FilesStep ==
  ASSUME IInv, [Next]_vars
  PROVE  /\ disk' \in [manifest : Rows, checkpoint : Rows, events : Rows]
         /\ backups' \in Seq(Rows) /\ saved' \in Tasks
         /\ Len(backups) <= Len(backups')
         /\ SavedKnown' /\ Reversible'
  <1> DEFINE n == Len(backups)
  <1> n \in Nat  BY LensTyped DEF IInv
  <1>0. /\ disk \in [manifest : Rows, checkpoint : Rows, events : Rows]
        /\ backups \in Seq(Rows) /\ saved \in Tasks
    BY DEF IInv, TypeOK
  <1>1. CASE UNCHANGED <<disk, backups, saved>>
    BY <1>0, <1>1 DEF IInv, SavedKnown, Reversible
  <1>2. ASSUME NEW p \in Procs, Backup(p)
        PROVE  /\ UNCHANGED <<disk, saved>> /\ backups' \in Seq(Rows) /\ n <= Len(backups')
               /\ SavedKnown' /\ Reversible'
    <2>1. /\ UNCHANGED <<disk, saved>>
          /\ backups' \in Seq(Rows) /\ Len(backups') = n + 1
          /\ \A i \in 1..n : backups'[i] = backups[i]
          /\ backups'[n + 1] = disk.manifest
      BY <1>2, BackupMoves DEF Backup
    <2>2. SavedKnown'  BY <1>0, <2>1 DEF IInv, SavedKnown, Tasks, Task
    <2>3. \A rows \in Rows : Traceable(rows, n) => Traceable(rows, n + 1)
      BY DEF Traceable, Rows, Row
    <2>4. /\ Traceable(disk.manifest, n) /\ Traceable(disk.checkpoint, n)
          /\ Traceable(disk.events, n)
          /\ \A i \in 1..n : Traceable(backups[i], i - 1)
      BY DEF IInv, Reversible
    <2>5. /\ disk.manifest \in Rows /\ disk.checkpoint \in Rows /\ disk.events \in Rows
      BY <1>0
    <2>6. \A i \in 1..(n + 1) : Traceable(backups'[i], i - 1)
      <3> TAKE i \in 1..(n + 1)
      <3>1. CASE i \in 1..n  BY <2>1, <2>4, <3>1
      <3>2. CASE i = n + 1
        <4>1. i - 1 = n  BY <3>2
        <4> QED  BY <2>1, <2>4, <3>2, <4>1
      <3> QED  BY <3>1, <3>2
    <2>7. Reversible'
      BY <2>1, <2>3, <2>4, <2>5, <2>6 DEF Reversible
    <2> QED  BY <2>1, <2>2, <2>7
  <1>3. ASSUME NEW p \in Procs, WriteManifest(p)
        PROVE  /\ UNCHANGED <<backups, saved>>
               /\ disk' \in [manifest : Rows, checkpoint : Rows, events : Rows]
               /\ SavedKnown' /\ Reversible'
    <2>1. UNCHANGED <<backups, saved>>  BY <1>3 DEF WriteManifest
    <2>2. /\ disk'.manifest \in Rows /\ Traceable(disk'.manifest, n)
          /\ disk' = [disk EXCEPT !.manifest = disk'.manifest]
      BY <1>3, ManifestMoves
    <2>3. /\ disk' \in [manifest : Rows, checkpoint : Rows, events : Rows]
          /\ disk'.checkpoint = disk.checkpoint /\ disk'.events = disk.events
      BY <1>0, <2>2
    <2>4. SavedKnown' /\ Reversible'
      BY <2>1, <2>2, <2>3 DEF IInv, SavedKnown, Reversible
    <2> QED  BY <2>1, <2>3, <2>4
  <1>4. ASSUME NEW p \in Procs, WriteCheckpoint(p) \/ AppendEvent(p)
        PROVE  /\ UNCHANGED <<backups, saved>>
               /\ disk' \in [manifest : Rows, checkpoint : Rows, events : Rows]
               /\ SavedKnown' /\ Reversible'
    <2>1. UNCHANGED <<backups, saved>>  BY <1>4 DEF WriteCheckpoint, AppendEvent
    <2>2. proc[p].rows \in Rows /\ Traceable(proc[p].rows, n)
      BY DEF IInv, AllGood, Good, Proc, Known
    <2>3. CASE WriteCheckpoint(p)
      <3>1. disk' = [disk EXCEPT !.checkpoint = proc[p].rows]  BY <2>3 DEF WriteCheckpoint
      <3>2. /\ disk' \in [manifest : Rows, checkpoint : Rows, events : Rows]
            /\ disk'.manifest = disk.manifest /\ disk'.events = disk.events
            /\ disk'.checkpoint = proc[p].rows
        BY <1>0, <2>2, <3>1
      <3> QED  BY <2>1, <2>2, <3>2 DEF IInv, SavedKnown, Reversible
    <2>4. CASE AppendEvent(p)
      <3> DEFINE g == proc[p].seg
      <3> DEFINE events == [disk.events EXCEPT ![g] = proc[p].rows[g]]
      <3>1. disk' = [disk EXCEPT !.events = events]  BY <2>4, Zenon DEF AppendEvent
      <3>2. g \in Segments
        BY <2>4 DEF AppendEvent, At, IInv, AllGood, Good, Placed, Locked
      <3>3. events \in Rows  BY <1>0, <2>2, <3>2 DEF Rows
      <3>4. Traceable(events, n)
        BY <1>0, <2>2, <3>2 DEF IInv, Reversible, Traceable, Rows, Row
      <3> HIDE DEF events
      <3>5. /\ disk' \in [manifest : Rows, checkpoint : Rows, events : Rows]
            /\ disk'.manifest = disk.manifest /\ disk'.checkpoint = disk.checkpoint
            /\ disk'.events = events
        BY <1>0, <3>1, <3>3
      <3> QED  BY <2>1, <3>4, <3>5 DEF IInv, SavedKnown, Reversible
    <2> QED  BY <1>4, <2>1, <2>3, <2>4
  <1>5. ASSUME NEW p \in Procs, Save(p)
        PROVE  /\ UNCHANGED <<disk, backups>> /\ saved' \in Tasks
               /\ SavedKnown' /\ Reversible'
    <2> DEFINE x == proc[p]
    <2>1. UNCHANGED <<disk, backups>> /\ saved' = Saved(p)  BY <1>5 DEF Save
    <2>2. /\ x.seg \in Segments /\ x.seen \in Tasks /\ x.backup \in Nat /\ x.backup <= n
          /\ \A g \in Segments : x.seen[g].backup <= n
      BY <1>5 DEF Save, At, IInv, AllGood, Good, Proc, Placed, Known
    <2> DEFINE good == x.seen[x.seg].verified \/ x.task = "verify"
    <2> DEFINE b == IF x.task = "coarse" \/ (x.task = "retry" /\ x.result = "exact")
                    THEN x.backup ELSE x.seen[x.seg].backup
    <2>3. Saved(p) = [x.seen EXCEPT ![x.seg] = [verified |-> good, backup |-> b]]
      BY DEF Saved
    <2>4. good \in BOOLEAN /\ b \in Nat /\ b <= n  BY <2>2 DEF Tasks, Task
    <2> HIDE DEF good, b, x
    <2>5. [verified |-> good, backup |-> b] \in Task  BY <2>4 DEF Task
    <2>6. saved' \in Tasks /\ \A g \in Segments : saved'[g].backup <= n
      BY <2>1, <2>2, <2>3, <2>4, <2>5 DEF Tasks, Task
    <2>7. SavedKnown' /\ Reversible'
      BY <2>1, <2>6 DEF IInv, SavedKnown, Reversible
    <2> QED  BY <2>1, <2>6, <2>7
  <1>6. \/ UNCHANGED <<disk, backups, saved>>
        \/ \E p \in Procs : \/ Backup(p) \/ WriteManifest(p) \/ WriteCheckpoint(p)
                             \/ AppendEvent(p) \/ Save(p)
    <2> DEFINE Same == UNCHANGED <<disk, backups, saved>>
    <2>1. UNCHANGED vars \/ LockAges => Same  BY DEF vars, LockAges
    <2>2. ASSUME NEW p \in Procs, NEW g \in Segments, NEW op \in Ops, Begin(p, op, g)  PROVE Same
      BY <2>2 DEF Begin
    <2>3. \A p \in Procs : BeginFlow(p) \/ Check(p) \/ Crash(p) => Same
      BY DEF BeginFlow, Check, Crash
    <2>4. \A p \in Procs : Execute(p) => Same
      BY DEF Execute, Look, Unlink, Create, Stamp, Read, Reject, Unlock
    <2>5. \A p \in Procs : Flow(p) => Same
      BY DEF Flow, Clear, Clearing, Targets, Attempt, Record, Attempted, GiveCoarse, FlowEnds
    <2>6. \A p \in Procs : Reread(p) => Same  BY DEF Reread
    <2> HIDE DEF Same
    <2>7. Same \/ \E p \in Procs : Save(p) \/ Write(p)
      BY <2>1, <2>2, <2>3, <2>4, <2>5, Zenon DEF Next
    <2> QED  BY <2>6, <2>7, Zenon DEF Write, Same
  <1> QED  BY <1>0, <1>1, <1>2, <1>3, <1>4, <1>5, <1>6


(* Only by creating the lock file does a process begin to execute, and only  *)
(* by reading the list does it come to hold one.                           *)
Enters(p)  == Create(p) /\ Creates(p)
Holding(p) == p \in Executing /\ p \in Holders

Continues(p) ==
    /\ p \in Executing' => p \in Executing \/ Enters(p)
    /\ Holding(p)' => /\ robbed' = robbed
                      /\ \/ proc'[p].rows = disk.manifest
                         \/ /\ Holding(p)
                            /\ proc'[p].rows = proc[p].rows /\ proc'[p].clash = proc[p].clash

LEMMA LeavesContinues ==
  ASSUME NEW p \in Procs, proc \in [Procs -> Proc], NEW x, Goto(p, x), x.at \notin Locked
  PROVE  Continues(p)
  <1>1. proc'[p].at \notin Locked  BY DEF Goto
  <1> QED  BY <1>1 DEF Continues, Holding, Executing, Holders, Locked

LEMMA EndedAt ==
  ASSUME NEW p \in Procs, NEW good \in BOOLEAN, proc[p] \in Proc
  PROVE  Ended(p, good).at \notin Locked
  BY DEF Ended, Locked, Idle, Proc

LEMMA ActorContinues ==
  ASSUME IInv, NEW p \in Procs,
         \/ \E g \in Segments, op \in Ops : Begin(p, op, g)
         \/ BeginFlow(p) \/ Check(p) \/ Save(p) \/ Execute(p) \/ Flow(p) \/ Crash(p)
         \/ Reread(p) \/ Backup(p) \/ WriteCheckpoint(p) \/ AppendEvent(p)
  PROVE  Continues(p)
  <1> DEFINE x == proc[p]
  <1>0. proc \in [Procs -> Proc] /\ x \in Proc /\ Placed(x)
    BY DEF IInv, TypeOK, AllGood, Good
  <1>1. \A good \in BOOLEAN : Ended(p, good).at \notin Locked  BY <1>0, EndedAt
  <1>2. Idle.at \notin Locked  BY DEF Idle, Locked
  <1>3. \A to \in Steps \ Locked : Step(p, to) => Continues(p)
    <2> TAKE to \in Steps \ Locked
    <2>1. [x EXCEPT !.at = to].at \notin Locked  BY <1>0 DEF Proc
    <2> QED  BY <1>0, <2>1, LeavesContinues DEF Step
  <1>4. \A result \in {"error", "refused"} : Refused(p, result) => Continues(p)
    <2> TAKE result \in {"error", "refused"}
    <2>1. [[x EXCEPT !.result = result] EXCEPT !.at = "record"].at \notin Locked
      BY <1>0 DEF Proc, Locked
    <2> QED  BY <1>0, <1>2, <2>1, LeavesContinues DEF Refused
  <1>5. ASSUME NEW g \in Segments, NEW op \in Ops, Begin(p, op, g)  PROVE Continues(p)
    <2> DEFINE y == [Idle EXCEPT !.op = op, !.task = op, !.seg = g,
                                 !.at = IF op = "cli" THEN "look" ELSE "check"]
    <2>1. y.at \notin Locked  BY DEF Idle, Locked
    <2> QED  BY <1>0, <1>5, <2>1, LeavesContinues DEF Begin
  <1>6. CASE BeginFlow(p)
    <2>1. [Idle EXCEPT !.op = "flow", !.at = "clear"].at \notin Locked  BY DEF Idle, Locked
    <2> QED  BY <1>0, <1>6, <2>1, LeavesContinues DEF BeginFlow
  <1>7. CASE Check(p)
    <2> DEFINE to == CASE x.task = "retry"              -> "look"
                       [] x.task \in {"coarse", "undo"} -> "reread"
                       [] OTHER                         -> "save"
    <2>1. [x EXCEPT !.seen = saved, !.at = to].at \notin Locked  BY <1>0 DEF Proc, Locked
    <2> QED  BY <1>0, <1>1, <1>7, <2>1, LeavesContinues DEF Check
  <1>8. CASE Save(p)  BY <1>0, <1>1, <1>8, LeavesContinues DEF Save
  <1>9. CASE Crash(p)  BY <1>0, <1>2, <1>9, LeavesContinues DEF Crash
  <1>10. CASE Execute(p)
    <2>1. CASE Look(p)  BY <1>3, <2>1 DEF Look, Steps, Locked
    <2>2. CASE Unlink(p)  BY <1>3, <1>4, <2>2 DEF Unlink, Steps, Locked
    <2>3. CASE Create(p)
      <3>1. CASE Creates(p)
        <4>1. proc'[p].at = "stamp"  BY <1>0, <2>3, <3>1 DEF Create, Step, Goto, Proc
        <4> QED  BY <2>3, <3>1, <4>1 DEF Continues, Enters, Holding, Holders
      <3>2. CASE ~Creates(p)  BY <1>4, <2>3, <3>2 DEF Create
      <3> QED  BY <3>1, <3>2
    <2>4. CASE Stamp(p)
      <3>1. /\ x.at = "stamp" /\ proc'[p].at = "read" /\ proc'[p].task = x.task
        BY <1>0, <2>4 DEF Stamp, Step, Goto, Proc, At
      <3> QED  BY <3>1 DEF Continues, Holding, Holders, Executing, Locked
    <2>5. CASE Read(p)
      <3>1. x.at = "read" /\ robbed' = robbed  BY <2>5 DEF Read, At
      <3>2. proc'[p].task = x.task  BY <1>0, <2>5 DEF Read, Goto, Proc
      <3>3. proc'[p].at = "unlock" \/ proc'[p].rows = disk.manifest
        BY <1>0, <2>5 DEF Read, Goto, Proc
      <3> QED  BY <3>1, <3>2, <3>3 DEF Continues, Holding, Holders, Executing, Locked
    <2>6. CASE Reject(p)
      <3>1. x.at = "model" /\ proc'[p].at = "unlock" /\ proc'[p].task = x.task
        BY <1>0, <2>6 DEF Reject, Goto, Proc, At
      <3> QED  BY <3>1 DEF Continues, Holding, Holders, Executing, Locked
    <2>7. CASE Unlock(p)  BY <1>0, <1>1, <1>3, <2>7, LeavesContinues DEF Unlock, Steps, Locked
    <2> QED  BY <1>10, <2>1, <2>2, <2>3, <2>4, <2>5, <2>6, <2>7 DEF Execute
  <1>11. CASE Flow(p)
    <2>1. CASE Clear(p)  BY <1>3, <2>1 DEF Clear, Steps, Locked
    <2>2. CASE Clearing(p)  BY <1>3, <2>2 DEF Clearing, Steps, Locked
    <2>3. CASE Targets(p)
      <3>1. proc'[p].at \notin Locked  BY <1>0, <2>3 DEF Targets, Goto, Proc, Locked
      <3> QED  BY <3>1 DEF Continues, Holding, Executing
    <2>4. ASSUME NEW pair \in Pairs, Attempt(p, pair)  PROVE Continues(p)
      <3>1. proc'[p].at \notin Locked  BY <1>0, <2>4 DEF Attempt, Goto, Proc, Locked
      <3> QED  BY <3>1 DEF Continues, Holding, Executing
    <2>5. CASE Record(p)
      <3>1. proc'[p].at \notin Locked  BY <1>0, <2>5 DEF Record, Goto, Proc, Locked
      <3> QED  BY <3>1 DEF Continues, Holding, Executing
    <2>6. CASE Attempted(p)
      <3>1. proc'[p].at \notin Locked  BY <1>0, <2>6 DEF Attempted, Goto, Proc, Locked
      <3> QED  BY <3>1 DEF Continues, Holding, Executing
    <2>7. ASSUME NEW g \in Segments, GiveCoarse(p, g)  PROVE Continues(p)
      <3>1. proc'[p].at \notin Locked  BY <1>0, <2>7 DEF GiveCoarse, Goto, Proc, Locked
      <3> QED  BY <3>1 DEF Continues, Holding, Executing
    <2>8. CASE FlowEnds(p)  BY <1>0, <1>2, <2>8, LeavesContinues DEF FlowEnds
    <2> QED  BY <1>11, <2>1, <2>2, <2>3, <2>4, <2>5, <2>6, <2>7, <2>8 DEF Flow
  <1>12. CASE Reread(p)
    <2>1. x.at = "reread" /\ proc'[p].at = "backup" /\ proc'[p].task = x.task
      BY <1>0, <1>12 DEF Reread, Goto, Proc, At
    <2>2. proc'[p].task \notin {"cli", "retry"}  BY <1>0, <2>1 DEF Placed
    <2> QED  BY <2>2 DEF Continues, Holding, Executing
  <1>13. CASE Backup(p)
    <2>1. /\ x.at \in {"model", "backup"} /\ proc'[p].at = "manifest" /\ proc'[p].task = x.task
          /\ proc'[p].rows = x.rows /\ proc'[p].clash = x.clash /\ robbed' = robbed
      BY <1>0, <1>13 DEF Backup, Goto, Proc, At
    <2> QED  BY <2>1 DEF Continues, Holding, Holders, Executing, Locked
  <1>14. CASE WriteCheckpoint(p)
    <2>1. x.at = "checkpoint" /\ proc'[p].at = "event" /\ proc'[p].task = x.task
      BY <1>0, <1>14 DEF WriteCheckpoint, Step, Goto, Proc, At
    <2> QED  BY <2>1 DEF Continues, Holding, Holders, Executing, Locked
  <1>15. CASE AppendEvent(p)
    <2>1. x.at = "event" /\ proc'[p].at \in {"unlock", "save"} /\ proc'[p].task = x.task
      BY <1>0, <1>15 DEF AppendEvent, Goto, Proc, At
    <2> QED  BY <2>1 DEF Continues, Holding, Holders, Executing, Locked
  <1> QED
    BY <1>5, <1>6, <1>7, <1>8, <1>9, <1>10, <1>11, <1>12, <1>13, <1>14, <1>15

(* The manifest's writer no longer holds a list; others may be told.        *)
LEMMA WriterContinues ==
  ASSUME IInv, NEW p \in Procs, WriteManifest(p), NEW q \in Procs
  PROVE  /\ q \in Executing' => q \in Executing
         /\ Holding(q)' => q # p /\ Holding(q) /\ proc'[q].rows = proc[q].rows
         /\ q # p /\ Unprotected(p) /\ Holding(q) => proc'[q] = [proc[q] EXCEPT !.clash = TRUE]
         /\ q # p /\ ~Unprotected(p) => proc'[q] = proc[q]
  <1> DEFINE x == proc[p]
  <1>1. proc \in [Procs -> Proc]  BY DEF IInv, TypeOK
  <1>2. x.at = "manifest"  BY DEF WriteManifest, At
  <1>3. proc' = [r \in Procs |->
          IF r = p THEN [x EXCEPT !.at = "checkpoint",
                                  !.rows = [x.rows EXCEPT ![x.seg] = NewRow(p)]]
          ELSE IF r \in Holders /\ Unprotected(p) THEN [proc[r] EXCEPT !.clash = TRUE]
          ELSE proc[r]]
    BY DEF WriteManifest
  <1>4. proc'[p].at = "checkpoint" /\ proc'[p].task = x.task  BY <1>1, <1>3 DEF Proc
  <1>5. CASE q = p
    BY <1>2, <1>4, <1>5 DEF Holding, Holders, Executing, Locked
  <1>6. CASE q # p
    <2>1. proc'[q] = IF q \in Holders /\ Unprotected(p) THEN [proc[q] EXCEPT !.clash = TRUE]
                     ELSE proc[q]
      BY <1>3, <1>6
    <2>2. /\ proc'[q].at = proc[q].at /\ proc'[q].task = proc[q].task
          /\ proc'[q].rows = proc[q].rows
      BY <1>1, <2>1 DEF Proc
    <2> QED  BY <1>6, <2>1, <2>2 DEF Holding, Holders, Executing
  <1> QED  BY <1>5, <1>6

(* Who acts in a step, and that all others stay as they are.               *)
Acts(p) == \/ \E g \in Segments, op \in Ops : Begin(p, op, g)
           \/ BeginFlow(p) \/ Check(p) \/ Save(p) \/ Execute(p) \/ Flow(p) \/ Crash(p)
           \/ Reread(p) \/ Backup(p) \/ WriteCheckpoint(p) \/ AppendEvent(p)

LEMMA WhoActs ==
  ASSUME IInv, [Next]_vars
  PROVE  \/ UNCHANGED <<disk, proc, robbed>> /\ (UNCHANGED lock \/ LockAges)
         \/ \E p \in Procs : Acts(p)
         \/ \E p \in Procs : WriteManifest(p)
  BY DEF Next, vars, LockAges, Write, Acts

LEMMA OthersStay ==
  ASSUME IInv, NEW p \in Procs, Acts(p), NEW q \in Procs, q # p
  PROVE  /\ proc'[q] = proc[q]
         /\ q \in Executing' <=> q \in Executing
         /\ Holding(q)' <=> Holding(q)
  <1>1. PICK x : Goto(p, x)
    <2>1. Moves(p)
      BY BeginMoves, CheckMoves, WriteMoves, ExecuteMoves, FlowMoves, BackupMoves, IdleGood,
         LensTyped DEF Acts, Crash, Moves, IInv
    <2> QED  BY <2>1 DEF Moves
  <1>2. proc \in [Procs -> Proc]  BY DEF IInv, TypeOK
  <1>3. proc'[q] = proc[q]  BY <1>1, <1>2 DEF Goto
  <1> QED  BY <1>3 DEF Executing, Holding, Holders
-----------------------------------------------------------------------------
(* What an acting process does to the lock.                                *)
Removes(p) == /\ RemoveLock(p)
              /\ p \notin Executing'
Keeps(p)   == /\ UNCHANGED robbed
              /\ \/ UNCHANGED lock
                 \/ lock.state = "bare" /\ lock' = [lock EXCEPT !.state = "owned"]
Dies(p)    == /\ p \notin Executing'
              /\ lock' = IF lock.by = p THEN [lock EXCEPT !.state = "dead"] ELSE lock
              /\ robbed' = robbed \ {p}
Takes(p)   == /\ lock.state = "free"
              /\ lock' = [state |-> "bare", by |-> p, old |-> FALSE]
              /\ robbed' = robbed \ {p}

LEMMA LockUse ==
  ASSUME IInv, NEW p \in Procs, Acts(p)
  PROVE  Removes(p) \/ (Keeps(p) /\ ~Enters(p)) \/ Dies(p) \/ Takes(p)
  <1> DEFINE x == proc[p]
  <1>0. proc \in [Procs -> Proc] /\ x \in Proc  BY DEF IInv, TypeOK
  <1>1. Continues(p)  BY ActorContinues DEF Acts
  <1>2. CASE Crash(p)
    <2>1. proc'[p] = Idle  BY <1>0, <1>2 DEF Crash, Goto
    <2> QED  BY <1>2, <2>1 DEF Crash, Dies, Executing, Locked, Idle
  <1>3. CASE Enters(p)  BY <1>3 DEF Enters, Create, Creates, Takes
  <1>4. CASE Unlink(p) /\ lock.state # "free"
    <2>1. p \notin Executing /\ ~Enters(p)
      BY <1>4 DEF Unlink, At, Executing, Locked, Enters, Create
    <2> QED  BY <1>1, <1>4, <2>1 DEF Unlink, Continues, Removes
  <1>5. CASE Clearing(p)
    <2>1. p \notin Executing /\ ~Enters(p)
      BY <1>5 DEF Clearing, At, Executing, Locked, Enters, Create
    <2> QED  BY <1>1, <1>5, <2>1 DEF Clearing, Continues, Removes
  <1>6. CASE Unlock(p)
    <2>1. Ended(p, TRUE).at \notin Locked  BY <1>0, EndedAt
    <2>2. [x EXCEPT !.at = "save"].at \notin Locked  BY <1>0 DEF Proc, Locked
    <2>3. proc'[p].at \notin Locked
      BY <1>0, <1>6, <2>1, <2>2 DEF Unlock, Step, Goto
    <2> QED  BY <1>6, <2>3 DEF Unlock, Removes, Executing
  <1>7. CASE Stamp(p)
    <2>1. ~Enters(p)  BY <1>7 DEF Stamp, At, Enters, Create
    <2> QED  BY <1>7, <2>1 DEF Stamp, Keeps
  <1>8. CASE /\ ~Crash(p) /\ ~Enters(p) /\ ~Clearing(p) /\ ~Unlock(p) /\ ~Stamp(p)
             /\ ~(Unlink(p) /\ lock.state # "free")
    <2>1. Execute(p) => UNCHANGED <<lock, robbed>>
      BY <1>8 DEF Execute, Look, Unlink, Create, Enters, Read, Reject
    <2>2. Flow(p) => UNCHANGED <<lock, robbed>>
      BY <1>8 DEF Flow, Clear, Targets, Attempt, Record, Attempted, GiveCoarse, FlowEnds
    <2>3. BeginFlow(p) \/ Check(p) \/ Save(p) => UNCHANGED <<lock, robbed>>
      BY DEF BeginFlow, Check, Save
    <2>4. Reread(p) \/ Backup(p) \/ WriteCheckpoint(p) \/ AppendEvent(p)
            => UNCHANGED <<lock, robbed>>
      BY DEF Reread, Backup, WriteCheckpoint, AppendEvent
    <2>5. (\E g \in Segments, op \in Ops : Begin(p, op, g)) => UNCHANGED <<lock, robbed>>
      BY DEF Begin
    <2>6. UNCHANGED <<lock, robbed>>  BY <1>8, <2>1, <2>2, <2>3, <2>4, <2>5 DEF Acts
    <2> QED  BY <1>8, <2>6 DEF Keeps
  <1> QED  BY <1>2, <1>3, <1>4, <1>5, <1>6, <1>7, <1>8

LEMMA LockStep ==
  ASSUME IInv, [Next]_vars
  PROVE  lock' \in LockFile /\ robbed' \in SUBSET Procs /\ LockHasOwner' /\ LockNamesIt'
  <1>0. /\ lock \in LockFile /\ robbed \in SUBSET Procs /\ LockHasOwner /\ LockNamesIt
    BY DEF IInv, TypeOK
  <1>1. CASE UNCHANGED <<disk, proc, robbed>> /\ (UNCHANGED lock \/ LockAges)
    <2>1. lock' = lock \/ lock' = [lock EXCEPT !.old = TRUE]  BY <1>1 DEF LockAges
    <2>2. lock' \in LockFile /\ lock'.by = lock.by /\ lock'.state = lock.state
      BY <1>0, <2>1 DEF LockFile
    <2> QED  BY <1>0, <1>1, <2>2 DEF LockHasOwner, LockNamesIt, Executing
  <1>2. ASSUME NEW p \in Procs, WriteManifest(p)
        PROVE  UNCHANGED <<lock, robbed>> /\ LockHasOwner' /\ LockNamesIt'
    <2>1. UNCHANGED <<lock, robbed>>  BY <1>2 DEF WriteManifest
    <2>2. \A q \in Procs : q \in Executing' => q \in Executing  BY <1>2, WriterContinues
    <2>3. Executing' \subseteq Procs  BY DEF Executing
    <2> QED  BY <1>0, <2>1, <2>2, <2>3 DEF LockHasOwner, LockNamesIt
  <1>3. ASSUME NEW p \in Procs, Acts(p)
        PROVE  /\ lock' \in LockFile /\ robbed' \in SUBSET Procs
               /\ LockHasOwner' /\ LockNamesIt'
    <2>1. /\ \A q \in Procs \ {p} : q \in Executing' => q \in Executing
          /\ p \in Executing' => p \in Executing \/ Enters(p)
          /\ Executing' \subseteq Procs
      BY <1>3, OthersStay, ActorContinues DEF Acts, Continues, Executing
    <2>2. CASE Removes(p)
      <3>1. lock' = NoLock /\ robbed' = (robbed \cup Owner) \ {p}
        BY <2>2 DEF Removes, RemoveLock
      <3>2. Owner \subseteq Procs
        BY <1>0 DEF Owner, LockHasOwner
      <3>3. \A q \in Executing' \ robbed' : FALSE
        <4> TAKE q \in Executing' \ robbed'
        <4>1. q # p /\ q \in Executing /\ q \notin robbed /\ q \notin Owner
          BY <2>1, <2>2, <3>1 DEF Removes
        <4>2. lock.by = q /\ lock.state \in {"bare", "owned"}
          BY <1>0, <4>1 DEF LockNamesIt
        <4> QED  BY <4>1, <4>2 DEF Owner
      <3>4. lock' \in LockFile /\ LockHasOwner'
        BY <3>1 DEF LockFile, NoLock, LockHasOwner
      <3> QED  BY <1>0, <3>1, <3>2, <3>3, <3>4 DEF LockNamesIt
    <2>3. CASE Keeps(p) /\ ~Enters(p)
      <3>1. robbed' = robbed /\ lock'.by = lock.by /\ lock' \in LockFile
        BY <1>0, <2>3 DEF Keeps, LockFile
      <3>2. \/ lock'.state = lock.state
            \/ lock.state = "bare" /\ lock'.state = "owned"
        BY <1>0, <2>3 DEF Keeps, LockFile
      <3>3. \A q \in Executing' : q \in Executing  BY <2>1, <2>3
      <3> QED  BY <1>0, <3>1, <3>2, <3>3 DEF LockHasOwner, LockNamesIt
    <2>4. CASE Dies(p)
      <3>1. robbed' = robbed \ {p} /\ lock'.by = lock.by /\ lock' \in LockFile
        BY <1>0, <2>4 DEF Dies, LockFile
      <3>2. LockHasOwner'
        BY <1>0, <2>4, <3>1 DEF Dies, LockHasOwner
      <3>3. ASSUME NEW q \in Executing' \ robbed'
            PROVE  lock'.by = q /\ lock'.state \in {"bare", "owned"}
        <4>1. q # p /\ q \in Executing /\ q \notin robbed  BY <2>1, <2>4, <3>1 DEF Dies
        <4>2. lock.by = q /\ lock.state \in {"bare", "owned"}
          BY <1>0, <4>1 DEF LockNamesIt
        <4> QED  BY <2>4, <4>1, <4>2 DEF Dies
      <3> QED  BY <1>0, <3>1, <3>2, <3>3 DEF LockNamesIt
    <2>5. CASE Takes(p)
      <3>1. /\ lock' \in LockFile /\ lock'.by = p /\ lock'.state = "bare"
            /\ robbed' = robbed \ {p} /\ lock.state = "free"
        BY <2>5 DEF Takes, LockFile
      <3>2. \A q \in Executing' \ robbed' : q = p
        <4> TAKE q \in Executing' \ robbed'
        <4> SUFFICES ASSUME q # p PROVE FALSE
          OBVIOUS
        <4>1. q \in Executing /\ q \notin robbed  BY <2>1, <3>1
        <4>2. lock.state \in {"bare", "owned"}  BY <1>0, <4>1 DEF LockNamesIt
        <4> QED  BY <3>1, <4>2
      <3> QED  BY <1>0, <3>1, <3>2 DEF LockHasOwner, LockNamesIt
    <2> QED  BY <1>3, <2>2, <2>3, <2>4, <2>5, LockUse
  <1> QED  BY <1>0, <1>1, <1>2, <1>3, WhoActs
-----------------------------------------------------------------------------
LEMMA ExclusionFromLock == LockNamesIt => ExecutionsExclude
  BY DEF LockNamesIt, ExecutionsExclude

(* Nobody writes the manifest between the reading and the writing of an      *)
(* execution that is alone, but those who take no lock.                    *)
LEMMA FreshStep ==
  ASSUME IInv, [Next]_vars
  PROVE  ListIsFresh'
  <1> SUFFICES ASSUME NEW q \in Procs, q \in Executing', q \notin robbed', q \in Holders',
                      ~proc'[q].clash
               PROVE  proc'[q].rows = disk'.manifest
    BY DEF ListIsFresh, Executing
  <1>0. Holding(q)'  BY DEF Holding
  <1>1. CASE UNCHANGED <<disk, proc, robbed>> /\ (UNCHANGED lock \/ LockAges)
    BY <1>1 DEF IInv, ListIsFresh, Executing, Holders
  <1>2. ASSUME NEW p \in Procs, Acts(p)  PROVE proc'[q].rows = disk'.manifest
    <2>1. disk'.manifest = disk.manifest
      <3>1. WriteCheckpoint(p) \/ AppendEvent(p) => disk'.manifest = disk.manifest
        BY DEF WriteCheckpoint, AppendEvent, IInv, TypeOK
      <3>2. Execute(p) => UNCHANGED disk
        BY DEF Execute, Look, Unlink, Create, Stamp, Read, Reject, Unlock
      <3>3. Flow(p) => UNCHANGED disk
        BY DEF Flow, Clear, Clearing, Targets, Attempt, Record, Attempted, GiveCoarse, FlowEnds
      <3>4. /\ BeginFlow(p) \/ Check(p) \/ Save(p) \/ Crash(p) \/ Reread(p) \/ Backup(p)
               => UNCHANGED disk
            /\ (\E g \in Segments, op \in Ops : Begin(p, op, g)) => UNCHANGED disk
        BY DEF BeginFlow, Check, Save, Crash, Reread, Backup, Begin
      <3> QED  BY <1>2, <3>1, <3>2, <3>3, <3>4 DEF Acts
    <2>2. CASE q = p
      <3>1. /\ robbed' = robbed
            /\ \/ proc'[q].rows = disk.manifest
               \/ /\ Holding(q) /\ proc'[q].rows = proc[q].rows
                  /\ proc'[q].clash = proc[q].clash
        BY <1>0, <1>2, <2>2, ActorContinues DEF Acts, Continues
      <3> QED  BY <2>1, <3>1 DEF IInv, ListIsFresh, Holding
    <2>3. CASE q # p
      <3>1. proc'[q] = proc[q] /\ Holding(q)  BY <1>0, <1>2, <2>3, OthersStay
      <3>2. q \notin robbed
        BY <1>2, <2>3, LockUse DEF Removes, RemoveLock, Keeps, Dies, Takes
      <3> QED  BY <2>1, <3>1, <3>2 DEF IInv, ListIsFresh, Holding
    <2> QED  BY <2>2, <2>3
  <1>3. ASSUME NEW p \in Procs, WriteManifest(p)  PROVE FALSE
    <2>1. UNCHANGED <<lock, robbed>>  BY <1>3 DEF WriteManifest
    <2>2. q # p /\ Holding(q) /\ q \notin robbed
      BY <1>0, <1>3, <2>1, WriterContinues
    <2>3. CASE Unprotected(p)
      <3>1. proc'[q] = [proc[q] EXCEPT !.clash = TRUE]  BY <1>3, <2>2, <2>3, WriterContinues
      <3>2. \A z \in Proc : [z EXCEPT !.clash = TRUE].clash  BY DEF Proc
      <3>3. proc[q] \in Proc  BY DEF IInv, TypeOK
      <3> QED  BY <3>1, <3>2, <3>3, Zenon
    <2>4. CASE ~Unprotected(p)
      <3>1. p \in Executing \ robbed /\ q \in Executing \ robbed
        BY <2>2, <2>4 DEF Unprotected, Holding
      <3> QED  BY <2>2, <3>1 DEF IInv, LockNamesIt
    <2> QED  BY <2>3, <2>4
  <1> QED  BY <1>1, <1>2, <1>3, WhoActs
-----------------------------------------------------------------------------
LEMMA CountsStep ==
  ASSUME IInv, [Next]_vars
  PROVE  report' \in SUBSET Pairs /\ starts' \in 0..MaxStarts /\ crashes' \in 0..MaxCrashes
  <1>0. report \in SUBSET Pairs /\ starts \in 0..MaxStarts /\ crashes \in 0..MaxCrashes
    BY DEF IInv, TypeOK
  <1>1. CASE UNCHANGED vars \/ LockAges  BY <1>0, <1>1 DEF vars, LockAges
  <1>2. ASSUME NEW p \in Procs, NEW g \in Segments, NEW op \in Ops, Begin(p, op, g)
        PROVE  UNCHANGED <<report, crashes>> /\ starts' \in 0..MaxStarts
    BY <1>0, <1>2, RecoveryAssumption DEF Begin
  <1>3. ASSUME NEW p \in Procs, BeginFlow(p)
        PROVE  UNCHANGED <<report, crashes>> /\ starts' \in 0..MaxStarts
    BY <1>0, <1>3, RecoveryAssumption DEF BeginFlow
  <1>4. ASSUME NEW p \in Procs, Crash(p)
        PROVE  UNCHANGED <<report, starts>> /\ crashes' \in 0..MaxCrashes
    BY <1>0, <1>4, RecoveryAssumption DEF Crash
  <1>5. ASSUME NEW p \in Procs, Record(p)
        PROVE  UNCHANGED <<starts, crashes>> /\ report' \in SUBSET Pairs
    <2> DEFINE x == proc[p]
    <2>1. x.seg \in Segments /\ x.strategy \in Strategies /\ x.mine \in SUBSET Pairs
      BY <1>5 DEF Record, At, IInv, AllGood, Good, Placed, Proc
    <2> QED  BY <1>5, <2>1 DEF Record, Pairs
  <1>6. ASSUME NEW p \in Procs, Check(p) \/ Save(p) \/ Execute(p) \/ Write(p)
        PROVE  UNCHANGED <<report, starts, crashes>>
    BY <1>6 DEF Check, Save, Execute, Look, Unlink, Create, Stamp, Read, Reject, Unlock, Write,
                Reread, Backup, WriteManifest, WriteCheckpoint, AppendEvent
  <1>7. ASSUME NEW p \in Procs, Flow(p), ~Record(p)
        PROVE  UNCHANGED <<report, starts, crashes>>
    BY <1>7 DEF Flow, Clear, Clearing, Targets, Attempt, Attempted, GiveCoarse, FlowEnds
  <1> QED  BY <1>0, <1>1, <1>2, <1>3, <1>4, <1>5, <1>6, <1>7 DEF Next

LEMMA ProcsStep ==
  ASSUME IInv, [Next]_vars
  PROVE  AllGood' /\ proc' \in [Procs -> Proc]
  <1>0. AllGood /\ TypeOK /\ proc \in [Procs -> Proc]  BY DEF IInv, TypeOK
  <1>1. CASE proc' = proc /\ backups' = backups  BY <1>0, <1>1 DEF AllGood
  <1>2. ASSUME NEW p \in Procs, Moves(p)  PROVE AllGood' /\ proc' \in [Procs -> Proc]
    <2>1. PICK x : Good(x, Len(backups')) /\ Goto(p, x)  BY <1>2 DEF Moves
    <2>2. Len(backups) \in Nat /\ Len(backups') \in Nat /\ Len(backups) <= Len(backups')
      BY <1>0, FilesStep DEF TypeOK
    <2> QED  BY <1>0, <2>1, <2>2, Moved
  <1>3. ASSUME NEW p \in Procs, WriteManifest(p)  PROVE AllGood' /\ proc' \in [Procs -> Proc]
    BY <1>3, ManifestMoves
  <1> QED  BY <1>1, <1>2, <1>3, StepMoves

(* IInv is inductive.                                                      *)
THEOREM RecoveryInvariance == Spec => []IInv
  <1>1. Init => IInv  BY InitHolds
  <1>2. IInv /\ [Next]_vars => IInv'
    <2> SUFFICES ASSUME IInv, [Next]_vars PROVE IInv'
      OBVIOUS
    <2>1. TypeOK'  BY FilesStep, LockStep, CountsStep, ProcsStep DEF TypeOK
    <2> QED  BY <2>1, FilesStep, LockStep, ProcsStep, FreshStep DEF IInv
  <1> QED  BY <1>1, <1>2, PTL DEF Spec

(* What the recovery reads and writes keeps its types.                     *)
THEOREM RecoveryTypeCorrect == Spec => []TypeOK
  <1>1. IInv => TypeOK  BY DEF IInv
  <1> QED  BY <1>1, RecoveryInvariance, PTL

(* Whatever writers overlap and die, every recovered row leads back through  *)
(* backups that exist to a row as the align stage left it.                  *)
THEOREM ReversibleAlways == Spec => []Reversible
  <1>1. IInv => Reversible  BY DEF IInv
  <1> QED  BY <1>1, RecoveryInvariance, PTL

(* _execution_lock keeps executions apart, but for those robbed of it.      *)
THEOREM ExecutionsExcludeAlways == Spec => []ExecutionsExclude
  <1>1. IInv => ExecutionsExclude  BY ExclusionFromLock DEF IInv
  <1> QED  BY <1>1, RecoveryInvariance, PTL

(* An execution that is not robbed loses no other execution's update.       *)
THEOREM ListIsFreshAlways == Spec => []ListIsFresh
  <1>1. IInv => ListIsFresh  BY DEF IInv
  <1> QED  BY <1>1, RecoveryInvariance, PTL
-----------------------------------------------------------------------------
(* RecoveryTimes.  Rows lie within their segments.                         *)
TimedRow      == [how : {"align", "failed"} \cup T!Strategies \cup {"coarse"}, from : Int, to : Int]
RowFits(g, x) == x \in TimedRow /\ x.from >= Bounds[g][1] /\ x.to <= Bounds[g][2]
ListFits(rows) == rows \in [T!Segs -> TimedRow] /\ \A g \in T!Segs : RowFits(g, rows[g])

(* The rows that an undo brings back beside the neighbours they had.       *)
Back == [g \in T!Segs |-> IF g \in reverted THEN T!NoRow ELSE undo[g]]

Checked(x) == x.how \in {"mfa-local", "coarse"}
Apart(x, y) == Checked(x) /\ Checked(y) => x.to - y.from <= MaxOverlap

(* x as row of g suits its neighbours in rows, and those that may come     *)
(* back, but for the excused.                                              *)
Suits(g, x, rows, back, exc) ==
    \A h \in T!Segs \ exc :
        /\ h = g + 1 => Apart(x, rows[h]) /\ Apart(x, back[h])
        /\ g = h + 1 => Apart(rows[h], x) /\ Apart(back[h], x)

(* A guard that lets a new row pass a row in the list lets it pass the one *)
(* that may come back in its place: the range of a row with tokens is that *)
(* of its segment.                                                         *)
Tokens(x) == x.how \in {"align", "qwen", "mfa-local"}
Covers(x, y) == Checked(y) => Tokens(x) \/ x = y

Sound(rows, back, exc) ==
    /\ ListFits(rows)
    /\ \A g \in T!Segs \ exc : /\ Suits(g, rows[g], rows, back, exc)
                               /\ Suits(g, back[g], rows, back, exc)
                               /\ Covers(rows[g], back[g])

ExecOK  == exec # T!None => /\ exec.seg \in T!Segs /\ exec.how \in T!Strategies
                            /\ Sound(exec.rows, Back, raced)
OfferOK == offer # T!None => /\ offer.seg \in T!Segs /\ ListFits(offer.rows)
                             /\ offer.span \in Int \X Int
                             /\ offer.rows[offer.seg].how = "failed"
                             /\ T!CoarseGuard(offer.rows, offer.seg, offer.span)
HeardOK == heard \in [T!Segs -> SUBSET (Int \X Int)]
UndoOK  == /\ undo \in [T!Segs -> TimedRow \cup {T!NoRow}]
           /\ \A g \in T!Segs : undo[g] # T!NoRow => RowFits(g, undo[g])
MarksOK == reverted \subseteq T!Segs /\ raced \subseteq T!Segs

TimesIInv == Sound(row, Back, raced) /\ UndoOK /\ HeardOK /\ MarksOK /\ ExecOK /\ OfferOK
-----------------------------------------------------------------------------
LEMMA BoundsAreTimes ==
  /\ T!Segs \subseteq Nat /\ MaxOverlap \in Nat
  /\ \A g \in T!Segs : /\ Bounds[g] \in Nat \X Nat /\ Bounds[g][1] \in Nat /\ Bounds[g][2] \in Nat
                       /\ Bounds[g][1] < Bounds[g][2]
<1>1. Bounds \in Seq(Nat \X Nat)  BY TimesAssumption
<1>2. T!Segs = 1..Len(Bounds) /\ Len(Bounds) \in Nat  BY <1>1 DEF T!Segs
<1>3. \A g \in T!Segs : Bounds[g] \in Nat \X Nat  BY <1>1, <1>2
<1> QED BY <1>2, <1>3, TimesAssumption DEF T!Segs

LEMMA SpansAreTimes == ASSUME NEW g \in T!Segs PROVE T!Spans \subseteq Int \X Int
<1>1. Bounds \in Seq(Nat \X Nat)  BY TimesAssumption
<1>2. Len(Bounds) \in T!Segs  BY <1>1 DEF T!Segs
<1>3. Bounds[Len(Bounds)][2] \in Nat  BY <1>2, BoundsAreTimes
<1>4. T!Times \subseteq Int  BY <1>3 DEF T!Times
<1> QED BY <1>4 DEF T!Spans

LEMMA NothingChecked == ~Checked(T!NoRow)
BY DEF Checked, T!NoRow

(* More is excused, or what would come back does no longer.                *)
LEMMA StaysSound ==
  ASSUME NEW rows, NEW back, NEW exc, Sound(rows, back, exc), NEW back2, NEW exc2, exc \subseteq exc2,
         \A g \in T!Segs \ exc2 : back2[g] = back[g] \/ ~Checked(back2[g])
  PROVE  Sound(rows, back2, exc2)
<1>1. ASSUME NEW g \in T!Segs \ exc2
      PROVE  /\ Suits(g, rows[g], rows, back2, exc2) /\ Suits(g, back2[g], rows, back2, exc2)
             /\ Covers(rows[g], back2[g])
  <2>1. g \in T!Segs \ exc  BY <1>1
  <2>2. /\ Suits(g, rows[g], rows, back, exc) /\ Suits(g, back[g], rows, back, exc)
        /\ Covers(rows[g], back[g])
    BY <2>1 DEF Sound
  <2>3. ASSUME NEW x, Suits(g, x, rows, back, exc)  PROVE Suits(g, x, rows, back2, exc2)
    BY <2>3 DEF Suits, Apart
  <2>4. Suits(g, back2[g], rows, back2, exc2)
    BY <2>2, <2>3, <1>1 DEF Suits, Apart
  <2> QED BY <2>2, <2>3, <2>4, <1>1 DEF Covers
<1> QED BY <1>1 DEF Sound

(* One row is replaced.                                                    *)
LEMMA Replaced ==
  ASSUME NEW rows, NEW back, NEW exc, Sound(rows, back, exc), NEW back2, NEW exc2, exc \subseteq exc2,
         NEW g \in T!Segs, NEW x, RowFits(g, x),
         \A h \in T!Segs \ exc2 : h # g => back2[h] = back[h],
         g \notin exc2 => /\ Suits(g, x, rows, back, exc) /\ Suits(g, back2[g], rows, back, exc)
                          /\ Covers(x, back2[g])
  PROVE  Sound([rows EXCEPT ![g] = x], back2, exc2)
<1> DEFINE new == [rows EXCEPT ![g] = x]
<1>1. ListFits(rows)  BY DEF Sound
<1>2. new[g] = x /\ \A h \in T!Segs : h # g => new[h] = rows[h]
  BY <1>1 DEF ListFits
<1>3. ListFits(new)
  <2>1. x \in TimedRow  BY DEF RowFits
  <2>2. new \in [T!Segs -> TimedRow]  BY <1>1, <2>1 DEF ListFits
  <2> HIDE DEF new
  <2> QED BY <1>1, <1>2, <2>2 DEF ListFits
<1> HIDE DEF new
<1>4. ASSUME NEW h \in T!Segs \ exc2
      PROVE  /\ Suits(h, new[h], new, back2, exc2) /\ Suits(h, back2[h], new, back2, exc2)
             /\ Covers(new[h], back2[h])
  <2>1. g # g + 1 /\ h # h + 1  BY BoundsAreTimes
  <2>2. CASE h = g
    <3>1. \A y : Suits(g, y, rows, back, exc) => Suits(g, y, new, back2, exc2)
      BY <2>1, <1>2 DEF Suits
    <3> QED BY <3>1, <2>2, <1>2
  <2>3. CASE h # g
    <3>1. /\ Suits(h, rows[h], rows, back, exc) /\ Suits(h, back[h], rows, back, exc)
          /\ Covers(rows[h], back[h])
      BY DEF Sound
    <3>2. ASSUME NEW y, Suits(h, y, rows, back, exc), y = rows[h] \/ y = back[h]
          PROVE  Suits(h, y, new, back2, exc2)
      <4> SUFFICES ASSUME NEW k \in T!Segs \ exc2
                   PROVE  /\ k = h + 1 => Apart(y, new[k]) /\ Apart(y, back2[k])
                          /\ h = k + 1 => Apart(new[k], y) /\ Apart(back2[k], y)
        BY DEF Suits
      <4>1. CASE k = g
        <5>1. Suits(g, x, rows, back, exc) /\ Suits(g, back2[g], rows, back, exc)  BY <4>1
        <5> QED BY <5>1, <4>1, <3>2, <1>2, <2>3 DEF Suits
      <4>2. CASE k # g
        BY <4>2, <3>2, <1>2 DEF Suits
      <4> QED BY <4>1, <4>2
    <3> QED BY <3>1, <3>2, <2>3, <1>2
  <2> QED BY <2>2, <2>3
<1>5. Sound(new, back2, exc2)  BY <1>3, <1>4 DEF Sound
<1> QED BY <1>5 DEF new

(* _neighbor_guard and _coarse_proposal: what passes them suits.           *)
InRange(g, x, rows) ==
    /\ g + 1 \in T!Segs /\ rows[g + 1].how # "failed" => x.to - T!RangeOf(rows, g + 1)[1] <= MaxOverlap
    /\ g - 1 \in T!Segs /\ rows[g - 1].how # "failed" => T!RangeOf(rows, g - 1)[2] - x.from <= MaxOverlap

LEMMA GuardedSuits ==
  ASSUME NEW rows, NEW back, NEW exc, Sound(rows, back, exc),
         \A h \in T!Segs : Checked(back[h]) => RowFits(h, back[h]),
         NEW g \in T!Segs, NEW x, RowFits(g, x), InRange(g, x, rows)
  PROVE  Suits(g, x, rows, back, exc)
<1> SUFFICES ASSUME NEW h \in T!Segs \ exc
             PROVE  /\ h = g + 1 => Apart(x, rows[h]) /\ Apart(x, back[h])
                    /\ g = h + 1 => Apart(rows[h], x) /\ Apart(back[h], x)
  BY DEF Suits
<1>1. RowFits(h, rows[h])  BY DEF Sound, ListFits
<1>2. x.from \in Int /\ x.to \in Int /\ rows[h].from \in Int /\ rows[h].to \in Int
  BY <1>1 DEF RowFits, TimedRow
<1>3. /\ MaxOverlap \in Int /\ h \in Int /\ g \in Int
      /\ Bounds[h][1] \in Int /\ Bounds[h][2] \in Int
  BY BoundsAreTimes
<1>4. Checked(back[h]) => back[h].from \in Int /\ back[h].to \in Int
                          /\ back[h].from >= Bounds[h][1] /\ back[h].to <= Bounds[h][2]
  BY DEF RowFits, TimedRow
<1>5. rows[h].from >= Bounds[h][1] /\ rows[h].to <= Bounds[h][2]
  BY <1>1 DEF RowFits
<1>6. Covers(rows[h], back[h])  BY DEF Sound
<1>7. CASE h = g + 1
  <2>1. rows[h].how # "failed" => x.to - T!RangeOf(rows, h)[1] <= MaxOverlap
    BY <1>7 DEF InRange
  <2>2. Apart(x, rows[h])
    BY <2>1, <1>2, <1>3, <1>5 DEF Apart, Checked, T!RangeOf
  <2>3. Apart(x, back[h])
    BY <2>1, <1>2, <1>3, <1>4, <1>6 DEF Apart, Covers, Tokens, Checked, T!RangeOf
  <2> QED BY <2>2, <2>3, <1>7, <1>3
<1>8. CASE g = h + 1
  <2>1. h = g - 1  BY <1>8, <1>3
  <2>2. rows[h].how # "failed" => T!RangeOf(rows, h)[2] - x.from <= MaxOverlap
    BY <2>1 DEF InRange
  <2>3. Apart(rows[h], x)
    BY <2>2, <1>2, <1>3, <1>5 DEF Apart, Checked, T!RangeOf
  <2>4. Apart(back[h], x)
    BY <2>2, <1>2, <1>3, <1>4, <1>6 DEF Apart, Covers, Tokens, Checked, T!RangeOf
  <2> QED BY <2>3, <2>4, <1>8, <1>3
<1> QED BY <1>7, <1>8

LEMMA BackFits == UndoOK => \A h \in T!Segs : Checked(Back[h]) => RowFits(h, Back[h])
BY NothingChecked DEF UndoOK, Back
-----------------------------------------------------------------------------
LEMMA InitTimes == T!Init => TimesIInv
<1> SUFFICES ASSUME T!Init PROVE TimesIInv
  OBVIOUS
<1>1. ListFits(row)
  <2>1. PICK failed \in SUBSET T!Segs :
           row = [g \in T!Segs |-> IF g \in failed THEN T!Failed(g)
                    ELSE [how |-> "align", from |-> Bounds[g][1], to |-> Bounds[g][2]]]
    BY DEF T!Init
  <2>2. ASSUME NEW g \in T!Segs
        PROVE  \E how \in {"align", "failed"} :
                  row[g] = [how |-> how, from |-> Bounds[g][1], to |-> Bounds[g][2]]
    BY <2>1 DEF T!Failed
  <2>3. \A g \in T!Segs : row[g] \in TimedRow /\ RowFits(g, row[g])
    <3> TAKE g \in T!Segs
    <3>1. PICK how \in {"align", "failed"} :
             row[g] = [how |-> how, from |-> Bounds[g][1], to |-> Bounds[g][2]]
      BY <2>2
    <3>2. Bounds[g][1] \in Int /\ Bounds[g][2] \in Int
      BY BoundsAreTimes
    <3>3. row[g].from = Bounds[g][1] /\ row[g].to = Bounds[g][2] /\ row[g] \in TimedRow
      BY <3>1, <3>2 DEF TimedRow
    <3> QED BY <3>2, <3>3 DEF RowFits
  <2>4. DOMAIN row = T!Segs /\ row = [g \in T!Segs |-> row[g]]
    BY <2>1
  <2> QED BY <2>3, <2>4 DEF ListFits
<1>2. \A g \in T!Segs : Back[g] = T!NoRow
  BY DEF T!Init, Back
<1>3. \A g \in T!Segs : ~Checked(row[g])
  BY DEF T!Init, Checked, T!Failed
<1>4. Sound(row, Back, raced)
  BY <1>1, <1>2, <1>3, NothingChecked DEF Sound, Suits, Apart, Covers
<1>5. UndoOK /\ HeardOK /\ MarksOK
  BY DEF T!Init, UndoOK, HeardOK, MarksOK
<1>6. ExecOK /\ OfferOK
  BY DEF T!Init, ExecOK, OfferOK
<1> QED BY <1>4, <1>5, <1>6 DEF TimesIInv

LEMMA StepBegin ==
  ASSUME TimesIInv, NEW g \in T!Segs, NEW how \in T!Strategies, T!Begin(g, how)  PROVE TimesIInv'
<1>1. Back' = Back /\ raced' = raced /\ row' = row  BY DEF T!Begin, Back
<1>2. ExecOK'
  BY <1>1 DEF T!Begin, ExecOK, TimesIInv
<1> QED BY <1>1, <1>2 DEF T!Begin, TimesIInv, UndoOK, HeardOK, MarksOK, OfferOK

LEMMA StepAccept ==
  ASSUME TimesIInv, NEW saves \in BOOLEAN, T!Accept(saves)  PROVE TimesIInv'
<1> DEFINE g == exec.seg
           rows == exec.rows
<1>1. g \in T!Segs /\ exec.how \in T!Strategies /\ Sound(rows, Back, raced)
  BY DEF TimesIInv, ExecOK, T!Accept
<1>2. PICK s \in T!Results(rows, g, exec.how) :
         row' = [rows EXCEPT ![g] = [how |-> exec.how, from |-> s[1], to |-> s[2]]]
  BY DEF T!Accept, T!Replace
<1> DEFINE x == [how |-> exec.how, from |-> s[1], to |-> s[2]]
<1>3. s \in Int \X Int /\ T!Inside(g, s)
  <2>1. g \in T!Segs  BY <1>1
  <2> HIDE DEF g, rows, x
  <2>2. CASE exec.how = "qwen"
    <3>1. s = Bounds[g]  BY <2>2, <1>2 DEF T!Results
    <3> QED BY <3>1, <2>1, BoundsAreTimes DEF T!Inside
  <2>3. CASE exec.how # "qwen"
    <3>1. s \in T!Exact(g)  BY <2>3, <1>2 DEF T!Results
    <3>2. s \in T!Spans /\ T!Inside(g, s)  BY <3>1 DEF T!Exact
    <3> QED BY <3>2, <2>1, SpansAreTimes
  <2> QED BY <2>2, <2>3
<1>4. RowFits(g, x)
  BY <1>1, <1>3 DEF RowFits, TimedRow, T!Inside
<1>5. Suits(g, x, rows, Back, raced)
  <2>1. CASE exec.how = "qwen"
    BY <2>1 DEF Suits, Apart, Checked
  <2>2. CASE exec.how = "mfa-local"
    <3>1. T!NeighborGuard(rows, g, s)
      BY <2>2 DEF T!Results
    <3>2. \A h \in T!Segs : /\ rows[h].from \in Int /\ rows[h].to \in Int
                            /\ Bounds[h][1] \in Int /\ Bounds[h][2] \in Int
      <4>1. ListFits(rows)  BY <1>1 DEF Sound
      <4> HIDE DEF rows
      <4> QED BY <4>1, BoundsAreTimes DEF ListFits, RowFits, TimedRow
    <3>3. x.from = s[1] /\ x.to = s[2] /\ s[1] \in Int /\ s[2] \in Int /\ MaxOverlap \in Nat
      BY <1>3, BoundsAreTimes
    <3> HIDE DEF x
    <3>4. InRange(g, x, rows)
      BY <3>1, <3>2, <3>3 DEF InRange, T!NeighborGuard, T!Timed, T!RangeOf
    <3>5. UndoOK  BY DEF TimesIInv
    <3> QED BY <3>4, <3>5, <1>1, <1>4, GuardedSuits, BackFits
  <2> QED BY <2>1, <2>2, <1>1 DEF T!Strategies
<1>6. raced' = raced /\ heard' = heard /\ offer' = offer /\ exec' = T!None
  BY DEF T!Accept
<1>7. \A h \in T!Segs : h # g => Back'[h] = Back[h]
  BY <1>1 DEF T!Accept, Back, TimesIInv, UndoOK
<1>8. g \notin raced => Suits(g, Back'[g], rows, Back, raced)
  <2> SUFFICES ASSUME g \notin raced PROVE Suits(g, Back'[g], rows, Back, raced)
    OBVIOUS
  <2>1. CASE ~saves
    <3>1. Back' = Back  BY <2>1 DEF T!Accept, Back
    <3> QED BY <3>1, <1>1 DEF Sound
  <2>2. CASE saves /\ ~T!Beside(g, rows)
    <3>1. Back'[g] = T!NoRow  BY <2>2, <1>1 DEF T!Accept, Back
    <3> QED BY <3>1, NothingChecked DEF Suits, Apart
  <2>3. CASE saves /\ T!Beside(g, rows)
    <3>1. Back'[g] = row[g]
      BY <2>3, <1>1 DEF T!Accept, Back, TimesIInv, UndoOK
    <3>2. Suits(g, row[g], row, Back, raced)
      BY <1>1 DEF TimesIInv, Sound
    <3>3. \A h \in T!Segs : h = g + 1 \/ g = h + 1 => row[h] = rows[h]
      BY <2>3, BoundsAreTimes, <1>1 DEF T!Beside
    <3> QED BY <3>1, <3>2, <3>3 DEF Suits
  <2> QED BY <2>1, <2>2, <2>3
<1>9. Covers(x, Back'[g]) \/ g \in raced
  <2>1. Tokens(x)  BY <1>1 DEF Tokens, T!Strategies
  <2> QED BY <2>1 DEF Covers
<1>10. Sound(row', Back', raced')
  <2>1. row' = [rows EXCEPT ![g] = x]  BY <1>2
  <2>2. /\ \A h \in T!Segs \ raced : h # g => Back'[h] = Back[h]
        /\ g \notin raced => /\ Suits(g, x, rows, Back, raced) /\ Suits(g, Back'[g], rows, Back, raced)
                             /\ Covers(x, Back'[g])
    BY <1>5, <1>7, <1>8, <1>9
  <2>3. g \in T!Segs /\ Sound(rows, Back, raced) /\ RowFits(g, x) /\ raced \subseteq raced
    BY <1>1, <1>4
  <2> HIDE DEF x, g, rows
  <2>4. Sound([rows EXCEPT ![g] = x], Back', raced)
    BY <2>2, <2>3, Replaced
  <2> QED BY <2>1, <2>4, <1>6
<1>11. UndoOK' /\ MarksOK'
  <2>1. row[g] \in TimedRow /\ RowFits(g, row[g])
    BY <1>1 DEF TimesIInv, Sound, ListFits
  <2>2. undo' = undo \/ undo' = [undo EXCEPT ![g] = row[g]]
    BY DEF T!Accept
  <2> QED BY <1>1, <1>6, <2>1, <2>2 DEF T!Accept, TimesIInv, UndoOK, MarksOK
<1> QED BY <1>6, <1>10, <1>11 DEF TimesIInv, HeardOK, ExecOK, OfferOK

LEMMA StepLocalize ==
  ASSUME TimesIInv, NEW g \in T!Segs, T!Localize(g, T!Found(g))  PROVE TimesIInv'
<1>1. T!Found(g) \subseteq Int \X Int
  BY BoundsAreTimes DEF T!Found, T!Length
<1>2. ASSUME NEW region \in Int \X Int  PROVE T!Placed(g, region) \in Int \X Int
  <2>1. region[1] \in Int /\ region[2] \in Int  BY <1>2
  <2> QED BY <2>1, BoundsAreTimes DEF T!Placed, T!AtMost, T!AtLeast
<1>3. T!Regions(g, T!Found(g)) \subseteq Int \X Int
  BY <1>1, <1>2 DEF T!Regions
<1>4. HeardOK'
  <2> DEFINE found == T!Regions(g, T!Found(g))
  <2>1. heard' = [heard EXCEPT ![g] = found]  BY DEF T!Localize
  <2> HIDE DEF found
  <2> QED BY <2>1, <1>3 DEF TimesIInv, HeardOK, found
<1>5. Back' = Back  BY DEF T!Localize, Back
<1> QED BY <1>4, <1>5 DEF T!Localize, TimesIInv, UndoOK, MarksOK, ExecOK, OfferOK

LEMMA StepPropose ==
  ASSUME TimesIInv, NEW g \in T!Segs, T!Propose(g)  PROVE TimesIInv'
<1>1. PICK span \in T!Chosen(g) : /\ T!CoarseGuard(row, g, span)
                                  /\ offer' = [seg |-> g, span |-> span, rows |-> row]
  BY DEF T!Propose
<1>2. span \in Int \X Int
  BY SpansAreTimes DEF T!Chosen, TimesIInv, HeardOK
<1>3. row[g].how = "failed" /\ ListFits(row)
  BY DEF T!Propose, TimesIInv, Sound
<1>4. OfferOK'
  BY <1>1, <1>2, <1>3 DEF OfferOK, ListFits, RowFits, TimedRow
<1>5. Back' = Back  BY DEF T!Propose, Back
<1> QED BY <1>4, <1>5 DEF T!Propose, TimesIInv, UndoOK, MarksOK, ExecOK, HeardOK

LEMMA StepApply == ASSUME TimesIInv, T!Apply  PROVE TimesIInv'
<1> DEFINE g == offer.seg
           x == [how |-> "coarse", from |-> offer.span[1], to |-> offer.span[2]]
<1>1. /\ g \in T!Segs /\ ListFits(offer.rows) /\ offer.rows[g].how = "failed"
      /\ T!CoarseGuard(offer.rows, g, offer.span)
      /\ offer.span[1] \in Int /\ offer.span[2] \in Int
  BY DEF TimesIInv, OfferOK, T!Apply
<1>2. row' = [row EXCEPT ![g] = x]
  BY DEF T!Apply, T!Replace
<1>3. RowFits(g, x)
  BY <1>1 DEF RowFits, TimedRow, T!CoarseGuard, T!Inside
<1>4. raced \subseteq raced' /\ raced' \subseteq T!Segs /\ reverted' \subseteq T!Segs
  BY <1>1 DEF T!Apply, TimesIInv, MarksOK
<1>5. ListFits(row) /\ RowFits(g, row[g]) /\ row[g] \in TimedRow
  BY <1>1 DEF TimesIInv, Sound, ListFits
<1>6. \A h \in T!Segs : h # g => Back'[h] = Back[h]
  BY <1>1 DEF T!Apply, Back, TimesIInv, UndoOK
<1>7. Back'[g] = row[g]
  BY <1>1 DEF T!Apply, Back, TimesIInv, UndoOK
<1>8. g \notin raced' => row[g].how = "failed" /\ T!Beside(g, offer.rows)
  BY <1>1 DEF T!Apply
<1>9. g \notin raced' => Suits(g, x, row, Back, raced)
  <2> SUFFICES ASSUME g \notin raced' PROVE Suits(g, x, row, Back, raced)
    OBVIOUS
  <2>1. \A h \in T!Segs : h = g + 1 \/ h = g - 1 => row[h] = offer.rows[h]
    BY <1>8 DEF T!Beside
  <2>2. x.from = offer.span[1] /\ x.to = offer.span[2]
    OBVIOUS
  <2> HIDE DEF x
  <2>3. InRange(g, x, row)
    BY <2>1, <2>2, <1>1 DEF InRange, T!CoarseGuard, T!RangeOf
  <2>4. UndoOK /\ Sound(row, Back, raced)  BY DEF TimesIInv
  <2> QED BY <2>3, <2>4, <1>1, <1>3, GuardedSuits, BackFits
<1>10. g \notin raced' => ~Checked(Back'[g])
  BY <1>7, <1>8 DEF Checked
<1>11. Sound(row', Back', raced')
  <2>1. g \notin raced' => /\ Suits(g, Back'[g], row, Back, raced) /\ Covers(x, Back'[g])
    BY <1>10 DEF Suits, Apart, Covers
  <2>2. Sound(row, Back, raced)  BY DEF TimesIInv
  <2> HIDE DEF g, x
  <2>3. Sound([row EXCEPT ![g] = x], Back', raced')
    BY <2>1, <2>2, <1>1, <1>3, <1>4, <1>6, <1>9, Replaced
  <2> QED BY <2>3, <1>2
<1>12. ExecOK'
  <2>1. exec' = exec  BY DEF T!Apply
  <2>2. \A h \in T!Segs \ raced' : Back'[h] = Back[h] \/ ~Checked(Back'[h])
    BY <1>6, <1>10
  <2>3. ASSUME exec # T!None  PROVE Sound(exec.rows, Back', raced')
    <3>1. Sound(exec.rows, Back, raced)  BY <2>3 DEF TimesIInv, ExecOK
    <3> QED BY <3>1, <2>2, <1>4, StaysSound
  <2> QED BY <2>1, <2>3 DEF TimesIInv, ExecOK
<1>13. UndoOK'
  <2>1. undo' = [undo EXCEPT ![g] = row[g]]  BY DEF T!Apply
  <2> QED BY <1>1, <1>5, <2>1 DEF TimesIInv, UndoOK
<1> QED BY <1>4, <1>11, <1>12, <1>13 DEF T!Apply, TimesIInv, HeardOK, MarksOK, OfferOK

LEMMA StepUndo == ASSUME TimesIInv, NEW g \in T!Segs, T!Undo(g)  PROVE TimesIInv'
<1>1. Back' = Back  BY DEF T!Undo, Back
<1>2. raced \subseteq raced' /\ raced' \subseteq T!Segs
  BY DEF T!Undo, TimesIInv, MarksOK
<1>3. RowFits(g, undo[g])  BY DEF T!Undo, TimesIInv, UndoOK
<1>4. Sound(row, Back, raced)  BY DEF TimesIInv
<1>5. g \notin raced' => Back[g] = undo[g]
  BY DEF T!Undo, Back
<1>6. g \notin raced' => /\ Suits(g, undo[g], row, Back, raced) /\ Suits(g, Back[g], row, Back, raced)
                         /\ Covers(undo[g], Back[g])
  BY <1>2, <1>4, <1>5 DEF Sound, Covers
<1>7. Sound([row EXCEPT ![g] = undo[g]], Back, raced')
  BY <1>2, <1>3, <1>4, <1>6, Replaced
<1>8. Sound(row', Back', raced')
  BY <1>1, <1>7 DEF T!Undo, T!Replace
<1>9. ExecOK'
  <2>1. exec' = exec  BY DEF T!Undo
  <2>2. ASSUME exec # T!None  PROVE Sound(exec.rows, Back', raced')
    <3>1. Sound(exec.rows, Back, raced)  BY <2>2 DEF TimesIInv, ExecOK
    <3> QED BY <3>1, <1>1, <1>2, StaysSound
  <2> QED BY <2>1, <2>2 DEF TimesIInv, ExecOK
<1> QED BY <1>2, <1>8, <1>9 DEF T!Undo, TimesIInv, UndoOK, HeardOK, MarksOK, OfferOK

LEMMA StepTimes == TimesIInv /\ [T!Next]_T!vars => TimesIInv'
<1> SUFFICES ASSUME TimesIInv, [T!Next]_T!vars PROVE TimesIInv'
  OBVIOUS
<1>1. CASE T!Reject
  <2>1. Back' = Back  BY <1>1 DEF T!Reject, Back
  <2> QED BY <1>1, <2>1 DEF T!Reject, TimesIInv, UndoOK, HeardOK, MarksOK, ExecOK, OfferOK
<1>2. CASE UNCHANGED T!vars
  <2>1. Back' = Back  BY <1>2 DEF T!vars, Back
  <2> QED BY <1>2, <2>1 DEF T!vars, TimesIInv, UndoOK, HeardOK, MarksOK, ExecOK, OfferOK
<1> QED BY <1>1, <1>2, StepBegin, StepAccept, StepLocalize, StepPropose, StepApply, StepUndo DEF T!Next

THEOREM TimesInvariance == T!Spec => []TimesIInv
BY InitTimes, StepTimes, PTL DEF T!Spec

(* Between two recovered neighbours there is at most the overlap that is   *)
(* tolerated, for any number of segments, however they overlap, and any    *)
(* sequence of executions, coarse acceptances and undos.                   *)
THEOREM RecoveredApartAlways == T!Spec => []RecoveredApart
<1>1. TimesIInv => RecoveredApart
  <2> SUFFICES ASSUME TimesIInv, NEW g \in T!Segs, g + 1 \in T!Segs, T!Guarded(g), T!Guarded(g + 1)
               PROVE  row[g].to - row[g + 1].from <= MaxOverlap
    BY DEF RecoveredApart, T!RecoveredApart
  <2>1. Suits(g, row[g], row, Back, raced)
    BY DEF TimesIInv, Sound, T!Guarded
  <2>2. Apart(row[g], row[g + 1])
    BY <2>1 DEF Suits, T!Guarded
  <2> QED BY <2>2 DEF Apart, Checked, T!Guarded
<1> QED BY <1>1, TimesInvariance, PTL
-----------------------------------------------------------------------------
(* MfaExperiment.  The candidates and runs there can be, so that left and  *)
(* runs have a range.                                                      *)
AllCandidates == UNION {M!Collected(read) : read \in Reports}
AllLabs == UNION {M!LabTexts(c) : c \in AllCandidates}
AllRuns == {M!Nothing("skipped", M!NoCandidate)} \cup UNION {M!Aligned(c, lab) : c \in AllCandidates, lab \in AllLabs}

(* What the guards of a run vouch for. *)
Vouched(r) ==
    /\ r.guard => /\ M!Overlap(r.candidate, r.start, r.end)
                  /\ Match[r.candidate.text, r.text] >= LowScore
    /\ r.dry => /\ r.candidate.source = "ass-quality-diff"
                /\ Match[r.candidate.text, r.text] >= r.candidate.details.current

MfaTypes == /\ left \subseteq AllCandidates
            /\ runs \in Seq(AllRuns)
            /\ items \in Seq([status : {"REJECT", "APPLY", "APPLIED"}, row : {0} \cup DOMAIN lines])
            /\ DOMAIN draft = DOMAIN lines
            /\ Len(items) <= Len(runs) /\ (pc = "align" => items = <<>>)
(* A row was moved if and only if a run was applied to it, and then only   *)
(* with --mfa-local-writeback apply.                                       *)
AppliedIsMoved == /\ \A k \in M!Applied : items[k].row \in DOMAIN lines /\ draft[items[k].row].moved # {}
                  /\ M!Applied # {} => mode = "apply"
FileIsTheDraft == output = IF pc = "done" /\ mode = "apply" /\ M!Applied # {} THEN {draft} ELSE {}

MfaIInv == /\ MfaTypes
           /\ \A k \in DOMAIN runs : Vouched(runs[k])
           /\ M!RowsAreJustified
           /\ AppliedIsMoved
           /\ FileIsTheDraft
           /\ M!FailuresFirst

(* Only a comparison of two reports knows the score before.                *)
LEMMA BaselineIsOfDiff ==
    ASSUME NEW c \in AllCandidates, c.details.previous # M!None
    PROVE  c.source = "ass-quality-diff"
<1> PICK read \in Reports : c \in M!Collected(read)
  BY DEF AllCandidates
<1>1. CASE c \in M!FromContent(read.content)
  BY <1>1 DEF M!FromContent, M!Candidate, M!NoDetails, M!Details
<1>2. CASE c \in M!FromRealign(read.realign)
  BY <1>2 DEF M!FromRealign, M!Candidate, M!NoDetails, M!Details
<1>3. CASE c \in M!FromAss(read.ass)
  BY <1>3 DEF M!FromAss, M!Candidate, M!Details
<1>4. CASE c \in M!FromDiff(read.diff)
  BY <1>4 DEF M!FromDiff, M!Candidate
<1>5. CASE c \in M!FromMimo(read.mimo)
  BY <1>5 DEF M!FromMimo, M!Candidate, M!NoDetails, M!Details
<1> QED BY <1>1, <1>2, <1>3, <1>4, <1>5 DEF M!Collected

(* A run is about its candidate, and its guards hold of it.                *)
LEMMA RunsVouch ==
    ASSUME NEW c \in AllCandidates, NEW lab, NEW r \in M!Aligned(c, lab)
    PROVE  r.candidate = c /\ Vouched(r)
<1>1. CASE \E status \in {"skipped", "failed"} : r = M!Nothing(status, c)
  BY <1>1 DEF M!Nothing, M!Run, Vouched
<1>2. ASSUME NEW answer \in Answers, r = M!MfaResult(c, lab, answer)
      PROVE  r.candidate = c /\ Vouched(r)
  <2> DEFINE words == M!Globalized(answer.words, M!ClipStart(c))
             text  == IF answer.text = Empty THEN lab ELSE answer.text
             start == IF words = {} THEN M!None ELSE M!Earliest(words)
             end   == IF words = {} THEN M!None ELSE M!Latest(words)
             guard == words # {} /\ M!LocalGuard(c, text, words, start, end)
             dry   == guard /\ M!DryRun(c, text)
             status == IF answer.ok THEN "completed" ELSE "failed"
  <2>1. r = [status |-> status, candidate |-> c, text |-> text, start |-> start, end |-> end,
             guard |-> guard, dry |-> dry]
    BY <1>2 DEF M!MfaResult, M!Run
  <2>2. guard => M!Overlap(c, start, end) /\ Match[c.text, text] >= LowScore
    BY DEF M!LocalGuard
  <2>3. dry => c.source = "ass-quality-diff" /\ Match[c.text, text] >= c.details.current
    BY BaselineIsOfDiff DEF M!DryRun
  <2> HIDE DEF words, text, start, end, guard, dry, status
  <2>4. /\ r.candidate = c /\ r.text = text /\ r.start = start /\ r.end = end
        /\ r.guard = guard /\ r.dry = dry
    BY <2>1
  <2> QED BY <2>2, <2>3, <2>4 DEF Vouched
<1> QED BY <1>1, <1>2 DEF M!Aligned

LEMMA InitMfa == M!Init => MfaIInv
<1> SUFFICES ASSUME M!Init PROVE MfaIInv
  OBVIOUS
<1>1. left \subseteq AllCandidates
  <2>1. left \in M!Unique(M!Collected(doubts)) /\ doubts \in Reports
    BY DEF M!Init
  <2> QED BY <2>1 DEF M!Unique, AllCandidates
<1>2. MfaTypes
  <2>1. DOMAIN draft = DOMAIN lines /\ runs = <<>> /\ items = <<>>
    BY DEF M!Init
  <2> QED BY <1>1, <2>1 DEF MfaTypes
<1>3. M!Applied = {} /\ runs = <<>> /\ output = {} /\ pc = "align"
  BY DEF M!Init, M!Applied
<1>4. \A i \in DOMAIN lines : /\ draft[i].text = lines[i].text /\ draft[i].moved = {}
                              /\ draft[i].start = lines[i].start /\ draft[i].end = lines[i].end
  BY DEF M!Init
<1>5. M!RowsAreJustified
  BY <1>4 DEF M!RowsAreJustified
<1>6. AppliedIsMoved /\ FileIsTheDraft
  BY <1>3 DEF AppliedIsMoved, FileIsTheDraft
<1>7. M!FailuresFirst /\ \A k \in DOMAIN runs : Vouched(runs[k])
  BY <1>3 DEF M!FailuresFirst
<1> QED BY <1>2, <1>5, <1>6, <1>7 DEF MfaIInv

LEMMA SameRanges ==
    ASSUME UNCHANGED <<doubts, lines>>
    PROVE  AllLabs' = AllLabs /\ AllRuns' = AllRuns
<1>1. \A c : M!LabTexts(c)' = M!LabTexts(c)
  BY DEF M!LabTexts, M!Nearest, M!Known
<1>2. AllLabs' = AllLabs
  BY <1>1 DEF AllLabs
<1> QED BY <1>2 DEF AllRuns

(* A step that decides nothing and moves nothing keeps what was decided    *)
(* justified, as long as the runs it was about stay.                       *)
LEMMA RowsStay ==
    ASSUME MfaIInv, UNCHANGED <<lines, draft, items>>, \A k \in DOMAIN items : runs'[k] = runs[k]
    PROVE  M!RowsAreJustified' /\ M!Applied' = M!Applied
<1>1. M!Applied' = M!Applied
  BY DEF M!Applied
<1>2. \A i, m : M!Justified(i, m) => M!Justified(i, m)'
  <2> SUFFICES ASSUME NEW i, NEW m, M!Justified(i, m) PROVE M!Justified(i, m)'
    OBVIOUS
  <2> PICK k \in M!Applied : LET r == runs[k] IN
        /\ items[k].row = i
        /\ draft[i].start = r.start /\ draft[i].end = r.end /\ m.text = r.text
        /\ r.candidate.source = "ass-quality-diff"
        /\ M!Overlap(r.candidate, r.start, r.end)
        /\ Match[r.candidate.text, r.text] >= r.candidate.details.current
        /\ Match[r.candidate.text, r.text] >= LowScore
    BY DEF M!Justified
  <2>1. k \in M!Applied' /\ runs'[k] = runs[k]
    BY <1>1 DEF M!Applied
  <2> QED BY <2>1 DEF M!Justified, M!Overlap
<1> QED BY <1>1, <1>2 DEF MfaIInv, M!RowsAreJustified, M!Distance, M!RangeDistance

LEMMA StepTake ==
    ASSUME MfaIInv, NEW c \in left, M!Take(c) PROVE MfaIInv'
<1>1. UNCHANGED <<mode, doubts, lines, draft, items, output, pc>> /\ left' = left \ {c} /\ M!First(c)
  BY DEF M!Take
<1>2. AllRuns' = AllRuns
  BY <1>1, SameRanges
<1>3. \/ runs' = runs
      \/ \E r \in AllRuns : runs' = Append(runs, r) /\ r.candidate = c /\ Vouched(r)
  <2>1. CASE UNCHANGED runs
    BY <2>1
  <2>2. ASSUME NEW lab \in M!LabTexts(c), NEW r \in M!Aligned(c, lab), runs' = Append(runs, r)
        PROVE  r \in AllRuns /\ r.candidate = c /\ Vouched(r)
    <3>1. c \in AllCandidates
      BY DEF MfaIInv, MfaTypes
    <3>2. lab \in AllLabs
      BY <3>1 DEF AllLabs
    <3> QED BY <3>1, <3>2, RunsVouch DEF AllRuns
  <2> QED BY <2>1, <2>2 DEF M!Take
<1>4. /\ runs' \in Seq(AllRuns) /\ Len(runs') >= Len(runs)
      /\ \A k \in DOMAIN runs' : (k \in DOMAIN runs /\ runs'[k] = runs[k])
                                 \/ (runs'[k].candidate = c /\ Vouched(runs'[k]))
      /\ \A k \in DOMAIN runs : runs'[k] = runs[k]
  <2>0. runs \in Seq(AllRuns) /\ \A k \in DOMAIN runs : Vouched(runs[k])
    BY DEF MfaIInv, MfaTypes
  <2>1. CASE runs' = runs
    BY <2>0, <2>1
  <2>2. ASSUME NEW r \in AllRuns, runs' = Append(runs, r), r.candidate = c, Vouched(r)
        PROVE  /\ runs' \in Seq(AllRuns) /\ Len(runs') >= Len(runs)
               /\ \A k \in DOMAIN runs' : (k \in DOMAIN runs /\ runs'[k] = runs[k])
                                          \/ (runs'[k].candidate = c /\ Vouched(runs'[k]))
               /\ \A k \in DOMAIN runs : runs'[k] = runs[k]
    <3>1. Len(runs) \in Nat /\ DOMAIN runs = 1..Len(runs)
      BY <2>0
    <3>2. runs' \in Seq(AllRuns) /\ Len(runs') = Len(runs) + 1 /\ DOMAIN runs' = 1..(Len(runs) + 1)
      BY <2>0, <2>2
    <3>3. runs'[Len(runs) + 1] = r /\ \A k \in 1..Len(runs) : runs'[k] = runs[k]
      BY <2>0, <2>2
    <3> QED BY <2>2, <3>1, <3>2, <3>3
  <2> QED BY <1>3, <2>1, <2>2
<1>5. \A k \in DOMAIN items : runs'[k] = runs[k]
  <2>1. \A k \in DOMAIN items : k \in DOMAIN runs
    BY DEF MfaIInv, MfaTypes
  <2> QED BY <1>4, <2>1
<1>6. M!RowsAreJustified' /\ M!Applied' = M!Applied
  BY <1>1, <1>5, RowsStay
<1>7. MfaTypes'
  BY <1>1, <1>2, <1>4 DEF MfaIInv, MfaTypes
<1>8. (\A k \in DOMAIN runs : Vouched(runs[k]))'
  <2>1. \A k \in DOMAIN runs' : Vouched(runs'[k])
    BY <1>4 DEF MfaIInv
  <2> QED BY <2>1
<1>9. M!FailuresFirst'
  <2> SUFFICES ASSUME NEW d \in left', d.failed, NEW k \in DOMAIN runs' PROVE runs'[k].candidate.failed
    BY DEF M!FailuresFirst
  <2>1. d \in left /\ ~M!Precedes(d, c)
    BY <1>1 DEF M!First
  <2>2. c.failed
    BY <2>1 DEF M!Precedes
  <2> QED BY <1>4, <2>1, <2>2 DEF MfaIInv, M!FailuresFirst
<1> QED BY <1>1, <1>6, <1>7, <1>8, <1>9 DEF MfaIInv, AppliedIsMoved, FileIsTheDraft

LEMMA StepNoRuns == ASSUME MfaIInv, M!NoRuns PROVE MfaIInv'
<1>1. /\ UNCHANGED <<mode, doubts, lines, draft, items, output>> /\ left' = {} /\ pc = "align" /\ pc' = "write"
      /\ runs' \in {<<>>, <<M!Nothing("skipped", M!NoCandidate)>>}
  BY DEF M!NoRuns
<1>2. items = <<>> /\ items' = items
  BY <1>1 DEF MfaIInv, MfaTypes
<1>3. M!RowsAreJustified' /\ M!Applied' = M!Applied
  BY <1>1, <1>2, RowsStay
<1>4. runs' \in Seq(AllRuns') /\ \A k \in DOMAIN runs' : Vouched(runs'[k])
  <2> DEFINE r == M!Nothing("skipped", M!NoCandidate)
  <2>1. r \in AllRuns'
    BY DEF AllRuns
  <2>2. Vouched(r)
    BY DEF M!Nothing, M!Run, Vouched
  <2>3. runs' \in {<<>>, <<r>>}
    BY <1>1
  <2> HIDE DEF r
  <2>4. CASE runs' = <<>>
    BY <2>4
  <2>5. CASE runs' = <<r>>
    <3>1. DOMAIN runs' = 1..1 /\ runs'[1] = r /\ runs' \in Seq(AllRuns')
      BY <2>1, <2>5
    <3> QED BY <2>2, <3>1
  <2> QED BY <2>3, <2>4, <2>5
<1>5. MfaTypes'
  BY <1>1, <1>2, <1>4 DEF MfaIInv, MfaTypes
<1>6. (\A k \in DOMAIN runs : Vouched(runs[k]))'
  BY <1>4
<1> QED BY <1>1, <1>3, <1>5, <1>6 DEF MfaIInv, AppliedIsMoved, FileIsTheDraft, M!FailuresFirst

LEMMA StepEndRuns == ASSUME MfaIInv, M!EndRuns PROVE MfaIInv'
<1>1. /\ UNCHANGED <<mode, doubts, lines, left, taken, runs, draft, items, output>>
      /\ pc = "align" /\ pc' = "write"
  BY DEF M!EndRuns
<1>2. M!RowsAreJustified' /\ M!Applied' = M!Applied
  BY <1>1, RowsStay
<1>3. AllRuns' = AllRuns
  BY <1>1, SameRanges
<1>4. MfaTypes'
  BY <1>1, <1>3 DEF MfaIInv, MfaTypes
<1>5. (\A k \in DOMAIN runs : Vouched(runs[k]))'
  BY <1>1 DEF MfaIInv
<1> QED BY <1>1, <1>2, <1>4, <1>5 DEF MfaIInv, AppliedIsMoved, FileIsTheDraft, M!FailuresFirst

LEMMA StepFinish == ASSUME MfaIInv, M!Finish PROVE MfaIInv'
<1>1. /\ UNCHANGED <<mode, doubts, lines, left, taken, runs, draft, items>> /\ pc' = "done"
      /\ output' = IF mode = "apply" /\ M!Applied # {} THEN {draft} ELSE {}
  BY DEF M!Finish
<1>2. M!RowsAreJustified' /\ M!Applied' = M!Applied
  BY <1>1, RowsStay
<1>3. AllRuns' = AllRuns
  BY <1>1, SameRanges
<1>4. MfaTypes'
  BY <1>1, <1>3 DEF MfaIInv, MfaTypes
<1>5. (\A k \in DOMAIN runs : Vouched(runs[k]))'
  BY <1>1 DEF MfaIInv
<1> QED BY <1>1, <1>2, <1>4, <1>5 DEF MfaIInv, AppliedIsMoved, FileIsTheDraft, M!FailuresFirst

LEMMA StepUnchanged == ASSUME MfaIInv, UNCHANGED M!vars PROVE MfaIInv'
<1>1. UNCHANGED <<mode, doubts, lines, left, taken, runs, draft, items, output, pc>>
  BY DEF M!vars
<1>2. M!RowsAreJustified' /\ M!Applied' = M!Applied
  BY <1>1, RowsStay
<1>3. AllRuns' = AllRuns
  BY <1>1, SameRanges
<1>4. MfaTypes'
  BY <1>1, <1>3 DEF MfaIInv, MfaTypes
<1>5. (\A k \in DOMAIN runs : Vouched(runs[k]))'
  BY <1>1 DEF MfaIInv
<1> QED BY <1>1, <1>2, <1>4, <1>5 DEF MfaIInv, AppliedIsMoved, FileIsTheDraft, M!FailuresFirst

(* A decision either changes no row, or moves one that suits the run.      *)
LEMMA DecideKinds ==
    ASSUME MfaIInv, M!Decide
    PROVE  \/ /\ draft' = draft
              /\ \E i \in {0} \cup DOMAIN lines, status \in {"REJECT", "APPLY"} :
                    items' = Append(items, M!Item(status, i))
           \/ /\ mode = "apply"
              /\ \E i \in DOMAIN lines :
                    /\ M!Accepted(runs[Len(items) + 1], i)
                    /\ items' = Append(items, M!Item("APPLIED", i))
                    /\ draft' = [draft EXCEPT ![i] = M!Moved(draft[i], runs[Len(items) + 1])]
<1> DEFINE r == runs[Len(items) + 1]
<1>1. \A i \in M!Targets(r.candidate) : i \in DOMAIN lines
  <2>1. DOMAIN draft = DOMAIN lines
    BY DEF MfaIInv, MfaTypes
  <2> QED BY <2>1 DEF M!Targets, M!Near
<1> HIDE DEF r
<1>2. \/ items' = Append(items, M!Item("REJECT", 0)) /\ UNCHANGED draft
      \/ \E i \in M!Targets(r.candidate) :
            /\ M!Accepted(r, i)
            /\ IF mode = "apply"
               THEN /\ items' = Append(items, M!Item("APPLIED", i))
                    /\ draft' = [draft EXCEPT ![i] = M!Moved(draft[i], r)]
               ELSE items' = Append(items, M!Item("APPLY", i)) /\ UNCHANGED draft
  BY DEF M!Decide, r
<1>3. CASE items' = Append(items, M!Item("REJECT", 0)) /\ UNCHANGED draft
  BY <1>3
<1>4. ASSUME NEW i \in M!Targets(r.candidate), M!Accepted(r, i), mode = "apply",
             items' = Append(items, M!Item("APPLIED", i)), draft' = [draft EXCEPT ![i] = M!Moved(draft[i], r)]
      PROVE  \E j \in DOMAIN lines :
                    /\ M!Accepted(runs[Len(items) + 1], j)
                    /\ items' = Append(items, M!Item("APPLIED", j))
                    /\ draft' = [draft EXCEPT ![j] = M!Moved(draft[j], runs[Len(items) + 1])]
  BY <1>1, <1>4 DEF r
<1>5. ASSUME NEW i \in M!Targets(r.candidate), items' = Append(items, M!Item("APPLY", i)), UNCHANGED draft
      PROVE  \E j \in {0} \cup DOMAIN lines, status \in {"REJECT", "APPLY"} :
                    items' = Append(items, M!Item(status, j))
  BY <1>1, <1>5
<1> QED BY <1>2, <1>3, <1>4, <1>5

LEMMA JustifiedStays ==
    ASSUME NEW i, NEW m, M!Justified(i, m), draft'[i] = draft[i],
           \A k \in M!Applied : k \in M!Applied' /\ items'[k] = items[k] /\ runs'[k] = runs[k]
    PROVE  M!Justified(i, m)'
<1> PICK k \in M!Applied : LET r == runs[k] IN
      /\ items[k].row = i
      /\ draft[i].start = r.start /\ draft[i].end = r.end /\ m.text = r.text
      /\ r.candidate.source = "ass-quality-diff"
      /\ M!Overlap(r.candidate, r.start, r.end)
      /\ Match[r.candidate.text, r.text] >= r.candidate.details.current
      /\ Match[r.candidate.text, r.text] >= LowScore
  BY DEF M!Justified
<1>1. k \in M!Applied' /\ items'[k] = items[k] /\ runs'[k] = runs[k]
  OBVIOUS
<1> QED BY <1>1, ZenonT(60) DEF M!Justified, M!Overlap

LEMMA StepDecide == ASSUME MfaIInv, M!Decide PROVE MfaIInv'
<1> DEFINE n == Len(items) + 1
<1>1. /\ UNCHANGED <<mode, doubts, lines, left, taken, runs, output, pc>>
      /\ pc = "write" /\ Len(items) < Len(runs)
  BY DEF M!Decide
<1>2. n \in DOMAIN runs /\ n \notin DOMAIN items /\ Len(items) \in Nat /\ DOMAIN items = 1..Len(items)
  BY <1>1 DEF MfaIInv, MfaTypes
<1>3. AllRuns' = AllRuns
  BY <1>1, SameRanges
<1>4. ASSUME NEW i \in {0} \cup DOMAIN lines, NEW status \in {"REJECT", "APPLY", "APPLIED"},
             items' = Append(items, M!Item(status, i))
      PROVE  /\ items' \in Seq([status : {"REJECT", "APPLY", "APPLIED"}, row : {0} \cup DOMAIN lines])
             /\ Len(items') = n /\ DOMAIN items' = 1..n
             /\ items'[n].status = status /\ items'[n].row = i
             /\ \A k \in DOMAIN items : k \in DOMAIN items' /\ items'[k] = items[k]
  <2>1. /\ items \in Seq([status : {"REJECT", "APPLY", "APPLIED"}, row : {0} \cup DOMAIN lines])
        /\ M!Item(status, i) \in [status : {"REJECT", "APPLY", "APPLIED"}, row : {0} \cup DOMAIN lines]
    BY DEF MfaIInv, MfaTypes, M!Item
  <2>2. M!Item(status, i).status = status /\ M!Item(status, i).row = i
    BY DEF M!Item
  <2> QED BY <1>2, <1>4, <2>1, <2>2
<1>5. (\A k \in DOMAIN runs : Vouched(runs[k]))' /\ M!FailuresFirst'
  BY <1>1 DEF MfaIInv, M!FailuresFirst
<1>6. FileIsTheDraft => output = {}
  BY <1>1 DEF FileIsTheDraft
<1>7. output' = {} /\ pc' = "write"
  BY <1>1, <1>6 DEF MfaIInv
<1> HIDE DEF n
<1>8. CASE draft' = draft /\ \E i \in {0} \cup DOMAIN lines, status \in {"REJECT", "APPLY"} :
                                items' = Append(items, M!Item(status, i))
  <2> PICK i \in {0} \cup DOMAIN lines, status \in {"REJECT", "APPLY"} : items' = Append(items, M!Item(status, i))
    BY <1>8
  <2>1. /\ items' \in Seq([status : {"REJECT", "APPLY", "APPLIED"}, row : {0} \cup DOMAIN lines])
        /\ Len(items') = n /\ DOMAIN items' = 1..n /\ items'[n].status # "APPLIED"
        /\ \A k \in DOMAIN items : k \in DOMAIN items' /\ items'[k] = items[k]
    BY <1>4
  <2>2. M!Applied' = M!Applied
    BY <1>2, <2>1 DEF M!Applied, n
  <2>3. M!RowsAreJustified'
    <3>1. \A k \in M!Applied : k \in M!Applied' /\ items'[k] = items[k] /\ runs'[k] = runs[k]
      BY <1>1, <2>1, <2>2 DEF M!Applied
    <3>2. \A j, m : M!Justified(j, m) => M!Justified(j, m)'
      BY <1>8, <3>1, JustifiedStays
    <3> QED BY <1>1, <1>8, <3>2 DEF MfaIInv, M!RowsAreJustified, M!Distance, M!RangeDistance
  <2>4. MfaTypes'
    BY <1>1, <1>2, <1>3, <1>7, <1>8, <2>1 DEF MfaIInv, MfaTypes, n
  <2>5. AppliedIsMoved'
    BY <1>1, <1>8, <2>1, <2>2 DEF MfaIInv, AppliedIsMoved, M!Applied
  <2> QED BY <1>5, <1>7, <2>3, <2>4, <2>5 DEF MfaIInv, FileIsTheDraft
<1>9. ASSUME NEW i \in DOMAIN lines, mode = "apply", M!Accepted(runs[n], i),
             items' = Append(items, M!Item("APPLIED", i)),
             draft' = [draft EXCEPT ![i] = M!Moved(draft[i], runs[n])]
      PROVE  MfaIInv'
  <2> DEFINE r == runs[n]
             new == M!Moved(draft[i], r)
  <2>1. /\ items' \in Seq([status : {"REJECT", "APPLY", "APPLIED"}, row : {0} \cup DOMAIN lines])
        /\ Len(items') = n /\ DOMAIN items' = 1..n /\ items'[n].status = "APPLIED" /\ items'[n].row = i
        /\ \A k \in DOMAIN items : k \in DOMAIN items' /\ items'[k] = items[k]
    BY <1>4, <1>9
  <2>2. M!Applied' = M!Applied \cup {n}
    BY <1>2, <2>1 DEF M!Applied, n
  <2>3. /\ DOMAIN draft = DOMAIN lines /\ DOMAIN draft' = DOMAIN lines /\ draft'[i] = new
        /\ \A j \in DOMAIN lines : j # i => draft'[j] = draft[j]
    BY <1>9 DEF MfaIInv, MfaTypes
  <2>4. /\ new.start = r.start /\ new.end = r.end /\ new.text = draft[i].text
        /\ new.moved = {[start |-> draft[i].start, end |-> draft[i].end, text |-> r.text]}
    BY DEF M!Moved
  <2>5. /\ r.guard /\ r.dry /\ r.end > r.start
        /\ Match[draft[i].text, r.text] >= TargetScore /\ M!Distance(draft[i], r) <= MaxFar
    BY <1>9 DEF M!Accepted
  <2>6. Vouched(r)
    BY <1>2 DEF MfaIInv
  <2> HIDE DEF r, new
  <2>7. \A k \in M!Applied : k \in M!Applied' /\ items'[k] = items[k] /\ runs'[k] = runs[k]
    BY <1>1, <2>1, <2>2 DEF M!Applied
  <2>8. ASSUME NEW m \in new.moved
        PROVE  /\ new.start < new.end /\ M!Distance(m, new) <= MaxFar
               /\ Match[new.text, m.text] >= TargetScore /\ M!Justified(i, m)'
    <3>1. m.start = draft[i].start /\ m.end = draft[i].end /\ m.text = r.text
      BY <2>4
    <3>2. M!Distance(m, new) = M!Distance(draft[i], r)
      BY <2>4, <3>1 DEF M!Distance
    <3>3. runs'[n] = r /\ n \in M!Applied'
      BY <1>1, <2>2 DEF r
    <3>4. M!Justified(i, m)'
      BY <2>1, <2>3, <2>4, <2>5, <2>6, <3>1, <3>3 DEF M!Justified, Vouched, M!Overlap
    <3> QED BY <2>4, <2>5, <3>1, <3>2, <3>4
  <2>9. M!RowsAreJustified'
    <3> SUFFICES ASSUME NEW j \in DOMAIN lines
                 PROVE  /\ draft'[j].text = lines[j].text
                        /\ draft'[j].moved = {} => draft'[j].start = lines[j].start /\ draft'[j].end = lines[j].end
                        /\ \A m \in draft'[j].moved :
                              /\ draft'[j].start < draft'[j].end
                              /\ M!Distance(m, draft'[j]) <= MaxFar
                              /\ Match[draft'[j].text, m.text] >= TargetScore
                              /\ M!Justified(j, m)'
      BY <1>1 DEF M!RowsAreJustified, M!Distance, M!RangeDistance
    <3>1. CASE j = i
      <4>1. new.text = lines[i].text /\ new.moved # {}
        BY <2>4 DEF MfaIInv, M!RowsAreJustified
      <4> QED BY <2>3, <2>8, <3>1, <4>1
    <3>2. CASE j # i
      <4>1. draft'[j] = draft[j]
        BY <2>3, <3>2
      <4>2. \A m : M!Justified(j, m) => M!Justified(j, m)'
        BY <2>7, <4>1, JustifiedStays
      <4> QED BY <4>1, <4>2 DEF MfaIInv, M!RowsAreJustified
    <3> QED BY <3>1, <3>2
  <2>10. MfaTypes'
    BY <1>1, <1>2, <1>3, <1>7, <2>1, <2>3 DEF MfaIInv, MfaTypes, n
  <2>11. AppliedIsMoved'
    <3>1. ASSUME NEW k \in M!Applied' PROVE items'[k].row \in DOMAIN lines /\ draft'[items'[k].row].moved # {}
      <4>1. CASE k = n
        BY <2>1, <2>3, <2>4, <4>1
      <4>2. CASE k \in M!Applied
        BY <2>3, <2>4, <2>7, <4>2, ZenonT(60) DEF MfaIInv, AppliedIsMoved
      <4> QED BY <2>2, <4>1, <4>2
    <3> QED BY <1>1, <1>9, <3>1 DEF AppliedIsMoved
  <2> QED BY <1>5, <1>7, <2>9, <2>10, <2>11 DEF MfaIInv, FileIsTheDraft
<1> QED BY <1>8, <1>9, DecideKinds DEF n

LEMMA StepMfa == MfaIInv /\ [M!Next]_M!vars => MfaIInv'
BY StepNoRuns, StepTake, StepEndRuns, StepDecide, StepFinish, StepUnchanged DEF M!Next

(* What the experiment with MFA has decided, moved and written suits the   *)
(* runs it reports, for any reports, manifests and answers of MFA.         *)
THEOREM MfaInvariant == M!Spec => []MfaIInv
BY InitMfa, StepMfa, PTL DEF M!Spec

(* A line that the experiment writes back is justified by a run that is    *)
(* known not to be worse than what was there (mfa_writeback.py).           *)
THEOREM WritebackIsJustifiedAlways == M!Spec => []WritebackIsJustified
<1>1. MfaIInv => WritebackIsJustified
  <2> SUFFICES ASSUME MfaIInv PROVE M!OutputIsTheDraft
    BY DEF MfaIInv, WritebackIsJustified, M!WritebackIsJustified
  <2>1. (\E i \in DOMAIN lines : draft[i].moved # {}) <=> M!Applied # {}
    BY DEF MfaIInv, AppliedIsMoved, M!RowsAreJustified, M!Justified
  <2> QED BY <2>1 DEF MfaIInv, AppliedIsMoved, FileIsTheDraft, M!OutputIsTheDraft
<1> QED BY <1>1, MfaInvariant, PTL
=============================================================================
