---------------------------- MODULE AlignRecovery ----------------------------
(***************************************************************************)
(* Recovering the segments the align stage failed on                        *)
(* (qwen_asr/recovery_executor.py, recovery_service.py): exact attempts,     *)
(* which a lock file keeps apart; coarse acceptance and undo, which take no  *)
(* lock; and the flow of a CI run (qwen_asr/ci/recovery_flow.py), which goes *)
(* through all of it.  Every process reads the whole list of aligned         *)
(* segments, changes one of them, and writes the whole list back.           *)
(***************************************************************************)
EXTENDS Naturals, FiniteSets, Sequences

CONSTANTS Segments,     \* the segments of the media (none in a region of music)
          Procs,        \* processes and server threads that may recover something
          Nobody,       \* the owner of a lock file that is not there
          Asked,        \* what is asked of them
          MaxStarts,    \* bound: operations begun
          MaxCrashes    \* bound: processes killed

ASSUME RecoveryAssumption == /\ Nobody \notin Procs /\ Nobody \notin Segments
                             /\ Asked \subseteq {"cli", "retry", "coarse", "undo", "verify", "annotate", "flow"}
                             /\ MaxStarts \in Nat /\ MaxCrashes \in Nat

VARIABLES disk,      \* the aligned manifest, its checkpoint, and the last event per segment
          backups,   \* the manifests kept in reports/recovery-backups, in order
          saved,     \* saved[g]: the task of g in reports/failed_segment_recovery.json
          report,    \* the attempts in reports/workflow_alignment_recovery.json
          lock,      \* reports/recovery-executor.lock
          proc,      \* proc[p]: what p is doing and has read
          robbed,    \* the executions whose lock another process has removed
          starts, crashes

vars == <<disk, backups, saved, report, lock, proc, robbed, starts, crashes>>

Strategies == {"qwen", "mfa-local"}
Pairs      == Segments \X Strategies

(* backup: recovery.backup_path of a recovered row, an index into backups. *)
Row   == [state : {"failed", "exact", "coarse"}, backup : Nat]
Rows  == [Segments -> Row]
Task  == [verified : BOOLEAN, backup : Nat]
Tasks == [Segments -> Task]

(* A lock file whose owner was killed is "dead", one its owner has not yet  *)
(* written its pid into is "bare"; old: more than two hours.               *)
LockFile == [state : {"free", "bare", "owned", "dead"}, by : Procs \cup {Nobody},
             old : BOOLEAN]
NoLock   == [state |-> "free", by |-> Nobody, old |-> FALSE]

Ops   == {"none", "cli", "retry", "coarse", "undo", "verify", "annotate", "flow"}
Steps == {"idle", "check", "look", "unlink", "create", "stamp", "read", "model", "reread",
          "backup", "manifest", "checkpoint", "event", "unlock", "save",
          "clear", "clearing", "targets", "exact", "record", "coarse"}

Proc == [op : Ops,                    \* what p was asked to do
         task : Ops,                  \* the operation at hand: of a flow, one after the other
         at : Steps, seg : Segments \cup {Nobody}, strategy : Strategies,
         result : {"none", "exact", "rejected", "error", "refused"},
         rows : Rows, seen : Tasks,   \* the list and the state file as read
         backup : Nat,                \* the backup made
         todo : SUBSET Pairs,         \* of a flow: the attempts to be made
         mine : SUBSET Pairs,         \* and those made, by it or an earlier one
         queue : SUBSET Segments,     \* and the segments to be given coarse timing
         clash : BOOLEAN]             \* an unprotected writer wrote since p read

NoRows  == [g \in Segments |-> [state |-> "failed", backup |-> 0]]
NoTasks == [g \in Segments |-> [verified |-> FALSE, backup |-> 0]]
Idle == [op |-> "none", task |-> "none", at |-> "idle", seg |-> Nobody, strategy |-> "qwen",
         result |-> "none", rows |-> NoRows, seen |-> NoTasks, backup |-> 0,
         todo |-> {}, mine |-> {}, queue |-> {}, clash |-> FALSE]

(* What the align stage left; someone may have recovered one segment since. *)
Init == \E ok \in SUBSET Segments, before \in SUBSET Segments :
        LET aligned == [g \in Segments |-> [state |-> IF g \in ok THEN "exact" ELSE "failed",
                                             backup |-> 0]]
            rows    == [g \in Segments |-> IF g \in before
                                           THEN [state |-> "exact", backup |-> 1]
                                           ELSE aligned[g]]
        IN /\ ok \cap before = {} /\ Cardinality(before) <= 1
           /\ disk = [manifest |-> rows, checkpoint |-> rows, events |-> rows]
           /\ backups = IF before = {} THEN <<>> ELSE <<aligned>>
           /\ saved = [g \in Segments |-> [verified |-> FALSE, backup |-> rows[g].backup]]
           /\ report = {} /\ lock = NoLock /\ robbed = {}
           /\ proc = [p \in Procs |-> Idle]
           /\ starts = 0 /\ crashes = 0
-----------------------------------------------------------------------------
Failed(rows) == {g \in Segments : rows[g].state = "failed"}
At(p, step)  == proc[p].at = step
Goto(p, x)   == proc' = [proc EXCEPT ![p] = x]
Step(p, to)  == Goto(p, [proc[p] EXCEPT !.at = to])

(* From the creation of its lock file to the end an execution is alone in   *)
(* here, unless its lock is taken from it.                                 *)
Locked    == {"stamp", "read", "model", "backup", "manifest", "checkpoint", "event", "unlock"}
Executing == {p \in Procs : proc[p].at \in Locked /\ proc[p].task \in {"cli", "retry"}}

(* Whoever removes the lock file does not look whose it is.                *)
Owner     == IF lock.state \in {"bare", "owned"} THEN {lock.by} ELSE {}

RemoveLock(p) == /\ lock' = NoLock
                 /\ robbed' = (robbed \cup Owner) \ {p}

(* An operation has ended, well or not: a flow goes on with its next one.   *)
(* Before coarse timing it verifies the text and looks for speech; only    *)
(* that the text cannot be verified stops it.                              *)
Ended(p, good) ==
    LET x == proc[p]
        Next(task) == [x EXCEPT !.task = task, !.at = "check"]
        Fresh == [x EXCEPT !.task = "none", !.rows = NoRows, !.seen = NoTasks, !.backup = 0,
                           !.clash = FALSE]
    IN IF x.op # "flow" THEN Idle
       ELSE CASE x.task = "cli"            -> [Fresh EXCEPT !.at = "record"]
              [] x.task = "verify" /\ good -> Next("annotate")
              [] x.task = "annotate"       -> Next("coarse")
              [] OTHER                     -> [Fresh EXCEPT !.at = "coarse"]
-----------------------------------------------------------------------------
(* Someone starts an operation on a segment, or a CI run its recovery: a     *)
(* media has one run at work.                                              *)
Begin(p, op, g) ==
    /\ At(p, "idle") /\ starts < MaxStarts
    /\ op \in Asked \ {"flow"}
    /\ Goto(p, [Idle EXCEPT !.op = op, !.task = op, !.seg = g,
                            !.at = IF op = "cli" THEN "look" ELSE "check"])
    /\ starts' = starts + 1
    /\ UNCHANGED <<disk, backups, saved, report, lock, robbed, crashes>>

BeginFlow(p) ==
    /\ At(p, "idle") /\ starts < MaxStarts
    /\ \A q \in Procs : proc[q].op # "flow"
    /\ "flow" \in Asked /\ Failed(disk.manifest) # {}
    /\ Goto(p, [Idle EXCEPT !.op = "flow", !.at = "clear"])
    /\ starts' = starts + 1
    /\ UNCHANGED <<disk, backups, saved, report, lock, robbed, crashes>>

(* perform_recovery_action: the segment must be among the failed ones, or    *)
(* have a backup to undo; coarse timing needs a verified text.  Both files  *)
(* are read here, in one step.  No speech ("annotate": localize_vad) or bad  *)
(* bounds end it too; route_language is an "annotate" that does not fail.   *)
MayUndo(g)     == saved[g].backup # 0
MayRecover(g, task) == /\ disk.manifest[g].state = "failed"
                       /\ task = "coarse" => saved[g].verified

Check(p) ==
    LET x == proc[p] IN
    /\ At(p, "check")
    /\ \/ /\ IF x.task = "undo" THEN MayUndo(x.seg) ELSE MayRecover(x.seg, x.task)
          /\ Goto(p, [x EXCEPT !.seen = saved,
                 !.at = CASE x.task = "retry"              -> "look"
                          [] x.task \in {"coarse", "undo"} -> "reread"
                          [] OTHER                         -> "save"])
       \/ /\ IF x.task = "undo" THEN ~MayUndo(x.seg)
             ELSE ~MayRecover(x.seg, x.task) \/ x.task \in {"annotate", "coarse"}
          /\ Goto(p, Ended(p, FALSE))
    /\ UNCHANGED <<disk, backups, saved, report, lock, robbed, starts, crashes>>
-----------------------------------------------------------------------------
(* _execution_lock: a lock older than two hours is unlinked first, and then   *)
(* the file may have gone; the lock is then created, or is there already.   *)
Look(p) ==
    /\ At(p, "look") /\ lock.old
    /\ Step(p, "unlink")
    /\ UNCHANGED <<disk, backups, saved, report, lock, robbed, starts, crashes>>

Refused(p, result) == LET x == [proc[p] EXCEPT !.result = result] IN
    Goto(p, IF x.op = "flow" THEN [x EXCEPT !.at = "record"] ELSE Idle)

Unlink(p) ==
    /\ At(p, "unlink")
    /\ IF lock.state = "free"
       THEN Refused(p, "error") /\ UNCHANGED <<lock, robbed>>
       ELSE Step(p, "create") /\ RemoveLock(p)
    /\ UNCHANGED <<disk, backups, saved, report, starts, crashes>>

CreatesAnyway(p)     == TRUE
CreatesPerSegment(p) == lock.by \in Procs => proc[lock.by].seg # proc[p].seg
Creates(p)           == lock.state = "free"

Create(p) ==
    /\ At(p, "create") \/ (At(p, "look") /\ ~lock.old)
    /\ IF Creates(p)
       THEN /\ lock' = [state |-> "bare", by |-> p, old |-> FALSE]
            /\ robbed' = robbed \ {p}
            /\ Step(p, "stamp")
       ELSE Refused(p, "refused") /\ UNCHANGED <<lock, robbed>>
    /\ UNCHANGED <<disk, backups, saved, report, starts, crashes>>

Stamp(p) ==
    /\ At(p, "stamp")
    /\ lock' = IF lock.by = p /\ lock.state = "bare" THEN [lock EXCEPT !.state = "owned"] ELSE lock
    /\ Step(p, "read")
    /\ UNCHANGED <<disk, backups, saved, report, robbed, starts, crashes>>

(* The list is read, the segment must have failed, the model is run: its    *)
(* result is exact and passes the guards, and Backup follows, or not.      *)
Read(p) ==
    LET x == proc[p] IN
    /\ At(p, "read")
    /\ Goto(p, IF disk.manifest[x.seg].state = "failed"
               THEN [x EXCEPT !.at = "model", !.rows = disk.manifest, !.clash = FALSE]
               ELSE [x EXCEPT !.at = "unlock", !.result = "error"])
    /\ UNCHANGED <<disk, backups, saved, report, lock, robbed, starts, crashes>>

Reject(p) ==
    /\ At(p, "model")
    /\ Goto(p, [proc[p] EXCEPT !.at = "unlock", !.result = "rejected", !.rows = NoRows])
    /\ UNCHANGED <<disk, backups, saved, report, lock, robbed, starts, crashes>>

(* Coarse acceptance and undo read the list without a lock and write it     *)
(* whatever it holds by now of the segment.                                *)
Reread(p) ==
    /\ At(p, "reread")
    /\ Goto(p, [proc[p] EXCEPT !.at = "backup", !.rows = disk.manifest, !.clash = FALSE])
    /\ UNCHANGED <<disk, backups, saved, report, lock, robbed, starts, crashes>>
-----------------------------------------------------------------------------
(* backup_alignment_state copies what is on disk, not what p has read.     *)
BackupStale == Len(backups)
BackupId    == Len(backups) + 1

Backup(p) ==
    /\ At(p, "model") \/ At(p, "backup")
    /\ backups' = Append(backups, disk.manifest)
    /\ Goto(p, [proc[p] EXCEPT !.at = "manifest", !.result = "exact", !.backup = BackupId])
    /\ UNCHANGED <<disk, saved, report, lock, robbed, starts, crashes>>

NewRow(p) == LET x == proc[p] IN
    CASE x.task = "undo"   -> backups[x.seen[x.seg].backup][x.seg]
      [] x.task = "coarse" -> [state |-> "coarse", backup |-> x.backup]
      [] OTHER             -> [state |-> "exact", backup |-> x.backup]

(* Those who hold a list now hold an old one.  Of an execution that is no    *)
(* fault: all others have kept out, save those it or they were robbed of.  *)
Unprotected(p) == p \notin Executing \/ p \in robbed
Holders == {q \in Procs : proc[q].at \in {"model", "backup", "manifest"}}

WriteManifest(p) ==
    LET rows == [proc[p].rows EXCEPT ![proc[p].seg] = NewRow(p)] IN
    /\ At(p, "manifest")
    /\ disk' = [disk EXCEPT !.manifest = rows]
    /\ proc' = [q \in Procs |->
          IF q = p THEN [proc[p] EXCEPT !.at = "checkpoint", !.rows = rows]
          ELSE IF q \in Holders /\ Unprotected(p) THEN [proc[q] EXCEPT !.clash = TRUE]
          ELSE proc[q]]
    /\ UNCHANGED <<backups, saved, report, lock, robbed, starts, crashes>>

WriteCheckpoint(p) ==
    /\ At(p, "checkpoint")
    /\ disk' = [disk EXCEPT !.checkpoint = proc[p].rows]
    /\ Step(p, "event")
    /\ UNCHANGED <<backups, saved, report, lock, robbed, starts, crashes>>

AppendEvent(p) ==
    LET g == proc[p].seg IN
    /\ At(p, "event")
    /\ disk' = [disk EXCEPT !.events = [@ EXCEPT ![g] = proc[p].rows[g]]]
    /\ Goto(p, [proc[p] EXCEPT !.at = IF p \in Executing THEN "unlock" ELSE "save",
                               !.rows = NoRows, !.clash = FALSE])
    /\ UNCHANGED <<backups, saved, report, lock, robbed, starts, crashes>>

(* Only an error is not saved as the outcome of a retry.                    *)
Unlock(p) ==
    /\ At(p, "unlock")
    /\ RemoveLock(p)
    /\ IF proc[p].task = "retry" /\ proc[p].result # "error"
       THEN Step(p, "save") ELSE Goto(p, Ended(p, TRUE))
    /\ UNCHANGED <<disk, backups, saved, report, starts, crashes>>

(* The state file is written as it was read, but for this task.            *)
Saved(p) == LET x == proc[p] IN
    [x.seen EXCEPT ![x.seg] =
        [verified |-> @.verified \/ x.task = "verify",
         backup |-> IF x.task = "coarse" \/ (x.task = "retry" /\ x.result = "exact")
                    THEN x.backup ELSE @.backup]]

Save(p) ==
    /\ At(p, "save")
    /\ saved' = Saved(p)
    /\ Goto(p, Ended(p, TRUE))
    /\ UNCHANGED <<disk, backups, report, lock, robbed, starts, crashes>>
-----------------------------------------------------------------------------
(* The flow of a CI run.  It removes a lock whose owner it finds dead or     *)
(* which names none, attempts what is still failed and was not attempted,  *)
(* and accepts coarse timing for what is left.                             *)
Clear(p) ==
    /\ At(p, "clear")
    /\ Step(p, IF lock.state \in {"dead", "bare"} THEN "clearing" ELSE "targets")
    /\ UNCHANGED <<disk, backups, saved, report, lock, robbed, starts, crashes>>

Clearing(p) ==
    /\ At(p, "clearing")
    /\ RemoveLock(p)
    /\ Step(p, "targets")
    /\ UNCHANGED <<disk, backups, saved, report, starts, crashes>>

Targets(p) ==
    /\ At(p, "targets")
    /\ Goto(p, [proc[p] EXCEPT !.at = "exact", !.mine = report,
                  !.todo = (Failed(disk.manifest) \X Strategies) \ report])
    /\ UNCHANGED <<disk, backups, saved, report, lock, robbed, starts, crashes>>

(* One segment after the other, and for each first Qwen, then MFA.          *)
IsNext(pair, todo, seg) ==
    /\ pair \in todo
    /\ pair[2] = "mfa-local" => <<pair[1], "qwen">> \notin todo
    /\ pair[1] # seg => \A s \in Strategies : <<seg, s>> \notin todo

Attempt(p, pair) ==
    LET x == proc[p] IN
    /\ At(p, "exact") /\ IsNext(pair, x.todo, x.seg)
    /\ Goto(p, [x EXCEPT !.at = "look", !.task = "cli", !.seg = pair[1], !.strategy = pair[2],
                         !.todo = @ \ {pair}])
    /\ UNCHANGED <<disk, backups, saved, report, lock, robbed, starts, crashes>>

(* An attempt that another execution kept out does not count as made.      *)
Record(p) ==
    LET x == proc[p]
        done == IF x.result = "refused" THEN x.mine ELSE x.mine \cup {<<x.seg, x.strategy>>} IN
    /\ At(p, "record")
    /\ report' = done
    /\ Goto(p, [x EXCEPT !.at = "exact", !.mine = done, !.result = "none", !.task = "none",
                  !.todo = IF x.result = "exact" THEN @ \ ({x.seg} \X Strategies) ELSE @])
    /\ UNCHANGED <<disk, backups, saved, lock, robbed, starts, crashes>>

Attempted(p) ==
    /\ At(p, "exact") /\ proc[p].todo = {}
    /\ Goto(p, [proc[p] EXCEPT !.at = "coarse", !.queue = Failed(disk.manifest)])
    /\ UNCHANGED <<disk, backups, saved, report, lock, robbed, starts, crashes>>

GiveCoarse(p, g) ==
    /\ At(p, "coarse") /\ g \in proc[p].queue
    /\ Goto(p, [proc[p] EXCEPT !.at = "check", !.task = "verify", !.seg = g, !.queue = @ \ {g}])
    /\ UNCHANGED <<disk, backups, saved, report, lock, robbed, starts, crashes>>

FlowEnds(p) ==
    /\ At(p, "coarse") /\ proc[p].queue = {}
    /\ Goto(p, Idle)
    /\ UNCHANGED <<disk, backups, saved, report, lock, robbed, starts, crashes>>
-----------------------------------------------------------------------------
(* Two hours pass: only while the model runs, or after the owner has died.   *)
LockAges ==
    /\ ~lock.old
    /\ lock.state = "dead" \/ \E p \in Procs : lock.by = p /\ At(p, "model")
    /\ lock' = [lock EXCEPT !.old = TRUE]
    /\ UNCHANGED <<disk, backups, saved, report, proc, robbed, starts, crashes>>

Crash(p) ==
    /\ ~At(p, "idle") /\ crashes < MaxCrashes
    /\ Goto(p, Idle)
    /\ lock' = IF lock.by = p THEN [lock EXCEPT !.state = "dead"] ELSE lock
    /\ robbed' = robbed \ {p}
    /\ crashes' = crashes + 1
    /\ UNCHANGED <<disk, backups, saved, report, starts>>

Execute(p) == \/ Look(p) \/ Unlink(p) \/ Create(p) \/ Stamp(p) \/ Read(p) \/ Reject(p) \/ Unlock(p)
Write(p)   == \/ Reread(p) \/ Backup(p) \/ WriteManifest(p) \/ WriteCheckpoint(p)
              \/ AppendEvent(p)
Flow(p)    == \/ Clear(p) \/ Clearing(p) \/ Targets(p)
              \/ \E pair \in Pairs : Attempt(p, pair)
              \/ Record(p) \/ Attempted(p)
              \/ \E g \in Segments : GiveCoarse(p, g)
              \/ FlowEnds(p)

Next == \/ \E p \in Procs : \/ \E g \in Segments, op \in Ops : Begin(p, op, g)
                            \/ BeginFlow(p)
                            \/ Check(p) \/ Save(p)
                            \/ Execute(p) \/ Write(p) \/ Flow(p)
                            \/ Crash(p)
        \/ LockAges

Spec == Init /\ [][Next]_vars
-----------------------------------------------------------------------------
TypeOK == /\ disk \in [manifest : Rows, checkpoint : Rows, events : Rows]
          /\ backups \in Seq(Rows)
          /\ saved \in Tasks
          /\ report \in SUBSET Pairs
          /\ lock \in LockFile
          /\ proc \in [Procs -> Proc]
          /\ robbed \in SUBSET Procs
          /\ starts \in 0..MaxStarts /\ crashes \in 0..MaxCrashes

(* docs/PIPELINE.md: a recovery writes after a backup, and can be undone.     *)
(* Whatever writers overlap and die, a recovered row names a backup that    *)
(* exists, and following the backups from there always comes to a row as   *)
(* the align stage left it: each names only earlier ones, the first none.  *)
Traceable(rows, n) == \A g \in Segments : /\ rows[g].backup \in 0..n
                                          /\ rows[g].state = "coarse" => rows[g].backup # 0
Reversible == /\ Traceable(disk.manifest, Len(backups))
              /\ Traceable(disk.checkpoint, Len(backups))
              /\ Traceable(disk.events, Len(backups))
              /\ \A i \in 1..Len(backups) : Traceable(backups[i], i - 1)

(* qwen_asr/recovery_executor.py:735: no two executions overlap, unless one   *)
(* was robbed of its lock: it ran for over two hours, or had not yet        *)
(* written its pid when a flow looked.                                     *)
ExecutionsExclude == \A p, q \in Executing \ robbed : p = q

(* Executions that the lock keeps apart lose no update: the list that one    *)
(* writes back is the one on disk but for its own segment, unless someone   *)
(* who holds no lock wrote meanwhile.                                      *)
ListIsFresh == \A p \in Executing \ robbed :
    p \in Holders /\ ~proc[p].clash => proc[p].rows = disk.manifest
=============================================================================
