------------------------------ MODULE WebReview ------------------------------
(***************************************************************************)
(* The review of cues in the Web workbench (qwen_asr/review_service.py):   *)
(* the draft a workspace has besides its formal manifests, edited by users *)
(* who each work on the view they last loaded.  REVIEW_LOCK makes an edit  *)
(* one step for other edits; a crash can still fall between the file of    *)
(* the draft and the line of its audit.                                    *)
(***************************************************************************)
EXTENDS Integers, Sequences, FiniteSets

CONSTANTS Users,     \* browsers with the workbench open
          Cues,      \* the cues of the episode
          Places,    \* time spans: two cues overlap iff they have the same
          Texts,     \* what a cue may say
          MaxUndo,   \* MAX_UNDO_DEPTH
          MaxRev     \* bound: revisions of a draft

ASSUME ReviewAssumption == MaxUndo \in Nat \ {0} /\ MaxRev \in Nat

VARIABLES source,    \* the cues of the best formal manifest
          draft,     \* drafts/web-review.json, NoDraft if there is none
          backup,    \* backup[r]: the cues backed up as revision r
          audit,     \* the revisions in web_review_history.jsonl
          pending,   \* the user whose edit is still to be audited, in a set
          seen       \* seen[u]: the draft's revision and the cues u looks at

reviewVars == <<source, draft, backup, audit, pending, seen>>

Snapshot == [at : Places, text : Texts]
Disjoint(cues) == \A c, d \in Cues : c # d => cues[c].at # cues[d].at
Episodes == {cues \in [Cues -> Snapshot] : Disjoint(cues)}
Edits    == [cue : Cues, before : Snapshot, after : Snapshot]
NoDraft  == [rev |-> 0]
NewDraft == [rev |-> 0, cues |-> source, stack |-> <<>>, dirty |-> FALSE,
             base |-> source, dropped |-> FALSE]   \* the last two: for the properties

(* build_review_view: the draft's cues if there is a draft. *)
Shown == [rev |-> draft.rev, cues |-> IF draft = NoDraft THEN <<>> ELSE draft.cues]

ReviewInit == /\ source \in Episodes
              /\ draft = NoDraft
              /\ backup = [r \in 1..MaxRev |-> <<>>]
              /\ audit = {}
              /\ pending = {}
              /\ seen = [u \in Users |-> [rev |-> 0, cues |-> <<>>]]
-----------------------------------------------------------------------------
LastOf(stack, n) ==
    IF Len(stack) > n THEN SubSeq(stack, Len(stack) - n + 1, Len(stack)) ELSE stack

View(u) ==
    /\ pending = {}
    /\ seen' = [seen EXCEPT ![u] = Shown]
    /\ UNCHANGED <<source, draft, backup, audit, pending>>

(* The page sends the revision it shows with every request; one without a  *)
(* revision, which it does not send, would not be compared.                *)
RevisionMatches(u) == seen[u].rev = draft.rev

(* An edit that overlaps another cue or changes nothing is turned down.    *)
Valid(cues, cue, after) ==
    /\ after # cues[cue]
    /\ \A other \in Cues \ {cue} : after.at # cues[other].at

Entry(cue, before, after) == [cue |-> cue, before |-> before, after |-> after]
EntryReversed(cue, before, after) == [cue |-> cue, before |-> after, after |-> before]
EntryOf(cue, before, after) == Entry(cue, before, after)

(* The backup of the draft there is, the new draft, and what is to be audited. *)
Write(u, d) ==
    /\ backup' = IF draft = NoDraft THEN backup ELSE [backup EXCEPT ![draft.rev] = draft.cues]
    /\ draft' = [d EXCEPT !.rev = @ + 1, !.dirty = d.stack # <<>>]
    /\ pending' = {u}
    /\ UNCHANGED <<source, audit, seen>>

Edit(u, cue, after) ==
    LET d == IF draft = NoDraft THEN NewDraft ELSE draft IN
    LET stack == Append(d.stack, EntryOf(cue, d.cues[cue], after)) IN
    /\ pending = {} /\ d.rev < MaxRev
    /\ RevisionMatches(u)
    /\ Valid(d.cues, cue, after)
    /\ Write(u, [d EXCEPT !.cues[cue] = after, !.stack = LastOf(stack, MaxUndo),
                       !.dropped = @ \/ Len(stack) > MaxUndo])

Undo(u) ==
    /\ pending = {} /\ draft # NoDraft /\ draft.rev < MaxRev
    /\ RevisionMatches(u)
    /\ draft.stack # <<>>
    /\ LET last == draft.stack[Len(draft.stack)] IN
       Write(u, [draft EXCEPT !.cues[last.cue] = last.before,
                           !.stack = SubSeq(@, 1, Len(@) - 1)])

(* The audit line; the reply shows the user the new draft. *)
Audit(u) ==
    /\ u \in pending
    /\ audit' = audit \cup {draft.rev}
    /\ pending' = {}
    /\ seen' = [seen EXCEPT ![u] = Shown]
    /\ UNCHANGED <<source, draft, backup>>

ReviewNext == \E u \in Users :
    \/ View(u) \/ Undo(u) \/ Audit(u)
    \/ \E cue \in Cues, after \in Snapshot : Edit(u, cue, after)

(* The server dies with the edit it serves. *)
ReviewCrash == pending' = {} /\ UNCHANGED <<source, draft, backup, audit, seen>>
-----------------------------------------------------------------------------
ReviewTypeOK ==
    /\ source \in Episodes
    /\ draft # NoDraft =>
         /\ draft.rev \in 1..MaxRev /\ draft.cues \in [Cues -> Snapshot]
         /\ draft.stack \in Seq(Edits) /\ Len(draft.stack) <= MaxUndo
         /\ draft.dirty \in BOOLEAN /\ draft.base \in Episodes
    /\ audit \subseteq 1..MaxRev
    /\ pending \subseteq Users

(* What undoing every edit the draft still holds leads to. *)
Undone(cue) ==
    LET ofCue == {i \in DOMAIN draft.stack : draft.stack[i].cue = cue} IN
    IF ofCue = {} THEN draft.cues[cue]
    ELSE draft.stack[CHOOSE i \in ofCue : \A j \in ofCue : i <= j].before

(* undo_review_edit: as long as no edit has fallen off the undo stack,     *)
(* undoing leads back to the cues the draft was made from, whoever made    *)
(* and undid the edits in between, and only a draft that is back there is  *)
(* not dirty, so that its quality and export are not shown as outdated.    *)
UndoLeadsBack ==
    draft # NoDraft /\ ~draft.dropped =>
        /\ \A cue \in Cues : Undone(cue) = draft.base[cue]
        /\ ~draft.dirty => draft.cues = draft.base
=============================================================================
