------------------------------- MODULE CiBlobs -------------------------------
(***************************************************************************)
(* The files of the CI server (ci/blobs.py, ci/store.py and their handlers *)
(* in ci/api.py): contents are stored once under their hash, rows with ids *)
(* name them, and runs and artifacts hold ids.  Handlers run on threads of *)
(* their own; each access to the disk or the database is one step.         *)
(***************************************************************************)
EXTENDS Integers, FiniteSets

CONSTANTS Contents, Names,     \* contents of files; names of artifacts
     Requests,             \* bound: requests served at one time
          MaxRuns, MaxBlobs, MaxHalts  \* bounds

VARIABLES disk,     \* the contents the blob directory holds
          blob,     \* the rows of blobs: id -> content
          runs,     \* the rows of runs: id -> [final, refs]
          nextRun,  \* how many runs were ever made
          nextBlob, \* how many blobs were ever made
          arts,     \* the rows of artifacts
          req,      \* what each thread is doing
          raced,    \* history: blobs and contents deleted while in use
          halts     \* crashes of the server
blobVars == <<disk, blob, runs, nextRun, nextBlob, arts, req, raced, halts>>

Free == [at |-> "free"]
Drop(f, x) == [y \in DOMAIN f \ {x} |-> f[y]]
Set(f, x, v) == [y \in DOMAIN f \cup {x} |-> IF y = x THEN v ELSE f[y]]

(* The ids and contents that requests under way have in hand. *)
HeldBlobs    == UNION {IF "refs" \in DOMAIN req[t] THEN req[t].refs ELSE {} : t \in Requests}
HeldContents == {req[t].content : t \in {t \in Requests : req[t].at = "stored"}}
InUse(b) == (\E r \in DOMAIN runs : b \in runs[r].refs) \/ \E a \in arts : a.blob = b
Rows(c)  == {b \in DOMAIN blob : blob[b] = c}

Moves(t, to) == req' = [req EXCEPT ![t] = to]
-----------------------------------------------------------------------------
(* LocalBlobStore.put: a content that is there already is kept. *)
Put(t, c, then, refs, run) ==
    /\ disk' = disk \cup {c}
    /\ Moves(t, [at |-> "stored", content |-> c, then |-> then, refs |-> refs, run |-> run])

(* Store.add_blob gives the stored content an id. *)
AddBlob(t) ==
    LET r == req[t] b == nextBlob + 1
    IN  /\ r.at = "stored" /\ nextBlob < MaxBlobs
        /\ blob' = Set(blob, b, r.content) /\ nextBlob' = b
        /\ Moves(t, IF r.then = "end" THEN Free
                    ELSE [at |-> r.then, refs |-> r.refs \cup {b}, new |-> b, run |-> r.run])
        /\ UNCHANGED <<disk, runs, nextRun, arts, raced, halts>>

(* upload_blob *)
Upload(t, c) ==
    /\ req[t] = Free /\ Put(t, c, "end", {}, 0)
    /\ UNCHANGED <<blob, runs, nextRun, nextBlob, arts, raced, halts>>

(* create_run: the blob of the media is looked up, files of the preset are *)
(* copied into the store (snapshot_inputs), and a file of the user is      *)
(* looked up before the run is stored, in the place of the preset's if it  *)
(* has the same flag.                                                      *)
BeginCreate(t, media, preset) ==
    /\ req[t] = Free /\ media \in DOMAIN blob
    /\ Put(t, preset, "inputs", {media}, 0)
    /\ UNCHANGED <<blob, runs, nextRun, nextBlob, arts, raced, halts>>
UserInput(t, b, sameFlag) ==
    /\ req[t].at = "inputs" /\ b \in DOMAIN blob
    /\ Moves(t, [at |-> "insert",
                 refs |-> {b} \cup IF sameFlag THEN req[t].refs \ {req[t].new} ELSE req[t].refs])
    /\ UNCHANGED <<disk, blob, runs, nextRun, nextBlob, arts, raced, halts>>
InsertRun(t) ==
    /\ req[t].at \in {"inputs", "insert"} /\ nextRun < MaxRuns
    /\ nextRun' = nextRun + 1
    /\ runs' = Set(runs, nextRun + 1, [final |-> FALSE, refs |-> req[t].refs])
    /\ Moves(t, Free)
    /\ UNCHANGED <<disk, blob, nextBlob, arts, raced, halts>>

(* retry_run: the new run refers to the files of its parent; with a fresh  *)
(* preset only its media stays, which is one of them, unlooked at.         *)
BeginRetry(t, r) ==
    /\ req[t] = Free /\ runs[r].final
    /\ Moves(t, [at |-> "insert", refs |-> runs[r].refs])
    /\ UNCHANGED <<disk, blob, runs, nextRun, nextBlob, arts, raced, halts>>
BeginRefresh(t, r, media, preset) ==
    /\ req[t] = Free /\ runs[r].final /\ media \in runs[r].refs
    /\ Put(t, preset, "inputs", {media}, 0)
    /\ UNCHANGED <<blob, runs, nextRun, nextBlob, arts, raced, halts>>

(* worker_artifact: the run is looked up first, by the dependency.  An     *)
(* artifact of the same name is replaced; its blob stays.                  *)
BeginArtifact(t, r, c) ==
    /\ req[t] = Free /\ Put(t, c, "artifact", {}, r)
    /\ UNCHANGED <<blob, runs, nextRun, nextBlob, arts, raced, halts>>
AddArtifact(t, n) ==
    LET r == req[t]
    IN  /\ r.at = "artifact"
        /\ arts' = {a \in arts : a.run # r.run \/ a.name # n} \cup {[run |-> r.run, name |-> n, blob |-> r.new]}
        /\ Moves(t, Free)
        /\ UNCHANGED <<disk, blob, runs, nextRun, nextBlob, raced, halts>>

(* worker_complete and the like. *)
EndRun(r) == /\ ~runs[r].final
             /\ runs' = [runs EXCEPT ![r].final = TRUE]
             /\ UNCHANGED <<disk, blob, nextRun, nextBlob, arts, req, raced, halts>>

(* delete_run: the run goes with its artifacts; each blob of theirs goes   *)
(* if nothing uses it, and its content if no other row has it.             *)
DeleteRun(t, r) ==
    /\ req[t] = Free /\ runs[r].final
    /\ runs' = Drop(runs, r)
    /\ arts' = {a \in arts : a.run # r}
    /\ Moves(t, [at |-> "ask", todo |-> {a.blob : a \in arts \ arts'}])
    /\ UNCHANGED <<disk, blob, nextRun, nextBlob, raced, halts>>
AskInUse(t) ==
    /\ req[t].at = "ask"
    /\ IF req[t].todo = {} THEN Moves(t, Free)
       ELSE \E b \in req[t].todo :
              LET rest == req[t].todo \ {b}
              IN  Moves(t, IF InUse(b) THEN [at |-> "ask", todo |-> rest]
                           ELSE [at |-> "row", todo |-> rest, blob |-> b])
    /\ UNCHANGED <<disk, blob, runs, nextRun, nextBlob, arts, raced, halts>>
Unasked(b)    == TRUE
NoOtherRow(b) == Rows(blob[b]) = {b}
DeleteBlob(t) ==
    LET b == req[t].blob gone == b \notin DOMAIN blob
    IN  /\ req[t].at = "row"
        /\ blob' = IF gone THEN blob ELSE Drop(blob, b)
        /\ Moves(t, IF ~gone /\ NoOtherRow(b)
                    THEN [at |-> "file", todo |-> req[t].todo, content |-> blob[b],
                          last |-> Rows(blob[b]) = {b}]   \* history
                    ELSE [at |-> "ask", todo |-> req[t].todo])
        /\ raced' = raced \cup (IF InUse(b) \/ b \in HeldBlobs THEN {<<"blob", b>>} ELSE {})
        /\ UNCHANGED <<disk, runs, nextRun, nextBlob, arts, halts>>
DeleteFile(t) ==
    LET c == req[t].content
    IN  /\ req[t].at = "file"
        /\ disk' = disk \ {c}
        /\ raced' = raced \cup IF req[t].last /\ (Rows(c) # {} \/ c \in HeldContents) THEN {<<"content", c>>} ELSE {}
        /\ Moves(t, [at |-> "ask", todo |-> req[t].todo])
        /\ UNCHANGED <<blob, runs, nextRun, nextBlob, arts, halts>>

(* The server is killed and starts again. *)
Crash == /\ halts < MaxHalts /\ halts' = halts + 1
         /\ \E t \in Requests : req[t] # Free
         /\ req' = [t \in Requests |-> Free]
         /\ UNCHANGED <<disk, blob, runs, nextRun, nextBlob, arts, raced>>
-----------------------------------------------------------------------------
BlobInit == /\ disk = {} /\ blob = [b \in {} |-> 0] /\ runs = [r \in {} |-> 0]
            /\ nextRun = 0 /\ nextBlob = 0 /\ arts = {}
            /\ req = [t \in Requests |-> Free] /\ raced = {} /\ halts = 0

BlobNext ==
    \/ \E t \in Requests :
         \/ AddBlob(t) \/ InsertRun(t) \/ AskInUse(t) \/ DeleteBlob(t) \/ DeleteFile(t)
         \/ \E c \in Contents : \/ Upload(t, c)
                                \/ \E b \in DOMAIN blob : BeginCreate(t, b, c)
                                \/ \E r \in DOMAIN runs : BeginArtifact(t, r, c)
                                \/ \E r \in DOMAIN runs : \E b \in runs[r].refs : BeginRefresh(t, r, b, c)
         \/ \E b \in DOMAIN blob, same \in BOOLEAN : UserInput(t, b, same)
         \/ \E r \in DOMAIN runs : BeginRetry(t, r) \/ DeleteRun(t, r)
         \/ \E n \in Names : AddArtifact(t, n)
    \/ \E r \in DOMAIN runs : EndRun(r)
    \/ Crash

BlobSpec == BlobInit /\ [][BlobNext]_blobVars
-----------------------------------------------------------------------------
(* A file that a run or an artifact names can be had, however uploads,     *)
(* runs and deletions interleave and wherever the server is killed: its    *)
(* row is there and its content on the disk.  The one way to lose it is to *)
(* put a content, or to name a blob, between the look at what uses it and  *)
(* its deletion.  And while the server is not killed, no content is left   *)
(* behind: when nothing is under way, every content has a row.             *)
BlobsKept ==
    /\ \A b \in DOMAIN blob : blob[b] \in disk \/ <<"content", blob[b]>> \in raced
    /\ \A r \in DOMAIN runs : \A b \in runs[r].refs : b \in DOMAIN blob \/ <<"blob", b>> \in raced
    /\ \A a \in arts : a.blob \in DOMAIN blob
    /\ (halts = 0 /\ \A t \in Requests : req[t] = Free) => disk \subseteq {blob[b] : b \in DOMAIN blob}
=============================================================================
