-------------------------------- MODULE MCWeb --------------------------------
(***************************************************************************)
(* The Web server, the page of a workspace and the file store of the CI    *)
(* server, for TLC.  They share nothing here, so a behaviour is one of any *)
(* of them, the others being idle.                                         *)
(***************************************************************************)
EXTENDS Web, CiBlobs, TLC

CONSTANT PageJobs   \* bound: jobs of StagePage

VARIABLES files, dirty, jobs, todo   \* of StagePage

Page == INSTANCE StagePage WITH MaxJobs <- PageJobs

pageVars == <<files, dirty, jobs, todo>>

(* Idle, a machine counts a crash too many and has none of its steps.      *)
Nobody == [j \in Jobs |-> "none"]
IdleWeb   == /\ active = NoJob /\ saved = NoJob /\ proc = Nobody /\ waiter = Nobody /\ stopper = Nobody
             /\ viewer = 0 /\ asked = {} /\ crashes = MaxCrashes + 1
             /\ source = <<>> /\ draft = NoDraft /\ backup = <<>> /\ audit = {} /\ pending = {} /\ seen = <<>>
IdleBlobs == /\ disk = {} /\ blob = [b \in {} |-> 0] /\ runs = [r \in {} |-> 0] /\ nextRun = 0 /\ nextBlob = 0 /\ arts = {}
             /\ req = [q \in Requests |-> Free] /\ raced = {} /\ halts = MaxHalts + 1

IdlePage  == files = <<>> /\ dirty = FALSE /\ jobs = 0 /\ todo = <<>>

MCInit == \/ Init /\ IdleBlobs /\ IdlePage
          \/ IdleWeb /\ BlobInit /\ IdlePage
          \/ IdleWeb /\ IdleBlobs /\ Page!Init
MCNext == \/ crashes <= MaxCrashes /\ Next /\ UNCHANGED <<blobVars, pageVars>>
          \/ halts <= MaxHalts /\ BlobNext /\ UNCHANGED <<vars, pageVars>>
          \/ jobs > 0 /\ Page!Next /\ UNCHANGED <<vars, blobVars>>
MCSpec == MCInit /\ [][MCNext]_<<vars, blobVars, pageVars>>

Symmetric == Permutations(Places) \cup Permutations(Requests)
-----------------------------------------------------------------------------
(* When the page shows every stage as done, the exported subtitles come    *)
(* from the alignment that is there (StagePage, artifact_state.py,         *)
(* web/stage_service.py).                                                  *)
PageIsTrue == jobs > 0 => Page!PageIsTrue
=============================================================================
