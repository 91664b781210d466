---------------------------- MODULE BlobberStore ----------------------------
(***************************************************************************)
(* One object of an allocation at the blobbers, and the synchronous calls  *)
(* that move it: DeleteFile, RenameObject, CopyObject and MoveObject       *)
(* (zboxcore/sdk/allocation.go l. 536-639).  The calls' checks come from   *)
(* the source; the Request protocols they run (ProcessDelete,              *)
(* ProcessRename, ProcessCopy) live outside this repository and follow     *)
(* section 4.3 of the spec: list the target at every blobber, act at the   *)
(* blobbers that listed it, succeed on consensusThresh, else ask the acted *)
(* blobbers to roll back, best-effort.  Every blobber call may fail.       *)
(*                                                                         *)
(* The calls come from one caller, one after the other.  RepairFile       *)
(* (uploadOrUpdateFile with isRepair) lists the object, narrows the upload *)
(* mask to the blobbers missing it, sets underRepair and returns; its      *)
(* upload then runs as a task of its own while the caller goes on.         *)
(***************************************************************************)
EXTENDS QuorumMath, FiniteSets

CONSTANTS DataShards,     \* a.DataShards
          ParityShards,   \* a.ParityShards
          Src, Dst        \* the object's path and the destination path

ASSUME /\ DataShards \in Nat \ {0} /\ ParityShards \in Nat
       /\ DataShards + ParityShards <= W

Paths == {Src, Dst}
Ops == {"delete", "rename", "copy", "move", "repair"}

\* a.Blobbers, by index.
Blobbers == 0 .. DataShards + ParityShards - 1

VARIABLES
    store,        \* store[b]: the paths at which blobber b holds a shard
    underRepair,  \* a.underRepair
    pending,      \* MoveObject's copy returned nil; its DeleteFile is next
    last,         \* [op, ok]: the last call that returned, and whether nil
    storeAtCall,  \* store when that call began
    repairTask,   \* the repair's processUpload: "none", "running", "done"
    repairFound   \* the blobbers its list consensus found holding Src

vars == <<store, underRepair, pending, last, storeAtCall, repairTask, repairFound>>
repairVars == <<repairTask, repairFound>>

HoldersIn(s, path) == {b \in Blobbers : path \in s[b]}

Holders(path) == HoldersIn(store, path)

\* A list consensus (getFileConsensusFromBlobbers) over the blobbers' state
\* s returns the object at path: the blobbers holding it meet
\* consensusThresh.
FoundIn(s, path) == MeetsThreshold(Cardinality(HoldersIn(s, path)),
                                   DataShards + ParityShards, DataShards, ParityShards)

Found(path) == FoundIn(store, path)

\* What the act call of a Request does at one blobber.
Effect(kind, held) ==
    CASE kind = "delete" -> held \ {Src}
      [] kind = "rename" -> (held \ {Src}) \cup {Dst}
      [] kind = "copy"   -> held \cup {Dst}

Applied(kind, acted) ==
    [b \in Blobbers |-> IF b \in acted THEN Effect(kind, store[b]) ELSE store[b]]

\* Process<kind>: the blobbers that acted are some of those whose list
\* answered, which are some of those holding Src.  On consensus the call
\* returns nil (onOk); otherwise the rollback reaches some of the acted
\* blobbers, the others keep the effect, and the call errs (onErr).
ProcessRequest(kind, onOk, onErr) ==
    \E acted \in SUBSET Holders(Src) :
        IF MeetsThreshold(Cardinality(acted), DataShards + ParityShards,
                          DataShards, ParityShards)
          THEN store' = Applied(kind, acted) /\ onOk
          ELSE \E kept \in SUBSET acted : store' = Applied(kind, kept) /\ onErr

Return(op, ok) == /\ last' = [op |-> op, ok |-> ok]
                  /\ pending' = FALSE

\* The checks of the call: a.UnderRepair() returns the underRepair error
\* before any blobber is contacted (initialisation and the paths are
\* valid here; Allocation models those returns).
Checked(op, run) ==
    IF underRepair THEN Return(op, FALSE) /\ UNCHANGED store ELSE run

\* A call of the caller begins: the previous one has returned.
Call == /\ ~pending
        /\ storeAtCall' = store

Init == /\ store \in [Blobbers -> {{Src}, {}}]
        /\ underRepair = FALSE
        /\ pending = FALSE
        /\ last = [op |-> "none", ok |-> FALSE]
        /\ storeAtCall = store
        /\ repairTask = "none"
        /\ repairFound = {}

\* DeleteFile, RenameObject and CopyObject: the checks, then the Request.
SimpleCall(op) ==
    /\ Call
    /\ UNCHANGED <<underRepair, repairVars>>
    /\ Checked(op, ProcessRequest(op, Return(op, TRUE), Return(op, FALSE)))

DeleteFile == SimpleCall("delete")

RenameObject == SimpleCall("rename")

CopyObject == SimpleCall("copy")

\* MoveObject: CopyObject(path, destPath); its error is returned ...
MoveObject ==
    /\ Call
    /\ UNCHANGED <<underRepair, repairVars>>
    /\ Checked("move", ProcessRequest("copy", pending' = TRUE /\ UNCHANGED last,
                                             Return("move", FALSE)))

\* ... else return a.DeleteFile(path), which runs its own checks.
MoveDelete ==
    /\ pending
    /\ UNCHANGED <<underRepair, storeAtCall, repairVars>>
    /\ Checked("move", ProcessRequest("delete", Return("move", TRUE),
                                               Return("move", FALSE)))

\* The blobbers whose bit is set in the repair's uploadMask (^found & mask).
RepairTargets == {b \in Blobbers :
    (RepairUploadMask(FoundMask(repairFound), DataShards, ParityShards) \div 2^b) % 2 = 1}

\* RepairFile: the checks, then the list consensus, in which some of the
\* blobbers holding Src answer.  "File not found" and "No repair required"
\* return an error; otherwise UpdateRepairStatus(true), the upload is
\* handed on, and the call returns nil.
RepairFile ==
    /\ Call
    /\ UNCHANGED store
    /\ IF underRepair
         THEN Return("repair", FALSE) /\ UNCHANGED <<underRepair, repairVars>>
         ELSE \E listed \in SUBSET Holders(Src) :
                IF RepairAccepted(FoundMask(listed), DataShards, ParityShards)
                  THEN /\ underRepair' = TRUE
                       /\ repairTask' = "running"
                       /\ repairFound' = listed
                       /\ Return("repair", TRUE)
                  ELSE Return("repair", FALSE) /\ UNCHANGED <<underRepair, repairVars>>

\* The repair's processUpload: the shards go to the blobbers of uploadMask,
\* some acknowledge, and the commit needs consensusThresh of the shrunken
\* fullconsensus.  Below it the temporary data is deleted and nothing
\* becomes visible.
RepairUpload ==
    /\ repairTask = "running"
    /\ \E acked \in SUBSET RepairTargets :
         IF MeetsThreshold(Cardinality(acked),
                           RepairFullConsensus(FoundMask(repairFound), DataShards, ParityShards),
                           DataShards, ParityShards)
           THEN store' = [b \in Blobbers |-> IF b \in acked THEN store[b] \cup {Src} ELSE store[b]]
           ELSE UNCHANGED store
    /\ repairTask' = "done"
    /\ UNCHANGED <<underRepair, pending, last, storeAtCall, repairFound>>

\* The caller's UpdateRepairStatus(false), once the status callback has
\* reported the repair upload's end.
RepairCleared ==
    /\ ~pending
    /\ repairTask = "done"
    /\ underRepair' = FALSE
    /\ repairTask' = "none"
    /\ repairFound' = {}
    /\ UNCHANGED <<store, pending, last, storeAtCall>>

Next == \/ DeleteFile \/ RenameObject \/ CopyObject \/ MoveObject \/ MoveDelete
        \/ RepairFile \/ RepairUpload \/ RepairCleared

Spec == Init /\ [][Next]_vars

=============================================================================
