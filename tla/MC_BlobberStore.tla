-------------------------- MODULE MC_BlobberStore --------------------------
(***************************************************************************)
(* Model-checking harness for BlobberStore: what a returned nil or error  *)
(* tells the caller about where a list consensus will find the object.     *)
(***************************************************************************)
EXTENDS BlobberStore

\* The last call has returned (MoveObject's DeleteFile is not pending).
Returned == ~pending /\ last.op \in Ops

(***************************************************************************)
(* A call that returned nil did what it says, as later reads see it: after *)
(* DeleteFile no list consensus finds the path, after CopyObject one finds *)
(* the destination, after RenameObject and MoveObject one finds the        *)
(* destination and none the source; after RepairFile one finds it.        *)
(* A write quorum of consensusThresh    *)
(* must meet every read quorum of the same threshold.                      *)
(***************************************************************************)
SuccessfulOpsVisible ==
    Returned /\ last.ok =>
        CASE last.op = "delete" -> ~Found(Src)
          [] last.op = "copy"   -> Found(Dst)
          [] last.op = "repair" -> Found(Src)
          [] OTHER              -> Found(Dst) /\ ~Found(Src)

(***************************************************************************)
(* A MoveObject that returned an error did not write the object to the    *)
(* destination at DataShards or more blobbers: a failed copy acted below   *)
(* consensusThresh, so what its rollback misses cannot be decoded or       *)
(* found there.  MoveObject (l. 600-606) returns DeleteFile's error after  *)
(* its CopyObject succeeded, and nothing undoes the copy.                  *)
(***************************************************************************)
FailedMoveLeavesNoCopy ==
    Returned /\ last.op = "move" /\ ~last.ok =>
        Cardinality(Holders(Dst) \ HoldersIn(storeAtCall, Dst)) < DataShards

(***************************************************************************)
(* A CopyObject or RenameObject that returned an error wrote the object to *)
(* the destination at fewer than DataShards blobbers, so no list consensus *)
(* finds it and it cannot be decoded there.  The Request's act reached     *)
(* some blobbers and failed at others, and its best-effort rollback may    *)
(* miss any of those it reached (the error return, l. 563 and l. 634).     *)
(***************************************************************************)
FailedWriteLeavesNoCopy ==
    Returned /\ last.op \in {"copy", "rename"} /\ ~last.ok =>
        Cardinality(Holders(Dst) \ HoldersIn(storeAtCall, Dst)) < DataShards

=============================================================================
