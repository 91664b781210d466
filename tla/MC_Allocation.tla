--------------------------- MODULE MC_Allocation ---------------------------
(***************************************************************************)
(* Model-checking harness for Allocation: the properties asked of the      *)
(* request pipeline and the repair flag.                                   *)
(***************************************************************************)
EXTENDS Allocation, TLC

CONSTANTS r1, r2, r3, k1, k2

MCReqs == {r1, r2, r3}
MCReqs2 == {r1, r2}
MCKeys == {k1, k2}
Symm == Permutations(MCReqs) \cup Permutations(MCKeys)

TypeOK ==
    /\ initialized \in BOOLEAN
    /\ epoch \in 0 .. MaxInits
    /\ underRepair \in BOOLEAN
    /\ \A kd \in Kinds : chan[kd] \in Seq(Reqs) /\ Len(chan[kd]) <= QueueCap
    /\ progress \in [Kinds -> [Keys -> Reqs \cup {None}]]
    /\ call \in [Reqs -> {"idle", "listing", "inflight", "accepted", "rejected"}]
    /\ info \in [Reqs -> [kind : Kinds \cup SyncOps, key : Keys \cup {None}, repair : BOOLEAN]]
    /\ sender \in [Reqs -> {"none", "spawned", "blocked", "registering", "done"}]
    /\ sendEpoch \in [Reqs -> 0 .. MaxInits]
    /\ task \in [Reqs -> {"none", "running", "finished"}]
    /\ canceled \in [Reqs -> BOOLEAN]
    /\ mutexOwner \in [1 .. MaxInits -> (Reqs \X Roles) \cup {None}]
    /\ held \in [Reqs -> [Roles -> 0 .. MaxInits]]
    /\ writing \in [Reqs -> [Roles -> 0 .. MaxInits]]
    /\ aborted \in BOOLEAN

RepairInFlight(r) ==
    info[r].repair /\ call[r] = "accepted" /\ task[r] # "finished"

(***************************************************************************)
(* Every upload or download whose call returned nil is eventually sent on  *)
(* its channel, started by dispatchWork and completed: the fire-and-forget *)
(* API never silently drops an accepted request.                           *)
(***************************************************************************)
AcceptedEventuallyFinishes ==
    \A r \in Reqs :
        (info[r].kind \in Kinds /\ call[r] = "accepted") ~> task[r] = "finished"

(***************************************************************************)
(* The progress maps only name requests that are still in progress: once   *)
(* completedCallback has run for a request, CancelUpload/CancelDownload    *)
(* can no longer find it.  The sender registers after the send, so a       *)
(* request that completes first is registered afterwards and never removed.*)
(***************************************************************************)
ProgressEntriesLive ==
    \A kd \in Kinds, k \in Keys :
        progress[kd][k] # None => task[progress[kd][k]] # "finished"

(***************************************************************************)
(* A registered request is cancellable until it completes: its key stays   *)
(* in the progress map.  completedCallback deletes the key whoever         *)
(* registered it last, so a finished request for the same path removes the *)
(* entry of one still running.                                             *)
(***************************************************************************)
RegisteredRequestsCancellable ==
    \A r \in Reqs :
        sender[r] = "done" /\ task[r] # "finished"
            => progress[info[r].kind][info[r].key] # None

(***************************************************************************)
(* The progress registry is safe for concurrent use (spec section 2): no   *)
(* access to a progress map overlaps a write of it, so the Go runtime      *)
(* never aborts the process on it.  CancelUpload/CancelDownload look the   *)
(* key up without a.mutex, and after a second InitAllocation a writer      *)
(* holding the old a.mutex writes the new map beside one holding the new.  *)
(***************************************************************************)
NoMapRaceAbort == ~aborted

\* The refinement mapping: an upload or download whose call returned nil is
\* queued until dispatchWork starts its task; every other call is idle.
AsyncStatus(r) ==
    IF info[r].kind \in Kinds /\ call[r] = "accepted"
      THEN IF task[r] = "none" THEN "queued" ELSE task[r]
      ELSE "idle"

Abstract == INSTANCE AsyncRequests WITH status <- [r \in Reqs |-> AsyncStatus(r)]

(***************************************************************************)
(* The pipeline implements AsyncRequests: each upload or download the API  *)
(* accepted is started exactly once by dispatchWork, finishes only after   *)
(* it started, and is eventually started and finished.  Channels, senders  *)
(* and progress maps are hidden by the mapping.                            *)
(***************************************************************************)
AsyncRefinement == Abstract!Spec

MutatingOps == {"upload", "delete", "rename", "copy", "move"}

RepairOutstanding(r) ==
    info[r].repair /\ (call[r] = "listing" \/ RepairInFlight(r))

\* r's call passes its checks in this step.
StartsMutation(r) ==
    /\ call[r] = "idle"
    /\ call'[r] \in {"listing", "inflight", "accepted"}
    /\ info'[r].kind \in MutatingOps

(***************************************************************************)
(* No upload, repair, delete, rename, copy or move gets past its           *)
(* UnderRepair() check while a RepairFile call is outstanding: a repair is *)
(* exclusive.  RepairFile reads the flag on entry (l. 234) but sets it     *)
(* only after the list consensus over the network (l. 300-310), unlocked.  *)
(***************************************************************************)
RepairExclusive ==
    [][\A r \in Reqs :
         StartsMutation(r) => \A q \in Reqs \ {r} : ~RepairOutstanding(q)]_vars

=============================================================================
