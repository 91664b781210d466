----------------------------- MODULE Allocation -----------------------------
(***************************************************************************)
(* The asynchronous request pipeline of an Allocation                      *)
(* (zboxcore/sdk/allocation.go): the upload and download API calls, the    *)
(* goroutine each call spawns to send the request on a bounded channel and *)
(* then register it in a progress map, the dispatchWork goroutine that     *)
(* starts a task per request, the completion callback that removes the     *)
(* request's key from the progress map, CancelUpload/CancelDownload, and   *)
(* the allocation-wide underRepair flag set by RepairFile.                 *)
(*                                                                         *)
(* A request id r stands for one call; its fields say which kind of call   *)
(* it was and under which key (local path for uploads, remote path or      *)
(* lookup hash for downloads) it registers.  The transfer itself           *)
(* (processUpload / processDownload) is one running step ending in the     *)
(* completion callback.  The two writers of a progress map, the sender's   *)
(* registration and completedCallback, lock a.mutex, write the map and     *)
(* unlock in three steps; CancelUpload/CancelDownload read it unlocked.    *)
(***************************************************************************)
EXTENDS QuorumMath, Sequences, FiniteSets

CONSTANTS Reqs,          \* request ids, one per API call
          Keys,          \* progress-map keys
          QueueCap,      \* capacity of uploadChan and downloadChan (10)
          DataShards,    \* a.DataShards
          ParityShards,  \* a.ParityShards
          MaxInits,      \* bound on the calls of InitAllocation
          MapRaceAborts, \* whether Go's concurrent map check may abort the process
          None           \* model value: no request

ASSUME /\ QueueCap \in Nat \ {0}
       /\ DataShards \in Nat \ {0} /\ ParityShards \in Nat
       /\ DataShards + ParityShards <= W
       /\ MaxInits \in Nat \ {0}
       /\ MapRaceAborts \in BOOLEAN

Kinds == {"upload", "download"}                   \* the asynchronous operations
SyncOps == {"list", "meta", "stats", "delete", "rename", "copy", "share",
            "commitmeta", "move", "move-delete"}
NumBlobbers == DataShards + ParityShards          \* len(a.Blobbers)
Roles == {"register", "delete"}   \* the go func after its send; completedCallback

VARIABLES
    initialized,  \* a.initialized
    epoch,        \* number of InitAllocation calls: names the live channels and maps
    underRepair,  \* a.underRepair
    chan,         \* chan["upload"] = a.uploadChan, chan["download"] = a.downloadChan
    progress,     \* progress[kind][key]: a.uploadProgressMap / a.downloadProgressMap
    call,         \* call[r]: "idle", "listing" (repair list phase), "inflight"
                  \*   (synchronous operation at the blobbers), "accepted", "rejected"
    info,         \* info[r]: [kind, key, repair] of the call
    sender,       \* sender[r]: the go func that sends r and registers it
    sendEpoch,    \* sendEpoch[r]: epoch of the channel a blocked sender waits on
    task,         \* task[r]: "none", "running" (processUpload/processDownload), "finished"
    canceled,     \* canceled[r]: isUploadCanceled / isDownloadCanceled
    mutexOwner,   \* mutexOwner[e]: the writer holding the a.mutex of InitAllocation e
    held,         \* held[r][role]: the epoch of the mutex that writer holds, 0 if none
    writing,      \* writing[r][role]: the epoch of the map it is writing, 0 if none
    aborted       \* the runtime aborted on a concurrent map access: no step follows

lockVars == <<mutexOwner, held, writing, aborted>>
vars == <<initialized, epoch, underRepair, chan, progress, call, info,
          sender, sendEpoch, task, canceled, mutexOwner, held, writing, aborted>>

NoInfo == [kind |-> "upload", key |-> None, repair |-> FALSE]
EmptyMaps == [kd \in Kinds |-> [k \in Keys |-> None]]

Init ==
    /\ initialized = FALSE
    /\ epoch = 0
    /\ underRepair = FALSE
    /\ chan = [kd \in Kinds |-> <<>>]
    /\ progress = EmptyMaps
    /\ call = [r \in Reqs |-> "idle"]
    /\ info = [r \in Reqs |-> NoInfo]
    /\ sender = [r \in Reqs |-> "none"]
    /\ sendEpoch = [r \in Reqs |-> 0]
    /\ task = [r \in Reqs |-> "none"]
    /\ canceled = [r \in Reqs |-> FALSE]
    /\ mutexOwner = [e \in 1 .. MaxInits |-> None]
    /\ held = [r \in Reqs |-> [ro \in Roles |-> 0]]
    /\ writing = [r \in Reqs |-> [ro \in Roles |-> 0]]
    /\ aborted = FALSE

-----------------------------------------------------------------------------
\* a.isInitialized(): a.initialized && sdkInitialized; the SDK-wide
\* initialisation lives outside this file and is taken as done.
isInitialized == initialized

\* The call returns nil: the go func is spawned and the call is done.
Accept(r) == /\ call' = [call EXCEPT ![r] = "accepted"]
             /\ sender' = [sender EXCEPT ![r] = "spawned"]

Reject(r) == /\ call' = [call EXCEPT ![r] = "rejected"]
             /\ UNCHANGED sender

\* InitAllocation: fresh channels, context and progress maps, and a new
\* dispatchWork goroutine.  Nothing closes or drains the previous ones.
InitAllocation ==
    /\ epoch < MaxInits
    /\ epoch' = epoch + 1
    /\ initialized' = TRUE
    /\ chan' = [kd \in Kinds |-> <<>>]
    /\ progress' = EmptyMaps
    /\ UNCHANGED <<underRepair, call, info, sender, sendEpoch, task, canceled>>
    /\ ~aborted /\ UNCHANGED lockVars

\* uploadOrUpdateFile up to the request build.  Any call may fail on the
\* local file or the remote path; it passes only if initialised and not
\* under repair.  A repair goes on to its list phase, any other upload
\* spawns its sender.
UploadCall(r, k, repair) ==
    /\ call[r] = "idle"
    /\ info' = [info EXCEPT ![r] = [kind |-> "upload", key |-> k, repair |-> repair]]
    /\ \/ Reject(r)
       \/ /\ isInitialized
          /\ ~underRepair
          /\ IF repair
               THEN /\ call' = [call EXCEPT ![r] = "listing"]
                    /\ UNCHANGED sender
               ELSE Accept(r)
    /\ UNCHANGED <<initialized, epoch, underRepair, chan, progress, sendEpoch,
                   task, canceled>>
    /\ ~aborted /\ UNCHANGED lockVars

\* The repair branch of uploadOrUpdateFile after getFileConsensusFromBlobbers
\* returned the mask found of blobbers holding the object: "File not found"
\* or "No repair required", else UpdateRepairStatus(true) and the sender.
RepairList(r) ==
    /\ call[r] = "listing"
    /\ \E found \in 0 .. AllOnesMask(NumBlobbers) :
          IF RepairAccepted(found, DataShards, ParityShards)
            THEN /\ underRepair' = TRUE
                 /\ Accept(r)
            ELSE /\ UNCHANGED underRepair
                 /\ Reject(r)
    /\ UNCHANGED <<initialized, epoch, chan, progress, info, sendEpoch, task,
                   canceled>>
    /\ ~aborted /\ UNCHANGED lockVars

\* downloadFromAuthTicket's checks, shared with downloadFile: initialised,
\* not under repair, and more than one blobber (noBLOBBERS otherwise).
DownloadChecks == isInitialized /\ ~underRepair /\ NumBlobbers > 1

\* downloadFile / downloadFromAuthTicket: any call may also fail on the
\* ticket or the local path; a call that passes spawns its sender.
DownloadCall(r, k) ==
    /\ call[r] = "idle"
    /\ info' = [info EXCEPT ![r] = [kind |-> "download", key |-> k, repair |-> FALSE]]
    /\ \/ Reject(r)
       \/ DownloadChecks /\ Accept(r)
    /\ UNCHANGED <<initialized, epoch, underRepair, chan, progress, sendEpoch,
                   task, canceled>>
    /\ ~aborted /\ UNCHANGED lockVars

-----------------------------------------------------------------------------
\* The synchronous operations: the checks, then the Request's calls to the
\* blobbers (call[r] = "inflight"), then the consensus outcome.

SyncStart(r, op, checks) ==
    /\ call[r] = "idle"
    /\ info' = [info EXCEPT ![r] = [kind |-> op, key |-> None, repair |-> FALSE]]
    /\ \/ Reject(r)
       \/ /\ checks
          /\ call' = [call EXCEPT ![r] = "inflight"]
          /\ UNCHANGED sender
    /\ UNCHANGED <<initialized, epoch, underRepair, chan, progress, sendEpoch,
                   task, canceled>>
    /\ ~aborted /\ UNCHANGED lockVars

\* ListDirFromAuthTicket and ListDir.
ListDir(r) == SyncStart(r, "list", isInitialized)

\* GetFileMeta and GetFileMetaFromAuthTicket: no isInitialized check.
GetFileMeta(r) == SyncStart(r, "meta", TRUE)

GetFileStats(r) == SyncStart(r, "stats", isInitialized)

DeleteFile(r) == SyncStart(r, "delete", isInitialized /\ ~underRepair)

RenameObject(r) == SyncStart(r, "rename", isInitialized /\ ~underRepair)

CopyObject(r) == SyncStart(r, "copy", isInitialized /\ ~underRepair)

\* GetAuthTicketForShare and GetAuthTicket.
GetAuthTicket(r) == SyncStart(r, "share", isInitialized)

\* The checks, then GetFileMeta when no fileMeta is given; the commit itself
\* runs in a goroutine nothing tracks.
CommitMetaTransaction(r) ==
    SyncStart(r, "commitmeta", isInitialized /\ ~underRepair)

\* MoveObject: CopyObject (kind "move"), then DeleteFile (kind "move-delete").
MoveObject(r) == SyncStart(r, "move", isInitialized /\ ~underRepair)

\* The copy of a move returned: its error is returned, or DeleteFile runs
\* its own checks, which may now reject it with the copy already made.
MoveCopyReturned(r) ==
    /\ call[r] = "inflight"
    /\ info[r].kind = "move"
    /\ \/ /\ Reject(r)
          /\ UNCHANGED info
       \/ /\ info' = [info EXCEPT ![r].kind = "move-delete"]
          /\ IF isInitialized /\ ~underRepair
               THEN UNCHANGED <<call, sender>>
               ELSE Reject(r)
    /\ UNCHANGED <<initialized, epoch, underRepair, chan, progress, sendEpoch,
                   task, canceled>>
    /\ ~aborted /\ UNCHANGED lockVars

\* The Request's consensus decided: the call returns its result, nil or an
\* error.
SyncReturn(r) ==
    /\ call[r] = "inflight"
    /\ info[r].kind # "move"
    /\ \E res \in {"accepted", "rejected"} : call' = [call EXCEPT ![r] = res]
    /\ UNCHANGED <<initialized, epoch, underRepair, chan, progress, info, sender,
                   sendEpoch, task, canceled>>
    /\ ~aborted /\ UNCHANGED lockVars

-----------------------------------------------------------------------------
\* The sender goroutine: a.uploadChan <- req (the channel field is read when
\* the send starts), then a.progressMap[key] = req under a.mutex.

\* Mutant of Enqueue: the send ignores the channel capacity.
EnqueueUnbounded(r) ==
    LET kd == info[r].kind IN
    /\ \/ sender[r] = "spawned"
       \/ sender[r] = "blocked" /\ sendEpoch[r] = epoch
    /\ chan' = [chan EXCEPT ![kd] = Append(@, r)]
    /\ sender' = [sender EXCEPT ![r] = "registering"]
    /\ UNCHANGED <<initialized, epoch, underRepair, progress, call, info,
                   sendEpoch, task, canceled>>
    /\ ~aborted /\ UNCHANGED lockVars

Enqueue(r) ==
    LET kd == info[r].kind IN
    /\ \/ sender[r] = "spawned"
       \/ sender[r] = "blocked" /\ sendEpoch[r] = epoch
    /\ Len(chan[kd]) < QueueCap
    /\ chan' = [chan EXCEPT ![kd] = Append(@, r)]
    /\ sender' = [sender EXCEPT ![r] = "registering"]
    /\ UNCHANGED <<initialized, epoch, underRepair, progress, call, info,
                   sendEpoch, task, canceled>>
    /\ ~aborted /\ UNCHANGED lockVars

\* The channel is full: the sender waits on the channel it read.
Block(r) ==
    /\ sender[r] = "spawned"
    /\ Len(chan[info[r].kind]) = QueueCap
    /\ sender' = [sender EXCEPT ![r] = "blocked"]
    /\ sendEpoch' = [sendEpoch EXCEPT ![r] = epoch]
    /\ UNCHANGED <<initialized, epoch, underRepair, chan, progress, call, info,
                   task, canceled>>
    /\ ~aborted /\ UNCHANGED lockVars

-----------------------------------------------------------------------------
\* The progress-map writers.  The go func registers after its send; the
\* task's completedCallback deletes its key after the transfer.
WantsMap(r, role) ==
    IF role = "register" THEN sender[r] = "registering" ELSE task[r] = "running"

\* The writers currently inside a write of the kd map of InitAllocation e.
MapWriters(e, kd) ==
    {w \in Reqs \X Roles : e > 0 /\ writing[w[1]][w[2]] = e /\ info[w[1]].kind = kd}

\* An access that overlaps a write: Go's check of the map's writing flag is
\* best effort, so the runtime may abort ("concurrent map read and map
\* write", "concurrent map writes") or the access may go through.
RaceOutcome(racing) ==
    IF racing /\ MapRaceAborts THEN aborted' \in BOOLEAN ELSE UNCHANGED aborted

\* a.mutex.Lock(): a.mutex is read now, so after a second InitAllocation a
\* writer locks the new mutex while an earlier one may still hold the old.
MapLock(r, role) ==
    /\ ~aborted
    /\ WantsMap(r, role)
    /\ held[r][role] = 0
    /\ mutexOwner[epoch] = None
    /\ mutexOwner' = [mutexOwner EXCEPT ![epoch] = <<r, role>>]
    /\ held' = [held EXCEPT ![r][role] = epoch]
    /\ UNCHANGED <<initialized, epoch, underRepair, chan, progress, call, info,
                   sender, sendEpoch, task, canceled, writing, aborted>>

\* The map assignment or delete begins on the map a.progressMap names now.
MapWrite(r, role) ==
    /\ ~aborted
    /\ held[r][role] # 0
    /\ writing[r][role] = 0
    /\ writing' = [writing EXCEPT ![r][role] = epoch]
    /\ RaceOutcome(MapWriters(epoch, info[r].kind) # {})
    /\ UNCHANGED <<initialized, epoch, underRepair, chan, progress, call, info,
                   sender, sendEpoch, task, canceled, mutexOwner, held>>

\* The write lands (in a map an InitAllocation has since replaced it is
\* lost) and the deferred Unlock releases the mutex that was locked.  The
\* go func is then done; completedCallback ends the task.
MapWriteEnd(r, role) ==
    LET kd == info[r].kind
        k  == info[r].key
    IN
    /\ ~aborted
    /\ writing[r][role] # 0
    /\ progress' = IF writing[r][role] # epoch THEN progress
                   ELSE IF role = "register" THEN [progress EXCEPT ![kd][k] = r]
                   ELSE [progress EXCEPT ![kd][k] = None]
    /\ mutexOwner' = [mutexOwner EXCEPT ![held[r][role]] = None]
    /\ held' = [held EXCEPT ![r][role] = 0]
    /\ writing' = [writing EXCEPT ![r][role] = 0]
    /\ IF role = "register"
         THEN sender' = [sender EXCEPT ![r] = "done"] /\ UNCHANGED task
         ELSE task' = [task EXCEPT ![r] = "finished"] /\ UNCHANGED sender
    /\ UNCHANGED <<initialized, epoch, underRepair, chan, call, info,
                   sendEpoch, canceled, aborted>>

\* Mutant of Dispatch: the select has no case for the download channel.
DispatchUploadOnly(kd) ==
    /\ kd = "upload"
    /\ epoch > 0
    /\ chan[kd] # <<>>
    /\ chan' = [chan EXCEPT ![kd] = Tail(@)]
    /\ task' = [task EXCEPT ![Head(chan[kd])] = "running"]
    /\ UNCHANGED <<initialized, epoch, underRepair, progress, call, info,
                   sender, sendEpoch, canceled>>
    /\ ~aborted /\ UNCHANGED lockVars

\* dispatchWork: receive from a channel and start the request's goroutine.
Dispatch(kd) ==
    /\ epoch > 0
    /\ chan[kd] # <<>>
    /\ chan' = [chan EXCEPT ![kd] = Tail(@)]
    /\ task' = [task EXCEPT ![Head(chan[kd])] = "running"]
    /\ UNCHANGED <<initialized, epoch, underRepair, progress, call, info,
                   sender, sendEpoch, canceled>>
    /\ ~aborted /\ UNCHANGED lockVars

\* CancelUpload / CancelDownload: an unlocked lookup in the progress map;
\* a found entry gets its cancel flag.  An absent key returns an error and
\* changes nothing, unless the lookup met a write and the runtime aborts.
Cancel(kd, k) ==
    LET racing == MapWriters(epoch, kd) # {} IN
    /\ ~aborted
    /\ \/ /\ progress[kd][k] # None
          /\ canceled' = [canceled EXCEPT ![progress[kd][k]] = TRUE]
          /\ RaceOutcome(racing)
       \/ /\ progress[kd][k] = None
          /\ racing /\ MapRaceAborts
          /\ aborted' = TRUE
          /\ UNCHANGED canceled
    /\ UNCHANGED <<initialized, epoch, underRepair, chan, progress, call, info,
                   sender, sendEpoch, task, mutexOwner, held, writing>>

\* The caller's UpdateRepairStatus(false) once its repairs have completed.
ClearRepair ==
    /\ underRepair
    /\ \A r \in Reqs : info[r].repair /\ call[r] = "accepted" => task[r] = "finished"
    /\ underRepair' = FALSE
    /\ UNCHANGED <<initialized, epoch, chan, progress, call, info, sender,
                   sendEpoch, task, canceled>>
    /\ ~aborted /\ UNCHANGED lockVars

-----------------------------------------------------------------------------
Next ==
    \/ InitAllocation
    \/ \E r \in Reqs, k \in Keys, rep \in BOOLEAN : UploadCall(r, k, rep)
    \/ \E r \in Reqs : RepairList(r)
    \/ \E r \in Reqs, k \in Keys : DownloadCall(r, k)
    \/ \E r \in Reqs : \/ ListDir(r) \/ GetFileMeta(r) \/ GetFileStats(r)
                      \/ DeleteFile(r) \/ RenameObject(r) \/ CopyObject(r)
                      \/ GetAuthTicket(r) \/ CommitMetaTransaction(r)
                      \/ MoveObject(r) \/ MoveCopyReturned(r) \/ SyncReturn(r)
    \/ \E r \in Reqs : Enqueue(r) \/ Block(r)
    \/ \E r \in Reqs, ro \in Roles : MapLock(r, ro) \/ MapWrite(r, ro) \/ MapWriteEnd(r, ro)
    \/ \E kd \in Kinds : Dispatch(kd)
    \/ \E kd \in Kinds, k \in Keys : Cancel(kd, k)
    \/ ClearRepair

\* Goroutines that can run eventually run (weak fairness).  A sender blocked
\* on a full channel, and a writer waiting for a.mutex, are only
\* intermittently able to go on; Go serves blocked senders in order and
\* hands a contended sync.Mutex to its waiters in starvation mode, so those
\* steps are strongly fair.  The caller's own calls carry no fairness.
Fairness ==
    /\ \A r \in Reqs : /\ WF_vars(RepairList(r))
                       /\ WF_vars(Block(r))
                       /\ SF_vars(Enqueue(r))
                       /\ WF_vars(MoveCopyReturned(r))
                       /\ WF_vars(SyncReturn(r))
    /\ \A r \in Reqs, ro \in Roles : /\ SF_vars(MapLock(r, ro))
                                   /\ WF_vars(MapWrite(r, ro))
                                   /\ WF_vars(MapWriteEnd(r, ro))
    /\ \A kd \in Kinds : WF_vars(Dispatch(kd))

Spec == Init /\ [][Next]_vars /\ Fairness

=============================================================================
