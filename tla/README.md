# TLA+ models of the egosdk allocation orchestrator

These modules model `src/zboxcore/sdk/allocation.go`: the client-side
orchestrator that spreads an erasure-coded "allocation" over a set of
storage providers ("blobbers"). It also decides whether an operation
succeeded by quorum, and drives repair. The other source file,
`src/unnamed/part_000`, is a Go test of the ZCN bridge client written
against mocks. The spec puts the bridge out of scope.

## 1. Inventory

### Components and their state

| Component | State (allocation.go) | Operations |
|---|---|---|
| Bitmask quorum tracker | none: arithmetic on `uint32` masks and `float32` percentages | `(1<<n)-1` (l. 281, 362, 747), `^found & mask` (l. 308), `bits.TrailingZeros32` (l. 309), `consensusThresh = D*100/(D+P)` (l. 282) |
| Allocation lifecycle and dispatcher | `initialized`, `uploadChan`/`downloadChan` (capacity 10), `ctx`, `mutex` | `InitAllocation` (l. 143), `startWorker`/`dispatchWork` (l. 172-192) |
| Upload, update and repair calls | `underRepair` | 9 wrappers calling `uploadOrUpdateFile` (l. 194-320); the repair branch runs a list consensus and sets `underRepair` |
| Download calls | none | `downloadFile` (l. 330), `downloadFromAuthTicket` (l. 708) |
| Progress registry | `uploadProgressMap`, `downloadProgressMap` | registration in the sender goroutine (l. 313-318), `completedCallback` (l. 285, 369, 755), `CancelUpload`/`CancelDownload` (l. 684-698) |
| Synchronous operations | none of their own | `ListDir*`, `GetFileMeta*`, `GetFileStats`, `DeleteFile`, `RenameObject`, `CopyObject`, `MoveObject`, `GetAuthTicket*`, `CommitMetaTransaction` |
| Request objects | per request: masks, `fullconsensus`, cancel flag | `processUpload`, `processDownload`, `ProcessDelete`, ... These are outside this repository; the spec describes them. |
| Auth ticket codec, pricing/terms | none | base64+JSON decode; `PriceRange.IsValid` |

### How the components interact

- **Asynchronous calls.** An upload or download call checks
  `isInitialized()` and `UnderRepair()` and builds a request. It then
  spawns a goroutine and returns nil at once. That goroutine first sends
  the request on the channel, then takes `a.mutex` and registers the
  request in the progress map under its path.
- **Dispatch.** `dispatchWork` receives from either channel and starts
  `processUpload` or `processDownload` in a goroutine of its own.
- **Completion.** When the request finishes, its `completedCallback`
  deletes the path's entry, under `a.mutex`.
- **Cancellation.** `CancelUpload` and `CancelDownload` look up the map
  without the mutex and set the request's cooperative cancel flag.
- **Repair.** `RepairFile` runs a list consensus over the network. It
  then narrows the upload mask to the blobbers that miss the file and
  sets `underRepair`. From then on, every mutating call is rejected until
  the caller calls `UpdateRepairStatus(false)`.
- **Synchronous operations.** These check the same flags and then block
  on their Request's consensus.

### What is hard

- **Interleaving of goroutines.** The caller, one sender goroutine per
  request, the dispatcher and one task per request all run at once, and
  they share the progress maps and `underRepair`.
- **Check-then-act.** `underRepair` is read at entry and set after a
  network round, with no lock held.
- **Unlocked map reads.** `CancelUpload` and `CancelDownload` read the
  progress maps without `a.mutex`. The writers lock a mutex that
  `InitAllocation` may have replaced.
- **Ordering.** A request is registered after it is sent, so its
  completion can come before its registration.
- **Bounded channels.** Senders block when a channel is full.
- **Re-initialisation.** A second `InitAllocation` replaces the
  channels, maps and mutex while older goroutines still use them.
- **Repair arithmetic.** The quorum rule for a repair is computed with
  bit tricks.

### What makes each component correct

- **Quorum tracker.** A repair that succeeds has written to enough of
  the blobbers it targets. A repair in which every target acknowledges
  succeeds.
- **Pipeline.** Every accepted request is eventually processed.
- **Progress registry.** The maps name exactly the requests in progress,
  so a cancel reaches a running request and never a finished one.
- **Repair flag.** It is set exactly while a repair is outstanding, and
  a repair excludes other mutations.
- **Synchronous operations.** They pass the same checks as the
  asynchronous calls. `GetFileMeta` and `GetFileMetaFromAuthTicket`
  (l. 444, 470) have no `isInitialized` check, and `Allocation` keeps
  that omission. No run is spent on it, because a reading of the
  function shows it.
- **Blobber store.** A call that returns nil has an effect that every
  later list consensus sees. A call that returns an error leaves no
  partial write that a list consensus can find.

The hazards are listed at their lines in `PROJECT.json` under
`"hazards"`.

## 2. Modules

### `QuorumMath.tla`

Pure operators for the mask and quorum arithmetic. A mask is an integer
of `W` bits; `W` is 32 in the code.

- `AllOnesMask` keeps the wrap of `1 << n` when `n >= W`.
- `ComplementMask` is `^found & mask`.
- `TrailingZeros` and `OnesCount` are recursive.
- `ConsensusThresh`, `MeetsThreshold`: the code compares two `float32`
  quotients of small integers. When the exact quotients are equal, the
  rounded ones are equal too. When they differ, the gap is at least
  `100/(full*(D+P))`, far wider than a `float32` ulp near 100. So the
  exact rational comparison is used.
- `RepairAccepted`, `RepairUploadMask`, `RepairFullConsensus` translate
  l. 300-309.

`MeetsThreshold` and `OnesCount` model the Requests' consensus check,
whose code is not in this repository. They are taken from the spec.

`FoundMask(holders)` is the found mask a list consensus reports for a
set of holding blobbers. It sets bit `i` as `1 << i` in the `W`-bit type,
so blobbers at index `W` or above are lost. Its code is in the
ListRequest, outside this repository.

### `MC_QuorumMath.tla`

A state machine that walks every layout `d` data + `p` parity shards
(`d <= MaxData`, `p <= MaxParity`) and every found mask of that layout.
Properties are checked on each state.

### `MC_MaskWidth.tla`

The repair decision on layouts with more blobbers than the mask has
bits. The state is a layout and the set `holders` of blobbers holding
the object. It is checked at `W = 4` with up to 6 blobbers: the
arithmetic does not depend on the width, so this is what `W = 32` does
with 33 or more blobbers.

### `Allocation.tla`

The request pipeline and the repair flag. A request id `r` stands for
one API call.

| Variable | Code |
|---|---|
| `initialized`, `underRepair` | `a.initialized`, `a.underRepair` |
| `epoch` | number of `InitAllocation` calls; it names the live channels and maps |
| `chan[kind]` | `a.uploadChan`, `a.downloadChan` (FIFO, capacity `QueueCap`) |
| `progress[kind][key]` | the two progress maps |
| `call[r]` | the API call: idle, `listing` (repair list phase), `inflight` (synchronous operation at the blobbers), accepted (returned nil), rejected |
| `sender[r]`, `sendEpoch[r]` | the `go func` that sends and then registers; the channel a blocked send waits on |
| `task[r]` | `processUpload`/`processDownload`: none, running, finished |
| `canceled[r]` | `isUploadCanceled` / `isDownloadCanceled` |
| `mutexOwner[e]` | who holds the `a.mutex` made by the `e`-th `InitAllocation` |
| `held[r][role]`, `writing[r][role]` | for the go func's registration (`register`) and `completedCallback` (`delete`): the epoch of the mutex it holds and of the map it is writing, 0 if none |
| `aborted` | the Go runtime aborted the process on a concurrent map access |

Actions, one per handler or goroutine step:

- `InitAllocation`
- `UploadCall`: `uploadOrUpdateFile` up to the request build, with every
  early return folded into `Reject`.
- `RepairList`: the repair branch after the list consensus: "File not
  found", "No repair required", else `UpdateRepairStatus(true)`.
- `DownloadCall`
- The synchronous calls (`ListDir`, `GetFileMeta`, `GetFileStats`,
  `DeleteFile`, `RenameObject`, `CopyObject`, `GetAuthTicket`,
  `CommitMetaTransaction`, `MoveObject` with `MoveCopyReturned`),
  followed by `SyncReturn`.
- The sender's `Enqueue` and `Block`.
- `Dispatch` (`dispatchWork`).
- `MapLock`, `MapWrite` and `MapWriteEnd`, for the registration (l.
  316-318) and for `completedCallback` (l. 285-289), whose last step
  ends the task. `a.mutex` is read at `MapLock` and the map at
  `MapWrite`, so after a second `InitAllocation` a writer can hold the
  old mutex and write the new map.
- `Cancel`: an unlocked lookup (l. 685, 693). When it meets a write, or a
  `MapWrite` meets another write of the same map, Go's best-effort check
  may abort the process (`RaceOutcome`). The constant `MapRaceAborts`
  allows that outcome. After an abort no step is taken.
- `ClearRepair`: the caller's `UpdateRepairStatus(false)`.

The outcomes of the Requests are nondeterministic.

### `AsyncRequests.tla` (abstract) and the refinement

`AsyncRequests` states what the asynchronous API promises, with none of
the machinery: each request goes `idle -> queued -> running ->
finished`. `Submit` is the call returning nil, `Start` the dispatcher
handing the request to a task, and `Finish` the task's end. `Start` and
`Finish` are weakly fair.

`MC_Allocation` maps the pipeline onto it with
`INSTANCE AsyncRequests WITH status <- [r \in Reqs |-> AsyncStatus(r)]`.
An upload or download whose call returned nil is `queued` until
`Dispatch` sets its task running, then follows `task`. Every other call
is `idle`. The abstract `Spec` is checked as the property
`AsyncRefinement`. `Enqueue`, `Block`, `MapLock`, `MapWrite` and the registration's `MapWriteEnd` are stuttering
steps of the abstract spec.

### `MC_Allocation.tla`

The harness: model values for requests and keys, the type invariant,
the refinement mapping and the properties.

### `BlobberStore.tla`

One object at the blobbers, and the calls that move it: `DeleteFile`,
`RenameObject`, `CopyObject` and `MoveObject`. The calls' checks come
from `allocation.go` l. 536-639. `MoveObject` (l. 600-606) is one step
for its `CopyObject` and one for its `DeleteFile`, and the `DeleteFile`
runs its own checks again. The Request protocols come from spec section
4.3, because their code is outside this repository.
`ProcessRequest(kind, onOk, onErr)` works as follows:

- Some of the blobbers holding `Src` answer the list.
- Some of those act.
- If the acting blobbers meet `consensusThresh`, the call returns nil.
- Otherwise the rollback reaches some of the acting blobbers, the rest
  keep the effect, and the call returns an error.

Every blobber call may fail, so all of these subsets are chosen
nondeterministically.

The repair is `Allocation`'s repair carried through to the blobbers:

- `RepairFile` (l. 230-319) checks `underRepair` and runs the list
  consensus over the blobbers' state. It returns "File not found" below
  quorum and "No repair required" when the found mask equals the upload
  mask. Otherwise it sets `underRepair`, records the blobbers it found,
  hands the upload on and returns nil.
- `RepairUpload` is the repair's `processUpload`, taken from the spec. It
  sends to `RepairTargets`, the bits of the narrowed `uploadMask`
  (l. 308). The shards commit only if the acknowledgements meet
  `consensusThresh` of the shrunken `fullconsensus` (l. 309). Otherwise
  nothing becomes visible.
- `RepairCleared` is the caller's `UpdateRepairStatus(false)` (l. 139)
  once the upload has ended.

| Variable | Meaning |
|---|---|
| `store[b]` | the paths at which blobber `b` holds a shard of the object |
| `underRepair` | `a.underRepair`, set by `RepairFile` (l. 310) and cleared by `RepairCleared` (l. 139) |
| `repairTask` | the repair's `processUpload`: not started, running, or ended |
| `repairFound` | the blobbers the repair's list consensus found holding the object |
| `pending` | `MoveObject`'s copy returned nil and its `DeleteFile` comes next |
| `last` | the last call that returned, and whether it returned nil |
| `storeAtCall` | `store` when that call began: a history variable for the properties |

`Found(path)` is a list consensus: the holders of `path` meet
`consensusThresh`, which means at least `DataShards` of them. One caller
makes the calls one after another, so the list and act phases of a
Request can be a single step.

### `MC_BlobberStore.tla`

The properties of a call's result against the later state of the store.

## 3. Runs

| Run | Expect | What it shows |
|---|---|---|
| `quorum_math` | pass | `RepairNeverLaxer`: the repair's shrunken `fullconsensus` (N - TrailingZeros32) is never below the number of targeted blobbers. A successful repair therefore wrote to at least D/(D+P) of them. |
| `repair_quorum` | violation | `RepairAllAckedReachesConsensus`: with 2+1 shards and found=0b101, blobber 1 is the only target. `TrailingZeros32(0b010) = 1` leaves `fullconsensus` at 2, so its one acknowledgement is 50% < 66.7% and consensus fails. See the findings. |
| `pipeline` | pass | `AsyncRefinement`: the pipeline implements `AsyncRequests`. Every accepted upload or download is started exactly once and eventually finishes, even when senders block on a full channel. |
| `stale_progress` | violation | `ProgressEntriesLive`: completion before registration leaves a dead entry in the map for good. |
| `same_key_evict` | violation | `RegisteredRequestsCancellable`: two transfers on one path; the first completion removes the second's entry. |
| `repair_exclusive` | violation | `RepairExclusive` (action property): a mutation passes its check while a `RepairFile` is still listing. |
| `reinit_loses` | violation | `AcceptedEventuallyFinishes` (accepted uploads and downloads finish) with two `InitAllocation` calls: a queued request is orphaned. |
| `mask_width` | violation | `NoRepairRequiredOnlyWhenComplete`: with 5 blobbers and a 4-bit mask, the first four holding the object give `found == uploadMask`, and `RepairFile` answers "No repair required". |
| `blobber_store` | pass | `FailedWriteLeavesNoCopy`: a `CopyObject` or `RenameObject` that returned an error left fewer than `DataShards` new shards at the destination, whatever its rollback missed, so the failed write is never found. `SuccessfulOpsVisible`, with 2+1 shards: a call that returned nil is seen by every later list consensus. A deleted object is not found; a copied, renamed or moved one is found at the destination and not at the source; a repaired one is found. This holds whatever blobber calls failed, across any sequence of calls and failed rollbacks. |
| `delete_quorum_overlap` | violation | `SuccessfulOpsVisible` with 1+2 shards: the object is at blobbers 1 and 2. A delete acknowledged by blobber 1 alone meets 1/3 (l. 556) and returns nil, and a list still finds the object at blobber 2. When D <= P, two quorums of D/(D+P) need not meet. |
| `move_partial` | violation | `FailedMoveLeavesNoCopy`: the copy reaches consensus, then the delete misses it or is rejected under repair. `MoveObject` returns an error with a full copy left at the destination. |
| `map_race` | violation | `NoMapRaceAbort` with `MapRaceAborts = TRUE`: `UploadFile` returns, the sender locks `a.mutex` and begins writing its key, and a `CancelUpload` reads the map unlocked at that moment. The runtime may abort the process. The model also reaches the l. 161 case: after a second `InitAllocation`, two writers holding different mutexes write one map. This run (`MaxInits = 1`) does not exhibit it. |

Each property of a passing run has a mutant in `PROJECT.json`, and TLC
finds each mutant violating its property:

- an all-ones mask shifted one place short;
- `fullconsensus` reduced by the popcount of the repair mask;
- a send that ignores the channel capacity;
- a `select` with no download case, which breaks the liveness half of
  the refinement;
- `consensusThresh` computed from the parity shards, which lets a delete
  succeed on one blobber of three.
- the consensus comparison with `>` for `>=`, so a copy acknowledged by
  exactly `DataShards` blobbers fails and leaves them holding it.

### Bounds and why they are enough

- **QuorumMath.** `W = 8`, `MaxData = 4`, `MaxParity = 3`: every layout
  up to 7 blobbers and every found mask, 450 states. The repair
  arithmetic depends only on the bit pattern, and 7 blobbers already
  give every position of the lowest missing blobber relative to the
  number missing.
- **Allocation.** Two request ids, two keys, `QueueCap = 1`, 2+1 shards.
  Two requests are the fewest that give each race: same key versus
  different keys, repair against a mutation, a blocked sender behind a
  queued one. A capacity of 1 makes the full channel reachable with two
  requests, and the code's 10 behaves the same way, only later. A
  3-request run passes too but takes 12 minutes.
- **BlobberStore.** 2+1 shards and two paths. Three blobbers give a
  quorum (2) and a minority (1). In the pass run D > P; the overlap run
  uses 1+2, the smallest layout with D <= P. The initial state has the
  object at any subset of the blobbers, which covers objects a repair
  has not reached yet.
- **MaskWidth.** `W = 4` with up to 6 blobbers: one and two blobbers
  past the width.
- `MapRaceAborts = FALSE` in every `Allocation` run but `map_race`. An
  overlapping access then goes through, which is the other outcome Go's
  best-effort check allows. The passing runs' properties are therefore
  about the executions the process survives; the abort itself is
  `map_race`.
- `MaxInits = 1` in the passing run: callers initialise once. The
  `reinit_loses` run sets it to 2.

### Fairness

- **Goroutines.** `MapWrite`, `MapWriteEnd`, `Dispatch`, `RepairList`,
  `MoveCopyReturned` and `SyncReturn` are weakly fair: Go runs a
  runnable goroutine eventually. Network calls are assumed to return,
  through their transport timeouts.
- **Blocked sends.** A send blocked on a full channel can only run from
  time to time. Go's channels serve blocked senders in FIFO order, which
  justifies strong fairness for `Enqueue`. A writer waiting for a
  contended `sync.Mutex` is likewise enabled only intermittently, and Go
  hands the mutex to its waiters in starvation mode, so `MapLock` is
  strongly fair.
- **The caller.** The caller's own calls (`UploadCall`, `Cancel`,
  `InitAllocation`, `ClearRepair`, ...) carry no fairness.
- **BlobberStore** states only safety properties, so it assumes no
  fairness. Its calls are always enabled and it never deadlocks.
- **Deadlock check.** The `Allocation` runs say `CHECK_DEADLOCK FALSE`. Once its
  finite request ids are used up, the real program idles with
  `dispatchWork` blocked in `select`.

## 4. Not modelled, and why

- **Inside the Request protocols.** The upload shards, the rollback of
  temporary upload data and the block-range downloads are not modelled.
  Their code is not in this repository, so they appear as
  nondeterministic outcomes. `BlobberStore` models Delete, Rename and
  Copy from the spec at the level of which blobber holds which path.
- **Concurrent synchronous calls in `BlobberStore`.** Its calls come
  from one caller. Two goroutines deleting and copying the same path
  concurrently would need the Request's list and act as separate steps.
- **Local filesystem and path cleaning, ticket decoding, status
  callbacks.** These are I/O or formatting. Their failures appear as
  `Reject`.
- **`ctx.Done` in `dispatchWork`.** Nothing in the source cancels the
  context: `ctxCancelF` is never called.
- **`UpdateRepairStatus(true)` called directly by a caller.** It is left
  out because the spec gives the caller only the clearing role.
- **The unlocked `underRepair` flag.** `UnderRepair` and
  `UpdateRepairStatus` access a bool without `a.mutex`. A racing bool
  read returns the old or the new value, which the interleavings
  already give. Its check-then-act window is `RepairExclusive`.
- **Rollback that loses an object.** A failed delete whose best-effort
  rollback misses a blobber can leave an object held by exactly
  `DataShards` blobbers unreadable. This is spec section 4.3's best
  effort. `FailedWriteLeavesNoCopy` checks the half the counting
  guarantees.
- **The bridge test file and the pricing types.** They are out of scope
  (see `PROJECT.json` components).

## 5. Plan

1. Done: `QuorumMath` and `Allocation` (pipeline, progress registry,
   repair flag, the checks of every call); `AsyncRequests` and the
   refinement; `MC_MaskWidth`; `BlobberStore` (Delete, Rename, Copy and
   Move over per-blobber state, with unreliable calls and best-effort
   rollback).
2. Done: `Allocation`'s repair composed with `BlobberStore`. `found` comes
   from the blobber state. With one caller nothing can change the store
   between the list and the upload. The stale found mask needs a
   mutation in flight during the list, which needs a second caller
   (item 4). `RepairExclusive` shows that window in `Allocation`.
3. Done: the progress-map writers as lock, write and unlock steps, and
   the unlocked lookups of `Cancel`, with the runtime abort as an outcome
   (`map_race`).
4. Let two callers run Requests concurrently in `BlobberStore`, with
   list and act as separate steps.
5. An abstract store (one logical object per path) that `BlobberStore`
   refines when D > P and calls succeed.
6. Download cancellation polling between block ranges.
