# TLA+ models of the MEGA SDK

TLA+ modules for the concurrent and fault-tolerant core of the MEGA SDK, TLC runs over small
instances of them, and TLAPS proofs of their main properties. `PROJECT.json` maps every
definition to the lines it models and lists components, runs, hazards, findings and theorems.

## The system

An application drives one `MegaClient`. Its thread runs `MegaClient::exec()` again and again;
one round serves all the channels to the API and every handler runs to its end in it.

| part | state | operations | talks to |
|---|---|---|---|
| cs channel: `Request`, `RequestDispatcher` (request.cpp) | batches waiting, batch in flight with its cached JSON and id, failure reason, progress in the reply | add, serverrequest, serverresponse, serverChunk, servererror, inflightFailure, continueProcessing, clear | API, sc channel (sequence tags) |
| sc channel: `procsc`, `ScStreamingParser`, `SCSN` | `scsn`, parser position, sequence tags, node tree, state cache | next sc request, packet, interim `isn`, end of message, failures, fetchnodes, restart | API, cs channel, syncs, database |
| sync thread: `Syncs::syncLoop` (sync.cpp) | three mutexes, queue of functions, early-exit flag, `actionpacketsCurrent` | syncRun, queueSync, pass over the syncs, lookups, triggers | client thread, app threads |
| task executor: `common::TaskExecutor`, `TaskQueue` | queue of timed tasks, list of workers, counters, flags | execute, flags, cancel, abort, worker loop, destruction | file service, FUSE mounts |
| WebSocket uploads: `WsPool`, `WsConn`, `WsUploadFile`, `WsPoolMgr` (transfer/ws) | files, in-flight records, resend queue, byte credit, MACs, connections, workers | take, read, encrypt and send a chunk, server events, watchdogs, pause, overquota, cancel, resume | upload server, client thread, transfer cache |
| sync decisions: `Sync::syncItem` and the `resolve_` functions (sync.cpp) | a file as disk, cloud and `LocalNode` have it, its transfer, its requests | scan, pass, upload, download, putnodes, debris | client thread, node tree, file system |
| lockless cs channel | one command in flight | as cs, without tags | API |
| transfers over HTTP, slots, RAID | files, chunks, connections, backoff | dispatch, retry, resume, complete | HTTP, cs channel, database |
| sync moves, folders, filters | three trees for each sync, stalls | move, rename, exclude | node tree, file system |
| node manager, database | nodes in memory and in SQLite | cache, load, commit | sc channel |
| file service, FUSE, client adapter | file ranges, inodes, mounts | read, write, reclaim, mount | executor, client thread |
| alerts, chats, sets, attributes, heartbeats | data of the account | commands and packets | both channels |
| crypto, JSON, file system and network back ends | none of interest here | pure functions or platform I/O | all |

The first six parts are modelled: the channels and threads because all other parts rely on
them, uploads and sync decisions because they are where users' data can be lost; and what goes
wrong in any of them takes several steps of several actors.

What is hard in each, and what is asked of it:

* **cs**: a post or a reply is lost after the API executed the batch; a late copy arrives after
  a retry; a result logs the account out in the middle of a batch; a chunked reply breaks.
  No command is executed twice, answered twice, out of order, or with another's result, and
  none waits for ever.
* **sc**: results wait for action packets and packets wait for results; a stream is cut
  anywhere; the process dies between packets and commit; a reload brings an older tree.
  `scsn` never gets ahead of the tree, no result is handed out ahead of its packets or left
  behind, the syncs never see half an operation, and the two channels never block each other.
* **sync thread**: the client thread waits for the sync thread while holding, in the streaming
  case, the mutex which the sync thread wants; a reload purges the tree under a pass.
* **executor**: cancellation races execution; notifications reach nobody; workers leave as
  tasks come; destruction starts while workers are busy.
* **uploads**: a connection breaks with chunks sent, received or acknowledged; a worker comes
  back from the disk to a file that was paused, failed, removed or started again; a watchdog
  races a late answer; the program restarts from its transfer cache. No byte is credited that
  the server does not have, no range is dropped, no MAC is lost, and the upload ends.
* **sync decisions**: both sides change between scan, decision, transfer and request. No version
  is lost, no change is displaced that was not synced, and the row comes to rest.

## Modules

`RequestDispatcher` (cs channel). The variables carry the names of the members of
`RequestDispatcher`, `Request` and `MegaClient` (`inflightreq`, `nextreqs`, `pendingcs`,
`btcs`, ...). `wire` holds every copy of a batch ever posted, `served` the batches the API has
executed, so a copy may arrive at any later time. One action is one handler of `exec()`:
`Add`, `ServerRequest`, `ServerResponse`, `ServerError`, `ExecFailure`, `ServerChunk`,
`LastServerChunk`, `ProcResult` (one command's result), `ContinueProcessing`, `LocalLogout`,
`HeartbeatTimeout`, and the API's and the network's own steps. A command is a model value; the
constants say which are sent alone, which is the chunked fetchnodes, which results carry a
sequence tag and which log out. External assumptions, from the way the code uses the API: a
batch is refused (-3, -4, an error) only if its id was not executed; a refusal arrives whole;
an id is executed once. `retryessl` is the outcome "ssl"; all other network failures are one.

`CommandQueue` is what the channel promises its users: an ordered queue, each command executed
at most once and answered in order, a success only after execution, nothing after a clear was
asked for. `MCRequestDispatcher` gives the refinement mapping and the liveness property.

`ScChannel` (sc channel). The server's log `ops` is a sequence of operations. One has one
packet, or two: a move ("m": `d` then `t`) and a share of new nodes ("s": `s` then `t`). "n" is
an operation without a tag. An operation's index is its sn and its tag. `applied` is the tree,
as the set of packets whose effect it shows; `db` is what was committed. `Streaming` selects
`ScStreamingParser` (an answer may be cut between any two filters, and `isn` moves `scsn` in
the middle of it) or `procsc()`. `running` keeps a call of `procsc()`, or of one filter,
together. cs batches are sent whole, as their retries are the subject of the module above.
The packet `t` is applied at its end. fetchnodes may bring an older tree unless it
bypasses the API's cache, and `ir` may be set too early: the code says so itself.

`SyncLocks` (threads). `nodeTreeMutex`, `mSyncVecMutex` and `mLocalNodeChangeMutex`, each with
its owner, and three threads: the client thread (`client`, and what it does `after` a
`syncRun`), the sync thread (`sync`, and where a lookup goes `back` to) and an application
thread in `syncPathState`. `CallSyncRun` stands for every caller of `syncRun` outside
fetchnodes, such as `locallogout`. A pass has any number of rows and children and may go on for
ever unless an early exit is requested. All waits of the sync loop are timed, so there is no
wake-up to lose.

`TaskExecutor` (pool). What a thread does under `mLock` is one step. `notifying` is the gap
between `unlock()` and `notify_one()`. Time is what is left of each delay, so it has no bound;
among tasks that are overdue any may be the first. A worker that leaves as one too many stays
in `mWorkers`, as in the code; an idle one erases itself. Spurious wake-ups are left out. A
task's function may call `execute()` while the executor is being destroyed.

`WsUpload` (WebSocket uploads). One pool. A step is one critical section of `uploadMutex`, or
one client-thread task. `up` are the `WsUploadFile` objects, `xfer` the `Transfer`s as the cache
has them, `pool` holds `mToResend`, `mNumChunksInFlight`, `mUploadingFile` and whether that is
stale, `flight` the in-flight records of each connection. A file is cut into numbered chunks, a
chunk's MAC is its number; a short last chunk or an empty one announces the end of the file. A
worker takes a chunk (`Send`), reads it and encrypts it with the mutex released (`Continue`), and
finds out at each lock what happened to the file meanwhile (`gen`). `wire` and `acks` are the two
directions of each connection, `held` what the server has. Events: ingested, duplicate, bad
checksum, server error, complete. `Watch` is the manager's completion and shortfall watchdogs,
which may fire early. `CloseConn`, `InvalidateSession`, `ReadError`, `ServerRejects`, `Cancel`,
`Pause`, `Overquota` and `Restart` are the faults. External: the server answers a chunk it has
with "duplicate", and announces completion again on a duplicate if `ReCompletes`.

`SyncRow` (sync decisions). One name in one folder of a two-way sync. `fs` is the file on disk,
`fsNode` the file as the last scan saw it, `cloud` the nodes of the name, `syncNode` the
`LocalNode`; a version is a fingerprint. A pass has two steps, `CheckMoves` (which reads the cloud
nodes) and `SyncItem`, with everything else in between: writes in place or by replacement,
deletes, other clients' uploads and deletes, scans, the client thread's transfers, putnodes and
removals. The `resolve_` functions keep their names
and take the row as `checkDownloadCompletion()` left it; the parameter of `SyncItem` is whether
the sync thread was sure that all moves are known. A removal is what `resolve_fsNodeGone()` queues
(`QueuedRemoval`) and `execmovetosyncdebris()` does with it (`MoveToSyncDebris`). In the own cloud
the node is moved to the debris. In an in-share it is copied there (`CopyToSyncDebris`) and then
deleted, copied or not (`UnlinkCopied`); these are two requests, and other clients may change or
remove the node between them. `inshare` is decided when it is first asked for, and then for good.
Without a debris folder the removal is "stranded" until another row removes a node
(`AnotherRowRemoves`, which nothing makes happen). `versions` has each older version with the
latest one of its file, as a delete takes a node with the versions older than it. External:
putnodes with an "ov" that is no
longer current puts the node beside the one that is, versioning is enabled, and a node that another
client removes may still be known, in the rubbish bin, unless it was in an in-share.

`MC...` modules hold constants and mappings for TLC, `..._proofs` the theorems. `MCScParsers` and
`MCSyncLocks` choose one of the two parsers at the start with a variable that never changes;
`ScParser` has that of `MCScParsers` and the property that tells the parsers apart.

## Runs

| run | instance | what it checks |
|---|---|---|
| `cs` | two tagged commands, one of which logs out, and a fetchnodes in two chunks; batches of two | `TypeOK`, `AtMostOnce`, `ResultsMatchCommands`, `BatchLimits`, `ImplementsCommandQueue`, `EveryCommandAnswered` |
| `cs_chunk_retry` | one fetchnodes in two chunks | violation of `RetriesAreNeutral` |
| `sc` | either parser, two operations, one batch, one restart; `procsc()` with moves, one failed request and one reload; streaming with shares and two cuts | `TypeOK`, `NothingSkipped`, `ExpectedTagsToCome`, `NoResultLeftBehind`, `SyncsSeeWholeOperations`, `SyncsNeverGoBack`, `ResultsInStep`, `ReportedTagsApplied` |
| `sc_live` | streaming, one batch (with a move or without), one failed request or cut, one restart, one reload | `ResultsDelivered`, `CatchesUp` |
| `sc_move_lost` | streaming, one move, two cuts | violation of `NothingSkipped` |
| `locks` | either parser, one queued function | `TypeOK`, `NoCircularWait`, `QueuedStopsPass`, `NoPassDuringReload`, `NoLockWithoutMessage`, `SyncRunMeetsItsThread` |
| `locks_logout` | streaming | violation of `SyncRunReturns` |
| `executor` | two tasks, two workers, due at once or after the idle time | `AvailableAreIdle`, `CalledOnce`, `WakesInTime`, `EveryTaskIsCalled`, `DestructorReturns` |
| `executor_flags` | `mMaxWorkers` lowered from two to one | violation of `PendingHasWorker` |
| `ws` | a file of two chunks, or of one full chunk and an empty one, over two connections, one fault | `InFlightCounted`, `CurrentIsBound`, `NoRecordOutlivesItsFile`, `CreditIsHeld`, `AckedMacKept`, `SendsWhileUploading`, `RangesStayCovered`, `UploadEnds` |
| `ws_mac` | the same without overquota | violation of `KeyCoversFile` |
| `sync` | three versions, two changes of the local user, one of another client, one failure | `TypeOK`, `NothingLost`, `LocalChangesStay`, `UnseenVersionsStay`, `RowSettles` |

The passing runs have 47,366 (`cs`), 1,976,337 (`sc`), 449,180 (`sc_live`), 29,649 (`locks`),
124,810 (`executor`), 49,037 (`ws`) and 337,486 (`sync`) distinct states; each takes less than three minutes.

### Bounds, and why they are enough

* cs: three commands fill a batch of `MAX_COMMANDS = 2` and leave one over; the number of
  retries, copies and failures is not bounded. Two chunks make a first and a last one. Once a
  command was queued it is not queued again, which bounds the ids.
* sc: `MaxOps`, `MaxBatches`, `MaxAborts`, `MaxRestarts` and `MaxReloads` bound how often each
  happens. Two operations give a tag before and a tag after the one that is waited for; a batch
  of three commands has an untagged result between tagged ones. The streaming half of `sc` has
  two cuts, so that a stream may be cut again while packets are being repeated, and no moves,
  because of what `sc_move_lost` shows. sc runs do not check for deadlock, since the bounds end
  every behaviour.
* locks: `MaxQueue = 1`. One waiting function is enough to need an early exit; a pass and the
  number of messages, reloads and calls are not bounded. Deadlock is not checked:
  what `locks_logout` shows really stops two threads.
* executor: two workers are a last one and one that may leave, two tasks one in work and one
  queued; delays of 0 and 2 around an idle time of 1 let a worker time out before a task is due.
* ws: two chunks and two connections let one chunk be answered while the other is lost with its
  connection; the file that ends on a full chunk needs the empty one. `MaxFaults = 1` bounds
  losses, errors, holds, cancels and restarts together, `MaxUploads = 1` the files at the start.
  A chunk may be refused once (`MaxChunkRetries = 1`) before its file fails. By hand, outside the
  five minutes of a run, the invariants and action properties were also checked with two faults
  and one upload (two connections, with symmetry: 760,559 states), with two uploads on one
  connection and one fault (454,788 states), and with two uploads of one chunk each on one
  connection and two faults (2,821,501 states).
  An upload may end or stop being owed anything, so deadlock is not checked.
* sync: three versions are what was synced, what the user wrote and what another client put.
  `MaxLocal = 2` gives a change during the upload of a change, `MaxFails = 1` one failure of a
  transfer or of a request at any point. Scans, passes and deferrals are not bounded. By hand, the
  safety properties with two versions and four local changes (13,323,564 states) and with three
  and two changes on each side (4,395,851 states), and all of them with one local change and two of
  other clients (114,869 states). A row that has settled
  may stop, so deadlock is not checked.

### Fairness

`exec()` is called again and again, so each of its steps is weakly fair. The API executes what
reaches it; a reply that is sent again and again gets through (strong fairness of `ApiReplies` and
of the chunks: connections may break any number of times, not always). The sc channel catches up
with a tag the cs channel waits for; `sc_live` is where this assumption of `cs` is examined. In
`SyncLocks` strong fairness is given to steps that need a mutex: a thread that finds it free again
and again gets it. In `TaskExecutor` threads go on, time passes and functions return. In
`WsUpload` workers keep running and reconnect, the server answers, the client thread drains its
tasks, the manager looks at the files, and a pause or an overquota ends; sending and receiving are
strongly fair, as a connection that is lost and made again, or a pause, disables them for a while.
In `SyncRow` both threads keep running and the API answers; `Scan` and `SyncItem(TRUE)` are
strongly fair, because the passes go on in between and the sync thread is sure of the moves again
and again, not all the time. Nothing makes a user act: queueing, cancelling, logging out,
destroying, writing files and failing are never fair.

## Findings

* `cs_chunk_retry`: after a chunked fetchnodes reply breaks, `inflightFailure()` leaves the
  splitter, the position and `mChunkedProgress` as they are, and the retry's bytes are read as a
  continuation (request.cpp:184). fetchnodes fails with an internal error or does not end.
* `sc_move_lost`: a move's stream is cut between `d` and `t`, and the node is purged. The
  repeated `d` finds no node, so `isDuringMoveOperation()` is false and the `isn` is stored
  before the `t` (sc_streaming_parser.cpp:356). Another cut loses the `t`.
* `locks_logout`: the streaming parser keeps `nodeTreeMutex` from chunk to chunk
  (sc_streaming_parser.cpp:219). A logout in between waits in `syncRun()` for a sync thread that
  waits for the mutex.
* `executor_flags`: when `mMaxWorkers` is lowered below the number of workers, each of them sees
  too many, leaves and stays in `mWorkers` (task_executor.cpp:205). None is left and none is
  spawned again. A FUSE mount's flags can be changed at run time (posix/mount.cpp).
* `ws_mac`: a connection is lost after the server took a chunk and before its answer was read.
  The chunk goes back to the resend queue without its MAC (ws_pool.cpp:632). If the completion
  comes on another connection first, the node key is made without that MAC.

Limits met on the way, which the models show and no run pins down. cs and sc:

* A stream cut after a packet's tag was checked leaves `mCurrentSeqtagSeen` set
  (sc_streaming_parser.cpp:102); when earlier packets without `isn` are repeated, the result is
  handed out ahead of its packet (`ResultsInStep` fails with `IsnChoices = {TRUE, FALSE}`). The
  tag may also be committed ahead of the packet: the exception in `ReportedTagsApplied`.
* Only tags of packets get into `mLargestEverSeenScSeqTag`. The tag that comes with fetchnodes or
  from the state cache does not, so a reload may show the syncs a tree older than that one,
  although the comment at megaclient.cpp:5804 wants "at least the same scsn/seqTag as we were at
  before". Hence `SyncsNeverGoBack` speaks of the largest tag seen in packets.
* API_ETOOMANY while a result waits for its tag: the batch is never resumed and the reload's
  fetchnodes is never sent. It is the exception of `ResultsDelivered` and `CatchesUp`; the second
  one of `CatchesUp` is a move in a stream that was cut.
* A stream cut between the last packet, its `isn` stored, and the end of the array leaves the
  result waiting until the API sends an array again. The model's answers always have one, if an
  empty one, so `sc_live` does not show this.
* A misparsed chunk clears the batch while its HTTP request goes on; if that fails,
  `assert(!inflightreq.empty())` in `inflightFailure()` is false.

Threads:

* During a reload triggers and queued functions still look nodes up (sync.cpp:13684);
  `NoPassDuringReload` is about passes.
* A worker that is busy while `~TaskExecutor()` notifies sleeps once more, without a look at
  `mTerminating`, until the idle time is over or the next queued task would be due. The
  destructor waits as long: it returns (`DestructorReturns`), but late.

Uploads:

* `activateoverquota()` marks the current upload failed and leaves it `mUploadingFile`;
  `getWsUploadFile()` (ws_pool.cpp:396) then keeps it without `setUploadStart()`, so its chunks
  are taken and dropped to the last one and no watchdog looks at it: `Stranded`, the exception of
  `UploadEnds`.
* The same overquota between the completion and `onComplete()` loses MACs: `resetAttemptState()`
  clears `mConfirmedChunkMacs` (`KeyCoversFile` fails this way too with `MayFill = TRUE`).
* A duplicate answer gives no byte credit, so a chunk whose first answer was lost leaves a
  shortfall for the watchdog, unless the completion comes first.
* A chunk of a file that was dropped at overquota and is started again is not sent again before
  the shortfall watchdog finds the gap. Hence `RangesStayCovered` speaks of one attempt.
* `nextChunk` drops a queued resend if its file is not found, not if it belongs to an earlier
  attempt, as ws_pool.cpp:1110 suggests.

Sync decisions:

* When the copy of an in-share's node to the debris fails, the completion of the putnodes warns
  "continue process (remove them)" and deletes the node for good (megaclient.cpp:18981). The node
  and its older versions are then nowhere: `Uncopied`, the exception of `NothingLost`.
* `resolve_fsNodeGone()`'s queued function (sync.cpp:12366) returns without `failed` or
  `succeeded` when the node became an older version, to "abandon the action and let the sync
  recalculate", or is not there any more. `removeNodeHere` then stays, and the row waits for ever:
  `Removal = "abandoned"` in `RowSettles`. `rename()` and `unlink()` may also refuse without calling
  the completion they were given.
* When the debris folder of the day cannot be created, its completion calls
  `execmovetosyncdebris()` again within the same minute, in which no new attempt is made, and
  `pendingDebris` waits for the next removal of any row: `Removal = "stranded"`.
* `deletedFS` is cleared only in `LocalNode::init()`: a file that is put again after the deletion
  stays where it is, neither uploaded nor reported (`StuckDeleted` in `RowSettles`).
* A file that was created after a download began where there was none goes to the debris when the
  download arrives, without a stall: `okToOverwriteFF` has nothing to compare it with. It is the
  exception of `LocalChangesStay`.
* `cloneNode()` does not call `addExpectedUpload()`, and `isNodeAnExpectedUpload()` compares
  folder and name only. A file that is edited and deleted during its putnodes may be downloaded
  again, and another client's node be taken for the upload.
* `resolve_makeSyncNode_fromCloud()` sets `syncedFingerprint` before anything was downloaded: a
  file that appears on disk before the download is uploaded over the node.
* `resolve_rowMatched()` and `resolve_downsync()` give up an upload whose putnodes is under way.
  Its node may come back as a second one of the name, which stalls the row.

## Proofs

Each theorem holds for every value of the constants that satisfies the module's `ASSUME`, which
TLC evaluates in the runs.

* `RequestDispatcher_proofs`: `TypeCorrect`, `ExecutedAtMostOnce`, `ResultsMatch`,
  `BatchesWithinLimits`. `AtMostOnce` is not inductive: it needs that an id stands for one batch
  and a command was posted in one batch only (`MsgInv`), that waiting batches share no command
  with those (`NextInv`), that the batch in flight was posted with the JSON and id cached for it
  (`InflightInv`). `ResultsMatchCommands` needs that the request and the reply being read belong
  to the batch in flight (`ReplyInv`) and that sending, processing and waiting for a tag exclude
  each other (`PhaseInv`). `IInv` is their conjunction, with one lemma for each part.
* `CommandQueue_proofs`: `CommandQueueImplemented`, the refinement of `CommandQueue`. A step of the
  queue is one result or the whole clear; posts, retries, refusals and pauses stutter. On top of
  `IInv` it needs `AnswerInv`: a reply that can be read was given by the API to the id it answers,
  and a clear is put off only while a result is being processed. What `Queued` does when a batch
  or a command is added or taken follows by induction over the batches, which is done with the
  least number for which a claim fails (`LeastNatural`), as the library's induction rules have an
  operator for a parameter.
* `ScChannel_proofs`: `ScChannelTypes`, `NoPacketSkipped` (for `procsc()`, and for the streaming
  parser if nobody moves a node: the premise is the one `sc_move_lost` shows to be needed) and
  `NoResultIsLeftBehind` (for both). The invariant says that the tree is whole up to `scsn`, in
  memory and in the cache (`Kept`), that a request asks from where the tree is whole (`Asking`),
  that the parser leaves no gap behind it (`Reading`), and that an `isn` put aside belongs to the
  operation being read (`Interim`). `Bounds` keeps every tag, sequence number and position within
  the log.
* `ScTags_proofs`: `SyncsSeeWhole`, `SyncsGoForward`, `TagsStillToCome`, `ResultsKeepStep` and
  `ReportedTagsAreApplied`, under `InScope`: `procsc()`, or the streaming parser with an `isn` on
  every operation and no moves. Without that premise they are false, as `sc_move_lost` and the
  first of the limits above show. `NoPacketSkipped` says that nothing is missing from the tree;
  these need that nothing is there too early. `Ends` says where the trees in memory and in the
  cache end: after a whole operation, or within the one that is being read or was cut.
  `TagsInStep` relates the tags read, reported and cached to those ends, `Shown` what the syncs
  were shown. `Results` says that each result still to be handed out waits for a packet still to
  come, `Seen` that once its packet was seen none of a later operation was applied.
* `SyncLocks_proofs`: `PassesMissReloads`, `LockEndsWithMessage`, `NoThreadsWaitInACircle`,
  `LocksTypes` and `QueuedFunctionsStopPasses`, for both parsers and any queue length. `Reload` says where the sync
  thread can be at each step of a reload: once the promise is set it has been at the top of its
  loop with `actionpacketsCurrent` false. `Owner` says which handler or message has
  `nodeTreeMutex`, `Holders` where each thread is when it has one of the three mutexes; from
  these, who may wait for whom has no circle. `Flagged` says that a function that was pushed after
  the sync thread took the queue has set the flag.
* `TaskExecutor_proofs`: `TasksAreCalledOnce`, `AvailableWorkersAreIdle` and `WorkersWakeInTime`,
  for any tasks, workers, delays and flags, lowered ones included. `Threads` says that every thread can be joined and
  that none is left after destruction, `Owned` that a task whose function is still to be called
  is in the queue or with a worker. The counter's proof is by the cardinality of the set of idle
  workers. That no wakeup is lost needs `Alert`: while there are tasks, a notification is on its
  way, a worker is awake, a worker sleeps no longer than the first task has left, or nobody waits.
  A worker that stops because `mMaxWorkers` was lowered could break it; `Limited` says that nobody
  waits while there are too many workers.
* `WsUpload_proofs`: `CurrentFileIsBound`, `RecordsBelongToFiles`, `AckedMacsAreKept` and
  `SendsOnlyWhileUploading`, for any files, connections, chunks, retries and faults. One
  invariant: the shape of the variables, the first three properties and that a bound file which is
  not failed was started. They rest on each other, as what a worker sends next is a chunk of the
  current file.
* `SyncRow_proofs`: `VersionsAreKept`, for any versions, changes and failures. Each function of a
  pass hands on a row that has the file of the disk or keeps it; a putnodes keeps what it displaces
  as a version; a move to the debris keeps a node with its versions. The delete that follows a copy
  needs an invariant, `Copied`: from the copy to the delete, the node and the versions older than
  it, if they are still there, are in the debris. Other clients and other putnodes may displace the
  node in between, so its place among the versions changes (`VersionsRelinked`), but nothing can
  become an older version of it. If the copy failed the theorem allows the delete to
  take the node and these versions, and nothing else.
  `LocalChangesAreKept` needs more: a pass decides from handles and from the version that
  a download may overwrite, both noted earlier, so the invariant says that these notes are right:
  handles are given once (`HandlesOK`), the handles of the `LocalNode` and of the transfer mean the
  versions noted with them (`NodeOK`, `TransferOK`), a transfer belongs to the `LocalNode` and may
  overwrite only what that has for synced (`Fits`), and the answer an upload waits for is the one
  to the last request (`OwnLast`).

Only model-checked: liveness (outside the prover's reach), `InFlightCounted`, `CreditIsHeld`,
`RangesStayCovered`, `UnseenVersionsStay` and the `TypeOK` of `SyncRow`.

## Not modelled

The map covers some 9,000 of the 360,000 lines of the repository: the SDK's public interface, its
bindings, examples and platform back ends are most of the rest. The six parts modelled are where
concurrency and faults meet; what they and the other parts leave out is this.

* cs channel: a connection that breaks after the last chunk of a reply was read (`HttpFails`
  needs a chunk still to come), and what else chooses the chunked mode: `hasCacheLoaded()` and the
  VPN client.
* sc channel: error replies to fetchnodes; user alerts (sc50), catch-up requests, `scpaused`, session errors, switching the
  parser at run time, logout. `fetchingnodes` of the model also holds from a restart from the
  cache to the first answer without "ir", where the code has `statecurrent`; all it is used for is
  that no reload begins before.
* Threads: the purge of the tree at logout, the FUSE client adapter's use of `nodeTreeMutex`,
  starvation of writers by readers of a shared mutex.
* Uploads: files that move between pools (the pool is the one pinned to the session URL), speed
  limit, throttling, the ack-stall and resend-stall watchdogs, failures to prepare an upload, the
  verification of the file after completion, completion frames that are malformed or carry an
  unusable token (the upload fails and is enqueued again, as in `OnFail`), a pause of the engine. A handshake that keeps failing
  is `InvalidateSession`.
* Sync decisions: moves and renames, folders, exclusions, name clashes on disk, files that differ
  in time or CRC only, backups, restoring a node from the rubbish, versioning turned off; a download
  that cannot be placed (disk error, name too long or not allowed) and one that ends with an error
  that `handleTerminatedDownloads()` asserts not to happen; the hook that defers the completion of
  a putnodes. Moves
  relate any two rows of any two syncs; two names with users on both sides are beyond TLC.
* The HTTP transfers, RAID, node manager, file service, FUSE inodes and mounts are systems of the
  size of those modelled here. Alerts, chats, sets, attributes and heartbeats are data to the two
  channels. Crypto, JSON and the back ends are pure functions or platform I/O, and a backoff timer
  two numbers. `PROJECT.json` gives the reason for each.
