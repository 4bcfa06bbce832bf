------------------------------ MODULE SyncLocks ------------------------------
(***************************************************************************)
(* The threads of the sync engine and what they wait for each other with:  *)
(*   client  MegaClient::exec(), which changes the node tree;              *)
(*   sync    Syncs::syncLoop(), which compares it with the disk;           *)
(*   app     a thread of the app, in MegaApiImpl::syncPathState().         *)
(*                                                                         *)
(* nodeTreeMutex keeps the sync thread from looking at the node tree while *)
(* the client thread changes it, syncRun() makes the client thread wait    *)
(* for a function that the sync thread executes, and                       *)
(* actionpacketsCurrent keeps the sync thread from starting a pass.        *)
(*                                                                         *)
(* Any thread may run between two steps of another.  A thread that waits   *)
(* for a mutex is one whose next step has the mutex in its guard.          *)
(***************************************************************************)
EXTENDS Naturals, Sequences

CONSTANTS
    Streaming,  \* isStreamingEnabled()
    MaxQueue    \* bound: functions in syncThreadActions when queueSync() adds one

ASSUME SyncLocksAssumption == Streaming \in BOOLEAN /\ MaxQueue \in Nat

VARIABLES
    nodeTreeMutex,              \* the threads that have the mutexes, or Free
    mSyncVecMutex,
    mLocalNodeChangeMutex,
    client,                     \* where the client thread is
    after,                      \* where it goes when syncRun() returns
    promise,                    \* syncRun()'s `synchronous' has its value
    mNodeTreeIsChanging,        \* the streaming parser owns nodeTreeMutex
    scStarted,                  \* isParsingSc()
    fetch,                      \* how far fetchnodes is
    actionpacketsCurrent,
    syncThreadActions,          \* the functions the sync thread is to execute
    earlyRecurseExitRequested,
    sync,                       \* where the sync thread is
    back,                       \* where it goes after a lookup
    actions,                    \* what it took from syncThreadActions
    app                         \* where the app's thread is

mutexes == <<nodeTreeMutex, mSyncVecMutex, mLocalNodeChangeMutex>>
scvars == <<mNodeTreeIsChanging, scStarted, fetch, actionpacketsCurrent>>
runvars == <<after, promise>>
queue == <<syncThreadActions, earlyRecurseExitRequested>>
syncvars == <<sync, back, actions>>
vars == <<mutexes, client, scvars, runvars, queue, syncvars, app>>

Free == "free"

Init ==
    /\ nodeTreeMutex = Free /\ mSyncVecMutex = Free /\ mLocalNodeChangeMutex = Free
    /\ client = "exec" /\ after = "exec" /\ promise = FALSE
    /\ mNodeTreeIsChanging = FALSE /\ scStarted = FALSE
    /\ fetch = "none" /\ actionpacketsCurrent = FALSE
    /\ syncThreadActions = <<>> /\ earlyRecurseExitRequested = FALSE
    /\ sync = "wait" /\ back = "run" /\ actions = <<>>
    /\ app = "idle"

-----------------------------------------------------------------------------
(* The client thread: the sc channel.                                      *)

\* procsc() is called, or the parser's "<": the lock is taken unless the parser
\* has it still.  No sc request is sent from fetchnodes' own to its reply's end.
ProcSc ==
    /\ client = "exec" /\ fetch \in {"none", "loaded"}
    /\ nodeTreeMutex = Free \/ mNodeTreeIsChanging
    /\ nodeTreeMutex' = "client" /\ client' = "procsc"
    /\ scStarted' = TRUE /\ mNodeTreeIsChanging' = Streaming
    /\ actionpacketsCurrent' = IF scStarted THEN actionpacketsCurrent ELSE FALSE
    /\ UNCHANGED <<mSyncVecMutex, mLocalNodeChangeMutex, fetch, runvars, queue, syncvars, app>>

\* ">": the parser keeps the lock until the next chunk.
ScChunkEnds ==
    /\ client = "procsc" /\ Streaming
    /\ client' = "exec"
    /\ UNCHANGED <<mutexes, scvars, runvars, queue, syncvars, app>>

\* The next packet has to wait for a command's sequence tag.
ScWaits ==
    /\ client = "procsc"
    /\ client' = "exec" /\ nodeTreeMutex' = Free /\ mNodeTreeIsChanging' = FALSE
    /\ UNCHANGED <<mSyncVecMutex, mLocalNodeChangeMutex, scStarted, fetch,
                   actionpacketsCurrent, runvars, queue, syncvars, app>>

\* sc_procEoo(): the message has ended.
ScProcEoo(current) ==
    /\ client = "procsc"
    /\ client' = "exec" /\ nodeTreeMutex' = Free
    /\ mNodeTreeIsChanging' = FALSE /\ scStarted' = FALSE
    /\ actionpacketsCurrent' = current
    /\ fetch' = IF current THEN "none" ELSE fetch
    /\ UNCHANGED <<mSyncVecMutex, mLocalNodeChangeMutex, runvars, queue, syncvars, app>>

ClearStreamingParser_KeepsLock ==
    /\ mNodeTreeIsChanging' = mNodeTreeIsChanging /\ scStarted' = FALSE
    /\ UNCHANGED nodeTreeMutex

\* clearStreamingParser(), and jsonsc.pos = NULL.
ClearStreamingParser ==
    /\ mNodeTreeIsChanging' = FALSE /\ scStarted' = FALSE
    /\ nodeTreeMutex' = IF mNodeTreeIsChanging THEN Free ELSE nodeTreeMutex

\* The sc request fails or times out in the middle of a message.
ScFails ==
    /\ client = "exec" /\ Streaming /\ scStarted
    /\ ClearStreamingParser
    /\ UNCHANGED <<mSyncVecMutex, mLocalNodeChangeMutex, client, fetch, actionpacketsCurrent,
                   runvars, queue, syncvars, app>>

-----------------------------------------------------------------------------
(* The client thread: functions for the sync thread.                       *)

\* syncRun() and queueSync() push the function, and then they request an early
\* exit of the pass the sync thread may be in; syncRun() waits for the promise.
Push(function, where, next) ==
    /\ syncThreadActions' = Append(syncThreadActions, function)
    /\ client' = where /\ after' = next /\ promise' = FALSE
    /\ UNCHANGED earlyRecurseExitRequested

RequestEarlyExit_Forgotten ==
    /\ client \in {"syncRun", "queueSync"}
    /\ client' = IF client = "syncRun" THEN "waiting" ELSE after
    /\ UNCHANGED <<mutexes, scvars, runvars, queue, syncvars, app>>

RequestEarlyExit ==
    /\ client \in {"syncRun", "queueSync"}
    /\ earlyRecurseExitRequested' = TRUE
    /\ client' = IF client = "syncRun" THEN "waiting" ELSE after
    /\ UNCHANGED <<mutexes, scvars, runvars, syncThreadActions, syncvars, app>>

SyncRunReturnsToCaller ==
    /\ client = "waiting" /\ promise
    /\ client' = after
    /\ UNCHANGED <<mutexes, scvars, runvars, queue, syncvars, app>>

\* locallogout(), syncConfigStoreAdd() and injectSyncSensitiveData().
CallSyncRun ==
    /\ client = "exec"
    /\ Push("syncRun", "syncRun", "exec")
    /\ UNCHANGED <<mutexes, scvars, syncvars, app>>

\* enableSyncByBackupId() and the others that do not wait.
QueueSync ==
    /\ client = "exec" /\ Len(syncThreadActions) < MaxQueue
    /\ Push("queueSync", "queueSync", "exec")
    /\ UNCHANGED <<mutexes, scvars, syncvars, app>>

\* getConfigs(), under nodeTreeMutex too when the parser has that one.
GetConfigs ==
    /\ client = "exec" /\ mSyncVecMutex = Free
    /\ mSyncVecMutex' = "client" /\ client' = "configs"
    /\ UNCHANGED <<nodeTreeMutex, mLocalNodeChangeMutex, scvars, runvars, queue, syncvars, app>>

GotConfigs ==
    /\ client = "configs"
    /\ mSyncVecMutex' = Free /\ client' = "exec"
    /\ UNCHANGED <<nodeTreeMutex, mLocalNodeChangeMutex, scvars, runvars, queue, syncvars, app>>

-----------------------------------------------------------------------------
(* The client thread: fetchnodes.                                          *)

\* The command is sent: resetScForFetchnodes().
SendFetchNodes ==
    /\ client = "exec" /\ fetch \in {"none", "loaded"}
    /\ ClearStreamingParser
    /\ fetch' = "sent"
    /\ UNCHANGED <<mSyncVecMutex, mLocalNodeChangeMutex, client, actionpacketsCurrent,
                   runvars, queue, syncvars, app>>

FetchNodesBegins_WithoutSyncRun ==
    /\ client = "exec" /\ fetch = "sent"
    /\ actionpacketsCurrent' = FALSE
    /\ client' = "purge"
    /\ UNCHANGED <<mutexes, mNodeTreeIsChanging, scStarted, fetch, runvars, queue, syncvars,
                   app>>

\* Its reply begins: make the syncs leave the pass they are in.
FetchNodesBegins ==
    /\ client = "exec" /\ fetch = "sent"
    /\ actionpacketsCurrent' = FALSE
    /\ Push("syncRun", "syncRun", "purge")
    /\ UNCHANGED <<mutexes, mNodeTreeIsChanging, scStarted, fetch, syncvars, app>>

\* purgenodesusersabortsc(), and then nodes, a chunk at a time.
FetchNodesChunk ==
    /\ client = "purge" \/ (client = "exec" /\ fetch = "loading")
    /\ nodeTreeMutex = Free
    /\ nodeTreeMutex' = "client" /\ client' = "nodes" /\ fetch' = "loading"
    /\ UNCHANGED <<mSyncVecMutex, mLocalNodeChangeMutex, mNodeTreeIsChanging, scStarted,
                   actionpacketsCurrent, runvars, queue, syncvars, app>>

FetchNodesChunkEnds ==
    /\ client = "nodes"
    /\ nodeTreeMutex' = Free /\ client' = "exec"
    /\ fetch' \in {"loading", "loaded"}
    /\ UNCHANGED <<mSyncVecMutex, mLocalNodeChangeMutex, mNodeTreeIsChanging, scStarted,
                   actionpacketsCurrent, runvars, queue, syncvars, app>>

-----------------------------------------------------------------------------
(* The sync thread.                                                        *)

\* The wait is over, by a notification or by its time.
ResetEarlyExit ==
    /\ sync = "wait"
    /\ earlyRecurseExitRequested' = FALSE
    /\ sync' = "pop"
    /\ UNCHANGED <<mutexes, client, scvars, runvars, syncThreadActions, back, actions, app>>

PopAll ==
    /\ sync = "pop"
    /\ actions' = syncThreadActions /\ syncThreadActions' = <<>>
    /\ sync' = "run"
    /\ UNCHANGED <<mutexes, client, scvars, runvars, earlyRecurseExitRequested, back, app>>

\* A function of syncRun() works on mSyncVec.
RunBegins ==
    /\ sync = "run" /\ actions # <<>> /\ Head(actions) = "syncRun"
    /\ mSyncVecMutex = Free
    /\ mSyncVecMutex' = "sync" /\ sync' = "function"
    /\ UNCHANGED <<nodeTreeMutex, mLocalNodeChangeMutex, client, scvars, runvars, queue, back,
                   actions, app>>

RunEnds ==
    /\ sync = "function"
    /\ mSyncVecMutex' = Free /\ promise' = TRUE
    /\ sync' = "run" /\ actions' = Tail(actions)
    /\ UNCHANGED <<nodeTreeMutex, mLocalNodeChangeMutex, client, scvars, after, queue, back, app>>

\* lookupCloudNode(), lookupCloudChildren().
Lookup(from, to) ==
    /\ sync = from /\ nodeTreeMutex = Free
    /\ nodeTreeMutex' = "sync" /\ sync' = "lookup" /\ back' = to
    /\ UNCHANGED <<mSyncVecMutex, mLocalNodeChangeMutex, client, scvars, runvars, queue, app>>

\* mSyncVecMutex is taken under nodeTreeMutex when the caller asks for the syncs.
LookupSyncVec ==
    /\ sync = "lookup" /\ mSyncVecMutex = Free
    /\ mSyncVecMutex' = "sync" /\ sync' = "lookup2"
    /\ UNCHANGED <<nodeTreeMutex, mLocalNodeChangeMutex, client, scvars, runvars, queue, back,
                   actions, app>>

LookupEnds_KeepsSyncVec ==
    /\ sync \in {"lookup", "lookup2"}
    /\ nodeTreeMutex' = Free
    /\ sync' = back
    /\ UNCHANGED <<mSyncVecMutex, mLocalNodeChangeMutex, client, scvars, runvars, queue, back,
                   actions, app>>

LookupEnds ==
    /\ sync \in {"lookup", "lookup2"}
    /\ nodeTreeMutex' = Free
    /\ mSyncVecMutex' = IF sync = "lookup2" THEN Free ELSE mSyncVecMutex
    /\ sync' = back
    /\ UNCHANGED <<mLocalNodeChangeMutex, client, scvars, runvars, queue, back, actions, app>>

\* A function of queueSync() may look things up, as enableSyncByBackupId_inThread().
RunQueued ==
    /\ actions # <<>> /\ Head(actions) = "queueSync"
    /\ Lookup("run", "run") /\ actions' = Tail(actions)

\* processTriggerHandles(), for a node it has to look up or for none.
ProcessTriggers ==
    /\ sync = "run" /\ actions = <<>>
    /\ \/ Lookup("run", "check") /\ UNCHANGED actions
       \/ /\ sync' = "check"
          /\ UNCHANGED <<mutexes, client, scvars, runvars, queue, back, actions, app>>

CheckCurrent_ResetsEarlyExit ==
    /\ sync = "check"
    /\ sync' = IF actionpacketsCurrent THEN "pass" ELSE "wait"
    /\ earlyRecurseExitRequested' = FALSE
    /\ UNCHANGED <<mutexes, client, scvars, runvars, syncThreadActions, back, actions, app>>

\* if (!mClient.actionpacketsCurrent) continue;
CheckCurrent ==
    /\ sync = "check"
    /\ sync' = IF actionpacketsCurrent THEN "pass" ELSE "wait"
    /\ UNCHANGED <<mutexes, client, scvars, runvars, queue, back, actions, app>>

RecursiveSync_KeepsSyncVec ==
    /\ sync = "pass"
    /\ \/ /\ mSyncVecMutex = Free
          /\ mSyncVecMutex' = "sync" /\ UNCHANGED <<mLocalNodeChangeMutex, sync>>
       \/ /\ mSyncVecMutex = "sync" /\ mLocalNodeChangeMutex = Free
          /\ mLocalNodeChangeMutex' = "sync" /\ mSyncVecMutex' = Free /\ sync' = "row"
    /\ UNCHANGED <<nodeTreeMutex, client, scvars, runvars, queue, back, actions, app>>

\* recursiveSync() runs under mLocalNodeChangeMutex alone.
RecursiveSync ==
    /\ sync = "pass" /\ mLocalNodeChangeMutex = Free
    /\ mLocalNodeChangeMutex' = "sync" /\ sync' = "row"
    /\ UNCHANGED <<nodeTreeMutex, mSyncVecMutex, client, scvars, runvars, queue, back, actions,
                   app>>

LookupRow == Lookup("row", "child") /\ UNCHANGED actions

\* For every child: mError is read under mSyncVecMutex, then the early exit.
\* The pass ends when there is no child left, however many there are.
NextChild ==
    /\ sync = "child" /\ mSyncVecMutex = Free
    /\ sync' \in IF earlyRecurseExitRequested THEN {"cachenodes"} ELSE {"row", "cachenodes"}
    /\ UNCHANGED <<mutexes, client, scvars, runvars, queue, back, actions, app>>

\* mSyncVecMutex is taken before mLocalNodeChangeMutex is released.
CacheNodes ==
    /\ sync = "cachenodes" /\ mSyncVecMutex = Free
    /\ mLocalNodeChangeMutex' = Free /\ sync' = "wait"
    /\ UNCHANGED <<nodeTreeMutex, mSyncVecMutex, client, scvars, runvars, queue, back, actions,
                   app>>

-----------------------------------------------------------------------------
(* The app's thread.                                                       *)

\* try_lock_for(): when mLocalNodeChangeMutex is not free, the call does nothing.
PathStateLocks ==
    /\ app = "idle" /\ mLocalNodeChangeMutex = Free
    /\ mLocalNodeChangeMutex' = "app" /\ app' = "locked"
    /\ UNCHANGED <<nodeTreeMutex, mSyncVecMutex, client, scvars, runvars, queue, syncvars>>

\* getSyncStateForLocalPath().
PathStateReads ==
    /\ app = "locked" /\ mSyncVecMutex = Free
    /\ mSyncVecMutex' = "app" /\ app' = "reading"
    /\ UNCHANGED <<nodeTreeMutex, mLocalNodeChangeMutex, client, scvars, runvars, queue,
                   syncvars>>

PathStateEnds ==
    /\ app = "reading"
    /\ mSyncVecMutex' = Free /\ mLocalNodeChangeMutex' = Free /\ app' = "idle"
    /\ UNCHANGED <<nodeTreeMutex, client, scvars, runvars, queue, syncvars>>
-----------------------------------------------------------------------------
ScHandler == ScChunkEnds \/ ScWaits \/ (\E current \in BOOLEAN : ScProcEoo(current))

Client ==
    \/ ProcSc \/ ScHandler \/ ScFails
    \/ CallSyncRun \/ QueueSync \/ RequestEarlyExit \/ SyncRunReturnsToCaller
    \/ GetConfigs \/ GotConfigs
    \/ SendFetchNodes \/ FetchNodesBegins \/ FetchNodesChunk \/ FetchNodesChunkEnds

SyncLoop ==
    \/ ResetEarlyExit \/ PopAll \/ RunBegins \/ RunEnds \/ RunQueued
    \/ ProcessTriggers \/ CheckCurrent
    \/ RecursiveSync \/ LookupRow \/ NextChild \/ CacheNodes
    \/ LookupSyncVec \/ LookupEnds

App == PathStateLocks \/ PathStateReads \/ PathStateEnds

Next == Client \/ SyncLoop \/ App

Spec == Init /\ [][Next]_vars

\* What a thread has begun goes on: a step that needs no mutex is taken, and a
\* thread that waits for a mutex which is free again and again gets it.  Nothing
\* is assumed of when messages come and calls are made.
Fairness ==
    /\ WF_vars(ScHandler) /\ WF_vars(RequestEarlyExit) /\ WF_vars(SyncRunReturnsToCaller)
    /\ WF_vars(GotConfigs) /\ WF_vars(FetchNodesChunkEnds)
    /\ SF_vars(client = "purge" /\ FetchNodesChunk)
    /\ WF_vars(ResetEarlyExit) /\ WF_vars(PopAll) /\ WF_vars(CheckCurrent)
    /\ WF_vars(RunEnds) /\ WF_vars(LookupEnds) /\ WF_vars(ProcessTriggers)
    /\ SF_vars(RunBegins) /\ SF_vars(RunQueued)
    /\ SF_vars(RecursiveSync) /\ SF_vars(LookupRow) /\ SF_vars(NextChild) /\ SF_vars(CacheNodes)
    /\ SF_vars(PathStateReads) /\ WF_vars(PathStateEnds)

FairSpec == Spec /\ Fairness

-----------------------------------------------------------------------------
(* Properties.                                                             *)

Threads == {"client", "sync", "app"}

\* The sync thread is in recursiveSync().
InPass == sync \in {"row", "child", "cachenodes"} \/ (sync \in {"lookup", "lookup2"} /\ back = "child")

\* The variables have their types, and the sync thread has the mutexes that
\* belong to the place it is at.
TypeOK ==
    /\ {nodeTreeMutex, mSyncVecMutex, mLocalNodeChangeMutex} \subseteq Threads \cup {Free}
    /\ client \in {"exec", "procsc", "syncRun", "queueSync", "waiting", "configs", "purge", "nodes"}
    /\ after \in {"exec", "purge"}
    /\ {promise, mNodeTreeIsChanging, scStarted, actionpacketsCurrent,
        earlyRecurseExitRequested} \subseteq BOOLEAN
    /\ fetch \in {"none", "sent", "loading", "loaded"}
    /\ syncThreadActions \in Seq({"syncRun", "queueSync"})
    /\ actions \in Seq({"syncRun", "queueSync"})
    /\ sync \in {"wait", "pop", "run", "function", "lookup", "lookup2", "check", "pass", "row",
                 "child", "cachenodes"}
    /\ back \in {"run", "check", "child"}
    /\ app \in {"idle", "locked", "reading"}
    /\ nodeTreeMutex = "sync" <=> sync \in {"lookup", "lookup2"}
    /\ mSyncVecMutex = "sync" <=> sync \in {"lookup2", "function"}
    /\ mLocalNodeChangeMutex = "sync" <=> InPass

\* "they should only look at the nodes again once everything is reloaded and
\* caught up": from the purge of the tree to the message that makes
\* actionpacketsCurrent true, no pass over the tree is under way, though one may
\* have been at any step of it when fetchnodes' reply came.
NoPassDuringReload == fetch \in {"loading", "loaded"} => ~InPass

\* The client thread goes back to exec() with nodeTreeMutex only in the middle of
\* an sc message: however the message ends, the lock goes with it.
NoLockWithoutMessage ==
    client \in {"exec", "configs", "waiting"} /\ nodeTreeMutex = "client" => scStarted

\* A function that waits for the sync thread is never overlooked by a pass: the
\* flag is set while there is one, the reset at the loop's top notwithstanding.
QueuedStopsPass ==
    /\ InPass /\ syncThreadActions # <<>> /\ client \notin {"syncRun", "queueSync"}
    => earlyRecurseExitRequested

\* syncRun() returns, wherever the sync thread was when it was called.
SyncRunReturns == client = "waiting" ~> client # "waiting"

\* Called between two chunks of a stream, syncRun() waits with nodeTreeMutex.
WaitsWithTree == client = "waiting" /\ nodeTreeMutex = "client"

\* syncRun() returns, wherever the sync thread was when it was called, in a pass
\* or waiting for a mutex; always with procsc(), and with the streaming parser
\* unless nodeTreeMutex is the caller's own.
SyncRunMeetsItsThread == client = "waiting" ~> client # "waiting" \/ WaitsWithTree

\* Thread t waits for thread u: for a mutex that u has, or for the promise.
Waits(t, u) ==
    \/ /\ t = "client"
       /\ \/ client = "purge" /\ nodeTreeMutex = u
          \/ client = "waiting" /\ ~promise /\ u = "sync"
    \/ /\ t = "sync"
       /\ \/ sync = "row" /\ nodeTreeMutex = u
          \/ sync = "run" /\ actions # <<>> /\ Head(actions) = "queueSync" /\ nodeTreeMutex = u
          \/ sync = "run" /\ actions # <<>> /\ Head(actions) = "syncRun" /\ mSyncVecMutex = u
          \/ sync \in {"lookup", "child", "cachenodes"} /\ mSyncVecMutex = u
          \/ sync = "pass" /\ mLocalNodeChangeMutex = u
    \/ t = "app" /\ app = "locked" /\ mSyncVecMutex = u

\* "Lock ordering rules (to avoid deadlocks)": no two threads, and no three, wait
\* for each other, with what each of them already has (SyncRunReturns is about the
\* tree mutex that a streaming client thread may wait with).
NoCircularWait ==
    ~WaitsWithTree =>
        \A t, u, v \in Threads :
            ~(Waits(t, u) /\ (Waits(u, t) \/ (Waits(u, v) /\ Waits(v, t))))
=============================================================================
