--------------------------- MODULE SyncLocks_proofs ---------------------------
(***************************************************************************)
(* Proofs about SyncLocks: for both parsers and whatever is queued, no     *)
(* pass over the tree is under way while fetchnodes replaces it, the       *)
(* streaming parser's lock never outlives its message, the mutexes are     *)
(* never waited for in a circle, a queued function stops the pass, and     *)
(* every variable keeps its type.                                          *)
(***************************************************************************)
EXTENDS SyncLocks, TLAPS

\* The sync thread is not in a pass and will not start one.
Hidden == ~actionpacketsCurrent /\ ~InPass /\ sync # "pass"

\* When a pass is under way or about to begin, and where the client thread
\* stands in fetchnodes' reply: actionpacketsCurrent is false from the reply's
\* first step, and once the promise is set the sync thread has been through the
\* top of its loop.
Reload ==
    /\ client = "queueSync" => after = "exec"
    /\ client \in {"syncRun", "waiting"} /\ after = "purge" =>
           fetch = "sent" /\ ~actionpacketsCurrent /\ (promise => Hidden)
    /\ client = "purge" => fetch = "sent" /\ Hidden
    /\ client = "nodes" => fetch = "loading"
    /\ client = "procsc" => fetch \in {"none", "loaded"}
    /\ fetch \in {"loading", "loaded"} => Hidden
    /\ client \in {"exec", "procsc", "syncRun", "queueSync", "waiting", "configs", "purge", "nodes"}
    /\ after \in {"exec", "purge"}
    /\ back \in {"run", "check", "child"}

\* Reload holds in the initial states.
LEMMA InitReload == Init => Reload
BY DEF Init, Reload, Hidden

\* Every step keeps Reload.
LEMMA NextReload == Reload /\ [Next]_vars => Reload'
<1> SUFFICES ASSUME Reload, [Next]_vars PROVE Reload'
  OBVIOUS
<1> USE DEF Reload, Hidden, InPass
<1>1. CASE Client
  <2> USE DEF runvars, queue, syncvars
  <2>1. CASE ProcSc
    BY <2>1 DEF ProcSc
  <2>2. CASE ScHandler
    BY <2>2 DEF ScHandler, ScChunkEnds, ScWaits, ScProcEoo, scvars
  <2>3. CASE ScFails
    BY <2>3 DEF ScFails, ClearStreamingParser
  <2>4. CASE CallSyncRun
    BY <2>4 DEF CallSyncRun, Push, scvars
  <2>5. CASE QueueSync
    BY <2>5 DEF QueueSync, Push, scvars
  <2>6. CASE RequestEarlyExit
    BY <2>6 DEF RequestEarlyExit, scvars
  <2>7. CASE SyncRunReturnsToCaller
    BY <2>7 DEF SyncRunReturnsToCaller, scvars
  <2>8. CASE GetConfigs \/ GotConfigs
    BY <2>8 DEF GetConfigs, GotConfigs, scvars
  <2>9. CASE SendFetchNodes
    BY <2>9 DEF SendFetchNodes, ClearStreamingParser
  <2>10. CASE FetchNodesBegins
    BY <2>10 DEF FetchNodesBegins, Push
  <2>11. CASE FetchNodesChunk \/ FetchNodesChunkEnds
    BY <2>11 DEF FetchNodesChunk, FetchNodesChunkEnds
  <2> QED
    BY Zenon, <1>1, <2>1, <2>2, <2>3, <2>4, <2>5, <2>6, <2>7, <2>8, <2>9, <2>10, <2>11 DEF Client
<1>2. CASE SyncLoop
  <2> USE DEF scvars, runvars
  <2>1. CASE ResetEarlyExit \/ PopAll
    BY <2>1 DEF ResetEarlyExit, PopAll
  <2>2. CASE RunBegins \/ RunEnds
    BY <2>2 DEF RunBegins, RunEnds
  <2>3. CASE RunQueued \/ ProcessTriggers
    BY <2>3 DEF RunQueued, ProcessTriggers, Lookup
  <2>4. CASE CheckCurrent
    BY <2>4 DEF CheckCurrent
  <2>5. CASE RecursiveSync \/ LookupRow \/ NextChild \/ CacheNodes
    BY <2>5 DEF RecursiveSync, LookupRow, Lookup, NextChild, CacheNodes
  <2>6. CASE LookupSyncVec \/ LookupEnds
    BY <2>6 DEF LookupSyncVec, LookupEnds
  <2> QED
    BY <1>2, <2>1, <2>2, <2>3, <2>4, <2>5, <2>6 DEF SyncLoop
<1>3. CASE App
  BY <1>3 DEF App, PathStateLocks, PathStateReads, PathStateEnds, scvars, runvars, syncvars
<1>4. CASE UNCHANGED vars
  BY <1>4 DEF vars, scvars, runvars, syncvars
<1> QED
  BY <1>1, <1>2, <1>3, <1>4 DEF Next

\* "they should only look at the nodes again once everything is reloaded and
\* caught up" (commands.cpp), of passes: syncRun() and actionpacketsCurrent keep
\* them away from the purge of the tree to the end of the catch-up.
THEOREM PassesMissReloads == Spec => []NoPassDuringReload
<1>1. Reload => NoPassDuringReload
  BY DEF Reload, Hidden, NoPassDuringReload
<1> QED
  BY InitReload, NextReload, <1>1, PTL DEF Spec

-----------------------------------------------------------------------------
\* The client thread has nodeTreeMutex in a handler that takes it, or by the
\* parser, which has begun a message then.
Owner ==
    /\ mNodeTreeIsChanging => scStarted /\ nodeTreeMutex = "client"
    /\ nodeTreeMutex = "client" => client \in {"procsc", "nodes"} \/ mNodeTreeIsChanging
    /\ client \in {"purge", "nodes"} \/ fetch \in {"sent", "loading"} => ~mNodeTreeIsChanging
    /\ client \in {"syncRun", "waiting"} /\ after = "purge" => ~mNodeTreeIsChanging
    /\ client = "procsc" /\ Streaming => mNodeTreeIsChanging
    /\ client \in {"procsc", "nodes"} => nodeTreeMutex = "client"
    /\ sync \in {"lookup", "lookup2"} => nodeTreeMutex = "sync"

\* Owner holds in the initial states.
LEMMA InitOwner == Init => Owner
BY DEF Init, Owner, Free

\* Every step keeps Owner.
LEMMA NextOwner == Reload /\ Owner /\ [Next]_vars => Owner'
<1> SUFFICES ASSUME Reload, Owner, [Next]_vars PROVE Owner'
  OBVIOUS
<1> USE SyncLocksAssumption DEF Reload, Owner, Free
<1>1. CASE Client
  <2> USE DEF runvars, syncvars
  <2>1. CASE ProcSc
    BY <2>1 DEF ProcSc
  <2>2. CASE ScHandler
    BY <2>2 DEF ScHandler, ScChunkEnds, ScWaits, ScProcEoo, scvars, mutexes
  <2>3. CASE ScFails
    BY <2>3 DEF ScFails, ClearStreamingParser
  <2>4. CASE CallSyncRun \/ QueueSync
    BY <2>4 DEF CallSyncRun, QueueSync, Push, scvars, mutexes
  <2>5. CASE RequestEarlyExit \/ SyncRunReturnsToCaller
    BY <2>5 DEF RequestEarlyExit, SyncRunReturnsToCaller, scvars, mutexes
  <2>6. CASE GetConfigs \/ GotConfigs
    BY <2>6 DEF GetConfigs, GotConfigs, scvars
  <2>7. CASE SendFetchNodes
    BY <2>7 DEF SendFetchNodes, ClearStreamingParser
  <2>8. CASE FetchNodesBegins
    BY <2>8 DEF FetchNodesBegins, Push, mutexes
  <2>9. CASE FetchNodesChunk \/ FetchNodesChunkEnds
    BY <2>9 DEF FetchNodesChunk, FetchNodesChunkEnds
  <2> QED
    BY <1>1, <2>1, <2>2, <2>3, <2>4, <2>5, <2>6, <2>7, <2>8, <2>9 DEF Client
<1>2. CASE SyncLoop
  <2> USE DEF scvars, runvars, mutexes
  <2>1. CASE ResetEarlyExit \/ PopAll \/ RunBegins \/ RunEnds \/ CheckCurrent
    BY <2>1 DEF ResetEarlyExit, PopAll, RunBegins, RunEnds, CheckCurrent
  <2>2. CASE RunQueued \/ ProcessTriggers \/ LookupRow
    BY <2>2 DEF RunQueued, ProcessTriggers, LookupRow, Lookup
  <2>3. CASE RecursiveSync \/ NextChild \/ CacheNodes
    BY <2>3 DEF RecursiveSync, NextChild, CacheNodes
  <2>4. CASE LookupSyncVec \/ LookupEnds
    BY <2>4 DEF LookupSyncVec, LookupEnds
  <2> QED
    BY <1>2, <2>1, <2>2, <2>3, <2>4 DEF SyncLoop
<1>3. CASE App
  BY <1>3 DEF App, PathStateLocks, PathStateReads, PathStateEnds, scvars, runvars, syncvars
<1>4. CASE UNCHANGED vars
  BY <1>4 DEF vars, scvars, runvars, syncvars, mutexes
<1> QED
  BY <1>1, <1>2, <1>3, <1>4 DEF Next

\* The streaming parser's lock never outlives the message it was taken for: a
\* stream that fails and fetchnodes give it back (ScStreamingParser::clear()).
THEOREM LockEndsWithMessage == Spec => []NoLockWithoutMessage
<1>1. Reload /\ Owner => NoLockWithoutMessage
  BY DEF Reload, Owner, NoLockWithoutMessage
<1> QED
  BY InitReload, NextReload, InitOwner, NextOwner, <1>1, PTL DEF Spec

-----------------------------------------------------------------------------
\* Which thread has which mutex where: the app's thread never has nodeTreeMutex,
\* and the client thread never mLocalNodeChangeMutex.
Holders ==
    /\ nodeTreeMutex = "sync" => sync \in {"lookup", "lookup2"}
    /\ nodeTreeMutex # "app"
    /\ mSyncVecMutex = "sync" => sync \in {"lookup2", "function"}
    /\ mSyncVecMutex = "client" => client = "configs"
    /\ mSyncVecMutex = "app" => app = "reading"
    /\ client = "configs" => mSyncVecMutex = "client"
    /\ sync \in {"lookup2", "function"} => mSyncVecMutex = "sync"
    /\ app = "reading" => mSyncVecMutex = "app"
    /\ mLocalNodeChangeMutex = "sync" => InPass
    /\ mLocalNodeChangeMutex # "client"
    /\ InPass => mLocalNodeChangeMutex = "sync"
    /\ app \in {"locked", "reading"} => mLocalNodeChangeMutex = "app"

\* Holders holds in the initial states.
LEMMA InitHolders == Init => Holders
BY DEF Init, Holders, InPass, Free

\* Every step keeps Holders.
LEMMA NextHolders == Reload /\ Owner /\ Holders /\ [Next]_vars => Holders'
<1> SUFFICES ASSUME Reload, Owner, Holders, [Next]_vars PROVE Holders'
  OBVIOUS
<1> USE DEF Holders, InPass, Free
<1>1. CASE Client
  <2> USE DEF runvars, syncvars, mutexes
  <2>1. CASE ProcSc \/ ScHandler \/ ScFails
    BY ZenonT(30), <2>1 DEF ProcSc, ScHandler, ScChunkEnds, ScWaits, ScProcEoo, ScFails,
                ClearStreamingParser, Owner
  <2>2. CASE CallSyncRun \/ QueueSync \/ FetchNodesBegins
    BY <2>2 DEF CallSyncRun, QueueSync, FetchNodesBegins, Push
  <2>3. CASE RequestEarlyExit \/ SyncRunReturnsToCaller
    BY <2>3 DEF RequestEarlyExit, SyncRunReturnsToCaller, Reload
  <2>4. CASE GetConfigs \/ GotConfigs
    BY <2>4 DEF GetConfigs, GotConfigs
  <2>5. CASE SendFetchNodes
    BY <2>5 DEF SendFetchNodes, ClearStreamingParser, Owner
  <2>6. CASE FetchNodesChunk \/ FetchNodesChunkEnds
    BY <2>6 DEF FetchNodesChunk, FetchNodesChunkEnds, Owner
  <2> QED
    BY <1>1, <2>1, <2>2, <2>3, <2>4, <2>5, <2>6 DEF Client
<1>2. CASE SyncLoop
  <2> USE DEF mutexes, Reload
  <2>1. CASE ResetEarlyExit \/ PopAll \/ RunBegins \/ RunEnds \/ CheckCurrent
    BY <2>1 DEF ResetEarlyExit, PopAll, RunBegins, RunEnds, CheckCurrent
  <2>2. CASE RunQueued \/ ProcessTriggers \/ LookupRow
    BY <2>2 DEF RunQueued, ProcessTriggers, LookupRow, Lookup
  <2>3. CASE RecursiveSync \/ NextChild \/ CacheNodes
    BY <2>3 DEF RecursiveSync, NextChild, CacheNodes
  <2>4. CASE LookupSyncVec \/ LookupEnds
    BY <2>4, SyncLocksAssumption DEF LookupSyncVec, LookupEnds
  <2> QED
    BY Zenon, <1>2, <2>1, <2>2, <2>3, <2>4 DEF SyncLoop
<1>3. CASE App
  BY <1>3 DEF App, PathStateLocks, PathStateReads, PathStateEnds, syncvars
<1>4. CASE UNCHANGED vars
  BY <1>4 DEF vars, syncvars, mutexes
<1> QED
  BY <1>1, <1>2, <1>3, <1>4 DEF Next

\* Who waits, and for whom: the app's thread only for threads that wait for none,
\* and the client thread only for the sync thread.
LEMMA WhoWaits ==
    ASSUME Reload, Owner, Holders, ~WaitsWithTree
    PROVE  /\ \A u \in Threads : Waits("client", u) => u = "sync"
           /\ Waits("client", "sync") => ~Waits("sync", "client")
           /\ ~Waits("sync", "sync")
           /\ \A u \in Threads : Waits("app", u) => \A v \in Threads : ~Waits(u, v)
<1> USE DEF Waits, Threads
<1>1. \A u \in Threads : Waits("client", u) => u = "sync"
  BY DEF Owner, Holders
<1>2. Waits("client", "sync") => ~Waits("sync", "client")
  BY DEF WaitsWithTree, Owner, Holders
<1>3. ~Waits("sync", "sync")
  BY DEF Holders, InPass
<1>4. ASSUME NEW u \in Threads, Waits("app", u), NEW v \in Threads PROVE ~Waits(u, v)
  BY <1>4 DEF Holders
<1> QED
  BY Zenon, <1>1, <1>2, <1>3, <1>4

\* "Lock ordering rules (to avoid deadlocks)" (sync.h): no circle of threads waits
\* for mutexes or for syncRun()'s promise, except when the streaming client waits
\* in syncRun() with nodeTreeMutex.
THEOREM NoThreadsWaitInACircle == Spec => []NoCircularWait
<1>1. Reload /\ Owner /\ Holders => NoCircularWait
  <2> SUFFICES ASSUME Reload, Owner, Holders, ~WaitsWithTree,
                      NEW t \in Threads, NEW u \in Threads, NEW v \in Threads,
                      Waits(t, u), Waits(u, t) \/ (Waits(u, v) /\ Waits(v, t))
               PROVE  FALSE
    BY DEF NoCircularWait
  <2>1. t # "app" /\ u # "app" /\ (~Waits(u, t) => v # "app")
    BY WhoWaits
  <2> QED
    BY <2>1, WhoWaits DEF Threads
<1> QED
  BY InitReload, NextReload, InitOwner, NextOwner, InitHolders, NextHolders, <1>1, PTL DEF Spec

-----------------------------------------------------------------------------
\* Once the sync thread has taken the queue, a function pushed since then, by a call
\* that has returned or waits, has set the flag.
Flagged ==
    sync \notin {"wait", "pop"} /\ syncThreadActions # <<>> /\ client \notin {"syncRun", "queueSync"}
    => earlyRecurseExitRequested

\* Every step keeps Flagged.
LEMMA NextFlagged == Reload /\ Flagged /\ [Next]_vars => Flagged'
<1> SUFFICES ASSUME Reload, Flagged, [Next]_vars PROVE Flagged'
  OBVIOUS
<1> USE DEF Flagged, queue, syncvars
<1>1. CASE Client
  BY Zenon, <1>1 DEF Client, ProcSc, ScHandler, ScChunkEnds, ScWaits, ScProcEoo, ScFails, CallSyncRun,
       QueueSync, Push, RequestEarlyExit, SyncRunReturnsToCaller, GetConfigs, GotConfigs,
       SendFetchNodes, FetchNodesBegins, FetchNodesChunk, FetchNodesChunkEnds
<1>2. CASE SyncLoop
  BY Zenon, <1>2 DEF SyncLoop, ResetEarlyExit, PopAll, RunBegins, RunEnds, RunQueued, ProcessTriggers,
       CheckCurrent, RecursiveSync, LookupRow, Lookup, NextChild, CacheNodes, LookupSyncVec,
       LookupEnds, Reload
<1>3. CASE App
  BY <1>3 DEF App, PathStateLocks, PathStateReads, PathStateEnds
<1>4. CASE UNCHANGED vars
  BY <1>4 DEF vars
<1> QED
  BY <1>1, <1>2, <1>3, <1>4 DEF Next

\* earlyRecurseExitRequested is never lost: a pass that is under way while a function
\* waits for the sync thread will leave at its next child.
THEOREM QueuedFunctionsStopPasses == Spec => []QueuedStopsPass
<1>1. Init => Flagged
  BY DEF Init, Flagged
<1>2. Flagged => QueuedStopsPass
  BY DEF Flagged, QueuedStopsPass, InPass
<1> QED
  BY InitReload, NextReload, NextFlagged, <1>1, <1>2, PTL DEF Spec

-----------------------------------------------------------------------------
\* What the variables hold; while a function is executed it is still in the list.
Values ==
    /\ promise \in BOOLEAN /\ mNodeTreeIsChanging \in BOOLEAN /\ scStarted \in BOOLEAN
    /\ actionpacketsCurrent \in BOOLEAN /\ earlyRecurseExitRequested \in BOOLEAN
    /\ fetch \in {"none", "sent", "loading", "loaded"}
    /\ syncThreadActions \in Seq({"syncRun", "queueSync"})
    /\ actions \in Seq({"syncRun", "queueSync"})
    /\ sync = "function" => actions # <<>>
    /\ app \in {"idle", "locked", "reading"}

\* Which threads have the mutexes; the sync thread has one exactly where its code says so.
Places ==
    /\ nodeTreeMutex \in Threads \cup {Free}
    /\ mSyncVecMutex \in Threads \cup {Free}
    /\ mLocalNodeChangeMutex \in Threads \cup {Free}
    /\ sync \in {"wait", "pop", "run", "function", "lookup", "lookup2", "check", "pass", "row",
                 "child", "cachenodes"}
    /\ sync \in {"lookup", "lookup2"} => nodeTreeMutex = "sync"

\* A function is appended to a queue, and the first one is taken from it.
LEMMA QueueTypes ==
    ASSUME NEW f \in {"syncRun", "queueSync"}, NEW s \in Seq({"syncRun", "queueSync"})
    PROVE  /\ Append(s, f) \in Seq({"syncRun", "queueSync"})
           /\ s # <<>> => Tail(s) \in Seq({"syncRun", "queueSync"})
OBVIOUS

\* Every step keeps Values.
LEMMA NextValues == Reload /\ Values /\ [Next]_vars => Values'
<1> SUFFICES ASSUME Reload, Values, [Next]_vars PROVE Values'
  OBVIOUS
<1> USE DEF Values
<1>1. CASE Client
  <2> USE DEF runvars, queue, syncvars, scvars
  <2>1. CASE ProcSc
    BY Zenon, <2>1, SyncLocksAssumption DEF ProcSc, SyncLocksAssumption
  <2>6. CASE ScHandler
    <3>1. CASE ScChunkEnds \/ ScWaits
      BY ZenonT(60), <3>1 DEF ScChunkEnds, ScWaits
    <3>2. CASE \E current \in BOOLEAN : ScProcEoo(current)
      BY ZenonT(30), <3>2 DEF ScProcEoo
    <3> QED
      BY <2>6, <3>1, <3>2 DEF ScHandler
  <2>2. CASE ScFails \/ SendFetchNodes
    BY Zenon, <2>2 DEF ScFails, SendFetchNodes, ClearStreamingParser
  <2>3. CASE CallSyncRun \/ QueueSync \/ FetchNodesBegins
    BY ZenonT(60), <2>3, QueueTypes DEF CallSyncRun, QueueSync, FetchNodesBegins, Push
  <2>4. CASE RequestEarlyExit \/ SyncRunReturnsToCaller
    BY ZenonT(60), <2>4 DEF RequestEarlyExit, SyncRunReturnsToCaller
  <2>7. CASE GetConfigs \/ GotConfigs
    BY ZenonT(60), <2>7 DEF GetConfigs, GotConfigs
  <2>5. CASE FetchNodesChunk \/ FetchNodesChunkEnds
    BY <2>5 DEF FetchNodesChunk, FetchNodesChunkEnds
  <2> QED
    BY <1>1, <2>1, <2>2, <2>3, <2>4, <2>5, <2>6, <2>7 DEF Client
<1>2. CASE SyncLoop
  <2> USE DEF runvars, queue, scvars
  <2>1. CASE ResetEarlyExit \/ CheckCurrent
    BY ZenonT(60), <2>1 DEF ResetEarlyExit, CheckCurrent
  <2>6. CASE PopAll
    BY <2>6 DEF PopAll
  <2>7. CASE RunBegins
    BY <2>7 DEF RunBegins
  <2>8. CASE LookupEnds
    BY <2>8 DEF LookupEnds, Reload
  <2>2. CASE RunEnds
    BY <2>2, QueueTypes DEF RunEnds
  <2>3. CASE RunQueued
    BY <2>3, QueueTypes DEF RunQueued, Lookup
  <2>4. CASE ProcessTriggers \/ LookupRow
    BY <2>4 DEF ProcessTriggers, LookupRow, Lookup
  <2>5. CASE RecursiveSync \/ NextChild \/ CacheNodes \/ LookupSyncVec
    BY <2>5 DEF RecursiveSync, NextChild, CacheNodes, LookupSyncVec
  <2> QED
    BY <1>2, <2>1, <2>2, <2>3, <2>4, <2>5, <2>6, <2>7, <2>8 DEF SyncLoop
<1>3. CASE App
  BY <1>3 DEF App, PathStateLocks, PathStateReads, PathStateEnds, syncvars, runvars, queue, scvars
<1>4. CASE UNCHANGED vars
  BY <1>4 DEF vars, syncvars, scvars, runvars, queue
<1> QED
  BY <1>1, <1>2, <1>3, <1>4 DEF Next

\* Every step keeps Places: no other thread gives back a mutex of the sync thread.
LEMMA NextPlaces == Reload /\ Owner /\ Places /\ [Next]_vars => Places'
<1> SUFFICES ASSUME Reload, Owner, Places, [Next]_vars PROVE Places'
  OBVIOUS
<1> USE DEF Places, Free, Threads
<1>1. CASE Client
  <2> USE DEF syncvars, mutexes
  <2>1. CASE ProcSc \/ ScHandler
    BY ZenonT(60), <2>1 DEF ProcSc, ScHandler, ScChunkEnds, ScWaits, ScProcEoo, Owner
  <2>2. CASE ScFails \/ SendFetchNodes
    BY <2>2 DEF ScFails, SendFetchNodes, ClearStreamingParser, Owner
  <2>3. CASE CallSyncRun \/ QueueSync \/ FetchNodesBegins
    BY <2>3 DEF CallSyncRun, QueueSync, FetchNodesBegins, Push
  <2>4. CASE RequestEarlyExit \/ SyncRunReturnsToCaller \/ GetConfigs \/ GotConfigs
    BY <2>4 DEF RequestEarlyExit, SyncRunReturnsToCaller, GetConfigs, GotConfigs
  <2>5. CASE FetchNodesChunk \/ FetchNodesChunkEnds
    BY <2>5 DEF FetchNodesChunk, FetchNodesChunkEnds, Owner
  <2> QED
    BY <1>1, <2>1, <2>2, <2>3, <2>4, <2>5 DEF Client
<1>2. CASE SyncLoop
  <2> USE DEF mutexes
  <2>1. CASE ResetEarlyExit \/ PopAll \/ CheckCurrent \/ RunBegins \/ RunEnds
    BY <2>1 DEF ResetEarlyExit, PopAll, CheckCurrent, RunBegins, RunEnds
  <2>2. CASE RunQueued \/ ProcessTriggers \/ LookupRow
    BY <2>2 DEF RunQueued, ProcessTriggers, LookupRow, Lookup
  <2>3. CASE RecursiveSync \/ NextChild \/ CacheNodes
    BY <2>3 DEF RecursiveSync, NextChild, CacheNodes
  <2>4. CASE LookupSyncVec \/ LookupEnds
    BY <2>4 DEF LookupSyncVec, LookupEnds, Reload
  <2> QED
    BY <1>2, <2>1, <2>2, <2>3, <2>4 DEF SyncLoop
<1>3. CASE App
  BY <1>3 DEF App, PathStateLocks, PathStateReads, PathStateEnds, syncvars
<1>4. CASE UNCHANGED vars
  BY <1>4 DEF vars, syncvars, mutexes
<1> QED
  BY <1>1, <1>2, <1>3, <1>4 DEF Next

\* Every variable keeps its type, and the sync thread has a mutex exactly where its
\* code says so.
THEOREM LocksTypes == Spec => []TypeOK
<1>1. Init => Values /\ Places
  <2>1. Init => Values
    <3>1. <<>> \in Seq({"syncRun", "queueSync"})
      OBVIOUS
    <3> QED
      BY Zenon, <3>1 DEF Init, Values
  <2>2. Init => Places
    BY DEF Init, Places, Free
  <2> QED
    BY <2>1, <2>2
<1>2. Reload /\ Holders /\ Values /\ Places => TypeOK
  BY DEF Reload, Holders, Values, Places, TypeOK
<1> QED
  BY InitReload, NextReload, InitOwner, NextOwner, InitHolders, NextHolders, <1>1, <1>2,
     NextValues, NextPlaces, PTL DEF Spec
=============================================================================
