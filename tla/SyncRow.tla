------------------------------- MODULE SyncRow -------------------------------
(***************************************************************************)
(* One row of a two-way sync: the file of one name in one folder, as the    *)
(* disk, the cloud and the LocalNode ("sync node") have it.  The sync       *)
(* thread visits the row in passes (syncItem_checkMoves(), then syncItem()) *)
(* and decides from what the last scan saw; the client thread transfers,    *)
(* puts nodes and moves to the debris; users change both sides meanwhile.   *)
(* The folder is in the own cloud, or in an in-share: then the cloud debris *)
(* is in another account, and a node goes there by a copy and a delete.     *)
(* Moves, folders, exclusions, name clashes on disk, files that differ in   *)
(* mtime or CRC only and backups are left out; so are disk errors when a    *)
(* download is placed, and downloads that end with an error that            *)
(* handleTerminatedDownloads() asserts not to happen.                       *)
(***************************************************************************)
EXTENDS Integers, Sequences, FiniteSets

CONSTANTS
    Fp,         \* fingerprints: what a version of the file holds
    UNDEF,      \* no file, no node, no handle, no transfer
    MaxLocal,   \* changes of the local user
    MaxCloud,   \* changes of other clients
    MaxFails    \* transfers and requests that fail

VARIABLES
    inshare,         \* Sync::inshare: is the sync's cloud root in an in-share;
                     \* UNDEF until it is first asked for, and then for good
    fs,              \* the file on disk, or UNDEF
    fsNode,          \* row.fsNode: the file as last scanned, or UNDEF
    cloud,           \* the nodes of this name in the cloud folder
    versions,        \* older versions of nodes
    kept,            \* fingerprints in the debris folders
    syncNode,        \* the LocalNode, or UNDEF
    transferSP,      \* LocalNode::transferSP, or UNDEF
    removeNodeHere,  \* the move to the cloud debris under way, or UNDEF
    putnodes,        \* putnodes requests that the API has not executed
    step,            \* 1 between the two steps of a pass over the row, else 0
    cloudNodes,      \* the nodes of this name as the pass under way read them
    nextId,          \* next fsid and node handle
    theirs,          \* handles of nodes that other clients put
    used             \* how many changes and failures there have been

vars == <<inshare, fs, fsNode, cloud, versions, kept, syncNode, transferSP, removeNodeHere,
          putnodes, step, cloudNodes, nextId, theirs, used>>

\* The sync's own state.
rowVars == <<inshare, syncNode, transferSP, removeNodeHere, putnodes, step, cloudNodes>>

File == [fp : Fp, fsid : Nat]
CloudNode == [fp : Fp, handle : Nat]
Version == [fp : Fp, handle : Nat, of : Nat]   \* of: the latest version

LocalNode == [fsid : Nat \cup {UNDEF},      \* fsid_lastSynced
              handle : Nat \cup {UNDEF},    \* syncedCloudNodeHandle
              fp : Fp \cup {UNDEF},         \* syncedFingerprint
              deleteCount : 0..1,           \* confirmDeleteCount
              deletedFS : BOOLEAN]

ASSUME FpAssumption == Fp # {}
ASSUME UndefAssumption == UNDEF \notin Nat \cup Fp \cup CloudNode \cup LocalNode

\* SyncUpload_inClient.  state is "waiting" until clientUpload() (wasStarted), then
\* "started", and "completed" (wasFileTransferCompleted) or "terminated"; upsync is
\* "no", then "started" (upsyncStarted), "applied" once the node is in the tree, and
\* "ok" or "failed" with the answer (wasUpsyncCompleted).
Upload == [dir : {"PUT"}, fp : Fp, sourceFsid : Nat,
           state : {"waiting", "started", "completed", "terminated"},
           upsync : {"no", "started", "applied", "ok", "failed"},
           expected : BOOLEAN,              \* addExpectedUpload() was called
           ov : Nat \cup {UNDEF},           \* ovHandleIfShortcut
           result : Nat \cup {UNDEF}]       \* upsyncResultHandle

\* SyncDownload_inClient.
Download == [dir : {"GET"}, fp : Fp, handle : Nat, okToOverwrite : Fp \cup {UNDEF},
             state : {"started", "completed", "EWRITE", "EKEY", "EBLOCKED"}]

\* DeleteToDebrisInProgress: failed, succeeded, or what the client thread is doing
\* about it.
DeleteToDebris ==
    [handle : Nat,
     state : {"queued", "pending", "stranded", "copying", "copied", "uncopied",
              "abandoned", "failed", "succeeded"}]

\* A new sync without the file, or one where all three sides have the same version.
Init ==
    /\ inshare = UNDEF
    /\ \/ fs = UNDEF /\ cloud = {} /\ syncNode = UNDEF
       \/ LET fp == CHOOSE fp \in Fp : TRUE
          IN /\ fs = [fp |-> fp, fsid |-> 1]
             /\ cloud = {[fp |-> fp, handle |-> 2]}
             /\ syncNode = [fsid |-> 1, handle |-> 2, fp |-> fp,
                            deleteCount |-> 0, deletedFS |-> FALSE]
    /\ fsNode = fs
    /\ versions = {} /\ kept = {} /\ theirs = {} /\ nextId = 3
    /\ transferSP = UNDEF /\ removeNodeHere = UNDEF /\ putnodes = <<>>
    /\ step = 0 /\ cloudNodes = {}
    /\ used = [local |-> 0, cloud |-> 0, fails |-> 0]

-----------------------------------------------------------------------------
(* The users and the scan.                                                 *)

Use(what, limit) == used[what] < limit /\ used' = [used EXCEPT ![what] = @ + 1]

\* The local user writes the file, in place or as a new file of that name.
LocalWrite(fp, inPlace) ==
    /\ Use("local", MaxLocal)
    /\ IF fs = UNDEF THEN ~inPlace ELSE fs.fp # fp
    /\ fs' = [fp |-> fp, fsid |-> IF inPlace THEN fs.fsid ELSE nextId]
    /\ nextId' = IF inPlace THEN nextId ELSE nextId + 1
    /\ UNCHANGED <<fsNode, cloud, versions, kept, theirs, rowVars>>

LocalDelete ==
    /\ Use("local", MaxLocal) /\ fs # UNDEF
    /\ fs' = UNDEF
    /\ UNCHANGED <<fsNode, cloud, versions, kept, nextId, theirs, rowVars>>

Known(h) == \E n \in cloud \cup versions : n.handle = h

\* A node with handle h and its older versions.
NodeAndOlder(h) ==
    {n \in cloud : n.handle = h} \cup
    {v \in versions : v.of = h \/ \E w \in versions : w.handle = h /\ v.of = w.of /\ v.handle <= h}

\* The nodes old become older versions of the new node h.
Displaced(old, h) ==
    LET handles == {n.handle : n \in old}
    IN  {[v EXCEPT !.of = IF @ \in handles THEN h ELSE @] : v \in versions}
          \cup {[fp |-> n.fp, handle |-> n.handle, of |-> h] : n \in old}

\* Another client uploads the file, over the node that is there if there is one.
RemotePut(fp) ==
    /\ Use("cloud", MaxCloud)
    /\ \A n \in cloud : n.fp # fp
    /\ \A m, n \in cloud : m = n
    /\ cloud' = {[fp |-> fp, handle |-> nextId]}
    /\ versions' = Displaced(cloud, nextId)
    /\ theirs' = theirs \cup {nextId}
    /\ nextId' = nextId + 1
    /\ UNCHANGED <<fs, fsNode, kept, rowVars>>

\* Another client removes a node with its versions: to a rubbish bin, which this
\* client sees unless the node was in an in-share, or for good.
RemoteDelete(n) ==
    /\ Use("cloud", MaxCloud) /\ n \in cloud
    /\ cloud' = cloud \ {n}
    /\ versions' = versions \ NodeAndOlder(n.handle)
    /\ UNCHANGED <<fs, fsNode, kept, nextId, theirs, rowVars>>

\* A notification came and the folder was scanned.
Scan ==
    /\ step = 0
    /\ fsNode # fs
    /\ fsNode' = fs
    /\ UNCHANGED <<fs, cloud, versions, kept, nextId, theirs, used, rowVars>>

-----------------------------------------------------------------------------
(* The client thread.                                                      *)

IsUpload(x) == x # UNDEF /\ x.dir = "PUT"
IsDownload(x) == x # UNDEF /\ x.dir = "GET"
Upsync(x) == IF IsUpload(x) THEN x.upsync ELSE "no"
Removal == IF removeNodeHere = UNDEF THEN "none" ELSE removeNodeHere.state

unchangedByClient == <<inshare, fs, fsNode, syncNode, step, cloudNodes>>
unchangedByTransfer == <<cloud, versions, kept, removeNodeHere, nextId, theirs>>

\* clientUpload(): the transfer starts, or a node with the same content is cloned.
UploadStarts ==
    /\ IsUpload(transferSP) /\ transferSP.state = "waiting"
    /\ \/ /\ transferSP' = [transferSP EXCEPT !.state = "started"]
          /\ UNCHANGED putnodes
       \/ /\ transferSP' = [transferSP EXCEPT !.state = "completed", !.upsync = "started"]
          /\ putnodes' = Append(putnodes, [fp |-> transferSP.fp, ov |-> transferSP.ov])
    /\ UNCHANGED <<unchangedByClient, unchangedByTransfer, used>>

\* completed() or terminated(): a file that changed or went is not uploaded.
UploadEnds ==
    /\ IsUpload(transferSP) /\ transferSP.state = "started"
    /\ \E end \in {"completed", "terminated"} :
          /\ transferSP' = [transferSP EXCEPT !.state = end]
          /\ IF fs # UNDEF /\ fs.fp = transferSP.fp
             THEN \/ end = "completed" /\ UNCHANGED used
                  \/ end = "terminated" /\ Use("fails", MaxFails)
             ELSE end = "terminated" /\ UNCHANGED used
    /\ UNCHANGED <<unchangedByClient, unchangedByTransfer, putnodes>>

DownloadEnds ==
    /\ IsDownload(transferSP) /\ transferSP.state = "started"
    /\ \E end \in {"completed", "EWRITE", "EKEY", "EBLOCKED"} :
          /\ transferSP' = [transferSP EXCEPT !.state = end]
          /\ IF end = "completed" THEN UNCHANGED used ELSE Use("fails", MaxFails)
    /\ UNCHANGED <<unchangedByClient, unchangedByTransfer, putnodes>>

\* The last request is the one of the row's own upload, if that one waits for its
\* answer; an upload that the row gave up goes on without anybody who waits for it.
OwnsRequest ==
    Len(putnodes) = 1 /\ Upsync(transferSP) = "started"

Outcome(upsync, result) ==
    transferSP' = IF OwnsRequest
                  THEN [transferSP EXCEPT !.upsync = upsync, !.result = result]
                  ELSE transferSP

\* The API executes a putnodes and the action packet brings the node; the node that
\* it displaces becomes a version of it.
PutnodesApplied ==
    /\ putnodes # <<>>
    /\ putnodes' = Tail(putnodes)
    /\ \/ LET old == {n \in cloud : n.handle = Head(putnodes).ov}
          IN  /\ cloud' = (cloud \ old) \cup {[fp |-> Head(putnodes).fp, handle |-> nextId]}
              /\ versions' = Displaced(old, nextId)
              /\ nextId' = nextId + 1
              /\ Outcome("applied", nextId)
              /\ UNCHANGED used
       \/ /\ Use("fails", MaxFails)
          /\ Outcome("failed", UNDEF)
          /\ UNCHANGED <<cloud, versions, nextId>>
    /\ UNCHANGED <<unchangedByClient, removeNodeHere, kept, theirs>>

\* The completion function of sendPutnodesOfUpload().
PutnodesCompletes ==
    /\ Upsync(transferSP) = "applied"
    /\ transferSP' = [transferSP EXCEPT !.upsync = "ok"]
    /\ UNCHANGED <<unchangedByClient, unchangedByTransfer, putnodes, used>>

\* A node that was deleted may still be known: it is in the own rubbish bin.
MayBeKnown(h) == Known(h) \/ ~inshare

RemovalBecomes(state) == removeNodeHere' = [removeNodeHere EXCEPT !.state = state]
RemovalFails(state) == RemovalBecomes(state) /\ Use("fails", MaxFails)

unchangedByRemoval == <<unchangedByClient, transferSP, putnodes, nextId, theirs>>

\* What resolve_fsNodeGone() queued: a node that is not there any more, or became an
\* older version, is left alone, with neither succeeded nor failed set.
QueuedRemoval ==
    /\ Removal = "queued"
    /\ LET h == removeNodeHere.handle
           isVersion == \E v \in versions : v.handle = h
       IN  \/ (isVersion \/ ~Known(h)) /\ RemovalBecomes("abandoned")
           \/ ~isVersion /\ MayBeKnown(h) /\ RemovalBecomes("pending")
    /\ UNCHANGED <<unchangedByRemoval, cloud, versions, kept, used>>

\* execmovetosyncdebris() for the entry of pendingDebris.  Without the debris folder
\* of the day, and if the request to create it fails, the entry waits for the next
\* node that any row removes.  rename() may refuse without calling the completion.
MoveToSyncDebris ==
    /\ Removal = "pending"
    /\ LET h == removeNodeHere.handle
       IN  \/ /\ RemovalFails("stranded")
              /\ UNCHANGED <<cloud, versions, kept>>
           \/ /\ ~Known(h) /\ RemovalBecomes("failed")
              /\ UNCHANGED <<cloud, versions, kept, used>>
           \/ /\ ~inshare /\ RemovalBecomes("succeeded")
              /\ cloud' = cloud \ NodeAndOlder(h)
              /\ versions' = versions \ NodeAndOlder(h)
              /\ kept' = kept \cup {n.fp : n \in NodeAndOlder(h)}
              /\ UNCHANGED used
           \/ /\ ~inshare /\ (RemovalFails("failed") \/ RemovalFails("abandoned"))
              /\ UNCHANGED <<cloud, versions, kept>>
           \/ /\ inshare /\ Known(h)
              /\ \/ RemovalBecomes("copying") /\ UNCHANGED used
                 \/ RemovalFails("failed")
              /\ UNCHANGED <<cloud, versions, kept>>
    /\ UNCHANGED unchangedByRemoval

\* Another row removes a node: pendingDebris is gone through again.
AnotherRowRemoves ==
    /\ Removal = "stranded" /\ RemovalBecomes("pending")
    /\ UNCHANGED <<unchangedByRemoval, cloud, versions, kept, used>>

\* The putnodes of execmovetosyncdebris(): the node of an in-share, and its older
\* versions, are copied to the debris; an error is only logged.
CopyToSyncDebris ==
    /\ Removal = "copying"
    /\ LET h == removeNodeHere.handle
       IN  \/ /\ Known(h) /\ RemovalBecomes("copied")
              /\ kept' = kept \cup {n.fp : n \in NodeAndOlder(h)}
              /\ UNCHANGED used
           \/ /\ Known(h) /\ RemovalFails("uncopied")
              /\ UNCHANGED kept
           \/ /\ ~Known(h) /\ RemovalBecomes("failed")
              /\ UNCHANGED <<kept, used>>
    /\ UNCHANGED <<unchangedByRemoval, cloud, versions>>

\* Its completion: the node is deleted, copied or not, with its older versions.
\* unlink() may refuse without calling the completion.
UnlinkCopied ==
    /\ Removal \in {"copied", "uncopied"}
    /\ LET h == removeNodeHere.handle
       IN  \/ /\ Known(h) /\ RemovalBecomes("succeeded")
              /\ cloud' = cloud \ NodeAndOlder(h)
              /\ versions' = versions \ NodeAndOlder(h)
              /\ UNCHANGED used
           \/ /\ Known(h) /\ (RemovalFails("failed") \/ RemovalFails("abandoned"))
              /\ UNCHANGED <<cloud, versions>>
           \/ /\ ~Known(h) /\ RemovalBecomes("failed")
              /\ UNCHANGED <<cloud, versions, used>>
    /\ UNCHANGED <<unchangedByRemoval, kept>>

-----------------------------------------------------------------------------
(* The pass of the sync thread over the row.                               *)

\* row.cloudNode
cloudNode == IF Cardinality(cloudNodes) = 1 THEN CHOOSE n \in cloudNodes : TRUE ELSE UNDEF

EndOfPass == step' = 0 /\ cloudNodes' = {}

GoesOn == step' = 1 /\ cloudNodes' = cloud

\* What an upload whose putnodes was sent has come to.
processCompletedUploadFromHere ==
    \/ /\ Upsync(transferSP) \in {"started", "applied"}
       /\ GoesOn
       /\ UNCHANGED <<syncNode, transferSP>>
    \/ /\ Upsync(transferSP) = "failed"
       /\ GoesOn
       /\ transferSP' = UNDEF
       /\ UNCHANGED syncNode
    \/ /\ Upsync(transferSP) = "ok"
       /\ EndOfPass
       /\ syncNode' = [syncNode EXCEPT !.fsid = transferSP.sourceFsid, !.fp = transferSP.fp,
                                       !.handle = transferSP.result]
       /\ transferSP' = UNDEF

\* And a move to the cloud debris.
checkForCompletedCloudMovedToDebris ==
    \/ /\ Removal \in {"none", "failed"}
       /\ GoesOn
       /\ removeNodeHere' = UNDEF
       /\ UNCHANGED syncNode
    \/ /\ Removal = "succeeded"
       /\ GoesOn
       /\ removeNodeHere' = UNDEF
       /\ syncNode' = [syncNode EXCEPT !.handle = UNDEF, !.fsid = UNDEF]
    \/ /\ Removal \notin {"none", "failed", "succeeded"}
       /\ EndOfPass
       /\ UNCHANGED <<syncNode, removeNodeHere>>

\* syncItem_checkMoves()
CheckMoves ==
    /\ step = 0
    /\ cloud # {} \/ syncNode # UNDEF \/ fsNode # UNDEF
    /\ \/ processCompletedUploadFromHere /\ UNCHANGED removeNodeHere
       \/ /\ Upsync(transferSP) = "no"
          /\ checkForCompletedCloudMovedToDebris /\ UNCHANGED transferSP
    /\ UNCHANGED <<inshare, fs, fsNode, cloud, versions, kept, putnodes, nextId, theirs, used>>

\* What the functions below read and change.
Row == [fs |-> fs, fsNode |-> fsNode, kept |-> kept, syncNode |-> syncNode,
        transferSP |-> transferSP]

Distributed_Overwrites ==
    LET new == [fp |-> transferSP.fp, fsid |-> nextId]
    IN  [fs |-> new, fsNode |-> new, kept |-> kept,
         syncNode |-> [syncNode EXCEPT !.fsid = nextId, !.fp = transferSP.fp,
                                       !.handle = transferSP.handle],
         transferSP |-> UNDEF]

\* distributeTo() with MoveReplacedFileToSyncDebris, then the row is as downloaded.
Distributed ==
    LET new == [fp |-> transferSP.fp, fsid |-> nextId]
    IN  [fs |-> new, fsNode |-> new,
         kept |-> kept \cup (IF fs = UNDEF THEN {} ELSE {fs.fp}),
         syncNode |-> [syncNode EXCEPT !.fsid = nextId, !.fp = transferSP.fp,
                                       !.handle = transferSP.handle],
         transferSP |-> UNDEF]

MayOverwrite_Always == TRUE

MayOverwrite ==
    fsNode = UNDEF \/ transferSP.okToOverwrite = UNDEF \/ fsNode.fp = transferSP.okToOverwrite

DownloadArrives == IsDownload(transferSP) /\ transferSP.state = "completed" /\ MayOverwrite

\* syncItem_checkDownloadCompletion()
CheckDownloadCompletion ==
    IF DownloadArrives THEN Distributed
    ELSE IF IsDownload(transferSP) /\ transferSP.state = "EWRITE"
    THEN [Row EXCEPT !.transferSP = UNDEF]
    ELSE Row

\* A download whose MAC did not verify stalls as long as the node is there.  One that
\* ended because the file is blocked is told of too, but lets the row go on.
KeepsStalling ==
    /\ IsDownload(transferSP) /\ transferSP.state = "EKEY"
    /\ cloudNode # UNDEF /\ cloudNode.handle = transferSP.handle

\* isNodeAnExpectedUpload(): looked up by folder and name.
IsExpectedUpload(x) == Upsync(x) # "no" /\ x.expected

\* The pass ends with the row r; a download that arrived has taken a new fsid.
Ends(r) ==
    /\ fs' = r.fs /\ fsNode' = r.fsNode /\ kept' = r.kept
    /\ syncNode' = r.syncNode /\ transferSP' = r.transferSP
    /\ nextId' = IF DownloadArrives THEN nextId + 1 ELSE nextId

NoRequests == UNCHANGED <<inshare, removeNodeHere, putnodes>>

UpsyncMustWait_UntilMatched(r) == IsUpload(r.transferSP) /\ r.transferSP.fp # r.fsNode.fp

\* transferResetUnlessMatched(PUT): may resolve_upsync() go on, and with which transfer.
UpsyncMustWait(r) ==
    Upsync(r.transferSP) # "no" /\ r.transferSP.fp # r.fsNode.fp

UploadToKeep(r) ==
    LET x == r.transferSP
    IN  CASE ~IsUpload(x) -> UNDEF
          [] IsUpload(x) /\ x.state = "terminated" -> UNDEF
          [] IsUpload(x) /\ x.state # "terminated" /\ x.fp = r.fsNode.fp -> x
          [] IsUpload(x) /\ x.state = "waiting" /\ x.fp # r.fsNode.fp -> [x EXCEPT !.fp = r.fsNode.fp]
          [] OTHER -> UNDEF

cloudHandle == IF cloudNode = UNDEF THEN UNDEF ELSE cloudNode.handle

resolve_upsync(r) ==
    LET x == UploadToKeep(r)
    IN  \/ /\ UpsyncMustWait(r)
           /\ Ends(r) /\ NoRequests
        \/ /\ ~UpsyncMustWait(r) /\ x = UNDEF
           /\ Ends([r EXCEPT !.transferSP =
                      [dir |-> "PUT", fp |-> r.fsNode.fp, sourceFsid |-> r.fsNode.fsid,
                       state |-> "waiting", upsync |-> "no", expected |-> FALSE,
                       ov |-> cloudHandle, result |-> UNDEF]])
           /\ NoRequests
        \/ /\ ~UpsyncMustWait(r) /\ x # UNDEF /\ x.state = "completed" /\ x.upsync = "no"
           /\ Ends([r EXCEPT !.transferSP = [x EXCEPT !.upsync = "started", !.expected = TRUE]])
           /\ putnodes' = Append(putnodes, [fp |-> x.fp, ov |-> cloudHandle])
           /\ UNCHANGED <<inshare, removeNodeHere>>
        \/ /\ ~UpsyncMustWait(r) /\ x # UNDEF /\ x.upsync \in {"ok", "failed"}
           /\ Ends([r EXCEPT !.transferSP = UNDEF]) /\ NoRequests
        \/ /\ ~UpsyncMustWait(r) /\ x # UNDEF
           /\ x.upsync \in {"started", "applied"} \/ x.state \in {"waiting", "started"}
           /\ Ends([r EXCEPT !.transferSP = x]) /\ NoRequests

\* A transfer of the other direction, or of another version, gives way, an upload
\* whose putnodes is under way included.
resolve_downsync(r) ==
    /\ NoRequests
    /\ IF IsDownload(r.transferSP) /\ r.transferSP.fp = cloudNode.fp
       THEN Ends(r)
       ELSE Ends([r EXCEPT !.transferSP =
                    [dir |-> "GET", fp |-> cloudNode.fp, handle |-> cloudNode.handle,
                     okToOverwrite |-> IF r.fsNode = UNDEF THEN UNDEF ELSE r.fsNode.fp,
                     state |-> "started"]])

resolve_userIntervention_TakesLocal(r) ==
    IF r.syncNode = UNDEF THEN Ends(r) /\ NoRequests ELSE resolve_upsync(r)

resolve_userIntervention(r) ==
    Ends([r EXCEPT !.transferSP = IF r.syncNode = UNDEF THEN r.transferSP ELSE UNDEF]) /\ NoRequests

\* The row is in sync; a transfer is given up only if this is news.
resolve_rowMatched(r) ==
    LET new == r.syncNode.fsid # r.fsNode.fsid \/ r.syncNode.handle # cloudNode.handle
    IN  /\ Ends([r EXCEPT !.syncNode = [@ EXCEPT !.fsid = r.fsNode.fsid, !.fp = r.fsNode.fp,
                                                 !.handle = cloudNode.handle],
                          !.transferSP = IF new THEN UNDEF ELSE @])
        /\ NoRequests

newLocalNode == [fsid |-> UNDEF, handle |-> UNDEF, fp |-> UNDEF,
                 deleteCount |-> 0, deletedFS |-> FALSE]

resolve_makeSyncNode_fromFS(r) == Ends([r EXCEPT !.syncNode = newLocalNode]) /\ NoRequests

resolve_makeSyncNode_fromCloud(r) ==
    Ends([r EXCEPT !.syncNode = [newLocalNode EXCEPT !.fp = cloudNode.fp]]) /\ NoRequests

\* The cloud's node went: the local file goes to the local debris.
resolve_cloudNodeGone(r, movesWereComplete) ==
    /\ NoRequests
    /\ IF movesWereComplete /\ ~r.syncNode.deletedFS /\ r.fs # UNDEF
       THEN Ends([r EXCEPT !.fs = UNDEF, !.kept = @ \cup {r.fs.fp}, !.syncNode.deletedFS = TRUE])
       ELSE Ends(r)

\* The local file went: the node goes to the cloud debris.
resolve_fsNodeGone(r, movesWereComplete) ==
    /\ Ends(r)
    /\ IF movesWereComplete /\ removeNodeHere = UNDEF
       THEN /\ removeNodeHere' = [handle |-> cloudNode.handle, state |-> "queued"]
            /\ inshare' \in (IF inshare = UNDEF THEN BOOLEAN ELSE {inshare})
       ELSE UNCHANGED <<inshare, removeNodeHere>>
    /\ UNCHANGED putnodes

resolve_delSyncNode_KeepsTransfer(r, deleteCount) ==
    /\ NoRequests
    /\ IF deleteCount = 0 THEN Ends([r EXCEPT !.syncNode.deleteCount = 1])
                         ELSE Ends([r EXCEPT !.syncNode = UNDEF])

\* Both sides went: the LocalNode goes at the second pass that finds it so.
resolve_delSyncNode(r, deleteCount) ==
    LET upsyncing == Upsync(r.transferSP) \in {"started", "applied"}
    IN  /\ UNCHANGED <<inshare, putnodes>>
        /\ \/ upsyncing /\ Ends(r) /\ UNCHANGED removeNodeHere
           \/ /\ ~upsyncing /\ deleteCount = 0
              /\ Ends([r EXCEPT !.syncNode.deleteCount = 1]) /\ UNCHANGED removeNodeHere
           \/ /\ ~upsyncing /\ deleteCount = 1
              /\ Ends([r EXCEPT !.syncNode = UNDEF, !.transferSP = UNDEF])
              /\ removeNodeHere' = UNDEF

\* SRT_CSF
AllThree(r) ==
    LET c == cloudNode  f == r.fsNode  s == r.syncNode
        recentUpload == IsExpectedUpload(r.transferSP) /\ c.fp = r.transferSP.fp
    IN  \/ c.fp = f.fp /\ resolve_rowMatched(r)
        \/ c.fp # f.fp /\ c.fp = s.fp /\ resolve_upsync(r)
        \/ c.fp # f.fp /\ c.fp # s.fp /\ f.fp = s.fp /\ resolve_downsync(r)
        \/ /\ c.fp # f.fp /\ c.fp # s.fp /\ f.fp # s.fp /\ recentUpload
           /\ Ends([r EXCEPT !.syncNode = [@ EXCEPT !.handle = c.handle, !.fp = c.fp],
                             !.transferSP = UNDEF])
           /\ NoRequests
        \/ c.fp # f.fp /\ c.fp # s.fp /\ f.fp # s.fp /\ ~recentUpload /\ resolve_userIntervention(r)

\* SRT_XSF
NoCloudNode(r, movesWereComplete) ==
    LET wasSynced == /\ r.syncNode.handle # UNDEF
                     /\ r.syncNode.fsid = r.fsNode.fsid
                     /\ r.syncNode.fp = r.fsNode.fp
    IN  \/ wasSynced /\ resolve_cloudNodeGone(r, movesWereComplete)
        \/ ~wasSynced /\ resolve_upsync(r)

\* SRT_CSX
NoFsNode(r, movesWereComplete) ==
    LET c == cloudNode  s == r.syncNode
        uploaded == s.fsid # UNDEF /\ s.handle = UNDEF /\ c.fp = s.fp
    IN  \/ /\ uploaded
           /\ Ends([r EXCEPT !.syncNode.handle = c.handle]) /\ NoRequests
        \/ /\ ~uploaded /\ IsExpectedUpload(r.transferSP)
           /\ Ends([r EXCEPT !.syncNode = [@ EXCEPT !.handle = c.handle, !.fp = c.fp,
                                                    !.fsid = r.transferSP.sourceFsid],
                             !.transferSP = UNDEF])
           /\ NoRequests
        \/ /\ ~uploaded /\ ~IsExpectedUpload(r.transferSP)
           /\ s.fsid = UNDEF \/ s.handle # c.handle
           /\ resolve_downsync(r)
        \/ /\ ~uploaded /\ ~IsExpectedUpload(r.transferSP)
           /\ s.fsid # UNDEF /\ s.handle = c.handle
           /\ resolve_fsNodeGone(r, movesWereComplete)

\* syncItem().  movesWereComplete: scanning and moves are over, and no notification
\* has come for two seconds.
SyncItem(movesWereComplete) ==
    /\ step = 1
    /\ EndOfPass
    /\ LET d == CheckDownloadCompletion
           r == IF syncNode = UNDEF THEN d ELSE [d EXCEPT !.syncNode.deleteCount = 0]
           has(c, s, f) == (cloudNode # UNDEF) = c /\ (r.syncNode # UNDEF) = s /\ (r.fsNode # UNDEF) = f
       IN  IF Cardinality(cloudNodes) > 1 \/ KeepsStalling
           THEN UNCHANGED <<fs, fsNode, kept, syncNode, transferSP, nextId>> /\ NoRequests
           ELSE \/ has(TRUE, TRUE, TRUE) /\ AllThree(r)
                \/ has(FALSE, TRUE, TRUE) /\ NoCloudNode(r, movesWereComplete)
                \/ has(TRUE, TRUE, FALSE) /\ NoFsNode(r, movesWereComplete)
                \/ has(FALSE, TRUE, FALSE) /\ resolve_delSyncNode(r, syncNode.deleteCount)
                \/ /\ has(TRUE, FALSE, TRUE)
                   /\ \/ cloudNode.fp = r.fsNode.fp /\ resolve_makeSyncNode_fromFS(r)
                      \/ cloudNode.fp # r.fsNode.fp /\ resolve_userIntervention(r)
                \/ has(FALSE, FALSE, TRUE) /\ resolve_makeSyncNode_fromFS(r)
                \/ has(TRUE, FALSE, FALSE) /\ resolve_makeSyncNode_fromCloud(r)
                \/ has(FALSE, FALSE, FALSE) /\ Ends(r) /\ NoRequests
    /\ UNCHANGED <<cloud, versions, theirs, used>>

-----------------------------------------------------------------------------

Next ==
    \/ \E fp \in Fp, inPlace \in BOOLEAN : LocalWrite(fp, inPlace)
    \/ LocalDelete
    \/ \E fp \in Fp : RemotePut(fp)
    \/ \E n \in cloud : RemoteDelete(n)
    \/ Scan
    \/ UploadStarts \/ UploadEnds \/ DownloadEnds
    \/ PutnodesApplied \/ PutnodesCompletes
    \/ QueuedRemoval \/ MoveToSyncDebris \/ AnotherRowRemoves \/ CopyToSyncDebris \/ UnlinkCopied
    \/ CheckMoves
    \/ \E sure \in BOOLEAN : SyncItem(sure)

Spec == Init /\ [][Next]_vars

\* Both threads keep running, the API answers, notifications come, and once the
\* user pauses the sync thread finds moves complete.
Fairness ==
    /\ SF_vars(Scan) /\ WF_vars(CheckMoves)
    /\ SF_vars(SyncItem(TRUE))
    /\ WF_vars(UploadStarts) /\ WF_vars(UploadEnds) /\ WF_vars(DownloadEnds)
    /\ WF_vars(PutnodesApplied) /\ WF_vars(PutnodesCompletes)
    /\ WF_vars(QueuedRemoval) /\ WF_vars(MoveToSyncDebris)
    /\ WF_vars(CopyToSyncDebris) /\ WF_vars(UnlinkCopied)

FairSpec == Spec /\ Fairness

-----------------------------------------------------------------------------
(* Properties.                                                             *)

TypeOK ==
    /\ fs \in File \cup {UNDEF} /\ fsNode \in File \cup {UNDEF}
    /\ cloud \subseteq CloudNode /\ cloudNodes \subseteq CloudNode
    /\ versions \subseteq Version /\ theirs \subseteq 1..(nextId - 1) /\ kept \subseteq Fp
    /\ syncNode \in LocalNode \cup {UNDEF}
    /\ transferSP \in Upload \cup Download \cup {UNDEF}
    /\ removeNodeHere \in DeleteToDebris \cup {UNDEF}
    /\ putnodes \in Seq([fp : Fp, ov : Nat \cup {UNDEF}])
    /\ step \in 0..1 /\ nextId \in Nat
    /\ used \in [{"local", "cloud", "fails"} -> Nat]
    /\ syncNode = UNDEF => transferSP = UNDEF /\ removeNodeHere = UNDEF
    /\ inshare \in BOOLEAN \cup {UNDEF} /\ (removeNodeHere # UNDEF => inshare # UNDEF)

\* The versions that can still be had.
Present == (IF fs = UNDEF THEN {} ELSE {fs.fp}) \cup {n.fp : n \in cloud \cup versions} \cup kept

\* What UnlinkCopied may delete although it is not in the debris.
Uncopied ==
    IF Removal = "uncopied" THEN {n.fp : n \in NodeAndOlder(removeNodeHere.handle)} ELSE {}

\* distributeTo(), movetolocaldebris(), movetosyncdebris() and putnodes over a node:
\* whatever the sync does, and whatever happens meanwhile, no version vanishes.  The
\* exception is an in-share: when the copy of its node to the debris failed,
\* execmovetosyncdebris() deletes the node nevertheless, and what went is then that
\* node and its older versions, nothing else.
NothingLost ==
    [][used'.local = used.local /\ used'.cloud = used.cloud =>
         Present \subseteq Present' \cup Uncopied]_vars

\* syncItem(): a file with changes that the scan saw and no upload took leaves its
\* place only if it held what was last synced; changes on both sides stall instead.
\* The exception is a file that came after a download began where none was:
\* checkDownloadCompletion() has no okToOverwriteFF to compare it with.
LocalChangesStay ==
    [][step = 1 /\ step' = 0 /\ fs # UNDEF /\ fs' # fs /\ fs = fsNode =>
         \/ fs.fp = syncNode.fp
         \/ IsDownload(transferSP) /\ transferSP.okToOverwrite = UNDEF]_vars

\* resolve_upsync() and resolve_fsNodeGone(): a version that another client put is
\* displaced, or moved to the debris, only if the LocalNode has it for the version
\* last seen, although the cloud may change between the decision and the request.
UnseenVersionsStay ==
    [][used' = used =>
         \A n \in cloud \ cloud' :
            n.handle \in theirs => syncNode # UNDEF /\ syncNode.fp = n.fp]_vars

Settled ==
    \/ fs = UNDEF /\ cloud = {} /\ syncNode = UNDEF
    \/ fs # UNDEF /\ \E n \in cloud : cloud = {n} /\ n.fp = fs.fp

\* The user is told: a name clash, a file that changed on both sides, a bad MAC,
\* a file that is blocked.
Stalled ==
    \/ Cardinality(cloud) > 1
    \/ /\ fs # UNDEF /\ cloud # {}
       /\ \A n \in cloud : n.fp # fs.fp /\ (syncNode # UNDEF => syncNode.fp \notin {n.fp, fs.fp})
    \/ IsDownload(transferSP) /\ transferSP.state \in {"EKEY", "EBLOCKED"}

\* deletedFS outlived the deletion that set it.
StuckDeleted == syncNode # UNDEF /\ syncNode.deletedFS /\ fs # UNDEF /\ cloud = {}

\* syncItem(), pass after pass: once the users leave the file alone, both sides come
\* to hold the same version, or none, or the row stalls; uploads, downloads and
\* deletes do not chase each other for ever.  The exceptions are rows that wait for
\* a delete that was already made, or for a move to the debris whose completion is
\* never called: resolve_fsNodeGone()'s queued function abandoned it to "let the sync
\* recalculate", rename() or unlink() refused, or there is no debris folder.
RowSettles ==
    <>[](Settled \/ Stalled \/ Removal \in {"abandoned", "stranded"} \/ StuckDeleted)
=============================================================================
