-------------------------- MODULE SyncRow_proofs --------------------------
(***************************************************************************)
(* No step of the sync replaces or removes a file that the user changed     *)
(* since the sync last saw it, for any fingerprints, bounds and             *)
(* interleaving.  What a download may overwrite, and which file a node      *)
(* that went stands for, is known to the sync through node handles.  The    *)
(* invariant says that this knowledge is right: a handle is given once, so  *)
(* it means one version, and a transfer belongs to the LocalNode it was     *)
(* started for.                                                             *)
(***************************************************************************)
EXTENDS SyncRow, TLAPS, FiniteSetTheorems, SequenceTheorems

-----------------------------------------------------------------------------
(* The invariant.                                                          *)

Nodes == cloud \cup cloudNodes

Transfers == Upload \cup Download \cup {UNDEF}
LocalNodes == LocalNode \cup {UNDEF}
Request == [fp : Fp, ov : Nat \cup {UNDEF}]

Types ==
    /\ fs \in File \cup {UNDEF} /\ fsNode \in File \cup {UNDEF}
    /\ cloud \subseteq CloudNode /\ cloudNodes \subseteq CloudNode
    /\ syncNode \in LocalNodes /\ transferSP \in Transfers
    /\ putnodes \in Seq(Request) /\ nextId \in Nat /\ step \in 0..1

\* Handles are given once, and one is one version.
HandlesOK(N, id) ==
    /\ \A n \in N : n.handle < id
    /\ \A m, n \in N : m.handle = n.handle => m = n

\* h, if it is the handle of a node, is the one of a node with fp.
Means(N, id, h, fp) ==
    /\ h # UNDEF => h < id
    /\ \A n \in N : n.handle = h => n.fp = fp

\* What the LocalNode and the transfer know of handles is right.
NodeOK(N, id, s) == s # UNDEF => Means(N, id, s.handle, s.fp)

TransferOK(N, id, x) ==
    /\ IsDownload(x) => Means(N, id, x.handle, x.fp)
    /\ Upsync(x) \in {"applied", "ok"} => Means(N, id, x.result, x.fp)

\* A transfer belongs to a LocalNode, and a download overwrites what that has for synced.
Fits(s, x) ==
    /\ x # UNDEF => s # UNDEF
    /\ IsDownload(x) => x.okToOverwrite \in {UNDEF, s.fp}

\* The request that an upload waits for is the last one.
OwnLast(x, q) == Upsync(x) = "started" => q # <<>> /\ q[Len(q)].fp = x.fp

Inv ==
    /\ Types
    /\ HandlesOK(Nodes, nextId)
    /\ NodeOK(Nodes, nextId, syncNode)
    /\ TransferOK(Nodes, nextId, transferSP)
    /\ Fits(syncNode, transferSP)
    /\ OwnLast(transferSP, putnodes)
    /\ removeNodeHere # UNDEF => syncNode # UNDEF

-----------------------------------------------------------------------------

\* Nodes that go, and nodes with new handles, leave what is known right.
Later(N, id, N2, id2) ==
    /\ N \subseteq CloudNode /\ N2 \subseteq CloudNode
    /\ id \in Nat /\ id2 \in Nat /\ id <= id2
    /\ \A n \in N2 : n \in N \/ n.handle >= id

\* A handle goes on meaning its version, as handles are given once.
LEMMA MeansLater ==
    ASSUME NEW N, NEW id, NEW N2, NEW id2, Later(N, id, N2, id2),
           NEW h \in Nat \cup {UNDEF}, NEW fp, Means(N, id, h, fp)
    PROVE  Means(N2, id2, h, fp)
BY UndefAssumption DEF Means, Later, CloudNode

\* So does what the LocalNode and the transfer know.
LEMMA KnownLater ==
    ASSUME NEW N, NEW id, NEW N2, NEW id2, Later(N, id, N2, id2)
    PROVE  /\ \A s \in LocalNodes : NodeOK(N, id, s) => NodeOK(N2, id2, s)
           /\ \A x \in Transfers : TransferOK(N, id, x) => TransferOK(N2, id2, x)
<1>1. ASSUME NEW s \in LocalNodes, NodeOK(N, id, s) PROVE NodeOK(N2, id2, s)
  BY Zenon, <1>1, MeansLater DEF NodeOK, LocalNodes, LocalNode
<1>2. ASSUME NEW x \in Transfers, TransferOK(N, id, x) PROVE TransferOK(N2, id2, x)
  <2>1. IsDownload(x) => x.handle \in Nat \cup {UNDEF}
    BY <1>2 DEF IsDownload, Transfers, Upload, Download
  <2>2. Upsync(x) \in {"applied", "ok"} => x.result \in Nat \cup {UNDEF}
    BY <1>2 DEF Upsync, IsUpload, Transfers, Upload, Download
  <2> QED
    BY Zenon, <1>2, <2>1, <2>2, MeansLater DEF TransferOK
<1> QED
  BY <1>1, <1>2

\* Nodes that go leave the handles right.
LEMMA NodesGo ==
    ASSUME NEW N, NEW N2, NEW id, NEW id2, N \subseteq CloudNode, id \in Nat, id2 \in {id, id + 1},
           HandlesOK(N, id), N2 \subseteq N
    PROVE  HandlesOK(N2, id2) /\ Later(N, id, N2, id2)
BY DEF HandlesOK, Later, CloudNode

\* A node that comes has a handle of its own.
LEMMA NodeComes ==
    ASSUME NEW N, NEW N2, NEW id, NEW fp \in Fp, N \subseteq CloudNode, id \in Nat,
           HandlesOK(N, id), N2 \subseteq N \cup {[fp |-> fp, handle |-> id]}
    PROVE  HandlesOK(N2, id + 1) /\ Later(N, id, N2, id + 1) /\ Means(N2, id + 1, id, fp)
<1> DEFINE new == [fp |-> fp, handle |-> id]
<1>1. new \in CloudNode /\ new.handle = id /\ new.fp = fp
  BY DEF CloudNode
<1>2. \A n \in N2 : n \in N \/ n = new
  OBVIOUS
<1> HIDE DEF new
<1>3. \A n \in N : n.handle \in Nat /\ n.handle < id
  BY DEF HandlesOK, CloudNode
<1>4. N2 \subseteq CloudNode
  BY <1>1, <1>2
<1> QED
  BY <1>1, <1>2, <1>3, <1>4 DEF HandlesOK, Later, Means

\* Steps that leave the LocalNode, the transfer and the requests alone.
LEMMA OthersStep ==
    ASSUME Inv, Types', UNCHANGED <<syncNode, transferSP, putnodes>>,
           removeNodeHere' # UNDEF => removeNodeHere # UNDEF,
           HandlesOK(Nodes, nextId)', Later(Nodes, nextId, Nodes', nextId')
    PROVE  Inv'
BY KnownLater DEF Inv, Types

\* The nodes of the cloud and of the pass are nodes.
LEMMA NodesTyped == Types => Nodes \subseteq CloudNode /\ nextId \in Nat
BY DEF Types, Nodes

\* The user, other clients and the scan.
LEMMA UsersStep ==
    ASSUME Inv, \/ \E fp \in Fp, inPlace \in BOOLEAN : LocalWrite(fp, inPlace)
                \/ LocalDelete \/ Scan
                \/ \E fp \in Fp : RemotePut(fp)
                \/ \E n \in cloud : RemoteDelete(n)
    PROVE  Inv'
<1> USE DEF rowVars
<1>1. Types /\ HandlesOK(Nodes, nextId) /\ Nodes \subseteq CloudNode /\ nextId \in Nat
  BY NodesTyped DEF Inv
<1>2. ASSUME NEW fp \in Fp, NEW inPlace \in BOOLEAN, LocalWrite(fp, inPlace)
      PROVE  Inv'
  <2>1. fs' \in File /\ nextId' \in {nextId, nextId + 1}
    BY <1>1, <1>2 DEF LocalWrite, Types, File
  <2>2. Types' /\ Nodes' \subseteq Nodes /\ UNCHANGED <<syncNode, transferSP, putnodes, removeNodeHere>>
    BY <1>1, <1>2, <2>1 DEF LocalWrite, Types, Nodes
  <2> QED
    BY Zenon, <1>1, <2>1, <2>2, NodesGo, OthersStep
<1>3. ASSUME LocalDelete \/ Scan \/ \E n \in cloud : RemoteDelete(n)
      PROVE  Inv'
  <2>1. /\ Types' /\ Nodes' \subseteq Nodes /\ UNCHANGED <<syncNode, transferSP, putnodes, removeNodeHere>>
        /\ nextId' = nextId
    BY <1>1, <1>3 DEF LocalDelete, Scan, RemoteDelete, Types, Nodes
  <2> QED
    BY <1>1, <2>1, NodesGo, OthersStep
<1>4. ASSUME NEW fp \in Fp, RemotePut(fp) PROVE Inv'
  <2>1. [fp |-> fp, handle |-> nextId] \in CloudNode
    BY <1>1 DEF CloudNode
  <2>2. /\ Types' /\ Nodes' \subseteq Nodes \cup {[fp |-> fp, handle |-> nextId]}
        /\ UNCHANGED <<syncNode, transferSP, putnodes, removeNodeHere>> /\ nextId' = nextId + 1
    BY <1>1, <1>4, <2>1 DEF RemotePut, Types, Nodes
  <2> QED
    BY Zenon, <1>1, <2>2, NodeComes, OthersStep
<1> QED
  BY <1>2, <1>3, <1>4

\* The steps of a removal, from the queued function to the debris: they go on with
\* one removal, and nodes only go.
RemovalStep ==
    QueuedRemoval \/ MoveToSyncDebris \/ AnotherRowRemoves \/ CopyToSyncDebris \/ UnlinkCopied

RemovalGoesOn ==
    /\ removeNodeHere # UNDEF /\ cloud' \subseteq cloud /\ versions' \subseteq versions
    /\ kept \subseteq kept' /\ (UNCHANGED used \/ Use("fails", MaxFails))
    /\ UNCHANGED <<fs, fsNode, syncNode, step, cloudNodes, transferSP, putnodes, nextId>>

LEMMA RemovalSteps ==
    ASSUME RemovalStep
    PROVE  RemovalGoesOn
<1> USE DEF Removal, RemovalBecomes, RemovalFails, unchangedByRemoval, unchangedByClient,
            RemovalGoesOn
<1>1. ASSUME QueuedRemoval PROVE RemovalGoesOn
  BY <1>1 DEF QueuedRemoval
<1>2. ASSUME MoveToSyncDebris PROVE RemovalGoesOn
  BY <1>2 DEF MoveToSyncDebris
<1>3. ASSUME AnotherRowRemoves PROVE RemovalGoesOn
  BY <1>3 DEF AnotherRowRemoves
<1>4. ASSUME CopyToSyncDebris PROVE RemovalGoesOn
  BY <1>4 DEF CopyToSyncDebris
<1>5. ASSUME UnlinkCopied PROVE RemovalGoesOn
  BY <1>5 DEF UnlinkCopied
<1> QED
  BY Zenon, <1>1, <1>2, <1>3, <1>4, <1>5 DEF RemovalStep

\* So they keep the invariant.
LEMMA DebrisStep ==
    ASSUME Inv, RemovalStep
    PROVE  Inv'
<1>1. Types /\ HandlesOK(Nodes, nextId) /\ Nodes \subseteq CloudNode /\ nextId \in Nat
  BY NodesTyped DEF Inv
<1>2. /\ Types' /\ Nodes' \subseteq Nodes /\ UNCHANGED <<syncNode, transferSP, putnodes>>
      /\ nextId' = nextId /\ removeNodeHere # UNDEF
  BY <1>1, RemovalSteps DEF RemovalGoesOn, Types, Nodes
<1> QED
  BY <1>1, <1>2, NodesGo, OthersStep

\* Steps of the client thread that change the transfer.
LEMMA TransferStep ==
    ASSUME Inv, UNCHANGED <<fs, fsNode, cloud, cloudNodes, syncNode, nextId, step, removeNodeHere>>,
           transferSP' \in Transfers, putnodes' \in Seq(Request),
           TransferOK(Nodes, nextId, transferSP'), Fits(syncNode, transferSP'),
           OwnLast(transferSP', putnodes')
    PROVE  Inv'
BY DEF Inv, Types, Nodes

\* The upload starts, or a node is cloned for it.
LEMMA UploadStartsStep ==
    ASSUME Inv, UploadStarts
    PROVE  Inv'
<1> USE DEF unchangedByClient, unchangedByTransfer
<1> DEFINE x == transferSP
           y == transferSP'
           q == [fp |-> x.fp, ov |-> x.ov]
<1>1. x \in Upload /\ x.state = "waiting" /\ syncNode # UNDEF /\ TransferOK(Nodes, nextId, x)
      /\ IsUpload(x) /\ OwnLast(x, putnodes) /\ putnodes \in Seq(Request)
  BY DEF UploadStarts, Inv, Types, Fits, IsUpload, Transfers, Upload, Download
<1>2. q \in Request
  BY <1>1 DEF Request, Upload
<1>3. UNCHANGED <<fs, fsNode, cloud, cloudNodes, syncNode, nextId, step, removeNodeHere>>
  BY DEF UploadStarts
<1>4. CASE y = [x EXCEPT !.state = "started"] /\ UNCHANGED putnodes
  <2>1. y \in Upload /\ y.upsync = x.upsync /\ y.fp = x.fp /\ y.result = x.result /\ y.dir = "PUT"
    BY <1>1, <1>4 DEF Upload
  <2> QED
    BY <1>1, <1>3, <1>4, <2>1, TransferStep
       DEF TransferOK, Fits, OwnLast, Upsync, IsUpload, IsDownload, Transfers
<1>5. CASE /\ y = [x EXCEPT !.state = "completed", !.upsync = "started"]
           /\ putnodes' = Append(putnodes, q)
  <2>1. y \in Upload /\ y.upsync = "started" /\ y.fp = x.fp /\ y.dir = "PUT"
    BY Zenon, <1>1, <1>5 DEF Upload
  <2>2. putnodes' \in Seq(Request) /\ putnodes' # <<>> /\ putnodes'[Len(putnodes')] = q
    BY <1>1, <1>2, <1>5
  <2> QED
    BY <1>1, <1>3, <2>1, <2>2, TransferStep
       DEF TransferOK, Fits, OwnLast, Upsync, IsUpload, IsDownload, Transfers
<1> QED
  BY <1>4, <1>5 DEF UploadStarts

\* A transfer that goes on, with its answer or its end.
LEMMA TransferEndsStep ==
    ASSUME Inv, UploadEnds \/ DownloadEnds \/ PutnodesCompletes
    PROVE  Inv'
<1> USE DEF unchangedByClient, unchangedByTransfer
<1> DEFINE x == transferSP
           y == transferSP'
<1>1. /\ syncNode # UNDEF /\ TransferOK(Nodes, nextId, x) /\ x \in Upload \cup Download
      /\ OwnLast(x, putnodes) /\ putnodes \in Seq(Request) /\ Fits(syncNode, x)
  BY DEF UploadEnds, DownloadEnds, PutnodesCompletes, Inv, Types, Fits, Upsync, IsUpload,
         IsDownload, Transfers
<1>2. UNCHANGED <<fs, fsNode, cloud, cloudNodes, syncNode, nextId, step, putnodes, removeNodeHere>>
  BY DEF UploadEnds, DownloadEnds, PutnodesCompletes
<1>3. ASSUME UploadEnds PROVE Inv'
  <2>1. x \in Upload
    BY <1>1, <1>3 DEF UploadEnds, IsUpload, Upload, Download
  <2>2. y \in Upload /\ y.upsync = x.upsync /\ y.fp = x.fp /\ y.result = x.result
        /\ y.dir = "PUT" /\ x.dir = "PUT" /\ IsUpload(x)
    BY <1>3, <2>1 DEF UploadEnds, Upload
  <2>3. TransferOK(Nodes, nextId, y) /\ Fits(syncNode, y) /\ OwnLast(y, putnodes)
    BY <1>1, <2>2 DEF TransferOK, Fits, OwnLast, Upsync, IsUpload, IsDownload
  <2> QED
    BY <1>1, <1>2, <2>2, <2>3, TransferStep DEF Transfers
<1>4. ASSUME DownloadEnds PROVE Inv'
  <2>1. x \in Download
    BY <1>1, <1>4 DEF DownloadEnds, IsDownload, Upload, Download
  <2>2. y \in Download /\ y.handle = x.handle /\ y.fp = x.fp /\ y.okToOverwrite = x.okToOverwrite
    BY <1>4, <2>1 DEF DownloadEnds, Download
  <2>3. y # UNDEF => IsDownload(x)
    BY <1>4 DEF DownloadEnds
  <2> QED
    BY Zenon, <1>1, <1>2, <2>1, <2>2, <2>3, TransferStep
       DEF TransferOK, Fits, OwnLast, Upsync, IsUpload, IsDownload, Transfers, Download
<1>5. ASSUME PutnodesCompletes PROVE Inv'
  <2>1. x \in Upload /\ x.upsync = "applied" /\ IsUpload(x)
    BY <1>1, <1>5 DEF PutnodesCompletes, Upsync, IsUpload, Upload, Download
  <2>2. y \in Upload /\ y.upsync = "ok" /\ y.fp = x.fp /\ y.result = x.result
    BY <1>5, <2>1 DEF PutnodesCompletes, Upload
  <2> QED
    BY Zenon, <1>1, <1>2, <2>1, <2>2, TransferStep
       DEF TransferOK, Fits, OwnLast, Upsync, IsUpload, IsDownload, Transfers, Upload
<1> QED
  BY <1>3, <1>4, <1>5

\* The first request goes: if another is the last one, that one stays.
LEMMA RequestGoes ==
    ASSUME NEW x, NEW q \in Seq(Request), q # <<>>, OwnLast(x, q)
    PROVE  /\ Tail(q) \in Seq(Request) /\ Head(q) \in Request
           /\ Len(q) # 1 => OwnLast(x, Tail(q))
           /\ Len(q) = 1 /\ Upsync(x) = "started" => Head(q).fp = x.fp
<1>1. Tail(q) \in Seq(Request) /\ Head(q) \in Request /\ Len(q) \in Nat \ {0}
  OBVIOUS
<1>2. ASSUME Len(q) # 1, Upsync(x) = "started"
      PROVE  Tail(q) # <<>> /\ Tail(q)[Len(Tail(q))].fp = x.fp
  <2>1. Len(Tail(q)) = Len(q) - 1 /\ \A i \in 1..Len(Tail(q)) : Tail(q)[i] = q[i + 1]
    BY HeadTailProperties
  <2>2. Len(Tail(q)) \in 1..Len(Tail(q)) /\ Len(Tail(q)) + 1 = Len(q)
    BY <1>1, <1>2, <2>1
  <2>3. Tail(q)[Len(Tail(q))] = q[Len(q)]
    BY <2>1, <2>2
  <2> QED
    <3>1. q[Len(q)].fp = x.fp
      BY <1>2 DEF OwnLast
    <3>2. Tail(q) # <<>>
      <4>1. Len(<<>>) = 0
        OBVIOUS
      <4>2. Len(Tail(q)) # 0
        BY <2>2
      <4> QED
        BY Zenon, <4>1, <4>2
    <3> QED
      BY <2>3, <3>1, <3>2
<1>3. Len(q) = 1 /\ Upsync(x) = "started" => Head(q).fp = x.fp
  <2>1. Len(q) = 1 => Head(q) = q[Len(q)]
    BY <1>1
  <2> QED
    BY <2>1 DEF OwnLast
<1>4. ASSUME Len(q) # 1 PROVE OwnLast(x, Tail(q))
  BY Zenon, <1>2, <1>4 DEF OwnLast
<1> QED
  BY <1>1, <1>3, <1>4

\* The API answers the first putnodes.
LEMMA PutnodesAppliedStep ==
    ASSUME Inv, PutnodesApplied
    PROVE  Inv'
<1> USE DEF unchangedByClient
<1> DEFINE x == transferSP
           y == transferSP'
           q == putnodes
           fp == Head(putnodes).fp
<1>1. Types /\ HandlesOK(Nodes, nextId) /\ Nodes \subseteq CloudNode /\ nextId \in Nat
      /\ q \in Seq(Request) /\ q # <<>> /\ OwnLast(x, q) /\ Fits(syncNode, x)
      /\ NodeOK(Nodes, nextId, syncNode) /\ TransferOK(Nodes, nextId, x)
  BY Zenon, NodesTyped DEF Inv, Types, PutnodesApplied
<1>2. /\ Tail(q) \in Seq(Request) /\ fp \in Fp
      /\ Len(q) # 1 => OwnLast(x, Tail(q))
      /\ Len(q) = 1 /\ Upsync(x) = "started" => fp = x.fp
  BY Zenon, <1>1, RequestGoes DEF Request
<1>3. putnodes' = Tail(q) /\ UNCHANGED <<fs, fsNode, syncNode, step, cloudNodes, removeNodeHere>>
  BY DEF PutnodesApplied
<1>4. OwnsRequest => IsUpload(x) /\ x \in Upload /\ x # UNDEF /\ syncNode # UNDEF
  BY <1>1 DEF OwnsRequest, Upsync, IsUpload, Types, Transfers, Download, Fits
<1>5. ~OwnsRequest => OwnLast(x, Tail(q))
  BY <1>1, <1>2 DEF OwnsRequest, OwnLast
<1> HIDE DEF x, q, fp
<1>6. CASE nextId' = nextId /\ cloud' = cloud /\ Outcome("failed", UNDEF)
  <2>1. CASE OwnsRequest
    <3>1. y = [x EXCEPT !.upsync = "failed", !.result = UNDEF]
      BY <1>6, <2>1 DEF Outcome, x
    <3>2. y \in Upload /\ y.dir = "PUT" /\ y.upsync = "failed"
      BY Zenon, <1>4, <2>1, <3>1 DEF Upload
    <3> HIDE DEF y
    <3>3. TransferOK(Nodes, nextId, y) /\ Fits(syncNode, y) /\ OwnLast(y, Tail(q))
      BY <1>4, <2>1, <3>2 DEF TransferOK, Fits, OwnLast, Upsync, IsUpload, IsDownload
    <3> QED
      BY ZenonT(30), <1>2, <1>3, <1>6, <3>2, <3>3, TransferStep DEF Transfers, y
  <2>2. CASE ~OwnsRequest
    <3>1. y = x
      BY <1>6, <2>2 DEF Outcome, x
    <3> QED
      BY <1>1, <1>2, <1>3, <1>5, <1>6, <2>2, <3>1, TransferStep DEF Types, x
  <2> QED
    BY <2>1, <2>2
<1>7. CASE /\ nextId' = nextId + 1 /\ cloud' \subseteq cloud \cup {[fp |-> fp, handle |-> nextId]}
           /\ Outcome("applied", nextId)
  <2>1. Nodes' \subseteq Nodes \cup {[fp |-> fp, handle |-> nextId]}
    BY <1>3, <1>7 DEF Nodes
  <2>2. /\ HandlesOK(Nodes', nextId') /\ Later(Nodes, nextId, Nodes', nextId')
        /\ Means(Nodes', nextId', nextId, fp)
    BY Zenon, <1>1, <1>2, <1>7, <2>1, NodeComes
  <2>3. /\ NodeOK(Nodes', nextId', syncNode) /\ TransferOK(Nodes', nextId', x)
    BY <1>1, <2>2, KnownLater DEF Types, x
  <2>4. /\ y \in Transfers /\ TransferOK(Nodes', nextId', y) /\ Fits(syncNode, y)
        /\ OwnLast(y, Tail(q))
    <3>1. CASE OwnsRequest
      <4>1. y = [x EXCEPT !.upsync = "applied", !.result = nextId]
        BY <1>7, <3>1 DEF Outcome, x
      <4>2. y \in Upload /\ y.dir = "PUT" /\ y.upsync = "applied" /\ y.result = nextId /\ y.fp = x.fp
        BY ZenonT(30), <1>1, <1>4, <3>1, <4>1 DEF Upload
      <4>3. x.fp = fp
        BY <1>2, <3>1 DEF OwnsRequest, x, q
      <4> HIDE DEF y
      <4> QED
        BY <1>4, <2>2, <3>1, <4>2, <4>3
           DEF TransferOK, Fits, OwnLast, Upsync, IsUpload, IsDownload, Transfers
    <3>2. CASE ~OwnsRequest
      BY <1>1, <1>5, <1>7, <2>3, <3>2 DEF Outcome, x, Types
    <3> QED
      BY <3>1, <3>2
  <2>5. Types'
    BY <1>1, <1>2, <1>3, <1>7, <2>2, <2>4 DEF Types, Later, Nodes
  <2> QED
    BY ZenonT(30), <1>3, <2>2, <2>3, <2>4, <2>5 DEF Inv, x
<1> QED
  BY Zenon, <1>6, <1>7 DEF PutnodesApplied, fp

\* A LocalNode without a handle, or with the one of a node that has its version, is right.
LEMMA UnsyncedOK ==
    ASSUME Inv, NEW fp
    PROVE  /\ Means(Nodes, nextId, UNDEF, fp)
           /\ \A n \in Nodes : Means(Nodes, nextId, n.handle, n.fp)
<1>1. HandlesOK(Nodes, nextId) /\ Nodes \subseteq CloudNode
  BY NodesTyped DEF Inv
<1> QED
  BY <1>1, UndefAssumption DEF HandlesOK, Means, CloudNode

\* The first step of a pass.
LEMMA CheckMovesStep ==
    ASSUME Inv, CheckMoves
    PROVE  Inv'
<1> DEFINE x == transferSP
           s == syncNode
<1>1. Types /\ HandlesOK(Nodes, nextId) /\ Nodes \subseteq CloudNode /\ nextId \in Nat
      /\ OwnLast(x, putnodes) /\ Fits(s, x) /\ x \in Transfers /\ s \in LocalNodes
      /\ NodeOK(Nodes, nextId, s) /\ TransferOK(Nodes, nextId, x)
      /\ (removeNodeHere # UNDEF => s # UNDEF)
  BY NodesTyped DEF Inv, Types
<1>2. /\ Nodes' \subseteq Nodes /\ cloudNodes' \subseteq cloud /\ step' \in 0..1
      /\ UNCHANGED <<fs, fsNode, cloud, putnodes, nextId>>
  BY DEF CheckMoves, processCompletedUploadFromHere, checkForCompletedCloudMovedToDebris, GoesOn,
         EndOfPass, Nodes
<1>3. HandlesOK(Nodes', nextId) /\ Later(Nodes, nextId, Nodes', nextId)
  BY Zenon, <1>1, <1>2, NodesGo
<1>4. ASSUME NEW t \in LocalNodes, NodeOK(Nodes, nextId, t), syncNode' = t,
             NEW y \in Transfers, TransferOK(Nodes, nextId, y), transferSP' = y,
             Fits(t, y), OwnLast(y, putnodes), removeNodeHere' # UNDEF => t # UNDEF
      PROVE  Inv'
  <2>1. NodeOK(Nodes', nextId, t) /\ TransferOK(Nodes', nextId, y)
    BY Zenon, <1>3, <1>4, KnownLater
  <2>2. Types'
    BY Zenon, <1>1, <1>2, <1>4 DEF Types
  <2> QED
    BY ZenonT(30), <1>2, <1>3, <1>4, <2>1, <2>2 DEF Inv
<1>5. UNDEF \in Transfers /\ TransferOK(Nodes, nextId, UNDEF) /\ OwnLast(UNDEF, putnodes)
      /\ \A t : Fits(t, UNDEF)
  BY DEF Transfers, TransferOK, OwnLast, Fits, Upsync, IsUpload, IsDownload
<1>6. CASE UNCHANGED <<syncNode, transferSP>> /\ removeNodeHere' \in {removeNodeHere, UNDEF}
  BY <1>1, <1>4, <1>6
<1>7. CASE syncNode' = s /\ transferSP' = UNDEF /\ removeNodeHere' = removeNodeHere
  BY ZenonT(30), <1>1, <1>4, <1>5, <1>7
<1>8. CASE /\ Upsync(x) = "ok" /\ transferSP' = UNDEF /\ removeNodeHere' = removeNodeHere
           /\ syncNode' = [s EXCEPT !.fsid = x.sourceFsid, !.fp = x.fp, !.handle = x.result]
  <2>1. x \in Upload /\ s \in LocalNode
    BY <1>1, <1>8 DEF Upsync, IsUpload, Transfers, Download, Fits, LocalNodes
  <2>2. syncNode' \in LocalNode /\ syncNode'.handle = x.result /\ syncNode'.fp = x.fp
    BY Zenon, <1>8, <2>1 DEF LocalNode, Upload
  <2>3. NodeOK(Nodes, nextId, syncNode')
    BY <1>1, <1>8, <2>2 DEF NodeOK, TransferOK
  <2> QED
    BY ZenonT(30), <1>4, <1>5, <1>8, <2>2, <2>3, UndefAssumption DEF LocalNodes
<1>9. CASE /\ Removal = "succeeded" /\ removeNodeHere' = UNDEF /\ transferSP' = x
           /\ syncNode' = [s EXCEPT !.handle = UNDEF, !.fsid = UNDEF]
  <2>1. s \in LocalNode
    BY <1>1, <1>9 DEF Removal, LocalNodes
  <2>2. syncNode' \in LocalNode /\ syncNode'.handle = UNDEF /\ syncNode'.fp = s.fp /\ syncNode' # UNDEF
    BY Zenon, <1>9, <2>1, UndefAssumption DEF LocalNode
  <2>3. NodeOK(Nodes, nextId, syncNode')
    BY <2>2, UnsyncedOK DEF NodeOK
  <2>4. Fits(syncNode', x)
    BY <1>1, <2>2 DEF Fits
  <2> QED
    BY <1>1, <1>4, <1>9, <2>2, <2>3, <2>4 DEF LocalNodes
<1> QED
  BY ZenonT(30), <1>6, <1>7, <1>8, <1>9
     DEF CheckMoves, processCompletedUploadFromHere, checkForCompletedCloudMovedToDebris

-----------------------------------------------------------------------------
(* The second step of a pass: the row that it works on stays right.        *)

RowOK(r) ==
    /\ r \in [fs : File \cup {UNDEF}, fsNode : File \cup {UNDEF}, kept : {r.kept},
              syncNode : LocalNodes, transferSP : Transfers]
    /\ NodeOK(Nodes, nextId, r.syncNode) /\ TransferOK(Nodes, nextId, r.transferSP)
    /\ Fits(r.syncNode, r.transferSP)

\* No transfer fits any LocalNode.
LEMMA NoTransfer ==
    /\ UNDEF \in Transfers /\ TransferOK(Nodes, nextId, UNDEF)
    /\ \A s : Fits(s, UNDEF)
    /\ \A q : OwnLast(UNDEF, q)
BY DEF Transfers, TransferOK, OwnLast, Fits, Upsync, IsUpload, IsDownload

\* The fields of a row that syncItem() sets.
LEMMA TransferSet ==
    ASSUME NEW r, RowOK(r), NEW y \in Transfers, TransferOK(Nodes, nextId, y), Fits(r.syncNode, y)
    PROVE  /\ RowOK([r EXCEPT !.transferSP = y])
           /\ [r EXCEPT !.transferSP = y].transferSP = y
           /\ [r EXCEPT !.transferSP = y].syncNode = r.syncNode
BY DEF RowOK

\* A row with another LocalNode.
LEMMA NodeSet ==
    ASSUME NEW r, RowOK(r), NEW s \in LocalNodes, NodeOK(Nodes, nextId, s), Fits(s, r.transferSP)
    PROVE  /\ RowOK([r EXCEPT !.syncNode = s])
           /\ [r EXCEPT !.syncNode = s].transferSP = r.transferSP
           /\ [r EXCEPT !.syncNode = s].syncNode = s
BY DEF RowOK

\* row.cloudNode is one of the nodes that the pass read.
LEMMA CloudNodeRead ==
    ASSUME Inv, cloudNode # UNDEF
    PROVE  /\ cloudNode \in Nodes /\ cloudNode.handle \in Nat /\ cloudNode.fp \in Fp
           /\ Means(Nodes, nextId, cloudNode.handle, cloudNode.fp)
<1>1. cloudNodes # {}
  BY FS_EmptySet DEF cloudNode
<1>2. cloudNode \in Nodes
  BY <1>1 DEF cloudNode, Nodes
<1> QED
  BY <1>2, UnsyncedOK, NodesTyped DEF Inv, CloudNode

\* The row that the rest of syncItem() starts with.
Started(d) == IF syncNode = UNDEF THEN d ELSE [d EXCEPT !.syncNode.deleteCount = 0]

\* checkDownloadCompletion() leaves a row that is right, and a LocalNode if there was one.
LEMMA RowStarts ==
    ASSUME Inv
    PROVE  LET r == Started(CheckDownloadCompletion)
           IN  /\ RowOK(r) /\ OwnLast(r.transferSP, putnodes)
               /\ (r.syncNode = UNDEF) = (syncNode = UNDEF)
<1> DEFINE d == CheckDownloadCompletion
           x == transferSP
<1>1. /\ fs \in File \cup {UNDEF} /\ fsNode \in File \cup {UNDEF} /\ nextId \in Nat
      /\ syncNode \in LocalNodes /\ x \in Transfers
      /\ NodeOK(Nodes, nextId, syncNode) /\ TransferOK(Nodes, nextId, x)
      /\ Fits(syncNode, x) /\ OwnLast(x, putnodes)
  BY DEF Inv, Types
<1>2. RowOK(Row) /\ Row.transferSP = x /\ Row.syncNode = syncNode
  BY <1>1 DEF Row, RowOK
<1>3. /\ RowOK(d) /\ OwnLast(d.transferSP, putnodes)
      /\ (d.syncNode = UNDEF) = (syncNode = UNDEF)
  <2>1. CASE DownloadArrives
    <3>1. x \in Download /\ IsDownload(x) /\ syncNode \in LocalNode
      BY <1>1, <2>1 DEF DownloadArrives, IsDownload, Transfers, Upload, Fits, LocalNodes
    <3> DEFINE s == [syncNode EXCEPT !.fsid = nextId, !.fp = x.fp, !.handle = x.handle]
               new == [fp |-> x.fp, fsid |-> nextId]
    <3>2. s \in LocalNode /\ s.fp = x.fp /\ s.handle = x.handle /\ new \in File
      BY Zenon, <1>1, <3>1 DEF LocalNode, Download, File
    <3>3. s # UNDEF /\ NodeOK(Nodes, nextId, s)
      BY <1>1, <3>1, <3>2, UndefAssumption DEF NodeOK, TransferOK
    <3>4. /\ d = [fs |-> new, fsNode |-> new, kept |-> d.kept, syncNode |-> s,
                  transferSP |-> UNDEF]
      BY <2>1 DEF CheckDownloadCompletion, Distributed
    <3> HIDE DEF d, s, new
    <3> QED
      BY <3>1, <3>2, <3>3, <3>4, NoTransfer, UndefAssumption DEF RowOK, LocalNodes
  <2>2. CASE d = [Row EXCEPT !.transferSP = UNDEF]
    BY <1>2, <2>2, NoTransfer, TransferSet
  <2>3. CASE d = Row
    BY <1>1, <1>2, <2>3
  <2> QED
    BY Zenon, <2>1, <2>2, <2>3 DEF CheckDownloadCompletion
<1> HIDE DEF d
<1>4. CASE syncNode = UNDEF
  BY <1>3, <1>4 DEF Started, d
<1>5. CASE syncNode # UNDEF
  <2> DEFINE s == [d.syncNode EXCEPT !.deleteCount = 0]
             r == [d EXCEPT !.syncNode = s]
  <2>1. d.syncNode \in LocalNode
    BY <1>3, <1>5 DEF RowOK, LocalNodes
  <2>2. s \in LocalNode /\ s.fp = d.syncNode.fp /\ s.handle = d.syncNode.handle /\ s # UNDEF
    BY <2>1, UndefAssumption DEF LocalNode
  <2>3. NodeOK(Nodes, nextId, s) /\ Fits(s, d.transferSP)
    BY <1>3, <1>5, <2>2 DEF RowOK, NodeOK, Fits
  <2>4. Started(d) = r
    BY <1>3, <1>5 DEF Started, RowOK
  <2> HIDE DEF s
  <2>5. RowOK(r) /\ r.transferSP = d.transferSP /\ r.syncNode = s
    BY ZenonT(30), <1>3, <2>2, <2>3, NodeSet DEF LocalNodes
  <2> HIDE DEF r
  <2> QED
    BY Zenon, <1>3, <1>5, <2>2, <2>4, <2>5 DEF d
<1> QED
  BY <1>4, <1>5

\* What a pass leaves is right if the row and its requests are.
EndsRight(r) ==
    /\ RowOK(r) /\ Ends(r) /\ putnodes' \in Seq(Request) /\ OwnLast(r.transferSP, putnodes')
    /\ removeNodeHere' # UNDEF => r.syncNode # UNDEF

\* A pass that ends with a right row keeps the invariant.
LEMMA EndsStep ==
    ASSUME Inv, NEW r, EndsRight(r), EndOfPass, UNCHANGED cloud
    PROVE  Inv'
<1>1. Types /\ HandlesOK(Nodes, nextId) /\ Nodes \subseteq CloudNode /\ nextId \in Nat
  BY NodesTyped DEF Inv
<1>2. Nodes' \subseteq Nodes /\ nextId' \in {nextId, nextId + 1} /\ cloudNodes' = {} /\ step' = 0
  BY <1>1 DEF EndsRight, Ends, EndOfPass, Nodes
<1>3. HandlesOK(Nodes', nextId') /\ Later(Nodes, nextId, Nodes', nextId')
  BY <1>1, <1>2, NodesGo
<1>4. /\ syncNode' = r.syncNode /\ transferSP' = r.transferSP /\ fs' = r.fs /\ fsNode' = r.fsNode
      /\ r.syncNode \in LocalNodes /\ r.transferSP \in Transfers
      /\ r.fs \in File \cup {UNDEF} /\ r.fsNode \in File \cup {UNDEF}
  BY DEF EndsRight, RowOK, Ends
<1>5. NodeOK(Nodes', nextId', r.syncNode) /\ TransferOK(Nodes', nextId', r.transferSP)
  BY ZenonT(30), <1>3, <1>4, KnownLater DEF EndsRight, RowOK
<1>6. Types'
  BY <1>1, <1>2, <1>4 DEF Types, EndsRight
<1> QED
  BY ZenonT(30), <1>3, <1>4, <1>5, <1>6 DEF Inv, EndsRight, RowOK

\* resolve_upsync() keeps the upload under way, or a new one.
LEMMA UploadKept ==
    ASSUME NEW r, RowOK(r), r.fsNode # UNDEF, ~UpsyncMustWait(r), NEW q,
           OwnLast(r.transferSP, q), UploadToKeep(r) # UNDEF
    PROVE  /\ UploadToKeep(r) \in Upload
           /\ TransferOK(Nodes, nextId, UploadToKeep(r)) /\ OwnLast(UploadToKeep(r), q)
<1> DEFINE x == r.transferSP
           fp == r.fsNode.fp
           y == UploadToKeep(r)
<1>1. x \in Transfers /\ fp \in Fp /\ TransferOK(Nodes, nextId, x)
  BY DEF RowOK, File
<1>2. IsUpload(x)
  BY DEF UploadToKeep
<1>3. x \in Upload /\ Upsync(x) = x.upsync
  BY Zenon, <1>1, <1>2 DEF IsUpload, Transfers, Download, Upsync
<1>4. CASE y = x
  BY ZenonT(30), <1>1, <1>3, <1>4
<1>5. CASE x.fp # fp /\ y = [x EXCEPT !.fp = fp]
  <2>1. x.upsync = "no"
    BY <1>3, <1>5 DEF UpsyncMustWait
  <2>2. y \in Upload /\ y.upsync = "no" /\ y.dir = "PUT"
    BY ZenonT(30), <1>1, <1>3, <1>5, <2>1 DEF Upload
  <2> HIDE DEF y
  <2> QED
    BY <2>2 DEF TransferOK, OwnLast, Upsync, IsUpload, IsDownload, y
<1>6. y = x \/ (x.fp # fp /\ y = [x EXCEPT !.fp = fp])
  BY <1>2 DEF UploadToKeep
<1> QED
  BY <1>4, <1>5, <1>6

\* An upload fits any LocalNode.
LEMMA UploadFits ==
    ASSUME NEW s, s # UNDEF, NEW y \in Upload
    PROVE  Fits(s, y) /\ y \in Transfers
BY DEF Fits, Upload, IsDownload, Transfers

\* What syncItem() begins with; each resolution below ends right.
Ready(r) ==
    /\ Inv /\ RowOK(r) /\ OwnLast(r.transferSP, putnodes)
    /\ (r.syncNode = UNDEF) = (syncNode = UNDEF)

\* What every function of a pass may rely on.
LEMMA ReadyFacts ==
    ASSUME NEW r, Ready(r)
    PROVE  /\ putnodes \in Seq(Request) /\ (removeNodeHere # UNDEF => r.syncNode # UNDEF)
           /\ r.syncNode \in LocalNodes /\ r.transferSP \in Transfers
           /\ r.fsNode \in File \cup {UNDEF}
           /\ NodeOK(Nodes, nextId, r.syncNode) /\ Fits(r.syncNode, r.transferSP)
BY DEF Ready, Inv, Types, RowOK

\* A pass that leaves the row as it is.
LEMMA StaysRight ==
    ASSUME NEW r, Ready(r), Ends(r), NoRequests
    PROVE  EndsRight(r)
BY ReadyFacts DEF Ready, EndsRight, NoRequests

\* A pass that changes the transfer only.
LEMMA TransferRight ==
    ASSUME NEW r, Ready(r), NEW y \in Transfers, TransferOK(Nodes, nextId, y),
           Fits(r.syncNode, y), OwnLast(y, putnodes),
           Ends([r EXCEPT !.transferSP = y]), NoRequests
    PROVE  \E e : EndsRight(e)
<1> DEFINE e == [r EXCEPT !.transferSP = y]
<1>1. RowOK(e) /\ e.transferSP = y /\ e.syncNode = r.syncNode
  BY TransferSet DEF Ready
<1> HIDE DEF e
<1>2. EndsRight(e)
  BY <1>1, ReadyFacts DEF EndsRight, NoRequests, e
<1> QED
  BY <1>2

\* A pass that changes the LocalNode only.
LEMMA NodeRight ==
    ASSUME NEW r, Ready(r), NEW s \in LocalNode, NodeOK(Nodes, nextId, s),
           Fits(s, r.transferSP), Ends([r EXCEPT !.syncNode = s]), NoRequests
    PROVE  \E e : EndsRight(e)
<1> DEFINE e == [r EXCEPT !.syncNode = s]
<1>1. RowOK(e) /\ e.transferSP = r.transferSP /\ e.syncNode = s /\ s # UNDEF
  BY NodeSet, UndefAssumption DEF Ready, LocalNodes
<1> HIDE DEF e
<1>2. EndsRight(e)
  BY <1>1, ReadyFacts DEF EndsRight, NoRequests, Ready, e
<1> QED
  BY <1>2

\* A pass that changes the LocalNode and gives up the transfer.
LEMMA BothRight ==
    ASSUME NEW r, Ready(r), NEW s \in LocalNode, NodeOK(Nodes, nextId, s),
           Ends([r EXCEPT !.syncNode = s, !.transferSP = UNDEF]), NoRequests
    PROVE  \E e : EndsRight(e)
<1> DEFINE e == [r EXCEPT !.syncNode = s, !.transferSP = UNDEF]
<1>1. RowOK(e) /\ e.transferSP = UNDEF /\ e.syncNode = s /\ s # UNDEF
  <2>1. RowOK(r) /\ s \in LocalNodes /\ s # UNDEF
    BY UndefAssumption DEF Ready, LocalNodes
  <2>2. /\ UNDEF \in Transfers /\ TransferOK(Nodes, nextId, UNDEF) /\ Fits(s, UNDEF)
    BY NoTransfer
  <2> QED
    BY Zenon, <2>1, <2>2 DEF RowOK
<1> HIDE DEF e
<1>2. EndsRight(e)
  BY <1>1, ReadyFacts, NoTransfer DEF EndsRight, NoRequests, e
<1> QED
  BY <1>2

\* resolve_upsync(): a new upload, one that goes on, a clone, or its end.
LEMMA UpsyncRight ==
    ASSUME NEW r, Ready(r), r.syncNode # UNDEF, r.fsNode # UNDEF, resolve_upsync(r)
    PROVE  \E e : EndsRight(e)
<1> DEFINE x == UploadToKeep(r)
<1>1. /\ RowOK(r) /\ OwnLast(r.transferSP, putnodes) /\ r.fsNode \in File
      /\ putnodes \in Seq(Request) /\ cloudHandle \in Nat \cup {UNDEF}
  BY ReadyFacts, CloudNodeRead DEF Ready, cloudHandle
<1>2. CASE UpsyncMustWait(r) /\ Ends(r) /\ NoRequests
  BY <1>2, StaysRight
<1>3. ASSUME NEW u, u = [dir |-> "PUT", fp |-> r.fsNode.fp, sourceFsid |-> r.fsNode.fsid,
                       state |-> "waiting", upsync |-> "no", expected |-> FALSE,
                       ov |-> cloudHandle, result |-> UNDEF],
             Ends([r EXCEPT !.transferSP = u]), NoRequests
      PROVE  \E e : EndsRight(e)
  <2>1. u \in Upload /\ u.upsync = "no" /\ u.dir = "PUT"
    BY <1>1, <1>3 DEF Upload, File
  <2>2. TransferOK(Nodes, nextId, u) /\ OwnLast(u, putnodes)
    BY <2>1 DEF TransferOK, OwnLast, Upsync, IsUpload, IsDownload
  <2> QED
    BY Zenon, <1>3, <2>1, <2>2, UploadFits, TransferRight
<1>4. ASSUME ~UpsyncMustWait(r), x # UNDEF
      PROVE  x \in Upload /\ x \in Transfers /\ TransferOK(Nodes, nextId, x) /\ OwnLast(x, putnodes)
             /\ Fits(r.syncNode, x)
  BY ZenonT(30), <1>1, <1>4, UploadKept, UploadFits
<1> HIDE DEF x
<1>5. ASSUME ~UpsyncMustWait(r), x # UNDEF, NEW y, y = [x EXCEPT !.upsync = "started", !.expected = TRUE],
             Ends([r EXCEPT !.transferSP = y]), UNCHANGED removeNodeHere,
             putnodes' = Append(putnodes, [fp |-> x.fp, ov |-> cloudHandle])
      PROVE  \E e : EndsRight(e)
  <2> DEFINE e == [r EXCEPT !.transferSP = y]
             p == [fp |-> x.fp, ov |-> cloudHandle]
  <2>1. y \in Upload /\ y.upsync = "started" /\ y.fp = x.fp /\ y.dir = "PUT"
    BY ZenonT(30), <1>4, <1>5 DEF Upload
  <2>2. p \in Request /\ p.fp = x.fp
    BY <1>1, <1>4, <1>5 DEF Request, Upload
  <2> HIDE DEF p
  <2>3. putnodes' \in Seq(Request) /\ putnodes' # <<>> /\ putnodes'[Len(putnodes')] = p
    <3>1. putnodes \in Seq(Request) /\ putnodes' = Append(putnodes, p)
      BY Zenon, <1>1, <1>5 DEF p
    <3> QED
      BY <2>2, <3>1
  <2>4. TransferOK(Nodes, nextId, y) /\ OwnLast(y, putnodes')
    BY <2>1, <2>2, <2>3 DEF TransferOK, OwnLast, Upsync, IsUpload, IsDownload
  <2>5. RowOK(e) /\ e.transferSP = y /\ e.syncNode = r.syncNode
    BY Zenon, <1>1, <2>1, <2>4, UploadFits, TransferSet
  <2> HIDE DEF e
  <2>6. EndsRight(e)
    BY <1>5, <2>3, <2>4, <2>5 DEF EndsRight, e
  <2> QED
    BY <2>6
<1>6. CASE ~UpsyncMustWait(r) /\ x # UNDEF /\ Ends([r EXCEPT !.transferSP = UNDEF]) /\ NoRequests
  BY <1>6, NoTransfer, TransferRight
<1>7. CASE ~UpsyncMustWait(r) /\ x # UNDEF /\ Ends([r EXCEPT !.transferSP = x]) /\ NoRequests
  BY <1>4, <1>7, TransferRight
<1> QED
  BY Zenon, <1>2, <1>3, <1>5, <1>6, <1>7 DEF resolve_upsync, x

\* A download may overwrite what was last synced, or nothing.
LEMMA DownsyncRight ==
    ASSUME NEW r, Ready(r), r.syncNode # UNDEF, cloudNode # UNDEF,
           r.fsNode # UNDEF => r.fsNode.fp = r.syncNode.fp, resolve_downsync(r)
    PROVE  \E e : EndsRight(e)
<1>1. CASE Ends(r)
  BY <1>1, StaysRight DEF resolve_downsync
<1>2. ASSUME NEW y, Ends([r EXCEPT !.transferSP = y]),
             y = [dir |-> "GET", fp |-> cloudNode.fp, handle |-> cloudNode.handle,
                  okToOverwrite |-> IF r.fsNode = UNDEF THEN UNDEF ELSE r.fsNode.fp,
                  state |-> "started"]
      PROVE  \E e : EndsRight(e)
  <2>1. cloudNode.handle \in Nat /\ cloudNode.fp \in Fp /\ Inv
        /\ Means(Nodes, nextId, cloudNode.handle, cloudNode.fp)
    BY CloudNodeRead DEF Ready
  <2>2. r.fsNode # UNDEF => r.fsNode.fp \in Fp
    BY ReadyFacts DEF File
  <2>3. /\ y \in Download /\ y.dir = "GET" /\ y.fp = cloudNode.fp /\ y.handle = cloudNode.handle
        /\ y.okToOverwrite \in {UNDEF, r.syncNode.fp}
    BY <1>2, <2>1, <2>2 DEF Download
  <2>4. y \in Transfers /\ TransferOK(Nodes, nextId, y) /\ Fits(r.syncNode, y) /\ OwnLast(y, putnodes)
    BY ZenonT(30), <2>1, <2>3 DEF Transfers, TransferOK, Fits, OwnLast, Upsync, IsUpload, IsDownload
  <2> QED
    BY <1>2, <2>4, TransferRight DEF resolve_downsync
<1> QED
  BY Zenon, <1>1, <1>2 DEF resolve_downsync

\* A LocalNode that takes the handle and version of row.cloudNode.
LEMMA TakesCloudNode ==
    ASSUME NEW r, Ready(r), cloudNode # UNDEF, NEW s \in LocalNode,
           s.handle = cloudNode.handle, s.fp = cloudNode.fp
    PROVE  NodeOK(Nodes, nextId, s)
BY CloudNodeRead DEF Ready, NodeOK

\* resolve_rowMatched(): the LocalNode takes the version of both sides.
LEMMA RowMatchedRight ==
    ASSUME NEW r, Ready(r), r.syncNode # UNDEF, cloudNode # UNDEF, r.fsNode # UNDEF,
           cloudNode.fp = r.fsNode.fp, resolve_rowMatched(r)
    PROVE  \E e : EndsRight(e)
<1> DEFINE c == cloudNode
           x == r.transferSP
           new == r.syncNode.fsid # r.fsNode.fsid \/ r.syncNode.handle # c.handle
           s == [r.syncNode EXCEPT !.fsid = r.fsNode.fsid, !.fp = r.fsNode.fp, !.handle = c.handle]
           y == IF new THEN UNDEF ELSE x
           e == [r EXCEPT !.syncNode = s, !.transferSP = y]
<1>1. /\ c \in Nodes /\ c.handle \in Nat /\ c.fp \in Fp /\ r.fsNode \in File
      /\ r.syncNode \in LocalNode /\ RowOK(r)
  BY CloudNodeRead, ReadyFacts DEF Ready, LocalNodes
<1>2. s \in LocalNode /\ s.handle = c.handle /\ s.fp = c.fp /\ s # UNDEF
  BY ZenonT(60), <1>1, UndefAssumption DEF LocalNode, File
<1>3. NodeOK(Nodes, nextId, s)
  BY Zenon, <1>2, TakesCloudNode
<1>4. y \in Transfers /\ TransferOK(Nodes, nextId, y) /\ Fits(s, y) /\ OwnLast(y, putnodes)
  <2>1. CASE new
    BY <2>1, NoTransfer
  <2>2. CASE ~new
    <3>1. r.syncNode.fp = c.fp
      BY <1>1, <2>2 DEF RowOK, NodeOK, Means
    <3> QED
      BY ZenonT(30), <1>1, <1>2, <2>2, <3>1 DEF RowOK, Fits, Ready
  <2> QED
    BY <2>1, <2>2
<1>5. Ends(e) /\ NoRequests
  BY <1>1 DEF resolve_rowMatched, RowOK
<1> HIDE DEF s, y
<1>6. RowOK(e) /\ e.transferSP = y /\ e.syncNode = s
  BY Zenon, <1>1, <1>2, <1>3, <1>4 DEF RowOK, LocalNodes
<1> HIDE DEF e
<1>7. EndsRight(e)
  BY Zenon, <1>2, <1>4, <1>5, <1>6, ReadyFacts DEF EndsRight, NoRequests
<1> QED
  BY ZenonT(30), <1>7

\* resolve_userIntervention(): the transfer is given up.
LEMMA InterventionRight ==
    ASSUME NEW r, Ready(r), resolve_userIntervention(r)
    PROVE  \E e : EndsRight(e)
<1> DEFINE y == IF r.syncNode = UNDEF THEN r.transferSP ELSE UNDEF
<1>1. y \in Transfers /\ TransferOK(Nodes, nextId, y) /\ Fits(r.syncNode, y) /\ OwnLast(y, putnodes)
  BY NoTransfer, ReadyFacts DEF Ready, RowOK
<1>2. Ends([r EXCEPT !.transferSP = y]) /\ NoRequests
  BY Zenon DEF resolve_userIntervention
<1> HIDE DEF y
<1> QED
  BY <1>1, <1>2, TransferRight

\* The row has a file, a LocalNode and a cloud node.
LEMMA AllThreeRight ==
    ASSUME NEW r, Ready(r), r.syncNode # UNDEF, cloudNode # UNDEF, r.fsNode # UNDEF, AllThree(r)
    PROVE  \E e : EndsRight(e)
<1>1. CASE cloudNode.fp = r.fsNode.fp /\ resolve_rowMatched(r)
  BY <1>1, RowMatchedRight
<1>2. CASE resolve_upsync(r)
  BY <1>2, UpsyncRight
<1>3. CASE r.fsNode.fp = r.syncNode.fp /\ resolve_downsync(r)
  BY <1>3, DownsyncRight
<1>4. CASE resolve_userIntervention(r)
  BY Zenon, <1>4, InterventionRight
<1>5. ASSUME NEW s, s = [r.syncNode EXCEPT !.handle = cloudNode.handle, !.fp = cloudNode.fp],
             Ends([r EXCEPT !.syncNode = s, !.transferSP = UNDEF]), NoRequests
      PROVE  \E e : EndsRight(e)
  <2>1. cloudNode.handle \in Nat /\ cloudNode.fp \in Fp /\ r.syncNode \in LocalNode
    BY CloudNodeRead, ReadyFacts DEF Ready, LocalNodes
  <2>2. s \in LocalNode /\ s.handle = cloudNode.handle /\ s.fp = cloudNode.fp
    BY Zenon, <1>5, <2>1 DEF LocalNode
  <2> QED
    BY ZenonT(30), <1>5, <2>2, TakesCloudNode, BothRight
<1>6. RowOK(r)
  BY DEF Ready
<1> QED
  BY ZenonT(30), <1>1, <1>2, <1>3, <1>4, <1>5, <1>6 DEF AllThree, RowOK

\* A LocalNode that keeps its version and handle.
LEMMA SameVersion ==
    ASSUME NEW r, Ready(r), r.syncNode # UNDEF, NEW s \in LocalNode,
           s.handle = r.syncNode.handle, s.fp = r.syncNode.fp
    PROVE  NodeOK(Nodes, nextId, s) /\ Fits(s, r.transferSP)
BY ReadyFacts, UndefAssumption DEF NodeOK, Fits

\* The row has a file and a LocalNode.
LEMMA NoCloudNodeRight ==
    ASSUME NEW r, Ready(r), r.syncNode # UNDEF, r.fsNode # UNDEF, NEW sure, NoCloudNode(r, sure)
    PROVE  \E e : EndsRight(e)
<1>1. CASE resolve_upsync(r)
  BY Zenon, <1>1, UpsyncRight
<1>2. CASE resolve_cloudNodeGone(r, sure)
  <2> DEFINE s == [r.syncNode EXCEPT !.deletedFS = TRUE]
             e == [r EXCEPT !.fs = UNDEF, !.kept = @ \cup {r.fs.fp}, !.syncNode = s]
  <2>1. r.syncNode \in LocalNode /\ RowOK(r)
    BY ReadyFacts DEF LocalNodes, Ready
  <2>2. s \in LocalNode /\ s.handle = r.syncNode.handle /\ s.fp = r.syncNode.fp /\ s # UNDEF
    BY Zenon, <2>1, UndefAssumption DEF LocalNode
  <2>3. NodeOK(Nodes, nextId, s) /\ Fits(s, r.transferSP)
    BY Zenon, <2>2, SameVersion
  <2>4. (Ends(r) \/ Ends(e)) /\ NoRequests
    BY <1>2, <2>1 DEF resolve_cloudNodeGone, RowOK
  <2> HIDE DEF s
  <2>5. RowOK(e) /\ e.transferSP = r.transferSP /\ e.syncNode = s
    BY Zenon, <2>1, <2>2, <2>3 DEF RowOK, LocalNodes
  <2> HIDE DEF e
  <2>6. Ends(e) => EndsRight(e)
    BY <2>2, <2>4, <2>5, ReadyFacts DEF EndsRight, NoRequests, Ready
  <2>7. Ends(r) => EndsRight(r)
    BY Zenon, <2>4, StaysRight
  <2> QED
    BY ZenonT(30), <2>4, <2>6, <2>7
<1> QED
  BY Zenon, <1>1, <1>2 DEF NoCloudNode

\* The row has a LocalNode and a cloud node.
LEMMA NoFsNodeRight ==
    ASSUME NEW r, Ready(r), r.syncNode # UNDEF, r.fsNode = UNDEF, cloudNode # UNDEF,
           NEW sure, NoFsNode(r, sure)
    PROVE  \E e : EndsRight(e)
<1>1. /\ cloudNode.handle \in Nat /\ cloudNode.fp \in Fp /\ r.syncNode \in LocalNode /\ RowOK(r)
      /\ r.transferSP \in Transfers
  BY Zenon, CloudNodeRead, ReadyFacts DEF Ready, LocalNodes
<1>2. CASE resolve_downsync(r)
  BY Zenon, <1>2, DownsyncRight
<1>3. CASE resolve_fsNodeGone(r, sure)
  <2>1. EndsRight(r)
    BY <1>1, <1>3, ReadyFacts DEF resolve_fsNodeGone, EndsRight, Ready
  <2> QED
    BY ZenonT(30), <2>1
<1>4. ASSUME NEW s, s = [r.syncNode EXCEPT !.handle = cloudNode.handle],
             cloudNode.fp = r.syncNode.fp, Ends([r EXCEPT !.syncNode = s]), NoRequests
      PROVE  \E e : EndsRight(e)
  <2>1. s \in LocalNode /\ s.handle = cloudNode.handle /\ s.fp = cloudNode.fp /\ s.fp = r.syncNode.fp
    BY <1>1, <1>4 DEF LocalNode
  <2>2. Fits(s, r.transferSP)
    BY ZenonT(30), <1>1, <2>1, UndefAssumption DEF RowOK, Fits
  <2>3. NodeOK(Nodes, nextId, s)
    BY Zenon, <2>1, TakesCloudNode
  <2> QED
    BY ZenonT(30), <1>4, <2>1, <2>2, <2>3, NodeRight
<1>5. ASSUME IsExpectedUpload(r.transferSP), NoRequests,
             NEW s, s = [r.syncNode EXCEPT !.handle = cloudNode.handle, !.fp = cloudNode.fp,
                                           !.fsid = r.transferSP.sourceFsid],
             Ends([r EXCEPT !.syncNode = s, !.transferSP = UNDEF])
      PROVE  \E e : EndsRight(e)
  <2>1. r.transferSP.sourceFsid \in Nat
    BY <1>1, <1>5 DEF IsExpectedUpload, Upsync, IsUpload, Transfers, Upload, Download
  <2>2. s \in LocalNode /\ s.handle = cloudNode.handle /\ s.fp = cloudNode.fp
    BY Zenon, <1>1, <1>5, <2>1 DEF LocalNode
  <2> QED
    BY Zenon, <1>5, <2>2, TakesCloudNode, BothRight
<1> QED
  BY ZenonT(30), <1>1, <1>2, <1>3, <1>4, <1>5 DEF NoFsNode, RowOK

\* resolve_delSyncNode(): the LocalNode goes, and its transfer with it.
LEMMA DelSyncNodeRight ==
    ASSUME NEW r, Ready(r), r.syncNode # UNDEF, NEW n, resolve_delSyncNode(r, n)
    PROVE  \E e : EndsRight(e)
<1>1. /\ r.syncNode \in LocalNode /\ RowOK(r) /\ putnodes \in Seq(Request)
      /\ UNCHANGED <<inshare, putnodes>>
  BY ReadyFacts DEF Ready, LocalNodes, resolve_delSyncNode
<1>2. CASE Ends(r) /\ UNCHANGED removeNodeHere
  BY <1>1, <1>2, StaysRight DEF NoRequests
<1>3. ASSUME NEW s, s = [r.syncNode EXCEPT !.deleteCount = 1], UNCHANGED removeNodeHere,
             Ends([r EXCEPT !.syncNode = s])
      PROVE  \E e : EndsRight(e)
  <2>1. s \in LocalNode /\ s.handle = r.syncNode.handle /\ s.fp = r.syncNode.fp
    BY <1>1, <1>3 DEF LocalNode
  <2> QED
    BY Zenon, <1>1, <1>3, <2>1, SameVersion, NodeRight DEF NoRequests
<1>4. CASE Ends([r EXCEPT !.syncNode = UNDEF, !.transferSP = UNDEF]) /\ removeNodeHere' = UNDEF
  <2> DEFINE e == [r EXCEPT !.syncNode = UNDEF, !.transferSP = UNDEF]
  <2>1. RowOK(e) /\ e.transferSP = UNDEF
    BY Zenon, <1>1, NoTransfer DEF RowOK, LocalNodes, NodeOK
  <2> HIDE DEF e
  <2>2. EndsRight(e)
    BY <1>1, <1>4, <2>1, NoTransfer DEF EndsRight, e
  <2> QED
    BY <2>2
<1> QED
  BY <1>1, <1>2, <1>3, <1>4 DEF resolve_delSyncNode, RowOK

\* resolve_makeSyncNode_fromFS() and _fromCloud(): a LocalNode without a handle.
LEMMA MakeSyncNodeRight ==
    ASSUME NEW r, Ready(r), r.syncNode = UNDEF, NEW s \in LocalNode, s.handle = UNDEF,
           Ends([r EXCEPT !.syncNode = s]), NoRequests
    PROVE  \E e : EndsRight(e)
<1>1. r.transferSP = UNDEF
  BY ReadyFacts DEF Fits
<1>2. NodeOK(Nodes, nextId, s)
  BY UnsyncedOK DEF NodeOK, Ready
<1> QED
  BY <1>1, <1>2, NoTransfer, NodeRight

\* The rest of syncItem().
LEMMA SyncItemStep ==
    ASSUME Inv, NEW sure \in BOOLEAN, SyncItem(sure)
    PROVE  Inv'
<1> DEFINE r == Started(CheckDownloadCompletion)
<1>1. Ready(r)
  BY RowStarts DEF Ready
<1>2. EndOfPass /\ UNCHANGED cloud /\ step = 1
  BY DEF SyncItem
<1>3. \/ UNCHANGED <<fs, fsNode, kept, syncNode, transferSP, removeNodeHere, putnodes, nextId>>
      \/ cloudNode # UNDEF /\ r.syncNode # UNDEF /\ r.fsNode # UNDEF /\ AllThree(r)
      \/ r.syncNode # UNDEF /\ r.fsNode # UNDEF /\ NoCloudNode(r, sure)
      \/ cloudNode # UNDEF /\ r.syncNode # UNDEF /\ r.fsNode = UNDEF /\ NoFsNode(r, sure)
      \/ r.syncNode # UNDEF /\ resolve_delSyncNode(r, syncNode.deleteCount)
      \/ r.syncNode = UNDEF /\ resolve_makeSyncNode_fromFS(r)
      \/ cloudNode # UNDEF /\ r.syncNode = UNDEF /\ resolve_makeSyncNode_fromCloud(r)
      \/ resolve_userIntervention(r)
      \/ Ends(r) /\ NoRequests
  BY DEF SyncItem, Started, NoRequests
<1> HIDE DEF r
<1>4. ASSUME UNCHANGED <<fs, fsNode, kept, syncNode, transferSP, removeNodeHere, putnodes, nextId>>
      PROVE  Inv'
  <2>1. Types /\ HandlesOK(Nodes, nextId) /\ Nodes \subseteq CloudNode /\ nextId \in Nat
    BY NodesTyped DEF Inv
  <2>2. Nodes' \subseteq Nodes /\ Types'
    BY <1>2, <1>4, <2>1 DEF EndOfPass, Nodes, Types
  <2> QED
    BY Zenon, <1>4, <2>1, <2>2, NodesGo, OthersStep
<1>5. ASSUME r.syncNode = UNDEF, \/ resolve_makeSyncNode_fromFS(r)
                                 \/ cloudNode # UNDEF /\ resolve_makeSyncNode_fromCloud(r)
      PROVE  \E e : EndsRight(e)
  <2> DEFINE s == [newLocalNode EXCEPT !.fp = cloudNode.fp]
  <2>1. newLocalNode \in LocalNode /\ newLocalNode.handle = UNDEF
    BY DEF newLocalNode, LocalNode
  <2>2. CASE resolve_makeSyncNode_fromFS(r)
    BY ZenonT(30), <1>1, <1>5, <2>1, <2>2, MakeSyncNodeRight DEF resolve_makeSyncNode_fromFS
  <2>3. CASE cloudNode # UNDEF /\ resolve_makeSyncNode_fromCloud(r)
    <3>1. cloudNode.fp \in Fp
      BY <2>3, CloudNodeRead
    <3>2. s \in LocalNode /\ s.handle = UNDEF
      BY <2>1, <3>1 DEF LocalNode
    <3>3. Ends([r EXCEPT !.syncNode = s]) /\ NoRequests
      BY Zenon, <2>3 DEF resolve_makeSyncNode_fromCloud
    <3> HIDE DEF s
    <3> QED
      BY ZenonT(30), <1>1, <1>5, <3>2, <3>3, MakeSyncNodeRight
  <2> QED
    BY <1>5, <2>2, <2>3
<1>6. ASSUME ~UNCHANGED <<fs, fsNode, kept, syncNode, transferSP, removeNodeHere, putnodes, nextId>>
      PROVE  \E e : EndsRight(e)
  BY ZenonT(30), <1>1, <1>3, <1>5, <1>6, AllThreeRight, NoCloudNodeRight, NoFsNodeRight, DelSyncNodeRight,
     InterventionRight, StaysRight
<1> QED
  BY <1>2, <1>4, <1>6, EndsStep

\* The sync begins without a LocalNode or a transfer.
LEMMA InitInv == Init => Inv
<1> SUFFICES ASSUME Init PROVE Inv
  OBVIOUS
<1> USE UndefAssumption
<1>1. /\ nextId = 3 /\ cloudNodes = {} /\ transferSP = UNDEF /\ removeNodeHere = UNDEF
      /\ putnodes = <<>> /\ step = 0 /\ fsNode = fs
  BY Zenon DEF Init
<1>2. OwnLast(transferSP, putnodes) /\ Fits(syncNode, transferSP) /\ TransferOK(Nodes, nextId, transferSP)
      /\ putnodes \in Seq(Request) /\ transferSP \in Transfers
  BY <1>1, NoTransfer
<1>3. CASE fs = UNDEF /\ cloud = {} /\ syncNode = UNDEF
  BY <1>1, <1>2, <1>3 DEF Inv, Types, HandlesOK, NodeOK, Nodes, LocalNodes
<1>4. ASSUME NEW fp \in Fp, fs = [fp |-> fp, fsid |-> 1], cloud = {[fp |-> fp, handle |-> 2]},
             syncNode = [fsid |-> 1, handle |-> 2, fp |-> fp, deleteCount |-> 0, deletedFS |-> FALSE]
      PROVE  Inv
  <2>1. fs \in File /\ cloud \subseteq CloudNode /\ syncNode \in LocalNode
    BY <1>4 DEF File, CloudNode, LocalNode
  <2>2. Nodes = cloud /\ HandlesOK(Nodes, nextId) /\ NodeOK(Nodes, nextId, syncNode)
    BY <1>1, <1>4 DEF Nodes, HandlesOK, NodeOK, Means
  <2> QED
    BY <1>1, <1>2, <2>1, <2>2 DEF Inv, Types, LocalNodes
<1> QED
  BY Zenon, <1>3, <1>4, FpAssumption DEF Init

\* Every step keeps the invariant.
LEMMA NextInv == Inv /\ [Next]_vars => Inv'
<1> SUFFICES ASSUME Inv, [Next]_vars PROVE Inv'
  OBVIOUS
<1>1. ASSUME UNCHANGED vars PROVE Inv'
  BY <1>1 DEF vars, Inv, Types, Nodes
<1> QED
  BY Zenon, <1>1, UsersStep, DebrisStep, UploadStartsStep, TransferEndsStep, PutnodesAppliedStep,
     CheckMovesStep, SyncItemStep DEF Next, RemovalStep

-----------------------------------------------------------------------------
(* What a pass does to the file on disk.                                   *)

HasFs(r, f) == DOMAIN r = {"fs", "fsNode", "kept", "syncNode", "transferSP"} /\ r.fs = f

\* A pass that ends with such a row leaves the disk as the row says.
LEMMA EndsWithFs ==
    ASSUME NEW r, NEW f, HasFs(r, f), NEW x, NEW y
    PROVE  /\ HasFs([r EXCEPT !.syncNode = x], f)
           /\ HasFs([r EXCEPT !.transferSP = x], f)
           /\ HasFs([r EXCEPT !.syncNode = x, !.transferSP = y], f)
           /\ Ends(r) => fs' = f
BY Zenon DEF HasFs, Ends

\* Transfers that start or end leave the disk alone.
LEMMA UpsyncLeavesDisk ==
    ASSUME NEW r, NEW f, HasFs(r, f), resolve_upsync(r)
    PROVE  fs' = f
BY ZenonT(30), EndsWithFs DEF resolve_upsync

\* So does resolve_downsync(): the file is replaced when the download is complete.
LEMMA DownsyncLeavesDisk ==
    ASSUME NEW r, NEW f, HasFs(r, f), resolve_downsync(r)
    PROVE  fs' = f
BY ZenonT(30), EndsWithFs DEF resolve_downsync

\* A row with all three leaves the disk alone,
LEMMA AllThreeLeavesDisk ==
    ASSUME NEW r, NEW f, HasFs(r, f), AllThree(r)
    PROVE  fs' = f
<1>1. ASSUME resolve_rowMatched(r) PROVE fs' = f
  <2>1. \E x, y : Ends([r EXCEPT !.syncNode = x, !.transferSP = y])
    BY ZenonT(30), <1>1 DEF resolve_rowMatched, HasFs
  <2> QED
    BY ZenonT(30), <2>1, EndsWithFs
<1>2. ASSUME resolve_userIntervention(r) PROVE fs' = f
  BY ZenonT(30), <1>2, EndsWithFs DEF resolve_userIntervention
<1>3. \/ resolve_rowMatched(r) \/ resolve_upsync(r) \/ resolve_downsync(r)
      \/ \E x, y : Ends([r EXCEPT !.syncNode = x, !.transferSP = y])
      \/ resolve_userIntervention(r)
  BY ZenonT(30) DEF AllThree, HasFs
<1> QED
  BY ZenonT(30), <1>1, <1>2, <1>3, EndsWithFs, UpsyncLeavesDisk, DownsyncLeavesDisk

\* so does one without a file,
LEMMA NoFsNodeLeavesDisk ==
    ASSUME NEW r, NEW f, NEW sure, HasFs(r, f), NoFsNode(r, sure)
    PROVE  fs' = f
<1>1. \/ resolve_downsync(r) \/ Ends(r)
      \/ \E x : Ends([r EXCEPT !.syncNode = x])
      \/ \E x, y : Ends([r EXCEPT !.syncNode = x, !.transferSP = y])
  BY ZenonT(30) DEF NoFsNode, resolve_fsNodeGone, HasFs
<1> QED
  BY ZenonT(30), <1>1, EndsWithFs, DownsyncLeavesDisk

\* and so do the functions that make or delete a LocalNode.
LEMMA OthersLeaveDisk ==
    ASSUME NEW r, NEW f, NEW n, HasFs(r, f),
           \/ resolve_delSyncNode(r, n) \/ resolve_makeSyncNode_fromFS(r)
           \/ resolve_makeSyncNode_fromCloud(r) \/ resolve_userIntervention(r)
    PROVE  fs' = f
<1>1. \/ Ends(r)
      \/ \E x : Ends([r EXCEPT !.syncNode = x])
      \/ \E x : Ends([r EXCEPT !.transferSP = x])
      \/ \E x, y : Ends([r EXCEPT !.syncNode = x, !.transferSP = y])
  BY Zenon DEF resolve_delSyncNode, resolve_makeSyncNode_fromFS, resolve_makeSyncNode_fromCloud,
         resolve_userIntervention, HasFs
<1> QED
  BY ZenonT(30), <1>1, EndsWithFs

\* Only a file that was in sync goes to the debris.
LEMMA GoneWasSynced ==
    ASSUME NEW r, NEW f, NEW sure, HasFs(r, f), NoCloudNode(r, sure)
    PROVE  fs' = f \/ r.syncNode.fp = r.fsNode.fp
BY UpsyncLeavesDisk DEF NoCloudNode

\* A pass replaces the file by a download that may, or removes one that was in sync.
LEMMA SyncItemProtects ==
    ASSUME Inv, NEW sure \in BOOLEAN, SyncItem(sure), fs # UNDEF, fs' # fs, fs = fsNode
    PROVE  fs.fp = syncNode.fp \/ (IsDownload(transferSP) /\ transferSP.okToOverwrite = UNDEF)
<1> DEFINE r == Started(CheckDownloadCompletion)
<1>1. CASE DownloadArrives
  BY <1>1 DEF DownloadArrives, MayOverwrite, Inv, Fits
<1>2. CASE ~DownloadArrives
  <2>1. \/ CheckDownloadCompletion = Row
        \/ CheckDownloadCompletion = [Row EXCEPT !.transferSP = UNDEF]
    BY <1>2 DEF CheckDownloadCompletion
  <2> DEFINE d == CheckDownloadCompletion
  <2>2. HasFs(d, fs) /\ d.fsNode = fsNode /\ d.syncNode = syncNode
    BY <2>1 DEF HasFs, Row
  <2> HIDE DEF d
  <2>3. syncNode # UNDEF => syncNode \in LocalNode
    BY DEF Inv, Types, LocalNodes
  <2>4. HasFs(r, fs) /\ r.fsNode = fsNode /\ (syncNode # UNDEF => r.syncNode.fp = syncNode.fp)
    BY Zenon, <2>2, <2>3 DEF HasFs, Started, LocalNode, d
  <2>5. (r.syncNode # UNDEF) = (syncNode # UNDEF)
    BY Zenon, RowStarts
  <2>6. \/ UNCHANGED fs
        \/ AllThree(r) \/ NoFsNode(r, sure)
        \/ r.syncNode # UNDEF /\ NoCloudNode(r, sure)
        \/ resolve_delSyncNode(r, syncNode.deleteCount)
        \/ resolve_makeSyncNode_fromFS(r) \/ resolve_makeSyncNode_fromCloud(r)
        \/ resolve_userIntervention(r) \/ Ends(r)
    BY Zenon DEF SyncItem, Started
  <2> HIDE DEF r
  <2>7. r.syncNode # UNDEF /\ NoCloudNode(r, sure)
    BY ZenonT(30), <2>4, <2>6, AllThreeLeavesDisk, NoFsNodeLeavesDisk, OthersLeaveDisk, EndsWithFs
  <2>8. r.syncNode.fp = r.fsNode.fp
    BY <2>4, <2>7, GoneWasSynced
  <2> QED
    BY ZenonT(30), <2>4, <2>5, <2>7, <2>8
<1> QED
  BY Zenon, <1>1, <1>2

\* A file with changes that the scan saw leaves its place in a pass only if it held
\* what was last synced, whatever happened between the decision to download and the
\* pass that found the download complete, or if the download has nothing to compare.
THEOREM LocalChangesAreKept == Spec => LocalChangesStay
<1>1. Inv /\ [Next]_vars =>
        (step = 1 /\ step' = 0 /\ fs # UNDEF /\ fs' # fs /\ fs = fsNode =>
           \/ fs.fp = syncNode.fp
           \/ IsDownload(transferSP) /\ transferSP.okToOverwrite = UNDEF)
  <2> SUFFICES ASSUME Inv, [Next]_vars, step = 1, step' = 0, fs # UNDEF, fs' # fs, fs = fsNode
               PROVE  \/ fs.fp = syncNode.fp
                      \/ IsDownload(transferSP) /\ transferSP.okToOverwrite = UNDEF
    OBVIOUS
  <2>1. RemovalStep => step' = step
    BY RemovalSteps DEF RemovalGoesOn
  <2>2. \E sure \in BOOLEAN : SyncItem(sure)
    BY <2>1 DEF Next, vars, LocalWrite, LocalDelete, RemotePut, RemoteDelete, Scan, UploadStarts,
           UploadEnds, DownloadEnds, PutnodesApplied, PutnodesCompletes, RemovalStep,
           CheckMoves, rowVars, unchangedByClient
  <2> QED
    BY <2>2, SyncItemProtects
<1> QED
  BY <1>1, InitInv, NextInv, PTL DEF Spec, LocalChangesStay

(***************************************************************************)
(* No step of the sync, nor of the client for it, loses a version of the    *)
(* file, for any fingerprints, bounds and interleaving.  The heart of it    *)
(* are the records that the functions of a pass hand on: each of them has   *)
(* the file of the disk or keeps it.  A node that is removed is moved to    *)
(* the debris, or deleted after a copy; the copy is known to hold all that  *)
(* the delete takes, because handles grow and a node's older versions stay  *)
(* its own.                                                                 *)
(***************************************************************************)
OnDisk(f) == IF f = UNDEF THEN {} ELSE {f.fp}

\* The row r, on its way through a pass, has all that was on disk or in the debris.
Keeps(r) ==
    /\ DOMAIN r = {"fs", "fsNode", "kept", "syncNode", "transferSP"}
    /\ OnDisk(fs) \cup kept \subseteq OnDisk(r.fs) \cup r.kept
    /\ kept \subseteq r.kept

NoneLost == Present \subseteq Present' \cup Uncopied /\ kept \subseteq kept'

\* A pass may end with any such row.
LEMMA EndsKeeps ==
    ASSUME NEW r, Keeps(r), Ends(r), UNCHANGED <<cloud, versions>>
    PROVE  NoneLost
<1>1. Present = OnDisk(fs) \cup {n.fp : n \in cloud \cup versions} \cup kept
  BY DEF Present, OnDisk
<1>2. Present' = OnDisk(r.fs) \cup {n.fp : n \in cloud \cup versions} \cup r.kept /\ kept' = r.kept
  BY DEF Present, OnDisk, Ends
<1> QED
  BY Zenon, <1>1, <1>2 DEF Keeps, NoneLost

\* The functions of a pass change the other fields, and end with the row.
LEMMA OtherFields ==
    ASSUME NEW r, Keeps(r), NEW x, NEW y
    PROVE  /\ Keeps([r EXCEPT !.syncNode = x])
           /\ Keeps([r EXCEPT !.transferSP = x])
           /\ Keeps([r EXCEPT !.syncNode = x, !.transferSP = y])
BY DEF Keeps

\* syncItem_checkDownloadCompletion(): the file that a download replaces is kept.
LEMMA CompletionKeeps == Keeps(CheckDownloadCompletion)
<1>1. Keeps(Row)
  BY Zenon DEF Keeps, Row
<1>2. Keeps([Row EXCEPT !.transferSP = UNDEF])
  BY Zenon, <1>1, OtherFields
<1>3. Keeps(Distributed)
  BY Zenon DEF Keeps, Distributed, OnDisk
<1> QED
  BY Zenon, <1>1, <1>2, <1>3 DEF CheckDownloadCompletion

\* resolve_upsync() leaves the disk alone.
LEMMA UpsyncKeeps ==
    ASSUME NEW r, Keeps(r), UNCHANGED <<cloud, versions>>, resolve_upsync(r)
    PROVE  NoneLost
BY ZenonT(30), OtherFields, EndsKeeps DEF resolve_upsync

\* resolve_downsync() leaves the disk alone until the download is complete.
LEMMA DownsyncKeeps ==
    ASSUME NEW r, Keeps(r), UNCHANGED <<cloud, versions>>, resolve_downsync(r)
    PROVE  NoneLost
BY Zenon, OtherFields, EndsKeeps DEF resolve_downsync

\* resolve_cloudNodeGone(): the file that it removes is in the debris.
LEMMA CloudNodeGoneKeeps ==
    ASSUME NEW r, NEW sure, Keeps(r), UNCHANGED <<cloud, versions>>, resolve_cloudNodeGone(r, sure)
    PROVE  NoneLost
<1> DEFINE moved == [r EXCEPT !.fs = UNDEF, !.kept = @ \cup {r.fs.fp}, !.syncNode.deletedFS = TRUE]
<1>1. ASSUME r.fs # UNDEF PROVE Keeps(moved)
  BY <1>1 DEF Keeps, OnDisk
<1> HIDE DEF moved
<1>2. Ends(r) \/ (r.fs # UNDEF /\ Ends(moved))
  BY DEF resolve_cloudNodeGone, moved
<1> QED
  BY <1>1, <1>2, EndsKeeps

\* resolve_rowMatched() and what else syncItem() does with all three sides there.
LEMMA AllThreeKeeps ==
    ASSUME NEW r, Keeps(r), UNCHANGED <<cloud, versions>>, AllThree(r)
    PROVE  NoneLost
<1> DEFINE matched(x) == [r EXCEPT
             !.syncNode = [@ EXCEPT !.fsid = r.fsNode.fsid, !.fp = r.fsNode.fp,
                                    !.handle = cloudNode.handle],
             !.transferSP = IF x THEN UNDEF ELSE @]
           uploaded == [r EXCEPT
             !.syncNode = [@ EXCEPT !.handle = cloudNode.handle, !.fp = cloudNode.fp],
             !.transferSP = UNDEF]
<1>1. ASSUME NEW x PROVE Keeps(matched(x))
  BY ZenonT(30), OtherFields
<1>2. Keeps(uploaded)
  BY ZenonT(30), OtherFields
<1>3. ASSUME resolve_rowMatched(r) PROVE \E x : Ends(matched(x))
  BY ZenonT(30), <1>3 DEF resolve_rowMatched
<1>4. ASSUME resolve_userIntervention(r) PROVE NoneLost
  BY Zenon, <1>4, OtherFields, EndsKeeps DEF resolve_userIntervention
<1>5. \/ resolve_rowMatched(r) \/ resolve_upsync(r) \/ resolve_downsync(r)
      \/ Ends(uploaded) \/ resolve_userIntervention(r)
  BY DEF AllThree
<1> HIDE DEF matched, uploaded
<1> QED
  BY ZenonT(30), <1>1, <1>2, <1>3, <1>4, <1>5, EndsKeeps, UpsyncKeeps, DownsyncKeeps

\* syncItem() without a local file.
LEMMA NoFsNodeKeeps ==
    ASSUME NEW r, NEW sure, Keeps(r), UNCHANGED <<cloud, versions>>, NoFsNode(r, sure)
    PROVE  NoneLost
<1> DEFINE known == [r EXCEPT !.syncNode.handle = cloudNode.handle]
           uploaded == [r EXCEPT !.syncNode = [@ EXCEPT !.handle = cloudNode.handle,
                                    !.fp = cloudNode.fp, !.fsid = r.transferSP.sourceFsid],
                                 !.transferSP = UNDEF]
<1>1. Keeps(known)
  BY Zenon DEF Keeps
<1>2. Keeps(uploaded)
  BY Zenon, OtherFields
<1>3. Ends(known) \/ Ends(uploaded) \/ resolve_downsync(r) \/ resolve_fsNodeGone(r, sure)
  BY DEF NoFsNode
<1>4. ASSUME resolve_fsNodeGone(r, sure) PROVE Ends(r)
  BY <1>4 DEF resolve_fsNodeGone
<1> HIDE DEF known, uploaded
<1> QED
  BY ZenonT(30), <1>1, <1>2, <1>3, <1>4, EndsKeeps, DownsyncKeeps

\* resolve_delSyncNode() leaves the disk alone.
LEMMA DelSyncNodeKeeps ==
    ASSUME NEW r, NEW count, Keeps(r), UNCHANGED <<cloud, versions>>, resolve_delSyncNode(r, count)
    PROVE  NoneLost
<1> DEFINE counted == [r EXCEPT !.syncNode.deleteCount = 1]
           deleted == [r EXCEPT !.syncNode = UNDEF, !.transferSP = UNDEF]
<1>1. Keeps(counted)
  BY Zenon DEF Keeps
<1>2. Keeps(deleted)
  BY Zenon, OtherFields
<1>3. Ends(r) \/ Ends(counted) \/ Ends(deleted)
  BY DEF resolve_delSyncNode
<1> HIDE DEF counted, deleted
<1> QED
  BY ZenonT(30), <1>1, <1>2, <1>3, EndsKeeps

\* A pass over the row loses nothing.
LEMMA SyncItemKeeps ==
    ASSUME NEW sure \in BOOLEAN, SyncItem(sure)
    PROVE  NoneLost
<1> DEFINE d == CheckDownloadCompletion
           r == IF syncNode = UNDEF THEN d ELSE [d EXCEPT !.syncNode.deleteCount = 0]
<1>1. UNCHANGED <<cloud, versions>>
  BY DEF SyncItem
<1>2. Keeps(r)
  <2>1. Keeps(d)
    BY CompletionKeeps
  <2> HIDE DEF d
  <2>2. Keeps([d EXCEPT !.syncNode.deleteCount = 0])
    BY <2>1 DEF Keeps
  <2> QED
    BY <2>1, <2>2
<1>3. \/ UNCHANGED <<fs, kept>>
      \/ AllThree(r) \/ NoCloudNode(r, sure) \/ NoFsNode(r, sure)
      \/ resolve_delSyncNode(r, syncNode.deleteCount)
      \/ resolve_makeSyncNode_fromFS(r) \/ resolve_makeSyncNode_fromCloud(r)
      \/ resolve_userIntervention(r) \/ Ends(r)
  BY DEF SyncItem
<1> HIDE DEF r
<1>4. ASSUME UNCHANGED <<fs, kept>> PROVE NoneLost
  BY Zenon, <1>1, <1>4 DEF NoneLost, Present
<1>5. ASSUME NoCloudNode(r, sure) PROVE NoneLost
  BY ZenonT(30), <1>1, <1>2, <1>5, CloudNodeGoneKeeps, UpsyncKeeps DEF NoCloudNode
<1>6. ASSUME \/ resolve_makeSyncNode_fromFS(r) \/ resolve_makeSyncNode_fromCloud(r)
             \/ resolve_userIntervention(r)
      PROVE  NoneLost
  BY ZenonT(30), <1>1, <1>2, <1>6, OtherFields, EndsKeeps
     DEF resolve_makeSyncNode_fromFS, resolve_makeSyncNode_fromCloud, resolve_userIntervention
<1> QED
  BY ZenonT(30), <1>1, <1>2, <1>3, <1>4, <1>5, <1>6, AllThreeKeeps, NoFsNodeKeeps, DelSyncNodeKeeps, EndsKeeps

-----------------------------------------------------------------------------
(* Nodes and their older versions.  What a copy to the debris took is what  *)
(* the delete that follows takes: nothing gets below a node in between.     *)

Fps(S) == {n.fp : n \in S}

Chain(C, V, h) ==
    {n \in C : n.handle = h} \cup
    {v \in V : v.of = h \/ \E w \in V : w.handle = h /\ v.of = w.of /\ v.handle <= h}

Relinked(V, old, h) ==
    LET handles == {n.handle : n \in old}
    IN  {[v EXCEPT !.of = IF @ \in handles THEN h ELSE @] : v \in V}
          \cup {[fp |-> n.fp, handle |-> n.handle, of |-> h] : n \in old}

\* Where a version comes from when a node id displaces the nodes old.
FromVersion(w, v, old, id) ==
    /\ w.fp = v.fp /\ w.handle = v.handle
    /\ w = [v EXCEPT !.of = IF @ \in {n.handle : n \in old} THEN id ELSE @]
    /\ w.of = IF \E n \in old : v.of = n.handle THEN id ELSE v.of

FromNode(w, n, id) ==
    /\ w = [fp |-> n.fp, handle |-> n.handle, of |-> id]
    /\ w.fp = n.fp /\ w.handle = n.handle /\ w.of = id

\* A handle is one node's or one version's, and a version is older than what it is of.
VersionsOK(C, V, id) ==
    /\ C \subseteq CloudNode /\ V \subseteq Version
    /\ \A n \in C : n.handle < id
    /\ \A v \in V : v.handle < v.of /\ v.of < id
    /\ \A m, n \in C : m.handle = n.handle => m = n
    /\ \A v, w \in V : v.handle = w.handle => v = w
    /\ \A n \in C, v \in V : n.handle # v.handle

\* Nodes that go take nothing else with them.
LEMMA VersionsGo ==
    ASSUME NEW C, NEW V, NEW C2, NEW V2, NEW id \in Nat, NEW id2 \in Nat, id <= id2,
           VersionsOK(C, V, id), C2 \subseteq C, V2 \subseteq V
    PROVE  /\ VersionsOK(C2, V2, id2)
           /\ \A h : Fps(Chain(C2, V2, h)) \subseteq Fps(Chain(C, V, h))
<1>1. VersionsOK(C2, V2, id2)
  <2>1. \A n \in C : n.handle \in Nat
    BY DEF VersionsOK, CloudNode
  <2>2. \A v \in V : v.of \in Nat
    BY DEF VersionsOK, Version
  <2>3. (\A n \in C2 : n.handle < id2) /\ \A v \in V2 : v.of < id2
    BY <2>1, <2>2 DEF VersionsOK
  <2> QED
    BY Zenon, <2>3 DEF VersionsOK
<1>2. \A h : Chain(C2, V2, h) \subseteq Chain(C, V, h)
  BY Zenon DEF Chain
<1> QED
  BY Zenon, <1>1, <1>2 DEF Fps

\* A version that is linked to a new node stays what it is.
LEMMA RelinkedVersion ==
    ASSUME NEW v \in Version, NEW H, NEW id \in Nat
    PROVE  LET w == [v EXCEPT !.of = IF @ \in H THEN id ELSE @]
           IN  /\ w \in Version /\ w.fp = v.fp /\ w.handle = v.handle
               /\ w.of = IF v.of \in H THEN id ELSE v.of
BY DEF Version

\* What Relinked() holds: the versions, linked anew, and the nodes that were displaced.
LEMMA RelinkedIs ==
    ASSUME NEW V, NEW old, NEW id \in Nat, V \subseteq Version, old \subseteq CloudNode
    PROVE  /\ Relinked(V, old, id) \subseteq Version
           /\ \A w \in Relinked(V, old, id) :
                (\E v \in V : FromVersion(w, v, old, id)) \/ (\E n \in old : FromNode(w, n, id))
           /\ Fps(V) \cup Fps(old) \subseteq Fps(Relinked(V, old, id))
<1> DEFINE H == {n.handle : n \in old}
           R(v) == [v EXCEPT !.of = IF @ \in H THEN id ELSE @]
           D(n) == [fp |-> n.fp, handle |-> n.handle, of |-> id]
<1>1. \A v \in V : /\ R(v) \in Version /\ R(v).fp = v.fp /\ R(v).handle = v.handle
                   /\ R(v).of = IF v.of \in H THEN id ELSE v.of
  BY ZenonT(30), RelinkedVersion
<1>2. \A n \in old : D(n) \in Version /\ D(n).fp = n.fp /\ D(n).handle = n.handle /\ D(n).of = id
  BY DEF CloudNode, Version
<1>3. Relinked(V, old, id) = {R(v) : v \in V} \cup {D(n) : n \in old}
  BY DEF Relinked
<1>4. \A x : x \in H <=> \E n \in old : x = n.handle
  OBVIOUS
<1> HIDE DEF R, D, H
<1>5. Relinked(V, old, id) \subseteq Version
  BY Zenon, <1>1, <1>2, <1>3
<1>6. Fps(V) \cup Fps(old) \subseteq Fps(Relinked(V, old, id))
  <2>1. ASSUME NEW v \in V PROVE v.fp \in Fps(Relinked(V, old, id))
    <3>1. R(v) \in Relinked(V, old, id) /\ R(v).fp = v.fp
      BY Zenon, <1>1, <1>3
    <3> QED
      BY Zenon, <3>1 DEF Fps
  <2>2. ASSUME NEW n \in old PROVE n.fp \in Fps(Relinked(V, old, id))
    <3>1. D(n) \in Relinked(V, old, id) /\ D(n).fp = n.fp
      BY Zenon, <1>2, <1>3
    <3> QED
      BY Zenon, <3>1 DEF Fps
  <2> QED
    BY Zenon, <2>1, <2>2 DEF Fps
<1>7. ASSUME NEW v \in V PROVE FromVersion(R(v), v, old, id)
  <2>1. R(v) = [v EXCEPT !.of = IF @ \in {n.handle : n \in old} THEN id ELSE @]
    BY Zenon DEF R, H
  <2> QED
    BY Zenon, <1>1, <1>4, <2>1 DEF FromVersion
<1>8. ASSUME NEW n \in old PROVE FromNode(D(n), n, id)
  BY Zenon, <1>2 DEF D, FromNode
<1>9. ASSUME NEW w \in Relinked(V, old, id)
      PROVE  (\E v \in V : FromVersion(w, v, old, id)) \/ (\E n \in old : FromNode(w, n, id))
  BY Zenon, <1>3, <1>7, <1>8
<1> QED
  BY Zenon, <1>5, <1>6, <1>9

\* A node that displaces another one, or none, gets nothing below a node of before.
LEMMA VersionsRelinked ==
    ASSUME NEW C, NEW V, NEW id \in Nat, NEW fp \in Fp, NEW old, VersionsOK(C, V, id),
           old \subseteq C, \A m, n \in old : m = n,
           NEW C2, C2 = (C \ old) \cup {[fp |-> fp, handle |-> id]},
           NEW V2, V2 = Relinked(V, old, id)
    PROVE  /\ VersionsOK(C2, V2, id + 1)
           /\ \A h \in Nat : h < id => Fps(Chain(C2, V2, h)) \subseteq Fps(Chain(C, V, h))
<1> DEFINE new == [fp |-> fp, handle |-> id]
           FromV(w, v) == FromVersion(w, v, old, id)
           FromC(w, n) == FromNode(w, n, id)
<1>1. /\ V2 \subseteq Version
      /\ \A w \in V2 : (\E v \in V : FromV(w, v)) \/ (\E n \in old : FromC(w, n))
  <2>1. V \subseteq Version /\ old \subseteq CloudNode
    BY Zenon DEF VersionsOK
  <2> QED
    BY ZenonT(30), <2>1, RelinkedIs
<1>2. ASSUME NEW v \in V
      PROVE  v.handle \in Nat /\ v.of \in Nat /\ v.handle < v.of /\ v.of < id /\ v.handle < id
  <2>1. v.handle \in Nat /\ v.of \in Nat /\ v.handle < v.of /\ v.of < id
    BY DEF VersionsOK, Version
  <2> QED
    BY <2>1
<1>3. ASSUME NEW n \in C PROVE n \in CloudNode /\ n.handle \in Nat /\ n.handle < id
  BY DEF VersionsOK, CloudNode
<1>4. new \in CloudNode /\ new.handle = id
  BY DEF CloudNode
<1>5. \A n \in C2 : n = new \/ (n \in C /\ n \notin old)
  BY Zenon
<1>6. \A n \in old : n \in C
  BY Zenon
<1>7. /\ \A m, n \in C : m.handle = n.handle => m = n
      /\ \A v, w \in V : v.handle = w.handle => v = w
      /\ \A n \in C, v \in V : n.handle # v.handle
  BY Zenon DEF VersionsOK
<1>8. \A v, w, u : FromV(w, v) /\ FromV(u, v) => w = u
  BY Zenon DEF FromVersion
<1>9. \A n, w, u : FromC(w, n) /\ FromC(u, n) => w = u
  BY Zenon DEF FromNode
<1>10. \A w, v : FromV(w, v) => /\ w.fp = v.fp /\ w.handle = v.handle
                                /\ (\E n \in old : v.of = n.handle) => w.of = id
                                /\ ~(\E n \in old : v.of = n.handle) => w.of = v.of
  BY Zenon DEF FromVersion
<1>11. \A w, n : FromC(w, n) => w.fp = n.fp /\ w.handle = n.handle /\ w.of = id
  BY Zenon DEF FromNode
<1> HIDE DEF new, FromV, FromC
<1>12. VersionsOK(C2, V2, id + 1)
  <2>1. C2 \subseteq CloudNode /\ \A n \in C2 : n.handle < id + 1
    <3>1. ASSUME NEW n \in C2 PROVE n \in CloudNode /\ n.handle \in Nat /\ n.handle <= id
      BY <1>3, <1>4, <1>5, <3>1
    <3> QED
      BY <3>1
  <2>2. ASSUME NEW w \in V2 PROVE w.handle < w.of /\ w.of < id + 1
    <3>1. ASSUME NEW v \in V, FromV(w, v) PROVE w.handle < w.of /\ w.of < id + 1
      <4>1. w.handle = v.handle /\ (w.of = id \/ w.of = v.of)
        BY Zenon, <1>10, <3>1
      <4> QED
        BY <1>2, <4>1
    <3>2. ASSUME NEW n \in old, FromC(w, n) PROVE w.handle < w.of /\ w.of < id + 1
      BY <1>3, <1>6, <1>11, <3>2
    <3> QED
      BY Zenon, <1>1, <3>1, <3>2
  <2>3. ASSUME NEW m \in C2, NEW n \in C2, m.handle = n.handle PROVE m = n
    <3>1. \A k \in C : k.handle # id
      BY <1>3
    <3> QED
      BY Zenon, <1>4, <1>5, <1>7, <2>3, <3>1
  <2>4. ASSUME NEW v \in V2, NEW w \in V2, v.handle = w.handle PROVE v = w
    <3>1. ASSUME NEW a \in V, FromV(v, a), NEW b \in V, FromV(w, b) PROVE v = w
      <4>1. v.handle = a.handle /\ w.handle = b.handle
        BY Zenon, <1>10, <3>1
      <4>2. a = b
        BY ZenonT(30), <1>7, <2>4, <4>1
      <4> QED
        BY Zenon, <1>8, <3>1, <4>2
    <3>2. ASSUME NEW a \in old, FromC(v, a), NEW b \in old, FromC(w, b) PROVE v = w
      <4>1. a = b
        BY Zenon
      <4> QED
        BY Zenon, <1>9, <3>2, <4>1
    <3>3. ASSUME NEW a \in V, NEW b \in old, NEW y, FromV(y, a), NEW z, FromC(z, b)
          PROVE  y.handle # z.handle
      <4>1. y.handle = a.handle /\ z.handle = b.handle /\ b \in C
        BY Zenon, <1>6, <1>10, <1>11, <3>3
      <4> QED
        BY ZenonT(30), <1>7, <4>1
    <3> QED
      BY Zenon, <1>1, <2>4, <3>1, <3>2, <3>3
  <2>5. ASSUME NEW n \in C2, NEW w \in V2, n.handle = w.handle PROVE FALSE
    <3>1. ASSUME NEW v \in V, FromV(w, v) PROVE FALSE
      <4>1. w.handle = v.handle /\ v.handle # id
        BY <1>2, <1>10, <3>1
      <4> QED
        BY Zenon, <1>4, <1>5, <1>7, <2>5, <4>1
    <3>2. ASSUME NEW m \in old, FromC(w, m) PROVE FALSE
      <4>1. w.handle = m.handle /\ m.handle # id /\ m \in C
        BY <1>3, <1>6, <1>11, <3>2
      <4> QED
        BY Zenon, <1>4, <1>5, <1>7, <2>5, <4>1
    <3> QED
      BY Zenon, <1>1, <3>1, <3>2
  <2> QED
    BY Zenon, <1>1, <2>1, <2>2, <2>3, <2>4, <2>5 DEF VersionsOK
<1>13. ASSUME NEW h \in Nat, h < id, NEW x \in Chain(C2, V2, h)
       PROVE  \E y \in Chain(C, V, h) : y.fp = x.fp
  <2>1. \A v \in V : v.of = h => v \in Chain(C, V, h)
    BY Zenon DEF Chain
  <2>2. \A v, w \in V : w.handle = h /\ v.of = w.of /\ v.handle <= h => v \in Chain(C, V, h)
    BY Zenon DEF Chain
  <2>3. \A n \in C : n.handle = h => n \in Chain(C, V, h)
    BY Zenon DEF Chain
  <2>4. CASE x \in C2 /\ x.handle = h
    <3>1. x # new
      BY <1>4, <1>13, <2>4
    <3> QED
      BY Zenon, <1>5, <2>3, <2>4, <3>1
  <2>5. CASE x \in V2 /\ x.of = h
    <3>1. x.of # id
      BY <1>13, <2>5
    <3> QED
      BY Zenon, <1>1, <1>10, <1>11, <2>1, <2>5, <3>1
  <2>6. ASSUME x \in V2, NEW w \in V2, w.handle = h, x.of = w.of, x.handle <= h
        PROVE  \E y \in Chain(C, V, h) : y.fp = x.fp
    <3>1. ASSUME NEW v \in V, FromV(x, v), NEW u \in V, FromV(w, u)
          PROVE  \E y \in Chain(C, V, h) : y.fp = x.fp
      <4>1. v.of # id /\ u.of # id
        BY <1>2
      <4>2. v.of = u.of
        <5>1. CASE \E n \in old : v.of = n.handle
          <6>1. w.of = id
            BY Zenon, <1>10, <2>6, <3>1, <5>1
          <6>2. \E n \in old : u.of = n.handle
            BY Zenon, <1>10, <3>1, <4>1, <6>1
          <6> QED
            BY Zenon, <5>1, <6>2
        <5>2. CASE ~(\E n \in old : v.of = n.handle)
          <6>1. x.of = v.of
            BY Zenon, <1>10, <3>1, <5>2
          <6>2. ~(\E n \in old : u.of = n.handle)
            BY Zenon, <1>10, <2>6, <3>1, <4>1, <6>1
          <6>3. w.of = u.of
            BY Zenon, <1>10, <3>1, <6>2
          <6> QED
            BY Zenon, <2>6, <6>1, <6>3
        <5> QED
          BY Zenon, <5>1, <5>2
      <4>3. u.handle = h /\ v.handle <= h
        BY Zenon, <1>10, <2>6, <3>1
      <4> QED
        BY Zenon, <1>10, <2>2, <3>1, <4>2, <4>3
    <3>2. ASSUME NEW n \in old, FromC(x, n), NEW u \in V, FromV(w, u) PROVE FALSE
      <4>1. u.of # id /\ w.of = id
        BY <1>2, <1>11, <2>6, <3>2
      <4>2. u.of = n.handle
        BY Zenon, <1>10, <3>2, <4>1
      <4>3. n.handle = x.handle /\ u.handle = h
        BY Zenon, <1>10, <1>11, <2>6, <3>2
      <4> QED
        BY <1>2, <2>6, <4>2, <4>3
    <3>3. ASSUME NEW v \in V, FromV(x, v), NEW n \in old, FromC(w, n)
          PROVE  \E y \in Chain(C, V, h) : y.fp = x.fp
      <4>1. v.of # id /\ x.of = id
        BY <1>2, <1>11, <2>6, <3>3
      <4>2. PICK m \in old : v.of = m.handle
        BY Zenon, <1>10, <3>3, <4>1
      <4>3. m = n /\ w.handle = n.handle
        BY Zenon, <1>11, <3>3
      <4>4. v.of = h
        BY Zenon, <2>6, <4>2, <4>3
      <4> QED
        BY Zenon, <1>10, <2>1, <3>3, <4>4
    <3>4. ASSUME NEW n \in old, FromC(x, n), NEW m \in old, FromC(w, m)
          PROVE  \E y \in Chain(C, V, h) : y.fp = x.fp
      BY Zenon, <1>6, <1>11, <2>3, <2>6, <3>4
    <3> QED
      BY Zenon, <1>1, <2>6, <3>1, <3>2, <3>3, <3>4
  <2> QED
    BY Zenon, <1>13, <2>4, <2>5, <2>6 DEF Chain
<1>14. ASSUME NEW h \in Nat, h < id, NEW f \in Fps(Chain(C2, V2, h))
       PROVE  f \in Fps(Chain(C, V, h))
  <2>1. PICK x \in Chain(C2, V2, h) : f = x.fp
    BY Zenon DEF Fps
  <2>2. PICK y \in Chain(C, V, h) : y.fp = x.fp
    BY Zenon, <1>13, <1>14
  <2> QED
    BY Zenon, <2>1, <2>2 DEF Fps
<1> QED
  BY Zenon, <1>12, <1>14

\* What the proof of NothingLost needs to know of versions and copies: when the copy
\* of an in-share's node is answered, all that unlink() will take is in the debris.
Copied ==
    /\ VersionsOK(cloud, versions, nextId)
    /\ removeNodeHere # UNDEF => DOMAIN removeNodeHere = {"handle", "state"}
    /\ Removal = "copied" =>
         /\ removeNodeHere.handle \in Nat /\ removeNodeHere.handle < nextId
         /\ Fps(NodeAndOlder(removeNodeHere.handle)) \subseteq kept

\* The copy stays what it was in a step that does not end the removal.
LEMMA CopyStays ==
    ASSUME Copied, nextId \in Nat, nextId' \in Nat, nextId <= nextId', kept \subseteq kept',
           VersionsOK(cloud', versions', nextId'),
           \A h \in Nat : h < nextId =>
             Fps(Chain(cloud', versions', h)) \subseteq Fps(Chain(cloud, versions, h)),
           removeNodeHere' # UNDEF => DOMAIN removeNodeHere' = {"handle", "state"},
           Removal' = "copied" => removeNodeHere' = removeNodeHere
    PROVE  Copied'
<1> DEFINE h == removeNodeHere.handle
<1>1. ASSUME Removal' = "copied" PROVE removeNodeHere' = removeNodeHere /\ Removal = "copied"
  BY Zenon, <1>1 DEF Removal
<1>2. ASSUME Removal' = "copied"
      PROVE  /\ h \in Nat /\ h < nextId' /\ h < nextId
             /\ Fps(Chain(cloud, versions, h)) \subseteq kept
  <2>1. h \in Nat /\ h < nextId /\ Fps(NodeAndOlder(h)) \subseteq kept
    BY Zenon, <1>1, <1>2 DEF Copied
  <2>2. NodeAndOlder(h) = Chain(cloud, versions, h)
    BY Zenon DEF NodeAndOlder, Chain
  <2>3. \A a, b, c \in Nat : a < b /\ b <= c => a < c
    OBVIOUS
  <2> QED
    BY Zenon, <2>1, <2>2, <2>3
<1>3. NodeAndOlder(h)' = Chain(cloud', versions', h')
  BY Zenon DEF NodeAndOlder, Chain
<1>4. ASSUME Removal' = "copied" PROVE h' = h /\ Fps(NodeAndOlder(h)') \subseteq kept'
  <2>1. h' = h
    BY Zenon, <1>1, <1>4
  <2>2. Fps(Chain(cloud', versions', h)) \subseteq Fps(Chain(cloud, versions, h))
    BY Zenon, <1>2, <1>4
  <2> QED
    BY Zenon, <1>2, <1>3, <1>4, <2>1, <2>2
<1>5. ASSUME Removal' = "copied"
      PROVE /\ removeNodeHere.handle' \in Nat /\ removeNodeHere.handle' < nextId'
            /\ Fps(NodeAndOlder(removeNodeHere.handle))' \subseteq kept'
  BY Zenon, <1>1, <1>2, <1>4, <1>5 DEF Fps
<1> QED
  BY Zenon, <1>5 DEF Copied

\* Steps that leave the nodes alone, or take nodes away.
LEMMA CopyStaysAsNodesGo ==
    ASSUME Copied, nextId \in Nat, nextId' \in {nextId, nextId + 1}, kept \subseteq kept',
           cloud' \subseteq cloud, versions' \subseteq versions,
           removeNodeHere' # UNDEF => DOMAIN removeNodeHere' = {"handle", "state"},
           Removal' = "copied" => removeNodeHere' = removeNodeHere
    PROVE  Copied'
<1>1. nextId' \in Nat /\ nextId <= nextId'
  OBVIOUS
<1>2. /\ VersionsOK(cloud', versions', nextId')
      /\ \A h : Fps(Chain(cloud', versions', h)) \subseteq Fps(Chain(cloud, versions, h))
  BY ZenonT(30), <1>1, VersionsGo DEF Copied
<1> QED
  BY ZenonT(30), <1>1, <1>2, CopyStays

\* putnodes over a node, by the sync or by another client.
LEMMA CopyStaysAsNodesCome ==
    ASSUME Copied, nextId \in Nat, NEW fp \in Fp, NEW old, old \subseteq cloud,
           \A m, n \in old : m = n, nextId' = nextId + 1, kept \subseteq kept',
           cloud' = (cloud \ old) \cup {[fp |-> fp, handle |-> nextId]},
           versions' = Displaced(old, nextId), UNCHANGED removeNodeHere
    PROVE  Copied'
<1>1. nextId' \in Nat /\ nextId <= nextId'
  OBVIOUS
<1>2. versions' = Relinked(versions, old, nextId)
  BY Zenon DEF Displaced, Relinked
<1>3. VersionsOK(cloud, versions, nextId)
  BY Zenon DEF Copied
<1>4. /\ VersionsOK(cloud', versions', nextId + 1)
      /\ \A h \in Nat : h < nextId =>
            Fps(Chain(cloud', versions', h)) \subseteq Fps(Chain(cloud, versions, h))
  <2> DEFINE C == cloud  V == versions  C2 == cloud'  V2 == versions'  id == nextId
  <2>1. /\ VersionsOK(C, V, id) /\ id \in Nat /\ old \subseteq C /\ V2 = Relinked(V, old, id)
        /\ C2 = (C \ old) \cup {[fp |-> fp, handle |-> id]} /\ \A m, n \in old : m = n
    BY Zenon, <1>2, <1>3
  <2> HIDE DEF C, V, C2, V2, id
  <2>2. /\ VersionsOK(C2, V2, id + 1)
        /\ \A h \in Nat : h < id => Fps(Chain(C2, V2, h)) \subseteq Fps(Chain(C, V, h))
    BY SMTT(30), <2>1, VersionsRelinked
  <2> QED
    BY Zenon, <2>2 DEF C, V, C2, V2, id
<1>5. removeNodeHere' # UNDEF => DOMAIN removeNodeHere' = {"handle", "state"}
  BY Zenon DEF Copied
<1> QED
  BY ZenonT(30), <1>1, <1>4, <1>5, CopyStays

\* putnodes over a node makes the node a version of the new one.
LEMMA PutnodesKeeps ==
    ASSUME Inv, Copied, PutnodesApplied
    PROVE  NoneLost /\ Copied'
<1> DEFINE old == {n \in cloud : n.handle = Head(putnodes).ov}
           new == [fp |-> Head(putnodes).fp, handle |-> nextId]
<1>1. UNCHANGED <<fs, kept, removeNodeHere>> /\ putnodes # <<>>
  BY Zenon DEF PutnodesApplied, unchangedByClient
<1>2. /\ nextId \in Nat /\ Head(putnodes).fp \in Fp
      /\ versions \subseteq Version /\ old \subseteq CloudNode /\ old \subseteq cloud
  <2>1. nextId \in Nat /\ putnodes \in Seq(Request) /\ cloud \subseteq CloudNode
    BY Zenon DEF Inv, Types
  <2>2. Head(putnodes) \in Request
    BY <1>1, <2>1
  <2> QED
    BY Zenon, <2>1, <2>2 DEF Copied, VersionsOK, Request
<1>3. \A m, n \in old : m = n
  <2>1. \A m, n \in cloud : m.handle = n.handle => m = n
    BY Zenon DEF Copied, VersionsOK
  <2> QED
    BY Zenon, <2>1
<1>4. \/ /\ cloud' = (cloud \ old) \cup {new} /\ versions' = Displaced(old, nextId)
         /\ nextId' = nextId + 1
      \/ UNCHANGED <<cloud, versions, nextId>>
  BY Zenon DEF PutnodesApplied
<1>5. Fps(versions) \cup Fps(old) \subseteq Fps(Displaced(old, nextId))
  <2>1. Displaced(old, nextId) = Relinked(versions, old, nextId)
    BY Zenon DEF Displaced, Relinked
  <2> QED
    BY Zenon, <1>2, <2>1, RelinkedIs
<1> HIDE DEF old
<1>6. ASSUME UNCHANGED <<cloud, versions, nextId>> PROVE NoneLost /\ Copied'
  <2>1. NoneLost
    BY Zenon, <1>1, <1>6 DEF NoneLost, Present
  <2>2. removeNodeHere' # UNDEF => DOMAIN removeNodeHere' = {"handle", "state"}
    BY Zenon, <1>1 DEF Copied
  <2>3. nextId' \in {nextId, nextId + 1} /\ cloud' \subseteq cloud /\ versions' \subseteq versions
        /\ kept \subseteq kept'
    BY Zenon, <1>1, <1>6
  <2> QED
    BY Zenon, <1>1, <1>2, <2>1, <2>2, <2>3, CopyStaysAsNodesGo
<1>7. ASSUME cloud' = (cloud \ old) \cup {new}, versions' = Displaced(old, nextId),
             nextId' = nextId + 1
      PROVE  NoneLost /\ Copied'
  <2>1. Fps(cloud \cup versions) \subseteq Fps(cloud' \cup versions')
    <3>1. ASSUME NEW n \in cloud \cup versions PROVE n.fp \in Fps(cloud' \cup versions')
      <4>1. n \in versions \cup old => n.fp \in Fps(versions) \cup Fps(old)
        BY Zenon DEF Fps
      <4>2. n \notin versions \cup old => n \in cloud'
        BY Zenon, <1>7, <3>1
      <4>3. n \in versions \cup old => n.fp \in Fps(versions')
        BY Zenon, <1>5, <1>7, <4>1
      <4>4. Fps(versions') \subseteq Fps(cloud' \cup versions')
        BY Zenon DEF Fps
      <4>5. n \in cloud' => n.fp \in Fps(cloud' \cup versions')
        BY Zenon DEF Fps
      <4> QED
        BY Zenon, <4>2, <4>3, <4>4, <4>5
    <3> QED
      BY Zenon, <3>1 DEF Fps
  <2>2. NoneLost
    BY Zenon, <1>1, <2>1 DEF NoneLost, Present, Fps
  <2>3. kept \subseteq kept'
    BY Zenon, <1>1
  <2> QED
    BY Zenon, <1>1, <1>2, <1>3, <1>7, <2>2, <2>3, CopyStaysAsNodesCome
<1> QED
  BY Zenon, <1>4, <1>6, <1>7

\* Nodes and versions that go are in the debris, or could not be copied there.
LEMMA GoneIsKept ==
    ASSUME NEW gone, cloud \subseteq cloud' \cup gone, versions \subseteq versions' \cup gone,
           UNCHANGED fs, kept \subseteq kept', Fps(gone) \subseteq kept' \cup Uncopied
    PROVE  NoneLost
<1>1. Fps(cloud \cup versions) \subseteq Fps(cloud' \cup versions') \cup Fps(gone)
  BY Zenon DEF Fps
<1> QED
  BY Zenon, <1>1 DEF NoneLost, Present, Fps

\* The steps of a removal lose nothing but what could not be copied.
LEMMA DebrisKeepsPresent ==
    ASSUME Copied, RemovalStep
    PROVE  NoneLost
<1> DEFINE gone == NodeAndOlder(removeNodeHere.handle)
<1>1. UNCHANGED fs /\ kept \subseteq kept'
  BY Zenon, RemovalSteps DEF RemovalGoesOn
<1>2. ASSUME UNCHANGED <<cloud, versions>> PROVE NoneLost
  <2>1. Fps({}) \subseteq kept' \cup Uncopied
    BY Zenon DEF Fps
  <2> QED
    BY Zenon, <1>1, <1>2, <2>1, GoneIsKept
<1>3. ASSUME cloud' = cloud \ gone, versions' = versions \ gone, Fps(gone) \subseteq kept' \cup Uncopied
      PROVE  NoneLost
  <2>1. cloud \subseteq cloud' \cup gone /\ versions \subseteq versions' \cup gone
    BY Zenon, <1>3
  <2> HIDE DEF gone
  <2> QED
    BY Zenon, <1>1, <1>3, <2>1, GoneIsKept
<1>4. ASSUME QueuedRemoval \/ AnotherRowRemoves \/ CopyToSyncDebris PROVE NoneLost
  BY Zenon, <1>2, <1>4 DEF QueuedRemoval, AnotherRowRemoves, CopyToSyncDebris
<1>5. ASSUME MoveToSyncDebris PROVE NoneLost
  <2>1. \/ UNCHANGED <<cloud, versions>>
        \/ /\ cloud' = cloud \ gone /\ versions' = versions \ gone
           /\ kept' = kept \cup {n.fp : n \in gone}
    BY Zenon, <1>5 DEF MoveToSyncDebris
  <2> QED
    BY Zenon, <1>2, <1>3, <2>1 DEF Fps
<1>6. ASSUME UnlinkCopied PROVE NoneLost
  <2>1. UNCHANGED <<cloud, versions>> \/ (cloud' = cloud \ gone /\ versions' = versions \ gone)
    BY Zenon, <1>6 DEF UnlinkCopied
  <2>2. Removal = "copied" => Fps(gone) \subseteq kept
    BY Zenon DEF Copied
  <2>3. Removal = "uncopied" => Fps(gone) \subseteq Uncopied
    BY Zenon DEF Uncopied, Fps
  <2>4. Fps(gone) \subseteq kept' \cup Uncopied
    BY Zenon, <1>1, <1>6, <2>2, <2>3 DEF UnlinkCopied
  <2> QED
    BY Zenon, <1>2, <1>3, <2>1, <2>4
<1> QED
  BY Zenon, <1>4, <1>5, <1>6 DEF RemovalStep

\* A removal that reaches a state is the same removal.
LEMMA SameRemoval ==
    ASSUME DOMAIN removeNodeHere = {"handle", "state"}, NEW s, RemovalBecomes(s)
    PROVE  /\ DOMAIN removeNodeHere' = {"handle", "state"}
           /\ Removal' \in {"none", s} /\ removeNodeHere'.handle = removeNodeHere.handle
<1>1. removeNodeHere' = [removeNodeHere EXCEPT !.state = s]
  BY Zenon DEF RemovalBecomes
<1>2. /\ DOMAIN removeNodeHere' = {"handle", "state"} /\ removeNodeHere'.state = s
      /\ removeNodeHere'.handle = removeNodeHere.handle
  BY <1>1
<1> QED
  BY Zenon, <1>2 DEF Removal

\* Only an answer of the copy makes the removal a copied one.
LEMMA DebrisKeeps ==
    ASSUME Inv, Copied, RemovalStep
    PROVE  NoneLost /\ Copied'
<1>1. /\ nextId \in Nat /\ nextId' = nextId /\ removeNodeHere # UNDEF
      /\ kept \subseteq kept' /\ cloud' \subseteq cloud /\ versions' \subseteq versions
      /\ DOMAIN removeNodeHere = {"handle", "state"}
  BY Zenon, RemovalSteps DEF RemovalGoesOn, Inv, Types, Copied
<1>2. ASSUME NEW s, s # "copied", RemovalBecomes(s) PROVE Copied'
  <2>1. DOMAIN removeNodeHere' = {"handle", "state"} /\ Removal' # "copied"
    <3>1. DOMAIN removeNodeHere' = {"handle", "state"} /\ Removal' \in {"none", s}
      BY Zenon, <1>1, <1>2, SameRemoval
    <3> QED
      BY <1>2, <3>1
  <2>2. nextId' \in {nextId, nextId + 1}
    BY Zenon, <1>1
  <2> QED
    BY Zenon, <1>1, <2>1, <2>2, CopyStaysAsNodesGo
<1>3. ASSUME RemovalBecomes("copied"), CopyToSyncDebris PROVE Copied'
  <2> DEFINE h == removeNodeHere.handle
  <2>1. /\ UNCHANGED <<cloud, versions>> /\ Known(h)
        /\ kept' = kept \cup {n.fp : n \in NodeAndOlder(h)}
    <3>1. ASSUME NEW t, t # "copied" PROVE ~RemovalBecomes(t)
      <4>1. [removeNodeHere EXCEPT !.state = "copied"].state = "copied"
        BY <1>1
      <4>2. [removeNodeHere EXCEPT !.state = t].state = t
        BY <1>1
      <4> QED
        BY Zenon, <1>3, <3>1, <4>1, <4>2 DEF RemovalBecomes
    <3>2. "uncopied" # "copied" /\ "failed" # "copied"
      OBVIOUS
    <3>3. ~RemovalBecomes("uncopied") /\ ~RemovalBecomes("failed")
      BY Zenon, <3>1, <3>2
    <3> QED
      BY Zenon, <1>3, <3>3 DEF CopyToSyncDebris, RemovalFails
  <2>2. h \in Nat /\ h < nextId
    <3>1. \A n \in cloud \cup versions : n.handle \in Nat /\ n.handle < nextId
      <4>1. \A n \in cloud : n.handle \in Nat /\ n.handle < nextId
        BY DEF Copied, VersionsOK, CloudNode
      <4>2. \A v \in versions : v.handle \in Nat /\ v.of \in Nat /\ v.handle < v.of /\ v.of < nextId
        BY DEF Copied, VersionsOK, Version
      <4>3. \A v \in versions : v.handle \in Nat /\ v.handle < nextId
        BY <1>1, <4>2
      <4> QED
        BY Zenon, <4>1, <4>3
    <3> QED
      BY Zenon, <2>1, <3>1 DEF Known
  <2>3. DOMAIN removeNodeHere' = {"handle", "state"} /\ removeNodeHere'.handle = h
    BY Zenon, <1>1, <1>3, SameRemoval
  <2>4. NodeAndOlder(removeNodeHere.handle)' = NodeAndOlder(h)
    BY Zenon, <2>1, <2>3 DEF NodeAndOlder
  <2>5. VersionsOK(cloud', versions', nextId')
    BY Zenon, <1>1, <2>1 DEF Copied
  <2>6. Fps(NodeAndOlder(removeNodeHere.handle))' \subseteq kept'
    BY Zenon, <2>1, <2>4 DEF Fps
  <2>7. removeNodeHere.handle' \in Nat /\ removeNodeHere.handle' < nextId'
    BY Zenon, <1>1, <2>2, <2>3
  <2> QED
    BY Zenon, <2>3, <2>5, <2>6, <2>7 DEF Copied
<1>4. \/ \E s \in {"abandoned", "pending", "stranded", "failed", "succeeded", "copying", "uncopied"} :
            RemovalBecomes(s)
      \/ RemovalBecomes("copied") /\ CopyToSyncDebris
  BY DEF RemovalStep, QueuedRemoval, MoveToSyncDebris, AnotherRowRemoves, CopyToSyncDebris,
         UnlinkCopied, RemovalFails
<1>5. \A s \in {"abandoned", "pending", "stranded", "failed", "succeeded", "copying", "uncopied"} :
        s # "copied"
  OBVIOUS
<1> QED
  BY Zenon, <1>2, <1>3, <1>4, <1>5, DebrisKeepsPresent

\* A pass may start a removal or end one, and takes at most one fsid.
Passes ==
    /\ nextId' \in {nextId, nextId + 1}
    /\ \/ removeNodeHere' \in {removeNodeHere, UNDEF}
       \/ \E h : removeNodeHere' = [handle |-> h, state |-> "queued"]

\* The functions that start no removal.
LEMMA NoRequestsPasses ==
    ASSUME NEW r, Ends(r), UNCHANGED removeNodeHere \/ removeNodeHere' = UNDEF
    PROVE  Passes
BY Zenon DEF Ends, Passes

\* resolve_upsync() and resolve_downsync().
LEMMA TransferPasses ==
    ASSUME NEW r, resolve_upsync(r) \/ resolve_downsync(r)
    PROVE  Passes
<1>1. (\E e : Ends(e)) /\ UNCHANGED removeNodeHere
  BY ZenonT(30) DEF resolve_upsync, resolve_downsync, NoRequests
<1> QED
  BY Zenon, <1>1, NoRequestsPasses

\* resolve_fsNodeGone() is the one that starts a removal.
LEMMA FsNodeGonePasses ==
    ASSUME NEW r, NEW sure, resolve_fsNodeGone(r, sure)
    PROVE  Passes
BY Zenon DEF resolve_fsNodeGone, Ends, Passes

\* The others of syncItem().
LEMMA SyncItemPasses ==
    ASSUME NEW sure \in BOOLEAN, SyncItem(sure)
    PROVE  Passes
<1> DEFINE d == CheckDownloadCompletion
           r == IF syncNode = UNDEF THEN d ELSE [d EXCEPT !.syncNode.deleteCount = 0]
<1>1. \/ UNCHANGED <<nextId, removeNodeHere>>
      \/ AllThree(r) \/ NoCloudNode(r, sure) \/ NoFsNode(r, sure)
      \/ resolve_delSyncNode(r, syncNode.deleteCount)
      \/ resolve_makeSyncNode_fromFS(r) \/ resolve_makeSyncNode_fromCloud(r)
      \/ resolve_userIntervention(r) \/ (Ends(r) /\ NoRequests)
  BY DEF SyncItem, NoRequests
<1> HIDE DEF r
<1>2. ASSUME UNCHANGED <<nextId, removeNodeHere>> PROVE Passes
  BY Zenon, <1>2 DEF Passes
<1>3. ASSUME NEW e, Ends(e), NoRequests PROVE Passes
  BY Zenon, <1>3, NoRequestsPasses DEF NoRequests
<1>4. ASSUME \/ resolve_makeSyncNode_fromFS(r) \/ resolve_makeSyncNode_fromCloud(r)
             \/ resolve_userIntervention(r) \/ resolve_rowMatched(r)
      PROVE  Passes
  BY ZenonT(30), <1>3, <1>4 DEF resolve_makeSyncNode_fromFS, resolve_makeSyncNode_fromCloud,
     resolve_userIntervention, resolve_rowMatched
<1>5. ASSUME AllThree(r) PROVE Passes
  BY ZenonT(30), <1>3, <1>4, <1>5, TransferPasses DEF AllThree
<1>6. ASSUME NoCloudNode(r, sure) PROVE Passes
  BY ZenonT(30), <1>3, <1>6, TransferPasses DEF NoCloudNode, resolve_cloudNodeGone
<1>7. ASSUME NoFsNode(r, sure) PROVE Passes
  BY ZenonT(30), <1>3, <1>7, TransferPasses, FsNodeGonePasses DEF NoFsNode
<1>8. ASSUME resolve_delSyncNode(r, syncNode.deleteCount) PROVE Passes
  BY ZenonT(30), <1>8, NoRequestsPasses DEF resolve_delSyncNode
<1> QED
  BY Zenon, <1>1, <1>2, <1>3, <1>4, <1>5, <1>6, <1>7, <1>8

\* A removal that a pass starts is not a copied one yet.
LEMMA PassesCopied ==
    ASSUME Copied, nextId \in Nat, Passes, UNCHANGED <<cloud, versions>>, kept \subseteq kept'
    PROVE  Copied'
<1>1. \/ removeNodeHere' \in {removeNodeHere, UNDEF}
      \/ DOMAIN removeNodeHere' = {"handle", "state"} /\ removeNodeHere'.state = "queued"
  <2>1. ASSUME NEW h, removeNodeHere' = [handle |-> h, state |-> "queued"]
        PROVE  DOMAIN removeNodeHere' = {"handle", "state"} /\ removeNodeHere'.state = "queued"
    BY <2>1
  <2> QED
    BY Zenon, <2>1 DEF Passes
<1>2. "queued" # "copied" /\ "none" # "copied"
  OBVIOUS
<1>3. removeNodeHere' # UNDEF => DOMAIN removeNodeHere' = {"handle", "state"}
  BY Zenon, <1>1 DEF Copied
<1>4. Removal' = "copied" => removeNodeHere' = removeNodeHere
  BY Zenon, <1>1, <1>2 DEF Removal
<1>5. /\ nextId' \in {nextId, nextId + 1} /\ cloud' \subseteq cloud /\ versions' \subseteq versions
  BY Zenon DEF Passes
<1> QED
  BY Zenon, <1>3, <1>4, <1>5, CopyStaysAsNodesGo

UsedOK == used \in [{"local", "cloud", "fails"} -> Nat]

\* Only the users' actions count as theirs.
LEMMA UsersAreCounted ==
    ASSUME UsedOK, NEW what \in {"local", "cloud", "fails"}, NEW limit, Use(what, limit)
    PROVE  UsedOK' /\ used'[what] # used[what]
BY DEF UsedOK, Use

\* The users' steps, counted as theirs.
LEMMA UsersKeepCopied ==
    ASSUME UsedOK, Inv, Copied,
           \/ \E fp \in Fp, inPlace \in BOOLEAN : LocalWrite(fp, inPlace)
           \/ LocalDelete
           \/ \E fp \in Fp : RemotePut(fp)
           \/ \E n \in cloud : RemoteDelete(n)
    PROVE  /\ UsedOK' /\ Copied'
           /\ used'.local # used.local \/ used'.cloud # used.cloud
<1>1. nextId \in Nat /\ (removeNodeHere # UNDEF => DOMAIN removeNodeHere = {"handle", "state"})
  BY Zenon DEF Inv, Types, Copied
<1>2. ASSUME UNCHANGED <<cloud, versions, kept, removeNodeHere>>, nextId' \in {nextId, nextId + 1}
      PROVE  Copied'
  <2>1. Passes /\ kept \subseteq kept'
    BY Zenon, <1>2 DEF Passes
  <2> QED
    BY Zenon, <1>1, <1>2, <2>1, PassesCopied
<1>3. ASSUME NEW fp \in Fp, NEW inPlace \in BOOLEAN, LocalWrite(fp, inPlace)
      PROVE  UsedOK' /\ Copied' /\ used'.local # used.local
  <2>1. UNCHANGED <<cloud, versions, kept, removeNodeHere>> /\ nextId' \in {nextId, nextId + 1}
    BY Zenon, <1>3 DEF LocalWrite, rowVars
  <2> QED
    BY Zenon, <1>2, <1>3, <2>1, UsersAreCounted DEF LocalWrite
<1>4. ASSUME LocalDelete PROVE UsedOK' /\ Copied' /\ used'.local # used.local
  <2>1. UNCHANGED <<cloud, versions, kept, removeNodeHere>> /\ nextId' \in {nextId, nextId + 1}
    BY Zenon, <1>4 DEF LocalDelete, rowVars
  <2> QED
    BY Zenon, <1>2, <1>4, <2>1, UsersAreCounted DEF LocalDelete
<1>5. ASSUME NEW fp \in Fp, RemotePut(fp) PROVE UsedOK' /\ Copied' /\ used'.cloud # used.cloud
  <2>1. /\ cloud \subseteq cloud /\ (\A m, n \in cloud : m = n) /\ nextId' = nextId + 1
        /\ versions' = Displaced(cloud, nextId) /\ UNCHANGED <<kept, removeNodeHere>>
        /\ cloud' = {[fp |-> fp, handle |-> nextId]}
    BY Zenon, <1>5 DEF RemotePut, rowVars
  <2>2. cloud' = (cloud \ cloud) \cup {[fp |-> fp, handle |-> nextId]} /\ kept \subseteq kept'
    BY Zenon, <2>1
  <2>3. Copied'
    BY Zenon, <1>1, <2>1, <2>2, CopyStaysAsNodesCome
  <2> QED
    BY Zenon, <1>5, <2>3, UsersAreCounted DEF RemotePut
<1>6. ASSUME NEW n \in cloud, RemoteDelete(n)
      PROVE  UsedOK' /\ Copied' /\ used'.cloud # used.cloud
  <2>1. /\ cloud' \subseteq cloud /\ versions' \subseteq versions /\ kept \subseteq kept'
        /\ nextId' \in {nextId, nextId + 1} /\ UNCHANGED removeNodeHere
    BY Zenon, <1>6 DEF RemoteDelete, rowVars
  <2>2. Copied'
    BY Zenon, <1>1, <2>1, CopyStaysAsNodesGo
  <2> QED
    BY Zenon, <1>6, <2>2, UsersAreCounted DEF RemoteDelete
<1> QED
  BY Zenon, <1>3, <1>4, <1>5, <1>6

\* What a step is: the users', or one that loses nothing.
LEMMA StepKeeps ==
    ASSUME UsedOK, Inv, Copied, [Next]_vars
    PROVE  /\ UsedOK' /\ Copied'
           /\ used'.local = used.local /\ used'.cloud = used.cloud => NoneLost
<1> DEFINE OK == UsedOK' /\ Copied' /\ NoneLost
<1>1. nextId \in Nat
  BY Zenon DEF Inv, Types
<1>2. ASSUME UNCHANGED used \/ Use("fails", MaxFails) PROVE UsedOK'
  BY Zenon, <1>2, UsersAreCounted DEF UsedOK
<1>3. ASSUME \/ Scan \/ UploadStarts \/ UploadEnds \/ DownloadEnds \/ PutnodesCompletes
             \/ UNCHANGED vars
      PROVE  OK
  <2>1. /\ UNCHANGED <<fs, cloud, versions, kept, nextId, removeNodeHere>>
        /\ UNCHANGED used \/ Use("fails", MaxFails)
    BY ZenonT(30), <1>3 DEF Scan, UploadStarts, UploadEnds, DownloadEnds, PutnodesCompletes, vars,
       rowVars, unchangedByClient, unchangedByTransfer
  <2>2. NoneLost /\ Passes /\ kept \subseteq kept'
    BY Zenon, <2>1 DEF NoneLost, Present, Passes
  <2> QED
    BY Zenon, <1>1, <1>2, <2>1, <2>2, PassesCopied
<1>4. ASSUME CheckMoves PROVE OK
  <2>1. /\ UNCHANGED <<fs, cloud, versions, kept, nextId, used>>
        /\ removeNodeHere' \in {removeNodeHere, UNDEF}
    BY ZenonT(30), <1>4
       DEF CheckMoves, processCompletedUploadFromHere, checkForCompletedCloudMovedToDebris
  <2>2. NoneLost /\ Passes /\ kept \subseteq kept'
    BY Zenon, <2>1 DEF NoneLost, Present, Passes
  <2> QED
    BY Zenon, <1>1, <1>2, <2>1, <2>2, PassesCopied
<1>5. ASSUME NEW sure \in BOOLEAN, SyncItem(sure) PROVE OK
  <2>1. UNCHANGED <<cloud, versions, used>>
    BY ZenonT(30), <1>5 DEF SyncItem
  <2>2. NoneLost /\ Passes
    BY Zenon, <1>5, SyncItemKeeps, SyncItemPasses
  <2>3. kept \subseteq kept'
    BY Zenon, <2>2 DEF NoneLost
  <2> QED
    BY Zenon, <1>1, <1>2, <2>1, <2>2, <2>3, PassesCopied
<1>6. ASSUME PutnodesApplied PROVE OK
  <2>1. UNCHANGED used \/ Use("fails", MaxFails)
    BY Zenon, <1>6 DEF PutnodesApplied
  <2> QED
    BY Zenon, <1>2, <1>6, <2>1, PutnodesKeeps
<1>7. ASSUME RemovalStep PROVE OK
  BY Zenon, <1>2, <1>7, RemovalSteps, DebrisKeeps DEF RemovalGoesOn
<1> HIDE DEF OK
<1>8. \/ OK
      \/ \E fp \in Fp, inPlace \in BOOLEAN : LocalWrite(fp, inPlace)
      \/ LocalDelete
      \/ \E fp \in Fp : RemotePut(fp)
      \/ \E n \in cloud : RemoteDelete(n)
  BY Zenon, <1>3, <1>4, <1>5, <1>6, <1>7 DEF Next, RemovalStep
<1> QED
  BY Zenon, <1>8, UsersKeepCopied DEF OK

\* Whatever the sync and the client do, and in whichever order, no version of the
\* file vanishes that was on disk, in the cloud, in a debris folder or a version,
\* but the node of an in-share, with its older versions, whose copy to the debris
\* failed: execmovetosyncdebris() deletes it all the same.  A copy that succeeded
\* covers all that is deleted then, whatever other clients did in between.
THEOREM VersionsAreKept == Spec => NothingLost
<1>1. Init => UsedOK /\ Copied
  <2> SUFFICES ASSUME Init PROVE UsedOK /\ Copied
    OBVIOUS
  <2>1. UsedOK
    BY DEF Init, UsedOK
  <2>2. versions = {} /\ removeNodeHere = UNDEF /\ Removal = "none" /\ nextId = 3
    BY DEF Init, Removal
  <2>3. /\ cloud \subseteq CloudNode /\ (\A n \in cloud : n.handle < nextId)
        /\ \A m, n \in cloud : m.handle = n.handle => m = n
    <3>1. cloud = {} \/ \E fp \in Fp : cloud = {[fp |-> fp, handle |-> 2]}
      BY Zenon, FpAssumption DEF Init
    <3> QED
      BY <2>2, <3>1 DEF CloudNode
  <2>4. VersionsOK(cloud, versions, nextId)
    BY Zenon, <2>2, <2>3 DEF VersionsOK
  <2>5. Removal # "copied"
    BY <2>2
  <2> QED
    BY Zenon, <2>1, <2>2, <2>4, <2>5 DEF Copied
<1>2. UsedOK /\ Inv /\ Copied /\ [Next]_vars =>
        /\ UsedOK' /\ Copied'
        /\ used'.local = used.local /\ used'.cloud = used.cloud => Present \subseteq Present' \cup Uncopied
  BY Zenon, StepKeeps DEF NoneLost
<1> QED
  BY <1>1, <1>2, InitInv, NextInv, PTL DEF Spec, NothingLost

===========================================================================
