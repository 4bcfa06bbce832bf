---------------------------- MODULE ScTags_proofs ----------------------------
(***************************************************************************)
(* Proofs about sequence tags: results of cs commands are handed out in    *)
(* step with the action packets, the app is told of a tag when its packets *)
(* are applied, and the syncs see whole operations only.                   *)
(*                                                                         *)
(* They rest on where the tree ends.  It is complete up to Done, and shows *)
(* nothing beyond but perhaps the first packet of the next operation, and  *)
(* that only while the parser stands there or because a stream was cut     *)
(* there.  So a tag that has been read, and a result that is due, belong   *)
(* to an operation up to the next one; a result that waits belongs to a    *)
(* packet that has neither been applied nor been let through.              *)
(***************************************************************************)
EXTENDS ScChannel_proofs, ScParser

\* procsc(), or ScStreamingParser with an "isn" on every operation and no moves.
InScope == ~Streaming \/ (NoMoves /\ FALSE \notin IsnChoices)

\* A streaming client can store a sequence number after every operation.
IsnKnown == Streaming => \A i \in 1..Len(ops) : ops[i].isn

\* The last operation that has been read to its end.
Done ==
    CASE parser.stage = "a"  -> parser.op - 1
      [] parser.stage = "sn" -> pendingsc.upto
      [] OTHER -> scsn

\* Tree a shows nothing of the operations after n, but perhaps the first packet of
\* the next one.
Untouched(n, a) ==
    \A k \in Nat : /\ k > n => <<k, 2>> \notin a
                   /\ k > n + 1 => <<k, 1>> \notin a

\* Where the tree ends.  It ends inside an operation only while the parser does, or
\* when a stream was cut there.
Frontier ==
    scsn # NoSn =>
        /\ Untouched(Done, applied)
        /\ <<Done + 1, 1>> \in applied =>
              \/ parser.stage = "a" /\ parser.part = 2
              \/ /\ Streaming /\ Parts(ops[Done + 1].kind) = 2
                 /\ parser.stage \in {"idle", "a"}
                 /\ pendingsc.status = "answered" => Done + 1 <= pendingsc.upto
        /\ Streaming => scsn = Done
        /\ parser.stage = "eoo" => scsn = pendingsc.upto
        /\ Streaming /\ parser.stage = "a" /\ parser.part = 2 =>
              streaming.mInterimSn = parser.op

\* The same of the state cache.
Cached ==
    db.scsn # NoSn =>
        /\ Untouched(db.scsn, db.applied)
        /\ <<db.scsn + 1, 1>> \in db.applied => Streaming /\ Parts(ops[db.scsn + 1].kind) = 2

\* A commit is only due while an answer is being read.
PurgeLater == streaming.mNeedToPurge => Streaming /\ parser.stage # "idle"

\* What has been proved of the channel so far.
Ground == Bounds /\ Inv /\ IsnKnown

\* The ends of the trees.
Ends == Frontier /\ Cached /\ PurgeLater

\* Positions in the log, and the number before one.
LEMMA Positions ==
    /\ \A m, n, p : \A j \in 1..m, k \in 1..n : j > k => j # k /\ <<j, 1>> # <<k, p>>
    /\ \A m, n : \A j \in 1..m, k \in 1..n : j < k => j # k
    /\ \A n : \A k \in 1..n : (k - 1) + 1 = k
OBVIOUS

\* An entry of a sequence over S is in S.
LEMMA ElementOf ==
    ASSUME NEW S, NEW s \in Seq(S) PROVE \A i \in 1..Len(s) : s[i] \in S
OBVIOUS

\* The log only grows, and what is appended has an "isn" if all operations have.
LEMMA LogOnlyGrows ==
    ASSUME Bounds, [Next]_vars
    PROVE  /\ Len(ops) \in Nat /\ Len(ops') \in Nat /\ Len(ops) <= Len(ops')
           /\ \A i \in 1..Len(ops) : ops'[i] = ops[i]
           /\ \A i \in 1..Len(ops') : i > Len(ops) => ops'[i].isn \in IsnChoices
           /\ ops' \in Seq(Operation)
<1>1. ops \in Seq(Operation) /\ Len(ops) \in Nat
  BY DEF Bounds
<1>2. CASE ops' = ops
  BY <1>1, <1>2
<1>3. ASSUME NEW new \in Seq(Operation), ops' = ops \o new
      PROVE  /\ ops' \in Seq(Operation) /\ Len(ops) <= Len(ops')
             /\ \A i \in 1..Len(ops) : ops'[i] = ops[i]
  BY <1>1, <1>3, LogGrows
<1>4. CASE OtherClientActs
  <2>1. PICK kind \in Kinds, isn \in IsnChoices :
           ops' = Append(ops, [kind |-> kind, isn |-> isn])
    BY <1>4 DEF OtherClientActs
  <2> DEFINE o == [kind |-> kind, isn |-> isn]
  <2>2. o \in Operation /\ o.isn \in IsnChoices
    BY ScChannelAssumption DEF ScChannelAssumption, Operation
  <2>3. ops' = Append(ops, o)
    BY <2>1
  <2> HIDE DEF o
  <2>4. /\ ops' \in Seq(Operation) /\ Len(ops') = Len(ops) + 1 /\ ops'[Len(ops) + 1] = o
        /\ \A i \in 1..Len(ops) : ops'[i] = ops[i]
    BY <1>1, <2>2, <2>3
  <2>5. \A i \in 1..Len(ops') : i > Len(ops) => i = Len(ops) + 1
    BY <1>1, <2>4
  <2> QED
    BY <1>1, <2>2, <2>4, <2>5
<1>5. CASE ApiExecutes /\ ~IsFetchNodes
  <2>1. batch \in Seq(Command) /\ \A i \in 1..Len(batch) : batch[i].kind \in {"u", "m", "p"}
    BY <1>5 DEF Bounds, CsTypes
  <2>2. /\ \E new \in Seq(Operation) : ops' = ops \o new
        /\ \A i \in 1..Len(ops') : i > Len(ops) => ops'[i].isn \in IsnChoices
    BY Zenon, <1>1, <1>5, <2>1, ApiExecuted
  <2>3. /\ ops' \in Seq(Operation) /\ Len(ops) <= Len(ops')
        /\ \A i \in 1..Len(ops) : ops'[i] = ops[i]
    BY Zenon, <1>3, <2>2
  <2> QED
    BY <1>1, <2>2, <2>3
<1>6. CASE ApiExecutes /\ IsFetchNodes
  BY <1>2, <1>6 DEF ApiExecutes
<1>7. CASE \/ NotifyPurge \/ SendBatch \/ SendFetchNodes \/ ApiRefuses \/ CsResponse
           \/ FetchNodesBegins \/ FetchNodesEnds \/ FetchNodes
           \/ ScRequest \/ ApiTooMany \/ ScFails \/ ScRead \/ CommitInterim \/ Restart
           \/ UNCHANGED vars
           \/ \E upto \in pendingsc.from..Len(ops), ir \in BOOLEAN : ApiAnswers(upto, ir)
  <2>1. ops' = ops
    BY Zenon, <1>7 DEF NotifyPurge, SendBatch, SendFetchNodes, ApiRefuses, CsResponse,
           FetchNodesBegins, FetchNodesEnds, FetchNodes, ScRequest, ApiTooMany, ScFails, ScRead,
           CommitInterim, Restart, vars, ApiAnswers, ScStart, CheckPacket, ApplyPacket,
           ArrayEnds, StoreSn, ProcEoo, server
  <2> QED
    BY <1>2, <2>1
<1> QED
  BY <1>4, <1>5, <1>6, <1>7 DEF Next

\* Every operation a streaming client gets to see has an "isn".
LEMMA NextIsnKnown ==
    ASSUME InScope, Bounds, IsnKnown, [Next]_vars
    PROVE  IsnKnown'
<1> SUFFICES ASSUME Streaming, NEW i \in 1..Len(ops') PROVE ops'[i].isn
  BY DEF IsnKnown
<1>1. \A b \in IsnChoices : b = TRUE
  BY Zenon, ScChannelAssumption DEF ScChannelAssumption, InScope
<1>2. CASE i > Len(ops)
  BY <1>1, <1>2, LogOnlyGrows
<1>3. CASE ~(i > Len(ops))
  <2>1. i \in 1..Len(ops) /\ ops'[i] = ops[i]
    BY <1>3, LogOnlyGrows
  <2> QED
    BY <2>1 DEF IsnKnown
<1> QED
  BY <1>2, <1>3

\* The tree is complete up to Done.
LEMMA DoneWhole ==
    ASSUME Ground, scsn # NoSn
    PROVE  /\ Done \in Nat /\ Done <= Len(ops) /\ scsn \in Nat
           /\ \A k \in 1..Done : Whole(k, applied)
           /\ parser.stage \in {"idle", "eoo"} => Done = scsn
           /\ parser.stage = "a" => Done = parser.op - 1 /\ parser.op \in Nat
           /\ parser.stage = "sn" => Done = pendingsc.upto
<1> USE DEF Ground
<1>1. /\ scsn \in Nat /\ scsn <= Len(ops) /\ Len(ops) \in Nat /\ parser \in Position
      /\ pendingsc \in Request
  BY DEF Bounds, TagTypes, OfLog, NoSn, NoTag, ScTypes
<1>2. \A k \in 1..scsn : Whole(k, applied)
  BY DEF Inv, Kept
<1>3. parser.stage # "idle" =>
         pendingsc.status = "answered" /\ pendingsc.from <= scsn /\ pendingsc.upto <= Len(ops)
  BY DEF Inv, Asking, Bounds, ScTypes
<1>4. CASE parser.stage = "a"
  <2>1. /\ parser.op \in Nat /\ pendingsc.from \in Nat /\ pendingsc.upto \in Nat
        /\ 1 <= parser.op /\ parser.op <= pendingsc.upto + 1 /\ Done = parser.op - 1
    BY <1>1, <1>4 DEF Position, Request, Bounds, ScTypes, Done
  <2>2. \A k \in (pendingsc.from + 1)..(parser.op - 1) : Whole(k, applied)
    BY <1>4 DEF Inv, Reading
  <2>3. \A k \in 1..Done : k \in 1..scsn \/ k \in (pendingsc.from + 1)..(parser.op - 1)
    BY <1>1, <1>3, <1>4, <2>1
  <2> QED
    BY <1>1, <1>2, <1>3, <1>4, <2>1, <2>2, <2>3
<1>5. CASE parser.stage = "sn"
  <2>1. Done = pendingsc.upto /\ pendingsc.from \in Nat /\ pendingsc.upto \in Nat
    BY <1>1, <1>5 DEF Done, Request
  <2>2. \A k \in (pendingsc.from + 1)..pendingsc.upto : Whole(k, applied)
    BY <1>5 DEF Inv, Reading
  <2>3. \A k \in 1..Done : k \in 1..scsn \/ k \in (pendingsc.from + 1)..pendingsc.upto
    BY <1>1, <1>3, <1>5, <2>1
  <2> QED
    BY <1>1, <1>2, <1>3, <1>5, <2>1, <2>2, <2>3
<1>6. CASE parser.stage \in {"idle", "eoo"}
  <2>1. Done = scsn
    BY <1>6 DEF Done
  <2> QED
    BY <1>1, <1>2, <1>6, <2>1
<1> QED
  BY <1>1, <1>4, <1>5, <1>6 DEF Position

\* An sc request has a sequence number to start from.
LEMMA RequestHasSn ==
    ASSUME Ground, pendingsc.status # "none"
    PROVE  /\ scsn # NoSn /\ pendingsc.from \in Nat /\ pendingsc.upto \in Nat /\ ~IsFetchNodes
           /\ parser.stage = "idle" => pendingsc.from = scsn
BY DEF Ground, Inv, Asking, Bounds, ScTypes, Request, NoSn, Idle, TagTypes, OfLog

\* Packets beyond the log are in no tree.
LEMMA BeyondLog ==
    ASSUME NEW a, Known(a), NEW k, NEW p, <<k, p>> \in a
    PROVE  k \in 1..Len(ops) /\ p \in 1..Parts(ops[k].kind)
<1>1. PICK i \in 1..Len(ops) : \E q \in 1..Parts(ops[i].kind) : <<k, p>> = <<i, q>>
  BY DEF Known
<1> QED
  BY <1>1

\* What the sc side consists of.
scside == <<scsn, stopsc, pendingsc, parser, streaming, sctags, actionpacketsCurrent, applied, db>>

\* Steps that do not touch it.
QuietStep ==
    \/ OtherClientActs \/ NotifyPurge \/ SendBatch \/ ApiExecutes \/ ApiRefuses \/ CsResponse
    \/ FetchNodes \/ UNCHANGED vars

\* What those steps leave alone.
LEMMA QuietSteps == QuietStep => UNCHANGED scside
BY DEF QuietStep, scside, OtherClientActs, NotifyPurge, SendBatch, ApiExecutes, ApiRefuses,
       CsResponse, FetchNodes, vars, server, reqs, fetchnodes, tags, tree

\* Steps after which there is no sc channel.
LEMMA GoneSteps ==
    SendFetchNodes \/ FetchNodesBegins \/ (Bounds /\ ApiTooMany) =>
        /\ scsn' = NoSn /\ pendingsc' = NoRequest
        /\ parser'.stage = "idle" /\ ~parser'.checked /\ ops' = ops
<1>1. SendFetchNodes \/ FetchNodesBegins =>
        /\ scsn' = NoSn /\ pendingsc' = NoRequest /\ parser' = NoParser /\ ops' = ops
  BY DEF SendFetchNodes, FetchNodesBegins, server
<1>2. ASSUME Bounds, ApiTooMany
      PROVE  /\ scsn' = NoSn /\ pendingsc' = NoRequest
             /\ parser'.stage = "idle" /\ ~parser'.checked /\ ops' = ops
  <2>1. /\ scsn' = NoSn /\ pendingsc' = NoRequest /\ parser' = parser /\ ops' = ops
        /\ pendingsc.status = "sent"
    BY <1>2 DEF ApiTooMany, server
  <2>2. parser.stage = "idle" /\ parser.checked \in BOOLEAN /\ (parser.checked => parser.stage = "a")
    BY Zenon, <1>2, <2>1 DEF Bounds, ScTypes, Position
  <2> QED
    BY <2>1, <2>2
<1> QED
  BY <1>1, <1>2 DEF NoParser

\* What applying a packet does: the parser moves on, and a streaming client stores
\* the "isn" at the end of the operation.
LEMMA ApplyDoes ==
    ASSUME Ground, Ends, ApplyPacket, NEW k, NEW p, k = parser.op, p = parser.part
    PROVE  /\ UNCHANGED <<ops, batch, cs, processindex, mCurrentSeqtag, mCurrentSeqtagSeen,
                          pendingsc, sctags, stopsc, actionpacketsCurrent, db, delivered>>
           /\ parser.stage = "a" /\ parser.checked /\ pendingsc.status = "answered"
           /\ scsn # NoSn /\ Done = k - 1
           /\ k \in 1..Len(ops) /\ k <= pendingsc.upto /\ p \in {1, 2}
           /\ p \in 1..Parts(ops[k].kind)
           /\ applied' = TreeAfter(k, p)
           /\ parser'.stage = "a" /\ ~parser'.checked
           /\ streaming'.mNeedToPurge => Streaming
           /\ streaming'.mLastAPDeletedNode = (ops[k].kind = "m" /\ p = 1 /\ NodeFound(k))
           /\ \/ /\ p = 1 /\ Parts(ops[k].kind) = 2 /\ parser'.op = k /\ parser'.part = 2
                 /\ scsn' = scsn /\ (Streaming => streaming'.mInterimSn = k)
              \/ /\ p = Parts(ops[k].kind) /\ parser'.op = k + 1 /\ parser'.part = 1
                 /\ scsn' = IF Streaming THEN k ELSE scsn
<1> DEFINE deleted == ops[k].kind = "m" /\ p = 1 /\ NodeFound(k)
           merged == ~(ops[k].kind = "s" /\ p = 1)
           isn == IF p = 1 /\ ops[k].isn THEN k ELSE streaming.mInterimSn
           store == Streaming /\ isn # NoSn /\ IsnCanBeProcessed(deleted, merged)
<1>1. /\ UNCHANGED <<ops, batch, cs, processindex, mCurrentSeqtag, mCurrentSeqtagSeen,
                     pendingsc, sctags, stopsc, actionpacketsCurrent, db, delivered>>
      /\ parser.stage = "a" /\ parser.checked
      /\ k <= pendingsc.upto
      /\ applied' = TreeAfter(k, p)
      /\ streaming' = [mInterimSn |-> IF store \/ ~Streaming THEN NoSn ELSE isn,
                       mNeedToPurge |-> streaming.mNeedToPurge \/ store,
                       mLastAPDeletedNode |-> deleted,
                       mIsNewSharesMerged |-> merged]
      /\ scsn' = IF store THEN isn ELSE scsn
      /\ parser' = IF p < Parts(ops[k].kind)
                   THEN [parser EXCEPT !.part = p + 1, !.checked = FALSE]
                   ELSE [parser EXCEPT !.op = k + 1, !.part = 1, !.checked = FALSE]
  BY DEF ApplyPacket, AtPacket, server, reqs, tags
<1>2. /\ parser \in Position /\ pendingsc \in Request /\ streaming \in ParserFlags
      /\ pendingsc.status = "answered" /\ ops \in Seq(Operation) /\ pendingsc.upto <= Len(ops)
      /\ 1 <= k /\ Len(ops) \in Nat
      /\ p = 2 => Parts(ops[k].kind) = 2
  BY <1>1 DEF Ground, Bounds, ScTypes
<1>3. /\ k \in Nat /\ p \in {1, 2} /\ k \in 1..Len(ops) /\ ops[k] \in Operation
      /\ p \in 1..Parts(ops[k].kind)
  BY <1>1, <1>2, PartsType DEF Position, Request
<1>4. scsn # NoSn
  BY <1>2, RequestHasSn
<1>5. Done = k - 1
  BY <1>1 DEF Done
<1>6. (Streaming => Streaming = TRUE) /\ Streaming \in BOOLEAN
  BY ScChannelAssumption DEF ScChannelAssumption
<1>7. streaming.mNeedToPurge \in BOOLEAN /\ store \in BOOLEAN
  BY <1>2 DEF ParserFlags, IsnCanBeProcessed
<1>8. Streaming => ops[k].kind # "m" /\ ops[k].isn
  BY <1>3 DEF Ground, IsnKnown, Inv, NoMovesStreamed
<1>9. Streaming /\ p = 2 => streaming.mInterimSn = k
  BY <1>1, <1>4 DEF Ends, Frontier
<1>10. Streaming => isn = k /\ k # NoSn /\ (store <=> merged)
  BY <1>3, <1>8, <1>9 DEF IsnCanBeProcessed, NoSn
<1>11. ops[k].kind \in {"u", "n", "m", "s"}
  BY <1>3 DEF Operation
<1>12. /\ streaming'.mLastAPDeletedNode = deleted
       /\ streaming'.mNeedToPurge = (streaming.mNeedToPurge \/ store)
       /\ streaming'.mInterimSn = IF store \/ ~Streaming THEN NoSn ELSE isn
  BY <1>1
<1>13. streaming'.mNeedToPurge => Streaming
  BY <1>7, <1>12 DEF Ends, PurgeLater
<1> HIDE DEF deleted, merged, isn, store
<1>14. /\ \/ /\ p = 1 /\ Parts(ops[k].kind) = 2 /\ parser'.op = k /\ parser'.part = 2
             /\ scsn' = scsn /\ (Streaming => streaming'.mInterimSn = k)
          \/ /\ p = Parts(ops[k].kind) /\ parser'.op = k + 1 /\ parser'.part = 1
             /\ scsn' = IF Streaming THEN k ELSE scsn
       /\ parser'.stage = "a" /\ ~parser'.checked
  <2>1. CASE p < Parts(ops[k].kind)
    <3>1. p = 1 /\ Parts(ops[k].kind) = 2 /\ p + 1 = 2
      BY <1>3, <2>1, PartsType
    <3>2. parser' = [parser EXCEPT !.part = 2, !.checked = FALSE]
      BY Zenon, <1>1, <2>1, <3>1
    <3>3. /\ parser'.stage = parser.stage /\ ~parser'.checked /\ parser'.part = 2
          /\ parser'.op = parser.op
      BY Zenon, <1>2, <3>2, NextPosition
    <3>4. Streaming => ~store
      BY <1>8, <1>10, <1>11, <3>1 DEF Parts, merged
    <3>5. ~store
      BY <3>4 DEF store
    <3>6. scsn' = scsn /\ (Streaming => streaming'.mInterimSn = k)
      BY <1>1, <1>10, <1>12, <3>5
    <3> QED
      BY <3>1, <3>3, <3>6, <1>1
  <2>2. CASE ~(p < Parts(ops[k].kind))
    <3> DEFINE n == k + 1
    <3>1. parser' = [parser EXCEPT !.op = n, !.part = 1, !.checked = FALSE] /\ n \in Nat
      BY <1>1, <1>3, <2>2
    <3> HIDE DEF n
    <3>2. parser.stage = "a" /\ parser \in Position
      BY Zenon, <1>1, <1>2
    <3>3. /\ parser'.op = n /\ parser'.part = 1 /\ ~parser'.checked /\ parser'.stage = "a"
      BY Zenon, <3>1, <3>2, NextPosition
    <3>4. p = Parts(ops[k].kind)
      BY <1>3, <2>2, PartsType
    <3>5. Streaming => merged
      BY <3>4, <1>11 DEF Parts, merged
    <3>6. Streaming => store
      BY <1>10, <3>5
    <3>7. scsn' = IF Streaming THEN k ELSE scsn
      BY <1>1, <1>10, <3>6 DEF store
    <3> QED
      BY <3>3, <3>4, <3>7 DEF n
  <2> QED
    BY <2>1, <2>2
<1>15. streaming'.mLastAPDeletedNode = (ops[k].kind = "m" /\ p = 1 /\ NodeFound(k))
  BY <1>12 DEF deleted
<1> QED
  BY Zenon, <1>1, <1>2, <1>3, <1>4, <1>5, <1>13, <1>14, <1>15

\* What a client would find of its tree if its parser forgot where it was.
LEMMA CutHere ==
    ASSUME Ground, Frontier, scsn # NoSn, Streaming \/ parser.stage \in {"idle", "eoo"}
    PROVE  /\ Done = scsn /\ Untouched(scsn, applied)
           /\ <<scsn + 1, 1>> \in applied => Streaming /\ Parts(ops[scsn + 1].kind) = 2
<1>1. Done = scsn
  BY DoneWhole DEF Frontier
<1>2. parser.stage = "a" /\ parser.part = 2 => Parts(ops[Done + 1].kind) = 2
  <2> SUFFICES ASSUME parser.stage = "a", parser.part = 2 PROVE Parts(ops[Done + 1].kind) = 2
    OBVIOUS
  <2>1. Done + 1 = parser.op
    BY DoneWhole
  <2> QED
    BY <2>1 DEF Ground, Bounds, ScTypes
<1> QED
  BY <1>1, <1>2 DEF Frontier

\* The state of the parser after a packet has been checked.
LEMMA CheckDoes ==
    ASSUME Ground, CheckPacket
    PROVE  /\ UNCHANGED <<ops, fetch, fetchingnodes, scsn, stopsc, pendingsc, streaming,
                          actionpacketsCurrent, applied, purged, db, used>>
           /\ parser.stage = "a" /\ parser'.stage = "a" /\ parser'.op = parser.op
           /\ parser'.part = parser.part /\ ~parser.checked
           /\ parser'.checked = MayProceed(St(parser.op, parser.part))
           /\ parser.op \in 1..Len(ops) /\ parser.op <= pendingsc.upto
           /\ parser.part \in {1, 2} /\ (parser.part = 2 => Parts(ops[parser.op].kind) = 2)
           /\ pendingsc.status = "answered" /\ scsn # NoSn /\ ~IsFetchNodes
           /\ Done = parser.op - 1 /\ Done' = Done
           /\ \/ ImplicitTag /\ UNCHANGED <<reqs, tags, sctags, delivered>>
              \/ ~ImplicitTag /\ CheckSequenceTag(St(parser.op, parser.part))
<1> DEFINE tag == St(parser.op, parser.part)
<1>1. /\ UNCHANGED <<ops, fetch, fetchingnodes, scsn, stopsc, pendingsc, streaming,
                     actionpacketsCurrent, applied, purged, db, used>>
      /\ parser.stage = "a" /\ parser.op <= pendingsc.upto /\ ~parser.checked
      /\ parser' = [parser EXCEPT !.checked = MayProceed(tag)]
      /\ \/ ImplicitTag /\ UNCHANGED <<reqs, tags, sctags, delivered>>
         \/ ~ImplicitTag /\ CheckSequenceTag(tag)
  BY DEF CheckPacket, AtPacket, server, fetchnodes, tree
<1> HIDE DEF tag
<1>2. parser \in Position /\ ScTypes /\ pendingsc.status = "answered" /\ ops \in Seq(Operation)
  BY <1>1 DEF Ground, Bounds, ScTypes
<1>3. /\ parser'.stage = "a" /\ parser'.op = parser.op /\ parser'.part = parser.part
      /\ parser'.checked = MayProceed(tag)
  BY <1>1, <1>2 DEF Position
<1>4. scsn # NoSn /\ ~IsFetchNodes
  BY <1>2, RequestHasSn
<1>5. Done = parser.op - 1 /\ Done' = Done
  BY <1>1, <1>3 DEF Done
<1>6. parser.op \in 1..Len(ops) /\ parser.part \in {1, 2}
      /\ (parser.part = 2 => Parts(ops[parser.op].kind) = 2)
  BY <1>1, <1>2 DEF ScTypes, Position, Request
<1> QED
  BY <1>1, <1>2, <1>3, <1>4, <1>5, <1>6 DEF tag

\* At the end of the packets the tree ends between two operations.
LEMMA AtArrayEnd ==
    ASSUME Ground, Frontier, ArrayEnds
    PROVE  /\ UNCHANGED <<ops, fetch, fetchingnodes, scsn, stopsc, pendingsc, streaming,
                          actionpacketsCurrent, applied, db, used>>
           /\ CheckSequenceTag(NoTag) /\ parser.stage = "a" /\ parser'.stage = "sn"
           /\ parser.part = 1 /\ parser'.part = 1 /\ ~parser.checked /\ ~parser'.checked
           /\ pendingsc.status = "answered" /\ scsn # NoSn /\ ~IsFetchNodes
           /\ Done = pendingsc.upto /\ Done' = Done /\ <<Done + 1, 1>> \notin applied
<1>1. /\ UNCHANGED <<ops, fetch, fetchingnodes, scsn, stopsc, pendingsc, streaming,
                     actionpacketsCurrent, applied, db, used>>
      /\ parser.stage = "a" /\ parser.op > pendingsc.upto /\ CheckSequenceTag(NoTag)
      /\ parser' = [parser EXCEPT !.stage = "sn"]
  BY DEF ArrayEnds, server, fetchnodes, tree
<1>2. parser \in Position /\ pendingsc \in Request /\ ScTypes /\ pendingsc.status = "answered"
  BY <1>1 DEF Ground, Bounds, ScTypes
<1>3. /\ parser.op \in Nat /\ pendingsc.upto \in Nat /\ ~(parser.op <= pendingsc.upto)
      /\ parser.op = pendingsc.upto + 1 /\ parser.part \in {1, 2} /\ parser.checked \in BOOLEAN
  BY <1>1, <1>2 DEF ScTypes, Position, Request
<1>4. parser.part = 1 /\ ~parser.checked
  BY <1>1, <1>2, <1>3 DEF ScTypes
<1>5. parser'.stage = "sn" /\ parser'.part = parser.part /\ parser'.checked = parser.checked
  BY <1>1, <1>2 DEF Position
<1>6. Done = pendingsc.upto /\ Done' = Done
  BY <1>1, <1>3, <1>5 DEF Done
<1>7. scsn # NoSn /\ ~IsFetchNodes
  BY <1>2, RequestHasSn
<1>8. <<Done + 1, 1>> \notin applied
  BY <1>1, <1>2, <1>3, <1>4, <1>6, <1>7 DEF Frontier
<1> QED
  BY <1>1, <1>2, <1>4, <1>5, <1>6, <1>7, <1>8

\* Every step keeps the ends of the trees in order.
LEMMA NextEnds == Ground /\ Ends /\ [Next]_vars => Ends'
\* The log grows, and nothing else of interest happens.
<1>FrontierGrows.
      ASSUME Ground, Frontier, [Next]_vars, UNCHANGED <<scsn, pendingsc, parser, applied>>,
             streaming'.mInterimSn = streaming.mInterimSn
      PROVE  Frontier'
  <2> USE <1>FrontierGrows
  <2> SUFFICES ASSUME scsn # NoSn PROVE Frontier'
    BY DEF Frontier
  <2>1. Done' = Done
    BY DEF Done
  <2>2. <<Done + 1, 1>> \in applied => ops'[Done + 1] = ops[Done + 1]
    <3>1. Known(applied)
      BY DEF Ground, Bounds, Trees
    <3>2. Done \in Nat
      BY DoneWhole
    <3> HIDE DEF Done
    <3>3. <<Done + 1, 1>> \in applied => Done + 1 \in 1..Len(ops)
      BY <3>1, BeyondLog
    <3> QED
      BY <3>3, LogOnlyGrows DEF Ground
  <2> QED
    BY <2>1, <2>2 DEF Frontier, Untouched
\* The same of the state cache.
<1>CachedGrows.
      ASSUME Ground, Cached, [Next]_vars, UNCHANGED db
      PROVE  Cached'
  <2> USE <1>CachedGrows
  <2> SUFFICES ASSUME db.scsn # NoSn PROVE Cached'
    BY DEF Cached
  <2>1. <<db.scsn + 1, 1>> \in db.applied => ops'[db.scsn + 1] = ops[db.scsn + 1]
    <3>1. Known(db.applied)
      BY DEF Ground, Bounds, Trees
    <3>2. <<db.scsn + 1, 1>> \in db.applied => db.scsn + 1 \in 1..Len(ops)
      BY <3>1, BeyondLog
    <3> QED
      BY <3>2, LogOnlyGrows DEF Ground
  <2> QED
    BY <2>1 DEF Cached, Untouched
\* Between two answers.
<1>FrontierIdle.
      ASSUME ops' = ops, parser'.stage = "idle", pendingsc'.status # "answered",
             scsn' # NoSn =>
                /\ Untouched(scsn', applied')
                /\ <<scsn' + 1, 1>> \in applied' => Streaming /\ Parts(ops[scsn' + 1].kind) = 2
      PROVE  Frontier'
  <2> USE <1>FrontierIdle
  <2>1. Done' = scsn'
    BY DEF Done
  <2> QED
    BY <2>1 DEF Frontier, Untouched
\* sctable->commit() of the tree and the sn that belongs to it.
<1>CommitCached.
      ASSUME Ground, Frontier, scsn # NoSn, ops' = ops, db'.applied = applied,
             \/ Streaming /\ db'.scsn = scsn
             \/ parser.stage = "sn" /\ db'.scsn = pendingsc.upto
      PROVE  Cached'
  <2> USE <1>CommitCached
  <2>1. CASE Streaming /\ db'.scsn = scsn
    BY <2>1, CutHere DEF Cached, Untouched
  <2>2. CASE parser.stage = "sn" /\ db'.scsn = pendingsc.upto
    <3>1. Done = db'.scsn
      BY <2>2, DoneWhole
    <3>2. Untouched(db'.scsn, applied) /\ <<db'.scsn + 1, 1>> \notin applied
      BY <2>2, <3>1 DEF Frontier
    <3> QED
      BY <3>2 DEF Cached, Untouched
  <2> QED
    BY <2>1, <2>2
\* clearStreamingParser() commits only what belongs together.
<1>ClearCached.
      ASSUME Ground, Ends, [Next]_vars, ops' = ops, ClearStreamingParser
      PROVE  Cached' /\ streaming' = NoStreaming
  <2> USE <1>ClearCached
  <2>1. streaming' = NoStreaming
    BY DEF ClearStreamingParser
  <2>2. CASE streaming.mNeedToPurge
    <3>1. db'.scsn = scsn /\ db'.applied = applied
      BY <2>2 DEF ClearStreamingParser, PurgeAndCommit
    <3>2. Streaming /\ parser.stage # "idle"
      BY <2>2 DEF Ends, PurgeLater
    <3>3. pendingsc.status # "none"
      BY <3>2 DEF Ground, Bounds, ScTypes
    <3>4. scsn # NoSn
      BY <3>3, RequestHasSn
    <3> QED
      BY <2>1, <3>1, <3>2, <3>4, <1>CommitCached DEF Ends
  <2>3. CASE ~streaming.mNeedToPurge
    <3>1. UNCHANGED db
      BY <2>3 DEF ClearStreamingParser
    <3> QED
      BY <2>1, <3>1, <1>CachedGrows DEF Ends
  <2> QED
    BY <2>2, <2>3
\* Steps that do not touch the sc side.
<1>QuietEnds. Ground /\ Ends /\ [Next]_vars /\ QuietStep => Ends'
  <2> SUFFICES ASSUME Ground, Ends, [Next]_vars, QuietStep PROVE Ends'
    OBVIOUS
  <2>1. UNCHANGED <<scsn, pendingsc, parser, streaming, applied, db>>
    BY QuietSteps DEF scside
  <2> QED
    BY <2>1, <1>FrontierGrows, <1>CachedGrows DEF Ends, PurgeLater
\* A session that is reloaded has no sequence number, and its tree no end to speak of.
<1>GoneEnds.
      ASSUME Ground, Ends, [Next]_vars, SendFetchNodes \/ FetchNodesBegins \/ ApiTooMany
      PROVE  Ends'
  <2> USE <1>GoneEnds
  <2>1. /\ scsn' = NoSn /\ pendingsc' = NoRequest /\ parser'.stage = "idle" /\ ops' = ops
    BY GoneSteps DEF Ground
  <2>2. Frontier'
    BY <2>1 DEF Frontier
  <2>3. CASE SendFetchNodes
    <3>1. Cached' /\ streaming' = NoStreaming
      BY <2>1, <2>3, <1>ClearCached DEF SendFetchNodes
    <3> QED
      BY <2>2, <3>1 DEF Ends, PurgeLater, NoStreaming
  <2>4. CASE FetchNodesBegins
    <3>1. /\ db' = [scsn |-> NoSn, applied |-> {}, seqTag |-> NoTag] /\ streaming' = streaming
          /\ IsFetchNodes
      BY Zenon, <2>4 DEF FetchNodesBegins
    <3>2. parser.stage = "idle"
      BY <3>1 DEF Ground, Bounds, Idle, ScTypes
    <3> QED
      BY Zenon, <2>2, <3>1, <3>2 DEF Ends, Cached, PurgeLater
  <2>5. CASE ApiTooMany
    <3>1. db' = db /\ streaming' = streaming /\ pendingsc.status = "sent"
      BY <2>5 DEF ApiTooMany
    <3>2. parser.stage = "idle"
      BY <3>1 DEF Ground, Bounds, ScTypes
    <3> QED
      BY <2>2, <3>1, <3>2, <1>CachedGrows DEF Ends, PurgeLater
  <2> QED
    BY <2>3, <2>4, <2>5
\* A new process starts from the state cache.
<1>RestartEnds. Ground /\ Ends /\ [Next]_vars /\ Restart => Ends'
  <2> SUFFICES ASSUME Ground, Ends, [Next]_vars, Restart PROVE Ends'
    OBVIOUS
  <2>1. /\ scsn' = db.scsn /\ applied' = db.applied /\ db' = db /\ ops' = ops
        /\ pendingsc' = NoRequest /\ parser' = NoParser /\ streaming' = NoStreaming
    BY DEF Restart, server
  <2>2. Frontier'
    BY Zenon, <2>1, <1>FrontierIdle DEF Ends, Cached, NoParser, NoRequest
  <2> QED
    BY <2>1, <2>2, <1>CachedGrows DEF Ends, PurgeLater, NoStreaming
\* A tree that comes with fetchnodes ends between two operations.
<1>FetchNodesEndsEnds. Ground /\ Ends /\ [Next]_vars /\ FetchNodesEnds => Ends'
  <2> SUFFICES ASSUME Ground, Ends, [Next]_vars, FetchNodesEnds PROVE Ends'
    OBVIOUS
  <2> DEFINE k == batch[1].st
  <2>1. /\ UNCHANGED <<ops, pendingsc, parser, streaming>> /\ IsFetchNodes /\ scsn' = k
        /\ applied' = PacketsUpTo(k) /\ db'.scsn = k /\ db'.applied = PacketsUpTo(k)
        /\ cs = "processing"
    BY Zenon DEF FetchNodesEnds, server
  <2>2. pendingsc.status = "none" /\ parser.stage = "idle" /\ k \in Int
    BY <2>1 DEF Ground, Bounds, ScTypes, Idle, CsTypes, OfLog, IsFetchNodes
  <2> HIDE DEF k
  <2>3. \A i, p : <<i, p>> \in PacketsUpTo(k) => i \in 1..k
    BY DEF PacketsUpTo, Packets
  <2>4. Untouched(k, PacketsUpTo(k)) /\ <<k + 1, 1>> \notin PacketsUpTo(k)
    BY <2>2, <2>3 DEF Untouched
  <2>5. Frontier'
    BY ZenonT(30), <2>1, <2>2, <2>4, <1>FrontierIdle
  <2>6. Cached'
    BY Zenon, <2>1, <2>4 DEF Cached, Untouched
  <2> QED
    BY <2>1, <2>2, <2>5, <2>6 DEF Ends, PurgeLater
\* A request that fails leaves the tree where the parser was.
<1>ScFailsEnds. Ground /\ Ends /\ [Next]_vars /\ ScFails => Ends'
  <2> SUFFICES ASSUME Ground, Ends, [Next]_vars, ScFails PROVE Ends'
    OBVIOUS
  <2>1. /\ UNCHANGED <<ops, scsn, applied>> /\ ClearStreamingParser
        /\ pendingsc' = NoRequest /\ parser' = NoParser
        /\ pendingsc.status = "sent" \/ Streaming
    BY DEF ScFails, server
  <2>2. Streaming \/ parser.stage = "idle"
    BY <2>1 DEF Ground, Bounds, ScTypes
  <2>3. scsn # NoSn => /\ Untouched(scsn, applied)
                       /\ <<scsn + 1, 1>> \in applied => Streaming /\ Parts(ops[scsn + 1].kind) = 2
    BY Zenon, <2>2, CutHere DEF Ends
  <2>4. Frontier'
    BY Zenon, <2>1, <2>3, <1>FrontierIdle DEF NoParser, NoRequest
  <2> QED
    BY <2>1, <2>4, <1>ClearCached DEF Ends, PurgeLater, NoStreaming
\* The next answer starts, and does not end, where the tree ends.
<1>RequestEnds.
      ASSUME Ground, Ends, [Next]_vars,
             ScRequest \/ \E upto \in pendingsc.from..Len(ops), ir \in BOOLEAN : ApiAnswers(upto, ir)
      PROVE  Ends'
  <2> USE <1>RequestEnds
  <2>1. UNCHANGED <<ops, scsn, parser, streaming, applied, db>>
    BY Zenon DEF ScRequest, ApiAnswers, server, tree
  <2>2. Cached'
    BY <2>1, <1>CachedGrows DEF Ends
  <2>3. PurgeLater'
    BY <2>1 DEF Ends, PurgeLater
  <2>4. CASE ScRequest
    <3>1. pendingsc' = [NoRequest EXCEPT !.status = "sent", !.from = scsn] /\ pendingsc.status = "none"
      BY <2>4 DEF ScRequest
    <3>2. parser.stage = "idle" /\ pendingsc'.status # "answered"
      BY <3>1 DEF Ground, Bounds, ScTypes, NoRequest
    <3>3. scsn # NoSn => /\ Untouched(scsn, applied)
                         /\ <<scsn + 1, 1>> \in applied => Streaming /\ Parts(ops[scsn + 1].kind) = 2
      BY <3>2, CutHere DEF Ends
    <3> QED
      BY <2>1, <2>2, <2>3, <3>2, <3>3, <1>FrontierIdle DEF Ends
  <2>5. ASSUME NEW upto \in pendingsc.from..Len(ops), NEW ir \in BOOLEAN, ApiAnswers(upto, ir)
        PROVE  Ends'
    <3>1. /\ pendingsc' = [pendingsc EXCEPT !.status = "answered", !.upto = upto, !.ir = ir]
          /\ pendingsc.status = "sent" /\ (upto > pendingsc.from \/ pendingsc.from = Len(ops))
      BY Zenon, <2>5 DEF ApiAnswers
    <3>2. parser.stage = "idle" /\ pendingsc \in Request /\ Len(ops) \in Nat
      BY <3>1 DEF Ground, Bounds, ScTypes
    <3>3. scsn # NoSn /\ pendingsc.from = scsn /\ scsn \in Nat
      BY <3>1, <3>2, RequestHasSn
    <3>4. /\ Untouched(scsn, applied)
          /\ <<scsn + 1, 1>> \in applied => Streaming /\ Parts(ops[scsn + 1].kind) = 2
      BY <3>2, <3>3, CutHere DEF Ends
    <3>5. <<scsn + 1, 1>> \in applied => scsn + 1 <= upto
      <4> SUFFICES ASSUME <<scsn + 1, 1>> \in applied PROVE scsn + 1 <= upto
        OBVIOUS
      <4>1. scsn + 1 \in 1..Len(ops)
        BY BeyondLog DEF Ground, Bounds, Trees
      <4> QED
        BY <3>1, <3>2, <3>3, <4>1
    <3>6. pendingsc'.upto = upto
      BY <3>1, <3>2 DEF Request
    <3>7. Done' = scsn /\ parser'.stage = "idle"
      BY Zenon, <2>1, <3>2 DEF Done
    <3>8. Frontier'
      BY Zenon, <2>1, <3>2, <3>4, <3>5, <3>6, <3>7 DEF Frontier, Untouched
    <3> QED
      BY Zenon, <2>2, <2>3, <3>8 DEF Ends
  <2> QED
    BY Zenon, <2>4, <2>5
\* The parser starts where the tree ends.
<1>ScStartEnds. Ground /\ Ends /\ [Next]_vars /\ ScStart => Ends'
  <2> SUFFICES ASSUME Ground, Ends, [Next]_vars, ScStart PROVE Ends'
    OBVIOUS
  <2>1. /\ UNCHANGED <<ops, scsn, pendingsc, streaming, applied, db>>
        /\ parser' = [NoParser EXCEPT !.stage = "a", !.op = pendingsc.from + 1]
        /\ pendingsc.status = "answered" /\ parser.stage = "idle"
    BY DEF ScStart, server, tree
  <2>2. /\ parser'.stage = "a" /\ parser'.op = pendingsc.from + 1 /\ parser'.part = 1
    BY <2>1 DEF NoParser
  <2>3. scsn # NoSn /\ pendingsc.from = scsn /\ scsn \in Nat
    BY <2>1, RequestHasSn
  <2>4. Done' = scsn /\ Done = scsn
    BY <2>1, <2>2, <2>3 DEF Done
  <2>5. Frontier'
    BY <2>1, <2>2, <2>3, <2>4 DEF Ends, Frontier, Untouched
  <2> QED
    BY <2>1, <2>2, <2>5, <1>CachedGrows DEF Ends, PurgeLater
\* sc_checkActionPacket() touches no tree.
<1>CheckPacketEnds. Ground /\ Ends /\ [Next]_vars /\ CheckPacket => Ends'
  <2> SUFFICES ASSUME Ground, Ends, [Next]_vars, CheckPacket PROVE Ends'
    OBVIOUS
  <2>1. /\ UNCHANGED <<ops, scsn, pendingsc, streaming, applied, db>> /\ Done' = Done
        /\ parser'.stage = parser.stage /\ parser'.op = parser.op /\ parser'.part = parser.part
    BY Zenon, CheckDoes
  <2>2. Frontier'
    BY Zenon, <2>1 DEF Ends, Frontier, Untouched
  <2> QED
    BY <2>1, <2>2, <1>CachedGrows DEF Ends, PurgeLater
\* Applying a packet moves the end of the tree by one packet.
<1>ApplyPacketEnds. Ground /\ Ends /\ [Next]_vars /\ ApplyPacket => Ends'
  <2> SUFFICES ASSUME Ground, Ends, [Next]_vars, ApplyPacket PROVE Ends'
    OBVIOUS
  <2> DEFINE k == parser.op
             p == parser.part
  <2>1. /\ UNCHANGED <<ops, pendingsc, db>> /\ scsn # NoSn /\ Done = k - 1
        /\ k \in 1..Len(ops) /\ p \in {1, 2} /\ applied' = TreeAfter(k, p) /\ parser'.stage = "a"
        /\ streaming'.mNeedToPurge => Streaming
        /\ \/ /\ p = 1 /\ Parts(ops[k].kind) = 2 /\ parser'.op = k /\ parser'.part = 2
              /\ scsn' = scsn /\ (Streaming => streaming'.mInterimSn = k)
           \/ /\ p = Parts(ops[k].kind) /\ parser'.op = k + 1 /\ parser'.part = 1
              /\ scsn' = IF Streaming THEN k ELSE scsn
    BY Zenon, ApplyDoes
  <2> HIDE DEF k, p
  <2>2. k \in Nat /\ Untouched(k - 1, applied) /\ (Streaming => scsn = k - 1)
    BY <2>1 DEF Ends, Frontier
  <2>3. \A x : x \in applied' => x \in applied \/ x = <<k, p>>
    BY Zenon, <2>1 DEF TreeAfter
  <2>4. Done' = parser'.op - 1
    BY Zenon, <2>1 DEF Done
  <2>5. CASE /\ p = 1 /\ parser'.op = k /\ parser'.part = 2
             /\ scsn' = scsn /\ (Streaming => streaming'.mInterimSn = k)
    <3>1. Done' = k - 1
      BY <2>4, <2>5
    <3>2. Untouched(k - 1, applied')
      <4>1. ASSUME NEW i \in Nat
            PROVE  (i > k - 1 => <<i, 2>> \notin applied') /\ (i > k - 1 + 1 => <<i, 1>> \notin applied')
        <5>1. (i > k - 1 => <<i, 2>> \notin applied) /\ (i > k - 1 + 1 => <<i, 1>> \notin applied)
          BY <2>2 DEF Untouched
        <5>2. <<i, 2>> # <<k, p>> /\ (i > k - 1 + 1 => <<i, 1>> # <<k, p>>)
          BY <2>2, <2>5
        <5> QED
          BY <2>3, <5>1, <5>2
      <4> QED
        BY <4>1 DEF Untouched
    <3>3. Frontier'
      BY ZenonT(30), <2>1, <2>2, <2>5, <3>1, <3>2 DEF Frontier, Untouched
    <3> QED
      BY <2>1, <3>3, <1>CachedGrows DEF Ends, PurgeLater
  <2>6. CASE /\ parser'.op = k + 1 /\ parser'.part = 1
             /\ scsn' = IF Streaming THEN k ELSE scsn
    <3>1. Done' = k
      BY <2>2, <2>4, <2>6
    <3>2. Untouched(k, applied') /\ <<k + 1, 1>> \notin applied'
      <4>1. ASSUME NEW i \in Nat, i > k PROVE <<i, 2>> \notin applied' /\ <<i, 1>> \notin applied'
        <5>1. <<i, 2>> \notin applied /\ <<i, 1>> \notin applied
          BY <2>2, <4>1 DEF Untouched
        <5>2. <<i, 2>> # <<k, p>> /\ <<i, 1>> # <<k, p>>
          BY <2>2, <4>1
        <5> QED
          BY <2>3, <5>1, <5>2
      <4>2. <<k + 1, 1>> \notin applied'
        <5>1. k + 1 \in Nat /\ k + 1 > k
          BY <2>2
        <5> QED
          BY Zenon, <4>1, <5>1
      <4>3. ASSUME NEW i \in Nat
            PROVE  (i > k => <<i, 2>> \notin applied') /\ (i > k + 1 => <<i, 1>> \notin applied')
        <5>1. i > k + 1 => i > k
          BY <2>2
        <5> QED
          BY <4>1, <5>1
      <4> QED
        BY <4>2, <4>3 DEF Untouched
    <3>3. Frontier'
      BY <2>1, <2>2, <2>6, <3>1, <3>2 DEF Frontier, Untouched
    <3> QED
      BY <2>1, <3>3, <1>CachedGrows DEF Ends, PurgeLater
  <2> QED
    BY Zenon, <2>1, <2>5, <2>6
\* The tree and the interim sn that covers it are committed together.
<1>CommitInterimEnds. Ground /\ Ends /\ [Next]_vars /\ CommitInterim => Ends'
  <2> SUFFICES ASSUME Ground, Ends, [Next]_vars, CommitInterim PROVE Ends'
    OBVIOUS
  <2>1. /\ UNCHANGED <<ops, scsn, pendingsc, parser, applied>> /\ Streaming
        /\ streaming.mNeedToPurge /\ db'.scsn = scsn /\ db'.applied = applied
        /\ streaming' = [streaming EXCEPT !.mNeedToPurge = FALSE]
    BY DEF CommitInterim, PurgeAndCommit, server
  <2>2. streaming'.mInterimSn = streaming.mInterimSn /\ ~streaming'.mNeedToPurge
    BY <2>1 DEF Ground, Bounds, ScTypes, ParserFlags
  <2>3. pendingsc.status # "none"
    BY <2>1 DEF Ends, PurgeLater, Ground, Bounds, ScTypes
  <2>4. scsn # NoSn
    BY <2>3, RequestHasSn
  <2> QED
    BY <2>1, <2>2, <2>4, <1>FrontierGrows, <1>CommitCached DEF Ends, PurgeLater
\* The end of the packets.
<1>ArrayEndsEnds. Ground /\ Ends /\ [Next]_vars /\ ArrayEnds => Ends'
  <2> SUFFICES ASSUME Ground, Ends, [Next]_vars, ArrayEnds PROVE Ends'
    OBVIOUS
  <2>1. /\ UNCHANGED <<ops, scsn, pendingsc, streaming, applied, db>>
        /\ parser.stage = "a" /\ parser'.stage = "sn" /\ Done' = Done /\ <<Done + 1, 1>> \notin applied
    BY ZenonT(30), AtArrayEnd DEF Ends
  <2>2. Frontier'
    BY Zenon, <2>1 DEF Ends, Frontier, Untouched
  <2> QED
    BY Zenon, <2>1, <2>2, <1>CachedGrows DEF Ends, PurgeLater
\* sc_storeSn() commits the whole answer.
<1>StoreSnEnds. Ground /\ Ends /\ [Next]_vars /\ StoreSn => Ends'
  <2> SUFFICES ASSUME Ground, Ends, [Next]_vars, StoreSn PROVE Ends'
    OBVIOUS
  <2>1. /\ UNCHANGED <<ops, pendingsc, applied>> /\ parser.stage = "sn"
        /\ scsn' = pendingsc.upto /\ db'.scsn = pendingsc.upto /\ db'.applied = applied
        /\ streaming' = [streaming EXCEPT !.mNeedToPurge = FALSE]
        /\ parser' = [parser EXCEPT !.stage = "eoo"]
    BY DEF StoreSn, PurgeAndCommit, server
  <2>2. parser \in Position /\ streaming \in ParserFlags /\ pendingsc.status = "answered"
    BY <2>1 DEF Ground, Bounds, ScTypes
  <2>3. parser'.stage = "eoo" /\ ~streaming'.mNeedToPurge
    BY <2>1, <2>2 DEF Position, ParserFlags
  <2>4. scsn # NoSn
    BY <2>2, RequestHasSn
  <2>5. Done = pendingsc.upto /\ Done' = pendingsc.upto
    BY <2>1, <2>3 DEF Done
  <2>6. Frontier'
    BY Zenon, <2>1, <2>3, <2>4, <2>5 DEF Ends, Frontier, Untouched
  <2> QED
    BY <2>1, <2>3, <2>4, <2>6, <1>CommitCached DEF Ends, PurgeLater
\* sc_procEoo() forgets the answer.
<1>ProcEooEnds. Ground /\ Ends /\ [Next]_vars /\ ProcEoo => Ends'
  <2> SUFFICES ASSUME Ground, Ends, [Next]_vars, ProcEoo PROVE Ends'
    OBVIOUS
  <2>1. /\ UNCHANGED <<ops, scsn, applied, db>> /\ parser.stage = "eoo"
        /\ pendingsc' = NoRequest /\ parser' = NoParser /\ streaming' = NoStreaming
    BY DEF ProcEoo, server, tree
  <2>2. scsn # NoSn => /\ Untouched(scsn, applied)
                       /\ <<scsn + 1, 1>> \in applied => Streaming /\ Parts(ops[scsn + 1].kind) = 2
    BY ZenonT(30), <2>1, CutHere DEF Ends
  <2>3. Frontier'
    BY Zenon, <2>1, <2>2, <1>FrontierIdle DEF NoParser, NoRequest
  <2> QED
    BY Zenon, <2>1, <2>3, <1>CachedGrows DEF Ends, PurgeLater, NoStreaming
<1> SUFFICES ASSUME Ground, Ends, [Next]_vars PROVE Ends'
  OBVIOUS
<1>1. CASE QuietStep
  BY <1>1, <1>QuietEnds
<1>2. CASE SendFetchNodes \/ FetchNodesBegins \/ ApiTooMany
  BY <1>2, <1>GoneEnds
<1>3. CASE Restart \/ FetchNodesEnds \/ ScFails
  BY <1>3, <1>RestartEnds, <1>FetchNodesEndsEnds, <1>ScFailsEnds
<1>4. CASE ScRequest \/ \E upto \in pendingsc.from..Len(ops), ir \in BOOLEAN : ApiAnswers(upto, ir)
  BY <1>4, <1>RequestEnds
<1>5. CASE ScRead \/ CommitInterim
  BY ZenonT(30), <1>5, <1>ScStartEnds, <1>CheckPacketEnds, <1>ApplyPacketEnds, <1>ArrayEndsEnds, <1>StoreSnEnds,
     <1>ProcEooEnds, <1>CommitInterimEnds DEF ScRead
<1> QED
  BY Zenon, <1>1, <1>2, <1>3, <1>4, <1>5 DEF Next, QuietStep

-----------------------------------------------------------------------------
(* The tags that have been read, and the tree.                             *)

\* The tags that have been read are those of operations up to the one being read.
TagsRead ==
    scsn # NoSn =>
        /\ seqTag # NoTag /\ seqTag <= Done + 1 /\ mLastReceivedScSeqTag <= Done + 1
        /\ pendingsc.status = "answered" =>
              seqTag <= pendingsc.upto /\ mLastReceivedScSeqTag <= pendingsc.upto

\* The last tag received is that of an operation with a tag.
TaggedLast ==
    mLastReceivedScSeqTag # NoTag =>
        mLastReceivedScSeqTag > 0 /\ ops[mLastReceivedScSeqTag].kind \in Tagged

\* The tag in the state cache.
CachedTag ==
    db.scsn # NoSn =>
        /\ db.seqTag # NoTag /\ db.seqTag <= db.scsn + 1
        /\ ~Streaming => db.seqTag <= db.scsn

\* While the reply to fetchnodes comes in.
Reloading ==
    IsFetchNodes /\ cs = "processing" =>
        mLastReceivedScSeqTag = NoTag /\ ~actionpacketsCurrent

\* The tags and the tree.
TagsInStep == TagsRead /\ TaggedLast /\ CachedTag /\ Reloading

\* What sc_checkSequenceTag() does to the tags.
LEMMA CheckSequenceTagDoes ==
    ASSUME NEW tag, CheckSequenceTag(tag)
    PROVE  /\ mLastReceivedScSeqTag' = tag
           /\ seqTag' = IF tag = NoTag THEN seqTag ELSE tag
           /\ mLargestEverSeenScSeqTag' =
                 IF tag = NoTag THEN mLargestEverSeenScSeqTag
                 ELSE Later(mLargestEverSeenScSeqTag, tag)
           /\ reported' = ReportedAfter(tag)
BY DEF CheckSequenceTag

\* The types of the numbers involved.
LEMMA TagNumbers ==
    ASSUME Bounds
    PROVE  /\ Len(ops) \in Nat /\ NoTag = -1 /\ NoSn = -1
           /\ scsn \in Int /\ -1 <= scsn /\ scsn <= Len(ops)
           /\ seqTag \in Int /\ -1 <= seqTag /\ seqTag <= Len(ops)
           /\ mLastReceivedScSeqTag \in Int /\ -1 <= mLastReceivedScSeqTag
           /\ mLastReceivedScSeqTag <= Len(ops)
           /\ mLargestEverSeenScSeqTag \in Int /\ -1 <= mLargestEverSeenScSeqTag
           /\ mLargestEverSeenScSeqTag <= Len(ops)
           /\ mCurrentSeqtag \in Int /\ -1 <= mCurrentSeqtag /\ mCurrentSeqtag <= Len(ops)
           /\ reported \in Int /\ -1 <= reported /\ reported <= Len(ops)
           /\ db.scsn \in Int /\ -1 <= db.scsn /\ db.scsn <= Len(ops)
           /\ db.seqTag \in Int /\ -1 <= db.seqTag /\ db.seqTag <= Len(ops)
BY DEF Bounds, TagTypes, DbTypes, OfLog, NoTag, NoSn

\* Every step keeps the tags in step with the tree.
LEMMA NextTagsInStep ==
    Ground /\ Bounds' /\ Ends /\ TagsInStep /\ [Next]_vars => TagsInStep'
\* Nodes are only fetched while the sc channel is off.
<1>NextReloading. Ground /\ Bounds' /\ Reloading /\ [Next]_vars => Reloading'
  <2> SUFFICES ASSUME Ground, Bounds', Reloading, [Next]_vars, IsFetchNodes', cs' = "processing"
               PROVE  mLastReceivedScSeqTag' = NoTag /\ ~actionpacketsCurrent'
    BY DEF Reloading
  <2>1. CASE UNCHANGED <<batch, cs, mLastReceivedScSeqTag, actionpacketsCurrent>>
    BY <2>1 DEF Reloading, IsFetchNodes
  <2>2. CASE OtherClientActs \/ NotifyPurge \/ FetchNodes \/ UNCHANGED vars \/ ScRequest
             \/ ApiTooMany \/ CommitInterim \/ StoreSn \/ ApplyPacket \/ ScFails
             \/ \E upto \in pendingsc.from..Len(ops), ir \in BOOLEAN : ApiAnswers(upto, ir)
    <3>1. UNCHANGED <<batch, cs, mLastReceivedScSeqTag, actionpacketsCurrent>>
      BY Zenon, <2>2 DEF OtherClientActs, NotifyPurge, FetchNodes, vars, ScRequest, ApiTooMany,
           CommitInterim, StoreSn, ApplyPacket, ScFails, ApiAnswers, reqs, sctags
    <3> QED
      BY Zenon, <2>1, <3>1
  <2>3. CASE SendBatch \/ SendFetchNodes \/ ApiExecutes \/ ApiRefuses \/ FetchNodesEnds \/ Restart
    <3>1. cs' # "processing"
      BY <2>3 DEF SendBatch, SendFetchNodes, ApiExecutes, ApiRefuses, FetchNodesEnds, Restart
    <3> QED
      BY <3>1
  <2>4. CASE CsResponse
    <3>1. ~IsFetchNodes /\ batch' = batch
      BY Zenon, <2>4, ProcessBatch DEF CsResponse
    <3> QED
      BY <3>1 DEF IsFetchNodes
  <2>5. CASE FetchNodesBegins
    BY <2>5 DEF FetchNodesBegins
  <2>6. CASE ScStart \/ CheckPacket \/ ArrayEnds
    <3>1. pendingsc' = pendingsc /\ pendingsc.status = "answered"
      BY <2>6 DEF ScStart, CheckPacket, AtPacket, ArrayEnds, Ground, Bounds, ScTypes
    <3>2. pendingsc'.status # "none"
      BY <3>1
    <3> QED
      BY <3>2 DEF Bounds, Idle
  <2>7. CASE ProcEoo
    <3>1. UNCHANGED batch /\ pendingsc.status = "answered"
      BY Zenon, <2>7 DEF ProcEoo, reqs, Ground, Bounds, ScTypes
    <3>2. ~IsFetchNodes
      BY <3>1, RequestHasSn
    <3> QED
      BY ZenonT(30), <3>1, <3>2 DEF IsFetchNodes
  <2> QED
    BY Zenon, <2>2, <2>3, <2>4, <2>5, <2>6, <2>7 DEF Next, ScRead
\* The last tag received is that of an operation with a tag.
<1>NextTaggedLast. Ground /\ TaggedLast /\ [Next]_vars => TaggedLast'
  <2> SUFFICES ASSUME Ground, TaggedLast, [Next]_vars PROVE TaggedLast'
    OBVIOUS
  <2>1. CASE UNCHANGED mLastReceivedScSeqTag
    <3> SUFFICES ASSUME mLastReceivedScSeqTag # NoTag
                 PROVE  mLastReceivedScSeqTag > 0 /\ ops'[mLastReceivedScSeqTag].kind \in Tagged
      BY <2>1 DEF TaggedLast
    <3>1. mLastReceivedScSeqTag > 0 /\ ops[mLastReceivedScSeqTag].kind \in Tagged
      BY DEF TaggedLast
    <3>2. mLastReceivedScSeqTag \in 1..Len(ops)
      BY <3>1, TagNumbers DEF Ground
    <3> QED
      BY Zenon, <3>1, <3>2, LogOnlyGrows DEF Ground
  <2>2. CASE mLastReceivedScSeqTag' = NoTag
    BY <2>2 DEF TaggedLast
  <2>3. CASE QuietStep \/ SendFetchNodes \/ FetchNodesEnds \/ ScRequest \/ ApiTooMany \/ ScFails
             \/ CommitInterim \/ ScStart \/ ApplyPacket \/ StoreSn \/ ProcEoo
             \/ \E upto \in pendingsc.from..Len(ops), ir \in BOOLEAN : ApiAnswers(upto, ir)
    <3>1. UNCHANGED mLastReceivedScSeqTag
      BY ZenonT(30), <2>3, QuietSteps DEF scside, SendFetchNodes, FetchNodesEnds, ScRequest, ApiTooMany,
           ScFails, CommitInterim, ScStart, ApplyPacket, StoreSn, ProcEoo, ApiAnswers, sctags
    <3> QED
      BY Zenon, <2>1, <3>1
  <2>4. CASE FetchNodesBegins \/ Restart
    BY Zenon, <2>2, <2>4 DEF FetchNodesBegins, Restart
  <2>5. CASE ArrayEnds
    BY <2>2, <2>5, CheckSequenceTagDoes DEF ArrayEnds
  <2>6. CASE CheckPacket
    <3> DEFINE tag == St(parser.op, parser.part)
    <3>1. /\ parser.op \in 1..Len(ops) /\ ops' = ops
          /\ UNCHANGED sctags \/ CheckSequenceTag(tag)
      BY <2>6, CheckDoes
    <3>2. UNCHANGED mLastReceivedScSeqTag \/ mLastReceivedScSeqTag' = tag
      BY Zenon, <3>1, CheckSequenceTagDoes DEF sctags
    <3>3. tag # NoTag => tag = parser.op /\ ops[parser.op].kind # "n" /\ ops[parser.op] \in Operation
      BY <3>1 DEF St, Ground, Bounds
    <3>4. tag # NoTag => tag > 0 /\ ops[tag].kind \in Tagged
      BY <3>1, <3>3 DEF Operation, Tagged
    <3> HIDE DEF tag
    <3>5. CASE mLastReceivedScSeqTag' = tag
      BY <3>1, <3>4, <3>5 DEF TaggedLast
    <3> QED
      BY ZenonT(30), <2>1, <3>2, <3>5
  <2> QED
    BY Zenon, <2>3, <2>4, <2>5, <2>6 DEF Next, ScRead, QuietStep
\* The state cache has the tag of an operation that it shows, or of the one that a
\* streaming client was reading.
<1>NextCachedTag. Ground /\ Ends /\ TagsInStep /\ [Next]_vars => CachedTag'
  <2> SUFFICES ASSUME Ground, Ends, TagsInStep, [Next]_vars PROVE CachedTag'
    OBVIOUS
  <2> USE DEF TagsInStep
  <2>1. CASE UNCHANGED db
    BY <2>1 DEF CachedTag
  <2>2. CASE Streaming /\ scsn # NoSn /\ db' = [scsn |-> scsn, applied |-> applied, seqTag |-> seqTag]
    <3>1. Done = scsn
      BY <2>2, CutHere DEF Ends
    <3>2. db'.scsn = scsn /\ db'.seqTag = seqTag
      BY <2>2
    <3> QED
      BY Zenon, <2>2, <3>1, <3>2 DEF CachedTag, TagsRead
  <2>3. ASSUME streaming.mNeedToPurge PROVE Streaming /\ scsn # NoSn
    <3>1. Streaming /\ parser.stage # "idle"
      BY <2>3 DEF Ends, PurgeLater
    <3>2. pendingsc.status # "none"
      BY Zenon, <3>1 DEF Ground, Bounds, ScTypes
    <3> QED
      BY <3>1, <3>2, RequestHasSn
  <2>4. ASSUME ClearStreamingParser PROVE CachedTag'
    BY ZenonT(30), <2>1, <2>2, <2>3, <2>4 DEF ClearStreamingParser, PurgeAndCommit
  <2>5. CASE SendFetchNodes \/ ScFails
    BY Zenon, <2>4, <2>5 DEF SendFetchNodes, ScFails
  <2>6. CASE CommitInterim
    BY ZenonT(30), <2>2, <2>3, <2>6 DEF CommitInterim, PurgeAndCommit
  <2>7. CASE FetchNodesBegins
    BY Zenon, <2>7 DEF FetchNodesBegins, CachedTag
  <2>8. CASE FetchNodesEnds
    <3> DEFINE k == batch[1].st
    <3>1. db'.scsn = k /\ db'.seqTag = k /\ IsFetchNodes /\ cs = "processing"
      BY ZenonT(30), <2>8 DEF FetchNodesEnds
    <3>2. k \in Int /\ 0 <= k
      BY <3>1 DEF Ground, Bounds, CsTypes, OfLog, IsFetchNodes
    <3> HIDE DEF k
    <3> QED
      BY <3>1, <3>2 DEF CachedTag, NoTag
  <2>9. CASE StoreSn
    <3>1. db'.scsn = pendingsc.upto /\ db'.seqTag = seqTag /\ parser.stage = "sn"
      BY <2>9 DEF StoreSn, PurgeAndCommit
    <3>2. pendingsc.status = "answered" /\ pendingsc.upto \in Nat
      BY Zenon, <3>1 DEF Ground, Bounds, ScTypes, Request
    <3>3. scsn # NoSn
      BY <3>2, RequestHasSn
    <3>4. seqTag # NoTag /\ seqTag <= pendingsc.upto /\ seqTag \in Int
      BY Zenon, <3>2, <3>3, TagNumbers DEF TagsRead, Ground
    <3> QED
      BY <3>1, <3>2, <3>4 DEF CachedTag
  <2>10. CASE QuietStep \/ ScRequest \/ ApiTooMany \/ ScStart \/ CheckPacket \/ ApplyPacket
              \/ ArrayEnds \/ ProcEoo \/ Restart
              \/ \E upto \in pendingsc.from..Len(ops), ir \in BOOLEAN : ApiAnswers(upto, ir)
    <3>1. UNCHANGED db
      BY Zenon, <2>10, QuietSteps DEF scside, ScRequest, ApiTooMany, ScStart, CheckPacket, ApplyPacket,
           ArrayEnds, ProcEoo, Restart, ApiAnswers
    <3> QED
      BY Zenon, <2>1, <3>1
  <2> QED
    BY <2>5, <2>6, <2>7, <2>8, <2>9, <2>10 DEF Next, ScRead, QuietStep
\* sc_checkSequenceTag() reads tags in the order of the log.
<1>NextTagsRead. Ground /\ Ends /\ TagsInStep /\ [Next]_vars => TagsRead'
  <2> SUFFICES ASSUME Ground, Ends, TagsInStep, [Next]_vars PROVE TagsRead'
    OBVIOUS
  <2>0. Bounds /\ Len(ops) \in Nat /\ NoTag = -1 /\ seqTag \in Int /\ mLastReceivedScSeqTag \in Int
    BY TagNumbers DEF Ground
  <2>1. CASE QuietStep \/ CommitInterim
    <3>1. UNCHANGED <<scsn, pendingsc, parser, sctags>>
      BY <2>1, QuietSteps DEF scside, CommitInterim
    <3> QED
      BY <3>1 DEF TagsInStep, TagsRead, Done, sctags
  <2>2. CASE SendFetchNodes \/ FetchNodesBegins \/ ApiTooMany
    BY <2>2, GoneSteps DEF Ground, TagsRead
  <2>3. CASE FetchNodesEnds
    <3> DEFINE k == batch[1].st
    <3>1. /\ scsn' = k /\ seqTag' = k /\ IsFetchNodes /\ cs = "processing"
          /\ UNCHANGED <<pendingsc, parser, mLastReceivedScSeqTag>>
      BY ZenonT(30), <2>3 DEF FetchNodesEnds
    <3>2. k \in Int /\ 0 <= k /\ pendingsc.status = "none" /\ parser.stage = "idle"
      BY <3>1 DEF Ground, Bounds, CsTypes, OfLog, IsFetchNodes, Idle, ScTypes
    <3>3. mLastReceivedScSeqTag = NoTag
      BY <3>1 DEF TagsInStep, Reloading
    <3> HIDE DEF k
    <3>4. Done' = k
      BY <3>1, <3>2 DEF Done
    <3> QED
      BY <2>0, <3>1, <3>2, <3>3, <3>4 DEF TagsRead
  <2>4. CASE Restart
    <3>1. /\ scsn' = db.scsn /\ seqTag' = db.seqTag /\ mLastReceivedScSeqTag' = NoTag
          /\ pendingsc' = NoRequest /\ parser' = NoParser
      BY Zenon, <2>4 DEF Restart
    <3>2. Done' = db.scsn
      BY <3>1 DEF Done, NoParser
    <3>3. db.scsn \in Int /\ -1 <= db.scsn
      BY Zenon, <2>0, TagNumbers
    <3> QED
      BY <2>0, <3>1, <3>2, <3>3 DEF TagsRead, TagsInStep, CachedTag, NoRequest
  <2>5. CASE ScRequest \/ ScFails \/ ProcEoo
    <3>1. /\ UNCHANGED <<scsn, sctags>> /\ pendingsc'.status # "answered"
          /\ parser'.stage = "idle"
      <4>1. CASE ScRequest
        <5>1. UNCHANGED <<scsn, sctags, parser>> /\ pendingsc.status = "none"
              /\ pendingsc' = [NoRequest EXCEPT !.status = "sent", !.from = scsn]
          BY ZenonT(30), <4>1 DEF ScRequest
        <5> QED
          BY <5>1 DEF Ground, Bounds, ScTypes, NoRequest
      <4>2. CASE ScFails \/ ProcEoo
        BY <4>2 DEF ScFails, ProcEoo, NoRequest, NoParser
      <4> QED
        BY <2>5, <4>1, <4>2
    <3>2. Streaming \/ parser.stage \in {"idle", "eoo"}
      BY <2>5 DEF ScRequest, ScFails, ProcEoo, Ground, Bounds, ScTypes
    <3>3. scsn # NoSn => Done = scsn
      BY <3>2, CutHere DEF Ends
    <3>4. Done' = scsn
      BY <3>1 DEF Done
    <3> QED
      BY <3>1, <3>3, <3>4 DEF TagsInStep, TagsRead, sctags
  <2>6. ASSUME NEW upto \in pendingsc.from..Len(ops), NEW ir \in BOOLEAN, ApiAnswers(upto, ir)
        PROVE  TagsRead'
    <3>1. /\ pendingsc' = [pendingsc EXCEPT !.status = "answered", !.upto = upto, !.ir = ir]
          /\ pendingsc.status = "sent" /\ (upto > pendingsc.from \/ pendingsc.from = Len(ops))
          /\ UNCHANGED <<scsn, parser, sctags>>
      BY <2>6 DEF ApiAnswers
    <3>2. parser.stage = "idle" /\ pendingsc \in Request
      BY <3>1 DEF Ground, Bounds, ScTypes
    <3>3. scsn # NoSn /\ pendingsc.from = scsn /\ scsn \in Nat
      BY <3>1, <3>2, RequestHasSn
    <3>4. Done = scsn /\ Done' = scsn
      BY <3>1, <3>2 DEF Done
    <3>5. /\ seqTag <= scsn + 1 /\ mLastReceivedScSeqTag <= scsn + 1 /\ seqTag # NoTag
          /\ seqTag <= Len(ops) /\ mLastReceivedScSeqTag <= Len(ops)
      BY <2>0, <3>3, <3>4, TagNumbers DEF TagsInStep, TagsRead
    <3>6. seqTag <= upto /\ mLastReceivedScSeqTag <= upto
      BY <2>0, <3>1, <3>3, <3>5
    <3>7. pendingsc'.upto = upto
      BY <3>1, <3>2 DEF Request
    <3> QED
      BY <3>1, <3>4, <3>5, <3>6, <3>7 DEF TagsRead, sctags
  <2>7. CASE ScStart
    <3>1. /\ UNCHANGED <<scsn, pendingsc, sctags>> /\ parser.stage = "idle"
          /\ parser' = [NoParser EXCEPT !.stage = "a", !.op = pendingsc.from + 1]
          /\ pendingsc.status = "answered"
      BY <2>7 DEF ScStart
    <3>2. parser'.stage = "a" /\ parser'.op = pendingsc.from + 1
      BY <3>1 DEF NoParser
    <3>3. scsn # NoSn /\ pendingsc.from = scsn /\ scsn \in Nat
      BY <3>1, RequestHasSn
    <3>4. Done = scsn /\ Done' = scsn
      BY <3>1, <3>2, <3>3 DEF Done
    <3> QED
      BY <3>1, <3>4 DEF TagsInStep, TagsRead, sctags
  <2>8. CASE CheckPacket
    <3> DEFINE tag == St(parser.op, parser.part)
    <3>1. /\ UNCHANGED <<scsn, pendingsc>> /\ Done' = Done /\ Done = parser.op - 1 /\ scsn # NoSn
          /\ pendingsc.status = "answered" /\ parser.op <= pendingsc.upto /\ parser.op \in 1..Len(ops)
          /\ UNCHANGED sctags \/ CheckSequenceTag(tag)
      BY Zenon, <2>8, CheckDoes
    <3>2. tag \in {NoTag, parser.op}
      BY DEF St
    <3> HIDE DEF tag
    <3>3. pendingsc.upto \in Nat /\ Done + 1 = parser.op /\ parser.op \in Nat /\ Done \in Int
      BY <3>1, RequestHasSn
    <3>4. /\ seqTag' \in {seqTag, parser.op} /\ mLastReceivedScSeqTag' \in {mLastReceivedScSeqTag, NoTag, parser.op}
      BY <3>1, <3>2, CheckSequenceTagDoes DEF sctags
    <3>5. /\ seqTag # NoTag /\ seqTag <= Done + 1 /\ mLastReceivedScSeqTag <= Done + 1
          /\ seqTag <= pendingsc.upto /\ mLastReceivedScSeqTag <= pendingsc.upto
      BY <3>1 DEF TagsInStep, TagsRead
    <3>6. seqTag' # NoTag /\ seqTag' <= Done + 1 /\ seqTag' <= pendingsc.upto
      <4>1. parser.op # NoTag /\ parser.op <= Done + 1
        BY <3>3 DEF NoTag
      <4> QED
        BY Zenon, <3>1, <3>4, <3>5, <4>1
    <3>7. mLastReceivedScSeqTag' <= Done + 1 /\ mLastReceivedScSeqTag' <= pendingsc.upto
      <4>1. parser.op <= Done + 1 /\ NoTag <= Done + 1 /\ parser.op <= pendingsc.upto /\ NoTag <= pendingsc.upto
        BY <2>0, <3>1, <3>3
      <4> QED
        BY Zenon, <3>4, <3>5, <4>1
    <3> QED
      BY ZenonT(30), <3>1, <3>6, <3>7 DEF TagsRead
  <2>9. CASE ApplyPacket
    <3>1. /\ UNCHANGED <<pendingsc, sctags>> /\ scsn # NoSn /\ parser'.stage = "a"
          /\ parser.op \in 1..Len(ops) /\ Done = parser.op - 1
          /\ parser'.op = parser.op \/ parser'.op = parser.op + 1
      BY Zenon, <2>9, ApplyDoes
    <3>2. Done' = parser'.op - 1
      BY <3>1 DEF Done
    <3>3. Done + 1 = parser.op /\ Done' + 1 = parser'.op
      BY <3>1, <3>2
    <3>4. seqTag <= parser.op /\ mLastReceivedScSeqTag <= parser.op
      BY <3>1, <3>3 DEF TagsInStep, TagsRead
    <3>5. seqTag <= parser'.op /\ mLastReceivedScSeqTag <= parser'.op
      BY <2>0, <3>1, <3>4
    <3> QED
      BY Zenon, <3>1, <3>3, <3>5 DEF TagsInStep, TagsRead, sctags
  <2>10. CASE ArrayEnds
    <3>1. /\ UNCHANGED <<scsn, pendingsc>> /\ Done' = Done /\ Done = pendingsc.upto /\ scsn # NoSn
          /\ pendingsc.status = "answered" /\ CheckSequenceTag(NoTag)
      BY Zenon, <2>10, AtArrayEnd DEF Ends
    <3>2. seqTag' = seqTag /\ mLastReceivedScSeqTag' = NoTag /\ pendingsc.upto \in Nat
      BY <3>1, CheckSequenceTagDoes, RequestHasSn
    <3> QED
      BY <2>0, <3>1, <3>2 DEF TagsInStep, TagsRead
  <2>11. CASE StoreSn
    <3>1. /\ UNCHANGED <<pendingsc, sctags>> /\ parser.stage = "sn" /\ scsn' = pendingsc.upto
          /\ parser' = [parser EXCEPT !.stage = "eoo"]
      BY <2>11 DEF StoreSn
    <3>2. parser \in Position /\ pendingsc.status = "answered"
      BY <3>1 DEF Ground, Bounds, ScTypes
    <3>3. scsn # NoSn /\ parser'.stage = "eoo"
      BY <3>1, <3>2, RequestHasSn DEF Position
    <3>4. Done = pendingsc.upto /\ Done' = pendingsc.upto
      BY <3>1, <3>3 DEF Done
    <3> QED
      BY <3>1, <3>3, <3>4 DEF TagsInStep, TagsRead, sctags
  <2> QED
    BY ZenonT(30), <2>1, <2>2, <2>3, <2>4, <2>5, <2>6, <2>7, <2>8, <2>9, <2>10, <2>11
       DEF Next, ScRead, QuietStep
<1> SUFFICES ASSUME Ground, Bounds', Ends, TagsInStep, [Next]_vars PROVE TagsInStep'
  OBVIOUS
<1>1. TaggedLast /\ Reloading
  BY DEF TagsInStep
<1> QED
  BY Zenon, <1>1, <1>NextTagsRead, <1>NextTaggedLast, <1>NextCachedTag, <1>NextReloading DEF TagsInStep

-----------------------------------------------------------------------------
(* What the syncs are shown.                                               *)

\* The tree that the syncs see ends between two operations, and with none that a
\* packet has been seen of before.
Shown ==
    actionpacketsCurrent =>
        /\ parser.stage = "idle"
        /\ \A k \in 1..Len(ops) :
              Whole(k, applied) \/ (<<k, 1>> \notin applied /\ <<k, 2>> \notin applied)
        /\ \A k \in 1..mLargestEverSeenScSeqTag : Whole(k, applied)

\* Every step keeps what the syncs see whole.
LEMMA NextShown == Ground /\ Bounds' /\ Ends /\ TagsInStep /\ Shown /\ [Next]_vars => Shown'
\* A step that lets the syncs go on looking changes nothing they see.
<1>ShownKept.
      ASSUME Ground, Bounds', TagsInStep, Shown, [Next]_vars, actionpacketsCurrent', ~ProcEoo
      PROVE  /\ actionpacketsCurrent /\ parser'.stage = "idle" /\ applied' = applied
             /\ mLargestEverSeenScSeqTag' = mLargestEverSeenScSeqTag
  <2> USE <1>ShownKept
  <2>1. CASE QuietStep \/ ScRequest \/ CommitInterim \/ ApiTooMany
             \/ \E upto \in pendingsc.from..Len(ops), ir \in BOOLEAN : ApiAnswers(upto, ir)
    <3>1. UNCHANGED <<actionpacketsCurrent, parser, applied, mLargestEverSeenScSeqTag>>
      BY ZenonT(30), <2>1, QuietSteps DEF scside, ScRequest, CommitInterim, ApiTooMany, ApiAnswers, sctags, tree
    <3> QED
      BY Zenon, <3>1 DEF Shown
  <2>2. CASE SendFetchNodes \/ ScFails
    <3>1. UNCHANGED <<actionpacketsCurrent, applied, mLargestEverSeenScSeqTag>> /\ parser' = NoParser
      BY Zenon, <2>2 DEF SendFetchNodes, ScFails, sctags
    <3> QED
      BY Zenon, <3>1 DEF NoParser
  <2>3. CASE FetchNodesBegins \/ Restart \/ ScStart
    BY <2>3 DEF FetchNodesBegins, Restart, ScStart, CurrentOnResume
  <2>4. CASE FetchNodesEnds
    <3>1. IsFetchNodes /\ cs = "processing" /\ UNCHANGED actionpacketsCurrent
      BY Zenon, <2>4 DEF FetchNodesEnds
    <3> QED
      BY <3>1 DEF TagsInStep, Reloading
  <2>5. CASE CheckPacket \/ ApplyPacket \/ ArrayEnds \/ StoreSn
    <3>1. UNCHANGED actionpacketsCurrent /\ parser.stage # "idle"
      BY ZenonT(30), <2>5 DEF CheckPacket, ApplyPacket, ArrayEnds, StoreSn, AtPacket
    <3> QED
      BY <3>1 DEF Shown
  <2> QED
    BY Zenon, <2>1, <2>2, <2>3, <2>4, <2>5 DEF Next, ScRead, QuietStep
<1> SUFFICES ASSUME Ground, Bounds', Ends, TagsInStep, Shown, [Next]_vars, actionpacketsCurrent'
             PROVE  Shown'
  BY DEF Shown
<1>1. CASE ProcEoo
  <2>1. /\ UNCHANGED <<ops, applied, mLargestEverSeenScSeqTag>> /\ parser' = NoParser
        /\ parser.stage = "eoo" /\ ~ScTagNotCaughtUp
    BY ZenonT(30), <1>1 DEF ProcEoo, server, tree, sctags
  <2>2. pendingsc.status = "answered"
    BY Zenon, <2>1 DEF Ground, Bounds, ScTypes
  <2>3. /\ scsn # NoSn /\ Done = scsn /\ scsn \in Nat /\ \A k \in 1..scsn : Whole(k, applied)
    BY <2>1, <2>2, RequestHasSn, DoneWhole
  <2>4. Untouched(scsn, applied) /\ <<scsn + 1, 1>> \notin applied /\ scsn = pendingsc.upto
    BY Zenon, <2>1, <2>3 DEF Ends, Frontier
  <2>5. \A k \in 1..Len(ops) :
           Whole(k, applied) \/ (<<k, 1>> \notin applied /\ <<k, 2>> \notin applied)
    <3> SUFFICES ASSUME NEW k \in 1..Len(ops), ~(k \in 1..scsn)
                 PROVE  <<k, 1>> \notin applied /\ <<k, 2>> \notin applied
      BY Zenon, <2>3
    <3>1. k \in Nat /\ k > scsn /\ (k = scsn + 1 \/ k > scsn + 1)
      BY <2>3, TagNumbers DEF Ground
    <3> QED
      BY Zenon, <2>4, <3>1 DEF Untouched
  <2>6. mLargestEverSeenScSeqTag <= scsn
    <3>1. seqTag # NoTag /\ seqTag <= scsn
      BY <2>2, <2>3, <2>4 DEF TagsInStep, TagsRead
    <3> QED
      BY <2>1, <2>3, <3>1, TagNumbers DEF ScTagNotCaughtUp, Ground
  <2>7. \A k \in 1..mLargestEverSeenScSeqTag : Whole(k, applied)
    <3>1. \A k \in 1..mLargestEverSeenScSeqTag : k \in 1..scsn
      BY <2>3, <2>6, TagNumbers DEF Ground
    <3> QED
      BY Zenon, <2>3, <3>1
  <2> QED
    BY Zenon, <2>1, <2>5, <2>7 DEF Shown, Whole, NoParser
<1>2. CASE ~ProcEoo
  <2>1. /\ actionpacketsCurrent /\ parser'.stage = "idle" /\ applied' = applied
        /\ mLargestEverSeenScSeqTag' = mLargestEverSeenScSeqTag
    BY Zenon, <1>2, <1>ShownKept
  <2>2. ASSUME NEW k \in 1..Len(ops')
        PROVE  Whole(k, applied)' \/ (<<k, 1>> \notin applied /\ <<k, 2>> \notin applied)
    <3>1. CASE k \in 1..Len(ops)
      <4>1. ops'[k] = ops[k]
        BY Zenon, <3>1, LogOnlyGrows DEF Ground
      <4> QED
        BY Zenon, <2>1, <3>1, <4>1 DEF Shown, Whole
    <3>2. CASE k \notin 1..Len(ops)
      BY Zenon, <3>2, BeyondLog DEF Ground, Bounds, Trees
    <3> QED
      BY Zenon, <3>1, <3>2
  <2>3. ASSUME NEW k \in 1..mLargestEverSeenScSeqTag PROVE Whole(k, applied)'
    <3>1. k \in 1..Len(ops)
      BY TagNumbers DEF Ground
    <3>2. ops'[k] = ops[k]
      BY Zenon, <3>1, LogOnlyGrows DEF Ground
    <3> QED
      BY Zenon, <2>1, <3>2 DEF Shown, Whole
  <2> QED
    BY Zenon, <2>1, <2>2, <2>3 DEF Shown
<1> QED
  BY Zenon, <1>1, <1>2

\* Shown is what the two properties about the syncs say.
LEMMA WholeIsPackets ==
    ASSUME NEW k, NEW a
    PROVE  /\ Whole(k, a) => Packets(k) \subseteq a
           /\ <<k, 1>> \notin a /\ <<k, 2>> \notin a => Packets(k) \cap a = {}
<1>1. \A x \in Packets(k) : \E p \in 1..Parts(ops[k].kind) : x = <<k, p>> /\ p \in {1, 2}
  BY PartsType DEF Packets
<1> QED
  BY <1>1 DEF Whole, WholeOp

\* The two properties about the syncs follow.
LEMMA ShownProperties == Shown => SyncsSeeWholeOperations /\ SyncsNeverGoBack
<1>1. Shown => SyncsSeeWholeOperations
  BY Zenon, WholeIsPackets DEF Shown, SyncsSeeWholeOperations
<1>2. Shown => SyncsNeverGoBack
  BY Zenon, WholeIsPackets DEF Shown, SyncsNeverGoBack
<1> QED
  BY Zenon, <1>1, <1>2

-----------------------------------------------------------------------------
(* The results that wait for their tags.                                   *)

\* The sc channel is stopped only while it has no sequence number.
Stops == (stopsc => scsn = NoSn) /\ (IsFetchNodes => ~stopsc)

\* Result j has a tag to wait for.
Waits(j) == batch[j].st # NoTag

\* The first packet with that tag has neither been applied nor been let through.
Coming(j) ==
    /\ <<batch[j].st, 1>> \notin applied
    /\ ~(parser.checked /\ parser.part = 1 /\ parser.op = batch[j].st)

\* The tags of an executed batch are those of its operations, in order.
Numbered ==
    \A i \in 1..Len(batch) : Waits(i) =>
        /\ batch[i].st \in 1..Len(ops) /\ batch[i].kind \in {"u", "m"}
        /\ ops[batch[i].st].kind = batch[i].kind
        /\ \A j \in 1..Len(batch) : i < j /\ Waits(j) => batch[i].st < batch[j].st

\* The results still to be handed out wait for packets still to come.
Results ==
    ~IsFetchNodes =>
        /\ cs # "processing" => processindex = 1
        /\ cs \in {"sent", "refused"} => \A i \in 1..Len(batch) : ~Waits(i)
        /\ cs \in {"executed", "processing"} => Numbered
        /\ cs = "executed" => \A i \in 1..Len(batch) : Waits(i) => Coming(i)
        /\ cs = "processing" =>
              /\ processindex \in 1..Len(batch) /\ Waits(processindex)
              /\ mCurrentSeqtag = batch[processindex].st
              /\ \A i \in processindex..Len(batch) :
                    Waits(i) /\ ~(i = processindex /\ mCurrentSeqtagSeen) => Coming(i)

\* The channel comes back with its sequence number.
LEMMA NextStops == Ground /\ Stops /\ [Next]_vars => Stops'
\* Only CommandFetchNodes makes a batch of its own.
<1>FetchBatch.
      ASSUME Bounds, [Next]_vars, IsFetchNodes', ~SendFetchNodes
      PROVE  IsFetchNodes
  <2> USE <1>FetchBatch
  <2>0. (batch' = <<>>) => ~IsFetchNodes'
    <3>1. batch' = <<>> => Len(batch') = 0
      OBVIOUS
    <3> QED
      BY <3>1 DEF IsFetchNodes
  <2>1. CASE batch' = batch
    BY Zenon, <2>1 DEF IsFetchNodes
  <2>2. CASE SendBatch
    <3>1. PICK b \in Batches : batch' = [i \in DOMAIN b |-> [kind |-> b[i], st |-> NoTag]]
      BY Zenon, <2>2 DEF SendBatch
    <3>2. b \in Seq({"u", "m", "p"}) /\ b # <<>>
      BY ScChannelAssumption DEF ScChannelAssumption
    <3>3. DOMAIN b = 1..Len(b) /\ Len(b) \in Nat /\ 1 \in 1..Len(b) /\ b[1] \in {"u", "m", "p"}
      BY <3>2
    <3>4. batch'[1].kind = b[1]
      BY Zenon, <3>1, <3>3
    <3> QED
      BY Zenon, <3>3, <3>4 DEF IsFetchNodes
  <2>3. CASE ApiExecutes /\ ~IsFetchNodes
    <3>1. batch \in Seq(Command) /\ ops \in Seq(Operation)
          /\ \A i \in 1..Len(batch) : batch[i].kind \in {"u", "m", "p"}
      BY ZenonT(30), <2>3 DEF Bounds, CsTypes
    <3>2. Len(batch') = Len(batch) /\ \A i \in 1..Len(batch) : batch'[i].kind = batch[i].kind
      BY Zenon, <2>3, <3>1, ApiExecuted
    <3>3. Len(batch) = 1 => batch'[1].kind = batch[1].kind
      BY <3>2
    <3> QED
      BY Zenon, <2>3, <3>2, <3>3 DEF IsFetchNodes
  <2>4. CASE CsResponse \/ CheckPacket \/ ArrayEnds
    <3>1. batch' = batch \/ batch' = <<>>
      BY ZenonT(30), <2>4 DEF CsResponse, CheckPacket, ArrayEnds, CheckSequenceTag, Process, reqs
    <3> QED
      BY <2>0, <2>1, <3>1
  <2>5. CASE FetchNodesEnds \/ Restart
    BY Zenon, <2>0, <2>5 DEF FetchNodesEnds, Restart
  <2>6. CASE OtherClientActs \/ NotifyPurge \/ ApiRefuses \/ FetchNodesBegins \/ FetchNodes
             \/ ScRequest \/ ApiTooMany \/ ScFails \/ CommitInterim \/ UNCHANGED vars
             \/ ScStart \/ ApplyPacket \/ StoreSn \/ ProcEoo
             \/ \E upto \in pendingsc.from..Len(ops), ir \in BOOLEAN : ApiAnswers(upto, ir)
    <3>1. batch' = batch
      BY ZenonT(30), <2>6 DEF OtherClientActs, NotifyPurge, ApiRefuses, FetchNodesBegins, FetchNodes,
           ScRequest, ApiTooMany, ScFails, CommitInterim, vars, ScStart, ApplyPacket, StoreSn,
           ProcEoo, ApiAnswers, reqs
    <3> QED
      BY Zenon, <2>1, <3>1
  <2> QED
    BY Zenon, <2>2, <2>3, <2>4, <2>5, <2>6 DEF Next, ScRead
<1> SUFFICES ASSUME Ground, Stops, [Next]_vars PROVE Stops'
  OBVIOUS
<1>1. CASE SendFetchNodes \/ FetchNodesBegins \/ Restart
  BY Zenon, <1>1 DEF Stops, SendFetchNodes, FetchNodesBegins, Restart
<1>2. CASE ApiTooMany
  <2>1. scsn' = NoSn /\ batch' = batch /\ pendingsc.status = "sent"
    BY Zenon, <1>2 DEF ApiTooMany, reqs
  <2>2. ~IsFetchNodes
    BY <2>1, RequestHasSn
  <2> QED
    BY Zenon, <2>1, <2>2 DEF Stops, IsFetchNodes
<1>3. CASE ~SendFetchNodes /\ stopsc' = stopsc /\ (scsn' = scsn \/ ~stopsc)
  <2>1. IsFetchNodes' => IsFetchNodes
    BY <1>3, <1>FetchBatch DEF Ground
  <2> QED
    BY <1>3, <2>1 DEF Stops
<1>4. CASE QuietStep \/ ScRequest \/ ScFails \/ CommitInterim \/ ScStart \/ CheckPacket
           \/ ArrayEnds \/ ProcEoo
           \/ \E upto \in pendingsc.from..Len(ops), ir \in BOOLEAN : ApiAnswers(upto, ir)
  <2>1. stopsc' = stopsc /\ scsn' = scsn
    BY Zenon, <1>4, QuietSteps DEF scside, ScRequest, ScFails, CommitInterim, ScStart, CheckPacket,
         ArrayEnds, ProcEoo, ApiAnswers
  <2> QED
    BY Zenon, <1>1, <1>3, <2>1
<1>5. CASE ApplyPacket \/ StoreSn
  <2>1. stopsc' = stopsc /\ pendingsc.status = "answered"
    BY Zenon, <1>5 DEF ApplyPacket, StoreSn, AtPacket, Ground, Bounds, ScTypes
  <2>2. ~stopsc
    BY <2>1, RequestHasSn DEF Stops
  <2> QED
    BY ZenonT(30), <1>1, <1>3, <2>1, <2>2
<1>6. CASE FetchNodesEnds
  <2>1. stopsc' = stopsc /\ IsFetchNodes
    BY Zenon, <1>6 DEF FetchNodesEnds
  <2> QED
    BY Zenon, <1>1, <1>3, <2>1 DEF Stops
<1> QED
  BY <1>1, <1>2, <1>4, <1>5, <1>6 DEF Next, ScRead, QuietStep

\* Request::process() with the sc channel on: what it leaves waits for its tag.
LEMMA ProcessWaits ==
    ASSUME Bounds, Process, ScsnReady
    PROVE  \/ cs' = "idle" /\ batch' = <<>> /\ processindex' = 1 /\ mCurrentSeqtag' = NoTag
           \/ /\ cs' = "processing" /\ batch' = batch /\ processindex' = StopIndex
              /\ StopIndex \in 1..Len(batch) /\ processindex <= StopIndex /\ Waits(StopIndex)
              /\ mCurrentSeqtag' = batch[StopIndex].st /\ NextSeqtag = batch[StopIndex].st
              /\ batch[processindex].st = mCurrentSeqtag => processindex < StopIndex
<1>1. /\ batch \in Seq(Command) /\ processindex \in Int /\ 1 <= processindex
      /\ processindex <= Len(batch) + 1 /\ Len(batch) \in Nat
  BY DEF Bounds, CsTypes
<1>2. /\ StopIndex \in Int /\ processindex <= StopIndex /\ StopIndex <= Len(batch) + 1
      /\ StopIndex <= Len(batch) =>
            /\ batch[StopIndex].st # NoTag
            /\ ~(StopIndex = processindex /\ batch[StopIndex].st = mCurrentSeqtag)
  BY <1>1, StopIndexIs
<1>3. CASE StopIndex <= Len(batch)
  <2>1. /\ cs' = "processing" /\ batch' = batch /\ processindex' = StopIndex
        /\ mCurrentSeqtag' = batch[StopIndex].st /\ NextSeqtag = batch[StopIndex].st
    BY <1>3 DEF Process, NextSeqtag
  <2>2. batch[processindex].st = mCurrentSeqtag => processindex # StopIndex
    BY Zenon, <1>2, <1>3
  <2> HIDE DEF StopIndex
  <2>3. StopIndex \in 1..Len(batch) /\ (processindex # StopIndex => processindex < StopIndex)
    BY <1>1, <1>2, <1>3
  <2> QED
    BY Zenon, <1>2, <1>3, <2>1, <2>2, <2>3 DEF Waits
<1>4. CASE ~(StopIndex <= Len(batch))
  BY Zenon, <1>4 DEF Process, NextSeqtag
<1> QED
  BY Zenon, <1>3, <1>4

\* sc_checkSequenceTag() and the results that wait: it leaves them alone, or hands out
\* the first of them and makes the next one wait for its own tag.
LEMMA CheckWaits ==
    ASSUME Bounds, Results, ~IsFetchNodes, ScsnReady, NEW tag, CheckSequenceTag(tag)
    PROVE  \/ /\ ~Exhausted(tag)
              /\ UNCHANGED <<batch, cs, processindex, mCurrentSeqtag, delivered>>
              /\ mCurrentSeqtagSeen' = (mCurrentSeqtagSeen \/ (tag # NoTag /\ mCurrentSeqtag = tag))
           \/ /\ Exhausted(tag) /\ cs = "processing"
              /\ \A x \in delivered' \ delivered : x = mCurrentSeqtag
              /\ \/ /\ cs' = "idle" /\ batch' = <<>> /\ processindex' = 1
                    /\ mCurrentSeqtag' = NoTag
                 \/ /\ cs' = "processing" /\ batch' = batch
                    /\ processindex' \in 1..Len(batch) /\ processindex < processindex'
                    /\ Waits(processindex') /\ mCurrentSeqtag' = batch[processindex'].st
                    /\ mCurrentSeqtagSeen' = (tag # NoTag /\ mCurrentSeqtag' = tag)
<1>1. CASE ~Exhausted(tag)
  BY Zenon, <1>1 DEF CheckSequenceTag, reqs
<1>2. CASE Exhausted(tag)
  <2>1. /\ Process /\ mCurrentSeqtagSeen' = (tag # NoTag /\ NextSeqtag = tag)
        /\ mCurrentSeqtag # NoTag
    BY <1>2 DEF CheckSequenceTag, Exhausted
  <2>2. cs = "processing"
    BY Zenon, <2>1 DEF Bounds, Idle
  <2>3. processindex \in 1..Len(batch) /\ mCurrentSeqtag = batch[processindex].st
    BY Zenon, <2>2 DEF Results
  <2>4. \A x \in delivered' \ delivered : x = mCurrentSeqtag
    <3>1. /\ StopIndex \in Int /\ processindex <= StopIndex /\ StopIndex <= Len(batch) + 1
          /\ \A j \in processindex..(StopIndex - 1) :
                batch[j].st = NoTag \/ (j = processindex /\ batch[j].st = mCurrentSeqtag)
      BY Zenon, StopIndexIs DEF Bounds, CsTypes
    <3>2. delivered' = delivered \cup ({batch[j].st : j \in processindex..(StopIndex - 1)} \ {NoTag})
      BY Zenon, <2>1 DEF Process, HandOut
    <3> HIDE DEF StopIndex
    <3> QED
      BY Zenon, <3>1, <3>2
  <2>5. \/ cs' = "idle" /\ batch' = <<>> /\ processindex' = 1 /\ mCurrentSeqtag' = NoTag
        \/ /\ cs' = "processing" /\ batch' = batch /\ processindex' = StopIndex
           /\ StopIndex \in 1..Len(batch) /\ Waits(StopIndex)
           /\ mCurrentSeqtag' = batch[StopIndex].st /\ NextSeqtag = batch[StopIndex].st
           /\ batch[processindex].st = mCurrentSeqtag => processindex < StopIndex
    BY Zenon, <2>1, ProcessWaits
  <2> HIDE DEF StopIndex, NextSeqtag
  <2>6. CASE cs' = "idle" /\ batch' = <<>> /\ processindex' = 1 /\ mCurrentSeqtag' = NoTag
    BY Zenon, <1>2, <2>2, <2>4, <2>6
  <2>7. CASE /\ cs' = "processing" /\ batch' = batch /\ processindex' = StopIndex
             /\ StopIndex \in 1..Len(batch) /\ Waits(StopIndex)
             /\ mCurrentSeqtag' = batch[StopIndex].st /\ NextSeqtag = batch[StopIndex].st
             /\ batch[processindex].st = mCurrentSeqtag => processindex < StopIndex
    BY ZenonT(30), <1>2, <2>1, <2>2, <2>3, <2>4, <2>7
  <2> QED
    BY ZenonT(30), <2>5, <2>6, <2>7
<1> QED
  BY Zenon, <1>1, <1>2

\* With a sequence number the sc channel is on.
LEMMA NumberedIsReady == Stops /\ scsn # NoSn => ScsnReady
BY Zenon DEF Stops, ScsnReady

\* Every step keeps the results waiting for what is still to come.
LEMMA NextResults ==
    Ground /\ Bounds' /\ Ends /\ Stops /\ Results /\ [Next]_vars => Results'
\* The log grows: the operations of the batch stay where they are.
<1>NumberedGrows.
      ASSUME Bounds, [Next]_vars, Numbered, batch' = batch
      PROVE  Numbered'
  <2> USE <1>NumberedGrows
  <2> SUFFICES ASSUME NEW i \in 1..Len(batch), Waits(i)
               PROVE  /\ batch[i].st \in 1..Len(ops') /\ batch[i].kind \in {"u", "m"}
                      /\ ops'[batch[i].st].kind = batch[i].kind
                      /\ \A j \in 1..Len(batch) : i < j /\ Waits(j) => batch[i].st < batch[j].st
    BY Zenon DEF Numbered, Waits
  <2>1. /\ batch[i].st \in 1..Len(ops) /\ batch[i].kind \in {"u", "m"}
        /\ ops[batch[i].st].kind = batch[i].kind
        /\ \A j \in 1..Len(batch) : i < j /\ Waits(j) => batch[i].st < batch[j].st
    BY ZenonT(30) DEF Numbered
  <2>2. ops'[batch[i].st] = ops[batch[i].st] /\ batch[i].st \in 1..Len(ops')
    BY <2>1, LogOnlyGrows
  <2> QED
    BY ZenonT(30), <2>1, <2>2
\* Steps that hand out no result and apply no packet.
<1>ResultsKept.
      ASSUME Bounds, [Next]_vars, Results, UNCHANGED <<batch, cs, processindex, mCurrentSeqtag,
             mCurrentSeqtagSeen, applied>>, ~parser'.checked \/ parser' = parser
      PROVE  Results'
  <2> USE <1>ResultsKept
  <2>1. (IsFetchNodes' <=> IsFetchNodes)
    BY Zenon DEF IsFetchNodes
  <2>2. Numbered => Numbered'
    BY Zenon, <1>NumberedGrows
  <2>3. \A i : Waits(i)' <=> Waits(i)
    BY Zenon DEF Waits
  <2>4. \A i : Coming(i) => Coming(i)'
    BY Zenon DEF Coming
  <2> HIDE DEF Waits, Coming, Numbered, IsFetchNodes
  <2>5. CASE IsFetchNodes
    BY Zenon, <2>1, <2>5 DEF Results
  <2>6. CASE ~IsFetchNodes
    BY ZenonT(30), <2>1, <2>2, <2>3, <2>4, <2>6 DEF Results
  <2> QED
    BY ZenonT(30), <2>5, <2>6
\* A packet that has been let through is not one that a result still waits for.
<1>ApplyResults. Ground /\ Ends /\ Results /\ [Next]_vars /\ ApplyPacket => Results'
  <2> SUFFICES ASSUME Ground, Ends, Results, [Next]_vars, ApplyPacket PROVE Results'
    OBVIOUS
  <2>1. /\ UNCHANGED <<batch, cs, processindex, mCurrentSeqtag, mCurrentSeqtagSeen>>
        /\ parser.checked /\ ~parser'.checked /\ parser.part \in {1, 2}
        /\ applied' = TreeAfter(parser.op, parser.part)
    BY ZenonT(30), ApplyDoes
  <2>2. \A x : x \in applied' => x \in applied \/ x = <<parser.op, parser.part>>
    BY Zenon, <2>1 DEF TreeAfter
  <2>3. (IsFetchNodes' <=> IsFetchNodes)
    BY Zenon, <2>1 DEF IsFetchNodes
  <2>4. Numbered => Numbered'
    BY Zenon, <2>1, <1>NumberedGrows DEF Ground
  <2>5. \A i : Waits(i)' <=> Waits(i)
    BY Zenon, <2>1 DEF Waits
  <2>6. ASSUME NEW i, Coming(i) PROVE Coming(i)'
    <3>1. <<batch[i].st, 1>> \notin applied /\ ~(parser.part = 1 /\ parser.op = batch[i].st)
      BY Zenon, <2>1, <2>6 DEF Coming
    <3>2. <<batch[i].st, 1>> # <<parser.op, parser.part>>
      BY Zenon, <3>1
    <3>3. <<batch'[i].st, 1>> \notin applied'
      BY Zenon, <2>1, <2>2, <3>1, <3>2
    <3> QED
      BY ZenonT(30), <2>1, <3>3 DEF Coming
  <2> HIDE DEF Waits, Coming, Numbered, IsFetchNodes
  <2>7. CASE IsFetchNodes
    BY Zenon, <2>3, <2>7 DEF Results
  <2>8. CASE ~IsFetchNodes
    BY Zenon, <2>1, <2>3, <2>4, <2>5, <2>6, <2>8 DEF Results
  <2> QED
    BY <2>7, <2>8
\* The tags of a batch just executed are new to the client.
<1>ApiExecutesResults. Ground /\ Results /\ [Next]_vars /\ ApiExecutes => Results'
  <2> SUFFICES ASSUME Ground, Results, [Next]_vars, ApiExecutes, ~IsFetchNodes' PROVE Results'
    BY Zenon DEF Results
  <2>1. /\ cs = "sent" /\ cs' = "executed"
        /\ UNCHANGED <<processindex, parser, pendingsc, applied>>
    BY DEF ApiExecutes, tree
  <2>2. ~IsFetchNodes
    <3> SUFFICES ASSUME IsFetchNodes PROVE FALSE
      OBVIOUS
    <3>1. batch \in Seq(Command) /\ Len(batch) = 1 /\ batch[1].kind \in {"cached", "nocache"}
      BY Zenon DEF Ground, Bounds, CsTypes, IsFetchNodes
    <3>2. PICK x \in 0..Len(ops) : batch' = [batch EXCEPT ![1].st = x]
      BY DEF ApiExecutes, Ground, Bounds
    <3>3. Len(batch') = 1 /\ batch'[1].kind = batch[1].kind
      <4>1. 1 \in 1..Len(batch) /\ DOMAIN batch = 1..Len(batch)
        BY <3>1
      <4>0. \A i \in 1..Len(batch) : batch[i] \in Command
        BY Zenon, <3>1, ElementOf
      <4>2. batch[1] \in Command
        BY <4>0, <4>1
      <4> QED
        BY <3>1, <3>2, <4>1, <4>2 DEF Command
    <3> QED
      BY <3>1, <3>3 DEF IsFetchNodes
  <2>3. /\ ops \in Seq(Operation) /\ Len(ops) \in Nat /\ batch \in Seq(Command)
        /\ \A i \in 1..Len(batch) : batch[i].kind \in {"u", "m", "p"}
        /\ \A i \in 1..Len(batch) : batch[i].st = NoTag
        /\ processindex = 1
    BY <2>1, <2>2 DEF Ground, Bounds, CsTypes, Results, Waits
  <2>4. /\ batch' \in Seq(Command) /\ Len(batch') = Len(batch)
        /\ \A i \in 1..Len(batch) :
              /\ batch'[i].kind = batch[i].kind
              /\ batch[i].kind = "p" => batch'[i].st = batch[i].st
              /\ batch[i].kind # "p" =>
                    /\ Len(ops) < batch'[i].st /\ batch'[i].st <= Len(ops')
                    /\ ops'[batch'[i].st].kind = batch[i].kind
        /\ \A i, j \in 1..Len(batch) :
              i < j /\ batch[i].kind # "p" /\ batch[j].kind # "p" => batch'[i].st < batch'[j].st
    BY Zenon, <2>2, <2>3, ApiExecuted
  <2>5. Len(ops') \in Nat /\ Len(ops) <= Len(ops')
    BY Zenon, LogOnlyGrows DEF Ground
  <2>6. \A i \in 1..Len(batch) : batch'[i].st # NoTag => batch[i].kind \in {"u", "m"}
    BY ZenonT(30), <2>3, <2>4
  <2>7. Numbered'
    <3> SUFFICES ASSUME NEW i \in 1..Len(batch'), batch'[i].st # NoTag
                 PROVE  /\ batch'[i].st \in 1..Len(ops') /\ batch'[i].kind \in {"u", "m"}
                        /\ ops'[batch'[i].st].kind = batch'[i].kind
                        /\ \A j \in 1..Len(batch') : i < j /\ batch'[j].st # NoTag =>
                              batch'[i].st < batch'[j].st
      BY ZenonT(30) DEF Numbered, Waits
    <3>1. i \in 1..Len(batch) /\ batch[i].kind # "p" /\ batch'[i].st \in Int
      <4>1. i \in 1..Len(batch) /\ batch[i].kind # "p"
        BY Zenon, <2>4, <2>6
      <4>2. batch'[i] \in Command
        BY Zenon, <2>4, ElementOf
      <4> QED
        BY Zenon, <4>1, <4>2 DEF Command
    <3>2. /\ Len(ops) < batch'[i].st /\ batch'[i].st <= Len(ops')
          /\ ops'[batch'[i].st].kind = batch[i].kind /\ batch'[i].kind = batch[i].kind
      BY ZenonT(30), <2>4, <3>1
    <3>3. batch'[i].st \in 1..Len(ops')
      BY <2>3, <2>5, <3>1, <3>2
    <3> QED
      BY ZenonT(30), <2>4, <2>6, <3>1, <3>2, <3>3
  <2>8. ASSUME NEW i \in 1..Len(batch'), batch'[i].st # NoTag PROVE Coming(i)'
    <3>1. i \in 1..Len(batch) /\ batch[i].kind # "p" /\ batch'[i].st \in Int
      <4>1. i \in 1..Len(batch) /\ batch[i].kind # "p"
        BY Zenon, <2>4, <2>6, <2>8
      <4>2. batch'[i] \in Command
        BY Zenon, <2>4, ElementOf
      <4> QED
        BY Zenon, <4>1, <4>2 DEF Command
    <3>2. Len(ops) < batch'[i].st
      BY Zenon, <2>4, <3>1
    <3>3. batch'[i].st \notin 1..Len(ops)
      BY <2>3, <3>1, <3>2
    <3>4. <<batch'[i].st, 1>> \notin applied
      BY Zenon, <3>3, BeyondLog DEF Ground, Bounds, Trees
    <3>5. parser.checked => parser.op \in 1..Len(ops)
      <4> SUFFICES ASSUME parser.checked PROVE parser.op \in 1..Len(ops)
        OBVIOUS
      <4>1. /\ parser.stage = "a" /\ parser.op <= pendingsc.upto /\ 1 <= parser.op
            /\ pendingsc.upto <= Len(ops) /\ parser.op \in Nat /\ pendingsc.upto \in Nat
        BY Zenon DEF Ground, Bounds, ScTypes, Position, Request
      <4> QED
        BY <2>3, <4>1
    <3> QED
      BY Zenon, <2>1, <3>3, <3>4, <3>5 DEF Coming
  <2> QED
    BY ZenonT(30), <2>1, <2>3, <2>7, <2>8 DEF Results, Waits
\* The reply to a batch: the results wait.
<1>CsResponseResults. Ground /\ Stops /\ Results /\ [Next]_vars /\ CsResponse => Results'
  <2> SUFFICES ASSUME Ground, Stops, Results, [Next]_vars, CsResponse PROVE Results'
    OBVIOUS
  <2>1. /\ cs = "executed" /\ ~IsFetchNodes /\ Process /\ mCurrentSeqtagSeen' = FALSE
        /\ UNCHANGED <<ops, parser, applied>>
    BY Zenon DEF CsResponse, server, tree
  <2>2. Bounds /\ Numbered /\ (\A i \in 1..Len(batch) : Waits(i) => Coming(i))
    BY ZenonT(30), <2>1 DEF Results, Ground
  <2>3. CASE cs' = "idle" /\ processindex' = 1
    BY Zenon, <2>3 DEF Results
  <2>4. CASE ~ScsnReady
    <3>1. StopIndex = Len(batch) + 1 /\ Len(batch) \in Nat
      BY <2>2, <2>4 DEF StopIndex, Bounds, CsTypes
    <3>2. cs' = "idle" /\ processindex' = 1
      BY <2>1, <3>1 DEF Process
    <3> QED
      BY Zenon, <2>3, <3>2
  <2>5. CASE /\ cs' = "processing" /\ batch' = batch /\ processindex' = StopIndex
             /\ StopIndex \in 1..Len(batch) /\ Waits(StopIndex)
             /\ mCurrentSeqtag' = batch[StopIndex].st
    <3>1. Numbered'
      BY Zenon, <2>2, <2>5, <1>NumberedGrows
    <3>2. \A i : (Waits(i)' <=> Waits(i)) /\ (Coming(i)' <=> Coming(i))
      BY Zenon, <2>1, <2>5 DEF Waits, Coming
    <3>3. \A i \in processindex'..Len(batch') : i \in 1..Len(batch)
      BY <2>5
    <3>4. processindex' \in 1..Len(batch') /\ Waits(processindex)' /\ mCurrentSeqtag' = batch'[processindex'].st
      BY <2>5 DEF Waits
    <3> HIDE DEF Waits, Coming, Numbered
    <3>5. \A i \in processindex'..Len(batch') : Waits(i)' => Coming(i)'
      BY Zenon, <2>2, <3>2, <3>3
    <3> QED
      BY Zenon, <2>5, <3>1, <3>4, <3>5 DEF Results
  <2> QED
    BY Zenon, <2>1, <2>2, <2>3, <2>4, <2>5, ProcessWaits
\* The results that are left wait for packets still to come, if the packet that is let
\* through now is the next one and the first result that waits gets to know of it.
<1>CheckResults.
      ASSUME Ground, Results, ~IsFetchNodes, ScsnReady, [Next]_vars, UNCHANGED <<ops, applied>>,
             NEW tag, CheckSequenceTag(tag),
             \A i \in 1..Len(batch) :
                Waits(i) /\ parser'.checked /\ parser'.part = 1 /\ parser'.op = batch[i].st =>
                   tag = batch[i].st /\ batch[i].st = Done + 1 /\ cs # "executed"
      PROVE  Results'
  <2> USE <1>CheckResults
  <2> DEFINE now(i) == parser'.checked /\ parser'.part = 1 /\ parser'.op = batch[i].st
  <2>1. \A i \in 1..Len(batch) : Waits(i) /\ now(i) =>
           tag = batch[i].st /\ batch[i].st = Done + 1 /\ cs # "executed"
    BY ZenonT(30)
  <2>2. Len(batch) \in Nat /\ processindex \in Int /\ 1 <= processindex /\ NoTag \notin Nat
    BY DEF Ground, Bounds, CsTypes, NoTag
  <2>3. /\ cs # "processing" => processindex = 1
        /\ cs \in {"sent", "refused"} => \A i \in 1..Len(batch) : ~Waits(i)
        /\ cs \in {"executed", "processing"} => Numbered
        /\ cs = "executed" => \A i \in 1..Len(batch) : Waits(i) => Coming(i)
        /\ cs = "processing" =>
                /\ processindex \in 1..Len(batch) /\ Waits(processindex)
                /\ mCurrentSeqtag = batch[processindex].st
                /\ \A i \in processindex..Len(batch) :
                      Waits(i) /\ ~(i = processindex /\ mCurrentSeqtagSeen) => Coming(i)
    BY Zenon DEF Results
  <2>4. \A i : Coming(i) => <<batch[i].st, 1>> \notin applied
    BY Zenon DEF Coming
  <2>5. ASSUME batch' = batch, NEW i \in 1..Len(batch), <<batch[i].st, 1>> \notin applied, ~now(i)
        PROVE  Coming(i)'
    BY Zenon, <2>5 DEF Coming
  <2>6. batch' = batch => (\A i : Waits(i)' <=> Waits(i)) /\ (Numbered => Numbered')
    BY Zenon, <1>NumberedGrows DEF Waits, Ground
  <2>7. batch' = batch => (IsFetchNodes' <=> IsFetchNodes)
    BY Zenon DEF IsFetchNodes
  \* A result that waits for an operation before the one being read has been seen.
  <2>8. ASSUME cs = "processing", NEW j \in 1..Len(batch), NEW i \in 1..Len(batch), j < i,
               Waits(j), Waits(i), <<batch[j].st, 1>> \notin applied
        PROVE  ~now(i)
    <3>1. Numbered /\ scsn # NoSn
      BY Zenon, <2>3, <2>8 DEF ScsnReady
    <3>2. batch[j].st \in 1..Len(ops) /\ batch[i].st \in 1..Len(ops) /\ batch[j].st < batch[i].st
      BY Zenon, <2>8, <3>1 DEF Numbered
    <3> SUFFICES ASSUME now(i) PROVE FALSE
      OBVIOUS
    <3>3. batch[i].st = Done + 1 /\ Done \in Nat /\ (\A k \in 1..Done : Whole(k, applied))
      BY ZenonT(30), <2>1, <2>8, <3>1, DoneWhole
    <3>4. batch[j].st \in 1..Done
      BY <3>2, <3>3
    <3>5. Whole(batch[j].st, applied)
      BY Zenon, <3>3, <3>4
    <3>6. <<batch[j].st, 1>> \in applied
      BY <3>5 DEF Whole, WholeOp, Parts
    <3> QED
      BY Zenon, <2>8, <3>6
  <2> HIDE DEF now, Waits, Coming, Numbered, Results
  <2>9. CASE /\ ~Exhausted(tag)
             /\ UNCHANGED <<batch, cs, processindex, mCurrentSeqtag, delivered>>
             /\ mCurrentSeqtagSeen' = (mCurrentSeqtagSeen \/ (tag # NoTag /\ mCurrentSeqtag = tag))
    <3>1. ASSUME cs = "executed", NEW i \in 1..Len(batch), Waits(i) PROVE Coming(i)'
      BY ZenonT(30), <2>1, <2>3, <2>4, <2>5, <2>9, <3>1
    <3>2. ASSUME cs = "processing", NEW i \in processindex..Len(batch), Waits(i),
                 ~(i = processindex /\ mCurrentSeqtagSeen')
          PROVE  Coming(i)'
      <4>0. mCurrentSeqtagSeen => mCurrentSeqtagSeen'
        BY ZenonT(30), <2>9
      <4>1. i \in 1..Len(batch) /\ Coming(i) /\ <<batch[i].st, 1>> \notin applied
        <5>1. ~(i = processindex /\ mCurrentSeqtagSeen)
          BY Zenon, <3>2, <4>0
        <5> QED
          BY <2>2, <2>3, <2>4, <3>2, <5>1
      <4>2. CASE i = processindex
        <5>1. now(i) => tag = batch[i].st /\ mCurrentSeqtag = tag
          BY ZenonT(30), <2>1, <2>3, <3>2, <4>1, <4>2
        <5>2. Waits(i) <=> batch[i].st # NoTag
          BY Zenon DEF Waits
        <5>3. ~now(i)
          BY ZenonT(30), <2>9, <3>2, <4>2, <5>1, <5>2
        <5> QED
          BY ZenonT(30), <2>5, <2>9, <4>1, <5>3
      <4>3. CASE i # processindex
        <5>1. processindex < i /\ processindex \in 1..Len(batch)
          BY <2>2, <2>3, <3>2, <4>3
        <5>2. CASE ~mCurrentSeqtagSeen
          <6>1. <<batch[processindex].st, 1>> \notin applied
            BY <2>2, <2>3, <2>4, <3>2, <5>1, <5>2
          <6> QED
            BY ZenonT(30), <2>3, <2>5, <2>8, <2>9, <3>2, <4>1, <5>1, <6>1
        <5>3. CASE mCurrentSeqtagSeen
          <6>1. mCurrentSeqtag # NoTag => mCurrentSeqtag = tag
            BY ZenonT(30), <2>9, <5>3 DEF Exhausted
          <6>2. tag = batch[processindex].st
            BY ZenonT(30), <2>3, <3>2, <6>1 DEF Waits
          <6>3. batch[processindex].st # batch[i].st
            BY ZenonT(30), <2>3, <3>2, <4>1, <5>1, Positions DEF Numbered
          <6>4. ~now(i)
            BY Zenon, <2>1, <3>2, <4>1, <6>2, <6>3
          <6> QED
            BY ZenonT(30), <2>5, <2>9, <4>1, <6>4
        <5> QED
          BY ZenonT(30), <5>2, <5>3
      <4> QED
        BY Zenon, <4>2, <4>3
    <3> QED
      BY ZenonT(30), <2>3, <2>6, <2>7, <2>9, <3>1, <3>2 DEF Results
  <2>10. CASE cs' = "idle" /\ processindex' = 1
    BY ZenonT(30), <2>10 DEF Results
  <2>11. CASE /\ cs = "processing" /\ cs' = "processing" /\ batch' = batch
              /\ processindex' \in 1..Len(batch) /\ processindex < processindex'
              /\ Waits(processindex') /\ mCurrentSeqtag' = batch[processindex'].st
              /\ mCurrentSeqtagSeen' = (tag # NoTag /\ mCurrentSeqtag' = tag)
    <3>1. ASSUME NEW i \in processindex'..Len(batch), Waits(i),
                 ~(i = processindex' /\ mCurrentSeqtagSeen')
          PROVE  Coming(i)'
      <4>1. i \in 1..Len(batch) /\ i \in processindex..Len(batch) /\ i # processindex
            /\ processindex' \in processindex..Len(batch) /\ processindex' # processindex
        BY <2>2, <2>11, <3>1
      <4>2. <<batch[i].st, 1>> \notin applied /\ <<batch[processindex'].st, 1>> \notin applied
        BY ZenonT(30), <2>3, <2>4, <2>11, <3>1, <4>1
      <4>3. CASE i = processindex'
        <5>1. now(i) => tag = batch[i].st /\ mCurrentSeqtag' = tag
          BY ZenonT(30), <2>1, <2>11, <3>1, <4>1, <4>3
        <5>2. Waits(i) <=> batch[i].st # NoTag
          BY Zenon DEF Waits
        <5>3. ~now(i)
          BY ZenonT(30), <2>11, <3>1, <4>3, <5>1, <5>2
        <5> QED
          BY ZenonT(30), <2>5, <2>11, <4>1, <4>2, <5>3
      <4>4. CASE i # processindex'
        <5>1. processindex' < i
          BY <2>2, <2>11, <3>1, <4>4
        <5>2. ~now(i)
          BY ZenonT(30), <2>8, <2>11, <3>1, <4>1, <4>2, <5>1
        <5> QED
          BY ZenonT(30), <2>5, <2>11, <3>1, <4>1, <4>2, <5>2
      <4> QED
        BY Zenon, <4>3, <4>4
    <3> QED
      BY ZenonT(30), <2>3, <2>6, <2>7, <2>11, <3>1 DEF Results, Waits
  <2> QED
    BY ZenonT(30), <2>9, <2>10, <2>11, CheckWaits DEF Ground
\* sc_checkActionPacket(): a packet that a result waits for is not let through unseen.
<1>CheckPacketResults. Ground /\ Stops /\ Results /\ [Next]_vars /\ CheckPacket => Results'
  <2> SUFFICES ASSUME Ground, Stops, Results, [Next]_vars, CheckPacket PROVE Results'
    OBVIOUS
  <2>1. /\ UNCHANGED <<ops, applied>> /\ scsn # NoSn /\ ~IsFetchNodes
        /\ parser.op \in 1..Len(ops) /\ parser'.op = parser.op /\ parser'.part = parser.part
        /\ parser.stage = "a" /\ parser'.checked = MayProceed(St(parser.op, parser.part))
        /\ parser.part \in {1, 2} /\ Done = parser.op - 1
        /\ \/ ImplicitTag /\ UNCHANGED <<reqs, tags, sctags, delivered>>
           \/ ~ImplicitTag /\ CheckSequenceTag(St(parser.op, parser.part))
    BY Zenon, CheckDoes
  <2>2. CASE ImplicitTag /\ UNCHANGED <<reqs, tags, sctags, delivered>>
    <3>1. parser'.part # 1 /\ UNCHANGED <<batch, cs, processindex, mCurrentSeqtag, mCurrentSeqtagSeen>>
      BY <2>1, <2>2 DEF ImplicitTag, reqs, tags
    <3>2. \A i : (Coming(i) => Coming(i)') /\ (Waits(i)' <=> Waits(i))
      BY ZenonT(30), <2>1, <3>1 DEF Coming, Waits
    <3>3. Numbered => Numbered'
      BY Zenon, <3>1, <1>NumberedGrows DEF Ground
    <3> HIDE DEF Waits, Coming, Numbered
    <3> QED
      BY Zenon, <2>1, <3>1, <3>2, <3>3 DEF Results
  <2>3. CASE ~ImplicitTag /\ CheckSequenceTag(St(parser.op, parser.part))
    <3> DEFINE tag == St(parser.op, parser.part)
    <3>1. ASSUME NEW i \in 1..Len(batch), Waits(i), parser'.checked, parser'.part = 1,
                 parser'.op = batch[i].st
          PROVE  tag = batch[i].st /\ batch[i].st = Done + 1 /\ cs # "executed"
      <4>1. cs \in {"executed", "processing"}
        <5>1. cs \in {"idle", "sent", "executed", "refused", "processing"} /\ (cs = "idle" => batch = <<>>)
          BY Zenon DEF Ground, Bounds, CsTypes
        <5>2. cs \notin {"sent", "refused"}
          BY Zenon, <2>1, <3>1 DEF Results
        <5>3. batch # <<>>
          BY <3>1
        <5> QED
          BY Zenon, <5>1, <5>2, <5>3
      <4>2. ops[parser.op].kind \in {"u", "m"}
        <5>1. Numbered /\ parser.op = batch[i].st
          BY Zenon, <2>1, <3>1, <4>1 DEF Results
        <5> QED
          BY Zenon, <3>1, <5>1 DEF Numbered
      <4>3. tag = parser.op /\ parser.part = 1
        <5>1. parser.part = 1
          BY Zenon, <2>1, <3>1
        <5>2. St(parser.op, 1) = parser.op
          <6>1. ops[parser.op].kind # "n"
            BY Zenon, <4>2
          <6> QED
            BY <6>1 DEF St
        <5> QED
          BY Zenon, <5>1, <5>2
      <4>4. parser.op # NoTag
        BY <2>1 DEF NoTag
      <4>5. parser'.checked = MayProceed(parser.op)
        BY Zenon, <2>1, <4>3
      <4>6. cs # "executed"
        BY Zenon, <3>1, <4>4, <4>5 DEF MayProceed, CmdsInflight, Ground, Bounds, Idle
      <4>7. Done + 1 = parser.op
        BY ZenonT(30), <2>1, Positions
      <4> QED
        BY Zenon, <2>1, <3>1, <4>3, <4>6, <4>7
    <3>2. CheckSequenceTag(tag) /\ ScsnReady
      BY Zenon, <2>1, <2>3, NumberedIsReady
    <3> HIDE DEF tag, Done
    <3> QED
      BY ZenonT(30), <2>1, <3>1, <3>2, <1>CheckResults
  <2> QED
    BY Zenon, <2>1, <2>2, <2>3
\* The end of the packets.
<1>ArrayEndsResults. Ground /\ Ends /\ Stops /\ Results /\ [Next]_vars /\ ArrayEnds => Results'
  <2> SUFFICES ASSUME Ground, Ends, Stops, Results, [Next]_vars, ArrayEnds PROVE Results'
    OBVIOUS
  <2>1. /\ UNCHANGED <<ops, applied>> /\ scsn # NoSn /\ ~IsFetchNodes /\ ~parser'.checked
        /\ CheckSequenceTag(NoTag)
    BY Zenon, AtArrayEnd DEF Ends
  <2>2. ScsnReady
    BY <2>1, NumberedIsReady
  <2> QED
    BY Zenon, <2>1, <2>2, <1>CheckResults
<1> SUFFICES ASSUME Ground, Bounds', Ends, Stops, Results, [Next]_vars PROVE Results'
  OBVIOUS
<1>1. CASE CheckPacket \/ ArrayEnds \/ ApplyPacket \/ CsResponse \/ ApiExecutes
  BY ZenonT(30), <1>1, <1>CheckPacketResults, <1>ArrayEndsResults, <1>ApplyResults, <1>CsResponseResults,
     <1>ApiExecutesResults
<1>2. CASE SendBatch
  <2>1. PICK b \in Batches : batch' = [i \in DOMAIN b |-> [kind |-> b[i], st |-> NoTag]]
    BY Zenon, <1>2 DEF SendBatch
  <2>2. b \in Seq({"u", "m", "p"})
    BY Zenon, ScChannelAssumption DEF ScChannelAssumption
  <2>3. DOMAIN b = 1..Len(b) /\ Len(b) \in Nat
    BY <2>2
  <2>4. \A i \in 1..Len(batch') : batch'[i].st = NoTag
    BY <2>1, <2>3
  <2> QED
    BY Zenon, <1>2, <2>4 DEF SendBatch, Results, Waits
<1>3. CASE SendFetchNodes \/ FetchNodesBegins
  <2>1. IsFetchNodes'
    <3>1. CASE SendFetchNodes
      <4>1. batch' = <<[kind |-> fetch, st |-> NoTag]>> /\ fetch \in {"cached", "nocache"}
        BY ZenonT(30), <3>1 DEF SendFetchNodes, Ground, Bounds, CsTypes
      <4> QED
        BY Zenon, <4>1 DEF IsFetchNodes
    <3>2. CASE FetchNodesBegins
      BY ZenonT(30), <3>2 DEF FetchNodesBegins, IsFetchNodes
    <3> QED
      BY Zenon, <1>3, <3>1, <3>2
  <2> QED
    BY Zenon, <2>1 DEF Results
<1>4. CASE FetchNodesEnds \/ Restart
  BY ZenonT(30), <1>4 DEF FetchNodesEnds, Restart, Results
<1>5. CASE ApiRefuses
  <2>1. /\ UNCHANGED <<ops, batch, processindex, mCurrentSeqtag, mCurrentSeqtagSeen>>
        /\ cs \in {"sent", "refused"} /\ cs' \in {"sent", "refused"}
    BY Zenon, <1>5 DEF ApiRefuses, server, tags
  <2> QED
    BY ZenonT(30), <2>1 DEF Results, Waits, IsFetchNodes
<1>6. CASE \/ OtherClientActs \/ NotifyPurge \/ FetchNodes \/ ScRequest \/ ApiTooMany
           \/ ScFails \/ CommitInterim \/ UNCHANGED vars \/ ScStart \/ StoreSn \/ ProcEoo
           \/ \E upto \in pendingsc.from..Len(ops), ir \in BOOLEAN : ApiAnswers(upto, ir)
  <2>1. UNCHANGED <<batch, cs, processindex, mCurrentSeqtag, mCurrentSeqtagSeen, applied>>
    BY Zenon, <1>6 DEF OtherClientActs, NotifyPurge, FetchNodes, ScRequest, ApiTooMany, ScFails,
       CommitInterim, vars, ScStart, StoreSn, ProcEoo, ApiAnswers, reqs, tags, tree
  <2>2. ~parser'.checked \/ parser' = parser
    <3>1. CASE ScFails \/ ProcEoo
      BY <3>1 DEF ScFails, ProcEoo, NoParser
    <3>4. CASE ScStart
      <4>1. parser' = [stage |-> "a", op |-> pendingsc.from + 1, part |-> 1, checked |-> FALSE]
        BY ZenonT(30), <3>4 DEF ScStart, NoParser
      <4> QED
        BY Zenon, <4>1
    <3>2. CASE StoreSn
      <4>1. parser \in Position /\ parser' = [parser EXCEPT !.stage = "eoo"]
        BY <3>2 DEF StoreSn, Ground, Bounds, ScTypes
      <4>2. parser'.stage = "eoo"
        BY <4>1 DEF Position
      <4> QED
        BY Zenon, <4>2 DEF Bounds, ScTypes
    <3>3. CASE ~(ScFails \/ ScStart \/ ProcEoo \/ StoreSn)
      BY ZenonT(30), <1>6, <3>3 DEF OtherClientActs, NotifyPurge, FetchNodes, ScRequest, ApiTooMany,
         CommitInterim, vars, ApiAnswers
    <3> QED
      BY Zenon, <3>1, <3>2, <3>3, <3>4
  <2> QED
    BY Zenon, <2>1, <2>2, <1>ResultsKept DEF Ground
<1> QED
  BY ZenonT(30), <1>1, <1>2, <1>3, <1>4, <1>5, <1>6 DEF Next, ScRead

-----------------------------------------------------------------------------
(* The result that is due.                                                 *)

\* A result is due: the packets of its tag are being applied, and none with a later
\* tag has been.
Seen ==
    mCurrentSeqtagSeen =>
        /\ \A j \in 1..Len(ops) :
              j > mCurrentSeqtag /\ ops[j].kind \in Tagged => <<j, 1>> \notin applied
        /\ parser.stage = "a" /\ (parser.checked \/ parser.part = 2) =>
              parser.op = mCurrentSeqtag
        /\ parser.stage = "a" /\ parser.part = 2 => streaming.mLastAPDeletedNode
        /\ scsn # NoSn =>
              /\ mCurrentSeqtag <= Done + 1
              /\ pendingsc.status = "answered" => mCurrentSeqtag <= pendingsc.upto

\* The result that is due.
LEMMA SeenResult ==
    ASSUME Bounds, SeenWaits, Results, mCurrentSeqtagSeen
    PROVE  /\ cs = "processing" /\ ~IsFetchNodes /\ processindex \in 1..Len(batch)
           /\ mCurrentSeqtag = batch[processindex].st /\ mCurrentSeqtag \in 1..Len(ops)
           /\ ops[mCurrentSeqtag].kind = batch[processindex].kind
           /\ batch[processindex].kind \in {"u", "m"}
<1>1. mCurrentSeqtag # NoTag
  BY DEF SeenWaits
<1>2. cs = "processing" /\ ~IsFetchNodes
  BY Zenon, <1>1 DEF Bounds, Idle
<1>3. /\ processindex \in 1..Len(batch) /\ Waits(processindex)
      /\ mCurrentSeqtag = batch[processindex].st /\ Numbered
  BY Zenon, <1>2 DEF Results
<1> QED
  BY Zenon, <1>2, <1>3 DEF Numbered

\* Every step keeps what is said of a result that is due.
LEMMA NextSeen ==
    ASSUME Ground, Bounds', Ends, SeenWaits, SeenWaits', Stops, Results, Results', Seen, [Next]_vars
    PROVE  Seen'
\* sc_checkActionPacket() leaves a result due only for the operation being read.
<1>CheckedIsSeen.
      ASSUME Ground, SeenWaits, Stops, Results, Seen, CheckPacket, mCurrentSeqtagSeen'
      PROVE  /\ mCurrentSeqtag' = parser.op
             /\ parser.part = 2 => St(parser.op, 2) # NoTag \/ streaming.mLastAPDeletedNode
  <2> USE <1>CheckedIsSeen
  <2>1. /\ scsn # NoSn /\ ~IsFetchNodes /\ parser.stage = "a" /\ parser.op \in 1..Len(ops)
        /\ \/ ImplicitTag /\ UNCHANGED <<reqs, tags, sctags, delivered>>
           \/ ~ImplicitTag /\ CheckSequenceTag(St(parser.op, parser.part))
    BY Zenon, CheckDoes
  <2>2. CASE ImplicitTag /\ UNCHANGED <<reqs, tags, sctags, delivered>>
    BY ZenonT(30), <2>1, <2>2 DEF ImplicitTag, tags, Seen
  <2>3. CASE CheckSequenceTag(St(parser.op, parser.part))
    <3> DEFINE tag == St(parser.op, parser.part)
    <3>1. tag = NoTag \/ tag = parser.op
      BY ZenonT(30) DEF St
    <3>2. ScsnReady /\ CheckSequenceTag(tag)
      BY Zenon, <2>1, <2>3, NumberedIsReady
    <3>3. parser.part = 2 /\ tag # NoTag => St(parser.op, 2) # NoTag
      OBVIOUS
    <3>4. mCurrentSeqtagSeen => mCurrentSeqtag # NoTag
      BY Zenon DEF SeenWaits
    <3> HIDE DEF tag
    <3>5. CASE /\ ~Exhausted(tag) /\ mCurrentSeqtag' = mCurrentSeqtag
               /\ mCurrentSeqtagSeen' = (mCurrentSeqtagSeen \/ (tag # NoTag /\ mCurrentSeqtag = tag))
      <4>1. mCurrentSeqtagSeen => mCurrentSeqtag = tag /\ tag # NoTag
        BY Zenon, <3>4, <3>5 DEF Exhausted
      <4>2. mCurrentSeqtag = tag /\ tag # NoTag
        BY Zenon, <3>5, <4>1
      <4> QED
        BY Zenon, <3>1, <3>3, <3>5, <4>2
    <3>6. CASE Exhausted(tag) /\ CheckSequenceTag(tag)
      <4>1. mCurrentSeqtagSeen' = (tag # NoTag /\ NextSeqtag = tag) /\ mCurrentSeqtag' = NextSeqtag
        BY ZenonT(30), <3>6 DEF CheckSequenceTag, Process
      <4> HIDE DEF NextSeqtag
      <4> QED
        BY Zenon, <3>1, <3>3, <4>1
    <3> QED
      BY ZenonT(30), <2>1, <3>2, <3>5, <3>6, CheckWaits DEF Ground
  <2> QED
    BY Zenon, <2>1, <2>2, <2>3
\* sc_checkActionPacket(), for the operation being read or a later one.
<1>CheckPacketSeen.
      ASSUME Ground, Bounds', Ends, SeenWaits, SeenWaits', Stops, Results, Results', Seen, CheckPacket
      PROVE  Seen'
  <2> USE <1>CheckPacketSeen
  <2> SUFFICES ASSUME mCurrentSeqtagSeen' PROVE Seen'
    BY ZenonT(30) DEF Seen
  <2>1. /\ UNCHANGED <<ops, scsn, pendingsc, streaming, applied>>
        /\ parser'.op = parser.op /\ parser'.part = parser.part /\ parser'.stage = "a"
        /\ parser.op \in 1..Len(ops) /\ parser.op <= pendingsc.upto
        /\ scsn # NoSn /\ Done = parser.op - 1 /\ Done' = Done
    BY ZenonT(30), CheckDoes
  <2>2. mCurrentSeqtag' = parser.op
    BY Zenon, <1>CheckedIsSeen
  <2>3. /\ mCurrentSeqtag' \in 1..Len(ops') /\ ops'[mCurrentSeqtag'].kind \in {"u", "m"}
    <3>1. /\ mCurrentSeqtag' = batch'[processindex'].st /\ mCurrentSeqtag' \in 1..Len(ops')
          /\ ops'[mCurrentSeqtag'].kind = batch'[processindex'].kind
          /\ batch'[processindex'].kind \in {"u", "m"}
      <4>1. mCurrentSeqtag' # NoTag
        BY Zenon DEF SeenWaits
      <4>2. cs' = "processing" /\ ~IsFetchNodes'
        BY Zenon, <4>1 DEF Bounds, Idle
      <4>3. /\ processindex' \in 1..Len(batch') /\ Waits(processindex)'
            /\ mCurrentSeqtag' = batch'[processindex'].st /\ Numbered'
        BY ZenonT(30), <4>2 DEF Results
      <4> QED
        BY ZenonT(30), <4>3 DEF Numbered
    <3> QED
      BY Zenon, <3>1
  <2>4. parser.part = 2 => streaming.mLastAPDeletedNode
    <3>1. ops[parser.op].kind \in {"u", "m"}
      BY ZenonT(30), <2>1, <2>2, <2>3
    <3>2. parser.part = 2 => Parts(ops[parser.op].kind) = 2
      BY Zenon, CheckDoes
    <3>3. parser.part = 2 => St(parser.op, 2) = NoTag
      BY <3>1, <3>2 DEF Parts, St
    <3> QED
      BY Zenon, <3>3, <1>CheckedIsSeen
  <2>5. ASSUME NEW j \in 1..Len(ops), j > mCurrentSeqtag' PROVE <<j, 1>> \notin applied
    <3>1. Untouched(Done, applied) /\ Done \in Nat
      BY Zenon, <2>1, DoneWhole DEF Ends, Frontier
    <3>2. j \in Nat /\ j > Done + 1
      BY <2>1, <2>2, <2>5
    <3> QED
      BY ZenonT(30), <3>1, <3>2 DEF Untouched
  <2>6. mCurrentSeqtag' <= Done + 1 /\ mCurrentSeqtag' <= pendingsc.upto
    BY <2>1, <2>2
  <2> HIDE DEF Done
  <2> QED
    BY Zenon, <2>1, <2>2, <2>4, <2>5, <2>6 DEF Seen
\* The packet that is applied while a result is due is one of its own.
<1>ApplyPacketSeen.
      ASSUME Ground, Ends, SeenWaits, Results, Seen, ApplyPacket
      PROVE  Seen'
  <2> USE <1>ApplyPacketSeen
  <2> DEFINE k == parser.op
             p == parser.part
  <2>1. /\ UNCHANGED <<ops, mCurrentSeqtag, mCurrentSeqtagSeen, pendingsc>>
        /\ parser.stage = "a" /\ parser.checked /\ pendingsc.status = "answered"
        /\ scsn # NoSn /\ Done = k - 1
        /\ k \in 1..Len(ops) /\ k <= pendingsc.upto /\ p \in {1, 2}
        /\ applied' = TreeAfter(k, p)
        /\ parser'.stage = "a" /\ ~parser'.checked
        /\ streaming'.mLastAPDeletedNode = (ops[k].kind = "m" /\ p = 1 /\ NodeFound(k))
        /\ \/ /\ p = 1 /\ Parts(ops[k].kind) = 2 /\ parser'.op = k /\ parser'.part = 2
           \/ parser'.op = k + 1 /\ parser'.part = 1
    BY ZenonT(30), ApplyDoes
  <2> SUFFICES ASSUME mCurrentSeqtagSeen PROVE Seen'
    BY ZenonT(30), <2>1 DEF Seen
  <2>2. mCurrentSeqtag = k /\ ops[k].kind \in {"u", "m"}
    BY ZenonT(30), <2>1, SeenResult DEF Seen, Ground
  <2>3. ASSUME NEW j \in 1..Len(ops), j > k, ops[j].kind \in Tagged PROVE <<j, 1>> \notin applied'
    <3>1. <<j, 1>> \notin applied
      BY ZenonT(30), <2>2, <2>3 DEF Seen
    <3>2. <<j, 1>> # <<k, p>>
      BY ZenonT(30), <2>1, <2>3, Positions
    <3> QED
      BY ZenonT(30), <2>1, <3>1, <3>2 DEF TreeAfter
  <2>4. ASSUME parser'.part = 2 PROVE parser'.op = k /\ streaming'.mLastAPDeletedNode
    <3>1. p = 1 /\ Parts(ops[k].kind) = 2 /\ parser'.op = k
      BY <2>1, <2>4
    <3>2. ops[k].kind = "m"
      BY <2>2, <3>1 DEF Parts
    <3>3. ~Streaming
      BY ZenonT(30), <2>1, <3>2 DEF Ground, Inv, NoMovesStreamed
    <3>4. <<Done + 1, 1>> \notin applied
      <4>1. <<Done + 1, 1>> \in applied => p = 2
        BY ZenonT(30), <2>1, <3>3 DEF Ends, Frontier
      <4>2. p # 2
        BY <3>1
      <4> QED
        BY Zenon, <4>1, <4>2
    <3>5. Done + 1 = k
      BY ZenonT(30), <2>1, Positions
    <3>6. NodeFound(k)
      BY <3>4, <3>5 DEF NodeFound
    <3> QED
      BY ZenonT(30), <2>1, <3>1, <3>2, <3>6
  <2>5. Done' = parser'.op - 1 /\ (parser'.op = k \/ parser'.op = k + 1)
    BY Zenon, <2>1 DEF Done
  <2>6. k <= Done' + 1 /\ k <= pendingsc.upto
    BY <2>1, <2>5
  <2> HIDE DEF Done, k, p
  <2> QED
    BY ZenonT(30), <2>1, <2>2, <2>3, <2>4, <2>6 DEF Seen
\* The log grows, and nothing else of interest happens.
<1>SeenGrows.
      ASSUME Bounds, Seen, [Next]_vars,
             UNCHANGED <<mCurrentSeqtag, mCurrentSeqtagSeen, scsn, pendingsc, parser, applied>>,
             streaming'.mLastAPDeletedNode = streaming.mLastAPDeletedNode
      PROVE  Seen'
  <2> USE <1>SeenGrows
  <2> SUFFICES ASSUME mCurrentSeqtagSeen PROVE Seen'
    BY Zenon DEF Seen
  <2>1. Done' = Done
    BY Zenon DEF Done
  <2>2. ASSUME NEW j \in 1..Len(ops'), j > mCurrentSeqtag, ops'[j].kind \in Tagged
        PROVE  <<j, 1>> \notin applied
    <3>1. CASE j \in 1..Len(ops)
      BY ZenonT(30), <2>2, <3>1, LogOnlyGrows DEF Seen
    <3>2. CASE j \notin 1..Len(ops)
      BY ZenonT(30), <3>2, BeyondLog DEF Bounds, Trees
    <3> QED
      BY Zenon, <3>1, <3>2
  <2> HIDE DEF Done
  <2> QED
    BY ZenonT(30), <2>1, <2>2 DEF Seen
\* The parser has not reached a packet.
<1>SeenBetween.
      ASSUME Bounds, Seen, UNCHANGED <<ops, mCurrentSeqtag, mCurrentSeqtagSeen, applied>>,
             ~parser'.checked, parser'.part = 1,
             mCurrentSeqtagSeen /\ scsn' # NoSn =>
                /\ mCurrentSeqtag <= Done' + 1
                /\ pendingsc'.status = "answered" => mCurrentSeqtag <= pendingsc'.upto
      PROVE  Seen'
  BY <1>SeenBetween DEF Seen
<1>0. mCurrentSeqtagSeen => cs = "processing" /\ ~IsFetchNodes
  BY Zenon, SeenResult DEF Ground
<1>1. CASE CheckPacket \/ ApplyPacket
  BY ZenonT(30), <1>1, <1>CheckPacketSeen, <1>ApplyPacketSeen
<1>2. CASE ~mCurrentSeqtagSeen'
  BY Zenon, <1>2 DEF Seen
<1>3. CASE SendBatch \/ SendFetchNodes \/ ApiExecutes \/ ApiRefuses \/ FetchNodesEnds
           \/ CsResponse \/ FetchNodesBegins \/ Restart
  <2>1. ~mCurrentSeqtagSeen'
    BY Zenon, <1>0, <1>3 DEF SendBatch, SendFetchNodes, ApiExecutes, ApiRefuses, FetchNodesEnds,
       CsResponse, FetchNodesBegins, Restart, tags
  <2> QED
    BY Zenon, <1>2, <2>1
<1>4. CASE ArrayEnds \/ StoreSn
  <2>1. parser'.stage \in {"sn", "eoo"}
    BY Zenon, <1>4, AtArrayEnd DEF Ends, StoreSn, Ground, Bounds, ScTypes, Position
  <2> QED
    BY Zenon, <1>2, <2>1 DEF SeenWaits, NoResultLeftBehind
<1>5. CASE ProcEoo
  <2>1. parser.stage = "eoo" /\ mCurrentSeqtagSeen' = mCurrentSeqtagSeen
    BY Zenon, <1>5 DEF ProcEoo, tags
  <2> QED
    BY Zenon, <1>2, <2>1 DEF SeenWaits, NoResultLeftBehind
<1>6. CASE OtherClientActs \/ NotifyPurge \/ FetchNodes \/ CommitInterim \/ UNCHANGED vars
  <2>1. UNCHANGED <<mCurrentSeqtag, mCurrentSeqtagSeen, scsn, pendingsc, parser, applied>>
    BY Zenon, <1>6 DEF OtherClientActs, NotifyPurge, FetchNodes, CommitInterim, vars, tags, tree
  <2>2. streaming'.mLastAPDeletedNode = streaming.mLastAPDeletedNode
    <3>1. CASE CommitInterim
      BY Zenon, <3>1 DEF CommitInterim, Ground, Bounds, ScTypes, ParserFlags
    <3>2. CASE ~CommitInterim
      BY ZenonT(30), <1>6, <3>2 DEF OtherClientActs, NotifyPurge, FetchNodes, vars
    <3> QED
      BY <3>1, <3>2
  <2> QED
    BY Zenon, <2>1, <2>2, <1>SeenGrows DEF Ground
<1>7. CASE ScRequest \/ ApiTooMany
  <2>1. /\ UNCHANGED <<ops, mCurrentSeqtag, mCurrentSeqtagSeen, applied, parser>>
        /\ pendingsc.status # "answered" /\ pendingsc'.status # "answered"
        /\ scsn' = scsn \/ scsn' = NoSn
    <3>1. CASE ScRequest
      <4>1. pendingsc' = [status |-> "sent", from |-> scsn, upto |-> 0, ir |-> FALSE]
        BY ZenonT(30), <3>1 DEF ScRequest, NoRequest
      <4>2. pendingsc'.status = "sent"
        BY Zenon, <4>1
      <4> QED
        BY <3>1, <4>2 DEF ScRequest, server, tags, tree
    <3>2. CASE ApiTooMany
      BY Zenon, <3>2 DEF ApiTooMany, NoRequest, server, tags, tree
    <3> QED
      BY Zenon, <1>7, <3>1, <3>2
  <2>2. parser.stage = "idle"
    BY Zenon, <2>1 DEF Ground, Bounds, ScTypes
  <2>3. scsn' = scsn => Done' = Done
    BY Zenon, <2>1, <2>2 DEF Done
  <2> HIDE DEF Done
  <2> QED
    BY ZenonT(30), <2>1, <2>2, <2>3 DEF Seen
<1>8. CASE \E upto \in pendingsc.from..Len(ops), ir \in BOOLEAN : ApiAnswers(upto, ir)
  <2>1. PICK upto \in pendingsc.from..Len(ops), ir \in BOOLEAN : ApiAnswers(upto, ir)
    BY <1>8
  <2>2. /\ UNCHANGED <<ops, mCurrentSeqtag, mCurrentSeqtagSeen, applied, parser, scsn>>
        /\ pendingsc.status = "sent" /\ pendingsc'.upto = upto
        /\ upto > pendingsc.from \/ pendingsc.from = Len(ops)
    BY Zenon, <2>1 DEF ApiAnswers, server, tags, tree, Ground, Bounds, ScTypes, Request
  <2>3. parser.stage = "idle" /\ Len(ops) \in Nat /\ mCurrentSeqtag \in Int
        /\ mCurrentSeqtag <= Len(ops)
    BY Zenon, <2>2, TagNumbers DEF Ground, Bounds, ScTypes
  <2>4. Done' = Done /\ Done = scsn
    BY Zenon, <2>2, <2>3 DEF Done
  <2>5. pendingsc.from = scsn /\ pendingsc.from \in Nat /\ scsn # NoSn
    BY Zenon, <2>2, <2>3, RequestHasSn
  <2> HIDE DEF Done
  <2>6. mCurrentSeqtagSeen => mCurrentSeqtag <= upto
    <3>1. mCurrentSeqtagSeen => mCurrentSeqtag <= scsn + 1
      BY Zenon, <2>4, <2>5 DEF Seen
    <3> QED
      BY <2>2, <2>3, <2>5, <3>1
  <2> QED
    BY ZenonT(30), <2>2, <2>3, <2>4, <2>6 DEF Seen
<1>9. CASE ScStart
  <2>1. /\ UNCHANGED <<ops, mCurrentSeqtag, mCurrentSeqtagSeen, applied, scsn, pendingsc>>
        /\ parser' = [stage |-> "a", op |-> pendingsc.from + 1, part |-> 1, checked |-> FALSE]
        /\ pendingsc.status = "answered" /\ parser.stage = "idle"
    BY Zenon, <1>9 DEF ScStart, NoParser, server, tags, tree
  <2>2. pendingsc.from = scsn /\ scsn # NoSn /\ pendingsc.from \in Nat
    BY Zenon, <2>1, RequestHasSn
  <2>3. Done = scsn
    BY <2>1 DEF Done
  <2>4. Done' = (pendingsc.from + 1) - 1
    BY Zenon, <2>1 DEF Done
  <2>5. Done' = Done
    BY <2>2, <2>3, <2>4
  <2> HIDE DEF Done
  <2>6. mCurrentSeqtagSeen => mCurrentSeqtag <= Done' + 1 /\ mCurrentSeqtag <= pendingsc'.upto
    BY ZenonT(30), <2>1, <2>2, <2>5 DEF Seen
  <2>7. ~parser'.checked /\ parser'.part = 1
    BY Zenon, <2>1
  <2> QED
    BY Zenon, <2>1, <2>6, <2>7, <1>SeenBetween DEF Ground
<1>10. CASE ScFails
  <2>1. /\ UNCHANGED <<ops, mCurrentSeqtag, mCurrentSeqtagSeen, applied, scsn>>
        /\ parser' = NoParser /\ pendingsc' = NoRequest
        /\ pendingsc.status = "sent" \/ Streaming
    BY Zenon, <1>10 DEF ScFails, server, tags
  <2>2. pendingsc.status = "sent" => parser.stage = "idle"
    BY ZenonT(30) DEF Ground, Bounds, ScTypes
  <2>3. scsn # NoSn => Done = scsn
    BY Zenon, <2>1, <2>2, CutHere DEF Ends
  <2>4. Done' = scsn
    BY Zenon, <2>1 DEF Done, NoParser
  <2> HIDE DEF Done
  <2>5. mCurrentSeqtagSeen /\ scsn # NoSn => mCurrentSeqtag <= Done' + 1
    BY Zenon, <2>3, <2>4 DEF Seen
  <2>6. ~parser'.checked /\ parser'.part = 1 /\ pendingsc'.status # "answered"
    BY Zenon, <2>1 DEF NoParser, NoRequest
  <2> QED
    BY Zenon, <2>1, <2>5, <2>6, <1>SeenBetween DEF Ground
<1> QED
  BY ZenonT(30), <1>1, <1>3, <1>4, <1>5, <1>6, <1>7, <1>8, <1>9, <1>10 DEF Next, ScRead

-----------------------------------------------------------------------------
(* The results that are handed out, and the tags that are reported.        *)

\* The results that a step hands out while the sc channel is on.
LEMMA HandsOut ==
    ASSUME Ground, Ends, SeenWaits, Stops, Results, Seen, [Next]_vars, ScsnReady,
           NEW r \in delivered' \ delivered
    PROVE  /\ mCurrentSeqtagSeen /\ r = mCurrentSeqtag /\ scsn # NoSn
           /\ mCurrentSeqtag \in 1..Done
<1>1. CASE CsResponse
  <2>1. /\ delivered' = delivered \cup
                          ({batch[j].st : j \in processindex..(StopIndex - 1)} \ {NoTag})
        /\ cs = "executed"
    BY ZenonT(30), <1>1 DEF CsResponse, Process, HandOut
  <2>2. mCurrentSeqtag = NoTag
    BY Zenon, <2>1 DEF Ground, Bounds, Idle
  <2>3. \A j \in processindex..(StopIndex - 1) : batch[j].st = NoTag
    BY Zenon, <2>2, StopIndexIs DEF Ground, Bounds, CsTypes
  <2> HIDE DEF StopIndex
  <2> QED
    BY Zenon, <2>1, <2>3
<1>2. CASE CheckPacket
  <2> DEFINE tag == St(parser.op, parser.part)
  <2>1. /\ scsn # NoSn /\ ~IsFetchNodes /\ parser.stage = "a" /\ parser.part \in {1, 2}
        /\ parser.op \in 1..Len(ops) /\ Done = parser.op - 1
        /\ \/ ImplicitTag /\ UNCHANGED <<reqs, tags, sctags, delivered>>
           \/ ~ImplicitTag /\ CheckSequenceTag(tag)
    BY ZenonT(30), <1>2, CheckDoes
  <2>2. ~ImplicitTag /\ CheckSequenceTag(tag)
    BY Zenon, <2>1
  <2>3. tag = NoTag \/ tag = parser.op
    BY Zenon DEF St
  <2>4. tag = NoTag /\ ops[parser.op].kind \in {"u", "m"} =>
           ops[parser.op].kind = "m" /\ parser.part = 2
    BY <2>1 DEF St, NoTag
  <2> HIDE DEF tag
  <2>5. Exhausted(tag) /\ r = mCurrentSeqtag
    BY Zenon, <2>1, <2>2, CheckWaits DEF Ground
  <2>6. mCurrentSeqtagSeen /\ mCurrentSeqtag # tag
    BY Zenon, <2>5 DEF Exhausted
  <2>7. /\ mCurrentSeqtag \in 1..Len(ops) /\ ops[mCurrentSeqtag].kind \in {"u", "m"}
        /\ batch[processindex].kind = ops[mCurrentSeqtag].kind
    BY ZenonT(30), <2>6, SeenResult DEF Ground
  <2>8. /\ mCurrentSeqtag <= Done + 1
        /\ parser.part = 2 => streaming.mLastAPDeletedNode
    BY Zenon, <2>1, <2>6 DEF Seen
  <2>9. mCurrentSeqtag # parser.op
    <3> SUFFICES ASSUME mCurrentSeqtag = parser.op PROVE FALSE
      OBVIOUS
    <3>1. ops[parser.op].kind = "m" /\ parser.part = 2 /\ batch[processindex].kind = "m"
      BY Zenon, <2>3, <2>4, <2>6, <2>7
    <3>2. ImplicitTag
      BY Zenon, <2>6, <2>8, <3>1 DEF ImplicitTag
    <3> QED
      BY Zenon, <2>2, <3>2
  <2>10. mCurrentSeqtag \in 1..Done
    BY <2>1, <2>7, <2>8, <2>9
  <2> QED
    BY Zenon, <2>1, <2>5, <2>6, <2>10
<1>3. CASE ArrayEnds
  <2>1. /\ scsn # NoSn /\ ~IsFetchNodes /\ CheckSequenceTag(NoTag) /\ Done = pendingsc.upto
        /\ pendingsc.status = "answered"
    BY Zenon, <1>3, AtArrayEnd DEF Ends
  <2>2. Exhausted(NoTag) /\ r = mCurrentSeqtag
    BY Zenon, <2>1, CheckWaits DEF Ground
  <2>3. mCurrentSeqtagSeen
    BY Zenon, <2>2 DEF Exhausted
  <2>4. mCurrentSeqtag \in 1..Len(ops)
    BY Zenon, <2>3, SeenResult DEF Ground
  <2>5. mCurrentSeqtag <= Done /\ Done \in Nat
    BY Zenon, <2>1, <2>3, DoneWhole DEF Seen
  <2> HIDE DEF Done
  <2>6. mCurrentSeqtag \in 1..Done
    BY <2>4, <2>5
  <2> QED
    BY Zenon, <2>1, <2>2, <2>3, <2>6
<1>4. CASE \/ OtherClientActs \/ NotifyPurge \/ SendBatch \/ SendFetchNodes \/ ApiExecutes
           \/ ApiRefuses \/ FetchNodesBegins \/ FetchNodesEnds \/ FetchNodes \/ ScRequest
           \/ ApiTooMany \/ ScFails \/ ScStart \/ ApplyPacket \/ StoreSn \/ ProcEoo
           \/ CommitInterim \/ Restart \/ UNCHANGED vars
           \/ \E upto \in pendingsc.from..Len(ops), ir \in BOOLEAN : ApiAnswers(upto, ir)
  <2>1. delivered' = delivered
    BY ZenonT(30), <1>4 DEF OtherClientActs, NotifyPurge, SendBatch, SendFetchNodes, ApiExecutes,
       ApiRefuses, FetchNodesBegins, FetchNodesEnds, FetchNodes, ScRequest, ApiTooMany,
       ScFails, ScStart, ApplyPacket, StoreSn, ProcEoo, CommitInterim, Restart, vars,
       ApiAnswers
  <2> QED
    BY Zenon, <2>1
<1> QED
  BY Zenon, <1>1, <1>2, <1>3, <1>4 DEF Next, ScRead

\* A result is handed out when the tree shows its operation whole, and nothing of one
\* with a later tag.
LEMMA HandsOutInStep ==
    ASSUME Ground, Ends, SeenWaits, Stops, Results, Seen, [Next]_vars, ScsnReady,
           NEW r \in delivered' \ delivered
    PROVE  /\ Packets(r) \subseteq applied
           /\ \A j \in (r + 1)..Len(ops) :
                 ops[j].kind \in Tagged => Packets(j) \cap applied = {}
<1>1. mCurrentSeqtagSeen /\ r = mCurrentSeqtag /\ scsn # NoSn /\ r \in 1..Done
  BY Zenon, HandsOut
<1>2. /\ Done \in Nat /\ Done <= Len(ops) /\ (\A k \in 1..Done : Whole(k, applied))
      /\ Untouched(Done, applied) /\ Len(ops) \in Nat
  BY ZenonT(30), <1>1, DoneWhole, TagNumbers DEF Ground, Ends, Frontier
<1> HIDE DEF Done
<1>3. Packets(r) \subseteq applied
  BY ZenonT(30), <1>1, <1>2, WholeIsPackets
<1>4. ASSUME NEW j \in (r + 1)..Len(ops), ops[j].kind \in Tagged
      PROVE  Packets(j) \cap applied = {}
  <2>1. j \in 1..Len(ops) /\ j > mCurrentSeqtag /\ j \in Nat
    BY <1>1, <1>2
  <2>2. <<j, 1>> \notin applied
    BY Zenon, <1>1, <1>4, <2>1 DEF Seen
  <2>3. j > Done
    <3> SUFFICES ASSUME ~(j > Done) PROVE FALSE
      OBVIOUS
    <3>1. j \in 1..Done
      BY <1>2, <2>1
    <3>2. Whole(j, applied)
      BY Zenon, <1>2, <3>1
    <3>3. <<j, 1>> \in applied
      BY <3>2 DEF Whole, WholeOp, Parts
    <3> QED
      BY Zenon, <2>2, <3>3
  <2>4. <<j, 2>> \notin applied
    BY ZenonT(30), <1>2, <2>1, <2>3 DEF Untouched
  <2> QED
    BY Zenon, <2>2, <2>4, WholeIsPackets
<1> QED
  BY Zenon, <1>3, <1>4

\* An empty state cache has no tag either.
EmptyCache == db.scsn = NoSn => db.seqTag = NoTag

\* The counters of the bounds.
UsedTypes == used \in [batches : Nat, aborts : Nat, restarts : Nat, reloads : Nat]

\* When the app is told a tag the tree shows the packets that carry it.
LEMMA ReportsApplied ==
    ASSUME Ground, Bounds', Ends, TagsInStep, EmptyCache, UsedTypes, [Next]_vars,
           reported' # reported
    PROVE  TagsApplied' \/ (Streaming /\ used'.restarts > used.restarts)
\* A tree that shows every operation up to n whole shows their tagged packets.
<1>WholeTags.
      ASSUME NEW n \in Int, ops' = ops, reported' \in Int, reported' <= n,
             \A k \in 1..n : Whole(k, applied')
      PROVE  TagsApplied'
  <2> USE <1>WholeTags
  <2> SUFFICES ASSUME NEW k \in 1..reported', NEW p \in 1..Parts(ops[k].kind)
               PROVE  <<k, p>> \in applied'
    BY Zenon DEF TagsApplied
  <2>1. k \in 1..n
    OBVIOUS
  <2> QED
    BY Zenon, <2>1 DEF Whole, WholeOp
<1>0. reported' \in Int
  BY Zenon DEF Bounds, TagTypes, OfLog
<1>1. CASE CheckPacket
  <2>1. /\ UNCHANGED <<ops, applied>> /\ scsn # NoSn /\ parser.stage = "a"
        /\ parser.op \in 1..Len(ops) /\ Done = parser.op - 1 /\ parser.part \in {1, 2}
        /\ \/ ImplicitTag /\ UNCHANGED <<reqs, tags, sctags, delivered>>
           \/ ~ImplicitTag /\ CheckSequenceTag(St(parser.op, parser.part))
    BY ZenonT(30), <1>1, CheckDoes
  <2>2. CheckSequenceTag(St(parser.op, parser.part))
    BY Zenon, <2>1 DEF sctags
  <2>3. /\ St(parser.op, parser.part) = NoTag /\ mLastReceivedScSeqTag # NoTag
        /\ reported' = mLastReceivedScSeqTag
    BY Zenon, <2>2, CheckSequenceTagDoes DEF ReportedAfter
  <2>4. /\ mLastReceivedScSeqTag <= parser.op /\ mLastReceivedScSeqTag > 0
        /\ ops[mLastReceivedScSeqTag].kind \in Tagged
    BY <2>1, <2>3 DEF TagsInStep, TagsRead, TaggedLast
  <2>5. Done \in Nat /\ (\A k \in 1..Done : Whole(k, applied))
    BY Zenon, <2>1, DoneWhole
  <2>6. CASE mLastReceivedScSeqTag = parser.op
    <3>1. ops[parser.op].kind = "m" /\ parser.part = 2
      BY ZenonT(30), <2>1, <2>3, <2>4, <2>6 DEF St, Tagged, NoTag
    <3>2. <<parser.op, 1>> \in applied
      BY Zenon, <2>1, <3>1 DEF Ground, Inv, Reading
    <3>3. ASSUME NEW k \in 1..reported', NEW p \in 1..Parts(ops'[k].kind), St(k, p)' # NoTag
          PROVE  <<k, p>> \in applied'
      <4>1. CASE k = parser.op
        <5>1. p \in {1, 2} /\ p # 2
          BY <2>1, <3>1, <3>3, <4>1 DEF Parts, St
        <5> QED
          BY Zenon, <2>1, <3>2, <4>1, <5>1
      <4>2. CASE k # parser.op
        <5>1. k \in 1..Done
          BY <2>1, <2>3, <2>6, <4>2
        <5> QED
          BY Zenon, <2>1, <2>5, <5>1 DEF Whole, WholeOp
      <4> QED
        BY Zenon, <4>1, <4>2
    <3> QED
      BY Zenon, <3>3 DEF TagsApplied
  <2>7. CASE mLastReceivedScSeqTag # parser.op
    <3>1. reported' <= Done
      BY <1>0, <2>1, <2>3, <2>4, <2>7
    <3> HIDE DEF Done
    <3> QED
      BY <1>0, <2>1, <2>5, <3>1, <1>WholeTags
  <2> QED
    BY Zenon, <2>6, <2>7
<1>2. CASE ArrayEnds
  <2>1. /\ UNCHANGED <<ops, applied>> /\ scsn # NoSn /\ CheckSequenceTag(NoTag)
        /\ pendingsc.status = "answered" /\ Done = pendingsc.upto
    BY Zenon, <1>2, AtArrayEnd DEF Ends
  <2>2. reported' = mLastReceivedScSeqTag
    BY Zenon, <2>1, CheckSequenceTagDoes DEF ReportedAfter
  <2>3. reported' <= Done
    BY Zenon, <2>1, <2>2 DEF TagsInStep, TagsRead
  <2>4. Done \in Nat /\ (\A k \in 1..Done : Whole(k, applied))
    BY Zenon, <2>1, DoneWhole
  <2> HIDE DEF Done
  <2> QED
    BY <1>0, <2>1, <2>3, <2>4, <1>WholeTags
<1>3. CASE FetchNodesEnds
  <2>1. ops' = ops /\ applied' = PacketsUpTo(reported')
    BY Zenon, <1>3 DEF FetchNodesEnds, server
  <2>2. \A k \in 1..reported' : Whole(k, applied')
    BY Zenon, <1>0, <2>1, UpToWhole
  <2> QED
    BY <1>0, <2>1, <2>2, <1>WholeTags
<1>4. CASE Restart
  <2>1. /\ ops' = ops /\ applied' = db.applied /\ reported' = db.seqTag
        /\ Use("restarts", MaxRestarts)
    BY Zenon, <1>4 DEF Restart, server
  <2>2. CASE Streaming
    <3>1. used'.restarts = used.restarts + 1 /\ used.restarts \in Nat
      BY Zenon, <2>1 DEF Use, UsedTypes
    <3> QED
      BY <2>2, <3>1
  <2>3. CASE ~Streaming
    <3>1. db.seqTag <= db.scsn /\ db.scsn \in Int
      BY Zenon, <2>3, TagNumbers DEF TagsInStep, CachedTag, EmptyCache, Ground
    <3>2. \A k \in 1..db.scsn : Whole(k, applied')
      BY <2>1 DEF Ground, Inv, Kept
    <3> QED
      BY Zenon, <1>0, <2>1, <3>1, <3>2, <1>WholeTags
  <2> QED
    BY Zenon, <2>2, <2>3
<1>5. CASE \/ OtherClientActs \/ NotifyPurge \/ SendBatch \/ SendFetchNodes \/ ApiExecutes
           \/ ApiRefuses \/ CsResponse \/ FetchNodesBegins \/ FetchNodes \/ ScRequest
           \/ ApiTooMany \/ ScFails \/ ScStart \/ ApplyPacket \/ StoreSn \/ ProcEoo
           \/ CommitInterim \/ UNCHANGED vars
           \/ \E upto \in pendingsc.from..Len(ops), ir \in BOOLEAN : ApiAnswers(upto, ir)
  <2>1. reported' = reported
    BY Zenon, <1>5 DEF OtherClientActs, NotifyPurge, SendBatch, SendFetchNodes, ApiExecutes,
       ApiRefuses, CsResponse, FetchNodesBegins, FetchNodes, ScRequest, ApiTooMany, ScFails,
       ScStart, ApplyPacket, StoreSn, ProcEoo, CommitInterim, vars, ApiAnswers, sctags
  <2> QED
    BY Zenon, <2>1
<1> QED
  BY Zenon, <1>1, <1>2, <1>3, <1>4, <1>5 DEF Next, ScRead

-----------------------------------------------------------------------------
(* The theorems.                                                           *)

\* All that is said of the channel.
ChannelInv ==
    /\ Ground /\ Ends /\ TagsInStep /\ Shown
    /\ Stops /\ SeenWaits /\ Results /\ Seen
    /\ EmptyCache /\ UsedTypes

\* The initial state.
LEMMA InitChannelInv == Init => ChannelInv
<1> SUFFICES ASSUME Init PROVE ChannelInv
  OBVIOUS
<1>1. Ground
  <2>1. ops = <<>>
    BY Zenon DEF Init
  <2>2. IsnKnown
    BY <2>1 DEF IsnKnown
  <2> QED
    BY ZenonT(30), <2>2, InitBounds, InitInv DEF Ground
<1>2. /\ parser = NoParser /\ pendingsc = NoRequest /\ streaming = NoStreaming /\ scsn = 0
      /\ seqTag = 0 /\ mLastReceivedScSeqTag = NoTag /\ applied = {} /\ batch = <<>>
      /\ db = [scsn |-> 0, applied |-> {}, seqTag |-> 0] /\ ~stopsc /\ cs = "idle"
      /\ processindex = 1 /\ ~mCurrentSeqtagSeen /\ ~actionpacketsCurrent
      /\ mCurrentSeqtagSeen \in BOOLEAN
      /\ used = [batches |-> 0, aborts |-> 0, restarts |-> 0, reloads |-> 0]
  BY Zenon DEF Init
<1>3. parser.stage = "idle" /\ Done = 0 /\ ~IsFetchNodes /\ pendingsc.status = "none"
  BY <1>2 DEF NoParser, NoRequest, Done, IsFetchNodes
<1>4. Ends
  BY ZenonT(30), <1>2, <1>3 DEF Ends, Frontier, Cached, PurgeLater, Untouched, NoStreaming
<1>5. TagsInStep
  BY <1>2, <1>3 DEF TagsInStep, TagsRead, TaggedLast, CachedTag, Reloading, NoTag, NoSn
<1>6. Shown /\ Stops /\ Results /\ Seen
  BY ZenonT(30), <1>2, <1>3 DEF Shown, Stops, Results, Seen
<1>7. SeenWaits
  BY ZenonT(30), <1>2 DEF SeenWaits, NoResultLeftBehind, NoParser
<1>8. EmptyCache
  BY <1>2 DEF EmptyCache, NoSn
<1>9. UsedTypes
  BY Zenon, <1>2 DEF UsedTypes
<1> QED
  BY <1>1, <1>4, <1>5, <1>6, <1>7, <1>8, <1>9 DEF ChannelInv

\* Every step.
LEMMA NextChannelInv == InScope /\ ChannelInv /\ [Next]_vars => ChannelInv'
\* A commit writes a sequence number.
<1>NextEmptyCache. Ground /\ Ends /\ EmptyCache /\ [Next]_vars => EmptyCache'
  <2> SUFFICES ASSUME Ground, Ends, EmptyCache, [Next]_vars PROVE EmptyCache'
    OBVIOUS
  <2>1. CASE db' = db \/ db'.scsn # NoSn
    BY <2>1 DEF EmptyCache
  <2>2. streaming.mNeedToPurge => scsn # NoSn
    <3>1. streaming.mNeedToPurge => pendingsc.status = "answered"
      BY DEF Ends, PurgeLater, Ground, Bounds, ScTypes
    <3> QED
      BY ZenonT(30), <3>1, RequestHasSn
  <2>3. CASE SendFetchNodes \/ ScFails \/ CommitInterim
    <3>1. db' = db \/ (db'.scsn = scsn /\ streaming.mNeedToPurge)
      BY <2>3 DEF SendFetchNodes, ScFails, CommitInterim, ClearStreamingParser, PurgeAndCommit
    <3> QED
      BY <2>1, <2>2, <3>1
  <2>4. CASE StoreSn
    <3>1. db'.scsn = pendingsc.upto /\ pendingsc.upto \in Nat
      BY ZenonT(30), <2>4 DEF StoreSn, PurgeAndCommit, Ground, Bounds, ScTypes, Request
    <3> QED
      BY <2>1, <3>1 DEF NoSn
  <2>5. CASE FetchNodesBegins
    BY Zenon, <2>5 DEF FetchNodesBegins, EmptyCache
  <2>6. CASE FetchNodesEnds
    <3>1. db'.scsn = db'.seqTag
      BY Zenon, <2>6 DEF FetchNodesEnds
    <3> QED
      BY Zenon, <3>1 DEF EmptyCache, NoSn, NoTag
  <2>7. CASE \/ OtherClientActs \/ NotifyPurge \/ SendBatch \/ ApiExecutes \/ ApiRefuses
             \/ CsResponse \/ FetchNodes \/ ScRequest \/ ApiTooMany \/ ScStart \/ CheckPacket
             \/ ApplyPacket \/ ArrayEnds \/ ProcEoo \/ Restart \/ UNCHANGED vars
             \/ \E upto \in pendingsc.from..Len(ops), ir \in BOOLEAN : ApiAnswers(upto, ir)
    <3>1. db' = db
      BY ZenonT(30), <2>7 DEF OtherClientActs, NotifyPurge, SendBatch, ApiExecutes, ApiRefuses, CsResponse,
         FetchNodes, ScRequest, ApiTooMany, ScStart, CheckPacket, ApplyPacket, ArrayEnds,
         ProcEoo, Restart, vars, ApiAnswers
    <3> QED
      BY Zenon, <2>1, <3>1
  <2> QED
    BY ZenonT(30), <2>3, <2>4, <2>5, <2>6, <2>7 DEF Next, ScRead
\* The counters of the bounds.
<1>NextUsedTypes. UsedTypes /\ [Next]_vars => UsedTypes'
  <2> SUFFICES ASSUME UsedTypes, [Next]_vars PROVE UsedTypes'
    OBVIOUS
  <2>1. ASSUME NEW b \in {"batches", "aborts", "restarts", "reloads"}, NEW max, Use(b, max)
        PROVE  UsedTypes'
    BY <2>1 DEF Use, UsedTypes
  <2>2. CASE used' = used
    BY Zenon, <2>2 DEF UsedTypes
  <2>3. CASE SendBatch \/ ApiRefuses \/ FetchNodes \/ ApiTooMany \/ ScFails \/ Restart
    <3>1. \/ used' = used \/ Use("batches", MaxBatches) \/ Use("aborts", MaxAborts)
          \/ Use("reloads", MaxReloads) \/ Use("restarts", MaxRestarts)
      BY Zenon, <2>3 DEF SendBatch, ApiRefuses, FetchNodes, ApiTooMany, ScFails, Restart
    <3> HIDE DEF Use, UsedTypes
    <3> QED
      BY Zenon, <2>1, <2>2, <3>1
  <2>4. CASE \/ OtherClientActs \/ NotifyPurge \/ SendFetchNodes \/ ApiExecutes \/ CsResponse
             \/ FetchNodesBegins \/ FetchNodesEnds \/ ScRequest \/ ScStart \/ CheckPacket
             \/ ApplyPacket \/ ArrayEnds \/ StoreSn \/ ProcEoo \/ CommitInterim \/ UNCHANGED vars
             \/ \E upto \in pendingsc.from..Len(ops), ir \in BOOLEAN : ApiAnswers(upto, ir)
    <3>1. used' = used
      BY Zenon, <2>4 DEF OtherClientActs, NotifyPurge, SendFetchNodes, ApiExecutes, CsResponse,
         FetchNodesBegins, FetchNodesEnds, ScRequest, ScStart, CheckPacket, ApplyPacket,
         ArrayEnds, StoreSn, ProcEoo, CommitInterim, vars, ApiAnswers
    <3> QED
      BY Zenon, <2>2, <3>1
  <2> QED
    BY <2>3, <2>4 DEF Next, ScRead
<1> SUFFICES ASSUME InScope, ChannelInv, [Next]_vars PROVE ChannelInv'
  OBVIOUS
<1> USE DEF ChannelInv
<1>1. Bounds' /\ IsnKnown'
  BY Zenon, NextBounds, NextIsnKnown DEF Ground
<1>2. Inv'
  BY Zenon, NextInv DEF InScope, Scope, Ground
<1>3. Ground'
  BY <1>1, <1>2 DEF Ground
<1>4. Ends' /\ TagsInStep' /\ Shown' /\ Stops' /\ SeenWaits'
  BY Zenon, <1>1, NextEnds, NextTagsInStep, NextShown, NextStops, NextSeenWaits
<1>5. Results'
  BY Zenon, <1>1, NextResults
<1>6. Seen'
  BY Zenon, <1>1, <1>4, <1>5, NextSeen
<1>7. EmptyCache' /\ UsedTypes'
  BY <1>NextEmptyCache, <1>NextUsedTypes
<1> QED
  BY ZenonT(30), <1>3, <1>4, <1>5, <1>6, <1>7

\* The invariant.
LEMMA ChannelInvariant == ASSUME InScope PROVE Spec => []ChannelInv
<1>1. ChannelInv /\ [Next]_vars => ChannelInv'
  BY NextChannelInv
<1> QED
  BY <1>1, InitChannelInv, PTL DEF Spec

\* The syncs are not let loose on half of an operation.
THEOREM SyncsSeeWhole == ASSUME InScope PROVE Spec => []SyncsSeeWholeOperations
<1>1. ChannelInv => SyncsSeeWholeOperations
  BY ShownProperties DEF ChannelInv
<1> QED
  BY <1>1, ChannelInvariant, PTL

\* After a reload the syncs see no tree older than the packets they were shown before.
THEOREM SyncsGoForward == ASSUME InScope PROVE Spec => []SyncsNeverGoBack
<1>1. ChannelInv => SyncsNeverGoBack
  BY Zenon, ShownProperties DEF ChannelInv
<1> QED
  BY <1>1, ChannelInvariant, PTL

\* The assertion of sc_checkSequenceTag(): a tag that a result waits for has not gone
\* by already.
THEOREM TagsStillToCome == ASSUME InScope PROVE Spec => []ExpectedTagsToCome
<1>1. ChannelInv => ExpectedTagsToCome
  BY Zenon DEF ChannelInv, Results, Waits, Coming, ExpectedTagsToCome
<1> QED
  BY <1>1, ChannelInvariant, PTL

\* A result is handed out after all packets of its tag and before any with a later one.
THEOREM ResultsKeepStep == ASSUME InScope PROVE Spec => ResultsInStep
<1> DEFINE instep ==
       \A k \in delivered' \ delivered :
          ScsnReady =>
             /\ Packets(k) \subseteq applied
             /\ \A j \in (k + 1)..Len(ops) :
                   ops[j].kind \in Tagged => Packets(j) \cap applied = {}
<1>1. ChannelInv /\ [Next]_vars => [instep]_vars
  BY HandsOutInStep DEF ChannelInv
<1>2. Spec => [][instep]_vars
  BY <1>1, ChannelInvariant, PTL DEF Spec
<1> QED
  BY Zenon, <1>2 DEF ResultsInStep

\* When the app is told a tag, the packets that carry it or an earlier one are applied.
THEOREM ReportedTagsAreApplied ==
    ASSUME InScope
    PROVE  Spec /\ [](isStreamingEnabled = Streaming) => ReportedTagsApplied
<1> DEFINE told ==
       reported' # reported =>
          TagsApplied' \/ (isStreamingEnabled /\ used'.restarts > used.restarts)
<1>1. ChannelInv /\ ChannelInv' /\ [Next]_vars /\ isStreamingEnabled = Streaming =>
         [told]_vars
  BY ReportsApplied DEF ChannelInv, Ground
<1>2. Spec /\ [](isStreamingEnabled = Streaming) => [][told]_vars
  BY <1>1, ChannelInvariant, PTL DEF Spec
<1> QED
  BY Zenon, <1>2 DEF ReportedTagsApplied
=============================================================================
