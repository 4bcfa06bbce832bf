--------------------------- MODULE WsUpload_proofs ---------------------------
(***************************************************************************)
(* Proofs about WsUpload, for any files, connections, chunks, retries and  *)
(* faults: the current file of the pool is bound to it, records belong to  *)
(* files, the MAC of an acked chunk is kept, and what was read is sent     *)
(* only while its file is uploading.                                       *)
(***************************************************************************)
EXTENDS WsUpload, TLAPS

Fields == {"tracked", "bound", "started", "paused", "failed", "done", "eof",
           "head", "confirmed", "acked", "macs"}

\* What the steps below need to know of the shape of the variables.
UpShape ==
    /\ DOMAIN up = Files /\ DOMAIN xfer = Files
    /\ \A f \in Files : DOMAIN up[f] = Fields
    /\ \A f \in Files : DOMAIN xfer[f] = {"state", "paused", "macs", "progress", "preflight"}
PoolShape ==
    /\ DOMAIN pool = {"resend", "n", "cur", "stale"}
    /\ pool.resend \in [Chunk -> Nat] /\ pool.cur \in Files \cup {NoFile}
    /\ flight \in [Conns -> [Chunk -> Nat]]
WorkerShape(w) ==
    /\ DOMAIN w = Conns
    /\ \A c \in Conns :
         w[c].pc # "idle" => DOMAIN w[c] = {"pc", "k", "gen"} /\ w[c].k.f \in Files

Shape == UpShape /\ PoolShape /\ WorkerShape(worker)

\* A file that uploads was started: no reset leaves a bound file unmarked.
UploadsStarted == \A f \in Files : Uploads(f) => up[f].started

\* The two parts of NoRecordOutlivesItsFile.
RecordsFound == \A c \in Conns, k \in Chunk : flight[c][k] > 0 => Found(k.f)
ResendsFound == \A k \in Chunk :
    Queued(k) => Found(k.f) \/ up[k.f].done \/ up[k.f].failed # "no"

\* The inductive invariant: the parts rest on each other through CurrentIsBound
\* (what SendNext sends is a chunk of a file of the pool) and on the shapes.
Inv == Shape /\ CurrentIsBound /\ RecordsFound /\ ResendsFound /\ AckedMacKept /\ UploadsStarted

LEMMA ChunkFile == \A k \in Chunk : k.f \in Files
BY DEF Chunk

\* Bags: the operations give bags, and add nothing but the chunk added.
LEMMA BagAdd ==
    ASSUME NEW b \in [Chunk -> Nat], NEW k
    PROVE  /\ Add(b, k) \in [Chunk -> Nat]
           /\ \A j \in Chunk : Add(b, k)[j] > 0 => b[j] > 0 \/ j = k
<1>1. CASE k \in Chunk
  BY <1>1 DEF Add
<1>2. CASE k \notin Chunk
  <2> Add(b, k) = b
    BY <1>2 DEF Add
  <2> QED
    OBVIOUS
<1> QED
  BY <1>1, <1>2

LEMMA BagDrop ==
    ASSUME NEW b \in [Chunk -> Nat], NEW k \in Chunk, b[k] > 0
    PROVE  /\ Drop(b, k) \in [Chunk -> Nat]
           /\ \A j \in Chunk : Drop(b, k)[j] > 0 => b[j] > 0
BY DEF Drop

LEMMA BagDiscard ==
    ASSUME NEW b \in [Chunk -> Nat], NEW K
    PROVE  /\ Discard(b, K) \in [Chunk -> Nat]
           /\ \A j \in Chunk : Discard(b, K)[j] > 0 => b[j] > 0
           /\ \A j \in Chunk \ K : Discard(b, K)[j] = b[j]
BY DEF Discard

\* Readers that are told of a change keep the shape.
LEMMA InvalidatedShape ==
    ASSUME NEW w, WorkerShape(w), NEW F PROVE WorkerShape(Invalidated(w, F))
BY DEF WorkerShape, Invalidated

LEMMA OrphanedShape ==
    ASSUME NEW w, WorkerShape(w), NEW f PROVE WorkerShape(Orphaned(w, f))
BY DEF WorkerShape, Orphaned

\* failFileLocked and its siblings keep the invariant.
LEMMA FailFileKeeps ==
    ASSUME Inv, NEW f, NEW w, WorkerShape(w), NEW stale, FailFile(f, w, stale), xfer' = xfer
    PROVE  Inv'
<1> USE ChunkFile DEF Inv, Shape, UpShape, PoolShape, Fields, FailFile, UploadFailed, MarkedFailed, ResetAttempt
<1>1. /\ up' = [up EXCEPT ![f] = UploadFailed(@)]
      /\ flight' = PurgedFlight({f})
      /\ worker' = Invalidated(w, {f})
      /\ pool' = [PurgedPool({f}) EXCEPT !.stale = stale]
  OBVIOUS
<1>2. UpShape'
  BY <1>1
<1>3. PoolShape'
  BY DEF PurgedPool, PurgedFlight, Without
<1>4. WorkerShape(worker)'
  <2> WorkerShape(Invalidated(w, {f}))
    BY InvalidatedShape
  <2> QED
    BY Zenon, <1>1 DEF WorkerShape
<1>5. CurrentIsBound'
  BY DEF CurrentIsBound, Found, PurgedPool
<1>6. RecordsFound'
  BY DEF RecordsFound, Found, PurgedFlight, Without
<1>7. ResendsFound'
  BY DEF ResendsFound, Found, Queued, PurgedPool, Without
<1>8. AckedMacKept'
  BY DEF AckedMacKept, MacsOf
<1>9. UploadsStarted'
  BY DEF UploadsStarted, Uploads, Found
<1> QED
  BY Zenon, <1>2, <1>3, <1>4, <1>5, <1>6, <1>7, <1>8, <1>9

\* remove() keeps the invariant, whatever new object takes the place of the old.
LEMMA RemoveKeeps ==
    ASSUME Inv, NEW f, NEW u, NEW x, Remove(f),
           up' = [up EXCEPT ![f] = u], DOMAIN u = Fields, u.bound = FALSE, u.acked = {},
           xfer' = [xfer EXCEPT ![f] = x],
           DOMAIN x = {"state", "paused", "macs", "progress", "preflight"}
    PROVE  Inv'
<1> USE ChunkFile DEF Inv, Shape, UpShape, PoolShape, Fields, Remove
<1>2. UpShape'
  OBVIOUS
<1>3. PoolShape'
  BY DEF PurgedPool, PurgedFlight, Without
<1>4. WorkerShape(worker)'
  BY OrphanedShape DEF WorkerShape
<1>5. CurrentIsBound'
  BY DEF CurrentIsBound, Found, PurgedPool
<1>6. RecordsFound'
  BY DEF RecordsFound, Found, PurgedFlight, Without
<1>7. ResendsFound'
  BY DEF ResendsFound, Found, Queued, PurgedPool, Without
<1>8. AckedMacKept'
  BY DEF AckedMacKept, MacsOf
<1>9. UploadsStarted'
  BY DEF UploadsStarted, Uploads, Found
<1> QED
  BY Zenon, <1>2, <1>3, <1>4, <1>5, <1>6, <1>7, <1>8, <1>9

\* Steps of a worker on what it has in hand: up to a chunk of a file of the pool,
\* nothing new is queued or in flight, and no file changes but for its head.
SameFiles ==
    /\ DOMAIN up' = Files /\ xfer' = xfer
    /\ \A f \in Files :
         /\ DOMAIN up'[f] = Fields
         /\ \A d \in Fields \ {"head", "eof"} : up'[f][d] = up[f][d]

LEMMA WorkerStepKeeps ==
    ASSUME Inv, SameFiles, PoolShape', WorkerShape(worker)', pool'.cur = pool.cur,
           \A c \in Conns, k \in Chunk : flight'[c][k] > 0 => flight[c][k] > 0 \/ Found(k.f),
           \A k \in Chunk : pool'.resend[k] > 0 => pool.resend[k] > 0 \/ Found(k.f)
    PROVE  Inv'
<1> USE ChunkFile DEF Inv, Shape, UpShape, PoolShape, Fields, SameFiles
<1>1. \A f \in Files : /\ up'[f].tracked = up[f].tracked /\ up'[f].bound = up[f].bound
                       /\ up'[f].started = up[f].started /\ up'[f].failed = up[f].failed
                       /\ up'[f].done = up[f].done /\ up'[f].acked = up[f].acked
                       /\ up'[f].macs = up[f].macs
  BY ZenonT(30)
<1>2. UpShape'
  OBVIOUS
<1>5. CurrentIsBound'
  BY <1>1 DEF CurrentIsBound, Found
<1>6. RecordsFound'
  BY <1>1 DEF RecordsFound, Found
<1>7. ResendsFound'
  BY <1>1 DEF ResendsFound, Found, Queued
<1>8. AckedMacKept'
  BY <1>1 DEF AckedMacKept, MacsOf
<1>9. UploadsStarted'
  BY <1>1 DEF UploadsStarted, Uploads, Found
<1> QED
  BY <1>2, <1>5, <1>6, <1>7, <1>8, <1>9

-----------------------------------------------------------------------------
\* Connections and the server.
LEMMA CloseConnKeeps == ASSUME Inv, NEW c \in Conns, CloseConn(c) PROVE Inv'
<1> USE ChunkFile DEF Inv, Shape, UpShape, PoolShape, Fields, CloseConn
<1>1. \A k \in Chunk : pool'.resend[k] \in {pool.resend[k], pool.resend[k] + flight[c][k]}
  OBVIOUS
<1>2. \A k \in Chunk : flight[c][k] > 0 => Found(k.f)
  BY DEF RecordsFound
<1>3. flight' = [flight EXCEPT ![c] = NoChunks] /\ NoChunks \in [Chunk -> Nat]
  BY DEF NoChunks
<1>4. PoolShape'
  <2>1. DOMAIN pool' = {"resend", "n", "cur", "stale"} /\ pool'.cur = pool.cur
    OBVIOUS
  <2>2. pool'.resend \in [Chunk -> Nat]
    <3> DEFINE g(k) == IF Found(k.f) /\ k.i \in up[k.f].acked
                       THEN pool.resend[k] ELSE pool.resend[k] + flight[c][k]
    <3>1. pool'.resend = [k \in Chunk |-> g(k)]
      OBVIOUS
    <3>2. \A k \in Chunk : g(k) \in Nat
      OBVIOUS
    <3> HIDE DEF g
    <3> QED
      BY <3>1, <3>2
  <2>3. flight' \in [Conns -> [Chunk -> Nat]]
    BY <1>3
  <2> QED
    BY <2>1, <2>2, <2>3
<1>5. SameFiles /\ WorkerShape(worker)' /\ pool'.cur = pool.cur
  BY DEF SameFiles, WorkerShape
<1>6. \A d \in Conns, k \in Chunk : flight'[d][k] > 0 => flight[d][k] > 0 \/ Found(k.f)
  BY <1>3 DEF NoChunks
<1>7. \A k \in Chunk : pool'.resend[k] > 0 => pool.resend[k] > 0 \/ Found(k.f)
  BY <1>1, <1>2
<1> HIDE DEF Inv, Shape, UpShape, PoolShape, Fields, CloseConn
<1> QED
  BY <1>4, <1>5, <1>6, <1>7, WorkerStepKeeps

LEMMA InvalidateSessionKeeps == ASSUME Inv, NEW c \in Conns, InvalidateSession(c) PROVE Inv'
<1> DEFINE F == {f \in Files : up[f].tracked}
<1> USE ChunkFile DEF Inv, Shape, UpShape, PoolShape, Fields
<1>1. /\ \A f \in Files \ F : up'[f] = up[f] /\ ~up'[f].tracked
      /\ \A f \in F : ~up'[f].tracked /\ ~up'[f].bound
      /\ flight' = PurgedFlight(F) /\ worker' = Invalidated(worker, F)
      /\ pool' = [PurgedPool(F) EXCEPT !.stale = TRUE]
      /\ DOMAIN up' = Files
  <2>1. up' = [f \in Files |->
                 IF f \in F THEN [ResetAttempt(up[f]) EXCEPT !.bound = FALSE, !.tracked = FALSE]
                 ELSE up[f]]
    BY Zenon DEF InvalidateSession
  <2>2. /\ flight' = PurgedFlight(F) /\ worker' = Invalidated(worker, F)
        /\ pool' = [PurgedPool(F) EXCEPT !.stale = TRUE]
    BY Zenon DEF InvalidateSession
  <2>3. \A f \in F : ~up'[f].tracked /\ ~up'[f].bound
    BY ZenonT(30), <2>1 DEF ResetAttempt
  <2>4. \A f \in Files \ F : up'[f] = up[f] /\ ~up'[f].tracked
    BY Zenon, <2>1
  <2> QED
    BY Zenon, <2>1, <2>2, <2>3, <2>4
<1>2. UpShape'
  BY Zenon DEF InvalidateSession, ResetAttempt
<1>3. PoolShape'
  BY <1>1 DEF PurgedPool, PurgedFlight, Without
<1>4. WorkerShape(worker)'
  <2> WorkerShape(Invalidated(worker, F))
    BY InvalidatedShape
  <2> QED
    BY <1>1 DEF WorkerShape
<1>5. CurrentIsBound'
  BY <1>1 DEF CurrentIsBound, Found, PurgedPool
<1>6. RecordsFound'
  <2>1. \A d \in Conns, k \in Chunk : flight'[d][k] > 0 => k.f \notin F /\ flight[d][k] > 0
    BY <1>1 DEF PurgedFlight, Without
  <2>2. \A k \in Chunk : k.f \notin F => ~Found(k.f)
    BY DEF Found
  <2> QED
    BY <2>1, <2>2 DEF RecordsFound
<1>7. ResendsFound'
  <2>1. \A k \in Chunk : pool'.resend[k] > 0 => k.f \notin F /\ pool.resend[k] > 0
    BY <1>1 DEF PurgedPool, Without
  <2> QED
    BY <1>1, <2>1 DEF ResendsFound, Queued, Found
<1>8. AckedMacKept'
  BY <1>1 DEF AckedMacKept, MacsOf
<1>9. UploadsStarted'
  BY <1>1 DEF UploadsStarted, Uploads, Found
<1> QED
  BY <1>2, <1>3, <1>4, <1>5, <1>6, <1>7, <1>8, <1>9

\* The server, and the tasks that touch no file of the pool.
LEMMA OutsideKeeps ==
    ASSUME Inv, UNCHANGED <<up, pool, flight, worker>>, DOMAIN xfer' = Files,
           \A f \in Files : /\ DOMAIN xfer'[f] = DOMAIN xfer[f]
                            /\ xfer'[f].macs = xfer[f].macs
    PROVE  Inv'
BY DEF Inv, Shape, UpShape, PoolShape, WorkerShape, CurrentIsBound, RecordsFound, ResendsFound,
       AckedMacKept, UploadsStarted, Uploads, Found, Queued, MacsOf

LEMMA ServerKeeps ==
    ASSUME Inv, NEW c \in Conns,
           OpenConn(c) \/ RecvOrphan(c) \/ ServerIngests(c) \/ ServerRejects(c)
    PROVE  Inv'
<1>1. UNCHANGED <<up, xfer, pool, flight, worker>>
  BY Zenon DEF OpenConn, RecvOrphan, Receives, ServerIngests, ServerRejects, Replies
<1> QED
  BY <1>1, OutsideKeeps DEF Inv, Shape, UpShape

-----------------------------------------------------------------------------
\* Events.
LEMMA RecvErrorKeeps == ASSUME Inv, NEW c \in Conns, RecvError(c) PROVE Inv'
BY FailFileKeeps DEF RecvError, Receives, Inv, Shape

LEMMA RecvIngestedKeeps == ASSUME Inv, NEW c \in Conns, RecvIngested(c) PROVE Inv'
<1> DEFINE e == Head(acks[c])
           u == WithMac(e.f, up[e.f], e.i)
           v == IF e.i \in Data(e.f)
                THEN [u EXCEPT !.confirmed = @ + 1, !.acked = @ \cup {e.i}]
                ELSE u
           overflow == v.confirmed > N[e.f]
<1>1. PICK k \in Matched(c, e) :
         /\ up' = [up EXCEPT ![e.f] = IF overflow THEN UploadFailed(v) ELSE v]
         /\ IF overflow
            THEN /\ pool' = PurgedPool({e.f})
                 /\ flight' = PurgedFlight({e.f})
                 /\ worker' = Invalidated(worker, {e.f})
            ELSE /\ pool' = [pool EXCEPT !.n = Minus(@, 1)]
                 /\ TakeFromFlight(c, k)
  BY Zenon DEF RecvIngested
<1>2. xfer' = xfer
  BY Zenon DEF RecvIngested, Receives
<1> USE ChunkFile DEF Inv, Shape, UpShape, PoolShape, Fields
<1>3. e.f \in Files =>
        /\ DOMAIN v = Fields
        /\ v.tracked = up[e.f].tracked /\ v.bound = up[e.f].bound
        /\ v.started = up[e.f].started /\ v.failed = up[e.f].failed
        /\ v.done = up[e.f].done
        /\ up[e.f].acked \subseteq up[e.f].macs \cup xfer[e.f].macs
             => v.acked \subseteq v.macs \cup xfer[e.f].macs
  <2>1. e.f \in Files =>
          /\ DOMAIN u = Fields
          /\ u.tracked = up[e.f].tracked /\ u.bound = up[e.f].bound
          /\ u.started = up[e.f].started /\ u.failed = up[e.f].failed
          /\ u.done = up[e.f].done /\ u.acked = up[e.f].acked
          /\ u.macs = up[e.f].macs \cup ({e.i} \cap Data(e.f))
    BY DEF WithMac
  <2> HIDE DEF u
  <2> QED
    BY Zenon, <2>1
<1> HIDE DEF v
<1>4. CASE overflow
  <2>1. /\ up' = [up EXCEPT ![e.f] = UploadFailed(v)]
        /\ pool' = PurgedPool({e.f}) /\ flight' = PurgedFlight({e.f})
        /\ worker' = Invalidated(worker, {e.f})
    BY <1>1, <1>4
  <2>2. e.f \in Files => /\ DOMAIN UploadFailed(v) = Fields
                         /\ UploadFailed(v).acked = {} /\ UploadFailed(v).bound = FALSE
    BY <1>3 DEF UploadFailed, MarkedFailed, ResetAttempt
  <2>3. UpShape'
    BY <1>2, <2>1, <2>2
  <2>4. PoolShape'
    BY <2>1 DEF PurgedPool, PurgedFlight, Without
  <2>5. WorkerShape(worker)'
    <3> WorkerShape(Invalidated(worker, {e.f}))
      BY InvalidatedShape
    <3> QED
      BY Zenon, <2>1 DEF WorkerShape
  <2>6. CurrentIsBound'
    BY Zenon, <2>1 DEF CurrentIsBound, Found, PurgedPool
  <2>7. RecordsFound'
    BY <2>1 DEF RecordsFound, Found, PurgedFlight, Without
  <2>8. ResendsFound'
    BY <2>1 DEF ResendsFound, Found, Queued, PurgedPool, Without
  <2>9. AckedMacKept'
    BY <1>2, <2>1, <2>2 DEF AckedMacKept, MacsOf
  <2>10. UploadsStarted'
    BY <2>1, <2>2 DEF UploadsStarted, Uploads, Found
  <2> QED
    BY <2>3, <2>4, <2>5, <2>6, <2>7, <2>8, <2>9, <2>10
<1>5. CASE ~overflow
  <2>1. /\ up' = [up EXCEPT ![e.f] = v]
        /\ pool' = [pool EXCEPT !.n = Minus(@, 1)]
        /\ flight' = [flight EXCEPT ![c] = Drop(flight[c], k)] /\ worker' = worker
    BY <1>1, <1>5 DEF TakeFromFlight
  <2>2. k \in Chunk /\ flight[c][k] > 0
    BY DEF Matched
  <2>3. /\ Drop(flight[c], k) \in [Chunk -> Nat]
        /\ \A j \in Chunk : Drop(flight[c], k)[j] > 0 => flight[c][j] > 0
    BY <2>2, BagDrop
  <2>4. UpShape'
    BY Zenon, <1>2, <1>3, <2>1
  <2>5. PoolShape'
    BY <2>1, <2>3
  <2>6. WorkerShape(worker)'
    BY <2>1 DEF WorkerShape
  <2>7. CurrentIsBound'
    BY Zenon, <1>3, <2>1 DEF CurrentIsBound, Found
  <2>8. RecordsFound'
    BY Zenon, <1>3, <2>1, <2>3 DEF RecordsFound, Found
  <2>9. ResendsFound'
    BY Zenon, <1>3, <2>1 DEF ResendsFound, Found, Queued
  <2>10. AckedMacKept'
    BY Zenon, <1>2, <1>3, <2>1 DEF AckedMacKept, MacsOf
  <2>11. UploadsStarted'
    BY Zenon, <1>3, <2>1 DEF UploadsStarted, Uploads, Found
  <2> QED
    BY <2>4, <2>5, <2>6, <2>7, <2>8, <2>9, <2>10, <2>11
<1> QED
  BY <1>4, <1>5

LEMMA RecvDupKeeps == ASSUME Inv, NEW c \in Conns, RecvDup(c) PROVE Inv'
<1> DEFINE e == Head(acks[c])
<1> USE ChunkFile DEF Inv, Shape, UpShape, PoolShape, Fields
<1>1. PICK k \in Matched(c, e) : TakeFromFlight(c, k)
  BY DEF RecvDup
<1>2. /\ up' = [up EXCEPT ![e.f] = WithMac(e.f, @, e.i)] /\ xfer' = xfer /\ worker' = worker
      /\ flight' = [flight EXCEPT ![c] = Drop(flight[c], k)]
  BY <1>1 DEF RecvDup, Receives, TakeFromFlight
<1>3. pool' = [pool EXCEPT !.n = Minus(@, 1),
                 !.resend = [j \in Chunk |-> IF Answers(j, e) THEN 0 ELSE @[j]]]
  BY DEF RecvDup
<1>4. /\ Drop(flight[c], k) \in [Chunk -> Nat]
      /\ \A j \in Chunk : Drop(flight[c], k)[j] > 0 => flight[c][j] > 0
  BY BagDrop DEF Matched
<1>5. UpShape'
  BY Zenon, <1>2 DEF WithMac
<1>6. PoolShape'
  BY <1>2, <1>3, <1>4
<1>7. WorkerShape(worker)'
  BY <1>2 DEF WorkerShape
<1>13. \A g \in Files :
         /\ up'[g].tracked = up[g].tracked /\ up'[g].bound = up[g].bound
         /\ up'[g].started = up[g].started /\ up'[g].failed = up[g].failed
         /\ up'[g].done = up[g].done /\ up'[g].acked = up[g].acked
         /\ up[g].macs \subseteq up'[g].macs
  BY ZenonT(30), <1>2 DEF WithMac
<1>14. pool'.cur = pool.cur /\ \A j \in Chunk : pool'.resend[j] > 0 => pool.resend[j] > 0
  BY <1>3
<1>8. CurrentIsBound'
  BY <1>13, <1>14 DEF CurrentIsBound, Found
<1>9. RecordsFound'
  <2> SUFFICES ASSUME NEW d \in Conns, NEW j \in Chunk, flight'[d][j] > 0
               PROVE  Found(j.f)'
    BY DEF RecordsFound
  <2>1. flight[d][j] > 0
    BY Zenon, <1>2, <1>4
  <2>2. Found(j.f) /\ j.f \in Files
    BY <2>1 DEF RecordsFound
  <2> QED
    BY <1>13, <2>2 DEF Found
<1>10. ResendsFound'
  BY <1>13, <1>14 DEF ResendsFound, Found, Queued
<1>11. AckedMacKept'
  BY Zenon, <1>2, <1>13 DEF AckedMacKept, MacsOf
<1>12. UploadsStarted'
  BY <1>13 DEF UploadsStarted, Uploads, Found
<1> QED
  BY <1>5, <1>6, <1>7, <1>8, <1>9, <1>10, <1>11, <1>12

LEMMA RecvCrcFailedKeeps == ASSUME Inv, NEW c \in Conns, RecvCrcFailed(c) PROVE Inv'
<1> DEFINE e == Head(acks[c])
<1>1. PICK k \in Matched(c, e) :
        IF k.r = MaxChunkRetries
        THEN FailFile(e.f, worker, pool.stale)
        ELSE /\ TakeFromFlight(c, k)
             /\ pool' = [pool EXCEPT !.n = Minus(@, 1),
                                     !.resend = Add(@, [k EXCEPT !.r = @ + 1])]
             /\ UNCHANGED <<up, tasks>>
  BY Zenon DEF RecvCrcFailed
<1>2. xfer' = xfer /\ Found(e.f)
  BY DEF RecvCrcFailed, Receives
<1>3. CASE k.r = MaxChunkRetries
  BY <1>1, <1>2, <1>3, FailFileKeeps DEF Inv, Shape
<1>4. CASE k.r # MaxChunkRetries
  <2> DEFINE j == [k EXCEPT !.r = @ + 1]
  <2> USE DEF Inv, Shape, UpShape, PoolShape
  <2>1. k \in Chunk /\ flight[c][k] > 0 /\ k.f = e.f
    BY DEF Matched, Answers
  <2>2. j.f = e.f
    BY <2>1 DEF Chunk
  <2> HIDE DEF j
  <2>3. /\ up' = up /\ worker' = worker
        /\ flight' = [flight EXCEPT ![c] = Drop(flight[c], k)]
        /\ pool' = [pool EXCEPT !.n = Minus(@, 1), !.resend = Add(pool.resend, j)]
    BY <1>1, <1>4 DEF TakeFromFlight, j
  <2>4. /\ Drop(flight[c], k) \in [Chunk -> Nat]
        /\ \A i \in Chunk : Drop(flight[c], k)[i] > 0 => flight[c][i] > 0
    BY <2>1, BagDrop
  <2>5. /\ Add(pool.resend, j) \in [Chunk -> Nat]
        /\ \A i \in Chunk : Add(pool.resend, j)[i] > 0 => pool.resend[i] > 0 \/ i = j
    BY BagAdd
  <2>6. SameFiles /\ WorkerShape(worker)' /\ pool'.cur = pool.cur
    BY <1>2, <2>3 DEF SameFiles, WorkerShape
  <2>7. PoolShape'
    BY <2>3, <2>4, <2>5
  <2>8. \A d \in Conns, i \in Chunk : flight'[d][i] > 0 => flight[d][i] > 0 \/ Found(i.f)
    BY <2>3, <2>4
  <2>9. \A i \in Chunk : pool'.resend[i] > 0 => pool.resend[i] > 0 \/ Found(i.f)
    BY <1>2, <2>2, <2>3, <2>5
  <2> HIDE DEF Inv, Shape, UpShape, PoolShape
  <2> QED
    BY <2>6, <2>7, <2>8, <2>9, WorkerStepKeeps
<1> QED
  BY <1>3, <1>4

LEMMA RecvCompletedKeeps == ASSUME Inv, NEW c \in Conns, RecvCompleted(c) PROVE Inv'
<1> DEFINE e == Head(acks[c])
<1> USE ChunkFile DEF Inv, Shape, UpShape, PoolShape, Fields
<1>1. /\ flight' = PurgedFlight({e.f}) /\ worker' = Invalidated(worker, {e.f})
      /\ pool' = [pool EXCEPT !.n = PurgedCount({e.f}), !.cur = IF @ = e.f THEN NoFile ELSE @]
      /\ xfer' = xfer
  BY DEF RecvCompleted, Receives
<1>2. /\ DOMAIN up' = Files
      /\ \A f \in Files : f # e.f => up'[f] = up[f]
      /\ e.f \in Files => /\ DOMAIN up'[e.f] = Fields
                          /\ up'[e.f].done /\ ~up'[e.f].bound
                          /\ up'[e.f].tracked = up[e.f].tracked
                          /\ up'[e.f].acked = up[e.f].acked
                          /\ up[e.f].macs \subseteq up'[e.f].macs
  <2> DEFINE u == [up[e.f] EXCEPT !.macs = @ \cup (FlightParts(e.f) \cap Data(e.f)),
                                  !.done = TRUE, !.confirmed = N[e.f], !.bound = FALSE]
  <2>1. up' = [up EXCEPT ![e.f] = u]
    BY DEF RecvCompleted
  <2>2. e.f \in Files => /\ DOMAIN u = Fields /\ u.done /\ ~u.bound
                         /\ u.tracked = up[e.f].tracked /\ u.acked = up[e.f].acked
                         /\ up[e.f].macs \subseteq u.macs
    OBVIOUS
  <2> HIDE DEF u
  <2> QED
    BY Zenon, <2>1, <2>2
<1>3. UpShape'
  BY Zenon, <1>1, <1>2
<1>4. PoolShape'
  BY <1>1 DEF PurgedFlight, Without
<1>5. WorkerShape(worker)'
  <2> WorkerShape(Invalidated(worker, {e.f}))
    BY InvalidatedShape
  <2> QED
    BY Zenon, <1>1 DEF WorkerShape
<1>6. CurrentIsBound'
  BY Zenon, <1>1, <1>2 DEF CurrentIsBound, Found
<1>7. RecordsFound'
  <2>1. \A d \in Conns, k \in Chunk : flight'[d][k] > 0 => k.f # e.f /\ flight[d][k] > 0
    BY <1>1 DEF PurgedFlight, Without
  <2> QED
    BY Zenon, <1>2, <2>1 DEF RecordsFound, Found
<1>8. ResendsFound'
  BY Zenon, <1>1, <1>2 DEF ResendsFound, Found, Queued
<1>9. AckedMacKept'
  BY Zenon, <1>1, <1>2 DEF AckedMacKept, MacsOf
<1>10. UploadsStarted'
  BY Zenon, <1>2 DEF UploadsStarted, Uploads, Found
<1> QED
  BY <1>3, <1>4, <1>5, <1>6, <1>7, <1>8, <1>9, <1>10

-----------------------------------------------------------------------------
\* sendChunk.  A chunk of a file of the pool is put in flight.
LEMMA PutInFlightKeeps ==
    ASSUME Inv, NEW c \in Conns, NEW k, Found(k.f), SameFiles, WorkerShape(worker)',
           flight' = [flight EXCEPT ![c] = Add(@, k)],
           NEW r \in [Chunk -> Nat], \A j \in Chunk : r[j] > 0 => pool.resend[j] > 0,
           NEW n, pool' = [pool EXCEPT !.resend = r, !.n = n]
    PROVE  Inv'
<1> USE DEF Inv, Shape, PoolShape
<1>1. /\ Add(flight[c], k) \in [Chunk -> Nat]
      /\ \A j \in Chunk : Add(flight[c], k)[j] > 0 => flight[c][j] > 0 \/ j = k
  BY BagAdd
<1>2. PoolShape' /\ pool'.cur = pool.cur
  BY <1>1
<1>3. \A d \in Conns, j \in Chunk : flight'[d][j] > 0 => flight[d][j] > 0 \/ Found(j.f)
  BY <1>1
<1>4. \A j \in Chunk : pool'.resend[j] > 0 => pool.resend[j] > 0 \/ Found(j.f)
  OBVIOUS
<1> HIDE DEF Inv, Shape, PoolShape
<1> QED
  BY <1>2, <1>3, <1>4, WorkerStepKeeps

\* A chunk is taken to be read, dropped, or queued again.
LEMMA ResendKeeps ==
    ASSUME Inv, SameFiles, WorkerShape(worker)', flight' = flight,
           NEW r \in [Chunk -> Nat],
           \A j \in Chunk : r[j] > 0 => pool.resend[j] > 0 \/ Found(j.f),
           pool' = [pool EXCEPT !.resend = r]
    PROVE  Inv'
<1> USE DEF Inv, Shape, PoolShape
<1>1. PoolShape' /\ pool'.cur = pool.cur
  OBVIOUS
<1>2. \A d \in Conns, j \in Chunk : flight'[d][j] > 0 => flight[d][j] > 0 \/ Found(j.f)
  OBVIOUS
<1>3. \A j \in Chunk : pool'.resend[j] > 0 => pool.resend[j] > 0 \/ Found(j.f)
  OBVIOUS
<1> HIDE DEF Inv, Shape, PoolShape
<1> QED
  BY <1>1, <1>2, <1>3, WorkerStepKeeps

LEMMA SendQueuedKeeps == ASSUME Inv, NEW c \in Conns, SendQueued(c) PROVE Inv'
<1>1. PICK k \in Chunk, S \in SUBSET StaleResend :
        /\ Sendable(k)
        /\ LET rest == Drop(Discard(pool.resend, S), k)
           IN  IF k.i \in Data(k.f)
               THEN /\ pool' = [pool EXCEPT !.resend = rest]
                    /\ worker' = [worker EXCEPT ![c] = Read(k)]
                    /\ UNCHANGED <<flight, wire>>
               ELSE IF up[k.f].failed = "no"
               THEN /\ pool' = [pool EXCEPT !.resend = rest, !.n = @ + 1]
                    /\ PutInFlight(c, k)
                    /\ UNCHANGED worker
               ELSE /\ pool' = [pool EXCEPT !.resend = rest]
                    /\ UNCHANGED <<flight, wire, worker>>
  BY Zenon DEF SendQueued
<1> DEFINE rest == Drop(Discard(pool.resend, S), k)
<1>2. pool.resend \in [Chunk -> Nat] /\ pool.resend[k] > 0 /\ Found(k.f) /\ k \notin S
  BY <1>1 DEF Inv, Shape, PoolShape, Sendable, Queued, StaleResend
<1>3. rest \in [Chunk -> Nat] /\ \A j \in Chunk : rest[j] > 0 => pool.resend[j] > 0
  <2>1. /\ Discard(pool.resend, S) \in [Chunk -> Nat]
        /\ \A j \in Chunk : Discard(pool.resend, S)[j] > 0 => pool.resend[j] > 0
        /\ Discard(pool.resend, S)[k] > 0
    BY <1>2, BagDiscard
  <2> QED
    BY <2>1, BagDrop
<1> HIDE DEF rest
<1>4. SameFiles
  BY DEF SendQueued, SameFiles, Inv, Shape, UpShape
<1>5. WorkerShape(worker)'
  <2>1. worker' = worker \/ worker' = [worker EXCEPT ![c] = Read(k)]
    BY <1>1
  <2> QED
    BY <2>1, ChunkFile DEF Inv, Shape, WorkerShape, Read
<1>6. CASE flight' = flight /\ pool' = [pool EXCEPT !.resend = rest]
  BY <1>3, <1>4, <1>5, <1>6, ResendKeeps
<1>7. CASE PutInFlight(c, k) /\ pool' = [pool EXCEPT !.resend = rest, !.n = @ + 1]
  BY Zenon, <1>2, <1>3, <1>4, <1>5, <1>7, PutInFlightKeeps DEF PutInFlight
<1> QED
  BY <1>1, <1>6, <1>7 DEF rest

\* Taking the head of a file changes its head and end, and nothing else of it.
LEMMA HeadTakenFields ==
    ASSUME NEW f, NEW u, DOMAIN u = Fields
    PROVE  /\ DOMAIN HeadTaken(f, u) = Fields
           /\ \A d \in Fields \ {"head", "eof"} : HeadTaken(f, u)[d] = u[d]
BY Zenon DEF HeadTaken, Fields

LEMMA SendNextKeeps == ASSUME Inv, NEW c \in Conns, SendNext(c) PROVE Inv'
<1> DEFINE f == pool.cur
           r == Discard(pool.resend, StaleResend)
           k == [f |-> f, i |-> up[f].head, r |-> 0]
<1>1. /\ f \in Files /\ Found(f) /\ DOMAIN up[f] = Fields /\ DOMAIN up = Files
      /\ pool.resend \in [Chunk -> Nat] /\ WorkerShape(worker)
      /\ DOMAIN pool = {"resend", "n", "cur", "stale"}
  BY DEF SendNext, Keeps, Inv, Shape, UpShape, PoolShape, CurrentIsBound
<1>2. r \in [Chunk -> Nat] /\ \A j \in Chunk : r[j] > 0 => pool.resend[j] > 0
  BY <1>1, BagDiscard
<1>3. /\ up' = [up EXCEPT ![f] = HeadTaken(f, up[f])] /\ xfer' = xfer
      /\ \/ /\ worker' = [worker EXCEPT ![c] = Read(k)]
            /\ pool' = [pool EXCEPT !.resend = r] /\ flight' = flight
         \/ /\ worker' = worker /\ PutInFlight(c, k)
            /\ pool' = [[pool EXCEPT !.resend = r] EXCEPT !.n = @ + 1]
         \/ worker' = worker /\ pool' = [pool EXCEPT !.resend = r] /\ flight' = flight
  BY DEF SendNext, TakeHead
<1>4. SameFiles
  BY <1>1, <1>3, HeadTakenFields DEF SameFiles, Inv, Shape, UpShape
<1>5. WorkerShape(worker)'
  BY <1>1, <1>3 DEF WorkerShape, Read
<1> HIDE DEF r
<1>6. CASE pool' = [pool EXCEPT !.resend = r] /\ flight' = flight
  BY <1>2, <1>4, <1>5, <1>6, ResendKeeps
<1>7. CASE PutInFlight(c, k) /\ pool' = [[pool EXCEPT !.resend = r] EXCEPT !.n = @ + 1]
  <2>1. k.f = f /\ flight' = [flight EXCEPT ![c] = Add(@, k)]
    BY <1>7 DEF PutInFlight
  <2>2. pool' = [pool EXCEPT !.resend = r, !.n = pool.n + 1]
    BY <1>1, <1>7
  <2> HIDE DEF k, f
  <2> QED
    BY Zenon, <1>1, <1>2, <1>4, <1>5, <2>1, <2>2, PutInFlightKeeps
<1> QED
  BY <1>3, <1>6, <1>7

\* setUploadStart and setPool, before the first chunk is taken, keep the invariant.
LEMMA StartFileKeeps == ASSUME Inv, NEW c \in Conns, NEW f \in Files, StartFile(c, f) PROVE Inv'
<1> DEFINE u == HeadTaken(f, Started(up[f]))
           r == Discard(pool.resend, StaleResend)
           k == [f |-> f, i |-> Started(up[f]).head, r |-> 0]
           w == Invalidated(worker, {f})
           p == [pool EXCEPT !.resend = r, !.cur = f, !.stale = @ /\ pool.cur = f]
<1> USE ChunkFile DEF Inv, Shape, UpShape, PoolShape
<1>1. /\ up' = [up EXCEPT ![f] = u] /\ xfer' = [xfer EXCEPT ![f].preflight = "none"]
      /\ \/ worker' = [w EXCEPT ![c] = Read(k)] /\ pool' = p /\ flight' = flight
         \/ /\ worker' = w /\ flight' = [flight EXCEPT ![c] = Add(@, k)]
            /\ pool' = [p EXCEPT !.n = @ + 1]
         \/ worker' = w /\ pool' = p /\ flight' = flight
  BY Zenon DEF StartFile, TakeHead, PutInFlight
<1>2. /\ DOMAIN u = Fields /\ u.tracked /\ u.bound /\ u.started
      /\ u.acked = up[f].acked /\ u.macs = up[f].macs
  <2>1. DOMAIN Started(up[f]) = Fields
    BY DEF Started, Fields
  <2>2. up[f].tracked
    BY DEF StartFile, Selects, Eligible
  <2>3. /\ Started(up[f]).tracked /\ Started(up[f]).bound /\ Started(up[f]).started
        /\ Started(up[f]).acked = up[f].acked /\ Started(up[f]).macs = up[f].macs
    BY <2>2 DEF Started, Fields
  <2> DEFINE v == Started(up[f])
  <2> HIDE DEF v
  <2>4. DOMAIN HeadTaken(f, v) = Fields
        /\ \A d \in Fields \ {"head", "eof"} : HeadTaken(f, v)[d] = v[d]
    BY <2>1, HeadTakenFields DEF v
  <2> QED
    BY Zenon, <2>3, <2>4 DEF v, Fields
<1>3. r \in [Chunk -> Nat] /\ \A j \in Chunk : r[j] > 0 => pool.resend[j] > 0
  BY BagDiscard
<1>4. /\ Add(flight[c], k) \in [Chunk -> Nat]
      /\ \A j \in Chunk : Add(flight[c], k)[j] > 0 => flight[c][j] > 0 \/ j = k
  BY BagAdd
<1>6. k.f = f
  OBVIOUS
<1>5. WorkerShape(worker)'
  <2>1. WorkerShape(w)
    BY InvalidatedShape
  <2> HIDE DEF w, k, u, r, p
  <2>2. worker' = w \/ worker' = [w EXCEPT ![c] = Read(k)]
    BY <1>1
  <2> QED
    BY <1>6, <2>1, <2>2 DEF WorkerShape, Read
<1> HIDE DEF u, r, k, w
<1>7. UpShape'
  BY <1>1, <1>2
<1>8. DOMAIN pool' = DOMAIN pool /\ pool'.cur = f /\ pool'.resend = r
  <2> DOMAIN p = DOMAIN pool /\ p.cur = f /\ p.resend = r
    OBVIOUS
  <2> HIDE DEF p
  <2> QED
    BY <1>1
<1> HIDE DEF p
<1>9. PoolShape'
  <2>1. flight' \in [Conns -> [Chunk -> Nat]]
    BY <1>1, <1>4
  <2> QED
    BY <1>3, <1>8, <2>1
<1>15. \A g \in Files : xfer'[g].macs = xfer[g].macs
  BY <1>1
<1>10. CurrentIsBound'
  BY <1>1, <1>2, <1>8 DEF CurrentIsBound, Found
<1>11. RecordsFound'
  BY Zenon, <1>1, <1>2, <1>4, <1>6 DEF RecordsFound, Found
<1>12. ResendsFound'
  BY <1>1, <1>2, <1>3, <1>8 DEF ResendsFound, Found, Queued
<1>13. AckedMacKept'
  <2> \A g \in Files : /\ up'[g].tracked => up[g].tracked
                       /\ up'[g].acked = up[g].acked /\ up'[g].macs = up[g].macs
    <3>1. up[f].tracked
      BY DEF StartFile, Selects, Eligible
    <3> QED
      BY <1>1, <1>2, <3>1
  <2> QED
    BY Zenon, <1>15 DEF AckedMacKept, MacsOf
<1>14. UploadsStarted'
  BY <1>1, <1>2 DEF UploadsStarted, Uploads, Found
<1> QED
  BY <1>5, <1>7, <1>9, <1>10, <1>11, <1>12, <1>13, <1>14

\* Back from the read or from the encryption.
LEMMA BackKeeps ==
    ASSUME Inv, NEW c \in Conns, ReadOk(c) \/ ReadInterrupted(c) \/ EncryptDone(c)
    PROVE  Inv'
<1> DEFINE k == worker[c].k
<1>1. SameFiles
  BY Zenon DEF ReadOk, ReadInterrupted, EncryptDone, SameFiles, Inv, Shape, UpShape
<1>2. WorkerShape(worker)'
  <2>1. \/ worker' = [worker EXCEPT ![c] = Idle]
        \/ worker' = [worker EXCEPT ![c].pc = "encrypt", ![c].gen = "same"] /\ worker[c].pc = "read"
    BY DEF ReadOk, ReadInterrupted, EncryptDone, Reading, Leave
  <2> QED
    BY <2>1 DEF Idle, WorkerShape, Inv, Shape
<1>3. /\ Add(pool.resend, k) \in [Chunk -> Nat]
      /\ \A j \in Chunk : Add(pool.resend, k)[j] > 0 => pool.resend[j] > 0 \/ j = k
  BY BagAdd DEF Inv, Shape, PoolShape
<1>4. CASE flight' = flight /\ pool' = pool
  <2>1. PoolShape'
    BY <1>4 DEF Inv, Shape, PoolShape
  <2> QED
    BY <1>1, <1>2, <1>4, <2>1, WorkerStepKeeps
<1>5. CASE flight' = flight /\ Found(k.f) /\ pool' = Requeued(c)
  BY <1>1, <1>2, <1>3, <1>5, ResendKeeps DEF Requeued
<1>6. CASE Found(k.f) /\ PutInFlight(c, k) /\ pool' = [pool EXCEPT !.n = @ + 1]
  <2>1. /\ pool.resend \in [Chunk -> Nat]
        /\ pool' = [pool EXCEPT !.resend = pool.resend, !.n = pool.n + 1]
    BY Zenon, <1>6 DEF Inv, Shape, PoolShape
  <2>2. flight' = [flight EXCEPT ![c] = Add(@, k)]
    BY <1>6 DEF PutInFlight
  <2> HIDE DEF k
  <2> QED
    BY Zenon, <1>1, <1>2, <1>6, <2>1, <2>2, PutInFlightKeeps
<1> QED
  BY Zenon, <1>4, <1>5, <1>6 DEF ReadOk, ReadInterrupted, EncryptDone

LEMMA ReadErrorKeeps == ASSUME Inv, NEW c \in Conns, ReadError(c) PROVE Inv'
<1> DEFINE w == [worker EXCEPT ![c] = Idle]
<1>1. xfer' = xfer /\ WorkerShape(w)
  BY DEF ReadError, Inv, Shape, WorkerShape, Idle
<1>2. \/ FailFile(worker[c].k.f, w, pool.stale)
      \/ worker' = w /\ UNCHANGED <<up, pool, flight>>
  BY DEF ReadError, Leave
<1> HIDE DEF w
<1>3. CASE FailFile(worker[c].k.f, w, pool.stale)
  BY <1>1, <1>3, FailFileKeeps
<1>4. CASE worker' = w /\ UNCHANGED <<up, pool, flight>>
  <2>1. SameFiles /\ PoolShape'
    BY <1>1, <1>4 DEF SameFiles, Inv, Shape, UpShape, PoolShape
  <2>2. WorkerShape(worker)'
    BY <1>1, <1>4 DEF WorkerShape
  <2> QED
    BY <1>4, <2>1, <2>2, WorkerStepKeeps
<1> QED
  BY <1>2, <1>3, <1>4

\* remove() of what is not a file of the pool.
LEMMA RemoveOtherKeeps ==
    ASSUME Inv, NEW f, NEW u, NEW x, f \notin Files, Remove(f),
           up' = [up EXCEPT ![f] = u], xfer' = [xfer EXCEPT ![f] = x]
    PROVE  Inv'
<1> USE ChunkFile DEF Inv, Shape, UpShape, PoolShape, Fields, Remove
<1>1. /\ DOMAIN up' = Files /\ DOMAIN xfer' = Files
      /\ \A g \in Files : up'[g] = up[g] /\ xfer'[g] = xfer[g]
  OBVIOUS
<1>2. UpShape'
  BY <1>1
<1>3. PoolShape'
  BY DEF PurgedPool, PurgedFlight, Without
<1>4. WorkerShape(worker)'
  BY OrphanedShape DEF WorkerShape
<1>5. CurrentIsBound'
  BY <1>1 DEF CurrentIsBound, Found, PurgedPool
<1>6. RecordsFound'
  BY <1>1 DEF RecordsFound, Found, PurgedFlight, Without
<1>7. ResendsFound'
  BY <1>1 DEF ResendsFound, Found, Queued, PurgedPool, Without
<1>8. AckedMacKept'
  BY <1>1 DEF AckedMacKept, MacsOf
<1>9. UploadsStarted'
  BY <1>1 DEF UploadsStarted, Uploads, Found
<1> QED
  BY Zenon, <1>2, <1>3, <1>4, <1>5, <1>6, <1>7, <1>8, <1>9

\* The objects enqueue() builds are unbound and have nothing acked.
LEMMA NewFileFields ==
    ASSUME NEW f, NEW x
    PROVE  /\ DOMAIN NewFile(f, x) = Fields /\ NewFile(f, x).bound = FALSE
           /\ NewFile(f, x).acked = {}
           /\ DOMAIN Untracked(f) = Fields /\ Untracked(f).bound = FALSE
           /\ Untracked(f).acked = {}
<1>1. \A y : /\ DOMAIN NewFile(f, y) = Fields /\ NewFile(f, y).bound = FALSE
             /\ NewFile(f, y).acked = {}
  BY DEF NewFile, Fields
<1> QED
  BY <1>1 DEF Untracked, Fields

LEMMA AskPreflightKeeps ==
    ASSUME Inv, NEW c \in Conns, NEW f \in Files, AskPreflight(c, f) PROVE Inv'
<1> DEFINE r == Discard(pool.resend, StaleResend)
<1> USE ChunkFile DEF Inv, Shape, UpShape, PoolShape
<1>1. r \in [Chunk -> Nat] /\ \A j \in Chunk : r[j] > 0 => pool.resend[j] > 0
  BY BagDiscard
<1>2. /\ up' = up /\ flight' = flight /\ worker' = worker
      /\ pool' = [pool EXCEPT !.resend = r]
      /\ DOMAIN xfer' = Files
      /\ \A g \in Files : DOMAIN xfer'[g] = DOMAIN xfer[g] /\ xfer'[g].macs = xfer[g].macs
  BY DEF AskPreflight
<1> HIDE DEF r
<1>3. UpShape' /\ PoolShape' /\ WorkerShape(worker)'
  BY <1>1, <1>2 DEF WorkerShape
<1>4. CurrentIsBound' /\ RecordsFound' /\ UploadsStarted'
  BY <1>2 DEF CurrentIsBound, RecordsFound, UploadsStarted, Uploads, Found
<1>5. ResendsFound' /\ AckedMacKept'
  BY <1>1, <1>2 DEF ResendsFound, Found, Queued, AckedMacKept, MacsOf
<1> QED
  BY <1>3, <1>4, <1>5

\* setPaused changes nothing the invariant looks at.
LEMMA PauseKeeps ==
    ASSUME Inv, NEW f \in Files, NEW p, SetPaused(f, p) PROVE Inv'
<1> USE ChunkFile DEF Inv, Shape, UpShape, PoolShape
<1>1. /\ flight' = flight /\ worker' = Invalidated(worker, {f}) /\ pool' = pool
      /\ DOMAIN xfer' = Files /\ DOMAIN up' = Files
      /\ \A g \in Files : /\ DOMAIN xfer'[g] = DOMAIN xfer[g] /\ xfer'[g].macs = xfer[g].macs
                          /\ DOMAIN up'[g] = Fields
                          /\ \A d \in Fields \ {"paused"} : up'[g][d] = up[g][d]
  BY DEF SetPaused
<1>2. UpShape' /\ PoolShape'
  BY Zenon, <1>1
<1>3. WorkerShape(worker)'
  <2> WorkerShape(Invalidated(worker, {f}))
    BY InvalidatedShape
  <2> QED
    BY Zenon, <1>1 DEF WorkerShape
<1>4. \A g \in Files : /\ up'[g].tracked = up[g].tracked /\ up'[g].bound = up[g].bound
                       /\ up'[g].started = up[g].started /\ up'[g].failed = up[g].failed
                       /\ up'[g].done = up[g].done /\ up'[g].acked = up[g].acked
                       /\ up'[g].macs = up[g].macs
  BY <1>1 DEF Fields
<1>5. CurrentIsBound' /\ RecordsFound' /\ UploadsStarted'
  BY Zenon, <1>1, <1>4 DEF CurrentIsBound, RecordsFound, UploadsStarted, Uploads, Found
<1>6. ResendsFound' /\ AckedMacKept'
  BY Zenon, <1>1, <1>4 DEF ResendsFound, Found, Queued, AckedMacKept, MacsOf
<1> QED
  BY <1>2, <1>3, <1>5, <1>6

\* Cancel, onFail and onComplete remove the object.
LEMMA CancelKeeps == ASSUME Inv, NEW f \in Files, Cancel(f) PROVE Inv'
<1> DEFINE x == [xfer[f] EXCEPT !.state = "gone"]
<1>1. Remove(f) /\ up' = [up EXCEPT ![f] = Untracked(f)] /\ xfer' = [xfer EXCEPT ![f] = x]
  BY DEF Cancel
<1>2. DOMAIN x = {"state", "paused", "macs", "progress", "preflight"}
  BY DEF Inv, Shape, UpShape
<1> HIDE DEF x
<1> QED
  BY Zenon, <1>1, <1>2, NewFileFields, RemoveKeeps

\* A task names one of the files; for any other the step changes nothing here.
LEMMA OnFailKeeps == ASSUME Inv, OnFail PROVE Inv'
<1> DEFINE f == Head(tasks).f
           x == TransferFailed(xfer[f])
           y == [x EXCEPT !.state = "gone"]
<1>1. /\ Remove(f)
      /\ \/ xfer' = [xfer EXCEPT ![f] = x] /\ up' = [up EXCEPT ![f] = NewFile(f, x)]
         \/ xfer' = [xfer EXCEPT ![f] = y] /\ up' = [up EXCEPT ![f] = Untracked(f)]
  BY DEF OnFail
<1>2. CASE f \in Files
  <2>1. /\ DOMAIN x = {"state", "paused", "macs", "progress", "preflight"}
        /\ DOMAIN y = {"state", "paused", "macs", "progress", "preflight"}
    BY <1>2 DEF Inv, Shape, UpShape, TransferFailed
  <2> HIDE DEF x, y, f
  <2>2. CASE xfer' = [xfer EXCEPT ![f] = x] /\ up' = [up EXCEPT ![f] = NewFile(f, x)]
    BY Zenon, <1>1, <2>1, <2>2, NewFileFields, RemoveKeeps
  <2>3. CASE xfer' = [xfer EXCEPT ![f] = y] /\ up' = [up EXCEPT ![f] = Untracked(f)]
    BY Zenon, <1>1, <2>1, <2>3, NewFileFields, RemoveKeeps
  <2> QED
    BY <1>1, <2>2, <2>3
<1>3. CASE f \notin Files
  BY <1>1, <1>3, RemoveOtherKeeps
<1> QED
  BY <1>2, <1>3

LEMMA OnCompleteKeeps == ASSUME Inv, OnComplete PROVE Inv'
<1> DEFINE f == Head(tasks).f
           x == [Merged(xfer[f], up[f]) EXCEPT !.state = "complete"]
<1>1. Remove(f) /\ up' = [up EXCEPT ![f] = Untracked(f)] /\ xfer' = [xfer EXCEPT ![f] = x]
  BY DEF OnComplete
<1>2. CASE f \in Files
  <2>1. DOMAIN x = {"state", "paused", "macs", "progress", "preflight"}
    BY <1>2 DEF Inv, Shape, UpShape, Merged
  <2> HIDE DEF x, f
  <2> QED
    BY Zenon, <1>1, <2>1, NewFileFields, RemoveKeeps
<1>3. CASE f \notin Files
  BY Zenon, <1>1, <1>3, RemoveOtherKeeps
<1> QED
  BY <1>2, <1>3

\* The other tasks and commands of the client thread.
LEMMA TaskKeeps == ASSUME Inv, StaleTask \/ OnPreflight PROVE Inv'
<1>1. UNCHANGED <<up, pool, flight, worker>> /\ DOMAIN xfer' = Files
  BY DEF StaleTask, OnPreflight, Inv, Shape, UpShape
<1>2. \A f \in Files : DOMAIN xfer'[f] = DOMAIN xfer[f] /\ xfer'[f].macs = xfer[f].macs
  BY DEF StaleTask, OnPreflight, Inv, Shape, UpShape
<1> QED
  BY <1>1, <1>2, OutsideKeeps

LEMMA OnProgressKeeps == ASSUME Inv, OnProgress PROVE Inv'
<1> DEFINE t == Head(tasks)
<1> USE ChunkFile DEF Inv, Shape, UpShape, PoolShape, Fields
<1>1. /\ pool' = pool /\ flight' = flight /\ worker' = worker
      /\ up' = [up EXCEPT ![t.f].macs = {}]
      /\ xfer' = [xfer EXCEPT ![t.f] = [Merged(xfer[t.f], up[t.f]) EXCEPT !.progress = t.v]]
  BY DEF OnProgress
<1>2. UpShape' /\ PoolShape' /\ WorkerShape(worker)'
  BY <1>1 DEF WorkerShape, Merged
<1>3. \A g \in Files : /\ up'[g].tracked = up[g].tracked /\ up'[g].bound = up[g].bound
                       /\ up'[g].started = up[g].started /\ up'[g].failed = up[g].failed
                       /\ up'[g].done = up[g].done /\ up'[g].acked = up[g].acked
  BY <1>1
<1>4. \A g \in Files : up'[g].macs \cup xfer'[g].macs = up[g].macs \cup xfer[g].macs
  BY <1>1 DEF Merged
<1>5. pool' = pool /\ flight' = flight
  BY <1>1
<1>6. CurrentIsBound'
  BY Zenon, <1>3, <1>5 DEF CurrentIsBound, Found
<1>7. RecordsFound'
  BY <1>3, <1>5 DEF RecordsFound, Found
<1>8. UploadsStarted'
  BY <1>3 DEF UploadsStarted, Uploads, Found
<1>9. ResendsFound'
  BY Zenon, <1>3, <1>5 DEF ResendsFound, Found, Queued
<1>10. AckedMacKept'
  BY Zenon, <1>3, <1>4 DEF AckedMacKept, MacsOf
<1> QED
  BY <1>2, <1>6, <1>7, <1>8, <1>9, <1>10

\* markFailed leaves the file in its pool, with nothing acked.
LEMMA MarkedFailedFields ==
    ASSUME NEW u, DOMAIN u = Fields, NEW retry
    PROVE  /\ DOMAIN MarkedFailed(u, retry) = Fields
           /\ MarkedFailed(u, retry).tracked = u.tracked
           /\ MarkedFailed(u, retry).bound = u.bound
           /\ MarkedFailed(u, retry).failed = retry /\ MarkedFailed(u, retry).acked = {}
BY DEF MarkedFailed, ResetAttempt, Fields

LEMMA OverquotaKeeps == ASSUME Inv, Overquota PROVE Inv'
<1> DEFINE F == {f \in Files : up[f].tracked}
<1> USE ChunkFile DEF Inv, Shape, UpShape, PoolShape, Fields
<1>1. /\ pool' = pool /\ flight' = flight /\ xfer' = xfer
      /\ worker' = Invalidated(worker, F) /\ DOMAIN up' = Files
      /\ \A f \in Files \ F : up'[f] = up[f]
      /\ \A f \in F : up'[f] = MarkedFailed(up[f], "never")
  BY Zenon DEF Overquota
<1>2. \A f \in F : /\ DOMAIN up'[f] = Fields /\ up'[f].tracked = up[f].tracked
                   /\ up'[f].bound = up[f].bound /\ up'[f].failed = "never"
                   /\ up'[f].acked = {}
  <2> SUFFICES ASSUME NEW f \in F
               PROVE  /\ DOMAIN up'[f] = Fields /\ up'[f].tracked = up[f].tracked
                      /\ up'[f].bound = up[f].bound /\ up'[f].failed = "never"
                      /\ up'[f].acked = {}
    OBVIOUS
  <2>1. DOMAIN up[f] = Fields /\ up'[f] = MarkedFailed(up[f], "never")
    BY Zenon, <1>1
  <2> QED
    <3> HIDE DEF Inv, Shape, UpShape, PoolShape, Fields
    <3> QED
      BY <2>1, MarkedFailedFields
<1>3. UpShape' /\ PoolShape'
  BY Zenon, <1>1, <1>2
<1>4. WorkerShape(worker)'
  <2> WorkerShape(Invalidated(worker, F))
    BY InvalidatedShape
  <2> QED
    BY Zenon, <1>1 DEF WorkerShape
<1>5. \A f \in Files : Found(f)' = Found(f)
  BY Zenon, <1>1, <1>2 DEF Found
<1>6. CurrentIsBound' /\ RecordsFound'
  BY Zenon, <1>1, <1>5 DEF CurrentIsBound, RecordsFound
<1>7. ResendsFound'
  BY ZenonT(30), <1>1, <1>2, <1>5 DEF ResendsFound, Queued
<1>8. AckedMacKept'
  BY Zenon, <1>1, <1>2 DEF AckedMacKept, MacsOf
<1>9. UploadsStarted'
  BY Zenon, <1>1, <1>2, <1>5 DEF UploadsStarted, Uploads
<1> QED
  BY <1>3, <1>4, <1>6, <1>7, <1>8, <1>9

LEMMA StorageGreenKeeps == ASSUME Inv, StorageGreen PROVE Inv'
<1> USE ChunkFile DEF Inv, Shape, UpShape, PoolShape, Fields
<1>1. /\ pool' = pool /\ flight' = flight /\ xfer' = xfer /\ worker' = worker
      /\ DOMAIN up' = Files
      /\ \A f \in Files :
           /\ DOMAIN up'[f] = Fields
           /\ up'[f].tracked = up[f].tracked /\ up'[f].bound = up[f].bound
           /\ up'[f].started = up[f].started /\ up'[f].done = up[f].done
           /\ up'[f].acked = up[f].acked /\ up'[f].macs = up[f].macs
           /\ up'[f].failed = "no" <=> up[f].failed = "no"
  BY DEF StorageGreen
<1>2. UpShape' /\ PoolShape' /\ WorkerShape(worker)'
  BY Zenon, <1>1 DEF WorkerShape
<1>3. CurrentIsBound' /\ RecordsFound' /\ UploadsStarted'
  BY Zenon, <1>1 DEF CurrentIsBound, RecordsFound, UploadsStarted, Uploads, Found
<1>4. ResendsFound'
  <2> SUFFICES ASSUME NEW k \in Chunk, Queued(k)'
               PROVE  (Found(k.f) \/ up[k.f].done \/ up[k.f].failed # "no")'
    BY Zenon DEF ResendsFound
  <2>1. k.f \in Files
    BY Zenon, ChunkFile
  <2>2. Found(k.f) \/ up[k.f].done \/ up[k.f].failed # "no"
    BY Zenon, <1>1 DEF ResendsFound, Queued
  <2> QED
    BY Zenon, <1>1, <2>1, <2>2 DEF Found
<1>5. AckedMacKept'
  BY Zenon, <1>1 DEF AckedMacKept, MacsOf
<1> QED
  BY <1>2, <1>3, <1>4, <1>5

LEMMA RestartKeeps == ASSUME Inv, Restart PROVE Inv'
<1> USE ChunkFile DEF Inv, Shape, UpShape, PoolShape
<1>1. /\ pool' = [resend |-> NoChunks, n |-> 0, cur |-> NoFile, stale |-> TRUE]
      /\ flight' = [c \in Conns |-> NoChunks] /\ worker' = [c \in Conns |-> Idle]
      /\ NoChunks \in [Chunk -> Nat] /\ \A k \in Chunk : NoChunks[k] = 0
  BY DEF Restart, NoChunks
<1>2. /\ DOMAIN up' = Files /\ DOMAIN xfer' = Files
      /\ \A f \in Files :
           /\ DOMAIN xfer'[f] = DOMAIN xfer[f] /\ xfer'[f].macs = xfer[f].macs
           /\ \/ up'[f] = up[f]
              \/ DOMAIN up'[f] = Fields /\ ~up'[f].bound /\ up'[f].acked = {}
  BY Zenon, NewFileFields DEF Restart
<1>3. UpShape'
  BY Zenon, <1>2
<1>4. PoolShape' /\ WorkerShape(worker)'
  BY Zenon, <1>1 DEF WorkerShape, Idle
<1>5. CurrentIsBound' /\ RecordsFound' /\ ResendsFound'
  <2>1. CurrentIsBound'
    BY <1>1 DEF CurrentIsBound
  <2>2. RecordsFound'
    BY <1>1 DEF RecordsFound
  <2>3. ResendsFound'
    BY <1>1 DEF ResendsFound, Queued
  <2> QED
    BY <2>1, <2>2, <2>3
<1>6. AckedMacKept'
  BY Zenon, <1>2 DEF AckedMacKept, MacsOf
<1>7. UploadsStarted'
  BY Zenon, <1>2 DEF UploadsStarted, Uploads, Found
<1> QED
  BY Zenon, <1>3, <1>4, <1>5, <1>6, <1>7

\* The watchdogs fail a file, or queue the gaps of a file of the pool.
LEMMA WatchKeeps == ASSUME Inv, NEW f \in Files, Watch(f) PROVE Inv'
<1>1. WorkerShape(worker) /\ xfer' = xfer
  BY Zenon DEF Inv, Shape, Watch, WatchCompletion, WatchShortfall, ManagerStep
<1>2. CASE \E stale : FailFile(f, worker, stale)
  BY <1>1, <1>2, FailFileKeeps
<1>3. CASE /\ Found(f) /\ UNCHANGED <<up, flight, worker>>
           /\ pool' = [pool EXCEPT !.resend = [k \in Chunk |->
                         @[k] + IF k.f = f /\ k.i \in Gaps(up[f]) /\ k.r = 0
                                THEN 1 ELSE 0]]
  <2> DEFINE r == [k \in Chunk |-> pool.resend[k] +
                     IF k.f = f /\ k.i \in Gaps(up[f]) /\ k.r = 0 THEN 1 ELSE 0]
  <2>1. SameFiles /\ WorkerShape(worker)'
    BY <1>1, <1>3 DEF SameFiles, WorkerShape, Inv, Shape, UpShape
  <2>2. pool' = [pool EXCEPT !.resend = r]
    BY <1>3
  <2>3. r \in [Chunk -> Nat] /\ \A j \in Chunk : r[j] > 0 => pool.resend[j] > 0 \/ Found(j.f)
    <3>1. pool.resend \in [Chunk -> Nat]
      BY DEF Inv, Shape, PoolShape
    <3>2. \A k \in Chunk : r[k] = pool.resend[k] \/ (k.f = f /\ r[k] = pool.resend[k] + 1)
      BY <3>1
    <3>3. r \in [Chunk -> Nat]
      BY <3>1
    <3> HIDE DEF r
    <3> QED
      BY <1>3, <3>1, <3>2, <3>3
  <2> HIDE DEF r
  <2> QED
    BY <1>3, <2>1, <2>2, <2>3, ResendKeeps
<1> QED
  BY Zenon, <1>2, <1>3 DEF Watch, WatchCompletion, WatchShortfall, Shortfall, Found

-----------------------------------------------------------------------------
LEMMA InitInv == Init => Inv
<1> SUFFICES ASSUME Init PROVE Inv
  OBVIOUS
<1> USE DEF Shape, UpShape, PoolShape
<1>1. PICK F \in SUBSET Files :
        /\ up = [f \in Files |-> IF f \in F THEN NewFile(f, NewXfer) ELSE Untracked(f)]
        /\ xfer = [f \in Files |-> IF f \in F THEN NewXfer ELSE [NewXfer EXCEPT !.state = "gone"]]
  BY Zenon DEF Init
<1>2. \A f \in Files : DOMAIN up[f] = Fields /\ ~up[f].bound /\ up[f].acked = {}
  BY Zenon, <1>1, NewFileFields
<1>3. UpShape
  BY <1>1, <1>2 DEF NewXfer
<1>4. /\ pool = [resend |-> NoChunks, n |-> 0, cur |-> NoFile, stale |-> TRUE]
      /\ flight = [c \in Conns |-> NoChunks] /\ worker = [c \in Conns |-> Idle]
      /\ NoChunks \in [Chunk -> Nat] /\ \A k \in Chunk : NoChunks[k] = 0
  BY DEF Init, NoChunks
<1>5. PoolShape /\ WorkerShape(worker)
  BY <1>4 DEF WorkerShape, Idle
<1>6. CurrentIsBound /\ RecordsFound /\ ResendsFound
  <2>1. CurrentIsBound
    BY <1>4 DEF CurrentIsBound
  <2>2. RecordsFound
    BY <1>4 DEF RecordsFound
  <2>3. ResendsFound
    BY <1>4 DEF ResendsFound, Queued
  <2> QED
    BY <2>1, <2>2, <2>3
<1>7. AckedMacKept /\ UploadsStarted
  BY <1>2 DEF AckedMacKept, UploadsStarted, Uploads, Found
<1> QED
  BY <1>3, <1>5, <1>6, <1>7 DEF Inv

LEMMA NextInv == Inv /\ [Next]_vars => Inv'
<1> SUFFICES ASSUME Inv, [Next]_vars PROVE Inv'
  OBVIOUS
<1>1. CASE UNCHANGED vars
  BY Zenon, <1>1, OutsideKeeps DEF vars, Inv, Shape, UpShape
<1>2. ASSUME NEW c \in Conns, Continue(c) \/ ReadError(c) PROVE Inv'
  BY <1>2, ServerKeeps, BackKeeps, ReadErrorKeeps DEF Continue
<1>3. ASSUME NEW c \in Conns,
             CloseConn(c) \/ InvalidateSession(c) \/ ServerIngests(c) \/ ServerRejects(c)
      PROVE  Inv'
  BY <1>3, CloseConnKeeps, InvalidateSessionKeeps, ServerKeeps
<1>4. ASSUME NEW c \in Conns, Receive(c) PROVE Inv'
  BY <1>4, ServerKeeps, RecvErrorKeeps, RecvIngestedKeeps, RecvDupKeeps, RecvCrcFailedKeeps,
     RecvCompletedKeeps DEF Receive
<1>5. ASSUME NEW c \in Conns, Send(c) \/ \E f \in Files : AskPreflight(c, f) PROVE Inv'
  BY <1>5, SendQueuedKeeps, SendNextKeeps, StartFileKeeps, AskPreflightKeeps DEF Send
<1>6. ASSUME NEW f \in Files, Pause(f) \/ Unpause(f) \/ Cancel(f) \/ Watch(f) PROVE Inv'
  BY Zenon, <1>6, PauseKeeps, CancelKeeps, WatchKeeps DEF Pause, Unpause
<1>7. ASSUME ClientTask \/ Overquota \/ StorageGreen \/ Restart PROVE Inv'
  BY <1>7, TaskKeeps, OnProgressKeeps, OnFailKeeps, OnCompleteKeeps, OverquotaKeeps,
     StorageGreenKeeps, RestartKeeps DEF ClientTask
<1> QED
  BY <1>1, <1>2, <1>3, <1>4, <1>5, <1>6, <1>7 DEF Next

-----------------------------------------------------------------------------
\* No other step takes a chunk from its read to its encryption.
LEMMA OnlyReadOkSends ==
    ASSUME Inv, [Next]_vars, NEW c \in Conns, worker[c].pc = "read", worker'[c].pc = "encrypt"
    PROVE  ReadOk(c)
<1>1. DOMAIN worker = Conns
  BY DEF Inv, Shape, WorkerShape
<1>2. \A F : Invalidated(worker, F)[c].pc = "read"
  BY <1>1 DEF Invalidated, Inv, Shape, WorkerShape
<1>3. \A f : Orphaned(worker, f)[c].pc = "read"
  BY <1>1 DEF Orphaned, Inv, Shape, WorkerShape
<1>4. ~ UNCHANGED worker
  OBVIOUS
<1>5. \A d \in Conns : ReadOk(d) \/ ReadInterrupted(d) \/ EncryptDone(d) => d = c
  BY Zenon, <1>1 DEF ReadOk, ReadInterrupted, EncryptDone, Leave
<1>6. ~ReadInterrupted(c) /\ ~EncryptDone(c)
  BY <1>1 DEF ReadInterrupted, EncryptDone, Leave, Idle
<1>7. ASSUME NEW f, NEW w, NEW stale, FailFile(f, w, stale), DOMAIN w = Conns,
             w[c].pc # "read" => w[c].pc = "idle", w[c].pc = "read" => w[c] = worker[c]
      PROVE  FALSE
  BY <1>1, <1>7 DEF FailFile, Invalidated, Inv, Shape, WorkerShape
<1>8. ASSUME NEW d \in Conns, Receive(d) PROVE FALSE
  <2>1. CASE \E f : FailFile(f, worker, pool.stale)
    BY <1>1, <1>7, <2>1
  <2>2. CASE UNCHANGED worker \/ \E F : worker' = Invalidated(worker, F)
    BY <1>2, <2>2
  <2> QED
    BY Zenon, <1>8, <2>1, <2>2 DEF Receive, RecvOrphan, RecvError, RecvIngested, RecvDup, RecvCrcFailed,
       RecvCompleted, TakeFromFlight
<1>9. ASSUME NEW d \in Conns, NEW w, NEW k, DOMAIN w = Conns, w[c].pc = "read",
             worker' = w \/ worker' = [w EXCEPT ![d] = Read(k)]
      PROVE  FALSE
  BY <1>9 DEF Read
<1>10. ASSUME NEW d \in Conns, Send(d) PROVE FALSE
  <2>1. ASSUME SendQueued(d) PROVE FALSE
    BY <1>1, <1>9, <2>1 DEF SendQueued
  <2>2. ASSUME SendNext(d) PROVE FALSE
    BY <1>1, <1>9, <2>2 DEF SendNext, TakeHead
  <2>3. ASSUME NEW f \in Files, StartFile(d, f) PROVE FALSE
    <3>1. DOMAIN Invalidated(worker, {f}) = Conns
      BY DEF Invalidated
    <3>2. \E k : \/ worker' = Invalidated(worker, {f})
                 \/ worker' = [Invalidated(worker, {f}) EXCEPT ![d] = Read(k)]
      BY Zenon, <2>3 DEF StartFile, TakeHead
    <3> QED
      BY Zenon, <1>2, <1>9, <3>1, <3>2
  <2> QED
    BY Zenon, <1>10, <2>1, <2>2, <2>3 DEF Send
<1>11. ASSUME NEW d \in Conns, ReadError(d) PROVE FALSE
  <2> DEFINE w == [worker EXCEPT ![d] = Idle]
  <2>1. /\ DOMAIN w = Conns
        /\ w[c].pc # "read" => w[c].pc = "idle"
        /\ w[c].pc = "read" => w[c] = worker[c]
    BY <1>1 DEF Idle
  <2>2. (\E f : FailFile(f, w, pool.stale)) \/ worker' = w
    BY <1>11 DEF ReadError, Leave
  <2> HIDE DEF w
  <2> QED
    BY <1>7, <2>1, <2>2
<1>12. ASSUME NEW d \in Conns,
              OpenConn(d) \/ CloseConn(d) \/ ServerIngests(d) \/ ServerRejects(d)
              \/ \E f \in Files : AskPreflight(d, f)
       PROVE  FALSE
  BY Zenon, <1>4, <1>12 DEF OpenConn, CloseConn, ServerIngests, ServerRejects, Replies, AskPreflight
<1>13. ASSUME NEW d \in Conns, InvalidateSession(d) PROVE FALSE
  BY Zenon, <1>2, <1>13 DEF InvalidateSession
<1>14. ASSUME NEW f \in Files, Pause(f) \/ Unpause(f) \/ Cancel(f) PROVE FALSE
  BY Zenon, <1>2, <1>3, <1>14 DEF Pause, Unpause, SetPaused, Cancel, Remove
<1>15. ASSUME NEW f \in Files, Watch(f) PROVE FALSE
  <2>1. UNCHANGED worker \/ \E stale : FailFile(f, worker, stale)
    BY Zenon, <1>15 DEF Watch, WatchCompletion, WatchShortfall
  <2> QED
    BY Zenon, <1>1, <1>4, <1>7, <2>1
<1>16. ASSUME ClientTask \/ Overquota \/ StorageGreen PROVE FALSE
  BY Zenon, <1>2, <1>3, <1>4, <1>16 DEF ClientTask, StaleTask, OnPreflight, OnProgress, OnFail, OnComplete,
     Remove, Overquota, StorageGreen
<1>17. ~Restart
  BY DEF Restart, Idle
<1> QED
  BY Zenon, <1>4, <1>5, <1>6, <1>8, <1>10, <1>11, <1>12, <1>13, <1>14, <1>15, <1>16, <1>17
     DEF Next, Continue, vars

-----------------------------------------------------------------------------
\* Of a pool with any files, connections and faults: the invariant holds.
THEOREM Invariance == Spec => []Inv
BY InitInv, NextInv, PTL DEF Spec

\* mUploadingFile never dangles: whatever fails, completes, removes, restarts or
\* cancels a file also clears it, for any number of files and connections.
THEOREM CurrentFileIsBound == Spec => []CurrentIsBound
<1>1. Inv => CurrentIsBound
  BY DEF Inv
<1> QED
  BY <1>1, Invariance, PTL

\* mChunksInFlight and mToResend hold no chunk of a file that left the pool.
THEOREM RecordsBelongToFiles == Spec => []NoRecordOutlivesItsFile
<1>1. Inv => NoRecordOutlivesItsFile
  BY Zenon DEF Inv, RecordsFound, ResendsFound, NoRecordOutlivesItsFile
<1> QED
  BY <1>1, Invariance, PTL

\* What retryChunksOnTheWireLocked skips as acked has its MAC, in the object or in
\* the transfer, through every drain, failure, removal and restart.
THEOREM AckedMacsAreKept == Spec => []AckedMacKept
<1>1. Inv => AckedMacKept
  BY DEF Inv
<1> QED
  BY <1>1, Invariance, PTL

\* The assertion sendChunk makes after readData holds in every interleaving.
THEOREM SendsOnlyWhileUploading == Spec => SendsWhileUploading
<1>1. ASSUME Inv, [Next]_vars PROVE
      [\A c \in Conns : worker[c].pc = "read" /\ worker'[c].pc = "encrypt" =>
         IsUploading(up[worker[c].k.f])]_vars
  <2> SUFFICES ASSUME NEW c \in Conns, worker[c].pc = "read", worker'[c].pc = "encrypt"
               PROVE  IsUploading(up[worker[c].k.f])
    OBVIOUS
  <2>1. ReadOk(c)
    BY Zenon, <1>1, OnlyReadOkSends
  <2>2. DOMAIN worker = Conns /\ worker[c].k.f \in Files
    BY <1>1 DEF Inv, Shape, WorkerShape
  <2>3. LET f == worker[c].k.f IN Found(f) /\ ~up[f].paused /\ up[f].failed = "no"
    BY <2>1, <2>2 DEF ReadOk, Leave, Idle
  <2> QED
    BY Zenon, <1>1, <2>2, <2>3 DEF Inv, UploadsStarted, Uploads, IsUploading
<1> QED
  BY <1>1, Invariance, PTL DEF Spec, SendsWhileUploading
=============================================================================
