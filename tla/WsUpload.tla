------------------------------- MODULE WsUpload -------------------------------
(***************************************************************************)
(* The WebSocket upload engine (src/src/transfer/ws): one pool of          *)
(* connections, each driven by a worker thread, sends the chunks of the    *)
(* files bound to the pool; the server's events come back on the           *)
(* connection that carried the chunk; the manager thread runs the          *)
(* watchdogs; the client thread owns the transfers and is told by posted   *)
(* tasks.  Every step below is one critical section of uploadMutex, or one *)
(* client-thread task.                                                     *)
(*                                                                         *)
(* File f is cut in N[f] chunks, from 0.  If the last one is shorter than  *)
(* the lattice asks (f \in ShortTail) it announces the end of the file;    *)
(* otherwise an empty chunk, number N[f], follows.  Data, keys and offsets *)
(* are abstracted to chunk numbers, the MAC of a chunk to its number.  The *)
(* pool is the one pinned to the session URL the transfers carry, so every *)
(* attempt and every resumption of a file runs in it.                      *)
(***************************************************************************)
EXTENDS Integers, FiniteSets, Sequences, Functions

CONSTANTS
    Files,          \* the uploads of the pool (fileno, one Transfer each)
    Conns,          \* mConns: the connections of the pool, one worker each
    N,              \* [Files -> Nat]: chunks in a file
    ShortTail,      \* files whose last chunk ends the file by being short
    MaxUploads,     \* bound: uploads at the start
    MaxChunkRetries,\* kMaxChunkRetries
    ReCompletes,    \* the server repeats the completion on a duplicate chunk
    MayFill,        \* bound: the account may run out of space
    NoFile,         \* mUploadingFile == nullptr
    MaxFaults       \* bound: losses, restarts, errors, cancels and holds, together

ASSUME WsAssumption ==
    /\ N \in [Files -> Nat \ {0}]
    /\ MaxChunkRetries \in Nat
    /\ ShortTail \subseteq Files
    /\ ReCompletes \in BOOLEAN /\ MayFill \in BOOLEAN
    /\ NoFile \notin Files

Data(f) == 0 .. N[f] - 1
Parts(f) == IF f \in ShortTail THEN Data(f) ELSE 0 .. N[f]
Chunk == UNION {[f : {f}, i : 0 .. N[f], r : 0 .. MaxChunkRetries] : f \in Files}

VARIABLES
    up,       \* [Files -> UploadFile]: the WsUploadFile objects
    xfer,     \* [Files -> Xfer]: the client's Transfer objects, as cached
    pool,     \* mToResend, mNumChunksInFlight, mUploadingFile, mUFTQversion
    flight,   \* [Conns -> [Chunk -> Nat]]: mChunksInFlight of each connection
    conn,     \* [Conns -> {"CLOSED", "OPEN"}]: readyState
    wire,     \* [Conns -> Seq]: chunks sent, not yet read by the server
    acks,     \* [Conns -> Seq]: server events, not yet read by the worker
    worker,   \* [Conns -> Worker]: where the thread is in sendChunk
    tasks,    \* Seq: posted to the client thread (wsPostToClientThread)
    held,     \* [Files -> SUBSET Nat]: chunks the server has (external)
    red,      \* storage overquota: canStartAnotherFile() is false
    faults    \* how many faults have happened

vars == <<up, xfer, pool, flight, conn, wire, acks, worker, tasks, held, red,
          faults>>

(***************************************************************************)
(* WsUploadFile: tracked = in fileByNo, bound = mPool is this pool,        *)
(* failed = mUploadFailedTime with its mRetryUntil: "timed" may elapse,    *)
(* "never" waits for setRetryUntil.                                        *)
(***************************************************************************)
UploadFile(f) ==
    [tracked : BOOLEAN, bound : BOOLEAN, started : BOOLEAN, paused : BOOLEAN,
     failed : {"no", "timed", "never"}, done : BOOLEAN, eof : BOOLEAN,
     head : 0 .. N[f], confirmed : 0 .. N[f], acked : SUBSET Data(f),
     macs : SUBSET Data(f)]

(* Transfer: chunkmacs, progresscompleted, and the preflight request that  *)
(* lets a worker start it (mWsPreflightRequests).                          *)
Xfer(f) ==
    [state : {"live", "complete", "gone"}, paused : BOOLEAN,
     macs : SUBSET Data(f), progress : 0 .. N[f],
     preflight : {"none", "queued", "ready"}]

(* A worker in sendChunk with the mutex released, the chunk it holds, and  *)
(* what became of the generation it started from.                          *)
Worker == [pc : {"read", "encrypt"}, k : Chunk, gen : {"same", "changed", "orphan"}]

Idle == [pc |-> "idle"]

NoChunks == [k \in Chunk |-> 0]

(* updateContiguousProgress: t.pos. *)
Contiguous(f, macs) == CHOOSE p \in 0 .. N[f] : /\ 0 .. p - 1 \subseteq macs
                                                /\ p \notin macs

Least(a, b) == IF a < b THEN a ELSE b

(* The WsUploadFile that enqueue() builds for the Transfer of f. *)
NewFile(f, x) ==
    LET pos == Contiguous(f, x.macs)
    IN  [tracked |-> TRUE, bound |-> FALSE, started |-> FALSE,
         paused |-> x.paused, failed |-> "no", done |-> FALSE, eof |-> FALSE,
         head |-> pos, confirmed |-> Least(x.progress, pos), acked |-> {},
         macs |-> {}]

NewXfer == [state |-> "live", paused |-> FALSE, macs |-> {}, progress |-> 0,
            preflight |-> "none"]

Untracked(f) == [NewFile(f, NewXfer) EXCEPT !.tracked = FALSE]

Init ==
    /\ \E F \in SUBSET Files :
         /\ Cardinality(F) \in 1 .. MaxUploads
         /\ up = [f \in Files |-> IF f \in F THEN NewFile(f, NewXfer)
                                  ELSE Untracked(f)]
         /\ xfer = [f \in Files |-> IF f \in F THEN NewXfer
                                    ELSE [NewXfer EXCEPT !.state = "gone"]]
    /\ pool = [resend |-> NoChunks, n |-> 0, cur |-> NoFile, stale |-> TRUE]
    /\ flight = [c \in Conns |-> NoChunks]
    /\ conn = [c \in Conns |-> "CLOSED"]
    /\ wire = [c \in Conns |-> <<>>]
    /\ acks = [c \in Conns |-> <<>>]
    /\ worker = [c \in Conns |-> Idle]
    /\ tasks = <<>>
    /\ held = [f \in Files |-> {}]
    /\ red = FALSE
    /\ faults = 0

Fault == faults < MaxFaults /\ faults' = faults + 1

-----------------------------------------------------------------------------
(* Bags of chunks: mToResend and the mChunksInFlight lists. *)

Add(b, k) == [b EXCEPT ![k] = @ + 1]
Drop(b, k) == [b EXCEPT ![k] = @ - 1]
Without(b, F) == [k \in Chunk |-> IF k.f \in F THEN 0 ELSE b[k]]

Size(b) == FoldFunction(+, 0, b)
Of(b, F) == Size(b) - Size(Without(b, F))
Minus(n, k) == IF k > n THEN 0 ELSE n - k      \* each --n is guarded by n > 0

(* The chunks of f in flight on any connection. *)
FlightParts(f) == {i \in 0 .. N[f] : \E c \in Conns, k \in Chunk :
                                       k.f = f /\ k.i = i /\ flight[c][k] > 0}

(* purgeFileLocked for every file of F. *)
PurgedFlight(F) == [c \in Conns |-> Without(flight[c], F)]
PurgedCount_Kept(F) == pool.n
PurgedCount(F) ==
    Minus(pool.n, FoldFunction(+, 0, [c \in Conns |-> Of(flight[c], F)]))
PurgedPool_KeepsCurrent(F) ==
    [pool EXCEPT !.resend = Without(@, F), !.n = PurgedCount(F)]
PurgedPool(F) == [pool EXCEPT !.resend = Without(@, F), !.n = PurgedCount(F),
                              !.cur = IF @ \in F THEN NoFile ELSE @]

-----------------------------------------------------------------------------
(* WsUploadFile *)

Found(f) == up[f].tracked /\ up[f].bound                     \* findFile
Pending(f, u) == u.head < N[f] \/ ~u.eof                     \* hasPendingBytesOrEofToSend
Continuing(u) == ~u.done /\ u.failed # "never"               \* continuingUpload
IsUploading(u) == u.started /\ ~u.paused /\ u.failed = "no"  \* isUploading

ResetAttempt_KeepsAcked(u) ==
    [u EXCEPT !.head = 0, !.confirmed = 0, !.eof = FALSE, !.started = FALSE,
              !.done = FALSE, !.macs = {}]
ResetAttempt_KeepsConfirmed(u) ==
    [u EXCEPT !.head = 0, !.eof = FALSE, !.started = FALSE,
              !.done = FALSE, !.macs = {}, !.acked = {}]

ResetAttempt(u) ==
    [u EXCEPT !.head = 0, !.confirmed = 0, !.eof = FALSE, !.started = FALSE,
              !.done = FALSE, !.macs = {}, !.acked = {}]

MarkedFailed(u, retry) == [ResetAttempt(u) EXCEPT !.failed = retry]
UploadFailed(u) == [MarkedFailed(u, "timed") EXCEPT !.bound = FALSE]

(* invalidateOutstandingWork: a reader of f sees another mWorkGeneration.  *)
(* Past the read the generation is not looked at again.                    *)
Invalidated(w, F) ==
    [c \in Conns |-> IF w[c].pc = "read" /\ w[c].k.f \in F /\ w[c].gen = "same"
                     THEN [w[c] EXCEPT !.gen = "changed"] ELSE w[c]]

(* The object is gone; its readers finish on the orphan. *)
Orphaned(w, f) ==
    [c \in Conns |-> IF w[c].pc = "read" /\ w[c].k.f = f /\ w[c].gen = "same"
                     THEN [w[c] EXCEPT !.gen = "orphan"] ELSE w[c]]

(* Tasks posted to the client thread. *)
Task(kind, f, v) == [kind |-> kind, f |-> f, v |-> v]

(* failFileLocked and its siblings: purge, fail and unbind the attempt of  *)
(* f and post onFail.  The watchdogs also bring mUFTQversion up to date.   *)
FailFile(f, w, stale) ==
    /\ up' = [up EXCEPT ![f] = UploadFailed(@)]
    /\ pool' = [PurgedPool({f}) EXCEPT !.stale = stale]
    /\ flight' = PurgedFlight({f})
    /\ worker' = Invalidated(w, {f})
    /\ tasks' = Append(tasks, Task("fail", f, 0))

-----------------------------------------------------------------------------
(***************************************************************************)
(* poolWorkerThread of connection c: connect, receive, send.               *)
(***************************************************************************)
OpenConn(c) ==
    /\ conn[c] = "CLOSED"
    /\ conn' = [conn EXCEPT ![c] = "OPEN"]
    /\ wire' = [wire EXCEPT ![c] = <<>>]
    /\ UNCHANGED <<up, xfer, pool, flight, acks, worker, tasks, held, red, faults>>

(* closeWS, onclose, retryChunksOnTheWireLocked: the chunks in flight on   *)
(* the connection go back to the resend list unless they are acked.  What  *)
(* is on the wire may still reach the server.                              *)
CloseConn(c) ==
    /\ conn[c] = "OPEN" /\ worker[c].pc = "idle"
    /\ Fault
    /\ conn' = [conn EXCEPT ![c] = "CLOSED"]
    /\ pool' = [pool EXCEPT
          !.resend = [k \in Chunk |->
                        IF Found(k.f) /\ k.i \in up[k.f].acked
                        THEN @[k] ELSE @[k] + flight[c][k]],
          !.n = @ - Size(flight[c])]
    /\ flight' = [flight EXCEPT ![c] = NoChunks]
    /\ acks' = [acks EXCEPT ![c] = <<>>]
    /\ UNCHANGED <<up, xfer, wire, worker, tasks, held, red>>

(* The pinned endpoint no longer accepts connections: the files restart in *)
(* another pool (invalidatePinnedSessionUrl), out of this module's sight.  *)
InvalidateSession(c) ==
    /\ conn[c] = "CLOSED"
    /\ \E f \in Files : up[f].tracked
    /\ Fault
    /\ LET F == {f \in Files : up[f].tracked}
       IN  /\ up' = [f \in Files |->
                       IF f \in F THEN [ResetAttempt(up[f]) EXCEPT
                                          !.bound = FALSE, !.tracked = FALSE]
                       ELSE up[f]]
           /\ xfer' = [f \in Files |->
                         IF f \in F THEN [xfer[f] EXCEPT !.state = "gone"]
                         ELSE xfer[f]]
           /\ pool' = [PurgedPool(F) EXCEPT !.stale = TRUE]
           /\ flight' = PurgedFlight(F)
           /\ worker' = Invalidated(worker, F)
    /\ UNCHANGED <<conn, wire, acks, tasks, held, red>>

-----------------------------------------------------------------------------
(***************************************************************************)
(* WsConn::onmessage, for the event at the head of acks[c].  A chunk event *)
(* is looked up among the chunks in flight on this connection only.        *)
(***************************************************************************)
Receives(c) ==
    /\ conn[c] = "OPEN" /\ worker[c].pc = "idle" /\ acks[c] # <<>>
    /\ acks' = [acks EXCEPT ![c] = Tail(@)]
    /\ UNCHANGED <<xfer, conn, wire, held, red, faults>>

Answers(k, e) == k.f = e.f /\ k.i = e.i

Matched(c, e) == {k \in Chunk : Answers(k, e) /\ flight[c][k] > 0}

(* The in-flight record is erased; apply() queues its MAC when kept. *)
TakeFromFlight(c, k) ==
    /\ flight' = [flight EXCEPT ![c] = Drop(@, k)]
    /\ worker' = worker

WithMac(f, u, i) == [u EXCEPT !.macs = @ \cup ({i} \cap Data(f))]

(* Not a file of this pool any more, or an answer whose record was purged. *)
RecvOrphan(c) ==
    /\ Receives(c)
    /\ LET e == Head(acks[c])
       IN  \/ ~Found(e.f)
           \/ e.ev \in {"ingested", "final", "dup", "crc"} /\ Matched(c, e) = {}
    /\ UNCHANGED <<up, pool, flight, worker, tasks>>

RecvError(c) ==
    /\ Receives(c)
    /\ LET e == Head(acks[c])
       IN  /\ e.ev = "error" /\ Found(e.f)
           /\ FailFile(e.f, worker, pool.stale)

(* onProgress is posted for the final chunk, for others when it is due;    *)
(* onFail when more is confirmed than the file has.                        *)
Posts(e, confirmed, overflow) ==
    LET progress == <<Task("progress", e.f, confirmed)>>
        failure == IF overflow THEN <<Task("fail", e.f, 0)>> ELSE <<>>
    IN  IF e.ev = "final" THEN {IF overflow THEN failure ELSE progress}
        ELSE IF e.i \in Data(e.f) THEN {failure, progress \o failure}
        ELSE {<<>>}

(* ChunkIngested and FinalDataIngested: the chunk is credited and acked. *)
RecvIngested(c) ==
    /\ Receives(c)
    /\ LET e == Head(acks[c]) IN
       /\ e.ev \in {"ingested", "final"} /\ Found(e.f)
       /\ \E k \in Matched(c, e) :
            LET u == WithMac(e.f, up[e.f], e.i)
                v == IF e.i \in Data(e.f)
                     THEN [u EXCEPT !.confirmed = @ + 1, !.acked = @ \cup {e.i}]
                     ELSE u
                overflow == v.confirmed > N[e.f]
            IN  /\ up' = [up EXCEPT ![e.f] = IF overflow THEN UploadFailed(v) ELSE v]
                /\ IF overflow
                   THEN /\ pool' = PurgedPool({e.f})
                        /\ flight' = PurgedFlight({e.f})
                        /\ worker' = Invalidated(worker, {e.f})
                   ELSE /\ pool' = [pool EXCEPT !.n = Minus(@, 1)]
                        /\ TakeFromFlight(c, k)
                /\ tasks' \in {tasks \o p : p \in Posts(e, v.confirmed, overflow)}

(* AlreadyOnServer: the MAC is applied, a queued resend of the chunk is    *)
(* cancelled, no byte is credited.                                         *)
RecvDup(c) ==
    /\ Receives(c)
    /\ LET e == Head(acks[c]) IN
       /\ e.ev = "dup" /\ Found(e.f)
       /\ \E k \in Matched(c, e) : TakeFromFlight(c, k)
       /\ up' = [up EXCEPT ![e.f] = WithMac(e.f, @, e.i)]
       /\ pool' = [pool EXCEPT
             !.n = Minus(@, 1),
             !.resend = [k \in Chunk |-> IF Answers(k, e) THEN 0 ELSE @[k]]]
    /\ UNCHANGED tasks

(* CrcFailed: retryChunkLocked. *)
RecvCrcFailed(c) ==
    /\ Receives(c)
    /\ LET e == Head(acks[c]) IN
       /\ e.ev = "crc" /\ Found(e.f)
       /\ \E k \in Matched(c, e) :
            IF k.r = MaxChunkRetries
            THEN FailFile(e.f, worker, pool.stale)
            ELSE /\ TakeFromFlight(c, k)
                 /\ pool' = [pool EXCEPT
                       !.n = Minus(@, 1),
                       !.resend = Add(@, [k EXCEPT !.r = @ + 1])]
                 /\ UNCHANGED <<up, tasks>>

(* UploadCompleted: applyInFlightLocked, uploadCompleted, onComplete. *)
RecvCompleted(c) ==
    /\ Receives(c)
    /\ LET e == Head(acks[c]) IN
       /\ e.ev = "completed" /\ Found(e.f)
       /\ up' = [up EXCEPT ![e.f] =
                   [up[e.f] EXCEPT
                      !.macs = @ \cup (FlightParts(e.f) \cap Data(e.f)),
                      !.done = TRUE, !.confirmed = N[e.f], !.bound = FALSE]]
       /\ flight' = PurgedFlight({e.f})
       /\ pool' = [pool EXCEPT !.n = PurgedCount({e.f}),
                               !.cur = IF @ = e.f THEN NoFile ELSE @]
       /\ worker' = Invalidated(worker, {e.f})
       /\ tasks' = Append(tasks, Task("done", e.f, 0))

-----------------------------------------------------------------------------
(***************************************************************************)
(* WsPool::sendChunk: nextChunk, then read the chunk with uploadMutex      *)
(* released, then encrypt it with uploadMutex released.                    *)
(***************************************************************************)
Ready(c) == conn[c] = "OPEN" /\ worker[c].pc = "idle"

Queued(k) == pool.resend[k] > 0
Sendable(k) == Queued(k) /\ Found(k.f) /\ ~up[k.f].paused
StaleResend == {k \in Chunk : Queued(k) /\ ~Found(k.f)}
Discard(b, K) == [k \in Chunk |-> IF k \in K THEN 0 ELSE b[k]]

PutInFlight(c, k) ==
    /\ flight' = [flight EXCEPT ![c] = Add(@, k)]
    /\ wire' = [wire EXCEPT ![c] = Append(@, [f |-> k.f, i |-> k.i])]

Read(k) == [pc |-> "read", k |-> k, gen |-> "same"]

(* A queued chunk whose owner may send; the stale entries before it go. *)
SendQueued(c) ==
    /\ Ready(c)
    /\ \E k \in Chunk, S \in SUBSET StaleResend :
         /\ Sendable(k)
         /\ LET rest == Drop(Discard(pool.resend, S), k)
            IN  IF k.i \in Data(k.f)
                THEN /\ pool' = [pool EXCEPT !.resend = rest]
                     /\ worker' = [worker EXCEPT ![c] = Read(k)]
                     /\ UNCHANGED <<flight, wire>>
                ELSE IF up[k.f].failed = "no"
                THEN /\ pool' = [pool EXCEPT !.resend = rest, !.n = @ + 1]
                     /\ PutInFlight(c, k)
                     /\ UNCHANGED worker
                ELSE /\ pool' = [pool EXCEPT !.resend = rest]
                     /\ UNCHANGED <<flight, wire, worker>>
    /\ UNCHANGED <<up, xfer, conn, acks, tasks, held, red, faults>>

(* getWsUploadFile keeps the current file while it may continue; otherwise *)
(* a candidate must pass nextEligible and have its preflight done.         *)
Keeps == /\ pool.cur # NoFile /\ ~pool.stale
         /\ LET u == up[pool.cur]
            IN  ~u.paused /\ Continuing(u) /\ Pending(pool.cur, u)

Eligible(f) == /\ up[f].tracked /\ ~up[f].paused
               /\ Continuing(up[f]) /\ Pending(f, up[f])

(* The retry time of a failed current file may not be reached yet. *)
Selects(f) == /\ ~red /\ Eligible(f)
              /\ Keeps => up[pool.cur].failed = "timed" /\ f # pool.cur

NothingQueued(c) == Ready(c) /\ \A k \in Chunk : ~Sendable(k)

AskPreflight(c, f) ==
    /\ NothingQueued(c) /\ Selects(f) /\ xfer[f].preflight = "none"
    /\ xfer' = [xfer EXCEPT ![f].preflight = "queued"]
    /\ tasks' = Append(tasks, Task("preflight", f, 0))
    /\ pool' = [pool EXCEPT !.resend = Discard(@, StaleResend)]
    /\ UNCHANGED <<up, flight, conn, wire, acks, worker, held, red, faults>>

(* setUploadStart, setPool. *)
Started(u) == [u EXCEPT !.started = TRUE, !.failed = "no", !.bound = TRUE]

(* The fresh chunk at the head of u, and u once it is taken. *)
HeadTaken(f, u) ==
    IF u.head = N[f] THEN [u EXCEPT !.eof = TRUE]
    ELSE [u EXCEPT !.head = @ + 1,
                   !.eof = @ \/ (f \in ShortTail /\ u.head = N[f] - 1)]

TakeHead(c, f, u, w, p) ==
    LET k == [f |-> f, i |-> u.head, r |-> 0] IN
    /\ up' = [up EXCEPT ![f] = HeadTaken(f, u)]
    /\ IF u.head < N[f]
       THEN /\ worker' = [w EXCEPT ![c] = Read(k)]
            /\ pool' = p
            /\ UNCHANGED <<flight, wire>>
       ELSE /\ worker' = w
            /\ IF u.failed = "no"
               THEN /\ PutInFlight(c, k)
                    /\ pool' = [p EXCEPT !.n = @ + 1]
               ELSE /\ pool' = p
                    /\ UNCHANGED <<flight, wire>>

SendNext(c) ==
    /\ NothingQueued(c) /\ Keeps
    /\ TakeHead(c, pool.cur, up[pool.cur], worker,
                [pool EXCEPT !.resend = Discard(@, StaleResend)])
    /\ UNCHANGED <<xfer, conn, acks, tasks, held, red, faults>>

StartFile(c, f) ==
    /\ NothingQueued(c) /\ Selects(f) /\ xfer[f].preflight = "ready"
    /\ TakeHead(c, f, Started(up[f]), Invalidated(worker, {f}),
                [pool EXCEPT !.resend = Discard(@, StaleResend), !.cur = f,
                             !.stale = @ /\ pool.cur = f])
    /\ xfer' = [xfer EXCEPT ![f].preflight = "none"]
    /\ UNCHANGED <<conn, acks, tasks, held, red, faults>>

(* Back from readData or encryptChunk, uploadMutex taken again. *)
Reading(c, gens) == worker[c].pc = "read" /\ worker[c].gen \in gens
Requeued_Not(c) == pool
Requeued(c) == [pool EXCEPT !.resend = Add(@, worker[c].k)]
Leave(c) == worker' = [worker EXCEPT ![c] = Idle]

ReadOk_IgnoresFailure(c) ==
    /\ Reading(c, {"same", "orphan"})
    /\ LET f == worker[c].k.f IN
       IF Found(f) /\ ~up[f].paused
       THEN /\ worker' = [worker EXCEPT ![c].pc = "encrypt", ![c].gen = "same"]
            /\ UNCHANGED pool
       ELSE /\ Leave(c)
            /\ pool' = IF Found(f) THEN Requeued(c) ELSE pool
    /\ UNCHANGED <<up, xfer, flight, conn, wire, acks, tasks, held, red, faults>>

ReadOk(c) ==
    /\ Reading(c, {"same", "orphan"})
    /\ LET f == worker[c].k.f IN
       IF Found(f) /\ ~up[f].paused /\ up[f].failed = "no"
       THEN /\ worker' = [worker EXCEPT ![c].pc = "encrypt", ![c].gen = "same"]
            /\ UNCHANGED pool
       ELSE /\ Leave(c)
            /\ pool' = IF Found(f) /\ up[f].paused THEN Requeued(c) ELSE pool
    /\ UNCHANGED <<up, xfer, flight, conn, wire, acks, tasks, held, red, faults>>

ReadInterrupted_Requeues(c) ==
    /\ Reading(c, {"changed"})
    /\ pool' = Requeued(c)
    /\ Leave(c)
    /\ UNCHANGED <<up, xfer, flight, conn, wire, acks, tasks, held, red, faults>>

ReadInterrupted(c) ==
    /\ Reading(c, {"changed"})
    /\ pool' = IF Found(worker[c].k.f) THEN Requeued(c) ELSE pool
    /\ Leave(c)
    /\ UNCHANGED <<up, xfer, flight, conn, wire, acks, tasks, held, red, faults>>

(* A read error fails the attempt, for good when the source has changed. *)
ReadError(c) ==
    /\ Reading(c, {"same", "orphan"})
    /\ Fault
    /\ LET f == worker[c].k.f
           w == [worker EXCEPT ![c] = Idle]
       IN  IF Found(f)
           THEN /\ FailFile(f, w, pool.stale)
           ELSE /\ Leave(c)
                /\ UNCHANGED <<up, pool, flight, tasks>>
    /\ UNCHANGED <<xfer, conn, wire, acks, held, red>>

(* Neither the failure nor the generation is looked at again here. *)
EncryptDone(c) ==
    /\ worker[c].pc = "encrypt"
    /\ Leave(c)
    /\ LET f == worker[c].k.f IN
       IF Found(f) /\ ~up[f].paused
       THEN /\ PutInFlight(c, worker[c].k)
            /\ pool' = [pool EXCEPT !.n = @ + 1]
       ELSE /\ pool' = IF Found(f) THEN Requeued(c) ELSE pool
            /\ UNCHANGED <<flight, wire>>
    /\ UNCHANGED <<up, xfer, conn, acks, tasks, held, red, faults>>
-----------------------------------------------------------------------------
(***************************************************************************)
(* External: the storage server of the session.  It ingests a chunk once,  *)
(* and announces completion when it has every part.                        *)
(***************************************************************************)
Event(ev, f, i) == [ev |-> ev, f |-> f, i |-> i]

Replies(c, s) ==
    /\ acks' = IF conn[c] = "OPEN" THEN [acks EXCEPT ![c] = @ \o s] ELSE acks
    /\ wire' = [wire EXCEPT ![c] = Tail(@)]
    /\ UNCHANGED <<up, xfer, pool, flight, conn, worker, tasks, red>>

ServerIngests(c) ==
    /\ wire[c] # <<>>
    /\ LET m == Head(wire[c])
           now == held[m.f] \cup {m.i}
           complete == Parts(m.f) \subseteq now
       IN  /\ held' = [held EXCEPT ![m.f] = now]
           /\ Replies(c,
                IF m.i \in held[m.f]
                THEN <<Event("dup", m.f, m.i)>> \o
                     (IF complete /\ ReCompletes
                      THEN <<Event("completed", m.f, 0)>> ELSE <<>>)
                ELSE IF complete
                THEN <<Event("final", m.f, m.i), Event("completed", m.f, 0)>>
                ELSE <<Event("ingested", m.f, m.i)>>)
    /\ UNCHANGED faults

ServerRejects(c) ==
    /\ wire[c] # <<>>
    /\ Fault
    /\ \E ev \in {"crc", "error"} :
         Replies(c, <<Event(ev, Head(wire[c]).f, Head(wire[c]).i)>>)
    /\ UNCHANGED held

-----------------------------------------------------------------------------
(***************************************************************************)
(* The client thread: the posted tasks, and the commands of the app.       *)
(***************************************************************************)
(* UploadEngine::remove: the generation of the object is left alone. *)
Remove(f) ==
    /\ pool' = [PurgedPool({f}) EXCEPT !.stale = TRUE]
    /\ flight' = PurgedFlight({f})
    /\ worker' = Orphaned(worker, f)

ClientStep == UNCHANGED <<conn, wire, acks, held>>

NextTask(kind) == /\ tasks # <<>> /\ Head(tasks).kind = kind
                  /\ tasks' = Tail(tasks)

Live(f) == xfer[f].state = "live"

(* The transfer of the task is no longer alive. *)
StaleTask ==
    /\ tasks # <<>> /\ ~Live(Head(tasks).f)
    /\ tasks' = Tail(tasks)
    /\ ClientStep
    /\ UNCHANGED <<up, xfer, pool, flight, worker, red, faults>>

(* prepareUploadForWs *)
OnPreflight ==
    /\ NextTask("preflight") /\ Live(Head(tasks).f)
    /\ xfer' = [xfer EXCEPT ![Head(tasks).f].preflight = "ready"]
    /\ ClientStep
    /\ UNCHANGED <<up, pool, flight, worker, red, faults>>

(* wsMergeDrainedChunkMacs *)
Merged(x, u) == [x EXCEPT !.macs = @ \cup u.macs]

OnProgress ==
    /\ NextTask("progress") /\ Live(Head(tasks).f)
    /\ LET t == Head(tasks)
       IN  /\ xfer' = [xfer EXCEPT ![t.f] =
                        [Merged(@, up[t.f]) EXCEPT !.progress = t.v]]
           /\ up' = [up EXCEPT ![t.f].macs = {}]
    /\ ClientStep
    /\ UNCHANGED <<pool, flight, worker, red, faults>>

(* Transfer::failed for an upload: its progress and its MACs are cleared.  *)
TransferFailed(x) == [x EXCEPT !.macs = {}, !.progress = 0]

(* A transfer that survives its failure is enqueued again.                 *)
OnFail ==
    /\ NextTask("fail") /\ Live(Head(tasks).f)
    /\ LET f == Head(tasks).f
           x == TransferFailed(xfer[f])
       IN  /\ Remove(f)
           /\ \/ /\ xfer' = [xfer EXCEPT ![f] = x]
                 /\ up' = [up EXCEPT ![f] = NewFile(f, x)]
                 /\ UNCHANGED faults
              \/ /\ Fault
                 /\ xfer' = [xfer EXCEPT ![f] = [x EXCEPT !.state = "gone"]]
                 /\ up' = [up EXCEPT ![f] = Untracked(f)]
    /\ ClientStep
    /\ UNCHANGED red

(* The node key is computed from whatever MACs the transfer has. *)
OnComplete ==
    /\ NextTask("done") /\ Live(Head(tasks).f)
    /\ LET f == Head(tasks).f
       IN  /\ Remove(f)
           /\ xfer' = [xfer EXCEPT ![f] =
                        [Merged(@, up[f]) EXCEPT !.state = "complete"]]
           /\ up' = [up EXCEPT ![f] = Untracked(f)]
    /\ ClientStep
    /\ UNCHANGED <<red, faults>>

(* setPaused bumps the generation either way. *)
SetPaused(f, p) ==
    /\ Live(f) /\ xfer[f].paused # p
    /\ xfer' = [xfer EXCEPT ![f].paused = p]
    /\ up' = [up EXCEPT ![f].paused = p]
    /\ worker' = Invalidated(worker, {f})
    /\ ClientStep
    /\ UNCHANGED <<pool, flight, tasks, red>>

Pause(f) == SetPaused(f, TRUE) /\ Fault
Unpause(f) == SetPaused(f, FALSE) /\ UNCHANGED faults

(* activateoverquota: every upload is failed where it is, in its pool. *)
Overquota ==
    /\ MayFill /\ ~red /\ Fault
    /\ red' = TRUE
    /\ LET F == {f \in Files : up[f].tracked}
       IN  /\ up' = [f \in Files |-> IF f \in F THEN MarkedFailed(up[f], "never")
                                     ELSE up[f]]
           /\ worker' = Invalidated(worker, F)
    /\ ClientStep
    /\ UNCHANGED <<xfer, pool, flight, tasks>>

(* Space again: abortbackoff sets the retry time to now. *)
StorageGreen ==
    /\ red
    /\ red' = FALSE
    /\ up' = [f \in Files |-> IF up[f].failed = "never"
                              THEN [up[f] EXCEPT !.failed = "timed"] ELSE up[f]]
    /\ ClientStep
    /\ UNCHANGED <<xfer, pool, flight, worker, tasks, faults>>

Cancel(f) ==
    /\ Live(f) /\ Fault
    /\ Remove(f)
    /\ xfer' = [xfer EXCEPT ![f].state = "gone"]
    /\ up' = [up EXCEPT ![f] = Untracked(f)]
    /\ ClientStep
    /\ UNCHANGED <<tasks, red>>

(* The app stops, in whatever state, and resumes from the transfer cache. *)
Restart ==
    /\ ~red /\ Fault
    /\ xfer' = [f \in Files |-> [xfer[f] EXCEPT !.preflight = "none"]]
    /\ up' = [f \in Files |-> IF Live(f) THEN NewFile(f, xfer[f]) ELSE up[f]]
    /\ pool' = [resend |-> NoChunks, n |-> 0, cur |-> NoFile, stale |-> TRUE]
    /\ flight' = [c \in Conns |-> NoChunks]
    /\ conn' = [c \in Conns |-> "CLOSED"]
    /\ acks' = [c \in Conns |-> <<>>]
    /\ worker' = [c \in Conns |-> Idle]
    /\ tasks' = <<>>
    /\ UNCHANGED <<wire, held, red>>

-----------------------------------------------------------------------------
(***************************************************************************)
(* WsPoolMgr::checkPools, manager thread: the per-file watchdogs, each     *)
(* firing when its condition has held for tailCompletionTimeoutDs.  That   *)
(* the time runs out with a chunk being read or an answer due is a fault.  *)
(***************************************************************************)
Outstanding(f) ==
    \E c \in Conns : \/ worker[c].pc # "idle" /\ worker[c].k.f = f
                     \/ \E j \in DOMAIN acks[c] : acks[c][j].f = f
                     \/ \E j \in DOMAIN wire[c] : wire[c][j].f = f

TimeUp(f) == IF Outstanding(f) THEN Fault ELSE UNCHANGED faults

ManagerStep == UNCHANGED <<xfer, conn, wire, acks, held, red>>

PoolBusy == pool.n # 0 \/ \E k \in Chunk : Queued(k)

CompletionWedge_Queued(f) ==
    /\ up[f].tracked /\ up[f].confirmed = N[f] /\ ~up[f].done
    /\ up[f].failed = "no" /\ ~up[f].paused /\ PoolBusy

CompletionWedge(f) ==
    /\ up[f].tracked /\ up[f].confirmed = N[f] /\ ~up[f].done
    /\ up[f].failed = "no" /\ ~up[f].paused /\ ~(up[f].bound /\ PoolBusy)

(* The bytes are confirmed but the completion never came: restart. *)
WatchCompletion(f) ==
    /\ CompletionWedge(f)
    /\ TimeUp(f)
    /\ FailFile(f, worker, pool.stale /\ ~up[f].bound)
    /\ ManagerStep

Gaps(u) == (0 .. u.head - 1) \ u.acked

Shortfall(f) == /\ up[f].bound /\ IsUploading(up[f]) /\ ~up[f].done
                /\ up[f].confirmed < N[f] /\ ~Pending(f, up[f])
                /\ FlightParts(f) = {} /\ \A k \in Chunk : k.f = f => ~Queued(k)

(* Everything was sent, nothing is outstanding, bytes are missing: send    *)
(* the gaps again, or restart if there is none.                            *)
WatchShortfall(f) ==
    /\ up[f].tracked /\ Shortfall(f)
    /\ TimeUp(f)
    /\ IF Gaps(up[f]) # {}
       THEN /\ pool' = [pool EXCEPT !.resend = [k \in Chunk |->
                          @[k] + IF k.f = f /\ k.i \in Gaps(up[f]) /\ k.r = 0
                                 THEN 1 ELSE 0]]
            /\ UNCHANGED <<up, flight, worker, tasks>>
       ELSE FailFile(f, worker, FALSE)
    /\ ManagerStep

-----------------------------------------------------------------------------
Receive(c) == \/ RecvOrphan(c) \/ RecvError(c) \/ RecvIngested(c)
              \/ RecvDup(c) \/ RecvCrcFailed(c) \/ RecvCompleted(c)

Send(c) == SendQueued(c) \/ SendNext(c) \/ \E f \in Files : StartFile(c, f)

(* The thread goes on from where it is; these exclude each other. *)
Continue(c) == OpenConn(c) \/ ReadOk(c) \/ ReadInterrupted(c) \/ EncryptDone(c)

Watch(f) == WatchCompletion(f) \/ WatchShortfall(f)

ClientTask == StaleTask \/ OnPreflight \/ OnProgress \/ OnFail \/ OnComplete

Next ==
    \/ \E c \in Conns :
         \/ Continue(c) \/ CloseConn(c) \/ InvalidateSession(c)
         \/ Receive(c) \/ Send(c) \/ ReadError(c)
         \/ ServerIngests(c) \/ ServerRejects(c)
         \/ \E f \in Files : AskPreflight(c, f)
    \/ \E f \in Files : Pause(f) \/ Unpause(f) \/ Cancel(f) \/ Watch(f)
    \/ ClientTask \/ Overquota \/ StorageGreen \/ Restart

(***************************************************************************)
(* Fairness: every worker thread keeps running its loop and reconnects,    *)
(* the server answers, the client thread drains its tasks, the manager     *)
(* thread runs checkPools, a pause and an overquota end.  Losses, errors,  *)
(* cancels and new holds are never owed.                                   *)
(***************************************************************************)
Fairness ==
    /\ \A c \in Conns :
         /\ WF_vars(Continue(c)) /\ WF_vars(ServerIngests(c))
         /\ SF_vars(Receive(c)) /\ SF_vars(Send(c))
         /\ SF_vars(\E f \in Files : AskPreflight(c, f))
    /\ WF_vars(ClientTask) /\ WF_vars(StorageGreen)
    /\ \A f \in Files : WF_vars(Unpause(f)) /\ WF_vars(Watch(f))

Spec == Init /\ [][Next]_vars

FairSpec == Spec /\ Fairness

-----------------------------------------------------------------------------
(* mNumChunksInFlight is the number of in-flight records of the pool,      *)
(* whatever was sent, answered, requeued, purged or applied meanwhile.     *)
InFlightCounted ==
    pool.n = FoldFunction(+, 0, [c \in Conns |-> Size(flight[c])])

(* mUploadingFile, a bare pointer, is nullptr or a tracked file bound to   *)
(* the pool: every path that fails, completes, removes or restarts a file  *)
(* also clears it (purgeFileLocked, remove, unsetPool).                    *)
CurrentIsBound == pool.cur # NoFile => Found(pool.cur)

(* An in-flight record belongs to a file of the pool.  So does a queued    *)
(* resend, unless the file has completed, or was marked failed after that, *)
(* and its removal is still to come.                                       *)
NoRecordOutlivesItsFile ==
    \A k \in Chunk :
      /\ (\E c \in Conns : flight[c][k] > 0) => Found(k.f)
      /\ Queued(k) => Found(k.f) \/ up[k.f].done \/ up[k.f].failed # "no"

MacsOf(f) == up[f].macs \cup xfer[f].macs

(* mBytesConfirmed counts only bytes that the server has and whose MAC is  *)
(* kept, over duplicates, retries, late answers, failed attempts and       *)
(* restarts from the cache.                                                *)
CreditIsHeld ==
    \A f \in Files : up[f].tracked /\ ~up[f].done =>
      up[f].confirmed <= Cardinality(MacsOf(f) \cap held[f])

(* Chunk i of f is in flight, queued, or in a worker's hands. *)
InHand(f, i) ==
    \/ \E c \in Conns : worker[c].pc # "idle" /\ worker[c].k.f = f /\ worker[c].k.i = i
    \/ i \in FlightParts(f)
    \/ \E k \in Chunk : k.f = f /\ k.i = i /\ Queued(k)

Covered(f, i) == i \in MacsOf(f) \cap held[f] \/ InHand(f, i)

Uploads(f) == Found(f) /\ up[f].failed = "no"

(* A range an upload has passed over keeps its MAC, its bytes being with   *)
(* the server, or will be sent: while an attempt goes on, no loss of a     *)
(* connection, pause, interrupted read or late answer drops it.            *)
RangesStayCovered ==
    [][\A f \in Files : Uploads(f) /\ Uploads(f)' =>
         \A i \in Data(f) :
           i < up'[f].head /\ (i < up[f].head => Covered(f, i)) => Covered(f, i)']_vars

(* A chunk that was read goes on to be encrypted only if its file is       *)
(* uploading then: not if it was paused, failed or removed in between (the *)
(* assertion after readData in sendChunk).                                 *)
SendsWhileUploading ==
    [][\A c \in Conns : worker[c].pc = "read" /\ worker'[c].pc = "encrypt" =>
         IsUploading(up[worker[c].k.f])]_vars

(* A chunk that markRangeAcked recorded, which retryChunksOnTheWireLocked  *)
(* hence never sends again, has its MAC kept until the node key is made.   *)
AckedMacKept == \A f \in Files : up[f].tracked => up[f].acked \subseteq MacsOf(f)

(* The node key of a completed upload covers every chunk: onComplete has   *)
(* every MAC that was confirmed when it computes the macsmac.              *)
KeyCoversFile == \A f \in Files : xfer[f].state = "complete" => xfer[f].macs = Data(f)

(* Marked failed with everything passed over: no worker takes it again and *)
(* no watchdog looks at it.                                                *)
Stranded(f) == up[f].tracked /\ up[f].failed # "no" /\ ~Pending(f, up[f])

(* Every upload completes or is given up, whatever was lost: a lost chunk, *)
(* ack or completion is made good by a resend or a watchdog.  Left aside   *)
(* is an upload that was current when the account ran out of space: it is  *)
(* kept without setUploadStart(), and its chunks are dropped to the last.  *)
UploadEnds == \A f \in Files : <>(~Live(f) \/ Stranded(f))
=============================================================================
