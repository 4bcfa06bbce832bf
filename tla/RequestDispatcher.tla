-------------------------- MODULE RequestDispatcher --------------------------
(***************************************************************************)
(* The client-server ("cs") channel: Request and RequestDispatcher of      *)
(* src/request.cpp, driven by the cs loop of MegaClient::exec().           *)
(*                                                                         *)
(* Commands are queued in batches (nextreqs).  One batch at a time is in   *)
(* flight (inflightreq); it is posted with an idempotence id, resent       *)
(* unchanged until the API answers, and its results are then handed to its *)
(* commands one by one.  A result that carries a sequence tag suspends the *)
(* loop until the sc channel has caught up with it.                        *)
(*                                                                         *)
(* The HTTP layer and the API server are external: they may lose a post or *)
(* its reply, execute a late copy of a post, refuse a batch (-3, -4), or   *)
(* fail it as a whole.                                                     *)
(***************************************************************************)
EXTENDS Naturals, Sequences

CONSTANTS
    Cmd,              \* the Command objects an execution may queue
    BatchSeparately,  \* those with Command::batchSeparately
    FetchNodes,       \* CommandFetchNodes: its reply is parsed in chunks
    SeqTagged,        \* those whose result is a sequence tag
    LogoutInResult,   \* those whose procresult may end in locallogout()
    MAX_COMMANDS,     \* capacity of one batch
    Chunks            \* number of pieces a chunked reply arrives in

ASSUME RequestDispatcherAssumption ==
    /\ BatchSeparately \subseteq Cmd
    /\ FetchNodes \subseteq BatchSeparately
    /\ SeqTagged \subseteq Cmd \ FetchNodes
    /\ LogoutInResult \subseteq Cmd \ FetchNodes
    /\ MAX_COMMANDS \in Nat \ {0}
    /\ Chunks \in Nat \ {0}

VARIABLES
    inflightreq,         \* the Request that was sent and is not yet answered
    inflightFailReason,
    nextreqs,            \* the deque of Requests still to be sent
    jsonresponse,        \* inflightreq: the reply its results are read from
    processindex,        \* inflightreq: number of results handed out
    stopProcessing,      \* inflightreq: set by clear() during processing
    parsed,              \* inflightreq: chunks its JSONSplitter has consumed
    mCurrentSeqtag,      \* a result waits for its sequence tag on the sc channel
    processing,
    clearWhenSafe,
    reqid,
    pendingcs,           \* the HTTP request, status "null" when there is none
    btcs,                \* the backoff timer, "armed" or "backoff"
    wire,                \* posts that may still reach the API server
    served,              \* batches the API server has executed
    fresh,               \* Command objects not created yet
    completed            \* results handed out since the last clear(), in order

request == <<jsonresponse, processindex, stopProcessing, parsed, mCurrentSeqtag>>
flags == <<processing, clearWhenSafe>>
vars == <<inflightreq, inflightFailReason, nextreqs, request, flags, reqid,
          pendingcs, btcs, wire, served, fresh, completed>>

RETRY_API == {"RETRY_API_LOCK", "RETRY_RATE_LIMIT"}
RetryReasons == RETRY_API \cup {"RETRY_NONE", "RETRY_CONNECTIVITY"}

\* parsed has this value when the splitter went on with the wrong bytes
Garbled == Chunks + 1

EmptyRequest == [cmds |-> <<>>, cachedJSON |-> <<>>, cachedIdempotenceId |-> 0]

\* No reply is being read, or: one result per command of cmds, or (error) the
\* same error for each of them.
NoResponse == [kind |-> "none", cmds |-> <<>>]

NoHttpReq == [status |-> "null", id |-> 0, out |-> <<>>, mChunked |-> FALSE,
              in |-> "", results |-> <<>>, bufpos |-> 0, notifiedbufpos |-> 0]

Init ==
    /\ inflightreq = EmptyRequest
    /\ inflightFailReason = "RETRY_NONE"
    /\ nextreqs = <<EmptyRequest>>
    /\ jsonresponse = NoResponse
    /\ processindex = 0
    /\ stopProcessing = FALSE
    /\ parsed = 0
    /\ mCurrentSeqtag = FALSE
    /\ processing = FALSE
    /\ clearWhenSafe = FALSE
    /\ reqid = 0
    /\ pendingcs = NoHttpReq
    /\ btcs = "armed"
    /\ wire = {}
    /\ served = {}
    /\ fresh = Cmd
    /\ completed = <<>>
-----------------------------------------------------------------------------
(* Queueing and sending *)

\* Request::add
RequestAdd(r, c) == [r EXCEPT !.cmds = Append(@, c)]

\* Mutant: the batch after a batchSeparately command is shared with it.
QueueAfterAdd_SharesLast(q, c) ==
    LET q1 == IF Len(q[Len(q)].cmds) >= MAX_COMMANDS THEN Append(q, EmptyRequest) ELSE q
        q2 == IF c \in BatchSeparately /\ q1[Len(q1)].cmds # <<>>
              THEN Append(q1, EmptyRequest) ELSE q1
    IN  [q2 EXCEPT ![Len(q2)] = RequestAdd(@, c)]

\* RequestDispatcher::add: a full batch, or one that must not be shared, is
\* followed by a new one.
QueueAfterAdd(q, c) ==
    LET q1 == IF Len(q[Len(q)].cmds) >= MAX_COMMANDS THEN Append(q, EmptyRequest) ELSE q
        q2 == IF c \in BatchSeparately /\ q1[Len(q1)].cmds # <<>>
              THEN Append(q1, EmptyRequest) ELSE q1
        q3 == [q2 EXCEPT ![Len(q2)] = RequestAdd(@, c)]
    IN  IF c \in BatchSeparately THEN Append(q3, EmptyRequest) ELSE q3

\* MegaClient::queueCommand, by the application or by some procresult.
Add(c) ==
    /\ c \in fresh
    /\ fresh' = fresh \ {c}
    /\ nextreqs' = QueueAfterAdd(nextreqs, c)
    /\ UNCHANGED <<inflightreq, inflightFailReason, request, flags, reqid,
                   pendingcs, btcs, wire, served, completed>>

IsFetchNodes(r) == Len(r.cmds) = 1 /\ r.cmds[1] \in FetchNodes

\* RequestDispatcher::readyToSend
ReadyToSend ==
    IF inflightreq.cmds # <<>> THEN inflightFailReason # "RETRY_NONE"
                               ELSE nextreqs[1].cmds # <<>>

\* Mutant: the cached JSON of the previous batch stays.
RequestSwap_KeepsCache(r, front) == [r EXCEPT !.cmds = front.cmds]

\* Request::swap into an empty inflightreq: the commands and what was cached for
\* them move together.
RequestSwap(r, front) ==
    [r EXCEPT !.cmds = front.cmds,
              !.cachedJSON = front.cachedJSON,
              !.cachedIdempotenceId = front.cachedIdempotenceId]

\* Mutant: a retry gets a new id.
RequestGet_NewId(r, n) == [r EXCEPT !.cachedJSON = r.cmds, !.cachedIdempotenceId = n + 1]

\* Request::get: the JSON and its id are made once and then kept for retries.
RequestGet(r, n) ==
    IF r.cachedJSON = <<>>
    THEN [r EXCEPT !.cachedJSON = r.cmds, !.cachedIdempotenceId = n + 1]
    ELSE r

\* Mutant: the last batch leaves no open batch behind.
PopFront_LeavesNone(q) == Tail(q)

\* The deque always keeps an open batch at its end.
PopFront(q) == IF Len(q) = 1 THEN <<EmptyRequest>> ELSE Tail(q)

\* The send branch of the cs loop: RequestDispatcher::serverrequest and post.
ServerRequest ==
    LET retry == inflightreq.cmds # <<>> /\ inflightFailReason # "RETRY_NONE"
        taken == IF retry THEN inflightreq ELSE RequestSwap(inflightreq, nextreqs[1])
        sent == RequestGet(taken, reqid)
    IN  /\ ~processing
        /\ pendingcs.status = "null"
        /\ btcs = "armed"
        /\ ReadyToSend
        /\ inflightreq' = sent
        /\ reqid' = IF sent.cachedIdempotenceId = reqid + 1 THEN reqid + 1 ELSE reqid
        /\ nextreqs' = IF retry THEN nextreqs ELSE PopFront(nextreqs)
        /\ inflightFailReason' = "RETRY_NONE"
        /\ pendingcs' = [NoHttpReq EXCEPT !.status = "REQ_INFLIGHT",
                                          !.id = sent.cachedIdempotenceId,
                                          !.out = sent.cachedJSON,
                                          !.mChunked = IsFetchNodes(sent)]
        /\ wire' = wire \cup {[id |-> sent.cachedIdempotenceId, out |-> sent.cachedJSON]}
        /\ UNCHANGED <<request, flags, btcs, served, fresh, completed>>

\* BackoffTimer: the delay is over, or was aborted.
BackoffExpires ==
    /\ btcs = "backoff"
    /\ btcs' = "armed"
    /\ UNCHANGED <<inflightreq, inflightFailReason, nextreqs, request, flags,
                   reqid, pendingcs, wire, served, fresh, completed>>
-----------------------------------------------------------------------------
(* The API server and the HTTP layer (external) *)

dispatcher == <<inflightreq, inflightFailReason, nextreqs, request, flags, reqid>>

Executed(id) == \E m \in served : m.id = id

\* The API executes a batch, unless it knows the id from an earlier copy.
ApiExecutes(m) ==
    /\ m \in wire
    /\ wire' = wire \ {m}
    /\ served' = IF Executed(m.id) THEN served ELSE served \cup {m}
    /\ UNCHANGED <<dispatcher, pendingcs, btcs, fresh, completed>>

\* The results of the executed batch start to arrive (a chunked reply), or
\* have arrived.
ApiReplies(m) ==
    /\ pendingcs.status = "REQ_INFLIGHT"
    /\ pendingcs.in = ""
    /\ m \in served
    /\ m.id = pendingcs.id
    /\ pendingcs' = [pendingcs EXCEPT
                        !.in = "[", !.results = m.out,
                        !.status = IF pendingcs.mChunked THEN @ ELSE "REQ_SUCCESS"]
    /\ UNCHANGED <<dispatcher, btcs, wire, served, fresh, completed>>

\* The API refuses the batch: -3, -4 or an error of the whole request.
ApiRefuses(e) ==
    /\ pendingcs.status = "REQ_INFLIGHT"
    /\ pendingcs.in = ""
    /\ ~Executed(pendingcs.id)
    /\ pendingcs' = [pendingcs EXCEPT !.in = e, !.status = "REQ_SUCCESS"]
    /\ UNCHANGED <<dispatcher, btcs, wire, served, fresh, completed>>

ChunkArrives ==
    /\ pendingcs.status = "REQ_INFLIGHT"
    /\ pendingcs.mChunked
    /\ pendingcs.in = "["
    /\ IF pendingcs.bufpos < Chunks
       THEN pendingcs' = [pendingcs EXCEPT !.bufpos = @ + 1]
       ELSE pendingcs' = [pendingcs EXCEPT !.status = "REQ_SUCCESS"]
    /\ UNCHANGED <<dispatcher, btcs, wire, served, fresh, completed>>

\* The connection breaks, MegaClient::disconnect() cuts it, or its certificate
\* is refused ("ssl").
HttpFails(why) ==
    /\ pendingcs.status = "REQ_INFLIGHT"
    /\ why = "ssl" => pendingcs.in = ""
    /\ pendingcs.bufpos < Chunks
    /\ pendingcs' = [pendingcs EXCEPT !.status = "REQ_FAILURE", !.in = why]
    /\ UNCHANGED <<dispatcher, btcs, wire, served, fresh, completed>>
-----------------------------------------------------------------------------
(* Clearing *)

\* Request::clear keeps the cached JSON and id: RequestSwap replaces them.
RequestClear(r) == [r EXCEPT !.cmds = <<>>]

ResetRequest ==
    /\ inflightreq' = RequestClear(inflightreq)
    /\ jsonresponse' = NoResponse
    /\ processindex' = 0
    /\ stopProcessing' = FALSE
    /\ parsed' = 0

\* RequestDispatcher::clear when no command is being processed.
DispatcherClear ==
    /\ ResetRequest
    /\ inflightFailReason' = "RETRY_NONE"
    /\ nextreqs' = <<EmptyRequest>>
    /\ processing' = FALSE
    /\ clearWhenSafe' = FALSE
    /\ completed' = <<>>

\* The end of serverresponse, servererror, serverChunk and continueProcessing,
\* once inflightreq is finished with: a postponed clear() takes place.
LeaveProcessing ==
    IF clearWhenSafe
    THEN DispatcherClear
    ELSE /\ ResetRequest
         /\ processing' = FALSE
         /\ UNCHANGED <<inflightFailReason, nextreqs, clearWhenSafe, completed>>

\* MegaClient::locallogout (and init()) outside the processing of a reply.
LocalLogout ==
    /\ ~processing
    /\ DispatcherClear
    /\ mCurrentSeqtag' = FALSE
    /\ pendingcs' = NoHttpReq
    /\ btcs' = "armed"
    /\ UNCHANGED <<reqid, wire, served, fresh>>
-----------------------------------------------------------------------------
(* The reply of a batch *)

\* "-3" and "-4" are retried, unless bytes of a chunked reply were consumed.
IsRetryReply == pendingcs.in \in {"-3", "-4"} /\ ~(pendingcs.mChunked /\ parsed > 0)

\* REQ_SUCCESS with a result array: RequestDispatcher::serverresponse starts.
\* (pendingcs is deleted, and btcs reset, when it returns: no other code runs
\* on the client thread in between.)
ServerResponse ==
    /\ ~processing
    /\ pendingcs.status = "REQ_SUCCESS"
    /\ pendingcs.in = "["
    /\ ~pendingcs.mChunked
    /\ processing' = TRUE
    /\ jsonresponse' = [kind |-> "[", cmds |-> pendingcs.results]
    /\ pendingcs' = NoHttpReq
    /\ btcs' = "armed"
    /\ UNCHANGED <<inflightreq, inflightFailReason, nextreqs, processindex,
                   stopProcessing, parsed, mCurrentSeqtag, clearWhenSafe, reqid,
                   wire, served, fresh, completed>>

\* REQ_SUCCESS with an error, or a refused certificate: servererror starts.
ServerError ==
    /\ ~processing
    /\ \/ pendingcs.status = "REQ_SUCCESS" /\ pendingcs.in = "error" /\ parsed = 0
       \/ pendingcs.status = "REQ_FAILURE" /\ pendingcs.in = "ssl"
    /\ processing' = TRUE
    /\ jsonresponse' = [kind |-> "error", cmds |-> inflightreq.cmds]
    /\ pendingcs' = NoHttpReq
    /\ UNCHANGED <<inflightreq, inflightFailReason, nextreqs, processindex,
                   stopProcessing, parsed, mCurrentSeqtag, clearWhenSafe, reqid,
                   btcs, wire, served, fresh, completed>>

\* Mutant: the reason that makes readyToSend() true is not recorded.
InflightFailure_NoReason(reason) ==
    /\ pendingcs' = NoHttpReq
    /\ btcs' = "backoff"
    /\ UNCHANGED <<inflightreq, inflightFailReason, nextreqs, request, flags, reqid,
                   wire, served, fresh, completed>>

\* RequestDispatcher::inflightFailure, from REQ_FAILURE, a retry reply or a
\* missing heartbeat.
InflightFailure(reason) ==
    /\ inflightFailReason' = reason
    /\ pendingcs' = NoHttpReq
    /\ btcs' = "backoff"
    /\ UNCHANGED <<inflightreq, nextreqs, request, flags, reqid, wire, served,
                   fresh, completed>>

ExecFailure ==
    /\ ~processing
    /\ \/ /\ pendingcs.status = "REQ_FAILURE"
          /\ pendingcs.in # "ssl"
          /\ InflightFailure("RETRY_CONNECTIVITY")
       \/ /\ pendingcs.status = "REQ_SUCCESS"
          /\ IsRetryReply
          /\ InflightFailure(IF pendingcs.in = "-3" THEN "RETRY_API_LOCK"
                                                    ELSE "RETRY_RATE_LIMIT")

\* exec(): no heartbeat before the reply started.
HeartbeatTimeout ==
    /\ ~processing
    /\ pendingcs.status = "REQ_INFLIGHT"
    /\ pendingcs.in = ""
    /\ InflightFailure("RETRY_CONNECTIVITY")
-----------------------------------------------------------------------------
(* Request::process, one iteration of its loop at a time *)

CurrentCommand == inflightreq.cmds[processindex + 1]

\* Mutant: processing goes on after a logout.
Unfinished_AfterClear == processing /\ processindex < Len(inflightreq.cmds)

Unfinished == processing /\ processindex < Len(inflightreq.cmds) /\ ~stopProcessing

Result(outcome) ==
    [cmd |-> CurrentCommand, from |-> jsonresponse.cmds[processindex + 1],
     outcome |-> outcome]

\* processSeqTag: an unknown tag suspends the loop; the command keeps its place.
PauseForSeqTag ==
    /\ Unfinished
    /\ jsonresponse.kind = "["
    /\ CurrentCommand \in SeqTagged
    /\ ~mCurrentSeqtag
    /\ mCurrentSeqtag' = TRUE
    /\ processing' = FALSE
    /\ UNCHANGED <<inflightreq, inflightFailReason, nextreqs, jsonresponse,
                   processindex, stopProcessing, parsed, clearWhenSafe, reqid,
                   pendingcs, btcs, wire, served, fresh, completed>>

\* The command's procresult runs; it may log out, whose clear() is postponed.
\* A tagged result gets here when its tag was seen, or without an sc channel.
ProcResult(logout) ==
    /\ Unfinished
    /\ logout => CurrentCommand \in LogoutInResult
    /\ mCurrentSeqtag' = FALSE
    /\ completed' = Append(completed, Result(jsonresponse.kind))
    /\ processindex' = processindex + 1
    /\ clearWhenSafe' = (clearWhenSafe \/ logout)
    /\ stopProcessing' = (stopProcessing \/ logout)
    /\ UNCHANGED <<inflightreq, inflightFailReason, nextreqs, jsonresponse,
                   parsed, processing, reqid, pendingcs, btcs, wire, served,
                   fresh>>

\* All results were handed out, or processing was stopped.
EndProcessing ==
    /\ processing
    /\ processindex = Len(inflightreq.cmds) \/ stopProcessing
    /\ LeaveProcessing
    /\ UNCHANGED <<mCurrentSeqtag, reqid, pendingcs, btcs, wire, served, fresh>>

\* RequestDispatcher::continueProcessing, called by sc_checkSequenceTag.
ContinueProcessing ==
    /\ ~processing
    /\ mCurrentSeqtag
    /\ processing' = TRUE
    /\ UNCHANGED <<inflightreq, inflightFailReason, nextreqs, request,
                   clearWhenSafe, reqid, pendingcs, btcs, wire, served, fresh,
                   completed>>
-----------------------------------------------------------------------------
(* Request::processChunk *)

\* The splitter continues where it stopped: right only if the bytes do too.
ChunkContinues == pendingcs.in = "[" /\ parsed = pendingcs.notifiedbufpos

ChunkConsumed ==
    /\ ChunkContinues
    /\ pendingcs.bufpos < Chunks
    /\ parsed' = pendingcs.bufpos
    /\ UNCHANGED <<inflightreq, jsonresponse, processindex, stopProcessing, completed>>

ChunkFinishes ==
    /\ ChunkContinues
    /\ pendingcs.bufpos = Chunks
    /\ completed' = Append(completed, [cmd |-> inflightreq.cmds[1],
                                       from |-> pendingcs.results[1],
                                       outcome |-> "["])
    /\ ResetRequest

\* Bytes that do not continue the parsed ones are malformed (the "E" filter
\* fails the fetchnodes), or are taken for nested values and ignored.
ChunkMisparsed ==
    /\ ~ChunkContinues
    /\ \/ /\ completed' = Append(completed, [cmd |-> inflightreq.cmds[1],
                                             from |-> inflightreq.cmds[1],
                                             outcome |-> "EINTERNAL"])
          /\ ResetRequest
       \/ /\ parsed' = Garbled
          /\ UNCHANGED <<inflightreq, jsonresponse, processindex, stopProcessing,
                         completed>>

ProcessChunk ==
    IF Len(inflightreq.cmds) # 1
    THEN ResetRequest /\ UNCHANGED completed
    ELSE ChunkConsumed \/ ChunkFinishes \/ ChunkMisparsed

\* exec() in REQ_INFLIGHT: new bytes of a chunked reply.
ServerChunk ==
    /\ ~processing
    /\ pendingcs.status = "REQ_INFLIGHT"
    /\ pendingcs.bufpos > pendingcs.notifiedbufpos
    /\ ProcessChunk
    /\ pendingcs' = [pendingcs EXCEPT !.notifiedbufpos = pendingcs.bufpos]
    /\ UNCHANGED <<inflightFailReason, nextreqs, mCurrentSeqtag, flags, reqid,
                   btcs, wire, served, fresh>>

\* exec() in REQ_SUCCESS: the last bytes of a chunked reply.
LastServerChunk ==
    /\ ~processing
    /\ pendingcs.status = "REQ_SUCCESS"
    /\ pendingcs.mChunked
    /\ pendingcs.in = "[" \/ parsed > 0
    /\ ProcessChunk
    /\ pendingcs' = NoHttpReq
    /\ btcs' = "armed"
    /\ UNCHANGED <<inflightFailReason, nextreqs, mCurrentSeqtag, flags, reqid,
                   wire, served, fresh>>
-----------------------------------------------------------------------------
ApiStep == \/ \E m \in wire : ApiExecutes(m)
           \/ \E m \in served : ApiReplies(m)
           \/ \E e \in {"-3", "-4", "error"} : ApiRefuses(e)
           \/ ChunkArrives
           \/ \E why \in {"network", "ssl"} : HttpFails(why)

ExecStep == \/ ServerRequest \/ BackoffExpires
            \/ ServerResponse \/ ServerError \/ ExecFailure
            \/ ServerChunk \/ LastServerChunk
            \/ PauseForSeqTag \/ EndProcessing
            \/ \E logout \in BOOLEAN : ProcResult(logout)

Next == \/ \E c \in Cmd : Add(c)
        \/ ApiStep
        \/ ExecStep
        \/ HeartbeatTimeout
        \/ ContinueProcessing
        \/ LocalLogout

Spec == Init /\ [][Next]_vars

\* The application keeps calling exec(); a post that is retried again and again
\* reaches the API and its reply, or a chunk of it, the client; the sc channel
\* catches up.
Fairness ==
    /\ WF_vars(ExecStep)
    /\ WF_vars(\E m \in wire : ApiExecutes(m))
    /\ SF_vars(\E m \in served : ApiReplies(m))
    /\ SF_vars(ChunkArrives) /\ SF_vars(ServerChunk)
    /\ WF_vars(ContinueProcessing)

FairSpec == Spec /\ Fairness
-----------------------------------------------------------------------------
Requests == [cmds : Seq(Cmd), cachedJSON : Seq(Cmd), cachedIdempotenceId : Nat]

Messages == [id : Nat, out : Seq(Cmd)]

Responses == [kind : {"none", "[", "error"}, cmds : Seq(Cmd)]

Results == [cmd : Cmd, from : Cmd, outcome : {"[", "error", "EINTERNAL"}]

HttpReqs == [status : {"null", "REQ_INFLIGHT", "REQ_SUCCESS", "REQ_FAILURE"},
             id : Nat, out : Seq(Cmd), mChunked : BOOLEAN,
             in : {"", "[", "-3", "-4", "error", "network", "ssl"},
             results : Seq(Cmd),
             bufpos : 0 .. Chunks, notifiedbufpos : 0 .. Chunks]

\* Every variable of the dispatcher, the HTTP request and the server holds a
\* value of its C++ type; nextreqs is never empty.
TypeOK ==
    /\ inflightreq \in Requests
    /\ inflightFailReason \in RetryReasons
    /\ nextreqs \in Seq(Requests) /\ nextreqs # <<>>
    /\ jsonresponse \in Responses
    /\ processindex \in Nat
    /\ stopProcessing \in BOOLEAN
    /\ parsed \in 0 .. Garbled
    /\ mCurrentSeqtag \in BOOLEAN
    /\ processing \in BOOLEAN
    /\ clearWhenSafe \in BOOLEAN
    /\ reqid \in Nat
    /\ pendingcs \in HttpReqs
    /\ btcs \in {"armed", "backoff"}
    /\ wire \subseteq Messages
    /\ served \subseteq Messages
    /\ fresh \subseteq Cmd
    /\ completed \in Seq(Results)
-----------------------------------------------------------------------------
Commands(s) == {s[i] : i \in DOMAIN s}

\* The API executes no command in two different batches, whatever posts and
\* replies get lost, delayed or repeated: a retry carries the id and the JSON of
\* the first attempt (Request::get), and a new batch a new id.
AtMostOnce ==
    \A m, n \in served : m # n => Commands(m.out) \cap Commands(n.out) = {}

\* A command is handed the result of that very command: the reply being read is
\* the reply to the batch in flight, never a late or cached one of another batch.
ResultsMatchCommands ==
    \A i \in DOMAIN completed : completed[i].cmd = completed[i].from

\* No batch exceeds MAX_COMMANDS, and a batchSeparately command travels alone,
\* however adds, sends and retries interleave (RequestDispatcher::add).
BatchLimits ==
    \A m \in wire \cup served :
        /\ Len(m.out) \in 1 .. MAX_COMMANDS
        /\ Commands(m.out) \cap BatchSeparately # {} => Len(m.out) = 1

\* Cutting the connections is semantically neutral: every result comes from the
\* API, and the splitter of a chunked reply never reads on in the wrong place.
RetriesAreNeutral ==
    /\ parsed # Garbled
    /\ \A i \in DOMAIN completed : completed[i].outcome # "EINTERNAL"
====
