----------------------- MODULE RequestDispatcher_proofs -----------------------
(* Safety of the cs channel for every set of commands, every batch capacity and *)
(* every number of chunks.                                                      *)
EXTENDS RequestDispatcher, TLAPS

Msgs == wire \cup served

\* nextreqs: batches not sent yet share no command and stay within the limits.
BatchOK(r) ==
    /\ r.cachedJSON = <<>>
    /\ Len(r.cmds) <= MAX_COMMANDS
    /\ Commands(r.cmds) \cap BatchSeparately # {} => Len(r.cmds) = 1

QueueOK(q) ==
    /\ \A i \in DOMAIN q : BatchOK(q[i])
    /\ \A i, j \in DOMAIN q : i # j => Commands(q[i].cmds) \cap Commands(q[j].cmds) = {}

LastIsOpen(q) == Commands(q[Len(q)].cmds) \cap BatchSeparately = {}

\* None of the commands cs is in the queue q or still to be created.
Unsent(cs, q, f) ==
    /\ cs \cap f = {}
    /\ \A i \in DOMAIN q : cs \cap Commands(q[i].cmds) = {}

NextInv ==
    /\ QueueOK(nextreqs)
    /\ LastIsOpen(nextreqs)
    /\ \A i \in DOMAIN nextreqs : Commands(nextreqs[i].cmds) \cap fresh = {}

\* An id stands for one batch, and a command was posted in one batch only.
MsgInv ==
    /\ \A m \in Msgs : m.id \in 1 .. reqid
    /\ \A m, n \in Msgs : m.id = n.id => m = n
    /\ \A m, n \in Msgs : m # n => Commands(m.out) \cap Commands(n.out) = {}
    /\ \A m \in Msgs : Unsent(Commands(m.out), nextreqs, fresh)

\* The batch in flight was posted, with the JSON and the id cached for it.
InflightInv ==
    inflightreq.cmds # <<>> =>
        /\ inflightreq.cachedJSON = inflightreq.cmds
        /\ [id |-> inflightreq.cachedIdempotenceId, out |-> inflightreq.cmds] \in Msgs

\* The HTTP request carries the batch in flight, and so does its reply.
ReplyInv ==
    /\ pendingcs.status # "null" /\ inflightreq.cmds # <<>> =>
           /\ pendingcs.id = inflightreq.cachedIdempotenceId
           /\ pendingcs.in = "[" => pendingcs.results = inflightreq.cmds
    /\ jsonresponse.kind # "none" /\ inflightreq.cmds # <<>> =>
           jsonresponse.cmds = inflightreq.cmds

\* Sending, processing a reply and waiting for a sequence tag exclude each other.
PhaseInv ==
    /\ processing => pendingcs.status = "null"
    /\ ~processing => ~stopProcessing
    /\ ~processing /\ inflightreq.cmds = <<>> => jsonresponse.kind = "none"
    /\ processing \/ mCurrentSeqtag => jsonresponse.kind # "none"
    /\ mCurrentSeqtag => /\ pendingcs.status = "null"
                         /\ processindex < Len(inflightreq.cmds)
                         /\ ~stopProcessing
    /\ pendingcs.status # "null" \/ processing \/ mCurrentSeqtag =>
           inflightFailReason = "RETRY_NONE"
    /\ processindex <= Len(inflightreq.cmds)

IInv ==
    /\ TypeOK /\ NextInv /\ MsgInv /\ InflightInv /\ ReplyInv /\ PhaseInv
    /\ BatchLimits /\ ResultsMatchCommands
-----------------------------------------------------------------------------
(* Queueing a command *)

\* A new open batch at the end of nextreqs keeps the queue well formed.
LEMMA OpenBatch ==
    ASSUME NEW q \in Seq(Requests), q # <<>>, QueueOK(q)
    PROVE  LET r == Append(q, EmptyRequest)
           IN  /\ r \in Seq(Requests) /\ r # <<>>
               /\ QueueOK(r)
               /\ LastIsOpen(r)
               /\ r[Len(r)].cmds = <<>>
               /\ \A i \in DOMAIN r : r[i].cmds # <<>> =>
                      i \in DOMAIN q /\ r[i] = q[i]
<1> DEFINE r == Append(q, EmptyRequest)
<1>1. EmptyRequest \in Requests /\ BatchOK(EmptyRequest) /\ Commands(EmptyRequest.cmds) = {}
  BY RequestDispatcherAssumption DEF EmptyRequest, Requests, BatchOK, Commands
<1>2. r \in Seq(Requests) /\ r # <<>> /\ Len(r) = Len(q) + 1 /\ r[Len(r)] = EmptyRequest
      /\ DOMAIN r = 1 .. Len(q) + 1 /\ DOMAIN q = 1 .. Len(q)
  BY <1>1
<1>3. \A i \in DOMAIN r : i # Len(r) => i \in DOMAIN q /\ r[i] = q[i]
  BY <1>1, <1>2
<1>4. QueueOK(r)
  BY Zenon, <1>1, <1>2, <1>3 DEF QueueOK
<1>5. LastIsOpen(r) /\ r[Len(r)].cmds = <<>>
  BY <1>1, <1>2 DEF LastIsOpen, EmptyRequest
<1> QED
  BY <1>1, <1>2, <1>3, <1>4, <1>5 DEF EmptyRequest

\* A command that no batch holds yet goes into the last batch.
LEMMA AddToLast ==
    ASSUME NEW q \in Seq(Requests), q # <<>>, QueueOK(q), LastIsOpen(q),
           NEW c \in Cmd, \A i \in DOMAIN q : c \notin Commands(q[i].cmds),
           Len(q[Len(q)].cmds) < MAX_COMMANDS,
           c \in BatchSeparately => q[Len(q)].cmds = <<>>
    PROVE  LET r == [q EXCEPT ![Len(q)] = RequestAdd(@, c)]
           IN  /\ r \in Seq(Requests) /\ r # <<>> /\ Len(r) = Len(q)
               /\ QueueOK(r)
               /\ c \notin BatchSeparately => LastIsOpen(r)
               /\ \A i \in DOMAIN r : /\ i \in DOMAIN q
                                       /\ Commands(r[i].cmds) \subseteq Commands(q[i].cmds) \cup {c}
<1> DEFINE n == Len(q)
           last == q[n]
           new == RequestAdd(last, c)
           r == [q EXCEPT ![n] = new]
<1>1. n \in DOMAIN q /\ last \in Requests /\ DOMAIN q = 1 .. n
  OBVIOUS
<1>a. last.cmds \in Seq(Cmd) /\ Len(last.cmds) \in Nat
  BY <1>1 DEF Requests
<1> HIDE DEF last
<1>2. /\ new \in Requests
      /\ new.cachedJSON = last.cachedJSON
      /\ new.cmds = Append(last.cmds, c)
  <2>1. Append(last.cmds, c) \in Seq(Cmd)
    BY <1>a
  <2>2. new \in Requests
    BY Zenon, <1>1, <2>1 DEF RequestAdd, Requests
  <2>3. new.cachedJSON = last.cachedJSON
    BY <1>1 DEF RequestAdd, Requests
  <2>4. new.cmds = Append(last.cmds, c)
    BY <1>1 DEF RequestAdd, Requests
  <2> QED
    BY <2>2, <2>3, <2>4
<1> HIDE DEF new
<1>3. Commands(new.cmds) = Commands(last.cmds) \cup {c} /\ Len(new.cmds) = Len(last.cmds) + 1
  <2>1. Append(last.cmds, c) \in Seq(Cmd) /\ Len(Append(last.cmds, c)) = Len(last.cmds) + 1
    BY <1>a
  <2>2. DOMAIN Append(last.cmds, c) = DOMAIN last.cmds \cup {Len(last.cmds) + 1}
    BY <1>a
  <2>3. /\ Append(last.cmds, c)[Len(last.cmds) + 1] = c
        /\ \A i \in DOMAIN last.cmds : Append(last.cmds, c)[i] = last.cmds[i]
    BY <1>a
  <2> QED
    BY <1>2, <2>1, <2>2, <2>3 DEF Commands
<1>4. BatchOK(new)
  <2>1. BatchOK(last) /\ Commands(last.cmds) \cap BatchSeparately = {}
    BY <1>1 DEF QueueOK, LastIsOpen, last
  <2>2. Len(new.cmds) <= MAX_COMMANDS
    BY <1>a, <1>3, RequestDispatcherAssumption DEF last
  <2>3. Commands(new.cmds) \cap BatchSeparately # {} => Len(new.cmds) = 1
    BY <1>a, <1>3, <2>1 DEF last
  <2> QED
    BY <1>2, <2>1, <2>2, <2>3 DEF BatchOK
<1>5. /\ r \in Seq(Requests) /\ r # <<>> /\ Len(r) = n /\ DOMAIN r = DOMAIN q
      /\ r[n] = new
      /\ \A i \in DOMAIN q : i # n => r[i] = q[i]
  BY <1>1, <1>2 DEF last, new
<1> HIDE DEF r
<1>6. QueueOK(r)
  <2>1. ASSUME NEW i \in DOMAIN r PROVE BatchOK(r[i])
    BY <1>4, <1>5 DEF QueueOK
  <2>2. ASSUME NEW i \in DOMAIN r, NEW j \in DOMAIN r, i # j
        PROVE  Commands(r[i].cmds) \cap Commands(r[j].cmds) = {}
    <3>1. c \notin Commands(q[i].cmds) /\ c \notin Commands(q[j].cmds)
          /\ Commands(q[i].cmds) \cap Commands(q[j].cmds) = {}
      BY Zenon, <1>5, <2>2 DEF QueueOK
    <3>2. CASE i = n
      BY <1>3, <1>5, <2>2, <3>1, <3>2 DEF last
    <3>3. CASE j = n
      BY <1>3, <1>5, <2>2, <3>1, <3>3 DEF last
    <3>4. CASE i # n /\ j # n
      BY <1>5, <3>1, <3>4
    <3> QED
      BY <3>2, <3>3, <3>4
  <2> QED
    BY Zenon, <2>1, <2>2 DEF QueueOK
<1>7. c \notin BatchSeparately => LastIsOpen(r)
  BY <1>1, <1>3, <1>5 DEF LastIsOpen, last
<1>8. \A i \in DOMAIN r : /\ i \in DOMAIN q
                          /\ Commands(r[i].cmds) \subseteq Commands(q[i].cmds) \cup {c}
  BY Zenon, <1>3, <1>5 DEF last
<1> QED
  BY <1>5, <1>6, <1>7, <1>8 DEF r, new, last

\* RequestDispatcher::add keeps the queue well formed, and the commands queued
\* after it are those queued before and the new one.
LEMMA QueueAfterAddOK ==
    ASSUME NEW q \in Seq(Requests), q # <<>>, QueueOK(q), LastIsOpen(q),
           NEW c \in Cmd, \A i \in DOMAIN q : c \notin Commands(q[i].cmds)
    PROVE  LET r == QueueAfterAdd(q, c)
           IN  /\ r \in Seq(Requests) /\ r # <<>>
               /\ QueueOK(r) /\ LastIsOpen(r)
               /\ \A i \in DOMAIN r : \A d \in Commands(r[i].cmds) :
                      d = c \/ \E k \in DOMAIN q : d \in Commands(q[k].cmds)
<1> DEFINE q1 == IF Len(q[Len(q)].cmds) >= MAX_COMMANDS THEN Append(q, EmptyRequest) ELSE q
           q2 == IF c \in BatchSeparately /\ q1[Len(q1)].cmds # <<>>
                 THEN Append(q1, EmptyRequest) ELSE q1
           q3 == [q2 EXCEPT ![Len(q2)] = RequestAdd(@, c)]
           Good(r) == /\ r \in Seq(Requests) /\ r # <<>> /\ QueueOK(r)
                      /\ \A i \in DOMAIN r : \A d \in Commands(r[i].cmds) :
                            d = c \/ \E k \in DOMAIN q : d \in Commands(q[k].cmds)
           Without(r) == \A i \in DOMAIN r : c \notin Commands(r[i].cmds)
<1>0. Commands(<<>>) = {}
  BY DEF Commands
<1>1. ASSUME NEW r, Good(r)
      PROVE  LET s == Append(r, EmptyRequest)
             IN  Good(s) /\ LastIsOpen(s) /\ s[Len(s)].cmds = <<>> /\ (Without(r) => Without(s))
  <2> DEFINE s == Append(r, EmptyRequest)
  <2>1. /\ s \in Seq(Requests) /\ s # <<>> /\ QueueOK(s) /\ LastIsOpen(s)
        /\ s[Len(s)].cmds = <<>>
        /\ \A i \in DOMAIN s : s[i].cmds # <<>> => i \in DOMAIN r /\ s[i] = r[i]
    BY <1>1, OpenBatch
  <2>2. \A i \in DOMAIN s : \A d \in Commands(s[i].cmds) :
            i \in DOMAIN r /\ d \in Commands(r[i].cmds)
    BY <1>0, <2>1
  <2> QED
    BY ZenonT(30), <1>1, <2>1, <2>2
<1>2. Good(q) /\ Without(q)
  BY Zenon
<1>3. Good(q1) /\ Without(q1) /\ LastIsOpen(q1) /\ Len(q1[Len(q1)].cmds) < MAX_COMMANDS
  <2>1. CASE Len(q[Len(q)].cmds) >= MAX_COMMANDS
    BY <1>1, <1>2, <2>1, RequestDispatcherAssumption
  <2>2. CASE ~(Len(q[Len(q)].cmds) >= MAX_COMMANDS)
    <3>1. Len(q[Len(q)].cmds) \in Nat
      BY DEF Requests
    <3> QED
      BY <1>2, <2>2, <3>1, RequestDispatcherAssumption
  <2> QED
    BY Zenon, <2>1, <2>2
<1>4. /\ Good(q2) /\ Without(q2) /\ LastIsOpen(q2) /\ Len(q2[Len(q2)].cmds) < MAX_COMMANDS
      /\ c \in BatchSeparately => q2[Len(q2)].cmds = <<>>
  <2>1. CASE c \in BatchSeparately /\ q1[Len(q1)].cmds # <<>>
    <3>1. q2 = Append(q1, EmptyRequest)
      BY <2>1
    <3> HIDE DEF q1, q2
    <3>2. Good(q2) /\ Without(q2) /\ LastIsOpen(q2) /\ q2[Len(q2)].cmds = <<>>
      BY Zenon, <1>1, <1>3, <3>1
    <3> QED
      BY <3>2, RequestDispatcherAssumption
  <2>2. CASE ~(c \in BatchSeparately /\ q1[Len(q1)].cmds # <<>>)
    BY Zenon, <1>3, <2>2
  <2> QED
    BY Zenon, <2>1, <2>2
<1> HIDE DEF q1, q2
<1>5. Good(q3) /\ (c \notin BatchSeparately => LastIsOpen(q3))
  <2>1. /\ q3 \in Seq(Requests) /\ q3 # <<>> /\ Len(q3) = Len(q2)
        /\ QueueOK(q3)
        /\ c \notin BatchSeparately => LastIsOpen(q3)
        /\ \A i \in DOMAIN q3 : /\ i \in DOMAIN q2
                                 /\ Commands(q3[i].cmds) \subseteq Commands(q2[i].cmds) \cup {c}
    BY Zenon, <1>4, AddToLast
  <2> HIDE DEF q3
  <2> QED
    BY Zenon, <1>4, <2>1
<1> HIDE DEF q3
<1>6. QueueAfterAdd(q, c) = IF c \in BatchSeparately THEN Append(q3, EmptyRequest) ELSE q3
  BY DEF QueueAfterAdd, q1, q2, q3
<1>7. CASE c \in BatchSeparately
  BY Zenon, <1>1, <1>5, <1>6, <1>7
<1>8. CASE c \notin BatchSeparately
  BY <1>5, <1>6, <1>8
<1> QED
  BY <1>7, <1>8
-----------------------------------------------------------------------------
(* The types *)

\* The constants that stand for "none" have the types of the C++ members.
LEMMA ConstantTypes ==
    /\ EmptyRequest \in Requests
    /\ NoResponse \in Responses
    /\ NoHttpReq \in HttpReqs
    /\ RetryReasons = {"RETRY_NONE", "RETRY_CONNECTIVITY", "RETRY_API_LOCK", "RETRY_RATE_LIMIT"}
<1>1. EmptyRequest \in Requests
  BY DEF EmptyRequest, Requests
<1>2. NoResponse \in Responses
  BY DEF NoResponse, Responses
<1>3. NoHttpReq \in HttpReqs
  BY RequestDispatcherAssumption DEF NoHttpReq, HttpReqs
<1> QED
  BY <1>1, <1>2, <1>3 DEF RetryReasons, RETRY_API

\* The initial state is well typed and satisfies the inductive invariant.
LEMMA InitOK == Init => IInv
<1> SUFFICES ASSUME Init PROVE IInv
  OBVIOUS
<1> USE RequestDispatcherAssumption DEF Init
<1>1. EmptyRequest \in Requests /\ Commands(<<>>) = {}
  BY DEF EmptyRequest, Requests, Commands
<1>2. TypeOK
  <2>1. /\ inflightreq \in Requests /\ inflightFailReason \in RetryReasons
        /\ nextreqs \in Seq(Requests) /\ nextreqs # <<>>
    BY ConstantTypes
  <2>2. jsonresponse \in Responses /\ pendingcs \in HttpReqs
    BY ConstantTypes
  <2>3. processindex \in Nat /\ parsed \in 0 .. Garbled /\ reqid \in Nat
    BY DEF Garbled
  <2>4. completed \in Seq(Results)
    OBVIOUS
  <2>5. /\ stopProcessing \in BOOLEAN /\ mCurrentSeqtag \in BOOLEAN
        /\ processing \in BOOLEAN /\ clearWhenSafe \in BOOLEAN
    BY Zenon
  <2>6. /\ btcs \in {"armed", "backoff"}
        /\ wire \subseteq Messages /\ served \subseteq Messages /\ fresh \subseteq Cmd
    OBVIOUS
  <2> QED
    BY <2>1, <2>2, <2>3, <2>4, <2>5, <2>6 DEF TypeOK
<1>3. NextInv
  BY <1>1 DEF NextInv, QueueOK, BatchOK, LastIsOpen, EmptyRequest
<1>4. MsgInv /\ InflightInv /\ BatchLimits /\ ResultsMatchCommands
  BY DEF MsgInv, Msgs, InflightInv, EmptyRequest, BatchLimits, ResultsMatchCommands
<1>5. ReplyInv /\ PhaseInv
  <2>1. pendingcs.status = "null" /\ jsonresponse.kind = "none"
    BY DEF NoHttpReq, NoResponse
  <2>2. processindex <= Len(inflightreq.cmds)
    BY DEF EmptyRequest
  <2> QED
    BY <2>1, <2>2 DEF ReplyInv, PhaseInv
<1> QED
  BY <1>2, <1>3, <1>4, <1>5 DEF IInv

\* Wiping the batch in flight leaves well typed values.
LEMMA ResetRequestType ==
    ASSUME TypeOK, ResetRequest
    PROVE  /\ inflightreq' \in Requests /\ inflightreq'.cmds = <<>>
           /\ jsonresponse' = NoResponse
           /\ jsonresponse' \in Responses
           /\ processindex' = 0 /\ stopProcessing' = FALSE /\ parsed' \in 0 .. Garbled
<1>0. inflightreq \in Requests /\ <<>> \in Seq(Cmd)
  BY DEF TypeOK
<1>1. RequestClear(inflightreq) \in Requests
  BY Zenon, <1>0 DEF RequestClear, Requests
<1>2. RequestClear(inflightreq).cmds = <<>>
  BY <1>0 DEF RequestClear, Requests
<1> QED
  BY <1>1, <1>2, ConstantTypes, RequestDispatcherAssumption DEF ResetRequest, Garbled

\* Processing a chunk: well typed values, and results that match their commands.
LEMMA ProcessChunkType ==
    ASSUME IInv, ProcessChunk, pendingcs.status # "null"
    PROVE  /\ inflightreq' \in Requests /\ jsonresponse' \in Responses
           /\ processindex' \in Nat /\ stopProcessing' \in BOOLEAN
           /\ parsed' \in 0 .. Garbled /\ completed' \in Seq(Results)
           /\ ResultsMatchCommands'
           /\ ResetRequest \/ UNCHANGED <<inflightreq, jsonresponse, processindex, stopProcessing>>
<1> USE RequestDispatcherAssumption
<1>0. TypeOK /\ ResultsMatchCommands /\ completed \in Seq(Results)
  BY DEF IInv, TypeOK
<1>1. ASSUME NEW r \in Results, r.cmd = r.from, completed' = Append(completed, r)
      PROVE  completed' \in Seq(Results) /\ ResultsMatchCommands'
  BY <1>0, <1>1 DEF ResultsMatchCommands
<1>2. ASSUME UNCHANGED completed
      PROVE  completed' \in Seq(Results) /\ ResultsMatchCommands'
  BY <1>0, <1>2 DEF ResultsMatchCommands
<1>3. CASE Len(inflightreq.cmds) # 1
  <2>1. ResetRequest /\ UNCHANGED completed
    BY <1>3 DEF ProcessChunk
  <2> QED
    BY <1>0, <1>2, <2>1, ResetRequestType
<1>4. CASE Len(inflightreq.cmds) = 1
  <2>a. inflightreq.cmds \in Seq(Cmd)
    <3>1. inflightreq \in Requests
      BY <1>0 DEF TypeOK
    <3> QED
      BY <3>1 DEF Requests
  <2>0. inflightreq.cmds \in Seq(Cmd) /\ inflightreq.cmds[1] \in Cmd /\ inflightreq.cmds # <<>>
    <3> DEFINE cs == inflightreq.cmds
    <3> HIDE DEF cs
    <3>1. cs \in Seq(Cmd) /\ Len(cs) = 1
      BY <1>4, <2>a DEF cs
    <3>2. cs[1] \in Cmd /\ cs # <<>>
      BY <3>1
    <3> QED
      BY <3>1, <3>2 DEF cs
  <2>1. CASE ChunkConsumed
    <3>1. parsed' \in 0 .. Garbled
      <4>1. pendingcs \in HttpReqs
        BY <1>0 DEF TypeOK
      <4>2. pendingcs.bufpos \in 0 .. Chunks
        BY <4>1 DEF HttpReqs
      <4> QED
        BY <2>1, <4>2 DEF ChunkConsumed, Garbled
    <3> QED
      BY <1>0, <1>2, <2>1, <3>1 DEF ChunkConsumed, TypeOK
  <2>2. CASE ChunkFinishes
    <3>1. pendingcs.results = inflightreq.cmds
      BY <2>0, <2>2 DEF IInv, ReplyInv, ChunkFinishes, ChunkContinues
    <3> DEFINE r == [cmd |-> inflightreq.cmds[1], from |-> pendingcs.results[1], outcome |-> "["]
    <3>2. r \in Results /\ r.cmd = r.from
      BY <2>0, <3>1 DEF Results
    <3>3. completed' = Append(completed, r) /\ ResetRequest
      BY <2>2 DEF ChunkFinishes
    <3> HIDE DEF r
    <3> QED
      BY <1>0, <1>1, <3>2, <3>3, ResetRequestType
  <2>3. CASE ChunkMisparsed
    <3> DEFINE r == [cmd |-> inflightreq.cmds[1], from |-> inflightreq.cmds[1],
                     outcome |-> "EINTERNAL"]
    <3>1. r \in Results /\ r.cmd = r.from
      BY Zenon, <2>0 DEF Results
    <3>2. CASE completed' = Append(completed, r) /\ ResetRequest
      <4> HIDE DEF r
      <4> QED
        BY <1>0, <1>1, <3>1, <3>2, ResetRequestType
    <3>3. CASE parsed' = Garbled /\ UNCHANGED <<inflightreq, jsonresponse, processindex,
                                                stopProcessing, completed>>
      BY <1>0, <1>2, <3>3 DEF TypeOK, Garbled
    <3> QED
      BY <2>3, <3>2, <3>3 DEF ChunkMisparsed
  <2> QED
    BY <1>4, <2>1, <2>2, <2>3 DEF ProcessChunk
<1>5. Len(inflightreq.cmds) \in Nat
  BY <1>0 DEF TypeOK, Requests
<1> QED
  BY <1>3, <1>4

\* nextreqs without its first batch.
LEMMA PopFrontOK ==
    ASSUME NEW q \in Seq(Requests), q # <<>>
    PROVE  /\ PopFront(q) \in Seq(Requests) /\ PopFront(q) # <<>>
           /\ \/ PopFront(q) = <<EmptyRequest>>
              \/ /\ Len(PopFront(q)) = Len(q) - 1
                 /\ \A i \in DOMAIN PopFront(q) : i + 1 \in DOMAIN q /\ PopFront(q)[i] = q[i + 1]
<1>1. CASE Len(q) = 1
  BY <1>1, ConstantTypes DEF PopFront
<1>2. CASE Len(q) # 1
  <2>1. PopFront(q) = Tail(q) /\ Len(q) > 1
    BY <1>2 DEF PopFront
  <2>2. Tail(q) \in Seq(Requests) /\ Len(Tail(q)) = Len(q) - 1
    BY <2>1
  <2>3. \A i \in DOMAIN Tail(q) : i + 1 \in DOMAIN q /\ Tail(q)[i] = q[i + 1]
    BY <2>1, <2>2
  <2>4. Tail(q) # <<>>
    BY <2>1, <2>2
  <2> QED
    BY Zenon, <2>1, <2>2, <2>3, <2>4
<1> QED
  BY <1>1, <1>2

\* serverrequest posts the batch in flight again, as it was, or the first batch
\* of nextreqs under a new id.
LEMMA ServerRequestSends ==
    ASSUME IInv, ServerRequest
    PROVE  LET msg == [id |-> inflightreq'.cachedIdempotenceId, out |-> inflightreq'.cmds]
           IN  /\ inflightreq' \in Requests /\ inflightreq'.cmds # <<>>
               /\ inflightreq'.cachedJSON = inflightreq'.cmds
               /\ nextreqs' \in Seq(Requests) /\ nextreqs' # <<>>
               /\ reqid' \in Nat
               /\ pendingcs' \in HttpReqs
               /\ pendingcs'.id = inflightreq'.cachedIdempotenceId /\ pendingcs'.in = ""
               /\ msg \in Messages
               /\ wire' = wire \cup {msg} /\ wire' \subseteq Messages
               /\ \/ /\ inflightreq' = inflightreq /\ nextreqs' = nextreqs /\ reqid' = reqid
                     /\ msg \in Msgs
                  \/ /\ inflightreq.cmds = <<>>
                     /\ inflightreq'.cmds = nextreqs[1].cmds
                     /\ nextreqs' = PopFront(nextreqs)
                     /\ reqid' = reqid + 1 /\ inflightreq'.cachedIdempotenceId = reqid'
<1> DEFINE retry == inflightreq.cmds # <<>> /\ inflightFailReason # "RETRY_NONE"
           taken == IF retry THEN inflightreq ELSE RequestSwap(inflightreq, nextreqs[1])
           sent == RequestGet(taken, reqid)
           msg == [id |-> sent.cachedIdempotenceId, out |-> sent.cmds]
<1>0. /\ inflightreq \in Requests /\ nextreqs \in Seq(Requests) /\ nextreqs # <<>>
      /\ reqid \in Nat /\ wire \subseteq Messages
  BY DEF IInv, TypeOK
<1>1. /\ ReadyToSend
      /\ inflightreq' = sent
      /\ reqid' = IF sent.cachedIdempotenceId = reqid + 1 THEN reqid + 1 ELSE reqid
      /\ nextreqs' = IF retry THEN nextreqs ELSE PopFront(nextreqs)
      /\ pendingcs' = [NoHttpReq EXCEPT !.status = "REQ_INFLIGHT",
                                        !.id = sent.cachedIdempotenceId,
                                        !.out = sent.cachedJSON,
                                        !.mChunked = IsFetchNodes(sent)]
      /\ wire' = wire \cup {[id |-> sent.cachedIdempotenceId, out |-> sent.cachedJSON]}
  BY DEF ServerRequest
<1>2. nextreqs[1] \in Requests /\ nextreqs[1].cachedJSON = <<>>
  BY <1>0 DEF IInv, NextInv, QueueOK, BatchOK
<1>5. ASSUME sent \in Requests, sent.cachedJSON = sent.cmds
      PROVE  /\ msg \in Messages /\ wire' = wire \cup {msg} /\ wire' \subseteq Messages
             /\ pendingcs' \in HttpReqs
             /\ pendingcs'.id = sent.cachedIdempotenceId /\ pendingcs'.in = ""
  <2> HIDE DEF sent
  <2>1. sent.cmds \in Seq(Cmd) /\ sent.cachedIdempotenceId \in Nat /\ IsFetchNodes(sent) \in BOOLEAN
    BY <1>5 DEF Requests, IsFetchNodes
  <2>2. msg \in Messages /\ wire' = wire \cup {msg} /\ wire' \subseteq Messages
    BY <1>0, <1>1, <1>5, <2>1 DEF Messages
  <2>3. pendingcs' \in HttpReqs
    BY <1>1, <1>5, <2>1, ConstantTypes DEF HttpReqs
  <2>4. pendingcs'.id = sent.cachedIdempotenceId /\ pendingcs'.in = ""
    BY <1>1 DEF NoHttpReq
  <2> QED
    BY <2>2, <2>3, <2>4
<1>3. CASE retry
  <2>1. /\ inflightreq.cachedJSON = inflightreq.cmds /\ inflightreq.cmds # <<>>
        /\ [id |-> inflightreq.cachedIdempotenceId, out |-> inflightreq.cmds] \in Msgs
    BY <1>3 DEF IInv, InflightInv
  <2>2. sent = inflightreq
    BY <1>3, <2>1 DEF RequestGet
  <2>3. inflightreq.cachedIdempotenceId \in 1 .. reqid
    BY <2>1 DEF IInv, MsgInv
  <2>4. reqid' = reqid
    BY <1>0, <1>1, <2>2, <2>3
  <2>5. nextreqs' = nextreqs
    BY <1>1, <1>3
  <2> HIDE DEF retry, sent
  <2> QED
    BY <1>0, <1>1, <1>5, <2>1, <2>2, <2>4, <2>5
<1>4. CASE ~retry
  <2>1. inflightreq.cmds = <<>> /\ nextreqs[1].cmds # <<>>
    BY <1>1, <1>4 DEF ReadyToSend
  <2>2. taken = RequestSwap(inflightreq, nextreqs[1])
    BY <1>4
  <2> HIDE DEF retry, taken
  <2>3. /\ taken \in Requests
        /\ taken.cmds = nextreqs[1].cmds /\ taken.cachedJSON = <<>>
    BY Zenon, <1>0, <1>2, <2>2 DEF RequestSwap, Requests
  <2>4. sent = [taken EXCEPT !.cachedJSON = taken.cmds, !.cachedIdempotenceId = reqid + 1]
    BY <2>3 DEF RequestGet
  <2> HIDE DEF sent
  <2>5. sent \in Requests
    <3>1. taken.cmds \in Seq(Cmd)
      BY <2>3 DEF Requests
    <3>2. reqid + 1 \in Nat
      BY <1>0
    <3> QED
      BY Zenon, <2>3, <2>4, <3>1, <3>2 DEF Requests
  <2>6. /\ sent.cmds = nextreqs[1].cmds /\ sent.cachedJSON = sent.cmds
        /\ sent.cachedIdempotenceId = reqid + 1
    BY <2>3, <2>4 DEF Requests
  <2>7. nextreqs' = PopFront(nextreqs) /\ reqid' = reqid + 1
    BY <1>1, <1>4, <2>6
  <2>8. PopFront(nextreqs) \in Seq(Requests) /\ PopFront(nextreqs) # <<>>
    BY <1>0, PopFrontOK
  <2>9. /\ msg \in Messages /\ wire' = wire \cup {msg} /\ wire' \subseteq Messages
        /\ pendingcs' \in HttpReqs
        /\ pendingcs'.id = sent.cachedIdempotenceId /\ pendingcs'.in = ""
    BY <1>5, <2>5, <2>6
  <2>10. inflightreq' = sent /\ reqid' \in Nat
    BY <1>0, <1>1, <2>7
  <2> QED
    BY <2>1, <2>5, <2>6, <2>7, <2>8, <2>9, <2>10
<1> QED
  BY <1>3, <1>4

\* Every step of the cs channel preserves the types.
LEMMA TypeStep == ASSUME IInv, Next PROVE TypeOK'
<1> USE RequestDispatcherAssumption
<1>0. TypeOK
  BY DEF IInv
<1>1. ASSUME NEW c \in Cmd, Add(c) PROVE TypeOK'
  <2>1. nextreqs' \in Seq(Requests) /\ nextreqs' # <<>>
    BY Zenon, <1>1, QueueAfterAddOK DEF IInv, TypeOK, NextInv, Add, Commands
  <2> QED
    BY <1>0, <1>1, <2>1 DEF TypeOK, Add, request, flags
<1>2. CASE ServerRequest
  <2>1. /\ inflightreq' \in Requests
        /\ nextreqs' \in Seq(Requests) /\ nextreqs' # <<>>
        /\ reqid' \in Nat
        /\ pendingcs' \in HttpReqs
        /\ wire' \subseteq Messages
    BY <1>2, ServerRequestSends
  <2>2. inflightFailReason' \in RetryReasons
    BY <1>2, ConstantTypes DEF ServerRequest
  <2>3. UNCHANGED <<request, flags, btcs, served, fresh, completed>>
    BY <1>2 DEF ServerRequest
  <2> QED
    BY <1>0, <2>1, <2>2, <2>3 DEF TypeOK, request, flags
<1>3. CASE BackoffExpires
  BY <1>0, <1>3 DEF TypeOK, BackoffExpires, request, flags
<1>4. ASSUME NEW m \in wire, ApiExecutes(m) PROVE TypeOK'
  BY <1>0, <1>4 DEF TypeOK, ApiExecutes, dispatcher, request, flags
<1>5. ASSUME NEW m \in served, ApiReplies(m) PROVE TypeOK'
  <2>1. m.out \in Seq(Cmd)
    BY <1>0 DEF TypeOK, Messages
  <2>2. pendingcs' \in HttpReqs
    BY <1>0, <1>5, <2>1 DEF TypeOK, ApiReplies, HttpReqs
  <2> QED
    BY <1>0, <1>5, <2>2 DEF TypeOK, ApiReplies, dispatcher, request, flags
<1>6. ASSUME NEW e \in {"-3", "-4", "error"}, ApiRefuses(e) PROVE TypeOK'
  <2>1. pendingcs' \in HttpReqs
    BY <1>0, <1>6 DEF TypeOK, ApiRefuses, HttpReqs
  <2> QED
    BY <1>0, <1>6, <2>1 DEF TypeOK, ApiRefuses, dispatcher, request, flags
<1>7. CASE ChunkArrives
  <2>1. pendingcs' \in HttpReqs
    <3>1. CASE pendingcs.bufpos < Chunks
      <4>1. pendingcs' = [pendingcs EXCEPT !.bufpos = @ + 1]
        BY <1>7, <3>1 DEF ChunkArrives
      <4>2. pendingcs \in HttpReqs
        BY <1>0 DEF TypeOK
      <4>3. pendingcs.bufpos \in 0 .. Chunks
        BY <4>2 DEF HttpReqs
      <4>4. pendingcs.bufpos + 1 \in 0 .. Chunks
        BY <3>1, <4>3
      <4> QED
        BY <4>1, <4>2, <4>4 DEF HttpReqs
    <3>2. CASE ~(pendingcs.bufpos < Chunks)
      <4>1. pendingcs' = [pendingcs EXCEPT !.status = "REQ_SUCCESS"]
        BY <1>7, <3>2 DEF ChunkArrives
      <4> QED
        BY <1>0, <4>1 DEF TypeOK, HttpReqs
    <3> QED
      BY <3>1, <3>2
  <2> QED
    BY <1>0, <1>7, <2>1 DEF TypeOK, ChunkArrives, dispatcher, request, flags
<1>8. ASSUME NEW why \in {"network", "ssl"}, HttpFails(why) PROVE TypeOK'
  <2>1. pendingcs' \in HttpReqs
    BY <1>0, <1>8 DEF TypeOK, HttpFails, HttpReqs
  <2> QED
    BY <1>0, <1>8, <2>1 DEF TypeOK, HttpFails, dispatcher, request, flags
<1>9. CASE ServerResponse
  <2>1. jsonresponse' \in Responses
    BY <1>0, <1>9 DEF TypeOK, ServerResponse, HttpReqs, Responses
  <2> QED
    BY Zenon, <1>0, <1>9, <2>1, ConstantTypes DEF TypeOK, ServerResponse
<1>10. CASE ServerError
  <2>1. jsonresponse' \in Responses
    BY Zenon, <1>0, <1>10 DEF TypeOK, ServerError, Requests, Responses
  <2> QED
    BY Zenon, <1>0, <1>10, <2>1, ConstantTypes DEF TypeOK, ServerError
<1>11. CASE ExecFailure \/ HeartbeatTimeout
  <2>1. PICK reason \in RetryReasons : InflightFailure(reason)
    BY <1>11, ConstantTypes DEF ExecFailure, HeartbeatTimeout
  <2> QED
    BY <1>0, <2>1, ConstantTypes DEF TypeOK, InflightFailure, request, flags
<1>12. CASE PauseForSeqTag
  BY Zenon, <1>0, <1>12 DEF TypeOK, PauseForSeqTag
<1>14. CASE ContinueProcessing
  BY <1>0, <1>14 DEF TypeOK, ContinueProcessing, request
<1>15. CASE LocalLogout
  <2>1. ResetRequest /\ pendingcs' = NoHttpReq /\ btcs' = "armed" /\ mCurrentSeqtag' = FALSE
    BY <1>15 DEF LocalLogout, DispatcherClear
  <2>2. inflightreq' \in Requests /\ jsonresponse' \in Responses /\ processindex' \in Nat
        /\ stopProcessing' \in BOOLEAN /\ parsed' \in 0 .. Garbled
    BY <1>0, <2>1, ResetRequestType
  <2>3. nextreqs' \in Seq(Requests) /\ nextreqs' # <<>> /\ completed' \in Seq(Results)
    BY <1>15, ConstantTypes DEF LocalLogout, DispatcherClear
  <2> QED
    BY Zenon, <1>0, <1>15, <2>1, <2>2, <2>3, ConstantTypes DEF TypeOK, LocalLogout, DispatcherClear
<1>16. CASE EndProcessing
  <2>1. ResetRequest
    BY <1>16 DEF EndProcessing, LeaveProcessing, DispatcherClear
  <2>2. inflightreq' \in Requests /\ jsonresponse' \in Responses /\ processindex' \in Nat
        /\ stopProcessing' \in BOOLEAN /\ parsed' \in 0 .. Garbled
    BY <1>0, <2>1, ResetRequestType
  <2>3. CASE clearWhenSafe
    <3>1. nextreqs' = <<EmptyRequest>> /\ completed' = <<>>
      BY <1>16, <2>3 DEF EndProcessing, LeaveProcessing, DispatcherClear
    <3>2. nextreqs' \in Seq(Requests) /\ nextreqs' # <<>> /\ completed' \in Seq(Results)
      BY <3>1, ConstantTypes
    <3> QED
      BY Zenon, <1>0, <1>16, <2>2, <2>3, <3>2, ConstantTypes
         DEF TypeOK, EndProcessing, LeaveProcessing, DispatcherClear
  <2>4. CASE ~clearWhenSafe
    BY Zenon, <1>0, <1>16, <2>2, <2>4 DEF TypeOK, EndProcessing, LeaveProcessing
  <2> QED
    BY <2>3, <2>4
<1>17. ASSUME NEW logout \in BOOLEAN, ProcResult(logout) PROVE TypeOK'
  <2>1. /\ processindex + 1 \in DOMAIN inflightreq.cmds
        /\ jsonresponse.cmds = inflightreq.cmds
        /\ jsonresponse.kind \in {"[", "error"}
    BY <1>0, <1>17 DEF IInv, TypeOK, PhaseInv, ReplyInv, ProcResult, Unfinished,
                       Requests, Responses
  <2>2. Result(jsonresponse.kind) \in Results
    <3>1. inflightreq.cmds \in Seq(Cmd)
      BY <1>0 DEF TypeOK, Requests
    <3>2. inflightreq.cmds[processindex + 1] \in Cmd
      BY <2>1, <3>1
    <3> QED
      BY Zenon, <2>1, <3>2 DEF Result, CurrentCommand, Results
  <2>3. completed' \in Seq(Results) /\ processindex' \in Nat
    BY <1>0, <1>17, <2>2 DEF TypeOK, ProcResult
  <2>4. clearWhenSafe' \in BOOLEAN /\ stopProcessing' \in BOOLEAN /\ mCurrentSeqtag' \in BOOLEAN
    BY Zenon, <1>17 DEF ProcResult
  <2> QED
    BY Zenon, <1>0, <1>17, <2>3, <2>4 DEF TypeOK, ProcResult
<1>18. CASE ServerChunk \/ LastServerChunk
  <2>1. /\ inflightreq' \in Requests /\ jsonresponse' \in Responses
        /\ processindex' \in Nat /\ stopProcessing' \in BOOLEAN
        /\ parsed' \in 0 .. Garbled /\ completed' \in Seq(Results)
    BY <1>0, <1>18, ProcessChunkType DEF IInv, ServerChunk, LastServerChunk
  <2>2. pendingcs' \in HttpReqs /\ btcs' \in {"armed", "backoff"}
    <3>1. CASE ServerChunk
      BY <1>0, <3>1 DEF TypeOK, ServerChunk, HttpReqs
    <3>2. CASE LastServerChunk
      BY <1>0, <3>2, ConstantTypes DEF TypeOK, LastServerChunk
    <3> QED
      BY <1>18, <3>1, <3>2
  <2>3. UNCHANGED <<inflightFailReason, nextreqs, mCurrentSeqtag, flags, reqid,
                    wire, served, fresh>>
    BY <1>18 DEF ServerChunk, LastServerChunk
  <2> QED
    BY <1>0, <2>1, <2>2, <2>3 DEF TypeOK, flags
<1> QED
  BY <1>1, <1>2, <1>3, <1>4, <1>5, <1>6, <1>7, <1>8, <1>9, <1>10, <1>11, <1>12, <1>14,
     <1>15, <1>16, <1>17, <1>18 DEF Next, ApiStep, ExecStep
-----------------------------------------------------------------------------
(* What is queued and what was posted *)

\* Which steps change nextreqs, fresh, the posts and the ids.
MsgFrame == UNCHANGED <<nextreqs, fresh, wire, served, reqid>>

QueueCleared == nextreqs' = <<EmptyRequest>> /\ UNCHANGED <<fresh, wire, served, reqid>>

\* Only add, serverrequest, a clear and the API change the queue or the posts.
LEMMA Frames ==
    ASSUME Next
    PROVE  \/ \E c \in Cmd : Add(c)
           \/ ServerRequest
           \/ \E m \in wire : ApiExecutes(m)
           \/ QueueCleared
           \/ MsgFrame
<1>1. ASSUME NEW m \in served, ApiReplies(m) PROVE MsgFrame
  BY <1>1 DEF ApiReplies, dispatcher, MsgFrame
<1>2. ASSUME NEW e \in {"-3", "-4", "error"}, ApiRefuses(e) PROVE MsgFrame
  BY <1>2 DEF ApiRefuses, dispatcher, MsgFrame
<1>3. ASSUME NEW why \in {"network", "ssl"}, HttpFails(why) PROVE MsgFrame
  BY <1>3 DEF HttpFails, dispatcher, MsgFrame
<1>4. ChunkArrives => MsgFrame
  BY DEF ChunkArrives, dispatcher, MsgFrame
<1>5. BackoffExpires \/ ServerResponse \/ ServerError \/ PauseForSeqTag \/ ContinueProcessing
      => MsgFrame
  BY Zenon DEF BackoffExpires, ServerResponse, ServerError, PauseForSeqTag, ContinueProcessing,
         MsgFrame
<1>6. ExecFailure \/ HeartbeatTimeout => MsgFrame
  BY DEF ExecFailure, HeartbeatTimeout, InflightFailure, MsgFrame
<1>7. ServerChunk \/ LastServerChunk => MsgFrame
  BY DEF ServerChunk, LastServerChunk, MsgFrame
<1>8. ASSUME NEW logout \in BOOLEAN, ProcResult(logout) PROVE MsgFrame
  BY <1>8 DEF ProcResult, MsgFrame
<1>9. LocalLogout => QueueCleared
  BY DEF LocalLogout, DispatcherClear, QueueCleared
<1>10. EndProcessing => QueueCleared \/ MsgFrame
  BY DEF EndProcessing, LeaveProcessing, DispatcherClear, QueueCleared, MsgFrame
<1> QED
  BY <1>1, <1>2, <1>3, <1>4, <1>5, <1>6, <1>7, <1>8, <1>9, <1>10 DEF Next, ApiStep, ExecStep

\* A queue that holds one empty batch is well formed.
LEMMA EmptyQueueOK ==
    /\ QueueOK(<<EmptyRequest>>) /\ LastIsOpen(<<EmptyRequest>>)
    /\ \A i \in DOMAIN <<EmptyRequest>> : Commands(<<EmptyRequest>>[i].cmds) = {}
BY RequestDispatcherAssumption DEF QueueOK, LastIsOpen, BatchOK, EmptyRequest, Commands

\* Every step keeps the queue well formed.
LEMMA NextInvStep == ASSUME IInv, Next PROVE NextInv'
<1>0. /\ NextInv /\ nextreqs \in Seq(Requests) /\ nextreqs # <<>>
  BY DEF IInv, TypeOK
<1>1. ASSUME NEW c \in Cmd, Add(c) PROVE NextInv'
  <2>1. /\ c \in fresh /\ fresh' = fresh \ {c} /\ nextreqs' = QueueAfterAdd(nextreqs, c)
    BY <1>1 DEF Add
  <2>2. /\ QueueOK(nextreqs) /\ LastIsOpen(nextreqs)
        /\ \A i \in DOMAIN nextreqs : c \notin Commands(nextreqs[i].cmds)
    BY <1>0, <2>1 DEF NextInv
  <2>3. /\ QueueOK(nextreqs') /\ LastIsOpen(nextreqs')
        /\ \A i \in DOMAIN nextreqs' : \A d \in Commands(nextreqs'[i].cmds) :
               d = c \/ \E k \in DOMAIN nextreqs : d \in Commands(nextreqs[k].cmds)
    BY Zenon, <1>0, <2>1, <2>2, QueueAfterAddOK
  <2>4. \A i \in DOMAIN nextreqs' : Commands(nextreqs'[i].cmds) \cap fresh' = {}
    BY Zenon, <1>0, <2>1, <2>3 DEF NextInv
  <2> QED
    BY <2>3, <2>4 DEF NextInv
<1>2. CASE ServerRequest
  <2>1. UNCHANGED fresh /\ (nextreqs' = nextreqs \/ nextreqs' = PopFront(nextreqs))
    BY <1>2 DEF ServerRequest
  <2>2. CASE nextreqs' = nextreqs
    BY <1>0, <2>1, <2>2 DEF NextInv
  <2>3. CASE nextreqs' = PopFront(nextreqs)
    <3>1. nextreqs' \in Seq(Requests) /\ nextreqs' # <<>>
      BY <1>0, <2>3, PopFrontOK
    <3>2. CASE nextreqs' = <<EmptyRequest>>
      BY <3>2, EmptyQueueOK DEF NextInv
    <3>3. CASE /\ Len(nextreqs') = Len(nextreqs) - 1
               /\ \A i \in DOMAIN nextreqs' : /\ i + 1 \in DOMAIN nextreqs
                                               /\ nextreqs'[i] = nextreqs[i + 1]
      <4>1. DOMAIN nextreqs' \subseteq Nat /\ Len(nextreqs') \in DOMAIN nextreqs'
        BY <3>1
      <4>2. QueueOK(nextreqs')
        <5>1. \A i \in DOMAIN nextreqs' : BatchOK(nextreqs'[i])
          BY <1>0, <3>3 DEF NextInv, QueueOK
        <5>2. ASSUME NEW i \in DOMAIN nextreqs', NEW j \in DOMAIN nextreqs', i # j
              PROVE  Commands(nextreqs'[i].cmds) \cap Commands(nextreqs'[j].cmds) = {}
          <6>1. i + 1 # j + 1
            BY <4>1, <5>2
          <6> QED
            BY Zenon, <1>0, <3>3, <6>1 DEF NextInv, QueueOK
        <5> QED
          BY <5>1, <5>2 DEF QueueOK
      <4>3. LastIsOpen(nextreqs')
        <5>1. nextreqs'[Len(nextreqs')] = nextreqs[Len(nextreqs)]
          BY <1>0, <3>3, <4>1
        <5> QED
          BY <1>0, <5>1 DEF NextInv, LastIsOpen
      <4>4. \A i \in DOMAIN nextreqs' : Commands(nextreqs'[i].cmds) \cap fresh' = {}
        BY <1>0, <2>1, <3>3 DEF NextInv
      <4> QED
        BY <4>2, <4>3, <4>4 DEF NextInv
    <3> QED
      BY <1>0, <2>3, <3>2, <3>3, PopFrontOK
  <2> QED
    BY <2>1, <2>2, <2>3
<1>3. ASSUME NEW m \in wire, ApiExecutes(m) PROVE NextInv'
  BY <1>0, <1>3 DEF ApiExecutes, dispatcher, NextInv
<1>4. CASE QueueCleared
  BY <1>4, EmptyQueueOK DEF QueueCleared, NextInv
<1>5. CASE MsgFrame
  BY <1>0, <1>5 DEF MsgFrame, NextInv
<1> QED
  BY <1>1, <1>2, <1>3, <1>4, <1>5, Frames

\* Every step keeps posts with different ids apart, and from what is queued.
LEMMA MsgInvStep == ASSUME IInv, Next PROVE MsgInv'
<1>0. /\ MsgInv /\ NextInv /\ nextreqs \in Seq(Requests) /\ nextreqs # <<>>
      /\ reqid \in Nat /\ fresh \subseteq Cmd
  BY DEF IInv, TypeOK
<1>1. ASSUME NEW c \in Cmd, Add(c) PROVE MsgInv'
  <2>1. /\ c \in fresh /\ fresh' = fresh \ {c} /\ nextreqs' = QueueAfterAdd(nextreqs, c)
        /\ UNCHANGED <<wire, served, reqid>>
    BY <1>1 DEF Add
  <2>2. \A i \in DOMAIN nextreqs' : \A d \in Commands(nextreqs'[i].cmds) :
            d = c \/ \E k \in DOMAIN nextreqs : d \in Commands(nextreqs[k].cmds)
    BY Zenon, <1>0, <2>1, QueueAfterAddOK DEF NextInv
  <2>3. ASSUME NEW cs, Unsent(cs, nextreqs, fresh) PROVE Unsent(cs, nextreqs', fresh')
    BY ZenonT(60), <2>1, <2>2, <2>3 DEF Unsent
  <2> QED
    BY Zenon, <1>0, <2>1, <2>3 DEF MsgInv, Msgs
<1>2. CASE ServerRequest
  <2> DEFINE msg == [id |-> inflightreq'.cachedIdempotenceId, out |-> inflightreq'.cmds]
  <2>1. /\ msg.id = inflightreq'.cachedIdempotenceId /\ msg.out = inflightreq'.cmds
    OBVIOUS
  <2>2. UNCHANGED <<fresh, served>> /\ wire' = wire \cup {msg}
    BY Zenon, <1>2, ServerRequestSends DEF ServerRequest
  <2>3. CASE /\ nextreqs' = nextreqs /\ reqid' = reqid /\ msg \in Msgs
    <3> HIDE DEF msg
    <3>1. Msgs' = Msgs
      BY <2>2, <2>3 DEF Msgs
    <3> QED
      BY Zenon, <1>0, <2>2, <2>3, <3>1 DEF MsgInv, Unsent
  <2>4. CASE /\ inflightreq'.cmds = nextreqs[1].cmds
             /\ nextreqs' = PopFront(nextreqs)
             /\ reqid' = reqid + 1 /\ inflightreq'.cachedIdempotenceId = reqid'
    <3>0. msg.id = reqid + 1 /\ msg.out = nextreqs[1].cmds /\ 1 \in DOMAIN nextreqs
      BY <1>0, <2>1, <2>4
    <3> HIDE DEF msg
    <3>1. Msgs' = Msgs \cup {msg}
      BY <2>2 DEF Msgs
    <3>2. \A m \in Msgs' : m.id \in 1 .. reqid'
      BY <1>0, <2>4, <3>0, <3>1 DEF MsgInv
    <3>3. \A m \in Msgs : m.id # msg.id
      BY <1>0, <3>0 DEF MsgInv
    <3>4. \A m, n \in Msgs' : m.id = n.id => m = n
      BY <1>0, <3>1, <3>3 DEF MsgInv
    <3>5. \A m \in Msgs : Commands(m.out) \cap Commands(msg.out) = {}
      BY Zenon, <1>0, <3>0 DEF MsgInv, Unsent
    <3>6. \A m, n \in Msgs' : m # n => Commands(m.out) \cap Commands(n.out) = {}
      BY Zenon, <1>0, <3>1, <3>5 DEF MsgInv
    <3>7. \A i \in DOMAIN nextreqs' : \/ Commands(nextreqs'[i].cmds) = {}
                                       \/ /\ i + 1 \in DOMAIN nextreqs /\ i + 1 # 1
                                          /\ nextreqs'[i] = nextreqs[i + 1]
      <4>1. CASE nextreqs' = <<EmptyRequest>>
        BY <4>1, EmptyQueueOK
      <4>2. CASE /\ Len(nextreqs') = Len(nextreqs) - 1
                 /\ \A i \in DOMAIN nextreqs' : /\ i + 1 \in DOMAIN nextreqs
                                                 /\ nextreqs'[i] = nextreqs[i + 1]
        <5>1. nextreqs' \in Seq(Requests)
          BY <1>0, <2>4, PopFrontOK
        <5>2. \A i \in DOMAIN nextreqs' : i + 1 # 1
          BY <5>1
        <5> QED
          BY <4>2, <5>2
      <4> QED
        BY Zenon, <1>0, <2>4, <4>1, <4>2, PopFrontOK
    <3>8. Unsent(Commands(msg.out), nextreqs', fresh')
      <4>1. \A i \in DOMAIN nextreqs : i # 1 =>
                Commands(nextreqs[1].cmds) \cap Commands(nextreqs[i].cmds) = {}
        BY Zenon, <1>0, <3>0 DEF NextInv, QueueOK
      <4>2. Commands(nextreqs[1].cmds) \cap fresh = {}
        BY Zenon, <1>0, <3>0 DEF NextInv
      <4>3. Commands(nextreqs[1].cmds) \cap fresh' = {}
        BY <2>2, <4>2
      <4>4. ASSUME NEW i \in DOMAIN nextreqs'
            PROVE  Commands(nextreqs[1].cmds) \cap Commands(nextreqs'[i].cmds) = {}
        BY <3>7, <4>1
      <4> QED
        BY <3>0, <4>3, <4>4 DEF Unsent
    <3>9. ASSUME NEW m \in Msgs PROVE Unsent(Commands(m.out), nextreqs', fresh')
      <4>1. Unsent(Commands(m.out), nextreqs, fresh)
        BY <1>0 DEF MsgInv
      <4> QED
        BY Zenon, <2>2, <3>7, <4>1 DEF Unsent
    <3> QED
      BY <3>1, <3>2, <3>4, <3>6, <3>8, <3>9 DEF MsgInv
  <2> QED
    BY <1>2, <2>3, <2>4, ServerRequestSends
<1>3. ASSUME NEW m \in wire, ApiExecutes(m) PROVE MsgInv'
  <2>1. /\ Msgs' \subseteq Msgs
        /\ UNCHANGED <<nextreqs, fresh, reqid>>
    BY <1>3 DEF ApiExecutes, dispatcher, Msgs
  <2> QED
    BY Zenon, <1>0, <2>1 DEF MsgInv, Unsent
<1>4. CASE QueueCleared
  <2>1. Msgs' = Msgs /\ UNCHANGED <<fresh, reqid>>
    BY <1>4 DEF QueueCleared, Msgs
  <2>2. \A i \in DOMAIN nextreqs' : Commands(nextreqs'[i].cmds) = {}
    BY <1>4, EmptyQueueOK DEF QueueCleared
  <2> QED
    BY Zenon, <1>0, <2>1, <2>2 DEF MsgInv, Unsent
<1>5. CASE MsgFrame
  BY Zenon, <1>0, <1>5 DEF MsgFrame, MsgInv, Msgs, Unsent
<1> QED
  BY <1>1, <1>2, <1>3, <1>4, <1>5, Frames

\* The API only moves a post from the wire to what it has executed.
LEMMA ApiExecutesMsgs ==
    ASSUME IInv, NEW m \in wire, ApiExecutes(m)
    PROVE  Msgs' = Msgs
<1>1. CASE Executed(m.id)
  <2>1. PICK n \in served : n.id = m.id
    BY Zenon, <1>1 DEF Executed
  <2>2. n = m
    BY <2>1 DEF IInv, MsgInv, Msgs
  <2> QED
    BY <1>1, <2>1, <2>2 DEF ApiExecutes, Msgs
<1>2. CASE ~Executed(m.id)
  BY <1>2 DEF ApiExecutes, Msgs
<1> QED
  BY <1>1, <1>2

\* Every step keeps the posted batches within the limits.
LEMMA BatchLimitsStep == ASSUME IInv, Next PROVE BatchLimits'
<1>0. BatchLimits /\ NextInv /\ nextreqs \in Seq(Requests) /\ nextreqs # <<>>
  BY DEF IInv, TypeOK
<1>1. ASSUME Msgs' = Msgs PROVE BatchLimits'
  BY <1>0, <1>1 DEF BatchLimits, Msgs
<1>2. CASE ServerRequest
  <2> DEFINE msg == [id |-> inflightreq'.cachedIdempotenceId, out |-> inflightreq'.cmds]
  <2>1. UNCHANGED served /\ wire' = wire \cup {msg} /\ inflightreq'.cmds # <<>>
        /\ inflightreq' \in Requests
    BY Zenon, <1>2, ServerRequestSends DEF ServerRequest
  <2>2. CASE msg \in Msgs
    <3>1. Msgs' = Msgs
      BY Zenon, <2>1, <2>2 DEF Msgs
    <3> QED
      BY <1>1, <3>1
  <2>3. CASE inflightreq'.cmds = nextreqs[1].cmds
    <3>1. BatchOK(nextreqs[1])
      BY <1>0 DEF NextInv, QueueOK
    <3>2. msg.out = nextreqs[1].cmds /\ msg.out # <<>> /\ msg.out \in Seq(Cmd)
      BY Zenon, <2>1, <2>3 DEF Requests
    <3>3. Len(msg.out) \in 1 .. MAX_COMMANDS
      <4> DEFINE cs == msg.out
      <4>1. cs \in Seq(Cmd) /\ cs # <<>> /\ Len(cs) <= MAX_COMMANDS
        BY Zenon, <3>1, <3>2 DEF BatchOK
      <4> HIDE DEF cs
      <4>2. Len(cs) \in 1 .. MAX_COMMANDS
        BY <4>1, RequestDispatcherAssumption
      <4> QED
        BY <4>2 DEF cs
    <3>4. Commands(msg.out) \cap BatchSeparately # {} => Len(msg.out) = 1
      BY Zenon, <3>1, <3>2 DEF BatchOK
    <3> HIDE DEF msg
    <3> QED
      BY Zenon, <1>0, <2>1, <3>3, <3>4 DEF BatchLimits
  <2> QED
    BY <1>2, <2>2, <2>3, ServerRequestSends
<1>3. ASSUME NEW m \in wire, ApiExecutes(m) PROVE BatchLimits'
  BY <1>1, <1>3, ApiExecutesMsgs
<1>4. ASSUME NEW c \in Cmd, Add(c) PROVE BatchLimits'
  BY <1>1, <1>4 DEF Add, Msgs
<1>5. CASE QueueCleared \/ MsgFrame
  BY <1>1, <1>5 DEF QueueCleared, MsgFrame, Msgs
<1> QED
  BY <1>2, <1>3, <1>4, <1>5, Frames
-----------------------------------------------------------------------------
(* The batch in flight and its reply *)

ReplyVars == <<inflightreq, inflightFailReason, jsonresponse, processindex, stopProcessing,
               mCurrentSeqtag, processing, pendingcs, completed>>

\* Steps that change neither the batch in flight nor its reply.
LEMMA ReplyFrame ==
    ASSUME IInv, UNCHANGED ReplyVars
    PROVE  ReplyInv' /\ PhaseInv' /\ ResultsMatchCommands'
BY Zenon DEF IInv, ReplyVars, ReplyInv, PhaseInv, ResultsMatchCommands

\* Every step keeps the reply that is read and the batch in flight together.
LEMMA ReplyStep == ASSUME IInv, Next PROVE ReplyInv' /\ PhaseInv' /\ ResultsMatchCommands'
<1> DEFINE Goal == ReplyInv' /\ PhaseInv' /\ ResultsMatchCommands'
<1>0. ReplyInv /\ PhaseInv /\ ResultsMatchCommands /\ TypeOK
  BY DEF IInv
<1>r. inflightreq \in Requests /\ pendingcs \in HttpReqs /\ jsonresponse \in Responses
  BY <1>0 DEF TypeOK
<1>n. NoHttpReq.status = "null" /\ NoResponse.kind = "none"
  BY DEF NoHttpReq, NoResponse
<1>1. ASSUME NEW c \in Cmd, Add(c) PROVE Goal
  BY <1>1, ReplyFrame DEF Add, request, flags, ReplyVars
<1>3. CASE BackoffExpires
  BY <1>3, ReplyFrame DEF BackoffExpires, request, flags, ReplyVars
<1>4. ASSUME NEW m \in wire, ApiExecutes(m) PROVE Goal
  BY <1>4, ReplyFrame DEF ApiExecutes, dispatcher, request, flags, ReplyVars
<1>9. CASE ServerResponse
  <2>1. /\ pendingcs.status # "null" /\ pendingcs.in = "[" /\ pendingcs'.status = "null"
        /\ jsonresponse' = [kind |-> "[", cmds |-> pendingcs.results]
        /\ processing' = TRUE /\ ~processing
        /\ UNCHANGED <<inflightreq, inflightFailReason, processindex, stopProcessing,
                       mCurrentSeqtag, completed>>
    BY <1>9, <1>n DEF ServerResponse
  <2>2. jsonresponse'.kind = "[" /\ jsonresponse'.cmds = pendingcs.results
    BY <2>1
  <2>3. ReplyInv'
    BY <1>0, <2>1, <2>2 DEF ReplyInv
  <2>4. PhaseInv'
    BY <1>0, <2>1, <2>2 DEF PhaseInv
  <2> QED
    BY <1>0, <2>1, <2>3, <2>4 DEF ResultsMatchCommands
<1>10. CASE ServerError
  BY Zenon, <1>0, <1>n, <1>10 DEF ServerError, ReplyInv, PhaseInv, ResultsMatchCommands
<1>11. CASE ExecFailure \/ HeartbeatTimeout
  <2>1. /\ pendingcs.status # "null" /\ ~processing
        /\ \E reason \in RetryReasons : InflightFailure(reason)
    BY <1>11, ConstantTypes DEF ExecFailure, HeartbeatTimeout
  <2>2. pendingcs' = NoHttpReq /\ UNCHANGED <<inflightreq, request, flags, completed>>
    BY <2>1 DEF InflightFailure
  <2>3. ReplyInv' /\ ResultsMatchCommands'
    BY Zenon, <1>0, <1>n, <2>2 DEF ReplyInv, ResultsMatchCommands, request
  <2>4. PhaseInv'
    BY <1>0, <1>n, <2>1, <2>2 DEF PhaseInv, request, flags
  <2> QED
    BY <2>3, <2>4
<1>12. CASE PauseForSeqTag
  <2>1. /\ processing /\ processindex < Len(inflightreq.cmds) /\ ~stopProcessing
        /\ mCurrentSeqtag' = TRUE /\ processing' = FALSE
        /\ UNCHANGED <<inflightreq, inflightFailReason, jsonresponse, processindex,
                       stopProcessing, pendingcs, completed>>
    BY <1>12 DEF PauseForSeqTag, Unfinished
  <2>2. inflightreq.cmds # <<>>
    <3>1. processindex \in Nat
      BY <1>0 DEF TypeOK
    <3> QED
      BY <2>1, <3>1
  <2>3. ReplyInv' /\ ResultsMatchCommands'
    BY <1>0, <2>1 DEF ReplyInv, ResultsMatchCommands
  <2>4. PhaseInv'
    BY <1>0, <2>1, <2>2 DEF PhaseInv
  <2> QED
    BY <2>3, <2>4
<1>14. CASE ContinueProcessing
  <2>1. /\ ~processing /\ mCurrentSeqtag /\ processing' = TRUE
        /\ UNCHANGED <<inflightreq, inflightFailReason, jsonresponse, processindex,
                       stopProcessing, mCurrentSeqtag, pendingcs, completed>>
    BY <1>14 DEF ContinueProcessing, request
  <2>2. ReplyInv' /\ ResultsMatchCommands'
    BY <1>0, <2>1 DEF ReplyInv, ResultsMatchCommands
  <2>3. PhaseInv'
    BY <1>0, <2>1 DEF PhaseInv
  <2> QED
    BY <2>2, <2>3
<1>h. ASSUME pendingcs.status # "null", pendingcs'.status # "null",
             pendingcs'.id = pendingcs.id,
             pendingcs'.in = "[" /\ inflightreq.cmds # <<>> => pendingcs'.results = inflightreq.cmds,
             UNCHANGED <<inflightreq, inflightFailReason, jsonresponse, processindex,
                         stopProcessing, mCurrentSeqtag, processing, completed>>
      PROVE  Goal
  BY Zenon, <1>0, <1>h DEF ReplyInv, PhaseInv, ResultsMatchCommands
<1>5. ASSUME NEW m \in served, ApiReplies(m) PROVE Goal
  <2>1. /\ pendingcs.status # "null" /\ m.id = pendingcs.id
        /\ pendingcs' = [pendingcs EXCEPT
                            !.in = "[", !.results = m.out,
                            !.status = IF pendingcs.mChunked THEN @ ELSE "REQ_SUCCESS"]
        /\ UNCHANGED <<inflightreq, inflightFailReason, jsonresponse, processindex,
                       stopProcessing, mCurrentSeqtag, processing, completed>>
    BY <1>5 DEF ApiReplies, dispatcher, request, flags
  <2>2. pendingcs'.status # "null" /\ pendingcs'.id = pendingcs.id /\ pendingcs'.results = m.out
    BY <1>r, <2>1 DEF HttpReqs
  <2>3. inflightreq.cmds # <<>> => m.out = inflightreq.cmds
    <3> SUFFICES ASSUME inflightreq.cmds # <<>> PROVE m.out = inflightreq.cmds
      OBVIOUS
    <3> DEFINE sent == [id |-> inflightreq.cachedIdempotenceId, out |-> inflightreq.cmds]
    <3>1. sent \in Msgs /\ sent.id = m.id /\ m \in Msgs
      BY <1>0, <2>1 DEF IInv, InflightInv, ReplyInv, Msgs
    <3>2. sent = m
      BY Zenon, <3>1 DEF IInv, MsgInv
    <3> QED
      BY <3>2
  <2> QED
    BY <1>h, <2>1, <2>2, <2>3
<1>6. ASSUME NEW e \in {"-3", "-4", "error"}, ApiRefuses(e) PROVE Goal
  <2>1. /\ pendingcs.status # "null"
        /\ pendingcs' = [pendingcs EXCEPT !.in = e, !.status = "REQ_SUCCESS"]
        /\ UNCHANGED <<inflightreq, inflightFailReason, jsonresponse, processindex,
                       stopProcessing, mCurrentSeqtag, processing, completed>>
    BY <1>6 DEF ApiRefuses, dispatcher, request, flags
  <2>2. pendingcs'.status # "null" /\ pendingcs'.id = pendingcs.id /\ pendingcs'.in # "["
    BY <1>r, <2>1 DEF HttpReqs
  <2> QED
    BY <1>h, <2>1, <2>2
<1>7. CASE ChunkArrives
  <2>1. /\ pendingcs.status = "REQ_INFLIGHT"
        /\ \/ pendingcs' = [pendingcs EXCEPT !.bufpos = @ + 1]
           \/ pendingcs' = [pendingcs EXCEPT !.status = "REQ_SUCCESS"]
        /\ UNCHANGED <<inflightreq, inflightFailReason, jsonresponse, processindex,
                       stopProcessing, mCurrentSeqtag, processing, completed>>
    BY <1>7 DEF ChunkArrives, dispatcher, request, flags
  <2>2. /\ pendingcs'.status # "null" /\ pendingcs'.id = pendingcs.id
        /\ pendingcs'.in = pendingcs.in /\ pendingcs'.results = pendingcs.results
    BY <1>r, <2>1 DEF HttpReqs
  <2> QED
    BY <1>0, <1>h, <2>1, <2>2 DEF ReplyInv
<1>8. ASSUME NEW why \in {"network", "ssl"}, HttpFails(why) PROVE Goal
  <2>1. /\ pendingcs.status # "null"
        /\ pendingcs' = [pendingcs EXCEPT !.status = "REQ_FAILURE", !.in = why]
        /\ UNCHANGED <<inflightreq, inflightFailReason, jsonresponse, processindex,
                       stopProcessing, mCurrentSeqtag, processing, completed>>
    BY <1>8 DEF HttpFails, dispatcher, request, flags
  <2>2. pendingcs'.status # "null" /\ pendingcs'.id = pendingcs.id /\ pendingcs'.in # "["
    BY <1>r, <2>1 DEF HttpReqs
  <2> QED
    BY <1>h, <2>1, <2>2
<1>2. CASE ServerRequest
  <2>1. /\ ~processing
        /\ pendingcs'.id = inflightreq'.cachedIdempotenceId /\ pendingcs'.in = ""
        /\ inflightreq'.cmds # <<>> /\ inflightreq' \in Requests
        /\ inflightreq' = inflightreq \/ inflightreq.cmds = <<>>
    BY <1>2, ServerRequestSends DEF ServerRequest
  <2>2. /\ inflightFailReason' = "RETRY_NONE"
        /\ UNCHANGED <<jsonresponse, processindex, stopProcessing, mCurrentSeqtag, processing,
                       completed>>
    BY <1>2 DEF ServerRequest, request, flags
  <2>3. ~mCurrentSeqtag
    <3> SUFFICES ASSUME mCurrentSeqtag PROVE FALSE
      OBVIOUS
    <3>1. processindex < Len(inflightreq.cmds) /\ inflightFailReason = "RETRY_NONE"
      BY <1>0 DEF PhaseInv
    <3>2. inflightreq.cmds = <<>>
      BY <1>2, <3>1 DEF ServerRequest, ReadyToSend
    <3> QED
      BY <1>0, <3>1, <3>2 DEF TypeOK
  <2>4. processindex <= Len(inflightreq'.cmds)
    <3>1. CASE inflightreq' = inflightreq
      BY <1>0, <3>1 DEF PhaseInv
    <3>2. CASE inflightreq.cmds = <<>>
      <4>1. processindex = 0
        <5>1. processindex \in Nat
          BY <1>0 DEF TypeOK
        <5>2. processindex <= Len(<<>>)
          BY <1>0, <3>2 DEF PhaseInv
        <5> QED
          BY <5>1, <5>2
      <4>2. Len(inflightreq'.cmds) \in Nat
        <5>1. inflightreq'.cmds \in Seq(Cmd)
          BY <2>1 DEF Requests
        <5> QED
          BY <5>1
      <4> QED
        BY <4>1, <4>2
    <3> QED
      BY <2>1, <3>1, <3>2
  <2>5. ReplyInv'
    BY <1>0, <2>1, <2>2 DEF ReplyInv, PhaseInv
  <2>6. PhaseInv'
    BY <1>0, <2>1, <2>2, <2>3, <2>4 DEF PhaseInv
  <2> QED
    BY <1>0, <2>2, <2>5, <2>6 DEF ResultsMatchCommands
<1>c. ASSUME ResetRequest, processing' = FALSE, mCurrentSeqtag' = FALSE,
             inflightFailReason' = "RETRY_NONE" \/ pendingcs'.status = "null"
      PROVE  ReplyInv' /\ PhaseInv'
  <2>1. /\ inflightreq'.cmds = <<>> /\ jsonresponse'.kind = "none"
        /\ processindex' = 0 /\ stopProcessing' = FALSE
    BY <1>0, <1>c, <1>n, ResetRequestType
  <2>2. processindex' <= Len(inflightreq'.cmds)
    BY <2>1
  <2> QED
    BY Zenon, <1>c, <2>1, <2>2 DEF ReplyInv, PhaseInv
<1>15. CASE LocalLogout
  <2>1. ReplyInv' /\ PhaseInv'
    BY Zenon, <1>c, <1>n, <1>15 DEF LocalLogout, DispatcherClear
  <2>2. completed' = <<>>
    BY <1>15 DEF LocalLogout, DispatcherClear
  <2> QED
    BY <2>1, <2>2 DEF ResultsMatchCommands
<1>16. CASE EndProcessing
  <2>1. ~mCurrentSeqtag
    BY <1>0, <1>16 DEF EndProcessing, PhaseInv, TypeOK, Requests
  <2>2. /\ ResetRequest /\ processing' = FALSE /\ UNCHANGED <<mCurrentSeqtag, pendingcs>>
        /\ pendingcs.status = "null"
        /\ completed' = <<>> \/ completed' = completed
    BY <1>0, <1>16 DEF EndProcessing, LeaveProcessing, DispatcherClear, PhaseInv
  <2>3. mCurrentSeqtag' = FALSE
    BY <1>0, <2>1, <2>2 DEF TypeOK
  <2>4. ReplyInv' /\ PhaseInv'
    BY Zenon, <1>c, <2>2, <2>3
  <2> QED
    BY <1>0, <2>2, <2>4 DEF ResultsMatchCommands
<1>17. ASSUME NEW logout \in BOOLEAN, ProcResult(logout) PROVE Goal
  <2>1. /\ processing /\ processindex < Len(inflightreq.cmds)
        /\ mCurrentSeqtag' = FALSE
        /\ completed' = Append(completed, Result(jsonresponse.kind))
        /\ processindex' = processindex + 1
        /\ UNCHANGED <<inflightreq, inflightFailReason, jsonresponse, processing, pendingcs>>
    BY <1>17 DEF ProcResult, Unfinished
  <2>2. inflightreq.cmds # <<>>
    BY <1>0, <2>1 DEF TypeOK
  <2>3. jsonresponse.cmds = inflightreq.cmds /\ jsonresponse.kind # "none"
    BY <1>0, <2>1, <2>2 DEF ReplyInv, PhaseInv
  <2>4. Result(jsonresponse.kind).cmd = Result(jsonresponse.kind).from
    BY Zenon, <2>3 DEF Result, CurrentCommand
  <2>5. ResultsMatchCommands'
    <3> DEFINE res == Result(jsonresponse.kind)
    <3>1. completed \in Seq(Results) /\ completed' \in Seq(Results)
      BY TypeStep DEF IInv, TypeOK
    <3> HIDE DEF res
    <3>2. \A i \in DOMAIN completed' :
              completed'[i] = res \/ (i \in DOMAIN completed /\ completed'[i] = completed[i])
      BY <2>1, <3>1 DEF res
    <3> QED
      BY <1>0, <2>4, <3>2 DEF ResultsMatchCommands, res
  <2>6. processindex' <= Len(inflightreq'.cmds)
    <3>1. Len(inflightreq.cmds) \in Nat /\ processindex \in Nat
      BY <1>0, <1>r DEF Requests, TypeOK
    <3> QED
      BY <2>1, <3>1
  <2>7. ReplyInv'
    BY Zenon, <1>0, <2>1 DEF ReplyInv
  <2>8. PhaseInv'
    BY Zenon, <1>0, <2>1, <2>2, <2>3, <2>6 DEF PhaseInv
  <2> QED
    BY <2>5, <2>7, <2>8
<1>18. CASE ServerChunk \/ LastServerChunk
  <2>1. /\ ProcessChunk /\ pendingcs.status # "null" /\ ~processing
        /\ UNCHANGED <<inflightFailReason, mCurrentSeqtag, processing>>
    BY <1>18 DEF ServerChunk, LastServerChunk, flags
  <2>2. /\ ~mCurrentSeqtag /\ inflightFailReason = "RETRY_NONE"
    BY <1>0, <2>1 DEF PhaseInv
  <2>3. /\ ResultsMatchCommands'
        /\ ResetRequest \/ UNCHANGED <<inflightreq, jsonresponse, processindex, stopProcessing>>
    BY <2>1, ProcessChunkType
  <2>4. \/ pendingcs'.status = "null"
        \/ /\ pendingcs'.status = pendingcs.status /\ pendingcs'.id = pendingcs.id
           /\ pendingcs'.in = pendingcs.in /\ pendingcs'.results = pendingcs.results
    BY <1>r, <1>n, <1>18 DEF ServerChunk, LastServerChunk, HttpReqs
  <2>5. CASE ResetRequest
    <3>1. mCurrentSeqtag' = FALSE /\ processing' = FALSE
      BY <1>0, <2>1, <2>2 DEF TypeOK
    <3> QED
      BY Zenon, <1>c, <2>1, <2>2, <2>3, <2>5, <3>1
  <2>6. CASE UNCHANGED <<inflightreq, jsonresponse, processindex, stopProcessing>>
    <3>1. ReplyInv'
      BY Zenon, <1>0, <2>4, <2>6 DEF ReplyInv
    <3>2. PhaseInv'
      BY Zenon, <1>0, <2>1, <2>2, <2>6 DEF PhaseInv
    <3> QED
      BY <2>3, <3>1, <3>2
  <2> QED
    BY <2>3, <2>5, <2>6
<1> QED
  BY Zenon, <1>1, <1>2, <1>3, <1>4, <1>5, <1>6, <1>7, <1>8, <1>9, <1>10, <1>11, <1>12, <1>14,
     <1>15, <1>16, <1>17, <1>18 DEF Next, ApiStep, ExecStep

\* Every step keeps the cached JSON and id of the batch in flight those posted.
LEMMA InflightInvStep == ASSUME IInv, Next PROVE InflightInv'
<1>0. InflightInv /\ TypeOK
  BY DEF IInv
<1>1. ASSUME inflightreq'.cmds = <<>> PROVE InflightInv'
  BY <1>1 DEF InflightInv
<1>2. ASSUME inflightreq' = inflightreq, Msgs' = Msgs PROVE InflightInv'
  BY Zenon, <1>0, <1>2 DEF InflightInv
<1>3. CASE ServerRequest
  <2> DEFINE msg == [id |-> inflightreq'.cachedIdempotenceId, out |-> inflightreq'.cmds]
  <2>1. wire' = wire \cup {msg} /\ inflightreq'.cachedJSON = inflightreq'.cmds
    BY Zenon, <1>3, ServerRequestSends
  <2>2. msg \in Msgs'
    BY <2>1 DEF Msgs
  <2> QED
    BY Zenon, <2>1, <2>2 DEF InflightInv
<1>4. ASSUME NEW m \in wire, ApiExecutes(m) PROVE InflightInv'
  BY <1>2, <1>4, ApiExecutesMsgs DEF ApiExecutes, dispatcher
<1>5. ASSUME NEW c \in Cmd, Add(c) PROVE InflightInv'
  BY <1>2, <1>5 DEF Add, Msgs
<1>6. CASE ServerChunk \/ LastServerChunk
  <2>1. ProcessChunk /\ pendingcs.status # "null" /\ UNCHANGED <<wire, served>>
    BY <1>6 DEF ServerChunk, LastServerChunk
  <2>2. ResetRequest \/ inflightreq' = inflightreq
    BY <2>1, ProcessChunkType
  <2> QED
    BY Zenon, <1>0, <1>1, <1>2, <2>1, <2>2, ResetRequestType DEF Msgs
<1>7. CASE EndProcessing \/ LocalLogout
  <2>1. ResetRequest
    BY <1>7 DEF EndProcessing, LeaveProcessing, LocalLogout, DispatcherClear
  <2> QED
    BY <1>0, <1>1, <2>1, ResetRequestType
<1>8. ASSUME NEW m \in served, ApiReplies(m) PROVE InflightInv'
  BY <1>2, <1>8 DEF ApiReplies, dispatcher, Msgs
<1>9. ASSUME NEW e \in {"-3", "-4", "error"}, ApiRefuses(e) PROVE InflightInv'
  BY <1>2, <1>9 DEF ApiRefuses, dispatcher, Msgs
<1>10. ASSUME NEW why \in {"network", "ssl"}, HttpFails(why) PROVE InflightInv'
  BY <1>2, <1>10 DEF HttpFails, dispatcher, Msgs
<1>11. CASE ChunkArrives \/ BackoffExpires
  BY <1>2, <1>11 DEF ChunkArrives, BackoffExpires, dispatcher, Msgs
<1>12. CASE ServerResponse \/ ServerError \/ PauseForSeqTag \/ ContinueProcessing
  BY Zenon, <1>2, <1>12 DEF ServerResponse, ServerError, PauseForSeqTag, ContinueProcessing, Msgs
<1>13. CASE ExecFailure \/ HeartbeatTimeout
  BY <1>2, <1>13 DEF ExecFailure, HeartbeatTimeout, InflightFailure, Msgs
<1>14. ASSUME NEW logout \in BOOLEAN, ProcResult(logout) PROVE InflightInv'
  BY <1>2, <1>14 DEF ProcResult, Msgs
<1> QED
  BY <1>3, <1>4, <1>5, <1>6, <1>7, <1>8, <1>9, <1>10, <1>11, <1>12, <1>13, <1>14
     DEF Next, ApiStep, ExecStep
-----------------------------------------------------------------------------
(* The theorems *)

\* IInv holds in every state of every execution of the cs channel.
THEOREM Inductive == Spec => []IInv
<1>1. ASSUME IInv, [Next]_vars PROVE IInv'
  <2>1. CASE Next
    BY <1>1, <2>1, TypeStep, NextInvStep, MsgInvStep, BatchLimitsStep, ReplyStep,
       InflightInvStep DEF IInv
  <2>2. CASE UNCHANGED vars
    <3>1. UNCHANGED ReplyVars /\ MsgFrame
      BY <2>2 DEF vars, ReplyVars, MsgFrame, request, flags
    <3>2. ReplyInv' /\ PhaseInv' /\ ResultsMatchCommands'
      BY <1>1, <3>1, ReplyFrame
    <3>3. NextInv' /\ MsgInv' /\ InflightInv' /\ BatchLimits'
      BY Zenon, <1>1, <3>1 DEF IInv, NextInv, MsgInv, InflightInv, BatchLimits, Msgs, MsgFrame, ReplyVars
    <3>4. TypeOK'
      BY Zenon, <1>1, <2>2 DEF IInv, TypeOK, vars, request, flags
    <3> QED
      BY <3>2, <3>3, <3>4 DEF IInv
  <2> QED
    BY <1>1, <2>1, <2>2
<1> QED
  BY <1>1, InitOK, PTL DEF Spec

\* Type correctness of the cs channel, whatever is lost, delayed or refused.
THEOREM TypeCorrect == Spec => []TypeOK
<1>1. IInv => TypeOK
  BY DEF IInv
<1> QED
  BY <1>1, Inductive, PTL

\* The API executes no command twice: retries keep id and JSON, batches are
\* disjoint and ids are never reused.
THEOREM ExecutedAtMostOnce == Spec => []AtMostOnce
<1>1. IInv => AtMostOnce
  BY DEF IInv, MsgInv, Msgs, AtMostOnce
<1> QED
  BY <1>1, Inductive, PTL

\* Each result is handed to the command it answers.
THEOREM ResultsMatch == Spec => []ResultsMatchCommands
<1>1. IInv => ResultsMatchCommands
  BY DEF IInv
<1> QED
  BY <1>1, Inductive, PTL

\* Posted batches respect MAX_COMMANDS and batchSeparately.
THEOREM BatchesWithinLimits == Spec => []BatchLimits
<1>1. IInv => BatchLimits
  BY DEF IInv
<1> QED
  BY <1>1, Inductive, PTL
====
