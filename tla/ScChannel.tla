------------------------------ MODULE ScChannel ------------------------------
(***************************************************************************)
(* The server-client ("sc") channel of MegaClient and its synchronisation  *)
(* with the results of cs commands through sequence tags.                  *)
(*                                                                         *)
(* The API server keeps a log of operations.  An operation reaches the     *)
(* client as one or two action packets; the client asks for everything     *)
(* after its sequence number (scsn), applies the packets to its node tree, *)
(* and commits tree and scsn to the state cache (sctable) together.  A     *)
(* result of a cs command carries the sequence tag of the operation the    *)
(* command caused: it is handed out after the packets of that tag and      *)
(* before those of a later one.                                            *)
(*                                                                         *)
(* Streaming chooses between the two parsers of the client: procsc() works *)
(* on a complete message, ScStreamingParser on the part that has arrived,  *)
(* so that a chunk may end, and anything else may happen, between any two  *)
(* of its filters.                                                         *)
(*                                                                         *)
(* An operation's index in the log serves as its sn and as its tag.        *)
(*   "u"  one packet with a tag           "n"  one packet without a tag    *)
(*   "m"  a move: "d" with the tag, "t" without                            *)
(*   "s"  a new share: "s" and "t", both with the tag                      *)
(***************************************************************************)
EXTENDS Integers, Sequences

CONSTANTS
    Streaming,     \* isStreamingEnabled()
    Kinds,         \* the kinds of operations other clients perform
    IsnChoices,    \* may the first packet of an operation carry "isn"?
    Batches,       \* the batches this client sends: sequences over {"u", "m", "p"}
    MaxOps, MaxBatches, MaxAborts, MaxRestarts, MaxReloads  \* bounds

ASSUME ScChannelAssumption ==
    /\ Streaming \in BOOLEAN
    /\ Kinds \subseteq {"u", "n", "m", "s"}
    /\ IsnChoices \subseteq BOOLEAN /\ IsnChoices # {}
    /\ Batches \subseteq Seq({"u", "m", "p"}) \ {<<>>}
    /\ {MaxOps, MaxBatches, MaxAborts, MaxRestarts, MaxReloads} \subseteq Nat

VARIABLES
    ops,          \* API server: the log of operations
    batch,        \* inflightreq: its commands, each with the tag of its result
    cs,           \* what has become of inflightreq
    processindex, \* inflightreq: the next result to hand out
    fetch,        \* a queued CommandFetchNodes: "none", "cached" or "nocache"
    fetchingnodes,
    scsn, stopsc, \* SCSN
    pendingsc,    \* the sc request and its answer
    parser,       \* where jsonsc / the JSONSplitter stands in the answer
    running,      \* the client thread is inside procsc() or a filter
    streaming,    \* further state of ScStreamingParser
    mCurrentSeqtag, mCurrentSeqtagSeen, mLastReceivedScSeqTag,
    mLargestEverSeenScSeqTag,
    seqTag,       \* mScDbStateRecord.seqTag
    reported,     \* the tag the app last heard of (sequencetag_update)
    actionpacketsCurrent,
    applied,      \* the packets whose effect the node tree shows
    purged,       \* the moves whose node notifypurge() has dropped
    db,           \* the committed state cache
    delivered,    \* the tags of the results handed out
    used          \* how much of each bound has been used

server == <<ops>>
reqs == <<batch, cs, processindex>>
fetchnodes == <<fetch, fetchingnodes>>
tags == <<mCurrentSeqtag, mCurrentSeqtagSeen>>
sctags == <<mLastReceivedScSeqTag, mLargestEverSeenScSeqTag, seqTag, reported>>
tree == <<applied, purged>>
vars == <<server, reqs, fetchnodes, scsn, stopsc, pendingsc, parser, running, streaming,
          tags, sctags, actionpacketsCurrent, tree, db, delivered, used>>

NoTag == -1
NoSn == -1

NoRequest == [status |-> "none", from |-> 0, upto |-> 0, ir |-> FALSE]
NoParser == [stage |-> "idle", op |-> 0, part |-> 1, checked |-> FALSE]
NoStreaming == [mInterimSn |-> NoSn, mNeedToPurge |-> FALSE,
                mLastAPDeletedNode |-> FALSE, mIsNewSharesMerged |-> TRUE]

\* A session that has just loaded its nodes, with nothing in the log yet.
Init ==
    /\ ops = <<>>
    /\ batch = <<>> /\ cs = "idle" /\ processindex = 1
    /\ fetch = "none" /\ fetchingnodes = TRUE
    /\ scsn = 0 /\ stopsc = FALSE
    /\ pendingsc = NoRequest /\ parser = NoParser /\ running = FALSE
    /\ streaming = NoStreaming
    /\ mCurrentSeqtag = NoTag /\ mCurrentSeqtagSeen = FALSE
    /\ mLastReceivedScSeqTag = NoTag /\ mLargestEverSeenScSeqTag = NoTag
    /\ seqTag = 0 /\ reported = 0
    /\ actionpacketsCurrent = FALSE
    /\ applied = {} /\ purged = {}
    /\ db = [scsn |-> 0, applied |-> {}, seqTag |-> 0]
    /\ delivered = {}
    /\ used = [batches |-> 0, aborts |-> 0, restarts |-> 0, reloads |-> 0]

Use(bound, max) == used[bound] < max /\ used' = [used EXCEPT ![bound] = @ + 1]

-----------------------------------------------------------------------------
(* Operations, their packets and their tags.                               *)

Parts(kind) == IF kind \in {"m", "s"} THEN 2 ELSE 1

Packets(k) == {k} \X (1..Parts(ops[k].kind))

PacketsUpTo(n) == UNION {Packets(k) : k \in 1..n}

\* The "st" element of part p of operation k, if it has one.
St(k, p) == IF ops[k].kind = "n" \/ (ops[k].kind = "m" /\ p = 2) THEN NoTag ELSE k

Later(tag1, tag2) == IF tag1 > tag2 THEN tag1 ELSE tag2

\* Moves whose node is deleted and not yet added at its new place.
HalfMoved(a) == {k \in 1..Len(ops) : /\ ops[k].kind = "m"
                                     /\ <<k, 1>> \in a /\ <<k, 2>> \notin a}

OtherClientActs ==
    /\ Len(ops) < MaxOps
    /\ \E kind \in Kinds, isn \in IsnChoices :
          ops' = Append(ops, [kind |-> kind, isn |-> isn])
    /\ UNCHANGED <<reqs, fetchnodes, scsn, stopsc, pendingsc, parser, running, streaming,
                   tags, sctags, actionpacketsCurrent, tree, db, delivered, used>>

-----------------------------------------------------------------------------
(* The state cache.                                                        *)

ScsnReady == ~stopsc /\ scsn # NoSn

PurgeAndCommit_KeepsTree(sn) ==
    /\ purged' = HalfMoved(applied)
    /\ db' = [db EXCEPT !.scsn = sn, !.seqTag = seqTag]

\* notifypurge() + sctable->commit(): writes scsn, the seqtag and the tree.
PurgeAndCommit(sn) ==
    /\ purged' = HalfMoved(applied)
    /\ db' = [scsn |-> sn, applied |-> applied, seqTag |-> seqTag]

\* At the end of an iteration of exec().
NotifyPurge ==
    /\ ~running
    /\ purged # HalfMoved(applied)
    /\ purged' = HalfMoved(applied)
    /\ UNCHANGED <<server, reqs, fetchnodes, scsn, stopsc, pendingsc, parser, running,
                   streaming, tags, sctags, actionpacketsCurrent, applied, db,
                   delivered, used>>

\* clearStreamingParser(): what was applied since the last commit is kept if an
\* interim sn covers some of it.
ClearStreamingParser ==
    /\ IF streaming.mNeedToPurge THEN PurgeAndCommit(scsn)
                                 ELSE purged' = HalfMoved(applied) /\ UNCHANGED db
    /\ streaming' = NoStreaming

-----------------------------------------------------------------------------
(* The cs side: batches of commands and their results.                     *)

IsFetchNodes == Len(batch) = 1 /\ batch[1].kind \in {"cached", "nocache"}

CmdsInflight == cs \in {"sent", "executed", "processing"}

SendBatch ==
    /\ ~running /\ cs = "idle"
    /\ Use("batches", MaxBatches)
    /\ \E b \in Batches : batch' = [i \in DOMAIN b |-> [kind |-> b[i], st |-> NoTag]]
    /\ cs' = "sent" /\ processindex' = 1
    /\ UNCHANGED <<server, fetchnodes, scsn, stopsc, pendingsc, parser, running, streaming,
                   tags, sctags, actionpacketsCurrent, tree, db, delivered>>

\* CommandFetchNodes::getJSON() calls resetScForFetchnodes().
SendFetchNodes ==
    /\ ~running /\ cs = "idle" /\ fetch # "none"
    /\ batch' = <<[kind |-> fetch, st |-> NoTag]>>
    /\ cs' = "sent" /\ processindex' = 1
    /\ ClearStreamingParser
    /\ fetch' = "none"
    /\ pendingsc' = NoRequest /\ parser' = NoParser
    /\ scsn' = NoSn /\ stopsc' = FALSE
    /\ UNCHANGED <<server, fetchingnodes, running, tags, sctags, actionpacketsCurrent,
                   applied, delivered, used>>

\* The API executes the batch in order: "u" and "m" append an operation each, "p" none;
\* fetchnodes takes the tree of the moment, or an older one that it has cached.
ApiExecutes ==
    /\ cs = "sent"
    /\ cs' = "executed"
    /\ IF IsFetchNodes
       THEN /\ \E k \in IF batch[1].kind = "cached" THEN 0..Len(ops) ELSE {Len(ops)} :
                  batch' = [batch EXCEPT ![1].st = k]
            /\ UNCHANGED ops
       ELSE LET acting == {i \in DOMAIN batch : batch[i].kind # "p"}
                kinds == {batch[i].kind : i \in acting}
            IN \E n \in 0..Len(batch), at \in [acting -> 1..Len(batch)] :
                  /\ {at[i] : i \in acting} = 1..n
                  /\ \A i, j \in acting : i < j => at[i] < at[j]
                  /\ \E acts \in [1..n -> [kind : kinds, isn : IsnChoices]] :
                        /\ \A i \in acting : acts[at[i]].kind = batch[i].kind
                        /\ ops' = ops \o acts
                  /\ batch' = [i \in DOMAIN batch |->
                                 IF i \in acting
                                 THEN [batch[i] EXCEPT !.st = Len(ops) + at[i]] ELSE batch[i]]
    /\ UNCHANGED <<processindex, fetchnodes, scsn, stopsc, pendingsc, parser, running,
                   streaming, tags, sctags, actionpacketsCurrent, tree, db, delivered,
                   used>>

\* -3 or -4: nothing was executed; the batch is sent again later.
ApiRefuses ==
    /\ ~running
    /\ \/ cs = "sent" /\ Use("aborts", MaxAborts) /\ cs' = "refused"
       \/ cs = "refused" /\ cs' = "sent" /\ UNCHANGED used
    /\ UNCHANGED <<server, batch, processindex, fetchnodes, scsn, stopsc, pendingsc, parser,
                   running, streaming, tags, sctags, actionpacketsCurrent, tree, db,
                   delivered>>

StopIndex_IgnoresTags == Len(batch) + 1

\* Request::process(): the index of the first result it cannot hand out now.  A
\* result waits unless it comes first and its tag is the one just seen, or the sc
\* channel is off.
StopIndex ==
    LET waiting == {j \in processindex..Len(batch) :
                      /\ batch[j].st # NoTag
                      /\ ~(j = processindex /\ batch[j].st = mCurrentSeqtag)}
    IN IF ScsnReady /\ waiting # {}
       THEN CHOOSE i \in waiting : \A j \in waiting : i <= j
       ELSE Len(batch) + 1

\* The tag that the first result left has to wait for.
NextSeqtag == IF StopIndex <= Len(batch) THEN batch[StopIndex].st ELSE NoTag

HandOut(stop) ==
    delivered' = delivered \cup ({batch[j].st : j \in processindex..(stop - 1)} \ {NoTag})

Process_NoClear ==
    /\ HandOut(StopIndex)
    /\ cs' = IF StopIndex <= Len(batch) THEN "processing" ELSE "idle"
    /\ processindex' = StopIndex /\ UNCHANGED batch
    /\ mCurrentSeqtag' = NextSeqtag

Process ==
    /\ HandOut(StopIndex)
    /\ IF StopIndex <= Len(batch)
       THEN cs' = "processing" /\ processindex' = StopIndex /\ UNCHANGED batch
       ELSE cs' = "idle" /\ processindex' = 1 /\ batch' = <<>>
    /\ mCurrentSeqtag' = NextSeqtag

CsResponse ==
    /\ ~running /\ cs = "executed" /\ ~IsFetchNodes
    /\ Process
    /\ mCurrentSeqtagSeen' = FALSE
    /\ UNCHANGED <<server, fetchnodes, scsn, stopsc, pendingsc, parser, running, streaming,
                   sctags, actionpacketsCurrent, tree, db, used>>

\* The first chunk of the reply to fetchnodes: purgenodesusersabortsc(), init()
\* and an empty state cache.
FetchNodesBegins ==
    /\ ~running /\ cs = "executed" /\ IsFetchNodes
    /\ cs' = "processing"
    /\ applied' = {} /\ purged' = {}
    /\ scsn' = NoSn /\ stopsc' = FALSE
    /\ pendingsc' = NoRequest /\ parser' = NoParser
    /\ mCurrentSeqtag' = NoTag /\ mCurrentSeqtagSeen' = FALSE
    /\ mLastReceivedScSeqTag' = NoTag /\ seqTag' = NoTag
    /\ actionpacketsCurrent' = FALSE
    /\ db' = [scsn |-> NoSn, applied |-> {}, seqTag |-> NoTag]
    /\ UNCHANGED <<server, batch, processindex, fetchnodes, running, streaming,
                   mLargestEverSeenScSeqTag, reported, delivered, used>>

\* Its last chunk: the tree is complete, and initsc() commits it.
FetchNodesEnds ==
    /\ ~running /\ cs = "processing" /\ IsFetchNodes
    /\ LET k == batch[1].st
       IN /\ applied' = PacketsUpTo(k) /\ purged' = {}
          /\ scsn' = k /\ seqTag' = k /\ reported' = k
          /\ db' = [scsn |-> k, applied |-> PacketsUpTo(k), seqTag |-> k]
    /\ cs' = "idle" /\ processindex' = 1 /\ batch' = <<>>
    /\ UNCHANGED <<server, fetchnodes, stopsc, pendingsc, parser, running, streaming, tags,
                   mLastReceivedScSeqTag, mLargestEverSeenScSeqTag,
                   actionpacketsCurrent, delivered, used>>

\* The app reloads its session.
FetchNodes ==
    /\ ~running /\ ~fetchingnodes
    /\ Use("reloads", MaxReloads)
    /\ fetch' = "cached" /\ fetchingnodes' = TRUE
    /\ UNCHANGED <<server, reqs, scsn, stopsc, pendingsc, parser, running, streaming,
                   tags, sctags, actionpacketsCurrent, tree, db, delivered>>

-----------------------------------------------------------------------------
(* sc_checkSequenceTag(): may the packet with this tag be processed?       *)

MayProceed_WithoutResponse(tag) == TRUE

MayProceed_NotWhileInflight(tag) == tag = NoTag \/ ~CmdsInflight

\* Any commands in flight might still turn out to wait for this tag or an
\* earlier one.
MayProceed(tag) == tag = NoTag \/ mCurrentSeqtag # NoTag \/ ~CmdsInflight

Exhausted_ByTagOnly(tag) ==
    tag # NoTag /\ mCurrentSeqtag # NoTag /\ mCurrentSeqtagSeen /\ mCurrentSeqtag # tag

\* The packet is beyond the tag of the result that waits.
Exhausted(tag) == mCurrentSeqtag # NoTag /\ mCurrentSeqtagSeen /\ mCurrentSeqtag # tag

ReportedAfter_AtOnce(tag) == IF tag # NoTag THEN tag ELSE reported

\* sequencetag_update() is called at the end of a run of packets with tags.
ReportedAfter(tag) ==
    IF tag = NoTag /\ mLastReceivedScSeqTag # NoTag THEN mLastReceivedScSeqTag ELSE reported

CheckSequenceTag(tag) ==
    /\ reported' = ReportedAfter(tag)
    /\ IF tag = NoTag
       THEN /\ mLastReceivedScSeqTag' = NoTag
            /\ UNCHANGED <<mLargestEverSeenScSeqTag, seqTag>>
       ELSE /\ mLastReceivedScSeqTag' = tag
            /\ mLargestEverSeenScSeqTag' = Later(mLargestEverSeenScSeqTag, tag)
            /\ seqTag' = tag
    /\ IF Exhausted(tag)
       THEN /\ Process
            /\ mCurrentSeqtagSeen' = (tag # NoTag /\ NextSeqtag = tag)
       ELSE /\ mCurrentSeqtagSeen' = (mCurrentSeqtagSeen \/
                                      (tag # NoTag /\ mCurrentSeqtag = tag))
            /\ UNCHANGED <<reqs, mCurrentSeqtag, delivered>>

-----------------------------------------------------------------------------
(* The sc request and its answer.                                          *)

ScRequest ==
    /\ ~running /\ pendingsc.status = "none" /\ ScsnReady
    /\ pendingsc' = [NoRequest EXCEPT !.status = "sent", !.from = scsn]
    /\ UNCHANGED <<server, reqs, fetchnodes, scsn, stopsc, parser, running, streaming,
                   tags, sctags, actionpacketsCurrent, tree, db, delivered, used>>

\* The API answers with the operations from+1..upto, none only if there are none;
\* ir announces more of them, but "is not always reliable".
ApiAnswers(upto, ir) ==
    /\ pendingsc.status = "sent"
    /\ upto > pendingsc.from \/ pendingsc.from = Len(ops)
    /\ pendingsc' = [pendingsc EXCEPT !.status = "answered", !.upto = upto, !.ir = ir]
    /\ UNCHANGED <<server, reqs, fetchnodes, scsn, stopsc, parser, running, streaming,
                   tags, sctags, actionpacketsCurrent, tree, db, delivered, used>>

\* The API has too much to tell: API_ETOOMANY reloads the session.
ApiTooMany ==
    /\ ~running /\ pendingsc.status = "sent" /\ pendingsc.from < Len(ops)
    /\ Use("reloads", MaxReloads)
    /\ scsn' = NoSn /\ stopsc' = TRUE
    /\ fetch' = "nocache" /\ fetchingnodes' = TRUE
    /\ pendingsc' = NoRequest
    /\ UNCHANGED <<server, reqs, parser, running, streaming, tags, sctags,
                   actionpacketsCurrent, tree, db, delivered>>

\* A failed or timed out request, or one that catchup() drops.  The streaming
\* parser may be anywhere in the answer; procsc() only starts on a complete one.
ScFails ==
    /\ ~running
    /\ \/ pendingsc.status = "sent"
       \/ Streaming /\ pendingsc.status = "answered"
    /\ Use("aborts", MaxAborts)
    /\ ClearStreamingParser
    /\ pendingsc' = NoRequest /\ parser' = NoParser
    /\ UNCHANGED <<server, reqs, fetchnodes, scsn, stopsc, running, tags, sctags,
                   actionpacketsCurrent, applied, delivered>>

-----------------------------------------------------------------------------
(* Reading the answer, packet by packet.                                   *)

ScStart ==
    /\ ~running /\ pendingsc.status = "answered" /\ parser.stage = "idle"
    /\ parser' = [NoParser EXCEPT !.stage = "a", !.op = pendingsc.from + 1]
    /\ running' = ~Streaming
    /\ actionpacketsCurrent' = FALSE
    /\ UNCHANGED <<server, reqs, fetchnodes, scsn, stopsc, pendingsc, streaming, tags,
                   sctags, tree, db, delivered, used>>

AtPacket == parser.stage = "a" /\ parser.op <= pendingsc.upto

\* The "t" of a move has no tag of its own: it belongs to the "d" before it.
ImplicitTag ==
    /\ ops[parser.op].kind = "m" /\ parser.part = 2
    /\ streaming.mLastAPDeletedNode
    /\ mCurrentSeqtagSeen /\ batch[processindex].kind = "m"

\* sc_checkActionPacket(), or the "st" filter and checkActionPacket().  A packet
\* without a tag is checked and applied by one filter, unless it is a "t".
CheckPacket ==
    LET tag == St(parser.op, parser.part)
        atomic == ~Streaming \/ ops[parser.op].kind = "n"
    IN /\ AtPacket /\ ~parser.checked
       /\ IF ImplicitTag THEN UNCHANGED <<reqs, tags, sctags, delivered>>
                         ELSE CheckSequenceTag(tag)
       /\ parser' = [parser EXCEPT !.checked = MayProceed(tag)]
       /\ running' = (atomic /\ MayProceed(tag))
       /\ UNCHANGED <<server, fetchnodes, scsn, stopsc, pendingsc, streaming,
                      actionpacketsCurrent, tree, db, used>>

\* sc_deltree(): is the node of move k there to be deleted?
NodeFound(k) == <<k, 1>> \notin applied \/ <<k, 2>> \in applied \/ k \notin purged

\* The tree after part p of operation k.  The "d" of a move that had been applied
\* before deletes the node again, at its new place.
TreeAfter(k, p) ==
    (IF ops[k].kind = "m" /\ p = 1 THEN applied \ {<<k, 2>>} ELSE applied) \cup {<<k, p>>}

IsnCanBeProcessed_DuringShare(deleted, merged) == ~deleted

\* isnCanBeProcessed(): the operation that "isn" belongs to is complete.
IsnCanBeProcessed(deleted, merged) == ~deleted /\ merged

ApplyPacket ==
    LET k == parser.op
        p == parser.part
        kind == ops[k].kind
        deleted == kind = "m" /\ p = 1 /\ NodeFound(k)
        merged == ~(kind = "s" /\ p = 1)
        isn == IF p = 1 /\ ops[k].isn THEN k ELSE streaming.mInterimSn
        store == Streaming /\ isn # NoSn /\ IsnCanBeProcessed(deleted, merged)
    IN /\ AtPacket /\ parser.checked
       /\ applied' = TreeAfter(k, p)
       /\ purged' = IF p = 2 THEN purged \ {k} ELSE purged
       /\ streaming' = [mInterimSn |-> IF store \/ ~Streaming THEN NoSn ELSE isn,
                        mNeedToPurge |-> streaming.mNeedToPurge \/ store,
                        mLastAPDeletedNode |-> deleted,
                        mIsNewSharesMerged |-> merged]
       /\ scsn' = IF store THEN isn ELSE scsn
       /\ parser' = IF p < Parts(kind)
                    THEN [parser EXCEPT !.part = p + 1, !.checked = FALSE]
                    ELSE [parser EXCEPT !.op = k + 1, !.part = 1, !.checked = FALSE]
       /\ running' = ~Streaming
       /\ UNCHANGED <<server, reqs, fetchnodes, stopsc, pendingsc, tags, sctags,
                      actionpacketsCurrent, db, delivered, used>>

\* A chunk ends, MIN_COMMIT_INTERVAL after the last commit.
CommitInterim ==
    /\ Streaming /\ ~running /\ streaming.mNeedToPurge
    /\ PurgeAndCommit(scsn)
    /\ streaming' = [streaming EXCEPT !.mNeedToPurge = FALSE]
    /\ UNCHANGED <<server, reqs, fetchnodes, scsn, stopsc, pendingsc, parser, running,
                   tags, sctags, actionpacketsCurrent, applied, delivered, used>>

\* No more packets: the results that waited for the last tag are due.
ArrayEnds ==
    /\ parser.stage = "a" /\ parser.op > pendingsc.upto
    /\ CheckSequenceTag(NoTag)
    /\ parser' = [parser EXCEPT !.stage = "sn"]
    /\ UNCHANGED <<server, fetchnodes, scsn, stopsc, pendingsc, running, streaming,
                   actionpacketsCurrent, tree, db, used>>

StoreSn ==
    /\ parser.stage = "sn"
    /\ scsn' = pendingsc.upto
    /\ PurgeAndCommit(pendingsc.upto)
    /\ streaming' = [streaming EXCEPT !.mNeedToPurge = FALSE]
    /\ parser' = [parser EXCEPT !.stage = "eoo"]
    /\ UNCHANGED <<server, reqs, fetchnodes, stopsc, pendingsc, running, tags, sctags,
                   actionpacketsCurrent, applied, delivered, used>>

ScTagNotCaughtUp_Ignored == FALSE

ScTagNotCaughtUp ==
    /\ seqTag # NoTag /\ mLargestEverSeenScSeqTag # NoTag
    /\ seqTag < mLargestEverSeenScSeqTag

\* sc_procEoo(): may the syncs look at the tree again?
ProcEoo ==
    /\ parser.stage = "eoo"
    /\ actionpacketsCurrent' = (~pendingsc.ir /\ ~ScTagNotCaughtUp)
    /\ fetchingnodes' = (fetchingnodes /\ pendingsc.ir)
    /\ pendingsc' = NoRequest /\ parser' = NoParser /\ streaming' = NoStreaming
    /\ running' = FALSE
    /\ UNCHANGED <<server, reqs, fetch, scsn, stopsc, tags, sctags, tree, db, delivered,
                   used>>

CurrentOnResume_AsCached == db.scsn # NoSn

\* init(): a tree from the state cache is not for the syncs to see yet.
CurrentOnResume == FALSE

\* The process dies; the next one resumes the session from the state cache, or
\* from the server if that is empty.
Restart ==
    /\ Use("restarts", MaxRestarts)
    /\ batch' = <<>> /\ cs' = "idle" /\ processindex' = 1
    /\ fetch' = IF db.scsn = NoSn THEN "cached" ELSE "none"
    /\ fetchingnodes' = TRUE
    /\ scsn' = db.scsn /\ stopsc' = FALSE
    /\ pendingsc' = NoRequest /\ parser' = NoParser /\ running' = FALSE
    /\ streaming' = NoStreaming
    /\ mCurrentSeqtag' = NoTag /\ mCurrentSeqtagSeen' = FALSE
    /\ mLastReceivedScSeqTag' = NoTag /\ mLargestEverSeenScSeqTag' = NoTag
    /\ seqTag' = db.seqTag /\ reported' = db.seqTag
    /\ actionpacketsCurrent' = CurrentOnResume
    /\ applied' = db.applied /\ purged' = HalfMoved(db.applied)
    /\ UNCHANGED <<server, db, delivered>>

ScRead == ScStart \/ CheckPacket \/ ApplyPacket \/ ArrayEnds \/ StoreSn \/ ProcEoo

Next ==
    \/ OtherClientActs \/ NotifyPurge
    \/ SendBatch \/ SendFetchNodes \/ ApiExecutes \/ ApiRefuses \/ CsResponse
    \/ FetchNodesBegins \/ FetchNodesEnds \/ FetchNodes
    \/ ScRequest \/ ApiTooMany \/ ScFails \/ ScRead \/ CommitInterim \/ Restart
    \/ \E upto \in pendingsc.from..Len(ops), ir \in BOOLEAN : ApiAnswers(upto, ir)

Spec == Init /\ [][Next]_vars

\* exec() runs again and again and does each of these when it can; the API ends up
\* executing what it refused and answering an sc request.
Fairness ==
    /\ WF_vars(ScRequest) /\ WF_vars(ScRead)
    /\ WF_vars(CsResponse) /\ WF_vars(SendFetchNodes)
    /\ WF_vars(FetchNodesBegins) /\ WF_vars(FetchNodesEnds)
    /\ WF_vars(ApiExecutes) /\ WF_vars(ApiRefuses /\ cs = "refused")
    /\ WF_vars(\E upto \in pendingsc.from..Len(ops), ir \in BOOLEAN : ApiAnswers(upto, ir))

FairSpec == Spec /\ Fairness

-----------------------------------------------------------------------------
(* Properties.                                                             *)

Tagged == {"u", "m", "s"}

TypeOK ==
    /\ ops \in Seq([kind : {"u", "n", "m", "s"}, isn : BOOLEAN])
    /\ batch \in Seq([kind : {"u", "m", "p", "cached", "nocache"}, st : Nat \cup {NoTag}])
    /\ cs \in {"idle", "sent", "executed", "refused", "processing"}
    /\ cs = "idle" <=> batch = <<>>
    /\ processindex \in 1..(Len(batch) + 1)
    /\ fetch \in {"none", "cached", "nocache"}
    /\ {scsn, db.scsn} \subseteq {NoSn} \cup 0..Len(ops)
    /\ {fetchingnodes, stopsc, running, mCurrentSeqtagSeen, actionpacketsCurrent} \subseteq BOOLEAN
    /\ pendingsc.status \in {"none", "sent", "answered"}
    /\ parser.stage \in {"idle", "a", "sn", "eoo"}
    /\ parser.stage # "idle" => pendingsc.status = "answered"
    /\ {mCurrentSeqtag, mLastReceivedScSeqTag, mLargestEverSeenScSeqTag, seqTag,
        reported, db.seqTag} \subseteq {NoTag} \cup 0..Len(ops)
    /\ {applied, db.applied} \subseteq SUBSET PacketsUpTo(Len(ops))
    /\ purged \subseteq HalfMoved(applied)

\* The client never asks for packets beyond one it has not applied, nor would it
\* after a restart: scsn and the committed tree belong together.
NothingSkipped ==
    /\ PacketsUpTo(scsn) \subseteq applied
    /\ PacketsUpTo(db.scsn) \subseteq db.applied

\* processSeqTag(): a result is handed out after all packets of its tag and before
\* any packet with a later tag.
ResultsInStep ==
    [][\A k \in delivered' \ delivered :
          ScsnReady =>
             /\ Packets(k) \subseteq applied
             /\ \A j \in (k + 1)..Len(ops) :
                   ops[j].kind \in Tagged => Packets(j) \cap applied = {}]_vars

\* assert(tag < mCurrentSeqtag) in sc_checkSequenceTag(): a tag that a result waits
\* for has not gone by already.
ExpectedTagsToCome ==
    cs = "processing" /\ ~IsFetchNodes =>
        \A j \in processindex..Len(batch) :
            /\ batch[j].st # NoTag
            /\ ~(j = processindex /\ mCurrentSeqtagSeen)
            => <<batch[j].st, 1>> \notin applied

\* assert(!mCurrentSeqtagSeen) in sc_storeSn(): no result is left behind when scsn
\* moves past its tag.
NoResultLeftBehind == parser.stage \in {"sn", "eoo"} => ~mCurrentSeqtagSeen

\* The packets that carry the reported tag or an earlier one are applied.
TagsApplied ==
    \A k \in 1..reported : \A p \in 1..Parts(ops[k].kind) :
        St(k, p) # NoTag => <<k, p>> \in applied

\* sc_procEoo(): the syncs are not let loose on a tree with half of an operation.
SyncsSeeWholeOperations ==
    actionpacketsCurrent =>
        \A k \in 1..Len(ops) : Packets(k) \subseteq applied \/ Packets(k) \cap applied = {}

\* sc_procEoo(): after a reload the syncs see no tree older than the packets they
\* were shown before.  A tag that came with fetchnodes or from the state cache does
\* not count: only those of packets get into mLargestEverSeenScSeqTag.
SyncsNeverGoBack ==
    actionpacketsCurrent =>
        \A k \in 1..mLargestEverSeenScSeqTag :
            ops[k].kind \in Tagged => Packets(k) \subseteq applied

\* procresultcs(): every batch that the API has executed gets all its results, with
\* failing requests, streams cut short and restarts in between.  The exception is a
\* reload that waits behind the batch: fetchnodes() set stopsc, so the packets that
\* the rest of the results wait for are not asked for.
ResultsDelivered == cs = "executed" ~> cs = "idle" \/ fetch # "none"

\* procsc(): the tree catches up with the log, with the same exception, and that of
\* a move in a stream that was cut between its packets (NothingSkipped).
CatchesUp ==
    <>[](\/ fetch # "none"
         \/ \A k \in 1..Len(ops) :
               Packets(k) \subseteq applied \/ (Streaming /\ ops[k].kind = "m" /\ used.aborts > 0))
=============================================================================
