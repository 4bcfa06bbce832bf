------------------------ MODULE MCRequestDispatcher ------------------------
(* The cs channel seen as a queue of commands: what it implements, and that no *)
(* command waits in it for ever.                                               *)
EXTENDS RequestDispatcher, FiniteSets

\* The concatenation of two sequences, as an operator with a name.
Join(s, t) == s \o t

\* The commands of the batches of q, in order.
Queued(q) ==
    LET upTo[i \in 0 .. Len(q)] == IF i = 0 THEN <<>> ELSE Join(upTo[i - 1], q[i].cmds)
    IN  upTo[Len(q)]

\* The commands of a batch that have no result yet.
Rest(cmds, i) == SubSeq(cmds, i + 1, Len(cmds))

\* The commands that still wait for a result, in order.
Pending == Join(Rest(inflightreq.cmds, processindex), Queued(nextreqs))

\* The batches the API server executed a command in.
Executions(c) == {m \in served : c \in Commands(m.out)}

\* How often the API server executed each command.
Counts == [c \in Cmd |-> Cardinality(Executions(c))]

\* The cs channel is an ordered queue of commands, each executed at most once and
\* answered in order, exactly once, unless the whole queue is cleared.
Queue == INSTANCE CommandQueue WITH
    queue <- Pending,
    results <- completed,
    executions <- Counts,
    closing <- clearWhenSafe

ImplementsCommandQueue == Queue!Spec

\* Every queued command is eventually answered or cleared: no failed, refused or
\* paused batch blocks the channel for good (readyToSend, inflightFailure), unless
\* the retry of a chunked reply was taken for its continuation (RetriesAreNeutral).
EveryCommandAnswered ==
    \A c \in Cmd : c \in Commands(Pending) ~> c \notin Commands(Pending) \/ parsed = Garbled
=============================================================================
