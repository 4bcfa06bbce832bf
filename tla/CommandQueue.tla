---------------------------- MODULE CommandQueue ----------------------------
(***************************************************************************)
(* What the cs channel promises to the code that queues commands: results   *)
(* come in the order of queueing, one for each command; a successful result *)
(* means that the API executed the command, and it executes none twice.     *)
(***************************************************************************)
EXTENDS Naturals, Sequences

CONSTANT Cmd

VARIABLES
    fresh,       \* commands not queued yet
    queue,       \* commands that wait for a result
    executions,  \* how often the API executed each command
    results,     \* results handed out since the queue was last cleared
    closing      \* a result asked for a clear, which is still to happen

vars == <<fresh, queue, executions, results, closing>>

Init ==
    /\ fresh = Cmd
    /\ queue = <<>>
    /\ executions = [c \in Cmd |-> 0]
    /\ results = <<>>
    /\ closing = FALSE

Enqueue(c) ==
    /\ c \in fresh
    /\ fresh' = fresh \ {c}
    /\ queue' = Append(queue, c)
    /\ UNCHANGED <<executions, results, closing>>

\* A batch may be executed after the client has given it up.
Execute(batch) ==
    /\ batch \cap fresh = {}
    /\ \A c \in batch : executions[c] = 0
    /\ executions' = [c \in Cmd |-> IF c \in batch THEN 1 ELSE executions[c]]
    /\ UNCHANGED <<fresh, queue, results, closing>>

Answer(outcome) ==
    /\ ~closing
    /\ queue # <<>>
    /\ outcome = "[" => executions[Head(queue)] = 1
    /\ results' = Append(results, [cmd |-> Head(queue), from |-> Head(queue),
                                   outcome |-> outcome])
    /\ queue' = Tail(queue)
    /\ closing' \in BOOLEAN
    /\ UNCHANGED <<fresh, executions>>

Clear ==
    /\ queue' = <<>>
    /\ results' = <<>>
    /\ closing' = FALSE
    /\ UNCHANGED <<fresh, executions>>

Next ==
    \/ \E c \in Cmd : Enqueue(c)
    \/ \E batch \in SUBSET Cmd : Execute(batch)
    \/ \E outcome \in {"[", "error", "EINTERNAL"} : Answer(outcome)
    \/ Clear

Spec == Init /\ [][Next]_vars
=============================================================================
