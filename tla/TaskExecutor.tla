----------------------------- MODULE TaskExecutor -----------------------------
(***************************************************************************)
(* common::TaskExecutor, Task and TaskQueue: a pool of worker threads that *)
(* execute tasks when they are due, which the file service and FUSE mounts *)
(* use.                                                                    *)
(*                                                                         *)
(* What a thread does with mLock held is one step.  Time is kept as what   *)
(* is left of every delay; a Tick takes one unit from each of them.        *)
(***************************************************************************)
EXTENDS Integers, FiniteSets

CONSTANTS
    Task,       \* the tasks that are given to execute()
    Worker,     \* bound: names for the worker threads
    Delays,     \* how far ahead of its due time a task may be queued
    IdleTime,   \* TaskExecutorFlags::mIdleTime
    Flags       \* the flags the executor is given, [min, max] of its workers

None == "none"

ASSUME TaskExecutorAssumption ==
    /\ IsFiniteSet(Worker) /\ None \notin Worker \cup Task
    /\ Delays \subseteq Nat /\ IdleTime \in Nat
    /\ Flags \subseteq [min : Nat, max : Nat \ {0}]

VARIABLES
    mStatus,            \* TaskContext::mStatus of every task
    calls,              \* how often its function has been called
    left,               \* the time until the task is due
    mTasks,             \* TaskQueue: the queued tasks
    mWorkers,           \* the list of workers
    mAvailableWorkers,
    mFlags,
    mTerminating,
    state,              \* where every worker thread is
    sleep,              \* the time until its wait ends
    job,                \* the task it has taken
    notifying,          \* calls of execute() between unlock() and notify_one()
    dtor,               \* where ~TaskExecutor() is
    joinee              \* the worker it waits for

taskvars == <<mStatus, calls, left>>
workervars == <<state, sleep, job>>
poolvars == <<mWorkers, mAvailableWorkers>>
dtorvars == <<mTerminating, dtor, joinee>>
vars == <<taskvars, mTasks, poolvars, mFlags, workervars, notifying, dtorvars>>

Init ==
    /\ mStatus = [t \in Task |-> "new"] /\ calls = [t \in Task |-> 0]
    /\ left = [t \in Task |-> 0] /\ mTasks = {}
    /\ mWorkers = {} /\ mAvailableWorkers = 0
    /\ mFlags \in Flags
    /\ state = [w \in Worker |-> "none"] /\ sleep = [w \in Worker |-> 0]
    /\ job = [w \in Worker |-> None]
    /\ notifying = 0
    /\ mTerminating = FALSE /\ dtor = "no" /\ joinee = None

-----------------------------------------------------------------------------
(* Tasks.                                                                  *)

ExecuteTask_Always(t, desired) ==
    /\ mStatus' = [mStatus EXCEPT ![t] = desired]
    /\ calls' = [calls EXCEPT ![t] = @ + 1]

\* TaskContext::execute(): only the first to change the status calls the function.
ExecuteTask(t, desired) ==
    IF mStatus[t] = "cancellable"
    THEN /\ mStatus' = [mStatus EXCEPT ![t] = desired]
         /\ calls' = [calls EXCEPT ![t] = @ + 1]
    ELSE UNCHANGED <<mStatus, calls>>

\* The front of the heap: a task with the earliest due time.  Of the tasks that are
\* overdue any may be the first.
FirstTasks == {t \in mTasks : \A u \in mTasks : left[t] <= left[u]}

\* TaskQueue::ready().
Ready == \E t \in mTasks : left[t] = 0

-----------------------------------------------------------------------------
(* Clients of the executor.                                                *)

\* mCV.notify_one(), after mLock was released.
NotifyOne ==
    /\ notifying > 0
    /\ notifying' = notifying - 1
    /\ IF \E w \in Worker : state[w] = "waiting"
       THEN \E w \in Worker : state[w] = "waiting" /\ state' = [state EXCEPT ![w] = "notified"]
       ELSE UNCHANGED state
    /\ UNCHANGED <<taskvars, mTasks, poolvars, mFlags, sleep, job, dtorvars>>

SpawnWorker(spawnWorker) ==
    /\ (spawnWorker /\ mAvailableWorkers = 0) \/ mWorkers = {}
    /\ Cardinality(mWorkers) < mFlags.max

\* execute(), for a new task that is due after d.
Execute(t, d, spawnWorker) ==
    /\ mStatus[t] = "new" /\ ~mTerminating
    /\ mStatus' = [mStatus EXCEPT ![t] = "cancellable"]
    /\ left' = [left EXCEPT ![t] = d]
    /\ mTasks' = mTasks \cup {t}
    /\ IF SpawnWorker(spawnWorker)
       THEN \E w \in Worker :
                /\ state[w] = "none"
                /\ state' = [state EXCEPT ![w] = "started"]
                /\ mWorkers' = mWorkers \cup {w}
                /\ mAvailableWorkers' = mAvailableWorkers + 1
       ELSE UNCHANGED <<state, poolvars>>
    /\ notifying' = notifying + 1
    /\ UNCHANGED <<calls, mFlags, sleep, job, dtorvars>>

\* execute() when the executor is being terminated: the task is cancelled.
ExecuteTerminating(t) ==
    /\ mStatus[t] = "new" /\ mTerminating /\ dtor # "destroyed"
    /\ mStatus' = [mStatus EXCEPT ![t] = "cancelled"]
    /\ calls' = [calls EXCEPT ![t] = @ + 1]
    /\ UNCHANGED <<left, mTasks, poolvars, mFlags, workervars, notifying, dtorvars>>

\* Task::cancel() or abort(), by whoever holds a reference; the task stays in the
\* queue.
Cancel(t, desired) ==
    /\ mStatus[t] # "new"
    /\ ExecuteTask(t, desired)
    /\ UNCHANGED <<left, mTasks, poolvars, mFlags, workervars, notifying, dtorvars>>

\* mCV.notify_all().
NotifyAll ==
    state' = [w \in Worker |-> IF state[w] = "waiting" THEN "notified" ELSE state[w]]

\* flags(): new flags for the executor.
SetFlags(flags) ==
    /\ dtor = "no" /\ flags # mFlags
    /\ mFlags' = flags
    /\ NotifyAll
    /\ UNCHANGED <<taskvars, mTasks, poolvars, sleep, job, notifying, dtorvars>>

-----------------------------------------------------------------------------
(* Worker::loop().                                                         *)

\* The time left until nextWakeup().
NextWakeup_Idle == IdleTime

NextWakeup == IF mTasks = {} THEN IdleTime ELSE left[CHOOSE t \in FirstTasks : TRUE]

\* The top of the loop: leave when there are too many workers, or wait.  A worker
\* that leaves here stays in mWorkers.
LoopTop(w, available) ==
    IF Cardinality(mWorkers) > mFlags.max
    THEN /\ state' = [state EXCEPT ![w] = "stopped"]
         /\ mAvailableWorkers' = available - 1
         /\ UNCHANGED sleep
    ELSE /\ state' = [state EXCEPT ![w] = "waiting"]
         /\ mAvailableWorkers' = available
         /\ sleep' = [sleep EXCEPT ![w] = NextWakeup]

Start(w) ==
    /\ state[w] = "started"
    /\ LoopTop(w, mAvailableWorkers)
    /\ UNCHANGED <<taskvars, mTasks, mWorkers, mFlags, job, notifying, dtorvars>>

\* wait_until() is over by its time.
TimeOut(w) ==
    /\ state[w] = "waiting" /\ sleep[w] = 0
    /\ state' = [state EXCEPT ![w] = "timedout"]
    /\ UNCHANGED <<taskvars, mTasks, poolvars, mFlags, sleep, job, notifying, dtorvars>>

Awake(w) == state[w] \in {"notified", "timedout"}

StaysIdle_LeavesTasks(w) ==
    \/ state[w] = "notified"
    \/ mFlags.min >= Cardinality(mWorkers)

\* Nothing to do: was it a notification, is this worker one of the minimum, or is
\* it the last one and are there tasks?
StaysIdle(w) ==
    \/ state[w] = "notified"
    \/ mFlags.min >= Cardinality(mWorkers)
    \/ mTasks # {} /\ Cardinality(mWorkers) < 2

WaitAgain(w) ==
    /\ Awake(w) /\ ~mTerminating /\ ~Ready /\ StaysIdle(w)
    /\ LoopTop(w, mAvailableWorkers)
    /\ UNCHANGED <<taskvars, mTasks, mWorkers, mFlags, job, notifying, dtorvars>>

LeaveIdle_KeepsEntry(w) ==
    /\ Awake(w) /\ ~mTerminating /\ ~Ready /\ ~StaysIdle(w)
    /\ mAvailableWorkers' = mAvailableWorkers - 1
    /\ state' = [state EXCEPT ![w] = "none"]
    /\ UNCHANGED <<taskvars, mTasks, mWorkers, mFlags, sleep, job, notifying, dtorvars>>

\* The idle worker detaches its thread and removes itself.
LeaveIdle(w) ==
    /\ Awake(w) /\ ~mTerminating /\ ~Ready /\ ~StaysIdle(w)
    /\ mAvailableWorkers' = mAvailableWorkers - 1
    /\ mWorkers' = mWorkers \ {w}
    /\ state' = [state EXCEPT ![w] = "none"]
    /\ UNCHANGED <<taskvars, mTasks, mFlags, sleep, job, notifying, dtorvars>>

\* The worker leaves and stays in mWorkers, where ~TaskExecutor() finds it.
Quit(w) ==
    /\ Awake(w) /\ mTerminating
    /\ mAvailableWorkers' = mAvailableWorkers - 1
    /\ state' = [state EXCEPT ![w] = "stopped"]
    /\ UNCHANGED <<taskvars, mTasks, mWorkers, mFlags, sleep, job, notifying, dtorvars>>

Dequeue(w) ==
    /\ Awake(w) /\ ~mTerminating /\ Ready
    /\ \E t \in FirstTasks :
           mTasks' = mTasks \ {t} /\ job' = [job EXCEPT ![w] = t]
    /\ mAvailableWorkers' = mAvailableWorkers - 1
    /\ state' = [state EXCEPT ![w] = "dequeued"]
    /\ UNCHANGED <<taskvars, mWorkers, mFlags, sleep, notifying, dtorvars>>

\* task.complete(), without mLock.
Complete(w) ==
    /\ state[w] = "dequeued"
    /\ ExecuteTask(job[w], "completed")
    /\ state' = [state EXCEPT ![w] = "completing"]
    /\ UNCHANGED <<left, mTasks, poolvars, mFlags, sleep, job, notifying, dtorvars>>

CompleteEnds_NotAvailable(w) ==
    /\ state[w] = "completing"
    /\ job' = [job EXCEPT ![w] = None]
    /\ LoopTop(w, mAvailableWorkers)
    /\ UNCHANGED <<taskvars, mTasks, mWorkers, mFlags, notifying, dtorvars>>

\* The function has returned, and mLock is taken again.
CompleteEnds(w) ==
    /\ state[w] = "completing"
    /\ job' = [job EXCEPT ![w] = None]
    /\ LoopTop(w, mAvailableWorkers + 1)
    /\ UNCHANGED <<taskvars, mTasks, mWorkers, mFlags, notifying, dtorvars>>

-----------------------------------------------------------------------------
(* ~TaskExecutor().                                                        *)

Terminate ==
    /\ dtor = "no"
    /\ mTerminating' = TRUE /\ dtor' = "joining"
    /\ NotifyAll
    /\ UNCHANGED <<taskvars, mTasks, poolvars, mFlags, sleep, job, notifying, joinee>>

JoinWorker(w) ==
    /\ dtor = "joining" /\ joinee = None /\ w \in mWorkers
    /\ joinee' = w /\ mWorkers' = mWorkers \ {w}
    /\ UNCHANGED <<taskvars, mTasks, mAvailableWorkers, mFlags, workervars, notifying,
                   mTerminating, dtor>>

WorkerJoined ==
    /\ joinee # None /\ state[joinee] = "stopped"
    /\ state' = [state EXCEPT ![joinee] = "none"] /\ joinee' = None
    /\ UNCHANGED <<taskvars, mTasks, poolvars, mFlags, sleep, job, notifying, mTerminating, dtor>>

\* ~TaskQueue() aborts what is left.
AbortTask(t) ==
    /\ dtor = "joining" /\ joinee = None /\ mWorkers = {}
    /\ t \in mTasks
    /\ ExecuteTask(t, "aborted")
    /\ mTasks' = mTasks \ {t}
    /\ UNCHANGED <<left, poolvars, mFlags, workervars, notifying, dtorvars>>

\* The calls of execute() that outlast Terminate are made by tasks' functions.
Destroyed ==
    /\ dtor = "joining" /\ joinee = None /\ mWorkers = {} /\ mTasks = {} /\ notifying = 0
    /\ dtor' = "destroyed"
    /\ UNCHANGED <<taskvars, mTasks, poolvars, mFlags, workervars, notifying, mTerminating, joinee>>

\* Time passes.
Tick ==
    /\ left' = [t \in Task |-> IF left[t] > 0 THEN left[t] - 1 ELSE 0]
    /\ sleep' = [w \in Worker |-> IF sleep[w] > 0 THEN sleep[w] - 1 ELSE 0]
    /\ UNCHANGED <<mStatus, calls, mTasks, poolvars, mFlags, state, job, notifying, dtorvars>>

-----------------------------------------------------------------------------
WorkerStep(w) ==
    \/ Start(w) \/ TimeOut(w) \/ WaitAgain(w) \/ LeaveIdle(w) \/ Quit(w) \/ Dequeue(w)
    \/ Complete(w) \/ CompleteEnds(w)

Destructor ==
    (\E w \in Worker : JoinWorker(w)) \/ WorkerJoined \/ (\E t \in Task : AbortTask(t)) \/ Destroyed

Next ==
    \/ \E t \in Task, d \in Delays, spawnWorker \in BOOLEAN : Execute(t, d, spawnWorker)
    \/ \E t \in Task : ExecuteTerminating(t)
    \/ \E t \in Task, desired \in {"cancelled", "aborted"} : Cancel(t, desired)
    \/ \E flags \in Flags : SetFlags(flags)
    \/ NotifyOne \/ Terminate \/ Destructor \/ Tick
    \/ \E w \in Worker : WorkerStep(w)

Spec == Init /\ [][Next]_vars

\* Threads go on, tasks' functions return and time passes; nobody has to cancel a
\* task or to destroy the executor, but a destructor that has begun goes on.
Fairness ==
    /\ \A w \in Worker : WF_vars(WorkerStep(w))
    /\ WF_vars(NotifyOne) /\ WF_vars(Destructor) /\ WF_vars(Tick)

FairSpec == Spec /\ Fairness

-----------------------------------------------------------------------------
(* Properties.                                                             *)

Statuses == {"new", "cancellable", "completed", "cancelled", "aborted"}
States == {"none", "started", "waiting", "notified", "timedout", "dequeued", "completing", "stopped"}

\* The threads that are not busy, those that wait for mLock included.
Idle == {w \in Worker : state[w] \in {"started", "waiting", "notified", "timedout"}}
Busy == {w \in Worker : state[w] \in {"dequeued", "completing"}}

\* mAvailableWorkers counts the workers that are waiting for work, however they
\* leave: it never wraps below zero, and never hides that one has to be spawned.
AvailableAreIdle == mAvailableWorkers = Cardinality(Idle)

\* A task's function is called once, by a worker, by cancel() or by abort(),
\* whoever is first, and when the executor is gone it has been called.
CalledOnce ==
    \A t \in Task :
        /\ calls[t] = IF mStatus[t] \in {"new", "cancellable"} THEN 0 ELSE 1
        /\ dtor = "destroyed" => mStatus[t] # "cancellable"

\* "Keep at least a single worker alive if there tasks pending": a queued task has
\* a thread that can execute it.
PendingHasWorker == mTasks # {} /\ ~mTerminating => Idle \cup Busy # {}

\* When all workers sleep and no notification is under way, one of them wakes up
\* by the time the next task is due: no notification is lost.
WakesInTime ==
    mTasks # {} /\ ~mTerminating /\ notifying = 0 /\ Idle \cup Busy # {}
        /\ (\A w \in Idle \cup Busy : state[w] = "waiting")
    => \E w \in Idle : \A t \in FirstTasks : sleep[w] <= left[t]

\* Every queued task's function is called: the pool never runs out of workers, and
\* none of them sleeps for ever, as long as mMaxWorkers is not lowered.
EveryTaskIsCalled == \A t \in Task : mStatus[t] = "cancellable" ~> mStatus[t] # "cancellable"

\* ~TaskExecutor() gets to the end: every worker it waits for leaves its loop,
\* also one that was busy when all the others were notified.
DestructorReturns == mTerminating ~> dtor = "destroyed"
=============================================================================
