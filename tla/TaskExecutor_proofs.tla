------------------------- MODULE TaskExecutor_proofs --------------------------
(***************************************************************************)
(* Proofs about TaskExecutor, for any tasks, workers, delays and flags,    *)
(* flags that lower mMaxWorkers included: every task's function is called  *)
(* exactly once, mAvailableWorkers is the number of idle workers, and no   *)
(* notification is lost: a sleeping worker wakes up when a task is due.    *)
(***************************************************************************)
EXTENDS TaskExecutor, FiniteSetTheorems, WellFoundedInduction, TLAPS

\* Every thread can be joined, and when the executor is gone so are the threads.
Threads ==
    /\ state \in [Worker -> States] /\ mWorkers \subseteq Worker
    /\ joinee \in Worker \cup {None}
    /\ dtor \in {"no", "joining", "destroyed"} /\ mTerminating = (dtor # "no")
    /\ \A w \in Worker : state[w] # "none" => w \in mWorkers \/ w = joinee
    /\ dtor = "destroyed" => mTasks = {} /\ mWorkers = {} /\ joinee = None

\* A task whose function is still to be called is in the queue, or a worker has it.
Owned ==
    /\ mStatus \in [Task -> Statuses] /\ calls \in [Task -> Nat] /\ mTasks \subseteq Task
    /\ job \in [Worker -> Task \cup {None}]
    /\ \A w \in Worker : state[w] = "dequeued" => job[w] \in Task
    /\ \A t \in Task : calls[t] = IF mStatus[t] \in {"new", "cancellable"} THEN 0 ELSE 1
    /\ \A t \in Task : mStatus[t] = "cancellable" =>
           t \in mTasks \/ \E w \in Worker : state[w] = "dequeued" /\ job[w] = t

\* Both hold in the initial states.
LEMMA InitOwned == Init => Threads /\ Owned
<1> SUFFICES ASSUME Init PROVE Threads /\ Owned
  OBVIOUS
<1>1. Threads
  BY Zenon DEF Init, Threads, States
<1>2. Owned
  BY DEF Init, Owned, Statuses
<1> QED
  BY <1>1, <1>2

\* Every step keeps Threads.
LEMMA NextThreads == Threads /\ [Next]_vars => Threads'
<1> SUFFICES ASSUME Threads, [Next]_vars PROVE Threads'
  OBVIOUS
<1> USE TaskExecutorAssumption DEF Threads, States, poolvars, workervars, dtorvars
<1>1. ASSUME NEW t \in Task, NEW d \in Delays, NEW s \in BOOLEAN, Execute(t, d, s) PROVE Threads'
  <2>1. CASE SpawnWorker(s)
    BY ZenonT(30), <1>1, <2>1 DEF Execute
  <2>2. CASE ~SpawnWorker(s)
    BY Zenon, <1>1, <2>2 DEF Execute
  <2> QED
    BY <2>1, <2>2
<1>2. CASE \/ \E t \in Task : ExecuteTerminating(t)
           \/ \E t \in Task, desired \in {"cancelled", "aborted"} : Cancel(t, desired)
  BY <1>2 DEF ExecuteTerminating, Cancel
<1>3. ASSUME NEW flags \in Flags, SetFlags(flags) PROVE Threads'
  BY <1>3 DEF SetFlags, NotifyAll
<1>4. CASE NotifyOne
  BY <1>4 DEF NotifyOne
<1>5. CASE Terminate
  BY Zenon, <1>5 DEF Terminate, NotifyAll
<1>6. CASE Destructor
  <2>1. ASSUME NEW w \in Worker, JoinWorker(w) PROVE Threads'
    BY <2>1 DEF JoinWorker
  <2>2. CASE WorkerJoined
    BY <2>2 DEF WorkerJoined
  <2>3. ASSUME NEW t \in Task, AbortTask(t) PROVE Threads'
    BY <2>3 DEF AbortTask
  <2>4. CASE Destroyed
    BY <2>4 DEF Destroyed
  <2> QED
    BY <1>6, <2>1, <2>2, <2>3, <2>4 DEF Destructor
<1>7. CASE Tick
  BY <1>7 DEF Tick
<1>8. ASSUME NEW w \in Worker, WorkerStep(w) PROVE Threads'
  <2>1. CASE Start(w) \/ WaitAgain(w) \/ CompleteEnds(w)
    <3>1. state[w] # "none" /\ dtor' = dtor /\ joinee' = joinee /\ mWorkers' = mWorkers
              /\ mTerminating' = mTerminating /\ mTasks' = mTasks
      BY <2>1 DEF Start, WaitAgain, CompleteEnds, Awake
    <3>2. state' = [state EXCEPT ![w] = "stopped"] \/ state' = [state EXCEPT ![w] = "waiting"]
      BY <2>1 DEF Start, WaitAgain, CompleteEnds, LoopTop
    <3> QED
      BY <3>1, <3>2
  <2>2. CASE TimeOut(w)
    BY <2>2 DEF TimeOut
  <2>3. CASE LeaveIdle(w)
    BY Zenon, <2>3 DEF LeaveIdle
  <2>4. CASE Quit(w)
    BY Zenon, <2>4 DEF Quit, Awake
  <2>5. CASE Dequeue(w)
    BY <2>5 DEF Dequeue, Awake
  <2>6. CASE Complete(w)
    BY <2>6 DEF Complete
  <2> QED
    BY Zenon, <1>8, <2>1, <2>2, <2>3, <2>4, <2>5, <2>6 DEF WorkerStep
<1>9. CASE UNCHANGED vars
  BY <1>9 DEF vars
<1> QED
  BY <1>1, <1>2, <1>3, <1>4, <1>5, <1>6, <1>7, <1>8, <1>9 DEF Next

\* Whoever is first calls the function; nobody else does.
LEMMA FirstCalls ==
    ASSUME Owned, NEW t \in Task, NEW desired \in {"completed", "cancelled", "aborted"},
           ExecuteTask(t, desired)
    PROVE  /\ mStatus' \in [Task -> Statuses] /\ calls' \in [Task -> Nat]
           /\ mStatus'[t] # "cancellable" \/ mStatus[t] = "new"
           /\ \A u \in Task : calls'[u] = IF mStatus'[u] \in {"new", "cancellable"} THEN 0 ELSE 1
           /\ \A u \in Task : mStatus'[u] = "cancellable" => mStatus[u] = "cancellable"
<1>1. CASE mStatus[t] = "cancellable"
  BY <1>1 DEF Owned, ExecuteTask, Statuses
<1>2. CASE mStatus[t] # "cancellable"
  BY <1>2 DEF Owned, ExecuteTask, Statuses
<1> QED
  BY <1>1, <1>2

\* Every step keeps Owned.
LEMMA NextOwned == Threads /\ Owned /\ [Next]_vars => Owned'
<1> SUFFICES ASSUME Threads, Owned, [Next]_vars PROVE Owned'
  OBVIOUS
<1>a. state \in [Worker -> States]
  BY DEF Threads
<1> USE TaskExecutorAssumption, <1>a DEF taskvars, poolvars, workervars, dtorvars
<1>1. ASSUME NEW t \in Task, NEW d \in Delays, NEW s \in BOOLEAN, Execute(t, d, s) PROVE Owned'
  <2>1. /\ mStatus[t] = "new" /\ mStatus' = [mStatus EXCEPT ![t] = "cancellable"]
        /\ mTasks' = mTasks \cup {t} /\ calls' = calls /\ job' = job
    BY <1>1 DEF Execute
  <2>2. \A w \in Worker : state'[w] = "dequeued" <=> state[w] = "dequeued"
    BY <1>1 DEF Execute
  <2> QED
    BY <2>1, <2>2 DEF Owned, Statuses
<1>2. ASSUME NEW t \in Task, ExecuteTerminating(t) PROVE Owned'
  BY <1>2 DEF ExecuteTerminating, Owned, Statuses
<1>3. ASSUME NEW t \in Task, NEW desired \in {"cancelled", "aborted"}, Cancel(t, desired) PROVE Owned'
  BY <1>3, FirstCalls DEF Cancel, Owned
<1>4. ASSUME \/ \E flags \in Flags : SetFlags(flags)
             \/ NotifyOne \/ Terminate \/ Destroyed \/ Tick
             \/ \E w \in Worker : JoinWorker(w)
             \/ WorkerJoined
      PROVE  Owned'
  <2>1. mStatus' = mStatus /\ calls' = calls /\ job' = job /\ mTasks' = mTasks
    BY <1>4 DEF SetFlags, NotifyOne, Terminate, Destroyed, Tick, JoinWorker, WorkerJoined
  <2>2. \A w \in Worker : state'[w] = "dequeued" <=> state[w] = "dequeued"
    <3>1. CASE (\E flags \in Flags : SetFlags(flags)) \/ Terminate
      BY <3>1 DEF SetFlags, Terminate, NotifyAll
    <3>2. CASE NotifyOne
      BY <3>2 DEF NotifyOne
    <3>3. CASE WorkerJoined
      BY <3>3 DEF WorkerJoined, Threads
    <3>4. CASE Destroyed \/ Tick \/ \E w \in Worker : JoinWorker(w)
      BY <3>4 DEF Destroyed, Tick, JoinWorker
    <3> QED
      BY <1>4, <3>1, <3>2, <3>3, <3>4
  <2> QED
    BY <2>1, <2>2 DEF Owned
<1>5. ASSUME NEW t \in Task, AbortTask(t) PROVE Owned'
  <2>1. ExecuteTask(t, "aborted") /\ mTasks' = mTasks \ {t} /\ state' = state /\ job' = job
    BY <1>5 DEF AbortTask
  <2>2. mStatus'[t] # "cancellable"
    BY <2>1 DEF ExecuteTask, Owned
  <2> QED
    BY <2>1, <2>2, FirstCalls DEF Owned
<1>6. ASSUME NEW w \in Worker, WorkerStep(w) PROVE Owned'
  <2>1. CASE Start(w) \/ TimeOut(w) \/ WaitAgain(w) \/ LeaveIdle(w) \/ Quit(w) \/ CompleteEnds(w)
    <3>1. mStatus' = mStatus /\ calls' = calls /\ mTasks' = mTasks
      BY Zenon, <2>1 DEF Start, TimeOut, WaitAgain, LeaveIdle, Quit, CompleteEnds
    <3>2. state[w] # "dequeued" /\ (job' = job \/ job' = [job EXCEPT ![w] = None])
      BY <2>1 DEF Start, TimeOut, WaitAgain, LeaveIdle, Quit, CompleteEnds, Awake
    <3>3. \E s \in States \ {"dequeued"} : state' = [state EXCEPT ![w] = s]
      BY <2>1 DEF Start, TimeOut, WaitAgain, LeaveIdle, Quit, CompleteEnds, LoopTop, States
    <3> QED
      BY <3>1, <3>2, <3>3 DEF Owned
  <2>2. CASE Dequeue(w)
    <3>1. PICK t \in mTasks : mTasks' = mTasks \ {t} /\ job' = [job EXCEPT ![w] = t]
      BY Zenon, <2>2 DEF Dequeue, FirstTasks
    <3>2. /\ mStatus' = mStatus /\ calls' = calls /\ state[w] # "dequeued"
          /\ state' = [state EXCEPT ![w] = "dequeued"]
      BY <2>2 DEF Dequeue, Awake
    <3>3. t \in Task
      BY DEF Owned
    <3>4. state'[w] = "dequeued" /\ job'[w] = t
      BY <3>1, <3>2 DEF Owned
    <3>5. \A v \in Worker \ {w} : state'[v] = state[v] /\ job'[v] = job[v]
      BY <3>1, <3>2 DEF Owned
    <3>6. job' \in [Worker -> Task \cup {None}]
      BY <3>1, <3>3 DEF Owned
    <3> QED
      BY <3>1, <3>2, <3>3, <3>4, <3>5, <3>6 DEF Owned
  <2>3. CASE Complete(w)
    <3>1. /\ state[w] = "dequeued" /\ ExecuteTask(job[w], "completed")
          /\ state' = [state EXCEPT ![w] = "completing"] /\ mTasks' = mTasks /\ job' = job
      BY <2>3 DEF Complete
    <3>2. job[w] \in Task
      BY <3>1 DEF Owned
    <3>3. mStatus'[job[w]] # "cancellable"
      BY <3>1, <3>2 DEF ExecuteTask, Owned
    <3>4. /\ mStatus' \in [Task -> Statuses] /\ calls' \in [Task -> Nat]
          /\ \A u \in Task : calls'[u] = IF mStatus'[u] \in {"new", "cancellable"} THEN 0 ELSE 1
          /\ \A u \in Task : mStatus'[u] = "cancellable" => mStatus[u] = "cancellable"
      BY <3>1, <3>2, FirstCalls
    <3> QED
      BY <3>1, <3>2, <3>3, <3>4 DEF Owned
  <2> QED
    BY <1>6, <2>1, <2>2, <2>3 DEF WorkerStep
<1>7. CASE UNCHANGED vars
  BY <1>7 DEF vars, Owned
<1> QED
  BY <1>1, <1>2, <1>3, <1>4, <1>5, <1>6, <1>7 DEF Next, Destructor

\* A task's function is called at most once whoever completes, cancels or aborts
\* it (TaskContext::execute), and exactly once when the executor is gone
\* (~TaskExecutor, ~TaskQueue).
THEOREM TasksAreCalledOnce == Spec => []CalledOnce
<1>1. Init => Threads /\ Owned
  BY InitOwned
<1>2. Threads /\ Owned /\ [Next]_vars => Threads' /\ Owned'
  BY NextThreads, NextOwned
<1>3. Threads /\ Owned => CalledOnce
  <2> SUFFICES ASSUME Threads, Owned PROVE CalledOnce
    OBVIOUS
  <2>1. ASSUME dtor = "destroyed", NEW w \in Worker PROVE state[w] = "none"
    BY <2>1, TaskExecutorAssumption DEF Threads
  <2>2. ASSUME dtor = "destroyed", NEW t \in Task PROVE mStatus[t] # "cancellable"
    BY <2>1, <2>2 DEF Threads, Owned
  <2> QED
    BY <2>2 DEF Owned, CalledOnce
<1> QED
  BY <1>1, <1>2, <1>3, PTL DEF Spec

-----------------------------------------------------------------------------
\* The states of a worker that mAvailableWorkers counts.
IdleStates == {"started", "waiting", "notified", "timedout"}

\* One worker's move changes the number of idle ones by what it does itself.
LEMMA IdleAfter ==
    ASSUME state \in [Worker -> States], NEW w \in Worker, NEW s \in States,
           state' = [state EXCEPT ![w] = s]
    PROVE  /\ Cardinality(Idle) \in Nat
           /\ (s \in IdleStates <=> state[w] \in IdleStates) => Cardinality(Idle') = Cardinality(Idle)
           /\ s \in IdleStates /\ state[w] \notin IdleStates => Cardinality(Idle') = Cardinality(Idle) + 1
           /\ s \notin IdleStates /\ state[w] \in IdleStates => Cardinality(Idle') = Cardinality(Idle) - 1
<1>1. IsFiniteSet(Idle) /\ Cardinality(Idle) \in Nat
  BY TaskExecutorAssumption, FS_Subset, FS_CardinalityType DEF Idle
<1>2. CASE s \in IdleStates
  <2>1. Idle' = Idle \cup {w} /\ (w \in Idle <=> state[w] \in IdleStates)
    BY <1>2 DEF Idle, IdleStates
  <2>2. Cardinality(Idle \cup {w}) = IF w \in Idle THEN Cardinality(Idle) ELSE Cardinality(Idle) + 1
    BY Zenon, <1>1, FS_AddElement
  <2> QED
    BY <1>1, <1>2, <2>1, <2>2
<1>3. CASE s \notin IdleStates
  <2>1. Idle' = Idle \ {w} /\ (w \in Idle <=> state[w] \in IdleStates)
    BY <1>3 DEF Idle, IdleStates
  <2>2. Cardinality(Idle \ {w}) = IF w \in Idle THEN Cardinality(Idle) - 1 ELSE Cardinality(Idle)
    BY Zenon, <1>1, FS_RemoveElement
  <2> QED
    BY <1>1, <1>3, <2>1, <2>2
<1> QED
  BY <1>2, <1>3

\* Every step keeps mAvailableWorkers the number of idle workers.
LEMMA NextAvailable == Threads /\ AvailableAreIdle /\ [Next]_vars => AvailableAreIdle'
<1> SUFFICES ASSUME Threads, AvailableAreIdle, [Next]_vars PROVE AvailableAreIdle'
  OBVIOUS
<1>a. state \in [Worker -> States]
  BY DEF Threads
<1>c. mAvailableWorkers = Cardinality(Idle) /\ Cardinality(Idle) \in Nat
  BY TaskExecutorAssumption, FS_Subset, FS_CardinalityType DEF Idle, AvailableAreIdle
<1> USE <1>a, <1>c DEF AvailableAreIdle, poolvars, workervars
<1>b. ASSUME mAvailableWorkers' = mAvailableWorkers, Idle' = Idle PROVE AvailableAreIdle'
  BY <1>b
<1>1. ASSUME NEW t \in Task, NEW d \in Delays, NEW s \in BOOLEAN, Execute(t, d, s)
      PROVE  AvailableAreIdle'
  <2>1. CASE SpawnWorker(s)
    <3>1. PICK w \in Worker : /\ state[w] = "none" /\ state' = [state EXCEPT ![w] = "started"]
                              /\ mAvailableWorkers' = mAvailableWorkers + 1
      BY Zenon, <1>1, <2>1 DEF Execute
    <3>2. "started" \in States /\ "started" \in IdleStates /\ state[w] \notin IdleStates
      BY <3>1 DEF IdleStates, States
    <3>3. Cardinality(Idle') = Cardinality(Idle) + 1
      BY Zenon, <3>1, <3>2, IdleAfter
    <3> QED
      BY <3>1, <3>3
  <2>2. CASE ~SpawnWorker(s)
    BY <1>1, <1>b, <2>2 DEF Execute, Idle
  <2> QED
    BY <2>1, <2>2
<1>2. ASSUME NEW t \in Task, NEW desired \in {"cancelled", "aborted"},
             ExecuteTerminating(t) \/ Cancel(t, desired) \/ AbortTask(t)
      PROVE  AvailableAreIdle'
  BY Zenon, <1>2, <1>b DEF ExecuteTerminating, Cancel, AbortTask, Idle
<1>3. CASE (\E flags \in Flags : SetFlags(flags)) \/ Terminate
  BY <1>3, <1>b DEF SetFlags, Terminate, NotifyAll, Idle
<1>4. CASE NotifyOne
  BY Zenon, <1>4, <1>b DEF NotifyOne, Idle
<1>5. CASE Destroyed \/ Tick \/ \E w \in Worker : JoinWorker(w)
  BY <1>5, <1>b DEF Destroyed, Tick, JoinWorker, Idle
<1>6. CASE WorkerJoined
  BY <1>6, <1>b DEF WorkerJoined, Idle
<1>7. ASSUME NEW w \in Worker, WorkerStep(w) PROVE AvailableAreIdle'
  <2>1. CASE Start(w) \/ WaitAgain(w)
    <3>1. state[w] \in IdleStates
      BY <2>1 DEF Start, WaitAgain, Awake, IdleStates
    <3>2. \/ state' = [state EXCEPT ![w] = "stopped"] /\ mAvailableWorkers' = mAvailableWorkers - 1
          \/ state' = [state EXCEPT ![w] = "waiting"] /\ mAvailableWorkers' = mAvailableWorkers
      BY <2>1 DEF Start, WaitAgain, LoopTop
    <3> QED
      BY <3>1, <3>2, IdleAfter DEF IdleStates, States
  <2>2. CASE CompleteEnds(w)
    <3>1. state[w] \notin IdleStates /\ LoopTop(w, mAvailableWorkers + 1)
      BY <2>2 DEF CompleteEnds, IdleStates
    <3>2. CASE Cardinality(mWorkers) > mFlags.max
      <4>1. state' = [state EXCEPT ![w] = "stopped"] /\ mAvailableWorkers' = (mAvailableWorkers + 1) - 1
        BY <3>1, <3>2 DEF LoopTop
      <4>2. "stopped" \in States /\ "stopped" \notin IdleStates
        BY DEF IdleStates, States
      <4>3. Cardinality(Idle') = Cardinality(Idle)
        BY Zenon, <3>1, <4>1, <4>2, IdleAfter
      <4> QED
        BY <4>1, <4>3
    <3>3. CASE ~(Cardinality(mWorkers) > mFlags.max)
      <4>1. state' = [state EXCEPT ![w] = "waiting"] /\ mAvailableWorkers' = mAvailableWorkers + 1
        BY <3>1, <3>3 DEF LoopTop
      <4>2. "waiting" \in States /\ "waiting" \in IdleStates
        BY DEF IdleStates, States
      <4>3. Cardinality(Idle') = Cardinality(Idle) + 1
        BY Zenon, <3>1, <4>1, <4>2, IdleAfter
      <4> QED
        BY <4>1, <4>3
    <3> QED
      BY <3>2, <3>3
  <2>3. CASE TimeOut(w)
    BY <2>3, <1>b DEF TimeOut, Idle
  <2>4. CASE LeaveIdle(w) \/ Quit(w) \/ Dequeue(w)
    <3>1. PICK s \in {"none", "stopped", "dequeued"} : state' = [state EXCEPT ![w] = s]
      BY Zenon, <2>4 DEF LeaveIdle, Quit, Dequeue
    <3>2. state[w] \in IdleStates /\ mAvailableWorkers' = mAvailableWorkers - 1
      BY <2>4 DEF LeaveIdle, Quit, Dequeue, Awake, IdleStates
    <3>3. s \in States /\ s \notin IdleStates
      BY DEF IdleStates, States
    <3>4. Cardinality(Idle') = Cardinality(Idle) - 1
      BY Zenon, <3>1, <3>2, <3>3, IdleAfter
    <3> QED
      BY <3>2, <3>4
  <2>5. CASE Complete(w)
    BY <2>5, <1>b DEF Complete, Idle
  <2> QED
    BY <1>7, <2>1, <2>2, <2>3, <2>4, <2>5 DEF WorkerStep
<1>8. CASE UNCHANGED vars
  BY <1>8, <1>b DEF vars, Idle
<1> QED
  BY <1>1, <1>2, <1>3, <1>4, <1>5, <1>6, <1>7, <1>8 DEF Next, Destructor

\* mAvailableWorkers, which Worker::loop() counts down on each of its four ways out
\* of the wait, is the number of workers that wait for work.
THEOREM AvailableWorkersAreIdle == Spec => []AvailableAreIdle
<1>1. Init => Threads /\ AvailableAreIdle
  <2> SUFFICES ASSUME Init PROVE AvailableAreIdle
    BY InitOwned
  <2>1. Idle = {}
    BY DEF Init, Idle
  <2> QED
    BY <2>1, FS_EmptySet DEF Init, AvailableAreIdle
<1>2. Threads /\ AvailableAreIdle /\ [Next]_vars => Threads' /\ AvailableAreIdle'
  BY NextThreads, NextAvailable
<1> QED
  BY <1>1, <1>2, PTL DEF Spec

-----------------------------------------------------------------------------
\* The clocks, and a wait that has ended by its time.
Clocks ==
    /\ left \in [Task -> Nat] /\ sleep \in [Worker -> Nat] /\ notifying \in Nat
    /\ mFlags \in Flags /\ mTasks \subseteq Task
    /\ \A w \in Worker : state[w] = "timedout" => sleep[w] = 0

\* No worker waits while there are too many of them: flags() wakes them all up.
Limited ==
    ~mTerminating /\ (\E w \in Worker : state[w] = "waiting")
    => Cardinality(mWorkers) <= mFlags.max

\* Worker w is to wake up, or has woken up, when the next task is due.
Tied(w) ==
    /\ state[w] \in {"waiting", "timedout"}
    /\ \A t \in mTasks : sleep[w] <= left[t]
    /\ \E t \in mTasks : left[t] <= sleep[w]

\* A worker that will look at the queue again before it waits, whatever it finds.
Up(w) == state[w] \in {"started", "notified", "dequeued", "completing"}

\* Somebody sees to the queued tasks: a notification is under way, a worker is up or
\* will be in time, or none waits and the last of them will not leave.
Alert ==
    mTasks # {} /\ ~mTerminating =>
        \/ notifying > 0
        \/ \E w \in Worker : Up(w) \/ Tied(w)
        \/ \A w \in Worker : state[w] # "waiting"

\* A non-empty set of due times has a least one.
LEMMA EarliestTime ==
    ASSUME NEW T, T \subseteq Nat, T # {}
    PROVE  \E x \in T : \A y \in T : x <= y
<1> DEFINE R == {p \in Nat \X Nat : p[1] < p[2]}
<1>1. IsWellFoundedOn(R, Nat)
  BY NatLessThanWellFounded DEF OpToRel
<1>2. \E x \in T : \A y \in T : ~(<<y, x>> \in R)
  <2> HIDE DEF R
  <2> QED
    BY Zenon, <1>1, WFMin
<1>3. PICK x \in T : \A y \in T : ~(<<y, x>> \in R)
  BY <1>2
<1>4. \A y \in T : ~(y < x)
  BY Zenon, <1>3
<1> QED
  BY <1>4

\* A queue that is not empty has a first task.
LEMMA FirstTaskExists ==
    ASSUME Clocks, mTasks # {}
    PROVE  FirstTasks # {}
<1> DEFINE T == {left[t] : t \in mTasks}
<1>1. T \subseteq Nat /\ T # {}
  BY DEF Clocks
<1>2. \E x \in T : \A y \in T : x <= y
  <2> HIDE DEF T
  <2> QED
    BY Zenon, <1>1, EarliestTime
<1>3. \E t \in mTasks : \A u \in mTasks : left[t] <= left[u]
  BY Zenon, <1>2
<1> QED
  BY <1>3 DEF FirstTasks

\* nextWakeup() is when the next task is due.
LEMMA WakeupIsDue ==
    ASSUME Clocks
    PROVE  /\ NextWakeup \in Nat
           /\ mTasks # {} => /\ \A t \in mTasks : NextWakeup <= left[t]
                             /\ \E t \in mTasks : left[t] <= NextWakeup
<1>1. CASE mTasks = {}
  BY <1>1, TaskExecutorAssumption DEF NextWakeup
<1>2. CASE mTasks # {}
  <2> DEFINE f == CHOOSE t \in FirstTasks : TRUE
  <2>1. f \in FirstTasks
    BY <1>2, FirstTaskExists
  <2>2. NextWakeup = left[f]
    BY <1>2 DEF NextWakeup
  <2> HIDE DEF f
  <2>3. f \in mTasks /\ left[f] \in Nat /\ \A u \in mTasks : left[f] <= left[u]
    BY <2>1 DEF FirstTasks, Clocks
  <2> QED
    BY <1>2, <2>2, <2>3
<1> QED
  BY <1>1, <1>2

\* The top of the loop: the worker waits for the next task, or none may wait.
LEMMA LoopTopDoes ==
    ASSUME Clocks, state \in [Worker -> States], NEW w \in Worker, NEW a, LoopTop(w, a)
    PROVE  \/ /\ Cardinality(mWorkers) > mFlags.max /\ sleep' = sleep
              /\ state' = [state EXCEPT ![w] = "stopped"]
           \/ /\ ~(Cardinality(mWorkers) > mFlags.max)
              /\ sleep' = [sleep EXCEPT ![w] = NextWakeup] /\ NextWakeup \in Nat
              /\ state' = [state EXCEPT ![w] = "waiting"]
BY WakeupIsDue DEF LoopTop

\* Every step keeps Clocks.
LEMMA NextClocks == Threads /\ Clocks /\ [Next]_vars => Clocks'
<1> SUFFICES ASSUME Threads, Clocks, [Next]_vars PROVE Clocks'
  OBVIOUS
<1>a. state \in [Worker -> States] /\ IdleTime \in Nat /\ Delays \subseteq Nat
  BY TaskExecutorAssumption DEF Threads
<1> USE <1>a DEF Clocks, taskvars, poolvars, workervars, dtorvars
<1>1. ASSUME NEW t \in Task, NEW d \in Delays, NEW s \in BOOLEAN, Execute(t, d, s) PROVE Clocks'
  <2>1. /\ left' = [left EXCEPT ![t] = d] /\ mTasks' = mTasks \cup {t}
        /\ notifying' = notifying + 1 /\ UNCHANGED <<sleep, mFlags>>
    BY <1>1 DEF Execute
  <2>2. \A w \in Worker : state'[w] = "timedout" => state[w] = "timedout"
    BY <1>1 DEF Execute
  <2> QED
    BY <2>1, <2>2
<1>2. ASSUME \/ \E t \in Task : ExecuteTerminating(t)
             \/ \E t \in Task, desired \in {"cancelled", "aborted"} : Cancel(t, desired)
             \/ Destroyed \/ \E w \in Worker : JoinWorker(w)
      PROVE  Clocks'
  BY <1>2 DEF ExecuteTerminating, Cancel, Destroyed, JoinWorker
<1>3. ASSUME NEW t \in Task, AbortTask(t) PROVE Clocks'
  BY <1>3 DEF AbortTask
<1>4. ASSUME NEW flags \in Flags, SetFlags(flags) PROVE Clocks'
  BY <1>4 DEF SetFlags, NotifyAll
<1>5. CASE Terminate
  BY <1>5 DEF Terminate, NotifyAll
<1>6. CASE NotifyOne
  <2>1. /\ notifying > 0 /\ notifying' = notifying - 1
        /\ UNCHANGED <<left, sleep, mFlags, mTasks>>
    BY <1>6 DEF NotifyOne
  <2>2. \A w \in Worker : state'[w] = "timedout" => state[w] = "timedout"
    BY <1>6 DEF NotifyOne
  <2> QED
    BY <2>1, <2>2
<1>7. CASE WorkerJoined
  BY Zenon, <1>7 DEF WorkerJoined, Threads
<1>8. CASE Tick
  BY <1>8 DEF Tick
<1>9. ASSUME NEW w \in Worker, WorkerStep(w) PROVE Clocks'
  <2>1. CASE Start(w) \/ WaitAgain(w) \/ CompleteEnds(w)
    <3>1. UNCHANGED <<left, notifying, mFlags, mTasks>> /\ \E a : LoopTop(w, a)
      BY <2>1 DEF Start, WaitAgain, CompleteEnds
    <3> QED
      BY <3>1, LoopTopDoes
  <2>2. CASE TimeOut(w)
    BY <2>2 DEF TimeOut
  <2>3. CASE LeaveIdle(w) \/ Quit(w) \/ Complete(w)
    BY Zenon, <2>3 DEF LeaveIdle, Quit, Complete
  <2>4. CASE Dequeue(w)
    BY Zenon, <2>4 DEF Dequeue
  <2> QED
    BY <1>9, <2>1, <2>2, <2>3, <2>4 DEF WorkerStep
<1>10. CASE UNCHANGED vars
  BY Zenon, <1>10 DEF vars
<1> QED
  BY Zenon, <1>1, <1>2, <1>3, <1>4, <1>5, <1>6, <1>7, <1>8, <1>9, <1>10 DEF Next, Destructor

\* A worker more or less in the list.
LEMMA OneWorker ==
    ASSUME NEW S, IsFiniteSet(S), NEW x
    PROVE  /\ Cardinality(S \cup {x}) \in Nat /\ Cardinality(S \cup {x}) <= Cardinality(S) + 1
           /\ Cardinality(S \ {x}) \in Nat /\ Cardinality(S \ {x}) <= Cardinality(S)
<1>1. Cardinality(S) \in Nat
  BY FS_CardinalityType
<1>2. Cardinality(S \cup {x}) = IF x \in S THEN Cardinality(S) ELSE Cardinality(S) + 1
  BY FS_AddElement
<1>3. Cardinality(S \ {x}) = IF x \in S THEN Cardinality(S) - 1 ELSE Cardinality(S)
  BY FS_RemoveElement
<1>4. IsFiniteSet(S \ {x})
  BY FS_RemoveElement
<1>5. Cardinality(S \ {x}) \in Nat
  BY <1>4, FS_CardinalityType
<1> QED
  BY <1>1, <1>2, <1>3, <1>5

\* Every step keeps Limited.
LEMMA NextLimited == Threads /\ Clocks /\ Limited /\ [Next]_vars => Limited'
<1> SUFFICES ASSUME Threads, Clocks, Limited, [Next]_vars, ~mTerminating',
                    NEW v \in Worker, state'[v] = "waiting"
             PROVE  Cardinality(mWorkers') <= mFlags'.max
  BY DEF Limited
<1>a. state \in [Worker -> States] /\ mFlags.max \in Nat
  BY Zenon, TaskExecutorAssumption DEF Threads, Clocks
<1>b. IsFiniteSet(mWorkers) /\ Cardinality(mWorkers) \in Nat
  BY Zenon, TaskExecutorAssumption, FS_Subset, FS_CardinalityType DEF Threads
<1>c. ASSUME mWorkers' = mWorkers, mFlags' = mFlags, mTerminating' = mTerminating,
             state[v] = "waiting"
      PROVE  Cardinality(mWorkers') <= mFlags'.max
  BY <1>c DEF Limited
<1> USE <1>a DEF taskvars, poolvars, workervars, dtorvars
<1>1. ASSUME NEW t \in Task, NEW d \in Delays, NEW s \in BOOLEAN, Execute(t, d, s)
      PROVE  Cardinality(mWorkers') <= mFlags'.max
  <2>1. CASE SpawnWorker(s)
    <3>1. PICK w \in Worker : mWorkers' = mWorkers \cup {w}
      BY <1>1, <2>1 DEF Execute
    <3>2. Cardinality(mWorkers') <= Cardinality(mWorkers) + 1 /\ Cardinality(mWorkers') \in Nat
      BY Zenon, <1>b, <3>1, OneWorker
    <3>3. Cardinality(mWorkers) < mFlags.max /\ mFlags' = mFlags
      BY Zenon, <1>1, <2>1 DEF Execute, SpawnWorker
    <3> QED
      BY <1>b, <3>2, <3>3
  <2>2. CASE ~SpawnWorker(s)
    BY <1>1, <1>c, <2>2 DEF Execute
  <2> QED
    BY <2>1, <2>2
<1>2. ASSUME \/ \E t \in Task : ExecuteTerminating(t)
             \/ \E t \in Task, desired \in {"cancelled", "aborted"} : Cancel(t, desired)
             \/ Destroyed \/ Tick \/ \E t \in Task : AbortTask(t)
      PROVE  Cardinality(mWorkers') <= mFlags'.max
  BY Zenon, <1>2, <1>c DEF ExecuteTerminating, Cancel, Destroyed, Tick, AbortTask
<1>3. ASSUME (\E flags \in Flags : SetFlags(flags)) \/ Terminate PROVE FALSE
  BY <1>3 DEF SetFlags, Terminate, NotifyAll
<1>4. CASE NotifyOne
  BY <1>4, <1>c DEF NotifyOne
<1>5. ASSUME NEW w \in Worker, JoinWorker(w) PROVE FALSE
  BY Zenon, <1>5 DEF JoinWorker, Threads
<1>6. CASE WorkerJoined
  BY <1>6, <1>c DEF WorkerJoined
<1>7. ASSUME NEW w \in Worker, WorkerStep(w) PROVE Cardinality(mWorkers') <= mFlags'.max
  <2>1. CASE Start(w) \/ WaitAgain(w) \/ CompleteEnds(w)
    <3>1. UNCHANGED <<mWorkers, mFlags, mTerminating>> /\ \E a : LoopTop(w, a)
      BY <2>1 DEF Start, WaitAgain, CompleteEnds
    <3>2. \/ state' = [state EXCEPT ![w] = "stopped"]
          \/ ~(Cardinality(mWorkers) > mFlags.max)
      BY Zenon, <3>1, LoopTopDoes
    <3>3. CASE state' = [state EXCEPT ![w] = "stopped"]
      BY <1>c, <3>1, <3>3
    <3>4. CASE ~(Cardinality(mWorkers) > mFlags.max)
      BY <1>b, <3>1, <3>4
    <3> QED
      BY <3>2, <3>3, <3>4
  <2>2. CASE TimeOut(w) \/ Quit(w) \/ Complete(w)
    BY Zenon, <1>c, <2>2 DEF TimeOut, Quit, Complete
  <2>3. CASE Dequeue(w)
    BY <1>c, <2>3 DEF Dequeue
  <2>4. CASE LeaveIdle(w)
    <3>1. /\ mWorkers' = mWorkers \ {w} /\ UNCHANGED <<mFlags, mTerminating>>
          /\ state[v] = "waiting"
      BY <2>4 DEF LeaveIdle
    <3>2. Cardinality(mWorkers) <= mFlags.max
      BY <3>1 DEF Limited
    <3>3. Cardinality(mWorkers') <= Cardinality(mWorkers) /\ Cardinality(mWorkers') \in Nat
      BY Zenon, <1>b, <3>1, OneWorker
    <3> QED
      BY <1>b, <3>1, <3>2, <3>3
  <2> QED
    BY <1>7, <2>1, <2>2, <2>3, <2>4 DEF WorkerStep
<1>8. CASE UNCHANGED vars
  BY <1>8, <1>c DEF vars
<1> QED
  BY Zenon, <1>1, <1>2, <1>3, <1>4, <1>5, <1>6, <1>7, <1>8 DEF Next, Destructor

\* Every step keeps Alert.
LEMMA NextAlert == Threads /\ Clocks /\ Limited /\ Alert /\ [Next]_vars => Alert'
<1> SUFFICES ASSUME Threads, Clocks, Limited, Alert, [Next]_vars, mTasks' # {}, ~mTerminating'
             PROVE  \/ notifying' > 0
                    \/ \E v \in Worker : Up(v)' \/ Tied(v)'
                    \/ \A v \in Worker : state'[v] # "waiting"
  BY Zenon DEF Alert
<1> DEFINE Goal == \/ notifying' > 0
                   \/ \E v \in Worker : Up(v)' \/ Tied(v)'
                   \/ \A v \in Worker : state'[v] # "waiting"
<1>a. state \in [Worker -> States] /\ mFlags.max \in Nat
  BY TaskExecutorAssumption DEF Threads, Clocks
<1>b. ASSUME UNCHANGED <<notifying, mTasks, state, left, sleep, mTerminating>> PROVE Goal
  BY <1>b DEF Alert, Up, Tied
<1> USE <1>a DEF taskvars, poolvars, workervars, dtorvars
<1>1. ASSUME NEW t \in Task, NEW d \in Delays, NEW s \in BOOLEAN, Execute(t, d, s) PROVE Goal
  <2>1. notifying' = notifying + 1 /\ notifying \in Nat
    BY Zenon, <1>1 DEF Execute, Clocks
  <2> QED
    BY <2>1
<1>2. ASSUME \/ \E t \in Task : ExecuteTerminating(t)
             \/ \E t \in Task, desired \in {"cancelled", "aborted"} : Cancel(t, desired)
             \/ Destroyed
      PROVE  Goal
  BY Zenon, <1>2, <1>b DEF ExecuteTerminating, Cancel, Destroyed
<1>3. ASSUME (\E flags \in Flags : SetFlags(flags)) \/ Terminate PROVE Goal
  BY <1>3 DEF SetFlags, Terminate, NotifyAll
<1>4. CASE NotifyOne
  <2>1. CASE \E w \in Worker : state[w] = "waiting"
    <3>1. PICK w \in Worker : state' = [state EXCEPT ![w] = "notified"]
      BY Zenon, <1>4, <2>1 DEF NotifyOne
    <3>2. Up(w)'
      BY <3>1 DEF Up
    <3> QED
      BY Zenon, <3>2
  <2>2. CASE ~\E w \in Worker : state[w] = "waiting"
    BY Zenon, <1>4, <2>2 DEF NotifyOne
  <2> QED
    BY Zenon, <2>1, <2>2
<1>5. ASSUME (\E w \in Worker : JoinWorker(w)) \/ (\E t \in Task : AbortTask(t)) PROVE FALSE
  BY Zenon, <1>5 DEF JoinWorker, AbortTask, Threads
<1>6. CASE WorkerJoined
  <2>1. /\ UNCHANGED <<notifying, mTasks, left, sleep, mTerminating>>
        /\ joinee \in Worker /\ state[joinee] = "stopped" /\ state' = [state EXCEPT ![joinee] = "none"]
    BY Zenon, <1>6, TaskExecutorAssumption DEF WorkerJoined, Threads
  <2>2. \A v \in Worker : state'[v] = state[v] \/ (state[v] = "stopped" /\ state'[v] = "none")
    BY <2>1
  <2> QED
    BY <2>1, <2>2 DEF Alert, Up, Tied
<1>7. CASE Tick
  <2>1. /\ UNCHANGED <<notifying, mTasks, state, mTerminating>>
        /\ left' = [t \in Task |-> IF left[t] > 0 THEN left[t] - 1 ELSE 0]
        /\ sleep' = [w \in Worker |-> IF sleep[w] > 0 THEN sleep[w] - 1 ELSE 0]
    BY <1>7 DEF Tick
  <2>2. ASSUME NEW w \in Worker, NEW t \in mTasks
        PROVE  /\ sleep[w] <= left[t] => sleep'[w] <= left'[t]
               /\ left[t] <= sleep[w] => left'[t] <= sleep'[w]
    BY <2>1 DEF Clocks
  <2>3. ASSUME NEW w \in Worker, Tied(w) PROVE Tied(w)'
    BY Zenon, <2>1, <2>2, <2>3 DEF Tied
  <2>4. ASSUME NEW w \in Worker, Up(w) PROVE Up(w)'
    BY Zenon, <2>1, <2>4 DEF Up
  <2> QED
    BY Zenon, <2>1, <2>3, <2>4 DEF Alert
<1>8. ASSUME NEW w \in Worker, WorkerStep(w) PROVE Goal
  <2>1. CASE Start(w) \/ WaitAgain(w) \/ CompleteEnds(w)
    <3>1. /\ UNCHANGED <<left, notifying, mFlags, mTasks, mTerminating>>
          /\ \E a : LoopTop(w, a)
      BY Zenon, <2>1 DEF Start, WaitAgain, CompleteEnds
    <3>2. CASE /\ Cardinality(mWorkers) > mFlags.max /\ sleep' = sleep
               /\ state' = [state EXCEPT ![w] = "stopped"]
      <4>1. Cardinality(mWorkers) \in Nat
        BY Zenon, TaskExecutorAssumption, FS_Subset, FS_CardinalityType DEF Threads
      <4>2. \A v \in Worker : state[v] # "waiting"
        BY <3>1, <3>2, <4>1 DEF Limited
      <4> QED
        BY <3>2, <4>2
    <3>3. CASE /\ sleep' = [sleep EXCEPT ![w] = NextWakeup] /\ NextWakeup \in Nat
               /\ state' = [state EXCEPT ![w] = "waiting"]
      <4>1. state'[w] = "waiting" /\ sleep'[w] = NextWakeup
        BY Zenon, <3>3 DEF Clocks
      <4>2. Tied(w)'
        BY Zenon, <3>1, <4>1, WakeupIsDue DEF Tied
      <4> QED
        BY Zenon, <4>2
    <3> QED
      BY Zenon, <1>a, <3>1, <3>2, <3>3, LoopTopDoes
  <2>2. CASE TimeOut(w)
    <3>1. /\ UNCHANGED <<notifying, mTasks, left, sleep, mTerminating>>
          /\ state[w] = "waiting" /\ state' = [state EXCEPT ![w] = "timedout"]
      BY <2>2 DEF TimeOut
    <3>2. \A v \in Worker : state'[v] = state[v] \/ (state[v] = "waiting" /\ state'[v] = "timedout")
      BY <3>1
    <3>3. ASSUME NEW v \in Worker, Up(v) \/ Tied(v) PROVE Up(v)' \/ Tied(v)'
      BY <3>1, <3>2, <3>3 DEF Up, Tied
    <3> QED
      BY <3>1, <3>3 DEF Alert
  <2>3. CASE LeaveIdle(w)
    <3>1. /\ UNCHANGED <<notifying, mTasks, left, sleep, mTerminating>>
          /\ state[w] = "timedout" /\ state' = [state EXCEPT ![w] = "none"] /\ ~Ready
      BY <2>3 DEF LeaveIdle, Awake, StaysIdle
    <3>2. ~Tied(w) /\ ~Up(w)
      <4>1. sleep[w] = 0 /\ \A t \in mTasks : left[t] \in Nat /\ left[t] # 0
        BY <3>1 DEF Clocks, Ready
      <4> QED
        BY <3>1, <4>1 DEF Tied, Up
    <3>3. ASSUME NEW v \in Worker, v # w, Up(v) \/ Tied(v) PROVE Up(v)' \/ Tied(v)'
      BY <3>1, <3>3 DEF Up, Tied
    <3> QED
      BY <3>1, <3>2, <3>3 DEF Alert
  <2>4. CASE Quit(w)
    BY <2>4 DEF Quit
  <2>5. CASE Dequeue(w)
    <3>1. Up(w)'
      BY <2>5 DEF Dequeue, Up
    <3> QED
      BY Zenon, <3>1
  <2>6. CASE Complete(w)
    <3>1. Up(w)'
      BY <2>6 DEF Complete, Up
    <3> QED
      BY Zenon, <3>1
  <2> QED
    BY Zenon, <1>8, <2>1, <2>2, <2>3, <2>4, <2>5, <2>6 DEF WorkerStep
<1>9. CASE UNCHANGED vars
  BY Zenon, <1>9, <1>b DEF vars
<1> QED
  BY Zenon, <1>1, <1>2, <1>3, <1>4, <1>5, <1>6, <1>7, <1>8, <1>9 DEF Next, Destructor

\* No notification is lost between execute()'s unlock() and its notify_one(): when all
\* workers sleep, one of them wakes up by the time the next task is due, also after
\* flags() has lowered mMaxWorkers.
THEOREM WorkersWakeInTime == Spec => []WakesInTime
<1>1. Init => Threads /\ Clocks /\ Limited /\ Alert
  <2> SUFFICES ASSUME Init PROVE Clocks /\ Limited /\ Alert
    BY InitOwned
  <2>1. Clocks
    BY DEF Init, Clocks
  <2>2. Limited /\ Alert
    BY Zenon DEF Init, Limited, Alert
  <2> QED
    BY <2>1, <2>2
<1>2. Threads /\ Clocks /\ Limited /\ Alert /\ [Next]_vars
      => Threads' /\ Clocks' /\ Limited' /\ Alert'
  BY NextThreads, NextClocks, NextLimited, NextAlert
<1>3. Clocks /\ Alert => WakesInTime
  <2> SUFFICES ASSUME Clocks, Alert, mTasks # {}, ~mTerminating, notifying = 0,
                      NEW v \in Idle \cup Busy, \A w \in Idle \cup Busy : state[w] = "waiting"
               PROVE  \E w \in Idle : \A t \in FirstTasks : sleep[w] <= left[t]
    BY DEF WakesInTime
  <2>1. v \in Worker /\ state[v] = "waiting"
    BY DEF Idle, Busy
  <2>2. \A w \in Worker : ~Up(w)
    BY DEF Idle, Busy, Up
  <2>3. PICK w \in Worker : Tied(w)
    BY <2>1, <2>2 DEF Alert
  <2>4. w \in Idle
    BY <2>3 DEF Tied, Idle
  <2> QED
    BY <2>3, <2>4 DEF Tied, FirstTasks
<1> QED
  BY <1>1, <1>2, <1>3, PTL DEF Spec
=============================================================================
