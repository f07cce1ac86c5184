------------------------------ MODULE ThreadPool ------------------------------
(***************************************************************************)
(* thread::pool::parameterized_pool_t (includes/thread_pool.hpp): worker   *)
(* threads that claim tasks in batches from one BlockingQueue, the threads *)
(* that schedule tasks on it, tasks that do so themselves, and the thread  *)
(* that constructs, awaits and destroys the pool.                          *)
(*                                                                         *)
(* Tasks are numbered in the order in which they are scheduled.            *)
(***************************************************************************)
EXTENDS Integers, Sequences, FiniteSets

CONSTANTS
    Concurrency,    \* number of worker threads
    BulkMax,        \* BULK_MAX_ITEMS
    Callers,        \* threads, other than workers, that schedule tasks
    Tokens,         \* producer tokens
    MaxTasks,       \* bound: tasks scheduled in all
    MaxBulk         \* bound: tasks of one schedule_bulk

ASSUME PoolAssumption ==
    /\ Concurrency \in Nat
    /\ BulkMax \in Nat \ {0}
    /\ MaxTasks \in Nat
    /\ MaxBulk \in Nat
    /\ IsFiniteSet(Callers) /\ IsFiniteSet(Tokens)

Workers == 1..Concurrency   \* positions in threads_

ASSUME NamesAssumption == Callers \intersect Workers = {}

Clients == Callers \union Workers

Tasks == 1..MaxTasks

VARIABLES
    lifecycle,  \* where the owner of the pool is
    done,       \* done_
    joined,     \* threads joined by await()
    pc,         \* where each worker is
    i,          \* index of its task in its batch
    last,       \* last task scheduled
    packaged,   \* tasks wrapped in a packaged_task, which keeps an exception
    outcome,    \* how a task ended
    terminated, \* std::terminate has been called
    inner, permits, waiters, unsignalled, owed, got     \* tasks_

Queue == INSTANCE BlockingQueue WITH
    Threads <- Clients,
    Producers <- Clients \union Tokens,
    Items <- Tasks

poolVars == <<lifecycle, done, joined, pc, i, last, packaged, outcome, terminated>>

queueVars == <<inner, permits, waiters, unsignalled, owed, got>>

vars == <<poolVars, queueVars>>

-------------------------------------------------------------------------------
Init ==
    /\ lifecycle = IF Concurrency = 0 THEN "open" ELSE "constructing"
    /\ done = FALSE
    /\ joined = 0
    /\ pc = [w \in Workers |-> "unborn"]
    /\ i = [w \in Workers |-> 1]
    /\ last = 0
    /\ packaged = {}
    /\ outcome = [t \in Tasks |-> "none"]
    /\ terminated = FALSE
    /\ Queue!Init

(* The constructor: a worker runs as soon as its thread is created.        *)
(* After std::terminate no thread takes a step.                            *)
SpawnWorker(w) ==
    /\ ~terminated
    /\ lifecycle = "constructing"
    /\ pc[w] = "unborn"
    /\ \A v \in 1..(w - 1) : pc[v] # "unborn"
    /\ pc' = [pc EXCEPT ![w] = "check"]
    /\ lifecycle' = IF w = Concurrency THEN "open" ELSE lifecycle
    /\ UNCHANGED <<done, joined, i, last, packaged, outcome, terminated, queueVars>>

(* std::thread may throw: threads_ is then destroyed with joinable threads *)
(* in it, unless it is empty.                                              *)
SpawnThrows ==
    /\ ~terminated
    /\ lifecycle = "constructing"
    /\ IF \E w \in Workers : pc[w] # "unborn"
          THEN terminated' = TRUE /\ UNCHANGED lifecycle
          ELSE lifecycle' = "failed" /\ UNCHANGED terminated
    /\ UNCHANGED <<done, joined, pc, i, last, packaged, outcome, queueVars>>

-------------------------------------------------------------------------------
(* Threads hold a reference to the pool until it is destroyed; a task may  *)
(* use it for as long as it runs.  A thread is in one call at a time.      *)
MayCall(c) ==
    /\ ~terminated
    /\ \/ c \in Callers /\ lifecycle \in {"open", "awaiting"}
       \/ c \in Workers /\ pc[c] = "running"
    /\ unsignalled[c] = 0

(* tasks_.enqueue or enqueue_bulk, which fail when memory is exhausted. *)
Enqueue(c, n) ==
    LET tasks == [k \in 1..n |-> last + k]
    IN  /\ MayCall(c)
        /\ last + n <= MaxTasks
        /\ last' = last + n
        /\ \/ /\ \E p \in {c} \union Tokens : Queue!Insert(c, p, tasks)
              /\ UNCHANGED outcome
           \/ /\ outcome' = [t \in Tasks |->
                    IF t \in (last + 1)..(last + n) THEN "rejected" ELSE outcome[t]]
              /\ UNCHANGED queueVars
        /\ UNCHANGED <<lifecycle, done, joined, pc, i, terminated>>

Schedule(c) == Enqueue(c, 1) /\ packaged' = packaged \union {last + 1}

ScheduleAndForget(c) == Enqueue(c, 1) /\ UNCHANGED packaged

ScheduleBulk(c) == \E n \in 1..MaxBulk : Enqueue(c, n) /\ UNCHANGED packaged

Signal(c) == ~terminated /\ Queue!SignalItems(c) /\ UNCHANGED poolVars

Stop(c) ==
    /\ MayCall(c)
    /\ done' = TRUE
    /\ UNCHANGED <<lifecycle, joined, pc, i, last, packaged, outcome, terminated, queueVars>>

-------------------------------------------------------------------------------
(* Mutant: workers leave only once the queue is empty. *)
CheckDrains(w) ==
    /\ ~terminated
    /\ pc[w] = "check"
    /\ \/ done /\ permits = 0 /\ pc' = [pc EXCEPT ![w] = "exited"] /\ UNCHANGED queueVars
       \/ ~(done /\ permits = 0) /\ pc' = [pc EXCEPT ![w] = "waiting"]
             /\ Queue!WaitDequeueBulk(w)
    /\ UNCHANGED <<lifecycle, done, joined, i, last, packaged, outcome, terminated>>

(* worker(): done_ is read between two batches and at no other time. *)
Check(w) ==
    /\ ~terminated
    /\ pc[w] = "check"
    /\ \/ done /\ pc' = [pc EXCEPT ![w] = "exited"] /\ UNCHANGED queueVars
       \/ ~done /\ pc' = [pc EXCEPT ![w] = "waiting"] /\ Queue!WaitDequeueBulk(w)
    /\ UNCHANGED <<lifecycle, done, joined, i, last, packaged, outcome, terminated>>

Claim(w) ==
    /\ ~terminated
    /\ pc[w] = "waiting"
    /\ Queue!Acquire(w, BulkMax)
    /\ pc' = [pc EXCEPT ![w] = "filling"]
    /\ i' = [i EXCEPT ![w] = 1]
    /\ UNCHANGED <<lifecycle, done, joined, last, packaged, outcome, terminated>>

TimeOut(w) ==
    /\ ~terminated
    /\ pc[w] = "waiting"
    /\ Queue!TimeOut(w)
    /\ pc' = [pc EXCEPT ![w] = "check"]
    /\ UNCHANGED <<lifecycle, done, joined, i, last, packaged, outcome, terminated>>

Fill(w) ==
    /\ ~terminated
    /\ pc[w] = "filling"
    /\ \E p \in Clients \union Tokens, n \in 1..owed[w] :
          /\ Queue!TryDequeueBulk(w, p, n)
          /\ pc' = [pc EXCEPT ![w] = IF n = owed[w] THEN "looping" ELSE @]
    /\ UNCHANGED <<lifecycle, done, joined, i, last, packaged, outcome, terminated>>

StartTask(w) ==
    /\ ~terminated
    /\ pc[w] = "looping"
    /\ pc' = [pc EXCEPT ![w] = "running"]
    /\ UNCHANGED <<lifecycle, done, joined, i, last, packaged, outcome, terminated, queueVars>>

(* Mutant: done_ is checked after each task, the rest of the batch is lost. *)
EndTaskChecksDone(w, result) ==
    /\ outcome' = [outcome EXCEPT ![got[w][i[w]]] = result]
    /\ i' = [i EXCEPT ![w] = @ + 1]
    /\ pc' = [pc EXCEPT ![w] =
                 IF i[w] < Len(got[w]) /\ ~done THEN "looping" ELSE "check"]

EndTask(w, result) ==
    /\ outcome' = [outcome EXCEPT ![got[w][i[w]]] = result]
    /\ i' = [i EXCEPT ![w] = @ + 1]
    /\ pc' = [pc EXCEPT ![w] = IF i[w] < Len(got[w]) THEN "looping" ELSE "check"]

TaskReturns(w) ==
    /\ ~terminated
    /\ pc[w] = "running"
    /\ unsignalled[w] = 0
    /\ EndTask(w, "returned")
    /\ UNCHANGED <<lifecycle, done, joined, last, packaged, terminated, queueVars>>

(* Nothing in worker() catches what a task throws; a packaged_task does. *)
TaskThrows(w) ==
    /\ ~terminated
    /\ pc[w] = "running"
    /\ unsignalled[w] = 0
    /\ IF got[w][i[w]] \in packaged
          THEN EndTask(w, "threw") /\ UNCHANGED terminated
          ELSE terminated' = TRUE /\ UNCHANGED <<outcome, i, pc>>
    /\ UNCHANGED <<lifecycle, done, joined, last, packaged, queueVars>>

-------------------------------------------------------------------------------
(* A second await() throws: there is no thread left to join. *)
Await ==
    /\ ~terminated
    /\ lifecycle = "open"
    /\ joined < Concurrency
    /\ lifecycle' = "awaiting"
    /\ UNCHANGED <<done, joined, pc, i, last, packaged, outcome, terminated, queueVars>>

(* Mutant: threads are counted off whether or not they have ended. *)
JoinNextRunning ==
    /\ ~terminated
    /\ lifecycle \in {"awaiting", "destructing"}
    /\ joined < Concurrency
    /\ joined' = joined + 1
    /\ lifecycle' = IF lifecycle = "awaiting" /\ joined' = Concurrency
                       THEN "open" ELSE lifecycle
    /\ UNCHANGED <<done, pc, i, last, packaged, outcome, terminated, queueVars>>

(* Threads are joined in the order of their creation. *)
JoinNext ==
    /\ ~terminated
    /\ lifecycle \in {"awaiting", "destructing"}
    /\ joined < Concurrency
    /\ pc[joined + 1] = "exited"
    /\ joined' = joined + 1
    /\ lifecycle' = IF lifecycle = "awaiting" /\ joined' = Concurrency
                       THEN "open" ELSE lifecycle
    /\ UNCHANGED <<done, pc, i, last, packaged, outcome, terminated, queueVars>>

(* Mutant: the destructor awaits the workers without stopping them. *)
DestructUnstopped ==
    /\ ~terminated
    /\ lifecycle = "open"
    /\ \A c \in Callers : unsignalled[c] = 0
    /\ lifecycle' = "destructing"
    /\ UNCHANGED <<done, joined, pc, i, last, packaged, outcome, terminated, queueVars>>

(* ~parameterized_pool_t: the owner knows that no other thread is in a     *)
(* call.  stop().await() joins the threads; had they been joined before,   *)
(* await() throws at once and the exception is dropped.                    *)
Destruct ==
    /\ ~terminated
    /\ lifecycle = "open"
    /\ \A c \in Callers : unsignalled[c] = 0
    /\ lifecycle' = "destructing"
    /\ done' = TRUE
    /\ UNCHANGED <<joined, pc, i, last, packaged, outcome, terminated, queueVars>>

Queued(t) == \E p \in Clients \union Tokens :
                \E k \in 1..Len(inner[p]) : inner[p][k] = t

(* Mutant: the members go while workers are still at work. *)
DestroyQueueUnjoined ==
    /\ ~terminated
    /\ lifecycle = "destructing"
    /\ lifecycle' = "destroyed"
    /\ outcome' = [t \in Tasks |-> IF Queued(t) THEN "dropped" ELSE outcome[t]]
    /\ Queue!Destroy
    /\ UNCHANGED <<done, joined, pc, i, last, packaged, terminated>>

(* The members go: tasks still queued are destroyed, never run. *)
DestroyQueue ==
    /\ ~terminated
    /\ lifecycle = "destructing"
    /\ joined = Concurrency
    /\ lifecycle' = "destroyed"
    /\ outcome' = [t \in Tasks |-> IF Queued(t) THEN "dropped" ELSE outcome[t]]
    /\ Queue!Destroy
    /\ UNCHANGED <<done, joined, pc, i, last, packaged, terminated>>

-------------------------------------------------------------------------------
Client(c) == Schedule(c) \/ ScheduleAndForget(c) \/ ScheduleBulk(c) \/ Stop(c)

TaskEnds(w) == TaskReturns(w) \/ TaskThrows(w)

Worker(w) == Check(w) \/ Claim(w) \/ TimeOut(w) \/ Fill(w) \/ StartTask(w) \/ TaskEnds(w)

Owner == (\E w \in Workers : SpawnWorker(w)) \/ SpawnThrows \/ JoinNext \/ DestroyQueue

Next ==
    \/ \E c \in Clients : Client(c) \/ Signal(c)
    \/ \E w \in Workers : Worker(w)
    \/ Owner \/ Await \/ Destruct

Spec == Init /\ [][Next]_vars

(* Threads are scheduled and tasks end.  A worker that keeps asking for    *)
(* permits while there are some gets one in the end: see the README.       *)
(* Nobody has to call anything.                                            *)
Fairness ==
    /\ WF_vars(Owner)
    /\ \A c \in Clients : WF_vars(Signal(c))
    /\ \A w \in Workers : WF_vars(Worker(w)) /\ SF_vars(Claim(w)) /\ SF_vars(TaskEnds(w))

FairSpec == Spec /\ Fairness

-------------------------------------------------------------------------------
InBatch(w, t) ==
    /\ pc[w] \in {"filling", "looping", "running"}
    /\ \E k \in i[w]..Len(got[w]) : got[w][k] = t

Running(w, t) == pc[w] = "running" /\ got[w][i[w]] = t

State(t) ==
    IF t > last THEN "new"
    ELSE IF outcome[t] # "none" THEN outcome[t]
    ELSE IF \E w \in Workers : Running(w, t) THEN "running"
    ELSE IF \E w \in Workers : InBatch(w, t) THEN "claimed"
    ELSE IF Queued(t) THEN "queued" ELSE "lost"

-------------------------------------------------------------------------------
PoolTypeOK ==
    /\ lifecycle \in {"constructing", "failed", "open", "awaiting",
                       "destructing", "destroyed"}
    /\ done \in BOOLEAN /\ terminated \in BOOLEAN
    /\ joined \in 0..Concurrency
    /\ pc \in [Workers -> {"unborn", "check", "waiting", "filling",
                            "looping", "running", "exited"}]
    /\ i \in [Workers -> Nat]
    /\ last \in 0..MaxTasks
    /\ packaged \subseteq Tasks
    /\ outcome \in [Tasks -> {"none", "returned", "threw", "rejected", "dropped"}]

(* Type correctness of the pool and of the queue in it. *)
TypeOK == PoolTypeOK /\ Queue!TypeOK

(* Every task in the queue has its permit, and a worker that has claimed   *)
(* permits finds as many tasks: it never spins in wait_dequeue_bulk_timed. *)
Backed == Queue!Backed

(* What the threads of the pool owe the queue: a worker owes items only    *)
(* while it fills its batch, a thread that has been joined owes nothing,   *)
(* and nobody is in a call to a pool that is being destroyed.              *)
LocalsOf(w) ==
    /\ pc[w] = "filling" <=> owed[w] > 0
    /\ pc[w] = "waiting" <=> w \in waiters
    /\ unsignalled[w] > 0 => pc[w] = "running"

Locals ==
    /\ \A w \in Workers : LocalsOf(w)
    /\ \A w \in 1..joined : pc[w] = "exited"
    /\ \A c \in Callers : owed[c] = 0
    /\ lifecycle \in {"destructing", "destroyed"} =>
          \A c \in Callers : unsignalled[c] = 0

(* Backed needs Locals to be inductive: the queue is destroyed with its    *)
(* permits, which is right only if no thread holds some.                   *)
IInv == TypeOK /\ Locals /\ Backed

(* A task is in one place at a time, so it is never run twice: not in two  *)
(* sub-queues or batches, not in the queue once it has ended.              *)
OnePlace ==
    \A t \in 1..last :
        Cardinality({p \in Clients \union Tokens :
                        \E k \in 1..Len(inner[p]) : inner[p][k] = t})
          + Cardinality({w \in Workers : InBatch(w, t)})
        = IF outcome[t] = "none" THEN 1 ELSE 0

(* A claimed task is run even if the pool is stopped meanwhile, none runs  *)
(* in a destroyed pool, and only tasks no worker claimed are dropped.      *)
Lifecycle == INSTANCE TaskLifecycle WITH
    state <- [t \in Tasks |-> State(t)],
    open <- lifecycle # "destroyed"

Refinement == Lifecycle!Spec

(* stop(): once stopped, a worker at most finishes the batch it is at,    *)
(* however many tasks are scheduled meanwhile.                             *)
StopEndsAfterBatch ==
    \A w \in Workers :
        []((done /\ pc[w] = "running")
           => [](pc[w] \in {"running", "looping", "check", "exited"}))

(* When await() returns, no task runs and none will, whoever schedules it. *)
AwaitedIsQuiet ==
    (Concurrency > 0 /\ joined = Concurrency)
    => \A t \in Tasks : State(t) \notin {"claimed", "running"}

(* A task that has been scheduled is run, unless the pool is stopped. *)
TasksRun ==
    \A t \in Tasks :
        (State(t) \in {"queued", "claimed"})
        ~> (State(t) \in {"returned", "threw"} \/ done \/ terminated)

(* The destructor returns: workers notice stop() within a timeout. *)
DestructorReturns ==
    (lifecycle = "destructing") ~> (lifecycle = "destroyed" \/ terminated)

(* "Waiting for the producers to complete" before pool.stop().await()      *)
(* (examples/many-producers-many-consumers/main.cpp): whatever had been    *)
(* scheduled before the pool was stopped and awaited has been run.         *)
AwaitCompletes ==
    \A t \in Tasks :
        []((State(t) = "queued" /\ ~done)
           => []((joined = Concurrency /\ lifecycle = "open")
                 => State(t) # "queued"))
===============================================================================
