# Verification of thread-pool

TLA+ specifications, TLC models and TLAPS proofs of the thread pool in
`src/includes`: a pool of worker threads (`thread_pool.hpp`) over a blocking
concurrent queue (`blocking_concurrent_queue.hpp`, `concurrent_queue.hpp`) and a
lightweight semaphore (`lightweight_semaphore.hpp`). `PROJECT.json` lists the
components, the runs, the mutants each property detects, the source lines each
definition stands for, the hazards of the code and the theorems.

## 1. Inventory

| Component | State | Operations | Interacts with |
|---|---|---|---|
| Thread pool, `thread_pool.hpp` | `threads_`, `tasks_`, `done_` | constructor, `schedule`, `schedule_and_forget`, `schedule_bulk` (each with or without a token), `stop`, `await`, destructor, `worker` | callers and tasks enqueue on `tasks_`, workers dequeue in batches, `done_` is shared, `await` joins |
| Callable binding, `thread_pool_callable.hpp` | none | `bind`, `callable_t::operator()` | one call of `schedule` |
| Blocking queue, `blocking_concurrent_queue.hpp` | `inner`, `sema` | `enqueue`, `enqueue_bulk`, `try_*`, `wait_dequeue*` | insert then signal; take permits then fetch that many items |
| Lightweight semaphore, `lightweight_semaphore.hpp` | `m_count`, the kernel semaphore `m_sema` | `tryWait`, `wait`, `tryWaitMany`, `waitMany`, `signal` | waiters sleep on `m_sema`, `signal` posts it |
| Sub-queues, `concurrent_queue.hpp` | `tailIndex`, `headIndex`, `dequeueOptimisticCount`, `dequeueOvercommit` | `dequeue`, `dequeue_bulk` of explicit and implicit producers | one writer, many readers |
| Explicit producers, same file | a ring of blocks with flags, a circular block index | `enqueue`, `enqueue_bulk`, block search, `new_block_index`, destructor | filled by one token; blocks from the block pool, kept for ever |
| Implicit producers, same file | blocks with counters, a block index of entries | the same, `insert_block_index_entry`, `rewind_block_index_tail` | filled by one thread; blocks come from and go back to the block pool |
| Block pool, same file | `initialBlockPoolIndex`, the free list | `requisition_block`, `add_block_to_free_list` | every producer and every consumer that empties a block |
| Hash of implicit producers, same file | `implicitProducerHash`, its count and resize flag | `get_or_add_implicit_producer` | a thread finds its sub-queue |
| Producer list, same file | `producerListTail`, `producerCount`, tokens | `recycle_or_create_producer`, `add_producer`, `ProducerToken` | a token owns a sub-queue; consumers go through the list |
| Consumer rotation, same file | `globalExplicitConsumerOffset`, `ConsumerToken` | `try_dequeue*`, `update_current_producer_after_rotation` | consumers choose sub-queues |
| Async executor, `common/executor` | a queue | `execute_async`, `run` | used by the tests to print from workers |

What is hard here:

- *Semaphore.* The count and the kernel semaphore are two objects. A timeout, a
  signal and a withdrawal of the same waiter overlap. Correct means: a permit is
  never lost or made, a sleeper is woken if there is a permit for it, calls end.
- *Blocking queue.* Items and permits are updated apart. Correct means: whoever
  holds permits finds as many items, no item is without a permit for ever.
- *Pool.* `stop()` only stops workers between two batches, tasks enqueue tasks,
  threads fail to start, tasks throw. Correct means: a task is run at most once
  and only while the pool exists; once claimed it is run; the destructor waits
  for the workers and returns.
- *Block pool.* A block leaves and comes back between two steps of a thread that
  looks at it (ABA). Correct means: no block is given out twice, none is lost.
- *Sub-queues.* Dequeuers reserve optimistically and give back through the
  overcommit counter; counters wrap.
- *Producers.* Consumers read the block index while the producer adds to it,
  takes back what it added, wraps it and replaces it; memory may run out and
  constructors throw at every step. Correct means: an element is found where it
  was put, blocks are used again, none is lost, and the destructor can tell what
  is left.
- *Hash.* The table is replaced while others search it and insert in it. Correct
  means: a thread always has one producer of its own and every search ends.
- *List and rotation.* Producers are handed from token to token while they are
  drained, and the list grows under those who go through it. Correct means: a
  producer has one token, no attempt passes over a producer, consumers spread.

## 2. Modules

Each module has its own table of correspondence in `PROJECT.json` under `map`.

| Module | Models |
|---|---|
| `CountingSemaphore` | what a semaphore promises: permits are added, and taken at most as many as asked |
| `LightweightSemaphore` | `lightweight_semaphore.hpp`, one action per atomic access or kernel call |
| `BlockingQueue` | operations of `BlockingConcurrentQueue` over an abstract inner queue and the abstract semaphore; it has no `Next` of its own, the pool composes its actions |
| `ThreadPool` | `thread_pool.hpp`: owner, callers, workers and tasks, over an instance of `BlockingQueue` |
| `TaskLifecycle` | what the pool promises about a task |
| `BlockPool` | `requisition_block`, the initial pool and `FreeList`, one action per atomic access |
| `SubQueue` | the four counters of a sub-queue and its slots: `dequeue` and `dequeue_bulk` of both kinds of producers, one action per atomic access |
| `Fifo` | what a sub-queue promises |
| `ExplicitProducer` | blocks, flags and block index of a token's producer, from its constructor to its destructor |
| `ImplicitProducer` | blocks, counters and block index of a thread's producer |
| `ProducerHash` | `get_or_add_implicit_producer`, one action per atomic access |
| `ProducerList` | the list of producers and the producer tokens |
| `ConsumerRotation` | attempts to dequeue, with and without consumer tokens, over `ProducerList`, which it extends |
| `Totals` | the sum of a function, stated so that it can be reasoned about without induction |
| `MCSubQueue`, `MCExplicitProducer`, `MCImplicitProducer`, `MCConsumerRotation` | instances for TLC: symmetry, or who takes part |
| `TotalsProofs`, `LightweightSemaphoreProofs`, `ThreadPoolProofs`, `SubQueueProofs`, `BlockPoolProofs`, `ProducerHashProofs`, `ConsumerRotationProofs` (with `ProducerList`), `ImplicitProducerProofs` | theorems |

`SubQueue` implements `Fifo`, the view `BlockingQueue` has of each producer.
`LightweightSemaphore` implements `CountingSemaphore`; `BlockingQueue` uses the
semaphore through that promise: `permits` are what `signal` has given,
`waiters` are the threads in `waitMany`. `ThreadPool` composes `BlockingQueue`
and implements `TaskLifecycle`. Operators with a comment that starts
"Mutant:" are wrong versions of the operator that follows them; nothing uses
them but the check that each property can fail.

### LightweightSemaphore

`mCount` is `m_count`, `mSema` the kernel semaphore's value, `pc`, `mode`, `max`,
`granted` and `toRelease` the locals of the calls. The spin loop is the state
"spinning": any number of spins, so `FetchSub` is possible whatever the count
is. A load of the count and the swap that succeeds on it are one action (a
failed swap changes nothing); the load that sends a waiter to `try_wait()` is an
action of its own, because the swap does not follow it. `signal()` decides how
many posts it makes in one step (`Signal`) and makes them one at a time
(`Post`). `wait` is `waitMany(1)`, whose code differs from it in nothing else.
An interrupted kernel wait is retried by the wrapper, so it is a stutter.

### BlockingQueue and ThreadPool

`Insert` and `SignalItems` are the two halves of `enqueue` and `enqueue_bulk`.
`WaitDequeueBulk`, `Acquire` or `TimeOut`, and repeated `TryDequeueBulk` are
`wait_dequeue_bulk_timed`. `inner` is one FIFO per producer: a producer token
or, without one, the calling thread. `TryDequeueBulk` may take any number of
items from any one producer, and it need not be taken: an attempt that finds
nothing is a stutter. This is the linearised view of `concurrent_queue.hpp`,
whose dequeue protocol is `SubQueue` and whose attempts on several producers are
`ConsumerRotation`.

In `ThreadPool` a task is a number. `Enqueue(c, n)` is the common part of the
scheduling operations for caller `c`, which may be a worker that runs a task; it
may fail, as `enqueue` does when memory is exhausted. `packaged` remembers that
`schedule` wraps its task in a `packaged_task`, which keeps an exception, while
a task of `schedule_and_forget` or `schedule_bulk` that throws terminates the
program (`terminated`). `Check`, `Claim`, `Fill`, `StartTask` and `TaskReturns`
or `TaskThrows` are the loop of `worker()`. `SpawnThrows` is `std::thread`
failing in the constructor. The owner's `Await` and `Destruct` join with
`JoinNext`, in order; after an `await()` the destructor's own `await()` throws
and the exception is dropped, which is why `Destruct` may find every thread
joined.

### BlockPool

`freeListRefs` is one number with the bit `SHOULD_BE_ON_FREELIST`; the constant
replaces 2^31 by a number that only has to exceed the references there can be.
`Add` frees a block that is in use; any thread may do so, as the thread that
empties a block frees it. `return` is where `add_knowing_refcount_is_zero` goes
on: its caller is `add` or the failed attempt of `try_get`. Locals that are dead
are reset, so that states that differ only in them are one. `OnList`, the blocks
on the free list, is the smallest set that has the head and is closed under the
next pointers; properties use it, no action does.

### SubQueue

The counters have their names of the code and are numbers modulo `Modulus`, an
even number in place of 2^64. `slot` is what the blocks hold at each index; how an
index finds its block is left to the producers' modules. `Construct` and
`Publish` are the producer's half: elements beyond the tail, then one store of
the tail. A consumer's call is `Call`, three `Load`s in any order (they are
relaxed), then `SeeNone` or `Reserve`, `Check` (the tail is loaded again),
`GiveBack` if it was granted less than it reserved, `Take` if it was granted
anything, and a `Move` per element, or `MoveThrows`. `count` is first `max`, then
`desiredCount`, then `actualCount`, then what is left to move, as none of them is
needed when the next is known. `dequeue` is the same for `max = 1`: its test
`circular_less_than(a, b)` and `dequeue_bulk`'s `circular_less_than(0, b - a)`
compare the same difference.

In a behaviour with `permits` callers ask only for what is there and nobody else
has asked for, as consumers of a `BlockingConcurrentQueue` with one producer do
(`Backed` in `BlockingQueue`); `NeverOvercommits` is about these.

Two consumers may keep each other from an element for ever: one reserves beyond
the tail, the other loads the overcommit before the first gives back, reserves,
finds itself beyond the tail for that reason, and so on in turns. Each call
ends, and answers that nothing appeared to be there, which is what the queue
promises. So `Drained` is about a consumer that is left alone.

### ExplicitProducer and ImplicitProducer

What consumers divide by `SubQueue` is taken in one step here (`Take`); the
subject is how an index finds its block. An element is the index it was enqueued
at, so reading from a wrong slot shows. Both calls of the producer go through
the same steps: `Call`, then for each block `Reuse`, `Grow`, `Insert` (or the
implicit producer's `InsertEntry`, `Grow`, `Requisition`), then `Publish`, or a
failure: no memory, or a constructor that throws, and what the code undoes then.
`op` holds the locals of the call. A consumer loads the index and its front or
tail (`LoadFront`, `LoadTail`), computes the slot (`Locate`) and moves what it
has in that block (`MoveBlock`), all of these apart, so that the producer may
run between them; indexes are never freed, and `blockIndexes` keeps them all.

The explicit producer's blocks are marked empty by flags, as in the code for
blocks of at most 32 elements, the implicit one's by a counter. In
`ImplicitProducer` indexes share entries (`entry` names them, `key` and `value`
are theirs), and `free` is every pool: who else takes a block does not matter.
`Destructed`, `LeftBehind` and `FreesTailBlock` are what the destructors would
do in the present state; they are used in properties only.

Two constants of `ExplicitProducer`, `Unallocated` and `Throwing`, say for which
kinds of calls memory may run out and constructors may throw, because three of
the four combinations break the code (section 3, findings). `stranded` is
history: the blocks that are lost by the first of these defects, excepted from
`Reusable` and `DestroysAll` in the passing run so that they say something of
all other blocks.

Abstracted: `MAX_SUBQUEUE_SIZE` is at its default, no bound; the header of the
index and its front are loaded in one step; the two steps by which a dequeuer
empties an entry and frees its block are one (`FreeBlock`).

### ProducerHash

`tables` are the hashes, the newest last; a thread holds the number of the one
it has loaded. `SearchFurther`, `SearchPrevious` and `Found` look for the thread
in its table and older ones, `CountIn` counts it, `TryLock`, `Locked`, `Install`
or `AllocationFails`, `Unlock` or `GiveUp` replace the table, `Create`, `Insert`
or `CreateFails` add it, and `Wait` spins. The header defines no thread-local
support, so threads that exit leave their entry and the code for that is not
compiled. A probe and the swap on the slot that it finds empty are one step.
`NewCapacities` gives the capacity that the doubling loop ends with, by what is
true of it and of its half.

### ProducerList and ConsumerRotation

`ProducerList` has `recycle_or_create_producer` (`Construct`, `PassOver`,
`SeeInactive`, `TakeOver`) and `add_producer` (`Create`, `LoadTail`, `Link`) one
action per atomic access, what a token does to its producer (`Own`, `Move`,
`Swap`, `Destroy`, `Release`) and the queue's destructor, which tokens may
outlive. Implicit producers are in the list from the start; none becomes
inactive.

`ConsumerRotation` adds consumers, of which each has a token. An attempt is
`Scan`, `ScanEnds`, `AskBest`, `SkipBest`, `AskNext`, `ListEnds` without the
token, and `LoadTailToRotate`, `Rotate`, `AskCurrent`, `LoadTailToTurn`,
`AskRound`, `RoundEnds` with it. `Ask` is one `dequeue` or `dequeue_bulk` of a
producer: it gets all there is, or less while another consumer is in a call.
`unasked` and `producers` are history. `Casts` says who takes part in a
behaviour. The loads of `producerCount` and of the global offset are one step.

## 3. Runs

| Run | Shows | Bounds |
|---|---|---|
| `semaphore` | `Accounting`, `NoLostWakeup`, `ForeverAcquires`, `Refinement`, `LockFree` | three threads, batches and signals of at most two, at most two permits |
| `pool_safety` | `TypeOK`, `Backed`, `OnePlace`, `AwaitedIsQuiet`, `Refinement`, `StopEndsAfterBatch` | two workers, one caller, three tasks, batches of two |
| `pool_liveness` | `TasksRun`, `DestructorReturns` | two workers, one caller, one token, two tasks |
| `pool_await` | that `AwaitCompletes` is violated | one worker, one task |
| `blocks` | `RefsCounted`, `OnePlace`, `NoneLost`, `LockFree` | three threads, an initial block and an allocated one |
| `subqueue_safety` | `Balance`, `Guaranteed`, `Refinement`, `NeverOvercommits` | three consumers, three elements, batches of two, six reservations, with and without permits |
| `subqueue_liveness` | `Drained` | two consumers, three elements, batches of two, six reservations |
| `explicit` | `Located`, `Indexed`, `Reusable`, `DestroysAll` | two consumers, three blocks of two, indexes of two and four slots, calls of at most three |
| `explicit_throws` | that `AvailableNextTime` is violated | the same |
| `implicit` | `Located`, `Indexed`, `OnePlace`, `DestructorGivesBack` | the same, every step may fail |
| `hash` | `SlotLeft`, `Counted`, `Distinct`, `KeepsProducer`, `CallsEnd` | three threads whose hashes collide, a table of two |
| `producers` | `Owned`, `ProducersReused`, `AsksAll`, `Spread`, `CallsEnd` | three tokens; a token, an implicit producer, two consumers and two or three elements |

Why the bounds are enough. *Semaphore:* three threads are a sleeper, a thread
whose time runs out and one that posts; two permits in one `signal` release two
sleepers with two posts, and a batch of two takes the path through
`tryWaitMany`. More permits than `MaxPermits` only make every wait succeed at
once. *Pool:* two workers compete for permits and items; three tasks leave one
in the queue when a batch of two is claimed, or one scheduled by a running task.
*Blocks:* ABA needs a head and its successor, two blocks; the third thread
interferes with the retry of the second. *Sub-queue:* the third consumer
reserves on top of a reservation in vain while a second one is being decided;
`Start` is one below the modulus, so that tail, head, overcommit and optimistic
count each wrap around in the run, at different times. `MaxReserved` also keeps
a consumer from sleeping on a loaded overcommit while half of all values go by,
which takes 2^63 dequeues in the program. *Producers:* three blocks of two make
a ring that is used again and an index that is replaced once, after which
consumers still read the first; a call of three elements ends in the second
block it takes; `Modulus` is 16, so that indices wrap. Bulk calls that span
three new blocks would need more. *Hash:* three threads fill the first table
(two slots) beyond one half and beyond three quarters; all hashes are 3, which
collides in the last slot of every table and makes probes go round. *List:*
three tokens race for one or two inactive producers; `MaxProducers` is one more
than `ProducersReused` allows. *Rotation:* two consumers with tokens and one or
two producers, of which the second is pushed during calls; `Quota` is 1 and
`Enough` (the 3 of `try_dequeue`) is 2, so that two elements make consumers
rotate twice and a scan stops early. `MaxElements`, `MaxReserved`, `MaxTasks`,
`MaxBulk`, `MaxBatch`, `MaxSignal`, `MaxPermits`, `MaxBlocks`, `MaxIndexes`,
`MaxIndexSize`, `MaxProducers`, `Casts` and the number of `Blocks` are the only bounds that the
program does not have, next to the small `Modulus`.

The configurations of the pool, the semaphore, the sub-queue and the producer
list set `CHECK_DEADLOCK FALSE`: a destroyed pool or queue takes no step, all
threads may sleep on a semaphore that nobody signals, and nobody has to call a
sub-queue. The others are checked for deadlock as well.

### Fairness

- `LightweightSemaphore` and `BlockPool`: weak fairness of the steps a thread
  takes inside a call, that is, threads are scheduled. Nobody has to call. The
  promise is lock-freedom only (some call ends): a single thread may be beaten
  to the swap for ever.
- `SubQueue`: weak fairness of a consumer's steps inside a call and of `Publish`.
  `Drained` itself supposes a consumer that goes on calling.
- `ProducerHash`, `ConsumerRotation`: weak fairness of the steps of a thread
  inside a call. `CallsEnd` of the first excepts behaviours in which allocations
  of tables fail for ever: a thread that waits for a table that nobody can make
  tries again each time. Producer tokens come and go at will.
- `ThreadPool`: weak fairness of the owner's steps inside a call, of `Signal`
  and of each worker; tasks end (`TaskEnds`). Nobody has to schedule, stop or
  destroy. `Claim(w)` is strongly fair: a worker that asks again and again
  while there are permits gets one in the end. In the code it asks again
  after each timeout (a second unless configured), each call first spins on the
  count, and a registered waiter may withdraw only if the count is negative,
  that is if fewer permits than waiters are there. Starvation would need the
  other workers to win every one of these races for ever.

### Findings

`pool_await`: `examples/many-producers-many-consumers/main.cpp:58` comments
`pool_of_producers.stop().await()` with "Waiting for the producers to
complete.", after which line 62 waits until their work has been done. The code
stops workers at the next look at `done_` (`thread_pool.hpp:251`) whatever is
queued, so producers that no worker has claimed by then are never run, and the
example does not end. (`README.md:198` of the repository describes the behaviour
of `stop` as the code has it.)

`explicit_throws`: when the constructor of the first element of a block throws,
`enqueue` means to "leave the new block available for next time"
(`concurrent_queue.hpp:1907`). The flags of the block have been reset and no
dequeue will set them, so it does not look empty: it is not used next time, nor
is any block behind it, and every further block's worth of elements allocates
another. The destructor takes it for a full block and destroys elements that
were never constructed: with `stranded` left out of `DestroysAll` the same
configuration shows it.

Two more defects of the explicit producer appear in other instances, which are
not among the runs:

- `Unallocated = {"bulk"}`, `Throwing = {}` violates `Indexed`. A bulk
  insertion that finds no memory keeps the blocks it has put into the ring
  (lines 2087-2089) but sets `pr_blockIndexSlotsUsed` back, so the index gets
  smaller than the ring and a later insertion overwrites the slot of a block
  that holds elements.
- `Throwing = {"enqueue", "bulk"}`, `Unallocated = {}` with four blocks and no
  check for deadlock violates `Indexed`. The
  fallback that is set when the index has been replaced (lines 2094-2097) is
  wrong if the same call had used a block again before: after an exception the
  next block's slot is not next to its predecessor's.

One oddity no property is about: `try_dequeue` with a token compares the items
it has consumed with the quota by `==` (line 1179), so a token that has passed
the quota by a bulk dequeue that got only part of what it asked for (line 1243)
makes nobody rotate until it changes producer.

## 4. Proofs

For any values of the constants that the assumptions allow:

| Module | Theorems |
|---|---|
| `LightweightSemaphoreProofs` | `TypeCorrect`, `AccountingHolds`, `NoWakeupIsLost`, `ForeverHasAcquired`, `ImplementsSemaphore` (`Refinement`) |
| `ThreadPoolProofs` | `TypeCorrect`, `TasksAreBacked`, `AwaitedPoolIsQuiet`, `StopIsPrompt`, `TaskInvariance`, `OnePlaceHolds`, `ImplementsLifecycle` (`Refinement`) |
| `SubQueueProofs` | `BalanceHolds`, `GuaranteedHolds`, `NeverOvercommitsHolds`, `ImplementsFifo` (`Refinement`) |
| `BlockPoolProofs` | `RefsCountedHolds`, `OnePlaceHolds`, `NoneLostHolds` |
| `ProducerHashProofs` | `DistinctHolds`, `KeepsProducerHolds`, `CountedHolds`, `SlotLeftHolds` |
| `ConsumerRotationProofs` | `OneOwner` (`Owned`) and `ReusesProducers` (`ProducersReused`) of the producer list, also with consumers; `AsksAllHolds`, `SpreadHolds` |
| `ImplicitProducerProofs` | `Invariance`, `FindsElements` (`Located`), `CanBeFound` (`Indexed`), `UsedOnce` (`OnePlace`), `GivesAllBack` (`DestructorGivesBack`) |

`TotalsProofs` derives what the sums need from the library's facts about finite
sets: `Total` counts the pairs `<<x, k>>` with `k \in 1..f[x]`, so a change of
`f` at one point adds or removes a finite set. It also has what the modules whose
counters wrap around need about remainders.

*Semaphore.* `Accounting` says that the registered waiters are those the count
is in debt for plus those a post has been made or decided for. It is not
inductive: a thread may post only if it still owes one, a thread that leaves the
registered states must have been registered, and `granted` must be zero while
it is. `IInv == TypeOK /\ Locals /\ Accounting` adds that. The refinement maps
`permits` to `mCount` plus the registered waiters: a registration takes one from
the first and adds one to the second, a post changes neither, and a permit is
taken when a waiter stops being one. `Permits >= 0` follows from `Accounting`.

*Pool.* `Backed` says that queued tasks are as many as permits, permits taken
without a task yet, and tasks inserted without a permit yet. Each operation of
the queue keeps it (the first part of the module, by `TotalExcept`), but for the
destruction of the queue, which drops tasks and permits alike: it is right only
if nobody holds permits or has a signal to make, which `Locals` provides: only
workers that fill a batch owe tasks, joined workers have exited, and callers are
out of the pool when it is destroyed. `AwaitedIsQuiet` needs `Locals` too;
`StopEndsAfterBatch` follows because a worker in its batch reads `done_` before
it can claim again.

`OnePlace` counts, for one task, how often it is in sub-queues and batches.
`TaskInv` says it by places instead: no task is at two (`Distinct`), and it is
at one exactly if it has been scheduled and has no outcome (`Placed`). Because no
task is lost, what the refinement maps a task to can be told from its outcome and
from the batches alone, without looking into the sub-queues; each of the pool's
steps then changes it as `TaskLifecycle` allows.

*Sub-queue.* `Counters` relates the four counters, as distances from where they
started, to the calls that are open; `Balance` follows. That consumers are only
granted what is there (`Guaranteed`) is not inductive, because each of them
decides on a tail and an overcommit it loaded before. `Limited` orders the open
reservations by their position in the optimistic count: all that was granted,
and all that may still be granted to reservations up to that of `c`, is
published, or fits before the end of `c`'s reservation less the failures `c` has
seen. What `c` has loaded too early only makes it ask for less. For the
refinement, `Stored` adds that an element which is not moved yet is where it was
put, in ranges that no two consumers share. A behaviour is so short that no
counter passes half of the modulus (`SubQueueAssumption`); where in it they wrap
does not matter.

*Block pool.* The invariant is about one block (`Fine`): it is in one place, at
most one thread takes, links or puts it back, its reference count is the number
of threads that use it, plus one if it is on the list, with or without the flag
(`Refs`), and a thread owes it to the list exactly if it has the flag and no
references (`Owed`). A thread that has swapped its reference in may rely on the
next pointer that it loads, since a block with references is never linked again;
this is what `Locals` says, and it excludes ABA. `ListOK` says that the list ends
and does not come back to its head. The list as the smallest closed set makes
linking and taking off lemmas without induction.

*Hash.* `Reach` says that from a key back to where its thread hashes there is no
empty slot, `Once` that no table has a key twice. `Local` says which tables a
thread may be in from where it is in the code: only those it has not searched
yet, none, or those older than the one it is about to enter. With one identity
per thread (`Identity`), `Distinct` and `KeepsProducer` follow. `Room` is why no
table fills up: a thread enters a table only if it was counted with less than
three quarters of it, and each thread is counted with another number. So of the
threads that are in the tables up to this one, about to enter one of them, or
counted with at most `k`, there are at most `k`, for any `k` from that limit on.

*Producer list.* `Owned` says who has a producer, but a constructor has one
before the token does: `Exclusive` extends it to the producers that are being
added, and says that none of these is inactive, so that the swap of `TakeOver`
cannot hit them. The queue's destructor reaches only producers in the list, so
`InList` is needed, that every producer with a token, or inactive, is. The list
is defined as the least set closed under `next`; `ListKept` and `ListGrows` show
that a producer not yet linked may change its `next` and that linking only adds
(`Placed`: nobody points to it).

`ProducersReused` bounds the producers by the tokens, although a constructor
looks at each producer once and may miss those that are given up behind it.
Producers have ranks, from the oldest in the list. When a constructor passes a
producer, another token has it, and that one is not past it. So the tokens past
rank `k` leave as many others as there are producers from `k` up (`Behind`);
those that add a producer are past all of them.

*Rotation.* A new producer gets the rank after all others, so ranks are kept.
What a call has not asked and not seen empty is still before it: at its rank or
lower for the walks down the list; for the walk around, between where it is and
where it started, in the order of the ring (`Ahead`), also when it gets
something and starts anew from there. A walk that ends has passed them all. That
a token always stands at a producer in the list, however far it has to move, is
`ForwardStaysIn`, by the least number of steps at which it would not be.

A token that has always seen `n` producers has a place in the ring: the rank of
its producer, less one, is its initial offset less the rotations it knows of
less one, modulo `n` (`PlaceOf`). A step forward is one less modulo `n`
(`ForwardRank`, `ModStep`), and a token that catches up makes as many steps as
there were rotations (`ModDifference`). That it sees as many producers as the
tail's rank is `FromIsRanked`. There are no more rotations than elements
dequeued, so the 32-bit difference does not wrap (`OffsetBounded`, by `Total`).
`Spread` follows: equal places are equal remainders of the offsets.

*Implicit producer.* The invariant is stated in numbers that do not wrap, all of
them existentially quantified in `IInv`: `t` and `h` for tail and head, `i` for
where each consumer is, and `p`, a number for each entry of the index. Along the
ring the numbers `p` go up by one, to `z`, from the entry after it, which has
`z - Size + 1` (`Window`); an entry with a block is numbered like its block, that
is by the index of its first element over `BlockSize`, and an entry that was
never used comes before all that were. Insertion into an index either moves `z`
and takes the oldest entry for the next block, which `NextIsFree` allows, or goes
to an entry that a failed call left behind (`TailNum` and `Latest` tell the tail
of the index from the last block while a call is undone). When the index grows,
the entries are copied from the oldest on, so they keep their numbers, and the
entries of every older index are still numbered along its ring modulo its
smaller capacity (`Placed`): this is why a consumer may go on in the index it
loaded. `Keyed` says that keys are the numbers times `BlockSize`, wrapped, so the
signed distance from the tail's key to the element's block is the difference of
their numbers (`DistanceIs`), which `2 * BlockSize * MaxIndexSize <= Modulus`
makes unambiguous; `Lookup` concludes that a consumer finds the entry of its
element. A consumer reads the tail and then the slot, while the producer goes on;
what it has still to move has entries in the index that it has loaded
(`AtEntry`), and they cannot be used again before it has moved it.

That is the other half: `u` are the elements that are not moved yet. `Waits` says
that each of them is where it was put; `Counted` that the count of a block and
the elements it still holds, or will, make a whole block, and `Freed` that one
consumer gives back a block that is empty. `Owned` is `OnePlace` without
counting: a block is in the pool, has one entry, or is one of those which the
undoing of a call has taken out of the index and not yet given back. `OnePlace`
and `DestructorGivesBack` follow; the latter because, with no call open, a block is
in the index exactly if it holds an element or is the tail block and not full,
and `Lookup` finds the entry of each base from head to tail. TLC cannot evaluate
`IInv`, which ranges over all integers; it checks the invariants that follow.

The assumptions are: sets of threads, tokens and consumers are finite; bounds
are natural numbers; callers are not workers and `BULK_MAX_ITEMS` is at least
one (`ThreadsAssumption`, `BoundsAssumption`, `PoolAssumption` and
`NamesAssumption` of the semaphore and the pool); the free list's flag exceeds
the references there can be (`PoolAssumption` of `BlockPool`); the first table
has two slots or more and hashes are natural numbers (`ProducerHashAssumption`);
the modulus is even and more than twice what is enqueued and reserved
(`SubQueueAssumption`); fewer elements are enqueued than a 32-bit offset can
count rotations, and `Casts` only uses tokens there are
(`ConsumerRotationAssumption`); `None` is no thread, token or number
(`ProducerListAssumption`); the indices of an implicit producer wrap at a
multiple of two blocks, the entries of its block index stand for at most half of
them, and no call inserts as many elements as there are indices, less a block
(`ImplicitProducerAssumption`). With 64-bit indices and blocks of 32 elements
the last two would take more memory than can be addressed.

Only model-checked: liveness, which the prover cannot do; and
`Located`, `Indexed`, `Reusable` and `DestroysAll` of `ExplicitProducer`, whose
ring of blocks would need an invariant of the size of the implicit producer's.

## 5. Not modelled

- The Windows and Mach semaphores, which have the POSIX wrapper's interface.
- Weak memory: atomic accesses are taken in one order. The orders the code asks
  for are not checked.
- `waitMany(0)`, that is `BULK_MAX_ITEMS = 0`: a zero-length array.
- A task that awaits or destroys its own pool, and one that waits for the future
  of another task. The second can block a worker on a task of its own batch.
- `try_*` and single-item operations of the blocking queue: the same two steps,
  of the queue and of the semaphore, in the same order as those modelled. Moves
  and swaps of queues and of consumer tokens, which nobody may do during calls.
- The async executor, an event loop over the blocking queue that no source of
  the library uses. It ends when a poll finds no permit, although an item whose
  signal is on its way may be queued.
- The composition of all of `concurrent_queue.hpp`: `SubQueue` is the producers'
  `Take` and the rotation's `Ask`, `BlockPool` their supply of blocks; each is
  checked against what the other assumes, none in one state space.
- Time: a timeout may happen whenever its call waits.
- Tests, examples and build files, which were read for what they expect.

## 6. What could follow

Proofs of `ExplicitProducer`, in this order: `Reusable` (the flags of a block of
the ring against the elements that wait in it), `Indexed` and `Located`, which can
number the slots of the index as `ImplicitProducerProofs` numbers entries, then
`DestroysAll`. They would have to assume which calls fail, for the reasons given
under Findings, and carry the `stranded` blocks along.
