---------------------------- MODULE BlockingQueue ----------------------------
(***************************************************************************)
(* moodycamel::BlockingConcurrentQueue                                     *)
(* (includes/blocking_concurrent_queue.hpp): a concurrent queue `inner`    *)
(* next to a semaphore `sema` that counts its items.  Nothing is atomic    *)
(* over the two: items are inserted first and signalled later, permits are *)
(* taken first and turned into items later, in a loop that only ends when  *)
(* every permit has become an item.                                        *)
(*                                                                         *)
(* `inner` is seen through its linearisation points: a FIFO of its own for *)
(* each producer, inserting all items of a call or none, removing from any *)
(* one producer as many items as it is given, in order.  An attempt that   *)
(* finds nothing, which may happen although there are items, changes       *)
(* nothing.  `sema` is the abstract semaphore CountingSemaphore.           *)
(***************************************************************************)
EXTENDS Integers, Sequences, FiniteSets, Totals

CONSTANTS
    Threads,    \* the threads that use the queue
    Producers,  \* sub-queues: one per enqueuing thread, one per producer token
    Items       \* what is queued

VARIABLES
    inner,          \* the items of each producer, oldest first
    permits,        \* permits in sema
    waiters,        \* threads in sema->waitMany
    unsignalled,    \* items a thread has inserted and not signalled
    owed,           \* permits a thread has taken and no item for (max - count)
    got             \* the items the last dequeue of a thread has stored

vars == <<inner, permits, waiters, unsignalled, owed, got>>

Size == [p \in Producers |-> Len(inner[p])]

-------------------------------------------------------------------------------
Init ==
    /\ inner = [p \in Producers |-> <<>>]
    /\ permits = 0
    /\ waiters = {}
    /\ unsignalled = [t \in Threads |-> 0]
    /\ owed = [t \in Threads |-> 0]
    /\ got = [t \in Threads |-> <<>>]

(* The first half of enqueue and enqueue_bulk, when the items fit. *)
Insert(t, p, items) ==
    /\ unsignalled[t] = 0
    /\ inner' = [inner EXCEPT ![p] = @ \o items]
    /\ unsignalled' = [unsignalled EXCEPT ![t] = Len(items)]
    /\ UNCHANGED <<permits, waiters, owed, got>>

(* Mutant: sema->signal() after a bulk insertion, for one item. *)
SignalOne(t) ==
    /\ unsignalled[t] > 0
    /\ permits' = permits + 1
    /\ unsignalled' = [unsignalled EXCEPT ![t] = 0]
    /\ UNCHANGED <<inner, waiters, owed, got>>

SignalItems(t) ==
    /\ unsignalled[t] > 0
    /\ permits' = permits + unsignalled[t]
    /\ unsignalled' = [unsignalled EXCEPT ![t] = 0]
    /\ UNCHANGED <<inner, waiters, owed, got>>

WaitDequeueBulk(t) ==
    /\ t \notin waiters
    /\ owed[t] = 0
    /\ waiters' = waiters \union {t}
    /\ got' = [got EXCEPT ![t] = <<>>]
    /\ UNCHANGED <<inner, permits, unsignalled, owed>>

(* Mutant: waitMany answers as if it had all it was asked for. *)
AcquireMax(t, max) ==
    /\ t \in waiters
    /\ permits > 0
    /\ permits' = permits - max
    /\ owed' = [owed EXCEPT ![t] = max]
    /\ waiters' = waiters \ {t}
    /\ UNCHANGED <<inner, unsignalled, got>>

(* waitMany may come back with less than there is. *)
Acquire(t, max) ==
    /\ t \in waiters
    /\ \E n \in 1..max :
          /\ n <= permits
          /\ permits' = permits - n
          /\ owed' = [owed EXCEPT ![t] = n]
    /\ waiters' = waiters \ {t}
    /\ UNCHANGED <<inner, unsignalled, got>>

(* A waiter withdraws when the count is negative, that is when there are   *)
(* more waiters than permits: some may time out though permits are there.  *)
TimeOut(t) ==
    /\ t \in waiters
    /\ permits < Cardinality(waiters)
    /\ waiters' = waiters \ {t}
    /\ UNCHANGED <<inner, permits, unsignalled, owed, got>>

(* Mutant: the head index is advanced by one item too few. *)
TryDequeueBulkTwice(t, p, n) ==
    /\ n <= owed[t]
    /\ n <= Len(inner[p])
    /\ owed' = [owed EXCEPT ![t] = @ - n]
    /\ got' = [got EXCEPT ![t] = @ \o SubSeq(inner[p], 1, n)]
    /\ inner' = [inner EXCEPT ![p] = SubSeq(@, n, Len(@))]
    /\ UNCHANGED <<permits, waiters, unsignalled>>

(* One pass of the loop that finds n items with producer p. *)
TryDequeueBulk(t, p, n) ==
    /\ n <= owed[t]
    /\ n <= Len(inner[p])
    /\ owed' = [owed EXCEPT ![t] = @ - n]
    /\ got' = [got EXCEPT ![t] = @ \o SubSeq(inner[p], 1, n)]
    /\ inner' = [inner EXCEPT ![p] = SubSeq(@, n + 1, Len(@))]
    /\ UNCHANGED <<permits, waiters, unsignalled>>

(* The destructor frees the items left in it with the semaphore. *)
Destroy ==
    /\ inner' = [p \in Producers |-> <<>>]
    /\ permits' = 0
    /\ UNCHANGED <<waiters, unsignalled, owed, got>>

-------------------------------------------------------------------------------
TypeOK ==
    /\ inner \in [Producers -> Seq(Items)]
    /\ permits \in Nat
    /\ waiters \subseteq Threads
    /\ unsignalled \in [Threads -> Nat]
    /\ owed \in [Threads -> Nat]
    /\ got \in [Threads -> Seq(Items)]

(* Every item is accounted for by a permit, by a thread that will signal   *)
(* it or by one that will fetch it.  So the loop `while (count != max)`    *)
(* always has items to find, and no item is left without a permit.         *)
Backed == Total(Size) = permits + Total(owed) + Total(unsignalled)
===============================================================================
