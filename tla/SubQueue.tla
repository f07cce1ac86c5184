------------------------------- MODULE SubQueue -------------------------------
(***************************************************************************)
(* The counters of a sub-queue (ProducerBase of includes/                  *)
(* concurrent_queue.hpp), by which any number of consumers divide what one *)
(* producer enqueues without a lock.  The protocol is that of dequeue and  *)
(* dequeue_bulk, the same text in ExplicitProducer and ImplicitProducer;   *)
(* dequeue is dequeue_bulk for max = 1.                                    *)
(*                                                                         *)
(* A consumer counts itself in first, on dequeueOptimisticCount, and looks *)
(* afterwards whether there was anything: what it reserved in vain it adds *)
(* to dequeueOvercommit, so that the difference of the two is the number   *)
(* of elements dequeued or about to be.  Only then does it advance         *)
(* headIndex, by as many elements as it has been granted.                  *)
(*                                                                         *)
(* All four are unsigned and wrap around.  One action per atomic access;   *)
(* the three relaxed loads at the start may happen in any order.           *)
(***************************************************************************)
EXTENDS Integers, Sequences, FiniteSets, Totals

CONSTANTS
    Consumers,
    Modulus,        \* of index_t
    Start,          \* of the tail, the head and the overcommit in a run
    MaxElements,    \* bound: elements the producer enqueues, 1, 2, 3...
    MaxBatch,       \* bound: elements of one call
    MaxReserved,    \* bound: elements consumers reserve in a run
    PermitModes     \* whether callers hold a permit per element they ask for

ASSUME SubQueueAssumption ==
    /\ IsFiniteSet(Consumers)
    /\ Modulus \in Nat /\ Modulus % 2 = 0
    /\ Start \in 0..(Modulus - 1)
    /\ MaxElements \in Nat /\ MaxBatch \in Nat /\ MaxReserved \in Nat
    /\ MaxElements + MaxReserved < Modulus \div 2
    /\ PermitModes \subseteq BOOLEAN

Index == 0..(Modulus - 1)

Elements == 1..MaxElements

Nothing == 0        \* in place of an element that is not constructed

Loads == {"tail", "overcommit", "optimistic"}

VARIABLES
    permits,    \* of PermitModes, the one of this run
    tailIndex,
    headIndex,
    dequeueOptimisticCount,
    dequeueOvercommit,
    slot,       \* what the blocks hold at each index
    produced,   \* elements the producer has constructed
    pending,    \* those it has not published yet
    pc,         \* where each consumer is
    unloaded,   \* the loads it has yet to do
    loaded,     \* what it has loaded
    count,      \* max, then desiredCount, then actualCount, then what is left
    excess,     \* what it reserved in vain
    index,      \* myDequeueCount, then the index of the next element to move
    got         \* what its last call has stored

counters == <<tailIndex, headIndex, dequeueOptimisticCount, dequeueOvercommit>>

producer == <<produced, pending>>

vars == <<permits, counters, slot, producer, pc, unloaded, loaded, count, excess, index, got>>

Add(a, b) == (a + b) % Modulus

Subtract(a, b) == (a - b) % Modulus

circular_less_than(a, b) == Subtract(a, b) > Modulus \div 2

Smaller(a, b) == IF a < b THEN a ELSE b

(* The elements that are published and not dequeued. *)
Available == Subtract(tailIndex, headIndex)

-------------------------------------------------------------------------------
(* A sub-queue starts with zeroes; another start is what it gets to after  *)
(* as many elements and as many vain attempts.                             *)
Init ==
    /\ permits \in PermitModes
    /\ tailIndex = Start
    /\ headIndex = Start
    /\ dequeueOvercommit = Start
    /\ dequeueOptimisticCount = Add(Start, Start)
    /\ slot = [i \in Index |-> Nothing]
    /\ produced = 0
    /\ pending = 0
    /\ pc = [c \in Consumers |-> "idle"]
    /\ unloaded = [c \in Consumers |-> {}]
    /\ loaded = [c \in Consumers |-> [l \in Loads |-> 0]]
    /\ count = [c \in Consumers |-> 0]
    /\ excess = [c \in Consumers |-> 0]
    /\ index = [c \in Consumers |-> 0]
    /\ got = [c \in Consumers |-> <<>>]

-------------------------------------------------------------------------------
(* The producer constructs the elements of a call beyond the tail (or, if  *)
(* a constructor throws, destroys them there: nothing has changed)...      *)
Construct(n) ==
    /\ pending = 0
    /\ produced + n <= MaxElements
    /\ slot' = [i \in Index |->
                    IF Subtract(i, tailIndex) < n
                    THEN produced + Subtract(i, tailIndex) + 1
                    ELSE slot[i]]
    /\ produced' = produced + n
    /\ pending' = n
    /\ UNCHANGED <<permits, counters, pc, unloaded, loaded, count, excess, index, got>>

(* ...and makes them visible with one store. *)
Publish ==
    /\ pending > 0
    /\ tailIndex' = Add(tailIndex, pending)
    /\ pending' = 0
    /\ UNCHANGED <<permits, headIndex, dequeueOptimisticCount, dequeueOvercommit, slot>>
    /\ UNCHANGED <<produced, pc, unloaded, loaded, count, excess, index, got>>

-------------------------------------------------------------------------------
Goto(c, label) == pc' = [pc EXCEPT ![c] = label]

(* The end of a call: its locals are dead. *)
Return(c) ==
    /\ Goto(c, "idle")
    /\ loaded' = [loaded EXCEPT ![c] = [l \in Loads |-> 0]]
    /\ count' = [count EXCEPT ![c] = 0]
    /\ excess' = [excess EXCEPT ![c] = 0]
    /\ index' = [index EXCEPT ![c] = 0]

(* What consumers have asked for and not been given. *)
Asked == [c \in Consumers |-> IF pc[c] = "move" THEN 0 ELSE count[c] + excess[c]]

(* Elements that have been reserved so far, or may be. *)
Reservations ==
    Subtract(dequeueOptimisticCount, Add(Start, Start))
    + Total([c \in Consumers |-> IF pc[c] = "load" THEN count[c] ELSE 0])

Call(c, max) ==
    /\ pc[c] = "idle"
    /\ Reservations + max <= MaxReserved
    /\ permits => Total(Asked) + max <= Available
    /\ Goto(c, "load")
    /\ unloaded' = [unloaded EXCEPT ![c] = Loads]
    /\ count' = [count EXCEPT ![c] = max]
    /\ got' = [got EXCEPT ![c] = <<>>]
    /\ UNCHANGED <<permits, counters, slot, producer, loaded, excess, index>>

Load(c, l) ==
    /\ pc[c] = "load"
    /\ l \in unloaded[c]
    /\ unloaded' = [unloaded EXCEPT ![c] = @ \ {l}]
    /\ loaded' = [loaded EXCEPT ![c][l] =
                    CASE l = "tail" -> tailIndex
                      [] l = "overcommit" -> dequeueOvercommit
                      [] l = "optimistic" -> dequeueOptimisticCount]
    /\ UNCHANGED <<permits, counters, slot, producer, pc, count, excess, index, got>>

(* How many elements there seem to be. *)
Estimate(c) ==
    Subtract(loaded[c]["tail"], Subtract(loaded[c]["optimistic"], loaded[c]["overcommit"]))

(* The first test fails. *)
SeeNone(c) ==
    /\ pc[c] = "load"
    /\ unloaded[c] = {}
    /\ ~circular_less_than(0, Estimate(c))
    /\ Return(c)
    /\ UNCHANGED <<permits, counters, slot, producer, unloaded, got>>

ReserveAtMost(c, desired) ==
    /\ pc[c] = "load"
    /\ unloaded[c] = {}
    /\ circular_less_than(0, Estimate(c))
    /\ index' = [index EXCEPT ![c] = dequeueOptimisticCount]
    /\ dequeueOptimisticCount' = Add(dequeueOptimisticCount, desired)
    /\ count' = [count EXCEPT ![c] = desired]
    /\ Goto(c, "check")
    /\ UNCHANGED <<permits, tailIndex, headIndex, dequeueOvercommit, slot, producer>>
    /\ UNCHANGED <<unloaded, loaded, excess, got>>

Reserve(c) == ReserveAtMost(c, Smaller(Estimate(c), count[c]))

-------------------------------------------------------------------------------
(* The second test, with the tail loaded again: of the reserved elements   *)
(* those are granted that are there.                                       *)
Grant(c, actual) ==
    /\ pc[c] = "check"
    /\ LET granted == IF circular_less_than(0, actual)
                      THEN Smaller(count[c], actual) ELSE 0
       IN  /\ count' = [count EXCEPT ![c] = granted]
           /\ excess' = [excess EXCEPT ![c] = count[c] - granted]
           /\ Goto(c, IF granted < count[c] THEN "giveBack" ELSE "take")
    /\ index' = [index EXCEPT ![c] = 0]
    /\ loaded' = [loaded EXCEPT ![c] = [l \in Loads |-> 0]]
    /\ UNCHANGED <<permits, counters, slot, producer, unloaded, got>>

(* Mutant: the overcommit is loaded again, like the tail. *)
CheckReloading(c) ==
    Grant(c, Subtract(tailIndex, Subtract(index[c], dequeueOvercommit)))

(* Mutant: the tail is taken for the index of the last element. *)
CheckShort(c) ==
    Grant(c, Subtract(tailIndex, Subtract(index[c], loaded[c]["overcommit"]) + 1))

Check(c) ==
    Grant(c, Subtract(tailIndex, Subtract(index[c], loaded[c]["overcommit"])))

ReturnOrTake(c) ==
    IF count[c] = 0
    THEN Return(c)
    ELSE /\ Goto(c, "take")
         /\ excess' = [excess EXCEPT ![c] = 0]
         /\ UNCHANGED <<loaded, count, index>>

(* Mutant: one element is given back, as in dequeue. *)
GiveBackOne(c) ==
    /\ pc[c] = "giveBack"
    /\ dequeueOvercommit' = Add(dequeueOvercommit, 1)
    /\ ReturnOrTake(c)
    /\ UNCHANGED <<permits, tailIndex, headIndex, dequeueOptimisticCount, slot, producer>>
    /\ UNCHANGED <<unloaded, got>>

(* Mutant: nothing is given back by a call that is granted nothing. *)
GiveBackPartly(c) ==
    /\ pc[c] = "giveBack"
    /\ dequeueOvercommit' =
          IF count[c] = 0 THEN dequeueOvercommit ELSE Add(dequeueOvercommit, excess[c])
    /\ ReturnOrTake(c)
    /\ UNCHANGED <<permits, tailIndex, headIndex, dequeueOptimisticCount, slot, producer>>
    /\ UNCHANGED <<unloaded, got>>

GiveBack(c) ==
    /\ pc[c] = "giveBack"
    /\ dequeueOvercommit' = Add(dequeueOvercommit, excess[c])
    /\ ReturnOrTake(c)
    /\ UNCHANGED <<permits, tailIndex, headIndex, dequeueOptimisticCount, slot, producer>>
    /\ UNCHANGED <<unloaded, got>>

(* Mutant: headIndex is advanced by one, as in dequeue. *)
TakeFrom(c) ==
    /\ pc[c] = "take"
    /\ index' = [index EXCEPT ![c] = headIndex]
    /\ headIndex' = Add(headIndex, 1)
    /\ Goto(c, "move")
    /\ UNCHANGED <<permits, tailIndex, dequeueOptimisticCount, dequeueOvercommit, slot, producer>>
    /\ UNCHANGED <<unloaded, loaded, count, excess, got>>

Take(c) ==
    /\ pc[c] = "take"
    /\ index' = [index EXCEPT ![c] = headIndex]
    /\ headIndex' = Add(headIndex, count[c])
    /\ Goto(c, "move")
    /\ UNCHANGED <<permits, tailIndex, dequeueOptimisticCount, dequeueOvercommit, slot, producer>>
    /\ UNCHANGED <<unloaded, loaded, count, excess, got>>

(* The next element is moved out of its block and destroyed. *)
Move(c) ==
    /\ pc[c] = "move"
    /\ got' = [got EXCEPT ![c] = Append(@, slot[index[c]])]
    /\ slot' = [slot EXCEPT ![index[c]] = Nothing]
    /\ IF count[c] = 1
       THEN Return(c)
       ELSE /\ index' = [index EXCEPT ![c] = Add(@, 1)]
            /\ count' = [count EXCEPT ![c] = @ - 1]
            /\ UNCHANGED <<pc, loaded, excess>>
    /\ UNCHANGED <<permits, counters, producer, unloaded>>

(* Its assignment throws: it is destroyed with all that were granted. *)
MoveThrows(c) ==
    /\ pc[c] = "move"
    /\ slot' = [i \in Index |->
                    IF Subtract(i, index[c]) < count[c] THEN Nothing ELSE slot[i]]
    /\ Return(c)
    /\ UNCHANGED <<permits, counters, producer, unloaded, got>>

-------------------------------------------------------------------------------
Running(c) ==
    \/ \E l \in Loads : Load(c, l)
    \/ SeeNone(c)
    \/ Reserve(c)
    \/ Check(c)
    \/ GiveBack(c)
    \/ Take(c)
    \/ Move(c)
    \/ MoveThrows(c)

Next ==
    \/ \E n \in 1..MaxBatch : Construct(n)
    \/ Publish
    \/ \E c \in Consumers :
          \/ \E max \in 1..MaxBatch : Call(c, max)
          \/ Running(c)

(* A thread that is in a call goes on; nobody has to make calls. *)
Fairness == WF_vars(Publish) /\ \A c \in Consumers : WF_vars(Running(c))

Spec == Init /\ [][Next]_vars

FairSpec == Spec /\ Fairness

-------------------------------------------------------------------------------
(* What each consumer has added to dequeueOptimisticCount and neither      *)
(* taken at the head nor given back.                                       *)
Reserved ==
    [c \in Consumers |->
        IF pc[c] \in {"check", "giveBack", "take"} THEN count[c] + excess[c] ELSE 0]

(* dequeueOptimisticCount - dequeueOvercommit is the head and all open     *)
(* reservations, whatever of the counters has wrapped around.  Without     *)
(* this elements become unreachable, or are counted twice, for ever.       *)
Balance ==
    Subtract(dequeueOptimisticCount, dequeueOvercommit) = Add(headIndex, Total(Reserved))

Granted ==
    [c \in Consumers |-> IF pc[c] \in {"giveBack", "take"} THEN count[c] ELSE 0]

(* "Guaranteed to be at least one element to dequeue": what consumers have *)
(* been granted is there, although each compared a tail and an overcommit  *)
(* of different moments.  So headIndex never passes tailIndex.             *)
Guaranteed == Total(Granted) <= Available

(* The elements a consumer has yet to move. *)
Remaining(c) ==
    IF pc[c] = "move"
    THEN [i \in 1..count[c] |-> slot[Add(index[c], i - 1)]]
    ELSE <<>>

Abstract == INSTANCE Fifo WITH
    enqueued <- produced - pending,
    queue <- [i \in 1..Available |-> slot[Add(headIndex, i - 1)]],
    got <- [c \in Consumers |-> got[c] \o Remaining(c)]

(* The sub-queue is a FIFO in which a dequeue takes effect when headIndex  *)
(* is advanced: each consumer moves the elements at the head at that time, *)
(* in order, although others move theirs before or after, and although     *)
(* indexes are granted in another order than they were reserved in.        *)
Refinement == Abstract!Spec

(* A consumer that makes calls while all others stay out of the sub-queue  *)
(* empties it: whatever races there have been, no element is stranded.     *)
Drained ==
    \A c \in Consumers :
       /\ []<>(pc[c] # "idle") /\ []<>(pc[c] = "idle")
       /\ <>[](\A d \in Consumers \ {c} : pc[d] = "idle")
       => <>[](Available = 0)

(* Callers that hold a permit for each element, as those of                *)
(* BlockingConcurrentQueue do, never reserve in vain.                      *)
NeverOvercommits == [][permits => UNCHANGED dequeueOvercommit]_vars
===============================================================================
