--------------------------------- MODULE Fifo ---------------------------------
(***************************************************************************)
(* What a sub-queue of moodycamel::ConcurrentQueue (one producer, any      *)
(* number of consumers) promises: elements leave in the order in which     *)
(* they came, each to one consumer, and what a consumer is given is the    *)
(* run of elements at the head.  BlockingQueue sees each producer this     *)
(* way.                                                                    *)
(***************************************************************************)
EXTENDS Integers, Sequences

CONSTANTS
    Consumers,
    MaxElements,    \* bound: elements the producer enqueues, 1, 2, 3...
    MaxBatch        \* bound: elements of one call

VARIABLES
    enqueued,   \* elements there have been
    queue,      \* those that are in the sub-queue
    got         \* those the last call of each consumer was given

vars == <<enqueued, queue, got>>

Init ==
    /\ enqueued = 0
    /\ queue = <<>>
    /\ got = [c \in Consumers |-> <<>>]

Enqueue(n) ==
    /\ enqueued + n <= MaxElements
    /\ enqueued' = enqueued + n
    /\ queue' = queue \o [i \in 1..n |-> enqueued + i]
    /\ UNCHANGED got

Call(c) ==
    /\ got' = [got EXCEPT ![c] = <<>>]
    /\ UNCHANGED <<enqueued, queue>>

Dequeue(c, n) ==
    /\ got[c] = <<>>
    /\ n <= Len(queue)
    /\ got' = [got EXCEPT ![c] = SubSeq(queue, 1, n)]
    /\ queue' = SubSeq(queue, n + 1, Len(queue))
    /\ UNCHANGED enqueued

(* The assignment of element n + 1 throws; the rest is gone with it. *)
Lose(c, n) ==
    /\ n < Len(got[c])
    /\ got' = [got EXCEPT ![c] = SubSeq(got[c], 1, n)]
    /\ UNCHANGED <<enqueued, queue>>

Next ==
    \/ \E n \in 1..MaxBatch : Enqueue(n)
    \/ \E c \in Consumers :
          \/ Call(c)
          \/ \E n \in 1..MaxBatch : Dequeue(c, n)
          \/ \E n \in 0..MaxBatch : Lose(c, n)

Spec == Init /\ [][Next]_vars
===============================================================================
