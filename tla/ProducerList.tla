----------------------------- MODULE ProducerList -----------------------------
(***************************************************************************)
(* The producers of a queue (includes/concurrent_queue.hpp): a list they   *)
(* are pushed on and never leave, and the producer tokens that own them.   *)
(* A token takes over a producer whose token is gone, if it finds one, and *)
(* adds a new one otherwise.                                               *)
(*                                                                         *)
(* Implicit producers, of threads that have no token, are added in the     *)
(* same way and never inactive; here they are in the list from the start.  *)
(* Producers are numbered as they are allocated.                           *)
(***************************************************************************)
EXTENDS Integers, FiniteSets

CONSTANTS
    Tokens,         \* ProducerToken objects, each used by one thread at a time
    Implicit,       \* number of implicit producers
    MaxProducers,   \* bound: producers there can be in memory
    None            \* nullptr

ASSUME ProducerListAssumption ==
    /\ IsFiniteSet(Tokens)
    /\ Implicit \in Nat /\ MaxProducers \in Nat /\ Implicit <= MaxProducers
    /\ None \notin Nat /\ None \notin Tokens

VARIABLES
    producerListTail,
    producerCount,
    created,    \* producers allocated so far
    destroyed,  \* whether the queue is
    next,       \* of each producer
    inactive,
    token,      \* the token each producer points to
    producer,   \* the producer of each token
    state,      \* where the constructor or the destructor of a token is
    ptr         \* its local: the producer it looks at or adds

listVars == <<producerListTail, producerCount, created, destroyed, next, inactive, token, producer, state, ptr>>

Producers == 1..MaxProducers

Nodes == Producers \union {None}

Init ==
    /\ producerListTail = IF Implicit = 0 THEN None ELSE Implicit
    /\ producerCount = Implicit
    /\ created = Implicit
    /\ destroyed = FALSE
    /\ next = [p \in Producers |-> IF p \in 2..Implicit THEN p - 1 ELSE None]
    /\ inactive = [p \in Producers |-> FALSE]
    /\ token = [p \in Producers |-> None]
    /\ producer = [t \in Tokens |-> None]
    /\ state = [t \in Tokens |-> "none"]
    /\ ptr = [t \in Tokens |-> None]

-------------------------------------------------------------------------------
Goto(t, label) == state' = [state EXCEPT ![t] = label]

Look(t, p) == ptr' = [ptr EXCEPT ![t] = p]

(* recycle_or_create_producer begins with the newest producer. *)
Construct(t) ==
    /\ ~destroyed
    /\ state[t] = "none"
    /\ Goto(t, "recycle")
    /\ Look(t, producerListTail)
    /\ UNCHANGED <<producerListTail, producerCount, created, destroyed, next, inactive, token, producer>>

PassOver(t) ==
    /\ state[t] = "recycle"
    /\ ptr[t] # None /\ ~inactive[ptr[t]]
    /\ Look(t, next[ptr[t]])
    /\ UNCHANGED <<producerListTail, producerCount, created, destroyed, next, inactive, token, producer, state>>

SeeInactive(t) ==
    /\ state[t] = "recycle"
    /\ ptr[t] # None /\ inactive[ptr[t]]
    /\ Goto(t, "swap")
    /\ UNCHANGED <<producerListTail, producerCount, created, destroyed, next, inactive, token, producer, ptr>>

(* Mutant: a plain store in place of the compare-and-swap. *)
TakeOverUnchecked(t) ==
    /\ state[t] = "swap"
    /\ inactive' = [inactive EXCEPT ![ptr[t]] = FALSE]
    /\ producer' = [producer EXCEPT ![t] = ptr[t]]
    /\ Goto(t, "own")
    /\ Look(t, None)
    /\ UNCHANGED <<producerListTail, producerCount, created, destroyed, next, token>>

(* Mutant: the search is given up when another token has been faster. *)
TakeOverOrAdd(t) ==
    /\ state[t] = "swap"
    /\ inactive' = [inactive EXCEPT ![ptr[t]] = FALSE]
    /\ Look(t, None)
    /\ IF inactive[ptr[t]]
       THEN producer' = [producer EXCEPT ![t] = ptr[t]] /\ Goto(t, "own")
       ELSE Goto(t, "recycle") /\ UNCHANGED producer
    /\ UNCHANGED <<producerListTail, producerCount, created, destroyed, next, token>>

(* It is the token's, unless another token has been faster. *)
TakeOver(t) ==
    /\ state[t] = "swap"
    /\ inactive' = [inactive EXCEPT ![ptr[t]] = FALSE]
    /\ IF inactive[ptr[t]]
       THEN /\ producer' = [producer EXCEPT ![t] = ptr[t]]
            /\ Goto(t, "own")
            /\ Look(t, None)
       ELSE /\ Goto(t, "recycle")
            /\ Look(t, next[ptr[t]])
            /\ UNCHANGED producer
    /\ UNCHANGED <<producerListTail, producerCount, created, destroyed, next, token>>

(* add_producer counts the new producer before it is in the list. *)
Create(t) ==
    /\ state[t] = "recycle" /\ ptr[t] = None
    /\ created < MaxProducers
    /\ created' = created + 1
    /\ producerCount' = producerCount + 1
    /\ Look(t, created + 1)
    /\ Goto(t, "add")
    /\ UNCHANGED <<producerListTail, destroyed, next, inactive, token, producer>>

(* The token stays without a producer and is not valid(). *)
CreateFails(t) ==
    /\ state[t] = "recycle" /\ ptr[t] = None
    /\ Goto(t, "alive")
    /\ UNCHANGED <<producerListTail, producerCount, created, destroyed, next, inactive, token, producer, ptr>>

LoadTail(t) ==
    /\ state[t] = "add"
    /\ next' = [next EXCEPT ![ptr[t]] = producerListTail]
    /\ Goto(t, "link")
    /\ UNCHANGED <<producerListTail, producerCount, created, destroyed, inactive, token, producer, ptr>>

(* The compare-and-swap; when it fails it loads the tail again. *)
Link(t) ==
    /\ state[t] = "link"
    /\ IF producerListTail = next[ptr[t]]
       THEN /\ producerListTail' = ptr[t]
            /\ producer' = [producer EXCEPT ![t] = ptr[t]]
            /\ Goto(t, "own")
            /\ Look(t, None)
            /\ UNCHANGED next
       ELSE /\ next' = [next EXCEPT ![ptr[t]] = producerListTail]
            /\ UNCHANGED <<producerListTail, producer, state, ptr>>
    /\ UNCHANGED <<producerCount, created, destroyed, inactive, token>>

(* The constructor of the token. *)
Own(t) ==
    /\ state[t] = "own"
    /\ token' = [token EXCEPT ![producer[t]] = t]
    /\ Goto(t, "alive")
    /\ UNCHANGED <<producerListTail, producerCount, created, destroyed, next, inactive, producer, ptr>>

-------------------------------------------------------------------------------
(* The move constructor: what is left is not valid(). *)
Move(t, u) ==
    /\ state[t] = "alive" /\ state[u] = "none"
    /\ producer' = [producer EXCEPT ![u] = producer[t], ![t] = None]
    /\ token' = [p \in Producers |-> IF p = producer[t] THEN u ELSE token[p]]
    /\ Goto(u, "alive")
    /\ UNCHANGED <<producerListTail, producerCount, created, destroyed, next, inactive, ptr>>

Swap(t, u) ==
    /\ t # u /\ state[t] = "alive" /\ state[u] = "alive"
    /\ producer' = [producer EXCEPT ![t] = producer[u], ![u] = producer[t]]
    /\ token' = [p \in Producers |->
                    CASE p = producer[u] -> t [] p = producer[t] -> u [] OTHER -> token[p]]
    /\ UNCHANGED <<producerListTail, producerCount, created, destroyed, next, inactive, state, ptr>>

(* ~ProducerToken. *)
Destroy(t) ==
    /\ state[t] = "alive"
    /\ IF producer[t] = None
       THEN Goto(t, "none") /\ UNCHANGED token
       ELSE Goto(t, "release") /\ token' = [token EXCEPT ![producer[t]] = None]
    /\ UNCHANGED <<producerListTail, producerCount, created, destroyed, next, inactive, producer, ptr>>

Release(t) ==
    /\ state[t] = "release"
    /\ inactive' = [inactive EXCEPT ![producer[t]] = TRUE]
    /\ producer' = [producer EXCEPT ![t] = None]
    /\ Goto(t, "none")
    /\ UNCHANGED <<producerListTail, producerCount, created, destroyed, next, token, ptr>>

(* What is in the list from this producer on: the least set it is in and  *)
(* that has the next of all in it.                                         *)
Closed(set) == \A p \in set \ {None} : next[p] \in set

From(first) ==
    {p \in Producers : \A set \in SUBSET Nodes : first \in set /\ Closed(set) => p \in set}

Linked == From(producerListTail)

(* ~ConcurrentQueue, which no thread uses any more; tokens may outlive it. *)
DestroyQueue ==
    /\ ~destroyed
    /\ \A t \in Tokens : state[t] \in {"none", "alive"}
    /\ destroyed' = TRUE
    /\ producer' = [t \in Tokens |->
          IF \E p \in Linked : token[p] = t THEN None ELSE producer[t]]
    /\ UNCHANGED <<producerListTail, producerCount, created, next, inactive, token, state, ptr>>

-------------------------------------------------------------------------------
Constructing(t) ==
    \/ PassOver(t) \/ SeeInactive(t) \/ TakeOver(t) \/ Create(t) \/ CreateFails(t)
    \/ LoadTail(t) \/ Link(t) \/ Own(t)

TokenStep(t) == Construct(t) \/ Constructing(t) \/ Destroy(t) \/ Release(t)

Next ==
    \/ \E t \in Tokens : TokenStep(t)
    \/ \E t, u \in Tokens : Move(t, u) \/ Swap(t, u)
    \/ DestroyQueue

Spec == Init /\ [][Next]_listVars

-------------------------------------------------------------------------------
(* A producer has one token, which knows it, from when it is taken over or *)
(* added until it is given up; this is why one thread at a time enqueues.  *)
(* Nothing but one compare-and-swap keeps two constructors apart.  No      *)
(* token keeps a producer of a queue that has been destroyed.              *)
Owned ==
    \A t \in Tokens :
       producer[t] # None =>
          /\ ~destroyed
          /\ ~inactive[producer[t]]
          /\ \A u \in Tokens \ {t} : producer[u] # producer[t]
          /\ state[t] = "alive" => token[producer[t]] = t

(* The constructor goes through the list only once, while other tokens come *)
(* and go.  Still there are never more producers than tokens at a time.     *)
ProducersReused == created <= Implicit + Cardinality(Tokens)
===============================================================================
