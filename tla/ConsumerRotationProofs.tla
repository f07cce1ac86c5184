------------------------ MODULE ConsumerRotationProofs ------------------------
(***************************************************************************)
(* A call that ends with less than it was to get has asked all producers   *)
(* (AsksAll), of any number, whatever is added to the list meanwhile;      *)
(* tokens spread over the producers (Spread); a producer has one token at  *)
(* a time (Owned) and is used again (ProducersReused), with consumers or   *)
(* without.                                                                *)
(*                                                                         *)
(* A producer in the list has its rank, counted from the oldest, for good: *)
(* new ones are added past all others.  What a call has not asked yet is,  *)
(* by rank, still before it: below where it is in the list, or, if it goes *)
(* round, ahead of it up to where it started.  By rank, too, a token is    *)
(* where its number and the rotations it knows of put it.                  *)
(***************************************************************************)
EXTENDS ConsumerRotation, TotalsProofs

(* The list of producers, without consumers. *)
TypeOK ==
    /\ producerListTail \in Nodes /\ created \in 0..MaxProducers /\ destroyed \in BOOLEAN
    /\ next \in [Producers -> Nodes] /\ inactive \in [Producers -> BOOLEAN]
    /\ token \in [Producers -> Tokens \union {None}]
    /\ producer \in [Tokens -> Nodes] /\ ptr \in [Tokens -> Nodes]
    /\ state \in [Tokens ->
          {"none", "recycle", "swap", "add", "link", "own", "alive", "release"}]

(* A token without a producer is before or after its life, or not valid();  *)
(* a producer that is added is nowhere in the list.                        *)
Placed ==
    \A t \in Tokens :
       /\ state[t] \in {"none", "recycle", "swap", "add", "link"} => producer[t] = None
       /\ state[t] \in {"own", "release"} => producer[t] # None
       /\ state[t] = "swap" => ptr[t] # None
       /\ state[t] \in {"add", "link"} =>
             /\ ptr[t] # None /\ ptr[t] # producerListTail
             /\ \A p \in Producers : next[p] # ptr[t]

(* What a token has or adds is not inactive, and nobody else's. *)
Holds(t) == IF state[t] \in {"add", "link"} THEN ptr[t] ELSE producer[t]

Exclusive ==
    \A t \in Tokens :
       Holds(t) # None =>
          /\ ~inactive[Holds(t)] /\ Holds(t) <= created
          /\ \A u \in Tokens \ {t} : Holds(u) # Holds(t)

(* A producer that has a token, or is inactive, is in the list. *)
InList ==
    /\ \A t \in Tokens : producer[t] # None => producer[t] \in Linked
    /\ \A p \in Producers : inactive[p] => p \in Linked

(* Producers that are not allocated yet are nowhere. *)
Allocated ==
    /\ producerListTail # None => producerListTail <= created
    /\ \A p \in Producers :
          /\ next[p] # None => next[p] <= created
          /\ p > created => ~inactive[p]

Known == \A t \in Tokens : state[t] = "alive" /\ producer[t] # None => token[producer[t]] = t

Over == destroyed => \A t \in Tokens : state[t] \in {"none", "alive"} /\ producer[t] = None

(* None of the tokens that use the list has gone beyond it. *)
IInv == TypeOK /\ Placed /\ Exclusive /\ InList /\ Allocated /\ Known /\ Over

-------------------------------------------------------------------------------
(* The list does not change, or it has one more producer. *)
LEMMA SameList ==
    ASSUME UNCHANGED <<producerListTail, next>>
    PROVE  Linked' = Linked
BY DEF Linked, From, Closed

(* What is not in the list may point where it likes. *)
LEMMA ListKept ==
    ASSUME TypeOK, NEW p \in Producers, NEW n \in Nodes,
           p # producerListTail, \A q \in Producers : next[q] # p,
           next' = [next EXCEPT ![p] = n], producerListTail' = producerListTail
    PROVE  Linked \subseteq Linked'
<1> USE ProducerListAssumption DEF Producers, Nodes
<1> SUFFICES ASSUME NEW q \in Linked, NEW set \in SUBSET Nodes,
                    producerListTail \in set, Closed(set)'
             PROVE  q \in set
  BY DEF Linked, From
<1> DEFINE rest == set \ {p}
<1>1. Closed(rest)
  BY DEF Closed, TypeOK
<1>2. producerListTail \in rest /\ rest \in SUBSET Nodes
  OBVIOUS
<1> QED BY <1>1, <1>2 DEF Linked, From

LEMMA ListGrows ==
    ASSUME TypeOK, NEW p \in Producers, next[p] = producerListTail,
           UNCHANGED next, producerListTail' = p
    PROVE  Linked \subseteq Linked' /\ p \in Linked'
<1> USE ProducerListAssumption DEF Producers, Nodes
<1>1. ASSUME NEW set \in SUBSET Nodes, p \in set, Closed(set)'
      PROVE  producerListTail \in set /\ Closed(set)
  BY <1>1 DEF Closed
<1> QED BY <1>1 DEF Linked, From

-------------------------------------------------------------------------------
LEMMA InitIInv == Init => IInv
<1> SUFFICES ASSUME Init PROVE IInv
  OBVIOUS
<1> USE ProducerListAssumption DEF Init, Producers, Nodes
<1>1. TypeOK
  <2>1. next \in [Producers -> Nodes]
    <3>1. ASSUME NEW p \in Producers
          PROVE  (IF p \in 2..Implicit THEN p - 1 ELSE None) \in Nodes
      OBVIOUS
    <3> QED BY <3>1
  <2>2. producerListTail \in Nodes /\ created \in 0..MaxProducers
    OBVIOUS
  <2> HIDE DEF Producers
  <2> QED BY <2>1, <2>2 DEF TypeOK
<1>2. Placed /\ Known /\ Over
  BY DEF Placed, Known, Over
<1>3. Exclusive /\ InList
  BY DEF Exclusive, Holds, InList
<1>4. Allocated
  BY DEF Allocated
<1> QED BY <1>1, <1>2, <1>3, <1>4 DEF IInv

(* The steps of a constructor that go through the list. *)
LEMMA SearchIInv ==
    ASSUME IInv, NEW t \in Tokens, Construct(t) \/ PassOver(t) \/ SeeInactive(t) \/ CreateFails(t)
    PROVE  IInv'
<1> USE ProducerListAssumption DEF IInv, Construct, PassOver, SeeInactive, CreateFails, Goto, Look
<1>1. TypeOK'
  BY DEF TypeOK, Nodes
<1>2. Placed'
  BY DEF TypeOK, Placed
<1>3. Exclusive'
  BY DEF TypeOK, Exclusive, Placed, Holds
<1>4. InList' /\ Known' /\ Over'
  <2>1. Linked' = Linked
    BY SameList
  <2> QED BY <2>1 DEF TypeOK, InList, Known, Over, Placed
<1>5. Allocated'
  BY DEF TypeOK, Allocated
<1> QED BY <1>1, <1>2, <1>3, <1>4, <1>5

(* A producer that is taken over was nobody's, being inactive.             *)
LEMMA TakeOverIInv ==
    ASSUME IInv, NEW t \in Tokens, TakeOver(t)
    PROVE  IInv'
<1> USE ProducerListAssumption DEF IInv, TakeOver, Goto, Look
<1>0. ptr[t] \in Producers
  BY DEF TypeOK, Placed, Nodes
<1>1. TypeOK'
  BY <1>0 DEF TypeOK, Nodes
<1>2. Placed'
  BY <1>0 DEF TypeOK, Placed
<1>3. Exclusive'
  <2>1. CASE inactive[ptr[t]]
    <3>1. \A u \in Tokens : Holds(u)' = IF u = t THEN ptr[t] ELSE Holds(u)
      BY <2>1 DEF TypeOK, Holds
    <3>2. ptr[t] <= created
      BY <1>0, <2>1 DEF TypeOK, Allocated, Producers
    <3>3. \A u \in Tokens : Holds(u) # ptr[t]
      BY <1>0, <2>1 DEF Exclusive, Producers
    <3> QED BY <1>0, <3>1, <3>2, <3>3 DEF TypeOK, Exclusive
  <2>2. CASE ~inactive[ptr[t]]
    <3>1. inactive' = inactive
      BY <1>0, <2>2 DEF TypeOK
    <3> QED BY <2>2, <3>1 DEF TypeOK, Exclusive, Placed, Holds
  <2> QED BY <2>1, <2>2
<1>4. InList'
  <2>1. Linked' = Linked
    BY SameList
  <2> QED BY <1>0, <2>1 DEF TypeOK, InList
<1>5. Known' /\ Over'
  BY <1>0 DEF TypeOK, Known, Over
<1>6. Allocated'
  BY <1>0 DEF TypeOK, Allocated
<1> QED BY <1>1, <1>2, <1>3, <1>4, <1>5, <1>6

LEMMA CreateIInv ==
    ASSUME IInv, NEW t \in Tokens, Create(t)
    PROVE  IInv'
<1> USE ProducerListAssumption DEF IInv, Create, Goto, Look
<1>0. created + 1 \in Producers /\ created \in Nat /\ created + 1 # None
  BY DEF TypeOK, Producers
<1>1. TypeOK'
  BY <1>0 DEF TypeOK, Nodes, Producers
<1>2. Placed'
  BY <1>0 DEF TypeOK, Placed, Allocated, Nodes, Producers
<1>3. Exclusive'
  BY <1>0 DEF TypeOK, Exclusive, Placed, Holds, Allocated, Nodes, Producers
<1>4. InList' /\ Known' /\ Over'
  <2>1. Linked' = Linked
    BY SameList
  <2> QED BY <2>1 DEF TypeOK, InList, Known, Over, Placed
<1>5. Allocated'
  BY <1>0 DEF TypeOK, Allocated, Nodes, Producers
<1> QED BY <1>1, <1>2, <1>3, <1>4, <1>5

(* The next of a producer that is not in the list yet. *)
LEMMA LoadTailIInv ==
    ASSUME IInv, NEW t \in Tokens, state[t] \in {"add", "link"}, ptr[t] # None,
           next' = [next EXCEPT ![ptr[t]] = producerListTail],
           Goto(t, "link"), UNCHANGED <<producerListTail, created, destroyed, inactive, token, producer, ptr>>
    PROVE  IInv'
<1> USE ProducerListAssumption DEF IInv, Goto
<1>0. ptr[t] \in Producers
  BY DEF TypeOK, Nodes
<1>1. TypeOK'
  BY <1>0 DEF TypeOK
<1>2. Placed'
  BY <1>0 DEF TypeOK, Placed
<1>3. Exclusive'
  BY <1>0 DEF TypeOK, Exclusive, Placed, Holds
<1>4. InList'
  <2>1. Linked \subseteq Linked'
    BY <1>0, ListKept DEF TypeOK, Placed
  <2> QED BY <2>1 DEF InList
<1>5. Known' /\ Over' /\ Allocated'
  BY <1>0 DEF TypeOK, Known, Over, Allocated
<1> QED BY <1>1, <1>2, <1>3, <1>4, <1>5

LEMMA LinkIInv ==
    ASSUME IInv, NEW t \in Tokens, Link(t)
    PROVE  IInv'
<1> USE ProducerListAssumption DEF IInv, Link, Goto, Look
<1>0. ptr[t] # None /\ ptr[t] \in Producers
  BY DEF TypeOK, Placed, Nodes
<1>1. CASE producerListTail # next[ptr[t]]
  BY <1>0, <1>1, LoadTailIInv DEF TypeOK
<1>2. CASE producerListTail = next[ptr[t]]
  <2>1. TypeOK'
    BY <1>0, <1>2 DEF TypeOK, Nodes
  <2>2. Placed'
    BY <1>0, <1>2 DEF TypeOK, Placed, Exclusive, Holds
  <2>3. Exclusive'
    BY <1>0, <1>2 DEF TypeOK, Exclusive, Placed, Holds
  <2>4. InList'
    <3>1. Linked \subseteq Linked' /\ ptr[t] \in Linked'
      BY <1>0, <1>2, ListGrows
    <3> QED BY <1>0, <1>2, <3>1 DEF TypeOK, InList
  <2>5. Known' /\ Over'
    BY <1>0, <1>2 DEF TypeOK, Known, Over
  <2>6. Allocated'
    BY <1>0, <1>2 DEF TypeOK, Allocated, Exclusive, Holds
  <2> QED BY <2>1, <2>2, <2>3, <2>4, <2>5, <2>6
<1> QED BY <1>1, <1>2

LEMMA OwnIInv ==
    ASSUME IInv, NEW t \in Tokens, Own(t)
    PROVE  IInv'
<1> USE ProducerListAssumption DEF IInv, Own, Goto
<1>0. producer[t] \in Producers /\ producer[t] # None
  BY DEF TypeOK, Placed, Nodes
<1>1. TypeOK' /\ Placed'
  BY <1>0 DEF TypeOK, Placed
<1>2. \A u \in Tokens : Holds(u)' = Holds(u)
  BY DEF TypeOK, Holds
<1>3. Exclusive'
  BY <1>2 DEF Exclusive
<1>4. InList'
  BY SameList DEF InList
<1>5. \A u \in Tokens \ {t} : state[u] = "alive" => producer[u] # producer[t]
  BY <1>0 DEF Exclusive, Holds
<1>6. Known'
  BY <1>0, <1>5 DEF TypeOK, Known, Nodes
<1>7. Over' /\ Allocated'
  BY DEF TypeOK, Over, Allocated
<1> QED BY <1>1, <1>3, <1>4, <1>6, <1>7

(* A token whose producer is still its own forgets it. *)
LEMMA DestroyIInv ==
    ASSUME IInv, NEW t \in Tokens, Destroy(t)
    PROVE  IInv'
<1> USE ProducerListAssumption DEF IInv, Destroy, Goto
<1>1. TypeOK' /\ Placed'
  BY DEF TypeOK, Placed, Nodes
<1>2. \A u \in Tokens : Holds(u)' = Holds(u)
  BY DEF TypeOK, Holds
<1>3. Exclusive'
  BY <1>2 DEF Exclusive
<1>4. InList'
  BY SameList DEF InList
<1>5. \A u \in Tokens \ {t} :
         state[u] = "alive" /\ producer[u] # None => producer[u] # producer[t]
  BY DEF Exclusive, Holds
<1>6. Known'
  BY <1>5 DEF TypeOK, Known, Nodes
<1>7. Over' /\ Allocated'
  BY DEF TypeOK, Over, Allocated
<1> QED BY <1>1, <1>3, <1>4, <1>6, <1>7

LEMMA ReleaseIInv ==
    ASSUME IInv, NEW t \in Tokens, Release(t)
    PROVE  IInv'
<1> USE ProducerListAssumption DEF IInv, Release, Goto
<1>0. producer[t] \in Producers /\ producer[t] # None
  BY DEF TypeOK, Placed, Nodes
<1>1. TypeOK' /\ Placed'
  BY <1>0 DEF TypeOK, Placed, Nodes
<1>2. \A u \in Tokens : Holds(u)' = IF u = t THEN None ELSE Holds(u)
  BY DEF TypeOK, Holds
<1>3. Holds(t) = producer[t] /\ producer[t] <= created
  BY <1>0 DEF Exclusive, Holds
<1>4. Exclusive'
  <2> SUFFICES ASSUME NEW u \in Tokens \ {t}, Holds(u) # None
               PROVE  /\ ~inactive'[Holds(u)] /\ Holds(u) <= created
                      /\ \A v \in Tokens \ {u} : v # t => Holds(v) # Holds(u)
    BY <1>2 DEF Exclusive
  <2>1. Holds(u) # producer[t]
    BY <1>0, <1>3 DEF Exclusive
  <2> QED BY <1>0, <2>1 DEF TypeOK, Exclusive
<1>5. InList'
  <2>1. Linked' = Linked
    BY SameList
  <2> QED BY <1>0, <2>1 DEF TypeOK, InList
<1>6. Known' /\ Over'
  BY <1>0 DEF TypeOK, Known, Over
<1>7. Allocated'
  BY <1>0, <1>3 DEF TypeOK, Allocated, Producers
<1> QED BY <1>1, <1>4, <1>5, <1>6, <1>7

LEMMA MoveIInv ==
    ASSUME IInv, NEW t \in Tokens, NEW u \in Tokens, Move(t, u) \/ Swap(t, u)
    PROVE  IInv'
<1> USE ProducerListAssumption DEF IInv, Move, Swap, Goto
<1>0. t # u /\ (state[u] = "none" => producer[u] = None)
  BY DEF Placed
<1>1. TypeOK'
  BY <1>0 DEF TypeOK, Nodes
<1>2. Placed'
  BY <1>0 DEF TypeOK, Placed
<1>3. Exclusive'
  BY <1>0 DEF TypeOK, Exclusive, Placed, Holds
<1>4. InList'
  <2>1. Linked' = Linked
    BY SameList
  <2> QED BY <1>0, <2>1 DEF TypeOK, InList
<1>5. Known'
  <2>1. ASSUME NEW v \in Tokens, state[v] = "alive", producer[v] # None
        PROVE  /\ producer[v] \in Producers /\ token[producer[v]] = v
               /\ \A w \in Tokens \ {v} : state[w] = "alive" => producer[w] # producer[v]
    BY <2>1 DEF TypeOK, Known, Exclusive, Holds, Nodes
  <2>2. CASE Move(t, u)
    BY <1>0, <2>1, <2>2 DEF TypeOK, Known
  <2>3. CASE Swap(t, u)
    BY <1>0, <2>1, <2>3 DEF TypeOK, Known
  <2> QED BY <2>2, <2>3
<1>6. Over' /\ Allocated'
  BY <1>0 DEF TypeOK, Over, Allocated
<1> QED BY <1>1, <1>2, <1>3, <1>4, <1>5, <1>6

(* The destructor finds all that have tokens. *)
LEMMA DestroyQueueIInv ==
    ASSUME IInv, DestroyQueue
    PROVE  IInv'
<1> USE ProducerListAssumption DEF IInv, DestroyQueue
<1>1. TypeOK'
  BY DEF TypeOK, Nodes
<1>2. \A t \in Tokens : producer'[t] = None
  BY DEF TypeOK, Placed, InList, Known
<1>3. Exclusive' /\ Placed' /\ Known' /\ Over'
  BY <1>2 DEF Exclusive, Holds, Placed, Known, Over
<1>4. InList'
  BY <1>2, SameList DEF InList
<1>5. Allocated'
  BY DEF Allocated
<1> QED BY <1>1, <1>3, <1>4, <1>5

LEMMA StutterIInv ==
    ASSUME IInv, UNCHANGED listVars
    PROVE  IInv'
<1>1. Linked' = Linked
  BY SameList DEF listVars
<1> QED BY <1>1 DEF IInv, listVars, TypeOK, Placed, Exclusive, Holds, InList, Allocated, Known, Over

LEMMA NextIInv == IInv /\ [Next]_listVars => IInv'
<1> SUFFICES ASSUME IInv, [Next]_listVars PROVE IInv'
  OBVIOUS
<1>1. ASSUME NEW t \in Tokens, LoadTail(t) PROVE IInv'
  BY <1>1, LoadTailIInv DEF LoadTail, IInv, Placed
<1>2. ASSUME NEW t \in Tokens, TokenStep(t) PROVE IInv'
  BY <1>1, <1>2, SearchIInv, TakeOverIInv, CreateIInv, LinkIInv, OwnIInv, DestroyIInv, ReleaseIInv
   DEF TokenStep, Constructing
<1> QED BY <1>2, MoveIInv, DestroyQueueIInv, StutterIInv DEF Next

LEMMA IInvOwned == IInv => Owned
BY ProducerListAssumption DEF IInv, Owned, Placed, Exclusive, Holds, Known, Over

(* No two tokens ever have the same producer, none has one that somebody   *)
(* else may take over, and none has one of a queue that is no more.        *)
THEOREM OneOwner == Spec => []Owned
<1>1. Spec => []IInv
  BY InitIInv, NextIInv, PTL DEF Spec
<1> QED BY <1>1, IInvOwned, PTL

-------------------------------------------------------------------------------
(* Why no more producers than tokens are needed.  The producers in the     *)
(* list are ranked from the oldest; a token that goes through the list, or *)
(* has a producer, is at a rank, one that adds a producer is past them all. *)
Ranked(rank, n) ==
    /\ Implicit <= n
    /\ producerListTail = None <=> n = 0
    /\ producerListTail # None => rank[producerListTail] = n
    /\ \A p, q \in Producers : rank[p] = rank[q] /\ rank[p] > 0 => p = q
    /\ \A p \in Producers :
          /\ rank[p] <= n
          /\ rank[p] = 1 => next[p] = None
          /\ rank[p] > 1 => next[p] # None /\ rank[next[p]] = rank[p] - 1

Searches(t) == state[t] \in {"recycle", "swap"}

Adds(t) == state[t] \in {"add", "link"}

(* What is looked at, had or inactive is in the list, what is added is not. *)
OnList(rank) ==
    /\ \A t \in Tokens :
          /\ Searches(t) /\ ptr[t] # None => rank[ptr[t]] > 0
          /\ producer[t] # None => rank[producer[t]] > 0
          /\ Adds(t) => rank[ptr[t]] = 0
    /\ \A p \in Producers :
          /\ inactive[p] => rank[p] > 0
          /\ p > created => rank[p] = 0

(* A producer that is not inactive has a token, unless it is implicit. *)
Used(rank) ==
    ~destroyed =>
       \A p \in Producers :
          rank[p] > Implicit /\ ~inactive[p] => \E t \in Tokens : producer[t] = p

Adders == {t \in Tokens : Adds(t)}

RankOf(rank, p) == IF p = None THEN 0 ELSE rank[p]

(* The tokens past the producer of rank k. *)
Past(rank, k) ==
    {t \in Tokens :
        \/ Searches(t) /\ RankOf(rank, ptr[t]) < k
        \/ Adds(t)
        \/ producer[t] # None /\ rank[producer[t]] < k}

(* To get past a producer takes another token, which has the producer: as  *)
(* many tokens as there are producers down to a rank are not past it.      *)
Behind(rank, n) ==
    \A k \in (Implicit + 1)..(n + 1) :
       Cardinality(Past(rank, k)) + (n + 1 - k) <= Cardinality(Tokens)

Reuse(rank, n) ==
    /\ Ranked(rank, n) /\ OnList(rank) /\ Used(rank)
    /\ created = n + Cardinality(Adders)
    /\ Behind(rank, n)

LEMMA SomeTokens ==
    ASSUME NEW S, S \subseteq Tokens
    PROVE  /\ IsFiniteSet(S) /\ Cardinality(S) \in Nat /\ Cardinality(Tokens) \in Nat
           /\ Cardinality(S) <= Cardinality(Tokens)
BY ProducerListAssumption, FS_Subset, FS_CardinalityType

LEMMA FewerTokens ==
    ASSUME NEW S, NEW T, T \subseteq Tokens, S \subseteq T
    PROVE  Cardinality(S) <= Cardinality(T)
BY SomeTokens, FS_Subset

(* A step that changes neither the list nor the number of tokens past a     *)
(* producer but its own. *)
LEMMA ReuseKept ==
    ASSUME NEW rank \in [Producers -> Nat], NEW n \in Nat, Reuse(rank, n), TypeOK,
           producerListTail' = producerListTail,
           \A p \in Producers : rank[p] > 0 => next'[p] = next[p],
           OnList(rank)', Used(rank)', created' = n + Cardinality(Adders)',
           \A k \in (Implicit + 1)..n : Cardinality(Past(rank, k)') <= Cardinality(Past(rank, k))
    PROVE  Reuse(rank, n)'
<1>1. Ranked(rank, n)'
  BY DEF Reuse, Ranked
<1>2. Behind(rank, n)'
  <2> SUFFICES ASSUME NEW k \in (Implicit + 1)..(n + 1)
               PROVE  Cardinality(Past(rank, k)') + (n + 1 - k) <= Cardinality(Tokens)
    BY DEF Behind
  <2>1. Past(rank, k) \subseteq Tokens /\ Past(rank, k)' \subseteq Tokens
    BY DEF Past
  <2>2. /\ Cardinality(Past(rank, k)) \in Nat /\ Cardinality(Past(rank, k)') \in Nat
        /\ Cardinality(Tokens) \in Nat /\ Cardinality(Past(rank, k)') <= Cardinality(Tokens)
    BY <2>1, SomeTokens
  <2>3. CASE k = n + 1
    BY <2>2, <2>3
  <2>4. CASE k # n + 1
    <3>1. k \in (Implicit + 1)..n /\ k \in Int
      BY <2>4, ProducerListAssumption
    <3>2. Cardinality(Past(rank, k)') <= Cardinality(Past(rank, k))
      BY <3>1
    <3>3. Cardinality(Past(rank, k)) + (n + 1 - k) <= Cardinality(Tokens)
      BY DEF Reuse, Behind
    <3> QED BY <2>2, <3>1, <3>2, <3>3
  <2> QED BY <2>3, <2>4
<1> QED BY <1>1, <1>2 DEF Reuse

LEMMA NobodyPasses ==
    ASSUME NEW rank \in [Producers -> Nat], NEW n \in Nat, Reuse(rank, n), TypeOK,
           producerListTail' = producerListTail,
           \A p \in Producers : rank[p] > 0 => next'[p] = next[p],
           OnList(rank)', Used(rank)', created' = n + Cardinality(Adders)',
           \A k \in (Implicit + 1)..n : Past(rank, k)' \subseteq Past(rank, k)
    PROVE  Reuse(rank, n)'
<1>1. ASSUME NEW k \in (Implicit + 1)..n
      PROVE  Cardinality(Past(rank, k)') <= Cardinality(Past(rank, k))
  <2>1. Past(rank, k) \subseteq Tokens
    BY DEF Past
  <2> QED BY <2>1, FewerTokens
<1> QED BY <1>1, ReuseKept

-------------------------------------------------------------------------------
(* A constructor begins before all producers. *)
LEMMA ConstructReuse ==
    ASSUME NEW rank \in [Producers -> Nat], NEW n \in Nat, IInv, Reuse(rank, n),
           NEW t \in Tokens, Construct(t)
    PROVE  Reuse(rank, n)'
<1> USE ProducerListAssumption DEF Construct, Goto, Look
<1>1. TypeOK /\ Placed /\ state[t] = "none" /\ producer[t] = None
  BY DEF IInv, Placed
<1>2. state'[t] = "recycle" /\ ptr'[t] = producerListTail
      /\ \A u \in Tokens \ {t} : state'[u] = state[u] /\ ptr'[u] = ptr[u]
  BY <1>1 DEF TypeOK
<1>3. OnList(rank)' /\ Used(rank)'
  BY <1>1, <1>2 DEF Reuse, Ranked, OnList, Used, Searches, Adds, TypeOK, Nodes
<1>4. Adders' = Adders
  BY <1>1, <1>2 DEF Adders, Adds
<1>5. \A k \in (Implicit + 1)..n : Past(rank, k)' \subseteq Past(rank, k)
  <2>1. RankOf(rank, producerListTail) = n
    BY DEF Reuse, Ranked, RankOf
  <2> QED BY <1>1, <1>2, <2>1 DEF Past, Searches, Adds
<1> QED BY <1>1, <1>3, <1>4, <1>5, NobodyPasses DEF Reuse

(* A token passes over a producer that another token has. *)
LEMMA PassReuse ==
    ASSUME NEW rank \in [Producers -> Nat], NEW n \in Nat, IInv, Reuse(rank, n),
           NEW t \in Tokens, Searches(t), ptr[t] # None, ~inactive[ptr[t]],
           Goto(t, "recycle"), Look(t, next[ptr[t]]),
           UNCHANGED <<producerListTail, created, destroyed, next, inactive, producer>>
    PROVE  Reuse(rank, n)'
<1> USE ProducerListAssumption
<1>1. TypeOK /\ Placed /\ Over /\ Implicit \in Nat
  BY DEF IInv
<1>2. PICK p \in Producers : p = ptr[t]
  BY <1>1 DEF TypeOK, Nodes
<1>3. state'[t] = "recycle" /\ ptr'[t] = next[p]
      /\ \A u \in Tokens \ {t} : state'[u] = state[u] /\ ptr'[u] = ptr[u]
  BY <1>1, <1>2 DEF TypeOK, Goto, Look
<1>4. producer[t] = None /\ ~destroyed /\ p # None
  BY <1>1, <1>2 DEF Placed, Over, Searches
<1>5. rank[p] \in Nat /\ rank[p] > 0 /\ rank[p] <= n
  BY <1>2 DEF Reuse, OnList, Ranked
<1>6. RankOf(rank, next[p]) = rank[p] - 1 /\ (next[p] # None => rank[next[p]] > 0)
  <2>1. CASE rank[p] = 1
    BY <2>1 DEF Reuse, Ranked, RankOf
  <2>2. CASE rank[p] > 1
    BY <2>2, <1>5 DEF Reuse, Ranked, RankOf
  <2> QED BY <1>5, <2>1, <2>2
<1>7. OnList(rank)' /\ Used(rank)'
  BY <1>1, <1>3, <1>4, <1>6 DEF Reuse, OnList, Used, Searches, Adds
<1>8. Adders' = Adders
  BY <1>3 DEF Adders, Adds, Searches
<1>9. ASSUME NEW k \in (Implicit + 1)..n, k # rank[p]
      PROVE  Past(rank, k)' \subseteq Past(rank, k)
  <2>1. t \in Past(rank, k) <=> rank[p] < k
    BY <1>2, <1>4 DEF Past, Searches, Adds, RankOf
  <2>2. t \in Past(rank, k)' => rank[p] - 1 < k
    BY <1>3, <1>4, <1>6 DEF Past, Searches, Adds
  <2>3. \A u \in Tokens \ {t} : u \in Past(rank, k)' <=> u \in Past(rank, k)
    BY <1>3 DEF Past, Searches, Adds
  <2>4. rank[p] - 1 < k => rank[p] < k
    BY <1>5, <1>9
  <2>5. Past(rank, k)' \subseteq Tokens
    BY DEF Past
  <2> QED BY <2>1, <2>2, <2>3, <2>4, <2>5
<1>10. ASSUME NEW k \in (Implicit + 1)..n, k = rank[p]
       PROVE  Cardinality(Past(rank, k)') + (n + 1 - k) <= Cardinality(Tokens)
  <2>1. PICK u \in Tokens : producer[u] = p
    BY <1>1, <1>2, <1>4, <1>10 DEF Reuse, Used
  <2>2. u # t /\ u \notin Past(rank, k)
    BY <1>1, <1>4, <1>10, <2>1 DEF Placed, Past, Searches, Adds
  <2>3. Past(rank, k)' \subseteq Past(rank, k) \union {t}
    BY <1>3 DEF Past, Searches, Adds
  <2>4. u \in Past(rank, k + 1) /\ t \in Past(rank, k + 1)
    BY <1>2, <1>4, <1>5, <1>10, <2>1 DEF Past, RankOf
  <2>5. Past(rank, k) \subseteq Past(rank, k + 1)
    <3>1. k \in Nat /\ \A x \in Nat : x < k => x < k + 1
      BY <1>5, <1>10
    <3>2. \A v \in Tokens : /\ producer[v] # None => rank[producer[v]] \in Nat
                            /\ RankOf(rank, ptr[v]) \in Nat
      BY <1>1 DEF TypeOK, Nodes, RankOf
    <3> QED BY <3>1, <3>2 DEF Past
  <2>6. Past(rank, k)' \union {u} \subseteq Past(rank, k + 1)
    BY <2>3, <2>4, <2>5
  <2>7. u \notin Past(rank, k)'
    BY <2>2, <2>3
  <2>8. Past(rank, k + 1) \subseteq Tokens /\ Past(rank, k)' \subseteq Tokens
    BY DEF Past
  <2>9. Cardinality(Past(rank, k)' \union {u}) <= Cardinality(Past(rank, k + 1))
    BY <2>6, <2>8, FewerTokens
  <2>10. IsFiniteSet(Past(rank, k)') /\ Cardinality(Past(rank, k)') \in Nat
         /\ Cardinality(Past(rank, k + 1)) \in Nat /\ Cardinality(Tokens) \in Nat
    BY <2>8, SomeTokens
  <2>11. Cardinality(Past(rank, k)' \union {u}) = Cardinality(Past(rank, k)') + 1
    BY <2>7, <2>10, FS_AddElement
  <2>12. k + 1 \in (Implicit + 1)..(n + 1) /\ k \in Nat
    BY <1>5, <1>10
  <2>13. Cardinality(Past(rank, k + 1)) + (n + 1 - (k + 1)) <= Cardinality(Tokens)
    BY <2>12 DEF Reuse, Behind
  <2> QED BY <2>9, <2>10, <2>11, <2>12, <2>13
<1>11. Ranked(rank, n)'
  BY DEF Reuse, Ranked
<1>12. Behind(rank, n)'
  <2> SUFFICES ASSUME NEW k \in (Implicit + 1)..(n + 1)
               PROVE  Cardinality(Past(rank, k)') + (n + 1 - k) <= Cardinality(Tokens)
    BY DEF Behind
  <2>1. Past(rank, k) \subseteq Tokens /\ Past(rank, k)' \subseteq Tokens
    BY DEF Past
  <2>2. /\ Cardinality(Past(rank, k)) \in Nat /\ Cardinality(Past(rank, k)') \in Nat
        /\ Cardinality(Tokens) \in Nat /\ Cardinality(Past(rank, k)') <= Cardinality(Tokens)
    BY <2>1, SomeTokens
  <2>3. CASE k = n + 1
    BY <2>2, <2>3
  <2>4. CASE k # n + 1 /\ k = rank[p]
    BY <1>5, <1>10, <2>4
  <2>5. CASE k # n + 1 /\ k # rank[p]
    <3>1. k \in (Implicit + 1)..n /\ k \in Int
      BY <2>5
    <3>2. Cardinality(Past(rank, k)') <= Cardinality(Past(rank, k))
      BY <1>9, <2>1, <2>5, <3>1, FewerTokens
    <3>3. Cardinality(Past(rank, k)) + (n + 1 - k) <= Cardinality(Tokens)
      BY DEF Reuse, Behind
    <3> QED BY <2>2, <3>1, <3>2, <3>3
  <2> QED BY <2>3, <2>4, <2>5
<1> QED BY <1>7, <1>8, <1>11, <1>12 DEF Reuse

LEMMA TakeOverReuse ==
    ASSUME NEW rank \in [Producers -> Nat], NEW n \in Nat, IInv, Reuse(rank, n),
           NEW t \in Tokens, TakeOver(t)
    PROVE  Reuse(rank, n)'
<1> USE ProducerListAssumption
<1>1. TypeOK /\ Placed /\ state[t] = "swap" /\ producer[t] = None
  BY DEF IInv, Placed, TakeOver
<1>2. PICK p \in Producers : p = ptr[t] /\ p # None
  BY <1>1 DEF TypeOK, Nodes, Placed
<1>3. CASE ~inactive[p]
  <2>1. inactive' = inactive
    BY <1>1, <1>2, <1>3 DEF TypeOK, TakeOver
  <2> QED BY <1>1, <1>2, <1>3, <2>1, PassReuse DEF TakeOver, Searches
<1>4. CASE inactive[p]
  <2>1. /\ UNCHANGED <<producerListTail, created, destroyed, next>>
        /\ state'[t] = "own" /\ producer'[t] = p
        /\ \A u \in Tokens \ {t} :
              state'[u] = state[u] /\ ptr'[u] = ptr[u] /\ producer'[u] = producer[u]
        /\ \A q \in Producers : inactive'[q] = IF q = p THEN FALSE ELSE inactive[q]
    BY <1>1, <1>2, <1>4 DEF TakeOver, TypeOK, Goto, Look
  <2>2. OnList(rank)'
    <3>1. rank[p] > 0 /\ ~Searches(t)' /\ ~Adds(t)'
      BY <1>4, <2>1 DEF Reuse, OnList, Searches, Adds
    <3>2. \A u \in Tokens \ {t} : (Searches(u)' <=> Searches(u)) /\ (Adds(u)' <=> Adds(u))
      BY <2>1 DEF Searches, Adds
    <3>3. \A q \in Producers : inactive'[q] => inactive[q]
      BY <2>1
    <3> QED BY <2>1, <3>1, <3>2, <3>3 DEF Reuse, OnList
  <2>3. Used(rank)'
    <3> SUFFICES ASSUME ~destroyed, NEW q \in Producers, rank[q] > Implicit, ~inactive'[q]
                 PROVE  \E u \in Tokens : producer'[u] = q
      BY <2>1 DEF Used
    <3>1. CASE q = p
      BY <2>1, <3>1
    <3>2. CASE q # p
      <4>1. PICK u \in Tokens : producer[u] = q
        BY <2>1, <3>2 DEF Reuse, Used
      <4>2. u # t
        BY <1>1, <4>1 DEF Producers
      <4> QED BY <2>1, <4>1, <4>2
    <3> QED BY <3>1, <3>2
  <2>4. Adders' = Adders
    BY <1>1, <2>1 DEF Adders, Adds
  <2>5. \A k \in (Implicit + 1)..n : Past(rank, k)' \subseteq Past(rank, k)
    BY <1>1, <1>2, <2>1 DEF Past, Searches, Adds, RankOf
  <2> QED BY <1>1, <2>1, <2>2, <2>3, <2>4, <2>5, NobodyPasses DEF Reuse
<1> QED BY <1>3, <1>4

LEMMA SeeInactiveReuse ==
    ASSUME NEW rank \in [Producers -> Nat], NEW n \in Nat, IInv, Reuse(rank, n),
           NEW t \in Tokens, SeeInactive(t) \/ CreateFails(t)
    PROVE  Reuse(rank, n)'
<1> USE ProducerListAssumption DEF SeeInactive, CreateFails, Goto
<1>1. TypeOK /\ Placed /\ state[t] = "recycle" /\ producer[t] = None
  BY DEF IInv, Placed
<1>2. /\ state'[t] \in {"swap", "alive"}
      /\ \A u \in Tokens \ {t} : state'[u] = state[u]
      /\ UNCHANGED <<producerListTail, created, destroyed, next, inactive, producer, ptr>>
  BY <1>1 DEF TypeOK
<1>3. OnList(rank)' /\ Used(rank)'
  BY <1>1, <1>2 DEF Reuse, OnList, Used, Searches, Adds
<1>4. Adders' = Adders
  BY <1>1, <1>2 DEF Adders, Adds
<1>5. \A k \in (Implicit + 1)..n : Past(rank, k)' \subseteq Past(rank, k)
  BY <1>1, <1>2 DEF Past, Searches, Adds
<1> QED BY <1>1, <1>2, <1>3, <1>4, <1>5, NobodyPasses DEF Reuse

(* Who adds a producer is past all others. *)
LEMMA CreateReuse ==
    ASSUME NEW rank \in [Producers -> Nat], NEW n \in Nat, IInv, Reuse(rank, n),
           NEW t \in Tokens, Create(t)
    PROVE  Reuse(rank, n)'
<1> USE ProducerListAssumption DEF Create, Goto, Look
<1>1. TypeOK /\ Placed /\ state[t] = "recycle" /\ ptr[t] = None /\ producer[t] = None
  BY DEF IInv, Placed
<1>2. /\ state'[t] = "add" /\ ptr'[t] = created + 1 /\ created' = created + 1
      /\ \A u \in Tokens \ {t} : state'[u] = state[u] /\ ptr'[u] = ptr[u]
      /\ UNCHANGED <<producerListTail, destroyed, next, inactive, producer>>
      /\ created \in Nat /\ created + 1 \in Producers
  BY <1>1 DEF TypeOK, Producers
<1>3. OnList(rank)'
  <2>1. \A p \in Producers : p > created + 1 => p > created
    BY <1>2 DEF Producers
  <2>2. rank[created + 1] = 0
    BY <1>2 DEF Reuse, OnList
  <2> QED BY <1>1, <1>2, <2>1, <2>2 DEF Reuse, OnList, Searches, Adds
<1>4. Used(rank)'
  BY <1>2 DEF Reuse, Used
<1>5. created' = n + Cardinality(Adders')
  <2>1. Adders' = Adders \union {t} /\ t \notin Adders /\ Adders \subseteq Tokens
    BY <1>1, <1>2 DEF Adders, Adds
  <2>2. IsFiniteSet(Adders) /\ Cardinality(Adders) \in Nat
    BY <2>1, SomeTokens
  <2>3. Cardinality(Adders \union {t}) = Cardinality(Adders) + 1
    BY <2>1, <2>2, FS_AddElement
  <2> QED BY <1>2, <2>1, <2>2, <2>3 DEF Reuse
<1>6. \A k \in (Implicit + 1)..n : Past(rank, k)' \subseteq Past(rank, k)
  <2>1. \A k \in (Implicit + 1)..n : t \in Past(rank, k)
    BY <1>1 DEF Past, Searches, RankOf
  <2> QED BY <1>1, <1>2, <2>1 DEF Past, Searches, Adds
<1> QED BY <1>1, <1>2, <1>3, <1>4, <1>5, <1>6, NobodyPasses

(* The next of a producer that is not in the list. *)
LEMMA LoadTailReuse ==
    ASSUME NEW rank \in [Producers -> Nat], NEW n \in Nat, IInv, Reuse(rank, n),
           NEW t \in Tokens, Adds(t),
           next' = [next EXCEPT ![ptr[t]] = producerListTail],
           Goto(t, "link"), UNCHANGED <<producerListTail, created, destroyed, inactive, producer, ptr>>
    PROVE  Reuse(rank, n)'
<1> USE ProducerListAssumption
<1>1. TypeOK /\ ptr[t] \in Producers
  BY DEF IInv, TypeOK, Placed, Adds, Nodes
<1>2. state'[t] = "link" /\ \A u \in Tokens \ {t} : state'[u] = state[u]
  BY <1>1 DEF TypeOK, Goto
<1>3. \A u \in Tokens : (Adds(u)' <=> Adds(u)) /\ (Searches(u)' <=> Searches(u))
  BY <1>2 DEF Adds, Searches
<1>4. OnList(rank)' /\ Used(rank)'
  BY <1>3 DEF Reuse, OnList, Used
<1>5. Adders' = Adders
  BY <1>3 DEF Adders
<1>6. \A k \in (Implicit + 1)..n : Past(rank, k)' \subseteq Past(rank, k)
  BY <1>3 DEF Past
<1>7. \A p \in Producers : rank[p] > 0 => next'[p] = next[p]
  BY <1>1 DEF TypeOK, Reuse, OnList
<1> QED BY <1>1, <1>4, <1>5, <1>6, <1>7, NobodyPasses DEF Reuse

(* The new producer has the next rank, and who has added it is past no one. *)
LEMMA LinkReuse ==
    ASSUME NEW rank \in [Producers -> Nat], NEW n \in Nat, IInv, Reuse(rank, n),
           NEW t \in Tokens, Link(t), producerListTail = next[ptr[t]]
    PROVE  \E r \in [Producers -> Nat], m \in Nat :
              Reuse(r, m)' /\ \A p \in Producers : rank[p] > 0 => r[p] = rank[p]
<1> USE ProducerListAssumption
<1>1. TypeOK /\ Placed /\ Exclusive /\ state[t] = "link" /\ producer[t] = None /\ Implicit \in Nat
  BY DEF IInv, Placed, Link
<1>2. PICK p \in Producers : p = ptr[t] /\ p # None /\ p # producerListTail
  BY <1>1 DEF TypeOK, Nodes, Placed
<1>3. /\ producerListTail' = p /\ producer'[t] = p /\ state'[t] = "own"
      /\ \A u \in Tokens \ {t} :
            state'[u] = state[u] /\ ptr'[u] = ptr[u] /\ producer'[u] = producer[u]
      /\ UNCHANGED <<next, created, destroyed, inactive>>
  BY <1>1, <1>2 DEF Link, TypeOK, Goto, Look
<1>4. PICK r \in [Producers -> Nat] : r = [rank EXCEPT ![p] = n + 1]
  <2>1. [rank EXCEPT ![p] = n + 1] \in [Producers -> Nat]
    OBVIOUS
  <2> QED BY <2>1
<1>5. r[p] = n + 1 /\ \A q \in Producers \ {p} : r[q] = rank[q]
  BY <1>4
<1>6. rank[p] = 0
  BY <1>1, <1>2 DEF Reuse, OnList, Adds
<1>7. p <= created /\ ~inactive[p] /\ \A u \in Tokens \ {t} : Holds(u) # p
  BY <1>1, <1>2 DEF Exclusive, Holds
<1>8. Ranked(r, n + 1)'
  <2>1. \A q \in Producers : next[q] # p
    BY <1>1, <1>2 DEF Placed
  <2>2. producerListTail # None => rank[producerListTail] = n /\ n > 0 /\ r[producerListTail] = n
    BY <1>1, <1>2, <1>5 DEF Reuse, Ranked, TypeOK, Nodes
  <2>3. /\ r[p] = 1 => next[p] = None
        /\ r[p] > 1 => next[p] # None /\ r[next[p]] = r[p] - 1
    BY <1>2, <1>5, <2>2 DEF Reuse, Ranked
  <2>4. ASSUME NEW q \in Producers, q # p
        PROVE  /\ r[q] <= n + 1
               /\ r[q] = 1 => next[q] = None
               /\ r[q] > 1 => next[q] # None /\ r[next[q]] = r[q] - 1
    <3>1. /\ rank[q] <= n /\ rank[q] \in Nat
          /\ rank[q] = 1 => next[q] = None
          /\ rank[q] > 1 => next[q] # None /\ rank[next[q]] = rank[q] - 1
      BY DEF Reuse, Ranked
    <3>2. r[q] = rank[q] /\ (next[q] # None => r[next[q]] = rank[next[q]])
      BY <1>1, <1>5, <2>1, <2>4 DEF TypeOK, Nodes
    <3> QED BY <3>1, <3>2
  <2>5. Implicit <= n + 1 /\ n + 1 # 0
    BY DEF Reuse, Ranked
  <2>6. \A q \in Producers \ {p} : rank[q] <= n
    BY DEF Reuse, Ranked
  <2>7. \A q, s \in Producers : r[q] = r[s] /\ r[q] > 0 => q = s
    BY <1>5, <2>6 DEF Reuse, Ranked
  <2> QED BY <1>2, <1>3, <1>5, <2>3, <2>4, <2>5, <2>7 DEF Ranked
<1>9. OnList(r)'
  <2>1. ASSUME NEW u \in Tokens, u # t
        PROVE  /\ Searches(u) /\ ptr[u] # None => r[ptr[u]] > 0
               /\ producer[u] # None => r[producer[u]] > 0
               /\ Adds(u) => r[ptr[u]] = 0
    <3>1. Adds(u) => ptr[u] # p /\ ptr[u] \in Producers
      BY <1>1, <1>7, <2>1 DEF Holds, Adds, Placed, TypeOK, Nodes
    <3>2. \A q \in Producers : rank[q] > 0 => r[q] > 0
      BY <1>5
    <3> QED BY <1>1, <1>5, <2>1, <3>1, <3>2 DEF Reuse, OnList, TypeOK, Nodes
  <2>2. /\ ~Searches(t)' /\ ~Adds(t)' /\ r[producer'[t]] > 0
    BY <1>3, <1>5 DEF Searches, Adds
  <2>3. ASSUME NEW q \in Producers
        PROVE  (inactive[q] => r[q] > 0) /\ (q > created => r[q] = 0)
    <3>1. q = p => ~inactive[q] /\ ~(q > created)
      BY <1>1, <1>7 DEF TypeOK, Producers
    <3> QED BY <1>5, <3>1 DEF Reuse, OnList
  <2>4. \A u \in Tokens \ {t} : (Searches(u)' <=> Searches(u)) /\ (Adds(u)' <=> Adds(u))
    BY <1>3 DEF Searches, Adds
  <2> QED BY <1>3, <2>1, <2>2, <2>3, <2>4 DEF OnList
<1>10. Used(r)'
  <2> SUFFICES ASSUME ~destroyed, NEW q \in Producers, r[q] > Implicit, ~inactive[q]
               PROVE  \E u \in Tokens : producer'[u] = q
    BY <1>3 DEF Used
  <2>1. CASE q = p
    BY <1>3, <2>1
  <2>2. CASE q # p
    <3>1. PICK u \in Tokens : producer[u] = q
      BY <1>5, <2>2 DEF Reuse, Used
    <3>2. u # t
      BY <1>1, <3>1, <2>2 DEF Producers
    <3> QED BY <1>3, <3>1, <3>2
  <2> QED BY <2>1, <2>2
<1>11. created' = n + 1 + Cardinality(Adders')
  <2>1. Adders' = Adders \ {t} /\ t \in Adders /\ Adders \subseteq Tokens
    BY <1>1, <1>3 DEF Adders, Adds
  <2>2. IsFiniteSet(Adders) /\ Cardinality(Adders) \in Nat
    BY <2>1, SomeTokens
  <2>3. Cardinality(Adders \ {t}) = Cardinality(Adders) - 1
    BY <2>1, <2>2, FS_RemoveElement
  <2> QED BY <1>3, <2>1, <2>2, <2>3 DEF Reuse
<1>12. Behind(r, n + 1)'
  <2> SUFFICES ASSUME NEW k \in (Implicit + 1)..(n + 1 + 1)
               PROVE  Cardinality(Past(r, k)') + (n + 1 + 1 - k) <= Cardinality(Tokens)
    BY DEF Behind
  <2>1. Past(rank, k) \subseteq Tokens /\ Past(r, k)' \subseteq Tokens
    BY DEF Past
  <2>2. /\ Cardinality(Past(rank, k)) \in Nat /\ Cardinality(Past(r, k)') \in Nat
        /\ IsFiniteSet(Past(rank, k))
        /\ Cardinality(Tokens) \in Nat /\ Cardinality(Past(r, k)') <= Cardinality(Tokens)
    BY <2>1, SomeTokens
  <2>3. CASE k = n + 1 + 1
    BY <2>2, <2>3
  <2>4. CASE k # n + 1 + 1
    <3>1. k \in (Implicit + 1)..(n + 1) /\ k \in Int /\ k <= n + 1
      BY <2>4
    <3>2. t \in Past(rank, k)
      BY <1>1 DEF Past, Adds
    <3>3. t \notin Past(r, k)'
      BY <1>3, <1>5, <3>1 DEF Past, Searches, Adds
    <3>4. Past(r, k)' \subseteq Past(rank, k) \ {t}
      <4> SUFFICES ASSUME NEW u \in Tokens, u # t, u \in Past(r, k)'
                   PROVE  u \in Past(rank, k)
        BY <2>1, <3>3
      <4>1. (Searches(u)' <=> Searches(u)) /\ (Adds(u)' <=> Adds(u))
        BY <1>3 DEF Searches, Adds
      <4>2. Searches(u) => RankOf(r, ptr[u]) = RankOf(rank, ptr[u])
        BY <1>1, <1>5, <1>6 DEF Reuse, OnList, RankOf, TypeOK, Nodes
      <4>3. producer[u] # None => r[producer[u]] = rank[producer[u]]
        BY <1>1, <1>5, <1>6 DEF Reuse, OnList, TypeOK, Nodes
      <4> QED BY <1>3, <4>1, <4>2, <4>3 DEF Past
    <3>5. Past(rank, k) \ {t} \subseteq Tokens
      BY <2>1
    <3>6. Cardinality(Past(r, k)') <= Cardinality(Past(rank, k) \ {t})
      BY <3>4, <3>5, FewerTokens
    <3>7. Cardinality(Past(rank, k) \ {t}) = Cardinality(Past(rank, k)) - 1
      BY <2>2, <3>2, FS_RemoveElement
    <3>8. Cardinality(Past(rank, k)) + (n + 1 - k) <= Cardinality(Tokens)
      BY <3>1 DEF Reuse, Behind
    <3> QED BY <2>2, <3>1, <3>6, <3>7, <3>8
  <2> QED BY <2>3, <2>4
<1>13. Reuse(r, n + 1)'
  BY <1>8, <1>9, <1>10, <1>11, <1>12 DEF Reuse
<1> QED BY <1>5, <1>6, <1>13

(* Steps of a token that has a producer. *)
LEMMA OwnReuse ==
    ASSUME NEW rank \in [Producers -> Nat], NEW n \in Nat, IInv, Reuse(rank, n),
           NEW t \in Tokens, Own(t) \/ Destroy(t) \/ Release(t)
    PROVE  Reuse(rank, n)'
<1> USE ProducerListAssumption
<1>1. TypeOK /\ Placed /\ state[t] \in {"own", "alive", "release"}
  BY DEF IInv, Own, Destroy, Release
<1>2. /\ state'[t] \in {"alive", "none", "release"}
      /\ \A u \in Tokens \ {t} : state'[u] = state[u] /\ producer'[u] = producer[u]
      /\ UNCHANGED <<producerListTail, created, destroyed, next, ptr>>
  BY <1>1 DEF TypeOK, Own, Destroy, Release, Goto
<1>3. \/ UNCHANGED <<producer, inactive>>
      \/ /\ producer[t] # None /\ producer'[t] = None
         /\ inactive' = [inactive EXCEPT ![producer[t]] = TRUE]
  BY <1>1 DEF TypeOK, Placed, Own, Destroy, Release
<1>4. \A u \in Tokens : (Searches(u)' <=> Searches(u)) /\ (Adds(u)' <=> Adds(u))
  BY <1>1, <1>2 DEF Searches, Adds
<1>5. OnList(rank)'
  <2>1. \A q \in Producers : inactive'[q] => inactive[q] \/ (producer[t] # None /\ q = producer[t])
    BY <1>1, <1>3 DEF TypeOK
  <2>2. \A u \in Tokens : producer'[u] # None => producer'[u] = producer[u]
    BY <1>2, <1>3
  <2> QED BY <1>2, <1>4, <2>1, <2>2 DEF Reuse, OnList
<1>6. Used(rank)'
  <2>1. CASE UNCHANGED <<producer, inactive>>
    BY <1>2, <2>1 DEF Reuse, Used
  <2>2. CASE /\ producer[t] # None
             /\ inactive' = [inactive EXCEPT ![producer[t]] = TRUE]
    <3> SUFFICES ASSUME ~destroyed, NEW q \in Producers, rank[q] > Implicit, ~inactive'[q]
                 PROVE  \E u \in Tokens : producer'[u] = q
      BY <1>2 DEF Used
    <3>1. ~inactive[q] /\ q # producer[t]
      BY <1>1, <2>2 DEF TypeOK
    <3>2. PICK u \in Tokens : producer[u] = q
      BY <3>1 DEF Reuse, Used
    <3> QED BY <1>2, <3>1, <3>2
  <2> QED BY <1>3, <2>1, <2>2
<1>7. Adders' = Adders
  BY <1>4 DEF Adders
<1>8. \A k \in (Implicit + 1)..n : Past(rank, k)' \subseteq Past(rank, k)
  <2>1. \A u \in Tokens : producer'[u] # None => producer'[u] = producer[u]
    BY <1>2, <1>3
  <2> QED BY <1>2, <1>4, <2>1 DEF Past
<1> QED BY <1>1, <1>2, <1>5, <1>6, <1>7, <1>8, NobodyPasses DEF Reuse

(* Who has a producer changes, not how many there are past another one. *)
LEMMA ExchangedCounts ==
    ASSUME NEW S, NEW T, NEW t, NEW u, IsFiniteSet(S), S \subseteq Tokens,
           \A v \in Tokens \ {t, u} : v \in T <=> v \in S,
           t \in T <=> u \in S, u \in T <=> t \in S,
           T \subseteq Tokens, t \in Tokens, u \in Tokens
    PROVE  Cardinality(T) = Cardinality(S)
<1>1. CASE t \in S <=> u \in S
  <2>1. T = S
    BY <1>1
  <2> QED BY <2>1
<1>2. CASE t \in S /\ u \notin S
  <2>1. T = (S \ {t}) \union {u} /\ u \notin S \ {t}
    BY <1>2
  <2>2. IsFiniteSet(S \ {t}) /\ Cardinality(S \ {t}) = Cardinality(S) - 1
    BY <1>2, FS_RemoveElement
  <2>3. Cardinality((S \ {t}) \union {u}) = Cardinality(S \ {t}) + 1
    BY <2>1, <2>2, FS_AddElement
  <2>4. Cardinality(S) \in Nat
    BY FS_CardinalityType
  <2> QED BY <2>1, <2>2, <2>3, <2>4
<1>3. CASE t \notin S /\ u \in S
  <2>1. T = (S \ {u}) \union {t} /\ t \notin S \ {u}
    BY <1>3
  <2>2. IsFiniteSet(S \ {u}) /\ Cardinality(S \ {u}) = Cardinality(S) - 1
    BY <1>3, FS_RemoveElement
  <2>3. Cardinality((S \ {u}) \union {t}) = Cardinality(S \ {u}) + 1
    BY <2>1, <2>2, FS_AddElement
  <2>4. Cardinality(S) \in Nat
    BY FS_CardinalityType
  <2> QED BY <2>1, <2>2, <2>3, <2>4
<1> QED BY <1>1, <1>2, <1>3

LEMMA MoveReuse ==
    ASSUME NEW rank \in [Producers -> Nat], NEW n \in Nat, IInv, Reuse(rank, n),
           NEW t \in Tokens, NEW u \in Tokens, Move(t, u) \/ Swap(t, u)
    PROVE  Reuse(rank, n)'
<1> USE ProducerListAssumption
<1>1. TypeOK /\ Placed /\ t # u /\ state[t] = "alive" /\ state[u] \in {"none", "alive"}
  BY DEF IInv, Move, Swap
<1>2. state[u] = "none" => producer[u] = None
  BY <1>1 DEF Placed
<1>3. /\ producer'[t] = producer[u] /\ producer'[u] = producer[t]
      /\ \A v \in Tokens \ {t, u} : producer'[v] = producer[v]
      /\ state'[t] = "alive" /\ state'[u] = "alive"
      /\ \A v \in Tokens \ {t, u} : state'[v] = state[v]
      /\ UNCHANGED <<producerListTail, created, destroyed, next, inactive, ptr>>
  BY <1>1, <1>2 DEF Move, Swap, TypeOK, Goto
<1>4. \A v \in Tokens : (Searches(v)' <=> Searches(v)) /\ (Adds(v)' <=> Adds(v))
  BY <1>1, <1>3 DEF Searches, Adds
<1>5. OnList(rank)'
  BY <1>3, <1>4 DEF Reuse, OnList
<1>6. Used(rank)'
  <2> SUFFICES ASSUME ~destroyed, NEW q \in Producers, rank[q] > Implicit, ~inactive[q]
               PROVE  \E v \in Tokens : producer'[v] = q
    BY <1>3 DEF Used
  <2>1. PICK v \in Tokens : producer[v] = q
    BY DEF Reuse, Used
  <2> QED BY <1>3, <2>1
<1>7. Adders' = Adders
  BY <1>4 DEF Adders
<1>8. ASSUME NEW k \in (Implicit + 1)..n
      PROVE  Cardinality(Past(rank, k)') <= Cardinality(Past(rank, k))
  <2>1. /\ ~Searches(t) /\ ~Adds(t) /\ ~Searches(u) /\ ~Adds(u)
        /\ ~Searches(t)' /\ ~Adds(t)' /\ ~Searches(u)' /\ ~Adds(u)'
    BY <1>1, <1>3 DEF Searches, Adds
  <2>2. (t \in Past(rank, k)' <=> u \in Past(rank, k)) /\ (u \in Past(rank, k)' <=> t \in Past(rank, k))
    BY <1>3, <2>1 DEF Past
  <2>3. \A v \in Tokens \ {t, u} : v \in Past(rank, k)' <=> v \in Past(rank, k)
    BY <1>3, <1>4 DEF Past
  <2>4. Past(rank, k) \subseteq Tokens /\ Past(rank, k)' \subseteq Tokens
    BY DEF Past
  <2>5. IsFiniteSet(Past(rank, k)) /\ Cardinality(Past(rank, k)) \in Nat
    BY <2>4, SomeTokens
  <2>6. Cardinality(Past(rank, k)') = Cardinality(Past(rank, k))
    BY <2>2, <2>3, <2>4, <2>5, ExchangedCounts
  <2> QED BY <2>5, <2>6
<1> QED BY <1>1, <1>3, <1>5, <1>6, <1>7, <1>8, ReuseKept DEF Reuse

LEMMA DestroyQueueReuse ==
    ASSUME NEW rank \in [Producers -> Nat], NEW n \in Nat, IInv, Reuse(rank, n),
           DestroyQueue \/ UNCHANGED listVars
    PROVE  Reuse(rank, n)'
<1> USE ProducerListAssumption
<1>1. TypeOK
  BY DEF IInv
<1>2. /\ UNCHANGED <<producerListTail, created, next, inactive, state, ptr>>
      /\ \A t \in Tokens : producer'[t] # None => producer'[t] = producer[t]
  BY <1>1 DEF DestroyQueue, TypeOK, listVars
<1>3. \A v \in Tokens : (Searches(v)' <=> Searches(v)) /\ (Adds(v)' <=> Adds(v))
  BY <1>2 DEF Searches, Adds
<1>4. OnList(rank)'
  BY <1>2, <1>3 DEF Reuse, OnList
<1>5. Used(rank)'
  BY DEF Reuse, Used, DestroyQueue, listVars
<1>6. Adders' = Adders
  BY <1>3 DEF Adders
<1>7. \A k \in (Implicit + 1)..n : Past(rank, k)' \subseteq Past(rank, k)
  BY <1>2, <1>3 DEF Past
<1> QED BY <1>1, <1>2, <1>4, <1>5, <1>6, <1>7, NobodyPasses DEF Reuse

-------------------------------------------------------------------------------
Reusing == \E rank \in [Producers -> Nat], n \in Nat : Reuse(rank, n)

(* The implicit producers are ranked as they are numbered. *)
LEMMA InitReuse == Init => Reusing
<1> SUFFICES ASSUME Init PROVE Reusing
  OBVIOUS
<1> USE ProducerListAssumption DEF Init
<1>1. PICK rank \in [Producers -> Nat] :
         rank = [p \in Producers |-> IF p <= Implicit THEN p ELSE 0]
  <2>1. \A p \in Producers : (IF p <= Implicit THEN p ELSE 0) \in Nat
    BY DEF Producers
  <2> HIDE DEF Init
  <2> QED BY <2>1
<1>2. Ranked(rank, Implicit)
  BY <1>1 DEF Ranked, Producers
<1>3. OnList(rank) /\ Used(rank)
  BY <1>1 DEF OnList, Used, Searches, Adds, Producers
<1>4. Adders = {}
  BY DEF Adders, Adds
<1>5. created = Implicit + Cardinality(Adders)
  BY <1>4, FS_EmptySet
<1>6. Behind(rank, Implicit)
  <2> SUFFICES ASSUME NEW k \in (Implicit + 1)..(Implicit + 1)
               PROVE  Cardinality(Past(rank, k)) + (Implicit + 1 - k) <= Cardinality(Tokens)
    BY DEF Behind
  <2>1. Past(rank, k) \subseteq Tokens /\ k = Implicit + 1
    BY DEF Past
  <2> QED BY <2>1, SomeTokens
<1> QED BY <1>2, <1>3, <1>5, <1>6 DEF Reuse, Reusing

(* Producers keep their ranks. *)
LEMMA StepReuse ==
    ASSUME NEW rank \in [Producers -> Nat], NEW n \in Nat, IInv, Reuse(rank, n), [Next]_listVars
    PROVE  \E r \in [Producers -> Nat], m \in Nat :
              Reuse(r, m)' /\ \A p \in Producers : rank[p] > 0 => r[p] = rank[p]
<1>2. ASSUME NEW t \in Tokens, Construct(t) \/ SeeInactive(t) \/ CreateFails(t) \/ TakeOver(t)
                               \/ Create(t) \/ Own(t) \/ Destroy(t) \/ Release(t)
      PROVE  Reuse(rank, n)'
  BY <1>2, ConstructReuse, SeeInactiveReuse, TakeOverReuse, CreateReuse, OwnReuse
<1>3. ASSUME NEW t \in Tokens, PassOver(t)
      PROVE  Reuse(rank, n)'
  <2>1. state' = [state EXCEPT ![t] = "recycle"]
    BY <1>3 DEF PassOver, IInv, TypeOK
  <2> QED BY <1>3, <2>1, PassReuse DEF PassOver, Searches, Goto
<1>4. ASSUME NEW t \in Tokens, LoadTail(t)
      PROVE  Reuse(rank, n)'
  BY <1>4, LoadTailReuse DEF LoadTail, Adds
<1>5. ASSUME NEW t \in Tokens, Link(t)
      PROVE  \E r \in [Producers -> Nat], m \in Nat :
                Reuse(r, m)' /\ \A p \in Producers : rank[p] > 0 => r[p] = rank[p]
  <2>1. CASE producerListTail = next[ptr[t]]
    BY <1>5, <2>1, LinkReuse
  <2>2. CASE producerListTail # next[ptr[t]]
    <3>1. state' = [state EXCEPT ![t] = "link"]
      BY <1>5, <2>2 DEF Link, IInv, TypeOK
    <3>2. Reuse(rank, n)'
      BY <1>5, <2>2, <3>1, LoadTailReuse DEF Link, Adds, Goto
    <3> QED BY <3>2
  <2> QED BY <2>1, <2>2
<1>6. ASSUME NEW t \in Tokens, NEW u \in Tokens, Move(t, u) \/ Swap(t, u)
      PROVE  Reuse(rank, n)'
  BY <1>6, MoveReuse
<1>7. CASE DestroyQueue \/ UNCHANGED listVars
  <2>1. Reuse(rank, n)'
    BY <1>7, DestroyQueueReuse
  <2> QED BY <2>1
<1> QED BY <1>2, <1>3, <1>4, <1>5, <1>6, <1>7 DEF Next, TokenStep, Constructing

LEMMA NextReuse == IInv /\ Reusing /\ [Next]_listVars => Reusing'
<1> SUFFICES ASSUME IInv, Reusing, [Next]_listVars
             PROVE  \E r \in [Producers -> Nat], m \in Nat : Reuse(r, m)'
  BY DEF Reusing
<1>1. PICK rank \in [Producers -> Nat], n \in Nat : Reuse(rank, n)
  BY DEF Reusing
<1> QED BY <1>1, StepReuse

LEMMA ReusingBounds == Reusing => ProducersReused
<1> SUFFICES ASSUME Reusing PROVE created <= Implicit + Cardinality(Tokens)
  BY DEF ProducersReused
<1>1. PICK rank \in [Producers -> Nat], n \in Nat : Reuse(rank, n)
  BY DEF Reusing
<1>2. PICK k \in Nat : k = Implicit + 1
  BY ProducerListAssumption
<1>3. Implicit \in Nat /\ Implicit <= n /\ k \in (Implicit + 1)..(n + 1)
  BY <1>1, <1>2, ProducerListAssumption DEF Reuse, Ranked
<1>4. Cardinality(Past(rank, k)) + (n + 1 - k) <= Cardinality(Tokens)
  BY <1>1, <1>3 DEF Reuse, Behind
<1>5. Adders \subseteq Past(rank, k) /\ Adders \subseteq Tokens /\ Past(rank, k) \subseteq Tokens
  BY DEF Adders, Past
<1>6. Cardinality(Adders) <= Cardinality(Past(rank, k))
  BY <1>5, FewerTokens
<1>7. /\ Cardinality(Adders) \in Nat /\ Cardinality(Past(rank, k)) \in Nat
      /\ Cardinality(Tokens) \in Nat
  BY <1>5, SomeTokens
<1>8. created = n + Cardinality(Adders)
  BY <1>1 DEF Reuse
<1> QED BY <1>2, <1>3, <1>4, <1>6, <1>7, <1>8

(* There are never more producers than tokens at a time, although a token  *)
(* goes through the list only once while others give up their producers    *)
(* behind it.                                                              *)
THEOREM ReusesProducers == Spec => []ProducersReused
<1>1. Spec => []IInv
  BY InitIInv, NextIInv, PTL DEF Spec
<1>2. Spec => []Reusing
  BY <1>1, InitReuse, NextReuse, PTL DEF Spec
<1> QED BY <1>2, ReusingBounds, PTL

-------------------------------------------------------------------------------
CastChosen == cast \in Casts

(* Consumers that go through the list take no step of its. *)
LEMMA ConsumersLeaveList == RotationSpec => Spec
<1>1. RotationInit => Init
  BY DEF RotationInit
<1>2. CastChosen /\ [RotationNext]_vars => CastChosen' /\ [Next]_listVars
  <2> SUFFICES ASSUME CastChosen, [RotationNext]_vars
               PROVE  CastChosen' /\ [Next]_listVars
    OBVIOUS
  <2>1. cast.tokens \subseteq Tokens
    BY ConsumerRotationAssumption DEF CastChosen
  <2>2. ListStep => Next /\ cast' = cast
    BY <2>1 DEF ListStep, Next
  <2>3. ASSUME NEW c \in cast.consumers, Attempt(c)
        PROVE  cast' = cast /\ UNCHANGED listVars
    <3>1. CASE Scan(c) \/ ScanEnds(c) \/ SkipBest(c) \/ ListEnds(c) \/ RoundEnds(c)
      BY <3>1 DEF Scan, ScanEnds, SkipBest, ListEnds, RoundEnds
    <3>2. CASE LoadTailToRotate(c) \/ Rotate(c) \/ LoadTailToTurn(c)
      BY <3>2 DEF LoadTailToRotate, Rotate, LoadTailToTurn
    <3>3. CASE AskBest(c) \/ AskNext(c) \/ AskCurrent(c) \/ AskRound(c)
      BY <3>3 DEF AskBest, AskNext, AskCurrent, AskRound, Ask
    <3> QED BY <2>3, <3>1, <3>2, <3>3 DEF Attempt
  <2>4. ASSUME NEW c \in cast.consumers, NEW kind, NEW first, NEW m,
               Begin(c, kind, first, m) \/ BeginWithToken(c, kind, m)
        PROVE  cast' = cast /\ UNCHANGED listVars
    BY <2>4 DEF Begin, BeginWithToken
  <2>5. \A p \in Producers : Enqueue(p) => cast' = cast /\ UNCHANGED listVars
    BY DEF Enqueue
  <2>6. UNCHANGED vars => cast' = cast /\ UNCHANGED listVars
    BY DEF vars
  <2>7. cast' = cast /\ (ListStep \/ UNCHANGED listVars)
    BY <2>2, <2>3, <2>4, <2>5, <2>6 DEF RotationNext
  <2> QED BY <2>2, <2>7 DEF CastChosen
<1>3. RotationInit => CastChosen
  BY DEF RotationInit, CastChosen
<1> QED BY <1>1, <1>2, <1>3, PTL DEF RotationSpec, Spec

(* So it is while consumers go through the list. *)
THEOREM OneOwnerWithConsumers == RotationSpec => []Owned
BY ConsumersLeaveList, OneOwner, PTL

(* Nor do more producers come about with consumers. *)
THEOREM ReusesProducersWithConsumers == RotationSpec => []ProducersReused
BY ConsumersLeaveList, ReusesProducers, PTL

-------------------------------------------------------------------------------
CallTypes ==
    [pc : {"idle", "scan", "best", "rest", "walk", "rotate", "move", "current", "turn", "round"},
     kind : {"none", "scan", "walk", "token", "bulk"}, max : Nat, tail : Nodes, ptr : Nodes,
     best : Nodes, bestSize : Nat, nonEmptyCount : Nat, unasked : SUBSET Producers]

HeldTypes ==
    [initialOffset : Nat, lastKnownGlobalOffset : Nat, itemsConsumedFromCurrent : Nat,
     currentProducer : Nodes, desiredProducer : Nodes, producers : Int]

RotationTypeOK ==
    /\ cast \in Casts /\ enqueued \in Nat /\ globalExplicitConsumerOffset \in Nat
    /\ size \in [Producers -> Nat] /\ producerCount = created
    /\ call \in [Consumers -> CallTypes] /\ held \in [Consumers -> HeldTypes]

Listed(rank, p) == p # None => rank[p] > 0

(* From rank q, who goes round the list reaches rank r before rank c. *)
Ahead(q, c, r) == (c < r /\ r <= q) \/ (q < c /\ (r <= q \/ c < r))

(* The producers a call has not asked are still before it. *)
Sought(rank, k, h) ==
    /\ Listed(rank, k.ptr) /\ Listed(rank, k.tail) /\ Listed(rank, k.best)
    /\ Listed(rank, h.currentProducer) /\ Listed(rank, h.desiredProducer)
    /\ h.desiredProducer # None => h.currentProducer # None
    /\ \A p \in k.unasked : rank[p] > 0
    /\ k.pc = "idle" => k.unasked = {}
    /\ k.pc = "scan" =>
          /\ k.nonEmptyCount > 0 => k.bestSize > 0
          /\ k.bestSize > 0 => k.best # None
          /\ k.nonEmptyCount = 0 => \A p \in k.unasked : rank[p] <= RankOf(rank, k.ptr)
    /\ k.pc = "best" => k.best # None
    /\ k.pc \in {"rest", "walk"} =>
          \A p \in k.unasked : rank[p] <= RankOf(rank, k.ptr) /\ p # k.best
    /\ k.pc = "move" =>
          /\ k.tail # None
          /\ h.desiredProducer # None => rank[h.desiredProducer] <= rank[k.tail]
    /\ k.pc \in {"current", "turn", "round"} => h.currentProducer # None
    /\ k.pc = "turn" => h.currentProducer \notin k.unasked
    /\ k.pc = "round" =>
          /\ k.tail # None /\ k.ptr # None
          /\ rank[k.ptr] <= rank[k.tail] /\ rank[h.currentProducer] <= rank[k.tail]
          /\ \A p \in k.unasked :
                rank[p] <= rank[k.tail] /\ Ahead(rank[k.ptr], rank[h.currentProducer], rank[p])

Seeks(rank) == \A c \in Consumers : Sought(rank, call[c], held[c])

-------------------------------------------------------------------------------
(* A set of natural numbers has a least one: what induction is done with. *)
LEMMA LeastNumber ==
    ASSUME NEW S \in SUBSET Nat, S # {}
    PROVE  \E m \in S : \A k \in S : m <= k
<1>1. PICK n \in S : TRUE
  OBVIOUS
<1> DEFINE Below(i) == {k \in S : k < i}
           T == {Below(i) : i \in {j \in S : j <= n}}
           Order == StrictSubsetOrdering(0..n)
<1>2. IsWellFoundedOn(Order, FiniteSubsetsOf(0..n))
  BY FS_StrictSubsetOrderingWellFounded
<1>3. T \subseteq FiniteSubsetsOf(0..n) /\ T # {}
  <2>1. n \in Nat /\ IsFiniteSet(0..n)
    BY FS_Interval
  <2>2. ASSUME NEW i \in S, i <= n
        PROVE  Below(i) \in FiniteSubsetsOf(0..n)
    <3>1. Below(i) \in SUBSET (0..n)
      <4>1. i \in Nat /\ \A k \in S : k \in Nat
        OBVIOUS
      <4>2. \A k \in S : k < i => k \in 0..n
        BY <2>1, <2>2, <4>1
      <4> QED BY <4>2
    <3>2. IsFiniteSet(Below(i))
      BY <2>1, <3>1, FS_Subset
    <3> QED BY <3>1, <3>2 DEF FiniteSubsetsOf
  <2>3. Below(n) \in T
    BY <1>1, <2>1
  <2> QED BY <2>2, <2>3
<1>4. PICK B \in T : \A C \in T : <<C, B>> \notin Order
  <2> HIDE DEF T, Order
  <2> QED BY <1>2, <1>3, WFMin
<1>5. PICK m \in S : m <= n /\ B = Below(m)
  BY <1>4
<1>6. ASSUME NEW k \in S, k < m
      PROVE  FALSE
  <2>0. k \in Nat /\ m \in Nat /\ n \in Nat /\ \A i \in S : i \in Nat
    OBVIOUS
  <2>1. Below(k) \in T
    BY <2>0, <1>5, <1>6
  <2>2. Below(k) \subseteq B /\ k \in B /\ k \notin Below(k)
    <3>1. \A i \in S : i < k => i < m
      BY <2>0, <1>6
    <3>2. B = {i \in S : i < m} /\ ~(k < k)
      BY <2>0, <1>5
    <3> HIDE DEF T, Order
    <3> QED BY <3>1, <3>2, <1>6
  <2>3. Below(k) \in SUBSET (0..n) /\ B \in SUBSET (0..n)
    <3>1. \A i \in S : i < m => i \in 0..n
      BY <2>0, <1>5
    <3>2. B \in SUBSET (0..n)
      BY <3>1, <1>5
    <3> QED BY <2>2, <3>2
  <2>4. <<Below(k), B>> \in Order
    BY <2>2, <2>3 DEF StrictSubsetOrdering
  <2> QED BY <1>4, <2>1, <2>4
<1>7. \A k \in S : m <= k
  BY <1>6
<1> QED BY <1>7

(* The walk that Forward is, among producers that are in the list. *)
IsWalk(walk, S, p, m, newest) ==
    /\ walk \in [0..m -> S]
    /\ walk[0] = p /\ walk[m] = Forward(p, m, newest)
    /\ \A j \in 1..m : walk[j] = After(walk[j - 1], newest)

LEMMA ForwardIs ==
    ASSUME NEW S, NEW p \in S, NEW newest, NEW m \in Nat,
           \A q \in S : After(q, newest) \in S
    PROVE  \E walk : IsWalk(walk, S, p, m, newest)
<1> DEFINE Walks(g, i) == /\ g \in [0..i -> S] /\ g[0] = p
                          /\ \A j \in 1..i : g[j] = After(g[j - 1], newest)
<1>1. \A i \in Nat : \E g : Walks(g, i)
  <2> DEFINE B == {i \in Nat : ~ \E g : Walks(g, i)}
  <2>1. CASE B = {}
    BY <2>1
  <2>2. CASE B # {}
    <3>1. PICK i \in B : \A k \in B : i <= k
      <4> HIDE DEF Walks
      <4> QED BY <2>2, LeastNumber
    <3>2. CASE i = 0
      <4>1. Walks([j \in 0..0 |-> p], 0)
        OBVIOUS
      <4> QED BY <3>1, <3>2, <4>1
    <3>3. CASE i # 0
      <4>1. i - 1 \in Nat /\ i - 1 \notin B /\ i \in Nat
        BY <3>1, <3>3
      <4>2. PICK g : Walks(g, i - 1)
        BY <4>1
      <4> DEFINE h == [j \in 0..i |-> IF j < i THEN g[j] ELSE After(g[i - 1], newest)]
      <4>3. \A j \in 0..(i - 1) : g[j] \in S /\ h[j] = g[j]
        <5>1. \A j \in 0..(i - 1) : j \in 0..i /\ j < i
          BY <4>1
        <5> HIDE DEF B
        <5> QED BY <4>2, <5>1
      <4>4. h[i] = After(g[i - 1], newest) /\ h[i] \in S
        <5>1. i \in 0..i /\ ~(i < i) /\ i - 1 \in 0..(i - 1)
          BY <4>1
        <5>2. g[i - 1] \in S
          BY <4>3, <5>1
        <5> HIDE DEF B, Walks
        <5> QED BY <5>1, <5>2
      <4>5. \A j \in 0..i : h[j] \in S
        <5>1. \A j \in 0..i : j \in 0..(i - 1) \/ j = i
          BY <4>1
        <5> HIDE DEF B, Walks, h
        <5> QED BY <4>3, <4>4, <5>1
      <4>6. \A j \in 1..i : h[j] = After(h[j - 1], newest)
        <5>1. ASSUME NEW j \in 1..i, j < i
              PROVE  h[j] = After(h[j - 1], newest)
          <6>1. j \in 0..(i - 1) /\ j - 1 \in 0..(i - 1) /\ j \in 1..(i - 1)
            BY <4>1, <5>1
          <6> HIDE DEF h
          <6> QED BY <4>2, <4>3, <6>1
        <5>2. h[i] = After(h[i - 1], newest)
          BY <4>1, <4>3, <4>4
        <5> HIDE DEF h
        <5> QED BY <4>1, <5>1, <5>2
      <4>7. h[0] = p
        BY <4>1, <4>2
      <4>8. Walks(h, i)
        BY <4>1, <4>5, <4>6, <4>7
      <4> QED BY <3>1, <4>8
    <3> QED BY <3>2, <3>3
  <2> QED BY <2>1, <2>2
<1>2. PICK g : Walks(g, m)
  BY <1>1
<1> DEFINE Is(h) == h = [i \in 0..m |-> IF i = 0 THEN p ELSE After(h[i - 1], newest)]
           w == CHOOSE h : Is(h)
<1>3. Is(g)
  <2>1. g = [i \in 0..m |-> g[i]]
    BY <1>2
  <2>2. \A i \in 0..m : g[i] = IF i = 0 THEN p ELSE After(g[i - 1], newest)
    BY <1>2
  <2> QED BY <2>1, <2>2
<1>4. Is(w)
  <2> HIDE DEF Is
  <2> QED BY <1>3
<1>5. Forward(p, m, newest) = w[m]
  BY DEF Forward
<1>6. \A i \in 0..m : w[i] = g[i]
  <2> DEFINE D == {i \in 0..m : w[i] # g[i]}
  <2>1. CASE D = {}
    BY <2>1
  <2>2. CASE D # {}
    <3>1. D \in SUBSET Nat
      OBVIOUS
    <3>2. PICK i \in D : \A k \in D : i <= k
      <4> HIDE DEF D
      <4> QED BY <2>2, <3>1, LeastNumber
    <3>3. i # 0 => i - 1 \in 0..m /\ w[i - 1] = g[i - 1]
      BY <3>2
    <3>4. \A j \in 0..m : /\ w[j] = IF j = 0 THEN p ELSE After(w[j - 1], newest)
                          /\ g[j] = IF j = 0 THEN p ELSE After(g[j - 1], newest)
      <4>1. ASSUME NEW h, Is(h), NEW j \in 0..m
            PROVE  h[j] = IF j = 0 THEN p ELSE After(h[j - 1], newest)
        BY <4>1
      <4> HIDE DEF Is, w
      <4> QED BY <1>3, <1>4, <4>1
    <3>5. w[i] = g[i]
      <4> HIDE DEF w, Is, Walks
      <4> QED BY <3>2, <3>3, <3>4
    <3> QED BY <3>2, <3>5
  <2> QED BY <2>1, <2>2
<1>7. /\ g \in [0..m -> S] /\ g[0] = p
      /\ \A j \in 1..m : g[j] = After(g[j - 1], newest)
  BY <1>2
<1>8. g[m] = Forward(p, m, newest)
  <2> HIDE DEF w, Walks
  <2> QED BY <1>5, <1>6
<1> HIDE DEF w, Walks
<1> QED BY <1>7, <1>8 DEF IsWalk

(* Going forward in the list leads to a producer in the list. *)
LEMMA ForwardStaysIn ==
    ASSUME NEW S, NEW p \in S, NEW newest, NEW m \in Nat,
           \A q \in S : After(q, newest) \in S
    PROVE  Forward(p, m, newest) \in S
<1>1. PICK walk : IsWalk(walk, S, p, m, newest)
  BY ForwardIs
<1>2. walk[m] \in S /\ walk[m] = Forward(p, m, newest)
  BY <1>1 DEF IsWalk
<1> QED BY <1>2

SInv(rank, n) == IInv /\ Reuse(rank, n) /\ RotationTypeOK /\ Seeks(rank)

(* What the ranks say of the list. *)
LEMMA LinkedIsRanked ==
    ASSUME NEW rank \in [Producers -> Nat], NEW n \in Nat, TypeOK, Reuse(rank, n)
    PROVE  /\ \A p \in Linked : rank[p] > 0 /\ rank[p] <= n
           /\ RankOf(rank, producerListTail) = n /\ Listed(rank, producerListTail)
<1> USE ProducerListAssumption
<1>1. /\ producerListTail = None <=> n = 0
      /\ producerListTail # None => rank[producerListTail] = n
      /\ \A p \in Producers :
            /\ rank[p] <= n
            /\ rank[p] = 1 => next[p] = None
            /\ rank[p] > 1 => next[p] # None /\ rank[next[p]] = rank[p] - 1
  BY DEF Reuse, Ranked
<1>2. PICK set \in SUBSET Nodes : set = {p \in Producers : rank[p] > 0} \union {None}
  BY DEF Nodes
<1>3. producerListTail \in set
  BY <1>1, <1>2 DEF TypeOK, Nodes
<1>4. Closed(set)
  <2> SUFFICES ASSUME NEW p \in set \ {None} PROVE next[p] \in set
    BY DEF Closed
  <2>1. p \in Producers /\ rank[p] > 0 /\ rank[p] \in Nat /\ next[p] \in Nodes
    BY <1>2 DEF TypeOK
  <2>2. CASE rank[p] = 1
    BY <1>1, <1>2, <2>1, <2>2
  <2>3. CASE rank[p] > 1
    BY <1>1, <1>2, <2>1, <2>3 DEF Nodes
  <2> QED BY <2>1, <2>2, <2>3
<1>5. \A p \in Linked : p \in set /\ p \in Producers
  BY <1>3, <1>4 DEF Linked, From
<1>6. \A p \in Linked : rank[p] > 0
  BY <1>2, <1>5 DEF Producers
<1> QED BY <1>1, <1>5, <1>6 DEF RankOf, Listed

LEMMA NextIsRanked ==
    ASSUME NEW rank \in [Producers -> Nat], NEW n \in Nat, TypeOK, Reuse(rank, n),
           NEW p \in Producers, rank[p] > 0
    PROVE  /\ next[p] \in Nodes /\ Listed(rank, next[p]) /\ RankOf(rank, next[p]) = rank[p] - 1
           /\ p # None /\ rank[p] <= n
           /\ \A newest \in Producers :
                 rank[p] <= rank[newest] =>
                    /\ After(p, newest) \in Producers
                    /\ rank[After(p, newest)] = IF rank[p] = 1 THEN rank[newest] ELSE rank[p] - 1
<1> USE ProducerListAssumption
<1>1. /\ rank[p] <= n /\ rank[p] \in Nat /\ next[p] \in Nodes /\ p # None
      /\ rank[p] = 1 => next[p] = None
      /\ rank[p] > 1 => next[p] # None /\ rank[next[p]] = rank[p] - 1
  BY DEF Reuse, Ranked, TypeOK, Producers
<1>2. CASE rank[p] = 1
  BY <1>1, <1>2 DEF Listed, RankOf, After
<1>3. CASE rank[p] > 1
  BY <1>1, <1>3 DEF Listed, RankOf, After, Nodes
<1> QED BY <1>1, <1>2, <1>3

LEMMA SameRank ==
    ASSUME NEW rank \in [Producers -> Nat], NEW n \in Nat, Reuse(rank, n)
    PROVE  \A p, q \in Producers : rank[p] = rank[q] /\ rank[p] > 0 => p = q
BY DEF Reuse, Ranked

(* A step of one consumer. *)
LEMMA OneCall ==
    ASSUME NEW rank \in [Producers -> Nat], RotationTypeOK, Seeks(rank),
           NEW c \in Consumers, NEW k \in CallTypes, NEW h \in HeldTypes,
           call' = [call EXCEPT ![c] = k], held' = [held EXCEPT ![c] = h], Sought(rank, k, h),
           UNCHANGED <<listVars, cast, enqueued>>, globalExplicitConsumerOffset' \in Nat,
           size' \in [Producers -> Nat]
    PROVE  RotationTypeOK' /\ Seeks(rank)'
<1>1. /\ call \in [Consumers -> CallTypes] /\ held \in [Consumers -> HeldTypes]
      /\ \A d \in Consumers : Sought(rank, call[d], held[d])
  BY DEF RotationTypeOK, Seeks
<1>2. call' \in [Consumers -> CallTypes] /\ held' \in [Consumers -> HeldTypes]
  BY <1>1
<1>3. RotationTypeOK'
  BY <1>2 DEF RotationTypeOK, listVars
<1>4. ASSUME NEW d \in Consumers
      PROVE  Sought(rank, call'[d], held'[d])
  <2>1. CASE d = c
    <3>1. call'[d] = k /\ held'[d] = h
      BY <1>1, <2>1
    <3> QED BY <3>1
  <2>2. CASE d # c
    <3>1. call'[d] = call[d] /\ held'[d] = held[d]
      BY <1>1, <2>2
    <3> QED BY <1>1, <3>1
  <2> QED BY <2>1, <2>2
<1> QED BY <1>3, <1>4 DEF Seeks

LEMMA QuietCall ==
    ASSUME NEW rank \in [Producers -> Nat], RotationTypeOK, Seeks(rank),
           NEW c \in Consumers, NEW k \in CallTypes,
           Becomes(c, k), Sought(rank, k, held[c]),
           UNCHANGED <<listVars, cast, enqueued, held>>, globalExplicitConsumerOffset' \in Nat,
           size' \in [Producers -> Nat]
    PROVE  RotationTypeOK' /\ Seeks(rank)'
<1>1. held[c] \in HeldTypes /\ held' = [held EXCEPT ![c] = held[c]]
  BY DEF RotationTypeOK
<1>2. PICK h \in HeldTypes : h = held[c]
  BY <1>1
<1> QED BY <1>1, <1>2, OneCall DEF Becomes

LEMMA IdleIs ==
    /\ Idle \in CallTypes
    /\ Idle.pc = "idle" /\ Idle.ptr = None /\ Idle.tail = None /\ Idle.best = None
    /\ Idle.bestSize = 0 /\ Idle.nonEmptyCount = 0 /\ Idle.unasked = {}
BY DEF Idle, CallTypes, Nodes

(* A call that has asked all returns. *)
LEMMA ReturnIs ==
    ASSUME NEW rank \in [Producers -> Nat], RotationTypeOK, Seeks(rank), NEW c \in Consumers,
           NEW left, left = {}, Return(c, left)
    PROVE  /\ Idle \in CallTypes /\ Becomes(c, Idle) /\ Sought(rank, Idle, held[c])
<1>1. Sought(rank, call[c], held[c])
  BY DEF Seeks
<1>2. [Idle EXCEPT !.unasked = left] = Idle
  BY DEF Idle
<1>3. Sought(rank, Idle, held[c])
  BY <1>1, IdleIs DEF Sought, Listed
<1> QED BY <1>2, <1>3, IdleIs DEF Return

(* What is there to ask stays a natural number. *)
LEMMA AskIs ==
    ASSUME NEW rank \in [Producers -> Nat], NEW n \in Nat, SInv(rank, n), NEW c \in Consumers,
           NEW p \in Producers, NEW m \in Int, Ask(c, p, m)
    PROVE  /\ m \in Nat /\ call[c].max - m \in Nat /\ size' \in [Producers -> Nat]
           /\ UNCHANGED <<listVars, cast, enqueued>>
           /\ Unasked(c, p, m) \in SUBSET Producers /\ Unasked(c, p, m) \subseteq call[c].unasked
           /\ m # call[c].max => Unasked(c, p, m) = call[c].unasked \ {p}
<1>1. /\ size \in [Producers -> Nat] /\ call[c] \in CallTypes
  BY DEF SInv, RotationTypeOK
<1>2. call[c].max \in Nat /\ size[p] \in Nat /\ call[c].unasked \in SUBSET Producers
  BY <1>1 DEF CallTypes
<1>3. /\ m \in 0..Smaller(call[c].max, size[p]) /\ size' = [size EXCEPT ![p] = @ - m]
      /\ UNCHANGED <<listVars, cast, enqueued>>
  BY DEF Ask
<1>4. m \in Nat /\ m <= call[c].max /\ m <= size[p]
  BY <1>2, <1>3 DEF Smaller
<1>5. size' \in [Producers -> Nat] /\ call[c].max - m \in Nat
  BY <1>1, <1>2, <1>3, <1>4
<1> QED BY <1>2, <1>3, <1>4, <1>5 DEF Unasked

-------------------------------------------------------------------------------
LEMMA BeginStep ==
    ASSUME NEW rank \in [Producers -> Nat], NEW n \in Nat, SInv(rank, n), NEW c \in Consumers,
           NEW kind \in {"scan", "walk", "token", "bulk"},
           NEW pc \in {"scan", "walk", "rotate", "current"}, NEW max \in Nat,
           Begin(c, kind, pc, max), pc = "current" => held[c].desiredProducer # None
    PROVE  RotationTypeOK' /\ Seeks(rank)'
<1> USE ProducerListAssumption
<1>1. TypeOK /\ Reuse(rank, n) /\ RotationTypeOK /\ Seeks(rank) /\ Sought(rank, call[c], held[c])
  BY DEF SInv, IInv, Seeks
<1>2. /\ \A p \in Linked : rank[p] > 0 /\ rank[p] <= n
      /\ RankOf(rank, producerListTail) = n /\ Listed(rank, producerListTail)
      /\ Linked \in SUBSET Producers /\ producerListTail \in Nodes
  BY <1>1, LinkedIsRanked DEF Linked, From, TypeOK
<1>3. PICK k \in CallTypes :
         k = [Idle EXCEPT !.kind = kind, !.pc = pc, !.max = max,
                          !.ptr = IF pc \in {"scan", "walk"} THEN producerListTail ELSE None,
                          !.unasked = Linked]
  <2>1. PICK first \in Nodes : first = IF pc \in {"scan", "walk"} THEN producerListTail ELSE None
    BY <1>2 DEF Nodes
  <2>2. [Idle EXCEPT !.kind = kind, !.pc = pc, !.max = max, !.ptr = first, !.unasked = Linked]
          \in CallTypes
    BY <1>2, IdleIs DEF CallTypes
  <2> QED BY <2>1, <2>2
<1>4. /\ k.pc = pc /\ k.unasked = Linked /\ k.tail = None /\ k.best = None
      /\ k.bestSize = 0 /\ k.nonEmptyCount = 0
      /\ k.ptr = IF pc \in {"scan", "walk"} THEN producerListTail ELSE None
  BY <1>3 DEF Idle
<1>5. Sought(rank, k, held[c])
  <2>0. None \notin Producers
    BY DEF Producers
  <2>1. \A p \in k.unasked : p # k.best /\ rank[p] > 0 /\ rank[p] <= n
    BY <1>2, <1>4, <2>0
  <2>2. k.pc \in {"scan", "walk"} => RankOf(rank, k.ptr) = n
    BY <1>2, <1>4
  <2>3. Listed(rank, k.ptr) /\ Listed(rank, k.tail) /\ Listed(rank, k.best)
    BY <1>2, <1>4 DEF Listed
  <2> QED BY <1>1, <1>4, <2>1, <2>2, <2>3 DEF Sought
<1> QED BY <1>1, <1>3, <1>5, QuietCall DEF Begin, RotationTypeOK

LEMMA ScanStep ==
    ASSUME NEW rank \in [Producers -> Nat], NEW n \in Nat, SInv(rank, n), NEW c \in Consumers,
           Scan(c)
    PROVE  RotationTypeOK' /\ Seeks(rank)'
<1> USE ProducerListAssumption
<1>1. TypeOK /\ Reuse(rank, n) /\ RotationTypeOK /\ Seeks(rank) /\ Sought(rank, call[c], held[c])
  BY DEF SInv, IInv, Seeks
<1>2. call[c] \in CallTypes /\ call[c].pc = "scan" /\ call[c].ptr # None
  BY <1>1 DEF RotationTypeOK, Scan
<1>3. PICK p \in Producers : p = call[c].ptr /\ p # None
  BY <1>2 DEF CallTypes, Nodes
<1>4. rank[p] > 0 /\ size[p] \in Nat
  BY <1>1, <1>3 DEF Sought, Listed, RotationTypeOK
<1>5. next[p] \in Nodes /\ Listed(rank, next[p]) /\ RankOf(rank, next[p]) = rank[p] - 1
  BY <1>1, <1>4, NextIsRanked
<1> DEFINE more == size[p] > call[c].bestSize
<1>6. call[c].bestSize \in Nat
  BY <1>2 DEF CallTypes
<1>7. PICK k \in CallTypes :
         k = [call[c] EXCEPT !.ptr = next[@],
                             !.best = IF more THEN p ELSE @,
                             !.bestSize = IF more THEN size[p] ELSE @,
                             !.nonEmptyCount = IF size[p] > 0 THEN @ + 1 ELSE @,
                             !.unasked = IF size[p] > 0 THEN @ ELSE @ \ {p}]
  <2> DEFINE best == IF more THEN p ELSE call[c].best
             bestSize == IF more THEN size[p] ELSE call[c].bestSize
             count == IF size[p] > 0 THEN call[c].nonEmptyCount + 1 ELSE call[c].nonEmptyCount
             unasked == IF size[p] > 0 THEN call[c].unasked ELSE call[c].unasked \ {p}
  <2>1. best \in Nodes /\ bestSize \in Nat /\ count \in Nat /\ unasked \in SUBSET Producers
    BY <1>2, <1>4 DEF CallTypes, Nodes
  <2> HIDE DEF best, bestSize, count, unasked
  <2>2. [call[c] EXCEPT !.ptr = next[p], !.best = best, !.bestSize = bestSize,
                        !.nonEmptyCount = count, !.unasked = unasked] \in CallTypes
    BY <1>2, <1>5, <2>1 DEF CallTypes
  <2> QED BY <1>3, <2>2 DEF best, bestSize, count, unasked
<1>8. /\ k.pc = "scan" /\ k.ptr = next[p] /\ k.tail = call[c].tail
      /\ k.best = IF more THEN p ELSE call[c].best
      /\ k.bestSize = IF more THEN size[p] ELSE call[c].bestSize
      /\ k.nonEmptyCount = IF size[p] > 0 THEN call[c].nonEmptyCount + 1 ELSE call[c].nonEmptyCount
      /\ k.unasked = IF size[p] > 0 THEN call[c].unasked ELSE call[c].unasked \ {p}
  <2> DEFINE best == IF more THEN p ELSE call[c].best
             bestSize == IF more THEN size[p] ELSE call[c].bestSize
             count == IF size[p] > 0 THEN call[c].nonEmptyCount + 1 ELSE call[c].nonEmptyCount
             unasked == IF size[p] > 0 THEN call[c].unasked ELSE call[c].unasked \ {p}
  <2>1. k = [call[c] EXCEPT !.ptr = next[p], !.best = best, !.bestSize = bestSize,
                            !.nonEmptyCount = count, !.unasked = unasked]
    BY <1>3, <1>7
  <2> HIDE DEF best, bestSize, count, unasked
  <2>2. /\ k.pc = "scan" /\ k.ptr = next[p] /\ k.tail = call[c].tail
        /\ k.best = best /\ k.bestSize = bestSize /\ k.nonEmptyCount = count
        /\ k.unasked = unasked
    BY <1>2, <2>1 DEF CallTypes
  <2> QED BY <2>2 DEF best, bestSize, count, unasked
<1>9. /\ call[c].bestSize \in Nat /\ call[c].nonEmptyCount \in Nat
      /\ call[c].unasked \in SUBSET Producers
  BY <1>2 DEF CallTypes
<1>10. k.nonEmptyCount > 0 => k.bestSize > 0
  BY <1>1, <1>2, <1>4, <1>6, <1>8, <1>9 DEF Sought
<1>11. k.bestSize > 0 => k.best # None
  BY <1>1, <1>2, <1>3, <1>4, <1>6, <1>8, <1>9 DEF Sought
<1>12. k.nonEmptyCount = 0 => \A q \in k.unasked : rank[q] <= RankOf(rank, k.ptr)
  <2> SUFFICES ASSUME k.nonEmptyCount = 0, NEW q \in k.unasked
               PROVE  rank[q] <= rank[p] - 1
    BY <1>5, <1>8
  <2>1. /\ call[c].nonEmptyCount = 0 /\ q # p /\ q \in Producers /\ q \in call[c].unasked
    BY <1>4, <1>8, <1>9
  <2>2. rank[q] <= rank[p] /\ rank[q] > 0
    BY <1>1, <1>2, <1>3, <2>1 DEF Sought, RankOf
  <2>3. rank[q] # rank[p]
    BY <1>1, <1>4, <2>1, SameRank
  <2> QED BY <2>1, <2>2, <2>3
<1>13. Listed(rank, k.best) /\ \A q \in k.unasked : rank[q] > 0
  BY <1>1, <1>4, <1>8 DEF Sought, Listed
<1>14. Sought(rank, k, held[c])
  BY <1>1, <1>5, <1>8, <1>10, <1>11, <1>12, <1>13 DEF Sought
<1>15. Becomes(c, k) /\ UNCHANGED <<listVars, cast, size, enqueued>> /\ Unmoved
  BY <1>3, <1>6, <1>7 DEF Scan
<1> QED BY <1>1, <1>14, <1>15, QuietCall DEF Unmoved, RotationTypeOK

LEMMA ScanEndsStep ==
    ASSUME NEW rank \in [Producers -> Nat], NEW n \in Nat, SInv(rank, n), NEW c \in Consumers,
           ScanEnds(c)
    PROVE  RotationTypeOK' /\ Seeks(rank)'
<1> USE ProducerListAssumption
<1>1. TypeOK /\ Reuse(rank, n) /\ RotationTypeOK /\ Seeks(rank) /\ Sought(rank, call[c], held[c])
  BY DEF SInv, IInv, Seeks
<1>2. /\ call[c] \in CallTypes /\ call[c].pc = "scan"
      /\ call[c].ptr = None \/ call[c].nonEmptyCount = Enough
      /\ UNCHANGED <<listVars, cast, size, enqueued>> /\ Unmoved
  BY <1>1 DEF RotationTypeOK, ScanEnds
<1>3. CASE call[c].nonEmptyCount = 0
  <2>1. call[c].ptr = None
    BY <1>2, <1>3, ConsumerRotationAssumption
  <2>2. \A p \in call[c].unasked : rank[p] > 0 /\ rank[p] <= 0
    BY <1>1, <1>2, <1>3, <2>1 DEF Sought, RankOf
  <2>3. call[c].unasked = {}
    BY <1>2, <2>2 DEF CallTypes
  <2>4. Return(c, call[c].unasked)
    BY <1>3 DEF ScanEnds
  <2>5. Idle \in CallTypes /\ Becomes(c, Idle) /\ Sought(rank, Idle, held[c])
    BY <1>1, <2>3, <2>4, ReturnIs
  <2>6. PICK k \in CallTypes : k = Idle
    BY <2>5
  <2> QED BY <1>1, <1>2, <2>5, <2>6, QuietCall DEF Unmoved, RotationTypeOK
<1>4. CASE call[c].nonEmptyCount # 0
  <2>1. PICK k \in CallTypes : k = [call[c] EXCEPT !.pc = "best"]
    BY <1>2 DEF CallTypes
  <2>2. Becomes(c, k)
    BY <1>4, <2>1 DEF ScanEnds
  <2>3. /\ k.pc = "best" /\ k.ptr = call[c].ptr /\ k.tail = call[c].tail /\ k.best = call[c].best
        /\ k.unasked = call[c].unasked
    BY <1>2, <2>1 DEF CallTypes
  <2>4. k.best # None
    <3>1. call[c].nonEmptyCount \in Nat /\ call[c].bestSize \in Nat
      BY <1>2 DEF CallTypes
    <3> QED BY <1>1, <1>2, <1>4, <2>3, <3>1 DEF Sought
  <2>5. Sought(rank, k, held[c])
    BY <1>1, <2>3, <2>4 DEF Sought
  <2> QED BY <1>1, <1>2, <2>2, <2>5, QuietCall DEF Unmoved, RotationTypeOK
<1> QED BY <1>3, <1>4

LEMMA AskBestStep ==
    ASSUME NEW rank \in [Producers -> Nat], NEW n \in Nat, SInv(rank, n), NEW c \in Consumers,
           AskBest(c)
    PROVE  RotationTypeOK' /\ Seeks(rank)'
<1> USE ProducerListAssumption
<1>1. TypeOK /\ Reuse(rank, n) /\ RotationTypeOK /\ Seeks(rank) /\ Sought(rank, call[c], held[c])
  BY DEF SInv, IInv, Seeks
<1>2. call[c] \in CallTypes /\ call[c].pc = "best" /\ Unmoved
  BY <1>1 DEF RotationTypeOK, AskBest
<1>3. PICK p \in Producers : p = call[c].best /\ p # None
  BY <1>1, <1>2 DEF CallTypes, Nodes, Sought
<1>4. PICK m \in 0..1 :
         /\ Ask(c, p, m)
         /\ IF m = 1 THEN Return(c, {})
            ELSE Becomes(c, [call[c] EXCEPT !.pc = "rest", !.ptr = producerListTail,
                                            !.unasked = Unasked(c, p, m)])
  BY <1>3 DEF AskBest
<1>5. /\ size' \in [Producers -> Nat] /\ UNCHANGED <<listVars, cast, enqueued>>
      /\ Unasked(c, p, m) \in SUBSET Producers /\ Unasked(c, p, m) \subseteq call[c].unasked
      /\ m # call[c].max => Unasked(c, p, m) = call[c].unasked \ {p}
  BY <1>4, AskIs
<1>6. CASE m = 1
  <2>1. Idle \in CallTypes /\ Becomes(c, Idle) /\ Sought(rank, Idle, held[c])
    BY <1>1, <1>4, <1>6, ReturnIs
  <2>2. PICK k \in CallTypes : k = Idle
    BY <2>1
  <2> QED BY <1>1, <1>2, <1>5, <2>1, <2>2, QuietCall DEF Unmoved, RotationTypeOK
<1>7. CASE m # 1
  <2>1. PICK k \in CallTypes :
           k = [call[c] EXCEPT !.pc = "rest", !.ptr = producerListTail,
                               !.unasked = Unasked(c, p, m)]
    BY <1>1, <1>2, <1>5 DEF CallTypes, TypeOK
  <2>2. Becomes(c, k)
    BY <1>4, <1>7, <2>1
  <2>3. /\ k.pc = "rest" /\ k.ptr = producerListTail /\ k.tail = call[c].tail /\ k.best = p
        /\ k.unasked = Unasked(c, p, m)
    BY <1>2, <1>3, <2>1 DEF CallTypes
  <2>4. RankOf(rank, producerListTail) = n /\ Listed(rank, producerListTail)
    BY <1>1, LinkedIsRanked
  <2>5. \A q \in k.unasked : rank[q] > 0 /\ rank[q] <= n
    BY <1>1, <1>5, <2>3 DEF Sought, Reuse, Ranked
  <2>6. \A q \in k.unasked : q # p
    BY <1>5, <1>7, <2>3 DEF Unasked
  <2>7. Sought(rank, k, held[c])
    BY <1>1, <1>3, <2>3, <2>4, <2>5, <2>6 DEF Sought
  <2> QED BY <1>1, <1>2, <1>5, <2>2, <2>7, QuietCall DEF Unmoved, RotationTypeOK
<1> QED BY <1>6, <1>7

LEMMA SkipBestStep ==
    ASSUME NEW rank \in [Producers -> Nat], NEW n \in Nat, SInv(rank, n), NEW c \in Consumers,
           SkipBest(c)
    PROVE  RotationTypeOK' /\ Seeks(rank)'
<1> USE ProducerListAssumption
<1>1. TypeOK /\ Reuse(rank, n) /\ RotationTypeOK /\ Seeks(rank) /\ Sought(rank, call[c], held[c])
  BY DEF SInv, IInv, Seeks
<1>2. /\ call[c] \in CallTypes /\ call[c].pc = "rest" /\ call[c].ptr # None
      /\ call[c].ptr = call[c].best /\ UNCHANGED <<listVars, cast, size, enqueued>> /\ Unmoved
  BY <1>1 DEF RotationTypeOK, SkipBest
<1>3. PICK p \in Producers : p = call[c].ptr /\ p # None
  BY <1>2 DEF CallTypes, Nodes
<1>4. rank[p] > 0
  BY <1>1, <1>3 DEF Sought, Listed
<1>5. next[p] \in Nodes /\ Listed(rank, next[p]) /\ RankOf(rank, next[p]) = rank[p] - 1
  BY <1>1, <1>4, NextIsRanked
<1>6. PICK k \in CallTypes : k = [call[c] EXCEPT !.ptr = next[@]]
  BY <1>2, <1>3, <1>5 DEF CallTypes
<1>7. /\ k.pc = "rest" /\ k.ptr = next[p] /\ k.tail = call[c].tail /\ k.best = call[c].best
      /\ k.unasked = call[c].unasked /\ k.unasked \in SUBSET Producers
  BY <1>2, <1>3, <1>6 DEF CallTypes
<1>8. ASSUME NEW q \in k.unasked
      PROVE  rank[q] <= rank[p] - 1 /\ q # k.best
  <2>1. rank[q] <= rank[p] /\ q # p /\ rank[q] > 0
    BY <1>1, <1>2, <1>3, <1>7 DEF Sought, RankOf
  <2>2. rank[q] # rank[p] /\ q \in Producers
    BY <1>1, <1>4, <1>7, <2>1, SameRank
  <2> QED BY <1>2, <1>3, <1>7, <2>1, <2>2
<1>9. Sought(rank, k, held[c])
  BY <1>1, <1>2, <1>5, <1>7, <1>8 DEF Sought
<1> QED BY <1>1, <1>2, <1>6, <1>9, QuietCall DEF SkipBest, Unmoved, RotationTypeOK

LEMMA AskNextStep ==
    ASSUME NEW rank \in [Producers -> Nat], NEW n \in Nat, SInv(rank, n), NEW c \in Consumers,
           AskNext(c)
    PROVE  RotationTypeOK' /\ Seeks(rank)'
<1> USE ProducerListAssumption
<1>1. TypeOK /\ Reuse(rank, n) /\ RotationTypeOK /\ Seeks(rank) /\ Sought(rank, call[c], held[c])
  BY DEF SInv, IInv, Seeks
<1>2. /\ call[c] \in CallTypes /\ call[c].pc \in {"rest", "walk"} /\ call[c].ptr # None /\ Unmoved
      /\ call[c].max \in Nat
  BY <1>1 DEF RotationTypeOK, AskNext, CallTypes
<1>3. PICK p \in Producers : p = call[c].ptr /\ p # None
  BY <1>2 DEF CallTypes, Nodes
<1>4. rank[p] > 0
  BY <1>1, <1>3 DEF Sought, Listed
<1>5. next[p] \in Nodes /\ Listed(rank, next[p]) /\ RankOf(rank, next[p]) = rank[p] - 1
  BY <1>1, <1>4, NextIsRanked
<1>6. PICK m \in 0..call[c].max :
         /\ Ask(c, p, m)
         /\ IF m = call[c].max THEN Return(c, {})
            ELSE Becomes(c, [call[c] EXCEPT !.max = @ - m, !.ptr = next[@],
                                            !.unasked = Unasked(c, p, m)])
  BY <1>3 DEF AskNext
<1>7. /\ size' \in [Producers -> Nat] /\ UNCHANGED <<listVars, cast, enqueued>>
      /\ Unasked(c, p, m) \in SUBSET Producers /\ call[c].max - m \in Nat
      /\ m # call[c].max => Unasked(c, p, m) = call[c].unasked \ {p}
  BY <1>2, <1>6, AskIs
<1>8. CASE m = call[c].max
  <2>1. Idle \in CallTypes /\ Becomes(c, Idle) /\ Sought(rank, Idle, held[c])
    BY <1>1, <1>6, <1>8, ReturnIs
  <2>2. PICK k \in CallTypes : k = Idle
    BY <2>1
  <2> QED BY <1>1, <1>2, <1>7, <2>1, <2>2, QuietCall DEF Unmoved, RotationTypeOK
<1>9. CASE m # call[c].max
  <2>1. PICK k \in CallTypes :
           k = [call[c] EXCEPT !.max = @ - m, !.ptr = next[@], !.unasked = Unasked(c, p, m)]
    BY <1>2, <1>3, <1>5, <1>7 DEF CallTypes
  <2>2. Becomes(c, k)
    BY <1>6, <1>9, <2>1
  <2>3. /\ k.pc = call[c].pc /\ k.ptr = next[p] /\ k.tail = call[c].tail /\ k.best = call[c].best
        /\ k.unasked = call[c].unasked \ {p} /\ call[c].unasked \in SUBSET Producers
    BY <1>2, <1>3, <1>7, <1>9, <2>1 DEF CallTypes
  <2>4. ASSUME NEW q \in k.unasked
        PROVE  rank[q] <= rank[p] - 1 /\ q # k.best /\ rank[q] > 0
    <3>1. rank[q] <= rank[p] /\ q # p /\ rank[q] > 0 /\ q # k.best
      BY <1>1, <1>2, <1>3, <2>3 DEF Sought, RankOf
    <3>2. rank[q] # rank[p] /\ q \in Producers
      BY <1>1, <1>4, <2>3, <3>1, SameRank
    <3> QED BY <3>1, <3>2
  <2>5. Sought(rank, k, held[c])
    BY <1>1, <1>2, <1>5, <2>3, <2>4 DEF Sought
  <2> QED BY <1>1, <1>2, <1>7, <2>2, <2>5, QuietCall DEF Unmoved, RotationTypeOK
<1> QED BY <1>8, <1>9

LEMMA ListEndsStep ==
    ASSUME NEW rank \in [Producers -> Nat], NEW n \in Nat, SInv(rank, n), NEW c \in Consumers,
           ListEnds(c)
    PROVE  RotationTypeOK' /\ Seeks(rank)'
<1> USE ProducerListAssumption
<1>1. TypeOK /\ Reuse(rank, n) /\ RotationTypeOK /\ Seeks(rank) /\ Sought(rank, call[c], held[c])
  BY DEF SInv, IInv, Seeks
<1>2. /\ call[c] \in CallTypes /\ call[c].pc \in {"rest", "walk"} /\ call[c].ptr = None
      /\ UNCHANGED <<listVars, cast, size, enqueued>> /\ Unmoved /\ Return(c, call[c].unasked)
  BY <1>1 DEF RotationTypeOK, ListEnds
<1>3. \A p \in call[c].unasked : rank[p] > 0 /\ rank[p] <= 0
  BY <1>1, <1>2 DEF Sought, RankOf
<1>4. call[c].unasked = {}
  BY <1>2, <1>3 DEF CallTypes
<1>5. Idle \in CallTypes /\ Becomes(c, Idle) /\ Sought(rank, Idle, held[c])
  BY <1>1, <1>2, <1>4, ReturnIs
<1>6. PICK k \in CallTypes : k = Idle
  BY <1>5
<1> QED BY <1>1, <1>2, <1>5, <1>6, QuietCall DEF Unmoved, RotationTypeOK

-------------------------------------------------------------------------------
LEMMA LoadTailToRotateStep ==
    ASSUME NEW rank \in [Producers -> Nat], NEW n \in Nat, SInv(rank, n), NEW c \in Consumers,
           LoadTailToRotate(c)
    PROVE  RotationTypeOK' /\ Seeks(rank)'
<1> USE ProducerListAssumption
<1>1. TypeOK /\ Reuse(rank, n) /\ RotationTypeOK /\ Seeks(rank) /\ Sought(rank, call[c], held[c])
  BY DEF SInv, IInv, Seeks
<1>2. /\ call[c] \in CallTypes /\ held[c] \in HeldTypes /\ call[c].pc = "rotate"
      /\ UNCHANGED <<listVars, cast, size, enqueued>> /\ Unmoved
  BY <1>1 DEF RotationTypeOK, LoadTailToRotate
<1>3. CASE held[c].desiredProducer = None /\ producerListTail = None
  <2>1. Idle \in CallTypes /\ Becomes(c, Idle) /\ Sought(rank, Idle, held[c])
    BY <1>1, <1>3, ReturnIs DEF LoadTailToRotate
  <2>2. PICK k \in CallTypes : k = Idle
    BY <2>1
  <2> QED BY <1>1, <1>2, <2>1, <2>2, QuietCall DEF Unmoved, RotationTypeOK
<1>4. CASE ~(held[c].desiredProducer = None /\ producerListTail = None)
  <2>1. PICK k \in CallTypes : k = [call[c] EXCEPT !.pc = "move", !.tail = producerListTail]
    BY <1>1, <1>2 DEF CallTypes, TypeOK
  <2>2. Becomes(c, k)
    BY <1>4, <2>1 DEF LoadTailToRotate
  <2>3. /\ k.pc = "move" /\ k.tail = producerListTail /\ k.ptr = call[c].ptr
        /\ k.best = call[c].best /\ k.unasked = call[c].unasked
    BY <1>2, <2>1 DEF CallTypes
  <2>4. RankOf(rank, producerListTail) = n /\ Listed(rank, producerListTail)
    BY <1>1, LinkedIsRanked
  <2>5. held[c].desiredProducer # None =>
           /\ held[c].desiredProducer \in Producers
           /\ rank[held[c].desiredProducer] > 0 /\ rank[held[c].desiredProducer] <= n
    BY <1>1, <1>2 DEF Sought, Listed, HeldTypes, Nodes, Reuse, Ranked
  <2>6. producerListTail # None
    BY <1>4, <2>4, <2>5 DEF RankOf
  <2>7. Sought(rank, k, held[c])
    BY <1>1, <2>3, <2>4, <2>5, <2>6 DEF Sought, RankOf
  <2> QED BY <1>1, <1>2, <2>2, <2>7, QuietCall DEF Unmoved, RotationTypeOK
<1> QED BY <1>3, <1>4

(* Wherever it starts and however far it goes, the token ends up at a      *)
(* producer that is in the list. *)
LEMMA RotateStep ==
    ASSUME NEW rank \in [Producers -> Nat], NEW n \in Nat, SInv(rank, n), NEW c \in Consumers,
           Rotate(c)
    PROVE  RotationTypeOK' /\ Seeks(rank)'
<1> USE ProducerListAssumption
<1> DEFINE k == call[c]
           h == held[c]
           delta == (globalExplicitConsumerOffset - h.lastKnownGlobalOffset) % Modulus
           start == IF h.desiredProducer # None THEN h.desiredProducer
                    ELSE Forward(k.tail, producerCount - 1 - (h.initialOffset % producerCount), k.tail)
           desired == Forward(start, delta % producerCount, k.tail)
           many == IF h.producers \in {0, producerCount}
                      /\ producerCount = Cardinality(From(k.tail)) THEN producerCount ELSE -1
<1>1. TypeOK /\ Reuse(rank, n) /\ RotationTypeOK /\ Seeks(rank) /\ Sought(rank, k, h)
  BY DEF SInv, IInv, Seeks
<1>2. /\ k \in CallTypes /\ h \in HeldTypes /\ k.pc = "move"
      /\ call \in [Consumers -> CallTypes] /\ held \in [Consumers -> HeldTypes]
      /\ UNCHANGED <<listVars, cast, size, enqueued, globalExplicitConsumerOffset>>
  BY <1>1 DEF RotationTypeOK, Rotate
<1>3. PICK newest \in Producers : newest = k.tail /\ newest # None
  BY <1>1, <1>2 DEF Sought, CallTypes, Nodes
<1>4. rank[newest] > 0 /\ rank[newest] <= n
  BY <1>1, <1>3 DEF Sought, Listed, Reuse, Ranked
<1>5. PICK S \in SUBSET Producers : S = {p \in Producers : rank[p] > 0 /\ rank[p] <= rank[newest]}
  OBVIOUS
<1>6. newest \in S /\ \A p \in S : After(p, newest) \in S
  <2>1. newest \in S
    BY <1>4, <1>5
  <2>2. ASSUME NEW p \in S
        PROVE  After(p, newest) \in S
    <3>1. /\ After(p, newest) \in Producers
          /\ rank[After(p, newest)] = IF rank[p] = 1 THEN rank[newest] ELSE rank[p] - 1
          /\ rank[p] > 0 /\ rank[p] <= rank[newest] /\ rank[p] \in Nat
      BY <1>1, <1>5, NextIsRanked
    <3> QED BY <1>4, <1>5, <3>1
  <2> QED BY <2>1, <2>2
<1>7. producerCount \in Nat /\ producerCount > 0
  <2>1. IsFiniteSet(Adders) /\ Cardinality(Adders) \in Nat
    BY SomeTokens DEF Adders
  <2> QED BY <1>1, <1>4, <2>1 DEF RotationTypeOK, Reuse
<1>8. delta \in Nat
  <2>1. Modulus \in Nat /\ Modulus > 0
    BY <1>1, ConsumerRotationAssumption DEF RotationTypeOK
  <2>2. globalExplicitConsumerOffset - h.lastKnownGlobalOffset \in Int
    BY <1>1, <1>2 DEF RotationTypeOK, HeldTypes
  <2>3. delta \in 0..(Modulus - 1)
    BY <2>1, <2>2, ModIs
  <2> HIDE DEF delta
  <2> QED BY <2>1, <2>3
<1>9. start \in S
  <2>1. CASE h.desiredProducer # None
    BY <1>1, <1>2, <1>3, <1>5, <2>1 DEF Sought, Listed, HeldTypes, Nodes
  <2>2. CASE h.desiredProducer = None
    <3>1. h.initialOffset \in Int
      BY <1>2 DEF HeldTypes
    <3>2. h.initialOffset % producerCount \in 0..(producerCount - 1)
      BY <1>7, <3>1, ModIs
    <3>3. PICK m \in Nat : m = producerCount - 1 - (h.initialOffset % producerCount)
      BY <1>7, <3>2
    <3>4. Forward(newest, m, newest) \in S
      BY <1>6, ForwardStaysIn
    <3> QED BY <1>3, <2>2, <3>3, <3>4
  <2> QED BY <2>1, <2>2
<1>10. desired \in S
  <2>1. PICK m \in Nat : m = delta % producerCount
    <3> HIDE DEF delta
    <3>1. delta % producerCount \in 0..(producerCount - 1)
      BY <1>7, <1>8, ModIs
    <3> QED BY <1>7, <3>1
  <2>2. PICK s \in S : s = start
    BY <1>9
  <2>3. Forward(s, m, newest) \in S
    BY <1>6, ForwardStaysIn
  <2> HIDE DEF delta, start
  <2> QED BY <1>3, <2>1, <2>2, <2>3
<1>11. many \in Int
  BY <1>7
<1>12. held' = [held EXCEPT ![c] =
           [h EXCEPT !.desiredProducer = desired, !.currentProducer = desired,
                     !.lastKnownGlobalOffset = globalExplicitConsumerOffset,
                     !.itemsConsumedFromCurrent = 0, !.producers = many]]
  BY DEF Rotate
<1>13. Becomes(c, [k EXCEPT !.pc = "current", !.tail = None])
  BY DEF Rotate
<1> HIDE DEF delta, start, desired, many
<1>14. PICK g \in HeldTypes :
          g = [h EXCEPT !.desiredProducer = desired, !.currentProducer = desired,
                        !.lastKnownGlobalOffset = globalExplicitConsumerOffset,
                        !.itemsConsumedFromCurrent = 0, !.producers = many]
  BY <1>1, <1>2, <1>5, <1>10, <1>11 DEF HeldTypes, Nodes, RotationTypeOK
<1>15. PICK l \in CallTypes : l = [k EXCEPT !.pc = "current", !.tail = None]
  BY <1>2 DEF CallTypes, Nodes
<1>16. /\ l.pc = "current" /\ l.tail = None /\ l.ptr = k.ptr /\ l.best = k.best
       /\ l.unasked = k.unasked
       /\ g.currentProducer = desired /\ g.desiredProducer = desired
  BY <1>2, <1>14, <1>15 DEF CallTypes, HeldTypes
<1>17. desired # None /\ Listed(rank, desired)
  BY <1>5, <1>10 DEF Listed, Producers
<1>18. Sought(rank, l, g)
  BY <1>1, <1>16, <1>17 DEF Sought, Listed
<1> QED BY <1>1, <1>2, <1>12, <1>13, <1>14, <1>15, <1>18, OneCall DEF Becomes, RotationTypeOK

LEMMA IdleSought ==
    ASSUME NEW rank, NEW h, Listed(rank, h.currentProducer), Listed(rank, h.desiredProducer),
           h.desiredProducer # None => h.currentProducer # None
    PROVE  Sought(rank, Idle, h)
BY IdleIs DEF Sought, Listed

LEMMA AskCurrentStep ==
    ASSUME NEW rank \in [Producers -> Nat], NEW n \in Nat, SInv(rank, n), NEW c \in Consumers,
           AskCurrent(c)
    PROVE  RotationTypeOK' /\ Seeks(rank)'
<1> USE ProducerListAssumption
<1>1. TypeOK /\ Reuse(rank, n) /\ RotationTypeOK /\ Seeks(rank) /\ Sought(rank, call[c], held[c])
  BY DEF SInv, IInv, Seeks
<1>2. /\ call[c] \in CallTypes /\ call[c].pc = "current" /\ call[c].max \in Nat
      /\ held[c] \in HeldTypes /\ held \in [Consumers -> HeldTypes]
      /\ globalExplicitConsumerOffset \in Nat
  BY <1>1 DEF RotationTypeOK, AskCurrent, CallTypes
<1>3. PICK p \in Producers : p = held[c].currentProducer /\ p # None /\ rank[p] > 0
  BY <1>1, <1>2 DEF HeldTypes, Nodes, Sought, Listed
<1>4. PICK m \in 0..call[c].max :
         /\ Ask(c, p, m)
         /\ held' = [held EXCEPT ![c].itemsConsumedFromCurrent =
                                    held[c].itemsConsumedFromCurrent + m]
         /\ IF m = call[c].max
            THEN /\ Return(c, {})
                 /\ \/ globalExplicitConsumerOffset' = globalExplicitConsumerOffset + 1
                    \/ globalExplicitConsumerOffset' = globalExplicitConsumerOffset
            ELSE /\ Becomes(c, [call[c] EXCEPT !.pc = "turn", !.max = @ - m,
                                               !.unasked = Unasked(c, p, m)])
                 /\ UNCHANGED globalExplicitConsumerOffset
  BY <1>3 DEF AskCurrent
<1>5. /\ size' \in [Producers -> Nat] /\ UNCHANGED <<listVars, cast, enqueued>>
      /\ Unasked(c, p, m) \in SUBSET Producers /\ call[c].max - m \in Nat /\ m \in Nat
      /\ m # call[c].max => Unasked(c, p, m) = call[c].unasked \ {p}
  BY <1>2, <1>4, AskIs
<1>6. PICK g \in HeldTypes :
         g = [held[c] EXCEPT !.itemsConsumedFromCurrent = held[c].itemsConsumedFromCurrent + m]
  <2>1. PICK items \in Nat : items = held[c].itemsConsumedFromCurrent + m
    BY <1>2, <1>5 DEF HeldTypes
  <2>2. [held[c] EXCEPT !.itemsConsumedFromCurrent = items] \in HeldTypes
    BY <1>2 DEF HeldTypes
  <2> QED BY <2>1, <2>2
<1>7. held' = [held EXCEPT ![c] = g]
  BY <1>2, <1>4, <1>6
<1>8. g.currentProducer = p /\ g.desiredProducer = held[c].desiredProducer
  BY <1>2, <1>3, <1>6 DEF HeldTypes
<1>9. Listed(rank, g.currentProducer) /\ Listed(rank, g.desiredProducer) /\ g.currentProducer # None
  BY <1>1, <1>3, <1>8 DEF Sought, Listed
<1>10. globalExplicitConsumerOffset' \in Nat
  BY <1>2, <1>4
<1>11. CASE m = call[c].max
  <2>1. PICK k \in CallTypes : k = Idle
    BY IdleIs
  <2>2. Return(c, {}) /\ [Idle EXCEPT !.unasked = {}] = Idle
    BY <1>4, <1>11 DEF Idle
  <2>3. Becomes(c, k)
    BY <2>1, <2>2 DEF Return
  <2>4. Sought(rank, k, g)
    BY <1>9, <2>1, IdleSought
  <2> QED BY <1>1, <1>5, <1>7, <1>10, <2>3, <2>4, OneCall DEF Becomes
<1>12. CASE m # call[c].max
  <2>1. PICK k \in CallTypes :
           k = [call[c] EXCEPT !.pc = "turn", !.max = @ - m, !.unasked = Unasked(c, p, m)]
    BY <1>2, <1>5 DEF CallTypes
  <2>2. Becomes(c, k)
    BY <1>4, <1>12, <2>1
  <2>3. /\ k.pc = "turn" /\ k.ptr = call[c].ptr /\ k.tail = call[c].tail /\ k.best = call[c].best
        /\ k.unasked = call[c].unasked \ {p}
    BY <1>2, <1>5, <1>12, <2>1 DEF CallTypes
  <2>4. Sought(rank, k, g)
    BY <1>1, <1>8, <1>9, <2>3 DEF Sought
  <2> QED BY <1>1, <1>5, <1>7, <1>10, <2>2, <2>4, OneCall DEF Becomes
<1> QED BY <1>11, <1>12

LEMMA LoadTailToTurnStep ==
    ASSUME NEW rank \in [Producers -> Nat], NEW n \in Nat, SInv(rank, n), NEW c \in Consumers,
           LoadTailToTurn(c)
    PROVE  RotationTypeOK' /\ Seeks(rank)'
<1> USE ProducerListAssumption
<1>1. TypeOK /\ Reuse(rank, n) /\ RotationTypeOK /\ Seeks(rank) /\ Sought(rank, call[c], held[c])
  BY DEF SInv, IInv, Seeks
<1>2. /\ call[c] \in CallTypes /\ held[c] \in HeldTypes /\ call[c].pc = "turn"
      /\ UNCHANGED <<listVars, cast, size, enqueued>> /\ Unmoved
  BY <1>1 DEF RotationTypeOK, LoadTailToTurn
<1>3. PICK p \in Producers : p = held[c].currentProducer /\ p # None /\ rank[p] > 0
  BY <1>1, <1>2 DEF HeldTypes, Nodes, Sought, Listed
<1>4. rank[p] \in Nat /\ rank[p] <= n /\ p \notin call[c].unasked
  BY <1>1, <1>2, <1>3 DEF Reuse, Ranked, Sought
<1>5. PICK newest \in Producers : newest = producerListTail /\ newest # None /\ rank[newest] = n
  <2>1. RankOf(rank, producerListTail) = n /\ producerListTail \in Nodes
    BY <1>1, LinkedIsRanked DEF TypeOK
  <2> QED BY <1>3, <1>4, <2>1 DEF RankOf, Nodes
<1>6. PICK q \in Producers : q = After(p, newest)
  BY <1>1, <1>3, <1>4, <1>5, NextIsRanked
<1>7. rank[q] = (IF rank[p] = 1 THEN n ELSE rank[p] - 1) /\ rank[q] > 0 /\ rank[q] <= n /\ q # None
  <2>1. rank[q] = IF rank[p] = 1 THEN n ELSE rank[p] - 1
    BY <1>1, <1>3, <1>4, <1>5, <1>6, NextIsRanked
  <2>2. q # None
    BY DEF Producers
  <2> QED BY <1>3, <1>4, <2>1, <2>2
<1>8. PICK k \in CallTypes : k = [call[c] EXCEPT !.pc = "round", !.tail = newest, !.ptr = q]
  BY <1>2 DEF CallTypes, Nodes
<1>9. Becomes(c, k)
  BY <1>3, <1>5, <1>6, <1>8 DEF LoadTailToTurn
<1>10. /\ k.pc = "round" /\ k.ptr = q /\ k.tail = newest /\ k.best = call[c].best
       /\ k.unasked = call[c].unasked /\ k.unasked \in SUBSET Producers
  BY <1>2, <1>8 DEF CallTypes
<1>11. ASSUME NEW r \in k.unasked
       PROVE  rank[r] <= n /\ Ahead(rank[q], rank[p], rank[r])
  <2>1. r \in Producers /\ rank[r] > 0 /\ rank[r] \in Nat /\ rank[r] <= n
    BY <1>1, <1>10 DEF Sought, Reuse, Ranked
  <2>2. rank[r] # rank[p]
    BY <1>1, <1>4, <1>10, <2>1, SameRank
  <2> QED BY <1>3, <1>4, <1>7, <2>1, <2>2 DEF Ahead
<1>12. Listed(rank, k.ptr) /\ Listed(rank, k.tail)
  BY <1>3, <1>4, <1>5, <1>7, <1>10 DEF Listed
<1>13. Sought(rank, k, held[c])
  BY <1>1, <1>3, <1>4, <1>5, <1>7, <1>10, <1>11, <1>12 DEF Sought
<1> QED BY <1>1, <1>2, <1>9, <1>13, QuietCall DEF Unmoved, RotationTypeOK

LEMMA AskRoundStep ==
    ASSUME NEW rank \in [Producers -> Nat], NEW n \in Nat, SInv(rank, n), NEW c \in Consumers,
           AskRound(c)
    PROVE  RotationTypeOK' /\ Seeks(rank)'
<1> USE ProducerListAssumption
<1>1. TypeOK /\ Reuse(rank, n) /\ RotationTypeOK /\ Seeks(rank) /\ Sought(rank, call[c], held[c])
  BY DEF SInv, IInv, Seeks
<1>2. /\ call[c] \in CallTypes /\ call[c].pc = "round" /\ call[c].max \in Nat
      /\ held[c] \in HeldTypes /\ held \in [Consumers -> HeldTypes]
      /\ globalExplicitConsumerOffset' = globalExplicitConsumerOffset
      /\ globalExplicitConsumerOffset \in Nat
  BY <1>1 DEF RotationTypeOK, AskRound, CallTypes
<1>3. PICK p \in Producers : p = call[c].ptr /\ rank[p] > 0
  BY <1>1, <1>2 DEF CallTypes, Nodes, Sought, Listed
<1>4. PICK d \in Producers : d = held[c].currentProducer /\ rank[d] > 0
  BY <1>1, <1>2 DEF HeldTypes, Nodes, Sought, Listed
<1>5. PICK newest \in Producers : newest = call[c].tail /\ rank[p] <= rank[newest]
                                   /\ rank[d] <= rank[newest]
  BY <1>1, <1>2, <1>3, <1>4 DEF CallTypes, Nodes, Sought
<1>6. p # d /\ rank[p] # rank[d]
  <2>1. p # d
    BY <1>3, <1>4 DEF AskRound
  <2> QED BY <1>1, <1>3, <2>1, SameRank
<1>7. PICK q \in Producers : q = After(p, newest)
  BY <1>1, <1>3, <1>5, NextIsRanked
<1>8. /\ rank[q] = (IF rank[p] = 1 THEN rank[newest] ELSE rank[p] - 1)
      /\ rank[q] > 0 /\ rank[q] <= rank[newest]
  <2>1. rank[q] = IF rank[p] = 1 THEN rank[newest] ELSE rank[p] - 1
    BY <1>1, <1>3, <1>5, <1>7, NextIsRanked
  <2> QED BY <1>3, <1>5, <2>1
<1>9. PICK m \in 0..call[c].max :
         /\ Ask(c, p, m)
         /\ IF m = 0 THEN UNCHANGED held
            ELSE held' = [held EXCEPT ![c].currentProducer = p,
                                      ![c].itemsConsumedFromCurrent = m]
         /\ IF m = call[c].max THEN Return(c, {})
            ELSE Becomes(c, [call[c] EXCEPT !.max = @ - m, !.ptr = After(@, newest),
                                            !.unasked = Unasked(c, p, m)])
  BY <1>3, <1>5 DEF AskRound
<1>10. /\ size' \in [Producers -> Nat] /\ UNCHANGED <<listVars, cast, enqueued>>
       /\ Unasked(c, p, m) \in SUBSET Producers /\ call[c].max - m \in Nat /\ m \in Nat
       /\ m # call[c].max => Unasked(c, p, m) = call[c].unasked \ {p}
  BY <1>2, <1>9, AskIs
<1>11. PICK g \in HeldTypes :
          g = IF m = 0 THEN held[c]
              ELSE [held[c] EXCEPT !.currentProducer = p, !.itemsConsumedFromCurrent = m]
  BY <1>2, <1>10 DEF HeldTypes, Nodes
<1>12. held' = [held EXCEPT ![c] = g]
  BY <1>2, <1>9, <1>11
<1>13. /\ g.currentProducer = (IF m = 0 THEN d ELSE p)
       /\ g.desiredProducer = held[c].desiredProducer
  BY <1>2, <1>4, <1>11 DEF HeldTypes
<1>14. p # None /\ d # None /\ q # None /\ newest # None
  BY DEF Producers
<1>15. /\ Listed(rank, g.currentProducer) /\ Listed(rank, g.desiredProducer)
       /\ g.currentProducer # None
  BY <1>1, <1>3, <1>4, <1>13, <1>14 DEF Sought, Listed
<1>16. CASE m = call[c].max
  <2>1. PICK k \in CallTypes : k = Idle
    BY IdleIs
  <2>2. Return(c, {}) /\ [Idle EXCEPT !.unasked = {}] = Idle
    BY <1>9, <1>16 DEF Idle
  <2>3. Becomes(c, k)
    BY <2>1, <2>2 DEF Return
  <2>4. Sought(rank, k, g)
    BY <1>15, <2>1, IdleSought
  <2> QED BY <1>1, <1>2, <1>10, <1>12, <2>3, <2>4, OneCall DEF Becomes
<1>17. CASE m # call[c].max
  <2>1. PICK k \in CallTypes :
           k = [call[c] EXCEPT !.max = @ - m, !.ptr = q, !.unasked = Unasked(c, p, m)]
    BY <1>2, <1>10 DEF CallTypes, Nodes
  <2>2. Becomes(c, k)
    <3>1. [call[c] EXCEPT !.max = @ - m, !.ptr = After(@, newest), !.unasked = Unasked(c, p, m)] = k
      BY <1>3, <1>7, <2>1
    <3> QED BY <1>9, <1>17, <3>1
  <2>3. /\ k.pc = "round" /\ k.ptr = q /\ k.tail = newest /\ k.best = call[c].best
        /\ k.unasked = call[c].unasked \ {p} /\ call[c].unasked \in SUBSET Producers
    BY <1>2, <1>5, <1>10, <1>17, <2>1 DEF CallTypes
  <2>4. ASSUME NEW r \in k.unasked
        PROVE  /\ rank[r] > 0 /\ rank[r] <= rank[newest]
               /\ Ahead(rank[q], rank[g.currentProducer], rank[r])
    <3>1. /\ r \in Producers /\ rank[r] > 0 /\ rank[r] \in Nat /\ rank[r] <= rank[newest]
          /\ Ahead(rank[p], rank[d], rank[r]) /\ r # p
      BY <1>1, <1>2, <1>3, <1>4, <1>5, <2>3 DEF Sought
    <3>2. rank[r] # rank[p]
      BY <1>1, <1>3, <3>1, SameRank
    <3>3. CASE m = 0
      <4>1. g.currentProducer = d
        BY <1>13, <3>3
      <4>2. Ahead(rank[q], rank[d], rank[r])
        BY <1>3, <1>4, <1>5, <1>6, <1>8, <3>1, <3>2 DEF Ahead
      <4> QED BY <3>1, <4>1, <4>2
    <3>4. CASE m # 0
      <4>1. g.currentProducer = p
        BY <1>13, <3>4
      <4>2. Ahead(rank[q], rank[p], rank[r])
        BY <1>3, <1>4, <1>5, <1>6, <1>8, <3>1, <3>2 DEF Ahead
      <4> QED BY <3>1, <4>1, <4>2
    <3> QED BY <3>3, <3>4
  <2>5. rank[g.currentProducer] <= rank[newest]
    BY <1>5, <1>13
  <2>6. Listed(rank, k.ptr) /\ Listed(rank, k.tail)
    BY <1>3, <1>5, <1>8, <2>3 DEF Listed
  <2>7. Sought(rank, k, g)
    BY <1>1, <1>8, <1>14, <1>15, <2>3, <2>4, <2>5, <2>6 DEF Sought
  <2> QED BY <1>1, <1>2, <1>10, <1>12, <2>2, <2>7, OneCall DEF Becomes
<1> QED BY <1>16, <1>17

LEMMA RoundEndsStep ==
    ASSUME NEW rank \in [Producers -> Nat], NEW n \in Nat, SInv(rank, n), NEW c \in Consumers,
           RoundEnds(c)
    PROVE  RotationTypeOK' /\ Seeks(rank)'
<1> USE ProducerListAssumption
<1>1. TypeOK /\ Reuse(rank, n) /\ RotationTypeOK /\ Seeks(rank) /\ Sought(rank, call[c], held[c])
  BY DEF SInv, IInv, Seeks
<1>2. /\ call[c] \in CallTypes /\ call[c].pc = "round" /\ call[c].ptr = held[c].currentProducer
      /\ UNCHANGED <<listVars, cast, size, enqueued>> /\ Unmoved /\ Return(c, call[c].unasked)
  BY <1>1 DEF RotationTypeOK, RoundEnds
<1>3. PICK p \in Producers : p = call[c].ptr
  BY <1>1, <1>2 DEF CallTypes, Nodes, Sought
<1>4. \A r \in call[c].unasked : Ahead(rank[p], rank[p], rank[r]) /\ rank[r] \in Nat
  BY <1>1, <1>2, <1>3 DEF Sought, CallTypes
<1>5. call[c].unasked = {}
  BY <1>3, <1>4 DEF Ahead
<1>6. Idle \in CallTypes /\ Becomes(c, Idle) /\ Sought(rank, Idle, held[c])
  BY <1>1, <1>2, <1>5, ReturnIs
<1>7. PICK k \in CallTypes : k = Idle
  BY <1>6
<1> QED BY <1>1, <1>2, <1>6, <1>7, QuietCall DEF Unmoved, RotationTypeOK

-------------------------------------------------------------------------------
LEMMA EnqueueStep ==
    ASSUME NEW rank \in [Producers -> Nat], NEW n \in Nat, SInv(rank, n), NEW p \in Producers,
           Enqueue(p)
    PROVE  RotationTypeOK' /\ Seeks(rank)'
<1>1. RotationTypeOK /\ Seeks(rank)
  BY DEF SInv
<1>2. /\ UNCHANGED <<listVars, cast, globalExplicitConsumerOffset, held, call>>
      /\ size' = [size EXCEPT ![p] = @ + 1] /\ enqueued' = enqueued + 1
  BY DEF Enqueue
<1>3. size' \in [Producers -> Nat] /\ enqueued' \in Nat
  BY <1>1, <1>2 DEF RotationTypeOK
<1> QED BY <1>1, <1>2, <1>3 DEF RotationTypeOK, Seeks, listVars

LEMMA CallStep ==
    ASSUME NEW rank \in [Producers -> Nat], NEW n \in Nat, SInv(rank, n), NEW c \in Consumers,
           \/ Begin(c, "scan", "scan", 1)
           \/ \E m \in 1..MaxBatch : Begin(c, "walk", "walk", m)
           \/ BeginWithToken(c, "token", 1)
           \/ \E m \in 1..MaxBatch : BeginWithToken(c, "bulk", m)
           \/ Attempt(c)
    PROVE  RotationTypeOK' /\ Seeks(rank)'
<1>1. CASE Begin(c, "scan", "scan", 1)
  BY <1>1, BeginStep
<1>2. ASSUME NEW m \in 1..MaxBatch, Begin(c, "walk", "walk", m)
      PROVE  RotationTypeOK' /\ Seeks(rank)'
  <2>1. m \in Nat
    BY ConsumerRotationAssumption
  <2> QED BY <1>2, <2>1, BeginStep
<1>3. ASSUME NEW kind \in {"token", "bulk"}, NEW m \in Nat, BeginWithToken(c, kind, m)
      PROVE  RotationTypeOK' /\ Seeks(rank)'
  <2>1. PICK pc \in {"rotate", "current"} :
           /\ Begin(c, kind, pc, m)
           /\ pc = "current" => held[c].desiredProducer # None
    BY <1>3 DEF BeginWithToken
  <2> QED BY <2>1, BeginStep
<1>4. CASE BeginWithToken(c, "token", 1) \/ \E m \in 1..MaxBatch : BeginWithToken(c, "bulk", m)
  BY <1>3, <1>4, ConsumerRotationAssumption
<1>5. CASE Attempt(c)
  BY <1>5, ScanStep, ScanEndsStep, AskBestStep, SkipBestStep, AskNextStep, ListEndsStep,
     LoadTailToRotateStep, RotateStep, AskCurrentStep, LoadTailToTurnStep, AskRoundStep,
     RoundEndsStep DEF Attempt
<1> QED BY <1>1, <1>2, <1>4, <1>5

LEMMA CallLeavesList ==
    ASSUME NEW c \in Consumers,
           \/ Begin(c, "scan", "scan", 1)
           \/ \E m \in 1..MaxBatch : Begin(c, "walk", "walk", m)
           \/ BeginWithToken(c, "token", 1)
           \/ \E m \in 1..MaxBatch : BeginWithToken(c, "bulk", m)
           \/ Attempt(c)
    PROVE  UNCHANGED listVars
BY DEF Begin, BeginWithToken, Attempt, Scan, ScanEnds, AskBest, SkipBest, AskNext, ListEnds,
   LoadTailToRotate, Rotate, AskCurrent, LoadTailToTurn, AskRound, RoundEnds, Ask

(* Producers that are added to the list change nothing for a call. *)
LEMMA RanksKept ==
    ASSUME NEW rank \in [Producers -> Nat], NEW r \in [Producers -> Nat],
           RotationTypeOK, Seeks(rank), UNCHANGED <<call, held>>,
           \A p \in Producers : rank[p] > 0 => r[p] = rank[p]
    PROVE  Seeks(r)'
<1> USE ProducerListAssumption
<1> SUFFICES ASSUME NEW c \in Consumers PROVE Sought(r, call[c], held[c])
  BY DEF Seeks
<1> DEFINE k == call[c]
           h == held[c]
<1>1. k \in CallTypes /\ h \in HeldTypes /\ Sought(rank, k, h)
  BY DEF RotationTypeOK, Seeks
<1>2. /\ k.ptr \in Nodes /\ k.tail \in Nodes /\ k.best \in Nodes
      /\ h.currentProducer \in Nodes /\ h.desiredProducer \in Nodes
      /\ k.unasked \in SUBSET Producers
  BY <1>1 DEF CallTypes, HeldTypes
<1> HIDE DEF k, h
<1>3. ASSUME NEW p \in Nodes, Listed(rank, p)
      PROVE  Listed(r, p) /\ RankOf(r, p) = RankOf(rank, p) /\ (p # None => r[p] = rank[p])
  BY <1>3 DEF Listed, RankOf, Nodes
<1>4. /\ Listed(rank, k.ptr) /\ Listed(rank, k.tail) /\ Listed(rank, k.best)
      /\ Listed(rank, h.currentProducer) /\ Listed(rank, h.desiredProducer)
      /\ \A p \in k.unasked : rank[p] > 0
  BY <1>1 DEF Sought
<1>5. /\ Listed(r, k.ptr) /\ RankOf(r, k.ptr) = RankOf(rank, k.ptr)
      /\ k.ptr # None => r[k.ptr] = rank[k.ptr]
      /\ Listed(r, k.tail)
      /\ k.tail # None => r[k.tail] = rank[k.tail]
      /\ Listed(r, k.best)
      /\ Listed(r, h.currentProducer)
      /\ h.currentProducer # None => r[h.currentProducer] = rank[h.currentProducer]
      /\ Listed(r, h.desiredProducer)
      /\ h.desiredProducer # None => r[h.desiredProducer] = rank[h.desiredProducer]
  BY <1>2, <1>3, <1>4
<1>6. \A p \in k.unasked : r[p] = rank[p] /\ r[p] > 0
  BY <1>2, <1>4
<1>7. /\ h.desiredProducer # None => h.currentProducer # None
      /\ k.pc = "idle" => k.unasked = {}
      /\ k.pc = "scan" =>
            /\ k.nonEmptyCount > 0 => k.bestSize > 0
            /\ k.bestSize > 0 => k.best # None
            /\ k.nonEmptyCount = 0 => \A p \in k.unasked : r[p] <= RankOf(r, k.ptr)
      /\ k.pc = "best" => k.best # None
      /\ k.pc \in {"rest", "walk"} =>
            \A p \in k.unasked : r[p] <= RankOf(r, k.ptr) /\ p # k.best
  BY <1>1, <1>5, <1>6 DEF Sought
<1>8. /\ k.pc = "move" =>
            /\ k.tail # None
            /\ h.desiredProducer # None => r[h.desiredProducer] <= r[k.tail]
      /\ k.pc \in {"current", "turn", "round"} => h.currentProducer # None
      /\ k.pc = "turn" => h.currentProducer \notin k.unasked
  BY <1>1, <1>5 DEF Sought
<1>9. ASSUME k.pc = "round"
      PROVE  /\ k.tail # None /\ k.ptr # None
             /\ r[k.ptr] <= r[k.tail] /\ r[h.currentProducer] <= r[k.tail]
             /\ \A p \in k.unasked :
                   r[p] <= r[k.tail] /\ Ahead(r[k.ptr], r[h.currentProducer], r[p])
  <2>1. /\ k.tail # None /\ k.ptr # None /\ h.currentProducer # None
        /\ rank[k.ptr] <= rank[k.tail] /\ rank[h.currentProducer] <= rank[k.tail]
        /\ \A p \in k.unasked :
              rank[p] <= rank[k.tail] /\ Ahead(rank[k.ptr], rank[h.currentProducer], rank[p])
    BY <1>1, <1>9 DEF Sought
  <2>2. /\ r[k.ptr] = rank[k.ptr] /\ r[k.tail] = rank[k.tail]
        /\ r[h.currentProducer] = rank[h.currentProducer]
    BY <1>5, <2>1
  <2> QED BY <1>6, <2>1, <2>2
<1>10. Sought(r, k, h)
  BY <1>5, <1>6, <1>7, <1>8, <1>9 DEF Sought
<1> QED BY <1>10 DEF k, h

Counted == producerCount = created

LEMMA CountKept == Counted /\ [Next]_listVars => Counted'
BY DEF Counted, Next, TokenStep, Construct, Constructing, LoadTail, SeeInactive, PassOver, CreateFails,
   TakeOver, Create, Own, Destroy, Release, Move, Swap, DestroyQueue, Link, Look, Goto, listVars

(* Where a walk of m steps ends, by rank. *)
LEMMA ForwardRank ==
    ASSUME NEW rank \in [Producers -> Nat], NEW n \in Nat, TypeOK, Reuse(rank, n),
           NEW newest \in Producers, NEW p \in Producers, NEW m \in Nat,
           rank[p] > 0, rank[p] <= rank[newest]
    PROVE  /\ Forward(p, m, newest) \in Producers
           /\ rank[Forward(p, m, newest)] - 1 = (rank[p] - 1 - m) % rank[newest]
<1>1. PICK S \in SUBSET Producers : S = {q \in Producers : rank[q] > 0 /\ rank[q] <= rank[newest]}
  OBVIOUS
<1>2. PICK k \in Nat : k = rank[newest] /\ k > 0
  OBVIOUS
<1>3. \A q \in S : /\ After(q, newest) \in S
                   /\ rank[After(q, newest)] = IF rank[q] = 1 THEN k ELSE rank[q] - 1
  <2> SUFFICES ASSUME NEW q \in S
               PROVE  /\ After(q, newest) \in S
                      /\ rank[After(q, newest)] = IF rank[q] = 1 THEN k ELSE rank[q] - 1
    OBVIOUS
  <2>1. rank[q] > 0 /\ rank[q] <= rank[newest] /\ rank[q] \in Nat
    BY <1>1
  <2>2. /\ After(q, newest) \in Producers
        /\ rank[After(q, newest)] = IF rank[q] = 1 THEN rank[newest] ELSE rank[q] - 1
    BY <2>1, NextIsRanked
  <2> QED BY <1>1, <1>2, <2>1, <2>2
<1>4. p \in S
  BY <1>1
<1>5. PICK walk : IsWalk(walk, S, p, m, newest)
  BY <1>3, <1>4, ForwardIs
<1>6. /\ walk \in [0..m -> S] /\ walk[0] = p /\ walk[m] = Forward(p, m, newest)
      /\ \A j \in 1..m : walk[j] = After(walk[j - 1], newest)
  BY <1>5 DEF IsWalk
<1>7. \A j \in 0..m : rank[walk[j]] - 1 = (rank[p] - 1 - j) % k
  <2> DEFINE B == {j \in 0..m : rank[walk[j]] - 1 # (rank[p] - 1 - j) % k}
  <2>1. CASE B = {}
    BY <2>1
  <2>2. CASE B # {}
    <3>1. B \in SUBSET Nat
      OBVIOUS
    <3>2. PICK j \in B : \A i \in B : j <= i
      <4> HIDE DEF B
      <4> QED BY <2>2, <3>1, LeastNumber
    <3>3. j \in 0..m /\ j \in Nat
      BY <3>2
    <3>4. CASE j = 0
      <4>1. rank[p] - 1 \in 0..(k - 1)
        BY <1>2
      <4>2. PICK x \in 0..(k - 1) : x = rank[p] - 1
        BY <4>1
      <4>3. x % k = x
        BY <1>2, ModBelow
      <4> QED BY <1>6, <3>2, <3>4, <4>2, <4>3
    <3>5. CASE j # 0
      <4>1. j - 1 \in 0..m /\ j \in 1..m /\ j - 1 \notin B
        BY <3>2, <3>3, <3>5
      <4>2. PICK x \in Int : x = rank[p] - 1 - (j - 1)
        OBVIOUS
      <4>3. walk[j - 1] \in S /\ walk[j] = After(walk[j - 1], newest)
        BY <1>6, <4>1
      <4>4. rank[walk[j - 1]] - 1 = x % k
        BY <4>1, <4>2
      <4>5. /\ rank[walk[j - 1]] \in Nat
            /\ rank[walk[j]] = IF rank[walk[j - 1]] = 1 THEN k ELSE rank[walk[j - 1]] - 1
        BY <1>1, <1>3, <4>3
      <4>6. (x - 1) % k = IF x % k = 0 THEN k - 1 ELSE (x % k) - 1
        BY <1>2, ModStep
      <4>7. x % k \in 0..(k - 1)
        BY <1>2, ModIs
      <4>8. rank[walk[j]] - 1 = (x - 1) % k
        BY <1>2, <4>4, <4>5, <4>6, <4>7
      <4>9. x - 1 = rank[p] - 1 - j
        BY <3>3, <4>2
      <4> QED BY <3>2, <4>8, <4>9
    <3> QED BY <3>4, <3>5
  <2> QED BY <2>1, <2>2
<1>8. m \in 0..m /\ walk[m] \in S
  BY <1>6
<1> QED BY <1>1, <1>2, <1>6, <1>7, <1>8

LEMMA ProducersFinite == IsFiniteSet(Producers)
<1>1. MaxProducers \in Nat
  BY ProducerListAssumption
<1>2. IsFiniteSet(1..MaxProducers)
  BY <1>1, FS_Interval
<1> QED BY <1>2 DEF Producers

(* As many producers as its rank are in the list from a producer on. *)
LEMMA FromIsRanked ==
    ASSUME NEW rank \in [Producers -> Nat], NEW n \in Nat, TypeOK, Reuse(rank, n),
           NEW p \in Producers, rank[p] > 0
    PROVE  Cardinality(From(p)) = rank[p]
<1> USE ProducerListAssumption
<1>1. PICK k \in Nat : k = rank[p] /\ k > 0
  OBVIOUS
<1>2. None \notin Producers
  BY DEF Producers
<1>3. PICK set \in SUBSET Nodes :
         set = {q \in Producers : rank[q] > 0 /\ rank[q] <= k} \union {None}
  BY DEF Nodes
<1>4. p \in set /\ Closed(set)
  <2>1. ASSUME NEW q \in set \ {None}
        PROVE  next[q] \in set
    <3>1. q \in Producers /\ rank[q] > 0 /\ rank[q] <= k /\ rank[q] \in Nat
      BY <1>3, <2>1
    <3>2. /\ next[q] \in Nodes /\ Listed(rank, next[q]) /\ RankOf(rank, next[q]) = rank[q] - 1
      BY <3>1, NextIsRanked
    <3> QED BY <1>1, <1>3, <3>1, <3>2 DEF Nodes, Listed, RankOf
  <2> QED BY <1>1, <1>3, <2>1 DEF Closed
<1>5. /\ From(p) \in SUBSET Producers /\ p \in From(p)
      /\ \A q \in From(p) : rank[q] > 0 /\ rank[q] <= k
  <2>1. \A q \in From(p) : q \in Producers /\ q \in set
    BY <1>4 DEF From
  <2>2. p \in From(p)
    BY DEF From
  <2> QED BY <1>2, <1>3, <2>1, <2>2
<1>6. \A q \in From(p) : next[q] # None => next[q] \in From(p)
  <2> SUFFICES ASSUME NEW q \in From(p), next[q] # None
               PROVE  next[q] \in From(p)
    OBVIOUS
  <2>1. q \in Producers /\ q # None /\ next[q] \in Producers
    BY <1>2, <1>5 DEF TypeOK, Nodes
  <2>2. \A s \in SUBSET Nodes : p \in s /\ Closed(s) => next[q] \in s
    BY <2>1 DEF From, Closed
  <2> QED BY <2>1, <2>2 DEF From
<1>7. \A i \in 0..(k - 1) : \E q \in From(p) : rank[q] = k - i
  <2> DEFINE B == {i \in 0..(k - 1) : ~ \E q \in From(p) : rank[q] = k - i}
  <2>1. CASE B = {}
    BY <2>1
  <2>2. CASE B # {}
    <3>1. B \in SUBSET Nat
      OBVIOUS
    <3>2. PICK i \in B : \A j \in B : i <= j
      <4> HIDE DEF B
      <4> QED BY <2>2, <3>1, LeastNumber
    <3>3. i \in 0..(k - 1)
      BY <3>2
    <3>4. i # 0
      BY <1>1, <1>5, <3>2
    <3>5. i - 1 \in 0..(k - 1) /\ i - 1 \notin B
      BY <1>1, <3>2, <3>3, <3>4
    <3>6. PICK q \in From(p) : rank[q] = k - (i - 1)
      BY <3>5
    <3>7. q \in Producers /\ rank[q] > 1
      BY <1>5, <3>3, <3>6
    <3>8. next[q] # None /\ rank[next[q]] = k - i
      BY <3>3, <3>6, <3>7 DEF Reuse, Ranked
    <3>9. next[q] \in From(p)
      BY <1>6, <3>8
    <3> QED BY <3>2, <3>8, <3>9
  <2> QED BY <2>1, <2>2
<1>8. \A j \in 1..k : \E q \in From(p) : rank[q] = j
  <2> SUFFICES ASSUME NEW j \in 1..k PROVE \E q \in From(p) : rank[q] = j
    OBVIOUS
  <2>1. PICK i \in 0..(k - 1) : k - i = j
    <3>1. k - j \in 0..(k - 1) /\ k - (k - j) = j
      OBVIOUS
    <3> QED BY <3>1
  <2> QED BY <1>7, <2>1
<1> DEFINE f == [q \in From(p) |-> rank[q]]
<1>9. f \in Bijection(From(p), 1..k)
  <2>1. f \in [From(p) -> 1..k]
    BY <1>5
  <2>2. \A q, r \in From(p) : f[q] = f[r] => q = r
    BY <1>5, SameRank
  <2>3. \A j \in 1..k : \E q \in From(p) : f[q] = j
    BY <1>8
  <2> HIDE DEF f
  <2> QED BY <2>1, <2>2, <2>3, Fun_IsBij
<1>10. IsFiniteSet(From(p)) /\ IsFiniteSet(1..k) /\ Cardinality(1..k) = k
  <2>1. IsFiniteSet(1..k)
    BY FS_Interval
  <2>2. IsFiniteSet(From(p))
    BY <1>5, ProducersFinite, FS_Subset
  <2>3. Cardinality(1..k) = IF 1 > k THEN 0 ELSE k - 1 + 1
    BY FS_Interval
  <2> QED BY <1>1, <2>1, <2>2, <2>3
<1>11. ExistsBijection(From(p), 1..k)
  BY <1>9 DEF ExistsBijection
<1> QED BY <1>1, <1>10, <1>11, FS_Bijection

-------------------------------------------------------------------------------
(* A rotation has cost an element: there are fewer than elements enqueued. *)
OffsetBounded ==
    /\ globalExplicitConsumerOffset + Total(size) <= enqueued
    /\ enqueued <= cast.elements
    /\ \A c \in Consumers : call[c].pc # "idle" => call[c].max > 0

LEMMA AskTotal ==
    ASSUME RotationTypeOK, NEW c \in Consumers, NEW p \in Producers, NEW m \in Int, Ask(c, p, m)
    PROVE  /\ m \in Nat /\ m <= call[c].max /\ call[c].max \in Nat
           /\ Total(size) \in Nat /\ Total(size') \in Nat /\ Total(size') = Total(size) - m
<1>1. size \in [Producers -> Nat] /\ call[c].max \in Nat /\ size[p] \in Nat
  BY DEF RotationTypeOK, CallTypes
<1>2. m \in 0..Smaller(call[c].max, size[p]) /\ size' = [size EXCEPT ![p] = @ - m]
  BY DEF Ask
<1>3. m \in Nat /\ m <= call[c].max /\ m <= size[p]
  BY <1>1, <1>2 DEF Smaller
<1>4. /\ size' \in [Producers -> Nat] /\ size'[p] = size[p] - m
      /\ \A q \in Producers \ {p} : size'[q] = size[q]
  BY <1>1, <1>2, <1>3
<1>5. Total(size) \in Nat /\ Total(size') \in Nat
  BY <1>1, <1>4, ProducersFinite, UnitsFinite
<1>6. Total(size') = Total(size) - size[p] + size'[p]
  BY <1>1, <1>4, ProducersFinite, TotalChange
<1> QED BY <1>1, <1>3, <1>4, <1>5, <1>6

LEMMA AskBounded ==
    ASSUME RotationTypeOK, OffsetBounded, NEW c \in Consumers, NEW p \in Producers, NEW m \in Int,
           Ask(c, p, m), NEW k, Becomes(c, k), k.pc # "idle" => k.max > 0,
           \/ globalExplicitConsumerOffset' = globalExplicitConsumerOffset
           \/ globalExplicitConsumerOffset' = globalExplicitConsumerOffset + 1 /\ m > 0
    PROVE  OffsetBounded'
<1>1. m \in Nat /\ Total(size) \in Nat /\ Total(size') \in Nat /\ Total(size') = Total(size) - m
  BY AskTotal
<1>2. /\ call \in [Consumers -> CallTypes] /\ globalExplicitConsumerOffset \in Nat /\ enqueued \in Nat
      /\ enqueued' = enqueued /\ cast' = cast
  BY DEF RotationTypeOK, Ask
<1>3. \A d \in Consumers : call'[d].pc # "idle" => call'[d].max > 0
  BY <1>2 DEF Becomes, OffsetBounded
<1>4. globalExplicitConsumerOffset' + Total(size') <= enqueued
  BY <1>1, <1>2 DEF OffsetBounded
<1> QED BY <1>2, <1>3, <1>4 DEF OffsetBounded

LEMMA QuietBounded ==
    ASSUME RotationTypeOK, OffsetBounded, NEW c \in Consumers, NEW k, Becomes(c, k),
           k.pc # "idle" => k.max > 0,
           UNCHANGED <<cast, size, enqueued, globalExplicitConsumerOffset>>
    PROVE  OffsetBounded'
<1>1. call \in [Consumers -> CallTypes]
  BY DEF RotationTypeOK
<1>2. \A d \in Consumers : call'[d].pc # "idle" => call'[d].max > 0
  BY <1>1 DEF Becomes, OffsetBounded
<1> QED BY <1>2 DEF OffsetBounded

LEMMA BeginBounded ==
    ASSUME RotationTypeOK, OffsetBounded, NEW c \in Consumers, NEW kind, NEW pc, NEW max, max > 0,
           Begin(c, kind, pc, max)
    PROVE  OffsetBounded'
<1>1. PICK k : k = [Idle EXCEPT !.kind = kind, !.pc = pc, !.max = max,
                      !.ptr = IF pc \in {"scan", "walk"} THEN producerListTail ELSE None,
                      !.unasked = Linked]
  OBVIOUS
<1>2. k.max = max
  BY <1>1 DEF Idle
<1>3. Becomes(c, k) /\ UNCHANGED <<cast, size, enqueued, globalExplicitConsumerOffset>>
  BY <1>1 DEF Begin
<1> QED BY <1>2, <1>3, QuietBounded

(* Who goes on without asking wants as much as before. *)
LEMMA GoesOn ==
    ASSUME RotationTypeOK, NEW c \in Consumers,
           \/ Scan(c) \/ ScanEnds(c) \/ SkipBest(c) \/ ListEnds(c) \/ LoadTailToRotate(c) \/ Rotate(c)
           \/ LoadTailToTurn(c) \/ RoundEnds(c)
    PROVE  /\ UNCHANGED <<cast, size, enqueued, globalExplicitConsumerOffset>>
           /\ call[c].pc # "idle"
           /\ \E k : Becomes(c, k) /\ (k.pc = "idle" \/ k.max = call[c].max)
<1>1. call[c] \in CallTypes
  BY DEF RotationTypeOK
<1>2. ASSUME NEW left, Return(c, left)
      PROVE  \E k : Becomes(c, k) /\ (k.pc = "idle" \/ k.max = call[c].max)
  <2>1. [Idle EXCEPT !.unasked = left].pc = "idle"
    BY DEF Idle
  <2> QED BY <1>2, <2>1 DEF Return
<1>3. CASE Scan(c)
  <2>1. PICK k : /\ k = [call[c] EXCEPT !.ptr = k.ptr, !.best = k.best, !.bestSize = k.bestSize,
                                        !.nonEmptyCount = k.nonEmptyCount, !.unasked = k.unasked]
                 /\ Becomes(c, k)
    BY <1>1, <1>3 DEF Scan, CallTypes
  <2>2. k.max = call[c].max
    BY <1>1, <2>1 DEF CallTypes
  <2> QED BY <1>3, <2>1, <2>2 DEF Scan, Unmoved
<1>4. CASE ScanEnds(c)
  <2>1. [call[c] EXCEPT !.pc = "best"].max = call[c].max
    BY <1>1 DEF CallTypes
  <2> QED BY <1>2, <1>4, <2>1 DEF ScanEnds, Unmoved
<1>5. CASE SkipBest(c)
  <2>1. [call[c] EXCEPT !.ptr = next[@]].max = call[c].max
    BY <1>1 DEF CallTypes
  <2> QED BY <1>5, <2>1 DEF SkipBest, Unmoved
<1>6. CASE ListEnds(c) \/ RoundEnds(c)
  BY <1>2, <1>6 DEF ListEnds, RoundEnds, Unmoved
<1>7. CASE LoadTailToRotate(c)
  <2>1. [call[c] EXCEPT !.pc = "move", !.tail = producerListTail].max = call[c].max
    BY <1>1 DEF CallTypes
  <2> QED BY <1>2, <1>7, <2>1 DEF LoadTailToRotate, Unmoved
<1>8. CASE Rotate(c)
  <2>1. [call[c] EXCEPT !.pc = "current", !.tail = None].max = call[c].max
    BY <1>1 DEF CallTypes
  <2>2. /\ call[c].pc = "move" /\ Becomes(c, [call[c] EXCEPT !.pc = "current", !.tail = None])
        /\ UNCHANGED <<cast, size, enqueued, globalExplicitConsumerOffset>>
    BY <1>8 DEF Rotate
  <2> QED BY <2>1, <2>2
<1>9. CASE LoadTailToTurn(c)
  <2>1. [call[c] EXCEPT !.pc = "round", !.tail = producerListTail,
                        !.ptr = After(held[c].currentProducer, producerListTail)].max = call[c].max
    BY <1>1 DEF CallTypes
  <2> QED BY <1>9, <2>1 DEF LoadTailToTurn, Unmoved
<1> QED BY <1>3, <1>4, <1>5, <1>6, <1>7, <1>8, <1>9

LEMMA CallBounded ==
    ASSUME NEW rank \in [Producers -> Nat], NEW n \in Nat, SInv(rank, n), OffsetBounded,
           NEW c \in Consumers,
           \/ Begin(c, "scan", "scan", 1)
           \/ \E m \in 1..MaxBatch : Begin(c, "walk", "walk", m)
           \/ BeginWithToken(c, "token", 1)
           \/ \E m \in 1..MaxBatch : BeginWithToken(c, "bulk", m)
           \/ Attempt(c)
    PROVE  OffsetBounded'
<1> USE ProducerListAssumption
<1>1. RotationTypeOK /\ Sought(rank, call[c], held[c]) /\ call[c] \in CallTypes /\ held[c] \in HeldTypes
  BY DEF SInv, Seeks, RotationTypeOK
<1>2. CASE \/ Begin(c, "scan", "scan", 1)
           \/ \E m \in 1..MaxBatch : Begin(c, "walk", "walk", m)
           \/ BeginWithToken(c, "token", 1)
           \/ \E m \in 1..MaxBatch : BeginWithToken(c, "bulk", m)
  <2>1. \A m \in 1..MaxBatch : m > 0
    BY ConsumerRotationAssumption
  <2>2. PICK kind, pc, max : max > 0 /\ Begin(c, kind, pc, max)
    BY <1>2, <2>1 DEF BeginWithToken
  <2> QED BY <1>1, <2>2, BeginBounded
<1>3. CASE \/ Scan(c) \/ ScanEnds(c) \/ SkipBest(c) \/ ListEnds(c) \/ LoadTailToRotate(c) \/ Rotate(c)
           \/ LoadTailToTurn(c) \/ RoundEnds(c)
  <2>1. PICK k : Becomes(c, k) /\ (k.pc = "idle" \/ k.max = call[c].max)
    BY <1>1, <1>3, GoesOn
  <2>2. /\ UNCHANGED <<cast, size, enqueued, globalExplicitConsumerOffset>>
        /\ call[c].max > 0
    BY <1>1, <1>3, GoesOn DEF OffsetBounded
  <2> QED BY <1>1, <2>1, <2>2, QuietBounded
<1>4. ASSUME NEW left, Return(c, left)
      PROVE  \E k : Becomes(c, k) /\ k.pc = "idle"
  <2>1. [Idle EXCEPT !.unasked = left].pc = "idle"
    BY DEF Idle
  <2> QED BY <1>4, <2>1 DEF Return
<1>5. call[c].pc # "idle" => call[c].max > 0 /\ call[c].max \in Nat
  BY <1>1 DEF OffsetBounded, CallTypes
<1>6. CASE AskBest(c)
  <2>1. PICK p \in Producers : p = call[c].best
    BY <1>1, <1>6 DEF AskBest, CallTypes, Nodes, Sought
  <2>2. PICK m \in 0..1 : /\ Ask(c, p, m)
                          /\ \/ Return(c, {})
                             \/ Becomes(c, [call[c] EXCEPT !.pc = "rest", !.ptr = producerListTail,
                                                           !.unasked = Unasked(c, p, m)])
    BY <1>6, <2>1 DEF AskBest
  <2>3. [call[c] EXCEPT !.pc = "rest", !.ptr = producerListTail,
                        !.unasked = Unasked(c, p, m)].max = call[c].max
    BY <1>1 DEF CallTypes
  <2>4. PICK k : Becomes(c, k) /\ (k.pc # "idle" => k.max > 0)
    BY <1>4, <1>5, <1>6, <2>2, <2>3 DEF AskBest
  <2>5. globalExplicitConsumerOffset' = globalExplicitConsumerOffset
    BY <1>6 DEF AskBest, Unmoved
  <2> QED BY <1>1, <2>2, <2>4, <2>5, AskBounded
<1>7. CASE AskNext(c)
  <2>1. PICK p \in Producers : p = call[c].ptr
    BY <1>1, <1>7 DEF AskNext, CallTypes, Nodes
  <2>2. PICK m \in 0..call[c].max :
           /\ Ask(c, p, m)
           /\ IF m = call[c].max THEN Return(c, {})
              ELSE Becomes(c, [call[c] EXCEPT !.max = @ - m, !.ptr = next[@],
                                              !.unasked = Unasked(c, p, m)])
    BY <1>7, <2>1 DEF AskNext
  <2>3. [call[c] EXCEPT !.max = @ - m, !.ptr = next[@],
                        !.unasked = Unasked(c, p, m)].max = call[c].max - m
    BY <1>1 DEF CallTypes
  <2>4. m # call[c].max => call[c].max - m > 0
    BY <1>5, <1>7 DEF AskNext
  <2>5. PICK k : Becomes(c, k) /\ (k.pc # "idle" => k.max > 0)
    BY <1>4, <2>2, <2>3, <2>4
  <2>6. globalExplicitConsumerOffset' = globalExplicitConsumerOffset
    BY <1>7 DEF AskNext, Unmoved
  <2> QED BY <1>1, <2>2, <2>5, <2>6, AskBounded
<1>8. CASE AskCurrent(c)
  <2>1. PICK p \in Producers : p = held[c].currentProducer
    BY <1>1, <1>8 DEF AskCurrent, HeldTypes, Nodes, Sought
  <2>2. PICK m \in 0..call[c].max :
           /\ Ask(c, p, m)
           /\ IF m = call[c].max
              THEN /\ Return(c, {})
                   /\ \/ globalExplicitConsumerOffset' = globalExplicitConsumerOffset + 1
                      \/ globalExplicitConsumerOffset' = globalExplicitConsumerOffset
              ELSE /\ Becomes(c, [call[c] EXCEPT !.pc = "turn", !.max = @ - m,
                                                 !.unasked = Unasked(c, p, m)])
                   /\ UNCHANGED globalExplicitConsumerOffset
    BY <1>8, <2>1 DEF AskCurrent
  <2>3. [call[c] EXCEPT !.pc = "turn", !.max = @ - m,
                        !.unasked = Unasked(c, p, m)].max = call[c].max - m
    BY <1>1 DEF CallTypes
  <2>4. call[c].max > 0 /\ call[c].max \in Nat
    BY <1>5, <1>8 DEF AskCurrent
  <2>5. m # call[c].max => call[c].max - m > 0
    BY <2>4
  <2>6. PICK k : Becomes(c, k) /\ (k.pc # "idle" => k.max > 0)
    BY <1>4, <2>2, <2>3, <2>5
  <2>7. \/ globalExplicitConsumerOffset' = globalExplicitConsumerOffset
        \/ globalExplicitConsumerOffset' = globalExplicitConsumerOffset + 1 /\ m > 0
    BY <2>2, <2>4
  <2> QED BY <1>1, <2>2, <2>6, <2>7, AskBounded
<1>9. CASE AskRound(c)
  <2>1. PICK p \in Producers : p = call[c].ptr
    BY <1>1, <1>9 DEF AskRound, CallTypes, Nodes, Sought
  <2>2. PICK m \in 0..call[c].max :
           /\ Ask(c, p, m)
           /\ IF m = call[c].max THEN Return(c, {})
              ELSE Becomes(c, [call[c] EXCEPT !.max = @ - m, !.ptr = After(@, call[c].tail),
                                              !.unasked = Unasked(c, p, m)])
    BY <1>9, <2>1 DEF AskRound
  <2>3. [call[c] EXCEPT !.max = @ - m, !.ptr = After(@, call[c].tail),
                        !.unasked = Unasked(c, p, m)].max = call[c].max - m
    BY <1>1 DEF CallTypes
  <2>4. m # call[c].max => call[c].max - m > 0
    BY <1>5, <1>9 DEF AskRound
  <2>5. PICK k : Becomes(c, k) /\ (k.pc # "idle" => k.max > 0)
    BY <1>4, <2>2, <2>3, <2>4
  <2>6. globalExplicitConsumerOffset' = globalExplicitConsumerOffset
    BY <1>9 DEF AskRound
  <2> QED BY <1>1, <2>2, <2>5, <2>6, AskBounded
<1> QED BY <1>2, <1>3, <1>6, <1>7, <1>8, <1>9 DEF Attempt

LEMMA EnqueueBounded ==
    ASSUME RotationTypeOK, OffsetBounded, NEW p \in Producers, Enqueue(p)
    PROVE  OffsetBounded'
<1>1. /\ size \in [Producers -> Nat] /\ enqueued \in Nat /\ globalExplicitConsumerOffset \in Nat
      /\ cast.elements \in Nat
  BY ConsumerRotationAssumption DEF RotationTypeOK
<1>2. /\ size' = [size EXCEPT ![p] = @ + 1] /\ enqueued' = enqueued + 1 /\ enqueued < cast.elements
      /\ UNCHANGED <<cast, globalExplicitConsumerOffset, call>>
  BY DEF Enqueue
<1>3. /\ size' \in [Producers -> Nat] /\ size'[p] = size[p] + 1 /\ size[p] \in Nat
      /\ \A q \in Producers \ {p} : size'[q] = size[q]
  BY <1>1, <1>2
<1>4. Total(size) \in Nat /\ Total(size') \in Nat
  BY <1>1, <1>3, ProducersFinite, UnitsFinite
<1>5. Total(size') = Total(size) - size[p] + size'[p]
  BY <1>1, <1>3, ProducersFinite, TotalChange
<1>6. globalExplicitConsumerOffset' + Total(size') <= enqueued' /\ enqueued' <= cast'.elements
  BY <1>1, <1>2, <1>3, <1>4, <1>5 DEF OffsetBounded
<1> QED BY <1>2, <1>6 DEF OffsetBounded

LEMMA InitBounded == RotationInit => OffsetBounded
<1> SUFFICES ASSUME RotationInit PROVE OffsetBounded
  OBVIOUS
<1>1. size \in [Producers -> Nat] /\ \A p \in Producers : size[p] = 0
  BY DEF RotationInit
<1>2. Total(size) = 0
  BY <1>1, ProducersFinite, TotalZero
<1>3. enqueued = 0 /\ globalExplicitConsumerOffset = 0 /\ cast.elements \in Nat
  BY ConsumerRotationAssumption DEF RotationInit
<1>4. \A c \in Consumers : call[c].pc = "idle"
  BY IdleIs DEF RotationInit
<1> QED BY <1>2, <1>3, <1>4 DEF OffsetBounded

-------------------------------------------------------------------------------
(* A token that has always seen the same number of producers is by its     *)
(* number, less a place for each rotation it knows of, as far up the ring. *)
PlaceOf(rank, h, offset) ==
    /\ h.initialOffset \in Nat
    /\ h.desiredProducer = None => h.producers = 0 /\ h.lastKnownGlobalOffset = Modulus - 1
    /\ h.desiredProducer # None =>
          /\ h.producers # 0
          /\ h.lastKnownGlobalOffset <= offset
          /\ h.producers > 0 =>
                rank[h.desiredProducer] - 1 =
                   (h.initialOffset - h.lastKnownGlobalOffset - 1) % h.producers

Spaced(rank) == \A c \in Consumers : PlaceOf(rank, held[c], globalExplicitConsumerOffset)

SamePlace(g, h) ==
    /\ g.initialOffset = h.initialOffset /\ g.desiredProducer = h.desiredProducer
    /\ g.lastKnownGlobalOffset = h.lastKnownGlobalOffset /\ g.producers = h.producers

LEMMA PlaceKept ==
    ASSUME NEW rank \in [Producers -> Nat], NEW r \in [Producers -> Nat],
           \A p \in Producers : rank[p] > 0 => r[p] = rank[p],
           NEW g \in HeldTypes, NEW h \in HeldTypes, SamePlace(g, h),
           NEW i \in Nat, NEW j \in Nat, i <= j,
           PlaceOf(rank, h, i), Listed(rank, h.desiredProducer)
    PROVE  PlaceOf(r, g, j)
<1>1. h.desiredProducer # None => r[h.desiredProducer] = rank[h.desiredProducer]
  BY DEF Listed, HeldTypes, Nodes
<1>2. h.lastKnownGlobalOffset \in Nat
  BY DEF HeldTypes
<1>3. h.lastKnownGlobalOffset <= i => h.lastKnownGlobalOffset <= j
  BY <1>2
<1> QED BY <1>1, <1>3 DEF PlaceOf, SamePlace

(* The first rotation puts it where its number says, each further one      *)
(* moves it on by as many as there have been since. *)
LEMMA RotatePlace ==
    ASSUME NEW rank \in [Producers -> Nat], NEW n \in Nat, SInv(rank, n), OffsetBounded, Spaced(rank),
           NEW c \in Consumers, Rotate(c)
    PROVE  PlaceOf(rank, held'[c], globalExplicitConsumerOffset)
<1> DEFINE k == call[c]
           h == held[c]
           offset == globalExplicitConsumerOffset
           delta == (offset - h.lastKnownGlobalOffset) % Modulus
           start == IF h.desiredProducer # None THEN h.desiredProducer
                    ELSE Forward(k.tail, producerCount - 1 - (h.initialOffset % producerCount), k.tail)
           desired == Forward(start, delta % producerCount, k.tail)
           many == IF h.producers \in {0, producerCount}
                      /\ producerCount = Cardinality(From(k.tail)) THEN producerCount ELSE -1
<1>1. TypeOK /\ Reuse(rank, n) /\ RotationTypeOK /\ Sought(rank, k, h) /\ PlaceOf(rank, h, offset)
  BY DEF SInv, IInv, Seeks, Spaced
<1>2. /\ k \in CallTypes /\ h \in HeldTypes /\ k.pc = "move" /\ offset \in Nat
      /\ held \in [Consumers -> HeldTypes]
  BY <1>1 DEF RotationTypeOK, Rotate
<1>3. held' = [held EXCEPT ![c] =
           [h EXCEPT !.desiredProducer = desired, !.currentProducer = desired,
                     !.lastKnownGlobalOffset = offset,
                     !.itemsConsumedFromCurrent = 0, !.producers = many]]
  BY DEF Rotate
<1>4. PICK newest \in Producers : newest = k.tail /\ rank[newest] > 0 /\ rank[newest] <= n
  BY <1>1, <1>2 DEF Sought, CallTypes, Nodes, Listed, Reuse, Ranked
<1>5. PICK count \in Nat : count = producerCount /\ count > 0
  <2>1. Cardinality(Adders) \in Nat
    BY SomeTokens DEF Adders
  <2> QED BY <1>1, <1>4, <2>1 DEF RotationTypeOK, Reuse
<1>6. PICK i \in Nat, l \in Nat, d \in Nodes, m \in Int :
         /\ i = h.initialOffset /\ l = h.lastKnownGlobalOffset
         /\ d = h.desiredProducer /\ m = h.producers
  BY <1>1, <1>2 DEF HeldTypes, PlaceOf
<1>7. Modulus \in Nat /\ Modulus > 0 /\ offset + 1 < Modulus
  <2>1. /\ cast.elements + 1 < Modulus /\ cast.elements \in Nat /\ Modulus \in Nat
        /\ enqueued \in Nat
    BY <1>1, ConsumerRotationAssumption DEF RotationTypeOK
  <2>2. Total(size) \in Nat
    BY <1>1, ProducersFinite, UnitsFinite DEF RotationTypeOK
  <2> QED BY <1>2, <2>1, <2>2 DEF OffsetBounded
<1>8. PICK rotations \in Nat : rotations = delta
  <2>1. PICK x \in Int : x = offset - l
    BY <1>2, <1>6
  <2>2. x % Modulus \in 0..(Modulus - 1)
    BY <1>7, <2>1, ModIs
  <2> QED BY <1>6, <2>1, <2>2
<1>9. IF d = None THEN l = Modulus - 1 /\ rotations = offset + 1 ELSE rotations = offset - l
  <2>1. CASE d = None
    <3>1. l = Modulus - 1
      BY <1>1, <1>6, <2>1 DEF PlaceOf
    <3>2. PICK x \in Int : x = offset - l
      BY <1>2, <1>6
    <3>3. x = Modulus * (-1) + (offset + 1) /\ offset + 1 \in 0..(Modulus - 1)
      BY <1>2, <1>7, <3>1, <3>2
    <3>4. x % Modulus = offset + 1
      BY <1>7, <3>3, ModUnique
    <3> QED BY <1>6, <1>8, <2>1, <3>1, <3>2, <3>4
  <2>2. CASE d # None
    <3>1. l <= offset
      BY <1>1, <1>6, <2>2 DEF PlaceOf
    <3>2. PICK x \in 0..(Modulus - 1) : x = offset - l
      BY <1>2, <1>6, <1>7, <3>1
    <3>3. x % Modulus = x
      BY <1>7, <3>2, ModBelow
    <3> QED BY <1>6, <1>8, <2>2, <3>2, <3>3
  <2> QED BY <2>1, <2>2
<1>10. PICK steps \in 0..(count - 1) : steps = rotations % count
  BY <1>5, ModIs
<1> HIDE DEF delta
<1>11. PICK first \in Producers :
          /\ first = start /\ rank[first] > 0 /\ rank[first] <= rank[newest]
          /\ IF d # None THEN first = d
             ELSE count = rank[newest] => rank[first] - 1 = i % count
  <2>1. CASE d # None
    BY <1>1, <1>2, <1>4, <1>6, <2>1 DEF Sought, Listed, Nodes
  <2>2. CASE d = None
    <3>1. PICK j \in 0..(count - 1) : j = i % count
      BY <1>5, <1>6, ModIs
    <3>2. PICK back \in Nat : back = count - 1 - j
      BY <1>5, <3>1
    <3>3. PICK x \in Int : x = rank[newest] - 1 - back
      OBVIOUS
    <3>4. PICK top \in Nat : top = rank[newest] /\ top > 0
      BY <1>4
    <3>5. PICK p \in Producers : p = Forward(newest, back, newest) /\ rank[p] - 1 = x % top
      BY <1>1, <1>4, <3>3, <3>4, ForwardRank
    <3>6. x % top \in 0..(top - 1)
      BY <3>4, ModIs
    <3>7. count = top => x = j /\ x % top = x
      <4>1. count = top => x = j
        BY <3>2, <3>3, <3>4
      <4> QED BY <3>1, <3>4, <4>1, ModBelow
    <3>8. p = start
      BY <1>4, <1>5, <1>6, <2>2, <3>1, <3>2, <3>5
    <3> HIDE DEF start
    <3> QED BY <2>2, <3>1, <3>4, <3>5, <3>6, <3>7, <3>8
  <2> QED BY <2>1, <2>2
<1>12. PICK last \in Producers :
          /\ last = desired
          /\ rank[last] - 1 = (rank[first] - 1 - steps) % rank[newest]
  <2>1. desired = Forward(first, steps, newest)
    BY <1>4, <1>5, <1>8, <1>10, <1>11
  <2> HIDE DEF desired
  <2>2. PICK s \in Nat : s = steps
    OBVIOUS
  <2>3. /\ Forward(first, s, newest) \in Producers
        /\ rank[Forward(first, s, newest)] - 1 = (rank[first] - 1 - s) % rank[newest]
    <3>1. TypeOK /\ Reuse(rank, n) /\ rank[first] > 0 /\ rank[first] <= rank[newest]
      BY <1>1, <1>11
    <3> HIDE DEF k, h, offset, start, many
    <3> QED BY <3>1, ForwardRank
  <2> QED BY <2>1, <2>2, <2>3
<1>13. many \in Int /\ many # 0 /\ (many > 0 => many = count /\ m \in {0, count} /\ count = rank[newest])
  <2>1. Cardinality(From(newest)) = rank[newest]
    BY <1>1, <1>4, FromIsRanked
  <2> QED BY <1>4, <1>5, <1>6, <2>1
<1>14. many > 0 => rank[last] - 1 = (i - offset - 1) % many
  <2> HIDE DEF many
  <2> SUFFICES ASSUME many > 0 PROVE rank[last] - 1 = (i - offset - 1) % count
    BY <1>13
  <2>1. count = rank[newest] /\ m \in {0, count}
    BY <1>13
  <2>2. PICK y \in Int : y = IF d = None THEN i ELSE i - l - 1
    BY <1>6
  <2>3. rank[first] - 1 = y % count
    <3>1. CASE d = None
      BY <1>11, <2>1, <2>2, <3>1
    <3>2. CASE d # None
      <4>1. /\ m # 0 /\ m > 0 => rank[d] - 1 = (i - l - 1) % m
        BY <1>1, <1>6, <3>2 DEF PlaceOf
      <4>2. m = count
        BY <1>1, <1>6, <2>1, <3>2 DEF PlaceOf
      <4>3. rank[d] - 1 = (i - l - 1) % m
        BY <1>1, <1>5, <1>6, <3>2, <4>2 DEF PlaceOf
      <4> QED BY <1>11, <2>2, <3>2, <4>2, <4>3
    <3> QED BY <3>1, <3>2
  <2>4. ((y % count) - (rotations % count)) % count = (y - rotations) % count
    <3>1. PICK z \in Int : z = rotations
      OBVIOUS
    <3>2. ((y % count) - (z % count)) % count = (y - z) % count
      BY <1>5, ModDifference
    <3> QED BY <3>1, <3>2
  <2>5. y - rotations = i - offset - 1
    BY <1>2, <1>9, <2>2
  <2>6. rank[first] - 1 - steps = (y % count) - (rotations % count)
    BY <1>10, <2>3
  <2> QED BY <1>12, <2>1, <2>4, <2>5, <2>6
<1> HIDE DEF many, desired, start
<1>15. PICK g : g = [h EXCEPT !.desiredProducer = desired, !.currentProducer = desired,
                              !.lastKnownGlobalOffset = offset,
                              !.itemsConsumedFromCurrent = 0, !.producers = many]
  OBVIOUS
<1>16. /\ g.initialOffset = i /\ g.desiredProducer = last /\ g.lastKnownGlobalOffset = offset
       /\ g.producers = many
  BY <1>2, <1>6, <1>12, <1>15 DEF HeldTypes
<1>17. held'[c] = g
  BY <1>2, <1>3, <1>15
<1>18. last # None
  BY ProducerListAssumption DEF Producers
<1> QED BY <1>2, <1>6, <1>13, <1>14, <1>16, <1>17, <1>18 DEF PlaceOf

(* All other steps leave places alone. *)
LEMMA CallKeepsPlaces ==
    ASSUME RotationTypeOK, NEW c \in Consumers,
           \/ Begin(c, "scan", "scan", 1)
           \/ \E m \in 1..MaxBatch : Begin(c, "walk", "walk", m)
           \/ BeginWithToken(c, "token", 1)
           \/ \E m \in 1..MaxBatch : BeginWithToken(c, "bulk", m)
           \/ Attempt(c)
    PROVE  /\ Rotate(c) \/ SamePlace(held'[c], held[c])
           /\ \A d \in Consumers \ {c} : held'[d] = held[d]
           /\ \/ globalExplicitConsumerOffset' = globalExplicitConsumerOffset
              \/ globalExplicitConsumerOffset' = globalExplicitConsumerOffset + 1
<1>1. held \in [Consumers -> HeldTypes]
  BY DEF RotationTypeOK
<1>2. CASE UNCHANGED <<held, globalExplicitConsumerOffset>>
  BY <1>1, <1>2 DEF SamePlace
<1>3. CASE AskCurrent(c)
  <2>1. PICK items : held' = [held EXCEPT ![c].itemsConsumedFromCurrent = items]
    BY <1>3 DEF AskCurrent
  <2>2. /\ SamePlace(held'[c], held[c]) /\ \A d \in Consumers \ {c} : held'[d] = held[d]
    BY <1>1, <2>1 DEF SamePlace, HeldTypes
  <2>3. \/ globalExplicitConsumerOffset' = globalExplicitConsumerOffset
        \/ globalExplicitConsumerOffset' = globalExplicitConsumerOffset + 1
    BY <1>3 DEF AskCurrent
  <2> QED BY <2>2, <2>3
<1>4. CASE AskRound(c)
  <2>1. PICK p, m : held' = held \/ held' = [held EXCEPT ![c].currentProducer = p,
                                                         ![c].itemsConsumedFromCurrent = m]
    BY <1>4 DEF AskRound
  <2>2. /\ SamePlace(held'[c], held[c]) /\ \A d \in Consumers \ {c} : held'[d] = held[d]
    BY <1>1, <2>1 DEF SamePlace, HeldTypes
  <2>3. globalExplicitConsumerOffset' = globalExplicitConsumerOffset
    BY <1>4 DEF AskRound
  <2> QED BY <2>2, <2>3
<1>5. CASE Rotate(c)
  <2>1. PICK g : held' = [held EXCEPT ![c] = g]
    BY <1>5 DEF Rotate
  <2>2. globalExplicitConsumerOffset' = globalExplicitConsumerOffset
    BY <1>5 DEF Rotate
  <2> QED BY <1>1, <1>5, <2>1, <2>2
<1>6. AskCurrent(c) \/ AskRound(c) \/ Rotate(c) \/ UNCHANGED <<held, globalExplicitConsumerOffset>>
  BY DEF Begin, BeginWithToken, Attempt, Scan, ScanEnds, AskBest, SkipBest, AskNext, ListEnds,
     LoadTailToRotate, LoadTailToTurn, RoundEnds, Unmoved
<1> QED BY <1>2, <1>3, <1>4, <1>5, <1>6

LEMMA CallSpaced ==
    ASSUME NEW rank \in [Producers -> Nat], NEW n \in Nat, SInv(rank, n), OffsetBounded, Spaced(rank),
           NEW c \in Consumers, RotationTypeOK',
           \/ Begin(c, "scan", "scan", 1)
           \/ \E m \in 1..MaxBatch : Begin(c, "walk", "walk", m)
           \/ BeginWithToken(c, "token", 1)
           \/ \E m \in 1..MaxBatch : BeginWithToken(c, "bulk", m)
           \/ Attempt(c)
    PROVE  Spaced(rank)'
<1>1. RotationTypeOK /\ Seeks(rank)
  BY DEF SInv
<1>2. PICK i \in Nat, j \in Nat :
         i = globalExplicitConsumerOffset /\ j = globalExplicitConsumerOffset' /\ i <= j
  BY <1>1, CallKeepsPlaces DEF RotationTypeOK
<1>3. \A d \in Consumers : PlaceOf(rank, held[d], i) /\ Listed(rank, held[d].desiredProducer)
  BY <1>1, <1>2 DEF Spaced, Seeks, Sought
<1>4. ASSUME NEW d \in Consumers, SamePlace(held'[d], held[d])
      PROVE  PlaceOf(rank, held'[d], j)
  <2>1. PICK g \in HeldTypes, h \in HeldTypes : g = held'[d] /\ h = held[d]
    BY <1>1 DEF RotationTypeOK
  <2>2. PlaceOf(rank, g, j)
    BY <1>2, <1>3, <1>4, <2>1, PlaceKept
  <2> QED BY <2>1, <2>2
<1>5. ASSUME Rotate(c)
      PROVE  PlaceOf(rank, held'[c], j)
  <2>1. PlaceOf(rank, held'[c], i)
    BY <1>2, <1>5, RotatePlace
  <2>2. i = j
    BY <1>2, <1>5 DEF Rotate
  <2> QED BY <2>1, <2>2
<1>6. ASSUME NEW d \in Consumers
      PROVE  PlaceOf(rank, held'[d], j)
  <2>1. CASE d = c
    BY <1>1, <1>4, <1>5, <2>1, CallKeepsPlaces
  <2>2. CASE d # c
    <3>1. held'[d] = held[d]
      BY <1>1, <2>2, CallKeepsPlaces
    <3> QED BY <1>4, <3>1 DEF SamePlace
  <2> QED BY <2>1, <2>2
<1> QED BY <1>2, <1>6 DEF Spaced

LEMMA StillSpaced ==
    ASSUME NEW rank \in [Producers -> Nat], NEW r \in [Producers -> Nat],
           RotationTypeOK, Seeks(rank), Spaced(rank),
           \A p \in Producers : rank[p] > 0 => r[p] = rank[p],
           UNCHANGED <<held, globalExplicitConsumerOffset>>
    PROVE  Spaced(r)'
<1> SUFFICES ASSUME NEW c \in Consumers
             PROVE  PlaceOf(r, held[c], globalExplicitConsumerOffset)
  BY DEF Spaced
<1>1. PICK h \in HeldTypes : h = held[c]
  BY DEF RotationTypeOK
<1>2. PICK i \in Nat : i = globalExplicitConsumerOffset
  BY DEF RotationTypeOK
<1>3. PlaceOf(rank, h, i) /\ Listed(rank, h.desiredProducer)
  BY <1>1, <1>2 DEF Spaced, Seeks, Sought
<1>4. SamePlace(h, h) /\ i <= i
  BY DEF SamePlace
<1>5. PlaceOf(r, h, i)
  BY <1>3, <1>4, PlaceKept
<1> QED BY <1>1, <1>2, <1>5

(* Two tokens with the same count and offset are apart by their numbers. *)
LEMMA SpacedSpread ==
    ASSUME NEW rank \in [Producers -> Nat], NEW n \in Nat, SInv(rank, n), Spaced(rank)
    PROVE  Spread
<1> SUFFICES ASSUME NEW c \in Consumers, NEW d \in Consumers,
                    held[c].producers = held[d].producers, held[c].producers > 0,
                    held[c].lastKnownGlobalOffset = held[d].lastKnownGlobalOffset
             PROVE  held[c].desiredProducer = held[d].desiredProducer <=>
                       held[c].initialOffset % held[c].producers =
                          held[d].initialOffset % held[c].producers
  BY DEF Spread
<1>1. /\ RotationTypeOK /\ Reuse(rank, n)
      /\ \A e \in Consumers : /\ held[e] \in HeldTypes
                              /\ PlaceOf(rank, held[e], globalExplicitConsumerOffset)
                              /\ Listed(rank, held[e].desiredProducer)
  BY DEF SInv, Spaced, Seeks, Sought, RotationTypeOK
<1>2. PICK k \in Nat : k = held[c].producers /\ k = held[d].producers /\ k > 0
  BY <1>1 DEF HeldTypes
<1>3. PICK i \in Int, j \in Int, l \in Int :
         /\ i = held[c].initialOffset /\ j = held[d].initialOffset
         /\ l = held[c].lastKnownGlobalOffset /\ l = held[d].lastKnownGlobalOffset
  BY <1>1 DEF HeldTypes
<1>4. PICK p \in Producers, q \in Producers :
         /\ p = held[c].desiredProducer /\ q = held[d].desiredProducer
         /\ rank[p] > 0 /\ rank[q] > 0
         /\ rank[p] - 1 = (i - l - 1) % k /\ rank[q] - 1 = (j - l - 1) % k
  <2>1. ASSUME NEW e \in Consumers, held[e].producers > 0
        PROVE  /\ held[e].desiredProducer \in Producers
               /\ rank[held[e].desiredProducer] > 0
               /\ rank[held[e].desiredProducer] - 1 =
                     (held[e].initialOffset - held[e].lastKnownGlobalOffset - 1) % held[e].producers
    <3>1. held[e].desiredProducer # None
      BY <1>1, <2>1 DEF PlaceOf
    <3> QED BY <1>1, <2>1, <3>1 DEF PlaceOf, Listed, HeldTypes, Nodes
  <2> QED BY <1>2, <1>3, <2>1
<1>5. p = q <=> rank[p] = rank[q]
  BY <1>1, <1>4, SameRank
<1>6. PICK z \in Int, x \in Int, y \in Int : z = l + 1 /\ x = i - z /\ y = j - z
  OBVIOUS
<1>7. x % k = y % k <=> i % k = j % k
  <2>1. PICK w \in Int : w = -z /\ i = x - w /\ j = y - w
    BY <1>6
  <2>2. k \in Nat /\ k > 0
    BY <1>2
  <2>3. \A a \in Int, b \in Int : ((a % k) - (b % k)) % k = (a - b) % k
    BY <2>2, ModDifference
  <2>4. /\ ((i % k) - (z % k)) % k = (i - z) % k
        /\ ((j % k) - (z % k)) % k = (j - z) % k
        /\ ((x % k) - (w % k)) % k = (x - w) % k
        /\ ((y % k) - (w % k)) % k = (y - w) % k
    BY <2>3
  <2> QED BY <1>6, <2>1, <2>4
<1>8. x = i - l - 1 /\ y = j - l - 1
  BY <1>6
<1>9. rank[p] = rank[q] <=> x % k = y % k
  <2>1. rank[p] - 1 = x % k /\ rank[q] - 1 = y % k
    BY <1>4, <1>8
  <2> QED BY <2>1
<1>10. p = q <=> i % k = j % k
  BY <1>5, <1>7, <1>9
<1> QED BY <1>2, <1>3, <1>4, <1>10

-------------------------------------------------------------------------------
LEMMA ListStepKeeps ==
    ASSUME NEW rank \in [Producers -> Nat], NEW n \in Nat, SInv(rank, n), OffsetBounded, Spaced(rank),
           ListStep
    PROVE  /\ RotationTypeOK' /\ OffsetBounded'
           /\ \E r \in [Producers -> Nat], m \in Nat : Reuse(r, m)' /\ Seeks(r)' /\ Spaced(r)'
<1>1. IInv /\ Reuse(rank, n) /\ RotationTypeOK /\ Seeks(rank)
  BY DEF SInv
<1>2. [Next]_listVars
  <2>1. cast.tokens \subseteq Tokens
    BY <1>1, ConsumerRotationAssumption DEF RotationTypeOK
  <2> QED BY <2>1 DEF ListStep, Next
<1>3. UNCHANGED <<cast, size, enqueued, globalExplicitConsumerOffset, held, call>>
  BY DEF ListStep
<1>4. RotationTypeOK'
  BY <1>1, <1>2, <1>3, CountKept DEF RotationTypeOK, Counted
<1>5. OffsetBounded'
  BY <1>3 DEF OffsetBounded
<1>6. PICK r \in [Producers -> Nat], m \in Nat :
         Reuse(r, m)' /\ \A p \in Producers : rank[p] > 0 => r[p] = rank[p]
  BY <1>1, <1>2, StepReuse
<1>7. Seeks(r)' /\ Spaced(r)'
  BY <1>1, <1>3, <1>6, RanksKept, StillSpaced
<1> QED BY <1>4, <1>5, <1>6, <1>7

(* There is a rank for every producer in the list, by which all that a     *)
(* call has not asked is before it and all tokens are in their places. *)
RotationInv ==
    /\ RotationTypeOK /\ OffsetBounded
    /\ \E rank \in [Producers -> Nat], n \in Nat : Reuse(rank, n) /\ Seeks(rank) /\ Spaced(rank)

LEMMA InitRotationInv == RotationInit => RotationInv
<1> SUFFICES ASSUME RotationInit PROVE RotationInv
  OBVIOUS
<1> USE ProducerListAssumption
<1>1. PICK rank \in [Producers -> Nat], n \in Nat : Reuse(rank, n)
  BY InitReuse DEF RotationInit, Reusing
<1>2. Modulus - 1 \in Nat
  BY ConsumerRotationAssumption DEF RotationInit
<1>3. \A c \in Consumers :
         /\ call[c] = Idle
         /\ held[c] = [initialOffset |-> c, lastKnownGlobalOffset |-> Modulus - 1,
                       itemsConsumedFromCurrent |-> 0, currentProducer |-> None,
                       desiredProducer |-> None, producers |-> 0]
  BY DEF RotationInit
<1>4. call \in [Consumers -> CallTypes]
  BY IdleIs DEF RotationInit
<1>5. held \in [Consumers -> HeldTypes]
  <2>1. ASSUME NEW c \in Consumers
        PROVE  [initialOffset |-> c, lastKnownGlobalOffset |-> Modulus - 1,
                itemsConsumedFromCurrent |-> 0, currentProducer |-> None,
                desiredProducer |-> None, producers |-> 0] \in HeldTypes
    <3>1. c \in Nat /\ None \in Nodes
      BY ConsumerRotationAssumption DEF Nodes
    <3> QED BY <1>2, <3>1 DEF HeldTypes
  <2> QED BY <2>1 DEF RotationInit
<1>6. /\ cast \in Casts /\ enqueued \in Nat /\ globalExplicitConsumerOffset \in Nat
      /\ size \in [Producers -> Nat]
  BY DEF RotationInit
<1>7. producerCount = created
  BY DEF RotationInit, Init
<1>8. ASSUME NEW c \in Consumers
      PROVE  /\ Sought(rank, call[c], held[c])
             /\ PlaceOf(rank, held[c], globalExplicitConsumerOffset)
  <2>1. PICK h : h = [initialOffset |-> c, lastKnownGlobalOffset |-> Modulus - 1,
                      itemsConsumedFromCurrent |-> 0, currentProducer |-> None,
                      desiredProducer |-> None, producers |-> 0]
    OBVIOUS
  <2>2. /\ h.currentProducer = None /\ h.desiredProducer = None
        /\ h.initialOffset = c /\ h.producers = 0 /\ h.lastKnownGlobalOffset = Modulus - 1
    BY <2>1
  <2>3. held[c] = h /\ call[c] = Idle
    BY <1>3, <2>1
  <2>4. c \in Nat
    BY ConsumerRotationAssumption
  <2> QED BY <2>2, <2>3, <2>4, IdleSought DEF Listed, PlaceOf
<1>9. OffsetBounded
  BY InitBounded
<1> QED BY <1>1, <1>4, <1>5, <1>6, <1>7, <1>8, <1>9 DEF RotationInv, RotationTypeOK, Seeks, Spaced

LEMMA NextRotationInv == IInv /\ RotationInv /\ [RotationNext]_vars => RotationInv'
<1> SUFFICES ASSUME IInv, RotationInv, [RotationNext]_vars
             PROVE  /\ RotationTypeOK' /\ OffsetBounded'
                    /\ \E r \in [Producers -> Nat], m \in Nat :
                          Reuse(r, m)' /\ Seeks(r)' /\ Spaced(r)'
  BY DEF RotationInv
<1>1. PICK rank \in [Producers -> Nat], n \in Nat : Reuse(rank, n) /\ Seeks(rank) /\ Spaced(rank)
  BY DEF RotationInv
<1>2. SInv(rank, n) /\ RotationTypeOK /\ OffsetBounded
  BY <1>1 DEF SInv, RotationInv
<1>3. ASSUME UNCHANGED listVars
      PROVE  Reuse(rank, n)'
  BY <1>1, <1>3, DestroyQueueReuse
<1>4. \A p \in Producers : rank[p] > 0 => rank[p] = rank[p]
  OBVIOUS
<1>5. CASE ListStep
  BY <1>1, <1>2, <1>5, ListStepKeeps
<1>6. ASSUME NEW p \in Producers, Enqueue(p)
      PROVE  RotationTypeOK' /\ OffsetBounded' /\ Reuse(rank, n)' /\ Seeks(rank)' /\ Spaced(rank)'
  <2>1. UNCHANGED <<listVars, held, globalExplicitConsumerOffset>>
    BY <1>6 DEF Enqueue
  <2>2. RotationTypeOK' /\ Seeks(rank)' /\ Reuse(rank, n)'
    BY <1>2, <1>3, <1>6, <2>1, EnqueueStep
  <2>3. OffsetBounded'
    BY <1>2, <1>6, EnqueueBounded
  <2>4. Spaced(rank)'
    BY <1>1, <1>2, <1>4, <2>1, StillSpaced
  <2> QED BY <2>2, <2>3, <2>4
<1>7. ASSUME NEW c \in Consumers,
             \/ Begin(c, "scan", "scan", 1)
             \/ \E m \in 1..MaxBatch : Begin(c, "walk", "walk", m)
             \/ BeginWithToken(c, "token", 1)
             \/ \E m \in 1..MaxBatch : BeginWithToken(c, "bulk", m)
             \/ Attempt(c)
      PROVE  RotationTypeOK' /\ OffsetBounded' /\ Reuse(rank, n)' /\ Seeks(rank)' /\ Spaced(rank)'
  <2>1. UNCHANGED listVars
    BY <1>7, CallLeavesList
  <2>2. RotationTypeOK' /\ Seeks(rank)'
    BY <1>2, <1>7, CallStep
  <2>3. OffsetBounded'
    BY <1>2, <1>7, CallBounded
  <2>4. Spaced(rank)'
    BY <1>1, <1>2, <1>7, <2>2, CallSpaced
  <2> QED BY <1>3, <2>1, <2>2, <2>3, <2>4
<1>8. CASE UNCHANGED vars
  <2>1. UNCHANGED <<listVars, cast, size, enqueued, globalExplicitConsumerOffset, held, call>>
    BY <1>8 DEF vars
  <2>2. Seeks(rank)' /\ Spaced(rank)'
    BY <1>1, <1>2, <1>4, <2>1, RanksKept, StillSpaced
  <2>3. RotationTypeOK' /\ OffsetBounded'
    BY <1>2, <2>1 DEF RotationTypeOK, OffsetBounded, listVars
  <2> QED BY <1>3, <2>1, <2>2, <2>3
<1>9. cast.consumers \subseteq Consumers
  BY <1>2, ConsumerRotationAssumption DEF RotationTypeOK
<1>10. CASE RotationNext
  BY <1>5, <1>6, <1>7, <1>9, <1>10 DEF RotationNext
<1> QED BY <1>8, <1>10

(* The inductive invariant behind the next two. *)
THEOREM RotationInvariance == RotationSpec => [](IInv /\ RotationInv)
<1>1. RotationSpec => []IInv
  BY ConsumersLeaveList, InitIInv, NextIInv, PTL DEF Spec
<1> QED BY <1>1, InitRotationInv, NextRotationInv, PTL DEF RotationSpec

(* A call that ends with less than it was to get has asked every producer  *)
(* there was when it began, of any number, however many rotations there    *)
(* have been and whoever adds producers. *)
THEOREM AsksAllHolds == RotationSpec => []AsksAll
<1>1. RotationInv => AsksAll
  BY DEF RotationInv, Seeks, Sought, AsksAll
<1> QED BY <1>1, RotationInvariance, PTL

(* Consumers are spread over any number of producers, as their tokens were *)
(* constructed, whenever each of them has found out about rotations and    *)
(* moved on. *)
THEOREM SpreadHolds == RotationSpec => []Spread
<1>1. IInv /\ RotationInv => Spread
  <2> SUFFICES ASSUME IInv, RotationInv PROVE Spread
    OBVIOUS
  <2>1. PICK rank \in [Producers -> Nat], n \in Nat : SInv(rank, n) /\ Spaced(rank)
    BY DEF RotationInv, SInv
  <2> QED BY <2>1, SpacedSpread
<1> QED BY <1>1, RotationInvariance, PTL
===============================================================================
