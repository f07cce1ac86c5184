---------------------------- MODULE BlockPoolProofs ----------------------------
(***************************************************************************)
(* Proofs about BlockPool, for any number of threads and blocks: the       *)
(* reference counts of the free list count the references there are, a     *)
(* block is in one place, and none is lost.                                *)
(***************************************************************************)
EXTENDS BlockPool, FiniteSetTheorems, TLAPS

BlockOrNot == Blocks \union {NoBlock}

TypeOK ==
    /\ initialBlockPoolIndex \in Nat
    /\ created \in InitialPoolSize..MaxBlocks
    /\ held \subseteq Blocks
    /\ freeListHead \in BlockOrNot
    /\ freeListRefs \in [Blocks -> Nat]
    /\ freeListNext \in [Blocks -> BlockOrNot]
    /\ pc \in [Threads -> Labels]
    /\ head \in [Threads -> BlockOrNot]
    /\ node \in [Threads -> BlockOrNot]
    /\ loaded \in [Threads -> Nat]
    /\ return \in [Threads -> {"idle", "tryHead"}]

(* What a thread relies on: a next pointer that it has loaded or stored is *)
(* not changed by another. *)
Local(t) ==
    /\ pc[t] \in {"loadRefs", "casRefs", "loadNext", "casNext", "dropTwo"} => head[t] \in Blocks
    /\ pc[t] \in {"dropOne", "addLoadHead", "storeNext", "storeRefs", "casHead", "restoreFlag"} =>
          node[t] \in Blocks
    /\ pc[t] = "casRefs" => REFS_MASK(loaded[t]) # 0
    /\ pc[t] = "casNext" => loaded[t] = freeListNext[head[t]]
    /\ pc[t] \in {"storeRefs", "casHead"} => loaded[t] = freeListNext[node[t]]
    /\ pc[t] \in {"storeNext", "restoreFlag"} => loaded[t] \in BlockOrNot

Locals == \A t \in Threads : Local(t)

(* The list is a path that ends. *)
ListOK ==
    /\ \A a, b \in OnList : freeListNext[a] = freeListNext[b] /\ freeListNext[a] # NoBlock => a = b
    /\ \A a \in OnList : freeListNext[a] # NoBlock => freeListNext[a] # freeListHead
    /\ ListEnds

(* What a thread does with a block. *)
Reading(t, b) ==
    \/ pc[t] \in {"loadNext", "casNext"} /\ head[t] = b
    \/ pc[t] = "dropOne" /\ node[t] = b

Taking(t, b) == pc[t] = "dropTwo" /\ head[t] = b

Linking(t, b) == pc[t] \in {"casHead", "restoreFlag"} /\ node[t] = b

Adding(t, b) == pc[t] \in {"addLoadHead", "storeNext", "storeRefs"} /\ node[t] = b

Uses(t, b) == Reading(t, b) \/ Taking(t, b) \/ Linking(t, b)

Users(b) == {t \in Threads : Uses(t, b)}

Taken(b) == \E t \in Threads : Taking(t, b)

Linked(b) == \E t \in Threads : Linking(t, b)

Added(b) == \E t \in Threads : Adding(t, b)

(* The references on a block: the list has one, which who takes the block  *)
(* off the list takes with it. *)
Count(b) == Cardinality(Users(b)) + IF b \in OnList \/ Taken(b) THEN 1 ELSE 0

Place(b) ==
    /\ Unused(b) \/ b \in held \/ b \in OnList \/ Flagged(b) \/ Linked(b) \/ Taken(b)
    /\ Unused(b) => ~(b \in held \/ b \in OnList \/ Flagged(b) \/ Linked(b) \/ Taken(b))
    /\ b \in held => ~(b \in OnList \/ Flagged(b) \/ Linked(b) \/ Taken(b))
    /\ b \in OnList => ~(Flagged(b) \/ Linked(b) \/ Taken(b))
    /\ Flagged(b) => ~(Linked(b) \/ Taken(b))
    /\ Linked(b) => ~Taken(b)

Alone(b) ==
    \A t, u \in Threads :
        \/ Taking(t, b) /\ Taking(u, b)
        \/ Linking(t, b) /\ Linking(u, b)
        \/ Adding(t, b) /\ Adding(u, b)
        => t = u

Refs(b) == freeListRefs[b] \in {Count(b), SHOULD_BE_ON_FREELIST + Count(b)}

Owed(b) == Added(b) <=> Flagged(b) /\ Count(b) = 0

Fine(b) == Place(b) /\ Alone(b) /\ Refs(b) /\ Owed(b)

Fines == \A b \in Blocks : Fine(b)

IInv == TypeOK /\ Locals /\ ListOK /\ Fines

-------------------------------------------------------------------------------
LEMMA NoBlockIs == NoBlock \notin Blocks /\ NoBlock \in Nat /\ Blocks \subseteq Nat
BY PoolAssumption DEF NoBlock, Blocks

(* The list. *)
LEMMA ListIsClosed ==
    ASSUME TypeOK
    PROVE  Closed(OnList) /\ OnList \in SUBSET Blocks
<1>1. OnList \in SUBSET Blocks
  BY DEF OnList
<1>2. freeListHead \in OnList \union {NoBlock}
  BY DEF TypeOK, BlockOrNot, OnList, Closed
<1>3. \A b \in OnList : freeListNext[b] \in OnList \union {NoBlock}
  BY DEF TypeOK, BlockOrNot, OnList, Closed
<1> QED BY <1>1, <1>2, <1>3 DEF Closed

LEMMA InClosed ==
    ASSUME NEW S \in SUBSET Blocks, Closed(S)
    PROVE  OnList \subseteq S
BY DEF OnList

LEMMA SameList ==
    ASSUME TypeOK, ListOK, freeListHead' = freeListHead,
           \A a \in OnList : freeListNext'[a] = freeListNext[a]
    PROVE  OnList' = OnList /\ ListOK'
<1>1. Closed(OnList) /\ OnList \in SUBSET Blocks
  BY ListIsClosed
<1>2. OnList' \subseteq OnList
  <2>1. PICK L \in SUBSET Blocks : L = OnList
    BY <1>1
  <2>2. Closed(L)'
    BY <1>1, <2>1 DEF Closed
  <2>3. OnList' \subseteq L
    BY <2>2 DEF OnList
  <2> QED BY <2>1, <2>3
<1>3. OnList \subseteq OnList'
  <2>1. ASSUME NEW S \in SUBSET Blocks, Closed(S)'
        PROVE  OnList \subseteq S
    <3>1. Closed(S \intersect OnList)
      BY <1>1, <2>1 DEF Closed
    <3>2. S \intersect OnList \in SUBSET Blocks
      OBVIOUS
    <3> QED BY <3>1, <3>2, InClosed
  <2> QED BY <1>1, <2>1 DEF OnList
<1>4. OnList' = OnList
  BY <1>2, <1>3
<1>5. ListOK'
  <2>1. \A a, b \in OnList : freeListNext'[a] = freeListNext'[b] /\ freeListNext'[a] # NoBlock
                                => a = b
    BY DEF ListOK
  <2>2. \A a \in OnList : freeListNext'[a] # NoBlock => freeListNext'[a] # freeListHead'
    BY DEF ListOK
  <2>3. freeListHead' = NoBlock \/ \E b \in OnList : freeListNext'[b] = NoBlock
    BY DEF ListOK, ListEnds
  <2> QED BY <1>4, <2>1, <2>2, <2>3 DEF ListOK, ListEnds
<1> QED BY <1>4, <1>5

(* The head is taken off the list. *)
LEMMA PopList ==
    ASSUME TypeOK, ListOK, NEW b \in Blocks, freeListHead = b, freeListHead' = freeListNext[b],
           UNCHANGED freeListNext
    PROVE  b \in OnList /\ OnList' = OnList \ {b} /\ ListOK'
<1>1. Closed(OnList) /\ OnList \in SUBSET Blocks /\ b # NoBlock
  BY ListIsClosed, NoBlockIs
<1>2. b \in OnList
  BY <1>1 DEF Closed
<1>3. freeListNext[b] # b
  BY <1>1, <1>2 DEF ListOK
<1>4. OnList' \subseteq OnList \ {b}
  <2>1. PICK L \in SUBSET Blocks : L = OnList \ {b}
    BY <1>1
  <2>2. freeListHead' \in L \union {NoBlock}
    BY <1>1, <1>2, <1>3, <2>1 DEF Closed
  <2>3. \A a \in L : freeListNext'[a] \in L \union {NoBlock}
    BY <1>1, <2>1 DEF Closed, ListOK
  <2>4. Closed(L)'
    BY <2>2, <2>3 DEF Closed
  <2>5. OnList' \subseteq L
    BY <2>4 DEF OnList
  <2> QED BY <2>1, <2>5
<1>5. OnList \ {b} \subseteq OnList'
  <2>1. ASSUME NEW S \in SUBSET Blocks, Closed(S)'
        PROVE  OnList \ {b} \subseteq S
    <3>1. Closed(S \union {b})
      BY <2>1 DEF Closed
    <3>2. S \union {b} \in SUBSET Blocks
      OBVIOUS
    <3>3. OnList \subseteq S \union {b}
      BY <3>1, <3>2, InClosed
    <3> QED BY <3>3
  <2> QED BY <1>1, <2>1 DEF OnList
<1>6. OnList' = OnList \ {b}
  BY <1>4, <1>5
<1>7. ListOK'
  <2>1. \A a \in OnList \ {b} : freeListNext[a] # NoBlock => freeListNext[a] # freeListNext[b]
    BY <1>2 DEF ListOK
  <2>2. freeListHead' = NoBlock \/ \E a \in OnList \ {b} : freeListNext[a] = NoBlock
    BY <1>1 DEF ListOK, ListEnds
  <2> QED BY <1>6, <2>1, <2>2 DEF ListOK, ListEnds
<1> QED BY <1>2, <1>6, <1>7

(* A block that is on no list is put before the head. *)
LEMMA PushList ==
    ASSUME TypeOK, ListOK, NEW b \in Blocks, b \notin OnList, freeListNext[b] = freeListHead,
           freeListHead' = b, UNCHANGED freeListNext
    PROVE  OnList' = OnList \union {b} /\ ListOK'
<1>1. Closed(OnList) /\ OnList \in SUBSET Blocks /\ b # NoBlock
  BY ListIsClosed, NoBlockIs
<1>2. OnList' \subseteq OnList \union {b}
  <2>1. PICK L \in SUBSET Blocks : L = OnList \union {b}
    BY <1>1
  <2>2. Closed(L)'
    BY <1>1, <2>1 DEF Closed
  <2>3. OnList' \subseteq L
    BY <2>2 DEF OnList
  <2> QED BY <2>1, <2>3
<1>3. OnList \union {b} \subseteq OnList'
  <2>1. ASSUME NEW S \in SUBSET Blocks, Closed(S)'
        PROVE  OnList \union {b} \subseteq S
    <3>1. b \in S
      BY <1>1, <2>1 DEF Closed
    <3>2. Closed(S)
      BY <2>1, <3>1 DEF Closed
    <3> QED BY <3>1, <3>2, InClosed
  <2> QED BY <1>1, <2>1 DEF OnList
<1>4. OnList' = OnList \union {b}
  BY <1>2, <1>3
<1>5. ListOK'
  <2>1. \A a \in OnList : freeListNext[a] # b /\ (freeListNext[a] # NoBlock =>
                                                    freeListNext[a] # freeListNext[b])
    BY <1>1 DEF Closed, ListOK
  <2>2. freeListNext[b] # b
    BY <1>1 DEF Closed
  <2>3. \E a \in OnList \union {b} : freeListNext[a] = NoBlock
    BY DEF ListOK, ListEnds
  <2> QED BY <1>4, <2>1, <2>2, <2>3 DEF ListOK, ListEnds
<1> QED BY <1>4, <1>5

-------------------------------------------------------------------------------
LEMMA CountIs ==
    ASSUME NEW b
    PROVE  /\ IsFiniteSet(Users(b)) /\ Cardinality(Users(b)) \in Nat
           /\ Count(b) \in Nat /\ Count(b) < SHOULD_BE_ON_FREELIST - 1
           /\ SHOULD_BE_ON_FREELIST \in Nat
<1>1. IsFiniteSet(Threads) /\ Users(b) \in SUBSET Threads
  BY PoolAssumption DEF Users
<1>2. IsFiniteSet(Users(b)) /\ Cardinality(Users(b)) <= Cardinality(Threads)
  BY <1>1, FS_Subset
<1>3. Cardinality(Users(b)) \in Nat /\ Cardinality(Threads) \in Nat
  BY <1>1, <1>2, FS_CardinalityType
<1> QED BY <1>2, <1>3, PoolAssumption DEF Count

LEMMA Masked ==
    ASSUME NEW c \in Nat, NEW f \in Nat, c < f
    PROVE  c % f = c /\ (f + c) % f = c
<1>1. c % f = c
  OBVIOUS
<1>2. (f + c) % f = c
  OBVIOUS
<1> QED BY <1>1, <1>2

LEMMA RefsAre ==
    ASSUME TypeOK, NEW b \in Blocks, Refs(b)
    PROVE  /\ REFS_MASK(freeListRefs[b]) = Count(b)
           /\ Flagged(b) <=> freeListRefs[b] = SHOULD_BE_ON_FREELIST + Count(b)
           /\ ~Flagged(b) <=> freeListRefs[b] = Count(b)
<1>1. /\ Count(b) \in Nat /\ SHOULD_BE_ON_FREELIST \in Nat
      /\ Count(b) < SHOULD_BE_ON_FREELIST
  BY CountIs
<1>2. REFS_MASK(freeListRefs[b]) = Count(b)
  BY <1>1, Masked DEF Refs, REFS_MASK
<1> QED BY <1>1, <1>2 DEF Refs, Flagged

(* The locals of a thread that takes no step. *)
Untouched(u) == UNCHANGED <<pc[u], head[u], node[u], loaded[u], return[u]>>

LEMMA UsersStep ==
    ASSUME NEW t \in Threads, NEW b, \A u \in Threads \ {t} : Untouched(u)
    PROVE  /\ (Uses(t, b)' <=> Uses(t, b)) => Cardinality(Users(b))' = Cardinality(Users(b))
           /\ Uses(t, b)' /\ ~Uses(t, b) =>
                 Cardinality(Users(b))' = Cardinality(Users(b)) + 1
           /\ ~Uses(t, b)' /\ Uses(t, b) =>
                 Cardinality(Users(b))' = Cardinality(Users(b)) - 1
<1>1. \A u \in Threads \ {t} : Uses(u, b)' <=> Uses(u, b)
  BY DEF Untouched, Uses, Reading, Taking, Linking
<1>2. IsFiniteSet(Users(b))
  BY CountIs
<1>3. CASE Uses(t, b)' <=> Uses(t, b)
  <2>1. Users(b)' = Users(b)
    BY <1>1, <1>3 DEF Users
  <2> QED BY <1>3, <2>1
<1>4. CASE Uses(t, b)' /\ ~Uses(t, b)
  <2>1. Users(b)' = Users(b) \union {t} /\ t \notin Users(b)
    BY <1>1, <1>4 DEF Users
  <2>2. Cardinality(Users(b) \union {t}) = Cardinality(Users(b)) + 1
    BY <1>2, <2>1, FS_AddElement
  <2> QED BY <1>4, <2>1, <2>2
<1>5. CASE ~Uses(t, b)' /\ Uses(t, b)
  <2>1. Users(b)' = Users(b) \ {t} /\ t \in Users(b)
    BY <1>1, <1>5 DEF Users
  <2>2. Cardinality(Users(b) \ {t}) = Cardinality(Users(b)) - 1
    BY <1>2, <2>1, FS_RemoveElement
  <2> QED BY <1>5, <2>1, <2>2
<1> QED BY <1>3, <1>4, <1>5

(* Who takes, links or adds a block after a step of thread t. *)
LEMMA RolesStep ==
    ASSUME NEW t \in Threads, NEW b, \A u \in Threads \ {t} : Untouched(u), Alone(b),
           Taking(t, b)' => Taking(t, b) \/ ~Taken(b),
           Linking(t, b)' => Linking(t, b) \/ ~Linked(b),
           Adding(t, b)' => Adding(t, b) \/ ~Added(b)
    PROVE  /\ Alone(b)'
           /\ Taken(b)' <=> Taking(t, b)' \/ (Taken(b) /\ ~Taking(t, b))
           /\ Linked(b)' <=> Linking(t, b)' \/ (Linked(b) /\ ~Linking(t, b))
           /\ Added(b)' <=> Adding(t, b)' \/ (Added(b) /\ ~Adding(t, b))
<1>1. \A u \in Threads \ {t} : /\ Taking(u, b)' <=> Taking(u, b)
                               /\ Linking(u, b)' <=> Linking(u, b)
                               /\ Adding(u, b)' <=> Adding(u, b)
  BY DEF Untouched, Taking, Linking, Adding
<1>2. Alone(b)'
  BY <1>1 DEF Alone, Taken, Linked, Added
<1>3. Taken(b)' <=> Taking(t, b)' \/ (Taken(b) /\ ~Taking(t, b))
  BY <1>1 DEF Alone, Taken
<1>4. Linked(b)' <=> Linking(t, b)' \/ (Linked(b) /\ ~Linking(t, b))
  BY <1>1 DEF Alone, Linked
<1>5. Added(b)' <=> Adding(t, b)' \/ (Added(b) /\ ~Adding(t, b))
  BY <1>1 DEF Alone, Added
<1> QED BY <1>2, <1>3, <1>4, <1>5

(* A block that a step of thread t has nothing to do with. *)
Left(t, b) ==
    /\ freeListRefs'[b] = freeListRefs[b]
    /\ (b \in held)' <=> b \in held
    /\ (b \in OnList)' <=> b \in OnList
    /\ Unused(b)' <=> Unused(b)
    /\ Reading(t, b)' <=> Reading(t, b)
    /\ Taking(t, b)' <=> Taking(t, b)
    /\ Linking(t, b)' <=> Linking(t, b)
    /\ Adding(t, b)' <=> Adding(t, b)

LEMMA LeftStaysFine ==
    ASSUME NEW t \in Threads, NEW b, \A u \in Threads \ {t} : Untouched(u), Fine(b), Left(t, b)
    PROVE  Fine(b)'
<1>1. Uses(t, b)' <=> Uses(t, b)
  BY DEF Left, Uses
<1>2. Cardinality(Users(b))' = Cardinality(Users(b))
  BY <1>1, UsersStep
<1>3. /\ Alone(b)'
      /\ Taken(b)' <=> Taken(b)
      /\ Linked(b)' <=> Linked(b)
      /\ Added(b)' <=> Added(b)
  <2>1. /\ Taking(t, b) => Taken(b)
        /\ Linking(t, b) => Linked(b)
        /\ Adding(t, b) => Added(b)
    BY DEF Taken, Linked, Added
  <2> QED BY <2>1, RolesStep DEF Left, Fine
<1>4. Count(b)' = Count(b)
  BY <1>2, <1>3 DEF Left, Count
<1>5. Flagged(b)' <=> Flagged(b)
  BY DEF Left, Flagged
<1>6. Place(b)'
  BY <1>3, <1>5 DEF Left, Fine, Place
<1>7. Refs(b)' /\ Owed(b)'
  BY <1>3, <1>4, <1>5 DEF Left, Fine, Refs, Owed
<1> QED BY <1>3, <1>6, <1>7 DEF Fine

LEMMA LocalStays ==
    ASSUME NEW u \in Threads, Local(u), Untouched(u),
           pc[u] = "casNext" => freeListNext'[head[u]] = freeListNext[head[u]],
           pc[u] \in {"storeRefs", "casHead"} => freeListNext'[node[u]] = freeListNext[node[u]]
    PROVE  Local(u)'
BY DEF Local, Untouched

(* A step of thread t that has to do with block b only, and sets no next   *)
(* pointer. *)
LEMMA BlockStep ==
    ASSUME IInv, NEW t \in Threads, NEW b \in Blocks, \A u \in Threads \ {t} : Untouched(u),
           UNCHANGED freeListNext, TypeOK', Local(t)', ListOK',
           \A c \in Blocks \ {b} : Left(t, c),
           Fine(b)'
    PROVE  IInv'
<1>1. Locals'
  <2>1. ASSUME NEW u \in Threads \ {t}
        PROVE  Local(u)'
    BY <2>1, LocalStays DEF IInv, Locals
  <2> QED BY <2>1 DEF Locals
<1>2. ASSUME NEW c \in Blocks, c # b
      PROVE  Fine(c)'
  BY <1>2, LeftStaysFine DEF IInv, Fines
<1>3. Fines'
  BY <1>2 DEF Fines, Blocks
<1> QED BY <1>1, <1>3 DEF IInv

(* A step that has to do with no block. *)
LEMMA QuietStep ==
    ASSUME IInv, NEW t \in Threads, \A u \in Threads \ {t} : Untouched(u),
           UNCHANGED <<initialBlockPoolIndex, created, held, list>>, TypeOK', Local(t)',
           \A b \in Blocks : /\ Reading(t, b)' <=> Reading(t, b)
                             /\ Taking(t, b)' <=> Taking(t, b)
                             /\ Linking(t, b)' <=> Linking(t, b)
                             /\ Adding(t, b)' <=> Adding(t, b)
    PROVE  IInv'
<1>1. UNCHANGED <<initialBlockPoolIndex, created, held, freeListHead, freeListRefs, freeListNext>>
  BY DEF list
<1>2. OnList' = OnList /\ ListOK'
  BY <1>1, SameList DEF IInv
<1>3. \A b \in Blocks : Left(t, b)
  BY <1>1, <1>2 DEF Left, Unused
<1>4. Locals'
  <2>1. ASSUME NEW u \in Threads \ {t}
        PROVE  Local(u)'
    BY <1>1, <2>1, LocalStays DEF IInv, Locals
  <2> QED BY <2>1 DEF Locals
<1>5. ASSUME NEW c \in Blocks
      PROVE  Fine(c)'
  BY <1>3, <1>5, LeftStaysFine DEF IInv, Fines
<1>6. Fines'
  BY <1>5 DEF Fines, Blocks
<1> QED BY <1>2, <1>4, <1>6 DEF IInv

-------------------------------------------------------------------------------
LocalTypes ==
    /\ pc \in [Threads -> Labels]
    /\ head \in [Threads -> BlockOrNot]
    /\ node \in [Threads -> BlockOrNot]
    /\ loaded \in [Threads -> Nat]
    /\ return \in [Threads -> {"idle", "tryHead"}]

(* A thread between two blocks. *)
Outside(t) == pc[t] \in {"idle", "fetchIndex", "loadHead", "loadRefs", "casRefs", "create"}

LEMMA OutsideHasNone ==
    ASSUME NEW t, Outside(t), NEW b
    PROVE  ~Reading(t, b) /\ ~Taking(t, b) /\ ~Linking(t, b) /\ ~Adding(t, b) /\ ~Uses(t, b)
BY DEF Outside, Reading, Taking, Linking, Adding, Uses

LEMMA ReturnIs ==
    ASSUME TypeOK, NEW t \in Threads, Return(t)
    PROVE  /\ LocalTypes' /\ \A u \in Threads \ {t} : Untouched(u)
           /\ pc'[t] = "idle" /\ Outside(t)' /\ Local(t)'
<1>1. LocalTypes
  BY DEF TypeOK, LocalTypes
<1>2. /\ pc' = [pc EXCEPT ![t] = "idle"] /\ head' = [head EXCEPT ![t] = NoBlock]
      /\ node' = [node EXCEPT ![t] = NoBlock] /\ loaded' = [loaded EXCEPT ![t] = 0]
      /\ return' = [return EXCEPT ![t] = "idle"]
  BY DEF Return, Goto, Forget
<1>3. LocalTypes'
  BY <1>1, <1>2 DEF LocalTypes, Labels, BlockOrNot
<1>4. \A u \in Threads \ {t} : Untouched(u)
  BY <1>1, <1>2 DEF LocalTypes, Untouched
<1>5. pc'[t] = "idle"
  BY <1>1, <1>2 DEF LocalTypes
<1> QED BY <1>3, <1>4, <1>5 DEF Outside, Local

LEMMA TryHeadIs ==
    ASSUME TypeOK, NEW t \in Threads, NEW b \in BlockOrNot, TryHead(t, b)
    PROVE  /\ LocalTypes' /\ \A u \in Threads \ {t} : Untouched(u)
           /\ Outside(t)' /\ Local(t)'
<1>1. LocalTypes
  BY DEF TypeOK, LocalTypes
<1>2. PICK l \in {"create", "loadRefs"} :
         /\ l = IF b = NoBlock THEN "create" ELSE "loadRefs"
         /\ pc' = [pc EXCEPT ![t] = l] /\ head' = [head EXCEPT ![t] = b]
         /\ node' = [node EXCEPT ![t] = NoBlock] /\ loaded' = [loaded EXCEPT ![t] = 0]
         /\ return' = [return EXCEPT ![t] = "idle"]
  BY DEF TryHead, Goto, Forget
<1>3. LocalTypes'
  BY <1>1, <1>2 DEF LocalTypes, Labels, BlockOrNot
<1>4. \A u \in Threads \ {t} : Untouched(u)
  BY <1>1, <1>2 DEF LocalTypes, Untouched
<1>5. pc'[t] = l /\ head'[t] = b
  BY <1>1, <1>2 DEF LocalTypes
<1>6. l = "loadRefs" => b \in Blocks
  BY <1>2 DEF BlockOrNot
<1> QED BY <1>2, <1>3, <1>4, <1>5, <1>6 DEF Outside, Local

LEMMA AddReturnsIs ==
    ASSUME TypeOK, NEW t \in Threads, AddReturns(t)
    PROVE  /\ LocalTypes' /\ \A u \in Threads \ {t} : Untouched(u)
           /\ Outside(t)' /\ Local(t)'
<1>1. head[t] \in BlockOrNot
  BY DEF TypeOK
<1> QED BY <1>1, ReturnIs, TryHeadIs DEF AddReturns

LEMMA GotoIs ==
    ASSUME LocalTypes, NEW t \in Threads, NEW l \in Labels, Goto(t, l)
    PROVE  pc'[t] = l /\ pc' \in [Threads -> Labels] /\ \A u \in Threads \ {t} : pc'[u] = pc[u]
BY DEF LocalTypes, Goto

-------------------------------------------------------------------------------
(* Steps that have to do with no block. *)
LEMMA RequisitionBlockStep ==
    ASSUME IInv, NEW t \in Threads, RequisitionBlock(t)
    PROVE  IInv'
<1>1. TypeOK /\ LocalTypes
  BY DEF IInv, TypeOK, LocalTypes
<1>2. PICK l \in {"loadHead", "fetchIndex"} : Goto(t, l)
  BY DEF RequisitionBlock
<1>3. pc[t] = "idle" /\ UNCHANGED <<initialBlockPoolIndex, created, held, list, head, node,
                                    loaded, return>>
  BY DEF RequisitionBlock
<1>4. l \in Labels
  BY DEF Labels
<1>5. pc'[t] = l /\ pc' \in [Threads -> Labels] /\ \A u \in Threads \ {t} : pc'[u] = pc[u]
  BY <1>1, <1>2, <1>4, GotoIs
<1>6. TypeOK'
  BY <1>1, <1>3, <1>5 DEF TypeOK, list
<1>7. \A u \in Threads \ {t} : Untouched(u)
  BY <1>3, <1>5 DEF Untouched
<1>8. Local(t)' /\ Outside(t) /\ Outside(t)'
  BY <1>3, <1>5 DEF Local, Outside
<1>9. \A b : ~Reading(t, b)' /\ ~Taking(t, b)' /\ ~Linking(t, b)' /\ ~Adding(t, b)'
  BY <1>8 DEF Outside, Reading, Taking, Linking, Adding
<1> QED BY <1>3, <1>6, <1>7, <1>8, <1>9, QuietStep, OutsideHasNone

LEMMA LoadHeadStep ==
    ASSUME IInv, NEW t \in Threads, LoadHead(t)
    PROVE  IInv'
<1>1. TypeOK /\ freeListHead \in BlockOrNot
  BY DEF IInv, TypeOK
<1>2. /\ pc[t] = "loadHead" /\ TryHead(t, freeListHead)
      /\ UNCHANGED <<initialBlockPoolIndex, created, held, list>>
  BY DEF LoadHead
<1>3. /\ LocalTypes' /\ (\A u \in Threads \ {t} : Untouched(u))
      /\ Outside(t)' /\ Local(t)'
  BY <1>1, <1>2, TryHeadIs
<1>4. TypeOK'
  BY <1>1, <1>2, <1>3 DEF TypeOK, LocalTypes, list
<1>5. Outside(t)
  BY <1>2 DEF Outside
<1>6. \A b : ~Reading(t, b)' /\ ~Taking(t, b)' /\ ~Linking(t, b)' /\ ~Adding(t, b)'
  BY <1>3 DEF Outside, Reading, Taking, Linking, Adding
<1> QED BY <1>2, <1>3, <1>4, <1>5, <1>6, QuietStep, OutsideHasNone

LEMMA LoadRefsStep ==
    ASSUME IInv, NEW t \in Threads, LoadRefs(t)
    PROVE  IInv'
<1>1. TypeOK /\ LocalTypes /\ Local(t)
  BY DEF IInv, TypeOK, LocalTypes, Locals
<1>2. head[t] \in Blocks /\ pc[t] = "loadRefs"
  BY <1>1 DEF LoadRefs, Local
<1>3. PICK refs \in Nat : refs = freeListRefs[head[t]]
  BY <1>1, <1>2 DEF TypeOK
<1>4. PICK l \in {"loadHead", "casRefs"} :
         l = (IF REFS_MASK(refs) = 0 THEN "loadHead" ELSE "casRefs") /\ Goto(t, l)
  BY <1>3 DEF LoadRefs
<1>5. /\ loaded' = [loaded EXCEPT ![t] = refs]
      /\ UNCHANGED <<initialBlockPoolIndex, created, held, list, head, node, return>>
  BY <1>3 DEF LoadRefs
<1>6. l \in Labels
  BY DEF Labels
<1>7. /\ pc'[t] = l /\ pc' \in [Threads -> Labels] /\ (\A u \in Threads \ {t} : pc'[u] = pc[u])
  BY <1>1, <1>4, <1>6, GotoIs
<1>8. loaded' \in [Threads -> Nat] /\ loaded'[t] = refs
      /\ \A u \in Threads \ {t} : loaded'[u] = loaded[u]
  BY <1>1, <1>5 DEF LocalTypes
<1>9. TypeOK'
  BY <1>1, <1>5, <1>7, <1>8 DEF TypeOK, list
<1>10. \A u \in Threads \ {t} : Untouched(u)
  BY <1>5, <1>7, <1>8 DEF Untouched
<1>11. Local(t)' /\ Outside(t) /\ Outside(t)'
  BY <1>2, <1>4, <1>5, <1>7, <1>8 DEF Local, Outside
<1>12. \A b : ~Reading(t, b)' /\ ~Taking(t, b)' /\ ~Linking(t, b)' /\ ~Adding(t, b)'
  BY <1>11 DEF Outside, Reading, Taking, Linking, Adding
<1> QED BY <1>5, <1>9, <1>10, <1>11, <1>12, QuietStep, OutsideHasNone

LEMMA LoadNextStep ==
    ASSUME IInv, NEW t \in Threads, LoadNext(t)
    PROVE  IInv'
<1>1. TypeOK /\ LocalTypes /\ Local(t)
  BY DEF IInv, TypeOK, LocalTypes, Locals
<1>2. head[t] \in Blocks /\ pc[t] = "loadNext" /\ Goto(t, "casNext") /\ "casNext" \in Labels
  BY <1>1 DEF LoadNext, Local, Labels
<1>3. PICK n \in BlockOrNot : n = freeListNext[head[t]]
  BY <1>1, <1>2 DEF TypeOK
<1>4. /\ loaded' = [loaded EXCEPT ![t] = n]
      /\ UNCHANGED <<initialBlockPoolIndex, created, held, list, head, node, return>>
  BY <1>3 DEF LoadNext
<1>5. pc'[t] = "casNext" /\ pc' \in [Threads -> Labels]
      /\ \A u \in Threads \ {t} : pc'[u] = pc[u]
  BY <1>1, <1>2, GotoIs
<1>6. n \in Nat
  BY NoBlockIs DEF BlockOrNot
<1>7. loaded' \in [Threads -> Nat] /\ loaded'[t] = n
      /\ \A u \in Threads \ {t} : loaded'[u] = loaded[u]
  BY <1>1, <1>4, <1>6 DEF LocalTypes
<1>8. TypeOK'
  BY <1>1, <1>4, <1>5, <1>7 DEF TypeOK, list
<1>9. \A u \in Threads \ {t} : Untouched(u)
  BY <1>4, <1>5, <1>7 DEF Untouched
<1>10. Local(t)'
  BY <1>2, <1>3, <1>4, <1>5, <1>7 DEF Local, list
<1>11. \A b \in Blocks : /\ Reading(t, b)' <=> Reading(t, b)
                         /\ Taking(t, b)' <=> Taking(t, b)
                         /\ Linking(t, b)' <=> Linking(t, b)
                         /\ Adding(t, b)' <=> Adding(t, b)
  BY <1>2, <1>4, <1>5 DEF Reading, Taking, Linking, Adding
<1> QED BY <1>4, <1>8, <1>9, <1>10, <1>11, QuietStep

LEMMA AddLoadHeadStep ==
    ASSUME IInv, NEW t \in Threads, AddLoadHead(t)
    PROVE  IInv'
<1>1. TypeOK /\ LocalTypes /\ Local(t) /\ freeListHead \in BlockOrNot
  BY DEF IInv, TypeOK, LocalTypes, Locals
<1>2. /\ pc[t] = "addLoadHead" /\ Goto(t, "storeNext") /\ "storeNext" \in Labels
      /\ loaded' = [loaded EXCEPT ![t] = freeListHead]
      /\ UNCHANGED <<initialBlockPoolIndex, created, held, list, head, node, return>>
      /\ node[t] \in Blocks
  BY <1>1 DEF AddLoadHead, Labels, Local
<1>3. pc'[t] = "storeNext" /\ pc' \in [Threads -> Labels]
      /\ \A u \in Threads \ {t} : pc'[u] = pc[u]
  BY <1>1, <1>2, GotoIs
<1>4. freeListHead \in Nat
  BY <1>1, NoBlockIs DEF BlockOrNot
<1>5. loaded' \in [Threads -> Nat] /\ loaded'[t] = freeListHead
      /\ \A u \in Threads \ {t} : loaded'[u] = loaded[u]
  BY <1>1, <1>2, <1>4 DEF LocalTypes
<1>6. TypeOK'
  BY <1>1, <1>2, <1>3, <1>5 DEF TypeOK, list
<1>7. \A u \in Threads \ {t} : Untouched(u)
  BY <1>2, <1>3, <1>5 DEF Untouched
<1>8. Local(t)'
  BY <1>1, <1>2, <1>3, <1>5 DEF Local
<1>9. \A b \in Blocks : /\ Reading(t, b)' <=> Reading(t, b)
                        /\ Taking(t, b)' <=> Taking(t, b)
                        /\ Linking(t, b)' <=> Linking(t, b)
                        /\ Adding(t, b)' <=> Adding(t, b)
  BY <1>2, <1>3 DEF Reading, Taking, Linking, Adding
<1> QED BY <1>2, <1>6, <1>7, <1>8, <1>9, QuietStep

-------------------------------------------------------------------------------
(* A block nobody has used is given out. *)
LEMMA GiveOut ==
    ASSUME IInv, NEW t \in Threads, NEW b \in Blocks, \A u \in Threads \ {t} : Untouched(u),
           Outside(t), Outside(t)', Local(t)', TypeOK', UNCHANGED list,
           Unused(b), ~Unused(b)', held' = held \union {b},
           \A c \in Blocks \ {b} : Unused(c)' <=> Unused(c)
    PROVE  IInv'
<1>1. UNCHANGED <<freeListHead, freeListRefs, freeListNext>>
  BY DEF list
<1>2. OnList' = OnList /\ ListOK'
  BY <1>1, SameList DEF IInv
<1>3. \A c : /\ ~Reading(t, c) /\ ~Taking(t, c) /\ ~Linking(t, c) /\ ~Adding(t, c)
             /\ ~Reading(t, c)' /\ ~Taking(t, c)' /\ ~Linking(t, c)' /\ ~Adding(t, c)'
  BY DEF Outside, Reading, Taking, Linking, Adding
<1>4. \A c \in Blocks \ {b} : Left(t, c)
  BY <1>1, <1>2, <1>3 DEF Left
<1>5. Fine(b)
  BY DEF IInv, Fines
<1>6. Uses(t, b)' <=> Uses(t, b)
  BY <1>3 DEF Uses
<1>7. Cardinality(Users(b))' = Cardinality(Users(b))
  BY <1>6, UsersStep
<1>8. Alone(b)' /\ (Taken(b)' <=> Taken(b)) /\ (Linked(b)' <=> Linked(b)) /\ (Added(b)' <=> Added(b))
  BY <1>3, <1>5, RolesStep DEF Fine
<1>9. Count(b)' = Count(b) /\ (Flagged(b)' <=> Flagged(b))
  BY <1>1, <1>2, <1>7, <1>8 DEF Count, Flagged
<1>10. Place(b)'
  BY <1>2, <1>5, <1>8, <1>9 DEF Fine, Place
<1>11. Refs(b)' /\ Owed(b)'
  BY <1>1, <1>5, <1>8, <1>9 DEF Fine, Refs, Owed
<1> QED BY <1>1, <1>2, <1>4, <1>8, <1>10, <1>11, BlockStep DEF Fine

LEMMA TryGetBlockFromInitialPoolStep ==
    ASSUME IInv, NEW t \in Threads, TryGetBlockFromInitialPool(t)
    PROVE  IInv'
<1>1. TypeOK /\ LocalTypes /\ initialBlockPoolIndex \in Nat /\ created \in Nat
      /\ InitialPoolSize \in Nat /\ created >= InitialPoolSize /\ MaxBlocks \in Nat
      /\ MaxBlocks >= InitialPoolSize
  BY PoolAssumption DEF IInv, TypeOK, LocalTypes
<1>2. PICK i \in Nat : i = initialBlockPoolIndex
  BY <1>1
<1>3. /\ pc[t] = "fetchIndex" /\ initialBlockPoolIndex' = i + 1
      /\ UNCHANGED <<created, list, head, node, loaded, return>>
  BY <1>2 DEF TryGetBlockFromInitialPool
<1>4. PICK l \in {"idle", "loadHead"} : Goto(t, l)
  BY DEF TryGetBlockFromInitialPool
<1>5. l \in Labels
  BY DEF Labels
<1>6. pc'[t] = l /\ pc' \in [Threads -> Labels] /\ \A u \in Threads \ {t} : pc'[u] = pc[u]
  BY <1>1, <1>4, <1>5, GotoIs
<1>7. \A u \in Threads \ {t} : Untouched(u)
  BY <1>3, <1>6 DEF Untouched
<1>8. Local(t)' /\ Outside(t) /\ Outside(t)'
  BY <1>3, <1>6 DEF Local, Outside
<1>9. CASE i < InitialPoolSize
  <2>1. PICK b \in Blocks : b = i + 1
    BY <1>1, <1>2, <1>9 DEF Blocks
  <2>2. held' = held \union {b}
    BY <1>2, <1>3, <1>9, <2>1 DEF TryGetBlockFromInitialPool
  <2>3. TypeOK'
    BY <1>1, <1>3, <1>6, <2>1, <2>2 DEF TypeOK, list
  <2>4. Unused(b) /\ ~Unused(b)'
    BY <1>1, <1>2, <1>3, <1>9, <2>1 DEF Unused
  <2>5. \A c \in Blocks \ {b} : Unused(c)' <=> Unused(c)
    BY <1>1, <1>2, <1>3, <1>9, <2>1 DEF Unused, Blocks
  <2> QED BY <1>3, <1>7, <1>8, <2>2, <2>3, <2>4, <2>5, GiveOut
<1>10. CASE ~(i < InitialPoolSize)
  <2>1. held' = held
    BY <1>2, <1>10 DEF TryGetBlockFromInitialPool
  <2>2. TypeOK'
    BY <1>1, <1>3, <1>6, <2>1 DEF TypeOK, list
  <2>3. UNCHANGED <<freeListHead, freeListRefs, freeListNext>>
    BY <1>3 DEF list
  <2>4. OnList' = OnList /\ ListOK'
    BY <2>3, SameList DEF IInv
  <2>5. \A c \in Blocks : Unused(c)' <=> Unused(c)
    BY <1>1, <1>2, <1>3, <1>10 DEF Unused, Blocks
  <2>6. \A c : ~Reading(t, c)' /\ ~Taking(t, c)' /\ ~Linking(t, c)' /\ ~Adding(t, c)'
    BY <1>8 DEF Outside, Reading, Taking, Linking, Adding
  <2>7. \A c \in Blocks : Left(t, c)
    BY <1>8, <2>1, <2>3, <2>4, <2>5, <2>6, OutsideHasNone DEF Left
  <2>8. \A u \in Threads \ {t} : Local(u)'
    BY <1>7, <2>3, LocalStays DEF IInv, Locals
  <2>9. \A c \in Blocks : Fine(c)'
    BY <1>7, <2>7, LeftStaysFine DEF IInv, Fines
  <2> QED BY <1>8, <2>2, <2>4, <2>8, <2>9 DEF IInv, Locals, Fines, Blocks
<1> QED BY <1>9, <1>10

LEMMA CreateStep ==
    ASSUME IInv, NEW t \in Threads, Create(t)
    PROVE  IInv'
<1>1. TypeOK /\ created \in Nat /\ InitialPoolSize \in Nat /\ created >= InitialPoolSize
      /\ MaxBlocks \in Nat
  BY PoolAssumption DEF IInv, TypeOK
<1>2. pc[t] = "create" /\ Return(t) /\ UNCHANGED <<initialBlockPoolIndex, list>>
  BY DEF Create
<1>3. /\ LocalTypes' /\ (\A u \in Threads \ {t} : Untouched(u))
      /\ Outside(t)' /\ Local(t)' /\ Outside(t)
  BY <1>1, <1>2, ReturnIs DEF Outside
<1>4. CASE UNCHANGED <<created, held>>
  <2>1. TypeOK'
    BY <1>1, <1>2, <1>3, <1>4 DEF TypeOK, LocalTypes, list
  <2>2. \A c : ~Reading(t, c)' /\ ~Taking(t, c)' /\ ~Linking(t, c)' /\ ~Adding(t, c)'
    BY <1>3 DEF Outside, Reading, Taking, Linking, Adding
  <2> QED BY <1>2, <1>3, <1>4, <2>1, <2>2, QuietStep, OutsideHasNone
<1>5. CASE created < MaxBlocks /\ created' = created + 1 /\ held' = held \union {created'}
  <2>1. PICK b \in Blocks : b = created + 1
    BY <1>1, <1>5 DEF Blocks
  <2>2. held' = held \union {b} /\ created' = b
    BY <1>5, <2>1
  <2>3. TypeOK'
    <3>1. created' \in InitialPoolSize..MaxBlocks
      BY <1>1, <1>5, <2>1, <2>2
    <3> QED BY <1>1, <1>2, <1>3, <2>2, <3>1 DEF TypeOK, LocalTypes, list
  <2>4. Unused(b) /\ ~Unused(b)'
    BY <1>1, <1>2, <2>1, <2>2 DEF Unused
  <2>5. \A c \in Blocks \ {b} : Unused(c)' <=> Unused(c)
    BY <1>1, <1>2, <2>1, <2>2 DEF Unused, Blocks
  <2> QED BY <1>2, <1>3, <2>2, <2>3, <2>4, <2>5, GiveOut
<1> QED BY <1>4, <1>5 DEF Create

-------------------------------------------------------------------------------
(* A reference is taken on a block only if it has one, so nobody is about  *)
(* to put that block back. *)
LEMMA TakeReference ==
    ASSUME IInv, NEW t \in Threads, NEW b \in Blocks, \A u \in Threads \ {t} : Untouched(u),
           Outside(t), Reading(t, b)', Local(t)', TypeOK',
           REFS_MASK(freeListRefs[b]) # 0,
           freeListRefs' = [freeListRefs EXCEPT ![b] = @ + 1],
           UNCHANGED <<initialBlockPoolIndex, created, held, freeListHead, freeListNext>>
    PROVE  IInv'
<1>1. TypeOK /\ Fine(b) /\ Refs(b)
  BY DEF IInv, Fines, Fine
<1>2. OnList' = OnList /\ ListOK'
  BY SameList DEF IInv
<1>3. \A c : ~Reading(t, c) /\ ~Taking(t, c) /\ ~Linking(t, c) /\ ~Adding(t, c)
  BY OutsideHasNone
<1>4. \A c : /\ ~Taking(t, c)' /\ ~Linking(t, c)' /\ ~Adding(t, c)'
             /\ c # b => ~Reading(t, c)'
  BY DEF Reading, Taking, Linking, Adding
<1>5. freeListRefs'[b] = freeListRefs[b] + 1 /\ \A c \in Blocks \ {b} : freeListRefs'[c] = freeListRefs[c]
  BY <1>1 DEF TypeOK
<1>6. \A c : Unused(c)' <=> Unused(c)
  BY DEF Unused
<1>7. \A c \in Blocks \ {b} : Left(t, c)
  BY <1>2, <1>3, <1>4, <1>5, <1>6 DEF Left
<1>8. Cardinality(Users(b))' = Cardinality(Users(b)) + 1
  <2>1. Uses(t, b)' /\ ~Uses(t, b)
    BY <1>3 DEF Uses
  <2> QED BY <2>1, UsersStep
<1>9. Alone(b)' /\ (Taken(b)' <=> Taken(b)) /\ (Linked(b)' <=> Linked(b)) /\ (Added(b)' <=> Added(b))
  BY <1>1, <1>3, <1>4, RolesStep DEF Fine
<1>10. Count(b)' = Count(b) + 1
  <2>1. (b \in OnList \/ Taken(b))' <=> b \in OnList \/ Taken(b)
    BY <1>2, <1>9
  <2> QED BY <1>8, <2>1, CountIs DEF Count
<1>11. /\ Count(b) \in Nat /\ Count(b) < SHOULD_BE_ON_FREELIST - 1
       /\ SHOULD_BE_ON_FREELIST \in Nat
  BY CountIs
<1>12. /\ REFS_MASK(freeListRefs[b]) = Count(b)
       /\ Flagged(b) <=> freeListRefs[b] = SHOULD_BE_ON_FREELIST + Count(b)
       /\ ~Flagged(b) <=> freeListRefs[b] = Count(b)
  BY <1>1, RefsAre
<1>13. Flagged(b)' <=> Flagged(b)
  BY <1>5, <1>11, <1>12 DEF Flagged
<1>14. Refs(b)'
  BY <1>1, <1>5, <1>10, <1>11 DEF Refs
<1>15. Owed(b)'
  BY <1>1, <1>9, <1>10, <1>11, <1>12 DEF Fine, Owed
<1>16. Place(b)'
  BY <1>1, <1>2, <1>6, <1>9, <1>13 DEF Fine, Place
<1> QED BY <1>2, <1>7, <1>9, <1>14, <1>15, <1>16, BlockStep DEF Fine

LEMMA CasRefsStep ==
    ASSUME IInv, NEW t \in Threads, CasRefs(t)
    PROVE  IInv'
<1>1. TypeOK /\ LocalTypes /\ Local(t)
  BY DEF IInv, TypeOK, LocalTypes, Locals
<1>2. PICK b \in Blocks : b = head[t]
  BY <1>1 DEF CasRefs, Local
<1>3. /\ pc[t] = "casRefs" /\ Forget(t) /\ REFS_MASK(loaded[t]) # 0
      /\ UNCHANGED <<initialBlockPoolIndex, created, held, freeListHead, freeListNext, head>>
  BY <1>1 DEF CasRefs, Local
<1>4. /\ node' = [node EXCEPT ![t] = NoBlock] /\ loaded' = [loaded EXCEPT ![t] = 0]
      /\ return' = [return EXCEPT ![t] = "idle"]
  BY <1>3 DEF Forget
<1>5. PICK l \in {"loadNext", "loadHead"} :
         /\ Goto(t, l)
         /\ l = "loadNext" => /\ freeListRefs[b] = loaded[t]
                              /\ freeListRefs' = [freeListRefs EXCEPT ![b] = @ + 1]
         /\ l = "loadHead" => UNCHANGED freeListRefs
  BY <1>2 DEF CasRefs
<1>6. l \in Labels
  BY DEF Labels
<1>7. pc'[t] = l /\ pc' \in [Threads -> Labels] /\ \A u \in Threads \ {t} : pc'[u] = pc[u]
  BY <1>1, <1>5, <1>6, GotoIs
<1>8. /\ node' \in [Threads -> BlockOrNot] /\ loaded' \in [Threads -> Nat]
      /\ return' \in [Threads -> {"idle", "tryHead"}]
  BY <1>1, <1>4 DEF LocalTypes, BlockOrNot
<1>9. \A u \in Threads \ {t} : Untouched(u)
  BY <1>1, <1>3, <1>4, <1>7 DEF LocalTypes, Untouched
<1>10. Outside(t) /\ Local(t)'
  BY <1>2, <1>3, <1>5, <1>7 DEF Outside, Local
<1>11. CASE l = "loadNext"
  <2>1. freeListRefs' \in [Blocks -> Nat]
    BY <1>1, <1>5, <1>11 DEF TypeOK
  <2>2. TypeOK'
    BY <1>1, <1>3, <1>7, <1>8, <2>1 DEF TypeOK
  <2>3. Reading(t, b)'
    BY <1>2, <1>3, <1>7, <1>11 DEF Reading
  <2> QED BY <1>3, <1>5, <1>9, <1>10, <1>11, <2>2, <2>3, TakeReference
<1>12. CASE l = "loadHead"
  <2>1. TypeOK' /\ Outside(t)' /\ UNCHANGED list
    BY <1>1, <1>3, <1>5, <1>7, <1>8, <1>12 DEF TypeOK, Outside, list
  <2>2. \A c : ~Reading(t, c)' /\ ~Taking(t, c)' /\ ~Linking(t, c)' /\ ~Adding(t, c)'
    BY <2>1 DEF Outside, Reading, Taking, Linking, Adding
  <2> QED BY <1>3, <1>9, <1>10, <2>1, <2>2, QuietStep, OutsideHasNone
<1> QED BY <1>11, <1>12

(* The block at the head is taken off the list; the next pointer that was  *)
(* loaded is still its own. *)
LEMMA CasNextStep ==
    ASSUME IInv, NEW t \in Threads, CasNext(t)
    PROVE  IInv'
<1>1. TypeOK /\ LocalTypes /\ Local(t) /\ ListOK
  BY DEF IInv, TypeOK, LocalTypes, Locals
<1>2. PICK b \in Blocks : b = head[t]
  BY <1>1 DEF CasNext, Local
<1>3. /\ pc[t] = "casNext" /\ loaded' = [loaded EXCEPT ![t] = 0]
      /\ UNCHANGED <<initialBlockPoolIndex, created, held, freeListRefs, freeListNext, return>>
      /\ loaded[t] = freeListNext[b]
  BY <1>1, <1>2 DEF CasNext, Local
<1>4. loaded' \in [Threads -> Nat] /\ \A u \in Threads \ {t} : loaded'[u] = loaded[u]
  BY <1>1, <1>3 DEF LocalTypes
<1>5. Fine(b) /\ Reading(t, b)
  BY <1>2, <1>3 DEF IInv, Fines, Reading
<1>6. CASE freeListHead = b
  <2>1. /\ freeListHead' = freeListNext[b] /\ Goto(t, "dropTwo") /\ UNCHANGED <<head, node>>
    BY <1>2, <1>3, <1>6 DEF CasNext
  <2>2. "dropTwo" \in Labels
    BY DEF Labels
  <2>3. /\ pc'[t] = "dropTwo" /\ pc' \in [Threads -> Labels]
        /\ \A u \in Threads \ {t} : pc'[u] = pc[u]
    BY <1>1, <2>1, <2>2, GotoIs
  <2>4. TypeOK'
    BY <1>1, <1>3, <1>4, <2>1, <2>3 DEF TypeOK
  <2>5. \A u \in Threads \ {t} : Untouched(u)
    BY <1>3, <1>4, <2>1, <2>3 DEF Untouched
  <2>6. Local(t)'
    BY <1>2, <2>1, <2>3 DEF Local
  <2>7. b \in OnList /\ OnList' = OnList \ {b} /\ ListOK'
    BY <1>1, <1>3, <1>6, <2>1, PopList
  <2>8. /\ Taking(t, b)' /\ Uses(t, b) /\ Uses(t, b)'
        /\ ~Taking(t, b) /\ ~Linking(t, b) /\ ~Adding(t, b)
        /\ ~Linking(t, b)' /\ ~Adding(t, b)' /\ ~Reading(t, b)'
    BY <1>2, <1>3, <1>5, <2>1, <2>3 DEF Taking, Linking, Adding, Uses, Reading
  <2>9. ~Taken(b) /\ ~Linked(b) /\ ~Flagged(b) /\ b \notin held /\ ~Unused(b)
    BY <1>5, <2>7 DEF Fine, Place
  <2>10. /\ Alone(b)' /\ Taken(b)' /\ (Linked(b)' <=> Linked(b)) /\ (Added(b)' <=> Added(b))
    BY <1>5, <2>5, <2>8, <2>9, RolesStep DEF Fine
  <2>11. Cardinality(Users(b))' = Cardinality(Users(b))
    BY <2>5, <2>8, UsersStep
  <2>12. Count(b)' = Count(b)
    BY <2>7, <2>10, <2>11 DEF Count
  <2>13. Flagged(b)' <=> Flagged(b)
    BY <1>3 DEF Flagged
  <2>14. Unused(b)' <=> Unused(b)
    BY <1>3 DEF Unused
  <2>15. Place(b)'
    BY <1>3, <2>7, <2>9, <2>10, <2>13, <2>14 DEF Place
  <2>16. Refs(b)' /\ Owed(b)'
    BY <1>3, <1>5, <2>10, <2>12, <2>13 DEF Fine, Refs, Owed
  <2>17. \A c \in Blocks \ {b} : Left(t, c)
    <3>1. \A c \in Blocks \ {b} :
             /\ ~Reading(t, c) /\ ~Taking(t, c) /\ ~Linking(t, c) /\ ~Adding(t, c)
             /\ ~Reading(t, c)' /\ ~Taking(t, c)' /\ ~Linking(t, c)' /\ ~Adding(t, c)'
      BY <1>2, <1>3, <2>1, <2>3 DEF Reading, Taking, Linking, Adding
    <3> QED BY <1>3, <2>7, <3>1 DEF Left, Unused
  <2> QED BY <1>3, <2>4, <2>5, <2>6, <2>7, <2>10, <2>15, <2>16, <2>17, BlockStep DEF Fine
<1>7. CASE freeListHead # b
  <2>1. /\ UNCHANGED freeListHead /\ Goto(t, "dropOne") /\ node' = [node EXCEPT ![t] = b]
        /\ head' = [head EXCEPT ![t] = freeListHead]
    BY <1>2, <1>3, <1>7 DEF CasNext
  <2>2. "dropOne" \in Labels /\ b \in BlockOrNot /\ freeListHead \in BlockOrNot
    BY <1>1 DEF Labels, BlockOrNot, TypeOK
  <2>3. /\ pc'[t] = "dropOne" /\ pc' \in [Threads -> Labels]
        /\ \A u \in Threads \ {t} : pc'[u] = pc[u]
    BY <1>1, <2>1, <2>2, GotoIs
  <2>4. /\ node' \in [Threads -> BlockOrNot] /\ head' \in [Threads -> BlockOrNot]
        /\ node'[t] = b
        /\ \A u \in Threads \ {t} : node'[u] = node[u] /\ head'[u] = head[u]
    BY <1>1, <2>1, <2>2 DEF LocalTypes
  <2>5. TypeOK'
    BY <1>1, <1>3, <1>4, <2>1, <2>3, <2>4 DEF TypeOK
  <2>6. \A u \in Threads \ {t} : Untouched(u)
    BY <1>3, <1>4, <2>3, <2>4 DEF Untouched
  <2>7. Local(t)'
    BY <2>3, <2>4 DEF Local
  <2>8. \A c \in Blocks : /\ Reading(t, c)' <=> Reading(t, c)
                          /\ Taking(t, c)' <=> Taking(t, c)
                          /\ Linking(t, c)' <=> Linking(t, c)
                          /\ Adding(t, c)' <=> Adding(t, c)
    BY <1>2, <1>3, <2>3, <2>4 DEF Reading, Taking, Linking, Adding
  <2> QED BY <1>3, <2>1, <2>5, <2>6, <2>7, <2>8, QuietStep DEF list
<1> QED BY <1>6, <1>7

(* The block taken off the list is given out without its flag. *)
LEMMA DropTwoStep ==
    ASSUME IInv, NEW t \in Threads, DropTwo(t)
    PROVE  IInv'
<1>1. TypeOK /\ LocalTypes /\ Local(t) /\ ListOK
  BY DEF IInv, TypeOK, LocalTypes, Locals
<1>2. PICK b \in Blocks : b = head[t]
  BY <1>1 DEF DropTwo, Local
<1>3. /\ pc[t] = "dropTwo" /\ Return(t) /\ held' = held \union {b}
      /\ freeListRefs' = [freeListRefs EXCEPT ![b] = @ - 2]
      /\ UNCHANGED <<initialBlockPoolIndex, created, freeListHead, freeListNext>>
  BY <1>2 DEF DropTwo
<1>4. /\ LocalTypes' /\ (\A u \in Threads \ {t} : Untouched(u)) /\ Outside(t)' /\ Local(t)'
  BY <1>1, <1>3, ReturnIs
<1>5. Fine(b) /\ Taking(t, b) /\ Uses(t, b)
  BY <1>2, <1>3 DEF IInv, Fines, Taking, Uses
<1>6. /\ Taken(b) /\ ~Linked(b) /\ ~Flagged(b) /\ b \notin held /\ ~Unused(b) /\ b \notin OnList
  BY <1>5 DEF Fine, Place, Taken
<1>7. /\ ~Reading(t, b)' /\ ~Taking(t, b)' /\ ~Linking(t, b)' /\ ~Adding(t, b)' /\ ~Uses(t, b)'
      /\ ~Linking(t, b) /\ ~Adding(t, b) /\ ~Reading(t, b)
  BY <1>3, <1>4 DEF Outside, Reading, Taking, Linking, Adding, Uses
<1>8. Cardinality(Users(b))' = Cardinality(Users(b)) - 1
  BY <1>4, <1>5, <1>7, UsersStep
<1>9. /\ Alone(b)' /\ ~Taken(b)' /\ (Linked(b)' <=> Linked(b)) /\ (Added(b)' <=> Added(b))
  BY <1>4, <1>5, <1>7, RolesStep DEF Fine
<1>10. OnList' = OnList /\ ListOK'
  BY <1>1, <1>3, SameList
<1>11. Cardinality(Users(b)) \in Nat /\ SHOULD_BE_ON_FREELIST \in Nat
       /\ Count(b) \in Nat /\ Count(b) < SHOULD_BE_ON_FREELIST - 1
  BY CountIs
<1>12. Count(b)' = Count(b) - 2 /\ Count(b) = Cardinality(Users(b)) + 1
  BY <1>6, <1>8, <1>9, <1>10, <1>11 DEF Count
<1>13. Count(b)' \in Nat
  <2>1. t \in Users(b)
    BY <1>5 DEF Users
  <2>2. Cardinality(Users(b)) # 0
    BY <2>1, CountIs, FS_EmptySet
  <2> QED BY <1>11, <1>12, <2>2
<1>14. freeListRefs[b] = Count(b) /\ freeListRefs[b] \in Nat
  BY <1>1, <1>5, <1>6, RefsAre DEF Fine, TypeOK
<1>15. freeListRefs'[b] = Count(b)'
       /\ \A c \in Blocks \ {b} : freeListRefs'[c] = freeListRefs[c]
  BY <1>1, <1>3, <1>12, <1>14 DEF TypeOK
<1>16. ~Flagged(b)'
  BY <1>11, <1>12, <1>15 DEF Flagged
<1>17. TypeOK'
  <2>1. freeListRefs' \in [Blocks -> Nat]
    BY <1>1, <1>3, <1>13, <1>15 DEF TypeOK
  <2>2. held' \subseteq Blocks
    BY <1>1, <1>3 DEF TypeOK
  <2> QED BY <1>1, <1>3, <1>4, <2>1, <2>2 DEF TypeOK, LocalTypes
<1>18. Unused(b)' <=> Unused(b)
  BY <1>3 DEF Unused
<1>19. Place(b)'
  BY <1>3, <1>6, <1>9, <1>10, <1>16, <1>18 DEF Place
<1>20. Refs(b)'
  BY <1>15 DEF Refs
<1>21. Owed(b)'
  BY <1>5, <1>6, <1>9, <1>16 DEF Fine, Owed
<1>22. \A c \in Blocks \ {b} : Left(t, c)
  <2>1. \A c \in Blocks \ {b} :
           /\ ~Reading(t, c) /\ ~Taking(t, c) /\ ~Linking(t, c) /\ ~Adding(t, c)
           /\ ~Reading(t, c)' /\ ~Taking(t, c)' /\ ~Linking(t, c)' /\ ~Adding(t, c)'
    BY <1>2, <1>3, <1>4 DEF Outside, Reading, Taking, Linking, Adding
  <2> QED BY <1>3, <1>10, <1>15, <2>1 DEF Left, Unused
<1> QED BY <1>3, <1>4, <1>9, <1>10, <1>17, <1>19, <1>20, <1>21, <1>22, BlockStep DEF Fine

-------------------------------------------------------------------------------
(* Whoever drops the last reference on a block that has been freed         *)
(* meanwhile puts it back. *)
LEMMA DropReference ==
    ASSUME IInv, NEW t \in Threads, NEW b \in Blocks, \A u \in Threads \ {t} : Untouched(u),
           pc[t] = "dropOne", b = node[t],
           freeListRefs' = [freeListRefs EXCEPT ![b] = @ - 1],
           UNCHANGED <<initialBlockPoolIndex, created, held, freeListHead, freeListNext>>,
           LocalTypes', Local(t)',
           IF freeListRefs[b] = SHOULD_BE_ON_FREELIST + 1
              THEN pc'[t] = "addLoadHead" /\ node'[t] = b
              ELSE Outside(t)'
    PROVE  IInv'
<1>1. TypeOK /\ Fine(b) /\ Refs(b) /\ ListOK
  BY DEF IInv, Fines, Fine
<1>2. OnList' = OnList /\ ListOK'
  BY <1>1, SameList
<1>3. /\ Reading(t, b) /\ Uses(t, b) /\ ~Taking(t, b) /\ ~Linking(t, b) /\ ~Adding(t, b)
      /\ ~Reading(t, b)' /\ ~Taking(t, b)' /\ ~Linking(t, b)' /\ ~Uses(t, b)'
  BY DEF Outside, Reading, Taking, Linking, Adding, Uses
<1>4. Adding(t, b)' <=> freeListRefs[b] = SHOULD_BE_ON_FREELIST + 1
  BY DEF Outside, Adding
<1>5. Cardinality(Users(b))' = Cardinality(Users(b)) - 1
  BY <1>3, UsersStep
<1>6. /\ Count(b) \in Nat /\ Count(b) < SHOULD_BE_ON_FREELIST - 1
      /\ SHOULD_BE_ON_FREELIST \in Nat /\ Cardinality(Users(b)) \in Nat
  BY CountIs
<1>7. Count(b) >= 1
  <2>1. t \in Users(b)
    BY <1>3 DEF Users
  <2>2. Cardinality(Users(b)) # 0
    BY <2>1, CountIs, FS_EmptySet
  <2> QED BY <1>6, <2>2 DEF Count
<1>8. /\ Flagged(b) <=> freeListRefs[b] = SHOULD_BE_ON_FREELIST + Count(b)
      /\ ~Flagged(b) <=> freeListRefs[b] = Count(b)
  BY <1>1, RefsAre
<1>9. ~Added(b)
  BY <1>1, <1>6, <1>7 DEF Fine, Owed
<1>10. /\ Alone(b)' /\ (Taken(b)' <=> Taken(b)) /\ (Linked(b)' <=> Linked(b))
       /\ Added(b)' <=> freeListRefs[b] = SHOULD_BE_ON_FREELIST + 1
  BY <1>1, <1>3, <1>4, <1>9, RolesStep DEF Fine
<1>11. Count(b)' = Count(b) - 1
  <2>1. (b \in OnList \/ Taken(b))' <=> b \in OnList \/ Taken(b)
    BY <1>2, <1>10
  <2> QED BY <1>5, <1>6, <2>1 DEF Count
<1>12. /\ freeListRefs'[b] = freeListRefs[b] - 1 /\ freeListRefs[b] \in Nat
       /\ \A c \in Blocks \ {b} : freeListRefs'[c] = freeListRefs[c]
  BY <1>1 DEF TypeOK
<1>13. TypeOK'
  <2>1. freeListRefs[b] - 1 \in Nat
    BY <1>1, <1>6, <1>7, <1>12 DEF Refs
  <2>2. freeListRefs' \in [Blocks -> Nat]
    BY <1>1, <2>1 DEF TypeOK
  <2> QED BY <1>1, <2>2 DEF TypeOK, LocalTypes
<1>14. Flagged(b)' <=> Flagged(b)
  BY <1>6, <1>7, <1>8, <1>12 DEF Flagged
<1>15. Refs(b)'
  BY <1>1, <1>6, <1>7, <1>11, <1>12 DEF Refs
<1>16. Owed(b)'
  <2>1. freeListRefs[b] = SHOULD_BE_ON_FREELIST + 1 <=> Flagged(b) /\ Count(b) = 1
    BY <1>6, <1>8
  <2>2. Count(b)' = 0 <=> Count(b) = 1
    BY <1>6, <1>11
  <2> QED BY <1>10, <1>14, <2>1, <2>2 DEF Owed
<1>17. Unused(b)' <=> Unused(b)
  BY DEF Unused
<1>18. Place(b)'
  BY <1>1, <1>2, <1>10, <1>14, <1>17 DEF Fine, Place
<1>19. \A c \in Blocks \ {b} : Left(t, c)
  <2>1. \A c \in Blocks \ {b} :
           /\ ~Reading(t, c) /\ ~Taking(t, c) /\ ~Linking(t, c) /\ ~Adding(t, c)
           /\ ~Reading(t, c)' /\ ~Taking(t, c)' /\ ~Linking(t, c)' /\ ~Adding(t, c)'
    BY DEF Outside, Reading, Taking, Linking, Adding
  <2> QED BY <1>2, <1>12, <2>1 DEF Left, Unused
<1> QED BY <1>2, <1>10, <1>13, <1>15, <1>16, <1>18, <1>19, BlockStep DEF Fine

LEMMA DropOneStep ==
    ASSUME IInv, NEW t \in Threads, DropOne(t)
    PROVE  IInv'
<1>1. TypeOK /\ LocalTypes /\ Local(t)
  BY DEF IInv, TypeOK, LocalTypes, Locals
<1>2. PICK b \in Blocks : b = node[t]
  BY <1>1 DEF DropOne, Local
<1>3. /\ pc[t] = "dropOne"
      /\ freeListRefs' = [freeListRefs EXCEPT ![b] = @ - 1]
      /\ UNCHANGED <<initialBlockPoolIndex, created, held, freeListHead, freeListNext>>
  BY <1>2 DEF DropOne
<1>4. CASE freeListRefs[b] = SHOULD_BE_ON_FREELIST + 1
  <2>1. /\ Goto(t, "addLoadHead") /\ return' = [return EXCEPT ![t] = "tryHead"]
        /\ UNCHANGED <<head, node, loaded>>
    BY <1>2, <1>4 DEF DropOne
  <2>2. "addLoadHead" \in Labels
    BY DEF Labels
  <2>3. /\ pc'[t] = "addLoadHead" /\ pc' \in [Threads -> Labels]
        /\ \A u \in Threads \ {t} : pc'[u] = pc[u]
    BY <1>1, <2>1, <2>2, GotoIs
  <2>4. LocalTypes' /\ \A u \in Threads \ {t} : Untouched(u)
    BY <1>1, <2>1, <2>3 DEF LocalTypes, Untouched
  <2>5. Local(t)' /\ node'[t] = b
    BY <1>2, <2>1, <2>3 DEF Local
  <2> QED BY <1>2, <1>3, <1>4, <2>3, <2>4, <2>5, DropReference
<1>5. CASE freeListRefs[b] # SHOULD_BE_ON_FREELIST + 1
  <2>1. TryHead(t, head[t]) /\ head[t] \in BlockOrNot
    BY <1>1, <1>2, <1>5 DEF DropOne, TypeOK
  <2>2. /\ LocalTypes' /\ (\A u \in Threads \ {t} : Untouched(u))
        /\ Outside(t)' /\ Local(t)'
    BY <1>1, <2>1, TryHeadIs
  <2> QED BY <1>2, <1>3, <1>5, <2>2, DropReference
<1> QED BY <1>4, <1>5

-------------------------------------------------------------------------------
(* A block that is freed is flagged, and put back at once if nobody has a  *)
(* reference on it. *)
LEMMA AddStep ==
    ASSUME IInv, NEW t \in Threads, NEW b \in Blocks, Add(t, b)
    PROVE  IInv'
<1>1. TypeOK /\ LocalTypes /\ Local(t) /\ ListOK /\ Fine(b) /\ Refs(b)
  BY DEF IInv, TypeOK, LocalTypes, Locals, Fines, Fine
<1>2. /\ pc[t] = "idle" /\ b \in held /\ held' = held \ {b}
      /\ freeListRefs' = [freeListRefs EXCEPT ![b] = @ + SHOULD_BE_ON_FREELIST]
      /\ UNCHANGED <<initialBlockPoolIndex, created, freeListHead, freeListNext, head, loaded>>
  BY DEF Add
<1>3. OnList' = OnList /\ ListOK'
  BY <1>1, <1>2, SameList
<1>4. /\ ~(b \in OnList) /\ ~Flagged(b) /\ ~Linked(b) /\ ~Taken(b) /\ ~Unused(b)
  BY <1>1, <1>2 DEF Fine, Place
<1>5. /\ Count(b) \in Nat /\ SHOULD_BE_ON_FREELIST \in Nat /\ freeListRefs[b] = Count(b)
      /\ ~Added(b)
  BY <1>1, <1>4, CountIs, RefsAre DEF Fine, Owed
<1>6. /\ freeListRefs'[b] = freeListRefs[b] + SHOULD_BE_ON_FREELIST
      /\ freeListRefs' \in [Blocks -> Nat]
      /\ \A c \in Blocks \ {b} : freeListRefs'[c] = freeListRefs[c]
  BY <1>1, <1>2, <1>5 DEF TypeOK
<1>7. /\ LocalTypes' /\ Local(t)' /\ (\A u \in Threads \ {t} : Untouched(u))
      /\ \/ freeListRefs[b] = 0 /\ pc'[t] = "addLoadHead" /\ node'[t] = b
         \/ freeListRefs[b] # 0 /\ pc'[t] = "idle"
  <2>1. CASE freeListRefs[b] = 0
    <3>1. /\ Goto(t, "addLoadHead") /\ node' = [node EXCEPT ![t] = b]
          /\ return' = [return EXCEPT ![t] = "idle"]
      BY <2>1 DEF Add
    <3>2. "addLoadHead" \in Labels /\ b \in BlockOrNot
      BY DEF Labels, BlockOrNot
    <3>3. /\ pc'[t] = "addLoadHead" /\ pc' \in [Threads -> Labels]
          /\ \A u \in Threads \ {t} : pc'[u] = pc[u]
      BY <1>1, <3>1, <3>2, GotoIs
    <3>4. node'[t] = b /\ LocalTypes' /\ \A u \in Threads \ {t} : Untouched(u)
      BY <1>1, <1>2, <3>1, <3>2, <3>3 DEF LocalTypes, Untouched
    <3> QED BY <2>1, <3>3, <3>4 DEF Local
  <2>2. CASE freeListRefs[b] # 0
    <3>1. UNCHANGED <<pc, node, return, head, loaded>>
      BY <1>2, <2>2 DEF Add
    <3> QED BY <1>1, <1>2, <2>2, <3>1 DEF LocalTypes, Local, Untouched
  <2> QED BY <2>1, <2>2
<1>8. TypeOK'
  BY <1>1, <1>2, <1>6, <1>7 DEF TypeOK, LocalTypes
<1>9. \A c : ~Reading(t, c) /\ ~Taking(t, c) /\ ~Linking(t, c) /\ ~Adding(t, c) /\ ~Uses(t, c)
  BY <1>2, OutsideHasNone DEF Outside
<1>10. /\ \A c : ~Reading(t, c)' /\ ~Taking(t, c)' /\ ~Linking(t, c)' /\ ~Uses(t, c)'
       /\ \A c : Adding(t, c)' <=> c = b /\ freeListRefs[b] = 0
  BY <1>7 DEF Reading, Taking, Linking, Adding, Uses
<1>11. Cardinality(Users(b))' = Cardinality(Users(b))
  BY <1>7, <1>9, <1>10, UsersStep
<1>12. /\ Alone(b)' /\ (Taken(b)' <=> Taken(b)) /\ (Linked(b)' <=> Linked(b))
       /\ Added(b)' <=> freeListRefs[b] = 0
  BY <1>1, <1>5, <1>7, <1>9, <1>10, RolesStep DEF Fine
<1>13. Count(b)' = Count(b)
  BY <1>3, <1>11, <1>12 DEF Count
<1>14. Flagged(b)'
  BY <1>5, <1>6 DEF Flagged
<1>15. Refs(b)' /\ Owed(b)'
  BY <1>5, <1>6, <1>12, <1>13, <1>14 DEF Refs, Owed
<1>16. Unused(b)' <=> Unused(b)
  BY <1>2 DEF Unused
<1>17. Place(b)'
  BY <1>2, <1>3, <1>4, <1>12, <1>14, <1>16 DEF Place
<1>18. \A c \in Blocks \ {b} : Left(t, c)
  BY <1>2, <1>3, <1>6, <1>9, <1>10 DEF Left, Unused
<1> QED BY <1>2, <1>3, <1>7, <1>8, <1>12, <1>15, <1>17, <1>18, BlockStep DEF Fine

LEMMA UsedCounts ==
    ASSUME NEW b, NEW t \in Threads, Uses(t, b)
    PROVE  Cardinality(Users(b)) # 0 /\ Count(b) # 0
<1>1. t \in Users(b)
  BY DEF Users
<1>2. Cardinality(Users(b)) # 0 /\ Cardinality(Users(b)) \in Nat
  BY <1>1, CountIs, FS_EmptySet
<1> QED BY <1>2 DEF Count

(* Nobody reads the next pointer that is set. *)
LEMMA StoreNextStep ==
    ASSUME IInv, NEW t \in Threads, StoreNext(t)
    PROVE  IInv'
<1>1. TypeOK /\ LocalTypes /\ Local(t) /\ ListOK
  BY DEF IInv, TypeOK, LocalTypes, Locals
<1>2. PICK b \in Blocks : b = node[t]
  BY <1>1 DEF StoreNext, Local
<1>3. PICK n \in BlockOrNot : n = loaded[t]
  BY <1>1 DEF StoreNext, Local
<1>4. /\ pc[t] = "storeNext" /\ Goto(t, "storeRefs") /\ "storeRefs" \in Labels
      /\ freeListNext' = [freeListNext EXCEPT ![b] = n]
      /\ UNCHANGED <<initialBlockPoolIndex, created, held, freeListHead, freeListRefs, head,
                     node, loaded, return>>
  BY <1>2, <1>3 DEF StoreNext, Labels
<1>5. /\ pc'[t] = "storeRefs" /\ pc' \in [Threads -> Labels]
      /\ \A u \in Threads \ {t} : pc'[u] = pc[u]
  BY <1>1, <1>4, GotoIs
<1>6. /\ freeListNext' \in [Blocks -> BlockOrNot] /\ freeListNext'[b] = n
      /\ \A c \in Blocks \ {b} : freeListNext'[c] = freeListNext[c]
  BY <1>1, <1>4 DEF TypeOK
<1>7. TypeOK' /\ \A u \in Threads \ {t} : Untouched(u)
  BY <1>1, <1>4, <1>5, <1>6 DEF TypeOK, Untouched
<1>8. Local(t)'
  BY <1>2, <1>3, <1>4, <1>5, <1>6 DEF Local
<1>9. Fine(b) /\ Adding(t, b)
  BY <1>2, <1>4 DEF IInv, Fines, Adding
<1>10. /\ Added(b) /\ Flagged(b) /\ Count(b) = 0 /\ b \notin OnList /\ ~Linked(b)
  BY <1>9 DEF Fine, Owed, Place, Added
<1>11. OnList \subseteq Blocks
  BY DEF OnList
<1>12. OnList' = OnList /\ ListOK'
  BY <1>1, <1>4, <1>6, <1>10, <1>11, SameList
<1>13. ASSUME NEW u \in Threads \ {t}
       PROVE  Local(u)'
  <2>1. Local(u) /\ Untouched(u)
    BY <1>7 DEF IInv, Locals
  <2>2. ASSUME pc[u] = "casNext"
        PROVE  freeListNext'[head[u]] = freeListNext[head[u]]
    <3>1. head[u] \in Blocks
      BY <2>1, <2>2 DEF Local
    <3>2. CASE head[u] = b
      <4>1. Uses(u, b)
        BY <2>2, <3>2 DEF Uses, Reading
      <4> QED BY <1>10, <4>1, UsedCounts
    <3>3. CASE head[u] # b
      BY <1>6, <3>1, <3>3
    <3> QED BY <3>2, <3>3
  <2>3. ASSUME pc[u] \in {"storeRefs", "casHead"}
        PROVE  freeListNext'[node[u]] = freeListNext[node[u]]
    <3>1. node[u] \in Blocks
      BY <2>1, <2>3 DEF Local
    <3>2. CASE node[u] = b
      <4>1. Adding(u, b) \/ Linking(u, b)
        BY <2>3, <3>2 DEF Adding, Linking
      <4> QED BY <1>9, <1>10, <1>13, <4>1 DEF Fine, Alone, Linked
    <3>3. CASE node[u] # b
      BY <1>6, <3>1, <3>3
    <3> QED BY <3>2, <3>3
  <2> QED BY <2>1, <2>2, <2>3, LocalStays
<1>14. \A c \in Blocks : Left(t, c)
  <2>1. \A c \in Blocks : /\ Reading(t, c)' <=> Reading(t, c)
                          /\ Taking(t, c)' <=> Taking(t, c)
                          /\ Linking(t, c)' <=> Linking(t, c)
                          /\ Adding(t, c)' <=> Adding(t, c)
    BY <1>4, <1>5 DEF Reading, Taking, Linking, Adding
  <2> QED BY <1>4, <1>12, <2>1 DEF Left, Unused
<1>15. ASSUME NEW c \in Blocks
       PROVE  Fine(c)'
  BY <1>7, <1>14, <1>15, LeftStaysFine DEF IInv, Fines
<1> QED BY <1>7, <1>8, <1>12, <1>13, <1>15 DEF IInv, Locals, Fines, Blocks

LEMMA StoreRefsStep ==
    ASSUME IInv, NEW t \in Threads, StoreRefs(t)
    PROVE  IInv'
<1>1. TypeOK /\ LocalTypes /\ Local(t) /\ ListOK
  BY DEF IInv, TypeOK, LocalTypes, Locals
<1>2. PICK b \in Blocks : b = node[t]
  BY <1>1 DEF StoreRefs, Local
<1>3. /\ pc[t] = "storeRefs" /\ Goto(t, "casHead") /\ "casHead" \in Labels
      /\ freeListRefs' = [freeListRefs EXCEPT ![b] = 1]
      /\ UNCHANGED <<initialBlockPoolIndex, created, held, freeListHead, freeListNext, head,
                     node, loaded, return>>
  BY <1>2 DEF StoreRefs, Labels
<1>4. /\ pc'[t] = "casHead" /\ pc' \in [Threads -> Labels]
      /\ \A u \in Threads \ {t} : pc'[u] = pc[u]
  BY <1>1, <1>3, GotoIs
<1>5. /\ freeListRefs' \in [Blocks -> Nat] /\ freeListRefs'[b] = 1
      /\ \A c \in Blocks \ {b} : freeListRefs'[c] = freeListRefs[c]
  BY <1>1, <1>3 DEF TypeOK
<1>6. TypeOK' /\ \A u \in Threads \ {t} : Untouched(u)
  BY <1>1, <1>3, <1>4, <1>5 DEF TypeOK, Untouched
<1>7. Local(t)'
  BY <1>1, <1>3, <1>4 DEF Local
<1>8. Fine(b) /\ Adding(t, b)
  BY <1>2, <1>3 DEF IInv, Fines, Adding
<1>9. /\ Added(b) /\ Flagged(b) /\ Count(b) = 0 /\ b \notin OnList /\ ~Linked(b) /\ ~Taken(b)
      /\ b \notin held /\ ~Unused(b)
  BY <1>8 DEF Fine, Owed, Place, Added
<1>10. OnList' = OnList /\ ListOK'
  BY <1>1, <1>3, SameList
<1>11. /\ ~Reading(t, b) /\ ~Taking(t, b) /\ ~Linking(t, b) /\ ~Uses(t, b)
       /\ ~Taking(t, b)' /\ Linking(t, b)' /\ ~Adding(t, b)' /\ Uses(t, b)'
  BY <1>2, <1>3, <1>4 DEF Reading, Taking, Linking, Adding, Uses
<1>12. Cardinality(Users(b))' = Cardinality(Users(b)) + 1
  BY <1>6, <1>11, UsersStep
<1>13. /\ Alone(b)' /\ ~Taken(b)' /\ Linked(b)'
       /\ Added(b)' <=> (Added(b) /\ ~Adding(t, b))
  BY <1>6, <1>8, <1>9, <1>11, RolesStep DEF Fine
<1>14. ~Added(b)'
  BY <1>8, <1>13
<1>15. Count(b)' = 1 /\ SHOULD_BE_ON_FREELIST \in Nat /\ SHOULD_BE_ON_FREELIST > 1
  <2>1. Cardinality(Users(b)) = 0
    BY <1>9, CountIs DEF Count
  <2> QED BY <1>9, <1>10, <1>12, <1>13, <2>1, CountIs DEF Count
<1>16. ~Flagged(b)' /\ Refs(b)' /\ Owed(b)'
  BY <1>5, <1>14, <1>15 DEF Flagged, Refs, Owed
<1>17. Unused(b)' <=> Unused(b)
  BY <1>3 DEF Unused
<1>18. Place(b)'
  BY <1>3, <1>9, <1>10, <1>13, <1>16, <1>17 DEF Place
<1>19. \A c \in Blocks \ {b} : Left(t, c)
  <2>1. \A c \in Blocks \ {b} :
           /\ ~Reading(t, c) /\ ~Taking(t, c) /\ ~Linking(t, c) /\ ~Adding(t, c)
           /\ ~Reading(t, c)' /\ ~Taking(t, c)' /\ ~Linking(t, c)' /\ ~Adding(t, c)'
    BY <1>2, <1>3, <1>4 DEF Reading, Taking, Linking, Adding
  <2> QED BY <1>3, <1>5, <1>10, <2>1 DEF Left, Unused
<1> QED BY <1>3, <1>6, <1>7, <1>10, <1>13, <1>16, <1>18, <1>19, BlockStep DEF Fine

LEMMA CasHeadStep ==
    ASSUME IInv, NEW t \in Threads, CasHead(t)
    PROVE  IInv'
<1>1. TypeOK /\ LocalTypes /\ Local(t) /\ ListOK
  BY DEF IInv, TypeOK, LocalTypes, Locals
<1>2. PICK b \in Blocks : b = node[t]
  BY <1>1 DEF CasHead, Local
<1>3. /\ pc[t] = "casHead" /\ loaded[t] = freeListNext[b]
      /\ UNCHANGED <<initialBlockPoolIndex, created, held, freeListRefs, freeListNext>>
  BY <1>1, <1>2 DEF CasHead, Local
<1>4. CASE freeListHead = loaded[t]
  <2>1. freeListHead' = b /\ AddReturns(t)
    BY <1>2, <1>4 DEF CasHead
  <2>2. /\ LocalTypes' /\ (\A u \in Threads \ {t} : Untouched(u))
        /\ Outside(t)' /\ Local(t)'
    BY <1>1, <2>1, AddReturnsIs
  <2>3. TypeOK'
    BY <1>1, <1>3, <2>1, <2>2 DEF TypeOK, LocalTypes, BlockOrNot
  <2>4. Fine(b) /\ Linking(t, b)
    BY <1>2, <1>3 DEF IInv, Fines, Linking
  <2>5. /\ Linked(b) /\ ~Flagged(b) /\ b \notin OnList /\ ~Taken(b) /\ b \notin held /\ ~Unused(b)
    BY <2>4 DEF Fine, Place, Linked
  <2>6. OnList' = OnList \union {b} /\ ListOK'
    BY <1>1, <1>3, <1>4, <2>1, <2>5, PushList
  <2>7. /\ ~Reading(t, b) /\ ~Taking(t, b) /\ ~Adding(t, b) /\ Uses(t, b)
        /\ ~Reading(t, b)' /\ ~Taking(t, b)' /\ ~Linking(t, b)' /\ ~Adding(t, b)' /\ ~Uses(t, b)'
    BY <1>2, <1>3, <2>2 DEF Outside, Reading, Taking, Linking, Adding, Uses
  <2>8. Cardinality(Users(b))' = Cardinality(Users(b)) - 1
    BY <2>2, <2>7, UsersStep
  <2>9. /\ Alone(b)' /\ ~Taken(b)' /\ (Added(b)' <=> Added(b))
        /\ Linked(b)' <=> (Linked(b) /\ ~Linking(t, b))
    BY <2>2, <2>4, <2>5, <2>7, RolesStep DEF Fine
  <2>10. ~Linked(b)'
    BY <2>4, <2>9
  <2>11. Count(b)' = Count(b)
    <3>1. Cardinality(Users(b)) \in Nat
      BY CountIs
    <3> QED BY <2>5, <2>6, <2>8, <3>1 DEF Count
  <2>12. ~Flagged(b)' /\ (Unused(b)' <=> Unused(b))
    BY <1>3, <2>5 DEF Flagged, Unused
  <2>13. Refs(b)' /\ Owed(b)'
    BY <1>3, <2>4, <2>5, <2>9, <2>11, <2>12 DEF Fine, Refs, Owed
  <2>14. Place(b)'
    BY <1>3, <2>5, <2>6, <2>9, <2>10, <2>12 DEF Place
  <2>15. \A c \in Blocks \ {b} : Left(t, c)
    <3>1. \A c \in Blocks \ {b} :
             /\ ~Reading(t, c) /\ ~Taking(t, c) /\ ~Linking(t, c) /\ ~Adding(t, c)
             /\ ~Reading(t, c)' /\ ~Taking(t, c)' /\ ~Linking(t, c)' /\ ~Adding(t, c)'
      BY <1>2, <1>3, <2>2 DEF Outside, Reading, Taking, Linking, Adding
    <3> QED BY <1>3, <2>6, <3>1 DEF Left, Unused
  <2> QED BY <1>3, <2>2, <2>3, <2>6, <2>9, <2>13, <2>14, <2>15, BlockStep DEF Fine
<1>5. CASE freeListHead # loaded[t]
  <2>1. /\ UNCHANGED <<freeListHead, head, node, return>>
        /\ loaded' = [loaded EXCEPT ![t] = freeListHead] /\ Goto(t, "restoreFlag")
    BY <1>5 DEF CasHead
  <2>2. "restoreFlag" \in Labels /\ freeListHead \in Nat /\ freeListHead \in BlockOrNot
    BY <1>1, NoBlockIs DEF Labels, TypeOK, BlockOrNot
  <2>3. /\ pc'[t] = "restoreFlag" /\ pc' \in [Threads -> Labels]
        /\ \A u \in Threads \ {t} : pc'[u] = pc[u]
    BY <1>1, <2>1, <2>2, GotoIs
  <2>4. loaded' \in [Threads -> Nat] /\ loaded'[t] = freeListHead
        /\ \A u \in Threads \ {t} : loaded'[u] = loaded[u]
    BY <1>1, <2>1, <2>2 DEF LocalTypes
  <2>5. TypeOK' /\ \A u \in Threads \ {t} : Untouched(u)
    BY <1>1, <1>3, <2>1, <2>3, <2>4 DEF TypeOK, Untouched
  <2>6. Local(t)'
    BY <1>2, <2>1, <2>2, <2>3, <2>4 DEF Local
  <2>7. \A c \in Blocks : /\ Reading(t, c)' <=> Reading(t, c)
                          /\ Taking(t, c)' <=> Taking(t, c)
                          /\ Linking(t, c)' <=> Linking(t, c)
                          /\ Adding(t, c)' <=> Adding(t, c)
    BY <1>3, <2>1, <2>3 DEF Reading, Taking, Linking, Adding
  <2> QED BY <1>3, <2>1, <2>5, <2>6, <2>7, QuietStep DEF list
<1> QED BY <1>4, <1>5

(* A block that could not be put back is owed again, by this thread if it  *)
(* has no other references. *)
LEMMA RestoreFlagStep ==
    ASSUME IInv, NEW t \in Threads, RestoreFlag(t)
    PROVE  IInv'
<1>1. TypeOK /\ LocalTypes /\ Local(t) /\ ListOK
  BY DEF IInv, TypeOK, LocalTypes, Locals
<1>2. PICK b \in Blocks : b = node[t]
  BY <1>1 DEF RestoreFlag, Local
<1>3. /\ pc[t] = "restoreFlag" /\ loaded[t] \in BlockOrNot
      /\ freeListRefs' = [freeListRefs EXCEPT ![b] = @ + SHOULD_BE_ON_FREELIST - 1]
      /\ UNCHANGED <<initialBlockPoolIndex, created, held, freeListHead, freeListNext>>
  BY <1>1, <1>2 DEF RestoreFlag, Local
<1>4. /\ LocalTypes' /\ Local(t)' /\ (\A u \in Threads \ {t} : Untouched(u))
      /\ \/ freeListRefs[b] = 1 /\ pc'[t] = "storeNext" /\ node'[t] = b
         \/ freeListRefs[b] # 1 /\ Outside(t)'
  <2>1. CASE freeListRefs[b] = 1
    <3>1. Goto(t, "storeNext") /\ UNCHANGED <<head, node, loaded, return>> /\ "storeNext" \in Labels
      BY <1>2, <2>1 DEF RestoreFlag, Labels
    <3>2. /\ pc'[t] = "storeNext" /\ pc' \in [Threads -> Labels]
          /\ \A u \in Threads \ {t} : pc'[u] = pc[u]
      BY <1>1, <3>1, GotoIs
    <3> QED BY <1>1, <1>2, <1>3, <2>1, <3>1, <3>2 DEF LocalTypes, Local, Untouched
  <2>2. CASE freeListRefs[b] # 1
    <3>1. AddReturns(t)
      BY <1>2, <2>2 DEF RestoreFlag
    <3> QED BY <1>1, <2>2, <3>1, AddReturnsIs
  <2> QED BY <2>1, <2>2
<1>5. Fine(b) /\ Linking(t, b)
  BY <1>2, <1>3 DEF IInv, Fines, Linking
<1>6. /\ Linked(b) /\ ~Flagged(b) /\ b \notin OnList /\ ~Taken(b) /\ b \notin held /\ ~Unused(b)
      /\ ~Added(b)
  BY <1>5 DEF Fine, Place, Linked, Owed
<1>7. OnList' = OnList /\ ListOK'
  BY <1>1, <1>3, SameList
<1>8. /\ ~Reading(t, b) /\ ~Taking(t, b) /\ ~Adding(t, b) /\ Uses(t, b)
      /\ ~Reading(t, b)' /\ ~Taking(t, b)' /\ ~Linking(t, b)' /\ ~Uses(t, b)'
      /\ Adding(t, b)' <=> freeListRefs[b] = 1
  BY <1>2, <1>3, <1>4 DEF Outside, Reading, Taking, Linking, Adding, Uses
<1>9. Cardinality(Users(b))' = Cardinality(Users(b)) - 1
  BY <1>4, <1>8, UsersStep
<1>10. /\ Alone(b)' /\ ~Taken(b)' /\ (Added(b)' <=> freeListRefs[b] = 1)
       /\ Linked(b)' <=> (Linked(b) /\ ~Linking(t, b))
  BY <1>4, <1>5, <1>6, <1>8, RolesStep DEF Fine
<1>11. ~Linked(b)'
  BY <1>5, <1>10
<1>12. /\ Count(b) \in Nat /\ Count(b) # 0 /\ SHOULD_BE_ON_FREELIST \in Nat
       /\ Cardinality(Users(b)) \in Nat /\ Count(b) = Cardinality(Users(b))
  BY <1>6, <1>8, CountIs, UsedCounts DEF Count
<1>13. Count(b)' = Count(b) - 1
  BY <1>6, <1>7, <1>9, <1>10, <1>12 DEF Count
<1>14. freeListRefs[b] = Count(b)
  BY <1>1, <1>5, <1>6, RefsAre DEF Fine
<1>15. /\ freeListRefs'[b] = SHOULD_BE_ON_FREELIST + Count(b) - 1
       /\ freeListRefs' \in [Blocks -> Nat]
       /\ \A c \in Blocks \ {b} : freeListRefs'[c] = freeListRefs[c]
  BY <1>1, <1>3, <1>12, <1>14 DEF TypeOK
<1>16. TypeOK'
  BY <1>1, <1>3, <1>4, <1>15 DEF TypeOK, LocalTypes
<1>17. Flagged(b)' /\ Refs(b)' /\ Owed(b)'
  BY <1>10, <1>12, <1>13, <1>14, <1>15 DEF Flagged, Refs, Owed
<1>18. Unused(b)' <=> Unused(b)
  BY <1>3 DEF Unused
<1>19. Place(b)'
  BY <1>3, <1>6, <1>7, <1>10, <1>11, <1>17, <1>18 DEF Place
<1>20. \A c \in Blocks \ {b} : Left(t, c)
  <2>1. \A c \in Blocks \ {b} :
           /\ ~Reading(t, c) /\ ~Taking(t, c) /\ ~Linking(t, c) /\ ~Adding(t, c)
           /\ ~Reading(t, c)' /\ ~Taking(t, c)' /\ ~Linking(t, c)' /\ ~Adding(t, c)'
    BY <1>2, <1>3, <1>4 DEF Outside, Reading, Taking, Linking, Adding
  <2> QED BY <1>3, <1>7, <1>15, <2>1 DEF Left, Unused
<1> QED BY <1>3, <1>4, <1>7, <1>10, <1>16, <1>17, <1>19, <1>20, BlockStep DEF Fine

-------------------------------------------------------------------------------
LEMMA InitIInv == Init => IInv
<1> SUFFICES ASSUME Init PROVE IInv
  OBVIOUS
<1>1. \A t \in Threads : pc[t] = "idle"
  BY DEF Init
<1>2. TypeOK
  <2>1. /\ NoBlock \in BlockOrNot /\ 0 \in Nat /\ "idle" \in Labels
        /\ InitialPoolSize \in InitialPoolSize..MaxBlocks
    BY PoolAssumption DEF BlockOrNot, Labels
  <2> QED BY <2>1 DEF Init, TypeOK
<1>3. Locals
  BY <1>1 DEF Locals, Local
<1>4. OnList = {}
  <2>1. freeListHead = NoBlock
    BY DEF Init
  <2>2. Closed({}) /\ {} \in SUBSET Blocks
    BY <2>1 DEF Closed
  <2> QED BY <2>2, InClosed
<1>5. ListOK
  <2>1. freeListHead = NoBlock
    BY DEF Init
  <2> QED BY <1>4, <2>1 DEF ListOK, ListEnds
<1>6. ASSUME NEW b \in Blocks
      PROVE  Fine(b)
  <2>1. \A t \in Threads : ~Uses(t, b) /\ ~Taking(t, b) /\ ~Linking(t, b) /\ ~Adding(t, b)
    BY <1>1 DEF Uses, Reading, Taking, Linking, Adding
  <2>2. Users(b) = {} /\ ~Taken(b) /\ ~Linked(b) /\ ~Added(b)
    BY <2>1 DEF Users, Taken, Linked, Added
  <2>3. Count(b) = 0
    BY <1>4, <2>2, FS_EmptySet DEF Count
  <2>4. freeListRefs[b] = 0 /\ b \notin held
    BY DEF Init
  <2>5. ~Flagged(b) /\ Refs(b)
    BY <2>3, <2>4, CountIs, PoolAssumption DEF Flagged, Refs
  <2>6. Unused(b)
    BY PoolAssumption DEF Init, Unused, Blocks
  <2>7. Place(b)
    BY <1>4, <2>2, <2>4, <2>5, <2>6 DEF Place
  <2>8. Alone(b) /\ Owed(b)
    BY <2>1, <2>2, <2>5 DEF Alone, Owed
  <2> QED BY <2>5, <2>7, <2>8 DEF Fine
<1> QED BY <1>2, <1>3, <1>5, <1>6 DEF IInv, Fines

LEMMA StutterIInv == IInv /\ UNCHANGED vars => IInv'
<1> SUFFICES ASSUME IInv, UNCHANGED vars PROVE IInv'
  OBVIOUS
<1>1. UNCHANGED <<initialBlockPoolIndex, created, held, freeListHead, freeListRefs, freeListNext,
                  pc, head, node, loaded, return>>
  BY DEF vars, list
<1>2. TypeOK'
  BY <1>1 DEF IInv, TypeOK
<1>3. Locals'
  BY <1>1 DEF IInv, Locals, Local
<1>4. OnList' = OnList /\ ListOK'
  BY <1>1, SameList DEF IInv
<1>5. ASSUME NEW b \in Blocks
      PROVE  Fine(b)'
  <2>1. \A t \in Threads : /\ Uses(t, b)' <=> Uses(t, b)
                           /\ Taking(t, b)' <=> Taking(t, b)
                           /\ Linking(t, b)' <=> Linking(t, b)
                           /\ Adding(t, b)' <=> Adding(t, b)
    BY <1>1 DEF Uses, Reading, Taking, Linking, Adding
  <2>2. Fine(b) /\ Users(b)' = Users(b)
    BY <2>1 DEF IInv, Fines, Users
  <2>3. /\ Taken(b)' <=> Taken(b)
        /\ Linked(b)' <=> Linked(b)
        /\ Added(b)' <=> Added(b)
        /\ Alone(b)'
    BY <2>1, <2>2 DEF Taken, Linked, Added, Alone, Fine
  <2>4. Count(b)' = Count(b)
    BY <1>4, <2>2, <2>3 DEF Count
  <2>5. (Flagged(b)' <=> Flagged(b)) /\ (Unused(b)' <=> Unused(b))
    BY <1>1 DEF Flagged, Unused
  <2>6. Place(b)'
    BY <1>1, <1>4, <2>2, <2>3, <2>5 DEF Fine, Place
  <2>7. Refs(b)' /\ Owed(b)'
    BY <1>1, <2>2, <2>3, <2>4, <2>5 DEF Fine, Refs, Owed
  <2> QED BY <2>3, <2>6, <2>7 DEF Fine
<1>6. Fines'
  BY <1>5 DEF Fines, Blocks
<1> QED BY <1>2, <1>3, <1>4, <1>6 DEF IInv

LEMMA NextIInv == IInv /\ [Next]_vars => IInv'
<1> SUFFICES ASSUME IInv, [Next]_vars PROVE IInv'
  OBVIOUS
<1>1. CASE UNCHANGED vars
  BY <1>1, StutterIInv
<1>2. ASSUME NEW t \in Threads, RequisitionBlock(t) PROVE IInv'
  BY <1>2, RequisitionBlockStep
<1>3. ASSUME NEW t \in Threads, NEW b \in Blocks, Add(t, b) PROVE IInv'
  BY <1>3, AddStep
<1>4. ASSUME NEW t \in Threads, TryGetBlockFromInitialPool(t) PROVE IInv'
  BY <1>4, TryGetBlockFromInitialPoolStep
<1>5. ASSUME NEW t \in Threads, Create(t) PROVE IInv'
  BY <1>5, CreateStep
<1>6. ASSUME NEW t \in Threads, TryGet(t) PROVE IInv'
  BY <1>6, LoadHeadStep, LoadRefsStep, CasRefsStep, LoadNextStep, CasNextStep, DropTwoStep,
     DropOneStep DEF TryGet
<1>7. ASSUME NEW t \in Threads, AddKnowingRefcountIsZero(t) PROVE IInv'
  BY <1>7, AddLoadHeadStep, StoreNextStep, StoreRefsStep, CasHeadStep, RestoreFlagStep
     DEF AddKnowingRefcountIsZero
<1> QED BY <1>1, <1>2, <1>3, <1>4, <1>5, <1>6, <1>7 DEF Next, Step

(* The places and the references of the blocks, for any number of threads *)
(* that take and give back blocks at once. *)
THEOREM Invariance == Spec => []IInv
<1> QED BY InitIInv, NextIInv, PTL DEF Spec

-------------------------------------------------------------------------------
LEMMA OneOrNone ==
    ASSUME NEW S, IsFiniteSet(S), \A x, y \in S : x = y
    PROVE  Cardinality(S) = IF S = {} THEN 0 ELSE 1
<1>1. CASE S = {}
  BY <1>1, FS_EmptySet
<1>2. CASE S # {}
  <2>1. PICK x \in S : TRUE
    BY <1>2
  <2>2. S = {x}
    BY <2>1
  <2>3. Cardinality({x}) = 1
    BY FS_Singleton
  <2> QED BY <1>2, <2>2, <2>3
<1> QED BY <1>1, <1>2

LEMMA DisjointCounts ==
    ASSUME NEW S, NEW T, IsFiniteSet(S), IsFiniteSet(T), S \intersect T = {}
    PROVE  /\ IsFiniteSet(S \union T)
           /\ Cardinality(S \union T) = Cardinality(S) + Cardinality(T)
<1>1. /\ IsFiniteSet(S \union T)
      /\ Cardinality(S \union T) = Cardinality(S) + Cardinality(T) - Cardinality(S \intersect T)
  BY FS_Union
<1>2. Cardinality(S \intersect T) = 0
  BY FS_EmptySet
<1>3. Cardinality(S) \in Nat /\ Cardinality(T) \in Nat
  BY FS_CardinalityType
<1> QED BY <1>1, <1>2, <1>3

(* A block is taken, linked and added by at most one thread each. *)
LEMMA AtMostOne ==
    ASSUME NEW b, Alone(b)
    PROVE  /\ At({"dropTwo"}, head, b) = IF Taken(b) THEN 1 ELSE 0
           /\ At({"casHead", "restoreFlag"}, node, b) = IF Linked(b) THEN 1 ELSE 0
           /\ At({"addLoadHead", "storeNext", "storeRefs"}, node, b) = IF Added(b) THEN 1 ELSE 0
<1> DEFINE T == {t \in Threads : pc[t] \in {"dropTwo"} /\ head[t] = b}
           L == {t \in Threads : pc[t] \in {"casHead", "restoreFlag"} /\ node[t] = b}
           A == {t \in Threads : pc[t] \in {"addLoadHead", "storeNext", "storeRefs"}
                                 /\ node[t] = b}
<1>1. IsFiniteSet(T) /\ IsFiniteSet(L) /\ IsFiniteSet(A)
  <2>1. T \in SUBSET Threads /\ L \in SUBSET Threads /\ A \in SUBSET Threads
    OBVIOUS
  <2> QED BY <2>1, PoolAssumption, FS_Subset
<1>2. \A t, u \in T : t = u
  BY DEF Alone, Taking
<1>3. \A t, u \in L : t = u
  BY DEF Alone, Linking
<1>4. \A t, u \in A : t = u
  BY DEF Alone, Adding
<1>5. (T = {} <=> ~Taken(b)) /\ (L = {} <=> ~Linked(b)) /\ (A = {} <=> ~Added(b))
  BY DEF Taken, Taking, Linked, Linking, Added, Adding
<1>6. /\ Cardinality(T) = IF Taken(b) THEN 1 ELSE 0
      /\ Cardinality(L) = IF Linked(b) THEN 1 ELSE 0
      /\ Cardinality(A) = IF Added(b) THEN 1 ELSE 0
  <2> HIDE DEF T, L, A
  <2> QED BY <1>1, <1>2, <1>3, <1>4, <1>5, OneOrNone
<1> QED BY <1>6 DEF At

(* The references counted thread by thread. *)
LEMMA ReferencesAre ==
    ASSUME NEW b, Alone(b), b \in OnList => ~Taken(b)
    PROVE  References(b) = Count(b)
<1> DEFINE R == {t \in Threads : pc[t] \in {"loadNext", "casNext"} /\ head[t] = b}
           D == {t \in Threads : pc[t] \in {"dropOne"} /\ node[t] = b}
           T == {t \in Threads : pc[t] \in {"dropTwo"} /\ head[t] = b}
           L == {t \in Threads : pc[t] \in {"casHead", "restoreFlag"} /\ node[t] = b}
<1>1. IsFiniteSet(R) /\ IsFiniteSet(D) /\ IsFiniteSet(T) /\ IsFiniteSet(L)
  <2>1. R \in SUBSET Threads /\ D \in SUBSET Threads /\ T \in SUBSET Threads /\ L \in SUBSET Threads
    OBVIOUS
  <2> QED BY <2>1, PoolAssumption, FS_Subset
<1>2. Users(b) = ((R \union D) \union T) \union L
  BY DEF Users, Uses, Reading, Taking, Linking
<1>3. /\ R \intersect D = {}
      /\ (R \union D) \intersect T = {}
      /\ ((R \union D) \union T) \intersect L = {}
  OBVIOUS
<1>4. Cardinality(Users(b)) = Cardinality(R) + Cardinality(D) + Cardinality(T) + Cardinality(L)
  <2> HIDE DEF R, D, T, L
  <2>1. /\ IsFiniteSet(R \union D)
        /\ Cardinality(R \union D) = Cardinality(R) + Cardinality(D)
    BY <1>1, <1>3, DisjointCounts
  <2>2. /\ IsFiniteSet((R \union D) \union T)
        /\ Cardinality((R \union D) \union T) = Cardinality(R \union D) + Cardinality(T)
    BY <1>1, <1>3, <2>1, DisjointCounts
  <2>3. Cardinality(((R \union D) \union T) \union L)
          = Cardinality((R \union D) \union T) + Cardinality(L)
    BY <1>1, <1>3, <2>2, DisjointCounts
  <2> QED BY <1>2, <2>1, <2>2, <2>3
<1>5. /\ At({"loadNext", "casNext"}, head, b) = Cardinality(R)
      /\ At({"dropOne"}, node, b) = Cardinality(D)
      /\ At({"dropTwo"}, head, b) = Cardinality(T)
      /\ At({"casHead", "restoreFlag"}, node, b) = Cardinality(L)
  BY DEF At
<1>6. Cardinality(T) = IF Taken(b) THEN 1 ELSE 0
  BY <1>5, AtMostOne
<1>7. /\ Cardinality(R) \in Nat /\ Cardinality(D) \in Nat
      /\ Cardinality(T) \in Nat /\ Cardinality(L) \in Nat
  BY <1>1, FS_CardinalityType
<1>8. References(b) = Cardinality(R) + Cardinality(D) + 2 * Cardinality(T) + Cardinality(L)
                        + IF b \in OnList THEN 1 ELSE 0
  BY <1>5 DEF References
<1> HIDE DEF R, D, T, L
<1> QED BY <1>4, <1>6, <1>7, <1>8 DEF Count

(* The low bits of a block's reference count are its references, so that   *)
(* try_get() and add() agree on who may write its next pointer. *)
THEOREM RefsCountedHolds == Spec => []RefsCounted
<1>1. IInv => RefsCounted
  <2> SUFFICES ASSUME IInv, NEW b \in Blocks PROVE REFS_MASK(freeListRefs[b]) = References(b)
    BY DEF RefsCounted
  <2>1. TypeOK /\ Place(b) /\ Alone(b) /\ Refs(b)
    BY DEF IInv, Fines, Fine
  <2>2. b \in OnList => ~Taken(b)
    BY <2>1 DEF Place
  <2>3. References(b) = Count(b)
    BY <2>1, <2>2, ReferencesAre
  <2>4. REFS_MASK(freeListRefs[b]) = Count(b)
    BY <2>1, RefsAre
  <2> QED BY <2>3, <2>4
<1> QED BY <1>1, Invariance, PTL

LEMMA InIsOne ==
    ASSUME NEW b, NEW S
    PROVE  Cardinality({b} \intersect S) = IF b \in S THEN 1 ELSE 0
<1>1. CASE b \in S
  <2>1. {b} \intersect S = {b}
    BY <1>1
  <2>2. Cardinality({b}) = 1
    BY FS_Singleton
  <2> QED BY <1>1, <2>1, <2>2
<1>2. CASE b \notin S
  <2>1. {b} \intersect S = {}
    BY <1>2
  <2>2. Cardinality({}) = 0
    BY FS_EmptySet
  <2> QED BY <1>2, <2>1, <2>2
<1> QED BY <1>1, <1>2

(* A block is in one place, so try_get() never gives it out twice, and the *)
(* list ends. *)
THEOREM OnePlaceHolds == Spec => []OnePlace
<1>1. IInv => OnePlace
  <2> SUFFICES ASSUME IInv PROVE OnePlace
    OBVIOUS
  <2>1. ASSUME NEW b \in Blocks
        PROVE  Cardinality({b} \intersect held) + Cardinality({b} \intersect OnList)
                 + (IF Flagged(b) THEN 1 ELSE 0)
                 + At({"casHead", "restoreFlag"}, node, b) + At({"dropTwo"}, head, b)
               = IF Unused(b) THEN 0 ELSE 1
    <3>1. Place(b) /\ Alone(b)
      BY DEF IInv, Fines, Fine
    <3>2. /\ Cardinality({b} \intersect held) = IF b \in held THEN 1 ELSE 0
          /\ Cardinality({b} \intersect OnList) = IF b \in OnList THEN 1 ELSE 0
      BY InIsOne
    <3>3. /\ At({"casHead", "restoreFlag"}, node, b) = IF Linked(b) THEN 1 ELSE 0
          /\ At({"dropTwo"}, head, b) = IF Taken(b) THEN 1 ELSE 0
      BY <3>1, AtMostOne
    <3> QED BY <3>1, <3>2, <3>3 DEF Place
  <2>2. ListEnds
    BY DEF IInv, ListOK
  <2> QED BY <2>1, <2>2 DEF OnePlace
<1> QED BY <1>1, Invariance, PTL

(* Of a block that waits to be put back on the list, either one thread     *)
(* does so or some thread has a reference and will. *)
THEOREM NoneLostHolds == Spec => []NoneLost
<1>1. IInv => NoneLost
  <2> SUFFICES ASSUME IInv, NEW b \in Blocks, Flagged(b)
               PROVE  At({"addLoadHead", "storeNext", "storeRefs"}, node, b)
                      = IF REFS_MASK(freeListRefs[b]) = 0 THEN 1 ELSE 0
    BY DEF NoneLost
  <2>1. TypeOK /\ Alone(b) /\ Refs(b) /\ Owed(b)
    BY DEF IInv, Fines, Fine
  <2>2. REFS_MASK(freeListRefs[b]) = Count(b)
    BY <2>1, RefsAre
  <2>3. Added(b) <=> Count(b) = 0
    BY <2>1 DEF Owed
  <2>4. At({"addLoadHead", "storeNext", "storeRefs"}, node, b) = IF Added(b) THEN 1 ELSE 0
    BY <2>1, AtMostOne
  <2> QED BY <2>2, <2>3, <2>4
<1> QED BY <1>1, Invariance, PTL
===============================================================================
