------------------------------ MODULE BlockPool ------------------------------
(***************************************************************************)
(* The blocks of moodycamel::ConcurrentQueue (includes/                    *)
(* concurrent_queue.hpp): requisition_block() takes one from the initial   *)
(* pool, else from the lock-free FreeList, else from the allocator;        *)
(* add_block_to_free_list() gives one back, from whichever thread has      *)
(* dequeued its last element.                                              *)
(*                                                                         *)
(* The list is a stack.  A thread takes a reference on the head before it  *)
(* reads its next pointer, and only a block without references is put back *)
(* (otherwise its next pointer would change under a reader).  A block that *)
(* is freed while it has references gets the bit SHOULD_BE_ON_FREELIST,    *)
(* and the thread that drops the last reference puts it back.              *)
(*                                                                         *)
(* One action per atomic access.                                           *)
(***************************************************************************)
EXTENDS Integers, FiniteSets

CONSTANTS
    Threads,
    InitialPoolSize,        \* initialBlockPoolSize
    MaxBlocks,              \* bound: blocks there can be in memory
    SHOULD_BE_ON_FREELIST   \* the topmost bit of the reference count

ASSUME PoolAssumption ==
    /\ IsFiniteSet(Threads)
    /\ InitialPoolSize \in Nat
    /\ MaxBlocks \in Nat /\ MaxBlocks >= InitialPoolSize
    /\ SHOULD_BE_ON_FREELIST \in Nat
    /\ SHOULD_BE_ON_FREELIST > Cardinality(Threads) + 2

Blocks == 1..MaxBlocks      \* those of the initial pool first

NoBlock == 0                \* nullptr

VARIABLES
    initialBlockPoolIndex,
    created,        \* blocks there have been so far
    held,           \* blocks in use, by a producer or by who frees them
    freeListHead,
    freeListRefs,   \* of each block
    freeListNext,   \* of each block
    pc,             \* where each thread is
    head,           \* try_get: the block it tries to take
    node,           \* the block it puts back, prevHead in try_get
    loaded,         \* what it has loaded to compare with or to store
    return          \* where add_knowing_refcount_is_zero returns to

list == <<freeListHead, freeListRefs, freeListNext>>

vars == <<initialBlockPoolIndex, created, held, list, pc, head, node, loaded, return>>

REFS_MASK(refs) == refs % SHOULD_BE_ON_FREELIST

-------------------------------------------------------------------------------
Init ==
    /\ initialBlockPoolIndex = 0
    /\ created = InitialPoolSize
    /\ held = {}
    /\ freeListHead = NoBlock
    /\ freeListRefs = [b \in Blocks |-> 0]
    /\ freeListNext = [b \in Blocks |-> NoBlock]
    /\ pc = [t \in Threads |-> "idle"]
    /\ head = [t \in Threads |-> NoBlock]
    /\ node = [t \in Threads |-> NoBlock]
    /\ loaded = [t \in Threads |-> 0]
    /\ return = [t \in Threads |-> "idle"]

Goto(t, label) == pc' = [pc EXCEPT ![t] = label]

(* The locals but head are dead. *)
Forget(t) ==
    /\ node' = [node EXCEPT ![t] = NoBlock]
    /\ loaded' = [loaded EXCEPT ![t] = 0]
    /\ return' = [return EXCEPT ![t] = "idle"]

Return(t) ==
    /\ Goto(t, "idle")
    /\ head' = [head EXCEPT ![t] = NoBlock]
    /\ Forget(t)

(* One more turn of `while (head != nullptr)` in try_get, with head = b. *)
TryHead(t, b) ==
    /\ head' = [head EXCEPT ![t] = b]
    /\ Goto(t, IF b = NoBlock THEN "create" ELSE "loadRefs")
    /\ Forget(t)

-------------------------------------------------------------------------------
RequisitionBlock(t) ==
    /\ pc[t] = "idle"
    /\ Goto(t, IF initialBlockPoolIndex >= InitialPoolSize THEN "loadHead" ELSE "fetchIndex")
    /\ UNCHANGED <<initialBlockPoolIndex, created, held, list, head, node, loaded, return>>

TryGetBlockFromInitialPool(t) ==
    /\ pc[t] = "fetchIndex"
    /\ initialBlockPoolIndex' = initialBlockPoolIndex + 1
    /\ IF initialBlockPoolIndex < InitialPoolSize
          THEN held' = held \union {initialBlockPoolIndex'} /\ Goto(t, "idle")
          ELSE UNCHANGED held /\ Goto(t, "loadHead")
    /\ UNCHANGED <<created, list, head, node, loaded, return>>

(* Both lists are empty: allocate, unless the caller may not or malloc fails. *)
Create(t) ==
    /\ pc[t] = "create"
    /\ \/ UNCHANGED <<created, held>>
       \/ /\ created < MaxBlocks
          /\ created' = created + 1
          /\ held' = held \union {created'}
    /\ Return(t)
    /\ UNCHANGED <<initialBlockPoolIndex, list>>

-------------------------------------------------------------------------------
(* Mutant: `continue` without another load of the head. *)
LoadHeadOnce(t) ==
    /\ pc[t] = "loadHead"
    /\ TryHead(t, IF head[t] = NoBlock THEN freeListHead ELSE head[t])
    /\ UNCHANGED <<initialBlockPoolIndex, created, held, list>>

(* try_get(), at its start and after a failure to take a reference. *)
LoadHead(t) ==
    /\ pc[t] = "loadHead"
    /\ TryHead(t, freeListHead)
    /\ UNCHANGED <<initialBlockPoolIndex, created, held, list>>

(* Mutant: a reference is taken even if there is none. *)
LoadRefsUnmasked(t) ==
    /\ pc[t] = "loadRefs"
    /\ loaded' = [loaded EXCEPT ![t] = freeListRefs[head[t]]]
    /\ Goto(t, "casRefs")
    /\ UNCHANGED <<initialBlockPoolIndex, created, held, list, head, node, return>>

LoadRefs(t) ==
    LET refs == freeListRefs[head[t]]
    IN  /\ pc[t] = "loadRefs"
        /\ loaded' = [loaded EXCEPT ![t] = refs]
        /\ Goto(t, IF REFS_MASK(refs) = 0 THEN "loadHead" ELSE "casRefs")
        /\ UNCHANGED <<initialBlockPoolIndex, created, held, list, head, node, return>>

CasRefs(t) ==
    LET b == head[t]
    IN  /\ pc[t] = "casRefs"
        /\ IF freeListRefs[b] = loaded[t]
              THEN /\ freeListRefs' = [freeListRefs EXCEPT ![b] = @ + 1]
                   /\ Goto(t, "loadNext")
              ELSE /\ UNCHANGED freeListRefs
                   /\ Goto(t, "loadHead")
        /\ Forget(t)
        /\ UNCHANGED <<initialBlockPoolIndex, created, held, freeListHead,
                       freeListNext, head>>

LoadNext(t) ==
    /\ pc[t] = "loadNext"
    /\ loaded' = [loaded EXCEPT ![t] = freeListNext[head[t]]]
    /\ Goto(t, "casNext")
    /\ UNCHANGED <<initialBlockPoolIndex, created, held, list, head, node, return>>

(* On failure, head is the new head and prevHead the block referenced. *)
CasNext(t) ==
    /\ pc[t] = "casNext"
    /\ IF freeListHead = head[t]
          THEN /\ freeListHead' = loaded[t]
               /\ Goto(t, "dropTwo")
               /\ UNCHANGED <<head, node>>
          ELSE /\ UNCHANGED freeListHead
               /\ Goto(t, "dropOne")
               /\ node' = [node EXCEPT ![t] = head[t]]
               /\ head' = [head EXCEPT ![t] = freeListHead]
    /\ loaded' = [loaded EXCEPT ![t] = 0]
    /\ UNCHANGED <<initialBlockPoolIndex, created, held, freeListRefs,
                   freeListNext, return>>

(* Mutant: the list's own reference is not dropped. *)
DropTwoOnce(t) ==
    /\ pc[t] = "dropTwo"
    /\ freeListRefs' = [freeListRefs EXCEPT ![head[t]] = @ - 1]
    /\ held' = held \union {head[t]}
    /\ Return(t)
    /\ UNCHANGED <<initialBlockPoolIndex, created, freeListHead, freeListNext>>

(* The block is taken: our reference goes, and the list's. *)
DropTwo(t) ==
    /\ pc[t] = "dropTwo"
    /\ freeListRefs' = [freeListRefs EXCEPT ![head[t]] = @ - 2]
    /\ held' = held \union {head[t]}
    /\ Return(t)
    /\ UNCHANGED <<initialBlockPoolIndex, created, freeListHead, freeListNext>>

(* Mutant: who drops the last reference does not put the block back. *)
DropOneForgets(t) ==
    /\ pc[t] = "dropOne"
    /\ freeListRefs' = [freeListRefs EXCEPT ![node[t]] = @ - 1]
    /\ TryHead(t, head[t])
    /\ UNCHANGED <<initialBlockPoolIndex, created, held, freeListHead, freeListNext>>

DropOne(t) ==
    LET b == node[t]
    IN  /\ pc[t] = "dropOne"
        /\ freeListRefs' = [freeListRefs EXCEPT ![b] = @ - 1]
        /\ IF freeListRefs[b] = SHOULD_BE_ON_FREELIST + 1
              THEN /\ Goto(t, "addLoadHead")
                   /\ return' = [return EXCEPT ![t] = "tryHead"]
                   /\ UNCHANGED <<head, node, loaded>>
              ELSE TryHead(t, head[t])
        /\ UNCHANGED <<initialBlockPoolIndex, created, held, freeListHead,
                       freeListNext>>

-------------------------------------------------------------------------------
(* add(): a thread frees a block. *)
Add(t, b) ==
    /\ pc[t] = "idle"
    /\ b \in held
    /\ held' = held \ {b}
    /\ freeListRefs' = [freeListRefs EXCEPT ![b] = @ + SHOULD_BE_ON_FREELIST]
    /\ IF freeListRefs[b] = 0
          THEN /\ Goto(t, "addLoadHead")
               /\ node' = [node EXCEPT ![t] = b]
               /\ return' = [return EXCEPT ![t] = "idle"]
          ELSE UNCHANGED <<pc, node, return>>
    /\ UNCHANGED <<initialBlockPoolIndex, created, freeListHead, freeListNext,
                   head, loaded>>

AddLoadHead(t) ==
    /\ pc[t] = "addLoadHead"
    /\ loaded' = [loaded EXCEPT ![t] = freeListHead]
    /\ Goto(t, "storeNext")
    /\ UNCHANGED <<initialBlockPoolIndex, created, held, list, head, node, return>>

StoreNext(t) ==
    /\ pc[t] = "storeNext"
    /\ freeListNext' = [freeListNext EXCEPT ![node[t]] = loaded[t]]
    /\ Goto(t, "storeRefs")
    /\ UNCHANGED <<initialBlockPoolIndex, created, held, freeListHead,
                   freeListRefs, head, node, loaded, return>>

(* The bit is cleared with it. *)
StoreRefs(t) ==
    /\ pc[t] = "storeRefs"
    /\ freeListRefs' = [freeListRefs EXCEPT ![node[t]] = 1]
    /\ Goto(t, "casHead")
    /\ UNCHANGED <<initialBlockPoolIndex, created, held, freeListHead,
                   freeListNext, head, node, loaded, return>>

AddReturns(t) ==
    IF return[t] = "idle" THEN Return(t) ELSE TryHead(t, head[t])

CasHead(t) ==
    /\ pc[t] = "casHead"
    /\ IF freeListHead = loaded[t]
          THEN freeListHead' = node[t] /\ AddReturns(t)
          ELSE /\ UNCHANGED <<freeListHead, head, node, return>>
               /\ loaded' = [loaded EXCEPT ![t] = freeListHead]
               /\ Goto(t, "restoreFlag")
    /\ UNCHANGED <<initialBlockPoolIndex, created, held, freeListRefs, freeListNext>>

(* Not on the list after all: whoever has the last reference retries. *)
RestoreFlag(t) ==
    LET b == node[t]
    IN  /\ pc[t] = "restoreFlag"
        /\ freeListRefs' = [freeListRefs EXCEPT ![b] = @ + SHOULD_BE_ON_FREELIST - 1]
        /\ IF freeListRefs[b] = 1
              THEN Goto(t, "storeNext") /\ UNCHANGED <<head, node, loaded, return>>
              ELSE AddReturns(t)
        /\ UNCHANGED <<initialBlockPoolIndex, created, held, freeListHead,
                       freeListNext>>

-------------------------------------------------------------------------------
TryGet(t) ==
    \/ LoadHead(t) \/ LoadRefs(t) \/ CasRefs(t) \/ LoadNext(t) \/ CasNext(t)
    \/ DropTwo(t) \/ DropOne(t)

AddKnowingRefcountIsZero(t) ==
    AddLoadHead(t) \/ StoreNext(t) \/ StoreRefs(t) \/ CasHead(t) \/ RestoreFlag(t)

(* What a thread does on its own once it is in a call. *)
Step(t) ==
    \/ TryGetBlockFromInitialPool(t) \/ TryGet(t) \/ Create(t)
    \/ AddKnowingRefcountIsZero(t)

Next ==
    \E t \in Threads :
        \/ RequisitionBlock(t)
        \/ \E b \in Blocks : Add(t, b)
        \/ Step(t)

Spec == Init /\ [][Next]_vars

FairSpec == Spec /\ \A t \in Threads : WF_vars(Step(t))

-------------------------------------------------------------------------------
Labels == {"idle", "fetchIndex", "loadHead", "loadRefs", "casRefs", "loadNext",
           "casNext", "dropTwo", "dropOne", "create", "addLoadHead",
           "storeNext", "storeRefs", "casHead", "restoreFlag"}

At(labels, local, b) == Cardinality({t \in Threads : pc[t] \in labels /\ local[t] = b})

(* The list: the fewest blocks that hold the head and whatever the next    *)
(* pointer of one of them points to. *)
Closed(S) ==
    /\ freeListHead \in S \union {NoBlock}
    /\ \A b \in S : freeListNext[b] \in S \union {NoBlock}

OnList == {b \in Blocks : \A S \in SUBSET Blocks : Closed(S) => b \in S}

ListEnds ==
    freeListHead = NoBlock \/ \E b \in OnList : freeListNext[b] = NoBlock

(* References on b: of the threads that try to take it or have just taken  *)
(* it (two, with the list's), of the list, or of one about to link it.     *)
References(b) ==
    At({"loadNext", "casNext"}, head, b) + At({"dropOne"}, node, b)
      + 2 * At({"dropTwo"}, head, b)
      + At({"casHead", "restoreFlag"}, node, b)
      + IF b \in OnList THEN 1 ELSE 0

Flagged(b) == freeListRefs[b] >= SHOULD_BE_ON_FREELIST

(* The blocks of the initial pool nobody has taken, and those not created. *)
Unused(b) == b > created \/ (b <= InitialPoolSize /\ b > initialBlockPoolIndex)

-------------------------------------------------------------------------------
(* The low bits count the references there are, so nobody writes the next  *)
(* pointer of a block while another thread may be reading it.              *)
RefsCounted == \A b \in Blocks : REFS_MASK(freeListRefs[b]) = References(b)

(* A block is in one place: in use, on the list, owed to the list (the     *)
(* bit), being linked or just unlinked; try_get never gives out a block    *)
(* twice, the bit is clear on a block just taken (the assertion in         *)
(* try_get), and the list ends.                                            *)
OnePlace ==
    /\ \A b \in Blocks :
          Cardinality({b} \intersect held) + Cardinality({b} \intersect OnList)
            + (IF Flagged(b) THEN 1 ELSE 0)
            + At({"casHead", "restoreFlag"}, node, b) + At({"dropTwo"}, head, b)
          = IF Unused(b) THEN 0 ELSE 1
    /\ ListEnds

(* No block is forgotten: one that waits to be put back has a thread that  *)
(* is doing so, and only one, or a thread that holds a reference.          *)
NoneLost ==
    \A b \in Blocks :
        Flagged(b) =>
            At({"addLoadHead", "storeNext", "storeRefs"}, node, b)
            = IF REFS_MASK(freeListRefs[b]) = 0 THEN 1 ELSE 0

(* Some call always ends: threads that disturb each other's swaps do not   *)
(* keep each other from ending for ever.                                   *)
LockFree ==
    <>[](\E t \in Threads : pc[t] # "idle")
    => []<><<\E t \in Threads : pc[t] # "idle" /\ pc'[t] = "idle">>_vars
===============================================================================
