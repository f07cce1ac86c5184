--------------------------- MODULE ImplicitProducer ---------------------------
(***************************************************************************)
(* ImplicitProducer of includes/concurrent_queue.hpp, the sub-queue of a   *)
(* thread that enqueues without a token.  Its blocks come from the pool of *)
(* the whole queue, and whoever dequeues the last element of a block gives *)
(* it back.  The block index is a ring of entries, each with the base of   *)
(* its block (key) and the block (value); a larger index is made of the    *)
(* entries of the one before and as many new ones, so consumers that still *)
(* read the old one see the same entries.                                  *)
(*                                                                         *)
(* Consumers divide the elements by the counters of SubQueue, seen here as *)
(* one step (Fifo).  An element is the index it was enqueued at.           *)
(***************************************************************************)
EXTENDS Integers, Sequences, FiniteSets

CONSTANTS
    Consumers,
    Blocks,             \* bound: blocks of the pools
    BlockSize,          \* BLOCK_SIZE
    Modulus,            \* of index_t
    InitialIndexSize,   \* IMPLICIT_INITIAL_INDEX_SIZE
    MaxIndexSize,       \* bound: entries there can be in memory
    MaxBulk,            \* bound: elements of one call
    None                \* nullptr

ASSUME ImplicitProducerAssumption ==
    /\ BlockSize \in Nat /\ BlockSize > 1
    /\ Modulus \in Nat /\ Modulus % (2 * BlockSize) = 0
    /\ InitialIndexSize \in Nat \ {0}
    /\ MaxIndexSize \in Nat /\ InitialIndexSize <= MaxIndexSize
    /\ 2 * (BlockSize * MaxIndexSize) <= Modulus
    /\ MaxBulk \in Nat /\ MaxBulk + BlockSize <= Modulus
    /\ None \notin Blocks

VARIABLES
    tailIndex,
    headIndex,
    tailBlock,
    dequeued,       \* elementsCompletelyDequeued of each block
    slot,           \* what each block holds
    free,           \* the blocks in the pools, or with other producers
    blockIndexes,   \* the block indexes, the current one last
    key,            \* of each entry
    value,
    op,             \* the producer's call and its locals
    pc,             \* where each consumer is
    index,          \* the next index it has to dequeue
    count,          \* how many from there on
    held,           \* the block index it has loaded
    at              \* the tail it has loaded, then the slot of its block

elements == <<tailIndex, headIndex, tailBlock, slot>>

consumers == <<pc, index, count, held, at>>

vars == <<elements, dequeued, free, blockIndexes, key, value, op, consumers>>

Index == 0..(Modulus - 1)

Offsets == 0..(BlockSize - 1)

Nothing == Modulus      \* what a slot without an element holds

INVALID_BLOCK_BASE == 1

Add(a, b) == (a + b) % Modulus

Subtract(a, b) == (a - b) % Modulus

circular_less_than(a, b) == Subtract(a, b) > Modulus \div 2

Signed(a) == IF a < Modulus \div 2 THEN a ELSE a - Modulus

BaseOf(i) == i - (i % BlockSize)

blockIndex == blockIndexes[Len(blockIndexes)]

Entries == 0..(MaxIndexSize - 1)

NoCall == [kind |-> "none", step |-> "none", count |-> 0, left |-> 0, base |-> 0,
           linked |-> None, chain |-> <<>>, undone |-> 0]

-------------------------------------------------------------------------------
(* The constructor.  If there is no memory for the index, there never will *)
(* be one.                                                                 *)
Init ==
    /\ tailIndex = 0
    /\ headIndex = 0
    /\ tailBlock = None
    /\ dequeued = [b \in Blocks |-> 0]
    /\ slot = [b \in Blocks |-> [o \in Offsets |-> Nothing]]
    /\ free = Blocks
    /\ blockIndexes \in {<<>>, <<[capacity |-> InitialIndexSize, tail |-> InitialIndexSize - 1,
                                  entry |-> [s \in 0..(InitialIndexSize - 1) |-> s]]>>}
    /\ key = [e \in Entries |-> INVALID_BLOCK_BASE]
    /\ value = [e \in Entries |-> None]
    /\ op = NoCall
    /\ pc = [c \in Consumers |-> "idle"]
    /\ index = [c \in Consumers |-> 0]
    /\ count = [c \in Consumers |-> 0]
    /\ held = [c \in Consumers |-> 0]
    /\ at = [c \in Consumers |-> 0]

(* blockBaseDiff in blocks: those the call needs beyond the tail block. *)
BlocksNeeded(n) ==
    Subtract(BaseOf(Add(tailIndex, n - 1)), BaseOf(Subtract(tailIndex, 1))) \div BlockSize

(* enqueue or enqueue_bulk begins. *)
Call(kind, n) ==
    /\ op = NoCall
    /\ op' = [NoCall EXCEPT !.kind = kind, !.step = "insert", !.count = n,
                            !.left = BlocksNeeded(n), !.base = BaseOf(Subtract(tailIndex, 1))]
    /\ UNCHANGED <<elements, dequeued, free, blockIndexes, key, value, consumers>>

NextBase == Add(op.base, BlockSize)

SlotBy(header, n) == (header.tail + n) % header.capacity

(* insert_block_index_entry: the slot after the tail can be used. *)
NextIsFree ==
    LET e == blockIndex.entry[SlotBy(blockIndex, 1)]
    IN  key[e] = INVALID_BLOCK_BASE \/ value[e] = None

(* The tail could pass the head before the block is full. *)
Full == ~circular_less_than(headIndex, Add(NextBase, BlockSize))

InsertEntry ==
    /\ op.step = "insert" /\ op.left > 0
    /\ ~Full /\ blockIndexes # <<>> /\ NextIsFree
    /\ key' = [key EXCEPT ![blockIndex.entry[SlotBy(blockIndex, 1)]] = NextBase]
    /\ blockIndexes' = [blockIndexes EXCEPT ![Len(blockIndexes)].tail = SlotBy(blockIndex, 1)]
    /\ op' = [op EXCEPT !.step = "take"]
    /\ UNCHANGED <<elements, dequeued, free, value, consumers>>

(* Mutant: the old entries are copied from slot 0 on. *)
FromOldestUnrotated(s) == blockIndex.entry[s]

(* The entries of the index, the one after the tail first. *)
FromOldest(s) == blockIndex.entry[SlotBy(blockIndex, s + 1)]

(* new_block_index *)
Grow ==
    /\ op.step = "insert" /\ op.left > 0
    /\ ~Full /\ blockIndexes # <<>> /\ ~NextIsFree
    /\ LET old == blockIndex.capacity
       IN  /\ 2 * old <= MaxIndexSize
           /\ blockIndexes' = Append(blockIndexes,
                  [capacity |-> 2 * old, tail |-> old - 1,
                   entry |-> [s \in 0..(2 * old - 1) |-> IF s < old THEN FromOldest(s) ELSE s]])
    /\ UNCHANGED <<elements, dequeued, free, key, value, op, consumers>>

(* The block before the call that gets the new one as its successor; one   *)
(* that is full may have been given back.                                  *)
Linked(block) ==
    IF tailIndex % BlockSize # 0 /\ op.chain = <<>> THEN tailBlock ELSE op.linked

reset_empty(block) == [dequeued EXCEPT ![block] = 0]

(* requisition_block succeeds.  (enqueue stores the value a little later,  *)
(* which nobody but the producer could tell.)                              *)
Requisition(block) ==
    /\ op.step = "take"
    /\ block \in free
    /\ free' = free \ {block}
    /\ dequeued' = reset_empty(block)
    /\ value' = [value EXCEPT ![blockIndex.entry[blockIndex.tail]] = block]
    /\ op' = [op EXCEPT !.step = "insert", !.left = @ - 1, !.base = NextBase,
                        !.linked = Linked(block), !.chain = Append(@, block)]
    /\ UNCHANGED <<elements, blockIndexes, key, consumers>>

(* Mutant: the tail of the index is not moved back. *)
RewoundNot == blockIndexes

(* rewind_block_index_tail *)
Rewound == [blockIndexes EXCEPT ![Len(blockIndexes)].tail = SlotBy(blockIndex, -1)]

(* There is no room, or no memory for the index. *)
FailToInsert ==
    /\ op.step = "insert" /\ op.left > 0
    /\ Full \/ blockIndexes = <<>> \/ (blockIndexes # <<>> /\ ~NextIsFree)
    /\ op' = IF op.chain = <<>> THEN NoCall ELSE [op EXCEPT !.step = "undo"]
    /\ UNCHANGED <<elements, dequeued, free, blockIndexes, key, value, consumers>>

(* There is no memory for the block. *)
FailToTake ==
    /\ op.step = "take"
    /\ blockIndexes' = Rewound
    /\ value' = [value EXCEPT ![blockIndex.entry[blockIndex.tail]] = None]
    /\ op' = IF op.chain = <<>> THEN NoCall ELSE [op EXCEPT !.step = "undo"]
    /\ UNCHANGED <<elements, dequeued, free, key, consumers>>

(* get_block_index_index_for_index, from a tail of an index. *)
SlotFrom(header, tail, i) ==
    (tail + Signed(Subtract(BaseOf(i), key[header.entry[tail]])) \div BlockSize)
        % header.capacity

EntryOf(i) == blockIndex.entry[SlotFrom(blockIndex, blockIndex.tail, i)]

(* The entries of the call are taken back, one after the other... *)
Undo ==
    /\ op.step = "undo" /\ op.undone < Len(op.chain)
    /\ LET first == BaseOf(Subtract(tailIndex, 1))
       IN  value' = [value EXCEPT ![EntryOf(Add(first, (op.undone + 1) * BlockSize))] = None]
    /\ blockIndexes' = Rewound
    /\ op' = [op EXCEPT !.undone = @ + 1]
    /\ UNCHANGED <<elements, dequeued, free, key, consumers>>

ChainBlocks == {op.chain[n] : n \in DOMAIN op.chain}

(* Mutant: only the first block is given back. *)
GiveBackFirst ==
    /\ op.step = "undo" /\ op.undone = Len(op.chain)
    /\ free' = free \union {op.chain[1]}
    /\ op' = NoCall
    /\ UNCHANGED <<elements, dequeued, blockIndexes, key, value, consumers>>

(* ...and then its blocks (add_blocks_to_free_list). *)
GiveBack ==
    /\ op.step = "undo" /\ op.undone = Len(op.chain)
    /\ free' = free \union ChainBlocks
    /\ op' = NoCall
    /\ UNCHANGED <<elements, dequeued, blockIndexes, key, value, consumers>>

(* A constructor throws: the elements before it are destroyed. *)
ConstructorThrows ==
    /\ op.step = "insert" /\ op.left = 0
    /\ op' = IF op.chain = <<>> THEN NoCall ELSE [op EXCEPT !.step = "undo"]
    /\ UNCHANGED <<elements, dequeued, free, blockIndexes, key, value, consumers>>

(* The elements are constructed along the chain, then the tail published. *)
Publish ==
    /\ op.step = "insert" /\ op.left = 0
    /\ LET blocks == IF tailIndex % BlockSize = 0 THEN op.chain ELSE <<tailBlock>> \o op.chain
           Put(b, o) == {k \in 0..(op.count - 1) :
                            /\ blocks[1 + (((tailIndex % BlockSize) + k) \div BlockSize)] = b
                            /\ Add(tailIndex, k) % BlockSize = o}
       IN  slot' = [b \in Blocks |-> [o \in Offsets |->
                       IF Put(b, o) = {} THEN slot[b][o]
                       ELSE Add(tailIndex, CHOOSE k \in Put(b, o) : TRUE)]]
    /\ tailBlock' = IF op.chain = <<>> THEN tailBlock ELSE op.chain[Len(op.chain)]
    /\ tailIndex' = Add(tailIndex, op.count)
    /\ op' = NoCall
    /\ UNCHANGED <<headIndex, dequeued, free, blockIndexes, key, value, consumers>>

-------------------------------------------------------------------------------
(* A consumer has been granted n elements (SubQueue). *)
Take(c, n) ==
    /\ pc[c] = "idle"
    /\ n <= Subtract(tailIndex, headIndex)
    /\ pc' = [pc EXCEPT ![c] = "load"]
    /\ index' = [index EXCEPT ![c] = headIndex]
    /\ count' = [count EXCEPT ![c] = n]
    /\ headIndex' = Add(headIndex, n)
    /\ UNCHANGED <<tailIndex, tailBlock, slot, dequeued, free, blockIndexes, key, value, op>>
    /\ UNCHANGED <<held, at>>

(* It loads blockIndex and its tail... *)
LoadTail(c) ==
    /\ pc[c] = "load"
    /\ pc' = [pc EXCEPT ![c] = "locate"]
    /\ held' = [held EXCEPT ![c] = Len(blockIndexes)]
    /\ at' = [at EXCEPT ![c] = blockIndex.tail]
    /\ UNCHANGED <<elements, dequeued, free, blockIndexes, key, value, op, index, count>>

(* ...and reckons from the key found there how far back its block is. *)
Locate(c) ==
    /\ pc[c] = "locate"
    /\ pc' = [pc EXCEPT ![c] = "move"]
    /\ at' = [at EXCEPT ![c] = SlotFrom(blockIndexes[held[c]], @, index[c])]
    /\ UNCHANGED <<elements, dequeued, free, blockIndexes, key, value, op, index, count, held>>

EntryAt(c) == blockIndexes[held[c]].entry[at[c]]

BlockAt(c) == value[EntryAt(c)]

InBlock(c) == {o \in Offsets : o >= index[c] % BlockSize /\ o < (index[c] % BlockSize) + count[c]}

Done(c) ==
    /\ pc' = [pc EXCEPT ![c] = "idle"]
    /\ index' = [index EXCEPT ![c] = 0]
    /\ count' = [count EXCEPT ![c] = 0]
    /\ held' = [held EXCEPT ![c] = 0]
    /\ at' = [at EXCEPT ![c] = 0]

(* The next block of the same index. *)
GoOn(c, n) ==
    IF n = count[c]
    THEN Done(c)
    ELSE /\ pc' = [pc EXCEPT ![c] = "move"]
         /\ index' = [index EXCEPT ![c] = Add(@, n)]
         /\ count' = [count EXCEPT ![c] = @ - n]
         /\ at' = [at EXCEPT ![c] = (@ + 1) % blockIndexes[held[c]].capacity]
         /\ UNCHANGED held

(* set_many_empty: these were the last of the block. *)
IsEmptyWith(b, n) == dequeued[b] + n = BlockSize

(* Its elements of the block are moved out, or destroyed because the       *)
(* assignment of one throws, and counted.                                  *)
MoveBlock(c) ==
    /\ pc[c] = "move"
    /\ LET b == BlockAt(c)
           n == Cardinality(InBlock(c))
       IN  /\ slot' = [slot EXCEPT ![b] =
                          [o \in Offsets |-> IF o \in InBlock(c) THEN Nothing ELSE @[o]]]
           /\ dequeued' = [dequeued EXCEPT ![b] = @ + n]
           /\ IF IsEmptyWith(b, n)
              THEN /\ pc' = [pc EXCEPT ![c] = "free"]
                   /\ UNCHANGED <<index, count, held, at>>
              ELSE GoOn(c, n)
    /\ UNCHANGED <<tailIndex, headIndex, tailBlock, free, blockIndexes, key, value, op>>

(* The entry is cleared, for the producer to use, and the block given back. *)
FreeBlock(c) ==
    /\ pc[c] = "free"
    /\ value' = [value EXCEPT ![EntryAt(c)] = None]
    /\ free' = free \union {BlockAt(c)}
    /\ GoOn(c, Cardinality(InBlock(c)))
    /\ UNCHANGED <<elements, dequeued, blockIndexes, key, op>>

-------------------------------------------------------------------------------
Next ==
    \/ Call("enqueue", 1)
    \/ \E n \in 1..MaxBulk : Call("bulk", n)
    \/ InsertEntry
    \/ Grow
    \/ \E b \in Blocks : Requisition(b)
    \/ FailToInsert
    \/ FailToTake
    \/ Undo
    \/ GiveBack
    \/ ConstructorThrows
    \/ Publish
    \/ \E c \in Consumers :
          \/ \E n \in 1..MaxBulk : Take(c, n)
          \/ LoadTail(c)
          \/ Locate(c)
          \/ MoveBlock(c)
          \/ FreeBlock(c)

Spec == Init /\ [][Next]_vars

-------------------------------------------------------------------------------
(* A consumer finds its elements, one after the other, where they were put, *)
(* whatever the producer put into the index, took back or replaced, and     *)
(* whatever blocks others gave back, after it looked there.                 *)
Located ==
    \A c \in Consumers :
       pc[c] = "move" =>
          /\ BlockAt(c) # None
          /\ \A o \in InBlock(c) : slot[BlockAt(c)][o] = BaseOf(index[c]) + o

(* Every element that waits is found through the current index, also while *)
(* a call is taken back.                                                   *)
Indexed ==
    \A k \in 0..(Subtract(tailIndex, headIndex) - 1) :
       LET i == Add(headIndex, k)
           b == value[EntryOf(i)]
       IN  b # None /\ slot[b][i % BlockSize] = i

(* A block is in the pools, or has one entry, or is of a call that is being *)
(* taken back: it is never used twice, and never leaks.  And the producer   *)
(* links its new blocks to none that it has given away.                     *)
OnePlace ==
    /\ op.linked \notin free
    /\ \A b \in Blocks :
          LET places == {e \in Entries : value[e] = b}
              undone == {n \in DOMAIN op.chain : n <= op.undone /\ op.chain[n] = b}
          IN  Cardinality(places) + Cardinality(undone) + (IF b \in free THEN 1 ELSE 0) = 1

Quiet == op = NoCall /\ \A c \in Consumers : pc[c] = "idle"

(* ~ImplicitProducer: the blocks that are left behind on the way from head *)
(* to tail, and the tail block.                                            *)
LeftBehind ==
    {BaseOf(Add(headIndex, k)) : k \in 0..(Subtract(tailIndex, headIndex) - 1)}
       \ {BaseOf(Subtract(tailIndex, 1))}

(* Mutant: an empty queue is taken to have no block. *)
FreesTailBlockNonempty == tailBlock # None /\ headIndex # tailIndex

FreesTailBlock == tailBlock # None /\ (headIndex # tailIndex \/ tailIndex % BlockSize # 0)

(* Were the producer destroyed, every block of it, and no other, would be  *)
(* given back, once: tailBlock may have been given back before, or be the  *)
(* only one.                                                               *)
DestructorGivesBack ==
    Quiet =>
       LET left == {value[EntryOf(i)] : i \in LeftBehind}
           last == IF FreesTailBlock THEN {tailBlock} ELSE {}
       IN  /\ Cardinality(left) = Cardinality(LeftBehind)
           /\ left \intersect last = {}
           /\ left \union last = Blocks \ free
===============================================================================
