--------------------------- MODULE ExplicitProducer ---------------------------
(***************************************************************************)
(* ExplicitProducer of includes/concurrent_queue.hpp, the sub-queue of a   *)
(* producer token.  Its blocks form a ring that only grows; the block      *)
(* after the tail is used again once all its elements have been dequeued,  *)
(* which its flags say.  Consumers find the block of an index through a    *)
(* circular block index, of which the producer publishes the newest slot   *)
(* (front), and which it replaces by one of twice the size when it is full.*)
(*                                                                         *)
(* Consumers divide the elements by the counters of SubQueue, seen here as *)
(* one step (Fifo).  An element is the index it was enqueued at, so that   *)
(* what a consumer reads tells whether it looked in the right place.       *)
(***************************************************************************)
EXTENDS Integers, Sequences, FiniteSets

CONSTANTS
    Consumers,
    Blocks,             \* bound: blocks there can be in memory
    BlockSize,          \* BLOCK_SIZE
    Modulus,            \* of index_t
    InitialIndexSize,   \* EXPLICIT_INITIAL_INDEX_SIZE
    MaxIndexes,         \* bound: block indexes there can be in memory
    MaxBulk,            \* bound: elements of one call
    Unallocated,        \* kinds of calls, "enqueue" or "bulk", that may find no memory
    Throwing,           \* kinds of calls whose elements' constructors may throw
    None                \* nullptr

ASSUME ExplicitProducerAssumption ==
    /\ BlockSize \in Nat /\ BlockSize > 1
    /\ Modulus \in Nat /\ Modulus % (2 * BlockSize) = 0
    /\ InitialIndexSize \in Nat \ {0}
    /\ MaxIndexes \in Nat /\ MaxBulk \in Nat
    /\ Unallocated \union Throwing \subseteq {"enqueue", "bulk"}
    /\ None \notin Blocks

VARIABLES
    tailIndex,
    headIndex,
    tailBlock,
    next,           \* the ring
    emptyFlags,     \* of each block, those that are set
    slot,           \* what each block holds
    allocated,      \* the blocks the producer has been given
    stranded,       \* history: those taken for elements that were never constructed
    blockIndexes,   \* the block indexes, the current one last
    pr_blockIndexFront,
    pr_blockIndexSlotsUsed,
    op,             \* the producer's call and its locals
    pc,             \* where each consumer is
    index,          \* the next index it has to dequeue
    count,          \* how many from there on
    held,           \* the block index it has loaded
    at              \* the front it has loaded, then the slot of its block

producer == <<pr_blockIndexFront, pr_blockIndexSlotsUsed, tailBlock, next, allocated, stranded, op>>

consumers == <<pc, index, count, held, at>>

vars == <<tailIndex, headIndex, emptyFlags, slot, blockIndexes, producer, consumers>>

Index == 0..(Modulus - 1)

Offsets == 0..(BlockSize - 1)

Nothing == Modulus      \* what a slot without an element holds

Add(a, b) == (a + b) % Modulus

Subtract(a, b) == (a - b) % Modulus

circular_less_than(a, b) == Subtract(a, b) > Modulus \div 2

Signed(a) == IF a < Modulus \div 2 THEN a ELSE a - Modulus

BaseOf(i) == i - (i % BlockSize)

blockIndex == blockIndexes[Len(blockIndexes)]

NoEntry == [base |-> 0, block |-> None]

IndexOf(size, front, filled) ==
    [size |-> size, front |-> front,
     entries |-> [s \in 0..(size - 1) |-> IF s \in DOMAIN filled THEN filled[s] ELSE NoEntry]]

NoCall ==
    [kind |-> "none", count |-> 0, left |-> 0, base |-> 0, ahead |-> FALSE, startBlock |-> None,
     first |-> None, front |-> 0, slotsUsed |-> 0]

-------------------------------------------------------------------------------
(* The constructor; the allocation of the block index may fail.  Its front *)
(* is slot -1.                                                             *)
Init ==
    /\ tailIndex = 0
    /\ headIndex = 0
    /\ tailBlock = None
    /\ next = [b \in Blocks |-> None]
    /\ emptyFlags = [b \in Blocks |-> {}]
    /\ slot = [b \in Blocks |-> [o \in Offsets |-> Nothing]]
    /\ allocated = {}
    /\ stranded = {}
    /\ \/ blockIndexes = <<IndexOf(InitialIndexSize, InitialIndexSize - 1, <<>>)>>
       \/ "enqueue" \in Unallocated /\ blockIndexes = <<>>
    /\ pr_blockIndexFront = 0
    /\ pr_blockIndexSlotsUsed = 0
    /\ op = NoCall
    /\ pc = [c \in Consumers |-> "idle"]
    /\ index = [c \in Consumers |-> 0]
    /\ count = [c \in Consumers |-> 0]
    /\ held = [c \in Consumers |-> 0]
    /\ at = [c \in Consumers |-> 0]

(* Mutant: one element that is gone makes the block look empty. *)
is_emptyAny(b) == emptyFlags[b] # {}

is_empty(b) == emptyFlags[b] = Offsets

NextSlot == (pr_blockIndexFront + 1) % blockIndex.size

(* Mutant: slot 0 is taken for the oldest. *)
OldestSlotFirst == 0

OldestSlot == (pr_blockIndexFront - pr_blockIndexSlotsUsed) % blockIndex.size

(* blockBaseDiff in blocks: those the call needs beyond the tail block. *)
BlocksNeeded(n) ==
    Subtract(BaseOf(Add(tailIndex, n - 1)), BaseOf(Subtract(tailIndex, 1))) \div BlockSize

(* The bound on memory: a call that must not fail finds enough of it. *)
MayFail(kind) == kind \in Unallocated

EnoughMemory(n) ==
    /\ Cardinality(Blocks \ allocated) >= BlocksNeeded(n)
    /\ \/ Len(blockIndexes) < MaxIndexes
       \/ /\ Len(blockIndexes) = MaxIndexes
          /\ pr_blockIndexSlotsUsed + BlocksNeeded(n) <= blockIndex.size

(* enqueue or enqueue_bulk begins. *)
Call(kind, n) ==
    /\ op = NoCall
    /\ ~MayFail(kind) => EnoughMemory(n)
    /\ op' = [kind |-> kind, count |-> n, left |-> BlocksNeeded(n),
              base |-> BaseOf(Subtract(tailIndex, 1)), ahead |-> TRUE, startBlock |-> tailBlock,
              first |-> None, front |-> pr_blockIndexFront, slotsUsed |-> pr_blockIndexSlotsUsed]
    /\ UNCHANGED <<tailIndex, headIndex, emptyFlags, slot, blockIndexes, consumers>>
    /\ UNCHANGED <<pr_blockIndexFront, pr_blockIndexSlotsUsed, tailBlock, next, allocated, stranded>>

NextBase == Add(op.base, BlockSize)

CanReuse ==
    /\ op.ahead
    /\ tailBlock # None
    /\ next[tailBlock] # op.first
    /\ is_empty(next[tailBlock])

(* One more block for the call.  enqueue_bulk puts it into the index at    *)
(* once, enqueue when the element has been constructed.                    *)
Use(block, ahead) ==
    /\ tailBlock' = block
    /\ op' = [op EXCEPT !.left = @ - 1, !.base = NextBase, !.ahead = ahead,
                        !.first = IF @ = None THEN block ELSE @]
    /\ IF op.kind = "bulk"
       THEN /\ blockIndexes' = [blockIndexes EXCEPT
                   ![Len(blockIndexes)].entries[pr_blockIndexFront] =
                       [base |-> NextBase, block |-> block]]
            /\ pr_blockIndexFront' = NextSlot
       ELSE UNCHANGED <<blockIndexes, pr_blockIndexFront>>

(* The block ahead of the tail is empty. *)
Reuse ==
    /\ op.left > 0
    /\ CanReuse
    /\ Use(next[tailBlock], TRUE)
    /\ emptyFlags' = IF op.kind = "enqueue"
                     THEN [emptyFlags EXCEPT ![next[tailBlock]] = {}] ELSE emptyFlags
    /\ UNCHANGED <<tailIndex, headIndex, slot, consumers>>
    /\ UNCHANGED <<pr_blockIndexSlotsUsed, next, allocated, stranded>>

(* The tail could pass the head before the next block is full. *)
Full == ~circular_less_than(headIndex, Add(NextBase, BlockSize))

IndexFull == blockIndexes # <<>> => pr_blockIndexSlotsUsed = blockIndex.size

(* new_block_index: what the old one holds, oldest first. *)
Grow ==
    /\ op.left > 0 /\ ~CanReuse /\ ~Full /\ IndexFull
    /\ Len(blockIndexes) < MaxIndexes
    /\ LET used == pr_blockIndexSlotsUsed
           size == InitialIndexSize * 2 ^ Len(blockIndexes)
           exposed == IF op.kind = "bulk" THEN op.slotsUsed ELSE used
           Copied(s) == blockIndex.entries[(OldestSlot + s) % blockIndex.size]
       IN  /\ blockIndexes' = Append(blockIndexes,
                  IndexOf(size, (exposed - 1) % size, [s \in 0..(used - 1) |-> Copied(s)]))
           /\ pr_blockIndexFront' = used
    /\ op' = [op EXCEPT !.ahead = FALSE,
                        !.front = IF op.kind = "bulk" THEN op.slotsUsed ELSE @]
    /\ UNCHANGED <<tailIndex, headIndex, emptyFlags, slot, consumers>>
    /\ UNCHANGED <<pr_blockIndexSlotsUsed, tailBlock, next, allocated, stranded>>

Link(block) == [next EXCEPT ![block] = next[tailBlock], ![tailBlock] = block]

(* A new block is linked into the ring after the tail. *)
Insert(block) ==
    /\ op.left > 0 /\ ~CanReuse /\ ~Full /\ ~IndexFull
    /\ block \notin allocated
    /\ allocated' = allocated \union {block}
    /\ emptyFlags' = [emptyFlags EXCEPT ![block] = IF op.kind = "bulk" THEN Offsets ELSE {}]
    /\ next' = IF tailBlock = None THEN [next EXCEPT ![block] = block] ELSE Link(block)
    /\ pr_blockIndexSlotsUsed' = pr_blockIndexSlotsUsed + 1
    /\ Use(block, FALSE)
    /\ UNCHANGED <<tailIndex, headIndex, slot, stranded, consumers>>

(* Everything but the ring, and the size of the index, is as it was. *)
Undo ==
    /\ pr_blockIndexSlotsUsed' = op.slotsUsed
    /\ tailBlock' = IF op.startBlock = None THEN op.first ELSE op.startBlock
    /\ op' = NoCall

(* There is no room or no memory. *)
Fail ==
    /\ op.left > 0 /\ ~CanReuse
    /\ Full \/ MayFail(op.kind)
    /\ Undo
    /\ pr_blockIndexFront' = IF op.kind = "bulk" THEN op.front ELSE pr_blockIndexFront
    /\ UNCHANGED <<tailIndex, headIndex, emptyFlags, slot, blockIndexes, next, allocated, stranded>>
    /\ UNCHANGED consumers

-------------------------------------------------------------------------------
(* The ring, from a block on. *)
Walk(from) ==
    LET walk[n \in 0..Cardinality(Blocks)] == IF n = 0 THEN from ELSE next[walk[n - 1]]
    IN  walk

UpToTail(from) ==
    LET walk == Walk(from)
        last == CHOOSE n \in DOMAIN walk :
                   walk[n] = tailBlock /\ \A m \in 0..(n - 1) : walk[m] # tailBlock
    IN  {walk[n] : n \in 0..last}

(* Mutant: the block that was the tail is reset with the new ones. *)
PreparedFromStart ==
    IF op.first = None THEN {}
    ELSE UpToTail(IF op.startBlock = None THEN op.first ELSE op.startBlock)

(* The blocks of the call, whose flags are reset before they are filled. *)
Prepared == IF op.first = None THEN {} ELSE UpToTail(op.first)

reset_empty(blocks) ==
    emptyFlags' = [b \in Blocks |-> IF b \in blocks THEN {} ELSE emptyFlags[b]]

(* The elements are constructed, the new blocks published, then the tail. *)
PublishFrom(first) ==
    /\ op # NoCall /\ op.left = 0
    /\ reset_empty(Prepared)
    /\ LET walk == Walk(first)
           here(b, o) == {k \in 0..(op.count - 1) :
                            /\ walk[((tailIndex % BlockSize) + k) \div BlockSize] = b
                            /\ Add(tailIndex, k) % BlockSize = o}
       IN  slot' = [b \in Blocks |-> [o \in Offsets |->
                       IF here(b, o) = {} THEN slot[b][o]
                       ELSE Add(tailIndex, CHOOSE k \in here(b, o) : TRUE)]]
    /\ IF op.first = None
       THEN UNCHANGED <<blockIndexes, pr_blockIndexFront>>
       ELSE IF op.kind = "bulk"
       THEN /\ blockIndexes' = [blockIndexes EXCEPT
                   ![Len(blockIndexes)].front = (pr_blockIndexFront - 1) % blockIndex.size]
            /\ UNCHANGED pr_blockIndexFront
       ELSE /\ blockIndexes' = [blockIndexes EXCEPT
                   ![Len(blockIndexes)].front = pr_blockIndexFront,
                   ![Len(blockIndexes)].entries[pr_blockIndexFront] =
                       [base |-> tailIndex, block |-> tailBlock]]
            /\ pr_blockIndexFront' = NextSlot
    /\ tailIndex' = Add(tailIndex, op.count)
    /\ op' = NoCall
    /\ UNCHANGED <<headIndex, pr_blockIndexSlotsUsed, tailBlock, next, allocated, stranded, consumers>>

Publish ==
    PublishFrom(IF tailIndex % BlockSize = 0 THEN op.first ELSE op.startBlock)

(* A constructor throws: those that were constructed are destroyed. *)
ConstructorThrows ==
    /\ op.kind \in Throwing /\ op.left = 0
    /\ reset_empty(Prepared)
    /\ stranded' = stranded \union Prepared
    /\ Undo
    /\ pr_blockIndexFront' = IF op.kind = "bulk" THEN op.front ELSE pr_blockIndexFront
    /\ UNCHANGED <<tailIndex, headIndex, slot, blockIndexes, next, allocated, consumers>>

-------------------------------------------------------------------------------
(* A consumer has been granted n elements (SubQueue). *)
Take(c, n) ==
    /\ pc[c] = "idle"
    /\ n <= Subtract(tailIndex, headIndex)
    /\ pc' = [pc EXCEPT ![c] = "load"]
    /\ index' = [index EXCEPT ![c] = headIndex]
    /\ count' = [count EXCEPT ![c] = n]
    /\ headIndex' = Add(headIndex, n)
    /\ UNCHANGED <<tailIndex, emptyFlags, slot, blockIndexes, producer, held, at>>

(* It loads blockIndex and its front... *)
LoadFront(c) ==
    /\ pc[c] = "load"
    /\ pc' = [pc EXCEPT ![c] = "locate"]
    /\ held' = [held EXCEPT ![c] = Len(blockIndexes)]
    /\ at' = [at EXCEPT ![c] = blockIndex.front]
    /\ UNCHANGED <<tailIndex, headIndex, emptyFlags, slot, blockIndexes, producer, index, count>>

(* ...and reckons from the base found there how far back its block is. *)
Locate(c) ==
    /\ pc[c] = "locate"
    /\ pc' = [pc EXCEPT ![c] = "move"]
    /\ LET h == blockIndexes[held[c]]
           offset == Signed(Subtract(BaseOf(index[c]), h.entries[at[c]].base)) \div BlockSize
       IN  at' = [at EXCEPT ![c] = (at[c] + offset) % h.size]
    /\ UNCHANGED <<tailIndex, headIndex, emptyFlags, slot, blockIndexes, producer>>
    /\ UNCHANGED <<index, count, held>>

BlockAt(c) == blockIndexes[held[c]].entries[at[c]].block

(* Its elements of that block. *)
InBlock(c) == {o \in Offsets : o >= index[c] % BlockSize /\ o < (index[c] % BlockSize) + count[c]}

(* They are moved out, or destroyed because the assignment of one throws,  *)
(* and flagged; then comes the next slot of the same index.                *)
MoveBlock(c) ==
    /\ pc[c] = "move"
    /\ slot' = [slot EXCEPT ![BlockAt(c)] =
                   [o \in Offsets |-> IF o \in InBlock(c) THEN Nothing ELSE @[o]]]
    /\ emptyFlags' = [emptyFlags EXCEPT ![BlockAt(c)] = @ \union InBlock(c)]
    /\ IF Cardinality(InBlock(c)) = count[c]
       THEN /\ pc' = [pc EXCEPT ![c] = "idle"]
            /\ index' = [index EXCEPT ![c] = 0]
            /\ count' = [count EXCEPT ![c] = 0]
            /\ held' = [held EXCEPT ![c] = 0]
            /\ at' = [at EXCEPT ![c] = 0]
       ELSE /\ index' = [index EXCEPT ![c] = Add(@, Cardinality(InBlock(c)))]
            /\ count' = [count EXCEPT ![c] = @ - Cardinality(InBlock(c))]
            /\ at' = [at EXCEPT ![c] = (@ + 1) % blockIndexes[held[c]].size]
            /\ UNCHANGED <<pc, held>>
    /\ UNCHANGED <<tailIndex, headIndex, blockIndexes, producer>>

-------------------------------------------------------------------------------
Next ==
    \/ Call("enqueue", 1)
    \/ \E n \in 1..MaxBulk : Call("bulk", n)
    \/ Reuse
    \/ Grow
    \/ \E b \in Blocks : Insert(b)
    \/ Fail
    \/ Publish
    \/ ConstructorThrows
    \/ \E c \in Consumers :
          \/ \E n \in 1..MaxBulk : Take(c, n)
          \/ LoadFront(c)
          \/ Locate(c)
          \/ MoveBlock(c)

Spec == Init /\ [][Next]_vars

-------------------------------------------------------------------------------
(* A consumer finds its elements, one after the other, where they were put *)
(* and no other consumer takes or the producer overwrites them, whatever   *)
(* was added to the block index, or replaced it, after it looked there.    *)
Located ==
    \A c \in Consumers :
       pc[c] = "move" =>
          \A o \in InBlock(c) : slot[BlockAt(c)][o] = BaseOf(index[c]) + o

-------------------------------------------------------------------------------
(* The block the current index and its front have for the element at i. *)
BlockOf(i) ==
    LET front == blockIndex.front
        offset == Signed(Subtract(BaseOf(i), blockIndex.entries[front].base)) \div BlockSize
    IN  blockIndex.entries[(front + offset) % blockIndex.size].block

(* Every element that waits can be found: a call that ended, and one that  *)
(* failed and rolled back, leave all its predecessors' blocks indexed.     *)
Indexed ==
    \A k \in 0..(Subtract(tailIndex, headIndex) - 1) :
       LET i == Add(headIndex, k)
       IN  BlockOf(i) # None /\ slot[BlockOf(i)][i % BlockSize] = i

Holds(b) == \E o \in Offsets : slot[b][o] # Nothing

CanBeUsedAgain(b) == b # tailBlock /\ ~Holds(b) => is_empty(b)

(* "Leave the new block available for next time": a block that was taken   *)
(* for an element whose constructor threw can be used again.               *)
AvailableNextTime == op = NoCall => \A b \in allocated : CanBeUsedAgain(b)

(* Once its elements are gone a block can be used again: but for those a   *)
(* throwing constructor leaves, no block of the ring is lost, by which     *)
(* memory would grow although the queue is short.                          *)
Reusable == op = NoCall => \A b \in allocated \ stranded : CanBeUsedAgain(b)

EntryFrom(n) == blockIndex.entries[(OldestSlot + n) % blockIndex.size]

(* Mutant: the block the head is in is skipped for its base. *)
HalfDequeuedBeyond ==
    LET Behind(n) == circular_less_than(EntryFrom(n).base, headIndex)
        found == {n \in 0..(blockIndex.size - 1) :
                    ~Behind(n) /\ \A m \in 0..(n - 1) : Behind(m)}
    IN  IF headIndex % BlockSize = 0 THEN {} ELSE {EntryFrom(n).block : n \in found}

(* ~ExplicitProducer: the block the head is in, searched from the oldest... *)
HalfDequeued ==
    LET Behind(n) == circular_less_than(Add(EntryFrom(n).base, BlockSize), headIndex)
        found == {n \in 0..(blockIndex.size - 1) :
                    ~Behind(n) /\ \A m \in 0..(n - 1) : Behind(m)}
    IN  IF headIndex % BlockSize = 0 THEN {} ELSE {EntryFrom(n).block : n \in found}

(* ...and what is destroyed of each block that is not empty. *)
Destructed(b) ==
    {o \in Offsets :
       /\ ~is_empty(b)
       /\ b \in HalfDequeued => o >= headIndex % BlockSize
       /\ b = tailBlock /\ tailIndex % BlockSize # 0 => o < tailIndex % BlockSize}

(* Were the producer destroyed, each element there is, and nothing else,   *)
(* would be, but in the blocks that throwing constructors leave: the       *)
(* destructor knows them by the flags, the index and the counters, which   *)
(* every call that failed has to have left in order.                       *)
DestroysAll ==
    op = NoCall /\ (\A c \in Consumers : pc[c] = "idle") =>
       \A b \in allocated \ stranded : Destructed(b) = {o \in Offsets : slot[b][o] # Nothing}
===============================================================================
