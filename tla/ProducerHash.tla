----------------------------- MODULE ProducerHash -----------------------------
(***************************************************************************)
(* The hash of implicit producers of includes/concurrent_queue.hpp: how a  *)
(* thread that enqueues without a token gets its producer, the same one    *)
(* each time.  When the table is half full one thread installs a larger    *)
(* one, which links to the one before; the others go on with the table     *)
(* they have read, and wait only when that is three quarters full.         *)
(*                                                                         *)
(* This is the code without MOODYCAMEL_CPP11_THREAD_LOCAL_SUPPORTED, which *)
(* the header does not define: entries are never removed.  A probe and the *)
(* compare-and-swap of the slot it finds empty are one step.               *)
(***************************************************************************)
EXTENDS Integers, Sequences, FiniteSets

CONSTANTS
    Threads,
    InitialHashSize,    \* INITIAL_IMPLICIT_PRODUCER_HASH_SIZE
    Hashes,             \* what hash_thread_id may return
    None                \* invalid_thread_id, and no producer

ASSUME ProducerHashAssumption ==
    /\ InitialHashSize \in Nat /\ InitialHashSize > 1
    /\ Hashes \subseteq Nat
    /\ IsFiniteSet(Threads)
    /\ None \notin Threads /\ None \notin Nat

VARIABLES
    hashOf,
    tables,     \* the main table last, each after its prev
    implicitProducerHashCount,
    implicitProducerHashResizeInProgress,
    created,    \* how many producers there are; they are numbered
    pc,         \* where each thread is in get_or_add_implicit_producer
    mainHash,   \* its locals: the number of a table,
    hash,       \* that of the table it looks in,
    index,
    newCount,
    value,      \* the producer it has found or made
    got         \* what its last call that did not fail returned

shared == <<tables, implicitProducerHashCount, implicitProducerHashResizeInProgress, created>>

locals == <<pc, mainHash, hash, index, newCount, value, got>>

vars == <<hashOf, shared, locals>>

Table(capacity) ==
    [s \in 0..(capacity - 1) |-> [key |-> None, value |-> None]]

CapacityOf(table) == Cardinality(DOMAIN table)

(* populate_initial_implicit_producer_hash *)
Init ==
    /\ hashOf \in [Threads -> Hashes]
    /\ tables = <<Table(InitialHashSize)>>
    /\ implicitProducerHashCount = 0
    /\ implicitProducerHashResizeInProgress = FALSE
    /\ created = 0
    /\ pc = [t \in Threads |-> "idle"]
    /\ mainHash = [t \in Threads |-> 0]
    /\ hash = [t \in Threads |-> 0]
    /\ index = [t \in Threads |-> 0]
    /\ newCount = [t \in Threads |-> 0]
    /\ value = [t \in Threads |-> None]
    /\ got = [t \in Threads |-> None]

-------------------------------------------------------------------------------
Goto(t, label) == pc' = [pc EXCEPT ![t] = label]

(* The call ends; the next one starts anew. *)
Return(t, producer) ==
    /\ Goto(t, "idle")
    /\ got' = [got EXCEPT ![t] = IF producer = None THEN @ ELSE producer]
    /\ mainHash' = [mainHash EXCEPT ![t] = 0]
    /\ hash' = [hash EXCEPT ![t] = 0]
    /\ index' = [index EXCEPT ![t] = 0]
    /\ newCount' = [newCount EXCEPT ![t] = 0]
    /\ value' = [value EXCEPT ![t] = None]

Call(t) ==
    /\ pc[t] = "idle"
    /\ Goto(t, "search")
    /\ mainHash' = [mainHash EXCEPT ![t] = Len(tables)]
    /\ hash' = [hash EXCEPT ![t] = Len(tables)]
    /\ index' = [index EXCEPT ![t] = hashOf[t]]
    /\ UNCHANGED <<hashOf, shared, newCount, value, got>>

SlotIn(t, table) == index[t] % CapacityOf(tables[table])

Probed(t, table) == tables[table][SlotIn(t, table)]

SearchFurther(t) ==
    /\ pc[t] = "search"
    /\ Probed(t, hash[t]).key \notin {t, None}
    /\ index' = [index EXCEPT ![t] = @ + 1]
    /\ UNCHANGED <<hashOf, shared, pc, mainHash, hash, newCount, value, got>>

(* Mutant: only the main table is searched. *)
SearchMainOnly(t) ==
    /\ pc[t] = "search"
    /\ Probed(t, hash[t]).key = None
    /\ Goto(t, "count")
    /\ UNCHANGED <<hashOf, shared, mainHash, hash, index, newCount, value, got>>

(* An empty slot: the thread is not in this table, so go on with prev. *)
SearchPrevious(t) ==
    /\ pc[t] = "search"
    /\ Probed(t, hash[t]).key = None
    /\ IF hash[t] = 1
       THEN Goto(t, "count") /\ UNCHANGED <<hash, index>>
       ELSE /\ hash' = [hash EXCEPT ![t] = @ - 1]
            /\ index' = [index EXCEPT ![t] = hashOf[t]]
            /\ UNCHANGED pc
    /\ UNCHANGED <<hashOf, shared, mainHash, newCount, value, got>>

(* Mutant: the first slot that is taken is the thread's. *)
FoundAny(t) ==
    /\ pc[t] = "search"
    /\ Probed(t, hash[t]).key # None
    /\ Return(t, Probed(t, hash[t]).value)
    /\ UNCHANGED <<hashOf, shared>>

(* In an older table than the main one it is copied to that. *)
Found(t) ==
    /\ pc[t] = "search"
    /\ Probed(t, hash[t]).key = t
    /\ IF hash[t] = mainHash[t]
       THEN Return(t, Probed(t, hash[t]).value)
       ELSE /\ Goto(t, "insert")
            /\ value' = [value EXCEPT ![t] = Probed(t, hash[t]).value]
            /\ index' = [index EXCEPT ![t] = hashOf[t]]
            /\ UNCHANGED <<mainHash, hash, newCount, got>>
    /\ UNCHANGED <<hashOf, shared>>

CountIn(t) ==
    /\ pc[t] = "count"
    /\ Goto(t, "try")
    /\ implicitProducerHashCount' = implicitProducerHashCount + 1
    /\ newCount' = [newCount EXCEPT ![t] = implicitProducerHashCount + 1]
    /\ UNCHANGED <<hashOf, tables, implicitProducerHashResizeInProgress, created>>
    /\ UNCHANGED <<mainHash, hash, index, value, got>>

HalfFull(t, table) == newCount[t] >= CapacityOf(tables[table]) \div 2

(* The table is half full: try to become the one that replaces it. *)
TryLock(t) ==
    /\ pc[t] = "try"
    /\ IF HalfFull(t, mainHash[t]) /\ ~implicitProducerHashResizeInProgress
       THEN Goto(t, "locked") /\ implicitProducerHashResizeInProgress' = TRUE
       ELSE Goto(t, "fits") /\ UNCHANGED implicitProducerHashResizeInProgress
    /\ UNCHANGED <<hashOf, tables, implicitProducerHashCount, created>>
    /\ UNCHANGED <<mainHash, hash, index, newCount, value, got>>

Locked(t) ==
    /\ pc[t] = "locked"
    /\ mainHash' = [mainHash EXCEPT ![t] = Len(tables)]
    /\ Goto(t, IF HalfFull(t, Len(tables)) THEN "allocate" ELSE "unlock")
    /\ UNCHANGED <<hashOf, shared, hash, index, newCount, value, got>>

(* The capacity is doubled until the table is less than half full: before  *)
(* it was doubled for the last time it was not enough.                     *)
NewCapacities(t) ==
    LET old == CapacityOf(tables[mainHash[t]])
    IN  {capacity \in (2 * old)..(4 * newCount[t] + 2) :
            /\ \E n \in 1..newCount[t] : capacity = old * 2 ^ n
            /\ newCount[t] < capacity \div 2
            /\ newCount[t] >= (capacity \div 2) \div 2}

Install(t) ==
    /\ pc[t] = "allocate"
    /\ \E capacity \in NewCapacities(t) : tables' = Append(tables, Table(capacity))
    /\ mainHash' = [mainHash EXCEPT ![t] = Len(tables) + 1]
    /\ Goto(t, "unlock")
    /\ UNCHANGED <<hashOf, implicitProducerHashCount, implicitProducerHashResizeInProgress>>
    /\ UNCHANGED <<created, hash, index, newCount, value, got>>

Unlock(t) ==
    /\ pc[t] = "unlock"
    /\ implicitProducerHashResizeInProgress' = FALSE
    /\ Goto(t, "fits")
    /\ UNCHANGED <<hashOf, tables, implicitProducerHashCount, created>>
    /\ UNCHANGED <<mainHash, hash, index, newCount, value, got>>

AllocationFails(t) ==
    /\ pc[t] = "allocate"
    /\ Goto(t, "failed")
    /\ implicitProducerHashCount' = implicitProducerHashCount - 1
    /\ UNCHANGED <<hashOf, tables, implicitProducerHashResizeInProgress, created>>
    /\ UNCHANGED <<mainHash, hash, index, newCount, value, got>>

(* Mutant: the lock is kept. *)
GiveUpLocked(t) ==
    /\ pc[t] = "failed"
    /\ Return(t, None)
    /\ UNCHANGED <<hashOf, shared>>

GiveUp(t) ==
    /\ pc[t] = "failed"
    /\ implicitProducerHashResizeInProgress' = FALSE
    /\ Return(t, None)
    /\ UNCHANGED <<hashOf, tables, implicitProducerHashCount, created>>

(* Mutant: the table may be filled. *)
FitsExactly(t) == newCount[t] <= CapacityOf(tables[mainHash[t]])

(* The thread's table is less than three quarters full. *)
Fits(t) ==
    LET capacity == CapacityOf(tables[mainHash[t]])
    IN  newCount[t] < capacity \div 2 + capacity \div 4

(* recycle_or_create_producer; no implicit producer is ever inactive. *)
Create(t) ==
    /\ pc[t] = "fits" /\ Fits(t)
    /\ created' = created + 1
    /\ value' = [value EXCEPT ![t] = created + 1]
    /\ index' = [index EXCEPT ![t] = hashOf[t]]
    /\ Goto(t, "insert")
    /\ UNCHANGED <<hashOf, tables, implicitProducerHashCount>>
    /\ UNCHANGED <<implicitProducerHashResizeInProgress, mainHash, hash, newCount, got>>

(* Mutant: the thread stays counted. *)
CreateFailsCounted(t) ==
    /\ pc[t] = "fits" /\ Fits(t)
    /\ Return(t, None)
    /\ UNCHANGED <<hashOf, shared>>

CreateFails(t) ==
    /\ pc[t] = "fits" /\ Fits(t)
    /\ implicitProducerHashCount' = implicitProducerHashCount - 1
    /\ Return(t, None)
    /\ UNCHANGED <<hashOf, tables, implicitProducerHashResizeInProgress, created>>

(* Somebody else is replacing the table. *)
Wait(t) ==
    /\ pc[t] = "fits" /\ ~Fits(t)
    /\ mainHash' = [mainHash EXCEPT ![t] = Len(tables)]
    /\ Goto(t, "try")
    /\ UNCHANGED <<hashOf, shared, hash, index, newCount, value, got>>

(* The new producer, or the one found in an older table. *)
Insert(t) ==
    /\ pc[t] = "insert"
    /\ IF Probed(t, mainHash[t]).key = None
       THEN /\ tables' = [tables EXCEPT ![mainHash[t]][SlotIn(t, mainHash[t])] =
                             [key |-> t, value |-> value[t]]]
            /\ Return(t, value[t])
       ELSE /\ index' = [index EXCEPT ![t] = @ + 1]
            /\ UNCHANGED <<tables, pc, mainHash, hash, newCount, value, got>>
    /\ UNCHANGED <<hashOf, implicitProducerHashCount, implicitProducerHashResizeInProgress>>
    /\ UNCHANGED created

Step(t) ==
    \/ SearchFurther(t) \/ SearchPrevious(t) \/ Found(t) \/ CountIn(t)
    \/ TryLock(t) \/ Locked(t) \/ Install(t) \/ Unlock(t)
    \/ AllocationFails(t) \/ GiveUp(t)
    \/ Create(t) \/ CreateFails(t) \/ Wait(t) \/ Insert(t)

Next == \E t \in Threads : Call(t) \/ Step(t)

Spec == Init /\ [][Next]_vars

(* A thread in a call runs. *)
FairSpec == Spec /\ \A t \in Threads : WF_vars(Step(t))

-------------------------------------------------------------------------------
(* Probing ends: whichever table a thread goes on with, and however often  *)
(* others have failed, copied themselves or replaced it in between, there  *)
(* is an empty slot in it.                                                 *)
SlotLeft == \A n \in DOMAIN tables : \E s \in DOMAIN tables[n] : tables[n][s].key = None

Registered == {t \in Threads : \E n \in DOMAIN tables : \E s \in DOMAIN tables[n] :
                                  tables[n][s].key = t}

(* The count is that of the threads in the tables and of those on their    *)
(* way in; one that has failed does not take a place for ever.             *)
Counted ==
    implicitProducerHashCount =
       Cardinality(Registered \union
                   {t \in Threads : pc[t] \in {"try", "locked", "allocate", "unlock", "fits", "insert"}})

(* Two threads never share a producer, which only one may fill at a time,  *)
(* although a probe passes over, and stops at, slots that others fill.      *)
Distinct == \A t, u \in Threads : t # u /\ got[t] # None => got[t] # got[u]

(* A thread that has a producer always gets this one, whatever table it is *)
(* in: its elements stay in order, and it makes no second one.             *)
KeepsProducer == [][\A t \in Threads : got[t] # None => got'[t] = got[t]]_vars

(* Threads wait for one that replaces the table: it ends, unless           *)
(* allocations fail again and again.                                       *)
CallsEnd ==
    \/ []<><<\E t \in Threads : AllocationFails(t)>>_vars
    \/ \A t \in Threads : pc[t] # "idle" ~> pc[t] = "idle"
===============================================================================
