-------------------------- MODULE ProducerHashProofs --------------------------
(***************************************************************************)
(* Proofs about ProducerHash, for any number of threads, any hash function *)
(* and any size of the first table: a thread has one producer and no two   *)
(* threads have the same one, whatever tables it is looked up in and       *)
(* copied to, and no table is ever full.                                   *)
(***************************************************************************)
EXTENDS ProducerHash, FiniteSetTheorems, SequenceTheorems, TLAPS

Entry == [key : Threads \union {None}, value : Nat \union {None}]

Tables == UNION {[0..(c - 1) -> Entry] : c \in Nat}

Cap(n) == CapacityOf(tables[n])

Slots(n) == 0..(Cap(n) - 1)

Numbers == 1..Len(tables)

Pending == {"try", "locked", "allocate", "unlock", "fits"}

Locking == {"locked", "allocate", "unlock", "failed"}

Labels == Pending \union Locking \union {"idle", "search", "count", "insert"}

TablesOK ==
    /\ tables \in Seq(Tables) /\ Len(tables) >= 1
    /\ \A n \in Numbers : Cap(n) \in Nat /\ Cap(n) >= 2 /\ tables[n] \in [Slots(n) -> Entry]
    /\ \A m, n \in Numbers : m <= n => Cap(m) <= Cap(n)

LocalsOK ==
    /\ hashOf \in [Threads -> Nat]
    /\ pc \in [Threads -> Labels]
    /\ mainHash \in [Threads -> Nat] /\ hash \in [Threads -> Nat]
    /\ index \in [Threads -> Nat] /\ newCount \in [Threads -> Int]
    /\ value \in [Threads -> Nat \union {None}]
    /\ got \in [Threads -> Nat \union {None}]

TypeOK ==
    /\ TablesOK /\ LocalsOK
    /\ implicitProducerHashResizeInProgress \in BOOLEAN
    /\ implicitProducerHashCount \in Int
    /\ created \in Nat

(* The key that a probe with index j meets in table n, and the tables that *)
(* a thread is in. *)
KeyAt(n, j) == tables[n][j % Cap(n)].key

In(n, t) == \E s \in Slots(n) : tables[n][s].key = t

(* Linear probing finds each entry: no slot on the way to it is empty, and *)
(* no thread has two slots of a table. *)
Reached(n, s) ==
    LET t == tables[n][s].key
    IN  t # None =>
          /\ tables[n][s].value \in Nat
          /\ \E j \in Nat : /\ j >= hashOf[t] /\ j % Cap(n) = s
                            /\ \A l \in hashOf[t]..(j - 1) : KeyAt(n, l) # None

Reach == \A n \in Numbers : \A s \in Slots(n) : Reached(n, s)

Once ==
    \A n \in Numbers : \A r, s \in Slots(n) :
        tables[n][r].key = tables[n][s].key /\ tables[n][r].key # None => r = s

(* Where a thread is tells which tables it is in: those it has not         *)
(* searched yet, none, or those before the one it is about to enter. *)
Local(t) ==
    /\ pc[t] # "insert" => value[t] = None
    /\ pc[t] # "idle" => mainHash[t] \in Numbers
    /\ got[t] # None => \E n \in Numbers : In(n, t)
    /\ pc[t] = "search" =>
          /\ hash[t] \in 1..mainHash[t] /\ index[t] >= hashOf[t]
          /\ \A j \in hashOf[t]..(index[t] - 1) : KeyAt(hash[t], j) \notin {t, None}
          /\ \A n \in Numbers : In(n, t) => n <= hash[t]
    /\ pc[t] \in Pending \union {"count", "failed"} => \A n \in Numbers : ~In(n, t)
    /\ pc[t] = "allocate" => mainHash[t] = Len(tables)
    /\ pc[t] = "insert" =>
          /\ value[t] # None /\ index[t] >= hashOf[t]
          /\ \A j \in hashOf[t]..(index[t] - 1) : KeyAt(mainHash[t], j) # None
          /\ \A n \in Numbers : In(n, t) => n < mainHash[t]

Locals == \A t \in Threads : Local(t)

Locks ==
    \A t \in Threads :
        pc[t] \in Locking =>
            /\ implicitProducerHashResizeInProgress
            /\ \A u \in Threads \ {t} : pc[u] \notin Locking

(* The producers of thread t: there is one at most, and it is no one       *)
(* else's. *)
Mine(t, p) ==
    \/ \E n \in Numbers : \E s \in Slots(n) : tables[n][s].key = t /\ tables[n][s].value = p
    \/ value[t] = p
    \/ got[t] = p

Identity ==
    /\ \A t, u \in Threads, p, q \in Nat : Mine(t, p) /\ Mine(u, q) => (t = u <=> p = q)
    /\ \A t \in Threads, p \in Nat : Mine(t, p) => p <= created

IInv == TypeOK /\ Reach /\ Once /\ Locals /\ Locks /\ Identity

-------------------------------------------------------------------------------
LEMMA Mod ==
    ASSUME NEW x \in Nat, NEW c \in Nat, c >= 1
    PROVE  x % c \in 0..(c - 1)
OBVIOUS

LEMMA CapacityIs ==
    ASSUME NEW f, NEW c \in Nat, DOMAIN f = 0..(c - 1)
    PROVE  CapacityOf(f) = c
<1>1. 0 \in Int /\ c - 1 \in Int
  OBVIOUS
<1>2. Cardinality(0..(c - 1)) = IF 0 > c - 1 THEN 0 ELSE (c - 1) - 0 + 1
  BY <1>1, FS_Interval, Zenon
<1> QED BY <1>2 DEF CapacityOf

LEMMA TableIs ==
    ASSUME NEW c \in Nat
    PROVE  /\ Table(c) \in [0..(c - 1) -> Entry] /\ CapacityOf(Table(c)) = c
           /\ Table(c) \in Tables
           /\ \A s \in 0..(c - 1) : Table(c)[s].key = None
<1>1. Table(c) \in [0..(c - 1) -> Entry]
  BY DEF Table, Entry
<1>2. CapacityOf(Table(c)) = c
  BY CapacityIs DEF Table
<1> QED BY <1>1, <1>2 DEF Tables, Table

(* A table is installed after the others. *)
LEMMA Installed ==
    ASSUME TablesOK, NEW c \in Nat, c >= 2, c >= Cap(Len(tables)),
           tables' = Append(tables, Table(c)), NEW last \in Nat, last = Len(tables) + 1
    PROVE  /\ Len(tables') = last /\ TablesOK'
           /\ \A n \in Numbers : tables'[n] = tables[n] /\ Cap(n)' = Cap(n)
           /\ \A t \in Threads : ~In(last, t)'
           /\ \A s \in Slots(last)' : tables'[last][s].key = None
<1>1. /\ Len(tables) \in Nat /\ tables \in Seq(Tables) /\ Table(c) \in Tables
  BY TableIs DEF TablesOK
<1>2. /\ Len(tables') = last /\ tables' \in Seq(Tables)
      /\ \A n \in Numbers : tables'[n] = tables[n]
      /\ tables'[last] = Table(c)
  BY <1>1 DEF Numbers
<1>3. \A n \in Numbers : Cap(n)' = Cap(n)
  BY <1>2 DEF Cap
<1>4. Cap(last)' = c
  BY <1>2, TableIs DEF Cap
<1>5. Numbers' = Numbers \union {last}
  BY <1>1, <1>2 DEF Numbers
<1>6. \A n \in Numbers : Slots(n)' = Slots(n)
  BY <1>3 DEF Slots
<1>7. Slots(last)' = 0..(c - 1)
  BY <1>4 DEF Slots
<1>8. \A s \in Slots(last)' : tables'[last][s].key = None
  BY <1>2, <1>7, TableIs
<1>9. \A n \in Numbers' : Cap(n)' \in Nat /\ Cap(n)' >= 2 /\ tables'[n] \in [Slots(n)' -> Entry]
  <2>1. ASSUME NEW n \in Numbers
        PROVE  Cap(n)' \in Nat /\ Cap(n)' >= 2 /\ tables'[n] \in [Slots(n)' -> Entry]
    BY <1>2, <1>3, <1>6 DEF TablesOK
  <2>2. Cap(last)' \in Nat /\ Cap(last)' >= 2 /\ tables'[last] \in [Slots(last)' -> Entry]
    BY <1>2, <1>4, <1>7, TableIs
  <2> QED BY <1>5, <2>1, <2>2
<1>10. \A m, n \in Numbers' : m <= n => Cap(m)' <= Cap(n)'
  <2>1. \A m \in Numbers : Cap(m) <= Cap(Len(tables)) /\ Cap(m) \in Nat
    BY <1>1 DEF TablesOK, Numbers
  <2>2. \A m \in Numbers : Cap(m) <= c /\ ~(last <= m)
    BY <1>1, <2>1 DEF TablesOK, Numbers
  <2> QED BY <1>3, <1>4, <1>5, <2>2 DEF TablesOK
<1>11. TablesOK'
  <2>1. tables' \in Seq(Tables) /\ Len(tables') >= 1
    BY <1>1, <1>2
  <2> QED BY <1>9, <1>10, <2>1, Zenon DEF TablesOK
<1>12. \A t \in Threads : ~In(last, t)'
  BY <1>8, ProducerHashAssumption DEF In
<1> QED BY <1>2, <1>3, <1>8, <1>11, <1>12

(* A slot of a table is filled. *)
Fills(m, s, e) == tables' = [tables EXCEPT ![m][s] = e]

LEMMA Filled ==
    ASSUME TablesOK, NEW m \in Numbers, NEW s \in Slots(m), NEW e \in Entry, Fills(m, s, e)
    PROVE  /\ Len(tables') = Len(tables) /\ TablesOK'
           /\ \A n \in Numbers : Cap(n)' = Cap(n)
           /\ \A n \in Numbers : \A r \in Slots(n) :
                 tables'[n][r] = IF n = m /\ r = s THEN e ELSE tables[n][r]
<1>1. /\ Len(tables) \in Nat /\ tables \in Seq(Tables)
      /\ tables[m] \in [Slots(m) -> Entry]
  BY DEF TablesOK
<1> DEFINE f == [tables[m] EXCEPT ![s] = e]
<1>2. f \in [Slots(m) -> Entry] /\ \A r \in Slots(m) : f[r] = IF r = s THEN e ELSE tables[m][r]
  BY <1>1
<1>3. f \in Tables
  BY <1>2 DEF Tables, Slots, TablesOK
<1>4. tables' = [tables EXCEPT ![m] = f]
  BY DEF Fills
<1> HIDE DEF f
<1>5. /\ tables' \in Seq(Tables) /\ Len(tables') = Len(tables)
      /\ tables'[m] = f /\ \A n \in Numbers : n # m => tables'[n] = tables[n]
  BY <1>1, <1>3, <1>4 DEF Numbers
<1>6. \A n \in Numbers : Cap(n)' = Cap(n)
  <2>1. DOMAIN f = DOMAIN tables[m]
    BY <1>1, <1>2
  <2>2. \A n \in Numbers : DOMAIN tables'[n] = DOMAIN tables[n]
    BY <1>5, <2>1
  <2> QED BY <2>2 DEF Cap, CapacityOf
<1>7. Numbers' = Numbers /\ \A n \in Numbers : Slots(n)' = Slots(n)
  BY <1>5, <1>6 DEF Numbers, Slots
<1>8. \A n \in Numbers : tables'[n] \in [Slots(n) -> Entry]
  BY <1>2, <1>5 DEF TablesOK
<1>9. TablesOK'
  BY <1>5, <1>6, <1>7, <1>8 DEF TablesOK
<1> QED BY <1>2, <1>5, <1>6, <1>9

-------------------------------------------------------------------------------
(* The locals of a thread that others leave alone. *)
Untouched(u) ==
    UNCHANGED <<pc[u], mainHash[u], hash[u], index[u], newCount[u], value[u], got[u]>>

(* A step that leaves the tables alone. *)
LEMMA SameTables ==
    ASSUME UNCHANGED tables
    PROVE  /\ Numbers' = Numbers
           /\ \A n : Cap(n)' = Cap(n) /\ Slots(n)' = Slots(n)
           /\ \A n, t : In(n, t)' <=> In(n, t)
           /\ \A n, j : KeyAt(n, j)' = KeyAt(n, j)
BY DEF Numbers, Cap, Slots, In, KeyAt

(* What others do to the tables does not put a thread out. *)
LEMMA LocalStays ==
    ASSUME NEW u \in Threads, Local(u), LocalsOK, Untouched(u), UNCHANGED hashOf,
           Numbers \subseteq Numbers',
           \A n \in Numbers : In(n, u)' <=> In(n, u),
           \A n \in Numbers' \ Numbers : ~In(n, u)',
           \A n \in Numbers, j \in Nat :
              KeyAt(n, j) # None =>
                 KeyAt(n, j)' # None /\ (KeyAt(n, j) # u => KeyAt(n, j)' # u),
           pc[u] = "allocate" => Len(tables') = Len(tables)
    PROVE  Local(u)'
<1>1. /\ UNCHANGED <<pc[u], mainHash[u], hash[u], index[u], newCount[u], value[u], got[u]>>
      /\ hashOf[u] \in Nat /\ index[u] \in Nat
  BY DEF Untouched, LocalsOK
<1>2. \A j \in hashOf[u]..(index[u] - 1) : j \in Nat
  BY <1>1
<1>3. pc[u] # "idle" => mainHash[u] \in Numbers /\ mainHash[u] \in Numbers'
  BY DEF Local
<1>4. (pc[u] # "insert" => value[u] = None)'
  BY <1>1 DEF Local
<1>5. (got[u] # None => \E n \in Numbers : In(n, u))'
  BY <1>1 DEF Local
<1>6. ASSUME pc[u] = "search"
      PROVE  /\ hash'[u] \in 1..mainHash'[u] /\ index'[u] >= hashOf'[u]
             /\ \A j \in hashOf'[u]..(index'[u] - 1) : KeyAt(hash[u], j)' \notin {u, None}
             /\ \A n \in Numbers' : In(n, u)' => n <= hash'[u]
  <2>1. hash[u] \in Numbers
    BY <1>3, <1>6 DEF Local, Numbers, LocalsOK
  <2>2. PICK h \in Numbers : h = hash[u]
    BY <2>1
  <2>3. h = hash'[u]
    BY <1>1, <2>2
  <2>4. \A j \in hashOf[u]..(index[u] - 1) : KeyAt(h, j) \notin {u, None}
    BY <1>6, <2>2 DEF Local
  <2>5. \A j \in hashOf[u]..(index[u] - 1) : KeyAt(h, j)' \notin {u, None}
    BY <1>2, <2>4
  <2>6. \A j \in hashOf[u]..(index[u] - 1) : KeyAt(hash[u], j)' = KeyAt(h, j)'
    BY <2>3 DEF KeyAt, Cap
  <2> QED BY <1>1, <1>6, <2>5, <2>6 DEF Local
<1>7. (pc[u] \in Pending \union {"count", "failed"} => \A n \in Numbers : ~In(n, u))'
  BY <1>1 DEF Local
<1>9. (pc[u] = "allocate" => mainHash[u] = Len(tables))'
  BY <1>1 DEF Local
<1>10. ASSUME pc[u] = "insert"
       PROVE  /\ value'[u] # None /\ index'[u] >= hashOf'[u]
              /\ \A j \in hashOf'[u]..(index'[u] - 1) : KeyAt(mainHash[u], j)' # None
              /\ \A n \in Numbers' : In(n, u)' => n < mainHash'[u]
  <2>2. PICK h \in Numbers : h = mainHash[u]
    BY <1>3, <1>10
  <2>3. h = mainHash'[u]
    BY <1>1, <2>2
  <2>4. \A j \in hashOf[u]..(index[u] - 1) : KeyAt(h, j) # None
    BY <1>10, <2>2 DEF Local
  <2>5. \A j \in hashOf[u]..(index[u] - 1) : KeyAt(h, j)' # None
    BY <1>2, <2>4
  <2>6. \A j \in hashOf[u]..(index[u] - 1) : KeyAt(mainHash[u], j)' = KeyAt(h, j)'
    BY <2>3 DEF KeyAt, Cap
  <2> QED BY <1>1, <1>10, <2>5, <2>6 DEF Local
<1>11. (pc[u] # "idle" => mainHash[u] \in Numbers)'
  BY <1>1, <1>3
<1> QED BY <1>1, <1>4, <1>5, <1>6, <1>7, <1>9, <1>10, <1>11 DEF Local

LEMMA LocksStep ==
    ASSUME Locks, NEW t \in Threads, \A u \in Threads \ {t} : pc'[u] = pc[u],
           \/ /\ pc[t] \notin Locking /\ pc'[t] \notin Locking
              /\ UNCHANGED implicitProducerHashResizeInProgress
           \/ /\ pc[t] \notin Locking /\ ~implicitProducerHashResizeInProgress
              /\ implicitProducerHashResizeInProgress'
           \/ /\ pc[t] \in Locking /\ pc'[t] \in Locking
              /\ UNCHANGED implicitProducerHashResizeInProgress
           \/ pc[t] \in Locking /\ pc'[t] \notin Locking
    PROVE  Locks'
BY DEF Locks

LEMMA IdentityStays ==
    ASSUME Identity, UNCHANGED created,
           \A u \in Threads, p \in Nat : Mine(u, p)' => Mine(u, p)
    PROVE  Identity'
BY DEF Identity

(* A step of thread t that leaves the tables alone. *)
LEMMA ThreadStep ==
    ASSUME IInv, NEW t \in Threads, UNCHANGED <<hashOf, tables>>, LocalsOK', Local(t)',
           \A u \in Threads \ {t} : Untouched(u)
    PROVE  TablesOK' /\ Reach' /\ Once' /\ Locals'
<1>1. TablesOK /\ LocalsOK /\ Reach /\ Once /\ Locals
  BY DEF IInv, TypeOK
<1>2. /\ Numbers' = Numbers
      /\ \A n : Cap(n)' = Cap(n) /\ Slots(n)' = Slots(n)
      /\ \A n, u : In(n, u)' <=> In(n, u)
      /\ \A n, j : KeyAt(n, j)' = KeyAt(n, j)
  BY SameTables
<1>3. TablesOK'
  BY <1>1, <1>2 DEF TablesOK
<1>4. Reach'
  BY <1>1, <1>2 DEF Reach, Reached
<1>5. Once'
  BY <1>1, <1>2 DEF Once
<1>6. ASSUME NEW u \in Threads, u # t
      PROVE  Local(u)'
  <2>1. Untouched(u) /\ Local(u)
    BY <1>1, <1>6 DEF Locals
  <2> QED BY <1>1, <1>2, <2>1, LocalStays
<1>7. Locals'
  BY <1>6 DEF Locals
<1> QED BY <1>3, <1>4, <1>5, <1>7

(* It makes no producer: it may only learn of the one it has. *)
LEMMA ThreadLearns ==
    ASSUME IInv, NEW t \in Threads, UNCHANGED <<hashOf, tables, created>>,
           \A u \in Threads \ {t} : Untouched(u),
           \A p \in Nat : value'[t] = p \/ got'[t] = p => Mine(t, p)
    PROVE  Identity'
<1>1. ASSUME NEW u \in Threads, NEW p \in Nat, Mine(u, p)'
      PROVE  Mine(u, p)
  <2>1. Numbers' = Numbers /\ \A n : Slots(n)' = Slots(n)
    BY SameTables
  <2>2. CASE u = t
    BY <1>1, <2>1, <2>2 DEF Mine
  <2>3. CASE u # t
    BY <1>1, <2>1, <2>3 DEF Mine, Untouched
  <2> QED BY <2>2, <2>3
<1> QED BY <1>1, IdentityStays DEF IInv

LEMMA QuietStep ==
    ASSUME IInv, NEW t \in Threads, UNCHANGED <<hashOf, tables, created>>,
           LocalsOK', implicitProducerHashResizeInProgress' \in BOOLEAN,
           implicitProducerHashCount' \in Int, Local(t)', Locks',
           \A u \in Threads \ {t} : Untouched(u),
           \A p \in Nat : value'[t] = p \/ got'[t] = p => Mine(t, p)
    PROVE  IInv'
<1>1. TablesOK' /\ Reach' /\ Once' /\ Locals'
  BY ThreadStep
<1>2. Identity'
  BY ThreadLearns
<1>3. created' \in Nat
  BY DEF IInv, TypeOK
<1> QED BY <1>1, <1>2, <1>3 DEF IInv, TypeOK

(* A call starts its search with the main table. *)
LEMMA CallStep ==
    ASSUME IInv, NEW t \in Threads, Call(t)
    PROVE  IInv'
<1>1. /\ TablesOK /\ LocalsOK /\ Local(t) /\ Locks
      /\ implicitProducerHashResizeInProgress \in BOOLEAN /\ implicitProducerHashCount \in Int
  BY DEF IInv, TypeOK, Locals
<1>2. Len(tables) \in Nat /\ Len(tables) >= 1
  BY <1>1 DEF TablesOK
<1>3. /\ pc[t] = "idle" /\ pc' = [pc EXCEPT ![t] = "search"]
      /\ mainHash' = [mainHash EXCEPT ![t] = Len(tables)]
      /\ hash' = [hash EXCEPT ![t] = Len(tables)]
      /\ index' = [index EXCEPT ![t] = hashOf[t]]
      /\ UNCHANGED <<hashOf, tables, implicitProducerHashCount,
                     implicitProducerHashResizeInProgress, created, newCount, value, got>>
  BY DEF Call, Goto, shared
<1>4. LocalsOK'
  BY <1>1, <1>2, <1>3 DEF LocalsOK, Labels
<1>5. \A u \in Threads \ {t} : Untouched(u)
  BY <1>1, <1>3 DEF LocalsOK, Untouched
<1>6. /\ pc'[t] = "search" /\ mainHash'[t] = Len(tables) /\ hash'[t] = Len(tables)
      /\ index'[t] = hashOf[t] /\ hashOf[t] \in Nat /\ UNCHANGED <<value[t], got[t], hashOf[t]>>
  BY <1>1, <1>3 DEF LocalsOK
<1>7. Local(t)'
  <2>1. Numbers' = Numbers /\ \A n : In(n, t)' <=> In(n, t)
    BY <1>3, SameTables
  <2>2. value[t] = None /\ (got[t] # None => \E n \in Numbers : In(n, t))
    BY <1>1, <1>3 DEF Local
  <2>3. Len(tables) \in Numbers /\ Len(tables) \in 1..Len(tables)
        /\ \A n \in Numbers : n <= Len(tables)
    BY <1>2 DEF Numbers
  <2>4. \A j \in hashOf[t]..(index'[t] - 1) : FALSE
    BY <1>6
  <2> QED BY <1>6, <2>1, <2>2, <2>3, <2>4 DEF Local, Pending
<1>8. Locks'
  <2>1. pc[t] \notin Locking /\ pc'[t] \notin Locking
    BY <1>3, <1>6 DEF Locking
  <2> QED BY <1>1, <1>3, <1>5, <2>1, LocksStep DEF Untouched
<1>9. \A p \in Nat : value'[t] = p \/ got'[t] = p => Mine(t, p)
  BY <1>3 DEF Mine
<1> QED BY <1>1, <1>3, <1>4, <1>5, <1>7, <1>8, <1>9, QuietStep

(* The slot that a thread probes. *)
LEMMA Probing ==
    ASSUME IInv, NEW t \in Threads, NEW n \in Numbers
    PROVE  /\ SlotIn(t, n) \in Slots(n) /\ SlotIn(t, n) = index[t] % Cap(n)
           /\ Probed(t, n) \in Entry
           /\ Probed(t, n).key = KeyAt(n, index[t])
           /\ Probed(t, n).key # None => Probed(t, n).value \in Nat
<1>1. index[t] \in Nat /\ Cap(n) \in Nat /\ Cap(n) >= 1 /\ tables[n] \in [Slots(n) -> Entry]
  BY DEF IInv, TypeOK, LocalsOK, TablesOK
<1>2. SlotIn(t, n) = index[t] % Cap(n)
  BY DEF SlotIn, Cap
<1>3. SlotIn(t, n) \in Slots(n)
  BY <1>1, <1>2, Mod DEF Slots
<1>4. Probed(t, n) = tables[n][SlotIn(t, n)]
  BY DEF Probed
<1>5. Probed(t, n).key = KeyAt(n, index[t])
  BY <1>2, <1>4 DEF KeyAt
<1>6. Reached(n, SlotIn(t, n))
  BY <1>3 DEF IInv, Reach
<1> QED BY <1>1, <1>2, <1>3, <1>4, <1>5, <1>6 DEF Reached

LEMMA SearchFurtherStep ==
    ASSUME IInv, NEW t \in Threads, SearchFurther(t)
    PROVE  IInv'
<1>1. /\ TablesOK /\ LocalsOK /\ Local(t) /\ Locks
      /\ implicitProducerHashResizeInProgress \in BOOLEAN /\ implicitProducerHashCount \in Int
  BY DEF IInv, TypeOK, Locals
<1>2. /\ pc[t] = "search" /\ Probed(t, hash[t]).key \notin {t, None}
      /\ index' = [index EXCEPT ![t] = @ + 1]
      /\ UNCHANGED <<hashOf, tables, created, implicitProducerHashCount,
                     implicitProducerHashResizeInProgress, pc, mainHash, hash, newCount, value, got>>
  BY DEF SearchFurther, shared
<1>3. PICK h \in Numbers : h = hash[t]
  BY <1>1, <1>2 DEF Local, Numbers, TablesOK, LocalsOK
<1>4. LocalsOK'
  BY <1>1, <1>2 DEF LocalsOK
<1>5. \A u \in Threads \ {t} : Untouched(u)
  BY <1>1, <1>2 DEF LocalsOK, Untouched
<1>6. index'[t] = index[t] + 1 /\ index[t] \in Nat /\ hashOf[t] \in Nat
  BY <1>1, <1>2 DEF LocalsOK
<1>7. Local(t)'
  <2>1. /\ Numbers' = Numbers /\ \A n : In(n, t)' <=> In(n, t)
        /\ \A n, j : KeyAt(n, j)' = KeyAt(n, j)
    BY <1>2, SameTables
  <2>2. KeyAt(h, index[t]) \notin {t, None}
    BY <1>2, <1>3, Probing
  <2>3. /\ index[t] >= hashOf[t]
        /\ \A j \in hashOf[t]..(index[t] - 1) : KeyAt(h, j) \notin {t, None}
    BY <1>1, <1>2, <1>3 DEF Local
  <2>4. \A j \in hashOf[t]..index[t] : j = index[t] \/ j \in hashOf[t]..(index[t] - 1)
    BY <1>6, <2>3
  <2>5. \A j \in hashOf[t]..(index'[t] - 1) : KeyAt(h, j) \notin {t, None}
    BY <1>6, <2>2, <2>3, <2>4
  <2>6. \A j \in hashOf'[t]..(index'[t] - 1) : KeyAt(hash[t], j)' \notin {t, None}
    <3>1. \A j : KeyAt(hash[t], j)' = KeyAt(h, j)
      BY <1>2, <1>3 DEF KeyAt, Cap
    <3> QED BY <1>2, <2>5, <3>1
  <2>7. index'[t] >= hashOf'[t]
    BY <1>2, <1>6, <2>3
  <2> QED BY <1>1, <1>2, <2>1, <2>6, <2>7 DEF Local
<1>8. Locks'
  BY <1>1, <1>2 DEF Locks
<1>9. \A p \in Nat : value'[t] = p \/ got'[t] = p => Mine(t, p)
  BY <1>2 DEF Mine
<1> QED BY <1>1, <1>2, <1>4, <1>5, <1>7, <1>8, <1>9, QuietStep

(* A probe that ends at an empty slot has passed all the slots in which    *)
(* the thread could be.                                                    *)
LEMMA NotHere ==
    ASSUME IInv, NEW t \in Threads, NEW h \in Numbers,
           index[t] >= hashOf[t], KeyAt(h, index[t]) = None,
           \A j \in hashOf[t]..(index[t] - 1) : KeyAt(h, j) \notin {t, None}
    PROVE  ~In(h, t)
<1> SUFFICES ASSUME NEW s \in Slots(h), tables[h][s].key = t PROVE FALSE
  BY DEF In
<1>1. t # None /\ index[t] \in Nat /\ hashOf[t] \in Nat
  BY ProducerHashAssumption DEF IInv, TypeOK, LocalsOK
<1>2. PICK j \in Nat : /\ j >= hashOf[t] /\ j % Cap(h) = s
                       /\ \A l \in hashOf[t]..(j - 1) : KeyAt(h, l) # None
  BY <1>1 DEF IInv, Reach, Reached
<1>3. KeyAt(h, j) = t
  BY <1>2 DEF KeyAt
<1>4. CASE j < index[t]
  BY <1>1, <1>2, <1>3, <1>4
<1>5. CASE j = index[t]
  BY <1>1, <1>3, <1>5
<1>6. CASE j > index[t]
  BY <1>1, <1>2, <1>6
<1> QED BY <1>1, <1>2, <1>4, <1>5, <1>6

LEMMA SearchPreviousStep ==
    ASSUME IInv, NEW t \in Threads, SearchPrevious(t)
    PROVE  IInv'
<1>1. /\ TablesOK /\ LocalsOK /\ Local(t) /\ Locks
      /\ implicitProducerHashResizeInProgress \in BOOLEAN /\ implicitProducerHashCount \in Int
  BY DEF IInv, TypeOK, Locals
<1>2. /\ pc[t] = "search" /\ Probed(t, hash[t]).key = None
      /\ UNCHANGED <<hashOf, tables, created, implicitProducerHashCount,
                     implicitProducerHashResizeInProgress, mainHash, newCount, value, got>>
      /\ \/ /\ hash[t] = 1 /\ pc' = [pc EXCEPT ![t] = "count"] /\ UNCHANGED <<hash, index>>
         \/ /\ hash[t] # 1 /\ hash' = [hash EXCEPT ![t] = @ - 1]
            /\ index' = [index EXCEPT ![t] = hashOf[t]] /\ UNCHANGED pc
  BY DEF SearchPrevious, Goto, shared
<1>3. PICK h \in Numbers : h = hash[t]
  BY <1>1, <1>2 DEF Local, Numbers, TablesOK, LocalsOK
<1>4. h \in Nat /\ h >= 1 /\ mainHash[t] \in Numbers /\ mainHash[t] \in Nat /\ h <= mainHash[t]
      /\ Len(tables) \in Nat
  BY <1>1, <1>2, <1>3 DEF Local, Numbers, TablesOK, LocalsOK
<1>5. ~In(h, t)
  <2>1. KeyAt(h, index[t]) = None
    BY <1>2, <1>3, Probing
  <2>2. index[t] >= hashOf[t]
        /\ \A j \in hashOf[t]..(index[t] - 1) : KeyAt(h, j) \notin {t, None}
    BY <1>1, <1>2, <1>3 DEF Local
  <2> QED BY <2>1, <2>2, NotHere
<1>6. \A n \in Numbers : In(n, t) => n <= h - 1
  <2>1. \A n \in Numbers : In(n, t) => n <= h /\ n # h
    BY <1>1, <1>2, <1>3, <1>5 DEF Local
  <2> QED BY <1>4, <2>1 DEF Numbers
<1>7. LocalsOK'
  <2>1. h - 1 \in Nat /\ hashOf[t] \in Nat
    BY <1>1, <1>4 DEF LocalsOK
  <2>2. CASE hash[t] = 1
    BY <1>1, <1>2, <2>2 DEF LocalsOK, Labels
  <2>3. CASE hash[t] # 1
    BY <1>1, <1>2, <1>3, <2>1, <2>3 DEF LocalsOK
  <2> QED BY <2>2, <2>3
<1>8. \A u \in Threads \ {t} : Untouched(u)
  BY <1>1, <1>2 DEF LocalsOK, Untouched
<1>9. /\ Numbers' = Numbers /\ \A n : In(n, t)' <=> In(n, t)
      /\ value[t] = None /\ (got[t] # None => \E n \in Numbers : In(n, t))
  BY <1>1, <1>2, SameTables DEF Local
<1>10. Local(t)'
  <2>1. CASE hash[t] = 1
    <3>1. pc'[t] = "count"
      BY <1>1, <1>2, <2>1 DEF LocalsOK
    <3>2. \A n \in Numbers : ~In(n, t)
      BY <1>3, <1>4, <1>6, <2>1 DEF Numbers
    <3>3. got[t] = None
      BY <1>9, <3>2
    <3> QED BY <1>2, <1>4, <1>9, <3>1, <3>2, <3>3 DEF Local, Pending
  <2>2. CASE hash[t] # 1
    <3>1. /\ pc'[t] = "search" /\ hash'[t] = h - 1 /\ index'[t] = hashOf[t] /\ hashOf[t] \in Nat
      BY <1>1, <1>2, <1>3, <2>2 DEF LocalsOK
    <3>2. hash'[t] \in 1..mainHash[t]
      BY <1>3, <1>4, <2>2, <3>1
    <3>3. \A j \in hashOf[t]..(index'[t] - 1) : FALSE
      BY <3>1
    <3>4. \A n \in Numbers : In(n, t) => n <= hash'[t]
      BY <1>6, <3>1
    <3> QED BY <1>2, <1>4, <1>9, <3>1, <3>2, <3>3, <3>4 DEF Local, Pending
  <2> QED BY <2>1, <2>2
<1>11. Locks'
  <2>1. pc[t] \notin Locking /\ pc'[t] \notin Locking
    BY <1>1, <1>2 DEF Locking, LocalsOK
  <2> QED BY <1>1, <1>2, <1>8, <2>1, LocksStep DEF Untouched
<1>12. \A p \in Nat : value'[t] = p \/ got'[t] = p => Mine(t, p)
  BY <1>2 DEF Mine
<1> QED BY <1>1, <1>2, <1>7, <1>8, <1>10, <1>11, <1>12, QuietStep

(* What a thread finds in a table is its own. *)
LEMMA ProbedIsMine ==
    ASSUME IInv, NEW t \in Threads, NEW n \in Numbers, Probed(t, n).key = t
    PROVE  Probed(t, n).value \in Nat /\ Mine(t, Probed(t, n).value) /\ In(n, t)
<1>1. SlotIn(t, n) \in Slots(n) /\ Probed(t, n).value \in Nat
  BY Probing, ProducerHashAssumption
<1>2. Probed(t, n) = tables[n][SlotIn(t, n)]
  BY DEF Probed
<1> QED BY <1>1, <1>2 DEF Mine, In

LEMMA FoundStep ==
    ASSUME IInv, NEW t \in Threads, Found(t)
    PROVE  IInv'
<1>1. /\ TablesOK /\ LocalsOK /\ Local(t) /\ Locks
      /\ implicitProducerHashResizeInProgress \in BOOLEAN /\ implicitProducerHashCount \in Int
  BY DEF IInv, TypeOK, Locals
<1>2. /\ pc[t] = "search" /\ Probed(t, hash[t]).key = t
      /\ UNCHANGED <<hashOf, tables, created, implicitProducerHashCount,
                     implicitProducerHashResizeInProgress>>
  BY DEF Found, shared
<1>3. PICK h \in Numbers : h = hash[t]
  BY <1>1, <1>2 DEF Local, Numbers, TablesOK, LocalsOK
<1>4. PICK p \in Nat : p = Probed(t, h).value
  BY <1>2, <1>3, ProbedIsMine
<1>5. Mine(t, p) /\ In(h, t) /\ p # None
  BY <1>2, <1>3, <1>4, ProbedIsMine, ProducerHashAssumption
<1>6. h \in Nat /\ mainHash[t] \in Numbers /\ mainHash[t] \in Nat /\ h <= mainHash[t]
      /\ Len(tables) \in Nat /\ hashOf[t] \in Nat
  BY <1>1, <1>2, <1>3 DEF Local, Numbers, TablesOK, LocalsOK
<1>7. Numbers' = Numbers /\ \A n : In(n, t)' <=> In(n, t)
  BY <1>2, SameTables
<1>8. CASE h = mainHash[t]
  <2>1. Return(t, p)
    BY <1>2, <1>3, <1>4, <1>8 DEF Found
  <2>2. /\ pc' = [pc EXCEPT ![t] = "idle"]
        /\ got' = [got EXCEPT ![t] = p]
        /\ mainHash' = [mainHash EXCEPT ![t] = 0] /\ hash' = [hash EXCEPT ![t] = 0]
        /\ index' = [index EXCEPT ![t] = 0] /\ newCount' = [newCount EXCEPT ![t] = 0]
        /\ value' = [value EXCEPT ![t] = None]
    BY <1>5, <2>1 DEF Return, Goto
  <2>3. LocalsOK'
    BY <1>1, <1>2, <2>2 DEF LocalsOK, Labels
  <2>4. \A u \in Threads \ {t} : Untouched(u)
    BY <1>1, <2>2 DEF LocalsOK, Untouched
  <2>5. pc'[t] = "idle" /\ got'[t] = p /\ value'[t] = None
    BY <1>1, <2>2 DEF LocalsOK
  <2>6. Local(t)'
    BY <1>3, <1>5, <1>7, <2>5 DEF Local, Pending
  <2>7. Locks'
    <3>1. pc[t] \notin Locking /\ pc'[t] \notin Locking
      BY <1>2, <2>5 DEF Locking
    <3> QED BY <1>1, <1>2, <2>4, <3>1, LocksStep DEF Untouched
  <2>8. \A q \in Nat : value'[t] = q \/ got'[t] = q => Mine(t, q)
    BY <1>5, <2>5, ProducerHashAssumption
  <2> QED BY <1>1, <1>2, <2>3, <2>4, <2>6, <2>7, <2>8, QuietStep
<1>9. CASE h # mainHash[t]
  <2>2. /\ pc' = [pc EXCEPT ![t] = "insert"]
        /\ value' = [value EXCEPT ![t] = p]
        /\ index' = [index EXCEPT ![t] = hashOf[t]]
        /\ UNCHANGED <<mainHash, hash, newCount, got>>
    BY <1>2, <1>3, <1>4, <1>9 DEF Found, Goto
  <2>3. LocalsOK'
    BY <1>1, <1>2, <2>2 DEF LocalsOK, Labels
  <2>4. \A u \in Threads \ {t} : Untouched(u)
    BY <1>1, <2>2 DEF LocalsOK, Untouched
  <2>5. pc'[t] = "insert" /\ value'[t] = p /\ index'[t] = hashOf[t]
    BY <1>1, <2>2 DEF LocalsOK
  <2>6. Local(t)'
    <3>1. \A n \in Numbers : In(n, t) => n < mainHash[t]
      <4>1. \A n \in Numbers : In(n, t) => n <= h
        BY <1>1, <1>2, <1>3 DEF Local
      <4> QED BY <1>6, <1>9, <4>1 DEF Numbers
    <3>2. \A j \in hashOf[t]..(index'[t] - 1) : FALSE
      BY <1>6, <2>5
    <3>3. got[t] # None => \E n \in Numbers : In(n, t)
      BY <1>1 DEF Local
    <3> QED BY <1>2, <1>5, <1>6, <1>7, <2>2, <2>5, <3>1, <3>2, <3>3 DEF Local, Pending
  <2>7. Locks'
    <3>1. pc[t] \notin Locking /\ pc'[t] \notin Locking
      BY <1>2, <2>5 DEF Locking
    <3> QED BY <1>1, <1>2, <2>4, <3>1, LocksStep DEF Untouched
  <2>8. \A q \in Nat : value'[t] = q \/ got'[t] = q => Mine(t, q)
    BY <1>5, <2>2, <2>5 DEF Mine
  <2> QED BY <1>1, <1>2, <2>3, <2>4, <2>6, <2>7, <2>8, QuietStep
<1> QED BY <1>8, <1>9

-------------------------------------------------------------------------------
(* A thread that is in no table goes on without entering one. *)
LEMMA OutsideStep ==
    ASSUME IInv, NEW t \in Threads, pc[t] \in Pending \union {"count"},
           UNCHANGED <<hashOf, tables, created, hash, index, value, got>>,
           NEW l \in Pending \union {"failed"}, pc' = [pc EXCEPT ![t] = l],
           UNCHANGED mainHash \/ mainHash' = [mainHash EXCEPT ![t] = Len(tables)],
           l = "allocate" => mainHash'[t] = Len(tables),
           NEW n \in Int, newCount' = [newCount EXCEPT ![t] = n],
           implicitProducerHashResizeInProgress' \in BOOLEAN,
           implicitProducerHashCount' \in Int, Locks'
    PROVE  IInv'
<1>1. TablesOK /\ LocalsOK /\ Local(t)
  BY DEF IInv, TypeOK, Locals
<1>2. Len(tables) \in Nat /\ Len(tables) \in Numbers
  BY <1>1 DEF TablesOK, Numbers
<1>3. l \in Labels /\ pc[t] \notin {"idle", "insert", "search"}
  BY DEF Labels, Pending, Locking
<1>4. LocalsOK'
  <2>1. mainHash' \in [Threads -> Nat] /\ newCount' \in [Threads -> Int]
    BY <1>1, <1>2 DEF LocalsOK
  <2>2. pc' \in [Threads -> Labels]
    BY <1>1, <1>3 DEF LocalsOK
  <2> QED BY <1>1, <2>1, <2>2 DEF LocalsOK
<1>5. \A u \in Threads \ {t} : Untouched(u)
  BY <1>1 DEF LocalsOK, Untouched
<1>6. Numbers' = Numbers /\ \A n_ : In(n_, t)' <=> In(n_, t)
  BY SameTables
<1>7. Local(t)'
  <2>1. pc'[t] = l /\ mainHash'[t] \in Numbers
    BY <1>1, <1>2, <1>3 DEF LocalsOK, Local
  <2>2. value[t] = None /\ (got[t] # None => \E n_ \in Numbers : In(n_, t))
        /\ \A n_ \in Numbers : ~In(n_, t)
    BY <1>1, <1>3 DEF Local
  <2>3. l \notin {"idle", "insert", "search"}
    BY DEF Pending
  <2>4. l = "allocate" => mainHash'[t] = Len(tables')
    OBVIOUS
  <2> QED BY <1>6, <2>1, <2>2, <2>3, <2>4 DEF Local
<1>8. \A p \in Nat : value'[t] = p \/ got'[t] = p => Mine(t, p)
  BY DEF Mine
<1> QED BY <1>4, <1>5, <1>7, <1>8, QuietStep

LEMMA CountInStep ==
    ASSUME IInv, NEW t \in Threads, CountIn(t)
    PROVE  IInv'
<1>1. LocalsOK /\ Locks /\ implicitProducerHashCount \in Int
      /\ implicitProducerHashResizeInProgress \in BOOLEAN
  BY DEF IInv, TypeOK
<1>2. PICK n \in Int : n = implicitProducerHashCount + 1
  BY <1>1
<1>3. /\ pc[t] = "count" /\ pc' = [pc EXCEPT ![t] = "try"]
      /\ implicitProducerHashCount' = n /\ newCount' = [newCount EXCEPT ![t] = n]
      /\ UNCHANGED <<hashOf, tables, created, hash, index, value, got, mainHash,
                     implicitProducerHashResizeInProgress>>
  BY <1>2 DEF CountIn, Goto
<1>4. /\ pc'[t] = "try" /\ \A u \in Threads \ {t} : pc'[u] = pc[u]
      /\ pc[t] \notin Locking /\ pc'[t] \notin Locking
  BY <1>1, <1>3 DEF LocalsOK, Locking
<1>5. Locks'
  BY <1>1, <1>3, <1>4, LocksStep
<1>6. "try" \in Pending \union {"failed"} /\ pc[t] \in Pending \union {"count"}
  BY <1>3 DEF Pending
<1> QED BY <1>1, <1>3, <1>5, <1>6, OutsideStep

LEMMA TryLockStep ==
    ASSUME IInv, NEW t \in Threads, TryLock(t)
    PROVE  IInv'
<1>1. LocalsOK /\ Locks /\ implicitProducerHashCount \in Int
      /\ implicitProducerHashResizeInProgress \in BOOLEAN
  BY DEF IInv, TypeOK
<1>2. PICK n \in Int : n = newCount[t] /\ newCount' = [newCount EXCEPT ![t] = n]
  BY <1>1 DEF TryLock, LocalsOK
<1>3. PICK l \in {"locked", "fits"} :
         /\ pc[t] = "try" /\ pc' = [pc EXCEPT ![t] = l]
         /\ l = "locked" => /\ ~implicitProducerHashResizeInProgress
                            /\ implicitProducerHashResizeInProgress' = TRUE
         /\ l = "fits" => UNCHANGED implicitProducerHashResizeInProgress
         /\ UNCHANGED <<hashOf, tables, created, hash, index, value, got, mainHash,
                        implicitProducerHashCount>>
  BY DEF TryLock, Goto
<1>4. pc'[t] = l /\ \A u \in Threads \ {t} : pc'[u] = pc[u]
  BY <1>1, <1>3 DEF LocalsOK
<1>5. Locks'
  BY <1>1, <1>3, <1>4, LocksStep DEF Locking
<1>6. l \in Pending \union {"failed"} /\ pc[t] \in Pending \union {"count"} /\ l # "allocate"
  BY <1>3 DEF Pending
<1>7. implicitProducerHashResizeInProgress' \in BOOLEAN /\ implicitProducerHashCount' \in Int
  BY <1>1, <1>3
<1> QED BY <1>2, <1>3, <1>5, <1>6, <1>7, OutsideStep

LEMMA LockedStep ==
    ASSUME IInv, NEW t \in Threads, Locked(t)
    PROVE  IInv'
<1>1. LocalsOK /\ Locks /\ implicitProducerHashCount \in Int
      /\ implicitProducerHashResizeInProgress \in BOOLEAN
  BY DEF IInv, TypeOK
<1>2. PICK n \in Int : n = newCount[t] /\ newCount' = [newCount EXCEPT ![t] = n]
  BY <1>1 DEF Locked, LocalsOK
<1>3. PICK l \in {"allocate", "unlock"} :
         /\ pc[t] = "locked" /\ pc' = [pc EXCEPT ![t] = l]
         /\ mainHash' = [mainHash EXCEPT ![t] = Len(tables)]
         /\ UNCHANGED <<hashOf, tables, created, hash, index, value, got,
                        implicitProducerHashCount, implicitProducerHashResizeInProgress>>
  BY DEF Locked, Goto, shared
<1>4. /\ pc'[t] = l /\ \A u \in Threads \ {t} : pc'[u] = pc[u]
      /\ mainHash'[t] = Len(tables)
  BY <1>1, <1>3 DEF LocalsOK
<1>5. Locks'
  BY <1>1, <1>3, <1>4, LocksStep DEF Locking
<1>6. l \in Pending \union {"failed"} /\ pc[t] \in Pending \union {"count"}
  BY <1>3 DEF Pending
<1> QED BY <1>1, <1>2, <1>3, <1>4, <1>5, <1>6, OutsideStep

LEMMA UnlockStep ==
    ASSUME IInv, NEW t \in Threads, Unlock(t)
    PROVE  IInv'
<1>1. LocalsOK /\ Locks /\ implicitProducerHashCount \in Int
      /\ implicitProducerHashResizeInProgress \in BOOLEAN
  BY DEF IInv, TypeOK
<1>2. PICK n \in Int : n = newCount[t] /\ newCount' = [newCount EXCEPT ![t] = n]
  BY <1>1 DEF Unlock, LocalsOK
<1>3. /\ pc[t] = "unlock" /\ pc' = [pc EXCEPT ![t] = "fits"]
      /\ implicitProducerHashResizeInProgress' = FALSE
      /\ UNCHANGED <<hashOf, tables, created, hash, index, value, got, mainHash,
                     implicitProducerHashCount>>
  BY DEF Unlock, Goto
<1>4. pc'[t] = "fits" /\ \A u \in Threads \ {t} : pc'[u] = pc[u]
  BY <1>1, <1>3 DEF LocalsOK
<1>5. Locks'
  BY <1>1, <1>3, <1>4, LocksStep DEF Locking
<1>6. "fits" \in Pending \union {"failed"} /\ pc[t] \in Pending \union {"count"}
  BY <1>3 DEF Pending
<1> QED BY <1>1, <1>2, <1>3, <1>5, <1>6, OutsideStep

LEMMA AllocationFailsStep ==
    ASSUME IInv, NEW t \in Threads, AllocationFails(t)
    PROVE  IInv'
<1>1. LocalsOK /\ Locks /\ implicitProducerHashCount \in Int
      /\ implicitProducerHashResizeInProgress \in BOOLEAN
  BY DEF IInv, TypeOK
<1>2. PICK n \in Int : n = newCount[t] /\ newCount' = [newCount EXCEPT ![t] = n]
  BY <1>1 DEF AllocationFails, LocalsOK
<1>3. /\ pc[t] = "allocate" /\ pc' = [pc EXCEPT ![t] = "failed"]
      /\ implicitProducerHashCount' = implicitProducerHashCount - 1
      /\ UNCHANGED <<hashOf, tables, created, hash, index, value, got, mainHash,
                     implicitProducerHashResizeInProgress>>
  BY DEF AllocationFails, Goto
<1>4. pc'[t] = "failed" /\ \A u \in Threads \ {t} : pc'[u] = pc[u]
  BY <1>1, <1>3 DEF LocalsOK
<1>5. Locks'
  BY <1>1, <1>3, <1>4, LocksStep DEF Locking
<1>6. "failed" \in Pending \union {"failed"} /\ pc[t] \in Pending \union {"count"}
  BY <1>3 DEF Pending
<1>7. implicitProducerHashCount' \in Int
  BY <1>1, <1>3
<1> QED BY <1>1, <1>2, <1>3, <1>5, <1>6, <1>7, OutsideStep

LEMMA WaitStep ==
    ASSUME IInv, NEW t \in Threads, Wait(t)
    PROVE  IInv'
<1>1. LocalsOK /\ Locks /\ implicitProducerHashCount \in Int
      /\ implicitProducerHashResizeInProgress \in BOOLEAN
  BY DEF IInv, TypeOK
<1>2. PICK n \in Int : n = newCount[t] /\ newCount' = [newCount EXCEPT ![t] = n]
  BY <1>1 DEF Wait, LocalsOK
<1>3. /\ pc[t] = "fits" /\ pc' = [pc EXCEPT ![t] = "try"]
      /\ mainHash' = [mainHash EXCEPT ![t] = Len(tables)]
      /\ UNCHANGED <<hashOf, tables, created, hash, index, value, got,
                     implicitProducerHashCount, implicitProducerHashResizeInProgress>>
  BY DEF Wait, Goto, shared
<1>4. pc'[t] = "try" /\ \A u \in Threads \ {t} : pc'[u] = pc[u]
  BY <1>1, <1>3 DEF LocalsOK
<1>5. Locks'
  BY <1>1, <1>3, <1>4, LocksStep DEF Locking
<1>6. "try" \in Pending \union {"failed"} /\ pc[t] \in Pending \union {"count"}
  BY <1>3 DEF Pending
<1> QED BY <1>1, <1>2, <1>3, <1>5, <1>6, OutsideStep

(* A call that fails leaves the tables and the thread's producer alone. *)
LEMMA ReturnNoneStep ==
    ASSUME IInv, NEW t \in Threads, Return(t, None), UNCHANGED <<hashOf, tables, created>>,
           implicitProducerHashResizeInProgress' \in BOOLEAN,
           implicitProducerHashCount' \in Int,
           pc[t] \in Locking \/ UNCHANGED implicitProducerHashResizeInProgress
    PROVE  IInv'
<1>1. TablesOK /\ LocalsOK /\ Local(t) /\ Locks
  BY DEF IInv, TypeOK, Locals
<1>2. /\ pc' = [pc EXCEPT ![t] = "idle"] /\ got' = [got EXCEPT ![t] = @]
      /\ mainHash' = [mainHash EXCEPT ![t] = 0] /\ hash' = [hash EXCEPT ![t] = 0]
      /\ index' = [index EXCEPT ![t] = 0] /\ newCount' = [newCount EXCEPT ![t] = 0]
      /\ value' = [value EXCEPT ![t] = None]
  BY DEF Return, Goto
<1>3. got' = got
  BY <1>1, <1>2 DEF LocalsOK
<1>4. LocalsOK'
  BY <1>1, <1>2, <1>3 DEF LocalsOK, Labels
<1>5. \A u \in Threads \ {t} : Untouched(u)
  BY <1>1, <1>2, <1>3 DEF LocalsOK, Untouched
<1>6. pc'[t] = "idle" /\ value'[t] = None
  BY <1>1, <1>2 DEF LocalsOK
<1>7. Local(t)'
  <2>1. Numbers' = Numbers /\ \A n : In(n, t)' <=> In(n, t)
    BY SameTables
  <2>2. got[t] # None => \E n \in Numbers : In(n, t)
    BY <1>1 DEF Local
  <2> QED BY <1>3, <1>6, <2>1, <2>2 DEF Local, Pending
<1>8. Locks'
  <2>1. pc'[t] \notin Locking /\ \A u \in Threads \ {t} : pc'[u] = pc[u]
    BY <1>5, <1>6 DEF Locking, Untouched
  <2> QED BY <1>1, <2>1, LocksStep
<1>9. \A p \in Nat : value'[t] = p \/ got'[t] = p => Mine(t, p)
  BY <1>3, <1>6, ProducerHashAssumption DEF Mine
<1> QED BY <1>4, <1>5, <1>7, <1>8, <1>9, QuietStep

LEMMA GiveUpStep ==
    ASSUME IInv, NEW t \in Threads, GiveUp(t)
    PROVE  IInv'
<1>1. implicitProducerHashCount \in Int
  BY DEF IInv, TypeOK
<1>2. /\ pc[t] \in Locking /\ Return(t, None)
      /\ implicitProducerHashResizeInProgress' \in BOOLEAN
      /\ UNCHANGED <<hashOf, tables, created, implicitProducerHashCount>>
  BY DEF GiveUp, Locking
<1> QED BY <1>1, <1>2, ReturnNoneStep

LEMMA CreateFailsStep ==
    ASSUME IInv, NEW t \in Threads, CreateFails(t)
    PROVE  IInv'
<1>1. implicitProducerHashCount \in Int /\ implicitProducerHashResizeInProgress \in BOOLEAN
  BY DEF IInv, TypeOK
<1>2. /\ Return(t, None) /\ implicitProducerHashCount' = implicitProducerHashCount - 1
      /\ UNCHANGED <<hashOf, tables, created, implicitProducerHashResizeInProgress>>
  BY DEF CreateFails
<1>3. implicitProducerHashCount' \in Int /\ implicitProducerHashResizeInProgress' \in BOOLEAN
  BY <1>1, <1>2
<1> QED BY <1>2, <1>3, ReturnNoneStep

(* The producer of a thread that had none is a new one. *)
LEMMA CreateStep ==
    ASSUME IInv, NEW t \in Threads, Create(t)
    PROVE  IInv'
<1>1. /\ TablesOK /\ LocalsOK /\ Local(t) /\ Locks /\ Identity /\ created \in Nat
      /\ implicitProducerHashResizeInProgress \in BOOLEAN /\ implicitProducerHashCount \in Int
  BY DEF IInv, TypeOK, Locals
<1>2. PICK c \in Nat : c = created + 1
  BY <1>1
<1>3. /\ pc[t] = "fits" /\ pc' = [pc EXCEPT ![t] = "insert"]
      /\ created' = c /\ value' = [value EXCEPT ![t] = c]
      /\ index' = [index EXCEPT ![t] = hashOf[t]]
      /\ UNCHANGED <<hashOf, tables, implicitProducerHashCount, mainHash, hash, newCount, got,
                     implicitProducerHashResizeInProgress>>
  BY <1>2 DEF Create, Goto
<1>4. LocalsOK'
  BY <1>1, <1>3 DEF LocalsOK, Labels
<1>5. \A u \in Threads \ {t} : Untouched(u)
  BY <1>1, <1>3 DEF LocalsOK, Untouched
<1>6. /\ pc'[t] = "insert" /\ value'[t] = c /\ index'[t] = hashOf[t] /\ hashOf[t] \in Nat
      /\ c # None
  BY <1>1, <1>3, ProducerHashAssumption DEF LocalsOK
<1>7. Numbers' = Numbers /\ (\A n : Slots(n)' = Slots(n)) /\ \A n : In(n, t)' <=> In(n, t)
  BY <1>3, SameTables
<1>8. /\ \A n \in Numbers : ~In(n, t)
      /\ value[t] = None /\ got[t] = None /\ mainHash[t] \in Numbers
  BY <1>1, <1>3 DEF Local, Pending
<1>9. Local(t)'
  <2>1. \A j \in hashOf[t]..(index'[t] - 1) : FALSE
    BY <1>6
  <2> QED BY <1>3, <1>6, <1>7, <1>8, <2>1 DEF Local, Pending
<1>10. Locks'
  <2>1. pc[t] \notin Locking /\ pc'[t] \notin Locking
    BY <1>3, <1>6 DEF Locking
  <2> QED BY <1>1, <1>3, <1>5, <2>1, LocksStep DEF Untouched
<1>11. TablesOK' /\ Reach' /\ Once' /\ Locals'
  BY <1>3, <1>4, <1>5, <1>9, ThreadStep
<1>12. Identity'
  <2>1. \A p \in Nat : Mine(t, p)' <=> p = c
    BY <1>3, <1>6, <1>7, <1>8, ProducerHashAssumption DEF Mine, In
  <2>2. \A u \in Threads \ {t}, p \in Nat : Mine(u, p)' => Mine(u, p)
    BY <1>3, <1>5, <1>7 DEF Mine, Untouched
  <2>3. \A u \in Threads \ {t}, p \in Nat : Mine(u, p)' => p # c /\ p <= created'
    BY <1>1, <1>2, <1>3, <2>2 DEF Identity
  <2>4. \A u, w \in Threads, p, q \in Nat : Mine(u, p)' /\ Mine(w, q)' => (u = w <=> p = q)
    BY <1>1, <1>2, <2>1, <2>2, <2>3 DEF Identity
  <2>5. \A u \in Threads, p \in Nat : Mine(u, p)' => p <= created'
    BY <1>2, <1>3, <2>1, <2>3
  <2> QED BY <2>4, <2>5 DEF Identity
<1> QED BY <1>1, <1>3, <1>4, <1>10, <1>11, <1>12 DEF IInv, TypeOK

-------------------------------------------------------------------------------
(* The new table is larger than the others and empty. *)
LEMMA InstallStep ==
    ASSUME IInv, NEW t \in Threads, Install(t)
    PROVE  IInv'
<1>1. /\ TablesOK /\ LocalsOK /\ Local(t) /\ Locks /\ Identity /\ Reach /\ Once /\ Locals
      /\ created \in Nat
      /\ implicitProducerHashResizeInProgress \in BOOLEAN /\ implicitProducerHashCount \in Int
  BY DEF IInv, TypeOK, Locals
<1>2. PICK last \in Nat : last = Len(tables) + 1
  BY <1>1 DEF TablesOK
<1>3. /\ pc[t] = "allocate" /\ pc' = [pc EXCEPT ![t] = "unlock"]
      /\ mainHash' = [mainHash EXCEPT ![t] = last]
      /\ UNCHANGED <<hashOf, implicitProducerHashCount, implicitProducerHashResizeInProgress,
                     created, hash, index, newCount, value, got>>
  BY <1>2 DEF Install, Goto
<1>4. mainHash[t] = Len(tables) /\ Len(tables) \in Numbers /\ Len(tables) \in Nat
  BY <1>1, <1>3 DEF Local, TablesOK, Numbers
<1>5. PICK c \in Nat : c >= 2 /\ c >= Cap(Len(tables)) /\ tables' = Append(tables, Table(c))
  <2>1. PICK c \in NewCapacities(t) : tables' = Append(tables, Table(c))
    BY DEF Install
  <2>2. PICK old \in Nat : old = Cap(Len(tables)) /\ old >= 2
    BY <1>1, <1>4 DEF TablesOK
  <2>3. c \in (2 * old)..(4 * newCount[t] + 2)
    BY <1>4, <2>1, <2>2 DEF NewCapacities, Cap
  <2>4. newCount[t] \in Int
    BY <1>1 DEF LocalsOK
  <2>5. c \in Nat /\ c >= 2 /\ c >= old
    BY <2>2, <2>3, <2>4
  <2> QED BY <2>1, <2>2, <2>5
<1>6. /\ Len(tables') = last /\ TablesOK'
      /\ \A n \in Numbers : tables'[n] = tables[n] /\ Cap(n)' = Cap(n)
      /\ \A u \in Threads : ~In(last, u)'
      /\ \A s \in Slots(last)' : tables'[last][s].key = None
  BY <1>1, <1>2, <1>5, Installed
<1>7. Numbers' = Numbers \union {last} /\ last \notin Numbers
  BY <1>2, <1>4, <1>6 DEF Numbers
<1>8. \A n \in Numbers : Slots(n)' = Slots(n)
  BY <1>6 DEF Slots
<1>9. \A n \in Numbers, j \in Nat : KeyAt(n, j)' = KeyAt(n, j)
  BY <1>6 DEF KeyAt
<1>10. \A n \in Numbers, u \in Threads : In(n, u)' <=> In(n, u)
  BY <1>6, <1>8 DEF In
<1>11. LocalsOK'
  BY <1>1, <1>3 DEF LocalsOK, Labels, Pending
<1>12. \A u \in Threads \ {t} : Untouched(u)
  BY <1>1, <1>3 DEF LocalsOK, Untouched
<1>13. Reach'
  <2>1. ASSUME NEW n \in Numbers, NEW s \in Slots(n)
        PROVE  Reached(n, s)'
    <3>1. Reached(n, s) /\ tables'[n] = tables[n] /\ Cap(n)' = Cap(n)
      BY <1>1, <1>6 DEF Reach
    <3>2. CASE tables[n][s].key = None
      BY <3>1, <3>2 DEF Reached
    <3>3. CASE tables[n][s].key # None
      <4>1. tables[n][s].key \in Threads
        BY <1>1, <3>3 DEF TablesOK, Entry
      <4>2. PICK h \in Nat : h = hashOf[tables[n][s].key]
        BY <1>1, <4>1 DEF LocalsOK
      <4>3. PICK j \in Nat : /\ j >= h /\ j % Cap(n) = s
                             /\ \A l \in h..(j - 1) : KeyAt(n, l) # None
        BY <3>1, <3>3, <4>2 DEF Reached
      <4>4. \A l \in h..(j - 1) : KeyAt(n, l)' # None
        BY <1>9, <4>2, <4>3
      <4>5. j % Cap(n)' = s
        BY <3>1, <4>3
      <4>6. hashOf'[tables'[n][s].key] = h
        BY <1>3, <3>1, <4>2
      <4> QED BY <3>1, <4>3, <4>4, <4>5, <4>6 DEF Reached
    <3> QED BY <3>2, <3>3
  <2>2. \A s \in Slots(last)' : Reached(last, s)'
    BY <1>6 DEF Reached
  <2> QED BY <1>7, <1>8, <2>1, <2>2 DEF Reach
<1>14. Once'
  BY <1>1, <1>6, <1>7, <1>8 DEF Once
<1>15. Locals'
  <2>1. ASSUME NEW u \in Threads \ {t}
        PROVE  Local(u)'
    <3>1. pc[u] # "allocate"
      BY <1>1, <1>3, <2>1 DEF Locks, Locking
    <3>2. Untouched(u) /\ Local(u)
      BY <1>1, <1>12, <2>1 DEF Locals
    <3>3. \A n \in Numbers' \ Numbers : ~In(n, u)'
      BY <1>6, <1>7
    <3> QED BY <1>1, <1>3, <1>7, <1>9, <1>10, <3>1, <3>2, <3>3, LocalStays
  <2>2. Local(t)'
    <3>1. pc'[t] = "unlock" /\ mainHash'[t] = last /\ UNCHANGED <<value[t], got[t]>>
      BY <1>1, <1>3 DEF LocalsOK
    <3>2. \A n \in Numbers : ~In(n, t)
      BY <1>1, <1>3 DEF Local, Pending
    <3>3. value[t] = None /\ got[t] = None
      BY <1>1, <1>3, <3>2 DEF Local
    <3>4. \A n \in Numbers' : ~In(n, t)'
      BY <1>6, <1>7, <1>10, <3>2
    <3> QED BY <1>7, <3>1, <3>3, <3>4 DEF Local, Pending
  <2> QED BY <2>1, <2>2 DEF Locals
<1>16. Locks'
  <2>1. pc[t] \in Locking /\ pc'[t] \in Locking
    BY <1>1, <1>3 DEF Locking, LocalsOK
  <2> QED BY <1>1, <1>3, <1>12, <2>1, LocksStep DEF Untouched
<1>17. Identity'
  <2>1. ASSUME NEW u \in Threads, NEW p \in Nat, Mine(u, p)'
        PROVE  Mine(u, p)
    BY <1>3, <1>6, <1>7, <1>8, <2>1, ProducerHashAssumption DEF Mine
  <2> QED BY <1>1, <1>3, <2>1, IdentityStays
<1> QED BY <1>1, <1>3, <1>6, <1>11, <1>13, <1>14, <1>15, <1>16, <1>17 DEF IInv, TypeOK

(* A thread enters a table at the first slot it finds empty: those who      *)
(* have passed slots go on passing them. *)
LEMMA EnterStep ==
    ASSUME IInv, NEW t \in Threads, NEW m \in Numbers, m = mainHash[t], pc[t] = "insert",
           NEW s \in Slots(m), s = SlotIn(t, m), tables[m][s].key = None,
           NEW p \in Nat, p = value[t], Return(t, p),
           tables' = [tables EXCEPT ![m][s] = [key |-> t, value |-> p]],
           UNCHANGED <<hashOf, implicitProducerHashCount, implicitProducerHashResizeInProgress,
                       created>>
    PROVE  IInv'
<1>1. /\ TablesOK /\ LocalsOK /\ Local(t) /\ Locks /\ Identity /\ Reach /\ Once /\ Locals
      /\ created \in Nat
      /\ implicitProducerHashResizeInProgress \in BOOLEAN /\ implicitProducerHashCount \in Int
  BY DEF IInv, TypeOK, Locals
<1>2. p # None /\ t # None /\ [key |-> t, value |-> p] \in Entry
  BY ProducerHashAssumption DEF Entry
<1>3. /\ pc' = [pc EXCEPT ![t] = "idle"]
      /\ got' = [got EXCEPT ![t] = p]
      /\ mainHash' = [mainHash EXCEPT ![t] = 0] /\ hash' = [hash EXCEPT ![t] = 0]
      /\ index' = [index EXCEPT ![t] = 0] /\ newCount' = [newCount EXCEPT ![t] = 0]
      /\ value' = [value EXCEPT ![t] = None]
  BY <1>2 DEF Return, Goto
<1>4. /\ Len(tables') = Len(tables) /\ TablesOK'
      /\ \A n \in Numbers : Cap(n)' = Cap(n)
      /\ \A n \in Numbers : \A r \in Slots(n) :
            tables'[n][r] = IF n = m /\ r = s THEN [key |-> t, value |-> p] ELSE tables[n][r]
  <2>1. PICK e \in Entry : e = [key |-> t, value |-> p]
    BY <1>2
  <2>2. Fills(m, s, e)
    BY <2>1 DEF Fills
  <2>3. /\ Len(tables') = Len(tables) /\ TablesOK'
        /\ \A n \in Numbers : Cap(n)' = Cap(n)
        /\ \A n \in Numbers : \A r \in Slots(n) :
              tables'[n][r] = IF n = m /\ r = s THEN e ELSE tables[n][r]
    BY <1>1, <2>2, Filled
  <2> QED BY <2>1, <2>3
<1>5. Numbers' = Numbers /\ \A n \in Numbers : Slots(n)' = Slots(n)
  BY <1>4 DEF Numbers, Slots
<1>6. /\ tables'[m][s].key = t /\ tables'[m][s].value = p
      /\ \A n \in Numbers : \A r \in Slots(n) :
            ~(n = m /\ r = s) => tables'[n][r] = tables[n][r]
  BY <1>4
<1>7. \A n \in Numbers, j \in Nat :
         j % Cap(n) \in Slots(n) /\ Cap(n)' = Cap(n)
  BY <1>1, <1>4, Mod DEF TablesOK, Slots
<1>8. \A n \in Numbers, j \in Nat :
         KeyAt(n, j)' = IF n = m /\ j % Cap(n) = s THEN t ELSE KeyAt(n, j)
  BY <1>6, <1>7 DEF KeyAt
<1>9. \A n \in Numbers, j \in Nat : KeyAt(n, j) # None => KeyAt(n, j)' = KeyAt(n, j)
  BY <1>8 DEF KeyAt
<1>10. ~In(m, t) /\ \A n \in Numbers : In(n, t) => n < m
  BY <1>1 DEF Local, TablesOK, Numbers
<1>11. In(m, t)'
  BY <1>5, <1>6 DEF In
<1>12. \A n \in Numbers, u \in Threads : u # t => (In(n, u)' <=> In(n, u))
  BY <1>2, <1>5, <1>6, ProducerHashAssumption DEF In
<1>13. LocalsOK'
  BY <1>1, <1>3 DEF LocalsOK, Labels
<1>14. \A u \in Threads \ {t} : Untouched(u)
  BY <1>1, <1>3 DEF LocalsOK, Untouched
<1>15. Reach'
  <2>1. ASSUME NEW n \in Numbers, NEW r \in Slots(n), ~(n = m /\ r = s)
        PROVE  Reached(n, r)'
    <3>1. Reached(n, r) /\ tables'[n][r] = tables[n][r] /\ Cap(n)' = Cap(n)
      BY <1>1, <1>4, <1>6, <2>1 DEF Reach
    <3>2. CASE tables[n][r].key = None
      BY <3>1, <3>2 DEF Reached
    <3>3. CASE tables[n][r].key # None
      <4>1. tables[n][r].key \in Threads
        BY <1>1, <3>3 DEF TablesOK, Entry
      <4>2. PICK h \in Nat : h = hashOf[tables[n][r].key]
        BY <1>1, <4>1 DEF LocalsOK
      <4>3. PICK j \in Nat : /\ j >= h /\ j % Cap(n) = r
                             /\ \A l \in h..(j - 1) : KeyAt(n, l) # None
        BY <3>1, <3>3, <4>2 DEF Reached
      <4>4. \A l \in h..(j - 1) : KeyAt(n, l)' # None
        BY <1>9, <4>2, <4>3
      <4>5. j % Cap(n)' = r
        BY <3>1, <4>3
      <4>6. hashOf'[tables'[n][r].key] = h
        BY <3>1, <4>2
      <4> QED BY <3>1, <4>3, <4>4, <4>5, <4>6 DEF Reached
    <3> QED BY <3>2, <3>3
  <2>2. Reached(m, s)'
    <3>1. PICK j \in Nat : j = index[t]
      BY <1>1 DEF LocalsOK
    <3>2. PICK h \in Nat : h = hashOf[t]
      BY <1>1 DEF LocalsOK
    <3>3. j >= h /\ \A l \in h..(j - 1) : KeyAt(m, l) # None
      BY <1>1, <3>1, <3>2 DEF Local
    <3>4. \A l \in h..(j - 1) : KeyAt(m, l)' # None
      BY <1>9, <3>1, <3>2, <3>3
    <3>5. j % Cap(m)' = s
      BY <1>4, <3>1, Probing
    <3> QED BY <1>6, <3>2, <3>3, <3>4, <3>5 DEF Reached
  <2>3. \A n \in Numbers : \A r \in Slots(n) : Reached(n, r)'
    BY <2>1, <2>2
  <2> QED BY <1>5, <2>3 DEF Reach
<1>16. Once'
  <2>1. \A n \in Numbers : \A r \in Slots(n) : n = m => tables[n][r].key # t
    BY <1>10 DEF In
  <2> QED BY <1>1, <1>5, <1>6, <2>1 DEF Once
<1>17. Locals'
  <2>1. ASSUME NEW u \in Threads \ {t}
        PROVE  Local(u)'
    <3>1. Untouched(u) /\ Local(u)
      BY <1>1, <1>14, <2>1 DEF Locals
    <3>2. \A n \in Numbers' \ Numbers : ~In(n, u)'
      BY <1>5
    <3>3. \A n \in Numbers : In(n, u)' <=> In(n, u)
      BY <1>12, <2>1
    <3> QED BY <1>1, <1>4, <1>5, <1>9, <3>1, <3>2, <3>3, LocalStays
  <2>2. Local(t)'
    <3>1. pc'[t] = "idle" /\ value'[t] = None
      BY <1>1, <1>3 DEF LocalsOK
    <3> QED BY <1>5, <1>11, <3>1 DEF Local, Pending
  <2> QED BY <2>1, <2>2 DEF Locals
<1>18. Locks'
  <2>1. pc[t] \notin Locking /\ pc'[t] \notin Locking
    BY <1>1, <1>3 DEF Locking, LocalsOK
  <2> QED BY <1>1, <1>14, <2>1, LocksStep DEF Untouched
<1>19. Identity'
  <2>1. Mine(t, p)
    BY DEF Mine
  <2>2. ASSUME NEW u \in Threads, NEW q \in Nat, Mine(u, q)'
        PROVE  Mine(u, q)
    <3>1. CASE u = t
      <4>1. value'[t] = None /\ got'[t] = p
        BY <1>1, <1>3 DEF LocalsOK
      <4>2. CASE q = p
        BY <2>1, <3>1, <4>2
      <4>3. CASE q # p
        BY <1>5, <1>6, <2>2, <3>1, <4>1, <4>3, ProducerHashAssumption DEF Mine
      <4> QED BY <4>2, <4>3
    <3>2. CASE u # t
      BY <1>5, <1>6, <1>14, <2>2, <3>2 DEF Mine, Untouched
    <3> QED BY <3>1, <3>2
  <2> QED BY <1>1, <2>2, IdentityStays
<1> QED BY <1>1, <1>4, <1>13, <1>15, <1>16, <1>17, <1>18, <1>19 DEF IInv, TypeOK

LEMMA InsertStep ==
    ASSUME IInv, NEW t \in Threads, Insert(t)
    PROVE  IInv'
<1>1. /\ TablesOK /\ LocalsOK /\ Local(t) /\ Locks
      /\ implicitProducerHashResizeInProgress \in BOOLEAN /\ implicitProducerHashCount \in Int
  BY DEF IInv, TypeOK, Locals
<1>2. /\ pc[t] = "insert"
      /\ UNCHANGED <<hashOf, implicitProducerHashCount, implicitProducerHashResizeInProgress,
                     created>>
  BY DEF Insert
<1>3. PICK m \in Numbers : m = mainHash[t]
  BY <1>1, <1>2 DEF Local
<1>4. PICK p \in Nat : p = value[t]
  BY <1>1, <1>2 DEF Local, LocalsOK
<1>5. CASE Probed(t, m).key = None
  <2>1. PICK s \in Slots(m) : s = SlotIn(t, m)
    BY Probing
  <2>2. tables[m][s].key = None
    BY <1>5, <2>1 DEF Probed
  <2>3. /\ tables' = [tables EXCEPT ![m][s] = [key |-> t, value |-> p]]
        /\ Return(t, p)
    BY <1>3, <1>4, <1>5, <2>1 DEF Insert
  <2> QED BY <1>2, <1>3, <1>4, <2>1, <2>2, <2>3, EnterStep
<1>6. CASE Probed(t, m).key # None
  <2>1. /\ index' = [index EXCEPT ![t] = @ + 1]
        /\ UNCHANGED <<tables, pc, mainHash, hash, newCount, value, got>>
    BY <1>3, <1>6 DEF Insert
  <2>2. LocalsOK'
    BY <1>1, <1>2, <2>1 DEF LocalsOK
  <2>3. \A u \in Threads \ {t} : Untouched(u)
    BY <1>1, <2>1 DEF LocalsOK, Untouched
  <2>4. index'[t] = index[t] + 1 /\ index[t] \in Nat /\ hashOf[t] \in Nat
    BY <1>1, <2>1 DEF LocalsOK
  <2>5. Local(t)'
    <3>1. /\ Numbers' = Numbers /\ \A n : In(n, t)' <=> In(n, t)
          /\ \A n, j : KeyAt(n, j)' = KeyAt(n, j)
      BY <2>1, SameTables
    <3>2. KeyAt(m, index[t]) # None
      BY <1>6, Probing
    <3>3. /\ index[t] >= hashOf[t]
          /\ \A j \in hashOf[t]..(index[t] - 1) : KeyAt(m, j) # None
      BY <1>1, <1>2, <1>3 DEF Local
    <3>4. \A j \in hashOf[t]..index[t] : j = index[t] \/ j \in hashOf[t]..(index[t] - 1)
      BY <2>4, <3>3
    <3>5. \A j \in hashOf[t]..(index'[t] - 1) : KeyAt(m, j) # None
      BY <2>4, <3>2, <3>3, <3>4
    <3>6. \A j \in hashOf'[t]..(index'[t] - 1) : KeyAt(mainHash[t], j)' # None
      <4>1. \A j : KeyAt(mainHash[t], j)' = KeyAt(m, j)
        BY <1>3, <2>1 DEF KeyAt, Cap
      <4> QED BY <1>2, <3>5, <4>1
    <3>7. index'[t] >= hashOf'[t]
      BY <1>2, <2>4, <3>3
    <3> QED BY <1>1, <1>2, <2>1, <3>1, <3>6, <3>7 DEF Local
  <2>6. Locks'
    BY <1>1, <1>2, <2>1 DEF Locks
  <2>7. \A q \in Nat : value'[t] = q \/ got'[t] = q => Mine(t, q)
    BY <2>1 DEF Mine
  <2> QED BY <1>1, <1>2, <2>1, <2>2, <2>3, <2>5, <2>6, <2>7, QuietStep
<1> QED BY <1>5, <1>6

-------------------------------------------------------------------------------
LEMMA InitIInv == Init => IInv
<1> SUFFICES ASSUME Init PROVE IInv
  OBVIOUS
<1>1. /\ tables = <<Table(InitialHashSize)>> /\ InitialHashSize \in Nat /\ InitialHashSize >= 2
      /\ Len(tables) = 1
  BY ProducerHashAssumption DEF Init
<1>2. Numbers = {1} /\ tables[1] = Table(InitialHashSize) /\ Cap(1) = InitialHashSize
  BY <1>1, TableIs DEF Numbers, Cap
<1>3. TablesOK
  <2>1. tables \in Seq(Tables) /\ Len(tables) >= 1
    BY <1>1, TableIs
  <2>2. tables[1] \in [Slots(1) -> Entry]
    BY <1>1, <1>2, TableIs DEF Slots
  <2> QED BY <1>1, <1>2, <2>1, <2>2 DEF TablesOK
<1>4. \A s \in Slots(1) : tables[1][s].key = None
  BY <1>1, <1>2, TableIs DEF Slots
<1>5. /\ LocalsOK /\ implicitProducerHashResizeInProgress \in BOOLEAN
      /\ implicitProducerHashCount \in Int /\ created \in Nat
  <2>1. hashOf \in [Threads -> Nat]
    BY ProducerHashAssumption DEF Init
  <2>2. "idle" \in Labels
    BY DEF Labels
  <2>3. pc \in [Threads -> Labels] /\ mainHash \in [Threads -> Nat] /\ hash \in [Threads -> Nat]
    BY <2>2 DEF Init
  <2>4. index \in [Threads -> Nat] /\ newCount \in [Threads -> Int]
    BY DEF Init
  <2>5. value \in [Threads -> Nat \union {None}] /\ got \in [Threads -> Nat \union {None}]
    BY DEF Init
  <2>6. LocalsOK
    BY <2>1, <2>3, <2>4, <2>5, Zenon DEF LocalsOK
  <2>7. implicitProducerHashResizeInProgress \in BOOLEAN
    BY Zenon DEF Init
  <2>8. implicitProducerHashCount \in Int /\ created \in Nat
    <3>1. implicitProducerHashCount = 0 /\ created = 0
      BY Zenon DEF Init
    <3> QED BY <3>1
  <2> QED BY <2>6, <2>7, <2>8
<1>6. Reach /\ Once
  BY <1>2, <1>4 DEF Reach, Reached, Once
<1>7. Locals /\ Locks
  BY DEF Init, Locals, Local, Locks, Locking, Pending
<1>8. \A t \in Threads, p \in Nat : ~Mine(t, p)
  BY <1>2, <1>4, ProducerHashAssumption DEF Init, Mine
<1> QED BY <1>3, <1>5, <1>6, <1>7, <1>8 DEF IInv, TypeOK, Identity

LEMMA UnchangedIInv ==
    ASSUME IInv, UNCHANGED vars
    PROVE  IInv'
<1>1. UNCHANGED <<hashOf, tables, implicitProducerHashCount, implicitProducerHashResizeInProgress,
                  created, pc, mainHash, hash, index, newCount, value, got>>
  BY DEF vars, shared, locals
<1>2. /\ Numbers' = Numbers
      /\ \A n : Cap(n)' = Cap(n) /\ Slots(n)' = Slots(n)
      /\ \A n, t : In(n, t)' <=> In(n, t)
      /\ \A n, j : KeyAt(n, j)' = KeyAt(n, j)
  BY <1>1, SameTables
<1>3. TypeOK'
  BY <1>1, <1>2 DEF IInv, TypeOK, TablesOK, LocalsOK
<1>4. Reach' /\ Once'
  BY <1>1, <1>2 DEF IInv, Reach, Reached, Once
<1>5. Locals'
  <2>1. ASSUME NEW u \in Threads
        PROVE  Local(u)'
    <3>1. Local(u) /\ LocalsOK /\ Untouched(u)
      BY <1>1 DEF IInv, TypeOK, Locals, Untouched
    <3> QED BY <1>1, <1>2, <3>1, LocalStays
  <2> QED BY <2>1 DEF Locals
<1>6. Locks'
  BY <1>1 DEF IInv, Locks
<1>7. Identity'
  BY <1>1, <1>2, IdentityStays DEF IInv, Mine
<1> QED BY <1>3, <1>4, <1>5, <1>6, <1>7 DEF IInv

LEMMA NextIInv == IInv /\ [Next]_vars => IInv'
<1> SUFFICES ASSUME IInv, [Next]_vars PROVE IInv'
  OBVIOUS
<1>1. ASSUME NEW t \in Threads, Call(t) \/ Step(t)
      PROVE  IInv'
  <2>1. CASE Call(t)           BY <2>1, CallStep
  <2>2. CASE SearchFurther(t)  BY <2>2, SearchFurtherStep
  <2>3. CASE SearchPrevious(t) BY <2>3, SearchPreviousStep
  <2>4. CASE Found(t)          BY <2>4, FoundStep
  <2>5. CASE CountIn(t)        BY <2>5, CountInStep
  <2>6. CASE TryLock(t)        BY <2>6, TryLockStep
  <2>7. CASE Locked(t)         BY <2>7, LockedStep
  <2>8. CASE Install(t)        BY <2>8, InstallStep
  <2>9. CASE Unlock(t)         BY <2>9, UnlockStep
  <2>10. CASE AllocationFails(t) BY <2>10, AllocationFailsStep
  <2>11. CASE GiveUp(t)        BY <2>11, GiveUpStep
  <2>12. CASE Create(t)        BY <2>12, CreateStep
  <2>13. CASE CreateFails(t)   BY <2>13, CreateFailsStep
  <2>14. CASE Wait(t)          BY <2>14, WaitStep
  <2>15. CASE Insert(t)        BY <2>15, InsertStep
  <2> QED BY <1>1, <2>1, <2>2, <2>3, <2>4, <2>5, <2>6, <2>7, <2>8, <2>9, <2>10, <2>11, <2>12,
             <2>13, <2>14, <2>15 DEF Step
<1>2. CASE UNCHANGED vars
  BY <1>2, UnchangedIInv
<1> QED BY <1>1, <1>2 DEF Next

(* In every state probing can find each entry, and a thread has one        *)
(* producer at most, which is no one else's.                               *)
THEOREM Invariance == Spec => []IInv
<1>1. Init => IInv
  BY InitIInv
<1>2. IInv /\ [Next]_vars => IInv'
  BY NextIInv
<1> QED BY <1>1, <1>2, PTL DEF Spec

(* No two threads have been given the same producer. *)
THEOREM DistinctHolds == Spec => []Distinct
<1>1. IInv => Distinct
  <2> SUFFICES ASSUME IInv, NEW t \in Threads, NEW u \in Threads, t # u, got[t] # None,
                      got[t] = got[u]
               PROVE  FALSE
    BY DEF Distinct
  <2>1. got[t] \in Nat
    BY DEF IInv, TypeOK, LocalsOK
  <2>2. Mine(t, got[t]) /\ Mine(u, got[t])
    BY DEF Mine
  <2> QED BY <2>1, <2>2 DEF IInv, Identity
<1> QED BY <1>1, Invariance, PTL

(* What get_or_add_implicit_producer returns is the thread's own. *)
LEMMA GivesMine ==
    ASSUME IInv, NEW t \in Threads, Call(t) \/ Step(t)
    PROVE  /\ \A u \in Threads \ {t} : got'[u] = got[u]
           /\ \/ got'[t] = got[t]
              \/ got'[t] \in Nat /\ Mine(t, got'[t])
<1>1. LocalsOK /\ Local(t) /\ TablesOK
  BY DEF IInv, TypeOK, Locals
<1>2. ASSUME NEW p \in Nat, Return(t, p), Mine(t, p)
      PROVE  /\ \A u \in Threads \ {t} : got'[u] = got[u]
             /\ got'[t] \in Nat /\ Mine(t, got'[t])
  <2>1. got' = [got EXCEPT ![t] = p]
    BY <1>2, ProducerHashAssumption DEF Return
  <2>2. got'[t] = p /\ \A u \in Threads \ {t} : got'[u] = got[u]
    BY <1>1, <2>1 DEF LocalsOK
  <2> QED BY <1>2, <2>2
<1>3. CASE Found(t)
  <2>1. PICK h \in Numbers : h = hash[t]
    BY <1>1, <1>3 DEF Found, Local, Numbers, TablesOK, LocalsOK
  <2>2. Probed(t, h).key = t
    BY <1>3, <2>1 DEF Found
  <2>3. PICK p \in Nat : p = Probed(t, h).value /\ Mine(t, p)
    BY <2>2, ProbedIsMine
  <2>4. CASE h = mainHash[t]
    <3>1. Return(t, p)
      BY <1>3, <2>1, <2>3, <2>4 DEF Found
    <3> QED BY <1>2, <2>3, <3>1
  <2>5. CASE h # mainHash[t]
    BY <1>3, <2>1, <2>5 DEF Found
  <2> QED BY <2>4, <2>5
<1>4. CASE Insert(t)
  <2>1. PICK p \in Nat : p = value[t]
    BY <1>1, <1>4 DEF Insert, Local, LocalsOK
  <2>2. Mine(t, p)
    BY <2>1 DEF Mine
  <2>3. Return(t, p) \/ got' = got
    BY <1>4, <2>1 DEF Insert
  <2> QED BY <1>2, <2>2, <2>3
<1>5. CASE GiveUp(t) \/ CreateFails(t)
  <2>1. got' = [got EXCEPT ![t] = @]
    BY <1>5 DEF GiveUp, CreateFails, Return
  <2> QED BY <1>1, <2>1 DEF LocalsOK
<1>6. CASE ~(Found(t) \/ Insert(t) \/ GiveUp(t) \/ CreateFails(t))
  <2>1. got' = got
    BY <1>6 DEF Step, Call, SearchFurther, SearchPrevious, CountIn, TryLock, Locked, Install,
                Unlock, AllocationFails, Create, Wait
  <2> QED BY <2>1
<1> QED BY <1>3, <1>4, <1>5, <1>6

(* A thread that has a producer gets this one again. *)
THEOREM KeepsProducerHolds == Spec => KeepsProducer
<1>1. ASSUME IInv, [Next]_vars
      PROVE  [\A t \in Threads : got[t] # None => got'[t] = got[t]]_vars
  <2>1. ASSUME NEW t \in Threads, Call(t) \/ Step(t), NEW u \in Threads, got[u] # None
        PROVE  got'[u] = got[u]
    <3>1. CASE u = t
      <4>1. got[t] \in Nat /\ Mine(t, got[t])
        BY <1>1, <2>1, <3>1 DEF IInv, TypeOK, LocalsOK, Mine
      <4>2. got'[t] = got[t] \/ (got'[t] \in Nat /\ Mine(t, got'[t]))
        BY <1>1, <2>1, GivesMine
      <4> QED BY <1>1, <3>1, <4>1, <4>2 DEF IInv, Identity
    <3>2. CASE u # t
      BY <1>1, <2>1, <3>2, GivesMine
    <3> QED BY <3>1, <3>2
  <2> QED BY <1>1, <2>1 DEF Next
<1>2. IInv /\ [Next]_vars => [\A t \in Threads : got[t] # None => got'[t] = got[t]]_vars
  BY <1>1
<1> QED BY <1>2, Invariance, PTL DEF Spec, KeepsProducer

-------------------------------------------------------------------------------
(* No table is ever full.  A thread may enter table n when its own count   *)
(* is below Limit(n); the threads in the tables up to n, those about to    *)
(* enter them and those that have been counted with at most k are          *)
(* therefore no more than k, if k is large enough to fill up table n.      *)
Limit(n) == Cap(n) \div 2 + Cap(n) \div 4

Within(n, t) ==
    \/ \E m \in Numbers : m <= n /\ In(m, t)
    \/ pc[t] = "insert" /\ mainHash[t] <= n

Placed(n, k, t) == Within(n, t) \/ (pc[t] \in Pending /\ newCount[t] <= k)

Filling(n, k) == {t \in Threads : Placed(n, k, t)}

Room ==
    \A n \in Numbers, k \in Nat : k >= Limit(n) - 1 => Cardinality(Filling(n, k)) <= k

Counts(t) == pc[t] \in Pending \union {"insert"} \/ \E n \in Numbers : In(n, t)

Counting == {t \in Threads : Counts(t)}

CountOK == implicitProducerHashCount = Cardinality(Counting)

LEMMA Sizes ==
    /\ IsFiniteSet(Counting) /\ Cardinality(Counting) \in Nat
    /\ \A n, k : IsFiniteSet(Filling(n, k)) /\ Cardinality(Filling(n, k)) \in Nat
<1>1. Counting \in SUBSET Threads /\ \A n, k : Filling(n, k) \in SUBSET Threads
  BY DEF Counting, Filling
<1>2. IsFiniteSet(Threads)
  BY ProducerHashAssumption
<1>3. IsFiniteSet(Counting) /\ \A n, k : IsFiniteSet(Filling(n, k))
  BY <1>1, <1>2, FS_Subset
<1> QED BY <1>3, FS_CardinalityType

LEMMA LimitIs ==
    ASSUME TablesOK, NEW n \in Numbers
    PROVE  Limit(n) \in Nat /\ Limit(n) >= 1 /\ Limit(n) <= Cap(n)
<1>1. Cap(n) \in Nat /\ Cap(n) >= 2
  BY DEF TablesOK
<1> QED BY <1>1 DEF Limit

(* A step of thread t that leaves the tables alone and takes it to no      *)
(* place where it was not expected. *)
LEMMA RoomStep ==
    ASSUME TablesOK, CountOK, Room, NEW t \in Threads, UNCHANGED tables,
           \A u \in Threads \ {t} : Untouched(u),
           \A n \in Numbers, k \in Nat :
              k >= Limit(n) - 1 /\ Placed(n, k, t)' => Placed(n, k, t),
           \/ UNCHANGED implicitProducerHashCount /\ (Counts(t)' <=> Counts(t))
           \/ /\ implicitProducerHashCount' = implicitProducerHashCount - 1
              /\ Counts(t) /\ ~Counts(t)'
    PROVE  CountOK' /\ Room'
<1>1. /\ Numbers' = Numbers
      /\ \A n : Cap(n)' = Cap(n)
      /\ \A n, u : In(n, u)' <=> In(n, u)
  BY SameTables
<1>2. \A u \in Threads \ {t} : Counts(u)' <=> Counts(u)
  BY <1>1 DEF Counts, Untouched
<1>3. \A u \in Threads \ {t}, n \in Numbers, k \in Nat : Placed(n, k, u)' <=> Placed(n, k, u)
  BY <1>1 DEF Placed, Within, Untouched
<1>4. CountOK'
  <2>1. CASE UNCHANGED implicitProducerHashCount /\ (Counts(t)' <=> Counts(t))
    <3>1. Counting' = Counting
      BY <1>2, <2>1 DEF Counting
    <3> QED BY <2>1, <3>1 DEF CountOK
  <2>2. CASE /\ implicitProducerHashCount' = implicitProducerHashCount - 1
             /\ Counts(t) /\ ~Counts(t)'
    <3>1. Counting' = Counting \ {t} /\ t \in Counting
      BY <1>2, <2>2 DEF Counting
    <3>2. Cardinality(Counting \ {t}) = Cardinality(Counting) - 1
      BY <3>1, Sizes, FS_RemoveElement
    <3> QED BY <2>2, <3>1, <3>2 DEF CountOK
  <2> QED BY <2>1, <2>2
<1>5. ASSUME NEW n \in Numbers, NEW k \in Nat, k >= Limit(n) - 1
      PROVE  Cardinality(Filling(n, k))' <= k
  <2>1. Filling(n, k)' \in SUBSET Filling(n, k)
    BY <1>3, <1>5 DEF Filling
  <2>2. Cardinality(Filling(n, k)') <= Cardinality(Filling(n, k))
    BY <2>1, Sizes, FS_Subset
  <2>3. Cardinality(Filling(n, k)') \in Nat /\ Cardinality(Filling(n, k)) \in Nat
    BY <2>1, Sizes, FS_Subset, FS_CardinalityType
  <2>4. Cardinality(Filling(n, k)) <= k
    BY <1>5 DEF Room
  <2>5. Cardinality(Filling(n, k)') <= k
    BY <2>2, <2>3, <2>4
  <2> QED BY <2>5
<1>6. Room'
  BY <1>1, <1>5 DEF Room, Limit
<1> QED BY <1>4, <1>6

(* A step within one of the kinds of places. *)
LEMMA RoomKept ==
    ASSUME IInv, CountOK, Room, NEW t \in Threads, UNCHANGED <<tables, implicitProducerHashCount>>,
           \A u \in Threads \ {t} : Untouched(u),
           \/ /\ pc[t] \in Pending /\ pc'[t] \in Pending
              /\ newCount'[t] = newCount[t]
           \/ /\ pc[t] \notin Pending \union {"insert"}
              /\ pc'[t] \notin Pending \union {"insert"}
           \/ /\ \E n \in Numbers : In(n, t)
              /\ pc[t] \notin Pending \union {"insert"}
              /\ pc'[t] \notin Pending
              /\ pc'[t] = "insert" => \A n \in Numbers : mainHash'[t] <= n => Within(n, t)
           \/ /\ pc[t] = "insert" /\ pc'[t] = "insert" /\ UNCHANGED mainHash[t]
           \/ /\ pc[t] \in Pending /\ newCount[t] < Limit(mainHash[t])
              /\ pc'[t] = "insert" /\ UNCHANGED mainHash[t]
    PROVE  CountOK' /\ Room'
<1>1. TablesOK /\ LocalsOK /\ Local(t)
  BY DEF IInv, TypeOK, Locals
<1>2. /\ Numbers' = Numbers
      /\ \A n : Cap(n)' = Cap(n)
      /\ \A n, u : In(n, u)' <=> In(n, u)
  BY SameTables
<1>3. "insert" \notin Pending
  BY DEF Pending
<1>4. Counts(t)' <=> Counts(t)
  BY <1>2, <1>3 DEF Counts
<1>5. ASSUME NEW n \in Numbers, NEW k \in Nat, k >= Limit(n) - 1, Placed(n, k, t)'
      PROVE  Placed(n, k, t)
  <2>1. CASE \E m \in Numbers : m <= n /\ In(m, t)
    BY <2>1 DEF Placed, Within
  <2>2. CASE pc'[t] = "insert" /\ mainHash'[t] <= n
    <3>1. CASE pc[t] \in Pending /\ newCount[t] < Limit(mainHash[t]) /\ UNCHANGED mainHash[t]
      <4>1. mainHash[t] \in Numbers
        BY <1>1, <3>1 DEF Local, Pending
      <4>2. PICK m \in Numbers : m = mainHash[t] /\ m <= n
        BY <2>2, <3>1, <4>1
      <4>3. Cap(m) <= Cap(n) /\ Cap(m) \in Nat /\ Cap(n) \in Nat
        BY <1>1, <4>2 DEF TablesOK
      <4>4. Limit(m) <= Limit(n) /\ Limit(m) \in Int /\ Limit(n) \in Int
        BY <4>3 DEF Limit
      <4>5. newCount[t] < Limit(m) /\ newCount[t] \in Int
        BY <1>1, <3>1, <4>2 DEF LocalsOK
      <4>6. newCount[t] <= k
        BY <1>5, <4>4, <4>5
      <4> QED BY <3>1, <4>6 DEF Placed
    <3>2. CASE pc[t] = "insert" /\ UNCHANGED mainHash[t]
      BY <2>2, <3>2 DEF Placed, Within
    <3>3. CASE \A j \in Numbers : mainHash'[t] <= j => Within(j, t)
      BY <2>2, <3>3 DEF Placed
    <3> QED BY <1>3, <2>2, <3>1, <3>2, <3>3
  <2>3. CASE pc'[t] \in Pending /\ newCount'[t] <= k
    BY <1>3, <2>3 DEF Placed
  <2> QED BY <1>2, <1>5, <2>1, <2>2, <2>3 DEF Placed, Within
<1> QED BY <1>1, <1>4, <1>5, RoomStep

(* A thread that fails is counted no more. *)
LEMMA RoomLost ==
    ASSUME IInv, CountOK, Room, NEW t \in Threads, UNCHANGED tables,
           \A u \in Threads \ {t} : Untouched(u),
           implicitProducerHashCount' = implicitProducerHashCount - 1,
           pc[t] \in Pending, pc'[t] \notin Pending \union {"insert"}
    PROVE  CountOK' /\ Room'
<1>1. TablesOK /\ Local(t)
  BY DEF IInv, TypeOK, Locals
<1>2. Numbers' = Numbers /\ \A n, u : In(n, u)' <=> In(n, u)
  BY SameTables
<1>3. \A n \in Numbers : ~In(n, t)
  BY <1>1 DEF Local
<1>4. Counts(t) /\ ~Counts(t)'
  BY <1>2, <1>3 DEF Counts
<1>5. \A n, k : ~Placed(n, k, t)'
  BY <1>2, <1>3 DEF Placed, Within
<1> QED BY <1>1, <1>4, <1>5, RoomStep

(* A thread that is counted in: its own count is that of all. *)
LEMMA RoomCountIn ==
    ASSUME IInv, CountOK, Room, NEW t \in Threads, CountIn(t)
    PROVE  CountOK' /\ Room'
<1>1. TablesOK /\ LocalsOK /\ Local(t)
  BY DEF IInv, TypeOK, Locals
<1>2. /\ pc[t] = "count" /\ pc' = [pc EXCEPT ![t] = "try"]
      /\ implicitProducerHashCount' = implicitProducerHashCount + 1
      /\ newCount' = [newCount EXCEPT ![t] = implicitProducerHashCount + 1]
      /\ UNCHANGED <<tables, mainHash, hash, index, value, got>>
  BY DEF CountIn, Goto
<1>3. PICK c \in Nat : c = Cardinality(Counting) + 1
  BY Sizes
<1>4. /\ pc'[t] = "try" /\ newCount'[t] = c /\ implicitProducerHashCount' = c
      /\ \A u \in Threads \ {t} : Untouched(u)
  BY <1>1, <1>2, <1>3 DEF LocalsOK, CountOK, Untouched
<1>5. /\ Numbers' = Numbers
      /\ \A n : Cap(n)' = Cap(n)
      /\ \A n, u : In(n, u)' <=> In(n, u)
  BY <1>2, SameTables
<1>6. \A n \in Numbers : ~In(n, t)
  BY <1>1, <1>2 DEF Local
<1>7. \A u \in Threads \ {t} : Counts(u)' <=> Counts(u)
  BY <1>4, <1>5 DEF Counts, Untouched
<1>8. Counting' = Counting \union {t} /\ t \notin Counting
  BY <1>2, <1>4, <1>6, <1>7 DEF Counting, Counts, Pending
<1>9. Cardinality(Counting') = c /\ IsFiniteSet(Counting')
  <2>1. IsFiniteSet(Counting)
    BY Sizes
  <2>2. /\ IsFiniteSet(Counting \union {t})
        /\ Cardinality(Counting \union {t}) =
             IF t \in Counting THEN Cardinality(Counting) ELSE Cardinality(Counting) + 1
    BY <2>1, FS_AddElement, Zenon
  <2> QED BY <1>3, <1>8, <2>2
<1>10. CountOK'
  BY <1>4, <1>9 DEF CountOK
<1>11. ASSUME NEW n \in Numbers, NEW k \in Nat, k >= Limit(n) - 1
       PROVE  Cardinality(Filling(n, k))' <= k
  <2>1. CASE c <= k
    <3>1. Filling(n, k)' \in SUBSET (Counting')
      BY <1>5 DEF Filling, Counting, Placed, Within, Counts
    <3>2. /\ Cardinality(Filling(n, k)') <= Cardinality(Counting')
          /\ IsFiniteSet(Filling(n, k)')
      BY <1>9, <3>1, FS_Subset
    <3>3. Cardinality(Filling(n, k)') \in Nat
      BY <3>2, FS_CardinalityType
    <3> QED BY <1>9, <2>1, <3>2, <3>3
  <2>2. CASE ~(c <= k)
    <3>1. \A u \in Threads \ {t} : Placed(n, k, u)' <=> Placed(n, k, u)
      BY <1>4, <1>5 DEF Placed, Within, Untouched
    <3>2. ~Placed(n, k, t) /\ ~Placed(n, k, t)'
      BY <1>2, <1>4, <1>5, <1>6, <2>2 DEF Placed, Within, Pending
    <3>3. Filling(n, k)' = Filling(n, k)
      BY <3>1, <3>2 DEF Filling
    <3> QED BY <1>11, <3>3 DEF Room
  <2> QED BY <2>1, <2>2
<1>12. Room'
  BY <1>5, <1>11 DEF Room, Limit
<1> QED BY <1>10, <1>12

(* A larger table has room for those in the one before it. *)
LEMMA RoomInstall ==
    ASSUME IInv, IInv', CountOK, Room, NEW t \in Threads, Install(t),
           \A u \in Threads \ {t} : Untouched(u)
    PROVE  CountOK' /\ Room'
<1>1. TablesOK /\ LocalsOK /\ Local(t) /\ Locals /\ TablesOK'
  BY DEF IInv, TypeOK, Locals
<1>2. PICK old, last \in Nat : old = Len(tables) /\ last = Len(tables) + 1
  BY <1>1 DEF TablesOK
<1>3. /\ pc[t] = "allocate" /\ pc' = [pc EXCEPT ![t] = "unlock"]
      /\ UNCHANGED <<newCount, implicitProducerHashCount>>
  BY DEF Install, Goto
<1>4. pc'[t] = "unlock" /\ newCount'[t] = newCount[t]
  BY <1>1, <1>3 DEF LocalsOK
<1>5. PICK c \in Nat : c >= 2 /\ c >= Cap(old) /\ tables' = Append(tables, Table(c))
  <2>1. PICK c \in NewCapacities(t) : tables' = Append(tables, Table(c))
    BY DEF Install
  <2>2. mainHash[t] = old /\ old \in Numbers
    BY <1>1, <1>2, <1>3 DEF Local, TablesOK, Numbers
  <2>3. PICK o \in Nat : o = Cap(old) /\ o >= 2
    BY <1>1, <2>2 DEF TablesOK
  <2>4. c \in (2 * o)..(4 * newCount[t] + 2) /\ newCount[t] \in Int
    BY <1>1, <2>1, <2>2, <2>3 DEF NewCapacities, Cap, LocalsOK
  <2> QED BY <2>1, <2>3, <2>4
<1>6. /\ Len(tables') = last
      /\ \A n \in Numbers : tables'[n] = tables[n] /\ Cap(n)' = Cap(n)
      /\ \A u \in Threads : ~In(last, u)'
  BY <1>1, <1>2, <1>5, Installed
<1>7. /\ Numbers' = Numbers \union {last} /\ last \notin Numbers /\ old \in Numbers
      /\ \A n \in Numbers : n <= old /\ n <= last /\ ~(last <= n)
  BY <1>1, <1>2, <1>6 DEF Numbers, TablesOK
<1>8. \A n \in Numbers, u \in Threads : In(n, u)' <=> In(n, u)
  BY <1>6 DEF In, Slots
<1>9. \A u \in Threads : (pc'[u] \in Pending <=> pc[u] \in Pending) /\ newCount'[u] = newCount[u]
                         /\ (pc'[u] = "insert" <=> pc[u] = "insert")
  BY <1>3, <1>4 DEF Untouched, Pending
<1>10. \A u \in Threads : pc[u] = "insert" => mainHash'[u] = mainHash[u] /\ mainHash[u] \in Numbers
  BY <1>1, <1>3 DEF Untouched, Locals, Local
<1>11. \A u \in Threads : Counts(u)' <=> Counts(u)
  BY <1>6, <1>7, <1>8, <1>9 DEF Counts
<1>12. CountOK'
  <2>1. Counting' = Counting
    BY <1>11 DEF Counting
  <2> QED BY <1>3, <2>1 DEF CountOK
<1>13. \A n \in Numbers, u \in Threads : Within(n, u)' <=> Within(n, u)
  BY <1>6, <1>7, <1>8, <1>9, <1>10 DEF Within
<1>14. \A u \in Threads : Within(last, u)' <=> Within(old, u)
  BY <1>6, <1>7, <1>8, <1>9, <1>10 DEF Within
<1>15. /\ \A n \in Numbers : \A k : Filling(n, k)' = Filling(n, k)
       /\ \A k : Filling(last, k)' = Filling(old, k)
  BY <1>9, <1>13, <1>14 DEF Filling, Placed
<1>16. ASSUME NEW k \in Nat, k >= Limit(last)' - 1
       PROVE  Cardinality(Filling(last, k))' <= k
  <2>1. Cap(old) \in Nat /\ Cap(last)' \in Nat /\ Cap(old) <= Cap(last)'
    BY <1>1, <1>2, <1>6, <1>7 DEF TablesOK
  <2>2. Limit(old) <= Limit(last)' /\ Limit(old) \in Int /\ Limit(last)' \in Int
    BY <2>1 DEF Limit
  <2>3. k >= Limit(old) - 1
    BY <1>16, <2>2
  <2> QED BY <1>7, <1>15, <2>3 DEF Room
<1>17. ASSUME NEW n \in Numbers, NEW k \in Nat, k >= Limit(n)' - 1
       PROVE  Cardinality(Filling(n, k))' <= k
  <2>1. Limit(n)' = Limit(n)
    BY <1>6 DEF Limit
  <2> QED BY <1>15, <1>17, <2>1 DEF Room
<1>18. Room'
  BY <1>7, <1>16, <1>17 DEF Room
<1> QED BY <1>12, <1>18

(* A thread that enters a table was expected there. *)
LEMMA RoomEnter ==
    ASSUME IInv, IInv', CountOK, Room, NEW t \in Threads, Insert(t),
           \A u \in Threads \ {t} : Untouched(u), pc'[t] # "insert"
    PROVE  CountOK' /\ Room'
<1>1. TablesOK /\ LocalsOK /\ Local(t)
  BY DEF IInv, TypeOK, Locals
<1>2. PICK m \in Numbers : m = mainHash[t]
  BY <1>1 DEF Insert, Local
<1>3. PICK s \in Slots(m) : s = SlotIn(t, m)
  BY Probing
<1>4. PICK p : p = value[t]
  OBVIOUS
<1>5. /\ tables' = [tables EXCEPT ![m][s] = [key |-> t, value |-> p]]
      /\ pc[t] = "insert" /\ pc' = [pc EXCEPT ![t] = "idle"]
      /\ UNCHANGED implicitProducerHashCount /\ tables[m][s].key = None
  BY <1>2, <1>3, <1>4 DEF Insert, Return, Goto, Probed
<1>6. [key |-> t, value |-> p] \in Entry
  BY <1>1, <1>4 DEF Entry, LocalsOK
<1>7. /\ Len(tables') = Len(tables)
      /\ \A n \in Numbers : Cap(n)' = Cap(n)
      /\ \A n \in Numbers : \A r \in Slots(n) :
            tables'[n][r] = IF n = m /\ r = s THEN [key |-> t, value |-> p] ELSE tables[n][r]
  <2>1. PICK e \in Entry : e = [key |-> t, value |-> p]
    BY <1>6
  <2>2. Fills(m, s, e)
    BY <1>5, <2>1 DEF Fills
  <2>3. /\ Len(tables') = Len(tables)
        /\ \A n \in Numbers : Cap(n)' = Cap(n)
        /\ \A n \in Numbers : \A r \in Slots(n) :
              tables'[n][r] = IF n = m /\ r = s THEN e ELSE tables[n][r]
    BY <1>1, <2>2, Filled
  <2> QED BY <2>1, <2>3
<1>8. Numbers' = Numbers /\ \A n \in Numbers : Slots(n)' = Slots(n)
  BY <1>7 DEF Numbers, Slots
<1>9. \A n \in Numbers, u \in Threads : In(n, u)' <=> In(n, u) \/ (u = t /\ n = m)
  <2>1. ASSUME NEW n \in Numbers, NEW u \in Threads
        PROVE  In(n, u)' <=> In(n, u) \/ (u = t /\ n = m)
    <3>1. CASE n # m
      BY <1>7, <1>8, <3>1 DEF In
    <3>2. CASE n = m
      <4>1. tables'[m][s].key = t /\ \A r \in Slots(m) : r # s => tables'[m][r] = tables[m][r]
        BY <1>7
      <4> QED BY <1>5, <1>8, <3>2, <4>1, ProducerHashAssumption DEF In
    <3> QED BY <3>1, <3>2
  <2> QED BY <2>1
<1>10. pc'[t] = "idle" /\ "idle" \notin Pending \union {"insert"}
  BY <1>1, <1>5 DEF LocalsOK, Pending
<1>11. \A u \in Threads : Counts(u)' <=> Counts(u)
  BY <1>5, <1>8, <1>9, <1>10 DEF Counts, Untouched
<1>12. CountOK'
  <2>1. Counting' = Counting
    BY <1>11 DEF Counting
  <2> QED BY <1>5, <2>1 DEF CountOK
<1>13. \A n \in Numbers, u \in Threads : \A k : Placed(n, k, u)' <=> Placed(n, k, u)
  <2>1. ASSUME NEW n \in Numbers, NEW k, NEW u \in Threads
        PROVE  Placed(n, k, u)' <=> Placed(n, k, u)
    <3>1. CASE u = t
      <4>1. pc[t] = "insert" /\ "insert" \notin Pending
        BY <1>5 DEF Pending
      <4>2. Placed(n, k, t) <=> (\E j \in Numbers : j <= n /\ In(j, t)) \/ m <= n
        BY <1>2, <4>1 DEF Placed, Within
      <4>3. Placed(n, k, t)' <=> \E j \in Numbers : j <= n /\ In(j, t)'
        BY <1>8, <1>10 DEF Placed, Within
      <4> QED BY <1>9, <3>1, <4>2, <4>3
    <3>2. CASE u # t
      BY <1>8, <1>9, <3>2 DEF Placed, Within, Untouched
    <3> QED BY <3>1, <3>2
  <2> QED BY <2>1
<1>14. \A n \in Numbers : \A k : Filling(n, k)' = Filling(n, k)
  BY <1>13 DEF Filling
<1>15. \A n \in Numbers : Limit(n)' = Limit(n)
  BY <1>7 DEF Limit
<1>16. Room'
  BY <1>8, <1>14, <1>15 DEF Room
<1> QED BY <1>12, <1>16

LEMMA OthersUntouched ==
    ASSUME LocalsOK, NEW t \in Threads, Call(t) \/ Step(t)
    PROVE  \A u \in Threads \ {t} : Untouched(u)
<1>1. \A producer : Return(t, producer) => \A u \in Threads \ {t} : Untouched(u)
  BY DEF Return, Goto, LocalsOK, Untouched
<1>2. CASE Call(t)
  BY <1>2 DEF Call, Goto, LocalsOK, Untouched
<1>3. CASE SearchFurther(t)
  BY <1>3 DEF SearchFurther, LocalsOK, Untouched
<1>4. CASE SearchPrevious(t)
  BY <1>4 DEF SearchPrevious, Goto, LocalsOK, Untouched
<1>5. CASE Found(t)
  <2>1. CASE hash[t] = mainHash[t]
    BY <1>1, <1>5, <2>1 DEF Found
  <2>2. CASE hash[t] # mainHash[t]
    BY <1>5, <2>2 DEF Found, Goto, LocalsOK, Untouched
  <2> QED BY <2>1, <2>2
<1>6. CASE CountIn(t)
  BY <1>6 DEF CountIn, Goto, LocalsOK, Untouched
<1>7. CASE TryLock(t)
  BY <1>7 DEF TryLock, Goto, LocalsOK, Untouched
<1>8. CASE Locked(t)
  BY <1>8 DEF Locked, Goto, LocalsOK, Untouched
<1>9. CASE Install(t)
  BY <1>9 DEF Install, Goto, LocalsOK, Untouched
<1>10. CASE Unlock(t)
  BY <1>10 DEF Unlock, Goto, LocalsOK, Untouched
<1>11. CASE AllocationFails(t)
  BY <1>11 DEF AllocationFails, Goto, LocalsOK, Untouched
<1>12. CASE GiveUp(t) \/ CreateFails(t)
  BY <1>1, <1>12 DEF GiveUp, CreateFails
<1>13. CASE Create(t)
  BY <1>13 DEF Create, Goto, LocalsOK, Untouched
<1>14. CASE Wait(t)
  BY <1>14 DEF Wait, Goto, LocalsOK, Untouched
<1>15. CASE Insert(t)
  <2>1. CASE Probed(t, mainHash[t]).key = None
    BY <1>1, <1>15, <2>1 DEF Insert
  <2>2. CASE Probed(t, mainHash[t]).key # None
    BY <1>15, <2>2 DEF Insert, LocalsOK, Untouched
  <2> QED BY <2>1, <2>2
<1> QED BY <1>2, <1>3, <1>4, <1>5, <1>6, <1>7, <1>8, <1>9, <1>10, <1>11, <1>12, <1>13, <1>14,
           <1>15 DEF Step

(* Where the thread that takes a step is before and after it. *)
LEMMA RoomQuiet ==
    ASSUME IInv, CountOK, Room, NEW t \in Threads, \A u \in Threads \ {t} : Untouched(u),
           \/ Call(t) \/ SearchFurther(t) \/ SearchPrevious(t) \/ TryLock(t) \/ Locked(t)
           \/ Unlock(t) \/ GiveUp(t) \/ Wait(t)
    PROVE  CountOK' /\ Room'
<1>1. LocalsOK /\ UNCHANGED <<tables, implicitProducerHashCount>>
  BY DEF IInv, TypeOK, Call, SearchFurther, SearchPrevious, TryLock, Locked, Unlock, GiveUp, Wait,
         shared
<1>2. CASE Call(t)
  <2>1. pc[t] = "idle" /\ pc'[t] = "search"
    BY <1>1, <1>2 DEF Call, Goto, LocalsOK
  <2> QED BY <1>1, <2>1, RoomKept DEF Pending
<1>3. CASE SearchFurther(t)
  <2>1. pc[t] = "search" /\ pc'[t] = "search"
    BY <1>1, <1>3 DEF SearchFurther, LocalsOK
  <2> QED BY <1>1, <2>1, RoomKept DEF Pending
<1>4. CASE SearchPrevious(t)
  <2>1. pc[t] = "search" /\ pc'[t] \in {"search", "count"}
    BY <1>1, <1>4 DEF SearchPrevious, Goto, LocalsOK
  <2> QED BY <1>1, <2>1, RoomKept DEF Pending
<1>5. CASE GiveUp(t)
  <2>1. pc[t] = "failed" /\ pc'[t] = "idle"
    BY <1>1, <1>5 DEF GiveUp, Return, Goto, LocalsOK
  <2> QED BY <1>1, <2>1, RoomKept DEF Pending
<1>6. CASE TryLock(t) \/ Unlock(t)
  <2>1. /\ pc[t] \in {"try", "unlock"} /\ pc'[t] \in {"locked", "fits"}
        /\ newCount'[t] = newCount[t]
    BY <1>1, <1>6 DEF TryLock, Unlock, Goto, LocalsOK
  <2> QED BY <1>1, <2>1, RoomKept DEF Pending
<1>7. CASE Locked(t) \/ Wait(t)
  <2>1. /\ pc[t] \in {"locked", "fits"} /\ pc'[t] \in {"allocate", "unlock", "try"}
        /\ newCount'[t] = newCount[t]
    BY <1>1, <1>7 DEF Locked, Wait, Goto, LocalsOK
  <2> QED BY <1>1, <2>1, RoomKept DEF Pending
<1> QED BY <1>2, <1>3, <1>4, <1>5, <1>6, <1>7

LEMMA RoomFound ==
    ASSUME IInv, CountOK, Room, NEW t \in Threads, \A u \in Threads \ {t} : Untouched(u), Found(t)
    PROVE  CountOK' /\ Room'
<1>1. LocalsOK /\ Local(t) /\ UNCHANGED <<tables, implicitProducerHashCount>> /\ TablesOK
      /\ pc[t] = "search"
  BY DEF IInv, TypeOK, Found, shared, Locals
<1>2. PICK h \in Numbers : h = hash[t]
  BY <1>1 DEF Local, Numbers, TablesOK, LocalsOK
<1>3. In(h, t)
  BY <1>2, ProbedIsMine DEF Found
<1>4. h \in Nat /\ h <= mainHash[t] /\ mainHash[t] \in Nat
  BY <1>1, <1>2 DEF Local, Numbers, LocalsOK
<1>5. pc'[t] \in {"idle", "insert"}
  BY <1>1 DEF Found, Return, Goto, LocalsOK
<1>6. pc'[t] = "insert" => UNCHANGED mainHash[t]
  <2>1. CASE hash[t] = mainHash[t]
    <3>1. pc'[t] = "idle"
      BY <1>1, <2>1 DEF Found, Return, Goto, LocalsOK
    <3> QED BY <3>1
  <2>2. CASE hash[t] # mainHash[t]
    BY <2>2 DEF Found
  <2> QED BY <2>1, <2>2
<1>7. \A n \in Numbers : mainHash[t] <= n => Within(n, t)
  <2>1. \A n \in Numbers : mainHash[t] <= n => h <= n
    BY <1>4 DEF Numbers
  <2> QED BY <1>2, <1>3, <2>1 DEF Within
<1> QED BY <1>1, <1>2, <1>3, <1>5, <1>6, <1>7, RoomKept DEF Pending

LEMMA NextRoom ==
    ASSUME IInv, IInv', CountOK, Room, NEW t \in Threads, Call(t) \/ Step(t)
    PROVE  CountOK' /\ Room'
<1>1. LocalsOK /\ \A u \in Threads \ {t} : Untouched(u)
  BY OthersUntouched DEF IInv, TypeOK
<1>2. CASE \/ Call(t) \/ SearchFurther(t) \/ SearchPrevious(t) \/ TryLock(t) \/ Locked(t)
           \/ Unlock(t) \/ GiveUp(t) \/ Wait(t)
  BY <1>1, <1>2, RoomQuiet
<1>3. CASE Found(t)
  BY <1>1, <1>3, RoomFound
<1>4. CASE CountIn(t)
  BY <1>4, RoomCountIn
<1>5. CASE Install(t)
  BY <1>1, <1>5, RoomInstall
<1>6. CASE AllocationFails(t)
  <2>1. /\ pc[t] = "allocate" /\ pc'[t] = "failed" /\ UNCHANGED tables
        /\ implicitProducerHashCount' = implicitProducerHashCount - 1
    BY <1>1, <1>6 DEF AllocationFails, Goto, LocalsOK
  <2> QED BY <1>1, <2>1, RoomLost DEF Pending
<1>7. CASE CreateFails(t)
  <2>1. /\ pc[t] = "fits" /\ pc'[t] = "idle" /\ UNCHANGED tables
        /\ implicitProducerHashCount' = implicitProducerHashCount - 1
    BY <1>1, <1>7 DEF CreateFails, Return, Goto, LocalsOK
  <2> QED BY <1>1, <2>1, RoomLost DEF Pending
<1>8. CASE Create(t)
  <2>1. /\ pc[t] = "fits" /\ pc'[t] = "insert" /\ UNCHANGED <<tables, mainHash>>
        /\ UNCHANGED implicitProducerHashCount
    BY <1>1, <1>8 DEF Create, Goto, LocalsOK
  <2>2. newCount[t] < Limit(mainHash[t])
    BY <1>8 DEF Create, Fits, Limit, Cap
  <2> QED BY <1>1, <2>1, <2>2, RoomKept DEF Pending
<1>9. CASE Insert(t)
  <2>1. CASE pc'[t] # "insert"
    BY <1>1, <1>9, <2>1, RoomEnter
  <2>2. CASE pc'[t] = "insert"
    <3>1. Probed(t, mainHash[t]).key # None
      BY <1>1, <1>9, <2>2 DEF Insert, Return, Goto, LocalsOK
    <3>2. pc[t] = "insert" /\ UNCHANGED <<tables, mainHash, implicitProducerHashCount>>
      BY <1>9, <3>1 DEF Insert
    <3> QED BY <1>1, <2>2, <3>2, RoomKept
  <2> QED BY <2>1, <2>2
<1> QED BY <1>2, <1>3, <1>4, <1>5, <1>6, <1>7, <1>8, <1>9 DEF Step

LEMMA InitRoom == Init => CountOK /\ Room
<1> SUFFICES ASSUME Init PROVE CountOK /\ Room
  OBVIOUS
<1>1. TablesOK
  BY InitIInv DEF IInv, TypeOK
<1>2. \A n \in Numbers, t \in Threads : ~In(n, t)
  <2>1. tables = <<Table(InitialHashSize)>> /\ InitialHashSize \in Nat
    BY ProducerHashAssumption DEF Init
  <2>2. Numbers = {1} /\ tables[1] = Table(InitialHashSize) /\ Cap(1) = InitialHashSize
    BY <2>1, TableIs DEF Numbers, Cap
  <2>3. \A s \in Slots(1) : tables[1][s].key = None
    BY <2>1, <2>2, TableIs DEF Slots
  <2> QED BY <2>2, <2>3, ProducerHashAssumption DEF In
<1>3. \A t \in Threads : pc[t] = "idle"
  BY DEF Init
<1>4. Counting = {} /\ \A n \in Numbers, k \in Nat : Filling(n, k) = {}
  BY <1>2, <1>3 DEF Counting, Counts, Filling, Placed, Within, Pending
<1>5. CountOK
  BY <1>4, FS_EmptySet DEF Init, CountOK
<1>6. Room
  BY <1>4, FS_EmptySet DEF Room
<1> QED BY <1>5, <1>6

LEMMA RoomInvariance == Spec => [](IInv /\ CountOK /\ Room)
<1>1. Init => IInv /\ CountOK /\ Room
  BY InitIInv, InitRoom
<1>2. IInv /\ CountOK /\ Room /\ [Next]_vars => (IInv /\ CountOK /\ Room)'
  <2> SUFFICES ASSUME IInv, CountOK, Room, [Next]_vars
               PROVE  IInv' /\ CountOK' /\ Room'
    OBVIOUS
  <2>1. IInv'
    BY NextIInv
  <2>2. ASSUME NEW t \in Threads, Call(t) \/ Step(t)
        PROVE  CountOK' /\ Room'
    BY <2>1, <2>2, NextRoom
  <2>3. ASSUME UNCHANGED vars
        PROVE  CountOK' /\ Room'
    <3>1. /\ UNCHANGED <<tables, pc, mainHash, newCount, implicitProducerHashCount>>
      BY <2>3 DEF vars, shared, locals
    <3>2. /\ Numbers' = Numbers
          /\ \A n : Cap(n)' = Cap(n)
          /\ \A n, u : In(n, u)' <=> In(n, u)
      BY <3>1, SameTables
    <3>3. Counting' = Counting /\ \A n \in Numbers, k \in Nat : Filling(n, k)' = Filling(n, k)
      BY <3>1, <3>2 DEF Counting, Counts, Filling, Placed, Within
    <3> QED BY <3>1, <3>2, <3>3 DEF CountOK, Room, Limit
  <2> QED BY <2>1, <2>2, <2>3 DEF Next
<1> QED BY <1>1, <1>2, PTL DEF Spec

(* The count is that of the threads in the tables and on their way in. *)
THEOREM CountedHolds == Spec => []Counted
<1>1. IInv /\ CountOK => Counted
  <2> SUFFICES ASSUME IInv, CountOK PROVE Counted
    OBVIOUS
  <2>1. DOMAIN tables = Numbers /\ \A n \in Numbers : DOMAIN tables[n] = Slots(n)
    BY DEF IInv, TypeOK, TablesOK, Numbers
  <2>2. Registered = {t \in Threads : \E n \in Numbers : In(n, t)}
    BY <2>1 DEF Registered, In
  <2>3. {t \in Threads : pc[t] \in {"try", "locked", "allocate", "unlock", "fits", "insert"}}
           = {t \in Threads : pc[t] \in Pending \union {"insert"}}
    BY DEF Pending
  <2>4. Registered \union
           {t \in Threads : pc[t] \in {"try", "locked", "allocate", "unlock", "fits", "insert"}}
           = Counting
    BY <2>2, <2>3 DEF Counting, Counts
  <2> QED BY <2>4 DEF CountOK, Counted
<1> QED BY <1>1, RoomInvariance, PTL

(* Every table has an empty slot at which a probe ends: the keys in it are *)
(* fewer than its slots, and none is there twice. *)
THEOREM SlotLeftHolds == Spec => []SlotLeft
<1>1. IInv /\ Room => SlotLeft
  <2> SUFFICES ASSUME IInv, Room PROVE SlotLeft
    OBVIOUS
  <2>1. DOMAIN tables = Numbers /\ \A n \in Numbers : DOMAIN tables[n] = Slots(n)
    BY DEF IInv, TypeOK, TablesOK, Numbers
  <2>2. ASSUME NEW n \in Numbers, \A s \in Slots(n) : tables[n][s].key # None
        PROVE  FALSE
    <3>1. TablesOK /\ Once
      BY DEF IInv, TypeOK
    <3>2. PICK k \in Nat : k = Limit(n) - 1 /\ k < Cap(n) /\ Cap(n) \in Nat
      BY <3>1, LimitIs DEF TablesOK
    <3>3. Cardinality(Filling(n, k)) <= k
      BY <3>2, LimitIs, <3>1 DEF Room
    <3> DEFINE keys == [s \in Slots(n) |-> tables[n][s].key]
    <3>4. \A s \in Slots(n) : tables[n][s].key \in Threads
      BY <2>2, <3>1 DEF TablesOK, Entry
    <3>5. \A s \in Slots(n) : Placed(n, k, tables[n][s].key)
      <4>1. n <= n
        BY DEF Numbers
      <4> QED BY <4>1 DEF Placed, Within, In
    <3>6. keys \in [Slots(n) -> Filling(n, k)]
      BY <3>4, <3>5 DEF Filling
    <3>7. IsFiniteSet(Slots(n)) /\ Cardinality(Slots(n)) = Cap(n)
      <4>1. 0 \in Int /\ Cap(n) - 1 \in Int
        BY <3>2
      <4>2. /\ IsFiniteSet(0..(Cap(n) - 1))
            /\ Cardinality(0..(Cap(n) - 1)) =
                 IF 0 > Cap(n) - 1 THEN 0 ELSE (Cap(n) - 1) - 0 + 1
        BY <4>1, FS_Interval, Zenon
      <4> QED BY <3>2, <4>2 DEF Slots
    <3>8. Cardinality(Filling(n, k)) < Cardinality(Slots(n)) /\ IsFiniteSet(Filling(n, k))
      BY <3>2, <3>3, <3>7, Sizes
    <3>9. \E r, s \in Slots(n) : r # s /\ keys[r] = keys[s]
      <4> HIDE DEF keys
      <4> QED BY <3>6, <3>7, <3>8, FS_PigeonHole
    <3>10. PICK r, s \in Slots(n) : r # s /\ tables[n][r].key = tables[n][s].key
      BY <3>9
    <3> QED BY <2>2, <3>1, <3>10 DEF Once
  <2> QED BY <2>1, <2>2 DEF SlotLeft
<1> QED BY <1>1, RoomInvariance, PTL
===============================================================================
