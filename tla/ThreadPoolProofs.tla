--------------------------- MODULE ThreadPoolProofs ---------------------------
(***************************************************************************)
(* Theorems about ThreadPool, for any number of workers, callers, tokens   *)
(* and tasks and any batch size.                                           *)
(*                                                                         *)
(* First come facts about the operations of the queue in the pool: each    *)
(* keeps it well typed and backed.                                         *)
(***************************************************************************)
EXTENDS ThreadPool, TotalsProofs, SequenceTheorems, TLAPS

(* The threads and the sub-queues are finitely many. *)
LEMMA QueueFinite == IsFiniteSet(Clients) /\ IsFiniteSet(Clients \union Tokens)
<1>1. Workers = 1..Concurrency /\ 1 \in Int /\ Concurrency \in Int
  BY PoolAssumption DEF Workers
<1>2. IsFiniteSet(1..Concurrency)
  BY <1>1, FS_Interval
<1>3. IsFiniteSet(Callers) /\ IsFiniteSet(Tokens)
  BY PoolAssumption
<1>4. IsFiniteSet(Callers \union Workers)
  BY <1>1, <1>2, <1>3, FS_Union
<1>5. IsFiniteSet((Callers \union Workers) \union Tokens)
  BY <1>3, <1>4, FS_Union
<1> QED BY <1>4, <1>5 DEF Clients

(* The queue counts as Totals does. *)
LEMMA QueueTotal ==
    ASSUME NEW f
    PROVE  Queue!Total(f) = Total(f)
BY DEF Queue!Total, Queue!Units, Total, Units, Queue!Cardinality, Cardinality

LEMMA QueueBacked ==
    /\ Queue!Backed <=> Total(Queue!Size) = permits + Total(owed) + Total(unsignalled)
    /\ Queue!Backed' <=> Total(Queue!Size') = permits' + Total(owed') + Total(unsignalled')
BY QueueTotal DEF Queue!Backed

(* What Queue!TypeOK says of the totals. *)
LEMMA TotalsAreNat ==
    ASSUME Queue!TypeOK
    PROVE  /\ Queue!Size \in [(Clients \union Tokens) -> Nat]
           /\ Total(Queue!Size) \in Nat /\ Total(owed) \in Nat /\ Total(unsignalled) \in Nat
<1>1. Queue!Size \in [(Clients \union Tokens) -> Nat]
  BY DEF Queue!TypeOK, Queue!Size
<1>2. Total(Queue!Size) \in Nat
  BY <1>1, QueueFinite, UnitsFinite
<1>3. owed \in [Clients -> Nat] /\ unsignalled \in [Clients -> Nat]
  BY DEF Queue!TypeOK
<1>4. Total(owed) \in Nat /\ Total(unsignalled) \in Nat
  BY <1>3, QueueFinite, UnitsFinite
<1> QED BY <1>1, <1>2, <1>4

(* A change of the items of one producer. *)
LEMMA SizeExcept ==
    ASSUME Queue!TypeOK, NEW p \in (Clients \union Tokens), NEW s \in Seq(Tasks),
           inner' = [inner EXCEPT ![p] = s]
    PROVE  Total(Queue!Size)' = Total(Queue!Size) - Len(inner[p]) + Len(s)
<1>1. Queue!Size \in [(Clients \union Tokens) -> Nat]
  BY DEF Queue!TypeOK, Queue!Size
<1>2. Queue!Size' = [Queue!Size EXCEPT ![p] = Len(s)]
  BY DEF Queue!TypeOK, Queue!Size
<1>3. Queue!Size[p] = Len(inner[p])
  BY DEF Queue!Size
<1>4. Total([Queue!Size EXCEPT ![p] = Len(s)]) = Total(Queue!Size) - Queue!Size[p] + Len(s)
  <2>1. Len(s) \in Nat
    OBVIOUS
  <2> QED BY <1>1, <2>1, QueueFinite, TotalExcept
<1>5. Total(Queue!Size)' = Total([Queue!Size EXCEPT ![p] = Len(s)])
  BY <1>2 DEF Total, Units
<1> QED BY <1>3, <1>4, <1>5

(* No thread has anything, no producer has items. *)
LEMMA Nothing ==
    ASSUME NEW S, IsFiniteSet(S)
    PROVE  Total([x \in S |-> 0]) = 0
<1> DEFINE f == [x \in S |-> 0]
<1>1. f \in [S -> Nat] /\ \A x \in S : f[x] = 0
  OBVIOUS
<1> HIDE DEF f
<1>2. Total(f) = 0
  BY <1>1, TotalZero
<1> QED BY <1>2 DEF f

(* A change of what one thread has. *)
LEMMA ThreadExcept ==
    ASSUME NEW f \in [Clients -> Nat], NEW t \in Clients, NEW n \in Nat
    PROVE  Total([f EXCEPT ![t] = n]) = Total(f) - f[t] + n
BY QueueFinite, TotalExcept

-------------------------------------------------------------------------------
(* Initially there is nothing. *)
LEMMA InitBacked ==
    ASSUME Queue!Init
    PROVE  Queue!TypeOK /\ Queue!Backed
<1>1. Queue!TypeOK
  BY DEF Queue!Init, Queue!TypeOK
<1>2. Total(Queue!Size) = 0
  <2>1. Queue!Size = [p \in (Clients \union Tokens) |-> 0]
    BY DEF Queue!Init, Queue!Size
  <2> QED BY <2>1, QueueFinite, Nothing
<1>3. Total(owed) = 0 /\ Total(unsignalled) = 0
  BY QueueFinite, Nothing DEF Queue!Init
<1> QED BY <1>1, <1>2, <1>3, QueueBacked DEF Queue!Init

(* Tasks that are inserted are owed to the semaphore. *)
LEMMA InsertBacked ==
    ASSUME Queue!TypeOK, Queue!Backed, NEW t \in Clients, NEW p \in (Clients \union Tokens),
           NEW items \in Seq(Tasks), Queue!Insert(t, p, items)
    PROVE  Queue!TypeOK' /\ Queue!Backed'
<1>1. inner[p] \in Seq(Tasks) /\ inner[p] \o items \in Seq(Tasks)
      /\ Len(inner[p]) \in Nat /\ Len(items) \in Nat
      /\ Len(inner[p] \o items) = Len(inner[p]) + Len(items)
  BY DEF Queue!TypeOK
<1>2. Queue!TypeOK'
  BY <1>1 DEF Queue!TypeOK, Queue!Insert
<1>3. Total(Queue!Size)' = Total(Queue!Size) + Len(items)
  <2>1. inner' = [inner EXCEPT ![p] = inner[p] \o items]
    BY DEF Queue!Insert
  <2>2. Total(Queue!Size)' = Total(Queue!Size) - Len(inner[p]) + Len(inner[p] \o items)
    BY <1>1, <2>1, SizeExcept
  <2> QED BY <1>1, <2>2, TotalsAreNat
<1>4. Total(unsignalled') = Total(unsignalled) + Len(items)
  <2>1. unsignalled \in [Clients -> Nat] /\ unsignalled[t] = 0
    BY DEF Queue!TypeOK, Queue!Insert
  <2>2. Total([unsignalled EXCEPT ![t] = Len(items)])
        = Total(unsignalled) - unsignalled[t] + Len(items)
    BY <1>1, <2>1, ThreadExcept
  <2> QED BY <1>1, <2>1, <2>2, TotalsAreNat DEF Queue!Insert
<1>5. permits' = permits /\ owed' = owed /\ permits \in Nat
  BY DEF Queue!Insert, Queue!TypeOK
<1> QED BY <1>1, <1>2, <1>3, <1>4, <1>5, TotalsAreNat, QueueBacked

(* signal() gives the permits that were owed, not one more or less. *)
LEMMA SignalItemsBacked ==
    ASSUME Queue!TypeOK, Queue!Backed, NEW t \in Clients, Queue!SignalItems(t)
    PROVE  Queue!TypeOK' /\ Queue!Backed'
<1>1. unsignalled \in [Clients -> Nat] /\ unsignalled[t] \in Nat /\ permits \in Nat
  BY DEF Queue!TypeOK
<1>2. Queue!TypeOK'
  BY <1>1 DEF Queue!TypeOK, Queue!SignalItems
<1>3. Total(unsignalled') = Total(unsignalled) - unsignalled[t]
  <2>1. Total([unsignalled EXCEPT ![t] = 0]) = Total(unsignalled) - unsignalled[t] + 0
    BY <1>1, ThreadExcept
  <2> QED BY <1>1, <2>1, TotalsAreNat DEF Queue!SignalItems
<1>4. Total(Queue!Size)' = Total(Queue!Size)
  BY DEF Queue!SignalItems, Queue!Size
<1>5. permits' = permits + unsignalled[t] /\ owed' = owed
  BY DEF Queue!SignalItems
<1> QED BY <1>1, <1>2, <1>3, <1>4, <1>5, TotalsAreNat, QueueBacked

(* Asking for permits changes none. *)
LEMMA WaitBacked ==
    ASSUME Queue!TypeOK, Queue!Backed, NEW t \in Clients, Queue!WaitDequeueBulk(t) \/ Queue!TimeOut(t)
    PROVE  Queue!TypeOK' /\ Queue!Backed'
<1>1. Queue!TypeOK'
  <2>1. CASE Queue!WaitDequeueBulk(t)
    <3>1. got' = [got EXCEPT ![t] = <<>>] /\ <<>> \in Seq(Tasks)
      BY <2>1 DEF Queue!WaitDequeueBulk
    <3>2. got' \in [Clients -> Seq(Tasks)]
      BY <3>1 DEF Queue!TypeOK
    <3> QED BY <2>1, <3>2 DEF Queue!TypeOK, Queue!WaitDequeueBulk
  <2>2. CASE Queue!TimeOut(t)
    BY <2>2 DEF Queue!TypeOK, Queue!TimeOut
  <2> QED BY <2>1, <2>2
<1>2. UNCHANGED <<inner, permits, owed, unsignalled>>
  BY DEF Queue!WaitDequeueBulk, Queue!TimeOut
<1> QED BY <1>1, <1>2 DEF Queue!Backed, Queue!Size

(* Permits that are taken are owed items. *)
LEMMA AcquireBacked ==
    ASSUME Queue!TypeOK, Queue!Backed, NEW t \in Clients, NEW max \in Nat,
           owed[t] = 0, Queue!Acquire(t, max)
    PROVE  Queue!TypeOK' /\ Queue!Backed'
<1>1. PICK n \in 1..max : /\ n <= permits
                          /\ permits' = permits - n
                          /\ owed' = [owed EXCEPT ![t] = n]
  BY DEF Queue!Acquire
<1>2. n \in Nat /\ permits \in Nat /\ owed \in [Clients -> Nat]
  BY DEF Queue!TypeOK
<1>3. Queue!TypeOK'
  BY <1>1, <1>2 DEF Queue!TypeOK, Queue!Acquire
<1>4. Total(owed') = Total(owed) + n
  <2>1. Total([owed EXCEPT ![t] = n]) = Total(owed) - owed[t] + n
    BY <1>2, ThreadExcept
  <2> QED BY <1>1, <1>2, <2>1, TotalsAreNat
<1>5. Total(Queue!Size)' = Total(Queue!Size) /\ unsignalled' = unsignalled
  BY DEF Queue!Acquire, Queue!Size
<1> QED BY <1>1, <1>2, <1>3, <1>4, <1>5, TotalsAreNat, QueueBacked

(* Tasks that are fetched pay for the permits that were taken. *)
LEMMA TryDequeueBulkBacked ==
    ASSUME Queue!TypeOK, Queue!Backed, NEW t \in Clients, NEW p \in (Clients \union Tokens), NEW n \in Nat,
           Queue!TryDequeueBulk(t, p, n)
    PROVE  Queue!TypeOK' /\ Queue!Backed'
<1> DEFINE rest == SubSeq(inner[p], n + 1, Len(inner[p]))
<1>1. inner[p] \in Seq(Tasks) /\ Len(inner[p]) \in Nat /\ n <= Len(inner[p])
      /\ owed \in [Clients -> Nat] /\ owed[t] \in Nat /\ n <= owed[t]
  BY DEF Queue!TypeOK, Queue!TryDequeueBulk
<1>2. rest \in Seq(Tasks) /\ Len(rest) = Len(inner[p]) - n
  BY <1>1
<1>3. SubSeq(inner[p], 1, n) \in Seq(Tasks)
  BY <1>1
<1>4. inner' = [inner EXCEPT ![p] = rest]
  BY DEF Queue!TryDequeueBulk
<1> HIDE DEF rest
<1>5. Queue!TypeOK'
  <2>1. inner' \in [(Clients \union Tokens) -> Seq(Tasks)]
    BY <1>2, <1>4 DEF Queue!TypeOK
  <2>2. owed' \in [Clients -> Nat]
    BY <1>1 DEF Queue!TryDequeueBulk
  <2>3. got' \in [Clients -> Seq(Tasks)]
    BY <1>3 DEF Queue!TypeOK, Queue!TryDequeueBulk
  <2> QED BY <2>1, <2>2, <2>3 DEF Queue!TypeOK, Queue!TryDequeueBulk
<1>6. Total(Queue!Size)' = Total(Queue!Size) - n
  <2>1. Total(Queue!Size)' = Total(Queue!Size) - Len(inner[p]) + Len(rest)
    BY <1>2, <1>4, SizeExcept
  <2> QED BY <1>1, <1>2, <2>1, TotalsAreNat
<1>7. Total(owed') = Total(owed) - n
  <2>1. owed[t] - n \in Nat
    BY <1>1
  <2>2. Total([owed EXCEPT ![t] = owed[t] - n]) = Total(owed) - owed[t] + (owed[t] - n)
    BY <1>1, <2>1, ThreadExcept
  <2>3. owed' = [owed EXCEPT ![t] = owed[t] - n]
    BY DEF Queue!TryDequeueBulk
  <2> QED BY <1>1, <2>2, <2>3, TotalsAreNat
<1>8. permits' = permits /\ unsignalled' = unsignalled /\ permits \in Nat
  BY DEF Queue!TryDequeueBulk, Queue!TypeOK
<1> QED BY <1>5, <1>6, <1>7, <1>8, TotalsAreNat, QueueBacked

(* Nothing is left if no call is in progress when the queue is destroyed. *)
LEMMA DestroyBacked ==
    ASSUME Queue!TypeOK, Queue!Destroy,
           owed = [t \in Clients |-> 0], unsignalled = [t \in Clients |-> 0]
    PROVE  Queue!TypeOK' /\ Queue!Backed'
<1>1. Queue!TypeOK'
  BY DEF Queue!TypeOK, Queue!Destroy
<1>2. Total(Queue!Size)' = 0
  <2>1. Queue!Size' = [p \in (Clients \union Tokens) |-> 0]
    BY DEF Queue!Destroy, Queue!Size
  <2>2. Total([p \in (Clients \union Tokens) |-> 0]) = 0
    BY QueueFinite, Nothing
  <2> QED BY <2>1, <2>2 DEF Total, Units
<1>3. Total(owed) = 0 /\ Total(unsignalled) = 0
  BY QueueFinite, Nothing
<1>4. permits' = 0 /\ owed' = owed /\ unsignalled' = unsignalled
  BY DEF Queue!Destroy
<1> QED BY <1>1, <1>2, <1>3, <1>4, QueueBacked

(* A step that leaves the queue alone. *)
LEMMA UnchangedBacked ==
    ASSUME Queue!TypeOK, Queue!Backed, UNCHANGED Queue!vars
    PROVE  Queue!TypeOK' /\ Queue!Backed'
BY DEF Queue!TypeOK, Queue!Backed, Queue!vars, Queue!Size
-------------------------------------------------------------------------------
(* Initially no thread owes anything. *)
LEMMA InitInv == Init => IInv
<1> SUFFICES ASSUME Init PROVE IInv
  OBVIOUS
<1>1. Queue!TypeOK /\ Queue!Backed
  BY InitBacked DEF Init
<1>2. TypeOK
  <2>1. joined \in 0..Concurrency /\ last \in 0..MaxTasks
    BY PoolAssumption DEF Init
  <2>2. i \in [Workers -> Nat]
    BY DEF Init
  <2>3. outcome \in [Tasks -> {"none", "returned", "threw", "rejected", "dropped"}]
    BY DEF Init
  <2> QED BY <1>1, <2>1, <2>2, <2>3 DEF Init, TypeOK, PoolTypeOK
<1>3. Locals
  BY PoolAssumption DEF Init, Queue!Init, Locals, LocalsOf, Clients, Workers
<1> QED BY <1>1, <1>2, <1>3 DEF IInv, Backed

(* The queue in the pool keeps its invariants in every step. *)
LEMMA QueueStep ==
    ASSUME IInv, Next
    PROVE  Queue!TypeOK' /\ Queue!Backed'
<1>0. Queue!TypeOK /\ Queue!Backed /\ Locals /\ TypeOK
  BY DEF IInv, TypeOK, Backed
<1>1. ASSUME queueVars' = queueVars
      PROVE  Queue!TypeOK' /\ Queue!Backed'
  BY <1>0, <1>1, UnchangedBacked DEF queueVars, Queue!vars
<1>2. ASSUME NEW c \in Clients, NEW n \in Nat, Enqueue(c, n)
      PROVE  Queue!TypeOK' /\ Queue!Backed'
  <2> DEFINE tasks == [k \in 1..n |-> last + k]
  <2>1. tasks \in Seq(Tasks)
    <3>1. last + n <= MaxTasks /\ last \in Nat /\ MaxTasks \in Nat
      BY <1>0, <1>2, PoolAssumption DEF Enqueue, TypeOK, PoolTypeOK
    <3>2. \A k \in 1..n : last + k \in 1..MaxTasks
      BY <3>1
    <3> QED BY <3>2 DEF Tasks
  <2>2. CASE \E p \in {c} \union Tokens : Queue!Insert(c, p, tasks)
    <3>1. PICK p \in Clients \union Tokens : Queue!Insert(c, p, tasks)
      BY <2>2
    <3> HIDE DEF tasks
    <3> QED BY <1>0, <2>1, <3>1, InsertBacked
  <2>3. CASE UNCHANGED queueVars
    BY <1>1, <2>3
  <2> QED BY <1>2, <2>2, <2>3 DEF Enqueue
<1>3. ASSUME NEW w \in Workers, Worker(w)
      PROVE  Queue!TypeOK' /\ Queue!Backed'
  <2>0. w \in Clients
    BY DEF Clients
  <2>1. CASE Check(w)
    BY <1>0, <1>1, <2>0, <2>1, WaitBacked DEF Check
  <2>2. CASE Claim(w)
    <3>1. owed[w] = 0
      <4>1. owed[w] \in Nat /\ ~(owed[w] > 0)
        BY <1>0, <2>0, <2>2 DEF Locals, LocalsOf, Claim, Queue!TypeOK
      <4> QED BY <4>1
    <3>2. BulkMax \in Nat
      BY PoolAssumption
    <3> QED BY <1>0, <2>0, <2>2, <3>1, <3>2, AcquireBacked DEF Claim
  <2>3. CASE TimeOut(w)
    BY <1>0, <2>0, <2>3, WaitBacked DEF TimeOut
  <2>4. CASE Fill(w)
    <3>1. PICK p \in Clients \union Tokens, n \in 1..owed[w] : Queue!TryDequeueBulk(w, p, n)
      BY <2>4 DEF Fill
    <3>2. n \in Nat
      OBVIOUS
    <3> QED BY <1>0, <2>0, <3>1, <3>2, TryDequeueBulkBacked
  <2>5. CASE StartTask(w) \/ TaskEnds(w)
    BY <1>1, <2>5 DEF StartTask, TaskEnds, TaskReturns, TaskThrows
  <2> QED BY <1>3, <2>1, <2>2, <2>3, <2>4, <2>5 DEF Worker
<1>4. ASSUME DestroyQueue
      PROVE  Queue!TypeOK' /\ Queue!Backed'
  <2>1. \A c \in Clients : owed[c] = 0 /\ unsignalled[c] = 0
    <3>1. \A w \in Workers : pc[w] = "exited"
      BY <1>0, <1>4 DEF DestroyQueue, Locals, Workers
    <3>2. \A w \in Workers : ~(owed[w] > 0) /\ ~(unsignalled[w] > 0)
      BY <1>0, <3>1 DEF Locals, LocalsOf
    <3>3. \A c \in Clients : owed[c] \in Nat /\ unsignalled[c] \in Nat
      BY <1>0 DEF Queue!TypeOK
    <3>4. \A w \in Workers : owed[w] = 0 /\ unsignalled[w] = 0
      BY <3>2, <3>3 DEF Clients
    <3>5. \A c \in Callers : owed[c] = 0 /\ unsignalled[c] = 0
      BY <1>0, <1>4 DEF DestroyQueue, Locals
    <3> QED BY <3>4, <3>5 DEF Clients
  <2>2. owed = [c \in Clients |-> 0] /\ unsignalled = [c \in Clients |-> 0]
    BY <1>0, <2>1 DEF Queue!TypeOK
  <2> QED BY <1>0, <1>4, <2>2, DestroyBacked DEF DestroyQueue
<1>5. ASSUME NEW c \in Clients, Client(c) \/ Signal(c)
      PROVE  Queue!TypeOK' /\ Queue!Backed'
  <2>1. CASE Schedule(c)
    BY <1>2, <2>1 DEF Schedule
  <2>2. CASE ScheduleAndForget(c)
    BY <1>2, <2>2 DEF ScheduleAndForget
  <2>3. CASE ScheduleBulk(c)
    BY <1>2, <2>3, PoolAssumption DEF ScheduleBulk
  <2>4. CASE Stop(c)
    BY <1>1, <2>4 DEF Stop
  <2>5. CASE Signal(c)
    BY <1>0, <2>5, SignalItemsBacked DEF Signal
  <2> QED BY <1>5, <2>1, <2>2, <2>3, <2>4, <2>5 DEF Client
<1>6. CASE (\E w \in Workers : SpawnWorker(w)) \/ SpawnThrows \/ JoinNext \/ Await \/ Destruct
  BY <1>1, <1>6 DEF SpawnWorker, SpawnThrows, JoinNext, Await, Destruct
<1> QED BY <1>3, <1>4, <1>5, <1>6 DEF Next, Owner

(* The pool keeps its types in every step. *)
LEMMA TypeStep ==
    ASSUME IInv, Next
    PROVE  TypeOK'
<1> SUFFICES PoolTypeOK'
  BY QueueStep DEF TypeOK
<1>0. PoolTypeOK
  BY DEF IInv, TypeOK
<1>1. ASSUME NEW c \in Clients, NEW n \in Nat \ {0}, Enqueue(c, n),
             packaged' \in {packaged, packaged \union {last + 1}}
      PROVE  PoolTypeOK'
  <2>1. last + n \in 0..MaxTasks /\ last + 1 \in Tasks
    BY <1>0, <1>1, PoolAssumption DEF PoolTypeOK, Enqueue, Tasks
  <2>2. outcome' \in [Tasks -> {"none", "returned", "threw", "rejected", "dropped"}]
    BY <1>0, <1>1 DEF PoolTypeOK, Enqueue
  <2> QED BY <1>0, <1>1, <2>1, <2>2 DEF PoolTypeOK, Enqueue
<1>2. ASSUME NEW w \in Workers, NEW result \in {"returned", "threw"}, EndTask(w, result)
      PROVE  /\ pc' \in [Workers -> {"unborn", "check", "waiting", "filling",
                                      "looping", "running", "exited"}]
             /\ i' \in [Workers -> Nat]
             /\ outcome' \in [Tasks -> {"none", "returned", "threw",
                                         "rejected", "dropped"}]
  <2>1. outcome' \in [Tasks -> {"none", "returned", "threw", "rejected", "dropped"}]
    BY <1>0, <1>2 DEF PoolTypeOK, EndTask
  <2>2. i' \in [Workers -> Nat]
    BY <1>0, <1>2 DEF PoolTypeOK, EndTask
  <2>3. pc' \in [Workers -> {"unborn", "check", "waiting", "filling",
                              "looping", "running", "exited"}]
    BY <1>0, <1>2 DEF PoolTypeOK, EndTask
  <2> QED BY <2>1, <2>2, <2>3
<1>3. CASE \E c \in Clients : Client(c) \/ Signal(c)
  <2>1. PICK c \in Clients : Client(c) \/ Signal(c)
    BY <1>3
  <2>2. CASE Schedule(c)
    BY <1>1, <2>2 DEF Schedule
  <2>3. CASE ScheduleAndForget(c)
    BY <1>1, <2>3 DEF ScheduleAndForget
  <2>4. CASE ScheduleBulk(c)
    <3>1. PICK n \in 1..MaxBulk : Enqueue(c, n) /\ UNCHANGED packaged
      BY <2>4 DEF ScheduleBulk
    <3>2. n \in Nat \ {0}
      BY PoolAssumption
    <3> QED BY <1>1, <3>1, <3>2
  <2>5. CASE Stop(c)
    BY <1>0, <2>5 DEF PoolTypeOK, Stop
  <2>6. CASE Signal(c)
    BY <1>0, <2>6 DEF PoolTypeOK, Signal, poolVars
  <2> QED BY <2>1, <2>2, <2>3, <2>4, <2>5, <2>6 DEF Client
<1>4. CASE \E w \in Workers : Worker(w)
  <2>1. PICK w \in Workers : Worker(w)
    BY <1>4
  <2>2. CASE Check(w)
    BY <1>0, <2>2 DEF PoolTypeOK, Check
  <2>3. CASE Claim(w)
    BY <1>0, <2>3 DEF PoolTypeOK, Claim
  <2>4. CASE TimeOut(w)
    BY <1>0, <2>4 DEF PoolTypeOK, TimeOut
  <2>5. CASE Fill(w)
    BY <1>0, <2>5 DEF PoolTypeOK, Fill
  <2>6. CASE StartTask(w)
    BY <1>0, <2>6 DEF PoolTypeOK, StartTask
  <2>7. CASE TaskReturns(w)
    BY <1>0, <1>2, <2>7 DEF PoolTypeOK, TaskReturns
  <2>8. CASE TaskThrows(w)
    <3>1. CASE got[w][i[w]] \in packaged
      BY <1>0, <1>2, <2>8, <3>1 DEF PoolTypeOK, TaskThrows
    <3>2. CASE got[w][i[w]] \notin packaged
      BY <1>0, <2>8, <3>2 DEF PoolTypeOK, TaskThrows
    <3> QED BY <3>1, <3>2
  <2> QED BY <2>1, <2>2, <2>3, <2>4, <2>5, <2>6, <2>7, <2>8 DEF Worker, TaskEnds
<1>5. CASE (\E w \in Workers : SpawnWorker(w)) \/ SpawnThrows \/ Await \/ Destruct
  BY <1>0, <1>5 DEF PoolTypeOK, SpawnWorker, SpawnThrows, Await, Destruct
<1>6. CASE JoinNext
  <2>1. joined' \in 0..Concurrency
    BY <1>0, <1>6, PoolAssumption DEF PoolTypeOK, JoinNext
  <2> QED BY <1>0, <1>6, <2>1 DEF PoolTypeOK, JoinNext
<1>7. CASE DestroyQueue
  <2>1. outcome' \in [Tasks -> {"none", "returned", "threw", "rejected", "dropped"}]
    BY <1>0, <1>7 DEF PoolTypeOK, DestroyQueue
  <2> QED BY <1>0, <1>7, <2>1 DEF PoolTypeOK, DestroyQueue
<1> QED BY <1>3, <1>4, <1>5, <1>6, <1>7 DEF Next, Owner

(* Locals hold after a step of one worker that leaves the owner alone. *)
LEMMA WorkerLocals ==
    ASSUME IInv, NEW w \in Workers, pc[w] # "exited",
           UNCHANGED <<lifecycle, joined>>,
           LocalsOf(w)',
           \A v \in Clients \ {w} : owed'[v] = owed[v],
           \A v \in Clients \ {w} : unsignalled'[v] = unsignalled[v],
           \A v \in Clients \ {w} : v \in waiters' <=> v \in waiters,
           \A v \in Workers \ {w} : pc'[v] = pc[v]
    PROVE  Locals'
<1>1. ASSUME NEW v \in Workers
      PROVE  LocalsOf(v)'
  <2>1. CASE v = w
    BY <2>1
  <2>2. CASE v # w
    BY <2>2 DEF IInv, Locals, LocalsOf, Clients
  <2> QED BY <2>1, <2>2
<1>2. \A v \in 1..joined' : pc'[v] = "exited"
  <2>1. \A v \in 1..joined : v \in Workers
    BY PoolAssumption DEF IInv, TypeOK, PoolTypeOK, Workers
  <2> QED BY <2>1 DEF IInv, Locals
<1>3. \A c \in Callers : owed'[c] = owed[c] /\ unsignalled'[c] = unsignalled[c]
  BY NamesAssumption DEF Clients
<1> QED BY <1>1, <1>2, <1>3 DEF IInv, Locals

(* Locals hold after a step that leaves the workers and the queue's        *)
(* debts alone.                                                            *)
LEMMA OtherLocals ==
    ASSUME IInv, UNCHANGED <<pc, owed, unsignalled, waiters, joined>>,
           lifecycle' \in {"destructing", "destroyed"} =>
              \A c \in Callers : unsignalled[c] = 0
    PROVE  Locals'
BY DEF IInv, Locals, LocalsOf

(* What the threads owe, step by step. *)
LEMMA LocalsStep ==
    ASSUME IInv, Next
    PROVE  Locals'
<1>0. /\ Locals /\ PoolTypeOK /\ Queue!TypeOK
      /\ \A w \in Workers : w \in Clients
      /\ \A c \in Callers : c \in Clients /\ c \notin Workers
  BY NamesAssumption DEF IInv, TypeOK, Clients
<1>1. ASSUME NEW c \in Clients, MayCall(c),
             UNCHANGED <<pc, owed, waiters, joined, lifecycle>>,
             \A v \in Clients \ {c} : unsignalled'[v] = unsignalled[v]
      PROVE  Locals'
  <2>1. ASSUME NEW v \in Workers
        PROVE  LocalsOf(v)'
    <3>1. CASE v = c
      BY <1>0, <1>1, <3>1 DEF MayCall, Locals, LocalsOf
    <3>2. CASE v # c
      BY <1>0, <1>1, <3>2 DEF Locals, LocalsOf
    <3> QED BY <3>1, <3>2
  <2>2. lifecycle \in {"destructing", "destroyed"} =>
           \A b \in Callers : unsignalled'[b] = 0
    <3>1. SUFFICES ASSUME lifecycle \in {"destructing", "destroyed"}, NEW b \in Callers
                   PROVE  unsignalled'[b] = 0
      OBVIOUS
    <3>2. c \notin Callers
      BY <1>0, <1>1, <3>1 DEF MayCall
    <3>3. unsignalled[b] = 0 /\ unsignalled'[b] = unsignalled[b]
      BY <1>0, <1>1, <3>1, <3>2 DEF Locals
    <3> QED BY <3>3
  <2> QED BY <1>0, <1>1, <2>1, <2>2 DEF Locals
<1>2. CASE \E c \in Clients : Client(c) \/ Signal(c)
  <2>1. PICK c \in Clients : Client(c) \/ Signal(c)
    BY <1>2
  <2>2. ASSUME NEW n \in Nat, Enqueue(c, n)
        PROVE  Locals'
    <3>1. \A v \in Clients \ {c} : unsignalled'[v] = unsignalled[v]
      BY <1>0, <2>2 DEF Enqueue, Queue!Insert, queueVars, Queue!TypeOK
    <3>2. UNCHANGED <<pc, owed, waiters, joined, lifecycle>>
      BY <2>2 DEF Enqueue, Queue!Insert, queueVars
    <3> QED BY <1>1, <2>2, <3>1, <3>2 DEF Enqueue
  <2>3. CASE Schedule(c) \/ ScheduleAndForget(c)
    BY <2>2, <2>3 DEF Schedule, ScheduleAndForget
  <2>4. CASE ScheduleBulk(c)
    <3>1. PICK n \in 1..MaxBulk : Enqueue(c, n)
      BY <2>4 DEF ScheduleBulk
    <3>2. n \in Nat
      BY PoolAssumption
    <3> QED BY <2>2, <3>1, <3>2
  <2>5. CASE Stop(c)
    BY <1>1, <2>5 DEF Stop, queueVars
  <2>6. CASE Signal(c)
    <3>1. /\ \A v \in Clients \ {c} : unsignalled'[v] = unsignalled[v]
          /\ unsignalled'[c] = 0
          /\ UNCHANGED <<pc, owed, waiters, joined, lifecycle>>
      BY <1>0, <2>6 DEF Signal, Queue!SignalItems, poolVars, Queue!TypeOK
    <3>2. ASSUME NEW v \in Workers
          PROVE  LocalsOf(v)'
      <4>1. CASE v = c
        BY <1>0, <3>1, <4>1 DEF Locals, LocalsOf
      <4>2. CASE v # c
        BY <1>0, <3>1, <4>2 DEF Locals, LocalsOf
      <4> QED BY <4>1, <4>2
    <3>3. \A b \in Callers : unsignalled[b] = 0 => unsignalled'[b] = 0
      BY <1>0, <3>1
    <3> QED BY <1>0, <3>1, <3>2, <3>3 DEF Locals
  <2> QED BY <2>1, <2>3, <2>4, <2>5, <2>6 DEF Client
<1>3. CASE \E w \in Workers : Worker(w)
  <2>1. PICK w \in Workers : Worker(w)
    BY <1>3
  <2>2. LocalsOf(w) /\ w \in Clients
        /\ owed[w] \in Nat /\ unsignalled[w] \in Nat
    BY <1>0 DEF Locals, Queue!TypeOK
  <2>3. CASE Check(w)
    <3>1. CASE done
      <4>1. UNCHANGED queueVars /\ pc' = [pc EXCEPT ![w] = "exited"]
            /\ pc[w] = "check" /\ UNCHANGED <<lifecycle, joined>>
        BY <2>3, <3>1 DEF Check
      <4>2. LocalsOf(w)'
        BY <1>0, <2>2, <4>1 DEF LocalsOf, queueVars, PoolTypeOK
      <4> QED BY <1>0, <4>1, <4>2, WorkerLocals DEF queueVars, PoolTypeOK
    <3>2. CASE ~done
      <4>1. Queue!WaitDequeueBulk(w) /\ pc' = [pc EXCEPT ![w] = "waiting"]
            /\ pc[w] = "check" /\ UNCHANGED <<lifecycle, joined>>
        BY <2>3, <3>2 DEF Check
      <4>2. LocalsOf(w)'
        BY <1>0, <2>2, <4>1 DEF LocalsOf, Queue!WaitDequeueBulk, PoolTypeOK
      <4>3. /\ \A v \in Clients \ {w} : owed'[v] = owed[v]
            /\ \A v \in Clients \ {w} : unsignalled'[v] = unsignalled[v]
            /\ \A v \in Clients \ {w} : v \in waiters' <=> v \in waiters
        BY <4>1 DEF Queue!WaitDequeueBulk
      <4>4. \A v \in Workers \ {w} : pc'[v] = pc[v]
        BY <1>0, <4>1 DEF PoolTypeOK
      <4>5. pc[w] # "exited" /\ UNCHANGED <<lifecycle, joined>>
        BY <4>1
      <4> QED BY <4>2, <4>3, <4>4, <4>5, WorkerLocals
    <3> QED BY <3>1, <3>2
  <2>4. CASE Claim(w)
    <3>1. PICK n \in 1..BulkMax : owed' = [owed EXCEPT ![w] = n]
      BY <2>4 DEF Claim, Queue!Acquire
    <3>2. owed'[w] > 0
      <4>1. owed'[w] = n /\ BulkMax \in Nat
        BY <1>0, <2>2, <3>1, PoolAssumption DEF Queue!TypeOK
      <4> QED BY <4>1
    <3>3. /\ pc' = [pc EXCEPT ![w] = "filling"] /\ pc[w] = "waiting"
          /\ UNCHANGED <<lifecycle, joined, unsignalled>>
          /\ waiters' = waiters \ {w}
      BY <2>4 DEF Claim, Queue!Acquire
    <3>4. LocalsOf(w)'
      BY <1>0, <2>2, <3>2, <3>3 DEF LocalsOf, PoolTypeOK
    <3>5. /\ \A v \in Clients \ {w} : owed'[v] = owed[v]
          /\ \A v \in Clients \ {w} : unsignalled'[v] = unsignalled[v]
          /\ \A v \in Clients \ {w} : v \in waiters' <=> v \in waiters
      BY <1>0, <3>1, <3>3 DEF Queue!TypeOK
    <3>6. \A v \in Workers \ {w} : pc'[v] = pc[v]
      BY <1>0, <3>3 DEF PoolTypeOK
    <3>7. pc[w] # "exited" /\ UNCHANGED <<lifecycle, joined>>
      BY <3>3
    <3> QED BY <3>4, <3>5, <3>6, <3>7, WorkerLocals
  <2>5. CASE TimeOut(w)
    <3>1. /\ pc' = [pc EXCEPT ![w] = "check"] /\ pc[w] = "waiting"
          /\ UNCHANGED <<lifecycle, joined, unsignalled, owed>>
          /\ waiters' = waiters \ {w}
      BY <2>5 DEF TimeOut, Queue!TimeOut
    <3>2. LocalsOf(w)'
      BY <1>0, <2>2, <3>1 DEF LocalsOf, PoolTypeOK
    <3> QED BY <1>0, <3>1, <3>2, WorkerLocals DEF PoolTypeOK
  <2>6. CASE Fill(w)
    <3>1. PICK n \in 1..owed[w] :
             /\ owed' = [owed EXCEPT ![w] = @ - n]
             /\ pc' = [pc EXCEPT ![w] = IF n = owed[w] THEN "looping" ELSE @]
      BY <2>6 DEF Fill, Queue!TryDequeueBulk
    <3>2. /\ pc[w] = "filling"
          /\ UNCHANGED <<lifecycle, joined, unsignalled, waiters>>
      BY <2>6 DEF Fill, Queue!TryDequeueBulk
    <3>3. owed'[w] = owed[w] - n /\ owed[w] \in Nat /\ n <= owed[w]
      BY <1>0, <2>2, <3>1 DEF Queue!TypeOK
    <3>4. pc'[w] = IF n = owed[w] THEN "looping" ELSE "filling"
      BY <1>0, <3>1, <3>2 DEF PoolTypeOK
    <3>5. LocalsOf(w)'
      <4>1. pc'[w] = "filling" <=> owed'[w] > 0
        BY <3>3, <3>4
      <4> QED BY <2>2, <3>2, <3>4, <4>1 DEF LocalsOf
    <3>6. \A v \in Clients \ {w} : owed'[v] = owed[v]
      BY <1>0, <3>1 DEF Queue!TypeOK
    <3>7. \A v \in Workers \ {w} : pc'[v] = pc[v]
      BY <1>0, <3>1 DEF PoolTypeOK
    <3> QED BY <3>2, <3>5, <3>6, <3>7, WorkerLocals
  <2>7. ASSUME pc[w] \in {"looping", "running"},
               pc'[w] \in {"looping", "running", "check"},
               \A v \in Workers \ {w} : pc'[v] = pc[v],
               pc'[w] = "running" \/ unsignalled[w] = 0,
               UNCHANGED <<lifecycle, joined, owed, unsignalled, waiters>>
        PROVE  Locals'
    <3>1. LocalsOf(w)'
      BY <2>2, <2>7 DEF LocalsOf
    <3> QED BY <2>7, <3>1, WorkerLocals
  <2>8. CASE StartTask(w)
    BY <1>0, <2>7, <2>8 DEF StartTask, queueVars, PoolTypeOK
  <2>9. CASE TaskEnds(w)
    <3>1. /\ pc[w] = "running" /\ unsignalled[w] = 0
          /\ UNCHANGED <<lifecycle, joined, owed, unsignalled, waiters>>
          /\ (\E result \in {"returned", "threw"} : EndTask(w, result)) \/ UNCHANGED pc
      BY <2>9 DEF TaskEnds, TaskReturns, TaskThrows, queueVars
    <3>2. CASE \E result \in {"returned", "threw"} : EndTask(w, result)
      <4>1. pc' = [pc EXCEPT ![w] = IF i[w] < Len(got[w]) THEN "looping" ELSE "check"]
        BY <3>2 DEF EndTask
      <4>2. pc'[w] \in {"looping", "check"} /\ \A v \in Workers \ {w} : pc'[v] = pc[v]
        BY <1>0, <4>1 DEF PoolTypeOK
      <4> QED BY <2>7, <3>1, <4>2
    <3>3. CASE UNCHANGED pc
      BY <2>7, <3>1, <3>3
    <3> QED BY <3>1, <3>2, <3>3
  <2> QED BY <2>1, <2>3, <2>4, <2>5, <2>6, <2>8, <2>9 DEF Worker
<1>4. CASE \E w \in Workers : SpawnWorker(w)
  <2>1. PICK w \in Workers : SpawnWorker(w)
    BY <1>4
  <2>2. /\ pc' = [pc EXCEPT ![w] = "check"] /\ pc[w] = "unborn"
        /\ UNCHANGED <<joined, owed, unsignalled, waiters>>
        /\ lifecycle' \notin {"destructing", "destroyed"}
    BY <2>1 DEF SpawnWorker, queueVars
  <2>3. ASSUME NEW v \in Workers
        PROVE  LocalsOf(v)'
    BY <1>0, <2>2 DEF Locals, LocalsOf, PoolTypeOK
  <2>4. \A v \in 1..joined : pc'[v] = "exited"
    BY <1>0, <2>2, PoolAssumption DEF Locals, PoolTypeOK, Workers
  <2> QED BY <1>0, <2>2, <2>3, <2>4 DEF Locals
<1>5. CASE SpawnThrows
  BY <1>5, OtherLocals DEF SpawnThrows, queueVars
<1>6. CASE Await
  BY <1>6, OtherLocals DEF Await, queueVars
<1>7. CASE Destruct
  BY <1>7, OtherLocals DEF Destruct, queueVars
<1>8. CASE DestroyQueue
  BY <1>0, <1>8, OtherLocals DEF DestroyQueue, Queue!Destroy, Locals
<1>9. CASE JoinNext
  <2>1. /\ UNCHANGED <<pc, owed, unsignalled, waiters>>
        /\ joined' = joined + 1 /\ pc[joined + 1] = "exited"
        /\ lifecycle' = lifecycle \/ lifecycle' = "open"
    BY <1>9 DEF JoinNext, queueVars
  <2>2. \A v \in 1..joined' : pc'[v] = "exited"
    <3>1. joined \in Nat
      BY <1>0, PoolAssumption DEF PoolTypeOK
    <3>2. \A v \in 1..(joined + 1) : v \in 1..joined \/ v = joined + 1
      BY <3>1
    <3> QED BY <1>0, <2>1, <3>2 DEF Locals
  <2>3. \A v \in Workers : LocalsOf(v)'
    BY <1>0, <2>1 DEF Locals, LocalsOf
  <2> QED BY <1>0, <2>1, <2>2, <2>3 DEF Locals
<1> QED BY <1>2, <1>3, <1>4, <1>5, <1>6, <1>7, <1>8, <1>9 DEF Next, Owner

-------------------------------------------------------------------------------
(* IInv is an inductive invariant of the pool. *)
THEOREM Invariance == Spec => []IInv
<1>1. IInv /\ [Next]_vars => IInv'
  <2> SUFFICES ASSUME IInv, [Next]_vars PROVE IInv'
    OBVIOUS
  <2>1. CASE Next
    BY <2>1, QueueStep, TypeStep, LocalsStep DEF IInv, Backed
  <2>2. CASE UNCHANGED vars
    <3>1. UNCHANGED poolVars /\ UNCHANGED queueVars
      BY <2>2 DEF vars
    <3>2. Queue!TypeOK' /\ Queue!Backed'
      BY <3>1, UnchangedBacked DEF IInv, TypeOK, Backed, queueVars, Queue!vars
    <3>3. PoolTypeOK'
      BY <3>1 DEF IInv, TypeOK, PoolTypeOK, poolVars
    <3>4. Locals'
      BY <3>1 DEF IInv, Locals, LocalsOf, poolVars, queueVars
    <3> QED BY <3>2, <3>3, <3>4 DEF IInv, TypeOK, Backed
  <2> QED BY <2>1, <2>2
<1> QED BY <1>1, InitInv, PTL DEF Spec

(* Type correctness of the pool and of its queue. *)
THEOREM TypeCorrect == Spec => []TypeOK
<1>1. IInv => TypeOK
  BY DEF IInv
<1> QED BY <1>1, Invariance, PTL

(* Tasks and permits never part: the loop in wait_dequeue_bulk_timed always *)
(* has tasks to find, and no task is left in the queue without a permit.   *)
THEOREM TasksAreBacked == Spec => []Backed
<1>1. IInv => Backed
  BY DEF IInv
<1> QED BY <1>1, Invariance, PTL

(* Once await() has joined every worker no task runs or will be run. *)
THEOREM AwaitedPoolIsQuiet == Spec => []AwaitedIsQuiet
<1>1. IInv => AwaitedIsQuiet
  <2> SUFFICES ASSUME IInv, Concurrency > 0, joined = Concurrency, NEW t \in Tasks
               PROVE  State(t) \notin {"claimed", "running"}
    BY DEF AwaitedIsQuiet
  <2>1. \A w \in Workers : pc[w] = "exited"
    BY DEF IInv, Locals, Workers
  <2>2. \A w \in Workers : ~Running(w, t) /\ ~InBatch(w, t)
    BY <2>1 DEF Running, InBatch
  <2>3. outcome[t] \notin {"claimed", "running"}
    BY DEF IInv, TypeOK, PoolTypeOK
  <2> QED BY <2>2, <2>3 DEF State
<1> QED BY <1>1, Invariance, PTL

(* A stopped pool's worker at most finishes its batch. *)
THEOREM StopIsPrompt == Spec => StopEndsAfterBatch
<1>1. ASSUME NEW w \in Workers
      PROVE  Spec => []((done /\ pc[w] = "running")
                        => [](pc[w] \in {"running", "looping", "check", "exited"}))
  <2> DEFINE Ending == done /\ pc[w] \in {"running", "looping", "check", "exited"}
  <2>1. IInv /\ Ending /\ [Next]_vars => Ending'
    <3> SUFFICES ASSUME IInv, Ending, [Next]_vars PROVE Ending'
      OBVIOUS
    <3>1. w \in Workers /\ pc \in [Workers -> {"unborn", "check", "waiting", "filling",
                                                "looping", "running", "exited"}]
      BY DEF IInv, TypeOK, PoolTypeOK
    <3>2. CASE \E c \in Clients : Client(c) \/ Signal(c)
      BY <3>2 DEF Client, Schedule, ScheduleAndForget, ScheduleBulk, Enqueue, Stop,
                  Signal, poolVars
    <3>3. ASSUME NEW v \in Workers, Worker(v)
          PROVE  Ending'
      <4>1. CASE v = w
        BY <3>1, <3>3, <4>1 DEF Worker, Check, Claim, TimeOut, Fill, StartTask,
                                TaskEnds, TaskReturns, TaskThrows, EndTask
      <4>2. CASE v # w
        BY <3>1, <3>3, <4>2 DEF Worker, Check, Claim, TimeOut, Fill, StartTask,
                                TaskEnds, TaskReturns, TaskThrows, EndTask
      <4> QED BY <4>1, <4>2
    <3>4. CASE Owner \/ Await \/ Destruct
      BY <3>1, <3>4 DEF Owner, SpawnWorker, SpawnThrows, JoinNext, DestroyQueue, Await,
                        Destruct
    <3>5. CASE UNCHANGED vars
      BY <3>5 DEF vars, poolVars
    <3> QED BY <3>2, <3>3, <3>4, <3>5 DEF Next
  <2>2. done /\ pc[w] = "running" => Ending
    OBVIOUS
  <2>3. Ending => pc[w] \in {"running", "looping", "check", "exited"}
    OBVIOUS
  <2> HIDE DEF Ending
  <2> QED BY <2>1, <2>2, <2>3, Invariance, PTL DEF Spec
<1> QED BY <1>1 DEF StopEndsAfterBatch

-------------------------------------------------------------------------------
(* Where tasks are: task t is the k-th of sub-queue p, or the k-th of the  *)
(* batch of worker w, which has not ended it yet. *)
Producers == Clients \union Tokens

QueuedAt(p, k, t) == k \in 1..Len(inner[p]) /\ inner[p][k] = t

AtWork == {"filling", "looping", "running"}

BatchedAt(w, k, t) == pc[w] \in AtWork /\ k \in i[w]..Len(got[w]) /\ got[w][k] = t

(* A worker at work has a task to go on with, or its batch is being filled *)
(* from the start; a pool is destroyed by its owner, after its workers.    *)
Turns ==
    /\ \A w \in Workers :
          /\ pc[w] \in {"looping", "running"} => i[w] \in 1..Len(got[w])
          /\ pc[w] = "filling" => i[w] = 1
          /\ pc[w] = "waiting" => got[w] = <<>>
    /\ lifecycle = "destroyed" => joined = Concurrency

(* No task is in two places... *)
Distinct ==
    /\ \A p, q \in Producers, k, l \in Nat, t \in Tasks :
          QueuedAt(p, k, t) /\ QueuedAt(q, l, t) => p = q /\ k = l
    /\ \A v, w \in Workers, k, l \in Nat, t \in Tasks :
          BatchedAt(v, k, t) /\ BatchedAt(w, l, t) => v = w /\ k = l
    /\ \A p \in Producers, w \in Workers, k, l \in Nat, t \in Tasks :
          ~(QueuedAt(p, k, t) /\ BatchedAt(w, l, t))

(* ...and those that are in one are the scheduled ones without an outcome. *)
Open(t) == t <= last /\ outcome[t] = "none"

Somewhere(t) ==
    \/ \E p \in Producers, k \in Nat : QueuedAt(p, k, t)
    \/ \E w \in Workers, k \in Nat : BatchedAt(w, k, t)

Placed == \A t \in Tasks : Somewhere(t) <=> Open(t)

(* Tasks that are not scheduled yet have no outcome. *)
Fresh == \A t \in Tasks : t > last => outcome[t] = "none"

TaskInv == Turns /\ Distinct /\ Placed /\ Fresh

LEMMA InitTaskInv == Init => TaskInv
<1> SUFFICES ASSUME Init PROVE TaskInv
  OBVIOUS
<1>1. Turns
  BY DEF Init, Turns, AtWork
<1>2. /\ \A p \in Producers, k \in Nat, t \in Tasks : ~QueuedAt(p, k, t)
      /\ \A w \in Workers, k \in Nat, t \in Tasks : ~BatchedAt(w, k, t)
  <2>1. \A p \in Producers : inner[p] = <<>>
    BY DEF Init, Queue!Init, Producers
  <2> QED BY <2>1 DEF Init, QueuedAt, BatchedAt, AtWork
<1>3. \A t \in Tasks : ~Open(t)
  BY DEF Init, Open, Tasks
<1>4. Fresh
  BY DEF Init, Fresh
<1> QED BY <1>1, <1>2, <1>3, <1>4 DEF TaskInv, Distinct, Placed, Somewhere

(* A step that moves no task. *)
LEMMA TasksStay ==
    ASSUME Distinct, Placed, UNCHANGED <<inner, last, outcome>>,
           \A w \in Workers :
              \/ UNCHANGED <<pc[w], i[w], got[w]>>
              \/ pc[w] \in AtWork /\ pc'[w] \in AtWork /\ UNCHANGED <<i[w], got[w]>>
              \/ pc[w] \notin AtWork /\ pc'[w] \notin AtWork
              \/ pc[w] \notin AtWork /\ i'[w] = 1 /\ got'[w] = <<>>
    PROVE  Distinct' /\ Placed'
<1>1. \A p \in Producers, k \in Nat, t \in Tasks : QueuedAt(p, k, t)' <=> QueuedAt(p, k, t)
  BY DEF QueuedAt
<1>2. \A w \in Workers, k \in Nat, t \in Tasks : BatchedAt(w, k, t)' <=> BatchedAt(w, k, t)
  BY DEF BatchedAt
<1>3. Distinct'
  BY <1>1, <1>2 DEF Distinct
<1>4. \A t \in Tasks : Somewhere(t)' <=> Somewhere(t)
  BY <1>1, <1>2 DEF Somewhere
<1>5. Placed'
  BY <1>4 DEF Placed, Open
<1> QED BY <1>3, <1>5

(* Tasks that are scheduled come last in one sub-queue. *)
LEMMA InsertTasks ==
    ASSUME TypeOK, TaskInv, NEW p \in Producers, NEW n \in Nat, last + n <= MaxTasks,
           inner' = [inner EXCEPT ![p] = @ \o [k \in 1..n |-> last + k]],
           last' = last + n, UNCHANGED <<pc, i, got, outcome>>
    PROVE  Distinct' /\ Placed'
<1> DEFINE tasks == [k \in 1..n |-> last + k]
           m == Len(inner[p])
<1>1. last \in Nat /\ MaxTasks \in Nat /\ inner \in [Producers -> Seq(Tasks)]
      /\ inner[p] \in Seq(Tasks) /\ m \in Nat
  BY PoolAssumption DEF TypeOK, PoolTypeOK, Queue!TypeOK, Producers
<1>2. tasks \in Seq(Nat) /\ Len(tasks) = n /\ \A k \in 1..n : tasks[k] = last + k
  BY <1>1
<1> HIDE DEF tasks
<1>3. /\ Len(inner'[p]) = m + n
      /\ \A k \in 1..(m + n) : inner'[p][k] = IF k <= m THEN inner[p][k] ELSE tasks[k - m]
  BY <1>1, <1>2 DEF tasks
<1> HIDE DEF m
<1> DEFINE Added(q, k, t) == q = p /\ k \in (m + 1)..(m + n) /\ t = last + (k - m)
<1>4. \A q \in Producers, k \in Nat, t \in Tasks :
         QueuedAt(q, k, t)' <=> QueuedAt(q, k, t) \/ Added(q, k, t)
  <2> SUFFICES ASSUME NEW q \in Producers, NEW k \in Nat, NEW t \in Tasks
               PROVE  QueuedAt(q, k, t)' <=> QueuedAt(q, k, t) \/ Added(q, k, t)
    OBVIOUS
  <2>1. CASE q # p
    <3>1. inner'[q] = inner[q]
      BY <1>1, <2>1
    <3>2. QueuedAt(q, k, t)' <=> QueuedAt(q, k, t)
      BY <3>1 DEF QueuedAt
    <3>3. ~Added(q, k, t)
      BY <2>1
    <3> HIDE DEF Added
    <3> QED BY <3>2, <3>3
  <2>2. CASE q = p
    <3>1. QueuedAt(q, k, t)' <=> k \in 1..(m + n) /\ inner'[p][k] = t
      BY <1>3, <2>2 DEF QueuedAt
    <3>2. QueuedAt(q, k, t) <=> k \in 1..m /\ inner[p][k] = t
      BY <2>2 DEF QueuedAt, m
    <3>3. m \in Nat
      BY <1>1 DEF m
    <3>4. Added(q, k, t) <=> k \in (m + 1)..(m + n) /\ t = last + (k - m)
      BY <2>2
    <3> HIDE DEF Added
    <3>5. CASE k <= m
      <4>1. ~(k \in (m + 1)..(m + n))
        BY <3>3, <3>5
      <4>2. k \in 1..(m + n) <=> k \in 1..m
        BY <3>3, <3>5
      <4>3. k \in 1..m => inner'[p][k] = inner[p][k]
        BY <1>3, <3>3, <3>5, <4>2
      <4> QED BY <3>1, <3>2, <3>4, <4>1, <4>2, <4>3
    <3>6. CASE k > m
      <4>1. k \in 1..(m + n) => inner'[p][k] = last + (k - m)
        <5>1. SUFFICES ASSUME k \in 1..(m + n) PROVE inner'[p][k] = last + (k - m)
          OBVIOUS
        <5>2. PICK j \in 1..n : j = k - m
          BY <3>3, <3>6, <5>1
        <5>3. inner'[p][k] = tasks[j]
          <6>1. inner'[p][k] = IF k <= m THEN inner[p][k] ELSE tasks[k - m]
            BY <1>3, <5>1
          <6>2. ~(k <= m)
            BY <3>3, <3>6
          <6> QED BY <5>2, <6>1, <6>2
        <5>4. tasks[j] = last + j
          BY <1>2
        <5> QED BY <5>2, <5>3, <5>4
      <4>2. k \in 1..(m + n) <=> k \in (m + 1)..(m + n)
        BY <3>3, <3>6
      <4>3. ~(k \in 1..m)
        BY <3>3, <3>6
      <4> QED BY <3>1, <3>2, <3>4, <4>1, <4>2, <4>3
    <3> QED BY <3>3, <3>5, <3>6
  <2> QED BY <2>1, <2>2
<1>5. \A w \in Workers, k \in Nat, t \in Tasks : BatchedAt(w, k, t)' <=> BatchedAt(w, k, t)
  BY DEF BatchedAt
<1>6. /\ \A q \in Producers, k \in Nat, t \in Tasks : QueuedAt(q, k, t) => t <= last
      /\ \A w \in Workers, k \in Nat, t \in Tasks : BatchedAt(w, k, t) => t <= last
  BY DEF TaskInv, Placed, Somewhere, Open
<1>7. m \in Nat /\ \A t \in Tasks : t \in Nat
  BY <1>1 DEF Tasks, m
<1>8. Distinct'
  <2>1. \A q, r \in Producers, k, l \in Nat, t \in Tasks :
           QueuedAt(q, k, t)' /\ QueuedAt(r, l, t)' => q = r /\ k = l
    <3> SUFFICES ASSUME NEW q \in Producers, NEW r \in Producers, NEW k \in Nat, NEW l \in Nat,
                        NEW t \in Tasks, QueuedAt(q, k, t)', QueuedAt(r, l, t)'
                 PROVE  q = r /\ k = l
      OBVIOUS
    <3>1. CASE t <= last
      <4>1. QueuedAt(q, k, t) /\ QueuedAt(r, l, t)
        BY <1>1, <1>4, <1>7, <3>1
      <4> QED BY <4>1 DEF TaskInv, Distinct
    <3>2. CASE t > last
      <4>1. ~QueuedAt(q, k, t) /\ ~QueuedAt(r, l, t)
        BY <1>1, <1>6, <1>7, <3>2
      <4>2. Added(q, k, t) /\ Added(r, l, t)
        BY <1>4, <4>1
      <4> QED BY <1>1, <1>7, <4>2
    <3> QED BY <1>1, <1>7, <3>1, <3>2
  <2>2. \A v, w \in Workers, k, l \in Nat, t \in Tasks :
           BatchedAt(v, k, t)' /\ BatchedAt(w, l, t)' => v = w /\ k = l
    BY <1>5 DEF TaskInv, Distinct
  <2>3. \A q \in Producers, w \in Workers, k, l \in Nat, t \in Tasks :
           ~(QueuedAt(q, k, t)' /\ BatchedAt(w, l, t)')
    <3> SUFFICES ASSUME NEW q \in Producers, NEW w \in Workers, NEW k \in Nat, NEW l \in Nat,
                        NEW t \in Tasks, QueuedAt(q, k, t)', BatchedAt(w, l, t)'
                 PROVE  FALSE
      OBVIOUS
    <3>1. BatchedAt(w, l, t) /\ t <= last
      BY <1>5, <1>6
    <3>2. QueuedAt(q, k, t)
      BY <1>1, <1>4, <1>7, <3>1
    <3> QED BY <3>1, <3>2 DEF TaskInv, Distinct
  <2> QED BY <2>1, <2>2, <2>3 DEF Distinct
<1>9. Placed'
  <2> SUFFICES ASSUME NEW t \in Tasks PROVE Somewhere(t)' <=> Open(t)'
    BY DEF Placed
  <2>1. Somewhere(t) <=> Open(t)
    BY DEF TaskInv, Placed
  <2>2. Open(t)' <=> Open(t) \/ t \in (last + 1)..(last + n)
    BY <1>1, <1>7 DEF Open, TaskInv, Fresh
  <2>3. ASSUME t \in (last + 1)..(last + n)
        PROVE  Somewhere(t)'
    <3>1. PICK k \in Nat : k = m + (t - last)
      BY <1>1, <1>7, <2>3
    <3>2. Added(p, k, t)
      BY <1>1, <1>7, <2>3, <3>1
    <3>3. QueuedAt(p, k, t)'
      BY <1>4, <3>2
    <3> QED BY <3>3 DEF Somewhere
  <2>4. ASSUME Somewhere(t)
        PROVE  Somewhere(t)'
    <3>1. CASE \E q \in Producers, k \in Nat : QueuedAt(q, k, t)
      <4>1. PICK q \in Producers, k \in Nat : QueuedAt(q, k, t)
        BY <3>1
      <4>2. QueuedAt(q, k, t)'
        BY <1>4, <4>1
      <4> QED BY <4>2 DEF Somewhere
    <3>2. CASE \E w \in Workers, k \in Nat : BatchedAt(w, k, t)
      BY <1>5, <3>2 DEF Somewhere
    <3> QED BY <2>4, <3>1, <3>2 DEF Somewhere
  <2>5. ASSUME Somewhere(t)'
        PROVE  Somewhere(t) \/ t \in (last + 1)..(last + n)
    <3>1. CASE \E q \in Producers, k \in Nat : QueuedAt(q, k, t)'
      <4>1. PICK q \in Producers, k \in Nat : QueuedAt(q, k, t)'
        BY <3>1
      <4>2. CASE QueuedAt(q, k, t)
        BY <4>2 DEF Somewhere
      <4>3. CASE Added(q, k, t)
        BY <1>1, <1>7, <4>3
      <4> QED BY <1>4, <4>1, <4>2, <4>3
    <3>2. CASE \E w \in Workers, k \in Nat : BatchedAt(w, k, t)'
      BY <1>5, <3>2 DEF Somewhere
    <3> QED BY <2>5, <3>1, <3>2 DEF Somewhere
  <2> QED BY <2>1, <2>2, <2>3, <2>4, <2>5
<1> QED BY <1>8, <1>9

(* Tasks that do not fit are scheduled nowhere, and rejected at once. *)
LEMMA RejectTasks ==
    ASSUME TypeOK, TaskInv, NEW n \in Nat, last + n <= MaxTasks,
           last' = last + n, UNCHANGED <<inner, pc, i, got>>,
           outcome' = [t \in Tasks |->
              IF t \in (last + 1)..(last + n) THEN "rejected" ELSE outcome[t]]
    PROVE  Distinct' /\ Placed'
<1>1. last \in Nat /\ \A t \in Tasks : t \in Nat
  BY PoolAssumption DEF TypeOK, PoolTypeOK, Tasks
<1>2. \A p \in Producers, k \in Nat, t \in Tasks : QueuedAt(p, k, t)' <=> QueuedAt(p, k, t)
  BY DEF QueuedAt
<1>3. \A w \in Workers, k \in Nat, t \in Tasks : BatchedAt(w, k, t)' <=> BatchedAt(w, k, t)
  BY DEF BatchedAt
<1>4. Distinct'
  BY <1>2, <1>3 DEF TaskInv, Distinct
<1>5. \A t \in Tasks : Open(t)' <=> Open(t)
  BY <1>1 DEF Open
<1>6. \A t \in Tasks : Somewhere(t)' <=> Somewhere(t)
  BY <1>2, <1>3 DEF Somewhere
<1>7. Placed'
  BY <1>5, <1>6 DEF TaskInv, Placed
<1> QED BY <1>4, <1>7

(* Tasks that are claimed move from the head of a sub-queue to the end of  *)
(* a batch none of whose tasks has been run.                               *)
LEMMA FillTasks ==
    ASSUME TypeOK, TaskInv, NEW w \in Workers, NEW p \in Producers, NEW n \in Nat,
           pc[w] = "filling", pc'[w] \in AtWork,
           \A v \in Workers \ {w} : pc'[v] = pc[v],
           n <= Len(inner[p]),
           got' = [got EXCEPT ![w] = @ \o SubSeq(inner[p], 1, n)],
           inner' = [inner EXCEPT ![p] = SubSeq(@, n + 1, Len(@))],
           UNCHANGED <<i, last, outcome>>
    PROVE  Distinct' /\ Placed'
<1> DEFINE m == Len(inner[p])
           h == Len(got[w])
<1>1. /\ inner \in [Producers -> Seq(Tasks)] /\ inner[p] \in Seq(Tasks)
      /\ got \in [Clients -> Seq(Tasks)] /\ got[w] \in Seq(Tasks) /\ w \in Clients
      /\ m \in Nat /\ h \in Nat /\ n <= m
  BY DEF TypeOK, Queue!TypeOK, Producers, Clients
<1>2. /\ Len(inner'[p]) = m - n
      /\ \A k \in 1..(m - n) : inner'[p][k] = inner[p][n + k]
  <2>1. inner'[p] = SubSeq(inner[p], n + 1, m)
    BY <1>1
  <2> QED BY <1>1, <2>1
<1>3. /\ Len(got'[w]) = h + n
      /\ \A k \in 1..(h + n) :
            got'[w][k] = IF k <= h THEN got[w][k] ELSE inner[p][k - h]
  <2>1. got'[w] = got[w] \o SubSeq(inner[p], 1, n)
    BY <1>1
  <2>2. PICK s \in Seq(Tasks) : s = SubSeq(inner[p], 1, n)
    <3>1. 1 \in Int /\ n \in Int /\ \A k \in 1..n : inner[p][k] \in Tasks
      BY <1>1
    <3>2. SubSeq(inner[p], 1, n) \in Seq(Tasks)
      BY <3>1, SubSeqProperties, Zenon
    <3> QED BY <3>2
  <2>3. Len(s) = n /\ \A k \in 1..n : s[k] = inner[p][k]
    BY <1>1, <2>2
  <2>4. \A k \in 1..(h + n) : k <= h \/ k - h \in 1..n
    BY <1>1
  <2> QED BY <1>1, <2>1, <2>2, <2>3, <2>4
<1>4. i[w] = 1
  BY DEF TaskInv, Turns
<1>5. m \in Nat /\ h \in Nat /\ n <= m
  BY <1>1
<1> DEFINE Moved(v, k, t) == v = w /\ k \in (h + 1)..(h + n) /\ QueuedAt(p, k - h, t)
<1>6. \A q \in Producers, k \in Nat, t \in Tasks :
         q # p => (QueuedAt(q, k, t)' <=> QueuedAt(q, k, t))
  <2>1. \A q \in Producers : q # p => inner'[q] = inner[q]
    BY <1>1
  <2> QED BY <2>1 DEF QueuedAt
<1>7. \A k \in Nat, t \in Tasks : QueuedAt(p, k, t)' <=> k >= 1 /\ QueuedAt(p, n + k, t)
  <2> SUFFICES ASSUME NEW k \in Nat, NEW t \in Tasks
               PROVE  QueuedAt(p, k, t)' <=> k >= 1 /\ QueuedAt(p, n + k, t)
    OBVIOUS
  <2>1. QueuedAt(p, k, t)' <=> k \in 1..(m - n) /\ inner'[p][k] = t
    BY <1>2 DEF QueuedAt
  <2>2. QueuedAt(p, n + k, t) <=> n + k \in 1..m /\ inner[p][n + k] = t
    BY DEF QueuedAt
  <2>3. k \in 1..(m - n) <=> k >= 1 /\ n + k \in 1..m
    BY <1>5
  <2> QED BY <1>2, <2>1, <2>2, <2>3
<1>8. \A v \in Workers, k \in Nat, t \in Tasks :
         BatchedAt(v, k, t)' <=> BatchedAt(v, k, t) \/ Moved(v, k, t)
  <2> SUFFICES ASSUME NEW v \in Workers, NEW k \in Nat, NEW t \in Tasks
               PROVE  BatchedAt(v, k, t)' <=> BatchedAt(v, k, t) \/ Moved(v, k, t)
    OBVIOUS
  <2>1. CASE v # w
    <3>1. pc'[v] = pc[v] /\ got'[v] = got[v] /\ i'[v] = i[v]
      BY <1>1, <2>1 DEF Clients
    <3>2. BatchedAt(v, k, t)' <=> BatchedAt(v, k, t)
      BY <3>1 DEF BatchedAt
    <3>3. ~Moved(v, k, t)
      BY <2>1
    <3> HIDE DEF Moved
    <3> QED BY <3>2, <3>3
  <2>2. CASE v = w
    <3>1. BatchedAt(v, k, t)' <=> k \in 1..(h + n) /\ got'[w][k] = t
      BY <1>3, <1>4, <2>2 DEF BatchedAt
    <3>2. BatchedAt(v, k, t) <=> k \in 1..h /\ got[w][k] = t
      BY <1>4, <2>2 DEF BatchedAt, AtWork
    <3>3. Moved(v, k, t) <=> k \in (h + 1)..(h + n) /\ inner[p][k - h] = t
      <4>1. k \in (h + 1)..(h + n) => k - h \in 1..m
        BY <1>5
      <4> QED BY <2>2, <4>1 DEF QueuedAt
    <3> HIDE DEF Moved
    <3>4. k \in 1..(h + n) <=> k \in 1..h \/ k \in (h + 1)..(h + n)
      BY <1>5
    <3>5. k \in 1..h => got'[w][k] = got[w][k]
      BY <1>3, <1>5, <3>4
    <3>6. k \in (h + 1)..(h + n) => got'[w][k] = inner[p][k - h]
      <4>1. k \in (h + 1)..(h + n) => ~(k <= h)
        BY <1>5
      <4> QED BY <1>3, <1>5, <3>4, <4>1
    <3> QED BY <3>1, <3>2, <3>3, <3>4, <3>5, <3>6
  <2> QED BY <2>1, <2>2
<1> HIDE DEF m, h
<1>9. Distinct'
  <2>1. \A q, r \in Producers, k, l \in Nat, t \in Tasks :
           QueuedAt(q, k, t)' /\ QueuedAt(r, l, t)' => q = r /\ k = l
    <3> SUFFICES ASSUME NEW q \in Producers, NEW r \in Producers, NEW k \in Nat, NEW l \in Nat,
                        NEW t \in Tasks, QueuedAt(q, k, t)', QueuedAt(r, l, t)'
                 PROVE  q = r /\ k = l
      OBVIOUS
    <3>1. PICK x \in Nat : QueuedAt(q, x, t) /\ x = IF q = p THEN n + k ELSE k
      BY <1>6, <1>7
    <3>2. PICK y \in Nat : QueuedAt(r, y, t) /\ y = IF r = p THEN n + l ELSE l
      BY <1>6, <1>7
    <3>3. q = r /\ x = y
      BY <3>1, <3>2 DEF TaskInv, Distinct
    <3> QED BY <3>1, <3>2, <3>3
  <2>2. \A u, v \in Workers, k, l \in Nat, t \in Tasks :
           BatchedAt(u, k, t)' /\ BatchedAt(v, l, t)' => u = v /\ k = l
    <3> SUFFICES ASSUME NEW u \in Workers, NEW v \in Workers, NEW k \in Nat, NEW l \in Nat,
                        NEW t \in Tasks, BatchedAt(u, k, t)', BatchedAt(v, l, t)'
                 PROVE  u = v /\ k = l
      OBVIOUS
    <3>1. \A z \in Workers, x \in Nat, y \in Nat :
             ~(BatchedAt(z, x, t) /\ QueuedAt(p, y, t))
      BY DEF TaskInv, Distinct
    <3>2. \A x \in Nat : x \in (h + 1)..(h + n) => x - h \in Nat
      BY <1>5
    <3>3. CASE BatchedAt(u, k, t) /\ BatchedAt(v, l, t)
      BY <3>3 DEF TaskInv, Distinct
    <3>4. CASE Moved(u, k, t) /\ Moved(v, l, t)
      <4>1. k - h \in Nat /\ l - h \in Nat /\ u = v
            /\ QueuedAt(p, k - h, t) /\ QueuedAt(p, l - h, t)
        BY <3>2, <3>4
      <4>2. k - h = l - h
        BY <4>1 DEF TaskInv, Distinct
      <4> QED BY <1>5, <4>1, <4>2
    <3>5. ~(BatchedAt(u, k, t) /\ Moved(v, l, t)) /\ ~(Moved(u, k, t) /\ BatchedAt(v, l, t))
      BY <3>1, <3>2
    <3> QED BY <1>8, <3>3, <3>4, <3>5
  <2>3. \A q \in Producers, v \in Workers, k, l \in Nat, t \in Tasks :
           ~(QueuedAt(q, k, t)' /\ BatchedAt(v, l, t)')
    <3> SUFFICES ASSUME NEW q \in Producers, NEW v \in Workers, NEW k \in Nat, NEW l \in Nat,
                        NEW t \in Tasks, QueuedAt(q, k, t)', BatchedAt(v, l, t)'
                 PROVE  FALSE
      OBVIOUS
    <3>1. PICK x \in Nat : QueuedAt(q, x, t) /\ (q = p => k >= 1 /\ x = n + k)
      BY <1>6, <1>7
    <3>2. Moved(v, l, t)
      BY <1>8, <3>1 DEF TaskInv, Distinct
    <3>3. l - h \in Nat /\ l - h <= n /\ QueuedAt(p, l - h, t)
      BY <1>5, <3>2
    <3>4. q = p /\ x = l - h
      BY <3>1, <3>3 DEF TaskInv, Distinct
    <3> QED BY <3>1, <3>3, <3>4
  <2> QED BY <2>1, <2>2, <2>3 DEF Distinct
<1>10. Placed'
  <2> SUFFICES ASSUME NEW t \in Tasks PROVE Somewhere(t)' <=> Open(t)'
    BY DEF Placed
  <2>1. Somewhere(t) <=> Open(t)
    BY DEF TaskInv, Placed
  <2>2. Open(t)' <=> Open(t)
    BY DEF Open
  <2>3. ASSUME NEW q \in Producers, NEW k \in Nat, QueuedAt(q, k, t)
        PROVE  Somewhere(t)'
    <3>1. CASE q # p
      <4>1. QueuedAt(q, k, t)'
        BY <1>6, <2>3, <3>1
      <4> QED BY <4>1 DEF Somewhere
    <3>2. CASE q = p /\ k <= n
      <4>1. k \in 1..m
        BY <2>3, <3>2 DEF QueuedAt, m
      <4>2. PICK l \in Nat : l = h + k
        BY <1>5
      <4>3. l \in (h + 1)..(h + n) /\ l - h = k
        BY <1>5, <3>2, <4>1, <4>2
      <4>4. Moved(w, l, t)
        BY <2>3, <3>2, <4>3
      <4>5. BatchedAt(w, l, t)'
        BY <1>8, <4>4
      <4> QED BY <4>5 DEF Somewhere
    <3>3. CASE q = p /\ k > n
      <4>1. PICK l \in Nat : l = k - n
        BY <3>3
      <4>2. l >= 1 /\ n + l = k
        BY <3>3, <4>1
      <4>3. QueuedAt(p, l, t)'
        BY <1>7, <2>3, <3>3, <4>2
      <4> QED BY <4>3 DEF Somewhere
    <3> QED BY <3>1, <3>2, <3>3
  <2>4. ASSUME NEW v \in Workers, NEW k \in Nat, BatchedAt(v, k, t)
        PROVE  Somewhere(t)'
    BY <1>8, <2>4 DEF Somewhere
  <2>5. ASSUME NEW q \in Producers, NEW k \in Nat, QueuedAt(q, k, t)'
        PROVE  Somewhere(t)
    <3>1. PICK x \in Nat : QueuedAt(q, x, t)
      BY <1>6, <1>7, <2>5
    <3> QED BY <3>1 DEF Somewhere
  <2>6. ASSUME NEW v \in Workers, NEW k \in Nat, BatchedAt(v, k, t)'
        PROVE  Somewhere(t)
    <3>1. CASE BatchedAt(v, k, t)
      BY <3>1 DEF Somewhere
    <3>2. CASE Moved(v, k, t)
      <4>1. k - h \in Nat /\ QueuedAt(p, k - h, t)
        BY <1>5, <3>2
      <4> QED BY <4>1 DEF Somewhere
    <3> QED BY <1>8, <2>6, <3>1, <3>2
  <2>7. Somewhere(t)' => Somewhere(t)
    BY <2>5, <2>6 DEF Somewhere
  <2>8. Somewhere(t) => Somewhere(t)'
    BY <2>3, <2>4 DEF Somewhere
  <2> QED BY <2>1, <2>2, <2>7, <2>8
<1> QED BY <1>9, <1>10

(* A task that ends leaves its batch. *)
LEMMA EndsTask ==
    ASSUME TypeOK, TaskInv, NEW w \in Workers, pc[w] = "running",
           NEW result, result # "none", EndTask(w, result),
           UNCHANGED <<inner, got, last, lifecycle, joined>>
    PROVE  TaskInv'
<1>1. /\ got[w] \in Seq(Tasks) /\ i[w] \in 1..Len(got[w])
      /\ i \in [Workers -> Nat] /\ outcome \in [Tasks -> {"none", "returned", "threw", "rejected", "dropped"}]
      /\ DOMAIN pc = Workers /\ i[w] \in Nat /\ Len(got[w]) \in Nat
  <2>1. w \in Clients
    BY DEF Clients
  <2> QED BY <2>1 DEF TypeOK, PoolTypeOK, Queue!TypeOK, TaskInv, Turns
<1>2. PICK task \in Tasks : task = got[w][i[w]]
  BY <1>1
<1>3. BatchedAt(w, i[w], task) /\ Open(task)
  <2>1. BatchedAt(w, i[w], task)
    BY <1>1, <1>2 DEF BatchedAt, AtWork
  <2> QED BY <1>1, <2>1 DEF TaskInv, Placed, Somewhere
<1>4. /\ outcome' = [outcome EXCEPT ![task] = result]
      /\ i' = [i EXCEPT ![w] = @ + 1]
      /\ pc' = [pc EXCEPT ![w] = IF i[w] < Len(got[w]) THEN "looping" ELSE "check"]
  BY <1>2 DEF EndTask
<1>5. \A p \in Producers, k \in Nat, t \in Tasks : QueuedAt(p, k, t)' <=> QueuedAt(p, k, t)
  BY DEF QueuedAt
<1>6. \A v \in Workers, k \in Nat, t \in Tasks :
         BatchedAt(v, k, t)' <=> BatchedAt(v, k, t) /\ t # task
  <2> SUFFICES ASSUME NEW v \in Workers, NEW k \in Nat, NEW t \in Tasks
               PROVE  BatchedAt(v, k, t)' <=> BatchedAt(v, k, t) /\ t # task
    OBVIOUS
  <2>1. BatchedAt(v, k, task) => v = w /\ k = i[w]
    BY <1>1, <1>3 DEF TaskInv, Distinct
  <2>2. CASE v # w
    <3>1. pc'[v] = pc[v] /\ got'[v] = got[v] /\ i'[v] = i[v]
      BY <1>1, <1>4, <2>2
    <3>2. BatchedAt(v, k, t)' <=> BatchedAt(v, k, t)
      BY <3>1 DEF BatchedAt
    <3> QED BY <2>1, <2>2, <3>2
  <2>3. CASE v = w
    <3>1. i'[w] = i[w] + 1 /\ pc'[w] = IF i[w] < Len(got[w]) THEN "looping" ELSE "check"
      BY <1>1, <1>4
    <3>2. BatchedAt(v, k, t)' <=> /\ i[w] < Len(got[w])
                                 /\ k \in (i[w] + 1)..Len(got[w]) /\ got[w][k] = t
      BY <2>3, <3>1 DEF BatchedAt, AtWork
    <3>3. BatchedAt(v, k, t) <=> k \in i[w]..Len(got[w]) /\ got[w][k] = t
      BY <2>3 DEF BatchedAt, AtWork
    <3>4. k \in i[w]..Len(got[w]) =>
             k = i[w] \/ (i[w] < Len(got[w]) /\ k \in (i[w] + 1)..Len(got[w]))
      BY <1>1
    <3>5. k \in (i[w] + 1)..Len(got[w]) => k \in i[w]..Len(got[w]) /\ k # i[w]
      BY <1>1
    <3> QED BY <1>2, <2>1, <2>3, <3>2, <3>3, <3>4, <3>5
  <2> QED BY <2>2, <2>3
<1>7. Distinct'
  <2>1. Distinct
    BY DEF TaskInv
  <2> QED BY <1>5, <1>6, <2>1 DEF Distinct
<1>8. Placed'
  <2> SUFFICES ASSUME NEW t \in Tasks PROVE Somewhere(t)' <=> Open(t)'
    BY DEF Placed
  <2>1. Open(t)' <=> Open(t) /\ t # task
    BY <1>1, <1>4 DEF Open
  <2>2. CASE t = task
    <3>1. \A p \in Producers, k \in Nat : ~QueuedAt(p, k, t)
      BY <1>1, <1>3, <2>2 DEF TaskInv, Distinct
    <3>2. ~Somewhere(t)'
      BY <1>5, <1>6, <2>2, <3>1 DEF Somewhere
    <3> QED BY <2>1, <2>2, <3>2
  <2>3. CASE t # task
    <3>1. Somewhere(t)' <=> Somewhere(t)
      BY <1>5, <1>6, <2>3 DEF Somewhere
    <3> QED BY <2>1, <2>3, <3>1 DEF TaskInv, Placed
  <2> QED BY <2>2, <2>3
<1>9. Fresh'
  <2>1. ASSUME NEW t \in Tasks, t > last
        PROVE  outcome'[t] = "none"
    <3>1. outcome[t] = "none"
      BY <2>1 DEF TaskInv, Fresh
    <3>2. t # task
      BY <1>3, <2>1, PoolAssumption DEF Open, Tasks, TypeOK, PoolTypeOK
    <3> QED BY <1>1, <1>4, <3>1, <3>2
  <2> QED BY <2>1 DEF Fresh
<1>10. Turns'
  <2>1. ASSUME NEW v \in Workers, v # w
        PROVE  pc'[v] = pc[v] /\ got'[v] = got[v] /\ i'[v] = i[v]
    BY <1>1, <1>4, <2>1
  <2>2. i'[w] = i[w] + 1 /\ pc'[w] = IF i[w] < Len(got[w]) THEN "looping" ELSE "check"
    BY <1>1, <1>4
  <2>3. pc'[w] \in {"looping", "running"} => i'[w] \in 1..Len(got'[w])
    BY <1>1, <2>2
  <2>4. pc'[w] # "filling" /\ pc'[w] # "waiting"
    BY <2>2
  <2>5. UNCHANGED <<lifecycle, joined>>
    OBVIOUS
  <2> QED BY <2>1, <2>3, <2>4, <2>5 DEF TaskInv, Turns
<1> QED BY <1>7, <1>8, <1>9, <1>10 DEF TaskInv

(* A pool is destroyed with the tasks in its queue, and no others. *)
LEMMA DropTasks ==
    ASSUME TypeOK, TaskInv, \A w \in Workers : pc[w] = "exited",
           inner' = [p \in Producers |-> <<>>],
           outcome' = [t \in Tasks |-> IF Queued(t) THEN "dropped" ELSE outcome[t]],
           UNCHANGED <<pc, i, got, last>>
    PROVE  Distinct' /\ Placed' /\ Fresh'
<1>1. \A p \in Producers, k \in Nat, t \in Tasks : ~QueuedAt(p, k, t)'
  BY DEF QueuedAt
<1>2. \A w \in Workers, k \in Nat, t \in Tasks : ~BatchedAt(w, k, t) /\ ~BatchedAt(w, k, t)'
  BY DEF BatchedAt, AtWork
<1>3. Distinct'
  BY <1>1, <1>2 DEF Distinct
<1>4. \A t \in Tasks : Queued(t) <=> Open(t)
  <2> SUFFICES ASSUME NEW t \in Tasks PROVE Queued(t) <=> Somewhere(t)
    BY DEF TaskInv, Placed
  <2>1. Queued(t) <=> \E p \in Producers, k \in Nat : QueuedAt(p, k, t)
    <3>1. \A p \in Producers : Len(inner[p]) \in Nat
      BY DEF TypeOK, Queue!TypeOK, Producers
    <3>2. \A p \in Producers : \A k \in 1..Len(inner[p]) : k \in Nat
      BY <3>1
    <3> QED BY <3>1, <3>2 DEF Queued, QueuedAt, Producers
  <2> QED BY <1>2, <2>1 DEF Somewhere
<1>5. Placed'
  <2>1. \A t \in Tasks : ~Open(t)'
    BY <1>4 DEF Open
  <2> QED BY <1>1, <1>2, <2>1 DEF Placed, Somewhere
<1>6. Fresh'
  <2>1. \A t \in Tasks : t > last => ~Open(t)
    BY PoolAssumption DEF Open, TypeOK, PoolTypeOK, Tasks
  <2> QED BY <1>4, <2>1 DEF Fresh, TaskInv
<1> QED BY <1>3, <1>5, <1>6

LEMMA TaskStep ==
    ASSUME IInv, TaskInv, Next
    PROVE  TaskInv'
<1>1. TypeOK /\ Locals /\ PoolTypeOK /\ Queue!TypeOK
  BY DEF IInv, TypeOK
<1>2. last \in Nat /\ DOMAIN pc = Workers /\ joined \in Nat /\ Concurrency \in Nat
      /\ \A w \in Workers : w \in Clients
  BY <1>1, PoolAssumption DEF PoolTypeOK, Clients
<1>3. CASE \E c \in Clients : Client(c) \/ Signal(c)
  <2>1. PICK c \in Clients : Client(c) \/ Signal(c)
    BY <1>3
  <2>2. ASSUME NEW n \in Nat, Enqueue(c, n)
        PROVE  TaskInv'
    <3>1. last + n <= MaxTasks /\ last' = last + n
          /\ UNCHANGED <<lifecycle, done, joined, pc, i>>
      BY <2>2 DEF Enqueue
    <3>2. UNCHANGED got
      BY <2>2 DEF Enqueue, Queue!Insert, queueVars
    <3>3. Turns'
      BY <3>1, <3>2 DEF TaskInv, Turns
    <3>4. CASE \E p \in {c} \union Tokens :
                  Queue!Insert(c, p, [k \in 1..n |-> last + k]) /\ UNCHANGED outcome
      <4>1. PICK p \in Producers : Queue!Insert(c, p, [k \in 1..n |-> last + k])
        BY <3>4 DEF Producers
      <4>2. inner' = [inner EXCEPT ![p] = @ \o [k \in 1..n |-> last + k]]
        BY <4>1 DEF Queue!Insert
      <4>3. UNCHANGED outcome
        BY <3>4
      <4>4. Distinct' /\ Placed'
        BY <1>1, <3>1, <3>2, <4>2, <4>3, InsertTasks
      <4>5. Fresh'
        BY <1>2, <3>1, <4>3 DEF TaskInv, Fresh, Tasks
      <4> QED BY <3>3, <4>4, <4>5 DEF TaskInv
    <3>5. CASE /\ outcome' = [t \in Tasks |->
                     IF t \in (last + 1)..(last + n) THEN "rejected" ELSE outcome[t]]
               /\ UNCHANGED queueVars
      <4>1. UNCHANGED inner
        BY <3>5 DEF queueVars
      <4>2. Distinct' /\ Placed'
        BY <1>1, <3>1, <3>2, <3>5, <4>1, RejectTasks
      <4>3. Fresh'
        BY <1>2, <3>1, <3>5 DEF TaskInv, Fresh, Tasks
      <4> QED BY <3>3, <4>2, <4>3 DEF TaskInv
    <3> QED BY <2>2, <3>4, <3>5 DEF Enqueue
  <2>3. CASE Schedule(c) \/ ScheduleAndForget(c)
    BY <2>2, <2>3 DEF Schedule, ScheduleAndForget
  <2>4. CASE ScheduleBulk(c)
    <3>1. PICK n \in 1..MaxBulk : Enqueue(c, n)
      BY <2>4 DEF ScheduleBulk
    <3>2. n \in Nat
      BY PoolAssumption
    <3> QED BY <2>2, <3>1, <3>2
  <2>5. CASE Stop(c) \/ Signal(c)
    <3>1. UNCHANGED <<inner, last, outcome, pc, i, got, lifecycle, joined>>
      BY <2>5 DEF Stop, Signal, Queue!SignalItems, poolVars, queueVars
    <3>2. Turns' /\ Fresh'
      BY <3>1 DEF TaskInv, Turns, Fresh
    <3> QED BY <3>1, <3>2, TasksStay DEF TaskInv
  <2> QED BY <2>1, <2>3, <2>4, <2>5 DEF Client
<1>4. ASSUME NEW w \in Workers, \A v \in Workers \ {w} : UNCHANGED <<pc[v], i[v], got[v]>>,
             UNCHANGED <<lifecycle, joined>>,
             pc'[w] \in {"looping", "running"} => i'[w] \in 1..Len(got'[w]),
             pc'[w] = "filling" => i'[w] = 1,
             pc'[w] = "waiting" => got'[w] = <<>>
      PROVE  Turns'
  BY <1>4 DEF TaskInv, Turns
<1>5. CASE \E w \in Workers : Worker(w)
  <2>1. PICK w \in Workers : Worker(w)
    BY <1>5
  <2>2. w \in Clients /\ got[w] \in Seq(Tasks) /\ DOMAIN got = Clients /\ DOMAIN i = Workers
    BY <1>1, <1>2 DEF Queue!TypeOK, PoolTypeOK
  <2>3. CASE Check(w)
    <3>1. /\ UNCHANGED <<inner, last, outcome, i, lifecycle, joined>>
          /\ pc[w] = "check" /\ pc'[w] \in {"exited", "waiting"}
          /\ \A v \in Workers \ {w} : pc'[v] = pc[v]
      BY <1>2, <2>3 DEF Check, Queue!WaitDequeueBulk, queueVars
    <3>2. /\ \A v \in Workers \ {w} : got'[v] = got[v]
          /\ pc'[w] = "waiting" => got'[w] = <<>>
      BY <1>2, <2>2, <2>3 DEF Check, Queue!WaitDequeueBulk, queueVars
    <3>3. Turns'
      BY <1>4, <3>1, <3>2
    <3>idle. pc[w] \notin AtWork /\ pc'[w] \notin AtWork
      BY <3>1 DEF AtWork
    <3>4. ASSUME NEW v \in Workers
          PROVE  \/ UNCHANGED <<pc[v], i[v], got[v]>>
                 \/ pc[v] \notin AtWork /\ pc'[v] \notin AtWork
      <4>1. CASE v = w
        BY <3>idle, <4>1
      <4>2. CASE v # w
        BY <3>1, <3>2, <4>2
      <4> QED BY <4>1, <4>2
    <3>5. Distinct' /\ Placed'
      BY <3>1, <3>4, TasksStay DEF TaskInv
    <3>6. Fresh'
      BY <3>1 DEF TaskInv, Fresh
    <3> QED BY <3>3, <3>5, <3>6 DEF TaskInv
  <2>4. CASE Claim(w)
    <3>1. /\ UNCHANGED <<inner, last, outcome, got, lifecycle, joined>>
          /\ pc[w] = "waiting" /\ pc'[w] = "filling" /\ i'[w] = 1
          /\ \A v \in Workers \ {w} : UNCHANGED <<pc[v], i[v], got[v]>>
      BY <1>2, <2>2, <2>4 DEF Claim, Queue!Acquire
    <3>2. got'[w] = <<>>
      BY <3>1 DEF TaskInv, Turns
    <3>3. Turns'
      BY <1>4, <3>1
    <3>idle. pc[w] \notin AtWork
      BY <3>1 DEF AtWork
    <3>4. ASSUME NEW v \in Workers
          PROVE  \/ UNCHANGED <<pc[v], i[v], got[v]>>
                 \/ pc[v] \notin AtWork /\ i'[v] = 1 /\ got'[v] = <<>>
      <4>1. CASE v = w
        BY <3>idle, <3>1, <3>2, <4>1
      <4>2. CASE v # w
        BY <3>1, <3>2, <4>2
      <4> QED BY <4>1, <4>2
    <3>5. Distinct' /\ Placed'
      BY <3>1, <3>4, TasksStay DEF TaskInv
    <3>6. Fresh'
      BY <3>1 DEF TaskInv, Fresh
    <3> QED BY <3>3, <3>5, <3>6 DEF TaskInv
  <2>5. CASE TimeOut(w)
    <3>1. /\ UNCHANGED <<inner, last, outcome, i, got, lifecycle, joined>>
          /\ pc[w] = "waiting" /\ pc'[w] = "check"
          /\ \A v \in Workers \ {w} : UNCHANGED <<pc[v], i[v], got[v]>>
      BY <1>2, <2>5 DEF TimeOut, Queue!TimeOut
    <3>2. Turns'
      BY <1>4, <3>1
    <3>idle. pc[w] \notin AtWork /\ pc'[w] \notin AtWork
      BY <3>1 DEF AtWork
    <3>3. ASSUME NEW v \in Workers
          PROVE  \/ UNCHANGED <<pc[v], i[v], got[v]>>
                 \/ pc[v] \notin AtWork /\ pc'[v] \notin AtWork
      <4>1. CASE v = w
        BY <3>idle, <4>1
      <4>2. CASE v # w
        BY <3>1, <4>2
      <4> QED BY <4>1, <4>2
    <3>4. Distinct' /\ Placed'
      BY <3>1, <3>3, TasksStay DEF TaskInv
    <3>5. Fresh'
      BY <3>1 DEF TaskInv, Fresh
    <3> QED BY <3>2, <3>4, <3>5 DEF TaskInv
  <2>6. CASE Fill(w)
    <3>1. PICK p \in Producers, n \in 1..owed[w] :
             /\ Queue!TryDequeueBulk(w, p, n)
             /\ pc' = [pc EXCEPT ![w] = IF n = owed[w] THEN "looping" ELSE @]
      BY <2>6 DEF Fill, Producers
    <3>2. /\ n <= Len(inner[p])
          /\ got' = [got EXCEPT ![w] = @ \o SubSeq(inner[p], 1, n)]
          /\ inner' = [inner EXCEPT ![p] = SubSeq(@, n + 1, Len(@))]
      BY <3>1 DEF Queue!TryDequeueBulk
    <3>3. pc[w] = "filling" /\ UNCHANGED <<i, last, outcome, lifecycle, joined>>
      BY <2>6 DEF Fill
    <3>4. pc'[w] \in {"filling", "looping"} /\ \A v \in Workers \ {w} : pc'[v] = pc[v]
      BY <1>2, <3>1, <3>3
    <3>5. owed[w] \in Nat /\ n \in Nat /\ n >= 1
      BY <1>1, <2>2 DEF Queue!TypeOK
    <3>6. Distinct' /\ Placed'
      BY <1>1, <3>2, <3>3, <3>4, <3>5, FillTasks DEF AtWork
    <3>7. Fresh'
      BY <3>3 DEF TaskInv, Fresh
    <3>8. i'[w] = 1
      BY <3>3 DEF TaskInv, Turns
    <3>9. Len(got'[w]) \in Nat /\ Len(got'[w]) >= 1
      <4>1. 1 \in Int /\ n \in Int /\ \A k \in 1..n : inner[p][k] \in Tasks
        <5>1. inner[p] \in Seq(Tasks)
          BY <1>1, <3>2 DEF Queue!TypeOK, Producers
        <5> QED BY <3>2, <3>5, <5>1
      <4>2. /\ SubSeq(inner[p], 1, n) \in Seq(Tasks)
            /\ Len(SubSeq(inner[p], 1, n)) = n
        BY <3>5, <4>1, SubSeqProperties
      <4>3. got'[w] = got[w] \o SubSeq(inner[p], 1, n)
        BY <2>2, <3>2
      <4>4. Len(got'[w]) = Len(got[w]) + Len(SubSeq(inner[p], 1, n))
        BY <2>2, <4>2, <4>3
      <4> QED BY <2>2, <3>5, <4>2, <4>4
    <3>10. \A v \in Workers \ {w} : got'[v] = got[v]
      BY <1>2, <2>2, <3>2
    <3>11. Turns'
      BY <1>4, <3>3, <3>4, <3>8, <3>9, <3>10
    <3> QED BY <3>6, <3>7, <3>11 DEF TaskInv
  <2>7. CASE StartTask(w)
    <3>1. /\ UNCHANGED <<inner, last, outcome, i, got, lifecycle, joined>>
          /\ pc[w] = "looping" /\ pc'[w] = "running"
          /\ \A v \in Workers \ {w} : UNCHANGED <<pc[v], i[v], got[v]>>
      BY <1>2, <2>7 DEF StartTask, queueVars
    <3>2. i'[w] \in 1..Len(got'[w])
      BY <3>1 DEF TaskInv, Turns
    <3>3. Turns'
      BY <1>4, <3>1, <3>2
    <3>4. \A v \in Workers :
             \/ UNCHANGED <<pc[v], i[v], got[v]>>
             \/ pc[v] \in AtWork /\ pc'[v] \in AtWork /\ UNCHANGED <<i[v], got[v]>>
      BY <3>1 DEF AtWork
    <3>5. Distinct' /\ Placed'
      BY <3>1, <3>4, TasksStay DEF TaskInv
    <3>6. Fresh'
      BY <3>1 DEF TaskInv, Fresh
    <3> QED BY <3>3, <3>5, <3>6 DEF TaskInv
  <2>8. CASE TaskEnds(w)
    <3>1. pc[w] = "running" /\ UNCHANGED <<inner, got, last, lifecycle, joined>>
      BY <2>8 DEF TaskEnds, TaskReturns, TaskThrows, queueVars
    <3>2. CASE EndTask(w, "returned")
      BY <1>1, <3>1, <3>2, EndsTask
    <3>3. CASE EndTask(w, "threw")
      BY <1>1, <3>1, <3>3, EndsTask
    <3>4. CASE UNCHANGED <<outcome, i, pc>>
      <4>1. Turns' /\ Fresh'
        BY <3>1, <3>4 DEF TaskInv, Turns, Fresh
      <4> QED BY <3>1, <3>4, <4>1, TasksStay DEF TaskInv
    <3> QED BY <2>8, <3>2, <3>3, <3>4 DEF TaskEnds, TaskReturns, TaskThrows
  <2> QED BY <2>1, <2>3, <2>4, <2>5, <2>6, <2>7, <2>8 DEF Worker
<1>6. CASE \E w \in Workers : SpawnWorker(w)
  <2>1. PICK w \in Workers : SpawnWorker(w)
    BY <1>6
  <2>2. /\ UNCHANGED <<inner, last, outcome, i, got, joined>>
        /\ lifecycle' # "destroyed"
        /\ pc[w] = "unborn" /\ pc'[w] = "check"
        /\ \A v \in Workers \ {w} : UNCHANGED <<pc[v], i[v], got[v]>>
    BY <1>2, <2>1 DEF SpawnWorker, queueVars
  <2>3. Turns'
    BY <2>2 DEF TaskInv, Turns
  <2>idle. pc[w] \notin AtWork /\ pc'[w] \notin AtWork
    BY <2>2 DEF AtWork
  <2>4. ASSUME NEW v \in Workers
        PROVE  \/ UNCHANGED <<pc[v], i[v], got[v]>>
               \/ pc[v] \notin AtWork /\ pc'[v] \notin AtWork
    <3>1. CASE v = w
      BY <2>idle, <3>1
    <3>2. CASE v # w
      BY <2>2, <3>2
    <3> QED BY <3>1, <3>2
  <2>5. Distinct' /\ Placed'
    BY <2>2, <2>4, TasksStay DEF TaskInv
  <2>6. Fresh'
    BY <2>2 DEF TaskInv, Fresh
  <2> QED BY <2>3, <2>5, <2>6 DEF TaskInv
<1>7. CASE SpawnThrows \/ Await \/ Destruct \/ JoinNext
  <2>1. UNCHANGED <<inner, last, outcome, pc, i, got>> /\ lifecycle' # "destroyed"
    BY <1>7 DEF SpawnThrows, Await, Destruct, JoinNext, queueVars
  <2>2. Turns' /\ Fresh'
    BY <2>1 DEF TaskInv, Turns, Fresh
  <2> QED BY <2>1, <2>2, TasksStay DEF TaskInv
<1>8. CASE DestroyQueue
  <2>1. /\ joined = Concurrency /\ inner' = [p \in Producers |-> <<>>]
        /\ outcome' = [t \in Tasks |-> IF Queued(t) THEN "dropped" ELSE outcome[t]]
        /\ UNCHANGED <<joined, pc, i, got, last>>
    BY <1>8 DEF DestroyQueue, Queue!Destroy, Producers
  <2>2. \A w \in Workers : pc[w] = "exited"
    BY <1>1, <2>1 DEF Locals, Workers
  <2>3. Distinct' /\ Placed' /\ Fresh'
    BY <1>1, <2>1, <2>2, DropTasks
  <2>4. Turns'
    BY <2>1, <2>2 DEF Turns
  <2> QED BY <2>3, <2>4 DEF TaskInv
<1> QED BY <1>3, <1>5, <1>6, <1>7, <1>8 DEF Next, Owner

-------------------------------------------------------------------------------
THEOREM TaskInvariance == Spec => []TaskInv
<1>1. IInv /\ TaskInv /\ [Next]_vars => TaskInv'
  <2> SUFFICES ASSUME IInv, TaskInv, [Next]_vars PROVE TaskInv'
    OBVIOUS
  <2>1. CASE UNCHANGED vars
    <3>1. UNCHANGED <<inner, last, outcome, pc, i, got, lifecycle, joined>>
      BY <2>1 DEF vars, poolVars, queueVars
    <3>2. Turns' /\ Fresh'
      BY <3>1 DEF TaskInv, Turns, Fresh
    <3> QED BY <3>1, <3>2, TasksStay DEF TaskInv
  <2> QED BY <2>1, TaskStep
<1> QED BY <1>1, InitTaskInv, Invariance, PTL DEF Spec

(* No task is lost, run twice or left in the queue once it has ended.      *)
THEOREM OnePlaceHolds == Spec => []OnePlace
<1>1. IInv /\ TaskInv => OnePlace
  <2> SUFFICES ASSUME IInv, TaskInv, NEW t \in 1..last
               PROVE  Cardinality({p \in Producers : \E k \in 1..Len(inner[p]) : inner[p][k] = t})
                         + Cardinality({w \in Workers : InBatch(w, t)})
                       = IF outcome[t] = "none" THEN 1 ELSE 0
    BY DEF OnePlace, Producers
  <2> DEFINE P == {p \in Producers : \E k \in 1..Len(inner[p]) : inner[p][k] = t}
             W == {w \in Workers : InBatch(w, t)}
  <2>1. t \in Tasks /\ t <= last
    BY PoolAssumption DEF IInv, TypeOK, PoolTypeOK, Tasks
  <2>2. \A p \in Producers : p \in P <=> \E k \in Nat : QueuedAt(p, k, t)
    <3>1. \A p \in Producers : \A k \in 1..Len(inner[p]) : k \in Nat
      BY DEF IInv, TypeOK, Queue!TypeOK, Producers
    <3> QED BY <3>1 DEF QueuedAt
  <2>3. \A w \in Workers : w \in W <=> \E k \in Nat : BatchedAt(w, k, t)
    <3>1. \A w \in Workers : \A k \in i[w]..Len(got[w]) : k \in Nat
      BY DEF IInv, TypeOK, PoolTypeOK, Queue!TypeOK, Clients
    <3> QED BY <3>1 DEF InBatch, BatchedAt, AtWork
  <2>4. P \subseteq Producers /\ W \subseteq Workers
    OBVIOUS
  <2> HIDE DEF P, W
  <2> SUFFICES Cardinality(P) + Cardinality(W) = IF outcome[t] = "none" THEN 1 ELSE 0
    BY DEF P, W
  <2>5. CASE outcome[t] # "none"
    <3>1. P = {} /\ W = {}
      BY <2>1, <2>2, <2>3, <2>4, <2>5 DEF TaskInv, Placed, Somewhere, Open
    <3>2. Cardinality(P) = 0 /\ Cardinality(W) = 0
      BY <3>1, FS_EmptySet, Zenon
    <3> QED BY <2>5, <3>2
  <2>6. CASE outcome[t] = "none"
    <3>1. (\E p \in Producers : p \in P) \/ (\E w \in Workers : w \in W)
      BY <2>1, <2>2, <2>3, <2>6 DEF TaskInv, Placed, Somewhere, Open
    <3>2. ASSUME NEW p \in Producers, p \in P
          PROVE  P = {p} /\ W = {}
      BY <2>1, <2>2, <2>3, <2>4, <3>2 DEF TaskInv, Distinct
    <3>3. ASSUME NEW w \in Workers, w \in W
          PROVE  W = {w} /\ P = {}
      BY <2>1, <2>2, <2>3, <2>4, <3>3 DEF TaskInv, Distinct
    <3>4. CASE \E p \in Producers : p \in P
      <4>1. Cardinality(P) = 1 /\ Cardinality(W) = 0
        BY <3>2, <3>4, FS_EmptySet, FS_Singleton, Zenon
      <4> QED BY <2>6, <4>1
    <3>5. CASE \E w \in Workers : w \in W
      <4>1. Cardinality(P) = 0 /\ Cardinality(W) = 1
        BY <3>3, <3>5, FS_EmptySet, FS_Singleton, Zenon
      <4> QED BY <2>6, <4>1
    <3> QED BY <3>1, <3>4, <3>5
  <2> QED BY <2>5, <2>6
<1> QED BY <1>1, Invariance, TaskInvariance, PTL

-------------------------------------------------------------------------------
(* The pool implements TaskLifecycle.  As no task is ever lost, what has   *)
(* become of one can be told without looking into the sub-queues.          *)
Held(t) == \E w \in Workers : InBatch(w, t)

Run(t) == \E w \in Workers : Running(w, t)

Seen(t) ==
    /\ t > last => State(t) = "new"
    /\ t <= last /\ outcome[t] # "none" => State(t) = outcome[t]
    /\ Open(t) /\ Run(t) => State(t) = "running"
    /\ Open(t) /\ ~Run(t) /\ Held(t) => State(t) = "claimed"
    /\ Open(t) /\ ~Run(t) /\ ~Held(t) => State(t) = "queued"
    /\ Held(t) => Open(t)
    /\ Run(t) => Held(t)

LEMMA StateSeen ==
    ASSUME NEW t \in Tasks
    PROVE  IInv /\ TaskInv => Seen(t)
<1> SUFFICES ASSUME IInv, TaskInv PROVE Seen(t)
  OBVIOUS
<1>1. t \in Nat /\ last \in Nat
  BY PoolAssumption DEF IInv, TypeOK, PoolTypeOK, Tasks
<1>2. Held(t) <=> \E w \in Workers, k \in Nat : BatchedAt(w, k, t)
  <2>1. \A w \in Workers : \A k \in i[w]..Len(got[w]) : k \in Nat
    BY DEF IInv, TypeOK, PoolTypeOK, Queue!TypeOK, Clients
  <2> QED BY <2>1 DEF Held, InBatch, BatchedAt, AtWork
<1>3. Held(t) => Open(t)
  BY <1>2 DEF TaskInv, Placed, Somewhere
<1>4. Run(t) => Held(t)
  BY DEF Run, Running, Held, InBatch, TaskInv, Turns, IInv, TypeOK, PoolTypeOK
<1>5. Open(t) /\ ~Held(t) => Queued(t)
  <2>1. \A p \in Producers : \A k \in Nat : QueuedAt(p, k, t) => Queued(t)
    BY DEF Queued, QueuedAt, Producers
  <2> QED BY <1>2, <2>1 DEF TaskInv, Placed, Somewhere
<1>6. State(t) = IF t > last THEN "new"
                 ELSE IF outcome[t] # "none" THEN outcome[t]
                 ELSE IF Run(t) THEN "running"
                 ELSE IF Held(t) THEN "claimed"
                 ELSE IF Queued(t) THEN "queued" ELSE "lost"
  BY DEF State, Run, Held
<1>7. t <= last => ~(t > last)
  BY <1>1
<1> QED BY <1>3, <1>4, <1>5, <1>6, <1>7 DEF Seen, Open

LEMMA StateSeenNext ==
    ASSUME NEW t \in Tasks
    PROVE  IInv' /\ TaskInv' => Seen(t)'
<1>1. IInv /\ TaskInv => Seen(t)
  BY StateSeen
<1> QED BY <1>1, PTL

(* A task that neither gets an outcome nor enters or leaves a batch, nor   *)
(* is started, is in the state it was in.                                  *)
LEMMA StateSame ==
    ASSUME IInv, TaskInv, IInv', TaskInv', NEW t \in Tasks,
           t <= last' <=> t <= last, outcome'[t] = outcome[t],
           Held(t)' <=> Held(t), Run(t)' <=> Run(t)
    PROVE  State(t)' = State(t)
<1>1. t \in Nat /\ last \in Nat /\ last' \in Nat
  BY PoolAssumption DEF IInv, TypeOK, PoolTypeOK, Tasks
<1>2. Open(t)' <=> Open(t)
  BY DEF Open
<1>3. Seen(t) /\ Seen(t)'
  BY StateSeen, StateSeenNext
<1>4. CASE t > last
  BY <1>1, <1>3, <1>4 DEF Seen
<1>5. CASE t <= last /\ outcome[t] # "none"
  BY <1>3, <1>5 DEF Seen
<1>6. CASE Open(t)
  BY <1>2, <1>3, <1>6 DEF Seen
<1> QED BY <1>1, <1>4, <1>5, <1>6 DEF Open

LEMMA Changes ==
    ASSUME NEW T \in SUBSET Tasks, NEW from, NEW to,
           lifecycle # "destroyed", UNCHANGED lifecycle,
           \A t \in T : State(t) = from /\ State(t)' = to,
           \A t \in Tasks \ T : State(t)' = State(t)
    PROVE  Lifecycle!Change(T, from, to)
<1>1. T \subseteq Lifecycle!In(from)
  BY DEF Lifecycle!In
<1>2. Lifecycle!Move(T, to)
  <2>1. \A t \in Tasks : State(t)' = IF t \in T THEN to ELSE State(t)
    OBVIOUS
  <2> QED BY <2>1 DEF Lifecycle!Move
<1> QED BY <1>1, <1>2 DEF Lifecycle!Change

LEMMA Stutters ==
    ASSUME \A t \in Tasks : State(t)' = State(t),
           lifecycle' # "destroyed" <=> lifecycle # "destroyed"
    PROVE  UNCHANGED Lifecycle!vars
<1>1. (lifecycle' # "destroyed") = (lifecycle # "destroyed")
  OBVIOUS
<1>2. [t \in Tasks |-> State(t)]' = [t \in Tasks |-> State(t)]
  OBVIOUS
<1> QED BY <1>1, <1>2 DEF Lifecycle!vars

(* Nobody calls, or works for, a pool that is destroyed. *)
LEMMA PoolIsOpen ==
    ASSUME IInv, TaskInv
    PROVE  /\ \A w \in Workers : pc[w] # "exited" => lifecycle # "destroyed"
           /\ \A c \in Clients : MayCall(c) => lifecycle # "destroyed"
<1>1. ASSUME NEW w \in Workers, pc[w] # "exited"
      PROVE  lifecycle # "destroyed"
  BY <1>1 DEF IInv, Locals, TaskInv, Turns, Workers
<1> QED BY <1>1 DEF MayCall

(* A step that starts and ends no task and fills no batch. *)
LEMMA StepStutters ==
    ASSUME IInv, TaskInv, IInv', TaskInv', UNCHANGED <<last, outcome>>,
           lifecycle' # "destroyed" <=> lifecycle # "destroyed",
           \A w \in Workers :
              \/ UNCHANGED <<pc[w], i[w], got[w]>>
              \/ /\ pc[w] \notin AtWork
                 /\ pc'[w] \notin AtWork \/ (pc'[w] = "filling" /\ i'[w] = 1 /\ got'[w] = <<>>)
    PROVE  UNCHANGED Lifecycle!vars
<1>1. ASSUME NEW t \in Tasks, NEW w \in Workers
      PROVE  (InBatch(w, t)' <=> InBatch(w, t)) /\ (Running(w, t)' <=> Running(w, t))
  <2>1. CASE UNCHANGED <<pc[w], i[w], got[w]>>
    BY <2>1 DEF InBatch, Running
  <2>2. CASE pc[w] \notin AtWork /\ pc'[w] \notin AtWork
    BY <2>2 DEF InBatch, Running, AtWork
  <2>3. CASE pc[w] \notin AtWork /\ pc'[w] = "filling" /\ i'[w] = 1 /\ got'[w] = <<>>
    BY <2>3 DEF InBatch, Running, AtWork
  <2> QED BY <2>1, <2>2, <2>3
<1>2. \A t \in Tasks : (Held(t)' <=> Held(t)) /\ (Run(t)' <=> Run(t))
  BY <1>1 DEF Held, Run
<1>3. \A t \in Tasks : State(t)' = State(t)
  BY <1>2, StateSame
<1> QED BY <1>3, Stutters

(* schedule, schedule_and_forget and schedule_bulk. *)
LEMMA EnqueueSubmits ==
    ASSUME IInv, TaskInv, IInv', TaskInv', NEW c \in Clients, NEW n \in Nat, Enqueue(c, n)
    PROVE  Lifecycle!Next
<1>1. /\ lifecycle # "destroyed" /\ UNCHANGED <<lifecycle, pc, i, got>> /\ last' = last + n
      /\ last \in Nat /\ \A t \in Tasks : t \in Nat
  <2>1. UNCHANGED got
    BY DEF Enqueue, Queue!Insert, queueVars
  <2>2. lifecycle # "destroyed" /\ UNCHANGED <<lifecycle, pc, i>> /\ last' = last + n
    BY PoolIsOpen DEF Enqueue
  <2> QED BY <2>1, <2>2, PoolAssumption DEF IInv, TypeOK, PoolTypeOK, Tasks
<1>2. \A t \in Tasks : (Held(t)' <=> Held(t)) /\ (Run(t)' <=> Run(t))
  BY <1>1 DEF Held, Run, InBatch, Running
<1> DEFINE T == {t \in Tasks : last < t /\ t <= last + n}
<1>3. ASSUME NEW t \in T
      PROVE  State(t) = "new" /\ ~Held(t)' /\ ~Run(t)' /\ t <= last'
  <2>1. t > last /\ ~Open(t)
    BY <1>1 DEF Open
  <2>2. Seen(t)
    BY StateSeen
  <2> QED BY <1>1, <1>2, <2>1, <2>2 DEF Seen
<1>4. ASSUME NEW t \in Tasks \ T, outcome'[t] = outcome[t]
      PROVE  State(t)' = State(t)
  <2>1. t <= last' <=> t <= last
    BY <1>1
  <2> QED BY <1>2, <1>4, <2>1, StateSame
<1>5. T \in SUBSET Tasks /\ \A t \in T : t \in Tasks
  OBVIOUS
<1>6. CASE UNCHANGED outcome
  <2>1. ASSUME NEW t \in T
        PROVE  State(t)' = "queued"
    <3>1. t > last /\ outcome'[t] = "none" /\ Seen(t)'
      BY <1>1, <1>6, StateSeenNext DEF TaskInv, Fresh
    <3>2. Open(t)'
      BY <1>3, <3>1 DEF Open
    <3> QED BY <1>3, <3>1, <3>2 DEF Seen
  <2>2. \A t \in Tasks \ T : State(t)' = State(t)
    BY <1>4, <1>6
  <2>3. \A t \in T : State(t) = "new"
    BY <1>3
  <2> HIDE DEF T
  <2>4. Lifecycle!Change(T, "new", "queued")
    BY <1>1, <1>5, <2>1, <2>2, <2>3, Changes
  <2> QED BY <1>5, <2>4 DEF Lifecycle!Next, Lifecycle!Submit
<1>7. CASE outcome' = [t \in Tasks |->
              IF t \in (last + 1)..(last + n) THEN "rejected" ELSE outcome[t]]
  <2>1. ASSUME NEW t \in T
        PROVE  State(t)' = "rejected"
    <3>1. t \in (last + 1)..(last + n) /\ Seen(t)'
      BY <1>1, StateSeenNext
    <3>2. outcome'[t] = "rejected"
      BY <1>7, <3>1
    <3> QED BY <1>3, <3>1, <3>2 DEF Seen
  <2>2. ASSUME NEW t \in Tasks \ T
        PROVE  State(t)' = State(t)
    <3>1. ~(t \in (last + 1)..(last + n))
      BY <1>1
    <3>2. outcome'[t] = outcome[t]
      BY <1>7, <3>1
    <3> QED BY <1>4, <3>2
  <2>3. \A t \in T : State(t) = "new"
    BY <1>3
  <2> HIDE DEF T
  <2>4. Lifecycle!Change(T, "new", "rejected")
    BY <1>1, <1>5, <2>1, <2>2, <2>3, Changes
  <2> QED BY <1>5, <2>4 DEF Lifecycle!Next, Lifecycle!Submit
<1> QED BY <1>6, <1>7 DEF Enqueue

(* The tasks that a pass of the dequeue loop finds are claimed. *)
LEMMA FillClaims ==
    ASSUME IInv, TaskInv, IInv', TaskInv', NEW w \in Workers, Fill(w)
    PROVE  Lifecycle!Next
<1>1. /\ pc[w] = "filling" /\ lifecycle # "destroyed"
      /\ UNCHANGED <<i, last, outcome, lifecycle>>
  BY PoolIsOpen DEF Fill
<1>2. PICK p \in Producers, n \in 1..owed[w] :
         /\ Queue!TryDequeueBulk(w, p, n)
         /\ pc' = [pc EXCEPT ![w] = IF n = owed[w] THEN "looping" ELSE @]
  BY DEF Fill, Producers
<1>3. /\ n \in Nat /\ n <= Len(inner[p]) /\ w \in Clients
      /\ got \in [Clients -> Seq(Tasks)] /\ inner[p] \in Seq(Tasks)
      /\ got' = [got EXCEPT ![w] = @ \o SubSeq(inner[p], 1, n)]
      /\ DOMAIN pc = Workers
  <2>1. p \in Producers /\ w \in Clients /\ PoolTypeOK /\ Queue!TypeOK
    BY DEF IInv, TypeOK, Clients
  <2>2. /\ owed \in [Clients -> Nat] /\ got \in [Clients -> Seq(Tasks)]
        /\ inner \in [Producers -> Seq(Tasks)]
    BY <2>1 DEF Queue!TypeOK, Producers
  <2>3. n \in Nat /\ DOMAIN pc = Workers /\ inner[p] \in Seq(Tasks)
    BY <2>1, <2>2 DEF PoolTypeOK
  <2> QED BY <1>2, <2>1, <2>2, <2>3 DEF Queue!TryDequeueBulk
<1>4. /\ pc'[w] \in {"filling", "looping"}
      /\ \A v \in Workers \ {w} : UNCHANGED <<pc[v], i[v], got[v]>>
  BY <1>1, <1>2, <1>3 DEF Clients
<1>5. \A t \in Tasks : Run(t)' <=> Run(t)
  <2>1. ASSUME NEW t \in Tasks, NEW v \in Workers
        PROVE  Running(v, t)' <=> Running(v, t)
    <3>1. CASE v = w
      BY <1>1, <1>4, <3>1 DEF Running
    <3>2. CASE v # w
      BY <1>4, <3>2 DEF Running
    <3> QED BY <3>1, <3>2
  <2> QED BY <2>1 DEF Run
<1>6. \A t \in Tasks : Held(t) => Held(t)'
  <2>1. ASSUME NEW t \in Tasks, NEW v \in Workers, InBatch(v, t)
        PROVE  InBatch(v, t)'
    <3>1. CASE v = w
      <4>1. PICK k \in i[w]..Len(got[w]) : got[w][k] = t
        BY <2>1, <3>1 DEF InBatch
      <4>2. PICK s \in Seq(Tasks) : s = SubSeq(inner[p], 1, n)
        <5>1. 1 \in Int /\ n \in Int /\ \A l \in 1..n : inner[p][l] \in Tasks
          BY <1>3
        <5>2. SubSeq(inner[p], 1, n) \in Seq(Tasks)
          BY <5>1, SubSeqProperties, Zenon
        <5> QED BY <5>2
      <4>3. got'[w] = got[w] \o s /\ got[w] \in Seq(Tasks)
        BY <1>3, <4>2
      <4>4. i[w] = 1
        BY <1>1 DEF TaskInv, Turns
      <4>5. k \in 1..Len(got[w]) /\ Len(got'[w]) = Len(got[w]) + Len(s)
            /\ Len(s) \in Nat /\ Len(got[w]) \in Nat
        BY <4>1, <4>3, <4>4
      <4>6. k \in i'[w]..Len(got'[w])
        BY <1>1, <4>4, <4>5
      <4>7. got'[w][k] = t
        BY <4>1, <4>3, <4>5
      <4> QED BY <1>4, <3>1, <4>6, <4>7 DEF InBatch
    <3>2. CASE v # w
      BY <1>4, <2>1, <3>2 DEF InBatch
    <3> QED BY <3>1, <3>2
  <2> QED BY <2>1 DEF Held
<1>7. PICK T \in SUBSET Tasks : T = {t \in Tasks : Held(t)' /\ ~Held(t)}
  OBVIOUS
<1>8. ASSUME NEW t \in T
      PROVE  State(t) = "queued" /\ State(t)' = "claimed"
  <2>1. t \in Tasks /\ Held(t)' /\ ~Held(t)
    BY <1>7
  <2>2. Seen(t) /\ Seen(t)'
    BY <2>1, StateSeen, StateSeenNext
  <2>3. ~Run(t) /\ Open(t)'
    BY <2>1, <2>2 DEF Seen
  <2>4. Open(t) <=> Open(t)'
    BY <1>1 DEF Open
  <2>5. ~Run(t)'
    BY <1>5, <2>1, <2>3
  <2> QED BY <2>1, <2>2, <2>3, <2>4, <2>5 DEF Seen
<1>9. ASSUME NEW t \in Tasks \ T
      PROVE  State(t)' = State(t)
  <2>1. Held(t)' <=> Held(t)
    BY <1>6, <1>7
  <2> QED BY <1>1, <1>5, <2>1, StateSame
<1>10. Lifecycle!Change(T, "queued", "claimed")
  BY <1>1, <1>8, <1>9, Changes
<1> QED BY <1>10 DEF Lifecycle!Next, Lifecycle!Claim

(* A worker calls the next task of its batch. *)
LEMMA StartStarts ==
    ASSUME IInv, TaskInv, IInv', TaskInv', NEW w \in Workers, StartTask(w)
    PROVE  Lifecycle!Next
<1>1. /\ pc[w] = "looping" /\ pc' = [pc EXCEPT ![w] = "running"] /\ lifecycle # "destroyed"
      /\ UNCHANGED <<i, got, last, outcome, lifecycle>> /\ DOMAIN pc = Workers
  BY PoolIsOpen DEF StartTask, queueVars, IInv, TypeOK, PoolTypeOK
<1>2. pc'[w] = "running" /\ \A v \in Workers \ {w} : pc'[v] = pc[v]
  BY <1>1
<1>3. i[w] \in 1..Len(got[w]) /\ i[w] \in Nat /\ got[w] \in Seq(Tasks)
  BY <1>1 DEF IInv, TypeOK, PoolTypeOK, Queue!TypeOK, TaskInv, Turns, Clients
<1>4. PICK u \in Tasks : u = got[w][i[w]]
  BY <1>3
<1>5. ASSUME NEW t \in Tasks
      PROVE  Held(t)' <=> Held(t)
  <2>1. ASSUME NEW v \in Workers
        PROVE  InBatch(v, t)' <=> InBatch(v, t)
    <3>1. CASE v = w
      BY <1>1, <1>2, <3>1 DEF InBatch
    <3>2. CASE v # w
      BY <1>1, <1>2, <3>2 DEF InBatch
    <3> QED BY <3>1, <3>2
  <2> QED BY <2>1 DEF Held
<1>6. ASSUME NEW t \in Tasks, t # u
      PROVE  Run(t)' <=> Run(t)
  <2>1. ASSUME NEW v \in Workers
        PROVE  Running(v, t)' <=> Running(v, t)
    <3>1. CASE v = w
      BY <1>1, <1>2, <1>4, <1>6, <3>1 DEF Running
    <3>2. CASE v # w
      BY <1>1, <1>2, <3>2 DEF Running
    <3> QED BY <3>1, <3>2
  <2> QED BY <2>1 DEF Run
<1>7. State(u) = "claimed"
  <2>1. BatchedAt(w, i[w], u)
    BY <1>1, <1>3, <1>4 DEF BatchedAt, AtWork
  <2>2. ~Run(u)
    <3>1. ASSUME NEW v \in Workers, Running(v, u)
          PROVE  FALSE
      <4>1. i[v] \in 1..Len(got[v]) /\ i[v] \in Nat /\ Len(got[v]) \in Nat
        BY <3>1 DEF Running, IInv, TypeOK, PoolTypeOK, Queue!TypeOK, TaskInv, Turns, Clients
      <4>2. BatchedAt(v, i[v], u)
        BY <3>1, <4>1 DEF BatchedAt, AtWork, Running
      <4>3. v = w
        BY <1>3, <2>1, <4>1, <4>2 DEF TaskInv, Distinct
      <4> QED BY <1>1, <3>1, <4>3 DEF Running
    <3> QED BY <3>1 DEF Run
  <2>3. Held(u)
    BY <1>1, <1>3, <1>4 DEF Held, InBatch
  <2> QED BY <2>2, <2>3, StateSeen DEF Seen
<1>8. State(u)' = "running"
  <2>1. Run(u)'
    BY <1>1, <1>2, <1>4 DEF Run, Running
  <2> QED BY <2>1, StateSeenNext DEF Seen
<1>9. \A t \in Tasks \ {u} : State(t)' = State(t)
  BY <1>1, <1>5, <1>6, StateSame
<1>10. Lifecycle!Change({u}, "claimed", "running")
  <2>1. {u} \in SUBSET Tasks
    OBVIOUS
  <2>2. \A t \in {u} : State(t) = "claimed" /\ State(t)' = "running"
    BY <1>7, <1>8
  <2> QED BY <1>1, <1>9, <2>1, <2>2, Changes
<1> QED BY <1>10 DEF Lifecycle!Next, Lifecycle!Start

(* A task returns, or throws what its packaged_task keeps. *)
LEMMA EndFinishes ==
    ASSUME IInv, TaskInv, IInv', TaskInv', NEW w \in Workers, pc[w] = "running",
           NEW result \in {"returned", "threw"}, EndTask(w, result),
           UNCHANGED <<last, got, lifecycle>>
    PROVE  Lifecycle!Next
<1>1. /\ DOMAIN pc = Workers /\ DOMAIN i = Workers /\ DOMAIN outcome = Tasks
      /\ i[w] \in 1..Len(got[w]) /\ i[w] \in Nat /\ got[w] \in Seq(Tasks)
      /\ Len(got[w]) \in Nat /\ lifecycle # "destroyed"
  <2>1. DOMAIN pc = Workers /\ DOMAIN i = Workers /\ DOMAIN outcome = Tasks /\ i[w] \in Nat
    BY DEF IInv, TypeOK, PoolTypeOK
  <2>2. got[w] \in Seq(Tasks) /\ Len(got[w]) \in Nat
    BY DEF IInv, TypeOK, Queue!TypeOK, Clients
  <2>3. i[w] \in 1..Len(got[w])
    BY DEF TaskInv, Turns
  <2>4. lifecycle # "destroyed"
    BY PoolIsOpen
  <2> QED BY <2>1, <2>2, <2>3, <2>4
<1>2. PICK u \in Tasks : u = got[w][i[w]]
  BY <1>1
<1>3. /\ outcome'[u] = result /\ \A t \in Tasks \ {u} : outcome'[t] = outcome[t]
      /\ i'[w] = i[w] + 1
      /\ pc'[w] = IF i[w] < Len(got[w]) THEN "looping" ELSE "check"
      /\ \A v \in Workers \ {w} : UNCHANGED <<pc[v], i[v], got[v]>>
  BY <1>1, <1>2 DEF EndTask
<1>4. ASSUME NEW t \in Tasks, t # u
      PROVE  (Held(t)' <=> Held(t)) /\ (Run(t)' <=> Run(t))
  <2>1. ASSUME NEW v \in Workers
        PROVE  (InBatch(v, t)' <=> InBatch(v, t)) /\ (Running(v, t)' <=> Running(v, t))
    <3>1. CASE v = w
      <4>1. ~Running(w, t) /\ ~Running(w, t)'
        BY <1>2, <1>3, <1>4 DEF Running
      <4>2. InBatch(w, t) <=> \E k \in i[w]..Len(got[w]) : got[w][k] = t
        BY DEF InBatch
      <4>3. InBatch(w, t)' <=> \E k \in (i[w] + 1)..Len(got[w]) :
                                  got[w][k] = t /\ i[w] < Len(got[w])
        BY <1>3 DEF InBatch
      <4>4. \A k \in i[w]..Len(got[w]) :
               k = i[w] \/ (k \in (i[w] + 1)..Len(got[w]) /\ i[w] < Len(got[w]))
        BY <1>1
      <4>5. \A k \in (i[w] + 1)..Len(got[w]) : k \in i[w]..Len(got[w])
        BY <1>1
      <4> QED BY <1>2, <1>4, <3>1, <4>1, <4>2, <4>3, <4>4, <4>5
    <3>2. CASE v # w
      BY <1>3, <3>2 DEF InBatch, Running
    <3> QED BY <3>1, <3>2
  <2> QED BY <2>1 DEF Held, Run
<1>5. State(u) = "running" /\ u <= last
  <2>1. Run(u)
    BY <1>2 DEF Run, Running
  <2> QED BY <2>1, StateSeen DEF Seen, Open
<1>6. State(u)' = result
  BY <1>3, <1>5, StateSeenNext DEF Seen
<1>7. \A t \in Tasks \ {u} : State(t)' = State(t)
  BY <1>3, <1>4, StateSame
<1>8. Lifecycle!Change({u}, "running", result)
  <2>1. {u} \in SUBSET Tasks
    OBVIOUS
  <2>2. \A t \in {u} : State(t) = "running" /\ State(t)' = result
    BY <1>5, <1>6
  <2> QED BY <1>1, <1>7, <2>1, <2>2, Changes
<1> QED BY <1>8 DEF Lifecycle!Next, Lifecycle!Finish

(* ~parameterized_pool_t: no task is claimed or running, those in the      *)
(* queue are dropped.                                                      *)
LEMMA DestroyCloses ==
    ASSUME IInv, TaskInv, IInv', TaskInv', DestroyQueue
    PROVE  Lifecycle!Next
<1>1. /\ joined = Concurrency /\ lifecycle # "destroyed" /\ lifecycle' = "destroyed"
      /\ outcome' = [t \in Tasks |-> IF Queued(t) THEN "dropped" ELSE outcome[t]]
      /\ UNCHANGED <<pc, last>>
  BY DEF DestroyQueue
<1>2. \A w \in Workers : pc[w] = "exited"
  BY <1>1 DEF IInv, Locals, Workers
<1>3. \A t \in Tasks : ~Held(t) /\ ~Run(t) /\ ~Held(t)' /\ ~Run(t)'
  BY <1>1, <1>2 DEF Held, Run, InBatch, Running
<1>4. /\ last \in Nat
      /\ \A t \in Tasks : t \in Nat /\ outcome[t] \notin {"claimed", "running", "queued"}
  <2>1. last \in Nat /\ \A t \in Tasks : t \in Nat
    BY PoolAssumption DEF IInv, TypeOK, PoolTypeOK, Tasks
  <2>2. \A t \in Tasks : outcome[t] \in {"none", "returned", "threw", "rejected", "dropped"}
    BY DEF IInv, TypeOK, PoolTypeOK
  <2>3. \A t \in Tasks : outcome[t] \notin {"claimed", "running", "queued"}
    BY <2>2
  <2> QED BY <2>1, <2>3
<1>5. ASSUME NEW t \in Tasks
      PROVE  /\ State(t) \notin {"claimed", "running"}
             /\ State(t) = "queued" <=> Open(t)
  <2>1. CASE t > last
    BY <1>4, <2>1, StateSeen DEF Seen, Open
  <2>2. CASE t <= last /\ outcome[t] # "none"
    BY <1>4, <2>2, StateSeen DEF Seen, Open
  <2>3. CASE Open(t)
    BY <1>3, <2>3, StateSeen DEF Seen
  <2> QED BY <1>4, <2>1, <2>2, <2>3 DEF Open
<1>6. ASSUME NEW t \in Tasks
      PROVE  Queued(t) <=> Open(t)
  <2>1. Queued(t) <=> \E p \in Producers, k \in Nat : QueuedAt(p, k, t)
    <3>1. \A p \in Producers : \A k \in 1..Len(inner[p]) : k \in Nat
      BY DEF IInv, TypeOK, Queue!TypeOK, Producers
    <3> QED BY <3>1 DEF Queued, QueuedAt, Producers
  <2>2. \A w \in Workers, k \in Nat : ~BatchedAt(w, k, t)
    BY <1>2 DEF BatchedAt, AtWork
  <2> QED BY <2>1, <2>2 DEF TaskInv, Placed, Somewhere
<1>7. ASSUME NEW t \in Tasks
      PROVE  State(t)' = IF Open(t) THEN "dropped" ELSE State(t)
  <2>1. CASE Open(t)
    <3>1. outcome'[t] = "dropped" /\ t <= last'
      BY <1>1, <1>6, <2>1 DEF Open
    <3> QED BY <2>1, <3>1, StateSeenNext DEF Seen
  <2>2. CASE ~Open(t)
    <3>1. outcome'[t] = outcome[t]
      BY <1>1, <1>6, <2>2
    <3> QED BY <1>1, <1>3, <2>2, <3>1, StateSame
  <2> QED BY <2>1, <2>2
<1>8. Lifecycle!In("claimed") \union Lifecycle!In("running") = {}
  BY <1>5 DEF Lifecycle!In
<1>9. Lifecycle!Move(Lifecycle!In("queued"), "dropped")
  <2>1. \A t \in Tasks : State(t)' = IF State(t) = "queued" THEN "dropped" ELSE State(t)
    BY <1>5, <1>7
  <2>2. \A t \in Tasks : t \in Lifecycle!In("queued") <=> State(t) = "queued"
    BY DEF Lifecycle!In
  <2> QED BY <2>1, <2>2 DEF Lifecycle!Move
<1>10. (lifecycle # "destroyed") /\ (lifecycle # "destroyed")' = FALSE
  BY <1>1
<1> QED BY <1>8, <1>9, <1>10 DEF Lifecycle!Next, Lifecycle!Close

LEMMA LifecycleStep ==
    ASSUME IInv, TaskInv, IInv', TaskInv', Next
    PROVE  Lifecycle!Next \/ UNCHANGED Lifecycle!vars
<1>1. DOMAIN pc = Workers /\ DOMAIN got = Clients /\ DOMAIN i = Workers
      /\ \A w \in Workers : w \in Clients
  BY DEF IInv, TypeOK, PoolTypeOK, Queue!TypeOK, Clients
<1>2. CASE \E c \in Clients : Client(c) \/ Signal(c)
  <2>1. PICK c \in Clients : Client(c) \/ Signal(c)
    BY <1>2
  <2>2. CASE Schedule(c) \/ ScheduleAndForget(c)
    BY <2>2, EnqueueSubmits DEF Schedule, ScheduleAndForget
  <2>3. CASE ScheduleBulk(c)
    <3>1. PICK n \in 1..MaxBulk : Enqueue(c, n)
      BY <2>3 DEF ScheduleBulk
    <3>2. n \in Nat
      BY PoolAssumption
    <3> QED BY <3>1, <3>2, EnqueueSubmits
  <2>4. CASE Stop(c) \/ Signal(c)
    <3>1. UNCHANGED <<last, outcome, pc, i, got, lifecycle>>
      BY <2>4 DEF Stop, Signal, Queue!SignalItems, poolVars, queueVars
    <3> QED BY <3>1, StepStutters
  <2> QED BY <2>1, <2>2, <2>3, <2>4 DEF Client
<1>3. ASSUME NEW w \in Workers, pc[w] \notin AtWork,
             UNCHANGED <<last, outcome>>,
             lifecycle' # "destroyed" <=> lifecycle # "destroyed",
             \A v \in Workers \ {w} : UNCHANGED <<pc[v], i[v], got[v]>>,
             pc'[w] \notin AtWork \/ (pc'[w] = "filling" /\ i'[w] = 1 /\ got'[w] = <<>>)
      PROVE  UNCHANGED Lifecycle!vars
  <2>1. ASSUME NEW v \in Workers
        PROVE  \/ UNCHANGED <<pc[v], i[v], got[v]>>
               \/ /\ pc[v] \notin AtWork
                  /\ pc'[v] \notin AtWork \/ (pc'[v] = "filling" /\ i'[v] = 1 /\ got'[v] = <<>>)
    <3>1. CASE v = w
      BY <1>3, <3>1
    <3>2. CASE v # w
      BY <1>3, <3>2
    <3> QED BY <3>1, <3>2
  <2> QED BY <1>3, <2>1, StepStutters
<1>4. CASE \E w \in Workers : Worker(w)
  <2>1. PICK w \in Workers : Worker(w)
    BY <1>4
  <2>2. CASE Check(w) \/ TimeOut(w)
    <3>1. /\ UNCHANGED <<last, outcome, i, lifecycle>>
          /\ pc[w] \in {"check", "waiting"} /\ pc'[w] \in {"exited", "waiting", "check"}
          /\ \A v \in Workers \ {w} : pc'[v] = pc[v]
      BY <1>1, <2>2 DEF Check, TimeOut
    <3>2. \A v \in Workers \ {w} : got'[v] = got[v]
      BY <1>1, <2>2 DEF Check, TimeOut, Queue!WaitDequeueBulk, Queue!TimeOut, queueVars
    <3>3. pc[w] \notin AtWork /\ pc'[w] \notin AtWork
      BY <3>1 DEF AtWork
    <3>4. \A v \in Workers \ {w} : UNCHANGED <<pc[v], i[v], got[v]>>
      BY <3>1, <3>2
    <3>5. UNCHANGED <<last, outcome>> /\ (lifecycle' # "destroyed" <=> lifecycle # "destroyed")
      BY <3>1
    <3> QED BY <1>3, <3>3, <3>4, <3>5
  <2>3. CASE Claim(w)
    <3>1. /\ UNCHANGED <<last, outcome, got, lifecycle>>
          /\ pc[w] = "waiting" /\ pc'[w] = "filling" /\ i'[w] = 1
          /\ \A v \in Workers \ {w} : UNCHANGED <<pc[v], i[v], got[v]>>
      BY <1>1, <2>3 DEF Claim, Queue!Acquire
    <3>2. got'[w] = <<>> /\ pc[w] \notin AtWork
      BY <3>1 DEF TaskInv, Turns, AtWork
    <3> QED BY <1>3, <3>1, <3>2
  <2>4. CASE Fill(w)
    BY <2>4, FillClaims
  <2>5. CASE StartTask(w)
    BY <2>5, StartStarts
  <2>6. CASE TaskEnds(w)
    <3>1. pc[w] = "running" /\ UNCHANGED <<got, last, lifecycle>>
      BY <2>6 DEF TaskEnds, TaskReturns, TaskThrows, queueVars
    <3>2. CASE EndTask(w, "returned")
      BY <3>1, <3>2, EndFinishes
    <3>3. CASE EndTask(w, "threw")
      BY <3>1, <3>3, EndFinishes
    <3>4. CASE UNCHANGED <<outcome, i, pc>>
      BY <3>1, <3>4, StepStutters
    <3> QED BY <2>6, <3>2, <3>3, <3>4 DEF TaskEnds, TaskReturns, TaskThrows
  <2> QED BY <2>1, <2>2, <2>3, <2>4, <2>5, <2>6 DEF Worker
<1>5. CASE \E w \in Workers : SpawnWorker(w)
  <2>1. PICK w \in Workers : SpawnWorker(w)
    BY <1>5
  <2>2. /\ UNCHANGED <<last, outcome, i, got>>
        /\ lifecycle # "destroyed" /\ lifecycle' # "destroyed"
        /\ pc[w] = "unborn" /\ pc'[w] = "check"
        /\ \A v \in Workers \ {w} : UNCHANGED <<pc[v], i[v], got[v]>>
    BY <1>1, <2>1 DEF SpawnWorker, queueVars
  <2>3. pc[w] \notin AtWork /\ pc'[w] \notin AtWork
    BY <2>2 DEF AtWork
  <2>4. \A v \in Workers \ {w} : UNCHANGED <<pc[v], i[v], got[v]>>
    BY <2>2
  <2>5. UNCHANGED <<last, outcome>> /\ (lifecycle' # "destroyed" <=> lifecycle # "destroyed")
    BY <2>2
  <2> QED BY <1>3, <2>3, <2>4, <2>5
<1>6. CASE SpawnThrows \/ Await \/ Destruct \/ JoinNext
  <2>1. /\ UNCHANGED <<last, outcome, pc, i, got>>
        /\ lifecycle # "destroyed" /\ lifecycle' # "destroyed"
    BY <1>6 DEF SpawnThrows, Await, Destruct, JoinNext, queueVars
  <2> QED BY <2>1, StepStutters
<1>7. CASE DestroyQueue
  BY <1>7, DestroyCloses
<1> QED BY <1>2, <1>4, <1>5, <1>6, <1>7 DEF Next, Owner

(* The pool keeps what TaskLifecycle promises about each task.             *)
THEOREM ImplementsLifecycle == Spec => Refinement
<1>1. Init => Lifecycle!Init
  <2> SUFFICES ASSUME Init PROVE Lifecycle!Init
    OBVIOUS
  <2>1. \A t \in Tasks : State(t) = "new"
    BY DEF Init, State, Tasks
  <2>2. (lifecycle # "destroyed") = TRUE
    BY DEF Init
  <2> QED BY <2>1, <2>2 DEF Lifecycle!Init
<1>2. IInv /\ TaskInv /\ IInv' /\ TaskInv' /\ [Next]_vars
      => [Lifecycle!Next]_Lifecycle!vars
  <2> SUFFICES ASSUME IInv, TaskInv, IInv', TaskInv', [Next]_vars
               PROVE  Lifecycle!Next \/ UNCHANGED Lifecycle!vars
    OBVIOUS
  <2>1. CASE UNCHANGED vars
    <3>1. UNCHANGED <<last, outcome, pc, i, got, lifecycle>>
      BY <2>1 DEF vars, poolVars, queueVars
    <3> QED BY <3>1, StepStutters
  <2> QED BY <2>1, LifecycleStep
<1> QED BY <1>1, <1>2, Invariance, TaskInvariance, PTL DEF Spec, Refinement, Lifecycle!Spec
===============================================================================
