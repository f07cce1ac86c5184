---------------------- MODULE LightweightSemaphoreProofs ----------------------
(***************************************************************************)
(* LightweightSemaphore for any finite set of threads and any bounds: its  *)
(* accounting is an invariant, no wakeup is lost, and it implements the    *)
(* abstract counting semaphore.                                            *)
(***************************************************************************)
EXTENDS LightweightSemaphore, TotalsProofs

(* How the number of waiters follows the pc of one thread. *)
LEMMA WaitingMoves ==
    ASSUME NEW t \in Threads, \A u \in Threads \ {t} : pc'[u] = pc[u]
    PROVE  Cardinality(Waiting') = Cardinality(Waiting)
              - (IF pc[t] \in Registered THEN 1 ELSE 0)
              + (IF pc'[t] \in Registered THEN 1 ELSE 0)
<1>1. IsFiniteSet(Waiting)
  <2>1. Waiting \in SUBSET Threads
    BY DEF Waiting
  <2> QED BY <2>1, ThreadsAssumption, FS_Subset
<1>2. Cardinality(Waiting) \in Nat
  BY <1>1, FS_CardinalityType
<1>3. t \in Waiting <=> pc[t] \in Registered
  BY DEF Waiting
<1>4. CASE pc'[t] \in Registered
  <2>1. Waiting' = Waiting \union {t}
    BY <1>4 DEF Waiting, Registered
  <2>2. Cardinality(Waiting \union {t})
        = IF t \in Waiting THEN Cardinality(Waiting) ELSE Cardinality(Waiting) + 1
    BY <1>1, FS_AddElement
  <2> QED BY <2>1, <2>2, <1>2, <1>3, <1>4
<1>5. CASE pc'[t] \notin Registered
  <2>1. Waiting' = Waiting \ {t}
    BY <1>5 DEF Waiting, Registered
  <2>2. Cardinality(Waiting \ {t})
        = IF t \in Waiting THEN Cardinality(Waiting) - 1 ELSE Cardinality(Waiting)
    BY <1>1, FS_RemoveElement
  <2> QED BY <2>1, <2>2, <1>2, <1>3, <1>5
<1> QED BY <1>4, <1>5

LEMMA CountsAreNat ==
    ASSUME TypeOK
    PROVE  Cardinality(Waiting) \in Nat /\ Pending \in Nat
<1>1. Waiting \in SUBSET Threads
  BY DEF Waiting
<1>2. Cardinality(Waiting) \in Nat
  BY <1>1, ThreadsAssumption, FS_Subset, FS_CardinalityType
<1>3. Pending \in Nat
  BY ThreadsAssumption, UnitsFinite DEF TypeOK, Pending
<1> QED BY <1>2, <1>3

LEMMA InitInvariant == Init => IInv
<1> SUFFICES ASSUME Init PROVE IInv
  OBVIOUS
<1>1. TypeOK
  BY DEF Init, TypeOK, Modes
<1>2. Locals
  BY DEF Init, Locals, LocalsOf, InCall, Registered
<1>3. Pending = 0
  BY <1>1, TotalZero, ThreadsAssumption DEF Init, TypeOK, Pending
<1>4. Cardinality(Waiting) = 0
  <2>1. Waiting = {}
    BY DEF Init, Waiting, Registered
  <2> QED BY <2>1, FS_EmptySet
<1>5. Accounting
  BY <1>3, <1>4 DEF Init, Accounting, Larger
<1> QED BY <1>1, <1>2, <1>5 DEF IInv

(* A step that touches the locals of one thread alone. *)
LEMMA LocalsMove ==
    ASSUME Locals, NEW t \in Threads, LocalsOf(t)',
           \A u \in Threads \ {t} :
              /\ pc'[u] = pc[u] /\ toRelease'[u] = toRelease[u]
              /\ max'[u] = max[u] /\ granted'[u] = granted[u]
              /\ mode'[u] = mode[u]
    PROVE  Locals'
BY DEF Locals, LocalsOf

(* The types and the locals of the calls, over one step. *)
LEMMA NextLocals == TypeOK /\ Locals /\ [Next]_vars => TypeOK' /\ Locals'
<1> SUFFICES ASSUME TypeOK, Locals, [Next]_vars
             PROVE  TypeOK' /\ Locals'
  OBVIOUS
<1> USE DEF TypeOK, InCall, Registered
<1>0. \A t \in Threads :
         /\ LocalsOf(t)
         /\ pc[t] \in InCall \union {"idle", "posting"}
         /\ max[t] \in Nat /\ granted[t] \in Nat /\ toRelease[t] \in Nat
  BY DEF Locals
<1>1. ASSUME NEW t \in Threads, NEW m \in Nat, m > 0, NEW timeout \in Modes,
             Call(t, m, timeout)
      PROVE  TypeOK' /\ Locals'
  <2>1. TypeOK'
    BY <1>0, <1>1 DEF Call
  <2>2. LocalsOf(t)'
    BY <1>0, <1>1 DEF Call, LocalsOf
  <2> QED BY <1>1, <2>1, <2>2, LocalsMove DEF Call
<1>2. ASSUME NEW t \in Threads,
             WaitMany(t) \/ Wait(t) \/ TryWaitMany(t) \/ TryWait(t)
      PROVE  TypeOK' /\ Locals'
  <2>1. PICK m \in (1..MaxBatch) \union {1}, timeout \in Modes : Call(t, m, timeout)
    BY <1>2 DEF WaitMany, Wait, TryWaitMany, TryWait, Modes
  <2>2. m \in Nat /\ m > 0
    <3>1. MaxBatch \in Nat
      BY BoundsAssumption
    <3> QED BY <3>1
  <2> QED BY <2>1, <2>2, <1>1
<1>3. ASSUME NEW t \in Threads, pc[t] \in {"trying", "more", "spinning"}, Grab(t)
      PROVE  TypeOK' /\ Locals'
  <2>1. TypeOK'
    BY <1>0, <1>3 DEF Grab, Smaller
  <2>2. LocalsOf(t)'
    BY <1>0, <1>3 DEF Grab, Smaller, LocalsOf
  <2> QED BY <1>3, <2>1, <2>2, LocalsMove DEF Grab, Smaller
<1>4. ASSUME NEW t \in Threads, TryMiss(t)
      PROVE  TypeOK' /\ Locals'
  <2>1. TypeOK'
    BY <1>0, <1>4 DEF TryMiss
  <2>2. LocalsOf(t)'
    BY <1>0, <1>4 DEF TryMiss, LocalsOf
  <2> QED BY <1>4, <2>1, <2>2, LocalsMove DEF TryMiss
<1>5. ASSUME NEW t \in Threads, FetchSub(t)
      PROVE  TypeOK' /\ Locals'
  <2>1. TypeOK'
    BY <1>0, <1>5 DEF FetchSub, Win
  <2>2. LocalsOf(t)'
    BY <1>0, <1>5 DEF FetchSub, Win, LocalsOf
  <2> QED BY <1>5, <2>1, <2>2, LocalsMove DEF FetchSub, Win
<1>6. ASSUME NEW t \in Threads, pc[t] \in Registered, TakePost(t)
      PROVE  TypeOK' /\ Locals'
  <2>1. TypeOK'
    BY <1>0, <1>6 DEF TakePost, Win
  <2>2. LocalsOf(t)'
    BY <1>0, <1>6 DEF TakePost, Win, LocalsOf
  <2> QED BY <1>6, <2>1, <2>2, LocalsMove DEF TakePost, Win
<1>7. ASSUME NEW t \in Threads, TimeOut(t)
      PROVE  TypeOK' /\ Locals'
  <2>1. TypeOK'
    BY <1>0, <1>7 DEF TimeOut
  <2>2. LocalsOf(t)'
    BY <1>0, <1>7 DEF TimeOut, LocalsOf
  <2> QED BY <1>7, <2>1, <2>2, LocalsMove DEF TimeOut
<1>8. ASSUME NEW t \in Threads, LoadCovered(t)
      PROVE  TypeOK' /\ Locals'
  <2>1. TypeOK'
    BY <1>0, <1>8 DEF LoadCovered
  <2>2. LocalsOf(t)'
    BY <1>0, <1>8 DEF LoadCovered, LocalsOf
  <2> QED BY <1>8, <2>1, <2>2, LocalsMove DEF LoadCovered
<1>9. ASSUME NEW t \in Threads, TryKernel(t)
      PROVE  TypeOK' /\ Locals'
  <2>1. CASE TakePost(t)
    BY <2>1, <1>6, <1>9 DEF TryKernel
  <2>2. CASE ~TakePost(t)
    <3>1. TypeOK'
      BY <2>2, <1>9 DEF TryKernel
    <3>2. LocalsOf(t)'
      BY <2>2, <1>0, <1>9 DEF TryKernel, LocalsOf
    <3> QED BY <2>2, <3>1, <3>2, <1>9, LocalsMove DEF TryKernel
  <2> QED BY <2>1, <2>2
<1>10. ASSUME NEW t \in Threads, Withdraw(t)
      PROVE  TypeOK' /\ Locals'
  <2>1. TypeOK'
    BY <1>0, <1>10 DEF Withdraw
  <2>2. LocalsOf(t)'
    BY <1>0, <1>10 DEF Withdraw, LocalsOf
  <2> QED BY <1>10, <2>1, <2>2, LocalsMove DEF Withdraw
<1>11. ASSUME NEW t \in Threads, NEW count \in 0..MaxSignal, Signal(t, count)
      PROVE  TypeOK' /\ Locals'
  <2>0. count \in Nat
    BY BoundsAssumption
  <2>1. TypeOK'
    BY <1>0, <1>11, <2>0 DEF Signal, Smaller
  <2>2. LocalsOf(t)'
    BY <1>0, <1>11, <2>0 DEF Signal, Smaller, LocalsOf
  <2> QED BY <1>11, <2>1, <2>2, LocalsMove DEF Signal
<1>12. ASSUME NEW t \in Threads, Post(t)
      PROVE  TypeOK' /\ Locals'
  <2>1. TypeOK'
    <3>1. toRelease[t] \in Nat \ {0}
      BY <1>0, <1>12 DEF Post, LocalsOf
    <3> QED BY <3>1, <1>12 DEF Post
  <2>2. LocalsOf(t)'
    BY <1>0, <1>12 DEF Post, LocalsOf
  <2> QED BY <1>12, <2>1, <2>2, LocalsMove DEF Post
<1>13. CASE UNCHANGED vars
  BY <1>13 DEF vars, Locals, LocalsOf
<1> QED
  BY <1>2, <1>3, <1>4, <1>5, <1>6, <1>7, <1>8, <1>9, <1>10, <1>11, <1>12, <1>13
  DEF Next, Step, TryTake, SpinTake, Wake, Readjust, WaitManyWithPartialSpinning

(* The accounting, over one step. *)
LEMMA NextAccounting == IInv /\ [Next]_vars => Accounting'
<1> SUFFICES ASSUME TypeOK, Locals, Accounting, [Next]_vars
             PROVE  Accounting'
  BY DEF IInv
<1> USE DEF TypeOK, Accounting, Registered, Larger
<1>1. Cardinality(Waiting) \in Nat /\ Pending \in Nat
  BY CountsAreNat
<1>2. ASSUME UNCHANGED toRelease
      PROVE  Pending' = Pending
  BY <1>2 DEF Pending
<1>3. ASSUME NEW t \in Threads, \A u \in Threads \ {t} : pc'[u] = pc[u]
      PROVE  Cardinality(Waiting') = Cardinality(Waiting)
                - (IF pc[t] \in Registered THEN 1 ELSE 0)
                + (IF pc'[t] \in Registered THEN 1 ELSE 0)
  <2> HIDE DEF Registered
  <2> QED BY <1>3, WaitingMoves
<1>4. ASSUME NEW t \in Threads,
             WaitMany(t) \/ Wait(t) \/ TryWaitMany(t) \/ TryWait(t)
      PROVE  Accounting'
  <2>1. PICK m, timeout : Call(t, m, timeout)
    BY <1>4 DEF WaitMany, Wait, TryWaitMany, TryWait
  <2>2. Cardinality(Waiting') = Cardinality(Waiting)
    BY <2>1, <1>1, <1>3 DEF Call
  <2> QED BY <2>1, <2>2, <1>2 DEF Call
<1>5. ASSUME NEW t \in Threads, pc[t] \in {"trying", "more", "spinning"}, Grab(t)
      PROVE  Accounting'
  <2>1. granted[t] \in Nat /\ max[t] \in Nat /\ granted[t] <= max[t]
    BY DEF Locals, LocalsOf
  <2>2. Larger(-mCount', 0) = 0 /\ Larger(-mCount, 0) = 0
    <3>1. PICK n \in Int : n <= mCount /\ mCount' = mCount - n /\ mCount > 0
      <4>1. Smaller(mCount, max[t] - granted[t]) \in Int
        BY <2>1 DEF Smaller
      <4>2. Smaller(mCount, max[t] - granted[t]) <= mCount
        BY <2>1 DEF Smaller
      <4> QED BY <4>1, <4>2, <1>5 DEF Grab
    <3> QED BY <3>1
  <2>3. Cardinality(Waiting') = Cardinality(Waiting)
    <3>1. pc' = [pc EXCEPT ![t] = "idle"]
      BY <1>5 DEF Grab
    <3> QED BY <1>1, <1>3, <1>5, <3>1
  <2> QED BY <2>2, <2>3, <1>2, <1>5 DEF Grab
<1>6. ASSUME NEW t \in Threads, TryMiss(t)
      PROVE  Accounting'
  <2>1. Cardinality(Waiting') = Cardinality(Waiting)
    BY <1>1, <1>3, <1>6 DEF TryMiss, InCall
  <2> QED BY <2>1, <1>1, <1>2, <1>6 DEF TryMiss
<1>7. ASSUME NEW t \in Threads, FetchSub(t)
      PROVE  Accounting'
  BY <1>1, <1>2, <1>3, <1>7 DEF FetchSub, Win
<1>8. ASSUME NEW t \in Threads, pc[t] \in Registered, TakePost(t)
      PROVE  Accounting'
  <2>1. Cardinality(Waiting') = Cardinality(Waiting) - 1
    BY <1>1, <1>3, <1>8 DEF TakePost, Win
  <2> QED BY <2>1, <1>1, <1>2, <1>8 DEF TakePost, Win
<1>9. ASSUME NEW t \in Threads, TimeOut(t) \/ LoadCovered(t)
      PROVE  Accounting'
  BY <1>1, <1>2, <1>3, <1>9 DEF TimeOut, LoadCovered
<1>10. ASSUME NEW t \in Threads, TryKernel(t)
       PROVE  Accounting'
  BY <1>1, <1>2, <1>3, <1>8, <1>10 DEF TryKernel
<1>11. ASSUME NEW t \in Threads, Withdraw(t)
       PROVE  Accounting'
  <2>1. Cardinality(Waiting') = Cardinality(Waiting) - 1
    BY <1>1, <1>3, <1>11 DEF Withdraw
  <2> QED BY <2>1, <1>1, <1>2, <1>11 DEF Withdraw
<1>12. ASSUME NEW t \in Threads, NEW count \in 0..MaxSignal, Signal(t, count)
       PROVE  Accounting'
  <2> DEFINE release == Smaller(-mCount, count)
  <2>1. count \in Nat
    BY BoundsAssumption
  <2>2. CASE release > 0
    <3>1. toRelease[t] = 0
      BY <1>12 DEF Locals, LocalsOf, Signal
    <3>2. Pending' = Pending + release
      <4>1. toRelease' = [toRelease EXCEPT ![t] = release] /\ release \in Nat
        BY <1>12, <2>1, <2>2 DEF Signal, Smaller
      <4>2. Total([toRelease EXCEPT ![t] = release])
            = Total(toRelease) - toRelease[t] + release
        BY <4>1, TotalExcept, ThreadsAssumption
      <4> QED BY <1>1, <3>1, <4>1, <4>2 DEF Pending
    <3>3. Cardinality(Waiting') = Cardinality(Waiting)
      BY <1>1, <1>3, <1>12, <2>2 DEF Signal
    <3> QED BY <1>1, <1>12, <2>1, <2>2, <3>2, <3>3 DEF Signal, Smaller
  <2>3. CASE ~(release > 0)
    <3>1. Pending' = Pending /\ Waiting' = Waiting
      BY <1>12, <2>3 DEF Signal, Pending, Waiting
    <3> QED BY <1>1, <1>12, <2>1, <2>3, <3>1 DEF Signal, Smaller
  <2> QED BY <2>2, <2>3
<1>13. ASSUME NEW t \in Threads, Post(t)
       PROVE  Accounting'
  <2>1. toRelease[t] \in Nat \ {0}
    BY <1>13 DEF Post, Locals, LocalsOf
  <2>2. Pending' = Pending - 1
    <3>1. toRelease[t] - 1 \in Nat
      BY <2>1
    <3>2. Total([toRelease EXCEPT ![t] = toRelease[t] - 1])
          = Total(toRelease) - toRelease[t] + (toRelease[t] - 1)
      BY <3>1, TotalExcept, ThreadsAssumption
    <3> QED BY <1>1, <1>13, <2>1, <3>2 DEF Post, Pending
  <2>3. Cardinality(Waiting') = Cardinality(Waiting)
    BY <1>1, <1>3, <1>13 DEF Post
  <2> QED BY <1>1, <1>13, <2>2, <2>3 DEF Post
<1>14. CASE UNCHANGED vars
  BY <1>14 DEF vars, Waiting, Pending
<1> QED
  BY <1>4, <1>5, <1>6, <1>7, <1>8, <1>9, <1>10, <1>11, <1>12, <1>13, <1>14
  DEF Next, Step, TryTake, SpinTake, Wake, Readjust, WaitManyWithPartialSpinning

(* The inductive invariant, of which the next theorems are consequences. *)
THEOREM Invariance == Spec => []IInv
<1>1. IInv /\ [Next]_vars => IInv'
  BY NextLocals, NextAccounting DEF IInv
<1> QED BY <1>1, InitInvariant, PTL DEF Spec

(* The semaphore and the locals of its callers keep their types. *)
THEOREM TypeCorrect == Spec => []TypeOK
<1>1. IInv => TypeOK
  BY DEF IInv
<1> QED BY <1>1, Invariance, PTL

(* Timeouts and posts always agree on which waiters are released. *)
THEOREM AccountingHolds == Spec => []Accounting
<1>1. IInv => Accounting
  BY DEF IInv
<1> QED BY <1>1, Invariance, PTL

(* When all calls have ended but those asleep, none sleeps by mistake. *)
THEOREM NoWakeupIsLost == Spec => []NoLostWakeup
<1>1. IInv => NoLostWakeup
  <2> SUFFICES ASSUME IInv, \A t \in Threads : pc[t] \in {"idle", "blocked"},
                      Waiting # {}, mSema = 0
               PROVE  Permits = 0
    BY DEF NoLostWakeup
  <2>1. TypeOK /\ Accounting
    BY DEF IInv
  <2>2. Pending = 0
    <3>1. toRelease \in [Threads -> Nat] /\ \A t \in Threads : toRelease[t] = 0
      BY DEF IInv, TypeOK, Locals, LocalsOf
    <3> QED BY <3>1, TotalZero, ThreadsAssumption DEF Pending
  <2>3. Cardinality(Waiting) \in Nat \ {0}
    <3>1. IsFiniteSet(Waiting)
      <4>1. Waiting \in SUBSET Threads
        BY DEF Waiting
      <4> QED BY <4>1, ThreadsAssumption, FS_Subset
    <3> QED BY <3>1, FS_EmptySet, FS_CardinalityType
  <2> QED BY <2>1, <2>2, <2>3 DEF TypeOK, Accounting, Permits, Larger
<1> QED BY <1>1, Invariance, PTL

(* A wait without a timeout, from first try to last, ends with a permit. *)
THEOREM ForeverHasAcquired == Spec => ForeverAcquires
<1> DEFINE Acquired ==
       \A t \in Threads :
          (pc[t] \in InCall /\ pc'[t] = "idle" /\ mode[t] = "forever")
          => granted'[t] >= 1
<1>1. IInv /\ [Next]_vars => [Acquired]_vars
  <2> SUFFICES ASSUME IInv, [Next]_vars, NEW t \in Threads,
                      pc[t] \in InCall, pc'[t] = "idle", mode[t] = "forever"
               PROVE  granted'[t] >= 1
    OBVIOUS
  <2>1. /\ TypeOK /\ LocalsOf(t)
        /\ mCount \in Int /\ max[t] \in Nat /\ granted[t] \in Nat
        /\ pc \in [Threads -> InCall \union {"idle", "posting"}]
        /\ granted \in [Threads -> Nat]
    BY DEF IInv, Locals, TypeOK
  <2> USE DEF InCall, Registered
  <2>2. ASSUME NEW u \in Threads,
               WaitMany(u) \/ Wait(u) \/ TryWaitMany(u) \/ TryWait(u)
        PROVE  FALSE
    <3>1. PICK m, timeout : Call(u, m, timeout)
      BY <2>2 DEF WaitMany, Wait, TryWaitMany, TryWait
    <3> QED BY <2>1, <3>1 DEF Call
  <2>3. ASSUME NEW u \in Threads, pc[u] \in {"trying", "more", "spinning"}, Grab(u)
        PROVE  granted'[t] >= 1
    <3>1. u = t
      BY <2>1, <2>3 DEF Grab
    <3>2. granted[t] < max[t]
      BY <2>1, <2>3, <3>1 DEF LocalsOf
    <3>3. Smaller(mCount, max[t] - granted[t]) \in Nat \ {0}
      BY <2>1, <2>3, <3>2 DEF Grab, Smaller
    <3>4. granted'[t] = granted[t] + Smaller(mCount, max[t] - granted[t])
      BY <2>1, <2>3, <3>1 DEF Grab
    <3> QED BY <2>1, <3>3, <3>4
  <2>4. ASSUME NEW u \in Threads, TryMiss(u)
        PROVE  granted'[t] >= 1
    BY <2>1, <2>4 DEF TryMiss, LocalsOf
  <2>5. ASSUME NEW u \in Threads, FetchSub(u)
        PROVE  granted'[t] >= 1
    BY <2>1, <2>5 DEF FetchSub, Win
  <2>6. ASSUME NEW u \in Threads, TakePost(u)
        PROVE  granted'[t] >= 1
    BY <2>1, <2>6 DEF TakePost, Win
  <2>7. ASSUME NEW u \in Threads, TimeOut(u) \/ LoadCovered(u)
        PROVE  FALSE
    BY <2>1, <2>7 DEF TimeOut, LoadCovered
  <2>8. ASSUME NEW u \in Threads, TryKernel(u)
        PROVE  granted'[t] >= 1
    BY <2>1, <2>6, <2>8 DEF TryKernel
  <2>9. ASSUME NEW u \in Threads, Withdraw(u)
        PROVE  FALSE
    BY <2>1, <2>9 DEF Withdraw, LocalsOf
  <2>10. ASSUME NEW u \in Threads, NEW count \in 0..MaxSignal, Signal(u, count)
         PROVE  FALSE
    BY <2>1, <2>10 DEF Signal
  <2>11. ASSUME NEW u \in Threads, Post(u)
         PROVE  FALSE
    BY <2>1, <2>11 DEF Post
  <2>12. CASE UNCHANGED vars
    BY <2>1, <2>12 DEF vars
  <2> QED
    BY <2>2, <2>3, <2>4, <2>5, <2>6, <2>7, <2>8, <2>9, <2>10, <2>11, <2>12
    DEF Next, Step, TryTake, SpinTake, Wake, Readjust, WaitManyWithPartialSpinning
<1> QED BY <1>1, Invariance, PTL DEF Spec, ForeverAcquires

-------------------------------------------------------------------------------
Calling == {t \in Threads : pc[t] \in InCall}

(* How the permits and the set of callers follow the pc of one thread. *)
LEMMA AbstractMoves ==
    ASSUME TypeOK, TypeOK',
           NEW t \in Threads, \A u \in Threads \ {t} : pc'[u] = pc[u]
    PROVE  /\ (pc[t] \in Registered <=> pc'[t] \in Registered)
                 => Permits' = Permits + (mCount' - mCount)
           /\ pc[t] \notin Registered /\ pc'[t] \in Registered
                 => Permits' = Permits + (mCount' - mCount) + 1
           /\ pc[t] \in Registered /\ pc'[t] \notin Registered
                 => Permits' = Permits + (mCount' - mCount) - 1
           /\ Calling' = IF pc'[t] \in InCall THEN Calling \union {t} ELSE Calling \ {t}
           /\ t \in Calling <=> pc[t] \in InCall
<1>1. Cardinality(Waiting) \in Nat
  BY CountsAreNat
<1>2. mCount \in Int /\ mCount' \in Int
  BY DEF TypeOK
<1>3. Cardinality(Waiting') = Cardinality(Waiting)
              - (IF pc[t] \in Registered THEN 1 ELSE 0)
              + (IF pc'[t] \in Registered THEN 1 ELSE 0)
  BY WaitingMoves
<1>4. /\ (pc[t] \in Registered <=> pc'[t] \in Registered)
            => Permits' = Permits + (mCount' - mCount)
      /\ pc[t] \notin Registered /\ pc'[t] \in Registered
            => Permits' = Permits + (mCount' - mCount) + 1
      /\ pc[t] \in Registered /\ pc'[t] \notin Registered
            => Permits' = Permits + (mCount' - mCount) - 1
  BY <1>1, <1>2, <1>3 DEF Permits
<1>5. Calling' = IF pc'[t] \in InCall THEN Calling \union {t} ELSE Calling \ {t}
  BY DEF Calling, InCall, Registered
<1>6. t \in Calling <=> pc[t] \in InCall
  BY DEF Calling
<1> QED BY <1>4, <1>5, <1>6

(* There are as many permits as the count, the kernel semaphore and the    *)
(* posts on their way make.                                                *)
LEMMA PermitsCounted ==
    ASSUME IInv
    PROVE  Permits \in Nat /\ Permits >= mSema /\ Permits >= mCount
<1>1. Cardinality(Waiting) \in Nat /\ Pending \in Nat
  BY CountsAreNat DEF IInv
<1> QED BY <1>1 DEF IInv, TypeOK, Accounting, Permits, Larger

(* A step of the semaphore is one of the abstract semaphore, or none. *)
LEMMA NextRefines == IInv /\ [Next]_vars => [Abstract!Next]_(Abstract!vars)
<1> SUFFICES ASSUME IInv, [Next]_vars
             PROVE  Abstract!Next \/ UNCHANGED <<Permits, Calling, max, granted>>
  BY DEF Abstract!vars, Calling
<1> USE DEF Registered, InCall
<1>0. /\ TypeOK /\ TypeOK'
      /\ Permits \in Nat /\ Permits >= mSema /\ Permits >= mCount
      /\ \A t \in Threads : LocalsOf(t)
  BY PermitsCounted, NextLocals DEF IInv, Locals
<1>00. /\ mCount \in Int /\ mCount' \in Int /\ mSema \in Nat
       /\ pc \in [Threads -> InCall \union {"idle", "posting"}]
       /\ max \in [Threads -> Nat] /\ granted \in [Threads -> Nat]
       /\ Permits' \in Int
  <2>1. TypeOK' => Cardinality(Waiting)' \in Nat
    <3>1. Waiting' \in SUBSET Threads
      BY DEF Waiting
    <3> QED BY <3>1, ThreadsAssumption, FS_Subset, FS_CardinalityType
  <2> QED BY <1>0, <2>1 DEF TypeOK, Permits
<1>1. ASSUME NEW t \in Threads, \A u \in Threads \ {t} : pc'[u] = pc[u]
      PROVE  /\ (pc[t] \in Registered <=> pc'[t] \in Registered)
                   => Permits' = Permits + (mCount' - mCount)
             /\ pc[t] \notin Registered /\ pc'[t] \in Registered
                   => Permits' = Permits + (mCount' - mCount) + 1
             /\ pc[t] \in Registered /\ pc'[t] \notin Registered
                   => Permits' = Permits + (mCount' - mCount) - 1
             /\ Calling' = IF pc'[t] \in InCall
                              THEN Calling \union {t} ELSE Calling \ {t}
             /\ t \in Calling <=> pc[t] \in InCall
  <2> HIDE DEF Registered, InCall
  <2> QED BY <1>0, <1>1, AbstractMoves
<1> DEFINE Same == UNCHANGED <<Permits, Calling, max, granted>>
           Goal == Abstract!Next \/ Same
<1>2. ASSUME NEW t \in Threads, NEW n \in 1..Permits,
             t \in Calling, granted[t] + n <= max[t], Permits' = Permits - n,
             granted' = [granted EXCEPT ![t] = @ + n],
             Calling' \in {Calling, Calling \ {t}}, UNCHANGED max
      PROVE  Goal
  BY <1>2 DEF Abstract!Next, Abstract!Take, Calling
<1>3. ASSUME NEW t \in Threads, t \in Calling, Calling' = Calling \ {t},
             UNCHANGED <<Permits, max, granted>>
      PROVE  Goal
  BY <1>3 DEF Abstract!Next, Abstract!Return, Calling
<1>4. ASSUME NEW t \in Threads,
             WaitMany(t) \/ Wait(t) \/ TryWaitMany(t) \/ TryWait(t)
      PROVE  Goal
  <2>1. PICK m \in (1..MaxBatch) \union {1}, timeout \in Modes : Call(t, m, timeout)
    BY <1>4 DEF WaitMany, Wait, TryWaitMany, TryWait, Modes
  <2>2. m \in Nat
    <3>1. MaxBatch \in Nat
      BY BoundsAssumption
    <3> QED BY <3>1
  <2>3. /\ t \notin Calling /\ Calling' = Calling \union {t} /\ Permits' = Permits
        /\ max'[t] = m
    <3>1. /\ \A u \in Threads \ {t} : pc'[u] = pc[u]
          /\ pc[t] = "idle" /\ pc'[t] = "trying" /\ mCount' = mCount /\ max'[t] = m
      BY <1>00, <2>1 DEF Call
    <3> QED BY <1>0, <1>00, <1>1, <3>1
  <2> QED BY <2>1, <2>2, <2>3 DEF Call, Abstract!Next, Abstract!Call, Calling
<1>5. ASSUME NEW t \in Threads, pc[t] \in {"trying", "more", "spinning"}, Grab(t)
      PROVE  Goal
  <2> DEFINE n == Smaller(mCount, max[t] - granted[t])
  <2>1. n \in 1..Permits /\ granted[t] + n <= max[t] /\ mCount' = mCount - n
    <3>1. granted[t] < max[t]
      BY <1>0, <1>00, <1>5 DEF LocalsOf
    <3> QED BY <1>0, <1>00, <1>5, <3>1 DEF Grab, Smaller
  <2>2. t \in Calling /\ Calling' = Calling \ {t} /\ Permits' = Permits - n
    <3>1. pc' = [pc EXCEPT ![t] = "idle"]
      BY <1>5 DEF Grab
    <3>2. (\A u \in Threads \ {t} : pc'[u] = pc[u]) /\ pc'[t] = "idle"
      BY <1>00, <3>1
    <3> HIDE DEF n
    <3>3. n \in Int
      BY <2>1, <1>0
    <3> QED BY <1>0, <1>00, <1>1, <1>5, <2>1, <3>2, <3>3
  <2> QED BY <1>2, <1>5, <2>1, <2>2 DEF Grab
<1>6. ASSUME NEW t \in Threads, TryMiss(t)
      PROVE  Goal
  <2>1. Permits' = Permits /\ t \in Calling
    <3>1. /\ \A u \in Threads \ {t} : pc'[u] = pc[u]
          /\ pc[t] \in {"trying", "more"} /\ pc'[t] \in {"spinning", "idle"} /\ mCount' = mCount
      BY <1>00, <1>6 DEF TryMiss
    <3> QED BY <1>0, <1>00, <1>1, <3>1
  <2>2. Calling' = Calling \/ Calling' = Calling \ {t}
    <3>1. \A u \in Threads \ {t} : pc'[u] = pc[u]
      BY <1>00, <1>6 DEF TryMiss
    <3>2. Calling' = Calling \union {t} \/ Calling' = Calling \ {t}
      BY <1>1, <3>1
    <3> QED BY <2>1, <3>2
  <2> QED BY <1>3, <1>6, <2>1, <2>2 DEF TryMiss
<1>7. ASSUME NEW t \in Threads, FetchSub(t)
      PROVE  Goal
  <2>1. t \in Calling /\ Calling' \in {Calling, Calling \ {t}}
    BY <1>00, <1>1, <1>7 DEF FetchSub, Win
  <2>2. CASE mCount > 0
    <3>1. Permits' = Permits - 1
      <4>1. /\ \A u \in Threads \ {t} : pc'[u] = pc[u]
            /\ pc[t] = "spinning" /\ pc'[t] \in {"more", "idle"} /\ mCount' = mCount - 1
        BY <1>00, <1>7, <2>2 DEF FetchSub, Win
      <4> QED BY <1>0, <1>00, <1>1, <4>1
    <3>2. granted[t] = 0 /\ max[t] > 0
      BY <1>0, <1>7 DEF FetchSub, LocalsOf
    <3>3. granted' = [granted EXCEPT ![t] = @ + 1] /\ UNCHANGED max
      BY <1>00, <1>7, <2>2, <3>2 DEF FetchSub, Win
    <3>4. 1 \in 1..Permits /\ granted[t] + 1 <= max[t]
      BY <1>0, <1>00, <2>2, <3>2
    <3> QED BY <1>2, <2>1, <3>1, <3>3, <3>4
  <2>3. CASE ~(mCount > 0)
    <3>1. Permits' = Permits /\ Calling' = Calling
      <4>1. /\ \A u \in Threads \ {t} : pc'[u] = pc[u]
            /\ pc[t] = "spinning" /\ pc'[t] \in {"readjust", "blocked"} /\ mCount' = mCount - 1
        BY <1>00, <1>7, <2>3 DEF FetchSub
      <4> QED BY <1>0, <1>00, <1>1, <4>1
    <3> QED BY <1>7, <2>3, <3>1 DEF FetchSub
  <2> QED BY <2>2, <2>3
<1>8. ASSUME NEW t \in Threads, pc[t] \in Registered, TakePost(t)
      PROVE  Goal
  <2>1. t \in Calling /\ Calling' \in {Calling, Calling \ {t}}
    BY <1>00, <1>1, <1>8 DEF TakePost, Win
  <2>2. Permits' = Permits - 1
    <3>1. /\ \A u \in Threads \ {t} : pc'[u] = pc[u]
          /\ pc[t] \in Registered /\ pc'[t] \in {"more", "idle"} /\ mCount' = mCount
      BY <1>00, <1>8 DEF TakePost, Win
    <3> QED BY <1>0, <1>00, <1>1, <3>1
  <2>3. granted[t] = 0 /\ max[t] > 0
    BY <1>0, <1>8 DEF LocalsOf
  <2>4. granted' = [granted EXCEPT ![t] = @ + 1] /\ UNCHANGED max
    BY <1>8, <2>3 DEF TakePost, Win
  <2>5. 1 \in 1..Permits /\ granted[t] + 1 <= max[t]
    BY <1>0, <1>00, <1>8, <2>3 DEF TakePost
  <2> QED BY <1>2, <2>1, <2>2, <2>4, <2>5
<1>9. ASSUME NEW t \in Threads, TimeOut(t) \/ LoadCovered(t)
      PROVE  Goal
  <2>1. Permits' = Permits /\ Calling' = Calling
    <3>1. /\ \A u \in Threads \ {t} : pc'[u] = pc[u]
          /\ pc[t] \in Registered /\ pc'[t] \in Registered /\ mCount' = mCount
      BY <1>00, <1>9 DEF TimeOut, LoadCovered
    <3>2. Permits' = Permits + (mCount' - mCount)
      BY <1>1, <3>1
    <3>3. Calling' = Calling
      BY <1>1, <3>1
    <3> QED BY <1>0, <1>00, <3>1, <3>2, <3>3
  <2> QED BY <1>9, <2>1 DEF TimeOut, LoadCovered
<1>10. ASSUME NEW t \in Threads, TryKernel(t)
       PROVE  Goal
  <2>1. CASE TakePost(t)
    BY <1>8, <1>10, <2>1 DEF TryKernel
  <2>2. CASE ~TakePost(t)
    <3>1. Permits' = Permits /\ Calling' = Calling
      <4>1. /\ \A u \in Threads \ {t} : pc'[u] = pc[u]
            /\ pc[t] \in Registered /\ pc'[t] = "readjust" /\ mCount' = mCount
        BY <1>00, <1>10, <2>2 DEF TryKernel
      <4> QED BY <1>0, <1>00, <1>1, <4>1
    <3> QED BY <1>10, <2>2, <3>1 DEF TryKernel
  <2> QED BY <2>1, <2>2
<1>11. ASSUME NEW t \in Threads, Withdraw(t)
       PROVE  Goal
  <2>1. Permits' = Permits /\ t \in Calling /\ Calling' = Calling \ {t}
    <3>1. /\ \A u \in Threads \ {t} : pc'[u] = pc[u]
          /\ pc[t] = "readjust" /\ pc'[t] = "idle" /\ mCount' = mCount + 1
      BY <1>00, <1>11 DEF Withdraw
    <3> QED BY <1>0, <1>00, <1>1, <3>1
  <2> QED BY <1>3, <1>11, <2>1 DEF Withdraw
<1>12. ASSUME NEW t \in Threads, NEW count \in 0..MaxSignal, Signal(t, count)
       PROVE  Goal
  <2>1. count \in Nat
    <3>1. MaxSignal \in Nat
      BY BoundsAssumption
    <3> QED BY <3>1
  <2>2. pc[t] = "idle" /\ (\A u \in Threads \ {t} : pc'[u] = pc[u])
        /\ pc'[t] \in {"idle", "posting"}
    BY <1>00, <1>12 DEF Signal
  <2>3. Permits' = Permits + count /\ Calling' = Calling
    <3>1. /\ \A u \in Threads \ {t} : pc'[u] = pc[u]
          /\ pc[t] = "idle" /\ pc'[t] \in {"idle", "posting"} /\ mCount' = mCount + count
      BY <1>00, <1>12, <2>2 DEF Signal
    <3>2. Permits' = Permits + (mCount' - mCount)
      BY <1>1, <3>1
    <3>3. Calling' = Calling
      BY <1>1, <3>1
    <3> QED BY <1>0, <1>00, <2>1, <3>1, <3>2, <3>3
  <2> QED BY <1>0, <1>12, <2>1, <2>3 DEF Signal, Abstract!Next, Abstract!Release, Calling
<1>13. ASSUME NEW t \in Threads, Post(t)
       PROVE  Goal
  <2>1. Permits' = Permits /\ Calling' = Calling
    <3>1. /\ \A u \in Threads \ {t} : pc'[u] = pc[u]
          /\ pc[t] = "posting" /\ pc'[t] \in {"idle", "posting"} /\ mCount' = mCount
      BY <1>00, <1>13 DEF Post
    <3> QED BY <1>0, <1>00, <1>1, <3>1
  <2> QED BY <1>13, <2>1 DEF Post
<1>14. CASE UNCHANGED vars
  BY <1>14 DEF vars, Permits, Waiting, Calling
<1> QED
  BY <1>4, <1>5, <1>6, <1>7, <1>8, <1>9, <1>10, <1>11, <1>12, <1>13, <1>14
  DEF Next, Step, TryTake, SpinTake, Wake, Readjust, WaitManyWithPartialSpinning

(* LightweightSemaphore is a counting semaphore, whatever the number of    *)
(* threads: no timeout loses or invents a permit.                          *)
THEOREM ImplementsSemaphore == Spec => Refinement
<1>1. Init => Abstract!Init
  <2> SUFFICES ASSUME Init PROVE Abstract!Init
    OBVIOUS
  <2>1. Waiting = {} /\ {t \in Threads : pc[t] \in InCall} = {}
    BY DEF Init, Waiting, Registered, InCall
  <2>2. Permits = 0
    BY <2>1, FS_EmptySet DEF Init, Permits
  <2> QED BY <2>1, <2>2 DEF Init, Abstract!Init
<1> QED BY <1>1, NextRefines, Invariance, PTL DEF Spec, Refinement, Abstract!Spec
===============================================================================
