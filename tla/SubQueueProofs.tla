---------------------------- MODULE SubQueueProofs ----------------------------
(***************************************************************************)
(* Theorems about SubQueue, for any number of consumers, any modulus and   *)
(* any start: however the counters wrap around, no element is counted      *)
(* twice or given up, and no consumer is granted one that is not there.    *)
(***************************************************************************)
EXTENDS SubQueue, TotalsProofs, SequenceTheorems, TLAPS

(* The bounds of a run. *)
LEMMA Bounds ==
    /\ Modulus \in Nat /\ Modulus \div 2 \in Nat /\ Modulus = 2 * (Modulus \div 2)
    /\ Start \in Index /\ 0 \in Index
    /\ MaxElements \in Nat /\ MaxReserved \in Nat /\ MaxBatch \in Nat
    /\ MaxElements + MaxReserved < Modulus \div 2
<1>1. Modulus \in Nat /\ Modulus \div 2 \in Nat /\ Modulus = 2 * (Modulus \div 2)
  BY SubQueueAssumption
<1> QED BY <1>1, SubQueueAssumption DEF Index

-------------------------------------------------------------------------------
(* Arithmetic of indexes: one turn at most is added or taken off. *)
LEMMA OneTurn ==
    ASSUME NEW x \in Int
    PROVE  /\ 0 <= x /\ x < Modulus => x % Modulus = x
           /\ -Modulus <= x /\ x < 0 => x % Modulus = x + Modulus
           /\ Modulus <= x /\ x < 2 * Modulus => x % Modulus = x - Modulus
BY Bounds

LEMMA AddIs ==
    ASSUME NEW a \in Index, NEW n \in Nat, n < Modulus
    PROVE  Add(a, n) = IF a + n < Modulus THEN a + n ELSE a + n - Modulus
<1>1. a + n \in Int /\ 0 <= a + n /\ a + n < 2 * Modulus /\ Modulus \in Nat /\ Modulus > 0
  BY Bounds DEF Index
<1> QED BY <1>1, OneTurn DEF Add, Index

LEMMA SubtractIs ==
    ASSUME NEW a \in Index, NEW b \in Index
    PROVE  Subtract(a, b) = IF a >= b THEN a - b ELSE a - b + Modulus
<1>1. /\ a - b \in Int /\ -Modulus < a - b /\ a - b < Modulus
      /\ Modulus \in Nat /\ Modulus > 0 /\ a \in Int /\ b \in Int
  BY Bounds DEF Index
<1> QED BY <1>1, OneTurn DEF Subtract

LEMMA IndexIsClosed ==
    ASSUME NEW a \in Index
    PROVE  /\ a \in Nat /\ a < Modulus
           /\ \A n \in Nat : n < Modulus => Add(a, n) \in Index
           /\ \A b \in Index : Subtract(a, b) \in Index
<1>1. \A n \in Nat : n < Modulus => Add(a, n) \in Index
  BY AddIs, Bounds DEF Index
<1>2. \A b \in Index : Subtract(a, b) \in Index
  BY SubtractIs, Bounds DEF Index
<1> QED BY <1>1, <1>2, Bounds DEF Index

(* A counter that advances by n is n further from where it started. *)
LEMMA Advance ==
    ASSUME NEW a \in Index, NEW s \in Index, NEW n \in Nat,
           Subtract(a, s) + n < Modulus
    PROVE  Add(a, n) \in Index /\ Subtract(Add(a, n), s) = Subtract(a, s) + n
<1>1. Subtract(a, s) = IF a >= s THEN a - s ELSE a - s + Modulus
  BY SubtractIs
<1>2. n < Modulus
  BY <1>1, Bounds DEF Index
<1>3. Add(a, n) = IF a + n < Modulus THEN a + n ELSE a + n - Modulus
  BY <1>2, AddIs
<1>4. Add(a, n) \in Index
  BY <1>2, IndexIsClosed
<1>5. Subtract(Add(a, n), s) = IF Add(a, n) >= s THEN Add(a, n) - s ELSE Add(a, n) - s + Modulus
  BY <1>4, SubtractIs
<1> QED BY <1>1, <1>3, <1>4, <1>5, Bounds DEF Index

(* How far one counter is ahead of another. *)
LEMMA Ahead ==
    ASSUME NEW a \in Index, NEW b \in Index, NEW s \in Index,
           Subtract(b, s) <= Subtract(a, s)
    PROVE  Subtract(a, b) = Subtract(a, s) - Subtract(b, s)
<1>1. /\ Subtract(a, b) = IF a >= b THEN a - b ELSE a - b + Modulus
      /\ Subtract(a, s) = IF a >= s THEN a - s ELSE a - s + Modulus
      /\ Subtract(b, s) = IF b >= s THEN b - s ELSE b - s + Modulus
  BY SubtractIs
<1> QED BY <1>1, Bounds DEF Index

LEMMA Behind ==
    ASSUME NEW a \in Index, NEW b \in Index, NEW s \in Index,
           Subtract(a, s) < Subtract(b, s)
    PROVE  Subtract(a, b) = Subtract(a, s) - Subtract(b, s) + Modulus
<1>1. /\ Subtract(a, b) = IF a >= b THEN a - b ELSE a - b + Modulus
      /\ Subtract(a, s) = IF a >= s THEN a - s ELSE a - s + Modulus
      /\ Subtract(b, s) = IF b >= s THEN b - s ELSE b - s + Modulus
  BY SubtractIs
<1> QED BY <1>1, Bounds DEF Index

(* The counters start at Start, dequeueOptimisticCount at twice Start. *)
LEMMA TwiceStart == Add(Start, Start) \in Index
BY Bounds, IndexIsClosed

(* The difference of the reservations and of those in vain.  *)
LEMMA NetIs ==
    ASSUME NEW o \in Index, NEW v \in Index
    PROVE  /\ Subtract(o, v) \in Index
           /\ \/ Subtract(o, v) - Start = Subtract(o, Add(Start, Start)) - Subtract(v, Start)
              \/ Subtract(o, v) - Start = Subtract(o, Add(Start, Start)) - Subtract(v, Start) - Modulus
              \/ Subtract(o, v) - Start = Subtract(o, Add(Start, Start)) - Subtract(v, Start) + Modulus
<1> DEFINE twice == Add(Start, Start)
<1>1. twice = Start + Start \/ twice = Start + Start - Modulus
  BY Bounds, AddIs, IndexIsClosed
<1>2. Subtract(o, v) = o - v \/ Subtract(o, v) = o - v + Modulus
  BY SubtractIs
<1>3. Subtract(o, twice) = o - twice \/ Subtract(o, twice) = o - twice + Modulus
  BY SubtractIs, TwiceStart
<1>4. Subtract(v, Start) = v - Start \/ Subtract(v, Start) = v - Start + Modulus
  BY SubtractIs, Bounds
<1>5. Subtract(o, v) \in Index /\ Subtract(o, twice) \in Index /\ Subtract(v, Start) \in Index
  BY IndexIsClosed, TwiceStart, Bounds
<1> HIDE DEF twice
<1>6. /\ o \in Int /\ v \in Int /\ Start \in Int /\ Modulus \in Int /\ twice \in Int
      /\ Subtract(o, v) \in 0..(Modulus - 1) /\ Subtract(o, twice) \in 0..(Modulus - 1)
      /\ Subtract(v, Start) \in 0..(Modulus - 1) /\ Start \in 0..(Modulus - 1)
  BY <1>1, <1>5, Bounds DEF Index
<1> QED BY <1>1, <1>2, <1>3, <1>4, <1>5, <1>6 DEF twice

(* What a consumer takes for the number of elements, from counters of      *)
(* different moments, is negative or exact: it never wraps around.         *)
LEMMA EstimateIs ==
    ASSUME NEW t \in Index, NEW o \in Index, NEW v \in Index,
           NEW e \in Int,
           e = Subtract(t, Start) - Subtract(o, Add(Start, Start)) + Subtract(v, Start),
           Subtract(t, Start) <= MaxElements,
           Subtract(o, Add(Start, Start)) <= MaxReserved,
           Subtract(v, Start) <= MaxReserved
    PROVE  /\ circular_less_than(0, Subtract(t, Subtract(o, v))) <=> e > 0
           /\ e > 0 => Subtract(t, Subtract(o, v)) = e
<1> DEFINE net == Subtract(o, v)
           x == Subtract(t, net)
           T == Subtract(t, Start)
           O == Subtract(o, Add(Start, Start))
           V == Subtract(v, Start)
<1>1. net \in Index /\ x \in Index /\ T \in Index /\ O \in Index /\ V \in Index
  BY IndexIsClosed, TwiceStart, Bounds
<1>2. net - Start = O - V \/ net - Start = O - V - Modulus \/ net - Start = O - V + Modulus
  BY NetIs
<1>3. x = t - net \/ x = t - net + Modulus
  BY <1>1, SubtractIs
<1>4. T = t - Start \/ T = t - Start + Modulus
  BY SubtractIs, Bounds
<1>5. Subtract(0, x) = IF 0 >= x THEN 0 - x ELSE 0 - x + Modulus
  BY <1>1, SubtractIs, Bounds
<1>6. e = T - O + V /\ T <= MaxElements /\ O <= MaxReserved /\ V <= MaxReserved
  OBVIOUS
<1> HIDE DEF net, x, T, O, V
<1>7. /\ t \in Int /\ Start \in Int /\ net \in Int
      /\ x \in Nat /\ x < Modulus /\ T \in Nat /\ O \in Nat /\ V \in Nat /\ Modulus \in Nat
  BY <1>1, Bounds DEF Index
<1>8. x = e \/ x = e + Modulus
  <2>1. -(Modulus \div 2) < e /\ e < Modulus \div 2
    BY <1>6, <1>7, Bounds
  <2>2. x - e \in {-2 * Modulus, -Modulus, 0, Modulus, 2 * Modulus}
    BY <1>2, <1>3, <1>4, <1>6, <1>7
  <2> QED BY <1>7, <2>1, <2>2, Bounds
<1>9. (Subtract(0, x) > Modulus \div 2 <=> e > 0) /\ (e > 0 => x = e)
  BY <1>5, <1>6, <1>7, <1>8, Bounds
<1> QED BY <1>9 DEF circular_less_than, x, net

-------------------------------------------------------------------------------
(* The counters as if they had started at zero and never wrapped around.   *)
Published == Subtract(tailIndex, Start)
Dequeued == Subtract(headIndex, Start)
Attempted == Subtract(dequeueOptimisticCount, Add(Start, Start))
Failed == Subtract(dequeueOvercommit, Start)

(* What a consumer that has made a reservation has got from the counters:  *)
(* where its reservation begins and how many it saw had failed before.     *)
Position(c) == Subtract(index[c], Add(Start, Start))
Seen(c) == Subtract(loaded[c]["overcommit"], Start)

Labels == {"idle", "load", "check", "giveBack", "take", "move"}

TypeOK ==
    /\ permits \in BOOLEAN
    /\ tailIndex \in Index /\ headIndex \in Index
    /\ dequeueOptimisticCount \in Index /\ dequeueOvercommit \in Index
    /\ slot \in [Index -> Nat]
    /\ produced \in 0..MaxElements /\ pending \in 0..produced
    /\ pc \in [Consumers -> Labels]
    /\ unloaded \in [Consumers -> SUBSET Loads]
    /\ loaded \in [Consumers -> [Loads -> Index]]
    /\ count \in [Consumers -> Nat]
    /\ excess \in [Consumers -> Nat]
    /\ index \in [Consumers -> Index]
    /\ got \in [Consumers -> Seq(Nat)]

(* A consumer has loaded what a counter was at some time, and they grow. *)
LocalsOf(c) ==
    /\ pc[c] = "idle" => count[c] = 0
    /\ pc[c] \in {"load", "check", "take", "move"} => count[c] > 0
    /\ pc[c] = "load" =>
         /\ "tail" \notin unloaded[c] => Subtract(loaded[c]["tail"], Start) <= Published
         /\ "optimistic" \notin unloaded[c] =>
               Subtract(loaded[c]["optimistic"], Add(Start, Start)) <= Attempted
         /\ "overcommit" \notin unloaded[c] => Seen(c) <= Failed
    /\ pc[c] = "check" => Seen(c) <= Failed /\ Position(c) + count[c] <= Attempted
    /\ pc[c] # "giveBack" => excess[c] = 0

Locals == \A c \in Consumers : LocalsOf(c)

(* Balance, without the turns of the counters. *)
Counters ==
    /\ Published = produced - pending
    /\ Attempted = Failed + Dequeued + Total(Reserved)
    /\ Reservations <= MaxReserved

(* What c is granted at most, what has been granted, and what may yet be   *)
(* to those who reserved before it. *)
Claims(c) ==
    [d \in Consumers |->
        IF \/ pc[d] \in {"giveBack", "take"}
           \/ pc[d] = "check" /\ Position(d) <= Position(c)
        THEN count[d] ELSE 0]

(* All that was and may be granted to the reservations up to that of c is  *)
(* there, or fits before its end: as many as c saw had failed by then have *)
(* failed before it, and will not be claimed.                              *)
Limited ==
    /\ Dequeued + Total(Granted) <= Published
    /\ \A c \in Consumers : pc[c] = "check" =>
          \/ Dequeued + Total(Claims(c)) <= Published
          \/ Dequeued + Total(Claims(c)) <= Position(c) + count[c] - Seen(c)

(* Callers with permits ask for no more than there is. *)
Permitted ==
    permits =>
        /\ Failed = 0
        /\ Dequeued + Total(Asked) <= Published
        /\ \A c \in Consumers : pc[c] # "giveBack"

IInv == TypeOK /\ Locals /\ Counters /\ Limited /\ Permitted

-------------------------------------------------------------------------------
(* What consumers have counted on, in the state Load. *)
Loading == [c \in Consumers |-> IF pc[c] = "load" THEN count[c] ELSE 0]

TotalsTyped ==
    /\ Reserved \in [Consumers -> Nat] /\ Total(Reserved) \in Nat
    /\ Granted \in [Consumers -> Nat] /\ Total(Granted) \in Nat
    /\ Asked \in [Consumers -> Nat] /\ Total(Asked) \in Nat
    /\ Loading \in [Consumers -> Nat] /\ Total(Loading) \in Nat
    /\ \A c \in Consumers : Claims(c) \in [Consumers -> Nat] /\ Total(Claims(c)) \in Nat

CountersTyped ==
    /\ Published \in Nat /\ Published < Modulus
    /\ Dequeued \in Nat /\ Dequeued < Modulus
    /\ Attempted \in Nat /\ Attempted < Modulus
    /\ Failed \in Nat /\ Failed < Modulus
    /\ \A c \in Consumers : Position(c) \in Nat /\ Seen(c) \in Nat

LEMMA TypesDerived == TypeOK => TotalsTyped /\ CountersTyped
<1> SUFFICES ASSUME TypeOK PROVE TotalsTyped /\ CountersTyped
  OBVIOUS
<1>1. /\ Reserved \in [Consumers -> Nat] /\ Granted \in [Consumers -> Nat]
      /\ Asked \in [Consumers -> Nat] /\ Loading \in [Consumers -> Nat]
      /\ \A c \in Consumers : Claims(c) \in [Consumers -> Nat]
  BY DEF TypeOK, Reserved, Granted, Asked, Loading, Claims
<1>2. TotalsTyped
  BY <1>1, UnitsFinite, SubQueueAssumption DEF TotalsTyped
<1>3. \A c \in Consumers : index[c] \in Index /\ loaded[c]["overcommit"] \in Index
  BY DEF TypeOK, Loads
<1>4. /\ Published \in Index /\ Dequeued \in Index /\ Attempted \in Index /\ Failed \in Index
      /\ \A c \in Consumers : Position(c) \in Index /\ Seen(c) \in Index
  BY <1>3, IndexIsClosed, TwiceStart, Bounds
     DEF TypeOK, Published, Dequeued, Attempted, Failed, Position, Seen
<1> QED BY <1>2, <1>4, IndexIsClosed DEF CountersTyped

LEMMA TypesDerivedNext == TypeOK' => TotalsTyped' /\ CountersTyped'
BY TypesDerived, PTL

(* What a step of c adds to the totals and takes from them. *)
Others(c) ==
    \A d \in Consumers \ {c} :
        /\ pc'[d] = pc[d] /\ count'[d] = count[d] /\ excess'[d] = excess[d]
        /\ index'[d] = index[d] /\ loaded'[d] = loaded[d] /\ unloaded'[d] = unloaded[d]

LEMMA TotalsMove ==
    ASSUME TypeOK, TypeOK', NEW c \in Consumers, Others(c)
    PROVE  /\ Total(Reserved)' = Total(Reserved) - Reserved[c] + Reserved'[c]
           /\ Total(Granted)' = Total(Granted) - Granted[c] + Granted'[c]
           /\ Total(Asked)' = Total(Asked) - Asked[c] + Asked'[c]
           /\ Total(Loading)' = Total(Loading) - Loading[c] + Loading'[c]
<1>1. \A d \in Consumers \ {c} :
         /\ Reserved'[d] = Reserved[d] /\ Granted'[d] = Granted[d]
         /\ Asked'[d] = Asked[d] /\ Loading'[d] = Loading[d]
  BY DEF Others, Reserved, Granted, Asked, Loading
<1>2. TotalsTyped /\ TotalsTyped'
  BY TypesDerived, TypesDerivedNext
<1>3. /\ Reserved \in [Consumers -> Nat] /\ Reserved' \in [Consumers -> Nat]
      /\ Granted \in [Consumers -> Nat] /\ Granted' \in [Consumers -> Nat]
      /\ Asked \in [Consumers -> Nat] /\ Asked' \in [Consumers -> Nat]
      /\ Loading \in [Consumers -> Nat] /\ Loading' \in [Consumers -> Nat]
  BY <1>2 DEF TotalsTyped
<1>4. /\ Total(Reserved') = Total(Reserved) - Reserved[c] + Reserved'[c]
      /\ Total(Granted') = Total(Granted) - Granted[c] + Granted'[c]
      /\ Total(Asked') = Total(Asked) - Asked[c] + Asked'[c]
      /\ Total(Loading') = Total(Loading) - Loading[c] + Loading'[c]
  BY <1>1, <1>3, TotalChange, SubQueueAssumption
<1> QED BY <1>4 DEF Total, Units

LEMMA ClaimsMove ==
    ASSUME TypeOK, TypeOK', NEW c \in Consumers, Others(c), NEW d \in Consumers \ {c}
    PROVE  Total(Claims(d))' = Total(Claims(d)) - Claims(d)[c] + Claims(d)'[c]
<1>1. \A e \in Consumers \ {c} : Claims(d)'[e] = Claims(d)[e]
  BY DEF Others, Claims, Position
<1>2. TotalsTyped /\ TotalsTyped'
  BY TypesDerived, TypesDerivedNext
<1>3. Claims(d) \in [Consumers -> Nat] /\ Claims(d)' \in [Consumers -> Nat]
  BY <1>2 DEF TotalsTyped
<1>4. Total(Claims(d)') = Total(Claims(d)) - Claims(d)[c] + Claims(d)'[c]
  BY <1>1, <1>3, TotalChange, SubQueueAssumption
<1> QED BY <1>4 DEF Total, Units

-------------------------------------------------------------------------------
LEMMA InitIInv == Init => IInv
<1> SUFFICES ASSUME Init PROVE IInv
  OBVIOUS
<1>1. TypeOK
  BY TwiceStart, Bounds, SubQueueAssumption DEF Init, Nothing, TypeOK, Labels, Loads
<1>2. Published = 0 /\ Dequeued = 0 /\ Attempted = 0 /\ Failed = 0
  BY SubtractIs, TwiceStart, Bounds
     DEF Init, Published, Dequeued, Attempted, Failed, Index
<1>3. TotalsTyped
  BY <1>1, TypesDerived
<1>4. Total(Reserved) = 0 /\ Total(Granted) = 0 /\ Total(Asked) = 0 /\ Total(Loading) = 0
  <2>1. \A c \in Consumers : Reserved[c] = 0 /\ Granted[c] = 0 /\ Asked[c] = 0 /\ Loading[c] = 0
    BY DEF Init, Reserved, Granted, Asked, Loading
  <2> QED BY <1>3, <2>1, TotalZero, SubQueueAssumption DEF TotalsTyped
<1>5. Locals
  BY DEF Init, Locals, LocalsOf
<1>6. Counters
  BY <1>2, <1>4, Bounds DEF Init, Counters, Reservations, Attempted, Loading
<1>7. Limited /\ Permitted
  BY <1>2, <1>4 DEF Init, Limited, Permitted
<1> QED BY <1>1, <1>5, <1>6, <1>7 DEF IInv

-------------------------------------------------------------------------------
(* What the producer does leaves the consumers alone. *)
LEMMA ProducerIInv ==
    ASSUME IInv, NEW n \in Nat, Construct(n) \/ Publish
    PROVE  IInv'
<1>0. /\ pending \in Nat /\ produced \in Nat /\ n \in Nat
      /\ Published = produced - pending /\ produced <= MaxElements
      /\ tailIndex \in Index /\ TypeOK
  BY Bounds DEF IInv, TypeOK, Counters
<1>1. TypeOK' /\ Published' = produced' - pending' /\ Published' >= Published
  <2>1. CASE Construct(n)
    <3>1. slot' \in [Index -> Nat]
      <4>1. \A i \in Index : Subtract(i, tailIndex) \in Nat
        BY <1>0, IndexIsClosed
      <4>2. \A i \in Index : slot[i] \in Nat
        BY <1>0 DEF TypeOK
      <4> QED BY <1>0, <2>1, <4>1, <4>2 DEF Construct
    <3>2. produced' \in 0..MaxElements /\ pending' \in 0..produced'
          /\ produced' - pending' = produced - pending
      BY <1>0, <2>1, Bounds DEF Construct
    <3>3. Published' = Published
      BY <2>1 DEF Construct, counters, Published
    <3> QED BY <1>0, <2>1, <3>1, <3>2, <3>3 DEF TypeOK, Construct, counters
  <2>2. CASE Publish
    <3>1. Published + pending < Modulus
      BY <1>0, Bounds
    <3>2. Add(tailIndex, pending) \in Index
          /\ Subtract(Add(tailIndex, pending), Start) = Published + pending
      BY <1>0, <3>1, Advance, Bounds DEF Published
    <3>3. Published' = Published + pending
      BY <2>2, <3>2 DEF Publish, Published
    <3>4. TypeOK'
      BY <1>0, <2>2, <3>2 DEF TypeOK, Publish
    <3> QED BY <1>0, <2>2, <3>3, <3>4 DEF Publish
  <2> QED BY <2>1, <2>2
<1>2. /\ UNCHANGED <<permits, headIndex, dequeueOptimisticCount, dequeueOvercommit>>
      /\ UNCHANGED <<pc, unloaded, loaded, count, excess, index>>
  BY DEF Construct, Publish, counters
<1>3. /\ UNCHANGED <<Dequeued, Attempted, Failed>>
      /\ UNCHANGED <<Reserved, Granted, Asked, Loading, Reservations>>
      /\ \A c \in Consumers : UNCHANGED <<Position(c), Seen(c), Claims(c)>>
  BY <1>2 DEF Dequeued, Attempted, Failed, Reserved, Granted, Asked, Loading, Reservations,
              Position, Seen, Claims
<1>4. /\ UNCHANGED <<Total(Reserved), Total(Granted), Total(Asked)>>
      /\ \A c \in Consumers : UNCHANGED Total(Claims(c))
  BY <1>3 DEF Total, Units
<1>5. CountersTyped /\ CountersTyped' /\ TotalsTyped
  BY <1>0, <1>1, TypesDerived, TypesDerivedNext
<1>6. Locals'
  <2> SUFFICES ASSUME NEW c \in Consumers PROVE LocalsOf(c)'
    BY DEF Locals
  <2>1. LocalsOf(c)
    BY DEF IInv, Locals
  <2>2. "tail" \in Loads /\ loaded[c]["tail"] \in Index
    BY <1>0 DEF TypeOK, Loads
  <2>3. Subtract(loaded[c]["tail"], Start) \in Nat
    BY <2>2, IndexIsClosed, Bounds
  <2> QED BY <1>1, <1>2, <1>3, <1>5, <2>1, <2>3 DEF LocalsOf, CountersTyped
<1>7. Counters'
  BY <1>1, <1>2, <1>3, <1>4 DEF IInv, Counters
<1>8. Limited' /\ Permitted'
  BY <1>1, <1>2, <1>3, <1>4, <1>5 DEF IInv, Limited, Permitted, CountersTyped, TotalsTyped
<1> QED BY <1>1, <1>6, <1>7, <1>8 DEF IInv

(* The parts of IInv, for a step of one consumer. *)
LEMMA LocalsMove ==
    ASSUME IInv, TypeOK', NEW c \in Consumers, Others(c), LocalsOf(c)',
           Published' = Published, Attempted' >= Attempted, Failed' >= Failed
    PROVE  Locals'
<1> SUFFICES ASSUME NEW d \in Consumers \ {c} PROVE LocalsOf(d)'
  BY DEF Locals
<1>1. LocalsOf(d) /\ TypeOK
  BY DEF IInv, Locals
<1>2. /\ pc'[d] = pc[d] /\ count'[d] = count[d] /\ excess'[d] = excess[d]
      /\ index'[d] = index[d] /\ loaded'[d] = loaded[d] /\ unloaded'[d] = unloaded[d]
  BY DEF Others
<1>3. Position(d)' = Position(d) /\ Seen(d)' = Seen(d)
  BY <1>2 DEF Position, Seen
<1>4. CountersTyped /\ CountersTyped'
  BY <1>1, TypesDerived, TypesDerivedNext
<1>5. Subtract(loaded[d]["optimistic"], Add(Start, Start)) \in Nat /\ count[d] \in Nat
  <2>1. loaded[d]["optimistic"] \in Index
    BY <1>1 DEF TypeOK, Loads
  <2> QED BY <1>1, <2>1, IndexIsClosed, TwiceStart DEF TypeOK
<1> QED BY <1>1, <1>2, <1>3, <1>4, <1>5 DEF LocalsOf, CountersTyped

LEMMA CountersMove ==
    ASSUME IInv, TypeOK', NEW c \in Consumers, Others(c),
           UNCHANGED <<tailIndex, produced, pending>>,
           Attempted' - Attempted
              = (Failed' - Failed) + (Dequeued' - Dequeued) + (Reserved'[c] - Reserved[c]),
           \/ Attempted' + Loading'[c] <= Attempted + Loading[c]
           \/ Reservations' <= MaxReserved
    PROVE  Counters'
<1>1. /\ TypeOK /\ CountersTyped /\ CountersTyped' /\ TotalsTyped /\ TotalsTyped'
  BY TypesDerived, TypesDerivedNext DEF IInv
<1>2. /\ Total(Reserved)' = Total(Reserved) - Reserved[c] + Reserved'[c]
      /\ Total(Loading)' = Total(Loading) - Loading[c] + Loading'[c]
  BY <1>1, TotalsMove
<1>3. /\ Reserved[c] \in Nat /\ Reserved'[c] \in Nat /\ Loading[c] \in Nat /\ Loading'[c] \in Nat
  BY <1>1 DEF TotalsTyped
<1>4. Reservations = Attempted + Total(Loading) /\ Reservations' = Attempted' + Total(Loading)'
  BY DEF Reservations, Attempted, Loading
<1>5. Published' = produced' - pending'
  BY DEF IInv, Counters, Published
<1>6. Attempted' = Failed' + Dequeued' + Total(Reserved)'
  <2>1. Attempted = Failed + Dequeued + Total(Reserved)
    BY DEF IInv, Counters
  <2>2. /\ Attempted \in Nat /\ Failed \in Nat /\ Dequeued \in Nat /\ Total(Reserved) \in Nat
        /\ Attempted' \in Nat /\ Failed' \in Nat /\ Dequeued' \in Nat /\ Total(Reserved)' \in Nat
    BY <1>1 DEF CountersTyped, TotalsTyped
  <2> QED BY <1>2, <1>3, <2>1, <2>2
<1>7. Reservations' <= MaxReserved
  BY <1>1, <1>2, <1>3, <1>4, Bounds DEF IInv, Counters, CountersTyped, TotalsTyped
<1> QED BY <1>5, <1>6, <1>7 DEF Counters

LEMMA LimitedMove ==
    ASSUME IInv, TypeOK', NEW c \in Consumers, Others(c),
           pc[c] # "check", pc'[c] # "check", Published' = Published,
           Dequeued' + Granted'[c] = Dequeued + Granted[c]
    PROVE  Limited'
<1>1. /\ TypeOK /\ CountersTyped /\ CountersTyped' /\ TotalsTyped /\ TotalsTyped'
  BY TypesDerived, TypesDerivedNext DEF IInv
<1>2. Granted[c] \in Nat /\ Granted'[c] \in Nat
  BY <1>1 DEF TotalsTyped
<1>3. Dequeued' + Total(Granted)' = Dequeued + Total(Granted)
  <2>1. Total(Granted)' = Total(Granted) - Granted[c] + Granted'[c]
    BY <1>1, TotalsMove
  <2>2. Total(Granted) \in Nat /\ Dequeued \in Nat /\ Dequeued' \in Nat
    BY <1>1 DEF CountersTyped, TotalsTyped
  <2> QED BY <1>2, <2>1, <2>2
<1>4. ASSUME NEW d \in Consumers \ {c}
      PROVE  Dequeued' + Total(Claims(d))' = Dequeued + Total(Claims(d))
  <2>1. Claims(d)[c] = Granted[c] /\ Claims(d)'[c] = Granted'[c]
    BY DEF Claims, Granted
  <2>2. Total(Claims(d))' = Total(Claims(d)) - Claims(d)[c] + Claims(d)'[c]
    BY <1>1, ClaimsMove
  <2>3. Total(Claims(d)) \in Nat /\ Dequeued \in Nat /\ Dequeued' \in Nat
    BY <1>1 DEF CountersTyped, TotalsTyped
  <2> QED BY <1>2, <2>1, <2>2, <2>3
<1>5. \A d \in Consumers \ {c} :
         /\ pc'[d] = pc[d] /\ count'[d] = count[d]
         /\ Position(d)' = Position(d) /\ Seen(d)' = Seen(d)
  BY DEF Others, Position, Seen
<1> QED BY <1>3, <1>4, <1>5 DEF IInv, Limited

LEMMA PermittedMove ==
    ASSUME IInv, TypeOK', NEW c \in Consumers, Others(c),
           permits' = permits, Published' = Published,
           permits => /\ Failed' = Failed /\ pc'[c] # "giveBack"
                      /\ Dequeued' + Asked'[c] <= Dequeued + Asked[c]
    PROVE  Permitted'
<1>1. /\ TypeOK /\ CountersTyped /\ CountersTyped' /\ TotalsTyped /\ TotalsTyped'
  BY TypesDerived, TypesDerivedNext DEF IInv
<1>2. Asked[c] \in Nat /\ Asked'[c] \in Nat
  BY <1>1 DEF TotalsTyped
<1>3. permits => Dequeued' + Total(Asked)' <= Published'
  BY <1>1, <1>2, TotalsMove DEF IInv, Permitted, CountersTyped, TotalsTyped
<1> QED BY <1>3 DEF IInv, Permitted, Others

-------------------------------------------------------------------------------
LEMMA CallIInv ==
    ASSUME IInv, NEW c \in Consumers, NEW max \in 1..MaxBatch, Call(c, max)
    PROVE  IInv'
<1>0. TypeOK /\ LocalsOf(c) /\ max \in Nat /\ max > 0 /\ pc[c] = "idle"
  BY Bounds DEF IInv, Locals, Call
<1>1. TypeOK'
  BY <1>0 DEF TypeOK, Call, Goto, counters, producer, Labels
<1>2. Others(c)
  BY <1>0 DEF Others, TypeOK, Call, Goto
<1>3. pc'[c] = "load" /\ count'[c] = max /\ unloaded'[c] = Loads /\ excess'[c] = 0
      /\ count[c] = 0 /\ excess[c] = 0
  BY <1>0 DEF TypeOK, LocalsOf, Call, Goto
<1>4. UNCHANGED <<permits, tailIndex, produced, pending>>
      /\ UNCHANGED <<Published, Dequeued, Attempted, Failed>>
  BY DEF Call, counters, producer, Published, Dequeued, Attempted, Failed
<1>5. /\ Reserved[c] = 0 /\ Reserved'[c] = 0 /\ Granted[c] = 0 /\ Granted'[c] = 0
      /\ Loading[c] = 0 /\ Loading'[c] = max /\ Asked[c] = 0 /\ Asked'[c] = max
  BY <1>0, <1>3 DEF Reserved, Granted, Loading, Asked
<1>6. CountersTyped /\ TotalsTyped
  BY <1>0, TypesDerived
<1>7. Total(Loading)' = Total(Loading) + max /\ Total(Asked)' = Total(Asked) + max
  BY <1>0, <1>1, <1>2, <1>5, <1>6, TotalsMove DEF TotalsTyped
<1>8. LocalsOf(c)' /\ Locals'
  <2>1. LocalsOf(c)'
    BY <1>0, <1>3 DEF LocalsOf, Loads
  <2> QED BY <1>1, <1>2, <1>4, <1>6, <2>1, LocalsMove DEF CountersTyped
<1>9. Counters'
  <2>1. Reservations' = Reservations + max
    <3>1. Reservations = Attempted + Total(Loading) /\ Reservations' = Attempted' + Total(Loading)'
      BY DEF Reservations, Attempted, Loading
    <3> QED BY <1>0, <1>4, <1>6, <1>7, <3>1 DEF CountersTyped, TotalsTyped
  <2>2. Reservations' <= MaxReserved
    BY <2>1 DEF Call
  <2> QED BY <1>1, <1>2, <1>4, <1>5, <1>6, <2>2, CountersMove DEF CountersTyped
<1>10. Limited'
  BY <1>0, <1>1, <1>2, <1>3, <1>4, <1>5, LimitedMove
<1>11. Permitted'
  <2>1. ASSUME permits PROVE Dequeued + Total(Asked) + max <= Published
    <3>1. Total(Asked) + max <= Available
      BY <2>1 DEF Call
    <3>2. Dequeued <= Published
      BY <1>6 DEF IInv, Limited, CountersTyped, TotalsTyped
    <3>3. Available = Published - Dequeued
      BY <1>0, <3>2, Ahead, Bounds DEF TypeOK, Available, Published, Dequeued
    <3> QED BY <1>0, <1>6, <3>1, <3>3 DEF CountersTyped, TotalsTyped
  <2>2. permits' => Dequeued' + Total(Asked)' <= Published'
    BY <1>0, <1>4, <1>6, <1>7, <2>1 DEF CountersTyped, TotalsTyped
  <2>3. permits' => Failed' = 0 /\ \A d \in Consumers : pc'[d] # "giveBack"
    BY <1>2, <1>3, <1>4 DEF IInv, Permitted, Others
  <2> QED BY <2>2, <2>3 DEF Permitted
<1> QED BY <1>1, <1>8, <1>9, <1>10, <1>11 DEF IInv

LEMMA LoadIInv ==
    ASSUME IInv, NEW c \in Consumers, NEW l \in Loads, Load(c, l)
    PROVE  IInv'
<1>0. TypeOK /\ LocalsOf(c) /\ pc[c] = "load" /\ pc'[c] = "load"
  BY DEF IInv, Locals, Load
<1>1. TypeOK'
  BY <1>0 DEF TypeOK, Load, Loads, counters, producer
<1>2. Others(c)
  BY <1>0 DEF Others, TypeOK, Load
<1>3. UNCHANGED <<permits, tailIndex, produced, pending, pc, count, excess>>
      /\ UNCHANGED <<Published, Dequeued, Attempted, Failed>>
  BY DEF Load, counters, producer, Published, Dequeued, Attempted, Failed
<1>4. /\ Reserved'[c] = Reserved[c] /\ Granted'[c] = Granted[c]
      /\ Loading'[c] = Loading[c] /\ Asked'[c] = Asked[c]
  BY <1>3 DEF Reserved, Granted, Loading, Asked
<1>5. CountersTyped /\ TotalsTyped
  BY <1>0, TypesDerived
<1>6. /\ Reserved[c] \in Nat /\ Granted[c] \in Nat /\ Loading[c] \in Nat /\ Asked[c] \in Nat
  BY <1>5 DEF TotalsTyped
<1>7. LocalsOf(c)'
  <2>1. /\ unloaded'[c] = unloaded[c] \ {l}
        /\ \A m \in Loads \ {l} : loaded'[c][m] = loaded[c][m]
        /\ loaded'[c][l] = CASE l = "tail" -> tailIndex
                             [] l = "overcommit" -> dequeueOvercommit
                             [] l = "optimistic" -> dequeueOptimisticCount
    BY <1>0 DEF Load, TypeOK
  <2>2. "tail" \notin unloaded'[c] => Subtract(loaded'[c]["tail"], Start) <= Published
    BY <1>0, <1>5, <2>1 DEF LocalsOf, Loads, Published, CountersTyped
  <2>3. "optimistic" \notin unloaded'[c] =>
           Subtract(loaded'[c]["optimistic"], Add(Start, Start)) <= Attempted
    BY <1>0, <1>5, <2>1 DEF LocalsOf, Loads, Attempted, CountersTyped
  <2>4. "overcommit" \notin unloaded'[c] => Subtract(loaded'[c]["overcommit"], Start) <= Failed
    BY <1>0, <1>5, <2>1 DEF LocalsOf, Loads, Failed, Seen, CountersTyped
  <2> QED BY <1>0, <1>3, <2>2, <2>3, <2>4 DEF LocalsOf, Seen
<1>8. Locals'
  BY <1>1, <1>2, <1>3, <1>5, <1>7, LocalsMove DEF CountersTyped
<1>9. Counters'
  BY <1>1, <1>2, <1>3, <1>4, <1>5, <1>6, CountersMove DEF CountersTyped
<1>10. Limited'
  BY <1>0, <1>1, <1>2, <1>3, <1>4, LimitedMove
<1>11. Permitted'
  BY <1>0, <1>1, <1>2, <1>3, <1>4, <1>5, <1>6, PermittedMove DEF CountersTyped
<1> QED BY <1>1, <1>8, <1>9, <1>10, <1>11 DEF IInv

LEMMA SeeNoneIInv ==
    ASSUME IInv, NEW c \in Consumers, SeeNone(c)
    PROVE  IInv'
<1>0. TypeOK /\ LocalsOf(c) /\ pc[c] = "load" /\ excess[c] = 0
  BY DEF IInv, Locals, LocalsOf, SeeNone
<1>1. TypeOK'
  BY <1>0, Bounds DEF TypeOK, SeeNone, Return, Goto, Labels, counters, producer
<1>2. Others(c)
  BY <1>0 DEF Others, TypeOK, SeeNone, Return, Goto
<1>3. pc'[c] = "idle" /\ count'[c] = 0 /\ excess'[c] = 0
  BY <1>0 DEF TypeOK, SeeNone, Return, Goto
<1>4. UNCHANGED <<permits, tailIndex, produced, pending>>
      /\ UNCHANGED <<Published, Dequeued, Attempted, Failed>>
  BY DEF SeeNone, counters, producer, Published, Dequeued, Attempted, Failed
<1>5. /\ Reserved[c] = 0 /\ Reserved'[c] = 0 /\ Granted[c] = 0 /\ Granted'[c] = 0
      /\ Loading[c] \in Nat /\ Loading'[c] = 0 /\ Asked[c] \in Nat /\ Asked'[c] = 0
  BY <1>0, <1>3 DEF Reserved, Granted, Loading, Asked, TypeOK
<1>6. CountersTyped
  BY <1>0, TypesDerived
<1>7. Locals'
  BY <1>1, <1>2, <1>3, <1>4, <1>6, LocalsMove DEF CountersTyped, LocalsOf
<1>8. Counters'
  BY <1>1, <1>2, <1>4, <1>5, <1>6, CountersMove DEF CountersTyped
<1>9. Limited'
  BY <1>0, <1>1, <1>2, <1>3, <1>4, <1>5, LimitedMove
<1>10. Permitted'
  BY <1>1, <1>2, <1>3, <1>4, <1>5, <1>6, PermittedMove DEF CountersTyped
<1> QED BY <1>1, <1>7, <1>8, <1>9, <1>10 DEF IInv

LEMMA GiveBackIInv ==
    ASSUME IInv, NEW c \in Consumers, GiveBack(c)
    PROVE  IInv'
<1>0. TypeOK /\ LocalsOf(c) /\ pc[c] = "giveBack" /\ count[c] \in Nat /\ excess[c] \in Nat
  BY DEF IInv, Locals, GiveBack, TypeOK
<1>1. CountersTyped /\ TotalsTyped
  BY <1>0, TypesDerived
<1>2. Failed + excess[c] < Modulus
  <2>1. Reserved[c] = count[c] + excess[c]
    BY <1>0 DEF Reserved
  <2>2. Reserved[c] <= Total(Reserved)
    BY <1>1, TotalPart, SubQueueAssumption DEF TotalsTyped
  <2>3. Attempted = Failed + Dequeued + Total(Reserved)
    BY DEF IInv, Counters
  <2> QED BY <1>0, <1>1, <2>1, <2>2, <2>3, Bounds DEF CountersTyped, TotalsTyped
<1>3. dequeueOvercommit' \in Index /\ Failed' = Failed + excess[c]
  <2>1. Add(dequeueOvercommit, excess[c]) \in Index
        /\ Subtract(Add(dequeueOvercommit, excess[c]), Start) = Failed + excess[c]
    BY <1>0, <1>2, Advance, Bounds DEF TypeOK, Failed
  <2> QED BY <2>1 DEF GiveBack, Failed
<1>4. TypeOK'
  <2>1. UNCHANGED <<permits, tailIndex, headIndex, dequeueOptimisticCount, slot>>
        /\ UNCHANGED <<produced, pending, unloaded, got>>
    BY DEF GiveBack, producer
  <2>2. CASE Return(c)
    BY <1>0, <1>3, <2>1, <2>2, Bounds DEF TypeOK, Return, Goto, Labels
  <2>3. CASE /\ Goto(c, "take")
             /\ excess' = [excess EXCEPT ![c] = 0]
             /\ UNCHANGED <<loaded, count, index>>
    BY <1>0, <1>3, <2>1, <2>3 DEF TypeOK, Goto, Labels
  <2> QED BY <2>2, <2>3 DEF GiveBack, ReturnOrTake
<1>5. Others(c)
  BY <1>0 DEF Others, TypeOK, GiveBack, ReturnOrTake, Return, Goto
<1>6. /\ excess'[c] = 0 /\ count'[c] = count[c]
      /\ pc'[c] = IF count[c] = 0 THEN "idle" ELSE "take"
  BY <1>0 DEF TypeOK, GiveBack, ReturnOrTake, Return, Goto
<1>7. UNCHANGED <<permits, tailIndex, produced, pending>>
      /\ UNCHANGED <<Published, Dequeued, Attempted>>
  BY DEF GiveBack, producer, Published, Dequeued, Attempted
<1>8. /\ Reserved[c] = count[c] + excess[c] /\ Reserved'[c] = count[c]
      /\ Granted[c] = count[c] /\ Granted'[c] = count[c]
      /\ Loading[c] = 0 /\ Loading'[c] = 0
  BY <1>0, <1>6 DEF Reserved, Granted, Loading
<1>9. Locals'
  BY <1>0, <1>1, <1>3, <1>4, <1>5, <1>6, <1>7, LocalsMove DEF CountersTyped, LocalsOf
<1>10. Counters'
  BY <1>0, <1>1, <1>3, <1>4, <1>5, <1>7, <1>8, CountersMove DEF CountersTyped
<1>11. Limited'
  BY <1>0, <1>4, <1>5, <1>6, <1>7, <1>8, LimitedMove
<1>12. Permitted'
  BY <1>0, <1>7 DEF IInv, Permitted
<1> QED BY <1>4, <1>9, <1>10, <1>11, <1>12 DEF IInv

LEMMA TakeIInv ==
    ASSUME IInv, NEW c \in Consumers, Take(c)
    PROVE  IInv'
<1>0. TypeOK /\ LocalsOf(c) /\ pc[c] = "take" /\ count[c] \in Nat /\ excess[c] = 0
  BY DEF IInv, Locals, LocalsOf, Take, TypeOK
<1>1. CountersTyped /\ TotalsTyped
  BY <1>0, TypesDerived
<1>2. Dequeued + count[c] < Modulus
  <2>1. Granted[c] = count[c]
    BY <1>0 DEF Granted
  <2>2. Granted[c] <= Total(Granted)
    BY <1>1, TotalPart, SubQueueAssumption DEF TotalsTyped
  <2>3. Dequeued + Total(Granted) <= Published
    BY DEF IInv, Limited
  <2> QED BY <1>0, <1>1, <2>1, <2>2, <2>3, Bounds DEF CountersTyped, TotalsTyped
<1>3. headIndex' \in Index /\ Dequeued' = Dequeued + count[c]
  <2>1. Add(headIndex, count[c]) \in Index
        /\ Subtract(Add(headIndex, count[c]), Start) = Dequeued + count[c]
    BY <1>0, <1>2, Advance, Bounds DEF TypeOK, Dequeued
  <2> QED BY <2>1 DEF Take, Dequeued
<1>4. TypeOK'
  BY <1>0, <1>3 DEF TypeOK, Take, Goto, Labels, producer
<1>5. Others(c)
  BY <1>0 DEF Others, TypeOK, Take, Goto
<1>6. pc'[c] = "move" /\ excess'[c] = 0 /\ count'[c] = count[c]
  BY <1>0 DEF TypeOK, Take, Goto
<1>7. UNCHANGED <<permits, tailIndex, produced, pending>>
      /\ UNCHANGED <<Published, Failed, Attempted>>
  BY DEF Take, producer, Published, Failed, Attempted
<1>8. /\ Reserved[c] = count[c] /\ Reserved'[c] = 0 /\ Granted[c] = count[c] /\ Granted'[c] = 0
      /\ Loading[c] = 0 /\ Loading'[c] = 0 /\ Asked[c] = count[c] /\ Asked'[c] = 0
  BY <1>0, <1>6 DEF Reserved, Granted, Loading, Asked
<1>9. Locals'
  BY <1>0, <1>1, <1>4, <1>5, <1>6, <1>7, LocalsMove DEF CountersTyped, LocalsOf
<1>10. Counters'
  BY <1>0, <1>1, <1>3, <1>4, <1>5, <1>7, <1>8, CountersMove DEF CountersTyped
<1>11. Limited'
  BY <1>0, <1>1, <1>3, <1>4, <1>5, <1>6, <1>7, <1>8, LimitedMove DEF CountersTyped
<1>12. Permitted'
  BY <1>0, <1>1, <1>3, <1>4, <1>5, <1>6, <1>7, <1>8, PermittedMove DEF CountersTyped
<1> QED BY <1>4, <1>9, <1>10, <1>11, <1>12 DEF IInv

LEMMA MoveIInv ==
    ASSUME IInv, NEW c \in Consumers, Move(c) \/ MoveThrows(c)
    PROVE  IInv'
<1>0. /\ TypeOK /\ LocalsOf(c) /\ pc[c] = "move"
      /\ count[c] \in Nat /\ count[c] > 0 /\ excess[c] = 0
      /\ index[c] \in Index
  BY DEF IInv, Locals, LocalsOf, Move, MoveThrows, TypeOK
<1>1. CountersTyped
  BY <1>0, TypesDerived
<1>2. TypeOK'
  <2>1. Add(index[c], 1) \in Index /\ slot[index[c]] \in Nat
    BY <1>0, IndexIsClosed, Bounds DEF TypeOK
  <2>2. got' \in [Consumers -> Seq(Nat)]
    <3>1. Append(got[c], slot[index[c]]) \in Seq(Nat)
      BY <1>0, <2>1 DEF TypeOK
    <3> QED BY <1>0, <3>1 DEF TypeOK, Move, MoveThrows
  <2>3. slot' \in [Index -> Nat]
    BY <1>0 DEF TypeOK, Move, MoveThrows, Nothing
  <2>4. UNCHANGED <<permits, tailIndex, headIndex, dequeueOptimisticCount, dequeueOvercommit>>
        /\ UNCHANGED <<produced, pending, unloaded>>
    BY DEF Move, MoveThrows, producer, counters
  <2>5. CASE Return(c)
    BY <1>0, <2>2, <2>3, <2>4, <2>5, Bounds DEF TypeOK, Return, Goto, Labels
  <2>6. CASE /\ index' = [index EXCEPT ![c] = Add(@, 1)]
             /\ count' = [count EXCEPT ![c] = @ - 1]
             /\ UNCHANGED <<pc, loaded, excess>>
    <3>1. index' \in [Consumers -> Index]
      BY <1>0, <2>1, <2>6 DEF TypeOK
    <3>2. count[c] - 1 \in Nat
      BY <1>0
    <3>3. count' \in [Consumers -> Nat]
      BY <1>0, <2>6, <3>2 DEF TypeOK
    <3> QED BY <1>0, <2>2, <2>3, <2>4, <2>6, <3>1, <3>3 DEF TypeOK
  <2> QED BY <2>5, <2>6 DEF Move, MoveThrows
<1>3. Others(c)
  BY <1>0 DEF Others, TypeOK, Move, MoveThrows, Return, Goto
<1>4. /\ excess'[c] = 0
      /\ \/ pc'[c] = "idle" /\ count'[c] = 0
         \/ pc'[c] = "move" /\ count'[c] > 0
  BY <1>0 DEF TypeOK, Move, MoveThrows, Return, Goto
<1>5. UNCHANGED <<permits, tailIndex, produced, pending>>
      /\ UNCHANGED <<Published, Dequeued, Failed, Attempted>>
  BY DEF Move, MoveThrows, producer, counters, Published, Dequeued, Failed, Attempted
<1>6. /\ Reserved[c] = 0 /\ Reserved'[c] = 0 /\ Granted[c] = 0 /\ Granted'[c] = 0
      /\ Loading[c] = 0 /\ Loading'[c] = 0 /\ Asked[c] = 0 /\ Asked'[c] = 0
  BY <1>0, <1>4 DEF Reserved, Granted, Loading, Asked
<1>7. Locals'
  BY <1>1, <1>2, <1>3, <1>4, <1>5, LocalsMove DEF CountersTyped, LocalsOf
<1>8. Counters'
  BY <1>1, <1>2, <1>3, <1>5, <1>6, CountersMove DEF CountersTyped
<1>9. Limited'
  BY <1>0, <1>2, <1>3, <1>4, <1>5, <1>6, LimitedMove
<1>10. Permitted'
  BY <1>1, <1>2, <1>3, <1>4, <1>5, <1>6, PermittedMove DEF CountersTyped
<1> QED BY <1>2, <1>7, <1>8, <1>9, <1>10 DEF IInv

(* The bounds of a run keep the counters from catching up with each other. *)
LEMMA NoOverrun ==
    ASSUME IInv
    PROVE  /\ Published <= MaxElements /\ Attempted <= MaxReserved /\ Failed <= Attempted
           /\ \A c \in Consumers : pc[c] = "load" => Attempted + count[c] <= MaxReserved
<1>1. CountersTyped /\ TotalsTyped
  BY TypesDerived DEF IInv
<1>2. /\ Published = produced - pending /\ Attempted = Failed + Dequeued + Total(Reserved)
      /\ Reservations <= MaxReserved /\ Reservations = Attempted + Total(Loading)
  BY DEF IInv, Counters, Reservations, Attempted, Loading
<1>3. Published <= MaxElements
  BY <1>2, Bounds DEF IInv, TypeOK
<1>4. Attempted <= MaxReserved /\ Failed <= Attempted
  BY <1>1, <1>2, Bounds DEF CountersTyped, TotalsTyped
<1>5. ASSUME NEW c \in Consumers, pc[c] = "load"
      PROVE  Attempted + count[c] <= MaxReserved
  <2>1. Loading[c] = count[c] /\ Loading[c] <= Total(Loading) /\ count[c] \in Nat
    BY <1>1, <1>5, TotalPart, SubQueueAssumption DEF Loading, TotalsTyped, IInv, TypeOK
  <2> QED BY <1>1, <1>2, <2>1, Bounds DEF CountersTyped, TotalsTyped
<1> QED BY <1>3, <1>4, <1>5

LEMMA ReserveIInv ==
    ASSUME IInv, NEW c \in Consumers, Reserve(c)
    PROVE  IInv'
<1> DEFINE desired == Smaller(Estimate(c), count[c])
<1>0. /\ TypeOK /\ LocalsOf(c) /\ pc[c] = "load" /\ unloaded[c] = {}
      /\ count[c] \in Nat /\ count[c] > 0 /\ excess[c] = 0
      /\ circular_less_than(0, Estimate(c))
  BY DEF IInv, Locals, LocalsOf, Reserve, ReserveAtMost, TypeOK
<1>1. CountersTyped /\ TotalsTyped
  BY <1>0, TypesDerived
<1>2. desired \in Nat /\ desired > 0 /\ desired <= count[c]
  <2> DEFINE t == loaded[c]["tail"]
             o == loaded[c]["optimistic"]
             e == Subtract(t, Start) - Subtract(o, Add(Start, Start)) + Seen(c)
  <2>1. t \in Index /\ o \in Index /\ loaded[c]["overcommit"] \in Index
    BY <1>0 DEF TypeOK, Loads
  <2>2. Subtract(t, Start) \in Nat /\ Subtract(o, Add(Start, Start)) \in Nat /\ Seen(c) \in Nat
    BY <2>1, IndexIsClosed, TwiceStart, Bounds DEF Seen
  <2>3. /\ Subtract(t, Start) <= MaxElements /\ Seen(c) <= MaxReserved
        /\ Subtract(o, Add(Start, Start)) <= MaxReserved
    BY <1>0, <1>1, <2>2, NoOverrun, Bounds DEF LocalsOf, CountersTyped
  <2>4. e \in Int
    BY <2>2
  <2>5. e > 0 /\ Estimate(c) = e
    BY <1>0, <2>1, <2>3, <2>4, EstimateIs DEF Estimate, Seen
  <2> QED BY <1>0, <2>4, <2>5 DEF Smaller
<1>3. Attempted + desired <= MaxReserved
  BY <1>0, <1>1, <1>2, NoOverrun, Bounds DEF CountersTyped
<1>4. /\ dequeueOptimisticCount' = Add(dequeueOptimisticCount, desired)
      /\ index' = [index EXCEPT ![c] = dequeueOptimisticCount]
      /\ count' = [count EXCEPT ![c] = desired]
      /\ pc' = [pc EXCEPT ![c] = "check"]
      /\ UNCHANGED <<permits, tailIndex, headIndex, dequeueOvercommit, slot>>
      /\ UNCHANGED <<produced, pending, unloaded, loaded, excess, got>>
  BY DEF Reserve, ReserveAtMost, Goto, producer
<1> HIDE DEF desired
<1>5. dequeueOptimisticCount' \in Index /\ Attempted' = Attempted + desired
  <2>1. Attempted + desired < Modulus
    BY <1>1, <1>2, <1>3, Bounds DEF CountersTyped
  <2> QED BY <1>0, <1>2, <1>4, <2>1, Advance, TwiceStart DEF TypeOK, Attempted
<1>6. TypeOK'
  BY <1>0, <1>2, <1>4, <1>5 DEF TypeOK, Labels
<1>7. Others(c)
  BY <1>0, <1>4 DEF Others, TypeOK
<1>8. /\ pc'[c] = "check" /\ count'[c] = desired /\ excess'[c] = 0
      /\ Position(c)' = Attempted /\ Seen(c)' = Seen(c)
  BY <1>0, <1>4 DEF TypeOK, Position, Attempted, Seen
<1>9. UNCHANGED <<Published, Dequeued, Failed>>
  BY <1>4 DEF Published, Dequeued, Failed
<1>10. /\ Reserved[c] = 0 /\ Reserved'[c] = desired /\ Granted[c] = 0 /\ Granted'[c] = 0
       /\ Loading[c] = count[c] /\ Loading'[c] = 0 /\ Asked[c] = count[c] /\ Asked'[c] = desired
  BY <1>0, <1>2, <1>8 DEF Reserved, Granted, Loading, Asked
<1>11. Locals'
  <2>1. LocalsOf(c)'
    BY <1>0, <1>1, <1>2, <1>5, <1>8, <1>9 DEF LocalsOf, CountersTyped
  <2> QED BY <1>1, <1>2, <1>5, <1>6, <1>7, <1>9, <2>1, LocalsMove DEF CountersTyped
<1>12. Counters'
  BY <1>0, <1>1, <1>2, <1>4, <1>5, <1>6, <1>7, <1>9, <1>10, CountersMove DEF CountersTyped
<1>13. CountersTyped' /\ TotalsTyped'
  BY <1>6, TypesDerivedNext
<1>14. Limited'
  <2>1. Total(Granted)' = Total(Granted)
    BY <1>0, <1>1, <1>6, <1>7, <1>10, TotalsMove DEF TotalsTyped
  <2>2. ASSUME NEW d \in Consumers \ {c}, pc'[d] = "check"
        PROVE  \/ Dequeued' + Total(Claims(d))' <= Published'
               \/ Dequeued' + Total(Claims(d))' <= Position(d)' + count'[d] - Seen(d)'
    <3>1. /\ pc[d] = "check" /\ count'[d] = count[d]
          /\ Position(d)' = Position(d) /\ Seen(d)' = Seen(d)
      BY <1>7, <2>2 DEF Others, Position, Seen
    <3>2. Position(d) + count[d] <= Attempted /\ count[d] > 0 /\ count[d] \in Nat
      BY <1>0, <3>1 DEF IInv, Locals, LocalsOf, TypeOK
    <3>3. Position(d) < Attempted
      BY <1>1, <3>2 DEF CountersTyped
    <3>4. Claims(d)[c] = 0 /\ Claims(d)'[c] = 0
      BY <1>0, <1>1, <1>8, <3>1, <3>3 DEF Claims, CountersTyped
    <3>5. Total(Claims(d))' = Total(Claims(d))
      BY <1>0, <1>1, <1>6, <1>7, <3>4, ClaimsMove DEF TotalsTyped
    <3> QED BY <1>9, <3>1, <3>5 DEF IInv, Limited
  <2>3. Dequeued' + Total(Claims(c))' <= Position(c)' + count'[c] - Seen(c)'
    <3>1. Total(Claims(c))' <= Total(Reserved)'
      <4>1. Claims(c)' \in [Consumers -> Nat] /\ Reserved' \in [Consumers -> Nat]
        BY <1>13 DEF TotalsTyped
      <4>2. \A d \in Consumers : Claims(c)'[d] <= Reserved'[d]
        <5>1. ASSUME NEW d \in Consumers PROVE count'[d] \in Nat /\ excess'[d] \in Nat
          BY <1>6 DEF TypeOK
        <5> QED BY <5>1 DEF Claims, Reserved
      <4>3. Total(Claims(c)') <= Total(Reserved')
        BY <4>1, <4>2, TotalMonotone, SubQueueAssumption
      <4> QED BY <4>3 DEF Total, Units
    <3>2. Attempted' = Failed' + Dequeued' + Total(Reserved)'
      BY <1>12 DEF Counters
    <3>3. Seen(c)' <= Failed'
      BY <1>8, <1>11 DEF Locals, LocalsOf
    <3>4. Total(Reserved)' \in Nat /\ Total(Claims(c))' \in Nat
      BY <1>13 DEF TotalsTyped
    <3>5. Seen(c)' \in Nat
      BY <1>13 DEF CountersTyped
    <3> QED BY <1>1, <1>2, <1>5, <1>8, <1>13, <3>1, <3>2, <3>3, <3>4, <3>5 DEF CountersTyped
  <2> QED BY <1>9, <2>1, <2>2, <2>3 DEF IInv, Limited
<1>15. Permitted'
  BY <1>0, <1>1, <1>2, <1>4, <1>6, <1>7, <1>8, <1>9, <1>10, PermittedMove DEF CountersTyped
<1> QED BY <1>6, <1>11, <1>12, <1>14, <1>15 DEF IInv

(* What the second test leaves room for, next to what had been claimed. *)
LEMMA CheckIInv ==
    ASSUME IInv, NEW c \in Consumers, Check(c)
    PROVE  IInv'
<1> DEFINE actual == Subtract(tailIndex, Subtract(index[c], loaded[c]["overcommit"]))
           granted == IF circular_less_than(0, actual) THEN Smaller(count[c], actual) ELSE 0
           e == Published - Position(c) + Seen(c)
<1>0. /\ TypeOK /\ LocalsOf(c) /\ pc[c] = "check"
      /\ count[c] \in Nat /\ count[c] > 0 /\ excess[c] = 0
      /\ index[c] \in Index /\ loaded[c]["overcommit"] \in Index
  BY DEF IInv, Locals, LocalsOf, Check, Grant, TypeOK, Loads
<1>1. CountersTyped /\ TotalsTyped
  BY <1>0, TypesDerived
<1>2. Seen(c) <= Failed /\ Position(c) + count[c] <= Attempted
      /\ Position(c) \in Nat /\ Seen(c) \in Nat
  BY <1>0, <1>1 DEF LocalsOf, CountersTyped
<1>3. /\ e \in Int
      /\ circular_less_than(0, actual) <=> e > 0
      /\ e > 0 => actual = e
  <2>1. e \in Int
    BY <1>1, <1>2 DEF CountersTyped
  <2>2. Published <= MaxElements /\ Position(c) <= MaxReserved /\ Seen(c) <= MaxReserved
    BY <1>0, <1>1, <1>2, NoOverrun, Bounds DEF CountersTyped
  <2>3. tailIndex \in Index
    BY <1>0 DEF TypeOK
  <2> HIDE DEF e
  <2>4. e = Subtract(tailIndex, Start) - Subtract(index[c], Add(Start, Start))
            + Subtract(loaded[c]["overcommit"], Start)
    BY DEF e, Published, Position, Seen
  <2> QED BY <1>0, <2>1, <2>2, <2>3, <2>4, EstimateIs DEF Published, Position, Seen
<1>4. /\ granted \in Nat /\ granted <= count[c]
      /\ granted > 0 => granted <= e
      /\ e >= count[c] => granted = count[c]
  <2> HIDE DEF actual, e
  <2> QED BY <1>0, <1>3 DEF Smaller
<1>5. /\ count' = [count EXCEPT ![c] = granted]
      /\ excess' = [excess EXCEPT ![c] = count[c] - granted]
      /\ pc' = [pc EXCEPT ![c] = IF granted < count[c] THEN "giveBack" ELSE "take"]
      /\ index' = [index EXCEPT ![c] = 0]
      /\ loaded' = [loaded EXCEPT ![c] = [l \in Loads |-> 0]]
      /\ UNCHANGED <<permits, tailIndex, headIndex, dequeueOptimisticCount, dequeueOvercommit>>
      /\ UNCHANGED <<slot, produced, pending, unloaded, got>>
  BY DEF Check, Grant, Goto, counters, producer
<1> HIDE DEF granted, actual
<1>6. TypeOK'
  <2>1. count[c] - granted \in Nat
    BY <1>0, <1>4
  <2> QED BY <1>0, <1>4, <1>5, <2>1, Bounds DEF TypeOK, Labels
<1>7. Others(c)
  BY <1>0, <1>5 DEF Others, TypeOK
<1>8. /\ count'[c] = granted /\ excess'[c] = count[c] - granted
      /\ pc'[c] = IF granted < count[c] THEN "giveBack" ELSE "take"
  BY <1>0, <1>5 DEF TypeOK
<1>9. UNCHANGED <<Published, Dequeued, Attempted, Failed>>
  BY <1>5 DEF Published, Dequeued, Attempted, Failed
<1>10. /\ Reserved[c] = count[c] /\ Reserved'[c] = count[c]
       /\ Granted[c] = 0 /\ Granted'[c] = granted
       /\ Loading[c] = 0 /\ Loading'[c] = 0
       /\ Asked[c] = count[c] /\ Asked'[c] = count[c]
  BY <1>0, <1>4, <1>8 DEF Reserved, Granted, Loading, Asked
<1>11. Locals'
  <2>1. LocalsOf(c)'
    BY <1>0, <1>4, <1>8 DEF LocalsOf
  <2> QED BY <1>1, <1>6, <1>7, <1>9, <2>1, LocalsMove DEF CountersTyped
<1>12. Counters'
  BY <1>0, <1>1, <1>5, <1>6, <1>7, <1>9, <1>10, CountersMove DEF CountersTyped
<1>13. CountersTyped' /\ TotalsTyped'
  BY <1>6, TypesDerivedNext
<1>14. \/ Dequeued + Total(Claims(c)) <= Published
       \/ granted > 0 => Dequeued + Total(Claims(c)) - count[c] + granted <= Published
  <2>1. \/ Dequeued + Total(Claims(c)) <= Published
        \/ Dequeued + Total(Claims(c)) <= Position(c) + count[c] - Seen(c)
    BY <1>0 DEF IInv, Limited
  <2>2. Dequeued \in Nat /\ Published \in Nat /\ Total(Claims(c)) \in Nat
    BY <1>1 DEF CountersTyped, TotalsTyped
  <2> QED BY <1>0, <1>2, <1>4, <2>1, <2>2
<1>15. /\ Claims(c)[c] = count[c]
       /\ Claims(c) \in [Consumers -> Nat] /\ Total(Claims(c)) \in Nat
  BY <1>0, <1>1, <1>2 DEF Claims, TotalsTyped
<1>16. ASSUME NEW f \in [Consumers -> Nat], f[c] = 0,
              \A d \in Consumers \ {c} : f[d] <= Claims(c)[d],
              granted > 0
       PROVE  Dequeued + Total(f) + granted <= Published
  <2>1. Total(f) - f[c] + Claims(c)[c] <= Total(Claims(c))
    BY <1>15, <1>16, TotalRoom, SubQueueAssumption
  <2>2. Total(f) \in Nat
    BY UnitsFinite, SubQueueAssumption
  <2>3. Dequeued \in Nat /\ Published \in Nat
    BY <1>1 DEF CountersTyped
  <2> QED BY <1>0, <1>4, <1>14, <1>15, <1>16, <2>1, <2>2, <2>3
<1>17. Dequeued' + Total(Granted)' <= Published'
  <2>1. Granted \in [Consumers -> Nat] /\ Total(Granted) \in Nat
    BY <1>1 DEF TotalsTyped
  <2>2. Total(Granted)' = Total(Granted) + granted
    BY <1>0, <1>4, <1>6, <1>7, <1>10, <2>1, TotalsMove
  <2>3. Dequeued + Total(Granted) <= Published
    BY DEF IInv, Limited
  <2>4. \A d \in Consumers \ {c} : Granted[d] <= Claims(c)[d]
    <3>1. ASSUME NEW d \in Consumers PROVE count[d] \in Nat /\ excess[d] \in Nat
      BY <1>0 DEF TypeOK
    <3> QED BY <3>1 DEF Granted, Claims
  <2>5. granted > 0 => Dequeued + Total(Granted) + granted <= Published
    BY <1>10, <1>16, <2>1, <2>4
  <2> QED BY <1>1, <1>4, <1>9, <2>1, <2>2, <2>3, <2>5 DEF CountersTyped
<1>18. ASSUME NEW d \in Consumers \ {c}, pc'[d] = "check"
       PROVE  \/ Dequeued' + Total(Claims(d))' <= Published'
              \/ Dequeued' + Total(Claims(d))' <= Position(d)' + count'[d] - Seen(d)'
  <2>1. /\ pc[d] = "check" /\ count'[d] = count[d]
        /\ Position(d)' = Position(d) /\ Seen(d)' = Seen(d)
    BY <1>7, <1>18 DEF Others, Position, Seen
  <2>2. /\ Claims(d) \in [Consumers -> Nat] /\ Total(Claims(d)) \in Nat
        /\ Position(d) \in Nat /\ Seen(d) \in Nat /\ count[d] \in Nat
        /\ Dequeued \in Nat /\ Published \in Nat
    BY <1>0, <1>1 DEF CountersTyped, TotalsTyped, TypeOK
  <2>3. /\ Claims(d)[c] = IF Position(c) <= Position(d) THEN count[c] ELSE 0
        /\ Claims(d)'[c] = granted
    BY <1>0, <1>8 DEF Claims
  <2>4. Total(Claims(d))' = Total(Claims(d)) - Claims(d)[c] + granted
    BY <1>0, <1>6, <1>7, <2>3, ClaimsMove
  <2>5. \/ Dequeued + Total(Claims(d)) <= Published
        \/ Dequeued + Total(Claims(d)) <= Position(d) + count[d] - Seen(d)
    BY <2>1 DEF IInv, Limited
  <2>6. CASE Position(c) <= Position(d) \/ granted = 0
    BY <1>0, <1>4, <1>9, <2>1, <2>2, <2>3, <2>4, <2>5, <2>6
  <2>7. CASE Position(d) < Position(c) /\ granted > 0
    <3>1. \A x \in Consumers \ {c} : Claims(d)[x] <= Claims(c)[x]
      <4>1. \A x \in Consumers : Position(x) \in Nat /\ count[x] \in Nat
        BY <1>0, <1>1 DEF CountersTyped, TypeOK
      <4> QED BY <1>2, <2>2, <2>7, <4>1 DEF Claims
    <3>2. Dequeued + Total(Claims(d)) + granted <= Published
      BY <1>2, <1>16, <2>2, <2>3, <2>7, <3>1
    <3> QED BY <1>2, <1>4, <1>9, <2>2, <2>3, <2>4, <2>7, <3>2
  <2> QED BY <1>2, <1>4, <2>2, <2>6, <2>7
<1>19. Limited'
  <2>1. pc'[c] # "check"
    BY <1>8
  <2> QED BY <1>17, <1>18, <2>1 DEF Limited
<1>20. Permitted'
  <2>1. ASSUME permits PROVE granted = count[c]
    <3>1. Failed = 0 /\ Dequeued + Total(Asked) <= Published
      BY <2>1 DEF IInv, Permitted
    <3>2. Total(Reserved) <= Total(Asked)
      <4>1. Reserved \in [Consumers -> Nat] /\ Asked \in [Consumers -> Nat]
        BY <1>1 DEF TotalsTyped
      <4>2. \A d \in Consumers : Reserved[d] <= Asked[d]
        <5>1. ASSUME NEW d \in Consumers PROVE count[d] \in Nat /\ excess[d] \in Nat
          BY <1>0 DEF TypeOK
        <5> QED BY <5>1 DEF Reserved, Asked
      <4> QED BY <4>1, <4>2, TotalMonotone, SubQueueAssumption
    <3>3. Attempted = Failed + Dequeued + Total(Reserved)
      BY DEF IInv, Counters
    <3>4. /\ Failed \in Nat /\ Dequeued \in Nat /\ Attempted \in Nat /\ Published \in Nat
          /\ Total(Reserved) \in Nat /\ Total(Asked) \in Nat
      BY <1>1 DEF CountersTyped, TotalsTyped
    <3> HIDE DEF e
    <3>5. e >= count[c]
      BY <1>0, <1>2, <3>1, <3>2, <3>3, <3>4 DEF e
    <3> QED BY <1>4, <3>5
  <2>2. permits => pc'[c] # "giveBack"
    BY <1>0, <1>8, <2>1
  <2> QED BY <1>0, <1>1, <1>5, <1>6, <1>7, <1>9, <1>10, <2>2, PermittedMove DEF CountersTyped
<1> QED BY <1>6, <1>11, <1>12, <1>19, <1>20 DEF IInv

-------------------------------------------------------------------------------
LEMMA NextIInv == IInv /\ [Next]_vars => IInv'
<1> SUFFICES ASSUME IInv, [Next]_vars PROVE IInv'
  OBVIOUS
<1>1. CASE UNCHANGED vars
  <2>1. UNCHANGED <<permits, tailIndex, headIndex, dequeueOptimisticCount, dequeueOvercommit>>
        /\ UNCHANGED <<slot, produced, pending, pc, unloaded, loaded, count, excess, index, got>>
    BY <1>1 DEF vars, counters, producer
  <2>2. TypeOK' /\ Locals'
    BY <2>1 DEF IInv, TypeOK, Locals, LocalsOf, Published, Attempted, Failed, Seen, Position
  <2>3. /\ UNCHANGED <<Published, Dequeued, Attempted, Failed>>
        /\ UNCHANGED <<Total(Reserved), Total(Granted), Total(Asked), Reservations>>
        /\ \A c \in Consumers : UNCHANGED <<Position(c), Seen(c), Total(Claims(c))>>
    BY <2>1 DEF Published, Dequeued, Attempted, Failed, Total, Units, Reserved, Granted, Asked,
               Reservations, Position, Seen, Claims
  <2>4. Counters' /\ Limited' /\ Permitted'
    BY <2>1, <2>3 DEF IInv, Counters, Limited, Permitted
  <2> QED BY <2>2, <2>4 DEF IInv
<1>2. CASE Publish \/ \E n \in 1..MaxBatch : Construct(n)
  <2>1. CASE Publish
    BY <2>1, ProducerIInv
  <2>2. CASE \E n \in 1..MaxBatch : Construct(n)
    BY <2>2, ProducerIInv, Bounds
  <2> QED BY <1>2, <2>1, <2>2
<1>3. ASSUME NEW c \in Consumers,
             Running(c) \/ \E max \in 1..MaxBatch : Call(c, max)
      PROVE  IInv'
  <2>1. CASE \E max \in 1..MaxBatch : Call(c, max)
    BY <2>1, CallIInv
  <2>2. CASE \E l \in Loads : Load(c, l)
    BY <2>2, LoadIInv
  <2>3. CASE SeeNone(c)
    BY <2>3, SeeNoneIInv
  <2>4. CASE Reserve(c)
    BY <2>4, ReserveIInv
  <2>5. CASE Check(c)
    BY <2>5, CheckIInv
  <2>6. CASE GiveBack(c)
    BY <2>6, GiveBackIInv
  <2>7. CASE Take(c)
    BY <2>7, TakeIInv
  <2>8. CASE Move(c) \/ MoveThrows(c)
    BY <2>8, MoveIInv
  <2> QED BY <1>3, <2>1, <2>2, <2>3, <2>4, <2>5, <2>6, <2>7, <2>8 DEF Running
<1> QED BY <1>1, <1>2, <1>3 DEF Next

(* The inductive invariant holds. *)
THEOREM Invariance == Spec => []IInv
<1> QED BY InitIInv, NextIInv, PTL DEF Spec

-------------------------------------------------------------------------------
(* Balance: what consumers have counted on dequeueOptimisticCount and not  *)
(* on dequeueOvercommit is the head and the open reservations, for every   *)
(* order of the accesses and although each of the counters wraps around.   *)
THEOREM BalanceHolds == Spec => []Balance
<1>1. IInv => Balance
  <2> SUFFICES ASSUME IInv PROVE Balance
    OBVIOUS
  <2> DEFINE net == Subtract(dequeueOptimisticCount, dequeueOvercommit)
             end == Add(headIndex, Total(Reserved))
  <2>1. /\ TypeOK /\ CountersTyped /\ TotalsTyped
        /\ Attempted = Failed + Dequeued + Total(Reserved)
    BY TypesDerived DEF IInv, Counters
  <2>2. /\ Total(Reserved) \in Nat /\ Dequeued \in Nat /\ Failed \in Nat
        /\ Attempted \in Nat /\ Attempted < Modulus
    BY <2>1 DEF CountersTyped, TotalsTyped
  <2>3. Dequeued + Total(Reserved) < Modulus
    BY <2>1, <2>2, Bounds
  <2>4. end \in Index /\ Subtract(end, Start) = Dequeued + Total(Reserved)
    BY <2>1, <2>2, <2>3, Advance, Bounds DEF TypeOK, Dequeued
  <2>5. /\ net \in Index
        /\ \/ net - Start = Attempted - Failed
           \/ net - Start = Attempted - Failed - Modulus
           \/ net - Start = Attempted - Failed + Modulus
    BY <2>1, NetIs DEF TypeOK, Attempted, Failed
  <2>6. Subtract(end, Start) = end - Start \/ Subtract(end, Start) = end - Start + Modulus
    BY <2>4, SubtractIs, Bounds
  <2> HIDE DEF net, end
  <2>7. net = end
    BY <2>1, <2>2, <2>4, <2>5, <2>6, Bounds DEF Index
  <2> QED BY <2>7 DEF Balance, net, end
<1> QED BY <1>1, Invariance, PTL

(* Guaranteed: what consumers have been granted is published and not       *)
(* dequeued, so that headIndex never passes tailIndex.                     *)
THEOREM GuaranteedHolds == Spec => []Guaranteed
<1>1. IInv => Guaranteed
  <2> SUFFICES ASSUME IInv PROVE Guaranteed
    OBVIOUS
  <2>1. TypeOK /\ CountersTyped /\ TotalsTyped /\ Dequeued + Total(Granted) <= Published
    BY TypesDerived DEF IInv, Limited
  <2>2. Dequeued \in Nat /\ Published \in Nat /\ Total(Granted) \in Nat
    BY <2>1 DEF CountersTyped, TotalsTyped
  <2>3. Available = Published - Dequeued
    BY <2>1, <2>2, Ahead, Bounds DEF TypeOK, Available, Published, Dequeued
  <2> QED BY <2>1, <2>2, <2>3 DEF Guaranteed
<1> QED BY <1>1, Invariance, PTL

(* NeverOvercommits: no step of a run whose callers hold permits counts a  *)
(* reservation as made in vain.                                            *)
THEOREM NeverOvercommitsHolds == Spec => NeverOvercommits
<1>1. IInv /\ [Next]_vars => [permits => UNCHANGED dequeueOvercommit]_vars
  <2> SUFFICES ASSUME IInv, Next, permits PROVE UNCHANGED dequeueOvercommit
    OBVIOUS
  <2>1. \A c \in Consumers : ~GiveBack(c)
    BY DEF IInv, Permitted, GiveBack
  <2> QED
    BY <2>1 DEF Next, Running, Construct, Publish, Call, Load, SeeNone, Reserve, ReserveAtMost,
                Check, Grant, Take, Move, MoveThrows, counters
<1> QED BY <1>1, Invariance, PTL DEF Spec, NeverOvercommits

-------------------------------------------------------------------------------
(* What the blocks hold.  Elements are numbered, so that what is at k,     *)
(* counted from Start, is element k + 1.                                   *)
First(c) == Subtract(index[c], Start)

Moving(c, k) == pc[c] = "move" /\ First(c) <= k /\ k < First(c) + count[c]

InPlace(i) == slot[i] = Subtract(i, Start) + 1

(* Consumers move elements from before the head, each from a range of its  *)
(* own, and what is not dequeued or not moved yet is where it was put.     *)
Stored ==
    /\ \A c \in Consumers : pc[c] = "move" => First(c) + count[c] <= Dequeued
    /\ \A c, d \in Consumers :
          c # d /\ pc[c] = "move" /\ pc[d] = "move"
          => First(c) + count[c] <= First(d) \/ First(d) + count[d] <= First(c)
    /\ \A i \in Index :
          \/ Dequeued <= Subtract(i, Start) /\ Subtract(i, Start) < produced
          \/ \E c \in Consumers : Moving(c, Subtract(i, Start))
          => InPlace(i)

(* Calls are of MaxBatch elements at most, and what a call has stored is   *)
(* empty until it moves elements.                                          *)
Batches ==
    /\ pending <= MaxBatch
    /\ \A c \in Consumers :
          /\ count[c] + Len(got[c]) <= MaxBatch
          /\ pc[c] \notin {"idle", "move"} => got[c] = <<>>

FifoInv == IInv /\ Stored /\ Batches

LEMMA InitFifoInv == Init => FifoInv
<1> SUFFICES ASSUME Init PROVE FifoInv
  OBVIOUS
<1>1. IInv
  BY InitIInv
<1>2. Stored
  <2>1. \A i \in Index : Subtract(i, Start) \in Nat
    BY IndexIsClosed, Bounds
  <2> QED BY <1>1, <2>1, TypesDerived DEF Init, Stored, Moving, IInv, CountersTyped
<1>3. Batches
  BY Bounds, EmptySeq DEF Init, Batches
<1> QED BY <1>1, <1>2, <1>3 DEF FifoInv

(* Stored, for a step that moves neither elements nor the head. *)
LEMMA StoredStays ==
    ASSUME Stored, UNCHANGED <<Dequeued, produced, slot>>,
           \A c \in Consumers :
              /\ pc'[c] = "move" <=> pc[c] = "move"
              /\ pc[c] = "move" => index'[c] = index[c] /\ count'[c] = count[c]
    PROVE  Stored'
<1>1. \A c \in Consumers : pc[c] = "move" => First(c)' = First(c)
  BY DEF First
<1>2. \A c \in Consumers, i \in Index :
         Moving(c, Subtract(i, Start))' <=> Moving(c, Subtract(i, Start))
  BY <1>1 DEF Moving
<1> QED BY <1>1, <1>2 DEF Stored, InPlace

LEMMA ConstructStored ==
    ASSUME FifoInv, IInv', NEW n \in 1..MaxBatch, Construct(n)
    PROVE  Stored'
<1>0. /\ TypeOK /\ CountersTyped /\ n \in Nat /\ produced \in Nat /\ produced + n <= MaxElements
      /\ Published = produced /\ pending = 0 /\ produced' = produced + n /\ tailIndex \in Index
  <2>1. TypeOK /\ CountersTyped /\ Counters /\ pending = 0
    BY TypesDerived DEF FifoInv, IInv, Construct
  <2>2. /\ produced \in Nat /\ tailIndex \in Index /\ Published \in Nat /\ n \in Nat
    BY <2>1, Bounds DEF TypeOK, CountersTyped
  <2>3. Published = produced
    BY <2>1, <2>2 DEF Counters
  <2> QED BY <2>1, <2>2, <2>3 DEF Construct
<1>1. UNCHANGED <<Dequeued, pc, index, count>>
  BY DEF Construct, Dequeued, counters
<1>2. \A c \in Consumers : First(c)' = First(c)
  BY <1>1 DEF First
<1>3. Dequeued <= Published
  BY <1>0, TypesDerived DEF FifoInv, IInv, Limited, CountersTyped, TotalsTyped
<1>4. ASSUME NEW i \in Index,
             \/ Dequeued <= Subtract(i, Start) /\ Subtract(i, Start) < produced'
             \/ \E c \in Consumers : Moving(c, Subtract(i, Start))'
      PROVE  InPlace(i)'
  <2> DEFINE k == Subtract(i, Start)
  <2>1. k \in Nat /\ k < Modulus
    BY IndexIsClosed, Bounds
  <2>2. slot'[i] = IF Subtract(i, tailIndex) < n
                   THEN produced + Subtract(i, tailIndex) + 1 ELSE slot[i]
    BY DEF Construct
  <2>3. Subtract(i, tailIndex) = IF k >= Published THEN k - Published ELSE k - Published + Modulus
    <3>1. k >= Published => Subtract(i, tailIndex) = k - Published
      BY <1>0, <2>1, Ahead, Bounds DEF Published
    <3>2. k < Published => Subtract(i, tailIndex) = k - Published + Modulus
      BY <1>0, <2>1, Behind, Bounds DEF Published
    <3> QED BY <1>0, <2>1, <3>1, <3>2 DEF CountersTyped
  <2>4. CASE k >= produced
    <3>1. ASSUME NEW c \in Consumers PROVE ~Moving(c, k)'
      <4>1. pc[c] = "move" => First(c) + count[c] <= Dequeued
        BY DEF FifoInv, Stored
      <4>2. First(c) \in Nat /\ count[c] \in Nat /\ Dequeued \in Nat
        BY <1>0, IndexIsClosed, Bounds DEF TypeOK, First, CountersTyped
      <4>3. Dequeued <= k
        BY <1>0, <1>3, <2>1, <2>4, <4>2
      <4> HIDE DEF k
      <4> QED BY <1>1, <1>2, <2>1, <4>1, <4>2, <4>3 DEF Moving
    <3>2. k < produced + n
      BY <1>0, <1>4, <3>1
    <3> QED BY <1>0, <2>1, <2>2, <2>3, <2>4, <3>2 DEF InPlace
  <2>5. CASE k < produced
    <3>1. ~(Subtract(i, tailIndex) < n)
      BY <1>0, <2>1, <2>3, <2>5, Bounds
    <3>2. \/ Dequeued <= k /\ k < produced
          \/ \E c \in Consumers : Moving(c, k)
      BY <1>1, <1>2, <1>4, <2>5 DEF Moving
    <3>3. InPlace(i)
      BY <3>2 DEF FifoInv, Stored
    <3> QED BY <2>2, <3>1, <3>3 DEF InPlace
  <2> QED BY <1>0, <2>1, <2>4, <2>5
<1> QED BY <1>1, <1>2, <1>4 DEF FifoInv, Stored

LEMMA TakeStored ==
    ASSUME FifoInv, IInv', NEW c \in Consumers, Take(c)
    PROVE  Stored' /\ First(c)' = Dequeued /\ Dequeued' = Dequeued + count[c]
<1>0. /\ TypeOK /\ CountersTyped /\ TotalsTyped
      /\ pc[c] = "take" /\ count[c] \in Nat /\ count[c] > 0
      /\ produced \in Nat /\ Published = produced - pending /\ pending \in Nat
  <2>1. IInv /\ TypeOK /\ LocalsOf(c) /\ pc[c] = "take"
    BY DEF FifoInv, IInv, Locals, Take
  <2>2. CountersTyped /\ TotalsTyped
    BY <2>1, TypesDerived
  <2>3. count[c] \in Nat /\ count[c] > 0
    BY <2>1 DEF LocalsOf, TypeOK
  <2>4. produced \in Nat /\ pending \in Nat /\ Published = produced - pending
    BY <2>1, Bounds DEF IInv, TypeOK, Counters
  <2> QED BY <2>1, <2>2, <2>3, <2>4
<1>1. Dequeued + count[c] <= Published
  <2>1. Granted[c] = count[c] /\ Granted[c] <= Total(Granted)
    BY <1>0, TotalPart, SubQueueAssumption DEF Granted, TotalsTyped
  <2> QED BY <1>0, <2>1 DEF FifoInv, IInv, Limited, CountersTyped, TotalsTyped
<1>2. Dequeued' = Dequeued + count[c]
  <2>1. Dequeued + count[c] < Modulus
    BY <1>0, <1>1, Bounds DEF CountersTyped
  <2> QED BY <1>0, <2>1, Advance, Bounds DEF TypeOK, Dequeued, Take
<1>3. /\ pc'[c] = "move" /\ First(c)' = Dequeued /\ count' = count
      /\ \A d \in Consumers \ {c} : pc'[d] = pc[d] /\ First(d)' = First(d)
      /\ UNCHANGED <<slot, produced>>
  BY <1>0 DEF TypeOK, Take, Goto, First, Dequeued, producer
<1>4. \A d \in Consumers : count[d] \in Nat
  BY <1>0 DEF TypeOK
<1>5. \A d \in Consumers : First(d) \in Nat
  BY <1>0, IndexIsClosed, Bounds DEF TypeOK, First
<1>6. Dequeued \in Nat /\ Published \in Nat
  BY <1>0 DEF CountersTyped
<1>7. \A d \in Consumers : pc'[d] = "move" => First(d)' + count'[d] <= Dequeued'
  BY <1>0, <1>2, <1>3, <1>4, <1>5, <1>6 DEF FifoInv, Stored
<1>8. \A d, e \in Consumers :
         d # e /\ pc'[d] = "move" /\ pc'[e] = "move"
         => First(d)' + count'[d] <= First(e)' \/ First(e)' + count'[e] <= First(d)'
  BY <1>0, <1>3, <1>4, <1>5, <1>6 DEF FifoInv, Stored
<1>9. ASSUME NEW i \in Index,
             \/ Dequeued' <= Subtract(i, Start) /\ Subtract(i, Start) < produced'
             \/ \E d \in Consumers : Moving(d, Subtract(i, Start))'
      PROVE  InPlace(i)'
  <2>1. Subtract(i, Start) \in Nat
    BY IndexIsClosed, Bounds
  <2>2. \/ Dequeued <= Subtract(i, Start) /\ Subtract(i, Start) < produced
        \/ \E d \in Consumers : Moving(d, Subtract(i, Start))
    BY <1>0, <1>1, <1>2, <1>3, <1>6, <1>9, <2>1 DEF Moving
  <2> QED BY <1>3, <2>2 DEF FifoInv, Stored, InPlace
<1> QED BY <1>2, <1>3, <1>7, <1>8, <1>9 DEF Stored

(* Move and MoveThrows leave alone what c is not to move itself. *)
LEMMA MoveStored ==
    ASSUME FifoInv, IInv', NEW c \in Consumers, Move(c) \/ MoveThrows(c)
    PROVE  /\ Stored'
           /\ slot[index[c]] = First(c) + 1
           /\ Move(c) /\ count[c] # 1 => First(c)' = First(c) + 1
<1>0. /\ TypeOK /\ CountersTyped /\ pc[c] = "move" /\ index[c] \in Index
      /\ count[c] \in Nat /\ count[c] > 0
      /\ First(c) \in Nat /\ Dequeued \in Nat /\ Dequeued < Modulus
      /\ First(c) + count[c] <= Dequeued
  <2>1. IInv /\ TypeOK /\ LocalsOf(c) /\ pc[c] = "move"
    BY DEF FifoInv, IInv, Locals, Move, MoveThrows
  <2>2. index[c] \in Index /\ count[c] \in Nat /\ count[c] > 0
    BY <2>1 DEF LocalsOf, TypeOK
  <2>3. First(c) \in Nat
    BY <2>2, IndexIsClosed, Bounds DEF First
  <2>4. First(c) + count[c] <= Dequeued
    BY <2>1 DEF FifoInv, Stored
  <2> QED BY <2>1, <2>2, <2>3, <2>4, TypesDerived DEF CountersTyped
<1>1. UNCHANGED <<Dequeued, produced>>
  BY DEF Move, MoveThrows, counters, producer, Dequeued
<1>2. \A d \in Consumers \ {c} :
         pc'[d] = pc[d] /\ count'[d] = count[d] /\ First(d)' = First(d)
  BY <1>0 DEF TypeOK, Move, MoveThrows, Return, Goto, First
<1>3. \/ pc'[c] # "move"
      \/ pc'[c] = "move" /\ First(c)' = First(c) + 1 /\ count'[c] = count[c] - 1
  <2>1. CASE Return(c)
    BY <1>0, <2>1 DEF Return, Goto, TypeOK
  <2>2. CASE /\ index' = [index EXCEPT ![c] = Add(@, 1)]
             /\ count' = [count EXCEPT ![c] = @ - 1]
             /\ UNCHANGED <<pc, loaded, excess>>
    <3>1. First(c) + 1 < Modulus
      BY <1>0, Bounds
    <3>2. Subtract(Add(index[c], 1), Start) = First(c) + 1
      BY <1>0, <3>1, Advance, Bounds DEF First
    <3> QED BY <1>0, <2>2, <3>2 DEF First, TypeOK
  <2> QED BY <2>1, <2>2 DEF Move, MoveThrows
<1>4. slot[index[c]] = First(c) + 1
  <2>1. Moving(c, First(c))
    BY <1>0 DEF Moving
  <2> QED BY <1>0, <2>1 DEF FifoInv, Stored, InPlace, First
<1>5. \A d \in Consumers : First(d) \in Nat /\ count[d] \in Nat
  BY <1>0, IndexIsClosed, Bounds DEF First, TypeOK
<1>6. \A d, e \in Consumers :
         d # e /\ pc[d] = "move" /\ pc[e] = "move"
         => First(d) + count[d] <= First(e) \/ First(e) + count[e] <= First(d)
  BY DEF FifoInv, Stored
<1>7. \A d, e \in Consumers :
         d # e /\ pc'[d] = "move" /\ pc'[e] = "move"
         => First(d)' + count'[d] <= First(e)' \/ First(e)' + count'[e] <= First(d)'
  <2> SUFFICES ASSUME NEW d \in Consumers, NEW e \in Consumers,
                      d # e /\ pc'[d] = "move" /\ pc'[e] = "move"
               PROVE  First(d)' + count'[d] <= First(e)' \/ First(e)' + count'[e] <= First(d)'
    OBVIOUS
  <2>1. pc[d] = "move" /\ pc[e] = "move"
    BY <1>0, <1>2
  <2>2. First(d) + count[d] <= First(e) \/ First(e) + count[e] <= First(d)
    BY <1>6, <2>1
  <2> QED BY <1>2, <1>3, <1>5, <2>2
<1>8. \A d \in Consumers : pc'[d] = "move" => First(d)' + count'[d] <= Dequeued'
  BY <1>0, <1>1, <1>2, <1>3 DEF FifoInv, Stored
<1>9. ASSUME NEW i \in Index,
             \/ Dequeued <= Subtract(i, Start) /\ Subtract(i, Start) < produced
             \/ \E d \in Consumers : Moving(d, Subtract(i, Start))'
      PROVE  InPlace(i)'
  <2> DEFINE k == Subtract(i, Start)
  <2>1. k \in Nat /\ k < Modulus
    BY IndexIsClosed, Bounds
  <2>2. \A d \in Consumers : Moving(d, k)' => Moving(d, k)
    <3> HIDE DEF k
    <3>1. k' = k
      BY DEF k
    <3> QED BY <1>0, <1>2, <1>3, <1>5, <2>1, <3>1 DEF Moving
  <2>3. InPlace(i)
    BY <1>9, <2>2 DEF FifoInv, Stored
  <2>4. \/ Dequeued <= k
        \/ \E d \in Consumers \ {c} : Moving(d, k)
        \/ Moving(c, k)'
    BY <1>9, <2>2
  <2>5. Dequeued <= k \/ (\E d \in Consumers \ {c} : Moving(d, k)) => ~Moving(c, k)
    <3> HIDE DEF k
    <3> QED BY <1>0, <1>5, <1>6, <2>1 DEF Moving
  <2>6. CASE Move(c)
    <3>1. k # First(c)
      <4> HIDE DEF k
      <4>1. k' = k
        BY DEF k
      <4>2. Moving(c, k)' => k # First(c)
        BY <1>0, <1>3, <2>1, <4>1 DEF Moving
      <4> QED BY <1>0, <2>1, <2>4, <2>5, <4>2 DEF Moving
    <3>2. i # index[c]
      BY <3>1 DEF First
    <3>3. slot'[i] = slot[i]
      BY <1>0, <2>6, <3>2 DEF Move, TypeOK
    <3> QED BY <2>3, <3>3 DEF InPlace
  <2>7. CASE MoveThrows(c)
    <3>1. pc'[c] # "move"
      BY <1>0, <2>7 DEF MoveThrows, Return, Goto, TypeOK
    <3>2. ~Moving(c, k)
      BY <2>4, <2>5, <3>1 DEF Moving
    <3>3. Subtract(i, index[c]) = IF First(c) <= k THEN k - First(c) ELSE k - First(c) + Modulus
      <4>1. First(c) <= k => Subtract(i, index[c]) = k - First(c)
        BY <1>0, Ahead, Bounds DEF First
      <4>2. k < First(c) => Subtract(i, index[c]) = k - First(c) + Modulus
        BY <1>0, Behind, Bounds DEF First
      <4> QED BY <1>0, <2>1, <4>1, <4>2
    <3>4. ~(Subtract(i, index[c]) < count[c])
      <4> HIDE DEF k
      <4> QED BY <1>0, <2>1, <3>2, <3>3, Bounds DEF Moving
    <3>5. slot'[i] = slot[i]
      BY <2>7, <3>4 DEF MoveThrows
    <3> QED BY <2>3, <3>5 DEF InPlace
  <2> QED BY <2>6, <2>7
<1>10. Move(c) /\ count[c] # 1 => First(c)' = First(c) + 1
  <2>1. Move(c) /\ count[c] # 1 => pc'[c] = "move"
    BY <1>0 DEF Move
  <2> QED BY <1>3, <2>1
<1> QED BY <1>1, <1>4, <1>7, <1>8, <1>9, <1>10 DEF Stored

LEMMA NextFifoInv == FifoInv /\ [Next]_vars => FifoInv'
<1> SUFFICES ASSUME FifoInv, [Next]_vars PROVE FifoInv'
  OBVIOUS
<1>1. IInv' /\ TypeOK /\ TypeOK'
  BY NextIInv DEF FifoInv, IInv
<1>2. \A c \in Consumers :
         /\ count[c] \in Nat /\ Len(got[c]) \in Nat /\ count[c] + Len(got[c]) <= MaxBatch
         /\ pc[c] \notin {"idle", "move"} => got[c] = <<>>
  BY <1>1, LenProperties DEF FifoInv, Batches, TypeOK
<1>3. pending \in Nat /\ pending <= MaxBatch /\ MaxBatch \in Nat /\ Len(<<>>) = 0
  BY <1>1, Bounds DEF FifoInv, Batches, TypeOK
<1>4. CASE UNCHANGED vars
  <2>1. UNCHANGED <<Dequeued, produced, pending, slot, pc, index, count, got>>
    BY <1>4 DEF vars, counters, producer, Dequeued
  <2>2. Stored'
    BY <2>1, StoredStays DEF FifoInv
  <2> QED BY <1>1, <2>1, <2>2 DEF FifoInv, Batches
<1>5. ASSUME NEW n \in 1..MaxBatch, Construct(n)
      PROVE  FifoInv'
  <2>1. UNCHANGED <<pc, count, got>> /\ pending' = n /\ n <= MaxBatch
    BY <1>3, <1>5 DEF Construct
  <2> QED BY <1>1, <1>2, <1>5, <2>1, ConstructStored DEF FifoInv, Batches
<1>6. CASE Publish
  <2>1. UNCHANGED <<Dequeued, produced, slot, pc, index, count, got>> /\ pending' = 0
    BY <1>6 DEF Publish, Dequeued
  <2>2. Stored'
    BY <2>1, StoredStays DEF FifoInv
  <2> QED BY <1>1, <1>2, <1>3, <2>1, <2>2 DEF FifoInv, Batches
<1>7. ASSUME NEW c \in Consumers,
             \/ \E max \in 1..MaxBatch : Call(c, max)
             \/ \E l \in Loads : Load(c, l)
             \/ SeeNone(c) \/ Reserve(c) \/ Check(c) \/ GiveBack(c)
      PROVE  FifoInv'
  <2>1. /\ UNCHANGED <<Dequeued, produced, pending, slot>>
        /\ pc[c] # "move" /\ pc'[c] # "move"
        /\ \A d \in Consumers \ {c} :
              pc'[d] = pc[d] /\ index'[d] = index[d] /\ count'[d] = count[d] /\ got'[d] = got[d]
    <3>1. UNCHANGED <<Dequeued, produced, pending, slot>>
      BY <1>7 DEF Call, Load, SeeNone, Reserve, ReserveAtMost, Check, Grant, GiveBack, counters,
                  producer, Dequeued
    <3>2. CASE (\E max \in 1..MaxBatch : Call(c, max)) \/ (\E l \in Loads : Load(c, l))
      BY <1>1, <3>1, <3>2 DEF Call, Load, Goto, TypeOK
    <3>3. CASE SeeNone(c) \/ Reserve(c)
      BY <1>1, <3>1, <3>3 DEF SeeNone, Reserve, ReserveAtMost, Return, Goto, TypeOK
    <3>4. CASE Check(c)
      <4>1. pc[c] = "check" /\ pc'[c] \in {"giveBack", "take"}
        BY <1>1, <3>4 DEF Check, Grant, Goto, TypeOK
      <4> QED BY <1>1, <3>1, <3>4, <4>1 DEF Check, Grant, Goto, TypeOK
    <3>5. CASE GiveBack(c)
      BY <1>1, <3>1, <3>5 DEF GiveBack, ReturnOrTake, Return, Goto, TypeOK
    <3> QED BY <1>7, <3>2, <3>3, <3>4, <3>5
  <2>2. Stored'
    BY <2>1, StoredStays DEF FifoInv
  <2>3. /\ count'[c] + Len(got'[c]) <= MaxBatch
        /\ pc'[c] # "idle" => got'[c] = <<>>
    <3>0. /\ count[c] \in Nat /\ Len(got[c]) \in Nat /\ count[c] + Len(got[c]) <= MaxBatch
          /\ pc[c] # "idle" => got[c] = <<>>
      BY <1>2, <2>1
    <3>1. CASE \E max \in 1..MaxBatch : Call(c, max)
      BY <1>1, <1>3, <3>1 DEF Call, TypeOK
    <3>2. CASE \E l \in Loads : Load(c, l)
      BY <3>0, <3>2 DEF Load
    <3>3. CASE SeeNone(c)
      <4>1. got' = got /\ count'[c] = 0 /\ pc'[c] = "idle"
        BY <1>1, <3>3 DEF SeeNone, Return, Goto, TypeOK
      <4> QED BY <1>3, <3>0, <4>1
    <3>4. CASE Reserve(c)
      <4>1. Estimate(c) \in Nat
        <5>1. /\ loaded[c]["tail"] \in Index /\ loaded[c]["optimistic"] \in Index
              /\ loaded[c]["overcommit"] \in Index
          <6>1. loaded[c] \in [Loads -> Index]
            BY <1>1 DEF TypeOK
          <6> QED BY <6>1 DEF Loads
        <5> QED BY <5>1, IndexIsClosed DEF Estimate
      <4>2. count'[c] \in Nat /\ count'[c] <= count[c]
        BY <1>1, <1>2, <3>4, <4>1 DEF Reserve, ReserveAtMost, Smaller, TypeOK
      <4>3. got'[c] = <<>> /\ got[c] = <<>>
        BY <3>0, <3>4 DEF Reserve, ReserveAtMost
      <4> QED BY <1>3, <3>0, <4>2, <4>3
    <3>5. CASE Check(c)
      <4> DEFINE actual == Subtract(tailIndex, Subtract(index[c], loaded[c]["overcommit"]))
      <4>1. actual \in Nat
        <5>1. tailIndex \in Index /\ index[c] \in Index /\ loaded[c]["overcommit"] \in Index
          BY <1>1 DEF TypeOK, Loads
        <5> QED BY <5>1, IndexIsClosed
      <4>2. count'[c] \in Nat /\ count'[c] <= count[c]
        <5>1. count'[c] \in {Smaller(count[c], actual), 0}
          BY <1>1, <3>5 DEF Check, Grant, TypeOK
        <5> HIDE DEF actual
        <5> QED BY <1>2, <4>1, <5>1 DEF Smaller
      <4>3. got'[c] = <<>> /\ got[c] = <<>>
        BY <3>0, <3>5 DEF Check, Grant
      <4> QED BY <1>3, <3>0, <4>2, <4>3
    <3>6. CASE GiveBack(c)
      <4>1. count'[c] = count[c] /\ got'[c] = <<>> /\ got[c] = <<>>
        BY <1>1, <3>0, <3>6 DEF GiveBack, ReturnOrTake, Return, TypeOK
      <4> QED BY <1>3, <3>0, <4>1
    <3> QED BY <1>7, <3>1, <3>2, <3>3, <3>4, <3>5, <3>6
  <2> QED BY <1>1, <1>2, <1>3, <2>1, <2>2, <2>3 DEF FifoInv, Batches
<1>8. ASSUME NEW c \in Consumers, Take(c)
      PROVE  FifoInv'
  <2>1. UNCHANGED <<pending, count, got>> /\ pc' = [pc EXCEPT ![c] = "move"]
    BY <1>8 DEF Take, Goto, producer
  <2>2. Stored'
    BY <1>1, <1>8, TakeStored
  <2> QED BY <1>1, <1>2, <1>3, <2>1, <2>2 DEF FifoInv, Batches, TypeOK
<1>9. ASSUME NEW c \in Consumers, Move(c) \/ MoveThrows(c)
      PROVE  FifoInv'
  <2>0. /\ count[c] \in Nat /\ Len(got[c]) \in Nat /\ count[c] + Len(got[c]) <= MaxBatch
        /\ got[c] \in Seq(Nat)
    BY <1>1, <1>2 DEF TypeOK
  <2>1. Stored'
    BY <1>1, <1>9, MoveStored
  <2>2. /\ pending' = pending
        /\ \A d \in Consumers \ {c} : pc'[d] = pc[d] /\ count'[d] = count[d] /\ got'[d] = got[d]
    <3>1. CASE Move(c)
      BY <1>1, <3>1 DEF Move, Return, Goto, producer, TypeOK
    <3>2. CASE MoveThrows(c)
      BY <1>1, <3>2 DEF MoveThrows, Return, Goto, producer, TypeOK
    <3> QED BY <1>9, <3>1, <3>2
  <2>3. pc[c] = "move" /\ pc'[c] \in {"idle", "move"}
    BY <1>1, <1>9 DEF Move, MoveThrows, Return, Goto, TypeOK
  <2>4. count'[c] + Len(got'[c]) <= MaxBatch
    <3>1. CASE Move(c)
      <4>1. got'[c] = Append(got[c], slot[index[c]]) /\ slot[index[c]] \in Nat
        BY <1>1, <3>1 DEF Move, TypeOK
      <4>2. Len(got'[c]) = Len(got[c]) + 1
        BY <2>0, <4>1
      <4>3. count'[c] = count[c] - 1
        BY <1>1, <2>0, <3>1 DEF Move, Return, TypeOK
      <4> QED BY <1>3, <2>0, <4>2, <4>3
    <3>2. CASE MoveThrows(c)
      <4>1. got'[c] = got[c] /\ count'[c] = 0
        BY <1>1, <3>2 DEF MoveThrows, Return, TypeOK
      <4> QED BY <1>3, <2>0, <4>1
    <3> QED BY <1>9, <3>1, <3>2
  <2> QED BY <1>1, <1>2, <1>3, <2>1, <2>2, <2>3, <2>4 DEF FifoInv, Batches
<1> QED BY <1>4, <1>5, <1>6, <1>7, <1>8, <1>9 DEF Next, Running

(* What the blocks hold is so in every state. *)
THEOREM FifoInvariance == Spec => []FifoInv
<1> QED BY InitFifoInv, NextFifoInv, PTL DEF Spec

-------------------------------------------------------------------------------
(* What Fifo holds, in numbers: n elements from k + 1 on. *)
Run(k, n) == [i \in 1..n |-> k + i]

Waiting == [i \in 1..Available |-> slot[Add(headIndex, i - 1)]]

Taken == [c \in Consumers |-> got[c] \o Remaining(c)]

LEMMA RunType ==
    ASSUME NEW k \in Nat, NEW n \in Nat
    PROVE  /\ Run(k, n) \in Seq(Nat) /\ Len(Run(k, n)) = n
           /\ \A i \in 1..n : Run(k, n)[i] = k + i
BY DEF Run

LEMMA RunEmpty == ASSUME NEW k \in Nat PROVE Run(k, 0) = <<>>
<1>1. 0 \in Nat
  OBVIOUS
<1>2. Run(k, 0) \in Seq(Nat) /\ Len(Run(k, 0)) = 0
  BY <1>1, RunType, Zenon
<1> QED BY <1>2, EmptySeq

(* The first n elements of a run, and the others. *)
LEMMA RunParts ==
    ASSUME NEW k \in Nat, NEW m \in Nat, NEW n \in 0..m
    PROVE  /\ SubSeq(Run(k, m), 1, n) = Run(k, n)
           /\ SubSeq(Run(k, m), n + 1, m) = Run(k + n, m - n)
<1>0. n \in Nat /\ n <= m /\ m - n \in Nat /\ k + n \in Nat
  OBVIOUS
<1>1. /\ Run(k, m) \in Seq(Nat) /\ Len(Run(k, m)) = m
      /\ \A i \in 1..m : Run(k, m)[i] = k + i /\ Run(k, m)[i] \in Nat
  <2>1. \A i \in 1..m : k + i \in Nat
    OBVIOUS
  <2> QED BY <2>1, RunType
<1>2. SubSeq(Run(k, m), 1, n) = Run(k, n)
  <2> DEFINE s == SubSeq(Run(k, m), 1, n)
  <2>1. \A i \in 1..n : Run(k, m)[i] \in Nat
    BY <1>0, <1>1
  <2>2. s \in Seq(Nat) /\ Len(s) = n /\ \A i \in 1..n : s[i] = Run(k, m)[i]
    <3>1. /\ s \in Seq(Nat) /\ Len(s) = IF 1 <= n THEN n - 1 + 1 ELSE 0
          /\ \A i \in 1..(n - 1 + 1) : s[i] = Run(k, m)[1 + i - 1]
      BY <1>0, <2>1, SubSeqProperties
    <3> HIDE DEF s
    <3> QED BY <1>0, <3>1
  <2>3. /\ Run(k, n) \in Seq(Nat) /\ Len(Run(k, n)) = n
        /\ \A i \in 1..n : Run(k, n)[i] = k + i
    BY <1>0, RunType
  <2>4. \A i \in 1..n : s[i] = Run(k, n)[i]
    BY <1>0, <1>1, <2>2, <2>3
  <2> HIDE DEF s
  <2>5. s = Run(k, n)
    BY <2>2, <2>3, <2>4, SeqEqual
  <2> QED BY <2>5 DEF s
<1>3. SubSeq(Run(k, m), n + 1, m) = Run(k + n, m - n)
  <2> DEFINE s == SubSeq(Run(k, m), n + 1, m)
  <2>1. \A i \in (n + 1)..m : Run(k, m)[i] \in Nat
    BY <1>0, <1>1
  <2>2. s \in Seq(Nat) /\ Len(s) = m - n /\ \A i \in 1..(m - n) : s[i] = Run(k, m)[n + i]
    <3>1. /\ s \in Seq(Nat) /\ Len(s) = IF n + 1 <= m THEN m - (n + 1) + 1 ELSE 0
          /\ \A i \in 1..(m - (n + 1) + 1) : s[i] = Run(k, m)[(n + 1) + i - 1]
      <4>1. n + 1 \in Int /\ m \in Int
        BY <1>0
      <4> QED BY <2>1, <4>1, SubSeqProperties
    <3> HIDE DEF s
    <3>2. m - (n + 1) + 1 = m - n /\ \A i \in 1..(m - n) : (n + 1) + i - 1 = n + i
      BY <1>0
    <3> QED BY <1>0, <3>1, <3>2
  <2>3. /\ Run(k + n, m - n) \in Seq(Nat) /\ Len(Run(k + n, m - n)) = m - n
        /\ \A i \in 1..(m - n) : Run(k + n, m - n)[i] = k + n + i
    BY <1>0, RunType
  <2>4. \A i \in 1..(m - n) : s[i] = Run(k + n, m - n)[i]
    <3> SUFFICES ASSUME NEW i \in 1..(m - n) PROVE s[i] = Run(k + n, m - n)[i]
      OBVIOUS
    <3>1. n + i \in 1..m
      BY <1>0
    <3>2. Run(k, m)[n + i] = k + (n + i)
      BY <1>1, <3>1
    <3> QED BY <1>0, <2>2, <2>3, <3>2
  <2> HIDE DEF s
  <2>5. s = Run(k + n, m - n)
    BY <2>2, <2>3, <2>4, SeqEqual
  <2> QED BY <2>5 DEF s
<1> QED BY <1>2, <1>3

(* A run is lengthened by the elements that follow. *)
LEMMA RunJoin ==
    ASSUME NEW k \in Nat, NEW m \in Nat, NEW n \in Nat
    PROVE  Run(k, m) \o Run(k + m, n) = Run(k, m + n)
<1>1. k + m \in Nat /\ m + n \in Nat
  OBVIOUS
<1>2. /\ Run(k, m) \in Seq(Nat) /\ Len(Run(k, m)) = m
      /\ Run(k + m, n) \in Seq(Nat) /\ Len(Run(k + m, n)) = n
      /\ Run(k, m + n) \in Seq(Nat) /\ Len(Run(k, m + n)) = m + n
      /\ \A i \in 1..m : Run(k, m)[i] = k + i
      /\ \A i \in 1..n : Run(k + m, n)[i] = k + m + i
      /\ \A i \in 1..(m + n) : Run(k, m + n)[i] = k + i
  BY <1>1, RunType
<1> DEFINE a == Run(k, m)
           b == Run(k + m, n)
           s == a \o b
           r == Run(k, m + n)
<1>3. /\ a \in Seq(Nat) /\ Len(a) = m /\ \A i \in 1..m : a[i] = k + i
      /\ b \in Seq(Nat) /\ Len(b) = n /\ \A i \in 1..n : b[i] = k + m + i
      /\ r \in Seq(Nat) /\ Len(r) = m + n /\ \A i \in 1..(m + n) : r[i] = k + i
  BY <1>2
<1> HIDE DEF a, b, r
<1>4. /\ s \in Seq(Nat) /\ Len(s) = Len(a) + Len(b)
      /\ \A i \in 1..(Len(a) + Len(b)) : s[i] = IF i <= Len(a) THEN a[i] ELSE b[i - Len(a)]
  BY <1>3, ConcatProperties, Zenon
<1> HIDE DEF s
<1>5. ASSUME NEW i \in 1..(m + n)
      PROVE  s[i] = r[i]
  <2>1. s[i] = IF i <= m THEN a[i] ELSE b[i - m]
    BY <1>3, <1>4
  <2>2. CASE i <= m
    BY <1>3, <2>1, <2>2
  <2>3. CASE i > m
    <3>1. i - m \in 1..n
      BY <2>3
    <3>2. b[i - m] = k + m + (i - m)
      BY <1>3, <3>1
    <3> QED BY <1>3, <2>1, <2>3, <3>2
  <2> QED BY <2>2, <2>3
<1>6. s = r
  BY <1>3, <1>4, <1>5, SeqEqual
<1> QED BY <1>6 DEF s, a, b, r

(* What has been moved is what was to be moved first. *)
LEMMA RunMoves ==
    ASSUME NEW s \in Seq(Nat), NEW k \in Nat, NEW n \in Nat, n > 0
    PROVE  Append(s, k + 1) \o Run(k + 1, n - 1) = s \o Run(k, n)
<1> DEFINE one == <<k + 1>>
           rest == Run(k + 1, n - 1)
<1>0. /\ k + 1 \in Nat /\ n - 1 \in Nat /\ 1 + (n - 1) = n /\ 1 \in Nat
  OBVIOUS
<1>1. one \in Seq(Nat) /\ Len(one) = 1 /\ one[1] = k + 1
  OBVIOUS
<1>2. rest \in Seq(Nat)
  BY <1>0, RunType, Zenon
<1>3. Append(s, k + 1) = s \o one
  OBVIOUS
<1>4. one = Run(k, 1)
  <2>1. /\ Run(k, 1) \in Seq(Nat) /\ Len(Run(k, 1)) = 1
        /\ \A i \in 1..1 : Run(k, 1)[i] = k + i
    BY <1>0, RunType, Zenon
  <2>2. \A i \in 1..1 : one[i] = Run(k, 1)[i]
    BY <1>1, <2>1
  <2> HIDE DEF one
  <2> QED BY <1>1, <2>1, <2>2, SeqEqual
<1>5. one \o rest = Run(k, n)
  <2>1. Run(k, 1) \o Run(k + 1, n - 1) = Run(k, 1 + (n - 1))
    BY <1>0, RunJoin, Zenon
  <2> QED BY <1>0, <1>4, <2>1
<1>6. (s \o one) \o rest = s \o (one \o rest)
  <2>1. \A a, b, c \in Seq(Nat) : (a \o b) \o c = a \o (b \o c)
    <3> HIDE DEF one, rest
    <3>1. \A S : \A a, b, c \in Seq(S) : (a \o b) \o c = a \o (b \o c)
      BY ConcatAssociative, Zenon
    <3> DEFINE Assoc(S) == \A a, b, c \in Seq(S) : (a \o b) \o c = a \o (b \o c)
    <3>2. \A S : Assoc(S)
      BY <3>1
    <3> HIDE DEF Assoc
    <3>3. Assoc(Nat)
      BY <3>2
    <3> QED BY <3>3 DEF Assoc
  <2> HIDE DEF one, rest
  <2> QED BY <1>1, <1>2, <2>1
<1> QED BY <1>3, <1>5, <1>6

(* The part of a sequence that is followed by another. *)
LEMMA FirstPart ==
    ASSUME NEW s \in Seq(Nat), NEW t \in Seq(Nat)
    PROVE  SubSeq(s \o t, 1, Len(s)) = s
<1> DEFINE u == s \o t
           r == SubSeq(u, 1, Len(s))
<1>1. /\ Len(s) \in Nat /\ Len(t) \in Nat /\ u \in Seq(Nat) /\ Len(u) = Len(s) + Len(t)
      /\ \A i \in 1..(Len(s) + Len(t)) : u[i] = IF i <= Len(s) THEN s[i] ELSE t[i - Len(s)]
  BY ConcatProperties, LenProperties
<1> HIDE DEF u
<1>2. \A i \in 1..Len(s) : u[i] = s[i] /\ u[i] \in Nat
  BY <1>1
<1>3. /\ r \in Seq(Nat) /\ Len(r) = IF 1 <= Len(s) THEN Len(s) - 1 + 1 ELSE 0
      /\ \A i \in 1..(Len(s) - 1 + 1) : r[i] = u[1 + i - 1]
  BY <1>1, <1>2, SubSeqProperties
<1> HIDE DEF r
<1>4. Len(r) = Len(s) /\ \A i \in 1..Len(r) : r[i] = s[i]
  BY <1>1, <1>2, <1>3
<1>5. r = s
  BY <1>3, <1>4, SeqEqual
<1> QED BY <1>5 DEF r, u

(* The state of Fifo. *)
FifoState ==
    /\ produced - pending = Published
    /\ Dequeued \in Nat /\ Published \in Nat /\ Dequeued <= Published
    /\ Waiting = Run(Dequeued, Published - Dequeued)
    /\ \A c \in Consumers :
          /\ First(c) \in Nat /\ count[c] \in Nat /\ got[c] \in Seq(Nat)
          /\ Taken[c] = IF pc[c] = "move" THEN got[c] \o Run(First(c), count[c]) ELSE got[c]

LEMMA StateOfFifo == FifoInv => FifoState
<1> SUFFICES ASSUME FifoInv PROVE FifoState
  OBVIOUS
<1>1. /\ TypeOK /\ CountersTyped /\ TotalsTyped /\ Dequeued + Total(Granted) <= Published
      /\ produced - pending = Published
  BY TypesDerived DEF FifoInv, IInv, Limited, Counters
<1>2. /\ Dequeued \in Nat /\ Published \in Nat /\ Dequeued <= Published
      /\ Published < Modulus /\ Dequeued < Modulus
  BY <1>1 DEF CountersTyped, TotalsTyped
<1>3. Published <= produced /\ produced \in Nat
  BY <1>1, Bounds DEF TypeOK
<1>4. Available = Published - Dequeued
  BY <1>1, <1>2, Ahead, Bounds DEF TypeOK, Available, Published, Dequeued
<1>5. Waiting = Run(Dequeued, Published - Dequeued)
  <2>1. ASSUME NEW j \in 1..(Published - Dequeued)
        PROVE  slot[Add(headIndex, j - 1)] = Dequeued + j
    <3> DEFINE i == Add(headIndex, j - 1)
    <3>1. j - 1 \in Nat /\ Dequeued + (j - 1) < Published
      BY <1>2
    <3>2. i \in Index /\ Subtract(i, Start) = Dequeued + (j - 1)
      BY <1>1, <1>2, <3>1, Advance, Bounds DEF TypeOK, Dequeued
    <3> HIDE DEF i
    <3>3. InPlace(i)
      BY <1>2, <1>3, <3>1, <3>2 DEF FifoInv, Stored
    <3> QED BY <1>2, <3>2, <3>3 DEF InPlace, i
  <2> QED BY <1>4, <2>1 DEF Waiting, Run
<1>6. ASSUME NEW c \in Consumers
      PROVE  /\ First(c) \in Nat /\ count[c] \in Nat /\ got[c] \in Seq(Nat)
             /\ Taken[c] = IF pc[c] = "move" THEN got[c] \o Run(First(c), count[c]) ELSE got[c]
  <2>1. /\ count[c] \in Nat /\ got[c] \in Seq(Nat) /\ index[c] \in Index
    BY <1>1 DEF TypeOK
  <2>2. First(c) \in Nat
    BY <2>1, IndexIsClosed, Bounds DEF First
  <2>3. CASE pc[c] = "move"
    <3>1. First(c) + count[c] <= Dequeued
      BY <2>3 DEF FifoInv, Stored
    <3>2. ASSUME NEW j \in 1..count[c]
          PROVE  slot[Add(index[c], j - 1)] = First(c) + j
      <4> DEFINE i == Add(index[c], j - 1)
      <4>1. j - 1 \in Nat /\ First(c) <= First(c) + (j - 1) /\ First(c) + (j - 1) < First(c) + count[c]
        BY <2>1, <2>2
      <4>2. First(c) + (j - 1) < Modulus
        BY <1>2, <2>1, <2>2, <3>1, <4>1, Bounds
      <4>3. i \in Index /\ Subtract(i, Start) = First(c) + (j - 1)
        BY <2>1, <4>1, <4>2, Advance, Bounds DEF First
      <4> HIDE DEF i
      <4>4. InPlace(i)
        BY <2>3, <4>1, <4>3 DEF FifoInv, Stored, Moving
      <4> QED BY <2>2, <4>3, <4>4 DEF InPlace, i
    <3>3. Remaining(c) = Run(First(c), count[c])
      BY <2>3, <3>2 DEF Remaining, Run
    <3> QED BY <2>1, <2>2, <2>3, <3>3 DEF Taken
  <2>4. CASE pc[c] # "move"
    <3>1. Taken[c] = got[c] \o <<>>
      BY <2>4 DEF Taken, Remaining
    <3>2. got[c] \o <<>> = got[c]
      BY <2>1, ConcatEmptySeq
    <3> QED BY <2>1, <2>2, <2>4, <3>1, <3>2
  <2> QED BY <2>3, <2>4
<1> QED BY <1>1, <1>2, <1>5, <1>6 DEF FifoState

LEMMA StateOfFifoNext == FifoInv' => FifoState'
BY StateOfFifo, PTL

LEMMA InitIsInit == Init => Abstract!Init
<1> SUFFICES ASSUME Init PROVE Abstract!Init
  OBVIOUS
<1>1. FifoState
  BY InitFifoInv, StateOfFifo
<1>2. Published = 0 /\ Dequeued = 0
  BY SubtractIs, Bounds DEF Init, Published, Dequeued, Index
<1>3. Waiting = <<>>
  BY <1>1, <1>2, RunEmpty DEF FifoState
<1>4. Taken = [c \in Consumers |-> <<>>]
  <2>1. \A c \in Consumers : Taken[c] = <<>>
    BY <1>1 DEF FifoState, Init
  <2> QED BY <2>1 DEF Taken
<1> QED BY <1>1, <1>2, <1>3, <1>4 DEF FifoState, Abstract!Init, Waiting, Taken

(* What a consumer has taken stays as it is, if it moves no element. *)
LEMMA TakenStays ==
    ASSUME FifoState, FifoState', NEW c \in Consumers,
           pc'[c] = "move" <=> pc[c] = "move", got'[c] = got[c],
           pc[c] = "move" => index'[c] = index[c] /\ count'[c] = count[c]
    PROVE  Taken'[c] = Taken[c]
BY DEF FifoState, First

LEMMA PublishEnqueues ==
    ASSUME FifoInv, FifoInv', Publish
    PROVE  Abstract!Enqueue(pending) /\ pending \in 1..MaxBatch
<1>1. FifoState /\ FifoState'
  BY StateOfFifo, StateOfFifoNext
<1>2. /\ pending \in Nat /\ pending > 0 /\ pending <= MaxBatch
      /\ produced \in Nat /\ produced <= MaxElements
  BY Bounds DEF FifoInv, IInv, Batches, TypeOK, Publish
<1>3. Dequeued' = Dequeued /\ Published' = Published + pending
  <2>1. Published' = produced - 0
    BY <1>1 DEF FifoState, Publish
  <2> QED BY <1>1, <1>2, <2>1 DEF FifoState, Publish, Dequeued
<1>4. Waiting' = Waiting \o [i \in 1..pending |-> produced - pending + i]
  <2>1. Published - Dequeued \in Nat /\ Dequeued + (Published - Dequeued) = Published
    BY <1>1 DEF FifoState
  <2>2. Run(Dequeued, Published - Dequeued) \o Run(Published, pending)
        = Run(Dequeued, (Published - Dequeued) + pending)
    <3>1. Dequeued \in Nat /\ Published - Dequeued \in Nat /\ pending \in Nat
      BY <1>1, <1>2, <2>1 DEF FifoState
    <3>2. Run(Dequeued, Published - Dequeued) \o Run(Dequeued + (Published - Dequeued), pending)
          = Run(Dequeued, (Published - Dequeued) + pending)
      BY <3>1, RunJoin, Zenon
    <3> QED BY <2>1, <3>2
  <2>3. Waiting' = Run(Dequeued, (Published + pending) - Dequeued)
    BY <1>1, <1>3 DEF FifoState, Run
  <2>4. (Published + pending) - Dequeued = (Published - Dequeued) + pending
    BY <1>1, <1>2 DEF FifoState
  <2>5. Run(Published, pending) = [i \in 1..pending |-> produced - pending + i]
    BY <1>1 DEF FifoState, Run
  <2> QED BY <1>1, <2>2, <2>3, <2>4, <2>5 DEF FifoState
<1>5. Taken' = Taken
  <2>1. \A c \in Consumers : Taken'[c] = Taken[c]
    BY <1>1, TakenStays DEF Publish
  <2> QED BY <2>1 DEF Taken
<1>6. produced' - pending' = produced - pending + pending /\ produced - pending + pending <= MaxElements
  BY <1>2 DEF Publish
<1>7. pending \in 1..MaxBatch
  BY <1>2, Bounds
<1>8. Abstract!Enqueue(pending)
  BY <1>4, <1>5, <1>6, Zenon DEF Abstract!Enqueue, Waiting, Taken
<1> QED BY <1>7, <1>8

LEMMA TakeDequeues ==
    ASSUME FifoInv, FifoInv', NEW c \in Consumers, Take(c)
    PROVE  Abstract!Dequeue(c, count[c]) /\ count[c] \in 1..MaxBatch
<1>1. FifoState /\ FifoState'
  BY StateOfFifo, StateOfFifoNext
<1>2. TypeOK /\ LocalsOf(c) /\ pc[c] = "take"
  BY DEF FifoInv, IInv, Locals, Take
<1>3. count[c] \in Nat /\ count[c] > 0 /\ count[c] <= MaxBatch /\ got[c] = <<>>
  <2>1. count[c] \in Nat /\ count[c] > 0 /\ got[c] = <<>> /\ count[c] + Len(got[c]) <= MaxBatch
    BY <1>2 DEF TypeOK, LocalsOf, FifoInv, Batches
  <2>2. Len(got[c]) \in Nat
    BY <2>1
  <2> QED BY <2>1, <2>2, Bounds
<1>4. First(c)' = Dequeued /\ Dequeued' = Dequeued + count[c] /\ Published' = Published
  BY TakeStored DEF FifoInv, Take, Published
<1>5. Dequeued + count[c] <= Published
  BY <1>1, <1>4 DEF FifoState
<1> DEFINE m == Published - Dequeued
<1>6. m \in Nat /\ count[c] \in 0..m /\ Dequeued \in Nat /\ m - count[c] = Published - (Dequeued + count[c])
  <2>1. Dequeued \in Nat /\ Published \in Nat /\ Dequeued <= Published
    BY <1>1 DEF FifoState
  <2> QED BY <1>3, <1>5, <2>1
<1>7. Waiting = Run(Dequeued, m) /\ Len(Waiting) = m
  BY <1>1, <1>6, RunType DEF FifoState
<1>8. SubSeq(Waiting, 1, count[c]) = Run(Dequeued, count[c])
  BY <1>6, <1>7, RunParts
<1>9. Waiting' = SubSeq(Waiting, count[c] + 1, Len(Waiting))
  <2>1. Waiting' = Run(Dequeued + count[c], m - count[c])
    BY <1>1, <1>4, <1>6 DEF FifoState, Run
  <2>2. SubSeq(Run(Dequeued, m), count[c] + 1, m) = Run(Dequeued + count[c], m - count[c])
    BY <1>6, RunParts
  <2> QED BY <1>7, <2>1, <2>2
<1>10. Taken[c] = <<>> /\ Taken'[c] = SubSeq(Waiting, 1, count[c])
  <2>1. Taken[c] = <<>>
    BY <1>1, <1>2, <1>3 DEF FifoState
  <2>2. pc'[c] = "move" /\ got'[c] = <<>> /\ count'[c] = count[c]
    BY <1>2, <1>3 DEF Take, Goto, TypeOK
  <2>3. Taken'[c] = <<>> \o Run(Dequeued, count[c])
    BY <1>1, <1>4, <2>2 DEF FifoState
  <2>4. <<>> \o Run(Dequeued, count[c]) = Run(Dequeued, count[c])
    BY <1>3, <1>6, RunType, ConcatEmptySeq
  <2> QED BY <1>8, <2>1, <2>3, <2>4
<1>11. Taken' = [Taken EXCEPT ![c] = SubSeq(Waiting, 1, count[c])]
  <2>1. \A d \in Consumers \ {c} : Taken'[d] = Taken[d]
    BY <1>1, <1>2, TakenStays DEF Take, Goto, TypeOK
  <2> QED BY <1>10, <2>1 DEF Taken
<1>12. produced' - pending' = produced - pending
  BY DEF Take, producer
<1>13. count[c] <= Len(Waiting)
  BY <1>6, <1>7
<1> HIDE DEF m
<1>14. count[c] \in 1..MaxBatch
  BY <1>3, Bounds
<1>15. Abstract!Dequeue(c, count[c])
  <2>1. Taken[c] = got[c] \o Remaining(c)
    BY DEF Taken
  <2> QED BY <1>9, <1>10, <1>11, <1>12, <1>13, <2>1, Zenon DEF Abstract!Dequeue, Waiting, Taken
<1> QED BY <1>14, <1>15

(* An element that is moved had been taken; one that is lost is not stored. *)
LEMMA MoveStutters ==
    ASSUME FifoInv, FifoInv', NEW c \in Consumers, Move(c)
    PROVE  Taken'[c] = Taken[c]
<1>1. FifoState /\ FifoState'
  BY StateOfFifo, StateOfFifoNext
<1>2. /\ TypeOK /\ pc[c] = "move" /\ count[c] \in Nat /\ count[c] > 0
      /\ slot[index[c]] = First(c) + 1 /\ First(c) \in Nat /\ got[c] \in Seq(Nat)
  <2>1. TypeOK /\ LocalsOf(c) /\ pc[c] = "move"
    BY DEF FifoInv, IInv, Locals, Move
  <2> QED BY <1>1, <2>1, MoveStored DEF FifoInv, FifoState, LocalsOf
<1>3. Taken[c] = got[c] \o Run(First(c), count[c])
  BY <1>1, <1>2 DEF FifoState
<1>4. got'[c] = Append(got[c], First(c) + 1)
  BY <1>2 DEF Move, TypeOK
<1>5. Append(got[c], First(c) + 1) \o Run(First(c) + 1, count[c] - 1)
      = got[c] \o Run(First(c), count[c])
  BY <1>2, RunMoves
<1>6. CASE count[c] = 1
  <2>1. pc'[c] = "idle"
    BY <1>2, <1>6 DEF Move, Return, Goto, TypeOK
  <2>2. Taken'[c] = Append(got[c], First(c) + 1)
    BY <1>1, <1>4, <2>1 DEF FifoState
  <2>3. Run(First(c) + 1, count[c] - 1) = <<>>
    <3>1. First(c) + 1 \in Nat /\ count[c] - 1 = 0
      BY <1>2, <1>6
    <3> QED BY <3>1, RunEmpty
  <2>4. Append(got[c], First(c) + 1) \in Seq(Nat)
    BY <1>2
  <2>5. Append(got[c], First(c) + 1) \o <<>> = Append(got[c], First(c) + 1)
    BY <2>4, ConcatEmptySeq
  <2> QED BY <1>3, <1>5, <2>2, <2>3, <2>5
<1>7. CASE count[c] # 1
  <2>1. pc'[c] = "move" /\ count'[c] = count[c] - 1
    BY <1>2, <1>7 DEF Move, TypeOK
  <2>2. First(c)' = First(c) + 1
    BY <1>7, MoveStored DEF FifoInv
  <2> QED BY <1>1, <1>3, <1>4, <1>5, <2>1, <2>2 DEF FifoState
<1> QED BY <1>6, <1>7

LEMMA ThrowLoses ==
    ASSUME FifoInv, FifoInv', NEW c \in Consumers, MoveThrows(c)
    PROVE  /\ Len(got[c]) \in 0..MaxBatch /\ Len(got[c]) < Len(Taken[c])
           /\ Taken'[c] = SubSeq(Taken[c], 1, Len(got[c]))
<1>1. FifoState /\ FifoState'
  BY StateOfFifo, StateOfFifoNext
<1>2. /\ TypeOK /\ pc[c] = "move" /\ count[c] \in Nat /\ count[c] > 0
      /\ First(c) \in Nat /\ got[c] \in Seq(Nat) /\ count[c] + Len(got[c]) <= MaxBatch
  <2>1. TypeOK /\ LocalsOf(c) /\ pc[c] = "move"
    BY DEF FifoInv, IInv, Locals, MoveThrows
  <2> QED BY <1>1, <2>1 DEF FifoInv, FifoState, LocalsOf, Batches
<1> DEFINE rest == Run(First(c), count[c])
<1>3. rest \in Seq(Nat) /\ Len(rest) = count[c]
  BY <1>2, RunType
<1>4. Taken[c] = got[c] \o rest
  BY <1>1, <1>2 DEF FifoState
<1>5. Taken'[c] = got[c]
  <2>1. pc'[c] = "idle" /\ got' = got
    BY <1>2 DEF MoveThrows, Return, Goto, TypeOK
  <2> QED BY <1>1, <2>1 DEF FifoState
<1> HIDE DEF rest
<1>6. Len(got[c]) \in Nat /\ Len(Taken[c]) = Len(got[c]) + count[c]
  BY <1>2, <1>3, <1>4, ConcatProperties, LenProperties
<1>7. SubSeq(Taken[c], 1, Len(got[c])) = got[c]
  BY <1>2, <1>3, <1>4, FirstPart
<1> QED BY <1>2, <1>5, <1>6, <1>7, Bounds

LEMMA NextRefines == FifoInv /\ FifoInv' /\ [Next]_vars => [Abstract!Next]_(Abstract!vars)
<1> SUFFICES ASSUME FifoInv, FifoInv', [Next]_vars
             PROVE  Abstract!Next \/ UNCHANGED <<produced - pending, Waiting, Taken>>
  BY DEF Abstract!vars, Waiting, Taken
<1>1. FifoState /\ FifoState' /\ TypeOK
  BY StateOfFifo, StateOfFifoNext DEF FifoInv, IInv
<1>2. ASSUME UNCHANGED <<Published, Dequeued>>
      PROVE  UNCHANGED <<produced - pending, Waiting>>
  BY <1>1, <1>2 DEF FifoState, Run
<1>3. CASE UNCHANGED vars
  BY <1>3 DEF vars, counters, producer, Waiting, Available, Taken, Remaining
<1>4. ASSUME NEW n \in 1..MaxBatch, Construct(n)
      PROVE  UNCHANGED <<produced - pending, Waiting, Taken>>
  <2>1. UNCHANGED <<Published, Dequeued, pc, got, index, count>>
    BY <1>4 DEF Construct, counters, Published, Dequeued
  <2>2. \A c \in Consumers : Taken'[c] = Taken[c]
    BY <1>1, <2>1, TakenStays
  <2> QED BY <1>2, <2>1, <2>2 DEF Taken
<1>5. CASE Publish
  BY <1>5, PublishEnqueues DEF Abstract!Next
<1>6. ASSUME NEW c \in Consumers, NEW max \in 1..MaxBatch, Call(c, max)
      PROVE  Abstract!Call(c)
  <2>1. UNCHANGED <<Published, Dequeued>>
    BY <1>6 DEF Call, counters, Published, Dequeued
  <2>2. Taken'[c] = <<>>
    BY <1>1, <1>6 DEF FifoState, Call, Goto, TypeOK
  <2>3. \A d \in Consumers \ {c} : Taken'[d] = Taken[d]
    BY <1>1, <1>6, TakenStays DEF Call, Goto, TypeOK
  <2>4. Taken' = [Taken EXCEPT ![c] = <<>>]
    BY <2>2, <2>3 DEF Taken
  <2> QED BY <1>2, <2>1, <2>4 DEF Abstract!Call, Waiting, Taken
<1>7. ASSUME NEW c \in Consumers,
             \/ \E l \in Loads : Load(c, l)
             \/ SeeNone(c) \/ Reserve(c) \/ Check(c) \/ GiveBack(c)
      PROVE  UNCHANGED <<produced - pending, Waiting, Taken>>
  <2>1. UNCHANGED <<Published, Dequeued, got>>
    BY <1>7 DEF Load, SeeNone, Reserve, ReserveAtMost, Check, Grant, GiveBack, counters,
                Published, Dequeued
  <2>2. pc[c] # "move" /\ pc'[c] # "move"
    <3>1. CASE (\E l \in Loads : Load(c, l)) \/ SeeNone(c) \/ Reserve(c)
      BY <1>1, <3>1 DEF Load, SeeNone, Reserve, ReserveAtMost, Return, Goto, TypeOK
    <3>2. CASE Check(c)
      BY <1>1, <3>2 DEF Check, Grant, Goto, TypeOK
    <3>3. CASE GiveBack(c)
      BY <1>1, <3>3 DEF GiveBack, ReturnOrTake, Return, Goto, TypeOK
    <3> QED BY <1>7, <3>1, <3>2, <3>3
  <2>3. ASSUME NEW d \in Consumers \ {c}
        PROVE  pc'[d] = pc[d] /\ index'[d] = index[d] /\ count'[d] = count[d]
    <3>1. CASE (\E l \in Loads : Load(c, l)) \/ SeeNone(c) \/ Reserve(c)
      BY <1>1, <3>1 DEF Load, SeeNone, Reserve, ReserveAtMost, Return, Goto, TypeOK
    <3>2. CASE Check(c)
      BY <1>1, <3>2 DEF Check, Grant, Goto, TypeOK
    <3>3. CASE GiveBack(c)
      BY <1>1, <3>3 DEF GiveBack, ReturnOrTake, Return, Goto, TypeOK
    <3> QED BY <1>7, <3>1, <3>2, <3>3
  <2>4. \A d \in Consumers : Taken'[d] = Taken[d]
    BY <1>1, <2>1, <2>2, <2>3, TakenStays
  <2> QED BY <1>2, <2>1, <2>4 DEF Taken
<1>8. ASSUME NEW c \in Consumers, Take(c)
      PROVE  Abstract!Next
  <2>1. Abstract!Dequeue(c, count[c]) /\ count[c] \in 1..MaxBatch
    BY <1>8, TakeDequeues
  <2>2. PICK n \in 1..MaxBatch : n = count[c]
    BY <2>1
  <2>3. Abstract!Dequeue(c, n)
    BY <2>1, <2>2 DEF Abstract!Dequeue
  <2> QED BY <2>3 DEF Abstract!Next
<1>9. ASSUME NEW c \in Consumers, Move(c) \/ MoveThrows(c)
      PROVE  Abstract!Next \/ UNCHANGED <<produced - pending, Waiting, Taken>>
  <2>1. UNCHANGED <<Published, Dequeued>>
    BY <1>9 DEF Move, MoveThrows, counters, Published, Dequeued
  <2>2. ASSUME NEW d \in Consumers \ {c} PROVE Taken'[d] = Taken[d]
    <3>1. pc'[d] = pc[d] /\ index'[d] = index[d] /\ count'[d] = count[d] /\ got'[d] = got[d]
      <4>1. CASE Move(c)
        BY <1>1, <4>1 DEF Move, Return, Goto, TypeOK
      <4>2. CASE MoveThrows(c)
        BY <1>1, <4>2 DEF MoveThrows, Return, Goto, TypeOK
      <4> QED BY <1>9, <4>1, <4>2
    <3> QED BY <1>1, <3>1, TakenStays
  <2>3. CASE Move(c)
    <3>1. Taken'[c] = Taken[c]
      BY <2>3, MoveStutters
    <3>2. Taken' = Taken
      BY <2>2, <3>1 DEF Taken
    <3> QED BY <1>2, <2>1, <3>2
  <2>4. CASE MoveThrows(c)
    <3>0. PICK n \in 0..MaxBatch : n = Len(got[c])
      BY <2>4, ThrowLoses
    <3>1. n < Len(Taken[c]) /\ Taken'[c] = SubSeq(Taken[c], 1, n)
      BY <2>4, <3>0, ThrowLoses
    <3>2. Taken' = [Taken EXCEPT ![c] = SubSeq(Taken[c], 1, n)]
      BY <2>2, <3>1 DEF Taken
    <3>3. Abstract!Lose(c, n)
      BY <1>2, <2>1, <3>1, <3>2 DEF Abstract!Lose, Waiting, Taken
    <3> QED BY <3>3 DEF Abstract!Next
  <2> QED BY <1>9, <2>3, <2>4
<1> QED BY <1>3, <1>4, <1>5, <1>6, <1>7, <1>8, <1>9 DEF Next, Running, Abstract!Next

(* Refinement: a sub-queue is a FIFO whose dequeues take effect when they  *)
(* advance headIndex.  Every element is given to one consumer, those of a  *)
(* call are consecutive and in the order in which they were enqueued, and  *)
(* nothing is lost but what a throwing assignment destroys.                *)
THEOREM ImplementsFifo == Spec => Refinement
<1> QED BY InitIsInit, FifoInvariance, NextRefines, PTL DEF Spec, Refinement, Abstract!Spec
===============================================================================
