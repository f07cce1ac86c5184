------------------------ MODULE ImplicitProducerProofs ------------------------
(***************************************************************************)
(* What ImplicitProducer promises holds for any number of consumers and    *)
(* blocks, block indexes of any size and numbers of any width.             *)
(***************************************************************************)
EXTENDS ImplicitProducer, TotalsProofs, SequenceTheorems

(* The number of the block an element is put in, counted from the first. *)
Num(i) == i \div BlockSize

-------------------------------------------------------------------------------
LEMMA Sizes ==
    /\ BlockSize \in Nat /\ BlockSize > 1
    /\ Modulus \in Nat /\ Modulus > 0 /\ Modulus % BlockSize = 0
    /\ MaxIndexSize \in Nat /\ InitialIndexSize \in 1..MaxIndexSize
    /\ \A m \in 1..MaxIndexSize : 2 * (BlockSize * m) <= Modulus
<1>1. /\ BlockSize \in Nat /\ BlockSize > 1 /\ Modulus \in Nat /\ Modulus % (2 * BlockSize) = 0
      /\ InitialIndexSize \in Nat \ {0} /\ MaxIndexSize \in Nat
      /\ InitialIndexSize <= MaxIndexSize /\ 2 * (BlockSize * MaxIndexSize) <= Modulus
  BY ImplicitProducerAssumption
<1>2. \A m \in 1..MaxIndexSize : 2 * (BlockSize * m) <= Modulus
  <2>1. SUFFICES ASSUME NEW m \in 1..MaxIndexSize
                 PROVE  2 * (BlockSize * m) <= Modulus
    OBVIOUS
  <2>2. m \in Nat /\ MaxIndexSize - m \in Nat
    BY <1>1
  <2>3. BlockSize * (MaxIndexSize - m) >= 0
    BY <1>1, <2>2
  <2>4. BlockSize * (MaxIndexSize - m) = BlockSize * MaxIndexSize - BlockSize * m
    BY <1>1, <2>2
  <2> QED BY <1>1, <2>2, <2>3, <2>4
<1>3. Modulus > 0
  <2>1. BlockSize * MaxIndexSize >= MaxIndexSize
    BY <1>1
  <2> QED BY <1>1, <2>1
<1>4. Modulus % BlockSize = 0
  <2>1. PICK n \in Nat : n = 2 * BlockSize
    BY <1>1
  <2>2. n > 0
    BY <1>1, <2>1
  <2>3. PICK q \in Int, r \in 0..(n - 1) : Modulus = n * q + r /\ Modulus % n = r
    <3>1. Modulus \in Int
      BY <1>1
    <3> QED BY <2>2, <3>1, ModWhole
  <2>4. r = 0
    BY <1>1, <2>1, <2>3
  <2>5. PICK k \in Int : k = 2 * q
    OBVIOUS
  <2>6. n * q = BlockSize * k
    BY <1>1, <2>1, <2>5
  <2>7. Modulus = BlockSize * k + 0 /\ 0 \in 0..(BlockSize - 1)
    BY <1>1, <2>3, <2>4, <2>6
  <2> QED BY <1>1, <2>7, ModUnique
<1> QED BY <1>1, <1>2, <1>3, <1>4

(* An element is put at its offset in its block. *)
LEMMA NumOf ==
    ASSUME NEW x \in Int
    PROVE  Num(x) \in Int /\ x % BlockSize \in Offsets /\ x = Num(x) * BlockSize + (x % BlockSize)
<1>1. BlockSize \in Nat /\ BlockSize > 0
  BY Sizes
<1>2. x \div BlockSize \in Int /\ x % BlockSize \in 0..(BlockSize - 1)
      /\ x = BlockSize * (x \div BlockSize) + (x % BlockSize)
  BY <1>1
<1>3. PICK q \in Int : q = x \div BlockSize
  BY <1>2
<1>4. BlockSize * q = q * BlockSize
  BY <1>1
<1> QED BY <1>2, <1>3, <1>4 DEF Num, Offsets

LEMMA NumIs ==
    ASSUME NEW q \in Int, NEW o \in Offsets
    PROVE  Num(q * BlockSize + o) = q /\ (q * BlockSize + o) % BlockSize = o
<1>1. BlockSize \in Nat /\ BlockSize > 0 /\ o \in 0..(BlockSize - 1)
  BY Sizes DEF Offsets
<1>2. PICK x \in Int : x = q * BlockSize + o
  BY <1>1
<1>3. x = BlockSize * q + o
  BY <1>1, <1>2
<1>4. x % BlockSize = o
  BY <1>1, <1>3, ModUnique
<1>5. x \div BlockSize \in Int /\ x = BlockSize * (x \div BlockSize) + (x % BlockSize)
  BY <1>1
<1>6. PICK d \in Int : d = x \div BlockSize
  BY <1>5
<1>7. BlockSize * d = BlockSize * q
  BY <1>1, <1>3, <1>4, <1>5, <1>6
<1>8. d = q
  <2>1. BlockSize * (d - q) = 0
    BY <1>1, <1>7
  <2>2. d - q >= 1 => BlockSize * (d - q) >= 1
    BY <1>1
  <2>3. d - q <= -1 => BlockSize * (d - q) <= -1
    BY <1>1
  <2> QED BY <2>1, <2>2, <2>3
<1> QED BY <1>2, <1>4, <1>6, <1>8 DEF Num

(* Where a block begins. *)
LEMMA NumFrom ==
    ASSUME NEW x \in Int, NEW q \in Int
    PROVE  (x >= q * BlockSize) <=> (Num(x) >= q)
<1>1. BlockSize \in Nat /\ BlockSize > 0
  BY Sizes
<1>2. PICK p \in Int, o \in 0..(BlockSize - 1) : p = Num(x) /\ x = p * BlockSize + o
  BY NumOf DEF Offsets
<1>3. p >= q => (p - q) * BlockSize >= 0
  BY <1>1
<1>4. p < q => (q - p) * BlockSize >= BlockSize
  BY <1>1
<1>5. (p - q) * BlockSize = p * BlockSize - q * BlockSize
      /\ (q - p) * BlockSize = q * BlockSize - p * BlockSize
  BY <1>1
<1>6. PICK a \in Int, b \in Int : a = p * BlockSize /\ b = q * BlockSize
  BY <1>1
<1>7. (p >= q => a - b >= 0) /\ (p < q => b - a >= BlockSize)
  BY <1>3, <1>4, <1>5, <1>6
<1>8. x = a + o
  BY <1>2, <1>6
<1>9. (x >= b) <=> (p >= q)
  BY <1>1, <1>7, <1>8
<1> QED BY <1>2, <1>6, <1>9

LEMMA NumMonotone ==
    ASSUME NEW x \in Int, NEW y \in Int, x <= y
    PROVE  Num(x) <= Num(y)
<1>1. PICK q \in Int, o \in Int : q = Num(x) /\ x = q * BlockSize + o /\ o >= 0
  <2>1. Num(x) \in Int /\ x % BlockSize \in Offsets /\ x = Num(x) * BlockSize + (x % BlockSize)
    BY NumOf
  <2>2. x % BlockSize \in Int /\ x % BlockSize >= 0
    BY <2>1, Sizes DEF Offsets
  <2> QED BY <2>1, <2>2
<1>2. PICK b \in Int : b = q * BlockSize
  BY Sizes
<1>3. y >= b
  BY <1>1, <1>2
<1>4. Num(y) >= q
  BY <1>2, <1>3, NumFrom
<1> QED BY <1>1, <1>4, NumOf

(* Arithmetic on indexes is arithmetic on numbers of elements. *)
LEMMA Wrapped ==
    ASSUME NEW x \in Int, NEW y \in Int
    PROVE  /\ x % Modulus \in Index
           /\ Add(x % Modulus, y) = (x + y) % Modulus
           /\ Subtract(x % Modulus, y) = (x - y) % Modulus
           /\ Subtract(x % Modulus, y % Modulus) = (x - y) % Modulus
           /\ (x % Modulus) % BlockSize = x % BlockSize
<1>1. Modulus \in Nat /\ Modulus > 0
  BY Sizes
<1>2. x % Modulus \in Index /\ x % Modulus \in Int
  BY <1>1 DEF Index
<1>3. ((x % Modulus) + y) % Modulus = (x + y) % Modulus
  BY <1>1, ModPlus
<1>4. ((x % Modulus) - y) % Modulus = (x - y) % Modulus
  <2>1. PICK z \in Int : z = -y
    OBVIOUS
  <2>2. ((x % Modulus) + z) % Modulus = (x + z) % Modulus
    BY <1>1, ModPlus
  <2>3. (x % Modulus) + z = (x % Modulus) - y /\ x + z = x - y
    BY <1>2, <2>1
  <2> QED BY <2>2, <2>3
<1>5. ((x % Modulus) - (y % Modulus)) % Modulus = (x - y) % Modulus
  BY <1>1, ModDifference
<1>6. (x % Modulus) % BlockSize = x % BlockSize
  <2>1. BlockSize \in Nat /\ BlockSize > 0 /\ Modulus % BlockSize = 0
    BY Sizes
  <2> QED BY <1>1, <2>1, ModOfMod
<1> QED BY <1>2, <1>3, <1>4, <1>5, <1>6 DEF Add, Subtract

LEMMA AtMost ==
    ASSUME NEW m \in Nat
    PROVE  m % Modulus <= m
<1>1. m \in Int /\ Modulus \in Nat /\ Modulus > 0
  BY Sizes
<1>2. PICK q \in Int, r \in 0..(Modulus - 1) : m = Modulus * q + r /\ m % Modulus = r
  BY <1>1, ModWhole
<1>3. PICK v \in Int : v = Modulus * q
  BY <1>1
<1>4. q >= 0
  <2>1. q <= -1 => Modulus * q <= -Modulus
    BY <1>1
  <2> QED BY <1>1, <1>2, <1>3, <2>1
<1>5. Modulus * q >= 0
  BY <1>1, <1>4
<1> QED BY <1>2, <1>3, <1>5

LEMMA BaseIs ==
    ASSUME NEW x \in Int
    PROVE  BaseOf(x % Modulus) = (Num(x) * BlockSize) % Modulus
<1>1. Modulus \in Nat /\ Modulus > 0 /\ BlockSize \in Nat /\ BlockSize > 0 /\ Modulus % BlockSize = 0
  BY Sizes
<1>2. PICK q \in Int, r \in 0..(Modulus - 1) : x = Modulus * q + r /\ x % Modulus = r
  BY <1>1, ModWhole
<1>3. PICK o \in 0..(BlockSize - 1) : o = x % BlockSize
  BY <1>1
<1>4. r % BlockSize = o
  BY <1>2, <1>3, Wrapped
<1>5. r >= o
  <2>1. PICK d \in Int, e \in 0..(BlockSize - 1) : r = BlockSize * d + e /\ r % BlockSize = e
    <3>1. r \in Int
      OBVIOUS
    <3> QED BY <1>1, <3>1, ModWhole
  <2>2. d >= 0
    <3>1. d <= -1 => BlockSize * d <= -BlockSize
      BY <1>1
    <3> QED BY <1>1, <2>1, <3>1
  <2>3. BlockSize * d >= 0
    BY <1>1, <2>2
  <2>4. PICK w \in Int : w = BlockSize * d
    BY <1>1
  <2>5. r = w + o /\ w >= 0
    BY <1>4, <2>1, <2>3, <2>4
  <2> QED BY <2>5
<1>6. PICK b \in Int : b = Num(x) * BlockSize
  BY <1>1, NumOf
<1>7. x = b + o
  <2>1. x = Num(x) * BlockSize + (x % BlockSize)
    BY NumOf
  <2> QED BY <1>3, <1>6, <2>1
<1>8. b = Modulus * q + (r - o) /\ r - o \in 0..(Modulus - 1)
  <2>1. PICK w \in Int : w = Modulus * q
    BY <1>1
  <2>2. x = w + r
    BY <1>2, <2>1
  <2>3. b = w + (r - o)
    BY <1>7, <2>2
  <2>4. r - o \in 0..(Modulus - 1)
    BY <1>1, <1>5
  <2> QED BY <2>1, <2>3, <2>4
<1>9. b % Modulus = r - o
  BY <1>1, <1>8, ModUnique
<1> QED BY <1>2, <1>4, <1>6, <1>9 DEF BaseOf

(* A key tells the number of its block from that of no block. *)
LEMMA KeyIs ==
    ASSUME NEW q \in Int
    PROVE  (q * BlockSize) % Modulus \in Index /\ (q * BlockSize) % Modulus # INVALID_BLOCK_BASE
<1>1. BlockSize \in Nat /\ BlockSize > 1
  BY Sizes
<1>2. PICK x \in Int : x = q * BlockSize
  BY <1>1
<1>3. x % Modulus \in Index /\ (x % Modulus) % BlockSize = x % BlockSize
  BY Wrapped
<1>4. x % BlockSize = 0
  <2>1. x = BlockSize * q + 0 /\ 0 \in 0..(BlockSize - 1)
    BY <1>1, <1>2
  <2> QED BY <1>1, <2>1, ModUnique
<1>5. 1 % BlockSize = 1
  BY <1>1, ModBelow
<1> QED BY <1>2, <1>3, <1>4, <1>5 DEF INVALID_BLOCK_BASE

(* The distance of two blocks of an index, from their keys. *)
LEMMA DistanceIs ==
    ASSUME NEW j \in Int, NEW k \in Int, NEW m \in 1..MaxIndexSize, j - k < m, k - j < m
    PROVE  Signed(Subtract((j * BlockSize) % Modulus, (k * BlockSize) % Modulus)) \div BlockSize
              = j - k
<1>1. /\ BlockSize \in Nat /\ BlockSize > 1 /\ Modulus \in Nat /\ Modulus > 0
      /\ 2 * (BlockSize * m) <= Modulus
  BY Sizes
<1>2. PICK d \in Int : d = j - k
  OBVIOUS
<1>3. PICK x \in Int, y \in Int, z \in Int :
         x = j * BlockSize /\ y = k * BlockSize /\ z = d * BlockSize
  BY <1>1
<1>4. z = x - y
  BY <1>1, <1>2, <1>3
<1>5. z < BlockSize * m /\ z > -(BlockSize * m)
  <2>1. BlockSize * (m - d) > 0 /\ BlockSize * (m + d) > 0
    <3>1. m - d >= 1 /\ m + d >= 1
      BY <1>2
    <3>2. PICK a \in Int, b \in Int : a = m - d /\ b = m + d
      BY <1>2
    <3>3. BlockSize * a > 0 /\ BlockSize * b > 0
      BY <1>1, <3>1, <3>2
    <3> QED BY <3>2, <3>3
  <2>2. BlockSize * (m - d) = BlockSize * m - z /\ BlockSize * (m + d) = BlockSize * m + z
    BY <1>1, <1>3
  <2>3. PICK w \in Int : w = BlockSize * m
    BY <1>1
  <2> QED BY <2>1, <2>2, <2>3
<1>6. Subtract(x % Modulus, y % Modulus) = z % Modulus
  BY <1>4, Wrapped
<1>7. PICK w \in Int : w = BlockSize * m
  BY <1>1
<1>8. Signed(z % Modulus) = z
  <2>1. z < w /\ z > -w /\ 2 * w <= Modulus
    BY <1>1, <1>5, <1>7
  <2>2. CASE z >= 0
    <3>1. z \in 0..(Modulus - 1) /\ z < Modulus \div 2
      BY <1>1, <2>1, <2>2
    <3>2. z % Modulus = z
      BY <1>1, <3>1, ModBelow
    <3> QED BY <3>1, <3>2 DEF Signed
  <2>3. CASE z < 0
    <3>1. z = Modulus * (-1) + (z + Modulus) /\ z + Modulus \in 0..(Modulus - 1)
          /\ ~(z + Modulus < Modulus \div 2)
      BY <1>1, <2>1, <2>3
    <3>2. PICK r \in 0..(Modulus - 1) : r = z + Modulus
      BY <3>1
    <3>3. z % Modulus = r
      <4>1. z = Modulus * (-1) + r /\ -1 \in Int
        BY <3>1, <3>2
      <4> QED BY <1>1, <4>1, ModUnique
    <3>4. Signed(r) = z
      BY <1>1, <3>1, <3>2 DEF Signed
    <3> QED BY <3>3, <3>4
  <2> QED BY <2>2, <2>3
<1>9. z \div BlockSize = d
  <2>1. 0 \in Offsets /\ d * BlockSize + 0 = z
    BY <1>1, <1>3 DEF Offsets
  <2>2. Num(d * BlockSize + 0) = d
    BY <2>1, NumIs
  <2> QED BY <2>1, <2>2 DEF Num
<1> QED BY <1>2, <1>3, <1>6, <1>8, <1>9

-------------------------------------------------------------------------------
(***************************************************************************)
(* Indexes wrap around, and a block has left its entry when another gets   *)
(* it.  The invariant speaks of the numbers that they stand for: t and h   *)
(* are the elements that have been enqueued and granted to consumers so    *)
(* far, i[c] the number of the next one that c dequeues, and u the numbers *)
(* that have not been moved out, with all those to come.  p is the number  *)
(* of the block each entry has been inserted for; entries that are still   *)
(* unused are numbered before all others, so that along the ring of an     *)
(* index numbers always go up by one, from z, the last that was inserted,  *)
(* down to the one after it.  d is the number that slot 0 of an index      *)
(* stands for, up to multiples of its capacity.                            *)
(***************************************************************************)
Headers ==
    {H \in [capacity : 1..MaxIndexSize, tail : Entries,
            entry : UNION {[0..(m - 1) -> 0..(m - 1)] : m \in 1..MaxIndexSize}] :
        H.tail < H.capacity /\ H.entry \in [0..(H.capacity - 1) -> 0..(H.capacity - 1)]}

TypeOK ==
    /\ tailIndex \in Index /\ headIndex \in Index /\ tailBlock \in Blocks \union {None}
    /\ dequeued \in [Blocks -> Nat] /\ slot \in [Blocks -> [Offsets -> 0..Modulus]]
    /\ free \in SUBSET Blocks /\ blockIndexes \in Seq(Headers)
    /\ key \in [Entries -> Int] /\ value \in [Entries -> Blocks \union {None}]
    /\ op \in [kind : {"none", "enqueue", "bulk"}, step : {"none", "insert", "take", "undo"},
               count : Nat, left : Int, base : Index, linked : Blocks \union {None},
               chain : Seq(Blocks), undone : Nat]
    /\ pc \in [Consumers -> {"idle", "load", "locate", "move", "free"}]
    /\ index \in [Consumers -> Index] /\ count \in [Consumers -> Nat]
    /\ held \in [Consumers -> Nat] /\ at \in [Consumers -> Nat]

Numbers(t, h, z, p, d, i, u) ==
    /\ t \in Nat /\ h \in Nat /\ z \in Int /\ p \in [Entries -> Int] /\ d \in [Nat -> Int]
    /\ i \in [Consumers -> Int] /\ u \in SUBSET Int

(* The block of the last element, and the last block of a call. *)
Top(t) == Num(t - 1)

Latest(t) == Top(t) + Len(op.chain)

(* The block that the tail of the index stands for. *)
TailNum(t) == (Latest(t) - op.undone) + (IF op.step = "take" THEN 1 ELSE 0)

Size == IF blockIndexes = <<>> THEN 0 ELSE blockIndex.capacity

Ring == 0..(Size - 1)

(* The slots of each index are numbered along the ring. *)
PlacedIn(n, p, d) ==
    LET H == blockIndexes[n]
    IN  /\ \A s \in 0..(H.capacity - 1) : (p[H.entry[s]] - d[n]) % H.capacity = s
        /\ \A e \in 0..(H.capacity - 1) : H.entry[(p[e] - d[n]) % H.capacity] = e
        /\ H.capacity <= Size /\ Size % H.capacity = 0

Placed(p, d) == \A n \in 1..Len(blockIndexes) : PlacedIn(n, p, d)

Window(t, z, p, d) ==
    blockIndexes # <<>> =>
       /\ \A e \in Ring : p[e] > z - Size /\ p[e] <= z
       /\ z - Size <= Top(t) /\ TailNum(t) <= z /\ Latest(t) <= z
       /\ blockIndex.tail = (TailNum(t) - d[Len(blockIndexes)]) % Size

Keyed(t, p) ==
    \A e \in Entries :
       /\ value[e] # None => e \in Ring /\ p[e] <= Latest(t)
       /\ key[e] # INVALID_BLOCK_BASE => e \in Ring /\ key[e] = (p[e] * BlockSize) % Modulus
       /\ e \in Ring /\ p[e] > Top(t) => key[e] # INVALID_BLOCK_BASE
       /\ value[e] # None =>
             \A f \in Ring : p[f] >= p[e] => key[f] # INVALID_BLOCK_BASE

Called(t) ==
    /\ op.step = "none" => op = NoCall
    /\ op.step \in {"insert", "take"} =>
          /\ op.base = (Latest(t) * BlockSize) % Modulus
          /\ Latest(t) + op.left = Num((t + op.count) - 1)
          /\ op.left >= 0 /\ op.count > 0 /\ op.undone = 0
    /\ op.step = "take" => op.left > 0 /\ blockIndexes # <<>>
    /\ op.step = "undo" => op.chain # <<>>
    /\ op.undone <= Len(op.chain)
    /\ blockIndexes = <<>> => op.chain = <<>>
    /\ op.linked # None => t % BlockSize # 0 /\ op.linked = tailBlock

(* The blocks of a call, those that have been taken back excepted. *)
Chained(t, p) ==
    /\ \A e \in Entries : value[e] # None /\ p[e] > Top(t) =>
          /\ p[e] - Top(t) > op.undone /\ value[e] = op.chain[p[e] - Top(t)]
          /\ dequeued[value[e]] = 0
    /\ \A n \in 1..Len(op.chain) : n > op.undone =>
          \E e \in Entries : p[e] = Top(t) + n /\ value[e] = op.chain[n]

TailIs(t, p) ==
    /\ \A e \in Entries : value[e] # None /\ p[e] = Top(t) => value[e] = tailBlock
    /\ t % BlockSize # 0 => \E e \in Entries : value[e] # None /\ p[e] = Top(t)

Owned ==
    /\ \A e \in Entries, f \in Entries : value[e] # None /\ value[e] = value[f] => e = f
    /\ \A e \in Entries : value[e] \notin free
    /\ \A n \in 1..op.undone : op.chain[n] \notin free /\ \A e \in Entries : value[e] # op.chain[n]
    /\ \A n \in 1..op.undone, m \in 1..op.undone : op.chain[n] = op.chain[m] => n = m
    /\ \A b \in Blocks : \/ b \in free
                         \/ \E e \in Entries : value[e] = b
                         \/ \E n \in 1..op.undone : op.chain[n] = b

Counters(t, h) == h <= t /\ tailIndex = t % Modulus /\ headIndex = h % Modulus

(* What c has not moved out yet. *)
Pending(c, i) ==
    {x \in Int : /\ pc[c] # "idle" /\ x >= i[c] /\ x < i[c] + count[c]
                 /\ pc[c] = "free" => Num(x) # Num(i[c])}

Unmoved(h, i) == {x \in Int : x >= h \/ \E c \in Consumers : x \in Pending(c, i)}

Ranges(h, i) ==
    /\ \A c \in Consumers : pc[c] # "idle" =>
          count[c] > 0 /\ i[c] + count[c] <= h /\ index[c] = i[c] % Modulus
    /\ \A a \in Consumers, c \in Consumers :
          a # c /\ pc[a] # "idle" /\ pc[c] # "idle" =>
             i[a] + count[a] <= i[c] \/ i[c] + count[c] <= i[a]

(* An element that waits is where it was put. *)
Kept(p, x) ==
    \E e \in Entries : /\ value[e] # None /\ p[e] = Num(x)
                       /\ slot[value[e]][x % BlockSize] = x % Modulus

Waits(t, p, u) == \A x \in u : x < t => Kept(p, x)

(* A consumer in the index it has loaded. *)
AtEntry(c, p, i) ==
    pc[c] \in {"locate", "move", "free"} =>
       /\ held[c] \in 1..Len(blockIndexes)
       /\ at[c] \in 0..(blockIndexes[held[c]].capacity - 1)
       /\ \A e \in Entries, x \in Int :
             value[e] # None /\ x >= i[c] /\ x < i[c] + count[c] /\ p[e] = Num(x)
                => e < blockIndexes[held[c]].capacity
       /\ pc[c] = "locate" => key[EntryAt(c)] # INVALID_BLOCK_BASE
       /\ pc[c] # "locate" => BlockAt(c) # None /\ p[EntryAt(c)] = Num(i[c])

At(p, i) == \A c \in Consumers : AtEntry(c, p, i)

(* What a block still holds, or will. *)
LeftOf(j, u) == {o \in Offsets : j * BlockSize + o \in u}

Counted(t, p, u, i) ==
    \A e \in Entries : value[e] # None /\ p[e] <= Top(t) =>
       /\ dequeued[value[e]] + Cardinality(LeftOf(p[e], u)) = BlockSize
       /\ LeftOf(p[e], u) = {} => \E c \in Consumers : pc[c] = "free" /\ Num(i[c]) = p[e]

Freed(u, i) ==
    /\ \A c \in Consumers : pc[c] = "free" => LeftOf(Num(i[c]), u) = {}
    /\ \A a \in Consumers, c \in Consumers :
          a # c /\ pc[a] = "free" /\ pc[c] = "free" => Num(i[a]) # Num(i[c])

(* What the producer goes by, and what consumers go by. *)
ProducerInv(t, z, p, d) ==
    Placed(p, d) /\ Window(t, z, p, d) /\ Keyed(t, p) /\ Called(t) /\ Chained(t, p)

ConsumerInv(t, h, p, i, u) ==
    /\ Ranges(h, i) /\ u = Unmoved(h, i) /\ Waits(t, p, u) /\ At(p, i)
    /\ Counted(t, p, u, i) /\ Freed(u, i)

Inv(t, h, z, p, d, i, u) ==
    /\ Numbers(t, h, z, p, d, i, u)
    /\ TypeOK /\ ProducerInv(t, z, p, d) /\ TailIs(t, p) /\ Owned
    /\ Counters(t, h) /\ ConsumerInv(t, h, p, i, u)

IInv == \E t, h, z, p, d, i, u : Inv(t, h, z, p, d, i, u)

-------------------------------------------------------------------------------
LEMMA HeaderIs ==
    ASSUME TypeOK, NEW n \in 1..Len(blockIndexes)
    PROVE  /\ blockIndexes[n] \in Headers
           /\ blockIndexes[n].capacity \in 1..MaxIndexSize
           /\ blockIndexes[n].capacity \in Nat /\ blockIndexes[n].capacity > 0
           /\ blockIndexes[n].tail \in 0..(blockIndexes[n].capacity - 1)
           /\ blockIndexes[n].entry
                 \in [0..(blockIndexes[n].capacity - 1) -> 0..(blockIndexes[n].capacity - 1)]
<1>1. blockIndexes[n] \in Headers
  BY DEF TypeOK
<1>2. PICK H : H = blockIndexes[n]
  OBVIOUS
<1>3. /\ H.capacity \in 1..MaxIndexSize /\ H.tail \in Entries /\ H.tail < H.capacity
      /\ H.entry \in [0..(H.capacity - 1) -> 0..(H.capacity - 1)]
  BY <1>1, <1>2 DEF Headers
<1>4. H.tail \in 0..(H.capacity - 1)
  BY <1>3, Sizes DEF Entries
<1>5. H.capacity \in Nat /\ H.capacity > 0
  BY <1>3, Sizes
<1> QED BY <1>1, <1>2, <1>3, <1>4, <1>5

(* The current index. *)
LEMMA CurrentIs ==
    ASSUME TypeOK, blockIndexes # <<>>
    PROVE  /\ Len(blockIndexes) \in 1..Len(blockIndexes) /\ blockIndex \in Headers
           /\ Size = blockIndex.capacity /\ Size \in 1..MaxIndexSize /\ Ring \subseteq Entries
           /\ Size \in Nat /\ Size > 0
           /\ blockIndex.tail \in Ring /\ blockIndex.entry \in [Ring -> Ring]
<1>1. Len(blockIndexes) \in 1..Len(blockIndexes)
  <2>1. blockIndexes \in Seq(Headers)
    BY DEF TypeOK
  <2> QED BY <2>1, EmptySeq, LenProperties
<1>2. Size = blockIndex.capacity
  BY DEF Size
<1>3. Size \in 1..MaxIndexSize
  BY <1>1, <1>2, HeaderIs DEF blockIndex
<1>4. Ring \subseteq Entries
  BY <1>3, Sizes DEF Ring, Entries
<1>5. blockIndex.tail \in Ring /\ blockIndex.entry \in [Ring -> Ring]
  BY <1>1, <1>2, HeaderIs DEF blockIndex, Ring
<1>6. blockIndex \in Headers
  BY <1>1, HeaderIs DEF blockIndex
<1>7. Size \in Nat /\ Size > 0
  BY <1>3, Sizes
<1> QED BY <1>1, <1>2, <1>3, <1>4, <1>5, <1>6, <1>7

(* No two entries are numbered alike. *)
LEMMA OneEntry ==
    ASSUME TypeOK, NEW p, NEW d, Placed(p, d), NEW e \in Ring, NEW f \in Ring, p[e] = p[f]
    PROVE  e = f
<1>1. blockIndexes # <<>>
  BY DEF Ring, Size
<1>2. PICK n \in 1..Len(blockIndexes) : n = Len(blockIndexes)
  BY <1>1, CurrentIs
<1>3. PlacedIn(n, p, d)
  BY DEF Placed
<1>4. \A x \in Ring : blockIndex.entry[(p[x] - d[n]) % blockIndex.capacity] = x
  BY <1>1, <1>2, <1>3, CurrentIs DEF PlacedIn, blockIndex, Ring
<1> QED BY <1>4

(* Elements that a consumer is to move are in blocks that are full or being *)
(* filled, not in those of a call.                                         *)
LEMMA RangeBelow ==
    ASSUME NEW t \in Nat, NEW h \in Nat, h <= t, NEW i \in [Consumers -> Int], Ranges(h, i),
           TypeOK, NEW c \in Consumers, pc[c] # "idle", NEW x \in Int, x < i[c] + count[c]
    PROVE  x < t /\ Num(x) <= Top(t)
<1>1. i[c] + count[c] <= h
  BY DEF Ranges
<1>2. PICK a \in Int, n \in Int : a = i[c] /\ n = count[c]
  BY DEF TypeOK
<1>3. x < t /\ x <= t - 1
  BY <1>1, <1>2
<1>4. Num(x) <= Num(t - 1)
  BY <1>3, NumMonotone
<1> QED BY <1>3, <1>4 DEF Top

(* The entry a consumer is at. *)
LEMMA EntryAtIs ==
    ASSUME TypeOK, NEW c \in Consumers, NEW p, NEW i, AtEntry(c, p, i),
           pc[c] \in {"locate", "move", "free"}
    PROVE  /\ held[c] \in 1..Len(blockIndexes)
           /\ at[c] \in 0..(blockIndexes[held[c]].capacity - 1)
           /\ EntryAt(c) \in 0..(blockIndexes[held[c]].capacity - 1)
           /\ EntryAt(c) \in Entries
<1>1. held[c] \in 1..Len(blockIndexes) /\ at[c] \in 0..(blockIndexes[held[c]].capacity - 1)
  BY DEF AtEntry
<1>2. PICK n \in 1..Len(blockIndexes) : n = held[c]
  BY <1>1
<1>3. EntryAt(c) \in 0..(blockIndexes[n].capacity - 1)
  BY <1>1, <1>2, HeaderIs DEF EntryAt
<1>4. 0..(blockIndexes[n].capacity - 1) \subseteq Entries
  <2>1. blockIndexes[n].capacity \in 1..MaxIndexSize /\ MaxIndexSize \in Nat
    BY HeaderIs, Sizes
  <2> QED BY <2>1 DEF Entries
<1> QED BY <1>1, <1>2, <1>3, <1>4

(* Consumers see nothing of what the producer does with entries and blocks *)
(* that hold no elements.                                                  *)
LEMMA Unseen ==
    ASSUME TypeOK, NEW t \in Nat, NEW h \in Nat, h <= t,
           NEW p \in [Entries -> Int], NEW q \in [Entries -> Int],
           NEW i \in [Consumers -> Int], NEW u \in SUBSET Int,
           ConsumerInv(t, h, p, i, u),
           UNCHANGED <<slot, pc, index, count, held, at>>,
           \A e \in Entries :
              /\ value[e] # None /\ p[e] <= Top(t) =>
                    /\ value'[e] = value[e] /\ q[e] = p[e]
                    /\ dequeued'[value[e]] = dequeued[value[e]]
              /\ value'[e] # None /\ q[e] <= Top(t) => value[e] # None /\ p[e] <= Top(t)
              /\ key[e] # INVALID_BLOCK_BASE => key'[e] # INVALID_BLOCK_BASE,
           \A n \in 1..Len(blockIndexes) :
              /\ n \in 1..Len(blockIndexes')
              /\ (blockIndexes'[n]).capacity = blockIndexes[n].capacity
              /\ (blockIndexes'[n]).entry = blockIndexes[n].entry
    PROVE  ConsumerInv(t, h, q, i, u)'
<1>0. /\ Ranges(h, i) /\ u = Unmoved(h, i) /\ Waits(t, p, u) /\ At(p, i)
      /\ Counted(t, p, u, i) /\ Freed(u, i)
  BY DEF ConsumerInv
<1>1. Ranges(h, i)'
  BY <1>0 DEF Ranges
<1>2. u = Unmoved(h, i)'
  BY <1>0 DEF Unmoved, Pending
<1>3. Waits(t, q, u)'
  <2>1. SUFFICES ASSUME NEW x \in u, x < t
                 PROVE  Kept(q, x)'
    BY DEF Waits
  <2>2. PICK e \in Entries : value[e] # None /\ p[e] = Num(x)
                             /\ slot[value[e]][x % BlockSize] = x % Modulus
    BY <1>0, <2>1 DEF Waits, Kept
  <2>3. p[e] <= Top(t)
    <3>1. x \in Int /\ x <= t - 1
      BY <2>1
    <3> QED BY <2>2, <3>1, NumMonotone DEF Top
  <2>4. value'[e] = value[e] /\ q[e] = p[e]
    BY <2>2, <2>3
  <2> QED BY <2>2, <2>4 DEF Kept
<1>4. At(q, i)'
  <2>1. SUFFICES ASSUME NEW c \in Consumers, pc[c] \in {"locate", "move", "free"}
                 PROVE  AtEntry(c, q, i)'
    BY DEF At, AtEntry
  <2>2. AtEntry(c, p, i)
    BY <1>0 DEF At
  <2>3. /\ held[c] \in 1..Len(blockIndexes) /\ at[c] \in 0..(blockIndexes[held[c]].capacity - 1)
        /\ EntryAt(c) \in Entries
    BY <2>1, <2>2, EntryAtIs
  <2>4. PICK n \in 1..Len(blockIndexes) : n = held[c]
    BY <2>3
  <2>5. /\ n \in 1..Len(blockIndexes')
        /\ (blockIndexes'[n]).capacity = blockIndexes[n].capacity
        /\ (blockIndexes'[n]).entry = blockIndexes[n].entry
    OBVIOUS
  <2>6. EntryAt(c)' = EntryAt(c)
    BY <2>4, <2>5 DEF EntryAt
  <2>7. PICK f \in Entries : f = EntryAt(c)
    BY <2>3
  <2>8. pc[c] = "locate" => key'[f] # INVALID_BLOCK_BASE
    BY <2>1, <2>2, <2>7 DEF AtEntry
  <2>9. pc[c] # "locate" => value'[f] # None /\ q[f] = Num(i[c])
    <3>1. SUFFICES ASSUME pc[c] # "locate"
                   PROVE  value'[f] # None /\ q[f] = Num(i[c])
      OBVIOUS
    <3>2. value[f] # None /\ p[f] = Num(i[c])
      BY <2>1, <2>2, <2>7, <3>1 DEF AtEntry, BlockAt
    <3>3. i[c] \in Int /\ count[c] \in Nat /\ count[c] > 0
      BY <1>0, <2>1 DEF Ranges, TypeOK
    <3>4. i[c] < i[c] + count[c]
      BY <3>3
    <3>5. Num(i[c]) <= Top(t)
      BY <1>0, <2>1, <3>3, <3>4, RangeBelow
    <3> QED BY <3>2, <3>5
  <2>10. \A e \in Entries, x \in Int :
            value'[e] # None /\ x >= i[c] /\ x < i[c] + count[c] /\ q[e] = Num(x)
               => e < blockIndexes[n].capacity
    <3>1. SUFFICES ASSUME NEW e \in Entries, NEW x \in Int, value'[e] # None, q[e] = Num(x),
                          x >= i[c], x < i[c] + count[c]
                   PROVE  e < blockIndexes[n].capacity
      OBVIOUS
    <3>2. Num(x) <= Top(t)
      BY <1>0, <2>1, <3>1, RangeBelow
    <3>3. value[e] # None /\ p[e] = Num(x)
      BY <3>1, <3>2
    <3> QED BY <2>1, <2>2, <2>4, <3>1, <3>3 DEF AtEntry
  <2>11. BlockAt(c)' = value'[f]
    BY <2>6, <2>7 DEF BlockAt
  <2>12. /\ held'[c] = n /\ at'[c] \in 0..((blockIndexes'[n]).capacity - 1) /\ pc'[c] = pc[c]
         /\ count'[c] = count[c]
    BY <2>3, <2>4, <2>5
  <2> QED BY <2>5, <2>6, <2>7, <2>8, <2>9, <2>10, <2>11, <2>12 DEF AtEntry
<1>5. Counted(t, q, u, i)'
  <2>1. SUFFICES ASSUME NEW e \in Entries, value'[e] # None, q[e] <= Top(t)
                 PROVE  /\ dequeued'[value'[e]] + Cardinality(LeftOf(q[e], u)) = BlockSize
                        /\ LeftOf(q[e], u) = {} =>
                              \E c \in Consumers : pc'[c] = "free" /\ Num(i[c]) = q[e]
    BY DEF Counted, LeftOf
  <2>2. value[e] # None /\ p[e] <= Top(t)
    BY <2>1
  <2>3. value'[e] = value[e] /\ q[e] = p[e] /\ dequeued'[value[e]] = dequeued[value[e]]
    BY <2>2
  <2>4. /\ dequeued[value[e]] + Cardinality(LeftOf(p[e], u)) = BlockSize
        /\ LeftOf(p[e], u) = {} => \E c \in Consumers : pc[c] = "free" /\ Num(i[c]) = p[e]
    BY <1>0, <2>2 DEF Counted
  <2> QED BY <2>3, <2>4
<1>6. Freed(u, i)'
  BY <1>0 DEF Freed, LeftOf
<1> QED BY <1>1, <1>2, <1>3, <1>4, <1>5, <1>6 DEF ConsumerInv

-------------------------------------------------------------------------------
LEMMA InvParts ==
    ASSUME NEW t, NEW h, NEW z, NEW p, NEW d, NEW i, NEW u, Inv(t, h, z, p, d, i, u)
    PROVE  /\ t \in Nat /\ h \in Nat /\ h <= t /\ z \in Int
           /\ p \in [Entries -> Int] /\ d \in [Nat -> Int] /\ i \in [Consumers -> Int]
           /\ u \in SUBSET Int /\ TypeOK
           /\ Placed(p, d) /\ Window(t, z, p, d) /\ Keyed(t, p) /\ Called(t) /\ Chained(t, p)
           /\ TailIs(t, p) /\ Owned /\ tailIndex = t % Modulus /\ headIndex = h % Modulus
           /\ ConsumerInv(t, h, p, i, u) /\ Numbers(t, h, z, p, d, i, u) /\ Counters(t, h)
BY DEF Inv, Numbers, ProducerInv, Counters

(* The entry a number has its slot for. *)
LEMMA EntryFor ==
    ASSUME NEW t, NEW h, NEW z, NEW p, NEW d, NEW i, NEW u, Inv(t, h, z, p, d, i, u),
           blockIndexes # <<>>, NEW x \in Int, x > z - Size, x <= z
    PROVE  LET s == (x - d[Len(blockIndexes)]) % Size
           IN  s \in Ring /\ blockIndex.entry[s] \in Ring /\ p[blockIndex.entry[s]] = x
<1>14. /\ TypeOK /\ z \in Int /\ p \in [Entries -> Int] /\ d \in [Nat -> Int]
       /\ Placed(p, d) /\ Window(t, z, p, d)
  BY InvParts
<1>0. Size \in Nat /\ Size > 0
  BY <1>14, CurrentIs
<1>1. /\ Size = blockIndex.capacity /\ Ring \subseteq Entries
      /\ blockIndex.entry \in [Ring -> Ring] /\ Len(blockIndexes) \in 1..Len(blockIndexes)
  BY <1>14, CurrentIs
<1>2. PICK n \in 1..Len(blockIndexes) : n = Len(blockIndexes)
  BY <1>1
<1>3. PICK b \in Int : b = d[n]
  <2>1. n \in Nat
    OBVIOUS
  <2> QED BY <1>14, <2>1
<1>4. PICK s : s = (x - b) % Size
  OBVIOUS
<1>5. s \in Ring
  <2>1. PICK m \in Nat, y \in Int : m = Size /\ y = x - b
    BY <1>0
  <2>2. y % m \in 0..(m - 1)
    BY <1>0, <2>1, ModIs
  <2> QED BY <1>4, <2>1, <2>2 DEF Ring
<1>6. PICK e \in Ring : e = blockIndex.entry[s]
  BY <1>1, <1>5
<1>7. (p[e] - b) % Size = s
  <2>1. PlacedIn(n, p, d)
    BY <1>14 DEF Placed
  <2>2. \A y \in Ring : (p[blockIndex.entry[y]] - d[n]) % Size = y
    BY <1>1, <1>2, <2>1 DEF PlacedIn, blockIndex, Ring
  <2> QED BY <1>3, <1>5, <1>6, <2>2
<1>8. p[e] \in Int /\ p[e] > z - Size /\ p[e] <= z
  BY <1>1, <1>14 DEF Window
<1>9. PICK y \in Int, w \in Int : y = p[e] - b /\ w = x - b
  BY <1>8
<1>15. PICK g \in Int : g = z
  BY <1>14
<1>10. PICK m \in Nat : m = Size
  BY <1>0
<1>11. y = w
  <2>1. y % m = w % m /\ m > 0
    BY <1>0, <1>4, <1>7, <1>9, <1>10
  <2>2. y - w < m /\ w - y < m
    <3>1. PICK l \in Int : l = p[e]
      BY <1>8
    <3>2. l > g - m /\ l <= g /\ x > g - m /\ x <= g
      BY <1>8, <1>10, <1>15, <3>1
    <3>3. y = l - b /\ w = x - b
      BY <1>9, <3>1
    <3> QED BY <3>2, <3>3
  <2> QED BY <2>1, <2>2, ModSame
<1>12. p[e] = x
  BY <1>8, <1>9, <1>11
<1> QED BY <1>2, <1>3, <1>4, <1>5, <1>6, <1>12

LEMMA TopIs ==
    ASSUME NEW t \in Nat
    PROVE  Top(t) \in Int
BY NumOf DEF Top

LEMMA LatestIs ==
    ASSUME TypeOK, NEW t \in Nat
    PROVE  /\ op.chain \in Seq(Blocks) /\ Len(op.chain) \in Nat /\ op.undone \in Nat
           /\ Latest(t) \in Int /\ Latest(t) = Top(t) + Len(op.chain) /\ TailNum(t) \in Int
           /\ op.step # "take" => TailNum(t) = Latest(t) - op.undone
           /\ op.step = "take" => TailNum(t) = (Latest(t) - op.undone) + 1
<1>1. op.chain \in Seq(Blocks) /\ op.undone \in Nat
  BY DEF TypeOK
<1>2. Len(op.chain) \in Nat
  BY <1>1, LenProperties
<1>3. Top(t) \in Int
  BY TopIs
<1> QED BY <1>1, <1>2, <1>3 DEF Latest, TailNum

(* How an index is searched for a block from an entry of it. *)
LEMMA Lookup ==
    ASSUME NEW t, NEW h, NEW z, NEW p, NEW d, NEW i, NEW u, Inv(t, h, z, p, d, i, u),
           NEW n \in 1..Len(blockIndexes), NEW s \in 0..(blockIndexes[n].capacity - 1),
           key[blockIndexes[n].entry[s]] # INVALID_BLOCK_BASE,
           NEW x \in Int, NEW e \in 0..(blockIndexes[n].capacity - 1), p[e] = Num(x)
    PROVE  /\ SlotFrom(blockIndexes[n], s, x % Modulus) \in 0..(blockIndexes[n].capacity - 1)
           /\ blockIndexes[n].entry[SlotFrom(blockIndexes[n], s, x % Modulus)] = e
<1>18. /\ z \in Int /\ p \in [Entries -> Int] /\ d \in [Nat -> Int] /\ TypeOK
      /\ Placed(p, d) /\ Window(t, z, p, d) /\ Keyed(t, p)
  BY InvParts
<1>1. PICK H : H = blockIndexes[n]
  OBVIOUS
<1>2. /\ H.capacity \in 1..MaxIndexSize /\ H.capacity \in Nat /\ H.capacity > 0
      /\ H.entry \in [0..(H.capacity - 1) -> 0..(H.capacity - 1)]
  BY <1>18, <1>1, HeaderIs
<1>3. blockIndexes # <<>>
  BY EmptySeq DEF TypeOK
<1>4. Size \in 1..MaxIndexSize /\ Ring \subseteq Entries
  BY <1>18, <1>3, CurrentIs
<1>0. Size \in Nat /\ Size > 0
  BY <1>18, <1>3, CurrentIs
<1>5. PlacedIn(n, p, d)
  BY <1>18 DEF Placed
<1>6. 0..(H.capacity - 1) \subseteq Ring
  <2>1. H.capacity <= Size
    BY <1>1, <1>5 DEF PlacedIn
  <2>2. PICK m \in Nat, k \in Nat : m = H.capacity /\ k = Size
    BY <1>2, <1>0
  <2>3. m <= k
    BY <2>1, <2>2
  <2>4. 0..(m - 1) \subseteq 0..(k - 1)
    BY <2>3
  <2> QED BY <2>2, <2>4 DEF Ring
<1>7. PICK f \in 0..(H.capacity - 1) : f = H.entry[s]
  BY <1>1, <1>2
<1>8. e \in Ring /\ f \in Ring /\ e \in Entries /\ f \in Entries
  BY <1>1, <1>4, <1>6
<1>9. PICK j \in Int, k \in Int, b \in Int : j = p[e] /\ k = p[f] /\ b = d[n]
  <2>1. n \in Nat
    OBVIOUS
  <2> QED BY <1>18, <1>8, <2>1
<1>10. key[f] = (k * BlockSize) % Modulus
  BY <1>18, <1>1, <1>7, <1>8, <1>9 DEF Keyed
<1>11. j - k < Size /\ k - j < Size
  <2>1. /\ p[e] > z - Size /\ p[e] <= z
        /\ p[f] > z - Size /\ p[f] <= z
    BY <1>18, <1>3, <1>8 DEF Window
  <2>2. PICK m \in Nat, y \in Int : m = Size /\ y = z
    BY <1>0, <1>18
  <2>3. j > y - m /\ j <= y /\ k > y - m /\ k <= y
    BY <1>9, <2>1, <2>2
  <2>4. j - k < m /\ k - j < m
    BY <2>3
  <2> QED BY <2>2, <2>4
<1>12. BaseOf(x % Modulus) = (j * BlockSize) % Modulus
  BY <1>9, BaseIs
<1>13. Signed(Subtract(BaseOf(x % Modulus), key[f])) \div BlockSize = j - k
  BY <1>4, <1>10, <1>11, <1>12, DistanceIs
<1>14. SlotFrom(H, s, x % Modulus) = (s + (j - k)) % H.capacity
  BY <1>7, <1>13 DEF SlotFrom
<1>15. s = (k - b) % H.capacity /\ H.entry[(j - b) % H.capacity] = e
  BY <1>1, <1>5, <1>7, <1>9 DEF PlacedIn
<1>16. (s + (j - k)) % H.capacity = (j - b) % H.capacity
  <2>0. H.capacity \in Nat /\ H.capacity > 0
    BY <1>2
  <2>5. k - b \in Int /\ j - k \in Int
    OBVIOUS
  <2>1. PICK y \in Int, w \in Int : y = k - b /\ w = j - k
    BY <2>5
  <2>2. PICK m \in Nat : m = H.capacity /\ m > 0
    BY <2>0
  <2>3. ((y % m) + w) % m = (y + w) % m
    BY <2>2, ModPlus
  <2>4. y + w = j - b
    BY <2>1
  <2> QED BY <1>15, <2>1, <2>2, <2>3, <2>4
<1>17. (j - b) % H.capacity \in 0..(H.capacity - 1)
  <2>1. H.capacity \in Nat /\ H.capacity > 0 /\ j - b \in Int
    BY <1>2
  <2> QED BY <2>1, ModIs
<1> QED BY <1>1, <1>14, <1>15, <1>16, <1>17

(* A step that changes no more than where the call is. *)
LEMMA CallStep ==
    ASSUME NEW t, NEW h, NEW z, NEW p, NEW d, NEW i, NEW u, Inv(t, h, z, p, d, i, u),
           UNCHANGED <<elements, dequeued, free, blockIndexes, key, value, consumers>>,
           op'.chain = op.chain, op'.undone = op.undone, op.step # "take", op'.step # "take",
           TypeOK', Called(t)'
    PROVE  Inv(t, h, z, p, d, i, u)'
<1>1. Numbers(t, h, z, p, d, i, u)'
  BY InvParts DEF Numbers
<1>2. Latest(t)' = Latest(t) /\ TailNum(t)' = TailNum(t)
  BY DEF Latest, TailNum
<1>3. Size' = Size /\ Ring' = Ring
  BY DEF Size, Ring, blockIndex
<1>4. Placed(p, d)'
  <2>1. Placed(p, d)
    BY InvParts
  <2> QED BY <2>1, <1>3 DEF Placed, PlacedIn
<1>5. Window(t, z, p, d)'
  <2>1. Window(t, z, p, d)
    BY InvParts
  <2> QED BY <2>1, <1>2, <1>3 DEF Window, blockIndex
<1>6. Keyed(t, p)'
  <2>1. Keyed(t, p)
    BY InvParts
  <2> QED BY <2>1, <1>2, <1>3 DEF Keyed
<1>7. Chained(t, p)'
  <2>1. Chained(t, p)
    BY InvParts
  <2> QED BY <2>1 DEF Chained
<1>8. TailIs(t, p)'
  <2>1. TailIs(t, p)
    BY InvParts
  <2> QED BY <2>1 DEF TailIs, elements
<1>9. Owned'
  <2>1. Owned
    BY InvParts
  <2> QED BY <2>1 DEF Owned
<1>10. Counters(t, h)'
  <2>1. Counters(t, h)
    BY InvParts
  <2> QED BY <2>1 DEF Counters, elements
<1>11. ConsumerInv(t, h, p, i, u)'
  <2>1. /\ t \in Nat /\ h \in Nat /\ h <= t /\ p \in [Entries -> Int]
        /\ i \in [Consumers -> Int] /\ u \in SUBSET Int /\ TypeOK /\ ConsumerInv(t, h, p, i, u)
    BY InvParts
  <2>2. UNCHANGED <<slot, pc, index, count, held, at>>
    BY DEF elements, consumers
  <2> QED BY <2>1, <2>2, Unseen
<1> QED BY <1>1, <1>4, <1>5, <1>6, <1>7, <1>8, <1>9, <1>10, <1>11 DEF Inv, ProducerInv

LEMMA BlocksNeededIs ==
    ASSUME NEW t \in Nat, tailIndex = t % Modulus, NEW n \in Nat, n > 0, n + BlockSize <= Modulus
    PROVE  BlocksNeeded(n) = Num((t + n) - 1) - Top(t) /\ BlocksNeeded(n) \in Nat
<1>1. BlockSize \in Nat /\ BlockSize > 1 /\ Modulus \in Nat /\ Modulus > 0
  BY Sizes
<1>2. PICK x \in Int, y \in Int : x = (t + n) - 1 /\ y = t - 1
  OBVIOUS
<1>3. PICK j \in Int, k \in Int, a \in Int, b \in Int :
         /\ j = Num(x) /\ k = Num(y)
         /\ x = j * BlockSize + a /\ y = k * BlockSize + b
         /\ a >= 0 /\ b < BlockSize
  <2>1. /\ Num(x) \in Int /\ x % BlockSize \in Offsets /\ x = Num(x) * BlockSize + (x % BlockSize)
        /\ Num(y) \in Int /\ y % BlockSize \in Offsets /\ y = Num(y) * BlockSize + (y % BlockSize)
    BY NumOf
  <2>2. /\ x % BlockSize \in Int /\ x % BlockSize >= 0
        /\ y % BlockSize \in Int /\ y % BlockSize < BlockSize
    BY <1>1, <2>1 DEF Offsets
  <2> QED BY <2>1, <2>2
<1>4. Add(tailIndex, n - 1) = x % Modulus /\ Subtract(tailIndex, 1) = y % Modulus
  <2>1. PICK m \in Int : m = n - 1 /\ t + m = x
    BY <1>2
  <2>2. Add(t % Modulus, m) = (t + m) % Modulus
    BY Wrapped
  <2>3. Subtract(t % Modulus, 1) = (t - 1) % Modulus
    BY Wrapped
  <2> QED BY <1>2, <2>1, <2>2, <2>3
<1>5. PICK v \in Int, w \in Int : v = j * BlockSize /\ w = k * BlockSize
  BY <1>1
<1>6. BaseOf(Add(tailIndex, n - 1)) = v % Modulus /\ BaseOf(Subtract(tailIndex, 1)) = w % Modulus
  BY <1>3, <1>4, <1>5, BaseIs
<1>7. Subtract(v % Modulus, w % Modulus) = (v - w) % Modulus
  BY Wrapped
<1>8. j >= k
  BY <1>2, <1>3, NumMonotone
<1>9. PICK m \in Nat, r \in Int : m = j - k /\ r = v - w
  BY <1>8
<1>10. r = m * BlockSize
  BY <1>1, <1>5, <1>9
<1>11. r \in 0..(Modulus - 1)
  <2>1. r >= 0
    BY <1>1, <1>9, <1>10
  <2>2. x - y = n
    BY <1>2
  <2>3. r < n + BlockSize
    <3>1. x = v + a /\ y = w + b /\ a >= 0 /\ b < BlockSize
      BY <1>3, <1>5
    <3> QED BY <1>1, <1>9, <2>2, <3>1
  <2> QED BY <1>1, <2>1, <2>3
<1>12. r % Modulus = r
  BY <1>1, <1>11, ModBelow
<1>13. r \div BlockSize = m
  <2>1. 0 \in Offsets /\ m * BlockSize + 0 = r
    BY <1>1, <1>10 DEF Offsets
  <2>2. Num(m * BlockSize + 0) = m
    BY <2>1, NumIs
  <2> QED BY <2>1, <2>2 DEF Num
<1>14. BlocksNeeded(n) = m
  BY <1>6, <1>7, <1>9, <1>12, <1>13 DEF BlocksNeeded
<1> QED BY <1>2, <1>3, <1>9, <1>14 DEF Top

LEMMA CallKeeps ==
    ASSUME NEW t, NEW h, NEW z, NEW p, NEW d, NEW i, NEW u, Inv(t, h, z, p, d, i, u),
           NEW kind \in {"enqueue", "bulk"}, NEW n \in Nat, n > 0, n + BlockSize <= Modulus,
           Call(kind, n)
    PROVE  Inv(t, h, z, p, d, i, u)'
<1>1. t \in Nat /\ TypeOK /\ tailIndex = t % Modulus
  BY InvParts
<1>2. op = NoCall
  BY DEF Call
<1>3. BlocksNeeded(n) = Num((t + n) - 1) - Top(t) /\ BlocksNeeded(n) \in Nat
  BY <1>1, BlocksNeededIs
<1>4. BaseOf(Subtract(tailIndex, 1)) = (Top(t) * BlockSize) % Modulus
      /\ BaseOf(Subtract(tailIndex, 1)) \in Int
  <2>1. Subtract(tailIndex, 1) = (t - 1) % Modulus
    BY <1>1, Wrapped
  <2>2. BaseOf((t - 1) % Modulus) = (Num(t - 1) * BlockSize) % Modulus
    BY <1>1, BaseIs
  <2>3. (Top(t) * BlockSize) % Modulus \in Int
    BY <1>1, TopIs, Sizes
  <2> QED BY <2>1, <2>2, <2>3 DEF Top
<1>5. PICK a \in Int, b \in Int : a = BlocksNeeded(n) /\ b = BaseOf(Subtract(tailIndex, 1))
  BY <1>3, <1>4
<1>6. op' = [kind |-> kind, step |-> "insert", count |-> n, left |-> a, base |-> b,
             linked |-> None, chain |-> <<>>, undone |-> 0]
  BY <1>5 DEF Call, NoCall
<1>7. UNCHANGED <<elements, dequeued, free, blockIndexes, key, value, consumers>>
  BY DEF Call
<1>8. op'.chain = op.chain /\ op'.undone = op.undone /\ op.step # "take" /\ op'.step # "take"
  BY <1>2, <1>6 DEF NoCall
<1>9. TypeOK'
  <2>1. op' \in [kind : {"none", "enqueue", "bulk"}, step : {"none", "insert", "take", "undo"},
                 count : Nat, left : Int, base : Index, linked : Blocks \union {None},
                 chain : Seq(Blocks), undone : Nat]
    <3>1. b \in Index
      BY <1>1, <1>4, <1>5, TopIs, KeyIs
    <3>2. <<>> \in Seq(Blocks)
      BY EmptySeq
    <3> QED BY <1>6, <3>1, <3>2
  <2> QED BY <1>1, <1>7, <2>1 DEF TypeOK, elements, consumers
<1>10. Called(t)'
  <2>1. Top(t) \in Int
    BY <1>1, TopIs
  <2>2. Latest(t)' = Top(t) + 0
    <3>1. op'.chain = <<>> /\ Len(<<>>) = 0
      BY <1>6
    <3> QED BY <3>1 DEF Latest
  <2>3. Latest(t)' = Top(t)
    BY <2>1, <2>2
  <2>4. Top(t) + a = Num((t + n) - 1) /\ a >= 0
    <3>1. Num((t + n) - 1) \in Int
      BY <1>1, NumOf
    <3> QED BY <1>3, <1>5, <2>1, <3>1
  <2>5. b = (Top(t) * BlockSize) % Modulus
    BY <1>4, <1>5
  <2> QED BY <1>6, <2>3, <2>4, <2>5 DEF Called
<1> QED BY <1>7, <1>8, <1>9, <1>10, CallStep

(* The call fails, or goes on to take back what it has done. *)
LEMMA FailureKeeps ==
    ASSUME NEW t, NEW h, NEW z, NEW p, NEW d, NEW i, NEW u, Inv(t, h, z, p, d, i, u),
           op.step = "insert",
           op' = (IF op.chain = <<>> THEN NoCall ELSE [op EXCEPT !.step = "undo"]),
           UNCHANGED <<elements, dequeued, free, blockIndexes, key, value, consumers>>
    PROVE  Inv(t, h, z, p, d, i, u)'
<1>1. TypeOK /\ Called(t)
  BY InvParts
<1>2. op.undone = 0
  BY <1>1 DEF Called
<1>3. op \in [kind : {"none", "enqueue", "bulk"}, step : {"none", "insert", "take", "undo"},
              count : Nat, left : Int, base : Index, linked : Blocks \union {None},
              chain : Seq(Blocks), undone : Nat]
  BY <1>1 DEF TypeOK
<1>4. NoCall \in [kind : {"none", "enqueue", "bulk"}, step : {"none", "insert", "take", "undo"},
                  count : Nat, left : Int, base : Index, linked : Blocks \union {None},
                  chain : Seq(Blocks), undone : Nat]
  <2>1. <<>> \in Seq(Blocks) /\ 0 \in Index
    BY EmptySeq, Sizes DEF Index
  <2> QED BY <2>1 DEF NoCall
<1>5. op'.chain = op.chain /\ op'.undone = op.undone /\ op.step # "take" /\ op'.step # "take"
  BY <1>2, <1>3 DEF NoCall
<1>6. TypeOK'
  <2>1. op' \in [kind : {"none", "enqueue", "bulk"}, step : {"none", "insert", "take", "undo"},
                 count : Nat, left : Int, base : Index, linked : Blocks \union {None},
                 chain : Seq(Blocks), undone : Nat]
    BY <1>3, <1>4
  <2> QED BY <1>1, <2>1 DEF TypeOK, elements, consumers
<1>7. Called(t)'
  <2>1. CASE op.chain = <<>>
    <3>1. op' = NoCall
      BY <2>1
    <3>2. Len(op'.chain) = 0 /\ op'.chain = <<>>
      BY <3>1 DEF NoCall
    <3> QED BY <1>1, <3>1, <3>2 DEF Called, NoCall
  <2>2. CASE op.chain # <<>>
    <3>1. op' = [op EXCEPT !.step = "undo"]
      BY <2>2
    <3>2. op'.step = "undo" /\ op'.chain = op.chain /\ op'.undone = op.undone /\ op'.linked = op.linked
      BY <1>3, <3>1
    <3>3. blockIndexes' = blockIndexes /\ tailBlock' = tailBlock
      BY DEF elements
    <3> QED BY <1>1, <2>2, <3>2, <3>3 DEF Called
  <2> QED BY <2>1, <2>2
<1> QED BY <1>5, <1>6, <1>7, CallStep

-------------------------------------------------------------------------------
(* Slots before and after the tail. *)
LEMMA SlotByIs ==
    ASSUME TypeOK, NEW t \in Nat, NEW z, NEW p, NEW d \in [Nat -> Int], Window(t, z, p, d),
           blockIndexes # <<>>, NEW k \in Int
    PROVE  /\ SlotBy(blockIndex, k) = ((TailNum(t) + k) - d[Len(blockIndexes)]) % Size
           /\ SlotBy(blockIndex, k) \in Ring
<1>1. PICK m \in Nat : m = Size /\ m > 0
  BY CurrentIs
<1>2. m = blockIndex.capacity
  BY <1>1, CurrentIs
<1>3. Len(blockIndexes) \in Nat
  BY CurrentIs
<1>4. PICK x \in Int, b \in Int : x = TailNum(t) /\ b = d[Len(blockIndexes)]
  BY <1>3, LatestIs
<1>5. blockIndex.tail = (x - b) % m
  BY <1>1, <1>4 DEF Window
<1>6. PICK y \in Int : y = x - b
  OBVIOUS
<1>7. ((y % m) + k) % m = (y + k) % m
  BY <1>1, ModPlus
<1>8. y + k = (x + k) - b
  BY <1>6
<1>9. SlotBy(blockIndex, k) = (y + k) % m
  BY <1>2, <1>5, <1>6, <1>7 DEF SlotBy
<1>10. (y + k) % m \in 0..(m - 1)
  <2>1. y + k \in Int
    OBVIOUS
  <2> QED BY <1>1, <2>1, ModIs
<1> QED BY <1>1, <1>4, <1>8, <1>9, <1>10 DEF Ring

LEMMA TailMoved ==
    ASSUME TypeOK, blockIndexes # <<>>, NEW s \in Ring,
           blockIndexes' = [blockIndexes EXCEPT ![Len(blockIndexes)].tail = s]
    PROVE  /\ blockIndexes' \in Seq(Headers) /\ blockIndexes' # <<>>
           /\ Len(blockIndexes') = Len(blockIndexes)
           /\ \A n \in 1..Len(blockIndexes) :
                 /\ (blockIndexes'[n]).capacity = blockIndexes[n].capacity
                 /\ (blockIndexes'[n]).entry = blockIndexes[n].entry
           /\ (blockIndex').tail = s /\ (blockIndex').entry = blockIndex.entry
           /\ Size' = Size /\ Ring' = Ring
<1>1. /\ Len(blockIndexes) \in 1..Len(blockIndexes) /\ blockIndex \in Headers
      /\ Size = blockIndex.capacity /\ Size \in Nat /\ Size > 0 /\ Ring \subseteq Entries
  BY CurrentIs
<1>2. blockIndexes \in Seq(Headers)
  BY DEF TypeOK
<1>3. PICK N \in 1..Len(blockIndexes) : N = Len(blockIndexes)
  BY <1>1
<1>4. PICK H \in Headers : H = blockIndexes[N] /\ H = blockIndex
  BY <1>1, <1>3 DEF blockIndex
<1>5. PICK G : G = [H EXCEPT !.tail = s]
  OBVIOUS
<1>6. G \in Headers /\ G.tail = s /\ G.capacity = H.capacity /\ G.entry = H.entry
  <2>1. /\ H \in [capacity : 1..MaxIndexSize, tail : Entries,
                  entry : UNION {[0..(m - 1) -> 0..(m - 1)] : m \in 1..MaxIndexSize}]
        /\ H.entry \in [0..(H.capacity - 1) -> 0..(H.capacity - 1)]
    BY DEF Headers
  <2>2. s \in Entries /\ s < H.capacity
    BY <1>1, <1>4 DEF Ring
  <2>3. G.tail = s /\ G.capacity = H.capacity /\ G.entry = H.entry
    BY <1>5, <2>1
  <2>4. G \in [capacity : 1..MaxIndexSize, tail : Entries,
               entry : UNION {[0..(m - 1) -> 0..(m - 1)] : m \in 1..MaxIndexSize}]
    BY <1>5, <2>1, <2>2
  <2> QED BY <2>1, <2>2, <2>3, <2>4 DEF Headers
<1>7. blockIndexes' = [blockIndexes EXCEPT ![N] = G]
  <2>1. [blockIndexes EXCEPT ![N].tail = s] = [blockIndexes EXCEPT ![N] = G]
    BY <1>4, <1>5
  <2> QED BY <1>3, <2>1
<1>8. blockIndexes' \in Seq(Headers) /\ Len(blockIndexes') = Len(blockIndexes)
  BY <1>2, <1>6, <1>7, ExceptSeq
<1>9. \A n \in 1..Len(blockIndexes) : blockIndexes'[n] = IF n = N THEN G ELSE blockIndexes[n]
  <2>1. DOMAIN blockIndexes = 1..Len(blockIndexes)
    BY <1>2, LenProperties
  <2> QED BY <1>7, <2>1
<1>10. \A n \in 1..Len(blockIndexes) :
          /\ (blockIndexes'[n]).capacity = blockIndexes[n].capacity
          /\ (blockIndexes'[n]).entry = blockIndexes[n].entry
  BY <1>4, <1>6, <1>9
<1>11. blockIndex' = G
  BY <1>3, <1>8, <1>9 DEF blockIndex
<1>12. blockIndexes' # <<>>
  BY <1>1, <1>8, EmptySeq
<1>13. Size' = Size
  BY <1>1, <1>4, <1>6, <1>11, <1>12 DEF Size
<1>14. Ring' = Ring
  BY <1>13 DEF Ring
<1> QED BY <1>4, <1>6, <1>8, <1>10, <1>11, <1>12, <1>13, <1>14

(* Numbers that are apart by a multiple of the size have the same slots. *)
LEMMA SameSlots ==
    ASSUME TypeOK, NEW p, NEW d \in [Nat -> Int], Placed(p, d), NEW n \in 1..Len(blockIndexes),
           NEW x \in Int
    PROVE  ((x + Size) - d[n]) % blockIndexes[n].capacity = (x - d[n]) % blockIndexes[n].capacity
<1>1. PICK m \in Nat : m = blockIndexes[n].capacity /\ m > 0
  BY HeaderIs
<1>2. blockIndexes # <<>>
  BY EmptySeq DEF TypeOK
<1>3. PICK w \in Nat : w = Size
  BY <1>2, CurrentIs
<1>4. w % m = 0
  <2>1. PlacedIn(n, p, d)
    BY DEF Placed
  <2> QED BY <1>1, <1>3, <2>1 DEF PlacedIn
<1>5. PICK k \in Int, r \in 0..(m - 1) : w = m * k + r /\ w % m = r
  <2>1. w \in Int
    OBVIOUS
  <2> QED BY <1>1, <2>1, ModWhole
<1>6. PICK b \in Int, y \in Int : b = d[n] /\ y = x - b
  <2>1. n \in Nat
    OBVIOUS
  <2> QED BY <2>1
<1>7. (x + w) - b = y + m * k
  <2>1. PICK v \in Int : v = m * k
    BY <1>1
  <2>2. r = 0
    BY <1>4, <1>5
  <2>3. w = v
    BY <1>5, <2>1, <2>2
  <2> QED BY <1>6, <2>1, <2>3
<1>8. (y + m * k) % m = y % m
  BY <1>1, ModShift
<1> QED BY <1>1, <1>3, <1>6, <1>7, <1>8

(* The entry after the tail gets the next number; it loses the one it had, *)
(* the lowest, unless that was taken back.                                 *)
LEMMA NextNumber ==
    ASSUME NEW t, NEW h, NEW z, NEW p, NEW d, NEW i, NEW u, Inv(t, h, z, p, d, i, u),
           op.step = "insert", blockIndexes # <<>>, NextIsFree
    PROVE  LET e == blockIndex.entry[SlotBy(blockIndex, 1)]
           IN  /\ e \in Ring /\ value[e] = None
               /\ \E y \in Int, q \in [Entries -> Int] :
                     /\ q[e] = Latest(t) + 1 /\ \A f \in Entries : f # e => q[f] = p[f]
                     /\ \A n \in 1..Len(blockIndexes) :
                           (q[e] - d[n]) % blockIndexes[n].capacity
                              = (p[e] - d[n]) % blockIndexes[n].capacity
                     /\ q[e] <= y /\ Latest(t) <= y /\ y - Size <= Top(t)
                     /\ \A f \in Ring : q[f] > y - Size /\ q[f] <= y
<1>1. /\ t \in Nat /\ z \in Int /\ p \in [Entries -> Int] /\ d \in [Nat -> Int] /\ TypeOK
      /\ Placed(p, d) /\ Window(t, z, p, d) /\ Keyed(t, p) /\ Called(t) /\ Chained(t, p)
  BY InvParts
<1>0. z \in Int
  BY <1>1
<1>2. PICK e : e = blockIndex.entry[SlotBy(blockIndex, 1)]
  OBVIOUS
<1> DEFINE Fits(y, q) ==
              /\ q[e] = Latest(t) + 1 /\ \A f \in Entries : f # e => q[f] = p[f]
              /\ \A n \in 1..Len(blockIndexes) :
                    (q[e] - d[n]) % blockIndexes[n].capacity
                       = (p[e] - d[n]) % blockIndexes[n].capacity
              /\ q[e] <= y /\ Latest(t) <= y /\ y - Size <= Top(t)
              /\ \A f \in Ring : q[f] > y - Size /\ q[f] <= y
<1>3. SlotBy(blockIndex, 1) \in Ring
  BY <1>1, SlotByIs
<1>4. e \in Ring /\ e \in Entries
  BY <1>2, <1>3, <1>1, CurrentIs
<1>5. PICK m \in Nat : m = Size /\ m > 0
  BY <1>1, CurrentIs
<1>6. op.undone = 0
  BY <1>1 DEF Called
<1>7. PICK l \in Int, k \in Int, c \in Nat :
         l = Latest(t) /\ k = Top(t) /\ c = Len(op.chain) /\ l = k + c
  BY <1>1, LatestIs, TopIs
<1>8. TailNum(t) = l
  <2>1. TailNum(t) = l - op.undone
    BY <1>1, <1>7, LatestIs
  <2> QED BY <1>6, <1>7, <2>1
<1>9. z - m <= k /\ l <= z
  BY <1>1, <1>5, <1>7 DEF Window
<1>10. value[e] = None
  <2>1. CASE key[e] = INVALID_BLOCK_BASE
    <3>1. p[e] >= p[e]
      BY <1>1, <1>4
    <3> QED BY <1>1, <1>4, <2>1, <3>1 DEF Keyed
  <2> QED BY <1>2, <2>1 DEF NextIsFree
<1>11. PICK N \in 1..Len(blockIndexes) : N = Len(blockIndexes)
  BY <1>1, CurrentIs
<1>12. PICK b \in Int : b = d[N]
  <2>1. N \in Nat
    OBVIOUS
  <2> QED BY <1>1, <2>1
<1>13. SlotBy(blockIndex, 1) = ((l + 1) - b) % m
  <2>0. \A j \in Int : SlotBy(blockIndex, j) = ((TailNum(t) + j) - d[Len(blockIndexes)]) % Size
    BY <1>1, SlotByIs
  <2>1. SlotBy(blockIndex, 1) = ((TailNum(t) + 1) - d[Len(blockIndexes)]) % Size
    BY <2>0
  <2> QED BY <1>5, <1>8, <1>11, <1>12, <2>1
<1>18. \A x \in Int : x > z - m /\ x <= z => p[blockIndex.entry[(x - b) % m]] = x
  <2>1. \A x \in Int : x > z - Size /\ x <= z =>
           /\ blockIndex.entry[(x - d[Len(blockIndexes)]) % Size] \in Ring
           /\ p[blockIndex.entry[(x - d[Len(blockIndexes)]) % Size]] = x
    <3>1. ASSUME NEW x \in Int, x > z - Size, x <= z
          PROVE  /\ blockIndex.entry[(x - d[Len(blockIndexes)]) % Size] \in Ring
                 /\ p[blockIndex.entry[(x - d[Len(blockIndexes)]) % Size]] = x
      BY <3>1, EntryFor
    <3> QED BY <3>1
  <2> QED BY <1>5, <1>11, <1>12, <2>1
<1>14. ASSUME l < z
       PROVE  Fits(z, p)
  <2>1. p[e] = l + 1
    <3>1. PICK x \in Int : x = l + 1
      OBVIOUS
    <3>2. x > z - m /\ x <= z
      <4>1. PICK y \in Int : y = z
        BY <1>0
      <4>2. y - m <= k /\ l < y /\ l = k + c
        BY <1>7, <1>9, <1>14, <4>1
      <4>3. x > y - m /\ x <= y
        BY <3>1, <4>2
      <4> QED BY <4>1, <4>3
    <3>3. p[blockIndex.entry[(x - b) % m]] = x
      BY <1>18, <3>2
    <3> QED BY <1>2, <1>13, <3>1, <3>3
  <2>2. p[e] <= z
    BY <1>0, <1>14, <2>1
  <2>3. \A f \in Ring : p[f] > z - m /\ p[f] <= z
    BY <1>1, <1>5 DEF Window
  <2> QED BY <1>5, <1>7, <1>9, <2>1, <2>2, <2>3
<1>15. ASSUME l = z
       PROVE  \E y \in Int, q \in [Entries -> Int] : Fits(y, q)
  <2>1. PICK x \in Int : x = (l + 1) - m
    OBVIOUS
  <2>2. x > z - m /\ x <= z
    BY <1>5, <1>15, <2>1
  <2>3. p[blockIndex.entry[(x - b) % m]] = x
    BY <1>18, <2>2
  <2>4. ((x + m) - b) % m = (x - b) % m
    <3>1. m = blockIndexes[N].capacity
      BY <1>1, <1>5, <1>11, CurrentIs DEF blockIndex
    <3> QED BY <1>1, <1>5, <1>12, <3>1, SameSlots
  <2>5. p[e] = x
    <3>1. x + m = l + 1
      BY <2>1
    <3> QED BY <1>2, <1>13, <2>3, <2>4, <3>1
  <2>6. z - m < k
    <3>1. SUFFICES ASSUME z - m = k
                   PROVE  FALSE
      BY <1>0, <1>9
    <3>2. x = k + 1 /\ c = m
      <4>1. z = k + m
        BY <1>0, <3>1
      <4>2. l = k + m /\ l = k + c
        BY <1>7, <1>15, <4>1
      <4> QED BY <2>1, <4>2
    <3>3. 1 \in 1..Len(op.chain) /\ 1 > op.undone
      BY <1>5, <1>6, <1>7, <3>2
    <3>4. PICK f \in Entries : p[f] = k + 1 /\ value[f] = op.chain[1]
      BY <1>1, <1>7, <3>3 DEF Chained
    <3>5. value[f] # None
      <4>1. op.chain[1] \in Blocks
        <5>1. op.chain \in Seq(Blocks)
          BY <1>1, LatestIs
        <5> QED BY <3>3, <5>1
      <4> QED BY <3>4, <4>1, ImplicitProducerAssumption
    <3>6. f \in Ring
      BY <1>1, <3>5 DEF Keyed
    <3>7. f = e
      BY <1>1, <1>4, <2>5, <3>2, <3>4, <3>6, OneEntry
    <3> QED BY <1>10, <3>5, <3>7
  <2>7. PICK q, y : q = [p EXCEPT ![e] = l + 1] /\ y = l + 1
    OBVIOUS
  <2> USE <1>0
  <2>8. q \in [Entries -> Int] /\ q[e] = y /\ \A f \in Entries : f # e => q[f] = p[f]
    BY <1>1, <1>4, <2>7
  <2>9. \A n \in 1..Len(blockIndexes) :
           (q[e] - d[n]) % blockIndexes[n].capacity = (p[e] - d[n]) % blockIndexes[n].capacity
    <3>1. q[e] = x + m
      BY <2>1, <2>7, <2>8
    <3> QED BY <1>1, <1>5, <2>5, <3>1, SameSlots
  <2>10. \A f \in Ring : q[f] > y - m /\ q[f] <= y
    <3>1. SUFFICES ASSUME NEW f \in Ring
                   PROVE  q[f] > y - m /\ q[f] <= y
      OBVIOUS
    <3>2. CASE f = e
      BY <1>5, <2>7, <2>8, <3>2
    <3>3. CASE f # e
      <4>1. f \in Entries
        BY <1>1, CurrentIs
      <4>2. q[f] = p[f] /\ p[f] \in Int
        BY <1>1, <2>8, <3>3, <4>1
      <4>3. p[f] > z - m /\ p[f] <= z
        BY <1>1, <1>5 DEF Window
      <4>4. p[f] # x
        BY <1>1, <1>4, <2>5, <3>3, OneEntry
      <4> QED BY <1>15, <2>1, <2>7, <4>2, <4>3, <4>4
    <3> QED BY <3>2, <3>3
  <2>11. q[e] = l + 1 /\ q[e] <= y /\ l <= y /\ y - m <= k
    BY <1>9, <1>15, <2>6, <2>7, <2>8
  <2>12. Fits(y, q)
    BY <1>5, <1>7, <2>8, <2>9, <2>10, <2>11
  <2>13. y \in Int
    BY <2>7
  <2> HIDE DEF Fits
  <2> QED BY <2>8, <2>12, <2>13
<1>16. \E y \in Int, q \in [Entries -> Int] : Fits(y, q)
  <2>1. l < z \/ l = z
    BY <1>0, <1>9
  <2> HIDE DEF Fits
  <2> QED BY <1>0, <1>1, <1>14, <1>15, <2>1
<1> QED BY <1>2, <1>4, <1>10, <1>16

LEMMA NextBaseIs ==
    ASSUME NEW t \in Nat, TypeOK, Called(t), op.step \in {"insert", "take"}
    PROVE  NextBase = ((Latest(t) + 1) * BlockSize) % Modulus
<1>1. PICK l \in Int : l = Latest(t)
  BY LatestIs
<1>2. PICK x \in Int : x = l * BlockSize
  BY Sizes
<1>3. op.base = x % Modulus
  BY <1>1, <1>2 DEF Called
<1>4. BlockSize \in Int
  BY Sizes
<1>5. Add(x % Modulus, BlockSize) = (x + BlockSize) % Modulus
  BY <1>4, Wrapped
<1>6. (l + 1) * BlockSize = x + BlockSize
  BY <1>2, <1>4
<1> QED BY <1>1, <1>3, <1>5, <1>6 DEF NextBase

LEMMA InsertEntryKeeps ==
    ASSUME NEW t, NEW h, NEW z, NEW p, NEW d, NEW i, NEW u, Inv(t, h, z, p, d, i, u), InsertEntry
    PROVE  \E y, q : Inv(t, h, y, q, d, i, u)'
<1>1. /\ t \in Nat /\ z \in Int /\ p \in [Entries -> Int] /\ d \in [Nat -> Int] /\ TypeOK
      /\ Placed(p, d) /\ Window(t, z, p, d) /\ Keyed(t, p) /\ Called(t) /\ Chained(t, p)
  BY InvParts
<1>2. op.step = "insert" /\ op.left > 0 /\ blockIndexes # <<>> /\ NextIsFree
  BY DEF InsertEntry
<1>3. PICK s, e : s = SlotBy(blockIndex, 1) /\ e = blockIndex.entry[s]
  OBVIOUS
<1>4. e \in Ring /\ value[e] = None
  BY <1>2, <1>3, NextNumber
<1>5. PICK y \in Int, q \in [Entries -> Int] :
         /\ q[e] = Latest(t) + 1 /\ \A f \in Entries : f # e => q[f] = p[f]
         /\ \A n \in 1..Len(blockIndexes) :
               (q[e] - d[n]) % blockIndexes[n].capacity = (p[e] - d[n]) % blockIndexes[n].capacity
         /\ q[e] <= y /\ Latest(t) <= y /\ y - Size <= Top(t)
         /\ \A f \in Ring : q[f] > y - Size /\ q[f] <= y
  BY <1>2, <1>3, NextNumber
<1>6. key' = [key EXCEPT ![e] = NextBase]
  BY <1>3 DEF InsertEntry
<1>7. blockIndexes' = [blockIndexes EXCEPT ![Len(blockIndexes)].tail = s]
  BY <1>3 DEF InsertEntry
<1>8. op' = [op EXCEPT !.step = "take"]
  BY DEF InsertEntry
<1>9. UNCHANGED <<elements, dequeued, free, value, consumers>>
  BY DEF InsertEntry
<1>10. s \in Ring
  <2>1. \A k \in Int : SlotBy(blockIndex, k) \in Ring
    BY <1>1, <1>2, SlotByIs
  <2> QED BY <1>3, <2>1
<1>11. Ring \subseteq Entries
  BY <1>1, <1>2, CurrentIs
<1>12. /\ blockIndexes' \in Seq(Headers) /\ blockIndexes' # <<>>
       /\ Len(blockIndexes') = Len(blockIndexes)
       /\ \A n \in 1..Len(blockIndexes) :
             /\ (blockIndexes'[n]).capacity = blockIndexes[n].capacity
             /\ (blockIndexes'[n]).entry = blockIndexes[n].entry
       /\ (blockIndex').tail = s
       /\ Size' = Size /\ Ring' = Ring
  BY <1>1, <1>2, <1>7, <1>10, TailMoved
<1>13. op \in [kind : {"none", "enqueue", "bulk"}, step : {"none", "insert", "take", "undo"},
               count : Nat, left : Int, base : Index, linked : Blocks \union {None},
               chain : Seq(Blocks), undone : Nat]
  BY <1>1 DEF TypeOK
<1>14. /\ op'.step = "take" /\ op'.count = op.count /\ op'.left = op.left /\ op'.base = op.base
       /\ op'.linked = op.linked /\ op'.chain = op.chain /\ op'.undone = op.undone
  BY <1>8, <1>13
<1>15. key' \in [Entries -> Int] /\ key'[e] = NextBase
       /\ \A f \in Entries : f # e => key'[f] = key[f]
  <2>1. key \in [Entries -> Int] /\ e \in Entries
    BY <1>1, <1>4, <1>11 DEF TypeOK
  <2>2. NextBase \in Int
    BY <1>13, Sizes DEF NextBase, Add, Index
  <2> QED BY <1>6, <2>1, <2>2
<1>16. \A f \in Entries : value[f] # None => q[f] = p[f]
  BY <1>4, <1>5
<1>17. Latest(t)' = Latest(t) /\ TailNum(t)' = q[e] /\ Latest(t) \in Int
  <2>1. TailNum(t)' = (Latest(t) - 0) + 1
    <3>1. op.undone = 0
      BY <1>1, <1>2 DEF Called
    <3> QED BY <1>14, <3>1 DEF TailNum, Latest
  <2>2. Latest(t) \in Int
    BY <1>1, LatestIs
  <2> QED BY <1>5, <1>14, <2>1, <2>2 DEF Latest
<1>18. TypeOK'
  <2>1. op' \in [kind : {"none", "enqueue", "bulk"}, step : {"none", "insert", "take", "undo"},
                 count : Nat, left : Int, base : Index, linked : Blocks \union {None},
                 chain : Seq(Blocks), undone : Nat]
    BY <1>8, <1>13
  <2> QED BY <1>1, <1>9, <1>12, <1>15, <2>1 DEF TypeOK, elements, consumers
<1>19. Placed(q, d)'
  <2>1. SUFFICES ASSUME NEW n \in 1..Len(blockIndexes)
                 PROVE  PlacedIn(n, q, d)'
    BY <1>12 DEF Placed
  <2>2. PlacedIn(n, p, d)
    BY <1>1 DEF Placed
  <2>3. PICK m, g : m = blockIndexes[n].capacity /\ g = blockIndexes[n].entry
    OBVIOUS
  <2>4. g \in [0..(m - 1) -> 0..(m - 1)] /\ 0..(m - 1) \subseteq Entries
    <3>1. m \in 1..MaxIndexSize /\ g \in [0..(m - 1) -> 0..(m - 1)] /\ MaxIndexSize \in Nat
      BY <1>1, <2>3, HeaderIs, Sizes
    <3> QED BY <3>1 DEF Entries
  <2>5. \A f \in Entries : (q[f] - d[n]) % m = (p[f] - d[n]) % m
    BY <1>5, <2>3
  <2>6. /\ \A x \in 0..(m - 1) : (p[g[x]] - d[n]) % m = x
        /\ \A f \in 0..(m - 1) : g[(p[f] - d[n]) % m] = f
        /\ m <= Size /\ Size % m = 0
    BY <2>2, <2>3 DEF PlacedIn
  <2>7. \A x \in 0..(m - 1) : (q[g[x]] - d[n]) % m = x
    BY <2>4, <2>5, <2>6
  <2>8. \A f \in 0..(m - 1) : g[(q[f] - d[n]) % m] = f
    BY <2>4, <2>5, <2>6
  <2>9. (blockIndexes'[n]).capacity = m /\ (blockIndexes'[n]).entry = g
    BY <1>12, <2>3
  <2> QED BY <1>12, <2>6, <2>7, <2>8, <2>9 DEF PlacedIn
<1>20. Window(t, y, q, d)'
  <2>1. s = ((TailNum(t) + 1) - d[Len(blockIndexes)]) % Size
    <3>1. \A k \in Int : SlotBy(blockIndex, k) = ((TailNum(t) + k) - d[Len(blockIndexes)]) % Size
      BY <1>1, <1>2, SlotByIs
    <3> QED BY <1>3, <3>1
  <2>2. TailNum(t) + 1 = q[e]
    <3>1. op.undone = 0
      BY <1>1, <1>2 DEF Called
    <3>2. TailNum(t) = Latest(t) - op.undone
      BY <1>1, <1>2, LatestIs
    <3> QED BY <1>5, <1>17, <3>1, <3>2
  <2>3. s = (q[e] - d[Len(blockIndexes)]) % Size
    BY <2>1, <2>2
  <2> QED BY <1>5, <1>12, <1>17, <2>3 DEF Window
<1>21. Keyed(t, q)'
  <2>1. SUFFICES ASSUME NEW f \in Entries
                 PROVE  /\ value[f] # None => f \in Ring /\ q[f] <= Latest(t)
                        /\ key'[f] # INVALID_BLOCK_BASE =>
                              f \in Ring /\ key'[f] = (q[f] * BlockSize) % Modulus
                        /\ f \in Ring /\ q[f] > Top(t) => key'[f] # INVALID_BLOCK_BASE
                        /\ value[f] # None =>
                              \A g \in Ring : q[g] >= q[f] => key'[g] # INVALID_BLOCK_BASE
    BY <1>9, <1>12, <1>17 DEF Keyed
  <2>2. key'[e] = (q[e] * BlockSize) % Modulus /\ key'[e] # INVALID_BLOCK_BASE
    <3>1. NextBase = ((Latest(t) + 1) * BlockSize) % Modulus
      BY <1>1, <1>2, NextBaseIs
    <3>2. q[e] \in Int
      BY <1>5, <1>17
    <3> QED BY <1>5, <1>15, <3>1, <3>2, KeyIs
  <2>3. value[f] # None => f \in Ring /\ q[f] <= Latest(t)
    BY <1>1, <1>16 DEF Keyed
  <2>4. key'[f] # INVALID_BLOCK_BASE => f \in Ring /\ key'[f] = (q[f] * BlockSize) % Modulus
    <3>1. CASE f = e
      BY <1>4, <2>2, <3>1
    <3>2. CASE f # e
      BY <1>1, <1>5, <1>15, <3>2 DEF Keyed
    <3> QED BY <3>1, <3>2
  <2>5. f \in Ring /\ q[f] > Top(t) => key'[f] # INVALID_BLOCK_BASE
    <3>1. CASE f = e
      BY <2>2, <3>1
    <3>2. CASE f # e
      BY <1>1, <1>5, <1>15, <3>2 DEF Keyed
    <3> QED BY <3>1, <3>2
  <2>6. value[f] # None => \A g \in Ring : q[g] >= q[f] => key'[g] # INVALID_BLOCK_BASE
    <3>1. SUFFICES ASSUME value[f] # None, NEW g \in Ring, q[g] >= q[f]
                   PROVE  key'[g] # INVALID_BLOCK_BASE
      OBVIOUS
    <3>2. CASE g = e
      BY <2>2, <3>2
    <3>3. CASE g # e
      <4>1. g \in Entries
        BY <1>11
      <4>2. q[g] = p[g] /\ q[f] = p[f] /\ key'[g] = key[g]
        BY <1>5, <1>15, <1>16, <3>1, <3>3, <4>1
      <4> QED BY <1>1, <3>1, <4>2 DEF Keyed
    <3> QED BY <3>2, <3>3
  <2> QED BY <2>3, <2>4, <2>5, <2>6
<1>22. Called(t)'
  BY <1>1, <1>2, <1>9, <1>12, <1>14, <1>17 DEF Called, elements
<1>23. Chained(t, q)'
  <2>1. \A f \in Entries : value[f] # None /\ q[f] > Top(t) =>
           /\ q[f] - Top(t) > op.undone /\ value[f] = op.chain[q[f] - Top(t)]
           /\ dequeued[value[f]] = 0
    BY <1>1, <1>16 DEF Chained
  <2>2. \A n \in 1..Len(op.chain) : n > op.undone =>
           \E f \in Entries : q[f] = Top(t) + n /\ value[f] = op.chain[n]
    <3>1. SUFFICES ASSUME NEW n \in 1..Len(op.chain), n > op.undone
                   PROVE  \E f \in Entries : q[f] = Top(t) + n /\ value[f] = op.chain[n]
      OBVIOUS
    <3>2. PICK f \in Entries : p[f] = Top(t) + n /\ value[f] = op.chain[n]
      BY <1>1, <3>1 DEF Chained
    <3>3. value[f] # None
      <4>1. op.chain[n] \in Blocks
        BY <1>13
      <4> QED BY <3>2, <4>1, ImplicitProducerAssumption
    <3> QED BY <1>16, <3>2, <3>3
  <2> QED BY <1>9, <1>14, <2>1, <2>2 DEF Chained
<1>24. TailIs(t, q)'
  <2>1. TailIs(t, p)
    BY InvParts
  <2> QED BY <1>9, <1>16, <2>1 DEF TailIs, elements
<1>25. Owned'
  <2>1. Owned
    BY InvParts
  <2> QED BY <1>9, <1>14, <2>1 DEF Owned
<1>26. Counters(t, h)' /\ Numbers(t, h, y, q, d, i, u)'
  <2>1. Counters(t, h) /\ Numbers(t, h, z, p, d, i, u)
    BY InvParts
  <2> QED BY <1>9, <2>1 DEF Counters, Numbers, elements
<1>27. ConsumerInv(t, h, q, i, u)'
  <2>1. /\ h \in Nat /\ h <= t /\ i \in [Consumers -> Int] /\ u \in SUBSET Int
        /\ ConsumerInv(t, h, p, i, u)
    BY InvParts
  <2>2. UNCHANGED <<slot, pc, index, count, held, at>>
    BY <1>9 DEF elements, consumers
  <2>3. \A f \in Entries :
           /\ value[f] # None /\ p[f] <= Top(t) =>
                 value'[f] = value[f] /\ q[f] = p[f] /\ dequeued'[value[f]] = dequeued[value[f]]
           /\ value'[f] # None /\ q[f] <= Top(t) => value[f] # None /\ p[f] <= Top(t)
    BY <1>9, <1>16
  <2>4. \A f \in Entries : key[f] # INVALID_BLOCK_BASE => key'[f] # INVALID_BLOCK_BASE
    <3>1. key'[e] # INVALID_BLOCK_BASE
      <4>1. NextBase = ((Latest(t) + 1) * BlockSize) % Modulus
        BY <1>1, <1>2, NextBaseIs
      <4>2. Latest(t) + 1 \in Int
        BY <1>17
      <4> QED BY <1>15, <4>1, <4>2, KeyIs
    <3> QED BY <1>15, <3>1
  <2>5. \A n \in 1..Len(blockIndexes) :
           /\ n \in 1..Len(blockIndexes')
           /\ (blockIndexes'[n]).capacity = blockIndexes[n].capacity
           /\ (blockIndexes'[n]).entry = blockIndexes[n].entry
    BY <1>12
  <2> QED BY <1>1, <2>1, <2>2, <2>3, <2>4, <2>5, Unseen
<1> QED BY <1>18, <1>19, <1>20, <1>21, <1>22, <1>23, <1>24, <1>25, <1>26, <1>27
        DEF Inv, ProducerInv

(* An index that is full has all its numbers up to the last inserted, and  *)
(* is copied in their order.                                               *)
LEMMA OldestFirst ==
    ASSUME NEW t, NEW h, NEW z, NEW p, NEW d, NEW i, NEW u, Inv(t, h, z, p, d, i, u),
           op.step = "insert", blockIndexes # <<>>, ~NextIsFree
    PROVE  /\ Latest(t) = z /\ TailNum(t) = z
           /\ \A s \in Ring : FromOldest(s) \in Ring /\ p[FromOldest(s)] = ((z + s) + 1) - Size
<1>1. /\ t \in Nat /\ z \in Int /\ p \in [Entries -> Int] /\ d \in [Nat -> Int] /\ TypeOK
      /\ Placed(p, d) /\ Window(t, z, p, d) /\ Keyed(t, p) /\ Called(t)
  BY InvParts
<1>0. z \in Int
  BY <1>1
<1>2. PICK m \in Nat : m = Size /\ m > 0
  BY <1>1, CurrentIs
<1>3. PICK N \in 1..Len(blockIndexes) : N = Len(blockIndexes)
  BY <1>1, CurrentIs
<1>4. PICK b \in Int : b = d[N]
  <2>1. N \in Nat
    OBVIOUS
  <2> QED BY <1>1, <2>1
<1>5. PICK l \in Int : l = Latest(t)
  BY <1>1, LatestIs
<1>6. TailNum(t) = l
  <2>1. op.undone = 0
    BY <1>1 DEF Called
  <2>2. TailNum(t) = l - op.undone
    BY <1>1, <1>5, LatestIs
  <2> QED BY <1>5, <2>1, <2>2
<1>7. \A k \in Int : SlotBy(blockIndex, k) = ((l + k) - b) % m
  <2>1. \A k \in Int : SlotBy(blockIndex, k) = ((TailNum(t) + k) - d[Len(blockIndexes)]) % Size
    BY <1>1, SlotByIs
  <2> QED BY <1>2, <1>3, <1>4, <1>6, <2>1
<1>8. \A x \in Int : x > z - m /\ x <= z =>
         blockIndex.entry[(x - b) % m] \in Ring /\ p[blockIndex.entry[(x - b) % m]] = x
  <2>1. \A x \in Int : x > z - Size /\ x <= z =>
           /\ blockIndex.entry[(x - d[Len(blockIndexes)]) % Size] \in Ring
           /\ p[blockIndex.entry[(x - d[Len(blockIndexes)]) % Size]] = x
    <3>1. ASSUME NEW x \in Int, x > z - Size, x <= z
          PROVE  /\ blockIndex.entry[(x - d[Len(blockIndexes)]) % Size] \in Ring
                 /\ p[blockIndex.entry[(x - d[Len(blockIndexes)]) % Size]] = x
      BY <3>1, EntryFor
    <3> QED BY <3>1
  <2> QED BY <1>2, <1>3, <1>4, <2>1
<1>9. l <= z /\ z - m <= l
  <2>1. Latest(t) <= z /\ z - Size <= Top(t)
    BY <1>1 DEF Window
  <2>2. Top(t) <= Latest(t) /\ Top(t) \in Int
    <3>1. PICK k \in Int : k = Top(t)
      BY <1>1, TopIs
    <3>2. PICK n \in Nat : n = Len(op.chain)
      BY <1>1, LatestIs
    <3>3. Latest(t) = k + n
      BY <3>1, <3>2 DEF Latest
    <3> QED BY <3>1, <3>3
  <2> QED BY <1>0, <1>2, <1>5, <2>1, <2>2
<1>10. l = z
  <2>1. SUFFICES ASSUME l < z
                 PROVE  FALSE
    BY <1>0, <1>9
  <2>2. PICK x \in Int : x = l + 1
    OBVIOUS
  <2>3. x > z - m /\ x <= z
    BY <1>0, <1>9, <2>1, <2>2
  <2>4. PICK e : e = blockIndex.entry[(x - b) % m]
    OBVIOUS
  <2>5. e \in Ring /\ p[e] = x
    BY <1>8, <2>3, <2>4
  <2>6. e = blockIndex.entry[SlotBy(blockIndex, 1)]
    <3>1. SlotBy(blockIndex, 1) = ((l + 1) - b) % m
      BY <1>7
    <3> QED BY <2>2, <2>4, <3>1
  <2>7. value[e] # None
    BY <2>6 DEF NextIsFree
  <2>8. e \in Entries
    BY <1>1, <2>5, CurrentIs
  <2>9. p[e] <= l
    BY <1>1, <1>5, <2>7, <2>8 DEF Keyed
  <2> QED BY <2>2, <2>5, <2>9
<1>11. ASSUME NEW s \in Ring
       PROVE  FromOldest(s) \in Ring /\ p[FromOldest(s)] = ((z + s) + 1) - Size
  <2>1. s \in Int /\ s >= 0 /\ s < m
    BY <1>2 DEF Ring
  <2>2. PICK k \in Int, x \in Int : k = s + 1 /\ x = (l + k) - m
    BY <2>1
  <2>3. FromOldest(s) = blockIndex.entry[((l + k) - b) % m]
    <3>1. SlotBy(blockIndex, k) = ((l + k) - b) % m
      BY <1>7
    <3> QED BY <2>2, <3>1 DEF FromOldest
  <2>4. ((x + m) - b) % m = (x - b) % m
    <3>1. m = blockIndexes[N].capacity
      BY <1>1, <1>2, <1>3, CurrentIs DEF blockIndex
    <3> QED BY <1>1, <1>2, <1>4, <3>1, SameSlots
  <2>5. x + m = l + k
    BY <2>2
  <2>6. x > z - m /\ x <= z
    BY <1>0, <1>10, <2>1, <2>2
  <2>7. FromOldest(s) \in Ring /\ p[FromOldest(s)] = x
    BY <1>8, <2>3, <2>4, <2>5, <2>6
  <2>8. x = ((z + s) + 1) - m
    BY <1>0, <1>10, <2>1, <2>2
  <2> QED BY <1>2, <2>7, <2>8
<1> QED BY <1>5, <1>6, <1>10, <1>11

LEMMA Doubled ==
    ASSUME NEW m \in Nat, m > 0, NEW w \in Nat, w % m = 0
    PROVE  (2 * w) % m = 0
<1>1. PICK k \in Int, r \in 0..(m - 1) : w = m * k + r /\ w % m = r
  <2>1. w \in Int
    OBVIOUS
  <2> QED BY <2>1, ModWhole
<1>2. PICK j \in Int, y \in Int : j = 2 * k /\ y = 2 * w
  OBVIOUS
<1>3. m * j = 2 * (m * k)
  BY <1>2
<1>4. PICK v \in Int : v = m * k
  OBVIOUS
<1>5. y = m * j + 0 /\ 0 \in 0..(m - 1)
  BY <1>1, <1>2, <1>3, <1>4
<1>6. y % m = 0
  BY <1>5, ModUnique
<1> QED BY <1>2, <1>6

LEMMA GrowKeeps ==
    ASSUME NEW t, NEW h, NEW z, NEW p, NEW d, NEW i, NEW u, Inv(t, h, z, p, d, i, u), Grow
    PROVE  \E q, b : Inv(t, h, z, q, b, i, u)'
<1>1. /\ t \in Nat /\ z \in Int /\ p \in [Entries -> Int] /\ d \in [Nat -> Int] /\ TypeOK
      /\ Placed(p, d) /\ Window(t, z, p, d) /\ Keyed(t, p) /\ Called(t) /\ Chained(t, p)
  BY InvParts
<1>0. z \in Int
  BY <1>1
<1>2. op.step = "insert" /\ blockIndexes # <<>> /\ ~NextIsFree
  BY DEF Grow
<1>3. PICK m \in Nat : m = Size /\ m > 0
  BY <1>1, <1>2, CurrentIs
<1>4. m = blockIndex.capacity /\ Ring = 0..(m - 1)
  BY <1>1, <1>2, <1>3, CurrentIs DEF Ring
<1>5. PICK N \in Nat : N = Len(blockIndexes) /\ N >= 1
  BY <1>1, <1>2, CurrentIs
<1>6. /\ Latest(t) = z /\ TailNum(t) = z
      /\ \A s \in Ring : FromOldest(s) \in Ring /\ p[FromOldest(s)] = ((z + s) + 1) - m
  BY <1>2, <1>3, OldestFirst
<1>7. PICK g : g = [s \in 0..(2 * m - 1) |-> IF s < m THEN FromOldest(s) ELSE s]
  OBVIOUS
<1>8. PICK G : G = [capacity |-> 2 * m, tail |-> m - 1, entry |-> g]
  OBVIOUS
<1>9. 2 * m <= MaxIndexSize /\ blockIndexes' = Append(blockIndexes, G)
  BY <1>4, <1>7, <1>8 DEF Grow
<1>10. UNCHANGED <<elements, dequeued, free, key, value, op, consumers>>
  BY DEF Grow
<1>11. g \in [0..(2 * m - 1) -> 0..(2 * m - 1)]
  <2>1. SUFFICES ASSUME NEW s \in 0..(2 * m - 1)
                 PROVE  (IF s < m THEN FromOldest(s) ELSE s) \in 0..(2 * m - 1)
    BY <1>7
  <2>2. CASE s < m
    <3>1. s \in Ring
      BY <1>4, <2>2
    <3>2. FromOldest(s) \in 0..(m - 1)
      BY <1>4, <1>6, <3>1
    <3> QED BY <2>2, <3>2
  <2>3. CASE ~(s < m)
    BY <2>3
  <2> QED BY <2>2, <2>3
<1>12. G \in Headers
  <2>1. 2 * m \in 1..MaxIndexSize /\ m - 1 \in Entries /\ m - 1 < 2 * m
    BY <1>3, <1>9, Sizes DEF Entries
  <2>2. g \in UNION {[0..(n - 1) -> 0..(n - 1)] : n \in 1..MaxIndexSize}
    BY <1>11, <2>1
  <2> QED BY <1>8, <1>11, <2>1, <2>2 DEF Headers
<1>13. /\ blockIndexes' \in Seq(Headers) /\ blockIndexes' # <<>> /\ Len(blockIndexes') = N + 1
       /\ \A n \in 1..N : blockIndexes'[n] = blockIndexes[n]
       /\ blockIndexes'[N + 1] = G
  <2>1. blockIndexes \in Seq(Headers)
    BY <1>1 DEF TypeOK
  <2> QED BY <1>5, <1>9, <1>12, <2>1, AppendProperties
<1>14. blockIndex' = G /\ Size' = 2 * m /\ Ring' = 0..(2 * m - 1)
  <2>1. blockIndex' = G
    BY <1>13 DEF blockIndex
  <2>2. Size' = 2 * m
    BY <1>8, <1>13, <2>1 DEF Size
  <2> QED BY <2>1, <2>2 DEF Ring
<1>15. 0..(2 * m - 1) \subseteq Entries
  BY <1>9, Sizes DEF Entries
<1>16. PICK q, b : /\ q = [f \in Entries |->
                              IF f >= m /\ f < 2 * m THEN ((z + 1) + f) - 3 * m ELSE p[f]]
                   /\ b = [d EXCEPT ![N + 1] = (z - m) + 1]
  OBVIOUS
<1>17. q \in [Entries -> Int]
  <2>1. Entries \subseteq Int
    BY Sizes DEF Entries
  <2> QED BY <1>0, <1>1, <1>16, <2>1
<1>18. b \in [Nat -> Int] /\ b[N + 1] = (z - m) + 1 /\ \A n \in 1..N : b[n] = d[n]
  <2>1. N + 1 \in Nat /\ (z - m) + 1 \in Int
    BY <1>0
  <2>2. \A n \in 1..N : n \in Nat /\ n # N + 1
    BY <1>5
  <2> QED BY <1>1, <1>16, <2>1, <2>2
<1>19. \A f \in Ring : q[f] = p[f] /\ p[f] > z - m /\ p[f] <= z
  <2>1. SUFFICES ASSUME NEW f \in Ring
                 PROVE  q[f] = p[f] /\ p[f] > z - m /\ p[f] <= z
    OBVIOUS
  <2>2. f \in Entries /\ ~(f >= m)
    BY <1>4, <1>15
  <2>3. p[f] > z - m /\ p[f] <= z
    BY <1>1, <1>2, <1>3 DEF Window
  <2> QED BY <1>16, <2>2, <2>3
<1>20. \A f \in 0..(2 * m - 1) : f >= m =>
          q[f] = ((z + 1) + f) - 3 * m /\ q[f] > z - 2 * m /\ q[f] <= z - m
  <2>1. SUFFICES ASSUME NEW f \in 0..(2 * m - 1), f >= m
                 PROVE  q[f] = ((z + 1) + f) - 3 * m /\ q[f] > z - 2 * m /\ q[f] <= z - m
    OBVIOUS
  <2>2. f \in Entries /\ f < 2 * m
    BY <1>15
  <2>3. q[f] = ((z + 1) + f) - 3 * m
    BY <1>16, <2>1, <2>2
  <2> QED BY <1>0, <2>1, <2>2, <2>3
<1>21. \A f \in Entries : value[f] # None => f \in Ring /\ q[f] = p[f]
  BY <1>1, <1>19 DEF Keyed
<1>22. Latest(t)' = Latest(t) /\ TailNum(t)' = TailNum(t)
  BY <1>10 DEF Latest, TailNum
<1>23. TypeOK'
  BY <1>1, <1>10, <1>13 DEF TypeOK, elements, consumers
<1>24. z - m <= Top(t) /\ Top(t) \in Int
  BY <1>1, <1>2, <1>3, TopIs DEF Window
<1>25. Placed(q, b)'
  <2>1. ASSUME NEW n \in 1..N
        PROVE  PlacedIn(n, q, b)'
    <3>1. PlacedIn(n, p, d) /\ n \in 1..Len(blockIndexes)
      BY <1>1, <1>5 DEF Placed
    <3>2. PICK H : H = blockIndexes[n]
      OBVIOUS
    <3>3. /\ \A s \in 0..(H.capacity - 1) : (p[H.entry[s]] - d[n]) % H.capacity = s
          /\ \A e \in 0..(H.capacity - 1) : H.entry[(p[e] - d[n]) % H.capacity] = e
          /\ H.capacity <= m /\ m % H.capacity = 0
      BY <1>3, <3>1, <3>2 DEF PlacedIn
    <3>4. /\ H.capacity \in Nat /\ H.capacity > 0
          /\ H.entry \in [0..(H.capacity - 1) -> 0..(H.capacity - 1)]
      BY <1>1, <3>1, <3>2, HeaderIs
    <3>5. 0..(H.capacity - 1) \subseteq Ring
      <4>1. PICK k \in Nat : k = H.capacity /\ k <= m
        BY <3>3, <3>4
      <4> QED BY <1>4, <4>1
    <3>6. \A f \in 0..(H.capacity - 1) : q[f] = p[f]
      BY <1>19, <3>5
    <3>7. b[n] = d[n]
      BY <1>18
    <3>8. \A s \in 0..(H.capacity - 1) : (q[H.entry[s]] - b[n]) % H.capacity = s
      BY <3>3, <3>4, <3>6, <3>7
    <3>9. \A e \in 0..(H.capacity - 1) : H.entry[(q[e] - b[n]) % H.capacity] = e
      BY <3>3, <3>6, <3>7
    <3>10. H.capacity <= 2 * m
      <4>1. PICK k \in Nat : k = H.capacity /\ k <= m
        BY <3>3, <3>4
      <4> QED BY <4>1
    <3>11. (2 * m) % H.capacity = 0
      BY <3>3, <3>4, Doubled
    <3>12. blockIndexes'[n] = H
      BY <1>13, <3>2
    <3> QED BY <1>14, <3>8, <3>9, <3>10, <3>11, <3>12 DEF PlacedIn
  <2>2. PlacedIn(N + 1, q, b)'
    <3>1. PICK c \in Nat : c = 2 * m /\ c > 0
      BY <1>3
    <3>2. \A s \in 0..(c - 1) : (q[g[s]] - b[N + 1]) % c = s
      <4>1. SUFFICES ASSUME NEW s \in 0..(c - 1)
                     PROVE  (q[g[s]] - b[N + 1]) % c = s
        OBVIOUS
      <4>2. CASE s < m
        <5>1. s \in Ring
          BY <1>4, <4>2
        <5>2. g[s] = FromOldest(s)
          BY <1>7, <3>1, <4>2
        <5>3. q[g[s]] = ((z + s) + 1) - m
          BY <1>6, <1>19, <5>1, <5>2
        <5>4. q[g[s]] - b[N + 1] = s
          BY <1>0, <1>18, <5>3
        <5> QED BY <3>1, <5>4, ModBelow
      <4>3. CASE ~(s < m)
        <5>1. g[s] = s
          BY <1>7, <3>1, <4>3
        <5>2. q[g[s]] = ((z + 1) + s) - 3 * m
          BY <1>20, <3>1, <4>3, <5>1
        <5>3. PICK x \in Int : x = q[g[s]] - b[N + 1]
          BY <1>0, <1>18, <5>2
        <5>4. x = s - c
          BY <1>0, <1>18, <3>1, <5>2, <5>3
        <5>5. x = c * (-1) + s /\ -1 \in Int
          BY <5>4
        <5>6. x % c = s
          BY <3>1, <5>5, ModUnique
        <5> QED BY <5>3, <5>6
      <4> QED BY <4>2, <4>3
    <3>3. \A e \in 0..(c - 1) : g[(q[e] - b[N + 1]) % c] = e
      <4>1. SUFFICES ASSUME NEW e \in 0..(c - 1)
                     PROVE  g[(q[e] - b[N + 1]) % c] = e
        OBVIOUS
      <4>2. CASE e < m
        <5>1. e \in Ring /\ q[e] = p[e] /\ p[e] > z - m /\ p[e] <= z
          BY <1>4, <1>19, <4>2
        <5>2. p[e] \in Int
          BY <1>1, <1>15, <3>1
        <5>3. PICK s \in Int : s = p[e] - ((z - m) + 1)
          BY <1>0, <5>2
        <5>4. s \in 0..(m - 1) /\ s \in 0..(c - 1)
          BY <1>0, <3>1, <5>1, <5>2, <5>3
        <5>5. s % c = s
          BY <3>1, <5>4, ModBelow
        <5>6. g[s] = FromOldest(s)
          BY <1>7, <3>1, <5>4
        <5>7. FromOldest(s) \in Ring /\ p[FromOldest(s)] = p[e]
          <6>1. s \in Ring
            BY <1>4, <5>4
          <6>2. PICK x \in Int : x = p[e]
            BY <5>2
          <6>3. ((z + s) + 1) - m = x
            BY <1>0, <5>3, <6>2
          <6> QED BY <1>6, <6>1, <6>2, <6>3
        <5>8. FromOldest(s) = e
          BY <1>1, <5>1, <5>7, OneEntry
        <5> QED BY <1>18, <5>1, <5>3, <5>5, <5>6, <5>8
      <4>3. CASE ~(e < m)
        <5>1. q[e] = ((z + 1) + e) - 3 * m
          BY <1>20, <3>1, <4>3
        <5>2. PICK x \in Int : x = q[e] - b[N + 1]
          BY <1>0, <1>18, <5>1
        <5>3. x = e - c
          BY <1>0, <1>18, <3>1, <5>1, <5>2
        <5>4. x = c * (-1) + e /\ -1 \in Int
          BY <5>3
        <5>5. x % c = e
          BY <3>1, <5>4, ModUnique
        <5>6. g[e] = e
          BY <1>7, <3>1, <4>3
        <5> QED BY <5>2, <5>5, <5>6
      <4> QED BY <4>2, <4>3
    <3>4. c <= Size' /\ Size' % c = 0
      <4>1. c = c * 1 + 0 /\ 0 \in 0..(c - 1)
        BY <3>1
      <4>2. c % c = 0
        BY <3>1, <4>1, ModUnique
      <4> QED BY <1>14, <3>1, <4>2
    <3>5. (blockIndexes'[N + 1]).capacity = c /\ (blockIndexes'[N + 1]).entry = g
      BY <1>8, <1>13, <3>1
    <3> QED BY <3>2, <3>3, <3>4, <3>5 DEF PlacedIn
  <2>3. \A n \in 1..(N + 1) : n \in 1..N \/ n = N + 1
    BY <1>5
  <2> QED BY <1>13, <2>1, <2>2, <2>3 DEF Placed
<1>26. Window(t, z, q, b)'
  <2>1. \A e \in 0..(2 * m - 1) : q[e] > z - 2 * m /\ q[e] <= z
    <3>1. SUFFICES ASSUME NEW e \in 0..(2 * m - 1)
                   PROVE  q[e] > z - 2 * m /\ q[e] <= z
      OBVIOUS
    <3>2. e \in Entries /\ q[e] \in Int
      BY <1>15, <1>17
    <3>3. CASE e < m
      <4>1. e \in Ring
        BY <1>4, <3>3
      <4>2. q[e] > z - m /\ q[e] <= z
        BY <1>19, <4>1
      <4> QED BY <1>0, <3>2, <4>2
    <3>4. CASE ~(e < m)
      BY <1>0, <1>20, <3>2, <3>4
    <3> QED BY <3>3, <3>4
  <2>2. z - 2 * m <= Top(t)
    BY <1>0, <1>24
  <2>3. (z - b[N + 1]) % (2 * m) = m - 1
    <3>1. PICK c \in Nat, s \in Nat : c = 2 * m /\ c > 0 /\ s = m - 1 /\ s \in 0..(c - 1)
      BY <1>3
    <3>2. z - b[N + 1] = s
      BY <1>0, <1>18, <3>1
    <3> QED BY <3>1, <3>2, ModBelow
  <2>4. (blockIndex').tail = m - 1
    BY <1>8, <1>14
  <2>5. TailNum(t)' = z /\ Latest(t)' = z /\ Len(blockIndexes') = N + 1
    BY <1>6, <1>13, <1>22
  <2> QED BY <1>0, <1>14, <2>1, <2>2, <2>3, <2>4, <2>5 DEF Window
<1>27. Keyed(t, q)'
  <2>1. SUFFICES ASSUME NEW f \in Entries
                 PROVE  /\ value[f] # None => f \in Ring' /\ q[f] <= Latest(t)
                        /\ key[f] # INVALID_BLOCK_BASE =>
                              f \in Ring' /\ key[f] = (q[f] * BlockSize) % Modulus
                        /\ f \in Ring' /\ q[f] > Top(t) => key[f] # INVALID_BLOCK_BASE
                        /\ value[f] # None =>
                              \A e \in Ring' : q[e] >= q[f] => key[e] # INVALID_BLOCK_BASE
    BY <1>10, <1>22 DEF Keyed
  <2>2. Ring \subseteq Ring'
    BY <1>4, <1>14
  <2>3. value[f] # None => f \in Ring' /\ q[f] <= Latest(t)
    BY <1>1, <1>21, <2>2 DEF Keyed
  <2>4. key[f] # INVALID_BLOCK_BASE => f \in Ring' /\ key[f] = (q[f] * BlockSize) % Modulus
    BY <1>1, <1>19, <2>2 DEF Keyed
  <2>5. \A e \in Ring' : q[e] > z - m => e \in Ring
    <3>1. SUFFICES ASSUME NEW e \in Ring', q[e] > z - m
                   PROVE  e \in Ring
      OBVIOUS
    <3>2. e \in 0..(2 * m - 1)
      BY <1>14
    <3>3. q[e] \in Int
      BY <1>15, <1>17, <3>2
    <3>4. ~(e >= m)
      BY <1>0, <1>20, <3>1, <3>2, <3>3
    <3> QED BY <1>4, <3>2, <3>4
  <2>6. f \in Ring' /\ q[f] > Top(t) => key[f] # INVALID_BLOCK_BASE
    <3>1. SUFFICES ASSUME f \in Ring', q[f] > Top(t)
                   PROVE  key[f] # INVALID_BLOCK_BASE
      OBVIOUS
    <3>2. q[f] > z - m
      BY <1>0, <1>17, <1>24, <3>1
    <3>3. f \in Ring /\ p[f] = q[f]
      BY <1>19, <2>5, <3>1, <3>2
    <3> QED BY <1>1, <3>1, <3>3 DEF Keyed
  <2>7. value[f] # None => \A e \in Ring' : q[e] >= q[f] => key[e] # INVALID_BLOCK_BASE
    <3>1. SUFFICES ASSUME value[f] # None, NEW e \in Ring', q[e] >= q[f]
                   PROVE  key[e] # INVALID_BLOCK_BASE
      OBVIOUS
    <3>2. f \in Ring /\ q[f] = p[f] /\ p[f] > z - m
      BY <1>19, <1>21, <3>1
    <3>3. e \in Entries
      BY <1>14, <1>15
    <3>4. q[e] > z - m
      BY <1>0, <1>17, <3>1, <3>2, <3>3
    <3>5. e \in Ring /\ p[e] = q[e]
      BY <1>19, <2>5, <3>4
    <3> QED BY <1>1, <3>1, <3>2, <3>5 DEF Keyed
  <2> QED BY <2>3, <2>4, <2>6, <2>7
<1>28. Called(t)'
  BY <1>1, <1>2, <1>10, <1>13, <1>22 DEF Called, elements
<1>29. Chained(t, q)'
  <2>1. \A f \in Entries : value[f] # None /\ q[f] > Top(t) =>
           /\ q[f] - Top(t) > op.undone /\ value[f] = op.chain[q[f] - Top(t)]
           /\ dequeued[value[f]] = 0
    BY <1>1, <1>21 DEF Chained
  <2>2. \A n \in 1..Len(op.chain) : n > op.undone =>
           \E f \in Entries : q[f] = Top(t) + n /\ value[f] = op.chain[n]
    <3>1. SUFFICES ASSUME NEW n \in 1..Len(op.chain), n > op.undone
                   PROVE  \E f \in Entries : q[f] = Top(t) + n /\ value[f] = op.chain[n]
      OBVIOUS
    <3>2. PICK f \in Entries : p[f] = Top(t) + n /\ value[f] = op.chain[n]
      BY <1>1, <3>1 DEF Chained
    <3>3. value[f] # None
      <4>1. op.chain[n] \in Blocks
        <5>1. op.chain \in Seq(Blocks)
          BY <1>1, LatestIs
        <5> QED BY <5>1
      <4> QED BY <3>2, <4>1, ImplicitProducerAssumption
    <3> QED BY <1>21, <3>2, <3>3
  <2> QED BY <1>10, <2>1, <2>2 DEF Chained
<1>30. TailIs(t, q)'
  <2>1. TailIs(t, p)
    BY InvParts
  <2> QED BY <1>10, <1>21, <2>1 DEF TailIs, elements
<1>31. Owned'
  <2>1. Owned
    BY InvParts
  <2> QED BY <1>10, <2>1 DEF Owned
<1>32. Counters(t, h)' /\ Numbers(t, h, z, q, b, i, u)'
  <2>1. Counters(t, h) /\ Numbers(t, h, z, p, d, i, u)
    BY InvParts
  <2> QED BY <1>10, <1>17, <1>18, <2>1 DEF Counters, Numbers, elements
<1>33. ConsumerInv(t, h, q, i, u)'
  <2>1. /\ h \in Nat /\ h <= t /\ i \in [Consumers -> Int] /\ u \in SUBSET Int
        /\ ConsumerInv(t, h, p, i, u)
    BY InvParts
  <2>2. UNCHANGED <<slot, pc, index, count, held, at>>
    BY <1>10 DEF elements, consumers
  <2>3. \A f \in Entries :
           /\ value[f] # None /\ p[f] <= Top(t) =>
                 value'[f] = value[f] /\ q[f] = p[f] /\ dequeued'[value[f]] = dequeued[value[f]]
           /\ value'[f] # None /\ q[f] <= Top(t) => value[f] # None /\ p[f] <= Top(t)
           /\ key[f] # INVALID_BLOCK_BASE => key'[f] # INVALID_BLOCK_BASE
    BY <1>10, <1>21
  <2>4. \A n \in 1..Len(blockIndexes) :
           /\ n \in 1..Len(blockIndexes')
           /\ (blockIndexes'[n]).capacity = blockIndexes[n].capacity
           /\ (blockIndexes'[n]).entry = blockIndexes[n].entry
    BY <1>5, <1>13
  <2> QED BY <1>1, <1>17, <2>1, <2>2, <2>3, <2>4, Unseen
<1> QED BY <1>23, <1>25, <1>26, <1>27, <1>28, <1>29, <1>30, <1>31, <1>32, <1>33
        DEF Inv, ProducerInv

-------------------------------------------------------------------------------
(* The entry at the tail of the index. *)
LEMMA TailEntry ==
    ASSUME NEW t, NEW h, NEW z, NEW p, NEW d, NEW i, NEW u, Inv(t, h, z, p, d, i, u),
           blockIndexes # <<>>, TailNum(t) > z - Size
    PROVE  /\ blockIndex.entry[blockIndex.tail] \in Ring
           /\ p[blockIndex.entry[blockIndex.tail]] = TailNum(t)
<1>1. /\ t \in Nat /\ z \in Int /\ p \in [Entries -> Int] /\ d \in [Nat -> Int] /\ TypeOK
      /\ Placed(p, d) /\ Window(t, z, p, d)
  BY InvParts
<1>2. PICK x \in Int : x = TailNum(t)
  BY <1>1, LatestIs
<1>3. x <= z /\ blockIndex.tail = (x - d[Len(blockIndexes)]) % Size
  BY <1>1, <1>2 DEF Window
<1>4. LET s == (x - d[Len(blockIndexes)]) % Size
      IN  blockIndex.entry[s] \in Ring /\ p[blockIndex.entry[s]] = x
  BY <1>1, <1>2, <1>3, EntryFor
<1> QED BY <1>2, <1>3, <1>4

LEMMA RequisitionKeeps ==
    ASSUME NEW t, NEW h, NEW z, NEW p, NEW d, NEW i, NEW u, Inv(t, h, z, p, d, i, u),
           NEW b \in Blocks, Requisition(b)
    PROVE  Inv(t, h, z, p, d, i, u)'
<1>1. /\ t \in Nat /\ z \in Int /\ p \in [Entries -> Int] /\ d \in [Nat -> Int] /\ TypeOK
      /\ Placed(p, d) /\ Window(t, z, p, d) /\ Keyed(t, p) /\ Called(t) /\ Chained(t, p)
      /\ TailIs(t, p) /\ Owned
  BY InvParts
<1>0. z \in Int
  BY <1>1
<1>2. op.step = "take" /\ b \in free /\ free' = free \ {b}
  BY DEF Requisition
<1>3. op.left > 0 /\ blockIndexes # <<>> /\ op.undone = 0
  BY <1>1, <1>2 DEF Called
<1>4. PICK l \in Int, k \in Int, n \in Nat :
         l = Latest(t) /\ k = Top(t) /\ n = Len(op.chain) /\ l = k + n
  BY <1>1, LatestIs, TopIs
<1>5. TailNum(t) = l + 1
  <2>1. TailNum(t) = (l - op.undone) + 1
    BY <1>1, <1>2, <1>4, LatestIs
  <2> QED BY <1>3, <1>4, <2>1
<1>6. PICK e : e = blockIndex.entry[blockIndex.tail]
  OBVIOUS
<1>7. e \in Ring /\ e \in Entries /\ p[e] = l + 1
  <2>1. PICK m \in Nat : m = Size
    BY <1>1, <1>3, CurrentIs
  <2>2. z - m <= k
    BY <1>1, <1>3, <1>4, <2>1 DEF Window
  <2>3. TailNum(t) > z - Size
    BY <1>0, <1>4, <1>5, <2>1, <2>2
  <2>4. Ring \subseteq Entries
    BY <1>1, <1>3, CurrentIs
  <2> QED BY <1>3, <1>5, <1>6, <2>3, <2>4, TailEntry
<1>8. value[e] = None
  <2>1. value[e] # None => p[e] <= l
    BY <1>1, <1>4, <1>7 DEF Keyed
  <2> QED BY <1>4, <1>7, <2>1
<1>9. b # None
  BY ImplicitProducerAssumption
<1>10. value' = [value EXCEPT ![e] = b] /\ dequeued' = [dequeued EXCEPT ![b] = 0]
  BY <1>6 DEF Requisition, reset_empty
<1>11. UNCHANGED <<elements, blockIndexes, key, consumers>>
  BY DEF Requisition
<1>12. op \in [kind : {"none", "enqueue", "bulk"}, step : {"none", "insert", "take", "undo"},
               count : Nat, left : Int, base : Index, linked : Blocks \union {None},
               chain : Seq(Blocks), undone : Nat]
  BY <1>1 DEF TypeOK
<1>13. op' = [op EXCEPT !.step = "insert", !.left = op.left - 1, !.base = NextBase,
                        !.linked = Linked(b), !.chain = Append(op.chain, b)]
  BY DEF Requisition
<1>14. /\ op'.step = "insert" /\ op'.left = op.left - 1 /\ op'.base = NextBase
       /\ op'.linked = Linked(b) /\ op'.chain = Append(op.chain, b)
       /\ op'.count = op.count /\ op'.undone = op.undone
  BY <1>12, <1>13
<1>15. op'.chain \in Seq(Blocks) /\ Len(op'.chain) = n + 1 /\ op'.chain[n + 1] = b
       /\ \A x \in 1..n : op'.chain[x] = op.chain[x]
  BY <1>4, <1>12, <1>14, AppendProperties
<1>16. NextBase = ((l + 1) * BlockSize) % Modulus /\ NextBase \in Index
  <2>1. NextBase = ((Latest(t) + 1) * BlockSize) % Modulus
    BY <1>1, <1>2, NextBaseIs
  <2>2. l + 1 \in Int
    OBVIOUS
  <2> QED BY <1>4, <2>1, <2>2, KeyIs
<1>17. Linked(b) \in Blocks \union {None} /\
       (Linked(b) # None => t % BlockSize # 0 /\ Linked(b) = tailBlock)
  <2>1. tailIndex % BlockSize = t % BlockSize
    <3>1. tailIndex = t % Modulus
      BY InvParts
    <3> QED BY <1>1, <3>1, Wrapped
  <2>2. tailBlock \in Blocks \union {None} /\ op.linked \in Blocks \union {None}
    BY <1>1, <1>12 DEF TypeOK
  <2>3. op.linked # None => t % BlockSize # 0 /\ op.linked = tailBlock
    BY <1>1 DEF Called
  <2> QED BY <2>1, <2>2, <2>3 DEF Linked
<1>18. TypeOK'
  <2>1. op' \in [kind : {"none", "enqueue", "bulk"}, step : {"none", "insert", "take", "undo"},
                 count : Nat, left : Int, base : Index, linked : Blocks \union {None},
                 chain : Seq(Blocks), undone : Nat]
    <3>1. op.left - 1 \in Int /\ "insert" \in {"none", "insert", "take", "undo"}
      BY <1>12
    <3>2. Append(op.chain, b) \in Seq(Blocks)
      BY <1>14, <1>15
    <3>3. NextBase \in Index /\ Linked(b) \in Blocks \union {None}
      BY <1>16, <1>17
    <3> QED BY <1>12, <1>13, <3>1, <3>2, <3>3
  <2>2. value' \in [Entries -> Blocks \union {None}] /\ dequeued' \in [Blocks -> Nat]
    BY <1>1, <1>7, <1>10 DEF TypeOK
  <2>3. free' \in SUBSET Blocks
    BY <1>1, <1>2 DEF TypeOK
  <2> QED BY <1>1, <1>11, <2>1, <2>2, <2>3 DEF TypeOK, elements, consumers
<1>19. value'[e] = b /\ \A f \in Entries : f # e => value'[f] = value[f]
  BY <1>1, <1>7, <1>10 DEF TypeOK
<1>20. dequeued'[b] = 0 /\ \A c \in Blocks : c # b => dequeued'[c] = dequeued[c]
  BY <1>1, <1>10 DEF TypeOK
<1>21. \A f \in Entries : value[f] # b
  BY <1>1, <1>2 DEF Owned
<1>22. Latest(t)' = l + 1 /\ TailNum(t)' = l + 1
  <2>1. Latest(t)' = k + (n + 1)
    BY <1>4, <1>15 DEF Latest
  <2>2. TailNum(t)' = (Latest(t)' - 0) + 0
    BY <1>3, <1>14 DEF TailNum
  <2>3. Latest(t)' = l + 1
    BY <1>4, <2>1
  <2> QED BY <1>4, <2>2, <2>3
<1>23. Size' = Size /\ Ring' = Ring /\ blockIndex' = blockIndex
  BY <1>11 DEF Size, Ring, blockIndex
<1>24. Placed(p, d)'
  BY <1>1, <1>11, <1>23 DEF Placed, PlacedIn
<1>25. Window(t, z, p, d)'
  BY <1>1, <1>5, <1>11, <1>22, <1>23 DEF Window
<1>26. Keyed(t, p)'
  <2>1. SUFFICES ASSUME NEW f \in Entries
                 PROVE  /\ value'[f] # None => f \in Ring /\ p[f] <= l + 1
                        /\ key[f] # INVALID_BLOCK_BASE =>
                              f \in Ring /\ key[f] = (p[f] * BlockSize) % Modulus
                        /\ f \in Ring /\ p[f] > Top(t) => key[f] # INVALID_BLOCK_BASE
                        /\ value'[f] # None =>
                              \A g \in Ring : p[g] >= p[f] => key[g] # INVALID_BLOCK_BASE
    BY <1>11, <1>22, <1>23 DEF Keyed
  <2>2. value'[f] # None => f \in Ring /\ p[f] <= l + 1
    <3>1. CASE f = e
      BY <1>4, <1>7, <3>1
    <3>2. CASE f # e
      <4>1. value[f] # None => f \in Ring /\ p[f] <= l
        BY <1>1, <1>4 DEF Keyed
      <4>2. PICK x \in Int : x = p[f]
        BY <1>1
      <4> QED BY <1>4, <1>19, <3>2, <4>1, <4>2
    <3> QED BY <3>1, <3>2
  <2>3. ASSUME value'[f] # None, NEW g \in Ring, p[g] >= p[f]
        PROVE  key[g] # INVALID_BLOCK_BASE
    <3>1. CASE f = e
      <4>1. g \in Entries
        BY <1>1, <1>3, CurrentIs
      <4>2. PICK x \in Int : x = p[g]
        BY <1>1, <4>1
      <4>3. x > k
        BY <1>4, <1>7, <2>3, <3>1, <4>2
      <4> QED BY <1>1, <1>4, <4>1, <4>2, <4>3 DEF Keyed
    <3>2. CASE f # e
      <4>1. value[f] # None
        BY <1>19, <2>3, <3>2
      <4> QED BY <1>1, <2>3, <4>1 DEF Keyed
    <3> QED BY <3>1, <3>2
  <2> QED BY <1>1, <2>2, <2>3 DEF Keyed
<1>27. Called(t)'
  <2>1. op.base = (l * BlockSize) % Modulus /\ l + op.left = Num((t + op.count) - 1)
        /\ op.count > 0
    BY <1>1, <1>2, <1>4 DEF Called
  <2>2. PICK x \in Int : x = op.left
    BY <1>12
  <2>3. (l + 1) + (x - 1) = Num((t + op.count) - 1) /\ x - 1 >= 0
    BY <1>3, <2>1, <2>2
  <2>4. op'.left = x - 1
    BY <1>14, <2>2
  <2>5. op'.undone <= Len(op'.chain)
    BY <1>3, <1>4, <1>14, <1>15
  <2> QED BY <1>3, <1>11, <1>14, <1>16, <1>17, <1>22, <2>1, <2>3, <2>4, <2>5 DEF Called, elements
<1>28. Chained(t, p)'
  <2>1. ASSUME NEW f \in Entries, value'[f] # None, p[f] > k
        PROVE  /\ p[f] - k > 0 /\ value'[f] = op'.chain[p[f] - k] /\ dequeued'[value'[f]] = 0
    <3>1. CASE f = e
      <4>1. p[f] - k = n + 1
        BY <1>4, <1>7, <3>1
      <4> QED BY <1>4, <1>15, <1>19, <1>20, <3>1, <4>1
    <3>2. CASE f # e
      <4>1. value'[f] = value[f] /\ value[f] # None
        BY <1>19, <2>1, <3>2
      <4>2. /\ p[f] - k > 0 /\ value[f] = op.chain[p[f] - k] /\ dequeued[value[f]] = 0
        BY <1>1, <1>3, <1>4, <2>1, <4>1 DEF Chained
      <4>3. PICK x \in Int : x = p[f]
        BY <1>1
      <4>4. x <= l
        BY <1>1, <1>4, <4>1, <4>3 DEF Keyed
      <4>5. x - k \in 1..n
        BY <1>4, <4>2, <4>3, <4>4
      <4>6. op'.chain[x - k] = op.chain[x - k]
        BY <1>15, <4>5
      <4>7. value[f] \in Blocks
        BY <1>1, <4>1 DEF TypeOK
      <4>8. dequeued'[value[f]] = 0
        BY <1>20, <4>2, <4>7
      <4> QED BY <4>1, <4>2, <4>3, <4>6, <4>8
    <3> QED BY <3>1, <3>2
  <2>2. ASSUME NEW x \in 1..(n + 1)
        PROVE  \E f \in Entries : p[f] = k + x /\ value'[f] = op'.chain[x]
    <3>1. CASE x = n + 1
      <4>1. p[e] = k + x
        BY <1>4, <1>7, <3>1
      <4> QED BY <1>7, <1>15, <1>19, <3>1, <4>1
    <3>2. CASE x # n + 1
      <4>1. x \in 1..n /\ x > 0
        BY <3>2
      <4>2. PICK f \in Entries : p[f] = k + x /\ value[f] = op.chain[x]
        BY <1>1, <1>3, <1>4, <4>1 DEF Chained
      <4>3. f # e
        BY <1>4, <1>7, <4>1, <4>2
      <4> QED BY <1>15, <1>19, <4>1, <4>2, <4>3
    <3> QED BY <3>1, <3>2
  <2> QED BY <1>3, <1>4, <1>14, <1>15, <2>1, <2>2 DEF Chained
<1>29. \A f \in Entries : p[f] <= k => value'[f] = value[f]
  BY <1>4, <1>7, <1>19
<1>30. TailIs(t, p)'
  <2>1. \A f \in Entries : p[f] = k => value'[f] = value[f]
    <3>1. k <= k
      OBVIOUS
    <3> QED BY <1>29, <3>1
  <2> QED BY <1>1, <1>4, <1>11, <2>1 DEF TailIs, elements
<1>31. Owned'
  <2>1. \A f \in Entries, g \in Entries : value'[f] # None /\ value'[f] = value'[g] => f = g
    BY <1>1, <1>9, <1>19, <1>21 DEF Owned
  <2>2. \A f \in Entries : value'[f] \notin free'
    BY <1>1, <1>2, <1>19 DEF Owned
  <2>3. 1..op'.undone = {}
    BY <1>3, <1>14
  <2>4. \A c \in Blocks : c \in free' \/ \E f \in Entries : value'[f] = c
    <3>1. SUFFICES ASSUME NEW c \in Blocks, c \notin free'
                   PROVE  \E f \in Entries : value'[f] = c
      OBVIOUS
    <3>2. CASE c = b
      BY <1>7, <1>19, <3>2
    <3>3. CASE c # b
      <4>1. c \notin free
        BY <1>2, <3>1, <3>3
      <4>2. 1..op.undone = {}
        BY <1>3
      <4>3. PICK f \in Entries : value[f] = c
        BY <1>1, <4>1, <4>2 DEF Owned
      <4>4. f # e
        BY <1>8, <4>3, ImplicitProducerAssumption
      <4> QED BY <1>19, <4>3, <4>4
    <3> QED BY <3>2, <3>3
  <2> QED BY <2>1, <2>2, <2>3, <2>4 DEF Owned
<1>32. Counters(t, h)' /\ Numbers(t, h, z, p, d, i, u)'
  <2>1. Counters(t, h) /\ Numbers(t, h, z, p, d, i, u)
    BY InvParts
  <2> QED BY <1>11, <2>1 DEF Counters, Numbers, elements
<1>33. ConsumerInv(t, h, p, i, u)'
  <2>1. /\ h \in Nat /\ h <= t /\ i \in [Consumers -> Int] /\ u \in SUBSET Int
        /\ ConsumerInv(t, h, p, i, u)
    BY InvParts
  <2>2. UNCHANGED <<slot, pc, index, count, held, at>>
    BY <1>11 DEF elements, consumers
  <2>3. \A f \in Entries : value[f] # None => dequeued'[value[f]] = dequeued[value[f]]
    BY <1>1, <1>20, <1>21 DEF TypeOK
  <2>4. \A f \in Entries :
           /\ value[f] # None /\ p[f] <= Top(t) =>
                 value'[f] = value[f] /\ p[f] = p[f] /\ dequeued'[value[f]] = dequeued[value[f]]
           /\ value'[f] # None /\ p[f] <= Top(t) => value[f] # None /\ p[f] <= Top(t)
           /\ key[f] # INVALID_BLOCK_BASE => key'[f] # INVALID_BLOCK_BASE
    BY <1>4, <1>11, <1>29, <2>3
  <2>5. \A x \in 1..Len(blockIndexes) :
           /\ x \in 1..Len(blockIndexes')
           /\ (blockIndexes'[x]).capacity = blockIndexes[x].capacity
           /\ (blockIndexes'[x]).entry = blockIndexes[x].entry
    BY <1>11
  <2> QED BY <1>1, <2>1, <2>2, <2>4, <2>5, Unseen
<1> QED BY <1>18, <1>24, <1>25, <1>26, <1>27, <1>28, <1>30, <1>31, <1>32, <1>33
        DEF Inv, ProducerInv

LEMMA Rewinding ==
    ASSUME NEW t, NEW h, NEW z, NEW p, NEW d, NEW i, NEW u, Inv(t, h, z, p, d, i, u),
           blockIndexes # <<>>, blockIndexes' = Rewound,
           Latest(t)' = Latest(t), TailNum(t)' = TailNum(t) - 1
    PROVE  /\ blockIndexes' \in Seq(Headers) /\ blockIndexes' # <<>> /\ Ring' = Ring
           /\ \A n \in 1..Len(blockIndexes) :
                 /\ n \in 1..Len(blockIndexes')
                 /\ (blockIndexes'[n]).capacity = blockIndexes[n].capacity
                 /\ (blockIndexes'[n]).entry = blockIndexes[n].entry
           /\ Placed(p, d)' /\ Window(t, z, p, d)'
<1>1. /\ t \in Nat /\ z \in Int /\ p \in [Entries -> Int] /\ d \in [Nat -> Int] /\ TypeOK
      /\ Placed(p, d) /\ Window(t, z, p, d)
  BY InvParts
<1>2. PICK x, s : x \in Int /\ x = TailNum(t) /\ s = SlotBy(blockIndex, -1)
  BY <1>1, LatestIs
<1>3. s = ((x - 1) - d[Len(blockIndexes)]) % Size /\ s \in Ring
  <2>1. \A k \in Int : /\ SlotBy(blockIndex, k) = ((TailNum(t) + k) - d[Len(blockIndexes)]) % Size
                       /\ SlotBy(blockIndex, k) \in Ring
    BY <1>1, SlotByIs
  <2>2. -1 \in Int /\ x + (-1) = x - 1
    BY <1>2
  <2>3. SlotBy(blockIndex, -1) = ((x + (-1)) - d[Len(blockIndexes)]) % Size
        /\ SlotBy(blockIndex, -1) \in Ring
    BY <1>2, <2>1, <2>2
  <2> QED BY <1>2, <2>2, <2>3
<1>4. blockIndexes' = [blockIndexes EXCEPT ![Len(blockIndexes)].tail = s]
  BY <1>2 DEF Rewound
<1>5. /\ blockIndexes' \in Seq(Headers) /\ blockIndexes' # <<>>
      /\ Len(blockIndexes') = Len(blockIndexes)
      /\ \A n \in 1..Len(blockIndexes) :
            /\ (blockIndexes'[n]).capacity = blockIndexes[n].capacity
            /\ (blockIndexes'[n]).entry = blockIndexes[n].entry
      /\ (blockIndex').tail = s /\ Size' = Size /\ Ring' = Ring
  BY <1>1, <1>3, <1>4, TailMoved
<1>6. Placed(p, d)'
  BY <1>1, <1>5 DEF Placed, PlacedIn
<1>7. Window(t, z, p, d)'
  <2>1. /\ \A e \in Ring : p[e] > z - Size /\ p[e] <= z
        /\ z - Size <= Top(t) /\ x <= z /\ Latest(t) <= z
    BY <1>1, <1>2 DEF Window
  <2>2. x - 1 <= z
    <3>1. PICK w \in Int, y \in Int : w = x /\ y = z /\ w <= y
      BY <1>1, <1>2, <2>1
    <3> QED BY <3>1
  <2>3. TailNum(t)' = x - 1
    BY <1>2
  <2> QED BY <1>3, <1>5, <2>1, <2>2, <2>3 DEF Window
<1> QED BY <1>5, <1>6, <1>7

LEMMA FailToTakeKeeps ==
    ASSUME NEW t, NEW h, NEW z, NEW p, NEW d, NEW i, NEW u, Inv(t, h, z, p, d, i, u), FailToTake
    PROVE  Inv(t, h, z, p, d, i, u)'
<1>1. /\ t \in Nat /\ z \in Int /\ p \in [Entries -> Int] /\ d \in [Nat -> Int] /\ TypeOK
      /\ Window(t, z, p, d) /\ Keyed(t, p) /\ Called(t) /\ Chained(t, p) /\ TailIs(t, p) /\ Owned
  BY InvParts
<1>0. z \in Int
  BY <1>1
<1>2. op.step = "take" /\ blockIndexes' = Rewound
  BY DEF FailToTake
<1>3. blockIndexes # <<>> /\ op.undone = 0
  BY <1>1, <1>2 DEF Called
<1>4. PICK l \in Int, k \in Int, n \in Nat :
         l = Latest(t) /\ k = Top(t) /\ n = Len(op.chain) /\ l = k + n
  BY <1>1, LatestIs, TopIs
<1>5. TailNum(t) = l + 1
  <2>1. TailNum(t) = (l - op.undone) + 1
    BY <1>1, <1>2, <1>4, LatestIs
  <2> QED BY <1>3, <1>4, <2>1
<1>6. UNCHANGED <<elements, dequeued, free, key, consumers>>
  BY DEF FailToTake
<1>7. value' = value
  <2>1. PICK e : e = blockIndex.entry[blockIndex.tail]
    OBVIOUS
  <2>2. e \in Ring /\ p[e] = l + 1
    <3>1. PICK m \in Nat : m = Size
      BY <1>1, <1>3, CurrentIs
    <3>2. z - m <= k
      BY <1>1, <1>3, <1>4, <3>1 DEF Window
    <3>3. TailNum(t) > z - Size
      BY <1>0, <1>4, <1>5, <3>1, <3>2
    <3> QED BY <1>3, <1>5, <2>1, <3>3, TailEntry
  <2>3. e \in Entries
    BY <1>1, <1>3, <2>2, CurrentIs
  <2>4. value[e] # None => p[e] <= l
    BY <1>1, <1>4, <2>3 DEF Keyed
  <2>5. value[e] = None
    BY <1>4, <2>2, <2>4
  <2>6. value' = [value EXCEPT ![e] = None] /\ value \in [Entries -> Blocks \union {None}]
    BY <1>1, <2>1 DEF FailToTake, TypeOK
  <2> QED BY <2>3, <2>5, <2>6
<1>8. op \in [kind : {"none", "enqueue", "bulk"}, step : {"none", "insert", "take", "undo"},
              count : Nat, left : Int, base : Index, linked : Blocks \union {None},
              chain : Seq(Blocks), undone : Nat]
  BY <1>1 DEF TypeOK
<1>9. NoCall \in [kind : {"none", "enqueue", "bulk"}, step : {"none", "insert", "take", "undo"},
                  count : Nat, left : Int, base : Index, linked : Blocks \union {None},
                  chain : Seq(Blocks), undone : Nat]
  <2>1. <<>> \in Seq(Blocks) /\ 0 \in Index
    BY EmptySeq, Sizes DEF Index
  <2> QED BY <2>1 DEF NoCall
<1>10. op' = IF op.chain = <<>> THEN NoCall ELSE [op EXCEPT !.step = "undo"]
  BY DEF FailToTake
<1>11. op'.chain = op.chain /\ op'.undone = op.undone /\ op'.step # "take"
  BY <1>3, <1>8, <1>10 DEF NoCall
<1>12. Latest(t)' = l /\ TailNum(t)' = l
  <2>1. Latest(t)' = l
    BY <1>4, <1>11 DEF Latest
  <2>2. TailNum(t)' = (l - 0) + 0
    BY <1>3, <1>11, <2>1 DEF TailNum
  <2> QED BY <1>4, <2>1, <2>2
<1>13. /\ blockIndexes' \in Seq(Headers) /\ blockIndexes' # <<>> /\ Ring' = Ring
       /\ \A x \in 1..Len(blockIndexes) :
             /\ x \in 1..Len(blockIndexes')
             /\ (blockIndexes'[x]).capacity = blockIndexes[x].capacity
             /\ (blockIndexes'[x]).entry = blockIndexes[x].entry
       /\ Placed(p, d)' /\ Window(t, z, p, d)'
  <2>1. TailNum(t)' = TailNum(t) - 1
    BY <1>4, <1>5, <1>12
  <2> QED BY <1>2, <1>3, <1>4, <1>12, <2>1, Rewinding
<1>14. TypeOK'
  <2>1. op' \in [kind : {"none", "enqueue", "bulk"}, step : {"none", "insert", "take", "undo"},
                 count : Nat, left : Int, base : Index, linked : Blocks \union {None},
                 chain : Seq(Blocks), undone : Nat]
    BY <1>8, <1>9, <1>10
  <2> QED BY <1>1, <1>6, <1>7, <1>13, <2>1 DEF TypeOK, elements, consumers
<1>15. Keyed(t, p)'
  BY <1>1, <1>4, <1>6, <1>7, <1>12, <1>13 DEF Keyed
<1>16. Called(t)'
  <2>1. CASE op.chain = <<>>
    <3>1. op' = NoCall
      BY <1>10, <2>1
    <3>2. Len(op'.chain) = 0
      BY <3>1 DEF NoCall
    <3> QED BY <3>1, <3>2 DEF Called, NoCall
  <2>2. CASE op.chain # <<>>
    <3>1. op'.step = "undo" /\ op'.linked = op.linked
      BY <1>8, <1>10, <2>2
    <3> QED BY <1>1, <1>6, <1>11, <1>13, <2>2, <3>1 DEF Called, elements
  <2> QED BY <2>1, <2>2
<1>17. Chained(t, p)' /\ TailIs(t, p)' /\ Owned'
  BY <1>1, <1>6, <1>7, <1>11 DEF Chained, TailIs, Owned, elements
<1>18. Counters(t, h)' /\ Numbers(t, h, z, p, d, i, u)'
  <2>1. Counters(t, h) /\ Numbers(t, h, z, p, d, i, u)
    BY InvParts
  <2> QED BY <1>6, <2>1 DEF Counters, Numbers, elements
<1>19. ConsumerInv(t, h, p, i, u)'
  <2>1. /\ h \in Nat /\ h <= t /\ i \in [Consumers -> Int] /\ u \in SUBSET Int
        /\ ConsumerInv(t, h, p, i, u)
    BY InvParts
  <2>2. UNCHANGED <<slot, dequeued, key, value, pc, index, count, held, at>>
    BY <1>6, <1>7 DEF elements, consumers
  <2> QED BY <1>1, <1>13, <2>1, <2>2, Unseen
<1> QED BY <1>13, <1>14, <1>15, <1>16, <1>17, <1>18, <1>19 DEF Inv, ProducerInv

(* The entry that is taken back is found from the tail. *)
LEMMA EntryTakenBack ==
    ASSUME NEW t, NEW h, NEW z, NEW p, NEW d, NEW i, NEW u, Inv(t, h, z, p, d, i, u),
           op.step = "undo", op.undone < Len(op.chain)
    PROVE  LET e == EntryOf(Add(BaseOf(Subtract(tailIndex, 1)), (op.undone + 1) * BlockSize))
           IN  /\ blockIndexes # <<>> /\ e \in Ring /\ p[e] = (Top(t) + op.undone) + 1
               /\ value[e] = op.chain[op.undone + 1] /\ value[e] \in Blocks
<1>1. /\ t \in Nat /\ z \in Int /\ p \in [Entries -> Int] /\ d \in [Nat -> Int] /\ TypeOK
      /\ Placed(p, d) /\ Window(t, z, p, d) /\ Keyed(t, p) /\ Called(t) /\ Chained(t, p)
      /\ tailIndex = t % Modulus
  BY InvParts
<1>0. z \in Int
  BY <1>1
<1>2. PICK l \in Int, k \in Int, n \in Nat, w \in Nat :
         l = Latest(t) /\ k = Top(t) /\ n = Len(op.chain) /\ l = k + n /\ w = op.undone
  BY <1>1, LatestIs, TopIs
<1>3. blockIndexes # <<>>
  BY <1>1 DEF Called
<1>4. TailNum(t) = l - w
  BY <1>1, <1>2, LatestIs
<1>5. PICK f : f = blockIndex.entry[blockIndex.tail]
  OBVIOUS
<1>6. f \in Ring /\ p[f] = l - w
  <2>1. PICK m \in Nat : m = Size
    BY <1>1, <1>3, CurrentIs
  <2>2. z - m <= k
    BY <1>1, <1>2, <1>3, <2>1 DEF Window
  <2>3. TailNum(t) > z - Size
    BY <1>0, <1>2, <1>4, <2>1, <2>2
  <2> QED BY <1>3, <1>4, <1>5, <2>3, TailEntry
<1>7. key[f] # INVALID_BLOCK_BASE
  <2>1. f \in Entries
    BY <1>1, <1>3, <1>6, CurrentIs
  <2>2. p[f] > k
    BY <1>2, <1>6
  <2> QED BY <1>1, <1>2, <1>6, <2>1, <2>2 DEF Keyed
<1>8. PICK e \in Entries : p[e] = k + (w + 1) /\ value[e] = op.chain[w + 1]
  <2>1. w + 1 \in 1..Len(op.chain) /\ w + 1 > op.undone
    BY <1>2
  <2> QED BY <1>1, <1>2, <2>1 DEF Chained
<1>9. value[e] \in Blocks /\ value[e] # None
  <2>1. w + 1 \in 1..Len(op.chain)
    BY <1>2
  <2>2. op.chain[w + 1] \in Blocks
    <3>1. op.chain \in Seq(Blocks)
      BY <1>1, LatestIs
    <3> QED BY <2>1, <3>1
  <2> QED BY <1>8, <2>2, ImplicitProducerAssumption
<1>10. e \in Ring
  BY <1>1, <1>9 DEF Keyed
<1>11. PICK x \in Int, y \in Int : x = (k + (w + 1)) * BlockSize /\ y = (w + 1) * BlockSize
  BY Sizes
<1>12. Num(x) = k + (w + 1)
  <2>1. 0 \in Offsets /\ BlockSize \in Nat
    BY Sizes DEF Offsets
  <2>2. PICK q \in Int : q = k + (w + 1)
    OBVIOUS
  <2>3. Num(q * BlockSize + 0) = q
    BY <2>1, NumIs
  <2>4. q * BlockSize + 0 = x
    BY <1>11, <2>1, <2>2
  <2> QED BY <2>2, <2>3, <2>4
<1>13. Add(BaseOf(Subtract(tailIndex, 1)), (op.undone + 1) * BlockSize) = x % Modulus
  <2>1. Subtract(tailIndex, 1) = (t - 1) % Modulus
    BY <1>1, Wrapped
  <2>2. PICK v \in Int : v = k * BlockSize
    BY Sizes
  <2>3. BaseOf((t - 1) % Modulus) = v % Modulus
    <3>1. t - 1 \in Int
      BY <1>1
    <3> QED BY <1>2, <2>2, <3>1, BaseIs DEF Top
  <2>4. Add(v % Modulus, y) = (v + y) % Modulus
    BY Wrapped
  <2>5. v + y = x
    BY <1>11, <2>2, Sizes
  <2> QED BY <1>2, <1>11, <2>1, <2>3, <2>4, <2>5
<1>14. EntryOf(x % Modulus) = e
  <2>1. /\ Len(blockIndexes) \in 1..Len(blockIndexes) /\ Size = blockIndex.capacity
        /\ blockIndex.tail \in Ring
    BY <1>1, <1>3, CurrentIs
  <2>2. PICK N \in 1..Len(blockIndexes) : N = Len(blockIndexes)
    BY <2>1
  <2>3. blockIndex = blockIndexes[N]
    BY <2>2 DEF blockIndex
  <2>4. /\ blockIndex.tail \in 0..(blockIndexes[N].capacity - 1)
        /\ e \in 0..(blockIndexes[N].capacity - 1)
    BY <1>10, <2>1, <2>3 DEF Ring
  <2>5. key[blockIndexes[N].entry[blockIndex.tail]] # INVALID_BLOCK_BASE
    BY <1>5, <1>7, <2>3
  <2>6. p[e] = Num(x)
    BY <1>8, <1>12
  <2>7. PICK s : s = blockIndex.tail
    OBVIOUS
  <2>8. blockIndexes[N].entry[SlotFrom(blockIndexes[N], s, x % Modulus)] = e
    <3>1. s \in 0..(blockIndexes[N].capacity - 1)
      BY <2>4, <2>7
    <3>2. key[blockIndexes[N].entry[s]] # INVALID_BLOCK_BASE
      BY <2>5, <2>7
    <3>3. e \in 0..(blockIndexes[N].capacity - 1)
      BY <2>4
    <3>4. Placed(p, d) /\ Window(t, z, p, d) /\ Keyed(t, p)
      BY <1>1
    <3>5. z \in Int /\ p \in [Entries -> Int] /\ d \in [Nat -> Int] /\ TypeOK
      BY <1>1
    <3> QED BY <2>6, <3>1, <3>2, <3>3, Lookup
  <2> QED BY <2>3, <2>7, <2>8 DEF EntryOf
<1>15. p[e] = (k + w) + 1
  BY <1>8
<1> QED BY <1>2, <1>3, <1>8, <1>9, <1>10, <1>13, <1>14, <1>15

LEMMA UndoKeeps ==
    ASSUME NEW t, NEW h, NEW z, NEW p, NEW d, NEW i, NEW u, Inv(t, h, z, p, d, i, u), Undo
    PROVE  Inv(t, h, z, p, d, i, u)'
<1>1. /\ t \in Nat /\ z \in Int /\ p \in [Entries -> Int] /\ d \in [Nat -> Int] /\ TypeOK
      /\ Placed(p, d) /\ Window(t, z, p, d) /\ Keyed(t, p) /\ Called(t) /\ Chained(t, p)
      /\ TailIs(t, p) /\ Owned
  BY InvParts
<1>2. op.step = "undo" /\ op.undone < Len(op.chain) /\ blockIndexes' = Rewound
  BY DEF Undo
<1>3. PICK e : e = EntryOf(Add(BaseOf(Subtract(tailIndex, 1)), (op.undone + 1) * BlockSize))
  OBVIOUS
<1>4. PICK l \in Int, k \in Int, n \in Nat, w \in Nat :
         l = Latest(t) /\ k = Top(t) /\ n = Len(op.chain) /\ l = k + n /\ w = op.undone
  BY <1>1, LatestIs, TopIs
<1>5. /\ blockIndexes # <<>> /\ e \in Ring /\ p[e] = (k + w) + 1
      /\ value[e] = op.chain[w + 1] /\ value[e] \in Blocks
  BY <1>2, <1>3, <1>4, EntryTakenBack
<1>6. e \in Entries
  BY <1>1, <1>5, CurrentIs
<1>7. value' = [value EXCEPT ![e] = None]
  BY <1>3 DEF Undo
<1>8. value'[e] = None /\ \A f \in Entries : f # e => value'[f] = value[f]
  BY <1>1, <1>6, <1>7 DEF TypeOK
<1>9. UNCHANGED <<elements, dequeued, free, key, consumers>>
  BY DEF Undo
<1>10. op \in [kind : {"none", "enqueue", "bulk"}, step : {"none", "insert", "take", "undo"},
               count : Nat, left : Int, base : Index, linked : Blocks \union {None},
               chain : Seq(Blocks), undone : Nat]
  BY <1>1 DEF TypeOK
<1>11. op' = [op EXCEPT !.undone = w + 1]
  BY <1>4 DEF Undo
<1>12. op'.undone = w + 1 /\ op'.step = "undo" /\ op'.chain = op.chain /\ op'.linked = op.linked
  BY <1>2, <1>10, <1>11
<1>13. Latest(t)' = l /\ TailNum(t) = l - w /\ TailNum(t)' = (l - w) - 1
  <2>1. Latest(t)' = l
    BY <1>4, <1>12 DEF Latest
  <2>2. TailNum(t)' = (l - (w + 1)) + 0
    BY <1>12, <2>1 DEF TailNum
  <2>3. TailNum(t) = l - w
    BY <1>1, <1>2, <1>4, LatestIs
  <2> QED BY <2>1, <2>2, <2>3
<1>14. /\ blockIndexes' \in Seq(Headers) /\ blockIndexes' # <<>> /\ Ring' = Ring
       /\ \A x \in 1..Len(blockIndexes) :
             /\ x \in 1..Len(blockIndexes')
             /\ (blockIndexes'[x]).capacity = blockIndexes[x].capacity
             /\ (blockIndexes'[x]).entry = blockIndexes[x].entry
       /\ Placed(p, d)' /\ Window(t, z, p, d)'
  BY <1>2, <1>4, <1>5, <1>13, Rewinding
<1>15. TypeOK'
  <2>1. op' \in [kind : {"none", "enqueue", "bulk"}, step : {"none", "insert", "take", "undo"},
                 count : Nat, left : Int, base : Index, linked : Blocks \union {None},
                 chain : Seq(Blocks), undone : Nat]
    BY <1>10, <1>11
  <2>2. value' \in [Entries -> Blocks \union {None}]
    BY <1>1, <1>6, <1>7 DEF TypeOK
  <2> QED BY <1>1, <1>9, <1>14, <2>1, <2>2 DEF TypeOK, elements, consumers
<1>16. \A f \in Entries : value'[f] # None => value[f] # None /\ f # e /\ value'[f] = value[f]
  BY <1>8
<1>17. Keyed(t, p)'
  <2>1. \A f \in Entries :
           /\ value'[f] # None => f \in Ring /\ p[f] <= l
           /\ key[f] # INVALID_BLOCK_BASE =>
                 f \in Ring /\ key[f] = (p[f] * BlockSize) % Modulus
           /\ f \in Ring /\ p[f] > Top(t) => key[f] # INVALID_BLOCK_BASE
           /\ value'[f] # None => \A g \in Ring : p[g] >= p[f] => key[g] # INVALID_BLOCK_BASE
    BY <1>1, <1>4, <1>16 DEF Keyed
  <2> QED BY <1>9, <1>13, <1>14, <2>1 DEF Keyed
<1>18. Called(t)'
  <2>1. op'.undone <= Len(op'.chain) /\ op'.chain # <<>>
    BY <1>1, <1>2, <1>4, <1>12 DEF Called
  <2>2. op'.linked # None => t % BlockSize # 0 /\ op'.linked = tailBlock'
    BY <1>1, <1>9, <1>12 DEF Called, elements
  <2> QED BY <1>12, <1>14, <2>1, <2>2 DEF Called
<1>19. Chained(t, p)'
  <2>1. ASSUME NEW f \in Entries, value'[f] # None, p[f] > k
        PROVE  /\ p[f] - k > w + 1 /\ value'[f] = op.chain[p[f] - k]
               /\ dequeued[value'[f]] = 0
    <3>1. value[f] # None /\ f # e /\ value'[f] = value[f]
      BY <1>16, <2>1
    <3>2. /\ p[f] - k > w /\ value[f] = op.chain[p[f] - k] /\ dequeued[value[f]] = 0
      BY <1>1, <1>4, <2>1, <3>1 DEF Chained
    <3>3. f \in Ring
      BY <1>1, <3>1 DEF Keyed
    <3>4. p[f] # p[e]
      BY <1>1, <1>5, <3>1, <3>3, OneEntry
    <3>5. PICK x \in Int : x = p[f]
      BY <1>1
    <3>6. x - k > w + 1
      BY <1>5, <3>2, <3>4, <3>5
    <3> QED BY <3>1, <3>2, <3>5, <3>6
  <2>2. ASSUME NEW x \in 1..n, x > w + 1
        PROVE  \E f \in Entries : p[f] = k + x /\ value'[f] = op.chain[x]
    <3>1. x > w
      BY <2>2
    <3>2. PICK f \in Entries : p[f] = k + x /\ value[f] = op.chain[x]
      BY <1>1, <1>4, <3>1 DEF Chained
    <3>3. f # e
      BY <1>5, <2>2, <3>2
    <3> QED BY <1>8, <3>2, <3>3
  <2> QED BY <1>4, <1>9, <1>12, <2>1, <2>2 DEF Chained
<1>20. \A f \in Entries : p[f] <= k => value'[f] = value[f]
  BY <1>5, <1>8
<1>21. TailIs(t, p)'
  <2>1. \A f \in Entries : p[f] = k => value'[f] = value[f]
    <3>1. k <= k
      OBVIOUS
    <3> QED BY <1>20, <3>1
  <2> QED BY <1>1, <1>4, <1>9, <2>1 DEF TailIs, elements
<1>22. Owned'
  <2>1. value[e] \notin free /\ value[e] # None
    BY <1>1, <1>5, <1>6, ImplicitProducerAssumption DEF Owned
  <2>2. \A f \in Entries : value'[f] # value[e]
    <3>1. SUFFICES ASSUME NEW f \in Entries, f # e, value[f] = value[e]
                   PROVE  FALSE
      BY <1>8, <2>1
    <3> QED BY <1>1, <1>6, <2>1, <3>1 DEF Owned
  <2>3. \A x \in 1..w : /\ op.chain[x] \notin free /\ op.chain[x] # value[e]
                        /\ \A f \in Entries : value[f] # op.chain[x]
    BY <1>1, <1>4, <1>6 DEF Owned
  <2>4. \A x \in 1..(w + 1) : x \in 1..w \/ x = w + 1
    OBVIOUS
  <2>5. \A f \in Entries, g \in Entries : value'[f] # None /\ value'[f] = value'[g] => f = g
    BY <1>1, <1>8 DEF Owned
  <2>6. \A f \in Entries : value'[f] \notin free
    <3>1. None \notin free
      BY <1>1, ImplicitProducerAssumption DEF TypeOK
    <3> QED BY <1>1, <1>8, <3>1 DEF Owned
  <2>7. ASSUME NEW x \in 1..(w + 1)
        PROVE  op.chain[x] \notin free /\ \A f \in Entries : value'[f] # op.chain[x]
    <3>1. CASE x = w + 1
      BY <1>5, <2>1, <2>2, <3>1
    <3>2. CASE x \in 1..w
      <4>1. op.chain[x] # None
        <5>1. x \in 1..n /\ n = Len(op.chain) /\ op.chain \in Seq(Blocks)
          BY <1>2, <1>4, <1>10, <3>2
        <5>2. op.chain[x] \in Blocks
          BY <5>1
        <5> QED BY <5>2, ImplicitProducerAssumption
      <4> QED BY <1>8, <2>3, <3>2, <4>1
    <3> QED BY <2>4, <3>1, <3>2
  <2>8. ASSUME NEW x \in 1..(w + 1), NEW y \in 1..(w + 1), op.chain[x] = op.chain[y]
        PROVE  x = y
    <3>1. CASE x \in 1..w /\ y \in 1..w
      BY <1>1, <1>4, <2>8, <3>1 DEF Owned
    <3>2. CASE x = w + 1 /\ y = w + 1
      BY <3>2
    <3>3. CASE x = w + 1 /\ y \in 1..w
      BY <1>5, <2>3, <2>8, <3>3
    <3>4. CASE x \in 1..w /\ y = w + 1
      BY <1>5, <2>3, <2>8, <3>4
    <3> QED BY <2>4, <3>1, <3>2, <3>3, <3>4
  <2>9. ASSUME NEW b \in Blocks
        PROVE  \/ b \in free
               \/ \E f \in Entries : value'[f] = b
               \/ \E x \in 1..(w + 1) : op.chain[x] = b
    <3>1. CASE b = value[e]
      <4>1. w + 1 \in 1..(w + 1) /\ op.chain[w + 1] = b
        BY <1>5, <3>1
      <4> QED BY <4>1
    <3>2. CASE b # value[e]
      <4>1. \/ b \in free
            \/ \E f \in Entries : value[f] = b
            \/ \E x \in 1..w : op.chain[x] = b
        BY <1>1, <1>4 DEF Owned
      <4>2. ASSUME NEW f \in Entries, value[f] = b
            PROVE  value'[f] = b
        BY <1>8, <3>2, <4>2
      <4>3. ASSUME NEW x \in 1..w
            PROVE  x \in 1..(w + 1)
        OBVIOUS
      <4> QED BY <4>1, <4>2, <4>3
    <3> QED BY <3>1, <3>2
  <2>10. free' = free /\ op'.undone = w + 1 /\ op'.chain = op.chain
    BY <1>9, <1>12
  <2> QED BY <2>5, <2>6, <2>7, <2>8, <2>9, <2>10 DEF Owned
<1>23. Counters(t, h)' /\ Numbers(t, h, z, p, d, i, u)'
  <2>1. Counters(t, h) /\ Numbers(t, h, z, p, d, i, u)
    BY InvParts
  <2> QED BY <1>9, <2>1 DEF Counters, Numbers, elements
<1>24. ConsumerInv(t, h, p, i, u)'
  <2>1. /\ h \in Nat /\ h <= t /\ i \in [Consumers -> Int] /\ u \in SUBSET Int
        /\ ConsumerInv(t, h, p, i, u)
    BY InvParts
  <2>2. UNCHANGED <<slot, dequeued, key, pc, index, count, held, at>>
    BY <1>9 DEF elements, consumers
  <2>3. \A f \in Entries :
           /\ value[f] # None /\ p[f] <= Top(t) =>
                 value'[f] = value[f] /\ p[f] = p[f] /\ dequeued'[value[f]] = dequeued[value[f]]
           /\ value'[f] # None /\ p[f] <= Top(t) => value[f] # None /\ p[f] <= Top(t)
           /\ key[f] # INVALID_BLOCK_BASE => key'[f] # INVALID_BLOCK_BASE
    BY <1>4, <1>16, <1>20, <2>2
  <2> QED BY <1>1, <1>14, <2>1, <2>2, <2>3, Unseen
<1> QED BY <1>14, <1>15, <1>17, <1>18, <1>19, <1>21, <1>22, <1>23, <1>24 DEF Inv, ProducerInv

LEMMA GiveBackKeeps ==
    ASSUME NEW t, NEW h, NEW z, NEW p, NEW d, NEW i, NEW u, Inv(t, h, z, p, d, i, u), GiveBack
    PROVE  Inv(t, h, z, p, d, i, u)'
<1>1. /\ t \in Nat /\ z \in Int /\ p \in [Entries -> Int] /\ d \in [Nat -> Int] /\ TypeOK
      /\ Placed(p, d) /\ Window(t, z, p, d) /\ Keyed(t, p) /\ Called(t) /\ Chained(t, p)
      /\ TailIs(t, p) /\ Owned
  BY InvParts
<1>2. /\ op.step = "undo" /\ op.undone = Len(op.chain) /\ op' = NoCall
      /\ free' = free \union ChainBlocks
      /\ UNCHANGED <<elements, dequeued, blockIndexes, key, value, consumers>>
  BY DEF GiveBack
<1>3. PICK l \in Int, k \in Int, n \in Nat :
         l = Latest(t) /\ k = Top(t) /\ n = Len(op.chain) /\ l = k + n
  BY <1>1, LatestIs, TopIs
<1>4. op.chain \in Seq(Blocks)
  BY <1>1, LatestIs
<1>5. ChainBlocks = {op.chain[x] : x \in 1..n} /\ ChainBlocks \subseteq Blocks
  <2>1. DOMAIN op.chain = 1..n
    BY <1>3, <1>4, LenProperties
  <2>2. \A x \in 1..n : op.chain[x] \in Blocks
    BY <1>3, <1>4
  <2> QED BY <2>1, <2>2 DEF ChainBlocks
<1>6. /\ op'.step = "none" /\ op'.chain = <<>> /\ op'.undone = 0 /\ Len(op'.chain) = 0
      /\ op'.linked = None
  BY <1>2 DEF NoCall
<1>7. Latest(t)' = k /\ TailNum(t)' = k /\ TailNum(t) = k
  <2>1. Latest(t)' = k + 0
    BY <1>3, <1>6 DEF Latest
  <2>2. Latest(t)' = k
    BY <2>1
  <2>3. TailNum(t)' = (k - 0) + 0
    BY <1>6, <2>2 DEF TailNum
  <2>4. TailNum(t) = l - n
    BY <1>1, <1>2, <1>3, LatestIs
  <2> QED BY <1>3, <2>2, <2>3, <2>4
<1>8. \A f \in Entries : value[f] # None => p[f] <= k
  <2>1. SUFFICES ASSUME NEW f \in Entries, value[f] # None, p[f] > k
                 PROVE  FALSE
    <3>1. \A f \in Entries : p[f] \in Int
      BY <1>1
    <3> QED BY <3>1
  <2>2. p[f] - k > n
    BY <1>1, <1>2, <1>3, <2>1 DEF Chained
  <2>3. p[f] <= l
    BY <1>1, <1>3, <2>1 DEF Keyed
  <2>4. PICK x \in Int : x = p[f]
    BY <1>1
  <2> QED BY <1>3, <2>2, <2>3, <2>4
<1>9. Size' = Size /\ Ring' = Ring /\ blockIndex' = blockIndex
  BY <1>2 DEF Size, Ring, blockIndex
<1>10. TypeOK'
  <2>1. op' \in [kind : {"none", "enqueue", "bulk"}, step : {"none", "insert", "take", "undo"},
                 count : Nat, left : Int, base : Index, linked : Blocks \union {None},
                 chain : Seq(Blocks), undone : Nat]
    <3>1. <<>> \in Seq(Blocks) /\ 0 \in Index
      BY EmptySeq, Sizes DEF Index
    <3> QED BY <1>2, <3>1 DEF NoCall
  <2>2. free' \in SUBSET Blocks
    BY <1>1, <1>2, <1>5 DEF TypeOK
  <2> QED BY <1>1, <1>2, <2>1, <2>2 DEF TypeOK, elements, consumers
<1>11. Placed(p, d)'
  BY <1>1, <1>2, <1>9 DEF Placed, PlacedIn
<1>12. Window(t, z, p, d)'
  <2>1. blockIndexes # <<>> => k <= z
    <3>1. blockIndexes # <<>> => TailNum(t) <= z
      BY <1>1 DEF Window
    <3> QED BY <1>7, <3>1
  <2> QED BY <1>1, <1>2, <1>7, <1>9, <2>1 DEF Window
<1>13. Keyed(t, p)'
  <2>1. \A f \in Entries :
           /\ value[f] # None => f \in Ring /\ p[f] <= k
           /\ key[f] # INVALID_BLOCK_BASE =>
                 f \in Ring /\ key[f] = (p[f] * BlockSize) % Modulus
           /\ f \in Ring /\ p[f] > Top(t) => key[f] # INVALID_BLOCK_BASE
           /\ value[f] # None => \A g \in Ring : p[g] >= p[f] => key[g] # INVALID_BLOCK_BASE
    BY <1>1, <1>8 DEF Keyed
  <2> QED BY <1>2, <1>7, <1>9, <2>1 DEF Keyed
<1>14. Called(t)'
  BY <1>2, <1>6 DEF Called
<1>15. Chained(t, p)'
  <2>1. 1..Len(op'.chain) = {}
    BY <1>6
  <2>2. \A f \in Entries : ~(value'[f] # None /\ p[f] > k)
    <3>1. \A f \in Entries : p[f] \in Int
      BY <1>1
    <3> QED BY <1>2, <1>8, <3>1
  <2> QED BY <1>3, <2>1, <2>2 DEF Chained
<1>16. TailIs(t, p)'
  BY <1>1, <1>2 DEF TailIs, elements
<1>17. Owned'
  <2>1. 1..op'.undone = {}
    BY <1>6
  <2>2. \A f \in Entries : value[f] \notin free'
    <3>1. SUFFICES ASSUME NEW f \in Entries
                   PROVE  value[f] \notin free /\ value[f] \notin ChainBlocks
      BY <1>2
    <3>2. \A x \in 1..n : value[f] # op.chain[x]
      BY <1>1, <1>2, <1>3 DEF Owned
    <3> QED BY <1>1, <1>5, <3>2 DEF Owned
  <2>3. \A b \in Blocks : b \in free' \/ \E f \in Entries : value[f] = b
    <3>1. \A b \in Blocks : \/ b \in free
                            \/ \E f \in Entries : value[f] = b
                            \/ \E x \in 1..n : op.chain[x] = b
      BY <1>1, <1>2, <1>3 DEF Owned
    <3> QED BY <1>2, <1>5, <3>1
  <2> QED BY <1>1, <1>2, <2>1, <2>2, <2>3 DEF Owned
<1>18. Counters(t, h)' /\ Numbers(t, h, z, p, d, i, u)'
  <2>1. Counters(t, h) /\ Numbers(t, h, z, p, d, i, u)
    BY InvParts
  <2> QED BY <1>2, <2>1 DEF Counters, Numbers, elements
<1>19. ConsumerInv(t, h, p, i, u)'
  <2>1. /\ h \in Nat /\ h <= t /\ i \in [Consumers -> Int] /\ u \in SUBSET Int
        /\ ConsumerInv(t, h, p, i, u)
    BY InvParts
  <2>2. UNCHANGED <<slot, dequeued, key, value, blockIndexes, pc, index, count, held, at>>
    BY <1>2 DEF elements, consumers
  <2> QED BY <1>1, <2>1, <2>2, Unseen
<1> QED BY <1>10, <1>11, <1>12, <1>13, <1>14, <1>15, <1>16, <1>17, <1>18, <1>19
        DEF Inv, ProducerInv

-------------------------------------------------------------------------------
(* The block the call's j-th element is constructed in, along the chain. *)
BlockOfNew(j) ==
    (IF tailIndex % BlockSize = 0 THEN op.chain ELSE <<tailBlock>> \o op.chain)
       [1 + (((tailIndex % BlockSize) + j) \div BlockSize)]

LEMMA NumShifted ==
    ASSUME NEW x \in Int, NEW q \in Int
    PROVE  (x - q * BlockSize) \div BlockSize = Num(x) - q
<1>1. PICK k \in Int, o \in Offsets : k = Num(x) /\ x = k * BlockSize + o
  BY NumOf
<1>2. BlockSize \in Nat /\ o \in Int
  BY Sizes DEF Offsets
<1>3. PICK y \in Int, a \in Int, b \in Int : y = x - b /\ a = k * BlockSize /\ b = q * BlockSize
  BY <1>2
<1>4. PICK r \in Int : r = k - q
  OBVIOUS
<1>5. y = r * BlockSize + o
  <2>1. r * BlockSize = a - b
    BY <1>2, <1>3, <1>4
  <2> QED BY <1>1, <1>2, <1>3, <2>1
<1>6. Num(r * BlockSize + o) = r
  BY NumIs
<1> QED BY <1>1, <1>3, <1>4, <1>5, <1>6 DEF Num

LEMMA BlockOfNewIs ==
    ASSUME NEW t, NEW h, NEW z, NEW p, NEW d, NEW i, NEW u, Inv(t, h, z, p, d, i, u),
           op.step = "insert", op.left = 0, NEW j \in 0..(op.count - 1)
    PROVE  \E e \in Entries : value[e] # None /\ p[e] = Num(t + j) /\ value[e] = BlockOfNew(j)
<1>1. /\ t \in Nat /\ p \in [Entries -> Int] /\ TypeOK /\ Called(t) /\ Chained(t, p)
      /\ TailIs(t, p) /\ tailIndex = t % Modulus
  BY InvParts
<1>2. PICK k \in Int, n \in Nat, w \in Nat :
         k = Top(t) /\ n = Len(op.chain) /\ Latest(t) = k + n /\ w = op.count
  BY <1>1, LatestIs, TopIs DEF TypeOK
<1>3. op.undone = 0 /\ k + n = Num((t + w) - 1)
  <2>1. Latest(t) + op.left = Num((t + op.count) - 1) /\ op.undone = 0
    BY <1>1 DEF Called
  <2> QED BY <1>2, <2>1
<1>4. op.chain \in Seq(Blocks)
  BY <1>1, LatestIs
<1>5. PICK x \in Int, y \in Int : x = t + j /\ y = (t + w) - 1 /\ x >= t /\ x <= y
  BY <1>1, <1>2
<1>6. PICK q \in Int, o \in Int : q = Num(t) /\ o = t % BlockSize /\ t = q * BlockSize + o
                                  /\ o >= 0 /\ o < BlockSize
  <2>1. BlockSize \in Nat
    BY Sizes
  <2>2. Num(t) \in Int /\ t % BlockSize \in 0..(BlockSize - 1)
        /\ t = Num(t) * BlockSize + (t % BlockSize)
    BY <1>1, NumOf DEF Offsets
  <2> QED BY <2>1, <2>2
<1>7. tailIndex % BlockSize = o
  BY <1>1, <1>6, Wrapped
<1>8. (o + j) \div BlockSize = Num(x) - q
  <2>1. PICK b \in Int : b = q * BlockSize
    BY Sizes
  <2>2. PICK g \in Int, f \in Int : g = j /\ f = t
    BY <1>1, <1>2
  <2>3. f = b + o /\ x = f + g
    BY <1>5, <1>6, <2>1, <2>2
  <2>4. o + g = x - b
    BY <2>3
  <2> QED BY <2>1, <2>2, <2>4, NumShifted
<1>9. PICK m \in Int : m = Num(x)
  BY NumOf
<1>10. q <= m /\ m <= k + n
  <2>1. t \in Int /\ t <= x
    BY <1>1, <1>5
  <2> QED BY <1>3, <1>5, <1>6, <1>9, <2>1, NumMonotone
<1>11. ASSUME m > k
       PROVE  \E e \in Entries : value[e] # None /\ p[e] = m /\ value[e] = op.chain[m - k]
  <2>1. PICK r \in 1..n : r = m - k
    BY <1>10, <1>11
  <2>2. PICK e \in Entries : p[e] = k + r /\ value[e] = op.chain[r]
    BY <1>1, <1>2, <1>3, <2>1 DEF Chained
  <2>3. op.chain[r] \in Blocks
    BY <1>2, <1>4, <2>1
  <2>4. k + r = m
    BY <2>1
  <2> QED BY <2>1, <2>2, <2>3, <2>4, ImplicitProducerAssumption
<1>12. CASE o = 0
  <2>1. k = q - 1
    <3>1. PICK c \in Offsets, r \in Int : c = BlockSize - 1 /\ r = q - 1
      BY Sizes DEF Offsets
    <3>2. Num(r * BlockSize + c) = r
      BY NumIs
    <3>3. r * BlockSize + c = t - 1
      <4>1. BlockSize \in Nat
        BY Sizes
      <4>2. r * BlockSize = q * BlockSize - BlockSize
        BY <3>1, <4>1
      <4>3. PICK b \in Int : b = q * BlockSize
        BY <4>1
      <4> QED BY <1>6, <1>12, <3>1, <4>1, <4>2, <4>3
    <3> QED BY <1>2, <3>1, <3>2, <3>3 DEF Top
  <2>2. m > k
    BY <1>10, <2>1
  <2>3. 1 + (m - q) = m - k
    BY <2>1
  <2>4. BlockOfNew(j) = op.chain[m - k]
    BY <1>7, <1>8, <1>9, <1>12, <2>3 DEF BlockOfNew
  <2> QED BY <1>5, <1>9, <1>11, <2>2, <2>4
<1>13. CASE o # 0
  <2>1. k = q
    <3>1. PICK c \in Offsets : c = o - 1
      BY <1>6, <1>13, Sizes DEF Offsets
    <3>2. Num(q * BlockSize + c) = q
      BY NumIs
    <3>3. q * BlockSize + c = t - 1
      <4>1. PICK b \in Int : b = q * BlockSize
        BY Sizes
      <4>2. PICK f \in Int, g \in Int : f = t /\ g = c
        BY <1>1, <3>1
      <4>3. f = b + o /\ g = o - 1
        BY <1>6, <3>1, <4>1, <4>2
      <4>4. b + g = f - 1
        BY <4>3
      <4> QED BY <4>1, <4>2, <4>4
    <3> QED BY <1>2, <3>2, <3>3 DEF Top
  <2>2. BlockOfNew(j) = (<<tailBlock>> \o op.chain)[1 + (m - k)]
    BY <1>7, <1>8, <1>9, <1>13, <2>1 DEF BlockOfNew
  <2>3. CASE m = k
    <3>1. PICK e \in Entries : value[e] # None /\ p[e] = k /\ value[e] = tailBlock
      BY <1>1, <1>2, <1>6, <1>13 DEF TailIs
    <3>2. 1 + (m - k) = 1
      BY <2>3
    <3>3. (<<tailBlock>> \o op.chain)[1] = tailBlock
      BY <1>4
    <3> QED BY <1>5, <1>9, <2>2, <2>3, <3>1, <3>2, <3>3
  <2>4. CASE m > k
    <3>1. PICK r \in 1..n : r = m - k /\ 1 + r = 1 + (m - k)
      BY <1>10, <2>4
    <3>2. (<<tailBlock>> \o op.chain)[1 + r] = op.chain[r]
      <4>1. PICK S : S = Blocks \union {tailBlock}
        OBVIOUS
      <4>2. PICK a, b : a = <<tailBlock>> /\ b = op.chain
        OBVIOUS
      <4>3. a \in Seq(S) /\ Len(a) = 1
        BY <4>1, <4>2
      <4>4. b \in Seq(S)
        <5>1. Blocks \subseteq S
          BY <4>1
        <5> QED BY <1>4, <4>2, <5>1
      <4>5. Len(b) = n
        BY <1>2, <4>2
      <4>6. \A c \in 1..(1 + n) : (a \o b)[c] = IF c <= 1 THEN a[c] ELSE b[c - 1]
        <5>1. \A c \in 1..(Len(a) + Len(b)) :
                 (a \o b)[c] = IF c <= Len(a) THEN a[c] ELSE b[c - Len(a)]
          BY <4>3, <4>4, ConcatProperties, Zenon
        <5> QED BY <4>3, <4>5, <5>1
      <4>7. PICK c \in 1..(1 + n) : c = 1 + r /\ ~(c <= 1) /\ c - 1 = r
        BY <3>1
      <4>8. (a \o b)[c] = b[r]
        BY <4>6, <4>7
      <4> QED BY <4>2, <4>7, <4>8
    <3>3. BlockOfNew(j) = op.chain[m - k]
      BY <2>2, <3>1, <3>2
    <3> QED BY <1>5, <1>9, <1>11, <2>4, <3>3
  <2> QED BY <1>10, <2>1, <2>3, <2>4
<1> QED BY <1>12, <1>13

(* What is published where. *)
LEMMA Stored ==
    ASSUME NEW t, NEW h, NEW z, NEW p, NEW d, NEW i, NEW u, Inv(t, h, z, p, d, i, u), Publish,
           NEW e \in Entries, value[e] # None, NEW x \in Int, Num(x) = p[e]
    PROVE  slot'[value[e]][x % BlockSize]
              = IF x >= t /\ x < t + op.count THEN x % Modulus ELSE slot[value[e]][x % BlockSize]
<1>1. /\ t \in Nat /\ p \in [Entries -> Int] /\ d \in [Nat -> Int] /\ TypeOK /\ Placed(p, d)
      /\ Keyed(t, p) /\ Owned /\ tailIndex = t % Modulus
  BY InvParts
<1>2. op.step = "insert" /\ op.left = 0 /\ op.count \in Nat
  BY <1>1 DEF Publish, TypeOK
<1>3. PICK b \in Blocks, o \in Offsets : b = value[e] /\ o = x % BlockSize
  BY <1>1, NumOf DEF TypeOK
<1>4. PICK P : P = {k \in 0..(op.count - 1) :
                       BlockOfNew(k) = b /\ Add(tailIndex, k) % BlockSize = o}
  OBVIOUS
<1>5. slot'[b][o] = IF P = {} THEN slot[b][o] ELSE Add(tailIndex, CHOOSE k \in P : TRUE)
  <2>1. slot' = [c \in Blocks |-> [r \in Offsets |->
                    IF {k \in 0..(op.count - 1) :
                           BlockOfNew(k) = c /\ Add(tailIndex, k) % BlockSize = r} = {}
                    THEN slot[c][r]
                    ELSE Add(tailIndex, CHOOSE k \in {g \in 0..(op.count - 1) :
                           BlockOfNew(g) = c /\ Add(tailIndex, g) % BlockSize = r} : TRUE)]]
    BY DEF Publish, BlockOfNew
  <2> QED BY <1>4, <2>1
<1>6. ASSUME NEW k \in 0..(op.count - 1)
      PROVE  Add(tailIndex, k) = (t + k) % Modulus /\ Add(tailIndex, k) % BlockSize = (t + k) % BlockSize
  <2>1. PICK g \in Int, y \in Int : g = k /\ y = t + k
    BY <1>1, <1>2
  <2>2. Add(t % Modulus, g) = (t + g) % Modulus /\ (y % Modulus) % BlockSize = y % BlockSize
    <3>1. t \in Int
      BY <1>1
    <3>2. Add(t % Modulus, g) = (t + g) % Modulus
      BY <3>1, Wrapped
    <3>3. (y % Modulus) % BlockSize = y % BlockSize
      BY Wrapped
    <3> QED BY <3>2, <3>3
  <2> QED BY <1>1, <2>1, <2>2
<1>7. ASSUME NEW k \in 0..(op.count - 1), t + k = x
      PROVE  k \in P
  <2>1. PICK f \in Entries : value[f] # None /\ p[f] = Num(t + k) /\ value[f] = BlockOfNew(k)
    BY <1>2, BlockOfNewIs
  <2>2. e \in Ring /\ f \in Ring
    BY <1>1, <2>1 DEF Keyed
  <2>3. f = e
    BY <1>1, <1>7, <2>1, <2>2, OneEntry
  <2> QED BY <1>3, <1>4, <1>6, <1>7, <2>1, <2>3
<1>8. ASSUME NEW k \in P
      PROVE  k \in 0..(op.count - 1) /\ t + k = x
  <2>1. k \in 0..(op.count - 1) /\ BlockOfNew(k) = b /\ Add(tailIndex, k) % BlockSize = o
    BY <1>4
  <2>2. PICK f \in Entries : value[f] # None /\ p[f] = Num(t + k) /\ value[f] = BlockOfNew(k)
    BY <1>2, <2>1, BlockOfNewIs
  <2>3. f = e
    BY <1>1, <1>3, <2>1, <2>2 DEF Owned
  <2>4. PICK y \in Int : y = t + k
    BY <1>1, <1>2, <2>1
  <2>5. Num(y) = Num(x) /\ y % BlockSize = x % BlockSize
    BY <1>3, <1>6, <2>1, <2>2, <2>3, <2>4
  <2>6. y = Num(y) * BlockSize + (y % BlockSize) /\ x = Num(x) * BlockSize + (x % BlockSize)
    BY NumOf
  <2> QED BY <2>1, <2>4, <2>5, <2>6
<1>9. CASE x >= t /\ x < t + op.count
  <2>1. PICK k \in 0..(op.count - 1) : t + k = x
    <3>1. PICK a \in Int, c \in Int : a = t /\ c = op.count
      BY <1>1, <1>2
    <3>2. x - a \in 0..(c - 1) /\ a + (x - a) = x
      BY <1>9, <3>1
    <3> QED BY <3>1, <3>2
  <2>2. P # {} /\ (CHOOSE k_1 \in P : TRUE) \in P
    BY <1>7, <2>1
  <2>3. PICK g \in P : g = CHOOSE k_1 \in P : TRUE
    BY <2>2
  <2>4. g \in 0..(op.count - 1) /\ t + g = x
    BY <1>8
  <2>5. Add(tailIndex, g) = x % Modulus
    BY <1>6, <2>4
  <2> QED BY <1>3, <1>5, <1>9, <2>2, <2>3, <2>5
<1>10. CASE ~(x >= t /\ x < t + op.count)
  <2>1. SUFFICES ASSUME P # {}
                 PROVE  FALSE
    BY <1>3, <1>5, <1>10
  <2>2. PICK k \in P : TRUE
    BY <2>1
  <2>3. k \in 0..(op.count - 1) /\ t + k = x
    BY <1>8
  <2> QED BY <1>1, <1>2, <1>10, <2>3
<1> QED BY <1>9, <1>10

LEMMA PublishKeeps ==
    ASSUME NEW t, NEW h, NEW z, NEW p, NEW d, NEW i, NEW u, Inv(t, h, z, p, d, i, u), Publish
    PROVE  \E y : Inv(y, h, z, p, d, i, u)'
<1>1. /\ t \in Nat /\ h \in Nat /\ h <= t /\ z \in Int /\ p \in [Entries -> Int]
      /\ d \in [Nat -> Int] /\ i \in [Consumers -> Int] /\ u \in SUBSET Int /\ TypeOK
      /\ Placed(p, d) /\ Window(t, z, p, d) /\ Keyed(t, p) /\ Called(t) /\ Chained(t, p)
      /\ TailIs(t, p) /\ Owned /\ tailIndex = t % Modulus /\ headIndex = h % Modulus
  BY InvParts
<1>0. z \in Int
  BY <1>1
<1>2. op.step = "insert" /\ op.left = 0 /\ op' = NoCall
  BY DEF Publish
<1>3. PICK k \in Int, n \in Nat, w \in Nat :
         k = Top(t) /\ n = Len(op.chain) /\ Latest(t) = k + n /\ w = op.count
  BY <1>1, LatestIs, TopIs DEF TypeOK
<1>4. PICK y \in Nat : y = t + w /\ y >= t
  BY <1>1
<1>5. op.undone = 0 /\ w > 0 /\ Top(y) = k + n
  <2>1. Latest(t) + op.left = Num((t + op.count) - 1) /\ op.undone = 0 /\ op.count > 0
    BY <1>1, <1>2 DEF Called
  <2> QED BY <1>2, <1>3, <1>4, <2>1 DEF Top
<1>6. UNCHANGED <<headIndex, dequeued, free, blockIndexes, key, value, consumers>>
  BY DEF Publish
<1>7. /\ op'.step = "none" /\ op'.chain = <<>> /\ op'.undone = 0 /\ Len(op'.chain) = 0
      /\ op'.linked = None
  BY <1>2 DEF NoCall
<1>8. Latest(y)' = k + n /\ TailNum(y)' = k + n /\ TailNum(t) = k + n
  <2>1. Latest(y)' = (k + n) + 0
    BY <1>5, <1>7 DEF Latest
  <2>2. Latest(y)' = k + n
    BY <2>1
  <2>3. TailNum(y)' = ((k + n) - 0) + 0
    BY <1>7, <2>2 DEF TailNum
  <2>4. TailNum(t) = (k + n) - 0
    BY <1>1, <1>2, <1>3, <1>5, LatestIs
  <2> QED BY <2>2, <2>3, <2>4
<1>9. tailBlock' = IF op.chain = <<>> THEN tailBlock ELSE op.chain[n]
  BY <1>3 DEF Publish
<1>10. op.chain \in Seq(Blocks) /\ (op.chain = <<>> <=> n = 0)
  BY <1>1, <1>3, LatestIs, EmptySeq
<1>11. Size' = Size /\ Ring' = Ring /\ blockIndex' = blockIndex
  BY <1>6 DEF Size, Ring, blockIndex
<1>12. tailIndex' = y % Modulus
  <2>1. tailIndex' = Add(t % Modulus, w)
    BY <1>1, <1>3 DEF Publish
  <2>2. Add(t % Modulus, w) = (t + w) % Modulus
    BY <1>1, Wrapped
  <2> QED BY <1>4, <2>1, <2>2
<1>13. TypeOK'
  <2>1. op' \in [kind : {"none", "enqueue", "bulk"}, step : {"none", "insert", "take", "undo"},
                 count : Nat, left : Int, base : Index, linked : Blocks \union {None},
                 chain : Seq(Blocks), undone : Nat]
    <3>1. <<>> \in Seq(Blocks) /\ 0 \in Index
      BY EmptySeq, Sizes DEF Index
    <3> QED BY <1>2, <3>1 DEF NoCall
  <2>2. tailIndex' \in Index
    BY <1>4, <1>12, Wrapped
  <2>3. tailBlock' \in Blocks \union {None}
    <3>1. tailBlock \in Blocks \union {None}
      BY <1>1 DEF TypeOK
    <3>2. n # 0 => op.chain[n] \in Blocks
      BY <1>3, <1>10
    <3> QED BY <1>9, <1>10, <3>1, <3>2
  <2>4. slot' \in [Blocks -> [Offsets -> 0..Modulus]]
    <3>1. PICK F : F = [b \in Blocks |-> [o \in Offsets |->
                           {j \in 0..(op.count - 1) :
                              BlockOfNew(j) = b /\ Add(tailIndex, j) % BlockSize = o}]]
      OBVIOUS
    <3>2. slot' = [b \in Blocks |-> [o \in Offsets |->
                     IF F[b][o] = {} THEN slot[b][o]
                     ELSE Add(tailIndex, CHOOSE j \in F[b][o] : TRUE)]]
      <4>1. slot' = [b \in Blocks |-> [o \in Offsets |->
                        IF {j \in 0..(op.count - 1) :
                               BlockOfNew(j) = b /\ Add(tailIndex, j) % BlockSize = o} = {}
                        THEN slot[b][o]
                        ELSE Add(tailIndex, CHOOSE j \in {g \in 0..(op.count - 1) :
                               BlockOfNew(g) = b /\ Add(tailIndex, g) % BlockSize = o} : TRUE)]]
        BY DEF Publish, BlockOfNew
      <4>2. \A b \in Blocks, o \in Offsets :
               F[b][o] = {j \in 0..(op.count - 1) :
                             BlockOfNew(j) = b /\ Add(tailIndex, j) % BlockSize = o}
        BY <3>1
      <4> QED BY <4>1, <4>2
    <3>3. SUFFICES ASSUME NEW b \in Blocks, NEW o \in Offsets
                   PROVE  slot'[b][o] \in 0..Modulus
      BY <3>2
    <3>4. slot[b][o] \in 0..Modulus
      BY <1>1 DEF TypeOK
    <3>5. ASSUME F[b][o] # {}
          PROVE  Add(tailIndex, CHOOSE j \in F[b][o] : TRUE) \in 0..Modulus
      <4>1. PICK j \in F[b][o] : j = CHOOSE g \in F[b][o] : TRUE
        BY <3>5
      <4>2. j \in Int
        BY <3>1
      <4>3. Add(t % Modulus, j) = (t + j) % Modulus /\ (t + j) % Modulus \in Index
        <5>1. PICK a \in Int, g \in Int, x \in Int : a = t /\ g = j /\ x = a + g
          BY <1>1, <4>2
        <5>2. Add(a % Modulus, g) = (a + g) % Modulus
          BY Wrapped
        <5>3. x % Modulus \in Index
          BY Wrapped
        <5> QED BY <5>1, <5>2, <5>3
      <4>4. Modulus \in Nat
        BY Sizes
      <4> QED BY <1>1, <4>1, <4>3, <4>4 DEF Index
    <3> QED BY <3>2, <3>4, <3>5
  <2> QED BY <1>1, <1>6, <2>1, <2>2, <2>3, <2>4 DEF TypeOK, consumers
<1>14. Placed(p, d)'
  BY <1>1, <1>6, <1>11 DEF Placed, PlacedIn
<1>15. Window(y, z, p, d)'
  <2>1. SUFFICES ASSUME blockIndexes # <<>>
                 PROVE  z - Size <= k + n /\ k + n <= z
    BY <1>1, <1>5, <1>6, <1>8, <1>11 DEF Window
  <2>2. z - Size <= k /\ TailNum(t) <= z
    BY <1>1, <1>3, <2>1 DEF Window
  <2>3. PICK m \in Nat : m = Size
    BY <1>1, <2>1, CurrentIs
  <2> QED BY <1>0, <1>8, <2>2, <2>3
<1>16. Keyed(y, p)'
  <2>1. \A f \in Ring : p[f] > k + n => p[f] > k
    <3>1. SUFFICES ASSUME NEW f \in Ring, p[f] > k + n
                   PROVE  p[f] > k
      OBVIOUS
    <3>2. f \in Entries
      <4>1. blockIndexes # <<>>
        BY DEF Ring, Size
      <4> QED BY <1>1, <4>1, CurrentIs
    <3>3. PICK x \in Int : x = p[f]
      BY <1>1, <3>2
    <3> QED BY <3>1, <3>3
  <2> QED BY <1>1, <1>3, <1>5, <1>6, <1>8, <1>11, <2>1 DEF Keyed
<1>17. Called(y)'
  BY <1>2, <1>7 DEF Called
<1>18. \A f \in Entries : value[f] # None => p[f] <= k + n
  BY <1>1, <1>3 DEF Keyed
<1>19. Chained(y, p)'
  <2>1. 1..Len(op'.chain) = {}
    BY <1>7
  <2>2. \A f \in Entries : ~(value'[f] # None /\ p[f] > k + n)
    <3>1. \A f \in Entries : p[f] \in Int
      BY <1>1
    <3> QED BY <1>6, <1>18, <3>1
  <2> QED BY <1>5, <2>1, <2>2 DEF Chained
<1>20. TailIs(y, p)'
  <2>1. ASSUME NEW f \in Entries, value[f] # None, p[f] = k + n
        PROVE  value[f] = tailBlock'
    <3>1. CASE n = 0
      <4>1. p[f] = k
        BY <2>1, <3>1
      <4> QED BY <1>1, <1>3, <1>9, <1>10, <2>1, <3>1, <4>1 DEF TailIs
    <3>2. CASE n # 0
      <4>1. p[f] > k /\ p[f] - k = n
        BY <2>1, <3>2
      <4>2. value[f] = op.chain[n]
        BY <1>1, <1>3, <2>1, <4>1 DEF Chained
      <4> QED BY <1>9, <1>10, <3>2, <4>2
    <3> QED BY <3>1, <3>2
  <2>2. \E f \in Entries : value[f] # None /\ p[f] = k + n
    <3>1. PICK j \in 0..(op.count - 1) : j = w - 1
      BY <1>3, <1>5
    <3>2. PICK f \in Entries : value[f] # None /\ p[f] = Num(t + j)
      BY <1>2, BlockOfNewIs
    <3>3. t + j = y - 1
      BY <1>1, <1>4, <3>1
    <3> QED BY <1>5, <3>2, <3>3 DEF Top
  <2> QED BY <1>5, <1>6, <2>1, <2>2 DEF TailIs
<1>21. Owned'
  BY <1>1, <1>5, <1>6, <1>7 DEF Owned
<1>22. Counters(y, h)' /\ Numbers(y, h, z, p, d, i, u)'
  <2>1. Numbers(t, h, z, p, d, i, u)
    BY InvParts
  <2>2. h <= y
    BY <1>1, <1>4
  <2> QED BY <1>1, <1>4, <1>6, <1>12, <2>1, <2>2 DEF Counters, Numbers
<1>23. ConsumerInv(y, h, p, i, u)'
  <2>0. /\ Ranges(h, i) /\ u = Unmoved(h, i) /\ Waits(t, p, u) /\ At(p, i)
        /\ Counted(t, p, u, i) /\ Freed(u, i)
    BY InvParts DEF ConsumerInv
  <2>1. UNCHANGED <<dequeued, key, value, blockIndexes, pc, index, count, held, at>>
    BY <1>6 DEF consumers
  <2>2. Ranges(h, i)'
    BY <2>0, <2>1 DEF Ranges
  <2>3. u = Unmoved(h, i)'
    BY <2>0, <2>1 DEF Unmoved, Pending
  <2>4. Waits(y, p, u)'
    <3>1. SUFFICES ASSUME NEW x \in u, x < y
                   PROVE  Kept(p, x)'
      BY DEF Waits
    <3>2. x \in Int
      BY <1>1
    <3>3. CASE x < t
      <4>1. PICK e \in Entries : value[e] # None /\ p[e] = Num(x)
                                 /\ slot[value[e]][x % BlockSize] = x % Modulus
        BY <2>0, <3>3 DEF Waits, Kept
      <4>2. ~(x >= t)
        BY <1>1, <3>2, <3>3
      <4>3. slot'[value[e]][x % BlockSize] = x % Modulus
        BY <3>2, <4>1, <4>2, Stored
      <4> QED BY <2>1, <4>1, <4>3 DEF Kept
    <3>4. CASE ~(x < t)
      <4>1. PICK j \in 0..(op.count - 1) : t + j = x
        <5>1. PICK a \in Int : a = t
          BY <1>1
        <5>2. x - a \in 0..(w - 1) /\ a + (x - a) = x
          BY <1>4, <3>1, <3>2, <3>4, <5>1
        <5> QED BY <1>3, <5>1, <5>2
      <4>2. PICK e \in Entries : value[e] # None /\ p[e] = Num(x)
        BY <1>2, <4>1, BlockOfNewIs
      <4>3. x >= t /\ x < t + op.count
        BY <1>1, <1>3, <1>4, <3>1, <3>2, <3>4
      <4>4. slot'[value[e]][x % BlockSize] = x % Modulus
        BY <3>2, <4>2, <4>3, Stored
      <4> QED BY <2>1, <4>2, <4>4 DEF Kept
    <3> QED BY <3>3, <3>4
  <2>5. At(p, i)'
    BY <2>0, <2>1 DEF At, AtEntry, EntryAt, BlockAt
  <2>6. Counted(y, p, u, i)'
    <3>1. SUFFICES ASSUME NEW e \in Entries, value[e] # None
                   PROVE  /\ dequeued[value[e]] + Cardinality(LeftOf(p[e], u)) = BlockSize
                          /\ LeftOf(p[e], u) = {} =>
                                \E c \in Consumers : pc[c] = "free" /\ Num(i[c]) = p[e]
      BY <2>1 DEF Counted, LeftOf
    <3>2. PICK m \in Int : m = p[e]
      BY <1>1
    <3>3. CASE m <= k
      BY <1>3, <2>0, <3>1, <3>2, <3>3 DEF Counted
    <3>4. CASE m > k
      <4>1. dequeued[value[e]] = 0
        BY <1>1, <1>3, <3>1, <3>2, <3>4 DEF Chained
      <4>2. ASSUME NEW o \in Offsets
            PROVE  m * BlockSize + o \in u
        <5>1. PICK x \in Int : x = m * BlockSize + o
          BY Sizes DEF Offsets
        <5>2. Num(x) = m
          BY <5>1, NumIs
        <5>3. x >= h
          <6>1. PICK a \in Int, b \in Int : a = t - 1 /\ b = h /\ b - 1 <= a
            BY <1>1
          <6>2. x <= a => Num(x) <= Num(a)
            BY NumMonotone
          <6>3. ~(x <= a)
            BY <1>3, <3>4, <5>2, <6>1, <6>2 DEF Top
          <6>4. x >= b
            BY <6>1, <6>3
          <6> QED BY <6>1, <6>4
        <5> QED BY <2>0, <5>1, <5>3 DEF Unmoved
      <4>3. LeftOf(m, u) = Offsets
        BY <4>2 DEF LeftOf
      <4>4. Cardinality(Offsets) = BlockSize /\ Offsets # {}
        <5>1. 0 \in Int /\ BlockSize - 1 \in Int /\ BlockSize > 1 /\ BlockSize \in Nat
          BY Sizes
        <5>2. Cardinality(0..(BlockSize - 1))
                 = IF 0 > BlockSize - 1 THEN 0 ELSE ((BlockSize - 1) - 0) + 1
          BY <5>1, FS_Interval
        <5>3. 0 \in Offsets
          BY <5>1 DEF Offsets
        <5> QED BY <5>1, <5>2, <5>3 DEF Offsets
      <4>5. 0 + BlockSize = BlockSize
        BY Sizes
      <4> QED BY <3>2, <4>1, <4>3, <4>4, <4>5
    <3> QED BY <3>3, <3>4
  <2>7. Freed(u, i)'
    BY <2>0, <2>1 DEF Freed, LeftOf
  <2> QED BY <2>2, <2>3, <2>4, <2>5, <2>6, <2>7 DEF ConsumerInv
<1>24. Inv(y, h, z, p, d, i, u)'
  BY <1>13, <1>14, <1>15, <1>16, <1>17, <1>19, <1>20, <1>21, <1>22, <1>23 DEF Inv, ProducerInv
<1> QED BY <1>24

-------------------------------------------------------------------------------
(* What a consumer has to move in the block it is at. *)
LEMMA InBlockIs ==
    ASSUME TypeOK, NEW i \in [Consumers -> Int], NEW c \in Consumers,
           count[c] > 0, index[c] = i[c] % Modulus
    PROVE  LET m == Cardinality(InBlock(c))
           IN  /\ m \in Nat /\ m >= 1 /\ m <= count[c] /\ IsFiniteSet(InBlock(c))
               /\ \A x \in Int : Num(x) = Num(i[c]) =>
                     (x % BlockSize \in InBlock(c) <=> x >= i[c] /\ x < i[c] + m)
               /\ \A x \in Int : x >= i[c] /\ x < i[c] + count[c] =>
                     (Num(x) = Num(i[c]) <=> x < i[c] + m)
               /\ m < count[c] => Num(i[c] + m) = Num(i[c]) + 1
<1>1. BlockSize \in Nat /\ BlockSize > 1
  BY Sizes
<1>2. PICK a \in Int, n \in Nat : a = i[c] /\ n = count[c]
  BY DEF TypeOK
<1>3. PICK k \in Int, o \in 0..(BlockSize - 1) :
         k = Num(a) /\ o = a % BlockSize /\ a = k * BlockSize + o
  BY NumOf DEF Offsets
<1>4. PICK e \in Int : e = IF o + n <= BlockSize THEN o + n ELSE BlockSize
  BY <1>1
<1>5. InBlock(c) = o..(e - 1)
  <2>1. index[c] % BlockSize = o
    BY <1>2, <1>3, Wrapped
  <2>2. InBlock(c) = {x \in 0..(BlockSize - 1) : x >= o /\ x < o + n}
    BY <1>2, <2>1 DEF InBlock, Offsets
  <2> QED BY <1>1, <1>4, <2>2
<1>6. PICK m \in Nat : m = e - o /\ m >= 1 /\ m <= n
  <2>1. o \in Int /\ o >= 0 /\ o < BlockSize /\ n >= 1
    BY <1>1, <1>2
  <2>2. e - o >= 1 /\ e - o <= n
    BY <1>1, <1>4, <2>1
  <2>3. PICK m \in Int : m = e - o
    BY <2>1
  <2> QED BY <2>2, <2>3
<1>7. Cardinality(InBlock(c)) = m /\ IsFiniteSet(InBlock(c))
  <2>1. o \in Int /\ e - 1 \in Int /\ ~(o > e - 1)
    BY <1>6
  <2>2. Cardinality(o..(e - 1)) = (IF o > e - 1 THEN 0 ELSE ((e - 1) - o) + 1)
        /\ IsFiniteSet(o..(e - 1))
    BY <2>1, FS_Interval
  <2>3. ((e - 1) - o) + 1 = m
    BY <1>6
  <2> QED BY <1>5, <2>1, <2>2, <2>3
<1>8. PICK b \in Int : b = k * BlockSize /\ a = b + o
  BY <1>1, <1>3
<1>9. ASSUME NEW x \in Int, Num(x) = k
      PROVE  x % BlockSize \in InBlock(c) <=> x >= a /\ x < a + m
  <2>1. PICK r \in 0..(BlockSize - 1) : r = x % BlockSize /\ x = b + r
    BY <1>8, <1>9, NumOf DEF Offsets
  <2>2. (r >= o /\ r <= e - 1) <=> (x >= a /\ x < a + m)
    BY <1>6, <1>8, <2>1
  <2> QED BY <1>5, <2>1, <2>2
<1>10. ASSUME NEW x \in Int, x >= a, x < a + n
       PROVE  (Num(x) = k <=> x < a + m)
  <2>1. ASSUME Num(x) = k
        PROVE  x < a + m
    <3>1. PICK r \in 0..(BlockSize - 1) : x = b + r
      BY <1>8, <2>1, NumOf DEF Offsets
    <3> QED BY <1>4, <1>6, <1>8, <1>10, <3>1
  <2>2. ASSUME x < a + m
        PROVE  Num(x) = k
    <3>1. PICK r \in Offsets : r = x - b
      <4>1. o \in Int /\ o >= 0 /\ e <= BlockSize
        BY <1>1, <1>4
      <4>2. x - b >= 0 /\ x - b < BlockSize
        BY <1>1, <1>6, <1>8, <1>10, <2>2, <4>1
      <4> QED BY <1>1, <4>2 DEF Offsets
    <3>2. k * BlockSize + r = x
      BY <1>8, <3>1
    <3> QED BY <3>1, <3>2, NumIs
  <2> QED BY <2>1, <2>2
<1>11. ASSUME m < n
       PROVE  Num(a + m) = k + 1
  <2>1. e = BlockSize
    BY <1>4, <1>6, <1>11
  <2>2. PICK r \in Offsets, j \in Int : r = 0 /\ j = k + 1
    BY <1>1 DEF Offsets
  <2>3. j * BlockSize + r = a + m
    <3>1. j * BlockSize = b + BlockSize
      BY <1>1, <1>8, <2>2
    <3> QED BY <1>1, <1>6, <1>8, <2>1, <2>2, <3>1
  <2> QED BY <2>2, <2>3, NumIs
<1> QED BY <1>2, <1>3, <1>6, <1>7, <1>9, <1>10, <1>11

LEMMA Active ==
    ASSUME NEW t, NEW h, NEW z, NEW p, NEW d, NEW i, NEW u, Inv(t, h, z, p, d, i, u),
           NEW c \in Consumers, pc[c] # "idle"
    PROVE  /\ i[c] \in Int /\ count[c] \in Nat /\ count[c] > 0 /\ index[c] = i[c] % Modulus
           /\ i[c] + count[c] <= h /\ AtEntry(c, p, i)
<1>1. i \in [Consumers -> Int] /\ TypeOK /\ Ranges(h, i) /\ At(p, i)
  BY InvParts DEF ConsumerInv
<1>2. count[c] \in Nat
  BY <1>1 DEF TypeOK
<1> QED BY <1>1, <1>2 DEF Ranges, At

(* What a consumer is to move is still where it was put. *)
LEMMA Waiting ==
    ASSUME NEW t, NEW h, NEW z, NEW p, NEW d, NEW i, NEW u, Inv(t, h, z, p, d, i, u),
           NEW c \in Consumers, NEW x \in Int, x \in Pending(c, i)
    PROVE  /\ x \in u /\ x < t /\ Num(x) <= Top(t)
           /\ \E e \in Ring : /\ e \in Entries /\ value[e] # None /\ p[e] = Num(x)
                              /\ slot[value[e]][x % BlockSize] = x % Modulus
<1>1. /\ t \in Nat /\ h \in Nat /\ h <= t /\ i \in [Consumers -> Int] /\ TypeOK
      /\ Ranges(h, i) /\ u = Unmoved(h, i) /\ Waits(t, p, u) /\ Keyed(t, p)
  BY InvParts DEF ConsumerInv
<1>2. pc[c] # "idle" /\ x < i[c] + count[c]
  BY DEF Pending
<1>3. x < t /\ Num(x) <= Top(t)
  BY <1>1, <1>2, RangeBelow
<1>4. x \in u
  BY <1>1 DEF Unmoved
<1>5. Kept(p, x)
  BY <1>1, <1>3, <1>4 DEF Waits
<1>6. PICK e \in Entries : /\ value[e] # None /\ p[e] = Num(x)
                           /\ slot[value[e]][x % BlockSize] = x % Modulus
  BY <1>5 DEF Kept
<1>7. e \in Ring
  BY <1>1, <1>6 DEF Keyed
<1> QED BY <1>3, <1>4, <1>6, <1>7

(* A step of a consumer that clears no entry. *)
LEMMA SameProducer ==
    ASSUME NEW t, NEW h, NEW z, NEW p, NEW d, NEW i, NEW u, Inv(t, h, z, p, d, i, u),
           UNCHANGED <<tailIndex, tailBlock, free, blockIndexes, key, value, op>>,
           \A e \in Entries :
              value[e] # None /\ p[e] > Top(t) => dequeued'[value[e]] = dequeued[value[e]]
    PROVE  ProducerInv(t, z, p, d)' /\ TailIs(t, p)' /\ Owned'
<1>1. /\ Placed(p, d) /\ Window(t, z, p, d) /\ Keyed(t, p) /\ Called(t) /\ Chained(t, p)
      /\ TailIs(t, p) /\ Owned
  BY InvParts
<1>2. /\ Latest(t)' = Latest(t) /\ TailNum(t)' = TailNum(t)
      /\ Size' = Size /\ Ring' = Ring /\ blockIndex' = blockIndex
  BY DEF Latest, TailNum, Size, Ring, blockIndex
<1>3. Placed(p, d)'
  BY <1>1, <1>2 DEF Placed, PlacedIn
<1>4. Window(t, z, p, d)'
  BY <1>1, <1>2 DEF Window
<1>5. Keyed(t, p)'
  BY <1>1, <1>2 DEF Keyed
<1>6. Called(t)'
  BY <1>1, <1>2 DEF Called
<1>7. Chained(t, p)'
  BY <1>1 DEF Chained
<1>8. TailIs(t, p)'
  BY <1>1 DEF TailIs
<1>9. Owned'
  BY <1>1 DEF Owned
<1> QED BY <1>3, <1>4, <1>5, <1>6, <1>7, <1>8, <1>9 DEF ProducerInv

LEMMA TakeKeeps ==
    ASSUME NEW t, NEW h, NEW z, NEW p, NEW d, NEW i, NEW u, Inv(t, h, z, p, d, i, u),
           NEW c \in Consumers, NEW n \in Nat, n > 0, Take(c, n)
    PROVE  \E g, j : Inv(t, g, z, p, d, j, u)'
<1>1. /\ t \in Nat /\ h \in Nat /\ h <= t /\ i \in [Consumers -> Int] /\ TypeOK
      /\ tailIndex = t % Modulus /\ headIndex = h % Modulus /\ Numbers(t, h, z, p, d, i, u)
      /\ Ranges(h, i) /\ u = Unmoved(h, i) /\ Waits(t, p, u) /\ At(p, i)
      /\ Counted(t, p, u, i) /\ Freed(u, i)
  BY InvParts DEF ConsumerInv
<1>2. /\ pc[c] = "idle" /\ n <= Subtract(tailIndex, headIndex)
      /\ pc' = [pc EXCEPT ![c] = "load"] /\ index' = [index EXCEPT ![c] = headIndex]
      /\ count' = [count EXCEPT ![c] = n] /\ headIndex' = Add(headIndex, n)
      /\ UNCHANGED <<tailIndex, tailBlock, slot, dequeued, free, blockIndexes, key, value, op>>
      /\ UNCHANGED <<held, at>>
  BY DEF Take
<1>3. PICK g \in Nat : g = h + n /\ h <= g /\ g <= t
  <2>1. Subtract(tailIndex, headIndex) = (t - h) % Modulus
    BY <1>1, Wrapped
  <2>2. PICK m \in Nat, w \in Nat : m = t - h /\ w = m % Modulus
    BY <1>1, Sizes
  <2>3. w <= m
    BY <2>2, AtMost
  <2>4. n <= m
    BY <1>2, <2>1, <2>2, <2>3
  <2> QED BY <1>1, <2>2, <2>4
<1>4. headIndex' = g % Modulus
  <2>1. h \in Int /\ n \in Int
    BY <1>1
  <2>2. Add(h % Modulus, n) = (h + n) % Modulus
    BY <2>1, Wrapped
  <2> QED BY <1>1, <1>2, <1>3, <2>2
<1>5. PICK j : j = [i EXCEPT ![c] = h]
  OBVIOUS
<1>6. j \in [Consumers -> Int] /\ j[c] = h /\ \A a \in Consumers : a # c => j[a] = i[a]
  BY <1>1, <1>5
<1>7. /\ pc'[c] = "load" /\ index'[c] = h % Modulus /\ count'[c] = n
      /\ \A a \in Consumers : a # c => /\ pc'[a] = pc[a] /\ index'[a] = index[a]
                                       /\ count'[a] = count[a]
  BY <1>1, <1>2 DEF TypeOK
<1>8. TypeOK'
  <2>1. headIndex' \in Index /\ headIndex \in Index
    <3>1. g \in Int /\ h \in Int
      BY <1>1
    <3> QED BY <1>1, <1>4, <3>1, Wrapped
  <2>2. /\ pc' \in [Consumers -> {"idle", "load", "locate", "move", "free"}]
        /\ index' \in [Consumers -> Index] /\ count' \in [Consumers -> Nat]
    BY <1>1, <1>2, <2>1 DEF TypeOK
  <2> QED BY <1>1, <1>2, <2>1, <2>2 DEF TypeOK
<1>9. ProducerInv(t, z, p, d)' /\ TailIs(t, p)' /\ Owned'
  BY <1>2, SameProducer
<1>10. Counters(t, g)' /\ Numbers(t, g, z, p, d, j, u)'
  BY <1>1, <1>2, <1>3, <1>4, <1>6 DEF Counters, Numbers
<1>11. Ranges(g, j)'
  <2>1. ASSUME NEW a \in Consumers, pc'[a] # "idle"
        PROVE  count'[a] > 0 /\ j[a] + count'[a] <= g /\ index'[a] = j[a] % Modulus
    <3>1. CASE a = c
      BY <1>3, <1>6, <1>7, <3>1
    <3>2. CASE a # c
      <4>1. count[a] > 0 /\ i[a] + count[a] <= h /\ index[a] = i[a] % Modulus
        BY <1>1, <1>7, <2>1, <3>2 DEF Ranges
      <4>2. i[a] \in Int /\ count[a] \in Nat
        BY <1>1 DEF TypeOK
      <4>3. PICK b \in Int : b = i[a] + count[a]
        BY <4>2
      <4>4. b <= g
        BY <1>1, <1>3, <4>1, <4>3
      <4> QED BY <1>6, <1>7, <3>2, <4>1, <4>3, <4>4
    <3> QED BY <3>1, <3>2
  <2>2. ASSUME NEW a \in Consumers, NEW b \in Consumers,
               a # b, pc'[a] # "idle", pc'[b] # "idle"
        PROVE  j[a] + count'[a] <= j[b] \/ j[b] + count'[b] <= j[a]
    <3>1. CASE a # c /\ b # c
      BY <1>1, <1>6, <1>7, <2>2, <3>1 DEF Ranges
    <3>2. CASE a = c
      <4>1. i[b] + count[b] <= h
        BY <1>1, <1>7, <2>2, <3>2 DEF Ranges
      <4> QED BY <1>6, <1>7, <2>2, <3>2, <4>1
    <3>3. CASE b = c
      <4>1. i[a] + count[a] <= h
        BY <1>1, <1>7, <2>2, <3>3 DEF Ranges
      <4> QED BY <1>6, <1>7, <2>2, <3>3, <4>1
    <3> QED BY <3>1, <3>2, <3>3
  <2> QED BY <2>1, <2>2 DEF Ranges
<1>12. \A a \in Consumers : a # c => Pending(a, j)' = Pending(a, i)
  BY <1>6, <1>7 DEF Pending
<1>13. u = Unmoved(g, j)'
  <2>1. Pending(c, i) = {}
    BY <1>2 DEF Pending
  <2>2. \A x \in Int : x \in Pending(c, j)' <=> x >= h /\ x < g
    BY <1>3, <1>6, <1>7 DEF Pending
  <2>3. \A x \in Int : x >= h <=> x >= g \/ (x >= h /\ x < g)
    BY <1>1, <1>3
  <2>4. ASSUME NEW x \in Int
        PROVE  x \in Unmoved(h, i) <=> x \in Unmoved(g, j)'
    <3>1. (x \in Unmoved(h, i)) <=> (x >= h \/ \E a \in Consumers : a # c /\ x \in Pending(a, i))
      BY <2>1 DEF Unmoved
    <3>2. (x \in Unmoved(g, j)') <=>
             (x >= g \/ (x >= h /\ x < g) \/ \E a \in Consumers : a # c /\ x \in Pending(a, i))
      <4>1. (x \in Unmoved(g, j)') <=> (x >= g \/ \E a \in Consumers : x \in Pending(a, j)')
        BY DEF Unmoved
      <4> QED BY <1>12, <2>2, <4>1
    <3> QED BY <2>3, <3>1, <3>2
  <2> QED BY <1>1, <2>4 DEF Unmoved
<1>14. Waits(t, p, u)'
  BY <1>1, <1>2 DEF Waits, Kept
<1>15. At(p, j)'
  <2>1. SUFFICES ASSUME NEW a \in Consumers, a # c
                 PROVE  AtEntry(a, p, j)'
    <3>1. AtEntry(c, p, j)'
      BY <1>7 DEF AtEntry
    <3> QED BY <3>1 DEF At
  <2>2. AtEntry(a, p, i)
    BY <1>1 DEF At
  <2> QED BY <1>2, <1>6, <1>7, <2>1, <2>2 DEF AtEntry, EntryAt, BlockAt
<1>16. Counted(t, p, u, j)'
  <2>1. SUFFICES ASSUME NEW e \in Entries, value[e] # None, p[e] <= Top(t)
                 PROVE  /\ dequeued[value[e]] + Cardinality(LeftOf(p[e], u)) = BlockSize
                        /\ LeftOf(p[e], u) = {} =>
                              \E a \in Consumers : pc'[a] = "free" /\ Num(j[a]) = p[e]
    BY <1>2 DEF Counted, LeftOf
  <2>2. /\ dequeued[value[e]] + Cardinality(LeftOf(p[e], u)) = BlockSize
        /\ LeftOf(p[e], u) = {} => \E a \in Consumers : pc[a] = "free" /\ Num(i[a]) = p[e]
    BY <1>1, <2>1 DEF Counted
  <2>3. \A a \in Consumers : pc[a] = "free" => pc'[a] = "free" /\ j[a] = i[a]
    BY <1>2, <1>6, <1>7
  <2> QED BY <2>2, <2>3
<1>17. Freed(u, j)'
  <2>1. \A a \in Consumers : pc'[a] = "free" => pc[a] = "free" /\ j[a] = i[a]
    BY <1>6, <1>7
  <2> QED BY <1>1, <2>1 DEF Freed, LeftOf
<1>18. Inv(t, g, z, p, d, j, u)'
  BY <1>8, <1>9, <1>10, <1>11, <1>13, <1>14, <1>15, <1>16, <1>17 DEF Inv, ConsumerInv
<1> QED BY <1>18

(* A consumer looks for its block. *)
LEMMA SearchStep ==
    ASSUME NEW t, NEW h, NEW z, NEW p, NEW d, NEW i, NEW u, Inv(t, h, z, p, d, i, u),
           NEW c \in Consumers, pc[c] \in {"load", "locate"}, pc'[c] \in {"locate", "move"},
           \A a \in Consumers : a # c => pc'[a] = pc[a] /\ held'[a] = held[a] /\ at'[a] = at[a],
           UNCHANGED <<elements, dequeued, free, blockIndexes, key, value, op, index, count>>,
           TypeOK', AtEntry(c, p, i)'
    PROVE  Inv(t, h, z, p, d, i, u)'
<1>1. /\ Ranges(h, i) /\ u = Unmoved(h, i) /\ Waits(t, p, u) /\ At(p, i)
      /\ Counted(t, p, u, i) /\ Freed(u, i) /\ Counters(t, h) /\ Numbers(t, h, z, p, d, i, u)
  BY InvParts DEF ConsumerInv
<1>2. ProducerInv(t, z, p, d)' /\ TailIs(t, p)' /\ Owned'
  BY SameProducer DEF elements
<1>3. \A a \in Consumers : /\ pc'[a] = "idle" <=> pc[a] = "idle"
                           /\ pc'[a] = "free" <=> pc[a] = "free"
  OBVIOUS
<1>4. Counters(t, h)' /\ Numbers(t, h, z, p, d, i, u)'
  BY <1>1 DEF Counters, Numbers, elements
<1>5. Ranges(h, i)'
  BY <1>1, <1>3 DEF Ranges
<1>6. u = Unmoved(h, i)'
  <2>1. \A a \in Consumers : Pending(a, i)' = Pending(a, i)
    BY <1>3 DEF Pending
  <2> QED BY <1>1, <2>1 DEF Unmoved
<1>7. Waits(t, p, u)'
  BY <1>1 DEF Waits, Kept, elements
<1>8. At(p, i)'
  <2>1. SUFFICES ASSUME NEW a \in Consumers, a # c
                 PROVE  AtEntry(a, p, i)'
    BY DEF At
  <2>2. AtEntry(a, p, i)
    BY <1>1 DEF At
  <2> QED BY <2>1, <2>2 DEF AtEntry, EntryAt, BlockAt
<1>9. Counted(t, p, u, i)'
  BY <1>1, <1>3 DEF Counted, LeftOf
<1>10. Freed(u, i)'
  BY <1>1, <1>3 DEF Freed, LeftOf
<1> QED BY <1>2, <1>4, <1>5, <1>6, <1>7, <1>8, <1>9, <1>10 DEF Inv, ConsumerInv

(* While an entry holds a block that is full or being filled, the one at   *)
(* the tail of the index has a key.                                        *)
LEMMA TailHasKey ==
    ASSUME NEW t, NEW h, NEW z, NEW p, NEW d, NEW i, NEW u, Inv(t, h, z, p, d, i, u),
           NEW e \in Entries, value[e] # None, p[e] <= Top(t)
    PROVE  blockIndexes # <<>> /\ key[blockIndex.entry[blockIndex.tail]] # INVALID_BLOCK_BASE
<1>1. /\ t \in Nat /\ z \in Int /\ p \in [Entries -> Int] /\ d \in [Nat -> Int] /\ TypeOK
      /\ Placed(p, d) /\ Window(t, z, p, d) /\ Keyed(t, p) /\ Called(t)
  BY InvParts
<1>2. e \in Ring
  BY <1>1 DEF Keyed
<1>3. blockIndexes # <<>>
  BY <1>2 DEF Ring, Size
<1>4. PICK k \in Int, m \in Nat, x \in Int, y \in Int :
         k = Top(t) /\ m = Size /\ m > 0 /\ x = TailNum(t) /\ y = z
  BY <1>1, <1>3, LatestIs, TopIs, CurrentIs
<1>5. k <= x
  <2>1. PICK n \in Nat, w \in Nat : n = Len(op.chain) /\ w = op.undone /\ w <= n
    BY <1>1, LatestIs DEF Called
  <2>2. Latest(t) = k + n
    BY <1>4, <2>1 DEF Latest
  <2>3. x = (k + n) - w \/ x = ((k + n) - w) + 1
    BY <1>1, <1>4, <2>1, <2>2, LatestIs
  <2> QED BY <2>1, <2>3
<1>6. y - m <= k /\ x <= y
  BY <1>1, <1>3, <1>4 DEF Window
<1>7. PICK f : f = blockIndex.entry[blockIndex.tail]
  OBVIOUS
<1>8. CASE x > y - m
  <2>1. f \in Ring /\ p[f] = x
    BY <1>3, <1>4, <1>7, <1>8, TailEntry
  <2>2. p[e] <= p[f]
    <3>1. PICK g \in Int : g = p[e]
      BY <1>1
    <3> QED BY <1>4, <1>5, <2>1, <3>1
  <2> QED BY <1>1, <1>3, <1>7, <2>1, <2>2 DEF Keyed
<1>9. CASE ~(x > y - m)
  <2>1. x = y - m /\ k = x
    BY <1>5, <1>6, <1>9
  <2>2. y > y - m /\ y <= y
    BY <1>4
  <2>3. LET s == (y - d[Len(blockIndexes)]) % Size
        IN  blockIndex.entry[s] \in Ring /\ p[blockIndex.entry[s]] = y
    <3>1. \A w \in Int : w > z - Size /\ w <= z =>
             LET s == (w - d[Len(blockIndexes)]) % Size
             IN  blockIndex.entry[s] \in Ring /\ p[blockIndex.entry[s]] = w
      BY <1>3, EntryFor
    <3> QED BY <1>4, <2>2, <3>1
  <2>4. blockIndex.tail = (y - d[Len(blockIndexes)]) % Size
    <3>1. blockIndex.tail = (x - d[Len(blockIndexes)]) % Size
      BY <1>1, <1>3, <1>4 DEF Window
    <3>2. PICK N \in 1..Len(blockIndexes) : N = Len(blockIndexes)
      BY <1>1, <1>3, CurrentIs
    <3>3. blockIndexes[N].capacity = m
      BY <1>1, <1>3, <1>4, <3>2, CurrentIs DEF blockIndex
    <3>4. ((x + m) - d[N]) % m = (x - d[N]) % m
      BY <1>1, <1>4, <3>3, SameSlots
    <3>5. x + m = y
      BY <2>1
    <3> QED BY <1>4, <3>1, <3>2, <3>4, <3>5
  <2>5. f \in Ring /\ p[f] = y /\ p[f] > k
    BY <1>4, <1>7, <2>1, <2>3, <2>4
  <2>6. f \in Entries
    BY <1>1, <1>3, <2>5, CurrentIs
  <2> QED BY <1>1, <1>3, <1>4, <1>7, <2>5, <2>6 DEF Keyed
<1> QED BY <1>8, <1>9

LEMMA LoadTailKeeps ==
    ASSUME NEW t, NEW h, NEW z, NEW p, NEW d, NEW i, NEW u, Inv(t, h, z, p, d, i, u),
           NEW c \in Consumers, LoadTail(c)
    PROVE  Inv(t, h, z, p, d, i, u)'
<1>1. /\ p \in [Entries -> Int] /\ TypeOK /\ Keyed(t, p)
  BY InvParts
<1>2. /\ pc[c] = "load" /\ pc' = [pc EXCEPT ![c] = "locate"]
      /\ held' = [held EXCEPT ![c] = Len(blockIndexes)] /\ at' = [at EXCEPT ![c] = blockIndex.tail]
      /\ UNCHANGED <<elements, dequeued, free, blockIndexes, key, value, op, index, count>>
  BY DEF LoadTail
<1>3. PICK x \in Int : x = i[c] /\ x \in Pending(c, i)
  <2>1. i[c] \in Int /\ count[c] \in Nat /\ count[c] > 0
    BY <1>2, Active
  <2>2. i[c] >= i[c] /\ i[c] < i[c] + count[c]
    BY <2>1
  <2> QED BY <1>2, <2>1, <2>2 DEF Pending
<1>4. PICK e \in Entries : value[e] # None /\ p[e] = Num(x)
  BY <1>3, Waiting
<1>5. blockIndexes # <<>> /\ key[blockIndex.entry[blockIndex.tail]] # INVALID_BLOCK_BASE
  <2>1. p[e] <= Top(t)
    BY <1>3, <1>4, Waiting
  <2> QED BY <1>4, <2>1, TailHasKey
<1>6. PICK N \in Nat : N = Len(blockIndexes) /\ N \in 1..Len(blockIndexes)
  BY <1>1, <1>5, CurrentIs
<1>7. blockIndex.tail \in Ring /\ Ring = 0..(blockIndex.capacity - 1) /\ blockIndex.tail \in Nat
  <2>1. blockIndex.tail \in Ring /\ Ring = 0..(blockIndex.capacity - 1)
    BY <1>1, <1>5, CurrentIs DEF Ring
  <2> QED BY <2>1
<1>8. /\ pc'[c] = "locate" /\ held'[c] = N /\ at'[c] = blockIndex.tail
      /\ \A a \in Consumers : a # c => pc'[a] = pc[a] /\ held'[a] = held[a] /\ at'[a] = at[a]
  BY <1>1, <1>2, <1>6 DEF TypeOK
<1>9. TypeOK'
  <2>1. /\ pc' \in [Consumers -> {"idle", "load", "locate", "move", "free"}]
        /\ held' \in [Consumers -> Nat] /\ at' \in [Consumers -> Nat]
    BY <1>1, <1>2, <1>6, <1>7 DEF TypeOK
  <2> QED BY <1>1, <1>2, <2>1 DEF TypeOK, elements
<1>10. AtEntry(c, p, i)'
  <2>1. EntryAt(c)' = blockIndex.entry[blockIndex.tail]
    BY <1>2, <1>6, <1>8 DEF EntryAt, blockIndex
  <2>2. blockIndexes[N] = blockIndex
    BY <1>6 DEF blockIndex
  <2>3. \A f \in Entries : value[f] # None => f < blockIndex.capacity
    <3>1. SUFFICES ASSUME NEW f \in Entries, value[f] # None
                   PROVE  f < blockIndex.capacity
      OBVIOUS
    <3>2. f \in Ring
      BY <1>1, <3>1 DEF Keyed
    <3>3. blockIndex.capacity \in Nat
      BY <1>1, <1>5, CurrentIs
    <3> QED BY <1>7, <3>2, <3>3
  <2> QED BY <1>2, <1>5, <1>6, <1>7, <1>8, <2>1, <2>2, <2>3 DEF AtEntry
<1> QED BY <1>2, <1>8, <1>9, <1>10, SearchStep

LEMMA LocateKeeps ==
    ASSUME NEW t, NEW h, NEW z, NEW p, NEW d, NEW i, NEW u, Inv(t, h, z, p, d, i, u),
           NEW c \in Consumers, Locate(c)
    PROVE  Inv(t, h, z, p, d, i, u)'
<1>1. p \in [Entries -> Int] /\ TypeOK
  BY InvParts
<1>2. PICK N, s : N = held[c] /\ s = SlotFrom(blockIndexes[N], at[c], index[c])
  OBVIOUS
<1>3. /\ pc[c] = "locate" /\ pc' = [pc EXCEPT ![c] = "move"] /\ at' = [at EXCEPT ![c] = s]
      /\ UNCHANGED <<elements, dequeued, free, blockIndexes, key, value, op, index, count, held>>
  BY <1>2 DEF Locate
<1>4. PICK x \in Int : x = i[c] /\ x \in Pending(c, i) /\ index[c] = x % Modulus
  <2>1. i[c] \in Int /\ count[c] \in Nat /\ count[c] > 0 /\ index[c] = i[c] % Modulus
    BY <1>3, Active
  <2>2. i[c] >= i[c] /\ i[c] < i[c] + count[c]
    BY <2>1
  <2> QED BY <1>3, <2>1, <2>2 DEF Pending
<1>5. PICK e \in Entries : value[e] # None /\ p[e] = Num(x)
  BY <1>4, Waiting
<1>6. AtEntry(c, p, i)
  BY <1>3, Active
<1>7. N \in 1..Len(blockIndexes) /\ at[c] \in 0..(blockIndexes[N].capacity - 1)
      /\ key[blockIndexes[N].entry[at[c]]] # INVALID_BLOCK_BASE
  BY <1>2, <1>3, <1>6 DEF AtEntry, EntryAt
<1>8. e \in 0..(blockIndexes[N].capacity - 1)
  <2>1. x >= i[c] /\ x < i[c] + count[c]
    BY <1>4 DEF Pending
  <2>2. e < blockIndexes[N].capacity
    BY <1>2, <1>3, <1>5, <1>6, <2>1 DEF AtEntry
  <2>3. e \in Nat /\ blockIndexes[N].capacity \in Nat
    BY <1>1, <1>7, HeaderIs, Sizes DEF Entries
  <2> QED BY <2>2, <2>3
<1>9. s \in 0..(blockIndexes[N].capacity - 1) /\ blockIndexes[N].entry[s] = e
  BY <1>2, <1>4, <1>5, <1>7, <1>8, Lookup
<1>10. /\ pc'[c] = "move" /\ at'[c] = s /\ held'[c] = N
       /\ \A a \in Consumers : a # c => pc'[a] = pc[a] /\ held'[a] = held[a] /\ at'[a] = at[a]
  BY <1>1, <1>2, <1>3 DEF TypeOK
<1>11. TypeOK'
  <2>1. s \in Nat
    BY <1>1, <1>7, <1>9, HeaderIs
  <2>2. /\ pc' \in [Consumers -> {"idle", "load", "locate", "move", "free"}]
        /\ at' \in [Consumers -> Nat]
    BY <1>1, <1>3, <2>1 DEF TypeOK
  <2> QED BY <1>1, <1>3, <2>2 DEF TypeOK, elements
<1>12. AtEntry(c, p, i)'
  <2>1. EntryAt(c)' = e /\ BlockAt(c)' = value[e]
    BY <1>3, <1>9, <1>10 DEF EntryAt, BlockAt
  <2> QED BY <1>2, <1>3, <1>4, <1>5, <1>6, <1>7, <1>9, <1>10, <2>1 DEF AtEntry
<1> QED BY <1>3, <1>10, <1>11, <1>12, SearchStep

(* A consumer goes on to its next block, if there is one. *)
GoesOn(c, m, h, p, i, j) ==
    /\ pc' \in [Consumers -> {"idle", "load", "locate", "move", "free"}]
    /\ index' \in [Consumers -> Index] /\ count' \in [Consumers -> Nat]
    /\ held' \in [Consumers -> Nat] /\ at' \in [Consumers -> Nat]
    /\ \A a \in Consumers : a # c =>
          /\ j[a] = i[a] /\ pc'[a] = pc[a] /\ index'[a] = index[a]
          /\ count'[a] = count[a] /\ held'[a] = held[a] /\ at'[a] = at[a]
    /\ Ranges(h, j)' /\ pc'[c] \in {"idle", "move"}
    /\ \A x \in Int : x \in Pending(c, j)' <=> x >= i[c] + m /\ x < i[c] + count[c]
    /\ pc'[c] = "move" =>
          /\ j[c] = i[c] + m /\ m < count[c] /\ j[c] + count'[c] = i[c] + count[c]
          /\ held'[c] = held[c] /\ at'[c] \in 0..(blockIndexes[held[c]].capacity - 1)
          /\ \A e \in Entries : value[e] # None /\ p[e] = Num(j[c]) =>
                blockIndexes[held[c]].entry[at'[c]] = e

LEMMA GoneOn ==
    ASSUME NEW t, NEW h, NEW z, NEW p, NEW d, NEW i, NEW u, Inv(t, h, z, p, d, i, u),
           NEW c \in Consumers, pc[c] \in {"move", "free"},
           NEW m, m = Cardinality(InBlock(c)), GoOn(c, m)
    PROVE  \E j \in [Consumers -> Int] : GoesOn(c, m, h, p, i, j)
<1>1. /\ i \in [Consumers -> Int] /\ TypeOK /\ Ranges(h, i) /\ Placed(p, d)
      /\ p \in [Entries -> Int] /\ d \in [Nat -> Int] /\ h \in Nat
  BY InvParts DEF ConsumerInv
<1>2. PICK x \in Int, n \in Nat : x = i[c] /\ n = count[c] /\ n > 0 /\ index[c] = x % Modulus
                                  /\ x + n <= h
  BY Active
<1>3. /\ m \in Nat /\ m >= 1 /\ m <= n
      /\ m < n => Num(x + m) = Num(x) + 1
  <2>1. index[c] = i[c] % Modulus /\ count[c] > 0
    BY <1>2
  <2> QED BY <1>1, <1>2, <2>1, InBlockIs
<1>4. AtEntry(c, p, i)
  BY Active
<1>5. CASE m = n
  <2>1. Done(c)
    BY <1>2, <1>5 DEF GoOn
  <2>2. /\ pc' \in [Consumers -> {"idle", "load", "locate", "move", "free"}]
        /\ index' \in [Consumers -> Index] /\ count' \in [Consumers -> Nat]
        /\ held' \in [Consumers -> Nat] /\ at' \in [Consumers -> Nat]
    <3>1. 0 \in Index
      BY Sizes DEF Index
    <3> QED BY <1>1, <2>1, <3>1 DEF Done, TypeOK
  <2>3. /\ \A a \in Consumers : a # c =>
              /\ i[a] = i[a] /\ pc'[a] = pc[a] /\ index'[a] = index[a]
              /\ count'[a] = count[a] /\ held'[a] = held[a] /\ at'[a] = at[a]
        /\ pc'[c] = "idle"
    BY <1>1, <2>1 DEF Done, TypeOK
  <2>4. Ranges(h, i)'
    BY <1>1, <2>3 DEF Ranges
  <2>5. \A w \in Int : w \in Pending(c, i)' <=> w >= i[c] + m /\ w < i[c] + count[c]
    <3>1. \A w \in Int : ~(w >= x + n /\ w < x + n)
      OBVIOUS
    <3>2. Pending(c, i)' = {}
      BY <2>3 DEF Pending
    <3> QED BY <1>2, <1>5, <3>1, <3>2
  <2> QED BY <1>1, <2>2, <2>3, <2>4, <2>5 DEF GoesOn
<1>6. CASE m # n
  <2>0. m < n
    BY <1>3, <1>6
  <2>1. PICK N, s : N = held[c] /\ s = (at[c] + 1) % blockIndexes[N].capacity
    OBVIOUS
  <2>2. /\ pc' = [pc EXCEPT ![c] = "move"] /\ index' = [index EXCEPT ![c] = Add(index[c], m)]
        /\ count' = [count EXCEPT ![c] = count[c] - m] /\ at' = [at EXCEPT ![c] = s]
        /\ held' = held
    BY <1>2, <1>6, <2>1 DEF GoOn
  <2>3. N \in 1..Len(blockIndexes) /\ N \in Nat /\ at[c] \in 0..(blockIndexes[N].capacity - 1)
        /\ EntryAt(c) \in Entries /\ p[EntryAt(c)] = Num(x)
        /\ \A e \in Entries, w \in Int :
              value[e] # None /\ w >= x /\ w < x + n /\ p[e] = Num(w)
                 => e < blockIndexes[N].capacity
    <3>1. pc[c] \in {"locate", "move", "free"} /\ pc[c] # "locate"
      OBVIOUS
    <3>2. EntryAt(c) \in Entries
      BY <1>1, <1>4, <3>1, EntryAtIs
    <3> QED BY <1>2, <1>4, <2>1, <3>1, <3>2 DEF AtEntry
  <2>4. PICK g \in Nat : g = blockIndexes[N].capacity /\ g > 0
    BY <1>1, <2>3, HeaderIs
  <2>5. PICK r \in Int : r = at[c] /\ r \in 0..(g - 1)
    BY <2>3, <2>4
  <2>6. s \in 0..(g - 1) /\ s \in Nat
    <3>1. r + 1 \in Int
      OBVIOUS
    <3>2. (r + 1) % g \in 0..(g - 1)
      BY <2>4, <3>1, ModIs
    <3> QED BY <2>1, <2>4, <2>5, <3>2
  <2>7. PICK j : j = [i EXCEPT ![c] = x + m]
    OBVIOUS
  <2>8. j \in [Consumers -> Int] /\ j[c] = x + m /\ \A a \in Consumers : a # c => j[a] = i[a]
    BY <1>1, <1>3, <2>7
  <2>9. Add(index[c], m) = (x + m) % Modulus /\ Add(index[c], m) \in Index
    <3>1. PICK w \in Int, y \in Int : w = m /\ y = x + w
      BY <1>3
    <3>2. Add(x % Modulus, w) = (x + w) % Modulus
      BY Wrapped
    <3>3. y % Modulus \in Index
      BY Wrapped
    <3> QED BY <1>2, <3>1, <3>2, <3>3
  <2>10. n - m \in Nat /\ n - m > 0 /\ (x + m) + (n - m) = x + n
    BY <1>3, <2>0
  <2>11. /\ pc' \in [Consumers -> {"idle", "load", "locate", "move", "free"}]
         /\ index' \in [Consumers -> Index] /\ count' \in [Consumers -> Nat]
         /\ held' \in [Consumers -> Nat] /\ at' \in [Consumers -> Nat]
    BY <1>1, <1>2, <2>2, <2>6, <2>9, <2>10 DEF TypeOK
  <2>12. /\ \A a \in Consumers : a # c =>
               /\ j[a] = i[a] /\ pc'[a] = pc[a] /\ index'[a] = index[a]
               /\ count'[a] = count[a] /\ held'[a] = held[a] /\ at'[a] = at[a]
         /\ pc'[c] = "move" /\ index'[c] = (x + m) % Modulus /\ count'[c] = n - m
         /\ held'[c] = N /\ at'[c] = s
    BY <1>1, <1>2, <2>1, <2>2, <2>8, <2>9 DEF TypeOK
  <2>13. Ranges(h, j)'
    <3>1. ASSUME NEW a \in Consumers, pc'[a] # "idle"
          PROVE  count'[a] > 0 /\ j[a] + count'[a] <= h /\ index'[a] = j[a] % Modulus
      <4>1. CASE a = c
        BY <1>2, <2>8, <2>10, <2>12, <4>1
      <4>2. CASE a # c
        BY <1>1, <2>12, <3>1, <4>2 DEF Ranges
      <4> QED BY <4>1, <4>2
    <3>2. x <= x + m
      BY <1>3
    <3>3. ASSUME NEW a \in Consumers, a # c, pc'[a] # "idle"
          PROVE  j[a] + count'[a] <= j[c] \/ j[c] + count'[c] <= j[a]
      <4>1. i[a] + count[a] <= x \/ x + n <= i[a]
        BY <1>1, <1>2, <2>12, <3>3 DEF Ranges
      <4>4. i[a] \in Int /\ count[a] \in Nat
        BY <1>1 DEF TypeOK
      <4>2. PICK b \in Int, w \in Int : b = i[a] /\ w = i[a] + count[a]
        BY <4>4
      <4>3. w <= x => w <= x + m
        BY <3>2, <1>3
      <4> QED BY <2>8, <2>10, <2>12, <3>3, <4>1, <4>2, <4>3
    <3>4. ASSUME NEW a \in Consumers, NEW b \in Consumers,
                 a # b, pc'[a] # "idle", pc'[b] # "idle"
          PROVE  j[a] + count'[a] <= j[b] \/ j[b] + count'[b] <= j[a]
      <4>1. CASE a # c /\ b # c
        BY <1>1, <2>12, <3>4, <4>1 DEF Ranges
      <4>2. CASE a = c
        BY <3>3, <3>4, <4>2
      <4>3. CASE b = c
        BY <3>3, <3>4, <4>3
      <4> QED BY <4>1, <4>2, <4>3
    <3> QED BY <3>1, <3>4 DEF Ranges
  <2>14. \A w \in Int : w \in Pending(c, j)' <=> w >= i[c] + m /\ w < i[c] + count[c]
    BY <1>2, <2>8, <2>10, <2>12 DEF Pending
  <2>15. ASSUME NEW e \in Entries, value[e] # None, p[e] = Num(x + m)
         PROVE  blockIndexes[N].entry[s] = e
    <3>1. PICK w \in Int : w = x + m /\ w >= x /\ w < x + n
      BY <1>3, <2>0
    <3>2. e < g
      BY <2>3, <2>4, <2>15, <3>1
    <3>3. e \in 0..(g - 1)
      BY <2>4, <3>2, Sizes DEF Entries
    <3>4. PICK k \in Int, b \in Int : k = Num(x) /\ b = d[N]
      BY <1>1, <2>3, NumOf
    <3>5. p[e] = k + 1
      BY <1>3, <2>0, <2>15, <3>4
    <3>6. PlacedIn(N, p, d)
      BY <1>1, <2>3 DEF Placed
    <3>7. blockIndexes[N].entry[((k + 1) - b) % g] = e
      BY <2>4, <3>3, <3>4, <3>5, <3>6 DEF PlacedIn
    <3>8. r = (k - b) % g
      <4>1. r \in 0..(g - 1) /\ EntryAt(c) = blockIndexes[N].entry[r]
        BY <2>1, <2>5 DEF EntryAt
      <4>2. (p[EntryAt(c)] - d[N]) % g = r
        BY <2>4, <3>6, <4>1 DEF PlacedIn
      <4> QED BY <2>3, <3>4, <4>2
    <3>9. (r + 1) % g = ((k + 1) - b) % g
      <4>1. PICK y \in Int : y = k - b
        OBVIOUS
      <4>2. PICK v \in Int : v = 1
        OBVIOUS
      <4>3. ((y % g) + 1) % g = (y + 1) % g
        <5>1. g \in Nat /\ g > 0
          BY <2>4
        <5>2. ((y % g) + v) % g = (y + v) % g
          BY <5>1, ModPlus
        <5> QED BY <4>2, <5>2
      <4>4. y + 1 = (k + 1) - b
        BY <4>1
      <4> QED BY <3>8, <4>1, <4>3, <4>4
    <3> QED BY <2>1, <2>4, <2>5, <3>7, <3>9
  <2>16. /\ j[c] = i[c] + m /\ m < count[c] /\ j[c] + count'[c] = i[c] + count[c]
         /\ held'[c] = held[c] /\ at'[c] \in 0..(blockIndexes[held[c]].capacity - 1)
         /\ \A e \in Entries : value[e] # None /\ p[e] = Num(j[c]) =>
               blockIndexes[held[c]].entry[at'[c]] = e
    BY <1>2, <2>0, <2>1, <2>4, <2>6, <2>8, <2>10, <2>12, <2>15
  <2>17. pc'[c] \in {"idle", "move"}
    BY <2>12
  <2> QED BY <2>8, <2>11, <2>12, <2>13, <2>14, <2>16, <2>17 DEF GoesOn
<1> QED BY <1>5, <1>6

-------------------------------------------------------------------------------
(* What a block still holds once a consumer has moved out its part. *)
LEMMA LeftAfter ==
    ASSUME NEW t, NEW h, NEW z, NEW p, NEW d, NEW i, NEW u, Inv(t, h, z, p, d, i, u),
           NEW c \in Consumers, pc[c] = "move", NEW m, m = Cardinality(InBlock(c)),
           NEW v, v = {w \in u : ~(w >= i[c] /\ w < i[c] + m)}
    PROVE  /\ LeftOf(Num(i[c]), u) # {} /\ IsFiniteSet(LeftOf(Num(i[c]), v))
           /\ Cardinality(LeftOf(Num(i[c]), u)) \in Nat
           /\ Cardinality(LeftOf(Num(i[c]), v)) = Cardinality(LeftOf(Num(i[c]), u)) - m
           /\ \A q \in Int : q # Num(i[c]) => LeftOf(q, v) = LeftOf(q, u)
<1>1. /\ i \in [Consumers -> Int] /\ TypeOK /\ u \in SUBSET Int
  BY InvParts
<1>2. PICK x \in Int, n \in Nat : x = i[c] /\ n = count[c] /\ n > 0 /\ index[c] = i[c] % Modulus
  BY Active
<1>3. /\ m \in Nat /\ m >= 1 /\ m <= n /\ IsFiniteSet(InBlock(c))
      /\ \A w \in Int : Num(w) = Num(x) => (w % BlockSize \in InBlock(c) <=> w >= x /\ w < x + m)
      /\ \A w \in Int : w >= x /\ w < x + n => (Num(w) = Num(x) <=> w < x + m)
  <2>1. count[c] > 0
    BY <1>2
  <2> QED BY <1>1, <1>2, <2>1, InBlockIs
<1>4. PICK k \in Int : k = Num(x)
  BY NumOf
<1>5. \A w \in Int : w >= x /\ w < x + m => w \in u /\ Num(w) = k
  <2>1. SUFFICES ASSUME NEW w \in Int, w >= x, w < x + m
                 PROVE  w \in u /\ Num(w) = k
    OBVIOUS
  <2>2. w < x + n
    BY <1>3, <2>1
  <2>3. w \in Pending(c, i)
    BY <1>2, <2>1, <2>2 DEF Pending
  <2> QED BY <1>3, <1>4, <2>1, <2>2, <2>3, Waiting
<1>6. ASSUME NEW o \in Offsets
      PROVE  /\ k * BlockSize + o \in Int /\ Num(k * BlockSize + o) = k
             /\ o \in InBlock(c) <=> (k * BlockSize + o >= x /\ k * BlockSize + o < x + m)
  <2>1. PICK w \in Int : w = k * BlockSize + o
    BY Sizes DEF Offsets
  <2>2. Num(w) = k /\ w % BlockSize = o
    BY <2>1, NumIs
  <2>3. o \in InBlock(c) <=> w >= x /\ w < x + m
    BY <1>3, <1>4, <2>2
  <2> QED BY <2>1, <2>2, <2>3
<1>7. LeftOf(k, v) = LeftOf(k, u) \ InBlock(c)
  <2>1. ASSUME NEW o \in Offsets
        PROVE  o \in LeftOf(k, v) <=> o \in LeftOf(k, u) /\ o \notin InBlock(c)
    <3>1. PICK w \in Int : w = k * BlockSize + o
      BY <1>6
    <3>2. o \in InBlock(c) <=> w >= x /\ w < x + m
      BY <1>6, <3>1
    <3>3. w \in v <=> w \in u /\ ~(w >= x /\ w < x + m)
      BY <1>2
    <3> QED BY <3>1, <3>2, <3>3 DEF LeftOf
  <2> QED BY <2>1 DEF LeftOf
<1>8. InBlock(c) \subseteq LeftOf(k, u)
  <2>1. SUFFICES ASSUME NEW o \in InBlock(c)
                 PROVE  o \in LeftOf(k, u)
    OBVIOUS
  <2>2. o \in Offsets
    BY DEF InBlock
  <2>3. k * BlockSize + o \in u
    BY <1>5, <1>6, <2>2
  <2> QED BY <2>2, <2>3 DEF LeftOf
<1>9. x % BlockSize \in LeftOf(k, u)
  <2>1. x >= x /\ x < x + m
    BY <1>3
  <2> QED BY <1>3, <1>8, <2>1
<1>10. IsFiniteSet(LeftOf(k, u))
  <2>1. 0 \in Int /\ BlockSize - 1 \in Int
    BY Sizes
  <2>2. IsFiniteSet(Offsets)
    BY <2>1, FS_Interval DEF Offsets
  <2>3. LeftOf(k, u) \in SUBSET Offsets
    BY DEF LeftOf
  <2> QED BY <2>2, <2>3, FS_Subset
<1>11. /\ IsFiniteSet(LeftOf(k, v)) /\ Cardinality(LeftOf(k, u)) \in Nat
       /\ Cardinality(LeftOf(k, v)) = Cardinality(LeftOf(k, u)) - m
  <2>1. LeftOf(k, u) \cap InBlock(c) = InBlock(c)
    BY <1>8
  <2>2. PICK S, T : S = LeftOf(k, u) /\ T = InBlock(c)
    OBVIOUS
  <2>3. IsFiniteSet(S \ T) /\ Cardinality(S \ T) = Cardinality(S) - Cardinality(S \cap T)
    BY <1>10, <2>2, FS_Difference
  <2>4. Cardinality(S) \in Nat
    BY <1>10, <2>2, FS_CardinalityType
  <2> QED BY <1>7, <2>1, <2>2, <2>3, <2>4
<1>12. ASSUME NEW q \in Int, q # k
       PROVE  LeftOf(q, v) = LeftOf(q, u)
  <2>1. ASSUME NEW o \in Offsets
        PROVE  o \in LeftOf(q, v) <=> o \in LeftOf(q, u)
    <3>1. PICK w \in Int : w = q * BlockSize + o
      BY Sizes DEF Offsets
    <3>2. Num(w) = q
      BY <3>1, NumIs
    <3>3. ~(w >= x /\ w < x + m)
      BY <1>5, <1>12, <3>2
    <3>4. w \in v <=> w \in u
      BY <1>2, <3>3
    <3> QED BY <3>1, <3>4 DEF LeftOf
  <2> QED BY <2>1 DEF LeftOf
<1> QED BY <1>2, <1>4, <1>9, <1>11, <1>12

(* Where a consumer is after it has moved its elements of a block. *)
MovesOn(c, m, h, p, i, j) ==
    /\ pc' \in [Consumers -> {"idle", "load", "locate", "move", "free"}]
    /\ index' \in [Consumers -> Index] /\ count' \in [Consumers -> Nat]
    /\ held' \in [Consumers -> Nat] /\ at' \in [Consumers -> Nat]
    /\ \A a \in Consumers : a # c =>
          /\ j[a] = i[a] /\ pc'[a] = pc[a] /\ index'[a] = index[a]
          /\ count'[a] = count[a] /\ held'[a] = held[a] /\ at'[a] = at[a]
    /\ Ranges(h, j)'
    /\ \A x \in Int : x \in Pending(c, j)' <=> x >= i[c] + m /\ x < i[c] + count[c]
    /\ AtEntry(c, p, j)'
    /\ pc'[c] = "free" <=> dequeued[BlockAt(c)] + m = BlockSize
    /\ pc'[c] = "free" => j[c] = i[c]

LEMMA MovedOn ==
    ASSUME NEW t, NEW h, NEW z, NEW p, NEW d, NEW i, NEW u, Inv(t, h, z, p, d, i, u),
           NEW c \in Consumers, MoveBlock(c), NEW m, m = Cardinality(InBlock(c))
    PROVE  \E j \in [Consumers -> Int] : MovesOn(c, m, h, p, i, j)
<1>1. /\ i \in [Consumers -> Int] /\ TypeOK /\ Ranges(h, i)
  BY InvParts DEF ConsumerInv
<1>2. pc[c] = "move" /\ AtEntry(c, p, i)
  <2>1. pc[c] = "move" /\ pc[c] # "idle"
    BY DEF MoveBlock
  <2> QED BY <2>1, Active
<1>3. PICK x \in Int, n \in Nat : x = i[c] /\ n = count[c] /\ n > 0 /\ index[c] = i[c] % Modulus
  BY <1>2, Active
<1>4. /\ m \in Nat /\ m >= 1 /\ m <= n
      /\ \A w \in Int : w >= x /\ w < x + n => (Num(w) = Num(x) <=> w < x + m)
  <2>1. count[c] > 0
    BY <1>3
  <2> QED BY <1>1, <1>3, <2>1, InBlockIs
<1>5. UNCHANGED <<free, blockIndexes, key, value, op>>
  BY DEF MoveBlock
<1>6. CASE IsEmptyWith(BlockAt(c), m)
  <2>1. pc' = [pc EXCEPT ![c] = "free"] /\ UNCHANGED <<index, count, held, at>>
    BY <1>6 DEF MoveBlock
  <2>2. pc'[c] = "free" /\ \A a \in Consumers : a # c => pc'[a] = pc[a]
    BY <1>1, <2>1 DEF TypeOK
  <2>3. pc' \in [Consumers -> {"idle", "load", "locate", "move", "free"}]
    BY <1>1, <2>1 DEF TypeOK
  <2>4. Ranges(h, i)'
    <3>1. \A a \in Consumers : pc'[a] # "idle" => pc[a] # "idle"
      BY <1>2, <2>2
    <3> QED BY <1>1, <2>1, <3>1 DEF Ranges
  <2>5. \A w \in Int : w \in Pending(c, i)' <=> w >= i[c] + m /\ w < i[c] + count[c]
    <3>1. \A w \in Int : w \in Pending(c, i)' <=> w >= x /\ w < x + n /\ Num(w) # Num(x)
      BY <1>3, <2>1, <2>2 DEF Pending
    <3>2. \A w \in Int : w >= x /\ w < x + n /\ Num(w) # Num(x) <=> w >= x + m /\ w < x + n
      <4>1. SUFFICES ASSUME NEW w \in Int
                     PROVE  w >= x /\ w < x + n /\ Num(w) # Num(x) <=> w >= x + m /\ w < x + n
        OBVIOUS
      <4>2. w >= x /\ w < x + n => (Num(w) = Num(x) <=> w < x + m)
        BY <1>4
      <4>3. w >= x + m <=> w >= x /\ ~(w < x + m)
        BY <1>4
      <4> QED BY <4>2, <4>3
    <3> QED BY <1>3, <3>1, <3>2
  <2>6. AtEntry(c, p, i)'
    BY <1>2, <1>5, <2>1, <2>2 DEF AtEntry, EntryAt, BlockAt
  <2>7. dequeued[BlockAt(c)] + m = BlockSize
    BY <1>6 DEF IsEmptyWith
  <2> QED BY <1>1, <2>1, <2>2, <2>3, <2>4, <2>5, <2>6, <2>7 DEF TypeOK, MovesOn
<1>7. CASE ~IsEmptyWith(BlockAt(c), m)
  <2>1. GoOn(c, m)
    BY <1>7 DEF MoveBlock
  <2>5. PICK j \in [Consumers -> Int] : GoesOn(c, m, h, p, i, j)
    BY <1>2, <2>1, GoneOn
  <2>2. /\ pc' \in [Consumers -> {"idle", "load", "locate", "move", "free"}]
        /\ index' \in [Consumers -> Index] /\ count' \in [Consumers -> Nat]
        /\ held' \in [Consumers -> Nat] /\ at' \in [Consumers -> Nat]
        /\ \A a \in Consumers : a # c =>
              /\ j[a] = i[a] /\ pc'[a] = pc[a] /\ index'[a] = index[a]
              /\ count'[a] = count[a] /\ held'[a] = held[a] /\ at'[a] = at[a]
        /\ Ranges(h, j)' /\ pc'[c] \in {"idle", "move"}
        /\ \A w \in Int : w \in Pending(c, j)' <=> w >= i[c] + m /\ w < i[c] + count[c]
        /\ pc'[c] = "move" =>
              /\ j[c] = i[c] + m /\ m < count[c] /\ j[c] + count'[c] = i[c] + count[c]
              /\ held'[c] = held[c] /\ at'[c] \in 0..(blockIndexes[held[c]].capacity - 1)
              /\ \A e \in Entries : value[e] # None /\ p[e] = Num(j[c]) =>
                    blockIndexes[held[c]].entry[at'[c]] = e
    BY <2>5 DEF GoesOn
  <2>3. ~(dequeued[BlockAt(c)] + m = BlockSize) /\ pc'[c] # "free"
    BY <1>7, <2>2 DEF IsEmptyWith
  <2>4. AtEntry(c, p, j)'
    <3>1. SUFFICES ASSUME pc'[c] = "move"
                   PROVE  AtEntry(c, p, j)'
      BY <2>2 DEF AtEntry
    <3>2. PICK y \in Int : y = x + m /\ y >= x /\ y < x + n /\ j[c] = y
      BY <1>3, <1>4, <2>2, <3>1
    <3>3. PICK e \in Entries : value[e] # None /\ p[e] = Num(y)
      <4>1. y \in Pending(c, i)
        BY <1>2, <1>3, <3>2 DEF Pending
      <4> QED BY <4>1, Waiting
    <3>4. held'[c] = held[c] /\ at'[c] \in 0..(blockIndexes[held[c]].capacity - 1)
          /\ blockIndexes[held[c]].entry[at'[c]] = e
      BY <2>2, <3>1, <3>2, <3>3
    <3>5. EntryAt(c)' = e /\ BlockAt(c)' = value[e]
      BY <1>5, <3>4 DEF EntryAt, BlockAt
    <3>6. \A w \in Int : w >= y /\ w < y + count'[c] => w >= x /\ w < x + n
      <4>1. y + count'[c] = x + n
        BY <1>3, <2>2, <3>1, <3>2
      <4> QED BY <3>2, <4>1
    <3>7. held[c] \in 1..Len(blockIndexes)
          /\ \A f \in Entries, w \in Int :
                value[f] # None /\ w >= x /\ w < x + n /\ p[f] = Num(w)
                   => f < blockIndexes[held[c]].capacity
      BY <1>2, <1>3 DEF AtEntry
    <3> QED BY <1>5, <3>1, <3>2, <3>3, <3>4, <3>5, <3>6, <3>7 DEF AtEntry
  <2> QED BY <2>2, <2>3, <2>4 DEF MovesOn
<1> QED BY <1>6, <1>7

(* A consumer moves its elements of a block out. *)
LEMMA MoveBlockKeeps ==
    ASSUME NEW t, NEW h, NEW z, NEW p, NEW d, NEW i, NEW u, Inv(t, h, z, p, d, i, u),
           NEW c \in Consumers, MoveBlock(c)
    PROVE  \E j, v : Inv(t, h, z, p, d, j, v)'
<1>1. /\ t \in Nat /\ h \in Nat /\ h <= t /\ i \in [Consumers -> Int] /\ TypeOK /\ u \in SUBSET Int
      /\ p \in [Entries -> Int] /\ Placed(p, d) /\ Keyed(t, p) /\ Owned
      /\ Numbers(t, h, z, p, d, i, u) /\ Counters(t, h)
  BY InvParts
<1>2. /\ Ranges(h, i) /\ u = Unmoved(h, i) /\ Waits(t, p, u) /\ At(p, i)
      /\ Counted(t, p, u, i) /\ Freed(u, i)
  BY InvParts DEF ConsumerInv
<1>3. PICK m : m = Cardinality(InBlock(c))
  OBVIOUS
<1>28. PICK j \in [Consumers -> Int] : MovesOn(c, m, h, p, i, j)
  BY <1>3, MovedOn
<1>4. /\ pc' \in [Consumers -> {"idle", "load", "locate", "move", "free"}]
      /\ index' \in [Consumers -> Index] /\ count' \in [Consumers -> Nat]
      /\ held' \in [Consumers -> Nat] /\ at' \in [Consumers -> Nat]
      /\ \A a \in Consumers : a # c =>
            /\ j[a] = i[a] /\ pc'[a] = pc[a] /\ index'[a] = index[a]
            /\ count'[a] = count[a] /\ held'[a] = held[a] /\ at'[a] = at[a]
      /\ Ranges(h, j)'
      /\ \A x \in Int : x \in Pending(c, j)' <=> x >= i[c] + m /\ x < i[c] + count[c]
      /\ AtEntry(c, p, j)'
      /\ pc'[c] = "free" <=> dequeued[BlockAt(c)] + m = BlockSize
      /\ pc'[c] = "free" => j[c] = i[c]
  BY <1>28 DEF MovesOn
<1>5. PICK v : v = {w \in u : ~(w >= i[c] /\ w < i[c] + m)}
  OBVIOUS
<1>6. /\ pc[c] = "move"
      /\ UNCHANGED <<tailIndex, headIndex, tailBlock, free, blockIndexes, key, value, op>>
  BY DEF MoveBlock
<1>7. PICK x \in Int, n \in Nat : /\ x = i[c] /\ n = count[c] /\ n > 0
                                  /\ index[c] = i[c] % Modulus /\ x + n <= h
  BY <1>6, Active
<1>8. /\ m \in Nat /\ m >= 1 /\ m <= n
      /\ \A w \in Int : Num(w) = Num(x) => (w % BlockSize \in InBlock(c) <=> w >= x /\ w < x + m)
  <2>1. count[c] > 0
    BY <1>7
  <2> QED BY <1>1, <1>3, <1>7, <2>1, InBlockIs
<1>9. PICK k \in Int : k = Num(x) /\ k <= Top(t)
  <2>1. x >= x /\ x < x + n
    BY <1>7
  <2>2. x \in Pending(c, i)
    BY <1>6, <1>7, <2>1 DEF Pending
  <2>3. Num(x) <= Top(t)
    BY <2>2, Waiting
  <2> QED BY <2>3, NumOf
<1>10. PICK e \in Entries : e = EntryAt(c) /\ value[e] # None /\ p[e] = k /\ e \in Ring
  <2>1. AtEntry(c, p, i) /\ pc[c] \in {"locate", "move", "free"} /\ pc[c] # "locate"
    BY <1>2, <1>6 DEF At
  <2>2. EntryAt(c) \in Entries
    BY <1>1, <2>1, EntryAtIs
  <2>3. value[EntryAt(c)] # None /\ p[EntryAt(c)] = Num(i[c])
    BY <2>1 DEF AtEntry, BlockAt
  <2>4. EntryAt(c) \in Ring
    BY <1>1, <2>2, <2>3 DEF Keyed
  <2> QED BY <1>7, <1>9, <2>2, <2>3, <2>4
<1>11. PICK b \in Blocks : b = value[e] /\ b = BlockAt(c)
  BY <1>1, <1>10 DEF TypeOK, BlockAt
<1>12. /\ slot' = [slot EXCEPT ![b] =
                      [o \in Offsets |-> IF o \in InBlock(c) THEN Nothing ELSE slot[b][o]]]
       /\ dequeued' = [dequeued EXCEPT ![b] = dequeued[b] + m]
  BY <1>3, <1>11 DEF MoveBlock
<1>13. /\ \A o \in Offsets : o \notin InBlock(c) => slot'[b][o] = slot[b][o]
       /\ dequeued'[b] = dequeued[b] + m
       /\ \A a \in Blocks : a # b => slot'[a] = slot[a] /\ dequeued'[a] = dequeued[a]
  BY <1>1, <1>12 DEF TypeOK
<1>14. \A f \in Entries : value[f] # None /\ f # e =>
          /\ value[f] \in Blocks /\ value[f] # b /\ p[f] # k
  <2>1. SUFFICES ASSUME NEW f \in Entries, value[f] # None, f # e
                 PROVE  value[f] \in Blocks /\ value[f] # b /\ p[f] # k
    OBVIOUS
  <2>2. value[f] \in Blocks
    BY <1>1, <2>1 DEF TypeOK
  <2>3. value[f] # b
    BY <1>1, <1>11, <2>1 DEF Owned
  <2>4. f \in Ring
    BY <1>1, <2>1 DEF Keyed
  <2>5. p[f] # p[e]
    BY <1>1, <1>10, <2>1, <2>4, OneEntry
  <2> QED BY <1>10, <2>2, <2>3, <2>5
<1>15. TypeOK'
  <2>1. slot' \in [Blocks -> [Offsets -> 0..Modulus]]
    <3>1. Nothing \in 0..Modulus
      BY Sizes DEF Nothing
    <3>2. slot[b] \in [Offsets -> 0..Modulus]
      BY <1>1 DEF TypeOK
    <3>3. PICK S : S = [o \in Offsets |-> IF o \in InBlock(c) THEN Nothing ELSE slot[b][o]]
      OBVIOUS
    <3>4. S \in [Offsets -> 0..Modulus]
      BY <3>1, <3>2, <3>3
    <3>5. slot' = [slot EXCEPT ![b] = S]
      BY <1>12, <3>3
    <3> QED BY <1>1, <3>4, <3>5 DEF TypeOK
  <2>2. dequeued' \in [Blocks -> Nat]
    <3>1. dequeued \in [Blocks -> Nat]
      BY <1>1 DEF TypeOK
    <3>2. PICK g \in Nat : g = dequeued[b] + m
      BY <1>8, <3>1
    <3>3. dequeued' = [dequeued EXCEPT ![b] = g]
      BY <1>12, <3>2
    <3> QED BY <3>1, <3>3
  <2> QED BY <1>1, <1>4, <1>6, <2>1, <2>2 DEF TypeOK
<1>16. ProducerInv(t, z, p, d)' /\ TailIs(t, p)' /\ Owned'
  <2>1. ASSUME NEW f \in Entries, value[f] # None, p[f] > Top(t)
        PROVE  dequeued'[value[f]] = dequeued[value[f]]
    <3>1. p[f] # k
      <4>1. PICK y \in Int, w \in Int : y = p[f] /\ w = Top(t)
        BY <1>1, TopIs
      <4> QED BY <1>9, <2>1, <4>1
    <3>2. f # e
      BY <1>10, <3>1
    <3> QED BY <1>13, <1>14, <2>1, <3>2
  <2> QED BY <1>6, <2>1, SameProducer
<1>17. Counters(t, h)' /\ Numbers(t, h, z, p, d, j, v)'
  <2>1. v \in SUBSET Int
    BY <1>1, <1>5
  <2> QED BY <1>1, <1>4, <1>6, <2>1 DEF Counters, Numbers

<1>18. v = Unmoved(h, j)'
  <2>1. \A a \in Consumers : a # c => Pending(a, j)' = Pending(a, i)
    BY <1>4 DEF Pending
  <2>2. \A w \in Int : w \in Pending(c, i) <=> w >= x /\ w < x + n
    BY <1>6, <1>7 DEF Pending
  <2>3. ASSUME NEW w \in Int, NEW a \in Consumers, a # c, w \in Pending(a, i)
        PROVE  ~(w >= x /\ w < x + m)
    <3>1. pc[a] # "idle" /\ w >= i[a] /\ w < i[a] + count[a]
      BY <2>3 DEF Pending
    <3>2. i[a] + count[a] <= x \/ x + n <= i[a]
      BY <1>2, <1>6, <1>7, <2>3, <3>1 DEF Ranges
    <3>3. i[a] \in Int /\ count[a] \in Nat
      BY <1>1, <2>3 DEF TypeOK
    <3>4. PICK y \in Int, g \in Int : y = i[a] /\ g = i[a] + count[a]
      BY <3>3
    <3>5. g <= x \/ x + n <= y
      BY <3>2, <3>4
    <3> QED BY <1>8, <3>1, <3>4, <3>5
  <2>4. ASSUME NEW w \in Int
        PROVE  w \in v <=> (w >= h \/ \E a \in Consumers : w \in Pending(a, j)')
    <3>1. w \in v <=> w \in u /\ ~(w >= x /\ w < x + m)
      BY <1>5, <1>7
    <3>2. w \in u <=> (w >= h \/ w \in Pending(c, i) \/ \E a \in Consumers : a # c /\ w \in Pending(a, i))
      BY <1>2 DEF Unmoved
    <3>3. w \in Pending(c, j)' <=> w >= x + m /\ w < x + n
      BY <1>4, <1>7
    <3>4. (w >= h => ~(w >= x /\ w < x + m))
          /\ (w >= x + m /\ w < x + n <=> w >= x /\ w < x + n /\ ~(w >= x /\ w < x + m))
      BY <1>1, <1>7, <1>8
    <3>5. (\E a \in Consumers : a # c /\ w \in Pending(a, i)) => ~(w >= x /\ w < x + m)
      BY <2>3
    <3>6. (\E a \in Consumers : a # c /\ w \in Pending(a, i))
             <=> (\E a \in Consumers : a # c /\ w \in Pending(a, j)')
      BY <2>1
    <3>7. w \in v <=> (w >= h \/ w \in Pending(c, j)'
                         \/ \E a \in Consumers : a # c /\ w \in Pending(a, j)')
      BY <2>2, <3>1, <3>2, <3>3, <3>4, <3>5, <3>6
    <3> QED BY <3>7
  <2>5. Unmoved(h, j)' = {w \in Int : w >= h \/ \E a \in Consumers : w \in Pending(a, j)'}
    BY DEF Unmoved
  <2>6. v \in SUBSET Int
    BY <1>1, <1>5
  <2> QED BY <2>4, <2>5, <2>6
<1>19. Waits(t, p, v)'
  <2>1. SUFFICES ASSUME NEW w \in v, w < t
                 PROVE  Kept(p, w)'
    BY DEF Waits
  <2>2. w \in u /\ w \in Int /\ ~(w >= x /\ w < x + m)
    BY <1>1, <1>5, <1>7
  <2>3. PICK f \in Entries : value[f] # None /\ p[f] = Num(w)
                             /\ slot[value[f]][w % BlockSize] = w % Modulus
    BY <1>2, <2>1, <2>2 DEF Waits, Kept
  <2>4. w % BlockSize \in Offsets
    BY <2>2, NumOf
  <2>5. slot'[value[f]][w % BlockSize] = slot[value[f]][w % BlockSize]
    <3>1. CASE f = e
      <4>1. Num(w) = Num(x)
        BY <1>9, <1>10, <2>3, <3>1
      <4>2. w % BlockSize \notin InBlock(c)
        BY <1>8, <2>2, <4>1
      <4> QED BY <1>11, <1>13, <2>4, <3>1, <4>2
    <3>2. CASE f # e
      BY <1>13, <1>14, <2>3, <3>2
    <3> QED BY <3>1, <3>2
  <2> QED BY <1>6, <2>3, <2>5 DEF Kept
<1>20. At(p, j)'
  <2>1. SUFFICES ASSUME NEW a \in Consumers, a # c
                 PROVE  AtEntry(a, p, j)'
    BY <1>4 DEF At
  <2>2. AtEntry(a, p, i)
    BY <1>2 DEF At
  <2> QED BY <1>4, <1>6, <2>1, <2>2 DEF AtEntry, EntryAt, BlockAt
<1>21. /\ LeftOf(k, u) # {} /\ IsFiniteSet(LeftOf(k, v)) /\ Cardinality(LeftOf(k, u)) \in Nat
       /\ Cardinality(LeftOf(k, v)) = Cardinality(LeftOf(k, u)) - m
       /\ \A q \in Int : q # k => LeftOf(q, v) = LeftOf(q, u)
  BY <1>3, <1>5, <1>6, <1>7, <1>9, LeftAfter
<1>22. /\ dequeued[b] + Cardinality(LeftOf(k, u)) = BlockSize /\ dequeued[b] \in Nat
       /\ \A f \in Entries : value[f] # None /\ p[f] <= Top(t) =>
             /\ dequeued[value[f]] + Cardinality(LeftOf(p[f], u)) = BlockSize
             /\ LeftOf(p[f], u) = {} => \E a \in Consumers : pc[a] = "free" /\ Num(i[a]) = p[f]
  <2>1. p[e] <= Top(t)
    BY <1>9, <1>10
  <2>2. dequeued[value[e]] + Cardinality(LeftOf(p[e], u)) = BlockSize
    BY <1>2, <1>10, <2>1 DEF Counted
  <2> QED BY <1>1, <1>2, <1>10, <1>11, <2>2 DEF Counted, TypeOK
<1>23. LeftOf(k, v) = {} <=> pc'[c] = "free"
  <2>1. LeftOf(k, v) = {} <=> Cardinality(LeftOf(k, v)) = 0
    BY <1>21, FS_EmptySet
  <2>2. Cardinality(LeftOf(k, v)) = 0 <=> dequeued[b] + m = BlockSize
    <3>1. PICK l \in Nat, g \in Nat : l = Cardinality(LeftOf(k, u)) /\ g = dequeued[b]
      BY <1>21, <1>22
    <3>2. BlockSize \in Nat
      BY Sizes
    <3> QED BY <1>8, <1>21, <1>22, <3>1, <3>2
  <2> QED BY <1>4, <1>11, <2>1, <2>2
<1>24. \A a \in Consumers : a # c /\ pc[a] = "free" => Num(i[a]) # k
  <2>1. SUFFICES ASSUME NEW a \in Consumers, pc[a] = "free", Num(i[a]) = k
                 PROVE  FALSE
    OBVIOUS
  <2>2. LeftOf(Num(i[a]), u) = {}
    BY <1>2, <2>1 DEF Freed
  <2> QED BY <1>21, <2>1, <2>2
<1>25. Counted(t, p, v, j)'
  <2>1. SUFFICES ASSUME NEW f \in Entries, value[f] # None, p[f] <= Top(t)
                 PROVE  /\ dequeued'[value[f]] + Cardinality(LeftOf(p[f], v)) = BlockSize
                        /\ LeftOf(p[f], v) = {} =>
                              \E a \in Consumers : pc'[a] = "free" /\ Num(j[a]) = p[f]
    BY <1>6 DEF Counted, LeftOf
  <2>2. CASE f = e
    <3>1. PICK l \in Nat, g \in Nat : l = Cardinality(LeftOf(k, u)) /\ g = dequeued[b]
      BY <1>21, <1>22
    <3>2. dequeued'[b] + Cardinality(LeftOf(k, v)) = BlockSize
      BY <1>8, <1>13, <1>21, <1>22, <3>1, Sizes
    <3>3. pc'[c] = "free" => Num(j[c]) = k
      BY <1>4, <1>7, <1>9
    <3> QED BY <1>10, <1>11, <1>23, <2>2, <3>2, <3>3
  <2>3. CASE f # e
    <3>1. p[f] # k /\ p[f] \in Int /\ dequeued'[value[f]] = dequeued[value[f]]
      BY <1>1, <1>13, <1>14, <2>1, <2>3
    <3>2. LeftOf(p[f], v) = LeftOf(p[f], u)
      BY <1>21, <3>1
    <3>3. ASSUME LeftOf(p[f], u) = {}
          PROVE  \E a \in Consumers : pc'[a] = "free" /\ Num(j[a]) = p[f]
      <4>1. PICK a \in Consumers : pc[a] = "free" /\ Num(i[a]) = p[f]
        BY <1>22, <2>1, <3>3
      <4>2. a # c
        BY <1>6, <4>1
      <4> QED BY <1>4, <4>1, <4>2
    <3> QED BY <1>22, <2>1, <3>1, <3>2, <3>3
  <2> QED BY <2>2, <2>3
<1>26. Freed(v, j)'
  <2>1. \A a \in Consumers : a # c => pc'[a] = pc[a] /\ j[a] = i[a]
    BY <1>4
  <2>2. pc'[c] = "free" => Num(j[c]) = k
    BY <1>4, <1>7, <1>9
  <2>3. ASSUME NEW a \in Consumers, pc'[a] = "free"
        PROVE  LeftOf(Num(j[a]), v) = {}
    <3>1. CASE a = c
      BY <1>23, <2>2, <2>3, <3>1
    <3>2. CASE a # c
      <4>1. pc[a] = "free" /\ LeftOf(Num(i[a]), u) = {} /\ Num(i[a]) # k
        BY <1>2, <1>24, <2>1, <2>3, <3>2 DEF Freed
      <4>2. Num(i[a]) \in Int
        BY <1>1, NumOf
      <4> QED BY <1>21, <2>1, <3>2, <4>1, <4>2
    <3> QED BY <3>1, <3>2
  <2>4. ASSUME NEW a \in Consumers, NEW f \in Consumers, a # f, pc'[a] = "free", pc'[f] = "free"
        PROVE  Num(j[a]) # Num(j[f])
    <3>1. CASE a # c /\ f # c
      BY <1>2, <2>1, <2>4, <3>1 DEF Freed
    <3>2. CASE a = c
      BY <1>24, <2>1, <2>2, <2>4, <3>2
    <3>3. CASE f = c
      BY <1>24, <2>1, <2>2, <2>4, <3>3
    <3> QED BY <3>1, <3>2, <3>3
  <2>5. \A q : LeftOf(q, v)' = LeftOf(q, v)
    BY DEF LeftOf
  <2>6. /\ \A a \in Consumers : pc'[a] = "free" => LeftOf(Num(j[a]), v) = {}
        /\ \A a \in Consumers, f \in Consumers :
              a # f /\ pc'[a] = "free" /\ pc'[f] = "free" => Num(j[a]) # Num(j[f])
    BY <2>3, <2>4
  <2> QED BY <2>6 DEF Freed, LeftOf
<1>27. Inv(t, h, z, p, d, j, v)'
  BY <1>4, <1>15, <1>16, <1>17, <1>18, <1>19, <1>20, <1>25, <1>26 DEF Inv, ConsumerInv
<1> QED BY <1>27

(* A consumer gives the block back that it has moved the last elements of. *)
LEMMA FreeBlockKeeps ==
    ASSUME NEW t, NEW h, NEW z, NEW p, NEW d, NEW i, NEW u, Inv(t, h, z, p, d, i, u),
           NEW c \in Consumers, FreeBlock(c)
    PROVE  \E j : Inv(t, h, z, p, d, j, u)'
<1>1. /\ t \in Nat /\ h \in Nat /\ h <= t /\ i \in [Consumers -> Int] /\ TypeOK /\ u \in SUBSET Int
      /\ p \in [Entries -> Int] /\ Placed(p, d) /\ Window(t, z, p, d) /\ Keyed(t, p) /\ Called(t)
      /\ Chained(t, p) /\ TailIs(t, p) /\ Owned
      /\ Numbers(t, h, z, p, d, i, u) /\ Counters(t, h)
  BY InvParts
<1>2. /\ Ranges(h, i) /\ u = Unmoved(h, i) /\ Waits(t, p, u) /\ At(p, i)
      /\ Counted(t, p, u, i) /\ Freed(u, i)
  BY InvParts DEF ConsumerInv
<1>3. PICK m : m = Cardinality(InBlock(c))
  OBVIOUS
<1>4. /\ pc[c] = "free" /\ value' = [value EXCEPT ![EntryAt(c)] = None]
      /\ free' = free \union {BlockAt(c)} /\ GoOn(c, m)
      /\ UNCHANGED <<tailIndex, headIndex, tailBlock, slot, dequeued, blockIndexes, key, op>>
  BY <1>3 DEF FreeBlock, elements
<1>5. PICK j \in [Consumers -> Int] : GoesOn(c, m, h, p, i, j)
  BY <1>3, <1>4, GoneOn
<1>6. /\ pc' \in [Consumers -> {"idle", "load", "locate", "move", "free"}]
      /\ index' \in [Consumers -> Index] /\ count' \in [Consumers -> Nat]
      /\ held' \in [Consumers -> Nat] /\ at' \in [Consumers -> Nat]
      /\ \A a \in Consumers : a # c =>
            /\ j[a] = i[a] /\ pc'[a] = pc[a] /\ index'[a] = index[a]
            /\ count'[a] = count[a] /\ held'[a] = held[a] /\ at'[a] = at[a]
      /\ Ranges(h, j)' /\ pc'[c] \in {"idle", "move"}
      /\ \A x \in Int : x \in Pending(c, j)' <=> x >= i[c] + m /\ x < i[c] + count[c]
      /\ pc'[c] = "move" =>
            /\ j[c] = i[c] + m /\ m < count[c] /\ j[c] + count'[c] = i[c] + count[c]
            /\ held'[c] = held[c] /\ at'[c] \in 0..(blockIndexes[held[c]].capacity - 1)
            /\ \A e \in Entries : value[e] # None /\ p[e] = Num(j[c]) =>
                  blockIndexes[held[c]].entry[at'[c]] = e
  BY <1>5 DEF GoesOn
<1>7. PICK x \in Int, n \in Nat : /\ x = i[c] /\ n = count[c] /\ n > 0
                                  /\ index[c] = i[c] % Modulus /\ x + n <= h
  BY <1>4, Active
<1>8. /\ m \in Nat /\ m >= 1 /\ m <= n
      /\ \A w \in Int : w >= x /\ w < x + n => (Num(w) = Num(x) <=> w < x + m)
  <2>1. count[c] > 0
    BY <1>7
  <2> QED BY <1>1, <1>3, <1>7, <2>1, InBlockIs
<1>9. PICK k \in Int : k = Num(x) /\ k <= Top(t)
  <2>1. x < x + n
    BY <1>7
  <2>2. Num(x) <= Top(t)
    BY <1>1, <1>2, <1>4, <1>7, <2>1, RangeBelow
  <2> QED BY <2>2, NumOf
<1>10. AtEntry(c, p, i)
  BY <1>2 DEF At
<1>11. PICK e \in Entries : e = EntryAt(c) /\ value[e] # None /\ p[e] = k /\ e \in Ring
  <2>1. pc[c] \in {"locate", "move", "free"} /\ pc[c] # "locate"
    BY <1>4
  <2>2. EntryAt(c) \in Entries
    BY <1>1, <1>10, <2>1, EntryAtIs
  <2>3. value[EntryAt(c)] # None /\ p[EntryAt(c)] = Num(i[c])
    BY <1>10, <2>1 DEF AtEntry, BlockAt
  <2>4. EntryAt(c) \in Ring
    BY <1>1, <2>2, <2>3 DEF Keyed
  <2> QED BY <1>7, <1>9, <2>2, <2>3, <2>4
<1>12. PICK b \in Blocks : b = value[e] /\ b = BlockAt(c)
  BY <1>1, <1>11 DEF TypeOK, BlockAt
<1>13. /\ value'[e] = None /\ \A f \in Entries : f # e => value'[f] = value[f]
       /\ free' = free \union {b}
  BY <1>1, <1>4, <1>11, <1>12 DEF TypeOK
<1>14. \A f \in Entries : value'[f] # None =>
          f # e /\ value'[f] = value[f] /\ value[f] # None /\ value[f] # b /\ p[f] # k
  <2>1. SUFFICES ASSUME NEW f \in Entries, value'[f] # None
                 PROVE  f # e /\ value'[f] = value[f] /\ value[f] # None /\ value[f] # b /\ p[f] # k
    OBVIOUS
  <2>2. f # e /\ value'[f] = value[f] /\ value[f] # None
    BY <1>13, <2>1
  <2>3. value[f] # b
    BY <1>1, <1>12, <2>2 DEF Owned
  <2>4. f \in Ring
    BY <1>1, <2>2 DEF Keyed
  <2>5. p[f] # p[e]
    BY <1>1, <1>11, <2>2, <2>4, OneEntry
  <2> QED BY <1>11, <2>2, <2>3, <2>5
<1>15. \A w \in u : Num(w) # k
  <2>1. SUFFICES ASSUME NEW w \in u, Num(w) = k
                 PROVE  FALSE
    OBVIOUS
  <2>2. w \in Int
    BY <1>1
  <2>3. w % BlockSize \in Offsets /\ w = k * BlockSize + (w % BlockSize)
    BY <2>1, <2>2, NumOf
  <2>4. w % BlockSize \in LeftOf(k, u)
    BY <2>3 DEF LeftOf
  <2>5. LeftOf(k, u) = {}
    BY <1>2, <1>4, <1>7, <1>9 DEF Freed
  <2> QED BY <2>4, <2>5
<1>16. TypeOK'
  <2>1. free' \in SUBSET Blocks
    BY <1>1, <1>13 DEF TypeOK
  <2>2. value' \in [Entries -> Blocks \union {None}]
    <3>1. value \in [Entries -> Blocks \union {None}]
      BY <1>1 DEF TypeOK
    <3> QED BY <1>4, <3>1
  <2> QED BY <1>1, <1>4, <1>6, <2>1, <2>2 DEF TypeOK
<1>17. Counters(t, h)' /\ Numbers(t, h, z, p, d, j, u)'
  BY <1>1, <1>4, <1>6 DEF Counters, Numbers
<1>18. /\ Latest(t)' = Latest(t) /\ TailNum(t)' = TailNum(t)
       /\ Size' = Size /\ Ring' = Ring /\ blockIndex' = blockIndex
  BY <1>4 DEF Latest, TailNum, Size, Ring, blockIndex
<1>19. ProducerInv(t, z, p, d)'
  <2>1. Placed(p, d)'
    BY <1>1, <1>4, <1>18 DEF Placed, PlacedIn
  <2>2. Window(t, z, p, d)'
    BY <1>1, <1>4, <1>18 DEF Window
  <2>3. Keyed(t, p)'
    BY <1>1, <1>4, <1>14, <1>18 DEF Keyed
  <2>4. Called(t)'
    BY <1>1, <1>4, <1>18 DEF Called
  <2>5. Chained(t, p)'
    <3>1. ASSUME NEW f \in Entries, value'[f] # None, p[f] > Top(t)
          PROVE  /\ p[f] - Top(t) > op.undone /\ value'[f] = op.chain[p[f] - Top(t)]
                 /\ dequeued[value'[f]] = 0
      <4>1. value'[f] = value[f] /\ value[f] # None
        BY <1>14, <3>1
      <4> QED BY <1>1, <3>1, <4>1 DEF Chained
    <3>2. ASSUME NEW l \in 1..Len(op.chain), l > op.undone
          PROVE  \E f \in Entries : p[f] = Top(t) + l /\ value'[f] = op.chain[l]
      <4>1. PICK f \in Entries : p[f] = Top(t) + l /\ value[f] = op.chain[l]
        BY <1>1, <3>2 DEF Chained
      <4>2. p[f] # k
        <5>1. PICK g \in Int : g = Top(t)
          BY <1>1, TopIs
        <5> QED BY <1>9, <4>1, <5>1
      <4>3. value'[f] = value[f]
        BY <1>11, <1>13, <4>2
      <4> QED BY <4>1, <4>3
    <3> QED BY <1>4, <3>1, <3>2 DEF Chained
  <2> QED BY <2>1, <2>2, <2>3, <2>4, <2>5 DEF ProducerInv
<1>20. TailIs(t, p)'
  <2>1. ASSUME NEW f \in Entries, value'[f] # None, p[f] = Top(t)
        PROVE  value'[f] = tailBlock
    BY <1>1, <1>14, <2>1 DEF TailIs
  <2>2. ASSUME t % BlockSize # 0
        PROVE  \E f \in Entries : value'[f] # None /\ p[f] = Top(t)
    <3>1. PICK f \in Entries : value[f] # None /\ p[f] = Top(t)
      BY <1>1, <2>2 DEF TailIs
    <3>2. Num(t) = Top(t)
      <4>1. PICK q \in Int, o \in Offsets : q = Num(t) /\ o = t % BlockSize /\ t = q * BlockSize + o
        <5>1. t \in Int
          BY <1>1
        <5> QED BY <5>1, NumOf
      <4>2. PICK y \in Int : y = q * BlockSize
        BY Sizes
      <4>3. o - 1 \in Offsets /\ t - 1 = y + (o - 1)
        <5>1. PICK B \in Nat : B = BlockSize
          BY Sizes
        <5>2. o \in 0..(B - 1) /\ o # 0 /\ t = y + o
          BY <2>2, <4>1, <4>2, <5>1 DEF Offsets
        <5>3. o - 1 \in 0..(B - 1)
          BY <5>2
        <5>4. t - 1 = y + (o - 1)
          BY <1>1, <5>2
        <5> QED BY <5>1, <5>3, <5>4 DEF Offsets
      <4>4. PICK r \in Offsets : r = o - 1
        BY <4>3
      <4>5. Num(q * BlockSize + r) = q
        BY NumIs
      <4>6. t - 1 = q * BlockSize + r
        BY <4>2, <4>3, <4>4
      <4> QED BY <4>1, <4>5, <4>6 DEF Top
    <3>3. t \in u
      BY <1>1, <1>2 DEF Unmoved
    <3>4. p[f] # k
      BY <1>15, <3>1, <3>2, <3>3
    <3> QED BY <1>11, <1>13, <3>1, <3>4
  <2> QED BY <1>4, <2>1, <2>2 DEF TailIs
<1>21. Owned'
  <2>1. \A f \in Entries, g \in Entries : value'[f] # None /\ value'[f] = value'[g] => f = g
    BY <1>1, <1>14 DEF Owned
  <2>2. ASSUME NEW f \in Entries
        PROVE  value'[f] \notin free'
    <3>1. CASE value'[f] = None
      <4>1. None \notin Blocks
        BY ImplicitProducerAssumption
      <4> QED BY <1>16, <3>1, <4>1 DEF TypeOK
    <3>2. CASE value'[f] # None
      BY <1>1, <1>13, <1>14, <3>2 DEF Owned
    <3> QED BY <3>1, <3>2
  <2>3. ASSUME NEW l \in 1..op.undone
        PROVE  op.chain[l] \notin free' /\ \A f \in Entries : value'[f] # op.chain[l]
    <3>1. op.chain[l] \notin free /\ \A f \in Entries : value[f] # op.chain[l]
      BY <1>1 DEF Owned
    <3>2. op.chain[l] # b
      BY <1>12, <3>1
    <3>3. op.chain[l] # None
      <4>1. /\ op.chain \in Seq(Blocks) /\ Len(op.chain) \in Nat /\ op.undone \in Nat
            /\ op.undone <= Len(op.chain)
        BY <1>1, LatestIs DEF Called
      <4>2. l \in 1..Len(op.chain)
        BY <4>1
      <4>3. op.chain[l] \in Blocks
        BY <4>1, <4>2, ElementOfSeq
      <4> QED BY <4>3, ImplicitProducerAssumption
    <3> QED BY <1>13, <3>1, <3>2, <3>3
  <2>4. \A l \in 1..op.undone, g \in 1..op.undone : op.chain[l] = op.chain[g] => l = g
    BY <1>1 DEF Owned
  <2>5. ASSUME NEW a \in Blocks
        PROVE  \/ a \in free'
               \/ \E f \in Entries : value'[f] = a
               \/ \E l \in 1..op.undone : op.chain[l] = a
    <3>1. CASE a = b
      BY <1>13, <3>1
    <3>2. CASE a # b
      <4>1. ASSUME NEW f \in Entries, value[f] = a
            PROVE  value'[f] = a
        BY <1>12, <1>13, <3>2, <4>1
      <4> QED BY <1>1, <1>13, <4>1 DEF Owned
    <3> QED BY <3>1, <3>2
  <2> QED BY <1>4, <2>1, <2>2, <2>3, <2>4, <2>5 DEF Owned
<1>22. u = Unmoved(h, j)'
  <2>1. \A a \in Consumers : a # c => Pending(a, j)' = Pending(a, i)
    BY <1>6 DEF Pending
  <2>2. ASSUME NEW w \in Int
        PROVE  w \in Pending(c, i) <=> w \in Pending(c, j)'
    <3>1. w \in Pending(c, i) <=> w >= x /\ w < x + n /\ Num(w) # Num(x)
      BY <1>4, <1>7 DEF Pending
    <3>2. w \in Pending(c, j)' <=> w >= x + m /\ w < x + n
      BY <1>6, <1>7
    <3>3. w >= x /\ w < x + n => (Num(w) = Num(x) <=> w < x + m)
      BY <1>8
    <3>4. w >= x + m <=> w >= x /\ ~(w < x + m)
      BY <1>8
    <3> QED BY <3>1, <3>2, <3>3, <3>4
  <2>3. Unmoved(h, j)' = {w \in Int : w >= h \/ \E a \in Consumers : w \in Pending(a, j)'}
    BY DEF Unmoved
  <2>4. \A w \in Int : (\E a \in Consumers : w \in Pending(a, j)')
                          <=> (\E a \in Consumers : w \in Pending(a, i))
    BY <2>1, <2>2
  <2> QED BY <1>2, <2>3, <2>4 DEF Unmoved
<1>23. Waits(t, p, u)'
  <2>1. SUFFICES ASSUME NEW w \in u, w < t
                 PROVE  Kept(p, w)'
    BY DEF Waits
  <2>2. PICK f \in Entries : value[f] # None /\ p[f] = Num(w)
                             /\ slot[value[f]][w % BlockSize] = w % Modulus
    BY <1>2, <2>1 DEF Waits, Kept
  <2>3. f # e
    BY <1>11, <1>15, <2>2
  <2> QED BY <1>4, <1>13, <2>2, <2>3 DEF Kept
<1>24. At(p, j)'
  <2>1. ASSUME NEW a \in Consumers, a # c
        PROVE  AtEntry(a, p, j)'
    <3>1. SUFFICES ASSUME pc[a] \in {"locate", "move", "free"}
                   PROVE  AtEntry(a, p, j)'
      BY <1>6, <2>1 DEF AtEntry
    <3>2. AtEntry(a, p, i)
      BY <1>2 DEF At
    <3>3. PICK f \in Entries : f = EntryAt(a)
      BY <1>1, <3>1, <3>2, EntryAtIs
    <3>4. EntryAt(a)' = f /\ BlockAt(a)' = value'[f]
      BY <1>4, <1>6, <2>1, <3>3 DEF EntryAt, BlockAt
    <3>5. ASSUME pc[a] # "locate"
          PROVE  value'[f] # None /\ p[f] = Num(i[a])
      <4>1. value[f] # None /\ p[f] = Num(i[a])
        BY <3>1, <3>2, <3>3, <3>5 DEF AtEntry, BlockAt
      <4>2. Num(i[a]) # k
        <5>1. CASE pc[a] = "free"
          BY <1>2, <1>4, <1>7, <1>9, <2>1, <5>1 DEF Freed
        <5>2. CASE pc[a] = "move"
          <6>1. i[a] \in Int /\ count[a] \in Nat /\ count[a] > 0
            BY <5>2, Active
          <6>2. i[a] >= i[a] /\ i[a] < i[a] + count[a]
            BY <6>1
          <6>3. i[a] \in Pending(a, i)
            BY <5>2, <6>1, <6>2 DEF Pending
          <6> QED BY <1>15, <6>1, <6>3, Waiting
        <5> QED BY <3>1, <3>5, <5>1, <5>2
      <4>3. f # e
        BY <1>11, <4>1, <4>2
      <4> QED BY <1>13, <4>1, <4>3
    <3>6. \A g \in Entries : value'[g] # None => value[g] # None
      BY <1>14
    <3>7. /\ held[a] \in 1..Len(blockIndexes)
          /\ at[a] \in 0..(blockIndexes[held[a]].capacity - 1)
          /\ \A g \in Entries, w \in Int :
                value[g] # None /\ w >= i[a] /\ w < i[a] + count[a] /\ p[g] = Num(w)
                   => g < blockIndexes[held[a]].capacity
          /\ pc[a] = "locate" => key[f] # INVALID_BLOCK_BASE
      BY <3>1, <3>2, <3>3 DEF AtEntry
    <3> QED BY <1>4, <1>6, <2>1, <3>4, <3>5, <3>6, <3>7 DEF AtEntry
  <2>2. AtEntry(c, p, j)'
    <3>1. SUFFICES ASSUME pc'[c] = "move"
                   PROVE  AtEntry(c, p, j)'
      BY <1>6 DEF AtEntry
    <3>2. PICK y \in Int : y = x + m /\ y >= x /\ y < x + n /\ j[c] = y /\ ~(y < x + m)
      BY <1>6, <1>7, <1>8, <3>1
    <3>3. PICK f \in Entries : value[f] # None /\ p[f] = Num(y)
      <4>1. Num(y) # Num(x)
        BY <1>8, <3>2
      <4>2. y \in Pending(c, i)
        BY <1>4, <1>7, <3>2, <4>1 DEF Pending
      <4> QED BY <4>2, Waiting
    <3>4. held'[c] = held[c] /\ at'[c] \in 0..(blockIndexes[held[c]].capacity - 1)
          /\ blockIndexes[held[c]].entry[at'[c]] = f
      BY <1>6, <3>1, <3>2, <3>3
    <3>5. value'[f] # None
      <4>1. Num(y) # Num(x)
        BY <1>8, <3>2
      <4> QED BY <1>9, <1>11, <1>13, <3>3, <4>1
    <3>6. EntryAt(c)' = f /\ BlockAt(c)' = value'[f]
      BY <1>4, <3>4 DEF EntryAt, BlockAt
    <3>7. \A w \in Int : w >= y /\ w < y + count'[c] => w >= x /\ w < x + n
      <4>1. y + count'[c] = x + n
        BY <1>6, <1>7, <3>1, <3>2
      <4> QED BY <3>2, <4>1
    <3>8. held[c] \in 1..Len(blockIndexes)
          /\ \A g \in Entries, w \in Int :
                value[g] # None /\ w >= x /\ w < x + n /\ p[g] = Num(w)
                   => g < blockIndexes[held[c]].capacity
      BY <1>4, <1>7, <1>10 DEF AtEntry
    <3>9. \A g \in Entries : value'[g] # None => value[g] # None
      BY <1>14
    <3> QED BY <1>4, <3>1, <3>2, <3>3, <3>4, <3>5, <3>6, <3>7, <3>8, <3>9 DEF AtEntry
  <2> QED BY <2>1, <2>2 DEF At
<1>25. Counted(t, p, u, j)'
  <2>1. SUFFICES ASSUME NEW f \in Entries, value'[f] # None, p[f] <= Top(t)
                 PROVE  /\ dequeued[value'[f]] + Cardinality(LeftOf(p[f], u)) = BlockSize
                        /\ LeftOf(p[f], u) = {} =>
                              \E a \in Consumers : pc'[a] = "free" /\ Num(j[a]) = p[f]
    BY <1>4 DEF Counted, LeftOf
  <2>2. value[f] # None /\ value'[f] = value[f] /\ p[f] # k
    BY <1>14, <2>1
  <2>3. /\ dequeued[value[f]] + Cardinality(LeftOf(p[f], u)) = BlockSize
        /\ LeftOf(p[f], u) = {} => \E a \in Consumers : pc[a] = "free" /\ Num(i[a]) = p[f]
    BY <1>2, <2>1, <2>2 DEF Counted
  <2>4. \A a \in Consumers : pc[a] = "free" /\ Num(i[a]) = p[f] =>
           pc'[a] = "free" /\ Num(j[a]) = p[f]
    BY <1>6, <1>7, <1>9, <2>2
  <2> QED BY <2>2, <2>3, <2>4
<1>26. Freed(u, j)'
  <2>1. \A a \in Consumers : pc'[a] = "free" => pc[a] = "free" /\ j[a] = i[a]
    BY <1>6
  <2> QED BY <1>2, <2>1 DEF Freed, LeftOf
<1>27. Inv(t, h, z, p, d, j, u)'
  BY <1>6, <1>16, <1>17, <1>19, <1>20, <1>21, <1>22, <1>23, <1>24, <1>25, <1>26
     DEF Inv, ConsumerInv
<1> QED BY <1>27

-------------------------------------------------------------------------------
(* In the beginning the entries stand for the blocks before the first. *)
LEMMA InitHolds ==
    ASSUME Init
    PROVE  IInv
<1>1. PICK I \in Nat : I = InitialIndexSize /\ I > 0 /\ I \in 1..MaxIndexSize
  BY Sizes
<1>2. PICK t \in Nat : t = 0
  OBVIOUS
<1>3. PICK z \in Int : z = -1
  OBVIOUS
<1>4. PICK p : p = [e \in Entries |-> e - I]
  OBVIOUS
<1>5. PICK d : d = [n \in Nat |-> -I]
  OBVIOUS
<1>6. PICK i : i = [c \in Consumers |-> 0]
  OBVIOUS
<1>7. PICK u : u = {x \in Int : x >= 0}
  OBVIOUS
<1>8. /\ tailIndex = 0 /\ headIndex = 0 /\ tailBlock = None
      /\ dequeued = [b \in Blocks |-> 0] /\ slot = [b \in Blocks |-> [o \in Offsets |-> Nothing]]
      /\ free = Blocks
      /\ key = [e \in Entries |-> INVALID_BLOCK_BASE] /\ value = [e \in Entries |-> None]
      /\ op = NoCall
      /\ pc = [c \in Consumers |-> "idle"] /\ index = [c \in Consumers |-> 0]
      /\ count = [c \in Consumers |-> 0] /\ held = [c \in Consumers |-> 0]
      /\ at = [c \in Consumers |-> 0]
  BY DEF Init
<1>9. PICK H : H = [capacity |-> I, tail |-> I - 1, entry |-> [s \in 0..(I - 1) |-> s]]
  OBVIOUS
<1>10. blockIndexes = <<>> \/ blockIndexes = <<H>>
  BY <1>1, <1>9 DEF Init
<1>11. H.capacity = I /\ H.tail = I - 1 /\ \A s \in 0..(I - 1) : H.entry[s] = s
  BY <1>9
<1>12. H \in Headers
  <2>1. MaxIndexSize \in Nat /\ I - 1 \in 0..(MaxIndexSize - 1) /\ I - 1 < I
    BY <1>1, Sizes
  <2>2. PICK E : E = [s \in 0..(I - 1) |-> s]
    OBVIOUS
  <2>3. E \in [0..(I - 1) -> 0..(I - 1)]
    BY <2>2
  <2>4. E \in UNION {[0..(m - 1) -> 0..(m - 1)] : m \in 1..MaxIndexSize}
    BY <1>1, <2>3
  <2>5. H = [capacity |-> I, tail |-> I - 1, entry |-> E]
    BY <1>9, <2>2
  <2>6. H \in [capacity : 1..MaxIndexSize, tail : Entries,
               entry : UNION {[0..(m - 1) -> 0..(m - 1)] : m \in 1..MaxIndexSize}]
    BY <1>1, <2>1, <2>4, <2>5 DEF Entries
  <2> QED BY <2>1, <2>3, <2>5, <2>6 DEF Headers
<1>13. TypeOK
  <2>1. 0 \in Index
    BY Sizes DEF Index
  <2>2. blockIndexes \in Seq(Headers)
    <3>1. <<>> \in Seq(Headers) /\ <<H>> \in Seq(Headers)
      BY <1>12
    <3> QED BY <1>10, <3>1
  <2>3. Nothing \in 0..Modulus
    BY Sizes DEF Nothing
  <2>4. slot \in [Blocks -> [Offsets -> 0..Modulus]]
    BY <1>8, <2>3
  <2>5. /\ key \in [Entries -> Int] /\ value \in [Entries -> Blocks \union {None}]
        /\ dequeued \in [Blocks -> Nat]
    BY <1>8 DEF INVALID_BLOCK_BASE
  <2>6. op \in [kind : {"none", "enqueue", "bulk"}, step : {"none", "insert", "take", "undo"},
                count : Nat, left : Int, base : Index, linked : Blocks \union {None},
                chain : Seq(Blocks), undone : Nat]
    BY <1>8, <2>1 DEF NoCall
  <2>7. /\ pc \in [Consumers -> {"idle", "load", "locate", "move", "free"}]
        /\ index \in [Consumers -> Index] /\ count \in [Consumers -> Nat]
        /\ held \in [Consumers -> Nat] /\ at \in [Consumers -> Nat]
    BY <1>8, <2>1
  <2> QED BY <1>8, <2>1, <2>2, <2>4, <2>5, <2>6, <2>7 DEF TypeOK
<1>14. Numbers(t, t, z, p, d, i, u)
  <2>1. p \in [Entries -> Int]
    <3>1. \A e \in Entries : e - I \in Int
      BY <1>1, Sizes DEF Entries
    <3> QED BY <1>4, <3>1
  <2>2. d \in [Nat -> Int]
    BY <1>1, <1>5
  <2>3. i \in [Consumers -> Int] /\ u \in SUBSET Int
    BY <1>6, <1>7
  <2> QED BY <2>1, <2>2, <2>3 DEF Numbers
<1>15. /\ op.step = "none" /\ op.chain = <<>> /\ op.undone = 0 /\ op.linked = None
       /\ Len(op.chain) = 0 /\ 1..Len(op.chain) = {}
  BY <1>8 DEF NoCall
<1>16. Top(t) = -1 /\ Latest(t) = -1 /\ TailNum(t) = -1
  <2>1. Num(-1) = -1
    <3>1. PICK q \in Int, o \in Offsets : q = -1 /\ o = BlockSize - 1
      BY Sizes DEF Offsets
    <3>2. PICK B \in Nat : B = BlockSize
      BY Sizes
    <3>3. q * B + o = -1
      BY <3>1, <3>2
    <3>4. Num(q * BlockSize + o) = q
      BY NumIs
    <3> QED BY <3>1, <3>2, <3>3, <3>4
  <2>2. t - 1 = -1
    BY <1>2
  <2> QED BY <1>15, <2>1, <2>2 DEF Top, Latest, TailNum
<1>17. ASSUME blockIndexes = <<H>>
       PROVE  Size = I /\ Ring = 0..(I - 1) /\ blockIndex = H /\ Len(blockIndexes) = 1
  BY <1>11, <1>17 DEF Size, Ring, blockIndex
<1>18. 0..(I - 1) \subseteq Entries
  BY <1>1, Sizes DEF Entries
<1>19. \A e \in 0..(I - 1) : p[e] = e - I /\ (p[e] - (-I)) % I = e
  <2>1. SUFFICES ASSUME NEW e \in 0..(I - 1)
                 PROVE  p[e] = e - I /\ (p[e] - (-I)) % I = e
    OBVIOUS
  <2>2. p[e] = e - I
    BY <1>4, <1>18
  <2>3. (e - I) - (-I) = e
    BY <1>1
  <2>4. e % I = e
    BY <1>1, ModBelow
  <2> QED BY <2>2, <2>3, <2>4
<1>20. Placed(p, d)
  <2>1. CASE blockIndexes = <<>>
    BY <2>1 DEF Placed
  <2>2. CASE blockIndexes = <<H>>
    <3>1. d[1] = -I
      BY <1>5
    <3>2. I % I = 0
      <4>1. I = I * 1 + 0 /\ 0 \in 0..(I - 1)
        BY <1>1
      <4> QED BY <1>1, <4>1, ModUnique
    <3>3. blockIndexes[1] = H /\ Size = I
      BY <1>17, <2>2
    <3>4. \A s \in 0..(I - 1) : (p[H.entry[s]] - d[1]) % I = s
      BY <1>11, <1>19, <3>1
    <3>5. \A e \in 0..(I - 1) : H.entry[(p[e] - d[1]) % I] = e
      BY <1>11, <1>19, <3>1
    <3>6. I <= I
      BY <1>1
    <3>7. PlacedIn(1, p, d)
      BY <1>11, <3>2, <3>3, <3>4, <3>5, <3>6 DEF PlacedIn
    <3>8. \A n \in 1..1 : n = 1
      OBVIOUS
    <3> QED BY <1>17, <2>2, <3>7, <3>8 DEF Placed
  <2> QED BY <1>10, <2>1, <2>2
<1>21. Window(t, z, p, d)
  <2>1. SUFFICES ASSUME blockIndexes = <<H>>
                 PROVE  Window(t, z, p, d)
    BY <1>10 DEF Window
  <2>2. \A e \in Ring : p[e] > z - Size /\ p[e] <= z
    <3>1. SUFFICES ASSUME NEW e \in 0..(I - 1)
                   PROVE  p[e] > z - I /\ p[e] <= z
      BY <1>17, <2>1
    <3>2. p[e] = e - I
      BY <1>19
    <3> QED BY <1>1, <1>3, <3>2
  <2>3. z - Size <= Top(t) /\ TailNum(t) <= z /\ Latest(t) <= z
    BY <1>1, <1>3, <1>16, <1>17, <2>1
  <2>4. blockIndex.tail = (TailNum(t) - d[Len(blockIndexes)]) % Size
    <3>1. d[1] = -I
      BY <1>5
    <3>2. (-1) - (-I) = I - 1 /\ I - 1 \in 0..(I - 1)
      BY <1>1
    <3>3. (I - 1) % I = I - 1
      BY <1>1, <3>2, ModBelow
    <3> QED BY <1>11, <1>16, <1>17, <2>1, <3>1, <3>2, <3>3
  <2> QED BY <2>2, <2>3, <2>4 DEF Window
<1>22. Keyed(t, p)
  <2>1. \A e \in Entries : value[e] = None /\ key[e] = INVALID_BLOCK_BASE
    BY <1>8
  <2>2. ASSUME NEW e \in Ring
        PROVE  ~(p[e] > Top(t))
    <3>1. blockIndexes = <<H>>
      BY <1>10, <2>2 DEF Ring, Size
    <3>2. PICK s \in 0..(I - 1) : s = e
      BY <1>17, <2>2, <3>1
    <3>3. p[e] = s - I
      BY <1>19, <3>2
    <3> QED BY <1>1, <1>16, <3>2, <3>3
  <2> QED BY <2>1, <2>2 DEF Keyed
<1>23. Called(t)
  BY <1>8, <1>15 DEF Called
<1>24. Chained(t, p)
  BY <1>8, <1>15 DEF Chained
<1>25. TailIs(t, p)
  <2>1. t % BlockSize = 0
    <3>1. 0 \in 0..(BlockSize - 1) /\ BlockSize \in Nat /\ BlockSize > 0
      BY Sizes
    <3> QED BY <1>2, <3>1, ModBelow
  <2> QED BY <1>8, <2>1 DEF TailIs
<1>26. Owned
  <2>1. None \notin Blocks
    BY ImplicitProducerAssumption
  <2>2. 1..op.undone = {}
    BY <1>15
  <2> QED BY <1>8, <2>1, <2>2 DEF Owned
<1>27. Counters(t, t)
  <2>1. 0 \in 0..(Modulus - 1) /\ Modulus \in Nat /\ Modulus > 0
    BY Sizes
  <2>2. 0 % Modulus = 0
    BY <2>1, ModBelow
  <2> QED BY <1>2, <1>8, <2>2 DEF Counters
<1>28. ConsumerInv(t, t, p, i, u)
  <2>1. \A c \in Consumers : pc[c] = "idle"
    BY <1>8
  <2>2. u = Unmoved(t, i)
    BY <1>2, <1>7, <2>1 DEF Unmoved, Pending
  <2>3. Waits(t, p, u)
    BY <1>2, <1>7 DEF Waits
  <2>4. Ranges(t, i) /\ At(p, i) /\ Freed(u, i)
    BY <2>1 DEF Ranges, At, AtEntry, Freed
  <2>5. Counted(t, p, u, i)
    BY <1>8 DEF Counted
  <2> QED BY <2>2, <2>3, <2>4, <2>5 DEF ConsumerInv
<1>29. Inv(t, t, z, p, d, i, u)
  BY <1>13, <1>14, <1>20, <1>21, <1>22, <1>23, <1>24, <1>25, <1>26, <1>27, <1>28
     DEF Inv, ProducerInv
<1> QED BY <1>29 DEF IInv

LEMMA StutterKeeps ==
    ASSUME IInv, UNCHANGED vars
    PROVE  IInv'
<1>1. PICK t, h, z, p, d, i, u : Inv(t, h, z, p, d, i, u)
  BY DEF IInv
<1>2. /\ TypeOK /\ Placed(p, d) /\ Window(t, z, p, d) /\ Keyed(t, p) /\ Called(t)
      /\ Chained(t, p) /\ TailIs(t, p) /\ Owned /\ Counters(t, h)
      /\ Numbers(t, h, z, p, d, i, u)
      /\ Ranges(h, i) /\ u = Unmoved(h, i) /\ Waits(t, p, u) /\ At(p, i)
      /\ Counted(t, p, u, i) /\ Freed(u, i)
  BY <1>1, InvParts DEF ConsumerInv
<1>3. /\ UNCHANGED <<tailIndex, headIndex, tailBlock, slot, dequeued, free, blockIndexes>>
      /\ UNCHANGED <<key, value, op, pc, index, count, held, at>>
  BY DEF vars, elements, consumers
<1>4. ProducerInv(t, z, p, d)' /\ TailIs(t, p)' /\ Owned'
  BY <1>1, <1>3, SameProducer
<1>5. TypeOK'
  BY <1>2, <1>3 DEF TypeOK
<1>6. Counters(t, h)' /\ Numbers(t, h, z, p, d, i, u)'
  BY <1>2, <1>3 DEF Counters, Numbers
<1>7. Ranges(h, i)' /\ u = Unmoved(h, i)'
  BY <1>2, <1>3 DEF Ranges, Unmoved, Pending
<1>8. Waits(t, p, u)'
  BY <1>2, <1>3 DEF Waits, Kept
<1>9. At(p, i)'
  BY <1>2, <1>3 DEF At, AtEntry, EntryAt, BlockAt
<1>10. Counted(t, p, u, i)' /\ Freed(u, i)'
  BY <1>2, <1>3 DEF Counted, Freed, LeftOf
<1>11. Inv(t, h, z, p, d, i, u)'
  BY <1>4, <1>5, <1>6, <1>7, <1>8, <1>9, <1>10 DEF Inv, ConsumerInv
<1> QED BY <1>11 DEF IInv

LEMMA NextKeeps ==
    ASSUME IInv, [Next]_vars
    PROVE  IInv'
<1>1. PICK t, h, z, p, d, i, u : Inv(t, h, z, p, d, i, u)
  BY DEF IInv
<1>2. ASSUME NEW n \in 1..MaxBulk
      PROVE  n \in Nat /\ n > 0 /\ n + BlockSize <= Modulus
  <2>1. /\ MaxBulk \in Nat /\ BlockSize \in Nat /\ Modulus \in Nat
        /\ MaxBulk + BlockSize <= Modulus
    BY ImplicitProducerAssumption
  <2> QED BY <2>1
<1>3. ASSUME Call("enqueue", 1)
      PROVE  IInv'
  <2>1. PICK n \in Nat : n = 1
    OBVIOUS
  <2>2. n > 0 /\ n + BlockSize <= Modulus
    <3>1. BlockSize + BlockSize <= Modulus
      <4>1. 1 \in 1..MaxIndexSize /\ BlockSize \in Nat
        BY Sizes
      <4>2. 2 * (BlockSize * 1) <= Modulus
        BY <4>1, Sizes
      <4> QED BY <4>1, <4>2, Sizes
    <3> QED BY <2>1, <3>1, Sizes
  <2>3. Call("enqueue", n) /\ "enqueue" \in {"enqueue", "bulk"}
    BY <1>3, <2>1
  <2>4. Inv(t, h, z, p, d, i, u)'
    BY <1>1, <2>2, <2>3, CallKeeps
  <2> QED BY <2>4 DEF IInv
<1>4. ASSUME NEW n \in 1..MaxBulk, Call("bulk", n)
      PROVE  IInv'
  <2>1. "bulk" \in {"enqueue", "bulk"} /\ n \in Nat /\ n > 0 /\ n + BlockSize <= Modulus
    BY <1>2
  <2>2. Inv(t, h, z, p, d, i, u)'
    BY <1>1, <1>4, <2>1, CallKeeps
  <2> QED BY <2>2 DEF IInv
<1>5. ASSUME InsertEntry
      PROVE  IInv'
  <2>1. \E y, q : Inv(t, h, y, q, d, i, u)'
    BY <1>1, <1>5, InsertEntryKeeps
  <2> QED BY <2>1 DEF IInv
<1>6. ASSUME Grow
      PROVE  IInv'
  <2>1. \E q, b : Inv(t, h, z, q, b, i, u)'
    BY <1>1, <1>6, GrowKeeps
  <2> QED BY <2>1 DEF IInv
<1>7. ASSUME NEW b \in Blocks, Requisition(b)
      PROVE  IInv'
  <2>1. Inv(t, h, z, p, d, i, u)'
    BY <1>1, <1>7, RequisitionKeeps
  <2> QED BY <2>1 DEF IInv
<1>8. ASSUME FailToInsert \/ ConstructorThrows
      PROVE  IInv'
  <2>1. /\ op.step = "insert"
        /\ op' = (IF op.chain = <<>> THEN NoCall ELSE [op EXCEPT !.step = "undo"])
        /\ UNCHANGED <<elements, dequeued, free, blockIndexes, key, value, consumers>>
    BY <1>8 DEF FailToInsert, ConstructorThrows
  <2>2. Inv(t, h, z, p, d, i, u)'
    BY <1>1, <2>1, FailureKeeps
  <2> QED BY <2>2 DEF IInv
<1>9. ASSUME FailToTake
      PROVE  IInv'
  <2>1. Inv(t, h, z, p, d, i, u)'
    BY <1>1, <1>9, FailToTakeKeeps
  <2> QED BY <2>1 DEF IInv
<1>10. ASSUME Undo
       PROVE  IInv'
  <2>1. Inv(t, h, z, p, d, i, u)'
    BY <1>1, <1>10, UndoKeeps
  <2> QED BY <2>1 DEF IInv
<1>11. ASSUME GiveBack
       PROVE  IInv'
  <2>1. Inv(t, h, z, p, d, i, u)'
    BY <1>1, <1>11, GiveBackKeeps
  <2> QED BY <2>1 DEF IInv
<1>12. ASSUME Publish
       PROVE  IInv'
  <2>1. \E y : Inv(y, h, z, p, d, i, u)'
    BY <1>1, <1>12, PublishKeeps
  <2> QED BY <2>1 DEF IInv
<1>13. ASSUME NEW c \in Consumers, NEW n \in 1..MaxBulk, Take(c, n)
       PROVE  IInv'
  <2>1. n \in Nat /\ n > 0
    BY <1>2
  <2>2. \E g, j : Inv(t, g, z, p, d, j, u)'
    BY <1>1, <1>13, <2>1, TakeKeeps
  <2> QED BY <2>2 DEF IInv
<1>14. ASSUME NEW c \in Consumers, LoadTail(c) \/ Locate(c)
       PROVE  IInv'
  <2>1. Inv(t, h, z, p, d, i, u)'
    BY <1>1, <1>14, LoadTailKeeps, LocateKeeps
  <2> QED BY <2>1 DEF IInv
<1>15. ASSUME NEW c \in Consumers, MoveBlock(c)
       PROVE  IInv'
  <2>1. \E j, v : Inv(t, h, z, p, d, j, v)'
    BY <1>1, <1>15, MoveBlockKeeps
  <2> QED BY <2>1 DEF IInv
<1>16. ASSUME NEW c \in Consumers, FreeBlock(c)
       PROVE  IInv'
  <2>1. \E j : Inv(t, h, z, p, d, j, u)'
    BY <1>1, <1>16, FreeBlockKeeps
  <2> QED BY <2>1 DEF IInv
<1>17. ASSUME UNCHANGED vars
       PROVE  IInv'
  BY <1>17, StutterKeeps
<1> QED BY <1>3, <1>4, <1>5, <1>6, <1>7, <1>8, <1>9, <1>10, <1>11, <1>12, <1>13, <1>14, <1>15,
           <1>16, <1>17 DEF Next

-------------------------------------------------------------------------------
(* The invariant of the implicit producer. *)
THEOREM Invariance == Spec => []IInv
<1>1. IInv /\ [Next]_vars => IInv'
  BY NextKeeps
<1> QED BY InitHolds, <1>1, PTL DEF Spec

-------------------------------------------------------------------------------
(* An element that waits has its entry, *)
LEMMA WaitsIs ==
    ASSUME NEW t, NEW h, NEW z, NEW p, NEW d, NEW i, NEW u, Inv(t, h, z, p, d, i, u),
           NEW x \in Int, x >= h, x < t
    PROVE  /\ x \in u /\ Num(x) <= Top(t)
           /\ \E e \in Ring : /\ e \in Entries /\ value[e] # None /\ p[e] = Num(x)
                              /\ slot[value[e]][x % BlockSize] = x % Modulus
<1>1. t \in Nat /\ u = Unmoved(h, i) /\ Waits(t, p, u) /\ Keyed(t, p)
  BY InvParts DEF ConsumerInv
<1>2. Num(x) <= Top(t)
  <2>1. x <= t - 1
    BY <1>1
  <2> QED BY <1>1, <2>1, NumMonotone DEF Top
<1>3. x \in u
  BY <1>1 DEF Unmoved
<1>4. PICK e \in Entries : /\ value[e] # None /\ p[e] = Num(x)
                           /\ slot[value[e]][x % BlockSize] = x % Modulus
  BY <1>1, <1>3 DEF Waits, Kept
<1>5. e \in Ring
  BY <1>1, <1>4 DEF Keyed
<1> QED BY <1>2, <1>3, <1>4, <1>5

(* and is found through the index. *)
LEMMA Found ==
    ASSUME NEW t, NEW h, NEW z, NEW p, NEW d, NEW i, NEW u, Inv(t, h, z, p, d, i, u),
           NEW x \in Int, NEW e \in Entries, value[e] # None, p[e] = Num(x), p[e] <= Top(t)
    PROVE  EntryOf(x % Modulus) = e
<1>1. TypeOK /\ Keyed(t, p)
  BY InvParts
<1>2. blockIndexes # <<>> /\ key[blockIndex.entry[blockIndex.tail]] # INVALID_BLOCK_BASE
  BY TailHasKey
<1>3. PICK n \in 1..Len(blockIndexes) : n = Len(blockIndexes)
  BY <1>1, <1>2, CurrentIs
<1>4. blockIndex = blockIndexes[n]
  BY <1>3 DEF blockIndex
<1>5. Ring = 0..(blockIndexes[n].capacity - 1)
  BY <1>1, <1>2, <1>4, CurrentIs DEF Ring
<1>6. PICK s \in 0..(blockIndexes[n].capacity - 1) : s = blockIndex.tail
  BY <1>1, <1>2, <1>5, CurrentIs
<1>7. e \in 0..(blockIndexes[n].capacity - 1)
  BY <1>1, <1>5 DEF Keyed
<1>8. key[blockIndexes[n].entry[s]] # INVALID_BLOCK_BASE
  BY <1>2, <1>4, <1>6
<1>9. blockIndexes[n].entry[SlotFrom(blockIndexes[n], s, x % Modulus)] = e
  BY <1>7, <1>8, Lookup
<1> QED BY <1>4, <1>6, <1>9 DEF EntryOf

(* There are never as many elements as would wrap around. *)
LEMMA NotFull ==
    ASSUME NEW t, NEW h, NEW z, NEW p, NEW d, NEW i, NEW u, Inv(t, h, z, p, d, i, u)
    PROVE  t - h < Modulus
<1>1. /\ t \in Nat /\ h \in Nat /\ h <= t /\ z \in Int /\ p \in [Entries -> Int] /\ TypeOK
      /\ Window(t, z, p, d)
  BY InvParts
<1>2. SUFFICES ASSUME h < t
               PROVE  t - h < Modulus
  BY <1>1, Sizes
<1>3. PICK x \in Int, y \in Int : x = h /\ y = t - 1 /\ y >= x
  BY <1>1, <1>2
<1>4. PICK e \in Ring : p[e] = Num(x)
  <2>1. x >= h /\ x < t
    BY <1>2, <1>3
  <2> QED BY <2>1, WaitsIs
<1>5. PICK f \in Ring : p[f] = Num(y)
  <2>1. y >= h /\ y < t
    BY <1>1, <1>3
  <2> QED BY <2>1, WaitsIs
<1>6. blockIndexes # <<>>
  BY <1>4 DEF Ring, Size
<1>7. PICK m \in 1..MaxIndexSize : m = Size
  BY <1>1, <1>6, CurrentIs
<1>8. PICK a \in Int, b \in Int : a = Num(x) /\ b = Num(y)
  BY NumOf
<1>9. b - a < m
  <2>1. p[e] > z - m /\ p[f] <= z
    BY <1>4, <1>5, <1>6, <1>7, <1>1 DEF Window
  <2>2. m \in Int
    BY Sizes
  <2> QED BY <1>1, <1>4, <1>5, <1>8, <2>1, <2>2
<1>10. PICK B \in Nat : B = BlockSize /\ B > 1 /\ 2 * (B * m) <= Modulus
  BY Sizes
<1>11. PICK o \in 0..(B - 1), r \in 0..(B - 1) : x = a * B + o /\ y = b * B + r
  BY <1>8, <1>10, NumOf DEF Offsets
<1>12. PICK g \in Int, w \in Int, v \in Int : g = B * m /\ w = a * B /\ v = b * B
  BY <1>7, <1>8, <1>10, Sizes
<1>13. v - w <= g - B
  <2>1. m \in Int
    BY Sizes
  <2>2. PICK l \in Int : l = (m - 1) - (b - a) /\ l >= 0
    BY <1>9, <2>1
  <2>3. B * l >= 0
    BY <1>10, <2>2
  <2>4. B * l = (g - B) - (v - w)
    BY <1>12, <2>1, <2>2
  <2> QED BY <2>3, <2>4, <1>10, <1>12
<1>14. y - x < g
  BY <1>10, <1>11, <1>12, <1>13
<1>15. t - h <= g /\ 2 * g <= Modulus
  BY <1>1, <1>3, <1>10, <1>12, <1>14
<1>16. Modulus \in Nat /\ Modulus > 0
  BY Sizes
<1> QED BY <1>1, <1>15, <1>16

(* A consumer is at the block its elements were put in. *)
LEMMA LocatedHolds ==
    ASSUME IInv
    PROVE  Located
<1>1. PICK t, h, z, p, d, i, u : Inv(t, h, z, p, d, i, u)
  BY DEF IInv
<1>2. /\ TypeOK /\ Placed(p, d) /\ Keyed(t, p) /\ p \in [Entries -> Int]
      /\ i \in [Consumers -> Int]
  BY <1>1, InvParts
<1>3. SUFFICES ASSUME NEW c \in Consumers, pc[c] = "move"
               PROVE  /\ BlockAt(c) # None
                      /\ \A o \in InBlock(c) : slot[BlockAt(c)][o] = BaseOf(index[c]) + o
  BY DEF Located
<1>4. PICK x \in Int, n \in Nat : x = i[c] /\ n = count[c] /\ n > 0 /\ index[c] = x % Modulus
  BY <1>1, <1>3, Active
<1>5. AtEntry(c, p, i)
  BY <1>1, <1>3, Active
<1>6. PICK e \in Ring : e = EntryAt(c) /\ value[e] # None /\ p[e] = Num(x)
  <2>1. EntryAt(c) \in Entries
    BY <1>2, <1>3, <1>5, EntryAtIs
  <2>2. value[EntryAt(c)] # None /\ p[EntryAt(c)] = Num(x)
    BY <1>3, <1>4, <1>5 DEF AtEntry, BlockAt
  <2> QED BY <1>2, <2>1, <2>2 DEF Keyed
<1>7. BlockAt(c) = value[e]
  BY <1>6 DEF BlockAt
<1>8. PICK m \in Nat : /\ m <= n
                       /\ \A w \in Int : Num(w) = Num(x) =>
                             (w % BlockSize \in InBlock(c) <=> w >= x /\ w < x + m)
  <2>1. count[c] > 0 /\ index[c] = i[c] % Modulus
    BY <1>4
  <2> QED BY <1>2, <1>4, <2>1, InBlockIs
<1>9. ASSUME NEW o \in InBlock(c)
      PROVE  slot[value[e]][o] = BaseOf(index[c]) + o
  <2>1. o \in Offsets
    BY DEF InBlock
  <2>2. PICK k \in Int : k = Num(x)
    BY NumOf
  <2>3. PICK w \in Int : w = k * BlockSize + o
    BY <2>1, Sizes DEF Offsets
  <2>4. Num(w) = k /\ w % BlockSize = o
    BY <2>1, <2>3, NumIs
  <2>5. w >= x /\ w < x + n
    <3>1. w >= x /\ w < x + m
      BY <1>8, <2>2, <2>4
    <3> QED BY <1>8, <3>1
  <2>6. w \in Pending(c, i)
    BY <1>3, <1>4, <2>5 DEF Pending
  <2>7. PICK f \in Ring : p[f] = Num(w) /\ slot[value[f]][w % BlockSize] = w % Modulus
    BY <1>1, <2>6, Waiting
  <2>8. f = e
    BY <1>2, <1>6, <2>2, <2>4, <2>7, OneEntry
  <2>9. BaseOf(w % Modulus) = BaseOf(x % Modulus)
    BY <2>2, <2>4, BaseIs
  <2>10. BaseOf(w % Modulus) = (w % Modulus) - o
    BY <2>4, Wrapped DEF BaseOf
  <2>11. w % Modulus \in Int /\ o \in Int
    BY <2>1, Sizes DEF Offsets
  <2>12. w % Modulus = BaseOf(index[c]) + o
    BY <1>4, <2>9, <2>10, <2>11
  <2> QED BY <2>4, <2>7, <2>8, <2>12
<1> QED BY <1>6, <1>7, <1>9

LEMMA IndexedHolds ==
    ASSUME IInv
    PROVE  Indexed
<1>1. PICK t, h, z, p, d, i, u : Inv(t, h, z, p, d, i, u)
  BY DEF IInv
<1>2. t \in Nat /\ h \in Nat /\ h <= t /\ tailIndex = t % Modulus /\ headIndex = h % Modulus
  BY <1>1, InvParts
<1>3. SUFFICES ASSUME NEW k \in 0..(Subtract(tailIndex, headIndex) - 1)
               PROVE  LET j == Add(headIndex, k)
                          b == value[EntryOf(j)]
                      IN  b # None /\ slot[b][j % BlockSize] = j
  BY DEF Indexed
<1>4. PICK x \in Int : x = h + k /\ x >= h /\ x < t /\ k \in Int
  <2>1. PICK m \in Nat, w \in Nat : m = t - h /\ w = m % Modulus
    BY <1>2, Sizes
  <2>2. w <= m
    BY <2>1, AtMost
  <2>3. Subtract(tailIndex, headIndex) = w
    BY <1>2, <2>1, Wrapped
  <2>4. k \in Int /\ k >= 0 /\ k < w
    BY <1>3, <2>3
  <2> QED BY <1>2, <2>1, <2>2, <2>4
<1>5. Add(headIndex, k) = x % Modulus
  BY <1>2, <1>4, Wrapped
<1>6. Num(x) <= Top(t) /\
      \E e \in Ring : /\ e \in Entries /\ value[e] # None /\ p[e] = Num(x)
                      /\ slot[value[e]][x % BlockSize] = x % Modulus
  BY <1>1, <1>4, WaitsIs
<1>7. PICK e \in Entries : /\ value[e] # None /\ p[e] = Num(x)
                           /\ slot[value[e]][x % BlockSize] = x % Modulus
  BY <1>6
<1>8. EntryOf(x % Modulus) = e
  BY <1>1, <1>6, <1>7, Found
<1>9. (x % Modulus) % BlockSize = x % BlockSize
  BY Wrapped
<1> QED BY <1>5, <1>7, <1>8, <1>9

LEMMA OnePlaceHolds ==
    ASSUME IInv
    PROVE  OnePlace
<1>1. PICK t, h, z, p, d, i, u : Inv(t, h, z, p, d, i, u)
  BY DEF IInv
<1>2. TypeOK /\ TailIs(t, p) /\ Owned /\ Called(t) /\ t \in Nat
  BY <1>1, InvParts
<1>3. op.linked \notin free
  <2>1. CASE op.linked = None
    BY <1>2, <2>1, ImplicitProducerAssumption DEF TypeOK
  <2>2. CASE op.linked # None
    <3>1. t % BlockSize # 0 /\ op.linked = tailBlock
      BY <1>2, <2>2 DEF Called
    <3>2. PICK e \in Entries : value[e] = tailBlock
      BY <1>2, <3>1 DEF TailIs
    <3> QED BY <1>2, <3>1, <3>2 DEF Owned
  <2> QED BY <2>1, <2>2
<1>4. /\ op.undone \in Nat /\ Len(op.chain) \in Nat /\ op.undone <= Len(op.chain)
      /\ DOMAIN op.chain = 1..Len(op.chain)
  <2>1. op.chain \in Seq(Blocks)
    BY <1>2, LatestIs
  <2> QED BY <1>2, <2>1, LatestIs, LenProperties DEF Called
<1>5. ASSUME NEW b \in Blocks, NEW S, S = {e \in Entries : value[e] = b},
             NEW T, T = {n \in DOMAIN op.chain : n <= op.undone /\ op.chain[n] = b}
      PROVE  Cardinality(S) + Cardinality(T) + (IF b \in free THEN 1 ELSE 0) = 1
  <2>1. \A n : n \in T <=> n \in 1..op.undone /\ op.chain[n] = b
    BY <1>4, <1>5
  <2>2. b # None
    BY ImplicitProducerAssumption
  <2>3. Cardinality({}) = 0 /\ \A y : Cardinality({y}) = 1
    BY FS_EmptySet, FS_Singleton, Zenon
  <2>4. CASE b \in free
    <3>1. S = {} /\ T = {}
      BY <1>2, <1>5, <2>1, <2>4 DEF Owned
    <3>2. Cardinality(S) = 0 /\ Cardinality(T) = 0
      BY <2>3, <3>1
    <3> QED BY <2>4, <3>2
  <2>5. CASE b \notin free /\ \E e \in Entries : value[e] = b
    <3>1. PICK e \in Entries : value[e] = b
      BY <2>5
    <3>2. S = {e}
      BY <1>2, <1>5, <2>2, <3>1 DEF Owned
    <3>3. T = {}
      BY <1>2, <2>1, <3>1 DEF Owned
    <3>4. Cardinality(S) = 1 /\ Cardinality(T) = 0 /\ b \notin free
      BY <2>3, <2>5, <3>2, <3>3
    <3> QED BY <3>4
  <2>6. CASE b \notin free /\ \E n \in 1..op.undone : op.chain[n] = b
    <3>1. PICK n \in 1..op.undone : op.chain[n] = b
      BY <2>6
    <3>2. T = {n}
      BY <1>2, <2>1, <3>1 DEF Owned
    <3>3. S = {}
      BY <1>2, <1>5, <3>1 DEF Owned
    <3>4. Cardinality(S) = 0 /\ Cardinality(T) = 1 /\ b \notin free
      BY <2>3, <2>6, <3>2, <3>3
    <3> QED BY <3>4
  <2> QED BY <1>2, <2>4, <2>5, <2>6 DEF Owned
<1> QED BY <1>3, <1>5 DEF OnePlace

(* Between calls, the blocks of the elements that wait and a tail block     *)
(* with room are all there are.                                            *)
LEMMA DestructorHolds ==
    ASSUME IInv
    PROVE  DestructorGivesBack
<1>1. PICK t, h, z, p, d, i, u : Inv(t, h, z, p, d, i, u)
  BY DEF IInv
<1>2. /\ t \in Nat /\ h \in Nat /\ h <= t /\ tailIndex = t % Modulus /\ headIndex = h % Modulus
      /\ p \in [Entries -> Int] /\ TypeOK /\ Keyed(t, p) /\ TailIs(t, p) /\ Owned
      /\ u = Unmoved(h, i) /\ Counted(t, p, u, i)
  BY <1>1, InvParts DEF ConsumerInv
<1>3. SUFFICES ASSUME Quiet
               PROVE  LET left == {value[EntryOf(y)] : y \in LeftBehind}
                          last == IF FreesTailBlock THEN {tailBlock} ELSE {}
                      IN  /\ Cardinality(left) = Cardinality(LeftBehind)
                          /\ left \intersect last = {}
                          /\ left \union last = Blocks \ free
  BY DEF DestructorGivesBack
<1>4. op.chain = <<>> /\ Len(op.chain) = 0 /\ op.undone = 0 /\ \A c \in Consumers : pc[c] = "idle"
  BY <1>3 DEF Quiet, NoCall
<1>5. PICK top \in Int : top = Top(t) /\ top = Num(t - 1) /\ Latest(t) = top
  <2>1. Latest(t) = Top(t)
    BY <1>2, <1>4, TopIs DEF Latest
  <2> QED BY <1>2, <2>1, TopIs DEF Top
<1>6. PICK n \in Nat : n = t - h /\ n < Modulus /\ Subtract(tailIndex, headIndex) = n
  <2>1. PICK n \in Nat : n = t - h
    BY <1>2
  <2>2. n < Modulus
    BY <1>1, <2>1, NotFull
  <2>3. n % Modulus = n
    <3>1. n \in 0..(Modulus - 1) /\ Modulus \in Nat /\ Modulus > 0
      BY <2>2, Sizes
    <3> QED BY <3>1, ModBelow
  <2>4. Subtract(tailIndex, headIndex) = (t - h) % Modulus
    BY <1>2, Wrapped
  <2> QED BY <2>1, <2>2, <2>3, <2>4
<1>7. BaseOf(Subtract(tailIndex, 1)) = (top * BlockSize) % Modulus
  <2>1. PICK a \in Int, y \in Int : a = 1 /\ y = t - 1
    BY <1>2
  <2>2. Subtract(t % Modulus, a) = (t - a) % Modulus
    BY <1>2, Wrapped
  <2>3. BaseOf(y % Modulus) = (Num(y) * BlockSize) % Modulus
    BY BaseIs
  <2> QED BY <1>2, <1>5, <2>1, <2>2, <2>3
<1>8. ASSUME NEW y
      PROVE  y \in LeftBehind <=>
                /\ \E x \in Int : x >= h /\ x < t /\ y = (Num(x) * BlockSize) % Modulus
                /\ y # (top * BlockSize) % Modulus
  <2>1. ASSUME NEW k \in Int
        PROVE  BaseOf(Add(headIndex, k)) = (Num(h + k) * BlockSize) % Modulus
    <3>1. PICK x \in Int : x = h + k
      BY <1>2
    <3>2. Add(headIndex, k) = x % Modulus
      BY <1>2, <3>1, Wrapped
    <3> QED BY <3>1, <3>2, BaseIs
  <2>2. y \in LeftBehind <=> /\ \E k \in 0..(n - 1) : y = BaseOf(Add(headIndex, k))
                             /\ y # (top * BlockSize) % Modulus
    BY <1>6, <1>7 DEF LeftBehind
  <2>3. ASSUME NEW k \in 0..(n - 1), y = BaseOf(Add(headIndex, k))
        PROVE  \E x \in Int : x >= h /\ x < t /\ y = (Num(x) * BlockSize) % Modulus
    <3>1. PICK x \in Int : x = h + k /\ x >= h /\ x < t /\ k \in Int
      BY <1>2, <1>6
    <3> QED BY <2>1, <2>3, <3>1
  <2>4. ASSUME NEW x \in Int, x >= h, x < t, y = (Num(x) * BlockSize) % Modulus
        PROVE  \E k \in 0..(n - 1) : y = BaseOf(Add(headIndex, k))
    <3>1. PICK k \in 0..(n - 1) : x = h + k /\ k \in Int
      <4>1. x - h \in 0..(n - 1) /\ x = h + (x - h)
        BY <1>2, <1>6, <2>4
      <4> QED BY <4>1
    <3> QED BY <2>1, <2>4, <3>1
  <2> QED BY <2>2, <2>3, <2>4
<1>9. ASSUME NEW e \in Entries, value[e] # None
      PROVE  p[e] \in Int /\ p[e] <= top /\ EntryOf((p[e] * BlockSize) % Modulus) = e
  <2>1. PICK q \in Int : q = p[e] /\ q <= top
    BY <1>2, <1>5, <1>9 DEF Keyed
  <2>2. PICK x \in Int, o \in Offsets : o = 0 /\ x = q * BlockSize + o /\ x = q * BlockSize
    <3>1. 0 \in Offsets /\ q * BlockSize + 0 = q * BlockSize /\ q * BlockSize \in Int
      BY Sizes DEF Offsets
    <3> QED BY <3>1
  <2>3. Num(x) = q
    BY <2>2, NumIs
  <2>4. EntryOf(x % Modulus) = e
    BY <1>1, <1>5, <1>9, <2>1, <2>3, Found
  <2> QED BY <2>1, <2>2, <2>4
<1>10. ASSUME NEW x \in Int, x >= h, x < t
       PROVE  \E e \in Entries : value[e] # None /\ p[e] = Num(x)
  BY <1>1, <1>10, WaitsIs
<1>11. ASSUME NEW y \in LeftBehind
       PROVE  \E e \in Entries : /\ value[e] # None /\ EntryOf(y) = e
                                 /\ y = (p[e] * BlockSize) % Modulus /\ p[e] # top
  <2>1. PICK x \in Int : x >= h /\ x < t /\ y = (Num(x) * BlockSize) % Modulus
    BY <1>8
  <2>2. PICK e \in Entries : value[e] # None /\ p[e] = Num(x)
    BY <1>10, <2>1
  <2>3. p[e] # top
    BY <1>8, <2>1, <2>2
  <2> QED BY <1>9, <2>1, <2>2, <2>3
(* A block that is not free has an element to come. *)
<1>12. ASSUME NEW e \in Entries, value[e] # None
       PROVE  \E w \in Int : w >= h /\ Num(w) = p[e]
  <2>1. PICK q \in Int : q = p[e] /\ q <= top
    BY <1>9, <1>12
  <2>2. LeftOf(q, u) # {}
    BY <1>2, <1>4, <1>5, <1>12, <2>1 DEF Counted
  <2>3. PICK o \in Offsets : q * BlockSize + o \in u
    BY <2>2 DEF LeftOf
  <2>4. \A w \in u : w >= h
    BY <1>2, <1>4 DEF Unmoved, Pending
  <2>5. q * BlockSize + o \in Int
    BY Sizes DEF Offsets
  <2> QED BY <2>1, <2>3, <2>4, <2>5, NumIs
<1>13. ASSUME NEW e \in Entries, value[e] # None, p[e] # top
       PROVE  (p[e] * BlockSize) % Modulus \in LeftBehind
  <2>1. PICK w \in Int : w >= h /\ Num(w) = p[e]
    BY <1>12, <1>13
  <2>2. w < t
    <3>1. SUFFICES ASSUME ~(w < t)
                   PROVE  FALSE
      OBVIOUS
    <3>2. PICK y \in Int : y = t - 1 /\ y <= w
      BY <1>2, <3>1
    <3>3. Num(y) <= Num(w)
      BY <3>2, NumMonotone
    <3>4. p[e] <= top /\ p[e] \in Int
      BY <1>9, <1>13
    <3> QED BY <1>5, <1>13, <2>1, <3>2, <3>3, <3>4
  <2>3. PICK f \in Entries : value[f] # None /\ p[f] = top
    <3>1. PICK y \in Int : y = t - 1 /\ y >= h /\ y < t
      BY <1>2, <2>1, <2>2
    <3> QED BY <1>5, <1>10, <3>1
  <2>4. EntryOf((top * BlockSize) % Modulus) = f /\ EntryOf((p[e] * BlockSize) % Modulus) = e
    BY <1>9, <1>13, <2>3
  <2>5. (p[e] * BlockSize) % Modulus # (top * BlockSize) % Modulus
    BY <1>13, <2>3, <2>4
  <2> QED BY <1>8, <2>1, <2>2, <2>5
<1>14. (headIndex # tailIndex) <=> h < t
  <2>1. Modulus \in Nat /\ Modulus > 0
    BY Sizes
  <2>2. t % Modulus = h % Modulus => t = h
    <3>1. t \in Int /\ h \in Int /\ t - h < Modulus /\ h - t < Modulus
      BY <1>2, <1>6, <2>1
    <3> QED BY <2>1, <3>1, ModSame
  <2> QED BY <1>2, <2>2
<1>15. tailIndex % BlockSize = t % BlockSize
  BY <1>2, Wrapped
<1>16. ASSUME NEW e \in Entries, value[e] # None, p[e] = top
       PROVE  FreesTailBlock /\ value[e] = tailBlock
  <2>1. value[e] = tailBlock
    BY <1>2, <1>5, <1>16 DEF TailIs
  <2>2. ASSUME ~(h < t), t % BlockSize = 0
        PROVE  FALSE
    <3>1. PICK w \in Int : w >= h /\ Num(w) = top
      BY <1>12, <1>16
    <3>2. PICK q \in Int : q = Num(t) /\ t = q * BlockSize
      <4>1. PICK q \in Int, b \in Int : q = Num(t) /\ b = q * BlockSize /\ t = b + (t % BlockSize)
        <5>1. t \in Int
          BY <1>2
        <5>2. Num(t) \in Int /\ t = Num(t) * BlockSize + (t % BlockSize)
          BY <5>1, NumOf
        <5> QED BY <5>2, Sizes
      <4> QED BY <2>2, <4>1
    <3>3. PICK y \in Int, b \in Int : y = t - 1 /\ b = q * BlockSize /\ w >= b /\ ~(y >= b)
      BY <1>2, <2>2, <3>1, <3>2
    <3>4. Num(w) >= q /\ ~(Num(y) >= q)
      BY <3>3, NumFrom
    <3> QED BY <1>5, <3>1, <3>3, <3>4
  <2>3. h < t \/ t % BlockSize # 0
    BY <2>2
  <2> QED BY <1>14, <1>15, <1>16, <2>1, <2>3 DEF FreesTailBlock
<1>17. ASSUME FreesTailBlock
       PROVE  \E e \in Entries : value[e] = tailBlock /\ value[e] # None /\ p[e] = top
  <2>1. \E e \in Entries : value[e] # None /\ p[e] = top
    <3>1. CASE h < t
      <4>1. PICK y \in Int : y = t - 1 /\ y >= h /\ y < t
        BY <1>2, <3>1
      <4> QED BY <1>5, <1>10, <4>1
    <3>2. CASE t % BlockSize # 0
      BY <1>2, <1>5, <3>2 DEF TailIs
    <3> QED BY <1>14, <1>15, <1>17, <3>1, <3>2 DEF FreesTailBlock
  <2> QED BY <1>16, <2>1
<1>18. ASSUME NEW b
       PROVE  b \in Blocks \ free <=> \E e \in Entries : value[e] = b /\ value[e] # None
  <2>1. 1..op.undone = {}
    BY <1>4
  <2>2. None \notin Blocks
    BY ImplicitProducerAssumption
  <2>3. /\ \A e \in Entries : value[e] \notin free
        /\ \A a \in Blocks : a \in free \/ \E e \in Entries : value[e] = a
    BY <1>2, <2>1 DEF Owned
  <2>4. \A e \in Entries : value[e] # None => value[e] \in Blocks
    BY <1>2 DEF TypeOK
  <2> QED BY <2>2, <2>3, <2>4
<1>19. PICK left : left = {value[EntryOf(y)] : y \in LeftBehind}
  OBVIOUS
<1>20. PICK last : last = IF FreesTailBlock THEN {tailBlock} ELSE {}
  OBVIOUS
<1>21. ASSUME NEW b
       PROVE  b \in left <=> \E e \in Entries : value[e] = b /\ value[e] # None /\ p[e] # top
  <2>1. ASSUME b \in left
        PROVE  \E e \in Entries : value[e] = b /\ value[e] # None /\ p[e] # top
    <3>1. PICK y \in LeftBehind : b = value[EntryOf(y)]
      BY <1>19, <2>1
    <3> QED BY <1>11, <3>1
  <2>2. ASSUME NEW e \in Entries, value[e] = b, value[e] # None, p[e] # top
        PROVE  b \in left
    <3>1. PICK y \in LeftBehind : y = (p[e] * BlockSize) % Modulus
      BY <1>13, <2>2
    <3>2. EntryOf(y) = e
      BY <1>9, <2>2, <3>1
    <3> QED BY <1>19, <2>2, <3>2
  <2> QED BY <2>1, <2>2
<1>22. ASSUME NEW b
       PROVE  b \in last <=> \E e \in Entries : value[e] = b /\ value[e] # None /\ p[e] = top
  BY <1>16, <1>17, <1>20
<1>23. Cardinality(left) = Cardinality(LeftBehind)
  <2>1. PICK f : f = [y \in LeftBehind |-> value[EntryOf(y)]]
    OBVIOUS
  <2>2. f \in [LeftBehind -> left] /\ \A y \in LeftBehind : f[y] = value[EntryOf(y)]
    BY <1>19, <2>1
  <2>3. \A y, x \in LeftBehind : f[y] = f[x] => y = x
    <3>1. SUFFICES ASSUME NEW y \in LeftBehind, NEW x \in LeftBehind, f[y] = f[x]
                   PROVE  y = x
      OBVIOUS
    <3>2. PICK e \in Entries : value[e] # None /\ EntryOf(y) = e /\ y = (p[e] * BlockSize) % Modulus
      BY <1>11
    <3>3. PICK g \in Entries : value[g] # None /\ EntryOf(x) = g /\ x = (p[g] * BlockSize) % Modulus
      BY <1>11
    <3>4. value[e] = value[g]
      BY <2>2, <3>1, <3>2, <3>3
    <3>5. e = g
      BY <1>2, <3>2, <3>4 DEF Owned
    <3> QED BY <3>2, <3>3, <3>5
  <2>4. \A b \in left : \E y \in LeftBehind : f[y] = b
    BY <1>19, <2>2
  <2>5. f \in Bijection(LeftBehind, left)
    BY <2>2, <2>3, <2>4, Fun_IsBij
  <2>6. IsFiniteSet(LeftBehind)
    <3>1. 0 \in Int /\ Modulus - 1 \in Int
      BY Sizes
    <3>2. IsFiniteSet(Index)
      BY <3>1, FS_Interval DEF Index
    <3>3. \A y \in LeftBehind : y \in Index
      <4>1. SUFFICES ASSUME NEW y \in LeftBehind
                     PROVE  y \in Index
        OBVIOUS
      <4>2. PICK e \in Entries : y = (p[e] * BlockSize) % Modulus
        BY <1>11
      <4>3. p[e] \in Int
        BY <1>2
      <4> QED BY <4>2, <4>3, KeyIs
    <3>4. LeftBehind \in SUBSET Index
      BY <3>3
    <3> QED BY <3>2, <3>4, FS_Subset
  <2>7. ExistsBijection(LeftBehind, left)
    BY <2>5 DEF ExistsBijection
  <2> QED BY <2>6, <2>7, FS_Bijection
<1>24. left \intersect last = {}
  <2>1. SUFFICES ASSUME NEW b \in left, b \in last
                 PROVE  FALSE
    OBVIOUS
  <2>2. PICK e \in Entries : value[e] = b /\ value[e] # None /\ p[e] # top
    BY <1>21
  <2>3. PICK f \in Entries : value[f] = b /\ value[f] # None /\ p[f] = top
    BY <1>22, <2>1
  <2>4. e = f
    BY <1>2, <2>2, <2>3 DEF Owned
  <2> QED BY <2>2, <2>3, <2>4
<1>25. left \union last = Blocks \ free
  <2>1. ASSUME NEW b
        PROVE  b \in left \union last <=> b \in Blocks \ free
    BY <1>18, <1>21, <1>22
  <2> QED BY <2>1
<1> QED BY <1>19, <1>20, <1>23, <1>24, <1>25

-------------------------------------------------------------------------------
(* A consumer finds its elements where they were put, whatever the producer *)
(* and the other consumers did to the index after it looked there.         *)
THEOREM FindsElements == Spec => []Located
BY Invariance, LocatedHolds, PTL

(* Every element that waits can be found through the current index. *)
THEOREM CanBeFound == Spec => []Indexed
BY Invariance, IndexedHolds, PTL

(* A block is never used twice, and never leaks. *)
THEOREM UsedOnce == Spec => []OnePlace
BY Invariance, OnePlaceHolds, PTL

(* The destructor would give every block back, once. *)
THEOREM GivesAllBack == Spec => []DestructorGivesBack
BY Invariance, DestructorHolds, PTL
===============================================================================
