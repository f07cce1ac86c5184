----------------------------- MODULE TotalsProofs -----------------------------
(***************************************************************************)
(* Facts about Total: what it is worth when the function is zero and how   *)
(* it follows a change of the function at one point; and about remainders, *)
(* for the modules whose counters wrap around.                             *)
(***************************************************************************)
EXTENDS Totals, Integers, FiniteSetTheorems, FunctionTheorems, TLAPS

(* The units of a function on a finite set are finitely many. *)
LEMMA UnitsFinite ==
    ASSUME NEW S, IsFiniteSet(S), NEW f \in [S -> Nat]
    PROVE  IsFiniteSet(Units(f)) /\ Total(f) \in Nat
<1> DEFINE g == [x \in S |-> {x} \X (1..f[x])]
           R == {g[x] : x \in S}
<1>1. g \in Surjection(S, R)
  BY Zenon DEF Surjection, Range
<1>2. IsFiniteSet(R)
  <2> HIDE DEF g, R
  <2> QED BY <1>1, FS_Surjection
<1>3. \A T \in R : IsFiniteSet(T)
  <2>1. SUFFICES ASSUME NEW x \in S
                 PROVE  IsFiniteSet({x} \X (1..f[x]))
    OBVIOUS
  <2>2. IsFiniteSet({x}) /\ IsFiniteSet(1..f[x])
    <3>1. f[x] \in Int
      OBVIOUS
    <3>2. IsFiniteSet(1..f[x])
      BY <3>1, FS_Interval
    <3>3. IsFiniteSet({x})
      BY FS_Singleton, Zenon
    <3> QED BY <3>2, <3>3
  <2> QED BY <2>2, FS_Product
<1>4. Units(f) = UNION R
  BY DEF Units
<1>5. IsFiniteSet(Units(f))
  <2> HIDE DEF R
  <2> QED BY <1>2, <1>3, <1>4, FS_UNION
<1> QED BY <1>5, FS_CardinalityType DEF Total

(* A change at one point changes the total by as much. *)
LEMMA TotalExcept ==
    ASSUME NEW S, IsFiniteSet(S), NEW f \in [S -> Nat],
           NEW x \in S, NEW n \in Nat
    PROVE  Total([f EXCEPT ![x] = n]) = Total(f) - f[x] + n
<1> DEFINE h == [f EXCEPT ![x] = n]
           rest == UNION {{y} \X (1..f[y]) : y \in S \ {x}}
           old == {x} \X (1..f[x])
           new == {x} \X (1..n)
<1>1. h \in [S -> Nat] /\ h[x] = n /\ \A y \in S \ {x} : h[y] = f[y]
  OBVIOUS
<1>0. Cardinality({}) = 0
  BY FS_EmptySet, Zenon
<1>2. Units(f) = rest \union old
  BY DEF Units
<1>3. Units(h) = rest \union new
  <2> HIDE DEF h
  <2>1. UNION {{y} \X (1..h[y]) : y \in S}
        = (UNION {{y} \X (1..h[y]) : y \in S \ {x}}) \union ({x} \X (1..h[x]))
    OBVIOUS
  <2>2. {{y} \X (1..h[y]) : y \in S \ {x}} = {{y} \X (1..f[y]) : y \in S \ {x}}
    BY <1>1
  <2>3. DOMAIN h = S
    BY <1>1
  <2> QED BY <2>1, <2>2, <2>3, <1>1 DEF Units
<1>4. rest \intersect old = {} /\ rest \intersect new = {}
  OBVIOUS
<1>5. /\ IsFiniteSet(old) /\ Cardinality(old) = f[x]
      /\ IsFiniteSet(new) /\ Cardinality(new) = n
  <2>1. IsFiniteSet({x}) /\ Cardinality({x}) = 1
    BY FS_Singleton
  <2>2. ASSUME NEW m \in Nat
        PROVE  IsFiniteSet({x} \X (1..m)) /\ Cardinality({x} \X (1..m)) = m
    <3>1. IsFiniteSet(1..m) /\ Cardinality(1..m) = m
      BY FS_Interval
    <3>2. /\ IsFiniteSet({x} \X (1..m))
          /\ Cardinality({x} \X (1..m)) = Cardinality({x}) * Cardinality(1..m)
      BY <2>1, <3>1, FS_Product
    <3> QED BY <2>1, <3>1, <3>2
  <2> QED BY <2>2
<1>6. IsFiniteSet(rest)
  <2>1. rest \subseteq Units(f)
    BY <1>2
  <2> HIDE DEF rest
  <2> QED BY <2>1, UnitsFinite, FS_Subset
<1>7. Cardinality(rest) \in Nat
  <2> HIDE DEF rest
  <2> QED BY <1>6, FS_CardinalityType
<1>8. Total(f) = Cardinality(rest) + f[x]
  <2> HIDE DEF rest, old, new, h
  <2>1. Cardinality(rest \union old)
        = Cardinality(rest) + Cardinality(old) - Cardinality(rest \intersect old)
    BY <1>5, <1>6, FS_Union
  <2>2. Cardinality(rest \intersect old) = 0
    BY <1>0, <1>4
  <2>3. Total(f) = Cardinality(rest \union old)
    BY <1>2 DEF Total
  <2> QED BY <2>1, <2>2, <2>3, <1>5, <1>7
<1>9. Total(h) = Cardinality(rest) + n
  <2> HIDE DEF rest, old, new, h
  <2>1. Cardinality(rest \union new)
        = Cardinality(rest) + Cardinality(new) - Cardinality(rest \intersect new)
    BY <1>5, <1>6, FS_Union
  <2>2. Cardinality(rest \intersect new) = 0
    BY <1>0, <1>4
  <2>3. Total(h) = Cardinality(rest \union new)
    BY <1>3 DEF Total
  <2> QED BY <2>1, <2>2, <2>3, <1>5, <1>7
<1> QED BY <1>7, <1>8, <1>9

(* Nothing is counted by a function that is zero everywhere, and by it only. *)
LEMMA TotalZero ==
    ASSUME NEW S, IsFiniteSet(S), NEW f \in [S -> Nat]
    PROVE  Total(f) = 0 <=> \A x \in S : f[x] = 0
<1>1. Units(f) = {} <=> \A x \in S : f[x] = 0
  <2>1. ASSUME NEW x \in S, f[x] # 0
        PROVE  <<x, 1>> \in Units(f)
    <3>1. 1 \in 1..f[x]
      BY <2>1
    <3> QED BY <3>1 DEF Units
  <2>2. ASSUME \A x \in S : f[x] = 0
        PROVE  Units(f) = {}
    BY <2>2 DEF Units
  <2> QED BY <2>1, <2>2
<1> QED BY <1>1, UnitsFinite, FS_EmptySet DEF Total

(* As TotalExcept, for functions that differ at one point only. *)
LEMMA TotalChange ==
    ASSUME NEW S, IsFiniteSet(S), NEW f \in [S -> Nat], NEW g \in [S -> Nat],
           NEW x \in S, \A y \in S \ {x} : g[y] = f[y]
    PROVE  Total(g) = Total(f) - f[x] + g[x]
<1>1. g = [f EXCEPT ![x] = g[x]]
  OBVIOUS
<1> QED BY <1>1, TotalExcept

(* A function that is nowhere larger has no larger total. *)
LEMMA TotalMonotone ==
    ASSUME NEW S, IsFiniteSet(S), NEW f \in [S -> Nat], NEW g \in [S -> Nat],
           \A x \in S : f[x] <= g[x]
    PROVE  Total(f) <= Total(g)
<1>1. Units(f) \subseteq Units(g)
  <2>1. \A x \in S : {x} \X (1..f[x]) \subseteq {x} \X (1..g[x])
    OBVIOUS
  <2> QED BY <2>1 DEF Units
<1>2. IsFiniteSet(Units(g))
  BY UnitsFinite
<1> QED BY <1>1, <1>2, FS_Subset DEF Total

(* No part is larger than the whole. *)
LEMMA TotalPart ==
    ASSUME NEW S, IsFiniteSet(S), NEW f \in [S -> Nat], NEW x \in S
    PROVE  f[x] <= Total(f)
<1> DEFINE g == [f EXCEPT ![x] = 0]
<1>1. g \in [S -> Nat] /\ f[x] \in Nat /\ g[x] = 0 /\ \A y \in S \ {x} : g[y] = f[y]
  OBVIOUS
<1> HIDE DEF g
<1>2. Total(g) \in Nat /\ Total(f) \in Nat
  BY <1>1, UnitsFinite
<1>3. Total(g) = Total(f) - f[x] + g[x]
  BY <1>1, TotalChange
<1> QED BY <1>1, <1>2, <1>3

(* What a function is smaller by at one point it has room for. *)
LEMMA TotalRoom ==
    ASSUME NEW S, IsFiniteSet(S), NEW f \in [S -> Nat], NEW g \in [S -> Nat],
           NEW x \in S, \A y \in S \ {x} : f[y] <= g[y]
    PROVE  Total(f) - f[x] + g[x] <= Total(g)
<1> DEFINE h == [f EXCEPT ![x] = g[x]]
<1>1. /\ h \in [S -> Nat] /\ h[x] = g[x] /\ g[x] \in Nat
      /\ \A y \in S \ {x} : h[y] = f[y]
  OBVIOUS
<1> HIDE DEF h
<1>2. \A y \in S : h[y] <= g[y]
  BY <1>1
<1>3. Total(h) = Total(f) - f[x] + h[x]
  BY <1>1, TotalChange
<1>4. Total(h) <= Total(g)
  BY <1>1, <1>2, TotalMonotone
<1> QED BY <1>1, <1>3, <1>4

-------------------------------------------------------------------------------
(* A remainder is a number below the divisor. *)
LEMMA ModIs ==
    ASSUME NEW x \in Int, NEW m \in Nat, m > 0
    PROVE  x % m \in 0..(m - 1)
OBVIOUS

(* What a remainder is determined by. *)
LEMMA ModUnique ==
    ASSUME NEW n \in Nat, n > 0, NEW x \in Int, NEW q \in Int, NEW r \in 0..(n - 1), x = n * q + r
    PROVE  x % n = r
<1> DEFINE d == x \div n
           s == x % n
<1>1. d \in Int /\ s \in 0..(n - 1) /\ x = n * d + s
  OBVIOUS
<1> HIDE DEF d, s
<1>2. CASE q - d >= 1
  <2>1. n * (q - d) >= n
    BY <1>1, <1>2
  <2>2. n * (q - d) = n * q - n * d
    BY <1>1
  <2> QED BY <1>1, <2>1, <2>2
<1>3. CASE d - q >= 1
  <2>1. n * (d - q) >= n
    BY <1>1, <1>3
  <2>2. n * (d - q) = n * d - n * q
    BY <1>1
  <2> QED BY <1>1, <2>1, <2>2
<1>4. CASE q = d
  BY <1>1, <1>4 DEF s
<1> QED BY <1>1, <1>2, <1>3, <1>4

(* A number is a multiple of the divisor and its remainder. *)
LEMMA ModWhole ==
    ASSUME NEW n \in Nat, n > 0, NEW x \in Int
    PROVE  \E q \in Int, r \in 0..(n - 1) : x = n * q + r /\ x % n = r
<1>1. x \div n \in Int /\ x % n \in 0..(n - 1) /\ x = n * (x \div n) + (x % n)
  OBVIOUS
<1> QED BY <1>1

(* A number below the divisor is its own remainder. *)
LEMMA ModBelow ==
    ASSUME NEW n \in Nat, n > 0, NEW x \in 0..(n - 1)
    PROVE  x % n = x
<1>1. x = n * 0 + x
  OBVIOUS
<1> QED BY <1>1, ModUnique

(* One less is one less in the remainders, or round from zero to the last. *)
LEMMA ModStep ==
    ASSUME NEW n \in Nat, n > 0, NEW x \in Int
    PROVE  (x - 1) % n = IF x % n = 0 THEN n - 1 ELSE (x % n) - 1
<1>1. PICK q \in Int, r \in 0..(n - 1) : x = n * q + r /\ x % n = r
  BY ModWhole
<1>2. CASE r = 0
  <2>1. n * (q - 1) = n * q - n
    OBVIOUS
  <2>2. x - 1 = n * (q - 1) + (n - 1) /\ n - 1 \in 0..(n - 1) /\ q - 1 \in Int
    BY <1>1, <1>2, <2>1
  <2>3. PICK y \in Int, z \in 0..(n - 1), p \in Int : y = x - 1 /\ z = n - 1 /\ p = q - 1
    BY <2>2
  <2>4. y % n = z
    BY <2>2, <2>3, ModUnique
  <2> QED BY <1>1, <1>2, <2>3, <2>4
<1>3. CASE r # 0
  <2>1. x - 1 = n * q + (r - 1) /\ r - 1 \in 0..(n - 1)
    BY <1>1, <1>3
  <2>2. (x - 1) % n = r - 1
    BY <2>1, ModUnique
  <2> QED BY <1>1, <1>3, <2>2
<1> QED BY <1>2, <1>3

(* The difference of remainders has the remainder of the difference. *)
LEMMA ModDifference ==
    ASSUME NEW n \in Nat, n > 0, NEW x \in Int, NEW y \in Int
    PROVE  ((x % n) - (y % n)) % n = (x - y) % n
<1>1. PICK q \in Int, r \in 0..(n - 1) : x = n * q + r /\ x % n = r
  BY ModWhole
<1>2. PICK p \in Int, s \in 0..(n - 1) : y = n * p + s /\ y % n = s
  BY ModWhole
<1>0. PICK z \in Int : z = r - s
  OBVIOUS
<1>3. PICK d \in Int, e \in 0..(n - 1) : z = n * d + e /\ z % n = e
  BY ModWhole
<1>4. n * (q - p + d) = n * q - n * p + n * d
  OBVIOUS
<1>5. x - y = n * (q - p + d) + e /\ q - p + d \in Int
  BY <1>0, <1>1, <1>2, <1>3, <1>4
<1>6. (x - y) % n = e
  BY <1>5, ModUnique
<1> QED BY <1>0, <1>1, <1>2, <1>3, <1>6

(* A remainder may be taken before a number is added. *)
LEMMA ModPlus ==
    ASSUME NEW n \in Nat, n > 0, NEW x \in Int, NEW y \in Int
    PROVE  ((x % n) + y) % n = (x + y) % n
<1>1. PICK q \in Int, r \in 0..(n - 1) : x = n * q + r /\ x % n = r
  BY ModWhole
<1>2. PICK z \in Int : z = r + y
  OBVIOUS
<1>3. PICK d \in Int, e \in 0..(n - 1) : z = n * d + e /\ z % n = e
  BY ModWhole
<1>4. n * (q + d) = n * q + n * d
  OBVIOUS
<1>5. x + y = n * (q + d) + e /\ q + d \in Int /\ x + y \in Int
  BY <1>1, <1>2, <1>3, <1>4
<1>6. PICK u \in Int, v \in Int : u = x + y /\ v = q + d
  BY <1>5
<1>7. u % n = e
  BY <1>5, <1>6, ModUnique
<1> QED BY <1>1, <1>2, <1>3, <1>6, <1>7

(* Multiples of the divisor leave the remainder as it is. *)
LEMMA ModShift ==
    ASSUME NEW n \in Nat, n > 0, NEW x \in Int, NEW k \in Int
    PROVE  (x + n * k) % n = x % n
<1>1. PICK q \in Int, r \in 0..(n - 1) : x = n * q + r /\ x % n = r
  BY ModWhole
<1>2. n * (q + k) = n * q + n * k
  OBVIOUS
<1>3. PICK u \in Int, v \in Int : u = x + n * k /\ v = q + k
  OBVIOUS
<1>4. u = n * v + r
  BY <1>1, <1>2, <1>3
<1>5. u % n = r
  BY <1>4, ModUnique
<1> QED BY <1>1, <1>3, <1>5

(* Numbers with one remainder that are less than the divisor apart. *)
LEMMA ModSame ==
    ASSUME NEW n \in Nat, n > 0, NEW x \in Int, NEW y \in Int,
           x % n = y % n, x - y < n, y - x < n
    PROVE  x = y
<1>1. PICK q \in Int, r \in 0..(n - 1) : x = n * q + r /\ x % n = r
  BY ModWhole
<1>2. PICK p \in Int, s \in 0..(n - 1) : y = n * p + s /\ y % n = s
  BY ModWhole
<1>3. n * (q - p) = n * q - n * p
  OBVIOUS
<1>4. n * (q - p) < n /\ n * (q - p) > -n
  BY <1>1, <1>2, <1>3
<1>5. PICK d \in Int : d = q - p
  OBVIOUS
<1>6. n * d < n /\ n * d > -n
  BY <1>4, <1>5
<1>7. d < 1 /\ d > -1
  <2>1. d >= 1 => n * d >= n
    OBVIOUS
  <2>2. d <= -1 => n * d <= -n
    OBVIOUS
  <2> QED BY <1>6, <2>1, <2>2
<1>8. d = 0
  BY <1>7
<1>9. q = p
  BY <1>5, <1>8
<1> QED BY <1>1, <1>2, <1>9

(* A remainder of a remainder, when one divisor divides the other. *)
LEMMA ModOfMod ==
    ASSUME NEW n \in Nat, n > 0, NEW m \in Nat, m > 0, m % n = 0, NEW x \in Int
    PROVE  (x % m) % n = x % n
<1>1. PICK k \in Int, z \in 0..(n - 1) : m = n * k + z /\ m % n = z
  BY ModWhole
<1>2. PICK q \in Int, r \in 0..(m - 1) : x = m * q + r /\ x % m = r
  BY ModWhole
<1>3. m * q = n * (k * q)
  BY <1>1
<1>4. PICK j \in Int : j = k * q
  OBVIOUS
<1>5. x = r + n * j
  BY <1>2, <1>3, <1>4
<1>6. (r + n * j) % n = r % n
  <2>1. r \in Int
    OBVIOUS
  <2> QED BY <2>1, ModShift
<1> QED BY <1>2, <1>5, <1>6
===============================================================================
