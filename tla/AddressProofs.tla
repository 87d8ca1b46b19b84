--------------------------- MODULE AddressProofs ---------------------------
(***************************************************************************)
(* The addresses of any base and number of digits: addresses are compared, *)
(* counted up and subtracted as the numbers they write, the loop over them *)
(* makes an arithmetic progression, and the lookup undoes it.              *)
(*                                                                         *)
(* A recursive function is one that satisfies its equation, if there is    *)
(* one: RecursionExists makes it, one value after the other.               *)
(***************************************************************************)
EXTENDS ClientAddressing, WellFoundedInduction, TLAPS

(* A set of natural numbers has a least one.                                  *)
LEMMA LeastNumber ==
  ASSUME NEW T, T \subseteq Nat, T # {}
  PROVE  \E x \in T : \A y \in T : x <= y
<1> DEFINE R == OpToRel(<, Nat)
<1>1. IsWellFoundedOn(R, Nat)
  BY NatLessThanWellFounded
<1>2. PICK x \in T : \A y \in T : ~ (<<y, x>> \in R)
  <2> HIDE DEF R
  <2> QED BY <1>1, WFMin
<1>3. \A y \in T : y < x => <<y, x>> \in R
  BY DEF OpToRel
<1> HIDE DEF R
<1>4. \A y \in T : ~ (y < x)
  BY <1>2, <1>3
<1>5. \A y \in T : x <= y
  BY <1>4, SMT
<1> QED
  BY <1>5

(* A set that has m, and the next of each of its numbers below n, has all the *)
(* numbers from m to n.                                                       *)
LEMMA UpTo ==
  ASSUME NEW m \in Nat, NEW n \in Nat, NEW G, m \in G,
         \A k \in m..(n - 1) : k \in G => k + 1 \in G
  PROVE  \A k \in m..n : k \in G
<1> DEFINE Bad == {k \in m..n : k \notin G}
<1>1. SUFFICES ASSUME Bad # {} PROVE FALSE
  OBVIOUS
<1>2. PICK k \in Bad : \A y \in Bad : k <= y
  <2>1. Bad \subseteq Nat
    OBVIOUS
  <2> HIDE DEF Bad
  <2> QED BY <1>1, <2>1, LeastNumber
<1>3. k \in (m + 1)..n /\ k - 1 \in m..(n - 1) /\ k = (k - 1) + 1 /\ ~(k <= k - 1)
  BY <1>2
<1>4. k - 1 \in G
  BY <1>2, <1>3
<1>5. k \in G
  BY <1>3, <1>4
<1> QED
  BY <1>2, <1>5

(* A function defined by recursion exists, up to any n.                       *)
Recursion(f, A, a, n, next) ==
  f \in [0..n -> A] /\ f[0] = a /\ \A k \in 1..n : f[k] = next[k][f[k - 1]]

LEMMA RecursionExists ==
  ASSUME NEW A, NEW a \in A, NEW n \in Nat, NEW next \in [1..n -> [A -> A]]
  PROVE  \E f : Recursion(f, A, a, n, next)
<1> DEFINE P(f, m) == f[0] = a /\ \A k \in 1..m : f[k] = next[k][f[k - 1]]
           G == {m \in 0..n : \E f \in [0..m -> A] : P(f, m)}
<1>1. 0 \in G
  <2> DEFINE f == [k \in 0..0 |-> a]
  <2>1. f \in [0..0 -> A] /\ P(f, 0)
    OBVIOUS
  <2>2. 0 \in 0..n
    OBVIOUS
  <2> HIDE DEF f, P
  <2> QED BY <2>1, <2>2
<1>2. ASSUME NEW m \in 0..(n - 1), m \in G PROVE m + 1 \in G
  <2>1. PICK g \in [0..m -> A] : P(g, m)
    BY <1>2
  <2> DEFINE f == [k \in 0..(m + 1) |-> IF k = m + 1 THEN next[k][g[m]] ELSE g[k]]
  <2>2. m + 1 \in 1..n /\ m \in 0..m /\ m \in Nat
    OBVIOUS
  <2>3. next[m + 1][g[m]] \in A
    BY <2>2
  <2>4. f \in [0..(m + 1) -> A]
    BY <2>2, <2>3
  <2>5. f[0] = a
    BY <2>1, <2>2
  <2>6. ASSUME NEW k \in 1..(m + 1) PROVE f[k] = next[k][f[k - 1]]
    <3>1. k - 1 \in 0..m /\ k - 1 # m + 1 /\ k - 1 \in 0..(m + 1) /\ k \in 0..(m + 1)
      OBVIOUS
    <3>2. f[k - 1] = g[k - 1]
      BY <3>1
    <3>3. CASE k = m + 1
      <4>1. f[k] = next[k][g[m]] /\ k - 1 = m
        BY <3>1, <3>3
      <4> HIDE DEF f
      <4> QED BY <3>2, <4>1
    <3>4. CASE k # m + 1
      <4>1. k \in 1..m /\ f[k] = g[k]
        BY <3>1, <3>4
      <4> HIDE DEF f
      <4> QED BY <2>1, <3>2, <4>1
    <3> QED BY <3>3, <3>4
  <2>7. P(f, m + 1)
    <3> HIDE DEF f
    <3> QED BY <2>5, <2>6
  <2> HIDE DEF f, P
  <2> QED BY <2>2, <2>4, <2>7
<1>3. n \in G
  <2>1. \A m \in 0..(n - 1) : m \in G => m + 1 \in G
    BY <1>2
  <2> HIDE DEF G
  <2>2. \A m \in 0..n : m \in G
    BY <1>1, <2>1, UpTo
  <2> QED BY <2>2
<1>4. PICK f \in [0..n -> A] : P(f, n)
  BY <1>3
<1> QED
  BY <1>4 DEF Recursion

-----------------------------------------------------------------------------
(* The powers of the base.                                                    *)

LEMMA ValuesEquation ==
  /\ Values \in [0..Digits -> Nat] /\ Values[0] = 1
  /\ \A n \in 1..Digits : Values[n] = Values[n - 1] * Base
<1> DEFINE next == [k \in 1..Digits |-> [v \in Nat |-> v * Base]]
           Rhs(f, n) == IF n = 0 THEN 1 ELSE f[n - 1] * Base
<1>1. Digits \in Nat /\ Base \in Nat
  BY AddressAssumption
<1>2. next \in [1..Digits -> [Nat -> Nat]]
  BY <1>1
<1>3. PICK g : Recursion(g, Nat, 1, Digits, next)
  <2> HIDE DEF next
  <2> QED BY <1>1, <1>2, RecursionExists
<1>4. \A k \in 1..Digits : g[k] = g[k - 1] * Base
  <2>1. \A k \in 1..Digits : g[k - 1] \in Nat
    BY <1>1, <1>3 DEF Recursion
  <2>2. \A k \in 1..Digits : \A v \in Nat : next[k][v] = v * Base
    OBVIOUS
  <2> HIDE DEF next
  <2> QED BY <1>3, <2>1, <2>2 DEF Recursion
<1>5. \A k \in 0..Digits : g[k] = Rhs(g, k)
  BY <1>1, <1>3, <1>4 DEF Recursion
<1>6. g = [k \in 0..Digits |-> Rhs(g, k)]
  <2> HIDE DEF Rhs
  <2> QED BY <1>3, <1>5 DEF Recursion
<1>7. Values = [k \in 0..Digits |-> Rhs(Values, k)]
  <2> HIDE DEF Rhs
  <2>1. Values = CHOOSE f : f = [k \in 0..Digits |-> Rhs(f, k)]
    BY DEF Values, Rhs
  <2> QED BY <1>6, <2>1
<1>8. \A k \in 0..Digits : Values[k] = Rhs(Values, k)
  <2> HIDE DEF Rhs
  <2> QED BY <1>7
<1>9. Values[0] = 1 /\ \A n \in 1..Digits : Values[n] = Values[n - 1] * Base
  BY <1>1, <1>8
<1>10. \A k \in 0..Digits : Values[k] \in Nat
  <2> DEFINE G == {k \in 0..Digits : Values[k] \in Nat}
  <2>1. 0 \in G
    BY <1>1, <1>9
  <2>2. \A k \in 0..(Digits - 1) : k \in G => k + 1 \in G
    <3> SUFFICES ASSUME NEW k \in 0..(Digits - 1), k \in G PROVE k + 1 \in G
      OBVIOUS
    <3>1. k + 1 \in 1..Digits /\ (k + 1) - 1 = k
      BY <1>1
    <3>2. Values[k + 1] = Values[k] * Base
      BY <1>9, <3>1
    <3> QED BY <1>1, <3>1, <3>2
  <2> HIDE DEF G
  <2>3. \A k \in 0..Digits : k \in G
    BY <1>1, <2>1, <2>2, UpTo
  <2> QED BY <2>3 DEF G
<1>11. Values \in [0..Digits -> Nat]
  <2>1. Values = [k \in 0..Digits |-> Values[k]]
    <3> HIDE DEF Rhs
    <3> QED BY <1>7, <1>8
  <2> QED BY <1>10, <2>1
<1> QED
  BY <1>9, <1>11

(* v is the function by which Number reads the last n digits of a.            *)
Reads(v, a, n) ==
  /\ v \in [0..n -> Nat] /\ v[0] = 0 /\ v[n] = Number(a, n)
  /\ \A k \in 1..n : v[k] = v[k - 1] * Base + a[Digits - n + k]

LEMMA NumberIsRead ==
  ASSUME NEW a \in Address, NEW n \in 0..Digits
  PROVE  \E v : Reads(v, a, n)
<1> DEFINE next == [k \in 1..n |-> [v \in Nat |-> v * Base + a[Digits - n + k]]]
           Rhs(f, k) == IF k = 0 THEN 0 ELSE f[k - 1] * Base + a[Digits - n + k]
           value == CHOOSE f : f = [k \in 0..n |-> Rhs(f, k)]
<1>1. Digits \in Nat /\ Base \in Nat /\ n \in Nat /\ \A d \in 1..Digits : a[d] \in Nat
  BY AddressAssumption DEF Address
<1>2. next \in [1..n -> [Nat -> Nat]]
  <2>1. \A k \in 1..n : a[Digits - n + k] \in Nat
    BY <1>1
  <2> QED BY <1>1, <2>1
<1>3. PICK g : Recursion(g, Nat, 0, n, next)
  <2> HIDE DEF next
  <2> QED BY <1>1, <1>2, RecursionExists
<1>4. \A k \in 1..n : g[k] = g[k - 1] * Base + a[Digits - n + k]
  <2>1. \A k \in 1..n : g[k - 1] \in Nat
    BY <1>1, <1>3 DEF Recursion
  <2>2. \A k \in 1..n : \A v \in Nat : next[k][v] = v * Base + a[Digits - n + k]
    OBVIOUS
  <2> HIDE DEF next
  <2> QED BY <1>3, <2>1, <2>2 DEF Recursion
<1>5. \A k \in 0..n : g[k] = Rhs(g, k)
  BY <1>1, <1>3, <1>4 DEF Recursion
<1>6. g = [k \in 0..n |-> Rhs(g, k)]
  <2> HIDE DEF Rhs
  <2> QED BY <1>3, <1>5 DEF Recursion
<1>7. value = [k \in 0..n |-> Rhs(value, k)]
  <2> HIDE DEF Rhs
  <2> QED BY <1>6
<1>8. Number(a, n) = value[n]
  BY DEF Number
<1> HIDE DEF value
<1>9. \A k \in 0..n : value[k] = Rhs(value, k)
  <2> HIDE DEF Rhs
  <2> QED BY <1>7
<1>10. value[0] = 0 /\ \A k \in 1..n : value[k] = value[k - 1] * Base + a[Digits - n + k]
  BY <1>1, <1>9
<1>11. \A k \in 0..n : value[k] \in Nat
  <2> DEFINE G == {k \in 0..n : value[k] \in Nat}
  <2>1. 0 \in G
    BY <1>1, <1>10
  <2>2. \A k \in 0..(n - 1) : k \in G => k + 1 \in G
    <3> SUFFICES ASSUME NEW k \in 0..(n - 1), k \in G PROVE k + 1 \in G
      OBVIOUS
    <3>1. k + 1 \in 1..n /\ (k + 1) - 1 = k /\ Digits - n + (k + 1) \in 1..Digits
      BY <1>1
    <3>2. value[k + 1] = value[k] * Base + a[Digits - n + (k + 1)]
      BY <1>10, <3>1
    <3>3. value[k] * Base \in Nat /\ a[Digits - n + (k + 1)] \in Nat
      BY <1>1, <3>1
    <3>4. value[k + 1] \in Nat
      BY <3>2, <3>3
    <3> QED BY <3>1, <3>4
  <2> HIDE DEF G
  <2>3. \A k \in 0..n : k \in G
    BY <1>1, <2>1, <2>2, UpTo
  <2> QED BY <2>3 DEF G
<1>12. value \in [0..n -> Nat]
  <2>1. value = [k \in 0..n |-> value[k]]
    <3> HIDE DEF Rhs
    <3> QED BY <1>7, <1>9
  <2> QED BY <1>11, <2>1
<1> QED
  BY <1>8, <1>10, <1>12 DEF Reads
-----------------------------------------------------------------------------
(* Order and succession of addresses are those of their numbers.              *)

(* A digit more keeps numbers apart, and within the values there are.         *)
LEMMA DigitMore ==
  ASSUME NEW x \in Nat, NEW y \in Nat, NEW p \in 0..(Base - 1), NEW q \in 0..(Base - 1),
         x < y
  PROVE  x * Base + p < y * Base + q /\ x * Base + p < y * Base
<1>1. Base \in Nat /\ Base > 0
  BY AddressAssumption
<1>2. PICK z \in Nat : y = x + 1 + z
  <2>1. y - x - 1 \in Nat /\ y = x + 1 + (y - x - 1)
    OBVIOUS
  <2> QED BY <2>1
<1>3. y * Base = x * Base + Base + z * Base
  BY <1>1, <1>2
<1>4. x * Base \in Nat /\ z * Base \in Nat /\ y * Base \in Nat
  BY <1>1
<1> QED
  BY <1>1, <1>3, <1>4

LEMMA DigitsAre ==
  ASSUME NEW a \in Address
  PROVE  \A d \in 1..Digits : a[d] \in 0..(Base - 1)
BY DEF Address

LEMMA ReadBound ==
  ASSUME NEW a \in Address, NEW n \in 0..Digits, NEW v, Reads(v, a, n)
  PROVE  \A k \in 0..n : v[k] < Values[k]
<1> DEFINE G == {k \in 0..n : v[k] < Values[k]}
<1>1. /\ Digits \in Nat /\ n \in Nat /\ \A k \in 0..n : v[k] \in Nat /\ Values[k] \in Nat
  <2>1. Digits \in Nat /\ n \in Nat /\ \A k \in 0..n : k \in 0..Digits
    BY AddressAssumption
  <2>2. \A k \in 0..n : v[k] \in Nat
    BY DEF Reads
  <2> QED BY <2>1, <2>2, ValuesEquation
<1>2. 0 \in G
  BY <1>1, ValuesEquation DEF Reads
<1>3. \A k \in 0..(n - 1) : k \in G => k + 1 \in G
  <2> SUFFICES ASSUME NEW k \in 0..(n - 1), k \in G PROVE k + 1 \in G
    OBVIOUS
  <2>1. /\ k + 1 \in 1..n /\ (k + 1) - 1 = k /\ Digits - n + (k + 1) \in 1..Digits
        /\ k + 1 \in 1..Digits /\ k + 1 \in 0..n
    BY <1>1
  <2>2. v[k + 1] = v[k] * Base + a[Digits - n + (k + 1)]
    BY <2>1 DEF Reads
  <2>3. Values[k + 1] = Values[k] * Base
    BY <2>1, ValuesEquation
  <2>4. a[Digits - n + (k + 1)] \in 0..(Base - 1)
    BY <2>1, DigitsAre
  <2>5. v[k] * Base + a[Digits - n + (k + 1)] < Values[k] * Base
    <3>1. v[k] \in Nat /\ Values[k] \in Nat /\ v[k] < Values[k] /\ 0 \in 0..(Base - 1)
      BY <1>1, AddressAssumption
    <3> QED BY <2>4, <3>1, DigitMore
  <2> QED BY <2>1, <2>2, <2>3, <2>5
<1> HIDE DEF G
<1>4. \A k \in 0..n : k \in G
  BY <1>1, <1>2, <1>3, UpTo
<1> QED
  BY <1>4 DEF G

LEMMA NumberBound ==
  ASSUME NEW a \in Address, NEW n \in 0..Digits
  PROVE  Number(a, n) \in 0..(Values[n] - 1)
<1>1. PICK v : Reads(v, a, n)
  BY NumberIsRead
<1>2. n \in 0..n /\ Values[n] \in Nat
  <2>1. n \in Nat
    BY AddressAssumption
  <2>2. Values[n] \in Nat
    BY ValuesEquation
  <2> QED BY <2>1, <2>2
<1>3. v[n] \in Nat /\ v[n] = Number(a, n)
  BY <1>1, <1>2 DEF Reads
<1>4. v[n] < Values[n]
  BY <1>1, <1>2, ReadBound
<1> QED
  BY <1>2, <1>3, <1>4

(* Numbers whose first difference is in a digit differ as the digit does.     *)
LEMMA SmallerNumber ==
  ASSUME NEW a \in Address, NEW b \in Address, NEW d \in 1..Digits,
         a[d] < b[d], \A e \in 1..(d - 1) : a[e] = b[e]
  PROVE  Number(a, Digits) < Number(b, Digits)
<1>1. Digits \in Nat /\ Base \in Nat /\ Digits \in 0..Digits
  BY AddressAssumption
<1>2. PICK v : Reads(v, a, Digits)
  BY <1>1, NumberIsRead
<1>3. PICK w : Reads(w, b, Digits)
  BY <1>1, NumberIsRead
<1>4. \A k \in 1..Digits : /\ v[k] = v[k - 1] * Base + a[k] /\ w[k] = w[k - 1] * Base + b[k]
                           /\ v[k - 1] \in Nat /\ w[k - 1] \in Nat /\ v[k] \in Nat /\ w[k] \in Nat
  <2> SUFFICES ASSUME NEW k \in 1..Digits
               PROVE  /\ v[k] = v[k - 1] * Base + a[k] /\ w[k] = w[k - 1] * Base + b[k]
                      /\ v[k - 1] \in Nat /\ w[k - 1] \in Nat /\ v[k] \in Nat /\ w[k] \in Nat
    OBVIOUS
  <2>1. Digits - Digits + k = k /\ k - 1 \in 0..Digits /\ k \in 0..Digits
    BY <1>1
  <2> QED BY <1>2, <1>3, <2>1 DEF Reads
<1>5. \A k \in 1..Digits : a[k] \in 0..(Base - 1) /\ b[k] \in 0..(Base - 1)
  BY DigitsAre
<1>6. v[d - 1] = w[d - 1]
  <2> DEFINE G == {k \in 0..(d - 1) : v[k] = w[k]}
  <2>1. 0 \in G
    BY <1>2, <1>3 DEF Reads
  <2>2. \A k \in 0..((d - 1) - 1) : k \in G => k + 1 \in G
    <3> SUFFICES ASSUME NEW k \in 0..((d - 1) - 1), k \in G PROVE k + 1 \in G
      OBVIOUS
    <3>1. k + 1 \in 1..Digits /\ (k + 1) - 1 = k /\ k + 1 \in 1..(d - 1) /\ k + 1 \in 0..(d - 1)
      BY <1>1
    <3>2. v[k + 1] = v[k] * Base + a[k + 1] /\ w[k + 1] = w[k] * Base + b[k + 1]
      BY <1>4, <3>1
    <3> QED BY <3>1, <3>2
  <2>3. 0 \in Nat /\ d - 1 \in Nat /\ d - 1 \in 0..(d - 1)
    OBVIOUS
  <2> HIDE DEF G
  <2>4. \A k \in 0..(d - 1) : k \in G
    BY <2>1, <2>2, <2>3, UpTo
  <2> QED BY <2>3, <2>4 DEF G
<1>7. v[d] < w[d]
  <2>1. v[d] = v[d - 1] * Base + a[d] /\ w[d] = v[d - 1] * Base + b[d] /\ v[d - 1] \in Nat
    BY <1>4, <1>6
  <2>2. v[d - 1] * Base \in Nat
    BY <1>1, <2>1
  <2> QED BY <1>5, <2>1, <2>2
<1>8. v[Digits] < w[Digits]
  <2> DEFINE G == {k \in d..Digits : v[k] < w[k]}
  <2>1. d \in G
    BY <1>1, <1>7
  <2>2. \A k \in d..(Digits - 1) : k \in G => k + 1 \in G
    <3> SUFFICES ASSUME NEW k \in d..(Digits - 1), k \in G PROVE k + 1 \in G
      OBVIOUS
    <3>1. k + 1 \in 1..Digits /\ (k + 1) - 1 = k /\ k + 1 \in d..Digits
      BY <1>1
    <3>2. /\ v[k + 1] = v[k] * Base + a[k + 1] /\ w[k + 1] = w[k] * Base + b[k + 1]
          /\ v[k] \in Nat /\ w[k] \in Nat /\ v[k] < w[k]
      BY <1>4, <3>1
    <3>3. v[k + 1] < w[k + 1]
      BY <1>5, <3>1, <3>2, DigitMore
    <3> QED BY <3>1, <3>3
  <2>3. d \in Nat /\ Digits \in d..Digits
    BY <1>1
  <2> HIDE DEF G
  <2>4. \A k \in d..Digits : k \in G
    BY <1>1, <2>1, <2>2, <2>3, UpTo
  <2> QED BY <2>3, <2>4 DEF G
<1> QED
  BY <1>2, <1>3, <1>8 DEF Reads

(* IpBetween compares numbers.                                                *)
LEMMA AtMostIsNumber ==
  ASSUME NEW a \in Address, NEW b \in Address
  PROVE  /\ AtMost(a, b) <=> Number(a, Digits) <= Number(b, Digits)
         /\ Number(a, Digits) = Number(b, Digits) => a = b
<1>1. Digits \in Nat /\ Digits \in 0..Digits
  BY AddressAssumption
<1>2. Number(a, Digits) \in Int /\ Number(b, Digits) \in Int
  BY <1>1, NumberBound, ValuesEquation
<1>3. CASE a = b
  BY <1>2, <1>3 DEF AtMost
<1>4. CASE a # b
  <2> DEFINE T == {d \in 1..Digits : a[d] # b[d]}
  <2>1. T # {} /\ T \subseteq Nat
    <3>1. a = [d \in 1..Digits |-> a[d]] /\ b = [d \in 1..Digits |-> b[d]]
      BY DEF Address
    <3> QED BY <1>1, <1>4, <3>1
  <2>2. PICK d \in T : \A e \in T : d <= e
    <3> HIDE DEF T
    <3> QED BY <2>1, LeastNumber
  <2>3. d \in 1..Digits /\ \A e \in 1..(d - 1) : a[e] = b[e] /\ b[e] = a[e]
    BY <1>1, <2>2
  <2>4. a[d] \in Int /\ b[d] \in Int /\ a[d] # b[d]
    BY <2>2, DigitsAre, AddressAssumption
  <2>5. CASE a[d] < b[d]
    <3>1. Number(a, Digits) < Number(b, Digits)
      BY <2>3, <2>5, SmallerNumber
    <3>2. AtMost(a, b)
      BY <2>3, <2>5 DEF AtMost
    <3> QED BY <1>2, <3>1, <3>2
  <2>6. CASE b[d] < a[d]
    <3>1. Number(b, Digits) < Number(a, Digits)
      BY <2>3, <2>6, SmallerNumber
    <3>2. ASSUME AtMost(a, b) PROVE FALSE
      <4>1. PICK c \in 1..Digits : a[c] < b[c] /\ \A e \in 1..(c - 1) : a[e] = b[e]
        BY <1>4, <3>2 DEF AtMost
      <4>2. Number(a, Digits) < Number(b, Digits)
        BY <4>1, SmallerNumber
      <4> QED BY <1>2, <3>1, <4>2
    <3> QED BY <1>2, <3>1, <3>2
  <2> QED BY <2>4, <2>5, <2>6
<1> QED
  BY <1>3, <1>4

(* The greatest of some digits.                                               *)
LEMMA MaxDigit ==
  ASSUME NEW T, T \subseteq 1..Digits, T # {}
  PROVE  Max(T) \in T /\ \A d \in T : d <= Max(T)
<1> DEFINE S == {Digits - d : d \in T}
<1>1. Digits \in Nat
  BY AddressAssumption
<1>2. S \subseteq Nat /\ S # {}
  <2>1. \A d \in T : Digits - d \in Nat
    BY <1>1
  <2>2. PICK d \in T : TRUE
    OBVIOUS
  <2> QED BY <2>1, <2>2
<1>3. PICK x \in S : \A y \in S : x <= y
  <2> HIDE DEF S
  <2> QED BY <1>2, LeastNumber
<1>4. PICK m \in T : x = Digits - m
  BY <1>3
<1>5. \A d \in T : d <= m
  <2>1. \A d \in T : Digits - m <= Digits - d
    BY <1>3, <1>4
  <2> HIDE DEF S
  <2> QED BY <1>1, <2>1
<1>6. \E t \in T : \A d \in T : t >= d
  BY <1>5
<1>7. Max(T) \in T /\ \A d \in T : Max(T) >= d
  BY <1>6 DEF Max
<1> QED
  BY <1>7

(* A turn of the carry loop adds one, or goes from the last address to zero.  *)
LEMMA SuccessorIsNext ==
  ASSUME NEW a \in Address
  PROVE  /\ Successor[a] \in Address
         /\ Number(Successor[a], Digits) =
              IF Number(a, Digits) + 1 < Values[Digits] THEN Number(a, Digits) + 1 ELSE 0
<1> DEFINE free == {d \in 1..Digits : a[d] # Base - 1}
           carry == IF free = {} THEN 0 ELSE Max(free)
           b == Successor[a]
<1>1. /\ Digits \in Nat /\ Base \in Nat /\ Base > 1 /\ Digits \in 0..Digits
      /\ Values[Digits] \in Nat
  BY AddressAssumption, ValuesEquation
<1>2. \A d \in 1..Digits : a[d] \in 0..(Base - 1)
  BY DigitsAre
<1>3. /\ carry \in 0..Digits
      /\ \A d \in (carry + 1)..Digits : a[d] = Base - 1
      /\ carry > 0 => a[carry] \in 0..(Base - 2)
  <2>1. CASE free = {}
    BY <1>1, <2>1
  <2>2. CASE free # {}
    <3>1. free \subseteq 1..Digits
      OBVIOUS
    <3>2. carry \in free /\ \A d \in free : d <= carry
      <4> HIDE DEF free
      <4> QED BY <2>2, <3>1, MaxDigit
    <3> HIDE DEF carry
    <3>3. carry \in 1..Digits /\ a[carry] # Base - 1
      BY <3>2
    <3>4. \A d \in (carry + 1)..Digits : d \in 1..Digits /\ ~(d <= carry)
      BY <1>1, <3>3
    <3>5. \A d \in (carry + 1)..Digits : a[d] = Base - 1
      BY <3>2, <3>4
    <3> QED BY <1>1, <1>2, <3>3, <3>5
  <2> QED BY <2>1, <2>2
<1>4. b = [d \in 1..Digits |-> IF d < carry THEN a[d]
                               ELSE IF d = carry THEN a[d] + 1 ELSE 0]
  BY DEF Successor
<1> HIDE DEF free, carry, b
<1>5. \A d \in 1..Digits : b[d] = IF d < carry THEN a[d]
                                  ELSE IF d = carry THEN a[d] + 1 ELSE 0
  BY <1>4
<1>6. b \in Address
  <2>1. \A d \in 1..Digits : b[d] \in 0..(Base - 1)
    BY <1>1, <1>2, <1>3, <1>5
  <2> QED BY <1>4, <2>1 DEF Address
<1>7. PICK v : Reads(v, a, Digits)
  BY <1>1, NumberIsRead
<1>8. PICK w : Reads(w, b, Digits)
  BY <1>1, <1>6, NumberIsRead
<1>9. \A k \in 1..Digits : /\ v[k] = v[k - 1] * Base + a[k] /\ w[k] = w[k - 1] * Base + b[k]
                           /\ v[k - 1] \in Nat /\ w[k - 1] \in Nat /\ v[k] \in Nat /\ w[k] \in Nat
  <2> SUFFICES ASSUME NEW k \in 1..Digits
               PROVE  /\ v[k] = v[k - 1] * Base + a[k] /\ w[k] = w[k - 1] * Base + b[k]
                      /\ v[k - 1] \in Nat /\ w[k - 1] \in Nat /\ v[k] \in Nat /\ w[k] \in Nat
    OBVIOUS
  <2>1. Digits - Digits + k = k /\ k - 1 \in 0..Digits /\ k \in 0..Digits
    BY <1>1
  <2> QED BY <1>7, <1>8, <2>1 DEF Reads
<1>10. /\ v[0] = 0 /\ w[0] = 0 /\ v[Digits] = Number(a, Digits) /\ w[Digits] = Number(b, Digits)
       /\ v[Digits] \in Nat /\ w[Digits] \in Nat
  BY <1>1, <1>7, <1>8 DEF Reads
<1>11. CASE carry = 0
  <2> DEFINE G == {k \in 0..Digits : v[k] + 1 = Values[k] /\ w[k] = 0}
  <2>1. 0 \in G
    BY <1>1, <1>10, ValuesEquation
  <2>2. \A k \in 0..(Digits - 1) : k \in G => k + 1 \in G
    <3> SUFFICES ASSUME NEW k \in 0..(Digits - 1), k \in G PROVE k + 1 \in G
      OBVIOUS
    <3>1. k + 1 \in 1..Digits /\ (k + 1) - 1 = k /\ k + 1 \in 0..Digits /\ k \in 0..Digits
      BY <1>1
    <3>2. /\ v[k + 1] = v[k] * Base + a[k + 1] /\ w[k + 1] = w[k] * Base + b[k + 1]
          /\ v[k] \in Nat /\ v[k] + 1 = Values[k] /\ w[k] = 0
      BY <1>9, <3>1
    <3>3. a[k + 1] = Base - 1 /\ b[k + 1] = 0
      BY <1>3, <1>5, <1>11, <3>1
    <3>4. Values[k + 1] = Values[k] * Base
      BY <3>1, ValuesEquation
    <3>5. (v[k] + 1) * Base = v[k] * Base + Base /\ v[k] * Base \in Nat
      <4>1. v[k] \in Nat
        BY <3>2
      <4> QED BY <1>1, <4>1
    <3>6. v[k + 1] + 1 = Values[k + 1]
      BY <1>1, <3>2, <3>3, <3>4, <3>5
    <3>7. w[k + 1] = 0
      BY <1>1, <3>2, <3>3
    <3> QED BY <3>1, <3>6, <3>7
  <2> HIDE DEF G
  <2>3. \A k \in 0..Digits : k \in G
    BY <1>1, <2>1, <2>2, UpTo
  <2>4. v[Digits] + 1 = Values[Digits] /\ w[Digits] = 0
    BY <1>1, <2>3 DEF G
  <2>5. Number(b, Digits) = IF Number(a, Digits) + 1 < Values[Digits]
                            THEN Number(a, Digits) + 1 ELSE 0
    BY <1>1, <1>10, <2>4
  <2> QED BY <1>6, <2>5 DEF b
<1>12. CASE carry > 0
  <2>1. v[carry - 1] = w[carry - 1]
    <3> DEFINE G == {k \in 0..(carry - 1) : v[k] = w[k]}
    <3>1. 0 \in G
      BY <1>3, <1>10, <1>12
    <3>2. \A k \in 0..((carry - 1) - 1) : k \in G => k + 1 \in G
      <4> SUFFICES ASSUME NEW k \in 0..((carry - 1) - 1), k \in G PROVE k + 1 \in G
        OBVIOUS
      <4>1. k + 1 \in 1..Digits /\ (k + 1) - 1 = k /\ k + 1 < carry /\ k + 1 \in 0..(carry - 1)
        BY <1>1, <1>3
      <4>2. v[k + 1] = v[k] * Base + a[k + 1] /\ w[k + 1] = w[k] * Base + b[k + 1]
        BY <1>9, <4>1
      <4>3. a[k + 1] = b[k + 1]
        BY <1>5, <4>1
      <4> QED BY <4>1, <4>2, <4>3
    <3>3. 0 \in Nat /\ carry - 1 \in Nat /\ carry - 1 \in 0..(carry - 1)
      BY <1>3, <1>12
    <3> HIDE DEF G
    <3>4. \A k \in 0..(carry - 1) : k \in G
      BY <3>1, <3>2, <3>3, UpTo
    <3> QED BY <3>3, <3>4 DEF G
  <2> DEFINE G == {k \in carry..Digits : w[k] = v[k] + 1}
  <2>2. carry \in G
    <3>1. carry \in 1..Digits /\ carry \in carry..Digits
      BY <1>1, <1>3, <1>12
    <3>2. /\ v[carry] = v[carry - 1] * Base + a[carry] /\ w[carry] = v[carry - 1] * Base + b[carry]
          /\ v[carry - 1] \in Nat
      BY <1>9, <2>1, <3>1
    <3>3. b[carry] = a[carry] + 1
      BY <1>5, <3>1
    <3>4. v[carry - 1] * Base \in Nat /\ a[carry] \in Nat
      BY <1>1, <1>2, <3>1, <3>2
    <3>5. w[carry] = v[carry] + 1
      BY <3>2, <3>3, <3>4
    <3> QED BY <3>1, <3>5
  <2>3. \A k \in carry..(Digits - 1) : k \in G => k + 1 \in G
    <3> SUFFICES ASSUME NEW k \in carry..(Digits - 1), k \in G PROVE k + 1 \in G
      OBVIOUS
    <3>1. /\ k + 1 \in 1..Digits /\ (k + 1) - 1 = k /\ k + 1 \in carry..Digits
          /\ k + 1 \in (carry + 1)..Digits /\ ~(k + 1 < carry) /\ k + 1 # carry
      BY <1>1, <1>3
    <3>2. /\ v[k + 1] = v[k] * Base + a[k + 1] /\ w[k + 1] = w[k] * Base + b[k + 1]
          /\ v[k] \in Nat /\ w[k] = v[k] + 1
      BY <1>9, <3>1
    <3>3. a[k + 1] = Base - 1 /\ b[k + 1] = 0
      BY <1>3, <1>5, <3>1
    <3>4. (v[k] + 1) * Base = v[k] * Base + Base /\ v[k] * Base \in Nat
      BY <1>1, <3>2
    <3>5. w[k + 1] = v[k + 1] + 1
      BY <1>1, <3>2, <3>3, <3>4
    <3> QED BY <3>1, <3>5
  <2>4. carry \in Nat /\ Digits \in carry..Digits
    BY <1>1, <1>3
  <2> HIDE DEF G
  <2>5. \A k \in carry..Digits : k \in G
    BY <1>1, <2>2, <2>3, <2>4, UpTo
  <2>6. w[Digits] = v[Digits] + 1
    BY <2>4, <2>5 DEF G
  <2>7. w[Digits] < Values[Digits]
    BY <1>1, <1>6, <1>8, ReadBound
  <2>8. Number(b, Digits) = IF Number(a, Digits) + 1 < Values[Digits]
                            THEN Number(a, Digits) + 1 ELSE 0
    BY <1>1, <1>10, <2>6, <2>7
  <2> QED BY <1>6, <2>8 DEF b
<1> QED
  BY <1>3, <1>11, <1>12

-----------------------------------------------------------------------------
(* The table.                                                                 *)

(* Adding a step of less than all addresses.                                  *)
AfterStep(x, step) == IF x + step < Values[Digits] THEN x + step ELSE x + step - Values[Digits]

LEMMA NextIPAdds ==
  ASSUME NEW a \in Address, NEW step \in Nat, step < Values[Digits]
  PROVE  /\ NextIP(a, step) \in Address
         /\ Number(NextIP(a, step), Digits) = AfterStep(Number(a, Digits), step)
<1> DEFINE next == [j \in 1..step |-> Successor]
           Rhs(f, j) == IF j = 0 THEN a ELSE Successor[f[j - 1]]
           after == CHOOSE f : f = [j \in 0..step |-> Rhs(f, j)]
           x == Number(a, Digits)
<1>1. Digits \in Nat /\ Digits \in 0..Digits /\ Values[Digits] \in Nat /\ step \in 0..step
  BY AddressAssumption, ValuesEquation
<1>2. Successor \in [Address -> Address]
  <2>1. \A b \in Address : Successor[b] \in Address
    BY SuccessorIsNext
  <2>2. Successor = [b \in Address |-> Successor[b]]
    BY DEF Successor
  <2> QED BY <2>1, <2>2
<1>3. next \in [1..step -> [Address -> Address]]
  BY <1>2
<1>4. PICK g : Recursion(g, Address, a, step, next)
  <2> HIDE DEF next
  <2> QED BY <1>3, RecursionExists
<1>5. \A j \in 0..step : g[j] = Rhs(g, j)
  BY <1>4 DEF Recursion
<1>6. g = [j \in 0..step |-> Rhs(g, j)]
  <2> HIDE DEF Rhs
  <2> QED BY <1>4, <1>5 DEF Recursion
<1>7. after = [j \in 0..step |-> Rhs(after, j)]
  <2> HIDE DEF Rhs
  <2> QED BY <1>6
<1>8. NextIP(a, step) = after[step]
  BY DEF NextIP
<1> HIDE DEF after
<1>9. \A j \in 0..step : after[j] = Rhs(after, j)
  <2> HIDE DEF Rhs
  <2> QED BY <1>7
<1>10. x \in 0..(Values[Digits] - 1)
  BY <1>1, NumberBound
<1> HIDE DEF x
<1> DEFINE G == {j \in 0..step : after[j] \in Address /\ Number(after[j], Digits) = AfterStep(x, j)}
<1>11. 0 \in G
  <2>1. after[0] = a
    BY <1>9
  <2>2. AfterStep(x, 0) = x
    BY <1>1, <1>10 DEF AfterStep
  <2> QED BY <2>1, <2>2 DEF x
<1>12. \A j \in 0..(step - 1) : j \in G => j + 1 \in G
  <2> SUFFICES ASSUME NEW j \in 0..(step - 1), j \in G PROVE j + 1 \in G
    OBVIOUS
  <2>1. j + 1 \in 0..step /\ (j + 1) - 1 = j /\ j + 1 # 0 /\ j + 1 < Values[Digits]
    BY <1>1
  <2>2. after[j + 1] = Successor[after[j]]
    BY <1>9, <2>1
  <2>3. after[j] \in Address /\ Number(after[j], Digits) = AfterStep(x, j)
    OBVIOUS
  <2>4. after[j + 1] \in Address
    BY <2>2, <2>3, SuccessorIsNext
  <2>5. Number(after[j + 1], Digits) =
          IF AfterStep(x, j) + 1 < Values[Digits] THEN AfterStep(x, j) + 1 ELSE 0
    BY <2>2, <2>3, SuccessorIsNext
  <2>6. (IF AfterStep(x, j) + 1 < Values[Digits] THEN AfterStep(x, j) + 1 ELSE 0) = AfterStep(x, j + 1)
    BY <1>1, <1>10, <2>1 DEF AfterStep
  <2>7. Number(after[j + 1], Digits) = AfterStep(x, j + 1)
    BY <2>5, <2>6
  <2> QED BY <2>1, <2>4, <2>7
<1> HIDE DEF G
<1>13. \A j \in 0..step : j \in G
  BY <1>11, <1>12, UpTo
<1>14. after[step] \in Address /\ Number(after[step], Digits) = AfterStep(x, step)
  BY <1>1, <1>13 DEF G
<1> QED
  BY <1>8, <1>14 DEF x

LEMMA Multiples ==
  ASSUME NEW step \in Nat \ {0}
  PROVE  /\ \A k \in Nat : k * step \in Nat /\ (k + 1) * step = k * step + step
                           /\ k <= k * step /\ 0 * step = 0
         /\ \A j, k \in Nat : j <= k => j * step <= k * step
<1>1. \A k \in Nat : k * step \in Nat /\ (k + 1) * step = k * step + step /\ 0 * step = 0
  OBVIOUS
<1>2. PICK s \in Nat : step = s + 1
  <2>1. step - 1 \in Nat /\ step = (step - 1) + 1
    OBVIOUS
  <2> QED BY <2>1
<1>3. ASSUME NEW k \in Nat PROVE k <= k * step
  <2>1. k * s \in Nat /\ k * step = k * s + k
    BY <1>2
  <2> QED BY <2>1
<1>4. ASSUME NEW j \in Nat, NEW k \in Nat, j <= k PROVE j * step <= k * step
  <2>1. PICK z \in Nat : k = j + z
    <3>1. k - j \in Nat /\ k = j + (k - j)
      BY <1>4
    <3> QED BY <3>1
  <2>2. k * step = j * step + z * step /\ j * step \in Nat /\ z * step \in Nat
    BY <2>1
  <2> QED BY <2>2
<1> QED
  BY <1>1, <1>3, <1>4

(* What the loop over the addresses makes.                                    *)
IsRange(T, from, to, step, most) ==
  /\ Len(T) \in 0..most /\ DOMAIN T = 1..Len(T)
  /\ \A i \in 1..Len(T) :
       /\ T[i] \in Address
       /\ Number(T[i], Digits) = Number(from, Digits) + (i - 1) * step
       /\ Number(T[i], Digits) <= Number(to, Digits)
  /\ IF IsV4(from) <=> IsV4(to)
     THEN Number(from, Digits) + Len(T) * step > Number(to, Digits)
     ELSE Len(T) = 0

\* StartClientGen's loop ends, and the clients it makes have every step-th address
\* of the range, from the first on and without one beyond the last.
THEOREM TableIsProgression ==
  ASSUME NEW from \in Address, NEW to \in Address, NEW step \in Nat \ {0}, NEW most \in Nat,
         Number(to, Digits) - Number(from, Digits) < most * step,
         (most + 1) * step < Values[Digits]
  PROVE  IsRange(ClientTable(from, to, step), from, to, step, most)
<1> DEFINE V == Values[Digits]
           first == Number(from, Digits)
           last == Number(to, Digits)
           next == [k \in 1..V |-> [a \in Address |-> NextIP(a, step)]]
           Rhs(f, k) == IF k = 0 THEN from ELSE NextIP(f[k - 1], step)
           ip == CHOOSE f : f = [k \in 0..V |-> Rhs(f, k)]
           Q(n) == /\ ~IpBetween(from, to, ip[n])
                   /\ \A k \in 0..(n - 1) : IpBetween(from, to, ip[k])
           length == CHOOSE n \in 0..V : Q(n)
           Past == {n \in Nat : first + n * step > last \/ ~(IsV4(from) <=> IsV4(to))}
<1>1. /\ Digits \in Nat /\ Digits \in 0..Digits /\ V \in Nat
      /\ first \in 0..(V - 1) /\ last \in 0..(V - 1)
  BY AddressAssumption, ValuesEquation, NumberBound
<1>2. /\ \A k \in Nat : k * step \in Nat /\ (k + 1) * step = k * step + step
                        /\ k <= k * step /\ 0 * step = 0
      /\ \A j, k \in Nat : j <= k => j * step <= k * step
  BY Multiples
<1>3. most * step < V /\ step < V /\ most \in 0..V
  BY <1>1, <1>2
<1>4. ip = [k \in 0..V |-> Rhs(ip, k)]
  <2>1. next \in [1..V -> [Address -> Address]]
    <3>1. \A a \in Address : NextIP(a, step) \in Address
      BY <1>3, NextIPAdds
    <3> QED BY <3>1
  <2>2. PICK g : Recursion(g, Address, from, V, next)
    <3> HIDE DEF next, V
    <3> QED BY <1>1, <2>1, RecursionExists
  <2>3. ASSUME NEW k \in 1..V PROVE g[k] = NextIP(g[k - 1], step)
    <3>1. g[k - 1] \in Address
      BY <1>1, <2>2 DEF Recursion
    <3>2. g[k] = next[k][g[k - 1]]
      <4> HIDE DEF next
      <4> QED BY <2>2 DEF Recursion
    <3> QED BY <3>1, <3>2
  <2>4. \A k \in 0..V : g[k] = Rhs(g, k)
    BY <1>1, <2>2, <2>3 DEF Recursion
  <2>5. g = [k \in 0..V |-> Rhs(g, k)]
    <3> HIDE DEF Rhs, V, next
    <3> QED BY <2>2, <2>4 DEF Recursion
  <2> HIDE DEF Rhs, V
  <2> QED BY <2>5
<1>5. ClientTable(from, to, step) = [i \in 1..length |-> ip[i - 1]]
  BY DEF ClientTable
<1> HIDE DEF ip
<1>6. \A k \in 0..V : ip[k] = Rhs(ip, k)
  <2> HIDE DEF Rhs, V
  <2> QED BY <1>4
<1>7. PICK end \in Past : \A n \in Past : end <= n
  <2>1. most \in Past
    BY <1>1, <1>2
  <2>2. Past \subseteq Nat /\ Past # {}
    BY <2>1
  <2> HIDE DEF Past
  <2> QED BY <2>2, LeastNumber
<1>8. /\ end \in Nat /\ end <= most /\ end * step < V
      /\ first + end * step > last \/ ~(IsV4(from) <=> IsV4(to))
  <2>1. most \in Past
    BY <1>1, <1>2
  <2>2. end \in Nat /\ end <= most
    BY <1>7, <2>1
  <2>3. end * step <= most * step /\ end * step \in Nat /\ most * step \in Nat
    BY <1>2, <2>2
  <2> QED BY <1>1, <1>3, <1>7, <2>2, <2>3
<1>9. \A k \in 0..(end - 1) : first + k * step <= last /\ (IsV4(from) <=> IsV4(to))
  <2> SUFFICES ASSUME NEW k \in 0..(end - 1)
               PROVE  first + k * step <= last /\ (IsV4(from) <=> IsV4(to))
    OBVIOUS
  <2>1. k \in Nat /\ ~(end <= k)
    BY <1>8
  <2>2. k \notin Past
    BY <1>7, <2>1
  <2>3. k * step \in Nat
    BY <1>2, <2>1
  <2> QED BY <1>1, <2>1, <2>2, <2>3
<1> HIDE DEF Past, V, first, last
<1>10. \A k \in 0..end : ip[k] \in Address /\ Number(ip[k], Digits) = AfterStep(first, k * step)
  <2> DEFINE G == {k \in 0..end : ip[k] \in Address
                                  /\ Number(ip[k], Digits) = AfterStep(first, k * step)}
  <2>1. 0 \in G
    <3>1. ip[0] = from
      BY <1>1, <1>6
    <3>2. AfterStep(first, 0 * step) = first
      BY <1>1, <1>2 DEF AfterStep, V
    <3> QED BY <1>8, <3>1, <3>2 DEF first
  <2>2. \A k \in 0..(end - 1) : k \in G => k + 1 \in G
    <3> SUFFICES ASSUME NEW k \in 0..(end - 1), k \in G PROVE k + 1 \in G
      OBVIOUS
    <3>1. k \in Nat /\ k + 1 \in 0..end /\ k + 1 \in 0..V /\ k + 1 # 0 /\ (k + 1) - 1 = k
      BY <1>1, <1>3, <1>8
    <3>2. ip[k + 1] = NextIP(ip[k], step)
      BY <1>6, <3>1
    <3>3. ip[k] \in Address /\ Number(ip[k], Digits) = AfterStep(first, k * step)
      OBVIOUS
    <3>4. /\ k * step \in Nat /\ (k + 1) * step = k * step + step
          /\ first + k * step <= last
      BY <1>2, <1>9, <3>1
    <3>5. AfterStep(first, k * step) = first + k * step
      BY <1>1, <3>4 DEF AfterStep, V
    <3>6. ip[k + 1] \in Address /\ Number(ip[k + 1], Digits) = AfterStep(first + k * step, step)
      <4>1. step < Values[Digits] /\ step \in Nat
        BY <1>3 DEF V
      <4> QED BY <3>2, <3>3, <3>5, <4>1, NextIPAdds
    <3>7. AfterStep(first + k * step, step) = AfterStep(first, (k + 1) * step)
      BY <1>1, <3>4 DEF AfterStep, V
    <3>8. Number(ip[k + 1], Digits) = AfterStep(first, (k + 1) * step)
      BY <3>6, <3>7
    <3> QED BY <3>1, <3>6, <3>8
  <2> HIDE DEF G
  <2>3. \A k \in 0..end : k \in G
    BY <1>8, <2>1, <2>2, UpTo
  <2> QED BY <2>3 DEF G
<1>11. \A k \in 0..(end - 1) : /\ Number(ip[k], Digits) = first + k * step
                               /\ Number(ip[k], Digits) <= last
                               /\ IpBetween(from, to, ip[k])
  <2> SUFFICES ASSUME NEW k \in 0..(end - 1)
               PROVE  /\ Number(ip[k], Digits) = first + k * step
                      /\ Number(ip[k], Digits) <= last
                      /\ IpBetween(from, to, ip[k])
    OBVIOUS
  <2>1. /\ k \in 0..end /\ k * step \in Nat /\ first + k * step <= last
        /\ IsV4(from) <=> IsV4(to)
    BY <1>2, <1>8, <1>9
  <2>2. AfterStep(first, k * step) = first + k * step
    BY <1>1, <2>1 DEF AfterStep, V
  <2>3. ip[k] \in Address /\ Number(ip[k], Digits) = first + k * step
    BY <1>10, <2>1, <2>2
  <2>4. AtMost(from, ip[k]) <=> first <= Number(ip[k], Digits)
    BY <2>3, AtMostIsNumber DEF first
  <2>5. AtMost(ip[k], to) <=> Number(ip[k], Digits) <= last
    BY <2>3, AtMostIsNumber DEF last
  <2> QED BY <1>1, <2>1, <2>3, <2>4, <2>5 DEF IpBetween
<1>12. ~IpBetween(from, to, ip[end])
  <2> SUFFICES ASSUME IpBetween(from, to, ip[end]) PROVE FALSE
    OBVIOUS
  <2>1. end \in 0..end /\ end * step \in Nat
    BY <1>2, <1>8
  <2>2. ip[end] \in Address /\ Number(ip[end], Digits) = AfterStep(first, end * step)
    BY <1>10, <2>1
  <2>3. AtMost(from, ip[end]) /\ AtMost(ip[end], to) /\ (IsV4(from) <=> IsV4(to))
    BY DEF IpBetween
  <2>4. first <= AfterStep(first, end * step)
    BY <2>2, <2>3, AtMostIsNumber DEF first
  <2>5. AfterStep(first, end * step) <= last
    BY <2>2, <2>3, AtMostIsNumber DEF last
  <2> QED BY <1>1, <1>8, <2>1, <2>3, <2>4, <2>5 DEF AfterStep, V
<1>13. length = end
  <2>1. end \in 0..V /\ Q(end)
    BY <1>1, <1>3, <1>8, <1>11, <1>12
  <2>2. length \in 0..V /\ Q(length)
    <3> HIDE DEF Q
    <3> QED BY <2>1
  <2> HIDE DEF length
  <2>3. ASSUME length < end PROVE FALSE
    <3>1. length \in 0..(end - 1)
      BY <1>1, <1>8, <2>2, <2>3
    <3> QED BY <1>11, <2>2, <3>1
  <2>4. ASSUME end < length PROVE FALSE
    <3>1. end \in 0..(length - 1)
      BY <1>1, <1>8, <2>2, <2>4
    <3> QED BY <1>12, <2>2, <3>1
  <2> QED BY <1>1, <1>8, <2>2, <2>3, <2>4
<1> HIDE DEF length, Q
<1> DEFINE T == ClientTable(from, to, step)
<1>14. T = [i \in 1..end |-> ip[i - 1]]
  BY <1>5, <1>13
<1>15. DOMAIN T = 1..end /\ Len(T) = end
  <2> HIDE DEF T
  <2> QED BY <1>8, <1>14
<1>16. ASSUME NEW i \in 1..end
       PROVE  /\ T[i] \in Address /\ Number(T[i], Digits) = first + (i - 1) * step
              /\ Number(T[i], Digits) <= last
  <2>1. i - 1 \in 0..(end - 1) /\ i - 1 \in 0..end
    BY <1>8
  <2>2. T[i] = ip[i - 1]
    <3> HIDE DEF T
    <3> QED BY <1>14
  <2> HIDE DEF T
  <2> QED BY <1>10, <1>11, <2>1, <2>2
<1>17. IF IsV4(from) <=> IsV4(to) THEN first + end * step > last ELSE end = 0
  BY <1>8, <1>9
<1> HIDE DEF T
<1>18. Len(T) \in 0..most
  BY <1>8, <1>15
<1>19. IsRange(T, from, to, step, most)
  BY <1>15, <1>16, <1>17, <1>18 DEF IsRange, first, last
<1> QED
  BY <1>19 DEF T

-----------------------------------------------------------------------------
(* The lookup.                                                                *)

IsQuotient(d, r, x, y) == d \in Nat /\ d <= x /\ r \in 0..(y - 1) /\ x = d * y + r

LEMMA Division ==
  ASSUME NEW x \in Nat, NEW y \in Nat \ {0}
  PROVE  IsQuotient(x \div y, x % y, x, y)
<1>1. PICK d : d = x \div y
  OBVIOUS
<1>2. PICK r : r = x % y
  OBVIOUS
<1>3. d \in Int /\ r \in Int
  BY <1>1, <1>2
<1>4. d \in Nat /\ r \in 0..(y - 1) /\ x = d * y + r
  BY <1>1, <1>2, <1>3
<1>5. d <= x
  BY <1>1, <1>2, <1>3
<1>6. IsQuotient(d, r, x, y)
  BY <1>4, <1>5 DEF IsQuotient
<1> QED
  BY <1>1, <1>2, <1>6, Zenon

LEMMA QuotientOfMultiple ==
  ASSUME NEW q \in Nat, NEW y \in Nat \ {0}
  PROVE  (q * y) % y = 0 /\ (q * y) \div y = q
<1> DEFINE x == q * y
           d == x \div y
           r == x % y
<1>1. x \in Nat /\ q * y = x
  OBVIOUS
<1>2. x = d * y + r /\ r \in 0..(y - 1) /\ d \in Nat
  <2> HIDE DEF x
  <2>1. IsQuotient(d, r, x, y)
    BY <1>1, Division, Zenon
  <2> HIDE DEF d, r
  <2> QED BY <2>1 DEF IsQuotient
<1> HIDE DEF x, d, r
<1>3. ASSUME q < d PROVE FALSE
  <2>1. PICK z \in Nat : d = q + 1 + z
    <3>1. d - q - 1 \in Nat /\ d = q + 1 + (d - q - 1)
      BY <1>2, <1>3
    <3> QED BY <3>1
  <2>2. d * y = q * y + y + z * y /\ z * y \in Nat
    BY <2>1
  <2> QED BY <1>1, <1>2, <2>2
<1>4. ASSUME d < q PROVE FALSE
  <2>1. PICK z \in Nat : q = d + 1 + z
    <3>1. q - d - 1 \in Nat /\ q = d + 1 + (q - d - 1)
      BY <1>2, <1>4
    <3> QED BY <3>1
  <2>2. q * y = d * y + y + z * y /\ z * y \in Nat /\ d * y \in Nat
    BY <1>2, <2>1
  <2> QED BY <1>1, <1>2, <2>2
<1>5. d = q
  BY <1>2, <1>3, <1>4
<1>6. r = 0
  BY <1>1, <1>2, <1>5
<1> QED
  BY <1>5, <1>6 DEF x, d, r

(* More digits have more values.                                              *)
LEMMA ValuesGrow ==
  ASSUME NEW m \in 0..Digits, NEW n \in m..Digits
  PROVE  Values[m] <= Values[n]
<1> DEFINE G == {k \in m..n : Values[m] <= Values[k]}
<1>1. Digits \in Nat /\ m \in Nat /\ n \in Nat /\ Base \in Nat /\ Base >= 1
  BY AddressAssumption
<1>2. \A k \in 0..Digits : Values[k] \in Nat
  BY ValuesEquation
<1>3. m \in G
  BY <1>1, <1>2
<1>4. \A k \in m..(n - 1) : k \in G => k + 1 \in G
  <2> SUFFICES ASSUME NEW k \in m..(n - 1), k \in G PROVE k + 1 \in G
    OBVIOUS
  <2>1. k + 1 \in 1..Digits /\ (k + 1) - 1 = k /\ k + 1 \in m..n /\ k \in 0..Digits
    BY <1>1
  <2>2. Values[k + 1] = Values[k] * Base /\ Values[k] \in Nat /\ Values[m] \in Nat
    BY <1>2, <2>1, ValuesEquation
  <2>3. PICK z \in Nat : Base = z + 1
    <3>1. Base - 1 \in Nat /\ Base = (Base - 1) + 1
      BY <1>1
    <3> QED BY <3>1
  <2>4. Values[k] * Base = Values[k] * z + Values[k] /\ Values[k] * z \in Nat
    <3>1. Values[k] \in Nat
      BY <2>2
    <3> QED BY <2>3, <3>1
  <2>5. Values[m] <= Values[k + 1]
    BY <2>2, <2>4
  <2> QED BY <2>1, <2>5
<1> HIDE DEF G
<1>5. \A k \in m..n : k \in G
  BY <1>1, <1>3, <1>4, UpTo
<1>6. n \in m..n
  BY <1>1
<1> QED
  BY <1>5, <1>6 DEF G

LEMMA DigitCounts ==
  /\ {Digits, V4Digits, HalfDigits} \subseteq 1..Digits /\ V4Digits <= HalfDigits
  /\ V4Digits < Digits
  /\ Values[Digits] \in Nat /\ TwoTo64 \in Nat \ {0} /\ Values[V4Digits] <= TwoTo64
<1>1. /\ {Digits, V4Digits, HalfDigits} \subseteq 1..Digits /\ V4Digits <= HalfDigits
      /\ V4Digits < Digits
  BY AddressAssumption
<1>2. /\ V4Digits \in 0..Digits /\ HalfDigits \in V4Digits..Digits /\ HalfDigits \in 0..Digits
      /\ Digits \in 0..Digits /\ HalfDigits \in 0..Digits /\ 0 \in 0..Digits
      /\ HalfDigits \in 0..Digits
  BY AddressAssumption
<1>3. Values[V4Digits] <= Values[HalfDigits]
  BY <1>2, ValuesGrow
<1>4. Values[0] <= Values[HalfDigits]
  <2>1. HalfDigits \in 0..Digits /\ 0 \in 0..Digits
    BY <1>2
  <2> QED BY <2>1, ValuesGrow
<1>5. Values[Digits] \in Nat /\ Values[HalfDigits] \in Nat /\ Values[0] = 1
  BY <1>2, ValuesEquation
<1> QED
  BY <1>1, <1>3, <1>4, <1>5 DEF TwoTo64

(* Two IPv4 addresses are as far apart by their own digits as by all.         *)
LEMMA V4Distance ==
  ASSUME NEW a \in Address, NEW b \in Address, IsV4(a), IsV4(b)
  PROVE  Number(a, Digits) - Number(b, Digits) = Number(a, V4Digits) - Number(b, V4Digits)
<1> DEFINE s == Digits - V4Digits
<1>1. /\ Digits \in Nat /\ V4Digits \in Nat /\ Base \in Nat /\ s \in Nat
      /\ Digits \in 0..Digits /\ V4Digits \in 0..Digits /\ s + V4Digits = Digits
      /\ s \in 0..s /\ s <= Digits /\ Digits - V4Digits = s
  BY AddressAssumption
<1>2. PICK v : Reads(v, a, Digits)
  BY <1>1, NumberIsRead
<1>3. PICK w : Reads(w, b, Digits)
  BY <1>1, NumberIsRead
<1>4. PICK v4 : Reads(v4, a, V4Digits)
  BY <1>1, NumberIsRead
<1>5. PICK w4 : Reads(w4, b, V4Digits)
  BY <1>1, NumberIsRead
<1>6. \A d \in 1..s : a[d] = b[d]
  BY DEF IsV4
<1> HIDE DEF s
<1>7. \A k \in 1..Digits : v[k] = v[k - 1] * Base + a[k] /\ w[k] = w[k - 1] * Base + b[k]
  <2>1. \A k \in 1..Digits : Digits - Digits + k = k
    BY <1>1
  <2> QED BY <1>2, <1>3, <2>1 DEF Reads
<1>8. \A k \in 1..V4Digits : /\ v4[k] = v4[k - 1] * Base + a[s + k]
                             /\ w4[k] = w4[k - 1] * Base + b[s + k]
  <2>1. \A k \in 1..V4Digits : Digits - V4Digits + k = s + k
    BY <1>1
  <2> QED BY <1>4, <1>5, <2>1 DEF Reads
<1>9. /\ \A k \in 0..Digits : v[k] \in Nat /\ w[k] \in Nat
      /\ \A k \in 0..V4Digits : v4[k] \in Nat /\ w4[k] \in Nat
  BY <1>2, <1>3, <1>4, <1>5 DEF Reads
<1>10. v[0] = 0 /\ w[0] = 0 /\ v4[0] = 0 /\ w4[0] = 0
  BY <1>2, <1>3, <1>4, <1>5 DEF Reads
<1>11. v[s] = w[s]
  <2> DEFINE G == {k \in 0..s : v[k] = w[k]}
  <2>1. 0 \in G
    BY <1>1, <1>10
  <2>2. \A k \in 0..(s - 1) : k \in G => k + 1 \in G
    <3> SUFFICES ASSUME NEW k \in 0..(s - 1), k \in G PROVE k + 1 \in G
      OBVIOUS
    <3>1. k + 1 \in 1..Digits /\ (k + 1) - 1 = k /\ k + 1 \in 1..s /\ k + 1 \in 0..s
      BY <1>1
    <3>2. v[k + 1] = v[k] * Base + a[k + 1] /\ w[k + 1] = w[k] * Base + b[k + 1]
      BY <1>7, <3>1
    <3> QED BY <1>6, <3>1, <3>2
  <2> HIDE DEF G
  <2>3. \A k \in 0..s : k \in G
    BY <1>1, <2>1, <2>2, UpTo
  <2> QED BY <1>1, <2>3 DEF G
<1>12. v[Digits] - w[Digits] = v4[V4Digits] - w4[V4Digits]
  <2> DEFINE G == {k \in 0..V4Digits : v[s + k] - v4[k] = w[s + k] - w4[k]}
  <2>1. 0 \in G
    <3>1. s + 0 = s /\ s \in 0..Digits /\ 0 \in 0..V4Digits
      BY <1>1
    <3> QED BY <1>9, <1>10, <1>11, <3>1
  <2>2. \A k \in 0..(V4Digits - 1) : k \in G => k + 1 \in G
    <3> SUFFICES ASSUME NEW k \in 0..(V4Digits - 1), k \in G PROVE k + 1 \in G
      OBVIOUS
    <3>1. /\ k + 1 \in 1..V4Digits /\ (k + 1) - 1 = k /\ k + 1 \in 0..V4Digits
          /\ s + (k + 1) \in 1..Digits /\ (s + (k + 1)) - 1 = s + k
          /\ s + k \in 0..Digits /\ k \in 0..V4Digits
      BY <1>1
    <3>2. /\ v[s + (k + 1)] = v[s + k] * Base + a[s + (k + 1)]
          /\ w[s + (k + 1)] = w[s + k] * Base + b[s + (k + 1)]
      BY <1>7, <3>1
    <3>3. /\ v4[k + 1] = v4[k] * Base + a[s + (k + 1)]
          /\ w4[k + 1] = w4[k] * Base + b[s + (k + 1)]
      BY <1>8, <3>1
    <3>4. /\ v[s + k] \in Nat /\ v4[k] \in Nat /\ w[s + k] \in Nat /\ w4[k] \in Nat
          /\ a[s + (k + 1)] \in Int /\ b[s + (k + 1)] \in Int
      BY <1>9, <3>1, DigitsAre
    <3>5. v[s + k] + w4[k] = w[s + k] + v4[k]
      BY <3>4
    <3>6. v[s + k] * Base + w4[k] * Base = w[s + k] * Base + v4[k] * Base
      <4>1. (v[s + k] + w4[k]) * Base = (w[s + k] + v4[k]) * Base
        BY <3>5
      <4>2. \A x, y \in Nat : (x + y) * Base = x * Base + y * Base
        BY <1>1
      <4>3. (v[s + k] + w4[k]) * Base = v[s + k] * Base + w4[k] * Base
        BY <3>4, <4>2
      <4>4. (w[s + k] + v4[k]) * Base = w[s + k] * Base + v4[k] * Base
        BY <3>4, <4>2
      <4> QED BY <4>1, <4>3, <4>4
    <3>7. /\ v[s + k] * Base \in Nat /\ v4[k] * Base \in Nat
          /\ w[s + k] * Base \in Nat /\ w4[k] * Base \in Nat
      BY <1>1, <3>4
    <3>8. v[s + (k + 1)] - v4[k + 1] = w[s + (k + 1)] - w4[k + 1]
      BY <3>2, <3>3, <3>4, <3>6, <3>7
    <3> QED BY <3>1, <3>8
  <2> HIDE DEF G
  <2>3. \A k \in 0..V4Digits : k \in G
    BY <1>1, <2>1, <2>2, UpTo
  <2>4. V4Digits \in 0..V4Digits /\ Digits \in 0..Digits
    BY <1>1
  <2>5. v[Digits] - v4[V4Digits] = w[Digits] - w4[V4Digits]
    BY <1>1, <2>3, <2>4 DEF G
  <2> QED BY <1>9, <2>4, <2>5
<1> QED
  BY <1>2, <1>3, <1>4, <1>5, <1>12 DEF Reads

(* What lies between two IPv4 addresses is one.                               *)
LEMMA V4Between ==
  ASSUME NEW from \in Address, NEW a \in Address, NEW to \in Address, IsV4(from), IsV4(to),
         Number(from, Digits) <= Number(a, Digits), Number(a, Digits) <= Number(to, Digits)
  PROVE  IsV4(a)
<1> DEFINE T == {d \in 1..(Digits - V4Digits) : a[d] # from[d]}
<1>1. Digits \in Nat /\ Digits - V4Digits \in Nat /\ Digits - V4Digits <= Digits
      /\ Digits \in 0..Digits
  BY AddressAssumption
<1>2. \A d \in 1..(Digits - V4Digits) : from[d] = to[d]
  BY DEF IsV4
<1>3. /\ Number(from, Digits) \in Int /\ Number(a, Digits) \in Int /\ Number(to, Digits) \in Int
  BY <1>1, NumberBound, ValuesEquation
<1>4. ASSUME T # {} PROVE FALSE
  <2>1. PICK d \in T : \A e \in T : d <= e
    <3>1. T \subseteq Nat
      OBVIOUS
    <3> HIDE DEF T
    <3> QED BY <1>4, <3>1, LeastNumber
  <2>2. /\ d \in 1..Digits /\ d \in 1..(Digits - V4Digits)
        /\ \A e \in 1..(d - 1) : e \in 1..(Digits - V4Digits) /\ ~(d <= e)
    BY <1>1, <2>1
  <2>3. \A e \in 1..(d - 1) : a[e] = from[e] /\ from[e] = a[e] /\ to[e] = a[e]
    BY <1>2, <2>1, <2>2
  <2>4. a[d] \in Int /\ from[d] \in Int /\ to[d] = from[d] /\ a[d] # from[d]
    BY <1>2, <2>1, <2>2, DigitsAre
  <2>5. CASE a[d] < from[d]
    <3>1. Number(a, Digits) < Number(from, Digits)
      BY <2>2, <2>3, <2>5, SmallerNumber
    <3> QED BY <1>3, <3>1
  <2>6. CASE to[d] < a[d]
    <3>1. Number(to, Digits) < Number(a, Digits)
      BY <2>2, <2>3, <2>6, SmallerNumber
    <3> QED BY <1>3, <3>1
  <2> QED BY <2>4, <2>5, <2>6
<1>5. \A d \in 1..(Digits - V4Digits) : a[d] = from[d]
  BY <1>4
<1> QED
  BY <1>5 DEF IsV4

(* ipSubtract is the distance, if that fits a uint64.                         *)
LEMMA SubtractIsDistance ==
  ASSUME NEW a \in Address, NEW b \in Address,
         Number(b, Digits) <= Number(a, Digits),
         Number(a, Digits) - Number(b, Digits) < TwoTo64 \/ (IsV4(a) /\ IsV4(b))
  PROVE  /\ IpSubtract(a, b).diff = Number(a, Digits) - Number(b, Digits)
         /\ Number(a, Digits) - Number(b, Digits) \in 0..(TwoTo64 - 1)
<1> DEFINE n == IF IsV4(a) /\ IsV4(b) THEN V4Digits ELSE Digits
           x == Number(a, n)
           y == Number(b, n)
           far == Number(a, Digits) - Number(b, Digits)
<1>1. /\ n \in 0..Digits /\ V4Digits \in 0..Digits /\ Digits \in 0..Digits
      /\ TwoTo64 \in Nat \ {0} /\ Values[n] \in Nat /\ Values[V4Digits] <= TwoTo64
  <2>1. n \in 0..Digits /\ V4Digits \in 0..Digits /\ Digits \in 0..Digits
    BY DigitCounts, AddressAssumption
  <2> HIDE DEF n
  <2> QED BY <2>1, DigitCounts, ValuesEquation
<1>2. x \in 0..(Values[n] - 1) /\ y \in 0..(Values[n] - 1)
  <2> HIDE DEF n
  <2> QED BY <1>1, NumberBound
<1>3. far \in Nat
  <2>1. Number(a, Digits) \in Int /\ Number(b, Digits) \in Int
    BY <1>1, NumberBound, ValuesEquation
  <2> QED BY <2>1
<1>4. x - y = far /\ far < TwoTo64
  <2>1. CASE IsV4(a) /\ IsV4(b)
    <3>1. n = V4Digits
      BY <2>1
    <3>2. x - y = far
      BY <2>1, <3>1, V4Distance
    <3> HIDE DEF x, y, far, n
    <3>3. x \in 0..(Values[V4Digits] - 1) /\ y \in 0..(Values[V4Digits] - 1)
          /\ Values[V4Digits] \in Nat
      BY <1>1, <1>2, <3>1
    <3> QED BY <1>1, <1>3, <3>2, <3>3
  <2>2. CASE ~(IsV4(a) /\ IsV4(b))
    BY <2>2
  <2> QED BY <2>1, <2>2
<1>5. IpSubtract(a, b).diff = IF x < y THEN 0 ELSE (x - y) % TwoTo64
  BY DEF IpSubtract
<1> HIDE DEF x, y, far, n
<1>6. ~(x < y) /\ (x - y) % TwoTo64 = far
  <2>1. x \in Int /\ y \in Int
    BY <1>1, <1>2
  <2>2. ~(x < y)
    BY <1>3, <1>4, <2>1
  <2>3. far % TwoTo64 = far
    BY <1>1, <1>3, <1>4
  <2> QED BY <1>4, <2>2, <2>3
<1>7. IpSubtract(a, b).diff = far /\ far \in 0..(TwoTo64 - 1)
  BY <1>1, <1>3, <1>4, <1>5, <1>6
<1> QED
  BY <1>7 DEF far

(* A range of IPv4 addresses, or of IPv6 addresses that are nobody's IPv4     *)
(* addresses and not farther apart than a uint64 can say.                     *)
Plain(from, to) ==
  \/ IsV4(from)
  \/ /\ Number(to, Digits) - Number(from, Digits) < TwoTo64
     /\ \A a \in Address : IpBetween(from, to, a) => ~IsV4(a)

LEMMA TableStartsAtFrom ==
  ASSUME NEW from \in Address, NEW to \in Address, NEW step \in Nat \ {0}, NEW most \in Nat,
         NEW T, IsRange(T, from, to, step, most), Len(T) > 0
  PROVE  T[1] = from /\ (IsV4(from) <=> IsV4(to))
<1>1. Len(T) \in Nat /\ 1 \in 1..Len(T)
  BY DEF IsRange
<1>2. T[1] \in Address /\ Number(T[1], Digits) = Number(from, Digits) + (1 - 1) * step
  BY <1>1 DEF IsRange
<1>3. (1 - 1) * step = 0 /\ Number(from, Digits) \in Int
  <2>1. Digits \in 0..Digits
    BY AddressAssumption
  <2> QED BY <2>1, NumberBound, ValuesEquation
<1>4. Number(T[1], Digits) = Number(from, Digits)
  BY <1>2, <1>3
<1>5. T[1] = from
  BY <1>2, <1>4, AtMostIsNumber
<1>6. IsV4(from) <=> IsV4(to)
  BY <1>1 DEF IsRange
<1> QED
  BY <1>5, <1>6

\* getClientFromIP finds a client by its own address.
THEOREM LookupFinds ==
  ASSUME NEW from \in Address, NEW to \in Address, NEW step \in Nat \ {0}, NEW most \in Nat,
         NEW T, IsRange(T, from, to, step, most), most <= TwoTo64 \div 2, Plain(from, to),
         NEW i \in 1..Len(T)
  PROVE  GetClientFromIP(T, step, T[i]) = i - 1
<1>1. Len(T) \in Nat /\ Len(T) <= most /\ Len(T) > 0 /\ i - 1 \in Nat /\ i - 1 < Len(T)
  BY DEF IsRange
<1>2. T[1] = from /\ (IsV4(from) <=> IsV4(to))
  BY <1>1, TableStartsAtFrom
<1> DEFINE a == T[i]
           diff == IpSubtract(a, T[1]).diff
           quotient == diff \div step
           index == IF quotient >= TwoTo64 \div 2 THEN quotient - TwoTo64 ELSE quotient
<1>3. /\ a \in Address /\ Number(a, Digits) = Number(from, Digits) + (i - 1) * step
      /\ Number(a, Digits) <= Number(to, Digits)
  BY DEF IsRange
<1>4. (i - 1) * step \in Nat
  BY <1>1, Multiples
<1>5. /\ Number(from, Digits) \in Nat /\ Number(a, Digits) \in Nat /\ Number(to, Digits) \in Nat
  <2>1. Digits \in 0..Digits
    BY AddressAssumption
  <2> HIDE DEF a
  <2> QED BY <1>3, <2>1, NumberBound, ValuesEquation
<1> HIDE DEF a
<1>6. /\ IsV4(from) => IsV4(a)
      /\ ~IsV4(from) => ~IsV4(a) /\ Number(a, Digits) - Number(from, Digits) < TwoTo64
  <2>1. Number(from, Digits) <= Number(a, Digits)
    BY <1>3, <1>4, <1>5
  <2>2. CASE IsV4(from)
    BY <1>2, <1>3, <2>1, <2>2, V4Between
  <2>3. CASE ~IsV4(from)
    <3>1. AtMost(from, a) /\ AtMost(a, to)
      BY <1>3, <2>1, AtMostIsNumber
    <3>2. IpBetween(from, to, a)
      BY <1>2, <3>1 DEF IpBetween
    <3> QED BY <1>3, <1>5, <2>3, <3>2, DigitCounts DEF Plain
  <2> QED BY <2>2, <2>3
<1>7. diff = (i - 1) * step
  <2>1. Number(from, Digits) <= Number(a, Digits)
    BY <1>3, <1>4, <1>5
  <2>2. IpSubtract(a, from).diff = Number(a, Digits) - Number(from, Digits)
    BY <1>3, <1>6, <2>1, SubtractIsDistance
  <2> QED BY <1>2, <1>3, <1>4, <1>5, <2>2
<1>8. diff % step = 0 /\ quotient = i - 1
  BY <1>1, <1>7, QuotientOfMultiple
<1>9. index = i - 1
  <2>1. TwoTo64 \div 2 \in Nat
    BY DigitCounts
  <2> HIDE DEF quotient
  <2> QED BY <1>1, <1>8, <2>1
<1>10. GetClientFromIP(T, step, a) =
         IF (~IsV4(T[1]) /\ IsV4(a)) \/ diff % step # 0 \/ index >= Len(T)
         THEN NoClient ELSE index
  BY DEF GetClientFromIP
<1> HIDE DEF diff, quotient, index
<1>11. GetClientFromIP(T, step, a) = i - 1
  BY <1>1, <1>2, <1>6, <1>8, <1>9, <1>10
<1> QED
  BY <1>11 DEF a

\* getClientFromIP finds nobody by an address that no client has and that lies
\* less than 2^63, half a uint64, beyond the first.  Beyond that it may: the
\* distance is taken modulo 2^64 (clientData.go:332-333) and the quotient made an
\* int (client.go:234).
THEOREM LookupRejectsNearby ==
  ASSUME NEW from \in Address, NEW to \in Address, NEW step \in Nat \ {0}, NEW most \in Nat,
         NEW T, IsRange(T, from, to, step, most), Len(T) > 0, NEW a \in Address,
         Number(a, Digits) - Number(from, Digits) \in 0..(TwoTo64 \div 2 - 1),
         \A i \in 1..Len(T) : T[i] # a
  PROVE  GetClientFromIP(T, step, a) = NoClient
<1>1. T[1] = from
  BY TableStartsAtFrom
<1> DEFINE far == Number(a, Digits) - Number(from, Digits)
           diff == IpSubtract(a, T[1]).diff
           quotient == diff \div step
           index == IF quotient >= TwoTo64 \div 2 THEN quotient - TwoTo64 ELSE quotient
<1>2. /\ Number(from, Digits) \in Nat /\ Number(a, Digits) \in Nat
  <2>1. Digits \in 0..Digits
    BY AddressAssumption
  <2> QED BY <2>1, NumberBound, ValuesEquation
<1>3. /\ TwoTo64 \in Nat /\ TwoTo64 \div 2 \in Nat /\ TwoTo64 \div 2 <= TwoTo64
      /\ far \in Nat /\ far < TwoTo64 \div 2
  BY <1>2, DigitCounts
<1>4. diff = far
  <2>1. Number(from, Digits) <= Number(a, Digits) /\ far < TwoTo64
    BY <1>2, <1>3
  <2> QED BY <1>1, <2>1, SubtractIsDistance
<1>5. Number(a, Digits) = Number(from, Digits) + far
  BY <1>2
<1> HIDE DEF far
<1>6. quotient \in Nat /\ quotient <= far /\ (diff % step = 0 => far = quotient * step)
  <2>1. far \in Nat /\ diff % step = far % step /\ quotient = far \div step
    BY <1>3, <1>4
  <2>2. IsQuotient(far \div step, far % step, far, step)
    BY <2>1, Division, Zenon
  <2> HIDE DEF quotient, diff
  <2>3. IsQuotient(quotient, diff % step, far, step)
    BY <2>1, <2>2, Zenon
  <2> DEFINE r == diff % step
  <2> HIDE DEF r
  <2>4. quotient \in Nat /\ quotient <= far /\ far = quotient * step + r
    BY <2>3 DEF IsQuotient, r
  <2>5. quotient * step \in Nat
    BY <2>4
  <2>6. quotient \in Nat /\ quotient <= far /\ (r = 0 => far = quotient * step)
    BY <2>4, <2>5
  <2> QED BY <2>6 DEF r
<1> HIDE DEF diff
<1>7. index = quotient
  BY <1>3, <1>6
<1>8. ASSUME diff % step = 0, quotient < Len(T) PROVE FALSE
  <2>1. quotient + 1 \in 1..Len(T) /\ (quotient + 1) - 1 = quotient
    <3>1. Len(T) \in Nat
      BY DEF IsRange
    <3> QED BY <1>6, <1>8, <3>1
  <2> HIDE DEF quotient
  <2>2. T[quotient + 1] \in Address
        /\ Number(T[quotient + 1], Digits) = Number(from, Digits) + quotient * step
    BY <2>1 DEF IsRange
  <2>3. Number(T[quotient + 1], Digits) = Number(a, Digits)
    BY <1>5, <1>6, <1>8, <2>2
  <2>4. T[quotient + 1] = a
    BY <2>2, <2>3, AtMostIsNumber
  <2> QED BY <2>1, <2>4
<1>9. GetClientFromIP(T, step, a) =
        IF (~IsV4(T[1]) /\ IsV4(a)) \/ diff % step # 0 \/ index >= Len(T)
        THEN NoClient ELSE index
  BY DEF GetClientFromIP, diff
<1>10. diff % step = 0 => index >= Len(T)
  <2>1. Len(T) \in Nat
    BY DEF IsRange
  <2> HIDE DEF quotient, index
  <2> QED BY <1>6, <1>7, <1>8, <2>1
<1> HIDE DEF quotient, index
<1> QED
  BY <1>9, <1>10
=============================================================================
