--------------------------- MODULE TimeHeapProofs ---------------------------
(* Theorems about TimeHeap, for any set of timers and any times.              *)
EXTENDS TimeHeap, TLAPS, WellFoundedInduction

\* The slots that are, or will be after the operation, the heap's.
Live == IF pc = "idle" \/ op = "fix" THEN len ELSE len - 1

\* What the loops know of where they are.
Control ==
    /\ pc = "down" =>
        /\ bound = Live
        /\ root <= at
        /\ at < len
        /\ at < bound \/ (op = "pop" /\ at = 0)
        /\ op = "pop" => root = 0
    /\ pc = "up" => op # "pop" /\ at < Live
    /\ pc = "cut" => op # "fix" /\ len > 0

\* The slots i and j are in the order of a parent and its child.
InOrder(i, j) == prio[slot[i]] <= prio[slot[j]]

\* The position that may be out of order with its parent or its children.
Unsettled(i) ==
    \/ pc = "down" /\ (Parent(i) = at \/ (i = at /\ at = root))
    \/ pc = "up" /\ i = at

Order ==
    /\ \A i \in 1 .. Live - 1 : ~Unsettled(i) => InOrder(Parent(i), i)
    /\ pc \in {"down", "up"} /\ at # 0 =>
         \A i \in 1 .. Live - 1 : Parent(i) = at => InOrder(Parent(at), i)

\* While SafePop sifts, the timer it returns waits behind the heap.
MinLast == pc # "idle" /\ op = "pop" => \A i \in 0 .. len - 2 : InOrder(len - 1, i)

Basic == TypeOK /\ IndexConsistent /\ Control
Inv == Basic /\ Order /\ MinLast

-----------------------------------------------------------------------------
(* Operators.                                                                 *)

(* Parent and children are inverse to each other.                             *)
LEMMA ParentFacts ==
    /\ \A i \in Nat \ {0} :
        /\ Parent(i) \in Nat
        /\ Parent(i) < i
        /\ i = 2 * Parent(i) + 1 \/ i = 2 * Parent(i) + 2
    /\ \A i, k \in Nat : i = 2 * k + 1 \/ i = 2 * k + 2 => Parent(i) = k
BY DEF Parent

(* A swap exchanges two timers, their positions follow, and no timer enters   *)
(* or leaves the heap.                                                        *)
LEMMA SwapFacts ==
    ASSUME TypeOK, IndexConsistent, NEW i \in 0 .. len - 1, NEW j \in 0 .. len - 1,
           Swap(i, j)
    PROVE  /\ slot' \in [0 .. len - 1 -> Items]
           /\ index' \in [Items -> -1 .. len - 1]
           /\ slot'[i] = slot[j] /\ slot'[j] = slot[i]
           /\ \A k \in 0 .. len - 1 : k # i /\ k # j => slot'[k] = slot[k]
           /\ \A k \in 0 .. len - 1 : index'[slot'[k]] = k
           /\ \A x \in Items : index'[x] # -1 => slot'[index'[x]] = x
           /\ \A x \in Items : index'[x] = -1 <=> index[x] = -1
<1>1. slot[i] \in Items /\ slot[j] \in Items
  BY DEF TypeOK
<1>2. slot' \in [0 .. len - 1 -> Items] /\ index' \in [Items -> -1 .. len - 1]
  <2>1. slot' \in [0 .. len - 1 -> Items]
    BY <1>1 DEF TypeOK, Swap
  <2>2. i \in -1 .. len - 1 /\ j \in -1 .. len - 1
    BY DEF TypeOK
  <2>3. index' \in [Items -> -1 .. len - 1]
    BY <1>1, <2>2 DEF TypeOK, Swap
  <2> QED
    BY <2>1, <2>3
<1>3. slot'[i] = slot[j] /\ slot'[j] = slot[i]
  BY DEF TypeOK, Swap
<1>4. \A k \in 0 .. len - 1 : k # i /\ k # j => slot'[k] = slot[k]
  BY DEF TypeOK, Swap
<1>5. index'[slot[j]] = i /\ index'[slot[i]] = j
  BY <1>1 DEF TypeOK, IndexConsistent, Swap
<1>6. \A x \in Items : x # slot[i] /\ x # slot[j] => index'[x] = index[x]
  BY <1>1 DEF TypeOK, Swap
<1>7. ASSUME NEW k \in 0 .. len - 1  PROVE index'[slot'[k]] = k
  <2>1. CASE k = i \/ k = j
    BY <2>1, <1>3, <1>5
  <2>2. CASE k # i /\ k # j
    <3>1. slot'[k] = slot[k] /\ slot[k] \in Items
      BY <2>2, <1>4 DEF TypeOK
    <3>2. slot[k] # slot[i] /\ slot[k] # slot[j]
      BY <2>2 DEF IndexConsistent
    <3> QED
      BY <3>1, <3>2, <1>6 DEF IndexConsistent
  <2> QED
    BY <2>1, <2>2
<1>8. ASSUME NEW x \in Items, index'[x] # -1  PROVE slot'[index'[x]] = x
  <2>1. CASE x = slot[i] \/ x = slot[j]
    BY <2>1, <1>3, <1>5
  <2>2. CASE x # slot[i] /\ x # slot[j]
    <3>1. index'[x] = index[x] /\ slot[index[x]] = x /\ index[x] \in 0 .. len - 1
      BY <2>2, <1>6, <1>8 DEF TypeOK, IndexConsistent
    <3> QED
      BY <3>1, <2>2, <1>4
  <2> QED
    BY <2>1, <2>2
<1>9. \A x \in Items : index'[x] = -1 <=> index[x] = -1
  BY <1>5, <1>6 DEF TypeOK, IndexConsistent
<1> QED
  BY <1>2, <1>3, <1>4, <1>7, <1>8, <1>9

(* down compares the sifted timer with the lesser child.                      *)
LEMMA ChildFacts ==
    ASSUME TypeOK, NEW i \in Nat, 2 * i + 1 < bound, bound <= len
    PROVE  /\ Child(i) \in 0 .. bound - 1
           /\ Child(i) # 0
           /\ Parent(Child(i)) = i
           /\ \A k \in 1 .. bound - 1 : Parent(k) = i => InOrder(Child(i), k)
<1>1. Child(i) = 2 * i + 1 \/ (Child(i) = 2 * i + 2 /\ 2 * i + 2 < bound)
  BY DEF Child
<1>2. Child(i) \in 0 .. bound - 1 /\ Child(i) # 0
  BY <1>1 DEF TypeOK
<1>3. Parent(Child(i)) = i
  BY <1>1, <1>2, ParentFacts DEF TypeOK
<1>4. ASSUME NEW k \in 1 .. bound - 1, Parent(k) = i  PROVE InOrder(Child(i), k)
  <2>0. k \in Nat \ {0} /\ bound \in Nat
    BY DEF TypeOK
  <2>1. k = 2 * i + 1 \/ k = 2 * i + 2
    BY <1>4, <2>0, ParentFacts
  <2>2. \A m \in 0 .. len - 1 : prio[slot[m]] \in Nat
    BY TimesAssumption DEF TypeOK
  <2>3. k \in 0 .. len - 1 /\ 2 * i + 1 \in 0 .. len - 1
        /\ (2 * i + 2 < bound => 2 * i + 2 \in 0 .. len - 1)
    BY DEF TypeOK
  <2> QED
    <3> DEFINE l == 2 * i + 1
               r == 2 * i + 2
    <3>1. prio[slot[l]] \in Nat /\ (r < bound => prio[slot[r]] \in Nat)
      BY <2>2, <2>3
    <3>2. k = r => r < bound
      BY <2>0
    <3>3. Child(i) = IF r < bound /\ prio[slot[r]] < prio[slot[l]] THEN r ELSE l
      BY DEF Child, Less
    <3> HIDE DEF l, r
    <3> QED
      BY <2>1, <3>1, <3>2, <3>3 DEF InOrder, l, r
<1> QED
  BY <1>2, <1>3, <1>4

(* The head of an ordered heap is an earliest timer: the least slot that is   *)
(* earlier would have an earlier parent.                                      *)
LEMMA Least ==
    ASSUME NEW T, T \subseteq Nat, T # {}
    PROVE  \E x \in T : \A y \in T : x <= y
<1> DEFINE R == OpToRel(<, Nat)
<1>1. IsWellFoundedOn(R, Nat)
  BY NatLessThanWellFounded
<1>2. PICK x \in T : \A y \in T : ~ (<<y, x>> \in R)
  <2> HIDE DEF R
  <2> QED BY <1>1, WFMin
<1>3. \A y \in T : y < x => <<y, x>> \in R
  BY DEF OpToRel
<1> HIDE DEF R
<1>4. \A y \in T : ~ (y < x)
  BY <1>2, <1>3
<1>5. \A y \in T : x <= y
  BY <1>4, SMT
<1> QED
  BY <1>5

LEMMA HeadIsLeast ==
    ASSUME TypeOK, \A i \in 1 .. len - 1 : InOrder(Parent(i), i)
    PROVE  \A i \in 0 .. len - 1 : InOrder(0, i)
<1> DEFINE T == {i \in 0 .. len - 1 : ~InOrder(0, i)}
<1>1. SUFFICES ASSUME T # {} PROVE FALSE
  OBVIOUS
<1>2. \A i \in 0 .. len - 1 : prio[slot[i]] \in Nat
  BY TimesAssumption DEF TypeOK
<1>3. PICK x \in T : \A y \in T : x <= y
  <2>1. T \subseteq Nat
    OBVIOUS
  <2> HIDE DEF T
  <2> QED BY <1>1, <2>1, Least
<1>4. x # 0 /\ x \in 1 .. len - 1
  BY <1>2, <1>3 DEF InOrder, TypeOK
<1>5. Parent(x) \in 0 .. len - 1 /\ Parent(x) < x
  <2>1. x \in Nat \ {0} /\ len \in Nat
    BY <1>4 DEF TypeOK
  <2> QED BY <1>4, <2>1, ParentFacts
<1>6. InOrder(0, Parent(x))
  BY <1>3, <1>5 DEF TypeOK
<1>7. InOrder(Parent(x), x)
  BY <1>4
<1>8. InOrder(0, x)
  BY <1>2, <1>4, <1>5, <1>6, <1>7 DEF InOrder, TypeOK
<1> QED
  BY <1>3, <1>8

-----------------------------------------------------------------------------
(* Types, positions and the loops' control.                                   *)

LEMMA BasicInit == Init => Basic
<1> SUFFICES ASSUME Init PROVE Basic
  OBVIOUS
<1>1. slot \in [0 .. len - 1 -> Items] /\ index \in [Items -> -1 .. len - 1]
  BY DEF Init
<1>2. TypeOK
  BY <1>1 DEF Init, TypeOK
<1>3. IndexConsistent
  BY DEF Init, IndexConsistent
<1> QED
  BY <1>2, <1>3 DEF Init, Basic, Control

LEMMA BasicInsert ==
    ASSUME Basic, NEW x \in Items, NEW p \in Times, Insert(x, p)
    PROVE  Basic'
<1> USE DEF Basic
<1>1. len \in Nat /\ len' = len + 1 /\ index[x] = -1
  BY DEF TypeOK, Insert
<1>2. slot' \in [0 .. len' - 1 -> Items]
      /\ slot'[len] = x /\ \A i \in 0 .. len - 1 : slot'[i] = slot[i]
  BY <1>1 DEF TypeOK, Insert
<1>3. index' \in [Items -> -1 .. len' - 1] /\ index'[x] = len
      /\ \A y \in Items : y # x => index'[y] = index[y]
  <2>1. \A y \in Items : index[y] \in -1 .. len' - 1
    BY <1>1 DEF TypeOK
  <2>2. len \in -1 .. len' - 1
    BY <1>1
  <2> QED BY <2>1, <2>2 DEF TypeOK, Insert
<1>4. TypeOK'
  BY <1>1, <1>2, <1>3 DEF TypeOK, Insert
<1>5. \A i \in 0 .. len' - 1 : index'[slot'[i]] = i
  <2> SUFFICES ASSUME NEW i \in 0 .. len' - 1 PROVE index'[slot'[i]] = i
    OBVIOUS
  <2>1. CASE i = len
    BY <2>1, <1>2, <1>3
  <2>2. CASE i \in 0 .. len - 1
    BY <2>2, <1>1, <1>2, <1>3 DEF TypeOK, IndexConsistent
  <2> QED BY <1>1, <2>1, <2>2
<1>6. \A y \in Items : index'[y] # -1 => slot'[index'[y]] = y
  <2> SUFFICES ASSUME NEW y \in Items, index'[y] # -1 PROVE slot'[index'[y]] = y
    OBVIOUS
  <2>1. CASE y = x
    BY <2>1, <1>2, <1>3
  <2>2. CASE y # x
    <3>1. index'[y] = index[y] /\ index[y] \in 0 .. len - 1 /\ slot[index[y]] = y
      BY <2>2, <1>3 DEF TypeOK, IndexConsistent
    <3> QED BY <3>1, <1>2
  <2> QED BY <2>1, <2>2
<1>7. Control'
  BY <1>1 DEF Control, Insert, Live
<1> QED
  BY <1>4, <1>5, <1>6, <1>7 DEF IndexConsistent

LEMMA BasicUpdate ==
    ASSUME Basic, NEW x \in Items, NEW p \in Times, Update(x, p)
    PROVE  Basic'
<1> USE DEF Basic
<1>1. len \in Nat /\ index[x] \in 0 .. len - 1
  BY DEF TypeOK, Update
<1>2. TypeOK'
  BY <1>1 DEF TypeOK, Update
<1>3. IndexConsistent'
  BY DEF IndexConsistent, Update
<1>4. Control'
  BY <1>1 DEF Control, Update, Live
<1> QED
  BY <1>2, <1>3, <1>4

LEMMA BasicSafePop ==
    ASSUME Basic, SafePop
    PROVE  Basic'
<1> USE DEF Basic
<1>1. len \in Nat /\ 0 \in 0 .. len - 1 /\ len - 1 \in 0 .. len - 1 /\ len' = len
  BY DEF TypeOK, SafePop
<1>2. slot' \in [0 .. len - 1 -> Items] /\ index' \in [Items -> -1 .. len - 1]
      /\ (\A k \in 0 .. len - 1 : index'[slot'[k]] = k)
      /\ \A x \in Items : index'[x] # -1 => slot'[index'[x]] = x
  BY <1>1, SwapFacts DEF SafePop
<1>3. TypeOK'
  BY <1>1, <1>2 DEF TypeOK, SafePop
<1>4. IndexConsistent'
  BY <1>1, <1>2 DEF IndexConsistent
<1>5. Control'
  BY <1>1 DEF Control, SafePop, Live
<1> QED
  BY <1>3, <1>4, <1>5

LEMMA BasicSafeRemove ==
    ASSUME Basic, NEW x \in Items, SafeRemove(x)
    PROVE  Basic'
<1> USE DEF Basic
<1>1. len \in Nat /\ index[x] \in 0 .. len - 1 /\ len - 1 \in 0 .. len - 1 /\ len' = len
  BY DEF TypeOK, SafeRemove
<1>2. slot' \in [0 .. len - 1 -> Items] /\ index' \in [Items -> -1 .. len - 1]
      /\ (\A k \in 0 .. len - 1 : index'[slot'[k]] = k)
      /\ \A y \in Items : index'[y] # -1 => slot'[index'[y]] = y
  <2>1. CASE index[x] = len - 1
    BY <2>1, <1>1 DEF SafeRemove, TypeOK, IndexConsistent
  <2>2. CASE index[x] # len - 1
    BY <2>2, <1>1, SwapFacts DEF SafeRemove
  <2> QED BY <2>1, <2>2
<1>3. TypeOK'
  BY <1>1, <1>2, SMTT(30) DEF TypeOK, SafeRemove
<1>4. IndexConsistent'
  BY <1>1, <1>2 DEF IndexConsistent
<1>5. Control'
  BY <1>1 DEF Control, SafeRemove, Live
<1> QED
  BY <1>3, <1>4, <1>5

(* A step of down: the sifted timer changes places with its lesser child.     *)
LEMMA DownSwapFacts ==
    ASSUME Basic, DownSwap
    PROVE  /\ at \in 0 .. len - 1 /\ at' \in 1 .. Live - 1
           /\ at' = Child(at) /\ Parent(at') = at /\ at < at' /\ Less(at', at)
           /\ Swap(at, at') /\ Live' = Live /\ Live <= len
           /\ \A k \in 1 .. Live - 1 : Parent(k) = at => InOrder(at', k)
<1> USE DEF Basic
<1>1. at \in Nat /\ at < len /\ len \in Nat /\ bound = Live /\ bound \in Nat /\ bound <= len
  BY DEF DownSwap, Control, TypeOK, Live
<1>2. 2 * at + 1 < bound /\ at' = Child(at) /\ Less(at', at) /\ Swap(at, at')
  BY DEF DownSwap, SinksTo
<1>3. at' \in 0 .. bound - 1 /\ at' # 0 /\ Parent(at') = at
      /\ \A k \in 1 .. bound - 1 : Parent(k) = at => InOrder(at', k)
  BY <1>1, <1>2, ChildFacts
<1>4. at < at'
  <2>1. at' \in Nat \ {0}
    BY <1>1, <1>3
  <2> QED BY <2>1, <1>3, ParentFacts
<1>5. Live' = Live
  BY DEF DownSwap, Live
<1> QED
  BY <1>1, <1>2, <1>3, <1>4, <1>5

(* A step of up: the sifted timer changes places with its parent.             *)
LEMMA UpSwapFacts ==
    ASSUME Basic, UpSwap
    PROVE  /\ at \in 1 .. Live - 1 /\ at' \in 0 .. Live - 1
           /\ at' = Parent(at) /\ at' < at /\ Less(at, at')
           /\ Swap(at', at) /\ Live' = Live /\ Live <= len
<1> USE DEF Basic
<1>1. at \in Nat \ {0} /\ at < Live /\ len \in Nat /\ Live <= len /\ Live \in Nat
  BY DEF UpSwap, Control, TypeOK, Live
<1>2. Parent(at) \in Nat /\ Parent(at) < at
  BY <1>1, ParentFacts
<1>3. at' = Parent(at) /\ Less(at, at') /\ Swap(at', at) /\ Live' = Live
  BY DEF UpSwap, Live
<1> QED
  BY <1>1, <1>2, <1>3

LEMMA BasicDownSwap ==
    ASSUME Basic, DownSwap
    PROVE  Basic'
<1> USE DEF Basic
<1>1. at \in 0 .. len - 1 /\ at' \in 1 .. Live - 1 /\ at < at' /\ Swap(at, at')
      /\ Live' = Live /\ Live <= len
  BY DownSwapFacts
<1>2. at' \in 0 .. len - 1 /\ len \in Nat /\ len' = len
  BY <1>1 DEF TypeOK, DownSwap, Live
<1>3. slot' \in [0 .. len - 1 -> Items] /\ index' \in [Items -> -1 .. len - 1]
      /\ (\A k \in 0 .. len - 1 : index'[slot'[k]] = k)
      /\ \A x \in Items : index'[x] # -1 => slot'[index'[x]] = x
  BY <1>1, <1>2, SwapFacts
<1>4. TypeOK'
  <2>1. UNCHANGED <<len, prio, pc, op, root, bound, popped>> /\ at' \in Nat
    BY <1>2 DEF DownSwap
  <2> QED BY <2>1, <1>3 DEF TypeOK
<1>5. IndexConsistent'
  BY <1>2, <1>3 DEF IndexConsistent
<1>6. Control'
  BY <1>1, <1>2 DEF Control, DownSwap, TypeOK, Live
<1> QED
  BY <1>4, <1>5, <1>6

LEMMA BasicUpSwap ==
    ASSUME Basic, UpSwap
    PROVE  Basic'
<1> USE DEF Basic
<1>1. at \in 1 .. Live - 1 /\ at' \in 0 .. Live - 1 /\ Swap(at', at)
      /\ Live' = Live /\ Live <= len
  BY UpSwapFacts
<1>2. at \in 0 .. len - 1 /\ at' \in 0 .. len - 1 /\ len \in Nat /\ len' = len
  BY <1>1 DEF TypeOK, UpSwap, Live
<1>3. slot' \in [0 .. len - 1 -> Items] /\ index' \in [Items -> -1 .. len - 1]
      /\ (\A k \in 0 .. len - 1 : index'[slot'[k]] = k)
      /\ \A x \in Items : index'[x] # -1 => slot'[index'[x]] = x
  BY <1>1, <1>2, SwapFacts
<1>4. TypeOK'
  <2>1. UNCHANGED <<len, prio, pc, op, root, bound, popped>> /\ at' \in Nat
    BY <1>2 DEF UpSwap
  <2> QED BY <2>1, <1>3 DEF TypeOK
<1>5. IndexConsistent'
  BY <1>2, <1>3 DEF IndexConsistent
<1>6. Control'
  BY <1>1, <1>2 DEF Control, UpSwap, TypeOK, Live
<1> QED
  BY <1>4, <1>5, <1>6

LEMMA BasicEnds ==
    ASSUME Basic, DownEnd \/ UpEnd
    PROVE  Basic'
<1> USE DEF Basic
<1>1. len \in Nat /\ at \in Nat /\ len > 0
  BY DEF TypeOK, Control, DownEnd, UpEnd, Live
<1>2. TypeOK'
  BY DEF TypeOK, DownEnd, UpEnd, Finish
<1>3. IndexConsistent'
  BY DEF IndexConsistent, DownEnd, UpEnd
<1>4. Control'
  BY <1>1 DEF Control, TypeOK, DownEnd, UpEnd, Finish, Live
<1> QED
  BY <1>2, <1>3, <1>4

LEMMA BasicCut ==
    ASSUME Basic, Cut
    PROVE  Basic'
<1> USE DEF Basic
<1>1. len \in Nat /\ len > 0 /\ len' = len - 1 /\ len - 1 \in 0 .. len - 1
  BY DEF TypeOK, Control, Cut
<1> DEFINE z == slot[len - 1]
<1>2. z \in Items /\ index[z] = len - 1
  BY <1>1 DEF TypeOK, IndexConsistent
<1>3. slot' \in [0 .. len' - 1 -> Items] /\ \A i \in 0 .. len' - 1 : slot'[i] = slot[i]
  BY <1>1 DEF TypeOK, Cut
<1>4. index'[z] = -1 /\ \A y \in Items : y # z => index'[y] = index[y]
  BY <1>2 DEF TypeOK, Cut
<1>5. ASSUME NEW y \in Items, y # z  PROVE index[y] # len - 1
  <2>1. index[y] = len - 1 => index[y] # -1
    BY <1>1
  <2>2. index[y] # -1 => slot[index[y]] = y
    BY DEF IndexConsistent
  <2> QED BY <2>1, <2>2, <1>5
<1>6. index' \in [Items -> -1 .. len' - 1]
  <2>1. \A y \in Items : index'[y] \in -1 .. len' - 1
    <3> SUFFICES ASSUME NEW y \in Items PROVE index'[y] \in -1 .. len' - 1
      OBVIOUS
    <3>1. index[y] \in -1 .. len - 1
      BY DEF TypeOK
    <3>2. CASE y = z
      BY <3>2, <1>1, <1>4
    <3>3. CASE y # z
      BY <3>1, <3>3, <1>1, <1>4, <1>5
    <3> QED BY <3>2, <3>3
  <2>2. index' = [y \in Items |-> index'[y]]
    BY DEF TypeOK, Cut
  <2> QED BY <2>1, <2>2
<1>7. TypeOK'
  BY <1>1, <1>2, <1>3, <1>6 DEF TypeOK, Cut
<1>8. \A i \in 0 .. len' - 1 : index'[slot'[i]] = i
  <2> SUFFICES ASSUME NEW i \in 0 .. len' - 1 PROVE index'[slot'[i]] = i
    OBVIOUS
  <2>1. i \in 0 .. len - 1 /\ i # len - 1 /\ slot[i] \in Items /\ index[slot[i]] = i
    BY <1>1 DEF TypeOK, IndexConsistent
  <2>2. slot[i] # z
    BY <2>1, <1>2
  <2> QED BY <2>1, <2>2, <1>3, <1>4
<1>9. \A y \in Items : index'[y] # -1 => slot'[index'[y]] = y
  <2> SUFFICES ASSUME NEW y \in Items, index'[y] # -1 PROVE slot'[index'[y]] = y
    OBVIOUS
  <2>1. y # z /\ index'[y] = index[y]
    BY <1>4
  <2>2. index[y] \in 0 .. len' - 1 /\ slot[index[y]] = y
    BY <2>1, <1>6 DEF TypeOK, IndexConsistent
  <2> QED BY <2>1, <2>2, <1>3
<1>10. Control'
  BY DEF Control, Cut
<1> QED
  BY <1>7, <1>8, <1>9, <1>10 DEF IndexConsistent

LEMMA BasicStep == Basic /\ [Next]_vars => Basic'
<1> SUFFICES ASSUME Basic, [Next]_vars PROVE Basic'
  OBVIOUS
<1>1. CASE \E x \in Items, p \in Times : Insert(x, p) \/ Update(x, p)
  BY <1>1, BasicInsert, BasicUpdate
<1>2. CASE SafePop
  BY <1>2, BasicSafePop
<1>3. CASE \E x \in Items : SafeRemove(x)
  BY <1>3, BasicSafeRemove
<1>4. CASE DownSwap
  BY <1>4, BasicDownSwap
<1>5. CASE DownEnd \/ UpEnd
  BY <1>5, BasicEnds
<1>6. CASE UpSwap
  BY <1>6, BasicUpSwap
<1>7. CASE Cut
  BY <1>7, BasicCut
<1>8. CASE UNCHANGED vars
  BY <1>8 DEF Basic, TypeOK, IndexConsistent, Control, Live, vars
<1> QED
  BY <1>1, <1>2, <1>3, <1>4, <1>5, <1>6, <1>7, <1>8 DEF Next, Sift

-----------------------------------------------------------------------------
(* The order of the heap.                                                     *)

LEMMA PrioNat ==
    ASSUME TypeOK
    PROVE  \A i \in 0 .. len - 1 : prio[slot[i]] \in Nat
BY TimesAssumption DEF TypeOK

LEMMA LiveSlots ==
    ASSUME Basic
    PROVE  /\ Live \in Int /\ Live <= len /\ len \in Nat
           /\ \A i \in 1 .. Live - 1 :
                /\ i \in Nat \ {0} /\ i \in 0 .. len - 1
                /\ Parent(i) \in 0 .. Live - 1 /\ Parent(i) \in 0 .. len - 1 /\ Parent(i) < i
<1>1. Live \in Int /\ Live <= len /\ len \in Nat
  BY DEF Basic, TypeOK, Live
<1>2. ASSUME NEW i \in 1 .. Live - 1
      PROVE /\ i \in Nat \ {0} /\ i \in 0 .. len - 1
            /\ Parent(i) \in 0 .. Live - 1 /\ Parent(i) \in 0 .. len - 1 /\ Parent(i) < i
  <2>1. i \in Nat \ {0} /\ i \in 0 .. len - 1
    BY <1>1
  <2>2. Parent(i) \in Nat /\ Parent(i) < i
    BY <2>1, ParentFacts
  <2> QED BY <1>1, <2>1, <2>2
<1> QED
  BY <1>1, <1>2

\* Order when nothing is being sifted, and in full.
Ordered == \A i \in 1 .. Live - 1 : InOrder(Parent(i), i)

LEMMA IdleOrder ==
    ASSUME Order, pc \in {"idle", "cut"}
    PROVE  Ordered
BY DEF Order, Ordered, Unsettled

LEMMA OrderInsert ==
    ASSUME Basic, Order, NEW x \in Items, NEW p \in Times, Insert(x, p)
    PROVE  Order'
<1>1. Ordered /\ Live = len /\ Live' = len + 1 /\ pc' = "up" /\ at' = len /\ len \in Nat
  BY IdleOrder DEF Insert, Live, Basic, TypeOK
<1>2. \A i \in 0 .. len - 1 : slot'[i] = slot[i] /\ prio'[slot[i]] = prio[slot[i]]
  <2> SUFFICES ASSUME NEW i \in 0 .. len - 1
               PROVE slot'[i] = slot[i] /\ prio'[slot[i]] = prio[slot[i]]
    OBVIOUS
  <2>1. slot[i] \in Items /\ slot[i] # x
    BY DEF Insert, Basic, TypeOK, IndexConsistent
  <2>2. prio'[slot[i]] = prio[slot[i]]
    BY <2>1 DEF Insert, Basic, TypeOK
  <2>3. slot'[i] = slot[i]
    BY <1>1 DEF Insert
  <2> QED BY <2>2, <2>3
<1>3. ASSUME NEW i \in 1 .. Live' - 1, ~Unsettled(i)'  PROVE InOrder(Parent(i), i)'
  <2>1. i \in 1 .. Live - 1
    BY <1>1, <1>3 DEF Unsettled
  <2>2. i \in 0 .. len - 1 /\ Parent(i) \in 0 .. len - 1
    BY <2>1, LiveSlots
  <2> QED BY <2>1, <2>2, <1>1, <1>2 DEF Ordered, InOrder
<1>4. ASSUME NEW i \in 1 .. Live' - 1  PROVE Parent(i) # at'
  <2>1. i \in Nat \ {0} /\ i <= len
    BY <1>1
  <2>2. Parent(i) \in Nat /\ Parent(i) < i
    BY <2>1, ParentFacts
  <2> QED BY <2>1, <2>2, <1>1
<1> QED
  BY <1>3, <1>4 DEF Order

LEMMA OrderUpdate ==
    ASSUME Basic, Order, NEW x \in Items, NEW p \in Times, Update(x, p)
    PROVE  Order'
<1>1. Ordered /\ Live = len /\ Live' = len /\ len \in Nat
      /\ pc' = "down" /\ at' = index[x] /\ root' = index[x] /\ at' \in 0 .. len - 1
  BY IdleOrder DEF Update, Live, Basic, TypeOK
<1>2. \A i \in 0 .. len - 1 :
        slot'[i] = slot[i] /\ (i # at' => prio'[slot[i]] = prio[slot[i]])
  <2> SUFFICES ASSUME NEW i \in 0 .. len - 1, i # at'
               PROVE prio'[slot[i]] = prio[slot[i]]
    BY DEF Update
  <2>1. slot[i] \in Items /\ slot[i] # x
    BY <1>1 DEF Basic, TypeOK, IndexConsistent
  <2> QED BY <2>1 DEF Update, Basic, TypeOK
<1>3. ASSUME NEW i \in 1 .. Live' - 1, ~Unsettled(i)'  PROVE InOrder(Parent(i), i)'
  <2>1. i # at' /\ Parent(i) # at'
    BY <1>1, <1>3 DEF Unsettled, Parent
  <2>2. i \in 1 .. Live - 1 /\ i \in 0 .. len - 1 /\ Parent(i) \in 0 .. len - 1
    BY <1>1, LiveSlots
  <2> QED BY <2>1, <2>2, <1>1, <1>2 DEF Ordered, InOrder
<1>4. ASSUME at' # 0, NEW i \in 1 .. Live' - 1, Parent(i) = at'
      PROVE InOrder(Parent(at), i)'
  <2>1. i \in 1 .. Live - 1 /\ i \in 0 .. len - 1 /\ at' < i
    BY <1>1, <1>4, LiveSlots
  <2>2. at' \in 1 .. Live - 1 /\ Parent(at') \in 0 .. len - 1 /\ Parent(at') < at'
    BY <1>1, <1>4, LiveSlots
  <2>3. InOrder(at', i) /\ InOrder(Parent(at'), at')
    BY <2>1, <2>2, <1>1, <1>4 DEF Ordered
  <2>4. InOrder(Parent(at'), i)
    BY <2>1, <2>2, <2>3, <1>1, PrioNat DEF InOrder, Basic
  <2>5. InOrder(Parent(at'), i) => prio'[slot'[Parent(at')]] <= prio'[slot'[i]]
    BY <2>1, <2>2, <1>1, <1>2 DEF InOrder
  <2>6. Parent(at)' = Parent(at')
    BY DEF Parent
  <2> QED BY <2>4, <2>5, <2>6 DEF InOrder
<1> QED
  BY <1>3, <1>4 DEF Order

LEMMA OrderSafePop ==
    ASSUME Basic, Order, SafePop
    PROVE  Order'
<1>1. Ordered /\ Live = len /\ Live' = len - 1 /\ len \in Nat /\ len > 0
      /\ pc' = "down" /\ at' = 0 /\ root' = 0 /\ prio' = prio
  BY IdleOrder DEF SafePop, Live, Basic, TypeOK
<1>2. \A i \in 0 .. len - 1 : i # 0 /\ i # len - 1 => slot'[i] = slot[i]
  BY <1>1, SwapFacts DEF SafePop, Basic
<1>3. ASSUME NEW i \in 1 .. Live' - 1, ~Unsettled(i)'  PROVE InOrder(Parent(i), i)'
  <2>1. Parent(i) # 0
    BY <1>1, <1>3 DEF Unsettled, Parent
  <2>2. i \in 1 .. Live - 1 /\ i # len - 1 /\ i \in 0 .. len - 1
        /\ Parent(i) \in 0 .. len - 1 /\ Parent(i) # len - 1
    BY <1>1, LiveSlots
  <2> QED BY <2>1, <2>2, <1>1, <1>2 DEF Ordered, InOrder
<1> QED
  BY <1>1, <1>3 DEF Order

LEMMA OrderSafeRemove ==
    ASSUME Basic, Order, NEW x \in Items, SafeRemove(x)
    PROVE  Order'
<1>1. Ordered /\ Live = len /\ Live' = len - 1 /\ len \in Nat
      /\ index[x] \in 0 .. len - 1 /\ prio' = prio
      /\ at' = index[x] /\ root' = index[x]
  BY IdleOrder DEF SafeRemove, Live, Basic, TypeOK
<1>2. CASE index[x] = len - 1
  <2>1. pc' = "cut" /\ slot' = slot
    BY <1>2 DEF SafeRemove
  <2>2. ASSUME NEW i \in 1 .. Live' - 1  PROVE InOrder(Parent(i), i)'
    BY <1>1, <2>1 DEF Ordered, InOrder
  <2> QED BY <2>1, <2>2 DEF Order
<1>3. CASE index[x] # len - 1
  <2>1. pc' = "down" /\ Swap(index[x], len - 1) /\ len - 1 \in 0 .. len - 1
    BY <1>1, <1>3 DEF SafeRemove
  <2>2. \A i \in 0 .. len - 1 : i # at' /\ i # len - 1 => slot'[i] = slot[i]
    BY <1>1, <2>1, SwapFacts DEF Basic
  <2>3. ASSUME NEW i \in 1 .. Live' - 1, ~Unsettled(i)'  PROVE InOrder(Parent(i), i)'
    <3>1. i # at' /\ Parent(i) # at'
      BY <1>1, <2>1, <2>3 DEF Unsettled, Parent
    <3>2. i \in 1 .. Live - 1 /\ i # len - 1 /\ i \in 0 .. len - 1
          /\ Parent(i) \in 0 .. len - 1 /\ Parent(i) # len - 1
      BY <1>1, LiveSlots
    <3> QED BY <3>1, <3>2, <1>1, <2>2 DEF Ordered, InOrder
  <2>4. ASSUME at' # 0, NEW i \in 1 .. Live' - 1, Parent(i) = at'
        PROVE InOrder(Parent(at), i)'
    <3>1. i \in 1 .. Live - 1 /\ i \in 0 .. len - 1 /\ at' < i /\ i # len - 1
      BY <1>1, <2>4, LiveSlots
    <3>2. at' \in 1 .. Live - 1 /\ Parent(at') \in 0 .. len - 1 /\ Parent(at') < at'
      BY <1>1, <2>4, LiveSlots
    <3>3. InOrder(at', i) /\ InOrder(Parent(at'), at')
      BY <3>1, <3>2, <1>1, <2>4 DEF Ordered
    <3>4. InOrder(Parent(at'), i)
      BY <3>1, <3>2, <3>3, <1>1, PrioNat DEF InOrder, Basic
    <3>5. slot'[i] = slot[i] /\ slot'[Parent(at')] = slot[Parent(at')]
      BY <3>1, <3>2, <1>1, <2>2
    <3>6. Parent(at)' = Parent(at')
      BY DEF Parent
    <3> QED BY <3>4, <3>5, <3>6, <1>1 DEF InOrder
  <2> QED BY <2>3, <2>4 DEF Order
<1> QED
  BY <1>2, <1>3

LEMMA OrderDownSwap ==
    ASSUME Basic, Order, DownSwap
    PROVE  Order'
<1>1. /\ at \in 0 .. len - 1 /\ at' \in 1 .. Live - 1 /\ at' \in 0 .. len - 1
      /\ Parent(at') = at /\ at < at' /\ Less(at', at) /\ Swap(at, at')
      /\ Live' = Live
      /\ \A k \in 1 .. Live - 1 : Parent(k) = at => InOrder(at', k)
  BY DownSwapFacts, LiveSlots
<1>2. pc = "down" /\ pc' = "down" /\ prio' = prio /\ root' = root /\ root <= at
      /\ at \in Nat /\ root \in Nat
  BY DEF DownSwap, Basic, Control, TypeOK
<1>3. slot'[at] = slot[at'] /\ slot'[at'] = slot[at]
      /\ \A k \in 0 .. len - 1 : k # at /\ k # at' => slot'[k] = slot[k]
  BY <1>1, SwapFacts DEF Basic
<1>4. \A i \in 1 .. Live - 1 : Parent(i) # at /\ (i # at \/ at # root) => InOrder(Parent(i), i)
  BY <1>2 DEF Order, Unsettled
<1>5. at # 0 => \A i \in 1 .. Live - 1 : Parent(i) = at => InOrder(Parent(at), i)
  BY <1>2 DEF Order
<1>6. ASSUME NEW i \in 1 .. Live' - 1, ~Unsettled(i)'  PROVE InOrder(Parent(i), i)'
  <2>1. /\ i \in 1 .. Live - 1 /\ i \in 0 .. len - 1
        /\ Parent(i) \in 0 .. len - 1 /\ Parent(i) < i
        /\ Parent(i) # at'
    <3>1. i \in 1 .. Live - 1
      BY <1>1
    <3>2. Parent(i) # at'
      BY <1>2, <1>6 DEF Unsettled, Parent
    <3> QED BY <3>1, <3>2, LiveSlots
  <2>2. CASE i = at'
    <3>1. slot'[Parent(i)] = slot[at'] /\ slot'[i] = slot[at]
      BY <2>2, <1>1, <1>3
    <3> QED BY <3>1, <1>1, <1>2, PrioNat DEF InOrder, Less, Basic
  <2>3. CASE i # at' /\ Parent(i) = at
    BY <2>1, <2>3, <1>1, <1>2, <1>3 DEF InOrder
  <2>4. CASE i = at
    <3>1. InOrder(Parent(at), at')
      BY <2>1, <2>4, <1>1, <1>2, <1>5
    <3>2. Parent(at) # at /\ Parent(at) # at'
      BY <2>1, <2>4
    <3> QED BY <2>1, <2>4, <3>1, <3>2, <1>2, <1>3 DEF InOrder
  <2>5. CASE i # at' /\ i # at /\ Parent(i) # at
    BY <2>1, <2>5, <1>2, <1>3, <1>4 DEF InOrder
  <2> QED BY <2>2, <2>3, <2>4, <2>5
<1>7. ASSUME NEW i \in 1 .. Live' - 1, Parent(i) = at'  PROVE InOrder(Parent(at), i)'
  <2>1. i \in 1 .. Live - 1 /\ i \in 0 .. len - 1 /\ at' < i
    BY <1>1, <1>7, LiveSlots
  <2>2. InOrder(at', i) /\ slot'[i] = slot[i] /\ slot'[at] = slot[at']
    BY <2>1, <1>1, <1>3, <1>4, <1>7
  <2>3. Parent(at)' = at
    BY <1>1 DEF Parent
  <2> QED BY <2>2, <2>3, <1>2 DEF InOrder
<1> QED
  BY <1>6, <1>7 DEF Order

LEMMA OrderUpSwap ==
    ASSUME Basic, Order, UpSwap
    PROVE  Order'
<1>1. /\ at \in 1 .. Live - 1 /\ at' \in 0 .. Live - 1
      /\ at' = Parent(at) /\ at' < at /\ Less(at, at') /\ Swap(at', at) /\ Live' = Live
      /\ at \in 0 .. len - 1 /\ at' \in 0 .. len - 1
  BY UpSwapFacts, LiveSlots
<1>2. pc = "up" /\ pc' = "up" /\ prio' = prio /\ at \in Nat
  BY DEF UpSwap, Basic, TypeOK
<1>3. slot'[at] = slot[at'] /\ slot'[at'] = slot[at]
      /\ \A k \in 0 .. len - 1 : k # at /\ k # at' => slot'[k] = slot[k]
  BY <1>1, SwapFacts DEF Basic
<1>4. \A i \in 1 .. Live - 1 : i # at => InOrder(Parent(i), i)
  BY <1>2 DEF Order, Unsettled
<1>5. \A i \in 1 .. Live - 1 : Parent(i) = at => InOrder(at', i)
  BY <1>1, <1>2 DEF Order
<1>6. ASSUME NEW i \in 1 .. Live' - 1, ~Unsettled(i)'  PROVE InOrder(Parent(i), i)'
  <2>1. /\ i \in 1 .. Live - 1 /\ i \in 0 .. len - 1
        /\ Parent(i) \in 0 .. len - 1 /\ Parent(i) < i /\ i # at'
    <3>1. i \in 1 .. Live - 1 /\ i # at'
      BY <1>1, <1>2, <1>6 DEF Unsettled
    <3> QED BY <3>1, LiveSlots
  <2>2. CASE i = at
    <3>1. slot'[Parent(i)] = slot[at] /\ slot'[i] = slot[at']
      BY <2>2, <1>1, <1>3
    <3> QED BY <3>1, <1>1, <1>2, PrioNat DEF InOrder, Less, Basic
  <2>3. CASE Parent(i) = at
    BY <2>1, <2>3, <1>2, <1>3, <1>5 DEF InOrder
  <2>4. CASE i # at /\ Parent(i) = at'
    <3>1. InOrder(at', i)
      BY <2>1, <2>4, <1>4
    <3>2. slot'[Parent(i)] = slot[at] /\ slot'[i] = slot[i]
      BY <2>1, <2>4, <1>3
    <3> QED BY <3>1, <3>2, <2>1, <1>1, <1>2, PrioNat DEF InOrder, Less, Basic
  <2>5. CASE i # at /\ Parent(i) # at /\ Parent(i) # at'
    BY <2>1, <2>5, <1>2, <1>3, <1>4 DEF InOrder
  <2> QED BY <2>2, <2>3, <2>4, <2>5
<1>7. ASSUME at' # 0, NEW i \in 1 .. Live' - 1, Parent(i) = at'
      PROVE InOrder(Parent(at), i)'
  <2>1. i \in 1 .. Live - 1 /\ i \in 0 .. len - 1 /\ at' < i
    BY <1>1, <1>7, LiveSlots
  <2>2. at' \in 1 .. Live - 1 /\ Parent(at') \in 0 .. len - 1 /\ Parent(at') < at'
    BY <1>1, <1>7, LiveSlots
  <2>3. InOrder(Parent(at'), at')
    BY <2>2, <1>1, <1>4
  <2>4. slot'[Parent(at')] = slot[Parent(at')]
    BY <2>2, <1>1, <1>3
  <2>5. Parent(at)' = Parent(at')
    BY DEF Parent
  <2>6. CASE i = at
    BY <2>3, <2>4, <2>5, <2>6, <1>2, <1>3 DEF InOrder
  <2>7. CASE i # at
    <3>1. InOrder(at', i) /\ slot'[i] = slot[i]
      BY <2>1, <2>7, <1>3, <1>4, <1>7
    <3> QED BY <3>1, <2>1, <2>2, <2>3, <2>4, <2>5, <1>1, <1>2, PrioNat DEF InOrder, Basic
  <2> QED BY <2>6, <2>7
<1> QED
  BY <1>6, <1>7 DEF Order

LEMMA OrderDownEnd ==
    ASSUME Basic, Order, DownEnd
    PROVE  Order'
<1>1. /\ pc = "down" /\ slot' = slot /\ prio' = prio /\ at' = at /\ op' = op
      /\ at \in Nat /\ root <= at /\ root \in Nat /\ bound = Live /\ bound <= len
      /\ len \in Nat /\ len' = len /\ bound \in Nat
      /\ pc' \in {"up", "idle", "cut"}
      /\ pc' = "up" <=> at = root /\ op # "pop"
      /\ op = "pop" => root = 0
  BY DEF DownEnd, Finish, Basic, Control, TypeOK, Live
<1>2. Live' = Live
  BY <1>1 DEF DownEnd, Finish, Live
<1>3. ASSUME NEW i \in 1 .. Live - 1, Parent(i) = at  PROVE InOrder(at, i)
  <2>1. i \in Nat \ {0} /\ i \in 0 .. len - 1 /\ at \in 0 .. len - 1 /\ i < bound
    BY <1>1, <1>3, LiveSlots
  <2>2. i = 2 * at + 1 \/ i = 2 * at + 2
    BY <2>1, <1>3, ParentFacts
  <2>3. 2 * at + 1 < bound
    BY <2>1, <2>2, <1>1
  <2>4. Child(at) \in 0 .. bound - 1 /\ InOrder(Child(at), i)
    BY <2>3, <1>1, <1>3, ChildFacts DEF Basic
  <2>5. ~Less(Child(at), at)
    BY <2>3 DEF DownEnd, SinksTo, Child
  <2>6. Child(at) \in 0 .. len - 1
    BY <2>4, <1>1
  <2> QED BY <2>1, <2>4, <2>5, <2>6, PrioNat DEF InOrder, Less, Basic
<1>4. ASSUME NEW i \in 1 .. Live' - 1, ~Unsettled(i)'  PROVE InOrder(Parent(i), i)'
  <2>1. i \in 1 .. Live - 1
    BY <1>2
  <2>2. CASE Parent(i) = at
    BY <2>1, <2>2, <1>1, <1>3 DEF InOrder
  <2>3. CASE Parent(i) # at
    <3>1. ~Unsettled(i)
      BY <2>1, <2>3, <1>1, <1>4 DEF Unsettled
    <3> QED BY <2>1, <3>1, <1>1 DEF Order, InOrder
  <2> QED BY <2>2, <2>3
<1>5. ASSUME at' # 0, NEW i \in 1 .. Live' - 1, Parent(i) = at'
      PROVE InOrder(Parent(at), i)'
  BY <1>1, <1>2, <1>5 DEF Order, InOrder
<1> QED
  BY <1>4, <1>5 DEF Order

LEMMA OrderUpEnd ==
    ASSUME Basic, Order, UpEnd
    PROVE  Order'
<1>1. /\ pc = "up" /\ slot' = slot /\ prio' = prio /\ pc' \in {"idle", "cut"}
      /\ Live' = Live /\ at \in Nat /\ (at # 0 => ~Less(at, Parent(at)))
  BY DEF UpEnd, Finish, Basic, TypeOK, Live
<1>2. ASSUME NEW i \in 1 .. Live' - 1  PROVE InOrder(Parent(i), i)'
  <2>1. i \in 1 .. Live - 1 /\ i \in 0 .. len - 1 /\ Parent(i) \in 0 .. len - 1
    BY <1>1, LiveSlots
  <2>2. CASE i = at
    BY <2>1, <2>2, <1>1, PrioNat DEF InOrder, Less, Basic
  <2>3. CASE i # at
    BY <2>1, <2>3, <1>1 DEF Order, Unsettled, InOrder
  <2> QED BY <2>2, <2>3
<1> QED
  BY <1>1, <1>2 DEF Order

LEMMA OrderCut ==
    ASSUME Basic, Order, Cut
    PROVE  Order'
<1>1. Ordered /\ Live = len - 1 /\ Live' = Live /\ pc' = "idle" /\ prio' = prio
  BY IdleOrder DEF Cut, Live, Basic, Control
<1>2. \A i \in 0 .. len - 2 : slot'[i] = slot[i]
  BY DEF Cut
<1>3. ASSUME NEW i \in 1 .. Live' - 1  PROVE InOrder(Parent(i), i)'
  <2>1. i \in 1 .. Live - 1 /\ i \in 0 .. Live - 1 /\ Parent(i) \in 0 .. Live - 1
        /\ len \in Nat
    BY <1>1, LiveSlots
  <2> QED BY <2>1, <1>1, <1>2 DEF Ordered, InOrder
<1> QED
  BY <1>1, <1>3 DEF Order

-----------------------------------------------------------------------------
(* The timer that SafePop returns is an earliest one.                         *)

LEMMA MinLastSafePop ==
    ASSUME Basic, Order, SafePop
    PROVE  MinLast'
<1>1. Ordered /\ Live = len /\ len' = len /\ prio' = prio /\ len \in Nat /\ len > 0
      /\ 0 \in 0 .. len - 1 /\ len - 1 \in 0 .. len - 1
  BY IdleOrder DEF SafePop, Live, Basic, TypeOK
<1>2. \A i \in 0 .. len - 1 : InOrder(0, i)
  BY <1>1, HeadIsLeast DEF Ordered, Basic
<1>3. slot'[0] = slot[len - 1] /\ slot'[len - 1] = slot[0]
      /\ \A i \in 0 .. len - 1 : i # 0 /\ i # len - 1 => slot'[i] = slot[i]
  BY <1>1, SwapFacts DEF SafePop, Basic
<1>4. ASSUME NEW i \in 0 .. len' - 2  PROVE InOrder(len - 1, i)'
  BY <1>1, <1>2, <1>3 DEF InOrder
<1> QED
  BY <1>4 DEF MinLast

LEMMA MinLastDownSwap ==
    ASSUME Basic, MinLast, DownSwap
    PROVE  MinLast'
<1>1. pc # "idle" /\ op' = op /\ len' = len /\ prio' = prio /\ len \in Nat
  BY DEF DownSwap, Basic, TypeOK
<1>2. SUFFICES ASSUME op = "pop", NEW i \in 0 .. len - 2  PROVE InOrder(len - 1, i)'
  BY <1>1 DEF MinLast
<1>3. /\ at \in 0 .. len - 2 /\ at' \in 0 .. len - 2
      /\ at \in 0 .. len - 1 /\ at' \in 0 .. len - 1 /\ Swap(at, at')
  <2>1. Live = len - 1
    BY <1>1, <1>2 DEF Live
  <2> QED BY <2>1, <1>1, DownSwapFacts
<1>4. slot'[at] = slot[at'] /\ slot'[at'] = slot[at]
      /\ \A k \in 0 .. len - 1 : k # at /\ k # at' => slot'[k] = slot[k]
  BY <1>3, SwapFacts DEF Basic
<1>5. \A k \in 0 .. len - 2 : InOrder(len - 1, k)
  BY <1>1, <1>2 DEF MinLast
<1>6. slot'[len - 1] = slot[len - 1]
  BY <1>1, <1>3, <1>4
<1>7. \E k \in 0 .. len - 2 : slot'[i] = slot[k]
  BY <1>1, <1>3, <1>4
<1> QED
  BY <1>1, <1>5, <1>6, <1>7 DEF InOrder

-----------------------------------------------------------------------------
(* The inductive invariant.                                                   *)

LEMMA InvInit == Init => Inv
<1>1. Init => Order /\ MinLast
  BY DEF Init, Order, MinLast, Live, Unsettled
<1> QED
  BY <1>1, BasicInit DEF Inv

LEMMA InvStep == Inv /\ [Next]_vars => Inv'
<1> SUFFICES ASSUME Inv, [Next]_vars PROVE Inv'
  OBVIOUS
<1> USE DEF Inv
<1>1. Basic'
  BY BasicStep
<1>2. Order' /\ MinLast'
  <2>1. CASE \E x \in Items, p \in Times : Insert(x, p) \/ Update(x, p)
    <3>1. PICK x \in Items, p \in Times : Insert(x, p) \/ Update(x, p)
      BY <2>1
    <3>2. op' # "pop"
      BY <3>1 DEF Insert, Update
    <3> QED BY <3>1, <3>2, OrderInsert, OrderUpdate DEF MinLast
  <2>2. CASE SafePop
    BY <2>2, OrderSafePop, MinLastSafePop
  <2>3. CASE \E x \in Items : SafeRemove(x)
    <3>1. PICK x \in Items : SafeRemove(x)
      BY <2>3
    <3>2. op' # "pop"
      BY <3>1 DEF SafeRemove
    <3> QED BY <3>1, <3>2, OrderSafeRemove DEF MinLast
  <2>4. CASE DownSwap
    BY <2>4, OrderDownSwap, MinLastDownSwap
  <2>5. CASE DownEnd
    <3>1. MinLast'
      BY <2>5 DEF DownEnd, MinLast, InOrder
    <3> QED BY <2>5, <3>1, OrderDownEnd
  <2>6. CASE UpSwap
    <3>1. op' # "pop"
      BY <2>6 DEF UpSwap, Basic, Control
    <3> QED BY <2>6, <3>1, OrderUpSwap DEF MinLast
  <2>7. CASE UpEnd
    <3>1. MinLast'
      BY <2>7 DEF UpEnd, MinLast, InOrder
    <3> QED BY <2>7, <3>1, OrderUpEnd
  <2>8. CASE Cut
    BY <2>8, OrderCut DEF Cut, MinLast
  <2>9. CASE UNCHANGED vars
    BY <2>9 DEF Order, MinLast, Unsettled, InOrder, Live, Parent, vars
  <2> QED
    BY <2>1, <2>2, <2>3, <2>4, <2>5, <2>6, <2>7, <2>8, <2>9 DEF Next, Sift
<1> QED
  BY <1>1, <1>2

LEMMA Invariance == Spec => []Inv
<1>1. Init => Inv
  BY InvInit
<1>2. Inv /\ [Next]_vars => Inv'
  BY InvStep
<1> QED
  BY <1>1, <1>2, PTL DEF Spec

-----------------------------------------------------------------------------
(* Results.                                                                   *)

(* Types: no timer's position lies outside the heap, whatever the operations. *)
THEOREM HeapTypeCorrect == Spec => []TypeOK
<1>1. Inv => TypeOK
  BY DEF Inv, Basic
<1> QED
  BY <1>1, Invariance, PTL

(* Swap, Push and Pop keep the positions of all timers right, between and     *)
(* inside operations.                                                         *)
THEOREM PositionsAgree == Spec => []IndexConsistent
<1>1. Inv => IndexConsistent
  BY DEF Inv, Basic
<1> QED
  BY <1>1, Invariance, PTL

(* Between operations the head of the heap is an earliest timer.              *)
THEOREM HeadEarliest == Spec => []HeadIsEarliest
<1>1. Inv => HeadIsEarliest
  <2> SUFFICES ASSUME Inv, pc = "idle", NEW i \in 0 .. len - 1  PROVE ~Less(i, 0)
    BY DEF HeadIsEarliest
  <2>1. Ordered /\ Live = len /\ TypeOK /\ 0 \in 0 .. len - 1
    BY IdleOrder DEF Inv, Basic, TypeOK, Live
  <2>2. InOrder(0, i)
    BY <2>1, HeadIsLeast DEF Ordered
  <2> QED BY <2>1, <2>2, PrioNat DEF InOrder, Less
<1> QED
  BY <1>1, Invariance, PTL

\* The timers in the heap.
Armed == {x \in Items : index[x] # -1}

(* A step of the heap is an operation on the abstract set of timers or        *)
(* changes nothing of it.                                                     *)
LEMMA StepRefines ==
    ASSUME Inv, [Next]_vars
    PROVE  [Abstract!Next]_<<Armed, prio, popped>>
<1> USE DEF Inv, Basic
<1>1. CASE \E x \in Items, p \in Times : Insert(x, p) \/ Update(x, p)
  <2>1. PICK x \in Items, p \in Times : Insert(x, p) \/ Update(x, p)
    BY <1>1
  <2>2. Armed' = Armed \cup {x}
    BY <2>1 DEF Insert, Update, Armed, TypeOK
  <2>3. prio' = [prio EXCEPT ![x] = p] /\ popped' = popped
    BY <2>1 DEF Insert, Update
  <2>4. Abstract!Arm(x, p)
    BY <2>2, <2>3 DEF Abstract!Arm, Armed
  <2> QED BY <2>4 DEF Abstract!Next
<1>2. CASE Cut
  <2>1. len - 1 \in 0 .. len - 1 /\ len \in Nat
    BY <1>2 DEF Cut, Control, TypeOK
  <2>0. PICK z \in Items : z = slot[len - 1]
    BY <2>1 DEF TypeOK
  <2>2. z \in Items /\ index[z] = len - 1 /\ z \in Armed
    BY <2>0, <2>1 DEF TypeOK, IndexConsistent, Armed
  <2>3. Armed' = Armed \ {z} /\ prio' = prio
    BY <1>2, <2>0, <2>2 DEF Cut, Armed, TypeOK
  <2>4. CASE op = "pop"
    <3>1. popped' = z
      BY <1>2, <2>0, <2>4 DEF Cut
    <3>2. ASSUME NEW y \in Armed  PROVE prio[z] <= prio[y]
      <4>1. index[y] \in 0 .. len - 1 /\ slot[index[y]] = y
        BY DEF Armed, TypeOK, IndexConsistent
      <4>2. CASE index[y] = len - 1
        BY <4>1, <4>2, <2>0, <2>1, PrioNat
      <4>3. CASE index[y] \in 0 .. len - 2
        BY <4>1, <4>3, <1>2, <2>0, <2>4 DEF MinLast, InOrder, Cut
      <4> QED BY <4>1, <4>2, <4>3, <2>1
    <3>3. Abstract!PopEarliest(z)
      BY <2>2, <2>3, <3>1, <3>2 DEF Abstract!PopEarliest, Armed
    <3> QED BY <2>2, <3>3 DEF Abstract!Next
  <2>5. CASE op # "pop"
    <3>1. popped' = popped
      BY <1>2, <2>5 DEF Cut
    <3>2. Abstract!Disarm(z)
      BY <2>2, <2>3, <3>1 DEF Abstract!Disarm, Armed
    <3> QED BY <2>2, <3>2 DEF Abstract!Next
  <2> QED BY <2>4, <2>5
<1>3. CASE SafePop \/ (\E x \in Items : SafeRemove(x)) \/ DownSwap \/ UpSwap
  <2>1. \A x \in Items : index'[x] = -1 <=> index[x] = -1
    <3>1. CASE SafePop
      <4>1. 0 \in 0 .. len - 1 /\ len - 1 \in 0 .. len - 1 /\ Swap(0, len - 1)
        BY <3>1 DEF SafePop, TypeOK
      <4> QED BY <4>1, SwapFacts
    <3>2. CASE \E x \in Items : SafeRemove(x)
      <4>1. PICK x \in Items : SafeRemove(x)
        BY <3>2
      <4>2. index[x] \in 0 .. len - 1 /\ len - 1 \in 0 .. len - 1
        BY <4>1 DEF SafeRemove, TypeOK
      <4>3. index' = index \/ Swap(index[x], len - 1)
        BY <4>1 DEF SafeRemove
      <4> QED BY <4>2, <4>3, SwapFacts
    <3>3. CASE DownSwap
      <4>1. at \in 0 .. len - 1 /\ at' \in 0 .. len - 1 /\ Swap(at, at')
        BY <3>3, DownSwapFacts, LiveSlots
      <4> QED BY <4>1, SwapFacts
    <3>4. CASE UpSwap
      <4>1. at \in 0 .. len - 1 /\ at' \in 0 .. len - 1 /\ Swap(at', at)
        BY <3>4, UpSwapFacts, LiveSlots
      <4> QED BY <4>1, SwapFacts
    <3> QED BY <1>3, <3>1, <3>2, <3>3, <3>4
  <2>2. prio' = prio /\ popped' = popped
    BY <1>3 DEF SafePop, SafeRemove, DownSwap, UpSwap
  <2> QED BY <2>1, <2>2 DEF Armed
<1>4. CASE DownEnd \/ UpEnd \/ UNCHANGED vars
  BY <1>4 DEF DownEnd, UpEnd, Armed, vars
<1> QED
  BY <1>1, <1>2, <1>3, <1>4 DEF Next, Sift

(* The heap is a set of timers whose pop returns an earliest one.             *)
THEOREM PopsInOrder == Spec => PopsEarliest
<1>1. Init => Abstract!Init
  BY DEF Init, Abstract!Init
<1>2. Inv /\ [Next]_vars => [Abstract!Next]_<<Armed, prio, popped>>
  BY StepRefines
<1> QED
  BY <1>1, <1>2, Invariance, PTL DEF Spec, PopsEarliest, Abstract!Spec, Armed
=============================================================================
