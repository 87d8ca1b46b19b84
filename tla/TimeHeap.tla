------------------------------ MODULE TimeHeap ------------------------------
(* timeHeap: the binary heap of timers a retransmit or restart processor      *)
(* owns. Each timer knows its position, so that an operation can reach it in  *)
(* the middle of the heap. The sifting of container/heap, which the methods   *)
(* call, is modelled one comparison at a time.                                *)
EXTENDS Integers

CONSTANTS
    Items,      \* the timeItems
    Times,      \* the priorities, points in time
    NoItem

ASSUME TimesAssumption == Times \subseteq Nat /\ Times # {}
ASSUME NoItemAssumption == NoItem \notin Items

VARIABLES
    len,        \* h.Len()
    slot,       \* slot[i]: h.Items[i], i from 0
    index,      \* index[x]: x.index, -1 when x is not in the heap
    prio,       \* prio[x]: x.priority
    pc,         \* the loop of container/heap that runs, or idle
    op,         \* the call it runs for: fix (Push and Fix), pop or remove
    at,         \* the position being sifted
    root,       \* where down started
    bound,      \* the positions down may use are below bound
    popped      \* what the last SafePop returned

vars == <<len, slot, index, prio, pc, op, at, root, bound, popped>>

Init ==
    /\ len = 0
    /\ slot = [i \in 0 .. -1 |-> NoItem]
    /\ index = [x \in Items |-> -1]
    /\ prio \in [Items -> Times]
    /\ pc = "idle" /\ op = "fix"
    /\ at = 0 /\ root = 0 /\ bound = 0
    /\ popped = NoItem

Less(i, j) == prio[slot[i]] < prio[slot[j]]

Parent(i) == (i - 1) \div 2

\* The child of i that down compares with i.
Child(i) ==
    IF 2 * i + 2 < bound /\ Less(2 * i + 2, 2 * i + 1) THEN 2 * i + 2 ELSE 2 * i + 1

\* Mutant: only one of the two positions is written back.
SwapOneIndex(i, j) ==
    /\ slot' = [slot EXCEPT ![i] = slot[j], ![j] = slot[i]]
    /\ index' = [index EXCEPT ![slot[i]] = j]

Swap(i, j) ==
    /\ slot' = [slot EXCEPT ![i] = slot[j], ![j] = slot[i]]
    /\ index' = [index EXCEPT ![slot[i]] = j, ![slot[j]] = i]

-----------------------------------------------------------------------------
(* The methods the processors call.                                           *)

\* SafeUpdate or SafePush of a timer that is not in the heap: Push, then up.
Insert(x, p) ==
    /\ pc = "idle"
    /\ index[x] = -1
    /\ slot' = [i \in 0 .. len |-> IF i = len THEN x ELSE slot[i]]
    /\ len' = len + 1
    /\ index' = [index EXCEPT ![x] = len]
    /\ prio' = [prio EXCEPT ![x] = p]
    /\ pc' = "up" /\ op' = "fix" /\ at' = len
    /\ UNCHANGED <<root, bound, popped>>

\* Mutant: Update stores the time and does not call Fix.
UpdateNoFix(x, p) ==
    /\ pc = "idle"
    /\ index[x] # -1
    /\ prio' = [prio EXCEPT ![x] = p]
    /\ UNCHANGED <<len, slot, index, pc, op, at, root, bound, popped>>

\* SafeUpdate or SafePush of a timer in the heap: Update, which calls Fix.
Update(x, p) ==
    /\ pc = "idle"
    /\ index[x] # -1
    /\ prio' = [prio EXCEPT ![x] = p]
    /\ pc' = "down" /\ op' = "fix"
    /\ at' = index[x] /\ root' = index[x] /\ bound' = len
    /\ UNCHANGED <<len, slot, index, popped>>

\* Mutant: SafePop calls the heap's own Pop instead of heap.Pop.
SafePopRaw ==
    /\ pc = "idle"
    /\ len > 0
    /\ pc' = "cut" /\ op' = "pop"
    /\ UNCHANGED <<len, slot, index, prio, at, root, bound, popped>>

\* SafePop; the processors peek first and never pop an empty heap.
SafePop ==
    /\ pc = "idle"
    /\ len > 0
    /\ Swap(0, len - 1)
    /\ pc' = "down" /\ op' = "pop"
    /\ at' = 0 /\ root' = 0 /\ bound' = len - 1
    /\ UNCHANGED <<len, prio, popped>>

SafeRemove(x) ==
    /\ pc = "idle"
    /\ index[x] # -1
    /\ op' = "remove"
    /\ at' = index[x] /\ root' = index[x] /\ bound' = len - 1
    /\ IF index[x] = len - 1
       THEN pc' = "cut" /\ UNCHANGED <<slot, index>>
       ELSE pc' = "down" /\ Swap(index[x], len - 1)
    /\ UNCHANGED <<len, prio, popped>>

-----------------------------------------------------------------------------
(* container/heap. Pop and Remove end with the heap's own Pop, which cuts the *)
(* last slot off.                                                             *)

Finish == pc' = IF op = "fix" THEN "idle" ELSE "cut"

SinksTo(j) == 2 * at + 1 < bound /\ j = Child(at) /\ Less(j, at)

DownSwap ==
    /\ pc = "down"
    /\ \E j \in {2 * at + 1, 2 * at + 2} : SinksTo(j) /\ Swap(at, j) /\ at' = j
    /\ UNCHANGED <<len, prio, pc, op, root, bound, popped>>

\* Fix and Remove sift up what down did not move.
DownEnd ==
    /\ pc = "down"
    /\ \A j \in {2 * at + 1, 2 * at + 2} : ~SinksTo(j)
    /\ IF at = root /\ op # "pop" THEN pc' = "up" ELSE Finish
    /\ UNCHANGED <<len, slot, index, prio, op, at, root, bound, popped>>

UpSwap ==
    /\ pc = "up"
    /\ at # 0
    /\ Less(at, Parent(at))
    /\ Swap(Parent(at), at)
    /\ at' = Parent(at)
    /\ UNCHANGED <<len, prio, pc, op, root, bound, popped>>

UpEnd ==
    /\ pc = "up"
    /\ at # 0 => ~Less(at, Parent(at))
    /\ Finish
    /\ UNCHANGED <<len, slot, index, prio, op, at, root, bound, popped>>

\* Mutant: the timer that leaves keeps its position.
CutKeepsIndex ==
    /\ pc = "cut"
    /\ slot' = [i \in 0 .. len - 2 |-> slot[i]]
    /\ len' = len - 1
    /\ popped' = IF op = "pop" THEN slot[len - 1] ELSE popped
    /\ pc' = "idle"
    /\ UNCHANGED <<index, prio, op, at, root, bound>>

\* timeHeap.Pop.
Cut ==
    /\ pc = "cut"
    /\ slot' = [i \in 0 .. len - 2 |-> slot[i]]
    /\ index' = [index EXCEPT ![slot[len - 1]] = -1]
    /\ len' = len - 1
    /\ popped' = IF op = "pop" THEN slot[len - 1] ELSE popped
    /\ pc' = "idle"
    /\ UNCHANGED <<prio, op, at, root, bound>>

Sift == DownSwap \/ DownEnd \/ UpSwap \/ UpEnd \/ Cut

Next ==
    \/ \E x \in Items, p \in Times : Insert(x, p) \/ Update(x, p)
    \/ SafePop
    \/ \E x \in Items : SafeRemove(x)
    \/ Sift

Spec == Init /\ [][Next]_vars

-----------------------------------------------------------------------------
(* Properties.                                                                *)

(* Every variable has its type; no timer holds a position outside the heap.   *)
TypeOK ==
    /\ len \in Nat
    /\ slot \in [0 .. len - 1 -> Items]
    /\ index \in [Items -> -1 .. len - 1]
    /\ prio \in [Items -> Times]
    /\ pc \in {"idle", "down", "up", "cut"}
    /\ op \in {"fix", "pop", "remove"}
    /\ at \in Nat /\ root \in Nat /\ bound \in Nat
    /\ popped \in Items \cup {NoItem}

(* Slots and positions agree, also in the middle of a sift: a timer is in the *)
(* heap once or not at all, and its index leads to it. An operation on a wrong *)
(* index would move or remove another client's timer.                         *)
IndexConsistent ==
    /\ \A i \in 0 .. len - 1 : index[slot[i]] = i
    /\ \A x \in Items : index[x] # -1 => slot[index[x]] = x

(* Between operations no timer is earlier than the one at the head, the only   *)
(* one a processor looks at to decide whether something has expired.           *)
HeadIsEarliest ==
    pc = "idle" => \A i \in 0 .. len - 1 : ~Less(i, 0)

Abstract == INSTANCE TimerSet WITH armed <- {x \in Items : index[x] # -1}

(* The heap implements a set of timers whose pop returns an earliest one       *)
(* (timeHeap_test.go, "verify things pop in order").                           *)
PopsEarliest == Abstract!Spec
=============================================================================
