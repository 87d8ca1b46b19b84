------------------------------ MODULE TimerSet ------------------------------
(* What a timer heap promises to its processor: it holds a set of armed       *)
(* timers, each with a time; a timer can be armed, moved or disarmed, and the *)
(* one that is popped is an earliest one.                                     *)
EXTENDS Naturals

CONSTANTS
    Items,      \* the timers
    Times,      \* the points in time they are armed for
    NoItem      \* nothing was popped yet

VARIABLES
    armed,      \* the timers that are armed
    prio,       \* prio[x]: the time timer x was last armed for
    popped      \* the timer popped last

Init ==
    /\ armed = {}
    /\ prio \in [Items -> Times]
    /\ popped = NoItem

Arm(x, p) ==
    /\ armed' = armed \cup {x}
    /\ prio' = [prio EXCEPT ![x] = p]
    /\ UNCHANGED popped

Disarm(x) ==
    /\ x \in armed
    /\ armed' = armed \ {x}
    /\ UNCHANGED <<prio, popped>>

PopEarliest(x) ==
    /\ x \in armed
    /\ \A y \in armed : prio[x] <= prio[y]
    /\ armed' = armed \ {x}
    /\ popped' = x
    /\ UNCHANGED prio

Next ==
    \E x \in Items :
        \/ \E p \in Times : Arm(x, p)
        \/ Disarm(x)
        \/ PopEarliest(x)

Spec == Init /\ [][Next]_<<armed, prio, popped>>
=============================================================================
