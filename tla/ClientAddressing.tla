-------------------------- MODULE ClientAddressing --------------------------
(***************************************************************************)
(* The addresses of the simulated clients: how StartClientGen walks from   *)
(* ClientIPStart to ClientIPEnd and how an address found in a packet is    *)
(* turned back into an index of the table of clients (clientData.go,       *)
(* client.go).                                                             *)
(*                                                                         *)
(* A net.IP is its 16 bytes; here it has Digits digits in base Base.  An   *)
(* IPv4 address is, as in Go, one whose leading digits are zeros and then  *)
(* a largest digit (::ffff:a.b.c.d), with V4Digits digits of its own.  An  *)
(* unsigned 64-bit integer holds HalfDigits digits.                        *)
(***************************************************************************)
EXTENDS Integers, Sequences, FiniteSetsExt

CONSTANTS Base, Digits, V4Digits, HalfDigits

ASSUME AddressAssumption ==
  /\ Base \in Nat \ {0, 1} /\ Base % 2 = 0
  /\ {Digits, V4Digits, HalfDigits} \subseteq Nat \ {0}
  /\ V4Digits <= HalfDigits /\ HalfDigits < Digits /\ V4Digits < Digits

Address == [1..Digits -> 0..(Base - 1)]

\* ip.To4() # nil
IsV4(a) == \A d \in 1..(Digits - V4Digits) :
             a[d] = IF d = Digits - V4Digits THEN Base - 1 ELSE 0

\* The unsigned integer written by the last n digits.
Number(a, n) ==
  LET value[k \in 0..n] == IF k = 0 THEN 0
                           ELSE value[k - 1] * Base + a[Digits - n + k]
  IN  value[n]

\* The number of values that n digits have.
Values[n \in 0..Digits] == IF n = 0 THEN 1 ELSE Values[n - 1] * Base

\* The number of values of a uint64.
TwoTo64 == Values[HalfDigits]

\* Mutant: the carry never leaves the last byte.
SuccessorNoCarry ==
  [a \in Address |-> [a EXCEPT ![Digits] = (@ + 1) % Base]]

\* One turn of the carry loop: the last digit that does not overflow goes up
\* and every digit after it returns to zero; all of them overflow together.
Successor ==
  [a \in Address |->
     LET free == {d \in 1..Digits : a[d] # Base - 1}
         carry == IF free = {} THEN 0 ELSE Max(free)
     IN  [d \in 1..Digits |-> IF d < carry THEN a[d]
                              ELSE IF d = carry THEN a[d] + 1 ELSE 0]]

\* Both branches of NextIP carry through all 16 bytes.
NextIP(a, step) ==
  LET after[j \in 0..step] == IF j = 0 THEN a ELSE Successor[after[j - 1]]
  IN  after[step]

\* bytes.Compare(a, b) <= 0
AtMost(a, b) == \/ a = b
                \/ \E d \in 1..Digits : /\ a[d] < b[d]
                                        /\ \A e \in 1..(d - 1) : a[e] = b[e]

\* Only the families of the two ends are compared, not the tested address's.
IpBetween(from, to, test) ==
  /\ IsV4(from) <=> IsV4(to)
  /\ AtMost(from, test) /\ AtMost(test, to)

\* a - b: 32 bits when both are IPv4, else the low 64 bits of the 128-bit
\* difference; 0 and an error when a is below b.
IpSubtract(a, b) ==
  LET n == IF IsV4(a) /\ IsV4(b) THEN V4Digits ELSE Digits
      x == Number(a, n)
      y == Number(b, n)
  IN  IF x < y THEN [diff |-> 0, err |-> TRUE]
               ELSE [diff |-> (x - y) % TwoTo64, err |-> FALSE]

\* The loop that makes the table of clients.  Table[i + 1] is the address of
\* the client with index i.
ClientTable(from, to, step) ==
  LET ip[k \in 0..Values[Digits]] == IF k = 0 THEN from ELSE NextIP(ip[k - 1], step)
      length == CHOOSE n \in 0..Values[Digits] :
                  /\ ~IpBetween(from, to, ip[n])
                  /\ \A k \in 0..(n - 1) : IpBetween(from, to, ip[k])
  IN  [i \in 1..length |-> ip[i - 1]]

\* Not an index: no index is as large.
NoClient == TwoTo64

\* Mutant: the length itself passes the comparison with it.
GetClientFromIPToLength(table, step, ip) ==
  LET diff == IpSubtract(ip, table[1]).diff
      index == diff \div step
  IN  IF (~IsV4(table[1]) /\ IsV4(ip)) \/ diff % step # 0 \/ index > Len(table)
      THEN NoClient
      ELSE index

\* The index of the client an address belongs to.  The error of ipSubtract is
\* dropped, so that an address below the first has distance 0, and the
\* quotient becomes a signed integer before it is compared with the length.
GetClientFromIP(table, step, ip) ==
  LET diff == IpSubtract(ip, table[1]).diff
      quotient == diff \div step
      index == IF quotient >= TwoTo64 \div 2 THEN quotient - TwoTo64 ELSE quotient
  IN  IF \/ ~IsV4(table[1]) /\ IsV4(ip)
         \/ diff % step # 0
         \/ index >= Len(table)
      THEN NoClient
      ELSE index
=============================================================================
