---------------------------- MODULE TxTimestamp -----------------------------
(***************************************************************************)
(* Reading the TX timestamp of each packet from the error queue of its     *)
(* socket (ReadTXtimestampBuf, timestamp_linux.go).  A stamp may come      *)
(* late, when the read that wanted it has given up, or not at all; stamps  *)
(* carry nothing that says which packet they belong to.                    *)
(***************************************************************************)
EXTENDS Integers, Sequences

CONSTANTS MaxTXTS,      \* maxTXTS, the attempts of one read
          MaxPackets    \* bound on the packets sent

ASSUME TxAssumption == MaxTXTS \in Nat \ {0} /\ MaxPackets \in Nat

Packet == 1..MaxPackets
NoStamp == 0
Failed == -1

VARIABLES
  sent,        \* packets sent so far
  pending,     \* packets whose stamp the card has not delivered
  errQueue,    \* the socket's error queue: stamps, named by their packets
  reading,     \* a read is going on, for packet sent
  attempts, found,
  result,      \* what the read of each packet returned
  inTime       \* packets whose stamp came while it was being read

txVars == <<sent, pending, errQueue, reading, attempts, found, result, inTime>>

TxInit ==
  /\ sent = 0 /\ pending = {} /\ errQueue = <<>>
  /\ reading = FALSE /\ attempts = 0 /\ found = NoStamp
  /\ result = [n \in Packet |-> [stamp |-> NoStamp, attempts |-> 0]]
  /\ inTime = {}

\* A packet is sent and its stamp asked for.
SendPacket ==
  /\ ~reading /\ sent < MaxPackets
  /\ sent' = sent + 1 /\ pending' = pending \cup {sent'}
  /\ reading' = TRUE /\ attempts' = 0 /\ found' = NoStamp
  /\ UNCHANGED <<errQueue, result, inTime>>

\* The kernel queues a stamp; those of earlier packets are lost.
Arrive(n) ==
  /\ n \in pending
  /\ errQueue' = Append(errQueue, n)
  /\ pending' = {m \in pending : m > n}
  /\ inTime' = IF reading /\ n = sent THEN inTime \cup {n} ELSE inTime
  /\ UNCHANGED <<sent, reading, attempts, found, result>>

\* Mutant: the loop runs once too often.
AttemptOneMore ==
  /\ reading /\ attempts <= MaxTXTS
  /\ IF errQueue = <<>>
     THEN found = NoStamp /\ UNCHANGED <<found, errQueue>>
     ELSE found' = Head(errQueue) /\ errQueue' = Tail(errQueue)
  /\ attempts' = attempts + 1
  /\ UNCHANGED <<sent, pending, reading, result, inTime>>

\* Mutant: the stamp is looked at and left in the queue (MSG_PEEK).
AttemptPeeks ==
  /\ reading /\ attempts < MaxTXTS
  /\ IF errQueue = <<>> THEN found = NoStamp /\ UNCHANGED found
                        ELSE found' = Head(errQueue)
  /\ attempts' = attempts + 1
  /\ UNCHANGED <<sent, pending, errQueue, reading, result, inTime>>

\* Mutant: an attempt that finds nothing is not counted.
AttemptUncounted ==
  /\ reading /\ attempts < MaxTXTS /\ errQueue # <<>>
  /\ found' = Head(errQueue) /\ errQueue' = Tail(errQueue)
  /\ attempts' = attempts + 1
  /\ UNCHANGED <<sent, pending, reading, result, inTime>>

\* One turn of the loop: a stamp replaces the one found before it.
Attempt ==
  /\ reading /\ attempts < MaxTXTS
  /\ IF errQueue = <<>>
     THEN found = NoStamp /\ UNCHANGED <<found, errQueue>>
     ELSE found' = Head(errQueue) /\ errQueue' = Tail(errQueue)
  /\ attempts' = attempts + 1
  /\ UNCHANGED <<sent, pending, reading, result, inTime>>

\* Mutant: the first stamp found is returned, the queue is not drained.
ReadReturnsFirst ==
  /\ reading
  /\ attempts = MaxTXTS \/ found # NoStamp
  /\ result' = [result EXCEPT ![sent] =
                  [stamp |-> IF found = NoStamp THEN Failed ELSE found,
                   attempts |-> attempts]]
  /\ reading' = FALSE
  /\ UNCHANGED <<sent, pending, errQueue, attempts, found, inTime>>

\* The queue is empty after a stamp, or the attempts are used up.
ReadReturns ==
  /\ reading
  /\ attempts = MaxTXTS \/ (errQueue = <<>> /\ found # NoStamp)
  /\ result' = [result EXCEPT ![sent] =
                  [stamp |-> IF found = NoStamp THEN Failed ELSE found,
                   attempts |-> attempts]]
  /\ reading' = FALSE
  /\ UNCHANGED <<sent, pending, errQueue, attempts, found, inTime>>

TxNext == SendPacket \/ (\E n \in Packet : Arrive(n)) \/ Attempt \/ ReadReturns
TxFairness == WF_txVars(Attempt \/ ReadReturns)
TxSpec == TxInit /\ [][TxNext]_txVars

-----------------------------------------------------------------------------
TxTypeOK ==
  /\ sent \in 0..MaxPackets /\ pending \subseteq 1..sent
  /\ errQueue \in Seq(Packet) /\ reading \in BOOLEAN
  /\ attempts \in 0..MaxTXTS /\ found \in 0..sent
  /\ result \in [Packet -> [stamp : Failed..MaxPackets, attempts : 0..MaxTXTS]]
  /\ inTime \subseteq 1..sent

Stamp(n) == result[n].stamp

\* A packet gets the stamp of another only after some read before it failed,
\* and stamps never go backwards or to two packets (the shifted queue that the
\* comment at timestamp_linux.go:235 is about).
ShiftNeedsFailure ==
  \A n \in Packet : Stamp(n) > 0 =>
    /\ Stamp(n) <= n
    /\ \A m \in 1..(n - 1) : Stamp(m) < Stamp(n)
    /\ Stamp(n) # n => \E m \in 1..(n - 1) : Stamp(m) = Failed

\* A stamp that comes while its packet is being read is that packet's result,
\* whatever older stamps wait in front of it, unless the attempts are used up.
OwnStampFound ==
  \A n \in inTime : Stamp(n) # NoStamp /\ result[n].attempts < MaxTXTS => Stamp(n) = n

\* A read returns, with or without a stamp.
ReadEnds == reading ~> ~reading
=============================================================================
