---------------------------- MODULE CodecProofs ----------------------------
(***************************************************************************)
(* Proofs about SignalingCodec: what is written is read back, whatever the *)
(* number and the types of the TLVs; and what the sequence operators used  *)
(* by Pipeline return.                                                     *)
(*                                                                         *)
(* A recursive function is one that satisfies its equation, if there is    *)
(* one: each is first shown to exist, by least counterexample.             *)
(***************************************************************************)
EXTENDS SignalingCodec, SequencesExt, SequenceTheorems, WellFoundedInduction, TLAPS

(* A set of natural numbers has a least one.                                  *)
LEMMA LeastNumber ==
    ASSUME NEW T, T \subseteq Nat, T # {}
    PROVE  \E x \in T : \A y \in T : x <= y
<1> DEFINE R == OpToRel(<, Nat)
<1>1. IsWellFoundedOn(R, Nat)
  BY NatLessThanWellFounded
<1>2. PICK x \in T : \A y \in T : ~ (<<y, x>> \in R)
  <2> HIDE DEF R
  <2> QED BY <1>1, WFMin
<1>3. \A y \in T : y < x => <<y, x>> \in R
  BY DEF OpToRel
<1> HIDE DEF R
<1>4. \A y \in T : ~ (y < x)
  BY <1>2, <1>3
<1>5. \A y \in T : x <= y
  BY <1>4, SMT
<1> QED
  BY <1>5

LEMMA MinIsLeast ==
    ASSUME NEW T, T \subseteq Nat, T # {}
    PROVE  Min(T) \in T /\ \A y \in T : Min(T) <= y
BY LeastNumber DEF Min

(* A set that has 1, and the next of each of its numbers below n, has all the *)
(* numbers from 1 to n.                                                       *)
LEMMA UpTo ==
    ASSUME NEW n \in Nat, NEW G, 1 \in G, \A k \in 1..(n - 1) : k \in G => k + 1 \in G
    PROVE  \A k \in 1..n : k \in G
<1> DEFINE Bad == {k \in 1..n : k \notin G}
<1>1. SUFFICES ASSUME Bad # {} PROVE FALSE
  OBVIOUS
<1>2. PICK k \in Bad : \A y \in Bad : k <= y
  <2>1. Bad \subseteq Nat
    OBVIOUS
  <2> HIDE DEF Bad
  <2> QED BY <1>1, <2>1, LeastNumber
<1>3. k \in 2..n /\ k - 1 \in 1..(n - 1) /\ k = (k - 1) + 1 /\ ~(k <= k - 1)
  BY <1>2
<1>4. k - 1 \in G
  BY <1>2, <1>3
<1>5. k \in G
  BY <1>3, <1>4
<1> QED
  BY <1>2, <1>5

-----------------------------------------------------------------------------
(* Offsets.                                                                   *)

(* The offsets of the TLVs satisfy the equation that defines them.            *)
LEMMA OffsetEquation ==
    ASSUME NEW tlvs \in Seq(WrittenTlv)
    PROVE  /\ TlvOffset(tlvs, 1) = HeaderSize + PortIdentitySize
           /\ \A k \in DOMAIN tlvs :
                TlvOffset(tlvs, k + 1) =
                  TlvOffset(tlvs, k) + TlvHeadSize + TlvBody[tlvs[k].type]
<1> DEFINE N == Len(tlvs) + 1
           Rhs(f, k) == IF k = 1 THEN HeaderSize + PortIdentitySize
                        ELSE f[k - 1] + TlvHeadSize + TlvBody[tlvs[k - 1].type]
           G == {m \in 1..N : \E f : f = [k \in 1..m |-> Rhs(f, k)]}
<1>1. N \in Nat /\ N >= 1
  OBVIOUS
<1>2. 1 \in G
  <2> DEFINE f == [k \in 1..1 |-> HeaderSize + PortIdentitySize]
  <2>1. f = [k \in 1..1 |-> Rhs(f, k)]
    OBVIOUS
  <2>2. 1 \in 1..N
    BY <1>1
  <2> QED BY <2>1, <2>2
<1>3. ASSUME NEW m \in 1..(N - 1), m \in G PROVE m + 1 \in G
  <2>1. m \in Nat /\ m >= 1 /\ m + 1 \in 1..N
    BY <1>1
  <2>2. PICK g : g = [k \in 1..m |-> Rhs(g, k)]
    BY <1>3
  <2> DEFINE f == [k \in 1..(m + 1) |-> IF k = m + 1 THEN Rhs(g, k) ELSE g[k]]
  <2>3. ASSUME NEW k \in 1..(m + 1) PROVE f[k] = Rhs(f, k)
    <3>1. CASE k = 1
      BY <2>1, <2>2, <3>1
    <3>2. CASE k # 1
      <4>1. k - 1 \in 1..m /\ k - 1 \in 1..(m + 1) /\ k - 1 # m + 1
        BY <2>1, <3>2
      <4>2. f[k - 1] = g[k - 1]
        BY <4>1
      <4>3. f[k] = Rhs(g, k)
        <5>1. CASE k = m + 1
          BY <5>1
        <5>2. CASE k # m + 1
          <6>1. k \in 1..m
            BY <2>1, <5>2
          <6> QED BY <2>2, <5>2, <6>1
        <5> QED BY <5>1, <5>2
      <4> HIDE DEF f
      <4> QED BY <4>2, <4>3
    <3> QED BY <3>1, <3>2
  <2>4. f = [k \in 1..(m + 1) |-> f[k]]
    OBVIOUS
  <2>5. f = [k \in 1..(m + 1) |-> Rhs(f, k)]
    <3> HIDE DEF f, Rhs
    <3> QED BY <2>3, <2>4
  <2> HIDE DEF f, Rhs
  <2> QED BY <2>1, <2>5
<1>4. N \in G
  <2>1. \A k \in 1..(N - 1) : k \in G => k + 1 \in G
    BY <1>3
  <2> HIDE DEF G
  <2>2. \A k \in 1..N : k \in G
    <3> HIDE DEF N
    <3> QED BY <1>1, <1>2, <2>1, UpTo
  <2> QED BY <1>1, <2>2
<1> DEFINE offset == CHOOSE f : f = [k \in 1..N |-> Rhs(f, k)]
<1>5. offset = [k \in 1..N |-> Rhs(offset, k)]
  <2>1. \E f : f = [k \in 1..N |-> Rhs(f, k)]
    BY <1>4
  <2> HIDE DEF Rhs, N
  <2> QED BY <2>1
<1>6. \A k : TlvOffset(tlvs, k) = offset[k]
  BY DEF TlvOffset
<1>7. \A k \in 1..N : offset[k] = Rhs(offset, k)
  <2> HIDE DEF offset, Rhs, N
  <2> QED BY <1>5
<1> HIDE DEF offset
<1>8. TlvOffset(tlvs, 1) = HeaderSize + PortIdentitySize
  <2>1. 1 \in 1..N
    <3> HIDE DEF N
    <3> QED BY <1>1
  <2>2. offset[1] = HeaderSize + PortIdentitySize
    BY <1>7, <2>1
  <2> QED BY <1>6, <2>2
<1>9. ASSUME NEW k \in DOMAIN tlvs
      PROVE  TlvOffset(tlvs, k + 1) = TlvOffset(tlvs, k) + TlvHeadSize + TlvBody[tlvs[k].type]
  <2>1. k \in 1..Len(tlvs) /\ k + 1 \in 1..N /\ k + 1 # 1 /\ (k + 1) - 1 = k
    BY <1>9
  <2>2. offset[k + 1] = offset[k] + TlvHeadSize + TlvBody[tlvs[k].type]
    BY <1>7, <2>1
  <2> QED BY <1>6, <2>2
<1> QED BY <1>8, <1>9

(* Later TLVs start later, after the head of each earlier one.                *)
LEMMA OffsetsGrow ==
    ASSUME NEW tlvs \in Seq(WrittenTlv)
    PROVE  \A k \in 1..(Len(tlvs) + 1) :
             /\ TlvOffset(tlvs, k) \in Nat
             /\ TlvOffset(tlvs, k) >= HeaderSize + PortIdentitySize
             /\ \A i \in 1..(k - 1) :
                  TlvOffset(tlvs, i) \in Nat /\ TlvOffset(tlvs, i) + TlvHeadSize <= TlvOffset(tlvs, k)
<1> DEFINE N == Len(tlvs) + 1
           Good(k) == /\ TlvOffset(tlvs, k) \in Nat
                      /\ TlvOffset(tlvs, k) >= HeaderSize + PortIdentitySize
                      /\ \A i \in 1..(k - 1) :
                           /\ TlvOffset(tlvs, i) \in Nat
                           /\ TlvOffset(tlvs, i) + TlvHeadSize <= TlvOffset(tlvs, k)
           G == {k \in 1..N : Good(k)}
<1>1. N \in Nat /\ N >= 1
  OBVIOUS
<1>2. 1 \in G
  <2>1. Good(1)
    BY OffsetEquation DEF HeaderSize, PortIdentitySize
  <2> HIDE DEF Good
  <2> QED BY <1>1, <2>1
<1>3. ASSUME NEW k \in 1..(N - 1), k \in G PROVE k + 1 \in G
  <2>1. k \in 1..Len(tlvs) /\ k \in DOMAIN tlvs /\ k + 1 \in 1..N
    OBVIOUS
  <2>2. TlvBody[tlvs[k].type] \in Nat
    <3>1. tlvs[k] \in WrittenTlv
      BY <2>1
    <3>2. tlvs[k].type \in {"request", "grant", "cancel", "ack"}
      BY <3>1 DEF WrittenTlv, TlvBody
    <3> QED BY <3>2 DEF TlvBody
  <2>3. TlvOffset(tlvs, k + 1) = TlvOffset(tlvs, k) + TlvHeadSize + TlvBody[tlvs[k].type]
    BY <2>1, OffsetEquation
  <2>4. Good(k)
    BY <1>3
  <2>5. ASSUME NEW i \in 1..k 
        PROVE  TlvOffset(tlvs, i) \in Nat /\ TlvOffset(tlvs, i) + TlvHeadSize <= TlvOffset(tlvs, k + 1)
    <3>1. CASE i = k
      BY <2>2, <2>3, <2>4, <3>1 DEF TlvHeadSize
    <3>2. CASE i # k
      <4>1. i \in 1..(k - 1)
        BY <2>1, <3>2
      <4>2. TlvOffset(tlvs, i) \in Nat /\ TlvOffset(tlvs, i) + TlvHeadSize <= TlvOffset(tlvs, k)
        BY <2>4, <4>1
      <4>3. i \in 1..N
        BY <2>1
      <4> QED BY <2>2, <2>3, <2>4, <4>2 DEF TlvHeadSize
    <3> QED BY <3>1, <3>2
  <2>6. TlvOffset(tlvs, k + 1) \in Nat /\ TlvOffset(tlvs, k + 1) >= HeaderSize + PortIdentitySize
    BY <2>2, <2>3, <2>4 DEF HeaderSize, PortIdentitySize, TlvHeadSize
  <2>7. (k + 1) - 1 = k
    BY <2>1
  <2>8. Good(k + 1)
    BY <2>5, <2>6, <2>7
  <2> HIDE DEF Good
  <2> QED BY <2>1, <2>8
<1>4. \A k \in 1..(N - 1) : k \in G => k + 1 \in G
  BY <1>3
<1>5. \A k \in 1..N : k \in G
  <2> HIDE DEF G, N
  <2> QED BY <1>1, <1>2, <1>4, UpTo
<1> QED
  BY <1>5

-----------------------------------------------------------------------------
(* Reading.                                                                   *)

(* Reading from an offset satisfies the equation that defines it: every head  *)
(* moves it forward, and it ends at MessageLength.                            *)
LEMMA ReadEquation ==
    ASSUME NEW b, b.messageLength \in Nat, \A p \in DOMAIN b.at : b.at[p].length \in Nat,
           NEW pos \in Nat
    PROVE  TlvsFrom(b, pos) =
             IF pos + TlvHeadSize > b.messageLength THEN <<>>
             ELSE IF pos \notin DOMAIN b.at THEN <<Error>>
             ELSE <<b.at[pos]>> \o TlvsFrom(b, pos + TlvHeadSize + b.at[pos].length)
<1> DEFINE L == b.messageLength
           After(p) == p + TlvHeadSize + b.at[p].length
           Rhs(f, p) == IF p + TlvHeadSize > L THEN <<>>
                        ELSE IF p \notin DOMAIN b.at THEN <<Error>>
                        ELSE <<b.at[p]>> \o f[After(p)]
           From(n) == {p \in Nat : p > L - n}
           G == {n \in 1..(L + 1) : \E f : f = [p \in From(n) |-> Rhs(f, p)]}
<1>1. L \in Nat
  OBVIOUS
<1>2. 1 \in G
  <2> DEFINE f == [p \in From(1) |-> <<>>]
  <2>1. ASSUME NEW p \in From(1) PROVE Rhs(f, p) = <<>>
    <3>1. p + TlvHeadSize > L
      BY <1>1 DEF TlvHeadSize
    <3> QED BY <3>1
  <2>2. f = [p \in From(1) |-> Rhs(f, p)]
    <3> HIDE DEF From, Rhs
    <3> QED BY <2>1
  <2>3. 1 \in 1..(L + 1)
    BY <1>1
  <2> QED BY <2>2, <2>3
<1>3. ASSUME NEW n \in 1..L, n \in G PROVE n + 1 \in G
  <2>1. n \in Nat /\ n + 1 \in 1..(L + 1)
    BY <1>1
  <2>2. PICK g : g = [p \in From(n) |-> Rhs(g, p)]
    BY <1>3
  <2> DEFINE f == [p \in From(n + 1) |-> Rhs(g, p)]
  <2>3. ASSUME NEW p \in From(n + 1) PROVE Rhs(g, p) = Rhs(f, p)
    <3>1. SUFFICES ASSUME ~(p + TlvHeadSize > L), p \in DOMAIN b.at
                   PROVE  g[After(p)] = f[After(p)]
      BY DEF Rhs
    <3>2. After(p) \in From(n) /\ After(p) \in From(n + 1)
      BY <1>1, <2>1, <3>1 DEF TlvHeadSize
    <3> HIDE DEF From, Rhs, After
    <3>3. g[After(p)] = Rhs(g, After(p))
      BY <2>2, <3>2
    <3>4. f[After(p)] = Rhs(g, After(p))
      BY <3>2
    <3> QED BY <3>3, <3>4
  <2>4. f = [p \in From(n + 1) |-> Rhs(f, p)]
    <3>1. \A h : (\A p \in From(n + 1) : Rhs(g, p) = Rhs(h, p))
                   => [p \in From(n + 1) |-> Rhs(g, p)] = [p \in From(n + 1) |-> Rhs(h, p)]
      <4> HIDE DEF From, Rhs
      <4> QED OBVIOUS
    <3> QED BY <2>3, <3>1
  <2>5. \E h : h = [p \in From(n + 1) |-> Rhs(h, p)]
    <3> HIDE DEF f, From, Rhs
    <3> QED BY <2>4
  <2> QED BY <2>1, <2>5
<1>4. L + 1 \in G
  <2> HIDE DEF G, L
  <2>1. (L + 1) - 1 = L
    BY <1>1
  <2>2. \A n \in 1..((L + 1) - 1) : n \in G => n + 1 \in G
    BY <1>3, <2>1
  <2>3. \A n \in 1..(L + 1) : n \in G
    BY <1>1, <1>2, <2>2, UpTo
  <2> QED BY <1>1, <2>3
<1>5. From(L + 1) = Nat
  BY <1>1
<1> DEFINE read == CHOOSE f : f = [p \in Nat |-> Rhs(f, p)]
<1>6. read = [p \in Nat |-> Rhs(read, p)]
  <2>1. \E f : f = [p \in From(L + 1) |-> Rhs(f, p)]
    BY <1>4
  <2>2. \E f : f = [p \in Nat |-> Rhs(f, p)]
    <3> HIDE DEF Rhs, From
    <3> QED BY <1>5, <2>1
  <2> HIDE DEF Rhs
  <2> QED BY <2>2
<1>7. \A p : TlvsFrom(b, p) = read[p]
  BY DEF TlvsFrom
<1>8. read[pos] = Rhs(read, pos)
  <2> HIDE DEF read, Rhs
  <2> QED BY <1>6
<1> HIDE DEF read
<1> QED BY <1>7, <1>8

(* The TLVs of a message, read from the first on, are the ones written.       *)
LEMMA ReadsTlvs ==
    ASSUME NEW tlvs \in Seq(WrittenTlv), NEW b,
           b.messageLength = TlvOffset(tlvs, Len(tlvs) + 1),
           DOMAIN b.at = {TlvOffset(tlvs, i) : i \in DOMAIN tlvs},
           \A i \in DOMAIN tlvs : b.at[TlvOffset(tlvs, i)] = tlvs[i]
    PROVE  TlvsFrom(b, HeaderSize + PortIdentitySize) = tlvs
<1> DEFINE N == Len(tlvs) + 1
           Good(n) == TlvsFrom(b, TlvOffset(tlvs, N + 1 - n)) = SubSeq(tlvs, N + 1 - n, Len(tlvs))
           G == {n \in 1..N : Good(n)}
<1>1. N \in Nat /\ N >= 1 /\ DOMAIN tlvs = 1..Len(tlvs) /\ Len(tlvs) \in Nat
  OBVIOUS
<1>2. b.messageLength \in Nat
  BY <1>1, OffsetsGrow
<1>3. \A i \in DOMAIN tlvs : tlvs[i].length \in Nat /\ tlvs[i].length = TlvBody[tlvs[i].type]
  <2>1. \A i \in DOMAIN tlvs : tlvs[i] \in WrittenTlv
    OBVIOUS
  <2> QED BY <2>1 DEF WrittenTlv
<1>4. \A p \in DOMAIN b.at : b.at[p].length \in Nat
  BY <1>3
<1>5. 1 \in G
  <2>1. TlvOffset(tlvs, N) \in Nat
    BY <1>1, OffsetsGrow
  <2>2. TlvOffset(tlvs, N) + TlvHeadSize > b.messageLength
    BY <2>1 DEF TlvHeadSize
  <2>3. TlvsFrom(b, TlvOffset(tlvs, N)) = <<>>
    BY <1>2, <1>4, <2>1, <2>2, ReadEquation
  <2>4. SubSeq(tlvs, N, Len(tlvs)) = <<>>
    BY <1>1, SubSeqEmpty
  <2>5. N + 1 - 1 = N /\ 1 \in 1..N
    BY <1>1
  <2> HIDE DEF N
  <2>6. Good(1)
    BY <2>3, <2>4, <2>5
  <2> QED BY <2>5, <2>6
<1>6. ASSUME NEW n \in 1..(N - 1), n \in G PROVE n + 1 \in G
  <2> DEFINE k == N - n
  <2>1. /\ k \in 1..Len(tlvs) /\ k \in DOMAIN tlvs /\ N + 1 - n = k + 1 /\ N + 1 - (n + 1) = k
        /\ n + 1 \in 1..N /\ k + 1 \in 1..N /\ k \in 1..((k + 1) - 1) /\ Len(tlvs) \in k..Len(tlvs)
        /\ k \in 1..N
    BY <1>1
  <2> HIDE DEF k
  <2>2. TlvsFrom(b, TlvOffset(tlvs, k + 1)) = SubSeq(tlvs, k + 1, Len(tlvs))
    <3>1. Good(n)
      BY <1>6
    <3> QED BY <2>1, <3>1
  <2>3. /\ TlvOffset(tlvs, k) \in Nat /\ TlvOffset(tlvs, k + 1) \in Nat
        /\ TlvOffset(tlvs, k + 1) = TlvOffset(tlvs, k) + TlvHeadSize + TlvBody[tlvs[k].type]
    BY <2>1, OffsetsGrow, OffsetEquation
  <2>4. TlvOffset(tlvs, k) + TlvHeadSize <= b.messageLength
    <3>1. N \in 1..N
      BY <1>1
    <3>2. k \in 1..(N - 1)
      BY <1>1, <2>1
    <3> HIDE DEF N
    <3>3. \A m \in 1..N : \A i \in 1..(m - 1) :
            TlvOffset(tlvs, i) + TlvHeadSize <= TlvOffset(tlvs, m)
      BY OffsetsGrow DEF N
    <3> QED BY <3>1, <3>2, <3>3 DEF N
  <2>5. TlvOffset(tlvs, k) \in DOMAIN b.at /\ b.at[TlvOffset(tlvs, k)] = tlvs[k]
    BY <2>1
  <2>6. TlvOffset(tlvs, k) + TlvHeadSize + b.at[TlvOffset(tlvs, k)].length = TlvOffset(tlvs, k + 1)
    BY <1>3, <2>1, <2>3, <2>5
  <2>7. ~(TlvOffset(tlvs, k) + TlvHeadSize > b.messageLength)
    BY <1>2, <2>3, <2>4 DEF TlvHeadSize
  <2>8. TlvsFrom(b, TlvOffset(tlvs, k)) =
          <<tlvs[k]>> \o TlvsFrom(b, TlvOffset(tlvs, k + 1))
    <3>1. TlvsFrom(b, TlvOffset(tlvs, k)) =
            <<b.at[TlvOffset(tlvs, k)]>>
              \o TlvsFrom(b, TlvOffset(tlvs, k) + TlvHeadSize + b.at[TlvOffset(tlvs, k)].length)
      BY <1>2, <1>4, <2>3, <2>5, <2>7, ReadEquation
    <3> QED BY <2>5, <2>6, <3>1
  <2>9. SubSeq(tlvs, k, Len(tlvs)) = <<tlvs[k]>> \o SubSeq(tlvs, k + 1, Len(tlvs))
    BY <2>1, SubSeqRecursiveFirst
  <2>10. Good(n + 1)
    BY <2>1, <2>2, <2>8, <2>9
  <2> HIDE DEF Good, N
  <2> QED BY <2>1, <2>10
<1>7. N \in G
  <2>1. \A n \in 1..(N - 1) : n \in G => n + 1 \in G
    BY <1>6
  <2> HIDE DEF G, N
  <2>2. \A n \in 1..N : n \in G
    BY <1>1, <1>5, <2>1, UpTo
  <2> QED BY <1>1, <2>2
<1>8. N + 1 - N = 1
  BY <1>1
<1>9. TlvsFrom(b, TlvOffset(tlvs, 1)) = SubSeq(tlvs, 1, Len(tlvs))
  <2>1. Good(N)
    BY <1>7
  <2> HIDE DEF N
  <2> QED BY <1>8, <2>1
<1> QED
  BY <1>9, OffsetEquation, SubSeqFull

(* What is decoded is what was written: for every message whose lengths are   *)
(* right, whatever its number of TLVs, FromBytes inverts Bytes.               *)
THEOREM DecodesWhatWasWritten == ASSUME NEW m, IsMessage(m) PROVE FromBytes(Bytes(m)) = m
<1>1. CASE \E k \in DOMAIN FixedBody :
             m = [kind |-> k, seq |-> m.seq, messageLength |-> HeaderSize + FixedBody[k]]
  <2>1. PICK k \in DOMAIN FixedBody :
          m = [kind |-> k, seq |-> m.seq, messageLength |-> HeaderSize + FixedBody[k]]
    BY <1>1
  <2>2. k # "signaling" /\ FixedBody[k] \in Nat /\ m.kind = k
    BY <2>1 DEF FixedBody
  <2>3. Bytes(m) = [kind |-> m.kind, seq |-> m.seq, messageLength |-> m.messageLength,
                    bytes |-> HeaderSize + FixedBody[m.kind] + 2, at |-> <<>>]
    BY <2>2 DEF Bytes
  <2>4. ~(HeaderSize + FixedBody[m.kind] + 2 < HeaderSize + FixedBody[m.kind])
    BY <2>2 DEF HeaderSize
  <2>5. FromBytes(Bytes(m)) = [kind |-> m.kind, seq |-> m.seq, messageLength |-> m.messageLength]
    BY <2>2, <2>3, <2>4 DEF FromBytes
  <2> QED BY <2>1, <2>2, <2>5
<1>2. CASE /\ m.tlvs \in Seq(WrittenTlv) \ {<<>>}
           /\ m = [kind |-> "signaling", seq |-> m.seq, tlvs |-> m.tlvs,
                   messageLength |-> TlvOffset(m.tlvs, Len(m.tlvs) + 1)]
  <2> DEFINE tlvs == m.tlvs
             b == Bytes(m)
             place(pos) == CHOOSE i \in DOMAIN tlvs : TlvOffset(tlvs, i) = pos
  <2>1. /\ tlvs \in Seq(WrittenTlv) /\ tlvs # <<>> /\ m.kind = "signaling"
        /\ DOMAIN tlvs = 1..Len(tlvs) /\ Len(tlvs) \in Nat /\ Len(tlvs) >= 1
    BY <1>2
  <2>2. b = [kind |-> m.kind, seq |-> m.seq, messageLength |-> m.messageLength,
             bytes |-> TlvOffset(tlvs, Len(tlvs) + 1) + 2,
             at |-> [pos \in {TlvOffset(tlvs, i) : i \in DOMAIN tlvs} |-> tlvs[place(pos)]]]
    BY <2>1 DEF Bytes
  <2>3. ASSUME NEW i \in DOMAIN tlvs PROVE place(TlvOffset(tlvs, i)) = i
    <3>1. \A j, k \in DOMAIN tlvs : j < k => TlvOffset(tlvs, j) # TlvOffset(tlvs, k)
      <4> SUFFICES ASSUME NEW j \in DOMAIN tlvs, NEW k \in DOMAIN tlvs, j < k
                   PROVE  TlvOffset(tlvs, j) # TlvOffset(tlvs, k)
        OBVIOUS
      <4>1. k \in 1..(Len(tlvs) + 1) /\ j \in 1..(k - 1)
        BY <2>1
      <4> HIDE DEF tlvs
      <4>2. /\ TlvOffset(tlvs, j) \in Nat /\ TlvOffset(tlvs, k) \in Nat
            /\ TlvOffset(tlvs, j) + TlvHeadSize <= TlvOffset(tlvs, k)
        BY <2>1, <4>1, OffsetsGrow
      <4> QED BY <4>2 DEF TlvHeadSize
    <3>2. \A j \in DOMAIN tlvs : TlvOffset(tlvs, j) = TlvOffset(tlvs, i) => j = i
      <4> HIDE DEF tlvs
      <4>1. \A j \in DOMAIN tlvs : j \in Int
        BY <2>1
      <4>2. \A j \in DOMAIN tlvs : j < i \/ i < j \/ j = i
        BY <4>1
      <4> QED BY <3>1, <4>2
    <3> HIDE DEF tlvs
    <3> QED BY <3>2
  <2>4. TlvsFrom(b, HeaderSize + PortIdentitySize) = tlvs
    <3>1. b.messageLength = TlvOffset(tlvs, Len(tlvs) + 1)
      BY <1>2, <2>2
    <3> HIDE DEF tlvs, b, place
    <3>2. DOMAIN b.at = {TlvOffset(tlvs, i) : i \in DOMAIN tlvs}
      BY <2>2
    <3>3. \A i \in DOMAIN tlvs : b.at[TlvOffset(tlvs, i)] = tlvs[i]
      BY <2>2, <2>3
    <3> QED BY <2>1, <3>1, <3>2, <3>3, ReadsTlvs
  <2>5. \A i \in DOMAIN tlvs : tlvs[i] # Error
    <3>1. \A i \in DOMAIN tlvs : tlvs[i] \in WrittenTlv
      BY <2>1
    <3>2. \A t \in WrittenTlv : t # Error
      BY DEF WrittenTlv, Error
    <3> QED BY <3>1, <3>2
  <2>6. ~(b.bytes < HeaderSize + PortIdentitySize + TlvHeadSize)
    <3> HIDE DEF tlvs
    <3>1. 1 \in 1..((Len(tlvs) + 1) - 1) /\ Len(tlvs) + 1 \in 1..(Len(tlvs) + 1)
      BY <2>1
    <3>2. /\ TlvOffset(tlvs, 1) + TlvHeadSize <= TlvOffset(tlvs, Len(tlvs) + 1)
          /\ TlvOffset(tlvs, Len(tlvs) + 1) \in Nat
      BY <2>1, <3>1, OffsetsGrow
    <3>3. TlvOffset(tlvs, 1) = HeaderSize + PortIdentitySize
      BY <2>1, OffsetEquation
    <3> QED BY <2>2, <3>2, <3>3 DEF HeaderSize, PortIdentitySize, TlvHeadSize
  <2>7. b.kind = "signaling" /\ b.seq = m.seq /\ b.messageLength = m.messageLength
    BY <2>1, <2>2
  <2>8. FromBytes(b) = [kind |-> b.kind, seq |-> b.seq, messageLength |-> b.messageLength,
                        tlvs |-> tlvs]
    <3> HIDE DEF b, tlvs
    <3> QED BY <2>1, <2>4, <2>5, <2>6, <2>7 DEF FromBytes
  <2>9. m = [kind |-> "signaling", seq |-> m.seq, messageLength |-> m.messageLength, tlvs |-> m.tlvs]
    BY <1>2
  <2> HIDE DEF b
  <2>10. FromBytes(b) = m
    BY <2>7, <2>8, <2>9
  <2> QED BY <2>10 DEF b
<1> QED
  BY <1>1, <1>2 DEF IsMessage

-----------------------------------------------------------------------------
(* Concatenation.                                                             *)

(* A concatenation of sequences over S is a sequence over S.                  *)
LEMMA FlattenType ==
    ASSUME NEW S, NEW seqs \in Seq(Seq(S))
    PROVE  FlattenSeq(seqs) \in Seq(S)
<1> DEFINE N == Len(seqs)
           Rhs(f, k) == IF k = 1 THEN seqs[k] ELSE f[k - 1] \o seqs[k]
           G == {m \in 1..N : \E f : f = [k \in 1..m |-> Rhs(f, k)]}
<1>1. CASE N = 0
  <2>1. seqs = <<>>
    BY <1>1, EmptySeq
  <2> QED BY <1>1, <2>1 DEF FlattenSeq
<1>2. CASE N # 0
  <2>1. N \in Nat /\ N >= 1 /\ 1 \in 1..N /\ N \in 1..N
    BY <1>2
  <2>2. 1 \in G
    <3> DEFINE f == [k \in 1..1 |-> seqs[k]]
    <3>1. f = [k \in 1..1 |-> Rhs(f, k)]
      OBVIOUS
    <3> QED BY <2>1, <3>1
  <2>3. ASSUME NEW m \in 1..(N - 1), m \in G PROVE m + 1 \in G
    <3>1. m \in Nat /\ m >= 1 /\ m + 1 \in 1..N
      BY <2>1
    <3>2. PICK g : g = [k \in 1..m |-> Rhs(g, k)]
      BY <2>3
    <3> DEFINE f == [k \in 1..(m + 1) |-> IF k = m + 1 THEN Rhs(g, k) ELSE g[k]]
    <3>3. ASSUME NEW k \in 1..(m + 1) PROVE f[k] = Rhs(f, k)
      <4>1. CASE k = 1
        BY <3>1, <3>2, <4>1
      <4>2. CASE k # 1
        <5>1. k - 1 \in 1..m /\ k - 1 \in 1..(m + 1) /\ k - 1 # m + 1
          BY <3>1, <4>2
        <5>2. f[k - 1] = g[k - 1]
          BY <5>1
        <5>3. f[k] = Rhs(g, k)
          <6>1. CASE k = m + 1
            BY <6>1
          <6>2. CASE k # m + 1
            <7>1. k \in 1..m
              BY <3>1, <6>2
            <7> QED BY <3>2, <6>2, <7>1
          <6> QED BY <6>1, <6>2
        <5> HIDE DEF f
        <5> QED BY <5>2, <5>3
      <4> QED BY <4>1, <4>2
    <3>4. f = [k \in 1..(m + 1) |-> f[k]]
      OBVIOUS
    <3>5. f = [k \in 1..(m + 1) |-> Rhs(f, k)]
      <4> HIDE DEF f, Rhs
      <4> QED BY <3>3, <3>4
    <3> HIDE DEF f, Rhs
    <3> QED BY <3>1, <3>5
  <2>4. N \in G
    <3>1. \A k \in 1..(N - 1) : k \in G => k + 1 \in G
      BY <2>3
    <3> HIDE DEF G, N
    <3>2. \A k \in 1..N : k \in G
      BY <2>1, <2>2, <3>1, UpTo
    <3> QED BY <2>1, <3>2
  <2> DEFINE flatten == CHOOSE f : f = [k \in 1..N |-> Rhs(f, k)]
  <2>5. flatten = [k \in 1..N |-> Rhs(flatten, k)]
    <3>1. \E f : f = [k \in 1..N |-> Rhs(f, k)]
      BY <2>4
    <3> HIDE DEF Rhs, N
    <3> QED BY <3>1
  <2>6. FlattenSeq(seqs) = flatten[N]
    BY <1>2 DEF FlattenSeq
  <2>7. \A k \in 1..N : flatten[k] = Rhs(flatten, k)
    <3> HIDE DEF flatten, Rhs, N
    <3> QED BY <2>5
  <2> HIDE DEF flatten
  <2> DEFINE T == {k \in 1..N : flatten[k] \in Seq(S)}
  <2>8. \A k \in 1..N : seqs[k] \in Seq(S)
    OBVIOUS
  <2>9. 1 \in T
    BY <2>1, <2>7, <2>8
  <2>10. ASSUME NEW k \in 1..(N - 1), k \in T PROVE k + 1 \in T
    <3>1. k + 1 \in 1..N /\ k + 1 # 1 /\ (k + 1) - 1 = k
      BY <2>1
    <3>2. flatten[k + 1] = flatten[k] \o seqs[k + 1]
      BY <2>7, <3>1
    <3>3. flatten[k] \in Seq(S) /\ seqs[k + 1] \in Seq(S)
      BY <2>8, <2>10, <3>1
    <3>4. flatten[k + 1] \in Seq(S)
      <4> HIDE DEF N, T
      <4> QED BY <3>2, <3>3, ConcatProperties
    <3> QED BY <3>1, <3>4
  <2>11. N \in T
    <3>1. \A k \in 1..(N - 1) : k \in T => k + 1 \in T
      BY <2>10
    <3> HIDE DEF T, N
    <3>2. \A k \in 1..N : k \in T
      BY <2>1, <2>9, <3>1, UpTo
    <3> QED BY <2>1, <3>2
  <2> QED BY <2>6, <2>11
<1> QED
  BY <1>1, <1>2
=============================================================================
