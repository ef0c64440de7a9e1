----------------------------- MODULE WireProofs -----------------------------
(***************************************************************************)
(* The headers and the bytes of packets.  First one header: its rewrites,  *)
(* for every address and every payload size a 16-bit length can hold; the  *)
(* checksum stays opaque there, since no other field depends on it.        *)
(*                                                                         *)
(* Then one exchange: the cells of Packet say of the bytes what is true,   *)
(* and an address is the same after it has been text, for every payload    *)
(* size, pair of messages, client, server and cut.                         *)
(***************************************************************************)
EXTENDS IpHeader, Wire, WellFoundedInduction, TLAPS

-----------------------------------------------------------------------------
(* One header *)

\* A second change of byte order undoes the first.
LEMMA SwapTwice ==
  ASSUME NEW n \in Word
  PROVE  Swap(n) \in Word /\ Swap(Swap(n)) = n
<1>. DEFINE low == n % 256
            high == n \div 256
<1>1. low \in 0..255 /\ high \in 0..255 /\ n = high * 256 + low
  BY DEF Word
<1>2. Swap(n) = low * 256 + high
  BY DEF Swap
<1>. HIDE DEF low, high
<1>3. Swap(n) \in Word
  <2>1. low * 256 + high \in Nat
    BY <1>1, SMT
  <2>2. low * 256 + high <= 65535
    BY <1>1, SMT
  <2>. QED
    BY <1>2, <2>1, <2>2 DEF Word
<1>4. (low * 256 + high) % 256 = high /\ (low * 256 + high) \div 256 = low
  BY <1>1
<1>. QED
  BY <1>1, <1>2, <1>3, <1>4 DEF Swap

LEMMA SwapLongTwice ==
  ASSUME NEW a \in Word \X Word
  PROVE  SwapLong(a) \in Word \X Word /\ SwapLong(SwapLong(a)) = a
<1>1. a[1] \in Word /\ a[2] \in Word /\ a = <<a[1], a[2]>>
  OBVIOUS
<1>2. SwapLong(a) = <<Swap(a[2]), Swap(a[1])>>
  BY DEF SwapLong
<1>. QED
  BY <1>1, <1>2, SwapTwice DEF SwapLong

-----------------------------------------------------------------------------
\* A header of the code, whatever its checksum.
HasFields(h, rest, len, src, dst) ==
  \E sum : h = [rest |-> rest, len |-> len, sum |-> sum, src |-> src, dst |-> dst]

LEMMA SealedFields ==
  ASSUME NEW h, NEW rest, NEW len, NEW src, NEW dst, HasFields(h, rest, len, src, dst)
  PROVE  HasFields(Sealed(h), rest, len, src, dst)
<1>. DEFINE new == Swap(Cksum(IpBytes([h EXCEPT !.sum = 0])))
<1>1. Sealed(h) = [h EXCEPT !.sum = new]
  BY DEF Sealed
<1>. HIDE DEF new
<1>2. Sealed(h) = [rest |-> rest, len |-> len, sum |-> new, src |-> src, dst |-> dst]
  BY <1>1 DEF HasFields
<1>. QED
  BY <1>2 DEF HasFields

LEMMA RestoredFields ==
  ASSUME NEW h, NEW rest, NEW len \in Word, NEW src \in Word \X Word, NEW dst \in Word \X Word,
         HasFields(h, rest, Swap(len), SwapLong(src), SwapLong(dst))
  PROVE  HasFields(SealAndRestore(h), rest, len, src, dst)
<1>1. HasFields(Sealed(h), rest, Swap(len), SwapLong(src), SwapLong(dst))
  BY SealedFields
<1>. DEFINE sealed == Sealed(h)
<1>2. SealAndRestore(h) =
        [sealed EXCEPT !.src = SwapLong(@), !.dst = SwapLong(@), !.len = Swap(@)]
  BY DEF SealAndRestore
<1>. HIDE DEF sealed
<1>3. PICK sum : sealed = [rest |-> rest, len |-> Swap(len), sum |-> sum,
                           src |-> SwapLong(src), dst |-> SwapLong(dst)]
  BY <1>1 DEF HasFields, sealed
<1>4. SealAndRestore(h) = [rest |-> rest, len |-> Swap(Swap(len)), sum |-> sum,
                           src |-> SwapLong(SwapLong(src)), dst |-> SwapLong(SwapLong(dst))]
  BY <1>2, <1>3
<1>5. SealAndRestore(h) = [rest |-> rest, len |-> len, sum |-> sum, src |-> src, dst |-> dst]
  BY <1>4, SwapTwice, SwapLongTwice
<1>. QED
  BY <1>5 DEF HasFields

\* The request keeps its length and destination, the reply its length and source.
LEMMA RewriteFields ==
  ASSUME NEW h, NEW rest, NEW len \in Word, NEW src \in Word \X Word, NEW dst \in Word \X Word,
         NEW a \in Word \X Word, HasFields(h, rest, len, src, dst)
  PROVE  /\ HasFields(ServHandlePkt(h, a), rest, len, a, dst)
         /\ HasFields(ServHandlePktDest(h, a), rest, len, src, a)
<1>1. PICK sum : h = [rest |-> rest, len |-> len, sum |-> sum, src |-> src, dst |-> dst]
  BY DEF HasFields
<1>. DEFINE request == [h EXCEPT !.len = Swap(@), !.src = SwapLong(a), !.dst = SwapLong(@)]
            reply == [h EXCEPT !.len = Swap(@), !.dst = SwapLong(a), !.src = SwapLong(@)]
<1>2. /\ ServHandlePkt(h, a) = SealAndRestore(request)
      /\ ServHandlePktDest(h, a) = SealAndRestore(reply)
  BY DEF ServHandlePkt, ServHandlePktDest
<1>3. /\ request = [h EXCEPT !.len = Swap(@), !.src = SwapLong(a), !.dst = SwapLong(@)]
      /\ reply = [h EXCEPT !.len = Swap(@), !.dst = SwapLong(a), !.src = SwapLong(@)]
  OBVIOUS
<1>. HIDE DEF request, reply
<1>4. request = [rest |-> rest, len |-> Swap(len), sum |-> sum, src |-> SwapLong(a), dst |-> SwapLong(dst)]
  BY <1>1, <1>3
<1>5. reply = [rest |-> rest, len |-> Swap(len), sum |-> sum, src |-> SwapLong(src), dst |-> SwapLong(a)]
  BY <1>1, <1>3
<1>6. /\ HasFields(request, rest, Swap(len), SwapLong(a), SwapLong(dst))
      /\ HasFields(reply, rest, Swap(len), SwapLong(src), SwapLong(a))
  BY <1>4, <1>5 DEF HasFields
<1>. QED
  BY <1>2, <1>6, RestoredFields

-----------------------------------------------------------------------------
\* A header has the addresses it must have, and the length it was made with.
IpInv ==
  stage # "none" =>
    \E src, dst \in Addresses :
      /\ asked = [src |-> src, dst |-> dst]
      /\ made.len = Swap(MaxPayloadBytes + 20)
      /\ HasFields(header, made.rest, made.len, src, dst)

LEMMA LengthIsAWord == Swap(MaxPayloadBytes + 20) \in Word
BY IpAssumption, SwapTwice

LEMMA MakeKeeps ==
  ASSUME NEW src \in Addresses, NEW dst \in Addresses, Make(src, dst)
  PROVE  IpInv'
<1>. DEFINE len == Swap(MaxPayloadBytes + 20)
            h == [rest |-> NewRest, len |-> len, sum |-> 0, src |-> src, dst |-> dst]
<1>1. HasFields(h, NewRest, len, src, dst)
  BY DEF HasFields
<1>2. SetIp(src, dst) = Sealed(h)
  BY DEF SetIp
<1>. HIDE DEF h
<1>3. HasFields(SetIp(src, dst), NewRest, len, src, dst)
  BY <1>1, <1>2, SealedFields
<1>4. /\ HasFields(header', NewRest, len, src, dst) /\ made' = header'
      /\ asked' = [src |-> src, dst |-> dst]
  BY <1>3 DEF Make
<1>5. made'.len = len /\ made'.rest = NewRest
  BY <1>4 DEF HasFields
<1>. QED
  BY <1>4, <1>5 DEF IpInv

LEMMA RewriteKeeps ==
  ASSUME IpInv, NEW a \in Addresses, RewriteRequest(a) \/ RewriteReply(a)
  PROVE  IpInv'
<1>1. PICK src \in Addresses, dst \in Addresses :
        /\ asked = [src |-> src, dst |-> dst]
        /\ made.len = Swap(MaxPayloadBytes + 20)
        /\ HasFields(header, made.rest, made.len, src, dst)
  BY DEF IpInv, RewriteRequest, RewriteReply
<1>2. /\ made.len \in Word /\ a \in Word \X Word
      /\ src \in Word \X Word /\ dst \in Word \X Word
  BY <1>1, LengthIsAWord, IpAssumption
<1>3. /\ HasFields(ServHandlePkt(header, a), made.rest, made.len, a, dst)
      /\ HasFields(ServHandlePktDest(header, a), made.rest, made.len, src, a)
  BY <1>1, <1>2, RewriteFields
<1>4. CASE RewriteRequest(a)
  <2>1. /\ header' = ServHandlePkt(header, a) /\ made' = made
        /\ asked' = [src |-> a, dst |-> dst]
    BY <1>1, <1>4 DEF RewriteRequest
  <2>. QED
    BY <1>1, <1>3, <2>1 DEF IpInv
<1>5. CASE RewriteReply(a)
  <2>1. /\ header' = ServHandlePktDest(header, a) /\ made' = made
        /\ asked' = [src |-> src, dst |-> a]
    BY <1>1, <1>5 DEF RewriteReply
  <2>. QED
    BY <1>1, <1>3, <2>1 DEF IpInv
<1>. QED
  BY <1>4, <1>5

\* serv_handle_pkt and serv_handle_pkt_dest (packet.c:277-351) change one address
\* and leave all of the header but that and the checksum as it was, whatever
\* the addresses and the size of the payload.
THEOREM RewriteIsExact == IpSpec => []RewriteKeepsTheRest
<1>1. IpInit => IpInv
  BY DEF IpInit, IpInv
<1>2. IpInv /\ [IpNext]_ipVars => IpInv'
  <2>. SUFFICES ASSUME IpInv, [IpNext]_ipVars PROVE IpInv'
    OBVIOUS
  <2>1. CASE IpNext
    BY <2>1, MakeKeeps, RewriteKeeps DEF IpNext
  <2>2. CASE UNCHANGED ipVars
    BY <2>2 DEF IpInv, ipVars
  <2>. QED
    BY <2>1, <2>2
<1>3. IpInv => RewriteKeepsTheRest
  BY DEF IpInv, HasFields, RewriteKeepsTheRest
<1>. QED
  BY <1>1, <1>2, <1>3, PTL DEF IpSpec

-----------------------------------------------------------------------------
(* XOR *)

Byte == 0..255
Bit == {0, 1}

Weights == {1, 2, 4, 8, 16, 32, 64, 128}

\* The bits of a sum of bits.
LEMMA BitsOf ==
  ASSUME NEW b \in [Weights -> Bit], NEW n,
         n = b[1] + 2 * b[2] + 4 * b[4] + 8 * b[8] + 16 * b[16] + 32 * b[32] + 64 * b[64] + 128 * b[128]
  PROVE  n \in Byte /\ \A e \in Weights : (n \div e) % 2 = b[e]
<1>. DEFINE b0 == b[1]
            b1 == b[2]
            b2 == b[4]
            b3 == b[8]
            b4 == b[16]
            b5 == b[32]
            b6 == b[64]
            b7 == b[128]
<1>1. /\ b0 \in Bit /\ b1 \in Bit /\ b2 \in Bit /\ b3 \in Bit
      /\ b4 \in Bit /\ b5 \in Bit /\ b6 \in Bit /\ b7 \in Bit
  BY DEF Weights
<1>2. n = b0 + 2 * b1 + 4 * b2 + 8 * b3 + 16 * b4 + 32 * b5 + 64 * b6 + 128 * b7
  OBVIOUS
<1>. HIDE DEF b0, b1, b2, b3, b4, b5, b6, b7
<1>3. n \in Byte
  BY <1>1, <1>2 DEF Bit, Byte
<1>4. (n \div 1) % 2 = b0 /\ (n \div 2) % 2 = b1
  BY <1>1, <1>2 DEF Bit
<1>5. (n \div 4) % 2 = b2 /\ (n \div 8) % 2 = b3
  BY <1>1, <1>2 DEF Bit
<1>6. (n \div 16) % 2 = b4 /\ (n \div 32) % 2 = b5
  BY <1>1, <1>2 DEF Bit
<1>7. (n \div 64) % 2 = b6 /\ (n \div 128) % 2 = b7
  BY <1>1, <1>2 DEF Bit
<1>. QED
  BY <1>3, <1>4, <1>5, <1>6, <1>7 DEF Weights, b0, b1, b2, b3, b4, b5, b6, b7

\* A byte is the sum of its bits.
LEMMA SumOfBits ==
  ASSUME NEW n \in Byte
  PROVE  /\ \A e \in Weights : (n \div e) % 2 \in Bit
         /\ n = ((n \div 1) % 2) + 2 * ((n \div 2) % 2) + 4 * ((n \div 4) % 2) + 8 * ((n \div 8) % 2)
                + 16 * ((n \div 16) % 2) + 32 * ((n \div 32) % 2) + 64 * ((n \div 64) % 2)
                + 128 * ((n \div 128) % 2)
<1>1. ASSUME NEW e \in Weights
      PROVE  (n \div e) % 2 \in Bit
  BY DEF Byte, Bit, Weights
<1>2. n = ((n \div 1) % 2) + 2 * ((n \div 2) % 2) + 4 * ((n \div 4) % 2) + 8 * ((n \div 8) % 2)
          + 16 * ((n \div 16) % 2) + 32 * ((n \div 32) % 2) + 64 * ((n \div 64) % 2)
          + 128 * ((n \div 128) % 2)
  BY DEF Byte
<1>. QED
  BY <1>1, <1>2

\* The bits of a ^ b are the bits that differ.
LEMMA XorBits ==
  ASSUME NEW a \in Byte, NEW b \in Byte
  PROVE  /\ Xor(a, b) \in Byte
         /\ \A e \in Weights :
              (Xor(a, b) \div e) % 2 = IF (a \div e) % 2 = (b \div e) % 2 THEN 0 ELSE 1
<1>. DEFINE x == [e \in Weights |-> IF (a \div e) % 2 = (b \div e) % 2 THEN 0 ELSE 1]
            n == Xor(a, b)
<1>1. x \in [Weights -> Bit]
  BY DEF Bit
<1>2. n = x[1] + 2 * x[2] + 4 * x[4] + 8 * x[8] + 16 * x[16] + 32 * x[32] + 64 * x[64] + 128 * x[128]
  BY DEF Xor, Weights
<1>3. \A e \in Weights : x[e] = IF (a \div e) % 2 = (b \div e) % 2 THEN 0 ELSE 1
  OBVIOUS
<1>. HIDE DEF x, n
<1>4. n \in Byte /\ \A e \in Weights : (n \div e) % 2 = x[e]
  BY <1>1, <1>2, BitsOf
<1>. QED
  BY <1>3, <1>4 DEF n

\* Bytes with the same bits are the same.
LEMMA SameBits ==
  ASSUME NEW a \in Byte, NEW b \in Byte,
         \A e \in Weights : (a \div e) % 2 = (b \div e) % 2
  PROVE  a = b
<1>. DEFINE bit(n, e) == (n \div e) % 2
<1>1. /\ a = bit(a, 1) + 2 * bit(a, 2) + 4 * bit(a, 4) + 8 * bit(a, 8) + 16 * bit(a, 16)
             + 32 * bit(a, 32) + 64 * bit(a, 64) + 128 * bit(a, 128)
      /\ b = bit(b, 1) + 2 * bit(b, 2) + 4 * bit(b, 4) + 8 * bit(b, 8) + 16 * bit(b, 16)
             + 32 * bit(b, 32) + 64 * bit(b, 64) + 128 * bit(b, 128)
  BY SumOfBits
<1>2. \A e \in Weights : bit(a, e) = bit(b, e)
  OBVIOUS
<1>. HIDE DEF bit
<1>. QED
  BY <1>1, <1>2 DEF Weights

\* A second XOR undoes the first.
LEMMA XorTwice ==
  ASSUME NEW a \in Byte, NEW b \in Byte
  PROVE  Xor(a, b) \in Byte /\ Xor(Xor(a, b), b) = a
<1>. DEFINE n == Xor(a, b)
            bit(k, e) == (k \div e) % 2
<1>1. n \in Byte /\ Xor(n, b) \in Byte
  BY XorBits
<1>2. ASSUME NEW e \in Weights
      PROVE  bit(Xor(n, b), e) = bit(a, e)
  <2>1. bit(a, e) \in Bit /\ bit(b, e) \in Bit
    BY SumOfBits
  <2>2. bit(n, e) = IF bit(a, e) = bit(b, e) THEN 0 ELSE 1
    BY XorBits
  <2>3. bit(Xor(n, b), e) = IF bit(n, e) = bit(b, e) THEN 0 ELSE 1
    BY <1>1, XorBits
  <2>. HIDE DEF n, bit
  <2>. QED
    BY <2>1, <2>2, <2>3 DEF Bit
<1>. HIDE DEF n
<1>3. Xor(n, b) = a
  BY <1>1, <1>2, SameBits
<1>. QED
  BY <1>1, <1>3 DEF n

\* What XOR makes of a 0, and of what a 0.
LEMMA XorZero ==
  ASSUME NEW a \in Byte, NEW b \in Byte
  PROVE  Xor(0, b) = b /\ (Xor(a, b) = 0 <=> a = b)
<1>. DEFINE bit(k, e) == (k \div e) % 2
<1>0. 0 \in Byte /\ Xor(0, b) \in Byte
  <2>1. 0 \in Byte
    BY DEF Byte
  <2>. QED
    BY <2>1, XorTwice
<1>1. ASSUME NEW e \in Weights
      PROVE  bit(Xor(0, b), e) = bit(b, e)
  <2>1. bit(b, e) \in Bit
    BY SumOfBits
  <2>2. bit(0, e) = 0
    BY DEF Weights
  <2>3. bit(Xor(0, b), e) = IF bit(0, e) = bit(b, e) THEN 0 ELSE 1
    BY <1>0, XorBits
  <2>. HIDE DEF bit
  <2>. QED
    BY <2>1, <2>2, <2>3 DEF Bit
<1>2. Xor(0, b) = b
  BY <1>0, <1>1, SameBits
<1>3. a = b => Xor(a, b) = 0
  BY DEF Xor
<1>4. Xor(a, b) = 0 => a = b
  BY <1>2, XorTwice
<1>. QED
  BY <1>2, <1>3, <1>4

LEMMA KeyBytes ==
  ASSUME NEW i \in Nat, i > 0
  PROVE  KeyAt(i) \in Range(Key) /\ KeyAt(i) \in 1..255 /\ KeyAt(i) \in Byte
<1>1. ((i - 1) % 4) + 1 \in 1..4 /\ Len(Key) = 4
  BY DEF Key
<1>2. KeyAt(i) = Key[((i - 1) % 4) + 1]
  BY <1>1 DEF KeyAt
<1>3. \A j \in 1..4 : Key[j] \in Range(Key) /\ Key[j] \in 1..255
  BY DEF Key, Range
<1>. QED
  BY <1>1, <1>2, <1>3 DEF Byte

-----------------------------------------------------------------------------
(* Byte order *)

\* The bytes of a number, and the number they make.
LEMMA BytesOfWord ==
  ASSUME NEW n \in Word
  PROVE  /\ n % 256 \in Byte /\ n \div 256 \in Byte /\ (n % 256) + 256 * (n \div 256) = n
         /\ Bytes16(n) = <<n % 256, n \div 256>>
<1>1. n % 256 \in Byte /\ (n % 256) + 256 * (n \div 256) = n
  BY DEF Word, Byte
<1>2. n \div 256 \in Byte
  BY DEF Word, Byte
<1>. QED
  BY <1>1, <1>2 DEF Bytes16

LEMMA WordOfBytes ==
  ASSUME NEW low \in Byte, NEW high \in Byte
  PROVE  /\ low + 256 * high \in Word
         /\ (low + 256 * high) % 256 = low /\ (low + 256 * high) \div 256 = high
<1>1. low + 256 * high \in Nat /\ low + 256 * high <= 65535
  BY DEF Byte
<1>2. (low + 256 * high) % 256 = low /\ (low + 256 * high) \div 256 = high
  BY DEF Byte
<1>. QED
  BY <1>1, <1>2 DEF Word

-----------------------------------------------------------------------------
(* The checksum is 16 bits *)

\* The natural numbers are well ordered.
LEMMA LeastOf ==
  ASSUME NEW T \in SUBSET Nat, T # {}
  PROVE  \E n \in T : \A k \in T : n <= k
<1>. DEFINE R == OpToRel(<, Nat)
<1>1. IsWellFoundedOn(R, Nat)
  BY NatLessThanWellFounded
<1>. HIDE DEF R
<1>2. PICK n \in T : \A k \in T : ~(<<k, n>> \in R)
  BY <1>1, WFMin
<1>3. \A k \in T : k \in Nat /\ (k < n => <<k, n>> \in R)
  BY DEF R, OpToRel
<1>4. n \in Nat /\ \A k \in T : k \in Nat /\ ~(k < n)
  BY <1>2, <1>3
<1>. QED
  BY <1>4

\* Induction, over a set.
LEMMA AllNaturals ==
  ASSUME NEW S \in SUBSET Nat, 0 \in S, \A n \in S : n + 1 \in S
  PROVE  S = Nat
<1>. DEFINE T == Nat \ S
<1>1. SUFFICES ASSUME T # {} PROVE FALSE
  OBVIOUS
<1>2. PICK n \in T : \A k \in T : n <= k
  BY <1>1, LeastOf
<1>3. n - 1 \in S
  BY <1>2
<1>. QED
  BY <1>2, <1>3

\* A number that 16 bits do not hold, in two parts.
LEMMA Halves ==
  ASSUME NEW n \in Nat, n > 65535
  PROVE  /\ n \div 65536 \in Nat /\ n \div 65536 > 0
         /\ n % 65536 \in Nat /\ n = 65536 * (n \div 65536) + (n % 65536)
<1>1. n \div 65536 \in Nat /\ n % 65536 \in Nat
  OBVIOUS
<1>2. n = 65536 * (n \div 65536) + (n % 65536)
  OBVIOUS
<1>3. n \div 65536 > 0
  OBVIOUS
<1>. QED
  BY <1>1, <1>2, <1>3

\* One more carry, with the function that is being defined.
Carried(f, n) == IF n > 65535 THEN f[(n \div 65536) + (n % 65536)] ELSE n

\* What is left when all carries have been added back in: the remainder by 65535.
LEMMA FoldExists == \A n \in Nat : fold[n] = Carried(fold, n)
<1>. DEFINE g == [n \in Nat |-> IF n = 0 THEN 0 ELSE 1 + ((n - 1) % 65535)]
<1>1. ASSUME NEW n \in Nat
      PROVE  g[n] = IF n > 65535 THEN g[(n \div 65536) + (n % 65536)] ELSE n
  <2>1. CASE n <= 65535
    BY <2>1
  <2>2. CASE n > 65535
    <3>. DEFINE q == n \div 65536
                r == n % 65536
                m == q + r
    <3>1. q \in Nat /\ r \in Nat /\ n = 65536 * q + r /\ q > 0
      BY <2>2, Halves
    <3>. HIDE DEF q, r
    <3>2. m \in Nat /\ m > 0 /\ n - 1 = 65535 * q + (m - 1) /\ n # 0
      BY <3>1
    <3>. HIDE DEF m
    <3>3. (65535 * q + (m - 1)) % 65535 = (m - 1) % 65535
      BY <3>1, <3>2
    <3>4. g[n] = 1 + ((n - 1) % 65535) /\ g[m] = 1 + ((m - 1) % 65535)
      BY <3>2
    <3>5. g[n] = g[m]
      BY <3>2, <3>3, <3>4
    <3>. QED
      BY <2>2, <3>5 DEF m, q, r
  <2>. QED
    BY <2>1, <2>2
<1>2. \A n \in Nat : g[n] = Carried(g, n)
  BY <1>1 DEF Carried
<1>3. g = [n \in Nat |-> g[n]]
  OBVIOUS
<1>. HIDE DEF g
<1>. DEFINE Folds(f) == f = [n \in Nat |-> Carried(f, n)]
<1>4. Folds(g)
  BY <1>2, <1>3
<1>5. fold = CHOOSE f : Folds(f)
  BY DEF fold, Carried
<1>6. Folds(fold)
  <2>. HIDE DEF Folds
  <2>. QED
    BY <1>4, <1>5
<1>7. fold = [n \in Nat |-> Carried(fold, n)]
  BY <1>6
<1>. HIDE DEF Folds
<1>. QED
  BY <1>7

LEMMA FoldIsWord == \A n \in Nat : fold[n] \in Word
<1>. DEFINE T == {n \in Nat : fold[n] \notin Word}
<1>1. SUFFICES ASSUME T # {} PROVE FALSE
  OBVIOUS
<1>2. T \in SUBSET Nat
  OBVIOUS
<1>3. PICK n \in T : \A k \in T : n <= k
  <2>. HIDE DEF T
  <2>. QED
    BY <1>1, <1>2, LeastOf
<1>. DEFINE m == (n \div 65536) + (n % 65536)
<1>4. n \in Nat /\ fold[n] = IF n > 65535 THEN fold[m] ELSE n
  BY FoldExists DEF Carried
<1>5. n > 65535
  BY <1>4 DEF Word
<1>6. m \in Nat /\ m < n
  BY <1>4, <1>5
<1>7. m \notin T
  <2>. HIDE DEF T, m
  <2>. QED
    BY <1>3, <1>4, <1>6
<1>. HIDE DEF m
<1>. QED
  BY <1>4, <1>5, <1>6, <1>7

\* A sum is the end of a run through its words.
LEMMA SumIsNatural ==
  ASSUME NEW w, Len(w) \in Nat, \A i \in 1..Len(w) : w[i] \in Nat
  PROVE  WordSum(w) \in Nat
<1>. DEFINE Sums(s, n) == s = [i \in 0..n |-> IF i = 0 THEN 0 ELSE s[i - 1] + w[i]]
            S == {n \in Nat : n <= Len(w) => \E s : Sums(s, n) /\ s[n] \in Nat}
<1>1. 0 \in S
  <2>. DEFINE s == [i \in 0..0 |-> 0]
  <2>1. Sums(s, 0) /\ s[0] \in Nat
    OBVIOUS
  <2>. HIDE DEF s, Sums
  <2>2. \E t : Sums(t, 0) /\ t[0] \in Nat
    BY <2>1
  <2>. QED
    BY <2>2
<1>2. ASSUME NEW n \in S PROVE n + 1 \in S
  <2>1. SUFFICES ASSUME n + 1 <= Len(w) PROVE \E s : Sums(s, n + 1) /\ s[n + 1] \in Nat
    OBVIOUS
  <2>2. n \in Nat /\ n <= Len(w)
    BY <2>1
  <2>3. PICK s : Sums(s, n) /\ s[n] \in Nat
    BY <2>2
  <2>. DEFINE t == [i \in 0..(n + 1) |-> IF i <= n THEN s[i] ELSE s[n] + w[n + 1]]
  <2>4. \A i \in 0..n : s[i] = IF i = 0 THEN 0 ELSE s[i - 1] + w[i]
    BY <2>3
  <2>5. ASSUME NEW i \in 0..(n + 1)
        PROVE  t[i] = IF i = 0 THEN 0 ELSE t[i - 1] + w[i]
    <3>1. CASE i <= n
      <4>1. i \in 0..n /\ (i # 0 => i - 1 \in 0..(n + 1) /\ i - 1 <= n)
        BY <2>2, <3>1
      <4>. QED
        BY <2>4, <3>1, <4>1
    <3>2. CASE i = n + 1
      <4>1. i # 0 /\ ~(i <= n) /\ i - 1 = n /\ n \in 0..(n + 1) /\ n <= n
        BY <2>2, <3>2
      <4>. QED
        BY <3>2, <4>1
    <3>. QED
      BY <2>2, <3>1, <3>2
  <2>6. t[n + 1] \in Nat
    <3>1. n + 1 \in 0..(n + 1) /\ ~(n + 1 <= n) /\ n + 1 \in 1..Len(w)
      BY <2>1, <2>2
    <3>. QED
      BY <2>3, <3>1
  <2>7. Sums(t, n + 1)
    BY <2>5
  <2>. QED
    BY <2>6, <2>7
<1>. HIDE DEF S
<1>3. S = Nat
  <2>1. S \in SUBSET Nat
    BY DEF S
  <2>. QED
    BY <1>1, <1>2, <2>1, AllNaturals
<1>4. \E s : Sums(s, Len(w)) /\ s[Len(w)] \in Nat
  BY <1>3 DEF S
<1>. DEFINE sum == CHOOSE s : Sums(s, Len(w))
            T == {i \in 0..Len(w) : sum[i] \notin Nat}
<1>5. Sums(sum, Len(w))
  BY <1>4
<1>6. WordSum(w) = sum[Len(w)]
  BY DEF WordSum
<1>7. \A i \in 0..Len(w) : sum[i] = IF i = 0 THEN 0 ELSE sum[i - 1] + w[i]
  BY <1>5
<1>. HIDE DEF sum, Sums
<1>8. T = {}
  <2>1. SUFFICES ASSUME T # {} PROVE FALSE
    OBVIOUS
  <2>2. T \in SUBSET Nat
    OBVIOUS
  <2>3. PICK i \in T : \A k \in T : i <= k
    <3>. HIDE DEF T
    <3>. QED
      BY <2>1, <2>2, LeastOf
  <2>4. i \in 0..Len(w) /\ i # 0
    BY <1>7
  <2>5. i \in 1..Len(w) /\ i - 1 \in 0..Len(w) /\ ~(i <= i - 1)
    BY <2>4
  <2>6. sum[i - 1] \in Nat
    BY <2>3, <2>5
  <2>. QED
    BY <1>7, <2>4, <2>5, <2>6
<1>. QED
  BY <1>6, <1>8

LEMMA HighAndLow ==
  ASSUME NEW high \in Byte, NEW low \in Byte
  PROVE  256 * high + low \in Nat
BY DEF Byte

\* cksum, of any bytes.
LEMMA CksumIsWord ==
  ASSUME NEW bytes, Len(bytes) \in Nat, \A i \in 1..Len(bytes) : bytes[i] \in Byte
  PROVE  Cksum(bytes) \in Word
<1>. DEFINE n == (Len(bytes) + 1) \div 2
            w == Words(bytes)
            total == WordSum(w)
<1>1. n \in Nat /\ \A i \in 1..n : 2 * i - 1 \in 1..Len(bytes) /\ (2 * i <= Len(bytes) => 2 * i \in 1..Len(bytes))
  OBVIOUS
<1>2. w = [i \in 1..n |-> 256 * bytes[2 * i - 1] + (IF 2 * i <= Len(bytes) THEN bytes[2 * i] ELSE 0)]
  BY DEF Words
<1>. HIDE DEF n, w
<1>3. Len(w) = n
  BY <1>1, <1>2
<1>4. \A i \in 1..n : w[i] \in Nat
  <2>. TAKE i \in 1..n
  <2>1. 2 * i - 1 \in 1..Len(bytes) /\ (2 * i <= Len(bytes) => 2 * i \in 1..Len(bytes))
    BY <1>1
  <2>2. bytes[2 * i - 1] \in Byte /\ (2 * i <= Len(bytes) => bytes[2 * i] \in Byte)
    BY <2>1
  <2>3. w[i] = 256 * bytes[2 * i - 1] + (IF 2 * i <= Len(bytes) THEN bytes[2 * i] ELSE 0)
    BY <1>2
  <2>4. 0 \in Byte
    BY DEF Byte
  <2>5. CASE 2 * i <= Len(bytes)
    BY <2>2, <2>3, <2>5, HighAndLow
  <2>6. CASE ~(2 * i <= Len(bytes))
    BY <2>2, <2>3, <2>4, <2>6, HighAndLow
  <2>. QED
    BY <2>5, <2>6
<1>5. total \in Nat
  BY <1>1, <1>3, <1>4, SumIsNatural
<1>. HIDE DEF total
<1>. DEFINE f == fold[total]
<1>6. f \in Word
  BY <1>5, FoldIsWord
<1>. HIDE DEF f
<1>7. 65535 - f \in Word
  BY <1>6 DEF Word
<1>8. Swap(65535 - f) \in Word
  BY <1>7, SwapTwice
<1>9. Cksum(bytes) = IF Swap(65535 - f) = 0 THEN 65535 ELSE Swap(65535 - f)
  BY DEF Cksum, f, total, w
<1>. QED
  BY <1>8, <1>9 DEF Word


-----------------------------------------------------------------------------
(* Sequences *)

\* One sequence behind another.
LEMMA Joined ==
  ASSUME NEW X, NEW s \in Seq(X), NEW t \in Seq(X)
  PROVE  /\ s \o t \in Seq(X) /\ Len(s \o t) = Len(s) + Len(t)
         /\ \A i \in 1..Len(s) : (s \o t)[i] = s[i]
         /\ \A i \in 1..Len(t) : (s \o t)[Len(s) + i] = t[i]
<1>1. s \o t \in Seq(X) /\ Len(s \o t) = Len(s) + Len(t)
  OBVIOUS
<1>2. \A i \in 1..Len(s) : (s \o t)[i] = s[i]
  OBVIOUS
<1>3. \A i \in 1..Len(t) : (s \o t)[Len(s) + i] = t[i]
  OBVIOUS
<1>. QED
  BY <1>1, <1>2, <1>3

-----------------------------------------------------------------------------
(* Addresses and their text *)

Digits == {"0", "1", "2", "3", "4", "5", "6", "7", "8", "9"}

LEMMA DigitFacts ==
  ASSUME NEW n \in 0..9
  PROVE  Digit(n) \in Digits /\ Digit(n) # "." /\ DigitOf(Digit(n)) = n
<1>1. n = 0 \/ n = 1 \/ n = 2 \/ n = 3 \/ n = 4 \/ n = 5 \/ n = 6 \/ n = 7 \/ n = 8 \/ n = 9
  OBVIOUS
<1>2. Digit(n) \in Digits /\ Digit(n) # "."
  BY <1>1 DEF Digit, DigitChars, Digits
<1>3. \A m \in 0..9 : Digit(m) = Digit(n) => m = n
  BY <1>1 DEF Digit, DigitChars
<1>4. DigitOf(Digit(n)) \in 0..9 /\ Digit(DigitOf(Digit(n))) = Digit(n)
  BY DEF DigitOf
<1>. QED
  BY <1>2, <1>3, <1>4

\* The digits of a byte, first one first.
DigitsOf(n) ==
  IF n >= 100 THEN <<n \div 100, (n \div 10) % 10, n % 10>>
  ELSE IF n >= 10 THEN <<n \div 10, n % 10>>
  ELSE <<n>>

\* %d prints them.
LEMMA DecimalIs ==
  ASSUME NEW n \in Byte
  PROVE  /\ Decimal(n) \in Seq(Digits) /\ Len(Decimal(n)) \in 1..3
         /\ Len(DigitsOf(n)) = Len(Decimal(n))
         /\ \A i \in 1..Len(Decimal(n)) : DigitsOf(n)[i] \in 0..9 /\ Decimal(n)[i] = Digit(DigitsOf(n)[i])
<1>1. n % 10 \in 0..9 /\ (n \div 10) % 10 \in 0..9 /\ (n \div 100) % 10 = n \div 100 /\ n \div 100 \in 0..9
  BY DEF Byte
<1>2. n < 100 => (n \div 10) % 10 = n \div 10 /\ n \div 10 \in 0..9
  BY DEF Byte
<1>3. n < 10 => n % 10 = n /\ n \in 0..9
  BY DEF Byte
<1>. DEFINE a == Digit((n \div 100) % 10)
            b == Digit((n \div 10) % 10)
            c == Digit(n % 10)
            A == IF n >= 100 THEN <<a>> ELSE <<>>
            B == IF n >= 10 THEN <<b>> ELSE <<>>
            C0 == <<c>>
<1>4. a \in Digits /\ b \in Digits /\ c \in Digits
  BY <1>1, DigitFacts
<1>5. Decimal(n) = A \o B \o C0
  BY DEF Decimal
<1>6. n \in Nat
  BY DEF Byte
<1>7. /\ n >= 100 => Len(A) = 1 /\ A[1] = a
      /\ ~(n >= 100) => Len(A) = 0
      /\ n >= 10 => Len(B) = 1 /\ B[1] = b
      /\ ~(n >= 10) => Len(B) = 0
      /\ Len(C0) = 1 /\ C0[1] = c
  <2>. HIDE DEF a, b, c
  <2>. QED
    BY <1>6
<1>8. A \in Seq(Digits) /\ B \in Seq(Digits) /\ C0 \in Seq(Digits)
  <2>. HIDE DEF a, b, c
  <2>. QED
    BY <1>4
<1>. HIDE DEF A, B, C0
<1>9. /\ A \o B \in Seq(Digits) /\ Len(A \o B) = Len(A) + Len(B)
      /\ \A i \in 1..Len(A) : (A \o B)[i] = A[i]
      /\ \A i \in 1..Len(B) : (A \o B)[Len(A) + i] = B[i]
  BY <1>8, Joined
<1>. DEFINE AB == A \o B
<1>10. /\ AB \o C0 \in Seq(Digits) /\ Len(AB \o C0) = Len(AB) + 1
       /\ \A i \in 1..Len(AB) : (AB \o C0)[i] = AB[i]
       /\ (AB \o C0)[Len(AB) + 1] = c
  <2>1. AB \in Seq(Digits)
    BY <1>9
  <2>. HIDE DEF AB
  <2>2. /\ AB \o C0 \in Seq(Digits) /\ Len(AB \o C0) = Len(AB) + Len(C0)
        /\ \A i \in 1..Len(AB) : (AB \o C0)[i] = AB[i]
        /\ \A i \in 1..Len(C0) : (AB \o C0)[Len(AB) + i] = C0[i]
    BY <1>8, <2>1, Joined
  <2>. HIDE DEF a, b, c
  <2>. QED
    BY <1>7, <2>2
<1>. DEFINE D == Decimal(n)
<1>11. D = AB \o C0
  BY <1>5
<1>12. Len(AB) = Len(A) + Len(B) /\ \A i \in 1..Len(A) : AB[i] = A[i]
  BY <1>9
<1>13. \A i \in 1..Len(B) : AB[Len(A) + i] = B[i]
  BY <1>9
<1>. HIDE DEF D, AB, a, b, c
<1>14. D \in Seq(Digits) /\ Len(D) = Len(A) + Len(B) + 1
  BY <1>8, <1>10, <1>11, <1>12
<1>15. D[Len(AB) + 1] = c /\ \A i \in 1..Len(AB) : D[i] = AB[i]
  BY <1>10, <1>11
<1>16. CASE n >= 100
  <2>0. n >= 10
    BY <1>6, <1>16
  <2>1. Len(A) = 1 /\ A[1] = a /\ Len(B) = 1 /\ B[1] = b
    BY <1>7, <1>16, <2>0
  <2>2. Len(AB) = 2 /\ Len(D) = 3
    BY <1>12, <1>14, <2>1
  <2>3. AB[1] = a /\ AB[2] = b
    BY <1>12, <1>13, <2>1
  <2>4. D[1] = a /\ D[2] = b /\ D[3] = c
    BY <1>15, <2>2, <2>3
  <2>5. DigitsOf(n) = <<n \div 100, (n \div 10) % 10, n % 10>>
    BY <1>16 DEF DigitsOf
  <2>6. \A i \in 1..3 : DigitsOf(n)[i] \in 0..9 /\ D[i] = Digit(DigitsOf(n)[i])
    BY <1>1, <2>4, <2>5 DEF a, b, c
  <2>7. Len(DigitsOf(n)) = 3
    BY <2>5
  <2>8. /\ Len(D) \in 1..3 /\ Len(DigitsOf(n)) = Len(D)
        /\ \A i \in 1..Len(D) : DigitsOf(n)[i] \in 0..9 /\ D[i] = Digit(DigitsOf(n)[i])
    BY <2>2, <2>7, <2>6
  <2>. QED
    BY <1>14, <2>8 DEF D
<1>17. CASE n < 100 /\ n >= 10
  <2>1. Len(A) = 0 /\ Len(B) = 1 /\ B[1] = b
    BY <1>6, <1>7, <1>17
  <2>2. Len(AB) = 1 /\ Len(D) = 2
    BY <1>12, <1>14, <2>1
  <2>3. AB[1] = b
    BY <1>13, <2>1
  <2>4. D[1] = b /\ D[2] = c
    BY <1>15, <2>2, <2>3
  <2>5. DigitsOf(n) = <<n \div 10, n % 10>>
    BY <1>6, <1>17 DEF DigitsOf
  <2>6. \A i \in 1..2 : DigitsOf(n)[i] \in 0..9 /\ D[i] = Digit(DigitsOf(n)[i])
    BY <1>1, <1>2, <1>17, <2>4, <2>5 DEF b, c
  <2>7. Len(DigitsOf(n)) = 2
    BY <2>5
  <2>8. /\ Len(D) \in 1..3 /\ Len(DigitsOf(n)) = Len(D)
        /\ \A i \in 1..Len(D) : DigitsOf(n)[i] \in 0..9 /\ D[i] = Digit(DigitsOf(n)[i])
    BY <2>2, <2>7, <2>6
  <2>. QED
    BY <1>14, <2>8 DEF D
<1>18. CASE n < 10
  <2>1. Len(A) = 0 /\ Len(B) = 0
    BY <1>6, <1>7, <1>18
  <2>2. Len(AB) = 0 /\ Len(D) = 1
    BY <1>12, <1>14, <2>1
  <2>3. D[1] = c
    BY <1>15, <2>2
  <2>4. DigitsOf(n) = <<n>>
    BY <1>6, <1>18 DEF DigitsOf
  <2>5. \A i \in 1..1 : DigitsOf(n)[i] \in 0..9 /\ D[i] = Digit(DigitsOf(n)[i])
    BY <1>3, <1>18, <2>3, <2>4 DEF c
  <2>7. Len(DigitsOf(n)) = 1
    BY <2>4
  <2>8. /\ Len(D) \in 1..3 /\ Len(DigitsOf(n)) = Len(D)
        /\ \A i \in 1..Len(D) : DigitsOf(n)[i] \in 0..9 /\ D[i] = Digit(DigitsOf(n)[i])
    BY <2>2, <2>7, <2>5
  <2>. QED
    BY <1>14, <2>8 DEF D
<1>. QED
  BY <1>6, <1>16, <1>17, <1>18

\* What the first digits of a byte make.
FirstDigits(v, j) ==
  IF j = 0 THEN 0
  ELSE IF j = 1 THEN v[1]
  ELSE IF j = 2 THEN 10 * v[1] + v[2]
  ELSE 10 * (10 * v[1] + v[2]) + v[3]

LEMMA DigitsMake ==
  ASSUME NEW n \in Byte, NEW v, v = DigitsOf(n)
  PROVE  /\ Len(v) \in 1..3 /\ FirstDigits(v, Len(v)) = n
         /\ \A j \in 1..Len(v) : v[j] \in 0..9 /\ FirstDigits(v, j) = 10 * FirstDigits(v, j - 1) + v[j]
<1>1. /\ n >= 100 => n = 10 * (10 * (n \div 100) + ((n \div 10) % 10)) + (n % 10)
      /\ n < 100 => n = 10 * (n \div 10) + (n % 10)
      /\ n \in Nat
  BY DEF Byte
<1>2. Len(v) = Len(Decimal(n)) /\ Len(v) \in 1..3 /\ \A j \in 1..Len(v) : v[j] \in 0..9
  BY DecimalIs
<1>3. \A j \in 1..Len(v) : v[j] \in Int
  BY <1>2
<1>4. FirstDigits(v, Len(v)) = n
  <2>1. CASE n >= 100
    <3>1. Len(v) = 3 /\ v[1] = n \div 100 /\ v[2] = (n \div 10) % 10 /\ v[3] = n % 10
      BY <2>1 DEF DigitsOf
    <3>. QED
      BY <1>1, <2>1, <3>1 DEF FirstDigits
  <2>2. CASE n < 100 /\ n >= 10
    <3>1. Len(v) = 2 /\ v[1] = n \div 10 /\ v[2] = n % 10
      BY <1>1, <2>2 DEF DigitsOf
    <3>. QED
      BY <1>1, <2>2, <3>1 DEF FirstDigits
  <2>3. CASE n < 10
    <3>1. Len(v) = 1 /\ v[1] = n
      BY <1>1, <2>3 DEF DigitsOf
    <3>. QED
      BY <3>1 DEF FirstDigits
  <2>. QED
    BY <1>1, <2>1, <2>2, <2>3
<1>5. ASSUME NEW j \in 1..Len(v)
      PROVE  FirstDigits(v, j) = 10 * FirstDigits(v, j - 1) + v[j]
  <2>1. j = 1 \/ j = 2 \/ j = 3
    BY <1>2
  <2>2. v[j] \in Int
    BY <1>3
  <2>. QED
    BY <2>1, <2>2 DEF FirstDigits
<1>. QED
  BY <1>2, <1>4, <1>5

\* The decimal digits of d are where they must be, and a dot or the end behind them.
IsOctet(ip, start, d) ==
  /\ start + Len(Decimal(d)) <= Len(ip) + 1
  /\ \A i \in 1..Len(Decimal(d)) : ip[start + (i - 1)] = Decimal(d)[i]
  /\ start + Len(Decimal(d)) <= Len(ip) => ip[start + Len(Decimal(d))] = "."

LEMMA OctetRead ==
  ASSUME NEW ip, Len(ip) \in Nat, NEW start \in Nat, NEW d \in Byte, IsOctet(ip, start, d)
  PROVE  OctetEnd(ip, start) = start + Len(Decimal(d)) /\ Octet(ip, start) = d
<1>. DEFINE D == Decimal(d)
            v == DigitsOf(d)
            len == Len(D)
            end == start + len
<1>1. /\ len \in 1..3 /\ end <= Len(ip) + 1 /\ (end <= Len(ip) => ip[end] = ".")
      /\ \A i \in 1..len : ip[start + (i - 1)] = D[i]
  BY DecimalIs DEF IsOctet
<1>2. /\ Len(v) = len /\ FirstDigits(v, len) = d
      /\ \A j \in 1..len : v[j] \in 0..9 /\ FirstDigits(v, j) = 10 * FirstDigits(v, j - 1) + v[j]
  BY DecimalIs, DigitsMake
<1>3. \A i \in 1..len : D[i] = Digit(v[i]) /\ v[i] \in 0..9
  BY DecimalIs
<1>. HIDE DEF D, v
<1>4. \A i \in 1..len : ip[start + (i - 1)] # "." /\ DigitOf(ip[start + (i - 1)]) = v[i]
  <2>. TAKE i \in 1..len
  <2>1. ip[start + (i - 1)] = Digit(v[i]) /\ v[i] \in 0..9
    BY <1>1, <1>3
  <2>. QED
    BY <2>1, DigitFacts
<1>. HIDE DEF len
<1>5. \A k \in start..(end - 1) : ip[k] # "." /\ DigitOf(ip[k]) = v[k - start + 1]
  <2>. TAKE k \in start..(end - 1)
  <2>. DEFINE i == k - start + 1
  <2>1. i \in 1..len /\ start + (i - 1) = k
    BY <1>1
  <2>. HIDE DEF i
  <2>2. ip[start + (i - 1)] # "." /\ DigitOf(ip[start + (i - 1)]) = v[i]
    BY <1>4, <2>1
  <2>. QED
    BY <2>1, <2>2 DEF i
<1>6. OctetEnd(ip, start) = end
  <2>. DEFINE Ends(e) == (e <= Len(ip) => ip[e] = ".") /\ \A k \in start..(e - 1) : ip[k] # "."
              E == start..(Len(ip) + 1)
  <2>1. end \in E /\ Ends(end)
    BY <1>1, <1>5
  <2>2. ASSUME NEW e \in E, Ends(e)
        PROVE  e = end
    <3>1. ~(e < end)
      <4>1. SUFFICES ASSUME e < end PROVE FALSE
        OBVIOUS
      <4>2. e \in start..(end - 1) /\ e <= Len(ip)
        BY <1>1, <4>1
      <4>. QED
        BY <1>5, <2>2, <4>2
    <3>2. ~(e > end)
      <4>1. SUFFICES ASSUME e > end PROVE FALSE
        OBVIOUS
      <4>2. end \in start..(e - 1) /\ end <= Len(ip)
        BY <1>1, <4>1
      <4>. QED
        BY <1>1, <2>2, <4>2
    <3>. QED
      BY <1>1, <3>1, <3>2
  <2>3. OctetEnd(ip, start) = CHOOSE e \in E : Ends(e)
    BY DEF OctetEnd
  <2>. HIDE DEF E, Ends
  <2>. QED
    BY <2>1, <2>2, <2>3
<1>. DEFINE Reads(f) == f = [i \in start..end |-> IF i = start THEN 0 ELSE 10 * f[i - 1] + DigitOf(ip[i - 1])]
            g == [i \in start..end |-> FirstDigits(v, i - start)]
            o == CHOOSE f : Reads(f)
<1>7. Reads(g)
  <2>1. ASSUME NEW i \in start..end
        PROVE  g[i] = IF i = start THEN 0 ELSE 10 * g[i - 1] + DigitOf(ip[i - 1])
    <3>1. CASE i = start
      BY <3>1 DEF FirstDigits
    <3>2. CASE i # start
      <4>. DEFINE j == i - start
      <4>1. j \in 1..len /\ i - 1 \in start..end /\ i - 1 \in start..(end - 1) /\ (i - 1) - start = j - 1
            /\ (i - 1) - start + 1 = j
        BY <1>1, <3>2
      <4>2. DigitOf(ip[i - 1]) = v[j]
        BY <1>5, <4>1
      <4>3. g[i] = FirstDigits(v, j) /\ g[i - 1] = FirstDigits(v, j - 1)
        BY <4>1
      <4>. HIDE DEF j, g
      <4>. QED
        BY <1>2, <3>2, <4>1, <4>2, <4>3
    <3>. QED
      BY <3>1, <3>2
  <2>2. g = [i \in start..end |-> g[i]]
    OBVIOUS
  <2>. HIDE DEF g
  <2>. QED
    BY <2>1, <2>2
<1>8. Reads(o)
  <2>. HIDE DEF Reads, g
  <2>. QED
    BY <1>7
<1>9. Octet(ip, start) = o[end]
  BY <1>6 DEF Octet
<1>. HIDE DEF o
<1>10. \A i \in start..end : o[i] = IF i = start THEN 0 ELSE 10 * o[i - 1] + DigitOf(ip[i - 1])
  BY <1>8
<1>. DEFINE S == {j \in Nat : j <= len => o[start + j] = FirstDigits(v, j)}
<1>11. 0 \in S
  BY <1>1, <1>10 DEF FirstDigits
<1>12. ASSUME NEW j \in S PROVE j + 1 \in S
  <2>1. SUFFICES ASSUME j + 1 <= len PROVE o[start + (j + 1)] = FirstDigits(v, j + 1)
    OBVIOUS
  <2>2. j \in Nat /\ o[start + j] = FirstDigits(v, j) /\ j + 1 \in 1..len
    BY <1>1, <2>1
  <2>3. /\ start + (j + 1) \in start..end /\ start + (j + 1) # start
        /\ (start + (j + 1)) - 1 = start + j /\ start + j \in start..(end - 1)
        /\ (start + j) - start + 1 = j + 1 /\ (j + 1) - 1 = j
    BY <1>1, <2>1, <2>2
  <2>4. o[start + (j + 1)] = 10 * o[start + j] + DigitOf(ip[start + j])
    BY <1>10, <2>3
  <2>5. DigitOf(ip[start + j]) = v[j + 1]
    BY <1>5, <2>3
  <2>6. FirstDigits(v, j + 1) = 10 * FirstDigits(v, j) + v[j + 1]
    BY <1>2, <2>2, <2>3
  <2>. QED
    BY <2>2, <2>4, <2>5, <2>6
<1>. HIDE DEF S
<1>13. S = Nat
  <2>1. S \in SUBSET Nat
    BY DEF S
  <2>. QED
    BY <1>11, <1>12, <2>1, AllNaturals
<1>14. o[end] = FirstDigits(v, len)
  <2>1. len \in Nat
    BY <1>1
  <2>2. len \in S /\ len <= len
    BY <1>13, <2>1
  <2>. QED
    BY <2>2 DEF S
<1>. QED
  BY <1>2, <1>6, <1>9, <1>14 DEF len, D

TextChars == Digits \cup {"."}

\* A dot and one more octet.
Glued(p, d) == p \o <<".">> \o Decimal(d)

LEMMA GluedFacts ==
  ASSUME NEW p \in Seq(TextChars), NEW d \in Byte
  PROVE  /\ Glued(p, d) \in Seq(TextChars)
         /\ Len(Glued(p, d)) = Len(p) + 1 + Len(Decimal(d))
         /\ \A i \in 1..Len(p) : Glued(p, d)[i] = p[i]
         /\ Glued(p, d)[Len(p) + 1] = "."
         /\ \A i \in 1..Len(Decimal(d)) : Glued(p, d)[Len(p) + 1 + i] = Decimal(d)[i]
<1>. DEFINE D == Decimal(d)
            dot == <<".">>
            pd == p \o dot
<1>1. D \in Seq(TextChars) /\ Len(D) \in Nat
  <2>1. Seq(Digits) \subseteq Seq(TextChars)
    BY DEF TextChars
  <2>. QED
    BY <2>1, DecimalIs
<1>0. p \in Seq(TextChars)
  OBVIOUS
<1>2. dot \in Seq(TextChars) /\ Len(dot) = 1 /\ dot[1] = "."
  BY DEF TextChars
<1>. HIDE DEF D, dot
<1>3. /\ pd \in Seq(TextChars) /\ Len(pd) = Len(p) + 1
      /\ \A i \in 1..Len(p) : pd[i] = p[i]
      /\ pd[Len(p) + 1] = "."
  <2>1. /\ pd \in Seq(TextChars) /\ Len(pd) = Len(p) + Len(dot)
        /\ \A i \in 1..Len(p) : pd[i] = p[i]
        /\ \A i \in 1..Len(dot) : pd[Len(p) + i] = dot[i]
    <3>1. dot \in Seq(TextChars)
      BY <1>2
    <3>. QED
      BY <1>0, <3>1, Joined
  <2>. QED
    BY <1>2, <2>1
<1>. HIDE DEF pd
<1>. DEFINE q == pd \o D
<1>4. /\ q \in Seq(TextChars) /\ Len(q) = Len(pd) + Len(D)
      /\ \A i \in 1..Len(pd) : q[i] = pd[i]
      /\ \A i \in 1..Len(D) : q[Len(pd) + i] = D[i]
  <2>1. D \in Seq(TextChars) /\ pd \in Seq(TextChars)
    BY <1>1, <1>3
  <2>. QED
    BY <2>1, Joined
<1>5. Glued(p, d) = q
  BY DEF Glued, q, pd, D, dot
<1>. HIDE DEF q
<1>6. Len(p) \in Nat
  OBVIOUS
<1>7. /\ \A i \in 1..Len(p) : q[i] = p[i]
      /\ q[Len(p) + 1] = "."
  <2>1. \A i \in 1..Len(p) : i \in 1..Len(pd)
    BY <1>3, <1>6
  <2>2. Len(p) + 1 \in 1..Len(pd)
    BY <1>3, <1>6
  <2>. QED
    BY <1>3, <1>4, <2>1, <2>2
<1>. QED
  BY <1>3, <1>4, <1>5, <1>7 DEF D

\* The four octets of an address, highest first.
Octets(a) == <<a[1] \div 256, a[1] % 256, a[2] \div 256, a[2] % 256>>

LEMMA OctetsAreBytes ==
  ASSUME NEW a \in Word \X Word
  PROVE  /\ \A n \in 1..4 : Octets(a)[n] \in Byte
         /\ a = <<256 * Octets(a)[1] + Octets(a)[2], 256 * Octets(a)[3] + Octets(a)[4]>>
<1>1. a[1] \in Word /\ a[2] \in Word /\ a = <<a[1], a[2]>>
  OBVIOUS
<1>. DEFINE h == a[1]
            l == a[2]
<1>2. h \in Word /\ l \in Word /\ a = <<h, l>>
  BY <1>1
<1>3. Octets(a) = <<h \div 256, h % 256, l \div 256, l % 256>>
  BY DEF Octets
<1>. HIDE DEF h, l
<1>4. /\ h % 256 \in Byte /\ h \div 256 \in Byte /\ (h % 256) + 256 * (h \div 256) = h
      /\ l % 256 \in Byte /\ l \div 256 \in Byte /\ (l % 256) + 256 * (l \div 256) = l
  BY <1>2, BytesOfWord
<1>5. 256 * (h \div 256) + (h % 256) = h /\ 256 * (l \div 256) + (l % 256) = l
  <2>1. h \in Nat /\ l \in Nat
    BY <1>2 DEF Word
  <2>. QED
    BY <2>1
<1>6. /\ Octets(a)[1] = h \div 256 /\ Octets(a)[2] = h % 256
      /\ Octets(a)[3] = l \div 256 /\ Octets(a)[4] = l % 256
  BY <1>3
<1>. QED
  BY <1>2, <1>4, <1>5, <1>6

\* Where the four octets of a text are.
AreOctets(ip, o) ==
  LET L(n) == Len(Decimal(o[n]))
  IN  /\ Len(ip) = L(1) + L(2) + L(3) + L(4) + 3
      /\ IsOctet(ip, 1, o[1])
      /\ IsOctet(ip, L(1) + 2, o[2])
      /\ IsOctet(ip, L(1) + L(2) + 3, o[3])
      /\ IsOctet(ip, L(1) + L(2) + L(3) + 4, o[4])

LEMMA TextOfAddress ==
  ASSUME NEW a \in Word \X Word
  PROVE  /\ ParseIpAddrToStr(a) \in Seq(TextChars)
         /\ AreOctets(ParseIpAddrToStr(a), Octets(a))
<1>. DEFINE o == Octets(a)
            D1 == Decimal(o[1])
            D2 == Decimal(o[2])
            D3 == Decimal(o[3])
            D4 == Decimal(o[4])
            p1 == D1
            p2 == Glued(p1, o[2])
            p3 == Glued(p2, o[3])
            p4 == Glued(p3, o[4])
            ip == ParseIpAddrToStr(a)
<1>1. o[1] \in Byte /\ o[2] \in Byte /\ o[3] \in Byte /\ o[4] \in Byte
  BY OctetsAreBytes
<1>2. ip = p4
  <2>1. o[1] = a[1] \div 256 /\ o[2] = a[1] % 256 /\ o[3] = a[2] \div 256 /\ o[4] = a[2] % 256
    BY DEF Octets
  <2>. HIDE DEF o
  <2>. QED
    BY <2>1 DEF ParseIpAddrToStr, Glued
<1>3. p1 \in Seq(TextChars)
  <2>1. Seq(Digits) \subseteq Seq(TextChars)
    BY DEF TextChars
  <2>. HIDE DEF o
  <2>. QED
    BY <1>1, <2>1, DecimalIs
<1>. HIDE DEF o
<1>4. Len(D1) \in Nat /\ Len(D2) \in Nat /\ Len(D3) \in Nat /\ Len(D4) \in Nat
  BY <1>1, DecimalIs
<1>. HIDE DEF D1
<1>5. /\ p2 \in Seq(TextChars) /\ Len(p2) = Len(D1) + 1 + Len(D2)
      /\ \A i \in 1..Len(D1) : p2[i] = D1[i]
      /\ p2[Len(D1) + 1] = "."
      /\ \A i \in 1..Len(D2) : p2[Len(D1) + 1 + i] = D2[i]
  BY <1>1, <1>3, GluedFacts
<1>. HIDE DEF D2, p2
<1>6. /\ p3 \in Seq(TextChars) /\ Len(p3) = Len(p2) + 1 + Len(D3)
      /\ \A i \in 1..Len(p2) : p3[i] = p2[i]
      /\ p3[Len(p2) + 1] = "."
      /\ \A i \in 1..Len(D3) : p3[Len(p2) + 1 + i] = D3[i]
  BY <1>1, <1>5, GluedFacts
<1>. HIDE DEF D3, p3
<1>7. /\ p4 \in Seq(TextChars) /\ Len(p4) = Len(p3) + 1 + Len(D4)
      /\ \A i \in 1..Len(p3) : p4[i] = p3[i]
      /\ p4[Len(p3) + 1] = "."
      /\ \A i \in 1..Len(D4) : p4[Len(p3) + 1 + i] = D4[i]
  BY <1>1, <1>6, GluedFacts
<1>. HIDE DEF D4, p4, ip
<1>8. Len(ip) = Len(D1) + Len(D2) + Len(D3) + Len(D4) + 3
  BY <1>2, <1>4, <1>5, <1>6, <1>7
<1>9. IsOctet(ip, 1, o[1])
  <2>1. \A i \in 1..Len(D1) : 1 + (i - 1) = i /\ i \in 1..Len(p2) /\ i \in 1..Len(p3)
    BY <1>4, <1>5, <1>6
  <2>2. \A i \in 1..Len(D1) : ip[1 + (i - 1)] = D1[i]
    BY <1>2, <1>5, <1>6, <1>7, <2>1
  <2>3. Len(D1) + 1 \in 1..Len(p2) /\ Len(D1) + 1 \in 1..Len(p3) /\ 1 + Len(D1) = Len(D1) + 1
    BY <1>4, <1>5, <1>6
  <2>4. ip[1 + Len(D1)] = "."
    BY <1>2, <1>5, <1>6, <1>7, <2>3
  <2>5. 1 + Len(D1) <= Len(ip) + 1
    BY <1>4, <1>8
  <2>. QED
    BY <2>2, <2>4, <2>5 DEF IsOctet, D1
<1>10. IsOctet(ip, Len(D1) + 2, o[2])
  <2>1. \A i \in 1..Len(D2) : /\ Len(D1) + 2 + (i - 1) = Len(D1) + 1 + i
                              /\ Len(D1) + 1 + i \in 1..Len(p2) /\ Len(D1) + 1 + i \in 1..Len(p3)
    BY <1>4, <1>5, <1>6
  <2>2. \A i \in 1..Len(D2) : ip[Len(D1) + 2 + (i - 1)] = D2[i]
    <3>. TAKE i \in 1..Len(D2)
    <3>1. /\ p2[Len(D1) + 1 + i] = D2[i] /\ p3[Len(D1) + 1 + i] = p2[Len(D1) + 1 + i]
          /\ p4[Len(D1) + 1 + i] = p3[Len(D1) + 1 + i]
      BY <1>5, <1>6, <1>7, <2>1
    <3>. QED
      BY <1>2, <2>1, <3>1
  <2>3. Len(p2) + 1 \in 1..Len(p3) /\ Len(D1) + 2 + Len(D2) = Len(p2) + 1
    BY <1>4, <1>5, <1>6
  <2>4. ip[Len(D1) + 2 + Len(D2)] = "."
    BY <1>2, <1>6, <1>7, <2>3
  <2>5. Len(D1) + 2 + Len(D2) <= Len(ip) + 1
    BY <1>4, <1>8
  <2>. QED
    BY <2>2, <2>4, <2>5 DEF IsOctet, D2
<1>11. IsOctet(ip, Len(D1) + Len(D2) + 3, o[3])
  <2>0. Len(D1) + Len(D2) + 3 = Len(p2) + 2 /\ Len(p2) \in Nat
    BY <1>4, <1>5
  <2>1. \A i \in 1..Len(D3) : Len(p2) + 2 + (i - 1) = Len(p2) + 1 + i /\ Len(p2) + 1 + i \in 1..Len(p3)
    BY <1>4, <1>6, <2>0
  <2>2. \A i \in 1..Len(D3) : ip[Len(p2) + 2 + (i - 1)] = D3[i]
    <3>. TAKE i \in 1..Len(D3)
    <3>1. p3[Len(p2) + 1 + i] = D3[i] /\ p4[Len(p2) + 1 + i] = p3[Len(p2) + 1 + i]
      BY <1>6, <1>7, <2>1
    <3>. QED
      BY <1>2, <2>1, <3>1
  <2>3. Len(p2) + 2 + Len(D3) = Len(p3) + 1
    BY <1>4, <1>6, <2>0
  <2>4. ip[Len(p2) + 2 + Len(D3)] = "."
    BY <1>2, <1>7, <2>3
  <2>5. Len(p2) + 2 + Len(D3) <= Len(ip) + 1
    BY <1>4, <1>8, <2>0
  <2>. QED
    BY <2>0, <2>2, <2>4, <2>5 DEF IsOctet, D3
<1>12. IsOctet(ip, Len(D1) + Len(D2) + Len(D3) + 4, o[4])
  <2>0. Len(D1) + Len(D2) + Len(D3) + 4 = Len(p3) + 2 /\ Len(p3) \in Nat
    BY <1>4, <1>5, <1>6
  <2>1. \A i \in 1..Len(D4) : Len(p3) + 2 + (i - 1) = Len(p3) + 1 + i
    BY <1>4, <2>0
  <2>2. \A i \in 1..Len(D4) : ip[Len(p3) + 2 + (i - 1)] = D4[i]
    BY <1>2, <1>7, <2>1
  <2>3. Len(p3) + 2 + Len(D4) = Len(ip) + 1
    BY <1>2, <1>4, <1>7, <2>0
  <2>4. Len(p3) + 2 + Len(D4) <= Len(ip) + 1 /\ ~(Len(p3) + 2 + Len(D4) <= Len(ip))
    BY <1>2, <1>4, <1>7, <2>0
  <2>. QED
    BY <2>0, <2>2, <2>4 DEF IsOctet, D4
<1>13. ip \in Seq(TextChars)
  BY <1>2, <1>7
<1>14. AreOctets(ip, o)
  BY <1>8, <1>9, <1>10, <1>11, <1>12 DEF AreOctets, D1, D2, D3, D4
<1>. QED
  BY <1>13, <1>14 DEF ip, o

\* Where the octet behind the one at "start" begins.
NextStart(ip, start) ==
  IF OctetEnd(ip, start) <= Len(ip) THEN OctetEnd(ip, start) + 1 ELSE OctetEnd(ip, start)

LEMMA StartsAre ==
  ASSUME NEW ip
  PROVE  /\ OctetStart(ip)[1] = 1
         /\ OctetStart(ip)[2] = NextStart(ip, OctetStart(ip)[1])
         /\ OctetStart(ip)[3] = NextStart(ip, OctetStart(ip)[2])
         /\ OctetStart(ip)[4] = NextStart(ip, OctetStart(ip)[3])
<1>. DEFINE Starts(f) == f = [n \in 1..4 |-> IF n = 1 THEN 1 ELSE NextStart(ip, f[n - 1])]
            s2 == NextStart(ip, 1)
            s3 == NextStart(ip, s2)
            s4 == NextStart(ip, s3)
            g == [n \in 1..4 |-> IF n = 1 THEN 1 ELSE IF n = 2 THEN s2 ELSE IF n = 3 THEN s3 ELSE s4]
            start == CHOOSE f : Starts(f)
<1>1. Starts(g)
  <2>1. g[1] = 1 /\ g[2] = s2 /\ g[3] = s3 /\ g[4] = s4
    BY DEF g
  <2>2. g = [n \in 1..4 |-> g[n]]
    OBVIOUS
  <2>3. \A n \in 1..4 : g[n] = IF n = 1 THEN 1 ELSE NextStart(ip, g[n - 1])
    <3>. TAKE n \in 1..4
    <3>1. n = 1 \/ (n = 2 /\ n - 1 = 1) \/ (n = 3 /\ n - 1 = 2) \/ (n = 4 /\ n - 1 = 3)
      OBVIOUS
    <3>. HIDE DEF g
    <3>. QED
      BY <2>1, <3>1
  <2>. HIDE DEF g
  <2>. QED
    BY <2>2, <2>3
<1>2. Starts(start)
  <2>. HIDE DEF Starts, g
  <2>. QED
    BY <1>1
<1>3. OctetStart(ip) = start
  BY DEF OctetStart, NextStart
<1>. HIDE DEF start
<1>4. \A n \in 1..4 : start[n] = IF n = 1 THEN 1 ELSE NextStart(ip, start[n - 1])
  BY <1>2
<1>. HIDE DEF Starts
<1>. QED
  BY <1>3, <1>4

\* A text that has the octets of an address in their places is parsed to that address.
LEMMA OctetsParsed ==
  ASSUME NEW ip, Len(ip) \in Nat, NEW a \in Word \X Word, AreOctets(ip, Octets(a))
  PROVE  ParseIpAddr(ip) = a
<1>. DEFINE o == Octets(a)
            L(n) == Len(Decimal(o[n]))
            s(n) == OctetStart(ip)[n]
<1>1. o[1] \in Byte /\ o[2] \in Byte /\ o[3] \in Byte /\ o[4] \in Byte
      /\ a = <<256 * o[1] + o[2], 256 * o[3] + o[4]>>
  BY OctetsAreBytes
<1>2. L(1) \in 1..3 /\ L(2) \in 1..3 /\ L(3) \in 1..3 /\ L(4) \in 1..3
  BY <1>1, DecimalIs
<1>3. /\ Len(ip) = L(1) + L(2) + L(3) + L(4) + 3
      /\ IsOctet(ip, 1, o[1]) /\ IsOctet(ip, L(1) + 2, o[2])
      /\ IsOctet(ip, L(1) + L(2) + 3, o[3]) /\ IsOctet(ip, L(1) + L(2) + L(3) + 4, o[4])
  BY DEF AreOctets
<1>. HIDE DEF o
<1>4. s(1) = 1 /\ s(2) = NextStart(ip, s(1)) /\ s(3) = NextStart(ip, s(2)) /\ s(4) = NextStart(ip, s(3))
  BY StartsAre
<1>. HIDE DEF s
<1>5. s(1) = 1 /\ OctetEnd(ip, 1) = 1 + L(1) /\ Octet(ip, s(1)) = o[1]
  BY <1>1, <1>3, <1>4, OctetRead
<1>6. s(2) = L(1) + 2
  <2>1. OctetEnd(ip, 1) <= Len(ip) /\ OctetEnd(ip, 1) + 1 = L(1) + 2
    BY <1>2, <1>3, <1>5
  <2>. QED
    BY <1>4, <1>5, <2>1 DEF NextStart
<1>7. OctetEnd(ip, s(2)) = L(1) + 2 + L(2) /\ Octet(ip, s(2)) = o[2]
  <2>1. L(1) + 2 \in Nat
    BY <1>2
  <2>2. OctetEnd(ip, L(1) + 2) = L(1) + 2 + L(2) /\ Octet(ip, L(1) + 2) = o[2]
    BY <1>1, <1>3, <2>1, OctetRead
  <2>. QED
    BY <1>6, <2>2
<1>8. s(3) = L(1) + L(2) + 3
  <2>1. OctetEnd(ip, s(2)) <= Len(ip) /\ OctetEnd(ip, s(2)) + 1 = L(1) + L(2) + 3
    BY <1>2, <1>3, <1>7
  <2>. QED
    BY <1>4, <2>1 DEF NextStart
<1>9. OctetEnd(ip, s(3)) = L(1) + L(2) + 3 + L(3) /\ Octet(ip, s(3)) = o[3]
  <2>1. L(1) + L(2) + 3 \in Nat
    BY <1>2
  <2>2. OctetEnd(ip, L(1) + L(2) + 3) = L(1) + L(2) + 3 + L(3) /\ Octet(ip, L(1) + L(2) + 3) = o[3]
    BY <1>1, <1>3, <2>1, OctetRead
  <2>. QED
    BY <1>8, <2>2
<1>10. s(4) = L(1) + L(2) + L(3) + 4
  <2>1. OctetEnd(ip, s(3)) <= Len(ip) /\ OctetEnd(ip, s(3)) + 1 = L(1) + L(2) + L(3) + 4
    BY <1>2, <1>3, <1>9
  <2>. QED
    BY <1>4, <2>1 DEF NextStart
<1>11. Octet(ip, s(4)) = o[4]
  <2>1. L(1) + L(2) + L(3) + 4 \in Nat
    BY <1>2
  <2>2. Octet(ip, L(1) + L(2) + L(3) + 4) = o[4]
    BY <1>1, <1>3, <2>1, OctetRead
  <2>. QED
    BY <1>10, <2>2
<1>12. ParseIpAddr(ip) = <<256 * Octet(ip, s(1)) + Octet(ip, s(2)), 256 * Octet(ip, s(3)) + Octet(ip, s(4))>>
  BY DEF ParseIpAddr, s
<1>. QED
  BY <1>1, <1>5, <1>7, <1>9, <1>11, <1>12

\* An address is the same after it has been text, and its text fits its buffer.
LEMMA SameThroughText ==
  ASSUME NEW a \in Word \X Word
  PROVE  /\ ParseIpAddrToStr(a) \in Seq(TextChars)
         /\ Len(ParseIpAddrToStr(a)) + 1 <= AddressSize
         /\ ThroughText(a) = a
<1>. DEFINE ip == ParseIpAddrToStr(a)
            o == Octets(a)
<1>1. ip \in Seq(TextChars) /\ AreOctets(ip, o)
  BY TextOfAddress
<1>2. o[1] \in Byte /\ o[2] \in Byte /\ o[3] \in Byte /\ o[4] \in Byte
  BY OctetsAreBytes
<1>3. /\ Len(Decimal(o[1])) \in 1..3 /\ Len(Decimal(o[2])) \in 1..3
      /\ Len(Decimal(o[3])) \in 1..3 /\ Len(Decimal(o[4])) \in 1..3
  <2>. HIDE DEF o
  <2>. QED
    BY <1>2, DecimalIs
<1>4. Len(ip) = Len(Decimal(o[1])) + Len(Decimal(o[2])) + Len(Decimal(o[3])) + Len(Decimal(o[4])) + 3
  BY <1>1 DEF AreOctets
<1>5. Len(ip) + 1 <= AddressSize
  <2>. DEFINE l1 == Len(Decimal(o[1]))
              l2 == Len(Decimal(o[2]))
              l3 == Len(Decimal(o[3]))
              l4 == Len(Decimal(o[4]))
              len == Len(ip)
  <2>1. l1 \in 1..3 /\ l2 \in 1..3 /\ l3 \in 1..3 /\ l4 \in 1..3 /\ len = l1 + l2 + l3 + l4 + 3
    BY <1>3, <1>4
  <2>. HIDE DEF l1, l2, l3, l4, len
  <2>2. len + 1 <= 4 * 4
    BY <2>1
  <2>. QED
    BY <2>2 DEF AddressSize, len
<1>6. Len(ip) \in Nat
  <2>. HIDE DEF ip
  <2>. QED
    BY <1>1
<1>7. ParseIpAddr(ip) = a
  BY <1>1, <1>6, OctetsParsed
<1>. QED
  BY <1>1, <1>5, <1>7 DEF ThroughText

\* Two texts with the same octets are the same.
LEMMA SameOctets ==
  ASSUME NEW p \in Seq(TextChars), NEW q \in Seq(TextChars), NEW o,
         o[1] \in Byte, o[2] \in Byte, o[3] \in Byte, o[4] \in Byte,
         AreOctets(p, o), AreOctets(q, o)
  PROVE  p = q
<1>. DEFINE L1 == Len(Decimal(o[1]))
            L2 == Len(Decimal(o[2]))
            L3 == Len(Decimal(o[3]))
            L4 == Len(Decimal(o[4]))
<1>1. L1 \in 1..3 /\ L2 \in 1..3 /\ L3 \in 1..3 /\ L4 \in 1..3
  BY DecimalIs
<1>2. /\ Len(p) = L1 + L2 + L3 + L4 + 3 /\ IsOctet(p, 1, o[1]) /\ IsOctet(p, L1 + 2, o[2])
      /\ IsOctet(p, L1 + L2 + 3, o[3]) /\ IsOctet(p, L1 + L2 + L3 + 4, o[4])
  BY DEF AreOctets
<1>3. /\ Len(q) = L1 + L2 + L3 + L4 + 3 /\ IsOctet(q, 1, o[1]) /\ IsOctet(q, L1 + 2, o[2])
      /\ IsOctet(q, L1 + L2 + 3, o[3]) /\ IsOctet(q, L1 + L2 + L3 + 4, o[4])
  BY DEF AreOctets
<1>4. /\ p[1 + L1] = q[1 + L1]
      /\ p[L1 + 2 + L2] = q[L1 + 2 + L2]
      /\ p[L1 + L2 + 3 + L3] = q[L1 + L2 + 3 + L3]
      /\ \A i \in 1..L1 : p[1 + (i - 1)] = q[1 + (i - 1)]
      /\ \A i \in 1..L2 : p[L1 + 2 + (i - 1)] = q[L1 + 2 + (i - 1)]
      /\ \A i \in 1..L3 : p[L1 + L2 + 3 + (i - 1)] = q[L1 + L2 + 3 + (i - 1)]
      /\ \A i \in 1..L4 : p[L1 + L2 + L3 + 4 + (i - 1)] = q[L1 + L2 + L3 + 4 + (i - 1)]
  <2>1. p[1 + L1] = q[1 + L1] /\ \A i \in 1..L1 : p[1 + (i - 1)] = q[1 + (i - 1)]
    <3>1. 1 + L1 <= L1 + L2 + L3 + L4 + 3
      BY <1>1
    <3>. HIDE DEF L2, L3, L4
    <3>. QED
      BY <1>2, <1>3, <3>1 DEF IsOctet
  <2>2. p[L1 + 2 + L2] = q[L1 + 2 + L2] /\ \A i \in 1..L2 : p[L1 + 2 + (i - 1)] = q[L1 + 2 + (i - 1)]
    <3>1. L1 + 2 + L2 <= L1 + L2 + L3 + L4 + 3
      BY <1>1
    <3>. HIDE DEF L1, L3, L4
    <3>. QED
      BY <1>2, <1>3, <3>1 DEF IsOctet
  <2>3. /\ p[L1 + L2 + 3 + L3] = q[L1 + L2 + 3 + L3]
        /\ \A i \in 1..L3 : p[L1 + L2 + 3 + (i - 1)] = q[L1 + L2 + 3 + (i - 1)]
    <3>1. L1 + L2 + 3 + L3 <= L1 + L2 + L3 + L4 + 3
      BY <1>1
    <3>. HIDE DEF L1, L2, L4
    <3>. QED
      BY <1>2, <1>3, <3>1 DEF IsOctet
  <2>4. \A i \in 1..L4 : p[L1 + L2 + L3 + 4 + (i - 1)] = q[L1 + L2 + L3 + 4 + (i - 1)]
    <3>. HIDE DEF L1, L2, L3
    <3>. QED
      BY <1>2, <1>3 DEF IsOctet
  <2>. QED
    BY <2>1, <2>2, <2>3, <2>4
<1>. HIDE DEF L1, L2, L3, L4
<1>5. ASSUME NEW k \in 1..Len(p)
      PROVE  p[k] = q[k]
  <2>1. CASE k <= L1
    <3>1. k \in 1..L1 /\ 1 + (k - 1) = k
      BY <1>1, <2>1
    <3>. QED
      BY <1>4, <3>1
  <2>2. CASE k = 1 + L1
    BY <1>4, <2>2
  <2>3. CASE k >= L1 + 2 /\ k < L1 + 2 + L2
    <3>1. k - L1 - 1 \in 1..L2 /\ L1 + 2 + ((k - L1 - 1) - 1) = k
      BY <1>1, <2>3
    <3>. QED
      BY <1>4, <3>1
  <2>4. CASE k = L1 + 2 + L2
    BY <1>4, <2>4
  <2>5. CASE k >= L1 + L2 + 3 /\ k < L1 + L2 + 3 + L3
    <3>1. k - L1 - L2 - 2 \in 1..L3 /\ L1 + L2 + 3 + ((k - L1 - L2 - 2) - 1) = k
      BY <1>1, <2>5
    <3>. QED
      BY <1>4, <3>1
  <2>6. CASE k = L1 + L2 + 3 + L3
    BY <1>4, <2>6
  <2>7. CASE k >= L1 + L2 + L3 + 4
    <3>1. k - L1 - L2 - L3 - 3 \in 1..L4 /\ L1 + L2 + L3 + 4 + ((k - L1 - L2 - L3 - 3) - 1) = k
      BY <1>1, <1>2, <2>7
    <3>. QED
      BY <1>4, <3>1
  <2>. QED
    BY <1>1, <2>1, <2>2, <2>3, <2>4, <2>5, <2>6, <2>7
<1>6. Len(p) = Len(q)
  BY <1>2, <1>3
<1>. QED
  BY <1>5, <1>6

\* 10.0.0.n, as a number.
HostNumber(n) == <<2560, n>>

LEMMA HostText ==
  ASSUME NEW n \in 1..7
  PROVE  /\ HostNumber(n) \in Word \X Word
         /\ ParseIpAddrToStr(HostNumber(n)) = HostIp(<<"h", Digit(n)>>)
         /\ ParseIpAddr(HostIp(<<"h", Digit(n)>>)) = HostNumber(n)
<1>. DEFINE a == HostNumber(n)
            ip == HostIp(<<"h", Digit(n)>>)
            o == Octets(a)
<1>1. a \in Word \X Word
  BY DEF HostNumber, Word
<1>2. o = <<10, 0, 0, n>>
  BY DEF Octets, HostNumber
<1>3. o[1] = 10 /\ o[2] = 0 /\ o[3] = 0 /\ o[4] = n
  BY <1>2
<1>4. 10 \in Byte /\ 0 \in Byte /\ n \in Byte
  BY DEF Byte
<1>5. Len(Decimal(10)) = 2 /\ Decimal(10)[1] = "1" /\ Decimal(10)[2] = "0"
  <2>1. DigitsOf(10) = <<1, 0>>
    BY DEF DigitsOf
  <2>2. Len(DigitsOf(10)) = 2 /\ DigitsOf(10)[1] = 1 /\ DigitsOf(10)[2] = 0
    BY <2>1
  <2>3. Len(Decimal(10)) = 2 /\ Decimal(10)[1] = Digit(1) /\ Decimal(10)[2] = Digit(0)
    BY <1>4, <2>2, DecimalIs
  <2>. QED
    BY <2>3 DEF Digit, DigitChars
<1>6. Len(Decimal(0)) = 1 /\ Decimal(0)[1] = "0"
  <2>1. DigitsOf(0) = <<0>>
    BY DEF DigitsOf
  <2>2. Len(DigitsOf(0)) = 1 /\ DigitsOf(0)[1] = 0
    BY <2>1
  <2>3. Len(Decimal(0)) = 1 /\ Decimal(0)[1] = Digit(0)
    BY <1>4, <2>2, DecimalIs
  <2>. QED
    BY <2>3 DEF Digit, DigitChars
<1>7. Len(Decimal(n)) = 1 /\ Decimal(n)[1] = Digit(n)
  <2>1. DigitsOf(n) = <<n>>
    BY DEF DigitsOf
  <2>2. Len(DigitsOf(n)) = 1 /\ DigitsOf(n)[1] = n
    BY <2>1
  <2>. QED
    BY <1>4, <2>2, DecimalIs
<1>8. /\ Len(ip) = 8 /\ ip \in Seq(TextChars)
      /\ ip[1] = "1" /\ ip[2] = "0" /\ ip[3] = "." /\ ip[4] = "0" /\ ip[5] = "."
      /\ ip[6] = "0" /\ ip[7] = "." /\ ip[8] = Digit(n)
  <2>. DEFINE d == Digit(n)
              seven == <<"1", "0", ".", "0", ".", "0", ".">>
              one == <<d>>
  <2>0. d \in TextChars
    BY DigitFacts DEF TextChars
  <2>. HIDE DEF d
  <2>1. Tail(<<"h", d>>) = one
    OBVIOUS
  <2>2. ip = seven \o one
    BY <2>1 DEF HostIp, d
  <2>3. one \in Seq(TextChars) /\ Len(one) = 1 /\ one[1] = d
    BY <2>0
  <2>4. seven \in Seq(TextChars)
    BY DEF TextChars, Digits
  <2>5. /\ Len(seven) = 7 /\ seven[1] = "1" /\ seven[2] = "0" /\ seven[3] = "." /\ seven[4] = "0"
        /\ seven[5] = "." /\ seven[6] = "0" /\ seven[7] = "."
    OBVIOUS
  <2>. HIDE DEF seven, one, ip
  <2>6. one \in Seq(TextChars)
    BY <2>3
  <2>7. /\ seven \o one \in Seq(TextChars) /\ Len(seven \o one) = Len(seven) + Len(one)
        /\ \A i \in 1..Len(seven) : (seven \o one)[i] = seven[i]
        /\ \A i \in 1..Len(one) : (seven \o one)[Len(seven) + i] = one[i]
    BY <2>4, <2>6, Joined
  <2>8. ip \in Seq(TextChars) /\ Len(ip) = 8 /\ \A i \in 1..7 : ip[i] = seven[i]
    BY <2>2, <2>3, <2>5, <2>7
  <2>9. ip[8] = d
    BY <2>2, <2>3, <2>5, <2>7
  <2>. QED
    BY <2>5, <2>8, <2>9 DEF d
<1>. HIDE DEF ip, a
<1>9. /\ IsOctet(ip, 1, 10) /\ IsOctet(ip, 4, 0) /\ IsOctet(ip, 6, 0) /\ IsOctet(ip, 8, n)
  <2>1. IsOctet(ip, 1, 10)
    <3>1. \A i \in 1..2 : (i = 1 /\ 1 + (i - 1) = 1) \/ (i = 2 /\ 1 + (i - 1) = 2)
      OBVIOUS
    <3>2. \A i \in 1..2 : ip[1 + (i - 1)] = Decimal(10)[i]
      BY <1>5, <1>8, <3>1
    <3>3. ip[1 + 2] = "." /\ 1 + 2 <= Len(ip) + 1
      BY <1>8
    <3>. QED
      BY <1>5, <3>2, <3>3 DEF IsOctet
  <2>2. IsOctet(ip, 4, 0) /\ IsOctet(ip, 6, 0)
    <3>1. \A i \in 1..1 : i = 1 /\ 4 + (i - 1) = 4 /\ 6 + (i - 1) = 6
      OBVIOUS
    <3>2. \A i \in 1..1 : ip[4 + (i - 1)] = Decimal(0)[i] /\ ip[6 + (i - 1)] = Decimal(0)[i]
      BY <1>6, <1>8, <3>1
    <3>3. ip[4 + 1] = "." /\ ip[6 + 1] = "." /\ 4 + 1 <= Len(ip) + 1 /\ 6 + 1 <= Len(ip) + 1
      BY <1>8
    <3>4. IsOctet(ip, 4, 0)
      BY <1>6, <3>2, <3>3 DEF IsOctet
    <3>5. IsOctet(ip, 6, 0)
      BY <1>6, <3>2, <3>3 DEF IsOctet
    <3>. QED
      BY <3>4, <3>5
  <2>3. IsOctet(ip, 8, n)
    BY <1>7, <1>8 DEF IsOctet
  <2>. QED
    BY <2>1, <2>2, <2>3
<1>10. AreOctets(ip, o)
  <2>. HIDE DEF o
  <2>1. /\ Len(Decimal(o[1])) = 2 /\ Len(Decimal(o[2])) = 1
        /\ Len(Decimal(o[3])) = 1 /\ Len(Decimal(o[4])) = 1
    BY <1>3, <1>5, <1>6, <1>7
  <2>2. /\ IsOctet(ip, 1, o[1]) /\ IsOctet(ip, 2 + 2, o[2])
        /\ IsOctet(ip, 2 + 1 + 3, o[3]) /\ IsOctet(ip, 2 + 1 + 1 + 4, o[4])
    BY <1>3, <1>9
  <2>. QED
    BY <1>8, <2>1, <2>2 DEF AreOctets
<1>11. ParseIpAddr(ip) = a
  BY <1>1, <1>8, <1>10, OctetsParsed
<1>12. ParseIpAddrToStr(a) = ip
  <2>1. ParseIpAddrToStr(a) \in Seq(TextChars) /\ AreOctets(ParseIpAddrToStr(a), o)
    BY <1>1, TextOfAddress
  <2>2. ip \in Seq(TextChars)
    BY <1>8
  <2>. HIDE DEF o
  <2>3. o[1] \in Byte /\ o[2] \in Byte /\ o[3] \in Byte /\ o[4] \in Byte
    BY <1>3, <1>4
  <2>. QED
    BY <1>10, <2>1, <2>2, <2>3, SameOctets
<1>. QED
  BY <1>1, <1>11, <1>12 DEF a, ip

\* A host's address is the one its name stands for, and no two have the same.
LEMMA HostAddress ==
  ASSUME NEW h \in Hosts
  PROVE  /\ \E n \in 1..7 : NameOf[h] = <<"h", Digit(n)>> /\ AddressOf(h) = HostNumber(n)
         /\ AddressOf(h) \in Word \X Word
         /\ ParseIpAddrToStr(AddressOf(h)) = HostIp(NameOf[h])
<1>1. NameOf[h] \in HostNames
  BY WireAssumption
<1>2. PICK n \in 1..7 : NameOf[h] = <<"h", Digit(n)>>
  BY <1>1 DEF HostNames
<1>3. /\ HostNumber(n) \in Word \X Word
      /\ ParseIpAddrToStr(HostNumber(n)) = HostIp(NameOf[h])
      /\ ParseIpAddr(HostIp(NameOf[h])) = HostNumber(n)
  BY <1>2, HostText
<1>. QED
  BY <1>2, <1>3 DEF AddressOf

LEMMA HostOfAddress ==
  ASSUME NEW g \in Hosts, NEW h \in Hosts, AddressOf(g) = AddressOf(h)
  PROVE  g = h
<1>1. PICK n \in 1..7 : NameOf[h] = <<"h", Digit(n)>> /\ AddressOf(h) = HostNumber(n)
  BY HostAddress
<1>2. PICK m \in 1..7 : NameOf[g] = <<"h", Digit(m)>> /\ AddressOf(g) = HostNumber(m)
  BY HostAddress
<1>3. m = n
  BY <1>1, <1>2 DEF HostNumber
<1>. QED
  BY <1>1, <1>2, <1>3, WireAssumption DEF IsInjective

-----------------------------------------------------------------------------
(* The bytes of headers and packets *)

\* The sequence s is in p, behind the first "at" elements.
Has(p, at, s) == at + Len(s) <= Len(p) /\ \A i \in 1..Len(s) : p[at + i] = s[i]

\* One more piece of a packet leaves the pieces before it where they are.
LEMMA Extended ==
  ASSUME NEW X, NEW p \in Seq(X), NEW t \in Seq(X)
  PROVE  /\ p \o t \in Seq(X) /\ Len(p \o t) = Len(p) + Len(t)
         /\ Has(p \o t, Len(p), t)
         /\ \A at \in Nat, s \in Seq(X) : Has(p, at, s) => Has(p \o t, at, s)
<1>. DEFINE q == p \o t
<1>1. /\ q \in Seq(X) /\ Len(q) = Len(p) + Len(t)
      /\ \A i \in 1..Len(p) : q[i] = p[i]
      /\ \A i \in 1..Len(t) : q[Len(p) + i] = t[i]
  BY Joined
<1>2. Len(p) \in Nat /\ Len(t) \in Nat
  OBVIOUS
<1>. HIDE DEF q
<1>3. Has(q, Len(p), t)
  BY <1>1, <1>2 DEF Has
<1>4. ASSUME NEW at \in Nat, NEW s \in Seq(X), Has(p, at, s)
      PROVE  Has(q, at, s)
  <2>1. Len(s) \in Nat
    OBVIOUS
  <2>2. \A i \in 1..Len(s) : at + i \in 1..Len(p)
    BY <1>2, <1>4, <2>1 DEF Has
  <2>. QED
    BY <1>1, <1>2, <1>4, <2>1, <2>2 DEF Has
<1>5. q \in Seq(X) /\ Len(q) = Len(p) + Len(t)
  BY <1>1
<1>. QED
  BY <1>3, <1>4, <1>5 DEF q

LEMMA Bytes16Are ==
  ASSUME NEW n \in Word
  PROVE  /\ Bytes16(n) \in Seq(Byte) /\ Len(Bytes16(n)) = 2
         /\ Bytes16(n)[1] = n % 256 /\ Bytes16(n)[2] = n \div 256
         /\ Read16(Bytes16(n), 1) = n
<1>. DEFINE l == n % 256
            h == n \div 256
<1>1. l \in Byte /\ h \in Byte /\ l + 256 * h = n /\ Bytes16(n) = <<l, h>>
  BY BytesOfWord
<1>. HIDE DEF l, h
<1>2. <<l, h>> \in Seq(Byte) /\ Len(<<l, h>>) = 2 /\ <<l, h>>[1] = l /\ <<l, h>>[2] = h
  BY <1>1
<1>3. Read16(<<l, h>>, 1) = n
  BY <1>1 DEF Read16
<1>. QED
  BY <1>1, <1>2, <1>3 DEF l, h

LEMMA Bytes32Are ==
  ASSUME NEW a \in Word \X Word
  PROVE  /\ Bytes32(a) \in Seq(Byte) /\ Len(Bytes32(a)) = 4
         /\ Bytes32(a)[1] = a[2] % 256 /\ Bytes32(a)[2] = a[2] \div 256
         /\ Bytes32(a)[3] = a[1] % 256 /\ Bytes32(a)[4] = a[1] \div 256
<1>. DEFINE l == Bytes16(a[2])
            h == Bytes16(a[1])
<1>1. a[1] \in Word /\ a[2] \in Word
  OBVIOUS
<1>2. /\ l \in Seq(Byte) /\ Len(l) = 2 /\ l[1] = a[2] % 256 /\ l[2] = a[2] \div 256
      /\ h \in Seq(Byte) /\ Len(h) = 2 /\ h[1] = a[1] % 256 /\ h[2] = a[1] \div 256
  BY <1>1, Bytes16Are
<1>3. Bytes32(a) = l \o h
  BY DEF Bytes32
<1>. HIDE DEF l, h
<1>4. l \in Seq(Byte) /\ h \in Seq(Byte)
  BY <1>2
<1>5. /\ l \o h \in Seq(Byte) /\ Len(l \o h) = Len(l) + Len(h)
      /\ \A i \in 1..Len(l) : (l \o h)[i] = l[i]
      /\ \A i \in 1..Len(h) : (l \o h)[Len(l) + i] = h[i]
  BY <1>4, Joined
<1>. DEFINE b == Bytes32(a)
<1>6. b \in Seq(Byte) /\ Len(b) = 4
  BY <1>2, <1>3, <1>5
<1>7. b[1] = l[1] /\ b[2] = l[2] /\ b[3] = h[1] /\ b[4] = h[2]
  BY <1>2, <1>3, <1>5
<1>. QED
  BY <1>2, <1>6, <1>7

\* An address, of the four bytes it is kept in.
LEMMA Read32Is ==
  ASSUME NEW b, NEW at \in Nat, b[at] \in Byte, b[at + 1] \in Byte, b[at + 2] \in Byte, b[at + 3] \in Byte
  PROVE  /\ Read32(b, at) \in Word \X Word
         /\ Bytes32(Read32(b, at))[1] = b[at] /\ Bytes32(Read32(b, at))[2] = b[at + 1]
         /\ Bytes32(Read32(b, at))[3] = b[at + 2] /\ Bytes32(Read32(b, at))[4] = b[at + 3]
<1>. DEFINE b1 == b[at]
            b2 == b[at + 1]
            b3 == b[at + 2]
            b4 == b[at + 3]
            a == <<b3 + 256 * b4, b1 + 256 * b2>>
<1>0. b1 \in Byte /\ b2 \in Byte /\ b3 \in Byte /\ b4 \in Byte
  OBVIOUS
<1>1. Read32(b, at) = a
  <2>1. (at + 2) + 1 = at + 3
    OBVIOUS
  <2>. QED
    BY <2>1 DEF Read32, Read16
<1>. HIDE DEF b1, b2, b3, b4
<1>2. /\ b3 + 256 * b4 \in Word /\ (b3 + 256 * b4) % 256 = b3 /\ (b3 + 256 * b4) \div 256 = b4
      /\ b1 + 256 * b2 \in Word /\ (b1 + 256 * b2) % 256 = b1 /\ (b1 + 256 * b2) \div 256 = b2
  BY <1>0, WordOfBytes
<1>3. a \in Word \X Word /\ a[1] = b3 + 256 * b4 /\ a[2] = b1 + 256 * b2
  BY <1>2
<1>. HIDE DEF a
<1>4. Bytes32(a)[1] = b1 /\ Bytes32(a)[2] = b2 /\ Bytes32(a)[3] = b3 /\ Bytes32(a)[4] = b4
  BY <1>2, <1>3, Bytes32Are
<1>. QED
  BY <1>1, <1>3, <1>4 DEF b1, b2, b3, b4

\* Two addresses with the same bytes are the same.
LEMMA SameBytes32 ==
  ASSUME NEW a \in Word \X Word, NEW b \in Word \X Word, \A i \in 1..4 : Bytes32(a)[i] = Bytes32(b)[i]
  PROVE  a = b
<1>1. /\ a[2] % 256 = b[2] % 256 /\ a[2] \div 256 = b[2] \div 256
      /\ a[1] % 256 = b[1] % 256 /\ a[1] \div 256 = b[1] \div 256
  BY Bytes32Are
<1>2. a[1] \in Word /\ a[2] \in Word /\ b[1] \in Word /\ b[2] \in Word
  OBVIOUS
<1>3. /\ (a[1] % 256) + 256 * (a[1] \div 256) = a[1] /\ (a[2] % 256) + 256 * (a[2] \div 256) = a[2]
      /\ (b[1] % 256) + 256 * (b[1] \div 256) = b[1] /\ (b[2] % 256) + 256 * (b[2] \div 256) = b[2]
  BY <1>2, BytesOfWord
<1>4. a[1] = b[1] /\ a[2] = b[2]
  BY <1>1, <1>3
<1>5. a = <<a[1], a[2]>> /\ b = <<b[1], b[2]>>
  OBVIOUS
<1>. QED
  BY <1>4, <1>5

IpHeaders == [rest : {r \in Seq(Byte) : Len(r) = 8}, len : Word, sum : Word,
             src : Word \X Word, dst : Word \X Word]

LEMMA PartOf ==
  ASSUME NEW b \in Seq(Byte), NEW m \in Nat, NEW n \in Nat, m >= 1, n <= Len(b), m <= n + 1
  PROVE  /\ SubSeq(b, m, n) \in Seq(Byte) /\ Len(SubSeq(b, m, n)) = n - m + 1
         /\ \A i \in 1..(n - m + 1) : SubSeq(b, m, n)[i] = b[m + i - 1]
<1>1. SubSeq(b, m, n) = [i \in 1..(n - m + 1) |-> b[i + m - 1]]
  OBVIOUS
<1>2. n - m + 1 \in Nat /\ \A i \in 1..(n - m + 1) : i + m - 1 \in 1..Len(b) /\ i + m - 1 = m + i - 1
  OBVIOUS
<1>3. \A i \in 1..(n - m + 1) : b[i + m - 1] \in Byte
  BY <1>2
<1>. QED
  BY <1>1, <1>2, <1>3

\* Where the fields of a header are.
IpFields(b, h) ==
  /\ b \in Seq(Byte) /\ Len(b) = 20
  /\ b[1] = h.rest[1] /\ b[2] = h.rest[2]
  /\ b[3] = h.len % 256 /\ b[4] = h.len \div 256
  /\ \A i \in 1..6 : b[4 + i] = h.rest[2 + i]
  /\ b[11] = h.sum % 256 /\ b[12] = h.sum \div 256
  /\ \A i \in 1..4 : b[12 + i] = Bytes32(h.src)[i] /\ b[16 + i] = Bytes32(h.dst)[i]

LEMMA IpBytesAre ==
  ASSUME NEW h \in IpHeaders
  PROVE  IpFields(IpBytes(h), h)
<1>. DEFINE r == h.rest
            s1 == SubSeq(r, 1, 2)
            s2 == Bytes16(h.len)
            s3 == SubSeq(r, 3, 8)
            s4 == Bytes16(h.sum)
            s5 == Bytes32(h.src)
            s6 == Bytes32(h.dst)
            p2 == s1 \o s2
            p3 == p2 \o s3
            p4 == p3 \o s4
            p5 == p4 \o s5
            p6 == p5 \o s6
<1>1. r \in Seq(Byte) /\ Len(r) = 8 /\ h.len \in Word /\ h.sum \in Word
      /\ h.src \in Word \X Word /\ h.dst \in Word \X Word
  BY DEF IpHeaders
<1>2. IpBytes(h) = p6
  BY DEF IpBytes
<1>3. s1 \in Seq(Byte) /\ Len(s1) = 2 /\ s1[1] = r[1] /\ s1[2] = r[2]
  <2>. HIDE DEF r
  <2>0. r \in Seq(Byte) /\ 1 \in Nat /\ 2 \in Nat /\ 1 >= 1 /\ 2 <= Len(r) /\ 1 <= 2 + 1
    BY <1>1
  <2>1. s1 \in Seq(Byte) /\ Len(s1) = 2 - 1 + 1 /\ \A i \in 1..(2 - 1 + 1) : s1[i] = r[1 + i - 1]
    BY <2>0, PartOf
  <2>. QED
    BY <2>1
<1>4. s3 \in Seq(Byte) /\ Len(s3) = 6 /\ \A i \in 1..6 : s3[i] = r[2 + i]
  <2>. HIDE DEF r
  <2>0. r \in Seq(Byte) /\ 3 \in Nat /\ 8 \in Nat /\ 3 >= 1 /\ 8 <= Len(r) /\ 3 <= 8 + 1
    BY <1>1
  <2>1. s3 \in Seq(Byte) /\ Len(s3) = 8 - 3 + 1 /\ \A i \in 1..(8 - 3 + 1) : s3[i] = r[3 + i - 1]
    BY <2>0, PartOf
  <2>2. \A i \in 1..6 : i \in 1..(8 - 3 + 1) /\ 3 + i - 1 = 2 + i
    OBVIOUS
  <2>. QED
    BY <2>1, <2>2
<1>5. s2 \in Seq(Byte) /\ Len(s2) = 2 /\ s2[1] = h.len % 256 /\ s2[2] = h.len \div 256
  BY <1>1, Bytes16Are
<1>6. s4 \in Seq(Byte) /\ Len(s4) = 2 /\ s4[1] = h.sum % 256 /\ s4[2] = h.sum \div 256
  BY <1>1, Bytes16Are
<1>7. s5 \in Seq(Byte) /\ Len(s5) = 4 /\ s6 \in Seq(Byte) /\ Len(s6) = 4
  BY <1>1, Bytes32Are
<1>. HIDE DEF s1, s2, s3, s4, s5, s6, r
<1>8. /\ s1 \in Seq(Byte) /\ s2 \in Seq(Byte) /\ s3 \in Seq(Byte)
      /\ s4 \in Seq(Byte) /\ s5 \in Seq(Byte) /\ s6 \in Seq(Byte)
  BY <1>3, <1>4, <1>5, <1>6, <1>7
<1>9. Has(s1, 0, s1)
  BY <1>3 DEF Has
<1>10. /\ p2 \in Seq(Byte) /\ Len(p2) = Len(s1) + Len(s2) /\ Has(p2, Len(s1), s2)
       /\ \A at \in Nat, s \in Seq(Byte) : Has(s1, at, s) => Has(p2, at, s)
  BY <1>8, Extended
<1>. HIDE DEF p2
<1>11. /\ p3 \in Seq(Byte) /\ Len(p3) = Len(p2) + Len(s3) /\ Has(p3, Len(p2), s3)
       /\ \A at \in Nat, s \in Seq(Byte) : Has(p2, at, s) => Has(p3, at, s)
  <2>1. p2 \in Seq(Byte)
    BY <1>10
  <2>. QED
    BY <1>8, <2>1, Extended
<1>. HIDE DEF p3
<1>12. /\ p4 \in Seq(Byte) /\ Len(p4) = Len(p3) + Len(s4) /\ Has(p4, Len(p3), s4)
       /\ \A at \in Nat, s \in Seq(Byte) : Has(p3, at, s) => Has(p4, at, s)
  <2>1. p3 \in Seq(Byte)
    BY <1>11
  <2>. QED
    BY <1>8, <2>1, Extended
<1>. HIDE DEF p4
<1>13. /\ p5 \in Seq(Byte) /\ Len(p5) = Len(p4) + Len(s5) /\ Has(p5, Len(p4), s5)
       /\ \A at \in Nat, s \in Seq(Byte) : Has(p4, at, s) => Has(p5, at, s)
  <2>1. p4 \in Seq(Byte)
    BY <1>12
  <2>. QED
    BY <1>8, <2>1, Extended
<1>. HIDE DEF p5
<1>14. /\ p6 \in Seq(Byte) /\ Len(p6) = Len(p5) + Len(s6) /\ Has(p6, Len(p5), s6)
       /\ \A at \in Nat, s \in Seq(Byte) : Has(p5, at, s) => Has(p6, at, s)
  <2>1. p5 \in Seq(Byte)
    BY <1>13
  <2>. QED
    BY <1>8, <2>1, Extended
<1>. HIDE DEF p6
<1>15. Len(p2) = 4 /\ Len(p3) = 10 /\ Len(p4) = 12 /\ Len(p5) = 16 /\ Len(p6) = 20
  BY <1>3, <1>4, <1>5, <1>6, <1>7, <1>10, <1>11, <1>12, <1>13, <1>14
<1>16. 0 \in Nat /\ 2 \in Nat /\ 4 \in Nat /\ 10 \in Nat /\ 12 \in Nat
  OBVIOUS
<1>17. Has(s1, 0, s1) /\ Has(p2, 2, s2) /\ Has(p3, 4, s3) /\ Has(p4, 10, s4) /\ Has(p5, 12, s5) /\ Has(p6, 16, s6)
  BY <1>3, <1>9, <1>10, <1>11, <1>12, <1>13, <1>14, <1>15
<1>18. Has(p6, 0, s1) /\ Has(p6, 2, s2)
  <2>1. Has(p3, 0, s1) /\ Has(p3, 2, s2)
    BY <1>8, <1>10, <1>11, <1>16, <1>17
  <2>2. Has(p5, 0, s1) /\ Has(p5, 2, s2)
    BY <1>8, <1>12, <1>13, <1>16, <2>1
  <2>. QED
    BY <1>8, <1>14, <1>16, <2>2
<1>19. Has(p6, 4, s3) /\ Has(p6, 10, s4) /\ Has(p6, 12, s5)
  <2>1. Has(p5, 4, s3) /\ Has(p5, 10, s4)
    BY <1>8, <1>12, <1>13, <1>16, <1>17
  <2>. QED
    BY <1>8, <1>14, <1>16, <1>17, <2>1
<1>. DEFINE b == IpBytes(h)
<1>20. b \in Seq(Byte) /\ Len(b) = 20
  BY <1>2, <1>14, <1>15
<1>21. b[1] = r[1] /\ b[2] = r[2]
  BY <1>2, <1>3, <1>18 DEF Has
<1>22. b[3] = h.len % 256 /\ b[4] = h.len \div 256
  <2>1. \A i \in 1..2 : b[2 + i] = s2[i]
    BY <1>2, <1>5, <1>18 DEF Has
  <2>2. b[2 + 1] = s2[1] /\ b[2 + 2] = s2[2]
    BY <2>1
  <2>. QED
    BY <1>5, <2>2
<1>23. \A i \in 1..6 : b[4 + i] = r[2 + i]
  BY <1>2, <1>4, <1>19 DEF Has
<1>24. b[11] = h.sum % 256 /\ b[12] = h.sum \div 256
  <2>1. \A i \in 1..2 : b[10 + i] = s4[i]
    BY <1>2, <1>6, <1>19 DEF Has
  <2>2. b[10 + 1] = s4[1] /\ b[10 + 2] = s4[2]
    BY <2>1
  <2>. QED
    BY <1>6, <2>2
<1>25. \A i \in 1..4 : b[12 + i] = s5[i] /\ b[16 + i] = s6[i]
  BY <1>2, <1>7, <1>17, <1>19 DEF Has
<1>. HIDE DEF b
<1>26. IpFields(b, h)
  BY <1>20, <1>21, <1>22, <1>23, <1>24, <1>25 DEF IpFields, r, s5, s6
<1>. QED
  BY <1>26 DEF b

LEMMA ElementsOf ==
  ASSUME NEW X, NEW s \in Seq(X)
  PROVE  Len(s) \in Nat /\ \A i \in 1..Len(s) : s[i] \in X
OBVIOUS

LEMMA IpOfIs ==
  ASSUME NEW b \in Seq(Byte), Len(b) = 20
  PROVE  IpOf(b) \in IpHeaders /\ IpFields(b, IpOf(b))
<1>. DEFINE r1 == SubSeq(b, 1, 2)
            r2 == SubSeq(b, 5, 10)
            r == r1 \o r2
            h == IpOf(b)
<1>1. \A i \in 1..20 : b[i] \in Byte
  <2>1. \A i \in 1..Len(b) : b[i] \in Byte
    BY ElementsOf
  <2>. QED
    BY <2>1
<1>2. r1 \in Seq(Byte) /\ Len(r1) = 2 /\ r1[1] = b[1] /\ r1[2] = b[2]
  <2>0. 1 \in Nat /\ 2 \in Nat /\ 1 >= 1 /\ 2 <= Len(b) /\ 1 <= 2 + 1
    OBVIOUS
  <2>1. r1 \in Seq(Byte) /\ Len(r1) = 2 - 1 + 1 /\ \A i \in 1..(2 - 1 + 1) : r1[i] = b[1 + i - 1]
    BY <2>0, PartOf
  <2>. QED
    BY <2>1
<1>3. r2 \in Seq(Byte) /\ Len(r2) = 6 /\ \A i \in 1..6 : r2[i] = b[4 + i]
  <2>0. 5 \in Nat /\ 10 \in Nat /\ 5 >= 1 /\ 10 <= Len(b) /\ 5 <= 10 + 1
    OBVIOUS
  <2>1. r2 \in Seq(Byte) /\ Len(r2) = 10 - 5 + 1 /\ \A i \in 1..(10 - 5 + 1) : r2[i] = b[5 + i - 1]
    BY <2>0, PartOf
  <2>2. \A i \in 1..6 : i \in 1..(10 - 5 + 1) /\ 5 + i - 1 = 4 + i
    OBVIOUS
  <2>. QED
    BY <2>1, <2>2
<1>4. /\ r \in Seq(Byte) /\ Len(r) = 8 /\ r[1] = b[1] /\ r[2] = b[2]
      /\ \A i \in 1..6 : r[2 + i] = b[4 + i]
  <2>1. r1 \in Seq(Byte) /\ r2 \in Seq(Byte)
    BY <1>2, <1>3
  <2>. HIDE DEF r1, r2
  <2>2. /\ r1 \o r2 \in Seq(Byte) /\ Len(r1 \o r2) = Len(r1) + Len(r2)
        /\ \A i \in 1..Len(r1) : (r1 \o r2)[i] = r1[i]
        /\ \A i \in 1..Len(r2) : (r1 \o r2)[Len(r1) + i] = r2[i]
    BY <2>1, Joined
  <2>3. Len(r1) = 2 /\ Len(r2) = 6 /\ 1 \in 1..2 /\ 2 \in 1..2 /\ 2 + 6 = 8
    BY <1>2, <1>3
  <2>4. r \in Seq(Byte) /\ Len(r) = 8
    BY <2>2, <2>3
  <2>5. r[1] = b[1] /\ r[2] = b[2]
    BY <1>2, <2>2, <2>3
  <2>6. \A i \in 1..6 : r[2 + i] = r2[i]
    BY <2>2, <2>3
  <2>. QED
    BY <1>3, <2>4, <2>5, <2>6
<1>5. h = [rest |-> r, len |-> Read16(b, 3), sum |-> Read16(b, 11),
           src |-> Read32(b, 13), dst |-> Read32(b, 17)]
  BY DEF IpOf
<1>. HIDE DEF r
<1>6. /\ Read16(b, 3) \in Word /\ Read16(b, 3) % 256 = b[3] /\ Read16(b, 3) \div 256 = b[4]
      /\ Read16(b, 11) \in Word /\ Read16(b, 11) % 256 = b[11] /\ Read16(b, 11) \div 256 = b[12]
  <2>1. b[3] \in Byte /\ b[4] \in Byte /\ b[11] \in Byte /\ b[12] \in Byte
    BY <1>1
  <2>2. Read16(b, 3) = b[3] + 256 * b[4] /\ Read16(b, 11) = b[11] + 256 * b[12]
    BY DEF Read16
  <2>3. /\ b[3] + 256 * b[4] \in Word /\ (b[3] + 256 * b[4]) % 256 = b[3] /\ (b[3] + 256 * b[4]) \div 256 = b[4]
        /\ b[11] + 256 * b[12] \in Word /\ (b[11] + 256 * b[12]) % 256 = b[11]
        /\ (b[11] + 256 * b[12]) \div 256 = b[12]
    BY <2>1, WordOfBytes
  <2>. QED
    BY <2>2, <2>3
<1>7. Read32(b, 13) \in Word \X Word /\ \A i \in 1..4 : Bytes32(Read32(b, 13))[i] = b[12 + i]
  <2>1. 13 \in Nat /\ b[13] \in Byte /\ b[13 + 1] \in Byte /\ b[13 + 2] \in Byte /\ b[13 + 3] \in Byte
    BY <1>1
  <2>2. /\ Read32(b, 13) \in Word \X Word
        /\ Bytes32(Read32(b, 13))[1] = b[13] /\ Bytes32(Read32(b, 13))[2] = b[13 + 1]
        /\ Bytes32(Read32(b, 13))[3] = b[13 + 2] /\ Bytes32(Read32(b, 13))[4] = b[13 + 3]
    BY <2>1, Read32Is
  <2>3. \A i \in 1..4 : i = 1 \/ i = 2 \/ i = 3 \/ i = 4
    OBVIOUS
  <2>. QED
    BY <2>2, <2>3
<1>8. Read32(b, 17) \in Word \X Word /\ \A i \in 1..4 : Bytes32(Read32(b, 17))[i] = b[16 + i]
  <2>1. 17 \in Nat /\ b[17] \in Byte /\ b[17 + 1] \in Byte /\ b[17 + 2] \in Byte /\ b[17 + 3] \in Byte
    BY <1>1
  <2>2. /\ Read32(b, 17) \in Word \X Word
        /\ Bytes32(Read32(b, 17))[1] = b[17] /\ Bytes32(Read32(b, 17))[2] = b[17 + 1]
        /\ Bytes32(Read32(b, 17))[3] = b[17 + 2] /\ Bytes32(Read32(b, 17))[4] = b[17 + 3]
    BY <2>1, Read32Is
  <2>3. \A i \in 1..4 : i = 1 \/ i = 2 \/ i = 3 \/ i = 4
    OBVIOUS
  <2>. QED
    BY <2>2, <2>3
<1>9. h \in IpHeaders
  BY <1>4, <1>5, <1>6, <1>7, <1>8 DEF IpHeaders
<1>10. /\ h.rest = r /\ h.len = Read16(b, 3) /\ h.sum = Read16(b, 11)
       /\ h.src = Read32(b, 13) /\ h.dst = Read32(b, 17)
  BY <1>5
<1>11. IpFields(b, h)
  <2>1. /\ b[1] = h.rest[1] /\ b[2] = h.rest[2]
        /\ \A i \in 1..6 : b[4 + i] = h.rest[2 + i]
    BY <1>4, <1>10
  <2>2. /\ b[3] = h.len % 256 /\ b[4] = h.len \div 256
        /\ b[11] = h.sum % 256 /\ b[12] = h.sum \div 256
    BY <1>6, <1>10
  <2>3. \A i \in 1..4 : b[12 + i] = Bytes32(h.src)[i] /\ b[16 + i] = Bytes32(h.dst)[i]
    BY <1>7, <1>8, <1>10
  <2>. QED
    BY <2>1, <2>2, <2>3 DEF IpFields
<1>. QED
  BY <1>9, <1>11

LEMMA SealedIs ==
  ASSUME NEW h \in IpHeaders
  PROVE  Sealed(h) \in IpHeaders
<1>. DEFINE z == [h EXCEPT !.sum = 0]
            c == Cksum(IpBytes(z))
<1>1. z \in IpHeaders
  <2>1. 0 \in Word
    BY DEF Word
  <2>. QED
    BY <2>1 DEF IpHeaders
<1>. HIDE DEF z
<1>2. Len(IpBytes(z)) \in Nat /\ \A i \in 1..Len(IpBytes(z)) : IpBytes(z)[i] \in Byte
  <2>. DEFINE b == IpBytes(z)
  <2>1. b \in Seq(Byte)
    BY <1>1, IpBytesAre DEF IpFields
  <2>. HIDE DEF b
  <2>2. Len(b) \in Nat /\ \A i \in 1..Len(b) : b[i] \in Byte
    BY <2>1
  <2>. QED
    BY <2>2 DEF b
<1>3. Swap(c) \in Word
  <2>1. c \in Word
    BY <1>2, CksumIsWord
  <2>. HIDE DEF c
  <2>. QED
    BY <2>1, SwapTwice
<1>4. Sealed(h) = [h EXCEPT !.sum = Swap(c)]
  BY DEF Sealed, z
<1>. HIDE DEF c
<1>. QED
  BY <1>3, <1>4 DEF IpHeaders

LEMMA RestoredIs ==
  ASSUME NEW h \in IpHeaders
  PROVE  SealAndRestore(h) \in IpHeaders
<1>. DEFINE s == Sealed(h)
<1>1. s \in IpHeaders
  BY SealedIs
<1>2. SealAndRestore(h) = [s EXCEPT !.src = SwapLong(@), !.dst = SwapLong(@), !.len = Swap(@)]
  BY DEF SealAndRestore
<1>. HIDE DEF s
<1>3. SwapLong(s.src) \in Word \X Word /\ SwapLong(s.dst) \in Word \X Word /\ Swap(s.len) \in Word
  <2>1. s.src \in Word \X Word /\ s.dst \in Word \X Word /\ s.len \in Word
    BY <1>1 DEF IpHeaders
  <2>. QED
    BY <2>1, SwapTwice, SwapLongTwice
<1>. QED
  BY <1>1, <1>2, <1>3 DEF IpHeaders

\* A rewrite of the server, as RewriteFields has it, leaves a header.
LEMMA RewriteIsHeader ==
  ASSUME NEW h \in IpHeaders, NEW a \in Word \X Word
  PROVE  /\ ServHandlePkt(h, a) \in IpHeaders
         /\ ServHandlePkt(h, a).rest = h.rest /\ ServHandlePkt(h, a).len = h.len
         /\ ServHandlePkt(h, a).src = a /\ ServHandlePkt(h, a).dst = h.dst
         /\ ServHandlePktDest(h, a) \in IpHeaders
         /\ ServHandlePktDest(h, a).rest = h.rest /\ ServHandlePktDest(h, a).len = h.len
         /\ ServHandlePktDest(h, a).src = h.src /\ ServHandlePktDest(h, a).dst = a
<1>1. h.src \in Word \X Word /\ h.dst \in Word \X Word /\ h.len \in Word
      /\ h = [rest |-> h.rest, len |-> h.len, sum |-> h.sum, src |-> h.src, dst |-> h.dst]
  BY DEF IpHeaders
<1>2. HasFields(h, h.rest, h.len, h.src, h.dst)
  BY <1>1 DEF HasFields
<1>3. /\ HasFields(ServHandlePkt(h, a), h.rest, h.len, a, h.dst)
      /\ HasFields(ServHandlePktDest(h, a), h.rest, h.len, h.src, a)
  BY <1>1, <1>2, RewriteFields
<1>4. Swap(h.len) \in Word /\ SwapLong(a) \in Word \X Word
      /\ SwapLong(h.src) \in Word \X Word /\ SwapLong(h.dst) \in Word \X Word
  BY <1>1, SwapTwice, SwapLongTwice
<1>5. ServHandlePkt(h, a) \in IpHeaders
  <2>. DEFINE g == [h EXCEPT !.len = Swap(@), !.src = SwapLong(a), !.dst = SwapLong(@)]
  <2>1. g \in IpHeaders
    BY <1>4 DEF IpHeaders
  <2>2. ServHandlePkt(h, a) = SealAndRestore(g)
    BY DEF ServHandlePkt
  <2>. HIDE DEF g
  <2>. QED
    BY <2>1, <2>2, RestoredIs
<1>6. ServHandlePktDest(h, a) \in IpHeaders
  <2>. DEFINE g == [h EXCEPT !.len = Swap(@), !.dst = SwapLong(a), !.src = SwapLong(@)]
  <2>1. g \in IpHeaders
    BY <1>4 DEF IpHeaders
  <2>2. ServHandlePktDest(h, a) = SealAndRestore(g)
    BY DEF ServHandlePktDest
  <2>. HIDE DEF g
  <2>. QED
    BY <2>1, <2>2, RestoredIs
<1>7. /\ ServHandlePkt(h, a).rest = h.rest /\ ServHandlePkt(h, a).len = h.len
      /\ ServHandlePkt(h, a).src = a /\ ServHandlePkt(h, a).dst = h.dst
  BY <1>3 DEF HasFields
<1>8. /\ ServHandlePktDest(h, a).rest = h.rest /\ ServHandlePktDest(h, a).len = h.len
      /\ ServHandlePktDest(h, a).src = h.src /\ ServHandlePktDest(h, a).dst = a
  BY <1>3 DEF HasFields
<1>. QED
  BY <1>5, <1>6, <1>7, <1>8

LEMMA RewrittenIs ==
  ASSUME NEW bytes \in Seq(Byte), Len(bytes) >= 26, NEW ip \in IpHeaders
  PROVE  /\ Rewritten(bytes, ip) \in Seq(Byte) /\ Len(Rewritten(bytes, ip)) = Len(bytes)
         /\ \A i \in 1..6 : Rewritten(bytes, ip)[i] = bytes[i]
         /\ \A i \in 1..20 : Rewritten(bytes, ip)[6 + i] = IpBytes(ip)[i]
         /\ \A i \in 27..Len(bytes) : Rewritten(bytes, ip)[i] = bytes[i]
<1>. DEFINE n == Len(bytes)
            s1 == SubSeq(bytes, 1, 6)
            s2 == IpBytes(ip)
            s3 == SubSeq(bytes, 27, n)
            p2 == s1 \o s2
            p3 == p2 \o s3
<1>0. n \in Nat /\ n >= 26 /\ bytes \in Seq(Byte)
  OBVIOUS
<1>1. s1 \in Seq(Byte) /\ Len(s1) = 6 /\ \A i \in 1..6 : s1[i] = bytes[i]
  <2>0. 1 \in Nat /\ 6 \in Nat /\ 1 >= 1 /\ 6 <= Len(bytes) /\ 1 <= 6 + 1
    OBVIOUS
  <2>1. s1 \in Seq(Byte) /\ Len(s1) = 6 - 1 + 1 /\ \A i \in 1..(6 - 1 + 1) : s1[i] = bytes[1 + i - 1]
    BY <1>0, <2>0, PartOf
  <2>2. \A i \in 1..6 : i \in 1..(6 - 1 + 1) /\ 1 + i - 1 = i
    OBVIOUS
  <2>. QED
    BY <2>1, <2>2
<1>2. s3 \in Seq(Byte) /\ Len(s3) = n - 26 /\ \A i \in 1..(n - 26) : s3[i] = bytes[26 + i]
  <2>. HIDE DEF n
  <2>0. 27 \in Nat /\ n \in Nat /\ 27 >= 1 /\ n <= Len(bytes) /\ 27 <= n + 1
    BY <1>0 DEF n
  <2>1. s3 \in Seq(Byte) /\ Len(s3) = n - 27 + 1 /\ \A i \in 1..(n - 27 + 1) : s3[i] = bytes[27 + i - 1]
    BY <1>0, <2>0, PartOf
  <2>2. n - 27 + 1 = n - 26 /\ \A i \in 1..(n - 26) : i \in 1..(n - 27 + 1) /\ 27 + i - 1 = 26 + i
    BY <1>0
  <2>. QED
    BY <2>1, <2>2
<1>3. s2 \in Seq(Byte) /\ Len(s2) = 20
  BY IpBytesAre DEF IpFields
<1>4. Rewritten(bytes, ip) = p3
  <2>1. GreSize + 1 + 19 = 26 /\ GreSize + IpSize + 1 = 27 /\ GreSize = 6
    BY DEF GreSize, IpSize
  <2>. QED
    BY <2>1 DEF Rewritten
<1>. HIDE DEF n, s1, s2, s3
<1>5. s1 \in Seq(Byte) /\ s2 \in Seq(Byte) /\ s3 \in Seq(Byte)
  BY <1>1, <1>2, <1>3
<1>6. /\ p2 \in Seq(Byte) /\ Len(p2) = Len(s1) + Len(s2)
      /\ \A i \in 1..Len(s1) : p2[i] = s1[i]
      /\ \A i \in 1..Len(s2) : p2[Len(s1) + i] = s2[i]
  BY <1>5, Joined
<1>. HIDE DEF p2
<1>7. /\ p3 \in Seq(Byte) /\ Len(p3) = Len(p2) + Len(s3)
      /\ \A i \in 1..Len(p2) : p3[i] = p2[i]
      /\ \A i \in 1..Len(s3) : p3[Len(p2) + i] = s3[i]
  <2>1. p2 \in Seq(Byte)
    BY <1>6
  <2>. QED
    BY <1>5, <2>1, Joined
<1>. HIDE DEF p3
<1>8. Len(p2) = 26
  BY <1>1, <1>3, <1>6
<1>9. p3 \in Seq(Byte) /\ Len(p3) = n
  BY <1>0, <1>2, <1>7, <1>8
<1>10. \A i \in 1..6 : p3[i] = bytes[i]
  <2>. SUFFICES ASSUME NEW i \in 1..6 PROVE p3[i] = bytes[i]
    OBVIOUS
  <2>1. i \in 1..Len(s1) /\ i \in 1..Len(p2)
    BY <1>1, <1>8
  <2>2. p3[i] = p2[i] /\ p2[i] = s1[i] /\ s1[i] = bytes[i]
    BY <1>1, <1>6, <1>7, <2>1
  <2>. QED
    BY <2>2
<1>11. \A i \in 1..20 : p3[6 + i] = s2[i]
  <2>1. \A i \in 1..20 : p2[6 + i] = s2[i] /\ 6 + i \in 1..26
    <3>1. \A i \in 1..20 : 6 + i \in 1..26
      OBVIOUS
    <3>2. \A i \in 1..20 : p2[6 + i] = s2[i]
      BY <1>1, <1>3, <1>6
    <3>. QED
      BY <3>1, <3>2
  <2>. QED
    BY <1>7, <1>8, <2>1
<1>12. \A i \in 27..n : p3[i] = bytes[i]
  <2>. TAKE i \in 27..n
  <2>1. i - 26 \in 1..(n - 26) /\ 26 + (i - 26) = i
    BY <1>0
  <2>2. p3[26 + (i - 26)] = s3[i - 26] /\ s3[i - 26] = bytes[26 + (i - 26)]
    BY <1>2, <1>7, <1>8, <2>1
  <2>. QED
    BY <2>1, <2>2
<1>. QED
  BY <1>4, <1>9, <1>10, <1>11, <1>12 DEF n, s2

\* The header of a packet with its GRE header is twenty bytes of it.
LEMMA IpInIs ==
  ASSUME NEW b \in Seq(Byte), Len(b) >= 26
  PROVE  IpIn(b) \in IpHeaders /\ IpFields(SubSeq(b, 7, 26), IpIn(b))
<1>. DEFINE s == SubSeq(b, 7, 26)
<1>1. s \in Seq(Byte) /\ Len(s) = 20
  <2>0. Len(b) \in Nat
    OBVIOUS
  <2>1. 7 \in Nat /\ 26 \in Nat /\ 7 >= 1 /\ 26 <= Len(b) /\ 7 <= 26 + 1
    BY <2>0
  <2>2. s \in Seq(Byte) /\ Len(s) = 26 - 7 + 1
    BY <2>1, PartOf
  <2>. QED
    BY <2>2
<1>2. IpIn(b) = IpOf(s)
  BY DEF IpIn, GreSize, IpSize
<1>. HIDE DEF s
<1>3. IpOf(s) \in IpHeaders /\ IpFields(s, IpOf(s))
  BY <1>1, IpOfIs
<1>. QED
  BY <1>2, <1>3 DEF s

LEMMA HeaderPart ==
  ASSUME NEW b \in Seq(Byte), Len(b) >= 26
  PROVE  \A i \in 1..20 : SubSeq(b, 7, 26)[i] = b[6 + i]
<1>1. 7 \in Nat /\ 26 \in Nat /\ 7 >= 1 /\ 26 <= Len(b) /\ 7 <= 26 + 1
  OBVIOUS
<1>. DEFINE s == SubSeq(b, 7, 26)
<1>2. \A i \in 1..(26 - 7 + 1) : s[i] = b[7 + i - 1]
  BY <1>1, PartOf
<1>. HIDE DEF s
<1>3. \A i \in 1..20 : i \in 1..(26 - 7 + 1) /\ 7 + i - 1 = 6 + i
  OBVIOUS
<1>. QED
  BY <1>2, <1>3 DEF s

\* serv_handle_pkt: all bytes but those of the checksum and the source are kept.
LEMMA RequestRewritten ==
  ASSUME NEW b \in Seq(Byte), Len(b) >= 26, NEW a \in Word \X Word
  PROVE  LET r == Rewritten(b, ServHandlePkt(IpIn(b), a))
         IN  /\ r \in Seq(Byte) /\ Len(r) = Len(b)
             /\ \A i \in 1..Len(b) : i \notin 17..22 => r[i] = b[i]
             /\ \A i \in 1..4 : r[18 + i] = Bytes32(a)[i]
<1>. DEFINE h == IpIn(b)
            g == ServHandlePkt(h, a)
            s == SubSeq(b, 7, 26)
            t == IpBytes(g)
            r == Rewritten(b, g)
<1>1. h \in IpHeaders /\ IpFields(s, h)
  BY IpInIs
<1>2. \A i \in 1..20 : s[i] = b[6 + i]
  BY HeaderPart
<1>. HIDE DEF h, s
<1>3. g \in IpHeaders /\ g.rest = h.rest /\ g.len = h.len /\ g.src = a /\ g.dst = h.dst
  BY <1>1, RewriteIsHeader
<1>. HIDE DEF g
<1>4. IpFields(t, g)
  BY <1>3, IpBytesAre
<1>5. /\ r \in Seq(Byte) /\ Len(r) = Len(b)
      /\ \A i \in 1..6 : r[i] = b[i]
      /\ \A i \in 1..20 : r[6 + i] = t[i]
      /\ \A i \in 27..Len(b) : r[i] = b[i]
  BY <1>3, RewrittenIs
<1>. HIDE DEF t, r
<1>6. /\ t[1] = s[1] /\ t[2] = s[2] /\ t[3] = s[3] /\ t[4] = s[4]
      /\ \A i \in 1..6 : t[4 + i] = s[4 + i]
      /\ \A i \in 1..4 : t[12 + i] = Bytes32(a)[i] /\ t[16 + i] = s[16 + i]
  <2>1. /\ s[1] = h.rest[1] /\ s[2] = h.rest[2] /\ s[3] = h.len % 256 /\ s[4] = h.len \div 256
        /\ \A i \in 1..6 : s[4 + i] = h.rest[2 + i]
    BY <1>1 DEF IpFields
  <2>2. /\ t[1] = g.rest[1] /\ t[2] = g.rest[2] /\ t[3] = g.len % 256 /\ t[4] = g.len \div 256
        /\ \A i \in 1..6 : t[4 + i] = g.rest[2 + i]
    BY <1>4 DEF IpFields
  <2>3. \A i \in 1..4 : s[12 + i] = Bytes32(h.src)[i] /\ s[16 + i] = Bytes32(h.dst)[i]
    BY <1>1 DEF IpFields
  <2>4. \A i \in 1..4 : t[12 + i] = Bytes32(g.src)[i] /\ t[16 + i] = Bytes32(g.dst)[i]
    BY <1>4 DEF IpFields
  <2>5. \A i \in 1..6 : t[4 + i] = s[4 + i]
    BY <1>3, <2>1, <2>2
  <2>6. t[1] = s[1] /\ t[2] = s[2] /\ t[3] = s[3] /\ t[4] = s[4]
    BY <1>3, <2>1, <2>2
  <2>. QED
    BY <1>3, <2>3, <2>4, <2>5, <2>6
<1>7. \A i \in 1..20 : i \notin 11..16 => t[i] = s[i]
  <2>. TAKE i \in 1..20
  <2>. HAVE i \notin 11..16
  <2>1. CASE i <= 4
    <3>1. i = 1 \/ i = 2 \/ i = 3 \/ i = 4
      BY <2>1
    <3>. QED
      BY <1>6, <3>1
  <2>2. CASE i \in 5..10
    <3>1. i - 4 \in 1..6 /\ 4 + (i - 4) = i
      BY <2>2
    <3>. QED
      BY <1>6, <3>1
  <2>3. CASE i > 16
    <3>1. i - 16 \in 1..4 /\ 16 + (i - 16) = i
      BY <2>3
    <3>. QED
      BY <1>6, <3>1
  <2>. QED
    BY <2>1, <2>2, <2>3
<1>8. \A i \in 1..Len(b) : i \notin 17..22 => r[i] = b[i]
  <2>. TAKE i \in 1..Len(b)
  <2>. HAVE i \notin 17..22
  <2>1. CASE i <= 6
    <3>1. i \in 1..6
      BY <2>1
    <3>. QED
      BY <1>5, <3>1
  <2>2. CASE i \in 7..26
    <3>1. i - 6 \in 1..20 /\ i - 6 \notin 11..16 /\ 6 + (i - 6) = i
      BY <2>2
    <3>2. r[6 + (i - 6)] = t[i - 6]
      BY <1>5, <3>1
    <3>3. t[i - 6] = s[i - 6]
      BY <1>7, <3>1
    <3>4. s[i - 6] = b[6 + (i - 6)]
      BY <1>2, <3>1
    <3>. QED
      BY <3>1, <3>2, <3>3, <3>4
  <2>3. CASE i >= 27
    <3>1. i \in 27..Len(b)
      BY <2>3
    <3>. QED
      BY <1>5, <3>1
  <2>4. i <= 6 \/ i \in 7..26 \/ i >= 27
    OBVIOUS
  <2>. QED
    BY <2>1, <2>2, <2>3, <2>4
<1>9. \A i \in 1..4 : r[18 + i] = Bytes32(a)[i]
  <2>. TAKE i \in 1..4
  <2>1. 12 + i \in 1..20 /\ 6 + (12 + i) = 18 + i
    OBVIOUS
  <2>2. r[6 + (12 + i)] = t[12 + i]
    BY <1>5, <2>1
  <2>. QED
    BY <1>6, <2>1, <2>2
<1>. QED
  BY <1>5, <1>8, <1>9 DEF r, g, h

\* serv_handle_pkt_dest: all bytes but those of the checksum and the destination.
LEMMA ReplyRewritten ==
  ASSUME NEW b \in Seq(Byte), Len(b) >= 26, NEW a \in Word \X Word
  PROVE  LET r == Rewritten(b, ServHandlePktDest(IpIn(b), a))
         IN  /\ r \in Seq(Byte) /\ Len(r) = Len(b)
             /\ \A i \in 1..Len(b) : i \notin 17..18 /\ i \notin 23..26 => r[i] = b[i]
             /\ \A i \in 1..4 : r[22 + i] = Bytes32(a)[i]
<1>. DEFINE h == IpIn(b)
            g == ServHandlePktDest(h, a)
            s == SubSeq(b, 7, 26)
            t == IpBytes(g)
            r == Rewritten(b, g)
<1>1. h \in IpHeaders /\ IpFields(s, h)
  BY IpInIs
<1>2. \A i \in 1..20 : s[i] = b[6 + i]
  BY HeaderPart
<1>. HIDE DEF h, s
<1>3. g \in IpHeaders /\ g.rest = h.rest /\ g.len = h.len /\ g.src = h.src /\ g.dst = a
  BY <1>1, RewriteIsHeader
<1>. HIDE DEF g
<1>4. IpFields(t, g)
  BY <1>3, IpBytesAre
<1>5. /\ r \in Seq(Byte) /\ Len(r) = Len(b)
      /\ \A i \in 1..6 : r[i] = b[i]
      /\ \A i \in 1..20 : r[6 + i] = t[i]
      /\ \A i \in 27..Len(b) : r[i] = b[i]
  BY <1>3, RewrittenIs
<1>. HIDE DEF t, r
<1>6. /\ t[1] = s[1] /\ t[2] = s[2] /\ t[3] = s[3] /\ t[4] = s[4]
      /\ \A i \in 1..6 : t[4 + i] = s[4 + i]
      /\ \A i \in 1..4 : t[12 + i] = s[12 + i] /\ t[16 + i] = Bytes32(a)[i]
  <2>1. /\ s[1] = h.rest[1] /\ s[2] = h.rest[2] /\ s[3] = h.len % 256 /\ s[4] = h.len \div 256
        /\ \A i \in 1..6 : s[4 + i] = h.rest[2 + i]
    BY <1>1 DEF IpFields
  <2>2. /\ t[1] = g.rest[1] /\ t[2] = g.rest[2] /\ t[3] = g.len % 256 /\ t[4] = g.len \div 256
        /\ \A i \in 1..6 : t[4 + i] = g.rest[2 + i]
    BY <1>4 DEF IpFields
  <2>3. \A i \in 1..4 : s[12 + i] = Bytes32(h.src)[i] /\ s[16 + i] = Bytes32(h.dst)[i]
    BY <1>1 DEF IpFields
  <2>4. \A i \in 1..4 : t[12 + i] = Bytes32(g.src)[i] /\ t[16 + i] = Bytes32(g.dst)[i]
    BY <1>4 DEF IpFields
  <2>5. \A i \in 1..6 : t[4 + i] = s[4 + i]
    BY <1>3, <2>1, <2>2
  <2>6. t[1] = s[1] /\ t[2] = s[2] /\ t[3] = s[3] /\ t[4] = s[4]
    BY <1>3, <2>1, <2>2
  <2>. QED
    BY <1>3, <2>3, <2>4, <2>5, <2>6
<1>7. \A i \in 1..20 : i \notin 11..12 /\ i <= 16 => t[i] = s[i]
  <2>. TAKE i \in 1..20
  <2>. HAVE i \notin 11..12 /\ i <= 16
  <2>1. CASE i <= 4
    <3>1. i = 1 \/ i = 2 \/ i = 3 \/ i = 4
      BY <2>1
    <3>. QED
      BY <1>6, <3>1
  <2>2. CASE i \in 5..10
    <3>1. i - 4 \in 1..6 /\ 4 + (i - 4) = i
      BY <2>2
    <3>. QED
      BY <1>6, <3>1
  <2>3. CASE i > 12
    <3>1. i - 12 \in 1..4 /\ 12 + (i - 12) = i
      BY <2>3
    <3>. QED
      BY <1>6, <3>1
  <2>. QED
    BY <2>1, <2>2, <2>3
<1>8. \A i \in 1..Len(b) : i \notin 17..18 /\ i \notin 23..26 => r[i] = b[i]
  <2>. TAKE i \in 1..Len(b)
  <2>. HAVE i \notin 17..18 /\ i \notin 23..26
  <2>1. CASE i <= 6
    <3>1. i \in 1..6
      BY <2>1
    <3>. QED
      BY <1>5, <3>1
  <2>2. CASE i \in 7..26
    <3>1. i - 6 \in 1..20 /\ i - 6 \notin 11..12 /\ i - 6 <= 16 /\ 6 + (i - 6) = i
      BY <2>2
    <3>2. r[6 + (i - 6)] = t[i - 6]
      BY <1>5, <3>1
    <3>3. t[i - 6] = s[i - 6]
      BY <1>7, <3>1
    <3>4. s[i - 6] = b[6 + (i - 6)]
      BY <1>2, <3>1
    <3>. QED
      BY <3>1, <3>2, <3>3, <3>4
  <2>3. CASE i >= 27
    <3>1. i \in 27..Len(b)
      BY <2>3
    <3>. QED
      BY <1>5, <3>1
  <2>4. i <= 6 \/ i \in 7..26 \/ i >= 27
    OBVIOUS
  <2>. QED
    BY <2>1, <2>2, <2>3, <2>4
<1>9. \A i \in 1..4 : r[22 + i] = Bytes32(a)[i]
  <2>. TAKE i \in 1..4
  <2>1. 16 + i \in 1..20 /\ 6 + (16 + i) = 22 + i
    OBVIOUS
  <2>2. r[6 + (16 + i)] = t[16 + i]
    BY <1>5, <2>1
  <2>. QED
    BY <1>6, <2>1, <2>2
<1>. QED
  BY <1>5, <1>8, <1>9 DEF r, g, h

LEMMA CksumOf ==
  ASSUME NEW b \in Seq(Byte)
  PROVE  Swap(Cksum(b)) \in Word
<1>1. Cksum(b) \in Word
  <2>1. Len(b) \in Nat /\ \A i \in 1..Len(b) : b[i] \in Byte
    BY ElementsOf
  <2>. QED
    BY <2>1, CksumIsWord
<1>. QED
  BY <1>1, SwapTwice

LEMMA GreBytesAre == GreBytes \in Seq(Byte) /\ Len(GreBytes) = 6
<1>. DEFINE s1 == Bytes16(Swap(1))
            s2 == Bytes16(Swap(EthertypeIpv4))
            fields == s1 \o s2
            none == <<0, 0>>
            c == Swap(Cksum(fields \o none))
            s3 == Bytes16(c)
<1>1. s1 \in Seq(Byte) /\ Len(s1) = 2 /\ s2 \in Seq(Byte) /\ Len(s2) = 2
  <2>1. 1 \in Word /\ EthertypeIpv4 \in Word
    BY DEF Word, EthertypeIpv4
  <2>2. Swap(1) \in Word /\ Swap(EthertypeIpv4) \in Word
    BY <2>1, SwapTwice
  <2>. QED
    BY <2>2, Bytes16Are
<1>2. GreBytes = fields \o s3
  BY DEF GreBytes
<1>3. none \in Seq(Byte) /\ Len(none) = 2
  <2>1. 0 \in Byte
    BY DEF Byte
  <2>. QED
    BY <2>1
<1>. HIDE DEF s1, s2, none
<1>4. fields \in Seq(Byte) /\ Len(fields) = 4
  <2>1. s1 \in Seq(Byte) /\ s2 \in Seq(Byte)
    BY <1>1
  <2>2. s1 \o s2 \in Seq(Byte) /\ Len(s1 \o s2) = Len(s1) + Len(s2)
    BY <2>1, Joined
  <2>. QED
    BY <1>1, <2>2
<1>. HIDE DEF fields
<1>5. s3 \in Seq(Byte) /\ Len(s3) = 2
  <2>1. fields \in Seq(Byte) /\ none \in Seq(Byte)
    BY <1>3, <1>4
  <2>2. fields \o none \in Seq(Byte)
    BY <2>1, Joined
  <2>3. c \in Word
    BY <2>2, CksumOf
  <2>. HIDE DEF c
  <2>. QED
    BY <2>3, Bytes16Are
<1>. HIDE DEF s3
<1>6. fields \in Seq(Byte) /\ s3 \in Seq(Byte)
  BY <1>4, <1>5
<1>7. fields \o s3 \in Seq(Byte) /\ Len(fields \o s3) = Len(fields) + Len(s3)
  BY <1>6, Joined
<1>. QED
  BY <1>2, <1>4, <1>5, <1>7

\* The second byte of the port and of the sequence number.
LEMMA TcpBytesAre ==
  ASSUME NEW flags \in Byte
  PROVE  /\ TcpBytes(flags) \in Seq(Byte) /\ Len(TcpBytes(flags)) = 20
         /\ TcpBytes(flags)[2] = 198 /\ TcpBytes(flags)[6] = 0
<1>. DEFINE port == Bytes16(Swap(Port))
            rest == <<0, 0, 0, 0, 0, 0, 0, 0, 0, flags, 0, 0>>
            none == <<0, 0, 0, 0>>
            end == <<0, 0>>
            ports == port \o port
            before == ports \o rest
            c == Swap(Cksum(before \o none))
            sum == Bytes16(c)
            most == before \o sum
<1>1. port \in Seq(Byte) /\ Len(port) = 2 /\ port[2] = 198
  <2>1. Port \in Word /\ Swap(Port) = 50755 /\ 50755 \div 256 = 198
    BY DEF Word, Port, Swap
  <2>2. Swap(Port) \in Word
    BY <2>1, SwapTwice
  <2>3. port \in Seq(Byte) /\ Len(port) = 2 /\ port[2] = Swap(Port) \div 256
    BY <2>2, Bytes16Are
  <2>. QED
    BY <2>1, <2>3
<1>2. 0 \in Byte
  BY DEF Byte
<1>3. rest \in Seq(Byte) /\ Len(rest) = 12 /\ rest[2] = 0
  BY <1>2
<1>4. none \in Seq(Byte) /\ end \in Seq(Byte) /\ Len(end) = 2
  BY <1>2
<1>5. TcpBytes(flags) = most \o end
  BY DEF TcpBytes
<1>. HIDE DEF port, rest, none, end
<1>6. ports \in Seq(Byte) /\ Len(ports) = 4 /\ ports[2] = 198
  <2>1. port \in Seq(Byte)
    BY <1>1
  <2>2. /\ port \o port \in Seq(Byte) /\ Len(port \o port) = Len(port) + Len(port)
        /\ \A i \in 1..Len(port) : (port \o port)[i] = port[i]
    BY <2>1, Joined
  <2>. QED
    BY <1>1, <2>2
<1>. HIDE DEF ports
<1>7. before \in Seq(Byte) /\ Len(before) = 16 /\ before[2] = 198 /\ before[6] = 0
  <2>1. ports \in Seq(Byte) /\ rest \in Seq(Byte)
    BY <1>3, <1>6
  <2>2. /\ ports \o rest \in Seq(Byte) /\ Len(ports \o rest) = Len(ports) + Len(rest)
        /\ \A i \in 1..Len(ports) : (ports \o rest)[i] = ports[i]
        /\ \A i \in 1..Len(rest) : (ports \o rest)[Len(ports) + i] = rest[i]
    BY <2>1, Joined
  <2>3. 4 + 2 = 6 /\ 2 \in 1..12 /\ 2 \in 1..4
    OBVIOUS
  <2>4. 2 \in 1..Len(rest) /\ Len(ports) + 2 = 6
    BY <1>3, <1>6
  <2>5. (ports \o rest)[Len(ports) + 2] = rest[2]
    BY <2>2, <2>4
  <2>. QED
    BY <1>3, <1>6, <2>2, <2>3, <2>4, <2>5
<1>. HIDE DEF before
<1>8. sum \in Seq(Byte) /\ Len(sum) = 2
  <2>1. before \in Seq(Byte) /\ none \in Seq(Byte)
    BY <1>4, <1>7
  <2>2. before \o none \in Seq(Byte)
    BY <2>1, Joined
  <2>3. c \in Word
    BY <2>2, CksumOf
  <2>. HIDE DEF c
  <2>. QED
    BY <2>3, Bytes16Are
<1>. HIDE DEF sum
<1>9. most \in Seq(Byte) /\ Len(most) = 18 /\ most[2] = 198 /\ most[6] = 0
  <2>1. before \in Seq(Byte) /\ sum \in Seq(Byte)
    BY <1>7, <1>8
  <2>2. /\ before \o sum \in Seq(Byte) /\ Len(before \o sum) = Len(before) + Len(sum)
        /\ \A i \in 1..Len(before) : (before \o sum)[i] = before[i]
    BY <2>1, Joined
  <2>3. 2 \in 1..Len(before) /\ 6 \in 1..Len(before)
    BY <1>7
  <2>4. (before \o sum)[2] = before[2] /\ (before \o sum)[6] = before[6]
    BY <2>2, <2>3
  <2>5. Len(before \o sum) = 18
    BY <1>7, <1>8, <2>2
  <2>. QED
    BY <1>7, <1>8, <2>2, <2>4, <2>5
<1>. HIDE DEF most
<1>10. /\ most \o end \in Seq(Byte) /\ Len(most \o end) = 20
       /\ (most \o end)[2] = 198 /\ (most \o end)[6] = 0
  <2>1. most \in Seq(Byte) /\ end \in Seq(Byte)
    BY <1>4, <1>9
  <2>2. /\ most \o end \in Seq(Byte) /\ Len(most \o end) = Len(most) + Len(end)
        /\ \A i \in 1..Len(most) : (most \o end)[i] = most[i]
    BY <2>1, Joined
  <2>3. 2 \in 1..Len(most) /\ 6 \in 1..Len(most)
    BY <1>9
  <2>4. (most \o end)[2] = most[2] /\ (most \o end)[6] = most[6]
    BY <2>2, <2>3
  <2>5. Len(most \o end) = 20
    BY <1>4, <1>9, <2>2
  <2>. QED
    BY <1>4, <1>9, <2>2, <2>4, <2>5
<1>. QED
  BY <1>5, <1>10

LEMMA SetIpIs ==
  ASSUME NEW src \in Word \X Word, NEW dst \in Word \X Word
  PROVE  SetIp(src, dst) \in IpHeaders /\ SetIp(src, dst).src = src /\ SetIp(src, dst).dst = dst
<1>. DEFINE len == Swap(MaxPayloadBytes + 20)
            h == [rest |-> NewRest, len |-> len, sum |-> 0, src |-> src, dst |-> dst]
<1>1. NewRest \in Seq(Byte) /\ Len(NewRest) = 8
  <2>1. 0 \in Byte /\ 64 \in Byte /\ 6 \in Byte
    BY DEF Byte
  <2>. QED
    BY <2>1 DEF NewRest
<1>2. len \in Word
  BY LengthIsAWord
<1>3. 0 \in Word
  BY DEF Word
<1>4. SetIp(src, dst) = Sealed(h)
  BY DEF SetIp
<1>5. HasFields(h, NewRest, len, src, dst)
  BY DEF HasFields
<1>. HIDE DEF len
<1>6. h \in IpHeaders
  BY <1>1, <1>2, <1>3 DEF IpHeaders
<1>. HIDE DEF h
<1>7. Sealed(h) \in IpHeaders /\ HasFields(Sealed(h), NewRest, len, src, dst)
  BY <1>5, <1>6, SealedIs, SealedFields
<1>8. Sealed(h).src = src /\ Sealed(h).dst = dst
  BY <1>7 DEF HasFields
<1>. QED
  BY <1>4, <1>7, <1>8

LEMMA SizesAre ==
  /\ MaxPayloadBytes \in Nat /\ MaxPayloadBytes > 0
  /\ HeaderSize = 46 /\ PacketSize = 46 + MaxPayloadBytes
  /\ C!HeaderLen = 4 /\ C!PayloadAt = 5 /\ C!PacketLen = 4 + MaxPayloadBytes
BY WireAssumption DEF C!SizeAssumption, HeaderSize, PacketSize, GreSize, IpSize, TcpSize,
                      C!HeaderLen, C!PayloadAt, C!PacketLen

LEMMA ReceivedBytes ==
  ASSUME NEW s \in Seq(Byte), NEW k \in Nat, k <= Len(s), NEW n \in Nat
  PROVE  /\ Received(s, k, n) \in Seq(Byte) /\ Len(Received(s, k, n)) = n
         /\ \A i \in 1..n : Received(s, k, n)[i] = IF i <= k THEN s[i] ELSE 0
<1>. DEFINE r == [i \in 1..n |-> IF i <= k THEN s[i] ELSE 0]
<1>1. \A i \in 1..n : (IF i <= k THEN s[i] ELSE 0) \in Byte
  <2>. TAKE i \in 1..n
  <2>1. 0 \in Byte
    BY DEF Byte
  <2>2. CASE i <= k
    <3>1. i \in 1..Len(s)
      BY <2>2
    <3>2. s[i] \in Byte
      BY <3>1, ElementsOf
    <3>. QED
      BY <2>2, <3>2
  <2>. QED
    BY <2>1, <2>2
<1>2. r \in [1..n -> Byte]
  BY <1>1
<1>3. \A i \in 1..n : r[i] = IF i <= k THEN s[i] ELSE 0
  OBVIOUS
<1>4. Received(s, k, n) = r
  BY DEF Received
<1>. HIDE DEF r
<1>5. r \in Seq(Byte) /\ Len(r) = n
  BY <1>2
<1>. QED
  BY <1>3, <1>4, <1>5

LEMMA XorBytesAre ==
  ASSUME NEW b \in Seq(Byte)
  PROVE  /\ XorBytes(b) \in Seq(Byte) /\ Len(XorBytes(b)) = Len(b)
         /\ \A i \in 1..Len(b) : XorBytes(b)[i] = Xor(b[i], KeyAt(i))
<1>. DEFINE n == Len(b)
            x == [i \in 1..n |-> Xor(b[i], KeyAt(i))]
<1>1. n \in Nat /\ \A i \in 1..n : b[i] \in Byte
  BY ElementsOf
<1>2. XorBytes(b) = x
  BY DEF XorBytes
<1>. HIDE DEF n
<1>3. \A i \in 1..n : Xor(b[i], KeyAt(i)) \in Byte
  <2>. TAKE i \in 1..n
  <2>1. i \in Nat /\ i > 0 /\ b[i] \in Byte
    BY <1>1
  <2>2. KeyAt(i) \in Byte
    BY <2>1, KeyBytes
  <2>. QED
    BY <2>1, <2>2, XorTwice
<1>4. x \in [1..n -> Byte]
  BY <1>3
<1>5. \A i \in 1..n : x[i] = Xor(b[i], KeyAt(i))
  OBVIOUS
<1>. HIDE DEF x
<1>6. x \in Seq(Byte) /\ Len(x) = n
  BY <1>1, <1>4
<1>. QED
  BY <1>2, <1>5, <1>6 DEF n

LEMMA NulPut ==
  ASSUME NEW b \in Seq(Byte), NEW j
  PROVE  /\ [b EXCEPT ![j] = 0] \in Seq(Byte) /\ Len([b EXCEPT ![j] = 0]) = Len(b)
         /\ \A i \in 1..Len(b) : [b EXCEPT ![j] = 0][i] = IF i = j THEN 0 ELSE b[i]
<1>. DEFINE n == Len(b)
            x == [b EXCEPT ![j] = 0]
<1>1. n \in Nat /\ b \in [1..n -> Byte] /\ 0 \in Byte
  <2>1. 0 \in Byte
    BY DEF Byte
  <2>2. n \in Nat /\ b \in [1..n -> Byte]
    OBVIOUS
  <2>. QED
    BY <2>1, <2>2
<1>. HIDE DEF n
<1>2. x \in [1..n -> Byte]
  BY <1>1
<1>3. \A i \in 1..n : x[i] = IF i = j THEN 0 ELSE b[i]
  BY <1>1
<1>. HIDE DEF x
<1>4. x \in Seq(Byte) /\ Len(x) = n
  BY <1>1, <1>2
<1>. QED
  BY <1>3, <1>4 DEF x, n

\* The bytes from "at" up to the first 0, or to the end.
Ends(b, at, e) ==
  /\ e \in at..(Len(b) + 1)
  /\ e <= Len(b) => b[e] = 0
  /\ \A i \in at..(e - 1) : b[i] # 0

LEMMA StrLenIs ==
  ASSUME NEW b, Len(b) \in Nat, NEW at \in Nat, at <= Len(b) + 1
  PROVE  StrLen(b, at) \in Nat /\ Ends(b, at, at + StrLen(b, at))
<1>. DEFINE n == Len(b)
            T == {e \in Nat : e \in at..(n + 1) /\ (e <= n => b[e] = 0)}
            Z(e) == (e <= n => b[e] = 0) /\ \A i \in at..(e - 1) : b[i] # 0
            D == at..(n + 1)
            end == CHOOSE e \in D : Z(e)
<1>1. n \in Nat /\ at <= n + 1
  OBVIOUS
<1>. HIDE DEF n
<1>2. T \in SUBSET Nat /\ T # {}
  <2>1. n + 1 \in T
    BY <1>1
  <2>. QED
    BY <2>1
<1>3. PICK e \in T : \A k \in T : e <= k
  <2>. HIDE DEF T
  <2>. QED
    BY <1>2, LeastOf
<1>4. e \in D /\ Z(e)
  <2>1. e \in D /\ (e <= n => b[e] = 0)
    BY <1>3
  <2>2. ASSUME NEW i \in at..(e - 1), b[i] = 0
        PROVE  FALSE
    <3>1. i \in T
      BY <1>1, <2>1, <2>2
    <3>. QED
      BY <1>1, <1>3, <2>1, <3>1
  <2>. QED
    BY <2>1, <2>2
<1>5. end \in D /\ Z(end)
  <2>. HIDE DEF D, Z
  <2>. QED
    BY <1>4
<1>6. StrLen(b, at) = end - at
  BY DEF StrLen, n
<1>. HIDE DEF end
<1>7. end - at \in Nat /\ at + (end - at) = end
  BY <1>1, <1>5
<1>. QED
  BY <1>5, <1>6, <1>7 DEF Ends, n

\* The same for cells.
LEMMA TextEndIs ==
  ASSUME NEW cs, Len(cs) \in Nat, NEW at \in Nat, NEW e \in at..(Len(cs) + 1),
         e <= Len(cs) => cs[e] = C!Nul, \A i \in at..(e - 1) : cs[i] # C!Nul
  PROVE  C!TextEnd(cs, at) = e
<1>. DEFINE n == Len(cs)
            Z(f) == (f <= n => cs[f] = C!Nul) /\ \A i \in at..(f - 1) : cs[i] # C!Nul
            D == at..(n + 1)
<1>1. n \in Nat /\ e \in D /\ Z(e)
  OBVIOUS
<1>2. ASSUME NEW f \in D, Z(f)
      PROVE  f = e
  <2>. HIDE DEF n
  <2>1. CASE f < e
    <3>1. f \in at..(e - 1) /\ f <= n
      BY <1>1, <2>1
    <3>. QED
      BY <1>1, <1>2, <3>1
  <2>2. CASE e < f
    <3>1. e \in at..(f - 1) /\ e <= n
      BY <1>1, <2>2
    <3>. QED
      BY <1>1, <1>2, <3>1
  <2>. QED
    BY <1>1, <2>1, <2>2
<1>3. C!TextEnd(cs, at) = CHOOSE f \in D : Z(f)
  BY DEF C!TextEnd
<1>. HIDE DEF D, Z
<1>. QED
  BY <1>1, <1>2, <1>3

LEMMA PacketBytesAre ==
  ASSUME NEW src \in Word \X Word, NEW dst \in Word \X Word, NEW flags \in Byte,
         NEW text \in Seq(Byte), Len(text) <= MaxPayloadBytes
  PROVE  LET b == PacketBytes(src, dst, flags, text)
         IN  /\ b \in Seq(Byte) /\ Len(b) = 46 + MaxPayloadBytes
             /\ \A i \in 1..4 : b[18 + i] = Bytes32(src)[i] /\ b[22 + i] = Bytes32(dst)[i]
             /\ b[28] = 198 /\ b[32] = 0
             /\ \A i \in 1..MaxPayloadBytes : b[46 + i] = IF i <= Len(text) THEN text[i] ELSE 0
<1>. DEFINE g == GreBytes
            h == SetIp(src, dst)
            ip == IpBytes(h)
            tcp == TcpBytes(flags)
            len == Len(text)
            payload == Received(text, len, MaxPayloadBytes)
            p2 == g \o ip
            p3 == p2 \o tcp
            p4 == p3 \o payload
<1>1. g \in Seq(Byte) /\ Len(g) = 6
  BY GreBytesAre
<1>2. h \in IpHeaders /\ h.src = src /\ h.dst = dst
  BY SetIpIs
<1>. HIDE DEF h
<1>3. IpFields(ip, h)
  BY <1>2, IpBytesAre
<1>4. ip \in Seq(Byte) /\ Len(ip) = 20
  BY <1>3 DEF IpFields
<1>5. \A i \in 1..4 : ip[12 + i] = Bytes32(src)[i] /\ ip[16 + i] = Bytes32(dst)[i]
  BY <1>2, <1>3 DEF IpFields
<1>6. tcp \in Seq(Byte) /\ Len(tcp) = 20 /\ tcp[2] = 198 /\ tcp[6] = 0
  BY TcpBytesAre
<1>7. MaxPayloadBytes \in Nat
  BY SizesAre
<1>8. len \in Nat /\ len <= MaxPayloadBytes
  OBVIOUS
<1>9. /\ payload \in Seq(Byte) /\ Len(payload) = MaxPayloadBytes
      /\ \A i \in 1..MaxPayloadBytes : payload[i] = IF i <= len THEN text[i] ELSE 0
  <2>1. len <= Len(text)
    BY <1>8
  <2>. HIDE DEF len
  <2>. QED
    BY <1>7, <1>8, <2>1, ReceivedBytes
<1>10. PacketBytes(src, dst, flags, text) = p4
  BY DEF PacketBytes, h
<1>. HIDE DEF g, ip, tcp, payload, len
<1>11. g \in Seq(Byte) /\ ip \in Seq(Byte) /\ tcp \in Seq(Byte) /\ payload \in Seq(Byte)
  BY <1>1, <1>4, <1>6, <1>9
<1>12. /\ p2 \in Seq(Byte) /\ Len(p2) = Len(g) + Len(ip) /\ Has(p2, Len(g), ip)
  BY <1>11, Extended
<1>. HIDE DEF p2
<1>13. /\ p3 \in Seq(Byte) /\ Len(p3) = Len(p2) + Len(tcp) /\ Has(p3, Len(p2), tcp)
       /\ \A at \in Nat, s \in Seq(Byte) : Has(p2, at, s) => Has(p3, at, s)
  <2>1. p2 \in Seq(Byte)
    BY <1>12
  <2>. QED
    BY <1>11, <2>1, Extended
<1>. HIDE DEF p3
<1>14. /\ p4 \in Seq(Byte) /\ Len(p4) = Len(p3) + Len(payload) /\ Has(p4, Len(p3), payload)
       /\ \A at \in Nat, s \in Seq(Byte) : Has(p3, at, s) => Has(p4, at, s)
  <2>1. p3 \in Seq(Byte)
    BY <1>13
  <2>. QED
    BY <1>11, <2>1, Extended
<1>. HIDE DEF p4
<1>15. Len(p2) = 26 /\ Len(p3) = 46 /\ Len(p4) = 46 + MaxPayloadBytes
  BY <1>1, <1>4, <1>6, <1>9, <1>12, <1>13, <1>14
<1>16. 6 \in Nat /\ 26 \in Nat
  OBVIOUS
<1>17. Has(p2, 6, ip) /\ Has(p3, 26, tcp) /\ Has(p4, 46, payload)
  BY <1>1, <1>12, <1>13, <1>14, <1>15
<1>18. Has(p4, 6, ip) /\ Has(p4, 26, tcp)
  <2>1. Has(p3, 6, ip)
    BY <1>11, <1>13, <1>16, <1>17
  <2>. QED
    BY <1>11, <1>14, <1>16, <1>17, <2>1
<1>19. \A i \in 1..4 : p4[18 + i] = Bytes32(src)[i] /\ p4[22 + i] = Bytes32(dst)[i]
  <2>. TAKE i \in 1..4
  <2>1. \A j \in 1..20 : p4[6 + j] = ip[j]
    BY <1>4, <1>18 DEF Has
  <2>2. 12 + i \in 1..20 /\ 16 + i \in 1..20 /\ 6 + (12 + i) = 18 + i /\ 6 + (16 + i) = 22 + i
    OBVIOUS
  <2>3. p4[6 + (12 + i)] = ip[12 + i] /\ p4[6 + (16 + i)] = ip[16 + i]
    BY <2>1, <2>2
  <2>. QED
    BY <1>5, <2>2, <2>3
<1>20. p4[28] = 198 /\ p4[32] = 0
  <2>1. \A j \in 1..20 : p4[26 + j] = tcp[j]
    BY <1>6, <1>18 DEF Has
  <2>2. p4[26 + 2] = tcp[2] /\ p4[26 + 6] = tcp[6]
    BY <2>1
  <2>. QED
    BY <1>6, <2>2
<1>21. \A i \in 1..MaxPayloadBytes : p4[46 + i] = IF i <= len THEN text[i] ELSE 0
  BY <1>9, <1>17 DEF Has
<1>. QED
  BY <1>10, <1>14, <1>15, <1>19, <1>20, <1>21 DEF len

\* The byte that bytes the key encrypts, or none, stand for.
Unmasked(byte, i, masked) == IF masked THEN Xor(byte, KeyAt(i)) ELSE byte

\* What a cell says of an address is true of its four bytes, which lie behind the
\* first "at": a host's address is there, or its last byte is 0.
AddressReal(b, at, cell) ==
  /\ cell \in [val : Hosts \cup {"zero"}, masked : BOOLEAN]
  /\ cell.val = "zero" => Unmasked(b[at + 4], 22, cell.masked) = 0
  /\ cell.val # "zero" =>
       \A j \in 1..4 : Unmasked(b[at + j], 18 + j, cell.masked) = Bytes32(AddressOf(cell.val))[j]

TextCells == [val : Range(RequestText) \cup Range(ReplyText) \cup {"zero"}, masked : BOOLEAN]

\* What the cells of a text say is true of its bytes, and the bytes that no cell stands
\* for are 0.
TextReal(b, at, cs, before) ==
  \A i \in 1..(Len(b) - at) :
    IF i <= Len(cs) - before
    THEN cs[before + i] \in TextCells /\ b[at + i] = ByteOf(cs[before + i], i)
    ELSE b[at + i] = 0

\* The bytes and the cells before the source address, with a GRE header and without.
At(gre) == IF gre THEN 18 ELSE 12
Before(gre) == IF gre THEN 1 ELSE 0

\* What the cells say of a packet is true of its bytes.
Agree(b, cs, gre) ==
  /\ b \in Seq(Byte) /\ Len(b) >= At(gre) + 28 /\ Len(b) <= At(gre) + 28 + MaxPayloadBytes
  /\ cs \in Seq(C!Cell) /\ Len(cs) >= Before(gre) + 3
  /\ Len(cs) - Before(gre) - 3 <= Len(b) - At(gre) - 28
  /\ AddressReal(b, At(gre), cs[Before(gre) + 1])
  /\ AddressReal(b, At(gre) + 4, cs[Before(gre) + 2])
  /\ cs[Before(gre) + 3].val \notin Hosts
  /\ TextReal(b, At(gre) + 28, cs, Before(gre) + 3)

\* The same of a packet that fills its buffer.
Full(b, cs, gre) ==
  /\ Agree(b, cs, gre)
  /\ Len(b) = At(gre) + 28 + MaxPayloadBytes /\ Len(cs) = Before(gre) + 3 + MaxPayloadBytes

LEMMA ZeroIsNoHost == "zero" \notin Hosts /\ "gre" \notin Hosts /\ "syn" \notin Hosts /\ "ack" \notin Hosts
BY WireAssumption DEF C!HostsAssumption

\* The characters of the two messages.
LEMMA CharFacts ==
  ASSUME NEW c \in Range(RequestText) \cup Range(ReplyText)
  PROVE  /\ c \in DOMAIN Ascii /\ c # "zero" /\ c \notin Hosts
         /\ Ascii[c] \in Byte /\ Ascii[c] # 0 /\ Ascii[c] \notin Range(Key)
<1>1. c \in DOMAIN Ascii
  BY TextAssumption DEF Range
<1>2. c # "zero" /\ c \notin Hosts
  BY <1>1, WireAssumption DEF C!HostsAssumption
<1>3. Ascii[c] \in 1..255 /\ Ascii[c] \notin Range(Key)
  BY TextAssumption
<1>4. Ascii[c] \in Byte /\ Ascii[c] # 0
  <2>. DEFINE a == Ascii[c]
  <2>1. a \in 1..255
    BY <1>3
  <2>. HIDE DEF a
  <2>2. a \in Byte /\ a # 0
    BY <2>1 DEF Byte
  <2>. QED
    BY <2>2 DEF a
<1>. QED
  BY <1>1, <1>2, <1>3, <1>4

LEMMA NulIs ==
  /\ C!Nul = [val |-> "zero", masked |-> FALSE]
  /\ C!Nul \in TextCells /\ C!Nul \in C!Cell
  /\ \A i : ByteOf(C!Nul, i) = 0
<1>1. C!Nul = [val |-> "zero", masked |-> FALSE]
  BY DEF C!Nul, C!Clear
<1>2. C!Nul \in TextCells
  BY <1>1 DEF TextCells
<1>3. C!Nul \in C!Cell
  BY <1>1 DEF C!Cell, C!Values
<1>4. \A i : ByteOf(C!Nul, i) = 0
  BY <1>1 DEF ByteOf
<1>. QED
  BY <1>1, <1>2, <1>3, <1>4

\* A cell of a text: the byte it stands for is 0 only if it is the cell of a 0, and XOR
\* makes of it the byte that the flipped cell stands for.
LEMMA TextCellFacts ==
  ASSUME NEW cell \in TextCells, NEW i \in Nat, i > 0
  PROVE  /\ cell \in C!Cell /\ ByteOf(cell, i) \in Byte
         /\ ByteOf(cell, i) = 0 <=> cell = C!Nul
         /\ C!Flip(cell) \in TextCells
         /\ ByteOf(C!Flip(cell), i) = Xor(ByteOf(cell, i), KeyAt(46 + i))
<1>. DEFINE v == cell.val
            clear == IF v = "zero" THEN 0 ELSE Ascii[v]
            k == KeyAt(46 + i)
            other == C!Flip(cell)
<1>1. /\ cell = [val |-> v, masked |-> cell.masked] /\ cell.masked \in BOOLEAN
      /\ v \in Range(RequestText) \cup Range(ReplyText) \cup {"zero"}
  BY DEF TextCells
<1>2. other = [val |-> v, masked |-> ~cell.masked]
  BY <1>1 DEF C!Flip
<1>3. k \in Byte /\ k \in Range(Key) /\ k # 0
  <2>1. 46 + i \in Nat /\ 46 + i > 0
    OBVIOUS
  <2>2. k \in Byte /\ k \in Range(Key) /\ k \in 1..255
    BY <2>1, KeyBytes
  <2>. HIDE DEF k
  <2>3. k # 0
    BY <2>2
  <2>. QED
    BY <2>2, <2>3
<1>4. clear \in Byte /\ (clear = 0 <=> v = "zero") /\ clear # k
  <2>1. CASE v = "zero"
    <3>1. 0 \in Byte
      BY DEF Byte
    <3>. QED
      BY <2>1, <3>1, <1>3
  <2>2. CASE v # "zero"
    <3>1. v \in Range(RequestText) \cup Range(ReplyText)
      BY <1>1, <2>2
    <3>2. Ascii[v] \in Byte /\ Ascii[v] # 0 /\ Ascii[v] \notin Range(Key)
      BY <3>1, CharFacts
    <3>. QED
      BY <1>3, <2>2, <3>2
  <2>. QED
    BY <2>1, <2>2
<1>5. /\ ByteOf(cell, i) = IF cell.masked THEN Xor(clear, k) ELSE clear
      /\ ByteOf(other, i) = IF other.masked THEN Xor(clear, k) ELSE clear
  <2>1. HeaderSize + i = 46 + i
    BY SizesAre
  <2>2. other.val = v
    BY <1>2
  <2>. HIDE DEF other
  <2>. QED
    BY <2>1, <2>2 DEF ByteOf
<1>6. other.masked = ~cell.masked
  BY <1>2
<1>7. other \in TextCells
  BY <1>1, <1>2 DEF TextCells
<1>8. cell \in C!Cell
  <2>1. v \in C!Values
    BY <1>1, CharFacts DEF C!Values
  <2>. QED
    BY <1>1, <2>1 DEF C!Cell
<1>9. cell = C!Nul <=> (v = "zero" /\ ~cell.masked)
  BY <1>1, NulIs
<1>. HIDE DEF v, clear, k, other
<1>10. Xor(clear, k) \in Byte /\ Xor(Xor(clear, k), k) = clear /\ Xor(clear, k) # 0
  BY <1>3, <1>4, XorTwice, XorZero
<1>11. CASE cell.masked
  BY <1>4, <1>5, <1>6, <1>7, <1>8, <1>9, <1>10, <1>11 DEF other, k
<1>12. CASE ~cell.masked
  BY <1>4, <1>5, <1>6, <1>7, <1>8, <1>9, <1>10, <1>12 DEF other, k
<1>. QED
  BY <1>11, <1>12

\* Both addresses lie where the key begins with the same byte.
LEMMA AddressKey ==
  /\ \A j \in 1..4 : KeyAt(22 + j) = KeyAt(18 + j) /\ KeyAt(18 + j) \in Byte
  /\ KeyAt(22) = 52 /\ KeyAt(26) = 52
<1>1. \A j \in 1..4 : ((22 + j) - 1) % 4 = ((18 + j) - 1) % 4
  OBVIOUS
<1>2. (22 - 1) % 4 = 1 /\ (26 - 1) % 4 = 1 /\ Len(Key) = 4 /\ Key[2] = 52
  BY DEF Key
<1>3. \A j \in 1..4 : KeyAt(18 + j) \in Byte
  <2>. TAKE j \in 1..4
  <2>1. 18 + j \in Nat /\ 18 + j > 0
    OBVIOUS
  <2>. QED
    BY <2>1, KeyBytes
<1>. QED
  BY <1>1, <1>2, <1>3 DEF KeyAt

\* The same four bytes somewhere else.
LEMMA AddressMoves ==
  ASSUME NEW b, NEW p, NEW at \in Nat, NEW to \in Nat, NEW cell,
         AddressReal(b, at, cell), \A j \in 1..4 : p[to + j] = b[at + j]
  PROVE  AddressReal(p, to, cell)
BY DEF AddressReal

LEMMA AddressFlipped ==
  ASSUME NEW b, NEW p, NEW at \in {18, 22}, NEW cell, AddressReal(b, at, cell),
         \A j \in 1..4 : b[at + j] \in Byte /\ p[at + j] = Xor(b[at + j], KeyAt(at + j))
  PROVE  AddressReal(p, at, C!Flip(cell))
<1>. DEFINE f == C!Flip(cell)
<1>1. cell \in [val : Hosts \cup {"zero"}, masked : BOOLEAN]
  BY DEF AddressReal
<1>2. f \in [val : Hosts \cup {"zero"}, masked : BOOLEAN] /\ f.val = cell.val /\ f.masked = ~cell.masked
  BY <1>1 DEF C!Flip
<1>. HIDE DEF f
<1>3. \A j \in 1..4 : KeyAt(at + j) = KeyAt(18 + j) /\ KeyAt(18 + j) \in Byte
  BY AddressKey
<1>4. \A j \in 1..4 : Unmasked(p[at + j], 18 + j, f.masked) = Unmasked(b[at + j], 18 + j, cell.masked)
  <2>. TAKE j \in 1..4
  <2>. DEFINE x == b[at + j]
              k == KeyAt(18 + j)
  <2>1. x \in Byte /\ k \in Byte /\ p[at + j] = Xor(x, k)
    BY <1>3
  <2>. HIDE DEF x, k
  <2>2. Xor(Xor(x, k), k) = x
    BY <2>1, XorTwice
  <2>3. cell.masked \in BOOLEAN
    BY <1>1
  <2>4. CASE cell.masked
    BY <1>2, <2>1, <2>2, <2>4 DEF Unmasked, x, k
  <2>5. CASE ~cell.masked
    BY <1>2, <2>1, <2>2, <2>5 DEF Unmasked, x, k
  <2>. QED
    BY <2>4, <2>5
<1>5. 18 + 4 = 22 /\ 4 \in 1..4
  OBVIOUS
<1>6. Unmasked(p[at + 4], 22, f.masked) = Unmasked(b[at + 4], 22, cell.masked)
  BY <1>4, <1>5
<1>7. /\ f.val = "zero" => Unmasked(p[at + 4], 22, f.masked) = 0
      /\ f.val # "zero" =>
           \A j \in 1..4 : Unmasked(p[at + j], 18 + j, f.masked) = Bytes32(AddressOf(f.val))[j]
  BY <1>2, <1>4, <1>6 DEF AddressReal
<1>. QED
  BY <1>2, <1>7 DEF AddressReal, f

\* An address that has not arrived whole.
LEMMA AddressMissing ==
  ASSUME NEW b, NEW at, b[at + 4] = 0
  PROVE  AddressReal(b, at, C!Nul)
BY NulIs DEF AddressReal, Unmasked

\* An address in clear.
LEMMA AddressSet ==
  ASSUME NEW b, NEW at, NEW h \in Hosts, \A j \in 1..4 : b[at + j] = Bytes32(AddressOf(h))[j]
  PROVE  AddressReal(b, at, C!Clear(h))
BY ZeroIsNoHost DEF AddressReal, Unmasked, C!Clear

\* How many cells arrive whole with the first k bytes.
LEMMA CellsInIs ==
  ASSUME NEW k \in Nat, NEW gre \in BOOLEAN, Len(cells) \in Nat, Len(cells) >= Before(gre) + 3
  PROVE  /\ CellsIn(k, gre) \in Nat /\ CellsIn(k, gre) <= Len(cells)
         /\ (CellsIn(k, gre) >= Before(gre) + 1) <=> (k >= At(gre) + 4)
         /\ (CellsIn(k, gre) >= Before(gre) + 2) <=> (k >= At(gre) + 8)
         /\ \A i \in 1..(Len(cells) - Before(gre) - 3) :
              (CellsIn(k, gre) >= Before(gre) + 3 + i) <=> (k >= At(gre) + 28 + i)
<1>. DEFINE n == Len(cells)
            K == IF gre THEN k ELSE k + 6
            w == WholeCells(K)
            c == IF gre THEN w ELSE w - 1
            q == CellsIn(k, gre)
<1>1. K \in Nat
  OBVIOUS
<1>2. /\ K < 6 => w = 0
      /\ 6 <= K /\ K < 22 => w = 1
      /\ 22 <= K /\ K < 26 => w = 2
      /\ 26 <= K /\ K < 46 => w = 3
      /\ 46 <= K => w = 4 + (K - 46)
  <2>1. GreSize = 6 /\ GreSize + 16 = 22 /\ GreSize + IpSize = 26 /\ HeaderSize = 46 /\ C!HeaderLen = 4
    BY SizesAre DEF GreSize, IpSize
  <2>. HIDE DEF K
  <2>2. w = CASE K < 6 -> 0
              [] 6 <= K /\ K < 22 -> 1
              [] 22 <= K /\ K < 26 -> 2
              [] 26 <= K /\ K < 46 -> 3
              [] 46 <= K -> 4 + (K - 46)
    BY <2>1 DEF WholeCells
  <2>. HIDE DEF w
  <2>. QED
    BY <1>1, <2>2
<1>3. q = IF c > n THEN n ELSE c
  <2>1. GreSize = 6
    BY DEF GreSize
  <2>. QED
    BY <2>1 DEF CellsIn, C!AtMost
<1>. HIDE DEF n, w, q
<1>4. n \in Nat /\ n >= Before(gre) + 3
  BY DEF n
<1>5. CASE gre
  <2>1. K = k /\ c = w /\ At(gre) = 18 /\ Before(gre) = 1
    BY <1>5 DEF At, Before
  <2>. HIDE DEF K, c
  <2>2. w \in Nat /\ (w >= 2 <=> k >= 22) /\ (w >= 3 <=> k >= 26) /\ \A i \in Nat : i > 0 => (w >= 4 + i <=> k >= 46 + i)
    BY <1>1, <1>2, <2>1
  <2>3. q \in Nat /\ q <= n /\ (q >= 2 <=> w >= 2) /\ (q >= 3 <=> w >= 3)
        /\ \A i \in 1..(n - 4) : (q >= 4 + i <=> w >= 4 + i)
    BY <1>3, <1>4, <2>1, <2>2
  <2>4. (q >= 2 <=> k >= 22) /\ (q >= 3 <=> k >= 26)
    BY <2>2, <2>3
  <2>5. \A i \in 1..(n - 4) : (q >= 4 + i <=> k >= 46 + i)
    <3>1. \A i \in 1..(n - 4) : i \in Nat /\ i > 0
      BY <1>4
    <3>. QED
      BY <2>2, <2>3, <3>1
  <2>. QED
    BY <1>4, <2>1, <2>3, <2>4, <2>5 DEF n, q
<1>6. CASE ~gre
  <2>1. K = k + 6 /\ c = w - 1 /\ At(gre) = 12 /\ Before(gre) = 0
    BY <1>6 DEF At, Before
  <2>. HIDE DEF K, c
  <2>2. w \in Nat /\ w >= 1 /\ (w >= 2 <=> k >= 16) /\ (w >= 3 <=> k >= 20)
        /\ \A i \in Nat : i > 0 => (w >= 4 + i <=> k >= 40 + i)
    BY <1>1, <1>2, <2>1
  <2>3. q \in Nat /\ q <= n /\ (q >= 1 <=> w >= 2) /\ (q >= 2 <=> w >= 3)
        /\ \A i \in 1..(n - 3) : (q >= 3 + i <=> w >= 4 + i)
    BY <1>3, <1>4, <2>1, <2>2
  <2>4. (q >= 1 <=> k >= 16) /\ (q >= 2 <=> k >= 20)
    BY <2>2, <2>3
  <2>5. \A i \in 1..(n - 3) : (q >= 3 + i <=> k >= 40 + i)
    <3>1. \A i \in 1..(n - 3) : i \in Nat /\ i > 0
      BY <1>4
    <3>. QED
      BY <2>2, <2>3, <3>1
  <2>. QED
    BY <1>4, <2>1, <2>3, <2>4, <2>5 DEF n, q
<1>. QED
  BY <1>5, <1>6

LEMMA CellsReceived ==
  ASSUME NEW cs \in Seq(C!Cell), NEW q \in Nat, q <= Len(cs), NEW n \in Nat
  PROVE  /\ C!Received(cs, q, n) \in Seq(C!Cell) /\ Len(C!Received(cs, q, n)) = n
         /\ \A i \in 1..n : C!Received(cs, q, n)[i] = IF i <= q THEN cs[i] ELSE C!Nul
<1>. DEFINE r == [i \in 1..n |-> IF i <= q THEN cs[i] ELSE C!Nul]
<1>1. \A i \in 1..n : (IF i <= q THEN cs[i] ELSE C!Nul) \in C!Cell
  <2>. TAKE i \in 1..n
  <2>1. CASE i <= q
    <3>1. i \in 1..Len(cs)
      BY <2>1
    <3>2. cs[i] \in C!Cell
      BY <3>1, ElementsOf
    <3>. QED
      BY <2>1, <3>2
  <2>. QED
    BY <2>1, NulIs
<1>2. r \in [1..n -> C!Cell]
  BY <1>1
<1>3. \A i \in 1..n : r[i] = IF i <= q THEN cs[i] ELSE C!Nul
  OBVIOUS
<1>4. C!Received(cs, q, n) = r
  BY DEF C!Received
<1>. HIDE DEF r
<1>5. r \in Seq(C!Cell) /\ Len(r) = n
  BY <1>2
<1>. QED
  BY <1>3, <1>4, <1>5

LEMMA CellReceived ==
  ASSUME NEW cs \in Seq(C!Cell), NEW q \in Nat, q <= Len(cs), NEW n \in Nat, NEW i \in 1..n
  PROVE  C!Received(cs, q, n)[i] = IF i <= q THEN cs[i] ELSE C!Nul
BY CellsReceived

LEMMA AtIs ==
  ASSUME NEW gre \in BOOLEAN
  PROVE  At(gre) \in Nat /\ Before(gre) \in Nat /\ At(gre) + 4 \in Nat /\ At(gre) + 28 \in Nat
BY DEF At, Before

\* recv, wherever it cuts what is in flight.
LEMMA CutAgrees ==
  ASSUME NEW gre \in BOOLEAN, Agree(wire, cells, gre), NEW k \in Nat, k <= Len(wire),
         NEW m, m = At(gre) + 28 + MaxPayloadBytes, NEW n, n = Before(gre) + 3 + MaxPayloadBytes
  PROVE  Full(Received(wire, k, m), C!Received(cells, CellsIn(k, gre), n), gre)
<1>. DEFINE at == At(gre)
            bf == Before(gre)
            q == CellsIn(k, gre)
            b == Received(wire, k, m)
            cs == C!Received(cells, q, n)
            M == MaxPayloadBytes
<1>1. at \in Nat /\ bf \in Nat /\ M \in Nat
  BY AtIs, SizesAre
<1>2. /\ wire \in Seq(Byte) /\ Len(wire) \in Nat /\ Len(wire) >= at + 28 /\ Len(wire) <= at + 28 + M
      /\ cells \in Seq(C!Cell) /\ Len(cells) \in Nat /\ Len(cells) >= bf + 3
      /\ Len(cells) - bf - 3 <= Len(wire) - at - 28
  BY DEF Agree
<1>3. /\ q \in Nat /\ q <= Len(cells)
      /\ (q >= bf + 1) <=> (k >= at + 4)
      /\ (q >= bf + 2) <=> (k >= at + 8)
      /\ \A i \in 1..(Len(cells) - bf - 3) : (q >= bf + 3 + i) <=> (k >= at + 28 + i)
  BY <1>2, CellsInIs
<1>. HIDE DEF at, bf, q
<1>4. m \in Nat /\ m = at + 28 + M /\ n \in Nat /\ n = bf + 3 + M
  BY <1>1 DEF at, bf
<1>5. /\ b \in Seq(Byte) /\ Len(b) = m
      /\ \A i \in 1..m : b[i] = IF i <= k THEN wire[i] ELSE 0
  BY <1>2, <1>4, ReceivedBytes
<1>6. /\ cs \in Seq(C!Cell) /\ Len(cs) = n
      /\ \A i \in 1..n : cs[i] = IF i <= q THEN cells[i] ELSE C!Nul
  BY <1>2, <1>3, <1>4, CellsReceived
<1>. HIDE DEF b, cs
<1>7. AddressReal(b, at, cs[bf + 1])
  <2>0. bf + 1 \in 1..n /\ at + 4 \in 1..m /\ \A j \in 1..4 : at + j \in 1..m
    BY <1>1, <1>4
  <2>1. CASE k >= at + 4
    <3>1. cs[bf + 1] = cells[bf + 1]
      BY <1>3, <1>6, <2>0, <2>1
    <3>2. \A j \in 1..4 : b[at + j] = wire[at + j]
      <4>. TAKE j \in 1..4
      <4>1. at + j <= k
        BY <1>1, <2>1
      <4>. QED
        BY <1>5, <2>0, <4>1
    <3>3. AddressReal(wire, at, cells[bf + 1])
      BY DEF Agree, at, bf
    <3>. QED
      BY <1>1, <3>1, <3>2, <3>3, AddressMoves
  <2>2. CASE ~(k >= at + 4)
    <3>1. cs[bf + 1] = C!Nul
      <4>1. ~(bf + 1 <= q)
        BY <1>1, <1>3, <2>2
      <4>. QED
        BY <1>6, <2>0, <4>1
    <3>2. b[at + 4] = 0
      <4>1. ~(at + 4 <= k)
        BY <1>1, <2>2
      <4>. QED
        BY <1>5, <2>0, <4>1
    <3>. QED
      BY <3>1, <3>2, AddressMissing
  <2>. QED
    BY <2>1, <2>2
<1>8. AddressReal(b, at + 4, cs[bf + 2])
  <2>0. /\ bf + 2 \in 1..n /\ (at + 4) + 4 \in 1..m /\ (at + 4) + 4 = at + 8 /\ at + 4 \in Nat
        /\ \A j \in 1..4 : (at + 4) + j \in 1..m
    BY <1>1, <1>4
  <2>1. CASE k >= at + 8
    <3>1. cs[bf + 2] = cells[bf + 2]
      BY <1>3, <1>6, <2>0, <2>1
    <3>2. \A j \in 1..4 : b[(at + 4) + j] = wire[(at + 4) + j]
      <4>. TAKE j \in 1..4
      <4>1. (at + 4) + j <= k
        BY <1>1, <2>1
      <4>. QED
        BY <1>5, <2>0, <4>1
    <3>3. AddressReal(wire, at + 4, cells[bf + 2])
      BY DEF Agree, at, bf
    <3>4. AddressReal(b, at + 4, cells[bf + 2])
      <4>. DEFINE a4 == at + 4
      <4>1. a4 \in Nat /\ (\A j \in 1..4 : b[a4 + j] = wire[a4 + j]) /\ AddressReal(wire, a4, cells[bf + 2])
        BY <2>0, <3>2, <3>3
      <4>. HIDE DEF a4
      <4>2. AddressReal(b, a4, cells[bf + 2])
        BY <4>1, AddressMoves
      <4>. QED
        BY <4>2 DEF a4
    <3>. QED
      BY <3>1, <3>4
  <2>2. CASE ~(k >= at + 8)
    <3>1. cs[bf + 2] = C!Nul
      <4>1. ~(bf + 2 <= q)
        BY <1>1, <1>3, <2>2
      <4>. QED
        BY <1>6, <2>0, <4>1
    <3>2. b[(at + 4) + 4] = 0
      <4>1. ~((at + 4) + 4 <= k)
        BY <1>1, <2>2
      <4>. QED
        BY <1>5, <2>0, <4>1
    <3>. QED
      BY <3>1, <3>2, AddressMissing
  <2>. QED
    BY <2>1, <2>2
<1>9. cs[bf + 3].val \notin Hosts
  <2>1. bf + 3 \in 1..n
    BY <1>1, <1>4
  <2>2. cs[bf + 3] = cells[bf + 3] \/ cs[bf + 3] = C!Nul
    BY <1>6, <2>1
  <2>3. cells[bf + 3].val \notin Hosts
    BY DEF Agree, bf
  <2>4. C!Nul.val \notin Hosts
    BY NulIs, ZeroIsNoHost
  <2>. QED
    BY <2>2, <2>3, <2>4
<1>10. TextReal(b, at + 28, cs, bf + 3)
  <2>1. Len(b) - (at + 28) = M /\ Len(cs) - (bf + 3) = M
    BY <1>1, <1>4, <1>5, <1>6
  <2>2. ASSUME NEW i \in 1..M
        PROVE  cs[(bf + 3) + i] \in TextCells /\ b[(at + 28) + i] = ByteOf(cs[(bf + 3) + i], i)
    <3>0. (bf + 3) + i \in 1..n /\ (at + 28) + i \in 1..m
      BY <1>1, <1>4
    <3>1. CASE i <= Len(cells) - bf - 3
      <4>1. i \in 1..(Len(cells) - bf - 3) /\ i \in 1..(Len(wire) - (at + 28)) /\ i <= Len(cells) - (bf + 3)
        BY <1>1, <1>2, <3>1
      <4>2. cells[(bf + 3) + i] \in TextCells /\ wire[(at + 28) + i] = ByteOf(cells[(bf + 3) + i], i)
        <5>1. TextReal(wire, at + 28, cells, bf + 3)
          BY DEF Agree, at, bf
        <5>. QED
          BY <4>1, <5>1 DEF TextReal
      <4>3. ((bf + 3) + i <= q) <=> ((at + 28) + i <= k)
        BY <1>1, <1>3, <4>1
      <4>4. CASE (bf + 3) + i <= q
        BY <1>5, <1>6, <3>0, <4>2, <4>3, <4>4
      <4>5. CASE ~((bf + 3) + i <= q)
        <5>1. cs[(bf + 3) + i] = C!Nul /\ b[(at + 28) + i] = 0
          BY <1>5, <1>6, <3>0, <4>3, <4>5
        <5>. QED
          BY <5>1, NulIs
      <4>. QED
        BY <4>4, <4>5
    <3>2. CASE ~(i <= Len(cells) - bf - 3)
      <4>1. cs[(bf + 3) + i] = C!Nul
        <5>1. ~((bf + 3) + i <= q)
          BY <1>1, <1>2, <1>3, <3>2
        <5>. QED
          BY <1>6, <3>0, <5>1
      <4>2. b[(at + 28) + i] = 0
        <5>1. CASE (at + 28) + i <= k
          <6>1. i \in 1..(Len(wire) - (at + 28)) /\ ~(i <= Len(cells) - (bf + 3))
            BY <1>1, <1>2, <3>2, <5>1
          <6>2. TextReal(wire, at + 28, cells, bf + 3)
            BY DEF Agree, at, bf
          <6>3. wire[(at + 28) + i] = 0
            BY <6>1, <6>2 DEF TextReal
          <6>. QED
            BY <1>5, <3>0, <5>1, <6>3
        <5>2. CASE ~((at + 28) + i <= k)
          BY <1>5, <3>0, <5>2
        <5>. QED
          BY <5>1, <5>2
      <4>. QED
        BY <4>1, <4>2, NulIs
    <3>. QED
      BY <3>1, <3>2
  <2>. QED
    BY <2>1, <2>2 DEF TextReal
<1>11. /\ Len(b) >= at + 28 /\ Len(b) <= at + 28 + M /\ Len(cs) >= bf + 3
       /\ Len(cs) - bf - 3 <= Len(b) - at - 28
  BY <1>1, <1>4, <1>5, <1>6
<1>12. Agree(b, cs, gre)
  BY <1>5, <1>6, <1>7, <1>8, <1>9, <1>10, <1>11 DEF Agree, at, bf
<1>. QED
  BY <1>4, <1>5, <1>6, <1>12 DEF Full, b, cs, q, at, bf

\* What the cells say of a packet with n cells of text, and no byte without a cell.
Exact(b, cs, gre, n) ==
  /\ b \in Seq(Byte) /\ Len(b) = (At(gre) + 28) + n
  /\ cs \in Seq(C!Cell) /\ Len(cs) = (Before(gre) + 3) + n
  /\ AddressReal(b, At(gre), cs[Before(gre) + 1])
  /\ AddressReal(b, At(gre) + 4, cs[Before(gre) + 2])
  /\ cs[Before(gre) + 3].val \notin Hosts
  /\ \A i \in 1..n : /\ cs[(Before(gre) + 3) + i] \in TextCells
                     /\ b[(At(gre) + 28) + i] = ByteOf(cs[(Before(gre) + 3) + i], i)

\* The same where there is a GRE header, with the numbers it comes to.
ExactWithGre(b, cs, n) ==
  /\ b \in Seq(Byte) /\ Len(b) = 46 + n /\ cs \in Seq(C!Cell) /\ Len(cs) = 4 + n
  /\ AddressReal(b, 18, cs[2]) /\ AddressReal(b, 22, cs[3]) /\ cs[4].val \notin Hosts
  /\ \A i \in 1..n : cs[4 + i] \in TextCells /\ b[46 + i] = ByteOf(cs[4 + i], i)

LEMMA ExactBehindGre ==
  ASSUME NEW b, NEW cs, NEW n \in Nat, ExactWithGre(b, cs, n)
  PROVE  Exact(b, cs, TRUE, n)
<1>1. At(TRUE) = 18 /\ Before(TRUE) = 1
  BY DEF At, Before
<1>2. /\ At(TRUE) + 28 = 46 /\ At(TRUE) + 4 = 22
      /\ Before(TRUE) + 1 = 2 /\ Before(TRUE) + 2 = 3 /\ Before(TRUE) + 3 = 4
  <2>1. 18 + 28 = 46 /\ 18 + 4 = 22 /\ 1 + 1 = 2 /\ 1 + 2 = 3 /\ 1 + 3 = 4
    OBVIOUS
  <2>. QED
    BY <1>1, <2>1, Zenon
<1>3. (At(TRUE) + 28) + n = 46 + n /\ (Before(TRUE) + 3) + n = 4 + n
  BY <1>2
<1>4. AddressReal(b, At(TRUE), cs[Before(TRUE) + 1]) /\ AddressReal(b, At(TRUE) + 4, cs[Before(TRUE) + 2])
  BY <1>1, <1>2 DEF ExactWithGre
<1>5. cs[Before(TRUE) + 3].val \notin Hosts
  BY <1>2 DEF ExactWithGre
<1>6. ASSUME NEW i \in 1..n
      PROVE  /\ cs[(Before(TRUE) + 3) + i] \in TextCells
             /\ b[(At(TRUE) + 28) + i] = ByteOf(cs[(Before(TRUE) + 3) + i], i)
  BY <1>2 DEF ExactWithGre
<1>7. b \in Seq(Byte) /\ cs \in Seq(C!Cell) /\ Len(b) = (At(TRUE) + 28) + n /\ Len(cs) = (Before(TRUE) + 3) + n
  BY <1>3 DEF ExactWithGre
<1>. QED
  BY <1>4, <1>5, <1>6, <1>7 DEF Exact

LEMMA ExactAgrees ==
  ASSUME NEW b, NEW cs, NEW gre \in BOOLEAN, NEW n \in Nat, n <= MaxPayloadBytes, Exact(b, cs, gre, n)
  PROVE  Agree(b, cs, gre)
<1>. DEFINE at == At(gre)
            bf == Before(gre)
            M == MaxPayloadBytes
<1>1. at \in Nat /\ bf \in Nat /\ M \in Nat
  BY AtIs, SizesAre
<1>2. /\ b \in Seq(Byte) /\ Len(b) = (at + 28) + n /\ cs \in Seq(C!Cell) /\ Len(cs) = (bf + 3) + n
      /\ AddressReal(b, at, cs[bf + 1]) /\ AddressReal(b, at + 4, cs[bf + 2]) /\ cs[bf + 3].val \notin Hosts
  BY DEF Exact
<1>3. \A i \in 1..n : cs[(bf + 3) + i] \in TextCells /\ b[(at + 28) + i] = ByteOf(cs[(bf + 3) + i], i)
  BY DEF Exact
<1>. HIDE DEF at, bf, M
<1>4. TextReal(b, at + 28, cs, bf + 3)
  <2>1. Len(b) - (at + 28) = n /\ Len(cs) - (bf + 3) = n
    BY <1>1, <1>2
  <2>2. \A i \in 1..n : i <= n
    OBVIOUS
  <2>. QED
    BY <1>3, <2>1, <2>2 DEF TextReal
<1>5. /\ Len(b) >= at + 28 /\ Len(b) <= at + 28 + M /\ Len(cs) >= bf + 3
      /\ Len(cs) - bf - 3 <= Len(b) - at - 28
  BY <1>1, <1>2 DEF M
<1>. QED
  BY <1>2, <1>4, <1>5 DEF Agree, at, bf, M

LEMMA FullIsExact ==
  ASSUME NEW b, NEW cs, NEW gre \in BOOLEAN
  PROVE  Full(b, cs, gre) <=> Exact(b, cs, gre, MaxPayloadBytes)
<1>. DEFINE at == At(gre)
            bf == Before(gre)
            M == MaxPayloadBytes
<1>1. at \in Nat /\ bf \in Nat /\ M \in Nat
  BY AtIs, SizesAre
<1>2. ASSUME Full(b, cs, gre)
      PROVE  Exact(b, cs, gre, M)
  <2>1. /\ b \in Seq(Byte) /\ Len(b) = at + 28 + M /\ cs \in Seq(C!Cell) /\ Len(cs) = bf + 3 + M
        /\ AddressReal(b, at, cs[bf + 1]) /\ AddressReal(b, at + 4, cs[bf + 2]) /\ cs[bf + 3].val \notin Hosts
        /\ TextReal(b, at + 28, cs, bf + 3)
    BY <1>2 DEF Full, Agree
  <2>. HIDE DEF at, bf, M
  <2>2. Len(b) - (at + 28) = M /\ Len(cs) - (bf + 3) = M /\ \A i \in 1..M : i <= M
    BY <1>1, <2>1
  <2>3. \A i \in 1..M : cs[(bf + 3) + i] \in TextCells /\ b[(at + 28) + i] = ByteOf(cs[(bf + 3) + i], i)
    BY <2>1, <2>2 DEF TextReal
  <2>. QED
    BY <2>1, <2>3 DEF Exact, at, bf, M
<1>3. ASSUME Exact(b, cs, gre, M)
      PROVE  Full(b, cs, gre)
  <2>1. M <= M
    BY <1>1
  <2>2. Agree(b, cs, gre)
    BY <1>1, <1>3, <2>1, ExactAgrees
  <2>3. Len(b) = at + 28 + M /\ Len(cs) = bf + 3 + M
    BY <1>3 DEF Exact
  <2>. QED
    BY <2>2, <2>3 DEF Full
<1>. QED
  BY <1>2, <1>3

LEMMA XorCellsAre ==
  ASSUME NEW cs \in Seq(C!Cell)
  PROVE  /\ C!Xor(cs) \in Seq(C!Cell) /\ Len(C!Xor(cs)) = Len(cs)
         /\ \A i \in 1..Len(cs) : C!Xor(cs)[i] = C!Flip(cs[i])
<1>. DEFINE n == Len(cs)
            x == [i \in 1..n |-> C!Flip(cs[i])]
<1>1. n \in Nat /\ \A i \in 1..n : cs[i] \in C!Cell
  BY ElementsOf
<1>2. C!Xor(cs) = x
  BY DEF C!Xor
<1>. HIDE DEF n
<1>3. \A i \in 1..n : C!Flip(cs[i]) \in C!Cell
  BY <1>1 DEF C!Flip, C!Cell
<1>4. x \in [1..n -> C!Cell]
  BY <1>3
<1>5. \A i \in 1..n : x[i] = C!Flip(cs[i])
  OBVIOUS
<1>. HIDE DEF x
<1>6. x \in Seq(C!Cell) /\ Len(x) = n
  BY <1>1, <1>4
<1>. QED
  BY <1>2, <1>5, <1>6 DEF n

\* XOR with the key does to the bytes what it does to the cells.
LEMMA XorExact ==
  ASSUME NEW b, NEW cs, NEW n \in Nat, Exact(b, cs, TRUE, n)
  PROVE  Exact(XorBytes(b), C!Xor(cs), TRUE, n)
<1>. DEFINE x == XorBytes(b)
            y == C!Xor(cs)
<1>1. /\ b \in Seq(Byte) /\ Len(b) = 46 + n /\ cs \in Seq(C!Cell) /\ Len(cs) = 4 + n
      /\ AddressReal(b, 18, cs[2]) /\ AddressReal(b, 22, cs[3]) /\ cs[4].val \notin Hosts
      /\ \A i \in 1..n : cs[4 + i] \in TextCells /\ b[46 + i] = ByteOf(cs[4 + i], i)
  BY DEF Exact, At, Before
<1>2. x \in Seq(Byte) /\ Len(x) = 46 + n /\ \A i \in 1..(46 + n) : x[i] = Xor(b[i], KeyAt(i))
  BY <1>1, XorBytesAre
<1>3. y \in Seq(C!Cell) /\ Len(y) = 4 + n /\ \A i \in 1..(4 + n) : y[i] = C!Flip(cs[i])
  BY <1>1, XorCellsAre
<1>4. \A i \in 1..(46 + n) : b[i] \in Byte
  BY <1>1, ElementsOf
<1>. HIDE DEF x, y
<1>5. 2 \in 1..(4 + n) /\ 3 \in 1..(4 + n) /\ 4 \in 1..(4 + n)
  OBVIOUS
<1>6. y[2] = C!Flip(cs[2]) /\ y[3] = C!Flip(cs[3]) /\ y[4] = C!Flip(cs[4])
  BY <1>3, <1>5
<1>7. AddressReal(x, 18, y[2])
  <2>1. \A j \in 1..4 : 18 + j \in 1..(46 + n)
    OBVIOUS
  <2>2. \A j \in 1..4 : b[18 + j] \in Byte /\ x[18 + j] = Xor(b[18 + j], KeyAt(18 + j))
    BY <1>2, <1>4, <2>1
  <2>3. 18 \in {18, 22} /\ AddressReal(b, 18, cs[2])
    BY <1>1
  <2>4. AddressReal(x, 18, C!Flip(cs[2]))
    BY <2>2, <2>3, AddressFlipped
  <2>. QED
    BY <1>6, <2>4
<1>8. AddressReal(x, 22, y[3])
  <2>1. \A j \in 1..4 : 22 + j \in 1..(46 + n)
    OBVIOUS
  <2>2. \A j \in 1..4 : b[22 + j] \in Byte /\ x[22 + j] = Xor(b[22 + j], KeyAt(22 + j))
    BY <1>2, <1>4, <2>1
  <2>3. 22 \in {18, 22} /\ AddressReal(b, 22, cs[3])
    BY <1>1
  <2>4. AddressReal(x, 22, C!Flip(cs[3]))
    BY <2>2, <2>3, AddressFlipped
  <2>. QED
    BY <1>6, <2>4
<1>9. y[4].val \notin Hosts
  <2>1. cs[4] \in C!Cell
    BY <1>1, <1>5, ElementsOf
  <2>2. y[4].val = cs[4].val
    BY <1>6, <2>1 DEF C!Flip, C!Cell
  <2>. QED
    BY <1>1, <2>2
<1>10. ASSUME NEW i \in 1..n
       PROVE  y[4 + i] \in TextCells /\ x[46 + i] = ByteOf(y[4 + i], i)
  <2>1. 4 + i \in 1..(4 + n) /\ 46 + i \in 1..(46 + n) /\ i \in Nat /\ i > 0
    OBVIOUS
  <2>2. y[4 + i] = C!Flip(cs[4 + i]) /\ x[46 + i] = Xor(b[46 + i], KeyAt(46 + i))
    BY <1>2, <1>3, <2>1
  <2>3. cs[4 + i] \in TextCells /\ b[46 + i] = ByteOf(cs[4 + i], i)
    BY <1>1
  <2>4. /\ C!Flip(cs[4 + i]) \in TextCells
        /\ ByteOf(C!Flip(cs[4 + i]), i) = Xor(ByteOf(cs[4 + i], i), KeyAt(46 + i))
    BY <2>1, <2>3, TextCellFacts
  <2>. QED
    BY <2>2, <2>3, <2>4
<1>11. ExactWithGre(x, y, n)
  BY <1>2, <1>3, <1>7, <1>8, <1>9, <1>10 DEF ExactWithGre
<1>. QED
  BY <1>11, ExactBehindGre DEF x, y

\* A 0 put into both.
LEMMA NulExact ==
  ASSUME NEW b, NEW cs, NEW n \in Nat, Exact(b, cs, TRUE, n), NEW e \in 1..n
  PROVE  Exact([b EXCEPT ![46 + e] = 0], [cs EXCEPT ![4 + e] = C!Nul], TRUE, n)
<1>. DEFINE x == [b EXCEPT ![46 + e] = 0]
            y == [cs EXCEPT ![4 + e] = C!Nul]
<1>1. /\ b \in Seq(Byte) /\ Len(b) = 46 + n /\ cs \in Seq(C!Cell) /\ Len(cs) = 4 + n
      /\ AddressReal(b, 18, cs[2]) /\ AddressReal(b, 22, cs[3]) /\ cs[4].val \notin Hosts
      /\ \A i \in 1..n : cs[4 + i] \in TextCells /\ b[46 + i] = ByteOf(cs[4 + i], i)
  BY DEF Exact, At, Before
<1>2. x \in Seq(Byte) /\ Len(x) = 46 + n /\ \A i \in 1..(46 + n) : x[i] = IF i = 46 + e THEN 0 ELSE b[i]
  BY <1>1, NulPut
<1>3. y \in Seq(C!Cell) /\ Len(y) = 4 + n /\ \A i \in 1..(4 + n) : y[i] = IF i = 4 + e THEN C!Nul ELSE cs[i]
  <2>1. C!Nul \in C!Cell
    BY NulIs
  <2>2. cs \in [1..(4 + n) -> C!Cell]
    BY <1>1
  <2>. HIDE DEF C!Nul
  <2>3. y \in [1..(4 + n) -> C!Cell] /\ \A i \in 1..(4 + n) : y[i] = IF i = 4 + e THEN C!Nul ELSE cs[i]
    BY <2>1, <2>2
  <2>. HIDE DEF y
  <2>4. y \in Seq(C!Cell) /\ Len(y) = 4 + n
    BY <2>3
  <2>. QED
    BY <2>3, <2>4
<1>. HIDE DEF x, y
<1>4. /\ 2 \in 1..(4 + n) /\ 3 \in 1..(4 + n) /\ 4 \in 1..(4 + n) /\ e > 0
      /\ \A j \in 1..4 : 18 + j \in 1..(46 + n) /\ 22 + j \in 1..(46 + n) /\ 18 + j # 46 + e /\ 22 + j # 46 + e
  OBVIOUS
<1>5. y[2] = cs[2] /\ y[3] = cs[3] /\ y[4] = cs[4]
  BY <1>3, <1>4
<1>6. AddressReal(x, 18, y[2])
  <2>1. \A j \in 1..4 : x[18 + j] = b[18 + j]
    BY <1>2, <1>4
  <2>. QED
    BY <1>1, <1>5, <2>1 DEF AddressReal
<1>7. AddressReal(x, 22, y[3])
  <2>1. \A j \in 1..4 : x[22 + j] = b[22 + j]
    BY <1>2, <1>4
  <2>. QED
    BY <1>1, <1>5, <2>1 DEF AddressReal
<1>8. ASSUME NEW i \in 1..n
       PROVE  y[4 + i] \in TextCells /\ x[46 + i] = ByteOf(y[4 + i], i)
  <2>1. 4 + i \in 1..(4 + n) /\ 46 + i \in 1..(46 + n) /\ (4 + i = 4 + e <=> i = e) /\ (46 + i = 46 + e <=> i = e)
    OBVIOUS
  <2>2. CASE i = e
    BY <1>2, <1>3, <2>1, <2>2, NulIs
  <2>3. CASE i # e
    BY <1>1, <1>2, <1>3, <2>1, <2>3
  <2>. QED
    BY <2>2, <2>3
<1>9. y[4].val \notin Hosts
  BY <1>1, <1>5
<1>10. ExactWithGre(x, y, n)
  <2>1. x \in Seq(Byte) /\ Len(x) = 46 + n /\ y \in Seq(C!Cell) /\ Len(y) = 4 + n
    BY <1>2, <1>3
  <2>. QED
    BY <2>1, <1>6, <1>7, <1>8, <1>9 DEF ExactWithGre
<1>11. Exact(x, y, TRUE, n)
  BY <1>10, ExactBehindGre
<1>. QED
  BY <1>11 DEF x, y

\* strlen finds the same text in the bytes and in the cells.
LEMMA LengthsAgree ==
  ASSUME NEW b, NEW cs, NEW n \in Nat, Exact(b, cs, TRUE, n)
  PROVE  /\ StrLen(b, 47) \in Nat /\ StrLen(b, 47) <= n
         /\ C!TextEnd(cs, 5) = 5 + StrLen(b, 47)
<1>. DEFINE s == StrLen(b, 47)
<1>1. /\ Len(b) = 46 + n /\ Len(cs) = 4 + n
      /\ \A i \in 1..n : cs[4 + i] \in TextCells /\ b[46 + i] = ByteOf(cs[4 + i], i)
  BY DEF Exact, At, Before
<1>2. \A i \in 1..n : b[46 + i] = 0 <=> cs[4 + i] = C!Nul
  <2>. TAKE i \in 1..n
  <2>1. i \in Nat /\ i > 0
    OBVIOUS
  <2>2. cs[4 + i] \in TextCells /\ b[46 + i] = ByteOf(cs[4 + i], i)
    BY <1>1
  <2>3. ByteOf(cs[4 + i], i) = 0 <=> cs[4 + i] = C!Nul
    BY <2>1, <2>2, TextCellFacts
  <2>. QED
    BY <2>2, <2>3
<1>3. s \in Nat /\ Ends(b, 47, 47 + s)
  <2>1. Len(b) \in Nat /\ 47 \in Nat /\ 47 <= Len(b) + 1
    BY <1>1
  <2>. QED
    BY <2>1, StrLenIs
<1>. HIDE DEF s
<1>4. s <= n /\ (s < n => b[46 + (s + 1)] = 0) /\ \A i \in 1..s : b[46 + i] # 0
  <2>1. 47 + s \in 47..(47 + n) /\ (47 + s <= 46 + n => b[47 + s] = 0) /\ \A i \in 47..((47 + s) - 1) : b[i] # 0
    BY <1>1, <1>3 DEF Ends
  <2>2. s <= n /\ (s < n => b[46 + (s + 1)] = 0)
    <3>1. 46 + (s + 1) = 47 + s
      BY <1>3
    <3>. QED
      BY <1>3, <2>1, <3>1
  <2>3. ASSUME NEW i \in 1..s
        PROVE  b[46 + i] # 0
    <3>1. 46 + i \in 47..((47 + s) - 1)
      BY <1>3
    <3>. QED
      BY <2>1, <3>1
  <2>. QED
    BY <2>2, <2>3
<1>5. C!TextEnd(cs, 5) = 5 + s
  <2>. DEFINE e == 5 + s
  <2>1. e \in 5..(Len(cs) + 1) /\ Len(cs) \in Nat /\ 5 \in Nat
    BY <1>1, <1>3, <1>4
  <2>2. e <= Len(cs) => cs[e] = C!Nul
    <3>1. SUFFICES ASSUME e <= Len(cs) PROVE cs[e] = C!Nul
      OBVIOUS
    <3>2. s + 1 \in 1..n /\ s < n /\ 4 + (s + 1) = e
      BY <1>1, <1>3, <3>1
    <3>3. cs[4 + (s + 1)] = C!Nul
      BY <1>2, <1>4, <3>2
    <3>. QED
      BY <3>2, <3>3
  <2>3. \A i \in 5..(e - 1) : cs[i] # C!Nul
    <3>. TAKE i \in 5..(e - 1)
    <3>1. i - 4 \in 1..s /\ i - 4 \in 1..n /\ 4 + (i - 4) = i
      BY <1>3, <1>4
    <3>2. b[46 + (i - 4)] # 0
      BY <1>4, <3>1
    <3>3. cs[4 + (i - 4)] # C!Nul
      BY <1>2, <3>1, <3>2
    <3>. QED
      BY <3>1, <3>3
  <2>. HIDE DEF e
  <2>4. C!TextEnd(cs, 5) = e
    BY <2>1, <2>2, <2>3, TextEndIs
  <2>. QED
    BY <2>4 DEF e
<1>. QED
  BY <1>3, <1>4, <1>5 DEF s

\* All headers of x and y are those of b and cs after one XOR.
Unlocked(b, cs, x, y) ==
  /\ \A i \in 1..46 : x[i] = Xor(b[i], KeyAt(i))
  /\ \A i \in 1..4 : y[i] = C!Flip(cs[i])

\* Decryption with its 0.
LEMMA DecryptExact ==
  ASSUME NEW b, NEW cs, Exact(b, cs, TRUE, MaxPayloadBytes)
  PROVE  /\ Exact(Decrypt(b), C!Decrypt(cs), TRUE, MaxPayloadBytes)
         /\ Unlocked(b, cs, Decrypt(b), C!Decrypt(cs))
<1>. DEFINE M == MaxPayloadBytes
            s == StrLen(b, 47)
            t == C!AtMost(s, M - 1)
            e == 1 + t
            x == XorBytes(b)
            y == C!Xor(cs)
<1>1. /\ M \in Nat /\ M > 0 /\ HeaderSize = 46 /\ C!PacketLen = 4 + M /\ C!PayloadAt = 5
  BY SizesAre
<1>2. s \in Nat /\ s <= M /\ C!TextEnd(cs, 5) = 5 + s
  BY <1>1, LengthsAgree
<1>3. Exact(x, y, TRUE, M)
  BY <1>1, XorExact
<1>4. /\ b \in Seq(Byte) /\ Len(b) = 46 + M /\ cs \in Seq(C!Cell) /\ Len(cs) = 4 + M
  BY DEF Exact, At, Before
<1>. HIDE DEF s
<1>5. e \in 1..M /\ 46 + 1 + t = 46 + e /\ C!AtMost(5 + s, 4 + M) = 4 + e
  BY <1>1, <1>2 DEF C!AtMost
<1>6. Decrypt(b) = [x EXCEPT ![46 + e] = 0] /\ C!Decrypt(cs) = [y EXCEPT ![4 + e] = C!Nul]
  <2>1. Decrypt(b) = [x EXCEPT ![46 + 1 + t] = 0]
    BY <1>1 DEF Decrypt, s
  <2>2. C!Decrypt(cs) = [y EXCEPT ![C!AtMost(5 + s, 4 + M)] = C!Nul]
    BY <1>1, <1>2 DEF C!Decrypt
  <2>. QED
    BY <1>5, <2>1, <2>2
<1>. HIDE DEF e, x, y, M
<1>7. Exact([x EXCEPT ![46 + e] = 0], [y EXCEPT ![4 + e] = C!Nul], TRUE, M)
  BY <1>1, <1>3, <1>5, NulExact
<1>8. \A i \in 1..46 : [x EXCEPT ![46 + e] = 0][i] = Xor(b[i], KeyAt(i))
  <2>1. x \in Seq(Byte) /\ Len(x) = 46 + M /\ \A i \in 1..(46 + M) : x[i] = Xor(b[i], KeyAt(i))
    BY <1>4, XorBytesAre DEF x
  <2>2. \A i \in 1..(46 + M) : [x EXCEPT ![46 + e] = 0][i] = IF i = 46 + e THEN 0 ELSE x[i]
    BY <2>1, NulPut
  <2>. TAKE i \in 1..46
  <2>3. i \in 1..(46 + M) /\ i # 46 + e
    BY <1>1, <1>5
  <2>. QED
    BY <2>1, <2>2, <2>3
<1>9. \A i \in 1..4 : [y EXCEPT ![4 + e] = C!Nul][i] = C!Flip(cs[i])
  <2>1. y \in Seq(C!Cell) /\ Len(y) = 4 + M /\ \A i \in 1..(4 + M) : y[i] = C!Flip(cs[i])
    BY <1>4, XorCellsAre DEF y
  <2>. TAKE i \in 1..4
  <2>2. i \in 1..(4 + M) /\ i # 4 + e
    BY <1>1, <1>5
  <2>3. i \in DOMAIN y
    BY <2>1, <2>2
  <2>4. [y EXCEPT ![4 + e] = C!Nul][i] = y[i]
    BY <2>2, <2>3
  <2>. QED
    BY <2>1, <2>2, <2>4
<1>10. Unlocked(b, cs, Decrypt(b), C!Decrypt(cs))
  <2>. DEFINE u == [x EXCEPT ![46 + e] = 0]
              v == [y EXCEPT ![4 + e] = C!Nul]
  <2>1. \A i \in 1..46 : u[i] = Xor(b[i], KeyAt(i))
    BY <1>8
  <2>2. \A i \in 1..4 : v[i] = C!Flip(cs[i])
    BY <1>9
  <2>3. Decrypt(b) = u /\ C!Decrypt(cs) = v
    BY <1>6
  <2>. HIDE DEF u, v
  <2>4. Unlocked(b, cs, u, v)
    BY <2>1, <2>2 DEF Unlocked
  <2>. QED
    BY <2>3, <2>4
<1>. QED
  BY <1>6, <1>7, <1>10 DEF M

LEMMA PrefixOf ==
  ASSUME NEW X, NEW s \in Seq(X), NEW k \in Nat, k <= Len(s)
  PROVE  /\ SubSeq(s, 1, k) \in Seq(X) /\ Len(SubSeq(s, 1, k)) = k
         /\ \A i \in 1..k : SubSeq(s, 1, k)[i] = s[i]
OBVIOUS

\* What is sent of a packet, as far as every byte has its cell.
LEMMA PrefixExact ==
  ASSUME NEW b, NEW cs, NEW N \in Nat, Exact(b, cs, TRUE, N), NEW n \in Nat, n <= N
  PROVE  Exact(SubSeq(b, 1, 46 + n), SubSeq(cs, 1, 4 + n), TRUE, n)
<1>. DEFINE x == SubSeq(b, 1, 46 + n)
            y == SubSeq(cs, 1, 4 + n)
<1>1. /\ b \in Seq(Byte) /\ Len(b) = 46 + N /\ cs \in Seq(C!Cell) /\ Len(cs) = 4 + N
      /\ AddressReal(b, 18, cs[2]) /\ AddressReal(b, 22, cs[3]) /\ cs[4].val \notin Hosts
      /\ \A i \in 1..N : cs[4 + i] \in TextCells /\ b[46 + i] = ByteOf(cs[4 + i], i)
  BY DEF Exact, At, Before
<1>2. x \in Seq(Byte) /\ Len(x) = 46 + n /\ \A i \in 1..(46 + n) : x[i] = b[i]
  <2>1. 46 + n \in Nat /\ 46 + n <= Len(b)
    BY <1>1
  <2>. QED
    BY <1>1, <2>1, PrefixOf
<1>3. y \in Seq(C!Cell) /\ Len(y) = 4 + n /\ \A i \in 1..(4 + n) : y[i] = cs[i]
  <2>1. 4 + n \in Nat /\ 4 + n <= Len(cs)
    BY <1>1
  <2>. QED
    BY <1>1, <2>1, PrefixOf
<1>. HIDE DEF x, y
<1>4. /\ 2 \in 1..(4 + n) /\ 3 \in 1..(4 + n) /\ 4 \in 1..(4 + n)
      /\ \A j \in 1..4 : 18 + j \in 1..(46 + n) /\ 22 + j \in 1..(46 + n)
  OBVIOUS
<1>5. y[2] = cs[2] /\ y[3] = cs[3] /\ y[4] = cs[4]
  BY <1>3, <1>4
<1>6. AddressReal(x, 18, y[2])
  <2>1. \A j \in 1..4 : x[18 + j] = b[18 + j]
    BY <1>2, <1>4
  <2>. QED
    BY <1>1, <1>5, <2>1 DEF AddressReal
<1>7. AddressReal(x, 22, y[3])
  <2>1. \A j \in 1..4 : x[22 + j] = b[22 + j]
    BY <1>2, <1>4
  <2>. QED
    BY <1>1, <1>5, <2>1 DEF AddressReal
<1>8. ASSUME NEW i \in 1..n
       PROVE  y[4 + i] \in TextCells /\ x[46 + i] = ByteOf(y[4 + i], i)
  <2>1. 4 + i \in 1..(4 + n) /\ 46 + i \in 1..(46 + n) /\ i \in 1..N
    OBVIOUS
  <2>2. y[4 + i] = cs[4 + i] /\ x[46 + i] = b[46 + i]
    BY <1>2, <1>3, <2>1
  <2>. QED
    BY <1>1, <2>1, <2>2
<1>9. y[4].val \notin Hosts
  BY <1>1, <1>5
<1>10. ExactWithGre(x, y, n)
  <2>1. x \in Seq(Byte) /\ Len(x) = 46 + n /\ y \in Seq(C!Cell) /\ Len(y) = 4 + n
    BY <1>2, <1>3
  <2>. QED
    BY <2>1, <1>6, <1>7, <1>8, <1>9 DEF ExactWithGre
<1>11. Exact(x, y, TRUE, n)
  BY <1>10, ExactBehindGre
<1>. QED
  BY <1>11 DEF x, y

\* The two messages.
LEMMA TextsAre ==
  ASSUME NEW text \in {RequestText, ReplyText}
  PROVE  /\ Len(text) \in Nat /\ Len(text) < MaxPayloadBytes
         /\ BytesOf(text) \in Seq(Byte) /\ Len(BytesOf(text)) = Len(text)
         /\ Len(CellsOf(text)) = Len(text)
         /\ \A i \in 1..Len(text) : /\ CellsOf(text)[i] \in TextCells
                                    /\ \A j : BytesOf(text)[i] = ByteOf(CellsOf(text)[i], j)
<1>. DEFINE n == Len(text)
            bytes == [i \in 1..n |-> Ascii[text[i]]]
            cellsOf == [i \in 1..n |-> C!Clear(text[i])]
<1>1. n \in Nat /\ n < MaxPayloadBytes /\ text \in Seq(DOMAIN Ascii)
  <2>1. MaxPayloadBytes \in Nat
    BY SizesAre
  <2>2. RequestText \in Seq(DOMAIN Ascii) /\ ReplyText \in Seq(DOMAIN Ascii)
    BY TextAssumption
  <2>3. Len(RequestText) \in Nat /\ Len(ReplyText) \in Nat
    BY <2>2
  <2>4. Len(RequestText) < MaxPayloadBytes /\ Len(ReplyText) < MaxPayloadBytes
    BY <2>1, <2>3, TextAssumption DEF GreSize
  <2>. QED
    BY <2>2, <2>3, <2>4
<1>2. \A i \in 1..n : text[i] \in Range(RequestText) \cup Range(ReplyText)
  BY <1>1 DEF Range
<1>3. BytesOf(text) = bytes /\ CellsOf(text) = cellsOf
  BY <1>1 DEF BytesOf, CellsOf
<1>. HIDE DEF n
<1>4. \A i \in 1..n : bytes[i] = Ascii[text[i]] /\ cellsOf[i] = C!Clear(text[i])
  OBVIOUS
<1>5. \A i \in 1..n : bytes[i] \in Byte
  BY <1>2, <1>4, CharFacts
<1>6. bytes \in [1..n -> Byte] /\ cellsOf \in [1..n -> {C!Clear(text[i]) : i \in 1..n}]
  BY <1>5
<1>. HIDE DEF bytes, cellsOf
<1>7. bytes \in Seq(Byte) /\ Len(bytes) = n
  BY <1>1, <1>6
<1>8. Len(cellsOf) = n
  BY <1>1, <1>6
<1>9. ASSUME NEW i \in 1..n
      PROVE  cellsOf[i] \in TextCells /\ \A j : bytes[i] = ByteOf(cellsOf[i], j)
  <2>1. cellsOf[i] = [val |-> text[i], masked |-> FALSE] /\ bytes[i] = Ascii[text[i]]
    BY <1>4 DEF C!Clear
  <2>2. text[i] \in Range(RequestText) \cup Range(ReplyText)
    BY <1>2
  <2>3. text[i] # "zero"
    BY <2>2, CharFacts
  <2>4. cellsOf[i] \in TextCells
    BY <2>1, <2>2 DEF TextCells
  <2>5. \A j : bytes[i] = ByteOf(cellsOf[i], j)
    BY <2>1, <2>3 DEF ByteOf
  <2>. QED
    BY <2>4, <2>5
<1>. QED
  BY <1>1, <1>3, <1>7, <1>8, <1>9 DEF n

\* A packet in clear.
LEMMA PlainExact ==
  ASSUME NEW src \in Word \X Word, NEW dst \in Word \X Word, NEW flags \in Byte,
         NEW kind \in {"syn", "ack"}, NEW text \in {RequestText, ReplyText},
         NEW sc \in C!Cell, NEW dc \in C!Cell,
         AddressReal(PacketBytes(src, dst, flags, BytesOf(text)), 18, sc),
         AddressReal(PacketBytes(src, dst, flags, BytesOf(text)), 22, dc)
  PROVE  Exact(PacketBytes(src, dst, flags, BytesOf(text)),
               C!CreatePacketsDes(sc, dc, C!Clear(kind), CellsOf(text)), TRUE, MaxPayloadBytes)
<1>. DEFINE M == MaxPayloadBytes
            n == Len(text)
            bytes == BytesOf(text)
            tc == CellsOf(text)
            p == PacketBytes(src, dst, flags, bytes)
            fc == C!Clear(kind)
            cell(i) == IF i >= 5
                       THEN IF i - 4 <= C!AtMost(Len(tc), M - 1) THEN tc[i - 4] ELSE C!Nul
                       ELSE CASE i = 2 -> sc [] i = 3 -> dc [] i = 4 -> fc [] OTHER -> C!Clear("gre")
            y == [i \in 1..(4 + M) |-> cell(i)]
<1>1. M \in Nat /\ M > 0 /\ n \in Nat /\ n < M
  BY SizesAre, TextsAre
<1>2. /\ bytes \in Seq(Byte) /\ Len(bytes) = n /\ Len(tc) = n
      /\ \A i \in 1..n : tc[i] \in TextCells /\ \A j : bytes[i] = ByteOf(tc[i], j)
  BY TextsAre
<1>3. AddressReal(p, 18, sc) /\ AddressReal(p, 22, dc)
  OBVIOUS
<1>4. C!CreatePacketsDes(sc, dc, fc, tc) = y
  BY SizesAre DEF C!CreatePacketsDes, C!SrcAt, C!DstAt, C!FlagsAt
<1>. HIDE DEF bytes, tc, n, M
<1>5. /\ p \in Seq(Byte) /\ Len(p) = 46 + M
      /\ \A i \in 1..M : p[46 + i] = IF i <= n THEN bytes[i] ELSE 0
  <2>1. bytes \in Seq(Byte) /\ Len(bytes) <= MaxPayloadBytes
    BY <1>1, <1>2 DEF M
  <2>2. /\ p \in Seq(Byte) /\ Len(p) = 46 + MaxPayloadBytes
        /\ \A i \in 1..MaxPayloadBytes : p[46 + i] = IF i <= Len(bytes) THEN bytes[i] ELSE 0
    BY <2>1, PacketBytesAre
  <2>. QED
    BY <1>2, <2>2 DEF M
<1>6. fc \in C!Cell /\ fc.val \notin Hosts /\ C!Clear("gre") \in C!Cell
  BY ZeroIsNoHost DEF C!Clear, C!Cell, C!Values
<1>. HIDE DEF p, fc
<1>7. C!AtMost(Len(tc), M - 1) = n
  BY <1>1, <1>2 DEF C!AtMost
<1>8. \A i \in 1..M : cell(4 + i) = IF i <= n THEN tc[i] ELSE C!Nul
  <2>. TAKE i \in 1..M
  <2>1. 4 + i >= 5 /\ (4 + i) - 4 = i
    OBVIOUS
  <2>. QED
    BY <1>7, <2>1
<1>9. cell(1) = C!Clear("gre") /\ cell(2) = sc /\ cell(3) = dc /\ cell(4) = fc
  <2>1. ~(1 >= 5) /\ ~(2 >= 5) /\ ~(3 >= 5) /\ ~(4 >= 5)
    OBVIOUS
  <2>. QED
    BY <2>1
<1>10. \A i \in 1..M : cell(4 + i) \in TextCells /\ p[46 + i] = ByteOf(cell(4 + i), i)
  <2>. TAKE i \in 1..M
  <2>. DEFINE c == cell(4 + i)
  <2>1. c = IF i <= n THEN tc[i] ELSE C!Nul
    BY <1>8
  <2>2. p[46 + i] = IF i <= n THEN bytes[i] ELSE 0
    BY <1>5
  <2>. HIDE DEF c
  <2>3. CASE i <= n
    <3>1. i \in 1..n
      BY <1>1, <2>3
    <3>2. tc[i] \in TextCells /\ bytes[i] = ByteOf(tc[i], i)
      BY <1>2, <3>1
    <3>3. c = tc[i] /\ p[46 + i] = bytes[i]
      BY <2>1, <2>2, <2>3
    <3>4. c \in TextCells /\ p[46 + i] = ByteOf(c, i)
      BY <3>2, <3>3
    <3>. QED
      BY <3>4 DEF c
  <2>4. CASE ~(i <= n)
    <3>1. c = C!Nul /\ p[46 + i] = 0
      BY <2>1, <2>2, <2>4
    <3>2. c \in TextCells /\ p[46 + i] = ByteOf(c, i)
      BY <3>1, NulIs
    <3>. QED
      BY <3>2 DEF c
  <2>. QED
    BY <2>3, <2>4
<1>. HIDE DEF cell
<1>11. \A i \in 1..(4 + M) : y[i] = cell(i)
  OBVIOUS
<1>12. \A i \in 1..(4 + M) : cell(i) \in C!Cell
  <2>. TAKE i \in 1..(4 + M)
  <2>1. i = 1 \/ i = 2 \/ i = 3 \/ i = 4 \/ (i - 4 \in 1..M /\ 4 + (i - 4) = i)
    BY <1>1
  <2>2. CASE i - 4 \in 1..M /\ 4 + (i - 4) = i
    <3>1. cell(4 + (i - 4)) \in TextCells
      BY <1>10, <2>2
    <3>2. cell(i) \in TextCells
      BY <2>2, <3>1
    <3>. QED
      BY <3>2, TextCellFacts
  <2>. QED
    BY <1>6, <1>9, <2>1, <2>2
<1>13. y \in [1..(4 + M) -> C!Cell]
  BY <1>12
<1>. HIDE DEF y
<1>14. y \in Seq(C!Cell) /\ Len(y) = 4 + M
  BY <1>1, <1>13
<1>15. y[2] = sc /\ y[3] = dc /\ y[4] = fc
  <2>1. 2 \in 1..(4 + M) /\ 3 \in 1..(4 + M) /\ 4 \in 1..(4 + M)
    BY <1>1
  <2>. QED
    BY <1>9, <1>11, <2>1
<1>16. \A i \in 1..M : y[4 + i] \in TextCells /\ p[46 + i] = ByteOf(y[4 + i], i)
  <2>. TAKE i \in 1..M
  <2>1. 4 + i \in 1..(4 + M)
    BY <1>1
  <2>2. y[4 + i] = cell(4 + i)
    BY <1>11, <2>1
  <2>. QED
    BY <1>10, <2>2
<1>17. /\ p \in Seq(Byte) /\ Len(p) = 46 + M /\ AddressReal(p, 18, y[2]) /\ AddressReal(p, 22, y[3])
       /\ y[4].val \notin Hosts
  BY <1>3, <1>5, <1>6, <1>15
<1>18. ExactWithGre(p, y, M)
  BY <1>14, <1>16, <1>17 DEF ExactWithGre
<1>19. Exact(p, y, TRUE, M)
  BY <1>1, <1>18, ExactBehindGre
<1>. QED
  BY <1>4, <1>19 DEF p, y, fc, tc, bytes, M

LEMMA FlippedTwice ==
  ASSUME NEW v
  PROVE  C!Flip(C!Clear(v)) = C!Masked(v) /\ C!Flip(C!Masked(v)) = C!Clear(v)
<1>. DEFINE c == [val |-> v, masked |-> FALSE]
            m == [val |-> v, masked |-> TRUE]
<1>1. [c EXCEPT !.masked = ~@] = [val |-> v, masked |-> ~c.masked] /\ c.masked = FALSE
  OBVIOUS
<1>2. [m EXCEPT !.masked = ~@] = [val |-> v, masked |-> ~m.masked] /\ m.masked = TRUE
  OBVIOUS
<1>3. C!Clear(v) = c /\ C!Masked(v) = m /\ C!Flip(c) = [c EXCEPT !.masked = ~@] /\ C!Flip(m) = [m EXCEPT !.masked = ~@]
  BY DEF C!Clear, C!Masked, C!Flip
<1>4. (~FALSE) = TRUE /\ (~TRUE) = FALSE
  OBVIOUS
<1>. QED
  BY <1>1, <1>2, <1>3, <1>4

LEMMA SizeIs ==
  ASSUME NEW n \in Nat, n <= MaxPayloadBytes
  PROVE  C!GetPacketSize(n) = 4 + n
<1>. DEFINE M == MaxPayloadBytes
<1>1. M \in Nat /\ C!HeaderLen = 4
  BY SizesAre
<1>2. C!GetPacketSize(n) = (n + 4) % (M + 5)
  BY <1>1 DEF C!GetPacketSize
<1>3. n <= M
  OBVIOUS
<1>. HIDE DEF M
<1>4. (n + 4) % (M + 5) = n + 4
  BY <1>1, <1>3
<1>. QED
  BY <1>2, <1>4

LEMMA Xors ==
  /\ Xor(10, 52) = 62 /\ Xor(0, 52) = 52 /\ Xor(198, 52) = 242 /\ Xor(120, 52) = 76
  /\ Xor(0, 120) = 120 /\ Xor(198, 120) = 190 /\ Xor(190, 120) = 198 /\ Xor(120, 120) = 0
BY DEF Xor

\* What else is known of the request: where it goes, and two bytes of the encrypted ports.
InFlight(b, cs, h) == cs[3] = C!Masked(h) /\ b[28] = 190 /\ b[32] = 120

\* The request, as the client sends it.
LEMMA RequestExact ==
  ASSUME NEW src \in Hosts, NEW dst \in Hosts
  PROVE  LET b == EncryptedBytes(AddressOf(src), AddressOf(dst), SynFlag, BytesOf(RequestText))
             cs == C!CreatePackets(C!Clear(src), C!Clear(dst), C!Clear("syn"), CellsOf(RequestText))
         IN  /\ Exact(b, cs, TRUE, MaxPayloadBytes)
             /\ Exact(SubSeq(b, 1, HeaderSize + Len(RequestText)), C!RequestBytes(cs, RequestText),
                      TRUE, Len(RequestText))
             /\ InFlight(SubSeq(b, 1, HeaderSize + Len(RequestText)), C!RequestBytes(cs, RequestText), dst)
<1>. DEFINE M == MaxPayloadBytes
            n == Len(RequestText)
            bytes == BytesOf(RequestText)
            tc == CellsOf(RequestText)
            p == PacketBytes(AddressOf(src), AddressOf(dst), SynFlag, bytes)
            ps == C!CreatePacketsDes(C!Clear(src), C!Clear(dst), C!Clear("syn"), tc)
            x == XorBytes(p)
            y == C!Xor(ps)
            e == n + 1
            b == EncryptedBytes(AddressOf(src), AddressOf(dst), SynFlag, bytes)
            cs == C!CreatePackets(C!Clear(src), C!Clear(dst), C!Clear("syn"), tc)
<1>0. RequestText \in {RequestText, ReplyText}
  OBVIOUS
<1>1. /\ M \in Nat /\ M > 0 /\ n \in Nat /\ n < M /\ HeaderSize = 46
      /\ bytes \in Seq(Byte) /\ Len(bytes) = n /\ Len(tc) = n
  BY <1>0, SizesAre, TextsAre
<1>2. AddressOf(src) \in Word \X Word /\ AddressOf(dst) \in Word \X Word
  BY HostAddress
<1>3. SynFlag \in Byte
  BY DEF SynFlag, Byte
<1>4. C!Clear(src) \in C!Cell /\ C!Clear(dst) \in C!Cell
  BY DEF C!Clear, C!Cell, C!Values
<1>5. /\ p \in Seq(Byte) /\ Len(p) = 46 + M
      /\ \A i \in 1..4 : p[18 + i] = Bytes32(AddressOf(src))[i] /\ p[22 + i] = Bytes32(AddressOf(dst))[i]
      /\ p[28] = 198 /\ p[32] = 0
  <2>1. Len(bytes) <= M
    BY <1>1
  <2>. HIDE DEF bytes
  <2>. QED
    BY <1>1, <1>2, <1>3, <2>1, PacketBytesAre
<1>6. AddressReal(p, 18, C!Clear(src)) /\ AddressReal(p, 22, C!Clear(dst))
  <2>1. \A i \in 1..4 : p[18 + i] = Bytes32(AddressOf(src))[i]
    BY <1>5
  <2>2. \A i \in 1..4 : p[22 + i] = Bytes32(AddressOf(dst))[i]
    BY <1>5
  <2>. HIDE DEF p
  <2>. QED
    BY <2>1, <2>2, AddressSet
<1>7. Exact(p, ps, TRUE, M)
  BY <1>0, <1>2, <1>3, <1>4, <1>6, PlainExact
<1>8. Exact(x, y, TRUE, M)
  <2>. HIDE DEF p, ps
  <2>. QED
    BY <1>1, <1>7, XorExact
<1>9. b = [x EXCEPT ![46 + e] = 0] /\ cs = [y EXCEPT ![4 + e] = C!Nul]
  <2>1. 46 + n + 1 = 46 + e /\ 5 + C!AtMost(n, M - 1) = 4 + e
    BY <1>1 DEF C!AtMost
  <2>2. b = [x EXCEPT ![46 + n + 1] = 0]
    BY <1>1 DEF EncryptedBytes
  <2>3. cs = [y EXCEPT ![5 + C!AtMost(n, M - 1)] = C!Nul]
    BY <1>1, SizesAre DEF C!CreatePackets
  <2>. QED
    BY <2>1, <2>2, <2>3
<1>10. /\ ps \in Seq(C!Cell) /\ Len(ps) = 4 + M /\ ps[3] = C!Clear(dst)
  <2>1. ps \in Seq(C!Cell) /\ Len(ps) = 4 + M
    BY <1>7 DEF Exact, Before
  <2>2. 3 \in 1..(4 + M) /\ ~(3 >= 5)
    BY <1>1
  <2>3. ps[3] = C!Clear(dst)
    BY <2>2, SizesAre DEF C!CreatePacketsDes, C!SrcAt, C!DstAt, C!FlagsAt
  <2>. QED
    BY <2>1, <2>3
<1>. HIDE DEF p, ps, b, cs, M, n
<1>11. y[3] = C!Masked(dst) /\ y \in Seq(C!Cell) /\ Len(y) = 4 + M
  <2>1. 3 \in 1..Len(ps)
    BY <1>1, <1>10
  <2>2. y[3] = C!Flip(ps[3])
    BY <1>10, <2>1, XorCellsAre
  <2>3. C!Flip(C!Clear(dst)) = C!Masked(dst)
    BY FlippedTwice
  <2>4. y \in Seq(C!Cell) /\ Len(y) = 4 + M
    BY <1>10, XorCellsAre
  <2>. QED
    BY <1>10, <2>2, <2>3, <2>4
<1>18. x[28] = 190 /\ x[32] = 120 /\ x \in Seq(Byte) /\ Len(x) = 46 + M
  <2>1. 28 \in 1..Len(p) /\ 32 \in 1..Len(p)
    BY <1>1, <1>5
  <2>2. x[28] = Xor(p[28], KeyAt(28)) /\ x[32] = Xor(p[32], KeyAt(32))
    BY <1>5, <2>1, XorBytesAre
  <2>3. KeyAt(28) = 120 /\ KeyAt(32) = 120
    BY DEF KeyAt, Key
  <2>4. x \in Seq(Byte) /\ Len(x) = 46 + M
    BY <1>5, XorBytesAre
  <2>. QED
    BY <1>5, <2>2, <2>3, <2>4, Xors
<1>. HIDE DEF x, y
<1>12. e \in 1..M
  BY <1>1
<1>13. Exact(b, cs, TRUE, M)
  BY <1>1, <1>8, <1>9, <1>12, NulExact DEF M
<1>14. cs[3] = C!Masked(dst)
  <2>1. 3 \in DOMAIN y /\ 3 # 4 + e
    BY <1>1, <1>11
  <2>. QED
    BY <1>9, <1>11, <2>1
<1>15. C!RequestBytes(cs, RequestText) = SubSeq(cs, 1, 4 + n)
  <2>1. C!GetPacketSize(n) = 4 + n
    BY <1>1, SizeIs DEF M
  <2>. QED
    BY <2>1 DEF C!RequestBytes, n
<1>16. Exact(SubSeq(b, 1, 46 + n), SubSeq(cs, 1, 4 + n), TRUE, n)
  <2>1. n <= M
    BY <1>1
  <2>. QED
    BY <1>1, <1>13, <2>1, PrefixExact
<1>17. SubSeq(cs, 1, 4 + n)[3] = C!Masked(dst)
  <2>1. cs \in Seq(C!Cell) /\ Len(cs) = 4 + M /\ 4 + n \in Nat /\ 4 + n <= Len(cs) /\ 3 \in 1..(4 + n)
    BY <1>1, <1>13 DEF Exact, Before
  <2>2. SubSeq(cs, 1, 4 + n)[3] = cs[3]
    BY <2>1, PrefixOf
  <2>. QED
    BY <1>14, <2>2
<1>19. b[28] = 190 /\ b[32] = 120
  <2>1. 28 \in 1..Len(x) /\ 32 \in 1..Len(x) /\ 28 # 46 + e /\ 32 # 46 + e
    BY <1>1, <1>12, <1>18
  <2>2. \A i \in 1..Len(x) : [x EXCEPT ![46 + e] = 0][i] = IF i = 46 + e THEN 0 ELSE x[i]
    BY <1>18, NulPut
  <2>. QED
    BY <1>9, <1>18, <2>1, <2>2
<1>20. SubSeq(b, 1, 46 + n)[28] = 190 /\ SubSeq(b, 1, 46 + n)[32] = 120
  <2>1. b \in Seq(Byte) /\ Len(b) = 46 + M /\ 46 + n \in Nat /\ 46 + n <= Len(b)
    BY <1>1, <1>13 DEF Exact, At
  <2>. DEFINE t == SubSeq(b, 1, 46 + n)
  <2>2. \A i \in 1..(46 + n) : t[i] = b[i]
    BY <2>1, PrefixOf
  <2>. HIDE DEF t
  <2>3. 28 \in 1..(46 + n) /\ 32 \in 1..(46 + n)
    BY <1>1
  <2>4. t[28] = 190 /\ t[32] = 120
    BY <1>19, <2>2, <2>3
  <2>. QED
    BY <2>4 DEF t
<1>21. InFlight(SubSeq(b, 1, 46 + n), SubSeq(cs, 1, 4 + n), dst)
  <2>. DEFINE t == SubSeq(b, 1, 46 + n)
              ts == SubSeq(cs, 1, 4 + n)
  <2>1. t[28] = 190 /\ t[32] = 120 /\ ts[3] = C!Masked(dst)
    BY <1>17, <1>20
  <2>. HIDE DEF t, ts
  <2>2. InFlight(t, ts, dst)
    BY <2>1 DEF InFlight
  <2>. QED
    BY <2>2 DEF t, ts
<1>. QED
  BY <1>1, <1>13, <1>15, <1>16, <1>21 DEF M, n, b, cs

LEMMA ExactWithout ==
  ASSUME NEW b \in Seq(Byte), NEW cs \in Seq(C!Cell), NEW n \in Nat, Len(b) = 40 + n, Len(cs) = 3 + n,
         AddressReal(b, 12, cs[1]), AddressReal(b, 16, cs[2]), cs[3].val \notin Hosts,
         \A i \in 1..n : cs[3 + i] \in TextCells /\ b[40 + i] = ByteOf(cs[3 + i], i)
  PROVE  Exact(b, cs, FALSE, n)
<1>. /\ At(FALSE) = 12 /\ Before(FALSE) = 0 /\ 12 + 4 = 16 /\ 0 + 1 = 1 /\ 0 + 2 = 2 /\ 0 + 3 = 3 /\ 12 + 28 = 40
  BY DEF At, Before
<1>1. /\ Len(b) = (At(FALSE) + 28) + n /\ Len(cs) = (Before(FALSE) + 3) + n
      /\ AddressReal(b, At(FALSE), cs[Before(FALSE) + 1])
      /\ AddressReal(b, At(FALSE) + 4, cs[Before(FALSE) + 2])
      /\ cs[Before(FALSE) + 3].val \notin Hosts
  OBVIOUS
<1>2. \A i \in 1..n : /\ cs[(Before(FALSE) + 3) + i] \in TextCells
                      /\ b[(At(FALSE) + 28) + i] = ByteOf(cs[(Before(FALSE) + 3) + i], i)
  <2>. TAKE i \in 1..n
  <2>1. (Before(FALSE) + 3) + i = 3 + i /\ (At(FALSE) + 28) + i = 40 + i
    OBVIOUS
  <2>. QED
    BY <2>1
<1>3. b \in Seq(Byte) /\ cs \in Seq(C!Cell)
  OBVIOUS
<1>. QED
  BY <1>1, <1>2, <1>3 DEF Exact

\* Nothing but the addresses and their cells has changed.
LEMMA ReaddressedExact ==
  ASSUME NEW b, NEW cs, NEW n \in Nat, Exact(b, cs, TRUE, n),
         NEW r \in Seq(Byte), Len(r) = Len(b), \A i \in 27..Len(b) : r[i] = b[i],
         NEW rs \in Seq(C!Cell), Len(rs) = Len(cs), \A i \in 4..Len(cs) : rs[i] = cs[i],
         AddressReal(r, 18, rs[2]), AddressReal(r, 22, rs[3])
  PROVE  Exact(r, rs, TRUE, n)
<1>1. /\ b \in Seq(Byte) /\ Len(b) = 46 + n /\ cs \in Seq(C!Cell) /\ Len(cs) = 4 + n
      /\ cs[4].val \notin Hosts
      /\ \A i \in 1..n : cs[4 + i] \in TextCells /\ b[46 + i] = ByteOf(cs[4 + i], i)
  BY DEF Exact, At, Before
<1>2. Len(r) = 46 + n /\ Len(rs) = 4 + n
  BY <1>1
<1>3. rs[4] = cs[4]
  <2>1. 4 \in 4..Len(cs)
    BY <1>1
  <2>. QED
    BY <2>1
<1>4. ASSUME NEW i \in 1..n
       PROVE  rs[4 + i] \in TextCells /\ r[46 + i] = ByteOf(rs[4 + i], i)
  <2>1. 4 + i \in 4..Len(cs) /\ 46 + i \in 27..Len(b)
    BY <1>1
  <2>2. rs[4 + i] = cs[4 + i] /\ r[46 + i] = b[46 + i]
    BY <2>1
  <2>. QED
    BY <1>1, <2>2
<1>10. rs[4].val \notin Hosts /\ r \in Seq(Byte) /\ rs \in Seq(C!Cell)
  BY <1>1, <1>3
<1>11. AddressReal(r, 18, rs[2]) /\ AddressReal(r, 22, rs[3])
  OBVIOUS
<1>12. ExactWithGre(r, rs, n)
  BY <1>2, <1>4, <1>10, <1>11 DEF ExactWithGre
<1>. QED
  BY <1>12, ExactBehindGre

\* A packet without its GRE header.
LEMMA DroppedExact ==
  ASSUME NEW b, NEW cs, NEW n \in Nat, Exact(b, cs, TRUE, n)
  PROVE  /\ Exact(Decapsulate(b), C!Decapsulate(cs), FALSE, n)
         /\ \A i \in 1..(40 + n) : Decapsulate(b)[i] = b[6 + i]
         /\ \A i \in 1..(3 + n) : C!Decapsulate(cs)[i] = cs[1 + i]
<1>. DEFINE x == Decapsulate(b)
            y == C!Decapsulate(cs)
<1>1. /\ b \in Seq(Byte) /\ Len(b) = 46 + n /\ cs \in Seq(C!Cell) /\ Len(cs) = 4 + n
      /\ AddressReal(b, 18, cs[2]) /\ AddressReal(b, 22, cs[3]) /\ cs[4].val \notin Hosts
      /\ \A i \in 1..n : cs[4 + i] \in TextCells /\ b[46 + i] = ByteOf(cs[4 + i], i)
  BY DEF Exact, At, Before
<1>2. x \in Seq(Byte) /\ Len(x) = 40 + n /\ \A i \in 1..(40 + n) : x[i] = b[6 + i]
  <2>. DEFINE m == 46 + n
  <2>0. 7 \in Nat /\ m \in Nat /\ 7 >= 1 /\ m <= Len(b) /\ 7 <= m + 1 /\ m = 46 + n
    BY <1>1
  <2>1. x = SubSeq(b, 7, m)
    BY <1>1 DEF Decapsulate, GreSize
  <2>. HIDE DEF m
  <2>2. /\ SubSeq(b, 7, m) \in Seq(Byte) /\ Len(SubSeq(b, 7, m)) = m - 7 + 1
        /\ \A i \in 1..(m - 7 + 1) : SubSeq(b, 7, m)[i] = b[7 + i - 1]
    BY <1>1, <2>0, PartOf
  <2>3. m - 7 + 1 = 40 + n /\ \A i \in 1..(40 + n) : 7 + i - 1 = 6 + i
    BY <2>0
  <2>. QED
    BY <2>1, <2>2, <2>3
<1>3. y \in Seq(C!Cell) /\ Len(y) = 3 + n /\ \A i \in 1..(3 + n) : y[i] = cs[1 + i]
  <2>1. y = Tail(cs)
    BY DEF C!Decapsulate
  <2>2. cs # <<>>
    BY <1>1
  <2>3. /\ Tail(cs) \in Seq(C!Cell) /\ Len(Tail(cs)) = Len(cs) - 1
        /\ \A i \in 1..(Len(cs) - 1) : Tail(cs)[i] = cs[i + 1]
    <3>1. cs \in Seq(C!Cell)
      BY <1>1
    <3>. QED
      BY <2>2, <3>1
  <2>4. Len(cs) - 1 = 3 + n /\ \A i \in 1..(3 + n) : i + 1 = 1 + i
    BY <1>1
  <2>. QED
    BY <2>1, <2>3, <2>4
<1>. HIDE DEF x, y
<1>4. /\ 1 \in 1..(3 + n) /\ 2 \in 1..(3 + n) /\ 3 \in 1..(3 + n)
      /\ \A j \in 1..4 : /\ 12 + j \in 1..(40 + n) /\ 16 + j \in 1..(40 + n)
                         /\ 6 + (12 + j) = 18 + j /\ 6 + (16 + j) = 22 + j
  OBVIOUS
<1>5. y[1] = cs[2] /\ y[2] = cs[3] /\ y[3] = cs[4]
  <2>1. y[1] = cs[1 + 1] /\ y[2] = cs[1 + 2] /\ y[3] = cs[1 + 3]
    BY <1>3, <1>4
  <2>. QED
    BY <2>1
<1>6. AddressReal(x, 12, y[1])
  <2>1. \A j \in 1..4 : x[12 + j] = b[18 + j]
    BY <1>2, <1>4
  <2>2. 12 + 4 = 16 /\ 18 + 4 = 22 /\ 4 \in 1..4
    OBVIOUS
  <2>. QED
    BY <1>1, <1>5, <2>1, <2>2 DEF AddressReal
<1>7. AddressReal(x, 16, y[2])
  <2>1. \A j \in 1..4 : x[16 + j] = b[22 + j]
    BY <1>2, <1>4
  <2>. QED
    BY <1>1, <1>5, <2>1 DEF AddressReal
<1>8. ASSUME NEW i \in 1..n
       PROVE  y[3 + i] \in TextCells /\ x[40 + i] = ByteOf(y[3 + i], i)
  <2>1. 3 + i \in 1..(3 + n) /\ 40 + i \in 1..(40 + n) /\ 1 + (3 + i) = 4 + i /\ 6 + (40 + i) = 46 + i
    OBVIOUS
  <2>2. y[3 + i] = cs[4 + i] /\ x[40 + i] = b[46 + i]
    BY <1>2, <1>3, <2>1
  <2>. QED
    BY <1>1, <2>1, <2>2
<1>10. y[3].val \notin Hosts
  BY <1>1, <1>5
<1>11. Exact(x, y, FALSE, n)
  <2>1. x \in Seq(Byte) /\ Len(x) = 40 + n /\ y \in Seq(C!Cell) /\ Len(y) = 3 + n
    BY <1>2, <1>3
  <2>. QED
    BY <2>1, <1>6, <1>7, <1>8, <1>10, ExactWithout
<1>. QED
  BY <1>2, <1>3, <1>11 DEF x, y

\* A packet with a GRE header put before it.
Behind(b, x, n) == \A i \in 1..n : x[6 + i] = b[i]

LEMMA EncapsulatedExact ==
  ASSUME NEW b, NEW cs, NEW n \in Nat, Exact(b, cs, FALSE, n)
  PROVE  Exact(GreBytes \o b, C!Encapsulate(cs), TRUE, n) /\ Behind(b, GreBytes \o b, 40 + n)
<1>. DEFINE x == GreBytes \o b
            one == <<C!Clear("gre")>>
            y == one \o cs
<1>1. /\ b \in Seq(Byte) /\ Len(b) = 40 + n /\ cs \in Seq(C!Cell) /\ Len(cs) = 3 + n
      /\ AddressReal(b, 12, cs[1]) /\ AddressReal(b, 16, cs[2]) /\ cs[3].val \notin Hosts
      /\ \A i \in 1..n : cs[3 + i] \in TextCells /\ b[40 + i] = ByteOf(cs[3 + i], i)
  BY DEF Exact, At, Before
<1>2. x \in Seq(Byte) /\ Len(x) = 46 + n /\ \A i \in 1..(40 + n) : x[6 + i] = b[i]
  <2>1. GreBytes \in Seq(Byte) /\ Len(GreBytes) = 6 /\ b \in Seq(Byte)
    BY <1>1, GreBytesAre
  <2>. DEFINE g == GreBytes
  <2>. HIDE DEF g
  <2>2. /\ g \o b \in Seq(Byte) /\ Len(g \o b) = Len(g) + Len(b)
        /\ \A i \in 1..Len(b) : (g \o b)[Len(g) + i] = b[i]
    <3>1. g \in Seq(Byte) /\ b \in Seq(Byte)
      BY <2>1 DEF g
    <3>. QED
      BY <3>1, Joined
  <2>3. g \o b = x /\ Len(g) = 6
    BY <2>1 DEF g
  <2>. HIDE DEF x
  <2>4. x \in Seq(Byte) /\ Len(x) = 6 + Len(b) /\ \A i \in 1..Len(b) : x[6 + i] = b[i]
    BY <2>2, <2>3
  <2>. QED
    BY <1>1, <2>4
<1>3. y \in Seq(C!Cell) /\ Len(y) = 4 + n /\ \A i \in 1..(3 + n) : y[1 + i] = cs[i]
  <2>1. C!Clear("gre") \in C!Cell
    BY DEF C!Clear, C!Cell, C!Values
  <2>2. one \in Seq(C!Cell) /\ Len(one) = 1 /\ cs \in Seq(C!Cell)
    BY <1>1, <2>1
  <2>. HIDE DEF one
  <2>3. one \in Seq(C!Cell)
    BY <2>2
  <2>4. cs \in Seq(C!Cell)
    BY <1>1
  <2>5. /\ one \o cs \in Seq(C!Cell) /\ Len(one \o cs) = Len(one) + Len(cs)
        /\ \A i \in 1..Len(cs) : (one \o cs)[Len(one) + i] = cs[i]
    BY <2>3, <2>4, Joined
  <2>6. one \o cs = y
    OBVIOUS
  <2>. HIDE DEF y
  <2>7. /\ y \in Seq(C!Cell) /\ Len(y) = 1 + Len(cs) /\ \A i \in 1..Len(cs) : y[1 + i] = cs[i]
    BY <2>2, <2>5, <2>6
  <2>. QED
    BY <1>1, <2>7
<1>0. C!Encapsulate(cs) = y
  BY DEF C!Encapsulate
<1>. HIDE DEF x, y
<1>4. /\ 1 \in 1..(3 + n) /\ 2 \in 1..(3 + n) /\ 3 \in 1..(3 + n)
      /\ \A j \in 1..4 : /\ 12 + j \in 1..(40 + n) /\ 16 + j \in 1..(40 + n)
                         /\ 6 + (12 + j) = 18 + j /\ 6 + (16 + j) = 22 + j
  OBVIOUS
<1>5. y[2] = cs[1] /\ y[3] = cs[2] /\ y[4] = cs[3]
  <2>1. y[1 + 1] = cs[1] /\ y[1 + 2] = cs[2] /\ y[1 + 3] = cs[3]
    BY <1>3, <1>4
  <2>. QED
    BY <2>1
<1>6. AddressReal(x, 18, y[2])
  <2>1. \A j \in 1..4 : x[18 + j] = b[12 + j]
    BY <1>2, <1>4
  <2>2. 12 + 4 = 16 /\ 18 + 4 = 22 /\ 4 \in 1..4
    OBVIOUS
  <2>. QED
    BY <1>1, <1>5, <2>1, <2>2 DEF AddressReal
<1>7. AddressReal(x, 22, y[3])
  <2>1. \A j \in 1..4 : x[22 + j] = b[16 + j]
    BY <1>2, <1>4
  <2>. QED
    BY <1>1, <1>5, <2>1 DEF AddressReal
<1>8. ASSUME NEW i \in 1..n
       PROVE  y[4 + i] \in TextCells /\ x[46 + i] = ByteOf(y[4 + i], i)
  <2>1. 3 + i \in 1..(3 + n) /\ 40 + i \in 1..(40 + n) /\ 1 + (3 + i) = 4 + i /\ 6 + (40 + i) = 46 + i
    OBVIOUS
  <2>2. y[4 + i] = cs[3 + i] /\ x[46 + i] = b[40 + i]
    BY <1>2, <1>3, <2>1
  <2>. QED
    BY <1>1, <2>1, <2>2
<1>10. y[4].val \notin Hosts
  BY <1>1, <1>5
<1>11. Exact(x, y, TRUE, n)
  <2>1. x \in Seq(Byte) /\ Len(x) = 46 + n /\ y \in Seq(C!Cell) /\ Len(y) = 4 + n
    BY <1>2, <1>3
  <2>2. ExactWithGre(x, y, n)
    BY <2>1, <1>6, <1>7, <1>8, <1>10 DEF ExactWithGre
  <2>. QED
    BY <2>2, ExactBehindGre
<1>12. Behind(b, x, 40 + n)
  BY <1>2 DEF Behind
<1>. QED
  BY <1>0, <1>11, <1>12 DEF x

\* Every field that the server does not rewrite lies six bytes nearer to the start.
Shifted(b, x) == \A i \in 1..40 : i <= 10 \/ i >= 17 => x[i] = b[6 + i]

Forwards(b, cs, x, y) == Shifted(b, x) /\ y[2] = cs[3]

\* The request as the server forwards it.
LEMMA ForwardedExact ==
  ASSUME NEW b, NEW cs, NEW n \in Nat, Exact(b, cs, TRUE, n)
  PROVE  LET x == Decapsulate(Rewritten(b, ServHandlePkt(IpIn(b), AddressOf(Server))))
             y == C!ServHandlePkt(cs, Server)
         IN  Exact(x, y, FALSE, n) /\ Forwards(b, cs, x, y)
<1>. DEFINE a == AddressOf(Server)
            r == Rewritten(b, ServHandlePkt(IpIn(b), a))
            sc == C!Clear(Server)
            rs == [cs EXCEPT ![2] = sc]
<1>0. Server \in Hosts
  BY WireAssumption
<1>1. /\ b \in Seq(Byte) /\ Len(b) = 46 + n /\ cs \in Seq(C!Cell) /\ Len(cs) = 4 + n
      /\ AddressReal(b, 18, cs[2]) /\ AddressReal(b, 22, cs[3])
  BY DEF Exact, At, Before
<1>2. a \in Word \X Word
  BY <1>0, HostAddress
<1>3. /\ r \in Seq(Byte) /\ Len(r) = Len(b)
      /\ \A i \in 1..Len(b) : i \notin 17..22 => r[i] = b[i]
      /\ \A i \in 1..4 : r[18 + i] = Bytes32(a)[i]
  <2>1. b \in Seq(Byte) /\ Len(b) >= 26
    BY <1>1
  <2>. HIDE DEF a
  <2>. QED
    BY <1>2, <2>1, RequestRewritten
<1>4. sc \in C!Cell
  BY <1>0 DEF C!Clear, C!Cell, C!Values
<1>5. C!ServHandlePkt(cs, Server) = C!Decapsulate(rs)
  BY DEF C!ServHandlePkt, C!SrcAt
<1>6. AddressReal(r, 18, sc)
  <2>1. \A i \in 1..4 : r[18 + i] = Bytes32(AddressOf(Server))[i]
    BY <1>3
  <2>. HIDE DEF r
  <2>. QED
    BY <1>0, <2>1, AddressSet
<1>. HIDE DEF r, sc
<1>7. rs \in Seq(C!Cell) /\ Len(rs) = Len(cs) /\ rs[2] = sc /\ rs[3] = cs[3] /\ \A i \in 4..Len(cs) : rs[i] = cs[i]
  <2>1. cs \in [1..(4 + n) -> C!Cell]
    BY <1>1
  <2>2. rs \in [1..(4 + n) -> C!Cell] /\ \A i \in 1..(4 + n) : rs[i] = IF i = 2 THEN sc ELSE cs[i]
    BY <1>4, <2>1
  <2>. HIDE DEF rs
  <2>3. rs \in Seq(C!Cell) /\ Len(rs) = 4 + n
    BY <2>2
  <2>4. 2 \in 1..(4 + n) /\ 3 \in 1..(4 + n) /\ \A i \in 4..(4 + n) : i \in 1..(4 + n) /\ i # 2
    OBVIOUS
  <2>. QED
    BY <1>1, <2>2, <2>3, <2>4
<1>. HIDE DEF rs
<1>8. AddressReal(r, 18, rs[2])
  BY <1>6, <1>7
<1>9. AddressReal(r, 22, rs[3])
  <2>1. \A j \in 1..4 : r[22 + j] = b[22 + j]
    <3>. TAKE j \in 1..4
    <3>1. 22 + j \in 1..Len(b) /\ 22 + j \notin 17..22
      BY <1>1
    <3>. QED
      BY <1>3, <3>1
  <2>. QED
    BY <1>1, <1>7, <2>1 DEF AddressReal
<1>10. \A i \in 27..Len(b) : r[i] = b[i]
  <2>. TAKE i \in 27..Len(b)
  <2>1. i \in 1..Len(b) /\ i \notin 17..22
    BY <1>1
  <2>. QED
    BY <1>3, <2>1
<1>11. Exact(r, rs, TRUE, n)
  <2>1. r \in Seq(Byte)
    BY <1>3
  <2>2. rs \in Seq(C!Cell)
    BY <1>7
  <2>3. Len(r) = Len(b) /\ Len(rs) = Len(cs) /\ \A i \in 4..Len(cs) : rs[i] = cs[i]
    BY <1>3, <1>7
  <2>. QED
    BY <1>8, <1>9, <1>10, <2>1, <2>2, <2>3, ReaddressedExact
<1>12. /\ Exact(Decapsulate(r), C!Decapsulate(rs), FALSE, n)
       /\ \A i \in 1..(40 + n) : Decapsulate(r)[i] = r[6 + i]
       /\ \A i \in 1..(3 + n) : C!Decapsulate(rs)[i] = rs[1 + i]
  BY <1>11, DroppedExact
<1>13. C!Decapsulate(rs)[2] = cs[3]
  <2>1. 2 \in 1..(3 + n) /\ 1 + 2 = 3
    OBVIOUS
  <2>2. C!Decapsulate(rs)[2] = rs[1 + 2]
    BY <1>12, <2>1
  <2>. QED
    BY <1>7, <2>1, <2>2
<1>14. \A i \in 1..40 : i <= 10 \/ i >= 17 => Decapsulate(r)[i] = b[6 + i]
  <2>. TAKE i \in 1..40
  <2>1. i \in 1..(40 + n) /\ 6 + i \in 1..Len(b) /\ (i <= 10 \/ i >= 17 => 6 + i \notin 17..22)
    BY <1>1
  <2>2. Decapsulate(r)[i] = r[6 + i]
    BY <1>12, <2>1
  <2>3. 6 + i \notin 17..22 => r[6 + i] = b[6 + i]
    BY <1>3, <2>1
  <2>. QED
    BY <2>1, <2>2, <2>3
<1>15. Forwards(b, cs, Decapsulate(r), C!Decapsulate(rs))
  <2>. DEFINE u == Decapsulate(r)
              v == C!Decapsulate(rs)
  <2>1. v[2] = cs[3]
    BY <1>13
  <2>2. \A i \in 1..40 : i <= 10 \/ i >= 17 => u[i] = b[6 + i]
    BY <1>14
  <2>. HIDE DEF u, v
  <2>3. Forwards(b, cs, u, v)
    BY <2>1, <2>2 DEF Forwards, Shifted
  <2>. QED
    BY <2>3 DEF u, v
<1>. QED
  BY <1>5, <1>12, <1>15 DEF r

\* Nothing follows the reply in its packet.
EndsInZeros(x) == \A i \in 1..MaxPayloadBytes : i > Len(ReplyText) => x[40 + i] = 0

\* The destination's answer to whatever it has received.
LEMMA AnswerExact ==
  ASSUME NEW b, NEW cs, Exact(b, cs, FALSE, MaxPayloadBytes), NEW h \in Hosts
  PROVE  LET x == Decapsulate(PacketBytes(AddressOf(h), ThroughText(IpOf(b).src), AckFlag, BytesOf(ReplyText)))
             y == C!Decapsulate(C!CreatePacketsDes(C!Clear(h), cs[C!SrcAt - 1], C!Clear("ack"), CellsOf(ReplyText)))
         IN  Exact(x, y, FALSE, MaxPayloadBytes) /\ EndsInZeros(x)
<1>. DEFINE M == MaxPayloadBytes
            a == Read32(b, 13)
            bytes == BytesOf(ReplyText)
            tc == CellsOf(ReplyText)
            p == PacketBytes(AddressOf(h), a, AckFlag, bytes)
            ps == C!CreatePacketsDes(C!Clear(h), cs[1], C!Clear("ack"), tc)
<1>0. ReplyText \in {RequestText, ReplyText}
  OBVIOUS
<1>1. /\ b \in Seq(Byte) /\ Len(b) = 40 + M /\ cs \in Seq(C!Cell) /\ Len(cs) = 3 + M
      /\ AddressReal(b, 12, cs[1])
  BY DEF Exact, At, Before
<1>2. M \in Nat /\ M > 0 /\ bytes \in Seq(Byte) /\ Len(bytes) = Len(ReplyText) /\ Len(ReplyText) \in Nat /\ Len(ReplyText) < M
  BY <1>0, TextsAre, SizesAre
<1>3. a \in Word \X Word /\ \A j \in 1..4 : Bytes32(a)[j] = b[12 + j]
  <2>1. 13 \in 1..Len(b) /\ 14 \in 1..Len(b) /\ 15 \in 1..Len(b) /\ 16 \in 1..Len(b)
    BY <1>1, <1>2
  <2>2. b[13] \in Byte /\ b[13 + 1] \in Byte /\ b[13 + 2] \in Byte /\ b[13 + 3] \in Byte
    <3>1. b[13] \in Byte /\ b[14] \in Byte /\ b[15] \in Byte /\ b[16] \in Byte
      BY <1>1, <2>1, ElementsOf
    <3>. QED
      BY <3>1
  <2>3. /\ a \in Word \X Word
        /\ Bytes32(a)[1] = b[13] /\ Bytes32(a)[2] = b[13 + 1]
        /\ Bytes32(a)[3] = b[13 + 2] /\ Bytes32(a)[4] = b[13 + 3]
    <3>1. 13 \in Nat
      OBVIOUS
    <3>. QED
      BY <2>2, <3>1, Read32Is
  <2>. HIDE DEF a
  <2>4. ASSUME NEW j \in 1..4
        PROVE  Bytes32(a)[j] = b[12 + j]
    <3>1. j = 1 \/ j = 2 \/ j = 3 \/ j = 4
      OBVIOUS
    <3>. QED
      BY <2>3, <3>1
  <2>. QED
    BY <2>3, <2>4
<1>4. ThroughText(IpOf(b).src) = a
  <2>1. IpOf(b).src = a
    BY DEF IpOf
  <2>. HIDE DEF a
  <2>. QED
    BY <1>3, <2>1, SameThroughText
<1>. HIDE DEF a
<1>5. AddressOf(h) \in Word \X Word
  BY HostAddress
<1>6. AckFlag \in Byte
  BY DEF AckFlag, Byte
<1>7. C!Clear(h) \in C!Cell /\ cs[1] \in C!Cell
  <2>1. C!Clear(h) \in C!Cell
    BY DEF C!Clear, C!Cell, C!Values
  <2>2. 1 \in 1..Len(cs)
    BY <1>1, <1>2
  <2>. QED
    BY <1>1, <2>1, <2>2, ElementsOf
<1>8. /\ p \in Seq(Byte) /\ Len(p) = 46 + M
      /\ \A i \in 1..4 : p[18 + i] = Bytes32(AddressOf(h))[i] /\ p[22 + i] = Bytes32(a)[i]
      /\ \A i \in 1..M : p[46 + i] = IF i <= Len(bytes) THEN bytes[i] ELSE 0
  <2>1. Len(bytes) <= M
    BY <1>2
  <2>2. bytes \in Seq(Byte)
    BY <1>2
  <2>. HIDE DEF bytes
  <2>. QED
    BY <1>3, <1>5, <1>6, <2>1, <2>2, PacketBytesAre
<1>9. AddressReal(p, 18, C!Clear(h)) /\ AddressReal(p, 22, cs[1])
  <2>1. \A i \in 1..4 : p[18 + i] = Bytes32(AddressOf(h))[i]
    BY <1>8
  <2>2. \A i \in 1..4 : p[22 + i] = b[12 + i]
    BY <1>3, <1>8
  <2>. HIDE DEF p
  <2>3. AddressReal(p, 18, C!Clear(h))
    BY <2>1, AddressSet
  <2>4. 22 + 4 = 26 /\ 12 + 4 = 16 /\ 4 \in 1..4
    OBVIOUS
  <2>5. AddressReal(p, 22, cs[1])
    BY <1>1, <2>2, <2>4 DEF AddressReal
  <2>. QED
    BY <2>3, <2>5
<1>10. Exact(p, ps, TRUE, M)
  <2>. DEFINE c == cs[1]
  <2>1. c \in C!Cell /\ AddressReal(p, 22, c)
    BY <1>7, <1>9
  <2>. HIDE DEF c
  <2>2. Exact(p, C!CreatePacketsDes(C!Clear(h), c, C!Clear("ack"), tc), TRUE, M)
    BY <1>0, <1>3, <1>5, <1>6, <1>7, <1>9, <2>1, PlainExact
  <2>. QED
    BY <2>2 DEF c
<1>. HIDE DEF p, ps, M, bytes
<1>11. /\ Exact(Decapsulate(p), C!Decapsulate(ps), FALSE, M)
       /\ \A i \in 1..(40 + M) : Decapsulate(p)[i] = p[6 + i]
  BY <1>2, <1>10, DroppedExact
<1>12. \A i \in 1..M : i > Len(ReplyText) => Decapsulate(p)[40 + i] = 0
  <2>. TAKE i \in 1..M
  <2>1. 40 + i \in 1..(40 + M) /\ 6 + (40 + i) = 46 + i
    BY <1>2
  <2>2. Decapsulate(p)[40 + i] = p[46 + i]
    BY <1>11, <2>1
  <2>3. i > Len(ReplyText) => ~(i <= Len(bytes))
    BY <1>2
  <2>. QED
    BY <1>8, <2>2, <2>3
<1>13. C!SrcAt - 1 = 1
  BY DEF C!SrcAt
<1>14. p = PacketBytes(AddressOf(h), ThroughText(IpOf(b).src), AckFlag, BytesOf(ReplyText))
  BY <1>4 DEF p, bytes
<1>15. ps = C!CreatePacketsDes(C!Clear(h), cs[C!SrcAt - 1], C!Clear("ack"), CellsOf(ReplyText))
  BY <1>13 DEF ps
<1>16. EndsInZeros(Decapsulate(p))
  <2>. DEFINE u == Decapsulate(p)
  <2>1. \A i \in 1..M : i > Len(ReplyText) => u[40 + i] = 0
    BY <1>12
  <2>. HIDE DEF u
  <2>2. EndsInZeros(u)
    BY <2>1 DEF EndsInZeros, M
  <2>. QED
    BY <2>2 DEF u
<1>. QED
  BY <1>11, <1>14, <1>15, <1>16 DEF M

\* What the destination sends of its answer: six bytes behind the text, and one cell.
SameBare(b, x) == \A i \in 1..40 : x[i] = b[i]

LEMMA ReplyAgrees ==
  ASSUME NEW b, NEW cs, Exact(b, cs, FALSE, MaxPayloadBytes), EndsInZeros(b)
  PROVE  LET x == SubSeq(b, 1, HeaderSize + Len(ReplyText))
             y == C!ReplyBytes(cs, ReplyText)
         IN  Agree(x, y, FALSE) /\ SameBare(b, x)
<1>. DEFINE M == MaxPayloadBytes
            n == Len(ReplyText)
            x == SubSeq(b, 1, 46 + n)
            y == SubSeq(cs, 1, 4 + n)
<1>1. /\ b \in Seq(Byte) /\ Len(b) = 40 + M /\ cs \in Seq(C!Cell) /\ Len(cs) = 3 + M
      /\ AddressReal(b, 12, cs[1]) /\ AddressReal(b, 16, cs[2]) /\ cs[3].val \notin Hosts
      /\ \A i \in 1..M : cs[3 + i] \in TextCells /\ b[40 + i] = ByteOf(cs[3 + i], i)
  BY DEF Exact, At, Before
<1>2. M \in Nat /\ n \in Nat /\ n + 6 <= M /\ HeaderSize = 46
  <2>1. ReplyText \in {RequestText, ReplyText}
    OBVIOUS
  <2>2. M \in Nat /\ n \in Nat /\ HeaderSize = 46
    BY <2>1, TextsAre, SizesAre
  <2>. QED
    BY <2>2, TextAssumption DEF GreSize
<1>3. \A i \in 1..M : i > n => b[40 + i] = 0
  BY DEF EndsInZeros
<1>4. C!ReplyBytes(cs, ReplyText) = y
  <2>1. n \in Nat /\ n <= MaxPayloadBytes
    BY <1>2
  <2>2. C!GetPacketSize(n) = 4 + n
    BY <2>1, SizeIs
  <2>. QED
    BY <2>2 DEF C!ReplyBytes
<1>. HIDE DEF M, n
<1>5. x \in Seq(Byte) /\ Len(x) = 46 + n /\ \A i \in 1..(46 + n) : x[i] = b[i]
  <2>1. 46 + n \in Nat /\ 46 + n <= Len(b)
    BY <1>1, <1>2
  <2>. QED
    BY <1>1, <2>1, PrefixOf
<1>6. y \in Seq(C!Cell) /\ Len(y) = 4 + n /\ \A i \in 1..(4 + n) : y[i] = cs[i]
  <2>1. 4 + n \in Nat /\ 4 + n <= Len(cs)
    BY <1>1, <1>2
  <2>. QED
    BY <1>1, <2>1, PrefixOf
<1>. HIDE DEF x, y
<1>7. /\ 1 \in 1..(4 + n) /\ 2 \in 1..(4 + n) /\ 3 \in 1..(4 + n)
      /\ \A j \in 1..4 : 12 + j \in 1..(46 + n) /\ 16 + j \in 1..(46 + n)
      /\ \A j \in 1..40 : j \in 1..(46 + n)
  BY <1>2
<1>8. y[1] = cs[1] /\ y[2] = cs[2] /\ y[3] = cs[3]
  BY <1>6, <1>7
<1>9. AddressReal(x, 12, y[1])
  <2>1. \A j \in 1..4 : x[12 + j] = b[12 + j]
    BY <1>5, <1>7
  <2>. QED
    BY <1>1, <1>8, <2>1 DEF AddressReal
<1>10. AddressReal(x, 16, y[2])
  <2>1. \A j \in 1..4 : x[16 + j] = b[16 + j]
    BY <1>5, <1>7
  <2>. QED
    BY <1>1, <1>8, <2>1 DEF AddressReal
<1>11. TextReal(x, 40, y, 3)
  <2>1. Len(x) - 40 = 6 + n /\ Len(y) - 3 = n + 1
    BY <1>2, <1>5, <1>6
  <2>2. ASSUME NEW i \in 1..(6 + n), i <= n + 1
        PROVE  y[3 + i] \in TextCells /\ x[40 + i] = ByteOf(y[3 + i], i)
    <3>1. 3 + i \in 1..(4 + n) /\ 40 + i \in 1..(46 + n) /\ i \in 1..M
      BY <1>2, <2>2
    <3>2. y[3 + i] = cs[3 + i] /\ x[40 + i] = b[40 + i]
      BY <1>5, <1>6, <3>1
    <3>. QED
      BY <1>1, <3>1, <3>2
  <2>3. ASSUME NEW i \in 1..(6 + n), ~(i <= n + 1)
        PROVE  x[40 + i] = 0
    <3>1. 40 + i \in 1..(46 + n) /\ i \in 1..M /\ i > n
      BY <1>2, <2>3
    <3>. QED
      BY <1>3, <1>5, <3>1
  <2>. QED
    BY <2>1, <2>2, <2>3 DEF TextReal
<1>12. /\ At(FALSE) = 12 /\ Before(FALSE) = 0
  BY DEF At, Before
<1>13. Agree(x, y, FALSE)
  <2>1. /\ Len(x) >= 12 + 28 /\ Len(x) <= 12 + 28 + M /\ Len(y) >= 0 + 3 /\ Len(y) - 0 - 3 <= Len(x) - 12 - 28
    BY <1>2, <1>5, <1>6
  <2>2. x \in Seq(Byte) /\ y \in Seq(C!Cell)
    BY <1>5, <1>6
  <2>3. /\ AddressReal(x, 12, y[0 + 1]) /\ AddressReal(x, 12 + 4, y[0 + 2]) /\ y[0 + 3].val \notin Hosts
        /\ TextReal(x, 12 + 28, y, 0 + 3)
    <3>1. 0 + 1 = 1 /\ 0 + 2 = 2 /\ 0 + 3 = 3 /\ 12 + 4 = 16 /\ 12 + 28 = 40
      OBVIOUS
    <3>. QED
      BY <1>1, <1>8, <1>9, <1>10, <1>11, <3>1
  <2>. QED
    BY <1>12, <2>1, <2>2, <2>3 DEF Agree, M
<1>14. SameBare(b, x)
  BY <1>5, <1>7 DEF SameBare
<1>. QED
  BY <1>2, <1>4, <1>13, <1>14 DEF x, n

\* What stays of all headers when the destination is changed.
Kept(b, r) == \A i \in 1..46 : i \notin 17..18 /\ i \notin 23..26 => r[i] = b[i]

\* The reply as the server readdresses it to whom it has saved.
LEMMA ReturnedExact ==
  ASSUME NEW b, NEW cs, NEW n \in Nat, Exact(b, cs, TRUE, n),
         NEW q, NEW qs, NEW m \in Nat, Exact(q, qs, TRUE, m)
  PROVE  LET r == Rewritten(b, ServHandlePktDest(IpIn(b), ThroughText(IpIn(q).src)))
             rs == C!ServHandlePktDest(cs, C!SaveClientIp(qs))
         IN  Exact(r, rs, TRUE, n) /\ Kept(b, r)
<1>. DEFINE a == IpIn(q).src
            r == Rewritten(b, ServHandlePktDest(IpIn(b), a))
            dc == qs[2]
            rs == [cs EXCEPT ![3] = dc]
<1>1. /\ b \in Seq(Byte) /\ Len(b) = 46 + n /\ cs \in Seq(C!Cell) /\ Len(cs) = 4 + n
      /\ AddressReal(b, 18, cs[2]) /\ AddressReal(b, 22, cs[3])
  BY DEF Exact, At, Before
<1>2. /\ q \in Seq(Byte) /\ Len(q) = 46 + m /\ qs \in Seq(C!Cell) /\ Len(qs) = 4 + m
      /\ AddressReal(q, 18, qs[2])
  BY DEF Exact, At, Before
<1>3. a \in Word \X Word /\ \A j \in 1..4 : Bytes32(a)[j] = q[18 + j]
  <2>. DEFINE h == IpIn(q)
              s == SubSeq(q, 7, 26)
  <2>1. q \in Seq(Byte) /\ Len(q) >= 26
    BY <1>2
  <2>2. h \in IpHeaders /\ IpFields(s, h)
    BY <2>1, IpInIs
  <2>3. \A i \in 1..20 : s[i] = q[6 + i]
    BY <2>1, HeaderPart
  <2>. HIDE DEF h, s
  <2>4. \A j \in 1..4 : s[12 + j] = Bytes32(h.src)[j]
    BY <2>2 DEF IpFields
  <2>5. h.src \in Word \X Word
    BY <2>2 DEF IpHeaders
  <2>6. \A j \in 1..4 : Bytes32(h.src)[j] = q[18 + j]
    <3>. TAKE j \in 1..4
    <3>1. 12 + j \in 1..20 /\ 6 + (12 + j) = 18 + j
      OBVIOUS
    <3>2. s[12 + j] = q[6 + (12 + j)]
      BY <2>3, <3>1
    <3>. QED
      BY <2>4, <3>1, <3>2
  <2>. QED
    BY <2>5, <2>6 DEF h
<1>. HIDE DEF a
<1>4. ThroughText(a) = a
  BY <1>3, SameThroughText
<1>5. /\ r \in Seq(Byte) /\ Len(r) = Len(b)
      /\ \A i \in 1..Len(b) : i \notin 17..18 /\ i \notin 23..26 => r[i] = b[i]
      /\ \A i \in 1..4 : r[22 + i] = Bytes32(a)[i]
  <2>1. b \in Seq(Byte) /\ Len(b) >= 26
    BY <1>1
  <2>. QED
    BY <1>3, <2>1, ReplyRewritten
<1>6. dc \in C!Cell
  <2>1. 2 \in 1..Len(qs)
    BY <1>2
  <2>. QED
    BY <1>2, <2>1, ElementsOf
<1>7. C!ServHandlePktDest(cs, C!SaveClientIp(qs)) = rs
  BY DEF C!ServHandlePktDest, C!SaveClientIp, C!SrcAt, C!DstAt
<1>. HIDE DEF r
<1>8. AddressReal(r, 22, dc)
  <2>1. \A j \in 1..4 : r[22 + j] = q[18 + j]
    BY <1>3, <1>5
  <2>2. 22 + 4 = 26 /\ 18 + 4 = 22 /\ 4 \in 1..4
    OBVIOUS
  <2>. QED
    BY <1>2, <2>1, <2>2 DEF AddressReal
<1>9. AddressReal(r, 18, cs[2])
  <2>1. \A j \in 1..4 : r[18 + j] = b[18 + j]
    <3>. TAKE j \in 1..4
    <3>1. 18 + j \in 1..Len(b) /\ 18 + j \notin 17..18 /\ 18 + j \notin 23..26
      BY <1>1
    <3>. QED
      BY <1>5, <3>1
  <2>. QED
    BY <1>1, <2>1 DEF AddressReal
<1>. HIDE DEF dc
<1>10. rs \in Seq(C!Cell) /\ Len(rs) = Len(cs) /\ rs[2] = cs[2] /\ rs[3] = dc /\ \A i \in 4..Len(cs) : rs[i] = cs[i]
  <2>1. cs \in [1..(4 + n) -> C!Cell]
    BY <1>1
  <2>2. rs \in [1..(4 + n) -> C!Cell] /\ \A i \in 1..(4 + n) : rs[i] = IF i = 3 THEN dc ELSE cs[i]
    BY <1>6, <2>1
  <2>. HIDE DEF rs
  <2>3. rs \in Seq(C!Cell) /\ Len(rs) = 4 + n
    BY <2>2
  <2>4. 2 \in 1..(4 + n) /\ 3 \in 1..(4 + n) /\ \A i \in 4..(4 + n) : i \in 1..(4 + n) /\ i # 3
    OBVIOUS
  <2>. QED
    BY <1>1, <2>2, <2>3, <2>4
<1>. HIDE DEF rs
<1>11. AddressReal(r, 18, rs[2]) /\ AddressReal(r, 22, rs[3])
  BY <1>8, <1>9, <1>10
<1>12. \A i \in 27..Len(b) : r[i] = b[i]
  <2>. TAKE i \in 27..Len(b)
  <2>1. i \in 1..Len(b) /\ i \notin 17..18 /\ i \notin 23..26
    BY <1>1
  <2>. QED
    BY <1>5, <2>1
<1>13. Exact(r, rs, TRUE, n)
  <2>1. r \in Seq(Byte)
    BY <1>5
  <2>2. rs \in Seq(C!Cell)
    BY <1>10
  <2>3. Len(r) = Len(b) /\ Len(rs) = Len(cs) /\ \A i \in 4..Len(cs) : rs[i] = cs[i]
    BY <1>5, <1>10
  <2>. QED
    BY <1>11, <1>12, <2>1, <2>2, <2>3, ReaddressedExact
<1>14. Kept(b, r)
  <2>. SUFFICES ASSUME NEW i \in 1..46, i \notin 17..18, i \notin 23..26
                PROVE  r[i] = b[i]
    BY DEF Kept
  <2>1. i \in 1..Len(b)
    BY <1>1
  <2>. QED
    BY <1>5, <2>1
<1>. QED
  BY <1>4, <1>7, <1>13, <1>14 DEF r, a

\* The reply as the server encrypts it for the client.
UnderKey(b, x) == \A i \in 1..46 : Xor(x[i], KeyAt(i)) = b[i]

LEMMA SentBackExact ==
  ASSUME NEW b, NEW cs, NEW n \in Nat, Exact(b, cs, TRUE, n), n <= MaxPayloadBytes
  PROVE  LET x == XorBytes(SubSeq(b, 1, HeaderSize + StrLen(b, HeaderSize + 1)))
             y == C!ServCliEncrypt(cs)
         IN  Agree(x, y, TRUE) /\ UnderKey(b, x)
<1>. DEFINE s == StrLen(b, 47)
            p == SubSeq(b, 1, 46 + s)
            ps == SubSeq(cs, 1, 4 + s)
<1>1. HeaderSize = 46 /\ 46 + 1 = 47 /\ C!PayloadAt = 5 /\ MaxPayloadBytes \in Nat
  BY SizesAre
<1>2. s \in Nat /\ s <= n /\ C!TextEnd(cs, 5) = 5 + s
  BY LengthsAgree
<1>. HIDE DEF s
<1>3. Exact(p, ps, TRUE, s)
  BY <1>2, PrefixExact
<1>4. C!ServCliEncrypt(cs) = C!Xor(ps)
  <2>1. C!StrLen(cs, 5) = s
    BY <1>2 DEF C!StrLen
  <2>2. s <= MaxPayloadBytes
    BY <1>1, <1>2
  <2>3. C!GetPacketSize(s) = 4 + s
    BY <1>2, <2>2, SizeIs
  <2>. QED
    BY <1>1, <2>1, <2>3 DEF C!ServCliEncrypt
<1>5. p \in Seq(Byte) /\ Len(p) = 46 + s /\ \A i \in 1..(46 + s) : p[i] = b[i]
  <2>1. b \in Seq(Byte) /\ 46 + s \in Nat /\ 46 + s <= Len(b)
    BY <1>2 DEF Exact, At
  <2>. QED
    BY <2>1, PrefixOf
<1>. HIDE DEF p, ps
<1>6. Exact(XorBytes(p), C!Xor(ps), TRUE, s)
  BY <1>2, <1>3, XorExact
<1>7. Agree(XorBytes(p), C!Xor(ps), TRUE)
  <2>1. s <= MaxPayloadBytes
    BY <1>1, <1>2
  <2>. QED
    BY <1>2, <1>6, <2>1, ExactAgrees
<1>8. \A i \in 1..46 : Xor(XorBytes(p)[i], KeyAt(i)) = b[i]
  <2>. TAKE i \in 1..46
  <2>1. i \in 1..Len(p) /\ i \in 1..(46 + s) /\ i \in Nat /\ i > 0
    BY <1>2, <1>5
  <2>2. XorBytes(p)[i] = Xor(p[i], KeyAt(i)) /\ p[i] \in Byte
    BY <1>5, <2>1, XorBytesAre, ElementsOf
  <2>3. KeyAt(i) \in Byte
    BY <2>1, KeyBytes
  <2>4. Xor(Xor(p[i], KeyAt(i)), KeyAt(i)) = p[i]
    BY <2>2, <2>3, XorTwice
  <2>. QED
    BY <1>5, <2>1, <2>2, <2>4
<1>9. UnderKey(b, XorBytes(p))
  BY <1>8 DEF UnderKey
<1>. QED
  BY <1>1, <1>4, <1>7, <1>9 DEF p, s

\* A part of a packet, byte by byte.
LEMMA PartIs ==
  ASSUME NEW b \in Seq(Byte), NEW off \in Nat, NEW n \in Nat, off + n <= Len(b)
  PROVE  /\ SubSeq(b, off + 1, off + n) \in Seq(Byte) /\ Len(SubSeq(b, off + 1, off + n)) = n
         /\ \A i \in 1..n : SubSeq(b, off + 1, off + n)[i] = b[off + i]
<1>1. off + 1 \in Nat /\ off + n \in Nat /\ off + 1 >= 1 /\ off + n <= Len(b) /\ off + 1 <= (off + n) + 1
  OBVIOUS
<1>. DEFINE f == off + 1
            l == off + n
            s == SubSeq(b, f, l)
<1>2. f \in Nat /\ l \in Nat /\ f >= 1 /\ l <= Len(b) /\ f <= l + 1
  BY <1>1
<1>3. (l - f) + 1 = n /\ \A i \in 1..n : (f + i) - 1 = off + i
  OBVIOUS
<1>. HIDE DEF f, l
<1>4. s \in Seq(Byte) /\ Len(s) = l - f + 1 /\ \A i \in 1..(l - f + 1) : s[i] = b[f + i - 1]
  BY <1>2, PartOf
<1>. HIDE DEF s
<1>5. \A i \in 1..n : s[i] = b[off + i]
  <2>. TAKE i \in 1..n
  <2>0. i \in 1..(l - f + 1)
    BY <1>3
  <2>1. f + i - 1 = off + i
    BY DEF f
  <2>2. s[i] = b[f + i - 1]
    BY <1>4, <2>0
  <2>. QED
    BY <2>1, <2>2
<1>6. s \in Seq(Byte) /\ Len(s) = n
  BY <1>3, <1>4
<1>. QED
  BY <1>5, <1>6 DEF s, f, l

LEMMA SameParts ==
  ASSUME NEW s \in Seq(Byte), NEW t \in Seq(Byte), Len(s) = Len(t), \A i \in 1..Len(s) : s[i] = t[i]
  PROVE  s = t
OBVIOUS

\* The two addresses that are printed of a packet.
LEMMA ShownAddresses ==
  ASSUME NEW p, NEW gre \in BOOLEAN, p.gre = gre, p.bytes \in Seq(Byte), Len(p.bytes) >= At(gre) + 8
  PROVE  /\ ShownIp(p).ip_src \in Word \X Word /\ ShownIp(p).ip_dst \in Word \X Word
         /\ \A j \in 1..4 : /\ Bytes32(ShownIp(p).ip_src)[j] = p.bytes[At(gre) + j]
                            /\ Bytes32(ShownIp(p).ip_dst)[j] = p.bytes[(At(gre) + 4) + j]
<1>. DEFINE b == p.bytes
            off == IF gre THEN 6 ELSE 0
            s == SubSeq(b, off + 1, off + 20)
            src == Read32(s, 13)
            dst == Read32(s, 17)
<1>1. off \in Nat /\ off + 12 = At(gre) /\ IpOffset(p) = off
  BY DEF At, IpOffset, GreSize
<1>2. ShownIp(p).ip_src = src /\ ShownIp(p).ip_dst = dst
  BY <1>1 DEF ShownIp, PrintIpHeader, IpSize
<1>3. b \in Seq(Byte) /\ 20 \in Nat /\ off + 20 <= Len(b)
  BY <1>1
<1>. HIDE DEF b, off
<1>4. s \in Seq(Byte) /\ Len(s) = 20 /\ \A i \in 1..20 : s[i] = b[off + i]
  BY <1>1, <1>3, PartIs
<1>. HIDE DEF s
<1>5. \A i \in 1..20 : s[i] \in Byte
  BY <1>4, ElementsOf
<1>6. src \in Word \X Word /\ \A j \in 1..4 : Bytes32(src)[j] = s[12 + j]
  <2>1. 13 \in Nat /\ s[13] \in Byte /\ s[13 + 1] \in Byte /\ s[13 + 2] \in Byte /\ s[13 + 3] \in Byte
    BY <1>5
  <2>2. /\ src \in Word \X Word
        /\ Bytes32(src)[1] = s[13] /\ Bytes32(src)[2] = s[13 + 1]
        /\ Bytes32(src)[3] = s[13 + 2] /\ Bytes32(src)[4] = s[13 + 3]
    BY <2>1, Read32Is
  <2>. HIDE DEF src
  <2>3. ASSUME NEW j \in 1..4
        PROVE  Bytes32(src)[j] = s[12 + j]
    <3>1. j = 1 \/ j = 2 \/ j = 3 \/ j = 4
      OBVIOUS
    <3>. QED
      BY <2>2, <3>1
  <2>. QED
    BY <2>2, <2>3
<1>7. dst \in Word \X Word /\ \A j \in 1..4 : Bytes32(dst)[j] = s[16 + j]
  <2>1. 17 \in Nat /\ s[17] \in Byte /\ s[17 + 1] \in Byte /\ s[17 + 2] \in Byte /\ s[17 + 3] \in Byte
    BY <1>5
  <2>2. /\ dst \in Word \X Word
        /\ Bytes32(dst)[1] = s[17] /\ Bytes32(dst)[2] = s[17 + 1]
        /\ Bytes32(dst)[3] = s[17 + 2] /\ Bytes32(dst)[4] = s[17 + 3]
    BY <2>1, Read32Is
  <2>. HIDE DEF dst
  <2>3. ASSUME NEW j \in 1..4
        PROVE  Bytes32(dst)[j] = s[16 + j]
    <3>1. j = 1 \/ j = 2 \/ j = 3 \/ j = 4
      OBVIOUS
    <3>. QED
      BY <2>2, <3>1
  <2>. QED
    BY <2>2, <2>3
<1>. HIDE DEF src, dst
<1>8. \A j \in 1..4 : Bytes32(src)[j] = b[At(gre) + j] /\ Bytes32(dst)[j] = b[(At(gre) + 4) + j]
  <2>. TAKE j \in 1..4
  <2>1. /\ 12 + j \in 1..20 /\ 16 + j \in 1..20
        /\ off + (12 + j) = At(gre) + j /\ off + (16 + j) = (At(gre) + 4) + j
    BY <1>1
  <2>2. s[12 + j] = b[off + (12 + j)] /\ s[16 + j] = b[off + (16 + j)]
    BY <1>4, <2>1
  <2>. QED
    BY <1>6, <1>7, <2>1, <2>2
<1>. QED
  BY <1>2, <1>6, <1>7, <1>8 DEF b

\* The last byte of every host's address, 10.0.0.1 to 10.0.0.7, is the 10: the bytes
\* lie in memory in the host's order.
LEMMA LastByte ==
  ASSUME NEW h \in Hosts
  PROVE  Bytes32(AddressOf(h))[4] = 10
<1>1. PICK n \in 1..7 : AddressOf(h) = HostNumber(n)
  BY HostAddress
<1>2. HostNumber(n) = <<2560, n>>
  BY DEF HostNumber
<1>3. AddressOf(h) \in Word \X Word
  BY HostAddress
<1>4. Bytes32(AddressOf(h))[4] = AddressOf(h)[1] \div 256
  BY <1>3, Bytes32Are
<1>5. AddressOf(h)[1] = 2560
  BY <1>1, <1>2
<1>. QED
  BY <1>4, <1>5

\* A cell says that an address is a host's exactly when its bytes do.
LEMMA CellShown ==
  ASSUME NEW b, NEW at \in Nat, b[at + 4] \in Byte, NEW c, AddressReal(b, at, c),
         NEW a \in Word \X Word, \A j \in 1..4 : Bytes32(a)[j] = b[at + j],
         NEW h \in Hosts
  PROVE  a = AddressOf(h) <=> c = C!Clear(h)
<1>1. c \in [val : Hosts \cup {"zero"}, masked : BOOLEAN]
  BY DEF AddressReal
<1>2. c = [val |-> c.val, masked |-> c.masked] /\ c.masked \in BOOLEAN /\ c.val \in Hosts \cup {"zero"}
  BY <1>1
<1>3. c = C!Clear(h) <=> c.val = h /\ c.masked = FALSE
  <2>1. C!Clear(h) = [val |-> h, masked |-> FALSE]
    BY DEF C!Clear
  <2>. QED
    BY <1>2, <2>1
<1>4. ASSUME a = AddressOf(h)
      PROVE  c.val = h /\ c.masked = FALSE
  <2>1. b[at + 4] = 10
    <3>1. 4 \in 1..4
      OBVIOUS
    <3>2. Bytes32(a)[4] = b[at + 4]
      BY <3>1
    <3>. QED
      BY <1>4, <3>2, LastByte
  <2>2. CASE c.masked
    <3>1. Unmasked(b[at + 4], 22, c.masked) = 62
      <4>1. KeyAt(22) = 52
        BY AddressKey
      <4>. QED
        BY <2>1, <2>2, <4>1, Xors DEF Unmasked
    <3>2. CASE c.val = "zero"
      BY <3>1, <3>2 DEF AddressReal
    <3>3. CASE c.val # "zero"
      <4>1. c.val \in Hosts
        BY <1>2, <3>3
      <4>2. \A j \in 1..4 : Unmasked(b[at + j], 18 + j, c.masked) = Bytes32(AddressOf(c.val))[j]
        BY <3>3 DEF AddressReal
      <4>3. 4 \in 1..4 /\ 18 + 4 = 22
        OBVIOUS
      <4>4. Unmasked(b[at + 4], 22, c.masked) = Bytes32(AddressOf(c.val))[4]
        BY <4>2, <4>3
      <4>5. Bytes32(AddressOf(c.val))[4] = 10
        BY <4>1, LastByte
      <4>. QED
        BY <3>1, <4>4, <4>5
    <3>. QED
      BY <3>2, <3>3
  <2>3. CASE ~c.masked
    <3>1. \A x, i : Unmasked(x, i, c.masked) = x
      BY <2>3 DEF Unmasked
    <3>2. CASE c.val = "zero"
      BY <2>1, <3>1, <3>2 DEF AddressReal
    <3>3. CASE c.val # "zero"
      <4>1. c.val \in Hosts
        BY <1>2, <3>3
      <4>2. \A j \in 1..4 : Unmasked(b[at + j], 18 + j, c.masked) = Bytes32(AddressOf(c.val))[j]
        BY <3>3 DEF AddressReal
      <4>3. \A j \in 1..4 : Bytes32(a)[j] = Bytes32(AddressOf(c.val))[j]
        BY <3>1, <4>2
      <4>4. AddressOf(c.val) \in Word \X Word
        BY <4>1, HostAddress
      <4>. DEFINE d == AddressOf(c.val)
      <4>5. d \in Word \X Word /\ \A j \in 1..4 : Bytes32(a)[j] = Bytes32(d)[j]
        BY <4>3, <4>4
      <4>. HIDE DEF d
      <4>6. a = d
        BY <4>5, SameBytes32
      <4>7. AddressOf(c.val) = AddressOf(h)
        BY <1>4, <4>6 DEF d
      <4>8. c.val = h
        BY <4>1, <4>7, HostOfAddress
      <4>. QED
        BY <1>2, <2>3, <4>8
    <3>. QED
      BY <3>2, <3>3
  <2>. QED
    BY <2>2, <2>3
<1>5. ASSUME c.val = h, c.masked = FALSE
      PROVE  a = AddressOf(h)
  <2>1. c.val # "zero"
    BY <1>5, ZeroIsNoHost
  <2>2. \A j \in 1..4 : Unmasked(b[at + j], 18 + j, c.masked) = Bytes32(AddressOf(c.val))[j]
    BY <2>1 DEF AddressReal
  <2>3. \A x, i : Unmasked(x, i, c.masked) = x
    BY <1>5 DEF Unmasked
  <2>4. \A j \in 1..4 : Bytes32(a)[j] = Bytes32(AddressOf(h))[j]
    BY <1>5, <2>2, <2>3
  <2>5. AddressOf(h) \in Word \X Word
    BY HostAddress
  <2>. DEFINE d == AddressOf(h)
  <2>6. d \in Word \X Word /\ \A j \in 1..4 : Bytes32(a)[j] = Bytes32(d)[j]
    BY <2>4, <2>5
  <2>. HIDE DEF d
  <2>7. a = d
    BY <2>6, SameBytes32
  <2>. QED
    BY <2>7 DEF d
<1>. QED
  BY <1>3, <1>4, <1>5

\* A packet as it is printed, whose headers are whole.
Shown(p) ==
  /\ p.gre \in BOOLEAN /\ p.bytes \in Seq(Byte) /\ Len(p.bytes) >= IpOffset(p) + 40

\* Two packets have the same bytes from the m-th behind the GRE header to the n-th.
SameBytes(p, q, m, n) ==
  \A i \in m..n : p.bytes[IpOffset(p) + i] = q.bytes[IpOffset(q) + i]

LEMMA OffsetIs ==
  ASSUME NEW p, p.gre \in BOOLEAN
  PROVE  IpOffset(p) \in Nat /\ IpOffset(p) = IF p.gre THEN 6 ELSE 0
BY DEF IpOffset, GreSize

LEMMA SameTcp ==
  ASSUME NEW p, NEW q, Shown(p), Shown(q), SameBytes(p, q, 21, 40)
  PROVE  ShownTcp(p) = ShownTcp(q)
<1>. DEFINE f == IpOffset(p) + 20
            g == IpOffset(q) + 20
            s == SubSeq(p.bytes, f + 1, f + 20)
            t == SubSeq(q.bytes, g + 1, g + 20)
<1>1. IpOffset(p) \in Nat /\ IpOffset(q) \in Nat
  BY OffsetIs DEF Shown
<1>2. p.bytes \in Seq(Byte) /\ q.bytes \in Seq(Byte)
  BY DEF Shown
<1>3. f \in Nat /\ g \in Nat /\ 20 \in Nat /\ f + 20 <= Len(p.bytes) /\ g + 20 <= Len(q.bytes)
  BY <1>1 DEF Shown
<1>4. ASSUME NEW i \in 1..20
      PROVE  p.bytes[f + i] = q.bytes[g + i]
  <2>1. 20 + i \in 21..40 /\ IpOffset(p) + (20 + i) = f + i /\ IpOffset(q) + (20 + i) = g + i
    BY <1>1
  <2>2. p.bytes[IpOffset(p) + (20 + i)] = q.bytes[IpOffset(q) + (20 + i)]
    BY <2>1 DEF SameBytes
  <2>. QED
    BY <2>1, <2>2
<1>5. ShownTcp(p) = PrintTcpHeader(s) /\ ShownTcp(q) = PrintTcpHeader(t)
  BY DEF ShownTcp, IpSize, TcpSize
<1>. HIDE DEF f, g
<1>6. s \in Seq(Byte) /\ Len(s) = 20 /\ \A i \in 1..20 : s[i] = p.bytes[f + i]
  BY <1>2, <1>3, PartIs
<1>7. t \in Seq(Byte) /\ Len(t) = 20 /\ \A i \in 1..20 : t[i] = q.bytes[g + i]
  BY <1>2, <1>3, PartIs
<1>. HIDE DEF s, t
<1>8. Len(s) = Len(t) /\ \A i \in 1..Len(s) : s[i] = t[i]
  <2>1. Len(s) = 20 /\ Len(t) = 20
    BY <1>6, <1>7
  <2>2. ASSUME NEW i \in 1..20
        PROVE  s[i] = t[i]
    <3>1. s[i] = p.bytes[f + i] /\ t[i] = q.bytes[g + i] /\ p.bytes[f + i] = q.bytes[g + i]
      BY <1>4, <1>6, <1>7
    <3>. QED
      BY <3>1
  <2>. QED
    BY <2>1, <2>2
<1>9. s = t
  <2>1. s \in Seq(Byte) /\ t \in Seq(Byte)
    BY <1>6, <1>7
  <2>. QED
    BY <1>8, <2>1, SameParts
<1>. QED
  BY <1>5, <1>9

\* The header of a packet, byte by byte.
LEMMA ShownIpIs ==
  ASSUME NEW p, Shown(p)
  PROVE  LET s == SubSeq(p.bytes, IpOffset(p) + 1, IpOffset(p) + 20)
         IN  ShownIp(p) = PrintIpHeader(s) /\ \A i \in 1..20 : s[i] = p.bytes[IpOffset(p) + i]
<1>. DEFINE f == IpOffset(p)
            s == SubSeq(p.bytes, f + 1, f + 20)
<1>1. f \in Nat /\ f + 20 <= Len(p.bytes) /\ p.bytes \in Seq(Byte) /\ 20 \in Nat
  BY OffsetIs DEF Shown
<1>2. ShownIp(p) = PrintIpHeader(s)
  BY DEF ShownIp, IpSize
<1>. HIDE DEF f
<1>3. \A i \in 1..20 : s[i] = p.bytes[f + i]
  BY <1>1, PartIs
<1>. QED
  BY <1>2, <1>3 DEF f

LEMMA SameIp ==
  ASSUME NEW p, NEW q, Shown(p), Shown(q), SameBytes(p, q, 1, 10)
  PROVE  \A f \in DOMAIN ShownIp(p) \ {"ip_sum", "ip_src", "ip_dst"} : ShownIp(p)[f] = ShownIp(q)[f]
<1>. DEFINE s == SubSeq(p.bytes, IpOffset(p) + 1, IpOffset(p) + 20)
            t == SubSeq(q.bytes, IpOffset(q) + 1, IpOffset(q) + 20)
<1>1. ShownIp(p) = PrintIpHeader(s) /\ \A i \in 1..20 : s[i] = p.bytes[IpOffset(p) + i]
  BY ShownIpIs
<1>2. ShownIp(q) = PrintIpHeader(t) /\ \A i \in 1..20 : t[i] = q.bytes[IpOffset(q) + i]
  BY ShownIpIs
<1>. HIDE DEF s, t
<1>3. \A i \in 1..10 : s[i] = t[i]
  <2>. TAKE i \in 1..10
  <2>1. i \in 1..20
    OBVIOUS
  <2>2. p.bytes[IpOffset(p) + i] = q.bytes[IpOffset(q) + i]
    BY DEF SameBytes
  <2>. QED
    BY <1>1, <1>2, <2>1, <2>2
<1>4. /\ s[2] = t[2] /\ s[3] = t[3] /\ s[4] = t[4] /\ s[5] = t[5] /\ s[6] = t[6]
      /\ s[7] = t[7] /\ s[8] = t[8] /\ s[9] = t[9] /\ s[10] = t[10]
  BY <1>3
<1>. SUFFICES ASSUME NEW f \in DOMAIN PrintIpHeader(s) \ {"ip_sum", "ip_src", "ip_dst"}
              PROVE  PrintIpHeader(s)[f] = PrintIpHeader(t)[f]
  BY <1>1, <1>2
<1>5. f \in {"ip_tos", "ip_len", "ip_id", "ip_off", "ip_ttl", "ip_p"}
  BY DEF PrintIpHeader
<1>6. Read16(s, 3) = Read16(t, 3) /\ Read16(s, 5) = Read16(t, 5) /\ Read16(s, 7) = Read16(t, 7)
  BY <1>4 DEF Read16
<1>7. CASE f = "ip_tos"
  BY <1>4, <1>7 DEF PrintIpHeader
<1>8. CASE f = "ip_len"
  BY <1>6, <1>8 DEF PrintIpHeader
<1>9. CASE f = "ip_id"
  BY <1>6, <1>9 DEF PrintIpHeader
<1>10. CASE f = "ip_off"
  BY <1>6, <1>10 DEF PrintIpHeader
<1>11. CASE f = "ip_ttl"
  BY <1>4, <1>11 DEF PrintIpHeader
<1>12. CASE f = "ip_p"
  BY <1>4, <1>12 DEF PrintIpHeader
<1>. QED
  BY <1>5, <1>7, <1>8, <1>9, <1>10, <1>11, <1>12

LEMMA SameSource ==
  ASSUME NEW p, NEW q, Shown(p), Shown(q), SameBytes(p, q, 13, 16)
  PROVE  ShownIp(p).ip_src = ShownIp(q).ip_src
<1>. DEFINE s == SubSeq(p.bytes, IpOffset(p) + 1, IpOffset(p) + 20)
            t == SubSeq(q.bytes, IpOffset(q) + 1, IpOffset(q) + 20)
<1>1. ShownIp(p) = PrintIpHeader(s) /\ \A i \in 1..20 : s[i] = p.bytes[IpOffset(p) + i]
  BY ShownIpIs
<1>2. ShownIp(q) = PrintIpHeader(t) /\ \A i \in 1..20 : t[i] = q.bytes[IpOffset(q) + i]
  BY ShownIpIs
<1>. HIDE DEF s, t
<1>3. \A i \in 13..16 : s[i] = t[i]
  <2>. TAKE i \in 13..16
  <2>1. i \in 1..20
    OBVIOUS
  <2>2. p.bytes[IpOffset(p) + i] = q.bytes[IpOffset(q) + i]
    BY DEF SameBytes
  <2>. QED
    BY <1>1, <1>2, <2>1, <2>2
<1>4. s[13] = t[13] /\ s[14] = t[14] /\ s[15] = t[15] /\ s[16] = t[16]
  BY <1>3
<1>5. Read32(s, 13) = Read32(t, 13)
  BY <1>4 DEF Read32, Read16
<1>. QED
  BY <1>1, <1>2, <1>5 DEF PrintIpHeader

LEMMA SameDestination ==
  ASSUME NEW p, NEW q, Shown(p), Shown(q), SameBytes(p, q, 17, 20)
  PROVE  ShownIp(p).ip_dst = ShownIp(q).ip_dst
<1>. DEFINE s == SubSeq(p.bytes, IpOffset(p) + 1, IpOffset(p) + 20)
            t == SubSeq(q.bytes, IpOffset(q) + 1, IpOffset(q) + 20)
<1>1. ShownIp(p) = PrintIpHeader(s) /\ \A i \in 1..20 : s[i] = p.bytes[IpOffset(p) + i]
  BY ShownIpIs
<1>2. ShownIp(q) = PrintIpHeader(t) /\ \A i \in 1..20 : t[i] = q.bytes[IpOffset(q) + i]
  BY ShownIpIs
<1>. HIDE DEF s, t
<1>3. \A i \in 17..20 : s[i] = t[i]
  <2>. TAKE i \in 17..20
  <2>1. i \in 1..20
    OBVIOUS
  <2>2. p.bytes[IpOffset(p) + i] = q.bytes[IpOffset(q) + i]
    BY DEF SameBytes
  <2>. QED
    BY <1>1, <1>2, <2>1, <2>2
<1>4. s[17] = t[17] /\ s[18] = t[18] /\ s[19] = t[19] /\ s[20] = t[20]
  BY <1>3
<1>5. Read32(s, 17) = Read32(t, 17)
  BY <1>4 DEF Read32, Read16
<1>. QED
  BY <1>1, <1>2, <1>5 DEF PrintIpHeader

\* All three headers are the same.
SameFront(a, b) == \A i \in 1..46 : a[i] = b[i]

LEMMA SameStart ==
  ASSUME NEW a \in Seq(Byte), NEW b \in Seq(Byte), Len(a) >= 46, Len(b) >= 46, SameFront(a, b)
  PROVE  /\ PrintGreHeader(a) = PrintGreHeader(b)
         /\ SubSeq(a, 6 + 1, 6 + 20) = SubSeq(b, 6 + 1, 6 + 20)
<1>1. /\ a[1] = b[1] /\ a[1 + 1] = b[1 + 1] /\ a[3] = b[3] /\ a[3 + 1] = b[3 + 1]
      /\ a[5] = b[5] /\ a[5 + 1] = b[5 + 1]
  BY DEF SameFront
<1>2. Read16(a, 1) = Read16(b, 1) /\ Read16(a, 3) = Read16(b, 3) /\ Read16(a, 5) = Read16(b, 5)
  BY <1>1 DEF Read16
<1>. DEFINE o == 6
            n == 20
            s == SubSeq(a, o + 1, o + n)
            t == SubSeq(b, o + 1, o + n)
<1>3. o \in Nat /\ n \in Nat /\ o + n <= Len(a) /\ o + n <= Len(b) /\ \A i \in 1..n : a[o + i] = b[o + i]
  <2>1. o \in Nat /\ n \in Nat
    OBVIOUS
  <2>2. o + n <= Len(a) /\ o + n <= Len(b)
    <3>1. Len(a) \in Nat /\ Len(b) \in Nat
      OBVIOUS
    <3>. QED
      BY <3>1
  <2>3. \A i \in 1..n : a[o + i] = b[o + i]
    <3>. TAKE i \in 1..n
    <3>1. o + i \in 1..46
      OBVIOUS
    <3>. QED
      BY <3>1 DEF SameFront
  <2>. QED
    BY <2>1, <2>2, <2>3
<1>. HIDE DEF o, n
<1>4. s \in Seq(Byte) /\ Len(s) = n /\ \A i \in 1..n : s[i] = a[o + i]
  BY <1>3, PartIs
<1>5. t \in Seq(Byte) /\ Len(t) = n /\ \A i \in 1..n : t[i] = b[o + i]
  BY <1>3, PartIs
<1>. HIDE DEF s, t
<1>6. Len(s) = Len(t) /\ \A i \in 1..Len(s) : s[i] = t[i]
  BY <1>3, <1>4, <1>5
<1>7. s = t
  BY <1>4, <1>5, <1>6, SameParts
<1>8. PrintGreHeader(a) = PrintGreHeader(b)
  BY <1>2 DEF PrintGreHeader
<1>. QED
  BY <1>7, <1>8 DEF s, t, o, n

\* Two packets with the same headers.
LEMMA SameHeaders ==
  ASSUME NEW p, NEW q, IpOffset(p) = 6, IpOffset(q) = 6, Shown(p), Shown(q),
         SameFront(p.bytes, q.bytes)
  PROVE  ShownGre(p) = ShownGre(q) /\ ShownIp(p) = ShownIp(q) /\ ShownTcp(p) = ShownTcp(q)
<1>. DEFINE a == p.bytes
            b == q.bytes
<1>1. a \in Seq(Byte) /\ b \in Seq(Byte)
  BY DEF Shown
<1>2. Len(a) >= 46 /\ Len(b) >= 46
  BY DEF Shown
<1>3. SameFront(a, b)
  OBVIOUS
<1>4. SameBytes(p, q, 21, 40)
  <2>. SUFFICES ASSUME NEW i \in 21..40
                PROVE  p.bytes[6 + i] = q.bytes[6 + i]
    BY DEF SameBytes
  <2>1. 6 + i \in 1..46
    OBVIOUS
  <2>. QED
    BY <2>1 DEF SameFront
<1>5. ShownTcp(p) = ShownTcp(q)
  BY <1>4, SameTcp
<1>. HIDE DEF a, b
<1>6. /\ PrintGreHeader(a) = PrintGreHeader(b)
      /\ SubSeq(a, 6 + 1, 6 + 20) = SubSeq(b, 6 + 1, 6 + 20)
  BY <1>1, <1>2, <1>3, SameStart
<1>7. /\ ShownGre(p) = PrintGreHeader(a) /\ ShownGre(q) = PrintGreHeader(b)
      /\ ShownIp(p) = PrintIpHeader(SubSeq(a, 6 + 1, 6 + 20)) /\ ShownIp(q) = PrintIpHeader(SubSeq(b, 6 + 1, 6 + 20))
  BY DEF ShownGre, ShownIp, IpSize, a, b
<1>. QED
  BY <1>5, <1>6, <1>7

Prints == [gre : BOOLEAN, bytes : Seq(Byte), cells : Seq(C!Cell)]

\* The two packets that are printed without a GRE header.
HasGre(n) == n \notin {3, 4}

\* How many packets have been printed, and how many receipts noted, on each leg.
Counts ==
  \/ leg \in {"typing", "send"} /\ Len(prints) = 0 /\ Len(whole) = 0
  \/ leg = "server" /\ Len(prints) = 1 /\ Len(whole) = 0
  \/ leg \in {"destination", "other server"} /\ Len(prints) = 2 /\ Len(whole) = 1
  \/ leg = "server again" /\ Len(prints) = 4 /\ Len(whole) = 2
  \/ leg = "client" /\ Len(prints) = 5 /\ Len(whole) = 3
  \/ leg = "not encrypted" /\ Len(prints) = 3 /\ Len(whole) = 1
  \/ leg = "over" /\ \/ Len(prints) = 0 /\ Len(whole) = 0
                     \/ Len(prints) = 2 /\ Len(whole) = 1
                     \/ Len(prints) = 6 /\ Len(whole) = 4

FullPrint(p, gre) == p.gre = gre /\ Full(p.bytes, p.cells, gre)

\* What a server prints of a packet that was not encrypted holds no host's address.
Mistaken(p) ==
  /\ p.gre = TRUE /\ Len(p.bytes) = PacketSize
  /\ p.bytes[22] # 10 /\ p.bytes[26] # 10
  /\ \A h \in Hosts : p.cells[2] # C!Clear(h) /\ p.cells[3] # C!Clear(h)

PrintsAgree ==
  /\ leg # "not encrypted" => \A n \in 1..Len(prints) : FullPrint(prints[n], HasGre(n))
  /\ leg = "not encrypted" =>
       FullPrint(prints[1], TRUE) /\ FullPrint(prints[2], TRUE) /\ Mistaken(prints[3])

\* What is in flight on each leg, and how it relates to what was printed before.
OnTheWire ==
  /\ leg = "server" =>
       Agree(wire, cells, TRUE) /\ cells[3] = C!Masked(dest) /\ wire[28] = 190 /\ wire[32] = 120
  /\ leg \in {"destination", "other server"} =>
       /\ Full(wire, cells, FALSE) /\ Shifted(prints[2].bytes, wire)
       /\ wire[22] \in {120, 198} /\ wire[26] \in {0, 120}
       /\ \A h \in Hosts : cells[2] # C!Masked(h)
  /\ leg = "server again" =>
       Agree(wire, cells, FALSE) /\ SameBare(prints[4].bytes, wire)
  /\ leg = "client" =>
       Agree(wire, cells, TRUE) /\ UnderKey(prints[5].bytes, wire)

Names ==
  /\ dest \in Hosts
  /\ leg = "typing" => line \in Seq(Typable) /\ dest = Client

\* The two parts of OnlyWholeNames.
NameRead == dest # Client /\ line # NoLine => line = NameOf[dest]
NameArrived ==
  whole # <<>> /\ whole[1] => ParseIpAddrToStr(IpIn(prints[2].bytes).dst) = HostIp(NameOf[dest])

\* The three parts of FieldsSurvive.
SameFields(p, q) ==
  /\ ShownTcp(p) = ShownTcp(q)
  /\ \A f \in DOMAIN ShownIp(p) \ {"ip_sum", "ip_src", "ip_dst"} : ShownIp(p)[f] = ShownIp(q)[f]
Request ==
  Len(prints) >= 3 /\ whole[2] =>
    SameFields(prints[2], prints[3]) /\ ShownIp(prints[2]).ip_dst = ShownIp(prints[3]).ip_dst
Reply ==
  Len(prints) >= 5 /\ whole[3] =>
    SameFields(prints[4], prints[5]) /\ ShownIp(prints[4]).ip_src = ShownIp(prints[5]).ip_src
Final ==
  Len(prints) >= 6 /\ whole[4] =>
    /\ ShownGre(prints[5]) = ShownGre(prints[6]) /\ ShownIp(prints[5]) = ShownIp(prints[6])
    /\ ShownTcp(prints[5]) = ShownTcp(prints[6])
Fields == leg # "not encrypted" => Request /\ Reply /\ Final

WireInv ==
  /\ prints \in Seq(Prints) /\ whole \in Seq(BOOLEAN)
  /\ Counts /\ PrintsAgree /\ OnTheWire /\ Names /\ NameRead /\ NameArrived /\ Fields

LEMMA WholeNames == OnlyWholeNames <=> NameRead /\ NameArrived
BY DEF OnlyWholeNames, NameRead, NameArrived

LEMMA SameAsFields == FieldsSurvive <=> Fields
BY DEF FieldsSurvive, Fields, Request, Reply, Final, SameFields

LEMMA Appended ==
  ASSUME NEW X, NEW s \in Seq(X), NEW x \in X
  PROVE  /\ Append(s, x) \in Seq(X) /\ Len(Append(s, x)) = Len(s) + 1
         /\ \A i \in 1..Len(s) : Append(s, x)[i] = s[i]
         /\ Append(s, x)[Len(s) + 1] = x
OBVIOUS

LEMMA GreOf ==
  /\ HasGre(1) = TRUE /\ HasGre(2) = TRUE /\ HasGre(3) = FALSE /\ HasGre(4) = FALSE
  /\ HasGre(5) = TRUE /\ HasGre(6) = TRUE
BY DEF HasGre

LEMMA FullPrinted ==
  ASSUME NEW gre \in BOOLEAN, NEW b, NEW cs, Exact(b, cs, gre, MaxPayloadBytes)
  PROVE  Printed(gre, b, cs) \in Prints /\ FullPrint(Printed(gre, b, cs), gre)
<1>1. Full(b, cs, gre)
  BY FullIsExact
<1>2. b \in Seq(Byte) /\ cs \in Seq(C!Cell)
  BY DEF Exact
<1>3. Printed(gre, b, cs) = [gre |-> gre, bytes |-> b, cells |-> cs]
  BY DEF Printed
<1>4. [gre |-> gre, bytes |-> b, cells |-> cs] \in Prints
  BY <1>2 DEF Prints
<1>. QED
  BY <1>1, <1>3, <1>4 DEF FullPrint

\* What is true of a packet that was printed.
LEMMA PrintedIs ==
  ASSUME NEW p \in Prints, NEW gre \in BOOLEAN, FullPrint(p, gre)
  PROVE  /\ Exact(p.bytes, p.cells, gre, MaxPayloadBytes) /\ p.gre = gre
         /\ p.bytes \in Seq(Byte) /\ Len(p.bytes) = (At(gre) + 28) + MaxPayloadBytes
         /\ Shown(p) /\ IpOffset(p) = At(gre) - 12
<1>1. Exact(p.bytes, p.cells, gre, MaxPayloadBytes) /\ p.gre = gre
  BY FullIsExact DEF FullPrint
<1>2. p.bytes \in Seq(Byte) /\ Len(p.bytes) = (At(gre) + 28) + MaxPayloadBytes
  BY <1>1 DEF Exact
<1>3. MaxPayloadBytes \in Nat /\ At(gre) \in Nat
  BY SizesAre, AtIs
<1>4. IpOffset(p) = At(gre) - 12
  BY <1>1 DEF IpOffset, GreSize, At
<1>5. Shown(p)
  <2>1. Len(p.bytes) >= (At(gre) - 12) + 40
    BY <1>2, <1>3
  <2>. QED
    BY <1>1, <1>2, <1>4, <2>1 DEF Shown
<1>. QED
  BY <1>1, <1>2, <1>4, <1>5

\* A name that is in the table is a host's.
LEMMA LookedUp ==
  ASSUME NEW name, GetHostIp(name) # NULL
  PROVE  LET h == CHOOSE h \in Hosts : HostIp(NameOf[h]) = GetHostIp(name)
         IN  h \in Hosts /\ NameOf[h] = name
<1>. DEFINE Is(h) == HostIp(NameOf[h]) = GetHostIp(name)
            g == CHOOSE h \in Hosts : Is(h)
<1>1. name \in HostNames /\ GetHostIp(name) = HostIp(name)
  BY DEF GetHostIp
<1>2. PICK h \in Hosts : NameOf[h] = name
  BY <1>1, WireAssumption
<1>3. Is(h)
  BY <1>1, <1>2
<1>4. g \in Hosts /\ Is(g)
  <2>. HIDE DEF Is
  <2>. QED
    BY <1>3
<1>. HIDE DEF g
<1>5. HostIp(NameOf[g]) = HostIp(NameOf[h])
  BY <1>3, <1>4
<1>6. AddressOf(g) = AddressOf(h)
  BY <1>5 DEF AddressOf
<1>7. g = h
  BY <1>4, <1>6, HostOfAddress
<1>. QED
  BY <1>2, <1>7 DEF g

\* A host's name is shorter than what the buffer holds of a longer line.
LEMMA WholeLine ==
  ASSUME NEW X, NEW s \in Seq(X), ReadName(s, MaxNameLength) \in HostNames
  PROVE  ReadName(s, MaxNameLength) = s
<1>. DEFINE n == MaxNameLength
            l == IF Len(s) < n THEN Len(s) ELSE n - 1
<1>1. n \in Nat /\ n > 3 /\ Len(s) \in Nat
  BY WireAssumption
<1>2. ReadName(s, n) = SubSeq(s, 1, l)
  BY DEF ReadName
<1>3. Len(ReadName(s, n)) = 2
  BY DEF HostNames
<1>. HIDE DEF n
<1>4. l \in Nat /\ l <= Len(s)
  BY <1>1
<1>5. Len(SubSeq(s, 1, l)) = l
  BY <1>4, PrefixOf
<1>6. l = 2 /\ Len(s) < n
  BY <1>1, <1>2, <1>3, <1>5
<1>7. l = Len(s)
  BY <1>6
<1>8. SubSeq(s, 1, Len(s)) = s
  OBVIOUS
<1>. QED
  BY <1>2, <1>7, <1>8 DEF n

LEMMA WireInitially ==
  ASSUME WireInit
  PROVE  WireInv
<1>1. /\ leg = "typing" /\ line = <<>> /\ dest = Client /\ prints = <<>> /\ whole = <<>>
  BY DEF WireInit
<1>2. Client \in Hosts
  BY WireAssumption
<1>3. prints \in Seq(Prints) /\ whole \in Seq(BOOLEAN) /\ Len(prints) = 0 /\ Len(whole) = 0 /\ line \in Seq(Typable)
  BY <1>1
<1>4. Counts
  BY <1>1, <1>3 DEF Counts
<1>5. PrintsAgree
  BY <1>1, <1>3 DEF PrintsAgree
<1>6. OnTheWire
  BY <1>1 DEF OnTheWire
<1>7. Names
  BY <1>1, <1>2, <1>3 DEF Names
<1>8. NameRead /\ NameArrived
  BY <1>1 DEF NameRead, NameArrived
<1>9. Fields
  <2>1. ~(Len(prints) >= 3) /\ ~(Len(prints) >= 5) /\ ~(Len(prints) >= 6)
    BY <1>3
  <2>. QED
    BY <2>1 DEF Fields, Request, Reply, Final
<1>. QED
  BY <1>3, <1>4, <1>5, <1>6, <1>7, <1>8, <1>9 DEF WireInv

LEMMA Typed ==
  ASSUME WireInv, NEW char \in Typable, Type(char)
  PROVE  WireInv'
<1>1. leg = "typing" /\ line \in Seq(Typable) /\ dest = Client /\ dest \in Hosts
  BY DEF WireInv, Type, Names
<1>2. line' = Append(line, char) /\ UNCHANGED <<leg, dest, wire, cells, prints, whole>>
  BY DEF Type, packetVars
<1>3. line' \in Seq(Typable)
  BY <1>1, <1>2
<1>4. prints' \in Seq(Prints) /\ whole' \in Seq(BOOLEAN)
  BY <1>2 DEF WireInv
<1>5. Counts'
  BY <1>2 DEF WireInv, Counts
<1>6. PrintsAgree'
  BY <1>2 DEF WireInv, PrintsAgree
<1>7. OnTheWire'
  BY <1>1, <1>2 DEF OnTheWire
<1>8. Names'
  BY <1>1, <1>2, <1>3 DEF Names
<1>9. NameRead'
  BY <1>1, <1>2 DEF NameRead
<1>10. NameArrived'
  BY <1>2 DEF WireInv, NameArrived
<1>11. Fields'
  BY <1>2 DEF WireInv, Fields, Request, Reply, Final
<1>. QED
  BY <1>4, <1>5, <1>6, <1>7, <1>8, <1>9, <1>10, <1>11 DEF WireInv

\* A name that is looked up, and where it came from.
LEMMA Chosen ==
  ASSUME WireInv, leg = "typing", NEW name, LookUp(name),
         name \in HostNames => line' = NoLine \/ line' = name
  PROVE  WireInv'
<1>. DEFINE ip == GetHostIp(name)
            refused == ip \in {NULL, HostIp(NameOf[Client]), HostIp(NameOf[Server])}
            g == CHOOSE h \in Hosts : HostIp(NameOf[h]) = GetHostIp(name)
<1>1. /\ leg' = (IF refused THEN "over" ELSE "send") /\ dest' = (IF refused THEN dest ELSE g)
      /\ UNCHANGED <<wire, cells, prints, whole>>
  BY DEF LookUp, packetVars
<1>2. dest = Client /\ dest \in Hosts
  BY DEF WireInv, Names
<1>3. ~refused => g \in Hosts /\ NameOf[g] = name /\ name \in HostNames
  <2>. SUFFICES ASSUME ~refused PROVE g \in Hosts /\ NameOf[g] = name /\ name \in HostNames
    OBVIOUS
  <2>1. GetHostIp(name) # NULL
    OBVIOUS
  <2>2. name \in HostNames
    BY <2>1 DEF GetHostIp
  <2>3. g \in Hosts /\ NameOf[g] = name
    BY <2>1, LookedUp
  <2>. QED
    BY <2>2, <2>3
<1>. HIDE DEF g, refused
<1>4. Len(prints) = 0 /\ Len(whole) = 0
  BY DEF WireInv, Counts
<1>5. leg' \in {"over", "send"} /\ dest' \in Hosts
  BY <1>1, <1>2, <1>3
<1>6. prints' \in Seq(Prints) /\ whole' \in Seq(BOOLEAN) /\ Len(prints') = 0 /\ Len(whole') = 0
  BY <1>1, <1>4 DEF WireInv
<1>7. Counts'
  BY <1>5, <1>6 DEF Counts
<1>8. PrintsAgree'
  <2>1. leg' # "not encrypted"
    BY <1>5
  <2>2. ASSUME NEW n \in 1..Len(prints')
        PROVE  FALSE
    BY <1>6
  <2>. QED
    BY <2>1, <2>2 DEF PrintsAgree
<1>9. OnTheWire'
  BY <1>5 DEF OnTheWire
<1>10. Names'
  BY <1>5 DEF Names
<1>11. NameRead'
  <2>1. CASE refused
    BY <1>1, <1>2, <2>1 DEF NameRead
  <2>2. CASE ~refused
    <3>1. dest' = g /\ NameOf[g] = name /\ (line' = NoLine \/ line' = name)
      BY <1>1, <1>3, <2>2
    <3>. QED
      BY <3>1 DEF NameRead
  <2>. QED
    BY <2>1, <2>2
<1>12. NameArrived'
  <2>1. whole' = <<>>
    BY <1>6
  <2>. QED
    BY <2>1 DEF NameArrived
<1>13. Fields'
  <2>1. ~(Len(prints') >= 3) /\ ~(Len(prints') >= 5) /\ ~(Len(prints') >= 6)
    BY <1>6
  <2>. QED
    BY <2>1 DEF Fields, Request, Reply, Final
<1>. QED
  BY <1>6, <1>7, <1>8, <1>9, <1>10, <1>11, <1>12, <1>13 DEF WireInv

LEMMA Entered ==
  ASSUME WireInv, Enter
  PROVE  WireInv'
<1>. DEFINE name == ReadName(line, MaxNameLength)
<1>1. leg = "typing" /\ LookUp(name) /\ line' = line /\ line \in Seq(Typable)
  BY DEF Enter, WireInv, Names
<1>2. name \in HostNames => line' = name
  BY <1>1, WholeLine
<1>. HIDE DEF name
<1>. QED
  BY <1>1, <1>2, Chosen

LEMMA InputEnded ==
  ASSUME WireInv, EndOfInput
  PROVE  WireInv'
<1>1. PICK left \in {NULL, <<"h", "3">>} : LookUp(left)
  BY DEF EndOfInput
<1>2. leg = "typing" /\ line' = NoLine
  BY DEF EndOfInput
<1>. QED
  BY <1>1, <1>2, Chosen

\* The client's request.
LEMMA Sent ==
  ASSUME WireInv, ClientSends
  PROVE  WireInv'
<1>. DEFINE b == EncryptedBytes(AddressOf(Client), AddressOf(dest), SynFlag, BytesOf(RequestText))
            cs == C!CreatePackets(C!Clear(Client), C!Clear(dest), C!Clear("syn"), CellsOf(RequestText))
            p == Printed(TRUE, b, cs)
            n == Len(RequestText)
<1>1. /\ leg = "send" /\ leg' = "server" /\ wire' = SubSeq(b, 1, HeaderSize + n)
      /\ cells' = C!RequestBytes(cs, RequestText) /\ prints' = <<p>> /\ UNCHANGED <<line, dest, whole>>
  BY DEF ClientSends
<1>2. dest \in Hosts /\ Client \in Hosts
  BY WireAssumption DEF WireInv, Names
<1>3. /\ Exact(b, cs, TRUE, MaxPayloadBytes) /\ Exact(wire', cells', TRUE, n) /\ cells'[3] = C!Masked(dest)
      /\ wire'[28] = 190 /\ wire'[32] = 120
  <2>1. Exact(b, cs, TRUE, MaxPayloadBytes)
    BY <1>2, RequestExact
  <2>2. Exact(SubSeq(b, 1, HeaderSize + n), C!RequestBytes(cs, RequestText), TRUE, n)
    BY <1>2, RequestExact
  <2>3. InFlight(SubSeq(b, 1, HeaderSize + n), C!RequestBytes(cs, RequestText), dest)
    BY <1>2, RequestExact
  <2>4. wire' = SubSeq(b, 1, HeaderSize + n) /\ cells' = C!RequestBytes(cs, RequestText)
    BY <1>1
  <2>. HIDE DEF b, cs, n
  <2>5. Exact(wire', cells', TRUE, n) /\ InFlight(wire', cells', dest)
    BY <2>2, <2>3, <2>4
  <2>. QED
    BY <2>1, <2>5 DEF InFlight
<1>. HIDE DEF b, cs
<1>4. p \in Prints /\ FullPrint(p, TRUE)
  BY <1>3, FullPrinted
<1>5. Agree(wire', cells', TRUE)
  <2>1. RequestText \in {RequestText, ReplyText}
    OBVIOUS
  <2>2. n \in Nat /\ n < MaxPayloadBytes /\ MaxPayloadBytes \in Nat
    BY <2>1, TextsAre, SizesAre
  <2>3. n <= MaxPayloadBytes
    BY <2>2
  <2>. HIDE DEF n
  <2>. QED
    BY <1>3, <2>2, <2>3, ExactAgrees
<1>. HIDE DEF p
<1>6. Len(whole) = 0 /\ whole \in Seq(BOOLEAN)
  BY <1>1 DEF WireInv, Counts
<1>7. prints' \in Seq(Prints) /\ whole' \in Seq(BOOLEAN) /\ Len(prints') = 1 /\ Len(whole') = 0 /\ prints'[1] = p
  BY <1>1, <1>4, <1>6
<1>8. Counts'
  BY <1>1, <1>7 DEF Counts
<1>9. PrintsAgree'
  <2>1. \A i \in 1..Len(prints') : FullPrint(prints'[i], HasGre(i))
    <3>. TAKE i \in 1..Len(prints')
    <3>1. i = 1
      BY <1>7
    <3>. QED
      BY <1>4, <1>7, <3>1, GreOf
  <2>. QED
    BY <1>1, <2>1 DEF PrintsAgree
<1>10. OnTheWire'
  BY <1>1, <1>3, <1>5 DEF OnTheWire
<1>11. Names'
  BY <1>1, <1>2 DEF Names
<1>12. NameRead'
  BY <1>1 DEF WireInv, NameRead
<1>13. NameArrived'
  <2>1. whole' = <<>>
    BY <1>7
  <2>. QED
    BY <2>1 DEF NameArrived
<1>14. Fields'
  <2>1. ~(Len(prints') >= 3) /\ ~(Len(prints') >= 5) /\ ~(Len(prints') >= 6)
    BY <1>7
  <2>. QED
    BY <2>1 DEF Fields, Request, Reply, Final
<1>. QED
  BY <1>7, <1>8, <1>9, <1>10, <1>11, <1>12, <1>13, <1>14 DEF WireInv

\* The sequence of the packets printed, all of them as they should be.
AllFull(s) == s \in Seq(Prints) /\ \A n \in 1..Len(s) : FullPrint(s[n], HasGre(n))

\* The packet p is printed after the n packets of s, as t has it.
Adds(s, n, p, m, t) ==
  /\ AllFull(s) /\ Len(s) = n /\ m = n + 1
  /\ p \in Prints /\ FullPrint(p, HasGre(m)) /\ t = Append(s, p)
Added(s, n, p, m, t) == AllFull(t) /\ Len(t) = m /\ t[m] = p /\ \A i \in 1..n : t[i] = s[i]

LEMMA PrintAdded ==
  ASSUME NEW s, NEW n, NEW p, NEW m, NEW t, Adds(s, n, p, m, t)
  PROVE  Added(s, n, p, m, t)
<1>0. Len(s) = n /\ m = n + 1 /\ p \in Prints /\ FullPrint(p, HasGre(m)) /\ t = Append(s, p)
  BY DEF Adds
<1>1. s \in Seq(Prints) /\ \A i \in 1..n : FullPrint(s[i], HasGre(i))
  BY DEF Adds, AllFull
<1>2. n \in Nat
  BY <1>0, <1>1
<1>3. t \in Seq(Prints) /\ Len(t) = m /\ t[m] = p /\ \A i \in 1..n : t[i] = s[i]
  BY <1>0, <1>1, Appended
<1>4. \A i \in 1..Len(t) : FullPrint(t[i], HasGre(i))
  <2>. TAKE i \in 1..Len(t)
  <2>1. CASE i = m
    BY <1>0, <1>3, <2>1
  <2>2. CASE i # m
    <3>1. i \in 1..n
      BY <1>0, <1>2, <1>3, <2>2
    <3>. QED
      BY <1>1, <1>3, <3>1
  <2>. QED
    BY <2>1, <2>2
<1>5. AllFull(t)
  BY <1>3, <1>4 DEF AllFull
<1>. QED
  BY <1>3, <1>5 DEF Added

\* The receipt w is noted after the n receipts of s, as t has it.
Notes(s, n, w, m, t) ==
  s \in Seq(BOOLEAN) /\ Len(s) = n /\ m = n + 1 /\ w \in BOOLEAN /\ t = Append(s, w)
Noted(s, n, w, m, t) == t \in Seq(BOOLEAN) /\ Len(t) = m /\ t[m] = w /\ \A i \in 1..n : t[i] = s[i]

LEMMA ReceiptAdded ==
  ASSUME NEW s, NEW n, NEW w, NEW m, NEW t, Notes(s, n, w, m, t)
  PROVE  Noted(s, n, w, m, t)
<1>1. s \in Seq(BOOLEAN) /\ Len(s) = n /\ m = n + 1 /\ w \in BOOLEAN /\ t = Append(s, w)
  BY DEF Notes
<1>2. t \in Seq(BOOLEAN) /\ Len(t) = Len(s) + 1 /\ t[Len(s) + 1] = w /\ \A i \in 1..Len(s) : t[i] = s[i]
  BY <1>1, Appended
<1>. QED
  BY <1>1, <1>2 DEF Noted

\* The destination address of a packet, byte by byte.
LEMMA DestinationIn ==
  ASSUME NEW q \in Seq(Byte), Len(q) >= 26
  PROVE  IpIn(q).dst \in Word \X Word /\ \A j \in 1..4 : Bytes32(IpIn(q).dst)[j] = q[22 + j]
<1>. DEFINE h == IpIn(q)
            s == SubSeq(q, 7, 26)
<1>1. h \in IpHeaders /\ IpFields(s, h)
  BY IpInIs
<1>2. \A i \in 1..20 : s[i] = q[6 + i]
  BY HeaderPart
<1>. HIDE DEF h, s
<1>3. \A j \in 1..4 : s[16 + j] = Bytes32(h.dst)[j]
  BY <1>1 DEF IpFields
<1>4. h.dst \in Word \X Word
  BY <1>1 DEF IpHeaders
<1>5. \A j \in 1..4 : Bytes32(h.dst)[j] = q[22 + j]
  <2>. TAKE j \in 1..4
  <2>1. 16 + j \in 1..20 /\ 6 + (16 + j) = 22 + j
    OBVIOUS
  <2>2. s[16 + j] = q[6 + (16 + j)]
    BY <1>2, <2>1
  <2>. QED
    BY <1>3, <2>1, <2>2
<1>. QED
  BY <1>4, <1>5 DEF h

\* A packet whose third cell is a host's name is dialled under that host's address.
LEMMA NameIsDialled ==
  ASSUME NEW b, NEW cs, Exact(b, cs, TRUE, MaxPayloadBytes), NEW h \in Hosts, cs[3] = C!Clear(h)
  PROVE  ParseIpAddrToStr(IpIn(b).dst) = HostIp(NameOf[h])
<1>. DEFINE a == IpIn(b).dst
<1>1. b \in Seq(Byte) /\ Len(b) = 46 + MaxPayloadBytes /\ AddressReal(b, 22, cs[3])
  BY DEF Exact, At, Before
<1>2. Len(b) >= 26
  BY <1>1, SizesAre
<1>3. a \in Word \X Word /\ \A j \in 1..4 : Bytes32(a)[j] = b[22 + j]
  BY <1>1, <1>2, DestinationIn
<1>4. b[22 + 4] \in Byte
  <2>1. 22 + 4 \in 1..Len(b)
    BY <1>1, <1>2
  <2>. QED
    BY <1>1, <2>1, ElementsOf
<1>. DEFINE at == 22
<1>5. /\ at \in Nat /\ b[at + 4] \in Byte /\ AddressReal(b, at, cs[3])
      /\ \A j \in 1..4 : Bytes32(a)[j] = b[at + j]
  BY <1>1, <1>3, <1>4
<1>. HIDE DEF a, at
<1>6. a = AddressOf(h)
  BY <1>3, <1>5, CellShown
<1>. QED
  BY <1>6, HostAddress DEF a

\* What the server has received and decrypted, when it holds the destination's name.
LEMMA Decrypted ==
  ASSUME Agree(wire, cells, TRUE), cells[3] = C!Masked(dest), wire[28] = 190, wire[32] = 120,
         dest \in Hosts, NEW k \in Nat, k <= Len(wire)
  PROVE  LET b == Decrypt(Received(wire, k, PacketSize))
             cs == C!Decrypt(C!Received(cells, CellsIn(k, TRUE), C!PacketLen))
         IN  /\ Exact(b, cs, TRUE, MaxPayloadBytes)
             /\ b[28] \in {120, 198} /\ b[32] \in {0, 120}
             /\ cs[3] \in {C!Clear(dest), C!Masked("zero")}
             /\ k >= HeaderSize => cs[3] = C!Clear(dest)
<1>. DEFINE M == MaxPayloadBytes
            q == CellsIn(k, TRUE)
            r == Received(wire, k, PacketSize)
            rc == C!Received(cells, q, C!PacketLen)
            b == Decrypt(r)
            cs == C!Decrypt(rc)
<1>1. /\ wire \in Seq(Byte) /\ Len(wire) >= 46 /\ cells \in Seq(C!Cell) /\ Len(cells) >= 4
      /\ Len(cells) \in Nat
  BY DEF Agree, At, Before
<1>2. Full(r, rc, TRUE)
  <2>1. PacketSize = At(TRUE) + 28 + M /\ C!PacketLen = Before(TRUE) + 3 + M
    BY SizesAre DEF At, Before
  <2>. QED
    BY <2>1, CutAgrees
<1>. HIDE DEF r, rc
<1>3. Exact(r, rc, TRUE, M)
  BY <1>2, FullIsExact
<1>4. /\ Exact(b, cs, TRUE, M)
      /\ \A i \in 1..46 : b[i] = Xor(r[i], KeyAt(i))
      /\ \A i \in 1..4 : cs[i] = C!Flip(rc[i])
  <2>1. Exact(Decrypt(r), C!Decrypt(rc), TRUE, M) /\ Unlocked(r, rc, Decrypt(r), C!Decrypt(rc))
    BY <1>3, DecryptExact
  <2>2. Exact(b, cs, TRUE, M) /\ Unlocked(r, rc, b, cs)
    BY <2>1
  <2>. HIDE DEF b, cs
  <2>. QED
    BY <2>2 DEF Unlocked
<1>5. \A i \in 1..PacketSize : r[i] = IF i <= k THEN wire[i] ELSE 0
  <2>1. PacketSize \in Nat
    BY SizesAre
  <2>. QED
    BY <1>1, <2>1, ReceivedBytes DEF r
<1>6. q \in Nat /\ q <= Len(cells) /\ (q >= 3 <=> k >= 26)
  <2>1. TRUE \in BOOLEAN /\ Len(cells) \in Nat /\ Len(cells) >= Before(TRUE) + 3
    BY <1>1 DEF Before
  <2>2. q \in Nat /\ q <= Len(cells) /\ (q >= Before(TRUE) + 2 <=> k >= At(TRUE) + 8)
    BY <2>1, CellsInIs
  <2>. HIDE DEF q
  <2>. QED
    BY <2>2 DEF At, Before
<1>. HIDE DEF q
<1>7. \A i \in 1..C!PacketLen : rc[i] = IF i <= q THEN cells[i] ELSE C!Nul
  <2>. DEFINE l == C!PacketLen
  <2>1. l \in Nat
    BY SizesAre
  <2>2. rc = C!Received(cells, q, l)
    BY DEF rc
  <2>. HIDE DEF l
  <2>3. \A i \in 1..l : C!Received(cells, q, l)[i] = IF i <= q THEN cells[i] ELSE C!Nul
    <3>1. cells \in Seq(C!Cell)
      BY <1>1
    <3>2. q \in Nat /\ q <= Len(cells)
      BY <1>6
    <3>. TAKE i \in 1..l
    <3>. QED
      BY <2>1, <3>1, <3>2, CellReceived
  <2>4. \A i \in 1..l : rc[i] = IF i <= q THEN cells[i] ELSE C!Nul
    BY <2>2, <2>3
  <2>. QED
    BY <2>4 DEF l
<1>. HIDE DEF b, cs
<1>8. r[28] \in {190, 0} /\ r[32] \in {120, 0}
  <2>1. 28 \in 1..PacketSize /\ 32 \in 1..PacketSize
    BY SizesAre
  <2>. QED
    BY <1>5, <2>1
<1>9. b[28] \in {120, 198} /\ b[32] \in {0, 120}
  <2>1. 28 \in 1..46 /\ 32 \in 1..46
    OBVIOUS
  <2>2. KeyAt(28) = 120 /\ KeyAt(32) = 120
    BY DEF KeyAt, Key
  <2>3. b[28] = Xor(r[28], 120) /\ b[32] = Xor(r[32], 120)
    BY <1>4, <2>1, <2>2
  <2>. QED
    BY <1>8, <2>3, Xors
<1>10. rc[3] = IF 3 <= q THEN C!Masked(dest) ELSE C!Nul
  <2>1. 3 \in 1..C!PacketLen
    BY SizesAre
  <2>. QED
    BY <1>7, <2>1
<1>11. cs[3] = IF 3 <= q THEN C!Clear(dest) ELSE C!Masked("zero")
  <2>1. 3 \in 1..4
    OBVIOUS
  <2>2. cs[3] = C!Flip(rc[3])
    BY <1>4, <2>1
  <2>3. C!Nul = C!Clear("zero")
    BY DEF C!Nul
  <2>. QED
    BY <1>10, <2>2, <2>3, FlippedTwice
<1>12. cs[3] \in {C!Clear(dest), C!Masked("zero")}
  BY <1>11
<1>13. k >= HeaderSize => cs[3] = C!Clear(dest)
  BY <1>6, <1>11, SizesAre
<1>. QED
  BY <1>4, <1>9, <1>12, <1>13 DEF b, cs, r, rc, q, M

\* Nothing is said of fields before a third packet is printed.
LEMMA NoFieldsYet ==
  ASSUME NEW s \in Seq(Prints), s = prints', Len(s) = 2
  PROVE  Fields'
<1>1. ~(Len(prints') >= 3) /\ ~(Len(prints') >= 5) /\ ~(Len(prints') >= 6)
  OBVIOUS
<1>. QED
  BY <1>1 DEF Fields, Request, Reply, Final

LEMMA Forwarded ==
  ASSUME WireInv, NEW k \in Nat, k <= Len(wire), ServerForwards(k)
  PROVE  WireInv'
<1>. DEFINE b == Decrypt(Received(wire, k, PacketSize))
            cs == C!Decrypt(C!Received(cells, CellsIn(k, TRUE), C!PacketLen))
            x == Decapsulate(Rewritten(b, ServHandlePkt(IpIn(b), AddressOf(Server))))
            y == C!ServHandlePkt(cs, Server)
            p == Printed(TRUE, b, cs)
            w == k >= HeaderSize
<1>1. /\ leg = "server" /\ leg' \in {"destination", "other server", "over"}
      /\ wire' = x /\ cells' = y /\ prints' = Append(prints, p) /\ whole' = Append(whole, w)
      /\ dest' = dest /\ line' = line
  BY DEF ServerForwards
<1>2. /\ Agree(wire, cells, TRUE) /\ cells[3] = C!Masked(dest) /\ wire[28] = 190 /\ wire[32] = 120
  BY <1>1 DEF WireInv, OnTheWire
<1>3. dest \in Hosts
  BY DEF WireInv, Names
<1>4. AllFull(prints) /\ Len(prints) = 1 /\ whole \in Seq(BOOLEAN) /\ Len(whole) = 0
  BY <1>1 DEF WireInv, AllFull, PrintsAgree, Counts
<1>5. /\ Exact(b, cs, TRUE, MaxPayloadBytes)
      /\ b[28] \in {120, 198} /\ b[32] \in {0, 120}
      /\ cs[3] \in {C!Clear(dest), C!Masked("zero")}
      /\ w => cs[3] = C!Clear(dest)
  BY <1>2, <1>3, Decrypted
<1>. HIDE DEF b, cs
<1>6. MaxPayloadBytes \in Nat
  BY SizesAre
<1>7. Exact(x, y, FALSE, MaxPayloadBytes) /\ y[2] = cs[3] /\ Shifted(b, x)
  <2>1. Exact(x, y, FALSE, MaxPayloadBytes) /\ Forwards(b, cs, x, y)
    BY <1>5, <1>6, ForwardedExact
  <2>. HIDE DEF x, y
  <2>. QED
    BY <2>1 DEF Forwards
<1>. HIDE DEF x, y
<1>8. Full(x, y, FALSE)
  BY <1>7, FullIsExact
<1>9. x[22] \in {120, 198} /\ x[26] \in {0, 120}
  <2>1. x[22] = b[28]
    <3>1. 22 \in 1..40 /\ 22 >= 17 /\ 6 + 22 = 28
      OBVIOUS
    <3>. QED
      BY <1>7, <3>1 DEF Shifted
  <2>2. x[26] = b[32]
    <3>1. 26 \in 1..40 /\ 26 >= 17 /\ 6 + 26 = 32
      OBVIOUS
    <3>. QED
      BY <1>7, <3>1 DEF Shifted
  <2>. QED
    BY <1>5, <2>1, <2>2
<1>10. \A h \in Hosts : y[2] # C!Masked(h)
  <2>. TAKE h \in Hosts
  <2>1. h # "zero"
    BY ZeroIsNoHost
  <2>2. C!Masked(h) # C!Masked("zero") /\ C!Masked(h) # C!Clear(dest)
    BY <2>1 DEF C!Masked, C!Clear
  <2>. QED
    BY <1>5, <1>7, <2>2
<1>11. p \in Prints /\ FullPrint(p, TRUE) /\ p.bytes = b
  <2>1. p \in Prints /\ FullPrint(p, TRUE)
    BY <1>5, FullPrinted
  <2>2. p.bytes = b
    BY DEF Printed
  <2>. QED
    BY <2>1, <2>2
<1>. HIDE DEF p
<1>12. AllFull(prints') /\ Len(prints') = 2 /\ prints'[2] = p
  <2>1. FullPrint(p, HasGre(2))
    BY <1>11, GreOf
  <2>2. AllFull(prints) /\ Len(prints) = 1 /\ p \in Prints
    BY <1>4, <1>11
  <2>3. prints' = Append(prints, p)
    BY <1>1
  <2>4. 2 = 1 + 1
    OBVIOUS
  <2>. QED
    <3>1. Adds(prints, 1, p, 2, prints')
      BY <2>1, <2>2, <2>3, <2>4 DEF Adds
    <3>2. Added(prints, 1, p, 2, prints')
      BY <3>1, PrintAdded
    <3>. QED
      BY <3>2 DEF Added
<1>13. w \in BOOLEAN
  OBVIOUS
<1>14. whole' \in Seq(BOOLEAN) /\ Len(whole') = 1 /\ whole'[1] = w
  <2>1. whole \in Seq(BOOLEAN) /\ Len(whole) = 0
    BY <1>4
  <2>2. whole' = Append(whole, w)
    BY <1>1
  <2>3. 1 = 0 + 1
    OBVIOUS
  <2>. QED
    <3>1. Notes(whole, 0, w, 1, whole')
      BY <1>13, <2>1, <2>2, <2>3 DEF Notes
    <3>2. Noted(whole, 0, w, 1, whole')
      BY <3>1, ReceiptAdded
    <3>. QED
      BY <3>2 DEF Noted
<1>. HIDE DEF w
<1>15. prints' \in Seq(Prints) /\ Counts'
  <2>1. prints' \in Seq(Prints)
    BY <1>12 DEF AllFull
  <2>2. Counts'
    BY <1>1, <1>12, <1>14 DEF Counts
  <2>. QED
    BY <2>1, <2>2
<1>16. PrintsAgree'
  BY <1>1, <1>12 DEF PrintsAgree, AllFull
<1>17. OnTheWire'
  <2>1. leg' \notin {"server", "server again", "client"}
    BY <1>1
  <2>2. Full(wire', cells', FALSE) /\ Shifted(prints'[2].bytes, wire')
    BY <1>1, <1>7, <1>8, <1>11, <1>12
  <2>3. wire'[22] \in {120, 198} /\ wire'[26] \in {0, 120} /\ \A h \in Hosts : cells'[2] # C!Masked(h)
    BY <1>1, <1>9, <1>10
  <2>. QED
    BY <2>1, <2>2, <2>3 DEF OnTheWire
<1>18. Names'
  BY <1>1, <1>3 DEF Names
<1>19. NameRead'
  BY <1>1 DEF WireInv, NameRead
<1>20. NameArrived'
  <2>. SUFFICES ASSUME w
                PROVE  ParseIpAddrToStr(IpIn(b).dst) = HostIp(NameOf[dest])
    BY <1>1, <1>11, <1>12, <1>14 DEF NameArrived
  <2>1. cs[3] = C!Clear(dest)
    BY <1>5 DEF w
  <2>2. Exact(b, cs, TRUE, MaxPayloadBytes)
    BY <1>5
  <2>. QED
    BY <1>3, <2>1, <2>2, NameIsDialled
<1>21. Fields'
  BY <1>12, <1>15, NoFieldsYet
<1>. QED
  BY <1>14, <1>15, <1>16, <1>17, <1>18, <1>19, <1>20, <1>21 DEF WireInv

LEMMA ShownWith ==
  ASSUME NEW p \in Prints, FullPrint(p, TRUE)
  PROVE  Shown(p) /\ IpOffset(p) = 6
<1>1. TRUE \in BOOLEAN
  OBVIOUS
<1>2. Shown(p)
  BY <1>1, PrintedIs
<1>3. p.gre = TRUE
  BY DEF FullPrint
<1>. QED
  BY <1>2, <1>3 DEF IpOffset, GreSize

LEMMA ShownWithout ==
  ASSUME NEW p \in Prints, FullPrint(p, FALSE)
  PROVE  Shown(p) /\ IpOffset(p) = 0
<1>1. FALSE \in BOOLEAN
  OBVIOUS
<1>2. Shown(p)
  BY <1>1, PrintedIs
<1>3. p.gre = FALSE
  BY DEF FullPrint
<1>. QED
  BY <1>2, <1>3 DEF IpOffset

\* The request at the server and at the destination.
LEMMA RequestShown ==
  ASSUME NEW p \in Prints, FullPrint(p, TRUE), NEW q \in Prints, FullPrint(q, FALSE),
         Shifted(p.bytes, q.bytes)
  PROVE  SameFields(p, q) /\ ShownIp(p).ip_dst = ShownIp(q).ip_dst
<1>1. Shown(p) /\ IpOffset(p) = 6
  BY ShownWith
<1>2. Shown(q) /\ IpOffset(q) = 0
  BY ShownWithout
<1>3. \A i \in 1..40 : i <= 10 \/ i >= 17 => p.bytes[IpOffset(p) + i] = q.bytes[IpOffset(q) + i]
  <2>. TAKE i \in 1..40
  <2>1. 0 + i = i
    OBVIOUS
  <2>. QED
    BY <1>1, <1>2, <2>1 DEF Shifted
<1>4. SameBytes(p, q, 1, 10) /\ SameBytes(p, q, 17, 20) /\ SameBytes(p, q, 21, 40)
  <2>1. \A i \in 1..10 : i \in 1..40 /\ i <= 10
    OBVIOUS
  <2>2. \A i \in 17..20 : i \in 1..40 /\ i >= 17
    OBVIOUS
  <2>3. \A i \in 21..40 : i \in 1..40 /\ i >= 17
    OBVIOUS
  <2>. QED
    BY <1>3, <2>1, <2>2, <2>3 DEF SameBytes
<1>. QED
  BY <1>1, <1>2, <1>4, SameIp, SameTcp, SameDestination DEF SameFields

\* What is received without its GRE header.
LEMMA ReceivedBare ==
  ASSUME Agree(wire, cells, FALSE), NEW k \in Nat, k <= Len(wire)
  PROVE  LET r == Received(wire, k, PacketSize - GreSize)
             rc == C!Received(cells, CellsIn(k, FALSE), C!PacketLen - 1)
         IN  /\ Exact(r, rc, FALSE, MaxPayloadBytes)
             /\ k >= HeaderSize - GreSize => SameBare(wire, r)
<1>. DEFINE M == MaxPayloadBytes
            q == CellsIn(k, FALSE)
            m == PacketSize - GreSize
            n == C!PacketLen - 1
            r == Received(wire, k, m)
            rc == C!Received(cells, q, n)
<1>1. wire \in Seq(Byte)
  BY DEF Agree
<1>2. m = At(FALSE) + 28 + M /\ n = Before(FALSE) + 3 + M
  BY SizesAre DEF At, Before, GreSize
<1>7. M \in Nat /\ m = 40 + M
  BY SizesAre DEF GreSize
<1>. HIDE DEF m, n, q
<1>3. Full(r, C!Received(cells, CellsIn(k, FALSE), n), FALSE)
  BY <1>2, CutAgrees
<1>. HIDE DEF r
<1>4. Exact(r, rc, FALSE, M)
  BY <1>3, FullIsExact DEF q
<1>5. \A i \in 1..m : r[i] = IF i <= k THEN wire[i] ELSE 0
  <2>1. m \in Nat
    BY <1>7
  <2>. QED
    BY <1>1, <2>1, ReceivedBytes DEF r
<1>6. ASSUME k >= HeaderSize - GreSize
      PROVE  SameBare(wire, r)
  <2>1. k >= 40
    BY <1>6, SizesAre DEF GreSize
  <2>2. \A i \in 1..40 : i \in 1..m /\ i <= k
    BY <1>7, <2>1
  <2>. QED
    BY <1>5, <2>2 DEF SameBare
<1>. QED
  BY <1>4, <1>6 DEF r, q, m, n

LEMMA Answered ==
  ASSUME WireInv, NEW k \in Nat, k <= Len(wire), DestinationAnswers(k)
  PROVE  WireInv'
<1>. DEFINE r == Received(wire, k, PacketSize - GreSize)
            rc == C!Received(cells, CellsIn(k, FALSE), C!PacketLen - 1)
            x == Decapsulate(PacketBytes(AddressOf(dest), ThroughText(IpOf(r).src), AckFlag, BytesOf(ReplyText)))
            y == C!Decapsulate(C!CreatePacketsDes(C!Clear(dest), rc[C!SrcAt - 1], C!Clear("ack"), CellsOf(ReplyText)))
            p == Printed(FALSE, r, rc)
            q == Printed(FALSE, x, y)
            w == k >= HeaderSize - GreSize
<1>1. /\ leg = "destination" /\ leg' = "server again"
      /\ wire' = SubSeq(x, 1, HeaderSize + Len(ReplyText)) /\ cells' = C!ReplyBytes(y, ReplyText)
      /\ dest' = dest /\ line' = line
  BY DEF DestinationAnswers
<1>2. prints' = prints \o <<p, q>>
  BY DEF DestinationAnswers
<1>3. whole' = Append(whole, w)
  BY DEF DestinationAnswers
<1>4. Full(wire, cells, FALSE) /\ Shifted(prints[2].bytes, wire)
  BY <1>1 DEF WireInv, OnTheWire
<1>5. dest \in Hosts
  BY DEF WireInv, Names
<1>6. AllFull(prints) /\ Len(prints) = 2 /\ whole \in Seq(BOOLEAN) /\ Len(whole) = 1
  BY <1>1 DEF WireInv, AllFull, PrintsAgree, Counts
<1>7. Agree(wire, cells, FALSE)
  BY <1>4 DEF Full
<1>8. Exact(r, rc, FALSE, MaxPayloadBytes) /\ (w => SameBare(wire, r))
  BY <1>7, ReceivedBare
<1>. HIDE DEF r, rc
<1>9. Exact(x, y, FALSE, MaxPayloadBytes) /\ EndsInZeros(x)
  BY <1>5, <1>8, AnswerExact
<1>. HIDE DEF x, y
<1>10. Agree(wire', cells', FALSE) /\ SameBare(x, wire')
  BY <1>1, <1>9, ReplyAgrees
<1>11. p \in Prints /\ FullPrint(p, FALSE) /\ p.bytes = r
  <2>1. FALSE \in BOOLEAN
    OBVIOUS
  <2>2. p \in Prints /\ FullPrint(p, FALSE)
    BY <1>8, <2>1, FullPrinted
  <2>3. p.bytes = r
    BY DEF Printed
  <2>. QED
    BY <2>2, <2>3
<1>12. q \in Prints /\ FullPrint(q, FALSE) /\ q.bytes = x
  <2>1. FALSE \in BOOLEAN
    OBVIOUS
  <2>2. q \in Prints /\ FullPrint(q, FALSE)
    BY <1>9, <2>1, FullPrinted
  <2>3. q.bytes = x
    BY DEF Printed
  <2>. QED
    BY <2>2, <2>3
<1>. HIDE DEF p, q
<1>13. /\ AllFull(prints') /\ Len(prints') = 4 /\ prints'[1] = prints[1] /\ prints'[2] = prints[2]
       /\ prints'[3] = p /\ prints'[4] = q
  <2>. DEFINE s == Append(prints, p)
              t == Append(s, q)
  <2>1. 3 = 2 + 1 /\ 4 = 3 + 1
    OBVIOUS
  <2>2. Adds(prints, 2, p, 3, s)
    BY <1>6, <1>11, <2>1, GreOf DEF Adds
  <2>3. Added(prints, 2, p, 3, s)
    BY <2>2, PrintAdded
  <2>. HIDE DEF s
  <2>4. AllFull(s) /\ Len(s) = 3 /\ s[3] = p /\ \A i \in 1..2 : s[i] = prints[i]
    BY <2>3 DEF Added
  <2>5. Adds(s, 3, q, 4, t)
    BY <1>12, <2>1, <2>4, GreOf DEF Adds
  <2>6. Added(s, 3, q, 4, t)
    BY <2>5, PrintAdded
  <2>. HIDE DEF t
  <2>7. AllFull(t) /\ Len(t) = 4 /\ t[4] = q /\ \A i \in 1..3 : t[i] = s[i]
    BY <2>6 DEF Added
  <2>8. t[1] = prints[1] /\ t[2] = prints[2] /\ t[3] = p
    <3>1. 1 \in 1..2 /\ 2 \in 1..2 /\ 1 \in 1..3 /\ 2 \in 1..3 /\ 3 \in 1..3
      OBVIOUS
    <3>. QED
      BY <2>4, <2>7, <3>1
  <2>9. prints' = t
    <3>1. prints \in Seq(Prints)
      BY <1>6 DEF AllFull
    <3>2. prints \o <<p, q>> = Append(Append(prints, p), q)
      BY <1>11, <1>12, <3>1
    <3>. QED
      BY <1>2, <3>2 DEF s, t
  <2>. QED
    BY <2>7, <2>8, <2>9
<1>14. whole' \in Seq(BOOLEAN) /\ Len(whole') = 2 /\ whole'[1] = whole[1] /\ whole'[2] = w
  <2>1. 2 = 1 + 1 /\ w \in BOOLEAN
    OBVIOUS
  <2>. HIDE DEF w
  <2>2. whole' \in Seq(BOOLEAN) /\ Len(whole') = 2 /\ whole'[2] = w /\ \A i \in 1..1 : whole'[i] = whole[i]
    <3>1. whole \in Seq(BOOLEAN) /\ Len(whole) = 1
      BY <1>6
    <3>. QED
      <4>1. Notes(whole, 1, w, 2, whole')
        BY <1>3, <2>1, <3>1 DEF Notes
      <4>2. Noted(whole, 1, w, 2, whole')
        BY <4>1, ReceiptAdded
      <4>. QED
        BY <4>2 DEF Noted
  <2>3. 1 \in 1..1
    OBVIOUS
  <2>. QED
    BY <2>2, <2>3
<1>. HIDE DEF w
<1>15. prints' \in Seq(Prints) /\ Counts'
  <2>1. prints' \in Seq(Prints)
    BY <1>13 DEF AllFull
  <2>2. Counts'
    BY <1>1, <1>13, <1>14 DEF Counts
  <2>. QED
    BY <2>1, <2>2
<1>16. PrintsAgree'
  BY <1>1, <1>13 DEF PrintsAgree, AllFull
<1>17. OnTheWire'
  <2>1. SameBare(prints'[4].bytes, wire')
    BY <1>10, <1>12, <1>13
  <2>. QED
    BY <1>1, <1>10, <2>1 DEF OnTheWire
<1>18. Names'
  BY <1>1, <1>5 DEF Names
<1>19. NameRead'
  BY <1>1 DEF WireInv, NameRead
<1>20. NameArrived'
  <2>0. whole # <<>>
    BY <1>6
  <2>1. whole # <<>> /\ whole'[1] = whole[1] /\ prints'[2] = prints[2] /\ dest' = dest
    BY <1>1, <1>13, <1>14, <2>0
  <2>2. NameArrived
    BY DEF WireInv
  <2>. QED
    BY <2>1, <2>2 DEF NameArrived
<1>21. Request'
  <2>. SUFFICES ASSUME w
                PROVE  /\ SameFields(prints[2], p)
                       /\ ShownIp(prints[2]).ip_dst = ShownIp(p).ip_dst
    BY <1>13, <1>14 DEF Request
  <2>. DEFINE b == prints[2]
  <2>1. b \in Prints /\ FullPrint(b, TRUE)
    <3>1. 2 \in 1..Len(prints) /\ prints \in Seq(Prints)
      BY <1>6 DEF AllFull
    <3>2. b \in Prints
      BY <3>1, ElementsOf
    <3>3. FullPrint(b, HasGre(2))
      BY <1>6, <3>1 DEF AllFull
    <3>. QED
      BY <3>2, <3>3, GreOf
  <2>2. Shifted(b.bytes, p.bytes)
    BY <1>4, <1>8, <1>11 DEF Shifted, SameBare
  <2>. HIDE DEF b
  <2>3. SameFields(b, p) /\ ShownIp(b).ip_dst = ShownIp(p).ip_dst
    BY <1>11, <2>1, <2>2, RequestShown
  <2>. QED
    BY <2>3 DEF b
<1>22. Fields'
  <2>1. ~(Len(prints') >= 5) /\ ~(Len(prints') >= 6)
    BY <1>13
  <2>. QED
    BY <1>21, <2>1 DEF Fields, Reply, Final
<1>. QED
  BY <1>14, <1>15, <1>16, <1>17, <1>18, <1>19, <1>20, <1>22 DEF WireInv

\* What the server does not rewrite of a reply lies six bytes farther from the start.
Returned(b, r) == \A i \in 1..40 : i \notin 11..12 /\ i \notin 17..20 => r[6 + i] = b[i]

\* The reply at the destination and at the server.
LEMMA ReplyShown ==
  ASSUME NEW p \in Prints, FullPrint(p, FALSE), NEW q \in Prints, FullPrint(q, TRUE),
         Returned(p.bytes, q.bytes)
  PROVE  SameFields(p, q) /\ ShownIp(p).ip_src = ShownIp(q).ip_src
<1>1. Shown(p) /\ IpOffset(p) = 0
  BY ShownWithout
<1>2. Shown(q) /\ IpOffset(q) = 6
  BY ShownWith
<1>3. \A i \in 1..40 : i \notin 11..12 /\ i \notin 17..20
                       => p.bytes[IpOffset(p) + i] = q.bytes[IpOffset(q) + i]
  <2>. TAKE i \in 1..40
  <2>1. 0 + i = i
    OBVIOUS
  <2>. QED
    BY <1>1, <1>2, <2>1 DEF Returned
<1>4. SameBytes(p, q, 1, 10) /\ SameBytes(p, q, 13, 16) /\ SameBytes(p, q, 21, 40)
  <2>1. \A i \in 1..10 : i \in 1..40 /\ i \notin 11..12 /\ i \notin 17..20
    OBVIOUS
  <2>2. \A i \in 13..16 : i \in 1..40 /\ i \notin 11..12 /\ i \notin 17..20
    OBVIOUS
  <2>3. \A i \in 21..40 : i \in 1..40 /\ i \notin 11..12 /\ i \notin 17..20
    OBVIOUS
  <2>. QED
    BY <1>3, <2>1, <2>2, <2>3 DEF SameBytes
<1>. QED
  BY <1>1, <1>2, <1>4, SameIp, SameTcp, SameSource DEF SameFields

LEMMA BackToClient ==
  ASSUME WireInv, NEW k \in Nat, k <= Len(wire), ServerReturns(k)
  PROVE  WireInv'
<1>. DEFINE M == MaxPayloadBytes
            r == Received(wire, k, PacketSize - GreSize)
            rc == C!Received(cells, CellsIn(k, FALSE), C!PacketLen - 1)
            g == GreBytes \o r
            gc == C!Encapsulate(rc)
            b == prints[2].bytes
            cs == prints[2].cells
            x == Rewritten(g, ServHandlePktDest(IpIn(g), ThroughText(IpIn(b).src)))
            y == C!ServHandlePktDest(gc, C!SaveClientIp(cs))
            p == Printed(TRUE, x, y)
            w == k >= HeaderSize - GreSize
<1>1. /\ leg = "server again" /\ leg' = "client"
      /\ wire' = XorBytes(SubSeq(x, 1, HeaderSize + StrLen(x, HeaderSize + 1)))
      /\ cells' = C!ServCliEncrypt(y)
      /\ dest' = dest /\ line' = line
  BY DEF ServerReturns
<1>2. prints' = Append(prints, p)
  BY DEF ServerReturns
<1>3. whole' = Append(whole, w)
  BY DEF ServerReturns
<1>4. Agree(wire, cells, FALSE) /\ SameBare(prints[4].bytes, wire)
  BY <1>1 DEF WireInv, OnTheWire
<1>5. dest \in Hosts
  BY DEF WireInv, Names
<1>6. AllFull(prints) /\ Len(prints) = 4 /\ whole \in Seq(BOOLEAN) /\ Len(whole) = 2
  BY <1>1 DEF WireInv, AllFull, PrintsAgree, Counts
<1>7. M \in Nat /\ M <= M
  BY SizesAre
<1>8. Exact(r, rc, FALSE, M) /\ (w => SameBare(wire, r))
  BY <1>4, ReceivedBare
<1>. HIDE DEF r, rc
<1>9. Exact(g, gc, TRUE, M) /\ Behind(r, g, 40 + M)
  BY <1>7, <1>8, EncapsulatedExact
<1>10. prints[2] \in Prints /\ FullPrint(prints[2], TRUE) /\ prints[4] \in Prints /\ FullPrint(prints[4], FALSE)
  <2>1. 2 \in 1..Len(prints) /\ 4 \in 1..Len(prints) /\ prints \in Seq(Prints)
    BY <1>6 DEF AllFull
  <2>2. prints[2] \in Prints /\ prints[4] \in Prints
    BY <2>1, ElementsOf
  <2>3. FullPrint(prints[2], HasGre(2)) /\ FullPrint(prints[4], HasGre(4))
    BY <1>6, <2>1 DEF AllFull
  <2>. QED
    BY <2>2, <2>3, GreOf
<1>11. Exact(b, cs, TRUE, M)
  <2>1. TRUE \in BOOLEAN
    OBVIOUS
  <2>. QED
    BY <1>10, <2>1, FullIsExact DEF FullPrint
<1>. HIDE DEF g, gc, b, cs
<1>12. Exact(x, y, TRUE, M) /\ Kept(g, x)
  BY <1>7, <1>9, <1>11, ReturnedExact
<1>. HIDE DEF x, y
<1>13. Agree(wire', cells', TRUE) /\ UnderKey(x, wire')
  BY <1>1, <1>7, <1>12, SentBackExact
<1>14. p \in Prints /\ FullPrint(p, TRUE) /\ p.bytes = x
  <2>1. TRUE \in BOOLEAN
    OBVIOUS
  <2>2. p \in Prints /\ FullPrint(p, TRUE)
    BY <1>12, <2>1, FullPrinted
  <2>3. p.bytes = x
    BY DEF Printed
  <2>. QED
    BY <2>2, <2>3
<1>. HIDE DEF p
<1>15. AllFull(prints') /\ Len(prints') = 5 /\ prints'[5] = p /\ \A i \in 1..4 : prints'[i] = prints[i]
  <2>1. 5 = 4 + 1
    OBVIOUS
  <2>2. Adds(prints, 4, p, 5, prints')
    BY <1>2, <1>6, <1>14, <2>1, GreOf DEF Adds
  <2>3. Added(prints, 4, p, 5, prints')
    BY <2>2, PrintAdded
  <2>. QED
    BY <2>3 DEF Added
<1>16. whole' \in Seq(BOOLEAN) /\ Len(whole') = 3 /\ whole'[3] = w /\ \A i \in 1..2 : whole'[i] = whole[i]
  <2>1. 3 = 2 + 1 /\ w \in BOOLEAN
    OBVIOUS
  <2>. HIDE DEF w
  <2>2. whole \in Seq(BOOLEAN) /\ Len(whole) = 2
    BY <1>6
  <2>3. Notes(whole, 2, w, 3, whole')
    BY <1>3, <2>1, <2>2 DEF Notes
  <2>4. Noted(whole, 2, w, 3, whole')
    BY <2>3, ReceiptAdded
  <2>. QED
    BY <2>4 DEF Noted
<1>. HIDE DEF w
<1>17. /\ prints'[1] = prints[1] /\ prints'[2] = prints[2] /\ prints'[3] = prints[3] /\ prints'[4] = prints[4]
       /\ whole'[1] = whole[1] /\ whole'[2] = whole[2]
  <2>1. 1 \in 1..4 /\ 2 \in 1..4 /\ 3 \in 1..4 /\ 4 \in 1..4 /\ 1 \in 1..2 /\ 2 \in 1..2
    OBVIOUS
  <2>. QED
    BY <1>15, <1>16, <2>1
<1>18. prints' \in Seq(Prints) /\ Counts'
  <2>1. prints' \in Seq(Prints)
    BY <1>15 DEF AllFull
  <2>2. Counts'
    BY <1>1, <1>15, <1>16 DEF Counts
  <2>. QED
    BY <2>1, <2>2
<1>19. PrintsAgree'
  BY <1>1, <1>15 DEF PrintsAgree, AllFull
<1>20. OnTheWire'
  <2>1. UnderKey(prints'[5].bytes, wire')
    BY <1>13, <1>14, <1>15
  <2>. QED
    BY <1>1, <1>13, <2>1 DEF OnTheWire
<1>21. Names'
  BY <1>1, <1>5 DEF Names
<1>22. NameRead'
  BY <1>1 DEF WireInv, NameRead
<1>23. NameArrived'
  <2>0. whole # <<>>
    BY <1>6
  <2>1. whole # <<>> /\ whole'[1] = whole[1] /\ prints'[2] = prints[2] /\ dest' = dest
    BY <1>1, <1>17, <2>0
  <2>2. NameArrived
    BY DEF WireInv
  <2>. QED
    BY <2>1, <2>2 DEF NameArrived
<1>24. Request'
  <2>1. Request
    BY <1>1 DEF WireInv, Fields
  <2>2. Len(prints) >= 3
    BY <1>6
  <2>. QED
    BY <1>17, <2>1, <2>2 DEF Request
<1>25. Reply'
  <2>. SUFFICES ASSUME w
                PROVE  SameFields(prints[4], p) /\ ShownIp(prints[4]).ip_src = ShownIp(p).ip_src
    BY <1>15, <1>16, <1>17 DEF Reply
  <2>. DEFINE q == prints[4]
  <2>1. q \in Prints /\ FullPrint(q, FALSE)
    BY <1>10
  <2>2. SameBare(q.bytes, wire) /\ SameBare(wire, r)
    BY <1>4, <1>8
  <2>. HIDE DEF q
  <2>3. Returned(q.bytes, x)
    <3>. SUFFICES ASSUME NEW i \in 1..40, i \notin 11..12, i \notin 17..20
                  PROVE  x[6 + i] = q.bytes[i]
      BY DEF Returned
    <3>1. 6 + i \in 1..46 /\ 6 + i \notin 17..18 /\ 6 + i \notin 23..26 /\ i \in 1..(40 + M)
      BY <1>7
    <3>2. x[6 + i] = g[6 + i]
      BY <1>12, <3>1 DEF Kept
    <3>3. g[6 + i] = r[i]
      BY <1>9, <3>1 DEF Behind
    <3>4. r[i] = q.bytes[i]
      BY <2>2 DEF SameBare
    <3>. QED
      BY <3>2, <3>3, <3>4
  <2>4. SameFields(q, p) /\ ShownIp(q).ip_src = ShownIp(p).ip_src
    BY <1>14, <2>1, <2>3, ReplyShown
  <2>. QED
    BY <2>4 DEF q
<1>26. Fields'
  <2>1. ~(Len(prints') >= 6)
    BY <1>15
  <2>. QED
    BY <1>24, <1>25, <2>1 DEF Fields, Final
<1>. QED
  BY <1>16, <1>18, <1>19, <1>20, <1>21, <1>22, <1>23, <1>26 DEF WireInv

\* The reply at the client.
LEMMA ReplyReceived ==
  ASSUME WireInv, NEW k \in Nat, k <= Len(wire), ClientReceives(k)
  PROVE  WireInv'
<1>. DEFINE M == MaxPayloadBytes
            q == CellsIn(k, TRUE)
            m == PacketSize
            n == C!PacketLen
            r == Received(wire, k, m)
            rc == C!Received(cells, q, n)
            x == Decrypt(r)
            y == C!Decrypt(rc)
            p == Printed(TRUE, x, y)
            w == k >= HeaderSize
<1>1. leg = "client" /\ leg' = "over" /\ dest' = dest /\ line' = line
  BY DEF ClientReceives
<1>2. prints' = Append(prints, p)
  BY DEF ClientReceives
<1>3. whole' = Append(whole, w)
  BY DEF ClientReceives
<1>4. Agree(wire, cells, TRUE) /\ UnderKey(prints[5].bytes, wire)
  BY <1>1 DEF WireInv, OnTheWire
<1>5. dest \in Hosts
  BY DEF WireInv, Names
<1>6. AllFull(prints) /\ Len(prints) = 5 /\ whole \in Seq(BOOLEAN) /\ Len(whole) = 3
  BY <1>1 DEF WireInv, AllFull, PrintsAgree, Counts
<1>7. m = At(TRUE) + 28 + M /\ n = Before(TRUE) + 3 + M
  BY SizesAre DEF At, Before
<1>8. m \in Nat /\ m >= 46 /\ HeaderSize = 46
  BY SizesAre
<1>9. wire \in Seq(Byte)
  BY <1>4 DEF Agree
<1>. HIDE DEF m, n, q
<1>10. Exact(r, rc, TRUE, M)
  <2>1. Full(r, C!Received(cells, CellsIn(k, TRUE), n), TRUE)
    BY <1>4, <1>7, CutAgrees
  <2>2. TRUE \in BOOLEAN
    OBVIOUS
  <2>. HIDE DEF r
  <2>3. Full(r, rc, TRUE)
    BY <2>1 DEF q
  <2>. HIDE DEF rc
  <2>. QED
    BY <2>2, <2>3, FullIsExact
<1>11. ASSUME w
       PROVE  \A i \in 1..46 : r[i] = wire[i]
  <2>1. \A i \in 1..m : r[i] = IF i <= k THEN wire[i] ELSE 0
    BY <1>8, <1>9, ReceivedBytes
  <2>. HIDE DEF r
  <2>2. \A i \in 1..46 : i \in 1..m /\ i <= k
    BY <1>8, <1>11
  <2>. QED
    BY <2>1, <2>2
<1>. HIDE DEF r, rc
<1>12. Exact(x, y, TRUE, M) /\ Unlocked(r, rc, x, y)
  BY <1>10, DecryptExact
<1>. HIDE DEF x, y
<1>13. ASSUME w
       PROVE  SameFront(prints[5].bytes, x)
  <2>. DEFINE b == prints[5].bytes
  <2>1. \A i \in 1..46 : x[i] = Xor(r[i], KeyAt(i))
    BY <1>12 DEF Unlocked
  <2>2. \A i \in 1..46 : Xor(wire[i], KeyAt(i)) = b[i]
    BY <1>4 DEF UnderKey
  <2>. HIDE DEF b
  <2>3. \A i \in 1..46 : b[i] = x[i]
    BY <1>11, <1>13, <2>1, <2>2
  <2>. QED
    BY <2>3 DEF SameFront, b
<1>14. p \in Prints /\ FullPrint(p, TRUE) /\ p.bytes = x
  <2>1. TRUE \in BOOLEAN
    OBVIOUS
  <2>2. p \in Prints /\ FullPrint(p, TRUE)
    BY <1>12, <2>1, FullPrinted
  <2>3. p.bytes = x
    BY DEF Printed
  <2>. QED
    BY <2>2, <2>3
<1>. HIDE DEF p
<1>15. AllFull(prints') /\ Len(prints') = 6 /\ prints'[6] = p /\ \A i \in 1..5 : prints'[i] = prints[i]
  <2>1. 6 = 5 + 1
    OBVIOUS
  <2>2. Adds(prints, 5, p, 6, prints')
    BY <1>2, <1>6, <1>14, <2>1, GreOf DEF Adds
  <2>3. Added(prints, 5, p, 6, prints')
    BY <2>2, PrintAdded
  <2>. QED
    BY <2>3 DEF Added
<1>16. whole' \in Seq(BOOLEAN) /\ Len(whole') = 4 /\ whole'[4] = w /\ \A i \in 1..3 : whole'[i] = whole[i]
  <2>1. 4 = 3 + 1 /\ w \in BOOLEAN
    OBVIOUS
  <2>. HIDE DEF w
  <2>2. whole \in Seq(BOOLEAN) /\ Len(whole) = 3
    BY <1>6
  <2>3. Notes(whole, 3, w, 4, whole')
    BY <1>3, <2>1, <2>2 DEF Notes
  <2>4. Noted(whole, 3, w, 4, whole')
    BY <2>3, ReceiptAdded
  <2>. QED
    BY <2>4 DEF Noted
<1>. HIDE DEF w
<1>17. /\ prints'[1] = prints[1] /\ prints'[2] = prints[2] /\ prints'[3] = prints[3]
       /\ prints'[4] = prints[4] /\ prints'[5] = prints[5]
       /\ whole'[1] = whole[1] /\ whole'[2] = whole[2] /\ whole'[3] = whole[3]
  <2>1. /\ 1 \in 1..5 /\ 2 \in 1..5 /\ 3 \in 1..5 /\ 4 \in 1..5 /\ 5 \in 1..5
        /\ 1 \in 1..3 /\ 2 \in 1..3 /\ 3 \in 1..3
    OBVIOUS
  <2>. QED
    BY <1>15, <1>16, <2>1
<1>18. prints' \in Seq(Prints) /\ Counts'
  <2>1. prints' \in Seq(Prints)
    BY <1>15 DEF AllFull
  <2>2. Counts'
    BY <1>1, <1>15, <1>16 DEF Counts
  <2>. QED
    BY <2>1, <2>2
<1>19. PrintsAgree'
  BY <1>1, <1>15 DEF PrintsAgree, AllFull
<1>20. OnTheWire'
  BY <1>1 DEF OnTheWire
<1>21. Names'
  BY <1>1, <1>5 DEF Names
<1>22. NameRead'
  BY <1>1 DEF WireInv, NameRead
<1>23. NameArrived'
  <2>0. whole # <<>>
    BY <1>6
  <2>1. whole # <<>> /\ whole'[1] = whole[1] /\ prints'[2] = prints[2] /\ dest' = dest
    BY <1>1, <1>17, <2>0
  <2>2. NameArrived
    BY DEF WireInv
  <2>. QED
    BY <2>1, <2>2 DEF NameArrived
<1>24. Request' /\ Reply'
  <2>1. Request /\ Reply
    BY <1>1 DEF WireInv, Fields
  <2>2. Len(prints) >= 3 /\ Len(prints) >= 5
    BY <1>6
  <2>3. Request'
    BY <1>17, <2>1, <2>2 DEF Request
  <2>4. Reply'
    BY <1>17, <2>1, <2>2 DEF Reply
  <2>. QED
    BY <2>3, <2>4
<1>25. Final'
  <2>. DEFINE b == prints[5]
  <2>. SUFFICES ASSUME w
                PROVE  ShownGre(b) = ShownGre(p) /\ ShownIp(b) = ShownIp(p) /\ ShownTcp(b) = ShownTcp(p)
    BY <1>15, <1>16, <1>17 DEF Final
  <2>1. b \in Prints /\ FullPrint(b, TRUE)
    <3>1. 5 \in 1..Len(prints) /\ prints \in Seq(Prints)
      BY <1>6 DEF AllFull
    <3>2. b \in Prints
      BY <3>1, ElementsOf
    <3>3. FullPrint(b, HasGre(5))
      BY <1>6, <3>1 DEF AllFull
    <3>. QED
      BY <3>2, <3>3, GreOf
  <2>2. SameFront(b.bytes, p.bytes)
    BY <1>13, <1>14
  <2>. HIDE DEF b
  <2>3. Shown(b) /\ IpOffset(b) = 6 /\ Shown(p) /\ IpOffset(p) = 6
    BY <1>14, <2>1, ShownWith
  <2>. QED
    BY <2>2, <2>3, SameHeaders
<1>26. Fields'
  BY <1>24, <1>25 DEF Fields
<1>. QED
  BY <1>16, <1>18, <1>19, <1>20, <1>21, <1>22, <1>23, <1>26 DEF WireInv

\* The end of a text lies where it is looked for.
LEMMA TextEnds ==
  ASSUME NEW cs, Len(cs) \in Nat, Len(cs) >= 4
  PROVE  C!TextEnd(cs, 5) \in Nat /\ C!TextEnd(cs, 5) >= 5
<1>. DEFINE n == Len(cs)
            T == {e \in Nat : e \in 5..(n + 1) /\ (e <= n => cs[e] = C!Nul)}
<1>1. n \in Nat /\ n >= 4
  OBVIOUS
<1>. HIDE DEF n
<1>2. T \in SUBSET Nat /\ T # {}
  <2>1. n + 1 \in T
    BY <1>1
  <2>. QED
    BY <2>1
<1>3. PICK e \in T : \A k \in T : e <= k
  <2>. HIDE DEF T
  <2>. QED
    BY <1>2, LeastOf
<1>4. e \in 5..(n + 1) /\ (e <= n => cs[e] = C!Nul)
  BY <1>3
<1>5. \A i \in 5..(e - 1) : cs[i] # C!Nul
  <2>. SUFFICES ASSUME NEW i \in 5..(e - 1), cs[i] = C!Nul
                PROVE  FALSE
    OBVIOUS
  <2>1. i \in T
    BY <1>1, <1>4
  <2>. QED
    BY <1>1, <1>3, <1>4, <2>1
<1>6. C!TextEnd(cs, 5) = e
  <2>1. 5 \in Nat /\ e \in 5..(Len(cs) + 1) /\ (e <= Len(cs) => cs[e] = C!Nul)
    BY <1>4 DEF n
  <2>. HIDE DEF T
  <2>. QED
    BY <1>5, <2>1, TextEndIs
<1>. QED
  BY <1>1, <1>4, <1>6

\* Decryption of anything: what becomes of the headers.
LEMMA AnythingDecrypted ==
  ASSUME NEW r \in Seq(Byte), Len(r) = PacketSize, NEW x, x = Decrypt(r)
  PROVE  /\ x \in Seq(Byte) /\ Len(x) = PacketSize
         /\ x[22] = Xor(r[22], 52) /\ x[26] = Xor(r[26], 52)
<1>. DEFINE M == MaxPayloadBytes
            s == StrLen(r, 47)
            t == C!AtMost(s, M - 1)
            j == 47 + t
            u == XorBytes(r)
<1>1. M \in Nat /\ M > 0 /\ HeaderSize = 46 /\ PacketSize = 46 + M
  BY SizesAre
<1>2. s \in Nat
  <2>1. Len(r) \in Nat /\ 47 \in Nat /\ 47 <= Len(r) + 1
    BY <1>1
  <2>. QED
    BY <2>1, StrLenIs
<1>. HIDE DEF s
<1>3. t \in Nat
  BY <1>1, <1>2 DEF C!AtMost
<1>4. x = [u EXCEPT ![j] = 0]
  <2>1. 46 + 1 = 47
    OBVIOUS
  <2>. QED
    BY <1>1, <2>1 DEF Decrypt, s
<1>. HIDE DEF t
<1>5. u \in Seq(Byte) /\ Len(u) = PacketSize /\ \A i \in 1..Len(r) : u[i] = Xor(r[i], KeyAt(i))
  BY XorBytesAre
<1>. HIDE DEF u
<1>6. j # 22 /\ j # 26
  BY <1>3
<1>. HIDE DEF j
<1>7. x \in Seq(Byte) /\ Len(x) = Len(u) /\ \A i \in 1..Len(u) : x[i] = IF i = j THEN 0 ELSE u[i]
  BY <1>4, <1>5, NulPut
<1>8. 22 \in 1..Len(r) /\ 26 \in 1..Len(r) /\ Len(r) = Len(u)
  BY <1>1, <1>5
<1>9. x[22] = Xor(r[22], KeyAt(22)) /\ x[26] = Xor(r[26], KeyAt(26))
  BY <1>5, <1>6, <1>7, <1>8
<1>. QED
  BY <1>5, <1>7, <1>9, AddressKey

LEMMA AnyCellsDecrypted ==
  ASSUME NEW rc \in Seq(C!Cell), Len(rc) = C!PacketLen, NEW y, y = C!Decrypt(rc)
  PROVE  y \in Seq(C!Cell) /\ y[2] = C!Flip(rc[2]) /\ y[3] = C!Flip(rc[3])
<1>. DEFINE M == MaxPayloadBytes
            u == C!Xor(rc)
            e == C!TextEnd(rc, 5)
            j == C!AtMost(e, 4 + M)
            v == [u EXCEPT ![j] = C!Nul]
<1>1. M \in Nat /\ M > 0 /\ C!PacketLen = 4 + M /\ C!PayloadAt = 5
  BY SizesAre
<1>2. y = v
  BY <1>1 DEF C!Decrypt
<1>3. e \in Nat /\ e >= 5
  BY <1>1, TextEnds
<1>. HIDE DEF e
<1>4. j # 2 /\ j # 3
  BY <1>1, <1>3 DEF C!AtMost
<1>. HIDE DEF j
<1>5. u \in Seq(C!Cell) /\ Len(u) = 4 + M /\ \A i \in 1..Len(rc) : u[i] = C!Flip(rc[i])
  BY <1>1, XorCellsAre
<1>. HIDE DEF u
<1>6. C!Nul \in C!Cell
  BY NulIs
<1>7. v \in Seq(C!Cell) /\ v[2] = u[2] /\ v[3] = u[3]
  <2>1. u \in [1..(4 + M) -> C!Cell] /\ 2 \in 1..(4 + M) /\ 3 \in 1..(4 + M)
    BY <1>1, <1>5
  <2>2. v \in [1..(4 + M) -> C!Cell]
    BY <1>6, <2>1
  <2>3. v \in Seq(C!Cell)
    <3>. DEFINE l == 4 + M
    <3>1. l \in Nat /\ v \in [1..l -> C!Cell]
      BY <1>1, <2>2
    <3>. HIDE DEF l, v
    <3>. QED
      BY <3>1
  <2>4. v[2] = u[2] /\ v[3] = u[3]
    BY <1>4, <2>1
  <2>. QED
    BY <2>3, <2>4
<1>. HIDE DEF v
<1>8. u[2] = C!Flip(rc[2]) /\ u[3] = C!Flip(rc[3])
  <2>1. 2 \in 1..Len(rc) /\ 3 \in 1..Len(rc)
    BY <1>1
  <2>. QED
    BY <1>5, <2>1
<1>. QED
  BY <1>2, <1>7, <1>8

NoHosts(cs) == \A h \in Hosts : cs[2] # C!Clear(h) /\ cs[3] # C!Clear(h)

LEMMA MistakenPrint ==
  ASSUME NEW b \in Seq(Byte), Len(b) = PacketSize, b[22] # 10, b[26] # 10,
         NEW cs \in Seq(C!Cell), NoHosts(cs)
  PROVE  Printed(TRUE, b, cs) \in Prints /\ Mistaken(Printed(TRUE, b, cs))
<1>. DEFINE p == [gre |-> TRUE, bytes |-> b, cells |-> cs]
<1>1. p \in Prints
  BY DEF Prints
<1>2. p.gre = TRUE /\ p.bytes = b /\ p.cells = cs
  OBVIOUS
<1>3. p = Printed(TRUE, b, cs)
  BY DEF Printed
<1>. HIDE DEF p
<1>4. Mistaken(p)
  BY <1>2 DEF Mistaken, NoHosts
<1>. QED
  BY <1>1, <1>3, <1>4

\* Where the other server looks for the addresses there are the two ports.
Forwardable(b, cs) ==
  b[22] \in {120, 198} /\ b[26] \in {0, 120} /\ \A h \in Hosts : cs[2] # C!Masked(h)

\* No host's address comes out where a server decrypts what nobody has encrypted.
LEMMA Misread ==
  ASSUME Full(wire, cells, FALSE), Forwardable(wire, cells), NEW k \in Nat, k <= Len(wire)
  PROVE  LET x == Decrypt(Received(wire, k, PacketSize))
             y == C!Decrypt(C!Received(cells, CellsIn(k, TRUE), C!PacketLen))
         IN  Printed(TRUE, x, y) \in Prints /\ Mistaken(Printed(TRUE, x, y))
<1>. DEFINE M == MaxPayloadBytes
            q == CellsIn(k, TRUE)
            m == PacketSize
            n == C!PacketLen
            r == Received(wire, k, m)
            rc == C!Received(cells, q, n)
            x == Decrypt(r)
            y == C!Decrypt(rc)
            p == Printed(TRUE, x, y)
<1>1. /\ wire \in Seq(Byte) /\ cells \in Seq(C!Cell) /\ Len(cells) = 3 + M /\ cells[3].val \notin Hosts
  BY DEF Full, Agree, At, Before
<1>2. m = 46 + M /\ n = 4 + M /\ M \in Nat /\ M > 0
  BY SizesAre
<1>3. q \in Nat /\ q <= Len(cells)
  <2>1. TRUE \in BOOLEAN /\ Len(cells) \in Nat /\ Len(cells) >= Before(TRUE) + 3
    BY <1>1, <1>2 DEF Before
  <2>2. q \in Nat /\ q <= Len(cells) /\ (q >= Before(TRUE) + 2 <=> k >= At(TRUE) + 8)
    BY <2>1, CellsInIs
  <2>. QED
    BY <2>2
<1>. HIDE DEF m, n, q
<1>4. r \in Seq(Byte) /\ Len(r) = m /\ \A i \in 1..m : r[i] = IF i <= k THEN wire[i] ELSE 0
  <2>1. m \in Nat
    BY <1>2
  <2>2. wire \in Seq(Byte)
    BY <1>1
  <2>. QED
    BY <2>1, <2>2, ReceivedBytes
<1>5. rc \in Seq(C!Cell) /\ Len(rc) = n /\ \A i \in 1..n : rc[i] = IF i <= q THEN cells[i] ELSE C!Nul
  <2>1. n \in Nat
    BY <1>2
  <2>2. cells \in Seq(C!Cell)
    BY <1>1
  <2>3. q \in Nat /\ q <= Len(cells)
    BY <1>3
  <2>. QED
    BY <2>1, <2>2, <2>3, CellsReceived
<1>. HIDE DEF r, rc
<1>6. x \in Seq(Byte) /\ Len(x) = m /\ x[22] = Xor(r[22], 52) /\ x[26] = Xor(r[26], 52)
  BY <1>4, AnythingDecrypted DEF m
<1>7. y \in Seq(C!Cell) /\ y[2] = C!Flip(rc[2]) /\ y[3] = C!Flip(rc[3])
  BY <1>5, AnyCellsDecrypted DEF n
<1>. HIDE DEF x, y
<1>8. x[22] # 10 /\ x[26] # 10
  <2>1. 22 \in 1..m /\ 26 \in 1..m
    BY <1>2
  <2>2. r[22] \in {0, 120, 198} /\ r[26] \in {0, 120}
    BY <1>4, <2>1 DEF Forwardable
  <2>3. x[22] \in {52, 76, 242} /\ x[26] \in {52, 76}
    BY <1>6, <2>2, Xors
  <2>. QED
    BY <2>3
<1>9. ASSUME NEW h \in Hosts
      PROVE  y[2] # C!Clear(h) /\ y[3] # C!Clear(h)
  <2>1. 2 \in 1..n /\ 3 \in 1..n /\ 2 \in 1..Len(rc) /\ 3 \in 1..Len(rc)
    BY <1>2, <1>5
  <2>2. (rc[2] = cells[2] \/ rc[2] = C!Nul) /\ (rc[3] = cells[3] \/ rc[3] = C!Nul)
    BY <1>5, <2>1
  <2>3. rc[2] \in C!Cell /\ rc[3] \in C!Cell
    BY <1>5, <2>1, ElementsOf
  <2>4. h # "zero"
    BY ZeroIsNoHost
  <2>5. C!Nul # C!Masked(h) /\ C!Nul.val = "zero"
    BY DEF C!Nul, C!Clear, C!Masked
  <2>6. rc[2] # C!Masked(h)
    BY <2>2, <2>5 DEF Forwardable
  <2>7. rc[3].val # h
    BY <1>1, <2>2, <2>4, <2>5
  <2>8. ASSUME NEW c \in C!Cell, C!Flip(c) = C!Clear(h)
        PROVE  c = C!Masked(h)
    <3>1. /\ C!Flip(c) = [val |-> c.val, masked |-> ~c.masked] /\ c.masked \in BOOLEAN
          /\ c = [val |-> c.val, masked |-> c.masked]
      BY <2>8 DEF C!Flip, C!Cell
    <3>2. [val |-> c.val, masked |-> ~c.masked] = [val |-> h, masked |-> FALSE]
      BY <2>8, <3>1 DEF C!Clear
    <3>3. c.val = h /\ c.masked = TRUE
      BY <3>1, <3>2
    <3>. QED
      BY <3>1, <3>3 DEF C!Masked
  <2>9. y[2] # C!Clear(h)
    BY <1>7, <2>3, <2>6, <2>8
  <2>10. y[3] # C!Clear(h)
    <3>. SUFFICES ASSUME y[3] = C!Clear(h) PROVE FALSE
      OBVIOUS
    <3>1. rc[3] = C!Masked(h)
      BY <1>7, <2>3, <2>8
    <3>2. C!Masked(h).val = h
      BY DEF C!Masked
    <3>. QED
      BY <2>7, <3>1, <3>2
  <2>. QED
    BY <2>9, <2>10
<1>10. p \in Prints /\ Mistaken(p)
  <2>1. x \in Seq(Byte) /\ y \in Seq(C!Cell) /\ Len(x) = PacketSize
    BY <1>6, <1>7 DEF m
  <2>2. NoHosts(y)
    BY <1>9 DEF NoHosts
  <2>. QED
    BY <1>8, <2>1, <2>2, MistakenPrint
<1>. QED
  BY <1>10 DEF p, x, y, r, rc, q, m, n

LEMMA MistakenServer ==
  ASSUME WireInv, NEW k \in Nat, k <= Len(wire), OtherServerReceives(k)
  PROVE  WireInv'
<1>. DEFINE p == Printed(TRUE, Decrypt(Received(wire, k, PacketSize)),
                         C!Decrypt(C!Received(cells, CellsIn(k, TRUE), C!PacketLen)))
<1>1. leg = "other server" /\ leg' = "not encrypted" /\ dest' = dest /\ line' = line /\ whole' = whole
  BY DEF OtherServerReceives
<1>2. prints' = Append(prints, p)
  BY DEF OtherServerReceives
<1>3. Full(wire, cells, FALSE) /\ Forwardable(wire, cells)
  BY <1>1 DEF WireInv, OnTheWire, Forwardable
<1>4. p \in Prints /\ Mistaken(p)
  BY <1>3, Misread
<1>. HIDE DEF p
<1>5. dest \in Hosts
  BY DEF WireInv, Names
<1>6. /\ prints \in Seq(Prints) /\ Len(prints) = 2 /\ whole \in Seq(BOOLEAN) /\ Len(whole) = 1
      /\ \A i \in 1..Len(prints) : FullPrint(prints[i], HasGre(i))
  BY <1>1 DEF WireInv, PrintsAgree, Counts
<1>7. prints' \in Seq(Prints) /\ Len(prints') = 3 /\ prints'[3] = p /\ \A i \in 1..2 : prints'[i] = prints[i]
  <2>1. prints \in Seq(Prints)
    BY <1>6
  <2>. DEFINE t == Append(prints, p)
  <2>2. /\ t \in Seq(Prints) /\ Len(t) = Len(prints) + 1 /\ t[Len(prints) + 1] = p
        /\ \A i \in 1..Len(prints) : t[i] = prints[i]
    BY <1>4, <2>1, Appended
  <2>. HIDE DEF t
  <2>3. t \in Seq(Prints) /\ Len(t) = 3 /\ t[3] = p /\ \A i \in 1..2 : t[i] = prints[i]
    BY <1>6, <2>2
  <2>. QED
    BY <1>2, <2>3 DEF t
<1>8. prints'[1] = prints[1] /\ prints'[2] = prints[2]
  <2>1. 1 \in 1..2 /\ 2 \in 1..2
    OBVIOUS
  <2>. QED
    BY <1>7, <2>1
<1>9. Counts'
  BY <1>1, <1>6, <1>7 DEF Counts
<1>10. PrintsAgree'
  <2>1. 1 \in 1..Len(prints) /\ 2 \in 1..Len(prints)
    BY <1>6
  <2>2. FullPrint(prints[1], TRUE) /\ FullPrint(prints[2], TRUE)
    BY <1>6, <2>1, GreOf
  <2>. QED
    BY <1>1, <1>4, <1>7, <1>8, <2>2 DEF PrintsAgree
<1>11. OnTheWire'
  BY <1>1 DEF OnTheWire
<1>12. Names'
  BY <1>1, <1>5 DEF Names
<1>13. NameRead'
  BY <1>1 DEF WireInv, NameRead
<1>14. NameArrived'
  <2>1. NameArrived
    BY DEF WireInv
  <2>. QED
    BY <1>1, <1>8, <2>1 DEF NameArrived
<1>15. Fields'
  BY <1>1 DEF Fields
<1>. QED
  BY <1>1, <1>6, <1>7, <1>9, <1>10, <1>11, <1>12, <1>13, <1>14, <1>15 DEF WireInv

LEMMA SomethingOnTheWire ==
  ASSUME WireInv, leg \in {"server", "destination", "other server", "server again", "client"}
  PROVE  wire \in Seq(Byte)
<1>1. CASE leg = "server"
  BY <1>1 DEF WireInv, OnTheWire, Agree
<1>2. CASE leg \in {"destination", "other server"}
  BY <1>2 DEF WireInv, OnTheWire, Full, Agree
<1>3. CASE leg = "server again"
  BY <1>3 DEF WireInv, OnTheWire, Agree
<1>4. CASE leg = "client"
  BY <1>4 DEF WireInv, OnTheWire, Agree
<1>. QED
  BY <1>1, <1>2, <1>3, <1>4

\* A receipt, wherever it is cut.
LEMMA SomethingReceived ==
  ASSUME WireInv, NEW k \in {n \in Cuts : n < Len(wire)} \cup {Len(wire)},
         \/ ServerForwards(k) \/ DestinationAnswers(k) \/ ServerReturns(k)
         \/ ClientReceives(k) \/ OtherServerReceives(k)
  PROVE  WireInv'
<1>1. leg \in {"server", "destination", "other server", "server again", "client"}
  BY DEF ServerForwards, DestinationAnswers, ServerReturns, ClientReceives, OtherServerReceives
<1>2. Len(wire) \in Nat
  <2>1. wire \in Seq(Byte)
    BY <1>1, SomethingOnTheWire
  <2>. QED
    BY <2>1
<1>3. Cuts \subseteq Nat
  BY WireAssumption
<1>4. k \in Nat /\ k <= Len(wire)
  BY <1>2, <1>3
<1>5. CASE ServerForwards(k)
  BY <1>4, <1>5, Forwarded
<1>6. CASE DestinationAnswers(k)
  BY <1>4, <1>6, Answered
<1>7. CASE ServerReturns(k)
  BY <1>4, <1>7, BackToClient
<1>8. CASE ClientReceives(k)
  BY <1>4, <1>8, ReplyReceived
<1>9. CASE OtherServerReceives(k)
  BY <1>4, <1>9, MistakenServer
<1>. QED
  BY <1>5, <1>6, <1>7, <1>8, <1>9

LEMMA NothingOnTheWireMoves ==
  ASSUME WireInv, UNCHANGED wireVars
  PROVE  WireInv'
<1>1. /\ leg' = leg /\ line' = line /\ dest' = dest /\ wire' = wire /\ cells' = cells
      /\ prints' = prints /\ whole' = whole
  BY DEF wireVars
<1>2. prints' \in Seq(Prints) /\ whole' \in Seq(BOOLEAN)
  BY <1>1 DEF WireInv
<1>3. Counts'
  BY <1>1 DEF WireInv, Counts
<1>4. PrintsAgree'
  BY <1>1 DEF WireInv, PrintsAgree
<1>5. OnTheWire'
  BY <1>1 DEF WireInv, OnTheWire
<1>6. Names' /\ NameRead' /\ NameArrived'
  BY <1>1 DEF WireInv, Names, NameRead, NameArrived
<1>7. Fields'
  BY <1>1 DEF WireInv, Fields, Request, Reply, Final
<1>. QED
  BY <1>2, <1>3, <1>4, <1>5, <1>6, <1>7 DEF WireInv

LEMMA WireStep ==
  ASSUME WireInv, [WireNext]_wireVars
  PROVE  WireInv'
<1>1. CASE \E char \in Typable : Type(char)
  BY <1>1, Typed
<1>2. CASE Enter
  BY <1>2, Entered
<1>3. CASE EndOfInput
  BY <1>3, InputEnded
<1>4. CASE ClientSends
  BY <1>4, Sent
<1>5. CASE \E k \in {n \in Cuts : n < Len(wire)} \cup {Len(wire)} :
             \/ ServerForwards(k) \/ DestinationAnswers(k) \/ ServerReturns(k)
             \/ ClientReceives(k) \/ OtherServerReceives(k)
  BY <1>5, SomethingReceived
<1>6. CASE UNCHANGED wireVars
  BY <1>6, NothingOnTheWireMoves
<1>. QED
  BY <1>1, <1>2, <1>3, <1>4, <1>5, <1>6 DEF WireNext

LEMMA WireInvariant == WireSpec => []WireInv
<1>1. WireInit => WireInv
  BY WireInitially
<1>2. WireInv /\ [WireNext]_wireVars => WireInv'
  BY WireStep
<1>. QED
  BY <1>1, <1>2, PTL DEF WireSpec

-----------------------------------------------------------------------------
(* What follows from it *)

\* Every packet that is printed is as long as its headers.
LEMMA LongEnough ==
  ASSUME WireInv, NEW n \in DOMAIN prints
  PROVE  /\ prints[n] \in Prints
         /\ FullPrint(prints[n], HasGre(n)) \/ (leg = "not encrypted" /\ Mistaken(prints[n]))
         /\ leg # "not encrypted" => FullPrint(prints[n], HasGre(n))
<1>1. prints \in Seq(Prints) /\ n \in 1..Len(prints)
  BY DEF WireInv
<1>2. prints[n] \in Prints
  BY <1>1, ElementsOf
<1>3. leg # "not encrypted" => FullPrint(prints[n], HasGre(n))
  BY <1>1 DEF WireInv, PrintsAgree
<1>4. ASSUME leg = "not encrypted"
      PROVE  FullPrint(prints[n], HasGre(n)) \/ Mistaken(prints[n])
  <2>1. Len(prints) = 3
    BY <1>4 DEF WireInv, Counts
  <2>2. n = 1 \/ n = 2 \/ n = 3
    BY <1>1, <2>1
  <2>. QED
    BY <1>4, <2>2, GreOf DEF WireInv, PrintsAgree
<1>. QED
  BY <1>2, <1>3, <1>4

LEMMA AddressesShown ==
  ASSUME NEW p \in Prints, NEW gre \in BOOLEAN, FullPrint(p, gre), NEW h \in Hosts
  PROVE  /\ ShownIp(p).ip_src = AddressOf(h) <=> SrcCell(p) = C!Clear(h)
         /\ ShownIp(p).ip_dst = AddressOf(h) <=> DstCell(p) = C!Clear(h)
<1>. DEFINE b == p.bytes
            cs == p.cells
            at == At(gre)
            to == at + 4
            src == ShownIp(p).ip_src
            dst == ShownIp(p).ip_dst
<1>1. Exact(b, cs, gre, MaxPayloadBytes) /\ p.gre = gre /\ b \in Seq(Byte) /\ Len(b) = (at + 28) + MaxPayloadBytes
  BY PrintedIs
<1>2. at \in Nat /\ to \in Nat /\ MaxPayloadBytes \in Nat
  BY AtIs, SizesAre
<1>3. AddressReal(b, at, SrcCell(p)) /\ AddressReal(b, to, DstCell(p))
  <2>1. AddressReal(b, at, cs[Before(gre) + 1]) /\ AddressReal(b, to, cs[Before(gre) + 2])
    BY <1>1 DEF Exact
  <2>2. SrcCell(p) = cs[Before(gre) + 1] /\ DstCell(p) = cs[Before(gre) + 2]
    BY <1>1 DEF SrcCell, DstCell, Before, C!SrcAt, C!DstAt
  <2>. QED
    BY <2>1, <2>2
<1>. HIDE DEF at
<1>4. /\ src \in Word \X Word /\ dst \in Word \X Word
      /\ \A j \in 1..4 : Bytes32(src)[j] = b[at + j] /\ Bytes32(dst)[j] = b[to + j]
  <2>1. Len(b) >= at + 8
    BY <1>1, <1>2
  <2>2. Len(p.bytes) >= At(gre) + 8 /\ p.bytes \in Seq(Byte) /\ p.gre = gre
    BY <1>1, <2>1 DEF at
  <2>. QED
    BY <2>2, ShownAddresses DEF at
<1>5. b[at + 4] \in Byte /\ b[to + 4] \in Byte
  <2>1. at + 4 \in 1..Len(b) /\ to + 4 \in 1..Len(b)
    BY <1>1, <1>2
  <2>. QED
    BY <1>1, <2>1, ElementsOf
<1>. HIDE DEF b, to, src, dst
<1>6. src = AddressOf(h) <=> SrcCell(p) = C!Clear(h)
  BY <1>2, <1>3, <1>4, <1>5, CellShown
<1>7. dst = AddressOf(h) <=> DstCell(p) = C!Clear(h)
  BY <1>2, <1>3, <1>4, <1>5, CellShown
<1>. QED
  BY <1>6, <1>7 DEF src, dst

LEMMA NoAddressShown ==
  ASSUME NEW p \in Prints, Mistaken(p), NEW h \in Hosts
  PROVE  /\ ShownIp(p).ip_src = AddressOf(h) <=> SrcCell(p) = C!Clear(h)
         /\ ShownIp(p).ip_dst = AddressOf(h) <=> DstCell(p) = C!Clear(h)
<1>. DEFINE src == ShownIp(p).ip_src
            dst == ShownIp(p).ip_dst
<1>1. p.gre = TRUE /\ Len(p.bytes) = PacketSize /\ p.bytes[22] # 10 /\ p.bytes[26] # 10
  BY DEF Mistaken
<1>2. SrcCell(p) # C!Clear(h) /\ DstCell(p) # C!Clear(h)
  <2>1. SrcCell(p) = p.cells[2] /\ DstCell(p) = p.cells[3]
    BY <1>1 DEF SrcCell, DstCell, C!SrcAt, C!DstAt
  <2>. QED
    BY <2>1 DEF Mistaken
<1>3. \A j \in 1..4 : Bytes32(src)[j] = p.bytes[18 + j] /\ Bytes32(dst)[j] = p.bytes[22 + j]
  <2>1. p.bytes \in Seq(Byte) /\ TRUE \in BOOLEAN
    BY DEF Prints
  <2>2. Len(p.bytes) >= At(TRUE) + 8
    BY <1>1, SizesAre DEF At
  <2>3. \A j \in 1..4 : Bytes32(src)[j] = p.bytes[At(TRUE) + j] /\ Bytes32(dst)[j] = p.bytes[(At(TRUE) + 4) + j]
    BY <1>1, <2>1, <2>2, ShownAddresses
  <2>4. At(TRUE) = 18 /\ At(TRUE) + 4 = 22
    BY DEF At
  <2>. QED
    BY <2>3, <2>4
<1>. HIDE DEF src, dst
<1>4. Bytes32(src)[4] # 10 /\ Bytes32(dst)[4] # 10
  <2>1. 4 \in 1..4 /\ 18 + 4 = 22 /\ 22 + 4 = 26
    OBVIOUS
  <2>. QED
    BY <1>1, <1>3, <2>1
<1>5. src # AddressOf(h) /\ dst # AddressOf(h)
  BY <1>4, LastByte
<1>. QED
  BY <1>2, <1>5 DEF src, dst

LEMMA RealAddresses ==
  ASSUME WireInv
  PROVE  AddressesAreReal
<1>. SUFFICES ASSUME NEW n \in DOMAIN prints, NEW h \in Hosts
              PROVE  /\ ShownIp(prints[n]).ip_src = AddressOf(h) <=> SrcCell(prints[n]) = C!Clear(h)
                     /\ ShownIp(prints[n]).ip_dst = AddressOf(h) <=> DstCell(prints[n]) = C!Clear(h)
  BY DEF AddressesAreReal
<1>. DEFINE p == prints[n]
<1>1. p \in Prints /\ (FullPrint(p, HasGre(n)) \/ Mistaken(p)) /\ HasGre(n) \in BOOLEAN
  BY LongEnough DEF HasGre
<1>. HIDE DEF p
<1>2. CASE FullPrint(p, HasGre(n))
  BY <1>1, <1>2, AddressesShown DEF p
<1>3. CASE Mistaken(p)
  BY <1>1, <1>3, NoAddressShown DEF p
<1>. QED
  BY <1>1, <1>2, <1>3

\* Where the payload starts, in bytes and in cells.
LEMMA PayloadStarts ==
  ASSUME NEW p, NEW gre \in BOOLEAN, p.gre = gre, NEW i \in Nat
  PROVE  /\ IpOffset(p) + IpSize + TcpSize + i = (At(gre) + 28) + i
         /\ (IF p.gre THEN C!PayloadAt ELSE C!PayloadAt - 1) - 1 + i = (Before(gre) + 3) + i
<1>1. CASE gre = TRUE
  <2>1. At(gre) = 18 /\ Before(gre) = 1 /\ p.gre = TRUE
    BY <1>1 DEF At, Before
  <2>2. IpOffset(p) = 6
    BY <2>1 DEF IpOffset, GreSize
  <2>. QED
    BY <2>1, <2>2 DEF IpSize, TcpSize, C!PayloadAt
<1>2. CASE gre = FALSE
  <2>1. At(gre) = 12 /\ Before(gre) = 0 /\ p.gre = FALSE
    BY <1>2 DEF At, Before
  <2>2. IpOffset(p) = 0
    BY <2>1 DEF IpOffset
  <2>. QED
    BY <2>1, <2>2 DEF IpSize, TcpSize, C!PayloadAt
<1>. QED
  BY <1>1, <1>2

TextShown(p) ==
  \A i \in 1..MaxPayloadBytes :
    p.bytes[IpOffset(p) + IpSize + TcpSize + i]
      = ByteOf(p.cells[(IF p.gre THEN C!PayloadAt ELSE C!PayloadAt - 1) - 1 + i], i)

LEMMA TextPrinted ==
  ASSUME NEW p \in Prints, NEW gre \in BOOLEAN, FullPrint(p, gre)
  PROVE  TextShown(p)
<1>. SUFFICES ASSUME NEW i \in 1..MaxPayloadBytes
              PROVE  p.bytes[IpOffset(p) + IpSize + TcpSize + i]
                       = ByteOf(p.cells[(IF p.gre THEN C!PayloadAt ELSE C!PayloadAt - 1) - 1 + i], i)
  BY DEF TextShown
<1>1. Exact(p.bytes, p.cells, gre, MaxPayloadBytes) /\ p.gre = gre
  BY PrintedIs
<1>2. p.bytes[(At(gre) + 28) + i] = ByteOf(p.cells[(Before(gre) + 3) + i], i)
  BY <1>1 DEF Exact
<1>3. i \in Nat
  OBVIOUS
<1>4. /\ IpOffset(p) + IpSize + TcpSize + i = (At(gre) + 28) + i
      /\ (IF p.gre THEN C!PayloadAt ELSE C!PayloadAt - 1) - 1 + i = (Before(gre) + 3) + i
  BY <1>1, <1>3, PayloadStarts
<1>. QED
  BY <1>2, <1>4

LEMMA RealText ==
  ASSUME WireInv
  PROVE  TextIsReal
<1>1. ASSUME leg # "not encrypted", NEW n \in DOMAIN prints
      PROVE  TextShown(prints[n])
  <2>. DEFINE p == prints[n]
              gre == HasGre(n)
  <2>1. p \in Prints /\ FullPrint(p, gre) /\ gre \in BOOLEAN
    BY <1>1, LongEnough DEF HasGre
  <2>. HIDE DEF p, gre
  <2>2. TextShown(p)
    BY <2>1, TextPrinted
  <2>. QED
    BY <2>2 DEF p
<1>. QED
  BY <1>1 DEF TextIsReal, TextShown

LEMMA SurvivingAddresses ==
  ASSUME WireInv
  PROVE  AnyAddressSurvives
<1>. SUFFICES ASSUME NEW n \in DOMAIN prints,
                     NEW a \in {ShownIp(prints[n]).ip_src, ShownIp(prints[n]).ip_dst}
              PROVE  Len(ParseIpAddrToStr(a)) + 1 <= AddressSize /\ ThroughText(a) = a
  BY DEF AnyAddressSurvives
<1>. DEFINE p == prints[n]
<1>1. p \in Prints /\ (FullPrint(p, HasGre(n)) \/ Mistaken(p)) /\ HasGre(n) \in BOOLEAN
  BY LongEnough DEF HasGre
<1>. HIDE DEF p
<1>2. p.bytes \in Seq(Byte) /\ p.gre \in BOOLEAN
  BY <1>1 DEF Prints
<1>3. MaxPayloadBytes \in Nat /\ At(p.gre) \in Nat /\ PacketSize = 46 + MaxPayloadBytes
  BY <1>2, SizesAre, AtIs
<1>4. Len(p.bytes) >= At(p.gre) + 8
  <2>1. CASE FullPrint(p, HasGre(n))
    <3>1. p.gre = HasGre(n) /\ Len(p.bytes) = (At(HasGre(n)) + 28) + MaxPayloadBytes
      BY <1>1, <2>1, PrintedIs
    <3>. QED
      BY <1>3, <3>1
  <2>2. CASE Mistaken(p)
    <3>1. p.gre = TRUE /\ Len(p.bytes) = PacketSize
      BY <2>2 DEF Mistaken
    <3>2. At(p.gre) = 18
      BY <3>1 DEF At
    <3>. QED
      BY <1>3, <3>1, <3>2
  <2>. QED
    BY <1>1, <2>1, <2>2
<1>5. ShownIp(p).ip_src \in Word \X Word /\ ShownIp(p).ip_dst \in Word \X Word
  <2>. DEFINE gre == p.gre
  <2>1. gre \in BOOLEAN /\ p.gre = gre /\ Len(p.bytes) >= At(gre) + 8
    BY <1>2, <1>4
  <2>. HIDE DEF gre
  <2>. QED
    BY <1>2, <2>1, ShownAddresses
<1>6. a \in Word \X Word
  BY <1>5 DEF p
<1>. QED
  BY <1>6, SameThroughText

-----------------------------------------------------------------------------
(* The theorems *)

\* For every payload size, pair of messages, client, server and cut by recv: the four
\* bytes that are printed as an address are a host's exactly when the cell there is
\* that host in clear (packet.c:232-351, server.c:149).
THEOREM AddressesShownAreReal == WireSpec => []AddressesAreReal
<1>1. WireInv => AddressesAreReal
  BY RealAddresses
<1>. QED
  BY <1>1, WireInvariant, PTL

\* The same of the payload: byte by byte, what a program prints of a text is what its
\* cells stand for under the key (encrypt.c:22-26, packet.c:144-154, 240-251).
THEOREM TextShownIsReal == WireSpec => []TextIsReal
<1>1. WireInv => TextIsReal
  BY RealText
<1>. QED
  BY <1>1, WireInvariant, PTL

\* A line that is cut by fgets to five characters is in no table, so that a name that
\* is found is the whole line; and its address is what the server dials
\* (client.c:69-77, packet.c:73-74, server.c:149-151).
THEOREM NamesAreWhole == WireSpec => []OnlyWholeNames
<1>1. WireInv => OnlyWholeNames
  BY WholeNames DEF WireInv
<1>. QED
  BY <1>1, WireInvariant, PTL

\* Any 32 bits that are printed as an address fit their buffer and are the same bits
\* when they are parsed again, also when they are encrypted or were never an address
\* (packet.c:394-397, server.c:147-149, destination.c:103-104).
THEOREM AddressesSurvive == WireSpec => []AnyAddressSurvives
<1>1. WireInv => AnyAddressSurvives
  BY SurvivingAddresses
<1>. QED
  BY <1>1, WireInvariant, PTL

\* Between two programs in a row no other field changes than the address and the
\* checksum that the server rewrites (packet.c:158-230, 279-351).
THEOREM FieldsArrive == WireSpec => []FieldsSurvive
<1>1. WireInv => FieldsSurvive
  BY SameAsFields DEF WireInv
<1>. QED
  BY <1>1, WireInvariant, PTL
=============================================================================
