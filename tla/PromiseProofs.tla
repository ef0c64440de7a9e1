--------------------------- MODULE PromiseProofs ---------------------------
(***************************************************************************)
(* What the VPN promises, drawn from the stories: the client's address     *)
(* stays behind its server, nobody prints a character the other end did    *)
(* not write, a client that is shown an answer is shown the answer to its  *)
(* question, the three programs implement the abstract relay, and, while   *)
(* nothing fails, no program that was accepted crashes.                    *)
(***************************************************************************)
EXTENDS StoryProofs

-----------------------------------------------------------------------------
(* Texts in packets *)

LEMMA PrefixIs ==
  ASSUME NEW t \in Seq(Cell), NEW n \in 0..Len(t)
  PROVE  /\ SubSeq(t, 1, n) = [j \in 1..n |-> t[j]]
         /\ SubSeq(t, 1, n) \in Seq(Cell) /\ Len(SubSeq(t, 1, n)) = n
         /\ IsPrefix([j \in 1..n |-> t[j]], t)
<1>. DEFINE u == SubSeq(t, 1, n)
<1>1. n \in Nat /\ Len(t) \in Nat /\ n <= Len(t)
  OBVIOUS
<1>2. u = [j \in 1..n |-> t[j]] /\ u \in Seq(Cell) /\ Len(u) = n
  BY <1>1
<1>3. SubSeq(u, 1, n) = u
  BY <1>1, <1>2, SubSeqFull
<1>4. Len(u) <= Len(t) /\ SubSeq(u, 1, Len(u)) = SubSeq(t, 1, Len(u))
  BY <1>1, <1>2, <1>3
<1>. QED
  BY <1>2, <1>4 DEF IsPrefix

LEMMA PrefixOfPrefix ==
  ASSUME NEW t \in Seq(Cell), NEW n \in 0..Len(t), NEW v, IsPrefix(v, SubSeq(t, 1, n))
  PROVE  IsPrefix(v, t)
<1>. DEFINE u == SubSeq(t, 1, n)
<1>1. /\ u \in Seq(Cell) /\ Len(u) = n /\ u = [j \in 1..n |-> t[j]]
      /\ n \in Nat /\ n <= Len(t) /\ Len(t) \in Nat
  BY PrefixIs
<1>. HIDE DEF u
<1>2. Len(v) <= n /\ SubSeq(v, 1, Len(v)) = SubSeq(u, 1, Len(v))
  BY <1>1 DEF IsPrefix, u
<1>. DEFINE m == Len(v)
<1>. HIDE DEF m
<1>3. m \in Int /\ m <= n /\ SubSeq(v, 1, m) = SubSeq(u, 1, m)
  BY <1>2 DEF m
<1>4. SubSeq(u, 1, m) = SubSeq(t, 1, m)
  <2>1. \A j \in 1..m : u[j] = t[j]
    BY <1>1, <1>3
  <2>2. SubSeq(u, 1, m) = [j \in 1..m |-> u[j]] /\ SubSeq(t, 1, m) = [j \in 1..m |-> t[j]]
    BY <1>1, <1>3
  <2>. QED
    BY <2>1, <2>2
<1>. QED
  BY <1>1, <1>3, <1>4 DEF IsPrefix, m

LEMMA TextStart ==
  ASSUME NEW t, IsText(t), NEW n \in 0..Len(t)
  PROVE  /\ IsText(SubSeq(t, 1, n)) /\ Len(SubSeq(t, 1, n)) = n
         /\ \A j \in 1..n : SubSeq(t, 1, n)[j] = t[j]
<1>. DEFINE u == SubSeq(t, 1, n)
<1>1. t \in Seq(Cell) /\ Len(t) \in Nat /\ Len(t) <= MaxPayload /\ MaxPayload \in Nat
  BY KeptFacts, PacketSizes
<1>2. /\ u = [j \in 1..n |-> t[j]] /\ u \in Seq(Cell) /\ Len(u) = n
      /\ 1..n \subseteq 1..Len(t)
  BY <1>1, PrefixIs
<1>3. \A j \in 1..n : u[j] = t[j]
  BY <1>2
<1>. HIDE DEF u
<1>4. IsText(u)
  BY <1>1, <1>2, <1>3 DEF IsText, AllPlain
<1>. QED
  BY <1>2, <1>3, <1>4 DEF u

\* A payload that starts with the first n characters of a text, and ends there, reads so.
LEMMA TextIs ==
  ASSUME NEW b \in Seq(Cell), NEW at \in 1..(Len(b) + 1), NEW t, IsText(t), NEW n \in 0..Len(t),
         at + n <= Len(b) + 1, \A j \in 1..n : b[at + j - 1] = t[j],
         at + n <= Len(b) => b[at + n] = Nul
  PROVE  TextOf(b, at) = [j \in 1..n |-> t[j]] /\ IsPrefix(TextOf(b, at), t)
<1>1. /\ Len(b) \in Nat /\ at \in Nat /\ n \in Nat /\ at + n \in at..(Len(b) + 1)
      /\ t \in Seq(Cell) /\ Len(t) \in Nat
  BY KeptFacts
<1>2. \A i \in at..(at + n - 1) : b[i] # Nul
  <2>1. SUFFICES ASSUME NEW i \in at..(at + n - 1) PROVE b[i] # Nul
    OBVIOUS
  <2>2. i - at + 1 \in 1..n /\ at + (i - at + 1) - 1 = i /\ i - at + 1 \in 1..Len(t)
    BY <1>1
  <2>. QED
    BY <2>2, KeptFacts
<1>. DEFINE e == at + n
<1>. HIDE DEF e
<1>3. TextEnd(b, at) = e
  <2>1. e \in at..(Len(b) + 1) /\ (e <= Len(b) => b[e] = Nul) /\ \A i \in at..(e - 1) : b[i] # Nul
    BY <1>1, <1>2 DEF e
  <2>. QED
    BY <1>1, <2>1, TextEndIs
<1>4. SubSeq(b, at, at + n - 1) = [j \in 1..n |-> b[at + j - 1]]
  BY <1>1
<1>5. TextOf(b, at) = [j \in 1..n |-> t[j]]
  BY <1>3, <1>4 DEF TextOf, e
<1>. QED
  BY <1>1, <1>5, PrefixIs

\* And the other way round.
LEMMA TextReads ==
  ASSUME NEW b \in Seq(Cell), NEW at \in 1..(Len(b) + 1), NEW t, IsText(t),
         IsPrefix(TextOf(b, at), t)
  PROVE  \E n \in 0..Len(t) :
           /\ at + n <= Len(b) + 1 /\ \A j \in 1..n : b[at + j - 1] = t[j]
           /\ at + n <= Len(b) => b[at + n] = Nul
<1>. DEFINE e == TextEnd(b, at)
            n == e - at
            x == TextOf(b, at)
<1>1. /\ Len(b) \in Nat /\ at \in Nat /\ e \in at..(Len(b) + 1) /\ (e <= Len(b) => b[e] = Nul)
      /\ t \in Seq(Cell) /\ Len(t) \in Nat
  BY KeptFacts, TextEndProperties
<1>. HIDE DEF e
<1>2. n \in Nat /\ at + n = e /\ x = SubSeq(b, at, at + n - 1)
  BY <1>1 DEF TextOf, e
<1>. HIDE DEF n, x
<1>3. x \in Seq(Cell) /\ Len(x) = n /\ \A j \in 1..n : x[j] = b[at + j - 1]
  BY <1>1, <1>2
<1>4. n <= Len(t) /\ SubSeq(x, 1, n) = SubSeq(t, 1, n)
  BY <1>3 DEF IsPrefix, x
<1>5. \A j \in 1..n : SubSeq(x, 1, n)[j] = x[j] /\ SubSeq(t, 1, n)[j] = t[j]
  BY <1>1, <1>2, <1>3, <1>4
<1>6. \A j \in 1..n : b[at + j - 1] = t[j]
  BY <1>3, <1>4, <1>5
<1>7. n \in 0..Len(t) /\ at + n <= Len(b) + 1 /\ (at + n <= Len(b) => b[at + n] = Nul)
  BY <1>1, <1>2, <1>4
<1>. QED
  BY <1>6, <1>7

-----------------------------------------------------------------------------
(* From hop to hop *)

LEMMA EmptyBufferFacts ==
  ASSUME NEW n \in Nat
  PROVE  EmptyBuffer(n) \in [1..n -> Cell] /\ \A i \in 1..n : EmptyBuffer(n)[i] = Nul
<1>1. EmptyBuffer(n) = [i \in 1..n |-> IF i <= 0 THEN <<>>[i] ELSE Nul]
  BY DEF EmptyBuffer, Received
<1>2. \A i \in 1..n : (IF i <= 0 THEN <<>>[i] ELSE Nul) = Nul
  OBVIOUS
<1>3. EmptyBuffer(n) = [i \in 1..n |-> Nul]
  BY <1>1, <1>2, Zenon
<1>. QED
  BY <1>3, CellFacts

\* What is printed of an encrypted text is its beginning; some of it only if the
\* whole header has arrived.
LEMMA ShownText ==
  ASSUME NEW bytes \in Seq(Cell), Len(bytes) <= PacketLen, NEW t, IsText(t),
         CarriesText(bytes, t), NEW raw \in Arrivals(bytes, PacketLen)
  PROVE  /\ IsPrefix(TextOf(Decrypt(raw), PayloadAt), t)
         /\ TextOf(Decrypt(raw), PayloadAt) # <<>> =>
              t # <<>> /\ \E k \in 0..Len(bytes) :
                            k > HeaderLen /\ raw = Received(bytes, k, PacketLen)
<1>1. PICK k \in 0..Len(bytes) : raw = Received(bytes, k, PacketLen)
  BY DEF Arrivals
<1>2. t \in Seq(Cell) /\ Len(t) \in Nat /\ Kept(t) \in Nat /\ Kept(t) <= Len(t)
  BY KeptFacts
<1>3. PICK b \in 0..Len(t) : /\ \A j \in 1..b : t[j] # Masked("zero")
                             /\ b < Len(t) => t[b + 1] = Masked("zero")
  BY <1>2, FirstKeyByte
<1>. DEFINE n == AtMost(b, Arrived(t, k))
<1>4. TextOf(Decrypt(raw), PayloadAt) = [j \in 1..n |-> t[j]]
  BY <1>1, <1>3, ReceivedPart
<1>5. n \in 0..Len(t) /\ (k <= HeaderLen => n = 0)
  BY <1>2, PacketSizes DEF AtMost, Arrived
<1>. HIDE DEF n
<1>6. n = 0 => [j \in 1..n |-> t[j]] = <<>>
  OBVIOUS
<1>7. t = <<>> => n = 0
  BY <1>5
<1>8. k \in Nat /\ HeaderLen \in Nat
  BY PacketSizes
<1>9. n # 0 => t # <<>> /\ k > HeaderLen
  BY <1>5, <1>7, <1>8
<1>. QED
  BY <1>1, <1>2, <1>4, <1>5, <1>6, <1>9, PrefixIs

\* A client or a server that was told nothing prints no text.
LEMMA NothingShown == TextOf(Decrypt(EmptyBuffer(PacketLen)), PayloadAt) = <<>>
<1>. DEFINE r == EmptyBuffer(PacketLen)
            d == Decrypt(r)
<1>1. r \in Packets /\ \A i \in 1..PacketLen : r[i] = Nul
  BY EmptyBufferFacts, PacketSizes DEF Packets
<1>. HIDE DEF r
<1>2. r \in Seq(Cell) /\ Len(r) = PacketLen /\ PayloadAt \in 1..PacketLen /\ PayloadAt = 5
  BY <1>1, PacketsAreSeqs, PacketSizes
<1>3. TextEnd(r, PayloadAt) = PayloadAt
  BY <1>1, <1>2, PacketSizes, TextEndIs
<1>4. AtMost(PayloadAt, PacketLen) = PayloadAt
  BY <1>2, PacketSizes DEF AtMost
<1>5. d = [Xor(r) EXCEPT ![PayloadAt] = Nul] /\ DOMAIN Xor(r) = 1..PacketLen
  BY <1>1, <1>3, <1>4 DEF Decrypt, Xor, Packets
<1>6. d[PayloadAt] = Nul /\ d \in Seq(Cell) /\ Len(d) = PacketLen
  BY <1>1, <1>2, <1>5, DecryptFacts, PacketsAreSeqs
<1>. HIDE DEF d
<1>7. TextEnd(d, PayloadAt) = PayloadAt
  BY <1>2, <1>6, PacketSizes, TextEndIs
<1>8. SubSeq(d, 5, 4) = <<>>
  BY <1>6
<1>. QED
  BY <1>2, <1>7, <1>8 DEF TextOf, d, r

\* What a destination reads of a packet that a server has sent on is the beginning
\* of what the server has read.
LEMMA ForwardedText ==
  ASSUME NEW got \in Packets, NEW h \in Hosts, NEW t, IsText(t),
         IsPrefix(TextOf(got, PayloadAt), t),
         NEW x \in Arrivals(ServHandlePkt(got, h), PacketLen - 1)
  PROVE  IsPrefix(TextOf(x, PayloadAt - 1), t)
<1>. DEFINE sent == ServHandlePkt(got, h)
<1>1. /\ got \in Seq(Cell) /\ Len(got) = PacketLen /\ PayloadAt \in 1..(Len(got) + 1)
      /\ PacketLen - 1 \in Nat /\ PacketLen \in Nat /\ PayloadAt = 5 /\ PacketLen >= 5
      /\ t \in Seq(Cell) /\ Len(t) \in Nat
  BY PacketsAreSeqs, PacketSizes, KeptFacts
<1>2. sent \in BarePackets /\ sent \in Seq(Cell) /\ Len(sent) = PacketLen - 1
  BY ServHandlePktFacts, PacketsAreSeqs
<1>3. \A i \in 4..(PacketLen - 1) : sent[i] = got[i + 1]
  <2>1. \A i \in 4..(PacketLen - 1) : i \in (1..(PacketLen - 1)) \ {SrcAt - 1}
    BY <1>1, PacketSizes
  <2>. QED
    BY <2>1, ServHandlePktCells
<1>. HIDE DEF sent
<1>4. PICK k \in 0..Len(sent) : x = Received(sent, k, PacketLen - 1)
  BY DEF Arrivals, sent
<1>5. /\ x \in Seq(Cell) /\ Len(x) = PacketLen - 1
      /\ \A i \in 1..(PacketLen - 1) : x[i] = IF i <= k THEN sent[i] ELSE Nul
  <2>1. x \in [1..(PacketLen - 1) -> Cell]
    BY <1>1, <1>2, <1>4, ReceivedFacts
  <2>2. \A i \in 1..(PacketLen - 1) : x[i] = IF i <= k THEN sent[i] ELSE Nul
    BY <1>4 DEF Received
  <2>. QED
    BY <1>1, <2>1, <2>2, PacketIsSeq
<1>6. PICK m \in 0..Len(t) :
             /\ 5 + m <= PacketLen + 1 /\ \A j \in 1..m : got[5 + j - 1] = t[j]
             /\ 5 + m <= PacketLen => got[5 + m] = Nul
  <2>1. \E m \in 0..Len(t) :
             /\ PayloadAt + m <= Len(got) + 1 /\ \A j \in 1..m : got[PayloadAt + j - 1] = t[j]
             /\ PayloadAt + m <= Len(got) => got[PayloadAt + m] = Nul
    BY <1>1, TextReads
  <2>. QED
    BY <1>1, <2>1
<1>. DEFINE n == IF k < 3 THEN 0 ELSE IF k - 3 < m THEN k - 3 ELSE m
<1>7. /\ k <= PacketLen - 1 /\ n \in 0..Len(t) /\ n <= m /\ 4 + n <= PacketLen /\ n \in Nat /\ k \in Nat
      /\ n > 0 => 3 + n <= k /\ (n < m => k = 3 + n)
      /\ n = m \/ ~(4 + n <= k)
  BY <1>1, <1>2, <1>6
<1>. HIDE DEF n
<1>8. \A j \in 1..n : x[4 + j - 1] = t[j]
  <2>1. SUFFICES ASSUME NEW j \in 1..n PROVE x[4 + j - 1] = t[j]
    OBVIOUS
  <2>2. /\ 3 + j \in 4..(PacketLen - 1) /\ 3 + j \in 1..(PacketLen - 1) /\ 3 + j <= k
        /\ j \in 1..m /\ (3 + j) + 1 = 5 + j - 1 /\ 4 + j - 1 = 3 + j
    <3>1. j \in Nat /\ j >= 1 /\ j <= n /\ m \in Nat /\ PacketLen \in Nat
      BY <1>1, <1>7
    <3>2. n <= m /\ 4 + n <= PacketLen /\ n \in Nat /\ k \in Nat /\ 3 + n <= k
      BY <1>7, <3>1
    <3>. QED
      BY <3>1, <3>2
  <2>3. x[3 + j] = sent[3 + j] /\ sent[3 + j] = got[(3 + j) + 1]
    BY <1>3, <1>5, <2>2
  <2>4. got[5 + j - 1] = t[j]
    BY <1>6, <2>2
  <2>. QED
    BY <2>2, <2>3, <2>4
<1>9. 4 + n <= PacketLen - 1 => x[4 + n] = Nul
  <2>1. SUFFICES ASSUME 4 + n <= PacketLen - 1 PROVE x[4 + n] = Nul
    OBVIOUS
  <2>2. /\ 4 + n \in 4..(PacketLen - 1) /\ 4 + n \in 1..(PacketLen - 1)
        /\ (4 + n) + 1 = 5 + n /\ 5 + n <= PacketLen
    BY <1>1, <1>7, <2>1
  <2>3. CASE ~(4 + n <= k)
    BY <1>5, <2>2, <2>3
  <2>4. CASE n = m
    BY <1>3, <1>5, <1>6, <2>2, <2>4
  <2>. QED
    BY <1>7, <2>3, <2>4
<1>10. 4 \in 1..(Len(x) + 1) /\ 4 + n <= Len(x) + 1 /\ PayloadAt - 1 = 4
  BY <1>1, <1>5, <1>7
<1>. QED
  BY <1>5, <1>7, <1>8, <1>9, <1>10, TextIs

\* A packet that holds a text reads as that text.
LEMMA HeldText ==
  ASSUME NEW p \in Packets, NEW t, IsText(t), Len(t) < MaxPayload, HoldsText(p, t)
  PROVE  IsPrefix(TextOf(p, PayloadAt), t)
<1>. DEFINE n == Len(t)
<1>1. /\ p \in Seq(Cell) /\ Len(p) = PacketLen /\ n \in Nat /\ n < MaxPayload
      /\ Kept(t) = n
  BY PacketsAreSeqs, KeptFacts
<1>. HIDE DEF n
<1>2. \A i \in PayloadAt..PacketLen : p[i] = IF i - HeaderLen <= n THEN t[i - HeaderLen] ELSE Nul
  BY <1>1 DEF HoldsText
<1>3. \A j \in 1..n : p[PayloadAt + j - 1] = t[j]
  <2>1. SUFFICES ASSUME NEW j \in 1..n PROVE p[PayloadAt + j - 1] = t[j]
    OBVIOUS
  <2>2. /\ PayloadAt + j - 1 \in PayloadAt..PacketLen
        /\ (PayloadAt + j - 1) - HeaderLen = j /\ j <= n
    BY <1>1, PacketSizes
  <2>. QED
    BY <1>2, <2>2
<1>4. p[PayloadAt + n] = Nul
  <2>1. PayloadAt + n \in PayloadAt..PacketLen /\ ~((PayloadAt + n) - HeaderLen <= n)
    BY <1>1, PacketSizes
  <2>. QED
    BY <1>2, <2>1
<1>5. /\ PayloadAt \in 1..(Len(p) + 1) /\ n \in 0..Len(t)
      /\ PayloadAt + n <= Len(p) + 1
  BY <1>1, PacketSizes DEF n
<1>. QED
  BY <1>1, <1>3, <1>4, <1>5, TextIs

\* What a server holds of an answer, however little has arrived of it, is its
\* beginning; of the characters, none without the address of who wrote them.
LEMMA ReplyHeld ==
  ASSUME NEW p \in Packets, NEW t, IsText(t), Len(t) < MaxPayload, HoldsText(p, t),
         NEW ip \in Cell, NEW bare \in Arrivals(ReplyBytes(Decapsulate(p), t), PacketLen - 1)
  PROVE  /\ bare \in BarePackets
         /\ \E n \in 0..Len(t) :
              /\ HoldsText(ServHandlePktDest(Encapsulate(bare), ip), SubSeq(t, 1, n))
              /\ n > 0 => ServHandlePktDest(Encapsulate(bare), ip)[SrcAt] = p[SrcAt]
<1>. DEFINE whole == Decapsulate(p)
            sent == ReplyBytes(whole, t)
            q == ServHandlePktDest(Encapsulate(bare), ip)
            l == Len(t)
<1>1. /\ t \in Seq(Cell) /\ l \in Nat /\ l < MaxPayload /\ Kept(t) = l
      /\ MaxPayload \in Nat /\ PacketLen = MaxPayload + 4 /\ PacketLen - 1 \in Nat
  BY KeptFacts, PacketSizes
<1>2. /\ whole \in BarePackets /\ whole \in Seq(Cell) /\ Len(whole) = PacketLen - 1
      /\ \A i \in 1..(PacketLen - 1) : whole[i] = p[i + 1]
  BY DecapsulateFacts, PacketsAreSeqs
<1>. HIDE DEF whole, l
<1>3. GetPacketSize(Len(t)) = l + 4 /\ l + 4 \in 0..Len(whole)
  BY <1>1, <1>2, SizeExact DEF l
<1>4. /\ sent \in Seq(Cell) /\ Len(sent) = l + 4
      /\ \A i \in 1..(l + 4) : sent[i] = whole[i]
  BY <1>2, <1>3, PrefixFacts DEF ReplyBytes
<1>. HIDE DEF sent
<1>5. PICK k \in 0..(l + 4) : bare = Received(sent, k, PacketLen - 1)
  BY <1>4 DEF Arrivals, sent, whole
<1>6. /\ bare \in BarePackets
      /\ \A i \in 1..(PacketLen - 1) : bare[i] = IF i <= k THEN sent[i] ELSE Nul
  BY <1>1, <1>4, <1>5, ReceivedFacts DEF Received, BarePackets
<1>7. \A i \in (2..PacketLen) \ {DstAt} : q[i] = bare[i - 1]
  BY <1>6, ReaddressedCells
<1>. HIDE DEF q
<1>8. \A i \in (2..PacketLen) \ {DstAt} : q[i] = IF i - 1 <= k THEN p[i] ELSE Nul
  <2>1. SUFFICES ASSUME NEW i \in (2..PacketLen) \ {DstAt}
                 PROVE  q[i] = IF i - 1 <= k THEN p[i] ELSE Nul
    OBVIOUS
  <2>2. /\ i - 1 \in 1..(PacketLen - 1) /\ (i - 1) + 1 = i
        /\ i - 1 <= k => i - 1 \in 1..(l + 4)
    BY <1>1
  <2>. QED
    BY <1>2, <1>4, <1>6, <1>7, <2>2
<1>. DEFINE n == IF k < 3 THEN 0 ELSE AtMost(l, k - 3)
<1>9. n \in Nat /\ n <= l /\ n < MaxPayload /\ (n > 0 => k >= 4)
  BY <1>1 DEF AtMost
<1>10. n \in 0..Len(t)
  BY <1>1, <1>9 DEF l
<1>. DEFINE u == SubSeq(t, 1, n)
<1>11. IsText(u) /\ Len(u) = n /\ \A j \in 1..n : u[j] = t[j]
  BY <1>10, TextStart
<1>12. Kept(u) = n
  <2>1. MaxPayload - 1 \in Nat /\ ~(n > MaxPayload - 1)
    BY <1>1, <1>9
  <2>. HIDE DEF n, u
  <2>. QED
    BY <1>11, <2>1 DEF Kept, AtMost
<1>13. HoldsText(q, u)
  <2>1. SUFFICES ASSUME NEW i \in PayloadAt..PacketLen
                 PROVE  q[i] = IF i - HeaderLen <= n THEN u[i - HeaderLen] ELSE Nul
    BY <1>12 DEF HoldsText
  <2>2. /\ i \in (2..PacketLen) \ {DstAt} /\ i \in Nat /\ i >= 5
        /\ HeaderLen = 4 /\ i - 4 \in Nat /\ i - 4 >= 1
    BY PacketSizes
  <2>3. p[i] = IF i - 4 <= l THEN t[i - 4] ELSE Nul
    BY <1>1, <2>2 DEF HoldsText
  <2>4. (i - 4 <= n) <=> (i - 1 <= k /\ i - 4 <= l)
    BY <1>1, <2>2 DEF AtMost
  <2>5. i - 4 <= n => i - 4 \in 1..n
    BY <1>9, <2>2
  <2>. HIDE DEF n, u
  <2>6. CASE i - 4 <= n
    BY <1>8, <1>11, <2>2, <2>3, <2>4, <2>5, <2>6
  <2>7. CASE ~(i - 4 <= n)
    BY <1>8, <2>2, <2>3, <2>4, <2>7
  <2>. QED
    BY <2>6, <2>7
<1>14. n > 0 => q[SrcAt] = p[SrcAt]
  <2>1. SrcAt \in (2..PacketLen) \ {DstAt} /\ SrcAt = 2
    BY PacketSizes
  <2>. QED
    BY <1>8, <1>9, <2>1
<1>. HIDE DEF n
<1>. QED
  BY <1>6, <1>10, <1>13, <1>14 DEF q

LEMMA NothingHeld ==
  ASSUME NEW t, IsText(t), NEW ip \in Cell
  PROVE  HoldsText(ServHandlePktDest(Encapsulate(EmptyBuffer(PacketLen - 1)), ip), SubSeq(t, 1, 0))
<1>. DEFINE bare == EmptyBuffer(PacketLen - 1)
            q == ServHandlePktDest(Encapsulate(bare), ip)
            u == SubSeq(t, 1, 0)
<1>1. bare \in BarePackets /\ \A i \in 1..(PacketLen - 1) : bare[i] = Nul
  BY EmptyBufferFacts, PacketsAreSeqs DEF BarePackets
<1>. HIDE DEF bare
<1>2. \A i \in (2..PacketLen) \ {DstAt} : q[i] = bare[i - 1]
  BY <1>1, ReaddressedCells
<1>. HIDE DEF q
<1>3. 0 \in 0..Len(t)
  BY KeptFacts
<1>4. Len(u) = 0
  BY <1>3, TextStart
<1>. HIDE DEF u
<1>5. Kept(u) = 0
  BY <1>4, PacketSizes DEF Kept, AtMost
<1>6. SUFFICES ASSUME NEW i \in PayloadAt..PacketLen
               PROVE  q[i] = IF i - HeaderLen <= 0 THEN u[i - HeaderLen] ELSE Nul
  BY <1>5 DEF HoldsText, q, u, bare
<1>7. /\ i \in (2..PacketLen) \ {DstAt} /\ i - 1 \in 1..(PacketLen - 1)
      /\ ~(i - HeaderLen <= 0)
  BY PacketSizes
<1>. QED
  BY <1>1, <1>2, <1>7

-----------------------------------------------------------------------------
(* What is on the screens *)

LEMMA CreatedHeader ==
  ASSUME NEW src \in Cell, NEW dst \in Cell, NEW flags \in Cell, NEW t, IsText(t)
  PROVE  \A i \in 1..HeaderLen : CreatePackets(src, dst, flags, t)[i]
                                = Flip(CreatePacketsDes(src, dst, flags, t)[i])
<1>. DEFINE p == CreatePacketsDes(src, dst, flags, t)
            at == PayloadAt + AtMost(Len(t), MaxPayload - 1)
<1>1. p \in [1..PacketLen -> Cell] /\ at > HeaderLen
  <2>1. Kept(t) \in Nat /\ at = PayloadAt + Kept(t)
    BY KeptFacts DEF Kept
  <2>2. at > HeaderLen
    BY <2>1, PacketSizes
  <2>. QED
    BY <2>2, CreatePacketsDesFacts DEF Packets
<1>2. CreatePackets(src, dst, flags, t) = [Xor(p) EXCEPT ![at] = Nul]
  BY DEF CreatePackets
<1>. HIDE DEF p, at
<1>3. Xor(p) = [i \in 1..PacketLen |-> Flip(p[i])]
  BY <1>1 DEF Xor
<1>4. \A i \in 1..HeaderLen : i \in 1..PacketLen /\ i # at
  BY <1>1, PacketSizes
<1>. QED
  BY <1>2, <1>3, <1>4 DEF p

\* A server finds in its client's packet the address of the destination only after
\* that of the client.
LEMMA QuestionHeader ==
  ASSUME IInv, Stages, Story, NEW s \in Servers, session[s] \in Clients, terminal[s] # <<>>
  PROVE  LET c == session[s]
             got == terminal[s][1]
         IN  /\ peer[c] = s
             /\ got[DstAt] \in {Clear(destHost[c]), Masked("zero")}
             /\ got[DstAt] = Clear(destHost[c]) => got[SrcAt] = Clear(HostOf[c])
<1>. DEFINE c == session[s]
            got == terminal[s][1]
            src == Clear(HostOf[c])
            dst == Clear(destHost[c])
            p == CreatePacketsDes(src, dst, Clear("syn"), Request)
            sent == Question(c)
<1>1. peer[c] = s /\ s # Nobody /\ c \in Clients /\ IsText(Request)
  BY KernelAssumption, ClientAssumption DEF IInv, Wiring
<1>2. HostOf[c] \in Hosts /\ destHost[c] \in Hosts /\ sent \in Seq(Cell)
  BY <1>1, QuestionFacts, KernelAssumption DEF Stages, ClientStage
<1>3. src \in Cell /\ dst \in Cell /\ Clear("syn") \in Cell
  BY <1>2, CellFacts
<1>4. p \in Packets /\ p[SrcAt] = src /\ p[DstAt] = dst
  BY <1>1, <1>3, CreatePacketsDesFacts
<1>5. RequestPacket(c) \in Packets /\ RequestPacket(c) = CreatePackets(src, dst, Clear("syn"), Request)
  BY <1>1, <1>2, <1>3, CellFacts, CreatePacketsFacts DEF RequestPacket
<1>6. /\ Len(sent) \in HeaderLen..PacketLen
      /\ \A i \in 1..HeaderLen : sent[i] = Flip(p[i])
  BY <1>1, <1>3, <1>5, HeaderOfRequest, CreatedHeader DEF Question
<1>7. PICK k \in 0..Len(sent) : got = Decrypt(Received(sent, k, PacketLen))
  BY <1>1 DEF Story, ServerStory, Arrivals
<1>8. SrcAt = 2 /\ DstAt = 3 /\ 2 \in 1..HeaderLen /\ 3 \in 1..HeaderLen
  BY PacketSizes
<1>. HIDE DEF sent, got, p, src, dst, c
<1>9. \A i \in {2, 3} : got[i] = IF i <= k THEN p[i] ELSE Masked("zero")
  <2>1. SUFFICES ASSUME NEW i \in {2, 3}
                 PROVE  got[i] = IF i <= k THEN p[i] ELSE Masked("zero")
    OBVIOUS
  <2>2. got[i] = IF i <= k THEN Flip(sent[i]) ELSE Masked("zero")
    BY <1>2, <1>7, <1>8, HeaderOfDecrypt
  <2>3. sent[i] = Flip(p[i]) /\ p[i] \in Cell
    BY <1>4, <1>6, <1>8, PacketSizes DEF Packets
  <2>4. Flip(Flip(p[i])) = p[i]
    BY <2>3, FlipTwice
  <2>. QED
    BY <2>2, <2>3, <2>4
<1>10. dst # Masked("zero") /\ k \in Nat
  BY DEF dst, Clear, Masked
<1>. QED
  BY <1>1, <1>4, <1>8, <1>9, <1>10 DEF got, c, src, dst

\* The text a server reads of its client's packet.
LEMMA QuestionText ==
  ASSUME IInv, Stages, Story, NEW s \in Servers, session[s] \in Clients, terminal[s] # <<>>
  PROVE  IsPrefix(TextOf(terminal[s][1], PayloadAt), Request)
<1>. DEFINE c == session[s]
            src == Clear(HostOf[c])
            dst == Clear(destHost[c])
<1>1. peer[c] = s /\ s # Nobody /\ c \in Clients /\ IsText(Request)
  BY KernelAssumption, ClientAssumption DEF IInv, Wiring
<1>2. HostOf[c] \in Hosts /\ destHost[c] \in Hosts /\ Question(c) \in Seq(Cell)
  BY <1>1, QuestionFacts, KernelAssumption DEF Stages, ClientStage
<1>3. src \in Cell /\ dst \in Cell /\ Clear("syn") \in Cell
  BY <1>2, CellFacts
<1>4. RequestPacket(c) \in Packets
  BY <1>1, <1>3, CellFacts, CreatePacketsFacts DEF RequestPacket
<1>5. Len(Question(c)) <= PacketLen
  BY <1>1, <1>4, HeaderOfRequest DEF Question
<1>6. CarriesText(Question(c), Request)
  BY <1>1, <1>3, RequestCarriesText DEF Question, RequestPacket
<1>7. PICK raw \in Arrivals(Question(c), PacketLen) : terminal[s][1] = Decrypt(raw)
  BY <1>1 DEF Story, ServerStory
<1>. QED
  BY <1>1, <1>2, <1>5, <1>6, <1>7, ShownText

\* What a destination has printed for a server.
LEMMA DestScreen ==
  ASSUME IInv, Stages, Story, NEW d \in Dests, session[d] \in Servers, terminal[d] # <<>>
  PROVE  LET s == session[d]
         IN  /\ peer[s] = d /\ session[s] \in Clients /\ terminal[s] # <<>>
             /\ terminal[s][1][DstAt] = Clear(HostOf[d])
             /\ terminal[d][1] \in Arrivals(Forwarded(s), PacketLen - 1)
             /\ terminal[d][1] \in BarePackets
             /\ terminal[d][2] = Response(d)
<1>. DEFINE s == session[d]
<1>1. peer[s] = d /\ d # Nobody /\ s \in Servers /\ s \in Hosts
  BY KernelAssumption DEF IInv, Wiring
<1>2. session[s] \in Clients /\ terminal[s] # <<>>
  BY <1>1 DEF IInv, Secrecy, ServesClients, Stages, ServerStage
<1>3. /\ terminal[d][1] \in Arrivals(Forwarded(s), PacketLen - 1)
      /\ terminal[d][2] = Response(d)
      /\ terminal[s][1][DstAt] = Clear(HostOf[d])
  BY <1>1 DEF Story, DialStory, DestStory
<1>4. Forwarded(s) \in Seq(Cell)
  BY <1>1, <1>2, ForwardedFacts
<1>5. terminal[d][1] \in BarePackets
  <2>1. PICK k \in 0..Len(Forwarded(s)) :
          terminal[d][1] = Received(Forwarded(s), k, PacketLen - 1)
    BY <1>3 DEF Arrivals
  <2>2. PacketLen - 1 \in Nat
    BY PacketSizes
  <2>. QED
    BY <1>4, <2>1, <2>2, ReceivedFacts DEF BarePackets
<1>. QED
  BY <1>1, <1>2, <1>3, <1>5

\* What a server has printed of an answer.
LEMMA ServerAnswer ==
  ASSUME IInv, Stages, Story, NEW s \in Servers, session[s] \in Clients, Len(terminal[s]) = 2
  PROVE  /\ terminal[s][1] \in Packets /\ terminal[s][2] \in Packets
         /\ terminal[s][2][DstAt] = terminal[s][1][SrcAt]
         /\ \E n \in 0..Len(Reply) :
              /\ HoldsText(terminal[s][2], SubSeq(Reply, 1, n))
              /\ n > 0 => /\ AnsweredBy(s, peer[s])
                          /\ terminal[s][2][SrcAt] = Clear(HostOf[peer[s]])
<1>. DEFINE d == peer[s]
            ip == SaveClientIp(terminal[s][1])
<1>1. IsText(Reply) /\ Len(Reply) < MaxPayload /\ Len(Reply) \in Nat
  BY DestinationAssumption, KeptFacts
<1>2. s \in Hosts /\ ProcTypeOK
  BY KernelAssumption, KernelParts DEF IInv, TypeInv, TypeOK
<1>3. terminal[s] # <<>>
  <2>1. terminal[s] = <<>> <=> Len(terminal[s]) = 0
    BY <1>2, ScreenFacts
  <2>. QED
    BY <2>1
<1>4. terminal[s][1] \in Packets
  BY <1>3, ForwardedFacts
<1>5. ip \in Cell /\ ip = terminal[s][1][SrcAt]
  BY <1>4, PacketSizes DEF SaveClientIp, Packets
<1>6. \/ terminal[s][2] = ServHandlePktDest(Encapsulate(EmptyBuffer(PacketLen - 1)), ip)
      \/ /\ AnsweredBy(s, d)
         /\ \E bare \in Arrivals(ReplyBytes(terminal[d][2], Reply), PacketLen - 1) :
              terminal[s][2] = ServHandlePktDest(Encapsulate(bare), ip)
  BY DEF Story, ServerStory, Readdressed
<1>. HIDE DEF ip
<1>7. CASE terminal[s][2] = ServHandlePktDest(Encapsulate(EmptyBuffer(PacketLen - 1)), ip)
  <2>1. EmptyBuffer(PacketLen - 1) \in BarePackets
    BY EmptyBufferFacts, PacketsAreSeqs DEF BarePackets
  <2>2. terminal[s][2] \in Packets /\ terminal[s][2][DstAt] = ip
    BY <1>5, <1>7, <2>1, EncapsulateFacts, ServHandlePktDestFacts, ReaddressedCells
  <2>3. HoldsText(terminal[s][2], SubSeq(Reply, 1, 0)) /\ 0 \in 0..Len(Reply)
    BY <1>1, <1>5, <1>7, NothingHeld
  <2>. QED
    BY <1>4, <1>5, <2>2, <2>3
<1>8. CASE /\ AnsweredBy(s, d)
           /\ \E bare \in Arrivals(ReplyBytes(terminal[d][2], Reply), PacketLen - 1) :
                terminal[s][2] = ServHandlePktDest(Encapsulate(bare), ip)
  <2>. DEFINE src == terminal[d][1][SrcAt - 1]
              p == CreatePacketsDes(Clear(HostOf[d]), src, Clear("ack"), Reply)
  <2>1. d \in Dests /\ session[d] = s /\ Len(terminal[d]) = 2 /\ d \in Hosts
    BY <1>8, KernelAssumption DEF AnsweredBy
  <2>2. terminal[d] # <<>>
    <3>1. terminal[d] = <<>> <=> Len(terminal[d]) = 0
      BY <1>2, <2>1, ScreenFacts
    <3>. QED
      BY <2>1, <3>1
  <2>3. terminal[d][1] \in BarePackets /\ terminal[d][2] = Decapsulate(p)
    BY <2>1, <2>2, DestScreen DEF Response
  <2>4. src \in Cell /\ Clear(HostOf[d]) \in Cell /\ Clear("ack") \in Cell
    BY <2>1, <2>3, CellFacts, KernelAssumption, PacketSizes DEF BarePackets
  <2>5. p \in Packets /\ p[SrcAt] = Clear(HostOf[d]) /\ HoldsText(p, Reply)
    BY <1>1, <2>4, CreatePacketsDesFacts, CreatedHoldsText
  <2>. HIDE DEF p
  <2>6. PICK bare \in Arrivals(ReplyBytes(Decapsulate(p), Reply), PacketLen - 1) :
               terminal[s][2] = ServHandlePktDest(Encapsulate(bare), ip)
    BY <1>8, <2>3
  <2>7. /\ bare \in BarePackets
        /\ \E n \in 0..Len(Reply) :
             /\ HoldsText(terminal[s][2], SubSeq(Reply, 1, n))
             /\ n > 0 => terminal[s][2][SrcAt] = p[SrcAt]
    BY <1>1, <1>5, <2>5, <2>6, ReplyHeld
  <2>8. terminal[s][2] \in Packets /\ terminal[s][2][DstAt] = ip
    BY <1>5, <2>6, <2>7, EncapsulateFacts, ServHandlePktDestFacts, ReaddressedCells
  <2>. QED
    BY <1>4, <1>5, <1>8, <2>5, <2>7, <2>8
<1>. QED
  BY <1>6, <1>7, <1>8

\* A client is shown the beginning of the reply; some of it only if its server has
\* been answered, and then the whole header of the server's packet with it.
LEMMA ClientShown ==
  ASSUME IInv, Stages, Story, NEW c \in Clients, peer[c] \in Servers, Told(c)
  PROVE  /\ IsPrefix(TextShown(c), Reply)
         /\ TextShown(c) # <<>> =>
              LET s == peer[c]
              IN  /\ RepliedTo(c, s) /\ AnsweredBy(s, peer[s])
                  /\ ReplyShown(c)[SrcAt] = Clear(HostOf[peer[s]])
                  /\ ReplyShown(c)[DstAt] = terminal[s][1][SrcAt]
<1>. DEFINE s == peer[c]
            answer == terminal[s][2]
<1>1. IsText(Reply) /\ Len(Reply) < MaxPayload /\ Reply \in Seq(Cell) /\ Len(Reply) \in Nat
  BY DestinationAssumption, KeptFacts
<1>2. \/ ReplyShown(c) = Decrypt(EmptyBuffer(PacketLen))
      \/ /\ RepliedTo(c, s)
         /\ \E raw \in Arrivals(ServCliEncrypt(answer), PacketLen) : ReplyShown(c) = Decrypt(raw)
  BY DEF Story, ClientStory
<1>3. CASE ReplyShown(c) = Decrypt(EmptyBuffer(PacketLen))
  <2>1. TextShown(c) = <<>>
    BY <1>3, NothingShown DEF TextShown
  <2>2. IsPrefix(<<>>, Reply)
    <3>1. 0 \in 0..Len(Reply)
      BY <1>1
    <3>2. IsPrefix([j \in 1..0 |-> Reply[j]], Reply)
      BY <1>1, <3>1, PrefixIs
    <3>3. [j \in 1..0 |-> Reply[j]] = <<>>
      OBVIOUS
    <3>. QED
      BY <3>2, <3>3
  <2>. QED
    BY <2>1, <2>2
<1>4. CASE /\ RepliedTo(c, s)
           /\ \E raw \in Arrivals(ServCliEncrypt(answer), PacketLen) : ReplyShown(c) = Decrypt(raw)
  <2>1. s \in Servers /\ session[s] = c /\ Len(terminal[s]) = 2
    BY <1>4 DEF RepliedTo
  <2>2. answer \in Packets /\ answer[DstAt] = terminal[s][1][SrcAt]
    BY <2>1, ServerAnswer
  <2>3. PICK n \in 0..Len(Reply) :
               /\ HoldsText(answer, SubSeq(Reply, 1, n))
               /\ n > 0 => AnsweredBy(s, peer[s]) /\ answer[SrcAt] = Clear(HostOf[peer[s]])
    BY <2>1, ServerAnswer
  <2>. DEFINE t == SubSeq(Reply, 1, n)
              sent == ServCliEncrypt(answer)
  <2>4. IsText(t) /\ Len(t) = n
    BY <1>1, TextStart
  <2>5. sent \in Seq(Cell) /\ Len(sent) \in HeaderLen..PacketLen /\ Len(sent) <= PacketLen
    BY <2>2, ServCliEncryptFacts, HeaderOfReply
  <2>6. CarriesText(sent, t)
    BY <2>2, <2>3, <2>4, ReplyCarriesText
  <2>7. PICK raw \in Arrivals(sent, PacketLen) : ReplyShown(c) = Decrypt(raw)
    BY <1>4
  <2>. HIDE DEF t
  <2>8. /\ IsPrefix(TextShown(c), t)
        /\ TextShown(c) # <<>> =>
             t # <<>> /\ \E k \in 0..Len(sent) : k > HeaderLen /\ raw = Received(sent, k, PacketLen)
    BY <2>4, <2>5, <2>6, <2>7, ShownText DEF TextShown
  <2>9. IsPrefix(TextShown(c), Reply)
    BY <1>1, <2>8, PrefixOfPrefix DEF t
  <2>10. ASSUME TextShown(c) # <<>>
         PROVE  /\ AnsweredBy(s, peer[s])
                /\ ReplyShown(c)[SrcAt] = Clear(HostOf[peer[s]])
                /\ ReplyShown(c)[DstAt] = terminal[s][1][SrcAt]
    <3>1. t \in Seq(Cell) /\ t # <<>>
      BY <2>4, <2>8, <2>10, KeptFacts
    <3>2. n > 0
      BY <2>4, <3>1
    <3>3. PICK k \in 0..Len(sent) : k > HeaderLen /\ raw = Received(sent, k, PacketLen)
      BY <2>8, <2>10
    <3>4. /\ SrcAt \in 1..HeaderLen /\ DstAt \in 1..HeaderLen /\ SrcAt <= k /\ DstAt <= k
          /\ SrcAt \in 1..PacketLen /\ DstAt \in 1..PacketLen
      BY <3>3, PacketSizes
    <3>5. ReplyShown(c)[SrcAt] = Flip(sent[SrcAt]) /\ ReplyShown(c)[DstAt] = Flip(sent[DstAt])
      BY <2>5, <2>7, <3>3, <3>4, HeaderOfDecrypt
    <3>6. sent[SrcAt] = Flip(answer[SrcAt]) /\ sent[DstAt] = Flip(answer[DstAt])
      BY <2>2, <3>4, HeaderOfReply
    <3>7. answer[SrcAt] \in Cell /\ answer[DstAt] \in Cell
      BY <2>2, <3>4 DEF Packets
    <3>8. ReplyShown(c)[SrcAt] = answer[SrcAt] /\ ReplyShown(c)[DstAt] = answer[DstAt]
      BY <3>5, <3>6, <3>7, FlipTwice
    <3>. QED
      BY <2>2, <2>3, <3>2, <3>8
  <2>. QED
    BY <1>4, <2>9, <2>10
<1>. QED
  BY <1>2, <1>3, <1>4

-----------------------------------------------------------------------------
(* The promises *)

LEMMA TextsAreClean ==
  ASSUME IInv, Stages, Story
  PROVE  CleanText
<1>1. ASSUME NEW c \in Clients, peer[c] \in Servers, Told(c)
      PROVE  IsPrefix(TextShown(c), Reply)
  BY <1>1, ClientShown
<1>2. ASSUME NEW s \in Servers, session[s] \in Clients, Len(terminal[s]) >= 1
      PROVE  IsPrefix(TextOf(terminal[s][1], PayloadAt), Request)
  <2>1. terminal[s] # <<>>
    BY <1>2
  <2>. QED
    BY <1>2, <2>1, QuestionText
<1>3. ASSUME NEW s \in Servers, session[s] \in Clients, Len(terminal[s]) = 2
      PROVE  IsPrefix(TextOf(terminal[s][2], PayloadAt), Reply)
  <2>1. /\ IsText(Reply) /\ Len(Reply) < MaxPayload /\ Reply \in Seq(Cell)
        /\ Len(Reply) \in Nat /\ MaxPayload \in Nat
    BY DestinationAssumption, KeptFacts, PacketSizes
  <2>2. PICK n \in 0..Len(Reply) : HoldsText(terminal[s][2], SubSeq(Reply, 1, n))
    BY <1>3, ServerAnswer
  <2>3. terminal[s][2] \in Packets
    BY <1>3, ServerAnswer
  <2>. DEFINE t == SubSeq(Reply, 1, n)
  <2>4. IsText(t) /\ Len(t) = n /\ n < MaxPayload
    BY <2>1, TextStart
  <2>5. IsPrefix(TextOf(terminal[s][2], PayloadAt), t)
    <3>. HIDE DEF t
    <3>1. HoldsText(terminal[s][2], t) /\ Len(t) < MaxPayload
      BY <2>2, <2>4 DEF t
    <3>. QED
      BY <2>3, <2>4, <3>1, HeldText
  <2>. QED
    BY <2>1, <2>5, PrefixOfPrefix
<1>4. ASSUME NEW d \in Dests, session[d] \in Servers, terminal[d] # <<>>
      PROVE  IsPrefix(TextOf(terminal[d][1], PayloadAt - 1), Request)
  <2>. DEFINE s == session[d]
              got == terminal[s][1]
  <2>1. /\ s \in Servers /\ session[s] \in Clients /\ terminal[s] # <<>>
        /\ terminal[d][1] \in Arrivals(Forwarded(s), PacketLen - 1)
    BY <1>4, DestScreen
  <2>2. got \in Packets /\ IsPrefix(TextOf(got, PayloadAt), Request)
    BY <2>1, ForwardedFacts, QuestionText
  <2>3. terminal[d][1] \in Arrivals(ServHandlePkt(got, HostOf[s]), PacketLen - 1)
    BY <2>1 DEF Forwarded
  <2>4. HostOf[s] \in Hosts /\ IsText(Request)
    BY <2>1, KernelAssumption, ClientAssumption
  <2>. HIDE DEF got, s
  <2>. QED
    BY <2>2, <2>3, <2>4, ForwardedText
<1>. QED
  BY <1>1, <1>2, <1>3, <1>4 DEF CleanText

\* Whatever the texts, the bounds of the packets, the cuts and the failures: no
\* program on the path through a server prints a character that the other end did
\* not write in that place (packet.c:117-275, encrypt.c:22-26, server.c:129-187).
THEOREM TextsStayClean == Spec => []CleanText
BY InductiveInvariant, StagesInvariant, StoryInvariant, TextsAreClean, PTL

LEMMA RepliesAreAuthentic ==
  ASSUME IInv, Stages, Story
  PROVE  AuthenticReply
<1>1. SUFFICES ASSUME NEW c \in Clients, peer[c] \in Servers, Told(c), TextShown(c) # <<>>
               PROVE  LET s == peer[c]
                          d == peer[s]
                      IN  /\ session[s] = c /\ HostOf[s] = serverHost[c]
                          /\ d \in Dests /\ session[d] = s /\ HostOf[d] = destHost[c]
                          /\ terminal[d][1][SrcAt - 1] = Clear(serverHost[c])
                          /\ ReplyShown(c)[SrcAt] = Clear(destHost[c])
                          /\ ReplyShown(c)[DstAt] = Clear(HostOf[c])
  BY DEF AuthenticReply
<1>. DEFINE s == peer[c]
            d == peer[s]
<1>2. /\ RepliedTo(c, s) /\ AnsweredBy(s, d)
      /\ ReplyShown(c)[SrcAt] = Clear(HostOf[d])
      /\ ReplyShown(c)[DstAt] = terminal[s][1][SrcAt]
  BY <1>1, ClientShown
<1>3. s \in Servers /\ session[s] = c /\ Len(terminal[s]) = 2 /\ s # Nobody
  BY <1>1, <1>2, KernelAssumption DEF RepliedTo
<1>4. HostOf[s] = serverHost[c]
  BY <1>3 DEF Stages, ClientStage
<1>5. d \in Dests /\ session[d] = s /\ terminal[d][1][SrcAt - 1] = Clear(HostOf[s]) /\ d # Nobody
  BY <1>2, KernelAssumption DEF AnsweredBy
<1>6. terminal[s] # <<>> /\ terminal[s][1][DstAt] = Clear(HostOf[d])
  BY <1>3, <1>5 DEF Stages, ServerStage, Story, DialStory
<1>7. /\ terminal[s][1][DstAt] \in {Clear(destHost[c]), Masked("zero")}
      /\ terminal[s][1][DstAt] = Clear(destHost[c]) => terminal[s][1][SrcAt] = Clear(HostOf[c])
  BY <1>3, <1>6, QuestionHeader
<1>8. Clear(HostOf[d]) = Clear(destHost[c])
  BY <1>6, <1>7 DEF Clear, Masked
<1>9. HostOf[d] = destHost[c]
  BY <1>8 DEF Clear
<1>. QED
  BY <1>2, <1>3, <1>4, <1>5, <1>6, <1>7, <1>9

\* A client that is shown any text is shown the answer of the destination it named
\* to the question its server asked there for it (client.c:75-114,
\* server.c:127-187, destination.c:86-118).
THEOREM ShownRepliesAreAuthentic == Spec => []AuthenticReply
BY InductiveInvariant, StagesInvariant, StoryInvariant, RepliesAreAuthentic, PTL

-----------------------------------------------------------------------------
(* Addresses in packets *)

\* XOR leaves the value of a cell alone, and none of the fixed cells is an address.
LEMMA ValueFacts ==
  /\ \A cell \in Cell : Flip(cell).val = cell.val
  /\ Nul.val \notin Hosts /\ Clear("gre").val \notin Hosts
  /\ Clear("syn").val \notin Hosts /\ Clear("ack").val \notin Hosts
  /\ \A v : Clear(v).val = v
<1>1. \A cell \in Cell : Flip(cell) = [val |-> cell.val, masked |-> ~cell.masked]
  BY DEF Flip, Cell
<1>2. \A cell \in Cell : Flip(cell).val = cell.val
  BY <1>1
<1>3. {"zero", "gre", "syn", "ack"} \cap Hosts = {}
  BY HostsAssumption
<1>. QED
  BY <1>2, <1>3 DEF Nul, Clear

\* A packet in clear holds the addresses it was created with, and no other.
LEMMA CreatedValues ==
  ASSUME NEW src \in Cell, NEW dst \in Cell, NEW flags \in Cell, NEW t, IsText(t),
         NEW h \in Hosts, dst.val # h, flags.val # h, NEW i \in 1..PacketLen,
         i = SrcAt => src.val # h
  PROVE  CreatePacketsDes(src, dst, flags, t)[i].val # h
<1>. DEFINE p == CreatePacketsDes(src, dst, flags, t)
<1>1. i \in Nat /\ i >= 1 /\ PayloadAt = 5 /\ HeaderLen = 4 /\ SrcAt = 2 /\ DstAt = 3 /\ FlagsAt = 4
  BY PacketSizes
<1>2. p[i] = IF i >= PayloadAt THEN IF i - HeaderLen <= Kept(t) THEN t[i - HeaderLen] ELSE Nul
             ELSE CASE i = SrcAt -> src
                    [] i = DstAt -> dst
                    [] i = FlagsAt -> flags
                    [] OTHER -> Clear("gre")
  BY DEF CreatePacketsDes, Kept
<1>. HIDE DEF p
<1>3. CASE i >= 5
  <2>1. CASE i - 4 <= Kept(t)
    <3>1. i - 4 \in 1..Len(t)
      BY <1>1, <1>3, <2>1, KeptFacts
    <3>2. t[i - 4].val \notin Hosts
      BY <3>1 DEF IsText
    <3>. QED
      BY <1>1, <1>2, <1>3, <2>1, <3>2 DEF p
  <2>2. CASE ~(i - 4 <= Kept(t))
    <3>1. p[i] = Nul
      BY <1>1, <1>2, <1>3, <2>2
    <3>. QED
      BY <3>1, ValueFacts DEF p
  <2>. QED
    BY <2>1, <2>2
<1>4. CASE i = 2
  BY <1>1, <1>2, <1>4 DEF p
<1>5. CASE i = 3
  BY <1>1, <1>2, <1>5 DEF p
<1>6. CASE i = 4
  BY <1>1, <1>2, <1>6 DEF p
<1>7. CASE i = 1
  <2>1. p[i] = Clear("gre")
    BY <1>1, <1>2, <1>7
  <2>. QED
    BY <2>1, ValueFacts DEF p
<1>. QED
  BY <1>1, <1>3, <1>4, <1>5, <1>6, <1>7

\* Encryption moves no value, and puts a 0 somewhere.
LEMMA EncryptedValues ==
  ASSUME NEW src \in Cell, NEW dst \in Cell, NEW flags \in Cell, NEW t, IsText(t),
         NEW h \in Hosts, NEW i \in 1..PacketLen,
         CreatePacketsDes(src, dst, flags, t)[i].val # h
  PROVE  CreatePackets(src, dst, flags, t)[i].val # h
<1>. DEFINE p == CreatePacketsDes(src, dst, flags, t)
            at == PayloadAt + AtMost(Len(t), MaxPayload - 1)
<1>1. p \in [1..PacketLen -> Cell]
  BY CreatePacketsDesFacts DEF Packets
<1>2. CreatePackets(src, dst, flags, t) = [Xor(p) EXCEPT ![at] = Nul]
  BY DEF CreatePackets
<1>. HIDE DEF p, at
<1>3. Xor(p) = [j \in 1..PacketLen |-> Flip(p[j])]
  BY <1>1 DEF Xor
<1>4. CreatePackets(src, dst, flags, t)[i] = IF i = at THEN Nul ELSE Flip(p[i])
  BY <1>2, <1>3
<1>5. p[i] \in Cell /\ p[i].val # h
  BY <1>1 DEF p
<1>. QED
  BY <1>4, <1>5, ValueFacts

LEMMA DecryptedValues ==
  ASSUME NEW p \in Packets, NEW h \in Hosts, NEW i \in 1..PacketLen, p[i].val # h
  PROVE  Decrypt(p)[i].val # h
<1>. DEFINE at == AtMost(TextEnd(p, PayloadAt), PacketLen)
<1>1. Decrypt(p) = [Xor(p) EXCEPT ![at] = Nul]
  BY DEF Decrypt
<1>. HIDE DEF at
<1>2. Xor(p) = [j \in 1..PacketLen |-> Flip(p[j])]
  BY DEF Xor, Packets
<1>3. Decrypt(p)[i] = IF i = at THEN Nul ELSE Flip(p[i])
  BY <1>1, <1>2
<1>4. p[i] \in Cell
  BY DEF Packets
<1>. QED
  BY <1>3, <1>4, ValueFacts

\* Of what a server has printed of its client's packet only the source can be the
\* client's address.
LEMMA QuestionValues ==
  ASSUME IInv, Stages, Story, NEW s \in Servers, session[s] \in Clients, terminal[s] # <<>>,
         NEW i \in (1..PacketLen) \ {SrcAt}
  PROVE  terminal[s][1][i].val # HostOf[session[s]]
<1>. DEFINE c == session[s]
            h == HostOf[c]
            src == Clear(h)
            dst == Clear(destHost[c])
            p == CreatePackets(src, dst, Clear("syn"), Request)
            sent == Question(c)
<1>1. peer[c] = s /\ s # Nobody /\ c \in Clients /\ IsText(Request)
  BY KernelAssumption, ClientAssumption DEF IInv, Wiring
<1>2. h \in Hosts /\ destHost[c] \in Hosts \ {h} /\ sent \in Seq(Cell)
  BY <1>1, QuestionFacts, KernelAssumption DEF Stages, ClientStage
<1>3. src \in Cell /\ dst \in Cell /\ Clear("syn") \in Cell /\ dst.val # h /\ Clear("syn").val # h
  BY <1>2, CellFacts, ValueFacts
<1>4. p \in Packets /\ p \in Seq(Cell) /\ Len(p) = PacketLen /\ sent = RequestBytes(p, Request)
  BY <1>1, <1>3, CellFacts, CreatePacketsFacts, PacketsAreSeqs DEF Question, RequestPacket
<1>5. p[i].val # h
  <2>. HIDE DEF src, dst, h
  <2>1. i \in 1..PacketLen /\ i # SrcAt
    OBVIOUS
  <2>2. CreatePacketsDes(src, dst, Clear("syn"), Request)[i].val # h
    BY <1>1, <1>2, <1>3, <2>1, CreatedValues
  <2>. QED
    BY <1>1, <1>2, <1>3, <2>1, <2>2, EncryptedValues
<1>6. Len(sent) \in HeaderLen..PacketLen /\ \A j \in 1..Len(sent) : sent[j] = p[j]
  <2>1. Len(Request) \in 0..MaxPayload
    BY <1>1, PacketSizes DEF IsText
  <2>. HIDE DEF p
  <2>2. GetPacketSize(Len(Request)) \in HeaderLen..PacketLen
    BY <2>1, SizeExact, PacketSizes
  <2>. QED
    BY <1>4, <2>2, PacketSizes DEF RequestBytes
<1>7. PICK k \in 0..Len(sent) : terminal[s][1] = Decrypt(Received(sent, k, PacketLen))
  BY <1>1 DEF Story, ServerStory, Arrivals
<1>. DEFINE raw == Received(sent, k, PacketLen)
<1>8. raw \in Packets /\ raw[i] = IF i <= k THEN sent[i] ELSE Nul
  BY <1>2, ReceivedFacts, PacketSizes DEF Packets, Received
<1>9. raw[i].val # h
  <2>. HIDE DEF sent, p, raw, h
  <2>1. i <= k => i \in 1..Len(sent)
    BY <1>6, PacketSizes
  <2>. QED
    BY <1>2, <1>5, <1>6, <1>8, <2>1, ValueFacts
<1>. HIDE DEF raw, h
<1>10. Decrypt(raw)[i].val # h
  BY <1>2, <1>8, <1>9, DecryptedValues
<1>. QED
  BY <1>7, <1>10 DEF raw, h

LEMMA ForwardedValues ==
  ASSUME IInv, Stages, Story, NEW s \in Servers, session[s] \in Clients, terminal[s] # <<>>
  PROVE  \A cell \in ToSet(Forwarded(s)) : cell.val # HostOf[session[s]]
<1>. DEFINE h == HostOf[session[s]]
<1>1. /\ terminal[s][1] \in Packets /\ Forwarded(s) \in Seq(Cell)
      /\ Len(Forwarded(s)) = PacketLen - 1
      /\ Forwarded(s)[SrcAt - 1] = Clear(HostOf[s])
  BY ForwardedFacts
<1>2. peer[session[s]] = s /\ s # Nobody
  BY KernelAssumption DEF IInv, Wiring
<1>3. HostOf[s] # h
  BY <1>2 DEF Stages, ClientStage
<1>4. \A i \in (1..(PacketLen - 1)) \ {SrcAt - 1} : Forwarded(s)[i] = terminal[s][1][i + 1]
  BY <1>1, ServHandlePktCells, KernelAssumption DEF Forwarded
<1>5. ASSUME NEW i \in 1..(PacketLen - 1) PROVE Forwarded(s)[i].val # h
  <2>1. CASE i = SrcAt - 1
    BY <1>1, <1>3, <2>1, ValueFacts
  <2>2. CASE i # SrcAt - 1
    <3>1. i + 1 \in (1..PacketLen) \ {SrcAt}
      BY <2>2, PacketSizes
    <3>2. terminal[s][1][i + 1].val # h
      BY <3>1, QuestionValues
    <3>. QED
      BY <1>4, <2>2, <3>2
  <2>. QED
    BY <2>1, <2>2
<1>. HIDE DEF h
<1>6. ToSet(Forwarded(s)) = {Forwarded(s)[i] : i \in 1..(PacketLen - 1)}
  BY <1>1 DEF ToSet
<1>. QED
  BY <1>5, <1>6 DEF h

\* The two packets a destination prints for a server.
LEMMA DestValues ==
  ASSUME IInv, Stages, Story, NEW d \in Dests, session[d] \in Servers, terminal[d] # <<>>,
         NEW i \in {1, 2}
  PROVE  \A cell \in ToSet(terminal[d][i]) : cell.val # HostOf[session[session[d]]]
<1>. DEFINE s == session[d]
            c == session[s]
            h == HostOf[c]
            src == Clear(HostOf[d])
            dst == terminal[d][1][SrcAt - 1]
            p == CreatePacketsDes(src, dst, Clear("ack"), Reply)
<1>1. /\ s \in Servers /\ c \in Clients /\ terminal[s] # <<>> /\ peer[c] = s /\ s # Nobody
      /\ terminal[s][1][DstAt] = Clear(HostOf[d])
      /\ terminal[d][1] \in Arrivals(Forwarded(s), PacketLen - 1)
      /\ terminal[d][1] \in BarePackets
      /\ terminal[d][2] = Decapsulate(p)
  BY DestScreen, KernelAssumption DEF IInv, Wiring, Response
<1>2. h \in Hosts /\ destHost[c] # h /\ HostOf[d] \in Hosts /\ IsText(Reply)
  BY <1>1, KernelAssumption, DestinationAssumption DEF Stages, ClientStage
<1>3. HostOf[d] # h
  <2>1. Clear(HostOf[d]) \in {Clear(destHost[c]), Masked("zero")}
    BY <1>1, QuestionHeader
  <2>2. HostOf[d] = destHost[c]
    BY <2>1 DEF Clear, Masked
  <2>. QED
    BY <1>2, <2>2
<1>4. \A cell \in ToSet(Forwarded(s)) : cell.val # h
  BY <1>1, ForwardedValues
<1>5. ASSUME NEW j \in 1..(PacketLen - 1) PROVE terminal[d][1][j].val # h
  <2>1. PICK k \in 0..Len(Forwarded(s)) : terminal[d][1] = Received(Forwarded(s), k, PacketLen - 1)
    BY <1>1 DEF Arrivals
  <2>2. terminal[d][1][j] = IF j <= k THEN Forwarded(s)[j] ELSE Nul
    BY <2>1 DEF Received
  <2>3. Len(Forwarded(s)) = PacketLen - 1
    BY <1>1, ForwardedFacts
  <2>4. Forwarded(s)[j] \in ToSet(Forwarded(s))
    BY <2>3 DEF ToSet
  <2>. HIDE DEF h
  <2>. QED
    BY <1>2, <1>4, <2>2, <2>4, ValueFacts
<1>6. /\ src \in Cell /\ dst \in Cell /\ Clear("ack") \in Cell
      /\ src.val # h /\ dst.val # h /\ Clear("ack").val # h
  BY <1>1, <1>2, <1>3, <1>5, CellFacts, ValueFacts, PacketSizes DEF BarePackets
<1>7. p \in Packets
  BY <1>2, <1>6, CreatePacketsDesFacts
<1>8. ASSUME NEW j \in 1..(PacketLen - 1) PROVE terminal[d][2][j].val # h
  <2>1. j + 1 \in 1..PacketLen /\ terminal[d][2][j] = p[j + 1]
    BY <1>1, <1>7, DecapsulateFacts, PacketSizes
  <2>2. p[j + 1].val # h
    <3>. HIDE DEF src, dst, h
    <3>. QED
      BY <1>2, <1>6, <2>1, CreatedValues
  <2>. QED
    BY <2>1, <2>2
<1>9. /\ terminal[d][2] \in BarePackets
      /\ \A b \in BarePackets : ToSet(b) = {b[j] : j \in 1..(PacketLen - 1)}
  <2>. HIDE DEF p
  <2>. QED
    BY <1>1, <1>7, DecapsulateFacts DEF ToSet, BarePackets
<1>. HIDE DEF h
<1>. QED
  BY <1>1, <1>5, <1>8, <1>9 DEF h

LEMMA ClientsAreHidden ==
  ASSUME IInv, Stages, Story
  PROVE  ClientHidden
<1>1. SUFFICES ASSUME NEW c \in Clients, NEW s \in Servers, session[s] = c
               PROVE  /\ \A cell \in ToSet(up[s]) : cell.val # HostOf[c]
                      /\ \A d \in Dests : session[d] = s =>
                           \A i \in 1..Len(terminal[d]) :
                             \A cell \in ToSet(terminal[d][i]) : cell.val # HostOf[c]
  BY DEF ClientHidden
<1>2. ASSUME NEW cell \in ToSet(up[s]) PROVE cell.val # HostOf[c]
  <2>1. CASE peer[s] = Nobody
    <3>1. up[s] = <<>>
      BY <2>1, KernelAssumption DEF IInv, Wiring
    <3>2. ToSet(<<>>) = {}
      BY DEF ToSet
    <3>. QED
      BY <1>2, <3>1, <3>2
  <2>2. CASE peer[s] # Nobody
    <3>1. terminal[s] # <<>> /\ ToSet(up[s]) \subseteq ToSet(Forwarded(s))
      BY <2>2 DEF Stages, ServerStage, Story, DialStory
    <3>. QED
      BY <1>1, <1>2, <3>1, ForwardedValues
  <2>. QED
    BY <2>1, <2>2
<1>3. ASSUME NEW d \in Dests, session[d] = s, NEW i \in 1..Len(terminal[d]),
             NEW cell \in ToSet(terminal[d][i])
      PROVE  cell.val # HostOf[c]
  <2>1. terminal[d] # <<>>
    BY <1>3
  <2>2. i \in {1, 2}
    BY <1>3, <2>1 DEF Stages, DestStage
  <2>. QED
    BY <1>1, <1>3, <2>1, <2>2, DestValues
<1>. QED
  BY <1>2, <1>3

\* Whatever travels from a server to whom it has dialled, and whatever a destination
\* prints for it, holds the client's address in none of its cells: not in the source,
\* which the server overwrites (packet.c:285-287), and not anywhere else.
THEOREM ClientsStayHidden == Spec => []ClientHidden
BY InductiveInvariant, StagesInvariant, StoryInvariant, ClientsAreHidden, PTL

-----------------------------------------------------------------------------
(* The abstract relay *)

LEMMA Triples ==
  ASSUME NEW A, NEW B, NEW C
  PROVE  /\ \A x \in A \X B \X C : x[1] \in A /\ x[2] \in B /\ x[3] \in C /\ x = <<x[1], x[2], x[3]>>
         /\ \A a \in A, b \in B, c \in C : <<a, b, c>> \in A \X B \X C
OBVIOUS

LEMMA AskedKept ==
  ASSUME \A c \in Clients : peer'[c] = peer[c] /\ (peer[c] \in Servers => destHost'[c] = destHost[c])
  PROVE  Asked' = Asked
<1>1. \A x \in Clients \X Servers \X DestHosts :
        (peer'[x[1]] = x[2] /\ destHost'[x[1]] = x[3]) <=> (peer[x[1]] = x[2] /\ destHost[x[1]] = x[3])
  BY Triples
<1>. QED
  BY <1>1 DEF Asked, DestHosts

LEMMA RelayedKept ==
  ASSUME \A s \in Servers : peer'[s] = peer[s] /\ (peer[s] \in Dests => session'[s] = session[s])
  PROVE  Relayed' = Relayed
<1>1. \A x \in Clients \X Servers \X Dests :
        (session'[x[2]] = x[1] /\ peer'[x[2]] = x[3]) <=> (session[x[2]] = x[1] /\ peer[x[2]] = x[3])
  BY Triples
<1>. QED
  BY <1>1 DEF Relayed

LEMMA AnsweredKept ==
  ASSUME \A d \in Dests : /\ Len(terminal'[d]) = Len(terminal[d])
                          /\ Len(terminal[d]) = 2 => session'[d] = session[d]
  PROVE  Answered' = Answered
<1>1. \A x \in Servers \X Dests :
        (session'[x[2]] = x[1] /\ Len(terminal'[x[2]]) = 2) <=> (session[x[2]] = x[1] /\ Len(terminal[x[2]]) = 2)
  OBVIOUS
<1>. QED
  BY <1>1 DEF Answered

LEMMA ToldKept ==
  ASSUME \A c \in Clients : \/ peer'[c] = peer[c] /\ terminal'[c] = terminal[c]
                            \/ ~Told(c) /\ ~(Told(c)')
  PROVE  ToldOf' = ToldOf
<1>1. \A x \in Clients \X Servers \X DestHosts :
        (/\ peer[x[1]] = x[2] /\ Told(x[1]) /\ TextShown(x[1]) # <<>>
         /\ ReplyShown(x[1])[SrcAt] = Clear(x[3]))'
        <=> (/\ peer[x[1]] = x[2] /\ Told(x[1]) /\ TextShown(x[1]) # <<>>
             /\ ReplyShown(x[1])[SrcAt] = Clear(x[3]))
  BY Triples DEF Told, TextShown, ReplyShown
<1>. QED
  BY <1>1 DEF ToldOf, DestHosts

LEMMA RelayKept ==
  ASSUME UNCHANGED <<peer, session, terminal, destHost>>
  PROVE  UNCHANGED Abstract!relayVars
<1>1. Asked' = Asked
  BY AskedKept
<1>2. Relayed' = Relayed
  BY RelayedKept
<1>3. Answered' = Answered
  BY AnsweredKept
<1>4. ToldOf' = ToldOf
  BY ToldKept
<1>. QED
  BY <1>1, <1>2, <1>3, <1>4 DEF Abstract!relayVars

\* Whoever is shown an answer can be traced to the destination that gave it.
Traced ==
  \A c \in Clients : peer[c] \in Servers /\ Told(c) /\ TextShown(c) # <<>> =>
    LET s == peer[c]
        d == peer[s]
    IN  /\ session[s] = c /\ d \in Dests /\ session[d] = s /\ Len(terminal[d]) = 2
        /\ ReplyShown(c)[SrcAt] = Clear(HostOf[d])

LEMMA ShownAreTraced ==
  ASSUME IInv, Stages, Story
  PROVE  Traced
BY ClientShown DEF Traced, RepliedTo, AnsweredBy

\* A client asks when it connects and is told when it receives.
LEMMA ClientRelays ==
  ASSUME IInv, Stages, Traced, Traced', NEW c \in Clients, ClientNext(c)
  PROVE  [Abstract!RelayNext]_(Abstract!relayVars)
<1>1. /\ Wiring /\ PlaceAt(c) /\ ClientStage(c) /\ ProcTypeOK /\ NetTypeOK /\ ClientTypeOK
      /\ c \in Hosts /\ c \notin Servers /\ c \notin Dests
  BY KernelParts, KernelAssumption, WiringParts DEF IInv, TypeInv, TypeOK, Stages
<1>2. Onward(c) /\ ClientStage(c)'
  BY ClientOnward DEF Stages
<1>3. /\ \A q \in Hosts \ {c} : /\ terminal'[q] = terminal[q] /\ peer'[q] = peer[q]
                               /\ session'[q] = session[q]
      /\ \A q \in Clients \ {c} : destHost'[q] = destHost[q]
  BY <1>2, KernelAssumption DEF Onward, OnlyAt
<1>4. Relayed' = Relayed /\ Answered' = Answered
  BY <1>1, <1>3, KernelAssumption, RelayedKept, AnsweredKept
<1>5. CASE ClientStart(c)
  <2>1. peer[c] = Nobody /\ UNCHANGED <<terminal, peer>>
    BY <1>1, <1>5 DEF ClientStart, PlaceAt, At, netVars
  <2>2. Asked' = Asked /\ ToldOf' = ToldOf
    BY <1>3, <2>1, KernelAssumption, AskedKept, ToldKept
  <2>. QED
    BY <1>4, <2>2 DEF Abstract!relayVars
<1>6. CASE ClientConnect(c)
  <2>1. PICK h \in listening : Join(c, h)
    BY <1>6 DEF ClientConnect, Connect
  <2>2. /\ pc[c] = "connect" /\ pc'[c] = "send" /\ destHost' = destHost
        /\ peer'[c] = h /\ h \in Servers \cup Dests
    BY <1>1, <1>6, <2>1, PlaceFacts DEF ClientConnect, Join, NetTypeOK, At, clientVars, Wiring
  <2>3. peer[c] = Nobody /\ ~Told(c) /\ ~(Told(c)')
    <3>1. terminal[c] = <<>> /\ Len(terminal'[c]) = 1
      BY <1>1, <1>2, <2>2 DEF ClientStage
    <3>2. Len(<<>>) = 0
      OBVIOUS
    <3>. QED
      BY <1>1, <2>2, <3>1, <3>2 DEF PlaceAt, Told
  <2>4. ToldOf' = ToldOf
    BY <1>3, <2>3, KernelAssumption, ToldKept
  <2>. DEFINE ip == destHost[c]
  <2>5. CASE h \in Servers /\ ip \in DestHosts
    <3>1. PICK d \in Dests : ip = HostOf[d]
      BY <2>5 DEF DestHosts
    <3>2. \A x \in Asked : x[1] # c
      BY <2>3, KernelAssumption DEF Asked
    <3>3. Asked' = Asked \cup {<<c, h, ip>>}
      <4>1. ASSUME NEW x \in Clients \X Servers \X DestHosts
            PROVE  (peer'[x[1]] = x[2] /\ destHost'[x[1]] = x[3])
                   <=> (peer[x[1]] = x[2] /\ destHost[x[1]] = x[3]) \/ x = <<c, h, ip>>
        <5>1. x[1] \in Clients /\ x[2] \in Servers /\ x[3] \in DestHosts /\ x = <<x[1], x[2], x[3]>>
          BY Triples
        <5>2. CASE x[1] = c
          BY <2>2, <2>3, <5>1, <5>2, KernelAssumption
        <5>3. CASE x[1] # c
          BY <1>3, <2>2, <5>1, <5>3, KernelAssumption
        <5>. QED
          BY <5>2, <5>3
      <4>2. <<c, h, ip>> \in Clients \X Servers \X DestHosts
        BY <2>5
      <4>. QED
        BY <4>1, <4>2 DEF Asked, DestHosts
    <3>4. Abstract!Ask(c, h, HostOf[d])
      BY <1>4, <2>4, <3>1, <3>2, <3>3 DEF Abstract!Ask
    <3>. QED
      BY <2>5, <3>4 DEF Abstract!RelayNext
  <2>6. CASE ~(h \in Servers /\ ip \in DestHosts)
    <3>1. ASSUME NEW x \in Clients \X Servers \X DestHosts
          PROVE  (peer'[x[1]] = x[2] /\ destHost'[x[1]] = x[3])
                 <=> (peer[x[1]] = x[2] /\ destHost[x[1]] = x[3])
      <4>1. x[1] \in Clients /\ x[2] \in Servers /\ x[3] \in DestHosts
        BY Triples
      <4>2. CASE x[1] = c
        BY <2>2, <2>3, <2>6, <4>1, <4>2, KernelAssumption
      <4>3. CASE x[1] # c
        BY <1>3, <2>2, <4>1, <4>3, KernelAssumption
      <4>. QED
        BY <4>2, <4>3
    <3>2. Asked' = Asked
      BY <3>1 DEF Asked, DestHosts
    <3>. QED
      BY <1>4, <2>4, <3>2 DEF Abstract!relayVars
  <2>. QED
    BY <2>5, <2>6
<1>7. CASE ClientReceive(c)
  <2>1. pc[c] = "receive" /\ UNCHANGED <<peer, session, destHost>>
    BY <1>7 DEF ClientReceive, ReadDown, listenVars, clientVars, At
  <2>2. ~Told(c)
    BY <1>1, <2>1 DEF ClientStage, Told
  <2>3. Asked' = Asked
    BY <2>1, AskedKept
  <2>. DEFINE s == peer[c]
              d == peer[s]
              told == s \in Servers /\ Told(c)' /\ TextShown(c)' # <<>>
  <2>4. CASE told
    <3>1. /\ session[s] = c /\ d \in Dests /\ session[d] = s /\ Len(terminal'[d]) = 2
          /\ ReplyShown(c)'[SrcAt] = Clear(HostOf[d])
      BY <2>1, <2>4 DEF Traced
    <3>2. Len(terminal[d]) = 2
      BY <1>1, <1>3, <3>1, KernelAssumption
    <3>3. <<c, s, d>> \in Relayed /\ <<s, d>> \in Answered
      BY <2>4, <3>1, <3>2 DEF Relayed, Answered
    <3>4. \A x \in ToldOf : x[1] # c /\ x[2] # s
      <4>1. SUFFICES ASSUME NEW x \in ToldOf PROVE x[1] # c /\ x[2] # s
        OBVIOUS
      <4>2. /\ x[1] \in Clients /\ x[2] \in Servers /\ peer[x[1]] = x[2]
            /\ Told(x[1]) /\ TextShown(x[1]) # <<>>
        BY Triples DEF ToldOf
      <4>3. session[x[2]] = x[1]
        BY <4>2 DEF Traced
      <4>. QED
        BY <2>2, <3>1, <4>2, <4>3
    <3>5. ToldOf' = ToldOf \cup {<<c, s, HostOf[d]>>}
      <4>. DEFINE Is(x) == /\ peer[x[1]] = x[2] /\ Told(x[1]) /\ TextShown(x[1]) # <<>>
                          /\ ReplyShown(x[1])[SrcAt] = Clear(x[3])
      <4>1. ASSUME NEW x \in Clients \X Servers \X DestHosts
            PROVE  Is(x)' <=> Is(x) \/ x = <<c, s, HostOf[d]>>
        <5>1. x[1] \in Clients /\ x[2] \in Servers /\ x[3] \in DestHosts /\ x = <<x[1], x[2], x[3]>>
          BY Triples
        <5>2. CASE x[1] = c
          <6>1. ~Is(x)
            BY <2>2, <5>2
          <6>2. Is(x)' <=> peer[c] = x[2] /\ Told(c)' /\ TextShown(c)' # <<>> /\ ReplyShown(c)'[SrcAt] = Clear(x[3])
            BY <2>1, <5>2 DEF Told, TextShown, ReplyShown
          <6>3. Is(x)' <=> s = x[2] /\ HostOf[d] = x[3]
            <7>1. Clear(HostOf[d]) = Clear(x[3]) <=> HostOf[d] = x[3]
              BY DEF Clear
            <7>. QED
              BY <2>4, <3>1, <6>2, <7>1
          <6>. QED
            BY <5>1, <5>2, <6>1, <6>3
        <5>3. CASE x[1] # c
          <6>1. Is(x)' <=> Is(x)
            BY <1>3, <2>1, <5>1, <5>3, KernelAssumption DEF Told, TextShown, ReplyShown
          <6>2. x # <<c, s, HostOf[d]>>
            BY <5>3
          <6>. QED
            BY <6>1, <6>2
        <5>. QED
          BY <5>2, <5>3
      <4>2. <<c, s, HostOf[d]>> \in Clients \X Servers \X DestHosts
        BY <2>4, <3>1 DEF DestHosts
      <4>3. ToldOf = {x \in Clients \X Servers \X DestHosts : Is(x)}
        BY DEF ToldOf
      <4>4. ToldOf' = {x \in Clients \X Servers \X DestHosts : Is(x)'}
        BY DEF ToldOf, DestHosts
      <4>. HIDE DEF Is
      <4>. QED
        BY <4>1, <4>2, <4>3, <4>4
    <3>6. Abstract!Tell(c, s, d)
      BY <1>4, <2>3, <3>3, <3>4, <3>5 DEF Abstract!Tell
    <3>. QED
      BY <2>4, <3>1, <3>6 DEF Abstract!RelayNext
  <2>5. CASE ~told
    <3>1. ASSUME NEW x \in Clients \X Servers \X DestHosts
          PROVE  (/\ peer[x[1]] = x[2] /\ Told(x[1]) /\ TextShown(x[1]) # <<>>
                  /\ ReplyShown(x[1])[SrcAt] = Clear(x[3]))'
                 <=> (/\ peer[x[1]] = x[2] /\ Told(x[1]) /\ TextShown(x[1]) # <<>>
                      /\ ReplyShown(x[1])[SrcAt] = Clear(x[3]))
      <4>1. x[1] \in Clients /\ x[2] \in Servers
        BY Triples
      <4>2. CASE x[1] = c
        BY <2>1, <2>2, <2>5, <4>1, <4>2 DEF Told, TextShown, ReplyShown
      <4>3. CASE x[1] # c
        BY <1>3, <2>1, <4>1, <4>3, KernelAssumption DEF Told, TextShown, ReplyShown
      <4>. QED
        BY <4>2, <4>3
    <3>2. ToldOf' = ToldOf
      BY <3>1 DEF ToldOf, DestHosts
    <3>. QED
      BY <1>4, <2>3, <3>2 DEF Abstract!relayVars
  <2>. QED
    BY <2>4, <2>5
<1>8. CASE \/ ClientConnectFails(c) \/ ClientSend(c) \/ ClientReceiveFails(c)
           \/ ClientExit(c) \/ ClientFault(c) \/ (Kill(c) /\ UNCHANGED clientVars)
  <2>1. UNCHANGED <<peer, session, terminal, destHost>>
    BY <1>8 DEF ClientConnectFails, ClientSend, ClientReceiveFails, ClientExit, ClientFault, Kill,
                Exit, Release, SendUp, SendUpFails, ReadDownFails, netVars, listenVars, clientVars
  <2>. QED
    BY <2>1, RelayKept
<1>. QED
  BY <1>5, <1>6, <1>7, <1>8 DEF ClientNext, ClientStep

\* A server takes the question when it dials a destination.
LEMMA ServerRelays ==
  ASSUME IInv, Stages, Story, NEW s \in Servers, ServerNext(s)
  PROVE  [Abstract!RelayNext]_(Abstract!relayVars)
<1>1. /\ Wiring /\ PlaceAt(s) /\ NetTypeOK /\ s \in Hosts /\ s \notin Clients /\ s \notin Dests
  BY KernelParts, KernelAssumption, WiringParts DEF IInv, TypeInv, TypeOK
<1>2. /\ \A q \in Hosts \ {s} : /\ terminal'[q] = terminal[q] /\ peer'[q] = peer[q]
                               /\ session'[q] = session[q]
      /\ session[s] # Nobody => session'[s] = session[s]
      /\ destHost' = destHost
  BY ServerOnward DEF Onward, OnlyAt, ServerNext, clientVars
<1>3. Answered' = Answered /\ ToldOf' = ToldOf /\ Asked' = Asked
  BY <1>1, <1>2, KernelAssumption, AnsweredKept, ToldKept, AskedKept
<1>4. CASE ServerDial(s)
  <2>1. PICK h \in listening : HostOf[h] = DestOf(s) /\ Join(s, h)
    BY <1>4 DEF ServerDial, Connect
  <2>2. /\ pc[s] = "dial" /\ session' = session
        /\ peer'[s] = h /\ peer[s] = Nobody /\ h \in Hosts
    BY <1>1, <1>4, <2>1, KernelAssumption DEF ServerDial, Join, NetTypeOK, At, PlaceAt
  <2>. DEFINE c == session[s]
  <2>3. c \in Clients /\ terminal[s][1][DstAt] = Clear(HostOf[h])
    BY <2>1, <2>2, DialFacts
  <2>4. CASE h \in Dests
    <3>1. terminal[s] # <<>>
      <4>1. Len(terminal[s]) = 1
        BY <2>2 DEF Stages, ServerStage
      <4>. QED
        BY <4>1
    <3>2. peer[c] = s
      BY <2>3, KernelAssumption DEF IInv, Wiring
    <3>3. Clear(HostOf[h]) \in {Clear(destHost[c]), Masked("zero")}
      BY <2>3, <3>1, QuestionHeader
    <3>4. destHost[c] = HostOf[h]
      BY <3>3 DEF Clear, Masked
    <3>5. <<c, s, HostOf[h]>> \in Asked
      BY <2>3, <2>4, <3>2, <3>4 DEF Asked, DestHosts
    <3>6. \A x \in Relayed : x[2] # s
      BY <2>2, KernelAssumption DEF Relayed
    <3>7. Relayed' = Relayed \cup {<<c, s, h>>}
      <4>1. ASSUME NEW x \in Clients \X Servers \X Dests
            PROVE  (session'[x[2]] = x[1] /\ peer'[x[2]] = x[3])
                   <=> (session[x[2]] = x[1] /\ peer[x[2]] = x[3]) \/ x = <<c, s, h>>
        <5>1. x[1] \in Clients /\ x[2] \in Servers /\ x[3] \in Dests /\ x = <<x[1], x[2], x[3]>>
          BY Triples
        <5>2. CASE x[2] = s
          BY <2>2, <5>1, <5>2, KernelAssumption
        <5>3. CASE x[2] # s
          BY <1>2, <5>1, <5>3, KernelAssumption
        <5>. QED
          BY <5>2, <5>3
      <4>2. <<c, s, h>> \in Clients \X Servers \X Dests
        BY <2>3, <2>4
      <4>. QED
        BY <4>1, <4>2 DEF Relayed
    <3>8. Abstract!Take(c, s, h)
      BY <1>3, <3>5, <3>6, <3>7 DEF Abstract!Take
    <3>. QED
      BY <2>3, <2>4, <3>8 DEF Abstract!RelayNext
  <2>5. CASE h \notin Dests
    <3>1. ASSUME NEW x \in Clients \X Servers \X Dests
          PROVE  (session'[x[2]] = x[1] /\ peer'[x[2]] = x[3])
                 <=> (session[x[2]] = x[1] /\ peer[x[2]] = x[3])
      <4>1. x[1] \in Clients /\ x[2] \in Servers /\ x[3] \in Dests
        BY Triples
      <4>2. CASE x[2] = s
        BY <2>2, <2>5, <4>1, <4>2, KernelAssumption
      <4>3. CASE x[2] # s
        BY <1>2, <4>1, <4>3, KernelAssumption
      <4>. QED
        BY <4>2, <4>3
    <3>2. Relayed' = Relayed
      BY <3>1 DEF Relayed
    <3>. QED
      BY <1>3, <3>2 DEF Abstract!relayVars
  <2>. QED
    BY <2>4, <2>5
<1>5. CASE ServerAccept(s)
  <2>1. peer' = peer /\ peer[s] = Nobody
    BY <1>1, <1>5 DEF ServerAccept, linkVars, PlaceAt, At
  <2>2. Relayed' = Relayed
    BY <1>2, <2>1, KernelAssumption, RelayedKept
  <2>. QED
    BY <1>3, <2>2 DEF Abstract!relayVars
<1>6. CASE \/ ServerStart(s) \/ ServerReceive(s) \/ ServerReceiveFails(s) \/ ServerDialFails(s)
           \/ ServerForward(s) \/ ServerReceiveReply(s) \/ ServerReceiveReplyFails(s) \/ ServerReply(s)
           \/ ServerExit(s) \/ ServerFault(s) \/ (Kill(s) /\ UNCHANGED serverVars)
  <2>1. UNCHANGED <<peer, session>>
    BY <1>6 DEF ServerStart, ServerReceive, ServerReceiveFails, ServerDialFails, ServerForward,
                ServerReceiveReply, ServerReceiveReplyFails, ServerReply, ServerExit, ServerFault,
                Kill, Exit, Release, Listen, SendUp, SendUpFails, ReadDown, ReadDownFails, ReadUp,
                ReadUpFails, SendDown, SendDownFails, netVars, listenVars, linkVars
  <2>2. Relayed' = Relayed
    BY <2>1, RelayedKept
  <2>. QED
    BY <1>3, <2>2 DEF Abstract!relayVars
<1>. QED
  BY <1>4, <1>5, <1>6 DEF ServerNext, ServerStep

\* A destination answers when it receives.
LEMMA DestRelays ==
  ASSUME IInv, Stages, NEW d \in Dests, DestNext(d)
  PROVE  [Abstract!RelayNext]_(Abstract!relayVars)
<1>1. /\ Wiring /\ DestStage(d) /\ ProcTypeOK /\ d \in Hosts /\ d \notin Clients /\ d \notin Servers
      /\ d # Nobody
  BY KernelParts, KernelAssumption DEF IInv, TypeInv, TypeOK, Stages
<1>2. /\ \A q \in Hosts \ {d} : /\ terminal'[q] = terminal[q] /\ peer'[q] = peer[q]
                               /\ session'[q] = session[q]
      /\ session[d] # Nobody => session'[d] = session[d]
      /\ destHost' = destHost /\ DestStage(d)'
  BY DestOnward DEF Onward, OnlyAt, DestNext, clientVars, Stages
<1>3. Relayed' = Relayed /\ ToldOf' = ToldOf /\ Asked' = Asked
  BY <1>1, <1>2, KernelAssumption, RelayedKept, ToldKept, AskedKept
<1>4. CASE DestReceive(d)
  <2>. DEFINE s == session[d]
              c == session[s]
  <2>1. pc[d] = "receive" /\ session' = session
    BY <1>4 DEF DestReceive, ReadUp, listenVars, At
  <2>2. pc'[d] = "reply"
    BY <1>1, <1>4, PlaceFacts DEF DestReceive
  <2>3. Len(terminal[d]) # 2 /\ Len(terminal'[d]) = 2
    <3>1. Len(<<>>) = 0
      OBVIOUS
    <3>. QED
      BY <1>1, <1>2, <2>1, <2>2, <3>1 DEF DestStage
  <2>4. CASE s \in Servers
    <3>1. peer[s] = d /\ c \in Clients
      BY <1>1, <2>4, KernelAssumption DEF IInv, Wiring, Secrecy, ServesClients
    <3>2. <<c, s, d>> \in Relayed
      BY <2>4, <3>1 DEF Relayed
    <3>3. \A x \in Answered : x[2] # d
      BY <2>3 DEF Answered
    <3>4. Answered' = Answered \cup {<<s, d>>}
      <4>1. ASSUME NEW x \in Servers \X Dests
            PROVE  (session'[x[2]] = x[1] /\ Len(terminal'[x[2]]) = 2)
                   <=> (session[x[2]] = x[1] /\ Len(terminal[x[2]]) = 2) \/ x = <<s, d>>
        <5>1. x[1] \in Servers /\ x[2] \in Dests /\ x = <<x[1], x[2]>>
          OBVIOUS
        <5>2. CASE x[2] = d
          BY <2>1, <2>3, <5>1, <5>2
        <5>3. CASE x[2] # d
          BY <1>2, <5>1, <5>3, KernelAssumption
        <5>. QED
          BY <5>2, <5>3
      <4>2. <<s, d>> \in Servers \X Dests
        BY <2>4
      <4>. QED
        BY <4>1, <4>2 DEF Answered
    <3>5. Abstract!Answer(c, s, d)
      BY <1>3, <3>2, <3>3, <3>4 DEF Abstract!Answer
    <3>. QED
      BY <2>4, <3>1, <3>5 DEF Abstract!RelayNext
  <2>5. CASE s \notin Servers
    <3>1. ASSUME NEW x \in Servers \X Dests
          PROVE  (session'[x[2]] = x[1] /\ Len(terminal'[x[2]]) = 2)
                 <=> (session[x[2]] = x[1] /\ Len(terminal[x[2]]) = 2)
      <4>1. x[1] \in Servers /\ x[2] \in Dests
        OBVIOUS
      <4>2. CASE x[2] = d
        BY <2>1, <2>5, <4>1, <4>2
      <4>3. CASE x[2] # d
        BY <1>2, <4>1, <4>3, KernelAssumption
      <4>. QED
        BY <4>2, <4>3
    <3>2. Answered' = Answered
      BY <3>1 DEF Answered
    <3>. QED
      BY <1>3, <3>2 DEF Abstract!relayVars
  <2>. QED
    BY <2>4, <2>5
<1>5. CASE DestAccept(d)
  <2>1. terminal' = terminal /\ Len(terminal[d]) # 2
    <3>1. terminal' = terminal /\ pc[d] = "accept"
      BY <1>5 DEF DestAccept, At
    <3>2. terminal[d] = <<>> /\ Len(<<>>) = 0
      BY <1>1, <3>1 DEF DestStage
    <3>. QED
      BY <3>1, <3>2
  <2>2. Answered' = Answered
    BY <1>2, <2>1, KernelAssumption, AnsweredKept
  <2>. QED
    BY <1>3, <2>2 DEF Abstract!relayVars
<1>6. CASE \/ DestStart(d) \/ DestReceiveFails(d) \/ DestReply(d) \/ DestExit(d)
           \/ DestFault(d) \/ (Kill(d) /\ UNCHANGED destVars)
  <2>1. UNCHANGED <<terminal, session>>
    BY <1>6 DEF DestStart, DestReceiveFails, DestReply, DestExit, DestFault, Kill, Exit, Release,
                Listen, ReadUpFails, SendDown, SendDownFails, netVars, listenVars
  <2>2. Answered' = Answered
    BY <2>1, AnsweredKept
  <2>. QED
    BY <1>3, <2>2 DEF Abstract!relayVars
<1>. QED
  BY <1>4, <1>5, <1>6 DEF DestNext, DestStep

LEMMA InitRelay == Init => Abstract!RelayInit
<1>. SUFFICES ASSUME Init PROVE Abstract!RelayInit
  OBVIOUS
<1>1. \A p \in Hosts : peer[p] = Nobody /\ session[p] = Nobody /\ Len(terminal[p]) = 0
  BY DEF Init, KernelInit
<1>2. Asked = {} /\ ToldOf = {}
  BY <1>1, Triples, KernelAssumption DEF Asked, ToldOf
<1>3. Relayed = {}
  BY <1>1, Triples, KernelAssumption DEF Relayed
<1>4. Answered = {}
  BY <1>1, KernelAssumption DEF Answered
<1>. QED
  BY <1>2, <1>3, <1>4 DEF Abstract!RelayInit

\* The three programs implement the relay, step by step: nobody is asked, answers or
\* is told twice or out of turn (client.c, server.c, destination.c).
THEOREM ProgramsRelay == Spec => RelaySpec
<1>1. IInv /\ Stages /\ Story => Traced
  BY ShownAreTraced
<1>2. IInv /\ Stages /\ Story /\ Traced /\ Traced' /\ [Next]_vars
        => [Abstract!RelayNext]_(Abstract!relayVars)
  <2>. SUFFICES ASSUME IInv, Stages, Story, Traced, Traced', [Next]_vars
                PROVE  [Abstract!RelayNext]_(Abstract!relayVars)
    OBVIOUS
  <2>1. CASE UNCHANGED vars
    BY <2>1, RelayKept DEF vars, kernelVars, clientVars
  <2>2. CASE Next
    BY <2>2, ClientRelays, ServerRelays, DestRelays DEF Next
  <2>. QED
    BY <2>1, <2>2
<1>. QED
  BY <1>1, <1>2, InitRelay, InductiveInvariant, StagesInvariant, StoryInvariant, PTL
     DEF Spec, RelaySpec, Abstract!RelaySpec

-----------------------------------------------------------------------------
(* Nothing is left unread *)

\* The invariant is kept by a step of p if it is kept for p, for whose connection p
\* has accepted, and for whom p has connected to; and, if p ends, for who has
\* connected to it.
LEMMA DrainedStep ==
  ASSUME IInv, Stages, Stages', Drained, NEW p \in Hosts, Onward(p),
         Calm' => Calm,
         \A q \in Hosts \ {p} : outcome'[q] = outcome[q],
         \A q \in Hosts \ {p} : peer[q] # p => downEnd'[q] = downEnd[q],
         \A q \in Hosts \ {p, session[p]} : up'[q] = up[q] /\ down'[q] = down[q],
         \A h \in Hosts : QueueOnce(h)',
         \A h \in Hosts \ (Servers \cup Dests) : session'[h] = Nobody,
         OnePiece(p)', \A q \in Hosts \ {p} : q = session[p] => OnePiece(q)',
         Calm' => AllTaken(p)' /\ ResetUnaccepted(p)',
         Calm' => \A h \in Hosts \ {p} : session[h] = p => AllTaken(h)',
         Calm' /\ pc'[p] = "gone" => \A q \in Hosts \ {p} : peer[q] = p => ResetUnaccepted(q)'
  PROVE  Drained'
<1>1. /\ \A q \in Hosts \ {p} : /\ pc'[q] = pc[q] /\ session'[q] = session[q] /\ peer'[q] = peer[q]
      /\ pc[p] # "gone"
  BY DEF Onward, OnlyAt
<1>2. ASSUME NEW q \in Hosts PROVE OnePiece(q)'
  <2>1. CASE q \in {p, session[p]}
    BY <2>1
  <2>2. CASE q \notin {p, session[p]}
    BY <1>1, <2>2 DEF Drained, OnePiece
  <2>. QED
    BY <2>1, <2>2
<1>3. ASSUME Calm', NEW h \in Hosts \ {p}, session[h] # p PROVE AllTaken(h)'
  <2>. DEFINE q == session[h]
  <2>1. CASE q = Nobody
    BY <1>1, <2>1 DEF AllTaken
  <2>2. CASE q # Nobody
    <3>1. q \in Hosts /\ peer[q] = h /\ q # p /\ q # session[p]
      BY <1>3, <2>2, KernelAssumption DEF IInv, TypeInv, TypeOK, KernelTypeOK, Wiring
    <3>2. /\ pc'[q] = pc[q] /\ pc'[h] = pc[h] /\ up'[q] = up[q] /\ down'[q] = down[q]
          /\ session'[h] = q
      BY <1>1, <3>1
    <3>3. AllTaken(h)
      BY <1>3 DEF Drained
    <3>. QED
      BY <3>2, <3>3 DEF AllTaken, Waits
  <2>. QED
    BY <2>1, <2>2
<1>4. ASSUME Calm', NEW q \in Hosts \ {p} PROVE ResetUnaccepted(q)'
  <2>1. /\ ResetUnaccepted(q) /\ EndStage(q) /\ EndStage(q)'
        /\ pc'[q] = pc[q] /\ peer'[q] = peer[q] /\ outcome'[q] = outcome[q]
    BY <1>1, <1>4 DEF Drained, Stages
  <2>2. CASE peer[q] = p
    <3>1. CASE pc'[p] = "gone"
      BY <1>4, <2>2, <3>1
    <3>2. CASE pc'[p] # "gone"
      <4>1. downEnd[q] = "open" /\ downEnd'[q] = "open"
        BY <1>1, <2>1, <2>2, <3>2 DEF EndStage
      <4>. QED
        BY <2>1, <4>1 DEF ResetUnaccepted
    <3>. QED
      BY <3>1, <3>2
  <2>3. CASE peer[q] # p
    <3>1. downEnd'[q] = downEnd[q]
      BY <2>3
    <3>2. CASE downEnd[q] = "open"
      BY <2>1, <3>1, <3>2 DEF ResetUnaccepted
    <3>3. CASE downEnd[q] # "open"
      <4>1. peer[q] # Nobody /\ peer[q] \in Hosts \ {p}
        BY <2>1, <2>3, <3>3 DEF EndStage, IInv, TypeInv, TypeOK, KernelTypeOK
      <4>2. session'[peer[q]] = session[peer[q]]
        BY <1>1, <4>1
      <4>3. q # session[p]
        BY <2>3, KernelAssumption DEF IInv, Wiring
      <4>4. down'[q] = down[q]
        BY <4>3
      <4>. QED
        BY <2>1, <3>1, <4>2, <4>4 DEF ResetUnaccepted, Waits
    <3>. QED
      BY <3>2, <3>3
  <2>. QED
    BY <2>2, <2>3
<1>. QED
  BY <1>2, <1>3, <1>4 DEF Drained

\* Queues that are left alone or thrown away.
LEMMA QueuesKept ==
  ASSUME Drained, UNCHANGED session, \A h \in Hosts : queue'[h] = queue[h] \/ queue'[h] = <<>>
  PROVE  /\ \A h \in Hosts : QueueOnce(h)'
         /\ \A h \in Hosts \ (Servers \cup Dests) : session'[h] = Nobody
<1>1. ASSUME NEW h \in Hosts PROVE QueueOnce(h)'
  <2>1. CASE queue'[h] = queue[h]
    BY <2>1 DEF Drained, QueueOnce
  <2>2. CASE queue'[h] = <<>>
    <3>1. 1..Len(<<>>) = {}
      OBVIOUS
    <3>. QED
      BY <2>2, <3>1 DEF QueueOnce
  <2>. QED
    BY <2>1, <2>2
<1>. QED
  BY <1>1 DEF Drained

\* What p has accepted is not p itself.
LEMMA NotItself ==
  ASSUME IInv, Stages, NEW h \in Hosts
  PROVE  session[h] # h
<1>1. SUFFICES ASSUME session[h] = h PROVE FALSE
  OBVIOUS
<1>2. peer[h] = h /\ h # Nobody
  BY <1>1, KernelAssumption DEF IInv, Wiring
<1>3. h \in Clients \cup Servers
  BY <1>2 DEF IInv, Wiring
<1>4. CASE h \in Servers
  BY <1>1, <1>2, <1>4, KernelAssumption DEF IInv, Secrecy, ServesClients
<1>5. CASE h \in Clients
  BY <1>2, <1>5 DEF Stages, ClientStage
<1>. QED
  BY <1>3, <1>4, <1>5

\* A step of p that lets no call fail by itself.
Frame(p) ==
  /\ Onward(p)
  /\ Calm' => Calm
  /\ \A q \in Hosts \ {p} : outcome'[q] = outcome[q]

\* When something fails, only the queues and what is sent matter.
LEMMA FaultDrained ==
  ASSUME Drained, NEW p \in Hosts, Onward(p), ~Calm', UNCHANGED <<session, up>>,
         \A h \in Hosts : queue'[h] = queue[h] \/ queue'[h] = <<>>,
         pc'[p] \notin {"send", "forward"}
  PROVE  Drained'
<1>1. \A q \in Hosts : OnePiece(q)'
  BY DEF Drained, OnePiece, Onward, OnlyAt
<1>. QED
  BY <1>1, QueuesKept DEF Drained

\* A step that calls nothing on a connection.
LEMMA QuietDrained ==
  ASSUME IInv, Stages, Stages', Drained, NEW p \in Hosts, Frame(p),
         UNCHANGED <<queue, session, peer, up, down, upEnd, downEnd>>,
         peer[p] = Nobody, session[p] # Nobody => pc[p] \notin {"receive", "reply"},
         pc'[p] \in {"connect", "accept", "exit"}, outcome'[p] \in {outcome[p], "zero", "error"}
  PROVE  Drained'
<1>1. /\ \A q \in Hosts \ {p} : /\ pc'[q] = pc[q] /\ outcome'[q] = outcome[q]
      /\ pc[p] # "gone" /\ Onward(p) /\ (Calm' => Calm)
  BY DEF Onward, OnlyAt, Frame
<1>2. /\ \A h \in Hosts : QueueOnce(h)'
      /\ \A h \in Hosts \ (Servers \cup Dests) : session'[h] = Nobody
  BY QueuesKept
<1>3. \A q \in Hosts : OnePiece(q)'
  BY <1>1 DEF Drained, OnePiece
<1>4. ASSUME Calm' PROVE AllTaken(p)'
  <2>1. AllTaken(p)
    BY <1>1, <1>4 DEF Drained
  <2>2. session[p] # Nobody => session[p] \in Hosts \ {p}
    BY NotItself DEF IInv, TypeInv, TypeOK, KernelTypeOK
  <2>. QED
    BY <1>1, <2>1, <2>2 DEF AllTaken, Waits
<1>5. ASSUME Calm' PROVE ResetUnaccepted(p)'
  <2>1. ResetUnaccepted(p)
    BY <1>1, <1>5 DEF Drained
  <2>. QED
    BY <2>1 DEF ResetUnaccepted, Waits
<1>6. \A h \in Hosts \ {p} : session[h] # p
  BY KernelAssumption DEF IInv, Wiring
<1>. QED
  BY <1>1, <1>2, <1>3, <1>4, <1>5, <1>6, DrainedStep

LEMMA JoinDrained ==
  ASSUME IInv, Stages, Stages', Drained, NEW p \in Hosts, Frame(p), NEW h, Join(p, h),
         peer[p] = Nobody, session[p] # Nobody => pc[p] \notin {"receive", "reply"},
         pc'[p] \in {"send", "forward"}, outcome' = outcome
  PROVE  Drained'
<1>1. /\ \A q \in Hosts \ {p} : /\ pc'[q] = pc[q] /\ outcome'[q] = outcome[q]
      /\ pc[p] # "gone" /\ Onward(p) /\ (Calm' => Calm)
  BY DEF Onward, OnlyAt, Frame
<1>2. /\ h \in Hosts /\ UNCHANGED <<session, up, down, upEnd, downEnd>>
      /\ queue'[h] = Append(queue[h], p) /\ \A g \in Hosts \ {h} : queue'[g] = queue[g]
      /\ queue \in [Hosts -> Seq(Hosts)]
      /\ up[p] = <<>> /\ down[p] = <<>>
  BY KernelAssumption DEF Join, IInv, Wiring, TypeInv, TypeOK, KernelTypeOK
<1>3. ASSUME NEW g \in Hosts PROVE QueueOnce(g)'
  <2>1. QueueOnce(g)
    BY DEF Drained
  <2>2. CASE g # h
    BY <1>2, <2>1, <2>2 DEF QueueOnce
  <2>3. CASE g = h
    <3>1. queue[h] \in Seq(Hosts) /\ Len(queue[h]) \in Nat
      BY <1>2
    <3>2. /\ Len(queue'[h]) = Len(queue[h]) + 1
          /\ \A i \in 1..Len(queue[h]) : queue'[h][i] = queue[h][i]
          /\ queue'[h][Len(queue[h]) + 1] = p
      BY <1>2, <3>1, AppendProperties
    <3>3. \A i \in 1..Len(queue[h]) : queue[h][i] # p
      BY <1>2, <3>1, KernelAssumption DEF IInv, Wiring
    <3>4. session'[h] = session[h] /\ session[h] # p
      <4>1. session' = session /\ h # Nobody
        BY <1>2, KernelAssumption
      <4>2. session[h] # p
        <5>1. p # Nobody /\ h \in Hosts
          BY <1>2, KernelAssumption
        <5>2. session[h] = p => peer[p] = h
          BY <5>1 DEF IInv, Wiring
        <5>. QED
          BY <4>1, <5>2
      <4>. QED
        BY <4>1, <4>2
    <3>5. \A i \in 1..Len(queue'[h]) : i \in 1..Len(queue[h]) \/ i = Len(queue[h]) + 1
      BY <3>1, <3>2
    <3>6. ASSUME NEW i \in 1..Len(queue'[h]), NEW j \in 1..Len(queue'[h]),
                 queue'[h][i] = queue'[h][j]
          PROVE  i = j
      BY <2>1, <2>3, <3>2, <3>3, <3>5, <3>6 DEF QueueOnce
    <3>7. ASSUME NEW i \in 1..Len(queue'[h]) PROVE queue'[h][i] # session'[h]
      BY <2>1, <2>3, <3>2, <3>4, <3>5 DEF QueueOnce
    <3>. QED
      BY <2>3, <3>6, <3>7 DEF QueueOnce
  <2>. QED
    BY <2>2, <2>3
<1>4. \A q \in Hosts : OnePiece(q)'
  <2>1. Len(<<>>) = 0 /\ PacketLen \in Nat
    BY PacketSizes
  <2>. QED
    BY <1>1, <1>2, <2>1, PacketSizes DEF Drained, OnePiece
<1>5. ASSUME Calm' PROVE AllTaken(p)'
  <2>1. AllTaken(p)
    BY <1>1, <1>5 DEF Drained
  <2>2. session[p] # Nobody => session[p] \in Hosts \ {p}
    BY NotItself DEF IInv, TypeInv, TypeOK, KernelTypeOK
  <2>. QED
    BY <1>1, <1>2, <2>1, <2>2 DEF AllTaken, Waits
<1>6. ASSUME Calm' PROVE ResetUnaccepted(p)'
  <2>1. ResetUnaccepted(p) /\ EndStage(p)
    BY <1>1, <1>6 DEF Drained, Stages
  <2>2. downEnd[p] = "open" /\ downEnd'[p] = "open"
    BY <1>2, <2>1 DEF EndStage
  <2>. QED
    BY <2>1, <2>2 DEF ResetUnaccepted
<1>7. \A g \in Hosts \ {p} : session[g] # p
  BY KernelAssumption DEF IInv, Wiring
<1>8. \A g \in Hosts \ (Servers \cup Dests) : session'[g] = Nobody
  BY <1>2 DEF Drained
<1>. QED
  BY <1>1, <1>2, <1>3, <1>4, <1>5, <1>6, <1>7, <1>8, DrainedStep

LEMMA AcceptDrained ==
  ASSUME IInv, Stages, Stages', Drained, NEW p \in Servers \cup Dests, Frame(p), Accept(p),
         UNCHANGED linkVars, pc[p] = "accept", pc'[p] = "receive", outcome' = outcome
  PROVE  Drained'
<1>1. /\ \A q \in Hosts \ {p} : /\ pc'[q] = pc[q] /\ outcome'[q] = outcome[q]
      /\ pc[p] # "gone" /\ Onward(p) /\ (Calm' => Calm) /\ p \in Hosts
  BY KernelAssumption DEF Onward, OnlyAt, Frame
<1>2. /\ UNCHANGED <<peer, up, down, upEnd, downEnd>> /\ queue[p] # <<>>
      /\ session'[p] = Head(queue[p]) /\ \A g \in Hosts \ {p} : session'[g] = session[g]
      /\ queue'[p] = Tail(queue[p]) /\ \A g \in Hosts \ {p} : queue'[g] = queue[g]
      /\ queue \in [Hosts -> Seq(Hosts)]
  BY <1>1 DEF Accept, linkVars, IInv, TypeInv, TypeOK, KernelTypeOK
<1>3. ASSUME NEW g \in Hosts PROVE QueueOnce(g)'
  <2>1. QueueOnce(g)
    BY DEF Drained
  <2>2. CASE g # p
    BY <1>2, <2>1, <2>2 DEF QueueOnce
  <2>3. CASE g = p
    <3>. DEFINE rest == Tail(queue[p])
    <3>1. queue[p] \in Seq(Hosts) /\ Len(queue[p]) \in Nat
      BY <1>1, <1>2
    <3>2. /\ Len(rest) = Len(queue[p]) - 1 /\ Len(queue[p]) >= 1
          /\ \A i \in 1..Len(rest) : rest[i] = queue[p][i + 1]
          /\ Head(queue[p]) = queue[p][1]
      BY <1>2, <3>1, HeadTailProperties, EmptySeq
    <3>. HIDE DEF rest
    <3>3. \A i \in 1..Len(rest) : i + 1 \in 1..Len(queue[p]) /\ i + 1 # 1 /\ 1 \in 1..Len(queue[p])
      BY <3>1, <3>2
    <3>4. \A i \in 1..Len(rest) : rest[i] # queue[p][1]
      BY <2>1, <2>3, <3>2, <3>3 DEF QueueOnce
    <3>5. \A i, j \in 1..Len(rest) : rest[i] = rest[j] => i = j
      <4>1. \A i, j \in 1..Len(rest) : rest[i] = rest[j] => i + 1 = j + 1
        BY <2>1, <2>3, <3>2, <3>3 DEF QueueOnce
      <4>. QED
        BY <4>1
    <3>6. queue'[g] = rest /\ session'[g] = queue[p][1]
      BY <1>2, <2>3, <3>2 DEF rest
    <3>. QED
      BY <3>4, <3>5, <3>6 DEF QueueOnce
  <2>. QED
    BY <2>2, <2>3
<1>4. \A q \in Hosts : OnePiece(q)'
  BY <1>1, <1>2 DEF Drained, OnePiece
<1>5. AllTaken(p)'
  BY DEF AllTaken
<1>6. ASSUME Calm' PROVE ResetUnaccepted(p)'
  <2>1. ResetUnaccepted(p) /\ EndStage(p)
    BY <1>1, <1>6 DEF Drained, Stages
  <2>2. peer[p] = Nobody
    BY KernelAssumption DEF IInv, Wiring
  <2>3. downEnd[p] = "open" /\ downEnd'[p] = "open"
    BY <1>2, <2>1, <2>2 DEF EndStage
  <2>. QED
    BY <2>1, <2>3 DEF ResetUnaccepted
<1>7. \A g \in Hosts \ {p} : session[g] # p
  BY KernelAssumption DEF IInv, Wiring
<1>8. \A g \in Hosts \ (Servers \cup Dests) : session'[g] = Nobody
  BY <1>2 DEF Drained
<1>. QED
  BY <1>1, <1>2, <1>3, <1>4, <1>5, <1>6, <1>7, <1>8, DrainedStep

\* A program sends what it has to send to whom it has connected to, and waits.
LEMMA SendUpDrained ==
  ASSUME IInv, Stages, Stages', Drained, NEW p \in Hosts, Frame(p),
         NEW bytes \in Seq(Cell), Len(bytes) <= PacketLen,
         SendUp(p, bytes) \/ SendUpFails(p),
         pc[p] \in {"send", "forward"}, pc'[p] \in {"receive", "receiveReply", "exit"},
         outcome'[p] \in {outcome[p], "zero", "error"},
         session[p] # Nobody => pc'[p] # "receive"
  PROVE  Drained'
<1>1. /\ \A q \in Hosts \ {p} : /\ pc'[q] = pc[q] /\ outcome'[q] = outcome[q]
      /\ pc[p] # "gone" /\ Onward(p) /\ (Calm' => Calm)
  BY DEF Onward, OnlyAt, Frame
<1>2. /\ UNCHANGED <<queue, session, peer, down, upEnd>>
      /\ \A q \in Hosts \ {p} : up'[q] = up[q] /\ downEnd'[q] = downEnd[q]
      /\ up'[p] \in {up[p], up[p] \o bytes}
      /\ downEnd'[p] # "rst" /\ (downEnd[p] # "open" => downEnd'[p] # "open")
  BY DEF SendUp, SendUpFails, listenVars, IInv, TypeInv, TypeOK, KernelTypeOK
<1>3. /\ \A h \in Hosts : QueueOnce(h)'
      /\ \A h \in Hosts \ (Servers \cup Dests) : session'[h] = Nobody
  BY <1>2, QueuesKept
<1>4. ASSUME NEW q \in Hosts PROVE OnePiece(q)'
  <2>1. CASE q # p
    BY <1>1, <1>2, <2>1 DEF Drained, OnePiece
  <2>2. CASE q = p
    <3>1. up[p] = <<>> /\ Len(up[p]) <= PacketLen
      BY DEF Drained, OnePiece
    <3>2. <<>> \o bytes = bytes
      BY EmptyAppend
    <3>3. up'[p] \in {up[p], bytes}
      BY <1>2, <3>1, <3>2
    <3>. QED
      BY <2>2, <3>1, <3>3 DEF OnePiece
  <2>. QED
    BY <2>1, <2>2
<1>5. ASSUME Calm' PROVE AllTaken(p)'
  <2>1. AllTaken(p)
    BY <1>1, <1>5 DEF Drained
  <2>2. session[p] # Nobody => session[p] \in Hosts \ {p}
    BY NotItself DEF IInv, TypeInv, TypeOK, KernelTypeOK
  <2>. QED
    BY <1>1, <1>2, <2>1, <2>2 DEF AllTaken, Waits
<1>6. ASSUME Calm' PROVE ResetUnaccepted(p)'
  <2>1. ResetUnaccepted(p)
    BY <1>1, <1>6 DEF Drained
  <2>. QED
    BY <1>2, <2>1 DEF ResetUnaccepted
<1>7. ASSUME Calm', NEW h \in Hosts \ {p}, session[h] = p PROVE AllTaken(h)'
  <2>1. AllTaken(h) /\ p # Nobody
    BY <1>1, <1>7, KernelAssumption DEF Drained
  <2>2. pc[h] = "receive"
    BY <1>7, <2>1 DEF AllTaken
  <2>. QED
    BY <1>1, <2>2 DEF AllTaken
<1>. QED
  BY <1>1, <1>2, <1>3, <1>4, <1>5, <1>6, <1>7, DrainedStep

\* What a read leaves behind: nothing, if the buffer is large enough and the read does
\* not come short.
LEMMA DropFacts ==
  ASSUME NEW stream \in Seq(Cell), NEW end, NEW n \in Nat \ {0},
         NEW k \in ReadCounts(stream, end, n)
  PROVE  /\ Len(DropFirst(stream, k)) <= Len(stream)
         /\ Len(stream) <= n /\ ~ShortReads => DropFirst(stream, k) = <<>>
<1>1. k \in 0..Len(stream) /\ Len(stream) \in Nat
  BY ReadCountsFacts
<1>2. Len(DropFirst(stream, k)) = Len(stream) - k
  BY <1>1 DEF DropFirst
<1>3. ASSUME Len(stream) <= n, ~ShortReads PROVE DropFirst(stream, k) = <<>>
  <2>1. CASE stream = <<>>
    BY <2>1, TakenFacts
  <2>2. CASE stream # <<>>
    <3>1. k = Len(stream)
      BY <1>1, <1>3, <2>2 DEF ReadCounts, AtMost
    <3>2. DropFirst(stream, k) \in Seq(Cell) /\ Len(DropFirst(stream, k)) = 0
      BY <1>1, <1>2, <3>1 DEF DropFirst
    <3>. HIDE DEF DropFirst
    <3>. QED
      BY <3>2, EmptySeq
  <2>. QED
    BY <2>1, <2>2
<1>. QED
  BY <1>1, <1>2, <1>3

\* A program reads what the one it has accepted has sent.
LEMMA ReadUpDrained ==
  ASSUME IInv, Stages, Stages', Drained, NEW p \in Servers \cup Dests, Frame(p),
         NEW n \in Nat \ {0}, NEW k, ReadUp(p, k, n),
         p \in Servers => n = PacketLen, p \in Dests => pc'[p] = "reply",
         pc[p] = "receive", pc'[p] \in {"dial", "reply"}, outcome' = outcome
  PROVE  Drained'
<1>. DEFINE q == session[p]
<1>1. /\ \A r \in Hosts \ {p} : /\ pc'[r] = pc[r] /\ outcome'[r] = outcome[r]
      /\ pc[p] # "gone" /\ Onward(p) /\ (Calm' => Calm) /\ p \in Hosts
  BY KernelAssumption DEF Onward, OnlyAt, Frame
<1>2. q \in Hosts /\ q # Nobody /\ q # p /\ peer[q] = p /\ peer[p] = Nobody
  <2>1. q \in Hosts /\ q # Nobody
    BY KernelAssumption DEF IInv, TypeInv, Ready
  <2>2. q # p
    BY <1>1, NotItself
  <2>. QED
    BY <1>1, <2>1, <2>2, KernelAssumption DEF IInv, Wiring
<1>3. /\ UNCHANGED <<queue, session, peer, down, upEnd, downEnd>>
      /\ \A r \in Hosts \ {q} : up'[r] = up[r]
      /\ k \in ReadCounts(up[q], upEnd[q], n)
      /\ up'[q] = DropFirst(up[q], k) /\ up[q] \in Seq(Cell)
  BY <1>2 DEF ReadUp, listenVars, IInv, TypeInv, TypeOK, KernelTypeOK
<1>4. /\ \A h \in Hosts : QueueOnce(h)'
      /\ \A h \in Hosts \ (Servers \cup Dests) : session'[h] = Nobody
  BY <1>3, QueuesKept
<1>5. up[q] = <<>> => upEnd[q] = "fin" /\ up'[q] = <<>>
  BY <1>3, TakenFacts
<1>6. pc[q] \notin {"send", "forward"}
  <2>1. SUFFICES ASSUME pc[q] \in {"send", "forward"} PROVE FALSE
    OBVIOUS
  <2>2. upEnd[q] = "fin"
    BY <1>2, <1>5, <2>1 DEF Drained, OnePiece
  <2>. QED
    BY <1>2, <2>1, <2>2 DEF Stages, EndStage
<1>7. OnePiece(p)'
  BY <1>1, <1>2, <1>3 DEF Drained, OnePiece
<1>8. /\ Len(up'[q]) <= Len(up[q])
      /\ Len(up[q]) <= n /\ ~ShortReads => up'[q] = <<>>
  BY <1>3, DropFacts
<1>9. ASSUME NEW r \in Hosts \ {p}, r = session[p] PROVE OnePiece(r)'
  BY <1>1, <1>2, <1>3, <1>6, <1>8, <1>9, PacketSizes DEF Drained, OnePiece
<1>10. ASSUME Calm' PROVE AllTaken(p)'
  <2>1. ASSUME p \in Servers PROVE up'[q] = <<>>
    BY <1>1, <1>2, <1>3, <1>8, <1>10, <2>1 DEF Drained, OnePiece, Calm
  <2>2. session'[p] = q /\ pc'[q] = pc[q]
    BY <1>1, <1>2, <1>3
  <2>3. p \in Dests => pc'[p] = "reply"
    OBVIOUS
  <2>. HIDE DEF q
  <2>. QED
    BY <1>6, <2>1, <2>2, <2>3 DEF AllTaken, Waits
<1>11. ASSUME Calm' PROVE ResetUnaccepted(p)'
  <2>1. ResetUnaccepted(p) /\ EndStage(p)
    BY <1>1, <1>11 DEF Drained, Stages
  <2>2. downEnd[p] = "open" /\ downEnd'[p] = "open"
    BY <1>2, <1>3, <2>1 DEF EndStage
  <2>. QED
    BY <2>1, <2>2 DEF ResetUnaccepted
<1>12. \A h \in Hosts \ {p} : session[h] # p
  BY <1>1, <1>2, KernelAssumption DEF IInv, Wiring
<1>13. \A r \in Hosts \ {p, session[p]} : up'[r] = up[r] /\ down'[r] = down[r]
  BY <1>3
<1>. HIDE DEF q
<1>. QED
  BY <1>1, <1>3, <1>4, <1>7, <1>9, <1>10, <1>11, <1>12, <1>13, DrainedStep

\* A reset that a program finds where it reads what the one it has accepted has sent.
LEMMA ReadUpFailsDrained ==
  ASSUME IInv, Stages, Stages', Drained, NEW p \in Servers \cup Dests, Frame(p), ReadUpFails(p),
         pc[p] = "receive", pc'[p] = "exit", outcome'[p] = "error"
  PROVE  Drained'
<1>. DEFINE q == session[p]
<1>1. /\ \A r \in Hosts \ {p} : /\ pc'[r] = pc[r] /\ outcome'[r] = outcome[r]
      /\ pc[p] # "gone" /\ Onward(p) /\ (Calm' => Calm) /\ p \in Hosts
  BY KernelAssumption DEF Onward, OnlyAt, Frame
<1>2. q \in Hosts /\ q # Nobody /\ q # p /\ peer[q] = p /\ peer[p] = Nobody
  <2>1. q \in Hosts /\ q # Nobody
    BY KernelAssumption DEF IInv, TypeInv, Ready
  <2>2. q # p
    BY <1>1, NotItself
  <2>. QED
    BY <1>1, <2>1, <2>2, KernelAssumption DEF IInv, Wiring
<1>3. /\ UNCHANGED <<queue, session, peer, up, down, downEnd>>
      /\ up[q] = <<>> /\ upEnd[q] = "rst"
  BY <1>2 DEF ReadUpFails, WasReset, listenVars
<1>4. /\ \A h \in Hosts : QueueOnce(h)'
      /\ \A h \in Hosts \ (Servers \cup Dests) : session'[h] = Nobody
  BY <1>3, QueuesKept
<1>5. pc[q] = "gone"
  BY <1>2, <1>3 DEF Stages, EndStage
<1>6. \A r \in Hosts : OnePiece(r)'
  BY <1>1, <1>3 DEF Drained, OnePiece
<1>7. AllTaken(p)'
  <2>1. session'[p] = q /\ pc'[q] = "gone" /\ up'[q] = <<>>
    BY <1>1, <1>2, <1>3, <1>5
  <2>. HIDE DEF q
  <2>. QED
    BY <2>1 DEF AllTaken, Waits
<1>8. ASSUME Calm' PROVE ResetUnaccepted(p)'
  <2>1. ResetUnaccepted(p)
    BY <1>1, <1>8 DEF Drained
  <2>. QED
    BY <2>1 DEF ResetUnaccepted, Waits
<1>9. \A h \in Hosts \ {p} : session[h] # p
  BY <1>1, <1>2, KernelAssumption DEF IInv, Wiring
<1>. HIDE DEF q
<1>. QED
  BY <1>1, <1>3, <1>4, <1>6, <1>7, <1>8, <1>9, DrainedStep

\* A program reads what the one it has connected to has answered, or finds its
\* connection reset there and dereferences a NULL.
LEMMA ReadDownDrained ==
  ASSUME IInv, Stages, Stages', Drained, NEW p \in Hosts, Frame(p),
         \/ /\ \E k, n : ReadDown(p, k, n)
            /\ outcome'[p] \in {outcome[p], "zero"}
         \/ ReadDownFails(p),
         Waits(p), session[p] # Nobody => pc[p] # "receive",
         pc'[p] \in {"reply", "exit"}
  PROVE  Drained'
<1>1. /\ \A r \in Hosts \ {p} : /\ pc'[r] = pc[r] /\ outcome'[r] = outcome[r]
      /\ pc[p] # "gone" /\ Onward(p) /\ (Calm' => Calm)
  BY DEF Onward, OnlyAt, Frame
<1>2. /\ UNCHANGED <<queue, session, peer, up, upEnd>>
      /\ \A r \in Hosts \ {p} : down'[r] = down[r] /\ downEnd'[r] = downEnd[r]
      /\ \/ downEnd' = downEnd /\ outcome'[p] \in {outcome[p], "zero"}
         \/ down[p] = <<>> /\ downEnd[p] = "rst" /\ downEnd'[p] = "fin"
  BY DEF ReadDown, ReadDownFails, WasReset, listenVars, IInv, TypeInv, TypeOK, KernelTypeOK
<1>3. /\ \A h \in Hosts : QueueOnce(h)'
      /\ \A h \in Hosts \ (Servers \cup Dests) : session'[h] = Nobody
  BY <1>2, QueuesKept
<1>4. \A r \in Hosts : OnePiece(r)'
  BY <1>1, <1>2 DEF Drained, OnePiece
<1>5. ASSUME Calm' PROVE AllTaken(p)'
  <2>1. AllTaken(p)
    BY <1>1, <1>5 DEF Drained
  <2>2. session[p] # Nobody => session[p] \in Hosts \ {p}
    BY NotItself DEF IInv, TypeInv, TypeOK, KernelTypeOK
  <2>3. CASE session[p] = Nobody
    BY <1>2, <2>3 DEF AllTaken
  <2>4. CASE session[p] # Nobody
    <3>1. pc[p] = "receiveReply"
      BY <2>4 DEF Waits
    <3>. QED
      BY <1>1, <1>2, <2>1, <2>2, <2>4, <3>1 DEF AllTaken, Waits
  <2>. QED
    BY <2>3, <2>4
<1>6. ASSUME Calm' PROVE ResetUnaccepted(p)'
  <2>1. ResetUnaccepted(p)
    BY <1>1, <1>6 DEF Drained
  <2>2. ~Waits(p)'
    BY DEF Waits
  <2>3. outcome'[p] = "crashed" => downEnd'[p] # "open" /\ session[peer[p]] # p
    BY <1>2, <2>1 DEF ResetUnaccepted
  <2>. QED
    BY <1>2, <2>2, <2>3 DEF ResetUnaccepted
<1>7. ASSUME Calm', NEW h \in Hosts \ {p}, session[h] = p PROVE AllTaken(h)'
  <2>1. AllTaken(h)
    BY <1>1, <1>7 DEF Drained
  <2>. QED
    BY <1>1, <1>2, <1>7, <2>1 DEF AllTaken, Waits
<1>. QED
  BY <1>1, <1>2, <1>3, <1>4, <1>5, <1>6, <1>7, DrainedStep

\* A program answers the one it has accepted.
LEMMA SendDownDrained ==
  ASSUME IInv, Stages, Stages', Drained, NEW p \in Servers \cup Dests, Frame(p),
         NEW bytes \in Seq(Cell), p \in Dests => bytes # <<>>,
         SendDown(p, bytes) \/ SendDownFails(p),
         pc[p] = "reply", pc'[p] = "exit", outcome'[p] \in {"zero", "error"}
  PROVE  Drained'
<1>. DEFINE q == session[p]
<1>1. /\ \A r \in Hosts \ {p} : /\ pc'[r] = pc[r] /\ outcome'[r] = outcome[r]
      /\ pc[p] # "gone" /\ Onward(p) /\ (Calm' => Calm) /\ p \in Hosts
  BY KernelAssumption DEF Onward, OnlyAt, Frame
<1>2. q \in Hosts /\ q # Nobody /\ q # p /\ peer[q] = p
  <2>1. q \in Hosts /\ q # Nobody
    BY KernelAssumption DEF IInv, TypeInv, Ready
  <2>2. q # p
    BY <1>1, NotItself
  <2>. QED
    BY <1>1, <2>1, <2>2, KernelAssumption DEF IInv, Wiring
<1>3. /\ UNCHANGED <<queue, session, peer, up, downEnd>>
      /\ \A r \in Hosts \ {q} : down'[r] = down[r]
      /\ \/ upEnd[q] # "open" /\ down' = down
         \/ down'[q] = down[q] \o bytes
      /\ down[q] \in Seq(Cell)
  BY <1>2 DEF SendDown, SendDownFails, listenVars, IInv, TypeInv, TypeOK, KernelTypeOK
<1>4. /\ \A h \in Hosts : QueueOnce(h)'
      /\ \A h \in Hosts \ (Servers \cup Dests) : session'[h] = Nobody
  BY <1>3, QueuesKept
<1>5. \A r \in Hosts : OnePiece(r)'
  BY <1>1, <1>3 DEF Drained, OnePiece
<1>6. ASSUME Calm' PROVE AllTaken(p)'
  <2>1. AllTaken(p) /\ EndStage(q)
    BY <1>1, <1>2, <1>6 DEF Drained, Stages
  <2>2. session'[p] = q /\ pc'[q] = pc[q] /\ up'[q] = up[q] /\ session[p] = q
    BY <1>1, <1>2, <1>3
  <2>3. ASSUME p \in Dests, Waits(q) PROVE down'[q] # <<>>
    <3>1. upEnd[q] = "open"
      BY <2>1, <2>3 DEF EndStage, Waits
    <3>2. down'[q] = down[q] \o bytes /\ bytes # <<>>
      BY <1>3, <2>3, <3>1
    <3>. HIDE DEF q
    <3>3. Len(down[q] \o bytes) = Len(down[q]) + Len(bytes) /\ Len(bytes) # 0 /\ Len(bytes) \in Nat
          /\ Len(down[q]) \in Nat
      BY <1>3, <3>2, EmptySeq
    <3>. QED
      BY <3>2, <3>3
  <2>. HIDE DEF q
  <2>4. pc'[q] \in {"receive", "receiveReply"} => Waits(q)
    BY <2>2 DEF Waits
  <2>5. Waits(q) => up[q] = <<>> \/ down'[q] # <<>>
    BY <1>2, <2>1, <2>2, <2>3 DEF AllTaken
  <2>6. pc[q] \notin {"send", "forward"} /\ (p \in Servers => up[q] = <<>>)
    BY <1>2, <2>1, <2>2 DEF AllTaken
  <2>. QED
    BY <2>2, <2>4, <2>5, <2>6 DEF AllTaken, Waits
<1>7. ASSUME Calm' PROVE ResetUnaccepted(p)'
  BY DEF ResetUnaccepted, Waits
<1>8. ASSUME Calm', NEW h \in Hosts \ {p}, session[h] = p PROVE AllTaken(h)'
  <2>1. AllTaken(h)
    BY <1>1, <1>8 DEF Drained
  <2>. QED
    BY <1>1, <1>3, <1>8, <2>1 DEF AllTaken, Waits
<1>9. \A r \in Hosts \ {p, session[p]} : up'[r] = up[r] /\ down'[r] = down[r]
  BY <1>3
<1>. HIDE DEF q
<1>. QED
  BY <1>1, <1>3, <1>4, <1>5, <1>6, <1>7, <1>8, <1>9, DrainedStep

\* A program that has nothing left to do ends: it resets the connections it has not
\* accepted, and the one it has only if there is an answer on it.
LEMMA ExitDrained ==
  ASSUME IInv, Stages, Stages', Drained, NEW p \in Hosts, Frame(p), Exit(p)
  PROVE  Drained'
<1>1. /\ \A r \in Hosts \ {p} : pc'[r] = pc[r]
      /\ pc[p] = "exit" /\ pc'[p] = "gone" /\ Onward(p) /\ (Calm' => Calm)
      /\ outcome' = outcome
  BY DEF Onward, OnlyAt, Frame, Exit, At
<1>2. /\ UNCHANGED <<session, peer, up, down>>
      /\ \A h \in Hosts : queue'[h] = queue[h] \/ queue'[h] = <<>>
      /\ queue \in [Hosts -> Seq(Hosts)]
  BY DEF Exit, Release, IInv, TypeInv, TypeOK, KernelTypeOK
<1>3. PICK e \in IF session[p] = Nobody THEN {"fin"}
                 ELSE ClosedEnds(downEnd[session[p]], up[session[p]]) :
        \A q \in Hosts : downEnd'[q] = IF q \in ToSet(queue[p]) THEN "rst"
                                       ELSE IF q = session[p] THEN e ELSE downEnd[q]
  BY DEF Exit, Release
<1>4. \A q \in ToSet(queue[p]) : peer[q] = p /\ q # session[p]
  BY <1>2 DEF ToSet, Drained, QueueOnce, IInv, Wiring
<1>5. session[p] # Nobody => session[p] \in Hosts \ {p} /\ peer[session[p]] = p
  BY NotItself DEF IInv, TypeInv, TypeOK, KernelTypeOK, Wiring
<1>6. \A h \in Hosts : QueueOnce(h)'
  BY <1>2, QueuesKept
<1>7. \A r \in Hosts : OnePiece(r)'
  BY <1>1, <1>2 DEF Drained, OnePiece
<1>8. \A q \in Hosts \ {p} : peer[q] # p => downEnd'[q] = downEnd[q]
  BY <1>3, <1>4, <1>5, KernelAssumption
<1>9. ASSUME Calm' PROVE AllTaken(p)'
  <2>1. AllTaken(p)
    BY <1>1, <1>9 DEF Drained
  <2>. QED
    BY <1>1, <1>2, <1>5, <2>1 DEF AllTaken, Waits
<1>10. ASSUME Calm' PROVE ResetUnaccepted(p)'
  <2>1. ResetUnaccepted(p)
    BY <1>1, <1>10 DEF Drained
  <2>2. p # session[p]
    BY <1>5, KernelAssumption
  <2>3. downEnd'[p] \in {"rst", downEnd[p]}
    BY <1>3, <2>2
  <2>. QED
    BY <1>1, <1>2, <2>1, <2>3 DEF ResetUnaccepted, Waits
<1>11. ASSUME Calm', NEW h \in Hosts \ {p}, session[h] = p PROVE AllTaken(h)'
  <2>1. AllTaken(h)
    BY <1>1, <1>11 DEF Drained
  <2>. QED
    BY <1>1, <1>2, <1>11, <2>1 DEF AllTaken, Waits
<1>12. ASSUME Calm', NEW q \in Hosts \ {p}, peer[q] = p PROVE ResetUnaccepted(q)'
  <2>1. ResetUnaccepted(q) /\ AllTaken(p) /\ EndStage(q)
    BY <1>1, <1>12 DEF Drained, Stages
  <2>2. downEnd[q] = "open"
    BY <1>1, <1>12, <2>1 DEF EndStage
  <2>3. outcome[q] # "crashed"
    BY <2>1, <2>2 DEF ResetUnaccepted
  <2>4. ASSUME session[p] = q, downEnd'[q] = "rst", Waits(q) PROVE down[q] # <<>>
    <3>1. q \notin ToSet(queue[p]) /\ session[p] # Nobody
      BY <1>4, <2>4, KernelAssumption
    <3>2. "rst" \in ClosedEnds("open", up[q])
      BY <1>3, <2>2, <2>4, <3>1
    <3>3. up[q] # <<>>
      BY <3>2 DEF ClosedEnds
    <3>. QED
      BY <1>1, <2>1, <2>4, <3>1, <3>3 DEF AllTaken
  <2>. QED
    BY <1>1, <1>2, <1>12, <2>3, <2>4 DEF ResetUnaccepted, Waits
<1>13. \A h \in Hosts \ (Servers \cup Dests) : session'[h] = Nobody
  BY <1>2 DEF Drained
<1>. QED
  BY <1>1, <1>2, <1>6, <1>7, <1>8, <1>9, <1>10, <1>11, <1>12, <1>13, DrainedStep

\* How the steps that are not failures frame what the others do.
LEMMA FrameFacts ==
  ASSUME IInv, NEW p \in Hosts, Onward(p), UNCHANGED faults,
         outcome' = outcome \/ \E how : Finish(p, how)
  PROVE  Frame(p)
<1>1. \A q \in Hosts \ {p} : outcome'[q] = outcome[q]
  BY DEF IInv, TypeInv, TypeOK, KernelTypeOK, Finish
<1>. QED
  BY <1>1 DEF Frame, Calm

\* A process is killed or one of its calls fails.
LEMMA FailureDrained ==
  ASSUME IInv, Drained, NEW p \in Hosts, Onward(p),
         \/ Kill(p)
         \/ Fault("call") /\ UNCHANGED netVars /\ pc'[p] \notin {"send", "forward"}
  PROVE  Drained'
<1>1. faults \in Nat
  BY KernelAssumption DEF IInv, TypeInv, TypeOK, KernelTypeOK
<1>2. faults' = faults + 1 /\ pc'[p] \notin {"send", "forward"}
  BY DEF Kill, Fault, Release, IInv, TypeInv, TypeOK, KernelTypeOK
<1>3. ~Calm'
  BY <1>1, <1>2 DEF Calm
<1>4. UNCHANGED <<session, up>> /\ \A h \in Hosts : queue'[h] = queue[h] \/ queue'[h] = <<>>
  BY DEF Kill, Release, netVars, IInv, TypeInv, TypeOK, KernelTypeOK
<1>. QED
  BY <1>2, <1>3, <1>4, FaultDrained

LEMMA ClientDrained ==
  ASSUME IInv, Stages, Drained, NEW c \in Clients, ClientNext(c)
  PROVE  Drained'
<1>1. c \in Hosts /\ Onward(c) /\ Stages' /\ ProcTypeOK
  BY ClientOnward, KernelAssumption, KernelParts DEF IInv, TypeInv, TypeOK
<1>2. session[c] = Nobody
  BY KernelAssumption DEF Drained
<1>3. CASE ClientStart(c) \/ ClientConnectFails(c)
  <2>1. /\ pc[c] \in {"start", "connect"} /\ UNCHANGED netVars /\ UNCHANGED faults
        /\ \/ Goto(c, "connect")
           \/ \E how \in {"zero", "error"} : Finish(c, how)
    BY <1>3 DEF ClientStart, ClientConnectFails, At
  <2>2. /\ pc'[c] \in {"connect", "exit"} /\ outcome'[c] \in {outcome[c], "zero", "error"}
        /\ outcome' = outcome \/ \E how : Finish(c, how)
    BY <1>1, <2>1 DEF ProcTypeOK, Goto, Finish
  <2>3. peer[c] = Nobody /\ Frame(c)
    BY <1>1, <2>1, <2>2, FrameFacts DEF IInv, Wiring
  <2>. QED
    BY <1>1, <1>2, <2>1, <2>2, <2>3, QuietDrained DEF netVars
<1>4. CASE ClientConnect(c)
  <2>1. PICK h \in listening : Join(c, h)
    BY <1>4 DEF ClientConnect, Connect
  <2>2. pc[c] = "connect" /\ pc'[c] = "send" /\ outcome' = outcome /\ UNCHANGED faults
    BY <1>1, <1>4 DEF ClientConnect, At, Goto, ProcTypeOK
  <2>3. peer[c] = Nobody /\ Frame(c)
    BY <1>1, <2>2, FrameFacts DEF IInv, Wiring
  <2>. QED
    BY <1>1, <1>2, <2>1, <2>2, <2>3, JoinDrained
<1>5. CASE ClientSend(c)
  <2>. DEFINE bytes == RequestBytes(RequestPacket(c), Request)
  <2>1. pc[c] = "send" /\ pc'[c] = "receive" /\ outcome' = outcome /\ UNCHANGED faults
    BY <1>1, <1>5 DEF ClientSend, At, Goto, ProcTypeOK
  <2>2. bytes \in Seq(Cell)
    BY <2>1, RequestIsHidden DEF IInv
  <2>3. Len(bytes) <= PacketLen
    <3>1. HostOf[c] \in Hosts /\ destHost[c] \in Hosts
      BY <2>1, KernelAssumption DEF IInv, TypeInv, Ready
    <3>2. RequestPacket(c) \in Packets
      BY <3>1, CellFacts, CreatePacketsFacts, ClientAssumption DEF RequestPacket
    <3>3. Len(bytes) \in HeaderLen..PacketLen
      BY <3>2, HeaderOfRequest, ClientAssumption
    <3>. QED
      BY <3>3, PacketSizes
  <2>4. SendUp(c, bytes) \/ SendUpFails(c)
    BY <1>5 DEF ClientSend
  <2>5. Frame(c)
    BY <1>1, <2>1, FrameFacts
  <2>. HIDE DEF bytes
  <2>. QED
    BY <1>1, <1>2, <2>1, <2>2, <2>3, <2>4, <2>5, SendUpDrained
<1>6. CASE ClientReceive(c) \/ ClientReceiveFails(c)
  <2>1. /\ pc[c] = "receive" /\ UNCHANGED faults /\ \E how : Finish(c, how)
        /\ \/ (\E k, n : ReadDown(c, k, n)) /\ Finish(c, "zero")
           \/ ReadDownFails(c)
    BY <1>6 DEF ClientReceive, ClientReceiveFails, At
  <2>2. pc'[c] = "exit" /\ (Finish(c, "zero") => outcome'[c] = "zero")
    BY <1>1, <2>1 DEF Finish, ProcTypeOK
  <2>3. Frame(c) /\ Waits(c)
    BY <1>1, <2>1, FrameFacts DEF Waits
  <2>. QED
    BY <1>1, <1>2, <2>1, <2>2, <2>3, ReadDownDrained
<1>7. CASE ClientExit(c)
  <2>1. Exit(c) /\ Frame(c)
    BY <1>1, <1>7, FrameFacts DEF ClientExit, Exit
  <2>. QED
    BY <1>1, <2>1, ExitDrained
<1>8. CASE ClientFault(c)
  <2>1. /\ Fault("call") /\ UNCHANGED netVars
        /\ \E l \in {"exit", "receive"} : Goto(c, l) \/ \E how : Finish(c, how)
    BY <1>8 DEF ClientFault
  <2>2. pc'[c] \notin {"send", "forward"}
    BY <1>1, <2>1, PlaceFacts
  <2>. QED
    BY <1>1, <2>1, <2>2, FailureDrained
<1>9. CASE Kill(c)
  BY <1>1, <1>9, FailureDrained
<1>. QED
  BY <1>3, <1>4, <1>5, <1>6, <1>7, <1>8, <1>9 DEF ClientNext, ClientStep

LEMMA ServerDrained ==
  ASSUME IInv, Stages, Drained, NEW s \in Servers, ServerNext(s)
  PROVE  Drained'
<1>1. /\ s \in Hosts /\ s \notin Clients /\ s \notin Dests
      /\ Onward(s) /\ Stages' /\ ProcTypeOK
  BY ServerOnward, KernelAssumption, KernelParts DEF IInv, TypeInv, TypeOK
<1>2. CASE ServerStart(s) \/ ServerDialFails(s)
  <2>1. /\ pc[s] \in {"start", "dial"} /\ UNCHANGED faults
        /\ UNCHANGED <<queue, session, peer, up, down, upEnd, downEnd>>
        /\ \/ Goto(s, "accept")
           \/ \E how \in {"zero", "error"} : Finish(s, how)
    BY <1>2 DEF ServerStart, ServerDialFails, At, Listen, listenVars, linkVars, netVars
  <2>2. /\ pc'[s] \in {"accept", "exit"} /\ outcome'[s] \in {outcome[s], "zero", "error"}
        /\ outcome' = outcome \/ \E how : Finish(s, how)
    BY <1>1, <2>1 DEF ProcTypeOK, Goto, Finish
  <2>3. peer[s] = Nobody /\ Frame(s)
    BY <1>1, <2>1, <2>2, FrameFacts DEF IInv, Wiring
  <2>. QED
    BY <1>1, <2>1, <2>2, <2>3, QuietDrained
<1>3. CASE ServerAccept(s)
  <2>1. /\ pc[s] = "accept" /\ pc'[s] = "receive" /\ outcome' = outcome /\ UNCHANGED faults
        /\ Accept(s) /\ UNCHANGED linkVars
    BY <1>1, <1>3 DEF ServerAccept, At, Goto, ProcTypeOK
  <2>2. Frame(s)
    BY <1>1, <2>1, FrameFacts
  <2>. QED
    BY <2>1, <2>2, <1>1, AcceptDrained
<1>4. CASE ServerReceive(s)
  <2>1. PICK k : ReadUp(s, k, PacketLen)
    BY <1>4 DEF ServerReceive
  <2>2. pc[s] = "receive" /\ pc'[s] = "dial" /\ outcome' = outcome /\ UNCHANGED faults
    BY <1>1, <1>4 DEF ServerReceive, At, Goto, ProcTypeOK
  <2>3. Frame(s) /\ PacketLen \in Nat \ {0}
    BY <1>1, <2>2, FrameFacts, PacketSizes
  <2>. QED
    BY <1>1, <2>1, <2>2, <2>3, ReadUpDrained
<1>5. CASE ServerReceiveFails(s)
  <2>1. /\ pc[s] = "receive" /\ UNCHANGED faults /\ Finish(s, "error") /\ ReadUpFails(s)
    BY <1>5 DEF ServerReceiveFails, At
  <2>2. pc'[s] = "exit" /\ outcome'[s] = "error" /\ Frame(s)
    BY <1>1, <2>1, FrameFacts DEF Finish, ProcTypeOK
  <2>. QED
    BY <1>1, <2>1, <2>2, ReadUpFailsDrained
<1>6. CASE ServerDial(s)
  <2>1. PICK h \in listening : Join(s, h)
    BY <1>6 DEF ServerDial, Connect
  <2>2. pc[s] = "dial" /\ pc'[s] = "forward" /\ outcome' = outcome /\ UNCHANGED faults
    BY <1>1, <1>6 DEF ServerDial, At, Goto, ProcTypeOK
  <2>3. peer[s] = Nobody /\ Frame(s)
    BY <1>1, <2>2, FrameFacts DEF IInv, Wiring
  <2>. QED
    BY <1>1, <2>1, <2>2, <2>3, JoinDrained
<1>7. CASE ServerForward(s)
  <2>1. /\ pc[s] = "forward" /\ UNCHANGED faults
        /\ SendUp(s, packet[s]) \/ SendUpFails(s)
        /\ Goto(s, "receiveReply") \/ Finish(s, "error")
    BY <1>7 DEF ServerForward, At
  <2>2. /\ pc'[s] \in {"receiveReply", "exit"} /\ outcome'[s] \in {outcome[s], "zero", "error"}
        /\ outcome' = outcome \/ \E how : Finish(s, how)
    BY <1>1, <2>1 DEF ProcTypeOK, Goto, Finish
  <2>3. packet[s] \in Seq(Cell) /\ Len(packet[s]) <= PacketLen
    <3>1. packet[s] \in BarePackets
      BY <2>1 DEF IInv, TypeInv, Ready
    <3>. QED
      BY <3>1, PacketsAreSeqs, PacketSizes
  <2>4. Frame(s)
    BY <1>1, <2>1, <2>2, FrameFacts
  <2>. QED
    BY <1>1, <2>1, <2>2, <2>3, <2>4, SendUpDrained
<1>8. CASE ServerReceiveReply(s) \/ ServerReceiveReplyFails(s)
  <2>1. /\ pc[s] = "receiveReply" /\ UNCHANGED faults
        /\ \/ (\E k, n : ReadDown(s, k, n)) /\ Goto(s, "reply")
           \/ ReadDownFails(s) /\ Finish(s, "crashed")
    BY <1>8 DEF ServerReceiveReply, ServerReceiveReplyFails, At
  <2>2. /\ pc'[s] \in {"reply", "exit"} /\ (Goto(s, "reply") => outcome' = outcome)
        /\ outcome' = outcome \/ \E how : Finish(s, how)
    BY <1>1, <2>1 DEF Goto, Finish, ProcTypeOK
  <2>3. Frame(s) /\ Waits(s)
    BY <1>1, <2>1, <2>2, FrameFacts DEF Waits
  <2>. QED
    BY <1>1, <2>1, <2>2, <2>3, ReadDownDrained
<1>9. CASE ServerReply(s)
  <2>. DEFINE bytes == ServCliEncrypt(packet[s])
  <2>1. /\ pc[s] = "reply" /\ UNCHANGED faults /\ Finish(s, "zero")
        /\ SendDown(s, bytes) \/ SendDownFails(s)
    BY <1>9 DEF ServerReply, At
  <2>2. bytes \in Seq(Cell)
    BY <2>1, ServCliEncryptFacts DEF IInv, TypeInv, Ready
  <2>3. pc'[s] = "exit" /\ outcome'[s] = "zero" /\ Frame(s)
    BY <1>1, <2>1, FrameFacts DEF Finish, ProcTypeOK
  <2>. HIDE DEF bytes
  <2>. QED
    BY <1>1, <2>1, <2>2, <2>3, SendDownDrained
<1>10. CASE ServerExit(s)
  <2>1. Exit(s) /\ Frame(s)
    BY <1>1, <1>10, FrameFacts DEF ServerExit, Exit
  <2>. QED
    BY <1>1, <2>1, ExitDrained
<1>11. CASE ServerFault(s)
  <2>1. Fault("call") /\ UNCHANGED netVars /\ \E how : Finish(s, how)
    BY <1>11 DEF ServerFault
  <2>2. pc'[s] = "exit"
    BY <1>1, <2>1, PlaceFacts
  <2>. QED
    BY <1>1, <2>1, <2>2, FailureDrained
<1>12. CASE Kill(s)
  BY <1>1, <1>12, FailureDrained
<1>. QED
  BY <1>2, <1>3, <1>4, <1>5, <1>6, <1>7, <1>8, <1>9, <1>10, <1>11, <1>12
     DEF ServerNext, ServerStep

LEMMA DestDrained ==
  ASSUME IInv, Stages, Drained, NEW d \in Dests, DestNext(d)
  PROVE  Drained'
<1>1. /\ d \in Hosts /\ d \notin Clients /\ d \notin Servers
      /\ Onward(d) /\ Stages' /\ ProcTypeOK
  BY DestOnward, KernelAssumption, KernelParts DEF IInv, TypeInv, TypeOK
<1>2. CASE DestStart(d)
  <2>1. /\ pc[d] = "start" /\ UNCHANGED faults
        /\ UNCHANGED <<queue, session, peer, up, down, upEnd, downEnd>>
        /\ Goto(d, "accept") \/ Finish(d, "zero")
    BY <1>2 DEF DestStart, At, Listen, listenVars, linkVars
  <2>2. /\ pc'[d] \in {"accept", "exit"} /\ outcome'[d] \in {outcome[d], "zero", "error"}
        /\ outcome' = outcome \/ \E how : Finish(d, how)
    BY <1>1, <2>1 DEF ProcTypeOK, Goto, Finish
  <2>3. peer[d] = Nobody /\ Frame(d)
    BY <1>1, <2>1, <2>2, FrameFacts DEF IInv, Wiring
  <2>. QED
    BY <1>1, <2>1, <2>2, <2>3, QuietDrained
<1>3. CASE DestAccept(d)
  <2>1. /\ pc[d] = "accept" /\ pc'[d] = "receive" /\ outcome' = outcome /\ UNCHANGED faults
        /\ Accept(d) /\ UNCHANGED linkVars
    BY <1>1, <1>3 DEF DestAccept, At, Goto, ProcTypeOK
  <2>2. Frame(d)
    BY <1>1, <2>1, FrameFacts
  <2>. QED
    BY <2>1, <2>2, <1>1, AcceptDrained
<1>4. CASE DestReceive(d)
  <2>1. PICK k : ReadUp(d, k, PacketLen - 1)
    BY <1>4 DEF DestReceive
  <2>2. pc[d] = "receive" /\ pc'[d] = "reply" /\ outcome' = outcome /\ UNCHANGED faults
    BY <1>1, <1>4 DEF DestReceive, At, Goto, ProcTypeOK
  <2>3. Frame(d) /\ PacketLen - 1 \in Nat \ {0}
    BY <1>1, <2>2, FrameFacts, PacketSizes
  <2>. QED
    BY <1>1, <2>1, <2>2, <2>3, ReadUpDrained
<1>5. CASE DestReceiveFails(d)
  <2>1. /\ pc[d] = "receive" /\ UNCHANGED faults /\ Finish(d, "error") /\ ReadUpFails(d)
    BY <1>5 DEF DestReceiveFails, At
  <2>2. pc'[d] = "exit" /\ outcome'[d] = "error" /\ Frame(d)
    BY <1>1, <2>1, FrameFacts DEF Finish, ProcTypeOK
  <2>. QED
    BY <1>1, <2>1, <2>2, ReadUpFailsDrained
<1>6. CASE DestReply(d)
  <2>. DEFINE bytes == ReplyBytes(response[d], Reply)
  <2>1. /\ pc[d] = "reply" /\ UNCHANGED faults /\ \E how \in {"zero", "error"} : Finish(d, how)
        /\ SendDown(d, bytes) \/ SendDownFails(d)
    BY <1>6 DEF DestReply, At
  <2>2. response[d] \in BarePackets
    BY <2>1 DEF IInv, TypeInv, Ready
  <2>3. bytes \in Seq(Cell)
    BY <2>2, ReplyBytesFacts, DestinationAssumption
  <2>4. bytes # <<>>
    <3>1. Len(Reply) \in 0..MaxPayload
      BY DestinationAssumption DEF IsText
    <3>2. GetPacketSize(Len(Reply)) = Len(Reply) + 4 /\ Len(response[d]) = PacketLen - 1
      BY <2>2, <3>1, SizeExact, PacketsAreSeqs
    <3>3. Len(bytes) = Len(Reply) + 4
      BY <2>2, <3>1, <3>2, PacketsAreSeqs, PacketSizes, DestinationAssumption DEF ReplyBytes
    <3>. HIDE DEF bytes
    <3>. QED
      BY <3>1, <3>3
  <2>5. pc'[d] = "exit" /\ outcome'[d] \in {"zero", "error"} /\ Frame(d)
    BY <1>1, <2>1, FrameFacts DEF Finish, ProcTypeOK
  <2>. HIDE DEF bytes
  <2>. QED
    BY <1>1, <2>1, <2>3, <2>4, <2>5, SendDownDrained
<1>7. CASE DestExit(d)
  <2>1. Exit(d) /\ Frame(d)
    BY <1>1, <1>7, FrameFacts DEF DestExit, Exit
  <2>. QED
    BY <1>1, <2>1, ExitDrained
<1>8. CASE DestFault(d)
  <2>1. Fault("call") /\ UNCHANGED netVars /\ Finish(d, "error")
    BY <1>8 DEF DestFault
  <2>2. pc'[d] = "exit"
    BY <1>1, <2>1, PlaceFacts
  <2>. QED
    BY <1>1, <2>1, <2>2, FailureDrained
<1>9. CASE Kill(d)
  BY <1>1, <1>9, FailureDrained
<1>. QED
  BY <1>2, <1>3, <1>4, <1>5, <1>6, <1>7, <1>8, <1>9 DEF DestNext, DestStep

LEMMA InitDrained == Init => Drained
<1>. SUFFICES ASSUME Init PROVE Drained
  OBVIOUS
<1>1. \A h \in Hosts : /\ queue[h] = <<>> /\ up[h] = <<>> /\ session[h] = Nobody
                       /\ downEnd[h] = "open" /\ outcome[h] = "running"
  BY DEF Init, KernelInit
<1>2. Len(<<>>) = 0 /\ 1..0 = {} /\ 0 <= PacketLen
  BY PacketSizes
<1>. QED
  BY <1>1, <1>2 DEF Drained, QueueOnce, OnePiece, AllTaken, ResetUnaccepted

LEMMA StutterDrained ==
  ASSUME Drained, UNCHANGED vars
  PROVE  Drained'
<1>1. UNCHANGED <<pc, outcome, queue, session, peer, up, down, downEnd, faults>>
  BY DEF vars, kernelVars
<1>. QED
  BY <1>1 DEF Drained, QueueOnce, OnePiece, AllTaken, ResetUnaccepted, Waits, Calm

\* What is sent on a connection that has been accepted is read before its reader ends, as
\* long as nothing fails and no read comes short: a server's buffer holds whatever a client
\* sends (packet.c:196-206, 232-238), and a destination leaves a byte to those only whom it
\* has answered (packet.c:268-275, destination.c:113-126).
THEOREM NothingIsLeftUnread == Spec => []Drained
<1>1. IInv /\ Stages /\ Drained /\ [Next]_vars => Drained'
  BY ClientDrained, ServerDrained, DestDrained, StutterDrained DEF Next
<1>. QED
  BY <1>1, InitDrained, InductiveInvariant, StagesInvariant, PTL DEF Spec

\* While no call fails, nobody is killed and no read comes short, the one of two connected
\* programs that waits for an answer is not reset by the other, and none gets the NULL that
\* client.c:111-113 and server.c:169-176 dereference, but where its connection was never
\* accepted.
THEOREM AcceptedProgramsNeverCrash == Spec => []AcceptedNeverCrash
<1>1. IInv /\ Drained => AcceptedNeverCrash
  <2>. SUFFICES ASSUME IInv, Drained, NEW p \in Hosts, outcome[p] = "crashed",
                       ~(faults > 0), ~ShortReads
                PROVE  session[peer[p]] # p
    BY DEF AcceptedNeverCrash
  <2>1. faults \in Nat
    BY KernelAssumption DEF IInv, TypeInv, TypeOK, KernelTypeOK
  <2>2. Calm
    BY <2>1 DEF Calm
  <2>. QED
    BY <2>2 DEF Drained, ResetUnaccepted
<1>. QED
  BY <1>1, NothingIsLeftUnread, InductiveInvariant, PTL
=============================================================================
