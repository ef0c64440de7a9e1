---------------------------- MODULE PacketProofs ----------------------------
(***************************************************************************)
(* Lemmas about the functions of Packet: what they return has the shape    *)
(* the programs take it to have, and encryption hides what decryption      *)
(* brings back.                                                            *)
(***************************************************************************)
EXTENDS Packet, SequenceTheorems, FiniteSetTheorems, TLAPS

\* Every non-empty set of naturals has a least element.
LEMMA LeastNatural ==
  ASSUME NEW T, T \subseteq Nat, T # {}
  PROVE  \E x \in T : \A y \in T : x <= y
<1>. DEFINE Below == {0..n : n \in T}
<1>1. Below \subseteq FiniteSubsetsOf(Nat) /\ Below # {}
  <2>1. \A n \in Nat : 0..n \subseteq Nat /\ IsFiniteSet(0..n)
    BY FS_Interval
  <2>. QED
    BY <2>1 DEF FiniteSubsetsOf
<1>2. \E u \in Below : \A v \in Below : ~ (<<v, u>> \in StrictSubsetOrdering(Nat))
  <2>. HIDE DEF Below
  <2>. QED
    BY <1>1, WFMin, FS_StrictSubsetOrderingWellFounded
<1>3. PICK x \in T : \A y \in T : ~ (<<0..y, 0..x>> \in StrictSubsetOrdering(Nat))
  BY <1>2
<1>4. \A y \in T : x <= y
  <2>1. SUFFICES ASSUME NEW y \in T, y < x
                 PROVE  FALSE
    OBVIOUS
  <2>2. x \in 0..x /\ x \notin 0..y /\ 0..y \subseteq 0..x /\ 0..x \subseteq Nat
    BY <2>1
  <2>3. 0..y # 0..x
    BY <2>2
  <2>4. <<0..y, 0..x>> \in StrictSubsetOrdering(Nat)
    BY <2>2, <2>3 DEF StrictSubsetOrdering
  <2>. QED
    BY <2>4, <1>3
<1>. QED
  BY <1>4

\* strlen stops at the first 0 of the payload, or behind the buffer.
LEMMA TextEndProperties ==
  ASSUME NEW b, Len(b) \in Nat, NEW at \in 1..(Len(b) + 1)
  PROVE  /\ TextEnd(b, at) \in at..(Len(b) + 1)
         /\ TextEnd(b, at) <= Len(b) => b[TextEnd(b, at)] = Nul
         /\ \A i \in at..(TextEnd(b, at) - 1) : b[i] # Nul
<1>. DEFINE Stops == {e \in at..(Len(b) + 1) : e <= Len(b) => b[e] = Nul}
<1>1. Stops \subseteq Nat /\ Stops # {}
  <2>1. Len(b) + 1 \in Stops
    OBVIOUS
  <2>. QED
    BY <2>1
<1>2. PICK e \in Stops : \A y \in Stops : e <= y
  BY <1>1, LeastNatural
<1>3. \A i \in at..(e - 1) : b[i] # Nul
  <2>1. SUFFICES ASSUME NEW i \in at..(e - 1), b[i] = Nul
                 PROVE  FALSE
    OBVIOUS
  <2>2. i \in Stops
    BY <2>1
  <2>. QED
    BY <2>2, <1>2
<1>4. \E x \in at..(Len(b) + 1) :
         /\ x <= Len(b) => b[x] = Nul
         /\ \A i \in at..(x - 1) : b[i] # Nul
  BY <1>2, <1>3
<1>. QED
  BY <1>4 DEF TextEnd

\* The sizes of the layout.
LEMMA PacketSizes ==
  /\ MaxPayload \in Nat /\ MaxPayload >= 1
  /\ PacketLen \in Nat /\ PacketLen = MaxPayload + 4
  /\ HeaderLen = 4 /\ PayloadAt = 5 /\ SrcAt = 2 /\ DstAt = 3 /\ FlagsAt = 4
BY SizeAssumption
   DEF PacketLen, HeaderLen, PayloadAt, SrcAt, DstAt, FlagsAt

\* The size of a packet never wraps around in its uint8_t.
LEMMA SizeExact ==
  ASSUME NEW n \in 0..MaxPayload
  PROVE  GetPacketSize(n) = n + 4
BY SizeAssumption, PacketSizes DEF GetPacketSize, PacketLen, HeaderLen

-----------------------------------------------------------------------------
(* Cells *)

LEMMA CellFacts ==
  /\ Nul \in Cell /\ IsPlain(Nul) /\ IsHidden(Nul)
  /\ Clear("gre") \in Cell /\ Clear("syn") \in Cell /\ Clear("ack") \in Cell
  /\ \A h \in Hosts : Clear(h) \in Cell
  /\ \A v : IsPlain(Clear(v))
BY DEF Cell, Values, Clear, Nul, IsPlain, IsHidden

\* XOR turns plain cells into hidden ones and back.
LEMMA FlipFacts ==
  ASSUME NEW cell \in Cell
  PROVE  /\ Flip(cell) \in Cell
         /\ IsPlain(cell) => IsHidden(Flip(cell))
         /\ IsHidden(cell) => IsPlain(Flip(cell))
<1>1. Flip(cell) = [val |-> cell.val, masked |-> ~cell.masked]
  BY DEF Flip, Cell
<1>2. cell.val \in Values /\ cell.masked \in BOOLEAN
  BY DEF Cell
<1>3. cell = [val |-> cell.val, masked |-> cell.masked]
  BY DEF Cell
<1>4. CASE cell.masked
  <2>1. Flip(cell) = [val |-> cell.val, masked |-> FALSE]
    BY <1>1, <1>4
  <2>2. cell # Nul
    BY <1>4 DEF Nul, Clear
  <2>3. IsPlain(cell) => Flip(cell) = Nul
    <3>1. IsPlain(cell) => cell.val = "zero"
      BY <1>4 DEF IsPlain
    <3>. QED
      BY <2>1, <3>1 DEF Nul, Clear
  <2>4. Flip(cell) \in Cell /\ IsPlain(Flip(cell))
    BY <2>1, <1>2 DEF Cell, IsPlain
  <2>. QED
    BY <2>3, <2>4 DEF IsHidden
<1>5. CASE ~cell.masked
  <2>1. Flip(cell) = [val |-> cell.val, masked |-> TRUE]
    BY <1>1, <1>5
  <2>2. IsHidden(cell) => cell.val = "zero"
    BY <1>5 DEF IsHidden, Nul, Clear
  <2>. QED
    BY <2>1, <2>2, <1>2 DEF Cell, IsPlain, IsHidden
<1>. QED
  BY <1>4, <1>5

\* A packet is a sequence of cells.
LEMMA PacketIsSeq ==
  ASSUME NEW n \in Nat, NEW b \in [1..n -> Cell]
  PROVE  b \in Seq(Cell) /\ Len(b) = n /\ DOMAIN b = 1..n
OBVIOUS

LEMMA PacketsAreSeqs ==
  /\ \A b \in Packets : b \in Seq(Cell) /\ Len(b) = PacketLen
  /\ \A b \in BarePackets : b \in Seq(Cell) /\ Len(b) = PacketLen - 1
  /\ PacketLen - 1 \in Nat
<1>1. PacketLen \in Nat /\ PacketLen - 1 \in Nat
  BY PacketSizes
<1>. QED
  BY <1>1, PacketIsSeq DEF Packets, BarePackets

-----------------------------------------------------------------------------
(* Building packets *)

LEMMA AtMostFacts ==
  ASSUME NEW n \in Nat, NEW m \in Nat
  PROVE  AtMost(n, m) \in Nat /\ AtMost(n, m) <= n /\ AtMost(n, m) <= m
BY DEF AtMost

LEMMA CreatePacketsDesFacts ==
  ASSUME NEW src \in Cell, NEW dst \in Cell, NEW flags \in Cell, NEW text, IsText(text)
  PROVE  /\ CreatePacketsDes(src, dst, flags, text) \in Packets
         /\ CreatePacketsDes(src, dst, flags, text)[SrcAt] = src
         /\ CreatePacketsDes(src, dst, flags, text)[DstAt] = dst
         /\ IsPlain(src) /\ IsPlain(dst) /\ IsPlain(flags) =>
              AllPlain(CreatePacketsDes(src, dst, flags, text))
<1>. DEFINE p == CreatePacketsDes(src, dst, flags, text)
<1>1. text \in Seq(Cell) /\ Len(text) \in Nat
  BY DEF IsText
<1>2. ASSUME NEW i \in 1..PacketLen, i >= PayloadAt
      PROVE  p[i] \in Cell /\ IsPlain(p[i])
  <2>1. CASE i - HeaderLen <= AtMost(Len(text), MaxPayload - 1)
    <3>1. i - HeaderLen \in 1..Len(text)
      BY <1>1, <1>2, <2>1, PacketSizes DEF AtMost
    <3>2. p[i] = text[i - HeaderLen]
      BY <1>2, <2>1 DEF CreatePacketsDes
    <3>. QED
      BY <3>1, <3>2, <1>1, ElementOfSeq DEF IsText, AllPlain
  <2>2. CASE ~(i - HeaderLen <= AtMost(Len(text), MaxPayload - 1))
    BY <1>2, <2>2, CellFacts DEF CreatePacketsDes
  <2>. QED
    BY <2>1, <2>2
<1>3. ASSUME NEW i \in 1..PacketLen, ~(i >= PayloadAt)
      PROVE  p[i] = CASE i = SrcAt -> src
                      [] i = DstAt -> dst
                      [] i = FlagsAt -> flags
                      [] OTHER -> Clear("gre")
  BY <1>3 DEF CreatePacketsDes
<1>4. ASSUME NEW i \in 1..PacketLen, ~(i >= PayloadAt)
      PROVE  /\ p[i] \in Cell
             /\ IsPlain(src) /\ IsPlain(dst) /\ IsPlain(flags) => IsPlain(p[i])
  BY <1>3, <1>4, CellFacts
<1>5. p = [i \in 1..PacketLen |-> p[i]]
  BY DEF CreatePacketsDes
<1>6. p \in Packets
  <2>. HIDE DEF p
  <2>. QED
    BY <1>2, <1>4, <1>5 DEF Packets
<1>7. p[SrcAt] = src /\ p[DstAt] = dst
  <2>1. SrcAt \in 1..PacketLen /\ DstAt \in 1..PacketLen
    BY PacketSizes
  <2>2. ~(SrcAt >= PayloadAt) /\ ~(DstAt >= PayloadAt) /\ DstAt # SrcAt
    BY PacketSizes
  <2>3. p[SrcAt] = CASE SrcAt = SrcAt -> src
                     [] SrcAt = DstAt -> dst
                     [] SrcAt = FlagsAt -> flags
                     [] OTHER -> Clear("gre")
    BY <1>3, <2>1, <2>2
  <2>4. p[DstAt] = CASE DstAt = SrcAt -> src
                     [] DstAt = DstAt -> dst
                     [] DstAt = FlagsAt -> flags
                     [] OTHER -> Clear("gre")
    BY <1>3, <2>1, <2>2
  <2>. QED
    BY <2>3, <2>4, PacketSizes
<1>8. Len(p) = PacketLen
  BY <1>6, PacketsAreSeqs
<1>. QED
  BY <1>2, <1>4, <1>6, <1>7, <1>8 DEF AllPlain

LEMMA XorFacts ==
  ASSUME NEW n \in Nat, NEW b \in [1..n -> Cell]
  PROVE  /\ Xor(b) \in [1..n -> Cell]
         /\ AllPlain(b) => AllHidden(Xor(b))
         /\ AllHidden(b) => AllPlain(Xor(b))
<1>1. Xor(b) = [i \in 1..n |-> Flip(b[i])]
  BY DEF Xor
<1>2. \A i \in 1..n : Flip(b[i]) \in Cell
  BY FlipFacts
<1>3. Xor(b) \in [1..n -> Cell]
  BY <1>1, <1>2
<1>4. Len(b) = n /\ Len(Xor(b)) = n
  BY <1>3, PacketIsSeq
<1>. QED
  BY <1>1, <1>3, <1>4, FlipFacts DEF AllPlain, AllHidden

\* One cell of a buffer replaced, or none when the place lies outside it.
LEMMA ExceptFacts ==
  ASSUME NEW n \in Nat, NEW b \in [1..n -> Cell], NEW at, NEW cell \in Cell
  PROVE  /\ [b EXCEPT ![at] = cell] \in [1..n -> Cell]
         /\ AllPlain(b) /\ IsPlain(cell) => AllPlain([b EXCEPT ![at] = cell])
         /\ AllHidden(b) /\ IsHidden(cell) => AllHidden([b EXCEPT ![at] = cell])
<1>. DEFINE c == [b EXCEPT ![at] = cell]
<1>1. c \in [1..n -> Cell] /\ \A i \in 1..n : c[i] = IF i = at THEN cell ELSE b[i]
  OBVIOUS
<1>2. Len(b) = n /\ Len(c) = n
  BY <1>1, PacketIsSeq
<1>. HIDE DEF c
<1>3. /\ AllPlain(b) /\ IsPlain(cell) => AllPlain(c)
      /\ AllHidden(b) /\ IsHidden(cell) => AllHidden(c)
  BY <1>1, <1>2 DEF AllPlain, AllHidden
<1>. QED
  BY <1>1, <1>3 DEF c

\* create_packets encrypts the whole packet.
LEMMA CreatePacketsFacts ==
  ASSUME NEW src \in Cell, NEW dst \in Cell, NEW flags \in Cell, NEW text, IsText(text),
         IsPlain(src), IsPlain(dst), IsPlain(flags)
  PROVE  /\ CreatePackets(src, dst, flags, text) \in Packets
         /\ AllHidden(CreatePackets(src, dst, flags, text))
<1>. DEFINE p == CreatePacketsDes(src, dst, flags, text)
            at == PayloadAt + AtMost(Len(text), MaxPayload - 1)
<1>1. p \in [1..PacketLen -> Cell] /\ AllPlain(p)
  BY CreatePacketsDesFacts DEF Packets
<1>2. CreatePackets(src, dst, flags, text) = [Xor(p) EXCEPT ![at] = Nul]
  BY DEF CreatePackets
<1>. HIDE DEF p, at
<1>3. /\ PacketLen \in Nat
      /\ Xor(p) \in [1..PacketLen -> Cell] /\ AllHidden(Xor(p))
  BY <1>1, XorFacts, PacketSizes
<1>4. /\ [Xor(p) EXCEPT ![at] = Nul] \in [1..PacketLen -> Cell]
      /\ AllHidden([Xor(p) EXCEPT ![at] = Nul])
  <2>. DEFINE x == Xor(p)
  <2>. HIDE DEF x
  <2>1. x \in [1..PacketLen -> Cell] /\ AllHidden(x)
    BY <1>3 DEF x
  <2>2. [x EXCEPT ![at] = Nul] \in [1..PacketLen -> Cell] /\ AllHidden([x EXCEPT ![at] = Nul])
    BY <1>3, <2>1, ExceptFacts, CellFacts
  <2>. QED
    BY <2>2 DEF x
<1>. QED
  BY <1>2, <1>4 DEF Packets

-----------------------------------------------------------------------------
(* Receiving *)

LEMMA ReceivedFacts ==
  ASSUME NEW stream \in Seq(Cell), NEW n \in Nat, NEW k \in 0..Len(stream)
  PROVE  /\ Received(stream, k, n) \in [1..n -> Cell]
         /\ AllPlain(stream) => AllPlain(Received(stream, k, n))
         /\ AllHidden(stream) => AllHidden(Received(stream, k, n))
<1>. DEFINE r == Received(stream, k, n)
<1>1. Len(stream) \in Nat /\ \A i \in 1..Len(stream) : stream[i] \in Cell
  BY ElementOfSeq
<1>2. r = [i \in 1..n |-> IF i <= k THEN stream[i] ELSE Nul]
  BY DEF Received
<1>3. \A i \in 1..n : i <= k => i \in 1..Len(stream)
  BY <1>1
<1>4. r \in [1..n -> Cell]
  BY <1>1, <1>2, <1>3, CellFacts
<1>5. Len(r) = n
  BY <1>4, PacketIsSeq
<1>. QED
  BY <1>2, <1>3, <1>4, <1>5, CellFacts DEF AllPlain, AllHidden

\* serv_rec_from_cli shows what was hidden and hides what was not.
LEMMA DecryptFacts ==
  ASSUME NEW p \in Packets
  PROVE  /\ Decrypt(p) \in Packets
         /\ AllHidden(p) => AllPlain(Decrypt(p))
         /\ AllPlain(p) => AllHidden(Decrypt(p))
<1>1. p \in [1..PacketLen -> Cell] /\ PacketLen \in Nat
  BY PacketSizes DEF Packets
<1>2. /\ Xor(p) \in [1..PacketLen -> Cell]
      /\ AllPlain(p) => AllHidden(Xor(p))
      /\ AllHidden(p) => AllPlain(Xor(p))
  BY <1>1, XorFacts
<1>. QED
  BY <1>1, <1>2, ExceptFacts, CellFacts DEF Decrypt, Packets

-----------------------------------------------------------------------------
(* Cutting and rewriting *)

LEMMA DecapsulateFacts ==
  ASSUME NEW p \in Packets
  PROVE  /\ Decapsulate(p) \in BarePackets
         /\ \A i \in 1..(PacketLen - 1) : Decapsulate(p)[i] = p[i + 1]
         /\ AllPlain(p) => AllPlain(Decapsulate(p))
<1>1. p \in Seq(Cell) /\ Len(p) = PacketLen /\ p # <<>>
  BY PacketsAreSeqs, PacketSizes
<1>2. /\ Tail(p) \in Seq(Cell) /\ Len(Tail(p)) = PacketLen - 1
      /\ \A i \in 1..(PacketLen - 1) : Tail(p)[i] = p[i + 1]
  BY <1>1, HeadTailProperties
<1>3. Tail(p) \in [1..(PacketLen - 1) -> Cell]
  BY <1>2, LenProperties
<1>4. AllPlain(p) => AllPlain(Tail(p))
  BY <1>1, <1>2, PacketSizes DEF AllPlain
<1>. QED
  BY <1>2, <1>3, <1>4 DEF Decapsulate, BarePackets

LEMMA EncapsulateFacts ==
  ASSUME NEW bare \in BarePackets
  PROVE  /\ Encapsulate(bare) \in Packets
         /\ AllPlain(bare) => AllPlain(Encapsulate(bare))
<1>1. bare \in Seq(Cell) /\ Len(bare) = PacketLen - 1
  BY PacketsAreSeqs
<1>2. <<Clear("gre")>> \in Seq(Cell) /\ Len(<<Clear("gre")>>) = 1
  BY CellFacts
<1>3. /\ Encapsulate(bare) \in Seq(Cell)
      /\ Len(Encapsulate(bare)) = PacketLen
      /\ \A i \in 1..PacketLen :
           Encapsulate(bare)[i] = IF i <= 1 THEN <<Clear("gre")>>[i] ELSE bare[i - 1]
  BY <1>1, <1>2, ConcatProperties, PacketSizes DEF Encapsulate
<1>4. Encapsulate(bare) \in [1..PacketLen -> Cell]
  BY <1>3, LenProperties
<1>5. AllPlain(bare) => AllPlain(Encapsulate(bare))
  <2>1. SUFFICES ASSUME AllPlain(bare), NEW i \in 1..PacketLen
                 PROVE  IsPlain(Encapsulate(bare)[i])
    BY <1>3 DEF AllPlain
  <2>2. CASE i <= 1
    <3>1. Encapsulate(bare)[i] = Clear("gre")
      BY <1>3, <2>2
    <3>. QED
      BY <3>1, CellFacts
  <2>3. CASE ~(i <= 1)
    <3>1. i - 1 \in 1..Len(bare) /\ Encapsulate(bare)[i] = bare[i - 1]
      BY <1>1, <1>3, <2>3, PacketSizes
    <3>. QED
      BY <2>1, <3>1 DEF AllPlain
  <2>. QED
    BY <2>2, <2>3
<1>. QED
  BY <1>4, <1>5 DEF Packets

LEMMA ServHandlePktFacts ==
  ASSUME NEW p \in Packets, NEW h \in Hosts
  PROVE  /\ ServHandlePkt(p, h) \in BarePackets
         /\ ServHandlePkt(p, h)[SrcAt - 1] = Clear(h)
         /\ ServHandlePkt(p, h)[DstAt - 1] = p[DstAt]
         /\ AllPlain(p) => AllPlain(ServHandlePkt(p, h))
<1>. DEFINE q == [p EXCEPT ![SrcAt] = Clear(h)]
<1>1. p \in [1..PacketLen -> Cell] /\ PacketLen \in Nat
  BY PacketSizes DEF Packets
<1>2. q \in Packets /\ (AllPlain(p) => AllPlain(q))
  BY <1>1, ExceptFacts, CellFacts DEF Packets
<1>3. q[SrcAt] = Clear(h) /\ q[DstAt] = p[DstAt]
  BY <1>1, PacketSizes
<1>. HIDE DEF q
<1>4. /\ Decapsulate(q) \in BarePackets
      /\ Decapsulate(q)[SrcAt - 1] = q[SrcAt]
      /\ Decapsulate(q)[DstAt - 1] = q[DstAt]
      /\ AllPlain(q) => AllPlain(Decapsulate(q))
  BY <1>2, DecapsulateFacts, PacketSizes
<1>. QED
  BY <1>2, <1>3, <1>4 DEF ServHandlePkt, q

\* Only the address of the source is not the packet's.
LEMMA ServHandlePktCells ==
  ASSUME NEW p \in Packets, NEW h \in Hosts
  PROVE  \A i \in (1..(PacketLen - 1)) \ {SrcAt - 1} : ServHandlePkt(p, h)[i] = p[i + 1]
<1>. DEFINE q == [p EXCEPT ![SrcAt] = Clear(h)]
<1>1. p \in [1..PacketLen -> Cell] /\ PacketLen \in Nat
  BY PacketSizes DEF Packets
<1>2. q \in Packets
  BY <1>1, ExceptFacts, CellFacts DEF Packets
<1>3. \A j \in 1..PacketLen : j # SrcAt => q[j] = p[j]
  BY <1>1
<1>. HIDE DEF q
<1>4. \A i \in 1..(PacketLen - 1) : Decapsulate(q)[i] = q[i + 1]
  BY <1>2, DecapsulateFacts
<1>5. \A i \in (1..(PacketLen - 1)) \ {SrcAt - 1} : i + 1 \in 1..PacketLen /\ i + 1 # SrcAt
  BY PacketSizes
<1>. QED
  BY <1>3, <1>4, <1>5 DEF ServHandlePkt, q

LEMMA ServHandlePktDestFacts ==
  ASSUME NEW p \in Packets, NEW ip \in Cell
  PROVE  /\ ServHandlePktDest(p, ip) \in Packets
         /\ AllPlain(p) /\ IsPlain(ip) => AllPlain(ServHandlePktDest(p, ip))
BY ExceptFacts, PacketSizes DEF ServHandlePktDest, Packets

-----------------------------------------------------------------------------
(* Sending *)

\* A prefix of a buffer.
LEMMA PrefixFacts ==
  ASSUME NEW b \in Seq(Cell), NEW n \in 0..Len(b)
  PROVE  /\ SubSeq(b, 1, n) \in Seq(Cell)
         /\ Len(SubSeq(b, 1, n)) = n
         /\ SubSeq(b, 1, n) \in [1..n -> Cell]
         /\ AllPlain(b) => AllPlain(SubSeq(b, 1, n))
         /\ AllHidden(b) => AllHidden(SubSeq(b, 1, n))
<1>1. \A i \in 1..n : b[i] \in Cell
  BY ElementOfSeq
<1>2. /\ SubSeq(b, 1, n) \in Seq(Cell)
      /\ Len(SubSeq(b, 1, n)) = n
      /\ \A i \in 1..n : SubSeq(b, 1, n)[i] = b[i]
  BY <1>1, SubSeqProperties
<1>3. SubSeq(b, 1, n) \in [1..n -> Cell]
  BY <1>2, LenProperties
<1>4. 1..n \subseteq 1..Len(b)
  BY LenProperties
<1>. QED
  BY <1>2, <1>3, <1>4 DEF AllPlain, AllHidden

LEMMA RequestBytesFacts ==
  ASSUME NEW p \in Packets, NEW text, IsText(text)
  PROVE  /\ RequestBytes(p, text) \in Seq(Cell)
         /\ AllHidden(p) => AllHidden(RequestBytes(p, text))
<1>1. p \in Seq(Cell) /\ Len(p) = PacketLen
  BY PacketsAreSeqs
<1>2. Len(text) \in 0..MaxPayload
  BY DEF IsText
<1>3. GetPacketSize(Len(text)) \in 0..Len(p)
  BY <1>1, <1>2, SizeExact, PacketSizes
<1>. QED
  BY <1>1, <1>3, PrefixFacts DEF RequestBytes

LEMMA ReplyBytesFacts ==
  ASSUME NEW bare \in BarePackets, NEW text, IsText(text), Len(text) < MaxPayload
  PROVE  /\ ReplyBytes(bare, text) \in Seq(Cell)
         /\ AllPlain(bare) => AllPlain(ReplyBytes(bare, text))
<1>1. bare \in Seq(Cell) /\ Len(bare) = PacketLen - 1
  BY PacketsAreSeqs
<1>2. Len(text) \in 0..(MaxPayload - 1)
  BY PacketSizes DEF IsText
<1>3. GetPacketSize(Len(text)) \in 0..Len(bare)
  BY <1>1, <1>2, SizeExact, PacketSizes
<1>. QED
  BY <1>1, <1>3, PrefixFacts DEF ReplyBytes

\* serv_cli_encrypt_free never reads past its packet, and sends it encrypted.
LEMMA ServCliEncryptFacts ==
  ASSUME NEW p \in Packets
  PROVE  /\ ServCliEncrypt(p) \in Seq(Cell)
         /\ AllPlain(p) => AllHidden(ServCliEncrypt(p))
<1>. DEFINE n == GetPacketSize(StrLen(p, PayloadAt))
            sent == SubSeq(p, 1, n)
<1>1. p \in Seq(Cell) /\ Len(p) = PacketLen
  BY PacketsAreSeqs
<1>2. TextEnd(p, PayloadAt) \in PayloadAt..(Len(p) + 1)
  BY <1>1, TextEndProperties, PacketSizes
<1>3. StrLen(p, PayloadAt) \in 0..MaxPayload
  BY <1>1, <1>2, PacketSizes DEF StrLen
<1>4. n \in 0..Len(p) /\ n \in Nat
  BY <1>1, <1>3, SizeExact, PacketSizes
<1>. HIDE DEF n
<1>5. sent \in [1..n -> Cell] /\ (AllPlain(p) => AllPlain(sent))
  BY <1>1, <1>4, PrefixFacts
<1>. HIDE DEF sent
<1>6. Xor(sent) \in [1..n -> Cell] /\ (AllPlain(p) => AllHidden(Xor(sent)))
  BY <1>4, <1>5, XorFacts
<1>7. Xor(sent) \in Seq(Cell)
  BY <1>4, <1>6, PacketIsSeq
<1>. QED
  BY <1>6, <1>7 DEF ServCliEncrypt, sent, n

-----------------------------------------------------------------------------
(* Headers *)

\* XOR-ing a cell twice brings it back, and the key is what it makes of a 0.
LEMMA FlipTwice ==
  ASSUME NEW cell \in Cell
  PROVE  Flip(Flip(cell)) = cell /\ Flip(Nul) = Masked("zero")
<1>1. \A c \in Cell : Flip(c) = [val |-> c.val, masked |-> ~c.masked]
  BY DEF Flip, Cell
<1>2. cell.masked \in BOOLEAN /\ cell = [val |-> cell.val, masked |-> cell.masked]
  BY DEF Cell
<1>3. Flip(cell) \in Cell /\ Nul \in Cell
  BY FlipFacts, CellFacts
<1>4. Flip(Flip(cell)) = cell
  <2>1. CASE cell.masked
    <3>1. Flip(cell) = [val |-> cell.val, masked |-> FALSE]
      BY <1>1, <2>1
    <3>2. Flip(Flip(cell)) = [val |-> cell.val, masked |-> TRUE]
      <4>1. Flip(Flip(cell)) = [val |-> Flip(cell).val, masked |-> ~Flip(cell).masked]
        BY <1>1, <1>3
      <4>2. Flip(cell).val = cell.val /\ Flip(cell).masked = FALSE
        BY <3>1
      <4>3. (~Flip(cell).masked) = TRUE
        BY <4>2
      <4>. QED
        BY <4>1, <4>2, <4>3
    <3>3. cell.masked = TRUE
      BY <1>2, <2>1
    <3>. QED
      BY <1>2, <3>2, <3>3
  <2>2. CASE ~cell.masked
    <3>1. Flip(cell) = [val |-> cell.val, masked |-> TRUE]
      BY <1>1, <2>2
    <3>2. Flip(Flip(cell)) = [val |-> cell.val, masked |-> FALSE]
      <4>1. Flip(Flip(cell)) = [val |-> Flip(cell).val, masked |-> ~Flip(cell).masked]
        BY <1>1, <1>3
      <4>2. Flip(cell).val = cell.val /\ Flip(cell).masked = TRUE
        BY <3>1
      <4>3. (~Flip(cell).masked) = FALSE
        BY <4>2
      <4>. QED
        BY <4>1, <4>2, <4>3
    <3>3. cell.masked = FALSE
      BY <1>2, <2>2
    <3>. QED
      BY <1>2, <3>2, <3>3
  <2>. QED
    BY <2>1, <2>2
<1>5. Flip(Nul) = Masked("zero")
  <2>1. Nul.val = "zero" /\ ~Nul.masked
    BY DEF Nul, Clear
  <2>. QED
    BY <1>1, <1>3, <2>1 DEF Masked
<1>. QED
  BY <1>4, <1>5

\* A request's bytes are those of its packet, from the first on.
LEMMA HeaderOfRequest ==
  ASSUME NEW p \in Packets, NEW t, IsText(t)
  PROVE  /\ Len(RequestBytes(p, t)) \in HeaderLen..PacketLen
         /\ \A i \in 1..HeaderLen : RequestBytes(p, t)[i] = p[i]
<1>1. p \in Seq(Cell) /\ Len(p) = PacketLen
  BY PacketsAreSeqs
<1>2. Len(t) \in 0..MaxPayload
  BY DEF IsText
<1>3. GetPacketSize(Len(t)) = Len(t) + 4
  BY <1>2, SizeExact
<1>. QED
  BY <1>1, <1>2, <1>3, PacketSizes DEF RequestBytes

\* The server's encrypted bytes are as many as its packet needs, header included.
LEMMA HeaderOfReply ==
  ASSUME NEW p \in Packets
  PROVE  /\ Len(ServCliEncrypt(p)) \in HeaderLen..PacketLen
         /\ \A i \in 1..HeaderLen : ServCliEncrypt(p)[i] = Flip(p[i])
<1>. DEFINE n == GetPacketSize(StrLen(p, PayloadAt))
            sent == SubSeq(p, 1, n)
<1>1. p \in Seq(Cell) /\ Len(p) = PacketLen
  BY PacketsAreSeqs
<1>2. TextEnd(p, PayloadAt) \in PayloadAt..(Len(p) + 1)
  BY <1>1, PacketSizes, TextEndProperties
<1>3. StrLen(p, PayloadAt) \in 0..MaxPayload
  BY <1>1, <1>2, PacketSizes DEF StrLen
<1>4. n = StrLen(p, PayloadAt) + 4 /\ n \in HeaderLen..PacketLen
  BY <1>3, SizeExact, PacketSizes
<1>5. Len(sent) = n /\ DOMAIN sent = 1..n /\ \A i \in 1..n : sent[i] = p[i]
  <2>. HIDE DEF n
  <2>. QED
    BY <1>1, <1>4, PacketSizes
<1>6. Xor(sent) = [i \in 1..n |-> Flip(sent[i])]
  <2>. HIDE DEF sent, n
  <2>. QED
    BY <1>5 DEF Xor
<1>7. Len(Xor(sent)) = n /\ \A i \in 1..n : Xor(sent)[i] = Flip(p[i])
  <2>. HIDE DEF sent, n
  <2>. QED
    BY <1>4, <1>5, <1>6, PacketSizes
<1>. QED
  BY <1>4, <1>7, PacketSizes DEF ServCliEncrypt

\* Decryption restores the part of the header that has arrived, and turns the rest
\* of the zeroed buffer into the key.
LEMMA HeaderOfDecrypt ==
  ASSUME NEW stream \in Seq(Cell), NEW k \in 0..Len(stream), NEW i \in 1..HeaderLen
  PROVE  Decrypt(Received(stream, k, PacketLen))[i] =
           IF i <= k THEN Flip(stream[i]) ELSE Masked("zero")
<1>. DEFINE r == Received(stream, k, PacketLen)
            at == AtMost(TextEnd(r, PayloadAt), PacketLen)
<1>1. r \in Packets /\ Len(r) = PacketLen
  BY ReceivedFacts, PacketSizes, PacketsAreSeqs DEF Packets
<1>2. r[i] = IF i <= k THEN stream[i] ELSE Nul
  BY PacketSizes DEF Received
<1>3. at \in Nat /\ at > HeaderLen
  <2>. HIDE DEF r
  <2>1. TextEnd(r, PayloadAt) \in PayloadAt..(PacketLen + 1)
    BY <1>1, PacketSizes, TextEndProperties
  <2>. QED
    BY <2>1, PacketSizes DEF AtMost
<1>4. Decrypt(r)[i] = Flip(r[i])
  <2>1. Decrypt(r) = [Xor(r) EXCEPT ![at] = Nul]
    BY DEF Decrypt
  <2>. HIDE DEF r, at
  <2>2. Xor(r) = [j \in 1..PacketLen |-> Flip(r[j])]
    BY <1>1 DEF Xor, Packets
  <2>3. i \in 1..PacketLen /\ i # at
    BY <1>3, PacketSizes
  <2>. QED
    BY <2>1, <2>2, <2>3
<1>. QED
  BY <1>2, <1>4, FlipTwice, CellFacts

-----------------------------------------------------------------------------
(* Texts *)

\* How much of a text leaves room for its 0, and bytes that carry so much of it,
\* encrypted behind the header, and then nothing but 0s.
Kept(t) == AtMost(Len(t), MaxPayload - 1)

CarriesText(bytes, t) ==
  /\ HeaderLen + Kept(t) <= Len(bytes)
  /\ \A j \in 1..Kept(t) : bytes[HeaderLen + j] = Flip(t[j])
  /\ \A i \in (PayloadAt + Kept(t))..Len(bytes) : bytes[i] = Nul

HoldsText(packet, t) ==
  \A i \in PayloadAt..PacketLen :
    packet[i] = IF i - HeaderLen <= Kept(t) THEN t[i - HeaderLen] ELSE Nul

LEMMA KeptFacts ==
  ASSUME NEW t, IsText(t)
  PROVE  /\ t \in Seq(Cell) /\ Len(t) \in Nat /\ Len(t) <= MaxPayload
         /\ \A j \in 1..Len(t) : t[j] \in Cell /\ t[j] # Nul
         /\ Kept(t) \in Nat /\ Kept(t) <= Len(t) /\ Kept(t) <= MaxPayload - 1
         /\ Kept(t) = Len(t) \/ (Len(t) = MaxPayload /\ Kept(t) = MaxPayload - 1)
BY PacketSizes DEF IsText, Kept, AtMost

\* The end of a text is where the first 0 is.
LEMMA TextEndIs ==
  ASSUME NEW b, Len(b) \in Nat, NEW at \in 1..(Len(b) + 1), NEW e \in at..(Len(b) + 1),
         e <= Len(b) => b[e] = Nul, \A i \in at..(e - 1) : b[i] # Nul
  PROVE  TextEnd(b, at) = e
<1>. DEFINE x == TextEnd(b, at)
<1>1. x \in at..(Len(b) + 1) /\ (x <= Len(b) => b[x] = Nul) /\ \A i \in at..(x - 1) : b[i] # Nul
  BY TextEndProperties
<1>. HIDE DEF x
<1>2. ~(x < e)
  <2>1. SUFFICES ASSUME x < e PROVE FALSE
    OBVIOUS
  <2>2. x \in at..(e - 1) /\ x <= Len(b)
    BY <1>1, <2>1
  <2>. QED
    BY <1>1, <2>2
<1>3. ~(e < x)
  <2>1. SUFFICES ASSUME e < x PROVE FALSE
    OBVIOUS
  <2>2. e \in at..(x - 1) /\ e <= Len(b)
    BY <1>1, <2>1
  <2>. QED
    BY <1>1, <2>2
<1>. QED
  BY <1>1, <1>2, <1>3 DEF x

\* XOR makes a 0 of the key byte and of nothing else.
LEMMA FlipToNul ==
  ASSUME NEW cell \in Cell
  PROVE  Flip(cell) = Nul <=> cell = Masked("zero")
<1>1. Flip(Flip(cell)) = cell /\ Flip(Nul) = Masked("zero") /\ Flip(Flip(Nul)) = Nul
  BY FlipTwice, CellFacts
<1>. QED
  BY <1>1

\* Every text has a first key byte, or none before its end.
LEMMA FirstKeyByte ==
  ASSUME NEW t \in Seq(Cell)
  PROVE  \E b \in 0..Len(t) :
           /\ \A j \in 1..b : t[j] # Masked("zero")
           /\ b < Len(t) => t[b + 1] = Masked("zero")
<1>. DEFINE Stops == {n \in 0..Len(t) : n < Len(t) => t[n + 1] = Masked("zero")}
<1>1. Len(t) \in Nat
  OBVIOUS
<1>2. PICK b \in Stops : \A y \in Stops : b <= y
  <2>1. Stops \subseteq Nat /\ Stops # {}
    <3>1. Len(t) \in Stops
      BY <1>1
    <3>. QED
      BY <1>1, <3>1
  <2>. QED
    BY <2>1, LeastNatural
<1>3. \A j \in 1..b : t[j] # Masked("zero")
  <2>1. SUFFICES ASSUME NEW j \in 1..b, t[j] = Masked("zero") PROVE FALSE
    OBVIOUS
  <2>2. b \in Nat /\ b <= Len(t) /\ j - 1 \in 0..Len(t) /\ (j - 1) + 1 = j
    BY <1>1
  <2>3. j - 1 \in Stops
    BY <2>1, <2>2
  <2>4. b <= j - 1
    BY <1>2, <2>3
  <2>. QED
    BY <2>2, <2>4
<1>. QED
  BY <1>2, <1>3

\* create_packets_des puts the text, as far as it is kept, and 0s into the payload.
LEMMA CreatedHoldsText ==
  ASSUME NEW src, NEW dst, NEW flags, NEW t, IsText(t)
  PROVE  HoldsText(CreatePacketsDes(src, dst, flags, t), t)
<1>. DEFINE p == CreatePacketsDes(src, dst, flags, t)
<1>1. SUFFICES ASSUME NEW i \in PayloadAt..PacketLen
               PROVE  p[i] = IF i - HeaderLen <= Kept(t) THEN t[i - HeaderLen] ELSE Nul
  BY DEF HoldsText
<1>2. i \in 1..PacketLen /\ i >= PayloadAt
  BY PacketSizes
<1>. QED
  BY <1>2 DEF CreatePacketsDes, Kept

\* The bytes of a request carry its text; the 0 is among them only when the text
\* fills the payload.
LEMMA RequestCarriesText ==
  ASSUME NEW src \in Cell, NEW dst \in Cell, NEW flags \in Cell, NEW t, IsText(t)
  PROVE  CarriesText(RequestBytes(CreatePackets(src, dst, flags, t), t), t)
<1>. DEFINE p == CreatePacketsDes(src, dst, flags, t)
            at == PayloadAt + Kept(t)
            sent == [Xor(p) EXCEPT ![at] = Nul]
            n == Len(t) + 4
<1>1. p \in [1..PacketLen -> Cell] /\ HoldsText(p, t)
  BY CreatePacketsDesFacts, CreatedHoldsText DEF Packets
<1>2. CreatePackets(src, dst, flags, t) = sent
  BY DEF CreatePackets, Kept
<1>. HIDE DEF p
<1>3. Xor(p) = [i \in 1..PacketLen |-> Flip(p[i])]
  BY <1>1 DEF Xor
<1>4. at \in Nat /\ at \in 1..PacketLen /\ at = 5 + Kept(t)
  BY KeptFacts, PacketSizes
<1>. HIDE DEF at
<1>5. \A i \in 1..PacketLen : sent[i] = IF i = at THEN Nul ELSE Flip(p[i])
  BY <1>3
<1>6. sent \in Seq(Cell) /\ Len(sent) = PacketLen
  <2>1. sent \in [1..PacketLen -> Cell]
    BY <1>1, <1>3, FlipFacts, CellFacts
  <2>. QED
    BY <2>1, PacketIsSeq, PacketSizes
<1>7. GetPacketSize(Len(t)) = n /\ n \in 0..PacketLen /\ n \in Nat
  BY KeptFacts, SizeExact, PacketSizes
<1>. HIDE DEF sent, n
<1>8. /\ RequestBytes(sent, t) = SubSeq(sent, 1, n) /\ Len(SubSeq(sent, 1, n)) = n
      /\ \A i \in 1..n : SubSeq(sent, 1, n)[i] = sent[i]
  BY <1>6, <1>7 DEF RequestBytes
<1>9. \A j \in 1..Kept(t) : sent[HeaderLen + j] = Flip(t[j])
  <2>1. SUFFICES ASSUME NEW j \in 1..Kept(t) PROVE sent[HeaderLen + j] = Flip(t[j])
    OBVIOUS
  <2>2. /\ HeaderLen + j \in 1..PacketLen /\ HeaderLen + j \in PayloadAt..PacketLen
        /\ HeaderLen + j # at /\ (HeaderLen + j) - HeaderLen = j /\ j <= Kept(t)
    BY <1>4, KeptFacts, PacketSizes
  <2>3. p[HeaderLen + j] = t[j]
    BY <1>1, <2>2 DEF HoldsText
  <2>. QED
    BY <1>5, <2>2, <2>3
<1>10. /\ HeaderLen + Kept(t) <= n /\ \A j \in 1..Kept(t) : HeaderLen + j \in 1..n
       /\ \A i \in (PayloadAt + Kept(t))..n : i \in 1..n /\ i = at
  BY <1>4, KeptFacts, PacketSizes DEF n
<1>11. sent[at] = Nul
  BY <1>4, <1>5
<1>. QED
  BY <1>2, <1>8, <1>9, <1>10, <1>11 DEF CarriesText

\* serv_cli_encrypt_free measures the text it sends where it is in clear.
LEMMA ReplyCarriesText ==
  ASSUME NEW p \in Packets, NEW t, IsText(t), HoldsText(p, t)
  PROVE  CarriesText(ServCliEncrypt(p), t)
<1>. DEFINE n == Kept(t) + 4
            sent == SubSeq(p, 1, n)
<1>1. p \in Seq(Cell) /\ Len(p) = PacketLen
  BY PacketsAreSeqs
<1>2. /\ Kept(t) \in Nat /\ PayloadAt \in 1..(Len(p) + 1)
      /\ PayloadAt + Kept(t) \in PayloadAt..(Len(p) + 1) /\ PayloadAt + Kept(t) \in PayloadAt..PacketLen
      /\ ~((PayloadAt + Kept(t)) - HeaderLen <= Kept(t))
  BY <1>1, KeptFacts, PacketSizes
<1>3. p[PayloadAt + Kept(t)] = Nul
  BY <1>2 DEF HoldsText
<1>4. \A j \in 1..Kept(t) : p[HeaderLen + j] = t[j]
  <2>1. \A j \in 1..Kept(t) : /\ HeaderLen + j \in PayloadAt..PacketLen
                              /\ (HeaderLen + j) - HeaderLen = j /\ j <= Kept(t)
    BY KeptFacts, PacketSizes
  <2>. QED
    BY <2>1 DEF HoldsText
<1>5. \A i \in PayloadAt..((PayloadAt + Kept(t)) - 1) : p[i] # Nul
  <2>1. SUFFICES ASSUME NEW i \in PayloadAt..((PayloadAt + Kept(t)) - 1) PROVE p[i] # Nul
    OBVIOUS
  <2>2. i - HeaderLen \in 1..Kept(t) /\ i - HeaderLen \in 1..Len(t) /\ HeaderLen + (i - HeaderLen) = i
    BY <1>2, KeptFacts, PacketSizes
  <2>. QED
    BY <1>4, <2>2, KeptFacts
<1>6. TextEnd(p, PayloadAt) = PayloadAt + Kept(t)
  BY <1>1, <1>2, <1>3, <1>5, TextEndIs, PacketSizes
<1>7. StrLen(p, PayloadAt) = Kept(t) /\ Kept(t) \in 0..MaxPayload
  BY <1>6, <1>2, KeptFacts, PacketSizes DEF StrLen
<1>8. GetPacketSize(StrLen(p, PayloadAt)) = n /\ n \in Nat /\ n \in 0..PacketLen
  BY <1>7, SizeExact, KeptFacts, PacketSizes
<1>. HIDE DEF n
<1>9. Len(sent) = n /\ DOMAIN sent = 1..n /\ \A i \in 1..n : sent[i] = p[i]
  BY <1>1, <1>8
<1>10. Xor(sent) = [i \in 1..n |-> Flip(sent[i])]
  <2>. HIDE DEF sent
  <2>. QED
    BY <1>9 DEF Xor
<1>. HIDE DEF sent
<1>11. Len(Xor(sent)) = n /\ \A i \in 1..n : Xor(sent)[i] = Flip(p[i])
  BY <1>8, <1>9, <1>10
<1>12. /\ HeaderLen + Kept(t) <= n /\ \A j \in 1..Kept(t) : HeaderLen + j \in 1..n
       /\ \A i \in (PayloadAt + Kept(t))..n : FALSE
  BY <1>2, PacketSizes DEF n
<1>. QED
  BY <1>4, <1>8, <1>11, <1>12 DEF CarriesText, ServCliEncrypt, sent

\* A packet that has its GRE header back and goes to the client.
LEMMA ReaddressedCells ==
  ASSUME NEW bare \in BarePackets, NEW ip \in Cell
  PROVE  /\ ServHandlePktDest(Encapsulate(bare), ip)[DstAt] = ip
         /\ \A i \in (2..PacketLen) \ {DstAt} :
              ServHandlePktDest(Encapsulate(bare), ip)[i] = bare[i - 1]
<1>. DEFINE whole == Encapsulate(bare)
<1>1. whole \in Packets
  BY EncapsulateFacts
<1>2. \A i \in 2..PacketLen : whole[i] = bare[i - 1]
  <2>1. bare \in Seq(Cell) /\ Len(bare) = PacketLen - 1
    BY PacketsAreSeqs
  <2>2. <<Clear("gre")>> \in Seq(Cell) /\ Len(<<Clear("gre")>>) = 1
    BY CellFacts
  <2>3. \A i \in 1..PacketLen :
          whole[i] = IF i <= 1 THEN <<Clear("gre")>>[i] ELSE bare[i - 1]
    BY <2>1, <2>2, ConcatProperties, PacketSizes DEF Encapsulate
  <2>. QED
    BY <2>3, PacketSizes
<1>. HIDE DEF whole
<1>. QED
  BY <1>1, <1>2, PacketSizes DEF ServHandlePktDest, Packets, whole

\* The way of an answer through destination and server leaves its text alone.
LEMMA AnswerHoldsText ==
  ASSUME NEW p \in Packets, NEW ip \in Cell, NEW t, HoldsText(p, t)
  PROVE  HoldsText(ServHandlePktDest(Encapsulate(Decapsulate(p)), ip), t)
<1>. DEFINE bare == Decapsulate(p)
<1>1. bare \in BarePackets /\ \A i \in 1..(PacketLen - 1) : bare[i] = p[i + 1]
  BY DecapsulateFacts
<1>. HIDE DEF bare
<1>2. \A i \in PayloadAt..PacketLen :
        /\ i \in (2..PacketLen) \ {DstAt}
        /\ i - 1 \in 1..(PacketLen - 1) /\ (i - 1) + 1 = i
  BY PacketSizes
<1>3. \A i \in PayloadAt..PacketLen : ServHandlePktDest(Encapsulate(bare), ip)[i] = p[i]
  BY <1>1, <1>2, ReaddressedCells
<1>. QED
  BY <1>3 DEF HoldsText, bare

\* How much of a kept text is among the first k bytes of a packet.
Arrived(t, k) == IF k <= HeaderLen THEN 0 ELSE AtMost(Kept(t), k - HeaderLen)

\* What the receiver of any part of these bytes, or of none, reads of the text: what
\* has arrived of it, up to the first character that is the key byte.
LEMMA ReceivedPart ==
  ASSUME NEW bytes \in Seq(Cell), Len(bytes) <= PacketLen, NEW t, IsText(t),
         CarriesText(bytes, t), NEW k \in 0..Len(bytes), NEW b \in 0..Len(t),
         \A j \in 1..b : t[j] # Masked("zero"), b < Len(t) => t[b + 1] = Masked("zero")
  PROVE  TextOf(Decrypt(Received(bytes, k, PacketLen)), PayloadAt)
           = [j \in 1..AtMost(b, Arrived(t, k)) |-> t[j]]
<1>. DEFINE r == Received(bytes, k, PacketLen)
            d == Decrypt(r)
            c == Arrived(t, k)
<1>. DEFINE e == AtMost(b, c)
            end == PayloadAt + e
<1>2. /\ k \in Nat /\ k <= Len(bytes) /\ Len(bytes) \in Nat
      /\ c \in Nat /\ c <= Kept(t) /\ c <= MaxPayload - 1
      /\ \A j \in 1..c : HeaderLen + j <= k
      /\ c < Kept(t) => \A i \in (PayloadAt + c)..PacketLen : i > k
  BY KeptFacts, PacketSizes DEF AtMost, Arrived
<1>3. r \in Packets /\ r \in Seq(Cell) /\ Len(r) = PacketLen
  BY ReceivedFacts, PacketSizes, PacketsAreSeqs DEF Packets
<1>4. \A i \in 1..PacketLen : r[i] = IF i <= k THEN bytes[i] ELSE Nul
  BY DEF Received
<1>5. c <= Len(t)
  BY <1>2, KeptFacts
<1>. HIDE DEF r, c
<1>6. \A j \in 1..c : r[HeaderLen + j] = Flip(t[j])
  <2>1. SUFFICES ASSUME NEW j \in 1..c PROVE r[HeaderLen + j] = Flip(t[j])
    OBVIOUS
  <2>2. HeaderLen + j <= k
    BY <1>2
  <2>3. HeaderLen + j \in 1..PacketLen /\ j \in 1..Kept(t)
    <3>1. j \in Nat /\ j >= 1 /\ j <= Kept(t) /\ j <= MaxPayload - 1 /\ Kept(t) \in Nat
      BY <1>2, KeptFacts, PacketSizes
    <3>. QED
      BY <3>1, PacketSizes
  <2>. QED
    BY <1>4, <2>2, <2>3 DEF CarriesText
<1>7. \A i \in (PayloadAt + c)..PacketLen : r[i] = Nul
  <2>1. SUFFICES ASSUME NEW i \in (PayloadAt + c)..PacketLen PROVE r[i] = Nul
    OBVIOUS
  <2>2. i \in 1..PacketLen
    BY <1>2, PacketSizes
  <2>3. CASE i > k
    <3>1. ~(i <= k)
      BY <1>2, <2>2, <2>3
    <3>. QED
      BY <1>4, <2>2, <3>1
  <2>4. CASE i <= k
    <3>1. c = Kept(t)
      BY <1>2, <2>2, <2>4, KeptFacts
    <3>2. i \in (PayloadAt + Kept(t))..Len(bytes)
      BY <1>2, <2>4, <3>1, KeptFacts, PacketSizes
    <3>. QED
      BY <1>4, <2>2, <2>4, <3>2 DEF CarriesText
  <2>. QED
    BY <1>2, <2>2, <2>3, <2>4
<1>8. /\ e \in Nat /\ e <= b /\ e <= c /\ (e = b \/ e = c) /\ b \in Nat /\ b <= Len(t)
      /\ end = 5 + e /\ end \in PayloadAt..PacketLen /\ end \in 1..PacketLen
  BY <1>2, KeptFacts, PacketSizes DEF AtMost
<1>9. r[end] = Nul
  <2>1. CASE e = c
    BY <1>7, <1>8, <2>1, PacketSizes
  <2>2. CASE e = b /\ b < c
    <3>1. b < Len(t) /\ b + 1 \in 1..c /\ HeaderLen + (b + 1) = end /\ b + 1 \in 1..Len(t)
      BY <1>5, <1>8, <2>2, <1>2, PacketSizes, KeptFacts
    <3>2. t[b + 1] = Masked("zero") /\ t[b + 1] \in Cell
      BY <3>1, KeptFacts
    <3>. QED
      BY <1>6, <3>1, <3>2, FlipToNul
  <2>. QED
    BY <1>2, <1>8, <2>1, <2>2
<1>10. \A j \in 1..e : /\ HeaderLen + j \in 1..PacketLen /\ HeaderLen + j # end
                       /\ r[HeaderLen + j] = Flip(t[j]) /\ t[j] \in Cell
                       /\ t[j] # Nul /\ t[j] # Masked("zero")
  <2>1. SUFFICES ASSUME NEW j \in 1..e
                 PROVE  /\ HeaderLen + j \in 1..PacketLen /\ HeaderLen + j # end
                        /\ r[HeaderLen + j] = Flip(t[j]) /\ t[j] \in Cell
                        /\ t[j] # Nul /\ t[j] # Masked("zero")
    OBVIOUS
  <2>2. j \in 1..b /\ j \in 1..c /\ j \in 1..Len(t)
    BY <1>2, <1>8, KeptFacts
  <2>3. HeaderLen + j \in 1..PacketLen /\ HeaderLen + j # end
    BY <1>8, PacketSizes
  <2>. QED
    BY <1>6, <2>2, <2>3, KeptFacts
<1>11. \A i \in PayloadAt..(end - 1) : i - HeaderLen \in 1..e /\ HeaderLen + (i - HeaderLen) = i
  BY <1>8, PacketSizes
<1>. HIDE DEF e, end
<1>12. TextEnd(r, PayloadAt) = end
  <2>1. \A i \in PayloadAt..(end - 1) : r[i] # Nul
    BY <1>10, <1>11, FlipToNul
  <2>2. /\ Len(r) \in Nat /\ PayloadAt \in 1..(Len(r) + 1)
        /\ end \in PayloadAt..(Len(r) + 1)
    BY <1>3, <1>8, PacketSizes
  <2>. QED
    BY <1>9, <2>1, <2>2, TextEndIs
<1>13. d = [Xor(r) EXCEPT ![end] = Nul]
  <2>1. AtMost(end, PacketLen) = end
    BY <1>8, PacketSizes DEF AtMost
  <2>. QED
    BY <1>12, <2>1 DEF Decrypt
<1>14. /\ d \in Seq(Cell) /\ Len(d) = PacketLen
  BY <1>3, DecryptFacts, PacketsAreSeqs
<1>15. d[end] = Nul /\ \A i \in 1..PacketLen : i # end => d[i] = Flip(r[i])
  <2>1. Xor(r) = [i \in 1..PacketLen |-> Flip(r[i])]
    BY <1>3 DEF Xor, Packets
  <2>. QED
    BY <1>8, <1>13, <2>1
<1>. HIDE DEF d
<1>16. \A j \in 1..e : d[HeaderLen + j] = t[j]
  BY <1>10, <1>15, FlipTwice
<1>17. TextEnd(d, PayloadAt) = end
  <2>1. \A i \in PayloadAt..(end - 1) : d[i] # Nul
    BY <1>10, <1>11, <1>16
  <2>2. /\ Len(d) \in Nat /\ PayloadAt \in 1..(Len(d) + 1)
        /\ end \in PayloadAt..(Len(d) + 1)
    BY <1>8, <1>14, PacketSizes
  <2>. QED
    BY <1>15, <2>1, <2>2, TextEndIs
<1>18. TextOf(d, PayloadAt) = [j \in 1..e |-> t[j]]
  <2>1. TextOf(d, PayloadAt) = SubSeq(d, PayloadAt, end - 1)
    BY <1>17 DEF TextOf
  <2>2. SubSeq(d, PayloadAt, end - 1) = [j \in 1..e |-> d[HeaderLen + j]]
    BY <1>8, <1>14, PacketSizes
  <2>. QED
    BY <1>16, <2>1, <2>2
<1>. QED
  BY <1>18 DEF d, r, e, c
=============================================================================
