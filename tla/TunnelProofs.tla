---------------------------- MODULE TunnelProofs ----------------------------
(***************************************************************************)
(* One encrypted transfer of any text, in a packet of any size: the sizes  *)
(* fit, the wire is encrypted, the header that arrives is the one that was *)
(* sent, and what is read of the text is what the receiver can tell of it. *)
(***************************************************************************)
EXTENDS Tunnel, PacketProofs

\* What is on the wire starts with the encrypted header, and nothing is received
\* before something has been sent.
TunnelInv ==
  /\ TunnelTypeOK
  /\ wire \in Seq(Cell)
  /\ plain = Nothing => count = 0 /\ shown = Nothing
  /\ plain # Nothing =>
       /\ HeaderLen <= Len(wire)
       /\ \A i \in 1..HeaderLen : wire[i] = Flip(plain[i])
  /\ WireEncrypted
  /\ HeadersArrive

-----------------------------------------------------------------------------
(* What the receiver reads *)

\* The characters before the first key byte are a prefix of the text.
LEMMA BeforeKeyByteFacts ==
  ASSUME NEW t \in Seq(Cell)
  PROVE  \E b \in 0..Len(t) :
           /\ BeforeKeyByte(t) = SubSeq(t, 1, b)
           /\ Len(SubSeq(t, 1, b)) = b
           /\ \A j \in 1..b : t[j] # Masked("zero")
           /\ b < Len(t) => t[b + 1] = Masked("zero")
<1>. DEFINE Starts == {SubSeq(t, 1, n) : n \in 0..Len(t)}
            Good(u) == /\ \A i \in 1..Len(u) : u[i] # Masked("zero")
                       /\ Len(u) < Len(t) => t[Len(u) + 1] = Masked("zero")
<1>1. \A n \in 0..Len(t) : /\ Len(SubSeq(t, 1, n)) = n
                           /\ \A i \in 1..n : SubSeq(t, 1, n)[i] = t[i]
  OBVIOUS
<1>2. \E u \in Starts : Good(u)
  <2>1. PICK b \in 0..Len(t) :
               /\ \A j \in 1..b : t[j] # Masked("zero")
               /\ b < Len(t) => t[b + 1] = Masked("zero")
    BY FirstKeyByte
  <2>2. SubSeq(t, 1, b) \in Starts
    OBVIOUS
  <2>3. Good(SubSeq(t, 1, b))
    BY <1>1, <2>1
  <2>. QED
    BY <2>2, <2>3
<1>3. BeforeKeyByte(t) \in Starts /\ Good(BeforeKeyByte(t))
  BY <1>2 DEF BeforeKeyByte
<1>4. PICK n \in 0..Len(t) : BeforeKeyByte(t) = SubSeq(t, 1, n)
  BY <1>3
<1>5. /\ \A j \in 1..n : t[j] # Masked("zero")
      /\ n < Len(t) => t[n + 1] = Masked("zero")
  BY <1>1, <1>3, <1>4
<1>. QED
  BY <1>1, <1>4, <1>5

\* What the receiver of any part of these bytes reads of the text.
LEMMA ReceivedText ==
  ASSUME NEW bytes \in Seq(Cell), Len(bytes) <= PacketLen, NEW t, IsText(t),
         CarriesText(bytes, t), NEW k \in 1..Len(bytes)
  PROVE  TextOf(Decrypt(Received(bytes, k, PacketLen)), PayloadAt)
           = FirstOf(BeforeKeyByte(t), AtMost(MaxPayload - 1, k - HeaderLen))
<1>1. PICK b \in 0..Len(t) :
           /\ BeforeKeyByte(t) = SubSeq(t, 1, b)
           /\ Len(SubSeq(t, 1, b)) = b
           /\ \A j \in 1..b : t[j] # Masked("zero")
           /\ b < Len(t) => t[b + 1] = Masked("zero")
  BY KeptFacts, BeforeKeyByteFacts
<1>. DEFINE c == Arrived(t, k)
            e == AtMost(b, c)
            u == SubSeq(t, 1, b)
            n == AtMost(AtMost(MaxPayload - 1, k - HeaderLen), b)
<1>2. k \in Nat /\ k <= Len(bytes) /\ Len(bytes) \in Nat /\ c \in Nat
  BY KeptFacts, PacketSizes DEF AtMost, Arrived
<1>3. TextOf(Decrypt(Received(bytes, k, PacketLen)), PayloadAt) = [j \in 1..e |-> t[j]]
  BY <1>1, ReceivedPart
<1>4. e \in Nat /\ e <= b /\ b \in Nat /\ b <= Len(t)
  BY <1>1, <1>2, KeptFacts DEF AtMost
<1>5. /\ u \in Seq(Cell) /\ Len(u) = b /\ \A j \in 1..b : u[j] = t[j]
  BY <1>1, <1>4, KeptFacts
<1>6. n \in Int /\ n <= b /\ 1..n = 1..e
  <2>1. k > 4 => n = e
    BY <1>1, <1>2, <1>4, KeptFacts, PacketSizes DEF AtMost, Arrived
  <2>2. k <= 4 => n <= 0 /\ e = 0 /\ n \in Int
    BY <1>1, <1>2, <1>4, KeptFacts, PacketSizes DEF AtMost, Arrived
  <2>. QED
    BY <1>2, <1>4, <2>1, <2>2
<1>. HIDE DEF u, n, e
<1>7. SubSeq(u, 1, n) = [j \in 1..n |-> u[j]]
  BY <1>5, <1>6
<1>8. [j \in 1..n |-> u[j]] = [j \in 1..e |-> t[j]]
  BY <1>4, <1>5, <1>6
<1>9. FirstOf(BeforeKeyByte(t), AtMost(MaxPayload - 1, k - HeaderLen)) = SubSeq(u, 1, n)
  BY <1>1, <1>5 DEF FirstOf, u, n
<1>. QED
  BY <1>3, <1>7, <1>8, <1>9

-----------------------------------------------------------------------------
(* Steps *)

\* Whatever a sender puts on the wire, the receiver has received nothing yet.
LEMMA SentKeepsInv ==
  ASSUME TunnelInv, plain = Nothing, UNCHANGED <<count, shown>>,
         text' \in Texts, plain' \in Packets, wire' \in Seq(Cell), AllHidden(wire'),
         Len(wire') \in HeaderLen..PacketLen,
         \A i \in 1..HeaderLen : wire'[i] = Flip(plain'[i])
  PROVE  TunnelInv'
<1>1. count' = 0 /\ shown' = Nothing
  BY DEF TunnelInv
<1>2. TunnelTypeOK'
  <2>1. Len(wire') \in Nat /\ Len(wire') <= PacketLen
    BY PacketSizes
  <2>2. \A i \in 1..Len(wire') : wire'[i] \in Cell
    OBVIOUS
  <2>. QED
    BY <1>1, <2>1, <2>2 DEF TunnelTypeOK
<1>3. HeaderLen <= Len(wire')
  BY PacketSizes
<1>. QED
  BY <1>1, <1>2, <1>3 DEF TunnelInv, WireEncrypted, HeadersArrive

LEMMA TunnelInvInit == TunnelInit => TunnelInv
<1>. SUFFICES ASSUME TunnelInit PROVE TunnelInv
  OBVIOUS
<1>1. wire \in Seq(Cell) /\ Len(wire) = 0 /\ AllHidden(wire)
  BY DEF TunnelInit, AllHidden
<1>2. TunnelTypeOK
  BY <1>1, PacketSizes DEF TunnelInit, TunnelTypeOK
<1>. QED
  BY <1>1, <1>2 DEF TunnelInit, TunnelInv, WireEncrypted, HeadersArrive

LEMMA TunnelInvNext == TunnelInv /\ [TunnelNext]_tunnelVars => TunnelInv'
<1>. SUFFICES ASSUME TunnelInv, [TunnelNext]_tunnelVars
              PROVE  TunnelInv'
  OBVIOUS
<1>. DEFINE src == Clear(Src)
            dst == Clear(Dst)
<1>1. /\ src \in Cell /\ IsPlain(src)
      /\ dst \in Cell /\ IsPlain(dst)
  BY TunnelAssumption, CellFacts
<1>2. /\ Clear("syn") \in Cell /\ IsPlain(Clear("syn"))
      /\ Clear("ack") \in Cell /\ IsPlain(Clear("ack"))
      /\ Nul \in Cell /\ IsPlain(Nul)
  BY CellFacts
<1>3. ASSUME NEW t \in Texts, SendRequest(t)
      PROVE  TunnelInv'
  <2>. DEFINE clear == CreatePacketsDes(src, dst, Clear("syn"), t)
              sent == CreatePackets(src, dst, Clear("syn"), t)
  <2>1. IsText(t)
    BY TunnelAssumption
  <2>2. clear \in Packets /\ sent \in Packets /\ AllHidden(sent)
    BY <1>1, <1>2, <2>1, CreatePacketsDesFacts, CreatePacketsFacts
  <2>3. \A i \in 1..HeaderLen : sent[i] = Flip(clear[i])
    <3>. DEFINE at == PayloadAt + AtMost(Len(t), MaxPayload - 1)
    <3>1. at \in Nat /\ at > HeaderLen
      BY <2>1, PacketSizes DEF IsText, AtMost
    <3>2. sent = [Xor(clear) EXCEPT ![at] = Nul]
      BY DEF CreatePackets
    <3>. HIDE DEF clear, sent, at
    <3>3. Xor(clear) = [j \in 1..PacketLen |-> Flip(clear[j])]
      BY <2>2 DEF Xor, Packets
    <3>4. \A i \in 1..HeaderLen : i \in 1..PacketLen /\ i # at
      BY <3>1, PacketSizes
    <3>. QED
      BY <3>2, <3>3, <3>4
  <2>4. /\ plain' = clear /\ wire' = RequestBytes(sent, t) /\ text' = t
        /\ plain = Nothing /\ UNCHANGED <<count, shown>>
    BY <1>3 DEF SendRequest
  <2>. HIDE DEF clear, sent
  <2>5. /\ wire' \in Seq(Cell) /\ AllHidden(wire')
        /\ Len(wire') \in HeaderLen..PacketLen
        /\ \A i \in 1..HeaderLen : wire'[i] = Flip(plain'[i])
    BY <2>1, <2>2, <2>3, <2>4, RequestBytesFacts, HeaderOfRequest
  <2>. QED
    BY <2>2, <2>4, <2>5, SentKeepsInv
<1>4. ASSUME NEW t \in Texts, SendReply(t)
      PROVE  TunnelInv'
  <2>. DEFINE clear == CreatePacketsDes(src, Nul, Clear("ack"), t)
              answer == ServHandlePktDest(Encapsulate(Decapsulate(clear)), dst)
  <2>1. IsText(t)
    BY TunnelAssumption
  <2>2. clear \in Packets /\ AllPlain(clear)
    BY <1>1, <1>2, <2>1, CreatePacketsDesFacts
  <2>3. answer \in Packets /\ AllPlain(answer)
    <3>. HIDE DEF clear
    <3>1. Decapsulate(clear) \in BarePackets /\ AllPlain(Decapsulate(clear))
      BY <2>2, DecapsulateFacts
    <3>2. /\ Encapsulate(Decapsulate(clear)) \in Packets
          /\ AllPlain(Encapsulate(Decapsulate(clear)))
      BY <3>1, EncapsulateFacts
    <3>. QED
      BY <1>1, <3>2, ServHandlePktDestFacts
  <2>4. /\ plain' = answer /\ wire' = ServCliEncrypt(answer) /\ text' = t
        /\ plain = Nothing /\ UNCHANGED <<count, shown>>
    BY <1>4 DEF SendReply
  <2>. HIDE DEF answer
  <2>5. /\ wire' \in Seq(Cell) /\ AllHidden(wire')
        /\ Len(wire') \in HeaderLen..PacketLen
        /\ \A i \in 1..HeaderLen : wire'[i] = Flip(plain'[i])
    BY <2>3, <2>4, ServCliEncryptFacts, HeaderOfReply
  <2>. QED
    BY <2>3, <2>4, <2>5, SentKeepsInv
<1>5. ASSUME NEW k \in 1..Len(wire), ReceivePacket(k)
      PROVE  TunnelInv'
  <2>1. /\ wire \in Seq(Cell) /\ TunnelTypeOK /\ WireEncrypted
        /\ plain # Nothing /\ plain \in Packets
        /\ HeaderLen <= Len(wire)
        /\ \A i \in 1..HeaderLen : wire[i] = Flip(plain[i])
    BY <1>5 DEF ReceivePacket, TunnelInv, TunnelTypeOK
  <2>2. /\ count' = k /\ shown' = Decrypt(Received(wire, k, PacketLen))
        /\ UNCHANGED <<text, plain, wire>>
    BY <1>5 DEF ReceivePacket
  <2>3. k \in 0..Len(wire)
    BY <2>1
  <2>4. shown' \in Packets
    <3>1. Received(wire, k, PacketLen) \in Packets
      BY <2>1, <2>3, ReceivedFacts, PacketSizes DEF Packets
    <3>. QED
      BY <2>2, <3>1, DecryptFacts
  <2>5. \A i \in 1..HeaderLen : shown'[i] = IF i <= k THEN plain[i] ELSE Masked("zero")
    <3>1. \A i \in 1..HeaderLen : plain[i] \in Cell
      BY <2>1, PacketSizes DEF Packets
    <3>2. \A i \in 1..HeaderLen :
            shown'[i] = IF i <= k THEN Flip(wire[i]) ELSE Masked("zero")
      BY <2>1, <2>2, <2>3, HeaderOfDecrypt
    <3>. QED
      BY <2>1, <3>1, <3>2, FlipTwice
  <2>6. TunnelTypeOK'
    BY <2>1, <2>2, <2>3, <2>4 DEF TunnelTypeOK
  <2>7. HeadersArrive'
    BY <2>2, <2>5 DEF HeadersArrive
  <2>. QED
    BY <2>1, <2>2, <2>6, <2>7 DEF TunnelInv, WireEncrypted
<1>6. CASE UNCHANGED tunnelVars
  BY <1>6 DEF tunnelVars, TunnelInv, TunnelTypeOK, WireEncrypted, HeadersArrive
<1>. QED
  BY <1>3, <1>4, <1>5, <1>6 DEF TunnelNext

\* Every packet is sent and received in buffers of the sizes the code allocates,
\* whatever its text (packet.c:117-255).
THEOREM SizesFit == TunnelSpec => []TunnelTypeOK
<1>1. TunnelInv => TunnelTypeOK
  BY DEF TunnelInv
<1>. QED
  BY <1>1, TunnelInvInit, TunnelInvNext, PTL DEF TunnelSpec

\* Nothing that create_packets or serv_cli_encrypt_free sends is in clear, for every
\* text and every size of payload (packet.c:149-152, 214-222).
THEOREM WireIsEncrypted == TunnelSpec => []WireEncrypted
<1>1. TunnelInv => WireEncrypted
  BY DEF TunnelInv
<1>. QED
  BY <1>1, TunnelInvInit, TunnelInvNext, PTL DEF TunnelSpec

\* What serv_rec_from_cli returns has the header that was sent, as far as it has
\* arrived, and the key behind it, for every text (packet.c:232-255).
THEOREM HeadersAlwaysArrive == TunnelSpec => []HeadersArrive
<1>1. TunnelInv => HeadersArrive
  BY DEF TunnelInv
<1>. QED
  BY <1>1, TunnelInvInit, TunnelInvNext, PTL DEF TunnelSpec

-----------------------------------------------------------------------------
(* The text that arrives *)

\* What is on the wire carries the text that was sent.
TextInv ==
  /\ TunnelInv
  /\ plain # Nothing => IsText(text) /\ CarriesText(wire, text)
  /\ TextArrives

LEMMA TextInvInit == TunnelInit => TextInv
<1>. SUFFICES ASSUME TunnelInit PROVE TextInv
  OBVIOUS
<1>1. TunnelInv
  BY TunnelInvInit
<1>. QED
  BY <1>1 DEF TextInv, TextArrives, TunnelInit

LEMMA TextInvNext == TextInv /\ [TunnelNext]_tunnelVars => TextInv'
<1>. SUFFICES ASSUME TextInv, [TunnelNext]_tunnelVars
              PROVE  TextInv'
  OBVIOUS
<1>1. TunnelInv'
  BY TunnelInvNext DEF TextInv
<1>2. Clear(Src) \in Cell /\ Clear(Dst) \in Cell /\ Clear("syn") \in Cell /\ Clear("ack") \in Cell
      /\ Nul \in Cell
  BY TunnelAssumption, CellFacts
<1>3. ASSUME NEW t \in Texts, SendRequest(t)
      PROVE  TextInv'
  <2>1. IsText(t)
    BY TunnelAssumption
  <2>2. /\ wire' = RequestBytes(CreatePackets(Clear(Src), Clear(Dst), Clear("syn"), t), t)
        /\ text' = t /\ plain = Nothing /\ UNCHANGED shown
    BY <1>3 DEF SendRequest
  <2>3. CarriesText(wire', text')
    BY <1>2, <2>1, <2>2, RequestCarriesText
  <2>4. shown' = Nothing
    BY <2>2 DEF TextInv, TunnelInv
  <2>. QED
    BY <1>1, <2>1, <2>2, <2>3, <2>4 DEF TextInv, TextArrives, CarriesText
<1>4. ASSUME NEW t \in Texts, SendReply(t)
      PROVE  TextInv'
  <2>. DEFINE clear == CreatePacketsDes(Clear(Src), Nul, Clear("ack"), t)
              answer == ServHandlePktDest(Encapsulate(Decapsulate(clear)), Clear(Dst))
  <2>1. IsText(t)
    BY TunnelAssumption
  <2>2. wire' = ServCliEncrypt(answer) /\ text' = t /\ plain = Nothing /\ UNCHANGED shown
    BY <1>4 DEF SendReply
  <2>3. clear \in Packets /\ HoldsText(clear, t)
    BY <1>2, <2>1, CreatePacketsDesFacts, CreatedHoldsText
  <2>. HIDE DEF clear
  <2>4. HoldsText(answer, t) /\ answer \in Packets
    BY <1>2, <2>3, AnswerHoldsText, DecapsulateFacts, EncapsulateFacts, ServHandlePktDestFacts
  <2>. HIDE DEF answer
  <2>5. CarriesText(wire', text')
    BY <2>1, <2>2, <2>4, ReplyCarriesText
  <2>6. shown' = Nothing
    BY <2>2 DEF TextInv, TunnelInv
  <2>. QED
    BY <1>1, <2>1, <2>2, <2>5, <2>6 DEF TextInv, TextArrives, CarriesText
<1>5. ASSUME NEW k \in 1..Len(wire), ReceivePacket(k)
      PROVE  TextInv'
  <2>1. /\ plain # Nothing /\ count' = k /\ shown' = Decrypt(Received(wire, k, PacketLen))
        /\ UNCHANGED <<text, plain, wire>>
    BY <1>5 DEF ReceivePacket
  <2>2. /\ wire \in Seq(Cell) /\ Len(wire) <= PacketLen
        /\ IsText(text) /\ CarriesText(wire, text)
    BY <2>1 DEF TextInv, TunnelInv, TunnelTypeOK
  <2>3. TextOf(shown', PayloadAt)
          = FirstOf(BeforeKeyByte(text), AtMost(MaxPayload - 1, k - HeaderLen))
    BY <2>1, <2>2, ReceivedText
  <2>. QED
    BY <1>1, <2>1, <2>2, <2>3 DEF TextInv, TextArrives
<1>6. CASE UNCHANGED tunnelVars
  BY <1>1, <1>6 DEF tunnelVars, TextInv, TextArrives
<1>. QED
  BY <1>3, <1>4, <1>5, <1>6 DEF TunnelNext

\* The receiver of a request or of a reply reads exactly the part of the text that has
\* arrived, up to the first character that equals its key byte and with room for the
\* 0, for every text, size of payload and receipt (packet.c:117-158, 208-255).
THEOREM TextAlwaysArrives == TunnelSpec => []TextArrives
<1>1. TextInv => TextArrives
  BY DEF TextInv
<1>. QED
  BY <1>1, TextInvInit, TextInvNext, PTL DEF TunnelSpec
=============================================================================
