------------------------------- MODULE Tunnel -------------------------------
(***************************************************************************)
(* One encrypted transfer between a client and its server, for any text:   *)
(* what create_packets or serv_cli_encrypt_free puts on the wire, what     *)
(* part of it one recv returns, and what serv_rec_from_cli makes of that.  *)
(* In Vpn the texts are the two the programs send; here they are any, and  *)
(* may hold the byte that equals the key's at its position, which XOR      *)
(* turns into a 0.                                                         *)
(***************************************************************************)
EXTENDS Packet, SequencesExt

CONSTANTS Texts,      \* the texts sent
          Src, Dst,   \* two hosts
          Nothing     \* no packet yet

ASSUME TunnelAssumption ==
  /\ \A t \in Texts : IsText(t)
  /\ Src \in Hosts /\ Dst \in Hosts

VARIABLES text,    \* the text being sent
          plain,   \* the packet as its sender built it, in clear
          wire,    \* the bytes sent
          count,   \* how many of them recv has returned
          shown    \* the packet as its receiver has it

tunnelVars == <<text, plain, wire, count, shown>>

TunnelInit ==
  text = <<>> /\ plain = Nothing /\ wire = <<>> /\ count = 0 /\ shown = Nothing

\* The client, or anyone else who builds a packet with create_packets.
SendRequest(t) ==
  /\ plain = Nothing
  /\ text' = t
  /\ plain' = CreatePacketsDes(Clear(Src), Clear(Dst), Clear("syn"), t)
  /\ wire' = RequestBytes(CreatePackets(Clear(Src), Clear(Dst), Clear("syn"), t), t)
  /\ UNCHANGED <<count, shown>>

\* The server, which has put the GRE header back in front of a clear packet and
\* measures its text.
SendReply(t) ==
  /\ plain = Nothing
  /\ text' = t
  /\ LET bare == Decapsulate(CreatePacketsDes(Clear(Src), Nul, Clear("ack"), t))
         answer == ServHandlePktDest(Encapsulate(bare), Clear(Dst))
     IN  plain' = answer /\ wire' = ServCliEncrypt(answer)
  /\ UNCHANGED <<count, shown>>

\* One recv; all of the bytes, or the first k of them.
ReceivePacket(k) ==
  /\ plain # Nothing /\ shown = Nothing
  /\ count' = k
  /\ shown' = Decrypt(Received(wire, k, PacketLen))
  /\ UNCHANGED <<text, plain, wire>>

TunnelNext ==
  \/ \E t \in Texts : SendRequest(t) \/ SendReply(t)
  \/ \E k \in 1..Len(wire) : ReceivePacket(k)

TunnelSpec == TunnelInit /\ [][TunnelNext]_tunnelVars

-----------------------------------------------------------------------------
\* The buffers have a packet's size, and never more than one is sent.
TunnelTypeOK ==
  /\ text \in Texts \cup {<<>>}
  /\ plain \in Packets \cup {Nothing}
  /\ shown \in Packets \cup {Nothing}
  /\ count \in 0..Len(wire)
  /\ Len(wire) <= PacketLen /\ \A i \in 1..Len(wire) : wire[i] \in Cell

\* The characters before the first that equals the key byte.
BeforeKeyByte(t) ==
  CHOOSE u \in {SubSeq(t, 1, n) : n \in 0..Len(t)} :
    /\ \A i \in 1..Len(u) : u[i] # Masked("zero")
    /\ Len(u) < Len(t) => t[Len(u) + 1] = Masked("zero")

FirstOf(t, n) == SubSeq(t, 1, AtMost(n, Len(t)))

\* serv_rec_from_cli takes the text's length from the ciphertext (packet.c:240),
\* and a text is sent without its 0: the receiver has as much of the text as
\* arrived, up to the first character that equals its key byte, and at most
\* MAX_PAYLOAD_SIZE - 1 characters of it.
TextArrives ==
  shown # Nothing =>
    TextOf(shown, PayloadAt) =
      FirstOf(BeforeKeyByte(text), AtMost(MaxPayload - 1, count - HeaderLen))

\* The part of the header that arrived is what was sent, whatever the text, and
\* the rest reads as the key.
HeadersArrive ==
  shown # Nothing =>
    \A i \in 1..HeaderLen :
      shown[i] = IF i <= count THEN plain[i] ELSE Masked("zero")

\* Nothing of the packet is on the wire in clear.
WireEncrypted == AllHidden(wire)
=============================================================================
