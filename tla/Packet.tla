------------------------------- MODULE Packet -------------------------------
(***************************************************************************)
(* The packets of the VPN and the functions that build, cut and rewrite    *)
(* them: packet.c, encap.c, decap.c, encrypt.c and the headers' layout.    *)
(*                                                                         *)
(* A packet in memory is a sequence of PacketLen cells: one for the GRE    *)
(* header, two for the IP header (source and destination address), one for *)
(* the TCP header (its flags) and MaxPayload for the payload.  A cell is   *)
(* a value and whether it is XOR-ed with the key.  The byte 0 is           *)
(* Clear("zero"); the key byte itself, which is what XOR makes of a 0, is  *)
(* Masked("zero").                                                         *)
(***************************************************************************)
EXTENDS Integers, Sequences

CONSTANTS Hosts,       \* the hosts of host_info.c, standing for their addresses
          Chars,       \* the characters of the two messages
          MaxPayload,  \* MAX_PAYLOAD_SIZE, in cells
          SizeLimit    \* 2^8: get_packet_size returns a uint8_t

Values == Hosts \cup Chars \cup {"zero", "gre", "syn", "ack"}

ASSUME HostsAssumption ==
  /\ Hosts \cap Chars = {}
  /\ (Hosts \cup Chars) \cap {"zero", "gre", "syn", "ack"} = {}

Cell == [val : Values, masked : BOOLEAN]
Clear(v) == [val |-> v, masked |-> FALSE]
Masked(v) == [val |-> v, masked |-> TRUE]
Nul == Clear("zero")

SrcAt == 2
DstAt == 3
FlagsAt == 4
PayloadAt == 5
HeaderLen == 4
PacketLen == HeaderLen + MaxPayload

\* A whole packet fits the uint8_t its size is computed in.
ASSUME SizeAssumption == /\ MaxPayload \in Nat \ {0}
                         /\ SizeLimit \in Nat
                         /\ PacketLen < SizeLimit

Packets == [1..PacketLen -> Cell]
BarePackets == [1..(PacketLen - 1) -> Cell]   \* without the GRE header

AtMost(n, bound) == IF n > bound THEN bound ELSE n

\* A cell as it is before encryption, and as it is after: a character may be the
\* key byte, and XOR turns that into a 0.
IsPlain(cell) == cell.masked => cell.val = "zero"
IsHidden(cell) == cell.masked \/ cell = Nul
AllPlain(cells) == \A i \in 1..Len(cells) : IsPlain(cells[i])
AllHidden(cells) == \A i \in 1..Len(cells) : IsHidden(cells[i])

\* A message of the two programs: the text a char * points to, without its 0.
\* One that is longer than the payload would not fit its packet.  Its characters
\* are not taken for addresses.
IsText(t) ==
  /\ t \in Seq(Cell) /\ Len(t) <= MaxPayload
  /\ AllPlain(t) /\ \A i \in 1..Len(t) : t[i] # Nul /\ t[i].val \notin Hosts

-----------------------------------------------------------------------------
\* XOR with the key; a second XOR undoes the first.
Flip(cell) == [cell EXCEPT !.masked = ~@]
Xor(packet) == [i \in DOMAIN packet |-> Flip(packet[i])]

\* Mutant: one byte short.
GetPacketSizeShort(payloadSize) == (payloadSize + HeaderLen - 1) % SizeLimit

GetPacketSize(payloadSize) == (payloadSize + HeaderLen) % SizeLimit

\* What strlen meets first in the payload that starts at cell "at": the cell
\* of the first 0, or the cell after the buffer when there is none.
TextEnd(packet, at) ==
  CHOOSE e \in at..(Len(packet) + 1) :
    /\ e <= Len(packet) => packet[e] = Nul
    /\ \A i \in at..(e - 1) : packet[i] # Nul

StrLen(packet, at) == TextEnd(packet, at) - at

\* What %s prints of the payload.
TextOf(packet, at) == SubSeq(packet, at, TextEnd(packet, at) - 1)

-----------------------------------------------------------------------------
\* A packet in clear, its text cut to what leaves room for the 0.
CreatePacketsDes(src, dst, flags, text) ==
  [i \in 1..PacketLen |->
     IF i >= PayloadAt
     THEN IF i - HeaderLen <= AtMost(Len(text), MaxPayload - 1)
          THEN text[i - HeaderLen] ELSE Nul
     ELSE CASE i = SrcAt -> src
            [] i = DstAt -> dst
            [] i = FlagsAt -> flags
            [] OTHER -> Clear("gre")]

\* Mutant: only the payload is encrypted, as the comment in the code has it.
CreatePacketsPayloadOnly(src, dst, flags, text) ==
  LET packet == CreatePacketsDes(src, dst, flags, text)
  IN  [i \in 1..PacketLen |-> IF i >= PayloadAt THEN Flip(packet[i]) ELSE packet[i]]

\* The same packet encrypted, with a 0 put back after the text.
CreatePackets(src, dst, flags, text) ==
  [Xor(CreatePacketsDes(src, dst, flags, text)) EXCEPT
     ![PayloadAt + AtMost(Len(text), MaxPayload - 1)] = Nul]

Encapsulate(bare) == <<Clear("gre")>> \o bare
\* Mutant: the GRE header stays.
DecapsulateNothing(packet) == packet

Decapsulate(packet) == Tail(packet)

\* A calloc-ed buffer of n cells after recv has put the first k cells of a
\* stream into it.
Received(stream, k, n) == [i \in 1..n |-> IF i <= k THEN stream[i] ELSE Nul]

\* Mutant: the length is measured after decryption.
DecryptThenMeasure(packet) ==
  [Xor(packet) EXCEPT ![AtMost(TextEnd(Xor(packet), PayloadAt), PacketLen)] = Nul]

\* Mutant: the GRE header is taken not to be encrypted.
DecryptAfterGre(packet) ==
  [Xor(packet) EXCEPT ![1] = packet[1],
                      ![AtMost(TextEnd(packet, PayloadAt), PacketLen)] = Nul]

\* serv_rec_from_cli: the text's length is taken from the encrypted payload,
\* and a 0 is put there, or in the last cell, after decryption.
Decrypt(packet) ==
  [Xor(packet) EXCEPT ![AtMost(TextEnd(packet, PayloadAt), PacketLen)] = Nul]

\* Mutant: the other address of the header.
SaveClientIpOfDest(packet) == packet[DstAt]

SaveClientIp(packet) == packet[SrcAt]

\* Mutant: the source is left as it was.
ServHandlePktKeepsSource(packet, serverIp) == Decapsulate(packet)

\* The decapsulated packet in the server's name.
ServHandlePkt(packet, serverIp) ==
  Decapsulate([packet EXCEPT ![SrcAt] = Clear(serverIp)])

\* The packet itself, rewritten in place, readdressed to the client.
ServHandlePktDest(packet, clientIp) == [packet EXCEPT ![DstAt] = clientIp]

-----------------------------------------------------------------------------
\* The bytes each send() hands to the kernel.

RequestBytes(packet, text) == SubSeq(packet, 1, GetPacketSize(Len(text)))

\* Mutant: packet_to_send is sent and not encrypt_packet.
ServCliEncryptInClear(packet) ==
  SubSeq(packet, 1, GetPacketSize(StrLen(packet, PayloadAt)))

\* The 0 that serv_cli_encrypt_free then writes behind these cells lies one
\* past its buffer and is never sent.
ServCliEncrypt(packet) ==
  Xor(SubSeq(packet, 1, GetPacketSize(StrLen(packet, PayloadAt))))

\* The destination counts the GRE header it has just dropped, so that one more
\* cell than the text is sent.
ReplyBytes(bare, text) == SubSeq(bare, 1, GetPacketSize(Len(text)))
=============================================================================
