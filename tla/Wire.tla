-------------------------------- MODULE Wire --------------------------------
(***************************************************************************)
(* One exchange byte by byte, with the real key, sizes and texts, next to  *)
(* the same exchange cell by cell, with the operators of Packet that Vpn   *)
(* is made of: what the cells say must be true of the bytes, wherever a    *)
(* recv cuts them.                                                         *)
(***************************************************************************)
EXTENDS Headers, HostTable

CONSTANTS Hosts,                    \* the hosts of the table, as Packet names them
          NameOf,                   \* their names, character by character
          Client, Server,           \* the names given on the command line
          RequestText, ReplyText,   \* the two messages, as characters
          Ascii,                    \* the bytes of the characters
          Cuts,                     \* where recv may cut what is there
          MaxNameLength,            \* MAX_NAME_LENGTH
          Typable, LineLimit        \* the characters users type, bound on their number

AddressOf(h) == ParseIpAddr(HostIp(NameOf[h]))
Key == <<18, 52, 86, 120>>
HeaderSize == GreSize + IpSize + TcpSize
PacketSize == HeaderSize + MaxPayloadBytes

C == INSTANCE Packet WITH Chars <- DOMAIN Ascii,
                          MaxPayload <- MaxPayloadBytes, SizeLimit <- MaxPayloadBytes + 5

ASSUME WireAssumption ==
  /\ C!HostsAssumption /\ C!SizeAssumption /\ PacketSize < 256
  /\ Addresses = {AddressOf(h) : h \in Hosts}
  /\ NameOf \in [Hosts -> HostNames] /\ IsInjective(NameOf) /\ {Client, Server} \subseteq Hosts
  /\ {NameOf[h] : h \in Hosts} = HostNames
  /\ MaxNameLength \in Nat /\ MaxNameLength > 3   \* the names and a character more
  /\ LineLimit \in Nat /\ Cuts \subseteq Nat

\* Both texts fit their packets, the destination's with the six bytes it sends behind
\* it, and hold neither a 0 nor a byte of the key.
ASSUME TextAssumption ==
  /\ RequestText \in Seq(DOMAIN Ascii) /\ Len(RequestText) < MaxPayloadBytes
  /\ ReplyText \in Seq(DOMAIN Ascii) /\ Len(ReplyText) + GreSize <= MaxPayloadBytes
  /\ \A c \in Range(RequestText) \cup Range(ReplyText) :
       Ascii[c] \in (1..255) \ Range(Key)

BytesOf(text) == [i \in DOMAIN text |-> Ascii[text[i]]]
CellsOf(text) == [i \in DOMAIN text |-> C!Clear(text[i])]

\* How many cells are whole in the first k bytes of a packet with its GRE header.
WholeCells(k) ==
  CASE k < GreSize -> 0
    [] GreSize <= k /\ k < GreSize + 16 -> 1
    [] GreSize + 16 <= k /\ k < GreSize + IpSize -> 2
    [] GreSize + IpSize <= k /\ k < HeaderSize -> 3
    [] HeaderSize <= k -> C!HeaderLen + (k - HeaderSize)

-----------------------------------------------------------------------------
(* The bytes of packets *)

Received(stream, k, n) == [i \in 1..n |-> IF i <= k THEN stream[i] ELSE 0]

\* a ^ b: the bits that differ.
Xor(a, b) ==
  LET bit(e) == IF (a \div e) % 2 = (b \div e) % 2 THEN 0 ELSE e
  IN  bit(1) + bit(2) + bit(4) + bit(8) + bit(16) + bit(32) + bit(64) + bit(128)

\* The byte of the key for the i-th byte of a packet.
KeyAt(i) == Key[((i - 1) % Len(Key)) + 1]

XorBytes(bytes) == [i \in DOMAIN bytes |-> Xor(bytes[i], KeyAt(i))]

StrLen(bytes, at) ==
  (CHOOSE e \in at..(Len(bytes) + 1) :
     (e <= Len(bytes) => bytes[e] = 0) /\ \A i \in at..(e - 1) : bytes[i] # 0) - at

PacketBytes(src, dst, flags, text) ==
  GreBytes \o IpBytes(SetIp(src, dst)) \o TcpBytes(flags) \o Received(text, Len(text), MaxPayloadBytes)

EncryptedBytes(src, dst, flags, text) ==
  [XorBytes(PacketBytes(src, dst, flags, text)) EXCEPT ![HeaderSize + Len(text) + 1] = 0]

\* Mutant: the key starts anew behind the GRE header.
DecryptAfterGre(bytes) ==
  [SubSeq(bytes, 1, GreSize) \o XorBytes(SubSeq(bytes, GreSize + 1, Len(bytes))) EXCEPT
     ![HeaderSize + 1 + C!AtMost(StrLen(bytes, HeaderSize + 1), MaxPayloadBytes - 1)] = 0]

Decrypt(bytes) ==
  [XorBytes(bytes) EXCEPT
     ![HeaderSize + 1 + C!AtMost(StrLen(bytes, HeaderSize + 1), MaxPayloadBytes - 1)] = 0]

IpIn(bytes) == IpOf(SubSeq(bytes, GreSize + 1, GreSize + IpSize))

Rewritten(bytes, ip) ==
  SubSeq(bytes, 1, GreSize) \o IpBytes(ip) \o SubSeq(bytes, GreSize + IpSize + 1, Len(bytes))

\* Mutant: a GRE header without its checksum.
DecapsulateFour(bytes) == SubSeq(bytes, 5, Len(bytes))

Decapsulate(bytes) == SubSeq(bytes, GreSize + 1, Len(bytes))

-----------------------------------------------------------------------------
VARIABLES leg,     \* what comes next, or who reads the wire next
          line,    \* what the user of the client types
          dest,    \* the host it is taken for
          wire,    \* the bytes in flight
          cells,   \* the same, as cells
          prints,  \* the packets printed so far
          whole    \* whether the headers arrived whole, at each receipt so far

wireVars == <<leg, line, dest, wire, cells, prints, whole>>
packetVars == <<wire, cells, prints, whole>>

NoLine == <<"end of input">>

\* A packet as it is printed, with its GRE header or without.
Printed(gre, bytes, cs) == [gre |-> gre, bytes |-> bytes, cells |-> cs]

WireInit ==
  /\ leg = "typing" /\ line = <<>> /\ dest = Client
  /\ wire = <<>> /\ cells = <<>> /\ prints = <<>> /\ whole = <<>>

Type(char) ==
  /\ leg = "typing" /\ Len(line) < LineLimit
  /\ line' = Append(line, char)
  /\ UNCHANGED <<leg, dest, packetVars>>

\* Names that are unknown or not all different are refused.
LookUp(name) ==
  LET ip == GetHostIp(name)
      refused == ip \in {NULL, HostIp(NameOf[Client]), HostIp(NameOf[Server])}
  IN  /\ leg' = IF refused THEN "over" ELSE "send"
      /\ dest' = IF refused THEN dest ELSE CHOOSE h \in Hosts : HostIp(NameOf[h]) = ip
      /\ UNCHANGED packetVars

Enter == leg = "typing" /\ LookUp(ReadName(line, MaxNameLength)) /\ UNCHANGED line

\* Without a line fgets leaves the buffer as it was, which nobody has initialised.
EndOfInput ==
  /\ leg = "typing" /\ line = <<>> /\ line' = NoLine
  /\ \E left \in {NULL, <<"h", "3">>} : LookUp(left)

ClientSends ==
  /\ leg = "send" /\ leg' = "server"
  /\ LET packet == EncryptedBytes(AddressOf(Client), AddressOf(dest), SynFlag, BytesOf(RequestText))
         inCells == C!CreatePackets(C!Clear(Client), C!Clear(dest), C!Clear("syn"), CellsOf(RequestText))
     IN  /\ wire' = SubSeq(packet, 1, HeaderSize + Len(RequestText))
         /\ cells' = C!RequestBytes(inCells, RequestText)
         /\ prints' = <<Printed(TRUE, packet, inCells)>>
  /\ UNCHANGED <<line, dest, whole>>

\* The cells of the first k bytes on the wire, which may start behind the GRE header.
CellsIn(k, gre) ==
  C!AtMost(IF gre THEN WholeCells(k) ELSE WholeCells(k + GreSize) - 1, Len(cells))

\* The server dials the address it prints; there is a destination, or another server.
ServerForwards(k) ==
  /\ leg = "server"
  /\ LET packet == Decrypt(Received(wire, k, PacketSize))
         inCells == C!Decrypt(C!Received(cells, CellsIn(k, TRUE), C!PacketLen))
     IN  /\ IF ParseIpAddrToStr(IpIn(packet).dst) = HostIp(NameOf[dest])
            THEN leg' \in {"destination", "other server"} ELSE leg' = "over"
         /\ wire' = Decapsulate(Rewritten(packet, ServHandlePkt(IpIn(packet), AddressOf(Server))))
         /\ cells' = C!ServHandlePkt(inCells, Server)
         /\ prints' = Append(prints, Printed(TRUE, packet, inCells))
  /\ whole' = Append(whole, k >= HeaderSize)
  /\ UNCHANGED <<line, dest>>

\* An address on its way through a string.
ThroughText(a) == ParseIpAddr(ParseIpAddrToStr(a))

DestinationAnswers(k) ==
  /\ leg = "destination" /\ leg' = "server again"
  /\ LET request == Received(wire, k, PacketSize - GreSize)
         inCells == C!Received(cells, CellsIn(k, FALSE), C!PacketLen - 1)
         answer == Decapsulate(PacketBytes(AddressOf(dest), ThroughText(IpOf(request).src), AckFlag,
                                           BytesOf(ReplyText)))
         answerCells == C!Decapsulate(C!CreatePacketsDes(
                          C!Clear(dest), inCells[C!SrcAt - 1], C!Clear("ack"), CellsOf(ReplyText)))
     IN  /\ wire' = SubSeq(answer, 1, HeaderSize + Len(ReplyText))
         /\ cells' = C!ReplyBytes(answerCells, ReplyText)
         /\ prints' = prints \o <<Printed(FALSE, request, inCells), Printed(FALSE, answer, answerCells)>>
  /\ whole' = Append(whole, k >= HeaderSize - GreSize)
  /\ UNCHANGED <<line, dest>>

ServerReturns(k) ==
  /\ leg = "server again" /\ leg' = "client"
  /\ LET received == GreBytes \o Received(wire, k, PacketSize - GreSize)
         client == ThroughText(IpIn(prints[2].bytes).src)
         packet == Rewritten(received, ServHandlePktDest(IpIn(received), client))
         inCells == C!ServHandlePktDest(
                      C!Encapsulate(C!Received(cells, CellsIn(k, FALSE), C!PacketLen - 1)),
                      C!SaveClientIp(prints[2].cells))
     IN  /\ wire' = XorBytes(SubSeq(packet, 1, HeaderSize + StrLen(packet, HeaderSize + 1)))
         /\ cells' = C!ServCliEncrypt(inCells)
         /\ prints' = Append(prints, Printed(TRUE, packet, inCells))
  /\ whole' = Append(whole, k >= HeaderSize - GreSize)
  /\ UNCHANGED <<line, dest>>

ClientReceives(k) ==
  /\ leg = "client" /\ leg' = "over"
  /\ prints' = Append(prints, Printed(TRUE, Decrypt(Received(wire, k, PacketSize)),
                                      C!Decrypt(C!Received(cells, CellsIn(k, TRUE), C!PacketLen))))
  /\ whole' = Append(whole, k >= HeaderSize)
  /\ UNCHANGED <<line, dest, wire, cells>>

\* A server that is dialled as a destination decrypts what was not encrypted.
OtherServerReceives(k) ==
  /\ leg = "other server" /\ leg' = "not encrypted"
  /\ prints' = Append(prints, Printed(TRUE, Decrypt(Received(wire, k, PacketSize)),
                                      C!Decrypt(C!Received(cells, CellsIn(k, TRUE), C!PacketLen))))
  /\ UNCHANGED <<line, dest, wire, cells, whole>>

WireNext ==
  \/ (\E char \in Typable : Type(char)) \/ Enter \/ EndOfInput \/ ClientSends
  \/ \E k \in {n \in Cuts : n < Len(wire)} \cup {Len(wire)} :
       \/ ServerForwards(k) \/ DestinationAnswers(k) \/ ServerReturns(k)
       \/ ClientReceives(k) \/ OtherServerReceives(k)

WireSpec == WireInit /\ [][WireNext]_wireVars

-----------------------------------------------------------------------------
IpOffset(p) == IF p.gre THEN GreSize ELSE 0
SrcCell(p) == p.cells[IF p.gre THEN C!SrcAt ELSE C!SrcAt - 1]
DstCell(p) == p.cells[IF p.gre THEN C!DstAt ELSE C!DstAt - 1]
ShownGre(p) == PrintGreHeader(p.bytes)
ShownIp(p) == PrintIpHeader(SubSeq(p.bytes, IpOffset(p) + 1, IpOffset(p) + IpSize))
ShownTcp(p) == PrintTcpHeader(SubSeq(p.bytes, IpOffset(p) + IpSize + 1, IpOffset(p) + IpSize + TcpSize))

\* The byte that a cell of the payload stands for; both texts lie behind all headers
\* when they are XOR-ed.
ByteOf(cell, i) ==
  LET clear == IF cell.val = "zero" THEN 0 ELSE Ascii[cell.val]
  IN  IF cell.masked THEN Xor(clear, KeyAt(HeaderSize + i)) ELSE clear

\* Vpn says of a cell that it is a host's address in clear exactly when the four bytes
\* there are, also when recv has cut them, when they are encrypted, and when a server
\* has decrypted what nobody has encrypted: the bytes shift by six, and the key with
\* them, and still no host's address comes out (packet.c:232-351, server.c:149).
AddressesAreReal ==
  \A n \in DOMAIN prints : \A h \in Hosts :
    /\ (ShownIp(prints[n]).ip_src = AddressOf(h)) <=> (SrcCell(prints[n]) = C!Clear(h))
    /\ (ShownIp(prints[n]).ip_dst = AddressOf(h)) <=> (DstCell(prints[n]) = C!Clear(h))

\* What Vpn says a program prints of a text is, byte for byte, what it prints, on every
\* leg and for every cut; a character and a masked 0 are what the key makes of them
\* where they lie (encrypt.c:22-26, packet.c:144-154, 240-251).
TextIsReal ==
  leg # "not encrypted" =>
    \A n \in DOMAIN prints :
      LET p == prints[n]
      IN  \A i \in 1..MaxPayloadBytes :
            p.bytes[IpOffset(p) + IpSize + TcpSize + i]
              = ByteOf(p.cells[(IF p.gre THEN C!PayloadAt ELSE C!PayloadAt - 1) - 1 + i], i)

\* When a line is typed, the name read into a buffer of five characters (client.c:69-77)
\* is a host's only if all of the line is: a longer line is cut to something that is in
\* no table.  That host's address is what the server dials, if it arrives at all, after
\* it has become a number, four bytes, encrypted bytes, four bytes and a text again
\* (packet.c:73-74, server.c:149-151).
OnlyWholeNames ==
  /\ dest # Client /\ line # NoLine => line = NameOf[dest]
  /\ whole # <<>> /\ whole[1] =>
       ParseIpAddrToStr(IpIn(prints[2].bytes).dst) = HostIp(NameOf[dest])

\* Whatever 32 bits arrive as an address fit the 16 bytes they are printed into
\* (packet.c:394-397, server.c:147-149, 179-180, destination.c:103-104), and are the
\* same 32 bits when the text is parsed into a packet again.
AnyAddressSurvives ==
  \A n \in DOMAIN prints : \A a \in {ShownIp(prints[n]).ip_src, ShownIp(prints[n]).ip_dst} :
    Len(ParseIpAddrToStr(a)) + 1 <= AddressSize /\ ThroughText(a) = a

\* Two programs in a row print the same fields of a packet whose headers have arrived,
\* but for the address and the checksum that the server rewrites, although one of
\* them finds them behind a GRE header and the other does not.
FieldsSurvive ==
  LET Same(a, b) == /\ ShownTcp(prints[a]) = ShownTcp(prints[b])
                    /\ \A f \in DOMAIN ShownIp(prints[a]) \ {"ip_sum", "ip_src", "ip_dst"} :
                         ShownIp(prints[a])[f] = ShownIp(prints[b])[f]
  IN  leg # "not encrypted" =>
        /\ Len(prints) >= 3 /\ whole[2] =>
             Same(2, 3) /\ ShownIp(prints[2]).ip_dst = ShownIp(prints[3]).ip_dst
        /\ Len(prints) >= 5 /\ whole[3] =>
             Same(4, 5) /\ ShownIp(prints[4]).ip_src = ShownIp(prints[5]).ip_src
        /\ Len(prints) >= 6 /\ whole[4] =>
             ShownGre(prints[5]) = ShownGre(prints[6]) /\ ShownIp(prints[5]) = ShownIp(prints[6])
             /\ ShownTcp(prints[5]) = ShownTcp(prints[6])
=============================================================================
