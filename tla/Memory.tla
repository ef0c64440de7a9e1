------------------------------- MODULE Memory -------------------------------
(***************************************************************************)
(* The heap of each of the three programs during one exchange: what every  *)
(* call allocates, touches and frees, in the code's order and with its     *)
(* real sizes, whatever the system calls between them return.  The bytes   *)
(* themselves are in Packet; here only how many there are counts.          *)
(*                                                                         *)
(* A buffer has the name of the variable that allocates it.  Allocations   *)
(* succeed: they are of a few hundred bytes.                               *)
(***************************************************************************)
EXTENDS Integers, Sequences, Functions

CONSTANTS MaxPayload,             \* MAX_PAYLOAD_SIZE
          RequestLen, ReplyLen    \* strlen of the two messages

ASSUME MemoryAssumption ==
  /\ MaxPayload \in Nat /\ MaxPayload + 46 < 256
  /\ RequestLen \in 0..(MaxPayload - 1)
  /\ ReplyLen \in 0..(MaxPayload - 6)   \* the destination sends six bytes behind it

VARIABLES pc,       \* where each program is in its main
          heap,     \* each program's live buffers, and what went wrong with them
          sent,     \* how many bytes were sent on each leg of the exchange
          failed    \* the programs one of whose system calls has failed

memoryVars == <<pc, heap, sent, failed>>

Programs == {"client", "server", "destination"}
Legs == {"request", "forward", "response", "reply"}

GreSize == 6
IpSize == 20
BareHeaderSize == IpSize + 20
HeaderSize == GreSize + BareHeaderSize
AddressSize == 4 * 4

GetPacketSize(payloadSize) == (payloadSize + HeaderSize) % 256
PacketSize == GetPacketSize(MaxPayload)
BareSize == BareHeaderSize + MaxPayload

AtMost(n, bound) == IF n > bound THEN bound ELSE n

\* How much of a text is in the first k bytes of a packet.
TextIn(k, headerSize, len) ==
  IF k <= headerSize THEN 0 ELSE AtMost(len, k - headerSize)

-----------------------------------------------------------------------------
(* Heap operations *)

Alloc(b, size) == [op |-> "alloc", buf |-> b, to |-> size]
Touch(b, to) == [op |-> "touch", buf |-> b, to |-> to]   \* the bytes before "to"
Free(b) == [op |-> "free", buf |-> b, to |-> 0]

Wrong(m, kind, b, by) == [m EXCEPT !.wrong = @ \cup {[kind |-> kind, buf |-> b, by |-> by]}]

\* A heap with one buffer more, and with one less.
With(m, b, size) ==
  [m EXCEPT !.size = [c \in DOMAIN @ \cup {b} |-> IF c = b THEN size ELSE @[c]]]
Without(m, b) == [m EXCEPT !.size = Restrict(@, DOMAIN @ \ {b})]

Perform(m, o) ==
  LET live == o.buf \in DOMAIN m.size
  IN  CASE o.op = "alloc" /\ live -> Wrong(m, "lost", o.buf, 0)
        [] o.op = "alloc" /\ ~live -> With(m, o.buf, o.to)
        [] o.op # "alloc" /\ ~live -> Wrong(m, "dangling", o.buf, 0)
        [] o.op = "touch" /\ live ->
             IF o.to <= m.size[o.buf] THEN m
             ELSE Wrong(m, "overrun", o.buf, o.to - m.size[o.buf])
        [] o.op = "free" /\ live -> Without(m, o.buf)

\* A heap after some operations, in their order.
After(m, ops) ==
  LET state[i \in 0..Len(ops)] == IF i = 0 THEN m ELSE Perform(state[i - 1], ops[i])
  IN  state[Len(ops)]

Do(p, ops) == heap' = [heap EXCEPT ![p] = After(@, ops)]

-----------------------------------------------------------------------------
(* packet.c *)

\* A packet with the given header and text; strncpy copies all of the text, the 0
\* after it is put where there is room.
Build(b, len) ==
  <<Touch(b, HeaderSize + len), Touch(b, HeaderSize + AtMost(len, MaxPayload - 1) + 1)>>

CreatePacketsDes(b, len) == <<Alloc(b, PacketSize)>> \o Build(b, len)

CreatePackets(len) ==
  <<Alloc("new_packet", PacketSize), Alloc("encrypt_packet", PacketSize)>>
  \o Build("new_packet", len)
  \o <<Touch("new_packet", PacketSize), Touch("encrypt_packet", PacketSize),
       Touch("encrypt_packet", HeaderSize + AtMost(len, MaxPayload - 1) + 1),
       Free("new_packet")>>

\* print_packet, and print_packet_unencap of what starts at "base": both print the
\* addresses from strings of their own, and the text with its 0.
PrintPacket(b, base, len) ==
  <<Touch(b, base + BareHeaderSize),
    Alloc("ip_src_str", AddressSize), Alloc("ip_dst_str", AddressSize),
    Touch("ip_src_str", AddressSize), Touch("ip_dst_str", AddressSize),
    Free("ip_src_str"), Free("ip_dst_str"),
    Touch(b, base + BareHeaderSize + len + 1)>>

\* serv_rec_from_cli, when recv has returned k and the text in these is len long.
ServRecFromCli(k, len) ==
  <<Alloc("new_rec_pkt", PacketSize), Touch("new_rec_pkt", k),
    Touch("new_rec_pkt", HeaderSize + len + 1),
    Alloc("decrypt_packet", PacketSize),
    Touch("new_rec_pkt", PacketSize), Touch("decrypt_packet", PacketSize),
    Touch("decrypt_packet", HeaderSize + AtMost(len, MaxPayload - 1) + 1),
    Free("new_rec_pkt")>>

\* The three receiving functions when recv fails: the buffer is never freed.
ReceiveFailed(size) == <<Alloc("new_rec_pkt", size)>>

ServRecFromDes(k) ==
  <<Alloc("rec_packet_dest", PacketSize), Touch("rec_packet_dest", k)>>

DestRecPkt(k) == <<Alloc("rec_packet", BareSize), Touch("rec_packet", k)>>

ServHandlePkt(b) == <<Touch(b, GreSize + IpSize)>>

\* The text's 0 is put behind what is allocated for the packet.
ServCliEncrypt(len) ==
  <<Alloc("encrypt_packet", GetPacketSize(len)),
    Touch("enc_pkt", GetPacketSize(len)), Touch("encrypt_packet", GetPacketSize(len)),
    Touch("encrypt_packet", HeaderSize + len + 1)>>

\* Both packets are freed, but only after a send that succeeds.
ServCliFree == <<Free("enc_pkt"), Free("encrypt_packet")>>

-----------------------------------------------------------------------------
(* The programs *)

Init ==
  /\ pc = [p \in Programs |-> IF p = "client" THEN "create" ELSE "receive"]
  /\ heap = [p \in Programs |-> [size |-> [b \in {} |-> 0], wrong |-> {}]]
  /\ sent = [l \in Legs |-> 0]
  /\ failed = {}

At(p, location) == pc[p] = location
Goto(p, location) == pc' = [pc EXCEPT ![p] = location]
Sent(leg, n) == sent' = [sent EXCEPT ![leg] = n] /\ UNCHANGED failed
Fails(p) == failed' = failed \cup {p} /\ UNCHANGED sent

ClientCreate ==
  /\ At("client", "create") /\ Goto("client", "send")
  /\ Do("client", CreatePackets(RequestLen) \o PrintPacket("encrypt_packet", GreSize, RequestLen))
  /\ UNCHANGED <<sent, failed>>

\* send_and_free_packet_vpn; a failure is reported and ignored.
ClientSend ==
  /\ At("client", "send") /\ Goto("client", "receive")
  /\ LET n == GetPacketSize(RequestLen)
     IN  \/ Do("client", <<Touch("encrypt_packet", n), Free("encrypt_packet")>>) /\ Sent("request", n)
         \/ Do("client", <<Touch("encrypt_packet", n)>>) /\ Fails("client")

ClientReceive ==
  /\ At("client", "receive")
  /\ \/ /\ \E k \in 0..sent["reply"] :
             LET len == TextIn(k, HeaderSize, ReplyLen)
             IN  Do("client", ServRecFromCli(k, len) \o PrintPacket("decrypt_packet", GreSize, len)
                              \o <<Free("decrypt_packet")>>)
        /\ Goto("client", "cleaned") /\ UNCHANGED <<sent, failed>>
     \/ /\ Do("client", ReceiveFailed(PacketSize))
        /\ Goto("client", "crashed") /\ Fails("client")

ServerReceive ==
  /\ At("server", "receive")
  /\ \/ /\ \E k \in 0..sent["request"] :
             LET len == TextIn(k, HeaderSize, RequestLen)
             IN  Do("server", ServRecFromCli(k, len) \o PrintPacket("decrypt_packet", GreSize, len)
                              \o ServHandlePkt("decrypt_packet"))
        /\ Goto("server", "dial") /\ UNCHANGED <<sent, failed>>
     \/ Do("server", ReceiveFailed(PacketSize)) /\ Goto("server", "returned") /\ Fails("server")

\* socket and connect, with dest_ip between them.
ServerDial ==
  /\ At("server", "dial")
  /\ LET dial == <<Alloc("dest_ip", AddressSize), Touch("decrypt_packet", GreSize + IpSize),
                   Touch("dest_ip", AddressSize)>>
     IN  \/ Do("server", dial \o <<Free("dest_ip")>>) /\ Goto("server", "forward") /\ UNCHANGED <<sent, failed>>
         \/ (Do("server", dial) \/ UNCHANGED heap) /\ Goto("server", "returned") /\ Fails("server")

\* Mutant: the packet is freed before fixed_pkt, which points into it, is sent.
ServerForwardFreesFirst ==
  /\ At("server", "forward")
  /\ \/ /\ Do("server", <<Free("decrypt_packet"), Touch("decrypt_packet", GreSize + BareSize)>>)
        /\ Goto("server", "receiveReply") /\ Sent("forward", BareSize)
     \/ Do("server", <<Touch("decrypt_packet", GreSize + BareSize)>>) /\ Goto("server", "returned") /\ Fails("server")

\* fixed_pkt, inside of the packet that is freed once it is sent.
ServerForward ==
  /\ At("server", "forward")
  /\ \/ /\ Do("server", <<Touch("decrypt_packet", GreSize + BareSize), Free("decrypt_packet")>>)
        /\ Goto("server", "receiveReply") /\ Sent("forward", BareSize)
     \/ Do("server", <<Touch("decrypt_packet", GreSize + BareSize)>>) /\ Goto("server", "returned") /\ Fails("server")

\* Mutant: the server returns as soon as the reply cannot be sent.
ServerReplyOrReturn(k) ==
  LET len == TextIn(k, BareHeaderSize, ReplyLen)
      prepare == ServRecFromDes(k)
        \o <<Alloc("enc_pkt", PacketSize), Touch("rec_packet_dest", BareSize),
             Touch("enc_pkt", GreSize + BareSize),
             Alloc("client_str_ip", AddressSize), Touch("client_str_ip", AddressSize)>>
        \o ServHandlePkt("enc_pkt") \o PrintPacket("enc_pkt", GreSize, len) \o ServCliEncrypt(len)
      clean == <<Free("rec_packet_dest"), Free("client_str_ip")>>
  IN  \/ Do("server", prepare \o ServCliFree \o clean) /\ Sent("reply", GetPacketSize(len))
      \/ Do("server", prepare) /\ Fails("server")

\* Up to the sending of the reply, whose result is ignored.
ServerReply(k) ==
  LET len == TextIn(k, BareHeaderSize, ReplyLen)
      prepare == ServRecFromDes(k)
        \o <<Alloc("enc_pkt", PacketSize), Touch("rec_packet_dest", BareSize),
             Touch("enc_pkt", GreSize + BareSize),
             Alloc("client_str_ip", AddressSize), Touch("client_str_ip", AddressSize)>>
        \o ServHandlePkt("enc_pkt") \o PrintPacket("enc_pkt", GreSize, len) \o ServCliEncrypt(len)
      clean == <<Free("rec_packet_dest"), Free("client_str_ip")>>
  IN  \/ Do("server", prepare \o ServCliFree \o clean) /\ Sent("reply", GetPacketSize(len))
      \/ Do("server", prepare \o clean) /\ Fails("server")

ServerReceiveReply ==
  /\ At("server", "receiveReply")
  /\ \/ (\E k \in 0..sent["response"] : ServerReply(k)) /\ Goto("server", "cleaned")
     \/ /\ Do("server", ReceiveFailed(PacketSize) \o <<Alloc("enc_pkt", PacketSize)>>)
        /\ Goto("server", "crashed") /\ Fails("server")

DestReceive ==
  /\ At("destination", "receive")
  /\ \/ /\ \E k \in 0..sent["forward"] :
             Do("destination",
                DestRecPkt(k) \o PrintPacket("rec_packet", 0, TextIn(k, BareHeaderSize, RequestLen))
                \o <<Alloc("client_ip_str", AddressSize), Touch("client_ip_str", AddressSize)>>
                \o CreatePacketsDes("response_pkt", ReplyLen)
                \o PrintPacket("response_pkt", GreSize, ReplyLen))
        /\ Goto("destination", "reply") /\ UNCHANGED <<sent, failed>>
     \/ Do("destination", ReceiveFailed(BareSize)) /\ Goto("destination", "returned") /\ Fails("destination")

\* The size with a GRE header is sent of what comes behind it.
DestReply ==
  /\ At("destination", "reply")
  /\ LET n == GetPacketSize(ReplyLen)
         send == <<Touch("response_pkt", GreSize + n)>>
     IN  \/ /\ Do("destination", send \o <<Free("rec_packet"), Free("response_pkt"), Free("client_ip_str")>>)
            /\ Goto("destination", "cleaned") /\ Sent("response", n)
         \/ Do("destination", send) /\ Goto("destination", "returned") /\ Fails("destination")

Next ==
  \/ ClientCreate \/ ClientSend \/ ClientReceive
  \/ ServerReceive \/ ServerDial \/ ServerForward \/ ServerReceiveReply
  \/ DestReceive \/ DestReply

MemorySpec == Init /\ [][Next]_memoryVars

-----------------------------------------------------------------------------
\* Whatever any send, recv or connect returns, no program touches or frees a buffer
\* that is not live, although pointers into buffers outlive the names of their
\* owners (server.c:139-164, destination.c:109-121), and every byte it touches is
\* in its buffer, but one: the 0 of packet.c:219, which is one byte behind.
OnlyTheTerminator ==
  \A p \in Programs :
    heap[p].wrong \subseteq
      IF p = "server" THEN {[kind |-> "overrun", buf |-> "encrypt_packet", by |-> 1]} ELSE {}

\* What is lost when a program's send fails and the program goes on: packets that are freed
\* behind the early return only (packet.c:199-201, 222-225).
Unsent == [client |-> {"encrypt_packet"}, server |-> {"enc_pkt", "encrypt_packet"},
           destination |-> {}]

\* A program that comes to its end has freed everything, across the functions that free
\* their arguments and those that return what they allocate; if a call of it has failed
\* on the way, everything but the packets it could not send.
LosesOnlyUnsent ==
  \A p \in Programs : pc[p] = "cleaned" =>
    DOMAIN heap[p].size = IF p \in failed THEN Unsent[p] ELSE {}
=============================================================================
