------------------------------- MODULE Headers -------------------------------
(***************************************************************************)
(* The three headers of a packet with their real sizes: what writes their  *)
(* fields, the two rewrites of the server with their changes of byte       *)
(* order, the checksum, and what the programs print of them.  The host is  *)
(* little-endian, as the machines that Mininet runs on.                    *)
(*                                                                         *)
(* A 32-bit number is <<high, low>>, its two 16-bit halves.  The IP header *)
(* is a record of the fields the programs change, as the CPU reads them,   *)
(* and "rest", the bytes of all others in their order.                     *)
(***************************************************************************)
EXTENDS Integers, Sequences

CONSTANTS Addresses,       \* the addresses of host_info.c
          MaxPayloadBytes  \* MAX_PAYLOAD_SIZE

Word == {n \in Nat : n <= 65535}   \* uint16_t

ASSUME IpAssumption ==
  /\ Addresses \subseteq Word \X Word
  /\ MaxPayloadBytes \in Nat /\ MaxPayloadBytes + 20 \in Word

GreSize == 6
IpSize == 20
TcpSize == 20

-----------------------------------------------------------------------------
(* Byte order *)

Swap(n) == (n % 256) * 256 + n \div 256      \* htons and ntohs
SwapLong(a) == <<Swap(a[2]), Swap(a[1])>>    \* htonl and ntohl

\* The bytes of a number in memory, and the number the bytes from i on make.
Bytes16(n) == <<n % 256, n \div 256>>
Bytes32(a) == Bytes16(a[2]) \o Bytes16(a[1])
Read16(bytes, i) == bytes[i] + 256 * bytes[i + 1]
Read32(bytes, i) == <<Read16(bytes, i + 2), Read16(bytes, i)>>

-----------------------------------------------------------------------------
(* The checksum *)

\* 16 bits at a time, first byte first; the last byte of an odd number is alone.
Words(bytes) ==
  [i \in 1..((Len(bytes) + 1) \div 2) |->
     256 * bytes[2 * i - 1] + (IF 2 * i <= Len(bytes) THEN bytes[2 * i] ELSE 0)]

WordSum(words) ==
  LET sum[i \in 0..Len(words)] == IF i = 0 THEN 0 ELSE sum[i - 1] + words[i]
  IN  sum[Len(words)]

\* The carries of the sum are added back in until none is left.
fold[n \in Nat] == IF n > 65535 THEN fold[(n \div 65536) + (n % 65536)] ELSE n

Cksum(bytes) ==
  LET sum == Swap(65535 - fold[WordSum(Words(bytes))])
  IN  IF sum = 0 THEN 65535 ELSE sum

VerifyChecksum(bytes, old) == IF Cksum(bytes) = old THEN 0 ELSE -1

-----------------------------------------------------------------------------
(* The IP header *)

\* The version, and the fields nothing is written to; the protocol is TCP's.
NewRest == <<64, 0, 0, 0, 0, 0, 0, 6>>

IpBytes(h) ==
  SubSeq(h.rest, 1, 2) \o Bytes16(h.len) \o SubSeq(h.rest, 3, 8)
  \o Bytes16(h.sum) \o Bytes32(h.src) \o Bytes32(h.dst)

IpOf(bytes) ==
  [rest |-> SubSeq(bytes, 1, 2) \o SubSeq(bytes, 5, 10), len |-> Read16(bytes, 3),
   sum |-> Read16(bytes, 11), src |-> Read32(bytes, 13), dst |-> Read32(bytes, 17)]

Sealed(h) == [h EXCEPT !.sum = Swap(Cksum(IpBytes([h EXCEPT !.sum = 0])))]

SetIp(src, dst) ==
  Sealed([rest |-> NewRest, len |-> Swap(MaxPayloadBytes + 20), sum |-> 0,
          src |-> src, dst |-> dst])

\* Mutant: the destination stays in the other byte order.
SealAndForgetDst(h) ==
  LET sealed == Sealed(h)
  IN  [sealed EXCEPT !.src = SwapLong(@), !.len = Swap(@)]

\* What both rewrites do after they have put the header's length and addresses
\* into the other byte order: seal it, and turn them back.
SealAndRestore(h) ==
  LET sealed == Sealed(h)
  IN  [sealed EXCEPT !.src = SwapLong(@), !.dst = SwapLong(@), !.len = Swap(@)]

ServHandlePkt(h, server) ==
  SealAndRestore([h EXCEPT !.len = Swap(@), !.src = SwapLong(server), !.dst = SwapLong(@)])

ServHandlePktDest(h, client) ==
  SealAndRestore([h EXCEPT !.len = Swap(@), !.dst = SwapLong(client), !.src = SwapLong(@)])

-----------------------------------------------------------------------------
(* The two other headers *)

Port == 17350
EthertypeIpv4 == 2048
SynFlag == 2
AckFlag == 22

GreBytes ==
  LET fields == Bytes16(Swap(1)) \o Bytes16(Swap(EthertypeIpv4))
  IN  fields \o Bytes16(Swap(Cksum(fields \o <<0, 0>>)))

\* Ports, flags and checksum; four bytes of numbers each, offset, window and urgent
\* pointer stay 0.
TcpBytes(flags) ==
  LET before == Bytes16(Swap(Port)) \o Bytes16(Swap(Port)) \o <<0, 0, 0, 0, 0, 0, 0, 0, 0, flags, 0, 0>>
  IN  before \o Bytes16(Swap(Cksum(before \o <<0, 0, 0, 0>>))) \o <<0, 0>>

-----------------------------------------------------------------------------
(* What is printed of each header: the fields as the CPU reads them *)

PrintGreHeader(b) == [c |-> Read16(b, 1), protocol |-> Read16(b, 3), gre_sum |-> Read16(b, 5)]

PrintIpHeader(b) ==
  [ip_tos |-> b[2], ip_len |-> Read16(b, 3), ip_id |-> Read16(b, 5), ip_off |-> Read16(b, 7),
   ip_ttl |-> b[9], ip_p |-> b[10], ip_sum |-> Read16(b, 11),
   ip_src |-> Read32(b, 13), ip_dst |-> Read32(b, 17)]

PrintTcpHeader(b) ==
  [src_port |-> Read16(b, 1), dst_port |-> Read16(b, 3), seq_num |-> Read32(b, 5),
   ack_num |-> Read32(b, 9), data_offset |-> b[13] % 16, flags |-> b[14],
   window |-> Read16(b, 15), tcp_sum |-> Read16(b, 17), urgent_pointer |-> Read16(b, 19)]
=============================================================================
