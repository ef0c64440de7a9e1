------------------------------ MODULE IpHeader ------------------------------
(***************************************************************************)
(* The life of one IP header: its sender makes it, and the server rewrites *)
(* it, a client's request or a destination's reply.                        *)
(***************************************************************************)
EXTENDS Headers

VARIABLES stage,     \* "none", "made" or "rewritten"
          made,      \* the header as its sender made it
          header,    \* the header now
          asked      \* the addresses it must have once the server has rewritten it

ipVars == <<stage, made, header, asked>>

-----------------------------------------------------------------------------
IpInit == stage = "none" /\ made = <<>> /\ header = <<>> /\ asked = <<>>

Make(src, dst) ==
  /\ stage = "none" /\ src # dst
  /\ stage' = "made"
  /\ header' = SetIp(src, dst)
  /\ made' = header'
  /\ asked' = [src |-> src, dst |-> dst]

\* The server forwards a client's packet in its own name ...
RewriteRequest(server) ==
  /\ stage = "made" /\ server \notin {asked.src, asked.dst}
  /\ stage' = "rewritten"
  /\ header' = ServHandlePkt(header, server)
  /\ asked' = [asked EXCEPT !.src = server]
  /\ UNCHANGED made

\* ... or a destination's reply to the client.
RewriteReply(client) ==
  /\ stage = "made" /\ client \notin {asked.src, asked.dst}
  /\ stage' = "rewritten"
  /\ header' = ServHandlePktDest(header, client)
  /\ asked' = [asked EXCEPT !.dst = client]
  /\ UNCHANGED made

IpNext ==
  \/ \E src, dst \in Addresses : Make(src, dst)
  \/ \E a \in Addresses : RewriteRequest(a) \/ RewriteReply(a)

IpSpec == IpInit /\ [][IpNext]_ipVars

-----------------------------------------------------------------------------
\* Six changes of byte order later, a rewritten header has the length it was
\* made with, the one new address, the other address untouched, and the fields
\* nobody writes to.
RewriteKeepsTheRest ==
  stage = "rewritten" =>
    /\ header.len = made.len
    /\ header.rest = made.rest
    /\ header.src = asked.src
    /\ header.dst = asked.dst

\* utils.c:42, verify_checksum returns "0 if checksum is correct"; CSCD58_
\* Documentation.txt:15, cksum's result is "converted to network byte order".
\* A header as its sender made it passes the repository's own check.
ChecksumVerifies ==
  stage # "none" => VerifyChecksum(IpBytes([made EXCEPT !.sum = 0]), made.sum) = 0
=============================================================================
