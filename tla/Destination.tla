---------------------------- MODULE Destination ----------------------------
(***************************************************************************)
(* vpn_destination, destination.c: accepts one connection, prints the      *)
(* packet it brings and answers the address the packet claims to be from.  *)
(***************************************************************************)
EXTENDS Kernel

CONSTANT Reply   \* "Hello from the other side!", the text of every answer

ASSUME DestinationAssumption == IsText(Reply) /\ Len(Reply) < MaxPayload

VARIABLE response   \* fixed_pkt, without its GRE header

destVars == <<response>>

DestTypeOK == response \in [Dests -> BarePackets \cup {<<>>}]

DestInit == response = [d \in Dests |-> <<>>]

-----------------------------------------------------------------------------
DestStart(d) ==
  /\ At(d, "start")
  /\ \/ Listen(d) /\ Goto(d, "accept")
     \/ Finish(d, "zero") /\ UNCHANGED listenVars   \* its name is not known
  /\ UNCHANGED <<destVars, terminal, linkVars, faults>>

DestAccept(d) ==
  /\ At(d, "accept")
  /\ Accept(d)
  /\ Goto(d, "receive")
  /\ UNCHANGED <<destVars, terminal, linkVars, faults>>

DestReceive(d) ==
  /\ At(d, "receive")
  /\ \E k \in 0..PacketLen :
       /\ ReadUp(d, k, PacketLen - 1)
       /\ LET request == Received(up[session[d]], k, PacketLen - 1)
              src == request[SrcAt - 1]
              answer == Decapsulate(CreatePacketsDes(Clear(HostOf[d]), src, Clear("ack"), Reply))
          IN  /\ response' = [response EXCEPT ![d] = answer]
              /\ terminal' = [terminal EXCEPT ![d] = @ \o <<request, answer>>]
  /\ Goto(d, "reply")
  /\ UNCHANGED faults

DestReceiveFails(d) ==
  /\ At(d, "receive")
  /\ ReadUpFails(d)
  /\ Finish(d, "error")
  /\ UNCHANGED <<destVars, terminal, faults>>

DestReply(d) ==
  /\ At(d, "reply")
  /\ \/ SendDown(d, ReplyBytes(response[d], Reply)) /\ Finish(d, "zero")
     \/ SendDownFails(d) /\ Finish(d, "error")
  /\ UNCHANGED <<destVars, terminal, faults>>

DestExit(d) == Exit(d) /\ UNCHANGED destVars

\* socket(), bind(), accept(), recv() or send() fails for a reason outside the model.
DestFault(d) ==
  /\ Fault("call")
  /\ pc[d] \in {"start", "accept", "receive", "reply"}
  /\ Finish(d, "error")
  /\ UNCHANGED <<destVars, terminal, netVars>>

DestStep(d) ==
  \/ DestAccept(d) \/ DestReceive(d) \/ DestReceiveFails(d)
  \/ DestReply(d) \/ DestExit(d)
=============================================================================
