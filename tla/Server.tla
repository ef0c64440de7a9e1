------------------------------- MODULE Server -------------------------------
(***************************************************************************)
(* vpn_server, server.c: accepts one client, forwards its packet to the    *)
(* destination in the server's own name, and sends the destination's reply *)
(* back encrypted.                                                         *)
(***************************************************************************)
EXTENDS Kernel

VARIABLES packet,    \* fixed_pkt, then enc_pkt
          clientIp   \* client_ip

serverVars == <<packet, clientIp>>

ServerTypeOK ==
  /\ packet \in [Servers -> Packets \cup BarePackets \cup {<<>>}]
  /\ clientIp \in [Servers -> Cell]

ServerInit ==
  /\ packet = [s \in Servers |-> <<>>]
  /\ clientIp = [s \in Servers |-> Nul]

\* The host the packet is addressed to, if it is one.
DestOf(s) ==
  LET dst == packet[s][DstAt - 1]
  IN  IF dst.val \in Hosts /\ ~dst.masked THEN dst.val ELSE Nobody

-----------------------------------------------------------------------------
ServerStart(s) ==
  /\ At(s, "start")
  /\ \/ Listen(s) /\ Goto(s, "accept")
     \/ Finish(s, "zero") /\ UNCHANGED listenVars   \* its name is not known
  /\ UNCHANGED <<serverVars, terminal, linkVars, faults>>

ServerAccept(s) ==
  /\ At(s, "accept")
  /\ Accept(s)
  /\ Goto(s, "receive")
  /\ UNCHANGED <<serverVars, terminal, linkVars, faults>>

\* Mutant: the buffer has no room for the payload.
ServerReceiveHeaders(s) ==
  /\ At(s, "receive")
  /\ \E k \in 0..HeaderLen :
       /\ ReadUp(s, k, HeaderLen)
       /\ LET received == Decrypt(Received(up[session[s]], k, PacketLen))
          IN  /\ Show(s, received)
              /\ clientIp' = [clientIp EXCEPT ![s] = SaveClientIp(received)]
              /\ packet' = [packet EXCEPT ![s] = ServHandlePkt(received, HostOf[s])]
  /\ Goto(s, "dial")
  /\ UNCHANGED faults

ServerReceive(s) ==
  /\ At(s, "receive")
  /\ \E k \in 0..PacketLen :
       /\ ReadUp(s, k, PacketLen)
       /\ LET received == Decrypt(Received(up[session[s]], k, PacketLen))
          IN  /\ Show(s, received)
              /\ clientIp' = [clientIp EXCEPT ![s] = SaveClientIp(received)]
              /\ packet' = [packet EXCEPT ![s] = ServHandlePkt(received, HostOf[s])]
  /\ Goto(s, "dial")
  /\ UNCHANGED faults

ServerReceiveFails(s) ==
  /\ At(s, "receive")
  /\ ReadUpFails(s)
  /\ Finish(s, "error")
  /\ UNCHANGED <<serverVars, terminal, faults>>

ServerDial(s) ==
  /\ At(s, "dial")
  /\ Connect(s, DestOf(s))
  /\ Goto(s, "forward")
  /\ UNCHANGED <<serverVars, terminal, faults>>

\* Mutant: the connection is tried again until it succeeds.
ServerDialRetries(s) ==
  /\ At(s, "dial")
  /\ ConnectFails(DestOf(s))
  /\ Goto(s, "dial")
  /\ UNCHANGED <<serverVars, terminal, netVars, faults>>

ServerDialFails(s) ==
  /\ At(s, "dial")
  /\ ConnectFails(DestOf(s))
  /\ Finish(s, "error")
  /\ UNCHANGED <<serverVars, terminal, netVars, faults>>

ServerForward(s) ==
  /\ At(s, "forward")
  /\ \/ SendUp(s, packet[s]) /\ Goto(s, "receiveReply")
     \/ SendUpFails(s) /\ Finish(s, "error")
  /\ UNCHANGED <<serverVars, terminal, faults>>

ServerReceiveReply(s) ==
  /\ At(s, "receiveReply")
  /\ \E k \in 0..PacketLen :
       /\ ReadDown(s, k, PacketLen)
       /\ LET received == Received(down[s], k, PacketLen - 1)
              answer == ServHandlePktDest(Encapsulate(received), clientIp[s])
          IN  /\ Show(s, answer)
              /\ packet' = [packet EXCEPT ![s] = answer]
  /\ Goto(s, "reply")
  /\ UNCHANGED <<clientIp, faults>>

\* serv_rec_from_des returns NULL and memcpy dereferences it.
ServerReceiveReplyFails(s) ==
  /\ At(s, "receiveReply")
  /\ ReadDownFails(s)
  /\ Finish(s, "crashed")
  /\ UNCHANGED <<serverVars, terminal, faults>>

\* Mutant: the server goes on to its next client.
ServerReplyAndAccept(s) ==
  /\ At(s, "reply")
  /\ SendDown(s, ServCliEncrypt(packet[s])) \/ SendDownFails(s)
  /\ Goto(s, "accept")
  /\ UNCHANGED <<serverVars, terminal, faults>>

\* The result of serv_cli_encrypt_free is ignored.
ServerReply(s) ==
  /\ At(s, "reply")
  /\ SendDown(s, ServCliEncrypt(packet[s])) \/ SendDownFails(s)
  /\ Finish(s, "zero")
  /\ UNCHANGED <<serverVars, terminal, faults>>

ServerExit(s) == Exit(s) /\ UNCHANGED serverVars

\* socket(), bind(), accept(), connect(), send() or recv() fails for a reason outside
\* the model.
ServerFault(s) ==
  /\ Fault("call")
  /\ \/ pc[s] \in {"start", "accept", "receive", "dial", "forward"} /\ Finish(s, "error")
     \/ At(s, "receiveReply") /\ Finish(s, "crashed")
     \/ At(s, "reply") /\ Finish(s, "zero")
  /\ UNCHANGED <<serverVars, terminal, netVars>>

ServerStep(s) ==
  \/ ServerAccept(s) \/ ServerReceive(s) \/ ServerReceiveFails(s)
  \/ ServerDial(s) \/ ServerDialFails(s) \/ ServerForward(s)
  \/ ServerReceiveReply(s) \/ ServerReceiveReplyFails(s)
  \/ ServerReply(s) \/ ServerExit(s)
=============================================================================
