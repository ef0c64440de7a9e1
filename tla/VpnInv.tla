------------------------------- MODULE VpnInv -------------------------------
(***************************************************************************)
(* The inductive invariant of Vpn: what VpnProofs proves, and why no       *)
(* program can put a clear cell on a link between a client and its server. *)
(***************************************************************************)
EXTENDS Vpn

\* What a program has when it gets to a place: a connection it has accepted,
\* names it has checked, a packet of the right shape.
Ready ==
  /\ \A h \in Servers \cup Dests :
       pc[h] \in {"receive", "dial", "forward", "receiveReply", "reply"} =>
         session[h] \in Hosts
  /\ \A c \in Clients : pc[c] \in {"connect", "send", "receive"} =>
       serverHost[c] \in Hosts /\ destHost[c] \in Hosts
  /\ \A s \in Servers :
       /\ pc[s] \in {"dial", "forward"} => packet[s] \in BarePackets
       /\ pc[s] = "reply" => packet[s] \in Packets
  /\ \A d \in Dests : pc[d] = "reply" => response[d] \in BarePackets

TypeInv == TypeOK /\ Ready

\* A host accepts only connections made to it, a program makes one connection at
\* most, and no byte travels before it has.
Wiring ==
  /\ listening \subseteq Servers \cup Dests
  /\ \A h \in Hosts : session[h] # Nobody => peer[session[h]] = h
  /\ \A h \in Hosts : \A i \in 1..Len(queue[h]) : peer[queue[h][i]] = h
  /\ \A c \in Clients :
       /\ pc[c] \in {"start", "connect"} => peer[c] = Nobody
       /\ pc[c] \in {"send", "receive"} => peer[c] # Nobody
  /\ \A s \in Servers :
       /\ pc[s] \in {"start", "accept", "receive", "dial"} => peer[s] = Nobody
       /\ pc[s] \in {"forward", "receiveReply", "reply"} => peer[s] # Nobody
  /\ \A h \in Hosts \ (Clients \cup Servers) : peer[h] = Nobody
  /\ \A h \in Hosts : peer[h] = Nobody => up[h] = <<>> /\ down[h] = <<>>

\* Clients and their servers talk in hidden cells, servers and destinations in
\* plain ones.  A server that another server has dialled turns plain cells into
\* hidden ones and finds no address among them, so that it gets no further.
Secrecy ==
  /\ TunnelEncrypted /\ ServesClients
  /\ \A s \in Servers :
       /\ AllPlain(up[s]) /\ AllPlain(down[s])
       /\ pc[s] = "dial" => session[s] \in Clients \/ DestOf(s) = Nobody
       /\ pc[s] \in {"dial", "forward"} /\ session[s] \in Clients => AllPlain(packet[s])
       /\ pc[s] \in {"dial", "forward", "receiveReply"} /\ session[s] \in Clients =>
            IsPlain(clientIp[s])
       /\ pc[s] = "reply" => AllPlain(packet[s])
  /\ \A d \in Dests : pc[d] = "reply" /\ session[d] \in Servers => AllPlain(response[d])

IInv == TypeInv /\ Wiring /\ Secrecy
=============================================================================
