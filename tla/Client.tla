------------------------------- MODULE Client -------------------------------
(***************************************************************************)
(* vpn_client, client.c: asks the VPN server to relay one packet to a      *)
(* destination and prints the packet that comes back.                      *)
(***************************************************************************)
EXTENDS Kernel

CONSTANTS Request,    \* "payload", the text of the request
          CommandLine \* what users type: the names given to each client

VARIABLES serverHost, destHost   \* the hosts a client has been given

clientVars == <<serverHost, destHost>>

\* The names of a client's host, its server's and its destination's, or Nobody
\* for a name that is not in the table of hosts.
Names == [own : Hosts \cup {Nobody}, server : Hosts \cup {Nobody},
          dest : Hosts \cup {Nobody}]

ASSUME ClientAssumption ==
  /\ CommandLine \in [Clients -> SUBSET Names]
  /\ \A c \in Clients : \A n \in CommandLine[c] : n.own \in {HostOf[c], Nobody}
  /\ IsText(Request)

ClientTypeOK ==
  /\ serverHost \in [Clients -> Hosts \cup {Nobody}]
  /\ destHost \in [Clients -> Hosts \cup {Nobody}]

ClientInit ==
  /\ serverHost = [c \in Clients |-> Nobody]
  /\ destHost = [c \in Clients |-> Nobody]

\* Mutant: the server and the destination are not compared.
NamesAcceptedSameDest(n) ==
  /\ Nobody \notin {n.own, n.server, n.dest}
  /\ n.own # n.server /\ n.own # n.dest

\* get_host_ip finds all three names and they differ.
NamesAccepted(n) ==
  /\ Nobody \notin {n.own, n.server, n.dest}
  /\ n.own # n.server /\ n.own # n.dest /\ n.server # n.dest

RequestPacket(c) ==
  CreatePackets(Clear(HostOf[c]), Clear(destHost[c]), Clear("syn"), Request)

-----------------------------------------------------------------------------
ClientStart(c) ==
  /\ At(c, "start")
  /\ \E n \in CommandLine[c] :
       \/ /\ ~NamesAccepted(n)
          /\ Finish(c, "zero")
          /\ UNCHANGED clientVars
       \/ /\ NamesAccepted(n)
          /\ Goto(c, "connect")
          /\ serverHost' = [serverHost EXCEPT ![c] = n.server]
          /\ destHost' = [destHost EXCEPT ![c] = n.dest]
  /\ UNCHANGED <<terminal, netVars, faults>>

ClientConnect(c) ==
  /\ At(c, "connect")
  /\ Connect(c, serverHost[c])
  /\ Show(c, RequestPacket(c))
  /\ Goto(c, "send")
  /\ UNCHANGED <<clientVars, faults>>

ClientConnectFails(c) ==
  /\ At(c, "connect")
  /\ ConnectFails(serverHost[c])
  /\ Finish(c, "error")
  /\ UNCHANGED <<clientVars, terminal, netVars, faults>>

\* A failed send is reported and otherwise ignored.
ClientSend(c) ==
  /\ At(c, "send")
  /\ SendUp(c, RequestBytes(RequestPacket(c), Request)) \/ SendUpFails(c)
  /\ Goto(c, "receive")
  /\ UNCHANGED <<clientVars, terminal, faults>>

ClientReceive(c) ==
  /\ At(c, "receive")
  /\ \E k \in 0..PacketLen :
       /\ ReadDown(c, k, PacketLen)
       /\ Show(c, Decrypt(Received(down[c], k, PacketLen)))
  /\ Finish(c, "zero")
  /\ UNCHANGED <<clientVars, faults>>

\* serv_rec_from_cli returns NULL and print_packet dereferences it.
ClientReceiveFails(c) ==
  /\ At(c, "receive")
  /\ ReadDownFails(c)
  /\ Finish(c, "crashed")
  /\ UNCHANGED <<clientVars, terminal, faults>>

ClientExit(c) == Exit(c) /\ UNCHANGED clientVars

\* socket(), connect(), send() or recv() fails for a reason outside the model.
ClientFault(c) ==
  /\ Fault("call")
  /\ \/ At(c, "connect") /\ Finish(c, "error")
     \/ At(c, "send") /\ Goto(c, "receive")
     \/ At(c, "receive") /\ Finish(c, "crashed")
  /\ UNCHANGED <<clientVars, terminal, netVars>>

ClientStep(c) ==
  \/ ClientConnect(c) \/ ClientConnectFails(c) \/ ClientSend(c)
  \/ ClientReceive(c) \/ ClientReceiveFails(c) \/ ClientExit(c)
=============================================================================
