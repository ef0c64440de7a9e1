-------------------------------- MODULE Vpn --------------------------------
(***************************************************************************)
(* The three programs and the network between them: any number of clients, *)
(* servers and destinations, each started by its user at any time.         *)
(***************************************************************************)
EXTENDS Client, Server, Destination

vars == <<kernelVars, clientVars, serverVars, destVars>>

Init == KernelInit /\ ClientInit /\ ServerInit /\ DestInit

ClientNext(c) ==
  /\ ClientStart(c) \/ ClientStep(c) \/ ClientFault(c) \/ (Kill(c) /\ UNCHANGED clientVars)
  /\ UNCHANGED <<serverVars, destVars>>

ServerNext(s) ==
  /\ ServerStart(s) \/ ServerStep(s) \/ ServerFault(s) \/ (Kill(s) /\ UNCHANGED serverVars)
  /\ UNCHANGED <<clientVars, destVars>>

DestNext(d) ==
  /\ DestStart(d) \/ DestStep(d) \/ DestFault(d) \/ (Kill(d) /\ UNCHANGED destVars)
  /\ UNCHANGED <<clientVars, serverVars>>

Next ==
  \/ \E c \in Clients : ClientNext(c)
  \/ \E s \in Servers : ServerNext(s)
  \/ \E d \in Dests : DestNext(d)

\* The operating system schedules every running process that can take a step.
\* Nothing makes a user start a program, and nothing makes a call fail.
Fairness ==
  /\ \A c \in Clients : WF_vars(ClientStep(c) /\ UNCHANGED <<serverVars, destVars>>)
  /\ \A s \in Servers : WF_vars(ServerStep(s) /\ UNCHANGED <<clientVars, destVars>>)
  /\ \A d \in Dests : WF_vars(DestStep(d) /\ UNCHANGED <<clientVars, serverVars>>)

Spec == Init /\ [][Next]_vars
FairSpec == Spec /\ Fairness

-----------------------------------------------------------------------------
\* Every variable keeps the shape the programs' types give it.
TypeOK == KernelTypeOK /\ ClientTypeOK /\ ServerTypeOK /\ DestTypeOK

\* What a client has printed of the reply, once it has: its second packet.
Told(c) == Len(terminal[c]) = 2
ReplyShown(c) == terminal[c][2]
TextShown(c) == TextOf(ReplyShown(c), PayloadAt)

\* Report.md:10, "the data being communicated is encrypted": whatever travels
\* between a client and its server, in either direction, is XOR-ed with the key
\* or the 0 that XOR makes of a key byte.
TunnelEncrypted ==
  \A c \in Clients : peer[c] \in Servers => AllHidden(up[c]) /\ AllHidden(down[c])

\* Report.md:10, the VPN "keeps the client's IP address secrete from the outside
\* hosts": nothing a server sends on, and nothing the destination it has dialled
\* prints, holds the address of the client it serves, however the packets were
\* cut on the way.
ClientHidden ==
  \A c \in Clients, s \in Servers : session[s] = c =>
    /\ \A cell \in ToSet(up[s]) : cell.val # HostOf[c]
    /\ \A d \in Dests : session[d] = s =>
         \A i \in 1..Len(terminal[d]) :
           \A cell \in ToSet(terminal[d][i]) : cell.val # HostOf[c]

\* Two encryptions, two decryptions, two 0s put back by guessing the length and
\* any number of short reads: still no program on the path through a server ever
\* prints a character that was not written, in place, by the other end.
CleanText ==
  /\ \A c \in Clients : peer[c] \in Servers /\ Told(c) =>
       IsPrefix(TextShown(c), Reply)
  /\ \A s \in Servers : session[s] \in Clients =>
       /\ Len(terminal[s]) >= 1 => IsPrefix(TextOf(terminal[s][1], PayloadAt), Request)
       /\ Len(terminal[s]) = 2 /\ peer[s] \in Dests =>
            IsPrefix(TextOf(terminal[s][2], PayloadAt), Reply)
  /\ \A d \in Dests : session[d] \in Servers /\ terminal[d] # <<>> =>
       IsPrefix(TextOf(terminal[d][1], PayloadAt - 1), Request)

\* A client that is shown some text is shown the answer of the destination it
\* named to the question its server asked there for it: the server served this
\* client and dialled that destination, which served this server, saw the
\* question as coming from it, and the addresses on the reply say who answered
\* whom.
AuthenticReply ==
  \A c \in Clients : peer[c] \in Servers /\ Told(c) /\ TextShown(c) # <<>> =>
    LET s == peer[c]
        d == peer[s]
    IN  /\ session[s] = c /\ HostOf[s] = serverHost[c]
        /\ d \in Dests /\ session[d] = s /\ HostOf[d] = destHost[c]
        /\ terminal[d][1][SrcAt - 1] = Clear(serverHost[c])
        /\ ReplyShown(c)[SrcAt] = Clear(destHost[c])
        /\ ReplyShown(c)[DstAt] = Clear(HostOf[c])

\* A server dials on behalf of a client only.  One that has itself been dialled by
\* another server, whose client gave it as the destination, decrypts bytes that
\* nobody encrypted and finds no address in them (server.c:127-154).
ServesClients == \A s \in Servers : peer[s] # Nobody => session[s] \in Clients

\* No program dereferences the NULL that a failed receive returns
\* (client.c:111-113, server.c:169-176).
NoCrash == \A p \in Hosts : outcome[p] # "crashed"

\* While nothing fails, only a program whose connection was never accepted can
\* dereference that NULL: every program takes all that was sent to it before it
\* closes, so that the one it has accepted reads an end of the stream and never a
\* reset.  One recv with a smaller buffer would be enough to break this.
AcceptedNeverCrash ==
  \A p \in Hosts : outcome[p] = "crashed" =>
    faults > 0 \/ ShortReads \/ session[peer[p]] # p

\* packet.h:30-33: serv_rec_from_cli "receives the packet sent by the client.
\* Returns the pointer of the packet on success and NULL if error occured".  What a
\* program prints as a packet it has received is not a buffer that no byte was
\* received into.
PacketsAreReceived ==
  \A c \in Clients : Told(c) => \E i \in 1..PacketLen : ReplyShown(c)[i].val # "zero"

\* A client that waits for its reply does not wait for ever (client.c:111 has no
\* timeout): a reply, the end of the stream or a reset wakes it up.
ClientReturns == \A c \in Clients : At(c, "receive") ~> At(c, "gone")

\* Several servers that have all dialled one another: each waits in recv for a reply that
\* only another of them can send.
WaitInCircle ==
  \E ring \in SUBSET Servers \ {{}} : \A s \in ring : peer[s] \in ring \ {s}

\* A client whose send has failed, unnoticed, and its server: each waits in recv
\* for what only the other could send.
WaitUnasked(c) ==
  /\ session[peer[c]] = c /\ At(peer[c], "receive")
  /\ up[c] = <<>> /\ upEnd[c] = "open"

\* Whatever is killed or fails, and however short the reads: a client waits for
\* ever only in front of a server that still listens to it because its own send
\* failed, or behind servers that wait for one another in a circle.
ReturnsUnlessStuck ==
  \A c \in Clients :
    At(c, "receive") ~> At(c, "gone") \/ WaitInCircle \/ (peer[c] # Nobody /\ WaitUnasked(c))

\* When nothing fails and a destination was already listening, the client is shown
\* the whole reply, unless its server or a destination there serves somebody else:
\* no character is lost in either direction.
RoundTrip ==
  \A c \in Clients, s \in Servers, d \in Dests :
    At(c, "send") /\ peer[c] = s /\ destHost[c] = HostOf[d] /\ d \in listening
      ~> \/ Told(c) /\ TextShown(c) = Reply
         \/ session[s] \notin {Nobody, c}
         \/ \E e \in Dests : HostOf[e] = HostOf[d] /\ session[e] \notin {Nobody, s}

-----------------------------------------------------------------------------
\* What the processes have done, as the events of the abstract specification.
DestHosts == {HostOf[d] : d \in Dests}
Asked == {x \in Clients \X Servers \X DestHosts : peer[x[1]] = x[2] /\ destHost[x[1]] = x[3]}
Relayed == {x \in Clients \X Servers \X Dests : session[x[2]] = x[1] /\ peer[x[2]] = x[3]}
Answered == {x \in Servers \X Dests : session[x[2]] = x[1] /\ Len(terminal[x[2]]) = 2}
ToldOf == {x \in Clients \X Servers \X DestHosts :
             /\ peer[x[1]] = x[2] /\ Told(x[1]) /\ TextShown(x[1]) # <<>>
             /\ ReplyShown(x[1])[SrcAt] = Clear(x[3])}

Abstract == INSTANCE Relay WITH asked <- Asked, relayed <- Relayed,
                                answered <- Answered, told <- ToldOf

\* The three programs implement the relay.
RelaySpec == Abstract!RelaySpec
=============================================================================
