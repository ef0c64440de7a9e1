------------------------------ MODULE VpnStory ------------------------------
(***************************************************************************)
(* What each packet is made of.  The screens of the programs are never     *)
(* cleared, so that every packet of a round trip can be traced to the one  *)
(* it was made of: the client's question to what its server has printed of *)
(* it, that to what the destination has printed, and the answer back.      *)
(* Stages and Story are the inductive invariants on top of IInv that say   *)
(* so; StoryProofs proves them, PromiseProofs draws the conclusions.       *)
(***************************************************************************)
EXTENDS VpnInv

\* What a program has been told and has printed when it gets to a place, and that
\* only a program that is gone has closed its ends.
ClientStage(c) ==
  /\ pc[c] \in {"start", "connect"} => terminal[c] = <<>>
  /\ pc[c] \in {"send", "receive"} => Len(terminal[c]) = 1
  /\ pc[c] = "connect" \/ peer[c] # Nobody =>
       /\ serverHost[c] \in Hosts \ {HostOf[c]}
       /\ destHost[c] \in Hosts \ {HostOf[c], serverHost[c]}
  /\ peer[c] # Nobody => HostOf[peer[c]] = serverHost[c]

ServerStage(s) ==
  /\ pc[s] \in {"start", "accept"} => session[s] = Nobody
  /\ pc[s] \in {"start", "accept", "receive"} => terminal[s] = <<>>
  /\ pc[s] \in {"dial", "forward", "receiveReply"} => Len(terminal[s]) = 1
  /\ pc[s] = "reply" => Len(terminal[s]) = 2
  /\ Len(terminal[s]) <= 2
  /\ peer[s] # Nobody => peer[s] \in Servers \cup Dests /\ terminal[s] # <<>>

DestStage(d) ==
  /\ pc[d] \in {"start", "accept"} => session[d] = Nobody
  /\ pc[d] \in {"start", "accept", "receive"} => terminal[d] = <<>>
  /\ pc[d] = "reply" => Len(terminal[d]) = 2
  /\ terminal[d] = <<>> \/ Len(terminal[d]) = 2

EndStage(p) ==
  /\ upEnd[p] # "open" => pc[p] = "gone"
  /\ downEnd[p] # "open" => peer[p] # Nobody /\ pc[peer[p]] = "gone"

Stages ==
  /\ \A c \in Clients : ClientStage(c)
  /\ \A s \in Servers : ServerStage(s)
  /\ \A d \in Dests : DestStage(d)
  /\ \A p \in Hosts : EndStage(p)

-----------------------------------------------------------------------------
\* A buffer into which nothing has been received, and those into which some of
\* these bytes have.
EmptyBuffer(n) == Received(<<>>, 0, n)
Arrivals(bytes, n) == {Received(bytes, k, n) : k \in 0..Len(bytes)}

\* What a client sends, what its server makes of what it has printed, what a
\* destination makes of that, and what the server makes of the reply.
Question(c) == RequestBytes(RequestPacket(c), Request)
Forwarded(s) == ServHandlePkt(terminal[s][1], HostOf[s])
Response(d) ==
  Decapsulate(CreatePacketsDes(Clear(HostOf[d]), terminal[d][1][SrcAt - 1], Clear("ack"), Reply))
Readdressed(s, bare) == ServHandlePktDest(Encapsulate(bare), SaveClientIp(terminal[s][1]))

\* The process that p has connected to has read what p sent, or never will.
Taken(p) == session[peer[p]] = p /\ pc[peer[p]] # "receive"

\* The destination a server has dialled has answered it, by its name.
AnsweredBy(s, d) ==
  /\ d \in Dests /\ session[d] = s /\ Len(terminal[d]) = 2
  /\ terminal[d][1][SrcAt - 1] = Clear(HostOf[s])

\* A server has got as far as an answer for its client.
RepliedTo(c, s) == session[s] = c /\ Len(terminal[s]) = 2

ClientStory(c) ==
  LET s == peer[c]
  IN  s \in Servers =>
        /\ pc[c] = "send" => up[c] = <<>>
        /\ ~Taken(c) => up[c] \in {<<>>, Question(c)}
        /\ pc[c] \in {"send", "receive"} =>
             \/ down[c] = <<>>
             \/ /\ RepliedTo(c, s) /\ pc[s] \in {"exit", "gone"}
                /\ down[c] = ServCliEncrypt(terminal[s][2])
        /\ Told(c) =>
             \/ ReplyShown(c) = Decrypt(EmptyBuffer(PacketLen))
             \/ /\ RepliedTo(c, s)
                /\ \E raw \in Arrivals(ServCliEncrypt(terminal[s][2]), PacketLen) :
                     ReplyShown(c) = Decrypt(raw)

\* A server between its client and whom it has dialled.
ServerStory(s) ==
  session[s] \in Clients =>
    /\ terminal[s] # <<>> =>
         \E raw \in Arrivals(Question(session[s]), PacketLen) : terminal[s][1] = Decrypt(raw)
    /\ pc[s] \in {"dial", "forward"} => packet[s] = Forwarded(s)
    /\ pc[s] \in {"dial", "forward", "receiveReply"} =>
         clientIp[s] = SaveClientIp(terminal[s][1])
    /\ pc[s] = "reply" => packet[s] = terminal[s][2]
    /\ Len(terminal[s]) = 2 =>
         \/ terminal[s][2] = Readdressed(s, EmptyBuffer(PacketLen - 1))
         \/ /\ AnsweredBy(s, peer[s])
            /\ \E bare \in Arrivals(ReplyBytes(terminal[peer[s]][2], Reply), PacketLen - 1) :
                 terminal[s][2] = Readdressed(s, bare)

DialStory(s) ==
  LET d == peer[s]
  IN  d # Nobody =>
        /\ terminal[s][1][DstAt] = Clear(HostOf[d])
        /\ pc[s] = "forward" => up[s] = <<>>
        /\ ~Taken(s) => up[s] \in {<<>>, Forwarded(s)}
        /\ ToSet(up[s]) \subseteq ToSet(Forwarded(s))
        /\ pc[s] \in {"forward", "receiveReply"} =>
             \/ down[s] = <<>>
             \/ /\ AnsweredBy(s, d) /\ pc[d] \in {"exit", "gone"}
                /\ down[s] = ReplyBytes(terminal[d][2], Reply)

\* A destination that a server has dialled.  What it answers without having read
\* its name is answered to a server that is gone.
DestStory(d) ==
  LET s == session[d]
  IN  s \in Servers /\ terminal[d] # <<>> =>
        /\ terminal[d][1] \in Arrivals(Forwarded(s), PacketLen - 1)
        /\ terminal[d][2] = Response(d)
        /\ pc[d] = "reply" => response[d] = terminal[d][2]
        /\ terminal[d][1][SrcAt - 1] = Clear(HostOf[s]) \/ upEnd[s] # "open"

Story ==
  /\ \A c \in Clients : ClientStory(c)
  /\ \A s \in Servers : ServerStory(s) /\ DialStory(s)
  /\ \A d \in Dests : DestStory(d)

-----------------------------------------------------------------------------
(* What a program leaves unread when it ends, while nothing fails and no read *)
(* comes short.                                                               *)

\* A connection waits in one place of a queue, and has not been accepted yet.
QueueOnce(h) ==
  \A i \in 1..Len(queue[h]) :
    /\ queue[h][i] # session[h]
    /\ \A j \in 1..Len(queue[h]) : queue[h][i] = queue[h][j] => i = j

\* A program sends to its peer once, and no more than a server's buffer holds.
OnePiece(p) ==
  /\ pc[p] \in {"send", "forward"} => up[p] = <<>>
  /\ Len(up[p]) <= PacketLen

Waits(p) == pc[p] \in {"receive", "receiveReply"}

\* A server that has read has read all there will ever be.  A destination's buffer is
\* one cell shorter, and what it leaves behind it leaves to a client it has answered.
AllTaken(h) ==
  LET p == session[h]
  IN  p # Nobody /\ pc[h] # "receive" =>
        /\ pc[p] \notin {"send", "forward"}
        /\ h \in Servers => up[p] = <<>>
        /\ Waits(p) => up[p] = <<>> \/ down[p] # <<>> \/ pc[h] = "reply"

\* Who waits for an answer on a connection that was accepted is not reset before it
\* has read one.
ResetUnaccepted(p) ==
  /\ downEnd[p] = "rst" /\ Waits(p) => session[peer[p]] # p \/ down[p] # <<>>
  /\ outcome[p] = "crashed" => downEnd[p] # "open" /\ session[peer[p]] # p

Calm == faults = 0 /\ ~ShortReads

Drained ==
  /\ \A h \in Hosts : QueueOnce(h) /\ OnePiece(h)
  /\ \A h \in Hosts \ (Servers \cup Dests) : session[h] = Nobody
  /\ Calm => \A h \in Hosts : AllTaken(h) /\ ResetUnaccepted(h)
=============================================================================
