---------------------------- MODULE StoryProofs ----------------------------
(***************************************************************************)
(* Stages and Story are invariants of Vpn: every packet on a screen or in  *)
(* flight between a client, its server and its destination was made of the *)
(* one before it, whatever the texts, the faults and the number of hosts.  *)
(*                                                                         *)
(* A step is taken by one process and rewrites no history: Onward says so, *)
(* and is all that the stories of the other processes need.                *)
(***************************************************************************)
EXTENDS VpnStory, VpnProofs

\* Stages, for one process.
StageAt(p) ==
  /\ p \in Clients => ClientStage(p)
  /\ p \in Servers => ServerStage(p)
  /\ p \in Dests => DestStage(p)

\* A step of p: nothing of another process changes but the bytes it may get, and
\* what p has accepted, dialled and printed stays.
Onward(p) ==
  /\ OnlyAt(p)
  /\ \A q \in Hosts \ {p} : terminal'[q] = terminal[q] /\ peer'[q] = peer[q]
  /\ \A q \in Servers \ {p} : clientIp'[q] = clientIp[q]
  /\ pc[p] # "gone"
  /\ pc[p] = "exit" => pc'[p] = "gone"
  /\ p \in Servers \cup Dests =>
       /\ pc'[p] = "receive" => pc[p] = "accept"
       /\ terminal[p] # <<>> => terminal'[p] # <<>> /\ terminal'[p][1] = terminal[p][1]
       /\ Len(terminal[p]) = 2 => terminal'[p] = terminal[p]
  /\ session[p] # Nobody => session'[p] = session[p]
  /\ peer[p] # Nobody => peer'[p] = peer[p]
  /\ p \in Clients /\ peer[p] # Nobody => destHost'[p] = destHost[p]

\* Ends are closed for good, by the process they belong to when it ends.
EndsKept(p) ==
  \A q \in Hosts :
    /\ upEnd[q] # "open" => upEnd'[q] # "open"
    /\ upEnd'[q] # "open" => upEnd[q] # "open" \/ (q = p /\ pc'[p] = "gone")
    /\ downEnd'[q] # "open" => downEnd[q] # "open" \/ (peer[q] = p /\ pc'[p] = "gone")

LEMMA StagesParts ==
  Stages <=> (\A p \in Hosts : StageAt(p)) /\ (\A p \in Hosts : EndStage(p))
BY KernelAssumption DEF Stages, StageAt

LEMMA StagesStep ==
  ASSUME IInv, Stages, NEW p \in Hosts, Onward(p), EndsKept(p), StageAt(p)'
  PROVE  Stages'
<1>1. (\A q \in Hosts : StageAt(q)) /\ (\A q \in Hosts : EndStage(q))
  BY StagesParts
<1>2. ASSUME NEW q \in Hosts \ {p} PROVE StageAt(q)'
  <2>1. /\ pc'[q] = pc[q] /\ session'[q] = session[q]
        /\ terminal'[q] = terminal[q] /\ peer'[q] = peer[q]
        /\ q \in Clients => serverHost'[q] = serverHost[q] /\ destHost'[q] = destHost[q]
    BY DEF Onward, OnlyAt
  <2>. QED
    BY <1>1, <2>1 DEF StageAt, ClientStage, ServerStage, DestStage
<1>3. ASSUME NEW q \in Hosts PROVE EndStage(q)'
  <2>1. EndStage(q)
    BY <1>1
  <2>2. upEnd'[q] # "open" => pc'[q] = "gone"
    BY <2>1 DEF EndStage, EndsKept, Onward, OnlyAt
  <2>3. peer[q] # Nobody => peer'[q] = peer[q]
    BY DEF Onward
  <2>4. ASSUME downEnd'[q] # "open" PROVE peer'[q] # Nobody /\ pc'[peer'[q]] = "gone"
    <3>1. downEnd[q] # "open" \/ (peer[q] = p /\ pc'[p] = "gone")
      BY <2>4 DEF EndsKept
    <3>2. CASE peer[q] = p /\ pc'[p] = "gone"
      BY <2>3, <3>2, KernelAssumption
    <3>3. CASE downEnd[q] # "open"
      <4>1. peer[q] # Nobody /\ pc[peer[q]] = "gone" /\ peer[q] # p
        BY <2>1, <3>3 DEF EndStage, Onward
      <4>2. peer[q] \in Hosts
        BY <4>1 DEF IInv, TypeInv, TypeOK, KernelTypeOK
      <4>. QED
        BY <2>3, <4>1, <4>2 DEF Onward, OnlyAt
    <3>. QED
      BY <3>1, <3>2, <3>3
  <2>. QED
    BY <2>2, <2>4 DEF EndStage
<1>4. \A q \in Hosts : StageAt(q)'
  BY <1>2
<1>. QED
  BY <1>3, <1>4, KernelAssumption DEF Stages, StageAt

-----------------------------------------------------------------------------
(* What the calls do to screens and ends *)

LEMMA ScreenFacts ==
  ASSUME ProcTypeOK, NEW p \in Hosts
  PROVE  Len(terminal[p]) \in Nat /\ (terminal[p] = <<>> <=> Len(terminal[p]) = 0)
<1>1. terminal[p] \in Seq(Seq(Cell))
  BY DEF ProcTypeOK
<1>. QED
  BY <1>1

LEMMA ShowFacts ==
  ASSUME ProcTypeOK, NEW p \in Hosts, NEW b, Show(p, b)
  PROVE  /\ terminal'[p] # <<>>
         /\ terminal[p] = <<>> => Len(terminal'[p]) = 1 /\ terminal'[p][1] = b
         /\ Len(terminal[p]) = 1 => Len(terminal'[p]) = 2 /\ terminal'[p][2] = b
         /\ terminal[p] # <<>> => terminal'[p][1] = terminal[p][1]
         /\ \A q \in Hosts \ {p} : terminal'[q] = terminal[q]
<1>1. terminal \in [Hosts -> Seq(Seq(Cell))] /\ terminal[p] \in Seq(Seq(Cell))
  BY DEF ProcTypeOK
<1>2. terminal'[p] = Append(terminal[p], b) /\ \A q \in Hosts \ {p} : terminal'[q] = terminal[q]
  BY <1>1 DEF Show
<1>. DEFINE longer == Append(terminal[p], b)
<1>3. /\ Len(terminal[p]) \in Nat
      /\ Len(longer) = Len(terminal[p]) + 1
      /\ longer[Len(terminal[p]) + 1] = b
      /\ \A i \in 1..Len(terminal[p]) : longer[i] = terminal[p][i]
  BY <1>1
<1>4. (terminal[p] = <<>> <=> Len(terminal[p]) = 0) /\ (longer = <<>> => Len(longer) = 0)
  BY <1>1
<1>. HIDE DEF longer
<1>5. terminal'[p] = longer
  BY <1>2 DEF longer
<1>6. longer # <<>> /\ (terminal[p] # <<>> => 1 \in 1..Len(terminal[p]))
  BY <1>3, <1>4
<1>7. terminal[p] = <<>> => Len(longer) = 1 /\ longer[1] = b
  BY <1>3, <1>4
<1>8. Len(terminal[p]) = 1 => Len(longer) = 2 /\ longer[2] = b
  BY <1>3
<1>9. terminal[p] # <<>> => longer[1] = terminal[p][1]
  BY <1>3, <1>6
<1>. QED
  BY <1>2, <1>5, <1>6, <1>7, <1>8, <1>9

LEMMA EmptyFirst ==
  \A a, b : <<>> \o <<a, b>> = <<a, b>>
OBVIOUS

LEMMA CallEnds ==
  ASSUME NetTypeOK, NEW p \in Hosts, session[p] # Nobody => session[p] \in Hosts,
         \/ UNCHANGED <<upEnd, downEnd>>
         \/ SendUpFails(p) \/ SendDownFails(p) \/ ReadDownFails(p) \/ ReadUpFails(p)
  PROVE  EndsKept(p)
<1>1. upEnd \in [Hosts -> Ends] /\ downEnd \in [Hosts -> Ends]
  BY DEF NetTypeOK
<1>2. CASE UNCHANGED <<upEnd, downEnd>>
  BY <1>2 DEF EndsKept
<1>3. CASE SendUpFails(p) \/ ReadDownFails(p)
  <2>1. /\ downEnd' = [downEnd EXCEPT ![p] = "fin"] /\ downEnd[p] = "rst" /\ upEnd' = upEnd
    BY <1>3 DEF SendUpFails, ReadDownFails, WasReset
  <2>. QED
    BY <1>1, <2>1 DEF EndsKept
<1>4. CASE SendDownFails(p) \/ ReadUpFails(p)
  <2>1. /\ upEnd' = [upEnd EXCEPT ![session[p]] = "fin"] /\ upEnd[session[p]] = "rst"
        /\ downEnd' = downEnd
    BY <1>4 DEF SendDownFails, ReadUpFails, WasReset
  <2>. QED
    BY <1>1, <2>1 DEF EndsKept
<1>. QED
  BY <1>2, <1>3, <1>4

LEMMA ReleaseEnds ==
  ASSUME IInv, NEW p \in Hosts, Release(p)
  PROVE  EndsKept(p)
<1>1. /\ upEnd \in [Hosts -> Ends] /\ downEnd \in [Hosts -> Ends]
      /\ pc \in [Hosts -> Locations] /\ queue[p] \in Seq(Hosts) /\ pc'[p] = "gone"
  BY DEF IInv, TypeInv, TypeOK, KernelTypeOK, Release
<1>2. ASSUME NEW q \in Hosts
      PROVE  /\ upEnd[q] # "open" => upEnd'[q] # "open"
             /\ upEnd'[q] # "open" => upEnd[q] # "open" \/ q = p
  <2>1. CASE peer[p] = Nobody
    BY <2>1 DEF Release
  <2>2. CASE peer[p] # Nobody
    <3>1. PICK e \in ClosedEnds(upEnd[p], down[p]) : upEnd' = [upEnd EXCEPT ![p] = e]
      BY <2>2 DEF Release
    <3>2. upEnd[p] # "open" => e = upEnd[p]
      BY <3>1 DEF ClosedEnds
    <3>. QED
      BY <1>1, <3>1, <3>2
  <2>. QED
    BY <2>1, <2>2
<1>3. ASSUME NEW q \in Hosts, downEnd'[q] # "open"
      PROVE  downEnd[q] # "open" \/ peer[q] = p
  <2>1. CASE q \in ToSet(queue[p])
    <3>1. PICK i \in 1..Len(queue[p]) : queue[p][i] = q
      BY <1>1, <2>1 DEF ToSet
    <3>. QED
      BY <3>1 DEF IInv, Wiring
  <2>2. CASE q = session[p]
    BY <2>2, KernelAssumption DEF IInv, Wiring
  <2>3. CASE q \notin ToSet(queue[p]) /\ q # session[p]
    BY <1>3, <2>3 DEF Release
  <2>. QED
    BY <2>1, <2>2, <2>3
<1>. QED
  BY <1>1, <1>2, <1>3 DEF EndsKept

\* A step after which a process is over, or all but over.
LEMMA QuietOnward ==
  ASSUME IInv, Stages, NEW p \in Hosts, OnlyAt(p), EndsKept(p),
         UNCHANGED <<terminal, peer, session, serverHost, destHost, clientIp>>,
         pc[p] # "gone", pc[p] = "exit" => pc'[p] = "gone", pc'[p] \in {"exit", "gone"}
  PROVE  Onward(p) /\ EndsKept(p) /\ Stages'
<1>1. Onward(p)
  BY DEF Onward
<1>2. StageAt(p)'
  BY StagesParts DEF StageAt, ClientStage, ServerStage, DestStage
<1>. QED
  BY <1>1, <1>2, StagesStep

LEMMA ReleaseOnward ==
  ASSUME IInv, Stages, NEW p \in Hosts, Release(p), pc[p] # "gone",
         UNCHANGED <<serverHost, destHost, packet, clientIp, response>>
  PROVE  Onward(p) /\ EndsKept(p) /\ Stages'
<1>1. pc'[p] = "gone" /\ \A q \in Hosts \ {p} : pc'[q] = pc[q]
  BY DEF Release, IInv, TypeInv, TypeOK, KernelTypeOK
<1>2. UNCHANGED <<terminal, session, peer>>
  BY DEF Release
<1>. QED
  BY <1>1, <1>2, ReleaseEnds, QuietOnward DEF OnlyAt

LEMMA FinishOnward ==
  ASSUME IInv, Stages, NEW p \in Hosts, NEW o, Finish(p, o), pc[p] \notin {"exit", "gone"},
         UNCHANGED <<terminal, peer, session, serverHost, destHost, packet, clientIp, response>>,
         EndsKept(p)
  PROVE  Onward(p) /\ EndsKept(p) /\ Stages'
<1>1. pc'[p] = "exit" /\ \A q \in Hosts \ {p} : pc'[q] = pc[q]
  BY PlaceFacts, KernelParts DEF IInv, TypeInv, TypeOK
<1>. QED
  BY <1>1, QuietOnward DEF OnlyAt

-----------------------------------------------------------------------------
(* Every step goes on *)

LEMMA ClientOnward ==
  ASSUME IInv, Stages, NEW c \in Clients, ClientNext(c)
  PROVE  Onward(c) /\ EndsKept(c) /\ Stages'
<1>1. /\ TypeInv /\ Wiring /\ PlaceAt(c) /\ ClientStage(c)
      /\ ProcTypeOK /\ NetTypeOK /\ ClientTypeOK
      /\ c \in Hosts /\ c \notin Servers /\ c \notin Dests
      /\ session[c] # Nobody => session[c] \in Hosts
  BY KernelParts, KernelAssumption, WiringParts DEF IInv, TypeInv, TypeOK, NetTypeOK, Stages
<1>2. UNCHANGED <<packet, clientIp, response>>
  BY DEF ClientNext, serverVars, destVars
<1>3. ASSUME Onward(c), EndsKept(c), ClientStage(c)' PROVE Onward(c) /\ EndsKept(c) /\ Stages'
  BY <1>1, <1>3, StagesStep DEF StageAt
<1>4. CASE ClientStart(c)
  <2>1. PICK n \in CommandLine[c] :
          \/ ~NamesAccepted(n) /\ Finish(c, "zero") /\ UNCHANGED clientVars
          \/ /\ NamesAccepted(n) /\ Goto(c, "connect")
             /\ serverHost' = [serverHost EXCEPT ![c] = n.server]
             /\ destHost' = [destHost EXCEPT ![c] = n.dest]
    BY <1>4 DEF ClientStart
  <2>2. At(c, "start") /\ UNCHANGED <<terminal, session, peer, upEnd, downEnd>> /\ peer[c] = Nobody
    BY <1>1, <1>4 DEF ClientStart, netVars, PlaceAt, At
  <2>3. EndsKept(c)
    BY <1>1, <2>2, CallEnds
  <2>4. CASE ~NamesAccepted(n)
    BY <1>1, <1>2, <2>1, <2>2, <2>3, <2>4, FinishOnward DEF At, clientVars
  <2>5. CASE NamesAccepted(n)
    <3>1. /\ Goto(c, "connect")
          /\ serverHost' = [serverHost EXCEPT ![c] = n.server]
          /\ destHost' = [destHost EXCEPT ![c] = n.dest]
      BY <2>1, <2>5
    <3>2. /\ n.server \in Hosts \ {HostOf[c]}
          /\ n.dest \in Hosts \ {HostOf[c], n.server}
      <4>1. n \in Names /\ n.own \in {HostOf[c], Nobody}
        BY <2>1, ClientAssumption
      <4>. QED
        BY <2>5, <4>1 DEF Names, NamesAccepted
    <3>3. pc'[c] = "connect" /\ \A q \in Hosts \ {c} : pc'[q] = pc[q]
      BY <1>1, <3>1, PlaceFacts
    <3>4. /\ serverHost'[c] = n.server /\ destHost'[c] = n.dest
          /\ \A q \in Clients \ {c} : serverHost'[q] = serverHost[q] /\ destHost'[q] = destHost[q]
      BY <1>1, <3>1 DEF ClientTypeOK
    <3>5. Onward(c)
      BY <1>1, <1>2, <2>2, <3>3, <3>4 DEF Onward, OnlyAt, At
    <3>6. ClientStage(c)'
      BY <1>1, <2>2, <3>2, <3>3, <3>4 DEF ClientStage, At
    <3>. QED
      BY <1>3, <2>3, <3>5, <3>6
  <2>. QED
    BY <2>4, <2>5
<1>5. CASE ClientConnect(c)
  <2>1. PICK h \in listening : HostOf[h] = serverHost[c] /\ Join(c, h)
    BY <1>5 DEF ClientConnect, Connect
  <2>2. /\ At(c, "connect") /\ Goto(c, "send") /\ UNCHANGED clientVars
        /\ Show(c, RequestPacket(c)) /\ UNCHANGED <<session, upEnd, downEnd>>
    BY <1>5, <2>1 DEF ClientConnect, Join
  <2>3. pc'[c] = "send" /\ \A q \in Hosts \ {c} : pc'[q] = pc[q]
    BY <1>1, <2>2, PlaceFacts
  <2>4. peer[c] = Nobody /\ terminal[c] = <<>>
    BY <1>1, <2>2 DEF PlaceAt, ClientStage, At
  <2>5. peer'[c] = h /\ \A q \in Hosts \ {c} : peer'[q] = peer[q]
    BY <1>1, <2>1 DEF Join, NetTypeOK
  <2>6. /\ Len(terminal'[c]) = 1 /\ \A q \in Hosts \ {c} : terminal'[q] = terminal[q]
    BY <1>1, <2>2, <2>4, ShowFacts
  <2>7. EndsKept(c)
    BY <1>1, <2>2, CallEnds
  <2>8. Onward(c)
    BY <1>1, <1>2, <2>2, <2>3, <2>4, <2>5, <2>6, KernelAssumption DEF Onward, OnlyAt, clientVars, At
  <2>9. ClientStage(c)'
    BY <1>1, <2>1, <2>2, <2>3, <2>5, <2>6 DEF ClientStage, clientVars, At
  <2>. QED
    BY <1>3, <2>7, <2>8, <2>9
<1>6. CASE ClientConnectFails(c)
  <2>1. /\ pc[c] = "connect" /\ Finish(c, "error")
        /\ UNCHANGED <<terminal, peer, session, serverHost, destHost, upEnd, downEnd>>
    BY <1>6 DEF ClientConnectFails, netVars, clientVars, At
  <2>. QED
    BY <1>1, <1>2, <2>1, FinishOnward, CallEnds
<1>7. ASSUME pc[c] = "send", Goto(c, "receive"), EndsKept(c),
             UNCHANGED <<terminal, peer, session, serverHost, destHost>>
      PROVE  Onward(c) /\ EndsKept(c) /\ Stages'
  <2>1. pc'[c] = "receive" /\ \A q \in Hosts \ {c} : pc'[q] = pc[q]
    BY <1>1, <1>7, PlaceFacts
  <2>2. Onward(c)
    BY <1>1, <1>2, <1>7, <2>1 DEF Onward, OnlyAt
  <2>3. ClientStage(c)'
    BY <1>1, <1>7, <2>1 DEF ClientStage
  <2>. QED
    BY <1>3, <1>7, <2>2, <2>3
<1>8. CASE ClientSend(c)
  <2>1. /\ pc[c] = "send" /\ Goto(c, "receive")
        /\ UNCHANGED <<terminal, peer, session, serverHost, destHost>>
        /\ UNCHANGED <<upEnd, downEnd>> \/ SendUpFails(c)
    BY <1>8 DEF ClientSend, SendUp, SendUpFails, listenVars, clientVars, At
  <2>2. EndsKept(c)
    BY <1>1, <2>1, CallEnds
  <2>. QED
    BY <1>7, <2>1, <2>2
<1>9. CASE ClientReceive(c)
  <2>1. PICK k \in 0..PacketLen :
          ReadDown(c, k, PacketLen) /\ Show(c, Decrypt(Received(down[c], k, PacketLen)))
    BY <1>9 DEF ClientReceive
  <2>2. /\ pc[c] = "receive" /\ Finish(c, "zero")
        /\ UNCHANGED <<peer, session, serverHost, destHost, upEnd, downEnd>>
    BY <1>9, <2>1 DEF ClientReceive, ReadDown, listenVars, clientVars, At
  <2>3. pc'[c] = "exit" /\ \A q \in Hosts \ {c} : pc'[q] = pc[q]
    BY <1>1, <2>2, PlaceFacts
  <2>4. \A q \in Hosts \ {c} : terminal'[q] = terminal[q]
    BY <1>1, <2>1, ShowFacts
  <2>5. Onward(c)
    BY <1>1, <1>2, <2>2, <2>3, <2>4 DEF Onward, OnlyAt
  <2>6. ClientStage(c)'
    BY <1>1, <2>2, <2>3 DEF ClientStage
  <2>. QED
    BY <1>1, <1>3, <2>2, <2>5, <2>6, CallEnds
<1>10. CASE ClientReceiveFails(c)
  <2>1. /\ pc[c] = "receive" /\ Finish(c, "crashed") /\ ReadDownFails(c)
        /\ UNCHANGED <<terminal, peer, session, serverHost, destHost>>
    BY <1>10 DEF ClientReceiveFails, ReadDownFails, listenVars, clientVars, At
  <2>. QED
    BY <1>1, <1>2, <2>1, FinishOnward, CallEnds
<1>11. CASE ClientExit(c)
  BY <1>1, <1>2, <1>11, ReleaseOnward DEF ClientExit, Exit, clientVars, At
<1>12. CASE ClientFault(c)
  <2>1. UNCHANGED <<terminal, peer, session, serverHost, destHost, upEnd, downEnd>>
    BY <1>12 DEF ClientFault, netVars, clientVars
  <2>2. EndsKept(c)
    BY <1>1, <2>1, CallEnds
  <2>3. CASE pc[c] \in {"connect", "receive"} /\ \E o \in {"error", "crashed"} : Finish(c, o)
    BY <1>1, <1>2, <2>1, <2>2, <2>3, FinishOnward
  <2>4. CASE pc[c] = "send" /\ Goto(c, "receive")
    BY <1>7, <2>1, <2>2, <2>4
  <2>. QED
    BY <1>12, <2>3, <2>4 DEF ClientFault, At
<1>13. CASE Kill(c) /\ UNCHANGED clientVars
  BY <1>1, <1>2, <1>13, ReleaseOnward DEF Kill, clientVars
<1>. QED
  BY <1>4, <1>5, <1>6, <1>8, <1>9, <1>10, <1>11, <1>12, <1>13 DEF ClientNext, ClientStep

LEMMA ServerOnward ==
  ASSUME IInv, Stages, NEW s \in Servers, ServerNext(s)
  PROVE  Onward(s) /\ EndsKept(s) /\ Stages'
<1>1. /\ TypeInv /\ Wiring /\ PlaceAt(s) /\ ServerStage(s) /\ ReadyAt(s)
      /\ ProcTypeOK /\ NetTypeOK /\ ServerTypeOK
      /\ s \in Hosts /\ s \notin Clients /\ s \notin Dests
      /\ session[s] # Nobody => session[s] \in Hosts
  BY KernelParts, KernelAssumption, WiringParts, ReadyParts
     DEF IInv, TypeInv, TypeOK, NetTypeOK, Stages
<1>2. UNCHANGED <<serverHost, destHost, response>>
  BY DEF ServerNext, clientVars, destVars
<1>3. ASSUME Onward(s), EndsKept(s), ServerStage(s)' PROVE Onward(s) /\ EndsKept(s) /\ Stages'
  BY <1>1, <1>3, StagesStep DEF StageAt
<1>4. CASE ServerStart(s)
  <2>1. /\ \/ Listen(s) /\ Goto(s, "accept")
           \/ Finish(s, "zero") /\ UNCHANGED listenVars
        /\ pc[s] = "start"
        /\ UNCHANGED <<packet, clientIp, terminal, peer, session, upEnd, downEnd>>
    BY <1>4 DEF ServerStart, Listen, serverVars, linkVars, listenVars, At
  <2>2. EndsKept(s)
    BY <1>1, <2>1, CallEnds
  <2>3. CASE Finish(s, "zero") /\ UNCHANGED listenVars
    BY <1>1, <1>2, <2>1, <2>2, <2>3, FinishOnward
  <2>4. CASE Listen(s) /\ Goto(s, "accept")
    <3>1. pc'[s] = "accept" /\ \A q \in Hosts \ {s} : pc'[q] = pc[q]
      BY <1>1, <2>4, PlaceFacts
    <3>2. Onward(s)
      BY <1>1, <1>2, <2>1, <3>1 DEF Onward, OnlyAt
    <3>3. ServerStage(s)'
      BY <1>1, <2>1, <3>1 DEF ServerStage
    <3>. QED
      BY <1>3, <2>2, <3>2, <3>3
  <2>. QED
    BY <2>1, <2>3, <2>4
<1>5. CASE ServerAccept(s)
  <2>1. /\ Accept(s) /\ Goto(s, "receive") /\ pc[s] = "accept"
        /\ UNCHANGED <<packet, clientIp, terminal, peer, upEnd, downEnd>>
    BY <1>5 DEF ServerAccept, serverVars, linkVars, At
  <2>2. pc'[s] = "receive" /\ \A q \in Hosts \ {s} : pc'[q] = pc[q]
    BY <1>1, <2>1, PlaceFacts
  <2>3. \A q \in Hosts \ {s} : session'[q] = session[q]
    BY <1>1, <2>1 DEF Accept, NetTypeOK
  <2>4. Onward(s)
    BY <1>1, <1>2, <2>1, <2>2, <2>3 DEF Onward, OnlyAt, ServerStage
  <2>5. ServerStage(s)'
    BY <1>1, <2>1, <2>2 DEF ServerStage
  <2>. QED
    BY <1>1, <1>3, <2>1, <2>4, <2>5, CallEnds
<1>6. CASE ServerReceive(s)
  <2>. DEFINE Got(k) == Decrypt(Received(up[session[s]], k, PacketLen))
  <2>1. PICK k \in 0..PacketLen :
          /\ ReadUp(s, k, PacketLen) /\ Show(s, Got(k))
          /\ clientIp' = [clientIp EXCEPT ![s] = SaveClientIp(Got(k))]
          /\ packet' = [packet EXCEPT ![s] = ServHandlePkt(Got(k), HostOf[s])]
    BY <1>6 DEF ServerReceive
  <2>. HIDE DEF Got
  <2>2. /\ pc[s] = "receive" /\ Goto(s, "dial")
        /\ UNCHANGED <<peer, session, upEnd, downEnd>>
    BY <1>6, <2>1 DEF ServerReceive, ReadUp, listenVars, At
  <2>3. pc'[s] = "dial" /\ \A q \in Hosts \ {s} : pc'[q] = pc[q]
    BY <1>1, <2>2, PlaceFacts
  <2>4. terminal[s] = <<>> /\ Len(terminal[s]) # 2 /\ peer[s] = Nobody
    BY <1>1, <2>2, SMTT(30) DEF ServerStage, PlaceAt
  <2>5. /\ Len(terminal'[s]) = 1 /\ terminal'[s] # <<>>
        /\ \A q \in Hosts \ {s} : terminal'[q] = terminal[q]
    BY <1>1, <2>1, <2>4, ShowFacts
  <2>6. \A q \in Servers \ {s} : packet'[q] = packet[q] /\ clientIp'[q] = clientIp[q]
    BY <1>1, <2>1 DEF ServerTypeOK
  <2>7. Onward(s)
    BY <1>1, <1>2, <2>2, <2>3, <2>4, <2>5, <2>6 DEF Onward, OnlyAt
  <2>8. ServerStage(s)'
    BY <1>1, <2>2, <2>3, <2>5 DEF ServerStage
  <2>. QED
    BY <1>1, <1>3, <2>2, <2>7, <2>8, CallEnds
<1>7. CASE ServerReceiveFails(s)
  <2>1. /\ pc[s] = "receive" /\ Finish(s, "error") /\ ReadUpFails(s)
        /\ UNCHANGED <<terminal, peer, session, packet, clientIp>>
    BY <1>7 DEF ServerReceiveFails, ReadUpFails, listenVars, serverVars, At
  <2>. QED
    BY <1>1, <1>2, <2>1, FinishOnward, CallEnds
<1>8. CASE ServerDial(s)
  <2>1. PICK h \in listening : HostOf[h] = DestOf(s) /\ Join(s, h)
    BY <1>8 DEF ServerDial, Connect
  <2>2. /\ pc[s] = "dial" /\ Goto(s, "forward")
        /\ UNCHANGED <<packet, clientIp, terminal, session, upEnd, downEnd>>
    BY <1>8, <2>1 DEF ServerDial, Join, serverVars, At
  <2>3. pc'[s] = "forward" /\ \A q \in Hosts \ {s} : pc'[q] = pc[q]
    BY <1>1, <2>2, PlaceFacts
  <2>4. peer[s] = Nobody /\ \A q \in Hosts \ {s} : peer'[q] = peer[q]
    BY <1>1, <2>1, <2>2 DEF PlaceAt, Join, NetTypeOK
  <2>5. Onward(s)
    BY <1>1, <1>2, <2>2, <2>3, <2>4 DEF Onward, OnlyAt
  <2>6. ServerStage(s)'
    <3>1. Len(terminal[s]) = 1 /\ terminal[s] # <<>>
      BY <1>1, <2>2, ScreenFacts DEF ServerStage
    <3>2. peer'[s] = h /\ h \in Servers \cup Dests
      BY <1>1, <2>1 DEF Join, NetTypeOK, Wiring
    <3>. QED
      BY <1>1, <2>2, <2>3, <3>1, <3>2 DEF ServerStage
  <2>. QED
    BY <1>1, <1>3, <2>2, <2>5, <2>6, CallEnds
<1>9. CASE ServerDialFails(s)
  <2>1. /\ pc[s] = "dial" /\ Finish(s, "error")
        /\ UNCHANGED <<terminal, peer, session, packet, clientIp, upEnd, downEnd>>
    BY <1>9 DEF ServerDialFails, netVars, serverVars, At
  <2>. QED
    BY <1>1, <1>2, <2>1, FinishOnward, CallEnds
<1>10. CASE ServerForward(s)
  <2>1. /\ pc[s] = "forward" /\ UNCHANGED <<packet, clientIp, terminal, peer, session>>
        /\ \/ UNCHANGED <<upEnd, downEnd>> /\ Goto(s, "receiveReply")
           \/ SendUpFails(s) /\ Finish(s, "error")
    BY <1>10 DEF ServerForward, SendUp, SendUpFails, listenVars, serverVars, At
  <2>2. CASE SendUpFails(s) /\ Finish(s, "error")
    BY <1>1, <1>2, <2>1, <2>2, FinishOnward, CallEnds
  <2>3. CASE UNCHANGED <<upEnd, downEnd>> /\ Goto(s, "receiveReply")
    <3>1. pc'[s] = "receiveReply" /\ \A q \in Hosts \ {s} : pc'[q] = pc[q]
      BY <1>1, <2>3, PlaceFacts
    <3>2. Onward(s)
      BY <1>1, <1>2, <2>1, <3>1 DEF Onward, OnlyAt
    <3>3. ServerStage(s)'
      BY <1>1, <2>1, <3>1 DEF ServerStage
    <3>. QED
      BY <1>1, <1>3, <2>3, <3>2, <3>3, CallEnds
  <2>. QED
    BY <2>1, <2>2, <2>3
<1>11. CASE ServerReceiveReply(s)
  <2>. DEFINE Answer(k) == ServHandlePktDest(Encapsulate(Received(down[s], k, PacketLen - 1)),
                                             clientIp[s])
  <2>1. PICK k \in 0..PacketLen :
          /\ ReadDown(s, k, PacketLen) /\ Show(s, Answer(k))
          /\ packet' = [packet EXCEPT ![s] = Answer(k)]
    BY <1>11 DEF ServerReceiveReply
  <2>. HIDE DEF Answer
  <2>2. /\ pc[s] = "receiveReply" /\ Goto(s, "reply")
        /\ UNCHANGED <<clientIp, peer, session, upEnd, downEnd>>
    BY <1>11, <2>1 DEF ServerReceiveReply, ReadDown, listenVars, At
  <2>3. pc'[s] = "reply" /\ \A q \in Hosts \ {s} : pc'[q] = pc[q]
    BY <1>1, <2>2, PlaceFacts
  <2>4. Len(terminal[s]) = 1
    BY <1>1, <2>2 DEF ServerStage
  <2>5. /\ Len(terminal'[s]) = 2 /\ terminal'[s] # <<>> /\ terminal'[s][1] = terminal[s][1]
        /\ \A q \in Hosts \ {s} : terminal'[q] = terminal[q]
    BY <1>1, <2>1, <2>4, ShowFacts, ScreenFacts
  <2>6. \A q \in Servers \ {s} : packet'[q] = packet[q]
    BY <1>1, <2>1 DEF ServerTypeOK
  <2>7. Onward(s)
    BY <1>1, <1>2, <2>2, <2>3, <2>4, <2>5, <2>6 DEF Onward, OnlyAt
  <2>8. ServerStage(s)'
    BY <1>1, <2>2, <2>3, <2>5 DEF ServerStage
  <2>. QED
    BY <1>1, <1>3, <2>2, <2>7, <2>8, CallEnds
<1>12. CASE ServerReceiveReplyFails(s)
  <2>1. /\ pc[s] = "receiveReply" /\ Finish(s, "crashed") /\ ReadDownFails(s)
        /\ UNCHANGED <<terminal, peer, session, packet, clientIp>>
    BY <1>12 DEF ServerReceiveReplyFails, ReadDownFails, listenVars, serverVars, At
  <2>. QED
    BY <1>1, <1>2, <2>1, FinishOnward, CallEnds
<1>13. CASE ServerReply(s)
  <2>1. /\ pc[s] = "reply" /\ Finish(s, "zero")
        /\ UNCHANGED <<terminal, peer, session, packet, clientIp>>
        /\ UNCHANGED <<upEnd, downEnd>> \/ SendDownFails(s)
    BY <1>13 DEF ServerReply, SendDown, SendDownFails, listenVars, serverVars, At
  <2>. QED
    BY <1>1, <1>2, <2>1, FinishOnward, CallEnds
<1>14. CASE ServerExit(s)
  BY <1>1, <1>2, <1>14, ReleaseOnward DEF ServerExit, Exit, serverVars, At
<1>15. CASE ServerFault(s)
  <2>1. /\ UNCHANGED <<terminal, peer, session, packet, clientIp, upEnd, downEnd>>
        /\ pc[s] \notin {"exit", "gone"}
        /\ \E o \in {"error", "crashed", "zero"} : Finish(s, o)
    BY <1>15 DEF ServerFault, netVars, serverVars, At
  <2>. QED
    BY <1>1, <1>2, <2>1, FinishOnward, CallEnds
<1>16. CASE Kill(s) /\ UNCHANGED serverVars
  BY <1>1, <1>2, <1>16, ReleaseOnward DEF Kill, serverVars
<1>. QED
  BY <1>4, <1>5, <1>6, <1>7, <1>8, <1>9, <1>10, <1>11, <1>12, <1>13, <1>14, <1>15, <1>16
     DEF ServerNext, ServerStep

LEMMA DestOnward ==
  ASSUME IInv, Stages, NEW d \in Dests, DestNext(d)
  PROVE  Onward(d) /\ EndsKept(d) /\ Stages'
<1>1. /\ TypeInv /\ Wiring /\ DestStage(d) /\ ReadyAt(d)
      /\ ProcTypeOK /\ NetTypeOK /\ DestTypeOK
      /\ d \in Hosts /\ d \notin Clients /\ d \notin Servers
      /\ session[d] # Nobody => session[d] \in Hosts
  BY KernelParts, KernelAssumption, ReadyParts DEF IInv, TypeInv, TypeOK, NetTypeOK, Stages
<1>2. UNCHANGED <<serverHost, destHost, packet, clientIp>>
  BY DEF DestNext, clientVars, serverVars
<1>3. ASSUME Onward(d), EndsKept(d), DestStage(d)' PROVE Onward(d) /\ EndsKept(d) /\ Stages'
  BY <1>1, <1>3, StagesStep DEF StageAt
<1>4. CASE DestStart(d)
  <2>1. /\ \/ Listen(d) /\ Goto(d, "accept")
           \/ Finish(d, "zero") /\ UNCHANGED listenVars
        /\ pc[d] = "start" /\ UNCHANGED <<response, terminal, peer, session, upEnd, downEnd>>
    BY <1>4 DEF DestStart, Listen, destVars, linkVars, listenVars, At
  <2>2. EndsKept(d)
    BY <1>1, <2>1, CallEnds
  <2>3. CASE Finish(d, "zero") /\ UNCHANGED listenVars
    BY <1>1, <1>2, <2>1, <2>2, <2>3, FinishOnward
  <2>4. CASE Listen(d) /\ Goto(d, "accept")
    <3>1. pc'[d] = "accept" /\ \A q \in Hosts \ {d} : pc'[q] = pc[q]
      BY <1>1, <2>4, PlaceFacts
    <3>2. Onward(d)
      BY <1>1, <1>2, <2>1, <3>1 DEF Onward, OnlyAt
    <3>3. DestStage(d)'
      BY <1>1, <2>1, <3>1 DEF DestStage
    <3>. QED
      BY <1>3, <2>2, <3>2, <3>3
  <2>. QED
    BY <2>1, <2>3, <2>4
<1>5. CASE DestAccept(d)
  <2>1. /\ Accept(d) /\ Goto(d, "receive") /\ pc[d] = "accept"
        /\ UNCHANGED <<response, terminal, peer, upEnd, downEnd>>
    BY <1>5 DEF DestAccept, destVars, linkVars, At
  <2>2. pc'[d] = "receive" /\ \A q \in Hosts \ {d} : pc'[q] = pc[q]
    BY <1>1, <2>1, PlaceFacts
  <2>3. \A q \in Hosts \ {d} : session'[q] = session[q]
    BY <1>1, <2>1 DEF Accept, NetTypeOK
  <2>4. Onward(d)
    BY <1>1, <1>2, <2>1, <2>2, <2>3 DEF Onward, OnlyAt, DestStage
  <2>5. DestStage(d)'
    BY <1>1, <2>1, <2>2 DEF DestStage
  <2>. QED
    BY <1>1, <1>3, <2>1, <2>4, <2>5, CallEnds
<1>6. CASE DestReceive(d)
  <2>1. PICK k \in 0..PacketLen :
          /\ ReadUp(d, k, PacketLen - 1)
          /\ response' = [response EXCEPT ![d] = DestAnswer(d, k)]
          /\ terminal' = [terminal EXCEPT ![d] = @ \o <<DestRequest(d, k), DestAnswer(d, k)>>]
    BY <1>6 DEF DestReceive, DestAnswer, DestRequest
  <2>2. /\ pc[d] = "receive" /\ Goto(d, "reply")
        /\ UNCHANGED <<peer, session, upEnd, downEnd>>
    BY <1>6, <2>1 DEF DestReceive, ReadUp, listenVars, At
  <2>3. pc'[d] = "reply" /\ \A q \in Hosts \ {d} : pc'[q] = pc[q]
    BY <1>1, <2>2, PlaceFacts
  <2>4. terminal[d] = <<>> /\ Len(terminal[d]) # 2
    BY <1>1, <2>2 DEF DestStage
  <2>5. terminal'[d] = <<DestRequest(d, k), DestAnswer(d, k)>>
    BY <1>1, <2>1, <2>4, EmptyFirst DEF ProcTypeOK
  <2>6. Len(terminal'[d]) = 2
    BY <2>5
  <2>7. /\ \A q \in Hosts \ {d} : terminal'[q] = terminal[q]
        /\ \A q \in Dests \ {d} : response'[q] = response[q]
    BY <1>1, <2>1 DEF ProcTypeOK, DestTypeOK
  <2>8. Onward(d)
    BY <1>1, <1>2, <2>2, <2>3, <2>4, <2>7 DEF Onward, OnlyAt
  <2>9. DestStage(d)'
    BY <1>1, <2>3, <2>6 DEF DestStage
  <2>. QED
    BY <1>1, <1>3, <2>2, <2>8, <2>9, CallEnds
<1>7. CASE DestReceiveFails(d)
  <2>1. /\ pc[d] = "receive" /\ Finish(d, "error") /\ ReadUpFails(d)
        /\ UNCHANGED <<terminal, peer, session, response>>
    BY <1>7 DEF DestReceiveFails, ReadUpFails, listenVars, destVars, At
  <2>. QED
    BY <1>1, <1>2, <2>1, FinishOnward, CallEnds
<1>8. CASE DestReply(d)
  <2>1. /\ pc[d] = "reply" /\ \E o \in {"zero", "error"} : Finish(d, o)
        /\ UNCHANGED <<terminal, peer, session, response>>
        /\ UNCHANGED <<upEnd, downEnd>> \/ SendDownFails(d)
    BY <1>8 DEF DestReply, SendDown, SendDownFails, listenVars, destVars, At
  <2>. QED
    BY <1>1, <1>2, <2>1, FinishOnward, CallEnds
<1>9. CASE DestExit(d)
  BY <1>1, <1>2, <1>9, ReleaseOnward DEF DestExit, Exit, destVars, At
<1>10. CASE DestFault(d)
  <2>1. /\ UNCHANGED <<terminal, peer, session, response, upEnd, downEnd>>
        /\ pc[d] \notin {"exit", "gone"} /\ Finish(d, "error")
    BY <1>10 DEF DestFault, netVars, destVars
  <2>. QED
    BY <1>1, <1>2, <2>1, FinishOnward, CallEnds
<1>11. CASE Kill(d) /\ UNCHANGED destVars
  BY <1>1, <1>2, <1>11, ReleaseOnward DEF Kill, destVars
<1>. QED
  BY <1>4, <1>5, <1>6, <1>7, <1>8, <1>9, <1>10, <1>11 DEF DestNext, DestStep

LEMMA InitStages == Init => Stages
BY KernelAssumption
   DEF Init, KernelInit, Stages, ClientStage, ServerStage, DestStage, EndStage

LEMMA StutterStages ==
  ASSUME Stages, UNCHANGED vars
  PROVE  Stages'
<1>1. UNCHANGED <<pc, terminal, session, peer, upEnd, downEnd, serverHost, destHost>>
  BY DEF vars, kernelVars, clientVars
<1>. QED
  BY <1>1 DEF Stages, ClientStage, ServerStage, DestStage, EndStage

LEMMA StagesInvariant == Spec => []Stages
<1>1. Init => Stages
  BY InitStages
<1>2. IInv /\ Stages /\ [Next]_vars => Stages'
  BY ClientOnward, ServerOnward, DestOnward, StutterStages DEF Next
<1>. QED
  BY <1>1, <1>2, InductiveInvariant, PTL DEF Spec

-----------------------------------------------------------------------------
(* The stories of the processes that do not take the step *)

\* Story, for one process.
StoryAt(p) ==
  /\ p \in Clients => ClientStory(p)
  /\ p \in Servers => ServerStory(p) /\ DialStory(p)
  /\ p \in Dests => DestStory(p)

\* What q has in flight is as it was, or what is left after the other end has read.
Within(q) ==
  /\ ToSet(up'[q]) \subseteq ToSet(up[q])
  /\ up[q] = <<>> => up'[q] = <<>>
  /\ up'[q] = up[q] \/ Taken(q)'

LEMMA StoryParts ==
  /\ Story <=> \A p \in Hosts : StoryAt(p)
  /\ Story' <=> \A p \in Hosts : StoryAt(p)'
BY KernelAssumption DEF Story, StoryAt

\* What has been taken, answered and replied is so for good.
LEMMA HistoryKept ==
  ASSUME IInv, Stages, NEW p \in Hosts, Onward(p), NEW q \in Hosts, peer[q] \in Hosts,
         peer'[q] = peer[q]
  PROVE  /\ Taken(q) /\ peer[q] \in Servers \cup Dests => Taken(q)'
         /\ q \in Clients /\ peer[q] \in Servers /\ RepliedTo(q, peer[q]) =>
              RepliedTo(q, peer[q])' /\ terminal'[peer[q]] = terminal[peer[q]]
         /\ AnsweredBy(q, peer[q]) =>
              AnsweredBy(q, peer[q])' /\ terminal'[peer[q]] = terminal[peer[q]]
         /\ pc[peer[q]] \in {"exit", "gone"} => pc'[peer[q]] \in {"exit", "gone"}
<1>1. CASE peer[q] # p
  BY <1>1 DEF Onward, OnlyAt, Taken, RepliedTo, AnsweredBy
<1>2. CASE peer[q] = p
  <2>1. /\ q # Nobody
        /\ p \in Servers \cup Dests /\ session[p] = q => pc[p] # "accept"
    BY KernelAssumption DEF Stages, ServerStage, DestStage
  <2>2. session[p] = q => session'[p] = q
    BY <2>1 DEF Onward
  <2>3. p \in Servers \cup Dests /\ Len(terminal[p]) = 2 => terminal'[p] = terminal[p]
    BY DEF Onward
  <2>4. pc[p] \in {"exit", "gone"} => pc'[p] \in {"exit", "gone"}
    BY DEF Onward
  <2>5. p \in Servers \cup Dests /\ Taken(q) => Taken(q)'
    BY <1>2, <2>1, <2>2 DEF Onward, Taken
  <2>. QED
    BY <1>2, <2>2, <2>3, <2>4, <2>5 DEF RepliedTo, AnsweredBy
<1>. QED
  BY <1>1, <1>2

LEMMA ClientStoryKept ==
  ASSUME IInv, Stages, Story, NEW p \in Hosts, Onward(p), NEW c \in Clients, c # p,
         Within(c), down'[c] = down[c]
  PROVE  ClientStory(c)'
<1>1. /\ c \in Hosts /\ ClientStory(c)
      /\ pc'[c] = pc[c] /\ terminal'[c] = terminal[c] /\ peer'[c] = peer[c]
      /\ destHost'[c] = destHost[c]
  BY KernelAssumption DEF Story, Onward, OnlyAt
<1>2. SUFFICES ASSUME peer[c] \in Servers PROVE ClientStory(c)'
  BY <1>1 DEF ClientStory
<1>3. peer[c] \in Hosts
  BY <1>2, KernelAssumption
<1>4. Question(c)' = Question(c)
  BY <1>1 DEF Question, RequestPacket
<1>5. /\ Taken(c) => Taken(c)'
      /\ RepliedTo(c, peer[c]) => RepliedTo(c, peer[c])' /\ terminal'[peer[c]] = terminal[peer[c]]
      /\ pc[peer[c]] \in {"exit", "gone"} => pc'[peer[c]] \in {"exit", "gone"}
  BY <1>1, <1>2, <1>3, HistoryKept
<1>6. /\ pc'[c] = "send" => up'[c] = <<>>
      /\ ~Taken(c)' => up'[c] \in {<<>>, Question(c)'}
  BY <1>1, <1>2, <1>4, <1>5 DEF ClientStory, Within
<1>7. pc'[c] \in {"send", "receive"} =>
        \/ down'[c] = <<>>
        \/ /\ RepliedTo(c, peer[c])' /\ pc'[peer[c]] \in {"exit", "gone"}
           /\ down'[c] = ServCliEncrypt(terminal'[peer[c]][2])
  BY <1>1, <1>2, <1>5 DEF ClientStory
<1>8. Told(c) =>
        \/ terminal'[c][2] = Decrypt(EmptyBuffer(PacketLen))
        \/ /\ RepliedTo(c, peer[c])'
           /\ \E raw \in Arrivals(ServCliEncrypt(terminal'[peer[c]][2]), PacketLen) :
                terminal'[c][2] = Decrypt(raw)
  BY <1>1, <1>2, <1>5 DEF ClientStory, ReplyShown
<1>. QED
  BY <1>1, <1>6, <1>7, <1>8 DEF ClientStory, Told, ReplyShown

LEMMA ServerStoryKept ==
  ASSUME IInv, Stages, Story, NEW p \in Hosts, Onward(p), NEW s \in Servers, s # p
  PROVE  ServerStory(s)'
<1>1. /\ s \in Hosts /\ ServerStory(s)
      /\ pc'[s] = pc[s] /\ terminal'[s] = terminal[s] /\ peer'[s] = peer[s]
      /\ session'[s] = session[s] /\ packet'[s] = packet[s] /\ clientIp'[s] = clientIp[s]
  BY KernelAssumption DEF Story, Onward, OnlyAt
<1>2. SUFFICES ASSUME session[s] \in Clients PROVE ServerStory(s)'
  BY <1>1 DEF ServerStory
<1>3. peer[session[s]] = s /\ session[s] \in Hosts
  BY <1>1, <1>2, KernelAssumption DEF IInv, Wiring
<1>4. Question(session[s])' = Question(session[s])
  <2>1. destHost'[session[s]] = destHost[session[s]]
    BY <1>1, <1>2, <1>3, KernelAssumption DEF Onward, OnlyAt
  <2>. QED
    BY <1>1, <2>1 DEF Question, RequestPacket
<1>5. Forwarded(s)' = Forwarded(s) /\ \A bare : Readdressed(s, bare)' = Readdressed(s, bare)
  BY <1>1 DEF Forwarded, Readdressed
<1>6. AnsweredBy(s, peer[s]) => AnsweredBy(s, peer[s])' /\ terminal'[peer[s]] = terminal[peer[s]]
  <2>1. AnsweredBy(s, peer[s]) => peer[s] \in Hosts
    BY KernelAssumption DEF AnsweredBy
  <2>. QED
    BY <1>1, <2>1, HistoryKept
<1>. QED
  BY <1>1, <1>2, <1>4, <1>5, <1>6 DEF ServerStory

LEMMA DialStoryKept ==
  ASSUME IInv, Stages, Story, NEW p \in Hosts, Onward(p), NEW s \in Servers, s # p,
         Within(s), down'[s] = down[s]
  PROVE  DialStory(s)'
<1>1. /\ s \in Hosts /\ DialStory(s)
      /\ pc'[s] = pc[s] /\ terminal'[s] = terminal[s] /\ peer'[s] = peer[s]
  BY KernelAssumption DEF Story, Onward, OnlyAt
<1>2. SUFFICES ASSUME peer[s] # Nobody PROVE DialStory(s)'
  BY <1>1 DEF DialStory
<1>3. peer[s] \in Servers \cup Dests /\ peer[s] \in Hosts
  BY <1>2, KernelAssumption DEF Stages, ServerStage
<1>4. Forwarded(s)' = Forwarded(s)
  BY <1>1 DEF Forwarded
<1>5. /\ Taken(s) => Taken(s)'
      /\ AnsweredBy(s, peer[s]) => AnsweredBy(s, peer[s])' /\ terminal'[peer[s]] = terminal[peer[s]]
      /\ pc[peer[s]] \in {"exit", "gone"} => pc'[peer[s]] \in {"exit", "gone"}
  BY <1>1, <1>3, HistoryKept
<1>6. /\ pc'[s] = "forward" => up'[s] = <<>>
      /\ ~Taken(s)' => up'[s] \in {<<>>, Forwarded(s)}
      /\ ToSet(up'[s]) \subseteq ToSet(Forwarded(s))
  BY <1>1, <1>2, <1>5 DEF DialStory, Within
<1>7. pc'[s] \in {"forward", "receiveReply"} =>
        \/ down'[s] = <<>>
        \/ /\ AnsweredBy(s, peer[s])' /\ pc'[peer[s]] \in {"exit", "gone"}
           /\ down'[s] = ReplyBytes(terminal'[peer[s]][2], Reply)
  BY <1>1, <1>2, <1>5 DEF DialStory
<1>8. terminal'[s][1][DstAt] = Clear(HostOf[peer[s]])
  BY <1>1, <1>2 DEF DialStory
<1>. QED
  BY <1>1, <1>4, <1>6, <1>7, <1>8 DEF DialStory, AnsweredBy

LEMMA DestStoryKept ==
  ASSUME IInv, Stages, Story, NEW p \in Hosts, Onward(p), EndsKept(p), NEW d \in Dests, d # p
  PROVE  DestStory(d)'
<1>1. /\ d \in Hosts /\ DestStory(d)
      /\ pc'[d] = pc[d] /\ terminal'[d] = terminal[d] /\ session'[d] = session[d]
      /\ response'[d] = response[d]
  BY KernelAssumption DEF Story, Onward, OnlyAt
<1>2. SUFFICES ASSUME session[d] \in Servers, terminal[d] # <<>> PROVE DestStory(d)'
  BY <1>1 DEF DestStory
<1>3. session[d] \in Hosts /\ terminal'[session[d]][1] = terminal[session[d]][1]
  <2>1. session[d] \in Hosts /\ peer[session[d]] = d /\ d # Nobody
    BY <1>1, <1>2, KernelAssumption DEF IInv, Wiring
  <2>2. terminal[session[d]] # <<>>
    BY <1>2, <2>1 DEF Stages, ServerStage
  <2>. QED
    BY <1>2, <2>1, <2>2 DEF Onward
<1>4. Forwarded(session[d])' = Forwarded(session[d]) /\ Response(d)' = Response(d)
  BY <1>1, <1>3 DEF Forwarded, Response
<1>5. upEnd[session[d]] # "open" => upEnd'[session[d]] # "open"
  BY <1>3 DEF EndsKept
<1>. QED
  BY <1>1, <1>2, <1>4, <1>5 DEF DestStory

\* A step of p needs a look at p's own story and at that of whom it answers.
LEMMA StoryStep ==
  ASSUME IInv, Stages, Story, NEW p \in Hosts, Onward(p), EndsKept(p),
         \A q \in Hosts \ {p} :
           /\ Within(q)
           /\ \/ down'[q] = down[q]
              \/ (q \in Clients => ClientStory(q)') /\ (q \in Servers => DialStory(q)'),
         StoryAt(p)'
  PROVE  Story'
<1>1. ASSUME NEW q \in Hosts \ {p} PROVE StoryAt(q)'
  <2>1. q \in Clients => ClientStory(q)'
    BY ClientStoryKept
  <2>2. q \in Servers => ServerStory(q)' /\ DialStory(q)'
    BY ServerStoryKept, DialStoryKept
  <2>3. q \in Dests => DestStory(q)'
    BY DestStoryKept
  <2>. QED
    BY <2>1, <2>2, <2>3 DEF StoryAt
<1>. QED
  BY <1>1, StoryParts

\* A process that is over keeps its story.
LEMMA QuietStoryAt ==
  ASSUME IInv, Stages, Story, NEW p \in Hosts, Onward(p), EndsKept(p),
         UNCHANGED <<terminal, peer, session, destHost>>, up'[p] = up[p],
         pc'[p] \in {"exit", "gone"}
  PROVE  StoryAt(p)'
<1>2. ASSUME p \in Clients PROVE ClientStory(p)'
  <2>1. SUFFICES ASSUME peer[p] \in Servers PROVE ClientStory(p)'
    BY DEF ClientStory
  <2>2. peer[p] \in Hosts /\ peer[p] # Nobody /\ ClientStory(p)
    BY <1>2, <2>1, KernelAssumption DEF Story
  <2>3. Question(p)' = Question(p)
    BY <1>2, <2>2 DEF Question, RequestPacket
  <2>4. /\ Taken(p) => Taken(p)'
        /\ RepliedTo(p, peer[p])' <=> RepliedTo(p, peer[p])
    BY <1>2, <2>1, <2>2, HistoryKept DEF RepliedTo
  <2>5. ~Taken(p)' => up'[p] \in {<<>>, Question(p)'}
    BY <2>1, <2>2, <2>3, <2>4 DEF ClientStory
  <2>6. Told(p) =>
          \/ terminal'[p][2] = Decrypt(EmptyBuffer(PacketLen))
          \/ /\ RepliedTo(p, peer[p])'
             /\ \E raw \in Arrivals(ServCliEncrypt(terminal'[peer[p]][2]), PacketLen) :
                  terminal'[p][2] = Decrypt(raw)
    BY <2>1, <2>2, <2>4 DEF ClientStory, ReplyShown
  <2>. QED
    BY <2>5, <2>6 DEF ClientStory, Told, ReplyShown
<1>3. ASSUME p \in Servers PROVE ServerStory(p)'
  <2>1. SUFFICES ASSUME session[p] \in Clients PROVE ServerStory(p)'
    BY DEF ServerStory
  <2>2. session[p] \in Hosts \ {p} /\ peer[session[p]] = p /\ ServerStory(p)
    BY <1>3, <2>1, KernelAssumption DEF IInv, Wiring, Story
  <2>3. Question(session[p])' = Question(session[p])
    BY <2>1, <2>2 DEF Onward, OnlyAt, Question, RequestPacket
  <2>4. /\ \A bare : Readdressed(p, bare)' = Readdressed(p, bare)
        /\ AnsweredBy(p, peer[p])' <=> AnsweredBy(p, peer[p])
    BY DEF Readdressed, AnsweredBy
  <2>. QED
    BY <2>1, <2>2, <2>3, <2>4 DEF ServerStory
<1>4. ASSUME p \in Servers PROVE DialStory(p)'
  <2>1. SUFFICES ASSUME peer[p] # Nobody PROVE DialStory(p)'
    BY DEF DialStory
  <2>2. peer[p] \in Hosts /\ peer[p] \in Servers \cup Dests /\ DialStory(p)
    BY <1>4, <2>1, KernelAssumption DEF Stages, ServerStage, Story
  <2>3. Taken(p) => Taken(p)'
    BY <2>2, HistoryKept
  <2>4. Forwarded(p)' = Forwarded(p)
    BY DEF Forwarded
  <2>. QED
    BY <2>1, <2>2, <2>3, <2>4 DEF DialStory
<1>5. ASSUME p \in Dests PROVE DestStory(p)'
  <2>1. DestStory(p)
    BY <1>5 DEF Story
  <2>2. \A s \in Servers : Forwarded(s)' = Forwarded(s)
    BY DEF Forwarded
  <2>3. Response(p)' = Response(p)
    BY DEF Response
  <2>4. \A s \in Servers : upEnd[s] # "open" => upEnd'[s] # "open"
    BY KernelAssumption DEF EndsKept
  <2>. QED
    BY <2>1, <2>2, <2>3, <2>4 DEF DestStory
<1>. QED
  BY <1>2, <1>3, <1>4, <1>5 DEF StoryAt

LEMMA QuietStory ==
  ASSUME IInv, Stages, Story, NEW p \in Hosts, Onward(p), EndsKept(p),
         UNCHANGED <<terminal, peer, session, up, down, destHost>>,
         pc'[p] \in {"exit", "gone"}
  PROVE  Story'
<1>1. \A q \in Hosts \ {p} : Within(q) /\ down'[q] = down[q]
  BY DEF Within
<1>. QED
  BY <1>1, QuietStoryAt, StoryStep

-----------------------------------------------------------------------------
(* What one recv takes *)

LEMMA TakenFacts ==
  ASSUME NEW stream \in Seq(Cell), NEW end, NEW n \in Nat \ {0},
         NEW k \in ReadCounts(stream, end, n)
  PROVE  /\ ToSet(DropFirst(stream, k)) \subseteq ToSet(stream)
         /\ stream = <<>> => k = 0 /\ end = "fin" /\ DropFirst(stream, k) = <<>>
         /\ stream # <<>> => k \in 1..Len(stream)
<1>1. k \in 0..Len(stream) /\ Len(stream) \in Nat
  BY ReadCountsFacts
<1>2. stream = <<>> => k = 0 /\ end = "fin"
  BY DEF ReadCounts
<1>3. stream # <<>> => k # 0
  <2>. SUFFICES ASSUME stream # <<>> PROVE k # 0
    OBVIOUS
  <2>1. AtMost(Len(stream), n) # 0
    BY <1>1 DEF AtMost
  <2>. QED
    BY <2>1 DEF ReadCounts
<1>4. ASSUME stream = <<>> PROVE DropFirst(stream, k) = <<>>
  <2>1. SubSeq(<<>>, 1, 0) = <<>>
    OBVIOUS
  <2>. QED
    BY <1>2, <1>4, <2>1 DEF DropFirst
<1>5. ToSet(DropFirst(stream, k)) \subseteq ToSet(stream)
  <2>. DEFINE rest == DropFirst(stream, k)
  <2>1. /\ Len(rest) = Len(stream) - k /\ rest \in Seq(Cell)
        /\ \A i \in 1..Len(rest) : rest[i] = stream[i + k]
    BY <1>1, SubSeqProperties DEF DropFirst
  <2>. HIDE DEF rest
  <2>2. \A i \in 1..Len(rest) : i + k \in 1..Len(stream)
    BY <1>1, <2>1
  <2>. QED
    BY <2>1, <2>2 DEF ToSet, rest
<1>. QED
  BY <1>1, <1>2, <1>3, <1>4, <1>5

LEMMA ArrivalFacts ==
  ASSUME NEW stream \in Seq(Cell), NEW end, NEW n \in Nat \ {0}, NEW m,
         NEW k \in ReadCounts(stream, end, m), m \in Nat
  PROVE  /\ stream = <<>> => Received(stream, k, n) = EmptyBuffer(n)
         /\ \A bytes \in Seq(Cell) :
              stream \in {<<>>, bytes} => Received(stream, k, n) \in Arrivals(bytes, n)
<1>1. k \in 0..Len(stream)
  BY ReadCountsFacts
<1>2. \A a, b : Received(a, 0, n) = Received(b, 0, n)
  BY DEF Received
<1>3. stream = <<>> => k = 0
  BY DEF ReadCounts
<1>4. \A bytes \in Seq(Cell) : 0 \in 0..Len(bytes)
  OBVIOUS
<1>. QED
  BY <1>1, <1>2, <1>3, <1>4 DEF EmptyBuffer, Arrivals

LEMMA EmptyAppend ==
  \A b \in Seq(Cell) : <<>> \o b = b
BY ConcatEmptySeq

\* The question is a sequence of cells once its client knows whom to ask.
LEMMA QuestionFacts ==
  ASSUME Stages, NEW c \in Clients, peer[c] # Nobody
  PROVE  Question(c) \in Seq(Cell)
<1>1. HostOf[c] \in Hosts /\ destHost[c] \in Hosts
  BY KernelAssumption DEF Stages, ClientStage
<1>2. RequestPacket(c) \in Packets
  BY <1>1, CellFacts, CreatePacketsFacts, ClientAssumption DEF RequestPacket
<1>. QED
  BY <1>2, RequestBytesFacts, ClientAssumption DEF Question

-----------------------------------------------------------------------------
(* Every step continues the story *)

LEMMA ClientStoryStep ==
  ASSUME IInv, Stages, Story, NEW c \in Clients, ClientNext(c)
  PROVE  Story'
<1>1. /\ TypeInv /\ Wiring /\ PlaceAt(c) /\ ClientStage(c) /\ ClientStory(c)
      /\ ProcTypeOK /\ NetTypeOK /\ ClientTypeOK
      /\ c \in Hosts /\ c \notin Servers /\ c \notin Dests
      /\ Onward(c) /\ EndsKept(c)
  BY KernelParts, KernelAssumption, WiringParts, ClientOnward
     DEF IInv, TypeInv, TypeOK, Stages, Story
<1>2. ASSUME UNCHANGED <<terminal, peer, session, up, down, destHost>>,
             pc'[c] \in {"exit", "gone"}
      PROVE  Story'
  BY <1>1, <1>2, QuietStory
<1>3. ASSUME ClientStory(c)', \A q \in Hosts \ {c} : up'[q] = up[q] /\ down'[q] = down[q]
      PROVE  Story'
  <2>1. \A q \in Hosts \ {c} : Within(q)
    BY <1>3 DEF Within
  <2>. QED
    BY <1>1, <1>3, <2>1, StoryStep DEF StoryAt
<1>4. CASE ClientStart(c)
  <2>1. /\ UNCHANGED <<terminal, peer, session, up, down>> /\ peer[c] = Nobody
        /\ \/ Finish(c, "zero") /\ UNCHANGED destHost
           \/ Goto(c, "connect")
    BY <1>1, <1>4 DEF ClientStart, netVars, clientVars, PlaceAt, At
  <2>2. ClientStory(c)'
    BY <2>1, KernelAssumption DEF ClientStory
  <2>. QED
    BY <1>3, <2>1, <2>2
<1>5. CASE ClientConnect(c)
  <2>1. PICK h \in listening : Join(c, h)
    BY <1>5 DEF ClientConnect, Connect
  <2>2. /\ At(c, "connect") /\ Goto(c, "send") /\ UNCHANGED clientVars
        /\ Show(c, RequestPacket(c)) /\ UNCHANGED <<up, down>>
    BY <1>5, <2>1 DEF ClientConnect, Join
  <2>3. up[c] = <<>> /\ down[c] = <<>> /\ terminal[c] = <<>>
    BY <1>1, <2>2 DEF PlaceAt, ClientStage, At, Wiring
  <2>4. Len(terminal'[c]) = 1
    BY <1>1, <2>2, <2>3, ShowFacts
  <2>5. ClientStory(c)'
    BY <2>2, <2>3, <2>4 DEF ClientStory, Told
  <2>. QED
    BY <1>3, <2>2, <2>5
<1>6. ASSUME pc[c] = "send", Goto(c, "receive"), UNCHANGED <<terminal, peer, session, down, destHost>>,
             \/ up' = up
             \/ up' = [up EXCEPT ![c] = up[c] \o Question(c)]
      PROVE  Story'
  <2>1. pc'[c] = "receive" /\ \A q \in Hosts \ {c} : pc'[q] = pc[q]
    BY <1>1, <1>6, PlaceFacts
  <2>2. peer[c] # Nobody /\ peer[c] \in Hosts /\ Len(terminal[c]) = 1
    BY <1>1, <1>6 DEF PlaceAt, NetTypeOK, ClientStage
  <2>3. Question(c)' = Question(c) /\ Question(c) \in Seq(Cell)
    BY <1>6, <2>2, QuestionFacts DEF Question, RequestPacket
  <2>4. peer[c] \in Servers => up'[c] \in {<<>>, Question(c)}
    <3>1. peer[c] \in Servers => up[c] = <<>>
      BY <1>1, <1>6 DEF ClientStory
    <3>2. <<>> \o Question(c) = Question(c)
      BY <2>3, EmptyAppend
    <3>. QED
      BY <1>1, <1>6, <3>1, <3>2 DEF NetTypeOK
  <2>5. peer[c] \in Servers =>
          \/ down[c] = <<>>
          \/ /\ RepliedTo(c, peer[c])' /\ pc'[peer[c]] \in {"exit", "gone"}
             /\ down[c] = ServCliEncrypt(terminal[peer[c]][2])
    BY <1>1, <1>6, <2>1, <2>2 DEF ClientStory, RepliedTo
  <2>6. ~Told(c)'
    BY <1>6, <2>2 DEF Told
  <2>7. ClientStory(c)'
    BY <1>6, <2>1, <2>3, <2>4, <2>5, <2>6 DEF ClientStory
  <2>8. \A q \in Hosts \ {c} : up'[q] = up[q] /\ down'[q] = down[q]
    BY <1>1, <1>6 DEF NetTypeOK
  <2>. QED
    BY <1>3, <2>7, <2>8
<1>7. CASE ClientSend(c)
  <2>1. /\ pc[c] = "send" /\ Goto(c, "receive")
        /\ UNCHANGED <<terminal, peer, session, down, destHost>>
    BY <1>7 DEF ClientSend, SendUp, SendUpFails, listenVars, clientVars, At
  <2>2. \/ up' = up
        \/ up' = [up EXCEPT ![c] = up[c] \o Question(c)]
    BY <1>7 DEF ClientSend, SendUp, SendUpFails, Question
  <2>. QED
    BY <1>6, <2>1, <2>2
<1>8. CASE ClientReceive(c)
  <2>1. PICK k \in 0..PacketLen :
          ReadDown(c, k, PacketLen) /\ Show(c, Decrypt(Received(down[c], k, PacketLen)))
    BY <1>8 DEF ClientReceive
  <2>2. /\ pc[c] = "receive" /\ Finish(c, "zero")
        /\ UNCHANGED <<peer, session, up, destHost>>
        /\ k \in ReadCounts(down[c], downEnd[c], PacketLen)
        /\ down' = [down EXCEPT ![c] = DropFirst(down[c], k)]
    BY <1>8, <2>1 DEF ClientReceive, ReadDown, listenVars, clientVars, At
  <2>3. pc'[c] = "exit" /\ \A q \in Hosts \ {c} : pc'[q] = pc[q]
    BY <1>1, <2>2, PlaceFacts
  <2>4. /\ Len(terminal'[c]) = 2 /\ terminal'[c][2] = Decrypt(Received(down[c], k, PacketLen))
        /\ \A q \in Hosts \ {c} : terminal'[q] = terminal[q]
    BY <1>1, <2>1, <2>2, ShowFacts DEF ClientStage
  <2>5. \A q \in Hosts \ {c} : up'[q] = up[q] /\ down'[q] = down[q]
    BY <1>1, <2>2 DEF NetTypeOK
  <2>6. ASSUME peer[c] \in Servers PROVE ClientStory(c)'
    <3>1. Question(c)' = Question(c) /\ peer[c] \in Hosts /\ peer[c] # c
      BY <1>1, <2>2, <2>6, KernelAssumption DEF Question, RequestPacket
    <3>2. /\ terminal'[peer[c]] = terminal[peer[c]] /\ (Taken(c)' <=> Taken(c))
          /\ RepliedTo(c, peer[c])' <=> RepliedTo(c, peer[c])
      BY <2>2, <2>3, <2>4, <3>1 DEF Taken, RepliedTo
    <3>3. ~Taken(c)' => up'[c] \in {<<>>, Question(c)'}
      BY <1>1, <2>2, <2>6, <3>1, <3>2 DEF ClientStory
    <3>4. down[c] \in Seq(Cell) /\ PacketLen \in Nat \ {0}
      BY <1>1, PacketSizes DEF NetTypeOK
    <3>5. CASE down[c] = <<>>
      <4>1. Received(down[c], k, PacketLen) = EmptyBuffer(PacketLen)
        BY <2>2, <3>4, <3>5, ArrivalFacts
      <4>. QED
        BY <2>3, <2>4, <3>3, <4>1 DEF ClientStory, ReplyShown
    <3>6. CASE /\ RepliedTo(c, peer[c])
               /\ down[c] = ServCliEncrypt(terminal[peer[c]][2])
      <4>1. Received(down[c], k, PacketLen)
              \in Arrivals(ServCliEncrypt(terminal[peer[c]][2]), PacketLen)
        BY <2>2, <3>4, <3>6, ArrivalFacts
      <4>. QED
        BY <2>2, <2>3, <2>4, <3>2, <3>3, <3>6, <4>1 DEF ClientStory, ReplyShown
    <3>. QED
      BY <1>1, <2>2, <2>6, <3>5, <3>6 DEF ClientStory
  <2>7. ClientStory(c)'
    BY <2>2, <2>6 DEF ClientStory
  <2>. QED
    BY <1>3, <2>5, <2>7
<1>9. CASE ClientConnectFails(c) \/ ClientReceiveFails(c)
  <2>1. /\ UNCHANGED <<terminal, peer, session, up, down, destHost>>
        /\ Finish(c, "error") \/ Finish(c, "crashed")
    BY <1>9 DEF ClientConnectFails, ClientReceiveFails, ReadDownFails, listenVars, netVars, clientVars
  <2>. QED
    BY <1>1, <1>2, <2>1, PlaceFacts
<1>10. CASE ClientExit(c) \/ (Kill(c) /\ UNCHANGED clientVars)
  <2>1. Release(c) /\ UNCHANGED destHost
    BY <1>10 DEF ClientExit, Exit, Kill, clientVars
  <2>. QED
    BY <1>1, <1>2, <2>1 DEF Release, ProcTypeOK
<1>11. CASE ClientFault(c)
  <2>1. UNCHANGED <<terminal, peer, session, up, down, destHost>>
    BY <1>11 DEF ClientFault, netVars, clientVars
  <2>2. CASE Finish(c, "error") \/ Finish(c, "crashed")
    BY <1>1, <1>2, <2>1, <2>2, PlaceFacts
  <2>3. CASE pc[c] = "send" /\ Goto(c, "receive")
    BY <1>6, <2>1, <2>3
  <2>. QED
    BY <1>11, <2>2, <2>3 DEF ClientFault, At
<1>. QED
  BY <1>4, <1>5, <1>7, <1>8, <1>9, <1>10, <1>11 DEF ClientNext, ClientStep

\* What a server has printed first of a client's question is a packet.
LEMMA QuestionShown ==
  ASSUME IInv, Stages, NEW s \in Servers, session[s] \in Clients,
         NEW raw \in Arrivals(Question(session[s]), PacketLen)
  PROVE  raw \in Packets /\ Decrypt(raw) \in Packets
<1>1. peer[session[s]] = s /\ s # Nobody
  BY KernelAssumption DEF IInv, Wiring
<1>2. Question(session[s]) \in Seq(Cell)
  BY <1>1, QuestionFacts
<1>3. PICK k \in 0..Len(Question(session[s])) : raw = Received(Question(session[s]), k, PacketLen)
  BY DEF Arrivals
<1>4. raw \in Packets
  BY <1>2, <1>3, ReceivedFacts, PacketSizes DEF Packets
<1>. QED
  BY <1>4, DecryptFacts

LEMMA ForwardedFacts ==
  ASSUME IInv, Stages, Story, NEW s \in Servers, session[s] \in Clients, terminal[s] # <<>>
  PROVE  /\ terminal[s][1] \in Packets
         /\ Forwarded(s) \in BarePackets /\ Forwarded(s) \in Seq(Cell)
         /\ Len(Forwarded(s)) = PacketLen - 1
         /\ Forwarded(s)[SrcAt - 1] = Clear(HostOf[s])
         /\ Forwarded(s)[DstAt - 1] = terminal[s][1][DstAt]
<1>1. terminal[s][1] \in Packets
  BY QuestionShown DEF Story, ServerStory
<1>2. HostOf[s] \in Hosts
  BY KernelAssumption
<1>3. /\ Forwarded(s) \in BarePackets
      /\ Forwarded(s)[SrcAt - 1] = Clear(HostOf[s])
      /\ Forwarded(s)[DstAt - 1] = terminal[s][1][DstAt]
  BY <1>1, <1>2, ServHandlePktFacts DEF Forwarded
<1>. QED
  BY <1>1, <1>3, PacketsAreSeqs

\* The packet a server dials with is the one it has printed, so that it dials whom
\* the client has named.
LEMMA DialFacts ==
  ASSUME IInv, Stages, Story, NEW s \in Servers, pc[s] = "dial",
         NEW h \in Hosts, HostOf[h] = DestOf(s)
  PROVE  session[s] \in Clients /\ terminal[s][1][DstAt] = Clear(HostOf[h])
<1>1. HostOf[h] \in Hosts /\ HostOf[h] # Nobody
  BY KernelAssumption
<1>2. session[s] \in Clients
  BY <1>1 DEF IInv, Secrecy
<1>3. s \in Hosts /\ ProcTypeOK /\ Len(terminal[s]) = 1
  BY KernelAssumption, KernelParts DEF IInv, TypeInv, TypeOK, Stages, ServerStage
<1>4. terminal[s] # <<>>
  BY <1>3, ScreenFacts, SMTT(30)
<1>5. packet[s] = Forwarded(s) /\ packet[s][DstAt - 1] = terminal[s][1][DstAt]
  BY <1>2, <1>4, ForwardedFacts DEF Story, ServerStory
<1>6. packet[s][DstAt - 1].val = HostOf[h] /\ ~packet[s][DstAt - 1].masked
  BY <1>1 DEF DestOf
<1>7. packet[s][DstAt - 1] \in Cell
  BY <1>2, <1>4, <1>5, ForwardedFacts, PacketSizes DEF BarePackets
<1>8. \A x \in Cell : ~x.masked => x = Clear(x.val)
  BY DEF Cell, Clear
<1>. QED
  BY <1>2, <1>5, <1>6, <1>7, <1>8

LEMMA ServerStoryStep ==
  ASSUME IInv, Stages, Story, NEW s \in Servers, ServerNext(s)
  PROVE  Story'
<1>1. /\ TypeInv /\ Wiring /\ PlaceAt(s) /\ ServerStage(s) /\ ServerStory(s) /\ DialStory(s)
      /\ ProcTypeOK /\ NetTypeOK /\ ServerTypeOK /\ ReadyAt(s)
      /\ s \in Hosts /\ s \notin Clients /\ s \notin Dests
      /\ Onward(s) /\ EndsKept(s)
      /\ peer[s] # Nobody => session[s] \in Clients
      /\ PacketLen \in Nat \ {0} /\ PacketLen - 1 \in Nat \ {0}
  BY KernelParts, KernelAssumption, WiringParts, ReadyParts, ServerOnward, PacketSizes
     DEF IInv, TypeInv, TypeOK, Secrecy, ServesClients, Stages, Story
<1>2. UNCHANGED destHost
  BY DEF ServerNext, clientVars
<1>3. ASSUME UNCHANGED <<terminal, peer, session, up, down>>, pc'[s] \in {"exit", "gone"}
      PROVE  Story'
  BY <1>1, <1>2, <1>3, QuietStory
<1>4. ASSUME ServerStory(s)', DialStory(s)',
             \A q \in Hosts \ {s} : up'[q] = up[q] /\ down'[q] = down[q]
      PROVE  Story'
  <2>1. \A q \in Hosts \ {s} : Within(q)
    BY <1>4 DEF Within
  <2>. QED
    BY <1>1, <1>4, <2>1, StoryStep DEF StoryAt
<1>5. Question(session[s])' = Question(session'[s])
  BY <1>2 DEF Question, RequestPacket
<1>6. CASE ServerStart(s)
  <2>1. /\ UNCHANGED <<terminal, peer, session, up, down>> /\ pc[s] = "start"
        /\ \/ Finish(s, "zero")
           \/ Goto(s, "accept")
    BY <1>6 DEF ServerStart, Listen, listenVars, linkVars, At
  <2>2. session[s] = Nobody /\ peer[s] = Nobody
    BY <1>1, <2>1 DEF ServerStage, PlaceAt
  <2>3. ServerStory(s)' /\ DialStory(s)'
    BY <2>1, <2>2, KernelAssumption DEF ServerStory, DialStory
  <2>. QED
    BY <1>4, <2>1, <2>3
<1>7. CASE ServerAccept(s)
  <2>1. /\ UNCHANGED <<terminal, peer, up, down>> /\ pc[s] = "accept" /\ Goto(s, "receive")
    BY <1>7 DEF ServerAccept, linkVars, At
  <2>2. terminal[s] = <<>> /\ peer[s] = Nobody /\ pc'[s] = "receive" /\ Len(terminal[s]) # 2
    BY <1>1, <2>1, PlaceFacts DEF ServerStage, PlaceAt
  <2>3. ServerStory(s)' /\ DialStory(s)'
    BY <2>1, <2>2 DEF ServerStory, DialStory
  <2>. QED
    BY <1>4, <2>1, <2>3
<1>8. CASE ServerReceive(s)
  <2>. DEFINE c == session[s]
  <2>1. PICK k \in 0..PacketLen :
          /\ ReadUp(s, k, PacketLen) /\ Show(s, Decrypt(Received(up[c], k, PacketLen)))
          /\ clientIp' = [clientIp EXCEPT ![s] = SaveClientIp(Decrypt(Received(up[c], k, PacketLen)))]
          /\ packet' = [packet EXCEPT
               ![s] = ServHandlePkt(Decrypt(Received(up[c], k, PacketLen)), HostOf[s])]
    BY <1>8 DEF ServerReceive
  <2>. DEFINE raw == Received(up[c], k, PacketLen)
              got == Decrypt(raw)
  <2>2. /\ pc[s] = "receive" /\ Goto(s, "dial")
        /\ UNCHANGED <<peer, session, down>>
        /\ k \in ReadCounts(up[c], upEnd[c], PacketLen)
        /\ up' = [up EXCEPT ![c] = DropFirst(up[c], k)]
    BY <1>8, <2>1 DEF ServerReceive, ReadUp, listenVars, At
  <2>3. c \in Hosts /\ peer[c] = s /\ up[c] \in Seq(Cell) /\ c # Nobody
    BY <1>1, <2>2, KernelAssumption DEF ReadyAt, Wiring, NetTypeOK
  <2>4. /\ Show(s, got) /\ clientIp' = [clientIp EXCEPT ![s] = SaveClientIp(got)]
        /\ packet' = [packet EXCEPT ![s] = ServHandlePkt(got, HostOf[s])]
    BY <2>1
  <2>5. c \in Clients => raw \in Arrivals(Question(c), PacketLen)
    <3>. SUFFICES ASSUME c \in Clients PROVE raw \in Arrivals(Question(c), PacketLen)
      OBVIOUS
    <3>1. Question(c) \in Seq(Cell)
      BY <1>1, <2>3, QuestionFacts, KernelAssumption
    <3>2. up[c] \in {<<>>, Question(c)}
      BY <2>2, <2>3 DEF Story, ClientStory, Taken
    <3>. QED
      BY <1>1, <2>2, <2>3, <3>1, <3>2, ArrivalFacts
  <2>6. pc'[s] = "dial" /\ \A q \in Hosts \ {s} : pc'[q] = pc[q]
    BY <1>1, <2>2, PlaceFacts
  <2>7. Within(c)
    <3>1. /\ ToSet(DropFirst(up[c], k)) \subseteq ToSet(up[c])
          /\ up[c] = <<>> => DropFirst(up[c], k) = <<>>
      BY <1>1, <2>2, <2>3, TakenFacts
    <3>2. Taken(c)'
      BY <2>2, <2>3, <2>6 DEF Taken
    <3>3. up'[c] = DropFirst(up[c], k)
      BY <1>1, <2>2, <2>3 DEF NetTypeOK
    <3>. QED
      BY <3>1, <3>2, <3>3 DEF Within
  <2>8. \A q \in Hosts \ {s} : Within(q) /\ down'[q] = down[q]
    <3>1. \A q \in Hosts \ {c} : up'[q] = up[q]
      BY <1>1, <2>2, <2>3 DEF NetTypeOK
    <3>. QED
      BY <2>2, <2>7, <3>1 DEF Within
  <2>. HIDE DEF got
  <2>9. /\ Len(terminal'[s]) = 1 /\ terminal'[s][1] = got
    BY <1>1, <2>2, <2>4, ShowFacts DEF ServerStage
  <2>10. clientIp'[s] = SaveClientIp(got) /\ packet'[s] = ServHandlePkt(got, HostOf[s])
    BY <1>1, <2>4 DEF ServerTypeOK
  <2>11. ServerStory(s)'
    <3>1. c \in Clients =>
            \E x \in Arrivals(Question(c), PacketLen) : terminal'[s][1] = Decrypt(x)
      BY <2>5, <2>9 DEF got
    <3>. QED
      BY <1>5, <2>2, <2>6, <2>9, <2>10, <3>1 DEF ServerStory, Forwarded
  <2>12. DialStory(s)'
    BY <1>1, <2>2 DEF DialStory, PlaceAt
  <2>. QED
    BY <1>1, <2>8, <2>11, <2>12, StoryStep DEF StoryAt
<1>9. CASE ServerDial(s)
  <2>1. PICK h \in listening : HostOf[h] = DestOf(s) /\ Join(s, h)
    BY <1>9 DEF ServerDial, Connect
  <2>2. /\ pc[s] = "dial" /\ Goto(s, "forward")
        /\ UNCHANGED <<packet, clientIp, terminal, session, up, down>>
    BY <1>9, <2>1 DEF ServerDial, Join, serverVars, At
  <2>3. pc'[s] = "forward" /\ peer[s] = Nobody /\ peer'[s] = h /\ h \in Hosts
    BY <1>1, <2>1, <2>2, PlaceFacts DEF PlaceAt, Join, NetTypeOK
  <2>4. terminal[s][1][DstAt] = Clear(HostOf[h])
    BY <2>1, <2>2, <2>3, DialFacts
  <2>5. up[s] = <<>> /\ down[s] = <<>> /\ Len(terminal[s]) = 1
    BY <1>1, <2>2, <2>3 DEF Wiring, ServerStage
  <2>6. DialStory(s)'
    <3>1. ToSet(<<>>) = {}
      BY DEF ToSet
    <3>. QED
      BY <2>2, <2>3, <2>4, <2>5, <3>1 DEF DialStory
  <2>7. ServerStory(s)'
    BY <1>1, <1>5, <2>2, <2>3, <2>5 DEF ServerStory, Forwarded
  <2>. QED
    BY <1>4, <2>2, <2>6, <2>7
<1>10. CASE ServerForward(s)
  <2>1. /\ pc[s] = "forward" /\ UNCHANGED <<packet, clientIp, terminal, peer, session, down>>
        /\ \/ Finish(s, "error") /\ UNCHANGED up
           \/ /\ Goto(s, "receiveReply")
              /\ up' = up \/ up' = [up EXCEPT ![s] = up[s] \o packet[s]]
    BY <1>10 DEF ServerForward, SendUp, SendUpFails, listenVars, serverVars, At
  <2>2. CASE Finish(s, "error") /\ UNCHANGED up
    BY <1>1, <1>3, <2>1, <2>2, PlaceFacts
  <2>3. CASE /\ Goto(s, "receiveReply")
             /\ up' = up \/ up' = [up EXCEPT ![s] = up[s] \o packet[s]]
    <3>1. pc'[s] = "receiveReply" /\ \A q \in Hosts \ {s} : pc'[q] = pc[q]
      BY <1>1, <2>3, PlaceFacts
    <3>2. peer[s] # Nobody /\ session[s] \in Clients /\ Len(terminal[s]) = 1
      BY <1>1, <2>1 DEF PlaceAt, ServerStage
    <3>3. packet[s] = Forwarded(s) /\ Forwarded(s) \in Seq(Cell)
      BY <1>1, <2>1, <3>2, ForwardedFacts DEF ServerStory, ServerStage
    <3>4. up[s] = <<>>
      BY <1>1, <2>1, <3>2 DEF DialStory
    <3>5. up'[s] \in {<<>>, Forwarded(s)} /\ \A q \in Hosts \ {s} : up'[q] = up[q]
      BY <1>1, <2>3, <3>3, <3>4, EmptyAppend DEF NetTypeOK
    <3>6. ToSet(up'[s]) \subseteq ToSet(Forwarded(s))
      <4>1. ToSet(<<>>) = {}
        BY DEF ToSet
      <4>. QED
        BY <3>5, <4>1
    <3>7. Forwarded(s)' = Forwarded(s)
      BY <2>1 DEF Forwarded
    <3>8. \/ down'[s] = <<>>
          \/ /\ AnsweredBy(s, peer[s])' /\ pc'[peer[s]] \in {"exit", "gone"}
             /\ down'[s] = ReplyBytes(terminal'[peer[s]][2], Reply)
      <4>1. peer[s] \in Hosts /\ (AnsweredBy(s, peer[s])' <=> AnsweredBy(s, peer[s]))
        BY <1>1, <2>1, <3>2 DEF AnsweredBy, NetTypeOK
      <4>2. AnsweredBy(s, peer[s]) => peer[s] # s
        BY <1>1 DEF AnsweredBy
      <4>. QED
        BY <1>1, <2>1, <3>1, <3>2, <4>1, <4>2 DEF DialStory
    <3>9. terminal'[s][1][DstAt] = Clear(HostOf[peer[s]])
      BY <1>1, <2>1, <3>2 DEF DialStory
    <3>10. DialStory(s)'
      BY <2>1, <3>1, <3>5, <3>6, <3>7, <3>8, <3>9 DEF DialStory
    <3>11. ServerStory(s)'
      BY <1>1, <1>5, <2>1, <3>1, <3>2 DEF ServerStory
    <3>. QED
      BY <1>4, <2>1, <3>5, <3>10, <3>11
  <2>. QED
    BY <2>1, <2>2, <2>3
<1>11. CASE ServerReceiveReply(s)
  <2>. DEFINE bare(k) == Received(down[s], k, PacketLen - 1)
              answer(k) == ServHandlePktDest(Encapsulate(bare(k)), clientIp[s])
  <2>1. PICK k \in 0..PacketLen :
          /\ ReadDown(s, k, PacketLen) /\ Show(s, answer(k))
          /\ packet' = [packet EXCEPT ![s] = answer(k)]
    BY <1>11 DEF ServerReceiveReply
  <2>2. /\ pc[s] = "receiveReply" /\ Goto(s, "reply")
        /\ UNCHANGED <<clientIp, peer, session, up>>
        /\ k \in ReadCounts(down[s], downEnd[s], PacketLen)
        /\ down' = [down EXCEPT ![s] = DropFirst(down[s], k)]
    BY <1>11, <2>1 DEF ServerReceiveReply, ReadDown, listenVars, At
  <2>3. pc'[s] = "reply" /\ \A q \in Hosts \ {s} : pc'[q] = pc[q]
    BY <1>1, <2>2, PlaceFacts
  <2>4. /\ Len(terminal[s]) = 1 /\ terminal[s] # <<>> /\ peer[s] # Nobody
        /\ session[s] \in Clients /\ clientIp[s] = SaveClientIp(terminal[s][1])
        /\ peer[s] \in Hosts
    BY <1>1, <2>2, ScreenFacts DEF ServerStage, PlaceAt, ServerStory, NetTypeOK
  <2>5. answer(k) = Readdressed(s, bare(k))
    BY <2>4 DEF Readdressed
  <2>6. down[s] \in Seq(Cell) /\ \A q \in Hosts \ {s} : up'[q] = up[q] /\ down'[q] = down[q]
    BY <1>1, <2>2 DEF NetTypeOK
  <2>7. \/ bare(k) = EmptyBuffer(PacketLen - 1)
        \/ /\ AnsweredBy(s, peer[s])
           /\ bare(k) \in Arrivals(ReplyBytes(terminal[peer[s]][2], Reply), PacketLen - 1)
    <3>1. down[s] = <<>> => bare(k) = EmptyBuffer(PacketLen - 1)
      <4>1. down[s] = <<>> => k = 0
        BY <1>1, <2>2, <2>6, TakenFacts
      <4>. QED
        BY <4>1 DEF EmptyBuffer, Received
    <3>2. \A bytes \in Seq(Cell) :
            down[s] = bytes => bare(k) \in Arrivals(bytes, PacketLen - 1)
      BY <1>1, <2>2, <2>6, ArrivalFacts
    <3>. HIDE DEF bare
    <3>3. \/ down[s] = <<>>
          \/ /\ AnsweredBy(s, peer[s])
             /\ down[s] = ReplyBytes(terminal[peer[s]][2], Reply)
      BY <1>1, <2>2, <2>4 DEF DialStory
    <3>. QED
      BY <2>6, <3>1, <3>2, <3>3
  <2>. DEFINE got == bare(k)
              shown == answer(k)
  <2>8. /\ Show(s, shown) /\ packet' = [packet EXCEPT ![s] = shown]
        /\ shown = Readdressed(s, got)
        /\ \/ got = EmptyBuffer(PacketLen - 1)
           \/ /\ AnsweredBy(s, peer[s])
              /\ got \in Arrivals(ReplyBytes(terminal[peer[s]][2], Reply), PacketLen - 1)
    BY <2>1, <2>5, <2>7
  <2>. HIDE DEF got, shown, bare, answer
  <2>9. /\ Len(terminal'[s]) = 2 /\ terminal'[s][2] = shown /\ terminal'[s] # <<>>
        /\ terminal'[s][1] = terminal[s][1]
        /\ \A q \in Hosts \ {s} : terminal'[q] = terminal[q]
    BY <1>1, <2>4, <2>8, ShowFacts
  <2>10. packet'[s] = shown
    BY <1>1, <2>8 DEF ServerTypeOK
  <2>11. /\ Forwarded(s)' = Forwarded(s)
         /\ \A x : Readdressed(s, x)' = Readdressed(s, x)
    BY <2>9 DEF Forwarded, Readdressed
  <2>12. AnsweredBy(s, peer[s]) =>
           AnsweredBy(s, peer[s])' /\ terminal'[peer[s]] = terminal[peer[s]]
    BY <1>1, <2>2, <2>4, HistoryKept
  <2>13. ServerStory(s)'
    <3>1. \E x \in Arrivals(Question(session[s]), PacketLen) : terminal'[s][1] = Decrypt(x)
      BY <1>1, <2>4, <2>9 DEF ServerStory
    <3>2. \/ terminal'[s][2] = Readdressed(s, EmptyBuffer(PacketLen - 1))
          \/ /\ AnsweredBy(s, peer[s])'
             /\ \E x \in Arrivals(ReplyBytes(terminal'[peer[s]][2], Reply), PacketLen - 1) :
                  terminal'[s][2] = Readdressed(s, x)
      BY <2>8, <2>9, <2>12
    <3>. QED
      BY <1>5, <2>2, <2>3, <2>9, <2>10, <2>11, <3>1, <3>2 DEF ServerStory
  <2>14. DialStory(s)'
    <3>1. Taken(s) => Taken(s)'
      BY <1>1, <2>2, <2>4, HistoryKept DEF ServerStage
    <3>. QED
      BY <1>1, <2>2, <2>3, <2>4, <2>9, <2>11, <3>1 DEF DialStory
  <2>. QED
    BY <1>4, <2>6, <2>13, <2>14
<1>12. CASE ServerReply(s)
  <2>. DEFINE c == session[s]
              bytes == ServCliEncrypt(packet[s])
  <2>1. /\ pc[s] = "reply" /\ Finish(s, "zero") /\ UNCHANGED <<terminal, peer, session, up>>
        /\ down' = down \/ down' = [down EXCEPT ![c] = down[c] \o bytes]
    BY <1>12 DEF ServerReply, SendDown, SendDownFails, listenVars, At
  <2>2. pc'[s] = "exit" /\ \A q \in Hosts \ {s} : pc'[q] = pc[q]
    BY <1>1, <2>1, PlaceFacts
  <2>3. /\ c \in Clients /\ c \in Hosts \ {s} /\ peer[c] = s /\ Len(terminal[s]) = 2
        /\ packet[s] = terminal[s][2] /\ packet[s] \in Packets
    BY <1>1, <2>1, KernelAssumption DEF PlaceAt, ServerStage, ServerStory, Wiring, ReadyAt
  <2>4. bytes \in Seq(Cell)
    BY <2>3, ServCliEncryptFacts
  <2>. HIDE DEF bytes
  <2>5. StoryAt(s)'
    BY <1>1, <1>2, <2>1, <2>2, QuietStoryAt
  <2>6. \A q \in Hosts \ {s} : Within(q)
    BY <2>1 DEF Within
  <2>7. \A q \in Hosts \ {c} : down'[q] = down[q]
    BY <1>1, <2>1, <2>3 DEF NetTypeOK
  <2>8. ClientStory(c)'
    <3>1. /\ ClientStory(c) /\ terminal'[c] = terminal[c] /\ pc'[c] = pc[c]
          /\ RepliedTo(c, s) /\ RepliedTo(c, s)' /\ (Taken(c)' <=> Taken(c)) /\ Taken(c)
      BY <2>1, <2>2, <2>3 DEF Story, RepliedTo, Taken
    <3>2. pc[c] \in {"send", "receive"} => down'[c] \in {<<>>, bytes}
      <4>1. pc[c] \in {"send", "receive"} => down[c] = <<>>
        BY <1>1, <2>1, <2>3, <3>1 DEF ClientStory
      <4>2. <<>> \o bytes = bytes
        BY <2>4, EmptyAppend
      <4>. QED
        BY <1>1, <2>1, <2>3, <4>1, <4>2 DEF NetTypeOK
    <3>3. bytes = ServCliEncrypt(terminal[s][2])
      BY <2>3 DEF bytes
    <3>4. /\ pc[c] = "send" => up[c] = <<>>
          /\ Told(c) =>
               \/ terminal[c][2] = Decrypt(EmptyBuffer(PacketLen))
               \/ \E raw \in Arrivals(ServCliEncrypt(terminal[s][2]), PacketLen) :
                    terminal[c][2] = Decrypt(raw)
      BY <1>1, <2>3, <3>1 DEF ClientStory, ReplyShown
    <3>. QED
      BY <1>1, <2>1, <2>2, <2>3, <3>1, <3>2, <3>3, <3>4 DEF ClientStory, Told, ReplyShown
  <2>9. ASSUME NEW q \in Hosts \ {s}
        PROVE  \/ down'[q] = down[q]
               \/ (q \in Clients => ClientStory(q)') /\ (q \in Servers => DialStory(q)')
    <3>1. CASE q = c
      <4>1. ClientStory(q)'
        BY <2>1, <2>8, <3>1
      <4>. QED
        BY <2>3, <3>1, <4>1, KernelAssumption
    <3>. QED
      BY <2>7, <3>1
  <2>. QED
    BY <1>1, <2>5, <2>6, <2>9, StoryStep
<1>13. CASE ServerReceiveFails(s) \/ ServerDialFails(s) \/ ServerReceiveReplyFails(s)
  <2>1. /\ UNCHANGED <<terminal, peer, session, up, down>>
        /\ Finish(s, "error") \/ Finish(s, "crashed")
    BY <1>13 DEF ServerReceiveFails, ServerDialFails, ServerReceiveReplyFails,
                 ReadUpFails, ReadDownFails, listenVars, netVars
  <2>. QED
    BY <1>1, <1>3, <2>1, PlaceFacts
<1>14. CASE ServerExit(s) \/ (Kill(s) /\ UNCHANGED serverVars)
  <2>1. Release(s)
    BY <1>14 DEF ServerExit, Exit, Kill
  <2>. QED
    BY <1>1, <1>3, <2>1 DEF Release, ProcTypeOK
<1>15. CASE ServerFault(s)
  <2>1. /\ UNCHANGED <<terminal, peer, session, up, down>>
        /\ \E o \in {"error", "crashed", "zero"} : Finish(s, o)
    BY <1>15 DEF ServerFault, netVars
  <2>. QED
    BY <1>1, <1>3, <2>1, PlaceFacts
<1>. QED
  BY <1>6, <1>7, <1>8, <1>9, <1>10, <1>11, <1>12, <1>13, <1>14, <1>15
     DEF ServerNext, ServerStep

LEMMA DestStoryStep ==
  ASSUME IInv, Stages, Story, NEW d \in Dests, DestNext(d)
  PROVE  Story'
<1>1. /\ TypeInv /\ Wiring /\ DestStage(d) /\ DestStory(d)
      /\ ProcTypeOK /\ NetTypeOK /\ DestTypeOK /\ ReadyAt(d)
      /\ d \in Hosts /\ d \notin Clients /\ d \notin Servers
      /\ Onward(d) /\ EndsKept(d)
      /\ PacketLen \in Nat \ {0} /\ PacketLen - 1 \in Nat \ {0}
  BY KernelParts, KernelAssumption, ReadyParts, DestOnward, PacketSizes
     DEF IInv, TypeInv, TypeOK, Stages, Story
<1>2. UNCHANGED destHost
  BY DEF DestNext, clientVars
<1>3. ASSUME UNCHANGED <<terminal, peer, session, up, down>>, pc'[d] \in {"exit", "gone"}
      PROVE  Story'
  BY <1>1, <1>2, <1>3, QuietStory
<1>4. ASSUME DestStory(d)', UNCHANGED <<up, down>> PROVE Story'
  <2>1. \A q \in Hosts \ {d} : Within(q) /\ down'[q] = down[q]
    BY <1>4 DEF Within
  <2>. QED
    BY <1>1, <1>4, <2>1, StoryStep DEF StoryAt
<1>5. CASE DestStart(d) \/ DestAccept(d)
  <2>1. /\ UNCHANGED <<terminal, up, down>> /\ pc[d] \in {"start", "accept"}
    BY <1>5 DEF DestStart, DestAccept, linkVars, At
  <2>2. terminal'[d] = <<>>
    BY <1>1, <2>1 DEF DestStage
  <2>. QED
    BY <1>4, <2>1, <2>2 DEF DestStory
<1>6. CASE DestReceive(d)
  <2>. DEFINE s == session[d]
  <2>1. PICK k \in 0..PacketLen :
          /\ ReadUp(d, k, PacketLen - 1)
          /\ response' = [response EXCEPT ![d] = DestAnswer(d, k)]
          /\ terminal' = [terminal EXCEPT ![d] = @ \o <<DestRequest(d, k), DestAnswer(d, k)>>]
    BY <1>6 DEF DestReceive, DestAnswer, DestRequest
  <2>2. /\ pc[d] = "receive" /\ Goto(d, "reply")
        /\ UNCHANGED <<peer, session, down, upEnd>>
        /\ k \in ReadCounts(up[s], upEnd[s], PacketLen - 1)
        /\ up' = [up EXCEPT ![s] = DropFirst(up[s], k)]
    BY <1>6, <2>1 DEF DestReceive, ReadUp, listenVars, At
  <2>3. /\ s \in Hosts /\ peer[s] = d /\ up[s] \in Seq(Cell) /\ s # Nobody
        /\ terminal[d] = <<>>
    BY <1>1, <2>2, KernelAssumption DEF ReadyAt, Wiring, NetTypeOK, DestStage
  <2>4. pc'[d] = "reply" /\ \A q \in Hosts \ {d} : pc'[q] = pc[q]
    BY <1>1, <2>2, PlaceFacts
  <2>5. Within(s)
    <3>1. /\ ToSet(DropFirst(up[s], k)) \subseteq ToSet(up[s])
          /\ up[s] = <<>> => DropFirst(up[s], k) = <<>>
      BY <1>1, <2>2, <2>3, TakenFacts
    <3>2. Taken(s)'
      BY <2>2, <2>3, <2>4 DEF Taken
    <3>3. up'[s] = DropFirst(up[s], k)
      BY <1>1, <2>2, <2>3 DEF NetTypeOK
    <3>. QED
      BY <3>1, <3>2, <3>3 DEF Within
  <2>6. \A q \in Hosts \ {d} : Within(q) /\ down'[q] = down[q]
    <3>1. \A q \in Hosts \ {s} : up'[q] = up[q]
      BY <1>1, <2>2, <2>3 DEF NetTypeOK
    <3>. QED
      BY <2>2, <2>5, <3>1 DEF Within
  <2>7. /\ terminal'[d] = <<DestRequest(d, k), DestAnswer(d, k)>>
        /\ \A q \in Hosts \ {d} : terminal'[q] = terminal[q]
        /\ response'[d] = DestAnswer(d, k)
    BY <1>1, <2>1, <2>3, EmptyFirst DEF ProcTypeOK, DestTypeOK
  <2>8. terminal'[d][1] = DestRequest(d, k) /\ terminal'[d][2] = DestAnswer(d, k)
    BY <2>7
  <2>9. DestAnswer(d, k) = Response(d)'
    BY <2>8 DEF DestAnswer, Response
  <2>10. ASSUME s \in Servers PROVE DestStory(d)'
    <3>1. terminal[s] # <<>> /\ session[s] \in Clients /\ s # d
      BY <1>1, <2>3, <2>10, KernelAssumption DEF Stages, ServerStage, IInv, Secrecy, ServesClients
    <3>2. /\ Forwarded(s) \in Seq(Cell) /\ Len(Forwarded(s)) = PacketLen - 1
          /\ Forwarded(s)[SrcAt - 1] = Clear(HostOf[s])
      BY <2>10, <3>1, ForwardedFacts
    <3>3. up[s] \in {<<>>, Forwarded(s)}
      BY <1>1, <2>2, <2>3, <2>10, KernelAssumption DEF Story, DialStory, Taken
    <3>4. DestRequest(d, k) \in Arrivals(Forwarded(s), PacketLen - 1)
      BY <1>1, <2>2, <2>3, <3>2, <3>3, ArrivalFacts DEF DestRequest
    <3>5. DestRequest(d, k)[SrcAt - 1] = Clear(HostOf[s]) \/ upEnd'[s] # "open"
      <4>1. CASE up[s] = <<>>
        BY <1>1, <2>2, <2>3, <4>1, TakenFacts
      <4>2. CASE up[s] # <<>>
        <5>1. k \in 1..Len(up[s]) /\ up[s] = Forwarded(s)
          BY <1>1, <2>2, <2>3, <3>3, <4>2, TakenFacts
        <5>2. SrcAt - 1 = 1 /\ 1 \in 1..(PacketLen - 1) /\ 1 <= k
          BY <1>1, <3>2, <5>1, PacketSizes
        <5>3. DestRequest(d, k)[1] = up[s][1]
          BY <5>2 DEF DestRequest, Received
        <5>. QED
          BY <3>2, <5>1, <5>2, <5>3
      <4>. QED
        BY <4>1, <4>2
    <3>6. Forwarded(s)' = Forwarded(s)
      BY <2>2, <2>3, <2>7, <3>1 DEF Forwarded
    <3>. QED
      BY <2>2, <2>7, <2>8, <2>9, <3>4, <3>5, <3>6 DEF DestStory
  <2>11. DestStory(d)'
    BY <2>2, <2>10 DEF DestStory
  <2>. QED
    BY <1>1, <2>6, <2>11, StoryStep DEF StoryAt
<1>7. CASE DestReply(d)
  <2>. DEFINE s == session[d]
              bytes == ReplyBytes(response[d], Reply)
  <2>1. /\ pc[d] = "reply" /\ (Finish(d, "zero") \/ Finish(d, "error"))
        /\ UNCHANGED <<terminal, peer, session, up>>
        /\ \/ down' = down
           \/ down' = [down EXCEPT ![s] = down[s] \o bytes] /\ upEnd[s] = "open"
    BY <1>7 DEF DestReply, SendDown, SendDownFails, listenVars, At
  <2>2. pc'[d] = "exit" /\ \A q \in Hosts \ {d} : pc'[q] = pc[q]
    BY <1>1, <2>1, PlaceFacts
  <2>3. /\ s \in Hosts /\ s # Nobody /\ peer[s] = d /\ response[d] \in BarePackets
        /\ Len(terminal[d]) = 2 /\ terminal[d] # <<>>
    BY <1>1, <2>1, KernelAssumption, ScreenFacts DEF ReadyAt, Wiring, DestStage
  <2>4. bytes \in Seq(Cell)
    BY <2>3, ReplyBytesFacts, DestinationAssumption
  <2>5. s \in Servers => bytes = ReplyBytes(terminal[d][2], Reply)
    BY <1>1, <2>1, <2>3 DEF DestStory
  <2>. HIDE DEF bytes
  <2>6. StoryAt(d)'
    BY <1>1, <1>2, <2>1, <2>2, QuietStoryAt
  <2>7. \A q \in Hosts \ {d} : Within(q)
    BY <2>1 DEF Within
  <2>8. \A q \in Hosts \ {s} : down'[q] = down[q]
    BY <1>1, <2>1, <2>3 DEF NetTypeOK
  <2>9. ASSUME s \in Clients PROVE ClientStory(s)'
    BY <1>1, <2>1, <2>3 DEF ClientStory
  <2>10. ASSUME s \in Servers, down'[s] # down[s] PROVE DialStory(s)'
    <3>1. /\ DialStory(s) /\ pc'[s] = pc[s]
          /\ AnsweredBy(s, d) /\ AnsweredBy(s, d)' /\ Taken(s) /\ Taken(s)'
      BY <1>1, <2>1, <2>2, <2>3, <2>10 DEF Story, AnsweredBy, Taken, DestStory
    <3>2. pc[s] \in {"forward", "receiveReply"} => down'[s] = bytes
      <4>1. pc[s] \in {"forward", "receiveReply"} => down[s] = <<>>
        BY <1>1, <2>1, <2>3, <3>1, KernelAssumption DEF DialStory
      <4>2. <<>> \o bytes = bytes
        BY <2>4, EmptyAppend
      <4>. QED
        BY <1>1, <2>1, <2>3, <2>10, <4>1, <4>2 DEF NetTypeOK
    <3>3. Forwarded(s)' = Forwarded(s)
      BY <2>1 DEF Forwarded
    <3>4. /\ terminal[s][1][DstAt] = Clear(HostOf[d])
          /\ pc[s] = "forward" => up[s] = <<>>
          /\ ToSet(up[s]) \subseteq ToSet(Forwarded(s))
      BY <1>1, <2>3, <3>1, KernelAssumption DEF DialStory
    <3>. QED
      BY <2>1, <2>2, <2>3, <2>5, <2>10, <3>1, <3>2, <3>3, <3>4 DEF DialStory
  <2>11. ASSUME NEW q \in Hosts \ {d}
         PROVE  \/ down'[q] = down[q]
                \/ (q \in Clients => ClientStory(q)') /\ (q \in Servers => DialStory(q)')
    <3>1. CASE q = s /\ down'[q] # down[q]
      <4>1. q \in Clients => ClientStory(q)'
        BY <2>1, <2>9, <3>1
      <4>2. q \in Servers => DialStory(q)'
        BY <2>1, <2>10, <3>1
      <4>. QED
        BY <4>1, <4>2
    <3>. QED
      BY <2>8, <3>1
  <2>. QED
    BY <1>1, <2>6, <2>7, <2>11, StoryStep
<1>8. CASE DestReceiveFails(d)
  <2>1. UNCHANGED <<terminal, peer, session, up, down>> /\ Finish(d, "error")
    BY <1>8 DEF DestReceiveFails, ReadUpFails, listenVars
  <2>. QED
    BY <1>1, <1>3, <2>1, PlaceFacts
<1>9. CASE DestExit(d) \/ (Kill(d) /\ UNCHANGED destVars)
  <2>1. Release(d)
    BY <1>9 DEF DestExit, Exit, Kill
  <2>. QED
    BY <1>1, <1>3, <2>1 DEF Release, ProcTypeOK
<1>10. CASE DestFault(d)
  <2>1. UNCHANGED <<terminal, peer, session, up, down>> /\ Finish(d, "error")
    BY <1>10 DEF DestFault, netVars
  <2>. QED
    BY <1>1, <1>3, <2>1, PlaceFacts
<1>. QED
  BY <1>5, <1>6, <1>7, <1>8, <1>9, <1>10 DEF DestNext, DestStep

LEMMA InitStory == Init => Story
BY KernelAssumption
   DEF Init, KernelInit, Story, ClientStory, ServerStory, DialStory, DestStory

LEMMA StutterStory ==
  ASSUME Story, UNCHANGED vars
  PROVE  Story'
<1>1. UNCHANGED <<pc, terminal, session, peer, up, down, upEnd, destHost,
                  packet, clientIp, response>>
  BY DEF vars, kernelVars, clientVars, serverVars, destVars
<1>2. ASSUME NEW c \in Clients PROVE ClientStory(c)'
  <2>1. ClientStory(c)
    BY DEF Story
  <2>. QED
    BY <1>1, <2>1 DEF ClientStory, Told, ReplyShown, Question, RequestPacket, Taken, RepliedTo
<1>3. ASSUME NEW s \in Servers PROVE ServerStory(s)' /\ DialStory(s)'
  <2>1. ServerStory(s) /\ DialStory(s)
    BY DEF Story
  <2>2. ServerStory(s)'
    BY <1>1, <2>1 DEF ServerStory, Question, RequestPacket, Forwarded, Readdressed, AnsweredBy
  <2>3. DialStory(s)'
    BY <1>1, <2>1 DEF DialStory, Forwarded, AnsweredBy, Taken
  <2>. QED
    BY <2>2, <2>3
<1>4. ASSUME NEW d \in Dests PROVE DestStory(d)'
  <2>1. DestStory(d)
    BY DEF Story
  <2>. QED
    BY <1>1, <2>1 DEF DestStory, Forwarded, Response
<1>. QED
  BY <1>2, <1>3, <1>4 DEF Story

\* Every packet of a round trip is made of the one before it, by the steps of the programs it
\* has passed through, whatever was cut, killed or failed on the way (client.c:101-113,
\* server.c:130-187, destination.c:90-115).
THEOREM StoryInvariant == Spec => []Story
<1>1. Init => Story
  BY InitStory
<1>2. IInv /\ Stages /\ Story /\ [Next]_vars => Story'
  BY ClientStoryStep, ServerStoryStep, DestStoryStep, StutterStory DEF Next
<1>. QED
  BY <1>1, <1>2, InductiveInvariant, StagesInvariant, PTL DEF Spec
=============================================================================
