----------------------------- MODULE VpnProofs -----------------------------
(***************************************************************************)
(* Every variable keeps its shape and the tunnel is encrypted, for any     *)
(* number of clients, servers and destinations, any texts and any faults.  *)
(*                                                                         *)
(* Types come first.  TypeOK alone is not inductive: a receive may be done *)
(* only on a connection that was accepted, and a packet may be sent only   *)
(* from a buffer that holds one.  Ready says so.                           *)
(*                                                                         *)
(* Then secrecy: IInv is inductive.  A step changes one process and at     *)
(* most one stream of bytes.  The lemmas say, for each call to the kernel, *)
(* what it does to the streams; WiringStep and SecrecyStep leave, for each *)
(* action, only what the action does to its own process.                   *)
(***************************************************************************)
EXTENDS VpnInv, PacketProofs

-----------------------------------------------------------------------------
(* Types *)

\* The type invariant of the kernel, by what changes together.
ProcTypeOK ==
  /\ pc \in [Hosts -> Locations]
  /\ outcome \in [Hosts -> Outcomes]
  /\ terminal \in [Hosts -> Seq(Seq(Cell))]

NetTypeOK ==
  /\ listening \subseteq Hosts
  /\ queue \in [Hosts -> Seq(Hosts)]
  /\ session \in [Hosts -> Hosts \cup {Nobody}]
  /\ peer \in [Hosts -> Hosts \cup {Nobody}]
  /\ up \in [Hosts -> Seq(Cell)]
  /\ down \in [Hosts -> Seq(Cell)]
  /\ upEnd \in [Hosts -> Ends]
  /\ downEnd \in [Hosts -> Ends]

LEMMA KernelParts ==
  /\ KernelTypeOK <=> ProcTypeOK /\ NetTypeOK /\ faults \in 0..MaxFaults
  /\ KernelTypeOK' <=> ProcTypeOK' /\ NetTypeOK' /\ faults' \in 0..MaxFaults
BY DEF KernelTypeOK, ProcTypeOK, NetTypeOK

-----------------------------------------------------------------------------
(* What the operations of the kernel keep *)

LEMMA GotoType ==
  ASSUME ProcTypeOK, NEW p \in Hosts, NEW l \in Locations, Goto(p, l)
  PROVE  pc' \in [Hosts -> Locations] /\ outcome' \in [Hosts -> Outcomes]
BY DEF ProcTypeOK, Goto

LEMMA FinishType ==
  ASSUME ProcTypeOK, NEW p \in Hosts, NEW o \in Outcomes, Finish(p, o)
  PROVE  pc' \in [Hosts -> Locations] /\ outcome' \in [Hosts -> Outcomes]
BY DEF ProcTypeOK, Finish, Locations

LEMMA ShowType ==
  ASSUME ProcTypeOK, NEW p \in Hosts, NEW b \in Seq(Cell), Show(p, b)
  PROVE  terminal' \in [Hosts -> Seq(Seq(Cell))]
<1>1. terminal \in [Hosts -> Seq(Seq(Cell))]
  BY DEF ProcTypeOK
<1>2. Append(terminal[p], b) \in Seq(Seq(Cell))
  BY <1>1, AppendProperties
<1>. QED
  BY <1>1, <1>2 DEF Show

LEMMA ListenType ==
  ASSUME NetTypeOK, NEW p \in Hosts, Listen(p), UNCHANGED linkVars
  PROVE  NetTypeOK'
BY DEF NetTypeOK, Listen, linkVars

LEMMA AcceptType ==
  ASSUME NetTypeOK, NEW h \in Hosts, Accept(h), UNCHANGED linkVars
  PROVE  NetTypeOK' /\ session'[h] \in Hosts /\ session' = [session EXCEPT ![h] = session'[h]]
<1>1. queue[h] \in Seq(Hosts) /\ queue[h] # <<>>
  BY DEF NetTypeOK, Accept
<1>2. Head(queue[h]) \in Hosts /\ Tail(queue[h]) \in Seq(Hosts)
  BY <1>1, HeadTailProperties
<1>. QED
  BY <1>2 DEF NetTypeOK, Accept, linkVars

LEMMA ConnectType ==
  ASSUME NetTypeOK, NEW p \in Hosts, NEW ip, Connect(p, ip)
  PROVE  NetTypeOK' /\ UNCHANGED session
<1>1. PICK h \in listening : Join(p, h)
  BY DEF Connect
<1>2. h \in Hosts /\ queue[h] \in Seq(Hosts)
  BY <1>1 DEF NetTypeOK
<1>3. Append(queue[h], p) \in Seq(Hosts)
  BY <1>2, AppendProperties
<1>. QED
  BY <1>1, <1>2, <1>3 DEF NetTypeOK, Join

LEMMA SendUpType ==
  ASSUME NetTypeOK, NEW p \in Hosts, NEW bytes \in Seq(Cell), SendUp(p, bytes)
  PROVE  NetTypeOK'
<1>1. up[p] \o bytes \in Seq(Cell)
  BY ConcatProperties DEF NetTypeOK
<1>. QED
  BY <1>1 DEF NetTypeOK, SendUp, listenVars

LEMMA SendDownType ==
  ASSUME NetTypeOK, NEW h \in Hosts, session[h] \in Hosts,
         NEW bytes \in Seq(Cell), SendDown(h, bytes)
  PROVE  NetTypeOK'
<1>1. down[session[h]] \o bytes \in Seq(Cell)
  BY ConcatProperties DEF NetTypeOK
<1>. QED
  BY <1>1 DEF NetTypeOK, SendDown, listenVars

\* A read returns no more than there is, and leaves the rest.
LEMMA ReadCountsFacts ==
  ASSUME NEW stream \in Seq(Cell), NEW end, NEW n \in Nat,
         NEW k \in ReadCounts(stream, end, n)
  PROVE  /\ k \in 0..Len(stream)
         /\ DropFirst(stream, k) \in Seq(Cell)
         /\ AllPlain(stream) => AllPlain(DropFirst(stream, k))
         /\ AllHidden(stream) => AllHidden(DropFirst(stream, k))
<1>1. Len(stream) \in Nat /\ (stream = <<>> => Len(stream) = 0)
  OBVIOUS
<1>2. k \in 0..Len(stream)
  BY <1>1 DEF ReadCounts, AtMost
<1>3. \A i \in (k + 1)..Len(stream) : stream[i] \in Cell
  BY <1>1, <1>2, ElementOfSeq
<1>4. /\ DropFirst(stream, k) \in Seq(Cell)
      /\ Len(DropFirst(stream, k)) = Len(stream) - k
      /\ \A i \in 1..(Len(stream) - k) : DropFirst(stream, k)[i] = stream[k + i]
  <2>1. /\ SubSeq(stream, k + 1, Len(stream)) \in Seq(Cell)
        /\ Len(SubSeq(stream, k + 1, Len(stream))) =
             IF k + 1 <= Len(stream) THEN Len(stream) - (k + 1) + 1 ELSE 0
        /\ \A i \in 1..(Len(stream) - (k + 1) + 1) :
             SubSeq(stream, k + 1, Len(stream))[i] = stream[k + 1 + i - 1]
    BY <1>1, <1>2, <1>3, SubSeqProperties
  <2>2. \A i \in Int : k + 1 + i - 1 = k + i
    BY <1>2
  <2>. QED
    BY <1>1, <1>2, <2>1, <2>2 DEF DropFirst
<1>5. \A i \in 1..(Len(stream) - k) : k + i \in 1..Len(stream)
  BY <1>1, <1>2
<1>. QED
  BY <1>2, <1>4, <1>5 DEF AllPlain, AllHidden

LEMMA ReadDownType ==
  ASSUME NetTypeOK, NEW p \in Hosts, NEW n \in Nat, NEW k, ReadDown(p, k, n)
  PROVE  NetTypeOK' /\ k \in 0..Len(down[p])
<1>1. down[p] \in Seq(Cell) /\ k \in ReadCounts(down[p], downEnd[p], n)
  BY DEF NetTypeOK, ReadDown
<1>2. k \in 0..Len(down[p]) /\ DropFirst(down[p], k) \in Seq(Cell)
  BY <1>1, ReadCountsFacts
<1>. QED
  BY <1>2 DEF NetTypeOK, ReadDown, listenVars

LEMMA ReadUpType ==
  ASSUME NetTypeOK, NEW h \in Hosts, session[h] \in Hosts,
         NEW n \in Nat, NEW k, ReadUp(h, k, n)
  PROVE  NetTypeOK' /\ k \in 0..Len(up[session[h]])
<1>1. /\ up[session[h]] \in Seq(Cell)
      /\ k \in ReadCounts(up[session[h]], upEnd[session[h]], n)
  BY DEF NetTypeOK, ReadUp
<1>2. k \in 0..Len(up[session[h]]) /\ DropFirst(up[session[h]], k) \in Seq(Cell)
  BY <1>1, ReadCountsFacts
<1>. QED
  BY <1>2 DEF NetTypeOK, ReadUp, listenVars

\* A call that fails changes no more than how an end reads.
LEMMA FailedCallType ==
  ASSUME NetTypeOK, NEW p \in Hosts,
         \/ SendUpFails(p) \/ SendDownFails(p) \/ ReadDownFails(p) \/ ReadUpFails(p)
  PROVE  NetTypeOK'
BY DEF NetTypeOK, SendUpFails, SendDownFails, ReadDownFails, ReadUpFails, listenVars, Ends

LEMMA ReleaseType ==
  ASSUME ProcTypeOK, NetTypeOK, NEW p \in Hosts, Release(p)
  PROVE  /\ NetTypeOK'
         /\ pc' \in [Hosts -> Locations]
         /\ pc' = [pc EXCEPT ![p] = "gone"]
         /\ UNCHANGED <<terminal, session>>
<1>1. /\ pc' = [pc EXCEPT ![p] = "gone"]
      /\ listening' = listening \ {p}
      /\ queue' = [queue EXCEPT ![p] = <<>>]
      /\ UNCHANGED <<terminal, session, peer, up, down>>
  BY DEF Release
<1>2. \A end \in Ends : \A unread : ClosedEnds(end, unread) \subseteq Ends
  BY DEF ClosedEnds, Ends
<1>3. upEnd' \in [Hosts -> Ends]
  <2>1. CASE peer[p] = Nobody
    BY <2>1 DEF Release, NetTypeOK
  <2>2. CASE peer[p] # Nobody
    <3>1. PICK e \in ClosedEnds(upEnd[p], down[p]) : upEnd' = [upEnd EXCEPT ![p] = e]
      BY <2>2 DEF Release
    <3>2. upEnd[p] \in Ends
      BY DEF NetTypeOK
    <3>3. e \in Ends
      BY <1>2, <3>1, <3>2
    <3>. QED
      BY <3>1, <3>3 DEF NetTypeOK
  <2>. QED
    BY <2>1, <2>2
<1>4. downEnd' \in [Hosts -> Ends]
  <2>. DEFINE ends == IF session[p] = Nobody THEN {"fin"}
                      ELSE ClosedEnds(downEnd[session[p]], up[session[p]])
  <2>1. PICK e \in ends :
          downEnd' = [q \in Hosts |-> IF q \in ToSet(queue[p]) THEN "rst"
                                      ELSE IF q = session[p] THEN e ELSE downEnd[q]]
    BY DEF Release
  <2>2. e \in Ends
    <3>1. CASE session[p] = Nobody
      BY <3>1, <2>1 DEF Ends
    <3>2. CASE session[p] # Nobody
      <4>1. downEnd[session[p]] \in Ends
        BY <3>2 DEF NetTypeOK
      <4>. QED
        BY <3>2, <4>1, <2>1, <1>2
    <3>. QED
      BY <3>1, <3>2
  <2>. HIDE DEF ends
  <2>3. \A q \in Hosts : downEnd[q] \in Ends
    BY DEF NetTypeOK
  <2>. QED
    BY <2>1, <2>2, <2>3 DEF Ends
<1>5. <<>> \in Seq(Hosts)
  OBVIOUS
<1>. QED
  BY <1>1, <1>3, <1>4, <1>5 DEF NetTypeOK, ProcTypeOK, Locations

-----------------------------------------------------------------------------
(* A step of one program *)

\* Ready, for one process.
ReadyAt(p) ==
  /\ p \in Servers \cup Dests /\ pc[p] \in {"receive", "dial", "forward", "receiveReply", "reply"} =>
       session[p] \in Hosts
  /\ p \in Clients /\ pc[p] \in {"connect", "send", "receive"} =>
       serverHost[p] \in Hosts /\ destHost[p] \in Hosts
  /\ p \in Servers => /\ pc[p] \in {"dial", "forward"} => packet[p] \in BarePackets
                      /\ pc[p] = "reply" => packet[p] \in Packets
  /\ p \in Dests => (pc[p] = "reply" => response[p] \in BarePackets)

\* Nobody's place, names, session or packet changes but p's.
OnlyAt(p) ==
  /\ \A q \in Hosts \ {p} : pc'[q] = pc[q] /\ session'[q] = session[q]
  /\ \A q \in Clients \ {p} : serverHost'[q] = serverHost[q] /\ destHost'[q] = destHost[q]
  /\ \A q \in Servers \ {p} : packet'[q] = packet[q]
  /\ \A q \in Dests \ {p} : response'[q] = response[q]

LEMMA ReadyParts ==
  /\ Ready <=> \A p \in Hosts : ReadyAt(p)
  /\ Ready' <=> \A p \in Hosts : ReadyAt(p)'
BY KernelAssumption DEF Ready, ReadyAt

LEMMA StepType ==
  ASSUME TypeInv, NEW p \in Hosts, OnlyAt(p), ReadyAt(p)',
         ProcTypeOK', NetTypeOK', faults' \in 0..MaxFaults,
         ClientTypeOK', ServerTypeOK', DestTypeOK'
  PROVE  TypeInv'
<1>1. \A q \in Hosts \ {p} : ReadyAt(q)'
  <2>1. \A q \in Hosts : ReadyAt(q)
    BY ReadyParts DEF TypeInv
  <2>. QED
    BY <2>1 DEF OnlyAt, ReadyAt
<1>. QED
  BY <1>1, ReadyParts, KernelParts DEF TypeInv, TypeOK

LEMMA ProcType ==
  ASSUME ProcTypeOK, UNCHANGED terminal,
         pc' \in [Hosts -> Locations], outcome' \in [Hosts -> Outcomes]
  PROVE  ProcTypeOK'
BY DEF ProcTypeOK

LEMMA NetUnchanged ==
  ASSUME NetTypeOK, UNCHANGED netVars
  PROVE  NetTypeOK'
BY DEF NetTypeOK, netVars

\* The places a step goes to, and nowhere else.
LEMMA PlaceFacts ==
  ASSUME ProcTypeOK, NEW p \in Hosts, NEW l, NEW o
  PROVE  /\ Goto(p, l) => pc'[p] = l /\ \A q \in Hosts \ {p} : pc'[q] = pc[q]
         /\ Finish(p, o) => pc'[p] = "exit" /\ \A q \in Hosts \ {p} : pc'[q] = pc[q]
BY DEF ProcTypeOK, Goto, Finish

LEMMA KillType ==
  ASSUME TypeInv, NEW p \in Hosts, Kill(p)
  PROVE  /\ ProcTypeOK' /\ NetTypeOK' /\ faults' \in 0..MaxFaults
         /\ pc'[p] = "gone"
         /\ \A q \in Hosts \ {p} : pc'[q] = pc[q]
         /\ UNCHANGED session
<1>1. ProcTypeOK /\ NetTypeOK /\ faults \in 0..MaxFaults
  BY KernelParts DEF TypeInv, TypeOK
<1>2. /\ Release(p) /\ outcome' = [outcome EXCEPT ![p] = "killed"]
      /\ faults' = faults + 1 /\ faults < MaxFaults
  BY DEF Kill, Fault
<1>3. /\ NetTypeOK' /\ pc' \in [Hosts -> Locations]
      /\ pc' = [pc EXCEPT ![p] = "gone"] /\ UNCHANGED <<terminal, session>>
  BY <1>1, <1>2, ReleaseType
<1>4. ProcTypeOK'
  BY <1>1, <1>2, <1>3 DEF ProcTypeOK, Outcomes
<1>5. faults' \in 0..MaxFaults
  BY <1>1, <1>2, KernelAssumption
<1>. QED
  BY <1>1, <1>3, <1>4, <1>5 DEF ProcTypeOK

LEMMA ExitType ==
  ASSUME TypeInv, NEW p \in Hosts, Exit(p)
  PROVE  /\ ProcTypeOK' /\ NetTypeOK' /\ faults' \in 0..MaxFaults
         /\ pc'[p] = "gone"
         /\ \A q \in Hosts \ {p} : pc'[q] = pc[q]
         /\ UNCHANGED session
<1>1. ProcTypeOK /\ NetTypeOK /\ faults \in 0..MaxFaults
  BY KernelParts DEF TypeInv, TypeOK
<1>2. Release(p) /\ UNCHANGED <<outcome, faults>>
  BY DEF Exit
<1>3. /\ NetTypeOK' /\ pc' \in [Hosts -> Locations]
      /\ pc' = [pc EXCEPT ![p] = "gone"] /\ UNCHANGED <<terminal, session>>
  BY <1>1, <1>2, ReleaseType
<1>. QED
  BY <1>1, <1>2, <1>3 DEF ProcTypeOK

\* A failing call of the host itself.
LEMMA FaultFacts ==
  ASSUME faults \in 0..MaxFaults, Fault("call")
  PROVE  faults' \in 0..MaxFaults
BY KernelAssumption DEF Fault

-----------------------------------------------------------------------------
(* The client *)

LEMMA ClientType ==
  ASSUME TypeInv, NEW c \in Clients, ClientNext(c)
  PROVE  TypeInv'
<1>1. /\ ProcTypeOK /\ NetTypeOK /\ faults \in 0..MaxFaults
      /\ ClientTypeOK /\ ServerTypeOK /\ DestTypeOK /\ ReadyAt(c)
      /\ c \in Hosts /\ c \notin Servers /\ c \notin Dests
  BY KernelParts, ReadyParts, KernelAssumption DEF TypeInv, TypeOK
<1>2. UNCHANGED <<packet, clientIp, response>>
  BY DEF ClientNext, serverVars, destVars
<1>3. ServerTypeOK' /\ DestTypeOK'
  BY <1>1, <1>2 DEF ServerTypeOK, DestTypeOK
<1>. SUFFICES /\ ProcTypeOK' /\ NetTypeOK' /\ faults' \in 0..MaxFaults /\ ClientTypeOK'
              /\ OnlyAt(c) /\ ReadyAt(c)'
  BY <1>1, <1>3, StepType
<1>4. ASSUME UNCHANGED <<clientVars, session>>, \A q \in Hosts \ {c} : pc'[q] = pc[q],
             \/ pc'[c] \in {"exit", "gone"}
             \/ pc[c] \in {"connect", "send", "receive"}
      PROVE  ClientTypeOK' /\ OnlyAt(c) /\ ReadyAt(c)'
  BY <1>1, <1>2, <1>4 DEF ClientTypeOK, clientVars, OnlyAt, ReadyAt
<1>5. CASE ClientStart(c)
  <2>1. PICK n \in CommandLine[c] :
          \/ ~NamesAccepted(n) /\ Finish(c, "zero") /\ UNCHANGED clientVars
          \/ /\ NamesAccepted(n) /\ Goto(c, "connect")
             /\ serverHost' = [serverHost EXCEPT ![c] = n.server]
             /\ destHost' = [destHost EXCEPT ![c] = n.dest]
    BY <1>5 DEF ClientStart
  <2>2. NetTypeOK' /\ UNCHANGED <<terminal, faults, session>>
    BY <1>1, <1>5, NetUnchanged DEF ClientStart, netVars
  <2>3. CASE ~NamesAccepted(n)
    <3>1. Finish(c, "zero") /\ UNCHANGED clientVars
      BY <2>1, <2>3
    <3>2. ProcTypeOK'
      BY <1>1, <2>2, <3>1, FinishType, ProcType DEF Outcomes
    <3>. QED
      BY <1>1, <1>4, <2>2, <3>1, <3>2, PlaceFacts
  <2>4. CASE NamesAccepted(n)
    <3>1. /\ Goto(c, "connect")
          /\ serverHost' = [serverHost EXCEPT ![c] = n.server]
          /\ destHost' = [destHost EXCEPT ![c] = n.dest]
      BY <2>1, <2>4
    <3>2. ProcTypeOK'
      BY <1>1, <2>2, <3>1, GotoType, ProcType DEF Locations
    <3>3. n.server \in Hosts /\ n.dest \in Hosts
      <4>1. n \in Names
        BY <2>1, ClientAssumption
      <4>. QED
        BY <2>4, <4>1 DEF Names, NamesAccepted
    <3>4. pc'[c] = "connect" /\ \A q \in Hosts \ {c} : pc'[q] = pc[q]
      BY <1>1, <3>1, PlaceFacts
    <3>5. ClientTypeOK' /\ serverHost'[c] \in Hosts /\ destHost'[c] \in Hosts
      BY <1>1, <3>1, <3>3 DEF ClientTypeOK
    <3>6. OnlyAt(c)
      BY <1>1, <1>2, <2>2, <3>1, <3>4 DEF OnlyAt, ClientTypeOK
    <3>. QED
      BY <1>1, <2>2, <3>2, <3>4, <3>5, <3>6 DEF ReadyAt
  <2>. QED
    BY <2>3, <2>4
<1>6. CASE ClientConnect(c)
  <2>1. /\ At(c, "connect") /\ Connect(c, serverHost[c]) /\ Show(c, RequestPacket(c))
        /\ Goto(c, "send") /\ UNCHANGED <<clientVars, faults>>
    BY <1>6 DEF ClientConnect
  <2>2. RequestPacket(c) \in Seq(Cell)
    <3>1. Clear(HostOf[c]) \in Cell /\ Clear(destHost[c]) \in Cell /\ Clear("syn") \in Cell
      BY <1>1, <2>1, CellFacts, KernelAssumption DEF ReadyAt, At
    <3>. QED
      BY <3>1, CellFacts, ClientAssumption, CreatePacketsFacts, PacketsAreSeqs
         DEF RequestPacket
  <2>3. NetTypeOK' /\ UNCHANGED session
    BY <1>1, <2>1, ConnectType
  <2>4. ProcTypeOK'
    BY <1>1, <2>1, <2>2, ShowType, GotoType DEF ProcTypeOK, Locations
  <2>. QED
    BY <1>1, <1>4, <2>1, <2>3, <2>4, PlaceFacts DEF At
<1>7. CASE ClientConnectFails(c)
  <2>1. /\ At(c, "connect") /\ Finish(c, "error")
        /\ UNCHANGED <<clientVars, terminal, faults, netVars, session>>
    BY <1>7 DEF ClientConnectFails, netVars
  <2>2. ProcTypeOK' /\ NetTypeOK'
    BY <1>1, <2>1, FinishType, ProcType, NetUnchanged DEF Outcomes
  <2>. QED
    BY <1>1, <1>4, <2>1, <2>2, PlaceFacts
<1>8. CASE ClientSend(c)
  <2>1. /\ At(c, "send") /\ Goto(c, "receive") /\ UNCHANGED <<clientVars, terminal, faults>>
        /\ SendUp(c, RequestBytes(RequestPacket(c), Request)) \/ SendUpFails(c)
    BY <1>8 DEF ClientSend
  <2>2. RequestBytes(RequestPacket(c), Request) \in Seq(Cell)
    <3>1. Clear(HostOf[c]) \in Cell /\ Clear(destHost[c]) \in Cell /\ Clear("syn") \in Cell
      BY <1>1, <2>1, CellFacts, KernelAssumption DEF ReadyAt, At
    <3>2. RequestPacket(c) \in Packets
      BY <3>1, CellFacts, ClientAssumption, CreatePacketsFacts DEF RequestPacket
    <3>. QED
      BY <3>2, ClientAssumption, RequestBytesFacts
  <2>3. NetTypeOK' /\ UNCHANGED session
    BY <1>1, <2>1, <2>2, SendUpType, FailedCallType DEF SendUp, SendUpFails, listenVars
  <2>4. ProcTypeOK'
    BY <1>1, <2>1, GotoType, ProcType DEF Locations
  <2>. QED
    BY <1>1, <1>4, <2>1, <2>3, <2>4, PlaceFacts DEF At
<1>9. CASE ClientReceive(c)
  <2>1. PICK k \in 0..PacketLen :
          /\ ReadDown(c, k, PacketLen)
          /\ Show(c, Decrypt(Received(down[c], k, PacketLen)))
    BY <1>9 DEF ClientReceive
  <2>2. At(c, "receive") /\ Finish(c, "zero") /\ UNCHANGED <<clientVars, faults>>
    BY <1>9 DEF ClientReceive
  <2>3. NetTypeOK' /\ UNCHANGED session /\ k \in 0..Len(down[c]) /\ down[c] \in Seq(Cell)
    BY <1>1, <2>1, ReadDownType, PacketSizes DEF ReadDown, listenVars, NetTypeOK
  <2>4. Decrypt(Received(down[c], k, PacketLen)) \in Seq(Cell)
    <3>1. Received(down[c], k, PacketLen) \in Packets
      BY <2>3, ReceivedFacts, PacketSizes DEF Packets
    <3>. QED
      BY <3>1, DecryptFacts, PacketsAreSeqs
  <2>5. ProcTypeOK'
    BY <1>1, <2>1, <2>2, <2>4, ShowType, FinishType DEF ProcTypeOK, Outcomes
  <2>. QED
    BY <1>1, <1>4, <2>2, <2>3, <2>5, PlaceFacts
<1>10. CASE ClientReceiveFails(c)
  <2>1. /\ At(c, "receive") /\ ReadDownFails(c) /\ Finish(c, "crashed")
        /\ UNCHANGED <<clientVars, terminal, faults>>
    BY <1>10 DEF ClientReceiveFails
  <2>2. NetTypeOK' /\ UNCHANGED session
    BY <1>1, <2>1, FailedCallType DEF ReadDownFails, listenVars
  <2>3. ProcTypeOK'
    BY <1>1, <2>1, FinishType, ProcType DEF Outcomes
  <2>. QED
    BY <1>1, <1>4, <2>1, <2>2, <2>3, PlaceFacts
<1>11. CASE ClientExit(c)
  BY <1>1, <1>4, <1>11, ExitType DEF ClientExit
<1>12. CASE ClientFault(c)
  <2>1. /\ Fault("call") /\ UNCHANGED <<clientVars, terminal, netVars, session>>
        /\ \/ At(c, "connect") /\ Finish(c, "error")
           \/ At(c, "send") /\ Goto(c, "receive")
           \/ At(c, "receive") /\ Finish(c, "crashed")
    BY <1>12 DEF ClientFault, netVars
  <2>2. ProcTypeOK' /\ NetTypeOK' /\ faults' \in 0..MaxFaults
    BY <1>1, <2>1, FinishType, GotoType, ProcType, NetUnchanged, FaultFacts
       DEF Outcomes, Locations
  <2>. QED
    BY <1>1, <1>4, <2>1, <2>2, PlaceFacts DEF At
<1>13. CASE Kill(c) /\ UNCHANGED clientVars
  BY <1>1, <1>4, <1>13, KillType
<1>. QED
  BY <1>5, <1>6, <1>7, <1>8, <1>9, <1>10, <1>11, <1>12, <1>13 DEF ClientNext, ClientStep

-----------------------------------------------------------------------------
(* The server *)

LEMMA ServerType ==
  ASSUME TypeInv, NEW s \in Servers, ServerNext(s)
  PROVE  TypeInv'
<1>1. /\ ProcTypeOK /\ NetTypeOK /\ faults \in 0..MaxFaults
      /\ ClientTypeOK /\ ServerTypeOK /\ DestTypeOK /\ ReadyAt(s)
      /\ s \in Hosts /\ s \notin Clients /\ s \notin Dests
  BY KernelParts, ReadyParts, KernelAssumption DEF TypeInv, TypeOK
<1>2. UNCHANGED <<serverHost, destHost, response>>
  BY DEF ServerNext, clientVars, destVars
<1>3. ClientTypeOK' /\ DestTypeOK'
  BY <1>1, <1>2 DEF ClientTypeOK, DestTypeOK
<1>. SUFFICES /\ ProcTypeOK' /\ NetTypeOK' /\ faults' \in 0..MaxFaults /\ ServerTypeOK'
              /\ OnlyAt(s) /\ ReadyAt(s)'
  BY <1>1, <1>3, StepType
<1>4. ASSUME UNCHANGED <<serverVars, session>>, \A q \in Hosts \ {s} : pc'[q] = pc[q],
             \/ pc'[s] \in {"exit", "gone", "accept"}
             \/ pc[s] = "dial" /\ pc'[s] = "forward"
             \/ pc[s] = "forward" /\ pc'[s] = "receiveReply"
      PROVE  ServerTypeOK' /\ OnlyAt(s) /\ ReadyAt(s)'
  BY <1>1, <1>2, <1>4 DEF ServerTypeOK, serverVars, OnlyAt, ReadyAt
<1>5. CASE ServerStart(s)
  <2>1. /\ \/ Listen(s) /\ Goto(s, "accept")
           \/ Finish(s, "zero") /\ UNCHANGED listenVars
        /\ UNCHANGED <<serverVars, terminal, linkVars, faults>>
    BY <1>5 DEF ServerStart
  <2>2. NetTypeOK' /\ UNCHANGED session
    BY <1>1, <2>1, ListenType, NetUnchanged DEF Listen, listenVars, linkVars, netVars
  <2>3. ProcTypeOK'
    BY <1>1, <2>1, GotoType, FinishType, ProcType DEF Locations, Outcomes
  <2>. QED
    BY <1>1, <1>4, <2>1, <2>2, <2>3, PlaceFacts
<1>6. CASE ServerAccept(s)
  <2>1. /\ Accept(s) /\ Goto(s, "receive")
        /\ UNCHANGED <<serverVars, terminal, linkVars, faults>>
    BY <1>6 DEF ServerAccept
  <2>2. /\ NetTypeOK' /\ session'[s] \in Hosts
        /\ \A q \in Hosts \ {s} : session'[q] = session[q]
    BY <1>1, <2>1, AcceptType DEF NetTypeOK
  <2>3. ProcTypeOK'
    BY <1>1, <2>1, GotoType, ProcType DEF Locations
  <2>4. pc'[s] = "receive" /\ \A q \in Hosts \ {s} : pc'[q] = pc[q]
    BY <1>1, <2>1, PlaceFacts
  <2>5. ServerTypeOK' /\ OnlyAt(s) /\ ReadyAt(s)'
    BY <1>1, <1>2, <2>1, <2>2, <2>4 DEF ServerTypeOK, serverVars, OnlyAt, ReadyAt
  <2>. QED
    BY <1>1, <2>1, <2>2, <2>3, <2>5
<1>7. CASE ServerReceive(s)
  <2>1. At(s, "receive") /\ Goto(s, "dial") /\ UNCHANGED faults
    BY <1>7 DEF ServerReceive
  <2>. DEFINE Got(k) == Decrypt(Received(up[session[s]], k, PacketLen))
  <2>2. PICK k \in 0..PacketLen :
          /\ ReadUp(s, k, PacketLen)
          /\ Show(s, Got(k))
          /\ clientIp' = [clientIp EXCEPT ![s] = SaveClientIp(Got(k))]
          /\ packet' = [packet EXCEPT ![s] = ServHandlePkt(Got(k), HostOf[s])]
    BY <1>7 DEF ServerReceive
  <2>3. session[s] \in Hosts /\ up[session[s]] \in Seq(Cell)
    BY <1>1, <2>1 DEF ReadyAt, At, NetTypeOK
  <2>4. NetTypeOK' /\ UNCHANGED session /\ k \in 0..Len(up[session[s]])
    BY <1>1, <2>2, <2>3, ReadUpType, PacketSizes DEF ReadUp, listenVars
  <2>5. Got(k) \in Packets
    <3>1. Received(up[session[s]], k, PacketLen) \in Packets
      BY <2>3, <2>4, ReceivedFacts, PacketSizes DEF Packets
    <3>. QED
      BY <3>1, DecryptFacts
  <2>. HIDE DEF Got
  <2>6. /\ Got(k) \in Seq(Cell) /\ SaveClientIp(Got(k)) \in Cell
        /\ ServHandlePkt(Got(k), HostOf[s]) \in BarePackets
    BY <1>1, <2>5, PacketsAreSeqs, PacketSizes, ServHandlePktFacts, KernelAssumption DEF SaveClientIp, Packets
  <2>7. ProcTypeOK'
    BY <1>1, <2>1, <2>2, <2>6, ShowType, GotoType DEF ProcTypeOK, Locations
  <2>8. pc'[s] = "dial" /\ \A q \in Hosts \ {s} : pc'[q] = pc[q]
    BY <1>1, <2>1, PlaceFacts
  <2>9. ServerTypeOK' /\ packet'[s] \in BarePackets /\ \A q \in Servers \ {s} : packet'[q] = packet[q]
    BY <1>1, <2>2, <2>6 DEF ServerTypeOK
  <2>10. OnlyAt(s) /\ ReadyAt(s)'
    BY <1>1, <1>2, <2>3, <2>4, <2>8, <2>9 DEF OnlyAt, ReadyAt
  <2>. QED
    BY <1>1, <2>1, <2>4, <2>7, <2>9, <2>10
<1>8. CASE ServerReceiveFails(s)
  <2>1. /\ At(s, "receive") /\ ReadUpFails(s) /\ Finish(s, "error")
        /\ UNCHANGED <<serverVars, terminal, faults>>
    BY <1>8 DEF ServerReceiveFails
  <2>2. NetTypeOK' /\ UNCHANGED session
    BY <1>1, <2>1, FailedCallType DEF ReadUpFails, listenVars
  <2>3. ProcTypeOK'
    BY <1>1, <2>1, FinishType, ProcType DEF Outcomes
  <2>. QED
    BY <1>1, <1>4, <2>1, <2>2, <2>3, PlaceFacts
<1>9. CASE ServerDial(s)
  <2>1. /\ At(s, "dial") /\ Connect(s, DestOf(s)) /\ Goto(s, "forward")
        /\ UNCHANGED <<serverVars, terminal, faults>>
    BY <1>9 DEF ServerDial
  <2>2. NetTypeOK' /\ UNCHANGED session
    BY <1>1, <2>1, ConnectType
  <2>3. ProcTypeOK'
    BY <1>1, <2>1, GotoType, ProcType DEF Locations
  <2>. QED
    BY <1>1, <1>4, <2>1, <2>2, <2>3, PlaceFacts DEF At
<1>10. CASE ServerDialFails(s)
  <2>1. /\ Finish(s, "error") /\ UNCHANGED <<serverVars, terminal, netVars, session, faults>>
    BY <1>10 DEF ServerDialFails, netVars
  <2>2. ProcTypeOK' /\ NetTypeOK'
    BY <1>1, <2>1, FinishType, ProcType, NetUnchanged DEF Outcomes
  <2>. QED
    BY <1>1, <1>4, <2>1, <2>2, PlaceFacts
<1>11. CASE ServerForward(s)
  <2>1. /\ At(s, "forward") /\ UNCHANGED <<serverVars, terminal, faults>>
        /\ \/ SendUp(s, packet[s]) /\ Goto(s, "receiveReply")
           \/ SendUpFails(s) /\ Finish(s, "error")
    BY <1>11 DEF ServerForward
  <2>2. packet[s] \in Seq(Cell)
    BY <1>1, <2>1, PacketsAreSeqs DEF ReadyAt, At
  <2>3. NetTypeOK' /\ UNCHANGED session
    BY <1>1, <2>1, <2>2, SendUpType, FailedCallType DEF SendUp, SendUpFails, listenVars
  <2>4. ProcTypeOK'
    BY <1>1, <2>1, GotoType, FinishType, ProcType DEF Locations, Outcomes
  <2>. QED
    BY <1>1, <1>4, <2>1, <2>3, <2>4, PlaceFacts DEF At
<1>12. CASE ServerReceiveReply(s)
  <2>1. At(s, "receiveReply") /\ Goto(s, "reply") /\ UNCHANGED <<clientIp, faults>>
    BY <1>12 DEF ServerReceiveReply
  <2>. DEFINE Got(k) == Received(down[s], k, PacketLen - 1)
              Answer(k) == ServHandlePktDest(Encapsulate(Got(k)), clientIp[s])
  <2>2. PICK k \in 0..PacketLen :
          /\ ReadDown(s, k, PacketLen)
          /\ Show(s, Answer(k))
          /\ packet' = [packet EXCEPT ![s] = Answer(k)]
    BY <1>12 DEF ServerReceiveReply
  <2>3. NetTypeOK' /\ UNCHANGED session /\ k \in 0..Len(down[s]) /\ down[s] \in Seq(Cell)
    BY <1>1, <2>2, ReadDownType, PacketSizes DEF ReadDown, listenVars, NetTypeOK
  <2>4. Answer(k) \in Packets
    <3>1. Got(k) \in BarePackets
      BY <2>3, ReceivedFacts, PacketsAreSeqs DEF BarePackets
    <3>2. clientIp[s] \in Cell
      BY <1>1 DEF ServerTypeOK
    <3>. HIDE DEF Got
    <3>. QED
      BY <3>1, <3>2, EncapsulateFacts, ServHandlePktDestFacts
  <2>. HIDE DEF Answer
  <2>5. Answer(k) \in Seq(Cell)
    BY <2>4, PacketsAreSeqs
  <2>6. ProcTypeOK'
    BY <1>1, <2>1, <2>2, <2>5, ShowType, GotoType DEF ProcTypeOK, Locations
  <2>7. pc'[s] = "reply" /\ \A q \in Hosts \ {s} : pc'[q] = pc[q]
    BY <1>1, <2>1, PlaceFacts
  <2>8. ServerTypeOK' /\ packet'[s] \in Packets /\ \A q \in Servers \ {s} : packet'[q] = packet[q]
    BY <1>1, <2>1, <2>2, <2>4 DEF ServerTypeOK
  <2>9. OnlyAt(s) /\ ReadyAt(s)'
    BY <1>1, <1>2, <2>1, <2>3, <2>7, <2>8 DEF OnlyAt, ReadyAt, At
  <2>. QED
    BY <1>1, <2>1, <2>3, <2>6, <2>8, <2>9
<1>13. CASE ServerReceiveReplyFails(s)
  <2>1. /\ ReadDownFails(s) /\ Finish(s, "crashed") /\ UNCHANGED <<serverVars, terminal, faults>>
    BY <1>13 DEF ServerReceiveReplyFails
  <2>2. NetTypeOK' /\ UNCHANGED session
    BY <1>1, <2>1, FailedCallType DEF ReadDownFails, listenVars
  <2>3. ProcTypeOK'
    BY <1>1, <2>1, FinishType, ProcType DEF Outcomes
  <2>. QED
    BY <1>1, <1>4, <2>1, <2>2, <2>3, PlaceFacts
<1>14. CASE ServerReply(s)
  <2>1. /\ At(s, "reply") /\ Finish(s, "zero") /\ UNCHANGED <<serverVars, terminal, faults>>
        /\ SendDown(s, ServCliEncrypt(packet[s])) \/ SendDownFails(s)
    BY <1>14 DEF ServerReply
  <2>2. session[s] \in Hosts /\ ServCliEncrypt(packet[s]) \in Seq(Cell)
    BY <1>1, <2>1, ServCliEncryptFacts DEF ReadyAt, At
  <2>3. NetTypeOK' /\ UNCHANGED session
    BY <1>1, <2>1, <2>2, SendDownType, FailedCallType DEF SendDown, SendDownFails, listenVars
  <2>4. ProcTypeOK'
    BY <1>1, <2>1, FinishType, ProcType DEF Outcomes
  <2>. QED
    BY <1>1, <1>4, <2>1, <2>3, <2>4, PlaceFacts
<1>15. CASE ServerExit(s)
  BY <1>1, <1>4, <1>15, ExitType DEF ServerExit
<1>16. CASE ServerFault(s)
  <2>1. /\ Fault("call") /\ UNCHANGED <<serverVars, terminal, netVars, session>>
        /\ \E o \in Outcomes : Finish(s, o)
    BY <1>16 DEF ServerFault, netVars, Outcomes
  <2>2. PICK o \in Outcomes : Finish(s, o)
    BY <2>1
  <2>3. ProcTypeOK' /\ NetTypeOK' /\ faults' \in 0..MaxFaults
    BY <1>1, <2>1, <2>2, FinishType, ProcType, NetUnchanged, FaultFacts
  <2>. QED
    BY <1>1, <1>4, <2>1, <2>2, <2>3, PlaceFacts
<1>17. CASE Kill(s) /\ UNCHANGED serverVars
  BY <1>1, <1>4, <1>17, KillType
<1>. QED
  BY <1>5, <1>6, <1>7, <1>8, <1>9, <1>10, <1>11, <1>12, <1>13, <1>14, <1>15, <1>16, <1>17
     DEF ServerNext, ServerStep

-----------------------------------------------------------------------------
(* The destination *)

LEMMA DestType ==
  ASSUME TypeInv, NEW d \in Dests, DestNext(d)
  PROVE  TypeInv'
<1>1. /\ ProcTypeOK /\ NetTypeOK /\ faults \in 0..MaxFaults
      /\ ClientTypeOK /\ ServerTypeOK /\ DestTypeOK /\ ReadyAt(d)
      /\ d \in Hosts /\ d \notin Clients /\ d \notin Servers
  BY KernelParts, ReadyParts, KernelAssumption DEF TypeInv, TypeOK
<1>2. UNCHANGED <<serverHost, destHost, packet, clientIp>>
  BY DEF DestNext, clientVars, serverVars
<1>3. ClientTypeOK' /\ ServerTypeOK'
  BY <1>1, <1>2 DEF ClientTypeOK, ServerTypeOK
<1>. SUFFICES /\ ProcTypeOK' /\ NetTypeOK' /\ faults' \in 0..MaxFaults /\ DestTypeOK'
              /\ OnlyAt(d) /\ ReadyAt(d)'
  BY <1>1, <1>3, StepType
<1>4. ASSUME UNCHANGED <<destVars, session>>, \A q \in Hosts \ {d} : pc'[q] = pc[q],
             pc'[d] \in {"exit", "gone", "accept"}
      PROVE  DestTypeOK' /\ OnlyAt(d) /\ ReadyAt(d)'
  BY <1>1, <1>2, <1>4 DEF DestTypeOK, destVars, OnlyAt, ReadyAt
<1>5. CASE DestStart(d)
  <2>1. /\ \/ Listen(d) /\ Goto(d, "accept")
           \/ Finish(d, "zero") /\ UNCHANGED listenVars
        /\ UNCHANGED <<destVars, terminal, linkVars, faults>>
    BY <1>5 DEF DestStart
  <2>2. NetTypeOK' /\ UNCHANGED session
    BY <1>1, <2>1, ListenType, NetUnchanged DEF Listen, listenVars, linkVars, netVars
  <2>3. ProcTypeOK'
    BY <1>1, <2>1, GotoType, FinishType, ProcType DEF Locations, Outcomes
  <2>. QED
    BY <1>1, <1>4, <2>1, <2>2, <2>3, PlaceFacts
<1>6. CASE DestAccept(d)
  <2>1. /\ Accept(d) /\ Goto(d, "receive")
        /\ UNCHANGED <<destVars, terminal, linkVars, faults>>
    BY <1>6 DEF DestAccept
  <2>2. /\ NetTypeOK' /\ session'[d] \in Hosts
        /\ \A q \in Hosts \ {d} : session'[q] = session[q]
    BY <1>1, <2>1, AcceptType DEF NetTypeOK
  <2>3. ProcTypeOK'
    BY <1>1, <2>1, GotoType, ProcType DEF Locations
  <2>4. pc'[d] = "receive" /\ \A q \in Hosts \ {d} : pc'[q] = pc[q]
    BY <1>1, <2>1, PlaceFacts
  <2>5. DestTypeOK' /\ OnlyAt(d) /\ ReadyAt(d)'
    BY <1>1, <1>2, <2>1, <2>2, <2>4 DEF DestTypeOK, destVars, OnlyAt, ReadyAt
  <2>. QED
    BY <1>1, <2>1, <2>2, <2>3, <2>5
<1>7. CASE DestReceive(d)
  <2>1. At(d, "receive") /\ Goto(d, "reply") /\ UNCHANGED faults
    BY <1>7 DEF DestReceive
  <2>. DEFINE Got(k) == Received(up[session[d]], k, PacketLen - 1)
              Answer(k) == Decapsulate(CreatePacketsDes(Clear(HostOf[d]), Got(k)[SrcAt - 1],
                                                        Clear("ack"), Reply))
  <2>2. PICK k \in 0..PacketLen :
          /\ ReadUp(d, k, PacketLen - 1)
          /\ response' = [response EXCEPT ![d] = Answer(k)]
          /\ terminal' = [terminal EXCEPT ![d] = @ \o <<Got(k), Answer(k)>>]
    BY <1>7 DEF DestReceive
  <2>3. session[d] \in Hosts /\ up[session[d]] \in Seq(Cell)
    BY <1>1, <2>1 DEF ReadyAt, At, NetTypeOK
  <2>4. NetTypeOK' /\ UNCHANGED session /\ k \in 0..Len(up[session[d]])
    BY <1>1, <2>2, <2>3, ReadUpType, PacketsAreSeqs DEF ReadUp, listenVars
  <2>5. Got(k) \in BarePackets
    BY <2>3, <2>4, ReceivedFacts, PacketsAreSeqs DEF BarePackets
  <2>6. Answer(k) \in BarePackets
    <3>1. Got(k)[SrcAt - 1] \in Cell
      BY <2>5, PacketSizes DEF BarePackets
    <3>. HIDE DEF Got
    <3>2. CreatePacketsDes(Clear(HostOf[d]), Got(k)[SrcAt - 1], Clear("ack"), Reply) \in Packets
      BY <1>1, <3>1, CellFacts, CreatePacketsDesFacts, DestinationAssumption, KernelAssumption
    <3>. QED
      BY <3>2, DecapsulateFacts
  <2>. HIDE DEF Got, Answer
  <2>7. Got(k) \in Seq(Cell) /\ Answer(k) \in Seq(Cell)
    BY <2>5, <2>6, PacketsAreSeqs
  <2>8. ProcTypeOK'
    <3>1. terminal[d] \o <<Got(k), Answer(k)>> \in Seq(Seq(Cell))
      BY <1>1, <2>7, ConcatProperties DEF ProcTypeOK
    <3>2. terminal' \in [Hosts -> Seq(Seq(Cell))]
      BY <1>1, <2>2, <3>1 DEF ProcTypeOK
    <3>. QED
      BY <1>1, <2>1, <3>2, GotoType DEF ProcTypeOK, Locations
  <2>9. pc'[d] = "reply" /\ \A q \in Hosts \ {d} : pc'[q] = pc[q]
    BY <1>1, <2>1, PlaceFacts
  <2>10. DestTypeOK' /\ response'[d] \in BarePackets /\ \A q \in Dests \ {d} : response'[q] = response[q]
    BY <1>1, <2>2, <2>6 DEF DestTypeOK
  <2>11. OnlyAt(d) /\ ReadyAt(d)'
    BY <1>1, <1>2, <2>3, <2>4, <2>9, <2>10 DEF OnlyAt, ReadyAt
  <2>. QED
    BY <1>1, <2>1, <2>4, <2>8, <2>10, <2>11
<1>8. CASE DestReceiveFails(d)
  <2>1. /\ At(d, "receive") /\ ReadUpFails(d) /\ Finish(d, "error")
        /\ UNCHANGED <<destVars, terminal, faults>>
    BY <1>8 DEF DestReceiveFails
  <2>2. NetTypeOK' /\ UNCHANGED session
    BY <1>1, <2>1, FailedCallType DEF ReadUpFails, listenVars
  <2>3. ProcTypeOK'
    BY <1>1, <2>1, FinishType, ProcType DEF Outcomes
  <2>. QED
    BY <1>1, <1>4, <2>1, <2>2, <2>3, PlaceFacts
<1>9. CASE DestReply(d)
  <2>1. /\ At(d, "reply") /\ UNCHANGED <<destVars, terminal, faults>>
        /\ \/ SendDown(d, ReplyBytes(response[d], Reply)) /\ Finish(d, "zero")
           \/ SendDownFails(d) /\ Finish(d, "error")
    BY <1>9 DEF DestReply
  <2>2. session[d] \in Hosts /\ ReplyBytes(response[d], Reply) \in Seq(Cell)
    BY <1>1, <2>1, ReplyBytesFacts, DestinationAssumption DEF ReadyAt, At
  <2>3. NetTypeOK' /\ UNCHANGED session
    BY <1>1, <2>1, <2>2, SendDownType, FailedCallType DEF SendDown, SendDownFails, listenVars
  <2>4. ProcTypeOK'
    BY <1>1, <2>1, FinishType, ProcType DEF Outcomes
  <2>. QED
    BY <1>1, <1>4, <2>1, <2>3, <2>4, PlaceFacts
<1>10. CASE DestExit(d)
  BY <1>1, <1>4, <1>10, ExitType DEF DestExit
<1>11. CASE DestFault(d)
  <2>1. /\ Fault("call") /\ UNCHANGED <<destVars, terminal, netVars, session>>
        /\ Finish(d, "error")
    BY <1>11 DEF DestFault, netVars
  <2>2. ProcTypeOK' /\ NetTypeOK' /\ faults' \in 0..MaxFaults
    BY <1>1, <2>1, FinishType, ProcType, NetUnchanged, FaultFacts DEF Outcomes
  <2>. QED
    BY <1>1, <1>4, <2>1, <2>2, PlaceFacts
<1>12. CASE Kill(d) /\ UNCHANGED destVars
  BY <1>1, <1>4, <1>12, KillType
<1>. QED
  BY <1>5, <1>6, <1>7, <1>8, <1>9, <1>10, <1>11, <1>12 DEF DestNext, DestStep

-----------------------------------------------------------------------------
(* The specification *)

LEMMA InitType == Init => TypeInv
<1>. SUFFICES ASSUME Init PROVE TypeInv
  OBVIOUS
<1>1. KernelTypeOK
  <2>1. <<>> \in Seq(Seq(Cell)) /\ <<>> \in Seq(Hosts) /\ <<>> \in Seq(Cell)
    OBVIOUS
  <2>. QED
    BY <2>1, KernelAssumption
       DEF Init, KernelInit, KernelTypeOK, Locations, Outcomes, Ends
<1>2. ClientTypeOK /\ ServerTypeOK /\ DestTypeOK
  BY CellFacts DEF Init, ClientInit, ServerInit, DestInit,
                   ClientTypeOK, ServerTypeOK, DestTypeOK
<1>3. Ready
  BY KernelAssumption DEF Init, KernelInit, Ready
<1>. QED
  BY <1>1, <1>2, <1>3 DEF TypeInv, TypeOK

LEMMA StutterType ==
  ASSUME TypeInv, UNCHANGED vars
  PROVE  TypeInv'
<1>1. UNCHANGED <<kernelVars, clientVars, serverVars, destVars>>
  BY DEF vars
<1>2. KernelTypeOK'
  BY <1>1 DEF TypeInv, TypeOK, KernelTypeOK, kernelVars
<1>3. ClientTypeOK' /\ ServerTypeOK' /\ DestTypeOK'
  BY <1>1 DEF TypeInv, TypeOK, ClientTypeOK, ServerTypeOK, DestTypeOK,
              clientVars, serverVars, destVars
<1>4. Ready'
  BY <1>1 DEF TypeInv, Ready, kernelVars, clientVars, serverVars, destVars
<1>. QED
  BY <1>2, <1>3, <1>4 DEF TypeInv, TypeOK

\* In every behaviour every variable keeps its shape: no program sends from a
\* buffer that holds no packet, reads a connection it has not accepted, or
\* builds a packet of another size (client.c:59-119, server.c:110-198,
\* destination.c:68-127), whatever is killed or fails and however recv cuts
\* what was sent.
THEOREM TypeCorrect == Spec => []TypeOK
<1>1. Init => TypeInv
  BY InitType
<1>2. TypeInv /\ [Next]_vars => TypeInv'
  BY ClientType, ServerType, DestType, StutterType DEF Next
<1>3. TypeInv => TypeOK
  BY DEF TypeInv
<1>. QED
  BY <1>1, <1>2, <1>3, PTL DEF Spec

-----------------------------------------------------------------------------
(* Secrecy *)

\* Secrecy, for the connections and the bytes in flight.
Streams ==
  /\ TunnelEncrypted /\ ServesClients
  /\ \A s \in Servers : AllPlain(up[s]) /\ AllPlain(down[s])

\* Secrecy, for one process.
SecretAt(p) ==
  /\ p \in Servers =>
       /\ pc[p] = "dial" => session[p] \in Clients \/ DestOf(p) = Nobody
       /\ pc[p] \in {"dial", "forward"} /\ session[p] \in Clients => AllPlain(packet[p])
       /\ pc[p] \in {"dial", "forward", "receiveReply"} /\ session[p] \in Clients =>
            IsPlain(clientIp[p])
       /\ pc[p] = "reply" => AllPlain(packet[p])
  /\ p \in Dests => (pc[p] = "reply" /\ session[p] \in Servers => AllPlain(response[p]))

\* Wiring, for one process and for the bytes no connection carries.
PlaceAt(p) ==
  /\ p \in Clients => /\ pc[p] \in {"start", "connect"} => peer[p] = Nobody
                      /\ pc[p] \in {"send", "receive"} => peer[p] # Nobody
  /\ p \in Servers =>
       /\ pc[p] \in {"start", "accept", "receive", "dial"} => peer[p] = Nobody
       /\ pc[p] \in {"forward", "receiveReply", "reply"} => peer[p] # Nobody
Silent == \A h \in Hosts : peer[h] = Nobody => up[h] = <<>> /\ down[h] = <<>>

LEMMA SecrecyParts ==
  /\ Secrecy <=> Streams /\ \A p \in Hosts : SecretAt(p)
  /\ Secrecy' <=> Streams' /\ \A p \in Hosts : SecretAt(p)'
BY KernelAssumption DEF Secrecy, Streams, SecretAt

LEMMA SecrecyStep ==
  ASSUME Secrecy, NEW p \in Hosts, OnlyAt(p),
         \A q \in Servers \ {p} : clientIp'[q] = clientIp[q],
         Streams', SecretAt(p)'
  PROVE  Secrecy'
<1>1. \A q \in Hosts \ {p} : SecretAt(q)'
  <2>1. \A q \in Hosts : SecretAt(q)
    BY SecrecyParts
  <2>. QED
    BY <2>1 DEF OnlyAt, SecretAt, DestOf
<1>. QED
  BY <1>1, SecrecyParts

LEMMA WiringParts ==
  Wiring => Silent /\ \A p \in Hosts : PlaceAt(p)
BY KernelAssumption DEF Wiring, Silent, PlaceAt

\* A step that makes or accepts no connection.
LEMMA WiringStep ==
  ASSUME Wiring, NEW p \in Hosts,
         UNCHANGED <<peer, session>>,
         listening' \subseteq Servers \cup Dests,
         \A h \in Hosts : queue'[h] = queue[h] \/ queue'[h] = <<>>,
         \A q \in Hosts \ {p} : pc'[q] = pc[q],
         PlaceAt(p)', Silent'
  PROVE  Wiring'
<1>1. \A q \in Hosts \ {p} : PlaceAt(q)'
  BY WiringParts DEF PlaceAt
<1>2. \A h \in Hosts : \A i \in 1..Len(queue'[h]) : peer'[queue'[h][i]] = h
  BY DEF Wiring
<1>3. /\ \A h \in Hosts : session'[h] # Nobody => peer'[session'[h]] = h
      /\ \A h \in Hosts \ (Clients \cup Servers) : peer'[h] = Nobody
  BY DEF Wiring
<1>. QED
  BY <1>1, <1>2, <1>3, KernelAssumption DEF Wiring, PlaceAt, Silent

\* Where the other end of an accepted connection can be.
LEMMA SessionFacts ==
  ASSUME TypeInv, Wiring, NEW h \in Hosts, session[h] \in Hosts
  PROVE  /\ peer[session[h]] = h
         /\ session[h] \in Clients \cup Servers
BY KernelAssumption DEF Wiring

-----------------------------------------------------------------------------
(* What the calls do to the bytes in flight *)

LEMMA ConcatFacts ==
  ASSUME NEW a \in Seq(Cell), NEW b \in Seq(Cell)
  PROVE  /\ AllPlain(a) /\ AllPlain(b) => AllPlain(a \o b)
         /\ AllHidden(a) /\ AllHidden(b) => AllHidden(a \o b)
<1>1. /\ Len(a) \in Nat /\ Len(b) \in Nat
      /\ Len(a \o b) = Len(a) + Len(b)
      /\ \A i \in 1..(Len(a) + Len(b)) :
           (a \o b)[i] = IF i <= Len(a) THEN a[i] ELSE b[i - Len(a)]
  BY ConcatProperties
<1>2. \A i \in 1..(Len(a) + Len(b)) : i \in 1..Len(a) \/ i - Len(a) \in 1..Len(b)
  BY <1>1
<1>. QED
  BY <1>1, <1>2 DEF AllPlain, AllHidden

\* What is appended must be hidden in the tunnel and plain behind a server.
LEMMA SendUpStreams ==
  ASSUME NetTypeOK, Streams, Silent, NEW p \in Hosts, peer[p] # Nobody,
         NEW bytes \in Seq(Cell), SendUp(p, bytes),
         p \in Clients /\ peer[p] \in Servers => AllHidden(bytes),
         p \in Servers => AllPlain(bytes)
  PROVE  Streams' /\ Silent'
<1>1. /\ up' = [up EXCEPT ![p] = up[p] \o bytes] \/ up' = up
      /\ UNCHANGED <<peer, session, down>>
  BY DEF SendUp, listenVars
<1>2. up[p] \in Seq(Cell)
  BY DEF NetTypeOK
<1>3. /\ AllPlain(up[p]) /\ AllPlain(bytes) => AllPlain(up[p] \o bytes)
      /\ AllHidden(up[p]) /\ AllHidden(bytes) => AllHidden(up[p] \o bytes)
  BY <1>2, ConcatFacts
<1>4. Streams'
  BY <1>1, <1>3, KernelAssumption DEF Streams, TunnelEncrypted, ServesClients, NetTypeOK
<1>. QED
  BY <1>1, <1>4 DEF Silent, NetTypeOK

LEMMA SendDownStreams ==
  ASSUME NetTypeOK, Streams, Silent, NEW h \in Hosts,
         session[h] \in Hosts, peer[session[h]] # Nobody,
         NEW bytes \in Seq(Cell), SendDown(h, bytes),
         session[h] \in Clients /\ peer[session[h]] \in Servers => AllHidden(bytes),
         session[h] \in Servers => AllPlain(bytes)
  PROVE  Streams' /\ Silent'
<1>1. /\ down' = [down EXCEPT ![session[h]] = down[session[h]] \o bytes] \/ down' = down
      /\ UNCHANGED <<peer, session, up>>
  BY DEF SendDown, listenVars
<1>2. down[session[h]] \in Seq(Cell)
  BY DEF NetTypeOK
<1>3. /\ AllPlain(down[session[h]]) /\ AllPlain(bytes) => AllPlain(down[session[h]] \o bytes)
      /\ AllHidden(down[session[h]]) /\ AllHidden(bytes) => AllHidden(down[session[h]] \o bytes)
  BY <1>2, ConcatFacts
<1>4. Streams'
  BY <1>1, <1>3, KernelAssumption DEF Streams, TunnelEncrypted, ServesClients, NetTypeOK
<1>. QED
  BY <1>1, <1>4 DEF Silent, NetTypeOK

LEMMA ReadDownStreams ==
  ASSUME NetTypeOK, Streams, Silent, NEW p \in Hosts, peer[p] # Nobody,
         NEW n \in Nat, NEW k, ReadDown(p, k, n)
  PROVE  Streams' /\ Silent'
<1>1. /\ down' = [down EXCEPT ![p] = DropFirst(down[p], k)] /\ UNCHANGED <<peer, session, up>>
      /\ k \in ReadCounts(down[p], downEnd[p], n) /\ down[p] \in Seq(Cell)
  BY DEF ReadDown, NetTypeOK, listenVars
<1>2. /\ AllPlain(down[p]) => AllPlain(DropFirst(down[p], k))
      /\ AllHidden(down[p]) => AllHidden(DropFirst(down[p], k))
  BY <1>1, ReadCountsFacts
<1>3. Streams'
  BY <1>1, <1>2, KernelAssumption DEF Streams, TunnelEncrypted, ServesClients, NetTypeOK
<1>. QED
  BY <1>1, <1>3 DEF Silent, NetTypeOK

LEMMA ReadUpStreams ==
  ASSUME NetTypeOK, Streams, Silent, NEW h \in Hosts,
         session[h] \in Hosts, peer[session[h]] # Nobody,
         NEW n \in Nat, NEW k, ReadUp(h, k, n)
  PROVE  Streams' /\ Silent'
<1>1. /\ up' = [up EXCEPT ![session[h]] = DropFirst(up[session[h]], k)]
      /\ UNCHANGED <<peer, session, down>>
      /\ k \in ReadCounts(up[session[h]], upEnd[session[h]], n)
      /\ up[session[h]] \in Seq(Cell)
  BY DEF ReadUp, NetTypeOK, listenVars
<1>2. /\ AllPlain(up[session[h]]) => AllPlain(DropFirst(up[session[h]], k))
      /\ AllHidden(up[session[h]]) => AllHidden(DropFirst(up[session[h]], k))
  BY <1>1, ReadCountsFacts
<1>3. Streams'
  BY <1>1, <1>2, KernelAssumption DEF Streams, TunnelEncrypted, ServesClients, NetTypeOK
<1>. QED
  BY <1>1, <1>3 DEF Silent, NetTypeOK

LEMMA SameStreams ==
  ASSUME Streams, Silent, UNCHANGED <<peer, session, up, down>>
  PROVE  Streams' /\ Silent'
BY DEF Streams, TunnelEncrypted, ServesClients, Silent

-----------------------------------------------------------------------------
(* Steps that leave the bytes in flight, the sessions and the peers alone *)

LEMMA QuietStep ==
  ASSUME IInv, NEW p \in Hosts, UNCHANGED <<peer, session, up, down, packet, clientIp>>,
         listening' \subseteq Servers \cup Dests,
         \A h \in Hosts : queue'[h] = queue[h] \/ queue'[h] = <<>>,
         OnlyAt(p), pc'[p] \in {"exit", "gone"}
  PROVE  Wiring' /\ Secrecy'
<1>1. Streams' /\ Silent'
  BY SameStreams, SecrecyParts, WiringParts DEF IInv
<1>2. PlaceAt(p)' /\ SecretAt(p)'
  BY DEF PlaceAt, SecretAt
<1>3. Wiring'
  BY <1>1, <1>2, WiringStep DEF IInv, OnlyAt
<1>. QED
  BY <1>1, <1>2, <1>3, SecrecyStep DEF IInv

LEMMA ReleaseQuiet ==
  ASSUME IInv, NEW p \in Hosts, Release(p),
         UNCHANGED <<serverHost, destHost, packet, clientIp, response>>
  PROVE  Wiring' /\ Secrecy'
<1>1. /\ pc' = [pc EXCEPT ![p] = "gone"]
      /\ listening' = listening \ {p}
      /\ queue' = [queue EXCEPT ![p] = <<>>]
      /\ UNCHANGED <<session, peer, up, down>>
  BY DEF Release
<1>2. pc \in [Hosts -> Locations] /\ queue \in [Hosts -> Seq(Hosts)]
  BY DEF IInv, TypeInv, TypeOK, KernelTypeOK
<1>3. listening' \subseteq Servers \cup Dests
  BY <1>1 DEF IInv, Wiring
<1>. QED
  BY <1>1, <1>2, <1>3, KernelAssumption, QuietStep DEF OnlyAt

LEMMA FinishQuiet ==
  ASSUME IInv, NEW p \in Hosts, NEW o, Finish(p, o),
         UNCHANGED <<listening, queue, peer, session, up, down,
                     serverHost, destHost, packet, clientIp, response>>
  PROVE  Wiring' /\ Secrecy'
<1>1. pc'[p] = "exit" /\ \A q \in Hosts \ {p} : pc'[q] = pc[q]
  BY PlaceFacts, KernelParts DEF IInv, TypeInv, TypeOK
<1>2. listening' \subseteq Servers \cup Dests
  BY DEF IInv, Wiring
<1>. QED
  BY <1>1, <1>2, QuietStep DEF OnlyAt

-----------------------------------------------------------------------------
(* The client *)

LEMMA RequestIsHidden ==
  ASSUME TypeInv, NEW c \in Clients, pc[c] = "send"
  PROVE  /\ RequestBytes(RequestPacket(c), Request) \in Seq(Cell)
         /\ AllHidden(RequestBytes(RequestPacket(c), Request))
<1>1. HostOf[c] \in Hosts /\ destHost[c] \in Hosts
  BY KernelAssumption DEF TypeInv, Ready
<1>2. /\ Clear(HostOf[c]) \in Cell /\ Clear(destHost[c]) \in Cell /\ Clear("syn") \in Cell
      /\ IsPlain(Clear(HostOf[c])) /\ IsPlain(Clear(destHost[c])) /\ IsPlain(Clear("syn"))
  BY <1>1, CellFacts
<1>3. RequestPacket(c) \in Packets /\ AllHidden(RequestPacket(c))
  BY <1>2, ClientAssumption, CreatePacketsFacts DEF RequestPacket
<1>. QED
  BY <1>3, ClientAssumption, RequestBytesFacts

\* A new connection carries nothing yet, and is made to a host that listens.
LEMMA ConnectFacts ==
  ASSUME IInv, NEW p \in Hosts, NEW h, Join(p, h), peer[p] = Nobody,
         p \in Clients \/ (p \in Servers /\ session[p] \in Clients),
         \A q \in Hosts \ {p} : pc'[q] = pc[q],
         PlaceAt(p)'
  PROVE  Wiring' /\ Streams'
<1>1. /\ h \in listening /\ h \in Hosts
      /\ peer' = [peer EXCEPT ![p] = h]
      /\ queue' = [queue EXCEPT ![h] = Append(@, p)]
      /\ UNCHANGED <<listening, session, up, down>>
  BY KernelAssumption DEF Join, IInv, Wiring
<1>2. /\ peer \in [Hosts -> Hosts \cup {Nobody}] /\ queue \in [Hosts -> Seq(Hosts)]
      /\ session \in [Hosts -> Hosts \cup {Nobody}]
      /\ up[p] = <<>> /\ down[p] = <<>>
  BY DEF IInv, TypeInv, TypeOK, KernelTypeOK, Wiring
<1>3. peer'[p] = h /\ \A q \in Hosts \ {p} : peer'[q] = peer[q]
  BY <1>1, <1>2
<1>4. Streams'
  <2>1. AllHidden(up[p]) /\ AllHidden(down[p])
    BY <1>2 DEF AllHidden
  <2>. QED
    BY <1>1, <1>3, <2>1, SecrecyParts, KernelAssumption DEF IInv, Streams, TunnelEncrypted, ServesClients
<1>5. Silent'
  BY <1>1, <1>3, KernelAssumption, WiringParts DEF IInv, Silent
<1>6. \A q \in Hosts : PlaceAt(q)'
  <2>1. \A q \in Hosts \ {p} : PlaceAt(q)'
    BY <1>3, WiringParts DEF IInv, PlaceAt
  <2>. QED
    BY <2>1
<1>7. \A g \in Hosts : session'[g] # Nobody => peer'[session'[g]] = g
  BY <1>1, <1>2, <1>3, KernelAssumption DEF IInv, Wiring
<1>8. \A g \in Hosts : \A i \in 1..Len(queue'[g]) : peer'[queue'[g][i]] = g
  <2>1. \A g \in Hosts : queue[g] \in Seq(Hosts)
    BY <1>2
  <2>2. \A g \in Hosts : \A i \in 1..Len(queue[g]) :
          queue[g][i] \in Hosts /\ peer[queue[g][i]] = g /\ queue[g][i] # p
    BY <2>1, ElementOfSeq, KernelAssumption DEF IInv, Wiring
  <2>3. \A g \in Hosts \ {h} : queue'[g] = queue[g]
    BY <1>1, <1>2
  <2>4. /\ queue'[h] = Append(queue[h], p)
        /\ Len(queue'[h]) = Len(queue[h]) + 1 /\ Len(queue[h]) \in Nat
        /\ \A i \in 1..Len(queue[h]) : queue'[h][i] = queue[h][i]
        /\ queue'[h][Len(queue[h]) + 1] = p
    BY <1>1, <1>2, <2>1, AppendProperties
  <2>5. ASSUME NEW i \in 1..Len(queue'[h]) PROVE peer'[queue'[h][i]] = h
    <3>1. i \in 1..Len(queue[h]) \/ i = Len(queue[h]) + 1
      BY <2>4
    <3>2. CASE i \in 1..Len(queue[h])
      BY <1>1, <1>3, <2>2, <2>4, <3>2
    <3>3. CASE i = Len(queue[h]) + 1
      BY <1>3, <2>4, <3>3
    <3>. QED
      BY <3>1, <3>2, <3>3
  <2>6. \A g \in Hosts \ {h} : \A i \in 1..Len(queue'[g]) : peer'[queue'[g][i]] = g
    BY <1>3, <2>2, <2>3
  <2>. QED
    BY <2>5, <2>6
<1>9. \A g \in Hosts \ (Clients \cup Servers) : peer'[g] = Nobody
  BY <1>3 DEF IInv, Wiring
<1>10. listening' \subseteq Servers \cup Dests
  BY <1>1 DEF IInv, Wiring
<1>. QED
  BY <1>4, <1>5, <1>6, <1>7, <1>8, <1>9, <1>10, KernelAssumption DEF Wiring, PlaceAt, Silent

LEMMA ClientSecrecy ==
  ASSUME IInv, NEW c \in Clients, ClientNext(c)
  PROVE  Wiring' /\ Secrecy'
<1>1. /\ TypeInv /\ Wiring /\ Secrecy /\ Streams /\ Silent /\ PlaceAt(c)
      /\ ProcTypeOK /\ NetTypeOK /\ ClientTypeOK
      /\ c \in Hosts /\ c \notin Servers /\ c \notin Dests
  BY KernelParts, KernelAssumption, SecrecyParts, WiringParts DEF IInv, TypeInv, TypeOK
<1>2. UNCHANGED <<packet, clientIp, response>>
  BY DEF ClientNext, serverVars, destVars
<1>3. SecretAt(c)'
  BY <1>1 DEF SecretAt
<1>4. ASSUME UNCHANGED clientVars, UNCHANGED <<listening, queue, session, peer>>,
             Streams', Silent',
             pc'[c] = "receive", \A q \in Hosts \ {c} : pc'[q] = pc[q], pc[c] = "send"
      PROVE  Wiring' /\ Secrecy'
  <2>1. OnlyAt(c) /\ PlaceAt(c)'
    BY <1>1, <1>2, <1>4 DEF OnlyAt, PlaceAt, clientVars
  <2>2. listening' \subseteq Servers \cup Dests
    BY <1>1, <1>4 DEF Wiring
  <2>3. Wiring'
    BY <1>1, <1>4, <2>1, <2>2, WiringStep
  <2>. QED
    BY <1>1, <1>2, <1>3, <1>4, <2>1, <2>3, SecrecyStep
<1>5. CASE ClientStart(c)
  <2>1. PICK n \in CommandLine[c] :
          \/ ~NamesAccepted(n) /\ Finish(c, "zero") /\ UNCHANGED clientVars
          \/ /\ NamesAccepted(n) /\ Goto(c, "connect")
             /\ serverHost' = [serverHost EXCEPT ![c] = n.server]
             /\ destHost' = [destHost EXCEPT ![c] = n.dest]
    BY <1>5 DEF ClientStart
  <2>2. At(c, "start") /\ UNCHANGED <<listening, queue, session, peer, up, down>>
    BY <1>5 DEF ClientStart, netVars
  <2>3. /\ pc'[c] \in {"exit", "connect"}
        /\ \A q \in Hosts \ {c} : pc'[q] = pc[q]
    BY <1>1, <2>1, PlaceFacts
  <2>4. OnlyAt(c) /\ PlaceAt(c)'
    BY <1>1, <1>2, <2>1, <2>2, <2>3 DEF OnlyAt, PlaceAt, ClientTypeOK, clientVars, At
  <2>5. Streams' /\ Silent'
    BY <1>1, <2>2, SameStreams
  <2>6. listening' \subseteq Servers \cup Dests
    BY <1>1, <2>2 DEF Wiring
  <2>7. Wiring'
    BY <1>1, <2>2, <2>3, <2>4, <2>5, <2>6, WiringStep
  <2>. QED
    BY <1>1, <1>2, <1>3, <2>4, <2>5, <2>7, SecrecyStep
<1>6. CASE ClientConnect(c)
  <2>1. PICK h \in listening : Join(c, h)
    BY <1>6 DEF ClientConnect, Connect
  <2>2. At(c, "connect") /\ Goto(c, "send") /\ UNCHANGED clientVars /\ UNCHANGED session
    BY <1>6, <2>1 DEF ClientConnect, Join
  <2>3. pc'[c] = "send" /\ \A q \in Hosts \ {c} : pc'[q] = pc[q]
    BY <1>1, <2>2, PlaceFacts
  <2>4. peer[c] = Nobody
    BY <1>1, <2>2 DEF PlaceAt, At
  <2>5. peer'[c] = h /\ h \in Hosts
    BY <1>1, <2>1 DEF Join, NetTypeOK
  <2>6. PlaceAt(c)'
    BY <1>1, <2>3, <2>5, KernelAssumption DEF PlaceAt
  <2>7. Wiring' /\ Streams'
    BY <1>1, <2>1, <2>3, <2>4, <2>6, ConnectFacts
  <2>8. OnlyAt(c)
    BY <1>2, <2>2, <2>3 DEF OnlyAt, clientVars
  <2>. QED
    BY <1>1, <1>2, <1>3, <2>7, <2>8, SecrecyStep
<1>7. CASE ClientConnectFails(c)
  BY <1>1, <1>2, <1>7, FinishQuiet DEF ClientConnectFails, netVars, clientVars
<1>8. CASE ClientSend(c)
  <2>1. /\ At(c, "send") /\ Goto(c, "receive") /\ UNCHANGED clientVars
        /\ SendUp(c, RequestBytes(RequestPacket(c), Request)) \/ SendUpFails(c)
        /\ UNCHANGED <<listening, queue, session, peer>>
    BY <1>8 DEF ClientSend, SendUp, SendUpFails, listenVars
  <2>2. Streams' /\ Silent'
    <3>1. peer[c] # Nobody
      BY <1>1, <2>1 DEF PlaceAt, At
    <3>2. /\ RequestBytes(RequestPacket(c), Request) \in Seq(Cell)
          /\ AllHidden(RequestBytes(RequestPacket(c), Request))
      BY <1>1, <2>1, RequestIsHidden DEF At
    <3>3. CASE SendUp(c, RequestBytes(RequestPacket(c), Request))
      BY <1>1, <3>1, <3>2, <3>3, SendUpStreams
    <3>4. CASE SendUpFails(c)
      BY <1>1, <3>4, SameStreams DEF SendUpFails, listenVars
    <3>. QED
      BY <2>1, <3>3, <3>4
  <2>. QED
    BY <1>1, <1>4, <2>1, <2>2, PlaceFacts DEF At
<1>9. CASE ClientReceive(c)
  <2>1. PICK k \in 0..PacketLen : ReadDown(c, k, PacketLen)
    BY <1>9 DEF ClientReceive
  <2>2. /\ At(c, "receive") /\ Finish(c, "zero") /\ UNCHANGED clientVars
        /\ UNCHANGED <<listening, queue, session, peer>>
    BY <1>9, <2>1 DEF ClientReceive, ReadDown, listenVars
  <2>3. Streams' /\ Silent'
    BY <1>1, <2>1, <2>2, ReadDownStreams, PacketSizes DEF PlaceAt, At
  <2>4. pc'[c] = "exit" /\ \A q \in Hosts \ {c} : pc'[q] = pc[q]
    BY <1>1, <2>2, PlaceFacts
  <2>5. OnlyAt(c) /\ PlaceAt(c)'
    BY <1>1, <1>2, <2>2, <2>4 DEF OnlyAt, PlaceAt, clientVars
  <2>6. listening' \subseteq Servers \cup Dests
    BY <1>1, <2>2 DEF Wiring
  <2>7. Wiring'
    BY <1>1, <2>2, <2>3, <2>4, <2>5, <2>6, WiringStep
  <2>. QED
    BY <1>1, <1>2, <1>3, <2>3, <2>5, <2>7, SecrecyStep
<1>10. CASE ClientReceiveFails(c)
  BY <1>1, <1>2, <1>10, FinishQuiet
     DEF ClientReceiveFails, ReadDownFails, listenVars, clientVars
<1>11. CASE ClientExit(c)
  BY <1>1, <1>2, <1>11, ReleaseQuiet DEF ClientExit, Exit, clientVars
<1>12. CASE ClientFault(c)
  <2>1. UNCHANGED <<serverHost, destHost, listening, queue, session, peer, up, down>>
    BY <1>12 DEF ClientFault, netVars, clientVars
  <2>2. CASE \E o \in {"error", "crashed"} : Finish(c, o)
    BY <1>1, <1>2, <2>1, <2>2, FinishQuiet
  <2>3. CASE At(c, "send") /\ Goto(c, "receive")
    <3>1. Streams' /\ Silent'
      BY <1>1, <2>1, SameStreams
    <3>. QED
      BY <1>1, <1>4, <2>1, <2>3, <3>1, PlaceFacts DEF At, clientVars
  <2>. QED
    BY <1>12, <2>2, <2>3 DEF ClientFault
<1>13. CASE Kill(c) /\ UNCHANGED clientVars
  BY <1>1, <1>2, <1>13, ReleaseQuiet DEF Kill, clientVars
<1>. QED
  BY <1>5, <1>6, <1>7, <1>8, <1>9, <1>10, <1>11, <1>12, <1>13 DEF ClientNext, ClientStep

-----------------------------------------------------------------------------
(* The server *)

\* In hidden cells there is no address to dial: a host is not the byte 0, and
\* a masked address is another one.
LEMMA HiddenDestination ==
  ASSUME NEW b \in Packets, AllHidden(b), NEW h \in Hosts
  PROVE  LET dst == ServHandlePkt(b, h)[DstAt - 1]
         IN  ~(dst.val \in Hosts /\ ~dst.masked)
<1>1. ServHandlePkt(b, h)[DstAt - 1] = b[DstAt]
  BY ServHandlePktFacts
<1>2. IsHidden(b[DstAt])
  BY PacketsAreSeqs, PacketSizes DEF AllHidden
<1>3. "zero" \notin Hosts
  BY HostsAssumption
<1>. QED
  BY <1>1, <1>2, <1>3 DEF IsHidden, Nul, Clear

\* What a server makes of the bytes it has received.
LEMMA ServerReceiveFacts ==
  ASSUME IInv, NEW s \in Servers, session[s] \in Hosts, NEW k,
         ReadUp(s, k, PacketLen), NEW got,
         got = Decrypt(Received(up[session[s]], k, PacketLen))
  PROVE  /\ got \in Packets
         /\ session[s] \in Clients =>
              AllPlain(ServHandlePkt(got, HostOf[s])) /\ IsPlain(SaveClientIp(got))
         /\ session[s] \notin Clients => AllHidden(got)
<1>1. /\ s \in Hosts /\ NetTypeOK /\ TypeInv /\ Wiring /\ Streams
      /\ peer[session[s]] = s /\ session[s] \in Clients \cup Servers
  BY KernelAssumption, KernelParts, SessionFacts, SecrecyParts DEF IInv, TypeInv, TypeOK
<1>2. up[session[s]] \in Seq(Cell) /\ k \in 0..Len(up[session[s]])
  BY <1>1, ReadUpType, PacketSizes DEF NetTypeOK
<1>. DEFINE raw == Received(up[session[s]], k, PacketLen)
<1>3. /\ raw \in Packets
      /\ AllPlain(up[session[s]]) => AllPlain(raw)
      /\ AllHidden(up[session[s]]) => AllHidden(raw)
  BY <1>2, ReceivedFacts, PacketSizes DEF Packets
<1>. HIDE DEF raw
<1>4. /\ got \in Packets
      /\ AllHidden(raw) => AllPlain(got)
      /\ AllPlain(raw) => AllHidden(got)
  BY <1>3, DecryptFacts DEF raw
<1>5. ASSUME session[s] \in Clients
      PROVE  AllPlain(ServHandlePkt(got, HostOf[s])) /\ IsPlain(SaveClientIp(got))
  <2>1. AllPlain(got)
    BY <1>1, <1>3, <1>4, <1>5 DEF Streams, TunnelEncrypted
  <2>2. IsPlain(got[SrcAt])
    BY <1>4, <2>1, PacketsAreSeqs, PacketSizes DEF AllPlain
  <2>. QED
    BY <1>1, <1>4, <2>1, <2>2, ServHandlePktFacts, KernelAssumption DEF SaveClientIp
<1>6. ASSUME session[s] \notin Clients PROVE AllHidden(got)
  BY <1>1, <1>3, <1>4, <1>6 DEF Streams
<1>. QED
  BY <1>4, <1>5, <1>6

\* What a server makes of the reply.
LEMMA ServerReplyFacts ==
  ASSUME IInv, NEW s \in Servers, NEW k, ReadDown(s, k, PacketLen), IsPlain(clientIp[s]),
         NEW answer,
         answer = ServHandlePktDest(Encapsulate(Received(down[s], k, PacketLen - 1)), clientIp[s])
  PROVE  AllPlain(answer)
<1>1. s \in Hosts /\ NetTypeOK /\ Streams /\ clientIp[s] \in Cell
  BY KernelAssumption, KernelParts, SecrecyParts DEF IInv, TypeInv, TypeOK, ServerTypeOK
<1>2. down[s] \in Seq(Cell) /\ k \in 0..Len(down[s]) /\ AllPlain(down[s])
  BY <1>1, ReadDownType, PacketSizes DEF NetTypeOK, Streams
<1>. DEFINE bare == Received(down[s], k, PacketLen - 1)
<1>3. bare \in BarePackets /\ AllPlain(bare)
  BY <1>2, ReceivedFacts, PacketsAreSeqs DEF BarePackets
<1>. HIDE DEF bare
<1>4. Encapsulate(bare) \in Packets /\ AllPlain(Encapsulate(bare))
  BY <1>3, EncapsulateFacts
<1>. QED
  BY <1>1, <1>4, ServHandlePktDestFacts DEF bare

\* A host accepts a connection that was made to it.
LEMMA AcceptWiring ==
  ASSUME IInv, NEW h \in Servers \cup Dests, Accept(h), UNCHANGED <<peer, up, down>>,
         h \in Servers => peer[h] = Nobody,
         \A q \in Hosts \ {h} : pc'[q] = pc[q], PlaceAt(h)'
  PROVE  Wiring' /\ Streams' /\ session'[h] \in Hosts
         /\ \A q \in Hosts \ {h} : session'[q] = session[q]
<1>1. /\ h \in Hosts /\ NetTypeOK /\ Wiring /\ Streams /\ Silent
      /\ queue[h] \in Seq(Hosts) /\ queue[h] # <<>>
      /\ session \in [Hosts -> Hosts \cup {Nobody}] /\ queue \in [Hosts -> Seq(Hosts)]
  BY KernelAssumption, KernelParts, SecrecyParts, WiringParts
     DEF IInv, TypeInv, TypeOK, NetTypeOK, Accept
<1>2. /\ session' = [session EXCEPT ![h] = Head(queue[h])]
      /\ queue' = [queue EXCEPT ![h] = Tail(queue[h])]
      /\ UNCHANGED listening
  BY DEF Accept
<1>3. /\ Head(queue[h]) = queue[h][1] /\ queue[h][1] \in Hosts /\ Len(queue[h]) \in Nat
      /\ Len(queue[h]) >= 1 /\ Len(Tail(queue[h])) = Len(queue[h]) - 1
      /\ \A i \in 1..(Len(queue[h]) - 1) : Tail(queue[h])[i] = queue[h][i + 1]
  BY <1>1, HeadTailProperties, EmptySeq, LenProperties, ElementOfSeq
<1>4. \A g \in Hosts : session'[g] # Nobody => peer'[session'[g]] = g
  <2>1. session'[h] = queue[h][1] /\ \A g \in Hosts \ {h} : session'[g] = session[g]
    BY <1>1, <1>2, <1>3
  <2>2. 1 \in 1..Len(queue[h])
    BY <1>3
  <2>3. peer[queue[h][1]] = h
    BY <1>1, <2>2 DEF Wiring
  <2>. QED
    BY <1>1, <2>1, <2>3 DEF Wiring
<1>5. \A g \in Hosts : \A i \in 1..Len(queue'[g]) : peer'[queue'[g][i]] = g
  <2>1. ASSUME NEW i \in 1..Len(queue'[h]) PROVE peer'[queue'[h][i]] = h
    <3>1. queue'[h][i] = queue[h][i + 1] /\ i + 1 \in 1..Len(queue[h])
      BY <1>1, <1>2, <1>3
    <3>. QED
      BY <1>1, <3>1 DEF Wiring
  <2>2. \A g \in Hosts \ {h} : queue'[g] = queue[g]
    BY <1>1, <1>2
  <2>. QED
    BY <1>1, <2>1, <2>2 DEF Wiring
<1>6. \A q \in Hosts : PlaceAt(q)'
  BY WiringParts DEF IInv, PlaceAt
<1>7. Streams' /\ Silent'
  BY <1>1, <1>2, KernelAssumption DEF Streams, TunnelEncrypted, ServesClients, Silent
<1>8. listening' \subseteq Servers \cup Dests /\ \A g \in Hosts \ (Clients \cup Servers) : peer'[g] = Nobody
  BY <1>1, <1>2 DEF Wiring
<1>9. Wiring'
  BY <1>4, <1>5, <1>6, <1>7, <1>8, KernelAssumption DEF Wiring, PlaceAt, Silent
<1>. QED
  BY <1>1, <1>2, <1>3, <1>7, <1>9

LEMMA ServerSecrecy ==
  ASSUME IInv, NEW s \in Servers, ServerNext(s)
  PROVE  Wiring' /\ Secrecy'
<1>1. /\ TypeInv /\ Wiring /\ Secrecy /\ Streams /\ Silent /\ PlaceAt(s) /\ SecretAt(s)
      /\ ProcTypeOK /\ NetTypeOK /\ ServerTypeOK /\ ReadyAt(s)
      /\ s \in Hosts /\ s \notin Clients /\ s \notin Dests
      /\ peer[s] # Nobody => session[s] \in Clients
  BY KernelParts, KernelAssumption, SecrecyParts, WiringParts, ReadyParts
     DEF IInv, TypeInv, TypeOK, Streams, ServesClients
<1>2. UNCHANGED <<serverHost, destHost, response>>
  BY DEF ServerNext, clientVars, destVars
<1>3. ASSUME UNCHANGED <<listening, queue, session, peer>>, Streams', Silent',
             \A q \in Hosts \ {s} : pc'[q] = pc[q],
             \A q \in Servers \ {s} : packet'[q] = packet[q] /\ clientIp'[q] = clientIp[q],
             PlaceAt(s)', SecretAt(s)'
      PROVE  Wiring' /\ Secrecy'
  <2>1. listening' \subseteq Servers \cup Dests
    BY <1>1, <1>3 DEF Wiring
  <2>2. Wiring'
    BY <1>1, <1>3, <2>1, WiringStep
  <2>3. OnlyAt(s)
    BY <1>2, <1>3 DEF OnlyAt
  <2>. QED
    BY <1>1, <1>3, <2>2, <2>3, SecrecyStep
<1>4. CASE ServerStart(s)
  <2>1. /\ \/ Listen(s) /\ Goto(s, "accept")
           \/ Finish(s, "zero") /\ UNCHANGED listenVars
        /\ At(s, "start") /\ UNCHANGED <<packet, clientIp, peer, up, down>>
    BY <1>4 DEF ServerStart, serverVars, linkVars
  <2>2. CASE Finish(s, "zero") /\ UNCHANGED listenVars
    BY <1>1, <1>2, <2>1, <2>2, FinishQuiet DEF listenVars
  <2>3. CASE Listen(s) /\ Goto(s, "accept")
    <3>1. pc'[s] = "accept" /\ \A q \in Hosts \ {s} : pc'[q] = pc[q]
      BY <1>1, <2>3, PlaceFacts
    <3>2. listening' = listening \cup {s} /\ UNCHANGED <<queue, session>>
      BY <2>3 DEF Listen
    <3>3. PlaceAt(s)' /\ SecretAt(s)' /\ OnlyAt(s)
      BY <1>1, <1>2, <2>1, <3>1, <3>2 DEF PlaceAt, SecretAt, OnlyAt, At
    <3>4. Streams' /\ Silent'
      BY <1>1, <2>1, <3>2, SameStreams
    <3>5. listening' \subseteq Servers \cup Dests
      BY <1>1, <3>2 DEF Wiring
    <3>6. Wiring'
      BY <1>1, <2>1, <3>1, <3>2, <3>3, <3>4, <3>5, WiringStep
    <3>. QED
      BY <1>1, <2>1, <3>3, <3>4, <3>6, SecrecyStep
  <2>. QED
    BY <2>1, <2>2, <2>3
<1>5. CASE ServerAccept(s)
  <2>1. /\ Accept(s) /\ Goto(s, "receive") /\ At(s, "accept")
        /\ UNCHANGED <<packet, clientIp, peer, up, down>>
    BY <1>5 DEF ServerAccept, serverVars, linkVars
  <2>2. pc'[s] = "receive" /\ \A q \in Hosts \ {s} : pc'[q] = pc[q]
    BY <1>1, <2>1, PlaceFacts
  <2>3. PlaceAt(s)' /\ SecretAt(s)'
    BY <1>1, <2>1, <2>2 DEF PlaceAt, SecretAt, At
  <2>4. Wiring' /\ Streams' /\ \A q \in Hosts \ {s} : session'[q] = session[q]
    BY <1>1, <2>1, <2>2, <2>3, AcceptWiring DEF PlaceAt, At
  <2>5. OnlyAt(s)
    BY <1>2, <2>1, <2>2, <2>4 DEF OnlyAt
  <2>. QED
    BY <1>1, <2>1, <2>3, <2>4, <2>5, SecrecyStep
<1>6. CASE ServerReceive(s)
  <2>. DEFINE Got(k) == Decrypt(Received(up[session[s]], k, PacketLen))
  <2>1. PICK k \in 0..PacketLen :
          /\ ReadUp(s, k, PacketLen)
          /\ clientIp' = [clientIp EXCEPT ![s] = SaveClientIp(Got(k))]
          /\ packet' = [packet EXCEPT ![s] = ServHandlePkt(Got(k), HostOf[s])]
    BY <1>6 DEF ServerReceive
  <2>2. At(s, "receive") /\ Goto(s, "dial") /\ session[s] \in Hosts
    BY <1>1, <1>6 DEF ServerReceive, ReadyAt, At
  <2>3. /\ Got(k) \in Packets
        /\ session[s] \in Clients =>
             AllPlain(ServHandlePkt(Got(k), HostOf[s])) /\ IsPlain(SaveClientIp(Got(k)))
        /\ session[s] \notin Clients => AllHidden(Got(k))
    BY <2>1, <2>2, ServerReceiveFacts
  <2>. HIDE DEF Got
  <2>4. /\ packet'[s] = ServHandlePkt(Got(k), HostOf[s]) /\ clientIp'[s] = SaveClientIp(Got(k))
        /\ \A q \in Servers \ {s} : packet'[q] = packet[q] /\ clientIp'[q] = clientIp[q]
    BY <1>1, <2>1 DEF ServerTypeOK
  <2>5. UNCHANGED <<listening, queue, session, peer>>
    BY <2>1 DEF ReadUp, listenVars
  <2>6. Streams' /\ Silent'
    BY <1>1, <2>1, <2>2, SessionFacts, ReadUpStreams, PacketSizes, KernelAssumption
  <2>7. pc'[s] = "dial" /\ \A q \in Hosts \ {s} : pc'[q] = pc[q]
    BY <1>1, <2>2, PlaceFacts
  <2>8. session[s] \notin Clients => DestOf(s)' = Nobody
    BY <1>1, <2>3, <2>4, HiddenDestination, KernelAssumption DEF DestOf
  <2>9. PlaceAt(s)' /\ SecretAt(s)'
    BY <1>1, <2>2, <2>3, <2>4, <2>5, <2>7, <2>8 DEF PlaceAt, SecretAt, At
  <2>. QED
    BY <1>3, <2>4, <2>5, <2>6, <2>7, <2>9
<1>7. CASE ServerReceiveFails(s)
  BY <1>1, <1>2, <1>7, FinishQuiet
     DEF ServerReceiveFails, ReadUpFails, listenVars, serverVars
<1>8. CASE ServerDial(s)
  <2>1. PICK h \in listening : HostOf[h] = DestOf(s) /\ Join(s, h)
    BY <1>8 DEF ServerDial, Connect
  <2>2. /\ At(s, "dial") /\ Goto(s, "forward")
        /\ UNCHANGED <<packet, clientIp>> /\ UNCHANGED session
    BY <1>8, <2>1 DEF ServerDial, Join, serverVars
  <2>3. pc'[s] = "forward" /\ \A q \in Hosts \ {s} : pc'[q] = pc[q]
    BY <1>1, <2>2, PlaceFacts
  <2>4. peer[s] = Nobody
    BY <1>1, <2>2 DEF PlaceAt, At
  <2>5. DestOf(s) \in Hosts /\ peer'[s] = h /\ h \in Hosts
    BY <1>1, <2>1, KernelAssumption DEF Join, NetTypeOK
  <2>6. session[s] \in Clients
    BY <1>1, <2>2, <2>5, KernelAssumption DEF SecretAt, At
  <2>7. PlaceAt(s)' /\ SecretAt(s)'
    BY <1>1, <2>2, <2>3, <2>5, <2>6, KernelAssumption DEF PlaceAt, SecretAt, At
  <2>8. Wiring' /\ Streams'
    BY <1>1, <2>1, <2>3, <2>4, <2>6, <2>7, ConnectFacts
  <2>9. OnlyAt(s)
    BY <1>2, <2>2, <2>3 DEF OnlyAt
  <2>. QED
    BY <1>1, <2>2, <2>7, <2>8, <2>9, SecrecyStep
<1>9. CASE ServerDialFails(s)
  BY <1>1, <1>2, <1>9, FinishQuiet DEF ServerDialFails, netVars, serverVars
<1>10. CASE ServerForward(s)
  <2>1. /\ At(s, "forward") /\ UNCHANGED <<packet, clientIp>>
        /\ \/ SendUp(s, packet[s]) /\ Goto(s, "receiveReply")
           \/ SendUpFails(s) /\ Finish(s, "error")
    BY <1>10 DEF ServerForward, serverVars
  <2>2. CASE SendUpFails(s) /\ Finish(s, "error")
    BY <1>1, <1>2, <2>1, <2>2, FinishQuiet DEF SendUpFails, listenVars
  <2>3. CASE SendUp(s, packet[s]) /\ Goto(s, "receiveReply")
    <3>1. peer[s] # Nobody /\ packet[s] \in Seq(Cell) /\ session[s] \in Clients
          /\ AllPlain(packet[s])
      BY <1>1, <2>1, PacketsAreSeqs DEF PlaceAt, SecretAt, ReadyAt, At
    <3>2. Streams' /\ Silent'
      BY <1>1, <2>3, <3>1, SendUpStreams
    <3>3. UNCHANGED <<listening, queue, session, peer>>
      BY <2>3 DEF SendUp, listenVars
    <3>4. pc'[s] = "receiveReply" /\ \A q \in Hosts \ {s} : pc'[q] = pc[q]
      BY <1>1, <2>3, PlaceFacts
    <3>5. PlaceAt(s)' /\ SecretAt(s)'
      BY <1>1, <2>1, <3>1, <3>3, <3>4 DEF PlaceAt, SecretAt, At
    <3>. QED
      BY <1>3, <2>1, <3>2, <3>3, <3>4, <3>5
  <2>. QED
    BY <2>1, <2>2, <2>3
<1>11. CASE ServerReceiveReply(s)
  <2>. DEFINE Answer(k) == ServHandlePktDest(Encapsulate(Received(down[s], k, PacketLen - 1)),
                                             clientIp[s])
  <2>1. PICK k \in 0..PacketLen :
          ReadDown(s, k, PacketLen) /\ packet' = [packet EXCEPT ![s] = Answer(k)]
    BY <1>11 DEF ServerReceiveReply
  <2>2. At(s, "receiveReply") /\ Goto(s, "reply") /\ UNCHANGED clientIp
    BY <1>11 DEF ServerReceiveReply
  <2>3. session[s] \in Clients /\ IsPlain(clientIp[s]) /\ peer[s] # Nobody
    BY <1>1, <2>2 DEF SecretAt, PlaceAt, At
  <2>4. AllPlain(Answer(k))
    BY <2>1, <2>3, ServerReplyFacts
  <2>. HIDE DEF Answer
  <2>5. packet'[s] = Answer(k) /\ \A q \in Servers \ {s} : packet'[q] = packet[q]
    BY <1>1, <2>1 DEF ServerTypeOK
  <2>6. UNCHANGED <<listening, queue, session, peer>>
    BY <2>1 DEF ReadDown, listenVars
  <2>7. Streams' /\ Silent'
    BY <1>1, <2>1, <2>3, ReadDownStreams, PacketSizes
  <2>8. pc'[s] = "reply" /\ \A q \in Hosts \ {s} : pc'[q] = pc[q]
    BY <1>1, <2>2, PlaceFacts
  <2>9. PlaceAt(s)' /\ SecretAt(s)'
    BY <1>1, <2>3, <2>4, <2>5, <2>6, <2>8 DEF PlaceAt, SecretAt
  <2>. QED
    BY <1>3, <2>2, <2>5, <2>6, <2>7, <2>8, <2>9
<1>12. CASE ServerReceiveReplyFails(s)
  BY <1>1, <1>2, <1>12, FinishQuiet
     DEF ServerReceiveReplyFails, ReadDownFails, listenVars, serverVars
<1>13. CASE ServerReply(s)
  <2>1. /\ At(s, "reply") /\ Finish(s, "zero") /\ UNCHANGED <<packet, clientIp>>
        /\ SendDown(s, ServCliEncrypt(packet[s])) \/ SendDownFails(s)
        /\ UNCHANGED <<listening, queue, session, peer>>
    BY <1>13 DEF ServerReply, serverVars, SendDown, SendDownFails, listenVars
  <2>2. CASE SendDown(s, ServCliEncrypt(packet[s]))
    <3>1. session[s] \in Clients /\ session[s] \in Hosts /\ session[s] \notin Servers
      BY <1>1, <2>1, KernelAssumption DEF PlaceAt, At
    <3>2. peer[session[s]] # Nobody
      BY <1>1, <3>1, SessionFacts, KernelAssumption
    <3>3. ServCliEncrypt(packet[s]) \in Seq(Cell) /\ AllHidden(ServCliEncrypt(packet[s]))
      BY <1>1, <2>1, ServCliEncryptFacts DEF ReadyAt, SecretAt, At
    <3>4. Streams' /\ Silent'
      BY <1>1, <2>2, <3>1, <3>2, <3>3, SendDownStreams
    <3>5. pc'[s] = "exit" /\ \A q \in Hosts \ {s} : pc'[q] = pc[q]
      BY <1>1, <2>1, PlaceFacts
    <3>6. PlaceAt(s)' /\ SecretAt(s)'
      BY <1>1, <3>5 DEF PlaceAt, SecretAt
    <3>. QED
      BY <1>3, <2>1, <3>4, <3>5, <3>6
  <2>3. CASE SendDownFails(s)
    BY <1>1, <1>2, <2>1, <2>3, FinishQuiet DEF SendDownFails
  <2>. QED
    BY <2>1, <2>2, <2>3
<1>14. CASE ServerExit(s)
  BY <1>1, <1>2, <1>14, ReleaseQuiet DEF ServerExit, Exit, serverVars
<1>15. CASE ServerFault(s)
  <2>1. UNCHANGED <<packet, clientIp, listening, queue, session, peer, up, down>>
    BY <1>15 DEF ServerFault, netVars, serverVars
  <2>2. \E o \in {"error", "crashed", "zero"} : Finish(s, o)
    BY <1>15 DEF ServerFault
  <2>. QED
    BY <1>1, <1>2, <2>1, <2>2, FinishQuiet
<1>16. CASE Kill(s) /\ UNCHANGED serverVars
  BY <1>1, <1>2, <1>16, ReleaseQuiet DEF Kill, serverVars
<1>. QED
  BY <1>4, <1>5, <1>6, <1>7, <1>8, <1>9, <1>10, <1>11, <1>12, <1>13, <1>14, <1>15, <1>16
     DEF ServerNext, ServerStep

-----------------------------------------------------------------------------
(* The destination *)

\* What a destination makes of a request that a server brings: a plain answer.
DestRequest(d, k) == Received(up[session[d]], k, PacketLen - 1)
DestAnswer(d, k) ==
  Decapsulate(CreatePacketsDes(Clear(HostOf[d]), DestRequest(d, k)[SrcAt - 1], Clear("ack"), Reply))

LEMMA DestAnswerFacts ==
  ASSUME IInv, NEW d \in Dests, session[d] \in Servers, NEW k, ReadUp(d, k, PacketLen - 1)
  PROVE  AllPlain(DestAnswer(d, k))
<1>1. /\ d \in Hosts /\ session[d] \in Hosts /\ NetTypeOK /\ Streams
      /\ PacketLen - 1 \in Nat
  BY KernelAssumption, KernelParts, SecrecyParts, PacketsAreSeqs DEF IInv, TypeInv, TypeOK
<1>2. /\ up[session[d]] \in Seq(Cell) /\ k \in 0..Len(up[session[d]])
      /\ AllPlain(up[session[d]])
  BY <1>1, ReadUpType DEF NetTypeOK, Streams
<1>3. DestRequest(d, k) \in [1..(PacketLen - 1) -> Cell] /\ AllPlain(DestRequest(d, k))
  BY <1>1, <1>2, ReceivedFacts DEF DestRequest
<1>4. DestRequest(d, k)[SrcAt - 1] \in Cell /\ IsPlain(DestRequest(d, k)[SrcAt - 1])
  BY <1>1, <1>3, PacketIsSeq, PacketSizes DEF AllPlain
<1>. DEFINE p == CreatePacketsDes(Clear(HostOf[d]), DestRequest(d, k)[SrcAt - 1], Clear("ack"), Reply)
<1>5. p \in Packets /\ AllPlain(p)
  BY <1>1, <1>4, CellFacts, CreatePacketsDesFacts, DestinationAssumption, KernelAssumption
<1>. HIDE DEF p
<1>. QED
  BY <1>5, DecapsulateFacts DEF DestAnswer, p

LEMMA DestSecrecy ==
  ASSUME IInv, NEW d \in Dests, DestNext(d)
  PROVE  Wiring' /\ Secrecy'
<1>1. /\ TypeInv /\ Wiring /\ Secrecy /\ Streams /\ Silent /\ PlaceAt(d) /\ SecretAt(d)
      /\ ProcTypeOK /\ NetTypeOK /\ DestTypeOK /\ ReadyAt(d)
      /\ d \in Hosts /\ d \notin Clients /\ d \notin Servers
  BY KernelParts, KernelAssumption, SecrecyParts, WiringParts, ReadyParts
     DEF IInv, TypeInv, TypeOK
<1>2. UNCHANGED <<serverHost, destHost, packet, clientIp>>
  BY DEF DestNext, clientVars, serverVars
<1>3. PlaceAt(d)'
  BY <1>1 DEF PlaceAt
<1>4. ASSUME UNCHANGED <<listening, queue, session, peer>>, Streams', Silent',
             \A q \in Hosts \ {d} : pc'[q] = pc[q],
             \A q \in Dests \ {d} : response'[q] = response[q],
             SecretAt(d)'
      PROVE  Wiring' /\ Secrecy'
  <2>1. listening' \subseteq Servers \cup Dests
    BY <1>1, <1>4 DEF Wiring
  <2>2. Wiring'
    BY <1>1, <1>3, <1>4, <2>1, WiringStep
  <2>3. OnlyAt(d)
    BY <1>2, <1>4 DEF OnlyAt
  <2>. QED
    BY <1>1, <1>2, <1>4, <2>2, <2>3, SecrecyStep
<1>5. CASE DestStart(d)
  <2>1. /\ \/ Listen(d) /\ Goto(d, "accept")
           \/ Finish(d, "zero") /\ UNCHANGED listenVars
        /\ UNCHANGED <<response, peer, up, down>>
    BY <1>5 DEF DestStart, destVars, linkVars
  <2>2. CASE Finish(d, "zero") /\ UNCHANGED listenVars
    BY <1>1, <1>2, <2>1, <2>2, FinishQuiet DEF listenVars
  <2>3. CASE Listen(d) /\ Goto(d, "accept")
    <3>1. pc'[d] = "accept" /\ \A q \in Hosts \ {d} : pc'[q] = pc[q]
      BY <1>1, <2>3, PlaceFacts
    <3>2. listening' = listening \cup {d} /\ UNCHANGED <<queue, session>>
      BY <2>3 DEF Listen
    <3>3. SecretAt(d)' /\ OnlyAt(d)
      BY <1>1, <1>2, <2>1, <3>1, <3>2 DEF SecretAt, OnlyAt
    <3>4. Streams' /\ Silent'
      BY <1>1, <2>1, <3>2, SameStreams
    <3>5. listening' \subseteq Servers \cup Dests
      BY <1>1, <3>2 DEF Wiring
    <3>6. Wiring'
      BY <1>1, <1>3, <2>1, <3>1, <3>2, <3>4, <3>5, WiringStep
    <3>. QED
      BY <1>1, <1>2, <3>3, <3>4, <3>6, SecrecyStep
  <2>. QED
    BY <2>1, <2>2, <2>3
<1>6. CASE DestAccept(d)
  <2>1. /\ Accept(d) /\ Goto(d, "receive")
        /\ UNCHANGED <<response, peer, up, down>>
    BY <1>6 DEF DestAccept, destVars, linkVars
  <2>2. pc'[d] = "receive" /\ \A q \in Hosts \ {d} : pc'[q] = pc[q]
    BY <1>1, <2>1, PlaceFacts
  <2>3. Wiring' /\ Streams' /\ \A q \in Hosts \ {d} : session'[q] = session[q]
    BY <1>1, <1>3, <2>1, <2>2, AcceptWiring
  <2>4. OnlyAt(d) /\ SecretAt(d)'
    BY <1>1, <1>2, <2>1, <2>2, <2>3 DEF OnlyAt, SecretAt
  <2>. QED
    BY <1>1, <1>2, <2>3, <2>4, SecrecyStep
<1>7. CASE DestReceive(d)
  <2>1. PICK k \in 0..PacketLen :
          ReadUp(d, k, PacketLen - 1) /\ response' = [response EXCEPT ![d] = DestAnswer(d, k)]
    BY <1>7 DEF DestReceive, DestAnswer, DestRequest
  <2>2. At(d, "receive") /\ Goto(d, "reply") /\ session[d] \in Hosts
    BY <1>1, <1>7 DEF DestReceive, ReadyAt, At
  <2>3. UNCHANGED <<listening, queue, session, peer>>
    BY <2>1 DEF ReadUp, listenVars
  <2>4. Streams' /\ Silent'
    BY <1>1, <2>1, <2>2, SessionFacts, ReadUpStreams, PacketsAreSeqs, KernelAssumption
  <2>5. pc'[d] = "reply" /\ \A q \in Hosts \ {d} : pc'[q] = pc[q]
    BY <1>1, <2>2, PlaceFacts
  <2>6. response'[d] = DestAnswer(d, k) /\ \A q \in Dests \ {d} : response'[q] = response[q]
    BY <1>1, <2>1 DEF DestTypeOK
  <2>7. session[d] \in Servers => AllPlain(DestAnswer(d, k))
    BY <2>1, DestAnswerFacts
  <2>8. SecretAt(d)'
    BY <1>1, <2>3, <2>5, <2>6, <2>7 DEF SecretAt
  <2>. QED
    BY <1>4, <2>3, <2>4, <2>5, <2>6, <2>8
<1>8. CASE DestReceiveFails(d)
  BY <1>1, <1>2, <1>8, FinishQuiet DEF DestReceiveFails, ReadUpFails, listenVars, destVars
<1>9. CASE DestReply(d)
  <2>1. /\ At(d, "reply") /\ UNCHANGED response
        /\ \/ SendDown(d, ReplyBytes(response[d], Reply)) /\ Finish(d, "zero")
           \/ SendDownFails(d) /\ Finish(d, "error")
    BY <1>9 DEF DestReply, destVars
  <2>2. CASE SendDownFails(d) /\ Finish(d, "error")
    BY <1>1, <1>2, <2>1, <2>2, FinishQuiet DEF SendDownFails, listenVars
  <2>3. CASE SendDown(d, ReplyBytes(response[d], Reply)) /\ Finish(d, "zero")
    <3>1. /\ session[d] \in Hosts /\ peer[session[d]] = d
          /\ response[d] \in BarePackets
      BY <1>1, <2>1, SessionFacts DEF ReadyAt, At
    <3>2. /\ ReplyBytes(response[d], Reply) \in Seq(Cell)
          /\ session[d] \in Servers => AllPlain(ReplyBytes(response[d], Reply))
      BY <1>1, <2>1, <3>1, ReplyBytesFacts, DestinationAssumption DEF SecretAt, At
    <3>3. Streams' /\ Silent'
      BY <1>1, <2>3, <3>1, <3>2, SendDownStreams, KernelAssumption
    <3>4. UNCHANGED <<listening, queue, session, peer>>
      BY <2>3 DEF SendDown, listenVars
    <3>5. pc'[d] = "exit" /\ \A q \in Hosts \ {d} : pc'[q] = pc[q]
      BY <1>1, <2>3, PlaceFacts
    <3>6. SecretAt(d)'
      BY <1>1, <3>5 DEF SecretAt
    <3>. QED
      BY <1>4, <2>1, <3>3, <3>4, <3>5, <3>6
  <2>. QED
    BY <2>1, <2>2, <2>3
<1>10. CASE DestExit(d)
  BY <1>1, <1>2, <1>10, ReleaseQuiet DEF DestExit, Exit, destVars
<1>11. CASE DestFault(d)
  BY <1>1, <1>2, <1>11, FinishQuiet DEF DestFault, netVars, destVars
<1>12. CASE Kill(d) /\ UNCHANGED destVars
  BY <1>1, <1>2, <1>12, ReleaseQuiet DEF Kill, destVars
<1>. QED
  BY <1>5, <1>6, <1>7, <1>8, <1>9, <1>10, <1>11, <1>12 DEF DestNext, DestStep

-----------------------------------------------------------------------------
(* The specification *)

LEMMA InitSecrecy == Init => Wiring /\ Secrecy
<1>. SUFFICES ASSUME Init PROVE Wiring /\ Secrecy
  OBVIOUS
<1>1. /\ pc = [p \in Hosts |-> "start"]
      /\ listening = {} /\ queue = [p \in Hosts |-> <<>>]
      /\ session = [p \in Hosts |-> Nobody] /\ peer = [p \in Hosts |-> Nobody]
      /\ up = [p \in Hosts |-> <<>>] /\ down = [p \in Hosts |-> <<>>]
  BY DEF Init, KernelInit
<1>2. Wiring
  BY <1>1, KernelAssumption DEF Wiring
<1>3. Secrecy
  BY <1>1, KernelAssumption DEF Secrecy, TunnelEncrypted, ServesClients, AllPlain, AllHidden
<1>. QED
  BY <1>2, <1>3

LEMMA StutterSecrecy ==
  ASSUME Wiring, Secrecy, UNCHANGED vars
  PROVE  Wiring' /\ Secrecy'
<1>1. UNCHANGED <<pc, listening, queue, session, peer, up, down, packet, clientIp, response>>
  BY DEF vars, kernelVars, serverVars, destVars
<1>2. Wiring'
  BY <1>1 DEF Wiring
<1>3. Secrecy'
  BY <1>1 DEF Secrecy, TunnelEncrypted, ServesClients, DestOf
<1>. QED
  BY <1>2, <1>3

LEMMA InductiveInvariant == Spec => []IInv
<1>1. Init => IInv
  BY InitType, InitSecrecy DEF IInv
<1>2. IInv /\ [Next]_vars => IInv'
  <2>1. IInv /\ [Next]_vars => TypeInv'
    BY ClientType, ServerType, DestType, StutterType DEF IInv, Next
  <2>2. IInv /\ [Next]_vars => Wiring' /\ Secrecy'
    BY ClientSecrecy, ServerSecrecy, DestSecrecy, StutterSecrecy DEF IInv, Next
  <2>. QED
    BY <2>1, <2>2 DEF IInv
<1>. QED
  BY <1>1, <1>2, PTL DEF Spec

\* Report.md:10: whatever the client and its server send each other is encrypted
\* (packet.c:117-158 and 208-230), for every text and every number of hosts, when
\* packets are cut short, when a server is named as a destination, and when any
\* program dies.
THEOREM TunnelIsEncrypted == Spec => []TunnelEncrypted
<1>1. IInv => TunnelEncrypted
  BY DEF IInv, Secrecy
<1>. QED
  BY <1>1, InductiveInvariant, PTL

\* A server that another server has dialled never dials anybody itself
\* (server.c:127-154): no chain of servers ever forms.
THEOREM ServersServeClients == Spec => []ServesClients
<1>1. IInv => ServesClients
  BY DEF IInv, Secrecy
<1>. QED
  BY <1>1, InductiveInvariant, PTL
=============================================================================
