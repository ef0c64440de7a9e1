------------------------------- MODULE Kernel -------------------------------
(***************************************************************************)
(* The operating system as the three programs see it: processes on hosts,  *)
(* and TCP between them.  None of it is in the repository; it is modelled  *)
(* from the calls the programs make (socket, setsockopt, bind, listen,     *)
(* accept, connect, send, recv, close, exit) and is external.              *)
(*                                                                         *)
(* A process has the name of its host, or a name of its own when several   *)
(* run there, at once or one after the other: HostOf maps it to its host,  *)
(* whose name is the address in packets and in connect.                    *)
(*                                                                         *)
(* Every process listens for one purpose and connects for one purpose, so  *)
(* a connection is named by the process that made it: up[p] are the bytes  *)
(* in flight from p to peer[p], down[p] those on their way back, and       *)
(* upEnd[p] and downEnd[p] say whether their sender has closed ("fin") or  *)
(* aborted ("rst") the connection.                                         *)
(***************************************************************************)
EXTENDS Packet, SequencesExt

CONSTANTS Clients, Servers, Dests,  \* the processes of each program
          HostOf,                   \* the host each process runs on
          Nobody,                   \* no host: an unknown name, no connection
          Backlog,                  \* the second argument of listen
          ShortReads,               \* may recv return part of what is there?
          FaultKinds,               \* the faults there may be: "kill", "call"
          MaxFaults                 \* bound on their number

ASSUME KernelAssumption ==
  /\ Clients \subseteq Hosts /\ Servers \subseteq Hosts /\ Dests \subseteq Hosts
  /\ Clients \cap Servers = {} /\ Clients \cap Dests = {} /\ Servers \cap Dests = {}
  /\ HostOf \in [Hosts -> Hosts]
  /\ Nobody \notin Hosts
  /\ Backlog \in Nat /\ ShortReads \in BOOLEAN
  /\ FaultKinds \subseteq {"kill", "call"} /\ MaxFaults \in Nat

VARIABLES
  pc,         \* where each process is in its main
  outcome,    \* how each process ended
  terminal,   \* the packets each process has printed
  listening,  \* the processes with an open listening socket
  queue,      \* connections waiting to be accepted, per listening process
  session,    \* the connection each listening process has accepted
  peer,       \* the process each process has connected to
  up, down, upEnd, downEnd,
  faults      \* kills and failed calls so far

kernelVars == <<pc, outcome, terminal, listening, queue, session, peer,
                up, down, upEnd, downEnd, faults>>
processVars == <<pc, outcome, terminal>>
listenVars == <<listening, queue, session>>
linkVars == <<peer, up, down, upEnd, downEnd>>
netVars == <<listening, queue, session, peer, up, down, upEnd, downEnd>>

Locations == {"start", "accept", "receive", "dial", "forward", "receiveReply",
              "connect", "send", "reply", "exit", "gone"}
Outcomes == {"running", "zero", "error", "crashed", "killed"}
Ends == {"open", "fin", "rst"}

KernelTypeOK ==
  /\ pc \in [Hosts -> Locations]
  /\ outcome \in [Hosts -> Outcomes]
  /\ terminal \in [Hosts -> Seq(Seq(Cell))]
  /\ listening \subseteq Hosts
  /\ queue \in [Hosts -> Seq(Hosts)]
  /\ session \in [Hosts -> Hosts \cup {Nobody}]
  /\ peer \in [Hosts -> Hosts \cup {Nobody}]
  /\ up \in [Hosts -> Seq(Cell)]
  /\ down \in [Hosts -> Seq(Cell)]
  /\ upEnd \in [Hosts -> Ends]
  /\ downEnd \in [Hosts -> Ends]
  /\ faults \in 0..MaxFaults

KernelInit ==
  /\ pc = [p \in Hosts |-> "start"]
  /\ outcome = [p \in Hosts |-> "running"]
  /\ terminal = [p \in Hosts |-> <<>>]
  /\ listening = {}
  /\ queue = [p \in Hosts |-> <<>>]
  /\ session = [p \in Hosts |-> Nobody]
  /\ peer = [p \in Hosts |-> Nobody]
  /\ up = [p \in Hosts |-> <<>>]
  /\ down = [p \in Hosts |-> <<>>]
  /\ upEnd = [p \in Hosts |-> "open"]
  /\ downEnd = [p \in Hosts |-> "open"]
  /\ faults = 0

-----------------------------------------------------------------------------
(* Processes *)

At(p, location) == pc[p] = location
Goto(p, location) == pc' = [pc EXCEPT ![p] = location] /\ UNCHANGED outcome

\* The process is over but for the closing of its sockets.
Finish(p, how) ==
  /\ pc' = [pc EXCEPT ![p] = "exit"]
  /\ outcome' = [outcome EXCEPT ![p] = how]

Show(p, packet) == terminal' = [terminal EXCEPT ![p] = Append(@, packet)]

\* A process is killed, or a call fails for a reason outside the model.
Fault(kind) ==
  /\ kind \in FaultKinds
  /\ faults < MaxFaults
  /\ faults' = faults + 1

-----------------------------------------------------------------------------
(* Making connections *)

Listen(p) == listening' = listening \cup {p} /\ UNCHANGED <<queue, session>>

Accept(h) ==
  /\ queue[h] # <<>>
  /\ session' = [session EXCEPT ![h] = Head(queue[h])]
  /\ queue' = [queue EXCEPT ![h] = Tail(@)]
  /\ UNCHANGED listening

\* Linux queues one connection more than the backlog.
HasRoom(h) == Len(queue[h]) <= Backlog

Join(p, h) ==
  /\ h \in listening /\ HasRoom(h)
  /\ peer' = [peer EXCEPT ![p] = h]
  /\ queue' = [queue EXCEPT ![h] = Append(@, p)]
  /\ UNCHANGED <<listening, session, up, down, upEnd, downEnd>>

\* The programs ask for SO_REUSEADDR | SO_REUSEPORT, which is 2 | 15 and means
\* SO_REUSEPORT: all that listen at an address share it, and the kernel chooses
\* one of them for each connection, whether it still accepts or not.
Connect(p, ip) == \E h \in listening : HostOf[h] = ip /\ Join(p, h)

\* Refused, unreachable, or timed out in front of a full queue.
ConnectFails(ip) ==
  \/ \A h \in listening : HostOf[h] # ip
  \/ \E h \in listening : HostOf[h] = ip /\ ~HasRoom(h)

-----------------------------------------------------------------------------
(* Moving bytes *)

\* How many of the bytes in flight one recv of at most n bytes can return; 0
\* is the end of the stream.
ReadCounts(stream, end, n) ==
  LET all == AtMost(Len(stream), n)
  IN  IF stream = <<>> THEN IF end = "fin" THEN {0} ELSE {}
      ELSE IF ShortReads THEN 1..all ELSE {all}

\* A connection reset by the other end fails one call and reads as ended
\* afterwards.
WasReset(stream, end) == stream = <<>> /\ end = "rst"

DropFirst(stream, k) == SubSeq(stream, k + 1, Len(stream))

\* To or from the process that p has connected to.
SendUp(p, bytes) ==
  /\ downEnd[p] # "rst"
  /\ up' = IF downEnd[p] = "open" THEN [up EXCEPT ![p] = @ \o bytes] ELSE up
  /\ UNCHANGED <<listenVars, peer, down, upEnd, downEnd>>

SendUpFails(p) ==
  /\ downEnd[p] = "rst"
  /\ downEnd' = [downEnd EXCEPT ![p] = "fin"]
  /\ UNCHANGED <<listenVars, peer, up, down, upEnd>>

ReadDown(p, k, n) ==
  /\ k \in ReadCounts(down[p], downEnd[p], n)
  /\ down' = [down EXCEPT ![p] = DropFirst(@, k)]
  /\ UNCHANGED <<listenVars, peer, up, upEnd, downEnd>>

ReadDownFails(p) ==
  /\ WasReset(down[p], downEnd[p])
  /\ downEnd' = [downEnd EXCEPT ![p] = "fin"]
  /\ UNCHANGED <<listenVars, peer, up, down, upEnd>>

\* To or from the process whose connection h has accepted.
SendDown(h, bytes) ==
  /\ upEnd[session[h]] # "rst"
  /\ down' = IF upEnd[session[h]] = "open"
             THEN [down EXCEPT ![session[h]] = @ \o bytes] ELSE down
  /\ UNCHANGED <<listenVars, peer, up, upEnd, downEnd>>

SendDownFails(h) ==
  /\ upEnd[session[h]] = "rst"
  /\ upEnd' = [upEnd EXCEPT ![session[h]] = "fin"]
  /\ UNCHANGED <<listenVars, peer, up, down, downEnd>>

ReadUp(h, k, n) ==
  /\ k \in ReadCounts(up[session[h]], upEnd[session[h]], n)
  /\ up' = [up EXCEPT ![session[h]] = DropFirst(@, k)]
  /\ UNCHANGED <<listenVars, peer, down, upEnd, downEnd>>

ReadUpFails(h) ==
  /\ WasReset(up[session[h]], upEnd[session[h]])
  /\ upEnd' = [upEnd EXCEPT ![session[h]] = "fin"]
  /\ UNCHANGED <<listenVars, peer, up, down, downEnd>>

-----------------------------------------------------------------------------
(* Ending *)

\* How the other end may see a socket close.  With bytes left unread it is
\* aborted, unless those bytes were still on their way when it closed.
ClosedEnds(end, unread) ==
  CASE end # "open" -> {end}
    [] end = "open" /\ unread = <<>> -> {"fin"}
    [] OTHER -> {"fin", "rst"}

\* The kernel closes every socket of a process that ends.
Release(p) ==
  /\ pc' = [pc EXCEPT ![p] = "gone"]
  /\ listening' = listening \ {p}
  /\ queue' = [queue EXCEPT ![p] = <<>>]
  /\ IF peer[p] = Nobody THEN UNCHANGED upEnd
     ELSE \E e \in ClosedEnds(upEnd[p], down[p]) : upEnd' = [upEnd EXCEPT ![p] = e]
  /\ \E e \in IF session[p] = Nobody THEN {"fin"}
              ELSE ClosedEnds(downEnd[session[p]], up[session[p]]) :
       downEnd' = [q \in Hosts |-> IF q \in ToSet(queue[p]) THEN "rst"
                                   ELSE IF q = session[p] THEN e ELSE downEnd[q]]
  /\ UNCHANGED <<terminal, session, peer, up, down>>

Exit(p) ==
  /\ At(p, "exit")
  /\ Release(p)
  /\ UNCHANGED <<outcome, faults>>

\* The user stops a running program, or it dies.
Kill(p) ==
  /\ pc[p] \notin {"start", "exit", "gone"}
  /\ Fault("kill")
  /\ Release(p)
  /\ outcome' = [outcome EXCEPT ![p] = "killed"]
=============================================================================
