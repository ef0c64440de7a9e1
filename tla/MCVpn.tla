------------------------------- MODULE MCVpn -------------------------------
(***************************************************************************)
(* Instances of Vpn for TLC.                                               *)
(***************************************************************************)
EXTENDS Vpn

CONSTANTS ServerHost, DestHost   \* the hosts of the programs that share one

MCRequest == <<Clear("q")>>
MCReply == <<Clear("a"), Clear("b")>>
MCChars == {"q", "a", "b"}

\* Every process on a host of its own, or those that run the same program on one.
OwnHosts == [p \in Hosts |-> p]
SharedHosts == [p \in Hosts |-> IF p \in Servers THEN ServerHost
                                ELSE IF p \in Dests THEN DestHost ELSE p]

\* Users type any host name or an unknown one, and know their own host.
AnyNames ==
  [c \in Clients |-> {n \in Names : n.own \in {HostOf[c], Nobody}}]

\* Users know the servers, and take servers for destinations as well.
KnownNames ==
  LET hosts(programs) == {HostOf[p] : p \in programs}
  IN  [c \in Clients |-> {n \in Names : /\ n.own = HostOf[c]
                                        /\ n.server \in hosts(Servers)
                                        /\ n.dest \in hosts(Servers \cup Dests)}]

\* Processes of the same program can be exchanged.
SameRole == Permutations(Clients) \cup Permutations(Servers) \cup Permutations(Dests)
=============================================================================
