------------------------------- MODULE Relay -------------------------------
(***************************************************************************)
(* What the VPN promises, without packets, keys or sockets: a client's     *)
(* question travels to the destination it named through the server it      *)
(* named, and an answer travels the same way back.  Nobody is asked,       *)
(* answers or is told twice, and any step may never come.                  *)
(***************************************************************************)
CONSTANTS Clients, Servers, Dests, HostOf

VARIABLES asked,     \* <<c, s, ip>>: client c asks server s to relay to the host ip
          relayed,   \* <<c, s, d>>: s has taken c's question to d
          answered,  \* <<s, d>>: d has answered what s brought
          told       \* <<c, s, ip>>: c has seen an answer from there

relayVars == <<asked, relayed, answered, told>>

RelayInit == asked = {} /\ relayed = {} /\ answered = {} /\ told = {}

Ask(c, s, ip) ==
  /\ \A x \in asked : x[1] # c
  /\ asked' = asked \cup {<<c, s, ip>>}
  /\ UNCHANGED <<relayed, answered, told>>

Take(c, s, d) ==
  /\ <<c, s, HostOf[d]>> \in asked
  /\ \A x \in relayed : x[2] # s
  /\ relayed' = relayed \cup {<<c, s, d>>}
  /\ UNCHANGED <<asked, answered, told>>

Answer(c, s, d) ==
  /\ <<c, s, d>> \in relayed
  /\ \A x \in answered : x[2] # d
  /\ answered' = answered \cup {<<s, d>>}
  /\ UNCHANGED <<asked, relayed, told>>

Tell(c, s, d) ==
  /\ <<c, s, d>> \in relayed
  /\ <<s, d>> \in answered
  /\ \A x \in told : x[1] # c /\ x[2] # s
  /\ told' = told \cup {<<c, s, HostOf[d]>>}
  /\ UNCHANGED <<asked, relayed, answered>>

RelayNext ==
  \E c \in Clients, s \in Servers, d \in Dests :
    Ask(c, s, HostOf[d]) \/ Take(c, s, d) \/ Answer(c, s, d) \/ Tell(c, s, d)

RelaySpec == RelayInit /\ [][RelayNext]_relayVars
=============================================================================
