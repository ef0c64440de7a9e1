SPECIFICATION Spec
CONSTANTS
  Nobody = Nobody
  Hosts = {c1, c2, s1, d1}
  Clients = {c1, c2}
  Servers = {s1}
  Dests = {d1}
  HostOf <- OwnHosts
  ServerHost = Nobody
  DestHost = Nobody
  Chars <- MCChars
  Request <- MCRequest
  Reply <- MCReply
  CommandLine <- KnownNames
  MaxPayload = 3
  SizeLimit = 8
  Backlog = 0
  ShortReads = FALSE
  FaultKinds = {"kill"}
  MaxFaults = 0
INVARIANTS NoCrash
CHECK_DEADLOCK FALSE
