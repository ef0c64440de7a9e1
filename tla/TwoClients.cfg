SPECIFICATION Spec
CONSTANTS
  Nobody = Nobody
  Hosts = {c1, c2, s1, s2, d1, d2, sh, dh}
  Clients = {c1, c2}
  Servers = {s1, s2}
  Dests = {d1, d2}
  HostOf <- SharedHosts
  ServerHost = sh
  DestHost = dh
  Chars <- MCChars
  Request <- MCRequest
  Reply <- MCReply
  CommandLine <- KnownNames
  MaxPayload = 3
  SizeLimit = 8
  Backlog = 0
  ShortReads = FALSE
  FaultKinds = {"kill", "call"}
  MaxFaults = 1
INVARIANTS AuthenticReply
PROPERTIES RelaySpec
SYMMETRY SameRole
CHECK_DEADLOCK FALSE
