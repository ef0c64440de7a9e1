SPECIFICATION FairSpec
CONSTANTS
  Nobody = Nobody
  Hosts = {c1, s1, d1, idle}
  Clients = {c1}
  Servers = {s1}
  Dests = {d1}
  HostOf <- OwnHosts
  ServerHost = Nobody
  DestHost = Nobody
  Chars <- MCChars
  Request <- MCRequest
  Reply <- MCReply
  CommandLine <- AnyNames
  MaxPayload = 3
  SizeLimit = 8
  Backlog = 0
  ShortReads = TRUE
  FaultKinds = {"kill", "call"}
  MaxFaults = 2
INVARIANTS TypeOK TunnelEncrypted ClientHidden CleanText AuthenticReply
PROPERTIES ReturnsUnlessStuck
CHECK_DEADLOCK FALSE
