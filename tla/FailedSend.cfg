SPECIFICATION FairSpec
CONSTANTS
  Nobody = Nobody
  Hosts = {c1, s1, d1}
  Clients = {c1}
  Servers = {s1}
  Dests = {d1}
  HostOf <- OwnHosts
  ServerHost = Nobody
  DestHost = Nobody
  Chars <- MCChars
  Request <- MCRequest
  Reply <- MCReply
  CommandLine <- KnownNames
  MaxPayload = 3
  SizeLimit = 8
  Backlog = 0
  ShortReads = FALSE
  FaultKinds = {"call"}
  MaxFaults = 1
PROPERTIES ClientReturns
CHECK_DEADLOCK FALSE
