SPECIFICATION IpSpec
CONSTANTS
  Addresses <- MCAddresses
  MaxPayloadBytes = 128
INVARIANTS RewriteKeepsTheRest
CHECK_DEADLOCK FALSE
