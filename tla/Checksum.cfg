SPECIFICATION IpSpec
CONSTANTS
  Addresses <- MCAddresses
  MaxPayloadBytes = 128
INVARIANTS ChecksumVerifies
CHECK_DEADLOCK FALSE
