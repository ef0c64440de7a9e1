SPECIFICATION MemorySpec
CONSTANTS
  MaxPayload = 128
  RequestLen = 7
  ReplyLen = 26

INVARIANTS
  OnlyTheTerminator
  LosesOnlyUnsent

CHECK_DEADLOCK FALSE
