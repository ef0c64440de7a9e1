SPECIFICATION WireSpec
CONSTANTS
  Addresses <- MCAddresses
  MaxPayloadBytes = 128
  Hosts <- MCHosts
  NameOf <- MCNameOf
  Client = "h1"
  Server = "h2"
  RequestText <- MCRequestText
  ReplyText <- MCReplyText
  Ascii <- MCAscii
  Cuts = {0, 3, 6, 14, 20, 24, 26, 40, 46, 50}
  MaxNameLength = 5
  Typable = {"h", "1", "3", "9"}
  LineLimit = 5

INVARIANTS
  AddressesAreReal
  TextIsReal
  OnlyWholeNames
  AnyAddressSurvives
  FieldsSurvive

CHECK_DEADLOCK FALSE
