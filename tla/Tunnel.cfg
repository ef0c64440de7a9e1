SPECIFICATION TunnelSpec
CONSTANTS
  Hosts = {h1, h2}
  Src = h1
  Dst = h2
  Nothing = Nothing
  Chars <- MCChars
  Texts <- MCTexts
  MaxPayload = 4
  SizeLimit = 16
INVARIANTS TunnelTypeOK TextArrives HeadersArrive WireEncrypted
CHECK_DEADLOCK FALSE
