----------------------------- MODULE HostTable -----------------------------
(***************************************************************************)
(* The table of hosts: how a name is read and looked up, and an address    *)
(* turned from text into the number a packet carries and back.             *)
(*                                                                         *)
(* A string is a sequence of characters without its 0, NULL the empty      *)
(* sequence.  A 32-bit address is <<high, low>>, its 16-bit halves.        *)
(***************************************************************************)
EXTENDS Integers, SequencesExt

DigitChars == <<"0", "1", "2", "3", "4", "5", "6", "7", "8", "9">>
Digit(n) == DigitChars[n + 1]
DigitOf(char) == CHOOSE n \in 0..9 : Digit(n) = char

NULL == <<>>
HostNames == {<<"h", Digit(n)>> : n \in 1..7}
HostIp(name) == <<"1", "0", ".", "0", ".", "0", ".">> \o Tail(name)

\* Mutant: only the first characters count, as strncmp would have it.
GetHostIpByPrefix(name) ==
  IF \E h \in HostNames : IsPrefix(h, name) THEN HostIp(SubSeq(name, 1, 2)) ELSE NULL

GetHostIp(name) == IF name \in HostNames THEN HostIp(name) ELSE NULL

-----------------------------------------------------------------------------
(* Addresses and their text *)

\* The while of parse_ip_addr stops at a dot or at the end.
OctetEnd(ip, start) ==
  CHOOSE e \in start..(Len(ip) + 1) :
    /\ e <= Len(ip) => ip[e] = "."
    /\ \A i \in start..(e - 1) : ip[i] # "."

OctetStart(ip) ==
  LET start[n \in 1..4] ==
        IF n = 1 THEN 1
        ELSE LET e == OctetEnd(ip, start[n - 1]) IN IF e <= Len(ip) THEN e + 1 ELSE e
  IN  start

\* Mutant: octet is not set back to 0.
ParseIpAddrKeepingOctet(ip) ==
  LET octet(n) == FoldLeft(LAMBDA val, char : IF char = "." THEN val
                                              ELSE (10 * val + DigitOf(char)) % 256, 0,
                           SubSeq(ip, 1, OctetEnd(ip, OctetStart(ip)[n]) - 1))
  IN  <<256 * octet(1) + octet(2), 256 * octet(3) + octet(4)>>

\* The decimal number that starts there.
Octet(ip, start) ==
  LET end == OctetEnd(ip, start)
      octet[i \in start..end] ==
        IF i = start THEN 0 ELSE 10 * octet[i - 1] + DigitOf(ip[i - 1])
  IN  octet[end]

ParseIpAddr(ip) ==
  LET octet(n) == Octet(ip, OctetStart(ip)[n])
  IN  <<256 * octet(1) + octet(2), 256 * octet(3) + octet(4)>>

\* %d of a number below 1000.
Decimal(n) ==
  (IF n >= 100 THEN <<Digit((n \div 100) % 10)>> ELSE <<>>)
  \o (IF n >= 10 THEN <<Digit((n \div 10) % 10)>> ELSE <<>>)
  \o <<Digit(n % 10)>>

ParseIpAddrToStr(a) ==
  Decimal(a[1] \div 256) \o <<".">> \o Decimal(a[1] % 256) \o <<".">>
  \o Decimal(a[2] \div 256) \o <<".">> \o Decimal(a[2] % 256)

-----------------------------------------------------------------------------
AddressSize == 4 * 4   \* of the buffers an address is printed into

\* What fgets and strcspn leave of a line in a buffer of n characters.
ReadName(line, n) == SubSeq(line, 1, IF Len(line) < n THEN Len(line) ELSE n - 1)
=============================================================================
