------------------------------- MODULE MCWire -------------------------------
(***************************************************************************)
(* The table of hosts, the two messages and their characters.              *)
(***************************************************************************)
EXTENDS Wire

MCHosts == {"h1", "h2", "h3", "h4", "h5", "h6", "h7"}
MCNameOf == [h \in MCHosts |-> <<"h", Digit(CHOOSE n \in 1..7 : "h" \o ToString(n) = h)>>]
MCAddresses == {AddressOf(h) : h \in MCHosts}

Letters == <<"a", "b", "c", "d", "e", "f", "g", "h", "i", "j", "k", "l", "m",
             "n", "o", "p", "q", "r", "s", "t", "u", "v", "w", "x", "y", "z">>
MCAscii == [c \in Range(Letters) |-> 96 + (CHOOSE i \in DOMAIN Letters : Letters[i] = c)]
           @@ " " :> 32 @@ "!" :> 33 @@ "H" :> 72

MCRequestText == <<"p", "a", "y", "l", "o", "a", "d">>
MCReplyText == <<"H", "e", "l", "l", "o", " ", "f", "r", "o", "m", " ", "t", "h", "e", " ",
                 "o", "t", "h", "e", "r", " ", "s", "i", "d", "e", "!">>
=============================================================================
