------------------------------ MODULE MCTunnel ------------------------------
(***************************************************************************)
(* Every text no longer than the payload, of letters and the key byte.     *)
(***************************************************************************)
EXTENDS Tunnel

MCChars == {"q", "r"}
MCTexts == BoundedSeq({Clear("q"), Clear("r"), Masked("zero")}, MaxPayload)
=============================================================================
