----------------------------- MODULE MCIpHeader -----------------------------
(***************************************************************************)
(* The real sizes: the seven hosts 10.0.0.1 to 10.0.0.7 and 128 bytes of   *)
(* payload.                                                                *)
(***************************************************************************)
EXTENDS IpHeader

MCAddresses == {<<10 * 256, h>> : h \in 1..7}
=============================================================================
