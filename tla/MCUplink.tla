------------------------------ MODULE MCUplink ------------------------------
(***************************************************************************)
(* The uplink for TLC: packets of a header of two octets and one more, a   *)
(* buffer of one octet more than a packet, two telecommands in the first   *)
(* session and one in the second.                                          *)
(***************************************************************************)
EXTENDS Uplink

MCMaxSent == <<2, 1>>
=============================================================================
