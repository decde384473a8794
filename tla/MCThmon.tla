------------------------------ MODULE MCThmon -------------------------------
(***************************************************************************)
(* Thmon for TLC: hard caps on ICMP and PPS, and on RST but not on FIN,    *)
(* which looks at the same value.                                          *)
(***************************************************************************)
EXTENDS Thmon

NoCaps    == [n \in Names |-> 0]
MixedCaps == [NoCaps EXCEPT !["ICMP"] = 1, !["PPS"] = 1, !["RST"] = 1]
=============================================================================
