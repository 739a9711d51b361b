---------------------------- MODULE MCAuditTrail ----------------------------
(* Three append calls: two can overlap while a third one precedes, follows  *)
(* or lies between them, and a log of three has a middle entry to lose.     *)
EXTENDS AuditTrail, TLC

CallSymmetry == Permutations(Calls)
=============================================================================
