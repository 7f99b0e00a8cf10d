------------------------------- MODULE MCSmc -------------------------------
(***************************************************************************)
(* Instances of Smc for TLC: two pages, a block inside the first page and  *)
(* one that straddles both.                                                *)
(***************************************************************************)
EXTENDS Smc

CONSTANTS p1, p2, b1, b2

MCPagesOf == [b \in Blocks |-> IF b = b1 THEN {p1} ELSE Pages]
=============================================================================
