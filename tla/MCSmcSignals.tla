---------------------------- MODULE MCSmcSignals ----------------------------
(***************************************************************************)
(* Instances of SmcSignals for TLC: every block covers every page.         *)
(***************************************************************************)
EXTENDS SmcSignals

MCPagesOf == [b \in Blocks |-> Pages]
=============================================================================
