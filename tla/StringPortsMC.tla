---------------------------- MODULE StringPortsMC ----------------------------
(* Which cell a new string or port gets makes no difference.                *)
EXTENDS StringPorts, TLC

CellSymmetry == Permutations(Strings) \cup Permutations(Ports)
=============================================================================
