------------------------------- MODULE MCSwitch -------------------------------
(***************************************************************************)
(* Switch for TLC: three ports on two networks and a table of two entries, *)
(* so that ports move, entries go stale and the table overflows.           *)
(***************************************************************************)
EXTENDS Switch, TLC

Symmetry == Permutations(PortIds) \cup Permutations(Networks) \cup Permutations(Macs)

===============================================================================
