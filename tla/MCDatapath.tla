------------------------------ MODULE MCDatapath ------------------------------
(***************************************************************************)
(* Datapath for TLC: two networks, two VMs and one switch id to spare, so  *)
(* that ports move, are deleted and come back under their name.            *)
(***************************************************************************)
EXTENDS Datapath, TLC

CONSTANTS n1, n2, g1, g2

MCGwMac == [n \in {n1, n2} |-> IF n = n1 THEN g1 ELSE g2]

\* Networks are exchanged together with their gateways.
Symmetry ==
  Permutations(Names) \cup Permutations(Macs) \cup
  {[x \in {n1, n2, g1, g2} |->
      CASE x = n1 -> n2 [] x = n2 -> n1 [] x = g1 -> g2 [] x = g2 -> g1]}

\* One address per network, so that every second client meets exhaustion.
MCPool == <<1, 1>>

===============================================================================
