---------------------------- MODULE MCControlPlane ----------------------------
(***************************************************************************)
(* Small instances of ControlPlane for TLC.                                *)
(***************************************************************************)
EXTENDS ControlPlane, TLC

\* A /29 with its gateway below a pool of two addresses.
TwoAddresses == [base |-> 8, top |-> 15, gw |-> 8, lo |-> 9, hi |-> 10]
\* The same block with one address to give.
OneAddress   == [base |-> 8, top |-> 15, gw |-> 8, lo |-> 9, hi |-> 9]
\* Rejected by Network::new: the pool contains the gateway.
PoolHasGateway == [base |-> 8, top |-> 15, gw |-> 9, lo |-> 9, hi |-> 10]

MCNets      == {1}
MCNetParams == {TwoAddresses, PoolHasGateway}
MCOneParams == {OneAddress}

Symmetry == Permutations(Ports) \cup Permutations(Macs) \cup Permutations(VmPorts)

===============================================================================
