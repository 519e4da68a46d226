--------------------------- MODULE AllocatorsProofs ---------------------------
(***************************************************************************)
(* What the allocators return, preserve and never hand out twice, for any  *)
(* sets of ports, MACs and TCP ports and any pool or range.                *)
(***************************************************************************)
EXTENDS Allocators, TLAPS

\* The scan returns a free value of the range, or None.
LEMMA LowestFreeSpec ==
  ASSUME NEW lo, NEW hi, NEW used
  PROVE  \/ LowestFree(lo, hi, used) = None
         \/ /\ LowestFree(lo, hi, used) \in lo..hi
            /\ LowestFree(lo, hi, used) \notin used
<1>1. CASE \E x \in lo..hi : IsLowestFree(x, lo, hi, used)
  <2>1. PICK x \in lo..hi : IsLowestFree(x, lo, hi, used)
    BY <1>1
  <2>2. LowestFree(lo, hi, used) = CHOOSE y \in lo..hi : IsLowestFree(y, lo, hi, used)
    BY <1>1 DEF LowestFree
  <2>3. /\ LowestFree(lo, hi, used) \in lo..hi
        /\ IsLowestFree(LowestFree(lo, hi, used), lo, hi, used)
    BY <2>1, <2>2
  <2> QED
    BY <2>3 DEF IsLowestFree
<1>2. CASE ~ \E x \in lo..hi : IsLowestFree(x, lo, hi, used)
  BY <1>2 DEF LowestFree
<1> QED
  BY <1>1, <1>2

\* Ipam::allocate keeps every other binding; the MAC's own stays, or becomes a
\* pool address nobody holds, or stays None when the pool is exhausted.
LEMMA IpamAllocateSpec ==
  ASSUME NEW leases \in Leases, NEW lo \in Nat, NEW hi \in Nat, NEW m \in Macs
  PROVE  LET new == IpamAllocate(leases, lo, hi, m)
         IN  /\ new \in Leases
             /\ \A k \in Macs : k # m => new[k] = leases[k]
             /\ \/ new = leases
                \/ /\ new[m] \in lo..hi
                   /\ \A k \in Macs : leases[k] # new[m]
<1> DEFINE free == LowestFree(lo, hi, {leases[k] : k \in Macs})
           new  == IpamAllocate(leases, lo, hi, m)
<1>1. \/ free = None
      \/ free \in lo..hi /\ \A k \in Macs : leases[k] # free
  BY LowestFreeSpec
<1>2. CASE leases[m] # None
  BY <1>2 DEF IpamAllocate
<1>3. CASE leases[m] = None /\ free = None
  <2>1. new = [leases EXCEPT ![m] = None]
    BY <1>3 DEF IpamAllocate
  <2>2. new = leases
    BY <2>1, <1>3 DEF Leases
  <2> QED
    BY <2>2
<1>4. CASE leases[m] = None /\ free \in lo..hi /\ \A k \in Macs : leases[k] # free
  <2> HIDE DEF free
  <2>1. new = [leases EXCEPT ![m] = free]
    BY <1>4 DEF IpamAllocate, free
  <2>2. free \in Nat
    BY <1>4
  <2> HIDE DEF new
  <2>3. new \in Leases /\ new[m] = free /\ \A k \in Macs : k # m => new[k] = leases[k]
    BY <2>1, <2>2 DEF Leases
  <2> QED
    BY <2>3, <1>4 DEF new
<1> QED
  BY <1>1, <1>2, <1>3, <1>4

\* Ipam::release keeps every other binding.
LEMMA IpamReleaseSpec ==
  ASSUME NEW leases \in Leases, NEW m
  PROVE  /\ IpamRelease(leases, m) \in Leases
         /\ \A k \in Macs : IpamRelease(leases, m)[k] \in {leases[k], None}
BY DEF Leases, IpamRelease

\* PublishTable::allocate keeps every recorded entry and changes no other pair.
LEMMA PublishAllocateSpec ==
  ASSUME NEW table \in PublishTables, NEW p \in Ports, NEW v \in VmPorts
  PROVE  LET new == PublishAllocate(table, p, v)
         IN  /\ new \in PublishTables
             /\ \A q \in Ports, w \in VmPorts :
                  <<q, w>> # <<p, v>> => new[q][w] = table[q][w]
             /\ \/ new = table
                \/ /\ table[p][v] = None
                   /\ new[p][v] \in HostPorts
                   /\ \A q \in Ports, w \in VmPorts : table[q][w] # new[p][v]
<1> DEFINE free == LowestFree(HostLo, HostHi, UsedHostPorts(table))
           new  == PublishAllocate(table, p, v)
<1>1. \/ free = None
      \/ free \in HostPorts /\ \A q \in Ports, w \in VmPorts : table[q][w] # free
  <2>1. \/ free = None
        \/ free \in HostPorts /\ free \notin UsedHostPorts(table)
    BY LowestFreeSpec DEF HostPorts
  <2>2. ASSUME NEW q \in Ports, NEW w \in VmPorts
        PROVE  table[q][w] \in UsedHostPorts(table)
    <3>1. <<q, w>> \in Ports \X VmPorts /\ <<q, w>>[1] = q /\ <<q, w>>[2] = w
      OBVIOUS
    <3> QED
      BY <3>1 DEF UsedHostPorts
  <2> QED
    BY <2>1, <2>2
<1>2. CASE table[p][v] # None
  BY <1>2 DEF PublishAllocate
<1>3. CASE table[p][v] = None /\ free = None
  <2>1. new = [table EXCEPT ![p][v] = None]
    BY <1>3 DEF PublishAllocate
  <2>2. new = table
    BY <2>1, <1>3 DEF PublishTables, Forwards
  <2> QED
    BY <2>2
<1>4. CASE /\ table[p][v] = None
           /\ free \in HostPorts
           /\ \A q \in Ports, w \in VmPorts : table[q][w] # free
  <2> HIDE DEF free
  <2>1. new = [table EXCEPT ![p][v] = free]
    BY <1>4 DEF PublishAllocate, free
  <2> HIDE DEF new
  <2>2. /\ new \in PublishTables
        /\ new[p][v] = free
        /\ \A q \in Ports, w \in VmPorts : <<q, w>> # <<p, v>> => new[q][w] = table[q][w]
    BY <2>1, <1>4 DEF PublishTables, Forwards
  <2> QED
    BY <2>2, <1>4 DEF new
<1> QED
  BY <1>1, <1>2, <1>3, <1>4

\* PublishTable::remove and remove_port only take entries away.
LEMMA PublishRemoveSpec ==
  ASSUME NEW table \in PublishTables, NEW p \in Ports, NEW v \in VmPorts
  PROVE  /\ PublishRemove(table, p, v) \in PublishTables
         /\ PublishRemove(table, p, v)[p][v] = None
         /\ \A q \in Ports, w \in VmPorts :
              <<q, w>> # <<p, v>> => PublishRemove(table, p, v)[q][w] = table[q][w]
BY DEF PublishTables, Forwards, PublishRemove

LEMMA PublishRemovePortSpec ==
  ASSUME NEW table \in PublishTables, NEW p \in Ports
  PROVE  /\ PublishRemovePort(table, p) \in PublishTables
         /\ PublishRemovePort(table, p)[p] = NoForwards
         /\ \A q \in Ports : q # p => PublishRemovePort(table, p)[q] = table[q]
BY DEF PublishTables, Forwards, PublishRemovePort, NoForwards

\* Allocating a host port never gives it a second owner.
THEOREM AllocationKeepsOneOwner ==
  ASSUME NEW table \in PublishTables, NEW p \in Ports, NEW v \in VmPorts,
         OneOwner(table)
  PROVE  OneOwner(PublishAllocate(table, p, v))
<1> DEFINE new == PublishAllocate(table, p, v)
<1>1. /\ \A q \in Ports, w \in VmPorts : <<q, w>> # <<p, v>> => new[q][w] = table[q][w]
      /\ \/ new = table
         \/ /\ table[p][v] = None
            /\ new[p][v] \in HostPorts
            /\ \A q \in Ports, w \in VmPorts : table[q][w] # new[p][v]
  BY PublishAllocateSpec
<1> HIDE DEF new
<1>2. OneOwner(new)
  BY <1>1 DEF OneOwner
<1> QED
  BY <1>2 DEF new

===============================================================================
