------------------------------ MODULE Allocators ------------------------------
(***************************************************************************)
(* The two lowest-free allocators of k8netd as pure operators:             *)
(*   - ipam.rs:   one network's MAC -> IPv4 reservations;                  *)
(*   - model.rs:  the publish table, (port, vm_port) -> host_port.         *)
(* A Rust map is a total function whose value is None where the map has no *)
(* entry; addresses and TCP ports are natural numbers.                     *)
(***************************************************************************)
EXTENDS Naturals

CONSTANTS Ports,        \* port names
          Macs,         \* VM MAC addresses
          VmPorts,      \* VM-side TCP ports
          HostLo,       \* publish_range.0
          HostHi,       \* publish_range.1 (inclusive)
          None          \* Rust's None: no entry

ASSUME AllocatorsAssumption ==
  /\ HostLo \in Nat
  /\ HostHi \in Nat
  /\ None \notin Nat
  /\ None \notin Macs
  /\ None \notin Ports

-------------------------------------------------------------------------------
\* Both allocators scan `lo..=hi` upwards for the first value not in use.
IsLowestFree(x, lo, hi, used) ==
  /\ x \in lo..hi
  /\ x \notin used
  /\ \A y \in lo..hi : y < x => y \in used

LowestFree(lo, hi, used) ==
  IF \E x \in lo..hi : IsLowestFree(x, lo, hi, used)
  THEN CHOOSE x \in lo..hi : IsLowestFree(x, lo, hi, used)
  ELSE None

-------------------------------------------------------------------------------
\* ipam.rs: the reservations of one network.
Leases == [Macs -> Nat \cup {None}]

NoLeases == [m \in Macs |-> None]

\* Fault variant of IpamAllocate: the bound addresses are not skipped.
IpamAllocateIgnoringBound(leases, lo, hi, m) ==
  IF leases[m] # None
  THEN leases
  ELSE [leases EXCEPT ![m] = LowestFree(lo, hi, {})]

\* Ipam::allocate: the existing binding, else the lowest free pool address.
\* On PoolExhausted the table is unchanged, so leases'[m] stays None.
IpamAllocate(leases, lo, hi, m) ==
  IF leases[m] # None
  THEN leases
  ELSE [leases EXCEPT ![m] = LowestFree(lo, hi, {leases[k] : k \in Macs})]

\* Ipam::release. Releasing an unknown MAC is an error that changes nothing.
IpamRelease(leases, m) == [leases EXCEPT ![m] = None]

-------------------------------------------------------------------------------
\* model.rs: the publish table.
HostPorts == HostLo..HostHi

Forwards == [VmPorts -> HostPorts \cup {None}]

NoForwards == [v \in VmPorts |-> None]

PublishTables == [Ports -> Forwards]

NoPublished == [p \in Ports |-> NoForwards]

UsedHostPorts(table) == {table[e[1]][e[2]] : e \in Ports \X VmPorts}

\* Fault variant of PublishAllocate: only the port's own entries count as used.
PublishAllocatePerPort(table, p, v) ==
  IF table[p][v] # None
  THEN table
  ELSE [table EXCEPT ![p][v] =
          LowestFree(HostLo, HostHi, {table[p][w] : w \in VmPorts})]

\* Fault variant of PublishAllocate: the scan runs one past the range.
PublishAllocatePastEnd(table, p, v) ==
  IF table[p][v] # None
  THEN table
  ELSE [table EXCEPT ![p][v] = LowestFree(HostLo, HostHi + 1, UsedHostPorts(table))]

\* PublishTable::allocate, including the get() that precedes it: on exhaustion
\* the table is unchanged, so table'[p][v] stays None.
PublishAllocate(table, p, v) ==
  IF table[p][v] # None
  THEN table
  ELSE [table EXCEPT ![p][v] = LowestFree(HostLo, HostHi, UsedHostPorts(table))]

\* PublishTable::remove.
PublishRemove(table, p, v) == [table EXCEPT ![p][v] = None]

\* Fault variant of PublishRemovePort: nothing is freed.
PublishRemovePortForgotten(table, p) == table

\* PublishTable::remove_port.
PublishRemovePort(table, p) == [table EXCEPT ![p] = NoForwards]

\* No host port is recorded for two different (port, vm_port) pairs.
OneOwner(table) ==
  \A p, q \in Ports : \A v, w \in VmPorts :
    table[p][v] # None /\ table[p][v] = table[q][w] => p = q /\ v = w

===============================================================================
