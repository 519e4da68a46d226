-------------------------------- MODULE Switch --------------------------------
(***************************************************************************)
(* The L2 forwarding engine: switch/engine.rs over switch/mac_table.rs.    *)
(* One MAC table serves all networks; ports come and go through the        *)
(* control plane while entries learned on them stay, and a port id can be  *)
(* added again on another network.  A frame is its source and destination  *)
(* address; frame.rs either parses it or the frame is dropped.             *)
(***************************************************************************)
EXTENDS Naturals, FiniteSets

CONSTANTS PortIds,
          Networks,
          Macs,          \* addresses with the I-bit clear
          GroupMacs,     \* broadcast and multicast addresses
          Capacity,      \* MAC_TABLE_CAPACITY
          MaxClock,      \* bound on learned frames
          None

Addresses == Macs \cup GroupMacs

ASSUME SwitchAssumption ==
  /\ Capacity \in Nat
  /\ MaxClock \in Nat
  /\ None \notin PortIds
  /\ None \notin Networks
  /\ None \notin [port : PortIds, seen : Nat]
  /\ Macs \cap GroupMacs = {}

VARIABLES
  ports,      \* Switch.ports: the network of every live port
  entries,    \* MacTable.entries: port and recency stamp of a learned MAC
  clock,      \* MacTable.clock
  egress,     \* the ports the last frame went to
  spoken      \* history: the port each address last sent a frame from

vars == <<ports, entries, clock, egress, spoken>>

-------------------------------------------------------------------------------
(* MacTable *)

Known(table) == {m \in Addresses : table[m] # None}

\* Fault variant of Lru: the most recently used entry.
Mru(table) ==
  CHOOSE m \in Known(table) : \A k \in Known(table) : table[k].seen <= table[m].seen

\* The entry learn() evicts at capacity.
Lru(table) ==
  CHOOSE m \in Known(table) : \A k \in Known(table) : table[m].seen <= table[k].seen

\* Fault variant of Learn: a known MAC keeps its port when it moves.
LearnOnce(table, port, m, now) ==
  IF Capacity = 0 \/ table[m] # None THEN table
  ELSE LET room == IF Cardinality(Known(table)) = Capacity
                   THEN [table EXCEPT ![Lru(table)] = None] ELSE table
       IN  [room EXCEPT ![m] = [port |-> port, seen |-> now]]

\* Fault variant of Learn: eviction only once the table is past its capacity.
LearnLateEviction(table, port, m, now) ==
  IF Capacity = 0 THEN table
  ELSE LET room == IF table[m] = None /\ Cardinality(Known(table)) > Capacity
                   THEN [table EXCEPT ![Lru(table)] = None] ELSE table
       IN  [room EXCEPT ![m] = [port |-> port, seen |-> now]]

\* Fault variant of Learn: the stamp is one ahead of the clock.
LearnStampAhead(table, port, m, now) ==
  IF Capacity = 0 THEN table
  ELSE LET room == IF table[m] = None /\ Cardinality(Known(table)) = Capacity
                   THEN [table EXCEPT ![Lru(table)] = None] ELSE table
       IN  [room EXCEPT ![m] = [port |-> port, seen |-> now + 1]]

\* MacTable::learn: refresh a known MAC, else make room and insert.
Learn(table, port, m, now) ==
  IF Capacity = 0 THEN table
  ELSE LET room == IF table[m] = None /\ Cardinality(Known(table)) = Capacity
                   THEN [table EXCEPT ![Lru(table)] = None] ELSE table
       IN  [room EXCEPT ![m] = [port |-> port, seen |-> now]]

-------------------------------------------------------------------------------
(* Switch *)

\* Every live port on the network except one.
FloodSet(network, exclude) ==
  {i \in PortIds : i # exclude /\ ports[i] # None /\ ports[i] = network}

\* Fault variant of UnicastEgress: the learned port's network is not compared.
UnicastAnywhere(table, network, ingress, dst) ==
  IF table[dst] = None THEN FloodSet(network, ingress)
  ELSE LET port == table[dst].port
       IN  IF port = ingress \/ ports[port] = None THEN {} ELSE {port}

\* A learned destination: dropped when it is the ingress or a removed port,
\* delivered on the same network, flooded when learned on another one.
UnicastEgress(table, network, ingress, dst) ==
  IF table[dst] = None THEN FloodSet(network, ingress)
  ELSE LET port == table[dst].port
       IN  IF port = ingress \/ ports[port] = None THEN {}
           ELSE IF ports[port] = network THEN {port}
           ELSE FloodSet(network, ingress)

AddPort(i, network) ==
  /\ ports' = [ports EXCEPT ![i] = network]
  /\ egress' = {}
  /\ UNCHANGED <<entries, clock, spoken>>

RemovePort(i) ==
  /\ ports[i] # None
  /\ ports' = [ports EXCEPT ![i] = None]
  /\ egress' = {}
  /\ UNCHANGED <<entries, clock, spoken>>

\* forward at a live port: learn the source, then look the destination up.
Forward(i, src, dst) ==
  /\ ports[i] # None
  /\ clock < MaxClock
  /\ clock' = IF Capacity = 0 THEN clock ELSE clock + 1
  /\ entries' = Learn(entries, i, src, clock + 1)
  /\ egress' = IF dst \in Macs
               THEN UnicastEgress(entries', ports[i], i, dst)
               ELSE FloodSet(ports[i], i)
  /\ spoken' = [spoken EXCEPT ![src] = i]
  /\ UNCHANGED ports

\* A frame at a port that is not live, or one frame.rs rejects: not learned.
Reject ==
  /\ egress' = {}
  /\ UNCHANGED <<ports, entries, clock, spoken>>

Init ==
  /\ ports = [i \in PortIds |-> None]
  /\ entries = [m \in Addresses |-> None]
  /\ clock = 0
  /\ egress = {}
  /\ spoken = [m \in Addresses |-> None]

Next ==
  \/ \E i \in PortIds, n \in Networks : AddPort(i, n)
  \/ \E i \in PortIds : RemovePort(i)
  \/ \E i \in PortIds, src \in Addresses, dst \in Addresses : Forward(i, src, dst)
  \/ Reject

Spec == Init /\ [][Next]_vars

-------------------------------------------------------------------------------
\* Every variable holds a value of its type, no stamp is ahead of the clock.
TypeOK ==
  /\ ports \in [PortIds -> Networks \cup {None}]
  /\ entries \in [Addresses -> [port : PortIds, seen : 1..clock] \cup {None}]
  /\ clock \in Nat
  /\ egress \subseteq PortIds
  /\ spoken \in [Addresses -> PortIds \cup {None}]

\* mac_table.rs: "The table never grows beyond `capacity`", and no two entries
\* share a recency stamp, so that there is one least recently used entry.
TableBounded ==
  /\ Cardinality(Known(entries)) <= Capacity
  /\ \A m, k \in Known(entries) : entries[m].seen = entries[k].seen => m = k

\* Networks are isolated L2 segments (REQ-002): a frame only leaves through live
\* ports of the network it came in on, and never through its ingress, whatever
\* the table still says of ports that were removed or moved.
Isolation ==
  [][\A i \in PortIds, src \in Addresses, dst \in Addresses :
       Forward(i, src, dst) =>
         \A j \in egress' : j # i /\ ports[j] = ports[i]]_vars

\* Learning and eviction together: when the port an address last spoke from is
\* live on the sender's network, a frame to that address reaches it, whether the
\* entry is still there, was refreshed, or was evicted.
SpeakerReachable ==
  [][\A i \in PortIds, src \in Addresses, dst \in Macs :
       /\ Forward(i, src, dst)
       /\ spoken'[dst] # None
       /\ spoken'[dst] # i
       /\ ports[spoken'[dst]] = ports[i]
       => spoken'[dst] \in egress']_vars

\* Eviction is by recency: what is evicted was used before everything kept.
EvictsOldest ==
  [][\A m, k \in Addresses :
       /\ m \in Known(entries) /\ m \notin Known(entries')
       /\ k \in Known(entries) /\ k \in Known(entries')
       => entries[m].seen < entries[k].seen]_vars

===============================================================================
