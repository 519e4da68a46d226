----------------------------- MODULE SwitchProofs -----------------------------
(***************************************************************************)
(* Proofs about Switch for any ports, networks, addresses and capacity.    *)
(* SwitchInv is the inductive invariant: stamps are distinct, the table is *)
(* finite and within its capacity, and an entry names the port its address *)
(* last spoke from.                                                        *)
(***************************************************************************)
EXTENDS Switch, FiniteSetTheorems, WellFoundedInduction, TLAPS

Tables(now) == [Addresses -> [port : PortIds, seen : 1..now] \cup {None}]

DistinctStamps(table) ==
  \A m, k \in Known(table) : table[m].seen = table[k].seen => m = k

WithinCapacity(table) ==
  /\ IsFiniteSet(Known(table))
  /\ Cardinality(Known(table)) <= Capacity

EvictedIsOldest(table, after, m) ==
  \A k, l \in Known(table) :
    k \notin Known(after) /\ l \in Known(after) /\ l # m
      => table[k].seen < table[l].seen

SwitchInv ==
  /\ TypeOK
  /\ DistinctStamps(entries)
  /\ WithinCapacity(entries)
  /\ \A m \in Known(entries) : entries[m].port = spoken[m]

-------------------------------------------------------------------------------
\* A finite non-empty set of naturals has a least element, stated for the stamps
\* of a table: Lru exists, because every non-empty set of naturals has a minimum.
LEMMA LruSpec ==
  ASSUME NEW now \in Nat, NEW table \in Tables(now), Known(table) # {}
  PROVE  /\ Lru(table) \in Known(table)
         /\ \A k \in Known(table) : table[Lru(table)].seen <= table[k].seen
<1> DEFINE S == {table[k].seen : k \in Known(table)}
<1>1. \A k \in Known(table) : table[k].seen \in Nat
  BY SwitchAssumption DEF Tables, Known
<1>2. S \subseteq Nat /\ S # {}
  BY <1>1
<1> DEFINE Less == {e \in Nat \X Nat : e[1] < e[2]}
<1>3. IsWellFoundedOn(Less, Nat)
  BY NatLessThanWellFounded, Zenon DEF OpToRel
<1>4. PICK n \in S : \A x \in S : ~ (<<x, n>> \in Less)
  <2> HIDE DEF Less, S
  <2> QED
    BY <1>2, <1>3, WFMin
<1>5. PICK m \in Known(table) : table[m].seen = n
  BY <1>4
<1>6. ASSUME NEW k \in Known(table)
      PROVE  table[m].seen <= table[k].seen
  <2>1. n \in Nat /\ table[k].seen \in Nat
    BY <1>1, <1>2
  <2>2. ~ (<<table[k].seen, n>> \in Less)
    BY <1>4
  <2>3. ~ (table[k].seen < n)
    BY <2>1, <2>2
  <2> QED
    BY <1>5, <2>1, <2>3
<1> QED
  BY <1>5, <1>6 DEF Lru
\* What learn() does to a well-formed table: the source gets the new stamp, every
\* other entry stays or is the one evicted, and the table stays well-formed.
LEMMA LearnSpec ==
  ASSUME NEW now \in Nat, NEW table \in Tables(now),
         DistinctStamps(table), WithinCapacity(table),
         NEW port \in PortIds, NEW m \in Addresses,
         NEW after, after = Learn(table, port, m, now + 1)
  PROVE  /\ after \in Tables(now + 1)
         /\ DistinctStamps(after)
         /\ WithinCapacity(after)
         /\ Capacity = 0 => after = table
         /\ Capacity # 0 => after[m] = [port |-> port, seen |-> now + 1]
         /\ \A k \in Addresses \ {m} : after[k] \in {table[k], None}
         /\ EvictedIsOldest(table, after, m)
<1> DEFINE full == table[m] = None /\ Cardinality(Known(table)) = Capacity
           lru  == Lru(table)
           room == IF full THEN [table EXCEPT ![lru] = None] ELSE table
           new  == [port |-> port, seen |-> now + 1]
<1>0. new # None /\ new \in [port : PortIds, seen : 1..(now + 1)] /\ Capacity \in Nat
  BY SwitchAssumption
<1>1. CASE Capacity = 0
  <2>1. after = table
    BY <1>1 DEF Learn
  <2>2. Known(table) = {}
    BY <1>1, FS_EmptySet, FS_CardinalityType DEF WithinCapacity
  <2> QED
    BY <1>1, <2>1, <2>2 DEF Tables, DistinctStamps, EvictedIsOldest
<1>2. CASE Capacity # 0
  <2>1. after = [room EXCEPT ![m] = new]
    BY <1>2 DEF Learn
  <2>2. full => Known(table) # {}
    BY <1>2, FS_EmptySet
  <2>3. full => /\ lru \in Known(table)
                /\ lru # m
                /\ \A k \in Known(table) : table[lru].seen <= table[k].seen
    BY <2>2, LruSpec DEF Known
  <2>4. \A k \in Addresses : room[k] = IF full /\ k = lru THEN None ELSE table[k]
    BY DEF Tables
  <2>5. \A k \in Addresses :
          after[k] = IF k = m THEN new ELSE IF full /\ k = lru THEN None ELSE table[k]
    BY <2>1, <2>4 DEF Tables
  <2>6. after \in Tables(now + 1)
    <3>1. DOMAIN after = Addresses /\ after = [k \in Addresses |-> after[k]]
      BY <2>1 DEF Tables
    <3>2. \A k \in Addresses :
            after[k] \in [port : PortIds, seen : 1..(now + 1)] \cup {None}
      BY <1>0, <2>5 DEF Tables
    <3> QED
      BY <3>1, <3>2 DEF Tables
  <2>7. Known(after) = (IF full THEN Known(table) \ {lru} ELSE Known(table)) \cup {m}
    BY <1>0, <2>3, <2>5 DEF Known
  <2>8. \A k \in Known(table) : table[k].seen \in 1..now
    BY SwitchAssumption DEF Tables, Known
  <2>9. DistinctStamps(after)
    <3>1. \A k \in Known(after) \ {m} : k \in Known(table) /\ after[k] = table[k]
      BY <2>5, <2>7 DEF Known
    <3>2. after[m].seen = now + 1
      BY <2>5
    <3> QED
      BY <2>8, <3>1, <3>2 DEF DistinctStamps
  <2>10. WithinCapacity(after)
    <3>1. CASE full
      <4> DEFINE rest == Known(table) \ {lru}
      <4>1. IsFiniteSet(rest) /\ Cardinality(rest) = Capacity - 1
        BY <2>3, <3>1, FS_RemoveElement DEF WithinCapacity
      <4>2. Known(after) = rest \cup {m}
        BY <2>7, <3>1
      <4> HIDE DEF rest
      <4>3. /\ IsFiniteSet(rest \cup {m})
            /\ Cardinality(rest \cup {m}) \in {Cardinality(rest), Cardinality(rest) + 1}
        BY <4>1, FS_AddElement
      <4>4. Cardinality(rest \cup {m}) <= Capacity
        BY <1>0, <4>1, <4>3
      <4> QED
        BY <4>2, <4>3, <4>4, Zenon DEF WithinCapacity
    <3>2. CASE ~full
      <4>1. Known(after) = Known(table) \cup {m}
        BY <2>7, <3>2
      <4>2. CASE table[m] # None
        <5>1. Known(after) = Known(table)
          BY <4>1, <4>2 DEF Known
        <5> QED
          BY <5>1 DEF WithinCapacity
      <4>3. CASE table[m] = None
        <5>1. Cardinality(Known(table)) \in Nat /\ Cardinality(Known(table)) < Capacity
          BY <1>0, <3>2, <4>3, FS_CardinalityType DEF WithinCapacity
        <5>2. /\ IsFiniteSet(Known(table) \cup {m})
              /\ Cardinality(Known(table) \cup {m})
                   \in {Cardinality(Known(table)), Cardinality(Known(table)) + 1}
          BY FS_AddElement DEF WithinCapacity
        <5>3. Cardinality(Known(table) \cup {m}) <= Capacity
          BY <1>0, <5>1, <5>2
        <5> QED
          BY <4>1, <5>2, <5>3, Zenon DEF WithinCapacity
      <4> QED
        BY <4>2, <4>3
    <3> QED
      BY <3>1, <3>2
  <2>11. ASSUME NEW k \in Known(table), NEW l \in Known(table),
                k \notin Known(after), l \in Known(after), l # m
         PROVE  table[k].seen < table[l].seen
    <3>1. full /\ k = lru /\ l # k
      BY <2>7, <2>11
    <3>2. table[k].seen <= table[l].seen /\ table[k].seen # table[l].seen
      BY <2>3, <3>1 DEF DistinctStamps
    <3> QED
      BY <2>8, <3>2
  <2> QED
    BY <1>2, <2>5, <2>6, <2>9, <2>10, <2>11 DEF EvictedIsOldest
<1> QED
  BY <1>1, <1>2

-------------------------------------------------------------------------------
\* Where a frame can go: live ports of the network, never the ingress.
LEMMA EgressSpec ==
  ASSUME TypeOK, NEW i \in PortIds, ports[i] # None,
         NEW now \in Nat, NEW table \in Tables(now), NEW dst \in Addresses
  PROVE  /\ \A j \in FloodSet(ports[i], i) :
                j \in PortIds /\ j # i /\ ports[j] = ports[i]
         /\ \A j \in UnicastEgress(table, ports[i], i, dst) :
                j \in PortIds /\ j # i /\ ports[j] = ports[i]
<1>1. \A j \in FloodSet(ports[i], i) : j \in PortIds /\ j # i /\ ports[j] = ports[i]
  BY DEF FloodSet
<1>2. table[dst] # None => table[dst].port \in PortIds
  BY DEF Tables
<1> QED
  BY <1>1, <1>2 DEF UnicastEgress

\* The initial state has an empty table.
LEMMA SwitchInit == Init => SwitchInv
<1> SUFFICES ASSUME Init PROVE SwitchInv
  OBVIOUS
<1>1. TypeOK
  BY DEF Init, TypeOK
<1>2. Known(entries) = {}
  BY DEF Init, Known
<1>3. WithinCapacity(entries)
  BY <1>2, FS_EmptySet, SwitchAssumption DEF WithinCapacity
<1> QED
  BY <1>1, <1>2, <1>3 DEF SwitchInv, DistinctStamps

\* A frame at a live port preserves the invariant.
LEMMA ForwardKeepsInv ==
  ASSUME SwitchInv, NEW i \in PortIds, NEW src \in Addresses, NEW dst \in Addresses,
         Forward(i, src, dst)
  PROVE  SwitchInv'
<1>1. /\ ports[i] # None
      /\ clock \in Nat
      /\ entries \in Tables(clock)
      /\ entries' = Learn(entries, i, src, clock + 1)
  BY DEF Forward, SwitchInv, TypeOK, Tables
<1>2. /\ entries' \in Tables(clock + 1)
      /\ DistinctStamps(entries')
      /\ WithinCapacity(entries')
      /\ Capacity = 0 => entries' = entries
      /\ Capacity # 0 => entries'[src] = [port |-> i, seen |-> clock + 1]
      /\ \A k \in Addresses \ {src} : entries'[k] \in {entries[k], None}
  BY <1>1, LearnSpec DEF SwitchInv
<1>3. TypeOK'
  <2>1. clock' \in Nat /\ entries' \in Tables(clock')
    BY <1>1, <1>2 DEF Forward
  <2>2. egress' \subseteq PortIds
    BY <1>1, <1>2, EgressSpec DEF Forward, SwitchInv
  <2>3. ports[i] \in Networks
    BY <1>1 DEF SwitchInv, TypeOK
  <2>4. spoken' \in [Addresses -> PortIds \cup {None}]
    BY <2>3 DEF Forward, SwitchInv, TypeOK
  <2>5. ports' \in [PortIds -> Networks \cup {None}]
    BY DEF Forward, SwitchInv, TypeOK
  <2> QED
    BY <2>1, <2>2, <2>4, <2>5 DEF TypeOK, Tables
<1>4. \A m \in Known(entries') : entries'[m].port = spoken'[m]
  <2> SUFFICES ASSUME NEW m \in Known(entries') PROVE entries'[m].port = spoken'[m]
    OBVIOUS
  <2>1. m \in Addresses /\ entries'[m] # None
    BY DEF Known
  <2>2. spoken' = [spoken EXCEPT ![src] = i] /\ spoken \in [Addresses -> PortIds \cup {None}]
    BY DEF Forward, SwitchInv, TypeOK
  <2>3. CASE Capacity = 0
    <3>1. Known(entries) = {}
      BY <2>3, FS_EmptySet, FS_CardinalityType DEF SwitchInv, WithinCapacity
    <3> QED
      BY <1>2, <2>1, <2>3, <3>1 DEF Known
  <2>4. CASE Capacity # 0 /\ m = src
    BY <1>2, <2>2, <2>4
  <2>5. CASE m # src
    <3>1. entries'[m] = entries[m] /\ m \in Known(entries)
      BY <1>2, <2>1, <2>5 DEF Known
    <3> QED
      BY <2>1, <2>2, <2>5, <3>1 DEF SwitchInv
  <2> QED
    BY <2>3, <2>4, <2>5
<1> QED
  BY <1>2, <1>3, <1>4 DEF SwitchInv

\* Every step preserves the invariant.
LEMMA SwitchStep == SwitchInv /\ [Next]_vars => SwitchInv'
<1> SUFFICES ASSUME SwitchInv, [Next]_vars PROVE SwitchInv'
  OBVIOUS
<1>1. ASSUME UNCHANGED <<entries, clock, spoken>>,
             ports' \in [PortIds -> Networks \cup {None}], egress' \subseteq PortIds
      PROVE  SwitchInv'
  <2>1. TypeOK'
    BY <1>1 DEF SwitchInv, TypeOK
  <2> QED
    BY <1>1, <2>1 DEF SwitchInv, DistinctStamps, WithinCapacity, Known
<1>2. ASSUME NEW i \in PortIds, NEW n \in Networks, AddPort(i, n) PROVE SwitchInv'
  BY <1>1, <1>2 DEF AddPort, SwitchInv, TypeOK
<1>3. ASSUME NEW i \in PortIds, RemovePort(i) PROVE SwitchInv'
  BY <1>1, <1>3 DEF RemovePort, SwitchInv, TypeOK
<1>4. ASSUME Reject PROVE SwitchInv'
  BY <1>1, <1>4 DEF Reject, SwitchInv, TypeOK
<1>5. ASSUME UNCHANGED vars PROVE SwitchInv'
  BY <1>1, <1>5 DEF vars, SwitchInv, TypeOK
<1> QED
  BY <1>2, <1>3, <1>4, <1>5, ForwardKeepsInv DEF Next

\* The inductive invariant of the switch holds in every reachable state.
LEMMA SwitchInvariant == Spec => []SwitchInv
<1> QED
  BY SwitchInit, SwitchStep, PTL DEF Spec

-------------------------------------------------------------------------------
\* Switch::add_port, remove_port and forward keep every variable in its type.
THEOREM SwitchTypeCorrect == Spec => []TypeOK
<1>1. SwitchInv => TypeOK
  BY DEF SwitchInv
<1> QED
  BY <1>1, SwitchInvariant, PTL

\* MacTable::learn never lets the table outgrow its capacity, whatever is
\* learned, and gives every entry a stamp of its own.
THEOREM TableStaysBounded == Spec => []TableBounded
<1>1. SwitchInv => TableBounded
  BY DEF SwitchInv, WithinCapacity, DistinctStamps, TableBounded
<1> QED
  BY <1>1, SwitchInvariant, PTL

\* Switch::forward keeps networks isolated although one table serves them all
\* and its entries outlive the ports they name.
THEOREM NetworksIsolated == Spec => Isolation
<1>1. ASSUME SwitchInv, NEW i \in PortIds, NEW src \in Addresses, NEW dst \in Addresses,
             Forward(i, src, dst)
      PROVE  \A j \in egress' : j # i /\ ports[j] = ports[i]
  <2>1. clock \in Nat /\ entries \in Tables(clock) /\ ports[i] # None
    BY <1>1 DEF SwitchInv, TypeOK, Tables, Forward
  <2>2. entries' \in Tables(clock + 1)
    BY <1>1, <2>1, LearnSpec DEF SwitchInv, Forward
  <2> QED
    BY <1>1, <2>1, <2>2, EgressSpec DEF SwitchInv, Forward
<1>2. SwitchInv /\ [Next]_vars =>
        [\A i \in PortIds, src \in Addresses, dst \in Addresses :
           Forward(i, src, dst) => \A j \in egress' : j # i /\ ports[j] = ports[i]]_vars
  BY <1>1
<1> QED
  BY <1>2, SwitchInvariant, PTL DEF Spec, Isolation

\* Learning, refreshing and evicting never hide the port an address last spoke
\* from: an entry that exists names it, and without an entry the frame floods.
THEOREM SpeakersStayReachable == Spec => SpeakerReachable
<1>1. ASSUME SwitchInv, SwitchInv',
             NEW i \in PortIds, NEW src \in Addresses, NEW dst \in Macs,
             Forward(i, src, dst), spoken'[dst] # None, spoken'[dst] # i,
             ports[spoken'[dst]] = ports[i]
      PROVE  spoken'[dst] \in egress'
  <2> DEFINE j == spoken'[dst]
  <2>1. dst \in Addresses /\ j \in PortIds /\ ports[i] # None
    BY <1>1 DEF Addresses, SwitchInv, TypeOK, Forward
  <2>2. egress' = UnicastEgress(entries', ports[i], i, dst)
    BY <1>1 DEF Forward
  <2>3. j \in FloodSet(ports[i], i)
    BY <1>1, <2>1 DEF FloodSet
  <2>4. entries'[dst] # None => entries'[dst].port = j
    BY <1>1, <2>1 DEF SwitchInv, Known
  <2> QED
    BY <1>1, <2>1, <2>2, <2>3, <2>4 DEF UnicastEgress
<1>2. SwitchInv /\ SwitchInv' /\ [Next]_vars =>
        [\A i \in PortIds, src \in Addresses, dst \in Macs :
           /\ Forward(i, src, dst)
           /\ spoken'[dst] # None
           /\ spoken'[dst] # i
           /\ ports[spoken'[dst]] = ports[i]
           => spoken'[dst] \in egress']_vars
  BY <1>1
<1> QED
  BY <1>2, SwitchInvariant, PTL DEF Spec, SpeakerReachable

\* MacTable::learn evicts the entry that was used longest ago, and only that.
THEOREM EvictionIsByAge == Spec => EvictsOldest
<1>1. ASSUME SwitchInv, Next, NEW m \in Addresses, NEW k \in Addresses,
             m \in Known(entries), m \notin Known(entries'),
             k \in Known(entries), k \in Known(entries')
      PROVE  entries[m].seen < entries[k].seen
  <2>1. PICK i \in PortIds, src \in Addresses, dst \in Addresses : Forward(i, src, dst)
    <3>1. entries' # entries
      BY <1>1
    <3> QED
      BY <1>1, <3>1 DEF Next, AddPort, RemovePort, Reject
  <2>2. /\ clock \in Nat
        /\ entries \in Tables(clock)
        /\ entries' = Learn(entries, i, src, clock + 1)
    BY <1>1, <2>1 DEF SwitchInv, TypeOK, Tables, Forward
  <2>3. Capacity # 0
    BY <1>1, <2>2 DEF Learn
  <2>4. CASE k # src
    <3>1. DistinctStamps(entries) /\ WithinCapacity(entries)
      BY <1>1 DEF SwitchInv
    <3>2. EvictedIsOldest(entries, entries', src)
      BY <2>2, <3>1, LearnSpec
    <3> QED
      BY <1>1, <2>4, <3>2 DEF EvictedIsOldest
  <2>5. CASE k = src
    <3>1. entries[src] # None
      BY <1>1, <2>5 DEF Known
    <3>2. entries' = [entries EXCEPT ![src] = [port |-> i, seen |-> clock + 1]]
      BY <2>2, <2>3, <3>1 DEF Learn
    <3>3. m # src /\ entries'[m] = entries[m]
      BY <1>1, <2>5, <3>2
    <3> QED
      BY <1>1, <3>3 DEF Known
  <2> QED
    BY <2>4, <2>5
<1>2. SwitchInv /\ [Next]_vars =>
        [\A m, k \in Addresses :
           /\ m \in Known(entries) /\ m \notin Known(entries')
           /\ k \in Known(entries) /\ k \in Known(entries')
           => entries[m].seen < entries[k].seen]_vars
  BY <1>1
<1> QED
  BY <1>2, SwitchInvariant, PTL DEF Spec, EvictsOldest

===============================================================================
