---------------------------- MODULE DatapathProofs ----------------------------
(***************************************************************************)
(* Where frames go and what DHCP promises, for any ports, networks, VMs,   *)
(* pool, table capacity and number of upstreams.                           *)
(***************************************************************************)
EXTENDS Datapath, TLAPS

Alloc == INSTANCE AllocatorsProofs
           WITH Ports <- Names, VmPorts <- {}, HostLo <- 0, HostHi <- 0

\* The three maps of the data path agree with the control plane's: an id in the
\* switch or the gateway is that of a port, on the network the port is on.
Mirrors ==
  /\ gwNets = networks
  /\ \A p \in Names : ports[p] # None => nameOf[ports[p].id] = p
  /\ \A i \in Ids :
       /\ switchPorts[i] # None =>
            /\ PortOf(i) # None
            /\ switchPorts[i] =
                 IF PortOf(i).network = None THEN Unattached ELSE PortOf(i).network
       /\ gwPorts[i] = IF PortOf(i) = None THEN None ELSE PortOf(i).network

OneHolder(bound) ==
  \A m, k \in Macs : bound[m] # None /\ bound[m] = bound[k] => m = k

\* No address has two holders.
Exclusive == \A n \in Nets : OneHolder(leases[n])

\* The port that asked is there until it is answered.
Asking == query # None => nameOf[query.pump] # None /\ ports[nameOf[query.pump]] # None

DatapathInv ==
  /\ TypeOK /\ Mirrors /\ Exclusive /\ AcksHold /\ Asking
  /\ StaysInNetwork /\ RouterTrafficStaysOwn

Tables(now) == [Unicast \cup Group -> [port : Ids, seen : 1..now] \cup {None}]

-------------------------------------------------------------------------------
(* The operators *)

\* None is none of the things the allocators keep.
LEMMA Marks == 0 \in Nat /\ None \notin Nat /\ None \notin Macs /\ None \notin Names
  BY DatapathAssumption, NoneAssumption

\* Ipam::allocate as AllocatorsProofs states it.
LEMMA AllocateFacts ==
  ASSUME NEW bound \in Alloc!Leases, NEW lo \in Nat, NEW hi \in Nat, NEW m \in Macs
  PROVE  LET new == Alloc!IpamAllocate(bound, lo, hi, m)
         IN  /\ new \in Alloc!Leases
             /\ \A k \in Macs : k # m => new[k] = bound[k]
             /\ new = bound \/ \A k \in Macs : bound[k] # new[m]
<1> DEFINE new == Alloc!IpamAllocate(bound, lo, hi, m)
<1>1. new \in Alloc!Leases
  BY Marks, Alloc!IpamAllocateSpec
<1>2. \A k \in Macs : k # m => new[k] = bound[k]
  BY Marks, Alloc!IpamAllocateSpec
<1>3. new = bound \/ \A k \in Macs : bound[k] # new[m]
  BY Marks, Alloc!IpamAllocateSpec
<1> QED
  BY <1>1, <1>2, <1>3

\* Ipam::allocate keeps one holder per address and every binding there is.
LEMMA AllocateSpec ==
  ASSUME NEW bound \in Alloc!Leases, NEW m \in Macs, OneHolder(bound),
         NEW new, new = Ipam!IpamAllocate(bound, Pool[1], Pool[2], m)
  PROVE  /\ new \in [Macs -> Nat \cup {None}]
         /\ \A k \in Macs : bound[k] # None => new[k] = bound[k]
         /\ OneHolder(new)
<1>1. PICK lo \in Nat, hi \in Nat : lo = Pool[1] /\ hi = Pool[2]
  BY DatapathAssumption
<1> DEFINE same == Alloc!IpamAllocate(bound, lo, hi, m)
<1>2. same = new
  BY <1>1, Zenon DEF Alloc!IpamAllocate, Ipam!IpamAllocate, Alloc!LowestFree, Ipam!LowestFree,
     Alloc!IsLowestFree, Ipam!IsLowestFree
<1>3. same \in Alloc!Leases
  BY AllocateFacts
<1>4. \A k \in Macs : k # m => same[k] = bound[k]
  BY AllocateFacts
<1>5. same = bound \/ \A k \in Macs : bound[k] # same[m]
  BY AllocateFacts
<1>6. bound[m] # None => new = bound
  BY DEF Ipam!IpamAllocate
<1> HIDE DEF same
<1> QED
  BY <1>2, <1>3, <1>4, <1>5, <1>6 DEF Alloc!Leases, OneHolder

\* Ipam::release takes one binding away and leaves the others.
LEMMA ReleaseSpec ==
  ASSUME NEW bound \in [Macs -> Nat \cup {None}], NEW m, OneHolder(bound),
         NEW new, new = Ipam!IpamRelease(bound, m)
  PROVE  /\ new \in [Macs -> Nat \cup {None}]
         /\ \A k \in Macs : new[k] = IF k = m THEN None ELSE bound[k]
         /\ OneHolder(new)
  BY DEF Ipam!IpamRelease, OneHolder

\* MacTable::learn keeps the table's type.
LEMMA LearnTyped ==
  ASSUME NEW now \in Nat, NEW old \in Tables(now), NEW i \in Ids, NEW m \in Unicast \cup Group
  PROVE  Sw!Learn(old, i, m, now + 1) \in Tables(now + 1)
<1> DEFINE room == [old EXCEPT ![Sw!Lru(old)] = None]
           new == [port |-> i, seen |-> now + 1]
<1>1. room \in Tables(now)
  BY DEF Tables
<1>2. Tables(now) \subseteq Tables(now + 1) /\ new \in [port : Ids, seen : 1..(now + 1)]
  <2>1. 1..now \subseteq 1..(now + 1) /\ now + 1 \in 1..(now + 1)
    OBVIOUS
  <2> QED
    BY <2>1 DEF Tables
<1>3. \A t \in Tables(now + 1) : [t EXCEPT ![m] = new] \in Tables(now + 1)
  BY <1>2 DEF Tables
<1>4. Sw!Learn(old, i, m, now + 1) \in {old, [old EXCEPT ![m] = new], [room EXCEPT ![m] = new]}
  BY DEF Sw!Learn
<1> HIDE DEF room, new
<1> QED
  BY <1>1, <1>2, <1>3, <1>4

\* Switch::forward delivers to live ports of the sender's own network.
LEMMA FabricSpec ==
  ASSUME TypeOK, NEW i \in Ids, NEW f \in Frames, Fabric(i, f)
  PROVE  /\ clock' \in 0..MaxClock /\ entries' \in Tables(clock')
         /\ out' \subseteq Ids
         /\ \A j \in out' : switchPorts[i] # None /\ switchPorts[j] = switchPorts[i]
<1>1. clock \in Nat /\ MaxClock \in Nat /\ entries \in Tables(clock) /\ clock < MaxClock
  BY DatapathAssumption DEF TypeOK, Tables, Fabric
<1>2. f.src \in Unicast \cup Group /\ f.dst \in Unicast \cup Group
  BY DEF Frames, Unicast
<1>3. CASE switchPorts[i] = None
  BY <1>1, <1>3 DEF Fabric
<1>4. CASE switchPorts[i] # None
  <2>1. clock' = IF Capacity = 0 THEN clock ELSE clock + 1
    BY <1>4 DEF Fabric
  <2>2. entries' = Sw!Learn(entries, i, f.src, clock')
    BY <1>4 DEF Fabric
  <2>3. entries' \in Tables(clock')
    <3>1. CASE Capacity = 0
      BY <1>1, <2>1, <2>2, <3>1 DEF Sw!Learn
    <3>2. CASE Capacity # 0
      BY <1>1, <1>2, <2>1, <2>2, <3>2, LearnTyped
    <3> QED
      BY <3>1, <3>2
  <2>4. \A j \in Sw!FloodSet(switchPorts[i], i) : j \in Ids /\ switchPorts[j] = switchPorts[i]
    BY DEF Sw!FloodSet
  <2>5. \A j \in Sw!UnicastEgress(entries', switchPorts[i], i, f.dst) :
          j \in Ids /\ switchPorts[j] = switchPorts[i]
    <3>1. entries'[f.dst] # None => entries'[f.dst].port \in Ids
      BY <1>2, <2>3 DEF Tables
    <3> QED
      BY <2>4, <3>1 DEF Sw!UnicastEgress
  <2>6. out' = IF f.dst \in Group THEN Sw!FloodSet(switchPorts[i], i)
               ELSE Sw!UnicastEgress(entries', switchPorts[i], i, f.dst)
    BY <1>4 DEF Fabric
  <2>7. clock' \in 0..MaxClock
    BY <1>1, <2>1
  <2> QED
    BY <1>4, <2>3, <2>4, <2>5, <2>6, <2>7
<1> QED
  BY <1>3, <1>4

-------------------------------------------------------------------------------
(* The control plane *)

\* Calls that leave ports, networks and bindings of others alone: what is left to
\* show of the invariant after a call.
LEMMA CallStep ==
  ASSUME DatapathInv, Call, TypeOK', Mirrors', Exclusive', AcksHold'
  PROVE  DatapathInv'
  BY DEF DatapathInv, Call, Free, Asking, StaysInNetwork, RouterTrafficStaysOwn

\* What a call leaves of the types it does not name.
LEMMA CallTyped ==
  ASSUME DatapathInv, Call,
         networks' \subseteq Nets, gwNets' \subseteq Nets,
         leases' \in [Nets -> [Macs -> Nat \cup {None}]],
         acked' \in [Nets -> [Macs -> Nat \cup {None}]],
         ports' \in [Names -> PortRecs \cup {None}],
         nameOf' \in [Ids -> Names \cup {None}],
         switchPorts' \in [Ids -> Nets \cup {Unattached, None}],
         gwPorts' \in [Ids -> Nets \cup {None}],
         passts' \in [Names -> BOOLEAN \cup {None}]
  PROVE  TypeOK'
<1>1. /\ entries' \in [Unicast \cup Group -> [port : Ids, seen : 1..clock'] \cup {None}]
      /\ clock' \in 0..MaxClock
      /\ query' = None \/ query' \in [pump : Ids, next : 1..(Upstreams + 1)]
      /\ poisoned' \in BOOLEAN
  BY DEF DatapathInv, TypeOK, Call, table
<1>2. out' = {} /\ sender' = None
  BY DEF Call
<1>3. ops' \in 0..MaxOps
  BY DatapathAssumption DEF DatapathInv, TypeOK, Call
<1> QED
  BY <1>1, <1>2, <1>3 DEF TypeOK

\* A binding taken back, or given where there was none, keeps what was ACKed.
LEMMA LeaseStep ==
  ASSUME DatapathInv, NEW n \in Nets, NEW new \in [Macs -> Nat \cup {None}],
         OneHolder(new), leases' = [leases EXCEPT ![n] = new]
  PROVE  /\ leases' \in [Nets -> [Macs -> Nat \cup {None}]]
         /\ \A k \in Nets : leases'[k] = IF k = n THEN new ELSE leases[k]
         /\ Exclusive'
<1>1. leases \in [Nets -> [Macs -> Nat \cup {None}]]
  BY DEF DatapathInv, TypeOK
<1>2. /\ leases' \in [Nets -> [Macs -> Nat \cup {None}]]
      /\ \A k \in Nets : leases'[k] = IF k = n THEN new ELSE leases[k]
  BY <1>1
<1>3. \A k \in Nets : OneHolder(leases[k])
  BY DEF DatapathInv, Exclusive
<1> QED
  BY <1>2, <1>3 DEF Exclusive

\* AcksHold after a step that keeps every binding it does not forget.
LEMMA AckStep ==
  ASSUME DatapathInv, Exclusive', acked' \in [Nets -> [Macs -> Nat \cup {None}]],
         \A n \in Nets, m \in Macs :
           acked'[n][m] # None =>
             /\ n \in networks'
             /\ leases'[n][m] = acked'[n][m]
  PROVE  AcksHold'
  BY DEF AcksHold, Exclusive, OneHolder

\* CreateNetwork and DeleteNetwork.
LEMMA NetworkSteps ==
  ASSUME DatapathInv, NEW n \in Nets, CreateNetwork(n) \/ DeleteNetwork(n)
  PROVE  DatapathInv'
<1>1. /\ Call /\ UNCHANGED <<ports, nameOf, switchPorts, gwPorts, passts>>
      /\ gwNets' = networks' /\ networks' \subseteq Nets
  BY DEF CreateNetwork, DeleteNetwork, DatapathInv, Mirrors, TypeOK
<1>2. Mirrors'
  BY <1>1 DEF DatapathInv, Mirrors, PortOf
<1>3. /\ leases' \in [Nets -> [Macs -> Nat \cup {None}]]
      /\ acked' \in [Nets -> [Macs -> Nat \cup {None}]]
      /\ Exclusive'
      /\ \A k \in Nets, m \in Macs :
           acked'[k][m] # None => k \in networks' /\ leases'[k][m] = acked'[k][m]
  <2>1. Ipam!NoLeases \in [Macs -> Nat \cup {None}] /\ OneHolder(Ipam!NoLeases)
    BY DEF Ipam!NoLeases, OneHolder
  <2>2. /\ acked \in [Nets -> [Macs -> Nat \cup {None}]]
        /\ leases \in [Nets -> [Macs -> Nat \cup {None}]]
    BY DEF DatapathInv, TypeOK
  <2>3. \A k \in Nets, m \in Macs :
          acked[k][m] # None => k \in networks /\ leases[k][m] = acked[k][m]
    BY DEF DatapathInv, AcksHold
  <2>4. CASE CreateNetwork(n)
    <3>1. /\ networks' = networks \cup {n} /\ n \notin networks /\ acked' = acked
          /\ leases' = [leases EXCEPT ![n] = Ipam!NoLeases]
      BY <2>4 DEF CreateNetwork
    <3>2. /\ leases' \in [Nets -> [Macs -> Nat \cup {None}]]
          /\ \A k \in Nets : leases'[k] = IF k = n THEN Ipam!NoLeases ELSE leases[k]
          /\ Exclusive'
      BY <2>1, <3>1, LeaseStep
    <3> QED
      BY <2>2, <2>3, <3>1, <3>2
  <2>5. CASE DeleteNetwork(n)
    <3>1. /\ networks' = networks \ {n} /\ leases' = leases
          /\ acked' = [acked EXCEPT ![n] = Ipam!NoLeases]
      BY <2>5 DEF DeleteNetwork
    <3>2. /\ acked' \in [Nets -> [Macs -> Nat \cup {None}]]
          /\ \A k \in Nets, m \in Macs : acked'[k][m] = IF k = n THEN None ELSE acked[k][m]
      BY <2>1, <2>2, <3>1 DEF Ipam!NoLeases
    <3>3. Exclusive'
      BY <3>1 DEF DatapathInv, Exclusive
    <3> QED
      BY <2>2, <2>3, <3>1, <3>2, <3>3
  <2> QED
    BY <2>4, <2>5
<1>4. AcksHold'
  BY <1>3, AckStep
<1>5. TypeOK'
  BY <1>1, <1>3, CallTyped DEF DatapathInv, TypeOK
<1> QED
  BY <1>1, <1>2, <1>3, <1>4, <1>5, CallStep

\* AllocateIp and ReleaseIp.
LEMMA AddressSteps ==
  ASSUME DatapathInv, NEW n \in Nets, NEW m \in Macs, AllocateIp(n, m) \/ ReleaseIp(n, m)
  PROVE  DatapathInv'
<1>1. Call /\ UNCHANGED <<networks, ports, nameOf, switchPorts, gwNets, gwPorts, passts>>
  BY DEF AllocateIp, ReleaseIp
<1>2. Mirrors'
  BY <1>1 DEF DatapathInv, Mirrors, PortOf
<1>3. /\ leases[n] \in [Macs -> Nat \cup {None}] /\ OneHolder(leases[n])
      /\ acked \in [Nets -> [Macs -> Nat \cup {None}]]
      /\ \A k \in Nets, l \in Macs :
           acked[k][l] # None => k \in networks /\ leases[k][l] = acked[k][l]
  BY DEF DatapathInv, TypeOK, Exclusive, AcksHold
<1>4. /\ leases' \in [Nets -> [Macs -> Nat \cup {None}]]
      /\ acked' \in [Nets -> [Macs -> Nat \cup {None}]]
      /\ Exclusive'
      /\ \A k \in Nets, l \in Macs :
           acked'[k][l] # None => k \in networks /\ leases'[k][l] = acked'[k][l]
  <2>1. CASE AllocateIp(n, m)
    <3> DEFINE new == Ipam!IpamAllocate(leases[n], Pool[1], Pool[2], m)
    <3>1. leases' = [leases EXCEPT ![n] = new] /\ acked' = acked
      BY <2>1 DEF AllocateIp
    <3>2. /\ new \in [Macs -> Nat \cup {None}] /\ OneHolder(new)
          /\ \A k \in Macs : leases[n][k] # None => new[k] = leases[n][k]
      <4>1. leases[n] \in Alloc!Leases /\ OneHolder(leases[n])
        BY <1>3 DEF Alloc!Leases
      <4> QED
        BY <4>1, AllocateSpec
    <3> HIDE DEF new
    <3>3. /\ leases' \in [Nets -> [Macs -> Nat \cup {None}]]
          /\ \A k \in Nets : leases'[k] = IF k = n THEN new ELSE leases[k]
          /\ Exclusive'
      BY <3>1, <3>2, LeaseStep
    <3> QED
      BY <1>3, <3>1, <3>2, <3>3
  <2>2. CASE ReleaseIp(n, m)
    <3> DEFINE new == Ipam!IpamRelease(leases[n], m)
    <3>1. leases' = [leases EXCEPT ![n] = new] /\ acked' = [acked EXCEPT ![n][m] = None]
      BY <2>2 DEF ReleaseIp, Forget
    <3>2. /\ new \in [Macs -> Nat \cup {None}] /\ OneHolder(new)
          /\ \A k \in Macs : new[k] = IF k = m THEN None ELSE leases[n][k]
      BY <1>3, ReleaseSpec
    <3> HIDE DEF new
    <3>3. /\ leases' \in [Nets -> [Macs -> Nat \cup {None}]]
          /\ \A k \in Nets : leases'[k] = IF k = n THEN new ELSE leases[k]
          /\ Exclusive'
      BY <3>1, <3>2, LeaseStep
    <3>4. /\ acked' \in [Nets -> [Macs -> Nat \cup {None}]]
          /\ \A k \in Nets, l \in Macs :
               acked'[k][l] = IF k = n /\ l = m THEN None ELSE acked[k][l]
      BY <1>3, <3>1
    <3> QED
      BY <1>3, <3>2, <3>3, <3>4
  <2> QED
    BY <2>1, <2>2
<1>5. AcksHold'
  BY <1>1, <1>4, AckStep
<1>6. TypeOK'
  BY <1>1, <1>4, CallTyped DEF DatapathInv, TypeOK
<1> QED
  BY <1>1, <1>2, <1>4, <1>5, <1>6, CallStep

\* The binding of an ended attachment is released and forgotten.
LEMMA ReleaseStep ==
  ASSUME DatapathInv, NEW n \in Nets, NEW m, networks' = networks,
         leases' = [leases EXCEPT ![n] = Ipam!IpamRelease(@, m)],
         acked' = Forget(n, m)
  PROVE  /\ leases' \in [Nets -> [Macs -> Nat \cup {None}]]
         /\ acked' \in [Nets -> [Macs -> Nat \cup {None}]]
         /\ Exclusive' /\ AcksHold'
<1>1. /\ leases[n] \in [Macs -> Nat \cup {None}] /\ OneHolder(leases[n])
      /\ acked \in [Nets -> [Macs -> Nat \cup {None}]]
      /\ \A k \in Nets, l \in Macs :
           acked[k][l] # None => k \in networks /\ leases[k][l] = acked[k][l]
  BY DEF DatapathInv, TypeOK, Exclusive, AcksHold
<1> DEFINE new == Ipam!IpamRelease(leases[n], m)
<1>2. /\ new \in [Macs -> Nat \cup {None}] /\ OneHolder(new)
      /\ \A k \in Macs : new[k] = IF k = m THEN None ELSE leases[n][k]
  BY <1>1, ReleaseSpec
<1>3. leases' = [leases EXCEPT ![n] = new]
  OBVIOUS
<1> HIDE DEF new
<1>4. /\ leases' \in [Nets -> [Macs -> Nat \cup {None}]]
      /\ \A k \in Nets : leases'[k] = IF k = n THEN new ELSE leases[k]
      /\ Exclusive'
  BY <1>2, <1>3, LeaseStep
<1>5. /\ acked' \in [Nets -> [Macs -> Nat \cup {None}]]
      /\ \A k \in Nets, l \in Macs :
           acked'[k][l] = IF k = n /\ l = m THEN None ELSE acked[k][l]
  BY <1>1 DEF Forget
<1>6. AcksHold'
  BY <1>1, <1>2, <1>4, <1>5, AckStep
<1> QED
  BY <1>4, <1>5, <1>6

\* A port changes or goes; the switch and the gateway follow.
LEMMA PortStep ==
  ASSUME DatapathInv, UNCHANGED <<networks, gwNets, nameOf>>,
         NEW p \in Names, ports[p] # None,
         NEW new \in PortRecs \cup {None}, ports' = [ports EXCEPT ![p] = new],
         NEW sw, switchPorts' = [switchPorts EXCEPT ![ports[p].id] = sw],
         NEW gw, gwPorts' = [gwPorts EXCEPT ![ports[p].id] = gw],
         new = None => sw = None /\ gw = None,
         new # None =>
           /\ new.id = ports[p].id
           /\ sw \in {None, IF new.network = None THEN Unattached ELSE new.network}
           /\ gw = new.network
  PROVE  /\ Mirrors'
         /\ ports' \in [Names -> PortRecs \cup {None}]
         /\ switchPorts' \in [Ids -> Nets \cup {Unattached, None}]
         /\ gwPorts' \in [Ids -> Nets \cup {None}]
<1> DEFINE id == ports[p].id
<1>1. /\ ports \in [Names -> PortRecs \cup {None}] /\ nameOf \in [Ids -> Names \cup {None}]
      /\ switchPorts \in [Ids -> Nets \cup {Unattached, None}]
      /\ gwPorts \in [Ids -> Nets \cup {None}]
  BY DEF DatapathInv, TypeOK
<1>2. id \in Ids /\ nameOf[id] = p
  BY <1>1 DEF DatapathInv, Mirrors, PortRecs
<1>3. \A q \in Names : ports'[q] = IF q = p THEN new ELSE ports[q]
  BY <1>1
<1>4. \A i \in Ids : /\ switchPorts'[i] = IF i = id THEN sw ELSE switchPorts[i]
                     /\ gwPorts'[i] = IF i = id THEN gw ELSE gwPorts[i]
  BY <1>1
<1>5. gw \in Nets \cup {None} /\ sw \in Nets \cup {Unattached, None}
  BY DEF PortRecs
<1>6. /\ ports' \in [Names -> PortRecs \cup {None}]
      /\ switchPorts' \in [Ids -> Nets \cup {Unattached, None}]
      /\ gwPorts' \in [Ids -> Nets \cup {None}]
  BY <1>1, <1>5
<1> HIDE DEF id
<1>7. \A i \in Ids : PortOf(i)' = IF i = id THEN new ELSE PortOf(i)
  BY <1>1, <1>2, <1>3, NoneAssumption DEF PortOf, id
<1>8. \A q \in Names : ports'[q] # None => nameOf[ports'[q].id] = q
  BY <1>2, <1>3 DEF DatapathInv, Mirrors, id
<1>9. \A i \in Ids :
        /\ switchPorts'[i] # None =>
             /\ PortOf(i)' # None
             /\ switchPorts'[i] =
                  IF (PortOf(i)').network = None THEN Unattached ELSE (PortOf(i)').network
        /\ gwPorts'[i] = IF PortOf(i)' = None THEN None ELSE (PortOf(i)').network
  BY <1>4, <1>7 DEF DatapathInv, Mirrors, id
<1>10. gwNets' = networks'
  BY DEF DatapathInv, Mirrors
<1> QED
  BY <1>6, <1>8, <1>9, <1>10 DEF Mirrors

\* DeletePort and DetachPort.
LEMMA EndPortSteps ==
  ASSUME DatapathInv, NEW p \in Names, DeletePort(p) \/ DetachPort(p)
  PROVE  DatapathInv'
<1> DEFINE r == ports[p]
<1>1. /\ Call /\ r # None /\ UNCHANGED <<networks, nameOf, gwNets>>
      /\ switchPorts' = [switchPorts EXCEPT ![r.id] = None]
      /\ gwPorts' = [gwPorts EXCEPT ![r.id] = None]
      /\ passts' \in {passts, [passts EXCEPT ![p] = None]}
  BY DEF DeletePort, DetachPort
<1>2. r \in PortRecs /\ r.id \in Ids /\ r.network \in Nets \cup {None}
  BY <1>1 DEF DatapathInv, TypeOK, PortRecs
<1>3. /\ ports' \in {[ports EXCEPT ![p] = None],
                     [ports EXCEPT ![p] = [id |-> r.id, network |-> None, mac |-> None]]}
  BY DEF DeletePort, DetachPort
<1>4. \/ r.network \in networks /\ leases' = [leases EXCEPT ![r.network] = Ipam!IpamRelease(@, r.mac)]
                                /\ acked' = Forget(r.network, r.mac)
      \/ UNCHANGED <<leases, acked>>
  BY DEF DeletePort, DetachPort
<1>5. /\ Mirrors'
      /\ ports' \in [Names -> PortRecs \cup {None}]
      /\ switchPorts' \in [Ids -> Nets \cup {Unattached, None}]
      /\ gwPorts' \in [Ids -> Nets \cup {None}]
  <2>1. CASE ports' = [ports EXCEPT ![p] = None]
    BY <1>1, <2>1, PortStep
  <2>2. CASE ports' = [ports EXCEPT ![p] = [id |-> r.id, network |-> None, mac |-> None]]
    <3> DEFINE rec == [id |-> r.id, network |-> None, mac |-> None]
    <3>1. rec \in PortRecs /\ rec.id = r.id /\ rec.network = None
      BY <1>2 DEF PortRecs
    <3>2. ports' = [ports EXCEPT ![p] = rec]
      BY <2>2
    <3> HIDE DEF rec
    <3> QED
      BY <1>1, <3>1, <3>2, PortStep
  <2> QED
    BY <1>3, <2>1, <2>2
<1>6. /\ leases' \in [Nets -> [Macs -> Nat \cup {None}]]
      /\ acked' \in [Nets -> [Macs -> Nat \cup {None}]]
      /\ Exclusive' /\ AcksHold'
  <2>1. CASE UNCHANGED <<leases, acked>>
    BY <1>1, <2>1 DEF DatapathInv, TypeOK, Exclusive, AcksHold
  <2>2. CASE /\ r.network \in networks
             /\ leases' = [leases EXCEPT ![r.network] = Ipam!IpamRelease(@, r.mac)]
             /\ acked' = Forget(r.network, r.mac)
    <3>1. r.network \in Nets
      BY <2>2 DEF DatapathInv, TypeOK
    <3> QED
      BY <1>1, <2>2, <3>1, ReleaseStep
  <2> QED
    BY <1>4, <2>1, <2>2
<1>7. passts' \in [Names -> BOOLEAN \cup {None}]
  BY <1>1 DEF DatapathInv, TypeOK
<1>8. TypeOK'
  BY <1>1, <1>5, <1>6, <1>7, CallTyped DEF DatapathInv, TypeOK
<1> QED
  BY <1>1, <1>5, <1>6, <1>8, CallStep

\* AttachPort.
LEMMA AttachStep ==
  ASSUME DatapathInv, NEW p \in Names, NEW n \in Nets, NEW m \in Macs, AttachPort(p, n, m)
  PROVE  DatapathInv'
<1> DEFINE rec == [id |-> ports[p].id, network |-> n, mac |-> m]
           new == Ipam!IpamAllocate(leases[n], Pool[1], Pool[2], m)
<1>1. /\ Call /\ ports[p] # None /\ UNCHANGED <<networks, nameOf, gwNets, acked>>
      /\ ports' = [ports EXCEPT ![p] = rec]
      /\ switchPorts' = [switchPorts EXCEPT ![ports[p].id] = n]
      /\ gwPorts' = [gwPorts EXCEPT ![ports[p].id] = n]
      /\ leases' = [leases EXCEPT ![n] = new]
  BY DEF AttachPort
<1>2. rec \in PortRecs /\ rec.id = ports[p].id /\ rec.network = n /\ n # None
  BY <1>1, DatapathAssumption DEF DatapathInv, TypeOK, PortRecs
<1> HIDE DEF rec
<1>3. /\ Mirrors'
      /\ ports' \in [Names -> PortRecs \cup {None}]
      /\ switchPorts' \in [Ids -> Nets \cup {Unattached, None}]
      /\ gwPorts' \in [Ids -> Nets \cup {None}]
  <2>1. rec \in PortRecs \cup {None} /\ rec # None
    BY <1>2, NoneAssumption
  <2>2. n \in {None, IF rec.network = None THEN Unattached ELSE rec.network} /\ n = rec.network
    BY <1>2
  <2> QED
    BY <1>1, <1>2, <2>1, <2>2, PortStep
<1>4. /\ new \in [Macs -> Nat \cup {None}] /\ OneHolder(new)
      /\ \A k \in Macs : leases[n][k] # None => new[k] = leases[n][k]
  <2>1. leases[n] \in Alloc!Leases /\ OneHolder(leases[n])
    BY DEF DatapathInv, TypeOK, Exclusive, Alloc!Leases
  <2> QED
    BY <2>1, AllocateSpec
<1> HIDE DEF new
<1>5. /\ leases' \in [Nets -> [Macs -> Nat \cup {None}]]
      /\ \A k \in Nets : leases'[k] = IF k = n THEN new ELSE leases[k]
      /\ Exclusive'
  BY <1>1, <1>4, LeaseStep
<1>6. acked' \in [Nets -> [Macs -> Nat \cup {None}]]
  BY <1>1 DEF DatapathInv, TypeOK
<1>7. \A k \in Nets, l \in Macs :
        acked[k][l] # None => k \in networks /\ leases[k][l] = acked[k][l]
  BY DEF DatapathInv, AcksHold
<1>8. AcksHold'
  BY <1>1, <1>4, <1>5, <1>6, <1>7, AckStep
<1>9. passts' \in [Names -> BOOLEAN \cup {None}]
  <2>1. passts' = [passts EXCEPT ![p] = (passts[p] = TRUE)]
    BY DEF AttachPort
  <2>2. passts \in [Names -> BOOLEAN \cup {None}]
    BY DEF DatapathInv, TypeOK
  <2> QED
    BY <2>1, <2>2
<1>10. TypeOK'
  BY <1>1, <1>3, <1>5, <1>6, <1>9, CallTyped DEF DatapathInv, TypeOK
<1> QED
  BY <1>1, <1>3, <1>5, <1>8, <1>10, CallStep

\* CreatePort: the new id is in no map yet.
LEMMA CreatePortStep ==
  ASSUME DatapathInv, NEW p \in Names, CreatePort(p)
  PROVE  DatapathInv'
<1>1. PICK id \in Ids :
        /\ Call /\ ports[p] = None /\ nameOf[id] = None
        /\ ports' = [ports EXCEPT ![p] = [id |-> id, network |-> None, mac |-> None]]
        /\ nameOf' = [nameOf EXCEPT ![id] = p]
        /\ switchPorts' = [switchPorts EXCEPT ![id] = Unattached]
        /\ UNCHANGED <<networks, leases, gwNets, gwPorts, passts, acked>>
  BY DEF CreatePort
<1> DEFINE rec == [id |-> id, network |-> None, mac |-> None]
<1>2. /\ ports \in [Names -> PortRecs \cup {None}] /\ nameOf \in [Ids -> Names \cup {None}]
      /\ switchPorts \in [Ids -> Nets \cup {Unattached, None}]
      /\ gwPorts \in [Ids -> Nets \cup {None}]
  BY DEF DatapathInv, TypeOK
<1>3. rec \in PortRecs /\ rec.id = id /\ rec.network = None /\ rec # None
  BY NoneAssumption DEF PortRecs
<1>4. ports' = [ports EXCEPT ![p] = rec]
  BY <1>1
<1> HIDE DEF rec
<1>5. /\ \A q \in Names : ports'[q] = IF q = p THEN rec ELSE ports[q]
      /\ \A i \in Ids : /\ nameOf'[i] = IF i = id THEN p ELSE nameOf[i]
                        /\ switchPorts'[i] = IF i = id THEN Unattached ELSE switchPorts[i]
  BY <1>1, <1>2, <1>4
<1>6. \A q \in Names : ports[q] # None => nameOf[ports[q].id] = q /\ ports[q].id \in Ids
  BY <1>2 DEF DatapathInv, Mirrors, PortRecs
<1>7. PortOf(id) = None
  BY <1>1 DEF PortOf
<1>8. \A i \in Ids : PortOf(i)' = IF i = id THEN rec ELSE PortOf(i)
  BY <1>1, <1>2, <1>3, <1>5, <1>6, NoneAssumption DEF PortOf
<1>9. \A q \in Names : ports'[q] # None => nameOf'[ports'[q].id] = q
  BY <1>1, <1>3, <1>5, <1>6, NoneAssumption
<1>10. Mirrors'
  BY <1>1, <1>3, <1>5, <1>7, <1>8, <1>9 DEF DatapathInv, Mirrors
<1>11. /\ ports' \in [Names -> PortRecs \cup {None}]
       /\ nameOf' \in [Ids -> Names \cup {None}]
       /\ switchPorts' \in [Ids -> Nets \cup {Unattached, None}]
  BY <1>1, <1>2, <1>3, <1>4
<1>12. TypeOK'
  BY <1>1, <1>11, CallTyped DEF DatapathInv, TypeOK
<1>13. Exclusive' /\ AcksHold'
  BY <1>1 DEF DatapathInv, Exclusive, AcksHold
<1> QED
  BY <1>1, <1>10, <1>12, <1>13, CallStep

-------------------------------------------------------------------------------
(* The frames *)

\* Where a frame of pump i may go: its own name's port, and VMs of its network.
Reaches(i, to) ==
  /\ to \subseteq Ids \cup {Wan}
  /\ \A j \in to \ {Wan} :
       /\ PortOf(j) # None
       /\ \/ nameOf[j] = nameOf[i]
          \/ PortOf(i) # None /\ PortOf(i).network = PortOf(j).network

\* The router's own answer goes to the port that has the pump's name.
LEMMA InjectSpec ==
  ASSUME DatapathInv, NEW i \in Ids, nameOf[i] # None
  PROVE  /\ Reaches(i, InjectTo(nameOf[i]))
         /\ PortOf(i) # None => InjectTo(nameOf[i]) = {i}
<1> DEFINE p == nameOf[i]
<1>1. p \in Names
  BY DEF DatapathInv, TypeOK
<1>2. CASE ports[p] = None
  BY <1>2 DEF InjectTo, Reaches, PortOf
<1>3. CASE ports[p] # None
  <2>1. ports[p].id \in Ids /\ nameOf[ports[p].id] = p
    BY <1>1, <1>3 DEF DatapathInv, TypeOK, Mirrors, PortRecs
  <2>2. PortOf(ports[p].id) = ports[p]
    BY <1>3, <2>1 DEF PortOf
  <2>3. InjectTo(p) = {ports[p].id}
    BY <1>3 DEF InjectTo
  <2>4. PortOf(i) # None => ports[p].id = i
    BY DEF PortOf
  <2> QED
    BY <1>3, <2>1, <2>2, <2>3, <2>4 DEF Reaches
<1> QED
  BY <1>2, <1>3

\* An id that the switch delivers to is a port of the sender's network.
LEMMA SwitchedSpec ==
  ASSUME DatapathInv, NEW i \in Ids, NEW to \in SUBSET Ids,
         \A j \in to : switchPorts[i] # None /\ switchPorts[j] = switchPorts[i]
  PROVE  Reaches(i, to)
<1>1. ASSUME NEW j \in to
      PROVE  /\ PortOf(j) # None /\ PortOf(i) # None
             /\ PortOf(i).network = PortOf(j).network
  <2>1. /\ PortOf(i) # None
        /\ switchPorts[i] = IF PortOf(i).network = None THEN Unattached ELSE PortOf(i).network
    BY <1>1 DEF DatapathInv, Mirrors
  <2>2. /\ PortOf(j) # None
        /\ switchPorts[i] = IF PortOf(j).network = None THEN Unattached ELSE PortOf(j).network
    BY <1>1 DEF DatapathInv, Mirrors
  <2>3. PortOf(i) \in PortRecs /\ PortOf(j) \in PortRecs
    BY <1>1, <2>1, <2>2 DEF PortOf, DatapathInv, TypeOK
  <2> QED
    BY <2>1, <2>2, <2>3, DatapathAssumption DEF PortRecs
<1> QED
  BY <1>1 DEF Reaches

\* The gateway knows the network of an attached port.
LEMMA GatewaySpec ==
  ASSUME DatapathInv, NEW i \in Ids, PortOf(i) # None, PortOf(i).network \in networks
  PROVE  GatewayNet(i) = PortOf(i).network /\ GatewayNet(i) # None
  BY DatapathAssumption DEF DatapathInv, TypeOK, Mirrors, GatewayNet

\* Past the services: a frame to its own router leaves by passt or comes back.
LEMMA ClassifySpec ==
  ASSUME DatapathInv, NEW i \in Ids, nameOf[i] # None, NEW f \in Frames,
         Classify(i, nameOf[i], f)
  PROVE  /\ clock' \in 0..MaxClock /\ entries' \in Tables(clock')
         /\ Reaches(i, out')
         /\ Sender(i, f).routed => out' \subseteq {Wan, i}
<1> DEFINE p == nameOf[i]
           answered == IsArpReply(i, f) \/ IsIcmpReply(p, f)
           uplink == IsWan(i, f) \/ IsUplink(p, f)
<1>1. clock \in 0..MaxClock /\ entries \in Tables(clock)
  BY DEF DatapathInv, TypeOK, Tables
<1>2. CASE answered
  <2>1. out' = InjectTo(p) /\ clock' = clock /\ entries' = entries
    BY <1>2 DEF Classify, ReplyTo, table
  <2>2. Sender(i, f).routed => PortOf(i) # None
    BY DEF Sender
  <2> QED
    BY <1>1, <2>1, <2>2, InjectSpec
<1>3. CASE ~answered /\ uplink
  <2>1. out' \in PasstEgress(p) /\ clock' = clock /\ entries' = entries
    BY <1>3 DEF Classify, table
  <2>2. out' \subseteq {Wan}
    BY <2>1 DEF PasstEgress
  <2> QED
    BY <1>1, <2>1, <2>2 DEF Reaches
<1>4. CASE ~answered /\ ~uplink
  <2>1. Fabric(i, f)
    BY <1>4 DEF Classify
  <2>2. /\ clock' \in 0..MaxClock /\ entries' \in Tables(clock')
        /\ out' \in SUBSET Ids
        /\ \A j \in out' : switchPorts[i] # None /\ switchPorts[j] = switchPorts[i]
    BY <2>1, FabricSpec DEF DatapathInv
  <2>3. Reaches(i, out')
    BY <2>2, SwitchedSpec
  <2>4. ~Sender(i, f).routed
    <3>1. SUFFICES ASSUME Sender(i, f).routed PROVE FALSE
      OBVIOUS
    <3>2. /\ Ipv4(f) /\ PortOf(i) # None /\ PortOf(i).network \in networks
          /\ f.dst = GwMac[PortOf(i).network]
      BY <3>1 DEF Sender
    <3>3. IsWan(i, f)
      BY <3>2, GatewaySpec DEF IsWan
    <3> QED
      BY <1>4, <3>3
  <2> QED
    BY <2>2, <2>3, <2>4
<1> QED
  BY <1>2, <1>3, <1>4

\* What is left to show of the invariant after a frame.
LEMMA FrameStep ==
  ASSUME DatapathInv, UNCHANGED <<maps, leases, passts>>, poisoned' \in BOOLEAN,
         acked' \in [Nets -> [Macs -> Nat \cup {None}]], AcksHold',
         clock' \in 0..MaxClock, entries' \in Tables(clock'),
         query' = None \/ query' \in [pump : Ids, next : 1..(Upstreams + 1)], Asking',
         \/ sender' = None /\ out' \subseteq Ids \cup {Wan}
         \/ \E i \in Ids :
              /\ sender' \in [pump : Ids, routed : BOOLEAN] /\ sender'.pump = i
              /\ Reaches(i, out')
              /\ sender'.routed => out' \subseteq {Wan, i}
  PROVE  DatapathInv'
<1>1. UNCHANGED <<networks, ports, nameOf, switchPorts, gwNets, gwPorts, ops>>
  BY DEF maps
<1>2. out' \subseteq Ids \cup {Wan} /\ (sender' = None \/ sender' \in [pump : Ids, routed : BOOLEAN])
  BY DEF Reaches
<1>3. TypeOK'
  BY <1>1, <1>2 DEF DatapathInv, TypeOK, Tables
<1>4. Mirrors' /\ Exclusive'
  BY <1>1 DEF DatapathInv, Mirrors, Exclusive, PortOf
<1>5. \A j \in Ids : PortOf(j)' = PortOf(j)
  BY <1>1 DEF PortOf
<1>6. StaysInNetwork' /\ RouterTrafficStaysOwn'
  <2>1. CASE sender' = None
    BY <2>1 DEF StaysInNetwork, RouterTrafficStaysOwn
  <2>2. ASSUME NEW i \in Ids,
               sender'.pump = i, Reaches(i, out'), sender'.routed => out' \subseteq {Wan, i}
        PROVE  StaysInNetwork' /\ RouterTrafficStaysOwn'
    <3>1. StaysInNetwork'
      BY <1>1, <1>5, <2>2 DEF StaysInNetwork, Reaches
    <3>2. RouterTrafficStaysOwn'
      BY <2>2 DEF RouterTrafficStaysOwn
    <3> QED
      BY <3>1, <3>2
  <2> QED
    BY <2>1, <2>2
<1> QED
  BY <1>3, <1>4, <1>6 DEF DatapathInv

\* The history of a frame is typed and names its pump.
LEMMA SenderTyped ==
  ASSUME NEW i \in Ids, NEW f
  PROVE  Sender(i, f) \in [pump : Ids, routed : BOOLEAN] /\ Sender(i, f).pump = i
<1>1. (/\ Ipv4(f) /\ PortOf(i) # None /\ PortOf(i).network \in networks
       /\ f.dst = GwMac[PortOf(i).network]) \in BOOLEAN
  BY DEF Ipv4
<1> QED
  BY <1>1 DEF Sender

\* Frames without a service behind them, too short ones, and DNS queries.
LEMMA PumpSteps ==
  ASSUME DatapathInv, NEW i \in Ids, NEW f \in Frames,
         PumpPlain(i, f) \/ PumpDns(i, f) \/ PumpShort(i, f)
  PROVE  DatapathInv'
<1>1. /\ UNCHANGED <<maps, leases, passts, acked>> /\ nameOf[i] # None /\ query = None
      /\ nameOf' = nameOf /\ ports' = ports /\ networks' = networks
  BY DEF PumpPlain, PumpDns, PumpShort, Free, maps
<1>2. acked' \in [Nets -> [Macs -> Nat \cup {None}]] /\ AcksHold'
  BY <1>1 DEF DatapathInv, TypeOK, AcksHold
<1>3. clock \in 0..MaxClock /\ entries \in Tables(clock) /\ poisoned \in BOOLEAN
  BY DEF DatapathInv, TypeOK, Tables
<1>4. CASE Classify(i, nameOf[i], f) /\ sender' = Sender(i, f) /\ UNCHANGED <<query, poisoned>>
  <2>1. /\ clock' \in 0..MaxClock /\ entries' \in Tables(clock')
        /\ Reaches(i, out')
        /\ Sender(i, f).routed => out' \subseteq {Wan, i}
    BY <1>1, <1>4, ClassifySpec
  <2>2. sender' \in [pump : Ids, routed : BOOLEAN] /\ sender'.pump = i
    BY <1>4, SenderTyped
  <2>3. query' = None /\ Asking' /\ poisoned' \in BOOLEAN
    BY <1>1, <1>3, <1>4 DEF Asking
  <2> QED
    BY <1>1, <1>2, <1>4, <2>1, <2>2, <2>3, FrameStep
<1>5. CASE /\ Served(nameOf[i])
           /\ query' = [pump |-> i, next |-> 1] /\ out' = {} /\ UNCHANGED <<table, poisoned>>
           /\ sender' = Sender(i, f)
  <2>1. clock' \in 0..MaxClock /\ entries' \in Tables(clock') /\ poisoned' \in BOOLEAN
    BY <1>3, <1>5 DEF table
  <2>2. sender' \in [pump : Ids, routed : BOOLEAN] /\ sender'.pump = i
    BY <1>5, SenderTyped
  <2>3. query' \in [pump : Ids, next : 1..(Upstreams + 1)] /\ query'.pump = i
    BY <1>5, DatapathAssumption
  <2>4. Asking'
    BY <1>1, <1>5, <2>3 DEF Asking, Served
  <2>5. Reaches(i, out') /\ out' \subseteq {Wan, i}
    BY <1>5 DEF Reaches
  <2> QED
    BY <1>1, <1>2, <2>1, <2>2, <2>3, <2>4, <2>5, FrameStep
<1>6. CASE PumpShort(i, f)
  <2>1. /\ sender' = None /\ out' \subseteq Ids \cup {Wan} /\ query' = None
        /\ clock' = clock /\ entries' = entries
        /\ poisoned' = (f.kind = "stub" /\ Served(nameOf[i]))
    BY <1>1, <1>6 DEF PumpShort, table
  <2>2. clock' \in 0..MaxClock /\ entries' \in Tables(clock') /\ Asking'
    BY <1>3, <2>1 DEF Asking
  <2>3. poisoned' \in BOOLEAN
    BY <2>1 DEF Served
  <2> QED
    BY <1>1, <1>2, <2>1, <2>2, <2>3, FrameStep
<1> QED
  BY <1>4, <1>5, <1>6 DEF PumpPlain, PumpDns

\* DHCP: an ACK is for the address the IPAM has bound.
LEMMA DhcpStep ==
  ASSUME DatapathInv, NEW i \in Ids, NEW f \in Frames, NEW ip \in Pool[1]..Pool[2],
         PumpDhcp(i, f, ip)
  PROVE  DatapathInv'
<1> DEFINE p == nameOf[i]
           n == ports[p].network
           answer == DhcpReply(n, f, ip)
<1>1. /\ UNCHANGED <<maps, leases, passts>> /\ p # None /\ query = None
      /\ networks' = networks /\ n \in networks /\ n \in Nets
      /\ UNCHANGED <<query, poisoned>> /\ sender' = Sender(i, f)
      /\ f.kind \in {"discover", "request"}
      /\ IF answer = "none" THEN Classify(i, p, f) ELSE ReplyTo(p)
      /\ acked' = IF answer = "ack" THEN [acked EXCEPT ![n][f.src] = ip] ELSE acked
  BY DEF PumpDhcp, Free, maps, Served, DatapathInv, TypeOK
<1>2. /\ acked \in [Nets -> [Macs -> Nat \cup {None}]] /\ f.src \in Macs /\ ip \in Nat
      /\ \A k \in Nets, l \in Macs :
           acked[k][l] # None => k \in networks /\ leases[k][l] = acked[k][l]
  BY DatapathAssumption DEF DatapathInv, TypeOK, AcksHold, Frames
<1>3. answer = "ack" => leases[n][f.src] = ip
  BY <1>1 DEF DhcpReply
<1>4. acked' \in [Nets -> [Macs -> Nat \cup {None}]] /\ AcksHold'
  <2>1. Exclusive'
    BY <1>1 DEF DatapathInv, Exclusive
  <2>2. /\ acked' \in [Nets -> [Macs -> Nat \cup {None}]]
        /\ \A k \in Nets, l \in Macs :
             acked'[k][l] = IF answer = "ack" /\ k = n /\ l = f.src THEN ip ELSE acked[k][l]
    <3> HIDE DEF answer, n
    <3> QED
      BY <1>1, <1>2
  <2>3. \A k \in Nets, l \in Macs :
          acked'[k][l] # None => k \in networks' /\ leases'[k][l] = acked'[k][l]
    <3> HIDE DEF answer, n
    <3> QED
      BY <1>1, <1>2, <1>3, <2>2
  <2> QED
    BY <2>1, <2>2, <2>3, AckStep
<1>5. clock \in 0..MaxClock /\ entries \in Tables(clock) /\ poisoned \in BOOLEAN
  BY DEF DatapathInv, TypeOK, Tables
<1>6. /\ clock' \in 0..MaxClock /\ entries' \in Tables(clock')
      /\ Reaches(i, out')
      /\ Sender(i, f).routed => out' \subseteq {Wan, i}
  <2>1. CASE answer = "none"
    BY <1>1, <2>1, ClassifySpec
  <2>2. CASE answer # "none"
    <3>1. out' = InjectTo(p) /\ clock' = clock /\ entries' = entries
      BY <1>1, <2>2 DEF ReplyTo, table
    <3>2. Sender(i, f).routed => PortOf(i) # None
      BY DEF Sender
    <3> QED
      BY <1>1, <1>5, <3>1, <3>2, InjectSpec
  <2> QED
    BY <2>1, <2>2
<1>7. sender' \in [pump : Ids, routed : BOOLEAN] /\ sender'.pump = i
  BY <1>1, SenderTyped
<1>8. query' = None /\ Asking' /\ poisoned' \in BOOLEAN
  BY <1>1, <1>5 DEF Asking
<1> QED
  BY <1>1, <1>4, <1>6, <1>7, <1>8, FrameStep

\* A frame from passt.
LEMMA PasstStep ==
  ASSUME DatapathInv, NEW p \in Names, PasstIngress(p)
  PROVE  DatapathInv'
<1>1. /\ UNCHANGED <<networks, ports, nameOf, switchPorts, gwNets, gwPorts, ops>>
      /\ UNCHANGED <<leases, entries, clock, query, poisoned, acked>>
      /\ passts' = [passts EXCEPT ![p] = TRUE] /\ ports[p] # None
      /\ out' = {ports[p].id} /\ sender' = None
  BY DEF PasstIngress, maps, table
<1>2. passts' \in [Names -> BOOLEAN \cup {None}]
  BY <1>1 DEF DatapathInv, TypeOK
<1>3. out' \subseteq Ids \cup {Wan}
  BY <1>1 DEF DatapathInv, TypeOK, PortRecs
<1>4. TypeOK'
  BY <1>1, <1>2, <1>3 DEF DatapathInv, TypeOK
<1>5. Mirrors' /\ Exclusive' /\ AcksHold' /\ Asking'
  BY <1>1 DEF DatapathInv, Mirrors, Exclusive, AcksHold, Asking, PortOf
<1> QED
  BY <1>1, <1>4, <1>5 DEF DatapathInv, StaysInNetwork, RouterTrafficStaysOwn

\* One upstream: the query goes on to the next, or is answered and lets go.
LEMMA DnsTrySpec ==
  ASSUME DatapathInv, NEW good \in BOOLEAN, DnsTry(good)
  PROVE  /\ DatapathInv'
         /\ UNCHANGED <<maps, leases, table, passts, acked>>
         /\ IF query' = None
            THEN out' = {ports[nameOf[query.pump]].id}
            ELSE query'.pump = query.pump /\ query'.next \in (query.next + 1)..Upstreams
<1>1. /\ query # None /\ UNCHANGED <<maps, leases, table, passts, poisoned, acked>>
      /\ sender' = None
      /\ networks' = networks /\ nameOf' = nameOf /\ ports' = ports
      /\ clock' = clock /\ entries' = entries
  BY DEF DnsTry, maps, table
<1>2. /\ query \in [pump : Ids, next : 1..(Upstreams + 1)]
      /\ nameOf[query.pump] \in Names /\ ports[nameOf[query.pump]] \in PortRecs
  BY <1>1 DEF DatapathInv, TypeOK, Asking
<1>3. /\ acked' \in [Nets -> [Macs -> Nat \cup {None}]] /\ AcksHold'
      /\ clock' \in 0..MaxClock /\ entries' \in Tables(clock') /\ poisoned' \in BOOLEAN
  BY <1>1 DEF DatapathInv, TypeOK, AcksHold, Tables
<1>4. CASE good \/ query.next >= Upstreams
  <2>1. query' = None /\ out' = InjectTo(nameOf[query.pump])
    BY <1>4 DEF DnsTry
  <2>2. out' = {ports[nameOf[query.pump]].id} /\ out' \subseteq Ids \cup {Wan}
    BY <1>2, <2>1, NoneAssumption DEF InjectTo, PortRecs
  <2>3. Asking'
    BY <2>1 DEF Asking
  <2> QED
    BY <1>1, <1>3, <2>1, <2>2, <2>3, FrameStep
<1>5. CASE ~(good \/ query.next >= Upstreams)
  <2>1. query' = [query EXCEPT !.next = query.next + 1] /\ out' = {}
    BY <1>5 DEF DnsTry
  <2>2. query.next \in Nat /\ Upstreams \in Nat /\ query.next + 1 <= Upstreams
    BY <1>2, <1>5, DatapathAssumption
  <2>3. /\ query' \in [pump : Ids, next : 1..(Upstreams + 1)]
        /\ query'.pump = query.pump /\ query'.next = query.next + 1
    BY <1>2, <2>1, <2>2
  <2>4. query' # None
    <3>1. query' \in [pump : Ids, next : Nat]
      BY <2>2, <2>3
    <3> QED
      BY <3>1, NoneAssumption
  <2>5. Asking'
    BY <1>1, <2>3 DEF DatapathInv, Asking
  <2>6. DatapathInv'
    BY <1>1, <1>3, <2>1, <2>3, <2>5, FrameStep
  <2> QED
    BY <1>1, <2>2, <2>3, <2>4, <2>6
<1> QED
  BY <1>4, <1>5

-------------------------------------------------------------------------------
\* The initial states satisfy the invariant.
LEMMA InitInv == Init => DatapathInv
<1> SUFFICES ASSUME Init PROVE DatapathInv
  OBVIOUS
<1>1. Ipam!NoLeases \in [Macs -> Nat \cup {None}] /\ OneHolder(Ipam!NoLeases)
  BY DEF Ipam!NoLeases, OneHolder
<1>2. /\ leases = [n \in Nets |-> Ipam!NoLeases] /\ acked = leases
      /\ leases \in [Nets -> [Macs -> Nat \cup {None}]]
  BY <1>1 DEF Init
<1>3. \A p \in Names : \E i \in Ids : nameOf[i] = p
  BY DEF Init
<1>4. /\ ports = [p \in Names |-> [id |-> CHOOSE i \in Ids : nameOf[i] = p,
                                   network |-> None, mac |-> None]]
      /\ nameOf \in [Ids -> Names \cup {None}]
      /\ \A p \in Names : \E i \in Ids : nameOf[i] = p /\ \A j \in Ids : nameOf[j] = p => j = i
  BY DEF Init
<1>5. ASSUME NEW p \in Names
      PROVE  /\ ports[p] \in PortRecs /\ ports[p].network = None /\ nameOf[ports[p].id] = p
             /\ ports[p] # None /\ \A j \in Ids : nameOf[j] = p => j = ports[p].id
  <2> DEFINE id == CHOOSE i \in Ids : nameOf[i] = p
  <2>1. id \in Ids /\ nameOf[id] = p
    BY <1>3
  <2>2. ports[p] = [id |-> id, network |-> None, mac |-> None]
    BY <1>4
  <2> HIDE DEF id
  <2>3. ports[p] \in PortRecs /\ ports[p].network = None /\ ports[p].id = id
    BY <2>1, <2>2 DEF PortRecs
  <2> QED
    BY <1>4, <2>1, <2>3, NoneAssumption
<1>6. ports \in [Names -> PortRecs \cup {None}]
  BY <1>4, <1>5
<1>7. \A i \in Ids : nameOf[i] # None => PortOf(i) # None /\ PortOf(i).network = None
  BY <1>4, <1>5 DEF PortOf
<1>8. \A i \in Ids : nameOf[i] = None => PortOf(i) = None
  BY DEF PortOf
<1>9. /\ switchPorts = [i \in Ids |-> IF nameOf[i] = None THEN None ELSE Unattached]
      /\ gwPorts = [i \in Ids |-> None] /\ networks = Nets /\ gwNets = Nets
  BY DEF Init
<1>10. Mirrors
  BY <1>5, <1>7, <1>8, <1>9 DEF Mirrors
<1>11. Exclusive
  BY <1>1, <1>2 DEF Exclusive
<1>12. AcksHold
  BY <1>2 DEF AcksHold, Ipam!NoLeases
<1>13. /\ switchPorts \in [Ids -> Nets \cup {Unattached, None}]
       /\ gwPorts \in [Ids -> Nets \cup {None}]
  BY <1>9
<1>14. /\ clock = 0 /\ ops = 0 /\ MaxClock \in Nat /\ MaxOps \in Nat
       /\ query = None /\ poisoned = FALSE /\ out = {} /\ sender = None
       /\ entries \in [Unicast \cup Group -> [port : Ids, seen : 1..clock] \cup {None}]
       /\ passts \in [Names -> BOOLEAN \cup {None}]
  BY DatapathAssumption DEF Init
<1>15. TypeOK
  <2>1. clock \in 0..MaxClock /\ ops \in 0..MaxOps
    BY <1>14
  <2>2. poisoned \in BOOLEAN
    BY <1>14, Zenon
  <2>3. /\ out \subseteq Ids \cup {Wan} /\ networks \subseteq Nets /\ gwNets \subseteq Nets
        /\ acked \in [Nets -> [Macs -> Nat \cup {None}]]
    BY <1>2, <1>9, <1>14, Zenon
  <2> QED
    BY <1>2, <1>4, <1>6, <1>13, <1>14, <2>1, <2>2, <2>3, Zenon DEF TypeOK
<1> QED
  BY <1>10, <1>11, <1>12, <1>14, <1>15
     DEF DatapathInv, Asking, StaysInNetwork, RouterTrafficStaysOwn

\* Every step keeps the invariant.
LEMMA StepInv == DatapathInv /\ [Next]_vars => DatapathInv'
<1> SUFFICES ASSUME DatapathInv, [Next]_vars PROVE DatapathInv'
  OBVIOUS
<1>1. CASE Rpc
  BY <1>1, NetworkSteps, CreatePortStep, EndPortSteps, AttachStep, AddressSteps DEF Rpc
<1>2. CASE \E p \in Names : PasstIngress(p)
  BY <1>2, PasstStep
<1>3. CASE \E i \in Ids, f \in Frames : Pump(i, f)
  BY <1>3, PumpSteps, DhcpStep DEF Pump
<1>4. CASE DnsStep
  BY <1>4, DnsTrySpec DEF DnsStep
<1>5. CASE UNCHANGED vars
  BY <1>5 DEF vars, maps, table, DatapathInv, TypeOK, Mirrors, Exclusive, AcksHold, Asking,
     StaysInNetwork, RouterTrafficStaysOwn, PortOf
<1> QED
  BY <1>1, <1>2, <1>3, <1>4, <1>5 DEF Next

\* Every variable of the data path keeps its type under all calls and frames.
THEOREM DatapathTypeCorrect == Spec => []TypeOK
<1>1. DatapathInv => TypeOK
  BY DEF DatapathInv
<1> QED
  BY <1>1, InitInv, StepInv, PTL DEF Spec

\* pump_frame: no frame reaches a VM of another network or a deleted port,
\* through moves, deletions and late pumps of deleted ports.
THEOREM FramesStayInNetwork == Spec => []StaysInNetwork
<1>1. DatapathInv => StaysInNetwork
  BY DEF DatapathInv
<1> QED
  BY <1>1, InitInv, StepInv, PTL DEF Spec

\* Gateway::handle_frame before the switch: IPv4 to the sender's own router goes
\* to its own passt or is answered, and never to another VM.
THEOREM RouterTrafficNeverShared == Spec => []RouterTrafficStaysOwn
<1>1. DatapathInv => RouterTrafficStaysOwn
  BY DEF DatapathInv
<1> QED
  BY <1>1, InitInv, StepInv, PTL DEF Spec

\* DhcpServer: an ACKed address is the client's alone until it is released.
THEOREM AcksAlwaysHold == Spec => []AcksHold
<1>1. DatapathInv => AcksHold
  BY DEF DatapathInv
<1> QED
  BY <1>1, InitInv, StepInv, PTL DEF Spec

\* DnsForwarder under the mutex: nobody else acts, every attempt moves on to the
\* next upstream, and the query ends with an answer to the port that asked.
THEOREM QueriesHoldBriefly == Spec => QueryHoldsBriefly
<1>1. ASSUME DatapathInv, Next, query # None
      PROVE  /\ UNCHANGED <<maps, leases, table, passts, acked>>
             /\ IF query' = None
                THEN out' = {ports[nameOf[query.pump]].id}
                ELSE query'.pump = query.pump /\ query'.next \in (query.next + 1)..Upstreams
  <2>1. DnsStep
    <3>1. ~Rpc
      BY <1>1 DEF Rpc, CreateNetwork, DeleteNetwork, CreatePort, DeletePort, DetachPort,
         AttachPort, AllocateIp, ReleaseIp, Call, Free
    <3>2. ~ \E p \in Names : PasstIngress(p)
      BY <1>1 DEF PasstIngress, Free
    <3>3. ~ \E i \in Ids, f \in Frames : Pump(i, f)
      BY <1>1 DEF Pump, PumpPlain, PumpDhcp, PumpDns, PumpShort, Free
    <3> QED
      BY <1>1, <3>1, <3>2, <3>3 DEF Next
  <2>2. PICK good \in BOOLEAN : DnsTry(good)
    BY <2>1 DEF DnsStep
  <2> QED
    BY <1>1, <2>2, DnsTrySpec
<1>2. DatapathInv /\ [Next]_vars =>
        [query # None =>
           /\ UNCHANGED <<maps, leases, table, passts, acked>>
           /\ IF query' = None
              THEN out' = {ports[nameOf[query.pump]].id}
              ELSE query'.pump = query.pump
                     /\ query'.next \in (query.next + 1)..Upstreams]_vars
  BY <1>1
<1> QED
  BY <1>2, InitInv, StepInv, PTL DEF Spec, QueryHoldsBriefly
===============================================================================
