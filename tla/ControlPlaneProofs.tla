-------------------------- MODULE ControlPlaneProofs --------------------------
(***************************************************************************)
(* Safety of the control plane for every set of networks, ports, MACs and  *)
(* TCP ports, every publish range, and any number of persist failures,     *)
(* spawn failures and restarts.                                            *)
(***************************************************************************)
EXTENDS ControlPlane, AllocatorsProofs

-------------------------------------------------------------------------------
(* The state file. *)

\* persist() writes a well-formed state file.
LEMMA SnapshotType ==
  ASSUME NEW nets \in [Nets -> NetParams \cup {None}],
         NEW leases \in [Nets -> Leases],
         NEW prts \in [Ports -> PortRecords \cup {None}],
         NEW table \in PublishTables
  PROVE  Snapshot(nets, leases, prts, table) \in Snapshots
<1>1. ASSUME NEW m \in Macs
      PROVE  LeaseRecord(leases, m) \in Nat \cup {None}
  <2> DEFINE bound == {n \in Nets : leases[n][m] # None}
             last  == {n \in bound : \A k \in bound : k <= n}
  <2>1. CASE last = {}
    BY <2>1 DEF LeaseRecord
  <2>2. CASE last # {}
    <3>1. (CHOOSE n \in last : TRUE) \in Nets
      BY <2>2
    <3>2. LeaseRecord(leases, m) = leases[CHOOSE n \in last : TRUE][m]
      BY <2>2 DEF LeaseRecord
    <3> HIDE DEF last
    <3> QED
      BY <3>1, <3>2 DEF Leases
  <2> QED
    BY <2>1, <2>2
<1>2. ASSUME NEW p \in Ports
      PROVE  PortState(leases, prts[p]) \in
               [mac : Macs \cup {None}, vm_ip : Nat \cup {None}] \cup {None}
  <2>1. CASE prts[p] = None
    BY <2>1 DEF PortState
  <2>2. CASE prts[p] # None
    <3>1. prts[p] \in PortRecords
      BY <2>2
    <3>2. /\ prts[p].mac \in Macs \cup {None}
          /\ prts[p].network \in Nets \cup {None}
      BY <3>1 DEF PortRecords
    <3>3. (IF prts[p].network = None \/ prts[p].mac = None THEN None
           ELSE leases[prts[p].network][prts[p].mac]) \in Nat \cup {None}
      BY <3>2 DEF Leases
    <3> QED
      BY <2>2, <3>2, <3>3 DEF PortState
  <2> QED
    BY <2>1, <2>2
<1> QED
  BY <1>1, <1>2 DEF Snapshot, Snapshots

\* Whatever the outcome, the file is the old one or that of the new memory.
LEMMA SaveSpec ==
  ASSUME NEW outcome, Save(outcome)
  PROVE  /\ \/ disk' = disk
            \/ disk' = Snapshot(networks', ipam', ports', pub')
         /\ outcome = "ok" => disk' = Snapshot(networks', ipam', ports', pub')
         /\ saveFaults \in Nat => saveFaults' \in Nat
BY DEF Save

\* SaveAndReply is one of those outcomes, answered Ok or Internal.
LEMMA SaveAndReplySpec ==
  ASSUME SaveAndReply
  PROVE  /\ \/ disk' = disk
            \/ disk' = Snapshot(networks', ipam', ports', pub')
         /\ saveFaults \in Nat => saveFaults' \in Nat
         /\ reply' \in {"Ok", "Internal"}
         /\ reply' = "Ok" => disk' = Snapshot(networks', ipam', ports', pub')
<1>1. PICK outcome \in SaveOutcomes :
        /\ Save(outcome)
        /\ reply' = IF outcome = "ok" THEN "Ok" ELSE "Internal"
  BY DEF SaveAndReply
<1> QED
  BY <1>1, SaveSpec

\* The publish table of the file, after such a step.
LEMMA SnapshotTable ==
  ASSUME NEW nets, NEW leases, NEW prts, NEW table
  PROVE  Snapshot(nets, leases, prts, table).publish_table = table
BY DEF Snapshot

-------------------------------------------------------------------------------
(* Type correctness. *)

\* The file stays well-formed when it is old or written from typed memory.
LEMMA DiskType ==
  ASSUME TypeOK,
         networks' \in [Nets -> NetParams \cup {None}],
         ipam' \in [Nets -> Leases],
         ports' \in [Ports -> PortRecords \cup {None}],
         pub' \in PublishTables,
         disk' = disk \/ disk' = Snapshot(networks', ipam', ports', pub')
  PROVE  disk' \in Snapshots
BY SnapshotType DEF TypeOK

LEMMA ReturnType ==
  ASSUME TypeOK, NEW result \in Replies, Return(result)
  PROVE  TypeOK'
BY DEF TypeOK, Return, memory, faults

\* HashMap insert and remove on a map keyed by ids, seen as a set of pairs.
LEMMA PutType ==
  ASSUME NEW S, NEW map \in SUBSET (Nat \X S), NEW id \in Nat, NEW x \in S
  PROVE  Put(map, id, x) \subseteq Nat \X S
BY DEF Put

LEMMA DropType ==
  ASSUME NEW S, NEW map \in SUBSET (Nat \X S), NEW id
  PROVE  Drop(map, id) \subseteq Nat \X S
BY DEF Drop

LEMMA NoLeasesType == NoLeases \in Leases
BY DEF NoLeases, Leases

LEMMA ConfigType ==
  ASSUME NEW params \in ParamRecords, NEW ip \in Nat, NEW fwd \in Forwards
  PROVE  PasstConfig(params, ip, fwd) \in Configs
BY DEF ParamRecords, PasstConfig, Configs

\* ensure_passt leaves well-formed slots.
LEMMA EnsurePasstType ==
  ASSUME passts \in [Ports -> Slots \cup {None}], spawnFaults \in Nat,
         NEW p \in Ports, NEW config \in Configs, NEW spawned \in BOOLEAN,
         EnsurePasst(p, config, spawned)
  PROVE  passts' \in [Ports -> Slots \cup {None}] /\ spawnFaults' \in Nat
<1>1. CASE UNCHANGED <<passts, spawnFaults>>
  BY <1>1
<1>2. CASE /\ spawnFaults' = IF spawned THEN spawnFaults ELSE spawnFaults + 1
           /\ passts' = [passts EXCEPT ![p] = [desired |-> config, live |-> spawned]]
  <2>1. [desired |-> config, live |-> spawned] \in Slots
    BY DEF Slots
  <2> QED
    BY <1>2, <2>1
<1> QED
  BY <1>1, <1>2 DEF EnsurePasst

LEMMA TeardownType ==
  ASSUME passts \in [Ports -> Slots \cup {None}], NEW p \in Ports, TeardownPasst(p)
  PROVE  passts' \in [Ports -> Slots \cup {None}]
BY DEF TeardownPasst

\* A port record that is there has its fields.
LEMMA PortFields ==
  ASSUME TypeOK, NEW p \in Ports, Exists(p)
  PROVE  /\ ports[p] \in PortRecords
         /\ ports[p].id \in Nat
         /\ ports[p].network \in Nets \cup {None}
         /\ ports[p].mac \in Macs \cup {None}
         /\ Attached(p) => ports[p].network \in Nets /\ ports[p].mac \in Macs
<1>1. ports[p] \in PortRecords
  BY DEF TypeOK, Exists
<1>2. \/ ports[p] \in [id : Nat, network : {None}, mac : {None}]
      \/ ports[p] \in [id : Nat, network : Nets, mac : Macs]
  BY <1>1 DEF PortRecords
<1> QED
  BY <1>1, <1>2 DEF Attached

\* A network that exists has its parameters.
LEMMA NetworkFields ==
  ASSUME TypeOK, NEW n \in Nets, networks[n] # None
  PROVE  /\ networks[n] \in NetParams
         /\ networks[n] \in ParamRecords
         /\ networks[n].lo \in Nat
         /\ networks[n].hi \in Nat
BY ControlPlaneAssumption DEF TypeOK, ParamRecords

LEMMA ReleaseQuietlyType ==
  ASSUME TypeOK, NEW p \in Ports, Exists(p)
  PROVE  ReleaseQuietly(ports[p]) \in [Nets -> Leases]
<1>1. CASE ports[p].network = None
  BY <1>1 DEF ReleaseQuietly, TypeOK
<1>2. CASE ports[p].network # None
  <2>1. ports[p].network \in Nets
    BY <1>2, PortFields
  <2>2. IpamRelease(ipam[ports[p].network], ports[p].mac) \in Leases
    BY <2>1, IpamReleaseSpec DEF TypeOK
  <2> QED
    BY <1>2, <2>1, <2>2 DEF ReleaseQuietly, TypeOK
<1> QED
  BY <1>1, <1>2

\* CreateNetwork keeps the types.
LEMMA CreateNetworkType ==
  ASSUME TypeOK, NEW n \in Nets, NEW params \in NetParams, CreateNetwork(n, params)
  PROVE  TypeOK'
<1>1. CASE \E result \in Replies : Return(result)
  BY <1>1, ReturnType
<1>2. CASE /\ networks' = [networks EXCEPT ![n] = params]
           /\ ipam' = [ipam EXCEPT ![n] = NoLeases]
           /\ UNCHANGED <<ports, nextPortId, names, switchPorts, gatewayPorts,
                          passts, pub, granted, spawnFaults, restarts>>
           /\ SaveAndReply
  <2>1. networks' \in [Nets -> NetParams \cup {None}] /\ ipam' \in [Nets -> Leases]
    BY <1>2, NoLeasesType DEF TypeOK
  <2>2. disk' \in Snapshots /\ saveFaults' \in Nat /\ reply' \in Replies
    BY <1>2, <2>1, SaveAndReplySpec, DiskType DEF TypeOK, Replies
  <2> QED
    BY <1>2, <2>1, <2>2 DEF TypeOK
<1> QED
  BY <1>1, <1>2 DEF CreateNetwork, Replies

LEMMA DeleteNetworkType ==
  ASSUME TypeOK, NEW n \in Nets, DeleteNetwork(n)
  PROVE  TypeOK'
<1>1. CASE \E result \in Replies : Return(result)
  BY <1>1, ReturnType
<1>2. CASE /\ networks' = [networks EXCEPT ![n] = None]
           /\ ipam' = [ipam EXCEPT ![n] = NoLeases]
           /\ UNCHANGED <<ports, nextPortId, names, switchPorts, gatewayPorts,
                          passts, pub, granted, spawnFaults, restarts>>
           /\ SaveAndReply
  <2>1. networks' \in [Nets -> NetParams \cup {None}] /\ ipam' \in [Nets -> Leases]
    BY <1>2, NoLeasesType DEF TypeOK
  <2>2. disk' \in Snapshots /\ saveFaults' \in Nat /\ reply' \in Replies
    BY <1>2, <2>1, SaveAndReplySpec, DiskType DEF TypeOK, Replies
  <2> QED
    BY <1>2, <2>1, <2>2 DEF TypeOK
<1> QED
  BY <1>1, <1>2 DEF DeleteNetwork, Replies

LEMMA CreatePortType ==
  ASSUME TypeOK, NEW p \in Ports, CreatePort(p)
  PROVE  TypeOK'
<1>1. CASE \E result \in Replies : Return(result)
  BY <1>1, ReturnType
<1>2. CASE /\ nextPortId' = nextPortId + 1
           /\ switchPorts' = Put(switchPorts, nextPortId, Unattached)
           /\ names' = Put(names, nextPortId, p)
           /\ ports' = [ports EXCEPT ![p] =
                          [id |-> nextPortId, network |-> None, mac |-> None]]
           /\ UNCHANGED <<networks, ipam, gatewayPorts, passts, pub, granted,
                          spawnFaults, restarts>>
           /\ SaveAndReply
  <2>1. ports' \in [Ports -> PortRecords \cup {None}]
    BY <1>2 DEF TypeOK, PortRecords
  <2>2. /\ switchPorts' \subseteq Nat \X (Nets \cup {Unattached})
        /\ names' \subseteq Nat \X Ports
    BY <1>2, PutType DEF TypeOK
  <2>3. disk' \in Snapshots /\ saveFaults' \in Nat /\ reply' \in Replies
    BY <1>2, <2>1, SaveAndReplySpec, DiskType DEF TypeOK, Replies
  <2> QED
    BY <1>2, <2>1, <2>2, <2>3 DEF TypeOK
<1> QED
  BY <1>1, <1>2 DEF CreatePort, Replies

LEMMA DeletePortType ==
  ASSUME TypeOK, NEW p \in Ports, DeletePort(p)
  PROVE  TypeOK'
<1>1. CASE \E result \in Replies : Return(result)
  BY <1>1, ReturnType
<1>2. CASE /\ Exists(p)
           /\ ports' = [ports EXCEPT ![p] = None]
           /\ ipam' = ReleaseQuietly(ports[p])
           /\ switchPorts' = Drop(switchPorts, ports[p].id)
           /\ gatewayPorts' = Drop(gatewayPorts, ports[p].id)
           /\ names' = Drop(names, ports[p].id)
           /\ pub' = PublishRemovePort(pub, p)
           /\ granted' = PublishRemovePort(granted, p)
           /\ UNCHANGED <<networks, nextPortId, spawnFaults, restarts>>
           /\ SaveAndReply
           /\ TeardownPasst(p) \/ UNCHANGED passts
  <2>1. ports' \in [Ports -> PortRecords \cup {None}] /\ ipam' \in [Nets -> Leases]
    BY <1>2, ReleaseQuietlyType DEF TypeOK
  <2>2. /\ switchPorts' \subseteq Nat \X (Nets \cup {Unattached})
        /\ gatewayPorts' \subseteq Nat \X Nets
        /\ names' \subseteq Nat \X Ports
    BY <1>2, DropType DEF TypeOK
  <2>3. pub' \in PublishTables /\ granted' \in PublishTables
    BY <1>2, PublishRemovePortSpec DEF TypeOK
  <2>4. passts' \in [Ports -> Slots \cup {None}]
    BY <1>2, TeardownType DEF TypeOK
  <2>5. disk' \in Snapshots /\ saveFaults' \in Nat /\ reply' \in Replies
    BY <1>2, <2>1, <2>3, SaveAndReplySpec, DiskType DEF TypeOK, Replies
  <2> QED
    BY <1>2, <2>1, <2>2, <2>3, <2>4, <2>5 DEF TypeOK
<1> QED
  BY <1>1, <1>2 DEF DeletePort, Replies

LEMMA AttachPortType ==
  ASSUME TypeOK, NEW p \in Ports, NEW n \in Nets, NEW m \in Macs, AttachPort(p, n, m)
  PROVE  TypeOK'
<1> DEFINE leases == IpamAllocate(ipam[n], networks[n].lo, networks[n].hi, m)
           config == PasstConfig(networks[n], leases[m], NoForwards)
<1>1. CASE \E result \in Replies : Return(result)
  BY <1>1, ReturnType
<1>2. CASE /\ Exists(p)
           /\ networks[n] # None
           /\ leases[m] # None
           /\ ipam' = [ipam EXCEPT ![n] = leases]
           /\ ports' = [ports EXCEPT ![p] =
                          [id |-> ports[p].id, network |-> n, mac |-> m]]
           /\ switchPorts' = Put(switchPorts, ports[p].id, n)
           /\ gatewayPorts' = Put(gatewayPorts, ports[p].id, n)
           /\ UNCHANGED <<networks, nextPortId, names, pub, granted, restarts>>
           /\ \/ EnsurePasst(p, config, TRUE) /\ SaveAndReply
              \/ /\ EnsurePasst(p, config, FALSE)
                 /\ reply' = "Internal"
                 /\ UNCHANGED <<disk, saveFaults>>
  <2>1. leases \in Leases
    BY <1>2, NetworkFields, IpamAllocateSpec DEF TypeOK
  <2>2. leases[m] \in Nat
    BY <1>2, <2>1 DEF Leases
  <2>3. NoForwards \in Forwards
    BY DEF NoForwards, Forwards
  <2> HIDE DEF leases
  <2>4. config \in Configs
    BY <1>2, <2>2, <2>3, NetworkFields, ConfigType
  <2> HIDE DEF config
  <2>5. ports[p].id \in Nat
    BY <1>2, PortFields
  <2>6. ports' \in [Ports -> PortRecords \cup {None}] /\ ipam' \in [Nets -> Leases]
    BY <1>2, <2>1, <2>5 DEF TypeOK, PortRecords
  <2>7. /\ switchPorts' \subseteq Nat \X (Nets \cup {Unattached})
        /\ gatewayPorts' \subseteq Nat \X Nets
    BY <1>2, <2>5, PutType DEF TypeOK
  <2>8. passts' \in [Ports -> Slots \cup {None}] /\ spawnFaults' \in Nat
    BY <1>2, <2>4, EnsurePasstType DEF TypeOK
  <2>9. disk' \in Snapshots /\ saveFaults' \in Nat /\ reply' \in Replies
    BY <1>2, <2>6, SaveAndReplySpec, DiskType DEF TypeOK, Replies
  <2> QED
    BY <1>2, <2>6, <2>7, <2>8, <2>9 DEF TypeOK
<1> QED
  BY <1>1, <1>2 DEF AttachPort, Replies

LEMMA DetachPortType ==
  ASSUME TypeOK, NEW p \in Ports, DetachPort(p)
  PROVE  TypeOK'
<1>1. CASE \E result \in Replies : Return(result)
  BY <1>1, ReturnType
<1>2. CASE /\ Exists(p)
           /\ ports' = [ports EXCEPT ![p] =
                          [id |-> ports[p].id, network |-> None, mac |-> None]]
           /\ gatewayPorts' = Drop(gatewayPorts, ports[p].id)
           /\ switchPorts' = Drop(switchPorts, ports[p].id)
           /\ granted' = PublishRemovePort(granted, p)
           /\ UNCHANGED <<networks, nextPortId, names, spawnFaults, restarts>>
           /\ \/ /\ reply' = "NotFound"
                 /\ UNCHANGED <<ipam, pub, passts, disk, saveFaults>>
              \/ /\ ipam' = ReleaseQuietly(ports[p])
                 /\ pub' = PublishRemovePort(pub, p)
                 /\ SaveAndReply
                 /\ TeardownPasst(p) \/ UNCHANGED passts
  <2>1. ports' \in [Ports -> PortRecords \cup {None}]
    BY <1>2, PortFields DEF TypeOK, PortRecords
  <2>2. ipam' \in [Nets -> Leases]
    BY <1>2, ReleaseQuietlyType DEF TypeOK
  <2>3. /\ switchPorts' \subseteq Nat \X (Nets \cup {Unattached})
        /\ gatewayPorts' \subseteq Nat \X Nets
    BY <1>2, DropType DEF TypeOK
  <2>4. pub' \in PublishTables /\ granted' \in PublishTables
    BY <1>2, PublishRemovePortSpec DEF TypeOK
  <2>5. passts' \in [Ports -> Slots \cup {None}]
    BY <1>2, TeardownType DEF TypeOK
  <2>6. disk' \in Snapshots /\ saveFaults' \in Nat /\ reply' \in Replies
    BY <1>2, <2>1, <2>2, <2>4, SaveAndReplySpec, DiskType DEF TypeOK, Replies
  <2> QED
    BY <1>2, <2>1, <2>2, <2>3, <2>4, <2>5, <2>6 DEF TypeOK
<1> QED
  BY <1>1, <1>2 DEF DetachPort, Replies

LEMMA AllocateIPType ==
  ASSUME TypeOK, NEW n \in Nets, NEW m \in Macs, AllocateIP(n, m)
  PROVE  TypeOK'
<1> DEFINE leases == IpamAllocate(ipam[n], networks[n].lo, networks[n].hi, m)
<1>1. CASE \E result \in Replies : Return(result)
  BY <1>1, ReturnType
<1>2. CASE /\ networks[n] # None
           /\ ipam' = [ipam EXCEPT ![n] = leases]
           /\ reply' = "Ok"
           /\ UNCHANGED <<networks, ports, nextPortId, names, switchPorts,
                          gatewayPorts, passts, pub, disk, granted, faults>>
  <2>1. leases \in Leases
    BY <1>2, NetworkFields, IpamAllocateSpec DEF TypeOK
  <2> HIDE DEF leases
  <2>2. ipam' \in [Nets -> Leases]
    BY <1>2, <2>1 DEF TypeOK
  <2> QED
    BY <1>2, <2>2 DEF TypeOK, Replies, faults
<1> QED
  BY <1>1, <1>2 DEF AllocateIP, Replies

LEMMA ReleaseIPType ==
  ASSUME TypeOK, NEW n \in Nets, NEW m \in Macs, ReleaseIP(n, m)
  PROVE  TypeOK'
<1>1. CASE \E result \in Replies : Return(result)
  BY <1>1, ReturnType
<1>2. CASE /\ ipam' = [ipam EXCEPT ![n] = IpamRelease(@, m)]
           /\ UNCHANGED <<networks, ports, nextPortId, names, switchPorts,
                          gatewayPorts, passts, pub, granted, spawnFaults, restarts>>
           /\ SaveAndReply
  <2>1. ipam' \in [Nets -> Leases]
    BY <1>2, IpamReleaseSpec DEF TypeOK
  <2>2. disk' \in Snapshots /\ saveFaults' \in Nat /\ reply' \in Replies
    BY <1>2, <2>1, SaveAndReplySpec, DiskType DEF TypeOK, Replies
  <2> QED
    BY <1>2, <2>1, <2>2 DEF TypeOK
<1> QED
  BY <1>1, <1>2 DEF ReleaseIP, Replies

\* The tail of PublishPort and UnpublishPort keeps slots and reply typed.
LEMMA SyncPasstType ==
  ASSUME TypeOK, NEW p \in Ports, NEW fwd \in Forwards, SyncPasst(p, fwd)
  PROVE  /\ passts' \in [Ports -> Slots \cup {None}]
         /\ spawnFaults' \in Nat
         /\ reply' \in Replies
<1>1. CASE ~HasLease(p)
  BY <1>1 DEF SyncPasst, TypeOK, Replies
<1>2. CASE HasLease(p)
  <2> DEFINE port   == ports[p]
             config == PasstConfig(networks[port.network],
                                   ipam[port.network][port.mac], fwd)
  <2>1. port.network \in Nets /\ networks[port.network] # None
    BY <1>2, PortFields DEF HasLease, Attached, Exists
  <2>2. ipam[port.network][port.mac] \in Nat
    <3>1. ipam[port.network] \in Leases /\ ipam[port.network][port.mac] # None
      BY <1>2, <2>1 DEF HasLease, TypeOK
    <3>2. port.mac \in Macs
      BY <1>2, PortFields DEF HasLease, Attached, Exists
    <3> QED
      BY <3>1, <3>2 DEF Leases
  <2>3. config \in Configs
    BY <2>1, <2>2, NetworkFields, ConfigType
  <2>4. \/ EnsurePasst(p, config, TRUE) /\ reply' = "Ok"
        \/ EnsurePasst(p, config, FALSE) /\ reply' = "Internal"
    BY <1>2 DEF SyncPasst
  <2> HIDE DEF config
  <2> QED
    BY <2>3, <2>4, EnsurePasstType DEF TypeOK, Replies
<1> QED
  BY <1>1, <1>2

LEMMA PublishPortType ==
  ASSUME TypeOK, NEW p \in Ports, NEW v \in VmPorts, PublishPort(p, v)
  PROVE  TypeOK'
<1> DEFINE table == PublishAllocate(pub, p, v)
<1>1. CASE \E result \in Replies : Return(result)
  BY <1>1, ReturnType
<1>2. CASE /\ table[p][v] # None
           /\ pub' = table
           /\ UNCHANGED <<networks, ipam, ports, nextPortId, names, switchPorts,
                          gatewayPorts, restarts>>
           /\ \/ /\ Save("ok")
                 /\ SyncPasst(p, table[p])
                 /\ granted' = IF reply' = "Ok"
                               THEN [granted EXCEPT ![p][v] = table[p][v]]
                               ELSE granted
              \/ /\ \E outcome \in SaveOutcomes \ {"ok"} : Save(outcome)
                 /\ reply' = "Internal"
                 /\ UNCHANGED <<passts, spawnFaults, granted>>
  <2>1. table \in PublishTables
    BY PublishAllocateSpec DEF TypeOK
  <2> HIDE DEF table
  <2>2. table[p] \in Forwards /\ table[p][v] \in HostPorts
    BY <1>2, <2>1 DEF PublishTables, Forwards
  <2>3. disk' \in Snapshots /\ saveFaults' \in Nat
    BY <1>2, <2>1, SaveSpec, DiskType DEF TypeOK
  <2>4. /\ passts' \in [Ports -> Slots \cup {None}]
        /\ spawnFaults' \in Nat
        /\ reply' \in Replies
    BY <1>2, <2>2, SyncPasstType DEF TypeOK, Replies
  <2>5. granted' \in PublishTables
    <3>1. [granted EXCEPT ![p][v] = table[p][v]] \in PublishTables
      BY <2>2 DEF TypeOK, PublishTables, Forwards
    <3> QED
      BY <3>1, <1>2 DEF TypeOK
  <2> QED
    BY <1>2, <2>1, <2>3, <2>4, <2>5 DEF TypeOK
<1> QED
  BY <1>1, <1>2 DEF PublishPort, Replies

LEMMA UnpublishPortType ==
  ASSUME TypeOK, NEW p \in Ports, NEW v \in VmPorts, UnpublishPort(p, v)
  PROVE  TypeOK'
<1> DEFINE table == PublishRemove(pub, p, v)
<1>1. CASE \E result \in Replies : Return(result)
  BY <1>1, ReturnType
<1>2. CASE /\ pub' = table
           /\ granted' = PublishRemove(granted, p, v)
           /\ UNCHANGED <<networks, ipam, ports, nextPortId, names, switchPorts,
                          gatewayPorts, restarts>>
           /\ \/ /\ Save("ok")
                 /\ TeardownPasst(p)
                 /\ reply' = "Ok"
                 /\ UNCHANGED spawnFaults
              \/ /\ Save("ok")
                 /\ SyncPasst(p, table[p])
              \/ /\ \E outcome \in SaveOutcomes \ {"ok"} : Save(outcome)
                 /\ reply' = "Internal"
                 /\ UNCHANGED <<passts, spawnFaults>>
  <2>1. table \in PublishTables /\ granted' \in PublishTables
    BY <1>2, PublishRemoveSpec DEF TypeOK
  <2> HIDE DEF table
  <2>2. table[p] \in Forwards
    BY <2>1 DEF PublishTables
  <2>3. disk' \in Snapshots /\ saveFaults' \in Nat
    BY <1>2, <2>1, SaveSpec, DiskType DEF TypeOK
  <2>4. /\ passts' \in [Ports -> Slots \cup {None}]
        /\ spawnFaults' \in Nat
        /\ reply' \in Replies
    BY <1>2, <2>2, SyncPasstType, TeardownType DEF TypeOK, Replies
  <2> QED
    BY <1>2, <2>1, <2>3, <2>4 DEF TypeOK
<1> QED
  BY <1>1, <1>2 DEF UnpublishPort, Replies

LEMMA SupervisePasstType ==
  ASSUME TypeOK, NEW p \in Ports, SupervisePasst(p)
  PROVE  TypeOK'
<1>1. passts[p] \in Slots
  BY DEF SupervisePasst, TypeOK
<1>2. [desired |-> passts[p].desired, live |-> ~passts[p].live] \in Slots
  BY <1>1 DEF Slots
<1>3. passts' \in [Ports -> Slots \cup {None}]
  BY <1>2 DEF SupervisePasst, TypeOK
<1> QED
  BY <1>3 DEF SupervisePasst, TypeOK, Replies, faults

LEMMA RestartType ==
  ASSUME TypeOK, Restart
  PROVE  TypeOK'
<1>1. disk.publish_table \in PublishTables
  BY DEF TypeOK, Snapshots
<1> QED
  BY <1>1, NoLeasesType DEF Restart, TypeOK, Replies

\* A step that is none of the actions changes nothing.
LEMMA StutterType ==
  ASSUME TypeOK, UNCHANGED vars
  PROVE  TypeOK'
BY DEF TypeOK, vars, memory, faults

LEMMA InitType ==
  ASSUME Init
  PROVE  TypeOK
<1>1. NoPublished \in PublishTables
  BY DEF NoPublished, NoForwards, PublishTables, Forwards
<1>2. networks \in [Nets -> NetParams \cup {None}]
  BY DEF Init
<1>3. ipam \in [Nets -> Leases]
  BY NoLeasesType DEF Init
<1>4. ports \in [Ports -> PortRecords \cup {None}]
  BY DEF Init
<1>5. disk \in Snapshots
  BY <1>1, <1>2, <1>3, <1>4, SnapshotType DEF Init
<1> QED
  BY <1>1, <1>2, <1>3, <1>4, <1>5 DEF Init, TypeOK, Replies

LEMMA NextType ==
  ASSUME TypeOK, [Next]_vars
  PROVE  TypeOK'
BY CreateNetworkType, DeleteNetworkType, CreatePortType, DeletePortType,
   AttachPortType, DetachPortType, AllocateIPType, ReleaseIPType,
   PublishPortType, UnpublishPortType, SupervisePasstType, RestartType,
   StutterType DEF Next

\* Every reachable state of the control plane is well-typed.
THEOREM TypeCorrect == Spec => []TypeOK
<1>1. Init => TypeOK
  BY InitType
<1>2. TypeOK /\ [Next]_vars => TypeOK'
  BY NextType
<1> QED
  BY <1>1, <1>2, PTL DEF Spec

-------------------------------------------------------------------------------
(* The publish table, the state file's copy of it and the promises made.  *)

\* The file's table after a step: the old one, or memory's new one.
SavedOrOld == disk'.publish_table \in {disk.publish_table, pub'}

\* All a step can do to the three: leave them, forget a port, forget a pair,
\* allocate without or with an acknowledgement, or restart from the file.
TableStep ==
  \/ /\ pub' = pub /\ granted' = granted
     /\ SavedOrOld
  \/ \E p \in Ports :
       /\ granted' = PublishRemovePort(granted, p)
       /\ pub' \in {pub, PublishRemovePort(pub, p)}
       /\ SavedOrOld
  \/ \E p \in Ports, v \in VmPorts :
       /\ granted' = PublishRemove(granted, p, v)
       /\ pub' = PublishRemove(pub, p, v)
       /\ SavedOrOld
  \/ \E p \in Ports, v \in VmPorts :
       /\ granted' = granted
       /\ pub' = PublishAllocate(pub, p, v)
       /\ SavedOrOld
  \/ \E p \in Ports, v \in VmPorts :
       /\ pub' = PublishAllocate(pub, p, v)
       /\ pub'[p][v] # None
       /\ granted' = [granted EXCEPT ![p][v] = pub'[p][v]]
       /\ disk'.publish_table = pub'
  \/ /\ pub' = disk.publish_table
     /\ disk' = disk /\ granted' = granted

\* An early return, and a save, seen from the table.
LEMMA ReturnTable ==
  ASSUME NEW result, Return(result)
  PROVE  TableStep
BY DEF Return, memory, TableStep, SavedOrOld

LEMMA SavedTable ==
  ASSUME disk' = disk \/ disk' = Snapshot(networks', ipam', ports', pub')
  PROVE  SavedOrOld
BY SnapshotTable DEF SavedOrOld

\* Every handler, supervision tick and restart is one of these.
LEMMA EveryStepIsTableStep ==
  ASSUME [Next]_vars
  PROVE  TableStep
<1>1. ASSUME NEW n \in Nets, NEW params \in NetParams, CreateNetwork(n, params)
      PROVE  TableStep
  BY <1>1, ReturnTable, SavedTable, SaveAndReplySpec DEF CreateNetwork, TableStep
<1>2. ASSUME NEW n \in Nets, DeleteNetwork(n)
      PROVE  TableStep
  BY <1>2, ReturnTable, SavedTable, SaveAndReplySpec DEF DeleteNetwork, TableStep
<1>3. ASSUME NEW p \in Ports, CreatePort(p)
      PROVE  TableStep
  BY <1>3, ReturnTable, SavedTable, SaveAndReplySpec DEF CreatePort, TableStep
<1>4. ASSUME NEW p \in Ports, DeletePort(p)
      PROVE  TableStep
  BY <1>4, ReturnTable, SavedTable, SaveAndReplySpec DEF DeletePort, TableStep
<1>5. ASSUME NEW p \in Ports, NEW n \in Nets, NEW m \in Macs, AttachPort(p, n, m)
      PROVE  TableStep
  BY <1>5, ReturnTable, SavedTable, SaveAndReplySpec DEF AttachPort, TableStep
<1>6. ASSUME NEW p \in Ports, DetachPort(p)
      PROVE  TableStep
  BY <1>6, ReturnTable, SavedTable, SaveAndReplySpec DEF DetachPort, TableStep
<1>7. ASSUME NEW n \in Nets, NEW m \in Macs, AllocateIP(n, m)
      PROVE  TableStep
  BY <1>7, ReturnTable DEF AllocateIP, TableStep, SavedOrOld
<1>8. ASSUME NEW n \in Nets, NEW m \in Macs, ReleaseIP(n, m)
      PROVE  TableStep
  BY <1>8, ReturnTable, SavedTable, SaveAndReplySpec DEF ReleaseIP, TableStep
<1>9. ASSUME NEW p \in Ports, NEW v \in VmPorts, PublishPort(p, v)
      PROVE  TableStep
  <2> DEFINE table == PublishAllocate(pub, p, v)
  <2>1. CASE \E result : Return(result)
    BY <2>1, ReturnTable
  <2>2. CASE /\ table[p][v] # None
             /\ pub' = table
             /\ Save("ok")
             /\ granted' = IF reply' = "Ok"
                           THEN [granted EXCEPT ![p][v] = table[p][v]]
                           ELSE granted
    <3>1. disk'.publish_table = pub'
      BY <2>2, SaveSpec, SnapshotTable
    <3> QED
      BY <2>2, <3>1 DEF TableStep, SavedOrOld
  <2>3. CASE /\ pub' = table
             /\ \E outcome \in SaveOutcomes \ {"ok"} : Save(outcome)
             /\ granted' = granted
    BY <2>3, SaveSpec, SavedTable DEF TableStep
  <2> QED
    BY <1>9, <2>1, <2>2, <2>3 DEF PublishPort
<1>10. ASSUME NEW p \in Ports, NEW v \in VmPorts, UnpublishPort(p, v)
       PROVE  TableStep
  <2>1. CASE \E result : Return(result)
    BY <2>1, ReturnTable
  <2>2. CASE /\ pub' = PublishRemove(pub, p, v)
             /\ granted' = PublishRemove(granted, p, v)
             /\ \E outcome : Save(outcome)
    BY <2>2, SaveSpec, SavedTable DEF TableStep
  <2> QED
    BY <1>10, <2>1, <2>2 DEF UnpublishPort
<1>11. ASSUME NEW p \in Ports, SupervisePasst(p)
       PROVE  TableStep
  BY <1>11 DEF SupervisePasst, TableStep, SavedOrOld
<1>12. ASSUME Restart
       PROVE  TableStep
  BY <1>12 DEF Restart, TableStep
<1>13. ASSUME UNCHANGED vars
       PROVE  TableStep
  BY <1>13 DEF vars, memory, TableStep, SavedOrOld
<1> QED
  BY <1>1, <1>2, <1>3, <1>4, <1>5, <1>6, <1>7, <1>8, <1>9, <1>10, <1>11,
     <1>12, <1>13 DEF Next

\* The inductive invariant of the publish side: types, one owner per host port
\* in memory and in the file, and promises recorded in both.
PublishInv == TypeOK /\ HostPortsExclusive /\ GrantsSurvive

\* Taking entries away gives no host port a second owner.
LEMMA RemovalKeepsOneOwner ==
  ASSUME NEW table \in PublishTables, OneOwner(table), NEW p \in Ports, NEW v \in VmPorts
  PROVE  OneOwner(PublishRemove(table, p, v))
<1> DEFINE new == PublishRemove(table, p, v)
<1>1. \A q \in Ports, w \in VmPorts : new[q][w] # None => new[q][w] = table[q][w]
  BY PublishRemoveSpec
<1> HIDE DEF new
<1>2. OneOwner(new)
  BY <1>1 DEF OneOwner
<1> QED
  BY <1>2 DEF new

LEMMA RemovePortKeepsOneOwner ==
  ASSUME NEW table \in PublishTables, OneOwner(table), NEW p \in Ports
  PROVE  OneOwner(PublishRemovePort(table, p))
<1> DEFINE new == PublishRemovePort(table, p)
<1>1. \A q \in Ports, w \in VmPorts : new[q][w] # None => new[q][w] = table[q][w]
  BY PublishRemovePortSpec DEF NoForwards
<1> HIDE DEF new
<1>2. OneOwner(new)
  BY <1>1 DEF OneOwner
<1> QED
  BY <1>2 DEF new

\* A step keeps host ports exclusive.
LEMMA StepKeepsExclusive ==
  ASSUME PublishInv, TableStep
  PROVE  HostPortsExclusive'
<1>1. /\ pub \in PublishTables
      /\ disk.publish_table \in PublishTables
      /\ OneOwner(pub)
      /\ OneOwner(disk.publish_table)
  BY DEF PublishInv, TypeOK, Snapshots, HostPortsExclusive
<1>2. OneOwner(pub')
  BY <1>1, AllocationKeepsOneOwner, RemovalKeepsOneOwner, RemovePortKeepsOneOwner
     DEF TableStep
<1>3. disk'.publish_table \in {disk.publish_table, pub'}
  BY DEF TableStep, SavedOrOld
<1>4. OneOwner(disk'.publish_table)
  BY <1>1, <1>2, <1>3
<1> QED
  BY <1>2, <1>4 DEF HostPortsExclusive, OneOwner

\* A step keeps every promise recorded.
LEMMA StepKeepsGrants ==
  ASSUME PublishInv, TableStep
  PROVE  GrantsSurvive'
<1>1. /\ pub \in PublishTables
      /\ granted \in PublishTables
      /\ disk.publish_table \in PublishTables
  BY DEF PublishInv, TypeOK, Snapshots
<1>2. \A p \in Ports, v \in VmPorts : granted[p][v] # None =>
         /\ pub[p][v] = granted[p][v]
         /\ disk.publish_table[p][v] = granted[p][v]
  BY DEF PublishInv, GrantsSurvive
<1> SUFFICES ASSUME NEW q \in Ports, NEW w \in VmPorts, granted'[q][w] # None
             PROVE  /\ pub'[q][w] = granted'[q][w]
                    /\ disk'.publish_table[q][w] = granted'[q][w]
  BY DEF GrantsSurvive
<1>3. CASE pub' = pub /\ granted' = granted /\ SavedOrOld
  BY <1>2, <1>3 DEF SavedOrOld
<1>4. ASSUME NEW p \in Ports,
             granted' = PublishRemovePort(granted, p),
             pub' \in {pub, PublishRemovePort(pub, p)},
             SavedOrOld
      PROVE  /\ pub'[q][w] = granted'[q][w]
             /\ disk'.publish_table[q][w] = granted'[q][w]
  <2>1. q # p
    BY <1>4, <1>1, PublishRemovePortSpec DEF NoForwards
  <2>2. granted'[q] = granted[q] /\ pub'[q] = pub[q]
    BY <1>4, <1>1, <2>1, PublishRemovePortSpec
  <2> QED
    BY <1>2, <1>4, <2>2 DEF SavedOrOld
<1>5. ASSUME NEW p \in Ports, NEW v \in VmPorts,
             granted' = PublishRemove(granted, p, v),
             pub' = PublishRemove(pub, p, v),
             SavedOrOld
      PROVE  /\ pub'[q][w] = granted'[q][w]
             /\ disk'.publish_table[q][w] = granted'[q][w]
  <2>1. <<q, w>> # <<p, v>>
    BY <1>5, <1>1, PublishRemoveSpec
  <2>2. granted'[q][w] = granted[q][w] /\ pub'[q][w] = pub[q][w]
    BY <1>5, <1>1, <2>1, PublishRemoveSpec
  <2> QED
    BY <1>2, <1>5, <2>2 DEF SavedOrOld
<1>6. ASSUME NEW p \in Ports, NEW v \in VmPorts,
             granted' = granted,
             pub' = PublishAllocate(pub, p, v),
             SavedOrOld
      PROVE  /\ pub'[q][w] = granted'[q][w]
             /\ disk'.publish_table[q][w] = granted'[q][w]
  <2>1. pub[q][w] = granted[q][w] /\ pub[q][w] # None
    BY <1>2, <1>6
  <2>2. pub'[q][w] = pub[q][w]
    BY <1>6, <1>1, <2>1, PublishAllocateSpec
  <2> QED
    BY <1>2, <1>6, <2>1, <2>2 DEF SavedOrOld
<1>7. ASSUME NEW p \in Ports, NEW v \in VmPorts,
             pub' = PublishAllocate(pub, p, v),
             pub'[p][v] # None,
             granted' = [granted EXCEPT ![p][v] = pub'[p][v]],
             disk'.publish_table = pub'
      PROVE  /\ pub'[q][w] = granted'[q][w]
             /\ disk'.publish_table[q][w] = granted'[q][w]
  <2>1. CASE <<q, w>> = <<p, v>>
    BY <1>1, <1>7, <2>1 DEF PublishTables, Forwards
  <2>2. CASE <<q, w>> # <<p, v>>
    <3>1. granted'[q][w] = granted[q][w]
      BY <1>1, <1>7, <2>2 DEF PublishTables, Forwards
    <3>2. pub'[q][w] = pub[q][w]
      BY <1>1, <1>7, <2>2, PublishAllocateSpec
    <3> QED
      BY <1>2, <1>7, <3>1, <3>2
  <2> QED
    BY <2>1, <2>2
<1>8. CASE /\ pub' = disk.publish_table
           /\ disk' = disk /\ granted' = granted
  BY <1>2, <1>8
<1> QED
  BY <1>3, <1>4, <1>5, <1>6, <1>7, <1>8 DEF TableStep

LEMMA InitPublishInv ==
  ASSUME Init
  PROVE  PublishInv
<1>1. TypeOK
  BY InitType
<1>2. pub = NoPublished /\ granted = NoPublished /\ disk.publish_table = NoPublished
  BY SnapshotTable DEF Init
<1> QED
  BY <1>1, <1>2 DEF PublishInv, HostPortsExclusive, OneOwner, GrantsSurvive,
                    NoPublished, NoForwards

LEMMA NextPublishInv ==
  ASSUME PublishInv, [Next]_vars
  PROVE  PublishInv'
BY NextType, EveryStepIsTableStep, StepKeepsExclusive, StepKeepsGrants DEF PublishInv

LEMMA AlwaysPublishInv == Spec => []PublishInv
<1>1. Init => PublishInv
  BY InitPublishInv
<1>2. PublishInv /\ [Next]_vars => PublishInv'
  BY NextPublishInv
<1> QED
  BY <1>1, <1>2, PTL DEF Spec

\* No host port is ever given to two forwards, in memory or in the state file,
\* over any sequence of RPCs, persist failures and restarts.
THEOREM HostPortsStayExclusive == Spec => []HostPortsExclusive
<1>1. PublishInv => HostPortsExclusive
  BY DEF PublishInv
<1> QED
  BY <1>1, AlwaysPublishInv, PTL

\* Every acknowledged publish stays recorded in memory and in the state file
\* until its client gives it up.
THEOREM GrantsAlwaysSurvive == Spec => []GrantsSurvive
<1>1. PublishInv => GrantsSurvive
  BY DEF PublishInv
<1> QED
  BY <1>1, AlwaysPublishInv, PTL

\* A step of the control plane is a step of the client's contract or changes no
\* promise.
LEMMA StepKeepsContract ==
  ASSUME PublishInv, PublishInv', TableStep
  PROVE  [Contract!Next]_granted
<1>1. /\ pub \in PublishTables /\ pub' \in PublishTables
      /\ granted \in PublishTables
  BY DEF PublishInv, TypeOK
<1>2. CASE granted' = granted
  BY <1>2
<1>3. CASE \E p \in Ports : granted' = PublishRemovePort(granted, p)
  BY <1>3 DEF Contract!Next, Contract!WithdrawPort, Contract!PublishRemovePort,
              Contract!NoForwards, PublishRemovePort, NoForwards
<1>4. CASE \E p \in Ports, v \in VmPorts : granted' = PublishRemove(granted, p, v)
  BY <1>4 DEF Contract!Next, Contract!Withdraw, Contract!PublishRemove, PublishRemove
<1>5. ASSUME NEW p \in Ports, NEW v \in VmPorts,
             pub' = PublishAllocate(pub, p, v),
             pub'[p][v] # None,
             granted' = [granted EXCEPT ![p][v] = pub'[p][v]]
      PROVE  Contract!Next
  <2> DEFINE h == pub'[p][v]
  <2>1. h \in HostPorts
    BY <1>1, <1>5 DEF PublishTables, Forwards
  <2>2. ASSUME NEW q \in Ports, NEW w \in VmPorts, granted[q][w] # None
        PROVE  pub'[q][w] = granted[q][w]
    <3>1. pub[q][w] = granted[q][w]
      BY <2>2 DEF PublishInv, GrantsSurvive
    <3> QED
      BY <1>1, <1>5, <2>2, <3>1, PublishAllocateSpec
  <2>3. granted[p][v] \in {None, h}
    BY <2>2
  <2>4. ASSUME NEW q \in Ports, NEW w \in VmPorts, granted[q][w] = h
        PROVE  q = p /\ w = v
    <3>1. pub'[q][w] = pub'[p][v]
      BY <1>5, <2>2, <2>4
    <3>2. OneOwner(pub')
      BY DEF PublishInv, HostPortsExclusive, OneOwner
    <3> QED
      BY <1>5, <3>1, <3>2 DEF OneOwner
  <2>5. Contract!Promise(p, v, h)
    BY <1>5, <2>3, <2>4 DEF Contract!Promise
  <2> QED
    BY <2>1, <2>5 DEF Contract!Next, Contract!HostPorts, HostPorts
<1> QED
  BY <1>2, <1>3, <1>4, <1>5 DEF TableStep

\* The control plane implements the client's contract.
THEOREM ControlPlaneImplementsContract == Spec => ImplementsContract
<1>1. Init => Contract!Init
  BY DEF Init, Contract!Init, Contract!NoPublished, Contract!NoForwards,
         NoPublished, NoForwards
<1>2. PublishInv /\ PublishInv' /\ [Next]_vars => [Contract!Next]_granted
  BY EveryStepIsTableStep, StepKeepsContract
<1> QED
  BY <1>1, <1>2, AlwaysPublishInv, PTL DEF Spec, ImplementsContract, Contract!Spec

-------------------------------------------------------------------------------
(* The reservations. *)

\* All a step can do to one network's reservations: drop them with the network
\* or create the network without any, leave them, release one, allocate one.
LeaseStep ==
  \A n \in Nets :
    \/ /\ ipam'[n] = NoLeases
       /\ networks'[n] # None => NetworkValid(networks'[n])
    \/ /\ networks'[n] = networks[n]
       /\ \/ ipam'[n] = ipam[n]
          \/ \E m : ipam'[n] = IpamRelease(ipam[n], m)
          \/ /\ networks[n] # None
             /\ \E m \in Macs :
                  ipam'[n] = IpamAllocate(ipam[n], networks[n].lo, networks[n].hi, m)

\* The inductive invariant: beside exclusivity, every network was validated, so
\* that its gateway is outside the pool addresses are taken from.
LeaseInv ==
  /\ TypeOK
  /\ \A n \in Nets : networks[n] # None => NetworkValid(networks[n])
  /\ LeasesExclusive

LEMMA UnchangedLeases ==
  ASSUME UNCHANGED <<networks, ipam>>
  PROVE  LeaseStep
BY DEF LeaseStep

LEMMA ReturnLeases ==
  ASSUME NEW result, Return(result)
  PROVE  LeaseStep
BY UnchangedLeases DEF Return, memory

LEMMA ReleaseQuietlyLeases ==
  ASSUME TypeOK, NEW p \in Ports, Exists(p),
         ipam' = ReleaseQuietly(ports[p]), networks' = networks
  PROVE  LeaseStep
<1>1. CASE ports[p].network = None
  BY <1>1, UnchangedLeases DEF ReleaseQuietly
<1>2. CASE ports[p].network # None
  <2>1. /\ ports[p].network \in Nets
        /\ ipam' = [ipam EXCEPT ![ports[p].network] =
                      IpamRelease(ipam[ports[p].network], ports[p].mac)]
    BY <1>2, PortFields DEF ReleaseQuietly
  <2>2. \A n \in Nets : \/ ipam'[n] = ipam[n]
                        \/ ipam'[n] = IpamRelease(ipam[n], ports[p].mac)
    BY <2>1 DEF TypeOK
  <2> QED
    BY <2>2 DEF LeaseStep
<1> QED
  BY <1>1, <1>2

LEMMA AllocationLeases ==
  ASSUME TypeOK, NEW n \in Nets, NEW m \in Macs, networks[n] # None,
         ipam' = [ipam EXCEPT ![n] =
                    IpamAllocate(ipam[n], networks[n].lo, networks[n].hi, m)],
         networks' = networks
  PROVE  LeaseStep
<1>1. \A k \in Nets : \/ ipam'[k] = ipam[k]
                      \/ /\ k = n
                         /\ ipam'[k] = IpamAllocate(ipam[k], networks[k].lo,
                                                    networks[k].hi, m)
  BY DEF TypeOK
<1> QED
  BY <1>1 DEF LeaseStep

LEMMA EveryStepIsLeaseStep ==
  ASSUME TypeOK, [Next]_vars
  PROVE  LeaseStep
<1>1. ASSUME NEW n \in Nets, NEW params \in NetParams, CreateNetwork(n, params)
      PROVE  LeaseStep
  <2>1. CASE \E result : Return(result)
    BY <2>1, ReturnLeases
  <2>2. CASE /\ NetworkValid(params)
             /\ networks' = [networks EXCEPT ![n] = params]
             /\ ipam' = [ipam EXCEPT ![n] = NoLeases]
    <3>1. \A k \in Nets : \/ /\ k = n
                             /\ networks'[k] = params
                             /\ ipam'[k] = NoLeases
                          \/ networks'[k] = networks[k] /\ ipam'[k] = ipam[k]
      BY <2>2 DEF TypeOK
    <3> QED
      BY <2>2, <3>1 DEF LeaseStep
  <2> QED
    BY <1>1, <2>1, <2>2 DEF CreateNetwork
<1>2. ASSUME NEW n \in Nets, DeleteNetwork(n)
      PROVE  LeaseStep
  <2>1. CASE \E result : Return(result)
    BY <2>1, ReturnLeases
  <2>2. CASE /\ networks' = [networks EXCEPT ![n] = None]
             /\ ipam' = [ipam EXCEPT ![n] = NoLeases]
    <3>1. \A k \in Nets : \/ networks'[k] = None /\ ipam'[k] = NoLeases
                          \/ networks'[k] = networks[k] /\ ipam'[k] = ipam[k]
      BY <2>2 DEF TypeOK
    <3> QED
      BY <3>1 DEF LeaseStep
  <2> QED
    BY <1>2, <2>1, <2>2 DEF DeleteNetwork
<1>3. ASSUME NEW p \in Ports, CreatePort(p)
      PROVE  LeaseStep
  BY <1>3, ReturnLeases, UnchangedLeases DEF CreatePort
<1>4. ASSUME NEW p \in Ports, DeletePort(p)
      PROVE  LeaseStep
  BY <1>4, ReturnLeases, ReleaseQuietlyLeases DEF DeletePort
<1>5. ASSUME NEW p \in Ports, NEW n \in Nets, NEW m \in Macs, AttachPort(p, n, m)
      PROVE  LeaseStep
  BY <1>5, ReturnLeases, AllocationLeases DEF AttachPort
<1>6. ASSUME NEW p \in Ports, DetachPort(p)
      PROVE  LeaseStep
  BY <1>6, ReturnLeases, UnchangedLeases, ReleaseQuietlyLeases DEF DetachPort
<1>7. ASSUME NEW n \in Nets, NEW m \in Macs, AllocateIP(n, m)
      PROVE  LeaseStep
  BY <1>7, ReturnLeases, AllocationLeases DEF AllocateIP
<1>8. ASSUME NEW n \in Nets, NEW m \in Macs, ReleaseIP(n, m)
      PROVE  LeaseStep
  <2>1. CASE \E result : Return(result)
    BY <2>1, ReturnLeases
  <2>2. CASE /\ ipam' = [ipam EXCEPT ![n] = IpamRelease(ipam[n], m)]
             /\ networks' = networks
    <3>1. \A k \in Nets : ipam'[k] = ipam[k] \/ ipam'[k] = IpamRelease(ipam[k], m)
      BY <2>2 DEF TypeOK
    <3> QED
      BY <2>2, <3>1 DEF LeaseStep
  <2> QED
    BY <1>8, <2>1, <2>2 DEF ReleaseIP
<1>9. ASSUME NEW p \in Ports, NEW v \in VmPorts, PublishPort(p, v) \/ UnpublishPort(p, v)
      PROVE  LeaseStep
  BY <1>9, ReturnLeases, UnchangedLeases DEF PublishPort, UnpublishPort
<1>10. ASSUME NEW p \in Ports, SupervisePasst(p)
       PROVE  LeaseStep
  BY <1>10, UnchangedLeases DEF SupervisePasst
<1>11. ASSUME Restart
       PROVE  LeaseStep
  BY <1>11 DEF Restart, LeaseStep
<1>12. ASSUME UNCHANGED vars
       PROVE  LeaseStep
  BY <1>12, UnchangedLeases DEF vars, memory
<1> QED
  BY <1>1, <1>2, <1>3, <1>4, <1>5, <1>6, <1>7, <1>8, <1>9, <1>10, <1>11, <1>12
     DEF Next

LEMMA StepKeepsLeases ==
  ASSUME LeaseInv, TypeOK', LeaseStep
  PROVE  LeaseInv'
<1>1. ASSUME NEW n \in Nets, networks'[n] # None
      PROVE  NetworkValid(networks'[n])
  BY <1>1 DEF LeaseInv, LeaseStep
<1>2. ASSUME NEW n \in Nets, NEW m \in Macs, ipam'[n][m] # None
      PROVE  /\ networks'[n] # None
             /\ ipam'[n][m] \in networks'[n].lo .. networks'[n].hi
             /\ ipam'[n][m] # networks'[n].gw
             /\ \A k \in Macs : ipam'[n][k] = ipam'[n][m] => k = m
  <2>1. /\ ipam[n] \in Leases
        /\ networks[n] # None => /\ networks[n].lo \in Nat
                                 /\ networks[n].hi \in Nat
                                 /\ NetworkValid(networks[n])
        /\ \A i \in Macs : ipam[n][i] # None =>
             /\ networks[n] # None
             /\ ipam[n][i] \in networks[n].lo .. networks[n].hi
             /\ ipam[n][i] # networks[n].gw
             /\ \A k \in Macs : ipam[n][k] = ipam[n][i] => k = i
    BY NetworkFields DEF LeaseInv, TypeOK, LeasesExclusive
  <2>2. CASE ipam'[n] = NoLeases
    BY <1>2, <2>2 DEF NoLeases
  <2>3. CASE networks'[n] = networks[n] /\ ipam'[n] = ipam[n]
    BY <1>2, <2>1, <2>3
  <2>4. CASE networks'[n] = networks[n] /\ \E i : ipam'[n] = IpamRelease(ipam[n], i)
    <3>1. \A k \in Macs : ipam'[n][k] \in {ipam[n][k], None}
      BY <2>1, <2>4, IpamReleaseSpec
    <3> QED
      BY <1>2, <2>1, <2>4, <3>1
  <2>5. ASSUME networks'[n] = networks[n], networks[n] # None, NEW i \in Macs,
               ipam'[n] = IpamAllocate(ipam[n], networks[n].lo, networks[n].hi, i)
        PROVE  /\ networks'[n] # None
               /\ ipam'[n][m] \in networks'[n].lo .. networks'[n].hi
               /\ ipam'[n][m] # networks'[n].gw
               /\ \A k \in Macs : ipam'[n][k] = ipam'[n][m] => k = m
    <3>1. /\ \A k \in Macs : k # i => ipam'[n][k] = ipam[n][k]
          /\ \/ ipam'[n] = ipam[n]
             \/ /\ ipam'[n][i] \in networks[n].lo .. networks[n].hi
                /\ \A k \in Macs : ipam[n][k] # ipam'[n][i]
      <4> DEFINE old == ipam[n]
                 lo  == networks[n].lo
                 hi  == networks[n].hi
                 new == IpamAllocate(old, lo, hi, i)
      <4>1. old \in Leases /\ lo \in Nat /\ hi \in Nat
        BY <2>1, <2>5
      <4> HIDE DEF old, lo, hi
      <4>2. /\ \A k \in Macs : k # i => new[k] = old[k]
            /\ \/ new = old
               \/ new[i] \in lo..hi /\ \A k \in Macs : old[k] # new[i]
        BY <4>1, IpamAllocateSpec
      <4> HIDE DEF new
      <4>3. ipam'[n] = new
        BY <2>5 DEF new, old, lo, hi
      <4> QED
        BY <4>2, <4>3 DEF old, lo, hi
    <3>2. networks[n].gw \notin networks[n].lo .. networks[n].hi
      BY <2>1, <2>5 DEF NetworkValid
    <3>3. CASE ipam'[n] = ipam[n]
      BY <1>2, <2>1, <2>5, <3>3
    <3>4. CASE /\ ipam'[n][i] \in networks[n].lo .. networks[n].hi
               /\ \A k \in Macs : ipam[n][k] # ipam'[n][i]
      <4>1. CASE m = i
        BY <2>5, <3>1, <3>2, <3>4, <4>1
      <4>2. CASE m # i
        <5>1. ipam'[n][m] = ipam[n][m] /\ ipam[n][m] # None
          BY <1>2, <3>1, <4>2
        <5>2. \A k \in Macs : ipam'[n][k] = ipam'[n][m] => k = m
          BY <2>1, <3>1, <3>4, <4>2, <5>1
        <5> QED
          BY <2>1, <2>5, <5>1, <5>2
      <4> QED
        BY <4>1, <4>2
    <3> QED
      BY <3>1, <3>3, <3>4
  <2> QED
    BY <2>2, <2>3, <2>4, <2>5 DEF LeaseStep
<1> QED
  BY <1>1, <1>2 DEF LeaseInv, LeasesExclusive

\* Within a network no address is ever reserved for two MACs, and every
\* reserved address is of the pool and not the gateway's.
THEOREM LeasesStayExclusive == Spec => []LeasesExclusive
<1>1. Init => LeaseInv
  <2> SUFFICES ASSUME Init PROVE LeaseInv
    OBVIOUS
  <2>1. \A n \in Nets : networks[n] = None /\ ipam[n] = NoLeases
    BY DEF Init
  <2> QED
    BY <2>1, InitType DEF LeaseInv, LeasesExclusive, NoLeases
<1>2. LeaseInv /\ [Next]_vars => LeaseInv'
  BY NextType, EveryStepIsLeaseStep, StepKeepsLeases DEF LeaseInv
<1>3. LeaseInv => LeasesExclusive
  BY DEF LeaseInv
<1> QED
  BY <1>1, <1>2, <1>3, PTL DEF Spec

-------------------------------------------------------------------------------
(* The switch, the gateway and the id-to-name map. *)

fabric == <<ports, nextPortId, names, switchPorts, gatewayPorts>>

\* All a step can do to the port records and the three maps beside them: leave
\* them, create a port, delete, attach or detach the port p, or start afresh.
Created(p) ==
  /\ ~Exists(p)
  /\ nextPortId' = nextPortId + 1
  /\ switchPorts' = Put(switchPorts, nextPortId, Unattached)
  /\ names' = Put(names, nextPortId, p)
  /\ ports' = [ports EXCEPT ![p] =
                 [id |-> nextPortId, network |-> None, mac |-> None]]
  /\ UNCHANGED gatewayPorts

Deleted(p) ==
  /\ Exists(p)
  /\ ports' = [ports EXCEPT ![p] = None]
  /\ switchPorts' = Drop(switchPorts, ports[p].id)
  /\ gatewayPorts' = Drop(gatewayPorts, ports[p].id)
  /\ names' = Drop(names, ports[p].id)
  /\ UNCHANGED nextPortId

AttachedTo(p, n, m) ==
  /\ Exists(p)
  /\ ports' = [ports EXCEPT ![p] = [id |-> ports[p].id, network |-> n, mac |-> m]]
  /\ switchPorts' = Put(switchPorts, ports[p].id, n)
  /\ gatewayPorts' = Put(gatewayPorts, ports[p].id, n)
  /\ UNCHANGED <<nextPortId, names>>

Detached(p) ==
  /\ Exists(p)
  /\ ports' = [ports EXCEPT ![p] =
                 [id |-> ports[p].id, network |-> None, mac |-> None]]
  /\ switchPorts' = Drop(switchPorts, ports[p].id)
  /\ gatewayPorts' = Drop(gatewayPorts, ports[p].id)
  /\ UNCHANGED <<nextPortId, names>>

Restarted ==
  /\ ports' = [p \in Ports |-> None]
  /\ names' = {} /\ switchPorts' = {} /\ gatewayPorts' = {}

FabricStep ==
  \/ UNCHANGED fabric
  \/ \E p \in Ports : Created(p) \/ Deleted(p) \/ Detached(p)
  \/ \E p \in Ports, n \in Nets, m \in Macs : AttachedTo(p, n, m)
  \/ Restarted

LEMMA ReturnFabric ==
  ASSUME NEW result, Return(result)
  PROVE  UNCHANGED fabric
BY DEF Return, memory, fabric

LEMMA EveryStepIsFabricStep ==
  ASSUME [Next]_vars
  PROVE  FabricStep
<1>1. ASSUME NEW n \in Nets, NEW params \in NetParams, CreateNetwork(n, params)
      PROVE  UNCHANGED fabric
  BY <1>1, ReturnFabric DEF CreateNetwork, fabric
<1>2. ASSUME NEW n \in Nets, DeleteNetwork(n)
      PROVE  UNCHANGED fabric
  BY <1>2, ReturnFabric DEF DeleteNetwork, fabric
<1>3. ASSUME NEW p \in Ports, CreatePort(p)
      PROVE  UNCHANGED fabric \/ Created(p)
  BY <1>3, ReturnFabric DEF CreatePort, Created
<1>4. ASSUME NEW p \in Ports, DeletePort(p)
      PROVE  UNCHANGED fabric \/ Deleted(p)
  BY <1>4, ReturnFabric DEF DeletePort, Deleted
<1>5. ASSUME NEW p \in Ports, NEW n \in Nets, NEW m \in Macs, AttachPort(p, n, m)
      PROVE  UNCHANGED fabric \/ AttachedTo(p, n, m)
  BY <1>5, ReturnFabric DEF AttachPort, AttachedTo
<1>6. ASSUME NEW p \in Ports, DetachPort(p)
      PROVE  UNCHANGED fabric \/ Detached(p)
  BY <1>6, ReturnFabric DEF DetachPort, Detached
<1>7. ASSUME NEW n \in Nets, NEW m \in Macs, AllocateIP(n, m) \/ ReleaseIP(n, m)
      PROVE  UNCHANGED fabric
  BY <1>7, ReturnFabric DEF AllocateIP, ReleaseIP, fabric
<1>8. ASSUME NEW p \in Ports, NEW v \in VmPorts, PublishPort(p, v) \/ UnpublishPort(p, v)
      PROVE  UNCHANGED fabric
  BY <1>8, ReturnFabric DEF PublishPort, UnpublishPort, fabric
<1>9. ASSUME NEW p \in Ports, SupervisePasst(p)
      PROVE  UNCHANGED fabric
  BY <1>9 DEF SupervisePasst, fabric
<1>10. ASSUME Restart
       PROVE  Restarted
  BY <1>10 DEF Restart, Restarted
<1>11. ASSUME UNCHANGED vars
       PROVE  UNCHANGED fabric
  BY <1>11 DEF vars, memory, fabric
<1> QED
  BY <1>1, <1>2, <1>3, <1>4, <1>5, <1>6, <1>7, <1>8, <1>9, <1>10, <1>11
     DEF Next, FabricStep

\* The conjuncts of FabricMirrorsPorts, one name each.
IdsFresh ==
  \A p \in Ports : Exists(p) =>
    /\ ports[p].id < nextPortId
    /\ \A q \in Ports : Exists(q) /\ ports[q].id = ports[p].id => q = p
    /\ <<ports[p].id, p>> \in names

AttachedIsWired ==
  \A p \in Ports : Attached(p) =>
    /\ <<ports[p].id, ports[p].network>> \in switchPorts
    /\ <<ports[p].id, ports[p].network>> \in gatewayPorts

NamesBacked == \A e \in names : Exists(e[2]) /\ ports[e[2]].id = e[1]

GatewayBacked ==
  \A e \in gatewayPorts :
    \E p \in Ports : Exists(p) /\ ports[p].id = e[1] /\ ports[p].network = e[2]

SwitchBacked ==
  \A e \in switchPorts :
    \E p \in Ports :
      /\ Exists(p)
      /\ ports[p].id = e[1]
      /\ \/ ports[p].network = e[2]
         \/ e[2] = Unattached /\ ports[p].network = None

LEMMA FabricParts ==
  FabricMirrorsPorts <=>
    IdsFresh /\ AttachedIsWired /\ NamesBacked /\ GatewayBacked /\ SwitchBacked
BY DEF FabricMirrorsPorts, IdsFresh, AttachedIsWired, NamesBacked, GatewayBacked,
       SwitchBacked

LEMMA CreatedFabric ==
  ASSUME TypeOK, TypeOK', FabricMirrorsPorts, NEW p \in Ports, Created(p)
  PROVE  FabricMirrorsPorts'
<1> DEFINE id == nextPortId
<1>1. /\ Exists(p)' /\ ports'[p].id = id /\ ports'[p].network = None
      /\ ~Attached(p)'
      /\ \A q \in Ports \ {p} : ports'[q] = ports[q]
  <2>1. [id |-> id, network |-> None, mac |-> None] \in PortRecords
    BY DEF PortRecords, TypeOK
  <2> QED
    BY <2>1, NoRecordAssumption DEF TypeOK, Created, Exists, Attached
<1>2. /\ \A q \in Ports : Exists(q) => q # p /\ ports[q].id \in Nat /\ ports[q].id # id
      /\ id \in Nat
  <2>1. id \in Nat
    BY DEF TypeOK
  <2>2. ASSUME NEW q \in Ports, Exists(q)
        PROVE  q # p /\ ports[q].id \in Nat /\ ports[q].id < id
    BY <2>2, PortFields DEF FabricMirrorsPorts, Created
  <2> QED
    BY <2>1, <2>2
<1>3. IdsFresh'
  <2>1. ASSUME NEW q \in Ports, Exists(q)'
        PROVE  /\ ports'[q].id < nextPortId'
               /\ \A r \in Ports : Exists(r)' /\ ports'[r].id = ports'[q].id => r = q
               /\ <<ports'[q].id, q>> \in names'
    BY <1>1, <1>2, <2>1 DEF FabricMirrorsPorts, Created, Exists, Put
  <2> QED
    BY <2>1 DEF IdsFresh, Exists
<1>4. AttachedIsWired'
  BY <1>1, <1>2 DEF AttachedIsWired, FabricMirrorsPorts, Created, Exists, Attached, Put
<1>5. NamesBacked'
  <2>1. ASSUME NEW e \in names'
        PROVE  Exists(e[2])' /\ ports'[e[2]].id = e[1]
    <3>1. CASE e \in names
      BY <1>1, <3>1 DEF FabricMirrorsPorts, TypeOK, Exists, Created
    <3>2. CASE e = <<id, p>>
      BY <1>1, <3>2
    <3> QED
      BY <2>1, <3>1, <3>2 DEF Created, Put
  <2> QED
    BY <2>1 DEF NamesBacked, Exists
<1>6. GatewayBacked'
  BY <1>1, <1>2 DEF GatewayBacked, FabricMirrorsPorts, Created, Exists
<1>7. SwitchBacked'
  <2>1. ASSUME NEW e \in switchPorts'
        PROVE  \E q \in Ports :
                 /\ Exists(q)'
                 /\ ports'[q].id = e[1]
                 /\ \/ ports'[q].network = e[2]
                    \/ e[2] = Unattached /\ ports'[q].network = None
    <3>1. CASE e \in switchPorts
      BY <1>1, <1>2, <3>1 DEF FabricMirrorsPorts, Exists
    <3>2. CASE e = <<id, Unattached>>
      BY <1>1, <3>2
    <3> QED
      BY <2>1, <3>1, <3>2 DEF Created, Put
  <2> QED
    BY <2>1 DEF SwitchBacked, Exists
<1> QED
  BY <1>3, <1>4, <1>5, <1>6, <1>7, FabricParts, PTL

\* Removing or replacing a port's record and its id's entries.
LEMMA RemovedFabric ==
  ASSUME TypeOK, TypeOK', FabricMirrorsPorts, NEW p \in Ports,
         Deleted(p) \/ Detached(p)
  PROVE  FabricMirrorsPorts'
<1> DEFINE id == ports[p].id
<1>1. /\ Exists(p) /\ ~Attached(p)'
      /\ Exists(p)' => ports'[p].id = id /\ Detached(p)
      /\ \A q \in Ports \ {p} : ports'[q] = ports[q]
      /\ nextPortId' = nextPortId
      /\ switchPorts' = {e \in switchPorts : e[1] # id}
      /\ gatewayPorts' = {e \in gatewayPorts : e[1] # id}
  BY DEF TypeOK, Deleted, Detached, Exists, Attached, Drop
<1>2. \A q \in Ports \ {p} : Exists(q) => ports[q].id # id
  BY <1>1 DEF FabricMirrorsPorts
<1>3. \/ names' = {e \in names : e[1] # id} /\ ~Exists(p)'
      \/ names' = names /\ Exists(p)'
  <2>1. CASE Deleted(p)
    BY <2>1 DEF Deleted, Drop, Exists, TypeOK
  <2>2. CASE Detached(p)
    <3>1. [id |-> id, network |-> None, mac |-> None] \in PortRecords
      BY <1>1, PortFields DEF PortRecords
    <3> QED
      BY <2>2, <3>1, NoRecordAssumption DEF Detached, Exists, TypeOK
  <2> QED
    BY <2>1, <2>2
<1>4. IdsFresh'
  BY <1>1, <1>2, <1>3 DEF IdsFresh, FabricMirrorsPorts, Exists
<1>5. AttachedIsWired'
  BY <1>1, <1>2 DEF AttachedIsWired, FabricMirrorsPorts, Exists, Attached
<1>6. NamesBacked'
  BY <1>1, <1>2, <1>3 DEF NamesBacked, FabricMirrorsPorts, Exists, TypeOK
<1>7. GatewayBacked'
  BY <1>1, <1>2 DEF GatewayBacked, FabricMirrorsPorts, Exists
<1>8. SwitchBacked'
  BY <1>1, <1>2 DEF SwitchBacked, FabricMirrorsPorts, Exists
<1> QED
  BY <1>4, <1>5, <1>6, <1>7, <1>8, FabricParts, PTL

LEMMA AttachedFabric ==
  ASSUME TypeOK, TypeOK', FabricMirrorsPorts,
         NEW p \in Ports, NEW n \in Nets, NEW m \in Macs, AttachedTo(p, n, m)
  PROVE  FabricMirrorsPorts'
<1> DEFINE id == ports[p].id
<1>1. /\ Exists(p) /\ Exists(p)' /\ ports'[p].id = id /\ ports'[p].network = n
      /\ \A q \in Ports \ {p} : ports'[q] = ports[q]
  <2>1. [id |-> id, network |-> n, mac |-> m] \in PortRecords
    BY PortFields DEF PortRecords, AttachedTo
  <2> QED
    BY <2>1, NoRecordAssumption DEF TypeOK, AttachedTo, Exists
<1>2. \A q \in Ports \ {p} : Exists(q) => ports[q].id # id
  BY <1>1 DEF FabricMirrorsPorts
<1>3. /\ switchPorts' = {e \in switchPorts : e[1] # id} \cup {<<id, n>>}
      /\ gatewayPorts' = {e \in gatewayPorts : e[1] # id} \cup {<<id, n>>}
      /\ nextPortId' = nextPortId /\ names' = names
  BY DEF AttachedTo, Put
<1>4. IdsFresh'
  BY <1>1, <1>2, <1>3 DEF IdsFresh, FabricMirrorsPorts, Exists
<1>5. AttachedIsWired'
  BY <1>1, <1>2, <1>3 DEF AttachedIsWired, FabricMirrorsPorts, Exists, Attached
<1>6. NamesBacked'
  BY <1>1, <1>2, <1>3 DEF NamesBacked, FabricMirrorsPorts, Exists, TypeOK
<1>7. GatewayBacked'
  BY <1>1, <1>2, <1>3 DEF GatewayBacked, FabricMirrorsPorts, Exists
<1>8. SwitchBacked'
  BY <1>1, <1>2, <1>3 DEF SwitchBacked, FabricMirrorsPorts, Exists
<1> QED
  BY <1>4, <1>5, <1>6, <1>7, <1>8, FabricParts, PTL

\* The switch, the gateway and the id-to-name map always mirror the port
\* records, over any sequence of RPCs, persist and spawn failures and restarts.
THEOREM FabricAlwaysMirrorsPorts == Spec => []FabricMirrorsPorts
<1> DEFINE FabricInv == TypeOK /\ FabricMirrorsPorts
<1>1. Init => FabricInv
  BY InitType DEF Init, FabricMirrorsPorts, Exists, Attached
<1>2. ASSUME FabricInv, [Next]_vars
      PROVE  FabricInv'
  <2>1. TypeOK'
    BY <1>2, NextType
  <2>2. CASE UNCHANGED fabric
    BY <1>2, <2>1, <2>2 DEF fabric, FabricMirrorsPorts, Exists, Attached
  <2>3. CASE Restarted
    BY <2>1, <2>3 DEF Restarted, FabricMirrorsPorts, Exists, Attached
  <2>4. FabricStep
    BY <1>2, EveryStepIsFabricStep
  <2> QED
    BY <1>2, <2>1, <2>2, <2>3, <2>4, CreatedFabric, RemovedFabric, AttachedFabric
       DEF FabricStep
<1> QED
  BY <1>1, <1>2, PTL DEF Spec

-------------------------------------------------------------------------------
(* What a reply tells the client. *)

\* The action of RepliesAreHonest.
HonestStep ==
  /\ reply' = "Ok" /\ <<networks, ports, pub>>' # <<networks, ports, pub>>
       => disk' = Snapshot(networks', ipam', ports', pub')
  /\ reply' = "Conflict" => UNCHANGED <<memory, disk>>

LEMMA ReturnHonest ==
  ASSUME NEW result, Return(result)
  PROVE  HonestStep
BY DEF Return, memory, HonestStep

LEMMA SaveAndReplyHonest ==
  ASSUME SaveAndReply
  PROVE  HonestStep
BY SaveAndReplySpec DEF HonestStep

\* The tail of PublishPort and UnpublishPort never answers Conflict.
LEMMA SyncPasstReply ==
  ASSUME NEW p, NEW forwards, SyncPasst(p, forwards)
  PROVE  reply' \in {"Ok", "NotFound", "Internal"}
BY DEF SyncPasst

LEMMA EveryStepIsHonest ==
  ASSUME Next
  PROVE  HonestStep
<1>1. ASSUME NEW n \in Nets, NEW params \in NetParams, CreateNetwork(n, params)
      PROVE  HonestStep
  BY <1>1, ReturnHonest, SaveAndReplyHonest DEF CreateNetwork
<1>2. ASSUME NEW n \in Nets, DeleteNetwork(n)
      PROVE  HonestStep
  BY <1>2, ReturnHonest, SaveAndReplyHonest DEF DeleteNetwork
<1>3. ASSUME NEW p \in Ports, CreatePort(p)
      PROVE  HonestStep
  BY <1>3, ReturnHonest, SaveAndReplyHonest DEF CreatePort
<1>4. ASSUME NEW p \in Ports, DeletePort(p)
      PROVE  HonestStep
  BY <1>4, ReturnHonest, SaveAndReplyHonest DEF DeletePort
<1>5. ASSUME NEW p \in Ports, NEW n \in Nets, NEW m \in Macs, AttachPort(p, n, m)
      PROVE  HonestStep
  <2>1. \/ \E result : Return(result)
        \/ SaveAndReply
        \/ reply' = "Internal"
    BY <1>5 DEF AttachPort
  <2> QED
    BY <2>1, ReturnHonest, SaveAndReplyHonest DEF HonestStep
<1>6. ASSUME NEW p \in Ports, DetachPort(p)
      PROVE  HonestStep
  <2>1. \/ \E result : Return(result)
        \/ SaveAndReply
        \/ reply' = "NotFound"
    BY <1>6 DEF DetachPort
  <2> QED
    BY <2>1, ReturnHonest, SaveAndReplyHonest DEF HonestStep
<1>7. ASSUME NEW n \in Nets, NEW m \in Macs, AllocateIP(n, m)
      PROVE  HonestStep
  BY <1>7, ReturnHonest DEF AllocateIP, HonestStep
<1>8. ASSUME NEW n \in Nets, NEW m \in Macs, ReleaseIP(n, m)
      PROVE  HonestStep
  BY <1>8, ReturnHonest, SaveAndReplyHonest DEF ReleaseIP
<1>9. ASSUME NEW p \in Ports, NEW v \in VmPorts, PublishPort(p, v)
      PROVE  HonestStep
  <2>1. \/ \E result : Return(result)
        \/ Save("ok") /\ \E fwd : SyncPasst(p, fwd)
        \/ reply' = "Internal"
    BY <1>9 DEF PublishPort
  <2> QED
    BY <2>1, ReturnHonest, SaveSpec, SyncPasstReply DEF HonestStep
<1>10. ASSUME NEW p \in Ports, NEW v \in VmPorts, UnpublishPort(p, v)
       PROVE  HonestStep
  <2>1. \/ \E result : Return(result)
        \/ Save("ok") /\ reply' = "Ok"
        \/ Save("ok") /\ \E fwd : SyncPasst(p, fwd)
        \/ reply' = "Internal"
    BY <1>10 DEF UnpublishPort
  <2> QED
    BY <2>1, ReturnHonest, SaveSpec, SyncPasstReply DEF HonestStep
<1>11. ASSUME NEW p \in Ports, SupervisePasst(p)
       PROVE  HonestStep
  BY <1>11 DEF SupervisePasst, HonestStep
<1>12. ASSUME Restart
       PROVE  HonestStep
  BY <1>12 DEF Restart, HonestStep
<1> QED
  BY <1>1, <1>2, <1>3, <1>4, <1>5, <1>6, <1>7, <1>8, <1>9, <1>10, <1>11, <1>12
     DEF Next

\* An Ok that changed a network, a port or the publish table leaves the state
\* file equal to memory, and a Conflict leaves both as they were, whatever
\* failed before.
THEOREM RepliesStayHonest == Spec => RepliesAreHonest
<1>1. [Next]_vars => [HonestStep]_vars
  BY EveryStepIsHonest
<1> QED
  BY <1>1, PTL DEF Spec, RepliesAreHonest, HonestStep

-------------------------------------------------------------------------------
(* An orderly client, while the state file can be written. *)

\* On a network a MAC is in use at one port: what keeps the release of one
\* port's reservation from taking another port's address.
OneUser ==
  \A p, q \in Ports :
    /\ Attached(p) /\ Attached(q)
    /\ ports[p].network = ports[q].network /\ ports[p].mac = ports[q].mac
    => p = q

\* A slot belongs to an attached port and is pinned to its address and network.
SlotPinned(p) ==
  passts[p] # None =>
    /\ Attached(p)
    /\ passts[p].desired =
         PasstConfig(networks[ports[p].network],
                     ipam[ports[p].network][ports[p].mac],
                     passts[p].desired.forwards)

SlotBacked(p) ==
  \A v \in VmPorts :
    passts[p] # None /\ passts[p].desired.forwards[v] # None =>
      passts[p].desired.forwards[v] = pub[p][v]

\* The inductive invariant: what holds of each port, no MAC used twice, and the
\* exclusive reservations of any client.
PortInv(p) ==
  /\ Attached(p) => HasLease(p)
  /\ SlotPinned(p)
  /\ SlotBacked(p)
  /\ restarts = 0 /\ pub[p] # NoForwards => Attached(p)

OrderlyInv ==
  /\ LeaseInv
  /\ OneUser
  /\ \A p \in Ports : PortInv(p)

\* All a step can do to one port: leave its record, its network, its reservation
\* and its forwards; leave it unattached with nothing; or attach it or leave it
\* attached, with forwards of the table.
Kept(p) ==
  /\ ports'[p] = ports[p]
  /\ Attached(p) =>
       /\ networks'[ports[p].network] = networks[ports[p].network]
       /\ ipam'[ports[p].network][ports[p].mac] = ipam[ports[p].network][ports[p].mac]
  /\ \/ passts'[p] = None
     \/ passts[p] # None /\ passts'[p].desired = passts[p].desired
  /\ pub'[p] = pub[p]

Vacated(p) ==
  /\ ~Attached(p)'
  /\ passts'[p] = None
  /\ restarts' = 0 => pub'[p] = NoForwards

Configured(p) ==
  /\ Attached(p)' /\ HasLease(p)'
  /\ \/ passts'[p] = None
     \/ \E forwards \in {NoForwards, pub'[p]} :
          passts'[p].desired =
            PasstConfig(networks'[ports'[p].network],
                        ipam'[ports'[p].network][ports'[p].mac], forwards)

PortStep(p) == Kept(p) \/ Vacated(p) \/ Configured(p)

OrderlyStep ==
  /\ \A p \in Ports : PortStep(p)
  /\ OneUser'
  /\ restarts' = 0 => restarts = 0

LEMMA PortStepKeepsInv ==
  ASSUME NEW p \in Ports, PortInv(p), PortStep(p), restarts' = 0 => restarts = 0
  PROVE  PortInv(p)'
<1>1. CASE Kept(p)
  <2>1. /\ Attached(p)' <=> Attached(p)
        /\ HasLease(p) => HasLease(p)'
    BY <1>1 DEF Kept, Attached, HasLease
  <2>2. SlotPinned(p)'
    BY <1>1, <2>1 DEF PortInv, Kept, SlotPinned, Attached
  <2>3. SlotBacked(p)'
    BY <1>1 DEF PortInv, Kept, SlotBacked
  <2> QED
    BY <1>1, <2>1, <2>2, <2>3 DEF PortInv, Kept
<1>2. CASE Vacated(p)
  BY <1>2 DEF PortInv, Vacated, SlotPinned, SlotBacked
<1>3. CASE Configured(p)
  BY <1>3 DEF PortInv, Configured, SlotPinned, SlotBacked, PasstConfig, NoForwards
<1> QED
  BY <1>1, <1>2, <1>3 DEF PortStep

\* While the state file can be written no persist fails.
LEMMA SaveSucceeds ==
  ASSUME TypeOK, MaxSaveFaults = 0, NEW outcome, Save(outcome)
  PROVE  outcome = "ok"
BY DEF TypeOK, Save

LEMMA SaveAndReplySucceeds ==
  ASSUME TypeOK, MaxSaveFaults = 0, SaveAndReply
  PROVE  reply' = "Ok"
BY SaveSucceeds DEF SaveAndReply

\* Ipam::allocate keeps every binding there is.
LEMMA AllocationKeepsLeases ==
  ASSUME NEW leases \in Leases, NEW lo, NEW hi, NEW m \in Macs, NEW k \in Macs,
         leases[k] # None
  PROVE  IpamAllocate(leases, lo, hi, m)[k] = leases[k]
BY DEF Leases, IpamAllocate

\* ensure_passt leaves the slot with this configuration, and the other slots.
LEMMA EnsurePasstSpec ==
  ASSUME passts \in [Ports -> Slots \cup {None}],
         NEW p \in Ports, NEW config, NEW spawned, EnsurePasst(p, config, spawned)
  PROVE  /\ passts'[p].desired = config
         /\ \A q \in Ports \ {p} : passts'[q] = passts[q]
BY DEF EnsurePasst

LEMMA TeardownSpec ==
  ASSUME passts \in [Ports -> Slots \cup {None}], NEW p \in Ports, TeardownPasst(p)
  PROVE  /\ passts'[p] = None
         /\ \A q \in Ports \ {p} : passts'[q] = passts[q]
BY DEF TeardownPasst

\* The release of port p's reservation takes no other attached port's.
LEMMA ReleaseKeepsOthers ==
  ASSUME TypeOK, OneUser, NEW p \in Ports, Exists(p),
         ipam' = ReleaseQuietly(ports[p]),
         NEW q \in Ports, q # p, Attached(q)
  PROVE  ipam'[ports[q].network][ports[q].mac] = ipam[ports[q].network][ports[q].mac]
<1>1. ports[q].network \in Nets /\ ports[q].mac \in Macs
  BY PortFields DEF Attached, Exists
<1>2. CASE ports[p].network = None
  BY <1>2 DEF ReleaseQuietly
<1>3. CASE ports[p].network # None
  <2>1. /\ ports[p].network \in Nets
        /\ ~(ports[p].network = ports[q].network /\ ports[p].mac = ports[q].mac)
    BY <1>3, PortFields DEF OneUser, Attached, Exists
  <2>2. ipam' = [ipam EXCEPT ![ports[p].network] =
                   [ipam[ports[p].network] EXCEPT ![ports[p].mac] = None]]
    BY <1>3 DEF ReleaseQuietly, IpamRelease
  <2> QED
    BY <1>1, <2>1, <2>2 DEF TypeOK, Leases
<1> QED
  BY <1>2, <1>3

\* A step that leaves the attachments leaves the MACs' users.
LEMMA SameUsers ==
  ASSUME OneUser, \A p \in Ports : ports'[p] = ports[p] \/ ~Attached(p)'
  PROVE  OneUser'
BY DEF OneUser, Attached

LEMMA ReturnKeeps ==
  ASSUME OrderlyInv, NEW result, Return(result)
  PROVE  OrderlyStep
<1>1. UNCHANGED memory /\ restarts' = restarts
  BY DEF Return, faults
<1>2. \A p \in Ports : Kept(p)
  BY <1>1 DEF memory, Kept
<1>3. OneUser'
  BY <1>1, SameUsers DEF OrderlyInv, memory
<1> QED
  BY <1>1, <1>2, <1>3 DEF OrderlyStep, PortStep

\* CreateNetwork and an orderly DeleteNetwork touch only a network to which no
\* port is attached.
LEMMA NetworkKeeps ==
  ASSUME OrderlyInv, NEW n \in Nets, NEW params,
         \A p \in Ports : Attached(p) => ports[p].network # n,
         networks' = [networks EXCEPT ![n] = params],
         ipam' = [ipam EXCEPT ![n] = NoLeases],
         UNCHANGED <<ports, passts, pub, restarts>>
  PROVE  OrderlyStep
<1>1. ASSUME NEW p \in Ports
      PROVE  Kept(p)
  <2>1. TypeOK
    BY DEF OrderlyInv, LeaseInv
  <2>2. Attached(p) => ports[p].network \in Nets /\ ports[p].network # n
    BY <2>1, PortFields DEF Attached, Exists
  <2> QED
    BY <2>1, <2>2 DEF Kept, TypeOK
<1>2. OneUser'
  BY SameUsers DEF OrderlyInv
<1> QED
  BY <1>1, <1>2 DEF OrderlyStep, PortStep

LEMMA CreateNetworkOrderly ==
  ASSUME OrderlyInv, NEW n \in Nets, NEW params \in NetParams, CreateNetwork(n, params)
  PROVE  OrderlyStep
<1>1. CASE \E result : Return(result)
  BY <1>1, ReturnKeeps
<1>2. CASE /\ networks[n] = None
           /\ networks' = [networks EXCEPT ![n] = params]
           /\ ipam' = [ipam EXCEPT ![n] = NoLeases]
           /\ UNCHANGED <<ports, passts, pub, restarts>>
  <2>1. \A p \in Ports : Attached(p) => ports[p].network # n
    BY <1>2 DEF OrderlyInv, PortInv, HasLease
  <2> QED
    BY <1>2, <2>1, NetworkKeeps
<1> QED
  BY <1>1, <1>2 DEF CreateNetwork

LEMMA DeleteNetworkOrderly ==
  ASSUME OrderlyInv, NEW n \in Nets,
         \A p \in Ports : Attached(p) => ports[p].network # n,
         DeleteNetwork(n)
  PROVE  OrderlyStep
BY ReturnKeeps, NetworkKeeps DEF DeleteNetwork

\* A new port had no slot and no forwards, and has none.
LEMMA CreatePortOrderly ==
  ASSUME OrderlyInv, NEW p \in Ports, CreatePort(p)
  PROVE  OrderlyStep
<1>1. CASE \E result : Return(result)
  BY <1>1, ReturnKeeps
<1>2. CASE /\ ~Exists(p)
           /\ ports' = [ports EXCEPT ![p] =
                          [id |-> nextPortId, network |-> None, mac |-> None]]
           /\ UNCHANGED <<networks, ipam, passts, pub, restarts>>
  <2>1. ports \in [Ports -> PortRecords \cup {None}] /\ ~Attached(p)
    BY <1>2 DEF OrderlyInv, LeaseInv, TypeOK, Attached, Exists
  <2>2. /\ ~Attached(p)'
        /\ \A q \in Ports \ {p} : ports'[q] = ports[q]
    BY <1>2, <2>1 DEF Attached
  <2>3. Vacated(p)
    BY <1>2, <2>1, <2>2 DEF OrderlyInv, PortInv, SlotPinned, Vacated
  <2>4. \A q \in Ports \ {p} : Kept(q)
    BY <1>2, <2>2 DEF Kept
  <2>5. OneUser'
    BY <2>2, SameUsers DEF OrderlyInv
  <2> QED
    BY <1>2, <2>3, <2>4, <2>5 DEF OrderlyStep, PortStep
<1> QED
  BY <1>1, <1>2 DEF CreatePort

\* DeletePort and DetachPort, when the reservation is there and the file can be
\* written, leave the port with nothing and the other ports with what they had.
LEMMA VacatePort ==
  ASSUME OrderlyInv, NEW p \in Ports, Exists(p), ~Attached(p)',
         \A q \in Ports \ {p} : ports'[q] = ports[q],
         ipam' = ReleaseQuietly(ports[p]),
         pub' = PublishRemovePort(pub, p),
         TeardownPasst(p),
         UNCHANGED <<networks, restarts>>
  PROVE  OrderlyStep
<1>1. TypeOK /\ OneUser
  BY DEF OrderlyInv, LeaseInv
<1>2. /\ passts'[p] = None
      /\ \A q \in Ports \ {p} : passts'[q] = passts[q]
  BY <1>1, TeardownSpec DEF TypeOK
<1>3. /\ pub'[p] = NoForwards
      /\ \A q \in Ports \ {p} : pub'[q] = pub[q]
  BY <1>1, PublishRemovePortSpec DEF TypeOK
<1>4. Vacated(p)
  BY <1>2, <1>3 DEF Vacated
<1>5. ASSUME NEW q \in Ports \ {p}
      PROVE  Kept(q)
  BY <1>1, <1>2, <1>3, ReleaseKeepsOthers DEF Kept
<1>6. OneUser'
  BY <1>1, SameUsers
<1> QED
  BY <1>4, <1>5, <1>6 DEF OrderlyStep, PortStep

LEMMA DeletePortOrderly ==
  ASSUME MaxSaveFaults = 0, OrderlyInv, NEW p \in Ports, DeletePort(p)
  PROVE  OrderlyStep
<1>1. TypeOK
  BY DEF OrderlyInv, LeaseInv
<1>2. CASE \E result : Return(result)
  BY <1>2, ReturnKeeps
<1>3. CASE /\ Exists(p)
           /\ ports' = [ports EXCEPT ![p] = None]
           /\ ipam' = ReleaseQuietly(ports[p])
           /\ pub' = PublishRemovePort(pub, p)
           /\ UNCHANGED <<networks, restarts>>
           /\ SaveAndReply
           /\ TeardownPasst(p) \/ reply' = "Internal"
  <2>1. TeardownPasst(p)
    BY <1>1, <1>3, SaveAndReplySucceeds
  <2>2. /\ ~Attached(p)'
        /\ \A q \in Ports \ {p} : ports'[q] = ports[q]
    BY <1>1, <1>3 DEF TypeOK, Attached
  <2> QED
    BY <1>3, <2>1, <2>2, VacatePort
<1> QED
  BY <1>2, <1>3 DEF DeletePort

LEMMA DetachPortOrderly ==
  ASSUME MaxSaveFaults = 0, OrderlyInv, NEW p \in Ports, DetachPort(p)
  PROVE  OrderlyStep
<1>1. TypeOK /\ (Attached(p) => HasLease(p))
  BY DEF OrderlyInv, LeaseInv, PortInv
<1>2. CASE \E result : Return(result)
  BY <1>2, ReturnKeeps
<1>3. CASE /\ Exists(p)
           /\ ports' = [ports EXCEPT ![p] =
                          [id |-> ports[p].id, network |-> None, mac |-> None]]
           /\ ipam' = ReleaseQuietly(ports[p])
           /\ pub' = PublishRemovePort(pub, p)
           /\ UNCHANGED <<networks, restarts>>
           /\ SaveAndReply
           /\ TeardownPasst(p) \/ reply' = "Internal"
  <2>1. TeardownPasst(p)
    BY <1>1, <1>3, SaveAndReplySucceeds
  <2>2. /\ ~Attached(p)'
        /\ \A q \in Ports \ {p} : ports'[q] = ports[q]
    BY <1>1, <1>3 DEF TypeOK, Attached
  <2> QED
    BY <1>3, <2>1, <2>2, VacatePort
<1> QED
  BY <1>1, <1>2, <1>3 DEF DetachPort

\* An allocation on network n keeps every attached port's reservation.
LEMMA AllocationKeepsAttached ==
  ASSUME OrderlyInv, NEW n \in Nets, NEW m \in Macs, NEW lo, NEW hi,
         ipam' = [ipam EXCEPT ![n] = IpamAllocate(ipam[n], lo, hi, m)],
         NEW q \in Ports, Attached(q)
  PROVE  ipam'[ports[q].network][ports[q].mac] = ipam[ports[q].network][ports[q].mac]
<1>1. TypeOK /\ HasLease(q)
  BY DEF OrderlyInv, LeaseInv, PortInv
<1>2. ports[q].network \in Nets /\ ports[q].mac \in Macs
  BY <1>1, PortFields DEF Attached, Exists
<1>3. ipam \in [Nets -> Leases] /\ ipam[ports[q].network][ports[q].mac] # None
  BY <1>1 DEF TypeOK, HasLease
<1>4. CASE ports[q].network = n
  <2>1. ipam'[n] = IpamAllocate(ipam[n], lo, hi, m)
    BY <1>3
  <2> QED
    BY <1>2, <1>3, <1>4, <2>1, AllocationKeepsLeases
<1>5. CASE ports[q].network # n
  BY <1>2, <1>3, <1>5
<1> QED
  BY <1>4, <1>5

LEMMA AttachPortOrderly ==
  ASSUME MaxSaveFaults = 0, OrderlyInv, NEW p \in Ports, NEW n \in Nets, NEW m \in Macs,
         \A q \in Ports \ {p} : ~Uses(q, n, m),
         AttachPort(p, n, m)
  PROVE  OrderlyStep
<1> DEFINE leases == IpamAllocate(ipam[n], networks[n].lo, networks[n].hi, m)
           config == PasstConfig(networks[n], leases[m], NoForwards)
<1>1. TypeOK /\ OneUser
  BY DEF OrderlyInv, LeaseInv
<1>2. CASE \E result : Return(result)
  BY <1>2, ReturnKeeps
<1>3. CASE /\ Exists(p)
           /\ networks[n] # None
           /\ leases[m] # None
           /\ ipam' = [ipam EXCEPT ![n] = leases]
           /\ ports' = [ports EXCEPT ![p] =
                          [id |-> ports[p].id, network |-> n, mac |-> m]]
           /\ UNCHANGED <<networks, pub, restarts>>
           /\ EnsurePasst(p, config, TRUE) \/ EnsurePasst(p, config, FALSE)
  <2>1. ipam'[n] = leases
    BY <1>1, <1>3 DEF TypeOK
  <2>2. /\ ports'[p] # None /\ ports'[p].network = n /\ ports'[p].mac = m
        /\ n # None
        /\ \A q \in Ports \ {p} : ports'[q] = ports[q]
    <3>1. [id |-> ports[p].id, network |-> n, mac |-> m] \in PortRecords
      BY <1>1, <1>3, PortFields DEF PortRecords
    <3> QED
      BY <1>1, <1>3, <3>1, NoRecordAssumption, ControlPlaneAssumption,
         AllocatorsAssumption DEF TypeOK
  <2>3. ASSUME NEW q \in Ports \ {p}, Attached(q)
        PROVE  ipam'[ports[q].network][ports[q].mac]
                 = ipam[ports[q].network][ports[q].mac]
    BY <1>3, <2>3, AllocationKeepsAttached
  <2>4. /\ passts'[p].desired = config
        /\ \A q \in Ports \ {p} : passts'[q] = passts[q]
    BY <1>1, <1>3, EnsurePasstSpec DEF TypeOK
  <2>5. Configured(p)
    BY <1>3, <2>1, <2>2, <2>4 DEF Configured, Attached, HasLease
  <2>6. \A q \in Ports \ {p} : Kept(q)
    BY <1>3, <2>2, <2>3, <2>4 DEF Kept
  <2>7. OneUser'
    BY <1>1, <2>2 DEF OneUser, Uses, Attached
  <2> QED
    BY <1>3, <2>5, <2>6, <2>7 DEF OrderlyStep, PortStep
<1> QED
  BY <1>2, <1>3 DEF AttachPort

\* A step of the reservations that keeps every attached port's.
LEMMA LeaseKeeps ==
  ASSUME OrderlyInv,
         \A q \in Ports : Attached(q) =>
           ipam'[ports[q].network][ports[q].mac] = ipam[ports[q].network][ports[q].mac],
         UNCHANGED <<networks, ports, passts, pub, restarts>>
  PROVE  OrderlyStep
<1>1. \A q \in Ports : Kept(q)
  BY DEF Kept
<1>2. OneUser'
  BY SameUsers DEF OrderlyInv
<1> QED
  BY <1>1, <1>2 DEF OrderlyStep, PortStep

LEMMA AllocateIPOrderly ==
  ASSUME OrderlyInv, NEW n \in Nets, NEW m \in Macs, AllocateIP(n, m)
  PROVE  OrderlyStep
BY ReturnKeeps, AllocationKeepsAttached, LeaseKeeps DEF AllocateIP, faults

LEMMA ReleaseIPOrderly ==
  ASSUME OrderlyInv, NEW n \in Nets, NEW m \in Macs,
         \A p \in Ports : ~Uses(p, n, m),
         ReleaseIP(n, m)
  PROVE  OrderlyStep
<1>1. CASE \E result : Return(result)
  BY <1>1, ReturnKeeps
<1>2. CASE /\ ipam' = [ipam EXCEPT ![n] = IpamRelease(ipam[n], m)]
           /\ UNCHANGED <<networks, ports, passts, pub, restarts>>
  <2>1. ASSUME NEW q \in Ports, Attached(q)
        PROVE  ipam'[ports[q].network][ports[q].mac]
                 = ipam[ports[q].network][ports[q].mac]
    <3>1. TypeOK
      BY DEF OrderlyInv, LeaseInv
    <3>2. /\ ports[q].network \in Nets /\ ports[q].mac \in Macs
          /\ ~(ports[q].network = n /\ ports[q].mac = m)
      BY <2>1, <3>1, PortFields DEF Attached, Exists, Uses
    <3> QED
      BY <1>2, <3>1, <3>2 DEF TypeOK, Leases, IpamRelease
  <2> QED
    BY <1>2, <2>1, LeaseKeeps
<1> QED
  BY <1>1, <1>2 DEF ReleaseIP

\* The tail of PublishPort and UnpublishPort brings the port's slot to the
\* forwards of the new table when the port has its reservation.
LEMMA SyncPasstConfigures ==
  ASSUME OrderlyInv, NEW p \in Ports, Attached(p),
         UNCHANGED <<networks, ipam, ports>>,
         SyncPasst(p, pub'[p])
  PROVE  /\ Configured(p)
         /\ \A q \in Ports \ {p} : passts'[q] = passts[q]
<1> DEFINE config == PasstConfig(networks[ports[p].network],
                                 ipam[ports[p].network][ports[p].mac], pub'[p])
<1>1. HasLease(p) /\ HasLease(p)' /\ Attached(p)'
  BY DEF OrderlyInv, PortInv, HasLease, Attached
<1>2. EnsurePasst(p, config, TRUE) \/ EnsurePasst(p, config, FALSE)
  BY <1>1 DEF SyncPasst
<1>3. /\ passts'[p].desired = config
      /\ \A q \in Ports \ {p} : passts'[q] = passts[q]
  BY <1>2, EnsurePasstSpec DEF OrderlyInv, LeaseInv, TypeOK
<1> QED
  BY <1>1, <1>3 DEF Configured

LEMMA PublishPortOrderly ==
  ASSUME MaxSaveFaults = 0, OrderlyInv, NEW p \in Ports, NEW v \in VmPorts,
         PublishPort(p, v)
  PROVE  OrderlyStep
<1> DEFINE table == PublishAllocate(pub, p, v)
<1>1. TypeOK /\ OneUser
  BY DEF OrderlyInv, LeaseInv
<1>2. CASE \E result : Return(result)
  BY <1>2, ReturnKeeps
<1>3. CASE /\ Attached(p)
           /\ pub' = table
           /\ UNCHANGED <<networks, ipam, ports, restarts>>
           /\ \/ SyncPasst(p, table[p])
              \/ \E outcome \in SaveOutcomes \ {"ok"} : Save(outcome)
  <2>1. SyncPasst(p, pub'[p])
    BY <1>1, <1>3, SaveSucceeds
  <2>2. /\ Configured(p)
        /\ \A q \in Ports \ {p} : passts'[q] = passts[q]
    BY <1>3, <2>1, SyncPasstConfigures
  <2>3. \A q \in Ports \ {p} : pub'[q] = pub[q]
    BY <1>1, <1>3 DEF TypeOK, PublishTables, PublishAllocate
  <2>4. \A q \in Ports \ {p} : Kept(q)
    BY <1>3, <2>2, <2>3 DEF Kept
  <2>5. OneUser'
    BY <1>1, <1>3, SameUsers
  <2> QED
    BY <1>3, <2>2, <2>4, <2>5 DEF OrderlyStep, PortStep
<1> QED
  BY <1>2, <1>3 DEF PublishPort

LEMMA UnpublishPortOrderly ==
  ASSUME MaxSaveFaults = 0, OrderlyInv, NEW p \in Ports, NEW v \in VmPorts,
         UnpublishPort(p, v)
  PROVE  OrderlyStep
<1> DEFINE table == PublishRemove(pub, p, v)
<1>1. TypeOK /\ OneUser /\ PortInv(p)
  BY DEF OrderlyInv, LeaseInv
<1>2. CASE \E result : Return(result)
  BY <1>2, ReturnKeeps
<1>3. CASE /\ pub[p][v] # None
           /\ pub' = table
           /\ UNCHANGED <<networks, ipam, ports, restarts>>
           /\ \/ table[p] = NoForwards /\ TeardownPasst(p)
              \/ SyncPasst(p, table[p])
              \/ \E outcome \in SaveOutcomes \ {"ok"} : Save(outcome)
  <2>1. \A q \in Ports \ {p} : pub'[q] = pub[q]
    BY <1>1, <1>3 DEF TypeOK, PublishTables, PublishRemove
  <2>2. Attached(p)' <=> Attached(p)
    BY <1>3 DEF Attached
  <2>3. /\ Vacated(p) \/ Configured(p)
        /\ \A q \in Ports \ {p} : passts'[q] = passts[q]
    <3>1. CASE pub'[p] = NoForwards /\ TeardownPasst(p)
      <4>1. /\ passts'[p] = None
            /\ \A q \in Ports \ {p} : passts'[q] = passts[q]
        BY <1>1, <3>1, TeardownSpec DEF TypeOK
      <4>2. CASE Attached(p)
        <5>1. HasLease(p)'
          BY <1>1, <1>3, <4>2 DEF PortInv, HasLease, Attached
        <5> QED
          BY <2>2, <4>1, <4>2, <5>1 DEF Configured
      <4>3. CASE ~Attached(p)
        BY <2>2, <3>1, <4>1, <4>3 DEF Vacated
      <4> QED
        BY <4>1, <4>2, <4>3
    <3>2. CASE SyncPasst(p, pub'[p]) /\ Attached(p)
      BY <1>3, <3>2, SyncPasstConfigures
    <3>3. CASE SyncPasst(p, pub'[p]) /\ ~Attached(p)
      <4>1. passts[p] = None /\ restarts # 0
        BY <1>1, <1>3, <3>3 DEF PortInv, SlotPinned, NoForwards
      <4>2. passts' = passts
        BY <3>3 DEF SyncPasst, HasLease
      <4> QED
        BY <1>3, <2>2, <3>3, <4>1, <4>2 DEF Vacated
    <3> QED
      BY <1>1, <1>3, <3>1, <3>2, <3>3, SaveSucceeds
  <2>4. \A q \in Ports \ {p} : Kept(q)
    BY <1>3, <2>1, <2>3 DEF Kept
  <2>5. OneUser'
    BY <1>1, <1>3, SameUsers
  <2> QED
    BY <1>3, <2>3, <2>4, <2>5 DEF OrderlyStep, PortStep
<1> QED
  BY <1>2, <1>3 DEF UnpublishPort

LEMMA SupervisePasstOrderly ==
  ASSUME OrderlyInv, NEW p \in Ports, SupervisePasst(p)
  PROVE  OrderlyStep
<1>1. passts \in [Ports -> Slots \cup {None}]
  BY DEF OrderlyInv, LeaseInv, TypeOK
<1>2. \A q \in Ports : \/ passts'[q] = passts[q]
                       \/ passts[q] # None /\ passts'[q].desired = passts[q].desired
  BY <1>1 DEF SupervisePasst
<1>3. \A q \in Ports : Kept(q)
  BY <1>2 DEF SupervisePasst, Kept
<1>4. OneUser'
  BY SameUsers DEF OrderlyInv, SupervisePasst
<1> QED
  BY <1>3, <1>4 DEF OrderlyStep, PortStep, SupervisePasst, faults

LEMMA RestartOrderly ==
  ASSUME OrderlyInv, Restart
  PROVE  OrderlyStep
<1>1. restarts' # 0
  BY DEF OrderlyInv, LeaseInv, TypeOK, Restart
<1>2. \A q \in Ports : ~Attached(q)' /\ passts'[q] = None
  BY DEF Restart, Attached
<1> QED
  BY <1>1, <1>2 DEF OrderlyStep, PortStep, Vacated, OneUser

LEMMA OrderlyIsNext ==
  ASSUME OrderlyNext
  PROVE  Next
BY DEF OrderlyNext, Next

LEMMA EveryStepIsOrderly ==
  ASSUME MaxSaveFaults = 0, OrderlyInv, [OrderlyNext]_vars
  PROVE  OrderlyStep
<1>1. CASE OrderlyNext
  BY <1>1, CreateNetworkOrderly, DeleteNetworkOrderly, CreatePortOrderly,
     DeletePortOrderly, AttachPortOrderly, DetachPortOrderly, AllocateIPOrderly,
     ReleaseIPOrderly, PublishPortOrderly, UnpublishPortOrderly,
     SupervisePasstOrderly, RestartOrderly
     DEF OrderlyNext
<1>2. CASE UNCHANGED vars
  <2>1. Return(reply)
    BY <1>2 DEF vars, Return
  <2> QED
    BY <2>1, ReturnKeeps
<1> QED
  BY <1>1, <1>2

LEMMA AlwaysOrderlyInv ==
  ASSUME MaxSaveFaults = 0
  PROVE  OrderlySpec => []OrderlyInv
<1>1. ASSUME Init
      PROVE  OrderlyInv
  <2>1. \A n \in Nets : networks[n] = None /\ ipam[n] = NoLeases
    BY <1>1 DEF Init
  <2>2. LeaseInv
    BY <1>1, <2>1, InitType DEF LeaseInv, LeasesExclusive, NoLeases
  <2>3. \A p \in Ports : ports[p] = None /\ passts[p] = None /\ pub[p] = NoForwards
    BY <1>1 DEF Init, NoPublished
  <2> QED
    BY <2>2, <2>3 DEF OrderlyInv, OneUser, PortInv, SlotPinned, SlotBacked, Attached
<1>2. ASSUME OrderlyInv, [OrderlyNext]_vars
      PROVE  OrderlyInv'
  <2>1. OrderlyStep
    BY <1>2, EveryStepIsOrderly
  <2>2. [Next]_vars
    BY <1>2, OrderlyIsNext
  <2>3. LeaseInv'
    BY <1>2, <2>2, NextType, EveryStepIsLeaseStep, StepKeepsLeases
       DEF OrderlyInv, LeaseInv
  <2>4. \A p \in Ports : PortInv(p)'
    BY <1>2, <2>1, PortStepKeepsInv DEF OrderlyInv, OrderlyStep
  <2> QED
    BY <2>1, <2>3, <2>4 DEF OrderlyInv, OrderlyStep
<1> QED
  BY <1>1, <1>2, PTL DEF OrderlySpec

\* With an orderly client and a writable state file, an attached port keeps its
\* reservation, shares its address with no other port of its network, and every
\* passt slot belongs to an attached port and is pinned to its address.
THEOREM AttachmentsKeepAddress ==
  ASSUME MaxSaveFaults = 0
  PROVE  OrderlySpec => []AttachmentKeepsAddress
<1>1. ASSUME OrderlyInv
      PROVE  AttachmentKeepsAddress
  <2>1. \A p \in Ports : Attached(p) => HasLease(p)
    BY <1>1 DEF OrderlyInv, PortInv
  <2>2. ASSUME NEW p \in Ports, NEW q \in Ports, Attached(p), Attached(q), p # q,
               ports[p].network = ports[q].network
        PROVE  ipam[ports[p].network][ports[p].mac] # ipam[ports[q].network][ports[q].mac]
    <3>1. /\ ports[p].network \in Nets
          /\ ports[p].mac \in Macs /\ ports[q].mac \in Macs
      BY <1>1, <2>2, PortFields DEF OrderlyInv, LeaseInv, Attached, Exists
    <3>2. ports[p].mac # ports[q].mac
      BY <1>1, <2>2 DEF OrderlyInv, OneUser
    <3>3. ipam[ports[p].network][ports[p].mac] # None
      BY <2>1, <2>2 DEF HasLease
    <3> QED
      BY <1>1, <2>2, <3>1, <3>2, <3>3 DEF OrderlyInv, LeaseInv, LeasesExclusive
  <2>3. \A p \in Ports : SlotPinned(p)
    BY <1>1 DEF OrderlyInv, PortInv
  <2> QED
    BY <2>1, <2>2, <2>3 DEF AttachmentKeepsAddress, SlotPinned
<1> QED
  BY <1>1, AlwaysOrderlyInv, PTL

\* With an orderly client and a writable state file, a passt slot never forwards
\* a host port the table has not given to its port, whatever spawns fail.
THEOREM ForwardsAlwaysBacked ==
  ASSUME MaxSaveFaults = 0
  PROVE  OrderlySpec => []ForwardsBackedByTable
<1>1. OrderlyInv => ForwardsBackedByTable
  BY DEF OrderlyInv, PortInv, SlotBacked, ForwardsBackedByTable
<1> QED
  BY <1>1, AlwaysOrderlyInv, PTL

\* With an orderly client and a writable state file, only attached ports have
\* entries in the publish table until the daemon restarts.
THEOREM PublishedStaysAttached ==
  ASSUME MaxSaveFaults = 0
  PROVE  OrderlySpec => []PublishedIsAttached
<1>1. OrderlyInv => PublishedIsAttached
  BY DEF OrderlyInv, PortInv, PublishedIsAttached
<1> QED
  BY <1>1, AlwaysOrderlyInv, PTL

===============================================================================
