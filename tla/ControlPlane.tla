----------------------------- MODULE ControlPlane -----------------------------
(***************************************************************************)
(* The control plane of the k8netd daemon: dataplane.rs, `Dataplane` and   *)
(* its `Inner`.  Every RPC handler runs to its end under the one mutex of  *)
(* Inner and the RPC server answers one request at a time, so a handler is *)
(* one atomic action; the pump threads' passt supervision takes the same   *)
(* mutex and interleaves with the handlers.  A handler can fail half way:  *)
(* `persist` and the passt spawn return errors after memory was changed,   *)
(* and the daemon can be killed and restarted between any two handlers.    *)
(*                                                                         *)
(* The model keeps Inner's maps, the state file and the last reply.  What  *)
(* a passt slot does between supervision ticks (timers, backoff) is the    *)
(* subject of PasstSupervisor; frames and MAC learning of Switch.          *)
(***************************************************************************)
EXTENDS Allocators, Integers

CONSTANTS Nets,            \* network names; their order is the name order
          NetParams,       \* the CreateNetwork parameters clients may send
          MaxPortId,       \* bound on ports created by one daemon process
          MaxSaveFaults,   \* bound on failing persist calls
          MaxSpawnFaults,  \* bound on failing passt spawns inside handlers
          MaxRestarts      \* bound on daemon restarts

\* A parameter record: the CIDR block base..top, the gateway and the pool.
ParamRecords == [base : Nat, top : Nat, gw : Nat, lo : Nat, hi : Nat]

ASSUME ControlPlaneAssumption ==
  /\ Nets \subseteq Nat
  /\ NetParams \subseteq ParamRecords
  /\ None \notin ParamRecords
  /\ MaxPortId \in Nat
  /\ MaxSaveFaults \in Nat
  /\ MaxSpawnFaults \in Nat
  /\ MaxRestarts \in Nat

VARIABLES
  networks,      \* Inner.networks (created_with); Gateway.networks mirrors it
  ipam,          \* Inner.networks[n].ipam.allocations
  ports,         \* Inner.ports: LivePort's id, network and mac
  nextPortId,    \* Inner.next_port_id
  names,         \* Inner.names: pairs <<id, port name>>
  switchPorts,   \* Switch.ports: pairs <<id, network>>
  gatewayPorts,  \* Gateway.ports: pairs <<id, network>>
  passts,        \* Inner.passts: desired configuration, and whether live
  pub,           \* Inner.publish_table
  disk,          \* the state file
  reply,         \* result of the last step, None when it was no RPC
  granted,       \* history: host ports acknowledged and not yet given back
  saveFaults, spawnFaults, restarts    \* bounded fault counters

memory == <<networks, ipam, ports, nextPortId, names, switchPorts,
            gatewayPorts, passts, pub>>
faults == <<saveFaults, spawnFaults, restarts>>
vars   == <<memory, disk, reply, granted, faults>>

-------------------------------------------------------------------------------
\* The switch keeps a created, never attached port on the network named "".
Unattached == -1

\* LivePort: network and mac are set and taken together.
PortRecords ==
  [id : Nat, network : {None}, mac : {None}] \cup
  [id : Nat, network : Nets, mac : Macs]

\* PasstConfig: -a <ip>, --netmask, --gateway and one -t per forward.
Configs == [ip : Nat, mask : Int, gw : Nat, forwards : Forwards]

Slots == [desired : Configs, live : BOOLEAN]

\* A missing entry is never mistaken for a record.
ASSUME NoRecordAssumption == None \notin PortRecords \cup Slots

Replies == {"None", "Ok", "NotFound", "Conflict", "InvalidParams", "Internal"}

\* What persist() writes.  ipam_records is keyed by MAC alone and extended
\* network by network in name order, so the last network's binding wins.
LeaseRecord(leases, m) ==
  LET bound == {n \in Nets : leases[n][m] # None}
      last  == {n \in bound : \A k \in bound : k <= n}
  IN  IF last = {} THEN None ELSE leases[CHOOSE n \in last : TRUE][m]

PortState(leases, port) ==
  IF port = None THEN None
  ELSE [mac |-> port.mac,
        vm_ip |-> IF port.network = None \/ port.mac = None THEN None
                  ELSE leases[port.network][port.mac]]

Snapshot(nets, leases, prts, table) ==
  [networks |-> nets,
   ipam_records |-> [m \in Macs |-> LeaseRecord(leases, m)],
   ports |-> [p \in Ports |-> PortState(leases, prts[p])],
   publish_table |-> table]

\* save_to_disk: written, failed before the rename, or failed in the directory
\* sync after the rename has already replaced the file.
SaveOutcomes == {"ok", "failed", "failedAfterRename"}

\* Fault variant of Save: memory is written out before the handler changes it.
SaveTooEarly(outcome) ==
  /\ outcome # "ok" => saveFaults < MaxSaveFaults
  /\ saveFaults' = IF outcome = "ok" THEN saveFaults ELSE saveFaults + 1
  /\ disk' = IF outcome = "failed" THEN disk
             ELSE Snapshot(networks, ipam, ports, pub)

Save(outcome) ==
  /\ outcome # "ok" => saveFaults < MaxSaveFaults
  /\ saveFaults' = IF outcome = "ok" THEN saveFaults ELSE saveFaults + 1
  /\ disk' = IF outcome = "failed" THEN disk
             ELSE Snapshot(networks', ipam', ports', pub')

\* `self.persist(&g)?; Ok(..)` as the last statement of a handler.
SaveAndReply ==
  \E outcome \in SaveOutcomes :
    /\ Save(outcome)
    /\ reply' = IF outcome = "ok" THEN "Ok" ELSE "Internal"

\* An early return that leaves everything as it is.
Return(result) ==
  /\ reply' = result
  /\ UNCHANGED <<memory, disk, granted, faults>>

Exists(p)   == ports[p] # None
Attached(p) == ports[p] # None /\ ports[p].network # None

\* Fault variant of Drop: the entry stays.
DropForgotten(map, id) == map

\* HashMap::insert and HashMap::remove on maps keyed by port id.
Put(map, id, value) == {e \in map : e[1] # id} \cup {<<id, value>>}
Drop(map, id)       == {e \in map : e[1] # id}

-------------------------------------------------------------------------------
\* Network::new and IpPool::new: gateway and pool inside the CIDR, bounds in
\* order, and the gateway outside the pool.
NetworkValid(params) ==
  /\ params.lo <= params.hi
  /\ {params.gw, params.lo, params.hi} \subseteq params.base..params.top
  /\ params.gw \notin params.lo..params.hi

CreateNetwork(n, params) ==
  \/ /\ networks[n] # None
     /\ Return(IF networks[n] = params THEN "Ok" ELSE "Conflict")
  \/ /\ networks[n] = None
     /\ ~NetworkValid(params)
     /\ Return("InvalidParams")
  \/ /\ networks[n] = None
     /\ NetworkValid(params)
     /\ networks' = [networks EXCEPT ![n] = params]
     /\ ipam' = [ipam EXCEPT ![n] = NoLeases]
     /\ UNCHANGED <<ports, nextPortId, names, switchPorts, gatewayPorts,
                    passts, pub, granted, spawnFaults, restarts>>
     /\ SaveAndReply

\* Ports attached to the network are not looked at: they stay attached to a
\* network that no longer exists, and its reservations go with it.
DeleteNetwork(n) ==
  \/ /\ networks[n] = None
     /\ Return("NotFound")
  \/ /\ networks[n] # None
     /\ networks' = [networks EXCEPT ![n] = None]
     /\ ipam' = [ipam EXCEPT ![n] = NoLeases]
     /\ UNCHANGED <<ports, nextPortId, names, switchPorts, gatewayPorts,
                    passts, pub, granted, spawnFaults, restarts>>
     /\ SaveAndReply

-------------------------------------------------------------------------------
\* The reservation AttachPort made for the port's MAC is still there.
HasLease(p) ==
  /\ Attached(p)
  /\ networks[ports[p].network] # None
  /\ ipam[ports[p].network][ports[p].mac] # None

PasstConfig(params, ip, forwards) ==
  [ip |-> ip, mask |-> params.top - params.base, gw |-> params.gw,
   forwards |-> forwards]

\* Fault variant of EnsurePasst: desired changes only when the spawn succeeds.
EnsurePasstKeepingDesired(p, config, spawned) ==
  IF passts[p] # None /\ passts[p].live /\ passts[p].desired = config
  THEN spawned /\ UNCHANGED <<passts, spawnFaults>>
  ELSE /\ ~spawned => spawnFaults < MaxSpawnFaults
       /\ spawnFaults' = IF spawned THEN spawnFaults ELSE spawnFaults + 1
       /\ passts' = [passts EXCEPT ![p] =
                       [desired |-> IF spawned \/ passts[p] = None THEN config
                                    ELSE passts[p].desired,
                        live |-> spawned]]

\* ensure_passt: nothing when this configuration is already live; otherwise
\* the old process is stopped, the new configuration becomes the desired one,
\* and the spawn succeeds or fails.
EnsurePasst(p, config, spawned) ==
  IF passts[p] # None /\ passts[p].live /\ passts[p].desired = config
  THEN spawned /\ UNCHANGED <<passts, spawnFaults>>
  ELSE /\ ~spawned => spawnFaults < MaxSpawnFaults
       /\ spawnFaults' = IF spawned THEN spawnFaults ELSE spawnFaults + 1
       /\ passts' = [passts EXCEPT ![p] = [desired |-> config, live |-> spawned]]

\* Fault variant of TeardownPasst: the process is stopped, the slot kept.
TeardownKeepingSlot(p) ==
  passts' = [passts EXCEPT ![p] =
               IF @ = None THEN None ELSE [desired |-> @.desired, live |-> FALSE]]

\* teardown_passt: stop the process and forget the slot.
TeardownPasst(p) == passts' = [passts EXCEPT ![p] = None]

-------------------------------------------------------------------------------
CreatePort(p) ==
  \/ /\ Exists(p)
     /\ Return("Ok")
  \/ /\ ~Exists(p)                   \* VhostPort::new could not bind
     /\ Return("Internal")
  \/ /\ ~Exists(p)
     /\ nextPortId <= MaxPortId
     /\ nextPortId' = nextPortId + 1
     /\ switchPorts' = Put(switchPorts, nextPortId, Unattached)
     /\ names' = Put(names, nextPortId, p)
     /\ ports' = [ports EXCEPT ![p] =
                    [id |-> nextPortId, network |-> None, mac |-> None]]
     /\ UNCHANGED <<networks, ipam, gatewayPorts, passts, pub, granted,
                    spawnFaults, restarts>>
     /\ SaveAndReply

\* ipam.release in DeletePort: the error of a missing reservation is ignored.
ReleaseQuietly(port) ==
  IF port.network = None THEN ipam
  ELSE [ipam EXCEPT ![port.network] = IpamRelease(@, port.mac)]

DeletePort(p) ==
  \/ /\ ~Exists(p)
     /\ Return("NotFound")
  \/ /\ Exists(p)
     /\ ports' = [ports EXCEPT ![p] = None]
     /\ ipam' = ReleaseQuietly(ports[p])
     /\ switchPorts' = Drop(switchPorts, ports[p].id)
     /\ gatewayPorts' = Drop(gatewayPorts, ports[p].id)
     /\ names' = Drop(names, ports[p].id)
     /\ pub' = PublishRemovePort(pub, p)
     /\ granted' = PublishRemovePort(granted, p)
     /\ UNCHANGED <<networks, nextPortId, spawnFaults, restarts>>
     /\ \/ /\ SaveAndReply
           /\ reply' = "Ok"
           /\ TeardownPasst(p)
        \/ /\ SaveAndReply
           /\ reply' = "Internal"
           /\ UNCHANGED passts

AttachPort(p, n, m) ==
  LET leases == IpamAllocate(ipam[n], networks[n].lo, networks[n].hi, m)
      id     == ports[p].id
  IN
  \/ /\ ~Exists(p)
     /\ Return("NotFound")
  \/ /\ Attached(p)
     /\ Return(IF ports[p].network = n /\ ports[p].mac = m
               THEN "Ok" ELSE "Conflict")
  \/ /\ Exists(p)
     /\ ~Attached(p)
     /\ networks[n] = None
     /\ Return("NotFound")
  \/ /\ Exists(p)
     /\ ~Attached(p)
     /\ networks[n] # None
     /\ leases[m] = None              \* pool exhausted
     /\ Return("Conflict")
  \/ /\ Exists(p)
     /\ ~Attached(p)
     /\ networks[n] # None
     /\ leases[m] # None
     /\ ipam' = [ipam EXCEPT ![n] = leases]
     /\ ports' = [ports EXCEPT ![p] = [id |-> id, network |-> n, mac |-> m]]
     /\ switchPorts' = Put(switchPorts, id, n)
     /\ gatewayPorts' = Put(gatewayPorts, id, n)
     /\ UNCHANGED <<networks, nextPortId, names, pub, granted, restarts>>
     /\ LET config == PasstConfig(networks[n], leases[m], NoForwards)
        IN  \/ /\ EnsurePasst(p, config, TRUE)
               /\ SaveAndReply
            \/ /\ EnsurePasst(p, config, FALSE)
               /\ reply' = "Internal"
               /\ UNCHANGED <<disk, saveFaults>>

\* The attachment is taken before the reservation is released: when the
\* network or the reservation is gone the handler returns there, and neither
\* the publish table, the state file nor passt is touched.
DetachPort(p) ==
  \/ /\ ~Exists(p)
     /\ Return("NotFound")
  \/ /\ Exists(p)
     /\ ports' = [ports EXCEPT ![p] =
                    [id |-> ports[p].id, network |-> None, mac |-> None]]
     /\ gatewayPorts' = Drop(gatewayPorts, ports[p].id)
     /\ switchPorts' = Drop(switchPorts, ports[p].id)
     /\ granted' = PublishRemovePort(granted, p)
     /\ UNCHANGED <<networks, nextPortId, names, spawnFaults, restarts>>
     /\ \/ /\ Attached(p)
           /\ ~HasLease(p)
           /\ reply' = "NotFound"
           /\ UNCHANGED <<ipam, pub, passts, disk, saveFaults>>
        \/ /\ Attached(p) => HasLease(p)
           /\ ipam' = ReleaseQuietly(ports[p])
           /\ pub' = PublishRemovePort(pub, p)
           /\ \/ /\ SaveAndReply
                 /\ reply' = "Ok"
                 /\ TeardownPasst(p)
              \/ /\ SaveAndReply
                 /\ reply' = "Internal"
                 /\ UNCHANGED passts

-------------------------------------------------------------------------------
\* AllocateIP changes the reservations and does not persist them.
AllocateIP(n, m) ==
  LET leases == IpamAllocate(ipam[n], networks[n].lo, networks[n].hi, m)
  IN
  \/ /\ networks[n] = None
     /\ Return("NotFound")
  \/ /\ networks[n] # None
     /\ leases[m] = None
     /\ Return("Conflict")
  \/ /\ networks[n] # None
     /\ leases[m] # None
     /\ ipam' = [ipam EXCEPT ![n] = leases]
     /\ reply' = "Ok"
     /\ UNCHANGED <<networks, ports, nextPortId, names, switchPorts,
                    gatewayPorts, passts, pub, disk, granted, faults>>

ReleaseIP(n, m) ==
  \/ /\ networks[n] = None \/ ipam[n][m] = None
     /\ Return("NotFound")
  \/ /\ networks[n] # None
     /\ ipam[n][m] # None
     /\ ipam' = [ipam EXCEPT ![n] = IpamRelease(@, m)]
     /\ UNCHANGED <<networks, ports, nextPortId, names, switchPorts,
                    gatewayPorts, passts, pub, granted, spawnFaults, restarts>>
     /\ SaveAndReply

-------------------------------------------------------------------------------
\* The tail of PublishPort and UnpublishPort once the table is persisted: find
\* the port's reservation and bring its passt to the port's forwards.
SyncPasst(p, forwards) ==
  \/ /\ ~HasLease(p)
     /\ reply' = "NotFound"
     /\ UNCHANGED <<passts, spawnFaults>>
  \/ /\ HasLease(p)
     /\ LET port   == ports[p]
            config == PasstConfig(networks[port.network],
                                  ipam[port.network][port.mac], forwards)
        IN  \/ EnsurePasst(p, config, TRUE) /\ reply' = "Ok"
            \/ EnsurePasst(p, config, FALSE) /\ reply' = "Internal"

PublishPort(p, v) ==
  LET table == PublishAllocate(pub, p, v)
  IN
  \/ /\ ~Attached(p)
     /\ Return("NotFound")
  \/ /\ Attached(p)
     /\ table[p][v] = None            \* publish range exhausted
     /\ Return("Conflict")
  \/ /\ Attached(p)
     /\ table[p][v] # None
     /\ pub' = table
     /\ UNCHANGED <<networks, ipam, ports, nextPortId, names, switchPorts,
                    gatewayPorts, restarts>>
     /\ \/ /\ Save("ok")
           /\ SyncPasst(p, table[p])
           /\ granted' = IF reply' = "Ok"
                         THEN [granted EXCEPT ![p][v] = table[p][v]]
                         ELSE granted
        \/ /\ \E outcome \in SaveOutcomes \ {"ok"} : Save(outcome)
           /\ reply' = "Internal"
           /\ UNCHANGED <<passts, spawnFaults, granted>>

\* Removing a port's last forward tears its passt down although the port may
\* still be attached.
UnpublishPort(p, v) ==
  LET table == PublishRemove(pub, p, v)
  IN
  \/ /\ pub[p][v] = None
     /\ Return("NotFound")
  \/ /\ pub[p][v] # None
     /\ pub' = table
     /\ granted' = PublishRemove(granted, p, v)
     /\ UNCHANGED <<networks, ipam, ports, nextPortId, names, switchPorts,
                    gatewayPorts, restarts>>
     /\ \/ /\ Save("ok")
           /\ table[p] = NoForwards
           /\ TeardownPasst(p)
           /\ reply' = "Ok"
           /\ UNCHANGED spawnFaults
        \/ /\ Save("ok")
           /\ table[p] # NoForwards
           /\ SyncPasst(p, table[p])
        \/ /\ \E outcome \in SaveOutcomes \ {"ok"} : Save(outcome)
           /\ reply' = "Internal"
           /\ UNCHANGED <<passts, spawnFaults>>

-------------------------------------------------------------------------------
\* supervise_passt on a pump tick: an exited process is noticed and its restart
\* scheduled, or a due restart succeeds (a failing one changes only timers).
SupervisePasst(p) ==
  /\ passts[p] # None
  /\ passts' = [passts EXCEPT ![p] =
                  [desired |-> passts[p].desired, live |-> ~passts[p].live]]
  /\ reply' = "None"
  /\ UNCHANGED <<networks, ipam, ports, nextPortId, names, switchPorts,
                 gatewayPorts, pub, disk, granted, faults>>

\* Fault variant of Restart: the state file is not read.
RestartEmpty ==
  /\ restarts < MaxRestarts
  /\ restarts' = restarts + 1
  /\ networks' = [n \in Nets |-> None]
  /\ ipam' = [n \in Nets |-> NoLeases]
  /\ ports' = [p \in Ports |-> None]
  /\ nextPortId' = 1
  /\ names' = {}
  /\ switchPorts' = {}
  /\ gatewayPorts' = {}
  /\ passts' = [p \in Ports |-> None]
  /\ pub' = NoPublished
  /\ reply' = "None"
  /\ UNCHANGED <<disk, granted, saveFaults, spawnFaults>>

\* The process dies between two handlers and starts again: try_new keeps the
\* state file's publish table and starts everything else empty.
Restart ==
  /\ restarts < MaxRestarts
  /\ restarts' = restarts + 1
  /\ networks' = [n \in Nets |-> None]
  /\ ipam' = [n \in Nets |-> NoLeases]
  /\ ports' = [p \in Ports |-> None]
  /\ nextPortId' = 1
  /\ names' = {}
  /\ switchPorts' = {}
  /\ gatewayPorts' = {}
  /\ passts' = [p \in Ports |-> None]
  /\ pub' = disk.publish_table
  /\ reply' = "None"
  /\ UNCHANGED <<disk, granted, saveFaults, spawnFaults>>

-------------------------------------------------------------------------------
\* A first start: no state file, which loads as the default (empty) store.
Init ==
  /\ networks = [n \in Nets |-> None]
  /\ ipam = [n \in Nets |-> NoLeases]
  /\ ports = [p \in Ports |-> None]
  /\ nextPortId = 1
  /\ names = {}
  /\ switchPorts = {}
  /\ gatewayPorts = {}
  /\ passts = [p \in Ports |-> None]
  /\ pub = NoPublished
  /\ disk = Snapshot(networks, ipam, ports, pub)
  /\ reply = "None"
  /\ granted = NoPublished
  /\ saveFaults = 0
  /\ spawnFaults = 0
  /\ restarts = 0

Next ==
  \/ \E n \in Nets, params \in NetParams : CreateNetwork(n, params)
  \/ \E n \in Nets : DeleteNetwork(n)
  \/ \E p \in Ports : CreatePort(p)
  \/ \E p \in Ports : DeletePort(p)
  \/ \E p \in Ports, n \in Nets, m \in Macs : AttachPort(p, n, m)
  \/ \E p \in Ports : DetachPort(p)
  \/ \E n \in Nets, m \in Macs : AllocateIP(n, m)
  \/ \E n \in Nets, m \in Macs : ReleaseIP(n, m)
  \/ \E p \in Ports, v \in VmPorts : PublishPort(p, v)
  \/ \E p \in Ports, v \in VmPorts : UnpublishPort(p, v)
  \/ \E p \in Ports : SupervisePasst(p)
  \/ Restart

Spec == Init /\ [][Next]_vars

-------------------------------------------------------------------------------
(***************************************************************************)
(* Properties that hold whatever clients do and whatever fails.            *)
(***************************************************************************)
Snapshots ==
  [networks : [Nets -> NetParams \cup {None}],
   ipam_records : [Macs -> Nat \cup {None}],
   ports : [Ports -> [mac : Macs \cup {None}, vm_ip : Nat \cup {None}]
                       \cup {None}],
   publish_table : PublishTables]

\* Every variable holds a value of its type.
TypeOK ==
  /\ networks \in [Nets -> NetParams \cup {None}]
  /\ ipam \in [Nets -> Leases]
  /\ ports \in [Ports -> PortRecords \cup {None}]
  /\ nextPortId \in Nat
  /\ names \subseteq Nat \X Ports
  /\ switchPorts \subseteq Nat \X (Nets \cup {Unattached})
  /\ gatewayPorts \subseteq Nat \X Nets
  /\ passts \in [Ports -> Slots \cup {None}]
  /\ pub \in PublishTables
  /\ disk \in Snapshots
  /\ reply \in Replies
  /\ granted \in PublishTables
  /\ saveFaults \in Nat
  /\ spawnFaults \in Nat
  /\ restarts \in Nat

\* ipam.rs allocate/release as AttachPort, AllocateIP, DetachPort, DeletePort
\* and ReleaseIP use them: within a network no two MACs ever hold the same
\* address, every address is of the pool, and none is the gateway's.  A
\* network that does not exist has no reservations.
LeasesExclusive ==
  \A n \in Nets, m \in Macs :
    ipam[n][m] # None =>
      /\ networks[n] # None
      /\ ipam[n][m] \in networks[n].lo .. networks[n].hi
      /\ ipam[n][m] # networks[n].gw
      /\ \A k \in Macs : ipam[n][k] = ipam[n][m] => k = m

\* A host port is never given to two forwards, neither in the running table nor
\* in the one the state file would restore, over persist failures and restarts.
HostPortsExclusive == OneOwner(pub) /\ OneOwner(disk.publish_table)

\* PublishPort's acknowledged host port stays recorded for its pair, in memory
\* and in the state file, until the client unpublishes it or detaches or deletes
\* the port: whatever else is published, fails to persist, or restarts.
GrantsSurvive ==
  \A p \in Ports, v \in VmPorts :
    granted[p][v] # None =>
      /\ pub[p][v] = granted[p][v]
      /\ disk.publish_table[p][v] = granted[p][v]

Contract == INSTANCE PublishContract WITH promised <- granted

\* PublishPort, UnpublishPort, DetachPort and DeletePort, with failing persists,
\* failing spawns and restarts, keep the client's contract of PublishContract.
ImplementsContract == Contract!Spec

\* The switch, the gateway and the id-to-name map follow the port records over
\* CreatePort, AttachPort, DetachPort, DeletePort and Restart: ids are unique and
\* below next_port_id, the switch and the gateway hold exactly the attached
\* ports on their networks, and otherwise the switch holds only ports created
\* and not attached, on the network "".
FabricMirrorsPorts ==
  /\ \A p \in Ports : Exists(p) =>
       /\ ports[p].id < nextPortId
       /\ \A q \in Ports : Exists(q) /\ ports[q].id = ports[p].id => q = p
       /\ <<ports[p].id, p>> \in names
  /\ \A p \in Ports : Attached(p) =>
       /\ <<ports[p].id, ports[p].network>> \in switchPorts
       /\ <<ports[p].id, ports[p].network>> \in gatewayPorts
  /\ \A e \in names : Exists(e[2]) /\ ports[e[2]].id = e[1]
  /\ \A e \in gatewayPorts :
       \E p \in Ports : Exists(p) /\ ports[p].id = e[1] /\ ports[p].network = e[2]
  /\ \A e \in switchPorts :
       \E p \in Ports :
         /\ Exists(p)
         /\ ports[p].id = e[1]
         /\ \/ ports[p].network = e[2]
            \/ e[2] = Unattached /\ ports[p].network = None

\* An Ok from an RPC that changed a network, a port or the publish table means
\* that the state file now holds exactly what memory holds, earlier failed
\* persists and unpersisted reservations included; and a Conflict (exhausted
\* pool or range, incompatible parameters) means that nothing changed.
RepliesAreHonest ==
  [][ /\ reply' = "Ok" /\ <<networks, ports, pub>>' # <<networks, ports, pub>>
           => disk' = Snapshot(networks', ipam', ports', pub')
      /\ reply' = "Conflict" => UNCHANGED <<memory, disk>> ]_vars

-------------------------------------------------------------------------------
(***************************************************************************)
(* Properties that hold for an orderly client while the state file can be  *)
(* written.  An orderly client deletes a network only when no port is      *)
(* attached to it, releases no reservation a port is attached with, and    *)
(* attaches a MAC to a network at one port at a time.  The handlers check  *)
(* none of these.                                                          *)
(***************************************************************************)
Uses(p, n, m) == Attached(p) /\ ports[p].network = n /\ ports[p].mac = m

OrderlyNext ==
  \/ \E n \in Nets, params \in NetParams : CreateNetwork(n, params)
  \/ \E n \in Nets :
       /\ \A p \in Ports : Attached(p) => ports[p].network # n
       /\ DeleteNetwork(n)
  \/ \E p \in Ports : CreatePort(p)
  \/ \E p \in Ports : DeletePort(p)
  \/ \E p \in Ports, n \in Nets, m \in Macs :
       /\ \A q \in Ports \ {p} : ~Uses(q, n, m)
       /\ AttachPort(p, n, m)
  \/ \E p \in Ports : DetachPort(p)
  \/ \E n \in Nets, m \in Macs : AllocateIP(n, m)
  \/ \E n \in Nets, m \in Macs :
       /\ \A p \in Ports : ~Uses(p, n, m)
       /\ ReleaseIP(n, m)
  \/ \E p \in Ports, v \in VmPorts : PublishPort(p, v)
  \/ \E p \in Ports, v \in VmPorts : UnpublishPort(p, v)
  \/ \E p \in Ports : SupervisePasst(p)
  \/ Restart

OrderlySpec == Init /\ [][OrderlyNext]_vars

\* AttachPort, DetachPort, DeletePort and ensure_passt together: an attached port
\* keeps the reservation it attached with, no other attached port of its network
\* has the same address, and a passt slot belongs to an attached port and is
\* pinned to that port's address and network.
AttachmentKeepsAddress ==
  /\ \A p \in Ports : Attached(p) => HasLease(p)
  /\ \A p, q \in Ports :
       /\ Attached(p) /\ Attached(q) /\ p # q
       /\ ports[p].network = ports[q].network
       => ipam[ports[p].network][ports[p].mac] # ipam[ports[q].network][ports[q].mac]
  /\ \A p \in Ports : passts[p] # None =>
       /\ Attached(p)
       /\ passts[p].desired =
            PasstConfig(networks[ports[p].network],
                        ipam[ports[p].network][ports[p].mac],
                        passts[p].desired.forwards)

\* PublishPort, UnpublishPort and ensure_passt, with failing spawns, supervision
\* and restarts: a slot never forwards a host port the table has not given to
\* that very port, so no two passt processes are told to bind the same one.
ForwardsBackedByTable ==
  \A p \in Ports, v \in VmPorts :
    passts[p] # None /\ passts[p].desired.forwards[v] # None =>
      passts[p].desired.forwards[v] = pub[p][v]

\* DetachPort and DeletePort free what the port published (REQ-011): until the
\* daemon restarts, only attached ports have entries in the publish table.
PublishedIsAttached ==
  restarts = 0 =>
    \A p \in Ports : pub[p] # NoForwards => Attached(p)

===============================================================================
