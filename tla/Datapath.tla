------------------------------- MODULE Datapath -------------------------------
(***************************************************************************)
(* What becomes of a frame a VM sends: pump_frame (dataplane.rs) over the  *)
(* DHCP server (dhcp.rs), the DNS forwarder (dns.rs), the gateway          *)
(* (gateway.rs), the port's passt and the switch (Switch, Allocators),     *)
(* while the control plane changes the maps they work from.                *)
(*                                                                         *)
(* Everything runs under Inner's mutex, so a pump's frame is one step,     *)
(* except a DNS query: it keeps the mutex while it tries its upstreams one *)
(* by one.  A pump is started per CreatePort and knows its port's name and *)
(* switch id; after DeletePort it still serves the frames in its channel,  *)
(* when the name may belong to a new port.                                 *)
(***************************************************************************)
EXTENDS Naturals

CONSTANTS Names,       \* port names
          Ids,         \* switch ids, 1..n: one per CreatePort
          Nets,
          Macs,        \* VM addresses
          GwMac,       \* the gateway's address on each network
          PasstMac,    \* the address passt sends from
          Bcast,
          Pool,        \* host numbers of a network's pool, as <<start, end>>
          Upstreams,   \* number of DNS upstreams
          Kinds,       \* kinds of frame the VMs send
          Capacity,    \* MAC_TABLE_CAPACITY
          MaxClock,    \* bound on switched frames
          MaxOps,      \* bound on control plane calls
          None

Unattached == ""
Wan        == 0       \* not a switch id
Group      == {Bcast}
GwMacs     == {GwMac[n] : n \in Nets}
Unicast    == Macs \cup GwMacs \cup {PasstMac}
PortRecs   == [id : Ids, network : Nets \cup {None}, mac : Macs \cup {None}]

\* "other" stands for frames that are neither gateway ARP nor IPv4, 802.1Q tags
\* included; "ip" for IPv4 that asks no service; "stub" for an Ethernet header
\* with the IPv4 type and nothing after it.
FrameKinds == {"arp", "icmp", "discover", "request", "dns", "ip", "other", "runt", "stub"}

\* DHCP and ARP requests are broadcast, gateway ICMP and DNS go to a router's MAC.
\* Between VMs an "other" frame goes the way of an "ip" frame and is left out.
Frames ==
  {f \in [src : Macs, dst : Unicast \cup Group, kind : Kinds] :
     /\ f.kind \in {"arp", "discover", "request", "runt", "stub"} => f.dst = Bcast
     /\ f.kind \in {"icmp", "dns"} => f.dst \in GwMacs
     /\ f.kind = "other" => f.dst \in GwMacs \cup {PasstMac}
     /\ f.src # f.dst}

ASSUME DatapathAssumption ==
  /\ Ids \subseteq Nat \ {0}
  /\ Kinds \subseteq FrameKinds
  /\ GwMac \in [Nets -> GwMacs]
  /\ Macs \cap (GwMacs \cup {PasstMac, Bcast}) = {}
  /\ PasstMac \notin GwMacs /\ Bcast \notin Unicast
  /\ Pool \in Nat \X Nat
  /\ {Upstreams, Capacity, MaxClock, MaxOps} \subseteq Nat
  /\ None \notin Nets \cup Macs \cup Nat
  /\ Unattached \notin Nets

ASSUME NoneAssumption ==
  /\ None \notin Names \cup {Unattached} \cup PortRecs
  /\ None \notin [pump : Ids, next : Nat] \cup [pump : Ids, routed : BOOLEAN]

VARIABLES
  networks,     \* Inner.networks
  leases,       \* NetworkEntry.ipam of each network
  ports,        \* Inner.ports
  nameOf,       \* the name each pump was started for
  switchPorts,  \* Switch.ports
  entries,      \* MacTable.entries
  clock,        \* MacTable.clock
  gwNets,       \* Gateway.networks
  gwPorts,      \* Gateway.ports
  passts,       \* Inner.passts: whether the slot's MAC has been learned
  query,        \* the DNS query holding the mutex: its pump and next upstream
  poisoned,     \* a thread panicked holding the mutex
  out,          \* where the last frame went: ids of VMs, or Wan
  sender,       \* history: its pump, and whether it was IPv4 to its own router
  acked,        \* history: the address ACKed to a MAC and not released since
  ops

maps  == <<networks, ports, nameOf, switchPorts, gwNets, gwPorts, ops>>
table == <<entries, clock>>
vars  == <<maps, leases, table, passts, query, poisoned, out, sender, acked>>

Sw == INSTANCE Switch WITH PortIds <- Ids, Networks <- Nets \cup {Unattached},
        Macs <- Unicast, GroupMacs <- Group, ports <- switchPorts,
        egress <- out, spoken <- None

Ipam == INSTANCE Allocators WITH Ports <- Names, VmPorts <- {}, HostLo <- 0, HostHi <- 0

\* The mutex is free and not poisoned.
Free == query = None /\ ~poisoned

-------------------------------------------------------------------------------
(* Control plane calls: what they do to the maps the pumps use *)

Call ==
  /\ Free
  /\ ops < MaxOps
  /\ ops' = ops + 1
  /\ out' = {} /\ sender' = None
  /\ UNCHANGED <<table, query, poisoned>>

Forget(n, m) == [acked EXCEPT ![n][m] = None]

CreateNetwork(n) ==
  /\ Call
  /\ n \notin networks
  /\ networks' = networks \cup {n}
  /\ gwNets' = gwNets \cup {n}
  /\ leases' = [leases EXCEPT ![n] = Ipam!NoLeases]
  /\ UNCHANGED <<ports, nameOf, switchPorts, gwPorts, passts, acked>>

\* Ports attached to the network stay attached.
DeleteNetwork(n) ==
  /\ Call
  /\ n \in networks
  /\ networks' = networks \ {n}
  /\ gwNets' = gwNets \ {n}
  /\ acked' = [acked EXCEPT ![n] = Ipam!NoLeases]
  /\ UNCHANGED <<leases, ports, nameOf, switchPorts, gwPorts, passts>>

\* The ids are handed out in order and never again.
CreatePort(p) ==
  \E id \in Ids :
    /\ Call
    /\ ports[p] = None
    /\ nameOf[id] = None /\ \A j \in Ids : nameOf[j] = None => id <= j
    /\ ports' = [ports EXCEPT ![p] = [id |-> id, network |-> None, mac |-> None]]
    /\ nameOf' = [nameOf EXCEPT ![id] = p]
    /\ switchPorts' = [switchPorts EXCEPT ![id] = Unattached]
    /\ UNCHANGED <<networks, leases, gwNets, gwPorts, passts, acked>>

\* The reservation goes with the port when its network is still there; a failing
\* persist leaves the passt slot behind.
DeletePort(p) ==
  LET r == ports[p]
  IN  /\ Call
      /\ r # None
      /\ ports' = [ports EXCEPT ![p] = None]
      /\ switchPorts' = [switchPorts EXCEPT ![r.id] = None]
      /\ gwPorts' = [gwPorts EXCEPT ![r.id] = None]
      /\ IF r.network \in networks
         THEN /\ leases' = [leases EXCEPT ![r.network] = Ipam!IpamRelease(@, r.mac)]
              /\ acked' = Forget(r.network, r.mac)
         ELSE UNCHANGED <<leases, acked>>
      /\ passts' \in {passts, [passts EXCEPT ![p] = None]}
      /\ UNCHANGED <<networks, nameOf, gwNets>>

\* Fault variant of AttachPort: the gateway is not told of the port.
AttachPortNoGateway(p, n, m) ==
  /\ Call
  /\ ports[p] # None /\ ports[p].network = None
  /\ n \in networks
  /\ leases' = [leases EXCEPT ![n] = Ipam!IpamAllocate(@, Pool[1], Pool[2], m)]
  /\ leases'[n][m] # None
  /\ ports' = [ports EXCEPT ![p] = [id |-> @.id, network |-> n, mac |-> m]]
  /\ switchPorts' = [switchPorts EXCEPT ![ports[p].id] = n]
  /\ passts' = [passts EXCEPT ![p] = @ = TRUE]
  /\ UNCHANGED <<networks, nameOf, gwNets, gwPorts, acked>>

\* A slot that was left behind keeps the learned MAC.
AttachPort(p, n, m) ==
  /\ Call
  /\ ports[p] # None /\ ports[p].network = None
  /\ n \in networks
  /\ leases' = [leases EXCEPT ![n] = Ipam!IpamAllocate(@, Pool[1], Pool[2], m)]
  /\ leases'[n][m] # None
  /\ ports' = [ports EXCEPT ![p] = [id |-> @.id, network |-> n, mac |-> m]]
  /\ switchPorts' = [switchPorts EXCEPT ![ports[p].id] = n]
  /\ gwPorts' = [gwPorts EXCEPT ![ports[p].id] = n]
  /\ passts' = [passts EXCEPT ![p] = @ = TRUE]
  /\ UNCHANGED <<networks, nameOf, gwNets, acked>>

\* Leaves the switch and the gateway first; with the network or the reservation
\* gone, or on a failing persist, the call ends before passt is torn down.
DetachPort(p) ==
  LET r == ports[p]
      held == r.network \in networks /\ leases[r.network][r.mac] # None
  IN  /\ Call
      /\ r # None
      /\ ports' = [ports EXCEPT ![p] = [id |-> @.id, network |-> None, mac |-> None]]
      /\ switchPorts' = [switchPorts EXCEPT ![r.id] = None]
      /\ gwPorts' = [gwPorts EXCEPT ![r.id] = None]
      /\ IF held
         THEN /\ leases' = [leases EXCEPT ![r.network] = Ipam!IpamRelease(@, r.mac)]
              /\ acked' = Forget(r.network, r.mac)
         ELSE UNCHANGED <<leases, acked>>
      /\ IF held \/ r.network = None
         THEN passts' \in {passts, [passts EXCEPT ![p] = None]}
         ELSE UNCHANGED passts
      /\ UNCHANGED <<networks, nameOf, gwNets>>

AllocateIp(n, m) ==
  /\ Call
  /\ n \in networks
  /\ leases' = [leases EXCEPT ![n] = Ipam!IpamAllocate(@, Pool[1], Pool[2], m)]
  /\ UNCHANGED <<networks, ports, nameOf, switchPorts, gwNets, gwPorts, passts, acked>>

ReleaseIp(n, m) ==
  /\ Call
  /\ n \in networks
  /\ leases[n][m] # None
  /\ leases' = [leases EXCEPT ![n] = Ipam!IpamRelease(@, m)]
  /\ acked' = Forget(n, m)
  /\ UNCHANGED <<networks, ports, nameOf, switchPorts, gwNets, gwPorts, passts>>

-------------------------------------------------------------------------------
(* passt *)

\* A frame from passt: its source address is learned, the frame goes to the VM.
PasstIngress(p) ==
  /\ Free
  /\ passts[p] # None
  /\ ports[p] # None
  /\ passts' = [passts EXCEPT ![p] = TRUE]
  /\ out' = {ports[p].id} /\ sender' = None
  /\ UNCHANGED <<maps, leases, table, query, poisoned, acked>>

\* passt_egress: dropped without a slot, and when the slot's process (of
\* PasstSupervisor) is not running.
PasstEgress(p) == IF passts[p] = None THEN {{}} ELSE {{}, {Wan}}

-------------------------------------------------------------------------------
(* pump_frame *)

\* inject_to: the port that has the name now.
InjectTo(p) == IF ports[p] = None THEN {} ELSE {ports[p].id}

\* service_reply and gateway_icmp_reply look the name up and need its network.
Served(p) == ports[p] # None /\ ports[p].network \in networks

Ipv4(f) == f.kind \in {"icmp", "discover", "request", "dns", "ip"}

\* DhcpServer::discover on a clone of the IPAM: the bound address, else the lowest
\* free one, which the clone forgets; None without an answer.
Offer(n, m) == Ipam!IpamAllocate(leases[n], Pool[1], Pool[2], m)[m]

\* Fault variant of DhcpReply: a REQUEST is answered like a DISCOVER.
DhcpReplyUnchecked(n, f, ip) ==
  IF Offer(n, f.src) = None THEN "none" ELSE "ack"

\* DhcpServer::process for a client whose chaddr is the frame's source; ip is the
\* address a REQUEST names (option 50, else ciaddr).
DhcpReply(n, f, ip) ==
  CASE f.kind = "discover" -> IF Offer(n, f.src) = None THEN "none" ELSE "offer"
    [] f.kind = "request"  -> IF leases[n][f.src] = ip THEN "ack" ELSE "nak"

\* Gateway::handle_frame: by the port's network in the gateway's own maps.
GatewayNet(i) == IF gwPorts[i] \in gwNets THEN gwPorts[i] ELSE None

IsArpReply(i, f) == f.kind = "arp" /\ GatewayNet(i) # None

IsWan(i, f) == Ipv4(f) /\ GatewayNet(i) # None /\ f.dst = GwMac[GatewayNet(i)]

IsUplink(p, f) == passts[p] = TRUE /\ f.dst = PasstMac

\* Fault variant of Fabric: the network of a learned destination is not compared.
FabricAnywhere(i, f) ==
  /\ clock < MaxClock
  /\ clock' = IF switchPorts[i] = None \/ Capacity = 0 THEN clock ELSE clock + 1
  /\ entries' = IF switchPorts[i] = None THEN entries ELSE Sw!Learn(entries, i, f.src, clock')
  /\ out' = IF switchPorts[i] = None THEN {}
            ELSE IF f.dst \in Group THEN Sw!FloodSet(switchPorts[i], i)
            ELSE Sw!UnicastAnywhere(entries', switchPorts[i], i, f.dst)

\* Switch::forward; an id that is not in the switch forwards nothing.
Fabric(i, f) ==
  /\ clock < MaxClock
  /\ clock' = IF switchPorts[i] = None \/ Capacity = 0 THEN clock ELSE clock + 1
  /\ entries' = IF switchPorts[i] = None THEN entries ELSE Sw!Learn(entries, i, f.src, clock')
  /\ out' = IF switchPorts[i] = None THEN {}
            ELSE IF f.dst \in Group THEN Sw!FloodSet(switchPorts[i], i)
            ELSE Sw!UnicastEgress(entries', switchPorts[i], i, f.dst)

\* gateway_icmp_reply: an echo request to the gateway's IP.
IsIcmpReply(p, f) == f.kind = "icmp" /\ Served(p)

\* The router's own answer, addressed to the sender, goes back through its port.
ReplyTo(p) == out' = InjectTo(p) /\ UNCHANGED table

\* Past the services: gateway ARP, gateway ICMP, WAN, the uplink's MAC, the switch.
Classify(i, p, f) ==
  IF IsArpReply(i, f) \/ IsIcmpReply(p, f) THEN ReplyTo(p)
  ELSE IF IsWan(i, f) \/ IsUplink(p, f)
  THEN out' \in PasstEgress(p) /\ UNCHANGED table
  ELSE Fabric(i, f)

\* The port the id belongs to, or None.
PortOf(i) ==
  IF nameOf[i] # None /\ ports[nameOf[i]] # None /\ ports[nameOf[i]].id = i
  THEN ports[nameOf[i]] ELSE None

Sender(i, f) ==
  [pump |-> i,
   routed |-> /\ Ipv4(f) /\ PortOf(i) # None /\ PortOf(i).network \in networks
              /\ f.dst = GwMac[PortOf(i).network]]

\* A frame with no service behind it.
PumpPlain(i, f) ==
  LET p == nameOf[i]
  IN  /\ Free
      /\ p # None
      /\ f.kind \notin {"runt", "stub"}
      /\ ~Served(p) \/ f.kind \notin {"discover", "request", "dns"}
      /\ Classify(i, p, f) /\ sender' = Sender(i, f)
      /\ UNCHANGED <<maps, leases, passts, query, poisoned, acked>>

\* A DHCP packet; without an answer it goes on like any broadcast.
PumpDhcp(i, f, ip) ==
  LET p == nameOf[i]
      n == ports[p].network
      answer == DhcpReply(n, f, ip)
  IN  /\ Free
      /\ p # None
      /\ f.kind \in {"discover", "request"}
      /\ Served(p)
      /\ IF answer = "none" THEN Classify(i, p, f) ELSE ReplyTo(p)
      /\ sender' = Sender(i, f)
      /\ acked' = IF answer = "ack" THEN [acked EXCEPT ![n][f.src] = ip] ELSE acked
      /\ UNCHANGED <<maps, leases, passts, query, poisoned>>

\* A DNS query to the gateway's IP starts; one the forwarder cannot decode goes on.
PumpDns(i, f) ==
  LET p == nameOf[i]
  IN  /\ Free
      /\ p # None
      /\ f.kind = "dns"
      /\ Served(p)
      /\ \/ query' = [pump |-> i, next |-> 1] /\ out' = {} /\ UNCHANGED table
         \/ Classify(i, p, f) /\ UNCHANGED query
      /\ sender' = Sender(i, f)
      /\ UNCHANGED <<maps, leases, passts, poisoned, acked>>

\* Too short for an Ethernet header: dropped.  A bare header with the IPv4 type
\* makes parse_ipv4 index past its end, with the mutex held.
PumpShort(i, f) ==
  /\ Free
  /\ nameOf[i] # None
  /\ f.kind \in {"runt", "stub"}
  /\ poisoned' = (f.kind = "stub" /\ Served(nameOf[i]))
  /\ out' = {} /\ sender' = None
  /\ UNCHANGED <<maps, leases, table, passts, query, acked>>

\* Fault variant of DnsTry: after the last upstream it starts over.
DnsTryForever(good) ==
  /\ query # None
  /\ IF good \/ Upstreams = 0
     THEN query' = None /\ out' = InjectTo(nameOf[query.pump])
     ELSE query' = [query EXCEPT !.next = IF @ >= Upstreams THEN 1 ELSE @ + 1] /\ out' = {}
  /\ sender' = None
  /\ UNCHANGED <<maps, leases, table, passts, poisoned, acked>>

\* One upstream answers well, or times out, refuses or answers wrongly and the
\* next is tried; past the last one the answer is SERVFAIL.
DnsTry(good) ==
  /\ query # None
  /\ IF good \/ query.next >= Upstreams
     THEN query' = None /\ out' = InjectTo(nameOf[query.pump])
     ELSE query' = [query EXCEPT !.next = @ + 1] /\ out' = {}
  /\ sender' = None
  /\ UNCHANGED <<maps, leases, table, passts, poisoned, acked>>

-------------------------------------------------------------------------------
\* Every network and port has been created; nothing is attached.
Init ==
  /\ networks = Nets /\ gwNets = Nets
  /\ leases = [n \in Nets |-> Ipam!NoLeases]
  /\ nameOf \in [Ids -> Names \cup {None}]
  /\ \A i \in Ids : nameOf[i] # None => \A j \in Ids : j < i => nameOf[j] # None
  /\ \A p \in Names : \E i \in Ids : nameOf[i] = p /\ \A j \in Ids : nameOf[j] = p => j = i
  /\ ports = [p \in Names |-> [id |-> CHOOSE i \in Ids : nameOf[i] = p,
                               network |-> None, mac |-> None]]
  /\ switchPorts = [i \in Ids |-> IF nameOf[i] = None THEN None ELSE Unattached]
  /\ gwPorts = [i \in Ids |-> None]
  /\ entries = [m \in Unicast \cup Group |-> None]
  /\ clock = 0
  /\ passts = [p \in Names |-> None]
  /\ query = None /\ poisoned = FALSE /\ out = {} /\ sender = None
  /\ acked = leases
  /\ ops = 0

Rpc ==
  \/ \E n \in Nets : CreateNetwork(n) \/ DeleteNetwork(n)
  \/ \E p \in Names : CreatePort(p) \/ DeletePort(p) \/ DetachPort(p)
  \/ \E p \in Names, n \in Nets, m \in Macs : AttachPort(p, n, m)
  \/ \E n \in Nets, m \in Macs : AllocateIp(n, m) \/ ReleaseIp(n, m)

Pump(i, f) ==
  \/ PumpPlain(i, f)
  \/ \E ip \in Pool[1]..Pool[2] : PumpDhcp(i, f, ip)
  \/ PumpDns(i, f)
  \/ PumpShort(i, f)

DnsStep == \E good \in BOOLEAN : DnsTry(good)

Next ==
  \/ Rpc
  \/ \E p \in Names : PasstIngress(p)
  \/ \E i \in Ids, f \in Frames : Pump(i, f)
  \/ DnsStep

Spec == Init /\ [][Next]_vars

-------------------------------------------------------------------------------
\* Every variable holds a value of its type; the held query names an upstream.
TypeOK ==
  /\ networks \subseteq Nets /\ gwNets \subseteq Nets
  /\ leases \in [Nets -> [Macs -> Nat \cup {None}]]
  /\ acked \in [Nets -> [Macs -> Nat \cup {None}]]
  /\ ports \in [Names -> PortRecs \cup {None}]
  /\ nameOf \in [Ids -> Names \cup {None}]
  /\ switchPorts \in [Ids -> Nets \cup {Unattached, None}]
  /\ gwPorts \in [Ids -> Nets \cup {None}]
  /\ entries \in [Unicast \cup Group -> [port : Ids, seen : 1..clock] \cup {None}]
  /\ clock \in 0..MaxClock
  /\ passts \in [Names -> BOOLEAN \cup {None}]
  /\ query = None \/ query \in [pump : Ids, next : 1..(Upstreams + 1)]
  /\ poisoned \in BOOLEAN
  /\ out \subseteq Ids \cup {Wan}
  /\ sender = None \/ sender \in [pump : Ids, routed : BOOLEAN]
  /\ ops \in 0..MaxOps

\* REQ-002 and REQ-007 end to end: whatever the MAC table, the gateway's maps and
\* late pumps of deleted ports hold, a frame reaches its own port's name or VMs
\* the control plane has on the same network now, and no deleted port.
StaysInNetwork ==
  sender # None =>
    \A j \in out \ {Wan} :
      /\ PortOf(j) # None
      /\ \/ nameOf[j] = nameOf[sender.pump]
         \/ /\ PortOf(sender.pump) # None
            /\ PortOf(sender.pump).network = PortOf(j).network

\* gateway.rs: WAN egress "is always the ingress port's own passt WAN output".  A
\* VM's IPv4 frame to its router never reaches another VM, as long as the port is
\* attached to a network that exists, through deletion and re-creation of both.
RouterTrafficStaysOwn ==
  sender # None /\ sender.routed => out \subseteq {Wan, sender.pump}

\* dhcp.rs: an ACK is for the address the IPAM has bound.  An address a client was
\* ACKed stays its binding, and no other client of the network has it, until a
\* ReleaseIP, DetachPort, DeletePort or DeleteNetwork takes it away.
AcksHold ==
  \A n \in Nets : \A m \in Macs :
    acked[n][m] # None =>
      /\ n \in networks
      /\ leases[n][m] = acked[n][m]
      /\ \A k \in Macs : k # m => leases[n][k] # acked[n][m]

\* dns.rs: "one at a time in list order", "never a hang".  A query keeps the one
\* mutex for at most one attempt per upstream, each bounded by its read timeout;
\* nobody else acts meanwhile, and it ends with an answer to the port that asked.
QueryHoldsBriefly ==
  [][query # None =>
       /\ UNCHANGED <<maps, leases, table, passts, acked>>
       /\ IF query' = None
          THEN out' = {ports[nameOf[query.pump]].id}
          ELSE query'.pump = query.pump /\ query'.next \in (query.next + 1)..Upstreams]_vars

\* parse_ipv4 (dataplane.rs): frames matching neither layout are "dropped (None),
\* never misread and never a panic".  No frame leaves the mutex poisoned.
NeverPoisoned == ~poisoned

===============================================================================
