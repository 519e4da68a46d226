# A verification project for k8netd

k8netd is a user-space network daemon for virtual machines: it owns a set of
vhost-user ports, switches Ethernet frames between them inside named networks,
answers DHCP and DNS as each network's gateway, gives every attached port an
Internet path through its own `passt` child process, and publishes VM TCP ports
on the host. An orchestrator drives it through a JSON-RPC control socket.

The modules here model the daemon from its `main` to the virtqueues of its VMs:
the process with its state file and control socket, the control plane and its two
allocators, passt supervision, the threads behind a port, the learning switch,
the path of a frame through services, gateway and switch, and the rings. They are
checked with TLC on small instances, and every invariant and action property of
the passing runs is proved with TLAPS for all instances, under hypotheses named
below; liveness is checked by TLC only. Paths below are relative to `src/crates/`; `dataplane.rs` is
`k8netd/src/dataplane.rs`.

## The system

| Component | State | Operations | Talks to |
|---|---|---|---|
| Control plane (`dataplane.rs`, `Dataplane`/`Inner`) | networks, ports, `names`, `next_port_id`, passt slots, publish table, all under one mutex | ten mutating RPCs, two reads; `persist` | everything below |
| IPAM (`k8netd-core/src/ipam.rs`) | MAC -> address per network | `allocate`, `release` | control plane, DHCP |
| Publish table (`k8netd-core/src/model.rs`) | (port, vm_port) -> host port | `allocate`, `get`, `remove`, `remove_port` | control plane, state file |
| State file (`k8netd-core/src/state.rs`) | one JSON file | save (temporary file, sync, rename, directory sync), load with migration | `persist`, `try_new` |
| passt supervision (`dataplane.rs`, `k8netd-svc/src/passt.rs`) | per port: desired configuration, live child, failures, next retry | `ensure_passt`, `teardown_passt`, `supervise_passt` | handlers and pump threads, under the mutex |
| L2 switch (`k8netd-core/src/switch/`) | port -> network, one LRU MAC table | `add_port`, `remove_port`, `forward` | handlers and pump threads |
| Gateway (`switch/gateway.rs`) | port -> network, network -> gateway MAC and address | classification of a frame: ARP reply, service, WAN, L2 | pump threads |
| Frame pump and service seam (`dataplane.rs`) | none of its own | `pump_frame`, `service_reply`, `passt_egress`, `inject_to` | switch, gateway, DHCP, DNS, passt |
| passt reader (`dataplane.rs`) | a duplicated stream, looked up by port name | read frames, learn the passt MAC, inject | passt slot, port |
| vhost-user port (`k8netd-vhost/src/port.rs`) | virtqueues, `next_avail`, socket path, stop flag | `service_rx`, `service_tx`, reconnect, drop | VM, pump thread |
| DHCP (`k8netd-svc/src/dhcp.rs`), DNS (`k8netd-svc/src/dns.rs`) | none between packets | one packet in, at most one out | service seam |
| RPC server (`k8netd-rpc/src/server.rs`, `protocol.rs`) | the connection being served | accept, one line, one reply, one connection at a time | control plane |
| Configuration and `main` (`k8netd/src/config.rs`, `main.rs`) | none after start | flags over environment over defaults; load, bind, serve | everything |

What makes it hard:

* *Half-done handlers.* A handler changes memory, then `persist` or the passt
  spawn fails and it returns an error. Nothing is rolled back, so the client's
  view, memory and the file diverge until the next successful save.
* *Restarts.* The daemon may die between any two handlers; the file it finds is
  that of the last rename, which may be of a save that was reported as failed.
* *Protocol sequences nobody checks.* A network can be deleted under attached
  ports, an address released while in use, a MAC attached twice.
* *Concurrency on the slot.* RPC handlers, the pump thread's supervision and a
  child that exits by itself all act on one passt slot.
* *Stale learning.* One MAC table serves all networks and entries outlive ports.
* *Names.* Threads of a deleted port find state again by the port's name.
* *Power failures.* Between write, sync, rename and directory sync the file on
  disk is not the one the process sees.
* *Shared memory.* The guest posts and reaps while the worker serves, indices
  wrap, events coalesce, a frontend comes back to a ring with chains in flight, and
  the workers of sessions that ended go on living.
* *One mutex, one thread.* A DNS query keeps the mutex; a panic under it poisons
  it; a silent client keeps the accept loop.

`PROJECT.json` lists each such hazard at its line with the properties aimed at
it.

## Modules

| Module | What it is |
|---|---|
| `Allocators` | The two lowest-free allocators as pure operators (`IpamAllocate`, `PublishAllocate`, ...). A Rust map is a total function with `None` for a missing key. |
| `ControlPlane` | `Inner`, the state file and the last reply. One action per RPC, plus `SupervisePasst` (a pump tick) and `Restart`. Composes `Allocators`. |
| `PublishContract` | Abstract specification: what a client of PublishPort may rely on. |
| `PasstSupervisor` | One passt slot in full detail: backoff in ticks, child processes, exits. `ControlPlane` keeps of it only the desired configuration and whether a child is live. |
| `Switch` | The forwarding engine over the MAC table. |
| `PortLifecycle` | The threads, streams and socket file behind one port name, over DeletePort and CreatePort of that name. |
| `Datapath` | What becomes of a frame a VM sends, while the control plane changes the maps under it. Composes `Switch` (learning and egress) and `Allocators` (the reservations DHCP reads). |
| `VhostRings` | One virtqueue of a port between guest, worker and switch, over reconnects. |
| `Daemon` | The process: configuration, start, state file in single steps, accept loop, clients, crashes and power failures. |
| `MCControlPlane`, `MCDaemon`, `MCDatapath`, `MCPasstSupervisor`, `MCPortLifecycle`, `MCSwitch`, `MCVhostRings` | Instances for TLC. |
| `AllocatorsProofs`, `ControlPlaneProofs`, `DaemonProofs`, `DatapathProofs`, `PasstSupervisorProofs`, `PortLifecycleProofs`, `SwitchProofs`, `VhostRingsProofs` | Theorems and proofs. |

Definitions called "fault variant" are deliberately wrong forms of the
definition below them, each the shape of a plausible bug; no specification uses
them. They document what each property is able to detect: with the variant in
place of the real definition the property named in `PROJECT.json` is violated.

### How ControlPlane corresponds to the code

* **Atomicity.** Each handler of `impl ControlPlane for Dataplane` holds Inner's
  mutex from its first to its last access of the state, so it is one action.
* **Early returns.** Each `return Err(..)` and each `?` is a disjunct. Those
  before any change are `Return(..)`. Those after a change keep the change:
  `AttachPort` with a failing spawn has reserved the address and joined the
  switch and gateway; `DetachPort` whose reservation is gone has given up the
  attachment and not the forwards; `DeletePort` and `DetachPort` with a failing
  `persist` leave the passt slot behind.
* **persist.** `Save` is the last state change before the handler's tail and
  writes the new memory. Its outcomes are `ok`, `failed` (the old file stays)
  and `failedAfterRename` (the directory sync failed, the new file is there).
  A crash inside a save leaves one of the same two files, so it is covered by a
  failed save followed by `Restart`. `AllocateIP` does not persist, as in the
  code. `Snapshot` has the merge of `ipam_records` over networks.
* **Restart.** `try_new` keeps the publish table only; `from_parts` starts
  everything else empty.
* **Data.** Addresses and TCP ports are numbers; a network is the record of its
  block, gateway and pool; a MAC, port name and VM port is a model value.
  Network names are numbers because `persist` walks networks in name order.
* **History.** `granted` is what clients were told and have not given back. It
  is set when PublishPort answers Ok (or answers from memory what the file
  already holds) and cleared by the requests that withdraw it.

Some behaviours the model shows and no property forbids, because no document
promises otherwise: after a restart the table still holds forwards, and
`attach_port` starts passt with none, so they come back with the next
PublishPort only; a slot left behind by a failed `persist` in DeletePort keeps
its child running until the name is used again; an address given by AllocateIP
reaches the file with the next handler that persists.

### PasstSupervisor and Switch

`PasstSupervisor` counts time in supervision ticks; `wait` is what is left until
`next_retry`. Noticing an exit and respawning are two actions because the
backoff is never zero, so one call of `supervise_passt` never does both.
`calm` is history. A child that has exited and was not noticed yet
is absent from `running` and still `live` in the slot, as `ensure_passt` sees it.

In `Switch` a frame is its source and destination. `Learn` is
`MacTable::learn` with eviction, `UnicastEgress` the three-way decision for a
learned destination. `Reject` stands for frames that do not parse and for an
ingress that is not live. `spoken` is history. `AddPort` of a live
port moves it, as `attach_port` does after `create_port` put it on `""`.

### How PortLifecycle corresponds to the code

Every CreatePort of the name starts an *incarnation* with a vhost worker, a pump
and a passt reader. Handlers, supervision and each look-up of the reader hold
Inner's mutex and are one action each; a read of the stream, the worker's accept
loop and the three statements of `VhostPort`'s drop run without it and are
actions of their own. `reader[g]` says where the reader of incarnation g is and
which stream it adopted. The reader and `Inner.ports` share the `VhostPort`; the
reader is always the last to let go, so the drop is its last steps. The worker
ends when it sees `stop`; the pump ends when every sender of its channel is
gone, and a session that ended before `stop` was set leaves one behind for good
(`mem::forget` of its daemon), which is `leaked`. A passt process is its stream:
`open` are the streams that have not reached their end, `owner` (history) is the
incarnation each was configured for. Frames still buffered when a stream is shut
are represented by the one the reader holds already. `ControlPlane` and
`PasstSupervisor` say when passt is ensured, torn down and retried; here each may
happen at any time its guard on the name allows.

Behaviours this model reaches and no property forbids:

* The drop runs after the mutex is released, so when the name was created again
  in between it connects to the new port's listener (the new worker sees a
  session that ends at once, and forgets its daemon) and unlinks the new port's
  socket file: no frontend can reach that port any more (`port.rs:526-528`).
* DeletePort removes the socket file before the reader drops `VhostPort`, so the
  drop's connect finds nobody. A worker without a frontend stays in `accept` for
  ever, and its pump with it.
* A reader that holds a frame of a passt since replaced learns its source into
  the slot the name has by then (`dataplane.rs:831`).
* After a failed `persist` in DeletePort passt and reader go on without a port.

The code at `dataplane.rs:829-830` checks for six bytes and slices bytes 6 to 12;
frames are not modelled here, so the model says nothing of it.

### How Datapath corresponds to the code

`pump_frame` takes the mutex once, so a frame is one step, in the order of the
code: DHCP and DNS (`Served`), the gateway's ARP reply, the echo reply, WAN
egress, the uplink's MAC, the switch. Two kinds of look-up meet here. The gateway
and the switch go by the port's *id*, which is never used again; `service_reply`,
`passt_egress` and `inject_to` go by its *name*, which a new port may have taken.
`nameOf[i]` is the name the pump of id i was started for; a pump outlives its
port, so any id ever given may still pump. A DNS query is the one frame that takes
several steps: it keeps the mutex (`query`) while it tries one upstream after the
other. A frame is its two addresses and its kind; a DHCP client's hardware address
is its frame's source. `Offer` allocates in a copy of the reservations and returns
the address only, which is what the clone at `dataplane.rs:725` does. Control
plane calls are reduced to what they do to the maps the pumps read; `DeletePort`
and `DetachPort` may leave the passt slot behind (a failing `persist`). Init is
the state after CreateNetwork and CreatePort of every name.

Behaviours it reaches and no property forbids: unattached ports share the switch
network `""`, so their VMs exchange frames before AttachPort (not after
DetachPort, which removes them from the switch); a DISCOVER that gets no answer is
flooded like any broadcast; an OFFER to a MAC without a reservation is not
recorded, so its REQUEST is refused, and every such client is offered the same
address; an address released through ReleaseIP while a VM uses it is given away.

### How VhostRings corresponds to the code

A behaviour follows one ring, chosen in Init: RX and TX have a worker, a kick and
a queue each and share only the session. `handle_event` is three steps because the
guest runs in between: taking the event (the notifier is drained first), serving
(`service_rx` or `service_tx` up to the list of used chains) and `complete_used`.
`RxStart` is the reconnect recovery. `nextAvail` is the session's, restored from
the frontend's SET_VRING_BASE, which `base` fixes for a behaviour: the used index
or, as the recovery's comment expects, the avail index; `nextUsed` is restored
from the ring. A chain is one descriptor: large enough, too small for any frame
(the frame is dropped and the chain completed empty), or of the other direction.
A session ends between two batches; malformed chains are left out. NetBackend and
its memory outlive the session; the kick does not, since every frontend brings new
eventfds.

`mem::forget` of an ended session's daemon (`port.rs:609`) leaves its RX worker
running: it shares memory, channel and notifier with the sessions that follow and
has a Queue of its own. Each ended session is an entry of `ghosts` with that Queue's
indices, and `GhostEvent` is its `handle_event`: the first worker to read the
notifier takes the event from all others. How sessions end is the constant `Ends`.
A frontend in order stops its rings (GET_VRING_BASE), after which the forgotten
Queue serves nothing and only drains the notifier; an abrupt end leaves the Queue
ready, and the worker serves the ring from it. A ghost's event is one step, while
the session's worker takes three; its reads and writes of the ring are the same. A
forgotten TX worker waits for nothing but its own kick.

Which frame meets which chain is counted, not iterated: the chain at position k of
what is offered takes the frame number `Rank(Takers, k)` of the channel, and
`RxServes` says where the channel runs dry.

`QuietResume` restricts the guest of the passing run: it posts nothing while the
recovery is due and has not run. Without it ChainsAccounted fails, which is the
run `rewind_reuses_buffers`. TX has no recovery: with the avail index as the base,
chains in flight at a reconnect are neither sent nor returned, and no property says
otherwise. With the used index they are sent, which `FramesInOrder` says by way of
`offered`, the history of what the guest transmitted.

### How Daemon corresponds to the code

`pc` is where the main thread is, from the start through `load_from_disk`, the
migration's save, `serve`'s unlink and bind, to the accept loop and one connection
in it: read, the four steps of `save_to_disk`, reply. Each system call may fail
(`Fault`); each handler's failing save answers Internal, the migration's ends the
process. The stat behind `exists()` is the one whose failure is not an error: the
file counts as missing and the process goes on with an empty table
(`state.rs:206`). `missed` (history) is `"yes"` in such a process and `"saved"` for
good once it has saved over the file. A file is the text the process sees (`seen`) and the texts a power
failure may leave (`images`): until its data is synced a file may be torn, until
the directory is synced a rename may be undone (`old`). `Crash` loses memory and
connections only; `PowerLoss`, with the state directory on a disk, also picks an image. The shipped
setup has it under `/run` (`config.rs:53`), where it "vanishes across reboots"
(`deploy/k8netd.container:41`); that is `TmpfsLoss`, which takes the file, the
temporary file and the socket, and with the host's VMs all that was answered.
Memory is the publish table
alone, the one part of the file a restart reads; UnpublishPort stands for every
request that frees an entry, CreateNetwork for every request that persists without
touching the table. `acked` (history) is the last outcome a client was told for a
pair; it is in doubt from the moment another request for the pair changes memory
until that one is answered.

The configuration is checked as it is resolved: each of the settings that can be
malformed is unset, good or bad, in flag and environment. `K8NETD_PUBLISH_RANGE`,
the MTU and the passt binary are parsed and validated and not passed on to the
Dataplane.

Behaviours it reaches and no property forbids: a client that connects and sends
nothing keeps the accept loop for ever, since the read has no timeout (this is the
exception in SendersAreServed); a line that is not UTF-8 is dropped without an
answer; an UnpublishPort whose save fails is answered NotFound when retried, and
its entry is back after a restart; a second daemon in the same directory unlinks
the first one's socket. Not in the model: `version` is cut to 32 bits before it is
compared (`state.rs:173`).

## Runs

Passing runs:

* **cp_any** (`ControlPlaneAny.cfg`): any client, any order, two ports, two
  MACs, one network with a pool of one address, a publish range of one host
  port, one failing save and one restart. One address and one host port make
  every second request meet exhaustion and every release be followed by reuse,
  which is where an allocator goes wrong; two ports and two MACs are what it
  takes to collide. Checks `TypeOK`, `LeasesExclusive`, `HostPortsExclusive`,
  `GrantsSurvive`, `FabricMirrorsPorts`, `RepliesAreHonest` and the refinement
  `ImplementsContract`.
* **cp_orderly** (`ControlPlaneOrderly.cfg`): a client that deletes a network
  only when it is unused, releases no address in use and attaches a MAC once per
  network; two VM ports and two host ports so that a passt configuration changes
  under a live child; one failing spawn, one restart. Checks
  `AttachmentKeepsAddress`, `ForwardsBackedByTable`, `PublishedIsAttached`. These
  fail for a disorderly client or a failing save, for reasons the runs below and
  the hazards describe.
* **passt_life** (`PasstSupervisor.cfg`): three exits, three failing spawns, base
  2 and cap 5 ticks, so that the third failure in a row is cut off by the cap.
  Checks `OneProcessAsDesired`, `NoSpin` and, under fairness, `PasstComesBack`.
* **switch** (`Switch.cfg`): three ports over two networks, two unicast
  addresses and one group address in a table of two entries, six learned
  frames: enough to fill the table, evict, move a port and speak again. Checks
  `TableBounded`, `Isolation`, `SpeakerReachable`, `EvictsOldest`.
* **lifecycle** (`PortLifecycle.cfg`): two incarnations of a name, two passt
  processes, one failing `persist` in DeletePort. Two incarnations are what it
  takes for a thread to meet another one's port, slot or socket; two processes
  are what it takes to replace one, before or after the name changes hands.
  Checks `TypeOK`, `ThreadsOutliveNoPort`, `RunningPasstIsPorts`,
  `NoInheritedStream` and, under fairness, `LiveStreamIsRead` and
  `ReadersRetire`.

* **datapath** (`Datapath.cfg`): two networks, two port names, three switch ids,
  two VM addresses, a pool of one, two DNS upstreams, three control plane calls
  and two switched frames in a table of two entries. One address makes two clients
  compete for it; a MAC attached twice puts two VMs on one network. Three calls are enough to
  delete a port and give its name and a network to another one, or to attach two
  ports and take a network away; the third id is the one a pump survives. Checks
  `StaysInNetwork`, `RouterTrafficStaysOwn`, `AcksHold`, `QueryHoldsBriefly`.
* **vhost_rings** (`VhostRings.cfg`): a ring of two slots, indices modulo four,
  four posts, two frames, two sessions, both bases. Four posts wrap the indices
  and use every slot twice; two sessions make one reconnect. Checks
  `CompletionsOwed`, `ChainsAccounted`, `FramesInOrder` and, under fairness,
  `WorkIsDone`: a kick is served, and so is an injected frame unless a forgotten
  worker takes the notifier. Sessions end in order or abruptly. The invariants hold
  until a session follows an abrupt end (`Alone`); since they say nothing beyond
  it, the bound `Successors = FALSE` spares TLC those states (with three posts in
  place of four the run passes with `TRUE` as well).
* **daemon** (`Daemon.cfg`): two clients, one pair, one failing system call, one
  crash, power failure or reboot of a tmpfs, a directory with no file, a torn one, or one of version
  1, 2 or 3. Two clients are what it takes to wait behind another; one pair is
  enough since pairs do not interact in the file. Checks
  `AnswersSurvivePowerLoss`, `FailsClosed` and, under fairness,
  `SendersAreServed` and `ComesBack`.

Runs that find the code at variance with what is written about it:

* **reader_outlives_port** (`ReaderOutlivesPort.cfg`): DeletePort and CreatePort
  of the name, then AttachPort, all before the old reader looks the slot up
  again: it finds a live passt under the name, adopts it, and takes frames meant
  for the new port to the old one's queue. The comment of `spawn_passt_reader`
  says it serves the owning port and exits when that port is deleted.
* **rewind_reuses_buffers**: a buffer posted into a resumed ring before its first
  `service_rx` is served ahead of the chains in flight; its completion moves
  `next_used`, so the rewind that follows goes back to a returned buffer and the
  one in flight is never offered again. The comment says the rewind delivers the
  pending chains.
* **stat_fails_open** (`StatFailsOpen.cfg`): a state file that is torn or of a newer
  version, one failing stat, and the daemon serves with an empty table; the next
  save replaces the file. `try_new`'s comment says that it "fails closed when
  persisted state is corrupt or incompatible". A file that loads is lost the same
  way, which is why `AnswersSurvivePowerLoss` and `FailsClosed` speak of processes
  that saw the file: with `missed` out of them both are violated.
* **short_frame_poisons**: a frame of an Ethernet header with the IPv4 type and
  nothing after it panics `parse_ipv4` with the mutex held; its comment says
  "never a panic".

Seven more divergences are visible in the modules and have no run of their own:

* A restart restores the publish table only (`dataplane.rs:183`, `Restart`), and the
  first save afterwards overwrites the rest; REQ-010 promises all dynamic state.
* A session ends in order, the next one sets up its rings and posts a buffer; a
  frame is injected, the forgotten worker reads the notifier first
  (`port.rs:480`), and the frame stays beside the buffer until the next kick or
  frame. `kick_rx`'s comment says that it wakes the RX worker to deliver.
* The same after an abrupt end: the forgotten worker's Queue is ready, so it serves
  the second session's buffer and moves the used index, which the second session's
  Queue does not know of; what that one completes next is written over it. The
  comment of `VhostPort::new` promises one session at a time, "including abrupt
  mid-session drops" (`port.rs:535`).
* UnpublishPort of the last forward tears down the passt of a port that is still
  attached (`dataplane.rs:604`); REQ-008 promises one per attached port.
* DetachPort whose reservation was released, or whose network was deleted, returns
  NotFound after the attachment was taken and before the published host ports are
  freed (`dataplane.rs:522`); REQ-011 promises they are.
* Every successful spawn clears `failures` (`dataplane.rs:956`), so a child that
  starts and dies at once is restarted at the base delay for ever; the comment
  says that consecutive exits double the delay.
* An address heard on one network, then on another whose port is removed, cannot
  be reached on the first until it speaks again: the entry points to a removed
  port and the frame is dropped (`engine.rs:112`); the comment says that such a
  destination floods.

Also, `load_from_disk`'s comment says that a missing file is an error; the code
returns an empty store (`state.rs:203-207`), which a first start needs.

Symmetry is used over sets of model values in the runs whose properties are
invariants or of the form `[][A]_vars` (in `datapath` networks are exchanged
together with their gateways); the runs that check liveness use none. Deadlock is
checked in `cp_any`, `cp_orderly`, `passt_life` and `switch`: a client may always
ask, a frame may always be rejected. In the others the system may stop: in
`lifecycle` the last incarnation is deleted and the threads left are blocked in
`accept`; in `vhost_rings` the guest has posted its last chain and no session
comes; in `daemon` a misconfigured process has exited and is not worth starting
again; in `datapath` the bounds on calls and switched frames can be used up
and the mutex, once poisoned, stops everything.

**Bounds.** `MaxPortId`, `MaxSaveFaults`, `MaxSpawnFaults`, `MaxRestarts`,
`MaxExits`, `MaxSpawnFails`, `MaxClock`, `MaxPorts`, `MaxStreams`, `MaxOps`,
`MaxPosts`, `MaxFrames`, `MaxSessions`, `Successors`, `MaxCrashes` and `MaxFaults` are in the
guards of the actions they limit. The proofs hold for every value of them.

**Fairness.** `PasstSupervisor` assumes weak fairness of `SuperviseExit`,
`SuperviseRespawn` and `Tick`: each port's pump thread polls with a 50 ms
timeout and calls `supervise_passt` under the mutex in every round, every holder
of the mutex lets go of it, and time passes. RPCs and exits get no fairness.
`PasstComesBack` also rests on failing spawns and exits being finite.
`PortLifecycle` assumes weak fairness of each incarnation's reader, drop and
worker: they are threads of their own that block only on the mutex, on a read or
on `accept`, and a shut stream or a waiting connection ends the latter two. RPCs,
supervision, frames, frontends and exits get no fairness. A reader with nothing
to adopt looks again every tick, which the model leaves out as a step that
changes nothing.
`VhostRings` assumes weak fairness of the ring's worker, an epoll loop of its own
that lives as long as the session. Guest, switch, frontend and forgotten workers get
none; that a forgotten worker may always be first is what the scheduler allows.
`Daemon` assumes weak fairness of the process: its main thread is scheduled, no
system call but `read` blocks for ever, and the service manager restarts it
(`Restart=always` in `deploy/k8netd.container`). Clients get none; `ComesBack`
rests on crashes and failing calls being finite.
`Datapath` states no fairness: that a DNS query ends is the action property
`QueryHoldsBriefly`, a bound on its attempts, each of which has a read timeout.

## Proofs

All for arbitrary `Nets`, `Ports`, `Macs`, `VmPorts`, ranges, capacities and
bounds, from the named assumptions of the modules (the constants are sets and
numbers of the expected kind, and `None` is none of them). `NoRecordAssumption`,
`NoSlotAssumption`, `NoneAssumption` and `MarksAssumption` say the last for the
records each module keeps beside `None`; `Option` gives it in the code.
`SupervisorAssumption` asks for two process ids, the least the kernel needs to
start a process while an old one is being replaced.

* `AllocatorsProofs`: what `LowestFree`, both `allocate`s and the removals
  return; `AllocationKeepsOneOwner`: an allocation keeps a table in which every
  host port has one owner.
* `ControlPlaneProofs`
  * `TypeCorrect`: one lemma per action.
  * `HostPortsStayExclusive`, `GrantsAlwaysSurvive`: neither is inductive.
    A restart replaces memory by the file, so exclusivity must hold for both
    tables at once; and a grant survives a restart only because the file agrees
    with it. `PublishInv` is `TypeOK`, `HostPortsExclusive` and `GrantsSurvive`
    together. The argument goes through `TableStep`: what any
    step can do to `pub`, `granted` and the file's table
    (`EveryStepIsTableStep`); the invariants are then shown for table steps.
  * `ControlPlaneImplementsContract`: `Spec => PublishContract!Spec` with
    `promised <- granted`, from the same step abstraction.
  * `LeasesStayExclusive`: `LeaseInv` adds that every existing network passed
    `NetworkValid` (so the gateway is not in the pool); `LeaseStep` abstracts the
    steps.
  * `FabricAlwaysMirrorsPorts`: inductive with the types, once every
    step, over all early returns of its handler, is shown to be one of six moves
    of the fabric (`FabricStep`). `RepliesStayHonest`: an action property, so a case analysis
    over the ends of every handler (`HonestStep`); no invariant is needed.
  * `AttachmentsKeepAddress`, `ForwardsAlwaysBacked`, `PublishedStaysAttached`:
    for `OrderlySpec` and under `MaxSaveFaults = 0`, the client and the disk the
    run `cp_orderly` has; with a failing save each of them is false, since
    DeletePort and DetachPort then leave a slot behind. Spawns may fail and the
    daemon may restart any number of times. `OrderlyInv` adds to `LeaseInv` that a
    MAC of a network has one attached port (`OneUser`), and for every port that
    its reservation is there, its slot is pinned to it and forwards only what the
    table has. `OrderlyStep` says what a step may do to one port (`Kept`,
    `Vacated`, or attached with forwards of the table) and is shown per handler.
* `PasstSupervisorProofs`: `SupervisorTypeCorrect`, `AlwaysOneProcess`,
  `SupervisionNeverSpins`. The first rests on `BackoffBounds`: after any number of
  failures the delay lies between base and cap. The last needs `Patient`: while
  nothing is live, the ticks counted since the last failure and the ticks still
  to wait add up to the base at least, so a retry that is due has waited.
* `SwitchProofs`: `SwitchTypeCorrect`, `TableStaysBounded`, `NetworksIsolated`,
  `SpeakersStayReachable`, `EvictionIsByAge`. `SwitchInv` adds to the types that
  stamps are distinct and not ahead of the clock, that the table is within its
  capacity, and that an entry, when there is one, names the port the address
  last spoke from. That an oldest entry exists at all needs the well-foundedness
  of the naturals.
* `PortLifecycleProofs`: `LifecycleTypeCorrect`, `PortsKeepTheirThreads`,
  `OnlyThePortsPasstRuns`, `StreamsAreNotInherited`. None of the last three is
  inductive. `LifecycleInv` adds `Numbered` (the port there now is the latest
  incarnation, and exactly the incarnations born have a reader), `StoppedByReader`
  (only a retiring reader has set `stop`, and only a stopped worker is done),
  `StreamsKnown` (every stream in use was spawned and has an owner), `SlotOwned`
  (the live stream was spawned for the slot's owner and, while no persist failed,
  a slot is the present port's) and `OpenIsLive`. The current port's reader
  cannot retire because it does so only while the port is absent and a name comes
  back under a new incarnation; it cannot inherit a stream because the slot is
  gone before the name is free. `SpawnedKeepsInv` and `RetiringMove` are the two
  lemmas that several actions share.
* `DaemonProofs`: `AnswersAlwaysSurvive` and `UnreadableStaysClosed`. `DaemonInv`
  follows a save through its steps: once the file is loaded, the table in memory
  agrees with every answer given (`Loaded`); from the write to the rename the
  temporary file holds that table, and after its sync nothing else (`Saved`); so
  what the rename puts in place agrees as well as what it may lose (`Kept`); and
  an answer `Ok` is waiting only when every text that can come back has what the
  request asked for (`Asked`). `Closed` says that a file that does not load is on
  disk as it was found and the process is not past loading it. `Loaded` and `Closed`
  hold of processes that saw the file (`missed = "no"`), `Kept` until one that did
  not has saved (`missed # "saved"`); `Unsaved` says that such a save cannot be on
  its last step with the file still counted as unharmed. A reboot of a tmpfs
  (`TmpfsLossStep`) leaves nothing to agree with. The one thing an
  earlier answer loses to is the next change of its own pair, which puts it in
  doubt until it is answered. `MarksAssumption` keeps `None` and `Torn` apart from
  documents, requests and outcomes. `DaemonTypeCorrect` is not inductive either:
  that a client waits in the backlog at most once needs that the one being served
  has a connection and is not in it (`Waiting`), and what is read after a line
  needs that where the main thread is says whether it serves and whether it has
  an answer (`Threaded`); `TypeInv` is both with `DaemonInv`.
* `DatapathProofs`: `DatapathTypeCorrect`, `FramesStayInNetwork`,
  `RouterTrafficNeverShared`, `AcksAlwaysHold`, `QueriesHoldBriefly`, with the
  lemmas of `AllocatorsProofs` for what DHCP allocates. `StaysInNetwork` speaks of
  the control plane's records and the frame goes by the switch's and the gateway's
  maps, so `Mirrors` ties them: an id in either map is that of a port that is
  there, on the network the record has. The MAC table may say what it likes, since
  flooding and `UnicastEgress` deliver only to ports the switch's map has on the
  sender's network. `AcksHold`
  needs `Exclusive` (no address has two holders); `QueryHoldsBriefly` needs
  `Asking` (the port of a query is there until the answer, because the mutex is
  held).
* `VhostRingsProofs`: `RingsTypeCorrect`, `CompletionsAlwaysOwed`,
  `ChainsAlwaysAccounted`, `FramesAlwaysInOrder`, for every ring size that divides
  a larger index space (256 and 2^16 in the code) and every number of posts,
  frames and sessions. They share the hypothesis `Orderly`: the guest posts
  nothing into a ring whose recovery is due (`QuietResume`), or no frontend
  resumes from the avail index; and frontends stop their rings before they leave
  (`"abrupt" \notin Ends`). The first part is not a convenience: without it the last
  three are false, which is what the run `rewind_reuses_buffers` shows. The second
  leaves abrupt ends to TLC. Forgotten workers are in the proofs: none is ready (`Marks`), so `GhostDrains` shows that
  all they can do is to take the notifier. `RingInv` says
  that the worker's indices agree with its batch (`Marks`), and that the
  completions the guest has not reaped, the batch and the chains not served yet
  are, in that order, distinct chains the guest is owed (`Lined`), on RX all of
  them (`Covered`). From `Lined` a pigeonhole argument bounds what lies between
  the guest's and the device's index by the ring (`LineFits`), and that is why a
  wrapped index cannot be taken for another one and why the recovery rewinds to
  the oldest chain in flight (`StartIsOldest`). `RxInv` and `TxInv` add the frames:
  reaped, written and queued frames are increasing and are all that was injected
  less the dropped; what was sent is increasing and older than what is posted.
  `TxAllInv` adds, for frontends that resume at the used index, that what the guest
  offered is what was sent and what lies between the device's and the guest's index.
  The proofs need no induction over data: that the i-th taker exists follows from
  a surjection between finite sets of equal size (`RankOnto`).

Only model-checked: the ring invariants where sessions end abruptly, which is
outside the hypothesis above, and `PasstComesBack`, `LiveStreamIsRead`, `ReadersRetire`,
`WorkIsDone`, `SendersAreServed` and `ComesBack`, which are liveness under fairness
and beyond the prover.

## Not modelled

Parsing and printing of addresses, JSON, CIDRs and passt's arguments, checksums and
the construction of reply frames; the length-prefixed framing of the passt stream;
logging; `MemoryControlPlane` (only tests construct it); `MacTable::evict`,
`Ipam::from_snapshot` and the setters and getters of `StateStore` (called by tests
only). `MacTable`'s clock is a wrapping 64-bit counter; the wrap is beyond any run
and the model uses naturals. Descriptor chains that loop or point outside guest
memory are the virtqueue library's to refuse.

## What is left

* The two hazards of `PROJECT.json` without a property need a decision about the
  drop of `VhostPort` (`port.rs:526-528`), which no document promises anything
  about.
* A forgotten worker serves in one step, which matters only beside another session.
* The seven divergences above that have no run of their own.
* The control plane is one module and `Datapath` repeats, reduced, what its
  handlers do to the maps. That the reduced calls are those of `ControlPlane` is
  argued above and not checked.
