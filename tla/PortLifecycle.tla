----------------------------- MODULE PortLifecycle -----------------------------
(***************************************************************************)
(* The threads and files behind one port name, over DeletePort and         *)
(* CreatePort of that name.  Each CreatePort starts a new incarnation with *)
(* three threads: the vhost worker (port.rs, VhostPort::new), the pump and *)
(* the passt ingress reader (dataplane.rs).  Handlers, supervision and the *)
(* reader's look-ups hold Inner's mutex and are atomic; reading a stream,  *)
(* the worker's loop and VhostPort's drop run without it.  Reader, pump    *)
(* and drop find the port, the passt slot and the socket by the name they  *)
(* share with every other incarnation.                                     *)
(*                                                                         *)
(* A port's VhostPort is held by Inner.ports and by its reader, and is     *)
(* dropped by whoever lets go last.  The reader never ends while the port  *)
(* is there (ThreadsOutliveNoPort), so that is always the reader.          *)
(***************************************************************************)
EXTENDS Naturals

CONSTANTS MaxPorts,       \* bound on incarnations of the name
          MaxStreams,     \* bound on passt processes spawned
          MaxSaveFaults,  \* bound on failing persists in DeletePort
          None

Incarnations == 1..MaxPorts
Streams      == 1..MaxStreams

\* The owner of a slot is the incarnation whose handler last configured it.
Slots == [owner : Incarnations, live : Streams \cup {None}, mac : Streams \cup {None}]

ASSUME LifecycleAssumption ==
  /\ MaxPorts \in Nat
  /\ MaxStreams \in Nat
  /\ MaxSaveFaults \in Nat
  /\ None \notin Nat
  /\ None \notin Slots

VARIABLES
  port,        \* Inner.ports[name]: the incarnation, or None
  born,        \* incarnations created so far
  slot,        \* Inner.passts[name]: live stream and whose MAC was learned
  owner,       \* the incarnation each stream's passt was configured for
  spawned,     \* streams spawned so far
  open,        \* streams that have not reached their end
  reader,      \* where each reader is, and the stream it adopted
  stop,        \* VhostPort.stop
  worker,      \* where each vhost worker is
  knock,       \* a connection without a frontend waits at the listener
  leaked,      \* a finished session's daemon was forgotten, with its sink
  file,        \* whose listener <name>.sock leads to
  saveFaults   \* failed persists so far

control == <<port, born>>
passt   == <<slot, owner, spawned, open>>
vhost   == <<stop, worker, knock, leaked>>
vars    == <<control, passt, reader, vhost, file, saveFaults>>

\* A reader looks the slot up, reads, holds a frame, or is retiring: returned and
\* about to set stop, to connect, to unlink.
Retiring == {"stop", "connect", "unlink", "gone"}

Readers == [at : {"read", "frame"}, stream : Streams] \cup
           [at : {"unborn", "look"} \cup Retiring, stream : {None}]

WorkerSteps == {"unborn", "accept", "session", "closing", "done"}

-------------------------------------------------------------------------------
(* passt slots, under the mutex *)

Live == IF slot = None THEN None ELSE slot.live

\* Fault variant of Shut: the old stream and process are left alone.
ShutForgotten(streams, s) == streams

\* shutdown and terminate: whoever reads the stream reaches its end.
Shut(streams, s) == streams \ {s}

\* PasstProc::spawn into the slot.
Spawned(base, g) ==
  /\ spawned < MaxStreams
  /\ spawned' = spawned + 1
  /\ owner' = [owner EXCEPT ![spawned + 1] = g]
  /\ slot' = [base EXCEPT !.live = spawned + 1]
  /\ open' = Shut(open, Live) \cup {spawned + 1}

\* ensure_passt from AttachPort, PublishPort or UnpublishPort with another
\* configuration than the live one; a learned MAC stays in the slot.
EnsurePasst ==
  LET base == [owner |-> port, live |-> None,
               mac |-> IF slot = None THEN None ELSE slot.mac]
  IN  /\ port # None
      /\ \/ Spawned(base, port)
         \/ /\ slot' = base
            /\ open' = Shut(open, Live)
            /\ UNCHANGED <<owner, spawned>>
      /\ UNCHANGED <<control, reader, vhost, file, saveFaults>>

\* teardown_passt from DetachPort or the last UnpublishPort.
TeardownPasst ==
  /\ port # None
  /\ slot # None
  /\ slot' = None
  /\ open' = Shut(open, Live)
  /\ UNCHANGED <<control, owner, spawned, reader, vhost, file, saveFaults>>

\* passt exits by itself.
PasstExit ==
  /\ Live \in open
  /\ open' = open \ {Live}
  /\ UNCHANGED <<control, slot, owner, spawned, reader, vhost, file, saveFaults>>

\* The pump ends when every sender of its channel is gone: the worker's and those
\* of forgotten sessions.
PumpRuns(g) == g <= born /\ (worker[g] # "done" \/ leaked[g])

\* supervise_passt from any incarnation's pump: an exit is noticed, or a due
\* restart made; the pump looks the slot up by name.
Supervise(g) ==
  /\ PumpRuns(g)
  /\ slot # None
  /\ \/ /\ Live # None
        /\ Live \notin open
        /\ slot' = [slot EXCEPT !.live = None]
        /\ UNCHANGED <<owner, spawned, open>>
     \/ /\ Live = None
        /\ Spawned(slot, slot.owner)
  /\ UNCHANGED <<control, reader, vhost, file, saveFaults>>

-------------------------------------------------------------------------------
(* CreatePort and DeletePort *)

\* The listener unlinks a stale file and binds the path anew.
CreatePort ==
  LET g == born + 1
  IN  /\ port = None
      /\ g \in Incarnations
      /\ born' = g
      /\ port' = g
      /\ file' = g
      /\ worker' = [worker EXCEPT ![g] = "accept"]
      /\ reader' = [reader EXCEPT ![g] = [at |-> "look", stream |-> None]]
      /\ UNCHANGED <<passt, stop, knock, leaked, saveFaults>>

\* Fault variant of DeletePort: the passt is not torn down.
DeletePortKeepingPasst ==
  /\ port # None
  /\ port' = None
  /\ file' = None
  /\ UNCHANGED <<born, passt, reader, vhost, saveFaults>>

\* A failing persist returns before passt is torn down and the file removed.
DeletePort ==
  /\ port # None
  /\ port' = None
  /\ \/ /\ slot' = None
        /\ open' = Shut(open, Live)
        /\ file' = None
        /\ UNCHANGED saveFaults
     \/ /\ saveFaults < MaxSaveFaults
        /\ saveFaults' = saveFaults + 1
        /\ UNCHANGED <<slot, open, file>>
  /\ UNCHANGED <<born, owner, spawned, reader, vhost>>

-------------------------------------------------------------------------------
(* The passt ingress reader *)

\* Adopt the stream the name's slot holds now.
ReaderAdopt(g) ==
  /\ reader[g].at = "look"
  /\ Live # None
  /\ reader' = [reader EXCEPT ![g] = [at |-> "read", stream |-> Live]]
  /\ UNCHANGED <<control, passt, vhost, file, saveFaults>>

\* Fault variant of MayRetire: a port without a live passt is taken for deleted.
RetireWhenParked == Live = None

\* Fault variant of MayRetire: the reader parks for ever.
NeverRetire == FALSE

\* No live passt under the name, and no port.
MayRetire == Live = None /\ port = None

\* The mutex is released before VhostPort is dropped.
ReaderRetire(g) ==
  /\ reader[g].at = "look"
  /\ MayRetire
  /\ reader' = [reader EXCEPT ![g].at = "stop"]
  /\ UNCHANGED <<control, passt, vhost, file, saveFaults>>

\* A frame arrives.  What is still buffered when the stream is shut is a frame the
\* reader holds already.
ReaderRead(g) ==
  /\ reader[g].at = "read"
  /\ reader[g].stream \in open
  /\ reader' = [reader EXCEPT ![g].at = "frame"]
  /\ UNCHANGED <<control, passt, vhost, file, saveFaults>>

\* The frame's source is learned into the slot the name has now, and the frame
\* sent to the reader's own incarnation.
ReaderInject(g) ==
  /\ reader[g].at = "frame"
  /\ slot' = IF slot = None THEN None ELSE [slot EXCEPT !.mac = reader[g].stream]
  /\ reader' = [reader EXCEPT ![g].at = "read"]
  /\ UNCHANGED <<control, owner, spawned, open, vhost, file, saveFaults>>

\* Fault variant of ReaderEof: the old stream is kept while looking for the next.
ReaderEofKeepingStream(g) ==
  /\ reader[g].at = "read"
  /\ reader[g].stream \notin open
  /\ reader' = [reader EXCEPT ![g].at = "look"]
  /\ UNCHANGED <<control, passt, vhost, file, saveFaults>>

\* End of file or an error: the stream is dropped and the slot looked up again.
ReaderEof(g) ==
  /\ reader[g].at = "read"
  /\ reader[g].stream \notin open
  /\ reader' = [reader EXCEPT ![g] = [at |-> "look", stream |-> None]]
  /\ UNCHANGED <<control, passt, vhost, file, saveFaults>>

-------------------------------------------------------------------------------
(* VhostPort: the drop, and the worker's accept loop *)

DropStop(g) ==
  /\ reader[g].at = "stop"
  /\ stop' = [stop EXCEPT ![g] = TRUE]
  /\ reader' = [reader EXCEPT ![g].at = "connect"]
  /\ UNCHANGED <<control, passt, worker, knock, leaked, file, saveFaults>>

\* Connect to whatever the path leads to, and hang up.
DropConnect(g) ==
  /\ reader[g].at = "connect"
  /\ knock' = [h \in Incarnations |-> knock[h] \/ (h = file /\ worker[h] # "done")]
  /\ reader' = [reader EXCEPT ![g].at = "unlink"]
  /\ UNCHANGED <<control, passt, stop, worker, leaked, file, saveFaults>>

DropUnlink(g) ==
  /\ reader[g].at = "unlink"
  /\ file' = None
  /\ reader' = [reader EXCEPT ![g].at = "gone"]
  /\ UNCHANGED <<control, passt, vhost, saveFaults>>

\* A frontend connects through the path; the worker looks at stop once more.
FrontendConnect(g) ==
  /\ worker[g] = "accept"
  /\ file = g
  /\ worker' = [worker EXCEPT ![g] = IF stop[g] THEN "done" ELSE "session"]
  /\ UNCHANGED <<control, passt, reader, stop, knock, leaked, file, saveFaults>>

WorkerKnocked(g) ==
  /\ worker[g] = "accept"
  /\ knock[g]
  /\ knock' = [knock EXCEPT ![g] = FALSE]
  /\ worker' = [worker EXCEPT ![g] = IF stop[g] THEN "done" ELSE "closing"]
  /\ UNCHANGED <<control, passt, reader, stop, leaked, file, saveFaults>>

FrontendLeave(g) ==
  /\ worker[g] = "session"
  /\ worker' = [worker EXCEPT ![g] = "closing"]
  /\ UNCHANGED <<control, passt, reader, stop, knock, leaked, file, saveFaults>>

\* After a session: the end when stopped, else the daemon is forgotten and the
\* worker accepts again.
WorkerClose(g) ==
  /\ worker[g] = "closing"
  /\ worker' = [worker EXCEPT ![g] = IF stop[g] THEN "done" ELSE "accept"]
  /\ leaked' = [leaked EXCEPT ![g] = leaked[g] \/ ~stop[g]]
  /\ UNCHANGED <<control, passt, reader, stop, knock, file, saveFaults>>

-------------------------------------------------------------------------------
Init ==
  /\ port = None
  /\ born = 0
  /\ slot = None
  /\ owner = [s \in Streams |-> None]
  /\ spawned = 0
  /\ open = {}
  /\ reader = [g \in Incarnations |-> [at |-> "unborn", stream |-> None]]
  /\ stop = [g \in Incarnations |-> FALSE]
  /\ worker = [g \in Incarnations |-> "unborn"]
  /\ knock = [g \in Incarnations |-> FALSE]
  /\ leaked = [g \in Incarnations |-> FALSE]
  /\ file = None
  /\ saveFaults = 0

Handler == CreatePort \/ DeletePort \/ EnsurePasst \/ TeardownPasst

Reader(g) ==
  ReaderAdopt(g) \/ ReaderRetire(g) \/ ReaderInject(g) \/ ReaderEof(g)

DropVhost(g) == DropStop(g) \/ DropConnect(g) \/ DropUnlink(g)

Worker(g) == WorkerKnocked(g) \/ WorkerClose(g)

Next ==
  \/ Handler
  \/ PasstExit
  \/ \E g \in Incarnations :
       \/ Supervise(g)
       \/ Reader(g)
       \/ ReaderRead(g)
       \/ DropVhost(g)
       \/ FrontendConnect(g)
       \/ FrontendLeave(g)
       \/ Worker(g)

\* Threads get to run and the mutex is let go of; nobody need call an RPC, send a
\* frame, connect, leave or exit.
Fairness ==
  \A g \in Incarnations :
    WF_vars(Reader(g)) /\ WF_vars(DropVhost(g)) /\ WF_vars(Worker(g))

Spec == Init /\ [][Next]_vars /\ Fairness

-------------------------------------------------------------------------------
\* Every variable holds a value of its type; a reader holds a stream only while it
\* reads.
TypeOK ==
  /\ port \in Incarnations \cup {None}
  /\ born \in 0..MaxPorts
  /\ slot \in Slots \cup {None}
  /\ owner \in [Streams -> Incarnations \cup {None}]
  /\ spawned \in 0..MaxStreams
  /\ open \subseteq Streams
  /\ reader \in [Incarnations -> Readers]
  /\ stop \in [Incarnations -> BOOLEAN]
  /\ worker \in [Incarnations -> WorkerSteps]
  /\ knock \in [Incarnations -> BOOLEAN]
  /\ leaked \in [Incarnations -> BOOLEAN]
  /\ file \in Incarnations \cup {None}
  /\ saveFaults \in Nat

\* The threads of the current port are never the ones that go: its reader does
\* not retire because an earlier port of the name was deleted, its VhostPort is
\* not dropped, and its worker goes on accepting.  And a reader that has not
\* retired has a worker to receive what it injects.
ThreadsOutliveNoPort ==
  /\ port # None => reader[port].at \notin Retiring
  /\ \A g \in 1..born :
       reader[g].at \notin Retiring => ~stop[g] /\ worker[g] # "done"

\* ensure_passt, teardown_passt, DeletePort and the pumps of all incarnations
\* together: whatever passt still runs under the name is the slot's, and while no
\* persist failed it was configured for the port that is there now.
RunningPasstIsPorts ==
  \A s \in open :
    /\ s = Live
    /\ saveFaults = 0 => port = owner[s]

\* DeletePort tears passt down before the name is free, so the reader of a new
\* port never reads what an earlier port's passt delivers.
NoInheritedStream ==
  saveFaults = 0 =>
    \A g \in 1..born : reader[g].stream # None => owner[reader[g].stream] >= g

\* spawn_passt_reader "adopts whichever passt stream the slot currently holds":
\* however often passt is replaced, the current port's reader comes to read the
\* live one, or the port or the stream goes.
LiveStreamIsRead ==
  \A g \in Incarnations, s \in Streams :
    (port = g /\ Live = s /\ s \in open)
      ~> (reader[g].stream = s \/ port # g \/ Live # s \/ s \notin open)

\* "owning port deleted: reader retires": once the name stays free and no slot is
\* left under it, every reader ends and lets go of its VhostPort.
ReadersRetire ==
  <>[](port = None /\ slot = None)
    => <>[](\A g \in 1..born : reader[g].at = "gone")

\* spawn_passt_reader "injects them into the owning port's virtqueue. Exits when
\* the port is deleted": a reader reads only what was delivered for its own port.
ReaderServesOwnPort ==
  \A g \in 1..born : reader[g].stream # None => owner[reader[g].stream] = g

===============================================================================
