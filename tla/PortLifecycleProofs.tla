------------------------- MODULE PortLifecycleProofs -------------------------
(***************************************************************************)
(* Proofs about PortLifecycle, for any number of incarnations, streams and *)
(* failing persists.                                                       *)
(***************************************************************************)
EXTENDS PortLifecycle, TLAPS

\* Incarnations are numbered in the order of creation and the port is the last.
Numbered ==
  /\ port # None => port = born
  /\ \A g \in Incarnations : (reader[g].at = "unborn") = (g > born)

\* A VhostPort is stopped only by the drop that follows its reader's return, and
\* a worker ends only when stopped.
StoppedByReader ==
  \A g \in Incarnations :
    /\ stop[g] => reader[g].at \in {"connect", "unlink", "gone"}
    /\ worker[g] = "done" => stop[g]

\* Nobody refers to a stream that was not spawned yet.
StreamsKnown ==
  /\ \A s \in open : s <= spawned
  /\ Live # None => Live <= spawned
  /\ \A g \in Incarnations : reader[g].stream # None => reader[g].stream <= spawned
  /\ \A s \in Streams : s <= spawned => owner[s] # None

\* The slot's stream was spawned for the slot's owner, and while no persist failed
\* a slot is there only together with the port it was configured for.
SlotOwned ==
  /\ Live # None => owner[Live] = slot.owner
  /\ saveFaults = 0 /\ slot # None => port = slot.owner

OpenIsLive == \A s \in open : s = Live

LifecycleInv ==
  /\ TypeOK
  /\ Numbered
  /\ StoppedByReader
  /\ StreamsKnown
  /\ SlotOwned
  /\ OpenIsLive
  /\ port # None => reader[port].at \notin Retiring
  /\ NoInheritedStream

-------------------------------------------------------------------------------
LEMMA LifecycleInit == Init => LifecycleInv
<1> SUFFICES ASSUME Init PROVE LifecycleInv
  OBVIOUS
<1>1. TypeOK
  BY LifecycleAssumption DEF Init, TypeOK, Incarnations, Streams, Readers, WorkerSteps
<1>2. Numbered
  BY LifecycleAssumption DEF Init, Numbered, Incarnations
<1>3. StoppedByReader
  BY DEF Init, StoppedByReader
<1>4. StreamsKnown /\ SlotOwned /\ OpenIsLive
  BY LifecycleAssumption DEF Init, StreamsKnown, SlotOwned, OpenIsLive, Live, Streams
<1>5. NoInheritedStream
  BY LifecycleAssumption DEF Init, NoInheritedStream
<1> QED
  BY <1>1, <1>2, <1>3, <1>4, <1>5, LifecycleAssumption DEF Init, LifecycleInv

-------------------------------------------------------------------------------
\* A fresh stream goes into the slot: every other stream is at its end, and nobody
\* has adopted the new one yet.
LEMMA SpawnedKeepsInv ==
  ASSUME LifecycleInv, NEW base \in Slots, base.live = None,
         base.owner \in Incarnations, Spawned(base, base.owner),
         saveFaults = 0 => port = base.owner,
         UNCHANGED <<control, reader, vhost, file, saveFaults>>
  PROVE  LifecycleInv'
<1> DEFINE s == spawned + 1
<1>1. s \in Streams /\ spawned' = s /\ s \notin open /\ spawned \in Nat
  BY LifecycleAssumption DEF Spawned, LifecycleInv, TypeOK, Streams, StreamsKnown
<1>2. open' = {s}
  BY <1>1 DEF Spawned, Shut, LifecycleInv, OpenIsLive
<1>3. slot' \in Slots /\ slot'.live = s /\ slot'.owner = base.owner
  BY <1>1 DEF Spawned, Slots
<1>4. /\ owner' \in [Streams -> Incarnations \cup {None}]
      /\ owner'[s] = base.owner
      /\ \A t \in Streams : t # s => owner'[t] = owner[t]
  BY <1>1 DEF Spawned, LifecycleInv, TypeOK
<1>5. TypeOK'
  BY <1>1, <1>2, <1>3, <1>4, LifecycleAssumption
     DEF LifecycleInv, TypeOK, Streams, control, vhost
<1>6. Live' = s
  BY <1>3, LifecycleAssumption DEF Live
<1>7. \A g \in Incarnations :
        reader[g].stream # None => reader[g].stream \in Streams /\ reader[g].stream < s
  BY <1>1, LifecycleAssumption
     DEF LifecycleInv, TypeOK, StreamsKnown, Readers, Streams
<1>8. StreamsKnown'
  BY <1>1, <1>2, <1>4, <1>6, <1>7, LifecycleAssumption
     DEF LifecycleInv, StreamsKnown, Streams, Incarnations
<1>9. SlotOwned' /\ OpenIsLive'
  BY <1>2, <1>3, <1>4, <1>6 DEF SlotOwned, OpenIsLive, control
<1>10. NoInheritedStream'
  <2> SUFFICES ASSUME saveFaults = 0, NEW g \in 1..born, reader[g].stream # None
               PROVE  owner'[reader[g].stream] >= g
    BY DEF NoInheritedStream, control
  <2>1. g \in Incarnations
    BY LifecycleAssumption DEF LifecycleInv, TypeOK, Incarnations
  <2>2. owner'[reader[g].stream] = owner[reader[g].stream]
    BY <1>1, <1>4, <1>7, <2>1 DEF Streams
  <2> QED
    BY <2>2 DEF LifecycleInv, NoInheritedStream
<1> QED
  BY <1>5, <1>8, <1>9, <1>10
     DEF LifecycleInv, Numbered, StoppedByReader, control, vhost

\* A reader on its way out changes where it is and nothing else.
RetiringMove(g, to) ==
  /\ reader' \in [Incarnations -> Readers]
  /\ reader'[g].at = to
  /\ \A h \in Incarnations :
       /\ h # g => reader'[h] = reader[h]
       /\ reader'[h].stream = reader[h].stream

LEMMA RetiringMoves ==
  ASSUME TypeOK, NEW g \in Incarnations, NEW to \in Retiring,
         reader[g].at \in {"look"} \cup Retiring,
         reader' = [reader EXCEPT ![g].at = to]
  PROVE  RetiringMove(g, to)
<1>1. reader[g].stream = None /\ reader[g] = [at |-> reader[g].at, stream |-> None]
  BY DEF TypeOK, Readers, Retiring
<1>2. [reader[g] EXCEPT !.at = to] = [at |-> to, stream |-> None]
  BY <1>1
<1>3. [at |-> to, stream |-> None] \in Readers
  BY DEF Readers
<1> QED
  BY <1>1, <1>2, <1>3 DEF RetiringMove, TypeOK

\* ensure_passt replaces the stream of the slot.
LEMMA EnsurePasstKeepsInv ==
  ASSUME LifecycleInv, EnsurePasst
  PROVE  LifecycleInv'
<1> DEFINE base == [owner |-> port, live |-> None,
                    mac |-> IF slot = None THEN None ELSE slot.mac]
<1>1. base \in Slots /\ base.owner = port /\ base.live = None
  BY LifecycleAssumption DEF EnsurePasst, LifecycleInv, TypeOK, Slots
<1>2. CASE Spawned(base, port)
  BY <1>1, <1>2, SpawnedKeepsInv DEF EnsurePasst, LifecycleInv, TypeOK
<1>3. CASE slot' = base /\ open' = Shut(open, Live) /\ UNCHANGED <<owner, spawned>>
  <2>1. open' = {} /\ slot' # None /\ slot'.live = None /\ slot'.owner = port
    BY <1>1, <1>3, LifecycleAssumption DEF LifecycleInv, OpenIsLive, Shut
  <2>2. TypeOK'
    BY <1>1, <1>3, <2>1 DEF EnsurePasst, LifecycleInv, TypeOK, control, vhost
  <2>3. StreamsKnown' /\ SlotOwned' /\ OpenIsLive'
    BY <1>3, <2>1 DEF EnsurePasst, LifecycleInv, StreamsKnown, SlotOwned, OpenIsLive,
       Live, control, vhost
  <2> QED
    BY <1>3, <2>2, <2>3 DEF EnsurePasst, LifecycleInv, Numbered, StoppedByReader,
       NoInheritedStream, control, vhost
<1> QED
  BY <1>2, <1>3 DEF EnsurePasst

LEMMA TeardownPasstKeepsInv ==
  ASSUME LifecycleInv, TeardownPasst
  PROVE  LifecycleInv'
<1>1. TypeOK'
  BY DEF TeardownPasst, Shut, TypeOK, LifecycleInv, control, vhost
<1>2. StreamsKnown'
  BY DEF TeardownPasst, Shut, StreamsKnown, Live, LifecycleInv
<1>3. SlotOwned'
  BY DEF TeardownPasst, Shut, SlotOwned, Live, LifecycleInv, control
<1>4. OpenIsLive'
  BY DEF TeardownPasst, Shut, OpenIsLive, Live, LifecycleInv
<1> QED
  BY <1>1, <1>2, <1>3, <1>4
     DEF TeardownPasst, Numbered, StoppedByReader, NoInheritedStream,
         LifecycleInv, control, passt, vhost

LEMMA PasstExitKeepsInv ==
  ASSUME LifecycleInv, PasstExit
  PROVE  LifecycleInv'
<1>1. TypeOK'
  BY DEF PasstExit, TypeOK, LifecycleInv, control, vhost
<1>2. StreamsKnown'
  BY DEF PasstExit, StreamsKnown, Live, LifecycleInv
<1>3. OpenIsLive'
  BY DEF PasstExit, OpenIsLive, Live, LifecycleInv
<1> QED
  BY <1>1, <1>2, <1>3
     DEF PasstExit, Numbered, StoppedByReader, SlotOwned, Live,
         NoInheritedStream, LifecycleInv, control, passt, vhost

\* supervise_passt drops an ended stream or spawns the next one.
LEMMA SuperviseKeepsInv ==
  ASSUME LifecycleInv, NEW g \in Incarnations, Supervise(g)
  PROVE  LifecycleInv'
<1>1. CASE /\ Live # None /\ Live \notin open
           /\ slot' = [slot EXCEPT !.live = None]
           /\ UNCHANGED <<owner, spawned, open>>
  <2>1. open = {}
    BY <1>1 DEF LifecycleInv, OpenIsLive
  <2>2. slot' \in Slots /\ slot'.live = None /\ slot'.owner = slot.owner
    BY <1>1 DEF Supervise, LifecycleInv, TypeOK, Slots
  <2>3. TypeOK'
    BY <1>1, <2>2 DEF Supervise, LifecycleInv, TypeOK, control, vhost
  <2>4. StreamsKnown' /\ SlotOwned' /\ OpenIsLive'
    BY <1>1, <2>1, <2>2, LifecycleAssumption DEF Supervise, LifecycleInv, StreamsKnown,
       SlotOwned, OpenIsLive, Live, control, vhost
  <2> QED
    BY <1>1, <2>3, <2>4 DEF Supervise, LifecycleInv, Numbered, StoppedByReader,
       NoInheritedStream, control, vhost
<1>2. CASE Live = None /\ Spawned(slot, slot.owner)
  <2>1. slot \in Slots /\ slot.live = None
    BY <1>2 DEF Supervise, LifecycleInv, TypeOK, Live
  <2>2. slot.owner \in Incarnations
    BY <2>1 DEF Slots
  <2>3. saveFaults = 0 => port = slot.owner
    BY DEF Supervise, LifecycleInv, SlotOwned
  <2> QED
    BY <1>2, <2>1, <2>2, <2>3, SpawnedKeepsInv DEF Supervise
<1> QED
  BY <1>1, <1>2 DEF Supervise

\* A new incarnation: all before it are numbered below.
LEMMA CreatePortKeepsInv ==
  ASSUME LifecycleInv, CreatePort
  PROVE  LifecycleInv'
<1>1. TypeOK'
  BY LifecycleAssumption DEF CreatePort, TypeOK, Incarnations, Streams, Slots,
     Readers, Retiring, WorkerSteps, LifecycleInv, control, passt, vhost
<1>2. Numbered'
  BY DEF CreatePort, Numbered, TypeOK, Incarnations, LifecycleInv
<1>3. StoppedByReader'
  BY DEF CreatePort, StoppedByReader, Numbered, TypeOK, Incarnations, LifecycleInv
<1>4. StreamsKnown'
  BY DEF CreatePort, StreamsKnown, Live, LifecycleInv, passt
<1>5. SlotOwned'
  BY LifecycleAssumption DEF CreatePort, SlotOwned, StreamsKnown, TypeOK, Slots,
     Streams, Incarnations, OpenIsLive, Live, LifecycleInv, control, passt, vhost
<1>6. (port # None => reader[port].at \notin Retiring)'
  BY DEF CreatePort, Retiring, TypeOK, LifecycleInv
<1>7. NoInheritedStream'
  BY DEF CreatePort, NoInheritedStream, TypeOK, LifecycleInv, passt
<1> QED
  BY <1>1, <1>2, <1>3, <1>4, <1>5, <1>6, <1>7
     DEF CreatePort, OpenIsLive, Live, LifecycleInv, control, passt, vhost

\* The slot goes with the port, or a failed persist is counted.
LEMMA DeletePortKeepsInv ==
  ASSUME LifecycleInv, DeletePort
  PROVE  LifecycleInv'
<1>1. /\ slot' \in Slots \cup {None} /\ open' \subseteq Streams
      /\ file' \in Incarnations \cup {None} /\ saveFaults' \in Nat
  BY DEF DeletePort, Shut, LifecycleInv, TypeOK
<1>2. TypeOK'
  BY <1>1 DEF DeletePort, Shut, TypeOK, LifecycleInv, vhost
<1>3. Numbered'
  BY DEF DeletePort, Numbered, LifecycleInv
<1>4. StreamsKnown'
  BY DEF DeletePort, Shut, StreamsKnown, Live, LifecycleInv
<1>5. SlotOwned'
  BY DEF DeletePort, Shut, SlotOwned, Live, TypeOK, LifecycleInv
<1>6. OpenIsLive'
  BY DEF DeletePort, Shut, OpenIsLive, Live, LifecycleInv
<1>7. (port # None => reader[port].at \notin Retiring)'
  BY DEF DeletePort, Retiring, LifecycleInv
<1>8. NoInheritedStream'
  BY DEF DeletePort, Shut, NoInheritedStream, TypeOK, LifecycleInv
<1> QED
  BY <1>1, <1>2, <1>3, <1>4, <1>5, <1>6, <1>7, <1>8
     DEF DeletePort, StoppedByReader, LifecycleInv, control, passt, vhost

LEMMA ReaderAdoptKeepsInv ==
  ASSUME LifecycleInv, NEW g \in Incarnations, ReaderAdopt(g)
  PROVE  LifecycleInv'
<1>1. [at |-> "read", stream |-> Live] \in Readers
  BY LifecycleAssumption DEF ReaderAdopt, LifecycleInv, TypeOK, Slots, Readers, Live
<1>2. TypeOK'
  BY <1>1 DEF ReaderAdopt, TypeOK, LifecycleInv, control, passt, vhost
<1>3. Numbered'
  BY DEF ReaderAdopt, Numbered, LifecycleInv, control
<1>4. StoppedByReader'
  BY DEF ReaderAdopt, StoppedByReader, LifecycleInv, vhost
<1>5. StreamsKnown'
  BY DEF ReaderAdopt, StreamsKnown, Live, LifecycleInv, passt
<1>6. (port # None => reader[port].at \notin Retiring)'
  BY DEF ReaderAdopt, Retiring, LifecycleInv, control
<1>7. NoInheritedStream'
  BY LifecycleAssumption DEF ReaderAdopt, NoInheritedStream, Numbered, TypeOK,
     StreamsKnown, SlotOwned, Readers, Streams, Incarnations, Slots, Live,
     LifecycleInv, control, passt, vhost
<1> QED
  BY <1>1, <1>2, <1>3, <1>4, <1>5, <1>6, <1>7
     DEF ReaderAdopt, SlotOwned, Live, OpenIsLive, LifecycleInv, control,
         passt, vhost

\* The reader of a name without a port: it is not the current port's.
LEMMA ReaderRetireKeepsInv ==
  ASSUME LifecycleInv, NEW g \in Incarnations, ReaderRetire(g)
  PROVE  LifecycleInv'
<1>1. RetiringMove(g, "stop")
  BY RetiringMoves DEF ReaderRetire, LifecycleInv, Retiring
<1>2. TypeOK'
  BY <1>1 DEF ReaderRetire, RetiringMove, LifecycleInv, TypeOK, control, passt, vhost
<1>3. Numbered' /\ (port # None => reader[port].at \notin Retiring)'
  BY <1>1, LifecycleAssumption DEF ReaderRetire, RetiringMove, MayRetire,
     LifecycleInv, TypeOK,
     Numbered, Retiring, control, passt, vhost
<1>4. StoppedByReader'
  BY <1>1 DEF ReaderRetire, RetiringMove, LifecycleInv, TypeOK, StoppedByReader, vhost
<1>5. StreamsKnown' /\ SlotOwned' /\ OpenIsLive'
  BY <1>1 DEF ReaderRetire, RetiringMove, LifecycleInv, StreamsKnown, SlotOwned,
     OpenIsLive,
     Live, control, passt
<1>6. NoInheritedStream'
  BY <1>1, LifecycleAssumption DEF ReaderRetire, RetiringMove, LifecycleInv, TypeOK,
     NoInheritedStream, Incarnations, control, passt
<1> QED
  BY <1>2, <1>3, <1>4, <1>5, <1>6 DEF LifecycleInv

LEMMA ReaderReadKeepsInv ==
  ASSUME LifecycleInv, NEW g \in Incarnations, ReaderRead(g)
  PROVE  LifecycleInv'
<1>1. TypeOK'
  BY DEF ReaderRead, TypeOK, Readers, LifecycleInv, control, passt, vhost
<1>2. Numbered'
  BY DEF ReaderRead, Numbered, LifecycleInv, control
<1>3. StoppedByReader'
  BY DEF ReaderRead, StoppedByReader, LifecycleInv, vhost
<1>4. StreamsKnown'
  BY DEF ReaderRead, StreamsKnown, Live, LifecycleInv, passt
<1>5. (port # None => reader[port].at \notin Retiring)'
  BY DEF ReaderRead, Retiring, LifecycleInv, control
<1>6. NoInheritedStream'
  BY DEF ReaderRead, NoInheritedStream, LifecycleInv, control, passt
<1> QED
  BY <1>1, <1>2, <1>3, <1>4, <1>5, <1>6
     DEF ReaderRead, SlotOwned, Live, OpenIsLive, LifecycleInv, control,
         passt, vhost

LEMMA ReaderInjectKeepsInv ==
  ASSUME LifecycleInv, NEW g \in Incarnations, ReaderInject(g)
  PROVE  LifecycleInv'
<1>1. slot' \in Slots \cup {None} /\ Live' = Live /\ (slot' = None) = (slot = None)
  BY LifecycleAssumption DEF ReaderInject, LifecycleInv, TypeOK, Slots, Readers, Live,
     Retiring
<1>2. slot # None => slot'.owner = slot.owner
  BY DEF ReaderInject, LifecycleInv, TypeOK, Slots
<1>3. [reader EXCEPT ![g].at = "read"] \in [Incarnations -> Readers]
  <2>1. reader[g] = [at |-> "frame", stream |-> reader[g].stream]
        /\ reader[g].stream \in Streams
    BY DEF ReaderInject, LifecycleInv, TypeOK, Readers, Retiring
  <2>2. [reader[g] EXCEPT !.at = "read"] = [at |-> "read", stream |-> reader[g].stream]
    BY <2>1
  <2>3. [reader[g] EXCEPT !.at = "read"] \in Readers
    BY <2>1, <2>2 DEF Readers
  <2> QED
    BY <2>3 DEF LifecycleInv, TypeOK
<1>4. TypeOK'
  BY <1>1, <1>3 DEF ReaderInject, TypeOK, LifecycleInv, control, vhost
<1>5. Numbered'
  BY <1>1, <1>2 DEF ReaderInject, Numbered, LifecycleInv, control
<1>6. StoppedByReader'
  BY <1>1, <1>2 DEF ReaderInject, StoppedByReader, LifecycleInv, vhost
<1>7. StreamsKnown'
  BY <1>1, <1>2 DEF ReaderInject, StreamsKnown, LifecycleInv
<1>8. SlotOwned'
  BY <1>1, <1>2 DEF ReaderInject, SlotOwned, LifecycleInv, control
<1>9. OpenIsLive'
  BY <1>1, <1>2 DEF ReaderInject, OpenIsLive, LifecycleInv
<1>10. (port # None => reader[port].at \notin Retiring)'
  BY <1>1, <1>2 DEF ReaderInject, Retiring, LifecycleInv, control
<1>11. NoInheritedStream'
  BY <1>1, <1>2 DEF ReaderInject, NoInheritedStream, LifecycleInv, control
<1> QED
  BY <1>1, <1>2, <1>3, <1>4, <1>5, <1>6, <1>7, <1>8, <1>9, <1>10, <1>11
     DEF LifecycleInv

LEMMA ReaderEofKeepsInv ==
  ASSUME LifecycleInv, NEW g \in Incarnations, ReaderEof(g)
  PROVE  LifecycleInv'
<1>1. TypeOK'
  BY DEF ReaderEof, TypeOK, Readers, LifecycleInv, control, passt, vhost
<1>2. Numbered'
  BY DEF ReaderEof, Numbered, LifecycleInv, control
<1>3. StoppedByReader'
  BY DEF ReaderEof, StoppedByReader, LifecycleInv, vhost
<1>4. StreamsKnown'
  BY DEF ReaderEof, StreamsKnown, Live, LifecycleInv, passt
<1>5. (port # None => reader[port].at \notin Retiring)'
  BY DEF ReaderEof, Retiring, LifecycleInv, control
<1>6. NoInheritedStream'
  BY DEF ReaderEof, NoInheritedStream, LifecycleInv, control, passt
<1> QED
  BY <1>1, <1>2, <1>3, <1>4, <1>5, <1>6
     DEF ReaderEof, SlotOwned, Live, OpenIsLive, LifecycleInv, control, passt,
         vhost

LEMMA DropStopKeepsInv ==
  ASSUME LifecycleInv, NEW g \in Incarnations, DropStop(g)
  PROVE  LifecycleInv'
<1>1. RetiringMove(g, "connect")
  BY RetiringMoves DEF DropStop, LifecycleInv, Retiring
<1>2. TypeOK'
  BY <1>1 DEF DropStop, RetiringMove, LifecycleInv, TypeOK, control, passt, vhost
<1>3. Numbered' /\ (port # None => reader[port].at \notin Retiring)'
  BY <1>1, LifecycleAssumption DEF DropStop, RetiringMove, LifecycleInv, TypeOK,
     Numbered, Retiring, control, passt, vhost
<1>4. StoppedByReader'
  BY <1>1 DEF DropStop, RetiringMove, LifecycleInv, TypeOK, StoppedByReader, vhost
<1>5. StreamsKnown' /\ SlotOwned' /\ OpenIsLive'
  BY <1>1 DEF DropStop, RetiringMove, LifecycleInv, StreamsKnown, SlotOwned, OpenIsLive,
     Live, control, passt
<1>6. NoInheritedStream'
  BY <1>1, LifecycleAssumption DEF DropStop, RetiringMove, LifecycleInv, TypeOK,
     NoInheritedStream, Incarnations, control, passt
<1> QED
  BY <1>2, <1>3, <1>4, <1>5, <1>6 DEF LifecycleInv

LEMMA DropConnectKeepsInv ==
  ASSUME LifecycleInv, NEW g \in Incarnations, DropConnect(g)
  PROVE  LifecycleInv'
<1>1. RetiringMove(g, "unlink")
  BY RetiringMoves DEF DropConnect, LifecycleInv, Retiring
<1>2. TypeOK'
  BY <1>1 DEF DropConnect, RetiringMove, LifecycleInv, TypeOK, control, passt, vhost
<1>3. Numbered' /\ (port # None => reader[port].at \notin Retiring)'
  BY <1>1, LifecycleAssumption DEF DropConnect, RetiringMove, LifecycleInv, TypeOK,
     Numbered, Retiring, control, passt, vhost
<1>4. StoppedByReader'
  BY <1>1 DEF DropConnect, RetiringMove, LifecycleInv, TypeOK, StoppedByReader, vhost
<1>5. StreamsKnown' /\ SlotOwned' /\ OpenIsLive'
  BY <1>1 DEF DropConnect, RetiringMove, LifecycleInv, StreamsKnown, SlotOwned,
     OpenIsLive,
     Live, control, passt
<1>6. NoInheritedStream'
  BY <1>1, LifecycleAssumption DEF DropConnect, RetiringMove, LifecycleInv, TypeOK,
     NoInheritedStream, Incarnations, control, passt
<1> QED
  BY <1>2, <1>3, <1>4, <1>5, <1>6 DEF LifecycleInv

LEMMA DropUnlinkKeepsInv ==
  ASSUME LifecycleInv, NEW g \in Incarnations, DropUnlink(g)
  PROVE  LifecycleInv'
<1>1. RetiringMove(g, "gone")
  BY RetiringMoves DEF DropUnlink, LifecycleInv, Retiring
<1>2. TypeOK'
  BY <1>1 DEF DropUnlink, RetiringMove, LifecycleInv, TypeOK, control, passt, vhost
<1>3. Numbered' /\ (port # None => reader[port].at \notin Retiring)'
  BY <1>1, LifecycleAssumption DEF DropUnlink, RetiringMove, LifecycleInv, TypeOK,
     Numbered, Retiring, control, passt, vhost
<1>4. StoppedByReader'
  BY <1>1 DEF DropUnlink, RetiringMove, LifecycleInv, TypeOK, StoppedByReader, vhost
<1>5. StreamsKnown' /\ SlotOwned' /\ OpenIsLive'
  BY <1>1 DEF DropUnlink, RetiringMove, LifecycleInv, StreamsKnown, SlotOwned,
     OpenIsLive,
     Live, control, passt
<1>6. NoInheritedStream'
  BY <1>1, LifecycleAssumption DEF DropUnlink, RetiringMove, LifecycleInv, TypeOK,
     NoInheritedStream, Incarnations, control, passt
<1> QED
  BY <1>2, <1>3, <1>4, <1>5, <1>6 DEF LifecycleInv

LEMMA FrontendConnectKeepsInv ==
  ASSUME LifecycleInv, NEW g \in Incarnations, FrontendConnect(g)
  PROVE  LifecycleInv'
<1>1. TypeOK'
  BY DEF FrontendConnect, TypeOK, WorkerSteps, LifecycleInv, control, passt
<1>2. StoppedByReader'
  BY DEF FrontendConnect, StoppedByReader, LifecycleInv
<1> QED
  BY <1>1, <1>2
     DEF FrontendConnect, Numbered, StreamsKnown, Live, SlotOwned, OpenIsLive,
         NoInheritedStream, LifecycleInv, control, passt, vhost

LEMMA WorkerKnockedKeepsInv ==
  ASSUME LifecycleInv, NEW g \in Incarnations, WorkerKnocked(g)
  PROVE  LifecycleInv'
<1>1. TypeOK'
  BY DEF WorkerKnocked, TypeOK, WorkerSteps, LifecycleInv, control, passt
<1>2. StoppedByReader'
  BY DEF WorkerKnocked, StoppedByReader, LifecycleInv
<1> QED
  BY <1>1, <1>2
     DEF WorkerKnocked, Numbered, StreamsKnown, Live, SlotOwned, OpenIsLive,
         NoInheritedStream, LifecycleInv, control, passt, vhost

LEMMA FrontendLeaveKeepsInv ==
  ASSUME LifecycleInv, NEW g \in Incarnations, FrontendLeave(g)
  PROVE  LifecycleInv'
<1>1. TypeOK'
  BY DEF FrontendLeave, TypeOK, WorkerSteps, LifecycleInv, control, passt
<1>2. StoppedByReader'
  BY DEF FrontendLeave, StoppedByReader, LifecycleInv
<1> QED
  BY <1>1, <1>2
     DEF FrontendLeave, Numbered, StreamsKnown, Live, SlotOwned, OpenIsLive,
         NoInheritedStream, LifecycleInv, control, passt, vhost

LEMMA WorkerCloseKeepsInv ==
  ASSUME LifecycleInv, NEW g \in Incarnations, WorkerClose(g)
  PROVE  LifecycleInv'
<1>1. TypeOK'
  BY DEF WorkerClose, TypeOK, WorkerSteps, LifecycleInv, control, passt
<1>2. StoppedByReader'
  BY DEF WorkerClose, StoppedByReader, LifecycleInv
<1> QED
  BY <1>1, <1>2
     DEF WorkerClose, Numbered, StreamsKnown, Live, SlotOwned, OpenIsLive,
         NoInheritedStream, LifecycleInv, control, passt, vhost

-------------------------------------------------------------------------------
LEMMA LifecycleStep == LifecycleInv /\ [Next]_vars => LifecycleInv'
<1> SUFFICES ASSUME LifecycleInv, [Next]_vars PROVE LifecycleInv'
  OBVIOUS
<1>1. CASE Handler
  BY <1>1, CreatePortKeepsInv, DeletePortKeepsInv, EnsurePasstKeepsInv,
     TeardownPasstKeepsInv DEF Handler
<1>2. CASE PasstExit
  BY <1>2, PasstExitKeepsInv
<1>3. ASSUME NEW g \in Incarnations, Supervise(g) \/ Reader(g) \/ ReaderRead(g)
      PROVE  LifecycleInv'
  BY <1>3, SuperviseKeepsInv, ReaderAdoptKeepsInv, ReaderRetireKeepsInv,
     ReaderInjectKeepsInv, ReaderEofKeepsInv, ReaderReadKeepsInv DEF Reader
<1>4. ASSUME NEW g \in Incarnations,
             DropVhost(g) \/ FrontendConnect(g) \/ FrontendLeave(g) \/ Worker(g)
      PROVE  LifecycleInv'
  BY <1>4, DropStopKeepsInv, DropConnectKeepsInv, DropUnlinkKeepsInv,
     FrontendConnectKeepsInv, FrontendLeaveKeepsInv, WorkerKnockedKeepsInv,
     WorkerCloseKeepsInv DEF DropVhost, Worker
<1>5. CASE UNCHANGED vars
  BY <1>5 DEF LifecycleInv, TypeOK, Numbered, StoppedByReader, StreamsKnown, SlotOwned,
     OpenIsLive, NoInheritedStream, Live, vars, control, passt, vhost
<1> QED
  BY <1>1, <1>2, <1>3, <1>4, <1>5 DEF Next

LEMMA LifecycleInvariant == Spec => []LifecycleInv
<1> QED
  BY LifecycleInit, LifecycleStep, PTL DEF Spec

\* The handlers, threads and drops of PortLifecycle keep every variable's type.
THEOREM LifecycleTypeCorrect == Spec => []TypeOK
<1>1. LifecycleInv => TypeOK
  BY DEF LifecycleInv
<1> QED
  BY <1>1, LifecycleInvariant, PTL

\* DeletePort and CreatePort of a name, in any order with the threads of earlier
\* incarnations, never end a thread of the port that is there now, and a reader
\* that has not retired has a worker to receive its frames.
THEOREM PortsKeepTheirThreads == Spec => []ThreadsOutliveNoPort
<1>1. LifecycleInv => ThreadsOutliveNoPort
  <2> SUFFICES ASSUME LifecycleInv PROVE ThreadsOutliveNoPort
    OBVIOUS
  <2>1. \A g \in 1..born : g \in Incarnations
    BY LifecycleAssumption DEF LifecycleInv, TypeOK, Incarnations
  <2> QED
    BY <2>1 DEF LifecycleInv, StoppedByReader, ThreadsOutliveNoPort, Retiring
<1> QED
  BY <1>1, LifecycleInvariant, PTL

\* Under one port name at most the slot's passt runs, and while no persist failed
\* it is the one configured for the current port.
THEOREM OnlyThePortsPasstRuns == Spec => []RunningPasstIsPorts
<1>1. LifecycleInv => RunningPasstIsPorts
  BY LifecycleAssumption DEF LifecycleInv, RunningPasstIsPorts, OpenIsLive, SlotOwned,
     Live, TypeOK, Streams
<1> QED
  BY <1>1, LifecycleInvariant, PTL

\* While no persist failed, no reader reads what the passt of an earlier port of
\* its name delivers.
THEOREM StreamsAreNotInherited == Spec => []NoInheritedStream
<1>1. LifecycleInv => NoInheritedStream
  BY DEF LifecycleInv
<1> QED
  BY <1>1, LifecycleInvariant, PTL

===============================================================================
