------------------------------ MODULE VhostRings ------------------------------
(***************************************************************************)
(* One vhost-user port's data path: port.rs between the switch's channels  *)
(* and the guest's split virtqueues.  The guest posts and reaps while the  *)
(* ring's worker fills or drains chains, and the frontend may disconnect   *)
(* and come back to a ring with chains in flight.  Ring indices wrap at    *)
(* IdxSpace (2^16 in the code).  A frame is a number, a chain is one       *)
(* descriptor and what the worker finds behind it.                         *)
(*                                                                         *)
(* RX and TX have a worker, a kick eventfd and a Queue each and share only *)
(* the session, so a behaviour follows one of them: dir is chosen in Init. *)
(*                                                                         *)
(* A session that ends is forgotten, not dropped: its RX worker lives on   *)
(* and still waits on the notifier that all sessions share.                *)
(*                                                                         *)
(* The virtqueue library (external) restores next_avail from the           *)
(* frontend's SET_VRING_BASE and next_used from the guest's used index.    *)
(***************************************************************************)
EXTENDS Integers, Sequences, FiniteSets

CONSTANTS Size,         \* QUEUE_SIZE
          IdxSpace,     \* number of ring index values
          MaxPosts,     \* bound on chains the guest posts
          MaxFrames,    \* bound on frames the switch injects
          MaxSessions,  \* bound on frontend sessions
          Bases,        \* what a frontend may send as SET_VRING_BASE
          Ends,         \* how sessions end: rings stopped first, or abruptly
          Successors,   \* bound: a session may follow one that ended abruptly
          QuietResume   \* the guest posts nothing into a ring in recovery

ASSUME RingsAssumption ==
  /\ Size \in Nat \ {0}
  /\ IdxSpace \in Nat /\ IdxSpace % Size = 0 /\ IdxSpace > Size
  /\ MaxPosts \in Nat /\ MaxFrames \in Nat /\ MaxSessions \in Nat
  /\ Bases \subseteq {"used", "avail"}
  /\ Ends \subseteq {"stopped", "abrupt"}
  /\ {Successors, QuietResume} \subseteq BOOLEAN

RX == 0
TX == 1

Idx    == 0..(IdxSpace - 1)
Slots  == 0..(Size - 1)
Frames == 1..(MaxFrames + MaxPosts)

\* What the worker finds behind a head: room for the frame or a whole
\* transmission; too little for a frame or a vnet header; the other direction.
Kinds == {"fit", "small", "foreign"}

VARIABLES
  dir,        \* the ring followed
  base,       \* the index the frontend sends as SET_VRING_BASE
  avail,      \* the guest's avail index
  heads,      \* the avail ring's slots
  used,       \* the used index the guest sees
  done,       \* the used ring's slots: a head, and the frame carried or 0
  seen,       \* how far the guest has reaped
  owed,       \* heads the guest has given to the device
  chain,      \* per head: its kind and, on TX, its frame
  posts,      \* chains posted so far
  offered,    \* history: the frames of whole transmissions among them
  nextAvail,  \* the session's Queue.next_avail
  nextUsed,   \* the session's Queue.next_used
  worker,     \* where the ring's worker is
  batch,      \* chains served and not yet marked used
  kick,       \* the driver's kick eventfd
  notify,     \* the injection eventfd shared by all sessions
  mem,        \* NetBackend.mem is Some
  session,    \* "none", "up" (connected) or "ready" (rings set up)
  sessions,   \* sessions so far
  ghosts,     \* per ended session: what its forgotten RX worker holds
  queue,      \* ToVm frames in the channel
  injected,   \* frames the switch has injected
  dropped,    \* frames dropped for want of room in the buffer
  got,        \* frames the guest has reaped
  sent,       \* FromVm frames handed to the switch
  woken       \* history: since the ring was set up an event was raised, and no
              \* forgotten worker has taken the notifier since

guest   == <<avail, heads, seen, owed, chain, posts, offered, got>>
device  == <<nextAvail, nextUsed, worker, batch, used, done>>
events  == <<kick, notify, woken>>
link    == <<mem, session, sessions, ghosts>>
traffic == <<queue, injected, dropped, sent>>
fixed   == <<dir, base>>
vars    == <<fixed, guest, device, events, link, traffic>>

-------------------------------------------------------------------------------
(* Ring arithmetic *)

\* Fault variant of Plus: the index does not wrap.
PlusNoWrap(i, n) == i + n

Plus(i, n) == (i + n) % IdxSpace      \* wrapping_add

Minus(i, j) == (i - j) % IdxSpace     \* wrapping_sub

\* The heads from index i up to the guest's avail index.
HeadsFrom(i) == [k \in 1..Minus(avail, i) |-> heads[Plus(i, k - 1) % Size]]

-------------------------------------------------------------------------------
(* service_rx and service_tx *)

\* Fault variant of RxStart: the in-flight count is taken without wrapping.
RxStartNoWrap ==
  IF Minus(avail, nextAvail) = 0 /\ avail > nextUsed THEN nextUsed ELSE nextAvail

\* Where service_rx starts on a Queue.  Reconnect recovery: when nothing is new and
\* no more is in flight than the ring holds, from the oldest chain in flight.
RxStartFrom(next_avail, next_used) ==
  LET pending == Minus(avail, next_used)
  IN  IF Minus(avail, next_avail) = 0 /\ pending # 0 /\ pending <= Size
      THEN next_used ELSE next_avail

RxStart == RxStartFrom(nextAvail, nextUsed)

Start == IF dir = RX THEN RxStart ELSE nextAvail

\* Queue::iter refuses an avail index further ahead than the ring is long.
Iterates(i) == Minus(avail, i) <= Size

\* Positions of a set up to k, and the i-th position of a set.
Rank(S, k) == Cardinality({j \in S : j <= k})
Nth(S, i)  == CHOOSE k \in S : Rank(S, k) = i

\* The chains of these kinds, and those that take a frame from the channel.
Marked(hs, kinds) == {k \in DOMAIN hs : chain[hs[k]].kind \in kinds}
Takers(hs)        == Marked(hs, {"fit", "small"})

\* n chains are served: all before the first that finds the channel dry, which
\* go_to_previous_position leaves posted.
RxServes(hs, n) ==
  /\ Rank(Takers(hs), n) <= Len(queue)
  /\ n < Len(hs) => Rank(Takers(hs), n + 1) > Len(queue)

\* A chain is filled with the next frame, or completed empty: a frame too large for
\* its buffer is dropped, a read-only head takes none.
Frame(hs, k) == queue[Rank(Takers(hs), k)]

Filled(hs, n) ==
  [k \in 1..n |-> [head |-> hs[k],
                   frame |-> IF chain[hs[k]].kind = "fit" THEN Frame(hs, k) ELSE 0]]

\* Fault variant of Drain: the frames that were served stay in the channel.
DrainPeeks(hs, n) == UNCHANGED <<dropped, queue, sent>>

\* What serving n chains takes out of the channel.
Drain(hs, n) ==
  /\ dropped' = dropped \cup {Frame(hs, k) : k \in {j \in 1..n : chain[hs[j]].kind = "small"}}
  /\ queue' = SubSeq(queue, Rank(Takers(hs), n) + 1, Len(queue))
  /\ UNCHANGED sent

ServiceRx ==
  LET hs == HeadsFrom(Start)
  IN  \E n \in 0..Len(hs) :
        /\ RxServes(hs, n)
        /\ nextAvail' = Plus(Start, n)
        /\ batch' = Filled(hs, n)
        /\ Drain(hs, n)

\* Every available chain; the frames go to the switch before any is marked used.
ServiceTx ==
  LET hs   == HeadsFrom(Start)
      fits == Marked(hs, {"fit"})
  IN  /\ nextAvail' = avail
      /\ batch' = [k \in 1..Len(hs) |-> [head |-> hs[k],
                     frame |-> IF k \in fits THEN chain[hs[k]].frame ELSE 0]]
      /\ sent' = sent \o [i \in 1..Cardinality(fits) |-> chain[hs[Nth(fits, i)]].frame]
      /\ UNCHANGED <<queue, dropped>>

-------------------------------------------------------------------------------
(* The worker: handle_event in three steps, the guest running in between *)

\* The worker wakes for a kick, or (RX) for the notifier, which it drains first.
TakeEvent ==
  /\ worker = "idle"
  /\ session # "none"
  /\ \/ kick /\ kick' = FALSE /\ UNCHANGED notify
     \/ dir = RX /\ notify /\ notify' = FALSE /\ UNCHANGED kick
  /\ worker' = "serve"
  /\ UNCHANGED <<fixed, guest, nextAvail, nextUsed, batch, used, done, woken, link, traffic>>

\* Without guest memory, before the rings are set up, or when the avail index makes
\* no sense, nothing is served.
Serves == mem /\ session = "ready" /\ Iterates(Start)

Service ==
  /\ worker = "serve"
  /\ IF Serves
     THEN /\ worker' = "complete"
          /\ IF dir = RX THEN ServiceRx ELSE ServiceTx
     ELSE /\ worker' = "idle"
          /\ UNCHANGED <<nextAvail, batch, queue, dropped, sent>>
  /\ UNCHANGED <<fixed, guest, nextUsed, used, done, events, link, injected>>

\* Fault variant of WithBatch: the batch is written one slot late.
WithBatchLate(b, i) ==
  [s \in Slots |->
     LET ks == {k \in DOMAIN b : Plus(i, k) % Size = s}
     IN  IF ks = {} THEN done[s] ELSE b[CHOOSE k \in ks : TRUE]]

\* The used ring with batch b written from index i on (add_used).
WithBatch(b, i) ==
  [s \in Slots |->
     LET ks == {k \in DOMAIN b : Plus(i, k - 1) % Size = s}
     IN  IF ks = {} THEN done[s] ELSE b[CHOOSE k \in ks : TRUE]]

\* Fault variant of CompleteUsed: the notifier is drained once the batch is done.
CompleteUsedAndDrain ==
  /\ worker = "complete"
  /\ done' = WithBatch(batch, nextUsed)
  /\ nextUsed' = Plus(nextUsed, Len(batch))
  /\ used' = IF batch = << >> THEN used ELSE nextUsed'
  /\ batch' = << >>
  /\ worker' = "idle"
  /\ notify' = FALSE
  /\ UNCHANGED <<fixed, guest, nextAvail, kick, woken, link, traffic>>

\* complete_used: add_used for each chain of the batch, if any, then the call.
CompleteUsed ==
  /\ worker = "complete"
  /\ done' = WithBatch(batch, nextUsed)
  /\ nextUsed' = Plus(nextUsed, Len(batch))
  /\ used' = IF batch = << >> THEN used ELSE nextUsed'
  /\ batch' = << >>
  /\ worker' = "idle"
  /\ UNCHANGED <<fixed, guest, nextAvail, events, link, traffic>>

\* The RX worker of an ended session: the notifier may wake it before the present
\* session's worker, and it drains it.  While its own Queue is still ready, it serves
\* the ring from the indices it holds; a stopped one serves nothing.
GhostEvent(g) ==
  LET q     == ghosts[g]
      start == RxStartFrom(q.nextAvail, q.nextUsed)
      hs    == HeadsFrom(start)
  IN  /\ dir = RX /\ notify
      /\ notify' = FALSE
      /\ woken' = FALSE
      /\ \/ /\ q.ready /\ mem /\ Iterates(start)
            /\ \E n \in 0..Len(hs) :
                 /\ RxServes(hs, n)
                 /\ done' = WithBatch(Filled(hs, n), q.nextUsed)
                 /\ used' = IF n = 0 THEN used ELSE Plus(q.nextUsed, n)
                 /\ ghosts' = [ghosts EXCEPT ![g].nextAvail = Plus(start, n),
                                             ![g].nextUsed = Plus(q.nextUsed, n)]
                 /\ Drain(hs, n)
         \/ /\ ~(q.ready /\ mem /\ Iterates(start))
            /\ UNCHANGED <<done, used, ghosts, dropped, queue, sent>>
      /\ UNCHANGED <<fixed, guest, nextAvail, nextUsed, worker, batch, kick, mem,
                     session, sessions, injected>>

-------------------------------------------------------------------------------
(* The switch and the guest *)

\* inject_to: send ToVm on the channel, then kick_rx.
Inject ==
  /\ dir = RX
  /\ injected < MaxFrames
  /\ injected' = injected + 1
  /\ queue' = Append(queue, injected + 1)
  /\ notify' = TRUE
  /\ woken' = (woken \/ session = "ready")
  /\ UNCHANGED <<fixed, guest, device, kick, link, dropped, sent>>

\* The ring holds chains in flight that the next service_rx, of the session's worker
\* or of one an abrupt end has left, would rewind to.
InRecovery ==
  \/ session = "ready" /\ worker # "complete" /\ Start # nextAvail
  \/ \E g \in DOMAIN ghosts :
       LET q == ghosts[g]
       IN  q.ready /\ RxStartFrom(q.nextAvail, q.nextUsed) # q.nextAvail

\* The driver posts a free descriptor and kicks.
Post(h, kind) ==
  /\ posts < MaxPosts
  /\ h \notin owed
  /\ ~(QuietResume /\ InRecovery)
  /\ posts' = posts + 1
  /\ offered' = IF dir = TX /\ kind = "fit" THEN offered \cup {posts + 1} ELSE offered
  /\ chain' = [chain EXCEPT ![h] = [kind |-> kind, frame |-> IF dir = TX THEN posts + 1 ELSE 0]]
  /\ heads' = [heads EXCEPT ![avail % Size] = h]
  /\ avail' = Plus(avail, 1)
  /\ owed' = owed \cup {h}
  /\ kick' = (session # "none")
  /\ woken' = (woken \/ session = "ready")
  /\ UNCHANGED <<fixed, seen, got, device, notify, link, traffic>>

\* The driver takes back the next used chain.
Reap ==
  /\ seen # used
  /\ seen' = Plus(seen, 1)
  /\ LET c == done[seen % Size]
     IN  /\ owed' = owed \ {c.head}
         /\ got' = IF dir = RX /\ c.frame # 0 THEN Append(got, c.frame) ELSE got
  /\ UNCHANGED <<fixed, avail, heads, chain, posts, offered, device, events, link, traffic>>

-------------------------------------------------------------------------------
(* The frontend's session *)

\* No session began after one whose RX worker still has a ready Queue: an abrupt end
\* leaves such a worker, and a session after it shares its ring with it.
Alone == \A g \in DOMAIN ghosts : ghosts[g].ready => g = sessions

\* A session starts; the shared notifier is registered with its RX worker.
Connect ==
  /\ session = "none"
  /\ Successors \/ \A g \in DOMAIN ghosts : ~ghosts[g].ready
  /\ sessions < MaxSessions
  /\ session' = "up"
  /\ sessions' = sessions + 1
  /\ UNCHANGED <<fixed, guest, device, events, mem, ghosts, traffic>>

\* SET_MEM_TABLE; NetBackend.mem is kept for later sessions.
UpdateMemory ==
  /\ session = "up"
  /\ mem' = TRUE
  /\ UNCHANGED <<fixed, guest, device, events, session, sessions, ghosts, traffic>>

\* SET_VRING_NUM to SET_VRING_ENABLE.
SetVrings ==
  /\ session = "up"
  /\ mem
  /\ session' = "ready"
  /\ nextUsed' = used
  /\ nextAvail' = IF base = "used" THEN used ELSE avail
  /\ woken' = FALSE
  /\ UNCHANGED <<fixed, guest, worker, batch, used, done, kick, notify, mem, sessions, ghosts,
                 traffic>>

\* What a stopped Queue's indices are no longer matters.
Stopped == [ready |-> FALSE, nextAvail |-> 0, nextUsed |-> 0]

\* The session ends between two batches; its kick eventfds go with it, its RX worker
\* stays.  A frontend in order stops its rings first (GET_VRING_BASE); an abrupt end
\* leaves the Queue ready.  A TX worker is never woken again.
Disconnect(end) ==
  /\ session # "none"
  /\ worker = "idle"
  /\ session' = "none"
  /\ kick' = FALSE
  /\ ghosts' = Append(ghosts,
       IF end = "abrupt" /\ session = "ready" /\ dir = RX
       THEN [ready |-> TRUE, nextAvail |-> nextAvail, nextUsed |-> nextUsed]
       ELSE Stopped)
  /\ UNCHANGED <<fixed, guest, device, notify, woken, mem, sessions, traffic>>

Init ==
  /\ dir \in {RX, TX} /\ base \in Bases
  /\ avail = 0 /\ used = 0 /\ seen = 0 /\ nextAvail = 0 /\ nextUsed = 0
  /\ heads = [s \in Slots |-> 0]
  /\ done = [s \in Slots |-> [head |-> 0, frame |-> 0]]
  /\ owed = {} /\ posts = 0 /\ offered = {}
  /\ chain = [h \in Slots |-> [kind |-> "fit", frame |-> 0]]
  /\ worker = "idle" /\ batch = << >>
  /\ kick = FALSE /\ notify = FALSE /\ woken = FALSE
  /\ mem = FALSE /\ session = "none" /\ sessions = 0 /\ ghosts = << >>
  /\ queue = << >> /\ injected = 0 /\ dropped = {} /\ got = << >> /\ sent = << >>

Worker == TakeEvent \/ Service \/ CompleteUsed

Next ==
  \/ Worker
  \/ \E h \in Slots, kind \in Kinds : Post(h, kind)
  \/ Reap
  \/ Inject
  \/ Connect
  \/ UpdateMemory
  \/ SetVrings
  \/ \E end \in Ends : Disconnect(end)
  \/ \E g \in DOMAIN ghosts : GhostEvent(g)

\* The worker's epoll loop runs while its session does.  Which of the workers waiting
\* on the notifier sees it first is up to the scheduler.
Spec == Init /\ [][Next]_vars /\ WF_vars(Worker)

-------------------------------------------------------------------------------
Completions == [head : Slots, frame : Frames \cup {0}]

\* Every variable holds a value of its type, and a batch fits the ring.
TypeOK ==
  /\ dir \in {RX, TX} /\ base \in Bases
  /\ {avail, used, seen, nextAvail, nextUsed} \subseteq Idx
  /\ heads \in [Slots -> Slots]
  /\ done \in [Slots -> Completions]
  /\ owed \subseteq Slots
  /\ chain \in [Slots -> [kind : Kinds, frame : Frames \cup {0}]]
  /\ worker \in {"idle", "serve", "complete"}
  /\ batch \in Seq(Completions) /\ Len(batch) <= Size
  /\ {kick, notify, woken, mem} \subseteq BOOLEAN
  /\ session \in {"none", "up", "ready"} /\ sessions \in 0..MaxSessions
  /\ ghosts \in Seq([ready : BOOLEAN, nextAvail : Idx, nextUsed : Idx])
  /\ posts \in 0..MaxPosts /\ injected \in 0..MaxFrames
  /\ {queue, got, sent} \subseteq Seq(Frames)
  /\ dropped \subseteq Frames /\ offered \subseteq Frames

\* The completions the guest has not reaped yet, in order, then those the worker
\* is about to write.
Unreaped == [k \in 1..Minus(used, seen) |-> done[Plus(seen, k - 1) % Size]] \o batch

Increasing(s) == \A i, j \in DOMAIN s : i < j => s[i] < s[j]

\* service_rx and service_tx with complete_used: every chain given back is one the
\* guest had handed over and not had back, through index wrap-around, recovery
\* and reconnects, and by the worker an abrupt end leaves, up to the next session.  A
\* buffer is never written once its driver may have reused it.
CompletionsOwed ==
  Alone =>
    /\ \A k \in DOMAIN Unreaped : Unreaped[k].head \in owed
    /\ \A j, k \in DOMAIN Unreaped : Unreaped[j].head = Unreaped[k].head => j = k

\* service_rx's recovery comment (port.rs): the RX chains posted before a
\* disconnect "are then in-flight", and next_avail is rewound "so those pending
\* chains are delivered on the resumed session".  When no kick waits, every
\* buffer the guest handed over has been given back or will be offered to the
\* next frames.
ChainsAccounted ==
  Alone /\ dir = RX /\ session = "ready" /\ worker = "idle" /\ ~kick =>
    LET hs == HeadsFrom(Start)
    IN  owed = {Unreaped[k].head : k \in DOMAIN Unreaped} \cup {hs[k] : k \in DOMAIN hs}

\* The frames on their way to the guest, in order, 0 for a chain without one.
Underway == got \o [k \in DOMAIN Unreaped |-> Unreaped[k].frame] \o queue

\* The frames of whole transmissions that service_tx has yet to come to.
Untransmitted ==
  LET hs == HeadsFrom(nextAvail)
  IN  {chain[hs[k]].frame : k \in Marked(hs, {"fit"})}

\* No frame is lost, doubled or overtaken on its way to the guest: those reaped,
\* those written and those still in the channel are all that was injected, in
\* order, less those dropped for a short buffer; also when a session ends abruptly,
\* up to the next one.  What the guest transmits reaches
\* the switch in order and once; and when frontends resume at the used index none
\* of it is lost either, whenever a session ends.
FramesInOrder ==
  /\ dir = RX /\ Alone =>
       /\ \A i, j \in DOMAIN Underway :
            i < j /\ Underway[i] # 0 /\ Underway[j] # 0 => Underway[i] < Underway[j]
       /\ {Underway[k] : k \in DOMAIN Underway} \ {0} = (1..injected) \ dropped
  /\ Increasing(sent)
  /\ dir = TX /\ base = "used" =>
       offered = {sent[k] : k \in DOMAIN sent} \cup Untransmitted

HasWork == HeadsFrom(Start) # << >> /\ (dir = RX => queue # << >>)

\* handle_event drains the coalescing notifier before it looks at the channel, so
\* frames and chains that can be matched do not stay unmatched once the guest kicked,
\* nor once an event was raised, unless a forgotten worker takes the notifier: that
\* is the one way to lose a wake-up.
WorkIsDone ==
  LET waits == Alone /\ session = "ready" /\ HasWork
  IN  /\ (waits /\ kick) ~> ~waits
      /\ (waits /\ woken) ~> ~(waits /\ woken)

===============================================================================
