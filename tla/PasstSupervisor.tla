---------------------------- MODULE PasstSupervisor ----------------------------
(***************************************************************************)
(* The life of one port's passt: the PasstSlot of dataplane.rs, the child  *)
(* process of passt.rs, and the three that act on them under Inner's       *)
(* mutex: RPC handlers (ensure_passt, teardown_passt), the port's pump     *)
(* thread (supervise_passt, once per tick) and passt itself, which may     *)
(* exit at any time.  Time is counted in supervision ticks.                *)
(***************************************************************************)
EXTENDS Integers, FiniteSets

CONSTANTS Configs,        \* PasstConfigs the handlers may ask for
          Pids,           \* process ids; the kernel hands out an unused one
          Base,           \* PASST_BACKOFF_BASE in ticks
          Cap,            \* PASST_BACKOFF_CAP in ticks
          None,
          MaxExits,       \* bound on unexpected passt exits
          MaxSpawnFails   \* bound on failing spawns

ASSUME SupervisorAssumption ==
  /\ Base \in Nat \ {0}
  /\ Cap \in Nat
  /\ Base <= Cap
  /\ None \notin Pids /\ \E p, q \in Pids : p # q
  /\ MaxExits \in Nat
  /\ MaxSpawnFails \in Nat

VARIABLES
  slot,        \* Inner.passts[port]: None, or desired/live/failures/wait
  running,     \* the passt processes of this port that are running
  exits,       \* unexpected exits so far
  spawnFails,  \* failed spawns so far
  calm         \* history: ticks since supervision last saw a failure, up to Base

vars == <<slot, running, exits, spawnFails, calm>>

\* live is the slot's process id; wait is what is left until next_retry, 0 when
\* next_retry is None or due.
Slots == [desired : Configs, live : Pids \cup {None}, failures : Nat, wait : 0..Cap]

Processes == [pid : Pids, config : Configs]

ASSUME NoSlotAssumption == None \notin Slots

-------------------------------------------------------------------------------
\* Fault variant of Backoff: the doubling is not capped.
BackoffUncapped(failures) ==
  Base * 2^(IF failures - 1 < 16 THEN failures - 1 ELSE 16)

\* restart_backoff: the base doubled per failure after the first, at most 16
\* times, and never above the cap.
Backoff(failures) ==
  LET shift == IF failures - 1 < 16 THEN failures - 1 ELSE 16
      delay == Base * 2^shift
  IN  IF delay < Cap THEN delay ELSE Cap

\* Fault variant of Schedule: next_retry is not set.
ScheduleAtOnce(s) ==
  [desired |-> s.desired, live |-> None, failures |-> s.failures + 1, wait |-> 0]

\* A failure: one more, and the next spawn after the backoff.
Schedule(s) ==
  [desired |-> s.desired, live |-> None, failures |-> s.failures + 1,
   wait |-> Backoff(s.failures + 1)]

\* A successful spawn resets the failures.
Started(s, pid) ==
  [desired |-> s.desired, live |-> pid, failures |-> 0, wait |-> 0]

FreePid == CHOOSE pid \in Pids :
             pid # (IF slot = None THEN None ELSE slot.live)
               /\ \A r \in running : r.pid # pid

\* Fault variant of Stop: the old process is left running.
StopForgotten(procs, pid) == procs

\* shutdown + terminate: SIGTERM, and SIGKILL after the grace.
Stop(procs, pid) == {r \in procs : r.pid # pid}

-------------------------------------------------------------------------------
\* ensure_passt from AttachPort, PublishPort or UnpublishPort.  A process that
\* has exited but was not noticed yet still counts as live.
EnsurePasst(config) ==
  LET fresh  == [desired |-> config, live |-> None, failures |-> 0, wait |-> 0]
      stopped == IF slot = None THEN running ELSE Stop(running, slot.live)
      next   == IF slot = None THEN fresh
                ELSE [slot EXCEPT !.desired = config, !.live = None]
  IN  /\ ~(slot # None /\ slot.live # None /\ slot.desired = config)
      /\ \/ /\ slot' = Started(next, FreePid)
            /\ running' = stopped \cup {[pid |-> FreePid, config |-> config]}
            /\ UNCHANGED <<exits, spawnFails, calm>>
         \/ /\ spawnFails < MaxSpawnFails
            /\ spawnFails' = spawnFails + 1
            /\ slot' = Schedule(next)
            /\ running' = stopped
            /\ calm' = 0
            /\ UNCHANGED exits

\* teardown_passt from DetachPort, DeletePort or the last UnpublishPort.
TeardownPasst ==
  /\ slot # None
  /\ running' = Stop(running, slot.live)
  /\ slot' = None
  /\ UNCHANGED <<exits, spawnFails, calm>>

\* passt exits by itself: the daemon's slot still holds it.
Exit ==
  /\ exits < MaxExits
  /\ \E r \in running : running' = running \ {r}
  /\ exits' = exits + 1
  /\ UNCHANGED <<slot, spawnFails, calm>>

Exited == slot.live # None /\ \A r \in running : r.pid # slot.live

\* supervise_passt notices an exit and schedules the restart; the backoff is
\* never zero, so the same call does not respawn.
SuperviseExit ==
  /\ slot # None
  /\ Exited
  /\ slot' = Schedule(slot)
  /\ calm' = 0
  /\ UNCHANGED <<running, exits, spawnFails>>

\* Fault variant of Due: supervision gives up after the second failure.
DueAtMostTwice == slot.live = None /\ slot.wait = 0 /\ slot.failures < 2

Due == slot.live = None /\ slot.wait = 0

\* supervise_passt respawns a slot without a process once its retry is due.
SuperviseRespawn ==
  /\ slot # None
  /\ Due
  /\ \/ /\ slot' = Started(slot, FreePid)
        /\ running' = running \cup {[pid |-> FreePid, config |-> slot.desired]}
        /\ UNCHANGED <<exits, spawnFails, calm>>
     \/ /\ spawnFails < MaxSpawnFails
        /\ spawnFails' = spawnFails + 1
        /\ slot' = Schedule(slot)
        /\ calm' = 0
        /\ UNCHANGED <<running, exits>>

\* A tick of the clock brings the retry nearer.
Tick ==
  /\ slot # None
  /\ slot.wait > 0
  /\ slot' = [slot EXCEPT !.wait = slot.wait - 1]
  /\ calm' = IF calm < Base THEN calm + 1 ELSE calm
  /\ UNCHANGED <<running, exits, spawnFails>>

-------------------------------------------------------------------------------
Init ==
  /\ slot = None
  /\ running = {}
  /\ exits = 0
  /\ spawnFails = 0
  /\ calm = Base

Next ==
  \/ \E config \in Configs : EnsurePasst(config)
  \/ TeardownPasst
  \/ Exit
  \/ SuperviseExit
  \/ SuperviseRespawn
  \/ Tick

\* The pump thread wakes at least once per tick and takes the mutex, and time
\* passes; nobody need call an RPC and passt need not exit.
Fairness == WF_vars(SuperviseExit) /\ WF_vars(SuperviseRespawn) /\ WF_vars(Tick)

Spec == Init /\ [][Next]_vars /\ Fairness

-------------------------------------------------------------------------------
\* Every variable holds a value of its type, and no backoff exceeds the cap.
TypeOK ==
  /\ slot \in Slots \cup {None}
  /\ running \subseteq Processes
  /\ exits \in 0..MaxExits
  /\ spawnFails \in 0..MaxSpawnFails
  /\ calm \in 0..Base

\* ensure_passt, teardown_passt and supervise_passt between them never leave two
\* passt processes for one port, one that no slot owns, or one whose arguments
\* are not the slot's desired configuration.
OneProcessAsDesired ==
  \A r \in running : slot # None /\ slot.live = r.pid /\ slot.desired = r.config

\* "so a broken binary cannot spin the daemon": supervision never tries a spawn
\* sooner than the base delay after the last failure it saw.
NoSpin == [][SuperviseRespawn => calm = Base]_vars

\* restart on exit (REQ-008): whenever the port should have a passt, either it
\* gets one running its desired configuration or the slot is torn down.
PasstComesBack ==
  [](slot # None =>
       <>(slot = None \/ \E r \in running : r.pid = slot.live /\ r.config = slot.desired))

===============================================================================
