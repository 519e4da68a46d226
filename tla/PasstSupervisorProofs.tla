------------------------- MODULE PasstSupervisorProofs -------------------------
(***************************************************************************)
(* One passt process per slot, as desired, and no spinning on a broken     *)
(* binary, for any configurations, process ids and delays.                 *)
(***************************************************************************)
EXTENDS PasstSupervisor, TLAPS

\* A slot without a process has counted the base delay since its last failure,
\* or will have once its retry is due.
Patient == slot # None /\ slot.live = None => calm + slot.wait >= Base

SupervisorInv == TypeOK /\ OneProcessAsDesired /\ Patient

-------------------------------------------------------------------------------
\* The doubling of restart_backoff stays a number: its shift is at most 16.
LEMMA PowerOfTwo ==
  ASSUME NEW k \in 0..16
  PROVE  2^k \in Nat /\ 2^k >= 1
<1>1. k \in {0, 1, 2, 3, 4, 5, 6, 7, 8, 9, 10, 11, 12, 13, 14, 15, 16}
  OBVIOUS
<1>2. 2^k \in {2^0, 2^1, 2^2, 2^3, 2^4, 2^5, 2^6, 2^7, 2^8, 2^9, 2^10, 2^11, 2^12,
               2^13, 2^14, 2^15, 2^16}
  BY <1>1, Zenon
<1>3. \A x \in {2^0, 2^1, 2^2, 2^3, 2^4, 2^5, 2^6, 2^7, 2^8, 2^9, 2^10, 2^11, 2^12,
                2^13, 2^14, 2^15, 2^16} : x \in Nat /\ x >= 1
  BY SMT
<1> QED
  BY <1>2, <1>3, Zenon

\* restart_backoff lies between the base and the cap, however many failures.
LEMMA BackoffBounds ==
  ASSUME NEW failures \in Nat \ {0}
  PROVE  Backoff(failures) \in Base..Cap
<1> DEFINE shift == IF failures - 1 < 16 THEN failures - 1 ELSE 16
           power == 2^shift
<1>1. shift \in 0..16
  OBVIOUS
<1>2. power \in Nat /\ power >= 1
  BY <1>1, PowerOfTwo
<1>3. Backoff(failures) = IF Base * power < Cap THEN Base * power ELSE Cap
  BY DEF Backoff
<1>4. ASSUME NEW x \in Nat, x >= 1
      PROVE  Base * x \in Nat /\ Base * x >= Base
  BY <1>4, SupervisorAssumption
<1> HIDE DEF power
<1> QED
  BY <1>2, <1>3, <1>4, SupervisorAssumption

\* A failure leaves a typed slot without a process, at least the base to wait.
LEMMA ScheduleSlot ==
  ASSUME NEW s \in Slots
  PROVE  Schedule(s) \in Slots /\ Schedule(s).live = None /\ Schedule(s).wait >= Base
<1>1. Backoff(s.failures + 1) \in Base..Cap
  BY BackoffBounds DEF Slots
<1>2. Backoff(s.failures + 1) \in 0..Cap /\ Backoff(s.failures + 1) >= Base
  BY <1>1, SupervisorAssumption
<1>3. s.desired \in Configs /\ s.failures + 1 \in Nat
  BY DEF Slots
<1> QED
  BY <1>2, <1>3 DEF Schedule, Slots

\* A spawn leaves a typed slot with its process and its configuration.
LEMMA StartedSlot ==
  ASSUME NEW s \in Slots, NEW pid \in Pids
  PROVE  /\ Started(s, pid) \in Slots
         /\ Started(s, pid).live = pid /\ Started(s, pid).desired = s.desired
<1>1. 0 \in 0..Cap /\ s.desired \in Configs
  BY SupervisorAssumption DEF Slots
<1> QED
  BY <1>1 DEF Started, Slots

\* A process id is always free: at most the slot's is taken.
LEMMA FreePidExists ==
  ASSUME TypeOK, OneProcessAsDesired
  PROVE  FreePid \in Pids
<1>1. \E pid \in Pids : /\ pid # (IF slot = None THEN None ELSE slot.live)
                        /\ \A r \in running : r.pid # pid
  BY SupervisorAssumption DEF OneProcessAsDesired
<1> QED
  BY <1>1 DEF FreePid

LEMMA InitInv == Init => SupervisorInv
  BY SupervisorAssumption DEF Init, SupervisorInv, TypeOK, OneProcessAsDesired, Patient

\* A handler asks for a configuration: the old process is stopped first.
LEMMA EnsureStep ==
  ASSUME SupervisorInv, NEW config \in Configs, EnsurePasst(config)
  PROVE  SupervisorInv'
<1> DEFINE stopped == IF slot = None THEN running ELSE Stop(running, slot.live)
           next == IF slot = None
                   THEN [desired |-> config, live |-> None, failures |-> 0, wait |-> 0]
                   ELSE [slot EXCEPT !.desired = config, !.live = None]
<1>1. stopped = {}
  BY DEF SupervisorInv, OneProcessAsDesired, Stop
<1>2. next \in Slots /\ next.desired = config
  <2>1. CASE slot = None
    BY <2>1, SupervisorAssumption DEF Slots
  <2>2. CASE slot # None
    <3>1. slot \in Slots
      BY <2>2 DEF SupervisorInv, TypeOK
    <3>2. next = [desired |-> config, live |-> None, failures |-> slot.failures,
                  wait |-> slot.wait]
      BY <2>2, <3>1 DEF Slots
    <3> QED
      BY <3>1, <3>2 DEF Slots
  <2> QED
    BY <2>1, <2>2
<1>3. FreePid \in Pids
  BY FreePidExists DEF SupervisorInv
<1>4. \/ /\ slot' = Started(next, FreePid)
         /\ running' = {[pid |-> FreePid, config |-> config]}
         /\ UNCHANGED <<exits, spawnFails, calm>>
      \/ /\ spawnFails < MaxSpawnFails /\ spawnFails' = spawnFails + 1
         /\ slot' = Schedule(next) /\ running' = {} /\ calm' = 0 /\ UNCHANGED exits
  BY <1>1 DEF EnsurePasst
<1> HIDE DEF next
<1>5. CASE /\ slot' = Started(next, FreePid)
           /\ running' = {[pid |-> FreePid, config |-> config]}
           /\ UNCHANGED <<exits, spawnFails, calm>>
  <2>1. /\ slot' \in Slots /\ slot' # None
        /\ slot'.live = FreePid /\ slot'.desired = config
    BY <1>2, <1>3, <1>5, StartedSlot, NoSlotAssumption
  <2>2. TypeOK'
    BY <1>3, <1>5, <2>1 DEF SupervisorInv, TypeOK, Processes
  <2>3. OneProcessAsDesired' /\ Patient'
    BY <1>3, <1>5, <2>1, SupervisorAssumption DEF OneProcessAsDesired, Patient
  <2> QED
    BY <2>2, <2>3 DEF SupervisorInv
<1>6. CASE /\ spawnFails < MaxSpawnFails /\ spawnFails' = spawnFails + 1
           /\ slot' = Schedule(next) /\ running' = {} /\ calm' = 0 /\ UNCHANGED exits
  <2>1. slot' \in Slots /\ slot'.wait \in Nat /\ slot'.wait >= Base
    BY <1>2, <1>6, ScheduleSlot DEF Slots
  <2>2. TypeOK' /\ OneProcessAsDesired' /\ Patient'
    BY <1>6, <2>1, SupervisorAssumption
       DEF SupervisorInv, TypeOK, OneProcessAsDesired, Patient
  <2> QED
    BY <2>2 DEF SupervisorInv
<1> QED
  BY <1>4, <1>5, <1>6

\* The pump thread respawns, or counts one more failure.
LEMMA RespawnStep ==
  ASSUME SupervisorInv, SuperviseRespawn
  PROVE  SupervisorInv' /\ calm = Base
<1>1. slot \in Slots /\ slot.live = None /\ slot.wait = 0
  BY DEF SupervisorInv, TypeOK, SuperviseRespawn, Due
<1>2. calm = Base
  BY <1>1, NoSlotAssumption, SupervisorAssumption DEF SupervisorInv, TypeOK, Patient
<1>3. running = {}
  BY <1>1, SupervisorAssumption DEF SupervisorInv, OneProcessAsDesired, TypeOK, Processes
<1>4. FreePid \in Pids
  BY FreePidExists DEF SupervisorInv
<1>5. CASE /\ slot' = Started(slot, FreePid)
           /\ running' = running \cup {[pid |-> FreePid, config |-> slot.desired]}
           /\ UNCHANGED <<exits, spawnFails, calm>>
  <2>1. /\ slot' \in Slots /\ slot' # None
        /\ slot'.live = FreePid /\ slot'.desired = slot.desired
    BY <1>1, <1>4, <1>5, StartedSlot, NoSlotAssumption
  <2>2. TypeOK'
    BY <1>1, <1>3, <1>4, <1>5, <2>1 DEF SupervisorInv, TypeOK, Processes, Slots
  <2>3. OneProcessAsDesired' /\ Patient'
    BY <1>3, <1>4, <1>5, <2>1, SupervisorAssumption DEF OneProcessAsDesired, Patient
  <2> QED
    BY <1>2, <2>2, <2>3 DEF SupervisorInv
<1>6. CASE /\ spawnFails < MaxSpawnFails /\ spawnFails' = spawnFails + 1
           /\ slot' = Schedule(slot) /\ calm' = 0 /\ UNCHANGED <<running, exits>>
  <2>1. slot' \in Slots /\ slot'.wait \in Nat /\ slot'.wait >= Base
    BY <1>1, <1>6, ScheduleSlot DEF Slots
  <2>2. TypeOK' /\ OneProcessAsDesired' /\ Patient'
    BY <1>3, <1>6, <2>1, SupervisorAssumption
       DEF SupervisorInv, TypeOK, OneProcessAsDesired, Patient
  <2> QED
    BY <1>2, <2>2 DEF SupervisorInv
<1> QED
  BY <1>5, <1>6 DEF SuperviseRespawn

\* Every step keeps the invariant.
LEMMA StepInv == SupervisorInv /\ [Next]_vars => SupervisorInv'
<1> SUFFICES ASSUME SupervisorInv, [Next]_vars PROVE SupervisorInv'
  OBVIOUS
<1>1. CASE \E config \in Configs : EnsurePasst(config)
  BY <1>1, EnsureStep
<1>2. CASE TeardownPasst
  <2>1. running' = {} /\ slot' = None
    BY <1>2 DEF SupervisorInv, OneProcessAsDesired, TeardownPasst, Stop
  <2> QED
    BY <1>2, <2>1 DEF SupervisorInv, TypeOK, OneProcessAsDesired, Patient, TeardownPasst
<1>3. CASE Exit
  BY <1>3, SupervisorAssumption DEF SupervisorInv, TypeOK, OneProcessAsDesired, Patient, Exit
<1>4. CASE SuperviseExit
  <2>1. slot \in Slots /\ running = {}
    BY <1>4 DEF SupervisorInv, TypeOK, OneProcessAsDesired, SuperviseExit, Exited
  <2>2. slot' \in Slots /\ slot'.wait \in Nat /\ slot'.wait >= Base
    BY <1>4, <2>1, ScheduleSlot DEF SuperviseExit, Slots
  <2> QED
    BY <1>4, <2>1, <2>2, SupervisorAssumption
       DEF SupervisorInv, TypeOK, OneProcessAsDesired, Patient, SuperviseExit
<1>5. CASE SuperviseRespawn
  BY <1>5, RespawnStep
<1>6. CASE Tick
  <2>1. slot \in Slots /\ slot' = [slot EXCEPT !.wait = slot.wait - 1]
    BY <1>6 DEF SupervisorInv, TypeOK, Tick
  <2>2. /\ slot' \in Slots /\ slot' # None
        /\ slot'.live = slot.live /\ slot'.desired = slot.desired
        /\ slot'.wait = slot.wait - 1
    BY <1>6, <2>1, NoSlotAssumption, SupervisorAssumption DEF Tick, Slots
  <2> QED
    BY <1>6, <2>1, <2>2, SupervisorAssumption
       DEF SupervisorInv, TypeOK, OneProcessAsDesired, Patient, Tick, Slots
<1>7. CASE UNCHANGED vars
  BY <1>7 DEF vars, SupervisorInv, TypeOK, OneProcessAsDesired, Patient
<1> QED
  BY <1>1, <1>2, <1>3, <1>4, <1>5, <1>6, <1>7 DEF Next

\* Every variable keeps its type and no delay exceeds the cap, for any number
\* of failures (restart_backoff).
THEOREM SupervisorTypeCorrect == Spec => []TypeOK
<1>1. SupervisorInv => TypeOK
  BY DEF SupervisorInv
<1> QED
  BY <1>1, InitInv, StepInv, PTL DEF Spec

\* ensure_passt, teardown_passt and supervise_passt never leave two processes,
\* one without a slot, or one with arguments the slot does not want.
THEOREM AlwaysOneProcess == Spec => []OneProcessAsDesired
<1>1. SupervisorInv => OneProcessAsDesired
  BY DEF SupervisorInv
<1> QED
  BY <1>1, InitInv, StepInv, PTL DEF Spec

\* supervise_passt never spawns sooner than the base delay after the last
\* failure it saw, whatever the handlers do to the slot meanwhile.
THEOREM SupervisionNeverSpins == Spec => NoSpin
<1>1. SupervisorInv /\ [Next]_vars => [SuperviseRespawn => calm = Base]_vars
  BY RespawnStep
<1> QED
  BY <1>1, InitInv, StepInv, PTL DEF Spec, NoSpin
===============================================================================
