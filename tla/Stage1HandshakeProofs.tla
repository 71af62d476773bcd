----------------------- MODULE Stage1HandshakeProofs -----------------------
(***************************************************************************)
(* Proofs about Stage1Handshake, for any set of devices and any number of  *)
(* polls: the two status words tell each side the truth about the other.   *)
(***************************************************************************)
EXTENDS Stage1Handshake, TLAPS

-----------------------------------------------------------------------------
(* The inductive invariant.                                                *)

(* The guest's worker between its last look at a device that has not       *)
(* failed and its report: only here can devices be registered.             *)
Unfolding == {"write", "exec", "ready", "poll"}
Bound == Unfolding \cup {"register", "fail", "unregister"}

(* The host's side: the guest is told what main knows, it is told to       *)
(* terminate only by main, and only when the stage1 thread is gone.        *)
HostInv ==
    /\ lock = device_status
    /\ mpc = "start" => gpc = "entry" /\ ipc = "none" /\ lock = "Initializing"
    /\ s1 = "run" => mpc \in {"start", "spawn", "wait", "recv", "join1", "done"}
    /\ device_status = "Terminating" =>
         mpc \in {"check", "join", "cleanup", "done"} /\ s1 = "exited"
    /\ terminated = "ok" => driver_status = "Terminating"

(* The guest's side: what the worker has seen of the device still holds,   *)
(* or the host is terminating.                                             *)
SeenInv ==
    /\ gpc \in {"claim", "recheck"} => device_status # "Initializing"
    /\ gpc \in Bound => device_status \in {"Ready", "Terminating"}
    /\ gpc = "unregister" => device_status = "Terminating"

(* What it has registered and reported, by where it is. *)
WorkerInv ==
    /\ gpc \in Unfolding => registered = Devices
    /\ gpc \notin Bound => registered = {}
    /\ driver_status = "Ready" => gpc \in {"poll", "unregister"}
    /\ driver_status = "Error" => gpc \in {"epilogue", "done"}
    /\ driver_status = "Terminating" =>
         gpc \in {"epilogue", "done"} /\ device_status = "Terminating"
    /\ gpc = "sleep" => retries # MaxRetries
    /\ gpc \in {"entry", "check"} => retries # MaxRetries

Inv == TypeOK /\ HostInv /\ SeenInv /\ WorkerInv

-----------------------------------------------------------------------------
(* The invariant holds when devices.start() begins. *)
LEMMA InvInit == Init => Inv
<1> SUFFICES ASSUME Init PROVE Inv
  OBVIOUS
<1>1. chan \in BOOLEAN /\ stop \in BOOLEAN /\ loaded \in BOOLEAN
  BY DEF Init
<1>2. TypeOK
  BY <1>1, RetriesAssumption DEF Init, TypeOK, DeviceState, MainSteps, MmioSteps, GuestSteps
<1>3. HostInv /\ SeenInv /\ WorkerInv
  BY RetriesAssumption DEF Init, HostInv, SeenInv, WorkerInv, Unfolding, Bound
<1> QED
  BY <1>2, <1>3 DEF Inv

(* Every step keeps the types; the polls are counted up to their bound. *)
LEMMA TypeStep == Inv /\ [Next]_vars => TypeOK'
<1> SUFFICES ASSUME Inv, [Next]_vars PROVE TypeOK'
  OBVIOUS
<1> USE RetriesAssumption DEF TypeOK, DeviceState, MainSteps, MmioSteps, GuestSteps
<1>1. TypeOK
  BY DEF Inv
<1>2. CASE MainNext \/ MainStartFails \/ MainSpawnFails
  <2>1. chan' \in BOOLEAN /\ stop' \in BOOLEAN /\ loaded' \in BOOLEAN
    BY <1>1, <1>2 DEF MainNext, MainStart, MainSpawned, MainStartFails, MainSpawnFails,
       MainWait, MainTerminate, MainCheck, MainJoin, MainCleanup
  <2>2. CASE MainStart \/ MainSpawned \/ MainStartFails \/ MainSpawnFails
    <3>1. /\ device_status' \in DeviceState \ {"Undefined"}
          /\ lock' \in DeviceState \ {"Undefined"}
      BY <1>1, <2>2 DEF MainStart, MainSpawned, MainStartFails, MainSpawnFails, Notify
    <3>2. /\ mpc' \in MainSteps /\ ipc' \in MmioSteps
          /\ UNCHANGED <<mode, driver_status, guestVars, s1, terminated>>
      BY <1>1, <2>2 DEF MainStart, MainSpawned, MainStartFails, MainSpawnFails, MainKeeps
    <3> QED
      BY <1>1, <2>1, <3>1, <3>2 DEF guestVars
  <2>3. CASE MainWait \/ MainTerminate \/ MainCheck \/ MainJoin \/ MainCleanup
    BY <1>1, <2>1, <2>3 DEF MainWait, MainTerminate, MainCheck, MainJoin, MainCleanup,
       MainKeeps, guestVars
  <2> QED
    BY <1>2, <2>2, <2>3 DEF MainNext
<1>3. CASE Stage1Check \/ MmioNext \/ Signal
  <2>1. chan' \in BOOLEAN /\ stop' \in BOOLEAN /\ loaded' \in BOOLEAN
    BY <1>1, <1>3 DEF Stage1Check, MmioNext, MmioStart, MmioStop, MmioFails, MmioReport,
       Leaves, Signal, OthersKeep
  <2>2. CASE Stage1Check \/ Signal
    BY <1>1, <2>1, <2>2 DEF Stage1Check, Signal, OthersKeep, guestVars
  <2>3. CASE MmioNext
    <3>1. /\ device_status' \in DeviceState \ {"Undefined"}
          /\ lock' \in DeviceState \ {"Undefined"}
      BY <1>1, <2>3 DEF MmioNext, MmioStart, MmioStop, MmioFails, MmioReport, Notify
    <3>2. ipc' \in MmioSteps
      BY <2>3 DEF MmioNext, MmioStart, MmioStop, MmioFails, MmioReport, Leaves
    <3>3. UNCHANGED <<mode, driver_status, guestVars, mpc, terminated, s1>>
      BY <2>3, Zenon DEF MmioNext, MmioStart, MmioStop, MmioFails, MmioReport, OthersKeep
    <3> QED
      BY <1>1, <2>1, <3>1, <3>2, <3>3 DEF guestVars
  <2> QED
    BY <1>3, <2>2, <2>3
<1>4. CASE GuestNext
  <2>1. CASE GuestSleep
    <3>1. retries + 1 \in 0 .. MaxRetries
      BY <1>1, <2>1 DEF Inv, WorkerInv, GuestSleep
    <3> QED
      BY <1>1, <2>1, <3>1 DEF GuestSleep, GuestTo, hostVars
  <2>2. CASE GuestRegister \/ GuestUnregister
    BY <1>1, <2>2 DEF GuestRegister, GuestUnregister, GuestTo, hostVars
  <2>3. CASE GuestEntry \/ GuestCheck \/ GuestClaim \/ GuestRecheck \/ GuestWrite
             \/ GuestExec \/ GuestReady \/ GuestPoll \/ GuestEpilogue
    BY <1>1, <2>3 DEF GuestEntry, GuestCheck, GuestClaim, GuestRecheck, GuestWrite,
       GuestExec, GuestReady, GuestPoll, GuestEpilogue, GuestTo, hostVars
  <2> QED
    BY <1>4, <2>1, <2>2, <2>3 DEF GuestNext
<1>5. CASE UNCHANGED vars
  BY <1>1, <1>5 DEF vars, hostVars, guestVars
<1> QED
  BY <1>2, <1>3, <1>4, <1>5 DEF Next

(* A step of main: it reports to the guest before it waits for it. *)
LEMMA MainKeepsInv ==
    Inv /\ (MainNext \/ MainStartFails \/ MainSpawnFails) => HostInv' /\ SeenInv' /\ WorkerInv'
<1> SUFFICES ASSUME Inv, MainNext \/ MainStartFails \/ MainSpawnFails
             PROVE  HostInv' /\ SeenInv' /\ WorkerInv'
  OBVIOUS
<1> USE DEF Inv, HostInv, SeenInv, WorkerInv, MainKeeps, guestVars, Bound, Unfolding
<1>1. CASE MainStart \/ MainSpawned \/ MainWait \/ MainTerminate
  BY <1>1 DEF MainStart, MainSpawned, MainWait, MainTerminate, TypeOK, Notify
<1>2. CASE MainCheck \/ MainJoin \/ MainCleanup
  BY <1>2 DEF MainCheck, MainJoin, MainCleanup
<1>3. CASE MainStartFails \/ MainSpawnFails
  BY <1>3 DEF MainStartFails, MainSpawnFails, Notify
<1> QED
  BY <1>1, <1>2, <1>3 DEF MainNext

(* A step of another host thread: its report reaches the guest only if it  *)
(* is the first.                                                           *)
LEMMA OthersKeepInv ==
    Inv /\ (Stage1Check \/ MmioNext \/ Signal) =>
        HostInv' /\ SeenInv' /\ WorkerInv'
<1> SUFFICES ASSUME Inv, Stage1Check \/ MmioNext \/ Signal
             PROVE  HostInv' /\ SeenInv' /\ WorkerInv'
  OBVIOUS
<1> USE DEF Inv, HostInv, SeenInv, WorkerInv, OthersKeep, guestVars, Bound, Unfolding
<1>1. CASE Stage1Check \/ Signal
  BY <1>1 DEF Stage1Check, Signal
<1>2. CASE MmioNext
  <2>1. /\ UNCHANGED <<driver_status, guestVars, mpc, terminated, loaded, s1>>
        /\ ipc # "none" /\ ipc' # "none"
    BY <1>2, Zenon DEF MmioNext, MmioStart, MmioStop, MmioFails, MmioReport, Leaves
  <2>2. \/ UNCHANGED <<lock, device_status>>
        \/ lock = "Initializing" /\ lock' \in {"Ready", "Error"} /\ device_status' = lock'
    BY <1>2, Zenon DEF MmioNext, MmioStart, MmioStop, MmioFails, MmioReport, Notify
  <2>3. HostInv'
    BY <2>1, <2>2
  <2>4. SeenInv'
    BY <2>1, <2>2
  <2>5. WorkerInv'
    BY <2>1, <2>2
  <2> QED
    BY <2>3, <2>4, <2>5
<1> QED
  BY <1>1, <1>2

(* A step of the guest, which runs only while main has not stopped it. *)
LEMMA GuestKeepsInv == Inv /\ GuestNext => HostInv' /\ SeenInv' /\ WorkerInv'
<1> SUFFICES ASSUME Inv, GuestNext PROVE HostInv' /\ SeenInv' /\ WorkerInv'
  OBVIOUS
<1> USE RetriesAssumption
    DEF Inv, TypeOK, HostInv, SeenInv, WorkerInv, GuestTo, hostVars, Bound, Unfolding
<1>0. mpc # "start"
  BY DEF GuestNext, GuestRuns
<1>1. CASE GuestEntry \/ GuestCheck \/ GuestSleep
  BY <1>0, <1>1 DEF GuestEntry, GuestCheck, GuestSleep
<1>2. CASE GuestClaim \/ GuestRecheck
  BY <1>0, <1>2 DEF GuestClaim, GuestRecheck, DeviceState
<1>3. CASE GuestRegister \/ GuestWrite \/ GuestExec \/ GuestReady
  BY <1>0, <1>3 DEF GuestRegister, GuestWrite, GuestExec, GuestReady
<1>4. CASE GuestUnregister \/ GuestPoll \/ GuestEpilogue
  BY <1>0, <1>4 DEF GuestUnregister, GuestPoll, GuestEpilogue
<1> QED
  BY <1>1, <1>2, <1>3, <1>4 DEF GuestNext

(* Every step preserves the invariant. *)
LEMMA InvStep == Inv /\ [Next]_vars => Inv'
<1> SUFFICES ASSUME Inv, [Next]_vars PROVE Inv'
  OBVIOUS
<1>1. CASE UNCHANGED vars
  BY <1>1 DEF Inv, TypeOK, HostInv, SeenInv, WorkerInv, vars, hostVars, guestVars
<1> QED
  BY <1>1, TypeStep, MainKeepsInv, OthersKeepInv, GuestKeepsInv DEF Inv, Next

-----------------------------------------------------------------------------
(* Theorems.                                                               *)

(* The inductive invariant holds in every reachable state. *)
THEOREM Invariance == Spec => []Inv
  BY InvInit, InvStep, PTL DEF Spec

(* The variables keep their types; the guest never polls more often than   *)
(* spawn_stage2 allows.                                                    *)
THEOREM TypeCorrect == Spec => []TypeOK
<1>1. Inv => TypeOK
  BY DEF Inv
<1> QED
  BY <1>1, Invariance, PTL

(* A terminate() that succeeds leaves no driver on a device and no work    *)
(* for the guest's worker but its return (DriverNotifier::terminate).      *)
THEOREM TerminationIsQuiet == Spec => []TerminateMeansQuiet
<1>1. Inv => TerminateMeansQuiet
  BY DEF Inv, HostInv, WorkerInv, TerminateMeansQuiet, Bound, Unfolding
<1> QED
  BY <1>1, Invariance, PTL

(* The guest's reports are true (spawn_stage2 in stage1/src/lib.rs). *)
THEOREM StatusIsHonest == Spec => []DriverStatusHonest
<1>1. Inv => DriverStatusHonest
  BY DEF Inv, SeenInv, WorkerInv, DriverStatusHonest, Bound, Unfolding
<1> QED
  BY <1>1, Invariance, PTL

(* The stage1 thread never finds the driver terminating (stage1_thread). *)
THEOREM TerminationIsExpected == Spec => []NoUnexpectedTermination
<1>1. Inv => NoUnexpectedTermination
  BY DEF Inv, HostInv, WorkerInv, NoUnexpectedTermination
<1> QED
  BY <1>1, Invariance, PTL

(* Drivers are bound only to a device that is ready, or about to go        *)
(* (run_stage2 after the second look at device_status).                    *)
THEOREM NoEarlyDrivers == Spec => []DriversNeedDevice
<1>1. Inv => DriversNeedDevice
  BY DEF Inv, SeenInv, WorkerInv, DriversNeedDevice
<1> QED
  BY <1>1, Invariance, PTL
=============================================================================
