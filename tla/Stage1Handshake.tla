-------------------------- MODULE Stage1Handshake --------------------------
(***************************************************************************)
(* The handshake between vmsh and the code it loads into the guest kernel. *)
(*                                                                         *)
(* Two words of the loaded binary carry it: device_status is written by    *)
(* the host (DriverNotifier) and read by the guest, driver_status the      *)
(* other way round.  On the host the main thread waits for the device,     *)
(* then for a message, and terminates the driver before it takes the       *)
(* loaded code out of the guest; the stage1 thread watches driver_status   *)
(* until the driver is up; the mmio thread serves the device.  In the      *)
(* guest one work item (stage2_worker) registers the virtio devices,       *)
(* starts stage2, and unregisters the devices when told to.                *)
(*                                                                         *)
(* The model starts where the vcpu's registers point to the loaded code    *)
(* and devices.start() begins.  How the mmio thread gets hold of the       *)
(* hypervisor, and how giving it up can block, is module Attach.           *)
(***************************************************************************)
EXTENDS Naturals, FiniteSets

CONSTANTS
    Devices,     \* the virtio devices whose addresses the host passes
    MaxRetries,  \* how often the guest polls device_status (20 in the code)
    StartMayFail \* may devices.start() fail to create a thread?

ASSUME DevicesAssumption == IsFiniteSet(Devices) /\ Devices # {}
ASSUME RetriesAssumption == MaxRetries \in Nat \ {0}
ASSUME StartAssumption == StartMayFail \in BOOLEAN

VARIABLES
    mode,                          \* --mmio: "wrap" or "ioregion"
    device_status, driver_status,  \* the shared words
    lock,                          \* DriverNotifier.lock
    mpc, s1, ipc,                  \* main, stage1 and mmio threads
    chan, stop,                    \* message for main; should_stop
    terminated,                    \* result of DriverNotifier::terminate
    loaded,                        \* the stage1 memory is in the guest
    gpc, retries, registered       \* the guest's worker

hostVars == <<mode, lock, mpc, s1, ipc, chan, stop, terminated, loaded>>
guestVars == <<gpc, retries, registered>>
vars == <<device_status, driver_status, hostVars, guestVars>>

DeviceState == {"Undefined", "Initializing", "Ready", "Terminating", "Error"}
MainSteps == {"start", "spawn", "wait", "recv", "join1", "terminate", "check",
              "join", "cleanup", "done"}
MmioSteps == {"none", "adopt", "serve", "report", "ended", "silent", "stuck"}
GuestSteps == {"entry", "check", "sleep", "claim", "recheck", "register",
               "write", "exec", "ready", "fail", "poll", "unregister",
               "epilogue", "done"}

TypeOK ==
    /\ mode \in {"wrap", "ioregion"}
    /\ device_status \in DeviceState \ {"Undefined"}
    /\ driver_status \in DeviceState
    /\ lock \in DeviceState \ {"Undefined"}
    /\ mpc \in MainSteps
    /\ s1 \in {"run", "exited"}
    /\ ipc \in MmioSteps
    /\ chan \in BOOLEAN /\ stop \in BOOLEAN /\ loaded \in BOOLEAN
    /\ terminated \in {"no", "ok", "err"}
    /\ gpc \in GuestSteps
    /\ retries \in 0 .. MaxRetries
    /\ registered \subseteq Devices

(* write_stage1_args leaves driver_status at zero. *)
Init ==
    /\ mode \in {"wrap", "ioregion"}
    /\ device_status = "Initializing" /\ driver_status = "Undefined"
    /\ lock = "Initializing"
    /\ mpc = "start" /\ s1 = "run" /\ ipc = "none"
    /\ chan = FALSE /\ stop = FALSE
    /\ terminated = "no"
    /\ loaded = TRUE
    /\ gpc = "entry" /\ retries = 0 /\ registered = {}

-----------------------------------------------------------------------------
(* DriverNotifier                                                          *)

(* notify: the first report wins, and only it reaches the guest.  It waits *)
(* for the mutex, which terminate() keeps while it polls the driver.       *)
Notify(state) ==
    /\ mpc # "check"
    /\ IF lock = "Initializing"
       THEN lock' = state /\ device_status' = state
       ELSE UNCHANGED <<lock, device_status>>

-----------------------------------------------------------------------------
(* main                                                                    *)

MainKeeps == UNCHANGED <<mode, driver_status, guestVars, s1>>

(* devices.start(): it hands the hypervisor to the mmio thread it starts,  *)
(* or lets the hypervisor go on and reports before the ioregion handlers   *)
(* are there.                                                              *)
MainStart ==
    /\ mpc = "start"
    /\ \/ /\ mode = "wrap"
          /\ mpc' = "wait" /\ ipc' = "adopt"
          /\ UNCHANGED <<lock, device_status>>
       \/ /\ mode = "ioregion"
          /\ Notify("Ready")
          /\ mpc' = "spawn" /\ UNCHANGED ipc
    /\ UNCHANGED <<chan, stop, terminated, loaded>>
    /\ MainKeeps

MainSpawned ==
    /\ mpc = "spawn"
    /\ mpc' = "wait" /\ ipc' = "serve"
    /\ UNCHANGED <<device_status, lock, chan, stop, terminated, loaded>>
    /\ MainKeeps

(* devices.start() fails: the DriverNotifier is dropped, then stage1.  Its *)
(* memory is unmapped only if the tracee had not been given up yet.        *)
MainStartFails ==
    /\ mpc = "start" /\ StartMayFail
    /\ Notify("Error")
    /\ loaded' \in IF mode = "wrap" THEN BOOLEAN ELSE {FALSE}
    /\ mpc' = "done"
    /\ UNCHANGED <<ipc, chan, stop, terminated>>
    /\ MainKeeps

(* An ioregion handler cannot be created: the tracee has been given up,    *)
(* and the dropped DriverNotifier leaves Ready as it is.                   *)
MainSpawnFails ==
    /\ mpc = "spawn" /\ StartMayFail
    /\ mpc' = "done"
    /\ UNCHANGED <<device_status, lock, ipc, chan, stop, terminated, loaded>>
    /\ MainKeeps

(* Mutant: the stage1 thread is not joined before terminate(). *)
MainWaitNoJoin ==
    /\ \/ mpc = "wait" /\ lock # "Initializing" /\ mpc' = "recv" /\ UNCHANGED chan
       \/ mpc = "recv" /\ chan /\ mpc' = "terminate" /\ chan' = FALSE
    /\ UNCHANGED <<device_status, lock, ipc, stop, terminated, loaded>>
    /\ MainKeeps

(* wait(), recv() and the join of the stage1 thread. *)
MainWait ==
    /\ \/ mpc = "wait" /\ lock # "Initializing" /\ mpc' = "recv" /\ UNCHANGED chan
       \/ mpc = "recv" /\ chan /\ mpc' = "join1" /\ chan' = FALSE
       \/ mpc = "join1" /\ s1 = "exited" /\ mpc' = "terminate" /\ UNCHANGED chan
    /\ UNCHANGED <<device_status, lock, ipc, stop, terminated, loaded>>
    /\ MainKeeps

(* terminate(): tell the guest, ... *)
MainTerminate ==
    /\ mpc = "terminate"
    /\ lock' = "Terminating" /\ device_status' = "Terminating"
    /\ mpc' = "check"
    /\ UNCHANGED <<ipc, chan, stop, terminated, loaded>>
    /\ MainKeeps

(* Mutant: a driver that never came up is waited for as well. *)
MainCheckPatient ==
    /\ mpc = "check"
    /\ driver_status = "Terminating"
    /\ terminated' = "ok"
    /\ stop' = TRUE
    /\ mpc' = "join"
    /\ UNCHANGED <<device_status, lock, ipc, chan, loaded>>
    /\ MainKeeps

(* ... and read driver_status until it is Terminating, or an error. *)
MainCheck ==
    /\ mpc = "check"
    /\ driver_status # "Ready"
    /\ terminated' = IF driver_status = "Terminating" THEN "ok" ELSE "err"
    /\ stop' = TRUE
    /\ mpc' = "join"
    /\ UNCHANGED <<device_status, lock, ipc, chan, loaded>>
    /\ MainKeeps

MainJoin ==
    /\ mpc = "join" /\ ipc \in {"ended", "silent"}
    /\ mpc' = "cleanup"
    /\ UNCHANGED <<device_status, lock, ipc, chan, stop, terminated, loaded>>
    /\ MainKeeps

(* With the hypervisor stopped again: drop(stage1), ..., resume. *)
MainCleanup ==
    /\ mpc = "cleanup"
    /\ loaded' = FALSE
    /\ mpc' = "done"
    /\ UNCHANGED <<device_status, lock, ipc, chan, stop, terminated>>
    /\ MainKeeps

MainNext ==
    \/ MainStart \/ MainSpawned \/ MainWait \/ MainTerminate \/ MainCheck \/ MainJoin \/ MainCleanup

-----------------------------------------------------------------------------
(* The other host threads                                                  *)

OthersKeep == UNCHANGED <<mode, driver_status, guestVars, mpc, terminated, loaded>>

(* stage1_thread: one look at driver_status. *)
Stage1Check ==
    /\ s1 = "run"
    /\ \/ /\ driver_status = "Ready"
          /\ UNCHANGED chan
       \/ /\ driver_status \in {"Terminating", "Error"}
          /\ chan' = TRUE
       \/ /\ driver_status \in {"Initializing", "Undefined"}
          /\ mpc = "join1"
          /\ UNCHANGED chan
    /\ s1' = "exited"
    /\ UNCHANGED <<device_status, lock, ipc, stop>>
    /\ OthersKeep

(* What becomes of a mmio thread that is done: with an error, which main   *)
(* is told of, or not.  Giving up the hypervisor can block for ever.       *)
Leaves(err) ==
    \/ ipc' = "ended" /\ chan' \in {TRUE} \cup (IF err THEN {} ELSE {chan})
    \/ mode = "wrap" /\ ipc' = "stuck" /\ UNCHANGED chan

(* The mmio thread takes control: it reports Ready and serves, or reports  *)
(* an error, or ends without a report (kvmrun_wrapped refuses to start, or *)
(* a panic, which is not even sent to main).                               *)
MmioStart ==
    /\ ipc = "adopt"
    /\ \/ Notify("Ready") /\ ipc' = "serve" /\ UNCHANGED chan
       \/ Notify("Error") /\ Leaves(TRUE)
       \/ UNCHANGED <<lock, device_status>> /\ ipc' = "silent" /\ chan' \in {chan, TRUE}
    /\ UNCHANGED <<s1, stop>>
    /\ OthersKeep

(* It serves until it is told to stop, ... *)
MmioStop ==
    /\ ipc = "serve" /\ stop
    /\ Leaves(FALSE)
    /\ UNCHANGED <<lock, device_status, s1, stop>>
    /\ OthersKeep

(* ... or until a request fails, with the vcpu that made it still stopped. *)
MmioFails ==
    /\ ipc = "serve"
    /\ IF mode = "wrap" THEN ipc' = "report" /\ UNCHANGED chan
                        ELSE ipc' = "ended" /\ chan' = TRUE
    /\ UNCHANGED <<lock, device_status, s1, stop>>
    /\ OthersKeep

(* That is reported before the hypervisor's threads are let go. *)
MmioReport ==
    /\ ipc = "report"
    /\ Notify("Error")
    /\ Leaves(TRUE)
    /\ UNCHANGED <<s1, stop>>
    /\ OthersKeep

MmioNext == MmioStart \/ MmioStop \/ MmioFails \/ MmioReport

(* SIGINT or SIGTERM. *)
Signal ==
    /\ mpc # "done" /\ ~chan
    /\ chan' = TRUE
    /\ UNCHANGED <<device_status, lock, s1, ipc, stop>>
    /\ OthersKeep

-----------------------------------------------------------------------------
(* The guest.  It makes no step while main has the hypervisor stopped, nor *)
(* once its code is gone.                                                  *)

GuestRuns == mpc \notin {"start", "cleanup"} /\ loaded

(* A vcpu waits for an answer that a mmio thread which has failed, or is   *)
(* stuck, does not give; without vmsh the hypervisor answers.              *)
GuestHeldUp ==
    \/ ipc \in {"report", "stuck"}
    \/ mode = "ioregion" /\ ipc = "ended" /\ mpc # "done"

GuestTo(p) == gpc' = p /\ UNCHANGED <<hostVars, device_status>>

(* init_vmsh queues the work item and spawn_stage2 starts, unless the      *)
(* kernel's work queue is not found.                                       *)
GuestEntry ==
    /\ gpc = "entry"
    /\ GuestTo("check") \/ GuestTo("done")
    /\ UNCHANGED <<driver_status, retries, registered>>

(* Mutant: the guest does not wait for the device. *)
GuestCheckEager ==
    /\ gpc = "check"
    /\ GuestTo("claim")
    /\ UNCHANGED <<driver_status, retries, registered>>

(* spawn_stage2: wait while the device is initializing, ... *)
GuestCheck ==
    /\ gpc = "check"
    /\ GuestTo(IF device_status = "Initializing" THEN "sleep" ELSE "claim")
    /\ UNCHANGED <<driver_status, retries, registered>>

(* Mutant: one poll too many. *)
GuestSleepOnceMore ==
    /\ gpc = "sleep"
    /\ retries' = retries + 1
    /\ \/ /\ retries' > MaxRetries
          /\ driver_status' = "Error" /\ GuestTo("epilogue")
       \/ /\ retries' <= MaxRetries
          /\ UNCHANGED driver_status /\ GuestTo("check")
    /\ UNCHANGED registered

(* ... a bounded number of times. *)
GuestSleep ==
    /\ gpc = "sleep"
    /\ retries' = retries + 1
    /\ \/ /\ retries' = MaxRetries
          /\ driver_status' = "Error" /\ GuestTo("epilogue")
       \/ /\ retries' # MaxRetries
          /\ UNCHANGED driver_status /\ GuestTo("check")
    /\ UNCHANGED registered

GuestClaim ==
    /\ gpc = "claim"
    /\ driver_status' = "Initializing"
    /\ GuestTo("recheck")
    /\ UNCHANGED <<retries, registered>>

(* Mutant: a failed device is waited for again. *)
GuestRecheckRetries ==
    /\ gpc = "recheck"
    /\ GuestTo(IF device_status = "Error" THEN "check" ELSE "register")
    /\ UNCHANGED <<driver_status, retries, registered>>

GuestRecheck ==
    /\ gpc = "recheck"
    /\ GuestTo(IF device_status = "Error" THEN "epilogue" ELSE "register")
    /\ UNCHANGED <<driver_status, retries, registered>>

(* Mutant: one registered device is taken for all. *)
GuestRegisterOne ==
    /\ gpc = "register"
    /\ \/ /\ \E d \in Devices \ registered : registered' = registered \cup {d}
          /\ GuestTo("register")
       \/ registered # {} /\ GuestTo("write") /\ UNCHANGED registered
    /\ UNCHANGED <<driver_status, retries>>

(* run_stage2: register every device, write stage2 to a file, execute it   *)
(* (again while the file is still busy).                                   *)
GuestRegister ==
    /\ gpc = "register"
    /\ \/ /\ \E d \in Devices \ registered : registered' = registered \cup {d}
          /\ GuestTo("register")
       \/ registered = Devices /\ GuestTo("write") /\ UNCHANGED registered
       \/ registered # Devices /\ GuestTo("fail") /\ UNCHANGED registered
    /\ UNCHANGED <<driver_status, retries>>

GuestWrite ==
    /\ gpc = "write"
    /\ GuestTo("exec") \/ GuestTo("fail")
    /\ UNCHANGED <<driver_status, retries, registered>>

GuestExec ==
    /\ gpc = "exec"
    /\ GuestTo("ready") \/ GuestTo("fail")
    /\ UNCHANGED <<driver_status, retries, registered>>

GuestReady ==
    /\ gpc = "ready"
    /\ driver_status' = "Ready" /\ GuestTo("poll")
    /\ UNCHANGED <<retries, registered>>

(* DEVICES.take(): unregister one device after the other, then report. *)
GuestUnregister ==
    /\ gpc \in {"fail", "unregister"}
    /\ \/ /\ \E d \in registered : registered' = registered \ {d}
          /\ GuestTo(gpc) /\ UNCHANGED driver_status
       \/ /\ registered = {}
          /\ driver_status' = IF gpc = "fail" THEN "Error" ELSE "Terminating"
          /\ GuestTo("epilogue")
          /\ UNCHANGED registered
    /\ UNCHANGED retries

(* Mutant: termination is reported before the devices are gone. *)
GuestPollReportsEarly ==
    /\ gpc = "poll"
    /\ device_status # "Ready"
    /\ driver_status' = "Terminating"
    /\ GuestTo("unregister")
    /\ UNCHANGED <<retries, registered>>

(* Poll device_status until the host no longer says Ready. *)
GuestPoll ==
    /\ gpc = "poll"
    /\ device_status # "Ready"
    /\ GuestTo("unregister")
    /\ UNCHANGED <<driver_status, retries, registered>>

(* spawn_stage2 returns into stage2_worker, which prints and returns. *)
GuestEpilogue ==
    /\ gpc = "epilogue" /\ GuestTo("done")
    /\ UNCHANGED <<driver_status, retries, registered>>

GuestNext ==
    /\ GuestRuns
    /\ \/ GuestEntry \/ GuestCheck \/ GuestSleep \/ GuestClaim \/ GuestRecheck
       \/ GuestRegister \/ GuestWrite \/ GuestExec \/ GuestReady
       \/ GuestUnregister \/ GuestPoll \/ GuestEpilogue

-----------------------------------------------------------------------------
Next ==
    \/ MainNext \/ MainStartFails \/ MainSpawnFails
    \/ Stage1Check \/ MmioNext \/ Signal
    \/ GuestNext

(* The vmsh threads are scheduled, and the guest kernel runs its work item *)
(* while its vcpus are answered.                                           *)
Fairness ==
    /\ WF_vars(MainNext)
    /\ WF_vars(Stage1Check)
    /\ WF_vars(MmioStart)
    /\ WF_vars(MmioStop)
    /\ WF_vars(MmioReport)
    /\ WF_vars(GuestNext /\ ~GuestHeldUp)

Spec == Init /\ [][Next]_vars
FairSpec == Spec /\ Fairness

-----------------------------------------------------------------------------
(* Properties                                                              *)

(* A terminate() that succeeds means that the guest's drivers are off the  *)
(* devices and the worker has nothing left to do but to return.            *)
TerminateMeansQuiet ==
    terminated = "ok" =>
        /\ driver_status = "Terminating"
        /\ registered = {}
        /\ gpc \in {"epilogue", "done"}

(* What the guest reports is true: a ready driver has all its devices      *)
(* until the host asks it to go, a failed or terminated one has none.      *)
DriverStatusHonest ==
    /\ (driver_status = "Ready" /\ device_status = "Ready") => registered = Devices
    /\ driver_status \in {"Error", "Terminating"} => registered = {}

(* The stage1 thread never meets "unexpecting terminating state": it is    *)
(* joined before anyone can ask the driver to terminate.                   *)
NoUnexpectedTermination == s1 = "run" => driver_status # "Terminating"

(* Drivers are bound to the devices only after the host said Ready, or     *)
(* once it is terminating.                                                 *)
DriversNeedDevice ==
    registered # {} => device_status \in {"Ready", "Terminating"}

(* vmsh waits for something that will not happen: main for a report the    *)
(* mmio thread never made, or to join a mmio thread that is blocked, or    *)
(* terminate(), with the mutex the mmio thread needs, for a driver whose   *)
(* vcpu is held up.                                                        *)
Deadlocked ==
    \/ mpc = "wait" /\ lock = "Initializing" /\ ipc = "silent"
    \/ ipc = "stuck"
    \/ mpc = "check" /\ driver_status = "Ready" /\ GuestHeldUp

(* A message ends vmsh, whatever the guest is doing, or vmsh is deadlocked *)
(* from some point on.                                                     *)
MessageEndsVmsh == <>[]Deadlocked \/ (chan ~> (mpc = "done"))

(* The guest's worker ends once vmsh is gone, if its code is still there.  *)
(* There is one failure after which it polls for ever: that of a thread    *)
(* for the ioregions, which comes after the report that they are served.   *)
WorkerEnds ==
    (mpc = "done" /\ loaded) ~>
        \/ gpc = "done"
        \/ mode = "ioregion" /\ ipc = "none" /\ gpc = "poll" /\ device_status = "Ready"

(* The memory of stage1 is taken out of the guest only when no guest code  *)
(* runs in it or is about to.                                              *)
CleanupIsSafe == ~loaded => gpc = "done"
=============================================================================
