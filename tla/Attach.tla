------------------------------- MODULE Attach -------------------------------
(***************************************************************************)
(* One run of `vmsh attach`: the main thread (attach.rs), the              *)
(* mmio-exit-handler thread and the stage1 thread it starts, the signal    *)
(* handler, and the hypervisor they trace (module TraceControl).           *)
(*                                                                         *)
(* res is what vmsh has put into the hypervisor and the VM (sockets,       *)
(* mappings, memory slots, eventfds), objs the vmsh objects whose          *)
(* destructors take it out again.  A destructor injects system calls, so   *)
(* it works only in the thread that owns the traced Process.               *)
(***************************************************************************)
EXTENDS TraceControl

CONSTANTS
    Faults,   \* which of the things in AllFaults may happen
    Modes,    \* --mmio: "wrap" (wrap_syscall) or "ioregion" (ioregionfd)
    Groups    \* may vmsh share the hypervisor's process group? (of BOOLEAN)

AllFaults == {"die",     \* the hypervisor ends
              "exit",    \* one of its threads ends
              "signal",  \* one of its threads is sent a signal
              "create",  \* a syscall or allocation of a constructor fails
              "spawn",   \* pthread_create fails in vmsh
              "device"}  \* handling an MMIO access, or the guest driver, fails

ASSUME FaultsAssumption == Faults \subseteq AllFaults
ASSUME ModesAssumption == Modes \subseteq {"wrap", "ioregion"}
ASSUME GroupsAssumption == Groups \subseteq BOOLEAN

VARIABLES
    mode, sameGroup,  \* fixed by the command line and the terminal
    mpc, ipc, s1,     \* where main, mmio-exit-handler and stage1 are
    ires,             \* the result the closure of kvmrun_wrapped returned
    notif,            \* DriverNotifier.lock
    chan,             \* a message is in the channel main receives from
    stop,             \* the threads' should_stop
    poisoned,         \* a thread panicked with the tracee lock taken
    res, objs,
    spawnFailed,      \* history: some pthread_create failed
    deadKept          \* history: attach_seize kept a thread that had ended

threadVars == <<mode, sameGroup, mpc, ipc, s1, ires, notif, chan, stop,
                poisoned, res, objs, spawnFailed, deadKept>>
vars == <<traceVars, threadVars>>

Objects == {"sockets", "devices", "stage1"}

MainSteps == {"stop", "sockets", "devices", "poll", "stage1", "spawn1", "start",
              "disown", "spawn", "wait", "recv", "join1", "terminate", "spin",
              "join", "stop2", "adopt", "drop1", "drop2", "drop3", "resume",
              "unwind", "done"}
MmioSteps == {"none", "adopt", "wrap", "ready", "resume", "reap", "notify",
              "unwrap", "disown", "exit", "exited", "panicked", "stuck"}

ThreadTypeOK ==
    /\ mode \in {"wrap", "ioregion"} /\ sameGroup \in BOOLEAN
    /\ mpc \in MainSteps /\ ipc \in MmioSteps
    /\ s1 \in {"none", "run", "exited"}
    /\ ires \in {"ok", "err"}
    /\ notif \in {"Initializing", "Ready", "Error", "Terminating"}
    /\ chan \in BOOLEAN /\ stop \in BOOLEAN /\ poisoned \in BOOLEAN
    /\ res \subseteq Objects /\ objs \subseteq Objects
    /\ spawnFailed \in BOOLEAN /\ deadKept \in BOOLEAN

TypeOK == TraceTypeOK /\ ThreadTypeOK

Init ==
    /\ TraceInit
    /\ mode \in Modes /\ sameGroup \in Groups
    /\ mpc = "stop" /\ ipc = "none" /\ s1 = "none"
    /\ ires = "ok"
    /\ notif = "Initializing"
    /\ chan = FALSE /\ stop = FALSE /\ poisoned = FALSE
    /\ res = {} /\ objs = {}
    /\ spawnFailed = FALSE /\ deadKept = FALSE

-----------------------------------------------------------------------------
(* Step bookkeeping: what an action leaves alone.                          *)

KeepsThreads == UNCHANGED <<mode, sameGroup, ires, notif, chan, stop, res, objs>>

MainTo(p) == mpc' = p /\ UNCHANGED <<ipc, s1>>
MmioTo(p) == ipc' = p /\ UNCHANGED <<mpc, s1>>

NoFaultHistory == UNCHANGED <<poisoned, spawnFailed, deadKept>>

-----------------------------------------------------------------------------
(* main: attach()                                                          *)

(* vm.stop(): attach unless a Process is there already. *)
MainStop ==
    /\ mpc \in {"stop", "stop2"}
    /\ \/ /\ ~poisoned /\ Alive /\ ~proc.some
          /\ StartWalk(Main, Listed)
          /\ MainTo(mpc)
       \/ /\ ~poisoned /\ proc.some
          /\ UNCHANGED traceVars
          /\ MainTo(IF mode = "wrap" THEN "adopt" ELSE "drop1")
       \/ /\ walk.by = Nobody
          /\ poisoned \/ (~Alive /\ ~proc.some)
          /\ UNCHANGED traceVars
          /\ MainTo("unwind")
    /\ KeepsThreads /\ NoFaultHistory

(* attach_seize, in either thread. *)
Seizes(v) ==
    \/ SeizeNext(v) /\ UNCHANGED threadVars
    \/ SeizeStopped(v) /\ UNCHANGED threadVars
    \/ SeizeGivesUp(v) /\ UNCHANGED threadVars
    \/ /\ SeizeKeepsDead(v) /\ deadKept' = TRUE
       /\ UNCHANGED <<mode, sameGroup, mpc, ipc, s1, ires, notif, chan, stop, poisoned,
                      res, objs, spawnFailed>>

MainSeize == Seizes(Main)

MainAttached ==
    /\ mpc \in {"stop", "stop2"}
    /\ InitPatch(Main)
    /\ MainTo(IF mpc = "stop" THEN "sockets" ELSE IF mode = "wrap" THEN "adopt" ELSE "drop1")
    /\ KeepsThreads /\ NoFaultHistory

MainAttachFails ==
    /\ mpc \in {"stop", "stop2"}
    /\ AttachAbort(Main)
    /\ MainTo("unwind")
    /\ poisoned' = (poisoned \/ InitPanics)
    /\ KeepsThreads /\ UNCHANGED <<spawnFailed, deadKept>>

(* setup_transfer_sockets, DeviceSet::new and Stage1::new inject system    *)
(* calls; what a failing one had made so far is dropped on the way out.    *)
Creates(o) ==
    /\ mpc = o
    /\ \/ /\ CanInject(Main)
          /\ res' = res \cup {o} /\ objs' = objs \cup {o}
          /\ MainTo(CASE o = "sockets" -> "devices" [] o = "devices" -> "poll"
                     [] o = "stage1" -> "spawn1")
       \/ /\ "create" \in Faults \/ ~CanInject(Main)
          /\ MainTo("unwind")
          /\ UNCHANGED <<res, objs>>
    /\ UNCHANGED <<traceVars, mode, sameGroup, ires, notif, chan, stop>>
    /\ NoFaultHistory

MainCreate == \E o \in Objects : Creates(o)

(* Mutant: the message is taken and ignored. *)
MainPollIgnores ==
    /\ mpc = "poll"
    /\ MainTo("stage1")
    /\ chan' = FALSE
    /\ UNCHANGED <<traceVars, mode, sameGroup, ires, notif, stop, res, objs>>
    /\ NoFaultHistory

(* recv_timeout(0): a signal so far ends the run with an early return. *)
MainPoll ==
    /\ mpc = "poll"
    /\ MainTo(IF chan THEN "unwind" ELSE "stage1")
    /\ chan' = FALSE
    /\ UNCHANGED <<traceVars, mode, sameGroup, ires, notif, stop, res, objs>>
    /\ NoFaultHistory

(* stage1.spawn: set_regs on the vcpu, then the stage1 thread. *)
MainSpawnStage1 ==
    /\ mpc = "spawn1"
    /\ \/ /\ CanInject(Main)
          /\ mpc' = "start" /\ s1' = "run"
          /\ UNCHANGED <<ipc, spawnFailed>>
       \/ /\ "create" \in Faults \/ ~CanInject(Main)
          /\ MainTo("unwind") /\ UNCHANGED spawnFailed
       \/ /\ "spawn" \in Faults
          /\ MainTo("unwind") /\ spawnFailed' = TRUE
    /\ UNCHANGED <<traceVars, poisoned, deadKept>> /\ KeepsThreads

(* devices.start: the event-manager thread first. *)
MainStart ==
    /\ mpc = "start"
    /\ \/ mode = "wrap" /\ MainTo("disown") /\ UNCHANGED <<traceVars, spawnFailed, notif>>
       \/ /\ mode = "ioregion" /\ DropProcess(Main)
          /\ notif' = "Ready"
          /\ \/ Alive /\ MainTo("wait") /\ UNCHANGED spawnFailed
             \/ ~Alive /\ MainTo("unwind") /\ UNCHANGED spawnFailed
             \/ "spawn" \in Faults /\ MainTo("unwind") /\ spawnFailed' = TRUE
       \/ /\ "spawn" \in Faults /\ MainTo("unwind") /\ spawnFailed' = TRUE
          /\ UNCHANGED <<traceVars, notif>>
    /\ UNCHANGED <<mode, sameGroup, ires, chan, stop, res, objs, poisoned, deadKept>>

(* mmio_exit_handler_thread: give the tracees up, then start the thread. *)
MainDisown ==
    /\ mpc = "disown"
    /\ \/ DisownOk(Main) /\ MainTo("spawn")
       \/ DisownErr(Main) /\ MainTo("unwind")
    /\ KeepsThreads /\ NoFaultHistory

MainSpawnMmio ==
    /\ mpc = "spawn"
    /\ \/ mpc' = "wait" /\ ipc' = "adopt" /\ UNCHANGED <<s1, spawnFailed>>
       \/ "spawn" \in Faults /\ MainTo("unwind") /\ spawnFailed' = TRUE
    /\ UNCHANGED <<traceVars, poisoned, deadKept>> /\ KeepsThreads

(* driver_notifier.wait(), receiver.recv(), and the join of stage1. *)
MainWait ==
    /\ \/ mpc = "wait" /\ notif # "Initializing" /\ MainTo("recv") /\ UNCHANGED chan
       \/ mpc = "recv" /\ chan /\ MainTo("join1") /\ chan' = FALSE
       \/ mpc = "join1" /\ s1 # "run" /\ MainTo("terminate") /\ UNCHANGED chan
    /\ UNCHANGED <<traceVars, mode, sameGroup, ires, notif, stop, res, objs>>
    /\ NoFaultHistory

(* terminate() takes the lock of the DriverNotifier, tells the guest, ... *)
MainTerminate ==
    /\ mpc = "terminate"
    /\ notif' = "Terminating"
    /\ MainTo("spin")
    /\ UNCHANGED <<traceVars, mode, sameGroup, ires, chan, stop, res, objs>>
    /\ NoFaultHistory

(* ... and reads driver_status, with the lock taken, until the guest's     *)
(* driver has gone or failed (module Stage1Handshake) or cannot be read.   *)
(* Whatever it returns, the threads are told to stop.                      *)
MainSpin ==
    /\ mpc = "spin"
    /\ stop' = TRUE
    /\ MainTo("join")
    /\ UNCHANGED <<traceVars, mode, sameGroup, ires, notif, chan, res, objs>>
    /\ NoFaultHistory

MainJoin ==
    /\ mpc = "join"
    /\ ipc \in {"none", "exited", "panicked"}
    /\ MainTo("stop2")
    /\ UNCHANGED traceVars /\ KeepsThreads /\ NoFaultHistory

(* Mutant: the tracees are not taken back before the cleanup. *)
MainAdoptSkipped ==
    /\ mpc = "adopt" /\ walk.by = Nobody
    /\ MainTo("drop1")
    /\ UNCHANGED traceVars /\ KeepsThreads /\ NoFaultHistory

(* finish_thread_transfer: refused while there is an owner. *)
MainAdopt ==
    /\ mpc = "adopt" /\ walk.by = Nobody
    /\ \/ /\ proc.owner = Nobody /\ proc.held
          /\ StartWalk(Main, proc.threads)
          /\ MainTo("adopt")
       \/ /\ proc.owner = Nobody /\ ~proc.held
          /\ proc' = [proc EXCEPT !.owner = Main]
          /\ UNCHANGED <<life, tracer, text, wrapper, walk>>
          /\ MainTo("drop1")
       \/ /\ proc.owner # Nobody
          /\ UNCHANGED traceVars
          /\ MainTo("unwind")
    /\ KeepsThreads /\ NoFaultHistory

MainAdopted ==
    /\ mpc = "adopt"
    /\ InitPatch(Main)
    /\ MainTo("drop1")
    /\ KeepsThreads /\ NoFaultHistory

MainAdoptFails ==
    /\ mpc = "adopt"
    /\ AdoptAbort(Main)
    /\ MainTo("unwind")
    /\ poisoned' = (poisoned \/ InitPanics)
    /\ KeepsThreads /\ UNCHANGED <<spawnFailed, deadKept>>

(* drop(stage1), drop(contexts), close_transfer_sockets(). *)
Drops(o, from, to) ==
    /\ mpc = from
    /\ res' = IF CanInject(Main) THEN res \ {o} ELSE res
    /\ objs' = objs \ {o}
    /\ MainTo(to)
    /\ UNCHANGED <<traceVars, mode, sameGroup, ires, notif, chan, stop>>
    /\ NoFaultHistory

MainDrop ==
    \/ Drops("stage1", "drop1", "drop2")
    \/ Drops("devices", "drop2", "drop3")
    \/ Drops("sockets", "drop3", "resume")

(* Mutant: attach() returns without resume(). *)
MainResumeSkipped ==
    /\ mpc = "resume"
    /\ MainTo("done")
    /\ UNCHANGED traceVars /\ KeepsThreads /\ NoFaultHistory

(* vm.resume(): the Process is dropped, the hypervisor runs on. *)
MainResume ==
    /\ mpc = "resume"
    /\ DropProcess(Main)
    /\ MainTo("done")
    /\ KeepsThreads /\ NoFaultHistory

(* Every other way out: the locals are dropped, then the process ends and  *)
(* takes its threads with it.  The Process is dropped only if no other     *)
(* thread holds a reference to the Hypervisor.                             *)
LastReference == s1 # "run" /\ ipc \in {"none", "exited", "panicked"}

MainUnwind ==
    /\ mpc = "unwind"
    /\ res' = IF CanInject(Main) /\ ~poisoned THEN res \ objs ELSE res
    /\ objs' = {}
    /\ text' = IF LastReference THEN Restored(Main) ELSE text
    /\ TracerExit(Tracers)
    /\ proc' = NoProc /\ wrapper' = NoWrapper /\ walk' = NoWalk
    /\ mpc' = "done" /\ ipc' = "exited" /\ s1' = "exited"
    /\ UNCHANGED <<mode, sameGroup, ires, notif, chan, stop>>
    /\ NoFaultHistory

-----------------------------------------------------------------------------
(* mmio-exit-handler                                                       *)

Notified(state) == IF notif = "Initializing" THEN state ELSE notif

MmioAdopt ==
    /\ ipc = "adopt"
    /\ StartWalk(Mmio, proc.threads)
    /\ UNCHANGED threadVars

MmioSeize == Seizes(Mmio)

MmioAdopted ==
    /\ ipc = "adopt"
    /\ InitPatch(Mmio)
    /\ MmioTo("wrap")
    /\ KeepsThreads /\ NoFaultHistory

(* An error is reported; a panic is neither notified nor sent. *)
MmioAdoptFails ==
    /\ ipc = "adopt"
    /\ AdoptAbort(Mmio)
    /\ \/ /\ InitPanics
          /\ MmioTo("panicked") /\ poisoned' = TRUE
          /\ UNCHANGED <<notif, chan>>
       \/ /\ ~InitPanics
          /\ MmioTo("exit") /\ notif' = Notified("Error") /\ chan' = TRUE
          /\ UNCHANGED poisoned
    /\ UNCHANGED <<mode, sameGroup, ires, stop, res, objs, spawnFailed, deadKept>>

(* kvmrun_wrapped, up to its closure. *)
MmioWrap ==
    /\ ipc = "wrap"
    /\ \/ /\ ~sameGroup /\ Alive
          /\ Wrap(Mmio)
          /\ MmioTo("ready") /\ UNCHANGED ires
       \/ /\ sameGroup \/ ~Alive
          /\ WrapRefused(Mmio)
          /\ MmioTo("disown") /\ ires' = "err"
    /\ UNCHANGED <<mode, sameGroup, notif, chan, stop, res, objs>>
    /\ NoFaultHistory

(* handle_mmio_exits: let the threads go and report the device ready; any  *)
(* error, here or in the loop, is reported by the closure.                 *)
MmioReady ==
    /\ ipc = "ready"
    /\ \/ /\ StopOnSyscall(Mmio)
          /\ MmioTo("reap") /\ notif' = Notified("Ready") /\ UNCHANGED ires
       \/ /\ StopOnSyscallErr(Mmio)
          /\ MmioTo("notify") /\ ires' = "err" /\ UNCHANGED notif
    /\ UNCHANGED <<mode, sameGroup, chan, stop, res, objs>>
    /\ NoFaultHistory

(* The loop: wait_for_ioctl lets every stopped thread go on, ...  *)
MmioResume ==
    /\ ipc = "resume"
    /\ \/ StopOnSyscall(Mmio) /\ MmioTo("reap") /\ UNCHANGED ires
       \/ StopOnSyscallErr(Mmio) /\ MmioTo("notify") /\ ires' = "err"
    /\ UNCHANGED <<mode, sameGroup, notif, chan, stop, res, objs>>
    /\ NoFaultHistory

(* ... waits for one, handles its MMIO exit if it is one (which may fail), *)
(* and only then looks at should_stop.                                     *)
LoopTo == MmioTo(IF stop THEN "unwrap" ELSE "resume") /\ UNCHANGED ires

MmioReap ==
    /\ ipc = "reap"
    /\ \E t \in HvThreads :
         \/ ReapStop(t) /\ LoopTo
         \/ /\ ReapStop(t) /\ life[t] = "syscall" /\ "device" \in Faults
            /\ MmioTo("notify") /\ ires' = "err"
         \/ ReapExit(t) /\ LoopTo
         \/ ReapOther(Mmio, t) /\ MmioTo("reap") /\ UNCHANGED ires
    /\ UNCHANGED <<mode, sameGroup, notif, chan, stop, res, objs>>
    /\ NoFaultHistory

(* The process has ended: either every thread is reported as exited and    *)
(* dropped until there is no child to wait for, or one is reported killed  *)
(* and cannot be let go on.                                                *)
MmioReapDead ==
    /\ ipc = "reap" /\ ~Alive
    /\ \/ wrapper' = [wrapper EXCEPT !.threads = {}, !.running = {}]
       \/ UNCHANGED wrapper
    /\ MmioTo("notify") /\ ires' = "err"
    /\ UNCHANGED <<life, tracer, text, proc, walk>>
    /\ UNCHANGED <<mode, sameGroup, notif, chan, stop, res, objs>>
    /\ NoFaultHistory

(* notify(Error) needs the lock; what was reaped stays stopped meanwhile. *)
MmioNotify ==
    /\ ipc = "notify" /\ mpc # "spin"
    /\ notif' = Notified("Error")
    /\ MmioTo("unwrap")
    /\ UNCHANGED <<traceVars, mode, sameGroup, ires, chan, stop, res, objs>>
    /\ NoFaultHistory

(* kvmrun_wrapped, after its closure. *)
MmioUnwrap ==
    /\ ipc = "unwrap"
    /\ \/ Unwrap(Mmio) /\ MmioTo("disown") /\ UNCHANGED <<ires, poisoned>>
       \/ /\ UnwrapErr(Mmio) /\ MmioTo("disown") /\ ires' = "err"
          /\ UNCHANGED poisoned
       \/ /\ UnwrapPanics /\ MmioTo("panicked") /\ poisoned' = TRUE
          /\ UNCHANGED <<traceVars, ires>>
       \/ /\ DetachHangs
          /\ UnwrapHang
          /\ MmioTo("stuck") /\ UNCHANGED <<ires, poisoned>>
    /\ UNCHANGED <<mode, sameGroup, notif, chan, stop, res, objs, spawnFailed, deadKept>>

(* prepare_thread_transfer, then the thread function's result. *)
MmioDisown ==
    /\ ipc = "disown"
    /\ \/ DisownOk(Mmio) /\ chan' = (chan \/ ires = "err")
       \/ DisownErr(Mmio) /\ chan' = TRUE
    /\ MmioTo("exit")
    /\ UNCHANGED <<mode, sameGroup, ires, notif, stop, res, objs>>
    /\ NoFaultHistory

MmioExit ==
    /\ ipc = "exit"
    /\ TracerExit({Mmio})
    /\ MmioTo("exited")
    /\ UNCHANGED <<text, proc, wrapper, walk>>
    /\ KeepsThreads /\ NoFaultHistory

-----------------------------------------------------------------------------
(* stage1, the signal handler and the hypervisor                           *)

(* stage1_thread ends once the guest's driver is ready, or failed, or once *)
(* it is told to stop.                                                     *)
Stage1Exit ==
    /\ s1 = "run"
    /\ s1' = "exited"
    /\ \/ UNCHANGED chan
       \/ ("device" \in Faults \/ ~Alive) /\ chan' = TRUE
    /\ UNCHANGED <<traceVars, mode, sameGroup, mpc, ipc, ires, notif, stop, res, objs>>
    /\ NoFaultHistory

(* An ioregion-handler thread fails: nobody answers the guest's accesses   *)
(* any more.                                                               *)
IoregionFails ==
    /\ mode = "ioregion" /\ "device" \in Faults
    /\ mpc \in {"wait", "recv", "join1", "terminate", "spin"} /\ ipc = "none"
    /\ MmioTo("exited") /\ chan' = TRUE
    /\ UNCHANGED <<traceVars, mode, sameGroup, ires, notif, stop, res, objs>>
    /\ NoFaultHistory

(* SIGINT or SIGTERM. *)
Message ==
    /\ mpc # "done" /\ ~chan
    /\ chan' = TRUE
    /\ UNCHANGED <<traceVars, mode, sameGroup, mpc, ipc, s1, ires, notif, stop, res, objs>>
    /\ NoFaultHistory

HvTrap ==
    \E t \in HvThreads : Trap(t, "syscall") /\ UNCHANGED threadVars

HvStep ==
    \E t \in HvThreads :
        /\ \/ SpawnThread(t)
           \/ "exit" \in Faults /\ ExitThread(t)
           \/ "signal" \in Faults /\ Trap(t, "signal")
        /\ UNCHANGED threadVars

HvDie ==
    /\ "die" \in Faults
    /\ Die
    /\ res' = {}
    /\ UNCHANGED <<mode, sameGroup, mpc, ipc, s1, ires, notif, chan, stop, objs>>
    /\ NoFaultHistory

MainNext ==
    \/ MainStop \/ MainSeize \/ MainAttached \/ MainAttachFails \/ MainCreate
    \/ MainPoll \/ MainSpawnStage1 \/ MainStart \/ MainDisown \/ MainSpawnMmio
    \/ MainWait \/ MainTerminate \/ MainSpin \/ MainJoin \/ MainAdopt
    \/ MainAdopted \/ MainAdoptFails \/ MainDrop \/ MainResume \/ MainUnwind

MmioNext ==
    \/ MmioAdopt \/ MmioSeize \/ MmioAdopted \/ MmioAdoptFails \/ MmioWrap
    \/ MmioReady \/ MmioResume \/ MmioReap \/ MmioReapDead \/ MmioNotify
    \/ MmioUnwrap \/ MmioDisown \/ MmioExit

Next ==
    \/ MainNext \/ MmioNext \/ Stage1Exit \/ IoregionFails \/ Message
    \/ HvTrap \/ HvStep \/ HvDie

(* While main reads driver_status, the guest may be unable to answer: a    *)
(* vCPU is held by a mmio thread that waits for main's lock or is stuck,   *)
(* or waits for a device that nobody serves.                               *)
GuestHeldUp ==
    /\ mpc = "spin" /\ Alive
    /\ ipc \in {"notify", "stuck"} \/ (mode = "ioregion" /\ ipc = "exited")

(***************************************************************************)
(* Every vmsh thread is scheduled.  A guest that runs answers terminate(). *)
(* stage1 ends when told to or when the hypervisor is gone (it polls every *)
(* 100 ms).  A hypervisor thread that runs makes a system call eventually: *)
(* vCPU threads return to KVM_RUN and the leader runs an event loop.       *)
(***************************************************************************)
Fairness ==
    /\ WF_vars(MainNext /\ ~GuestHeldUp)
    /\ WF_vars(MmioNext)
    /\ WF_vars(Stage1Exit /\ (mpc = "join1" \/ ~Alive))
    /\ WF_vars(HvTrap)

Spec == Init /\ [][Next]_vars
FairSpec == Spec /\ Fairness

-----------------------------------------------------------------------------
(* Properties                                                              *)

(* The leader's patched text (init in inject_syscall.rs) never outlives    *)
(* control of the leader: while it is patched, the leader sits in a ptrace *)
(* stop of the thread that owns the Process, and that Process knows the    *)
(* original word to write back.                                            *)
PatchGuarded ==
    (text = "patched" /\ Alive /\ ~spawnFailed) =>
        /\ proc.some /\ proc.held
        /\ proc.saved = "orig"
        /\ Leader \in Reachable(proc.owner, proc.threads)
        /\ life[Leader] = "stopped"

(* A KvmRunWrapper's is_running flags agree with the kernel: a thread it   *)
(* believes stopped is in a stop the wrapper has been told of, so          *)
(* PTRACE_SYSCALL will let it go on, and a thread it believes running is   *)
(* one whose next stop can still be waited for.  The only thread it can    *)
(* have that takes no request is one that ended while it was being seized. *)
WrapperTracks ==
    (wrapper.some /\ Alive /\ ipc # "stuck") =>
        \A t \in wrapper.threads :
            \/ /\ tracer[t] = Mmio
               /\ t \in wrapper.running <=> life[t] # "stopped"
            \/ deadKept /\ life[t] = "gone" /\ t \notin wrapper.running

(* No hypervisor thread is left in a stop that nothing in vmsh will end:   *)
(* it belongs to an owned Process, to the wrapper (or to the wrapper of a  *)
(* mmio thread that is stuck), to a seize loop, or to the mmio thread on   *)
(* its way out, whose exit lets it go.                                     *)
StopsAreHeld ==
    \A t \in HvThreads :
        life[t] \in Stops =>
            \/ proc.some /\ proc.owner = tracer[t] /\ t \in proc.threads
            \/ wrapper.some /\ t \in wrapper.threads
            \/ walk.by = tracer[t] /\ t \in walk.got
            \/ tracer[t] = Mmio /\ ipc \in {"disown", "exit"}

(* What vmsh has put into a living hypervisor always has a vmsh object     *)
(* that will take it out, whichever error path is taken: destructors never *)
(* run in a thread, or at a time, where they cannot inject.  Two failures  *)
(* break this in the code: a thread of vmsh that cannot be created, and a  *)
(* hypervisor thread that ends while it is being seized.  attach_seize     *)
(* keeps the latter, disown() fails on it and loses the Process.           *)
NothingOrphaned == (Alive /\ ~spawnFailed /\ ~deadKept) => res \subseteq objs

(* A vmsh that has ended leaves a living hypervisor as it found it: its    *)
(* text intact, none of its threads stopped or traced (but one that has    *)
(* ended, which goes with vmsh), and, if every hypervisor thread was       *)
(* seized alive, nothing of vmsh in it.                                    *)
CleanExit ==
    (mpc = "done" /\ Alive /\ ~spawnFailed) =>
        /\ ~deadKept => res = {}
        /\ text = "orig"
        /\ \A t \in HvThreads :
              life[t] \notin Stops /\ (tracer[t] = Nobody \/ life[t] = "zombie")

(* A signal, or any failing thread, ends vmsh (receiver.recv in attach).   *)
MessageEndsVmsh == chan ~> (mpc = "done")

(* It does unless vmsh ends up waiting for something that will not happen: *)
(* the mmio thread is blocked in prepare_detach, or has ended without a    *)
(* word to the DriverNotifier main waits on, or terminate() waits, with    *)
(* the lock taken, for a guest that is held up.                            *)
Deadlocked ==
    \/ ipc = "stuck"
    \/ mpc = "wait" /\ ipc \in {"exited", "panicked"} /\ notif = "Initializing"
    \/ GuestHeldUp

EndsUnlessDeadlocked == <>[]Deadlocked \/ MessageEndsVmsh
=============================================================================
