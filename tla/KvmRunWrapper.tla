--------------------------- MODULE KvmRunWrapper ---------------------------
(***************************************************************************)
(* How vmsh serves its devices under a hypervisor that does not know of    *)
(* them (tracer/wrap_syscall.rs, handle_mmio_exits in devices/threads.rs). *)
(* Every hypervisor thread stops at its system calls.  When ioctl(KVM_RUN) *)
(* returns with an MMIO exit in vmsh's range, the access is handled before *)
(* the hypervisor sees it, and a read is disguised as a write so that the  *)
(* hypervisor leaves the answer alone.                                     *)
(*                                                                         *)
(* A ptrace stop reports neither entry nor exit of a system call: the      *)
(* wrapper tells them apart by counting the stops of ioctls (in_syscall).  *)
(*                                                                         *)
(* Exits of threads and of the hypervisor are in module Attach.            *)
(***************************************************************************)
EXTENDS Naturals, FiniteSets

CONSTANT Threads   \* the hypervisor threads, each may run a vCPU

ASSUME ThreadsAssumption == IsFiniteSet(Threads) /\ Threads # {}

VARIABLES
    known,       \* the threads whose vCPU file descriptor vmsh has found
    pc, call,    \* where a thread is, and its system call
    ret,         \* did the system call that returned succeed?
    page,        \* the kvm_run structure shared by KVM and the hypervisor
    fresh,       \* the hypervisor has an exit to handle
    acc,         \* the guest's outstanding access, as KVM knows it
    served,      \* history: how often the device has handled it
    lost,        \* history: threads whose last access to vmsh's range was
                 \* answered by the hypervisor
    running, in_syscall,  \* threads with is_running, in_syscall
    wpc,         \* where the mmio thread is
    serving,     \* the thread whose exit it is handling, if any
    stop         \* should_stop

hvVars == <<pc, call, ret, page, fresh, acc, served, lost>>
wrapVars == <<running, in_syscall, wpc, serving>>
vars == <<known, hvVars, wrapVars, stop>>

(* "entry", "exit" and "event" are ptrace stops; "event" is one that does  *)
(* not belong to a system call (a signal, or the interrupt of the seize).  *)
Stops == {"entry", "exit", "event"}
Ioctls == {"run", "ioctl"}

(* own: the access is at an address in first_mmio_addr .. last_mmio_addr   *)
(* - 1. last_mmio_addr is the last byte of the block device's range, so    *)
(* that byte, where no register is, counts as the hypervisor's.            *)
Pages == [mmio : BOOLEAN, own : BOOLEAN, write : BOOLEAN,
          data : {"raw", "device", "hypervisor"}]

TypeOK ==
    /\ known \subseteq Threads
    /\ pc \in [Threads -> {"user", "kernel"} \cup Stops]
    /\ call \in [Threads -> Ioctls \cup {"other", "none"}]
    /\ ret \in [Threads -> BOOLEAN]
    /\ page \in [Threads -> Pages]
    /\ fresh \in [Threads -> BOOLEAN]
    /\ acc \in [Threads -> [kind : {"none", "read", "write"}, own : BOOLEAN]]
    /\ served \in [Threads -> 0..1]
    /\ lost \subseteq Threads
    /\ running \subseteq Threads /\ in_syscall \subseteq Threads
    /\ wpc \in {"resume", "wait", "serve", "detach", "done", "stuck"}
    /\ serving \subseteq Threads
    /\ stop \in BOOLEAN

NoAccess == [kind |-> "none", own |-> FALSE]

(* from_tracer: all threads are stopped by the seize, in user mode, maybe  *)
(* with an exit of the hypervisor's own devices still to handle.           *)
ForeignAccess == [kind : {"read", "write"}, own : {FALSE}]

Init ==
    /\ known \in SUBSET Threads
    /\ pc = [t \in Threads |-> "event"]
    /\ call = [t \in Threads |-> "none"]
    /\ ret = [t \in Threads |-> TRUE]
    /\ acc \in [Threads -> ForeignAccess \cup {NoAccess}]
    /\ fresh = [t \in Threads |-> acc[t] # NoAccess]
    /\ page = [t \in Threads |-> [mmio |-> fresh[t], own |-> FALSE,
                                  write |-> acc[t].kind = "write", data |-> "raw"]]
    /\ served = [t \in Threads |-> 0]
    /\ lost = {}
    /\ running = {} /\ in_syscall = {}
    /\ wpc = "resume" /\ serving = {}
    /\ stop = FALSE

(* vmsh lets go of the threads, or hangs trying to. *)
Closing == wpc \in {"done", "stuck"}
Traced == wpc # "done"

-----------------------------------------------------------------------------
(* The hypervisor's threads, the kernel and the guest                      *)

HvKeeps == UNCHANGED <<known, wrapVars, stop>>

(* User code handles an MMIO exit.  There is no device of its own at an    *)
(* address of vmsh's: a write is ignored, a read answered with a constant. *)
HvHandle(t) ==
    /\ pc[t] = "user" /\ fresh[t]
    /\ page' = IF page[t].write THEN page ELSE [page EXCEPT ![t].data = "hypervisor"]
    /\ fresh' = [fresh EXCEPT ![t] = FALSE]
    /\ UNCHANGED <<pc, call, ret, acc, served, lost>> /\ HvKeeps

HvCall(t, c) ==
    /\ pc[t] = "user" /\ ~fresh[t]
    /\ pc' = [pc EXCEPT ![t] = IF Traced THEN "entry" ELSE "kernel"]
    /\ call' = [call EXCEPT ![t] = c]
    /\ UNCHANGED <<ret, page, fresh, acc, served, lost>> /\ HvKeeps

HvSignal(t) ==
    /\ pc[t] = "user" /\ Traced
    /\ pc' = [pc EXCEPT ![t] = "event"]
    /\ UNCHANGED <<call, ret, page, fresh, acc, served, lost>> /\ HvKeeps

Return(t, ok) ==
    /\ pc' = [pc EXCEPT ![t] = IF Traced THEN "exit" ELSE "user"]
    /\ ret' = [ret EXCEPT ![t] = ok]

OtherReturn(t) ==
    /\ pc[t] = "kernel" /\ call[t] # "run"
    /\ Return(t, TRUE)
    /\ UNCHANGED <<call, page, fresh, acc, served, lost>> /\ HvKeeps

(* KVM_RUN first completes the access the last exit was for: KVM keeps its *)
(* own note of the direction, so a read takes the data from the page, and  *)
(* the page's data is of no use any more.                                  *)
Answer(t) ==
    IF acc[t].kind = "read" THEN page[t].data
    ELSE IF served[t] > 0 THEN "device" ELSE "hypervisor"

KvmComplete(t) ==
    /\ pc[t] = "kernel" /\ call[t] = "run"
    /\ acc[t].kind # "none"
    /\ acc' = [acc EXCEPT ![t] = NoAccess]
    /\ served' = [served EXCEPT ![t] = 0]
    /\ lost' = IF ~acc[t].own THEN lost
               ELSE IF Answer(t) = "device" THEN lost \ {t} ELSE lost \cup {t}
    /\ page' = [page EXCEPT ![t].data = "raw"]
    /\ UNCHANGED <<pc, call, ret, fresh>> /\ HvKeeps

(* Then the guest runs until the next exit.  An error leaves the page as   *)
(* it was, or marks it as no MMIO exit.                                    *)
KvmExit(t) ==
    /\ pc[t] = "kernel" /\ call[t] = "run"
    /\ acc[t].kind = "none"
    /\ \/ /\ \E ok \in BOOLEAN : Return(t, ok)
          /\ page' = [page EXCEPT ![t].mmio = FALSE]
          /\ UNCHANGED <<fresh, acc>>
       \/ /\ Return(t, FALSE)
          /\ UNCHANGED <<page, fresh, acc>>
       \/ /\ Return(t, TRUE)
          /\ \E own, write \in BOOLEAN :
               /\ page' = [page EXCEPT ![t] = [mmio |-> TRUE, own |-> own,
                                               write |-> write, data |-> "raw"]]
               /\ acc' = [acc EXCEPT ![t] = [kind |-> IF write THEN "write" ELSE "read",
                                             own |-> own]]
          /\ fresh' = [fresh EXCEPT ![t] = TRUE]
    /\ UNCHANGED <<call, served, lost>> /\ HvKeeps

HvNext ==
    \E t \in Threads :
        \/ HvHandle(t) \/ HvSignal(t) \/ OtherReturn(t) \/ KvmComplete(t) \/ KvmExit(t)
        \/ \E c \in Ioctls \cup {"other"} : HvCall(t, c)

-----------------------------------------------------------------------------
(* The mmio thread                                                         *)

(* Threads of S go on from their stops; back in user mode a thread is in   *)
(* no system call.                                                         *)
LetGo(S) ==
    LET back == {t \in S : pc[t] \in {"exit", "event"}}
    IN  /\ pc' = [t \in Threads |->
                    IF t \in back THEN "user"
                    ELSE IF t \in S /\ pc[t] = "entry" THEN "kernel" ELSE pc[t]]
        /\ call' = [t \in Threads |-> IF t \in back THEN "none" ELSE call[t]]
        /\ ret' = [t \in Threads |-> IF t \in back THEN TRUE ELSE ret[t]]

(* stop_on_syscall *)
StopOnSyscall ==
    /\ wpc = "resume"
    /\ LetGo(Threads \ running)
    /\ running' = Threads
    /\ wpc' = "wait"
    /\ UNCHANGED <<known, page, fresh, acc, served, lost, in_syscall, serving, stop>>

(* The end of the loop's body looks at should_stop. *)
LoopEnd == wpc' = IF stop THEN "detach" ELSE "resume"

Toggled(t) == (in_syscall \ {t}) \cup ({t} \ in_syscall)

(* Mutants: the return value is not looked at; entry and exit are mixed up. *)
IsMmioExitAnyReturn(t) ==
    call[t] = "run" /\ t \notin Toggled(t) /\ t \in known /\ page[t].mmio

IsMmioExitAtEntry(t) ==
    call[t] = "run" /\ t \in Toggled(t) /\ ret[t] /\ t \in known /\ page[t].mmio

(* stopped(): is this stop the return of KVM_RUN with an MMIO exit? *)
IsMmioExit(t) ==
    /\ call[t] = "run" /\ t \notin Toggled(t)
    /\ ret[t]
    /\ t \in known
    /\ page[t].mmio

(* Mutants: every stop is taken for one of a system call; the address of   *)
(* the access is not compared with vmsh's range.                           *)
WaitForIoctlAnyStop(t) ==
    /\ wpc = "wait"
    /\ t \in running /\ pc[t] \in Stops
    /\ running' = running \ {t}
    /\ in_syscall' = Toggled(t)
    /\ LoopEnd
    /\ UNCHANGED <<known, hvVars, serving, stop>>

WaitForIoctlAnyAddress(t) ==
    /\ wpc = "wait"
    /\ t \in running /\ pc[t] \in Stops
    /\ running' = running \ {t}
    /\ in_syscall' = IF pc[t] # "event" /\ call[t] \in Ioctls THEN Toggled(t) ELSE in_syscall
    /\ IF pc[t] # "event" /\ IsMmioExit(t)
       THEN wpc' = "serve" /\ serving' = {t}
       ELSE LoopEnd /\ UNCHANGED serving
    /\ UNCHANGED <<known, hvVars, stop>>

(* wait_for_ioctl: waitpid and process_status; then handle_mmio_exits      *)
(* compares the address with vmsh's range.                                 *)
WaitForIoctl(t) ==
    /\ wpc = "wait"
    /\ t \in running /\ pc[t] \in Stops
    /\ running' = running \ {t}
    /\ in_syscall' = IF pc[t] # "event" /\ call[t] \in Ioctls THEN Toggled(t) ELSE in_syscall
    /\ \/ /\ pc[t] # "event" /\ IsMmioExit(t) /\ page[t].own
          /\ wpc' = "serve" /\ serving' = {t}
       \/ /\ ~(pc[t] # "event" /\ IsMmioExit(t) /\ page[t].own)
          /\ LoopEnd /\ UNCHANGED serving
    /\ UNCHANGED <<known, hvVars, stop>>

(* Mutant: the read is answered but not disguised. *)
HandleMmioRwPlain(t) ==
    /\ wpc = "serve" /\ t \in serving
    /\ page' = IF page[t].write THEN page ELSE [page EXCEPT ![t].data = "device"]
    /\ served' = [served EXCEPT ![t] = @ + 1]
    /\ serving' = {}
    /\ LoopEnd
    /\ UNCHANGED <<known, pc, call, ret, fresh, acc, lost, running, in_syscall, stop>>

(* handle_mmio_rw: the device's answer to a read goes into the page, which *)
(* then claims to be a write. *)
HandleMmioRw(t) ==
    /\ wpc = "serve" /\ t \in serving
    /\ page' = IF page[t].write THEN page
               ELSE [page EXCEPT ![t].data = "device", ![t].write = TRUE]
    /\ served' = [served EXCEPT ![t] = @ + 1]
    /\ serving' = {}
    /\ LoopEnd
    /\ UNCHANGED <<known, pc, call, ret, fresh, acc, lost, running, in_syscall, stop>>

(* It fails, in the device or in one of the two writes to the page. *)
HandleMmioRwFails(t) ==
    /\ wpc = "serve" /\ t \in serving
    /\ \/ UNCHANGED page
       \/ ~page[t].write /\ page' = [page EXCEPT ![t].data = "device"]
    /\ serving' = {}
    /\ wpc' = "detach"
    /\ UNCHANGED <<known, pc, call, ret, fresh, acc, served, lost, running,
                   in_syscall, stop>>

(* prepare_detach interrupts the threads that run and waits for their      *)
(* stops, then the wrapper is gone and all are let go.  A stop that is no  *)
(* system call stop and was not waited for blocks it.                      *)
PrepareDetach ==
    /\ wpc = "detach"
    /\ \/ /\ \A t \in running : pc[t] # "event"
          /\ LetGo(Threads)
          /\ running' = {} /\ in_syscall' = {}
          /\ wpc' = "done"
       \/ /\ \E t \in running : pc[t] = "event"
          /\ UNCHANGED <<pc, call, ret, running, in_syscall>>
          /\ wpc' = "stuck"
    /\ UNCHANGED <<known, page, fresh, acc, served, lost, serving, stop>>

Shutdown ==
    /\ ~stop /\ stop' = TRUE
    /\ UNCHANGED <<known, hvVars, wrapVars>>

Next ==
    \/ HvNext \/ Shutdown
    \/ StopOnSyscall \/ PrepareDetach
    \/ \E t \in Threads : WaitForIoctl(t) \/ HandleMmioRw(t) \/ HandleMmioRwFails(t)

Spec == Init /\ [][Next]_vars

-----------------------------------------------------------------------------
(* Properties                                                              *)

(* in_syscall, a count of stops, tells the truth: a thread has it exactly  *)
(* while it is inside an ioctl, seen from the stops waited for so far,     *)
(* whatever signals and other system calls come in between.                *)
InSyscallTracks ==
    ~Closing =>
        \A t \in Threads :
            LET inside == \/ pc[t] = "kernel"
                          \/ pc[t] = "entry" /\ t \notin running
                          \/ pc[t] = "exit" /\ t \in running
            IN  t \in in_syscall <=> call[t] \in Ioctls /\ inside

(* The hypervisor never gets to see an access to vmsh's range before the   *)
(* device has handled it, once, and never as a read it would answer.       *)
ServedBeforeSeen ==
    \A t \in known :
        (fresh[t] /\ acc[t].own /\ pc[t] \in {"user", "event"} /\ ~Closing) =>
            served[t] = 1 /\ page[t].write

(* Accesses to the hypervisor's own devices reach it as KVM reported them. *)
ForeignUntouched ==
    \A t \in Threads :
        (fresh[t] /\ ~acc[t].own) =>
            /\ page[t].write = (acc[t].kind = "write")
            /\ page[t].data = "raw"
            /\ served[t] = 0

(* The promise of MmioService.  Threads whose vCPU is unknown have no      *)
(* access to vmsh's devices as far as the service is concerned.            *)
Phase(t) ==
    IF t \notin known THEN "idle"
    ELSE IF acc[t].kind # "none" /\ acc[t].own
         THEN IF served[t] > 0 THEN "served" ELSE "issued"
    ELSE IF t \in lost THEN "lost" ELSE "idle"

Service == INSTANCE MmioService WITH
    Vcpus <- Threads,
    phase <- [t \in Threads |-> Phase(t)],
    closing <- Closing

(* vmsh's devices are served as MmioService promises. *)
ServiceSpec == Service!Spec
=============================================================================
