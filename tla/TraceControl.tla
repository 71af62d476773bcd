---------------------------- MODULE TraceControl ----------------------------
(***************************************************************************)
(* Who controls the hypervisor's threads.  vmsh holds the hypervisor by    *)
(* ptrace either as an inject_syscall::Process (every known thread         *)
(* stopped, the leader's text patched with a syscall instruction) or as a  *)
(* KvmRunWrapper (the threads run and stop at their system calls).  Only   *)
(* the vmsh thread that seized a hypervisor thread can make ptrace         *)
(* requests about it, so handing control from one vmsh thread to another   *)
(* means detaching in the first (disown) and seizing again in the second   *)
(* (adopt).                                                                *)
(*                                                                         *)
(* This module has the state and the operations of src/tracer and of       *)
(* kvm/tracee.rs; module Attach has the vmsh threads that call them.       *)
(***************************************************************************)
EXTENDS Naturals, FiniteSets

CONSTANTS
    NThreads,    \* how many threads the hypervisor may ever have
    Main, Mmio,  \* the vmsh threads that trace: main and mmio-exit-handler
    Nobody       \* owner: None, or no tracer

ASSUME ThreadsAssumption == NThreads \in Nat \ {0}
ASSUME TracersAssumption == Main # Mmio /\ Nobody \notin {Main, Mmio}

(***************************************************************************)
(* Hypervisor threads in the order of /proc/<pid>/task, which is creation  *)
(* order: the leader comes first, so process_idx is its index 0.           *)
(***************************************************************************)
HvThreads == 1 .. NThreads
Leader == 1
Tracers == {Main, Mmio}

VARIABLES
    life,    \* the kernel's state of every hypervisor thread
    tracer,  \* the vmsh thread that traces it, or Nobody
    text,    \* the word at the leader's saved instruction pointer
    proc,    \* Tracee.proc: Option<Process>
    wrapper, \* Hypervisor.wrapper: Option<KvmRunWrapper>
    walk     \* the seize loop in progress

traceVars == <<life, tracer, text, proc, wrapper, walk>>

(***************************************************************************)
(* "syscall" and "signal" are ptrace stops nobody has waited for yet,      *)
(* "stopped" is one that was; a "zombie" has exited and its tracer has not *)
(* been told; "gone" threads have left /proc.                              *)
(***************************************************************************)
Stops == {"syscall", "signal", "stopped"}
Lives == {"unborn", "running", "zombie", "gone"} \cup Stops

(* The leader leaves only with the whole process. *)
Alive == life[Leader] # "gone"

NoProc == [some |-> FALSE, owner |-> Nobody, held |-> FALSE,
           threads |-> {}, saved |-> "orig"]
NoWrapper == [some |-> FALSE, threads |-> {}, running |-> {}]
NoWalk == [by |-> Nobody, todo |-> {}, at |-> 0, got |-> {}]

TraceTypeOK ==
    /\ life \in [HvThreads -> Lives]
    /\ tracer \in [HvThreads -> Tracers \cup {Nobody}]
    /\ text \in {"orig", "patched"}
    /\ proc \in [some : BOOLEAN, owner : Tracers \cup {Nobody}, held : BOOLEAN,
                 threads : SUBSET HvThreads, saved : {"orig", "patched"}]
    /\ wrapper \in [some : BOOLEAN, threads : SUBSET HvThreads,
                    running : SUBSET HvThreads]
    /\ walk \in [by : Tracers \cup {Nobody}, todo : SUBSET HvThreads,
                 at : HvThreads \cup {0}, got : SUBSET HvThreads]

TraceInit ==
    /\ \E born \in HvThreads :
         life = [t \in HvThreads |-> IF t <= born THEN "running" ELSE "unborn"]
    /\ tracer = [t \in HvThreads |-> Nobody]
    /\ text = "orig"
    /\ proc = NoProc
    /\ wrapper = NoWrapper
    /\ walk = NoWalk

-----------------------------------------------------------------------------
(* ptrace requests.  They work only in the tracer and only on a stop.      *)

(* The threads of S on which a request of vmsh thread v succeeds. *)
Reachable(v, S) == {t \in S : tracer[t] = v /\ life[t] \in Stops}

(* PTRACE_DETACH of the threads of S: they run on, untraced. *)
DetachAll(S) ==
    /\ life' = [t \in HvThreads |-> IF t \in S THEN "running" ELSE life[t]]
    /\ tracer' = [t \in HvThreads |-> IF t \in S THEN Nobody ELSE tracer[t]]

(* What the kernel does with the tracees of vmsh threads V when they exit. *)
TracerExit(V) ==
    /\ life' = [t \in HvThreads |->
                  IF tracer[t] \in V /\ life[t] \in Stops THEN "running"
                  ELSE IF tracer[t] \in V /\ life[t] = "zombie" THEN "gone"
                  ELSE life[t]]
    /\ tracer' = [t \in HvThreads |->
                    IF tracer[t] \in V THEN Nobody ELSE tracer[t]]

-----------------------------------------------------------------------------
(* The seize loop: attach_all_threads goes through a snapshot of the task  *)
(* directory, adopt through the threads it had.  Threads that cannot be    *)
(* seized are left out.                                                    *)

StartWalk(v, S) ==
    /\ walk.by = Nobody
    /\ walk' = [by |-> v, todo |-> S, at |-> 0, got |-> {}]
    /\ UNCHANGED <<life, tracer, text, proc, wrapper>>

(* Mutant: the list starts one entry early. *)
ListedFromZero == {0} \cup {t \in HvThreads : life[t] \notin {"unborn", "gone"}}

(* The task directory of the hypervisor. *)
Listed == {t \in HvThreads : life[t] \notin {"unborn", "gone"}}

(* attach_seize: PTRACE_SEIZE and PTRACE_INTERRUPT of the next thread; one  *)
(* that cannot be seized is left out.                                      *)
SeizeNext(v) ==
    /\ walk.by = v /\ walk.at = 0
    /\ \E t \in walk.todo :
         /\ \A u \in walk.todo : t <= u
         /\ \/ /\ life[t] = "running" /\ tracer[t] = Nobody
               /\ tracer' = [tracer EXCEPT ![t] = v]
               /\ walk' = [walk EXCEPT !.todo = @ \ {t}, !.at = t]
            \/ /\ ~(life[t] = "running" /\ tracer[t] = Nobody)
               /\ walk' = [walk EXCEPT !.todo = @ \ {t}]
               /\ UNCHANGED tracer
    /\ UNCHANGED <<life, text, proc, wrapper>>

(* Its waitpid returns: the thread stopped, ... *)
SeizeStopped(v) ==
    /\ walk.by = v /\ walk.at # 0
    /\ life[walk.at] = "running"
    /\ life' = [life EXCEPT ![walk.at] = "stopped"]
    /\ walk' = [walk EXCEPT !.got = @ \cup {walk.at}, !.at = 0]
    /\ UNCHANGED <<tracer, text, proc, wrapper>>

(* ... or it has ended since it was seized.  Nobody looks at the status,   *)
(* so it is kept like one that stopped.                                    *)
SeizeKeepsDead(v) ==
    /\ walk.by = v /\ walk.at # 0
    /\ life[walk.at] \in {"zombie", "gone"}
    /\ life' = [life EXCEPT ![walk.at] = "gone"]
    /\ tracer' = [tracer EXCEPT ![walk.at] = Nobody]
    /\ walk' = [walk EXCEPT !.got = @ \cup {walk.at}, !.at = 0]
    /\ UNCHANGED <<text, proc, wrapper>>

(* It had ended before PTRACE_INTERRUPT, which fails: it is left out, and  *)
(* nobody waits for it.                                                    *)
SeizeGivesUp(v) ==
    /\ walk.by = v /\ walk.at # 0
    /\ life[walk.at] \in {"zombie", "gone"}
    /\ walk' = [walk EXCEPT !.at = 0]
    /\ UNCHANGED <<life, tracer, text, proc, wrapper>>

WalkDone(v) == walk.by = v /\ walk.todo = {} /\ walk.at = 0

(* init() indexes the seized threads: it panics when there are none ... *)
InitPanics == walk.got = {}

(* ... and fails when the leader no longer takes requests. *)
InitFails(v) == walk.got # {} /\ Leader \notin Reachable(v, walk.got)

(* The seized threads become a Process of v, the text saved and patched. *)
Patched(v) ==
    [some |-> TRUE, owner |-> v, held |-> TRUE, threads |-> walk.got, saved |-> text]

InitPatch(v) ==
    /\ WalkDone(v)
    /\ Leader \in Reachable(v, walk.got)
    /\ text' = "patched"
    /\ proc' = Patched(v)
    /\ walk' = NoWalk
    /\ UNCHANGED <<life, tracer, wrapper>>

(* init() fails or panics in attach: nothing was stored yet. *)
AttachAbort(v) ==
    /\ WalkDone(v)
    /\ InitPanics \/ InitFails(v)
    /\ DetachAll(Reachable(v, walk.got))
    /\ walk' = NoWalk
    /\ UNCHANGED <<text, proc, wrapper>>

(* init() fails or panics in adopt: the threads had been taken out. *)
AdoptAbort(v) ==
    /\ WalkDone(v)
    /\ InitPanics \/ InitFails(v)
    /\ DetachAll(Reachable(v, walk.got))
    /\ walk' = NoWalk
    /\ proc' = [proc EXCEPT !.held = FALSE, !.threads = {}]
    /\ UNCHANGED <<text, wrapper>>

-----------------------------------------------------------------------------
(* deinit: write the saved text back, if the process still has its threads *)
(* and the caller is the one that may write.                               *)
Restored(v) ==
    IF proc.held /\ Leader \in Reachable(v, proc.threads) THEN proc.saved ELSE text

(* Whether thread v may inject a system call now (check_owner and the      *)
(* expectations of main_thread).                                           *)
CanInject(v) ==
    /\ proc.some /\ proc.held /\ proc.owner = v
    /\ Leader \in Reachable(v, proc.threads)

(* Mutant: disown detaches without writing the saved text back. *)
DisownNoRestore(v) ==
    /\ proc.some /\ proc.held /\ proc.owner # Nobody
    /\ Reachable(v, proc.threads) = proc.threads
    /\ DetachAll(proc.threads)
    /\ proc' = [proc EXCEPT !.owner = Nobody]
    /\ UNCHANGED <<text, wrapper, walk>>

(* disown: restore, then detach every thread; an error keeps the owner and *)
(* loses the threads.                                                      *)
DisownOk(v) ==
    /\ proc.some /\ proc.held /\ proc.owner # Nobody
    /\ Reachable(v, proc.threads) = proc.threads
    /\ text' = Restored(v)
    /\ DetachAll(proc.threads)
    /\ proc' = [proc EXCEPT !.owner = Nobody]
    /\ UNCHANGED <<wrapper, walk>>

DisownErr(v) ==
    \/ /\ ~proc.some \/ proc.owner = Nobody
       /\ UNCHANGED traceVars
    \/ /\ proc.some /\ proc.held /\ proc.owner # Nobody
       /\ Reachable(v, proc.threads) # proc.threads
       /\ text' = Restored(v)
       /\ DetachAll(Reachable(v, proc.threads))
       /\ proc' = [proc EXCEPT !.held = FALSE, !.threads = {}]
       /\ UNCHANGED <<wrapper, walk>>

(* Mutant: the threads of a dropped Process are not detached. *)
DropProcessNoDetach(v) ==
    /\ text' = Restored(v)
    /\ proc' = NoProc
    /\ UNCHANGED <<life, tracer, wrapper, walk>>

(* Tracee.detach and the drop of the Process it returns. *)
DropProcess(v) ==
    /\ text' = Restored(v)
    /\ DetachAll(Reachable(v, proc.threads))
    /\ proc' = NoProc
    /\ UNCHANGED <<wrapper, walk>>

-----------------------------------------------------------------------------
(* kvmrun_wrapped: the Process becomes a KvmRunWrapper and back.           *)

(* into_tracer and KvmRunWrapper::from_tracer. *)
Wrap(v) ==
    /\ proc.some /\ proc.held
    /\ text' = Restored(v)
    /\ wrapper' = [some |-> TRUE, threads |-> proc.threads, running |-> {}]
    /\ proc' = NoProc
    /\ UNCHANGED <<life, tracer, walk>>

(* from_tracer refuses a hypervisor of vmsh's own process group, or one    *)
(* that died: the Tracer is dropped, which detaches.                       *)
WrapRefused(v) ==
    /\ proc.some /\ proc.held
    /\ DropProcess(v)

(* stop_on_syscall: PTRACE_SYSCALL for every thread that is not running, ... *)
StopOnSyscall(v) ==
    /\ wrapper.threads \ wrapper.running \subseteq Reachable(v, wrapper.threads)
    /\ life' = [t \in HvThreads |->
                  IF t \in wrapper.threads \ wrapper.running THEN "running" ELSE life[t]]
    /\ wrapper' = [wrapper EXCEPT !.running = wrapper.threads]
    /\ UNCHANGED <<tracer, text, proc, walk>>

(* ... up to the first that does not take the request. *)
StopOnSyscallErr(v) ==
    /\ \E t \in wrapper.threads \ wrapper.running :
         /\ t \notin Reachable(v, wrapper.threads)
         /\ LET resumed == {u \in wrapper.threads \ wrapper.running : u < t}
            IN  /\ resumed \subseteq Reachable(v, wrapper.threads)
                /\ life' = [u \in HvThreads |-> IF u \in resumed THEN "running" ELSE life[u]]
                /\ wrapper' = [wrapper EXCEPT !.running = @ \cup resumed]
    /\ UNCHANGED <<tracer, text, proc, walk>>

(* Mutant: is_running is not cleared when the stop is waited for. *)
ReapStopNoFlag(t) ==
    /\ t \in wrapper.threads
    /\ life[t] \in {"syscall", "signal"}
    /\ life' = [life EXCEPT ![t] = "stopped"]
    /\ UNCHANGED <<tracer, text, proc, wrapper, walk>>

(* waitpid on the process group, then process_status: a stop is taken      *)
(* note of, an exited thread is dropped.                                   *)
ReapStop(t) ==
    /\ t \in wrapper.threads
    /\ life[t] \in {"syscall", "signal"}
    /\ life' = [life EXCEPT ![t] = "stopped"]
    /\ wrapper' = [wrapper EXCEPT !.running = @ \ {t}]
    /\ UNCHANGED <<tracer, text, proc, walk>>

ReapExit(t) ==
    /\ t \in wrapper.threads
    /\ life[t] = "zombie"
    /\ life' = [life EXCEPT ![t] = "gone"]
    /\ tracer' = [tracer EXCEPT ![t] = Nobody]
    /\ wrapper' = [wrapper EXCEPT !.running = @ \ {t}, !.threads = @ \ {t}]
    /\ UNCHANGED <<text, proc, walk>>

(* The exit of a thread the wrapper does not have is waited for, too. *)
ReapOther(v, t) ==
    /\ t \notin wrapper.threads /\ tracer[t] = v
    /\ life[t] = "zombie"
    /\ life' = [life EXCEPT ![t] = "gone"]
    /\ tracer' = [tracer EXCEPT ![t] = Nobody]
    /\ UNCHANGED <<text, proc, wrapper, walk>>

(* prepare_detach goes through the threads marked running in order,        *)
(* interrupts each and waits for a stop.  A pending system call stop ends  *)
(* the wait; a pending signal stop does not, and blocks it for good.  An   *)
(* exited thread makes the interrupt fail: the wrapper is then dropped and *)
(* runs prepare_detach once more, which blocks on the first thread that    *)
(* was already interrupted, because its stop has been waited for.          *)
DetachHits == {t \in wrapper.running : life[t] \notin {"running", "syscall"}}

DetachOk == DetachHits = {}

FirstHit(t) == t \in DetachHits /\ \A u \in DetachHits : t <= u

DetachHangs ==
    \E t \in DetachHits :
        /\ FirstHit(t)
        /\ life[t] = "signal" \/ \E u \in wrapper.running : u < t

DetachFails == DetachHits # {} /\ ~DetachHangs

UnwrapHang ==
    /\ \E t \in DetachHits :
         /\ FirstHit(t)
         /\ life' = [u \in HvThreads |->
                       IF u \in wrapper.running /\ u <= t /\ life[u] # "zombie"
                       THEN "stopped" ELSE life[u]]
    /\ UNCHANGED <<tracer, text, proc, wrapper, walk>>

(* KvmRunWrapper::into_tracer and inject_syscall::from_tracer succeed. *)
Unwrap(v) ==
    /\ DetachOk
    /\ Leader \in wrapper.threads /\ Alive
    /\ life' = [t \in HvThreads |-> IF t \in wrapper.running THEN "stopped" ELSE life[t]]
    /\ text' = "patched"
    /\ proc' = [some |-> TRUE, owner |-> v, held |-> TRUE,
                threads |-> wrapper.threads, saved |-> text]
    /\ wrapper' = NoWrapper
    /\ UNCHANGED <<tracer, walk>>

(* init() on threads that are all gone: an index panic when the list is    *)
(* empty, an error otherwise.                                              *)
UnwrapPanics == DetachOk /\ wrapper.threads = {}

(* into_tracer fails, or init() does: the wrapper is dropped.  Threads in  *)
(* a stop are detached, running ones stay seized until v exits.            *)
UnwrapErr(v) ==
    /\ \/ DetachFails
       \/ DetachOk /\ wrapper.threads # {} /\ ~Alive
    /\ DetachAll(Reachable(v, wrapper.threads))
    /\ wrapper' = NoWrapper
    /\ UNCHANGED <<text, proc, walk>>

-----------------------------------------------------------------------------
(* The hypervisor.                                                         *)

(* clone(): new threads are not traced (no PTRACE_O_TRACECLONE). *)
SpawnThread(t) ==
    /\ life[t] = "unborn"
    /\ \A u \in HvThreads : u < t => life[u] # "unborn"
    /\ \E u \in HvThreads : life[u] = "running"
    /\ life' = [life EXCEPT ![t] = "running"]
    /\ UNCHANGED <<tracer, text, proc, wrapper, walk>>

(* A thread other than the leader ends. *)
ExitThread(t) ==
    /\ t # Leader
    /\ life[t] = "running"
    /\ life' = [life EXCEPT ![t] = IF tracer[t] = Nobody THEN "gone" ELSE "zombie"]
    /\ UNCHANGED <<tracer, text, proc, wrapper, walk>>

(* A traced thread stops: at a system call, or to have a signal delivered. *)
(* Any stop of a thread that is being seized is what attach_seize awaits.  *)
Trap(t, how) ==
    /\ life[t] = "running" /\ tracer[t] # Nobody /\ t # walk.at
    /\ life' = [life EXCEPT ![t] = how]
    /\ UNCHANGED <<tracer, text, proc, wrapper, walk>>

(* The process ends, with all its threads and its address space. *)
Die ==
    /\ Alive
    /\ life' = [t \in HvThreads |-> "gone"]
    /\ tracer' = [t \in HvThreads |-> Nobody]
    /\ text' = "orig"
    /\ UNCHANGED <<proc, wrapper, walk>>
=============================================================================
