------------------------ MODULE KvmRunWrapperProofs ------------------------
(***************************************************************************)
(* Proofs about KvmRunWrapper, for every finite set of threads: its        *)
(* invariants, and that it implements MmioService.                         *)
(***************************************************************************)
EXTENDS KvmRunWrapper, TLAPS

-----------------------------------------------------------------------------
(* The inductive invariant                                                 *)

(* A thread that runs was let go after the last stop waited for.           *)
Released == Traced => \A t \in Threads : pc[t] \in {"user", "kernel"} => t \in running

(* The exit being handled is an unanswered access to vmsh's range, and its *)
(* thread is still stopped.                                                *)
ServingInv ==
    /\ wpc # "serve" => serving = {}
    /\ \A t, u \in serving : t = u
    /\ \A t \in serving :
        /\ t \in known /\ t \notin running /\ pc[t] = "exit"
        /\ fresh[t] /\ acc[t].own /\ served[t] = 0

(* The page the hypervisor reads and the access KVM remembers agree: ...   *)
PageInv(t) ==
    /\ fresh[t] => /\ acc[t].kind # "none" /\ page[t].mmio /\ page[t].own = acc[t].own
                   /\ pc[t] \notin {"kernel", "entry"}
    (* ... an answer once given is protected until KVM takes it, ...       *)
    /\ served[t] = 1 => /\ t \in known /\ acc[t].kind # "none" /\ acc[t].own
                        /\ page[t].write
                        /\ acc[t].kind = "read" => page[t].data = "device"
    (* ... a read without one is answered by the hypervisor, ...           *)
    /\ served[t] = 0 /\ acc[t].kind = "read" =>
         IF fresh[t] THEN ~page[t].write ELSE page[t].data # "device"
    (* ... and an exit of another device is as KVM left it.                *)
    /\ fresh[t] /\ ~acc[t].own =>
         page[t].write = (acc[t].kind = "write") /\ page[t].data = "raw"

(* The stop at which an exit can be caught has not gone by unnoticed.      *)
CatchInv(t) ==
    /\ (t \in known /\ acc[t].kind # "none" /\ acc[t].own /\ served[t] = 0 /\ ~Closing) =>
         /\ fresh[t] /\ pc[t] = "exit" /\ call[t] = "run" /\ ret[t]
         /\ t \in running \/ t \in serving \/ wpc = "detach"
    /\ (Traced /\ t \in running /\ pc[t] = "exit" /\ call[t] = "run" /\ ret[t] /\ page[t].mmio) =>
         fresh[t] /\ served[t] = 0

Inv ==
    /\ TypeOK /\ InSyscallTracks /\ Released /\ ServingInv
    /\ \A t \in Threads : PageInv(t) /\ CatchInv(t)

(* Writing the data field of a run page leaves it a run page. *)
LEMMA DataTypes ==
    ASSUME page \in [Threads -> Pages], NEW u \in Threads,
           NEW d \in {"raw", "device", "hypervisor"}
    PROVE  [page EXCEPT ![u].data = d] \in [Threads -> Pages]
<1>1. page[u] \in Pages
  BY Zenon
<1>2. [page[u] EXCEPT !.data = d] \in Pages
  BY <1>1 DEF Pages
<1> DEFINE p == [page[u] EXCEPT !.data = d]
<1>3. p \in Pages
  BY <1>2, Zenon
<1>4. [page EXCEPT ![u].data = d] = [page EXCEPT ![u] = p]
  OBVIOUS
<1> HIDE DEF p
<1>5. [page EXCEPT ![u] = p] \in [Threads -> Pages]
  BY <1>3
<1> QED
  BY <1>4, <1>5, Zenon

(* User code of the hypervisor handles an exit; one of a served access     *)
(* claims to be a write.                                                   *)
LEMMA HvHandleKeeps ==
    ASSUME Inv, NEW u \in Threads, HvHandle(u)
    PROVE  Inv'
<1>0. /\ TypeOK /\ InSyscallTracks /\ Released /\ ServingInv
      /\ \A t \in Threads : PageInv(t) /\ CatchInv(t)
  BY DEF Inv
<1>1. TypeOK'
  <2>1. page' \in [Threads -> Pages]
    BY <1>0, DataTypes, Zenon DEF HvHandle, TypeOK
  <2>2. QED
    BY <1>0, <2>1 DEF HvHandle, HvKeeps, wrapVars, TypeOK
<1>2. InSyscallTracks'
  BY <1>0 DEF HvHandle, HvKeeps, wrapVars, InSyscallTracks, Closing
<1>3. Released'
  BY <1>0 DEF HvHandle, HvKeeps, wrapVars, Released, Traced
<1>4. ServingInv'
  BY <1>0 DEF HvHandle, HvKeeps, wrapVars, ServingInv
<1>5. ASSUME NEW t \in Threads PROVE PageInv(t)'
  BY <1>0 DEF HvHandle, HvKeeps, TypeOK, PageInv
<1>6. ASSUME NEW t \in Threads PROVE CatchInv(t)'
  BY <1>0 DEF HvHandle, HvKeeps, wrapVars, CatchInv, Closing, Traced
<1>. QED BY <1>1, <1>2, <1>3, <1>4, <1>5, <1>6 DEF Inv

(* A signal stops a thread between its system calls. *)
LEMMA HvSignalKeeps ==
    ASSUME Inv, NEW u \in Threads, HvSignal(u)
    PROVE  Inv'
<1>0. /\ TypeOK /\ InSyscallTracks /\ Released /\ ServingInv
      /\ \A t \in Threads : PageInv(t) /\ CatchInv(t)
  BY DEF Inv
<1>1. TypeOK'
  BY <1>0 DEF HvSignal, HvKeeps, wrapVars, TypeOK, Stops
<1>2. InSyscallTracks'
  BY <1>0 DEF HvSignal, HvKeeps, wrapVars, InSyscallTracks, Closing
<1>3. Released'
  BY <1>0 DEF HvSignal, HvKeeps, wrapVars, Released
<1>4. ServingInv'
  BY <1>0 DEF HvSignal, HvKeeps, wrapVars, ServingInv
<1>5. ASSUME NEW t \in Threads PROVE PageInv(t)'
  BY <1>0 DEF HvSignal, HvKeeps, PageInv
<1>6. ASSUME NEW t \in Threads PROVE CatchInv(t)'
  BY <1>0 DEF HvSignal, HvKeeps, wrapVars, CatchInv, Closing
<1>. QED BY <1>1, <1>2, <1>3, <1>4, <1>5, <1>6 DEF Inv

(* A system call other than KVM_RUN returns. *)
LEMMA OtherReturnKeeps ==
    ASSUME Inv, NEW u \in Threads, OtherReturn(u)
    PROVE  Inv'
<1>0. /\ TypeOK /\ InSyscallTracks /\ Released /\ ServingInv
      /\ \A t \in Threads : PageInv(t) /\ CatchInv(t)
  BY DEF Inv
<1>1. TypeOK'
  BY <1>0 DEF OtherReturn, Return, HvKeeps, wrapVars, TypeOK, Stops
<1>2. InSyscallTracks'
  BY <1>0 DEF OtherReturn, Return, HvKeeps, wrapVars, InSyscallTracks, Released,
         Closing, Traced
<1>3. Released'
  BY <1>0 DEF OtherReturn, Return, HvKeeps, wrapVars, Released, Traced
<1>4. ServingInv'
  BY <1>0 DEF OtherReturn, Return, HvKeeps, wrapVars, ServingInv
<1>5. ASSUME NEW t \in Threads PROVE PageInv(t)'
  BY <1>0 DEF OtherReturn, Return, HvKeeps, PageInv
<1>6. ASSUME NEW t \in Threads PROVE CatchInv(t)'
  BY <1>0 DEF OtherReturn, Return, HvKeeps, wrapVars, CatchInv, Closing, Traced
<1>. QED BY <1>1, <1>2, <1>3, <1>4, <1>5, <1>6 DEF Inv

(* KVM completes the access of the last exit and forgets it. *)
LEMMA KvmCompleteKeeps ==
    ASSUME Inv, NEW u \in Threads, KvmComplete(u)
    PROVE  Inv'
<1>0. /\ TypeOK /\ InSyscallTracks /\ Released /\ ServingInv
      /\ \A t \in Threads : PageInv(t) /\ CatchInv(t)
  BY DEF Inv
<1>1. TypeOK'
  <2>1. page' \in [Threads -> Pages]
    BY <1>0, DataTypes, Zenon DEF KvmComplete, TypeOK
  <2>2. acc' \in [Threads -> [kind : {"none", "read", "write"}, own : BOOLEAN]]
    BY <1>0 DEF KvmComplete, TypeOK, NoAccess
  <2>3. served' \in [Threads -> 0..1] /\ lost' \subseteq Threads
    BY <1>0 DEF KvmComplete, TypeOK
  <2>4. QED
    BY <1>0, <2>1, <2>2, <2>3 DEF KvmComplete, HvKeeps, wrapVars, TypeOK
<1>2. InSyscallTracks'
  BY <1>0 DEF KvmComplete, HvKeeps, wrapVars, InSyscallTracks, Closing
<1>3. Released'
  BY <1>0 DEF KvmComplete, HvKeeps, wrapVars, Released, Traced
<1>4. ServingInv'
  BY <1>0 DEF KvmComplete, HvKeeps, wrapVars, ServingInv
<1>5. ASSUME NEW t \in Threads PROVE PageInv(t)'
  <2>1. CASE t = u
    BY <1>0, <2>1 DEF KvmComplete, TypeOK, PageInv
  <2>2. CASE t # u
    <3>1. page'[t] = page[t] /\ acc'[t] = acc[t] /\ served'[t] = served[t]
      BY <1>0, <2>2 DEF KvmComplete
    <3>2. pc' = pc /\ fresh' = fresh /\ known' = known
      BY DEF KvmComplete, HvKeeps
    <3>. QED BY <1>0, <3>1, <3>2 DEF PageInv
  <2>. QED BY <2>1, <2>2
<1>6. ASSUME NEW t \in Threads PROVE CatchInv(t)'
  BY <1>0 DEF KvmComplete, HvKeeps, NoAccess, wrapVars, TypeOK, CatchInv, Closing,
         Traced
<1>. QED BY <1>1, <1>2, <1>3, <1>4, <1>5, <1>6 DEF Inv

(* KVM_RUN returns: with an MMIO exit, another exit or an error. *)
LEMMA KvmExitKeeps ==
    ASSUME Inv, NEW u \in Threads, KvmExit(u)
    PROVE  Inv'
<1>0. /\ TypeOK /\ InSyscallTracks /\ Released /\ ServingInv
      /\ \A t \in Threads : PageInv(t) /\ CatchInv(t)
  BY DEF Inv
<1>1. TypeOK'
  <2>. DEFINE Acc == [kind : {"none", "read", "write"}, own : BOOLEAN]
  <2>1. page' \in [Threads -> Pages] /\ acc' \in [Threads -> Acc]
    <3>0. page \in [Threads -> Pages] /\ acc \in [Threads -> Acc]
      BY <1>0 DEF TypeOK
    <3>1. CASE page' = [page EXCEPT ![u].mmio = FALSE] /\ UNCHANGED <<fresh, acc>>
      BY <3>0, <3>1, ZenonT(60) DEF Pages
    <3>2. CASE UNCHANGED <<page, fresh, acc>>
      BY <3>0, <3>2
    <3>3. ASSUME NEW own \in BOOLEAN, NEW write \in BOOLEAN,
                 page' = [page EXCEPT ![u] = [mmio |-> TRUE, own |-> own,
                                              write |-> write, data |-> "raw"]],
                 acc' = [acc EXCEPT ![u] = [kind |-> IF write THEN "write" ELSE "read",
                                            own |-> own]]
          PROVE  page' \in [Threads -> Pages] /\ acc' \in [Threads -> Acc]
      <4>1. [mmio |-> TRUE, own |-> own, write |-> write, data |-> "raw"] \in Pages
        BY DEF Pages
      <4>2. [kind |-> IF write THEN "write" ELSE "read", own |-> own] \in Acc
        OBVIOUS
      <4>. HIDE DEF Acc
      <4>. QED BY <3>0, <3>3, <4>1, <4>2
    <3>. QED BY <3>1, <3>2, <3>3 DEF KvmExit
  <2>3. pc' \in [Threads -> {"user", "kernel"} \cup Stops] /\ ret' \in [Threads -> BOOLEAN]
    BY <1>0, ZenonT(60) DEF KvmExit, Return, TypeOK, Stops
  <2>4. fresh' \in [Threads -> BOOLEAN]
    BY <1>0 DEF KvmExit, TypeOK
  <2>5. QED
    BY <1>0, <2>1, <2>3, <2>4 DEF KvmExit, HvKeeps, wrapVars, TypeOK
<1>2. InSyscallTracks'
  BY <1>0 DEF KvmExit, Return, HvKeeps, wrapVars, TypeOK, InSyscallTracks, Released,
         Closing, Traced
<1>3. Released'
  BY <1>0 DEF KvmExit, Return, HvKeeps, wrapVars, TypeOK, Released, Traced
<1>4. ServingInv'
  BY <1>0 DEF KvmExit, Return, HvKeeps, wrapVars, TypeOK, ServingInv
<1>5. ASSUME NEW t \in Threads PROVE PageInv(t)'
  BY <1>0 DEF KvmExit, Return, HvKeeps, TypeOK, PageInv
<1>6. ASSUME NEW t \in Threads PROVE CatchInv(t)'
  BY <1>0 DEF KvmExit, Return, HvKeeps, wrapVars, TypeOK, PageInv, CatchInv, ServingInv,
         Released, Pages, Closing, Traced
<1>. QED BY <1>1, <1>2, <1>3, <1>4, <1>5, <1>6 DEF Inv

(* A thread enters a system call. *)
LEMMA HvCallKeeps ==
    ASSUME Inv, NEW u \in Threads, NEW c \in Ioctls \cup {"other"}, HvCall(u, c)
    PROVE  Inv'
<1>0. /\ TypeOK /\ InSyscallTracks /\ Released /\ ServingInv
      /\ \A t \in Threads : PageInv(t) /\ CatchInv(t)
  BY DEF Inv
<1>1. TypeOK'
  BY <1>0 DEF HvCall, HvKeeps, wrapVars, TypeOK, Stops
<1>2. InSyscallTracks'
  BY <1>0 DEF HvCall, HvKeeps, wrapVars, InSyscallTracks, Released, Closing, Traced
<1>3. Released'
  BY <1>0 DEF HvCall, HvKeeps, wrapVars, Released, Traced
<1>4. ServingInv'
  BY <1>0 DEF HvCall, HvKeeps, wrapVars, ServingInv
<1>5. ASSUME NEW t \in Threads PROVE PageInv(t)'
  BY <1>0 DEF HvCall, HvKeeps, PageInv
<1>6. ASSUME NEW t \in Threads PROVE CatchInv(t)'
  BY <1>0 DEF HvCall, HvKeeps, wrapVars, CatchInv, Closing, Traced
<1>. QED BY <1>1, <1>2, <1>3, <1>4, <1>5, <1>6 DEF Inv

(* stop_on_syscall lets the stopped threads go: the access of none of them *)
(* is still unanswered.                                                    *)
LEMMA StopOnSyscallKeeps ==
    ASSUME Inv, StopOnSyscall
    PROVE  Inv'
<1>0. /\ TypeOK /\ InSyscallTracks /\ Released /\ ServingInv
      /\ \A t \in Threads : PageInv(t) /\ CatchInv(t)
  BY DEF Inv
<1>1. TypeOK'
  BY <1>0 DEF StopOnSyscall, LetGo, TypeOK, Stops, Ioctls, Pages
<1>2. InSyscallTracks'
  BY <1>0 DEF StopOnSyscall, LetGo, InSyscallTracks, Closing
<1>3. Released'
  BY <1>0 DEF StopOnSyscall, Released
<1>4. ServingInv'
  BY <1>0 DEF StopOnSyscall, ServingInv
<1>5. ASSUME NEW t \in Threads PROVE PageInv(t)'
  BY <1>0 DEF StopOnSyscall, LetGo, PageInv
<1>6. ASSUME NEW t \in Threads PROVE CatchInv(t)'
  BY <1>0 DEF StopOnSyscall, LetGo, CatchInv, ServingInv, Closing, Traced
<1>. QED BY <1>1, <1>2, <1>3, <1>4, <1>5, <1>6 DEF Inv

(* prepare_detach ends the service; what follows is closing. *)
LEMMA PrepareDetachKeeps ==
    ASSUME Inv, PrepareDetach
    PROVE  Inv'
<1>0. /\ TypeOK /\ InSyscallTracks /\ Released /\ ServingInv
      /\ \A t \in Threads : PageInv(t) /\ CatchInv(t)
  BY DEF Inv
<1>1. TypeOK'
  <2>1. pc' \in [Threads -> {"user", "kernel"} \cup Stops]
    BY <1>0, ZenonT(60) DEF PrepareDetach, LetGo, TypeOK, Stops
  <2>2. call' \in [Threads -> Ioctls \cup {"other", "none"}]
    BY <1>0 DEF PrepareDetach, LetGo, TypeOK
  <2>3. ret' \in [Threads -> BOOLEAN]
    BY <1>0 DEF PrepareDetach, LetGo, TypeOK
  <2>4. /\ running' \subseteq Threads /\ in_syscall' \subseteq Threads
        /\ wpc' \in {"resume", "wait", "serve", "detach", "done", "stuck"}
    BY <1>0 DEF PrepareDetach, TypeOK
  <2>5. QED
    BY <1>0, <2>1, <2>2, <2>3, <2>4 DEF PrepareDetach, TypeOK
<1>2. InSyscallTracks'
  BY <1>0 DEF PrepareDetach, InSyscallTracks, Closing
<1>3. Released'
  BY <1>0 DEF PrepareDetach, TypeOK, Released, Traced, Stops
<1>4. ServingInv'
  BY <1>0 DEF PrepareDetach, ServingInv
<1>5. ASSUME NEW t \in Threads PROVE PageInv(t)'
  <2>1. pc'[t] \in {"kernel", "entry"} => pc[t] \in {"kernel", "entry"}
    BY <1>0 DEF PrepareDetach, LetGo, TypeOK
  <2>2. QED
    BY <1>0, <2>1 DEF PrepareDetach, PageInv
<1>6. ASSUME NEW t \in Threads PROVE CatchInv(t)'
  <2>1. Closing'
    BY DEF PrepareDetach, Closing
  <2>2. CASE Traced'
    <3>1. UNCHANGED <<pc, call, ret, running>> /\ Traced
      BY <2>2 DEF PrepareDetach, Traced
    <3>. QED BY <1>0, <2>1, <3>1 DEF PrepareDetach, CatchInv
  <2>3. QED
    BY <2>1, <2>2 DEF CatchInv
<1>. QED BY <1>1, <1>2, <1>3, <1>4, <1>5, <1>6 DEF Inv

(* should_stop is set. *)
LEMMA ShutdownKeeps ==
    ASSUME Inv, Shutdown
    PROVE  Inv'
<1>0. /\ TypeOK /\ InSyscallTracks /\ Released /\ ServingInv
      /\ \A t \in Threads : PageInv(t) /\ CatchInv(t)
  BY DEF Inv
<1>1. TypeOK'
  BY <1>0 DEF Shutdown, hvVars, wrapVars, TypeOK
<1>2. InSyscallTracks'
  BY <1>0 DEF Shutdown, hvVars, wrapVars, InSyscallTracks, Closing
<1>3. Released'
  BY <1>0 DEF Shutdown, hvVars, wrapVars, Released, Traced
<1>4. ServingInv'
  BY <1>0 DEF Shutdown, hvVars, wrapVars, ServingInv
<1>5. ASSUME NEW t \in Threads PROVE PageInv(t)'
  BY <1>0 DEF Shutdown, hvVars, PageInv
<1>6. ASSUME NEW t \in Threads PROVE CatchInv(t)'
  BY <1>0 DEF Shutdown, hvVars, wrapVars, CatchInv, Closing, Traced
<1>. QED BY <1>1, <1>2, <1>3, <1>4, <1>5, <1>6 DEF Inv

(* wait_for_ioctl takes a stop: the count of stops identifies the return of*)
(* KVM_RUN, so an MMIO exit in the range is always caught.                 *)
LEMMA WaitForIoctlKeeps ==
    ASSUME Inv, NEW u \in Threads, WaitForIoctl(u)
    PROVE  Inv'
<1>0. /\ TypeOK /\ InSyscallTracks /\ Released /\ ServingInv
      /\ \A t \in Threads : PageInv(t) /\ CatchInv(t)
  BY DEF Inv
<1>1. TypeOK'
  BY <1>0 DEF WaitForIoctl, LoopEnd, Toggled, hvVars, TypeOK
<1>2. InSyscallTracks'
  BY <1>0 DEF WaitForIoctl, Toggled, hvVars, InSyscallTracks, Closing, Stops
<1>3. Released'
  BY <1>0 DEF WaitForIoctl, hvVars, Released, Traced, Stops
<1>4. ServingInv'
  BY <1>0 DEF WaitForIoctl, Toggled, IsMmioExit, hvVars, ServingInv, PageInv, CatchInv,
         InSyscallTracks, Closing, Traced, Stops
<1>5. ASSUME NEW t \in Threads PROVE PageInv(t)'
  BY <1>0 DEF WaitForIoctl, hvVars, PageInv
<1>6. ASSUME NEW t \in Threads PROVE CatchInv(t)'
  BY <1>0 DEF WaitForIoctl, Toggled, IsMmioExit, hvVars, TypeOK, PageInv, CatchInv,
         ServingInv, InSyscallTracks, Closing, Traced
<1>. QED BY <1>1, <1>2, <1>3, <1>4, <1>5, <1>6 DEF Inv

(* The device handles the access; the answer is protected from then on. *)
LEMMA HandleMmioRwKeeps ==
    ASSUME Inv, NEW u \in Threads, HandleMmioRw(u)
    PROVE  Inv'
<1>0. /\ TypeOK /\ InSyscallTracks /\ Released /\ ServingInv
      /\ \A t \in Threads : PageInv(t) /\ CatchInv(t)
  BY DEF Inv
<1>1. TypeOK'
  BY <1>0 DEF HandleMmioRw, LoopEnd, TypeOK, Pages, ServingInv
<1>2. InSyscallTracks'
  BY <1>0 DEF HandleMmioRw, InSyscallTracks, Closing
<1>3. Released'
  BY <1>0 DEF HandleMmioRw, Released, Traced
<1>4. ServingInv'
  BY <1>0 DEF HandleMmioRw, ServingInv
<1>5. ASSUME NEW t \in Threads PROVE PageInv(t)'
  <2>1. CASE t = u
    <3>1. served[t] = 0 /\ fresh[t] /\ acc[t].own /\ t \in known
      BY <1>0, <2>1 DEF HandleMmioRw, ServingInv
    <3>2. page'[t].write /\ page'[t].mmio = page[t].mmio /\ page'[t].own = page[t].own
      BY <1>0, <2>1 DEF HandleMmioRw, TypeOK
    <3>3. acc[t].kind = "read" => page'[t].data = "device"
      BY <1>0, <2>1, <3>1 DEF HandleMmioRw, TypeOK, PageInv
    <3>4. served'[t] = 1
      BY <1>0, <2>1, <3>1 DEF HandleMmioRw, TypeOK
    <3>. QED BY <1>0, <3>1, <3>2, <3>3, <3>4 DEF HandleMmioRw, PageInv
  <2>2. CASE t # u
    <3>1. page'[t] = page[t] /\ served'[t] = served[t]
      BY <1>0, <2>2 DEF HandleMmioRw, TypeOK
    <3>. QED BY <1>0, <3>1 DEF HandleMmioRw, PageInv
  <2>. QED BY <2>1, <2>2
<1>6. ASSUME NEW t \in Threads PROVE CatchInv(t)'
  <2>1. CASE t = u
    <3>1. served[t] = 0 /\ t \notin running
      BY <1>0, <2>1 DEF HandleMmioRw, ServingInv
    <3>2. served'[t] = 1 /\ running' = running
      BY <1>0, <2>1, <3>1 DEF HandleMmioRw, TypeOK
    <3>. QED BY <3>1, <3>2 DEF CatchInv
  <2>2. CASE t # u
    <3>1. page'[t] = page[t] /\ served'[t] = served[t]
      BY <1>0, <2>2 DEF HandleMmioRw, TypeOK
    <3>2. ~Closing /\ Traced /\ t \notin serving /\ wpc # "detach"
      BY <1>0, <2>2 DEF HandleMmioRw, ServingInv, Closing, Traced
    <3>. QED BY <1>0, <3>1, <3>2 DEF HandleMmioRw, LoopEnd, CatchInv
  <2>. QED BY <2>1, <2>2
<1>. QED BY <1>1, <1>2, <1>3, <1>4, <1>5, <1>6 DEF Inv

(* The device or a write to the page fails, and the loop ends. *)
LEMMA HandleMmioRwFailsKeeps ==
    ASSUME Inv, NEW u \in Threads, HandleMmioRwFails(u)
    PROVE  Inv'
<1>0. /\ TypeOK /\ InSyscallTracks /\ Released /\ ServingInv
      /\ \A t \in Threads : PageInv(t) /\ CatchInv(t)
  BY DEF Inv
<1>1. TypeOK'
  <2>1. page' \in [Threads -> Pages]
    <3>1. page \in [Threads -> Pages]
      BY <1>0 DEF TypeOK
    <3>2. page' = page \/ page' = [page EXCEPT ![u].data = "device"]
      BY DEF HandleMmioRwFails
    <3>. QED BY <3>1, <3>2 DEF Pages
  <2>2. QED
    BY <1>0, <2>1 DEF HandleMmioRwFails, TypeOK
<1>2. InSyscallTracks'
  BY <1>0 DEF HandleMmioRwFails, InSyscallTracks, Closing
<1>3. Released'
  BY <1>0 DEF HandleMmioRwFails, Released, Traced
<1>4. ServingInv'
  BY <1>0 DEF HandleMmioRwFails, ServingInv
<1>5. ASSUME NEW t \in Threads PROVE PageInv(t)'
  <2>1. CASE t = u
    <3>1. served[t] = 0 /\ fresh[t] /\ acc[t].own
      BY <1>0, <2>1 DEF HandleMmioRwFails, ServingInv
    <3>2. /\ page'[t].write = page[t].write
          /\ page'[t].mmio = page[t].mmio /\ page'[t].own = page[t].own
      BY <1>0, <2>1 DEF HandleMmioRwFails, TypeOK, Pages
    <3>. QED BY <1>0, <3>1, <3>2 DEF HandleMmioRwFails, PageInv
  <2>2. CASE t # u
    <3>1. page'[t] = page[t]
      BY <1>0, <2>2 DEF HandleMmioRwFails, TypeOK
    <3>. QED BY <1>0, <3>1 DEF HandleMmioRwFails, PageInv
  <2>. QED BY <2>1, <2>2
<1>6. ASSUME NEW t \in Threads PROVE CatchInv(t)'
  BY <1>0, SMTT(30) DEF HandleMmioRwFails, TypeOK, CatchInv, ServingInv, InSyscallTracks,
         Released, Closing, Traced
<1>. QED BY <1>1, <1>2, <1>3, <1>4, <1>5, <1>6 DEF Inv

(* The invariant holds when the wrapper takes the threads over from the    *)
(* tracer.                                                                 *)
LEMMA InvInit == Init => Inv
<1>. SUFFICES ASSUME Init PROVE Inv
  OBVIOUS
<1>1. ASSUME NEW t \in Threads
      PROVE  /\ acc[t] = NoAccess \/ (acc[t].kind \in {"read", "write"} /\ acc[t].own = FALSE)
             /\ acc[t] \in [kind : {"none", "read", "write"}, own : BOOLEAN]
  <2>1. acc[t] \in ForeignAccess \cup {NoAccess}
    BY DEF Init
  <2>2. CASE acc[t] \in ForeignAccess
    BY <2>2 DEF ForeignAccess
  <2>3. CASE acc[t] = NoAccess
    BY <2>3 DEF NoAccess
  <2>. QED BY <2>1, <2>2, <2>3
<1>2. ASSUME NEW t \in Threads
      PROVE  /\ page[t].mmio = fresh[t] /\ page[t].own = FALSE /\ page[t].data = "raw"
             /\ page[t].write = (acc[t].kind = "write")
             /\ page[t] \in Pages
             /\ fresh[t] <=> acc[t] # NoAccess
             /\ fresh[t] \in BOOLEAN
  BY DEF Init, Pages
<1>3. TypeOK
  <2>1. page \in [Threads -> Pages] /\ fresh \in [Threads -> BOOLEAN]
    BY <1>2 DEF Init
  <2>2. acc \in [Threads -> [kind : {"none", "read", "write"}, own : BOOLEAN]]
    BY <1>1 DEF Init
  <2>3. served \in [Threads -> 0..1]
    <3>1. served = [t \in Threads |-> 0]
      BY DEF Init
    <3>. QED BY <3>1
  <2>. QED BY <2>1, <2>2, <2>3 DEF Init, TypeOK, Stops, Ioctls
<1>4. InSyscallTracks /\ Released /\ ServingInv
  BY DEF Init, InSyscallTracks, Released, ServingInv
<1>5. ASSUME NEW t \in Threads PROVE PageInv(t) /\ CatchInv(t)
  <2>1. pc[t] = "event" /\ served[t] = 0
    BY DEF Init
  <2>2. CASE acc[t] = NoAccess
    <3>1. acc[t].kind = "none" /\ ~acc[t].own /\ ~fresh[t]
      <4>1. ~fresh[t]
        BY <1>2, <2>2
      <4>. QED BY <2>2, <4>1 DEF NoAccess
    <3>. QED BY <2>1, <3>1 DEF PageInv, CatchInv
  <2>3. CASE acc[t].kind \in {"read", "write"} /\ acc[t].own = FALSE
    <3>0. acc[t] # NoAccess
      BY <2>3 DEF NoAccess
    <3>1. fresh[t] /\ page[t].mmio /\ page[t].own = acc[t].own /\ page[t].data = "raw"
      BY <1>2, <2>3, <3>0
    <3>2. acc[t].kind = "read" => ~page[t].write
      BY <1>2
    <3>3. page[t].write = (acc[t].kind = "write")
      BY <1>2
    <3>4. PageInv(t)
      BY <2>1, <2>3, <3>1, <3>2, <3>3 DEF PageInv
    <3>. QED BY <2>1, <2>3, <3>4 DEF CatchInv
  <2>. QED BY <1>1, <2>2, <2>3
<1>. QED BY <1>3, <1>4, <1>5 DEF Inv

(* Every step preserves the invariant. *)
LEMMA InvStep == Inv /\ [Next]_vars => Inv'
<1>. SUFFICES ASSUME Inv, [Next]_vars PROVE Inv'
  OBVIOUS
<1>1. CASE HvNext
  <2>1. PICK t \in Threads :
          \/ HvHandle(t) \/ HvSignal(t) \/ OtherReturn(t) \/ KvmComplete(t) \/ KvmExit(t)
          \/ \E c \in Ioctls \cup {"other"} : HvCall(t, c)
    BY <1>1 DEF HvNext
  <2>. QED BY <2>1, HvHandleKeeps, HvSignalKeeps, OtherReturnKeeps, KvmCompleteKeeps,
              KvmExitKeeps, HvCallKeeps
<1>2. CASE Shutdown \/ StopOnSyscall \/ PrepareDetach
  BY <1>2, ShutdownKeeps, StopOnSyscallKeeps, PrepareDetachKeeps
<1>3. CASE \E t \in Threads : WaitForIoctl(t) \/ HandleMmioRw(t) \/ HandleMmioRwFails(t)
  BY <1>3, WaitForIoctlKeeps, HandleMmioRwKeeps, HandleMmioRwFailsKeeps
<1>4. CASE UNCHANGED vars
  BY <1>4 DEF Inv, TypeOK, InSyscallTracks, Released, ServingInv, PageInv,
         CatchInv,
              Closing, Traced, vars, hvVars, wrapVars
<1>. QED BY <1>1, <1>2, <1>3, <1>4 DEF Next

(* The inductive invariant holds in every reachable state, for every set of*)
(* threads.                                                                *)
THEOREM Invariance == Spec => []Inv
BY InvInit, InvStep, PTL DEF Spec

(* The invariant contains what ServedBeforeSeen says. *)
LEMMA InvImpliesServed == Inv => ServedBeforeSeen
BY DEF Inv, TypeOK, PageInv, CatchInv, ServedBeforeSeen

(* The invariant contains what ForeignUntouched says. *)
LEMMA InvImpliesForeign == Inv => ForeignUntouched
BY DEF Inv, TypeOK, PageInv, ForeignUntouched

(* Type correctness; in particular no access is ever handled twice. *)
THEOREM TypeCorrect == Spec => []TypeOK
<1>1. Inv => TypeOK
  BY DEF Inv
<1>. QED BY <1>1, Invariance, PTL

(* toggle_in_syscall tells entries from exits: in_syscall is accurate for  *)
(* every number of threads and every interleaving of stops (stopped in     *)
(* wrap_syscall.rs).                                                       *)
THEOREM CountIsRight == Spec => []InSyscallTracks
<1>1. Inv => InSyscallTracks
  BY DEF Inv
<1>. QED BY <1>1, Invariance, PTL

(* The hypervisor never sees an access to the range of vmsh before the     *)
(* device has handled it (handle_mmio_exits in devices/threads.rs).        *)
THEOREM DeviceComesFirst == Spec => []ServedBeforeSeen
BY InvImpliesServed, Invariance, PTL

(* Accesses to the devices of the hypervisor are left as KVM reported them *)
(* (the range check of handle_mmio_rw in devices/mmio.rs).                 *)
THEOREM ForeignAccessIntact == Spec => []ForeignUntouched
BY InvImpliesForeign, Invariance, PTL

(* A step that touches none of the state the service is defined from is a  *)
(* stuttering step of it.                                                  *)
LEMMA PhaseFixed ==
    ASSUME UNCHANGED <<known, acc, served, lost, Closing>>
    PROVE  UNCHANGED Service!vars
BY DEF Service!vars, Phase

(* A step that changes the phase of one vCPU only is a Becomes of the      *)
(* service.                                                                *)
LEMMA PhaseOther ==
    ASSUME NEW u \in Threads, NEW p,
           UNCHANGED <<known, Closing>>,
           \A t \in Threads \ {u} : Phase(t)' = Phase(t),
           Phase(u)' = p
    PROVE  Service!Becomes(u, p)
BY DEF Service!Becomes

(* The initial states are initial states of the service. *)
LEMMA ServiceInit == Init => Service!Init
<1>. SUFFICES ASSUME Init PROVE Service!Init
  OBVIOUS
<1>1. ASSUME NEW t \in Threads PROVE acc[t].kind = "none" \/ ~acc[t].own
  <2>1. acc[t] \in ForeignAccess \cup {NoAccess}
    BY DEF Init
  <2>2. CASE acc[t] \in ForeignAccess
    BY <2>2 DEF ForeignAccess
  <2>3. CASE acc[t] = NoAccess
    BY <2>3 DEF NoAccess
  <2>. QED BY <2>1, <2>2, <2>3
<1>2. \A t \in Threads : Phase(t) = "idle"
  BY <1>1 DEF Init, Phase
<1>3. Closing = FALSE
  <2>1. wpc \notin {"done", "stuck"}
    BY DEF Init
  <2>2. ~Closing
    BY <2>1 DEF Closing
  <2>. QED BY <2>2
<1>. QED BY <1>2, <1>3 DEF Service!Init

(* Every step is a step of the service, or stutters. *)
LEMMA ServiceStep == Inv /\ [Next]_vars => [Service!Next]_(Service!vars)
<1>. SUFFICES ASSUME Inv, [Next]_vars PROVE [Service!Next]_(Service!vars)
  OBVIOUS
<1>0. TypeOK /\ ServingInv /\ \A t \in Threads : PageInv(t) /\ CatchInv(t)
  BY DEF Inv
<1>1. ASSUME NEW u \in Threads,
             \/ HvHandle(u) \/ HvSignal(u) \/ OtherReturn(u)
             \/ \E c \in Ioctls \cup {"other"} : HvCall(u, c)
      PROVE  UNCHANGED Service!vars
  BY <1>1, PhaseFixed
     DEF HvHandle, HvSignal, OtherReturn, HvCall, HvKeeps, wrapVars, Closing
<1>2. ASSUME NEW u \in Threads, KvmComplete(u)
      PROVE  [Service!Next]_(Service!vars)
  <2>1. UNCHANGED <<known, Closing>>
    BY <1>2 DEF KvmComplete, HvKeeps, wrapVars, Closing
  <2>2. \A t \in Threads \ {u} : Phase(t)' = Phase(t)
    BY <1>0, <1>2 DEF KvmComplete, HvKeeps, Phase, TypeOK
  <2>3. acc'[u] = NoAccess /\ acc[u].kind # "none" /\ pc[u] = "kernel"
    BY <1>0, <1>2 DEF KvmComplete, TypeOK
  <2>4. CASE u \notin known \/ ~acc[u].own
    <3>1. Phase(u)' = Phase(u)
      BY <1>2, <2>1, <2>3, <2>4 DEF KvmComplete, Phase, NoAccess
    <3>. QED BY <2>1, <2>2, <3>1 DEF Service!vars
  <2>5. CASE u \in known /\ acc[u].own /\ served[u] = 1
    <3>1. Answer(u) = "device"
      BY <1>0, <2>5 DEF Answer, PageInv
    <3>2. Phase(u) = "served" /\ Phase(u)' = "idle"
      BY <1>2, <2>1, <2>3, <2>5, <3>1 DEF KvmComplete, Phase, NoAccess
    <3>. QED BY <2>1, <2>2, <3>2, PhaseOther DEF Service!Next, Service!Complete
  <2>6. CASE u \in known /\ acc[u].own /\ served[u] = 0
    <3>1. Closing
      BY <1>0, <2>3, <2>6 DEF CatchInv
    <3>2. Answer(u) # "device"
      BY <1>0, <2>3, <2>6 DEF Answer, PageInv, TypeOK
    <3>3. Phase(u) = "issued" /\ Phase(u)' = "lost"
      BY <1>2, <2>1, <2>3, <2>6, <3>2 DEF KvmComplete, Phase, NoAccess
    <3>. QED BY <2>1, <2>2, <3>1, <3>3, PhaseOther DEF Service!Next, Service!Abandon
  <2>. QED BY <1>0, <2>4, <2>5, <2>6 DEF TypeOK
<1>3. ASSUME NEW u \in Threads, KvmExit(u)
      PROVE  [Service!Next]_(Service!vars)
  <2>1. UNCHANGED <<known, Closing, served, lost>> /\ acc[u].kind = "none"
    BY <1>3 DEF KvmExit, HvKeeps, wrapVars, Closing
  <2>2. \A t \in Threads \ {u} : acc'[t] = acc[t]
    BY <1>0, <1>3 DEF KvmExit, TypeOK
  <2>3. \A t \in Threads \ {u} : Phase(t)' = Phase(t)
    BY <2>1, <2>2 DEF Phase
  <2>4. served[u] = 0
    BY <1>0, <2>1 DEF PageInv, TypeOK
  <2>5. CASE u \in known /\ acc'[u].kind # "none" /\ acc'[u].own
    <3>1. Phase(u) \in {"idle", "lost"} /\ Phase(u)' = "issued"
      BY <2>1, <2>4, <2>5 DEF Phase
    <3>. QED BY <2>1, <2>3, <3>1, PhaseOther DEF Service!Next, Service!Issue
  <2>6. CASE ~(u \in known /\ acc'[u].kind # "none" /\ acc'[u].own)
    <3>1. Phase(u)' = Phase(u)
      BY <2>1, <2>6 DEF Phase
    <3>. QED BY <2>1, <2>3, <3>1 DEF Service!vars
  <2>. QED BY <2>5, <2>6
<1>4. ASSUME NEW u \in Threads, HandleMmioRw(u)
      PROVE  [Service!Next]_(Service!vars)
  <2>1. UNCHANGED <<known, acc, lost>> /\ ~Closing /\ ~Closing'
    BY <1>4 DEF HandleMmioRw, LoopEnd, Closing
  <2>2. /\ u \in known /\ acc[u].own /\ acc[u].kind # "none"
        /\ served[u] = 0 /\ served'[u] = 1
    BY <1>0, <1>4 DEF HandleMmioRw, ServingInv, PageInv, TypeOK
  <2>3. \A t \in Threads \ {u} : served'[t] = served[t]
    BY <1>0, <1>4 DEF HandleMmioRw, TypeOK
  <2>4. \A t \in Threads \ {u} : Phase(t)' = Phase(t)
    BY <2>1, <2>3 DEF Phase
  <2>5. Phase(u) = "issued" /\ Phase(u)' = "served"
    BY <2>1, <2>2 DEF Phase
  <2>6. UNCHANGED <<known, Closing>>
    BY <1>4 DEF HandleMmioRw, LoopEnd, Closing
  <2>. QED BY <2>1, <2>4, <2>5, <2>6, PhaseOther DEF Service!Next, Service!Serve
<1>5. CASE PrepareDetach
  <2>1. UNCHANGED <<known, acc, served, lost>> /\ Closing'
    BY <1>5 DEF PrepareDetach, Closing
  <2>2. \A t \in Threads : Phase(t)' = Phase(t)
    BY <2>1 DEF Phase
  <2>. QED BY <2>1, <2>2 DEF Service!Next, Service!Close
<1>6. CASE Shutdown \/ StopOnSyscall
  BY <1>6, PhaseFixed DEF Shutdown, StopOnSyscall, hvVars, wrapVars, Closing
<1>7. ASSUME NEW u \in Threads, WaitForIoctl(u) \/ HandleMmioRwFails(u)
      PROVE  UNCHANGED Service!vars
  BY <1>7, PhaseFixed DEF WaitForIoctl, HandleMmioRwFails, LoopEnd, hvVars, Closing
<1>8. CASE UNCHANGED vars
  BY <1>8, PhaseFixed DEF vars, hvVars, wrapVars, Closing
<1>. QED BY <1>1, <1>2, <1>3, <1>4, <1>5, <1>6, <1>7, <1>8 DEF Next, HvNext

(* The wrapper implements MmioService: every access of a known vCPU to the *)
(* range of vmsh is handled exactly once and answered by the device, unless*)
(* vmsh is closing (the whole loop of handle_mmio_exits).                  *)
THEOREM ServesAsPromised == Spec => ServiceSpec
<1>1. Inv /\ [Next]_vars => [Service!Next]_(Service!vars)
  BY ServiceStep
<1>. QED BY ServiceInit, Invariance, <1>1, PTL DEF Spec, ServiceSpec, Service!Spec
=============================================================================
