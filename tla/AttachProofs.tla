---------------------------- MODULE AttachProofs ----------------------------
(***************************************************************************)
(* Proofs about Attach, for any number of hypervisor threads, any set of   *)
(* faults and both modes: whatever happens to it, a living hypervisor is   *)
(* never left with patched text, a lost thread or a forgotten resource.    *)
(***************************************************************************)
EXTENDS AttachMainProofs

-----------------------------------------------------------------------------
(* The other threads, and the hypervisor.                                   *)

(* While the mmio thread is at work, main waits. *)
LEMMA MmioServes ==
  ASSUME Inv, MmioActive
  PROVE  /\ mpc \in Serving /\ mode # "ioregion" /\ walk.by # Main /\ ~spawnFailed
         /\ Alive => /\ proc.owner = Nobody \/ proc.owner = Mmio
                     /\ proc.owner = Nobody => text = "orig"
<1>1. /\ mpc \in Serving /\ mode # "ioregion" /\ walk.by # Main /\ ~spawnFailed
  BY Zenon DEF Inv, StepsInv, Serving
<1>2. /\ proc.owner \in Tracers \cup {Nobody} /\ text \in {"orig", "patched"}
  BY DEF Inv, TypeOK, TraceTypeOK
<1>3. Alive => proc.owner # Main
  BY <1>1, Zenon DEF Inv, ProcInv, MainOwns, Serving
<1>4. Alive /\ proc.owner = Nobody => text # "patched"
  BY <1>1, Zenon DEF Inv, ProcInv
<1> QED
  BY <1>1, <1>2, <1>3, <1>4 DEF Tracers

(* What a step of it has to show of the invariant StepsInv, ... *)
LEMMA MmioStepsKept ==
  ASSUME Inv, MmioActive, mpc' = mpc, s1' = s1, mode' = mode, spawnFailed' = spawnFailed,
         walk'.by # Main, walk'.by = Mmio => ipc' = "adopt", poisoned' => ~Alive'
  PROVE  StepsInv'
<1>1. mpc' \in Serving /\ mode' # "ioregion" /\ ~spawnFailed'
  BY MmioServes, Zenon
<1>2. mpc' \in AfterStage1 => s1' # "run"
  BY Zenon DEF Inv, StepsInv
<1> QED
  BY <1>1, <1>2, Zenon DEF StepsInv, Serving, BeforeMmio

(* ... and of ProcInv, if it leaves nobody with the hypervisor. *)
LEMMA NobodyHolds ==
  ASSUME mpc' \in Serving, mode' # "ioregion", proc'.owner = Nobody, text' # "patched",
         proc'.some => proc'.held /\ Leader \in proc'.threads,
         ipc' # "wrap", ipc' = "adopt" => proc'.some,
         ipc' \in Wrapped \cup {"stuck"} => ~proc'.some,
         wrapper'.some <=> ipc' \in Wrapped \cup {"stuck"}
  PROVE  ProcInv'
  BY TracersAssumption, Zenon DEF ProcInv, MainOwns, Serving

(* Nothing is taken out or forgotten by a step that leaves main alone. *)
LEMMA ResKept ==
  ASSUME Inv, Alive, mpc' = mpc, res' = res, objs' = objs, spawnFailed' = spawnFailed,
         deadKept' = deadKept
  PROVE  ResInv'
  BY SMT DEF Inv, ResInv

(* finish_thread_transfer in the mmio thread. *)
LEMMA MmioAdoptKeeps == Inv /\ MmioAdopt => Inv'
<1> SUFFICES ASSUME Inv, MmioAdopt PROVE Inv'
  OBVIOUS
<1> USE TracersAssumption
<1>1. TypeOK'
  BY TypeStep, Zenon DEF Inv, Next, MmioNext
<1>2. /\ ipc = "adopt" /\ StartWalk(Mmio, proc.threads)
      /\ mpc' = mpc /\ ipc' = ipc /\ s1' = s1 /\ mode' = mode /\ res' = res /\ objs' = objs
      /\ poisoned' = poisoned /\ spawnFailed' = spawnFailed /\ deadKept' = deadKept
  BY Zenon DEF MmioAdopt, threadVars
<1>3. /\ life' = life /\ tracer' = tracer /\ text' = text /\ proc' = proc /\ wrapper' = wrapper
      /\ walk' = [by |-> Mmio, todo |-> proc.threads, at |-> 0, got |-> {}]
  BY <1>2, Zenon DEF StartWalk
<1>4. MmioActive /\ walk'.by = Mmio /\ (Alive' <=> Alive) /\ 0 \notin proc.threads
  BY <1>2, <1>3, ThreadsAssumption DEF MmioActive, Alive, Inv, TypeOK, TraceTypeOK, HvThreads
<1>5. DeadInv'
  BY <1>3, <1>4, Zenon DEF Inv, DeadInv
<1>6. StepsInv'
  <2>1. poisoned' => ~Alive'
    BY <1>2, <1>4 DEF Inv, StepsInv
  <2> QED
    BY <1>2, <1>4, <2>1, MmioStepsKept, Zenon
<1>7. ASSUME Alive PROVE ProcInv' /\ LoopInv' /\ TracerInv' /\ LeaderInv' /\ ResInv'
  <2>1. ProcInv /\ proc.some /\ proc.held
    BY <1>2, <1>7, Zenon DEF Inv, ProcInv
  <2>2. proc.owner # Mmio
    BY <1>2, <2>1, Zenon DEF ProcInv
  <2>3. proc.owner = Nobody /\ text = "orig" /\ mpc \in Serving /\ mode # "ioregion"
    BY <1>4, <1>7, <2>2, MmioServes, Zenon
  <2>4. Leader \in proc.threads /\ ~wrapper.some
    BY <1>2, <2>1, Zenon DEF ProcInv, Lost, Wrapped
  <2>5. ProcInv'
    <3>1. ipc' \notin Wrapped \cup {"stuck", "wrap"}
      BY <1>2, Zenon DEF Wrapped
    <3> QED
      BY <1>2, <1>3, <2>1, <2>3, <2>4, <3>1, NobodyHolds, Zenon
  <2> QED
    BY <1>2, <1>4, <1>7, <2>3, <2>4, <2>5, WalkStarts, ResKept, Zenon DEF Tracers
<1> QED
  BY <1>1, <1>4, <1>5, <1>6, <1>7, Zenon DEF Inv

(* The seize loop in the mmio thread. *)
LEMMA MmioSeizeKeeps == Inv /\ MmioSeize => Inv'
  BY SeizeKeeps, TypeStep DEF MmioSeize, Inv, Next, MmioNext, Tracers

(* The mmio thread owns the hypervisor. *)
LEMMA MmioAdoptedKeeps == Inv /\ MmioAdopted => Inv'
<1> SUFFICES ASSUME Inv, MmioAdopted PROVE Inv'
  OBVIOUS
<1> USE TracersAssumption
<1>1. TypeOK'
  BY TypeStep, Zenon DEF Inv, Next, MmioNext
<1>2. /\ ipc = "adopt" /\ ipc' = "wrap" /\ InitPatch(Mmio)
      /\ mpc' = mpc /\ s1' = s1 /\ mode' = mode /\ res' = res /\ objs' = objs
      /\ poisoned' = poisoned /\ spawnFailed' = spawnFailed /\ deadKept' = deadKept
  BY Zenon DEF MmioAdopted, MmioTo, KeepsThreads, NoFaultHistory
<1>3. MmioActive /\ walk' = NoWalk /\ life' = life /\ tracer' = tracer /\ (Alive' <=> Alive)
  BY <1>2, Zenon DEF MmioActive, InitPatch, Alive
<1>4. DeadInv'
  BY <1>3, Zenon DEF Inv, DeadInv
<1>5. StepsInv'
  <2>1. poisoned' => ~Alive'
    BY <1>2, <1>3 DEF Inv, StepsInv
  <2>2. walk'.by = Nobody
    BY <1>3 DEF NoWalk
  <2> QED
    BY <1>2, <1>3, <2>1, <2>2, MmioStepsKept, Zenon
<1>6. ASSUME Alive PROVE ProcInv' /\ LoopInv' /\ TracerInv' /\ LeaderInv' /\ ResInv'
  <2>1. /\ text' = "patched" /\ wrapper' = wrapper
        /\ proc'.some /\ proc'.held /\ proc'.owner = Mmio /\ proc'.saved = "orig"
        /\ Leader \in proc'.threads /\ \A t \in proc'.threads : Caught(Mmio, t)'
        /\ LoopInv' /\ TracerInv' /\ LeaderInv'
    BY <1>2, <1>6, Patches, Zenon DEF Tracers
  <2>2. mpc' \in Serving /\ mode' # "ioregion"
    BY <1>2, <1>3, MmioServes, Zenon
  <2>3. ~wrapper'.some /\ ipc' \notin Wrapped \cup {"stuck", "adopt"}
    BY <1>2, <1>6, <2>1, Zenon DEF Inv, ProcInv, Wrapped
  <2>4. ProcInv'
    BY <1>2, <2>1, <2>2, <2>3, Zenon DEF ProcInv, MainOwns, Serving
  <2> QED
    BY <1>2, <1>6, <2>1, <2>4, ResKept, Zenon
<1> QED
  BY <1>1, <1>3, <1>4, <1>5, <1>6, Zenon DEF Inv

(* adopt fails in the mmio thread. *)
LEMMA MmioAdoptFailsKeeps == Inv /\ MmioAdoptFails => Inv'
<1> SUFFICES ASSUME Inv, MmioAdoptFails PROVE Inv'
  OBVIOUS
<1> USE TracersAssumption
<1>1. TypeOK'
  BY TypeStep, Zenon DEF Inv, Next, MmioNext
<1>2. /\ ipc = "adopt" /\ WalkDone(Mmio) /\ (InitPanics \/ InitFails(Mmio))
      /\ DetachAll(Reachable(Mmio, walk.got)) /\ walk' = NoWalk
      /\ mpc' = mpc /\ s1' = s1 /\ mode' = mode /\ spawnFailed' = spawnFailed
  BY Zenon DEF MmioAdoptFails, AdoptAbort, MmioTo
<1>3. DeadInv' /\ ~Alive'
  BY <1>2, AbortMeansDead, DetachDead, Zenon DEF Inv, Tracers
<1>4. MmioActive /\ walk'.by = Nobody
  BY <1>2 DEF MmioActive, NoWalk
<1>5. StepsInv'
  BY <1>2, <1>3, <1>4, MmioStepsKept, Zenon
<1> QED
  BY <1>1, <1>3, <1>5, Zenon DEF Inv

(* kvmrun_wrapped takes the Process, or is refused and drops it. *)
LEMMA MmioWrapKeeps == Inv /\ MmioWrap => Inv'
<1> SUFFICES ASSUME Inv, MmioWrap PROVE Inv'
  OBVIOUS
<1> USE TracersAssumption
<1>1. TypeOK'
  BY TypeStep, Zenon DEF Inv, Next, MmioNext
<1>2. /\ ipc = "wrap" /\ ipc' \in {"ready", "disown"}
      /\ mpc' = mpc /\ s1' = s1 /\ mode' = mode /\ res' = res /\ objs' = objs
      /\ poisoned' = poisoned /\ spawnFailed' = spawnFailed /\ deadKept' = deadKept
      /\ \/ Wrap(Mmio) /\ ipc' = "ready" /\ Alive
         \/ DropProcess(Mmio) /\ ipc' = "disown"
  BY Zenon DEF MmioWrap, WrapRefused, MmioTo, NoFaultHistory
<1>3. MmioActive /\ walk.by # Mmio
  BY <1>2, Zenon DEF MmioActive, Inv, StepsInv
<1>4. /\ proc' = NoProc /\ walk' = walk /\ text' = Restored(Mmio) /\ (Alive' <=> Alive)
      /\ proc'.owner = Nobody /\ proc'.some = FALSE
  <2>1. proc' = NoProc /\ walk' = walk /\ text' = Restored(Mmio)
    BY <1>2, Zenon DEF Wrap, DropProcess
  <2>2. CASE Wrap(Mmio)
    <3>1. Alive' <=> Alive
      BY <2>2, Zenon DEF Wrap, Alive
    <3> QED
      BY <2>1, <3>1, Zenon DEF NoProc
  <2>3. CASE DropProcess(Mmio)
    <3>1. Alive' <=> Alive
      BY <2>3, DetachAlive, Zenon DEF DropProcess
    <3> QED
      BY <2>1, <3>1, Zenon DEF NoProc
  <2> QED
    BY <1>2, <2>2, <2>3
<1>5. DeadInv'
  <2>1. CASE Alive
    BY <1>4, <2>1, Zenon DEF DeadInv
  <2>2. CASE ~Alive
    BY <1>2, <2>2, DetachDead, Zenon DEF DropProcess, Inv
  <2> QED
    BY <2>1, <2>2
<1>6. StepsInv'
  <2>1. poisoned' => ~Alive'
    BY <1>2, <1>4 DEF Inv, StepsInv
  <2> QED
    BY <1>2, <1>3, <1>4, <2>1, MmioServes, MmioStepsKept, Zenon
<1>7. ASSUME Alive PROVE ProcInv' /\ LoopInv' /\ TracerInv' /\ LeaderInv' /\ ResInv'
  <2>1. ProcInv /\ LoopInv /\ TracerInv /\ LeaderInv
    BY <1>7, Zenon DEF Inv
  <2>2. proc.owner = Mmio /\ proc.held /\ ~wrapper.some
    BY <1>2, <2>1, Zenon DEF ProcInv, Wrapped
  <2>3. Restored(Mmio) = "orig" /\ walk.by = Nobody
    BY <1>7, <2>2, OwnerInjects, Zenon DEF Tracers
  <2>4. mpc' \in Serving /\ mode' # "ioregion"
    BY <1>2, <1>3, MmioServes, Zenon
  <2>5. CASE DropProcess(Mmio) /\ ipc' = "disown"
    <3>1. wrapper' = wrapper /\ LoopInv' /\ TracerInv' /\ LeaderInv'
      BY <1>4, <1>7, <2>2, <2>5, Releases, Zenon DEF DropProcess, Tracers
    <3>2. ipc' \notin Wrapped \cup {"stuck", "wrap", "adopt"}
      BY <2>5, Zenon DEF Wrapped
    <3>3. ProcInv'
      BY <1>4, <2>2, <2>3, <2>4, <3>1, <3>2, NobodyHolds, Zenon
    <3> QED
      BY <1>2, <1>7, <3>1, <3>3, ResKept, Zenon
  <2>6. CASE Wrap(Mmio) /\ ipc' = "ready"
    <3>1. /\ wrapper' = [some |-> TRUE, threads |-> proc.threads, running |-> {}]
          /\ life' = life /\ tracer' = tracer
      BY <2>6, Zenon DEF Wrap
    <3>2. wrapper'.some /\ wrapper'.threads = proc.threads /\ wrapper'.running = {}
      BY <3>1
    <3>3. Leader \in proc.threads /\ (\A t \in proc.threads : Caught(Mmio, t))
      BY <2>1, <2>2, Zenon DEF ProcInv, Lost
    <3>4. ProcInv'
      BY <1>4, <2>3, <2>4, <2>6, <3>2, NobodyHolds, Zenon DEF Wrapped
    <3>5. LoopInv'
      <4>1. \A t \in wrapper'.threads :
               \/ tracer'[t] = Mmio /\ (t \in wrapper'.running <=> life'[t] # "stopped")
               \/ DeadThread(t)' /\ t \notin wrapper'.running
        BY <1>2, <3>1, <3>2, <3>3 DEF Caught, DeadThread
      <4>2. wrapper'.running \subseteq wrapper'.threads
        BY <3>2
      <4>3. walk'.by = Nobody /\ walk'.at = 0
        BY <1>4, <2>1, <2>3, Zenon DEF LoopInv
      <4> QED
        BY <2>6, <3>2, <3>3, <4>1, <4>2, <4>3, Zenon DEF LoopInv
    <3>6. TracerInv'
      <4> SUFFICES ASSUME NEW t \in HvThreads
                   PROVE  TracerInv!(t)'
        BY Zenon DEF TracerInv
      <4>1. TracerInv!(t)
        BY <2>1, Zenon DEF TracerInv
      <4>2. MmioActive'
        BY <2>6, Zenon DEF MmioActive
      <4> QED
        BY <1>2, <2>2, <2>3, <3>1, <3>2, <4>1, <4>2, Zenon
    <3> QED
      BY <1>2, <1>7, <2>1, <3>1, <3>4, <3>5, <3>6, ResKept, Zenon DEF LeaderInv
  <2> QED
    BY <1>2, <2>5, <2>6
<1> QED
  BY <1>1, <1>4, <1>5, <1>6, <1>7, Zenon DEF Inv

(* stop_on_syscall lets threads go on that are in a stop, all of them or   *)
(* those before one that takes no request.                                 *)
LEMMA ResumeKeeps ==
  ASSUME Inv, ipc \in {"ready", "resume"}, NEW R,
         R \subseteq Reachable(Mmio, wrapper.threads), R \cap wrapper.running = {},
         life' = [t \in HvThreads |-> IF t \in R THEN "running" ELSE life[t]],
         Alive => wrapper' = [wrapper EXCEPT !.running = @ \cup R],
         UNCHANGED <<tracer, text, proc, walk>>,
         \/ ipc' = "reap" /\ wrapper.threads \ wrapper.running \subseteq R
         \/ ipc' = "notify",
         mpc' = mpc, s1' = s1, mode' = mode, res' = res, objs' = objs, TypeOK',
         poisoned' = poisoned, spawnFailed' = spawnFailed, deadKept' = deadKept
  PROVE  Inv'
<1> USE TracersAssumption
<1>1. /\ ipc' \in {"reap", "notify"} /\ MmioActive /\ MmioActive' /\ ipc \in Wrapped /\ ipc' \in Wrapped
      /\ ipc # "adopt"
  BY Zenon DEF MmioActive, Wrapped
<1>2. \A t \in R : t \in wrapper.threads /\ tracer[t] = Mmio /\ life[t] \in Stops
  BY DEF Reachable
<1>3. ASSUME Alive
      PROVE  /\ wrapper'.some = wrapper.some /\ wrapper'.threads = wrapper.threads
             /\ wrapper'.running = wrapper.running \cup R /\ wrapper.threads \subseteq HvThreads
  BY <1>3 DEF Inv, TypeOK, TraceTypeOK
<1>4. Alive' <=> Alive
  <2>1. life'[Leader] = IF Leader \in R THEN "running" ELSE life[Leader]
    BY LeaderIsThread, Zenon
  <2>2. CASE Leader \in R
    <3>1. life'[Leader] = "running" /\ life[Leader] \in Stops
      BY <1>2, <2>1, <2>2
    <3> QED
      BY <3>1, Zenon DEF Alive, Stops
  <2>3. CASE Leader \notin R
    BY <2>1, <2>3, Zenon DEF Alive
  <2> QED
    BY <2>2, <2>3
<1>5. ASSUME ~Alive PROVE DeadInv'
  <2>1. ASSUME NEW t \in HvThreads PROVE life'[t] = "gone" /\ tracer'[t] = Nobody
    <3>1. life[t] = "gone" /\ tracer[t] = Nobody
      BY <1>5, Zenon DEF Inv, DeadInv
    <3>2. t \notin R
      BY <1>2, <3>1, Zenon
    <3> QED
      BY <3>1, <3>2, Zenon
  <2> QED
    BY <2>1, Zenon DEF DeadInv
<1>6. StepsInv'
  <2>1. poisoned' => ~Alive'
    BY <1>4 DEF Inv, StepsInv
  <2>2. walk'.by # Main /\ walk'.by # Mmio
    BY <1>1, MmioServes, Zenon DEF Inv, StepsInv
  <2> QED
    BY <1>1, <2>1, <2>2, MmioStepsKept, Zenon
<1>7. ASSUME Alive PROVE ProcInv' /\ LoopInv' /\ TracerInv' /\ LeaderInv' /\ ResInv'
  <2>1. ProcInv /\ LoopInv /\ TracerInv /\ LeaderInv
    BY <1>7, Zenon DEF Inv
  <2>2. ~proc.some /\ wrapper.some /\ proc.owner = Nobody
    BY <1>1, <1>7, <2>1, MmioServes, Zenon DEF ProcInv
  <2>3. text = "orig" /\ mpc' \in Serving /\ mode' # "ioregion"
    BY <1>1, <1>7, <2>2, MmioServes, Zenon
  <2>4. ProcInv'
    BY <1>1, <1>3, <1>7, <2>2, <2>3, NobodyHolds, Zenon DEF Wrapped
  <2>5. /\ Leader \in wrapper.threads /\ wrapper.running \subseteq wrapper.threads
        /\ walk.by = Nobody /\ walk.at = 0
    <3>1. walk.by \in {Main, Mmio, Nobody}
      BY DEF Inv, TypeOK, TraceTypeOK, Tracers
    <3>2. walk.by # Main /\ walk.by # Mmio
      BY <1>1, MmioServes, Zenon DEF Inv, StepsInv
    <3> QED
      BY <1>1, <2>1, <3>1, <3>2, Zenon DEF LoopInv
  <2>6. ASSUME NEW t \in wrapper'.threads
        PROVE  \/ tracer'[t] = Mmio /\ (t \in wrapper'.running <=> life'[t] # "stopped")
               \/ /\ DeadThread(t)' /\ t \notin wrapper'.running
                  /\ ipc' \in {"ready", "notify", "unwrap"}
    <3>1. t \in wrapper.threads /\ t \in HvThreads /\ (t \in wrapper'.running <=> t \in wrapper.running \/ t \in R)
      BY <1>3, <1>7
    <3>2. \/ tracer[t] = Mmio /\ (t \in wrapper.running <=> life[t] # "stopped")
          \/ DeadThread(t) /\ t \notin wrapper.running
      BY <1>1, <2>1, <3>1, Zenon DEF LoopInv
    <3>3. life'[t] = IF t \in R THEN "running" ELSE life[t]
      BY <3>1, Zenon
    <3>4. CASE t \in R
      BY <1>2, <3>1, <3>3, <3>4, Zenon
    <3>5. CASE t \notin R /\ tracer[t] = Mmio /\ (t \in wrapper.running <=> life[t] # "stopped")
      BY <3>1, <3>3, <3>5, Zenon
    <3>6. CASE t \notin R /\ DeadThread(t) /\ t \notin wrapper.running
      <4>1. ipc' = "notify"
        BY <3>1, <3>6
      <4>2. DeadThread(t)'
        BY <3>3, <3>6, Zenon DEF DeadThread
      <4> QED
        BY <3>1, <3>6, <4>1, <4>2, Zenon
    <3> QED
      BY <3>2, <3>4, <3>5, <3>6, Zenon
  <2>7. LoopInv'
    <3>1. wrapper'.running \subseteq wrapper'.threads
      BY <1>2, <1>3, <1>7, <2>5
    <3> QED
      BY <1>3, <1>7, <2>5, <2>6, <3>1, Zenon DEF LoopInv
  <2>8. TracerInv'
    <3> SUFFICES ASSUME NEW t \in HvThreads
                 PROVE  TracerInv!(t)'
      BY Zenon DEF TracerInv
    <3>1. TracerInv!(t)
      BY <2>1, Zenon DEF TracerInv
    <3>2. life'[t] = IF t \in R THEN "running" ELSE life[t]
      BY Zenon
    <3>3. wrapper'.some
      BY <1>3, <1>7, <2>2
    <3>4. CASE t \in R
      BY <1>2, <1>3, <1>7, <3>2, <3>3, <3>4, Zenon
    <3>5. CASE t \notin R
      BY <1>1, <1>3, <1>7, <2>2, <2>5, <3>1, <3>2, <3>3, <3>5, Zenon
    <3> QED
      BY <3>4, <3>5
  <2>9. LeaderInv'
    <3>1. life'[Leader] = IF Leader \in R THEN "running" ELSE life[Leader]
      BY LeaderIsThread, Zenon
    <3>2. life'[Leader] = "running" \/ life'[Leader] = life[Leader]
      BY <3>1
    <3> QED
      BY <2>1, <3>2, Zenon DEF LeaderInv
  <2> QED
    BY <1>7, <2>4, <2>7, <2>8, <2>9, ResKept, Zenon
<1> QED
  BY <1>4, <1>5, <1>6, <1>7, Zenon DEF Inv, DeadInv

(* The two ways stop_on_syscall ends. *)
LEMMA StopOnSyscallKeeps ==
  ASSUME Inv, ipc \in {"ready", "resume"}, TypeOK',
         \/ StopOnSyscall(Mmio) /\ ipc' = "reap"
         \/ StopOnSyscallErr(Mmio) /\ ipc' = "notify",
         mpc' = mpc, s1' = s1, mode' = mode, res' = res, objs' = objs,
         poisoned' = poisoned, spawnFailed' = spawnFailed, deadKept' = deadKept
  PROVE  Inv'
<1>1. CASE StopOnSyscall(Mmio) /\ ipc' = "reap"
  <2> DEFINE R == wrapper.threads \ wrapper.running
  <2>1. /\ R \subseteq Reachable(Mmio, wrapper.threads)
        /\ life' = [t \in HvThreads |-> IF t \in R THEN "running" ELSE life[t]]
        /\ wrapper' = [wrapper EXCEPT !.running = wrapper.threads]
        /\ UNCHANGED <<tracer, text, proc, walk>>
    BY <1>1, Zenon DEF StopOnSyscall
  <2>2. R \cap wrapper.running = {}
    OBVIOUS
  <2>3. ASSUME Alive PROVE wrapper' = [wrapper EXCEPT !.running = @ \cup R]
    <3>1. wrapper.running \subseteq wrapper.threads
      BY <2>3, Zenon DEF Wrapped, Inv, LoopInv
    <3>2. wrapper.running \cup R = wrapper.threads
      BY <3>1
    <3> QED
      BY <2>1, <3>2
  <2> HIDE DEF R
  <2>4. wrapper.threads \ wrapper.running \subseteq R
    BY DEF R
  <2> QED
    BY <1>1, <2>1, <2>2, <2>3, <2>4, ResumeKeeps, Zenon
<1>2. CASE StopOnSyscallErr(Mmio) /\ ipc' = "notify"
  <2>1. PICK t \in wrapper.threads \ wrapper.running :
          LET resumed == {u \in wrapper.threads \ wrapper.running : u < t}
          IN  /\ resumed \subseteq Reachable(Mmio, wrapper.threads)
              /\ life' = [u \in HvThreads |-> IF u \in resumed THEN "running" ELSE life[u]]
              /\ wrapper' = [wrapper EXCEPT !.running = @ \cup resumed]
    BY <1>2, Zenon DEF StopOnSyscallErr
  <2>2. UNCHANGED <<tracer, text, proc, walk>>
    BY <1>2, Zenon DEF StopOnSyscallErr
  <2> DEFINE R == {u \in wrapper.threads \ wrapper.running : u < t}
  <2>3. R \cap wrapper.running = {}
    OBVIOUS
  <2>4. /\ R \subseteq Reachable(Mmio, wrapper.threads)
        /\ life' = [u \in HvThreads |-> IF u \in R THEN "running" ELSE life[u]]
        /\ wrapper' = [wrapper EXCEPT !.running = @ \cup R]
    BY <2>1, Zenon
  <2> HIDE DEF R
  <2> QED
    BY <1>2, <2>2, <2>3, <2>4, ResumeKeeps, Zenon
<1> QED
  BY <1>1, <1>2

(* The first stop_on_syscall of the loop, or its failure. *)
LEMMA MmioReadyKeeps == Inv /\ MmioReady => Inv'
<1> SUFFICES ASSUME Inv, MmioReady PROVE Inv'
  OBVIOUS
<1>1. TypeOK'
  BY TypeStep, Zenon DEF Inv, Next, MmioNext
<1> QED
  BY <1>1, StopOnSyscallKeeps, Zenon DEF MmioReady, MmioTo, NoFaultHistory

(* stop_on_syscall within the loop. *)
LEMMA MmioResumeKeeps == Inv /\ MmioResume => Inv'
<1> SUFFICES ASSUME Inv, MmioResume PROVE Inv'
  OBVIOUS
<1>1. TypeOK'
  BY TypeStep, Zenon DEF Inv, Next, MmioNext
<1> QED
  BY <1>1, StopOnSyscallKeeps, Zenon DEF MmioResume, MmioTo, NoFaultHistory

(* wait_for_ioctl takes a stop or an exit of one thread. *)
LEMMA MmioReapKeeps == Inv /\ MmioReap => Inv'
<1> SUFFICES ASSUME Inv, MmioReap PROVE Inv'
  OBVIOUS
<1> USE ThreadsAssumption, TracersAssumption
<1>1. TypeOK'
  BY TypeStep, Zenon DEF Inv, Next, MmioNext
<1>2. /\ TraceTypeOK /\ StepsInv /\ DeadInv
      /\ Alive => ProcInv /\ LoopInv /\ TracerInv /\ LeaderInv /\ ResInv
  BY DEF Inv, TypeOK
<1>3. /\ ipc = "reap" /\ ipc' \in {"unwrap", "resume", "notify", "reap"}
      /\ mpc' = mpc /\ s1' = s1 /\ mode' = mode /\ res' = res /\ objs' = objs
      /\ poisoned' = poisoned /\ spawnFailed' = spawnFailed /\ deadKept' = deadKept
  BY Zenon DEF MmioReap, LoopTo, MmioTo, NoFaultHistory
<1>4. PICK t \in HvThreads : ReapStop(t) \/ ReapExit(t) \/ ReapOther(Mmio, t)
  BY Zenon DEF MmioReap
<1>5. text' = text /\ proc' = proc /\ walk' = walk /\ wrapper'.some = wrapper.some
  BY <1>2, <1>4 DEF ReapStop, ReapExit, ReapOther, TraceTypeOK
<1>6. Alive
  BY <1>2, <1>4 DEF DeadInv, ReapStop, ReapExit, ReapOther
<1>7. MmioActive /\ MmioActive' /\ ipc \in Wrapped /\ ipc' \in Wrapped \ {"stuck", "wrap", "adopt"}
  BY <1>3 DEF MmioActive, Wrapped
<1>8. /\ ~proc.some /\ proc.owner = Nobody /\ text = "orig" /\ wrapper.some
      /\ mpc' \in Serving /\ mode' # "ioregion" /\ walk.by # Main /\ walk.by # Mmio
  BY <1>2, <1>3, <1>6, <1>7, MmioServes, Zenon DEF ProcInv, StepsInv
<1>9. walk.by = Nobody /\ walk.at = 0
  <2>1. walk.by = Nobody
    BY <1>2, <1>8 DEF TraceTypeOK, Tracers
  <2> QED
    BY <1>2, <1>6, <2>1, Zenon DEF LoopInv
<1>10. /\ Leader \in wrapper.threads /\ wrapper.running \subseteq wrapper.threads
       /\ \A u \in wrapper.threads :
             tracer[u] = Mmio /\ (u \in wrapper.running <=> life[u] # "stopped")
       /\ wrapper.threads \subseteq HvThreads
  BY <1>2, <1>3, <1>6, <1>7 DEF LoopInv, TraceTypeOK
<1>11. ProcInv'
  BY <1>5, <1>7, <1>8, NobodyHolds, Zenon
<1>12. /\ \A u \in HvThreads \ {t} : life'[u] = life[u] /\ tracer'[u] = tracer[u]
       /\ \/ /\ life'[t] = "stopped" /\ tracer'[t] = Mmio /\ t \in wrapper.threads
             /\ wrapper'.threads = wrapper.threads /\ wrapper'.running = wrapper.running \ {t}
          \/ /\ life'[t] = "gone" /\ tracer'[t] = Nobody /\ t # Leader
             /\ wrapper'.threads = wrapper.threads \ {t}
             /\ wrapper'.running = wrapper.running \ {t}
  <2>1. CASE ReapStop(t)
    BY <1>2, <1>10, <2>1 DEF ReapStop, TraceTypeOK
  <2>2. CASE ReapExit(t)
    BY <1>2, <1>6, <2>2 DEF ReapExit, TraceTypeOK, LeaderInv
  <2>3. CASE ReapOther(Mmio, t)
    BY <1>2, <1>6, <1>10, <2>3 DEF ReapOther, TraceTypeOK, LeaderInv
  <2> QED
    BY <1>4, <2>1, <2>2, <2>3
<1>13. Alive' /\ LeaderInv'
  BY <1>2, <1>6, <1>12, LeaderIsThread DEF Alive, LeaderInv
<1>14. StepsInv'
  <2>1. ~poisoned'
    BY <1>2, <1>3, <1>6 DEF StepsInv
  <2> QED
    BY <1>3, <1>5, <1>7, <1>8, <2>1, MmioStepsKept, Zenon
<1>15. LoopInv'
  <2>1. /\ Leader \in wrapper'.threads /\ wrapper'.running \subseteq wrapper'.threads
        /\ \A u \in wrapper'.threads :
              tracer'[u] = Mmio /\ (u \in wrapper'.running <=> life'[u] # "stopped")
    BY <1>10, <1>12
  <2> QED
    BY <1>5, <1>9, <2>1, Zenon DEF LoopInv
<1>16. TracerInv'
  <2> SUFFICES ASSUME NEW u \in HvThreads
               PROVE  TracerInv!(u)'
    BY Zenon DEF TracerInv
  <2>1. TracerInv!(u)
    BY <1>2, <1>6, Zenon DEF TracerInv
  <2>2. CASE u = t
    <3>1. wrapper'.some
      BY <1>5, <1>8
    <3> QED
      BY <1>12, <2>2, <3>1, Zenon DEF Stops
  <2>3. CASE u # t
    <3>1. life'[u] = life[u] /\ tracer'[u] = tracer[u]
      BY <1>12, <2>3
    <3>2. wrapper.some /\ u \in wrapper.threads => wrapper'.some /\ u \in wrapper'.threads
      BY <1>5, <1>12, <2>3
    <3> QED
      BY <1>3, <1>5, <1>7, <2>1, <3>1, <3>2, Zenon
  <2> QED
    BY <2>2, <2>3
<1>17. ResInv'
  BY <1>3, <1>6, ResKept, Zenon
<1> QED
  BY <1>1, <1>11, <1>13, <1>14, <1>15, <1>16, <1>17, Zenon DEF Inv, DeadInv

(* wait_for_ioctl finds the hypervisor dead. *)
LEMMA MmioReapDeadKeeps == Inv /\ MmioReapDead => Inv'
<1> SUFFICES ASSUME Inv, MmioReapDead PROVE Inv'
  OBVIOUS
<1>1. TypeOK'
  BY TypeStep, Zenon DEF Inv, Next, MmioNext
<1>2. /\ ipc = "reap" /\ ~Alive /\ life' = life /\ tracer' = tracer /\ walk' = walk
      /\ mpc' = mpc /\ s1' = s1 /\ mode' = mode /\ spawnFailed' = spawnFailed
  BY Zenon DEF MmioReapDead, MmioTo, NoFaultHistory
<1>3. ~Alive' /\ DeadInv' /\ MmioActive
  BY <1>2, Zenon DEF Alive, Inv, DeadInv, MmioActive
<1>4. walk.by # Mmio /\ walk.by # Main
  BY <1>2, <1>3, MmioServes, Zenon DEF Inv, StepsInv
<1>5. StepsInv'
  BY <1>2, <1>3, <1>4, MmioStepsKept, Zenon
<1> QED
  BY <1>1, <1>3, <1>5, Zenon DEF Inv

(* The hypervisor is left alone by notify(Error), and by the end of an     *)
(* ioregion-handler.                                                       *)
LEMMA NotifyKeeps ==
  ASSUME Inv, TypeOK', UNCHANGED traceVars, mpc' = mpc, s1' = s1, mode' = mode,
         res' = res, objs' = objs, poisoned' = poisoned, spawnFailed' = spawnFailed,
         deadKept' = deadKept,
         \/ ipc = "notify" /\ ipc' = "unwrap"
         \/ ipc = "none" /\ ipc' = "exited" /\ mode = "ioregion" /\ mpc \in Serving
  PROVE  Inv'
<1> USE TracersAssumption
<1>1. /\ life' = life /\ tracer' = tracer /\ text' = text /\ proc' = proc
      /\ wrapper' = wrapper /\ walk' = walk
  BY Zenon DEF traceVars
<1>2. DeadInv' /\ (Alive' <=> Alive)
  BY <1>1, Zenon DEF Inv, DeadInv, Alive
<1>3. StepsInv'
  <2>1. (MmioActive' <=> MmioActive) /\ ipc # "adopt"
    BY Zenon DEF MmioActive
  <2>2. mpc \in Serving
    BY <2>1, MmioServes, Zenon DEF MmioActive
  <2>3. mpc \notin BeforeMmio
    BY <2>2, Zenon DEF Serving, BeforeMmio
  <2>4. poisoned' => ~Alive'
    BY <1>2 DEF Inv, StepsInv
  <2> QED
    BY <1>1, <2>1, <2>3, <2>4, Zenon DEF Inv, StepsInv
<1>4. ASSUME Alive PROVE ProcInv' /\ LoopInv' /\ TracerInv' /\ LeaderInv' /\ ResInv'
  <2>1. ProcInv /\ LoopInv /\ TracerInv /\ LeaderInv /\ StepsInv
    BY <1>4, Zenon DEF Inv
  <2>2. mpc \in Serving /\ ~spawnFailed
    BY <2>1, MmioServes, Zenon DEF MmioActive, StepsInv, Serving
  <2>3. ~proc.some
    BY <2>1, <2>2, Zenon DEF ProcInv, Wrapped
  <2>4. proc.owner = Nobody /\ text # "patched"
    BY <2>1, <2>2, <2>3, Zenon DEF ProcInv
  <2>5. ipc' \notin {"wrap", "adopt", "stuck"} /\ (ipc \in Wrapped \cup {"stuck"} <=> ipc' \in Wrapped \cup {"stuck"})
    BY Zenon DEF Wrapped
  <2>6. ProcInv'
    BY <1>1, <2>1, <2>2, <2>3, <2>4, <2>5, Zenon DEF ProcInv, MainOwns, Serving
  <2>7. \A t : DeadThread(t)' <=> DeadThread(t)
    BY <1>1, SMT DEF DeadThread
  <2>8. LoopInv'
    <3>1. walk.by = Nobody /\ walk.at = 0
      <4>1. walk.by # Main /\ walk.by # Mmio
        BY <2>1, <2>2, Zenon DEF StepsInv, Serving
      <4>2. walk.by = Nobody
        BY <4>1 DEF Inv, TypeOK, TraceTypeOK, Tracers
      <4> QED
        BY <2>1, <4>2, Zenon DEF LoopInv
    <3> QED
      BY <1>1, <2>1, <2>7, <3>1, Zenon DEF LoopInv, Wrapped
  <2>9. TracerInv'
    <3>1. MmioActive' <=> MmioActive
      BY Zenon DEF MmioActive
    <3>2. ipc \notin {"disown", "exit"}
      BY Zenon
    <3> QED
      BY <1>1, <2>1, <3>1, <3>2, Zenon DEF TracerInv
  <2> QED
    BY <1>1, <1>4, <2>1, <2>6, <2>8, <2>9, ResKept, Zenon DEF LeaderInv
<1> QED
  BY <1>2, <1>3, <1>4, Zenon DEF Inv

(* The closure reports its error. *)
LEMMA MmioNotifyKeeps == Inv /\ MmioNotify => Inv'
<1> SUFFICES ASSUME Inv, MmioNotify PROVE Inv'
  OBVIOUS
<1>1. TypeOK'
  BY TypeStep, Zenon DEF Inv, Next, MmioNext
<1> QED
  BY <1>1, NotifyKeeps, Zenon DEF MmioNotify, MmioTo, NoFaultHistory

(* An ioregion-handler ends. *)
LEMMA IoregionFailsKeeps == Inv /\ IoregionFails => Inv'
<1> SUFFICES ASSUME Inv, IoregionFails PROVE Inv'
  OBVIOUS
<1>1. TypeOK'
  BY TypeStep, Zenon DEF Inv, Next
<1> QED
  BY <1>1, NotifyKeeps, Zenon DEF IoregionFails, MmioTo, NoFaultHistory, Serving

(* The wrapper is gone, and what the mmio thread still traces goes with    *)
(* that thread.                                                            *)
LEMMA LeavesWrapper ==
  ASSUME Inv, Alive, ipc = "unwrap", ipc' = "disown", walk' = walk,
         \A t \in HvThreads :
            \/ life'[t] = life[t] /\ tracer'[t] = tracer[t]
            \/ life'[t] = "running" /\ tracer'[t] = Nobody
            \/ tracer'[t] = Mmio
  PROVE  LoopInv' /\ TracerInv'
<1> USE TracersAssumption
<1>1. LoopInv /\ TracerInv /\ ProcInv
  BY Zenon DEF Inv
<1>2. MmioActive /\ ipc' \notin Wrapped
  BY Zenon DEF MmioActive, Wrapped
<1>3. walk.by = Nobody /\ walk.at = 0
  <2>1. walk.by \in {Main, Mmio, Nobody}
    BY DEF Inv, TypeOK, TraceTypeOK, Tracers
  <2>2. walk.by # Main /\ walk.by # Mmio
    BY <1>2, MmioServes, Zenon DEF Inv, StepsInv
  <2> QED
    BY <1>1, <2>1, <2>2, Zenon DEF LoopInv
<1>4. LoopInv'
  BY <1>2, <1>3, Zenon DEF LoopInv
<1>5. proc.owner = Nobody
  BY <1>1, Zenon DEF ProcInv, Wrapped
<1>6. TracerInv'
  <2> SUFFICES ASSUME NEW t \in HvThreads
               PROVE  TracerInv!(t)'
    BY Zenon DEF TracerInv
  <2>1. /\ tracer[t] = Nobody => life[t] \notin Stops \cup {"zombie"}
        /\ tracer[t] = Main => life[t] = "zombie"
    BY <1>1, <1>3, <1>5, Zenon DEF TracerInv
  <2>2. CASE life'[t] = life[t] /\ tracer'[t] = tracer[t]
    BY <2>1, <2>2, Zenon
  <2>3. CASE tracer'[t] = Nobody /\ life'[t] = "running"
    BY <2>3, Zenon DEF Stops
  <2>4. CASE tracer'[t] = Mmio
    BY <2>4, Zenon
  <2> QED
    BY <2>2, <2>3, <2>4, Zenon
<1> QED
  BY <1>4, <1>6

(* kvmrun_wrapped after its closure: the threads become a Process again,   *)
(* or the wrapper is dropped, or it hangs.                                 *)
LEMMA MmioUnwrapKeeps == Inv /\ MmioUnwrap => Inv'
<1> SUFFICES ASSUME Inv, MmioUnwrap PROVE Inv'
  OBVIOUS
<1> USE TracersAssumption
<1>1. TypeOK'
  BY TypeStep, Zenon DEF Inv, Next, MmioNext
<1>2. /\ TraceTypeOK /\ StepsInv /\ DeadInv
      /\ Alive => ProcInv /\ LoopInv /\ TracerInv /\ LeaderInv /\ ResInv
  BY Zenon DEF Inv, TypeOK
<1>3. /\ ipc = "unwrap" /\ mpc' = mpc /\ s1' = s1 /\ mode' = mode /\ res' = res /\ objs' = objs
      /\ spawnFailed' = spawnFailed /\ deadKept' = deadKept /\ MmioActive /\ ipc \in Wrapped
  BY Zenon DEF MmioUnwrap, MmioTo, MmioActive, Wrapped
<1>4. /\ mpc' \in Serving /\ mode' # "ioregion" /\ walk.by # Main /\ walk.by # Mmio
  BY <1>2, <1>3, MmioServes, Zenon DEF StepsInv
<1>5. ASSUME Alive
      PROVE  /\ ~proc.some /\ proc.owner = Nobody /\ text = "orig" /\ wrapper.some /\ ~poisoned
             /\ Leader \in wrapper.threads /\ wrapper.running \subseteq wrapper.threads
             /\ wrapper.threads \subseteq HvThreads
             /\ \A t \in wrapper.threads :
                   \/ tracer[t] = Mmio /\ (t \in wrapper.running <=> life[t] # "stopped")
                   \/ DeadThread(t) /\ t \notin wrapper.running
  <2>1. ~proc.some /\ proc.owner = Nobody /\ wrapper.some
    BY <1>2, <1>3, <1>5, Zenon DEF ProcInv
  <2>2. text = "orig" /\ ~poisoned
    BY <1>2, <1>3, <1>5, <2>1, MmioServes, Zenon DEF StepsInv
  <2>3. /\ Leader \in wrapper.threads /\ wrapper.running \subseteq wrapper.threads
        /\ \A t \in wrapper.threads :
              \/ tracer[t] = Mmio /\ (t \in wrapper.running <=> life[t] # "stopped")
              \/ DeadThread(t) /\ t \notin wrapper.running
    BY <1>2, <1>3, <1>5, Zenon DEF LoopInv
  <2>4. wrapper.threads \subseteq HvThreads
    BY <1>2 DEF TraceTypeOK
  <2> QED
    BY <2>1, <2>2, <2>3, <2>4
<1>6. ASSUME Unwrap(Mmio), ipc' = "disown", poisoned' = poisoned
      PROVE  Inv'
  <2>1. /\ Alive /\ tracer' = tracer /\ walk' = walk /\ text' = "patched" /\ wrapper' = NoWrapper
        /\ life' = [t \in HvThreads |-> IF t \in wrapper.running THEN "stopped" ELSE life[t]]
        /\ proc' = [some |-> TRUE, owner |-> Mmio, held |-> TRUE,
                    threads |-> wrapper.threads, saved |-> text]
    BY <1>6, Zenon DEF Unwrap
  <2>2. /\ proc'.some /\ proc'.owner = Mmio /\ proc'.held /\ proc'.threads = wrapper.threads
        /\ proc'.saved = "orig" /\ wrapper'.some = FALSE
    BY <1>5, <2>1 DEF NoWrapper
  <2>3. ASSUME NEW t \in HvThreads
        PROVE  /\ life'[t] = IF t \in wrapper.running THEN "stopped" ELSE life[t]
               /\ t \in wrapper.running => tracer[t] = Mmio
               /\ t \in wrapper.threads => Caught(Mmio, t)'
    <3>1. life'[t] = IF t \in wrapper.running THEN "stopped" ELSE life[t]
      BY <2>1, Zenon
    <3>2. t \in wrapper.running => t \in wrapper.threads
      BY <1>5, <2>1
    <3>3. t \in wrapper.running => tracer[t] = Mmio
      BY <1>5, <2>1, <3>2, Zenon
    <3>4. ASSUME t \in wrapper.threads PROVE Caught(Mmio, t)'
      <4>1. CASE t \in wrapper.running
        BY <2>1, <3>1, <3>3, <4>1, Zenon DEF Caught
      <4>2. CASE t \notin wrapper.running
        <5>1. life'[t] = life[t] /\ tracer'[t] = tracer[t]
          BY <2>1, <3>1, <4>2, Zenon
        <5>2. (tracer[t] = Mmio /\ life[t] = "stopped") \/ DeadThread(t)
          BY <1>5, <2>1, <3>4, <4>2, Zenon
        <5> QED
          BY <1>3, <5>1, <5>2, Zenon DEF Caught, DeadThread
      <4> QED
        BY <4>1, <4>2
    <3> QED
      BY <3>1, <3>3, <3>4, Zenon
  <2>4. Alive' /\ LeaderInv'
    <3>1. life'[Leader] = "stopped" \/ life'[Leader] = life[Leader]
      BY <2>3, LeaderIsThread
    <3> QED
      BY <1>2, <2>1, <3>1, Zenon DEF Alive, LeaderInv
  <2>5. StepsInv'
    <3>1. ~poisoned'
      BY <1>5, <1>6, <2>1
    <3> QED
      BY <1>3, <1>4, <2>1, <3>1, MmioStepsKept, Zenon
  <2>6. ProcInv'
    <3>1. ipc' \notin Wrapped \cup {"stuck", "wrap", "adopt"}
      BY <1>6, Zenon DEF Wrapped
    <3>2. Leader \in proc'.threads /\ \A t \in proc'.threads : Caught(Mmio, t)'
      BY <1>5, <2>1, <2>2, <2>3
    <3> QED
      BY <1>4, <1>6, <2>1, <2>2, <3>1, <3>2, Zenon DEF ProcInv, MainOwns, Serving
  <2>7. LoopInv' /\ TracerInv'
    <3>1. \A t \in HvThreads :
            \/ life'[t] = life[t] /\ tracer'[t] = tracer[t]
            \/ tracer'[t] = Mmio
      BY <2>1, <2>3
    <3> QED
      BY <1>3, <1>6, <2>1, <3>1, LeavesWrapper, Zenon
  <2>8. ResInv'
    BY <1>3, <2>1, ResKept, Zenon
  <2> QED
    BY <1>1, <2>4, <2>5, <2>6, <2>7, <2>8, Zenon DEF Inv, DeadInv
<1>7. ASSUME UnwrapErr(Mmio), ipc' = "disown", poisoned' = poisoned
      PROVE  Inv'
  <2>1. /\ DetachAll(Reachable(Mmio, wrapper.threads))
        /\ wrapper' = NoWrapper /\ text' = text /\ proc' = proc /\ walk' = walk
    BY <1>7, Zenon DEF UnwrapErr
  <2>2. Alive' <=> Alive
    BY <2>1, DetachAlive, Zenon
  <2>3. ~Alive => DeadInv'
    BY <1>2, <2>1, DetachDead, Zenon
  <2>4. StepsInv'
    <3>1. poisoned' => ~Alive'
      BY <1>2, <1>7, <2>2 DEF StepsInv
    <3> QED
      BY <1>3, <1>4, <2>1, <3>1, MmioStepsKept, Zenon
  <2>5. ASSUME Alive PROVE ProcInv' /\ LoopInv' /\ TracerInv' /\ LeaderInv' /\ ResInv'
    <3>1. \A t \in HvThreads :
            \/ life'[t] = life[t] /\ tracer'[t] = tracer[t]
            \/ life'[t] = "running" /\ tracer'[t] = Nobody
      BY <2>1, Zenon DEF DetachAll
    <3>2. LoopInv' /\ TracerInv'
      BY <1>3, <1>7, <2>1, <2>5, <3>1, LeavesWrapper, Zenon
    <3>3. LeaderInv'
      BY <1>2, <2>5, <3>1, LeaderIsThread, Zenon DEF LeaderInv
    <3>4. wrapper'.some = FALSE /\ ipc' \notin Wrapped \cup {"stuck", "wrap", "adopt"}
      BY <1>7, <2>1 DEF NoWrapper, Wrapped
    <3>5. proc'.owner = Nobody /\ ~proc'.some /\ text' # "patched"
      BY <1>5, <2>1, <2>5, Zenon
    <3>6. ProcInv'
      BY <1>4, <3>4, <3>5, NobodyHolds, Zenon
    <3> QED
      BY <1>3, <2>5, <3>2, <3>3, <3>6, ResKept, Zenon
  <2> QED
    BY <1>1, <2>2, <2>3, <2>4, <2>5, Zenon DEF Inv, DeadInv
<1>8. ASSUME UnwrapPanics, UNCHANGED traceVars, ipc' = "panicked"
      PROVE  Inv'
  <2>1. /\ life' = life /\ tracer' = tracer /\ walk' = walk /\ wrapper.threads = {}
    BY <1>8, Zenon DEF traceVars, UnwrapPanics
  <2>2. ~Alive
    BY <1>5, <2>1
  <2>3. ~Alive' /\ DeadInv'
    BY <1>2, <2>1, <2>2, Zenon DEF Alive, DeadInv
  <2>4. StepsInv'
    BY <1>3, <1>4, <2>1, <2>3, MmioStepsKept, Zenon
  <2> QED
    BY <1>1, <2>3, <2>4, Zenon DEF Inv
<1>9. ASSUME DetachHangs, UnwrapHang, ipc' = "stuck", poisoned' = poisoned
      PROVE  Inv'
  <2>1. Alive
    <3> SUFFICES ASSUME ~Alive PROVE FALSE
      OBVIOUS
    <3>1. \A t \in HvThreads : life[t] = "gone"
      BY <1>2, Zenon DEF DeadInv
    <3> QED
      BY <1>2, <1>9, <3>1 DEF DetachHangs, DetachHits, FirstHit, TraceTypeOK, HvThreads
  <2>2. /\ tracer' = tracer /\ text' = text /\ proc' = proc
        /\ wrapper' = wrapper /\ walk' = walk
    BY <1>9, Zenon DEF UnwrapHang
  <2>3. PICK t \in DetachHits :
          life' = [u \in HvThreads |->
                     IF u \in wrapper.running /\ u <= t /\ life[u] # "zombie"
                     THEN "stopped" ELSE life[u]]
    BY <1>9, Zenon DEF UnwrapHang
  <2>4. \A u \in HvThreads :
          \/ life'[u] = life[u]
          \/ life'[u] = "stopped" /\ tracer[u] = Mmio /\ u \in wrapper.threads
    <3> SUFFICES ASSUME NEW u \in HvThreads, life'[u] # life[u]
                 PROVE  life'[u] = "stopped" /\ tracer[u] = Mmio /\ u \in wrapper.threads
      OBVIOUS
    <3>1. u \in wrapper.running /\ life'[u] = "stopped"
      BY <2>3, Zenon
    <3>2. u \in wrapper.threads
      BY <1>5, <2>1, <3>1
    <3> QED
      BY <1>5, <2>1, <3>1, <3>2, Zenon
  <2>5. Alive' /\ LeaderInv'
    BY <1>2, <2>1, <2>4, LeaderIsThread, Zenon DEF Alive, LeaderInv
  <2>6. StepsInv'
    <3>1. ~poisoned'
      BY <1>5, <1>9, <2>1
    <3> QED
      BY <1>3, <1>4, <2>2, <3>1, MmioStepsKept, Zenon
  <2>7. ProcInv'
    BY <1>4, <1>5, <1>9, <2>1, <2>2, NobodyHolds, Zenon
  <2>8. LoopInv'
    <3>1. walk.by = Nobody
      BY <1>2, <1>4 DEF TraceTypeOK, Tracers
    <3> QED
      BY <1>2, <1>9, <2>1, <2>2, <3>1, Zenon DEF LoopInv, Wrapped
  <2>9. TracerInv'
    <3> SUFFICES ASSUME NEW u \in HvThreads
                 PROVE  TracerInv!(u)'
      BY Zenon DEF TracerInv
    <3>1. TracerInv!(u) /\ wrapper.some
      BY <1>2, <1>5, <2>1, Zenon DEF TracerInv
    <3>2. MmioActive'
      BY <1>9, Zenon DEF MmioActive
    <3>3. CASE life'[u] = life[u]
      BY <1>3, <2>2, <3>1, <3>2, <3>3, Zenon
    <3>4. CASE life'[u] # life[u]
      BY <2>2, <2>4, <3>1, <3>4, Zenon
    <3> QED
      BY <3>3, <3>4
  <2>10. ResInv'
    BY <1>3, <2>1, ResKept, Zenon
  <2> QED
    BY <1>1, <2>5, <2>6, <2>7, <2>8, <2>9, <2>10, Zenon DEF Inv, DeadInv
<1> QED
  BY <1>6, <1>7, <1>8, <1>9, Zenon DEF MmioUnwrap, MmioTo

(* The mmio thread gives the hypervisor up. *)
LEMMA MmioDisownKeeps == Inv /\ MmioDisown => Inv'
<1> SUFFICES ASSUME Inv, MmioDisown PROVE Inv'
  OBVIOUS
<1> USE TracersAssumption
<1>1. TypeOK'
  BY TypeStep, Zenon DEF Inv, Next, MmioNext
<1>2. /\ TraceTypeOK /\ StepsInv /\ DeadInv
      /\ Alive => ProcInv /\ LoopInv /\ TracerInv /\ LeaderInv /\ ResInv
  BY Zenon DEF Inv, TypeOK
<1>3. /\ ipc = "disown" /\ ipc' = "exit" /\ mpc' = mpc /\ s1' = s1 /\ mode' = mode
      /\ res' = res /\ objs' = objs /\ spawnFailed' = spawnFailed /\ deadKept' = deadKept
      /\ poisoned' = poisoned /\ (DisownOk(Mmio) \/ DisownErr(Mmio)) /\ MmioActive
  BY Zenon DEF MmioDisown, MmioTo, NoFaultHistory, MmioActive
<1>4. mpc' \in Serving /\ mode' # "ioregion" /\ walk.by # Main /\ walk.by # Mmio
  BY <1>2, <1>3, MmioServes, Zenon DEF StepsInv
<1>5. ipc \notin Wrapped \cup {"stuck"} /\ ipc' \notin Wrapped \cup {"stuck", "wrap", "adopt"}
  BY <1>3, Zenon DEF Wrapped
<1>6. CASE ~Alive
  <2>1. DeadInv' /\ ~Alive' /\ walk' = walk
    BY <1>2, <1>3, <1>6, DisownsDead, Zenon
  <2>2. StepsInv'
    BY <1>3, <1>4, <2>1, MmioStepsKept, Zenon
  <2> QED
    BY <1>1, <2>1, <2>2, Zenon DEF Inv
<1>7. ASSUME Alive, proc.owner = Mmio
      PROVE  Inv'
  <2>1. proc.some /\ proc.held
    BY <1>2, <1>3, <1>7, Zenon DEF ProcInv, Lost
  <2>2. /\ Alive' /\ text' = "orig" /\ wrapper' = wrapper /\ walk' = walk
        /\ LoopInv' /\ TracerInv' /\ LeaderInv'
        /\ \/ proc'.some /\ proc'.held /\ proc'.owner = Nobody /\ Leader \in proc'.threads
           \/ deadKept /\ proc'.some /\ ~proc'.held /\ proc'.owner = Mmio /\ proc'.threads = {}
    BY <1>3, <1>7, <2>1, Disowns, Zenon DEF Tracers
  <2>3. StepsInv'
    <3>1. ~poisoned'
      BY <1>2, <1>3, <1>7 DEF StepsInv
    <3> QED
      BY <1>3, <1>4, <2>2, <3>1, MmioStepsKept, Zenon
  <2>4. ~wrapper'.some
    BY <1>2, <1>5, <1>7, <2>2, Zenon DEF ProcInv
  <2>5. CASE proc'.some /\ proc'.held /\ proc'.owner = Nobody /\ Leader \in proc'.threads
    <3>1. ProcInv'
      BY <1>4, <1>5, <2>2, <2>4, <2>5, NobodyHolds
    <3> QED
      BY <1>1, <1>3, <1>7, <2>2, <2>3, <3>1, ResKept, Zenon DEF Inv, DeadInv
  <2>6. CASE deadKept /\ proc'.some /\ ~proc'.held /\ proc'.owner = Mmio /\ proc'.threads = {}
    <3>1. Lost'
      BY <1>3, <1>4, <2>6, Zenon DEF Lost, Serving
    <3>2. ProcInv'
      BY <1>3, <1>4, <1>5, <2>2, <2>4, <2>6, <3>1, Zenon DEF ProcInv, MainOwns, Serving
    <3> QED
      BY <1>1, <1>3, <1>7, <2>2, <2>3, <3>2, ResKept, Zenon DEF Inv, DeadInv
  <2> QED
    BY <2>2, <2>5, <2>6
<1>8. ASSUME Alive, proc.owner = Nobody
      PROVE  Inv'
  <2>1. UNCHANGED traceVars
    BY <1>3, <1>8, Zenon DEF DisownOk, DisownErr
  <2>2. /\ life' = life /\ tracer' = tracer /\ text' = text /\ proc' = proc
        /\ wrapper' = wrapper /\ walk' = walk
    BY <2>1, Zenon DEF traceVars
  <2>3. Alive'
    BY <1>8, <2>2, Zenon DEF Alive
  <2>4. StepsInv'
    <3>1. ~poisoned'
      BY <1>2, <1>3, <1>8 DEF StepsInv
    <3> QED
      BY <1>3, <1>4, <2>2, <3>1, MmioStepsKept, Zenon
  <2>5. ProcInv'
    <3>1. /\ text' # "patched" /\ ~wrapper'.some
          /\ proc'.some => proc'.held /\ Leader \in proc'.threads
      BY <1>2, <1>3, <1>5, <1>8, <2>2, MmioServes, Zenon DEF ProcInv, Lost
    <3> QED
      BY <1>4, <1>5, <1>8, <2>2, <3>1, NobodyHolds
  <2>6. LoopInv'
    <3>1. walk.by = Nobody
      BY <1>2, <1>4 DEF TraceTypeOK, Tracers
    <3> QED
      BY <1>2, <1>5, <1>8, <2>2, <3>1, Zenon DEF LoopInv
  <2>7. TracerInv'
    BY <1>2, <1>3, <1>8, <2>2, Zenon DEF TracerInv, MmioActive
  <2>8. LeaderInv'
    BY <1>2, <1>8, <2>2, Zenon DEF LeaderInv
  <2> QED
    BY <1>1, <1>3, <1>8, <2>3, <2>4, <2>5, <2>6, <2>7, <2>8, ResKept, Zenon DEF Inv, DeadInv
<1> QED
  BY <1>3, <1>6, <1>7, <1>8, MmioServes, Zenon

(* The mmio thread exits, and the kernel detaches what it still traced. *)
LEMMA MmioExitKeeps == Inv /\ MmioExit => Inv'
<1> SUFFICES ASSUME Inv, MmioExit PROVE Inv'
  OBVIOUS
<1> USE TracersAssumption
<1>1. TypeOK'
  BY TypeStep, Zenon DEF Inv, Next, MmioNext
<1>2. /\ TraceTypeOK /\ StepsInv /\ DeadInv
      /\ Alive => ProcInv /\ LoopInv /\ TracerInv /\ LeaderInv /\ ResInv
  BY Zenon DEF Inv, TypeOK
<1>3. /\ ipc = "exit" /\ ipc' = "exited" /\ mpc' = mpc /\ s1' = s1 /\ mode' = mode
      /\ res' = res /\ objs' = objs /\ spawnFailed' = spawnFailed /\ deadKept' = deadKept
      /\ poisoned' = poisoned /\ TracerExit({Mmio}) /\ MmioActive
      /\ text' = text /\ proc' = proc /\ wrapper' = wrapper /\ walk' = walk
  BY Zenon DEF MmioExit, MmioTo, NoFaultHistory, KeepsThreads, MmioActive
<1>4. mpc' \in Serving /\ mode' # "ioregion" /\ walk.by # Main /\ walk.by # Mmio
  BY <1>2, <1>3, MmioServes, Zenon DEF StepsInv
<1>5. ipc \notin Wrapped \cup {"stuck"} /\ ipc' \notin Wrapped \cup {"stuck", "wrap", "adopt"}
  BY <1>3, Zenon DEF Wrapped
<1>6. \A t \in HvThreads :
        \/ /\ tracer[t] = Mmio /\ tracer'[t] = Nobody
           /\ \/ life[t] \in Stops /\ life'[t] = "running"
              \/ life[t] = "zombie" /\ life'[t] = "gone"
              \/ life[t] \notin Stops \cup {"zombie"} /\ life'[t] = life[t]
        \/ tracer[t] # Mmio /\ tracer'[t] = tracer[t] /\ life'[t] = life[t]
  BY <1>3 DEF TracerExit
<1>7. DeadInv' /\ (Alive' => Alive)
  <2>1. ASSUME ~Alive, NEW t \in HvThreads
        PROVE  life'[t] = "gone" /\ tracer'[t] = Nobody
    BY <1>2, <1>6, <2>1, Zenon DEF DeadInv
  <2>2. ~Alive => ~Alive'
    BY <2>1, LeaderIsThread, Zenon DEF Alive
  <2>3. ASSUME Alive PROVE Alive'
    <3>1. life[Leader] # "zombie"
      BY <1>2, <2>3, Zenon DEF LeaderInv
    <3> QED
      BY <1>6, <2>3, <3>1, LeaderIsThread, Zenon DEF Alive
  <2> QED
    BY <2>1, <2>2, <2>3, Zenon DEF DeadInv
<1>8. StepsInv'
  <2>1. poisoned' => ~Alive'
    BY <1>2, <1>3, <1>7 DEF StepsInv
  <2> QED
    BY <1>3, <1>4, <2>1, MmioStepsKept, Zenon
<1>9. ASSUME Alive PROVE ProcInv' /\ LoopInv' /\ TracerInv' /\ LeaderInv' /\ ResInv'
  <2>1. ~wrapper'.some
    BY <1>2, <1>3, <1>5, <1>9, Zenon DEF ProcInv
  <2>2. ProcInv'
    <3>1. CASE proc.owner = Nobody
      <4>1. /\ text' # "patched" /\ proc'.owner = Nobody
            /\ proc'.some => proc'.held /\ Leader \in proc'.threads
        BY <1>2, <1>3, <1>9, <3>1, MmioServes, Zenon DEF ProcInv, Lost
      <4> QED
        BY <1>4, <1>5, <2>1, <4>1, NobodyHolds
    <3>2. CASE proc.owner = Mmio
      <4>1. proc.some /\ ~proc.held /\ Lost /\ text # "patched"
        BY <1>2, <1>3, <1>9, <3>2, MmioServes, Zenon DEF ProcInv
      <4>2. Lost'
        BY <1>3, <1>4, <4>1, <3>2, Zenon DEF Lost, Serving
      <4> QED
        BY <1>3, <1>4, <1>5, <2>1, <3>2, <4>1, <4>2, Zenon DEF ProcInv, MainOwns, Serving
    <3> QED
      BY <1>3, <1>9, <3>1, <3>2, MmioServes, Zenon
  <2>3. walk.by = Nobody /\ proc.owner # Main
    BY <1>2, <1>3, <1>4, <1>9, MmioServes DEF TraceTypeOK, Tracers
  <2>4. LoopInv'
    BY <1>2, <1>3, <1>5, <1>9, <2>3, Zenon DEF LoopInv
  <2>5. TracerInv'
    <3> SUFFICES ASSUME NEW t \in HvThreads
                 PROVE  TracerInv!(t)'
      BY Zenon DEF TracerInv
    <3>1. /\ tracer[t] = Nobody => life[t] \notin Stops \cup {"zombie"}
          /\ tracer[t] = Main => life[t] = "zombie"
      BY <1>2, <1>9, <2>3, Zenon DEF TracerInv
    <3>2. /\ tracer'[t] # Mmio
          /\ tracer'[t] = Nobody => life'[t] \notin Stops \cup {"zombie"}
          /\ tracer'[t] = Main => life'[t] = "zombie"
      BY <1>6, <3>1 DEF Stops
    <3> QED
      BY <3>2, Zenon
  <2>6. LeaderInv'
    BY <1>2, <1>6, <1>9, LeaderIsThread, Zenon DEF LeaderInv
  <2> QED
    BY <1>3, <1>9, <2>2, <2>4, <2>5, <2>6, ResKept, Zenon
<1> QED
  BY <1>1, <1>7, <1>8, <1>9, Zenon DEF Inv

(* The stage1 thread ends. *)
LEMMA Stage1ExitKeeps == Inv /\ Stage1Exit => Inv'
<1> SUFFICES ASSUME Inv, Stage1Exit PROVE Inv'
  OBVIOUS
<1>1. TypeOK'
  BY TypeStep, Zenon DEF Inv, Next
<1>2. /\ TraceTypeOK /\ StepsInv /\ DeadInv
      /\ Alive => ProcInv /\ LoopInv /\ TracerInv /\ LeaderInv /\ ResInv
  BY Zenon DEF Inv, TypeOK
<1>3. /\ UNCHANGED traceVars /\ s1 = "run" /\ s1' = "exited" /\ mpc' = mpc /\ ipc' = ipc
      /\ mode' = mode /\ res' = res /\ objs' = objs /\ spawnFailed' = spawnFailed
      /\ deadKept' = deadKept /\ poisoned' = poisoned
  BY Zenon DEF Stage1Exit, NoFaultHistory
<1>4. /\ DeadInv' /\ (Alive' <=> Alive)
      /\ Alive' => LoopInv' /\ TracerInv' /\ LeaderInv'
  BY <1>3, Untraced, Zenon
<1>5. proc' = proc /\ wrapper' = wrapper /\ walk' = walk /\ text' = text /\ life' = life /\ tracer' = tracer
  BY <1>3, Zenon DEF traceVars
<1>6. StepsInv'
  BY <1>2, <1>3, <1>4, <1>5 DEF StepsInv, MmioActive, BeforeMmio, AfterStage1
<1>7. ASSUME Alive PROVE ProcInv'
  <2>1. Lost => Lost'
    BY <1>3, <1>5, Zenon DEF Lost
  <2>2. ASSUME NEW t, Caught(proc.owner, t) PROVE Caught(proc.owner, t)'
    BY <1>3, <1>5, <2>2, Zenon DEF Caught, DeadThread
  <2>3. ProcInv
    BY <1>2, <1>7
  <2> QED
    BY <1>3, <1>5, <2>1, <2>2, <2>3, Zenon DEF ProcInv
<1> QED
  BY <1>1, <1>3, <1>4, <1>6, <1>7, ResKept, Zenon DEF Inv

(* A signal for vmsh. *)
LEMMA MessageKeeps == Inv /\ Message => Inv'
<1> SUFFICES ASSUME Inv, Message PROVE Inv'
  OBVIOUS
<1>1. TypeOK'
  BY TypeStep, Zenon DEF Inv, Next
<1>2. /\ TraceTypeOK /\ StepsInv /\ DeadInv
      /\ Alive => ProcInv /\ LoopInv /\ TracerInv /\ LeaderInv /\ ResInv
  BY Zenon DEF Inv, TypeOK
<1>3. /\ UNCHANGED traceVars /\ s1' = s1 /\ mpc' = mpc /\ ipc' = ipc
      /\ mode' = mode /\ res' = res /\ objs' = objs /\ spawnFailed' = spawnFailed
      /\ deadKept' = deadKept /\ poisoned' = poisoned
  BY Zenon DEF Message, NoFaultHistory
<1>4. /\ DeadInv' /\ (Alive' <=> Alive)
      /\ Alive' => LoopInv' /\ TracerInv' /\ LeaderInv'
  BY <1>3, Untraced, Zenon
<1>5. proc' = proc /\ wrapper' = wrapper /\ walk' = walk /\ text' = text /\ life' = life /\ tracer' = tracer
  BY <1>3, Zenon DEF traceVars
<1>6. StepsInv'
  BY <1>2, <1>3, <1>4, <1>5 DEF StepsInv, MmioActive
<1>7. ASSUME Alive PROVE ProcInv'
  <2>1. Lost => Lost'
    BY <1>3, <1>5, Zenon DEF Lost
  <2>2. ASSUME NEW t, Caught(proc.owner, t) PROVE Caught(proc.owner, t)'
    BY <1>3, <1>5, <2>2, Zenon DEF Caught, DeadThread
  <2>3. ProcInv
    BY <1>2, <1>7
  <2> QED
    BY <1>3, <1>5, <2>1, <2>2, <2>3, Zenon DEF ProcInv
<1> QED
  BY <1>1, <1>3, <1>4, <1>6, <1>7, ResKept, Zenon DEF Inv

(* A hypervisor thread is created, exits or stops: only untraced threads,  *)
(* threads that are just being seized, and threads under the wrapper can   *)
(* run at all.                                                             *)
LEMMA HvStepKeeps == Inv /\ (HvTrap \/ HvStep) => Inv'
<1> SUFFICES ASSUME Inv, HvTrap \/ HvStep PROVE Inv'
  OBVIOUS
<1> USE ThreadsAssumption, TracersAssumption
<1>1. TypeOK'
  BY TypeStep, Zenon DEF Inv, Next
<1>2. /\ TraceTypeOK /\ StepsInv /\ DeadInv
      /\ Alive => ProcInv /\ LoopInv /\ TracerInv /\ LeaderInv /\ ResInv
  BY Zenon DEF Inv, TypeOK
<1>3. /\ mpc' = mpc /\ ipc' = ipc /\ s1' = s1 /\ mode' = mode /\ res' = res /\ objs' = objs
      /\ spawnFailed' = spawnFailed /\ deadKept' = deadKept /\ poisoned' = poisoned
      /\ tracer' = tracer /\ text' = text /\ proc' = proc /\ wrapper' = wrapper /\ walk' = walk
  BY Zenon DEF HvTrap, HvStep, SpawnThread, ExitThread, Trap, threadVars
<1>4. PICK t \in HvThreads :
        \/ SpawnThread(t) \/ ExitThread(t)
        \/ \E how \in {"syscall", "signal"} : Trap(t, how)
  BY DEF HvTrap, HvStep
<1>5. /\ life[t] \in {"running", "unborn"} /\ life'[t] \notin {"stopped", "unborn"}
      /\ \A u \in HvThreads \ {t} : life'[u] = life[u]
      /\ life'[t] \in Stops \cup {"zombie"} => tracer[t] # Nobody
      /\ t = Leader => life'[t] \notin {"gone", "zombie"}
      /\ t = walk.at /\ tracer[t] # Nobody => life[t] = "unborn" \/ life'[t] = "zombie"
  BY <1>2, <1>4 DEF SpawnThread, ExitThread, Trap, TraceTypeOK, Stops
<1>6. Alive /\ Alive'
  BY <1>2, <1>5 DEF Alive, DeadInv, Leader, HvThreads
<1>7. /\ ProcInv /\ LoopInv /\ TracerInv /\ LeaderInv
      /\ t # Leader => life[Leader] = life'[Leader]
  BY <1>2, <1>5, <1>6, LeaderIsThread
<1>8. StepsInv' /\ ResInv'
  BY <1>2, <1>3, <1>6 DEF StepsInv, ResInv, MmioActive
<1>9. ASSUME NEW v, NEW u \in HvThreads, Caught(v, u)
      PROVE  \/ tracer'[u] = v /\ life'[u] = "stopped"
             \/ deadKept' /\ life'[u] = "gone" /\ tracer'[u] = Nobody
  <2>1. life[u] \in {"stopped", "gone"}
    BY <1>9, Zenon DEF Caught, DeadThread
  <2>2. u # t
    BY <1>5, <2>1
  <2>3. life'[u] = life[u]
    BY <1>5, <2>2
  <2> QED
    BY <1>3, <1>9, <2>2, <2>3, Zenon DEF Caught, DeadThread
<1>10. ProcInv'
  <2>1. Lost => Lost'
    BY <1>3, Zenon DEF Lost
  <2>2. proc.owner # Nobody /\ proc.held => \A u \in proc.threads : Caught(proc.owner, u)'
    <3>1. proc.threads \subseteq HvThreads
      BY <1>2 DEF TraceTypeOK
    <3>2. proc.owner # Nobody /\ proc.held => \A u \in proc.threads : Caught(proc.owner, u)
      BY <1>7, Zenon DEF ProcInv
    <3> QED
      BY <1>3, <1>9, <3>1, <3>2 DEF Caught, DeadThread
  <2> QED
    BY <1>3, <1>7, <2>1, <2>2, Zenon DEF ProcInv
<1>11. LoopInv'
  <2>1. ASSUME walk.by # Nobody
        PROVE  /\ proc.owner = Nobody
               /\ Leader \in walk.todo \cup walk.got \cup {walk.at}
               /\ walk.todo \cap walk.got = {} /\ walk.at \notin walk.todo \cup walk.got
               /\ \A u \in walk.got : Caught(walk.by, u)'
               /\ walk.at # 0 => tracer[walk.at] = walk.by /\ life'[walk.at] \in {"running", "zombie"}
    <3>1. walk.got \subseteq HvThreads /\ walk.at \in HvThreads \cup {0}
      BY <1>2 DEF TraceTypeOK
    <3>2. /\ \A u \in walk.got : Caught(walk.by, u)
          /\ walk.at # 0 => tracer[walk.at] = walk.by /\ life[walk.at] \in {"running", "zombie"}
      BY <1>7, <2>1, Zenon DEF LoopInv
    <3>3. \A u \in walk.got : Caught(walk.by, u)'
      BY <1>3, <1>9, <3>1, <3>2 DEF Caught, DeadThread
    <3>4. walk.at # 0 => tracer[walk.at] = walk.by /\ life'[walk.at] \in {"running", "zombie"}
      <4>1. CASE walk.at # t
        BY <1>5, <3>1, <3>2, <4>1
      <4>2. CASE walk.at = t
        BY <1>5, <2>1, <3>2, <4>2
      <4> QED
        BY <4>1, <4>2
    <3> QED
      BY <1>7, <2>1, <3>3, <3>4, Zenon DEF LoopInv
  <2>2. ASSUME ipc \in Wrapped
        PROVE  /\ Leader \in wrapper.threads
               /\ wrapper.running \subseteq wrapper.threads
               /\ \A u \in wrapper.threads :
                    \/ /\ tracer[u] = Mmio
                       /\ u \in wrapper.running <=> life'[u] # "stopped"
                    \/ /\ DeadThread(u)' /\ u \notin wrapper.running
                       /\ ipc \in {"ready", "notify", "unwrap"}
    <3>1. wrapper.threads \subseteq HvThreads
      BY <1>2 DEF TraceTypeOK
    <3>2. /\ Leader \in wrapper.threads
          /\ wrapper.running \subseteq wrapper.threads
          /\ \A u \in wrapper.threads :
               \/ /\ tracer[u] = Mmio
                  /\ u \in wrapper.running <=> life[u] # "stopped"
               \/ /\ DeadThread(u) /\ u \notin wrapper.running
                  /\ ipc \in {"ready", "notify", "unwrap"}
      BY <1>7, <2>2, Zenon DEF LoopInv
    <3>3. ASSUME NEW u \in wrapper.threads
          PROVE  \/ /\ tracer[u] = Mmio
                    /\ u \in wrapper.running <=> life'[u] # "stopped"
                 \/ /\ DeadThread(u)' /\ u \notin wrapper.running
                    /\ ipc \in {"ready", "notify", "unwrap"}
      <4>0. u \in HvThreads
        BY <3>1
      <4>1. CASE DeadThread(u) /\ u \notin wrapper.running /\ ipc \in {"ready", "notify", "unwrap"}
        <5>1. u # t
          BY <1>5, <4>1 DEF DeadThread
        <5>2. life'[u] = life[u]
          BY <1>5, <4>0, <5>1
        <5> QED
          BY <1>3, <4>1, <5>2, Zenon DEF DeadThread
      <4>2. CASE tracer[u] = Mmio /\ (u \in wrapper.running <=> life[u] # "stopped")
        BY <1>5, <4>0, <4>2
      <4> QED
        BY <3>2, <4>1, <4>2, Zenon
    <3> QED
      BY <3>2, <3>3, Zenon
  <2>3. walk.by = Nobody => walk.at = 0
    BY <1>7, Zenon DEF LoopInv
  <2> QED
    BY <1>3, <2>1, <2>2, <2>3, Zenon DEF LoopInv
<1>12. TracerInv'
  <2> SUFFICES ASSUME NEW u \in HvThreads
               PROVE  TracerInv!(u)'
    BY Zenon DEF TracerInv
  <2>1. TracerInv!(u)
    BY <1>7, Zenon DEF TracerInv
  <2>2. MmioActive' <=> MmioActive
    BY <1>3, Zenon DEF MmioActive
  <2>3. CASE u # t
    <3>1. life'[u] = life[u]
      BY <1>5, <2>3
    <3> QED
      BY <1>3, <2>1, <2>2, <3>1, Zenon
  <2>4. CASE u = t
    <3>1. life[u] # "zombie" /\ (tracer[u] = Nobody => life'[u] \notin Stops \cup {"zombie"})
      BY <1>5, <2>4
    <3> QED
      BY <1>3, <2>1, <3>1, Zenon
  <2> QED
    BY <2>3, <2>4
<1>13. LeaderInv'
  BY <1>5, <1>7 DEF LeaderInv
<1> QED
  BY <1>1, <1>6, <1>8, <1>10, <1>11, <1>12, <1>13, Zenon DEF Inv, DeadInv

(* The hypervisor ends. *)
LEMMA HvDieKeeps == Inv /\ HvDie => Inv'
<1> SUFFICES ASSUME Inv, HvDie PROVE Inv'
  OBVIOUS
<1> USE ThreadsAssumption, TracersAssumption
<1>1. TypeOK'
  BY TypeStep DEF Inv, Next
<1>2. StepsInv
  BY DEF Inv
<1>3. ~Alive' /\ DeadInv'
  BY LeaderIsThread DEF Alive, DeadInv, HvDie, Die
<1>4. StepsInv'
  BY <1>2, <1>3 DEF StepsInv, MmioActive, HvDie, Die, NoFaultHistory
<1> QED
  BY <1>1, <1>3, <1>4, Zenon DEF Inv

-----------------------------------------------------------------------------
(* Theorems.                                                                *)

(* The invariant holds when vmsh starts. *)
LEMMA InvInit == Init => Inv
<1> SUFFICES ASSUME Init PROVE Inv
  OBVIOUS
<1> USE ThreadsAssumption, TracersAssumption
<1>1. PICK born \in HvThreads :
        life = [t \in HvThreads |-> IF t <= born THEN "running" ELSE "unborn"]
  BY DEF Init, TraceInit
<1>2. TypeOK
  BY <1>1, ModesAssumption, GroupsAssumption
  DEF Init, TraceInit, TypeOK, TraceTypeOK, ThreadTypeOK, NoProc, NoWrapper, NoWalk,
      Lives, Stops, Tracers, MainSteps, MmioSteps
<1>3. Leader \in HvThreads /\ life[Leader] = "running"
  BY <1>1 DEF HvThreads, Leader
<1>4. StepsInv /\ DeadInv /\ LeaderInv
  BY <1>3 DEF Init, TraceInit, NoWalk, StepsInv, DeadInv, LeaderInv, MmioActive,
         Serving,
     BeforeMmio, AfterStage1, Alive
<1>5. ProcInv
  BY DEF Init, TraceInit, NoProc, NoWrapper, ProcInv, MainOwns, Serving, Wrapped
<1>6. LoopInv /\ TracerInv
  BY <1>1 DEF Init, TraceInit, NoWalk, LoopInv, TracerInv, Wrapped, Stops
<1>7. ResInv
  BY DEF Init, ResInv
<1> QED
  BY <1>2, <1>4, <1>5, <1>6, <1>7 DEF Inv

(* Stuttering preserves the invariant. *)
LEMMA InvStutter == Inv /\ UNCHANGED vars => Inv'
<1> SUFFICES ASSUME Inv, UNCHANGED vars PROVE Inv'
  OBVIOUS
<1>1. TypeOK'
  BY TypeStep DEF Inv
<1>2. UNCHANGED Alive
  BY DEF Alive, vars, traceVars
<1>3. StepsInv' /\ DeadInv'
  BY <1>2 DEF Inv, StepsInv, DeadInv, MmioActive, vars, traceVars, threadVars
<1>4. ProcInv => ProcInv'
  <2>1. Lost' = Lost /\ \A v, t : Caught(v, t)' = Caught(v, t)
    BY DEF Lost, Caught, DeadThread, vars, traceVars, threadVars
  <2> QED
    BY <2>1 DEF ProcInv, vars, traceVars, threadVars
<1>5. LoopInv /\ TracerInv /\ LeaderInv /\ ResInv => LoopInv' /\ TracerInv' /\ LeaderInv' /\ ResInv'
  BY DEF LoopInv, TracerInv, LeaderInv, ResInv, Caught, DeadThread, MmioActive, vars, traceVars,
         threadVars
<1> QED
  BY <1>1, <1>2, <1>3, <1>4, <1>5 DEF Inv

(* Every step preserves the invariant. *)
LEMMA InvStep == Inv /\ [Next]_vars => Inv'
  BY InvStutter, MainStopKeeps, MainSeizeKeeps, MainAttachedKeeps,
     MainAttachFailsKeeps, MainCreateKeeps, MainPollKeeps,
     MainSpawnStage1Keeps, MainStartKeeps, MainDisownKeeps,
     MainSpawnMmioKeeps, MainWaitKeeps, MainTerminateKeeps, MainSpinKeeps, MainJoinKeeps,
     MainAdoptKeeps, MainAdoptedKeeps, MainAdoptFailsKeeps, MainDropKeeps,
     MainResumeKeeps, MainUnwindKeeps, MmioAdoptKeeps, MmioSeizeKeeps,
     MmioAdoptedKeeps, MmioAdoptFailsKeeps, MmioWrapKeeps, MmioReadyKeeps,
     MmioResumeKeeps, MmioReapKeeps, MmioReapDeadKeeps, MmioNotifyKeeps, MmioUnwrapKeeps,
     MmioDisownKeeps, MmioExitKeeps, Stage1ExitKeeps, IoregionFailsKeeps, MessageKeeps,
     HvStepKeeps, HvDieKeeps
  DEF Next, MainNext, MmioNext

(* The inductive invariant holds in every reachable state, for any number  *)
(* of hypervisor threads and any set of faults.                            *)
THEOREM Invariance == Spec => []Inv
  BY InvInit, InvStep, PTL DEF Spec

(* The variables keep their types. *)
THEOREM TypeCorrect == Spec => []TypeOK
<1>1. Inv => TypeOK
  BY DEF Inv
<1> QED
  BY <1>1, Invariance, PTL

(* Patched text is always under control of the owner, who knows the word   *)
(* to write back (init and deinit in inject_syscall.rs).                   *)
THEOREM PatchIsGuarded == Spec => []PatchGuarded
<1>1. Inv => PatchGuarded
  <2> SUFFICES ASSUME Inv, text = "patched", Alive, ~spawnFailed
               PROVE  /\ proc.some /\ proc.held /\ proc.saved = "orig"
                      /\ Leader \in Reachable(proc.owner, proc.threads)
                      /\ life[Leader] = "stopped"
    BY DEF PatchGuarded
  <2>1. ProcInv
    BY DEF Inv
  <2>2. proc.some /\ proc.held /\ proc.saved = "orig" /\ Leader \in proc.threads
    BY <2>1, Zenon DEF ProcInv, Lost
  <2>3. tracer[Leader] = proc.owner /\ life[Leader] = "stopped"
    <3>1. Caught(proc.owner, Leader)
      BY <2>1, <2>2, Zenon DEF ProcInv
    <3> QED
      BY <3>1, LeaderCaught, Zenon
  <2> QED
    BY <2>2, <2>3 DEF Reachable, Stops
<1> QED
  BY <1>1, Invariance, PTL

(* The is_running flags of a KvmRunWrapper agree with the kernel           *)
(* (stop_on_syscall and process_status in wrap_syscall.rs).                *)
THEOREM WrapperIsAccurate == Spec => []WrapperTracks
<1>1. Inv => WrapperTracks
  BY DEF Inv, ProcInv, LoopInv, WrapperTracks, Wrapped, DeadThread
<1> QED
  BY <1>1, Invariance, PTL

(* No hypervisor thread is left in a stop that nothing in vmsh will end    *)
(* (adopt, disown and the destructors).                                    *)
THEOREM NoStopIsLost == Spec => []StopsAreHeld
<1>1. Inv => StopsAreHeld
  <2> SUFFICES ASSUME Inv, NEW t \in HvThreads, life[t] \in Stops
               PROVE  \/ proc.some /\ proc.owner = tracer[t] /\ t \in proc.threads
                      \/ wrapper.some /\ t \in wrapper.threads
                      \/ walk.by = tracer[t] /\ t \in walk.got
                      \/ tracer[t] = Mmio /\ ipc \in {"disown", "exit"}
    BY DEF StopsAreHeld
  <2>1. Alive /\ TracerInv /\ ProcInv
    BY DEF Inv, DeadInv, Stops
  <2>2. tracer[t] \in {Main, Mmio, Nobody}
    BY DEF Inv, TypeOK, TraceTypeOK, Tracers
  <2>3. life[t] # "zombie" /\ tracer[t] # Nobody
    BY <2>1 DEF TracerInv, Stops
  <2>4. t = walk.at => walk.by # tracer[t]
    BY <2>1, <2>2, <2>3, TracersAssumption DEF Inv, LoopInv, Stops, HvThreads
  <2> QED
    BY <2>1, <2>2, <2>3, <2>4, TracersAssumption DEF TracerInv, ProcInv
<1> QED
  BY <1>1, Invariance, PTL

(* Destructors run only where they can inject: what is in a living         *)
(* hypervisor has an object that will take it out (the error paths of      *)
(* attach).                                                                *)
THEOREM NoOrphan == Spec => []NothingOrphaned
<1>1. Inv => NothingOrphaned
  BY DEF Inv, ResInv, NothingOrphaned
<1> QED
  BY <1>1, Invariance, PTL

(* A vmsh that has ended leaves a living hypervisor untraced, with its own *)
(* text and without the resources of vmsh (the end of attach, and its      *)
(* early returns).                                                         *)
THEOREM ExitIsClean == Spec => []CleanExit
<1>1. Inv => CleanExit
  <2> SUFFICES ASSUME Inv, mpc = "done", Alive, ~spawnFailed
               PROVE  /\ ~deadKept => res = {}
                      /\ text = "orig"
                      /\ \A t \in HvThreads :
                            life[t] \notin Stops /\ (tracer[t] = Nobody \/ life[t] = "zombie")
    BY DEF CleanExit
  <2>1. TraceTypeOK /\ StepsInv /\ ProcInv /\ TracerInv /\ ResInv
    BY DEF Inv, TypeOK
  <2>2. ~MmioActive /\ walk.by = Nobody
    BY <2>1 DEF StepsInv, Serving, MmioActive, TraceTypeOK, Tracers
  <2>3. proc.owner = Nobody /\ ~wrapper.some
    <3>1. ~Lost
      BY DEF Lost, Serving
    <3> QED
      BY <2>1, <2>2, <3>1 DEF ProcInv, MainOwns, MmioActive, Wrapped, TraceTypeOK, Tracers
  <2>4. text = "orig"
    BY <2>1, <2>3 DEF ProcInv, TraceTypeOK
  <2>5. ASSUME NEW t \in HvThreads
        PROVE  life[t] \notin Stops /\ (tracer[t] = Nobody \/ life[t] = "zombie")
    <3>1. tracer[t] \in {Main, Mmio, Nobody}
      BY <2>1 DEF TraceTypeOK, Tracers
    <3>2. tracer[t] = Nobody \/ life[t] = "zombie"
      BY <2>1, <2>2, <2>3, <3>1, TracersAssumption DEF TracerInv, MmioActive
    <3> QED
      BY <2>1, <3>2 DEF TracerInv, Stops
  <2> QED
    BY <2>1, <2>4, <2>5 DEF ResInv
<1> QED
  BY <1>1, Invariance, PTL

=============================================================================
