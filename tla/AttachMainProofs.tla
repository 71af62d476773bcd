-------------------------- MODULE AttachMainProofs --------------------------
(***************************************************************************)
(* Every step of Attach keeps the types; a step of the seize loop, which   *)
(* attach and adopt share, and every step of the main thread keep the      *)
(* invariant.                                                              *)
(***************************************************************************)
EXTENDS AttachInvariant, TLAPS

-----------------------------------------------------------------------------
(* Types.  The operations of TraceControl first.                           *)

(* The leader is one of the hypervisor's threads. *)
LEMMA LeaderIsThread == Leader \in HvThreads
  BY ThreadsAssumption DEF Leader, HvThreads

(* Detaching keeps the types of the thread states. *)
LEMMA DetachAllTypes ==
    ASSUME TraceTypeOK, NEW S, DetachAll(S)
    PROVE  life' \in [HvThreads -> Lives] /\ tracer' \in [HvThreads -> Tracers \cup {Nobody}]
  BY DEF TraceTypeOK, DetachAll, Lives, Stops

(* The text that deinit leaves is one of the two words. *)
LEMMA RestoredTypes ==
    ASSUME TraceTypeOK, NEW v PROVE Restored(v) \in {"orig", "patched"}
  BY DEF TraceTypeOK, Restored

(* Types, start of a seize loop. *)
LEMMA StartWalkTypes ==
    ASSUME NEW v \in Tracers, NEW S \in SUBSET HvThreads, TraceTypeOK, StartWalk(v, S)
    PROVE  TraceTypeOK'
  BY DEF TraceTypeOK, StartWalk

(* Types, attach_seize on one thread. *)
LEMMA SeizesTypes ==
    ASSUME NEW v \in Tracers, TraceTypeOK, Seizes(v)
    PROVE  TraceTypeOK'
<1>1. CASE SeizeNext(v)
  <2>1. PICK t \in walk.todo :
          \/ /\ tracer' = [tracer EXCEPT ![t] = v]
             /\ walk' = [walk EXCEPT !.todo = @ \ {t}, !.at = t]
          \/ walk' = [walk EXCEPT !.todo = @ \ {t}] /\ UNCHANGED tracer
    BY <1>1 DEF SeizeNext
  <2>2. t \in HvThreads
    BY <2>1 DEF TraceTypeOK
  <2>3. tracer' \in [HvThreads -> Tracers \cup {Nobody}]
    BY <2>1, <2>2 DEF TraceTypeOK
  <2>4. walk' \in [by : Tracers \cup {Nobody}, todo : SUBSET HvThreads,
                   at : HvThreads \cup {0}, got : SUBSET HvThreads]
    <3>1. CASE walk' = [walk EXCEPT !.todo = @ \ {t}, !.at = t]
      BY <2>2, <3>1 DEF TraceTypeOK
    <3>2. CASE walk' = [walk EXCEPT !.todo = @ \ {t}]
      BY <2>2, <3>2 DEF TraceTypeOK
    <3> QED
      BY <2>1, <3>1, <3>2
  <2> QED
    BY <1>1, <2>3, <2>4 DEF TraceTypeOK, SeizeNext
<1>2. CASE SeizeStopped(v) \/ SeizeKeepsDead(v)
  <2>1. walk.at \in HvThreads
    BY <1>2 DEF SeizeStopped, SeizeKeepsDead, TraceTypeOK
  <2>2. /\ life' \in [HvThreads -> Lives]
        /\ tracer' \in [HvThreads -> Tracers \cup {Nobody}]
    BY <1>2, <2>1 DEF TraceTypeOK, SeizeStopped, SeizeKeepsDead, Lives, Stops
  <2>3. walk' \in [by : Tracers \cup {Nobody}, todo : SUBSET HvThreads,
                   at : HvThreads \cup {0}, got : SUBSET HvThreads]
    <3>1. walk' = [walk EXCEPT !.got = @ \cup {walk.at}, !.at = 0]
      BY <1>2, Zenon DEF SeizeStopped, SeizeKeepsDead
    <3> QED
      BY <2>1, <3>1 DEF TraceTypeOK
  <2> QED
    BY <1>2, <2>2, <2>3 DEF TraceTypeOK, SeizeStopped, SeizeKeepsDead
<1>3. CASE SeizeGivesUp(v)
  BY <1>3 DEF TraceTypeOK, SeizeGivesUp
<1> QED
  BY <1>1, <1>2, <1>3 DEF Seizes

(* Types, init and the new Process. *)
LEMMA InitPatchTypes ==
    ASSUME NEW v \in Tracers, TraceTypeOK, InitPatch(v)
    PROVE  TraceTypeOK'
  BY DEF TraceTypeOK, InitPatch, Patched, NoWalk

(* Types, attach whose init fails. *)
LEMMA AttachAbortTypes ==
    ASSUME NEW v \in Tracers, TraceTypeOK, AttachAbort(v)
    PROVE  TraceTypeOK'
<1>1. life' \in [HvThreads -> Lives] /\ tracer' \in [HvThreads -> Tracers \cup {Nobody}]
  BY DetachAllTypes DEF AttachAbort
<1> QED
  BY <1>1 DEF TraceTypeOK, AttachAbort, NoWalk

(* Types, adopt whose init fails. *)
LEMMA AdoptAbortTypes ==
    ASSUME NEW v \in Tracers, TraceTypeOK, AdoptAbort(v)
    PROVE  TraceTypeOK'
<1>1. life' \in [HvThreads -> Lives] /\ tracer' \in [HvThreads -> Tracers \cup {Nobody}]
  BY DetachAllTypes DEF AdoptAbort
<1> QED
  BY <1>1 DEF TraceTypeOK, AdoptAbort, NoWalk

(* Types, drop of a Process. *)
LEMMA DropProcessTypes ==
    ASSUME NEW v \in Tracers, TraceTypeOK, DropProcess(v)
    PROVE  TraceTypeOK'
<1>1. life' \in [HvThreads -> Lives] /\ tracer' \in [HvThreads -> Tracers \cup {Nobody}]
  BY DetachAllTypes DEF DropProcess
<1> QED
  BY <1>1, RestoredTypes DEF TraceTypeOK, DropProcess, NoProc

(* Types, disown with either result. *)
LEMMA DisownTypes ==
    ASSUME NEW v \in Tracers, TraceTypeOK, DisownOk(v) \/ DisownErr(v)
    PROVE  TraceTypeOK'
<1>1. CASE DisownOk(v)
  <2>1. life' \in [HvThreads -> Lives] /\ tracer' \in [HvThreads -> Tracers \cup {Nobody}]
    BY <1>1, DetachAllTypes DEF DisownOk
  <2> QED
    BY <1>1, <2>1, RestoredTypes DEF TraceTypeOK, DisownOk
<1>2. CASE UNCHANGED traceVars
  BY <1>2 DEF TraceTypeOK, traceVars
<1>3. CASE /\ DetachAll(Reachable(v, proc.threads))
           /\ text' = Restored(v)
           /\ proc' = [proc EXCEPT !.held = FALSE, !.threads = {}]
           /\ UNCHANGED <<wrapper, walk>>
  <2>1. life' \in [HvThreads -> Lives] /\ tracer' \in [HvThreads -> Tracers \cup {Nobody}]
    BY <1>3, DetachAllTypes
  <2> QED
    BY <1>3, <2>1, RestoredTypes DEF TraceTypeOK
<1> QED
  BY <1>1, <1>2, <1>3 DEF DisownErr

(* Types, conversion to a KvmRunWrapper. *)
LEMMA WrapTypes ==
    ASSUME NEW v \in Tracers, TraceTypeOK, Wrap(v)
    PROVE  TraceTypeOK'
  BY RestoredTypes DEF TraceTypeOK, Wrap, NoProc

(* Types, stop_on_syscall. *)
LEMMA StopOnSyscallTypes ==
    ASSUME NEW v \in Tracers, TraceTypeOK, StopOnSyscall(v) \/ StopOnSyscallErr(v)
    PROVE  TraceTypeOK'
<1>1. CASE StopOnSyscall(v)
  BY <1>1 DEF TraceTypeOK, StopOnSyscall, Lives, Stops
<1>2. CASE StopOnSyscallErr(v)
  <2>1. PICK S \in SUBSET wrapper.threads :
          /\ life' = [u \in HvThreads |-> IF u \in S THEN "running" ELSE life[u]]
          /\ wrapper' = [wrapper EXCEPT !.running = @ \cup S]
    BY <1>2 DEF StopOnSyscallErr
  <2> QED
    BY <1>2, <2>1 DEF TraceTypeOK, StopOnSyscallErr, Lives, Stops
<1> QED
  BY <1>1, <1>2

(* Types, process_status. *)
LEMMA ReapTypes ==
    ASSUME NEW t \in HvThreads, TraceTypeOK, ReapStop(t) \/ ReapExit(t) \/ ReapOther(Mmio, t)
    PROVE  TraceTypeOK'
<1>1. CASE ReapStop(t)
  BY <1>1 DEF TraceTypeOK, ReapStop, Lives, Stops
<1>2. CASE ReapExit(t)
  <2>1. /\ life' \in [HvThreads -> Lives]
        /\ tracer' \in [HvThreads -> Tracers \cup {Nobody}]
    BY <1>2 DEF TraceTypeOK, ReapExit, Lives, Stops
  <2>2. wrapper' \in [some : BOOLEAN, threads : SUBSET HvThreads, running : SUBSET HvThreads]
    BY <1>2 DEF TraceTypeOK, ReapExit
  <2> QED
    BY <1>2, <2>1, <2>2 DEF TraceTypeOK, ReapExit
<1>3. CASE ReapOther(Mmio, t)
  BY <1>3 DEF TraceTypeOK, ReapOther, Lives, Stops
<1> QED
  BY <1>1, <1>2, <1>3

(* Types, conversion back, failed or hung ones included. *)
LEMMA UnwrapTypes ==
    ASSUME NEW v \in Tracers, TraceTypeOK, Unwrap(v) \/ UnwrapErr(v) \/ UnwrapHang
    PROVE  TraceTypeOK'
<1>1. CASE Unwrap(v)
  BY <1>1 DEF TraceTypeOK, Unwrap, NoWrapper, Lives, Stops
<1>2. CASE UnwrapErr(v)
  <2>1. life' \in [HvThreads -> Lives] /\ tracer' \in [HvThreads -> Tracers \cup {Nobody}]
    BY <1>2, DetachAllTypes DEF UnwrapErr
  <2> QED
    BY <1>2, <2>1 DEF TraceTypeOK, UnwrapErr, NoWrapper
<1>3. CASE UnwrapHang
  BY <1>3 DEF TraceTypeOK, UnwrapHang, Lives, Stops
<1> QED
  BY <1>1, <1>2, <1>3

(* Types, exit of a tracer. *)
LEMMA TracerExitTypes ==
    ASSUME TraceTypeOK, NEW V, TracerExit(V)
    PROVE  life' \in [HvThreads -> Lives] /\ tracer' \in [HvThreads -> Tracers \cup {Nobody}]
  BY DEF TraceTypeOK, TracerExit, Lives, Stops

(* Types, steps of the hypervisor. *)
LEMMA HypervisorTypes ==
    ASSUME NEW t \in HvThreads, TraceTypeOK,
           SpawnThread(t) \/ ExitThread(t) \/ Trap(t, "syscall") \/ Trap(t, "signal") \/ Die
    PROVE  TraceTypeOK'
  BY DEF TraceTypeOK, SpawnThread, ExitThread, Trap, Die, Lives, Stops

(* Every step keeps the types of what TraceControl declares ... *)
LEMMA TraceTypesStep == TraceTypeOK /\ [Next]_vars => TraceTypeOK'
<1> SUFFICES ASSUME TraceTypeOK, [Next]_vars PROVE TraceTypeOK'
  OBVIOUS
<1>1. CASE MainStop
  BY <1>1, StartWalkTypes DEF MainStop, TraceTypeOK, traceVars, Listed, Tracers
<1>2. CASE MainSeize
  BY <1>2, SeizesTypes DEF MainSeize, Tracers
<1>3. CASE MainAttached
  BY <1>3, InitPatchTypes DEF MainAttached, Tracers
<1>4. CASE MainAttachFails
  BY <1>4, AttachAbortTypes DEF MainAttachFails, Tracers
<1>5. CASE MainCreate
  BY <1>5 DEF MainCreate, TraceTypeOK, traceVars, Creates
<1>6. CASE MainPoll
  BY <1>6 DEF MainPoll, TraceTypeOK, traceVars
<1>7. CASE MainSpawnStage1
  BY <1>7 DEF MainSpawnStage1, TraceTypeOK, traceVars
<1>8. CASE MainStart
  BY <1>8, DropProcessTypes DEF MainStart, TraceTypeOK, traceVars, Tracers
<1>9. CASE MainDisown
  BY <1>9, DisownTypes DEF MainDisown, Tracers
<1>10. CASE MainSpawnMmio
  BY <1>10 DEF MainSpawnMmio, TraceTypeOK, traceVars
<1>11. CASE MainWait
  BY <1>11 DEF MainWait, TraceTypeOK, traceVars
<1>12. CASE MainTerminate
  BY <1>12 DEF MainTerminate, TraceTypeOK, traceVars
<1>13. CASE MainJoin
  BY <1>13 DEF MainJoin, TraceTypeOK, traceVars
<1>14. CASE MainAdopt
  BY <1>14, StartWalkTypes DEF MainAdopt, TraceTypeOK, traceVars, Tracers
<1>15. CASE MainAdopted
  BY <1>15, InitPatchTypes DEF MainAdopted, Tracers
<1>16. CASE MainAdoptFails
  BY <1>16, AdoptAbortTypes DEF MainAdoptFails, Tracers
<1>17. CASE MainDrop
  BY <1>17 DEF MainDrop, TraceTypeOK, traceVars, Drops
<1>18. CASE MainResume
  BY <1>18, DropProcessTypes DEF MainResume, Tracers
<1>19. CASE MainUnwind
  BY <1>19, TracerExitTypes, RestoredTypes DEF MainUnwind, TraceTypeOK, NoProc,
         NoWrapper, NoWalk, Tracers
<1>20. CASE MmioAdopt
  BY <1>20, StartWalkTypes DEF MmioAdopt, TraceTypeOK, Tracers
<1>21. CASE MmioSeize
  BY <1>21, SeizesTypes DEF MmioSeize, Tracers
<1>22. CASE MmioAdopted
  BY <1>22, InitPatchTypes DEF MmioAdopted, Tracers
<1>23. CASE MmioAdoptFails
  BY <1>23, AdoptAbortTypes DEF MmioAdoptFails, Tracers
<1>24. CASE MmioWrap
  BY <1>24, WrapTypes, DropProcessTypes DEF MmioWrap, WrapRefused, Tracers
<1>25. CASE MmioReady
  BY <1>25, StopOnSyscallTypes DEF MmioReady, TraceTypeOK, traceVars, Tracers
<1>26. CASE MmioResume
  BY <1>26, StopOnSyscallTypes DEF MmioResume, TraceTypeOK, traceVars, Tracers
<1>27. CASE MmioReap
  BY <1>27, ReapTypes DEF MmioReap
<1>28. CASE MmioReapDead
  BY <1>28 DEF MmioReapDead, TraceTypeOK
<1>29. CASE MmioUnwrap
  BY <1>29, UnwrapTypes DEF MmioUnwrap, TraceTypeOK, traceVars, Tracers
<1>30. CASE MmioDisown
  BY <1>30, DisownTypes DEF MmioDisown, Tracers
<1>31. CASE MmioExit
  BY <1>31, TracerExitTypes DEF MmioExit, TraceTypeOK
<1>32. CASE Stage1Exit
  BY <1>32 DEF Stage1Exit, TraceTypeOK, traceVars
<1>33. CASE Message
  BY <1>33 DEF Message, TraceTypeOK, traceVars
<1>34. CASE HvTrap
  BY <1>34, HypervisorTypes DEF HvTrap
<1>35. CASE HvStep
  BY <1>35, HypervisorTypes DEF HvStep
<1>36. CASE HvDie
  BY <1>36, HypervisorTypes, ThreadsAssumption DEF HvDie, HvThreads
<1>37. CASE UNCHANGED vars
  BY <1>37 DEF TraceTypeOK, vars, traceVars
<1>38. CASE MainSpin
  BY <1>38 DEF MainSpin, TraceTypeOK, traceVars
<1>39. CASE MmioNotify
  BY <1>39 DEF MmioNotify, TraceTypeOK, traceVars
<1>40. CASE IoregionFails
  BY <1>40 DEF IoregionFails, TraceTypeOK, traceVars
<1> QED
  BY <1>1, <1>2, <1>3, <1>4, <1>5, <1>6, <1>7, <1>8, <1>9, <1>10, <1>11,
     <1>12, <1>13, <1>14, <1>15, <1>16, <1>17, <1>18, <1>19, <1>20, <1>21,
     <1>22, <1>23, <1>24, <1>25, <1>26, <1>27, <1>28, <1>29, <1>30, <1>31,
     <1>32, <1>33, <1>34, <1>35, <1>36, <1>37, <1>38,
     <1>39, <1>40
  DEF Next, MainNext, MmioNext

(* The types of what Attach declares do not change if that does not, ... *)
LEMMA ThreadTypesSame == ThreadTypeOK /\ UNCHANGED threadVars => ThreadTypeOK'
BY SMT DEF ThreadTypeOK, threadVars

(* ... nor when a thread is seized, ... *)
LEMMA SeizesKeepTypes ==
    ASSUME NEW v, ThreadTypeOK, Seizes(v)
    PROVE  ThreadTypeOK'
<1>1. \/ UNCHANGED threadVars
      \/ /\ deadKept' = TRUE
         /\ UNCHANGED <<mode, sameGroup, mpc, ipc, s1, ires, notif, chan, stop, poisoned,
                        res, objs, spawnFailed>>
  BY Zenon DEF Seizes
<1>2. CASE UNCHANGED threadVars
  BY <1>2, ThreadTypesSame
<1>3. CASE /\ deadKept' = TRUE
           /\ UNCHANGED <<mode, sameGroup, mpc, ipc, s1, ires, notif, chan, stop, poisoned,
                          res, objs, spawnFailed>>
  BY <1>3, SMT DEF ThreadTypeOK
<1> QED
  BY <1>1, <1>2, <1>3

(* ... and every step keeps them. *)
LEMMA ThreadTypesStep == ThreadTypeOK /\ [Next]_vars => ThreadTypeOK'
<1> SUFFICES ASSUME ThreadTypeOK, [Next]_vars PROVE ThreadTypeOK'
  OBVIOUS
<1>1. CASE MainStop
  BY <1>1 DEF ThreadTypeOK, MainStop, MainTo, KeepsThreads, NoFaultHistory,
         MainSteps
<1>2. CASE MainSeize
  BY <1>2, SeizesKeepTypes DEF MainSeize
<1>3. CASE MainAttached
  BY <1>3 DEF ThreadTypeOK, MainAttached, MainTo, KeepsThreads, NoFaultHistory,
         MainSteps
<1>4. CASE MainAttachFails
  BY <1>4 DEF ThreadTypeOK, MainAttachFails, MainTo, KeepsThreads, MainSteps
<1>5. CASE MainCreate
  BY <1>5 DEF ThreadTypeOK, MainCreate, Creates, Objects, MainTo, NoFaultHistory,
         MainSteps
<1>6. CASE MainPoll
  BY <1>6, ZenonT(60) DEF ThreadTypeOK, MainPoll, MainTo, NoFaultHistory, MainSteps
<1>7. CASE MainSpawnStage1
  <2>1. spawnFailed' \in BOOLEAN
    BY <1>7, Zenon DEF ThreadTypeOK, MainSpawnStage1
  <2>2. /\ mpc' \in MainSteps /\ s1' \in {"none", "run", "exited"} /\ ipc' = ipc
        /\ UNCHANGED <<poisoned, deadKept>>
    BY <1>7, SMT DEF ThreadTypeOK, MainSpawnStage1, MainTo, MainSteps
  <2>3. KeepsThreads
    BY <1>7 DEF MainSpawnStage1
  <2> QED
    BY <2>1, <2>2, <2>3, Zenon DEF ThreadTypeOK, KeepsThreads
<1>8. CASE MainStart
  BY <1>8, ZenonT(60) DEF ThreadTypeOK, MainStart, MainTo, MainSteps
<1>9. CASE MainDisown
  BY <1>9 DEF ThreadTypeOK, MainDisown, MainTo, KeepsThreads, NoFaultHistory,
         MainSteps
<1>10. CASE MainSpawnMmio
  <2>1. mpc' \in MainSteps /\ ipc' \in MmioSteps
    BY <1>10, SMT DEF ThreadTypeOK, MainSpawnMmio, MainTo, MainSteps, MmioSteps
  <2>2. /\ spawnFailed' = spawnFailed \/ spawnFailed' = TRUE
        /\ UNCHANGED <<s1, poisoned, deadKept>> /\ KeepsThreads
    BY <1>10, Zenon DEF MainSpawnMmio, MainTo
  <2> QED
    BY <2>1, <2>2, ZenonT(40) DEF ThreadTypeOK, KeepsThreads
<1>11. CASE MainWait
  <2>1. mpc' \in MainSteps
    BY <1>11, SMT DEF MainWait, MainTo, MainSteps
  <2>2. /\ chan' = chan \/ chan' = FALSE
        /\ UNCHANGED <<mode, sameGroup, ipc, s1, ires, notif, stop, res, objs>>
        /\ NoFaultHistory
    BY <1>11, Zenon DEF MainWait, MainTo
  <2> QED
    BY <2>1, <2>2, ZenonT(40) DEF ThreadTypeOK, NoFaultHistory
<1>12. CASE MainTerminate
  <2>1. mpc' \in MainSteps /\ notif' = "Terminating"
    BY <1>12, SMT DEF MainTerminate, MainTo, MainSteps
  <2>2. UNCHANGED <<mode, sameGroup, ipc, s1, ires, chan, stop, res, objs, poisoned,
                    spawnFailed, deadKept>>
    BY <1>12, Zenon DEF MainTerminate, MainTo, NoFaultHistory
  <2> QED
    BY <2>1, <2>2, Zenon DEF ThreadTypeOK
<1>13. CASE MainJoin
  BY <1>13 DEF ThreadTypeOK, MainJoin, MainTo, KeepsThreads, NoFaultHistory,
         MainSteps
<1>14. CASE MainAdopt
  BY <1>14 DEF ThreadTypeOK, MainAdopt, MainTo, KeepsThreads, NoFaultHistory,
         MainSteps
<1>15. CASE MainAdopted
  BY <1>15 DEF ThreadTypeOK, MainAdopted, MainTo, KeepsThreads, NoFaultHistory,
         MainSteps
<1>16. CASE MainAdoptFails
  BY <1>16 DEF ThreadTypeOK, MainAdoptFails, MainTo, KeepsThreads, MainSteps
<1>17. CASE MainDrop
  BY <1>17 DEF ThreadTypeOK, MainDrop, Drops, MainTo, NoFaultHistory, MainSteps
<1>18. CASE MainResume
  BY <1>18 DEF ThreadTypeOK, MainResume, MainTo, KeepsThreads, NoFaultHistory,
         MainSteps
<1>19. CASE MainUnwind
  BY <1>19 DEF ThreadTypeOK, MainUnwind, NoFaultHistory, MainSteps, MmioSteps
<1>20. CASE MmioAdopt
  BY <1>20 DEF ThreadTypeOK, MmioAdopt, threadVars
<1>21. CASE MmioSeize
  BY <1>21, SeizesKeepTypes DEF MmioSeize
<1>22. CASE MmioAdopted
  BY <1>22 DEF ThreadTypeOK, MmioAdopted, MmioTo, KeepsThreads, NoFaultHistory,
         MmioSteps
<1>23. CASE MmioAdoptFails
  BY <1>23 DEF ThreadTypeOK, MmioAdoptFails, MmioTo, Notified, MmioSteps
<1>24. CASE MmioWrap
  BY <1>24 DEF ThreadTypeOK, MmioWrap, MmioTo, NoFaultHistory, MmioSteps
<1>25. CASE MmioReady
  BY <1>25 DEF ThreadTypeOK, MmioReady, MmioTo, NoFaultHistory, Notified,
         MmioSteps
<1>26. CASE MmioResume
  BY <1>26 DEF ThreadTypeOK, MmioResume, MmioTo, NoFaultHistory, MmioSteps
<1>27. CASE MmioReap
  <2>1. ipc' \in {"unwrap", "resume", "notify", "reap"} /\ (ires' = ires \/ ires' = "err")
    BY <1>27, Zenon DEF MmioReap, LoopTo, MmioTo
  <2>2. /\ UNCHANGED <<mpc, s1, mode, sameGroup, notif, chan, stop, res, objs>>
        /\ NoFaultHistory
    BY <1>27, Zenon DEF MmioReap, LoopTo, MmioTo
  <2>3. ipc' \in MmioSteps
    BY <2>1, Zenon DEF MmioSteps
  <2> QED
    BY <2>1, <2>2, <2>3, SMT DEF ThreadTypeOK, NoFaultHistory
<1>28. CASE MmioReapDead
  BY <1>28 DEF ThreadTypeOK, MmioReapDead, MmioTo, NoFaultHistory, MmioSteps
<1>29. CASE MmioUnwrap
  <2>1. ipc' \in {"disown", "panicked", "stuck"} /\ (ires' = ires \/ ires' = "err")
    BY <1>29, Zenon DEF MmioUnwrap, MmioTo
  <2>2. UNCHANGED <<mpc, s1>>
    BY <1>29, Zenon DEF MmioUnwrap, MmioTo
  <2>3. UNCHANGED <<mode, sameGroup, notif, chan, stop, res, objs, spawnFailed, deadKept>>
    BY <1>29, Zenon DEF MmioUnwrap
  <2>4. poisoned' \in BOOLEAN
    BY <1>29, Zenon DEF ThreadTypeOK, MmioUnwrap
  <2>5. ipc' \in MmioSteps
    BY <2>1, Zenon DEF MmioSteps
  <2> QED
    BY <2>1, <2>2, <2>3, <2>4, <2>5, SMT DEF ThreadTypeOK
<1>30. CASE MmioDisown
  <2>1. ipc' \in MmioSteps /\ UNCHANGED <<mpc, s1>>
    BY <1>30, Zenon DEF MmioDisown, MmioTo, MmioSteps
  <2>2. UNCHANGED <<mode, sameGroup, ires, notif, stop, res, objs>> /\ NoFaultHistory
    BY <1>30, Zenon DEF MmioDisown
  <2>3. chan' \in BOOLEAN
    BY <1>30, Zenon DEF MmioDisown
  <2> QED
    BY <2>1, <2>2, <2>3, SMT DEF ThreadTypeOK, NoFaultHistory
<1>31. CASE MmioExit
  BY <1>31 DEF ThreadTypeOK, MmioExit, MmioTo, KeepsThreads, NoFaultHistory,
         MmioSteps
<1>32. CASE Stage1Exit
  BY <1>32 DEF ThreadTypeOK, Stage1Exit, NoFaultHistory
<1>33. CASE Message
  BY <1>33 DEF ThreadTypeOK, Message, NoFaultHistory
<1>34. CASE HvTrap
  <2>1. UNCHANGED threadVars
    BY <1>34, Zenon DEF HvTrap
  <2> QED
    BY <2>1, ThreadTypesSame
<1>35. CASE HvStep
  <2>1. UNCHANGED threadVars
    BY <1>35, Zenon DEF HvStep
  <2> QED
    BY <2>1, ThreadTypesSame
<1>36. CASE HvDie
  BY <1>36 DEF ThreadTypeOK, HvDie, NoFaultHistory
<1>37. CASE UNCHANGED vars
  BY <1>37 DEF ThreadTypeOK, vars, threadVars
<1>38. CASE MainSpin
  <2>1. mpc' \in MainSteps /\ stop' \in BOOLEAN /\ UNCHANGED <<ipc, s1>>
    BY <1>38, Zenon DEF MainSpin, MainTo, MainSteps
  <2>2. UNCHANGED <<mode, sameGroup, ires, notif, chan, res, objs>> /\ NoFaultHistory
    BY <1>38, Zenon DEF MainSpin
  <2> QED
    BY <2>1, <2>2, SMT DEF ThreadTypeOK, NoFaultHistory
<1>39. CASE MmioNotify
  BY <1>39 DEF ThreadTypeOK, MmioNotify, MmioTo, NoFaultHistory, Notified, MmioSteps
<1>40. CASE IoregionFails
  BY <1>40 DEF ThreadTypeOK, IoregionFails, MmioTo, NoFaultHistory, MmioSteps
<1> QED
  BY <1>1, <1>2, <1>3, <1>4, <1>5, <1>6, <1>7, <1>8, <1>9, <1>10, <1>11,
     <1>12, <1>13, <1>14, <1>15, <1>16, <1>17, <1>18, <1>19, <1>20, <1>21,
     <1>22, <1>23, <1>24, <1>25, <1>26, <1>27, <1>28, <1>29, <1>30, <1>31,
     <1>32, <1>33, <1>34, <1>35, <1>36, <1>37, <1>38,
     <1>39, <1>40
  DEF Next, MainNext, MmioNext

(* Types are inductive by themselves. *)
LEMMA TypeStep == TypeOK /\ [Next]_vars => TypeOK'
  BY TraceTypesStep, ThreadTypesStep DEF TypeOK

-----------------------------------------------------------------------------
(* The seize loop, of either tracer.                                        *)

(* What a step of the seize loop leaves alone, in whichever vmsh thread it *)
(* runs.                                                                   *)
LEMMA SeizeFrame ==
  ASSUME NEW v \in Tracers, TypeOK, Seizes(v)
  PROVE  /\ walk.by = v /\ walk'.by = v /\ v # Nobody
         /\ text' = text /\ proc' = proc /\ wrapper' = wrapper
         /\ mpc' = mpc /\ ipc' = ipc /\ s1' = s1 /\ mode' = mode
         /\ (poisoned' <=> poisoned) /\ (spawnFailed' <=> spawnFailed)
         /\ res' = res /\ objs' = objs
         /\ deadKept => deadKept'
<1>1. walk \in [by : Tracers \cup {Nobody}, todo : SUBSET HvThreads,
                at : HvThreads \cup {0}, got : SUBSET HvThreads]
  BY DEF TypeOK, TraceTypeOK
<1>2. walk.by = v /\ walk'.by = v
  BY <1>1 DEF Seizes, SeizeNext, SeizeStopped, SeizeKeepsDead, SeizeGivesUp
<1>3. v # Nobody
  BY TracersAssumption DEF Tracers
<1>4. text' = text /\ proc' = proc /\ wrapper' = wrapper
  BY DEF Seizes, SeizeNext, SeizeStopped, SeizeKeepsDead, SeizeGivesUp
<1>5. /\ mpc' = mpc /\ ipc' = ipc /\ s1' = s1 /\ mode' = mode /\ res' = res /\ objs' = objs
      /\ poisoned' = poisoned /\ spawnFailed' = spawnFailed
      /\ deadKept' = deadKept \/ deadKept' = TRUE
  BY DEF Seizes, threadVars
<1> QED
  BY <1>2, <1>3, <1>4, <1>5, SMT

(* In a seize loop the leader is untouched until its turn comes. *)
LEMMA LeaderAwaits ==
  ASSUME Inv, Alive, walk.by \in Tracers, Leader \in walk.todo
  PROVE  life[Leader] = "running" /\ tracer[Leader] = Nobody
<1> USE TracersAssumption
<1>1. StepsInv /\ ProcInv /\ LoopInv /\ TracerInv /\ LeaderInv
  BY Zenon DEF Inv
<1>2. /\ proc.owner = Nobody /\ walk.todo \cap walk.got = {}
      /\ walk.at \notin walk.todo \cup walk.got
  BY <1>1, Zenon DEF LoopInv, Tracers
<1>3. ipc \notin Wrapped \cup {"stuck", "disown", "exit"}
  BY <1>1 DEF StepsInv, MmioActive, Serving, Wrapped, Tracers
<1>4. ~wrapper.some
  BY <1>1, <1>3, Zenon DEF ProcInv
<1>5. Leader \notin walk.got \cup {walk.at}
  BY <1>2
<1>6. tracer[Leader] \notin {Main, Mmio}
  BY <1>1, <1>2, <1>3, <1>4, <1>5, LeaderIsThread, Zenon DEF TracerInv, LeaderInv
<1>7. life[Leader] \in Lives /\ tracer[Leader] \in Tracers \cup {Nobody}
  BY LeaderIsThread DEF Inv, TypeOK, TraceTypeOK
<1>8. tracer[Leader] = Nobody
  BY <1>6, <1>7, Zenon DEF Tracers
<1>9. life[Leader] \notin Stops \cup {"zombie"}
  BY <1>1, <1>8, LeaderIsThread, Zenon DEF TracerInv
<1> QED
  BY <1>1, <1>7, <1>8, <1>9, Zenon DEF Lives, LeaderInv, Alive

(* A living hypervisor, during a seize loop. *)
SeizeFacts(v) ==
    /\ walk.by = v /\ proc.owner = Nobody
    /\ Leader \in walk.todo \cup walk.got \cup {walk.at}
    /\ walk.todo \cap walk.got = {} /\ walk.at \notin walk.todo \cup walk.got
    /\ walk.todo \subseteq HvThreads /\ walk.got \subseteq HvThreads
    /\ \A t \in walk.got : Caught(v, t)
    /\ walk.at # 0 => /\ walk.at \in HvThreads /\ tracer[walk.at] = v
                      /\ life[walk.at] \in {"running", "zombie"}

(* attach_seize on one thread keeps the loop's bookkeeping right: the       *)
(* leader is seized, every thread kept is stopped (or ended), and every    *)
(* trace relation has its reason.                                          *)
LEMMA SeizeLoop ==
  ASSUME NEW v \in Tracers, Inv, Alive, Seizes(v)
  PROVE  SeizeFacts(v)' /\ TracerInv' /\ LeaderInv'
<1> USE TracersAssumption
<1>1. /\ walk.by = v /\ walk'.by = v /\ v # Nobody
      /\ text' = text /\ proc' = proc /\ wrapper' = wrapper
      /\ ipc' = ipc /\ (deadKept => deadKept')
  BY SeizeFrame, Zenon DEF Inv
<1>2. TracerInv /\ LeaderInv /\ StepsInv
  BY Zenon DEF Inv
<1>3. walk \in [by : Tracers \cup {Nobody}, todo : SUBSET HvThreads,
                at : HvThreads \cup {0}, got : SUBSET HvThreads]
  BY DEF Inv, TypeOK, TraceTypeOK
<1>4. SeizeFacts(v)
  <2>1. LoopInv
    BY Zenon DEF Inv
  <2>2. walk.at # 0 => walk.at \in HvThreads
    BY <1>3
  <2>3. walk.todo \subseteq HvThreads /\ walk.got \subseteq HvThreads
    BY <1>3
  <2> QED
    BY <1>1, <2>1, <2>2, <2>3, Zenon DEF LoopInv, SeizeFacts
<1>5. 0 \notin HvThreads
  BY ThreadsAssumption DEF HvThreads
<1>6. life \in [HvThreads -> Lives] /\ tracer \in [HvThreads -> Tracers \cup {Nobody}]
  BY DEF Inv, TypeOK, TraceTypeOK
<1>7. MmioActive' <=> MmioActive
  BY <1>1, Zenon DEF MmioActive
<1>8. v = Mmio => MmioActive
  BY <1>1, <1>2, Zenon DEF StepsInv, MmioActive
<1>9. CASE SeizeNext(v)
  <2>1. PICK t \in walk.todo :
          \/ /\ life[t] = "running" /\ tracer[t] = Nobody
             /\ tracer' = [tracer EXCEPT ![t] = v]
             /\ walk' = [walk EXCEPT !.todo = @ \ {t}, !.at = t]
          \/ /\ ~(life[t] = "running" /\ tracer[t] = Nobody)
             /\ walk' = [walk EXCEPT !.todo = @ \ {t}] /\ tracer' = tracer
    BY <1>9, Zenon DEF SeizeNext
  <2>2. life' = life /\ walk.at = 0
    BY <1>9, Zenon DEF SeizeNext
  <2>3. t \in HvThreads /\ t # 0
    BY <1>3, <1>5, <2>1
  <2>4. LeaderInv'
    BY <1>2, <2>2, Zenon DEF LeaderInv
  <2>5. CASE /\ life[t] = "running" /\ tracer[t] = Nobody
             /\ tracer' = [tracer EXCEPT ![t] = v]
             /\ walk' = [walk EXCEPT !.todo = @ \ {t}, !.at = t]
    <3>1. walk'.todo = walk.todo \ {t} /\ walk'.got = walk.got /\ walk'.at = t
      BY <1>3, <2>5
    <3>2. /\ tracer'[t] = v
          /\ \A u \in HvThreads \ {t} : tracer'[u] = tracer[u]
      BY <1>6, <2>3, <2>5
    <3>3. t \notin walk.got
      BY <1>4, <2>1, Zenon DEF SeizeFacts
    <3>4. \A u \in walk'.got : Caught(v, u)'
      BY <1>1, <1>4, <2>2, <3>1, <3>2, <3>3, Zenon DEF SeizeFacts, Caught, DeadThread
    <3>5. SeizeFacts(v)'
      <4>1. /\ walk.todo \subseteq HvThreads /\ walk.got \subseteq HvThreads
            /\ Leader \in walk.todo \cup walk.got \cup {walk.at} /\ Leader # 0
            /\ walk.todo \cap walk.got = {} /\ proc.owner = Nobody
        BY <1>4, <1>5, LeaderIsThread, Zenon DEF SeizeFacts
      <4>2. /\ Leader \in walk'.todo \cup walk'.got \cup {walk'.at}
            /\ walk'.todo \cap walk'.got = {} /\ walk'.at \notin walk'.todo \cup walk'.got
            /\ walk'.todo \subseteq HvThreads /\ walk'.got \subseteq HvThreads
        BY <2>2, <3>1, <3>3, <4>1
      <4> QED
        BY <1>1, <2>2, <2>3, <2>5, <3>1, <3>2, <3>4, <4>1, <4>2, Zenon DEF SeizeFacts
    <3>6. TracerInv'
      <4> SUFFICES ASSUME NEW u \in HvThreads
                   PROVE  TracerInv!(u)'
        BY Zenon DEF TracerInv
      <4>1. TracerInv!(u)
        BY <1>2, Zenon DEF TracerInv
      <4>2. CASE u = t
        BY <1>1, <2>2, <2>5, <3>1, <3>2, <4>2, Zenon DEF Tracers
      <4>3. CASE u # t
        <5>1. tracer'[u] = tracer[u] /\ life'[u] = life[u]
          BY <2>2, <3>2, <4>3, Zenon
        <5>2. u \in walk.got \cup {walk.at} => u \in walk'.got \cup {walk'.at}
          BY <1>5, <2>2, <3>1
        <5> QED
          BY <1>1, <1>7, <4>1, <5>1, <5>2, Zenon
      <4> QED
        BY <4>2, <4>3
    <3> QED
      BY <2>4, <3>5, <3>6
  <2>6. CASE /\ ~(life[t] = "running" /\ tracer[t] = Nobody)
             /\ walk' = [walk EXCEPT !.todo = @ \ {t}] /\ tracer' = tracer
    <3>1. walk'.todo = walk.todo \ {t} /\ walk'.got = walk.got /\ walk'.at = walk.at
      BY <1>3, <2>6
    <3>2. t # Leader
      BY <1>1, <2>1, <2>6, LeaderAwaits, Zenon
    <3>3. \A u \in walk'.got : Caught(v, u)'
      BY <1>1, <1>4, <2>2, <2>6, <3>1, Zenon DEF SeizeFacts, Caught, DeadThread
    <3>4. SeizeFacts(v)'
      BY <1>1, <1>4, <2>2, <2>6, <3>1, <3>2, <3>3 DEF SeizeFacts
    <3>5. TracerInv'
      BY <1>1, <1>2, <1>7, <2>2, <2>6, <3>1, Zenon DEF TracerInv
    <3> QED
      BY <2>4, <3>4, <3>5
  <2> QED
    BY <2>1, <2>5, <2>6
<1>10. ASSUME walk.at # 0
       PROVE  /\ walk.at \in HvThreads /\ tracer[walk.at] = v
              /\ life[walk.at] \in {"running", "zombie"}
              /\ life[walk.at] = "zombie" => walk.at # Leader
  BY <1>2, <1>4, <1>10, Zenon DEF SeizeFacts, LeaderInv
<1>11. CASE SeizeStopped(v)
  <2>1. /\ life[walk.at] = "running" /\ tracer' = tracer /\ walk.at # 0
        /\ life' = [life EXCEPT ![walk.at] = "stopped"]
        /\ walk' = [walk EXCEPT !.got = @ \cup {walk.at}, !.at = 0]
    BY <1>11, Zenon DEF SeizeStopped
  <2>2. walk'.todo = walk.todo /\ walk'.got = walk.got \cup {walk.at} /\ walk'.at = 0
    BY <1>3, <2>1
  <2>3. /\ walk.at \in HvThreads /\ life'[walk.at] = "stopped" /\ tracer[walk.at] = v
        /\ \A u \in HvThreads \ {walk.at} : life'[u] = life[u]
    BY <1>6, <1>10, <2>1
  <2>4. \A u \in walk'.got : Caught(v, u)'
    <3> SUFFICES ASSUME NEW u \in walk'.got
                 PROVE  Caught(v, u)'
      OBVIOUS
    <3>1. CASE u = walk.at
      BY <2>1, <2>3, <3>1, Zenon DEF Caught
    <3>2. CASE u \in walk.got
      <4>1. u \in HvThreads \ {walk.at} /\ Caught(v, u)
        BY <1>4, <3>2 DEF SeizeFacts
      <4> QED
        BY <1>1, <2>1, <2>3, <4>1, Zenon DEF Caught, DeadThread
    <3> QED
      BY <2>2, <3>1, <3>2
  <2>5. SeizeFacts(v)'
    BY <1>1, <1>4, <1>5, <2>1, <2>2, <2>3, <2>4 DEF SeizeFacts
  <2>6. LeaderInv'
    BY <1>2, <2>3, LeaderIsThread, Zenon DEF LeaderInv
  <2>7. TracerInv'
    <3> SUFFICES ASSUME NEW u \in HvThreads
                 PROVE  TracerInv!(u)'
      BY Zenon DEF TracerInv
    <3>1. TracerInv!(u)
      BY <1>2, Zenon DEF TracerInv
    <3>2. CASE u = walk.at
      <4>1. tracer'[u] = v /\ u \in walk'.got
        BY <2>1, <2>2, <2>3, <3>2, Zenon
      <4> QED
        BY <1>1, <4>1, Zenon DEF Tracers
    <3>3. CASE u # walk.at
      <4>1. tracer'[u] = tracer[u] /\ life'[u] = life[u]
        BY <2>1, <2>3, <3>3, Zenon
      <4>2. u \in walk.got \cup {walk.at} => u \in walk'.got \cup {walk'.at}
        BY <2>2
      <4> QED
        BY <1>1, <1>7, <3>1, <4>1, <4>2, Zenon
    <3> QED
      BY <3>2, <3>3
  <2> QED
    BY <2>5, <2>6, <2>7
<1>12. CASE SeizeKeepsDead(v) /\ deadKept' = TRUE
  <2>1. /\ life[walk.at] \in {"zombie", "gone"} /\ walk.at # 0
        /\ life' = [life EXCEPT ![walk.at] = "gone"]
        /\ tracer' = [tracer EXCEPT ![walk.at] = Nobody]
        /\ walk' = [walk EXCEPT !.got = @ \cup {walk.at}, !.at = 0]
    BY <1>12, Zenon DEF SeizeKeepsDead
  <2>2. walk'.todo = walk.todo /\ walk'.got = walk.got \cup {walk.at} /\ walk'.at = 0
    BY <1>3, <2>1
  <2>3. /\ walk.at \in HvThreads /\ walk.at # Leader
        /\ life'[walk.at] = "gone" /\ tracer'[walk.at] = Nobody
        /\ \A u \in HvThreads \ {walk.at} : life'[u] = life[u] /\ tracer'[u] = tracer[u]
    BY <1>6, <1>10, <2>1
  <2>4. \A u \in walk'.got : Caught(v, u)'
    <3> SUFFICES ASSUME NEW u \in walk'.got PROVE Caught(v, u)'
      OBVIOUS
    <3>1. CASE u = walk.at
      <4>1. life'[u] = "gone" /\ tracer'[u] = Nobody
        BY <2>3, <3>1
      <4> QED
        BY <1>12, <4>1, Zenon DEF Caught, DeadThread
    <3>2. CASE u # walk.at
      <4>1. u \in walk.got /\ u \in HvThreads \ {walk.at}
        BY <1>4, <2>2, <3>2 DEF SeizeFacts
      <4>2. Caught(v, u) /\ life'[u] = life[u] /\ tracer'[u] = tracer[u]
        BY <1>4, <2>3, <4>1, Zenon DEF SeizeFacts
      <4> QED
        BY <1>12, <4>2, Zenon DEF Caught, DeadThread
    <3> QED
      BY <3>1, <3>2
  <2>5. SeizeFacts(v)'
    <3>1. /\ walk.todo \subseteq HvThreads /\ walk.got \subseteq HvThreads
          /\ Leader \in walk.todo \cup walk.got \cup {walk.at}
          /\ walk.at \notin walk.todo
          /\ walk.todo \cap walk.got = {} /\ proc.owner = Nobody
      BY <1>4, Zenon DEF SeizeFacts
    <3>2. /\ Leader \in walk'.todo \cup walk'.got \cup {walk'.at}
          /\ walk'.todo \cap walk'.got = {} /\ walk'.at \notin walk'.todo \cup walk'.got
          /\ walk'.todo \subseteq HvThreads /\ walk'.got \subseteq HvThreads
      BY <1>5, <2>2, <2>3, <3>1
    <3> QED
      BY <1>1, <2>2, <2>4, <3>1, <3>2, Zenon DEF SeizeFacts
  <2>6. LeaderInv'
    BY <1>2, <2>3, LeaderIsThread, Zenon DEF LeaderInv
  <2>7. TracerInv'
    <3> SUFFICES ASSUME NEW u \in HvThreads
                 PROVE  TracerInv!(u)'
      BY Zenon DEF TracerInv
    <3>1. TracerInv!(u)
      BY <1>2, Zenon DEF TracerInv
    <3>2. CASE u = walk.at
      BY <2>3, <3>2, Zenon DEF Stops
    <3>3. CASE u # walk.at
      <4>1. tracer'[u] = tracer[u] /\ life'[u] = life[u]
        BY <2>3, <3>3, Zenon
      <4>2. u \in walk.got \cup {walk.at} => u \in walk'.got \cup {walk'.at}
        BY <2>2
      <4> QED
        BY <1>1, <1>7, <3>1, <4>1, <4>2, Zenon
    <3> QED
      BY <3>2, <3>3
  <2> QED
    BY <2>5, <2>6, <2>7
<1>13. CASE SeizeGivesUp(v)
  <2>1. /\ life[walk.at] \in {"zombie", "gone"} /\ walk.at # 0
        /\ life' = life /\ tracer' = tracer
        /\ walk' = [walk EXCEPT !.at = 0]
    BY <1>13, Zenon DEF SeizeGivesUp
  <2>2. walk'.todo = walk.todo /\ walk'.got = walk.got /\ walk'.at = 0
    BY <1>3, <2>1
  <2>3. walk.at # Leader /\ life[walk.at] = "zombie" /\ tracer[walk.at] = v
    BY <1>10, <2>1
  <2>4. \A u \in walk'.got : Caught(v, u)'
    BY <1>1, <1>4, <2>1, <2>2, Zenon DEF SeizeFacts, Caught, DeadThread
  <2>5. SeizeFacts(v)'
    BY <1>1, <1>4, <1>5, <2>1, <2>2, <2>3, <2>4 DEF SeizeFacts
  <2>6. LeaderInv'
    BY <1>2, <2>1, Zenon DEF LeaderInv
  <2>7. TracerInv'
    <3> SUFFICES ASSUME NEW u \in HvThreads
                 PROVE  TracerInv!(u)'
      BY Zenon DEF TracerInv
    <3>1. TracerInv!(u) /\ tracer'[u] = tracer[u] /\ life'[u] = life[u]
      BY <1>2, <2>1, Zenon DEF TracerInv
    <3>2. CASE u = walk.at
      BY <1>1, <1>7, <1>8, <2>3, <3>1, <3>2, Zenon
    <3>3. CASE u # walk.at
      <4>1. u \in walk.got \cup {walk.at} => u \in walk'.got \cup {walk'.at}
        BY <2>2, <3>3
      <4> QED
        BY <1>1, <1>7, <3>1, <4>1, Zenon
    <3> QED
      BY <3>2, <3>3
  <2> QED
    BY <2>5, <2>6, <2>7
<1> QED
  BY <1>9, <1>11, <1>12, <1>13 DEF Seizes

(* attach_seize on one thread keeps the invariant. *)
LEMMA SeizeKeeps ==
  ASSUME NEW v \in Tracers, Inv, Seizes(v), TypeOK'
  PROVE  Inv'
<1> USE TracersAssumption
<1>1. /\ walk.by = v /\ walk'.by = v /\ v # Nobody
      /\ text' = text /\ proc' = proc /\ wrapper' = wrapper
      /\ mpc' = mpc /\ ipc' = ipc /\ s1' = s1 /\ mode' = mode
      /\ (poisoned' <=> poisoned) /\ (spawnFailed' <=> spawnFailed)
      /\ res' = res /\ objs' = objs /\ (deadKept => deadKept')
  BY SeizeFrame, Zenon DEF Inv
<1>2. CASE Alive
  <2>1. StepsInv /\ ProcInv /\ LoopInv /\ ResInv
    BY <1>2, Zenon DEF Inv
  <2>2. SeizeFacts(v)' /\ TracerInv' /\ LeaderInv'
    BY <1>2, SeizeLoop, Zenon
  <2>3. Alive'
    <3>1. CASE life' = life
      BY <1>2, <3>1, Zenon DEF Alive
    <3>2. CASE SeizeStopped(v) \/ SeizeKeepsDead(v)
      <4>1. walk.at # Leader \/ life[Leader] = "running"
        BY <1>1, <1>2, <2>1, <3>2, LeaderIsThread
           DEF LoopInv, LeaderInv, SeizeStopped, SeizeKeepsDead, Alive, Inv
      <4>2. life' = [life EXCEPT ![walk.at] = life'[walk.at]]
            /\ life \in [HvThreads -> Lives] /\ walk.at \in HvThreads
        BY <3>2 DEF SeizeStopped, SeizeKeepsDead, Inv, TypeOK, TraceTypeOK
      <4>3. CASE walk.at # Leader
        BY <1>2, <4>2, <4>3, LeaderIsThread DEF Alive
      <4>4. CASE walk.at = Leader
        BY <3>2, <4>1, <4>2, <4>4 DEF SeizeStopped, SeizeKeepsDead, Alive
      <4> QED
        BY <4>3, <4>4
    <3> QED
      BY <3>1, <3>2, Zenon DEF Seizes, SeizeNext, SeizeGivesUp
  <2>4. StepsInv'
    <3>1. MmioActive' <=> MmioActive
      BY <1>1, Zenon DEF MmioActive
    <3> QED
      BY <1>1, <1>2, <2>1, <2>3, <3>1, Zenon DEF StepsInv
  <2>5. DeadInv'
    BY <2>3, Zenon DEF DeadInv
  <2>6. proc.owner = Nobody
    BY <1>1, <2>1, Zenon DEF LoopInv
  <2>7. ProcInv'
    BY <1>1, <2>1, <2>6, Zenon DEF ProcInv, Lost
  <2>8. LoopInv'
    <3>1. ipc \notin Wrapped
      BY <1>1, <2>1 DEF StepsInv, MmioActive, Serving, Wrapped, Tracers
    <3> QED
      BY <1>1, <2>2, <3>1, Zenon DEF LoopInv, SeizeFacts
  <2>9. ResInv'
    BY <1>1, <2>1, Zenon DEF ResInv
  <2> QED
    BY <2>2, <2>3, <2>4, <2>5, <2>7, <2>8, <2>9, Zenon DEF Inv
<1>3. CASE ~Alive
  <2>1. StepsInv /\ DeadInv
    BY Zenon DEF Inv
  <2>2. \A t \in HvThreads : life[t] = "gone" /\ tracer[t] = Nobody
    BY <1>3, <2>1, Zenon DEF DeadInv
  <2>3. /\ life \in [HvThreads -> Lives] /\ tracer \in [HvThreads -> Tracers \cup {Nobody}]
        /\ walk.todo \subseteq HvThreads /\ walk.at \in HvThreads \cup {0}
    BY DEF Inv, TypeOK, TraceTypeOK
  <2>4. \A t \in HvThreads : life'[t] = "gone" /\ tracer'[t] = Nobody
    <3>1. CASE SeizeNext(v)
      BY <2>2, <2>3, <3>1 DEF SeizeNext
    <3>2. CASE SeizeStopped(v)
      BY <2>2, <2>3, <3>2 DEF SeizeStopped
    <3>3. CASE SeizeKeepsDead(v)
      BY <2>2, <2>3, <3>3 DEF SeizeKeepsDead
    <3>4. CASE SeizeGivesUp(v)
      BY <2>2, <3>4, Zenon DEF SeizeGivesUp
    <3> QED
      BY <3>1, <3>2, <3>3, <3>4, Zenon DEF Seizes
  <2>5. ~Alive'
    BY <2>4, LeaderIsThread, Zenon DEF Alive
  <2>6. StepsInv'
    <3>1. MmioActive' <=> MmioActive
      BY <1>1, Zenon DEF MmioActive
    <3> QED
      BY <1>1, <2>1, <2>5, <3>1, Zenon DEF StepsInv
  <2> QED
    BY <2>4, <2>5, <2>6, Zenon DEF Inv, DeadInv
<1> QED
  BY <1>2, <1>3

(* Steps that leave the hypervisor alone. *)
LEMMA Untraced ==
  ASSUME Inv, UNCHANGED traceVars, deadKept' = deadKept,
         ipc' = ipc \/ (ipc = "none" /\ ipc' = "adopt")
  PROVE  /\ DeadInv' /\ (Alive' <=> Alive)
         /\ Alive' => LoopInv' /\ TracerInv' /\ LeaderInv'
<1>1. /\ life' = life /\ tracer' = tracer /\ proc' = proc /\ wrapper' = wrapper
      /\ walk' = walk
  BY Zenon DEF traceVars
<1>2. DeadInv' /\ (Alive' <=> Alive)
  BY <1>1, Zenon DEF Inv, DeadInv, Alive
<1> SUFFICES ASSUME Alive PROVE LoopInv' /\ TracerInv' /\ LeaderInv'
  BY <1>2, Zenon
<1>3. LoopInv /\ TracerInv /\ LeaderInv
  BY Zenon DEF Inv
<1>4. LeaderInv'
  BY <1>1, <1>3, Zenon DEF LeaderInv
<1>5. \A t : DeadThread(t)' <=> DeadThread(t)
  BY <1>1, SMT DEF DeadThread
<1>6. \A v, t : Caught(v, t)' <=> Caught(v, t)
  BY <1>1, <1>5, Zenon DEF Caught
<1>7. CASE ipc' = ipc
  <2>1. LoopInv'
    BY <1>1, <1>3, <1>5, <1>6, <1>7, Zenon DEF LoopInv
  <2>2. TracerInv'
    BY <1>1, <1>3, <1>7, Zenon DEF TracerInv, MmioActive
  <2> QED
    BY <1>4, <2>1, <2>2
<1>8. CASE ipc = "none" /\ ipc' = "adopt"
  <2>1. LoopInv'
    BY <1>1, <1>3, <1>6, <1>8, Zenon DEF LoopInv, Wrapped
  <2>2. TracerInv'
    BY <1>1, <1>3, <1>8, Zenon DEF TracerInv, MmioActive
  <2> QED
    BY <1>4, <2>1, <2>2
<1> QED
  BY <1>7, <1>8

(* A thread of the Process, or of the seize loop, that a living            *)
(* hypervisor's leader is: it is stopped, never a dead one.                *)
LEMMA LeaderCaught ==
  ASSUME Alive, NEW v, Caught(v, Leader)
  PROVE  tracer[Leader] = v /\ life[Leader] = "stopped"
  BY Zenon DEF Caught, DeadThread, Alive

(* Threads that are detached run on: a hypervisor is alive after it if it  *)
(* was before.                                                             *)
LEMMA DetachAlive ==
  ASSUME NEW v, NEW S, DetachAll(Reachable(v, S))
  PROVE  Alive' <=> Alive
<1>1. life'[Leader] = IF Leader \in Reachable(v, S) THEN "running" ELSE life[Leader]
  BY LeaderIsThread, Zenon DEF DetachAll
<1>2. Leader \in Reachable(v, S) => life[Leader] \in Stops
  BY Zenon DEF Reachable
<1> QED
  BY <1>1, <1>2, Zenon DEF Alive, Stops

(* Detaching does nothing to a hypervisor that has ended. *)
LEMMA DetachDead ==
  ASSUME DeadInv, ~Alive, NEW v, NEW S, DetachAll(Reachable(v, S))
  PROVE  DeadInv' /\ ~Alive'
<1>1. ASSUME NEW t \in HvThreads PROVE life'[t] = "gone" /\ tracer'[t] = Nobody
  <2>1. life[t] = "gone" /\ tracer[t] = Nobody
    BY Zenon DEF DeadInv
  <2>2. t \notin Reachable(v, S)
    BY <2>1, Zenon DEF Reachable, Stops
  <2> QED
    BY <2>1, <2>2, Zenon DEF DetachAll
<1> QED
  BY <1>1, DetachAlive, Zenon DEF DeadInv

(* init() fails only when the hypervisor has ended, as its leader is among *)
(* the threads seized.                                                     *)
LEMMA AbortMeansDead ==
  ASSUME Inv, NEW v \in Tracers, WalkDone(v), InitPanics \/ InitFails(v)
  PROVE  ~Alive
<1> SUFFICES ASSUME Alive PROVE FALSE
  OBVIOUS
<1>1. v # Nobody /\ walk.by = v /\ walk.todo = {} /\ walk.at = 0
  BY TracersAssumption, Zenon DEF Tracers, WalkDone
<1>2. /\ Leader \in walk.todo \cup walk.got \cup {walk.at}
      /\ \A t \in walk.got : Caught(v, t)
  BY <1>1, Zenon DEF Inv, LoopInv
<1>3. Leader # 0
  BY DEF Leader
<1>4. Leader \in walk.got
  BY <1>1, <1>2, <1>3
<1>5. Leader \in Reachable(v, walk.got)
  BY <1>2, <1>4, LeaderCaught, Zenon DEF Reachable, Stops
<1> QED
  BY <1>4, <1>5, Zenon DEF InitPanics, InitFails

(* A seize loop begins. *)
LEMMA WalkStarts ==
  ASSUME NEW v \in Tracers, NEW S, Inv, Alive, StartWalk(v, S),
         proc.owner = Nobody, Leader \in S, 0 \notin S, ipc' = ipc, deadKept' = deadKept
  PROVE  Alive' /\ LoopInv' /\ TracerInv' /\ LeaderInv'
<1>1. /\ walk.by = Nobody /\ walk' = [by |-> v, todo |-> S, at |-> 0, got |-> {}]
      /\ life' = life /\ tracer' = tracer /\ proc' = proc /\ wrapper' = wrapper
  BY Zenon DEF StartWalk
<1>2. walk'.by = v /\ walk'.todo = S /\ walk'.at = 0 /\ walk'.got = {}
  BY <1>1
<1>3. LoopInv /\ TracerInv /\ LeaderInv
  BY Zenon DEF Inv
<1>4. \A t : DeadThread(t)' <=> DeadThread(t)
  BY <1>1, SMT DEF DeadThread
<1>5. LoopInv'
  <2>1. v # Nobody
    BY TracersAssumption, Zenon DEF Tracers
  <2>2. /\ Leader \in walk'.todo \cup walk'.got \cup {walk'.at}
        /\ walk'.todo \cap walk'.got = {} /\ walk'.at \notin walk'.todo \cup walk'.got
    BY <1>2
  <2>3. \A t \in walk'.got : Caught(walk.by, t)'
    BY <1>2
  <2> QED
    BY <1>1, <1>2, <1>3, <1>4, <2>1, <2>2, <2>3, Zenon DEF LoopInv
<1>6. TracerInv'
  BY <1>1, <1>3, TracersAssumption, Zenon DEF TracerInv, MmioActive
<1> QED
  BY <1>1, <1>3, <1>5, <1>6, Zenon DEF Alive, LeaderInv

(* During a seize loop there is no wrapper, and the mmio thread is not on  *)
(* its way out.                                                            *)
LEMMA WalkAlone ==
  ASSUME Inv, walk.by \in Tracers
  PROVE  ipc \notin Wrapped \cup {"stuck", "wrap", "disown", "exit"}
  BY TracersAssumption DEF Inv, StepsInv, MmioActive, Serving, Wrapped, Tracers

(* init() succeeds: the seized threads are a Process. *)
LEMMA Patches ==
  ASSUME NEW v \in Tracers, Inv, Alive, InitPatch(v), deadKept' = deadKept,
         ipc' = ipc \/ (ipc = "adopt" /\ ipc' = "wrap")
  PROVE  /\ Alive' /\ text' = "patched" /\ wrapper' = wrapper /\ walk.by = v
         /\ walk'.by = Nobody
         /\ proc'.some /\ proc'.held /\ proc'.owner = v /\ proc'.saved = "orig"
         /\ Leader \in proc'.threads /\ \A t \in proc'.threads : Caught(v, t)'
         /\ LoopInv' /\ TracerInv' /\ LeaderInv'
<1> USE TracersAssumption
<1>1. /\ walk.by = v /\ walk.todo = {} /\ walk.at = 0 /\ Leader \in walk.got
      /\ text' = "patched" /\ proc' = Patched(v) /\ walk' = NoWalk
      /\ life' = life /\ tracer' = tracer /\ wrapper' = wrapper
  BY Zenon DEF InitPatch, WalkDone, Reachable
<1>2. /\ proc'.some /\ proc'.held /\ proc'.owner = v /\ proc'.saved = text
      /\ proc'.threads = walk.got
  BY <1>1 DEF Patched
<1>3. walk'.by = Nobody /\ walk'.at = 0
  BY <1>1 DEF NoWalk
<1>4. StepsInv /\ ProcInv /\ LoopInv /\ TracerInv /\ LeaderInv
  BY Zenon DEF Inv
<1>5. v # Nobody /\ ipc \notin Wrapped \cup {"stuck", "wrap", "disown", "exit"}
  BY <1>1, WalkAlone, Zenon DEF Tracers
<1>6. proc.owner = Nobody /\ (\A t \in walk.got : Caught(v, t))
  BY <1>1, <1>4, <1>5, Zenon DEF LoopInv
<1>7. \A t : Caught(v, t)' <=> Caught(v, t)
  <2>1. \A t : DeadThread(t)' <=> DeadThread(t)
    BY <1>1, SMT DEF DeadThread
  <2> QED
    BY <1>1, <2>1, Zenon DEF Caught
<1>8. text = "orig"
  <2>1. mpc # "done"
    BY <1>1, <1>4 DEF StepsInv, MmioActive, Serving, Tracers
  <2>2. text \in {"orig", "patched"}
    BY Zenon DEF Inv, TypeOK, TraceTypeOK
  <2> QED
    BY <1>4, <1>6, <2>1, <2>2, Zenon DEF ProcInv
<1>9. LoopInv'
  <2>1. ipc' \notin Wrapped
    BY <1>5, Zenon DEF Wrapped
  <2> QED
    BY <1>3, <2>1, Zenon DEF LoopInv
<1>10. TracerInv'
  <2> SUFFICES ASSUME NEW t \in HvThreads
               PROVE  TracerInv!(t)'
    BY Zenon DEF TracerInv
  <2>1. TracerInv!(t)
    BY <1>4, Zenon DEF TracerInv
  <2>2. t \in walk.got \cup {walk.at} => t \in walk.got
    BY <1>1, ThreadsAssumption DEF HvThreads
  <2>3. MmioActive => MmioActive'
    BY Zenon DEF MmioActive
  <2> QED
    BY <1>1, <1>2, <1>5, <1>6, <2>1, <2>2, <2>3, Zenon DEF Tracers
<1> QED
  BY <1>1, <1>2, <1>3, <1>4, <1>6, <1>7, <1>8, <1>9, <1>10, Zenon DEF Alive, LeaderInv

(* The owner of the Process of a living hypervisor can inject, and knows   *)
(* the word to write back.                                                 *)
LEMMA OwnerInjects ==
  ASSUME Inv, Alive, NEW v \in Tracers, proc.owner = v, proc.held
  PROVE  /\ CanInject(v) /\ Restored(v) = "orig" /\ Leader \in Reachable(v, proc.threads)
         /\ walk.by = Nobody /\ ipc \notin Wrapped \cup {"stuck"}
<1>1. v # Nobody
  BY TracersAssumption, Zenon DEF Tracers
<1>2. ProcInv /\ LoopInv
  BY Zenon DEF Inv
<1>3. /\ proc.some /\ Leader \in proc.threads /\ proc.saved = "orig"
      /\ \A t \in proc.threads : Caught(v, t)
  BY <1>1, <1>2, Zenon DEF ProcInv, Lost
<1>4. Leader \in Reachable(v, proc.threads)
  BY <1>3, LeaderCaught, Zenon DEF Reachable, Stops
<1>5. walk.by = Nobody
  BY <1>1, <1>2, Zenon DEF LoopInv
<1> QED
  BY <1>2, <1>3, <1>4, <1>5, Zenon DEF CanInject, Restored, ProcInv

(* The threads of the Process are let go, in disown or when it is dropped: *)
(* every trace relation that is left has its reason.                       *)
LEMMA Releases ==
  ASSUME Inv, Alive, NEW v \in Tracers, proc.owner = v, proc.held,
         DetachAll(Reachable(v, proc.threads)), walk' = walk, wrapper' = wrapper,
         ipc' = ipc \/ ipc' \in {"disown", "exit"}
  PROVE  Alive' /\ LoopInv' /\ TracerInv' /\ LeaderInv'
<1> USE TracersAssumption
<1>1. /\ life' = [t \in HvThreads |->
                    IF t \in Reachable(v, proc.threads) THEN "running" ELSE life[t]]
      /\ tracer' = [t \in HvThreads |->
                      IF t \in Reachable(v, proc.threads) THEN Nobody ELSE tracer[t]]
  BY Zenon DEF DetachAll
<1>2. StepsInv /\ ProcInv /\ LoopInv /\ TracerInv /\ LeaderInv
  BY Zenon DEF Inv
<1>3. walk.by = Nobody /\ ipc \notin Wrapped \cup {"stuck"}
  BY OwnerInjects, Zenon
<1>4. Alive'
  BY DetachAlive, Zenon
<1>5. v # Nobody /\ (\A t \in proc.threads : Caught(v, t))
  BY <1>2, Zenon DEF ProcInv, Tracers
<1>6. LoopInv'
  BY <1>2, <1>3, Zenon DEF LoopInv, Wrapped
<1>7. LeaderInv'
  <2>1. life'[Leader] = "running" \/ life'[Leader] = life[Leader]
    BY <1>1, LeaderIsThread, Zenon
  <2> QED
    BY <1>2, <2>1, Zenon DEF LeaderInv
<1>8. TracerInv'
  <2> SUFFICES ASSUME NEW t \in HvThreads
               PROVE  TracerInv!(t)'
    BY Zenon DEF TracerInv
  <2>1. TracerInv!(t)
    BY <1>2, Zenon DEF TracerInv
  <2>2. CASE t \in Reachable(v, proc.threads)
    <3>1. life'[t] = "running" /\ tracer'[t] = Nobody
      BY <1>1, <2>2, Zenon
    <3> QED
      BY <3>1, Zenon DEF Stops
  <2>3. CASE t \notin Reachable(v, proc.threads)
    <3>1. life'[t] = life[t] /\ tracer'[t] = tracer[t]
      BY <1>1, <2>3, Zenon
    <3>2. t \in proc.threads => tracer[t] # v
      BY <1>5, <2>3, Zenon DEF Caught, DeadThread, Reachable, Stops
    <3>3. MmioActive => MmioActive'
      BY Zenon DEF MmioActive
    <3> QED
      BY <1>3, <2>1, <3>1, <3>2, <3>3, Zenon
  <2> QED
    BY <2>2, <2>3
<1> QED
  BY <1>4, <1>6, <1>7, <1>8

(* disown() by the owner of the Process of a living hypervisor: it fails   *)
(* only if a thread ended while it was being seized.                       *)
LEMMA Disowns ==
  ASSUME Inv, Alive, NEW v \in Tracers, proc.owner = v, proc.held, deadKept' = deadKept,
         DisownOk(v) \/ DisownErr(v), ipc' = ipc \/ ipc' \in {"disown", "exit"}
  PROVE  /\ Alive' /\ text' = "orig" /\ wrapper' = wrapper /\ walk' = walk
         /\ LoopInv' /\ TracerInv' /\ LeaderInv'
         /\ \/ proc'.some /\ proc'.held /\ proc'.owner = Nobody /\ Leader \in proc'.threads
            \/ deadKept /\ proc'.some /\ ~proc'.held /\ proc'.owner = v /\ proc'.threads = {}
         /\ DisownOk(v) => proc'.held
<1>1. /\ Restored(v) = "orig" /\ Leader \in Reachable(v, proc.threads)
      /\ v # Nobody
  BY OwnerInjects, TracersAssumption, Zenon DEF Tracers
<1>2. /\ proc.some /\ proc \in [some : BOOLEAN, owner : Tracers \cup {Nobody}, held : BOOLEAN,
                threads : SUBSET HvThreads, saved : {"orig", "patched"}]
      /\ \A t \in proc.threads : Caught(v, t)
  BY <1>1, Zenon DEF Inv, ProcInv, TypeOK, TraceTypeOK
<1>3. Leader \in proc.threads
  BY <1>1, Zenon DEF Reachable
<1>4. CASE DisownOk(v)
  <2>1. /\ text' = "orig" /\ DetachAll(Reachable(v, proc.threads))
        /\ proc' = [proc EXCEPT !.owner = Nobody] /\ wrapper' = wrapper /\ walk' = walk
    BY <1>1, <1>4, Zenon DEF DisownOk
  <2>2. proc'.some /\ proc'.held /\ proc'.owner = Nobody /\ proc'.threads = proc.threads
    BY <1>2, <2>1
  <2>3. Alive' /\ LoopInv' /\ TracerInv' /\ LeaderInv'
    BY <2>1, Releases, Zenon
  <2> QED
    BY <1>3, <2>1, <2>2, <2>3
<1>5. CASE ~DisownOk(v)
  <2>1. /\ text' = "orig" /\ DetachAll(Reachable(v, proc.threads))
        /\ Reachable(v, proc.threads) # proc.threads
        /\ proc' = [proc EXCEPT !.held = FALSE, !.threads = {}]
        /\ wrapper' = wrapper /\ walk' = walk
    BY <1>1, <1>2, <1>5, Zenon DEF DisownErr
  <2>2. proc'.some /\ ~proc'.held /\ proc'.owner = v /\ proc'.threads = {}
    BY <1>2, <2>1
  <2>3. deadKept
    <3>1. ASSUME \A t \in proc.threads : tracer[t] = v /\ life[t] \in Stops
          PROVE  Reachable(v, proc.threads) = proc.threads
      BY <3>1 DEF Reachable
    <3> QED
      BY <1>2, <2>1, <3>1, Zenon DEF Caught, DeadThread, Stops
  <2>4. Alive' /\ LoopInv' /\ TracerInv' /\ LeaderInv'
    BY <2>1, Releases, Zenon
  <2> QED
    BY <1>5, <2>1, <2>2, <2>3, <2>4
<1> QED
  BY <1>4, <1>5

(* The same, of a hypervisor that has ended. *)
LEMMA DisownsDead ==
  ASSUME DeadInv, ~Alive, NEW v, DisownOk(v) \/ DisownErr(v)
  PROVE  DeadInv' /\ ~Alive' /\ walk' = walk
<1>1. CASE UNCHANGED traceVars
  BY <1>1, Zenon DEF traceVars, DeadInv, Alive
<1>2. CASE DetachAll(Reachable(v, proc.threads)) /\ walk' = walk
  BY <1>2, DetachDead, Zenon
<1> QED
  BY <1>1, <1>2, Zenon DEF DisownOk, DisownErr

(* The drop of main's Process: the text is restored, and the tracees of    *)
(* main run on.                                                            *)
LEMMA MainDrops ==
  ASSUME Inv, DropProcess(Main), mpc \in MainOwns, ipc' = ipc
  PROVE  /\ Alive' <=> Alive
         /\ proc' = NoProc /\ wrapper' = wrapper /\ walk' = walk
         /\ Alive => text' = "orig" /\ LoopInv' /\ TracerInv' /\ LeaderInv'
<1>1. /\ text' = Restored(Main) /\ proc' = NoProc /\ wrapper' = wrapper /\ walk' = walk
      /\ DetachAll(Reachable(Main, proc.threads))
  BY Zenon DEF DropProcess
<1>2. Alive' <=> Alive
  BY <1>1, DetachAlive, Zenon
<1>3. Alive => proc.owner = Main /\ proc.held
  BY Zenon DEF Inv, ProcInv
<1>4. Alive => text' = "orig"
  BY <1>1, <1>3, OwnerInjects, Zenon DEF Tracers
<1>5. Alive => LoopInv' /\ TracerInv' /\ LeaderInv'
  BY <1>1, <1>3, Releases, Zenon DEF Tracers
<1> QED
  BY <1>1, <1>2, <1>4, <1>5

-----------------------------------------------------------------------------
(* vm.stop() in main: a seize loop begins, the Process is there already,   *)
(* or main gives up.                                                       *)
LEMMA MainStopKeeps == Inv /\ MainStop => Inv'
<1> SUFFICES ASSUME Inv, MainStop PROVE Inv'
  OBVIOUS
<1> USE ThreadsAssumption, TracersAssumption
<1>1. TypeOK'
  BY TypeStep DEF Inv, Next, MainNext
<1>2. /\ TraceTypeOK /\ mode \in {"wrap", "ioregion"} /\ res \subseteq Objects
      /\ StepsInv /\ DeadInv
      /\ Alive => ProcInv /\ LoopInv /\ TracerInv /\ LeaderInv /\ ResInv
  BY DEF Inv, TypeOK, ThreadTypeOK
<1>3. ASSUME /\ mpc \in {"stop", "stop2"} /\ ~poisoned /\ Alive /\ ~proc.some
            /\ StartWalk(Main, Listed) /\ MainTo(mpc) /\ KeepsThreads /\ NoFaultHistory
     PROVE  Inv'
  <2>1. StepsInv'
    BY <1>2, <1>3 DEF StepsInv, MmioActive, StartWalk, MainTo, KeepsThreads,
           NoFaultHistory
  <2>2. DeadInv'
    BY <1>2, <1>3 DEF Alive, DeadInv, StartWalk
  <2>3. Alive' => ProcInv'
    BY <1>2, <1>3 DEF ProcInv, MainOwns, Wrapped, StartWalk, MainTo, Lost, Caught, DeadThread, NoFaultHistory
  <2>4. Alive' => LoopInv' /\ TracerInv' /\ LeaderInv'
    <3>1. proc.owner = Nobody /\ LeaderInv
      BY <1>2, <1>3, Zenon DEF ProcInv
    <3>2. Leader \in Listed /\ 0 \notin Listed
      BY <1>3, <3>1 DEF Listed, LeaderInv, Alive, HvThreads, Leader
    <3> QED
      BY <1>3, <3>1, <3>2, WalkStarts, Zenon DEF MainTo, NoFaultHistory, Tracers
  <2>7. Alive' => ResInv'
    BY <1>2, <1>3 DEF ResInv, MainTo, KeepsThreads, NoFaultHistory
  <2> QED
    BY <1>1, <2>1, <2>2, <2>3, <2>4, <2>7 DEF Inv
<1>4. ASSUME /\ mpc \in {"stop", "stop2"} /\ ~poisoned /\ proc.some /\ UNCHANGED traceVars
            /\ MainTo(IF mode = "wrap" THEN "adopt" ELSE "drop1")
            /\ KeepsThreads /\ NoFaultHistory
     PROVE  Inv'
  <2>1. StepsInv'
    BY <1>2, <1>4 DEF StepsInv, MmioActive, Serving, BeforeMmio, AfterStage1, traceVars,
           MainTo, KeepsThreads, NoFaultHistory
  <2>2. DeadInv' /\ (Alive' <=> Alive) /\ (Alive' => LoopInv' /\ TracerInv' /\ LeaderInv')
    BY <1>4, Untraced, Zenon DEF MainTo, NoFaultHistory
  <2>3. Alive' => ProcInv'
    BY <1>2, <1>4 DEF Alive, ProcInv, Serving, MainOwns, Wrapped, traceVars, MainTo, Lost, Caught, DeadThread, NoFaultHistory
  <2>7. Alive' => ResInv'
    BY <1>2, <1>4 DEF Alive, ResInv, traceVars, MainTo, KeepsThreads, NoFaultHistory
  <2> QED
    BY <1>1, <2>1, <2>2, <2>3, <2>7 DEF Inv
<1>5. ASSUME /\ mpc \in {"stop", "stop2"} /\ walk.by = Nobody
            /\ (poisoned \/ (~Alive /\ ~proc.some)) /\ UNCHANGED traceVars
            /\ MainTo("unwind") /\ KeepsThreads /\ NoFaultHistory
     PROVE  Inv'
  <2>1. StepsInv'
    BY <1>2, <1>5 DEF Alive, StepsInv, MmioActive, Serving, BeforeMmio, AfterStage1,
           traceVars, MainTo
  <2>2. DeadInv' /\ (Alive' <=> Alive) /\ (Alive' => LoopInv' /\ TracerInv' /\ LeaderInv')
    BY <1>5, Untraced, Zenon DEF MainTo, NoFaultHistory
  <2>3. Alive' => ProcInv'
    BY <1>2, <1>5 DEF Alive, StepsInv, ProcInv, MmioActive, MainOwns, Wrapped,
           AfterStage1, traceVars, KeepsThreads, NoFaultHistory, Lost, Caught, DeadThread
  <2>7. Alive' => ResInv'
    BY <1>2, <1>5 DEF Alive, StepsInv, ResInv, Objects, MmioActive, BeforeMmio,
           traceVars, NoFaultHistory
  <2> QED
    BY <1>1, <2>1, <2>2, <2>3, <2>7 DEF Inv
<1> QED
  BY <1>3, <1>4, <1>5 DEF MainStop

(* The seize loop in main. *)
LEMMA MainSeizeKeeps == Inv /\ MainSeize => Inv'
  BY SeizeKeeps, TypeStep DEF MainSeize, Inv, Next, MainNext, Tracers

(* attach succeeds: main owns the hypervisor. *)
LEMMA MainAttachedKeeps == Inv /\ MainAttached => Inv'
<1> SUFFICES ASSUME Inv, MainAttached PROVE Inv'
  OBVIOUS
<1> USE ThreadsAssumption, TracersAssumption
<1>1. TypeOK'
  BY TypeStep DEF Inv, Next, MainNext
<1>2. /\ TraceTypeOK /\ mode \in {"wrap", "ioregion"} /\ res \subseteq Objects
      /\ StepsInv /\ DeadInv
      /\ Alive => ProcInv /\ LoopInv /\ TracerInv /\ LeaderInv /\ ResInv
  BY DEF Inv, TypeOK, ThreadTypeOK
<1>3. StepsInv'
  BY <1>2 DEF Alive, StepsInv, MmioActive, Serving, BeforeMmio, AfterStage1,
         MainAttached, InitPatch, NoWalk, MainTo, KeepsThreads, NoFaultHistory
<1>4. DeadInv'
  BY <1>2 DEF Alive, DeadInv, MainAttached, InitPatch
<1>5. ASSUME Alive' PROVE ProcInv' /\ LoopInv' /\ TracerInv' /\ LeaderInv'
  <2>1. /\ InitPatch(Main) /\ ipc' = ipc /\ deadKept' = deadKept /\ s1' = s1 /\ mode' = mode
        /\ mpc \in {"stop", "stop2"} /\ mpc' \in {"sockets", "adopt", "drop1"}
    BY Zenon DEF MainAttached, MainTo, KeepsThreads, NoFaultHistory
  <2>2. Alive
    BY <1>5, <2>1, Zenon DEF InitPatch, Alive
  <2>3. /\ text' = "patched" /\ wrapper' = wrapper
        /\ proc'.some /\ proc'.held /\ proc'.owner = Main /\ proc'.saved = "orig"
        /\ Leader \in proc'.threads /\ \A t \in proc'.threads : Caught(Main, t)'
        /\ LoopInv' /\ TracerInv' /\ LeaderInv'
    BY <2>1, <2>2, Patches, Zenon DEF Tracers
  <2>4. /\ ipc' \notin Wrapped \cup {"stuck", "wrap", "adopt"}
        /\ wrapper.some <=> ipc \in Wrapped \cup {"stuck"}
    BY <1>2, <2>1, <2>2, Zenon DEF StepsInv, MmioActive, Serving, Wrapped, ProcInv
  <2>5. ProcInv'
    BY <2>1, <2>3, <2>4, Zenon DEF ProcInv, MainOwns, Serving
  <2> QED
    BY <2>3, <2>5
<1>9. Alive' => ResInv'
  BY <1>2 DEF Alive, ResInv, Objects, MainAttached, InitPatch, MainTo, KeepsThreads,
         NoFaultHistory
<1> QED
  BY <1>1, <1>3, <1>4, <1>5, <1>9 DEF Inv

(* attach fails: the seized threads are let go. That happens only when the *)
(* hypervisor has ended, as its leader is among the threads seized.        *)
LEMMA MainAttachFailsKeeps == Inv /\ MainAttachFails => Inv'
<1> SUFFICES ASSUME Inv, MainAttachFails PROVE Inv'
  OBVIOUS
<1> USE TracersAssumption
<1>1. TypeOK'
  BY TypeStep, Zenon DEF Inv, Next, MainNext
<1>2. StepsInv /\ DeadInv /\ (Alive => LoopInv)
  BY Zenon DEF Inv
<1>3. /\ mpc \in {"stop", "stop2"} /\ mpc' = "unwind" /\ ipc' = ipc /\ mode' = mode
      /\ WalkDone(Main) /\ (InitPanics \/ InitFails(Main))
      /\ DetachAll(Reachable(Main, walk.got)) /\ walk' = NoWalk /\ spawnFailed' = spawnFailed
  BY Zenon DEF MainAttachFails, AttachAbort, MainTo, KeepsThreads
<1>4. ~Alive
  BY <1>3, AbortMeansDead, Zenon DEF Tracers
<1>5. DeadInv' /\ ~Alive'
  BY <1>2, <1>3, <1>4, DetachDead, Zenon
<1>6. StepsInv'
  <2>1. walk'.by = Nobody
    BY <1>3 DEF NoWalk
  <2>2. ~MmioActive
    BY <1>2, <1>3, Zenon DEF StepsInv, Serving
  <2>3. ~MmioActive'
    BY <1>3, <2>2, Zenon DEF MmioActive
  <2> QED
    BY <1>3, <1>5, <2>1, <2>3, Zenon DEF StepsInv, BeforeMmio, AfterStage1
<1> QED
  BY <1>1, <1>5, <1>6, Zenon DEF Inv

(* A constructor injects system calls, or fails. *)
LEMMA MainCreateKeeps == Inv /\ MainCreate => Inv'
<1> SUFFICES ASSUME Inv, MainCreate PROVE Inv'
  OBVIOUS
<1> USE ThreadsAssumption, TracersAssumption
<1>1. TypeOK'
  BY TypeStep DEF Inv, Next, MainNext
<1>2. /\ TraceTypeOK /\ mode \in {"wrap", "ioregion"} /\ res \subseteq Objects
      /\ StepsInv /\ DeadInv
      /\ Alive => ProcInv /\ LoopInv /\ TracerInv /\ LeaderInv /\ ResInv
  BY DEF Inv, TypeOK, ThreadTypeOK
<1>3. ASSUME Creates("sockets")
     PROVE  Inv'
  <2>1. StepsInv'
    BY <1>2, <1>3 DEF Alive, StepsInv, MmioActive, Serving, BeforeMmio, Creates, MainTo,
           NoFaultHistory, traceVars
  <2>2. DeadInv' /\ (Alive' <=> Alive) /\ (Alive' => LoopInv' /\ TracerInv' /\ LeaderInv')
    BY <1>3, Untraced, Zenon DEF Creates, MainTo, NoFaultHistory
  <2>3. Alive' => ProcInv'
    BY <1>2, <1>3 DEF Alive, StepsInv, ProcInv, MmioActive, Serving, MainOwns,
           BeforeMmio, Stops, Creates, MainTo, traceVars, Lost, Caught, DeadThread, NoFaultHistory
  <2>7. Alive' => ResInv'
    BY <1>2, <1>3 DEF Alive, ResInv, Creates, MainTo, NoFaultHistory, traceVars
  <2> QED
    BY <1>1, <2>1, <2>2, <2>3, <2>7 DEF Inv
<1>4. ASSUME Creates("devices")
     PROVE  Inv'
  <2>1. StepsInv'
    BY <1>2, <1>4 DEF Alive, StepsInv, MmioActive, BeforeMmio, Creates, MainTo,
           NoFaultHistory, traceVars
  <2>2. DeadInv' /\ (Alive' <=> Alive) /\ (Alive' => LoopInv' /\ TracerInv' /\ LeaderInv')
    BY <1>4, Untraced, Zenon DEF Creates, MainTo, NoFaultHistory
  <2>3. Alive' => ProcInv'
    BY <1>2, <1>4 DEF Alive, StepsInv, ProcInv, MmioActive, Serving, MainOwns,
           BeforeMmio, Wrapped, Stops, AfterStage1, Creates, MainTo, traceVars, Lost, Caught, DeadThread, NoFaultHistory
  <2>7. Alive' => ResInv'
    BY <1>2, <1>4 DEF Alive, ResInv, Creates, MainTo, NoFaultHistory, traceVars
  <2> QED
    BY <1>1, <2>1, <2>2, <2>3, <2>7 DEF Inv
<1>5. ASSUME Creates("stage1")
     PROVE  Inv'
  <2>1. StepsInv'
    BY <1>2, <1>5 DEF Alive, StepsInv, MmioActive, BeforeMmio, Creates, MainTo,
           NoFaultHistory, traceVars
  <2>2. DeadInv' /\ (Alive' <=> Alive) /\ (Alive' => LoopInv' /\ TracerInv' /\ LeaderInv')
    BY <1>5, Untraced, Zenon DEF Creates, MainTo, NoFaultHistory
  <2>3. Alive' => ProcInv'
    BY <1>2, <1>5 DEF Alive, StepsInv, ProcInv, MmioActive, Serving, MainOwns,
           BeforeMmio, AfterStage1, Creates, MainTo, traceVars, Lost, Caught, DeadThread, NoFaultHistory
  <2>7. Alive' => ResInv'
    BY <1>2, <1>5 DEF Alive, StepsInv, ResInv, Serving, Creates, MainTo, traceVars, NoFaultHistory
  <2> QED
    BY <1>1, <2>1, <2>2, <2>3, <2>7 DEF Inv
<1> QED
  BY <1>3, <1>4, <1>5 DEF MainCreate, Objects

(* The early return on a signal. *)
LEMMA MainPollKeeps == Inv /\ MainPoll => Inv'
<1> SUFFICES ASSUME Inv, MainPoll PROVE Inv'
  OBVIOUS
<1>1. TypeOK'
  BY TypeStep DEF Inv, Next, MainNext
<1>2. /\ TraceTypeOK /\ StepsInv /\ DeadInv
      /\ Alive => ProcInv /\ LoopInv /\ TracerInv /\ LeaderInv /\ ResInv
  BY DEF Inv, TypeOK
<1>3. StepsInv'
  BY <1>2 DEF Alive, StepsInv, MmioActive, BeforeMmio, MainPoll, MainTo, NoFaultHistory,
         traceVars
<1>4. Alive' => ProcInv'
  BY <1>2 DEF Alive, StepsInv, ProcInv, Serving, BeforeMmio, MainOwns, MainPoll, MainTo,
         traceVars, Lost, Caught, DeadThread, NoFaultHistory
<1>5. DeadInv' /\ (Alive' <=> Alive) /\ (Alive' => LoopInv' /\ TracerInv' /\ LeaderInv')
  BY Untraced, Zenon DEF MainPoll, MainTo, NoFaultHistory
<1>6. Alive' => ResInv'
  BY <1>2 DEF Alive, StepsInv, ResInv, MainPoll, MainTo, traceVars, NoFaultHistory
<1> QED
  BY <1>1, <1>3, <1>4, <1>5, <1>6 DEF Inv

(* Stage1::spawn. *)
LEMMA MainSpawnStage1Keeps == Inv /\ MainSpawnStage1 => Inv'
<1> SUFFICES ASSUME Inv, MainSpawnStage1 PROVE Inv'
  OBVIOUS
<1>1. TypeOK'
  BY TypeStep DEF Inv, Next, MainNext
<1>2. /\ TraceTypeOK /\ StepsInv /\ DeadInv
      /\ Alive => ProcInv /\ LoopInv /\ TracerInv /\ LeaderInv /\ ResInv
  BY DEF Inv, TypeOK
<1>3. StepsInv'
  BY <1>2 DEF Alive, StepsInv, MmioActive, BeforeMmio, AfterStage1, MainSpawnStage1,
         MainTo, traceVars
<1>4. Alive' => ProcInv'
  BY <1>2 DEF Alive, StepsInv, ProcInv, Serving, BeforeMmio, MainOwns, Wrapped,
         MainSpawnStage1, MainTo, traceVars, Lost, Caught, DeadThread, NoFaultHistory
<1>5. DeadInv' /\ (Alive' <=> Alive) /\ (Alive' => LoopInv' /\ TracerInv' /\ LeaderInv')
  BY Untraced, Zenon DEF MainSpawnStage1, MainTo, NoFaultHistory
<1>6. Alive' => ResInv'
  BY <1>2 DEF Alive, ResInv, MainSpawnStage1, MainTo, KeepsThreads, traceVars, NoFaultHistory
<1> QED
  BY <1>1, <1>3, <1>4, <1>5, <1>6 DEF Inv

(* DeviceSet::start up to the mmio thread; with ioregionfd the Process is  *)
(* dropped here.                                                           *)
LEMMA MainStartKeeps == Inv /\ MainStart => Inv'
<1> SUFFICES ASSUME Inv, MainStart PROVE Inv'
  OBVIOUS
<1> USE ThreadsAssumption, TracersAssumption
<1>1. TypeOK'
  BY TypeStep DEF Inv, Next, MainNext
<1>2. /\ TraceTypeOK /\ mode \in {"wrap", "ioregion"} /\ res \subseteq Objects
      /\ StepsInv /\ DeadInv
      /\ Alive => ProcInv /\ LoopInv /\ TracerInv /\ LeaderInv /\ ResInv
  BY DEF Inv, TypeOK, ThreadTypeOK
<1>3. StepsInv'
  <2>1. /\ mpc = "start" /\ mpc' \in {"disown", "wait", "unwind"} /\ ipc' = ipc /\ mode' = mode
        /\ mpc' = "disown" => mode = "wrap"
        /\ s1' = s1 /\ poisoned' = poisoned /\ (spawnFailed' = spawnFailed \/ mpc' = "unwind")
    BY Zenon DEF MainStart, MainTo
  <2>2. /\ ipc = "none" /\ walk.by # Main /\ walk.by # Mmio /\ ~spawnFailed
        /\ (poisoned => ~Alive)
    BY <1>2, <2>1, Zenon DEF StepsInv, BeforeMmio
  <2>3. walk' = walk /\ (Alive' <=> Alive)
    <3>1. CASE DropProcess(Main)
      BY <3>1, DetachAlive, Zenon DEF DropProcess
    <3>2. CASE UNCHANGED traceVars
      BY <3>2, Zenon DEF traceVars, Alive
    <3> QED
      BY <3>1, <3>2, Zenon DEF MainStart
  <2>4. (spawnFailed' => mpc' = "unwind") /\ (poisoned' => ~Alive')
    BY <2>1, <2>2, <2>3
  <2>5. ~MmioActive' /\ ipc' = "none" /\ walk'.by # Main /\ walk'.by # Mmio
    BY <2>1, <2>2, <2>3, Zenon DEF MmioActive
  <2> QED
    BY <2>1, <2>4, <2>5, Zenon DEF StepsInv, BeforeMmio, AfterStage1
<1>4. DeadInv'
  BY <1>2 DEF Alive, HvThreads, Leader, DeadInv, MainStart, DropProcess, Reachable,
         DetachAll, traceVars
<1>5. ASSUME Alive' PROVE ProcInv' /\ LoopInv' /\ TracerInv' /\ LeaderInv'
  <2>1. /\ mpc = "start" /\ ipc' = ipc /\ s1' = s1 /\ mode' = mode /\ deadKept' = deadKept
        /\ mpc' \in {"disown", "wait", "unwind"}
        /\ mpc' = "disown" => UNCHANGED traceVars
        /\ mpc' = "wait" => DropProcess(Main)
        /\ mpc' = "unwind" => \/ spawnFailed'
                              \/ ~Alive /\ DropProcess(Main)
    BY Zenon DEF MainStart, MainTo
  <2>2. mpc \in MainOwns /\ ipc = "none"
    BY <1>2, <2>1, Zenon DEF StepsInv, BeforeMmio, MainOwns
  <2>3. CASE DropProcess(Main) /\ mpc' # "disown"
    <3>1. /\ Alive /\ text' = "orig" /\ proc' = NoProc /\ wrapper' = wrapper
          /\ LoopInv' /\ TracerInv' /\ LeaderInv'
      BY <1>5, <2>1, <2>2, <2>3, MainDrops, Zenon
    <3>2. wrapper.some <=> ipc \in Wrapped \cup {"stuck"}
      BY <1>2, <3>1, Zenon DEF ProcInv
    <3>3. proc'.owner = Nobody /\ proc'.some = FALSE
      BY <3>1, Zenon DEF NoProc
    <3>4. ipc' \notin Wrapped \cup {"stuck", "wrap", "adopt"}
      BY <2>1, <2>2, Zenon DEF Wrapped
    <3>5. mpc' = "wait" \/ (mpc' = "unwind" /\ spawnFailed')
      BY <2>1, <2>3, <3>1, Zenon
    <3>6. ProcInv'
      BY <2>1, <3>1, <3>2, <3>3, <3>4, <3>5, TracersAssumption, Zenon
         DEF ProcInv, MainOwns, Serving
    <3> QED
      BY <3>1, <3>6
  <2>4. CASE /\ UNCHANGED traceVars
             /\ mpc' = "disown" \/ (mpc' = "unwind" /\ spawnFailed')
    <3>1. /\ life' = life /\ tracer' = tracer /\ text' = text /\ proc' = proc
          /\ wrapper' = wrapper /\ walk' = walk
      BY <2>4, Zenon DEF traceVars
    <3>2. Alive /\ LoopInv' /\ TracerInv' /\ LeaderInv'
      BY <1>5, <2>1, <2>4, Untraced, Zenon
    <3>3. /\ proc.owner = Main /\ proc.held /\ proc.some /\ text = "patched"
          /\ proc.saved = "orig" /\ Leader \in proc.threads /\ ~wrapper.some
          /\ \A t \in proc.threads : Caught(Main, t)
      BY <1>2, <2>2, <3>2, Zenon DEF ProcInv, Lost, Wrapped
    <3>4. \A t \in proc.threads : Caught(Main, t)'
      BY <2>1, <3>1, <3>3, Zenon DEF Caught, DeadThread
    <3>5. ipc' \notin Wrapped \cup {"stuck", "wrap", "adopt"}
      BY <2>1, <2>2, Zenon DEF Wrapped
    <3>6. ProcInv'
      BY <2>1, <2>4, <3>1, <3>3, <3>4, <3>5, TracersAssumption, Zenon DEF ProcInv, MainOwns, Serving
    <3> QED
      BY <3>2, <3>6
  <2> QED
    BY <2>1, <2>3, <2>4, Zenon DEF MainStart, MainTo
<1>9. Alive' => ResInv'
  BY <1>2 DEF Alive, HvThreads, Leader, ResInv, Objects, Stops, MainStart, DropProcess,
         Reachable, DetachAll, MainTo, traceVars, NoFaultHistory
<1> QED
  BY <1>1, <1>3, <1>4, <1>5, <1>9 DEF Inv

(* main gives the hypervisor up. *)
LEMMA MainDisownKeeps == Inv /\ MainDisown => Inv'
<1> SUFFICES ASSUME Inv, MainDisown PROVE Inv'
  OBVIOUS
<1> USE TracersAssumption
<1>1. TypeOK'
  BY TypeStep DEF Inv, Next, MainNext
<1>2. /\ StepsInv /\ DeadInv
      /\ Alive => ProcInv /\ LoopInv /\ TracerInv /\ LeaderInv /\ ResInv
  BY DEF Inv
<1>3. /\ mpc = "disown" /\ ipc' = ipc /\ s1' = s1 /\ mode' = mode /\ poisoned' = poisoned
      /\ spawnFailed' = spawnFailed /\ deadKept' = deadKept /\ res' = res /\ objs' = objs
      /\ \/ DisownOk(Main) /\ mpc' = "spawn"
         \/ DisownErr(Main) /\ mpc' = "unwind"
  BY Zenon DEF MainDisown, MainTo, KeepsThreads, NoFaultHistory
<1>4. ipc = "none" /\ mpc \in MainOwns /\ ~spawnFailed /\ walk.by # Main /\ walk.by # Mmio
  BY <1>2, <1>3, Zenon DEF StepsInv, BeforeMmio, MainOwns
<1>5. ASSUME ~Alive PROVE DeadInv' /\ ~Alive' /\ walk' = walk
  BY <1>2, <1>3, <1>5, DisownsDead, Zenon
<1>6. ASSUME Alive
      PROVE  /\ proc.owner = Main /\ proc.held /\ (wrapper.some <=> ipc \in Wrapped \cup {"stuck"})
             /\ Alive' /\ text' = "orig" /\ wrapper' = wrapper /\ walk' = walk
             /\ LoopInv' /\ TracerInv' /\ LeaderInv'
             /\ \/ proc'.some /\ proc'.held /\ proc'.owner = Nobody /\ Leader \in proc'.threads
                \/ deadKept /\ proc'.some /\ ~proc'.held /\ proc'.owner = Main /\ proc'.threads = {}
             /\ DisownOk(Main) => proc'.held
  <2>1. proc.owner = Main /\ proc.held /\ (wrapper.some <=> ipc \in Wrapped \cup {"stuck"})
    BY <1>2, <1>4, <1>6, Zenon DEF ProcInv
  <2> QED
    BY <1>3, <1>6, <2>1, Disowns, Zenon DEF Tracers
<1>7. StepsInv'
  <2>1. walk' = walk /\ (Alive' <=> Alive)
    BY <1>5, <1>6
  <2>2. poisoned' => ~Alive'
    BY <1>2, <1>3, <2>1 DEF StepsInv
  <2>3. ~MmioActive' /\ walk'.by # Main /\ walk'.by # Mmio /\ ~spawnFailed' /\ ipc' = "none"
    BY <1>3, <1>4, <2>1, Zenon DEF MmioActive
  <2>4. mode' # "ioregion"
    BY <1>2, <1>3, Zenon DEF StepsInv
  <2> QED
    BY <1>3, <2>2, <2>3, <2>4, Zenon DEF StepsInv, BeforeMmio, AfterStage1
<1>8. ASSUME Alive' PROVE ProcInv' /\ ResInv'
  <2>1. Alive
    BY <1>5, <1>8
  <2>2. /\ ipc' \notin Wrapped \cup {"stuck", "wrap", "adopt"}
        /\ text' = "orig" /\ ~wrapper'.some
    BY <1>3, <1>4, <1>6, <2>1, Zenon DEF Wrapped
  <2>5. ResInv'
    BY <1>2, <1>3, <2>1 DEF ResInv
  <2>3. CASE proc'.held
    <3>1. proc'.some /\ proc'.owner = Nobody /\ Leader \in proc'.threads
      BY <1>6, <2>1, <2>3, Zenon
    <3>2. mpc' = "spawn"
      <4>1. proc.owner = Main /\ proc # proc'
        BY <1>6, <2>1, <3>1
      <4>2. ~DisownErr(Main)
        <5> SUFFICES ASSUME DisownErr(Main) PROVE FALSE
          OBVIOUS
        <5>1. proc' = [proc EXCEPT !.held = FALSE, !.threads = {}]
          BY <4>1, Zenon DEF DisownErr, traceVars
        <5>2. proc'.owner = proc.owner
          BY <5>1, SMT DEF Inv, TypeOK, TraceTypeOK
        <5> QED
          BY <3>1, <4>1, <5>2
      <4> QED
        BY <1>3, <4>2, Zenon
    <3> QED
      BY <1>3, <2>2, <2>3, <2>5, <3>1, <3>2, Zenon DEF ProcInv, MainOwns, Serving
  <2>4. CASE ~proc'.held
    <3>1. deadKept /\ proc'.some /\ proc'.owner = Main /\ proc'.threads = {}
      BY <1>6, <2>1, <2>4, Zenon
    <3>2. mpc' = "unwind"
      BY <1>3, <1>6, <2>1, <2>4, Zenon
    <3>3. Lost'
      BY <1>3, <2>4, <3>1, <3>2, Zenon DEF Lost
    <3> QED
      BY <1>3, <1>4, <2>2, <2>4, <2>5, <3>1, <3>2, <3>3, Zenon DEF ProcInv, MainOwns, Serving
  <2> QED
    BY <2>3, <2>4
<1> QED
  BY <1>1, <1>5, <1>6, <1>7, <1>8 DEF Inv, DeadInv

(* The mmio thread is started. *)
LEMMA MainSpawnMmioKeeps == Inv /\ MainSpawnMmio => Inv'
<1> SUFFICES ASSUME Inv, MainSpawnMmio PROVE Inv'
  OBVIOUS
<1>1. TypeOK'
  BY TypeStep DEF Inv, Next, MainNext
<1>2. /\ TraceTypeOK /\ StepsInv /\ DeadInv
      /\ Alive => ProcInv /\ LoopInv /\ TracerInv /\ LeaderInv /\ ResInv
  BY DEF Inv, TypeOK
<1>3. StepsInv'
  BY <1>2 DEF Alive, StepsInv, MmioActive, Serving, BeforeMmio, AfterStage1,
         MainSpawnMmio, MainTo, KeepsThreads, traceVars
<1>4. Alive' => ProcInv'
  <2> SUFFICES ASSUME Alive' PROVE ProcInv'
    OBVIOUS
  <2>1. /\ mpc = "spawn" /\ s1' = s1 /\ mode' = mode /\ deadKept' = deadKept
        /\ text' = text /\ proc' = proc /\ wrapper' = wrapper /\ life' = life
        /\ \/ mpc' = "wait" /\ ipc' = "adopt"
           \/ mpc' = "unwind" /\ ipc' = ipc /\ spawnFailed'
    BY Zenon DEF MainSpawnMmio, MainTo, KeepsThreads, traceVars
  <2>2. ProcInv /\ ipc = "none" /\ mode # "ioregion"
    BY <1>2, <2>1, Zenon DEF StepsInv, BeforeMmio, Alive
  <2>3. /\ proc.owner = Nobody /\ proc.some /\ proc.held /\ Leader \in proc.threads
        /\ text # "patched" /\ ~wrapper.some
    <3>1. proc.some /\ proc.held /\ proc.owner # Main /\ proc.owner # Mmio
      BY <2>1, <2>2, Zenon DEF ProcInv, MainOwns
    <3>2. proc.owner = Nobody
      BY <1>2, <3>1 DEF TraceTypeOK, Tracers
    <3>3. ~spawnFailed
      BY <1>2, <2>1, Zenon DEF StepsInv
    <3> QED
      BY <2>1, <2>2, <3>1, <3>2, <3>3, Zenon DEF ProcInv, Lost, Wrapped
  <2>4. ipc' \notin Wrapped \cup {"stuck", "wrap"}
    BY <2>1, <2>2, Zenon DEF Wrapped
  <2> QED
    BY <2>1, <2>2, <2>3, <2>4, TracersAssumption, Zenon DEF ProcInv, MainOwns, Serving
<1>5. DeadInv' /\ (Alive' <=> Alive) /\ (Alive' => LoopInv' /\ TracerInv' /\ LeaderInv')
  <2>1. ipc = "none"
    BY <1>2, Zenon DEF MainSpawnMmio, StepsInv, BeforeMmio
  <2>2. ipc' = ipc \/ ipc' = "adopt"
    BY Zenon DEF MainSpawnMmio, MainTo
  <2>3. UNCHANGED traceVars /\ deadKept' = deadKept
    BY Zenon DEF MainSpawnMmio
  <2> QED
    BY <2>1, <2>2, <2>3, Untraced, Zenon
<1>6. Alive' => ResInv'
  BY <1>2 DEF Alive, ResInv, MainSpawnMmio, MainTo, KeepsThreads, traceVars, NoFaultHistory
<1> QED
  BY <1>1, <1>3, <1>4, <1>5, <1>6 DEF Inv

(* main waits for the device, a message, and stage1. *)
LEMMA MainWaitKeeps == Inv /\ MainWait => Inv'
<1> SUFFICES ASSUME Inv, MainWait PROVE Inv'
  OBVIOUS
<1>1. TypeOK'
  BY TypeStep DEF Inv, Next, MainNext
<1>2. /\ TraceTypeOK /\ StepsInv /\ DeadInv
      /\ Alive => ProcInv /\ LoopInv /\ TracerInv /\ LeaderInv /\ ResInv
  BY DEF Inv, TypeOK
<1>3. StepsInv'
  BY <1>2 DEF Alive, StepsInv, MmioActive, Serving, BeforeMmio, AfterStage1, MainWait,
         MainTo, NoFaultHistory, traceVars
<1>4. Alive' => ProcInv'
  BY <1>2 DEF Alive, ProcInv, Serving, MainOwns, MainWait, MainTo, traceVars, Lost, Caught, DeadThread, NoFaultHistory
<1>5. DeadInv' /\ (Alive' <=> Alive) /\ (Alive' => LoopInv' /\ TracerInv' /\ LeaderInv')
  BY Untraced, Zenon DEF MainWait, MainTo, NoFaultHistory
<1>6. Alive' => ResInv'
  BY <1>2 DEF Alive, ResInv, MainWait, MainTo, NoFaultHistory, traceVars
<1> QED
  BY <1>1, <1>3, <1>4, <1>5, <1>6 DEF Inv

(* terminate() begins. *)
LEMMA MainTerminateKeeps == Inv /\ MainTerminate => Inv'
<1> SUFFICES ASSUME Inv, MainTerminate PROVE Inv'
  OBVIOUS
<1>1. TypeOK'
  BY TypeStep DEF Inv, Next, MainNext
<1>2. /\ TraceTypeOK /\ StepsInv /\ DeadInv
      /\ Alive => ProcInv /\ LoopInv /\ TracerInv /\ LeaderInv /\ ResInv
  BY DEF Inv, TypeOK
<1>3. StepsInv'
  BY <1>2 DEF Alive, StepsInv, MmioActive, Serving, BeforeMmio, AfterStage1,
         MainTerminate, MainTo, NoFaultHistory, traceVars
<1>4. Alive' => ProcInv'
  BY <1>2 DEF Alive, ProcInv, Serving, MainOwns, Wrapped, MainTerminate, MainTo,
         traceVars, Lost, Caught, DeadThread, NoFaultHistory
<1>5. DeadInv' /\ (Alive' <=> Alive) /\ (Alive' => LoopInv' /\ TracerInv' /\ LeaderInv')
  BY Untraced, Zenon DEF MainTerminate, MainTo, NoFaultHistory
<1>6. Alive' => ResInv'
  BY <1>2 DEF Alive, StepsInv, ResInv, MainTerminate, MainTo, traceVars, NoFaultHistory
<1> QED
  BY <1>1, <1>3, <1>4, <1>5, <1>6 DEF Inv

(* terminate() returns; shutdown(). *)
LEMMA MainSpinKeeps == Inv /\ MainSpin => Inv'
<1> SUFFICES ASSUME Inv, MainSpin PROVE Inv'
  OBVIOUS
<1>1. TypeOK'
  BY TypeStep DEF Inv, Next, MainNext
<1>2. /\ TraceTypeOK /\ StepsInv /\ DeadInv
      /\ Alive => ProcInv /\ LoopInv /\ TracerInv /\ LeaderInv /\ ResInv
  BY DEF Inv, TypeOK
<1>3. StepsInv'
  BY <1>2 DEF Alive, StepsInv, MmioActive, Serving, BeforeMmio, AfterStage1,
         MainSpin, MainTo, NoFaultHistory, traceVars
<1>4. Alive' => ProcInv'
  BY <1>2 DEF Alive, ProcInv, Serving, MainOwns, Wrapped, MainSpin, MainTo,
         traceVars, Lost, Caught, DeadThread, NoFaultHistory
<1>5. DeadInv' /\ (Alive' <=> Alive) /\ (Alive' => LoopInv' /\ TracerInv' /\ LeaderInv')
  BY Untraced, Zenon DEF MainSpin, MainTo, NoFaultHistory
<1>6. Alive' => ResInv'
  BY <1>2 DEF Alive, StepsInv, ResInv, MainSpin, MainTo, traceVars, NoFaultHistory
<1> QED
  BY <1>1, <1>3, <1>4, <1>5, <1>6 DEF Inv

(* The mmio thread is joined. *)
LEMMA MainJoinKeeps == Inv /\ MainJoin => Inv'
<1> SUFFICES ASSUME Inv, MainJoin PROVE Inv'
  OBVIOUS
<1>1. TypeOK'
  BY TypeStep DEF Inv, Next, MainNext
<1>2. /\ TraceTypeOK /\ StepsInv /\ DeadInv
      /\ Alive => ProcInv /\ LoopInv /\ TracerInv /\ LeaderInv /\ ResInv
  BY DEF Inv, TypeOK
<1>3. StepsInv'
  BY <1>2 DEF Alive, StepsInv, MmioActive, BeforeMmio, AfterStage1, MainJoin, MainTo,
         NoFaultHistory, traceVars
<1>4. Alive' => ProcInv'
  BY <1>2 DEF Alive, ProcInv, Serving, MainOwns, Wrapped, MainJoin, MainTo,
         KeepsThreads, traceVars, Lost, Caught, DeadThread, NoFaultHistory
<1>5. DeadInv' /\ (Alive' <=> Alive) /\ (Alive' => LoopInv' /\ TracerInv' /\ LeaderInv')
  BY Untraced, Zenon DEF MainJoin, MainTo, NoFaultHistory
<1>6. Alive' => ResInv'
  BY <1>2 DEF Alive, ResInv, MainJoin, MainTo, KeepsThreads, NoFaultHistory, traceVars
<1> QED
  BY <1>1, <1>3, <1>4, <1>5, <1>6 DEF Inv

(* finish_thread_transfer in main. *)
LEMMA MainAdoptKeeps == Inv /\ MainAdopt => Inv'
<1> SUFFICES ASSUME Inv, MainAdopt PROVE Inv'
  OBVIOUS
<1> USE ThreadsAssumption, TracersAssumption
<1>1. TypeOK'
  BY TypeStep DEF Inv, Next, MainNext
<1>2. /\ TraceTypeOK /\ mode \in {"wrap", "ioregion"} /\ res \subseteq Objects
      /\ StepsInv /\ DeadInv
      /\ Alive => ProcInv /\ LoopInv /\ TracerInv /\ LeaderInv /\ ResInv
  BY DEF Inv, TypeOK, ThreadTypeOK
<1>3. StepsInv'
  BY <1>2 DEF Alive, StepsInv, MmioActive, Serving, BeforeMmio, AfterStage1, MainAdopt,
         StartWalk, MainTo, KeepsThreads, NoFaultHistory, traceVars
<1>4. DeadInv'
  BY <1>2 DEF Alive, DeadInv, MainAdopt, StartWalk, traceVars
<1>5. Alive' => ProcInv'
  BY <1>2 DEF Alive, HvThreads, Tracers, TraceTypeOK, StepsInv, ProcInv, MmioActive,
         Serving, MainOwns, BeforeMmio, AfterStage1, MainAdopt, StartWalk, MainTo,
         traceVars, Lost, Caught, DeadThread, NoFaultHistory
<1>6. Alive' => LoopInv' /\ TracerInv' /\ LeaderInv'
  <2>1. mpc = "adopt" /\ walk.by = Nobody /\ ipc' = ipc /\ deadKept' = deadKept
    BY Zenon DEF MainAdopt, MainTo, NoFaultHistory
  <2>2. CASE UNCHANGED traceVars
    BY <2>1, <2>2, Untraced, Zenon
  <2>3. CASE proc.owner = Nobody /\ proc.held /\ StartWalk(Main, proc.threads)
    <3>1. Alive' => Alive
      BY <2>3, Zenon DEF StartWalk, Alive
    <3>2. Alive => Leader \in proc.threads
      BY <1>2, <2>1, <2>3, Zenon DEF ProcInv, Lost
    <3>3. 0 \notin proc.threads
      BY <1>2 DEF TraceTypeOK, HvThreads
    <3> QED
      BY <2>1, <2>3, <3>1, <3>2, <3>3, WalkStarts, Zenon DEF Tracers
  <2>4. CASE proc.owner = Nobody /\ ~proc.held /\ UNCHANGED <<life, tracer, text, wrapper, walk>>
    <3>1. Alive' => Alive
      BY <2>4, Zenon DEF Alive
    <3>2. ~Alive
      BY <1>2, <2>1, <2>4, Zenon DEF ProcInv, Lost
    <3> QED
      BY <3>1, <3>2
  <2> QED
    BY <2>2, <2>3, <2>4, Zenon DEF MainAdopt
<1>9. Alive' => ResInv'
  BY <1>2 DEF Alive, ResInv, MainAdopt, StartWalk, MainTo, KeepsThreads, NoFaultHistory,
         traceVars
<1> QED
  BY <1>1, <1>3, <1>4, <1>5, <1>6, <1>9 DEF Inv

(* main owns the hypervisor again. *)
LEMMA MainAdoptedKeeps == Inv /\ MainAdopted => Inv'
<1> SUFFICES ASSUME Inv, MainAdopted PROVE Inv'
  OBVIOUS
<1> USE ThreadsAssumption, TracersAssumption
<1>1. TypeOK'
  BY TypeStep DEF Inv, Next, MainNext
<1>2. /\ TraceTypeOK /\ mode \in {"wrap", "ioregion"} /\ res \subseteq Objects
      /\ StepsInv /\ DeadInv
      /\ Alive => ProcInv /\ LoopInv /\ TracerInv /\ LeaderInv /\ ResInv
  BY DEF Inv, TypeOK, ThreadTypeOK
<1>3. StepsInv'
  BY <1>2 DEF Alive, StepsInv, MmioActive, Serving, BeforeMmio, AfterStage1,
         MainAdopted, InitPatch, WalkDone, NoWalk, MainTo, NoFaultHistory
<1>4. DeadInv'
  BY <1>2 DEF Alive, DeadInv, MainAdopted, InitPatch
<1>5. ASSUME Alive' PROVE ProcInv' /\ LoopInv' /\ TracerInv' /\ LeaderInv'
  <2>1. /\ InitPatch(Main) /\ ipc' = ipc /\ deadKept' = deadKept /\ s1' = s1 /\ mode' = mode
        /\ mpc = "adopt" /\ mpc' = "drop1"
    BY Zenon DEF MainAdopted, MainTo, KeepsThreads, NoFaultHistory
  <2>2. Alive
    BY <1>5, <2>1, Zenon DEF InitPatch, Alive
  <2>3. /\ text' = "patched" /\ wrapper' = wrapper
        /\ proc'.some /\ proc'.held /\ proc'.owner = Main /\ proc'.saved = "orig"
        /\ Leader \in proc'.threads /\ \A t \in proc'.threads : Caught(Main, t)'
        /\ LoopInv' /\ TracerInv' /\ LeaderInv'
    BY <2>1, <2>2, Patches, Zenon DEF Tracers
  <2>4. /\ ipc' \notin Wrapped \cup {"stuck", "wrap", "adopt"}
        /\ wrapper.some <=> ipc \in Wrapped \cup {"stuck"}
    BY <1>2, <2>1, <2>2, Zenon DEF StepsInv, MmioActive, Serving, Wrapped, ProcInv
  <2>5. ProcInv'
    BY <2>1, <2>3, <2>4, Zenon DEF ProcInv, MainOwns, Serving
  <2> QED
    BY <2>3, <2>5
<1>9. Alive' => ResInv'
  BY <1>2 DEF Alive, ResInv, Objects, MainAdopted, InitPatch, WalkDone, Reachable,
         Patched, MainTo, KeepsThreads, NoFaultHistory
<1> QED
  BY <1>1, <1>3, <1>4, <1>5, <1>9 DEF Inv

(* adopt fails in main, which happens only when the leader is gone. *)
LEMMA MainAdoptFailsKeeps == Inv /\ MainAdoptFails => Inv'
<1> SUFFICES ASSUME Inv, MainAdoptFails PROVE Inv'
  OBVIOUS
<1> USE TracersAssumption
<1>1. TypeOK'
  BY TypeStep, Zenon DEF Inv, Next, MainNext
<1>2. StepsInv /\ DeadInv /\ (Alive => LoopInv)
  BY Zenon DEF Inv
<1>3. /\ mpc = "adopt" /\ mpc' = "unwind" /\ ipc' = ipc /\ mode' = mode
      /\ WalkDone(Main) /\ (InitPanics \/ InitFails(Main))
      /\ DetachAll(Reachable(Main, walk.got)) /\ walk' = NoWalk /\ spawnFailed' = spawnFailed
  BY Zenon DEF MainAdoptFails, AdoptAbort, MainTo, KeepsThreads
<1>4. ~Alive
  BY <1>3, AbortMeansDead, Zenon DEF Tracers
<1>5. DeadInv' /\ ~Alive'
  BY <1>2, <1>3, <1>4, DetachDead, Zenon
<1>6. StepsInv'
  <2>1. walk'.by = Nobody
    BY <1>3 DEF NoWalk
  <2>2. ~MmioActive
    BY <1>2, <1>3, Zenon DEF StepsInv, Serving
  <2>3. ~MmioActive'
    BY <1>3, <2>2, Zenon DEF MmioActive
  <2> QED
    BY <1>3, <1>5, <2>1, <2>3, Zenon DEF StepsInv, BeforeMmio, AfterStage1
<1> QED
  BY <1>1, <1>5, <1>6, Zenon DEF Inv

(* main owns the hypervisor, so its destructors can inject. *)
LEMMA MainDropKeeps == Inv /\ MainDrop => Inv'
<1> SUFFICES ASSUME Inv, MainDrop PROVE Inv'
  OBVIOUS
<1> USE ThreadsAssumption, TracersAssumption
<1>1. TypeOK'
  BY TypeStep DEF Inv, Next, MainNext
<1>2. /\ TraceTypeOK /\ mode \in {"wrap", "ioregion"} /\ res \subseteq Objects
      /\ StepsInv /\ DeadInv
      /\ Alive => ProcInv /\ LoopInv /\ TracerInv /\ LeaderInv /\ ResInv
  BY DEF Inv, TypeOK, ThreadTypeOK
<1>3. ASSUME Drops("stage1", "drop1", "drop2")
     PROVE  Inv'
  <2>1. StepsInv'
    BY <1>2, <1>3 DEF Alive, StepsInv, MmioActive, Serving, BeforeMmio, AfterStage1,
           Drops, MainTo, NoFaultHistory, traceVars
  <2>2. DeadInv' /\ (Alive' <=> Alive) /\ (Alive' => LoopInv' /\ TracerInv' /\ LeaderInv')
    BY <1>3, Untraced, Zenon DEF Drops, MainTo, NoFaultHistory
  <2>3. Alive' => ProcInv'
    BY <1>2, <1>3 DEF Alive, ProcInv, Serving, MainOwns, Wrapped, Stops, Drops, MainTo,
           traceVars, Lost, Caught, DeadThread, NoFaultHistory
  <2>7. Alive' => ResInv'
    BY <1>2, <1>3 DEF Alive, ProcInv, ResInv, Objects, MainOwns, Serving, Stops, Drops,
           CanInject, Reachable, MainTo, NoFaultHistory, traceVars, Lost, Caught, DeadThread
  <2> QED
    BY <1>1, <2>1, <2>2, <2>3, <2>7 DEF Inv
<1>4. ASSUME Drops("devices", "drop2", "drop3")
     PROVE  Inv'
  <2>1. StepsInv'
    BY <1>2, <1>4 DEF Alive, StepsInv, MmioActive, Serving, BeforeMmio, AfterStage1,
           Drops, MainTo, NoFaultHistory, traceVars
  <2>2. DeadInv' /\ (Alive' <=> Alive) /\ (Alive' => LoopInv' /\ TracerInv' /\ LeaderInv')
    BY <1>4, Untraced, Zenon DEF Drops, MainTo, NoFaultHistory
  <2>3. Alive' => ProcInv'
    BY <1>2, <1>4 DEF Alive, HvThreads, Leader, Tracers, TraceTypeOK, StepsInv, DeadInv,
           ProcInv, LoopInv, TracerInv, LeaderInv, MmioActive, Serving, MainOwns,
           Wrapped, Drops, MainTo, traceVars, Lost, Caught, DeadThread, NoFaultHistory
  <2>7. Alive' => ResInv'
    BY <1>2, <1>4 DEF Alive, ProcInv, ResInv, Objects, MainOwns, Serving, Wrapped,
           Stops, Drops, CanInject, Reachable, MainTo, NoFaultHistory, traceVars, Lost, Caught, DeadThread
  <2> QED
    BY <1>1, <2>1, <2>2, <2>3, <2>7 DEF Inv
<1>5. ASSUME Drops("sockets", "drop3", "resume")
     PROVE  Inv'
  <2>1. StepsInv'
    BY <1>2, <1>5 DEF Alive, StepsInv, MmioActive, Serving, BeforeMmio, AfterStage1,
           Drops, Reachable, MainTo, NoFaultHistory, traceVars
  <2>2. DeadInv' /\ (Alive' <=> Alive) /\ (Alive' => LoopInv' /\ TracerInv' /\ LeaderInv')
    BY <1>5, Untraced, Zenon DEF Drops, MainTo, NoFaultHistory
  <2>3. Alive' => ProcInv'
    BY <1>2, <1>5 DEF Alive, ProcInv, Serving, MainOwns, Wrapped, Stops, Drops,
           CanInject, Reachable, MainTo, traceVars, Lost, Caught, DeadThread, NoFaultHistory
  <2>7. Alive' => ResInv'
    BY <1>2, <1>5 DEF Alive, ProcInv, ResInv, Objects, MainOwns, Serving, Wrapped,
           Stops, Drops, CanInject, Reachable, traceVars, Lost, Caught, DeadThread, NoFaultHistory
  <2> QED
    BY <1>1, <2>1, <2>2, <2>3, <2>7 DEF Inv
<1> QED
  BY <1>3, <1>4, <1>5 DEF MainDrop

(* vm.resume(): the Process goes, and all is back as it was. *)
LEMMA MainResumeKeeps == Inv /\ MainResume => Inv'
<1> SUFFICES ASSUME Inv, MainResume PROVE Inv'
  OBVIOUS
<1> USE ThreadsAssumption, TracersAssumption
<1>1. TypeOK'
  BY TypeStep DEF Inv, Next, MainNext
<1>2. /\ TraceTypeOK /\ mode \in {"wrap", "ioregion"} /\ res \subseteq Objects
      /\ StepsInv /\ DeadInv
      /\ Alive => ProcInv /\ LoopInv /\ TracerInv /\ LeaderInv /\ ResInv
  BY DEF Inv, TypeOK, ThreadTypeOK
<1>3. StepsInv'
  <2>1. /\ mpc = "resume" /\ mpc' = "done" /\ ipc' = ipc /\ mode' = mode
        /\ DetachAll(Reachable(Main, proc.threads)) /\ walk' = walk
        /\ poisoned' = poisoned
    BY Zenon DEF MainResume, DropProcess, MainTo, KeepsThreads, NoFaultHistory
  <2>2. ~MmioActive /\ walk.by # Main /\ walk.by # Mmio /\ (poisoned => ~Alive)
    BY <1>2, <2>1, Zenon DEF StepsInv, Serving, MmioActive
  <2>3. ~MmioActive' /\ (poisoned' => ~Alive')
    BY <2>1, <2>2, DetachAlive, Zenon DEF MmioActive
  <2> QED
    BY <2>1, <2>2, <2>3, Zenon DEF StepsInv, BeforeMmio, AfterStage1
<1>4. DeadInv'
  <2>1. DetachAll(Reachable(Main, proc.threads))
    BY Zenon DEF MainResume, DropProcess
  <2> QED
    BY <1>2, <2>1, DetachAlive, DetachDead, Zenon DEF DeadInv
<1>5. Alive' => ProcInv' /\ TracerInv'
  <2> SUFFICES ASSUME Alive'
               PROVE  ProcInv' /\ TracerInv'
    OBVIOUS
  <2>1. DropProcess(Main) /\ mpc = "resume" /\ mpc' = "done" /\ ipc' = ipc
    BY Zenon DEF MainResume, MainTo
  <2>2. mpc \in MainOwns
    BY <2>1, Zenon DEF MainOwns
  <2>3. /\ Alive /\ text' = "orig" /\ proc' = NoProc /\ wrapper' = wrapper
        /\ TracerInv'
    BY <2>1, <2>2, MainDrops, Zenon
  <2>4. ~MmioActive /\ (wrapper.some <=> ipc \in Wrapped \cup {"stuck"})
    BY <1>2, <2>1, <2>3, Zenon DEF StepsInv, Serving, ProcInv, Lost, Caught, DeadThread, NoFaultHistory
  <2>5. proc'.owner = Nobody /\ proc'.some = FALSE
    BY <2>3, Zenon DEF NoProc
  <2>6. ipc' \notin Wrapped \cup {"stuck", "wrap", "adopt"}
    BY <2>1, <2>4, Zenon DEF MmioActive, Wrapped
  <2> QED
    BY <2>1, <2>3, <2>4, <2>5, <2>6, TracersAssumption, Zenon DEF ProcInv, MainOwns, Serving, Lost, Caught, DeadThread, NoFaultHistory
<1>6. Alive' => LoopInv' /\ LeaderInv'
  BY MainDrops, Zenon DEF MainResume, MainTo, MainOwns
<1>9. Alive' => ResInv'
  <2> SUFFICES ASSUME Alive'
               PROVE  ResInv'
    OBVIOUS
  <2>1. /\ DropProcess(Main) /\ mpc = "resume" /\ mpc' = "done" /\ ipc' = ipc
        /\ res' = res /\ objs' = objs /\ spawnFailed' = spawnFailed
    BY Zenon DEF MainResume, MainTo, KeepsThreads, NoFaultHistory
  <2>2. Alive
    BY <2>1, MainDrops, Zenon DEF MainOwns
  <2> QED
    BY <1>2, <2>1, <2>2, Zenon DEF ResInv, NoFaultHistory
<1> QED
  BY <1>1, <1>3, <1>4, <1>5, <1>6, <1>9 DEF Inv

(* Every other way out: with the hypervisor alive and no failed thread     *)
(* creation, main is the owner.                                            *)
LEMMA MainUnwindKeeps == Inv /\ MainUnwind => Inv'
<1> SUFFICES ASSUME Inv, MainUnwind PROVE Inv'
  OBVIOUS
<1> USE ThreadsAssumption, TracersAssumption
<1>1. TypeOK'
  BY TypeStep DEF Inv, Next, MainNext
<1>2. /\ TraceTypeOK /\ mode \in {"wrap", "ioregion"} /\ res \subseteq Objects
      /\ StepsInv /\ DeadInv
      /\ Alive => ProcInv /\ LoopInv /\ TracerInv /\ LeaderInv /\ ResInv
  BY DEF Inv, TypeOK, ThreadTypeOK
<1>4. DeadInv' /\ (Alive' => Alive)
  <2>1. /\ life' = [t \in HvThreads |->
                      IF tracer[t] \in Tracers /\ life[t] \in Stops THEN "running"
                      ELSE IF tracer[t] \in Tracers /\ life[t] = "zombie" THEN "gone"
                      ELSE life[t]]
        /\ tracer' = [t \in HvThreads |-> IF tracer[t] \in Tracers THEN Nobody ELSE tracer[t]]
    BY Zenon DEF MainUnwind, TracerExit
  <2>2. Leader \in HvThreads
    BY DEF Leader, HvThreads
  <2>3. CASE Alive
    <3>1. life[Leader] # "zombie" /\ life[Leader] # "gone"
      BY <1>2, <2>3, Zenon DEF LeaderInv, Alive
    <3>2. life'[Leader] # "gone"
      BY <2>1, <2>2, <3>1, Zenon
    <3> QED
      BY <2>3, <3>2, Zenon DEF DeadInv, Alive
  <2>4. CASE ~Alive
    <3>1. \A t \in HvThreads : life[t] = "gone" /\ tracer[t] \notin Tracers /\ tracer[t] = Nobody
      BY <1>2, <2>4 DEF DeadInv, Tracers
    <3>2. \A t \in HvThreads : life'[t] = "gone" /\ tracer'[t] = Nobody
      BY <2>1, <3>1, Zenon
    <3> QED
      BY <2>2, <3>2, Zenon DEF DeadInv, Alive
  <2> QED
    BY <2>3, <2>4, Zenon
<1>3. StepsInv'
  <2>1. /\ mpc' = "done" /\ ipc' = "exited" /\ s1' = "exited" /\ walk' = NoWalk
        /\ poisoned' = poisoned
    BY Zenon DEF MainUnwind, NoFaultHistory
  <2>2. walk'.by = Nobody
    BY <2>1, Zenon DEF NoWalk
  <2>3. poisoned' => ~Alive'
    BY <1>2, <1>4, <2>1, Zenon DEF StepsInv
  <2> QED
    BY <2>1, <2>2, <2>3, Zenon DEF StepsInv, MmioActive, Serving, BeforeMmio, AfterStage1
<1>5. Alive' => ProcInv'
  <2> SUFFICES ASSUME Alive'
               PROVE  ProcInv'
    OBVIOUS
  <2>1. Alive /\ StepsInv /\ ProcInv
    BY <1>2, <1>4, Zenon
  <2>2. /\ mpc = "unwind" /\ mpc' = "done" /\ ipc' = "exited" /\ s1' = "exited" /\ spawnFailed' = spawnFailed
        /\ proc' = NoProc /\ wrapper' = NoWrapper
        /\ text' = IF LastReference THEN Restored(Main) ELSE text
    BY Zenon DEF MainUnwind, NoFaultHistory
  <2>3. /\ proc'.owner = Nobody /\ proc'.some = FALSE /\ proc'.threads = {} /\ wrapper'.some = FALSE
    BY <2>2, Zenon DEF NoProc, NoWrapper
  <2>4. ASSUME ~spawnFailed
        PROVE  text' # "patched"
    <3>1. CASE proc.owner = Main /\ proc.held /\ s1 # "run"
      <4>1. ~MmioActive
        BY <2>1, <2>2, Zenon DEF StepsInv, Serving
      <4>2. LastReference
        BY <3>1, <4>1, Zenon DEF LastReference, MmioActive
      <4>3. Restored(Main) = "orig"
        BY <2>1, <3>1, OwnerInjects, Zenon DEF Tracers
      <4> QED
        BY <2>2, <4>2, <4>3, Zenon
    <3>2. CASE ~proc.held
      <4>1. text # "patched" /\ Restored(Main) = text
        BY <2>1, <2>4, <3>2, Zenon DEF ProcInv, Restored
      <4> QED
        BY <2>2, <4>1, Zenon
    <3> QED
      BY <2>1, <2>2, <2>4, <3>1, <3>2, Zenon DEF ProcInv, Lost
  <2>5. Main # Nobody /\ Mmio # Nobody
    BY TracersAssumption, Zenon
  <2> QED
    BY <2>2, <2>3, <2>4, <2>5, Zenon DEF ProcInv, MainOwns, Serving, Wrapped, Lost, Caught, DeadThread, NoFaultHistory
<1>6. Alive' => LoopInv'
  <2>1. walk'.by = Nobody /\ walk'.at = 0 /\ ipc' = "exited"
    BY Zenon DEF MainUnwind, NoWalk
  <2> QED
    BY <2>1, Zenon DEF LoopInv, Wrapped
<1>7. Alive' => TracerInv' /\ LeaderInv'
  <2> SUFFICES ASSUME Alive'
               PROVE  TracerInv' /\ LeaderInv'
    OBVIOUS
  <2>1. Alive /\ TracerInv /\ LeaderInv
    BY <1>2, <1>4, Zenon
  <2>2. /\ life' = [t \in HvThreads |->
                      IF tracer[t] \in Tracers /\ life[t] \in Stops THEN "running"
                      ELSE IF tracer[t] \in Tracers /\ life[t] = "zombie" THEN "gone"
                      ELSE life[t]]
        /\ tracer' = [t \in HvThreads |-> IF tracer[t] \in Tracers THEN Nobody ELSE tracer[t]]
    BY Zenon DEF MainUnwind, TracerExit
  <2>3. ASSUME NEW t \in HvThreads
        PROVE  tracer'[t] = Nobody /\ life'[t] \notin Stops \cup {"zombie"}
    <3>1. CASE tracer[t] \in Tracers
      BY <2>2, <3>1, Zenon DEF Stops
    <3>2. CASE tracer[t] \notin Tracers
      <4>1. tracer[t] = Nobody
        BY <1>2, <3>2 DEF TraceTypeOK
      <4>2. life[t] \notin Stops \cup {"zombie"}
        BY <2>1, <4>1, Zenon DEF TracerInv
      <4> QED
        BY <2>2, <3>2, <4>1, <4>2, Zenon
    <3> QED
      BY <3>1, <3>2, Zenon
  <2>4. TracerInv'
    BY <2>3, TracersAssumption, Zenon DEF TracerInv
  <2>5. LeaderInv'
    <3>1. Leader \in HvThreads
      BY DEF Leader, HvThreads
    <3>2. life'[Leader] # "zombie" /\ life[Leader] # "unborn" /\ life[Leader] # "zombie"
      BY <2>1, <2>3, <3>1, Zenon DEF LeaderInv
    <3>3. life'[Leader] # "unborn"
      BY <2>2, <3>1, <3>2, Zenon
    <3> QED
      BY <3>2, <3>3, Zenon DEF LeaderInv
  <2> QED
    BY <2>4, <2>5, Zenon
<1>9. Alive' => ResInv'
  <2>1. Alive' => Alive
    BY <1>4, Zenon
  <2>2. ASSUME Alive, ~spawnFailed, ~deadKept
        PROVE  CanInject(Main) /\ ~poisoned /\ res \subseteq objs
    <3>1. ~poisoned /\ res \subseteq objs /\ mpc = "unwind"
      BY <1>2, <2>2, Zenon DEF MainUnwind, StepsInv, ResInv
    <3>2. proc.owner = Main /\ proc.held
      BY <1>2, <2>2, <3>1, Zenon DEF ProcInv, Lost
    <3> QED
      BY <2>2, <3>1, <3>2, OwnerInjects, Zenon DEF Tracers
  <2>3. Alive /\ ~spawnFailed /\ ~deadKept => res' = {}
    BY <2>2 DEF MainUnwind
  <2> QED
    BY <2>1, <2>3 DEF MainUnwind, ResInv, NoFaultHistory
<1> QED
  BY <1>1, <1>3, <1>4, <1>5, <1>6, <1>7, <1>9, Zenon DEF Inv

=============================================================================
