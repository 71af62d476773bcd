------------------------- MODULE VirtioDevicesProofs -------------------------
(***************************************************************************)
(* For any bounds, any requests and both devices: no chain is left behind, *)
(* no interrupt is forgotten, no access leaves the disk, the server does   *)
(* not panic while the event thread runs, a device that was reset writes   *)
(* nothing more, and the block device implements BlockIO.                  *)
(***************************************************************************)
EXTENDS VirtioDevices, TLAPS

(* The parts of the type that the arguments use. *)
RingType ==
    /\ avail \in [Queues -> Nat] /\ next \in [Queues -> Nat] /\ used \in [Queues -> Nat]
    /\ seen \in [Queues -> Nat] /\ availEvent \in [Queues -> Nat] /\ usedEvent \in [Queues -> Nat]

KickType == kick \in [Queues -> {"none", "test", "write"}] /\ DOMAIN efd = Queues

LifeType ==
    /\ drv \in [Devices -> {"absent", "new", "probed", "ok", "down"}]
    /\ DOMAIN activated = Devices /\ DOMAIN taken = Devices /\ DOMAIN sub = Devices
    /\ DOMAIN status = Devices

BusType ==
    /\ bus \in Devices \cup {"free", "exited", "panicked"}
    /\ call \in {"none", "add", "remove", "done"}

EvType == listen \subseteq Queues /\ ev \in EvSteps /\ evq \in Queues \cup {NoQueue}

IsrType ==
    isr \in [todo: SUBSET Devices, dev: Devices \cup {"none"},
             pc: {"idle", "next", "ack", "harvest", "arm"}]

TypeInv == RingType /\ KickType /\ LifeType /\ BusType /\ EvType /\ IsrType

(* Each ring is in order; a chain that was taken is still to be returned.  *)
RingInv ==
    \A q \in Queues :
        /\ seen[q] <= used[q] /\ used[q] <= next[q] /\ next[q] <= avail[q]
        /\ ev = "used" /\ evq = q => used[q] < next[q]

(* What the event thread's step says of its queue. *)
StepInv ==
    /\ ev = "poll" => evq = NoQueue
    /\ ev = "read" => evq = "rx"

(* What the server's calls find. *)
CallInv ==
    /\ call \in {"add", "remove", "done"} =>
          bus \in Devices /\ drv[bus] \in {"probed", "ok"} /\ (activated[bus] <=> drv[bus] = "ok")
    /\ call = "add" => drv[bus] = "probed"
    /\ call = "remove" => drv[bus] = "ok"
    /\ bus = "panicked" => EventThreadEnded

(* Where a device's queues are, and for whom the interrupt handler works.  *)
OwnerInv ==
    \A d \in Devices :
        /\ sub[d] => drv[d] = "ok" /\ activated[d] /\ (bus = d => call = "none")
        /\ taken[d] /\ ~activated[d] /\ bus # d => EventThreadEnded
        /\ isr.dev = d => drv[d] = "ok" /\ bus # d

(* The event thread attends to the queues of a device that is activated,   *)
(* or about to be.                                                         *)
Attended(q) == q \in listen \/ evq = q

AttendOf(q) ==
        Attended(q) /\ ~EventThreadEnded =>
            \/ sub[DeviceOf(q)]
            \/ /\ bus = DeviceOf(q)
               /\ call = "remove" \/ (call = "done" /\ drv[DeviceOf(q)] = "probed")

AttendInv == \A q \in Queues : AttendOf(q)

(* A driver that is not at work has no chain outstanding except for input, *)
(* and before it is at work the rings are empty.                           *)
RestOf(q) ==
        /\ q # "rx" /\ (drv[DeviceOf(q)] # "ok" \/ bus = DeviceOf(q)) =>
              seen[q] = avail[q] /\ kick[q] = "none"
        /\ ~activated[DeviceOf(q)] => next[q] = 0 /\ availEvent[q] = 0
        /\ drv[DeviceOf(q)] \in {"absent", "new", "probed"} =>
              seen[q] = used[q] /\ next[q] = avail[q]

RestInv == \A q \in Queues : RestOf(q)

(* While a queue waits for its eventfd, the device has asked for a kick at *)
(* the next chain, and if there is one the kick is on its way.             *)
KickOf(q) ==
        /\ ~Working(q) /\ ~EventThreadEnded =>
              /\ availEvent[q] = next[q]
              /\ \/ avail[q] = next[q] \/ efd[q] \/ kick[q] = "write"
                 \/ kick[q] = "test" /\ avail[q] = next[q] + 1
        /\ Working(q) /\ ev = "recheck" => availEvent[q] = next[q]

KickInv == \A q \in listen \ {"rx"} : KickOf(q)

(* Outside of the interrupt handler the driver has asked for an interrupt  *)
(* at the next chain, as long as the device may return one; if there is a  *)
(* returned chain the status bit is set, or is about to be, or the handler *)
(* failed before it could set it.                                          *)
IrqOf(q) ==
    isr.dev # DeviceOf(q) =>
        /\ sub[DeviceOf(q)] \/ ~activated[DeviceOf(q)] \/ bus = DeviceOf(q) =>
              usedEvent[q] = seen[q]
        /\ drv[DeviceOf(q)] = "ok" /\ seen[q] < used[q] =>
              \/ status[DeviceOf(q)]
              \/ evq = q /\ ev = "notify" /\ used[q] = seen[q] + 1
              \/ Deaf(q)

IrqInv ==
    /\ isr.pc \in {"idle", "next"} <=> isr.dev = "none"
    /\ \A q \in Queues : IrqOf(q)

(* The requests are those submitted, and accesses stay inside the disk.    *)
DiskInv ==
    /\ touched \in Nat /\ touched <= DiskBytes
    /\ reqs \in Seq(Requests)
    /\ "blk" \in Devices => Len(reqs) = avail["blk"]

(* The file as the requests left it, and one answer per chain taken.       *)
DataInv ==
    /\ answers \in Seq([status: Statuses, data: Seq(Nat)])
    /\ "blk" \in Devices => Len(answers) = next["blk"]
    /\ disk \in [0 .. DiskBytes - 1 -> Nat]

TransInv ==
    /\ TypeInv /\ RingInv /\ StepInv /\ CallInv /\ OwnerInv /\ AttendInv
    /\ RestInv /\ KickInv /\ IrqInv

Inv == TransInv /\ DiskInv /\ DataInv

-----------------------------------------------------------------------------
(* Steps the handlers of both devices take, each for a queue of its own.   *)

(* The event thread takes the event of a queue. *)
WakeUp(q) ==
    /\ Wakes(q) /\ q # "rx"
    /\ efd' = [efd EXCEPT ![q] = FALSE]
    /\ ev' = "drain" /\ evq' = q
    /\ UNCHANGED <<EvKeeps, ringVars, listen, status>>

(* It takes a chain. *)
TakeChain(q) ==
    /\ evq = q /\ ev \in {"drain", "read"} /\ next[q] < avail[q]
    /\ next' = [next EXCEPT ![q] = @ + 1]
    /\ ev' = "used"
    /\ UNCHANGED <<EvKeeps, avail, used, seen, availEvent, usedEvent, efd, evq, listen, status>>

(* It goes on in its loop, and leaves it only after a look at the ring.    *)
MoveOn ==
    /\ ev \in {"drain", "read", "irqfd", "recheck"} /\ ev' \in {"drain", "enable", "timeouts"}
    /\ ev' = "timeouts" => ev = "recheck" /\ (evq = "rx" \/ avail[evq] = next[evq])
    /\ UNCHANGED <<EvKeeps, ringVars, efd, evq, listen, status>>

(* It stops to listen, for the queue at least. *)
GiveUp ==
    /\ ev \in {"poll", "drain", "read", "used", "notify", "enable", "recheck"}
    /\ ev' \in {"timeouts", "panicked"}
    /\ listen' \subseteq listen /\ (evq # NoQueue => Deaf(evq)')
    /\ UNCHANGED <<EvKeeps, ringVars, efd, evq, status>>

(* Nothing the devices and the drivers look at changes. *)
Unseen == UNCHANGED <<lifeVars, ringVars, guestVars, efd, evVars, status>>

(* The names of devices and queues. *)
LEMMA Names ==
    /\ \A d \in Devices : d \in {"blk", "con"}
    /\ \A q \in Queues : q \in {"blk", "rx", "tx"} /\ DeviceOf(q) \in Devices
    /\ \A d \in Devices : QueuesOf(d) \subseteq Queues
    /\ \A d \in Devices : \A q \in Queues : q \in QueuesOf(d) <=> DeviceOf(q) = d
    /\ NoQueue \notin Queues
  BY DevicesAssumption DEF Queues, QueuesOf, DeviceOf, NoQueue


(* reset() takes the handler back, or a driver that left no chain behind   *)
(* starts over.                                                            *)
LEMMA ResetKeeps ==
    ASSUME TransInv, NEW d \in Devices, Reset(d)
    PROVE  TransInv'
  <1>1. /\ RingType /\ KickType /\ LifeType /\ BusType /\ EvType /\ IsrType
        /\ RingInv /\ StepInv /\ CallInv /\ OwnerInv /\ AttendInv /\ RestInv /\ KickInv /\ IrqInv
    BY Zenon DEF TransInv, TypeInv
  <1>2. /\ bus = "free" /\ drv[d] \in {"new", "down", "ok"}
        /\ drv[d] = "ok" =>
          isr.dev # d /\ \A q \in QueuesOf(d) : kick[q] = "none" /\ (q # "rx" => seen[q] = avail[q])
        /\ \/ /\ sub[d] /\ sub' = [sub EXCEPT ![d] = FALSE] /\ bus' = d /\ call' = "remove"
              /\ UNCHANGED <<drv, avail, seen>>
           \/ /\ ~sub[d] /\ UNCHANGED <<sub, bus, call>>
              /\ drv' = [drv EXCEPT ![d] = IF @ = "ok" THEN "down" ELSE "probed"]
              /\ IF drv[d] = "down" THEN NewRings(d) ELSE UNCHANGED <<avail, seen>>
    BY Zenon DEF Reset, Served
  <1>3. UNCHANGED <<activated, taken, next, used, availEvent, usedEvent, kick, isr, efd,
           ev, evq, listen, status>>
    BY Zenon DEF Reset, Served, lifeVars, ringVars, guestVars, evVars, irqVars
  <1>4. (RingType /\ LifeType /\ BusType)'
    BY <1>1, <1>2, <1>3 DEF RingType, LifeType, BusType, NewRings
  <1>5. (KickType /\ EvType /\ IsrType)'
    BY <1>1, <1>3, Zenon DEF KickType, EvType, IsrType
  <1>6. RingInv'
    BY <1>1, <1>2, <1>3 DEF RingInv, RingType, NewRings
  <1>7. (CallInv /\ OwnerInv)'
    BY <1>1, <1>2, Names, <1>3 DEF CallInv, EventThreadEnded, LifeType, BusType, OwnerInv
  <1>8. AttendInv'
    <2> SUFFICES ASSUME NEW x \in Queues PROVE AttendOf(x)'
      BY Zenon DEF AttendInv
    <2>1. AttendOf(x) /\ DeviceOf(x) \in Devices /\ x \in Queues
      BY <1>1, <1>2, <1>3, Names, Zenon DEF AttendInv, EvType
    <2> QED
      BY <1>1, <1>2, <1>3, <2>1, Names DEF LifeType, EvType, AttendOf, Attended,
         EventThreadEnded
  <1>9. RestInv'
    <2> SUFFICES ASSUME NEW x \in Queues PROVE RestOf(x)'
      BY Zenon DEF RestInv
    <2>1. RestOf(x) /\ DeviceOf(x) \in Devices /\ x \in Queues
      BY <1>1, <1>2, <1>3, Names, Zenon DEF RestInv
    <2>2. CASE sub[d]
      BY <1>1, <1>2, <1>3, <2>1, <2>2, Names DEF RestOf, OwnerInv
    <2>3. CASE ~sub[d] /\ drv[d] # "down"
      BY <1>1, <1>2, <1>3, <2>1, <2>3, Names DEF RestOf, LifeType
    <2>4. CASE ~sub[d] /\ drv[d] = "down" /\ DeviceOf(x) # d
      BY <1>1, <1>2, <1>3, <2>1, <2>4, Names DEF RestOf, LifeType, NewRings
    <2>5. CASE ~sub[d] /\ drv[d] = "down" /\ DeviceOf(x) = d
      <3>1. x \in QueuesOf(d) /\ avail'[x] = next[x] /\ seen'[x] = used[x]
        BY <1>2, <1>3, <2>1, <2>5, Names, Zenon DEF NewRings
      <3>2. x # "rx" => used[x] = next[x]
        BY <1>1, <2>1, <2>5 DEF RestOf, RingInv, RingType
      <3> QED
        BY <1>1, <1>2, <1>3, <2>1, <2>5, <3>1, <3>2, Zenon DEF RestOf
    <2> QED
      BY <2>2, <2>3, <2>4, <2>5, Zenon
  <1>10. KickInv'
    BY <1>1, <1>2, Names, <1>3 DEF KickInv, KickOf, Working, EventThreadEnded, RingType,
       NewRings, RingInv, EvType
  <1>11. IrqInv'
    <2> SUFFICES ASSUME NEW x \in Queues PROVE IrqOf(x)'
      BY <1>1, <1>2, <1>3, Zenon DEF IrqInv
    <2>1. IrqOf(x) /\ RestOf(x) /\ DeviceOf(x) \in Devices /\ x \in Queues
      BY <1>1, <1>2, <1>3, Names, Zenon DEF IrqInv, RestInv, EvType
    <2> QED
      BY <1>1, <1>2, <1>3, <2>1, Names DEF RingType, LifeType, IrqOf, Deaf,
             RestOf, NewRings,
         OwnerInv, RingInv
  <1>12. StepInv'
    BY <1>1, <1>3, Zenon DEF StepInv
  <1> QED
    BY <1>4, <1>5, <1>6, <1>7, <1>8, <1>9, <1>10, <1>11, <1>12, Zenon DEF TypeInv, TransInv

(* _activate() up to the call to the event thread. *)
LEMMA ActivateKeeps ==
    ASSUME TransInv, NEW d \in Devices, Activate(d)
    PROVE  TransInv'
  <1>1. /\ RingType /\ KickType /\ LifeType /\ BusType /\ EvType /\ IsrType
        /\ RingInv /\ StepInv /\ CallInv /\ OwnerInv /\ AttendInv /\ RestInv /\ KickInv /\ IrqInv
    BY Zenon DEF TransInv, TypeInv
  <1>2. /\ bus = "free" /\ drv[d] = "probed"
        /\ \/ drv' = [drv EXCEPT ![d] = "ok"] /\ UNCHANGED <<bus, call, taken>>
           \/ ~activated[d] /\ taken[d] /\ bus' = "panicked" /\ UNCHANGED <<drv, call, taken>>
           \/ /\ ~activated[d] /\ ~taken[d] /\ taken' = [taken EXCEPT ![d] = TRUE]
              /\ bus' = d /\ call' = "add" /\ UNCHANGED drv
    <2>1. \/ drv' = [drv EXCEPT ![d] = "ok"] /\ UNCHANGED <<bus, call, taken>>
          \/ ~activated[d] /\ taken[d] /\ bus' = "panicked" /\ UNCHANGED <<drv, call, taken>>
          \/ /\ ~activated[d] /\ ~taken[d] /\ taken' = [taken EXCEPT ![d] = TRUE]
             /\ bus' = d /\ call' = "add" /\ UNCHANGED drv
      BY Zenon DEF Activate
    <2>2. bus = "free" /\ drv[d] = "probed"
      BY DEF Activate, Served
    <2> QED
      BY <2>1, <2>2, Zenon
  <1>3. UNCHANGED <<activated, sub, avail, next, used, seen, availEvent, usedEvent, kick,
           isr, efd, ev, evq, listen, status>>
    BY Zenon DEF Activate, Served, Fault, NoFault, lifeVars, ringVars, guestVars, evVars,
       irqVars
  <1>4. (LifeType /\ BusType)'
    BY <1>1, <1>2, <1>3, Zenon DEF LifeType, BusType
  <1>5. (RingType /\ KickType /\ EvType /\ IsrType)'
    BY <1>1, <1>3, Zenon DEF RingType, KickType, EvType, IsrType
  <1>6. (CallInv /\ OwnerInv)'
    BY <1>1, <1>2, Names, <1>3 DEF CallInv, EventThreadEnded, LifeType, BusType, OwnerInv
  <1>7. AttendInv'
    BY <1>1, <1>2, Names, <1>3, Zenon DEF AttendInv, AttendOf, Attended, EventThreadEnded,
       LifeType, BusType
  <1>8. RestInv'
    <2> SUFFICES ASSUME NEW x \in Queues PROVE RestOf(x)'
      BY Zenon DEF RestInv
    <2>1. RestOf(x) /\ DeviceOf(x) \in Devices /\ x \in Queues
      BY <1>1, <1>2, <1>3, Names, Zenon DEF RestInv, EvType
    <2> QED
      BY <1>1, <1>2, <1>3, <2>1, Names, Zenon DEF RingType, KickType, LifeType, RestOf
  <1>9. IrqInv'
    <2> SUFFICES ASSUME NEW x \in Queues PROVE IrqOf(x)'
      BY <1>1, <1>2, <1>3, Zenon DEF IrqInv
    <2>1. IrqOf(x) /\ RestOf(x) /\ DeviceOf(x) \in Devices /\ x \in Queues
      BY <1>1, <1>2, <1>3, Names, Zenon DEF IrqInv, RestInv, EvType
    <2> QED
      BY <1>1, <1>2, <1>3, <2>1, Names DEF RingType, LifeType, IrqOf, Deaf,
             RestOf, OwnerInv
  <1>10. (RingInv /\ StepInv /\ KickInv)'
    BY <1>1, <1>3, Zenon DEF RingInv, StepInv, KickInv, KickOf, Working, EventThreadEnded
  <1> QED
    BY <1>4, <1>5, <1>6, <1>7, <1>8, <1>9, <1>10, Zenon DEF TypeInv, TransInv

(* _activate() after the call. *)
LEMMA ActivatedKeeps ==
    ASSUME TransInv, NEW d \in Devices, Activated(d)
    PROVE  TransInv'
  <1>1. /\ RingType /\ KickType /\ LifeType /\ BusType /\ EvType /\ IsrType
        /\ RingInv /\ StepInv /\ CallInv /\ OwnerInv /\ AttendInv /\ RestInv /\ KickInv /\ IrqInv
    BY Zenon DEF TransInv, TypeInv
  <1>2. /\ bus = d /\ drv[d] = "probed" /\ call = "done" /\ bus' = "free" /\ call' = "none"
        /\ sub' = [sub EXCEPT ![d] = TRUE] /\ activated' = [activated EXCEPT ![d] = TRUE]
        /\ drv' = [drv EXCEPT ![d] = "ok"]
    BY Zenon DEF Activated
  <1>3. UNCHANGED <<taken, avail, next, used, seen, availEvent, usedEvent, kick, isr, efd,
           ev, evq, listen, status>>
    BY Zenon DEF Activated, lifeVars, ringVars, guestVars, evVars, irqVars
  <1>4. (LifeType /\ BusType)'
    BY <1>1, <1>2, <1>3, Zenon DEF LifeType, BusType
  <1>5. (RingType /\ KickType /\ EvType /\ IsrType)'
    BY <1>1, <1>3, Zenon DEF RingType, KickType, EvType, IsrType
  <1>6. (CallInv /\ OwnerInv)'
    BY <1>1, <1>2, Names, <1>3, Zenon DEF CallInv, EventThreadEnded, LifeType, BusType,
       OwnerInv
  <1>7. AttendInv'
    BY <1>1, <1>2, Names, <1>3, Zenon DEF AttendInv, AttendOf, Attended, EventThreadEnded,
       LifeType, BusType
  <1>8. RestInv'
    BY <1>1, <1>2, Names, <1>3, Zenon DEF RestInv, RestOf, RingType, LifeType
  <1>9. IrqInv'
    <2> SUFFICES ASSUME NEW x \in Queues PROVE IrqOf(x)'
      BY <1>1, <1>2, <1>3, Zenon DEF IrqInv
    <2>1. IrqOf(x) /\ RestOf(x) /\ DeviceOf(x) \in Devices /\ x \in Queues
      BY <1>1, <1>2, <1>3, Names, Zenon DEF IrqInv, RestInv, EvType
    <2> QED
      BY <1>1, <1>2, <1>3, <2>1, Names DEF RingType, LifeType, IrqOf, Deaf, RestOf, OwnerInv
  <1>10. (RingInv /\ StepInv /\ KickInv)'
    BY <1>1, <1>3, Zenon DEF RingInv, StepInv, KickInv, KickOf, Working, EventThreadEnded
  <1> QED
    BY <1>4, <1>5, <1>6, <1>7, <1>8, <1>9, <1>10, Zenon DEF TypeInv, TransInv

(* A call to an event thread that has ended. *)
LEMMA CallFailsKeeps ==
    ASSUME TransInv, NEW d \in Devices, CallFails(d)
    PROVE  TransInv'
  <1>1. /\ RingType /\ KickType /\ LifeType /\ BusType /\ EvType /\ IsrType
        /\ RingInv /\ StepInv /\ CallInv /\ OwnerInv /\ AttendInv /\ RestInv /\ KickInv /\ IrqInv
    BY Zenon DEF TransInv, TypeInv
  <1>2. /\ bus = d /\ call \in {"add", "remove"} /\ EventThreadEnded /\ bus' = "free" /\ call' = "none"
        /\ drv' = [drv EXCEPT ![d] = IF @ = "probed" THEN "ok" ELSE "down"]
    BY Zenon DEF CallFails, EventThreadEnded
  <1>3. UNCHANGED <<activated, taken, sub, avail, next, used, seen, availEvent, usedEvent,
           kick, isr, efd, ev, evq, listen, status>>
    BY Zenon DEF CallFails, EventThreadEnded, lifeVars, ringVars, guestVars, evVars,
       irqVars
  <1>4. (LifeType /\ BusType)'
    BY <1>1, <1>2, <1>3, Zenon DEF LifeType, BusType
  <1>5. (RingType /\ KickType /\ EvType /\ IsrType)'
    BY <1>1, <1>3, Zenon DEF RingType, KickType, EvType, IsrType
  <1>6. (CallInv /\ OwnerInv)'
    BY <1>1, <1>2, Names, <1>3, Zenon DEF CallInv, EventThreadEnded, LifeType, BusType,
       OwnerInv
  <1>7. AttendInv'
    BY <1>1, <1>2, Names, <1>3, Zenon DEF AttendInv, AttendOf, Attended, EventThreadEnded,
       LifeType, BusType
  <1>8. RestInv'
    BY <1>1, <1>2, Names, <1>3, Zenon DEF RestInv, RestOf, RingType, LifeType
  <1>9. IrqInv'
    <2> SUFFICES ASSUME NEW x \in Queues PROVE IrqOf(x)'
      BY <1>1, <1>2, <1>3, Zenon DEF IrqInv
    <2>1. IrqOf(x) /\ RestOf(x) /\ DeviceOf(x) \in Devices /\ x \in Queues
      BY <1>1, <1>2, <1>3, Names, Zenon DEF IrqInv, RestInv, EvType
    <2> QED
      BY <1>1, <1>2, <1>3, <2>1, Names DEF RingType, LifeType, IrqOf, Deaf, RestOf, OwnerInv
  <1>10. (RingInv /\ StepInv /\ KickInv)'
    BY <1>1, <1>3, Zenon DEF RingInv, StepInv, KickInv, KickOf, Working, EventThreadEnded
  <1> QED
    BY <1>4, <1>5, <1>6, <1>7, <1>8, <1>9, <1>10, Zenon DEF TypeInv, TransInv

(* reset() after the call. *)
LEMMA ResetDoneKeeps ==
    ASSUME TransInv, NEW d \in Devices, ResetDone(d)
    PROVE  TransInv'
  <1>1. /\ RingType /\ KickType /\ LifeType /\ BusType /\ EvType /\ IsrType
        /\ RingInv /\ StepInv /\ CallInv /\ OwnerInv /\ AttendInv /\ RestInv /\ KickInv /\ IrqInv
    BY Zenon DEF TransInv, TypeInv
  <1>2. /\ bus = d /\ drv[d] = "ok" /\ call = "done" /\ bus' = "free" /\ call' = "none"
        /\ drv' = [drv EXCEPT ![d] = "down"]
    BY Zenon DEF ResetDone
  <1>3. UNCHANGED <<activated, taken, sub, avail, next, used, seen, availEvent, usedEvent,
           kick, isr, efd, ev, evq, listen, status>>
    BY Zenon DEF ResetDone, lifeVars, ringVars, guestVars, evVars, irqVars
  <1>4. (LifeType /\ BusType)'
    BY <1>1, <1>2, <1>3, Zenon DEF LifeType, BusType
  <1>5. (RingType /\ KickType /\ EvType /\ IsrType)'
    BY <1>1, <1>3, Zenon DEF RingType, KickType, EvType, IsrType
  <1>6. (CallInv /\ OwnerInv)'
    BY <1>1, <1>2, Names, <1>3, Zenon DEF CallInv, EventThreadEnded, LifeType, BusType,
       OwnerInv
  <1>7. AttendInv'
    BY <1>1, <1>2, Names, <1>3, Zenon DEF AttendInv, AttendOf, Attended, EventThreadEnded,
       LifeType, BusType
  <1>8. RestInv'
    BY <1>1, <1>2, Names, <1>3, Zenon DEF RestInv, RestOf, RingType, LifeType
  <1>9. IrqInv'
    BY <1>1, <1>2, Names, <1>3, Zenon DEF IrqInv, IrqOf, Deaf, RingType, LifeType
  <1>10. (RingInv /\ StepInv /\ KickInv)'
    BY <1>1, <1>3, Zenon DEF RingInv, StepInv, KickInv, KickOf, Working, EventThreadEnded
  <1> QED
    BY <1>4, <1>5, <1>6, <1>7, <1>8, <1>9, <1>10, Zenon DEF TypeInv, TransInv

(* The server ends. *)
LEMMA ServerExitsKeeps ==
    ASSUME TransInv, ServerExits
    PROVE  TransInv'
  <1>1. /\ RingType /\ KickType /\ LifeType /\ BusType /\ EvType /\ IsrType
        /\ RingInv /\ StepInv /\ CallInv /\ OwnerInv /\ AttendInv /\ RestInv /\ KickInv /\ IrqInv
    BY Zenon DEF TransInv, TypeInv
  <1>2. /\ bus = "free" /\ bus' = "exited"
    BY Zenon DEF ServerExits
  <1>3. UNCHANGED <<drv, activated, taken, sub, call, avail, next, used, seen, availEvent,
           usedEvent, kick, isr, efd, ev, evq, listen, status>>
    BY Zenon DEF ServerExits, lifeVars, ringVars, guestVars, evVars, irqVars
  <1>4. BusType'
    BY <1>1, <1>2, <1>3, Zenon DEF BusType
  <1>5. (RingType /\ KickType /\ LifeType /\ EvType /\ IsrType)'
    BY <1>1, <1>3, Zenon DEF RingType, KickType, LifeType, EvType, IsrType
  <1>6. (CallInv /\ OwnerInv)'
    BY <1>1, <1>2, Names, <1>3, Zenon DEF CallInv, EventThreadEnded, BusType, OwnerInv
  <1>7. AttendInv'
    BY <1>1, <1>2, Names, <1>3, Zenon DEF AttendInv, AttendOf, Attended, EventThreadEnded,
       BusType
  <1>8. RestInv'
    BY <1>1, <1>2, Names, <1>3, Zenon DEF RestInv, RestOf, RingType
  <1>9. IrqInv'
    BY <1>1, <1>2, Names, <1>3, Zenon DEF IrqInv, IrqOf, Deaf, RingType
  <1>10. (RingInv /\ StepInv /\ KickInv)'
    BY <1>1, <1>3, Zenon DEF RingInv, StepInv, KickInv, KickOf, Working, EventThreadEnded
  <1> QED
    BY <1>4, <1>5, <1>6, <1>7, <1>8, <1>9, <1>10, Zenon DEF TypeInv, TransInv

(* The event thread begins or ceases to listen. A device's queues are at   *)
(* rest when it begins: nothing was submitted and the device asks for the  *)
(* first kick.                                                             *)
LEMMA ServeCallKeeps ==
    ASSUME TransInv, ServeCall
    PROVE  TransInv'
  <1>1. /\ RingType /\ KickType /\ LifeType /\ BusType /\ EvType /\ IsrType
        /\ RingInv /\ StepInv /\ CallInv /\ OwnerInv /\ AttendInv /\ RestInv /\ KickInv /\ IrqInv
    BY Zenon DEF TransInv, TypeInv
  <1>2. /\ ev = "poll" /\ call \in {"add", "remove"} /\ call' = "done" /\ ev' = "timeouts"
        /\ listen' = IF call = "add" THEN listen \cup FdsOf(bus) ELSE listen \ QueuesOf(bus)
    BY Zenon DEF ServeCall
  <1>3. UNCHANGED <<drv, activated, taken, sub, bus, avail, next, used, seen, availEvent,
           usedEvent, kick, isr, efd, evq, status>>
    BY Zenon DEF ServeCall, lifeVars, ringVars, guestVars, evVars, irqVars
  <1>4. TypeInv'
    <2>1. bus \in Devices /\ FdsOf(bus) \subseteq QueuesOf(bus) /\ QueuesOf(bus) \subseteq Queues
      BY <1>1, <1>2, <1>3, Names, Zenon DEF CallInv, QueuesOf, FdsOf, ConsoleFds
    <2> QED
      BY <1>1, <1>2, <1>3, <2>1, Zenon DEF TypeInv, RingType, KickType, LifeType, BusType,
         EvType, IsrType, EvSteps
  <1>5. (RingInv /\ StepInv)'
    BY <1>1, <1>2, <1>3, Zenon DEF RingInv, RingType, StepInv
  <1>6. (CallInv /\ OwnerInv)'
    BY <1>1, <1>2, Names, <1>3, Zenon DEF CallInv, EventThreadEnded, BusType, OwnerInv
  <1>7. AttendInv'
    <2> SUFFICES ASSUME NEW x \in Queues PROVE AttendOf(x)'
      BY Zenon DEF AttendInv
    <2>1. AttendOf(x) /\ DeviceOf(x) \in Devices /\ x \in Queues
      BY <1>1, <1>2, <1>3, Names, Zenon DEF AttendInv, EvType
    <2> QED
      BY <1>1, <1>2, <1>3, <2>1, Names, Zenon DEF LifeType, EvType, AttendOf, Attended,
         EventThreadEnded, OwnerInv, CallInv, StepInv, FdsOf, ConsoleFds, QueuesOf,
         DeviceOf
  <1>8. KickInv'
    <2> SUFFICES ASSUME NEW x \in listen' \ {"rx"} PROVE KickOf(x)'
      BY Zenon DEF KickInv
    <2>1. x \in Queues
      BY <1>4 DEF TypeInv, EvType
    <2>2. CASE x \in listen
      BY <1>1, <1>2, <1>3, <2>2, Zenon DEF KickInv, KickOf, Working, EventThreadEnded
    <2>3. CASE x \notin listen
      <3>1. call = "add" /\ bus \in Devices /\ DeviceOf(x) = bus
        BY <1>1, <1>2, <1>3, <2>3, Names, Zenon DEF CallInv, FdsOf, ConsoleFds, QueuesOf,
           DeviceOf
      <3> QED
        BY <1>1, <1>2, <1>3, <2>1, <3>1, Zenon DEF CallInv, RestInv, RestOf, KickOf,
           Working, EventThreadEnded
    <2> QED
      BY <2>2, <2>3, Zenon
  <1>9. IrqInv'
    <2> SUFFICES ASSUME NEW x \in Queues PROVE IrqOf(x)'
      BY <1>1, <1>3, Zenon DEF IrqInv
    <2>1. IrqOf(x) /\ (call = "add" => drv[bus] = "probed") /\ bus \in {"blk", "con"}
      BY <1>1, <1>2, Names, Zenon DEF IrqInv, CallInv
    <2>2. call = "add" /\ DeviceOf(x) # bus /\ Deaf(x) => Deaf(x)'
      BY <1>2, <2>1 DEF Deaf, FdsOf, ConsoleFds, DeviceOf
    <2>3. call = "remove" /\ Deaf(x) => Deaf(x)'
      BY <1>2, Zenon DEF Deaf
    <2> QED
      BY <1>2, <1>3, <2>1, <2>2, <2>3, Zenon DEF IrqOf
  <1>10. RestInv'
    BY <1>1, <1>3, Zenon DEF RestInv, RestOf
  <1> QED
    BY <1>4, <1>5, <1>6, <1>7, <1>8, <1>9, <1>10, Zenon DEF TypeInv, TransInv

(* The end of a round of the event thread. *)
LEMMA FinishRoundKeeps ==
    ASSUME TransInv, FinishRound
    PROVE  TransInv'
  <1>1. /\ RingType /\ KickType /\ LifeType /\ BusType /\ EvType /\ IsrType
        /\ RingInv /\ StepInv /\ CallInv /\ OwnerInv /\ AttendInv /\ RestInv /\ KickInv /\ IrqInv
    BY Zenon DEF TransInv, TypeInv
  <1>2. /\ ev \in {"timeouts", "poll"} /\ ev' \in {"exited", "poll"} /\ evq' = NoQueue
    BY Zenon DEF FinishRound, NoEvent
  <1>3. UNCHANGED <<drv, activated, taken, sub, bus, call, avail, next, used, seen,
           availEvent, usedEvent, kick, isr, efd, listen, status>>
    BY Zenon DEF FinishRound, NoEvent, lifeVars, ringVars, guestVars, evVars, irqVars
  <1>4. EvType'
    BY <1>1, <1>2, <1>3, Zenon DEF EvType, EvSteps
  <1>5. (RingType /\ KickType /\ LifeType /\ BusType /\ IsrType)'
    BY <1>1, <1>3, Zenon DEF RingType, KickType, LifeType, BusType, IsrType
  <1>6. (RingInv /\ StepInv)'
    BY <1>1, <1>2, <1>3, Zenon DEF RingInv, RingType, StepInv
  <1>7. (CallInv /\ OwnerInv)'
    BY <1>1, <1>2, Names, <1>3, Zenon DEF CallInv, EventThreadEnded, OwnerInv
  <1>8. AttendInv'
    BY <1>1, <1>2, Names, <1>3, Zenon DEF AttendInv, AttendOf, Attended, EventThreadEnded,
       EvType
  <1>9. KickInv'
    BY <1>1, <1>2, <1>3, Zenon DEF KickInv, KickOf, Working, EventThreadEnded, RingType,
       EvType
  <1>10. IrqInv'
    BY <1>1, <1>2, Names, <1>3, Zenon DEF IrqInv, IrqOf, Deaf, RingType, EvType
  <1>11. RestInv'
    BY <1>1, <1>3, Zenon DEF RestInv, RestOf
  <1> QED
    BY <1>4, <1>5, <1>6, <1>7, <1>8, <1>9, <1>10, <1>11, Zenon DEF TypeInv, TransInv

(* The event of a queue is taken before its ring is looked at. *)
LEMMA WakeUpKeeps ==
    ASSUME TransInv, NEW q \in Queues, WakeUp(q)
    PROVE  TransInv'
  <1>1. /\ RingType /\ KickType /\ LifeType /\ BusType /\ EvType /\ IsrType
        /\ RingInv /\ StepInv /\ CallInv /\ OwnerInv /\ AttendInv /\ RestInv /\ KickInv /\ IrqInv
    BY Zenon DEF TransInv, TypeInv
  <1>2. /\ ev = "poll" /\ q \in listen /\ efd[q] /\ q # "rx"
        /\ efd' = [efd EXCEPT ![q] = FALSE] /\ ev' = "drain" /\ evq' = q
    BY Zenon DEF WakeUp, Wakes, EvKeeps
  <1>3. UNCHANGED <<drv, activated, taken, sub, bus, call, avail, next, used, seen,
           availEvent, usedEvent, kick, isr, listen, status>>
    BY Zenon DEF WakeUp, Wakes, EvKeeps, lifeVars, ringVars, guestVars, evVars, irqVars
  <1>4. (KickType /\ EvType)'
    BY <1>1, <1>2, <1>3, Zenon DEF KickType, EvType, EvSteps
  <1>5. (RingType /\ LifeType /\ BusType /\ IsrType)'
    BY <1>1, <1>3, Zenon DEF RingType, LifeType, BusType, IsrType
  <1>6. (RingInv /\ StepInv)'
    BY <1>1, <1>2, <1>3, Zenon DEF RingInv, RingType, StepInv
  <1>7. (CallInv /\ OwnerInv)'
    BY <1>1, <1>2, Names, <1>3, Zenon DEF CallInv, EventThreadEnded, OwnerInv
  <1>8. AttendInv'
    BY <1>1, <1>2, Names, <1>3, Zenon DEF AttendInv, AttendOf, Attended, EventThreadEnded,
       EvType
  <1>9. KickInv'
    BY <1>1, <1>2, <1>3, Zenon DEF KickInv, KickOf, Working, EventThreadEnded, RingType,
       KickType, EvType
  <1>10. IrqInv'
    BY <1>1, <1>2, Names, <1>3 DEF IrqInv, IrqOf, Deaf, RingType, EvType
  <1>11. RestInv'
    BY <1>1, <1>3, Zenon DEF RestInv, RestOf
  <1> QED
    BY <1>4, <1>5, <1>6, <1>7, <1>8, <1>9, <1>10, <1>11, Zenon DEF TypeInv, TransInv

(* There is input for the console. *)
LEMMA ProcessRxKeeps ==
    ASSUME TransInv, ProcessRx
    PROVE  TransInv'
  <1>1. /\ RingType /\ KickType /\ LifeType /\ BusType /\ EvType /\ IsrType
        /\ RingInv /\ StepInv /\ CallInv /\ OwnerInv /\ AttendInv /\ RestInv /\ KickInv /\ IrqInv
    BY Zenon DEF TransInv, TypeInv
  <1>2. /\ ev = "poll" /\ "rx" \in listen /\ ev' = "read" /\ evq' = "rx"
    BY Zenon DEF ProcessRx, PtsReady, EvKeeps
  <1>3. UNCHANGED <<drv, activated, taken, sub, bus, call, avail, next, used, seen,
           availEvent, usedEvent, kick, isr, efd, listen, status>>
    BY Zenon DEF ProcessRx, PtsReady, EvKeeps, lifeVars, ringVars, guestVars, evVars,
       irqVars
  <1>4. EvType'
    BY <1>1, <1>2, <1>3, Zenon DEF EvType, EvSteps
  <1>5. (RingType /\ KickType /\ LifeType /\ BusType /\ IsrType)'
    BY <1>1, <1>3, Zenon DEF RingType, KickType, LifeType, BusType, IsrType
  <1>6. (RingInv /\ StepInv)'
    BY <1>1, <1>2, <1>3, Zenon DEF RingInv, RingType, StepInv
  <1>7. (CallInv /\ OwnerInv)'
    BY <1>1, <1>2, Names, <1>3, Zenon DEF CallInv, EventThreadEnded, OwnerInv
  <1>8. AttendInv'
    BY <1>1, <1>2, Names, <1>3, Zenon DEF AttendInv, AttendOf, Attended, EventThreadEnded,
       EvType
  <1>9. KickInv'
    BY <1>1, <1>2, <1>3, Zenon DEF KickInv, KickOf, Working, EventThreadEnded, RingType,
       EvType
  <1>10. IrqInv'
    BY <1>1, <1>2, Names, <1>3, Zenon DEF IrqInv, IrqOf, Deaf, RingType, EvType
  <1>11. RestInv'
    BY <1>1, <1>3, Zenon DEF RestInv, RestOf
  <1> QED
    BY <1>4, <1>5, <1>6, <1>7, <1>8, <1>9, <1>10, <1>11, Zenon DEF TypeInv, TransInv

(* A chain leaves the ring of a device whose driver is at work. *)
LEMMA TakeChainKeeps ==
    ASSUME TransInv, NEW q \in Queues, TakeChain(q)
    PROVE  TransInv'
  <1>1. /\ RingType /\ KickType /\ LifeType /\ BusType /\ EvType /\ IsrType
        /\ RingInv /\ StepInv /\ CallInv /\ OwnerInv /\ AttendInv /\ RestInv /\ KickInv /\ IrqInv
    BY Zenon DEF TransInv, TypeInv
  <1>2. /\ evq = q /\ ev \in {"drain", "read"} /\ next[q] < avail[q]
        /\ next' = [next EXCEPT ![q] = @ + 1] /\ ev' = "used"
    BY Zenon DEF TakeChain, EvKeeps
  <1>3. UNCHANGED <<drv, activated, taken, sub, bus, call, avail, used, seen, availEvent,
           usedEvent, kick, isr, efd, evq, listen, status>>
    BY Zenon DEF TakeChain, EvKeeps, lifeVars, ringVars, guestVars, evVars, irqVars
  <1>4. (RingType /\ EvType)'
    BY <1>1, <1>2, <1>3 DEF RingType, EvType, EvSteps
  <1>5. (KickType /\ LifeType /\ BusType /\ IsrType)'
    BY <1>1, <1>3, Zenon DEF KickType, LifeType, BusType, IsrType
  <1>6. (RingInv /\ StepInv)'
    BY <1>1, <1>2, <1>3 DEF RingInv, RingType, StepInv
  <1>7. (CallInv /\ OwnerInv)'
    BY <1>1, <1>2, Names, <1>3, Zenon DEF CallInv, EventThreadEnded, OwnerInv
  <1>8. AttendInv'
    BY <1>1, <1>2, Names, <1>3, Zenon DEF AttendInv, AttendOf, Attended, EventThreadEnded,
       EvType
  <1>9. RestInv'
    <2> SUFFICES ASSUME NEW x \in Queues PROVE RestOf(x)'
      BY Zenon DEF RestInv
    <2>1. RestOf(x) /\ AttendOf(x) /\ DeviceOf(x) \in Devices /\ x \in Queues
      BY <1>1, <1>2, <1>3, Names, Zenon DEF RestInv, AttendInv, EvType
    <2> QED
      BY <1>1, <1>2, <1>3, <2>1 DEF RingType, KickType, LifeType, RestOf, AttendOf,
         Attended, EventThreadEnded, OwnerInv, CallInv
  <1>10. KickInv'
    <2> SUFFICES ASSUME NEW x \in listen' \ {"rx"} PROVE KickOf(x)'
      BY Zenon DEF KickInv
    <2>1. KickOf(x) /\ DeviceOf(x) \in Devices /\ x \in Queues
      BY <1>1, <1>2, <1>3, Names, Zenon DEF KickInv, EvType
    <2> QED
      BY <1>1, <1>2, <1>3, <2>1, Zenon DEF RingType, KickType, EvType, KickOf, Working,
         EventThreadEnded
  <1>11. IrqInv'
    BY <1>1, <1>2, Names, <1>3 DEF IrqInv, IrqOf, Deaf, RingType, EvType
  <1> QED
    BY <1>4, <1>5, <1>6, <1>7, <1>8, <1>9, <1>10, <1>11, Zenon DEF TypeInv, TransInv

(* A chain is returned; the decision on its interrupt is next. *)
LEMMA AddUsedKeeps ==
    ASSUME TransInv, NEW q \in Queues, AddUsed(q)
    PROVE  TransInv'
  <1>1. /\ RingType /\ KickType /\ LifeType /\ BusType /\ EvType /\ IsrType
        /\ RingInv /\ StepInv /\ CallInv /\ OwnerInv /\ AttendInv /\ RestInv /\ KickInv /\ IrqInv
    BY Zenon DEF TransInv, TypeInv
  <1>2. /\ ev = "used" /\ evq = q /\ ev' = "notify" /\ used' = [used EXCEPT ![q] = @ + 1]
    BY Zenon DEF AddUsed, EvKeeps
  <1>3. UNCHANGED <<drv, activated, taken, sub, bus, call, avail, next, seen, availEvent,
           usedEvent, kick, isr, efd, evq, listen, status>>
    BY Zenon DEF AddUsed, EvKeeps, lifeVars, ringVars, guestVars, evVars, irqVars
  <1>4. (RingType /\ EvType)'
    BY <1>1, <1>2, <1>3 DEF RingType, EvType, EvSteps
  <1>5. (KickType /\ LifeType /\ BusType /\ IsrType)'
    BY <1>1, <1>3, Zenon DEF KickType, LifeType, BusType, IsrType
  <1>6. (RingInv /\ StepInv)'
    BY <1>1, <1>2, <1>3 DEF RingInv, RingType, StepInv
  <1>7. (CallInv /\ OwnerInv)'
    BY <1>1, <1>2, Names, <1>3, Zenon DEF CallInv, EventThreadEnded, OwnerInv
  <1>8. AttendInv'
    BY <1>1, <1>2, Names, <1>3, Zenon DEF AttendInv, AttendOf, Attended, EventThreadEnded,
       EvType
  <1>9. RestInv'
    <2> SUFFICES ASSUME NEW x \in Queues PROVE RestOf(x)'
      BY Zenon DEF RestInv
    <2>1. RestOf(x) /\ AttendOf(x) /\ DeviceOf(x) \in Devices /\ x \in Queues
      BY <1>1, <1>2, <1>3, Names, Zenon DEF RestInv, AttendInv, EvType
    <2> QED
      BY <1>1, <1>2, <1>3, <2>1 DEF RingType, KickType, LifeType, RestOf, AttendOf,
         Attended, EventThreadEnded, OwnerInv, CallInv, RingInv
  <1>10. KickInv'
    BY <1>1, <1>2, <1>3, Zenon DEF KickInv, KickOf, Working, EventThreadEnded, RingType,
       EvType
  <1>11. IrqInv'
    BY <1>1, <1>2, Names, <1>3 DEF IrqInv, IrqOf, Deaf, RingType, EvType
  <1> QED
    BY <1>4, <1>5, <1>6, <1>7, <1>8, <1>9, <1>10, <1>11, Zenon DEF TypeInv, TransInv

(* The driver asked for an interrupt at this chain exactly if it has taken *)
(* back all the others; else the bit is set already.                       *)
LEMMA NeedsNotificationKeeps ==
    ASSUME TransInv, NEW q \in Queues, NEW after \in {"drain", "enable"},
           NeedsNotification(q, after)
    PROVE  TransInv'
  <1>1. /\ RingType /\ KickType /\ LifeType /\ BusType /\ EvType /\ IsrType
        /\ RingInv /\ StepInv /\ CallInv /\ OwnerInv /\ AttendInv /\ RestInv /\ KickInv /\ IrqInv
    BY Zenon DEF TransInv, TypeInv
  <1>2. /\ ev = "notify" /\ evq = q /\ ev' \in {"irqfd", "drain", "enable"}
        /\ IF usedEvent[q] = used[q] - 1
          THEN status' = [status EXCEPT ![DeviceOf(q)] = TRUE] ELSE UNCHANGED status
    BY Zenon DEF NeedsNotification, EvKeeps
  <1>3. UNCHANGED <<drv, activated, taken, sub, bus, call, avail, next, used, seen,
           availEvent, usedEvent, kick, isr, efd, evq, listen>>
    BY Zenon DEF NeedsNotification, EvKeeps, lifeVars, ringVars, guestVars, evVars, irqVars
  <1>4. (LifeType /\ EvType)'
    BY <1>1, <1>2, <1>3, Zenon DEF LifeType, EvType, EvSteps
  <1>5. (RingType /\ KickType /\ BusType /\ IsrType)'
    BY <1>1, <1>3, Zenon DEF RingType, KickType, BusType, IsrType
  <1>6. (RingInv /\ StepInv)'
    BY <1>1, <1>2, <1>3, Zenon DEF RingInv, RingType, StepInv
  <1>7. (CallInv /\ OwnerInv)'
    BY <1>1, <1>2, Names, <1>3, Zenon DEF CallInv, EventThreadEnded, LifeType, OwnerInv
  <1>8. AttendInv'
    BY <1>1, <1>2, Names, <1>3, Zenon DEF AttendInv, AttendOf, Attended, EventThreadEnded,
       LifeType, EvType
  <1>9. KickInv'
    BY <1>1, <1>2, <1>3, Zenon DEF KickInv, KickOf, Working, EventThreadEnded, RingType,
       EvType
  <1>10. IrqInv'
    <2> SUFFICES ASSUME NEW x \in Queues PROVE IrqOf(x)'
      BY <1>1, <1>2, <1>3, Zenon DEF IrqInv
    <2>1. IrqOf(x) /\ AttendOf(x) /\ DeviceOf(x) \in Devices /\ x \in Queues
      BY <1>1, <1>2, <1>3, Names, Zenon DEF IrqInv, AttendInv, EvType
    <2> QED
      BY <1>1, <1>2, <1>3, <2>1, Names DEF RingType, LifeType, IrqOf, Deaf, AttendOf, Attended,
         EventThreadEnded
  <1>11. RestInv'
    BY <1>1, <1>3, Zenon DEF RestInv, RestOf
  <1> QED
    BY <1>4, <1>5, <1>6, <1>7, <1>8, <1>9, <1>10, <1>11, Zenon DEF TypeInv, TransInv

(* The loop ends only when the ring was empty after a kick was asked for. *)
LEMMA MoveOnKeeps ==
    ASSUME TransInv, MoveOn
    PROVE  TransInv'
  <1>1. /\ RingType /\ KickType /\ LifeType /\ BusType /\ EvType /\ IsrType
        /\ RingInv /\ StepInv /\ CallInv /\ OwnerInv /\ AttendInv /\ RestInv /\ KickInv /\ IrqInv
    BY Zenon DEF TransInv, TypeInv
  <1>2. /\ ev \in {"drain", "read", "irqfd", "recheck"} /\ ev' \in {"drain", "enable", "timeouts"}
        /\ ev' = "timeouts" => ev = "recheck" /\ (evq = "rx" \/ avail[evq] = next[evq])
    BY Zenon DEF MoveOn, EvKeeps
  <1>3. UNCHANGED <<drv, activated, taken, sub, bus, call, avail, next, used, seen,
           availEvent, usedEvent, kick, isr, efd, evq, listen, status>>
    BY Zenon DEF MoveOn, EvKeeps, lifeVars, ringVars, guestVars, evVars, irqVars
  <1>4. EvType'
    BY <1>1, <1>2, <1>3, Zenon DEF EvType, EvSteps
  <1>5. (RingType /\ KickType /\ LifeType /\ BusType /\ IsrType)'
    BY <1>1, <1>3, Zenon DEF RingType, KickType, LifeType, BusType, IsrType
  <1>6. (RingInv /\ StepInv)'
    BY <1>1, <1>2, <1>3, Zenon DEF RingInv, RingType, StepInv
  <1>7. (CallInv /\ OwnerInv)'
    BY <1>1, <1>2, Names, <1>3, Zenon DEF CallInv, EventThreadEnded, OwnerInv
  <1>8. AttendInv'
    BY <1>1, <1>2, Names, <1>3, Zenon DEF AttendInv, AttendOf, Attended, EventThreadEnded,
       EvType
  <1>9. KickInv'
    BY <1>1, <1>2, <1>3, Zenon DEF KickInv, KickOf, Working, EventThreadEnded, RingType,
       EvType
  <1>10. IrqInv'
    BY <1>1, <1>2, Names, <1>3 DEF IrqInv, IrqOf, Deaf, RingType, EvType
  <1>11. RestInv'
    BY <1>1, <1>3, Zenon DEF RestInv, RestOf
  <1> QED
    BY <1>4, <1>5, <1>6, <1>7, <1>8, <1>9, <1>10, <1>11, Zenon DEF TypeInv, TransInv

(* The device asks for a kick at the next chain. *)
LEMMA EnableNotificationKeeps ==
    ASSUME TransInv, NEW q \in Queues, EnableNotification(q)
    PROVE  TransInv'
  <1>1. /\ RingType /\ KickType /\ LifeType /\ BusType /\ EvType /\ IsrType
        /\ RingInv /\ StepInv /\ CallInv /\ OwnerInv /\ AttendInv /\ RestInv /\ KickInv /\ IrqInv
    BY Zenon DEF TransInv, TypeInv
  <1>2. /\ ev = "enable" /\ evq = q /\ ev' = "recheck"
        /\ availEvent' = [availEvent EXCEPT ![q] = next[q]]
    BY Zenon DEF EnableNotification, EvKeeps
  <1>3. UNCHANGED <<drv, activated, taken, sub, bus, call, avail, next, used, seen,
           usedEvent, kick, isr, efd, evq, listen, status>>
    BY Zenon DEF EnableNotification, EvKeeps, lifeVars, ringVars, guestVars, evVars,
       irqVars
  <1>4. (RingType /\ EvType)'
    BY <1>1, <1>2, <1>3, Zenon DEF RingType, EvType, EvSteps
  <1>5. (KickType /\ LifeType /\ BusType /\ IsrType)'
    BY <1>1, <1>3, Zenon DEF KickType, LifeType, BusType, IsrType
  <1>6. (RingInv /\ StepInv)'
    BY <1>1, <1>2, <1>3, Zenon DEF RingInv, RingType, StepInv
  <1>7. (CallInv /\ OwnerInv)'
    BY <1>1, <1>2, Names, <1>3, Zenon DEF CallInv, EventThreadEnded, OwnerInv
  <1>8. AttendInv'
    BY <1>1, <1>2, Names, <1>3, Zenon DEF AttendInv, AttendOf, Attended, EventThreadEnded,
       EvType
  <1>9. RestInv'
    <2> SUFFICES ASSUME NEW x \in Queues PROVE RestOf(x)'
      BY Zenon DEF RestInv
    <2>1. RestOf(x) /\ DeviceOf(x) \in Devices /\ x \in Queues
      BY <1>1, <1>2, <1>3, Names, Zenon DEF RestInv, EvType
    <2> QED
      BY <1>1, <1>2, <1>3, <2>1, Zenon DEF RingType, KickType, LifeType, RestOf
  <1>10. KickInv'
    <2> SUFFICES ASSUME NEW x \in listen' \ {"rx"} PROVE KickOf(x)'
      BY Zenon DEF KickInv
    <2>1. KickOf(x) /\ DeviceOf(x) \in Devices /\ x \in Queues
      BY <1>1, <1>2, <1>3, Names, Zenon DEF KickInv, EvType
    <2> QED
      BY <1>1, <1>2, <1>3, <2>1, Zenon DEF RingType, KickType, EvType, KickOf, Working,
         EventThreadEnded
  <1>11. IrqInv'
    BY <1>1, <1>2, Names, <1>3, Zenon DEF IrqInv, IrqOf, Deaf, RingType, EvType
  <1> QED
    BY <1>4, <1>5, <1>6, <1>7, <1>8, <1>9, <1>10, <1>11, Zenon DEF TypeInv, TransInv

(* An error: the event manager no longer listens for the queue. *)
LEMMA GiveUpKeeps ==
    ASSUME TransInv, GiveUp
    PROVE  TransInv'
  <1>1. /\ RingType /\ KickType /\ LifeType /\ BusType /\ EvType /\ IsrType
        /\ RingInv /\ StepInv /\ CallInv /\ OwnerInv /\ AttendInv /\ RestInv /\ KickInv /\ IrqInv
    BY Zenon DEF TransInv, TypeInv
  <1>2. /\ ev \in {"poll", "drain", "read", "used", "notify", "enable", "recheck"}
        /\ ev' \in {"timeouts", "panicked"}
        /\ listen' \subseteq listen /\ (evq # NoQueue => Deaf(evq)')
    BY Zenon DEF GiveUp, EvKeeps
  <1>3. UNCHANGED <<drv, activated, taken, sub, bus, call, avail, next, used, seen,
           availEvent, usedEvent, kick, isr, efd, evq, status>>
    BY Zenon DEF GiveUp, EvKeeps, lifeVars, ringVars, guestVars, evVars, irqVars
  <1>4. EvType'
    BY <1>1, <1>2, <1>3, Zenon DEF EvType, EvSteps
  <1>5. (RingType /\ KickType /\ LifeType /\ BusType /\ IsrType)'
    BY <1>1, <1>3, Zenon DEF RingType, KickType, LifeType, BusType, IsrType
  <1>6. (RingInv /\ StepInv)'
    BY <1>1, <1>2, <1>3, Zenon DEF RingInv, RingType, StepInv
  <1>7. (CallInv /\ OwnerInv)'
    BY <1>1, <1>2, Names, <1>3, Zenon DEF CallInv, EventThreadEnded, OwnerInv
  <1>8. AttendInv'
    BY <1>1, <1>2, Names, <1>3, Zenon DEF AttendInv, AttendOf, Attended, EventThreadEnded,
       EvType
  <1>9. KickInv'
    <2> SUFFICES ASSUME NEW x \in listen' \ {"rx"} PROVE KickOf(x)'
      BY Zenon DEF KickInv
    <2>1. x \in listen \ {"rx"} /\ x \in {"blk", "tx"} /\ x # NoQueue
      BY <1>1, <1>2, Names, Zenon DEF EvType
    <2>2. evq # x
      BY <1>2, <1>3, <2>1, Zenon DEF Deaf
    <2>3. KickOf(x) /\ ~Working(x) /\ ~Working(x)'
      BY <1>1, <1>3, <2>1, <2>2, Zenon DEF KickInv, Working
    <2> QED
      BY <1>2, <1>3, <2>3, Zenon DEF KickOf, EventThreadEnded
  <1>10. IrqInv'
    BY <1>1, <1>2, Names, <1>3 DEF IrqInv, IrqOf, Deaf, RingType, EvType
  <1>11. RestInv'
    BY <1>1, <1>3, Zenon DEF RestInv, RestOf
  <1> QED
    BY <1>4, <1>5, <1>6, <1>7, <1>8, <1>9, <1>10, <1>11, Zenon DEF TypeInv, TransInv

(* A driver makes a chain available. *)
LEMMA SubmitKeeps ==
    ASSUME TransInv, NEW q \in Queues, Submit(q)
    PROVE  TransInv'
  <1>1. /\ RingType /\ KickType /\ LifeType /\ BusType /\ EvType /\ IsrType
        /\ RingInv /\ StepInv /\ CallInv /\ OwnerInv /\ AttendInv /\ RestInv /\ KickInv /\ IrqInv
    BY Zenon DEF TransInv, TypeInv
  <1>2. /\ drv[DeviceOf(q)] = "ok" /\ bus # DeviceOf(q) /\ kick[q] = "none"
        /\ avail' = [avail EXCEPT ![q] = @ + 1]
        /\ kick' = [kick EXCEPT ![q] = IF Registered(q) THEN "test" ELSE "none"]
    BY Zenon DEF Submit
  <1>3. UNCHANGED <<drv, activated, taken, sub, bus, call, next, used, seen, availEvent,
           usedEvent, isr, efd, ev, evq, listen, status>>
    BY Zenon DEF Submit, lifeVars, ringVars, guestVars, evVars, irqVars
  <1>4. (RingType /\ KickType)'
    BY <1>1, <1>2, <1>3 DEF RingType, KickType, Registered
  <1>5. (LifeType /\ BusType /\ EvType /\ IsrType)'
    BY <1>1, <1>3, Zenon DEF LifeType, BusType, EvType, IsrType
  <1>6. RingInv'
    BY <1>1, <1>2, <1>3 DEF RingInv, RingType
  <1>7. RestInv'
    BY <1>1, <1>2, Names, <1>3, Zenon DEF RestInv, RestOf, RingType, KickType, Registered
  <1>8. KickInv'
    BY <1>1, <1>2, Names, <1>3 DEF KickInv, KickOf, Working, EventThreadEnded, RingType,
       KickType, Registered, RingInv
  <1>9. (StepInv /\ CallInv /\ OwnerInv)'
    BY <1>1, <1>3, Zenon DEF StepInv, CallInv, EventThreadEnded, OwnerInv
  <1>10. (AttendInv /\ IrqInv)'
    BY <1>1, <1>3, Zenon DEF AttendInv, AttendOf, Attended, EventThreadEnded, IrqInv, IrqOf, Deaf
  <1> QED
    BY <1>4, <1>5, <1>6, <1>7, <1>8, <1>9, <1>10, Zenon DEF TypeInv, TransInv

(* A driver decides on the kick: the chain it looks at is the one the      *)
(* device asked for, or the event thread is at work.                       *)
LEMMA TestKickKeeps ==
    ASSUME TransInv, NEW q \in Queues, TestKick(q)
    PROVE  TransInv'
  <1>1. /\ RingType /\ KickType /\ LifeType /\ BusType /\ EvType /\ IsrType
        /\ RingInv /\ StepInv /\ CallInv /\ OwnerInv /\ AttendInv /\ RestInv /\ KickInv /\ IrqInv
    BY Zenon DEF TransInv, TypeInv
  <1>2. /\ kick[q] = "test"
        /\ kick' = [kick EXCEPT ![q] = IF availEvent[q] = avail[q] - 1 THEN "write" ELSE "none"]
    BY Zenon DEF TestKick
  <1>3. UNCHANGED <<drv, activated, taken, sub, bus, call, avail, next, used, seen,
           availEvent, usedEvent, isr, efd, ev, evq, listen, status>>
    BY Zenon DEF TestKick, lifeVars, ringVars, guestVars, evVars, irqVars
  <1>4. KickType'
    BY <1>1, <1>2, <1>3, Zenon DEF KickType
  <1>5. (RingType /\ LifeType /\ BusType /\ EvType /\ IsrType)'
    BY <1>1, <1>3, Zenon DEF RingType, LifeType, BusType, EvType, IsrType
  <1>6. RestInv'
    BY <1>1, <1>2, Names, <1>3, Zenon DEF RestInv, RestOf, RingType, KickType
  <1>7. KickInv'
    BY <1>1, <1>2, <1>3 DEF KickInv, KickOf, Working, EventThreadEnded, RingType, KickType
  <1>8. (RingInv /\ StepInv /\ CallInv)'
    BY <1>1, <1>3, Zenon DEF RingInv, StepInv, CallInv, EventThreadEnded
  <1>9. (OwnerInv /\ AttendInv /\ IrqInv)'
    BY <1>1, <1>3, Zenon DEF OwnerInv, EventThreadEnded, AttendInv, AttendOf, Attended,
       IrqInv, IrqOf, Deaf
  <1> QED
    BY <1>4, <1>5, <1>6, <1>7, <1>8, <1>9, Zenon DEF TypeInv, TransInv

(* The eventfd becomes readable. *)
LEMMA KickKeeps ==
    ASSUME TransInv, NEW q \in Queues, Kick(q)
    PROVE  TransInv'
  <1>1. /\ RingType /\ KickType /\ LifeType /\ BusType /\ EvType /\ IsrType
        /\ RingInv /\ StepInv /\ CallInv /\ OwnerInv /\ AttendInv /\ RestInv /\ KickInv /\ IrqInv
    BY Zenon DEF TransInv, TypeInv
  <1>2. /\ kick[q] = "write" /\ kick' = [kick EXCEPT ![q] = "none"] /\ efd' = [efd EXCEPT ![q] = TRUE]
    BY Zenon DEF Kick
  <1>3. UNCHANGED <<drv, activated, taken, sub, bus, call, avail, next, used, seen,
           availEvent, usedEvent, isr, ev, evq, listen, status>>
    BY Zenon DEF Kick, lifeVars, ringVars, guestVars, evVars, irqVars
  <1>4. KickType'
    BY <1>1, <1>2, <1>3, Zenon DEF KickType
  <1>5. (RingType /\ LifeType /\ BusType /\ EvType /\ IsrType)'
    BY <1>1, <1>3, Zenon DEF RingType, LifeType, BusType, EvType, IsrType
  <1>6. RestInv'
    BY <1>1, <1>2, Names, <1>3, Zenon DEF RestInv, RestOf, RingType, KickType
  <1>7. KickInv'
    BY <1>1, <1>2, <1>3 DEF KickInv, KickOf, Working, EventThreadEnded, RingType, KickType
  <1>8. (RingInv /\ StepInv /\ CallInv)'
    BY <1>1, <1>3, Zenon DEF RingInv, StepInv, CallInv, EventThreadEnded
  <1>9. (OwnerInv /\ AttendInv /\ IrqInv)'
    BY <1>1, <1>3, Zenon DEF OwnerInv, EventThreadEnded, AttendInv, AttendOf, Attended,
       IrqInv, IrqOf, Deaf
  <1> QED
    BY <1>4, <1>5, <1>6, <1>7, <1>8, <1>9, Zenon DEF TypeInv, TransInv

(* The guest's interrupt handler begins. *)
LEMMA DeliverIrqKeeps ==
    ASSUME TransInv, DeliverIrq
    PROVE  TransInv'
  <1>1. /\ RingType /\ KickType /\ LifeType /\ BusType /\ EvType /\ IsrType
        /\ RingInv /\ StepInv /\ CallInv /\ OwnerInv /\ AttendInv /\ RestInv /\ KickInv /\ IrqInv
    BY Zenon DEF TransInv, TypeInv
  <1>2. /\ isr = Idle /\ isr' = IsrNext({d \in Devices : drv[d] = "ok"})
    BY Zenon DEF DeliverIrq
  <1>3. UNCHANGED <<drv, activated, taken, sub, bus, call, avail, next, used, seen,
           availEvent, usedEvent, kick, efd, ev, evq, listen, status>>
    BY Zenon DEF DeliverIrq, lifeVars, ringVars, guestVars, evVars, irqVars
  <1>4. IsrType'
    BY <1>1, <1>2, <1>3, Zenon DEF IsrType, IsrNext, Idle
  <1>5. (RingType /\ KickType /\ LifeType /\ BusType /\ EvType)'
    BY <1>1, <1>3, Zenon DEF RingType, KickType, LifeType, BusType, EvType
  <1>6. OwnerInv'
    BY <1>1, <1>2, Names, <1>3, Zenon DEF OwnerInv, EventThreadEnded, IsrNext, Idle,
       IsrType
  <1>7. IrqInv'
    BY <1>1, <1>2, Names, <1>3, Zenon DEF IrqInv, IrqOf, Deaf, RingType, IsrNext, Idle, IsrType
  <1>8. (RingInv /\ StepInv /\ CallInv)'
    BY <1>1, <1>3, Zenon DEF RingInv, StepInv, CallInv, EventThreadEnded
  <1>9. (AttendInv /\ RestInv /\ KickInv)'
    BY <1>1, <1>3, Zenon DEF AttendInv, AttendOf, Attended, EventThreadEnded, RestInv,
       RestOf, KickInv, KickOf, Working
  <1> QED
    BY <1>4, <1>5, <1>6, <1>7, <1>8, <1>9, Zenon DEF TypeInv, TransInv

(* It reads the status of a device. *)
LEMMA ReadStatusKeeps ==
    ASSUME TransInv, NEW d \in Devices, ReadStatus(d)
    PROVE  TransInv'
  <1>1. /\ RingType /\ KickType /\ LifeType /\ BusType /\ EvType /\ IsrType
        /\ RingInv /\ StepInv /\ CallInv /\ OwnerInv /\ AttendInv /\ RestInv /\ KickInv /\ IrqInv
    BY Zenon DEF TransInv, TypeInv
  <1>2. /\ isr.pc = "next" /\ d \in isr.todo /\ (bus = "free" \/ drv[d] # "ok")
        /\ isr' = IF status[d] /\ drv[d] = "ok"
                  THEN [todo |-> isr.todo \ {d}, dev |-> d, pc |-> "ack"]
                  ELSE IsrNext(isr.todo \ {d})
    BY Zenon DEF ReadStatus, Served, IsrVars
  <1>3. UNCHANGED <<drv, activated, taken, sub, bus, call, avail, next, used, seen,
           availEvent, usedEvent, kick, efd, ev, evq, listen, status>>
    BY Zenon DEF ReadStatus, Served, IsrVars, lifeVars, ringVars, guestVars, evVars,
       irqVars
  <1>4. IsrType'
    BY <1>1, <1>2, <1>3, Zenon DEF IsrType, IsrNext, Idle
  <1>5. (RingType /\ KickType /\ LifeType /\ BusType /\ EvType)'
    BY <1>1, <1>3, Zenon DEF RingType, KickType, LifeType, BusType, EvType
  <1>6. OwnerInv'
    BY <1>1, <1>2, Names, <1>3, Zenon DEF OwnerInv, EventThreadEnded, IsrNext, Idle,
       IsrType
  <1>7. IrqInv'
    BY <1>1, <1>2, Names, <1>3, Zenon DEF IrqInv, IrqOf, Deaf, RingType, IsrNext, Idle, IsrType
  <1>8. (RingInv /\ StepInv /\ CallInv)'
    BY <1>1, <1>3, Zenon DEF RingInv, StepInv, CallInv, EventThreadEnded
  <1>9. (AttendInv /\ RestInv /\ KickInv)'
    BY <1>1, <1>3, Zenon DEF AttendInv, AttendOf, Attended, EventThreadEnded, RestInv,
       RestOf, KickInv, KickOf, Working
  <1> QED
    BY <1>4, <1>5, <1>6, <1>7, <1>8, <1>9, Zenon DEF TypeInv, TransInv

(* It clears the status; from here on it owes a look at the rings. *)
LEMMA AckIrqKeeps ==
    ASSUME TransInv, AckIrq
    PROVE  TransInv'
  <1>1. /\ RingType /\ KickType /\ LifeType /\ BusType /\ EvType /\ IsrType
        /\ RingInv /\ StepInv /\ CallInv /\ OwnerInv /\ AttendInv /\ RestInv /\ KickInv /\ IrqInv
    BY Zenon DEF TransInv, TypeInv
  <1>2. /\ isr.pc = "ack" /\ isr' = [isr EXCEPT !.pc = "harvest"]
        /\ status' = [status EXCEPT ![isr.dev] = FALSE]
    BY Zenon DEF AckIrq, IsrVars
  <1>3. UNCHANGED <<drv, activated, taken, sub, bus, call, avail, next, used, seen,
           availEvent, usedEvent, kick, efd, ev, evq, listen>>
    BY Zenon DEF AckIrq, IsrVars, lifeVars, ringVars, guestVars, evVars, irqVars
  <1>4. (LifeType /\ IsrType)'
    BY <1>1, <1>2, <1>3, Zenon DEF LifeType, IsrType
  <1>5. (RingType /\ KickType /\ BusType /\ EvType)'
    BY <1>1, <1>3, Zenon DEF RingType, KickType, BusType, EvType
  <1>6. OwnerInv'
    BY <1>1, <1>2, Names, <1>3, Zenon DEF OwnerInv, EventThreadEnded, LifeType, IsrType
  <1>7. IrqInv'
    BY <1>1, <1>2, Names, <1>3, Zenon DEF IrqInv, IrqOf, Deaf, RingType, LifeType, IsrType
  <1>8. (RingInv /\ StepInv /\ CallInv)'
    BY <1>1, <1>3, Zenon DEF RingInv, StepInv, CallInv, EventThreadEnded
  <1>9. (AttendInv /\ RestInv /\ KickInv)'
    BY <1>1, <1>3, Zenon DEF AttendInv, AttendOf, Attended, EventThreadEnded, RestInv,
       RestOf, KickInv, KickOf, Working
  <1> QED
    BY <1>4, <1>5, <1>6, <1>7, <1>8, <1>9, Zenon DEF TypeInv, TransInv

(* It takes back all that was returned. *)
LEMMA HarvestKeeps ==
    ASSUME TransInv, Harvest
    PROVE  TransInv'
  <1>1. /\ RingType /\ KickType /\ LifeType /\ BusType /\ EvType /\ IsrType
        /\ RingInv /\ StepInv /\ CallInv /\ OwnerInv /\ AttendInv /\ RestInv /\ KickInv /\ IrqInv
    BY Zenon DEF TransInv, TypeInv
  <1>2. /\ isr.pc = "harvest" /\ isr' = [isr EXCEPT !.pc = "arm"]
        /\ seen' = [q \in Queues |-> IF DeviceOf(q) = isr.dev THEN used[q] ELSE seen[q]]
    BY Zenon DEF Harvest, IsrVars
  <1>3. UNCHANGED <<drv, activated, taken, sub, bus, call, avail, next, used, availEvent,
           usedEvent, kick, efd, ev, evq, listen, status>>
    BY Zenon DEF Harvest, IsrVars, lifeVars, ringVars, guestVars, evVars, irqVars
  <1>4. (RingType /\ IsrType)'
    BY <1>1, <1>2, <1>3, Zenon DEF RingType, IsrType
  <1>5. (KickType /\ LifeType /\ BusType /\ EvType)'
    BY <1>1, <1>3, Zenon DEF KickType, LifeType, BusType, EvType
  <1>6. RingInv'
    BY <1>1, <1>2, <1>3 DEF RingInv, RingType
  <1>7. OwnerInv'
    BY <1>1, <1>2, Names, <1>3, Zenon DEF OwnerInv, EventThreadEnded, IsrType
  <1>8. RestInv'
    <2> SUFFICES ASSUME NEW x \in Queues PROVE RestOf(x)'
      BY Zenon DEF RestInv
    <2>1. RestOf(x) /\ DeviceOf(x) \in Devices /\ x \in Queues
      BY <1>1, <1>2, <1>3, Names, Zenon DEF RestInv, EvType
    <2> QED
      BY <1>1, <1>2, <1>3, <2>1, Names, Zenon DEF RingType, KickType, LifeType, RestOf,
         OwnerInv
  <1>9. IrqInv'
    BY <1>1, <1>2, Names, <1>3, Zenon DEF IrqInv, IrqOf, Deaf, RingType, IsrType
  <1>10. (StepInv /\ CallInv /\ AttendInv)'
    BY <1>1, <1>3, Zenon DEF StepInv, CallInv, EventThreadEnded, AttendInv, AttendOf,
       Attended
  <1>11. KickInv'
    BY <1>1, <1>3, Zenon DEF KickInv, KickOf, Working, EventThreadEnded
  <1> QED
    BY <1>4, <1>5, <1>6, <1>7, <1>8, <1>9, <1>10, <1>11, Zenon DEF TypeInv, TransInv

(* It asks for the next interrupt, and leaves only with rings that are empty. *)
LEMMA ArmIrqKeeps ==
    ASSUME TransInv, ArmIrq
    PROVE  TransInv'
  <1>1. /\ RingType /\ KickType /\ LifeType /\ BusType /\ EvType /\ IsrType
        /\ RingInv /\ StepInv /\ CallInv /\ OwnerInv /\ AttendInv /\ RestInv /\ KickInv /\ IrqInv
    BY Zenon DEF TransInv, TypeInv
  <1>2. /\ isr.pc = "arm"
        /\ \/ /\ usedEvent' = [q \in Queues |-> IF q \in QueuesOf(isr.dev) THEN seen[q] ELSE usedEvent[q]]
              /\ UNCHANGED isr
           \/ /\ isr' = [isr EXCEPT !.pc = "harvest"] /\ UNCHANGED usedEvent
           \/ /\ \A q \in QueuesOf(isr.dev) : usedEvent[q] = seen[q] /\ used[q] = seen[q]
              /\ isr' = IsrNext(isr.todo) /\ UNCHANGED usedEvent
    BY Zenon DEF ArmIrq, IsrVars
  <1>3. UNCHANGED <<drv, activated, taken, sub, bus, call, avail, next, used, seen,
           availEvent, kick, efd, ev, evq, listen, status>>
    BY Zenon DEF ArmIrq, IsrVars, lifeVars, ringVars, guestVars, evVars, irqVars
  <1>4. (RingType /\ IsrType)'
    BY <1>1, <1>2, <1>3 DEF RingType, IsrType, IsrNext, Idle
  <1>5. (KickType /\ LifeType /\ BusType /\ EvType)'
    BY <1>1, <1>3, Zenon DEF KickType, LifeType, BusType, EvType
  <1>6. OwnerInv'
    BY <1>1, <1>2, Names, <1>3 DEF OwnerInv, EventThreadEnded, IsrNext, Idle, IsrType
  <1>7. IrqInv'
    BY <1>1, <1>2, Names, <1>3 DEF IrqInv, IrqOf, Deaf, RingType, IsrNext, Idle, IsrType
  <1>8. (RingInv /\ StepInv /\ CallInv)'
    BY <1>1, <1>3, Zenon DEF RingInv, StepInv, CallInv, EventThreadEnded
  <1>9. (AttendInv /\ RestInv /\ KickInv)'
    BY <1>1, <1>3, Zenon DEF AttendInv, AttendOf, Attended, EventThreadEnded, RestInv,
       RestOf, KickInv, KickOf, Working
  <1> QED
    BY <1>4, <1>5, <1>6, <1>7, <1>8, <1>9, Zenon DEF TypeInv, TransInv

(* Steps that change none of this. *)
LEMMA UnseenKeeps ==
    ASSUME TransInv, Unseen
    PROVE  TransInv'
  <1>1. /\ RingType /\ KickType /\ LifeType /\ BusType /\ EvType /\ IsrType
        /\ RingInv /\ StepInv /\ CallInv /\ OwnerInv /\ AttendInv /\ RestInv /\ KickInv /\ IrqInv
    BY Zenon DEF TransInv, TypeInv
  <1>2. UNCHANGED <<drv, activated, taken, sub, bus, call, avail, next, used, seen,
           availEvent, usedEvent, kick, isr, efd, ev, evq, listen, status>>
    BY Zenon DEF Unseen, lifeVars, ringVars, guestVars, evVars, irqVars
  <1>3. (RingType /\ KickType /\ LifeType /\ BusType /\ EvType /\ IsrType)'
    BY <1>1, <1>2, Zenon DEF RingType, KickType, LifeType, BusType, EvType, IsrType
  <1>4. (RingInv /\ StepInv /\ CallInv)'
    BY <1>1, <1>2, Zenon DEF RingInv, StepInv, CallInv, EventThreadEnded
  <1>5. (OwnerInv /\ AttendInv /\ RestInv)'
    BY <1>1, <1>2, Zenon DEF OwnerInv, EventThreadEnded, AttendInv, AttendOf, Attended,
       RestInv, RestOf
  <1>6. (KickInv /\ IrqInv)'
    BY <1>1, <1>2, Zenon DEF KickInv, KickOf, Working, EventThreadEnded, IrqInv, IrqOf, Deaf
  <1> QED
    BY <1>3, <1>4, <1>5, <1>6, Zenon DEF TypeInv, TransInv
-----------------------------------------------------------------------------
(* What a step of the system is for the rings, the bus, the event thread   *)
(* and the drivers, whichever device takes it.                             *)
Step ==
    \/ ServerExits \/ ServeCall \/ FinishRound \/ ProcessRx \/ MoveOn \/ GiveUp
    \/ DeliverIrq \/ AckIrq \/ Harvest \/ ArmIrq \/ Unseen
    \/ \E d \in Devices :
          Reset(d) \/ Activate(d) \/ Activated(d) \/ CallFails(d) \/ ResetDone(d) \/ ReadStatus(d)
    \/ \E q \in Queues :
          \/ WakeUp(q) \/ TakeChain(q) \/ AddUsed(q) \/ EnableNotification(q)
          \/ Submit(q) \/ TestKick(q) \/ Kick(q)
          \/ \E after \in {"drain", "enable"} : NeedsNotification(q, after)

(* The queue at which the event thread works is one of the devices'. *)
LEMMA WorkingQueue ==
    ASSUME EvType, evq \in {"blk", "rx", "tx"}
    PROVE  evq \in Queues
  BY DEF EvType, NoQueue

(* The steps that both handlers take for one of their queues. *)
LEMMA HandlerSteps ==
    ASSUME EvType, NEW q \in {"blk", "rx", "tx"}, NEW after \in {"drain", "enable"},
           NEW again \in {"drain", "timeouts"}, again = "timeouts" => q = "rx",
           \/ QueueEmpty(q) \/ AddUsed(q) \/ NeedsNotification(q, after)
           \/ SignalUsedQueue(q, after) \/ EnableNotification(q) \/ Recheck(q, again)
    PROVE  Step
  <1>1. CASE QueueEmpty(q)
    BY <1>1, Zenon DEF QueueEmpty, Step, MoveOn, irqVars
  <1>2. CASE SignalUsedQueue(q, after)
    BY <1>2, Zenon DEF SignalUsedQueue, Step, MoveOn
  <1>3. CASE Recheck(q, again)
    BY <1>3, Zenon DEF Recheck, Step, MoveOn, irqVars
  <1>4. CASE AddUsed(q) \/ NeedsNotification(q, after) \/ EnableNotification(q)
    <2>1. evq = q
      BY <1>4, Zenon DEF AddUsed, NeedsNotification, EnableNotification
    <2>2. q \in Queues
      BY <2>1, WorkingQueue, Zenon
    <2> QED
      BY <1>4, <2>2, Zenon DEF Step
  <1> QED
    BY <1>1, <1>2, <1>3, <1>4, Zenon

(* The block device's handler takes such steps. *)
LEMMA BlockSteps ==
    ASSUME EvType, BlockHandler
    PROVE  Step
  <1>1. CASE ProcessBlk
    <2>1. "blk" \in Queues
      BY <1>1, Zenon DEF ProcessBlk, Wakes, EvType
    <2> QED
      BY <1>1, <2>1, Zenon DEF ProcessBlk, Step, WakeUp, irqVars
  <1>2. CASE ProcessChain
    <2>1. "blk" \in Queues
      BY <1>2, WorkingQueue, Zenon DEF ProcessChain
    <2> QED
      BY <1>2, <2>1, Zenon DEF ProcessChain, Step, TakeChain, irqVars
  <1>3. CASE \/ QueueEmpty("blk") \/ AddUsed("blk") \/ NeedsNotification("blk", "drain")
             \/ SignalUsedQueue("blk", "drain") \/ EnableNotification("blk")
             \/ Recheck("blk", "drain")
    BY <1>3, HandlerSteps, Zenon
  <1>4. CASE QueueErrorBlk
    <2>1. listen' \subseteq listen /\ evq' = "blk" /\ "blk" \notin listen'
      BY <1>4, Zenon DEF QueueErrorBlk
    <2>2. Deaf(evq)'
      BY <2>1, Zenon DEF Deaf
    <2> QED
      BY <1>4, <2>1, <2>2, Zenon DEF QueueErrorBlk, Step, GiveUp, irqVars
  <1> QED
    BY <1>1, <1>2, <1>3, <1>4, Zenon DEF BlockHandler, ProcessQueue

(* So does the console's; without a chain process_rxq() moves on. *)
LEMMA ConsoleSteps ==
    ASSUME EvType, StepInv, ConsoleHandler
    PROVE  Step
  <1>1. CASE ProcessTx
    <2>1. "tx" \in Queues
      BY <1>1, Zenon DEF ProcessTx, Wakes, EvType
    <2> QED
      BY <1>1, <2>1, Zenon DEF ProcessTx, Step, WakeUp, irqVars
  <1>2. CASE TxChain
    <2>1. "tx" \in Queues
      BY <1>2, WorkingQueue, Zenon DEF TxChain
    <2> QED
      BY <1>2, <2>1, Zenon DEF TxChain, Step, TakeChain, irqVars
  <1>3. CASE RxChain
    <2>1. evq = "rx" /\ "rx" \in Queues
      BY <1>3, WorkingQueue, Zenon DEF RxChain, StepInv
    <2>2. CASE next["rx"] < avail["rx"]
      BY <1>3, <2>1, <2>2, Zenon DEF RxChain, Step, TakeChain, irqVars
    <2>3. CASE ~(next["rx"] < avail["rx"])
      BY <1>3, <2>1, <2>3, Zenon DEF RxChain, Step, MoveOn, irqVars, ringVars
    <2> QED
      BY <2>2, <2>3, Zenon
  <1>4. CASE \/ QueueEmpty("tx") \/ AddUsed("tx") \/ NeedsNotification("tx", "drain")
             \/ SignalUsedQueue("tx", "drain") \/ EnableNotification("tx")
             \/ Recheck("tx", "drain")
    BY <1>4, HandlerSteps, Zenon
  <1>5. CASE \/ AddUsed("rx") \/ NeedsNotification("rx", "enable")
             \/ SignalUsedQueue("rx", "enable") \/ EnableNotification("rx")
             \/ Recheck("rx", "timeouts")
    BY <1>5, HandlerSteps, Zenon
  <1>6. CASE ProcessRx
    BY <1>6, Zenon DEF Step
  <1>7. CASE UnexpectedEventSet
    <2>1. evq = NoQueue
      BY <1>7, Zenon DEF UnexpectedEventSet, PtsReady, StepInv
    <2> QED
      BY <1>7, <2>1 DEF UnexpectedEventSet, PtsReady, HandleError, Step, GiveUp, irqVars,
                        EvType, Queues, QueuesOf, NoQueue
  <1>8. CASE QueueErrorCon
    <2>1. /\ listen' \subseteq listen /\ evq' \in {"rx", "tx"} /\ "tx" \notin listen'
          /\ ev' \in {"timeouts", "panicked"}
      BY <1>8, Zenon DEF QueueErrorCon, HandleError
    <2>2. Deaf(evq)'
      BY <2>1, Zenon DEF Deaf
    <2> QED
      BY <1>8, <2>1, <2>2, Zenon DEF QueueErrorCon, Step, GiveUp, irqVars
  <1> QED
    BY <1>1, <1>2, <1>3, <1>4, <1>5, <1>6, <1>7, <1>8, Zenon
    DEF ConsoleHandler, ProcessTxq, ProcessRxq

(* Every step of the system is such a step. *)
LEMMA NextSteps ==
    ASSUME EvType, StepInv, [Next]_vars
    PROVE  Step
  <1>1. CASE EventThread
    BY <1>1, BlockSteps, ConsoleSteps, Zenon DEF EventThread, Step
  <1>2. CASE Server
    BY <1>2, Zenon DEF Server, ActivateBlk, ActivateCon, Step
  <1>3. CASE GuestIsr \/ Interrupt
    BY <1>3, Zenon DEF GuestIsr, Interrupt, Step
  <1>4. CASE \E q \in Queues : GuestKick(q)
    BY <1>4, Zenon DEF GuestKick, Step
  <1>5. CASE "blk" \in Devices /\ SubmitRequest
    BY <1>5, Zenon DEF SubmitRequest, Step, Queues, QueuesOf
  <1>6. CASE "con" \in Devices /\ \E q \in {"rx", "tx"} : SubmitConsole(q)
    BY <1>6 DEF SubmitConsole, Step, Queues, QueuesOf
  <1>7. CASE ResetBlk \/ ResetCon
    BY <1>7, Zenon DEF ResetBlk, ResetCon, Step
  <1>8. CASE TypeChunk \/ HangUp \/ LoseIrq \/ Shutdown \/ Ripen \/ UNCHANGED vars
    <2>1. Unseen
      BY <1>8 DEF TypeChunk, HangUp, LoseIrq, Shutdown, Ripen, vars, Unseen, irqVars
    <2> QED
      BY <2>1, Zenon DEF Step
  <1> QED
    BY <1>1, <1>2, <1>3, <1>4, <1>5, <1>6, <1>7, <1>8, Zenon DEF Next, Environment

(* And every such step keeps the invariant. *)
LEMMA StepKeeps ==
    ASSUME TransInv, Step
    PROVE  TransInv'
  <1>1. CASE ServerExits \/ ServeCall \/ FinishRound \/ ProcessRx \/ MoveOn \/ GiveUp
    BY <1>1, ServerExitsKeeps, ServeCallKeeps, FinishRoundKeeps, ProcessRxKeeps,
       MoveOnKeeps, GiveUpKeeps, Zenon
  <1>2. CASE DeliverIrq \/ AckIrq \/ Harvest \/ ArmIrq \/ Unseen
    BY <1>2, DeliverIrqKeeps, AckIrqKeeps, HarvestKeeps, ArmIrqKeeps, UnseenKeeps, Zenon
  <1>3. ASSUME NEW d \in Devices,
               \/ Reset(d) \/ Activate(d) \/ Activated(d) \/ CallFails(d) \/ ResetDone(d)
               \/ ReadStatus(d)
        PROVE  TransInv'
    BY <1>3, ResetKeeps, ActivateKeeps, ActivatedKeeps, CallFailsKeeps, ResetDoneKeeps,
       ReadStatusKeeps, Zenon
  <1>4. ASSUME NEW q \in Queues,
               \/ WakeUp(q) \/ TakeChain(q) \/ AddUsed(q) \/ EnableNotification(q)
               \/ Submit(q) \/ TestKick(q) \/ Kick(q)
               \/ \E after \in {"drain", "enable"} : NeedsNotification(q, after)
        PROVE  TransInv'
    BY <1>4, WakeUpKeeps, TakeChainKeeps, AddUsedKeeps, EnableNotificationKeeps, SubmitKeeps,
       TestKickKeeps, KickKeeps, NeedsNotificationKeeps, Zenon
  <1> QED
    BY <1>1, <1>2, <1>3, <1>4, Zenon DEF Step

-----------------------------------------------------------------------------
(* Accesses to the disk *)

(* Whole sectors up to the end of the disk's last whole sector stay inside *)
(* of the disk, whatever the shift of the sector number loses.             *)
LEMMA SectorsInside ==
    ASSUME NEW S \in Nat \ {0}, NEW W \in Nat \ {0}, NEW bytes \in Nat,
           NEW sector \in Nat, NEW len \in Nat, len % S = 0,
           len \div S + sector <= bytes \div S
    PROVE  ((sector * S) % W) + len \in Nat /\ ((sector * S) % W) + len <= bytes
  <1> DEFINE count == len \div S
             limit == bytes \div S
  <1>1. count \in Nat /\ len = count * S
    BY Z3
  <1>2. limit \in Nat /\ limit * S <= bytes
    BY Z3
  <1>3. sector * S \in Nat /\ (sector * S) % W \in Nat /\ (sector * S) % W <= sector * S
    BY Z3
  <1>4. count + sector <= limit
    OBVIOUS
  <1> HIDE DEF count, limit
  <1>5. (count + sector) * S <= limit * S
    BY <1>1, <1>2, <1>4, Z3
  <1>6. (count + sector) * S = count * S + sector * S
    BY <1>1, Z3
  <1> QED
    BY <1>1, <1>2, <1>3, <1>5, <1>6, Z3

(* execute() touches what it has checked. *)
LEMMA ExecuteInside ==
    ASSUME touched \in Nat, touched <= DiskBytes, NEW r \in Requests, Execute(r)
    PROVE  touched' \in Nat /\ touched' <= DiskBytes
  <1>1. CASE touched' = touched
    BY <1>1
  <1>2. CASE Bytes(r) # {} /\ touched' = Offset(r) + r.reach
    <2>1. r.sector \in Nat /\ r.len \in Nat /\ r.reach \in 0 .. r.len
      BY RequestsAssumption
    <2>2. /\ SectorBytes \in Nat \ {0} /\ Word \in Nat \ {0} /\ DiskBytes \in Nat
      BY DiskAssumption
    <2>3. r.len % SectorBytes = 0 /\ r.len \div SectorBytes + r.sector <= DiskSectors
      BY <1>2, Zenon DEF Bytes, Accepts, CheckAccess
    <2>4. Offset(r) + r.len \in Nat /\ Offset(r) + r.len <= DiskBytes
      BY <2>1, <2>2, <2>3, SectorsInside, Zenon DEF Offset, DiskSectors
    <2>5. Offset(r) \in Nat
      BY <2>1, <2>2, Z3 DEF Offset
    <2> QED
      BY <1>2, <2>1, <2>2, <2>4, <2>5
  <1> QED
    BY <1>1, <1>2, Zenon DEF Execute

-----------------------------------------------------------------------------
(* The answers as those of a disk *)

(* A number below the modulus is its own remainder. *)
LEMMA SmallMod ==
    ASSUME NEW x \in Nat, NEW W \in Nat, x < W
    PROVE  x % W = x
  BY Z3

(* Sector numbers order their offsets. *)
LEMMA SectorOrder ==
    ASSUME NEW S \in Nat \ {0}, NEW a \in Nat, NEW b \in Nat
    PROVE  /\ a * S \in Nat /\ b * S \in Nat
           /\ a * S <= b * S <=> a <= b
  <1>1. a * S \in Nat /\ b * S \in Nat
    BY Z3
  <1>2. ASSUME a <= b PROVE a * S <= b * S
    BY <1>1, <1>2, Z3
  <1>3. ASSUME ~(a <= b) PROVE ~(a * S <= b * S)
    <2>1. b + 1 <= a
      BY <1>3
    <2>2. (b + 1) * S <= a * S
      BY <2>1, Z3
    <2>3. (b + 1) * S = b * S + S
      BY Z3
    <2> QED
      BY <1>1, <2>2, <2>3, Z3
  <1> QED
    BY <1>1, <1>2, <1>3

(* What execute() accepts is what lies on the disk and can be moved, and   *)
(* the shift of its sector number loses nothing.                           *)
LEMMA AcceptsIsMoves ==
    ASSUME NEW r \in Requests, r.type \in {"in", "out", "flush"}
    PROVE  /\ Accepts(r) <=> IO!Moves(r)
           /\ IO!OnDisk(r) => /\ Offset(r) = r.sector * SectorBytes
                              /\ r.sector * SectorBytes \in Nat
                              /\ r.sector * SectorBytes + r.len <= DiskBytes
  <1> DEFINE S == SectorBytes
             count == r.len \div S
             limit == DiskBytes \div S
             reachable == r.len = 0 \/ r.reach > 0
  <1>1. /\ r.sector \in Nat /\ r.len \in Nat /\ (r.type = "flush" => r.len = 0)
        /\ S \in Nat \ {0} /\ Word \in Nat /\ DiskBytes \in Nat /\ DiskBytes < Word
    BY RequestsAssumption, DiskAssumption
  <1>2. count \in Nat /\ limit \in Nat /\ (r.len % S = 0 <=> r.len = count * S)
    BY <1>1, Z3
  <1>3. r.type = "flush" => r.len % S = 0
    BY <1>1, Z3
  <1>4. limit * S <= DiskBytes /\ limit <= DiskBytes
    BY <1>1, Z3
  <1>5. DiskSectors = limit
    BY DEF DiskSectors
  <1>6. (IO!OnDisk(r) <=> r.len % S = 0 /\ r.sector * S + r.len <= limit * S)
    BY Zenon DEF IO!OnDisk
  <1>7. Offset(r) = (r.sector * S) % Word
    BY Zenon DEF Offset
  <1>8. Accepts(r) <=> /\ r.len % S = 0 /\ count + r.sector < Word
                       /\ count + r.sector <= limit /\ reachable
    <2>1. (r.len > 0 => r.reach > 0) <=> reachable
      BY <1>1
    <2> HIDE DEF reachable
    <2> QED
      BY <1>3, <1>5, <2>1, Zenon DEF Accepts, CheckAccess
  <1>9. IO!Moves(r) <=> IO!OnDisk(r) /\ reachable
    BY Zenon DEF IO!Moves
  <1> HIDE DEF S, count, limit, reachable
  <1>10. ASSUME r.len = count * S
         PROVE  r.sector * S + r.len <= limit * S <=> count + r.sector <= limit
    <2>1. (count + r.sector) * S = r.sector * S + r.len
      BY <1>1, <1>2, <1>10, Z3
    <2>2. (count + r.sector) * S <= limit * S <=> count + r.sector <= limit
      BY <1>1, <1>2, SectorOrder
    <2> QED
      BY <2>1, <2>2, Zenon
  <1>11. Accepts(r) <=> IO!Moves(r)
    BY <1>1, <1>2, <1>4, <1>6, <1>8, <1>9, <1>10
  <1>12. ASSUME IO!OnDisk(r)
         PROVE  /\ Offset(r) = r.sector * S /\ r.sector * S \in Nat
                /\ r.sector * S + r.len <= DiskBytes
    <2>1. r.sector * S + r.len <= limit * S
      BY <1>6, <1>12, Zenon
    <2>2. r.sector * S \in Nat /\ limit * S \in Nat
      BY <1>1, <1>2, Z3
    <2>3. r.sector * S < Word /\ r.sector * S + r.len <= DiskBytes
      BY <1>1, <1>4, <2>1, <2>2
    <2>4. (r.sector * S) % Word = r.sector * S
      BY <1>1, <2>2, <2>3, SmallMod, Zenon
    <2> QED
      BY <1>7, <2>2, <2>3, <2>4, Zenon
  <1> QED
    BY <1>11, <1>12 DEF S

(* A write leaves its number in the bytes that BlockIO names, and in no    *)
(* other.                                                                  *)
LEMMA ExecuteWrites ==
    ASSUME disk \in [0 .. DiskBytes - 1 -> Nat], next["blk"] \in Nat,
           NEW r \in Requests, Execute(r)
    PROVE  /\ disk' \in [0 .. DiskBytes - 1 -> Nat]
           /\ disk' = IO!Written(r, next["blk"] + 1, disk)
  <1> DEFINE S == SectorBytes
             first == r.sector * S
             hit(b) == /\ r.type = "out" /\ IO!Moves(r)
                       /\ first <= b /\ b < first + r.reach
  <1>1. disk' = [b \in 0 .. DiskBytes - 1 |->
                   IF r.type = "out" /\ b \in Bytes(r) THEN next["blk"] + 1 ELSE disk[b]]
    BY Zenon DEF Execute
  <1>2. ASSUME NEW b \in 0 .. DiskBytes - 1
        PROVE  r.type = "out" /\ b \in Bytes(r) <=> hit(b)
    <2>1. CASE ~(r.type = "out" /\ IO!Moves(r))
      <3>1. r.type = "out" => Bytes(r) = {}
        BY <2>1, AcceptsIsMoves, Zenon DEF Bytes
      <3> QED
        BY <2>1, <3>1, Zenon
    <2>2. CASE r.type = "out" /\ IO!Moves(r)
      <3>1. Accepts(r) /\ Offset(r) = first /\ first \in Nat
        BY <2>2, AcceptsIsMoves, Zenon DEF IO!Moves
      <3>2. Bytes(r) = {first + i : i \in 0 .. r.reach - 1}
        BY <2>2, <3>1, Zenon DEF Bytes
      <3>3. r.reach \in Nat /\ DiskBytes \in Nat
        BY RequestsAssumption, DiskAssumption
      <3> HIDE DEF first
      <3>4. b \in Bytes(r) <=> \E i \in 0 .. r.reach - 1 : b = first + i
        BY <3>2, Zenon
      <3>5. (\E i \in 0 .. r.reach - 1 : b = first + i) <=> first <= b /\ b < first + r.reach
        <4>1. ASSUME first <= b, b < first + r.reach
              PROVE  \E i \in 0 .. r.reach - 1 : b = first + i
          <5>1. b - first \in 0 .. r.reach - 1 /\ b = first + (b - first)
            BY <3>1, <3>3, <4>1
          <5> QED
            BY <5>1
        <4>2. ASSUME NEW i \in 0 .. r.reach - 1, b = first + i
              PROVE  first <= b /\ b < first + r.reach
          BY <3>1, <3>3, <4>2
        <4> QED
          BY <4>1, <4>2, Zenon
      <3> QED
        BY <2>2, <3>4, <3>5, Zenon
    <2> QED
      BY <2>1, <2>2, Zenon
  <1> HIDE DEF hit
  <1>3. disk' = [b \in 0 .. DiskBytes - 1 |-> IF hit(b) THEN next["blk"] + 1 ELSE disk[b]]
    BY <1>1, <1>2, Zenon
  <1>4. disk' = IO!Written(r, next["blk"] + 1, disk)
    BY <1>3, Zenon DEF IO!Written, hit
  <1>5. disk' \in [0 .. DiskBytes - 1 -> Nat]
    BY <1>3
  <1> QED
    BY <1>4, <1>5, Zenon

(* The data of the answer to a request. *)
Data(r) ==
    IF r.type = "in" /\ Accepts(r)
    THEN [i \in 1 .. r.reach |-> ByteAt(Offset(r) + i - 1)] ELSE <<>>

(* A read returns the bytes that BlockIO names. *)
LEMMA DataIsBytes ==
    ASSUME disk \in [0 .. DiskBytes - 1 -> Nat], NEW r \in Requests
    PROVE  /\ Data(r) \in Seq(Nat)
           /\ Data(r) = IF r.type = "in" /\ IO!Moves(r)
                        THEN [i \in 1 .. r.reach |-> disk[r.sector * SectorBytes + i - 1]]
                        ELSE <<>>
  <1>1. CASE ~(r.type = "in" /\ IO!Moves(r))
    <2>1. Data(r) = <<>>
      BY <1>1, AcceptsIsMoves, Zenon DEF Data
    <2> QED
      BY <1>1, <2>1
  <1>2. CASE r.type = "in" /\ IO!Moves(r)
    <2> DEFINE first == r.sector * SectorBytes
    <2>1. /\ Accepts(r) /\ Offset(r) = first /\ first \in Nat /\ first + r.len <= DiskBytes
      BY <1>2, AcceptsIsMoves, Zenon DEF IO!Moves
    <2>2. r.len \in Nat /\ r.reach \in 0 .. r.len /\ DiskBytes \in Nat
      BY RequestsAssumption, DiskAssumption
    <2>3. Data(r) = [i \in 1 .. r.reach |-> ByteAt(first + i - 1)]
      BY <1>2, <2>1, Zenon DEF Data
    <2> HIDE DEF first
    <2>4. ASSUME NEW i \in 1 .. r.reach
          PROVE  ByteAt(first + i - 1) = disk[first + i - 1] /\ disk[first + i - 1] \in Nat
      <3>1. first + i - 1 \in 0 .. DiskBytes - 1
        BY <2>1, <2>2
      <3> QED
        BY <3>1, Zenon DEF ByteAt
    <2>5. Data(r) = [i \in 1 .. r.reach |-> disk[first + i - 1]]
      BY <2>3, <2>4, Zenon
    <2>6. Data(r) \in Seq(Nat)
      <3>1. \A i \in 1 .. r.reach : ByteAt(first + i - 1) \in Nat
        BY <2>4, Zenon
      <3>2. r.reach \in Nat
        BY <2>2
      <3> QED
        BY <2>3, <3>1, <3>2
    <2> QED
      BY <1>2, <2>5, <2>6, Zenon DEF first
  <1> QED
    BY <1>1, <1>2, Zenon

(* The answer is BlockIO's. *)
LEMMA AnswerIsDisks ==
    ASSUME disk \in [0 .. DiskBytes - 1 -> Nat], NEW r \in Requests
    PROVE  IO!Answer(r, disk) = [status |-> Status(r), data |-> Data(r)]
  <1> DEFINE read == [i \in 1 .. r.reach |-> disk[r.sector * SectorBytes + i - 1]]
  <1>1. r.type \in {"in", "out", "flush", "id", "other", "bad"}
    BY RequestsAssumption
  <1>2. Data(r) = IF r.type = "in" /\ IO!Moves(r) THEN read ELSE <<>>
    BY DataIsBytes, Zenon
  <1>3. CASE r.type = "bad"
    BY <1>2, <1>3 DEF IO!Answer, Status
  <1>4. CASE r.type = "id"
    BY <1>2, <1>4 DEF IO!Answer, Status
  <1>5. CASE r.type = "other"
    BY <1>2, <1>5 DEF IO!Answer, Status
  <1>6. CASE r.type = "flush"
    <2>1. r.len = 0
      BY <1>6, RequestsAssumption
    <2>2. /\ Accepts(r) <=> IO!OnDisk(r)
          /\ IO!OnDisk(r) => Offset(r) = r.sector * SectorBytes
      BY <1>6, <2>1, AcceptsIsMoves, Zenon DEF IO!Moves
    <2>3. Status(r) = IF IO!OnDisk(r) /\ (r.sector * SectorBytes) % PageBytes = 0
                      THEN "ok" ELSE "ioerr"
      BY <1>6, <2>2 DEF Status
    <2>4. IO!Answer(r, disk) =
            [status |-> IF IO!OnDisk(r) /\ (r.sector * SectorBytes) % PageBytes = 0
                        THEN "ok" ELSE "ioerr", data |-> <<>>]
      BY <1>6 DEF IO!Answer
    <2> QED
      BY <1>2, <1>6, <2>3, <2>4
  <1>7. CASE r.type \in {"in", "out"}
    <2>1. Accepts(r) <=> IO!Moves(r)
      BY <1>7, AcceptsIsMoves
    <2>2. Status(r) = IF IO!Moves(r) THEN "ok" ELSE "ioerr"
      BY <1>7, <2>1 DEF Status
    <2>3. IO!Answer(r, disk) =
            IF IO!Moves(r)
            THEN [status |-> "ok", data |-> IF r.type = "in" THEN read ELSE <<>>]
            ELSE [status |-> "ioerr", data |-> <<>>]
      BY <1>7 DEF IO!Answer
    <2> HIDE DEF read
    <2> QED
      BY <1>2, <2>2, <2>3
  <1> QED
    BY <1>1, <1>3, <1>4, <1>5, <1>6, <1>7

-----------------------------------------------------------------------------
(* Only SubmitRequest makes requests available to the block device, and    *)
(* only process_chain() takes one. A driver that probes again has no       *)
(* request left.                                                           *)
LEMMA BlockFrame ==
    ASSUME TransInv, [Next]_vars
    PROVE  \/ "blk" \in Devices /\ SubmitRequest
           \/ ProcessChain
           \/ /\ UNCHANGED blockVars
              /\ "blk" \in Devices =>
                    avail'["blk"] = avail["blk"] /\ next'["blk"] = next["blk"]
  <1> DEFINE Same == UNCHANGED blockVars /\ UNCHANGED <<avail, next>>
  <1>0. "blk" \in Devices =>
          "blk" \in Queues /\ avail \in [Queues -> Nat] /\ next \in [Queues -> Nat]
    BY DEF TransInv, TypeInv, RingType, Queues, QueuesOf
  <1>1. CASE EventThread
    <2>1. CASE ServeCall \/ FinishRound
      BY <2>1, Zenon DEF ServeCall, FinishRound, ringVars
    <2>2. CASE BlockHandler
      BY <2>2, Zenon DEF BlockHandler, ProcessBlk, ProcessQueue, QueueEmpty, AddUsed,
         NeedsNotification, SignalUsedQueue, EnableNotification, Recheck, QueueErrorBlk,
         ringVars, blockVars
    <2>3. CASE ConsoleHandler /\ UNCHANGED blockVars
      <3>1. CASE TxChain
        BY <1>0, <2>3, <3>1, Zenon DEF TxChain
      <3>2. CASE RxChain
        BY <1>0, <2>3, <3>2, Zenon DEF RxChain, ringVars
      <3>3. CASE ~TxChain /\ ~RxChain
        BY <2>3, <3>3, Zenon DEF ConsoleHandler, ProcessTx, ProcessTxq, ProcessRx, ProcessRxq,
           UnexpectedEventSet, QueueErrorCon, QueueEmpty, AddUsed, NeedsNotification,
           SignalUsedQueue, EnableNotification, Recheck, ringVars
      <3> QED
        BY <3>1, <3>2, <3>3, Zenon
    <2> QED
      BY <1>1, <2>1, <2>2, <2>3, Zenon DEF EventThread
  <1>2. CASE Server
    BY <1>2, Zenon DEF Server, ActivateBlk, ActivateCon, Activate, Activated, CallFails,
       ServerExits, ResetDone, ringVars
  <1>3. CASE GuestIsr \/ Interrupt \/ \E q \in Queues : GuestKick(q)
    BY <1>3, Zenon DEF GuestIsr, Interrupt, GuestKick, ReadStatus, AckIrq, Harvest, ArmIrq,
       DeliverIrq, TestKick, Kick, ringVars
  <1>4. CASE "con" \in Devices /\ (\E q \in {"rx", "tx"} : SubmitConsole(q)) /\ UNCHANGED blockVars
    BY <1>0, <1>4 DEF SubmitConsole, Submit
  <1>5. CASE (ResetBlk \/ ResetCon) /\ UNCHANGED blockVars
    <2>1. PICK d \in Devices : Reset(d)
      BY <1>5, Zenon DEF ResetBlk, ResetCon
    <2>2. ASSUME "blk" \in Devices
          PROVE  avail'["blk"] = avail["blk"] /\ next'["blk"] = next["blk"]
      <3>1. "blk" \in Queues /\ DeviceOf("blk") = "blk" /\ ("blk" \in QueuesOf(d) => d = "blk")
        BY <2>2, <2>1, Names DEF Queues, QueuesOf, DeviceOf
      <3>2. drv["blk"] = "down" => next["blk"] = avail["blk"]
        BY <3>1 DEF TransInv, TypeInv, RingType, RingInv, RestInv, RestOf
      <3> QED
        BY <2>1, <3>1, <3>2, Zenon DEF Reset, NewRings, ringVars
    <2> QED
      BY <1>5, <2>2, Zenon
  <1>6. CASE (TypeChunk \/ HangUp \/ LoseIrq) /\ UNCHANGED blockVars
    BY <1>6, Zenon DEF TypeChunk, HangUp, LoseIrq, ringVars
  <1>7. CASE Shutdown \/ Ripen \/ UNCHANGED vars
    BY <1>7, Zenon DEF Shutdown, Ripen, vars, ringVars
  <1> QED
    BY <1>1, <1>2, <1>3, <1>4, <1>5, <1>6, <1>7, Zenon
    DEF Next, Environment, ResetBlk, ResetCon, blockVars

(* The request that process_chain() executes was submitted, and its answer *)
(* is the next one.                                                        *)
LEMMA ChainRequest ==
    ASSUME Inv, ProcessChain
    PROVE  /\ "blk" \in Devices /\ "blk" \in Queues
           /\ next["blk"] \in Nat /\ avail["blk"] \in Nat /\ next["blk"] < avail["blk"]
           /\ reqs[next["blk"] + 1] \in Requests /\ Execute(reqs[next["blk"] + 1])
           /\ next'["blk"] = next["blk"] + 1 /\ avail' = avail /\ reqs' = reqs
  <1>1. "blk" \in Queues
    BY WorkingQueue, Zenon DEF ProcessChain, Inv, TransInv, TypeInv
  <1>2. "blk" \in Devices
    BY <1>1 DEF Queues, QueuesOf
  <1>3. avail \in [Queues -> Nat] /\ next \in [Queues -> Nat]
    BY Zenon DEF Inv, TransInv, TypeInv, RingType
  <1>4. /\ next["blk"] < avail["blk"] /\ next' = [next EXCEPT !["blk"] = @ + 1]
        /\ avail' = avail /\ reqs' = reqs /\ Execute(reqs[next["blk"] + 1])
    BY Zenon DEF ProcessChain
  <1>5. reqs[next["blk"] + 1] \in Requests
    <2>1. reqs \in Seq(Requests) /\ Len(reqs) = avail["blk"]
      BY <1>2, Zenon DEF Inv, DiskInv
    <2> QED
      BY <1>1, <1>3, <1>4, <2>1
  <1> QED
    BY <1>1, <1>2, <1>3, <1>4, <1>5, Zenon

(* execute() adds BlockIO's answer. *)
LEMMA ExecuteAnswers ==
    ASSUME DataInv, NEW r \in Requests, Execute(r)
    PROVE  /\ answers' \in Seq([status: Statuses, data: Seq(Nat)])
           /\ Len(answers') = Len(answers) + 1
           /\ answers' = Append(answers, IO!Answer(r, disk))
  <1> DEFINE one == [status |-> Status(r), data |-> Data(r)]
             set == [status: Statuses, data: Seq(Nat)]
  <1>1. answers' = Append(answers, one)
    BY Zenon DEF Execute, Data
  <1>2. answers \in Seq(set) /\ disk \in [0 .. DiskBytes - 1 -> Nat]
    BY Zenon DEF DataInv
  <1>3. Status(r) \in Statuses
    BY DEF Status, Statuses
  <1>4. Data(r) \in Seq(Nat) /\ IO!Answer(r, disk) = one
    BY <1>2, DataIsBytes, AnswerIsDisks, Zenon
  <1>5. one \in set
    BY <1>3, <1>4
  <1> HIDE DEF one, set
  <1>6. answers' \in Seq(set) /\ Len(answers') = Len(answers) + 1
    BY <1>1, <1>2, <1>5
  <1> QED
    BY <1>1, <1>4, <1>6, Zenon DEF set

(* The requests, the answers and the file stay what they should be. *)
LEMMA DiskKeeps ==
    ASSUME Inv, [Next]_vars
    PROVE  DiskInv' /\ DataInv'
  <1>1. TransInv /\ DiskInv /\ DataInv
    BY Zenon DEF Inv
  <1>2. CASE "blk" \in Devices /\ SubmitRequest
    <2>1. avail \in [Queues -> Nat] /\ "blk" \in Queues
      BY <1>1, <1>2 DEF TransInv, TypeInv, RingType, Queues, QueuesOf
    <2>2. DiskInv'
      BY <1>1, <1>2, <2>1 DEF SubmitRequest, Submit, DiskInv
    <2>3. DataInv'
      BY <1>1, <1>2, Zenon DEF SubmitRequest, Submit, DataInv
    <2> QED
      BY <2>2, <2>3, Zenon
  <1>3. CASE ProcessChain
    <2> DEFINE r == reqs[next["blk"] + 1]
    <2>1. /\ "blk" \in Devices /\ next["blk"] \in Nat /\ r \in Requests /\ Execute(r)
          /\ next'["blk"] = next["blk"] + 1 /\ avail' = avail /\ reqs' = reqs
      BY <1>3, ChainRequest, Zenon
    <2> HIDE DEF r
    <2>2. touched' \in Nat /\ touched' <= DiskBytes
      BY <1>1, <2>1, ExecuteInside, Zenon DEF DiskInv
    <2>3. DiskInv'
      BY <1>1, <2>1, <2>2, Zenon DEF DiskInv
    <2>4. disk' \in [0 .. DiskBytes - 1 -> Nat]
      BY <1>1, <2>1, ExecuteWrites, Zenon DEF DataInv
    <2>5. answers' \in Seq([status: Statuses, data: Seq(Nat)]) /\ Len(answers') = Len(answers) + 1
      BY <1>1, <2>1, ExecuteAnswers, Zenon
    <2>6. Len(answers') = next'["blk"]
      BY <1>1, <2>1, <2>5, Zenon DEF DataInv
    <2> QED
      BY <2>3, <2>4, <2>5, <2>6, Zenon DEF DataInv
  <1>4. CASE /\ UNCHANGED blockVars
             /\ "blk" \in Devices => avail'["blk"] = avail["blk"] /\ next'["blk"] = next["blk"]
    BY <1>1, <1>4, Zenon DEF DiskInv, DataInv, blockVars
  <1> QED
    BY <1>1, <1>2, <1>3, <1>4, BlockFrame, Zenon

(* At first every ring is empty and nobody is at work. *)
LEMMA InitInv == Init => Inv
  <1> SUFFICES ASSUME Init PROVE Inv
    OBVIOUS
  <1> USE DEF Init, TransportInit
  <1>1. RingType /\ KickType /\ LifeType
    BY DEF RingType, KickType, LifeType
  <1>2. BusType /\ EvType /\ IsrType
    BY DEF BusType, EvType, IsrType, EvSteps, Idle
  <1>3. RingInv /\ StepInv /\ CallInv
    BY DEF RingInv, StepInv, CallInv
  <1>4. OwnerInv
    BY DevicesAssumption DEF OwnerInv, Idle
  <1>5. AttendInv /\ KickInv
    BY Names DEF AttendInv, AttendOf, Attended, KickInv
  <1>6. RestInv
    BY Names, Zenon DEF RestInv, RestOf
  <1>7. IrqInv
    BY Names, Zenon DEF IrqInv, IrqOf, Deaf, Idle
  <1>8. DiskInv
    BY DiskAssumption DEF DiskInv, BlockInit, Queues, QueuesOf
  <1>9. DataInv
    <2>1. disk = [b \in 0 .. DiskBytes - 1 |-> 0] /\ answers = <<>>
      BY Zenon DEF BlockInit
    <2> QED
      BY <2>1 DEF DataInv, Queues, QueuesOf
  <1> QED
    BY <1>1, <1>2, <1>3, <1>4, <1>5, <1>6, <1>7, <1>8, <1>9, Zenon DEF Inv, TransInv, TypeInv

-----------------------------------------------------------------------------
(* The theorems *)

(* The invariant holds throughout. *)
THEOREM Invariance == Spec => []Inv
  <1>1. Init => Inv
    BY InitInv
  <1>2. Inv /\ [Next]_vars => Inv'
    <2> SUFFICES ASSUME Inv, [Next]_vars PROVE Inv'
      OBVIOUS
    <2>1. TransInv /\ EvType /\ StepInv
      BY Zenon DEF Inv, TransInv, TypeInv
    <2>2. TransInv'
      BY <2>1, NextSteps, StepKeeps, Zenon
    <2> QED
      BY <2>2, DiskKeeps, Zenon DEF Inv
  <1> QED
    BY <1>1, <1>2, PTL DEF Spec

(* While the event manager listens for a queue, a chain that the handler   *)
(* has not taken is being worked on, has its eventfd readable, or is about *)
(* to be kicked: the loop of process_queue() and process_txq() leaves no   *)
(* chain behind, however the driver's submissions interleave with it.      *)
THEOREM NoKickIsLost == Spec => []NoLostKick
  <1>1. Inv => NoLostKick
    <2> SUFFICES ASSUME Inv, NEW q \in listen \ {"rx"}, next[q] < avail[q]
                 PROVE  Working(q) \/ efd[q] \/ kick[q] # "none" \/ EventThreadEnded
      BY DEF NoLostKick
    <2>1. KickOf(q) /\ next[q] \in Nat /\ avail[q] \in Nat
      BY DEF Inv, TransInv, TypeInv, EvType, RingType, KickInv
    <2>2. avail[q] # next[q]
      BY <2>1
    <2> QED
      BY <2>1, <2>2, Zenon DEF KickOf
  <1> QED
    BY <1>1, Invariance, PTL

(* A chain that was returned and not taken back leaves the status bit set, *)
(* unless the event thread is about to decide on the interrupt, the        *)
(* driver's handler is at work, or the queue's handler failed and its      *)
(* descriptor was removed: needs_notification() forgets no interrupt as    *)
(* long as it does not fail, so handle_timeouts() has the bit to repeat a  *)
(* lost one.                                                               *)
THEOREM NoInterruptIsForgotten == Spec => []InterruptOwed
  <1>1. Inv => InterruptOwed
    BY Zenon DEF Inv, TransInv, IrqInv, IrqOf, Deaf, InterruptOwed
  <1> QED
    BY <1>1, Invariance, PTL

(* execute() moves no byte outside of the mapped file, for any size of the *)
(* disk and any width of the arithmetic that holds it.                     *)
THEOREM NoAccessOutsideDisk == Spec => []AccessInsideDisk
  <1>1. Inv => AccessInsideDisk
    BY Zenon DEF Inv, DiskInv, AccessInsideDisk
  <1> QED
    BY <1>1, Invariance, PTL

(* The server panics in _activate() only after the event thread ended.     *)
THEOREM ServerPanicsLast == Spec => []ServerSurvives
  <1>1. Inv => ServerSurvives
    BY Zenon DEF Inv, TransInv, CallInv, ServerSurvives
  <1> QED
    BY <1>1, Invariance, PTL

-----------------------------------------------------------------------------
(* The queue at which the event thread works belongs to a device whose     *)
(* driver is at work, or for which the server waits.                       *)
LEMMA WorkerIsLive ==
    ASSUME TransInv, NEW q \in Queues, evq = q, ~EventThreadEnded,
           NEW d \in Devices, drv[d] \in {"down", "probed"}, bus # d
    PROVE  DeviceOf(q) # d /\ q \notin QueuesOf(d)
  <1>1. AttendOf(q) /\ OwnerInv
    BY Zenon DEF TransInv, AttendInv
  <1>2. DeviceOf(q) # d
    BY <1>1 DEF AttendOf, Attended, OwnerInv
  <1> QED
    BY <1>2, Names

(* A step writes nothing for a device that is reset and not activated.     *)
LEMMA ResetIsQuiet ==
    ASSUME TransInv, Step, NEW d \in Devices, drv[d] \in {"down", "probed"}, bus # d
    PROVE  /\ status'[d] = status[d]
           /\ \A q \in QueuesOf(d) : used'[q] = used[q] /\ next'[q] = next[q]
  <1>1. CASE \/ ServerExits \/ ServeCall \/ FinishRound \/ ProcessRx \/ MoveOn \/ GiveUp
             \/ DeliverIrq \/ Harvest \/ ArmIrq \/ Unseen
    BY <1>1, Zenon DEF ServerExits, ServeCall, FinishRound, ProcessRx, MoveOn, GiveUp, DeliverIrq,
       Harvest, ArmIrq, Unseen, ringVars, irqVars
  <1>2. CASE \E e \in Devices : \/ Reset(e) \/ Activate(e) \/ Activated(e) \/ CallFails(e)
                                \/ ResetDone(e) \/ ReadStatus(e)
    BY <1>2, Zenon DEF Reset, Activate, Activated, CallFails, ResetDone, ReadStatus, ringVars, irqVars
  <1>3. CASE AckIrq
    <2>1. isr.dev # d
      BY Zenon DEF TransInv, OwnerInv
    <2>2. DOMAIN status = Devices
      BY Zenon DEF TransInv, TypeInv, LifeType
    <2> QED
      BY <1>3, <2>1, <2>2, Zenon DEF AckIrq, ringVars
  <1>4. ASSUME NEW q \in Queues,
               \/ WakeUp(q) \/ EnableNotification(q) \/ Submit(q) \/ TestKick(q) \/ Kick(q)
        PROVE  UNCHANGED <<status, used, next>>
    BY <1>4, Zenon DEF WakeUp, EnableNotification, Submit, TestKick, Kick, ringVars, irqVars
  <1>5. ASSUME NEW q \in Queues,
               \/ TakeChain(q) \/ AddUsed(q)
               \/ \E after \in {"drain", "enable"} : NeedsNotification(q, after)
        PROVE  /\ status'[d] = status[d]
               /\ \A x \in QueuesOf(d) : used'[x] = used[x] /\ next'[x] = next[x]
    <2>1. evq = q /\ ~EventThreadEnded
      BY <1>5, Zenon DEF TakeChain, AddUsed, NeedsNotification, EventThreadEnded
    <2>2. DeviceOf(q) # d /\ q \notin QueuesOf(d)
      BY <2>1, WorkerIsLive, Zenon
    <2>3. QueuesOf(d) \subseteq Queues
      BY Names, Zenon
    <2>4. DOMAIN status = Devices /\ DOMAIN used = Queues /\ DOMAIN next = Queues
      BY DEF TransInv, TypeInv, LifeType, RingType
    <2> QED
      BY <1>5, <2>2, <2>3, <2>4, Zenon DEF TakeChain, AddUsed, NeedsNotification, ringVars, irqVars
  <1> QED
    BY <1>1, <1>2, <1>3, <1>4, <1>5, Zenon DEF Step

(* Once reset() returned, and until the device is activated again, no step *)
(* of the event thread or of a driver writes to its used ring, takes one   *)
(* of its chains or changes its interrupt status.                          *)
THEOREM ResetIsFinal == Spec => NoRingWriteAfterReset
  <1>1. Inv /\ [Next]_vars =>
          [\A d \in Devices :
             drv[d] \in {"down", "probed"} /\ bus # d =>
                 /\ status'[d] = status[d]
                 /\ \A q \in QueuesOf(d) : used'[q] = used[q] /\ next'[q] = next[q]]_vars
    <2> SUFFICES ASSUME Inv, [Next]_vars,
                        NEW d \in Devices, drv[d] \in {"down", "probed"}, bus # d
                 PROVE  /\ status'[d] = status[d]
                        /\ \A q \in QueuesOf(d) : used'[q] = used[q] /\ next'[q] = next[q]
      OBVIOUS
    <2>1. TransInv /\ Step
      BY NextSteps, Zenon DEF Inv, TransInv, TypeInv
    <2> QED
      BY <2>1, ResetIsQuiet, Zenon
  <1> QED
    BY <1>1, Invariance, PTL DEF Spec, NoRingWriteAfterReset

-----------------------------------------------------------------------------
(* The refinement of BlockIO *)

(* At first no request is issued and the file is as it was. *)
LEMMA InitImplements == Init => IO!Init
  BY Zenon DEF Init, BlockInit, IO!Init

(* A step of the system issues a request, completes the next one or leaves *)
(* requests, answers and sectors alone.                                    *)
LEMMA NextImplements ==
    ASSUME Inv, [Next]_vars
    PROVE  [IO!Next]_(IO!vars)
  <1>1. CASE "blk" \in Devices /\ SubmitRequest
    <2>1. answers' = answers /\ disk' = disk /\ \E r \in Requests : reqs' = Append(reqs, r)
      BY <1>1, Zenon DEF SubmitRequest
    <2> QED
      BY <2>1, Zenon DEF IO!Next, IO!Issue
  <1>2. CASE ProcessChain
    <2> DEFINE i == next["blk"] + 1
               r == reqs[i]
    <2>1. /\ "blk" \in Devices /\ next["blk"] \in Nat /\ avail["blk"] \in Nat
          /\ next["blk"] < avail["blk"] /\ r \in Requests /\ Execute(r) /\ reqs' = reqs
      BY <1>2, ChainRequest, Zenon
    <2>2. DataInv /\ DiskInv
      BY Zenon DEF Inv
    <2>3. Len(answers) = next["blk"] /\ Len(reqs) = avail["blk"]
      BY <2>1, <2>2, Zenon DEF DataInv, DiskInv
    <2> HIDE DEF r
    <2>4. answers' = Append(answers, IO!Answer(r, disk))
      BY <2>1, <2>2, ExecuteAnswers, Zenon
    <2>5. disk' = IO!Written(r, i, disk)
      BY <2>1, <2>2, ExecuteWrites, Zenon DEF DataInv
    <2>6. IO!Complete
      BY <2>1, <2>3, <2>4, <2>5, Zenon DEF IO!Complete, r
    <2> QED
      BY <2>6, Zenon DEF IO!Next
  <1>3. CASE UNCHANGED blockVars
    BY <1>3, Zenon DEF IO!vars, blockVars
  <1> QED
    BY <1>1, <1>2, <1>3, BlockFrame, Zenon DEF Inv

(* The handler of the block device's queue, with its u64 arithmetic, its   *)
(* short transfers and its interleaving with everything else, implements   *)
(* BlockIO: each request is answered once and in order, what is answered   *)
(* "ok" lies on the disk, a write changes the bytes it names and no other, *)
(* as far as its buffers reach, and a read returns the bytes as the        *)
(* requests answered before it left them.                                  *)
THEOREM BlockImplementsIO == Spec => ImplementsBlockIO
  <1>1. Init => IO!Init
    BY InitImplements
  <1>2. Inv /\ [Next]_vars => [IO!Next]_(IO!vars)
    BY NextImplements
  <1> QED
    BY <1>1, <1>2, Invariance, PTL DEF Spec, ImplementsBlockIO, IO!Spec

=============================================================================
