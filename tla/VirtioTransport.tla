--------------------------- MODULE VirtioTransport ---------------------------
(***************************************************************************)
(* What vmsh's two virtio devices have in common: the split rings they     *)
(* share with the guest's drivers, the way a kick reaches the event        *)
(* thread, the interrupt line they share, the registers the drivers access *)
(* through the MMIO server, and the calls the server makes to the event    *)
(* thread.                                                                 *)
(*                                                                         *)
(* The guest's drivers, the rings (virtio_queue), the register file        *)
(* (virtio_device) and the event manager are not vmsh's code; they are     *)
(* modelled from how vmsh uses them.                                       *)
(*                                                                         *)
(* An MMIO access of the guest is served while the server holds the lock   *)
(* of the device bus, whichever thread serves (mmio-exit-handler, or one   *)
(* ioregion-handler per device), so it is one step that needs a free bus.  *)
(***************************************************************************)
EXTENDS Naturals, FiniteSets

CONSTANTS
    Devices,    \* vmsh's devices: a subset of {"blk", "con"}
    Guests,     \* guests: the devices they have drivers for, and what may happen to them
    Modes,      \* how the guest's accesses reach vmsh: "wrap", "ioregion"
    QueueSize,  \* chains a ring can hold
    Submits     \* Submits[q]: bound on the chains a driver submits on a queue

(* What may happen at any time, and what happens at most once in a run: at *)
(* most one of them.                                                       *)
Often == {"lose", "unbind"}
Once == {"queue", "refuse", "hup", "stop"}

ASSUME DevicesAssumption ==
    /\ Devices \subseteq {"blk", "con"}
    /\ Guests \subseteq [drivers: SUBSET Devices, faults: SUBSET (Often \cup Once)]

QueuesOf(d) == IF d = "blk" THEN {"blk"} ELSE {"rx", "tx"}
Queues == UNION {QueuesOf(d) : d \in Devices}
DeviceOf(q) == IF q = "blk" THEN "blk" ELSE "con"

ASSUME SizesAssumption == QueueSize \in Nat \ {0} /\ Submits \in [Queues -> Nat]

VARIABLES
    mode,        \* use_ioregionfd() or not; fixed
    drv,         \* drv[d]: the guest's driver: "absent", "new", "probed", "ok", "down"
    activated,   \* activated[d]: virtio_cfg.device_activated
    taken,       \* taken[d]: the queues and the ioeventfd left the device
    sub,         \* sub[d]: sub_id is set
    bus,         \* who holds the device bus: "free", a device, or how it ended
    call,        \* request to the event manager: "none", "add", "remove", "done"
    avail,       \* avail[q]: chains the driver has made available
    next,        \* next[q]: chains the device has taken
    used,        \* used[q]: chains the device has returned
    seen,        \* seen[q]: returned chains the driver has taken back
    availEvent,  \* availEvent[q]: the device asks for a kick at this index
    usedEvent,   \* usedEvent[q]: the driver asks for an interrupt at this index
    kick,        \* kick[q]: the driver after a submission: "none", "test", "write"
    efd,         \* efd[q]: the eventfd of the queue is readable
    listen,      \* file descriptors the event manager polls, named by queue
    status,      \* status[d]: interrupt_status # 0
    line,        \* an interrupt is pending on the GSI both devices use
    isr,         \* the guest's interrupt handler: what it does, for whom
    ev,          \* the event thread's step
    evq,         \* the queue it works on
    ripe,        \* 1 ms passed since the block device's last interrupt
    stop,        \* should_stop of the device threads
    faults       \* what may still happen

ringVars == <<avail, next, used, seen, availEvent, usedEvent>>
lifeVars == <<mode, drv, activated, taken, sub, bus, call>>
guestVars == <<kick, isr>>
evVars == <<ev, evq, listen>>
irqVars == <<status, line, ripe>>

NoQueue == "none"
Idle == [todo |-> {}, dev |-> "none", pc |-> "idle"]

EvSteps == {"poll", "drain", "used", "notify", "irqfd", "enable", "recheck",
            "read", "timeouts", "exited", "panicked"}

TransportTypeOK ==
    /\ mode \in {"wrap", "ioregion"}
    /\ drv \in [Devices -> {"absent", "new", "probed", "ok", "down"}]
    /\ activated \in [Devices -> BOOLEAN] /\ taken \in [Devices -> BOOLEAN]
    /\ sub \in [Devices -> BOOLEAN]
    /\ bus \in Devices \cup {"free", "exited", "panicked"}
    /\ call \in {"none", "add", "remove", "done"}
    /\ \A r \in {avail, next, used, seen, availEvent, usedEvent} : r \in [Queues -> Nat]
    /\ \A q \in Queues :
          /\ seen[q] <= used[q] /\ used[q] <= next[q] /\ next[q] <= avail[q]
          /\ avail[q] <= Submits[q] /\ availEvent[q] <= next[q] /\ usedEvent[q] <= seen[q]
    /\ kick \in [Queues -> {"none", "test", "write"}]
    /\ efd \in [Queues -> BOOLEAN]
    /\ listen \subseteq Queues
    /\ status \in [Devices -> BOOLEAN] /\ line \in BOOLEAN /\ ripe \in BOOLEAN
    /\ isr \in [todo: SUBSET Devices, dev: Devices \cup {"none"},
                pc: {"idle", "next", "ack", "harvest", "arm"}]
    /\ ev \in EvSteps /\ evq \in Queues \cup {NoQueue}
    /\ stop \in BOOLEAN /\ faults \subseteq Often \cup Once

TransportInit ==
    /\ mode \in Modes
    /\ \E g \in Guests :
          /\ drv = [d \in Devices |-> IF d \in g.drivers THEN "new" ELSE "absent"]
          /\ faults = g.faults
    /\ activated = [d \in Devices |-> FALSE] /\ taken = [d \in Devices |-> FALSE]
    /\ sub = [d \in Devices |-> FALSE]
    /\ bus = "free" /\ call = "none"
    /\ LET zero == [q \in Queues |-> 0]
       IN  /\ avail = zero /\ next = zero /\ used = zero /\ seen = zero
           /\ availEvent = zero /\ usedEvent = zero
    /\ kick = [q \in Queues |-> "none"] /\ efd = [q \in Queues |-> FALSE]
    /\ listen = {}
    /\ status = [d \in Devices |-> FALSE] /\ line = FALSE /\ ripe = FALSE
    /\ isr = Idle
    /\ ev = "poll" /\ evq = NoQueue
    /\ stop = FALSE

Fault(f) == f \in faults /\ faults' = faults \ Once
NoFault == UNCHANGED faults

-----------------------------------------------------------------------------
(* The MMIO server                                                         *)

(* A thread serves an access of the guest and keeps the bus to itself.     *)
Served == bus = "free"

(* handle_mmio_exits() and ioregion_event_loop() look at should_stop after *)
(* every access they served, and the latter after every 300 ms without one. *)
ServerExits ==
    /\ bus = "free" /\ stop
    /\ bus' = "exited"
    /\ UNCHANGED <<mode, drv, activated, taken, sub, call, ringVars, guestVars, efd,
                   evVars, irqVars, stop, faults>>

(* _activate() of a device. Refused: activated before, features, or a file *)
(* that cannot be opened, all before anything moved. Then the queues move  *)
(* to a handler: removing them from an empty vector panics. The handler    *)
(* goes to the event thread and the server waits for the answer.           *)
Activate(d) ==
    /\ Served /\ drv[d] = "probed"
    /\ \/ /\ IF activated[d] THEN NoFault ELSE Fault("refuse")
          /\ drv' = [drv EXCEPT ![d] = "ok"]
          /\ UNCHANGED <<bus, call, taken>>
       \/ /\ ~activated[d] /\ taken[d] /\ NoFault
          /\ bus' = "panicked"
          /\ UNCHANGED <<drv, call, taken>>
       \/ /\ ~activated[d] /\ ~taken[d] /\ NoFault
          /\ taken' = [taken EXCEPT ![d] = TRUE]
          /\ bus' = d /\ call' = "add"
          /\ UNCHANGED drv
    /\ UNCHANGED <<mode, activated, sub, ringVars, guestVars, efd, evVars, irqVars, stop>>

(* Mutant: without device_activated = true. *)
ActivatedForgets(d) ==
    /\ bus = d /\ drv[d] = "probed" /\ call = "done"
    /\ sub' = [sub EXCEPT ![d] = TRUE]
    /\ drv' = [drv EXCEPT ![d] = "ok"]
    /\ bus' = "free" /\ call' = "none"
    /\ UNCHANGED <<mode, activated, taken, ringVars, guestVars, efd, evVars, irqVars, stop,
                   faults>>

(* The rest of _activate(), once call_blocking() returned. *)
Activated(d) ==
    /\ bus = d /\ drv[d] = "probed" /\ call = "done"
    /\ sub' = [sub EXCEPT ![d] = TRUE]
    /\ activated' = [activated EXCEPT ![d] = TRUE]
    /\ drv' = [drv EXCEPT ![d] = "ok"]
    /\ bus' = "free" /\ call' = "none"
    /\ UNCHANGED <<mode, taken, ringVars, guestVars, efd, evVars, irqVars, stop, faults>>

(* A driver that probes again starts with empty rings. *)
NewRings(d) ==
    /\ avail' = [q \in Queues |-> IF q \in QueuesOf(d) THEN next[q] ELSE avail[q]]
    /\ seen' = [q \in Queues |-> IF q \in QueuesOf(d) THEN used[q] ELSE seen[q]]

(* Mutant: the handler stays with the event thread. *)
ResetKeepsHandler(d) ==
    /\ Served
    /\ \/ drv[d] \in {"new", "down"}
       \/ /\ "unbind" \in faults /\ drv[d] = "ok" /\ isr.dev # d
          /\ \A q \in QueuesOf(d) : kick[q] = "none" /\ (q # "rx" => seen[q] = avail[q])
    /\ drv' = [drv EXCEPT ![d] = IF @ = "ok" THEN "down" ELSE "probed"]
    /\ IF drv[d] = "down" THEN NewRings(d) ELSE UNCHANGED <<avail, seen>>
    /\ UNCHANGED <<mode, activated, taken, sub, bus, call, next, used, availEvent, usedEvent,
                   guestVars, efd, evVars, irqVars, stop, faults>>

(* reset() and _reset(): the handler is taken back from the event thread.  *)
(* A driver resets its device before it probes it and when it goes.        *)
Reset(d) ==
    /\ Served
    /\ \/ drv[d] \in {"new", "down"}
       \/ /\ "unbind" \in faults /\ drv[d] = "ok" /\ isr.dev # d
          /\ \A q \in QueuesOf(d) : kick[q] = "none" /\ (q # "rx" => seen[q] = avail[q])
    /\ IF sub[d]
       THEN /\ sub' = [sub EXCEPT ![d] = FALSE]
            /\ bus' = d /\ call' = "remove"
            /\ UNCHANGED <<drv, avail, seen>>
       ELSE /\ drv' = [drv EXCEPT ![d] = IF @ = "ok" THEN "down" ELSE "probed"]
            /\ IF drv[d] = "down" THEN NewRings(d) ELSE UNCHANGED <<avail, seen>>
            /\ UNCHANGED <<sub, bus, call>>
    /\ UNCHANGED <<mode, activated, taken, next, used, availEvent, usedEvent, guestVars,
                   efd, evVars, irqVars, stop, faults>>

ResetDone(d) ==
    /\ bus = d /\ drv[d] = "ok" /\ call = "done"
    /\ drv' = [drv EXCEPT ![d] = "down"]
    /\ bus' = "free" /\ call' = "none"
    /\ UNCHANGED <<mode, activated, taken, sub, ringVars, guestVars, efd, evVars,
                   irqVars, stop, faults>>

(* The event thread ended before it answered: call_blocking() fails, and   *)
(* with it activate() or reset().                                          *)
CallFails(d) ==
    /\ bus = d /\ call \in {"add", "remove"} /\ ev \in {"exited", "panicked"}
    /\ drv' = [drv EXCEPT ![d] = IF @ = "probed" THEN "ok" ELSE "down"]
    /\ bus' = "free" /\ call' = "none"
    /\ UNCHANGED <<mode, activated, taken, sub, ringVars, guestVars, efd, evVars,
                   irqVars, stop, faults>>

-----------------------------------------------------------------------------
(* The guest: submission                                                   *)

(* The eventfds registered for kicks: the block queue's and the console's  *)
(* transmit queue's. A kick of the receive queue is served without effect, *)
(* so it is left out.                                                      *)
Registered(q) == q \in {"blk", "tx"}

(* A driver makes a chain available and then decides on a kick.           *)
Submit(q) ==
    /\ drv[DeviceOf(q)] = "ok" /\ bus # DeviceOf(q) /\ kick[q] = "none"
    /\ avail[q] < Submits[q] /\ avail[q] - seen[q] < QueueSize
    /\ avail' = [avail EXCEPT ![q] = @ + 1]
    /\ kick' = [kick EXCEPT ![q] = IF Registered(q) THEN "test" ELSE "none"]
    /\ UNCHANGED <<lifeVars, next, used, seen, availEvent, usedEvent, isr, efd, evVars,
                   irqVars, stop, faults>>

(* With VIRTIO_F_RING_EVENT_IDX, which both devices offer, it kicks when   *)
(* the device asked for this index.                                        *)
TestKick(q) ==
    /\ kick[q] = "test"
    /\ kick' = [kick EXCEPT ![q] = IF availEvent[q] = avail[q] - 1 THEN "write" ELSE "none"]
    /\ UNCHANGED <<lifeVars, ringVars, isr, efd, evVars, irqVars, stop, faults>>

(* queue_notify(): through KVM's ioeventfd without vmsh's help, or through *)
(* the server and the UserspaceIoEventFd that matches the queue.           *)
Kick(q) ==
    /\ kick[q] = "write"
    /\ Served \/ mode = "wrap"
    /\ kick' = [kick EXCEPT ![q] = "none"]
    /\ efd' = [efd EXCEPT ![q] = TRUE]
    /\ UNCHANGED <<lifeVars, ringVars, isr, evVars, irqVars, stop, faults>>

-----------------------------------------------------------------------------
(* The guest: interrupts. The handlers of both drivers run on every        *)
(* interrupt of the shared line.                                           *)

(* The handlers of the other devices are next, if there are any. *)
IsrNext(todo) == IF todo = {} THEN Idle ELSE [todo |-> todo, dev |-> "none", pc |-> "next"]

DeliverIrq ==
    /\ line /\ isr = Idle
    /\ line' = FALSE
    /\ isr' = IsrNext({d \in Devices : drv[d] = "ok"})
    /\ UNCHANGED <<lifeVars, ringVars, kick, efd, evVars, status, ripe, stop, faults>>

(* The interrupt never reaches the guest, which is what IrqAckHandler is for. *)
LoseIrq ==
    /\ "lose" \in faults
    /\ line /\ line' = FALSE
    /\ UNCHANGED <<lifeVars, ringVars, guestVars, efd, evVars, status, ripe, stop, faults>>

IsrVars == <<lifeVars, kick, efd, evVars, line, ripe, stop, faults>>

(* The handler reads InterruptStatus; with no bit set the device is done.  *)
ReadStatus(d) ==
    /\ isr.pc = "next" /\ d \in isr.todo
    /\ Served \/ drv[d] # "ok"
    /\ isr' = IF status[d] /\ drv[d] = "ok"
              THEN [todo |-> isr.todo \ {d}, dev |-> d, pc |-> "ack"]
              ELSE IsrNext(isr.todo \ {d})
    /\ UNCHANGED <<IsrVars, ringVars, status>>

(* It writes what it read to InterruptACK, and then looks at the rings.    *)
AckIrq ==
    /\ isr.pc = "ack" /\ Served
    /\ status' = [status EXCEPT ![isr.dev] = FALSE]
    /\ isr' = [isr EXCEPT !.pc = "harvest"]
    /\ UNCHANGED <<IsrVars, ringVars>>

Harvest ==
    /\ isr.pc = "harvest"
    /\ seen' = [q \in Queues |-> IF DeviceOf(q) = isr.dev THEN used[q] ELSE seen[q]]
    /\ isr' = [isr EXCEPT !.pc = "arm"]
    /\ UNCHANGED <<IsrVars, avail, next, used, availEvent, usedEvent, status>>

(* It asks for the next interrupt; what came in before that it takes now.  *)
ArmIrq ==
    /\ isr.pc = "arm"
    /\ LET mine == QueuesOf(isr.dev) IN
       IF \E q \in mine : usedEvent[q] # seen[q]
       THEN /\ usedEvent' = [q \in Queues |-> IF q \in mine THEN seen[q] ELSE usedEvent[q]]
            /\ UNCHANGED isr
       ELSE /\ isr' = IF \E q \in mine : used[q] # seen[q]
                      THEN [isr EXCEPT !.pc = "harvest"]
                      ELSE IsrNext(isr.todo)
            /\ UNCHANGED usedEvent
    /\ UNCHANGED <<IsrVars, avail, next, used, seen, availEvent, status>>

-----------------------------------------------------------------------------
(* The event thread: what the queue handlers share                         *)

(* The event manager polls the descriptors of its subscribers. *)
Wakes(q) == ev = "poll" /\ q \in listen /\ efd[q]

EvKeeps == <<lifeVars, guestVars, stop>>

(* No chain is left in the ring. *)
QueueEmpty(q) ==
    /\ ev = "drain" /\ evq = q /\ next[q] = avail[q]
    /\ ev' = "enable"
    /\ UNCHANGED <<EvKeeps, ringVars, efd, evq, listen, irqVars, faults>>

(* queue.add_used() *)
AddUsed(q) ==
    /\ ev = "used" /\ evq = q
    /\ used' = [used EXCEPT ![q] = @ + 1]
    /\ ev' = "notify"
    /\ UNCHANGED <<EvKeeps, avail, next, seen, availEvent, usedEvent, efd, evq, listen,
                   irqVars, faults>>

(* Mutant: without the status bit. *)
NeedsNotificationNoStatus(q, after) ==
    /\ ev = "notify" /\ evq = q
    /\ ev' = IF usedEvent[q] = used[q] - 1 THEN "irqfd" ELSE after
    /\ UNCHANGED <<EvKeeps, ringVars, efd, evq, listen, irqVars, faults>>

(* needs_notification(): when the driver asked for this index. Then        *)
(* signal_used_queue() sets the status bit first.                          *)
NeedsNotification(q, after) ==
    /\ ev = "notify" /\ evq = q
    /\ IF usedEvent[q] = used[q] - 1
       THEN ev' = "irqfd" /\ status' = [status EXCEPT ![DeviceOf(q)] = TRUE]
       ELSE ev' = after /\ UNCHANGED status
    /\ UNCHANGED <<EvKeeps, ringVars, efd, evq, listen, line, ripe, faults>>

(* ... then writes the irqfd and tells the IrqAckHandler. *)
SignalUsedQueue(q, after) ==
    /\ ev = "irqfd" /\ evq = q
    /\ line' = TRUE
    /\ ripe' = (ripe /\ q # "blk")
    /\ ev' = after
    /\ UNCHANGED <<EvKeeps, ringVars, efd, evq, listen, status, faults>>

(* enable_notification(): ask for a kick at the next index, ... *)
EnableNotification(q) ==
    /\ ev = "enable" /\ evq = q
    /\ availEvent' = [availEvent EXCEPT ![q] = next[q]]
    /\ ev' = "recheck"
    /\ UNCHANGED <<EvKeeps, avail, next, used, seen, usedEvent, efd, evq, listen,
                   irqVars, faults>>

(* ... and report whether chains came in meanwhile. *)
Recheck(q, again) ==
    /\ ev = "recheck" /\ evq = q
    /\ ev' = IF avail[q] # next[q] THEN again ELSE "timeouts"
    /\ UNCHANGED <<EvKeeps, ringVars, efd, evq, listen, irqVars, faults>>

=============================================================================
