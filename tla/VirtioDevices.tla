---------------------------- MODULE VirtioDevices ----------------------------
(***************************************************************************)
(* vmsh's devices at work: the block device and the console, their drivers *)
(* in the guest, the MMIO server that configures them, and the event       *)
(* thread that serves the queues of both. The devices share the thread,    *)
(* the bus and the interrupt line.                                         *)
(***************************************************************************)
EXTENDS VirtioBlock, VirtioConsole

vars == <<lifeVars, ringVars, guestVars, efd, evVars, irqVars, stop, faults,
          blockVars, consoleVars>>

TypeOK == TransportTypeOK /\ BlockTypeOK /\ ConsoleTypeOK

Init == TransportInit /\ BlockInit /\ ConsoleInit

-----------------------------------------------------------------------------
(* The event thread                                                        *)

(* init() of the handler that _activate() passes to the event manager. *)
FdsOf(d) == IF d = "blk" THEN {"blk"} ELSE ConsoleFds

(* Mutant: without an answer. *)
ServeCallSilent ==
    /\ ev = "poll" /\ call \in {"add", "remove"}
    /\ listen' = IF call = "add" THEN listen \cup FdsOf(bus) ELSE listen \ QueuesOf(bus)
    /\ call' = "none"
    /\ ev' = "timeouts"
    /\ UNCHANGED <<mode, drv, activated, taken, sub, bus, ringVars, guestVars, efd, evq,
                   irqVars, stop, faults, blockVars, consoleVars>>

(* The event manager runs the request of an endpoint: add_subscriber() or  *)
(* remove_subscriber().                                                    *)
ServeCall ==
    /\ ev = "poll" /\ call \in {"add", "remove"}
    /\ listen' = IF call = "add" THEN listen \cup FdsOf(bus) ELSE listen \ QueuesOf(bus)
    /\ call' = "done"
    /\ ev' = "timeouts"
    /\ UNCHANGED <<mode, drv, activated, taken, sub, bus, ringVars, guestVars, efd, evq,
                   irqVars, stop, faults, blockVars, consoleVars>>

(* Mutant: without the interrupt. *)
HandleTimeoutsNever == UNCHANGED line

(* handle_timeouts() of the block device's IrqAckHandler; there is no call *)
(* of the console's.                                                       *)
HandleTimeouts ==
    line' = (line \/ ("blk" \in Devices /\ ripe /\ status["blk"]))

(* run_with_timeout() returns without an event. *)
NoEvent ==
    /\ ev = "poll" /\ call \notin {"add", "remove"}
    /\ \A q \in Queues : ~Wakes(q)
    /\ ~PtsReady

(* The rest of a round of event_thread(), and a round without events. *)
FinishRound ==
    /\ ev = "timeouts" \/ NoEvent
    /\ HandleTimeouts
    /\ ev' = IF stop THEN "exited" ELSE "poll"
    /\ evq' = NoQueue
    /\ UNCHANGED <<lifeVars, ringVars, guestVars, efd, listen, status, ripe, stop, faults,
                   blockVars, consoleVars>>

(* INTERRUPT_ACK_TIMEOUT passes since the block device's last interrupt,   *)
(* which makes a difference only while that is not acknowledged: the next  *)
(* one starts the time anew.                                               *)
Ripen ==
    /\ "blk" \in Devices /\ status["blk"] /\ ~ripe
    /\ ripe' = TRUE
    /\ UNCHANGED <<lifeVars, ringVars, guestVars, efd, evVars, status, line, stop, faults,
                   blockVars, consoleVars>>

EventThread ==
    \/ ServeCall
    \/ FinishRound
    \/ BlockHandler /\ UNCHANGED consoleVars
    \/ ConsoleHandler /\ UNCHANGED blockVars

-----------------------------------------------------------------------------
(* shutdown() of the device threads sets should_stop of each. *)
Shutdown ==
    /\ ~stop /\ Fault("stop")
    /\ stop' = TRUE
    /\ UNCHANGED <<lifeVars, ringVars, guestVars, efd, evVars, irqVars, blockVars, consoleVars>>

Server ==
    \/ ActivateBlk /\ UNCHANGED consoleVars
    \/ ActivateCon /\ UNCHANGED blockVars
    \/ /\ ServerExits \/ \E d \in Devices : ResetDone(d)
       /\ UNCHANGED <<blockVars, consoleVars>>

(* Steps the guest takes once it began them. *)
GuestKick(q) == (TestKick(q) \/ Kick(q)) /\ UNCHANGED <<blockVars, consoleVars>>

GuestIsr ==
    /\ \/ \E d \in Devices : ReadStatus(d)
       \/ AckIrq \/ Harvest \/ ArmIrq
    /\ UNCHANGED <<blockVars, consoleVars>>

(* Steps the guest, the user or chance take or not. *)
Environment ==
    \/ "blk" \in Devices /\ SubmitRequest /\ UNCHANGED consoleVars
    \/ "con" \in Devices /\ (\E q \in {"rx", "tx"} : SubmitConsole(q)) /\ UNCHANGED blockVars
    \/ "con" \in Devices /\ (TypeChunk \/ HangUp) /\ UNCHANGED blockVars
    \/ ResetBlk /\ UNCHANGED consoleVars
    \/ ResetCon /\ UNCHANGED blockVars
    \/ LoseIrq /\ UNCHANGED <<blockVars, consoleVars>>
    \/ Shutdown

Interrupt == DeliverIrq /\ UNCHANGED <<blockVars, consoleVars>>

Next ==
    \/ EventThread \/ Server \/ GuestIsr \/ Interrupt \/ Environment \/ Ripen
    \/ \E q \in Queues : GuestKick(q)

(* Threads of vmsh and the guest's vCPUs keep running; time passes; an     *)
(* interrupt that is raised over and over is delivered at some time; the   *)
(* event manager does not spend all its rounds on an unread pts.           *)
Fairness ==
    /\ WF_vars(EventThread) /\ WF_vars(Server) /\ WF_vars(GuestIsr) /\ WF_vars(Ripen)
    /\ \A q \in Queues : WF_vars(GuestKick(q))
    /\ SF_vars(Interrupt)
    /\ SF_vars(\/ ServeCall
               \/ ProcessBlk /\ UNCHANGED consoleVars
               \/ ProcessTx /\ UNCHANGED blockVars)

Spec == Init /\ [][Next]_vars

FairSpec == Spec /\ Fairness

-----------------------------------------------------------------------------
(* Properties                                                              *)

(* The event thread is in the loop of process_queue() or process_txq(). *)
Working(q) == evq = q /\ ev \in {"drain", "used", "notify", "irqfd", "enable", "recheck"}

EventThreadEnded == ev \in {"exited", "panicked"}

(* A chain is never left behind: while the event manager listens for a     *)
(* queue, a chain the handler has not taken means that the handler is at   *)
(* work on the queue, its eventfd is readable, or the driver is about to   *)
(* kick. This is what enabling notifications and looking again at the ring *)
(* (the loop of process_queue()) is for.                                   *)
NoLostKick ==
    \A q \in listen \ {"rx"} :
        next[q] < avail[q] => Working(q) \/ efd[q] \/ kick[q] # "none" \/ EventThreadEnded

(* The descriptor of the device's kicks is not listened on: before it is   *)
(* activated, after reset(), and once its handler met an error.            *)
Deaf(q) == (IF q = "blk" THEN "blk" ELSE "tx") \notin listen

(* A chain the device returned and the driver has not taken back leaves    *)
(* the status bit set, unless the event thread is about to decide on the   *)
(* interrupt or the driver is at work on the rings: the bit is what        *)
(* handle_timeouts() relies on to repeat a lost interrupt. A handler that  *)
(* failed may have returned a chain without it: an error of                *)
(* needs_notification() comes after add_used().                            *)
InterruptOwed ==
    \A q \in Queues :
        seen[q] < used[q] =>
            \/ status[DeviceOf(q)]
            \/ isr.dev = DeviceOf(q)
            \/ evq = q /\ ev = "notify"
            \/ drv[DeviceOf(q)] # "ok"
            \/ Deaf(q)

(* No read or write moves bytes outside the mapping of the backing file,   *)
(* although execute() shifts the sector number without looking at the      *)
(* bits it loses.                                                          *)
AccessInsideDisk == touched <= DiskBytes

(* The handler answers requests as a disk does, each once and in order,    *)
(* with no byte moved but those the request names: see BlockIO.            *)
IO == INSTANCE BlockIO WITH issued <- reqs, done <- answers, bytes <- disk

ImplementsBlockIO == IO!Spec

(* Every request is answered and its driver learns of it, even if          *)
(* interrupts get lost, unless vmsh stops, the event thread ended, or the  *)
(* queue's descriptor is not listened on.                                  *)
BlockAnswered ==
    \A i \in 1 .. Submits["blk"] :
        (Len(reqs) >= i) ~>
            (\/ seen["blk"] >= i \/ "blk" \notin listen \/ stop \/ EventThreadEnded)

(* What the guest prints is written; what the user types reaches a receive *)
(* buffer once there are enough of them.                                   *)
ConsoleServed ==
    /\ \A i \in 1 .. Submits["tx"] :
          (avail["tx"] >= i) ~>
             (\/ next["tx"] >= i \/ "tx" \notin listen \/ stop \/ EventThreadEnded)
    /\ \A i \in 1 .. Typed :
          (typed >= i /\ avail["rx"] >= i) ~>
             (\/ typed - input >= i \/ "rx" \notin listen
              \/ hup \/ stop \/ EventThreadEnded)

(* Once reset() returned, and until the device is activated again, the     *)
(* device writes neither to the rings nor to the interrupt status.         *)
NoRingWriteAfterReset ==
    [][\A d \in Devices :
          drv[d] \in {"down", "probed"} /\ bus # d =>
              /\ status'[d] = status[d]
              /\ \A q \in QueuesOf(d) : used'[q] = used[q] /\ next'[q] = next[q]]_vars

(* activate() and reset() return: the server that waits for the event      *)
(* thread with the bus locked does not wait forever.                       *)
CallsReturn == (bus \in Devices) ~> (bus \notin Devices)

(* The server does not panic on a queue that left the device while the     *)
(* event thread runs.                                                      *)
ServerSurvives == bus = "panicked" => EventThreadEnded

(* handle_error() expects that the transmit queue's descriptor can be      *)
(* removed: "Failed to remove tx ioevent" is never the end of the thread.  *)
TxRemovable == ev # "panicked"

=============================================================================
