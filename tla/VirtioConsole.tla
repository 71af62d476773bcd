---------------------------- MODULE VirtioConsole ----------------------------
(***************************************************************************)
(* The handler of the console's queues, LogQueueHandler: what the guest    *)
(* transmits is written to the pts or to stdout; what the user types on    *)
(* the pts goes to the guest's receive buffers, one chain per event.       *)
(***************************************************************************)
EXTENDS VirtioTransport

CONSTANTS
    Typed,    \* bound: what the user types, in chunks of a read()
    WithPts   \* BOOLEAN: a pts was given on the command line

ASSUME TypedAssumption == Typed \in Nat /\ WithPts \in BOOLEAN

VARIABLES
    typed,    \* chunks the user typed so far
    input,    \* chunks waiting in the pts
    hup,      \* the other end of the pts is gone
    printed   \* chains written to console_out

consoleVars == <<typed, input, hup, printed>>

ConsoleTypeOK ==
    /\ typed \in 0 .. Typed /\ input \in 0 .. typed
    /\ hup \in BOOLEAN
    /\ "con" \in Devices => printed = next["tx"]

ConsoleInit == typed = 0 /\ input = 0 /\ hup = FALSE /\ printed = 0

(* The descriptors init() registers; the receive queue's is the pts. *)
ConsoleFds == {"tx"} \cup (IF WithPts THEN {"rx"} ELSE {})

(* The user types a chunk, or closes the terminal. *)
TypeChunk ==
    /\ WithPts /\ ~hup /\ typed < Typed
    /\ typed' = typed + 1 /\ input' = input + 1
    /\ UNCHANGED <<lifeVars, ringVars, guestVars, efd, evVars, irqVars, stop, faults, hup,
                   printed>>

HangUp ==
    /\ WithPts /\ ~hup /\ Fault("hup")
    /\ hup' = TRUE
    /\ UNCHANGED <<lifeVars, ringVars, guestVars, efd, evVars, irqVars, stop, typed, input,
                   printed>>

(* The driver submits output, or a buffer for input. *)
SubmitConsole(q) == Submit(q) /\ UNCHANGED consoleVars

-----------------------------------------------------------------------------
(* handle_error() removes the transmit queue's descriptor, whichever event *)
(* failed; the event manager refuses to remove it twice, and the expect()  *)
(* ends the event thread.                                                  *)
HandleError ==
    /\ listen' = listen \ {"tx"}
    /\ ev' = IF "tx" \in listen THEN "timeouts" ELSE "panicked"

(* process_txq() *)
TxChain ==
    /\ ev = "drain" /\ evq = "tx" /\ next["tx"] < avail["tx"]
    /\ printed' = printed + 1
    /\ next' = [next EXCEPT !["tx"] = @ + 1]
    /\ ev' = "used"
    /\ UNCHANGED <<EvKeeps, avail, used, seen, availEvent, usedEvent, efd, evq, listen,
                   irqVars, faults, typed, input, hup>>

ProcessTxq ==
    \/ TxChain
    \/ /\ \/ QueueEmpty("tx")
          \/ AddUsed("tx")
          \/ NeedsNotification("tx", "drain")
          \/ SignalUsedQueue("tx", "drain")
          \/ EnableNotification("tx")
          \/ Recheck("tx", "drain")
       /\ UNCHANGED consoleVars

(* Mutant: without looking whether there is a chain. *)
RxChainUnchecked ==
    /\ ev = "read"
    /\ next' = [next EXCEPT !["rx"] = @ + 1]
    /\ input' = input - 1
    /\ ev' = "used"
    /\ UNCHANGED <<EvKeeps, avail, used, seen, availEvent, usedEvent, efd, evq, listen,
                   irqVars, faults, typed, hup, printed>>

(* Mutant: the chain is returned unfilled. *)
RxChainUnread ==
    /\ ev = "read"
    /\ IF next["rx"] < avail["rx"]
       THEN next' = [next EXCEPT !["rx"] = @ + 1] /\ ev' = "used"
       ELSE ev' = "enable" /\ UNCHANGED next
    /\ UNCHANGED <<EvKeeps, avail, used, seen, availEvent, usedEvent, efd, evq, listen,
                   irqVars, faults, consoleVars>>

(* process_rxq(): at most one chain, filled with what one read() returns.  *)
RxChain ==
    /\ ev = "read"
    /\ IF next["rx"] < avail["rx"]
       THEN /\ next' = [next EXCEPT !["rx"] = @ + 1]
            /\ input' = input - 1
            /\ ev' = "used"
       ELSE ev' = "enable" /\ UNCHANGED <<next, input>>
    /\ UNCHANGED <<EvKeeps, avail, used, seen, availEvent, usedEvent, efd, evq, listen,
                   irqVars, faults, typed, hup, printed>>

(* What enable_notification() reports is not looked at. *)
ProcessRxq ==
    \/ RxChain
    \/ /\ \/ AddUsed("rx")
          \/ NeedsNotification("rx", "enable")
          \/ SignalUsedQueue("rx", "enable")
          \/ EnableNotification("rx")
          \/ Recheck("rx", "timeouts")
       /\ UNCHANGED consoleVars

(* process() *)
ProcessTx ==
    /\ Wakes("tx")
    /\ efd' = [efd EXCEPT !["tx"] = FALSE]
    /\ ev' = "drain" /\ evq' = "tx"
    /\ UNCHANGED <<EvKeeps, ringVars, listen, irqVars, faults, consoleVars>>

PtsReady == ev = "poll" /\ "rx" \in listen /\ (hup \/ input > 0)

ProcessRx ==
    /\ PtsReady /\ ~hup
    /\ ev' = "read" /\ evq' = "rx"
    /\ UNCHANGED <<EvKeeps, ringVars, efd, listen, irqVars, faults, consoleVars>>

(* A hangup is reported with every poll from then on. *)
UnexpectedEventSet ==
    /\ PtsReady /\ hup
    /\ HandleError
    /\ UNCHANGED <<EvKeeps, ringVars, efd, evq, irqVars, faults, consoleVars>>

(* An error of either queue, in any of the calls that process_txq() and    *)
(* process_rxq() make to it.                                               *)
QueueErrorCon ==
    /\ evq \in {"rx", "tx"} /\ Fault("queue")
    /\ ev \in {"drain", "read", "used", "notify", "enable", "recheck"}
    /\ HandleError
    /\ UNCHANGED <<EvKeeps, ringVars, efd, evq, irqVars, consoleVars>>

ConsoleHandler ==
    ProcessTx \/ ProcessTxq \/ ProcessRx \/ ProcessRxq \/ UnexpectedEventSet \/ QueueErrorCon

-----------------------------------------------------------------------------
(* Console, in the MMIO server                                             *)

(* _activate() opens the pts before both queues move. *)
ActivateCon ==
    /\ "con" \in Devices
    /\ Activate("con") \/ Activated("con") \/ CallFails("con")
    /\ UNCHANGED consoleVars

ResetCon == "con" \in Devices /\ Reset("con") /\ UNCHANGED consoleVars

=============================================================================
