----------------------------- MODULE VirtioBlock -----------------------------
(***************************************************************************)
(* The handler of the block device's queue: InOrderQueueHandler and the    *)
(* QueueHandler that the event manager calls. The backing file is mapped;  *)
(* data moves between the mapping and the memory of the hypervisor with    *)
(* process_vm_readv() and process_vm_writev().                             *)
(*                                                                         *)
(* Bytes of the file hold the number of the request that wrote them.       *)
(***************************************************************************)
EXTENDS VirtioTransport, Sequences

CONSTANTS
    Requests,     \* requests of the driver: [type, sector, len, reach]
    DiskBytes,    \* size of the backing file
    SectorBytes,  \* 2^SECTOR_SHIFT
    PageBytes,    \* the page size, which msync() insists on
    Word          \* 2^64 in the code: the arithmetic of u64

ASSUME DiskAssumption ==
    /\ SectorBytes \in Nat \ {0} /\ Word \in Nat /\ DiskBytes \in 0 .. Word - 1
(* reach: the bytes of a request's buffers, from the first on, that        *)
(* process_vm_readv() or process_vm_writev() can move: both stop at the    *)
(* first address that is not mapped in the hypervisor. None if a buffer    *)
(* does not start in guest memory, which is all that prepare_iovs() looks  *)
(* at. A flush carries no data. Requests of more than u32::MAX bytes,      *)
(* which a read refuses, are left out.                                     *)
ASSUME RequestsAssumption ==
    \A r \in Requests :
        /\ r.type \in {"in", "out", "flush", "id", "other", "bad"}
        /\ r.sector \in Nat /\ r.len \in Nat /\ r.reach \in 0 .. r.len
        /\ r.type = "flush" => r.len = 0

VARIABLES
    reqs,     \* requests the driver submitted, in order
    answers,  \* status and data of the requests executed, in order
    disk,     \* disk[b]: the mapped file
    touched   \* end of the furthest access to the mapping

blockVars == <<reqs, answers, disk, touched>>

Statuses == {"ok", "ioerr", "unsupp", "none"}

BlockTypeOK ==
    /\ "blk" \in Devices => Len(reqs) = avail["blk"] /\ Len(answers) = next["blk"]
    /\ \A i \in DOMAIN reqs : reqs[i] \in Requests
    /\ \A i \in DOMAIN answers : answers[i].status \in Statuses
    /\ disk \in [0 .. DiskBytes - 1 -> 0 .. Submits["blk"]]
    /\ touched \in Nat

BlockInit ==
    /\ reqs = <<>> /\ answers = <<>>
    /\ disk = [b \in 0 .. DiskBytes - 1 |-> 0]
    /\ touched = 0

(* The driver submits a request. *)
SubmitRequest ==
    /\ \E r \in Requests : reqs' = Append(reqs, r)
    /\ Submit("blk")
    /\ UNCHANGED <<answers, disk, touched>>

-----------------------------------------------------------------------------
(* InOrderQueueHandler                                                     *)

(* sectors: disk_size >> SECTOR_SHIFT *)
DiskSectors == DiskBytes \div SectorBytes

(* Mutant: without the shift. *)
OffsetUnscaled(r) == r.sector

(* sector.checked_shl(SECTOR_SHIFT) checks the shift only: the high bits   *)
(* of the sector are lost.                                                 *)
Offset(r) == (r.sector * SectorBytes) % Word

(* Mutant: without the overflow check of checked_add(). *)
CheckAccessWrapping(count, sector) == (count + sector) % Word <= DiskSectors

CheckAccess(count, sector) ==
    /\ count + sector < Word
    /\ count + sector <= DiskSectors

(* execute() does not fail before or in its access to the mapping. A       *)
(* transfer that moves nothing of its data fails, a short one does not.    *)
Accepts(r) ==
    /\ r.type \in {"in", "out"} => r.len % SectorBytes = 0
    /\ CheckAccess(r.len \div SectorBytes, r.sector)
    /\ r.len > 0 => r.reach > 0

(* The status execute() and process_chain() make of a request. One that    *)
(* does not parse gets none; "id" and "other" go to the library's backend. *)
Status(r) ==
    CASE r.type = "bad"   -> "none"
      [] r.type = "id"    -> "ok"
      [] r.type = "other" -> "unsupp"
      [] r.type = "flush" -> IF Accepts(r) /\ Offset(r) % PageBytes = 0 THEN "ok" ELSE "ioerr"
      [] OTHER            -> IF Accepts(r) THEN "ok" ELSE "ioerr"

(* The bytes of the mapping that a read or write moves. *)
Bytes(r) ==
    IF r.type \in {"in", "out"} /\ Accepts(r)
    THEN {Offset(r) + i : i \in 0 .. r.reach - 1} ELSE {}

ByteAt(b) == IF b \in DOMAIN disk THEN disk[b] ELSE Submits["blk"] + 1

Execute(r) ==
    /\ answers' = Append(answers,
           [status |-> Status(r),
            data |-> IF r.type = "in" /\ Accepts(r)
                     THEN [i \in 1 .. r.reach |-> ByteAt(Offset(r) + i - 1)] ELSE <<>>])
    /\ disk' = [b \in DOMAIN disk |->
                  IF r.type = "out" /\ b \in Bytes(r) THEN next["blk"] + 1 ELSE disk[b]]
    /\ touched' = IF Bytes(r) # {} /\ Offset(r) + r.reach > touched
                  THEN Offset(r) + r.reach ELSE touched

(* process_chain() up to the status byte. *)
ProcessChain ==
    /\ ev = "drain" /\ evq = "blk" /\ next["blk"] < avail["blk"]
    /\ Execute(reqs[next["blk"] + 1])
    /\ next' = [next EXCEPT !["blk"] = @ + 1]
    /\ ev' = "used"
    /\ UNCHANGED <<EvKeeps, avail, used, seen, availEvent, usedEvent, efd, evq, listen,
                   irqVars, faults, reqs>>

(* Mutant: without the second look at the ring. *)
ProcessQueueOnce ==
    \/ ProcessChain
    \/ /\ \/ QueueEmpty("blk")
          \/ AddUsed("blk")
          \/ NeedsNotification("blk", "drain")
          \/ SignalUsedQueue("blk", "drain")
          \/ EnableNotification("blk")
          \/ Recheck("blk", "timeouts")
       /\ UNCHANGED blockVars

(* process_queue(): the loop around process_chain(). *)
ProcessQueue ==
    \/ ProcessChain
    \/ /\ \/ QueueEmpty("blk")
          \/ AddUsed("blk")
          \/ NeedsNotification("blk", "drain")
          \/ SignalUsedQueue("blk", "drain")
          \/ EnableNotification("blk")
          \/ Recheck("blk", "drain")
       /\ UNCHANGED blockVars

-----------------------------------------------------------------------------
(* QueueHandler                                                            *)

(* process(): the event is taken before the queue is looked at. *)
ProcessBlk ==
    /\ Wakes("blk")
    /\ efd' = [efd EXCEPT !["blk"] = FALSE]
    /\ ev' = "drain" /\ evq' = "blk"
    /\ UNCHANGED <<EvKeeps, ringVars, listen, irqVars, faults, blockVars>>

(* An error of the queue ends process_queue(): disable_notification() and  *)
(* iter() before a chain is taken, the status byte and add_used() after it *)
(* was executed, needs_notification() after it was returned, either part   *)
(* of enable_notification(). The descriptor leaves the event manager for   *)
(* good.                                                                   *)
QueueErrorBlk ==
    /\ ev \in {"drain", "used", "notify", "enable", "recheck"} /\ evq = "blk" /\ Fault("queue")
    /\ listen' = listen \ {"blk"}
    /\ ev' = "timeouts"
    /\ UNCHANGED <<EvKeeps, ringVars, efd, evq, irqVars, blockVars>>

BlockHandler == ProcessBlk \/ ProcessQueue \/ QueueErrorBlk

-----------------------------------------------------------------------------
(* Block, in the MMIO server                                               *)

(* _activate() opens and maps the file before the queue moves. *)
ActivateBlk ==
    /\ "blk" \in Devices
    /\ Activate("blk") \/ Activated("blk") \/ CallFails("blk")
    /\ UNCHANGED blockVars

ResetBlk == "blk" \in Devices /\ Reset("blk") /\ UNCHANGED blockVars

=============================================================================
