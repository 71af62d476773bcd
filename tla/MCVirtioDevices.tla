--------------------------- MODULE MCVirtioDevices ---------------------------
(***************************************************************************)
(* Instances of VirtioDevices for TLC. A disk of 14 bytes in sectors of 4  *)
(* (three whole sectors and a rest) and pages of 8, with words of 8 bits:  *)
(* sector 64 is the first whose byte offset wraps to 0.                    *)
(***************************************************************************)
EXTENDS VirtioDevices

Request(type, sector, len, reach) ==
    [type |-> type, sector |-> sector, len |-> len, reach |-> reach]

(* A write that can be moved up to the middle of a sector, one that cannot *)
(* be moved, a read past the end with a sum that overflows, and a read of  *)
(* the whole disk.                                                         *)
MCRequests == {Request("out", 1, 8, 6), Request("out", 0, 4, 0),
               Request("in", 255, 4, 4), Request("in", 0, 12, 12)}
(* A flush that msync() refuses. *)
MCOneRequest == {Request("flush", 1, 0, 0)}

Guest(drivers, happens) == [drivers |-> drivers, faults |-> happens]

(* A driver for one of the devices, and everything may happen. *)
MCGuests == {Guest({d}, Often \cup Once) : d \in {"blk", "con"}}
(* Both drivers at work, or one of them while vmsh stops. *)
MCBusyGuests ==
    {Guest({"blk", "con"}, Often)} \cup {Guest({d}, Often \cup {"stop"}) : d \in {"blk", "con"}}
(* Both drivers at work, and the terminal is closed. *)
MCHangupGuests == {Guest({"blk", "con"}, {"hup"})}

MCSubmits == [blk |-> 2, tx |-> 1, rx |-> 1]
MCOneSubmit == [blk |-> 1, tx |-> 1, rx |-> 1]

=============================================================================
