------------------------------- MODULE BlockIO -------------------------------
(***************************************************************************)
(* What the block device promises its driver: every request is answered    *)
(* once and in order; the answer is the one a disk of whole sectors gives, *)
(* over unbounded integers; a read returns the bytes as the requests       *)
(* answered before it left them.                                           *)
(*                                                                         *)
(* The promise is weaker than that of a disk where a request's buffers are *)
(* only partly reachable: such a request is answered "ok" as well, and     *)
(* only the bytes that can be reached are moved.                           *)
(***************************************************************************)
EXTENDS Naturals, Sequences

CONSTANTS
    Requests,     \* the requests of the driver
    DiskBytes,    \* size of the backing file
    SectorBytes,  \* 2^SECTOR_SHIFT
    PageBytes     \* granularity of msync()

VARIABLES
    issued,       \* requests of the driver, in order
    done,         \* answers of the device, in order
    bytes         \* bytes[b]: the request that wrote byte b, 0 at first

vars == <<issued, done, bytes>>

(* The request lies on the disk, in whole sectors. *)
OnDisk(r) ==
    /\ r.len % SectorBytes = 0
    /\ r.sector * SectorBytes + r.len <= (DiskBytes \div SectorBytes) * SectorBytes

(* A read or a write that succeeds. *)
Moves(r) == OnDisk(r) /\ (r.len = 0 \/ r.reach > 0)

(* Status and data of the answer to a request. *)
Answer(r, disk) ==
    CASE r.type = "bad"   -> [status |-> "none", data |-> <<>>]
      [] r.type = "id"    -> [status |-> "ok", data |-> <<>>]
      [] r.type = "other" -> [status |-> "unsupp", data |-> <<>>]
      [] r.type = "flush" ->
           [status |-> IF OnDisk(r) /\ (r.sector * SectorBytes) % PageBytes = 0
                       THEN "ok" ELSE "ioerr",
            data |-> <<>>]
      [] r.type \in {"in", "out"} ->
           IF Moves(r)
           THEN [status |-> "ok",
                 data |-> IF r.type = "in"
                          THEN [i \in 1 .. r.reach |-> disk[r.sector * SectorBytes + i - 1]]
                          ELSE <<>>]
           ELSE [status |-> "ioerr", data |-> <<>>]

(* A write that succeeds leaves its number in the bytes it could move. *)
Written(r, i, disk) ==
    [b \in 0 .. DiskBytes - 1 |->
        IF /\ r.type = "out" /\ Moves(r)
           /\ r.sector * SectorBytes <= b /\ b < r.sector * SectorBytes + r.reach
        THEN i ELSE disk[b]]

Init ==
    /\ issued = <<>> /\ done = <<>>
    /\ bytes = [b \in 0 .. DiskBytes - 1 |-> 0]

Issue ==
    /\ \E r \in Requests : issued' = Append(issued, r)
    /\ UNCHANGED <<done, bytes>>

Complete ==
    /\ Len(done) < Len(issued)
    /\ LET i == Len(done) + 1
       IN  /\ done' = Append(done, Answer(issued[i], bytes))
           /\ bytes' = Written(issued[i], i, bytes)
    /\ UNCHANGED issued

Next == Issue \/ Complete

Spec == Init /\ [][Next]_vars

=============================================================================
