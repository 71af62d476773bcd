---------------------------- MODULE MmioService ----------------------------
(***************************************************************************)
(* What vmsh promises the guest about its own devices: an access of a vCPU *)
(* to the MMIO range of vmsh is handled by vmsh's device exactly once, and *)
(* the guest gets the device's answer.  Once vmsh is closing, an access    *)
(* that was not handled may be left to the hypervisor, which knows no      *)
(* device there.                                                           *)
(***************************************************************************)
CONSTANT Vcpus

VARIABLES
    phase,   \* the outstanding access of every vCPU, or how its last one ended
    closing  \* vmsh has begun to let go of the hypervisor

vars == <<phase, closing>>

(* "idle": answered by the device; "lost": left to the hypervisor. *)
TypeOK ==
    /\ phase \in [Vcpus -> {"idle", "issued", "served", "lost"}]
    /\ closing \in BOOLEAN

Init ==
    /\ phase = [v \in Vcpus |-> "idle"]
    /\ closing = FALSE

Becomes(v, p) == phase' = [phase EXCEPT ![v] = p] /\ UNCHANGED closing

Issue(v) == phase[v] \in {"idle", "lost"} /\ Becomes(v, "issued")

Serve(v) == phase[v] = "issued" /\ ~closing /\ Becomes(v, "served")

Complete(v) == phase[v] = "served" /\ Becomes(v, "idle")

Abandon(v) == phase[v] = "issued" /\ closing /\ Becomes(v, "lost")

Close == closing' = TRUE /\ UNCHANGED phase

Next ==
    \/ \E v \in Vcpus : Issue(v) \/ Serve(v) \/ Complete(v) \/ Abandon(v)
    \/ Close

Spec == Init /\ [][Next]_vars
=============================================================================
