------------------------------ MODULE MCAttach ------------------------------
(* Instances of Attach for TLC. *)
EXTENDS Attach

EveryFault == AllFaults
NoFault == {}
ThreadExits == {"exit"}
ThreadSignals == {"signal"}
BothModes == {"wrap", "ioregion"}
OnlyWrap == {"wrap"}
AnyGroup == BOOLEAN
OwnGroup == {FALSE}
SharedGroup == {TRUE}
=============================================================================
