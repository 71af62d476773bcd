------------------------- MODULE MCStage1Handshake -------------------------
(* Instances of Stage1Handshake for TLC. *)
EXTENDS Stage1Handshake

CONSTANTS block, console

TwoDevices == {block, console}
=============================================================================
