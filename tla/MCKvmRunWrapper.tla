-------------------------- MODULE MCKvmRunWrapper --------------------------
(* Instances of KvmRunWrapper for TLC. *)
EXTENDS KvmRunWrapper

CONSTANTS t1, t2

TwoThreads == {t1, t2}
=============================================================================
