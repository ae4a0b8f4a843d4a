-------------------------- MODULE MCCrashMonitoring --------------------------
(* Instances of CrashMonitoring for TLC. *)
EXTENDS CrashMonitoring, TLC

Symmetry == Permutations(Ext)
=============================================================================
