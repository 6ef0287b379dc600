----------------------------- MODULE MCEngineRun -----------------------------
(* Instances of EngineRun for TLC. *)
EXTENDS EngineRun

CONSTANTS f1, f2, f3

MCThree == {f1, f2, f3}
MCCode == {0}
=============================================================================
