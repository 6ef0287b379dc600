---------------------------- MODULE MCEngineClock ----------------------------
(* Instances of EngineClock for TLC: a unit is 1/60 s. *)
EXTENDS EngineClock

MCFrameTime == [r \in Rates |-> IF r = 0 THEN Second \div 60 ELSE Second \div r]
=============================================================================
