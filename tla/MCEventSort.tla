---------------------------- MODULE MCEventSort -----------------------------
(* Six events: two that agree in both keys, and every kind of conflict.    *)
EXTENDS EventSort

MCEvents == 1..6
MCPriority == <<0, 0, 1, 1, 2, 2>>
MCTimeStamp == <<0, 0, 1, 0, 2, 0>>
=============================================================================
