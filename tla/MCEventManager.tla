--------------------------- MODULE MCEventManager ---------------------------
(* Instances of EventManager for TLC. *)
EXTENDS EventManager, TLC

CONSTANTS l1, l2, a, b, e1, e2, e3

MCListeners == {l1, l2}
MCTypes == {a, b}
MCEvents == {e1, e2, e3}
(* e1 and e2 conflict: e1 has the priority, e2 is earlier; e3 is a quit event. *)
MCTypeOf == e1 :> a @@ e2 :> a @@ e3 :> b
MCPriority == e1 :> 1 @@ e2 :> 0 @@ e3 :> 0
MCTimeStamp == e1 :> 1 @@ e2 :> 0 @@ e3 :> 0
(* Two events and the null pointer, for the runs with nested dispatches.   *)
MCListenersNull == {l1, NullListener}
MCThreeNull == {l1, l2, NullListener}
MCTwoEvents == {e1, e2}
MCTwoTypeOf == e1 :> a @@ e2 :> b
MCTwoPriority == e1 :> 1 @@ e2 :> 0
MCTwoTimeStamp == e1 :> 1 @@ e2 :> 0

(* One type, one listener, for the liveness run.                           *)
MCOneListener == {l1}
MCOneType == {b}
MCOneTypeOf == e1 :> b @@ e2 :> b
=============================================================================
