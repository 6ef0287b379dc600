---------------------------- MODULE EventBatches ----------------------------
(***************************************************************************)
(* What a user of the event manager may rely on.  Posted events wait in    *)
(* accepting, from which they can still be withdrawn.  The events of batch *)
(* are delivered one at a time, in some order, none before its time, and   *)
(* each is freed right after its only delivery.  The accepting events      *)
(* become the next batch when the current one is used up, so what a        *)
(* listener posts is never delivered in the batch being delivered.         *)
(***************************************************************************)
EXTENDS Naturals

CONSTANTS Events, TimeStamp, None, MaxTime

VARIABLES accepting, batch, delivering, clock

vars == <<accepting, batch, delivering, clock>>

Init ==
  /\ accepting = {}
  /\ batch = {}
  /\ delivering = None
  /\ clock = 0

Post(e) ==
  /\ e \notin accepting \cup batch
  /\ accepting' = accepting \cup {e}
  /\ UNCHANGED <<batch, delivering, clock>>

Withdraw(S) ==
  /\ S \subseteq accepting
  /\ accepting' = accepting \ S
  /\ UNCHANGED <<batch, delivering, clock>>

Deliver(e) ==
  /\ delivering = None
  /\ e \in batch
  /\ TimeStamp[e] <= clock
  /\ delivering' = e
  /\ UNCHANGED <<accepting, batch, clock>>

Free ==
  /\ delivering \in batch
  /\ batch' = batch \ {delivering}
  /\ delivering' = None
  /\ UNCHANGED <<accepting, clock>>

Exchange ==
  /\ batch = {}
  /\ delivering = None
  /\ batch' = accepting
  /\ accepting' = {}
  /\ UNCHANGED <<delivering, clock>>

Shutdown ==
  /\ delivering = None
  /\ accepting' = {}
  /\ batch' = {}
  /\ UNCHANGED <<delivering, clock>>

Advance ==
  /\ clock < MaxTime
  /\ clock' = clock + 1
  /\ UNCHANGED <<accepting, batch, delivering>>

Next ==
  \/ \E e \in Events : Post(e) \/ Deliver(e)
  \/ \E S \in SUBSET Events : Withdraw(S)
  \/ Free
  \/ Exchange
  \/ Shutdown
  \/ Advance

Spec == Init /\ [][Next]_vars
=============================================================================
