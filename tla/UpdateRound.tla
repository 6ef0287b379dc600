----------------------------- MODULE UpdateRound -----------------------------
(***************************************************************************)
(* What the layers of a scene, and the entities of an entity layer, may    *)
(* rely on when they are updated.  An update has the objects it is still   *)
(* to come by in a line, from which it takes one after another: it calls   *)
(* those that are alive, and takes the dead ones off the list.  Who is     *)
(* called may add, kill and take off objects.  That changes the line by    *)
(* the object in question only: it goes, or it comes last; or the update   *)
(* is lost, and nothing can be relied on any more.                         *)
(***************************************************************************)
EXTENDS PointerList

CONSTANTS Objects, None

VARIABLES
  present,  (* the objects on the list                                     *)
  dead,     (* the objects that were killed                                *)
  line,     (* those the update has yet to come by                         *)
  current,  (* the object that is being updated                            *)
  state     (* "idle", "update" or "lost"                                  *)

vars == <<present, dead, line, current, state>>

Init ==
  /\ present = {}
  /\ dead = {}
  /\ line = <<>>
  /\ current = None
  /\ state = "idle"

Begin ==
  /\ state = "idle"
  /\ line' \in Seq(present)
  /\ IsInjective(line')
  /\ state' = "update"
  /\ UNCHANGED <<present, dead, current>>

Comes == state = "update" /\ current = None

Bury ==
  /\ Comes
  /\ line # <<>>
  /\ Head(line) \in dead
  /\ present' = present \ {Head(line)}
  /\ line' = Tail(line)
  /\ UNCHANGED <<dead, current, state>>

Call ==
  /\ Comes
  /\ line # <<>>
  /\ Head(line) \notin dead
  /\ current' = Head(line)
  /\ line' = Tail(line)
  /\ UNCHANGED <<present, dead, state>>

Return ==
  /\ state = "update"
  /\ current # None
  /\ current' = None
  /\ UNCHANGED <<present, dead, line, state>>

End ==
  /\ Comes
  /\ line = <<>>
  /\ state' = "idle"
  /\ UNCHANGED <<present, dead, line, current>>

(* Between updates, or when called in one. *)
ClientRuns == state = "update" => current # None

Add(x) ==
  /\ ClientRuns
  /\ x \notin present
  /\ present' = present \cup {x}
  /\ line' = line \/ (state = "update" /\ line' = Append(line, x))
  /\ UNCHANGED <<dead, current, state>>

Kill(x) ==
  /\ ClientRuns
  /\ dead' = dead \cup {x}
  /\ UNCHANGED <<present, line, current, state>>

TakeOff(x) ==
  /\ ClientRuns
  /\ x \in present
  /\ present' = present \ {x}
  /\ line' = Without(line, x)
  /\ UNCHANGED <<dead, current, state>>

(* Who is called does what the update does not survive. *)
Break == state = "update" /\ current # None /\ state' = "lost"

Lost == state = "lost" /\ state' = "lost"

Next ==
  \/ Begin \/ Bury \/ Call \/ Return \/ End
  \/ \E x \in Objects : Add(x) \/ Kill(x) \/ TakeOff(x)
  \/ Break \/ Lost

Spec == Init /\ [][Next]_vars
=============================================================================
