------------------------------ MODULE Graphics ------------------------------
(***************************************************************************)
(* The graphics of the engine: the backend, the painter it starts and      *)
(* stops with its context, and the data the game has on it.  The game runs *)
(* between the calls of the backend, and as a listener of its events.      *)
(***************************************************************************)
EXTENDS GraphicsBackend, GLData

vars == <<backend, data>>

TypeOK == BackendTypeOK /\ DataTypeOK

Init == BackendInit /\ DataInit

Setup ==
  \/ (SetupDestroys \/ SetupBegins \/ Show) /\ UNCHANGED data
  \/ SetupTearsDown /\ PainterFinalize
  \/ Creates /\ PainterInitialize

SetupFails ==
  /\ NoVisual \/ NoHints \/ NoViewport \/ \E f \in Failures : NoContext(f[1], f[2])
  /\ UNCHANGED data

Finalizes ==
  /\ Finalize
  /\ IF IsValid THEN PainterFinalize ELSE UNCHANGED data

Game ==
  /\ pc \in {"game", "destroyed", "created"}
  /\ GameStep
  /\ UNCHANGED backend

Next ==
  \/ \E opened \in {{}, {"X11Display"}, Opened} : Initialize(opened) /\ UNCHANGED data
  \/ Focus /\ UNCHANGED data
  \/ Setup
  \/ SetupFails
  \/ Finalizes
  \/ Game

Spec == Init /\ [][Next]_vars

-----------------------------------------------------------------------------
(* While Backend::Active() says that the engine may render, there are a    *)
(* window, a context and a painter for it, and no Setup is under way,      *)
(* whatever has failed before.                                             *)
ActiveComplete ==
  IsActive => pc = "game" /\ handles = Objects /\ painting

=============================================================================
