--------------------------- MODULE MCTitleScreen ---------------------------
(* Instances of TitleScreen for TLC. *)
EXTENDS TitleScreen

CONSTANTS a1, a2

MCAnimations == {a1, a2}
MCDurations == {1, 2}
MCFrameTimes == {1, 2}
=============================================================================
