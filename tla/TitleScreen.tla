----------------------------- MODULE TitleScreen -----------------------------
(***************************************************************************)
(* A title screen: a splash layer over a layer with an animated entity,    *)
(* and sound through OpenAL.  The engine's one thread ticks the audio,     *)
(* updates the scene and lets the game run, in turn.                       *)
(***************************************************************************)
EXTENDS SplashSceneLayer, AnimationComponent, OpenALDevice

CONSTANT Longest   (* the time of the longest update                       *)

ASSUME TitleAssumption == Longest \in Nat \ {0}

VARIABLES
  pc,        (* "tick", "write", "update" or "game"                        *)
  covered,   (* the splash layer is on the scene                           *)
  sound      (* the player has a device; bound: the game then leaves the   *)
             (* layers alone                                               *)

vars == <<splash, animation, device, pc, covered, sound>>

TypeOK ==
  /\ SplashTypeOK
  /\ AnimationTypeOK
  /\ DeviceTypeOK
  /\ pc \in {"tick", "write", "update", "game"}
  /\ covered \in BOOLEAN
  /\ sound \in BOOLEAN

Init ==
  /\ SplashInit
  /\ AnimationInit
  /\ DeviceInit
  /\ pc = "tick"
  /\ covered = TRUE
  /\ sound \in BOOLEAN

Tick ==
  /\ pc = "tick"
  /\ IF sound THEN AudioTick ELSE UNCHANGED device
  /\ pc' = IF sound /\ HasRoom THEN "write" ELSE "update"
  /\ UNCHANGED <<splash, animation, covered, sound>>

Write ==
  /\ pc = "write"
  /\ Writing
  /\ pc' = IF write'.at = "idle" THEN "update" ELSE "write"
  /\ UNCHANGED <<splash, animation, covered, sound>>

(* Scene::update begins at the layer that blocks: a zombie is taken off    *)
(* the scene, anything else is updated, and nothing under it.              *)
Update ==
  /\ pc = "update"
  /\ pc' = "game"
  /\ \E d \in 1..Longest :
       IF ~covered THEN AnimationUpdate(d) /\ UNCHANGED <<splash, covered>>
       ELSE IF killed THEN covered' = FALSE /\ UNCHANGED <<splash, animation>>
       ELSE SplashUpdate(d) /\ UNCHANGED <<animation, covered>>
  /\ UNCHANGED <<device, sound>>

Game ==
  /\ pc = "game"
  /\ ~sound
  /\ \/ SplashGame /\ UNCHANGED animation
     \/ AnimationGame /\ UNCHANGED splash
  /\ UNCHANGED <<device, pc, covered, sound>>

GameReturns ==
  /\ pc = "game"
  /\ pc' = "tick"
  /\ UNCHANGED <<splash, animation, device, covered, sound>>

Engine == Tick \/ Write \/ Update \/ GameReturns

Next ==
  \/ ~crashed /\ (Engine \/ Game)
  \/ SourcePlays /\ UNCHANGED <<splash, animation, pc, covered, sound>>

Spec == Init /\ [][Next]_vars

(* The engine runs on, and the game gives the CPU back.                    *)
FairSpec == Spec /\ WF_vars(~crashed /\ Engine)

-----------------------------------------------------------------------------
(* The splash does not flash: an update changes its colour by no more than *)
(* the fade of two of the longest updates, also from one state to the      *)
(* next, unless reset() has started it again.                              *)
NoFlash ==
  [][~again => shade' - shade \in -(2 * Longest)..(2 * Longest)]_vars

(* A splash that may kill itself leaves, and what is under it is updated.  *)
GivesWay == []autoKill => <>render

(* The sound does not fall silent for good: a source that has run out of   *)
(* buffers is filled and played again, unless a write failed just when     *)
(* everything had been unqueued.                                           *)
SoundGoesOn == sound => []<>(source = "PLAYING" \/ deaf)
=============================================================================
