-------------------------- MODULE SplashSceneLayer --------------------------
(***************************************************************************)
(* A splash layer: it fades in, is shown, fades out and kills itself.      *)
(* While it is on the scene it blocks the updates of the layers under it.  *)
(* Times are integers; the colour of its mesh is shade / Fade of white.    *)
(***************************************************************************)
EXTENDS Integers

CONSTANTS Fade, Exposure

ASSUME SplashAssumption == Fade \in Nat \ {0} /\ Exposure \in Nat \ {0}

VARIABLES
  state,
  timer,
  shade,
  autoKill,
  killed,    (* the layer is a zombie                                      *)
  again      (* ghost: reset() has started it once more                    *)

splash == <<state, timer, shade, autoKill, killed, again>>

SplashTypeOK ==
  /\ state \in {"Init", "FadeIn", "Exposure", "FadeOut", "Finished"}
  /\ timer \in Nat
  /\ shade \in 0..Fade
  /\ autoKill \in BOOLEAN
  /\ killed \in BOOLEAN
  /\ again \in BOOLEAN

SplashInit ==
  /\ state = "Init"
  /\ timer = 0
  /\ shade = 0
  /\ autoKill = TRUE
  /\ killed = FALSE
  /\ again = FALSE

(* The first update. *)
Begin(d) ==
  /\ state = "Init"
  /\ state' = "FadeIn"
  /\ timer' = timer + d
  /\ UNCHANGED <<shade, autoKill, killed, again>>

FadeFurther(d) ==
  /\ state \in {"FadeIn", "FadeOut"}
  /\ timer + d < Fade
  /\ timer' = timer + d
  /\ shade' = IF state = "FadeIn" THEN timer + d ELSE Fade - (timer + d)
  /\ UNCHANGED <<state, autoKill, killed, again>>

(* setState(Exposure) and setState(FadeOut). *)
Whiten(s) ==
  /\ state' = s
  /\ timer' = 0
  /\ shade' = Fade
  /\ UNCHANGED <<autoKill, killed, again>>

FadedIn(d) ==
  /\ state = "FadeIn"
  /\ timer + d >= Fade
  /\ Whiten("Exposure")

Expose(d) ==
  /\ state = "Exposure"
  /\ timer + d < Exposure
  /\ timer' = timer + d
  /\ UNCHANGED <<state, shade, autoKill, killed, again>>

(* Mistake: the time of the exposure counts for the fade. *)
Exposed_KeepTimer(d) ==
  /\ state = "Exposure"
  /\ timer + d >= Exposure
  /\ state' = "FadeOut"
  /\ timer' = timer + d
  /\ shade' = Fade
  /\ UNCHANGED <<autoKill, killed, again>>

Exposed(d) ==
  /\ state = "Exposure"
  /\ timer + d >= Exposure
  /\ Whiten("FadeOut")

(* Mistake: it is left to the game to remove the layer. *)
FadedOut_Stay(d) ==
  /\ state = "FadeOut"
  /\ timer + d >= Fade
  /\ state' = "Finished"
  /\ timer' = timer + d
  /\ UNCHANGED <<shade, autoKill, killed, again>>

FadedOut(d) ==
  /\ state = "FadeOut"
  /\ timer + d >= Fade
  /\ state' = "Finished"
  /\ timer' = timer + d
  /\ killed' = (killed \/ autoKill)
  /\ UNCHANGED <<shade, autoKill, again>>

SplashUpdate(d) ==
  \/ Begin(d) \/ FadeFurther(d) \/ FadedIn(d)
  \/ Expose(d) \/ Exposed(d) \/ FadedOut(d)
  \/ state = "Finished" /\ UNCHANGED splash

(* reset(), which leaves the timer and the colour as they are.             *)
Reset ==
  /\ state = "Finished"
  /\ state' = "FadeIn"
  /\ again' = TRUE
  /\ UNCHANGED <<timer, shade, autoKill, killed>>

(* skip(), which is what a key does. *)
Skip ==
  /\ state = "Exposure"
  /\ Whiten("FadeOut")

SetAutoKill ==
  /\ \E on \in BOOLEAN : autoKill' = on
  /\ UNCHANGED <<state, timer, shade, killed, again>>

SplashGame == Reset \/ Skip \/ SetAutoKill
=============================================================================
