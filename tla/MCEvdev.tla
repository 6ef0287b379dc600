------------------------------- MODULE MCEvdev -------------------------------
(* Instances of Evdev for TLC. *)
EXTENDS Evdev

MCKinds == {{"Keyboard", "Gamepad"}}
=============================================================================
