------------------------- MODULE AnimationComponent -------------------------
(***************************************************************************)
(* An animation component: the frames of each animation and the playback   *)
(* of one of them, to which the game may add frames, and from which it may *)
(* take them, while it plays.  Tiles are not told apart; the duration of a *)
(* frame is any of Durations, the time of a step any of FrameTimes.        *)
(***************************************************************************)
EXTENDS Integers

CONSTANTS
  Animations,
  None,        (* no animation: the list is not there                      *)
  Durations,
  FrameTimes,
  MaxFrames,   (* bound: the frames of an animation                        *)
  MaxLag       (* bound: more time than this behind is not told apart      *)

ASSUME AnimationAssumption ==
  /\ None \notin Animations \cup Nat
  /\ Durations \subseteq Nat
  /\ FrameTimes \subseteq Nat \ {0}
  /\ MaxFrames \in Nat
  /\ MaxLag \in Nat

VARIABLES
  animation_frames,        (* how many frames, or None                     *)
  current_framelist,
  current_frame_entries,
  current_frame_entry,
  current_frame_duration,
  frame_time,              (* current_framerate / playback_ratio           *)
  timestamp,
  loop,
  playing,
  render,                  (* the first update has found the render and    *)
                           (* tileset components                           *)
  crashed,                 (* a frame of an empty list was shown           *)
  overrun                  (* ghost: a frame behind the end was shown      *)

playback == <<current_framelist, current_frame_entries, current_frame_entry,
              current_frame_duration, loop, playing>>
animation == <<animation_frames, playback, frame_time, timestamp, render, crashed,
               overrun>>

AnimationTypeOK ==
  /\ animation_frames \in [Animations -> 0..MaxFrames \cup {None}]
  /\ current_framelist \in Animations \cup {None}
  /\ current_frame_entries \in Int
  /\ current_frame_entry \in Nat
  /\ current_frame_duration \in Int
  /\ frame_time \in FrameTimes
  /\ timestamp \in Nat
  /\ loop \in BOOLEAN
  /\ playing \in BOOLEAN
  /\ render \in BOOLEAN
  /\ crashed \in BOOLEAN
  /\ overrun \in BOOLEAN

AnimationInit ==
  /\ animation_frames = [a \in Animations |-> None]
  /\ current_framelist = None
  /\ current_frame_entries = 0
  /\ current_frame_entry = 0
  /\ current_frame_duration = 0
  /\ frame_time \in FrameTimes
  /\ timestamp = 0
  /\ loop = FALSE
  /\ playing = FALSE
  /\ render = FALSE
  /\ crashed = FALSE
  /\ overrun = FALSE

Length(a) == IF animation_frames[a] = None THEN 0 ELSE animation_frames[a]

PushFrame(a) ==
  /\ Length(a) < MaxFrames
  /\ animation_frames' = [animation_frames EXCEPT ![a] = Length(a) + 1]
  /\ current_frame_entries' = current_frame_entries
                                + (IF a = current_framelist THEN 1 ELSE 0)
  /\ UNCHANGED <<current_framelist, current_frame_entry, current_frame_duration,
                 frame_time, timestamp, loop, playing, render, crashed, overrun>>

(* Mistake: the playback is not told. *)
PopFrame_Untold(a) ==
  /\ Length(a) > 0
  /\ animation_frames' = [animation_frames EXCEPT ![a] = Length(a) - 1]
  /\ UNCHANGED <<playback, frame_time, timestamp, render, crashed, overrun>>

(* The game pops no frame that is not there.                               *)
PopFrame(a) ==
  /\ Length(a) > 0
  /\ animation_frames' = [animation_frames EXCEPT ![a] = Length(a) - 1]
  /\ current_frame_entries' = current_frame_entries
                                - (IF a = current_framelist THEN 1 ELSE 0)
  /\ UNCHANGED <<current_framelist, current_frame_entry, current_frame_duration,
                 frame_time, timestamp, loop, playing, render, crashed, overrun>>

SetPlaybackRatio ==
  /\ \E time \in FrameTimes : frame_time' = time
  /\ UNCHANGED <<animation_frames, playback, timestamp, render, crashed, overrun>>

Play(a, again_and_again) ==
  /\ animation_frames[a] # None
  /\ current_framelist' = a
  /\ current_frame_entries' = Length(a)
  /\ current_frame_entry' = 0
  /\ current_frame_duration' = 0
  /\ frame_time' \in FrameTimes
  /\ timestamp' \in FrameTimes
  /\ loop' = again_and_again
  /\ playing' = TRUE
  /\ UNCHANGED <<animation_frames, render, crashed, overrun>>

Stops ==
  /\ playing' = FALSE
  /\ current_framelist' = None
  /\ current_frame_entries' = 0
  /\ current_frame_entry' = 0
  /\ current_frame_duration' = 0
  /\ UNCHANGED loop

(* The game stops no animation before its first update.                    *)
Stop ==
  /\ render
  /\ Stops
  /\ UNCHANGED <<animation_frames, frame_time, timestamp, render, crashed, overrun>>

AnimationGame ==
  \/ \E a \in Animations : PushFrame(a) \/ PopFrame(a)
  \/ \E a \in Animations, l \in BOOLEAN : Play(a, l)
  \/ SetPlaybackRatio \/ Stop

-----------------------------------------------------------------------------
Lag(time) == IF time > MaxLag THEN MaxLag ELSE time

(* Nothing plays, or the frame has time left.                              *)
Wait(d) ==
  /\ playing => timestamp + d <= frame_time
  /\ timestamp' = IF playing THEN timestamp + d ELSE timestamp
  /\ UNCHANGED <<playback, crashed, overrun>>

(* At most one step is made, however long the update.                      *)
StepDue(d) ==
  /\ playing
  /\ timestamp + d > frame_time
  /\ timestamp' = Lag(timestamp + d - frame_time)

Hold(d) ==
  /\ StepDue(d)
  /\ current_frame_duration - 1 > 0
  /\ current_frame_duration' = current_frame_duration - 1
  /\ UNCHANGED <<current_framelist, current_frame_entries, current_frame_entry,
                 loop, playing, crashed, overrun>>

AtEnd == current_frame_entry + 1 >= current_frame_entries

(* The next frame, or the first one again.                                 *)
ShowNext(d) ==
  /\ StepDue(d)
  /\ current_frame_duration - 1 <= 0
  /\ AtEnd => loop
  /\ current_frame_entry' = IF AtEnd THEN 0 ELSE current_frame_entry + 1
  /\ current_frame_duration' \in Durations
  /\ crashed' = (Length(current_framelist) = 0)
  /\ overrun' = (overrun \/ (~crashed' /\ current_frame_entry' >= Length(current_framelist)))
  /\ UNCHANGED <<current_framelist, current_frame_entries, loop, playing>>

Finish(d) ==
  /\ StepDue(d)
  /\ current_frame_duration - 1 <= 0
  /\ AtEnd /\ ~loop
  /\ Stops
  /\ UNCHANGED <<crashed, overrun>>

AnimationUpdate(d) ==
  /\ Wait(d) \/ Hold(d) \/ ShowNext(d) \/ Finish(d)
  /\ render' = TRUE
  /\ UNCHANGED <<animation_frames, frame_time>>

-----------------------------------------------------------------------------
(* The frame that is shown is on the list, whatever the game pushes and    *)
(* pops while it plays, unless the list has become empty.                  *)
InRange == ~overrun
=============================================================================
