----------------------------- MODULE EngineClock -----------------------------
(***************************************************************************)
(* The time keeping of Game::Engine::run: the delta of an iteration, the   *)
(* call of second() and the limit on the frame rate.  Times are multiples  *)
(* of a unit that divides a second and every frame of the frame rates in   *)
(* use, so that the program's floats are integers here.  The counter       *)
(* frame_rate, which only reports, is left out.                            *)
(***************************************************************************)
EXTENDS Integers

CONSTANTS
  Second,       (* a second, in units                                      *)
  LongWait,     (* DELTA_TIME_LONG_WAIT, in whole units                    *)
  Rates,        (* the values the game gives to setFrameRateMax            *)
  FrameTime,    (* 1 / rate for each of them, and 1 / 60 for 0             *)
  FirstRate,    (* MARSHMALLOW_ENGINE_FRAME_RATE_MAX                       *)
  VSync,        (* the display waits for the vertical retrace              *)
  Deltas,       (* how long an iteration of the loop may take              *)
  MaxNow        (* bound: when the clock stops                             *)

ASSUME ClockAssumption ==
  /\ Second \in Nat \ {0}
  /\ LongWait \in Nat
  /\ FirstRate \in Rates
  /\ Rates \subseteq Nat
  /\ FrameTime \in [Rates -> 1..Second]
  /\ VSync \in BOOLEAN
  /\ Deltas \subseteq Nat \ {0}
  /\ MaxNow \in Nat

VARIABLES
  stage,          (* "tick": top of the loop; "update": update() has run;  *)
                  (* "flush": render() has run, l_render is to be lowered  *)
  now,            (* NOW(), from the start of the loop                     *)
  l_tick,
  delta_time,
  l_render,
  l_second,
  frame_rate_max,
  render_target,
  seconds,        (* ghost: calls of second()                              *)
  frames,         (* ghost: frames drawn under the limit since it was set  *)
  since           (* ghost: when it was set                                *)

rate   == <<frame_rate_max, render_target, since>>
clocks == <<now, l_tick, delta_time, l_second, seconds>>
clock   == <<stage, clocks, rate, l_render, frames>>

ClockTypeOK ==
  /\ stage \in {"tick", "update", "flush"}
  /\ now \in Nat
  /\ l_tick \in Int
  /\ delta_time \in Nat
  /\ l_render \in Int
  /\ l_second \in 0..Second - 1
  /\ frame_rate_max \in Rates
  /\ render_target = FrameTime[frame_rate_max]
  /\ seconds \in Nat
  /\ frames \in Nat
  /\ since \in 0..now

ClockInit ==
  /\ stage = "tick"
  /\ now = 0
  /\ delta_time = 0
  /\ l_render = 0
  /\ l_second = 0
  /\ frame_rate_max = FirstRate
  /\ render_target = FrameTime[FirstRate]
  /\ l_tick = now - render_target
  /\ seconds = 0
  /\ frames = 0
  /\ since = 0

(* Engine::setFrameRateMax, from the game's second, update or render.      *)
SetFrameRateMax(r) ==
  /\ frame_rate_max # r
  /\ frame_rate_max' = r
  /\ render_target' = FrameTime[r]
  /\ frames' = 0
  /\ since' = now
  /\ UNCHANGED <<stage, clocks, l_render>>

(* Mistake: l_second keeps the seconds that were counted. *)
Seconds_Keep(t) ==
  /\ seconds' = IF t >= Second THEN seconds + 1 ELSE seconds
  /\ l_second' = t

(* second(), and l_second -= truncf(l_second). *)
Seconds(t) ==
  IF t >= Second
  THEN /\ seconds' = seconds + 1
       /\ l_second' = t % Second
  ELSE /\ l_second' = t
       /\ UNCHANGED seconds

(* The time since the last iteration, or one frame if it is too long.      *)
Delta(t) == IF t - l_tick > LongWait THEN render_target ELSE t - l_tick

(* From the top of the loop through update(). *)
Tick(d) ==
  /\ stage = "tick"
  /\ now + d <= MaxNow
  /\ now' = now + d
  /\ delta_time' = Delta(now')
  /\ l_tick' = now'
  /\ Seconds(l_second + delta_time')
  /\ stage' = "update"
  /\ UNCHANGED <<rate, l_render, frames>>

Limited == ~VSync /\ frame_rate_max > 0

(* Graphics::Backend::Active() is false: nothing is drawn. *)
SkipInactive ==
  /\ stage = "update"
  /\ stage' = "tick"
  /\ UNCHANGED <<clocks, rate, l_render, frames>>

(* The frame is not due yet. *)
SkipEarly ==
  /\ stage = "update"
  /\ Limited
  /\ l_render + delta_time < render_target
  /\ l_render' = l_render + delta_time
  /\ stage' = "tick"
  /\ UNCHANGED <<clocks, rate, frames>>

(* Mistake: the frame is not limited. *)
RenderDue_Always ==
  /\ stage = "update"
  /\ Limited
  /\ l_render' = l_render + delta_time
  /\ frames' = frames + 1
  /\ stage' = "flush"
  /\ UNCHANGED <<clocks, rate>>

RenderDue ==
  /\ stage = "update"
  /\ Limited
  /\ l_render + delta_time >= render_target
  /\ l_render' = l_render + delta_time
  /\ frames' = frames + 1
  /\ stage' = "flush"
  /\ UNCHANGED <<clocks, rate>>

RenderAlways ==
  /\ stage = "update"
  /\ ~Limited
  /\ stage' = "tick"
  /\ UNCHANGED <<clocks, rate, l_render, frames>>

(* Mistake: one frame is taken off, and not the whole ones that are left. *)
Flushed_Once == l_render - render_target

(* do l_render -= render_target; while (l_render >= render_target): what   *)
(* is left of a frame, or less than nothing if render() made it longer.    *)
Flushed ==
  IF l_render >= render_target THEN l_render % render_target
                               ELSE l_render - render_target

Flush ==
  /\ stage = "flush"
  /\ l_render' = Flushed
  /\ stage' = "tick"
  /\ UNCHANGED <<clocks, rate, frames>>

ClockNext ==
  \/ \E r \in Rates : SetFrameRateMax(r)
  \/ \E d \in Deltas : Tick(d)
  \/ SkipInactive
  \/ SkipEarly
  \/ RenderDue
  \/ RenderAlways
  \/ Flush

ClockSpec == ClockInit /\ [][ClockNext]_clock

-----------------------------------------------------------------------------
(* The frame rate stays under its maximum, up to two frames: what was left *)
(* over when the rate was set, and the one in the making.                  *)
RateLimited ==
  Limited => frames * render_target <= now - since + 2 * render_target

(* second() is called once a second: never early, by more than the frame   *)
(* the loop adds when it starts (it is late after abnormally long waits).  *)
NeverEarly == seconds * Second + l_second <= now + FrameTime[FirstRate]

(* What flushing leaves is less than a frame, so a frame that is due is    *)
(* drawn at the next iteration, and lost time is never made up for by a    *)
(* burst of frames.                                                        *)
NoBurst ==
  stage = "tick" /\ Limited /\ frames > 0 => l_render < render_target
=============================================================================
