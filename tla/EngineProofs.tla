---------------------------- MODULE EngineProofs ----------------------------
(***************************************************************************)
(* Theorems about what the engine's loop is made of: EngineRun, and the    *)
(* clock of the loop, EngineClock.                                         *)
(***************************************************************************)
EXTENDS EngineRun, EngineClock, PointerListProofs

-----------------------------------------------------------------------------
(***************************************************************************)
(* EngineClock                                                             *)
(***************************************************************************)
(* Lowering a time by whole periods leaves less than a period of it.       *)
LEMMA ModFacts ==
  ASSUME NEW t \in Int, NEW p \in Nat \ {0}, t >= p
  PROVE  (t % p) \in 0..p - 1 /\ (t % p) <= t - p
<1>1. (t % p) \in 0..p - 1 /\ t = p * (t \div p) + (t % p) /\ t \div p \in Int
  OBVIOUS
<1>2. t \div p >= 1
  BY <1>1
<1>3. p * (t \div p) >= p
  BY <1>1, <1>2
<1>4. QED
  BY <1>1, <1>3

(* The types, and when the last iteration began: now, but for the first    *)
(* one, which begins a frame ago.                                          *)
ClockTyped ==
  /\ ClockTypeOK
  /\ l_tick <= now
  /\ l_tick = now \/ (stage = "tick" /\ frames = 0)

LEMMA ClockFacts ==
  ASSUME ClockTyped
  PROVE  /\ Second \in Nat \ {0} /\ LongWait \in Nat
         /\ render_target \in 1..Second
         /\ \A r \in Rates : FrameTime[r] \in 1..Second /\ r \in Nat
         /\ \A d \in Deltas : d \in Nat \ {0}
BY ClockAssumption DEF ClockAssumption, ClockTyped, ClockTypeOK

LEMMA ClockTypesKept ==
  ASSUME ClockTyped, [ClockNext]_clock
  PROVE  ClockTyped'
<1> USE ClockFacts DEF ClockTyped, ClockTypeOK, clocks, rate
<1>1. ASSUME NEW r \in Rates, SetFrameRateMax(r) PROVE ClockTyped'
  BY <1>1 DEF SetFrameRateMax
<1>2. ASSUME NEW d \in Deltas, Tick(d) PROVE ClockTyped'
  <2>1. d \in Nat \ {0} /\ now' = now + d /\ l_tick' = now' /\ stage' = "update"
    BY <1>2 DEF Tick
  <2>2. delta_time' \in Nat
    BY <1>2, <2>1 DEF Tick, Delta
  <2>3. seconds' \in Nat /\ l_second' \in 0..Second - 1
    <3>1. CASE l_second + delta_time' >= Second
      <4>1. l_second + delta_time' \in Int
        BY <2>2
      <4>2. QED
        BY <1>2, <3>1, <4>1, ModFacts DEF Tick, Seconds
    <3>2. CASE ~(l_second + delta_time' >= Second)
      BY <1>2, <2>2, <3>2 DEF Tick, Seconds
    <3>3. QED
      BY <3>1, <3>2
  <2>4. QED
    BY <1>2, <2>1, <2>2, <2>3 DEF Tick
<1>3. ASSUME Flush PROVE ClockTyped'
  BY <1>3, ModFacts DEF Flush, Flushed
<1>4. ASSUME \/ SkipInactive \/ SkipEarly \/ RenderDue
             \/ RenderAlways
      PROVE  ClockTyped'
  BY <1>4 DEF SkipInactive, SkipEarly, RenderDue, RenderAlways
<1>5. CASE UNCHANGED clock
  BY <1>5 DEF clock
<1>6. QED
  BY <1>1, <1>2, <1>3, <1>4, <1>5 DEF ClockNext

(* A frame is drawn only when it is due, and what is left after that is    *)
(* less than a frame.                                                      *)
Leftover ==
  Limited /\ frames > 0 =>
    IF stage = "flush" THEN l_render >= render_target
                         ELSE l_render \in 0..render_target - 1

LEMMA LeftoverKept ==
  ASSUME ClockTyped, Leftover, [ClockNext]_clock
  PROVE  Leftover'
<1> USE ClockFacts
    DEF ClockTyped, ClockTypeOK, clocks, rate, Leftover, Limited
<1>1. ASSUME NEW r \in Rates, SetFrameRateMax(r) PROVE Leftover'
  BY <1>1 DEF SetFrameRateMax
<1>2. ASSUME NEW d \in Deltas, Tick(d) PROVE Leftover'
  BY <1>2 DEF Tick
<1>3. ASSUME Flush PROVE Leftover'
  BY <1>3, ModFacts DEF Flush, Flushed
<1>4. ASSUME \/ SkipInactive \/ SkipEarly \/ RenderDue
             \/ RenderAlways
      PROVE  Leftover'
  BY <1>4 DEF SkipInactive, SkipEarly, RenderDue, RenderAlways
<1>5. CASE UNCHANGED clock
  BY <1>5 DEF clock
<1>6. QED
  BY <1>1, <1>2, <1>3, <1>4, <1>5 DEF ClockNext

LEMMA ClockSound == ClockSpec => [](ClockTyped /\ Leftover)
<1>1. ClockInit => ClockTyped /\ Leftover
  BY ClockAssumption DEF ClockAssumption, ClockInit, ClockTypeOK, ClockTyped, Leftover
<1>2. ClockTyped /\ Leftover /\ [ClockNext]_clock => (ClockTyped /\ Leftover)'
  BY ClockTypesKept, LeftoverKept
<1>3. QED
  BY <1>1, <1>2, PTL DEF ClockSpec

(* EngineClock keeps the types of its variables.                           *)
THEOREM ClockTypeCorrect == ClockSpec => []ClockTypeOK
<1>1. ClockTyped => ClockTypeOK
  BY DEF ClockTyped
<1>2. QED
  BY <1>1, ClockSound, PTL

(* For all frame rates, lost time is not made up for by a burst of frames. *)
THEOREM FramesDoNotBurst == ClockSpec => []NoBurst
<1>1. ASSUME ClockTyped, Leftover PROVE NoBurst
  BY <1>1, ClockFacts DEF Leftover, NoBurst
<1>2. QED
  BY <1>1, ClockSound, PTL

-----------------------------------------------------------------------------
(* No frame takes longer than what counts as an abnormally long wait.  The *)
(* replacement of such a wait by one frame then never adds time.           *)
FramesAreShort == \A r \in Rates : FrameTime[r] <= LongWait

LEMMA DeltaFacts ==
  ASSUME FramesAreShort, ClockTyped, NEW d \in Deltas, Tick(d)
  PROVE  /\ now' = now + d /\ l_tick' = now'
         /\ delta_time' \in Nat /\ delta_time' <= now' - l_tick
<1> USE ClockFacts DEF ClockTyped, ClockTypeOK, Tick
<1>1. now' = now + d /\ l_tick' = now' /\ d \in Nat
  OBVIOUS
<1>2. render_target <= LongWait
  BY DEF FramesAreShort
<1>3. QED
  BY <1>1, <1>2 DEF Delta

(* Each second counted has passed, but for the frame ahead at the start.   *)
SecondsPassed == seconds * Second + l_second <= l_tick + FrameTime[FirstRate]

LEMMA SecondsPassedKept ==
  ASSUME FramesAreShort, ClockTyped, SecondsPassed,
         [ClockNext]_clock
  PROVE  SecondsPassed'
<1> USE ClockFacts DEF ClockTyped, ClockTypeOK, clocks, rate, SecondsPassed
<1> FrameTime[FirstRate] \in Nat
  BY ClockAssumption DEF ClockAssumption
<1>1. ASSUME NEW d \in Deltas, Tick(d) PROVE SecondsPassed'
  <2> DEFINE t == l_second + delta_time'
             passed == seconds * Second
  <2>1. /\ now' = now + d /\ l_tick' = now' /\ delta_time' \in Nat
        /\ delta_time' <= now' - l_tick
    BY <1>1, DeltaFacts
  <2>2. passed \in Nat /\ (seconds + 1) * Second = passed + Second
    OBVIOUS
  <2>3. passed + l_second <= l_tick + FrameTime[FirstRate]
    OBVIOUS
  <2> HIDE DEF passed
  <2>4. t \in Int /\ passed + t <= l_tick' + FrameTime[FirstRate]
    BY <2>1, <2>2, <2>3
  <2>5. CASE t >= Second
    <3>1. seconds' = seconds + 1 /\ l_second' = t % Second
      BY <1>1, <2>5 DEF Tick, Seconds
    <3>2. t \in Int /\ Second \in Nat \ {0}
      BY <2>4
    <3> HIDE DEF t
    <3>3. (t % Second) \in 0..Second - 1 /\ (t % Second) <= t - Second
      BY ONLY <2>5, <3>2, ModFacts
    <3>4. l_second' \in Int /\ l_second' <= t - Second
      BY <3>1, <3>2, <3>3
    <3>5. passed + Second + l_second' <= l_tick' + FrameTime[FirstRate]
      BY <2>1, <2>2, <2>4, <3>4
    <3>6. QED
      BY <2>2, <3>1, <3>5
  <2>6. CASE ~(t >= Second)
    BY <1>1, <2>4, <2>6 DEF Tick, Seconds, passed
  <2>7. QED
    BY <2>5, <2>6
<1>2. ASSUME \/ \E r \in Rates : SetFrameRateMax(r)
             \/ SkipInactive \/ SkipEarly \/ RenderDue
             \/ RenderAlways \/ Flush
      PROVE  SecondsPassed'
  BY <1>2 DEF SetFrameRateMax, SkipInactive, SkipEarly, RenderDue,
              RenderAlways, Flush
<1>3. CASE UNCHANGED clock
  BY <1>3 DEF clock
<1>4. QED
  BY <1>1, <1>2, <1>3 DEF ClockNext

(* second() is never called early, for all frame rates whose frames are    *)
(* shorter than DELTA_TIME_LONG_WAIT.                                      *)
THEOREM SecondNeverEarly ==
  ASSUME FramesAreShort
  PROVE  ClockSpec => []NeverEarly
<1>1. ClockInit => SecondsPassed
  BY ClockAssumption DEF ClockAssumption, ClockInit, SecondsPassed
<1>2. ClockTyped /\ SecondsPassed /\ [ClockNext]_clock => SecondsPassed'
  BY SecondsPassedKept
<1>3. ClockTyped /\ SecondsPassed => NeverEarly
  <2>1. FrameTime[FirstRate] \in Nat
    BY ClockAssumption DEF ClockAssumption
  <2>2. ASSUME ClockTyped PROVE seconds * Second \in Nat
    BY <2>2, ClockFacts DEF ClockTyped, ClockTypeOK
  <2>3. QED
    BY <2>1, <2>2, ClockFacts DEF ClockTyped, ClockTypeOK, SecondsPassed, NeverEarly
<1>4. QED
  BY <1>1, <1>2, <1>3, ClockSound, PTL DEF ClockSpec

-----------------------------------------------------------------------------
(* The frames drawn, and what is accumulated for the next one, take no     *)
(* more than the time since the rate was set, up to two frames.            *)
FramesPaid ==
  Limited /\ frames > 0 =>
    CASE stage = "tick" ->
           frames * render_target + l_render <= now - since + 2 * render_target
      [] stage = "update" ->
           frames * render_target + l_render + delta_time
             <= now - since + 2 * render_target
      [] stage = "flush" ->
           \/ frames = 1
           \/ frames * render_target + l_render <= now - since + 3 * render_target

LEMMA FramesPaidKept ==
  ASSUME FramesAreShort, ClockTyped, Leftover, FramesPaid,
         [ClockNext]_clock
  PROVE  FramesPaid'
<1> USE ClockFacts DEF ClockTyped, ClockTypeOK, clocks, rate, Limited
<1> DEFINE paid == frames * render_target
<1>0. /\ paid \in Nat
      /\ (frames + 1) * render_target = paid + render_target
      /\ frames = 1 => paid = render_target
  OBVIOUS
<1> HIDE DEF paid
<1>1. ASSUME NEW r \in Rates, SetFrameRateMax(r) PROVE FramesPaid'
  BY <1>1 DEF SetFrameRateMax, FramesPaid
<1>2. ASSUME NEW d \in Deltas, Tick(d) PROVE FramesPaid'
  <2>1. /\ now' = now + d /\ l_tick' = now' /\ delta_time' \in Nat
        /\ delta_time' <= now' - l_tick
    BY <1>2, DeltaFacts
  <2>2. paid' = paid
    BY <1>2 DEF Tick, paid
  <2>3. QED
    BY <1>0, <1>2, <2>1, <2>2 DEF Tick, FramesPaid, paid
<1>3. ASSUME SkipInactive PROVE FramesPaid'
  BY <1>0, <1>3 DEF SkipInactive, FramesPaid, paid
<1>4. ASSUME SkipEarly PROVE FramesPaid'
  BY <1>0, <1>4 DEF SkipEarly, FramesPaid, paid
<1>5. ASSUME RenderAlways PROVE FramesPaid'
  BY <1>5 DEF RenderAlways, FramesPaid
<1>6. ASSUME RenderDue PROVE FramesPaid'
  <2>1. frames' * render_target' = paid + render_target
    BY <1>0, <1>6 DEF RenderDue
  <2>2. QED
    BY <1>0, <1>6, <2>1 DEF RenderDue, FramesPaid, paid
<1>7. ASSUME Flush PROVE FramesPaid'
  <2>1. SUFFICES ASSUME Limited, frames > 0
                 PROVE  paid + l_render' <= now - since + 2 * render_target
    BY <1>7 DEF Flush, FramesPaid, paid
  <2>2. l_render >= render_target
    BY <1>7, <2>1 DEF Flush, Leftover
  <2>3. /\ l_render' \in 0..render_target - 1
        /\ l_render' <= l_render - render_target
    <3>1. l_render \in Int /\ render_target \in Nat \ {0}
      OBVIOUS
    <3>2. /\ (l_render % render_target) \in 0..render_target - 1
          /\ (l_render % render_target) <= l_render - render_target
      BY ONLY <2>2, <3>1, ModFacts
    <3>3. QED
      BY <1>7, <2>2, <3>2 DEF Flush, Flushed
  <2>4. CASE frames = 1
    BY <1>0, <2>3, <2>4
  <2>5. CASE frames # 1
    <3>1. paid + l_render <= now - since + 3 * render_target
      BY <1>7, <2>1, <2>5 DEF Flush, FramesPaid, paid
    <3>2. QED
      BY <1>0, <2>3, <3>1
  <2>6. QED
    BY <2>4, <2>5
<1>8. CASE UNCHANGED clock
  BY <1>8 DEF clock, FramesPaid
<1>9. QED
  BY <1>1, <1>2, <1>3, <1>4, <1>5, <1>6, <1>7, <1>8 DEF ClockNext

(* The frame rate stays under its maximum, for all frame rates whose       *)
(* frames are shorter than DELTA_TIME_LONG_WAIT.                           *)
THEOREM RateStaysLimited ==
  ASSUME FramesAreShort
  PROVE  ClockSpec => []RateLimited
<1>1. ClockInit => FramesPaid
  BY DEF ClockInit, FramesPaid
<1>2. ClockTyped /\ Leftover /\ FramesPaid /\ [ClockNext]_clock => FramesPaid'
  BY FramesPaidKept
<1>3. ClockTyped /\ Leftover /\ FramesPaid => RateLimited
  <2> SUFFICES ASSUME ClockTyped, Leftover, FramesPaid, Limited
               PROVE  frames * render_target <= now - since + 2 * render_target
    BY DEF RateLimited
  <2> USE ClockFacts DEF ClockTyped, ClockTypeOK
  <2> DEFINE paid == frames * render_target
  <2>1. /\ paid \in Nat
        /\ frames = 0 => paid = 0
        /\ frames = 1 => paid = render_target
    OBVIOUS
  <2> HIDE DEF paid
  <2>2. CASE frames = 0
    BY <2>1, <2>2 DEF paid
  <2>3. CASE frames = 1
    BY <2>1, <2>3 DEF paid
  <2>4. CASE frames > 1 /\ stage = "flush"
    BY <2>1, <2>4 DEF paid, FramesPaid, Leftover
  <2>5. CASE frames > 1 /\ stage = "tick"
    BY <2>1, <2>5 DEF paid, FramesPaid, Leftover
  <2>6. CASE frames > 1 /\ stage = "update"
    BY <2>1, <2>6 DEF paid, FramesPaid, Leftover
  <2>7. QED
    BY <2>2, <2>3, <2>4, <2>5, <2>6
<1>4. QED
  BY <1>1, <1>2, <1>3, ClockSound, PTL DEF ClockSpec

-----------------------------------------------------------------------------
(***************************************************************************)
(* EngineRun                                                               *)
(***************************************************************************)
LEMMA RunConstants == None \notin Features \cup Codes /\ Codes \subseteq Int /\ MaxRuns \in Nat
BY RunAssumption DEF RunAssumption

(* No feature is in the list twice, and there is a walk at three places.   *)
RunTyped ==
  /\ TypeOK
  /\ walk = None => pc \notin {"initialize", "tick", "finalize"}
  /\ IsInjective(features)

(* A walk of initialize() or of the loop is at a node of the list, or at   *)
(* its end, unless it lost the node of the feature it calls.               *)
ForwardOK ==
  walk # None /\ pc # "finalize" =>
    /\ walk.last = None
    /\ walk.calling # None => walk.calling = walk.at
    /\ ~walk.dangling => walk.at \in ToSet(features) \cup {None}

(* A walk of finalize() is behind the node of the feature it calls, and    *)
(* its end is the first node.                                              *)
BackwardOK ==
  walk # None /\ pc = "finalize" =>
    /\ walk.calling # None => walk.at # walk.last
    /\ ~walk.dangling =>
         \/ walk.last = None /\ walk.at = None /\ features = <<>>
         \/ /\ features # <<>>
            /\ walk.last = Head(features)
            /\ walk.at \in ToSet(features) \cup {None}
    /\ ~disturbed /\ walk.calling # None => walk.calling = Before(walk.at)

WalkInv == RunTyped /\ ForwardOK /\ BackwardOK /\ WalkSafe

(* The features a walk has behind it on its way from the front of the list.*)
Passed(s, x) == IF x = None THEN ToSet(s) ELSE Ahead(s, x)

LEMMA WalkFields ==
  ASSUME NEW w \in Walk
  PROVE  /\ w # None
         /\ w.at \in Features \cup {None} /\ w.last \in Features \cup {None}
         /\ w.calling \in Features \cup {None} /\ w.dangling \in BOOLEAN
BY WalkAssumption DEF Walk

LEMMA ForwardFacts ==
  ASSUME features \in Seq(Features)
  PROVE  /\ Forward \in Walk /\ Forward # None
         /\ Forward.last = None /\ Forward.calling = None /\ ~Forward.dangling
         /\ Forward.at \in ToSet(features) \cup {None}
<1>1. features # <<>> => Head(features) \in Features /\ Head(features) \in ToSet(features)
  BY TailFacts
<1> DEFINE h == IF features = <<>> THEN None ELSE Head(features)
<1>2. h \in Features \cup {None} /\ h \in ToSet(features) \cup {None}
  BY <1>1
<1>3. Forward = [at |-> h, last |-> None, calling |-> None, dangling |-> FALSE]
  BY DEF Forward
<1> HIDE DEF h
<1>4. /\ Forward \in Walk /\ Forward.at = h
      /\ Forward.last = None /\ Forward.calling = None /\ ~Forward.dangling
  BY <1>2, <1>3 DEF Walk
<1>5. QED
  BY <1>2, <1>4, WalkFields

LEMMA BackwardFacts ==
  ASSUME features \in Seq(Features)
  PROVE  /\ Backward \in Walk /\ Backward # None
         /\ Backward.at = None /\ Backward.calling = None /\ ~Backward.dangling
         /\ Backward.last = IF features = <<>> THEN None ELSE Head(features)
<1>1. features # <<>> => Head(features) \in Features
  BY TailFacts
<1> DEFINE h == IF features = <<>> THEN None ELSE Head(features)
<1>2. h \in Features \cup {None}
  BY <1>1
<1>3. Backward = [at |-> None, last |-> h, calling |-> None, dangling |-> FALSE]
  BY DEF Backward
<1> HIDE DEF h
<1>4. /\ Backward \in Walk /\ Backward.at = None /\ Backward.last = h
      /\ Backward.calling = None /\ ~Backward.dangling
  BY <1>2, <1>3 DEF Walk
<1>5. QED
  BY <1>4, WalkFields DEF h

(* Before and Following stay in the list. *)
LEMMA BeforeFacts ==
  ASSUME features \in Seq(Features), IsInjective(features), features # <<>>,
         NEW f \in ToSet(features) \cup {None}, f # Head(features)
  PROVE  /\ Before(f) \in ToSet(features) /\ Before(f) \in Features /\ Before(f) # None
         /\ Passed(features, f) = Passed(features, Before(f)) \cup {Before(f)}
         /\ Before(f) \notin Passed(features, Before(f))
<1>1. CASE f = None
  <2>1. /\ Before(f) = Last(features) /\ Last(features) \in ToSet(features)
        /\ ToSet(features) = Ahead(features, Last(features)) \cup {Last(features)}
    BY <1>1, LastFacts DEF Before
  <2>2. Last(features) \in Features /\ Last(features) # None
    BY <2>1, PlaceFacts, RunConstants
  <2>3. Last(features) \notin Ahead(features, Last(features))
    BY <2>1, AheadFacts
  <2>4. QED
    BY <1>1, <2>1, <2>2, <2>3 DEF Passed
<1>2. CASE f # None
  <2>0. f \in ToSet(features)
    BY <1>2
  <2>1. /\ Before(f) \in ToSet(features)
        /\ Ahead(features, f) = Ahead(features, Before(f)) \cup {Before(f)}
        /\ Before(f) \notin Ahead(features, Before(f))
    BY <1>2, <2>0, PreviousFacts DEF Before
  <2>2. Before(f) \in Features /\ Before(f) # None
    BY <2>1, PlaceFacts, RunConstants
  <2>3. QED
    BY <1>2, <2>1, <2>2 DEF Passed
<1>3. QED
  BY <1>1, <1>2

LEMMA FollowingFacts ==
  ASSUME features \in Seq(Features), IsInjective(features),
         NEW f \in ToSet(features)
  PROVE  /\ Following(f) \in ToSet(features) \cup {None}
         /\ Following(f) \in Features \cup {None}
         /\ Passed(features, Following(f)) = Passed(features, f) \cup {f}
<1>1. /\ Place(features, f) \in 1..Len(features) /\ Len(features) \in Nat
      /\ f # None
  BY PlaceFacts, RunConstants
<1>2. CASE Place(features, f) < Len(features)
  <2>1. /\ Following(f) \in ToSet(features)
        /\ Ahead(features, Following(f)) = Ahead(features, f) \cup {f}
    BY <1>2, NextFacts DEF Following
  <2>2. Following(f) \in Features /\ Following(f) # None
    BY <2>1, PlaceFacts, RunConstants
  <2>3. QED
    BY <1>1, <2>1, <2>2 DEF Passed
<1>3. CASE Place(features, f) = Len(features)
  <2>1. Following(f) = None /\ ToSet(features) = Ahead(features, f) \cup {f}
    BY <1>1, <1>3, NextFacts DEF Following
  <2>2. QED
    BY <1>1, <2>1 DEF Passed
<1>4. QED
  BY <1>1, <1>2, <1>3

(* Actions that leave the list and the walk, or begin or end a walk.       *)
LEMMA WalkKeptAside ==
  ASSUME WalkInv, TypeOK', features' = features,
         \/ walk' = walk /\ disturbed' = disturbed
            /\ (pc' = pc \/ {pc, pc'} \cap {"initialize", "tick", "finalize"} = {})
         \/ walk' = None /\ pc' \notin {"initialize", "tick", "finalize"}
         \/ walk' = Forward /\ pc' \in {"initialize", "tick"}
         \/ walk' = Backward /\ pc' = "finalize"
  PROVE  WalkInv'
<1> USE DEF WalkInv, RunTyped
<1>0. features \in Seq(Features)
  BY DEF TypeOK
<1>1. CASE walk' = walk /\ disturbed' = disturbed /\ pc' = pc
  BY <1>1 DEF ForwardOK, BackwardOK, WalkSafe, Before
<1>2. CASE /\ walk' = walk /\ disturbed' = disturbed
           /\ {pc, pc'} \cap {"initialize", "tick", "finalize"} = {}
  <2>1. walk = None
    BY <1>2 DEF TypeOK
  <2>2. QED
    BY <1>2, <2>1 DEF ForwardOK, BackwardOK, WalkSafe
<1>3. CASE walk' = None /\ pc' \notin {"initialize", "tick", "finalize"}
  BY <1>3 DEF ForwardOK, BackwardOK, WalkSafe
<1>4. CASE walk' = Forward /\ pc' \in {"initialize", "tick"}
  BY <1>0, <1>4, ForwardFacts DEF ForwardOK, BackwardOK, WalkSafe
<1>5. CASE walk' = Backward /\ pc' = "finalize"
  <2>1. features # <<>> \/ (walk'.last = None /\ walk'.at = None /\ features' = <<>>)
    BY <1>0, <1>5, BackwardFacts
  <2>2. QED
    BY <1>0, <1>5, <2>1, BackwardFacts DEF ForwardOK, BackwardOK, WalkSafe
<1>6. QED
  BY <1>1, <1>2, <1>3, <1>4, <1>5

LEMMA AddKeepsWalk ==
  ASSUME WalkInv, NEW f \in Features, AddFeature(f)
  PROVE  WalkInv'
<1> USE DEF WalkInv, RunTyped, AddFeature
<1>0. features \in Seq(Features) /\ disturbed \in BOOLEAN
  BY DEF TypeOK
<1>1. /\ features' \in Seq(Features) /\ features' = Append(features, f)
      /\ ToSet(features') = ToSet(features) \cup {f}
      /\ IsInjective(features')
  BY <1>0, AppendFacts
<1>2. TypeOK'
  BY <1>1 DEF TypeOK, managers, queued
<1>3. ForwardOK'
  BY <1>1 DEF ForwardOK
<1>4. BackwardOK'
  <2>1. SUFFICES ASSUME walk # None, pc = "finalize" PROVE BackwardOK'
    BY DEF BackwardOK
  <2>2. walk.at # walk.last /\ disturbed'
    BY <2>1 DEF BackwardOK, GameRuns
  <2>3. SUFFICES ASSUME ~walk.dangling
                 PROVE  /\ features' # <<>> /\ walk.last = Head(features')
                        /\ walk.at \in ToSet(features') \cup {None}
    BY <2>1, <2>2 DEF BackwardOK
  <2>4. features # <<>> /\ walk.last = Head(features)
        /\ walk.at \in ToSet(features) \cup {None}
    BY <2>1, <2>2, <2>3 DEF BackwardOK
  <2>5. features' # <<>> /\ Head(features') = Head(features)
    BY <1>0, <1>1, <2>4, HeadFacts, AheadAppend
  <2>6. QED
    BY <1>1, <2>4, <2>5
<1>5. WalkSafe'
  BY DEF WalkSafe
<1>6. QED
  BY <1>1, <1>2, <1>3, <1>4, <1>5

LEMMA RemoveKeepsWalk ==
  ASSUME WalkInv, NEW f \in Features, RemoveFeature(f)
  PROVE  WalkInv'
<1> USE DEF WalkInv, RunTyped
<1>0. features \in Seq(Features) /\ disturbed \in BOOLEAN
  BY DEF TypeOK
<1>1. /\ features' \in Seq(Features) /\ features' = Without(features, f)
      /\ ToSet(features') = ToSet(features) \ {f}
      /\ IsInjective(features')
  BY <1>0, WithoutFacts DEF RemoveFeature
<1>2. CASE walk = None
  <2>1. TypeOK'
    BY <1>1, <1>2 DEF TypeOK, RemoveFeature, managers, queued
  <2>2. QED
    BY <1>1, <1>2, <2>1 DEF RemoveFeature, ForwardOK, BackwardOK, WalkSafe
<1>3. CASE walk # None
  <2>1. walk \in Walk /\ walk.calling # None
    BY <1>3 DEF TypeOK, RemoveFeature, GameRuns
  <2>2. /\ walk' = [walk EXCEPT !.dangling = @ \/ f \in {walk.at, walk.last}]
        /\ disturbed' = (disturbed \/ pc = "finalize" \/ f = walk.calling)
        /\ pc' = pc
    BY <1>3 DEF RemoveFeature
  <2>3. /\ walk' \in Walk /\ walk' # None
        /\ walk'.at = walk.at /\ walk'.last = walk.last
        /\ walk'.calling = walk.calling
        /\ walk'.dangling = (walk.dangling \/ f \in {walk.at, walk.last})
    <3>1. (walk.dangling \/ f \in {walk.at, walk.last}) \in BOOLEAN
      BY <2>1, WalkFields
    <3>2. /\ walk' \in Walk
          /\ walk'.at = walk.at /\ walk'.last = walk.last
          /\ walk'.calling = walk.calling
          /\ walk'.dangling = (walk.dangling \/ f \in {walk.at, walk.last})
      BY <2>1, <2>2, <3>1 DEF Walk
    <3>3. QED
      BY <3>2, WalkFields
  <2>4. TypeOK'
    BY <1>1, <1>3, <2>3 DEF TypeOK, RemoveFeature, managers, queued
  <2>5. ForwardOK'
    BY <1>1, <1>3, <2>2, <2>3 DEF ForwardOK
  <2>6. BackwardOK'
    <3>1. SUFFICES ASSUME pc = "finalize" PROVE BackwardOK'
      BY <2>2 DEF BackwardOK
    <3>2. walk.at # walk.last /\ disturbed'
      BY <1>3, <2>1, <2>2, <3>1 DEF BackwardOK
    <3>3. SUFFICES ASSUME ~walk'.dangling
                   PROVE  /\ features' # <<>> /\ walk.last = Head(features')
                          /\ walk.at \in ToSet(features') \cup {None}
      BY <2>3, <3>2 DEF BackwardOK
    <3>4. ~walk.dangling /\ f # walk.at /\ f # walk.last
      BY <2>3, <3>3
    <3>5. features # <<>> /\ walk.last = Head(features)
          /\ walk.at \in ToSet(features) \cup {None}
      BY <1>3, <3>1, <3>2, <3>4 DEF BackwardOK
    <3>6. Head(features) \in ToSet(features) /\ f # Head(features)
      BY <1>0, <3>4, <3>5, HeadFacts
    <3>7. Head(features') = Head(features)
      BY <1>0, <1>1, <3>6, AheadWithout
    <3>8. features' # <<>>
      <4>1. Place(features', Head(features)) \in 1..Len(features')
        BY <1>1, <3>6, PlaceFacts
      <4>2. QED
        BY <4>1
    <3>9. QED
      BY <1>1, <3>4, <3>5, <3>7, <3>8
  <2>7. WalkSafe'
    <3>1. SUFFICES ASSUME walk'.dangling, ~walk.dangling PROVE disturbed'
      BY <1>3, <2>2, <2>3 DEF WalkSafe
    <3>2. f = walk.at \/ f = walk.last
      BY <2>3, <3>1
    <3>3. CASE pc = "finalize"
      BY <2>2, <3>3
    <3>4. CASE pc # "finalize"
      BY <1>3, <2>1, <2>2, <3>2, <3>4, RunConstants DEF ForwardOK
    <3>5. QED
      BY <3>3, <3>4
  <2>8. QED
    BY <1>1, <2>3, <2>4, <2>5, <2>6, <2>7
<1>4. QED
  BY <1>2, <1>3

(* The feature a walk calls next is one of the list. *)
NextInTurn == IF pc = "finalize" THEN Before(walk.at) ELSE walk.at

LEMMA NextFeature ==
  ASSUME WalkInv, Walking, ~AtEnd
  PROVE  /\ NextInTurn \in ToSet(features) /\ NextInTurn \in Features /\ NextInTurn # None
         /\ pc = "finalize" =>
              /\ Passed(features, walk.at) = Passed(features, NextInTurn) \cup {NextInTurn}
              /\ NextInTurn \notin Passed(features, NextInTurn)
         /\ pc # "finalize" => NextInTurn = walk.at
<1> USE DEF WalkInv, RunTyped, Walking, AtEnd
<1>0. features \in Seq(Features)
  BY DEF TypeOK
<1>1. CASE pc = "finalize"
  <2>1. /\ features # <<>> /\ walk.at # Head(features)
        /\ walk.at \in ToSet(features) \cup {None}
    BY <1>1 DEF BackwardOK
  <2>2. QED
    BY <1>0, <1>1, <2>1, BeforeFacts DEF NextInTurn
<1>2. CASE pc # "finalize"
  <2>1. walk.at \in ToSet(features) /\ walk.at # None
    BY <1>2 DEF ForwardOK
  <2>2. QED
    BY <1>0, <1>2, <2>1, PlaceFacts DEF NextInTurn
<1>3. QED
  BY <1>1, <1>2

LEMMA CallKeepsWalk ==
  ASSUME WalkInv, Call
  PROVE  WalkInv'
<1> USE DEF WalkInv, RunTyped
<1>1. /\ Walking /\ ~AtEnd /\ walk \in Walk
      /\ walk' = [walk EXCEPT !.calling = NextInTurn]
      /\ up' \in {up \cup {NextInTurn}, up \ {NextInTurn}, up}
      /\ misused' \in {misused \cup {NextInTurn}, misused}
  BY DEF Call, NextInTurn, TypeOK, Walking
<1>2. NextInTurn \in Features /\ NextInTurn # None
  BY <1>1, NextFeature
<1>3. /\ walk' \in Walk
      /\ walk'.at = walk.at /\ walk'.last = walk.last
      /\ walk'.calling = NextInTurn /\ walk'.dangling = walk.dangling
  BY <1>1, <1>2 DEF Walk
<1>4. walk' # None /\ features' = features /\ pc' = pc /\ disturbed' = disturbed
  BY <1>3, WalkFields DEF Call
<1>5. TypeOK'
  <2>1. up' \subseteq Features /\ misused' \subseteq Features
    BY <1>1, <1>2 DEF TypeOK
  <2>2. QED
    BY <1>1, <1>3, <2>1 DEF TypeOK, Call, managers, queued, Walking
<1>6. ForwardOK'
  BY <1>1, <1>3, <1>4, NextFeature DEF ForwardOK, Walking
<1>7. BackwardOK'
  BY <1>1, <1>3, <1>4 DEF BackwardOK, Walking, AtEnd, NextInTurn, Before
<1>8. WalkSafe'
  BY <1>1, <1>3, <1>4 DEF WalkSafe, Walking
<1>9. QED
  BY <1>4, <1>5, <1>6, <1>7, <1>8

LEMMA ReturnKeepsWalk ==
  ASSUME WalkInv, Return
  PROVE  WalkInv'
<1> USE DEF WalkInv, RunTyped
<1>1. /\ walk \in Walk /\ walk # None /\ features \in Seq(Features)
      /\ features' = features /\ pc' = pc /\ disturbed' = disturbed
  BY DEF Return, TypeOK
<1>2. CASE walk.dangling
  <2>1. walk' = [walk EXCEPT !.calling = None]
    BY <1>2 DEF Return
  <2>2. /\ walk' \in Walk
        /\ walk'.at = walk.at /\ walk'.last = walk.last
        /\ walk'.calling = None /\ walk'.dangling = walk.dangling
    BY <1>1, <2>1 DEF Walk
  <2>3. TypeOK'
    BY <2>2 DEF TypeOK, Return, managers, queued, ghosts
  <2>4. QED
    BY <1>1, <1>2, <2>2, <2>3, WalkFields DEF ForwardOK, BackwardOK, WalkSafe
<1>3. CASE ~walk.dangling
  <2> DEFINE n == IF pc = "finalize" THEN Before(walk.at) ELSE Following(walk.at)
  <2>1. walk' = [walk EXCEPT !.calling = None, !.at = n]
    BY <1>3 DEF Return
  <2>2. /\ n \in Features \cup {None} /\ n \in ToSet(features) \cup {None}
        /\ pc = "finalize" => features # <<>> /\ walk.last = Head(features)
    <3>1. CASE pc = "finalize"
      <4>1. /\ features # <<>> /\ walk.at # Head(features)
            /\ walk.last = Head(features)
            /\ walk.at \in ToSet(features) \cup {None}
        BY <1>1, <1>3, <3>1 DEF BackwardOK, Return
      <4>2. QED
        BY <1>1, <3>1, <4>1, BeforeFacts
    <3>2. CASE pc # "finalize"
      <4>1. walk.at \in ToSet(features)
        BY <1>1, <1>3, <3>2 DEF ForwardOK, Return
      <4>2. QED
        BY <1>1, <3>2, <4>1, FollowingFacts
    <3>3. QED
      BY <3>1, <3>2
  <2> HIDE DEF n
  <2>3. /\ walk' \in Walk
        /\ walk'.at = n /\ walk'.last = walk.last
        /\ walk'.calling = None /\ walk'.dangling = walk.dangling
    BY <1>1, <2>1, <2>2 DEF Walk
  <2>4. TypeOK'
    BY <2>3 DEF TypeOK, Return, managers, queued, ghosts
  <2>5. QED
    BY <1>1, <1>3, <2>2, <2>3, <2>4, WalkFields DEF ForwardOK, BackwardOK, WalkSafe
<1>4. QED
  BY <1>2, <1>3

LEMMA WalkKept ==
  WalkInv /\ [Next]_vars => WalkInv'
<1> SUFFICES ASSUME WalkInv, [Next]_vars PROVE WalkInv'
  OBVIOUS
<1> DEFINE Aside == /\ TypeOK' /\ features' = features
                    /\ \/ walk' = walk /\ disturbed' = disturbed
                          /\ (pc' = pc \/ {pc, pc'} \cap {"initialize", "tick", "finalize"} = {})
                       \/ walk' = None /\ pc' \notin {"initialize", "tick", "finalize"}
                       \/ walk' = Forward /\ pc' \in {"initialize", "tick"}
                       \/ walk' = Backward /\ pc' = "finalize"
<1>0. TypeOK /\ features \in Seq(Features)
  BY DEF WalkInv, RunTyped, TypeOK
<1>a. Forward \in Walk /\ Backward \in Walk
  BY <1>0, ForwardFacts, BackwardFacts
<1>1. ASSUME NEW f \in Features, AddFeature(f) \/ RemoveFeature(f) PROVE WalkInv'
  BY <1>1, AddKeepsWalk, RemoveKeepsWalk
<1>2. CASE Call \/ Return
  BY <1>2, CallKeepsWalk, ReturnKeepsWalk
<1> USE DEF Places, managers, queued, ghosts
<1>3. ASSUME NEW code \in Codes, Stop(code) PROVE Aside
  <2>0. /\ exit_code' \in Codes \cup {0, -1} /\ running' \in BOOLEAN
        /\ UNCHANGED <<pc, features, walk, event_manager, scene_manager, quit, ready,
                       missed, result, runs, up, late, misused, disturbed>>
    BY <1>3 DEF Stop
  <2>1. TypeOK'
    BY <1>0, <2>0 DEF TypeOK
  <2>2. QED
    BY <1>3, <2>1 DEF Stop
<1>4. ASSUME NEW code \in Codes, QueueQuit(code) PROVE Aside
  <2>1. TypeOK'
    BY <1>0, <1>4 DEF QueueQuit, TypeOK
  <2>2. QED
    BY <1>4, <2>1 DEF QueueQuit
<1>5. Run => Aside
  <2>1. Run => runs' \in 0..MaxRuns
    BY <1>0, RunConstants DEF Run, TypeOK
  <2>2. QED
    BY <1>0, <1>a, <2>1 DEF Run, TypeOK
<1>6. ASSUME NEW ok \in BOOLEAN, Setup(ok) PROVE Aside
  BY <1>0, <1>6 DEF Setup, TypeOK
<1>7. ASSUME NEW ok \in BOOLEAN, Initialized(ok) PROVE Aside
  BY <1>0, <1>7 DEF Initialized, TypeOK
<1>8. Iterate => Aside
  BY <1>0 DEF Iterate, TypeOK
<1>20. Polled => Aside
  BY <1>0, <1>a DEF Polled, TypeOK
<1>21. CloseWindow => Aside
  BY <1>0 DEF CloseWindow, TypeOK
<1>22. DequeueQuit => Aside
  BY <1>0 DEF DequeueQuit, TypeOK
<1>9. Ticked => Aside
  BY <1>0 DEF Ticked, TypeOK
<1>10. Execute => Aside
  <2>1. HandleQuit => Aside
    BY <1>0 DEF HandleQuit, QuitDue, TypeOK
  <2>2. MissQuit => Aside
    BY <1>0 DEF MissQuit, QuitDue, TypeOK
  <2>3. Drained \/ Held => Aside
    BY <1>0 DEF Drained, Held, TypeOK
  <2>4. QED
    BY <2>1, <2>2, <2>3 DEF Execute
<1>11. ASSUME NEW draw \in BOOLEAN, Updated(draw) PROVE Aside
  BY <1>0, <1>11 DEF Updated, TypeOK
<1>12. Rendered => Aside
  BY <1>0 DEF Rendered, TypeOK
<1>13. Leave => Aside
  BY <1>0 DEF Leave, TypeOK
<1>14. Cleaned => Aside
  BY <1>0, <1>a DEF Cleaned, TypeOK
<1>15. Finalized => Aside
  BY <1>0 DEF Finalized, TypeOK
<1>16. Exit => Aside
  BY <1>0 DEF Exit, TypeOK
<1>17. UNCHANGED vars => Aside
  BY <1>0 DEF vars, TypeOK
<1>18. ASSUME Aside PROVE WalkInv'
  BY <1>18, WalkKeptAside
<1>19. QED
  BY <1>1, <1>2, <1>3, <1>4, <1>5, <1>6, <1>7, <1>8, <1>9, <1>10, <1>11, <1>12,
     <1>13, <1>14, <1>15, <1>16, <1>17, <1>18, <1>20, <1>21, <1>22 DEF Next, Game, Engine

Called == IF walk.calling = None THEN {} ELSE {walk.calling}

(* The features of the list that have to be up now: in initialize() those  *)
(* the walk has passed or calls, in finalize() those it has yet to call.   *)
Up ==
  CASE pc = "initialize" -> Passed(features, walk.at) \cup Called
    [] pc = "finalize"   -> Passed(features, walk.at) \ Called
    [] pc = "exit"       -> {}
    [] OTHER             -> ToSet(features)

Turns ==
  ~disturbed =>
    /\ misused \subseteq late
    /\ pc # "idle" => \A f \in Features \ late : f \in up <=> f \in Up

LEMMA WalkBegins ==
  ASSUME features \in Seq(Features), IsInjective(features)
  PROVE  /\ Passed(features, Forward.at) = {}
         /\ Passed(features, None) = ToSet(features)
         /\ Passed(features, Backward.last) = {}
<1>1. CASE features = <<>>
  BY <1>1 DEF Passed, ToSet, Forward, Backward
<1>2. CASE features # <<>>
  <2>1. Head(features) # None /\ Ahead(features, Head(features)) = {}
    BY <1>2, HeadFacts, TailFacts, RunConstants
  <2>2. QED
    BY <1>2, <2>1 DEF Passed, Forward, Backward
<1>3. QED
  BY <1>1, <1>2 DEF Passed

LEMMA GameKeepsTurns ==
  ASSUME WalkInv, WalkInv', Turns, NEW f \in Features,
         AddFeature(f) \/ RemoveFeature(f)
  PROVE  Turns'
<1> USE DEF Turns
<1> SUFFICES ASSUME ~disturbed'
             PROVE  /\ misused' \subseteq late'
                    /\ pc' # "idle" =>
                         \A g \in Features \ late' : g \in up' <=> g \in Up'
  OBVIOUS
<1>0. /\ features \in Seq(Features) /\ IsInjective(features)
      /\ ~disturbed /\ pc' = pc /\ up' = up /\ misused' = misused
      /\ late \subseteq late'
      /\ walk # None => pc # "finalize" /\ walk.calling # None
      /\ walk = None => pc \notin {"initialize", "finalize", "exit"}
      /\ walk = None => walk' = None
      /\ pc = "initialize" => walk # None
      /\ pc # "exit"
  BY DEF AddFeature, RemoveFeature, WalkInv, RunTyped, TypeOK, GameRuns, Hooks
<1>1. misused' \subseteq late'
  BY <1>0
<1>2. SUFFICES ASSUME pc # "idle", NEW g \in Features \ late'
               PROVE  g \in up <=> g \in Up'
  BY <1>0, <1>1
<1>3. g \in up <=> g \in Up
  BY <1>0, <1>2
<1>4. CASE AddFeature(f)
  <2>1. /\ features' = Append(features, f) /\ f \notin ToSet(features)
        /\ ToSet(features') = ToSet(features) \cup {f}
        /\ walk' = walk
        /\ pc # "initialize" => f \in late'
    BY <1>0, <1>2, <1>4, AppendFacts DEF AddFeature, Underway
  <2>2. CASE pc = "initialize"
    <3>1. /\ walk # None /\ walk.calling = walk.at /\ walk.at # None
          /\ ~walk.dangling /\ walk.at \in ToSet(features)
      BY <1>0, <2>2 DEF WalkInv, ForwardOK, WalkSafe
    <3>2. Ahead(features', walk.at) = Ahead(features, walk.at)
      BY <1>0, <2>1, <3>1, AheadAppend
    <3>3. QED
      BY <1>0, <1>3, <2>1, <2>2, <3>1, <3>2 DEF Up, Passed, Called
  <2>3. CASE pc # "initialize"
    <3>1. pc # "finalize" /\ Up = ToSet(features) /\ Up' = ToSet(features')
      BY <1>0, <2>3 DEF Up
    <3>2. QED
      BY <1>2, <1>3, <2>1, <2>3, <3>1
  <2>4. QED
    BY <2>2, <2>3
<1>5. CASE RemoveFeature(f)
  <2>1. /\ features' = Without(features, f)
        /\ ToSet(features') = ToSet(features) \ {f}
        /\ f \in late'
    BY <1>0, <1>2, <1>5, WithoutFacts DEF RemoveFeature
  <2>2. CASE pc = "initialize"
    <3>1. /\ walk # None /\ walk.calling = walk.at /\ walk.at # None
          /\ ~walk.dangling /\ walk.at \in ToSet(features)
          /\ walk \in Walk
      BY <1>0, <2>2 DEF WalkInv, ForwardOK, WalkSafe, RunTyped, TypeOK
    <3>2. /\ f # walk.at
          /\ walk'.at = walk.at /\ walk'.calling = walk.calling
      BY <1>5, <3>1 DEF RemoveFeature, Walk
    <3>3. Ahead(features', walk.at) = Ahead(features, walk.at) \ {f}
      BY <1>0, <2>1, <3>1, <3>2, AheadWithout
    <3>4. QED
      BY <1>0, <1>2, <1>3, <2>1, <2>2, <3>1, <3>2, <3>3 DEF Up, Passed, Called
  <2>3. CASE pc # "initialize"
    <3>1. pc # "finalize" /\ Up = ToSet(features) /\ Up' = ToSet(features')
      BY <1>0, <2>3 DEF Up
    <3>2. QED
      BY <1>2, <1>3, <2>1, <3>1
  <2>4. QED
    BY <2>2, <2>3
<1>6. QED
  BY <1>4, <1>5

LEMMA CallKeepsTurns ==
  ASSUME WalkInv, Turns, Call
  PROVE  Turns'
<1> USE DEF Turns
<1>0. /\ Walking /\ ~AtEnd /\ walk \in Walk /\ pc' = pc
      /\ walk' = [walk EXCEPT !.calling = NextInTurn]
      /\ up' = CASE pc = "initialize" -> up \cup {NextInTurn}
                 [] pc = "finalize"   -> up \ {NextInTurn}
                 [] OTHER             -> up
      /\ misused' = IF (pc = "initialize") = (NextInTurn \in up)
                    THEN misused \cup {NextInTurn} ELSE misused
      /\ features' = features /\ late' = late /\ disturbed' = disturbed
      /\ pc \in {"initialize", "tick", "finalize"}
      /\ features \in Seq(Features) /\ IsInjective(features)
  BY DEF Call, NextInTurn, WalkInv, RunTyped, TypeOK, Walking
<1> DEFINE n == NextInTurn
<1>1. /\ n \in ToSet(features) /\ n \in Features /\ n # None
      /\ pc = "finalize" => /\ Passed(features, walk.at) = Passed(features, n) \cup {n}
                            /\ n \notin Passed(features, n)
      /\ pc # "finalize" => n = walk.at
  BY <1>0, NextFeature
<1>2. walk'.at = walk.at /\ walk'.calling = n /\ walk.calling = None
  BY <1>0 DEF Walk, Walking
<1> HIDE DEF n
<1> SUFFICES ASSUME ~disturbed
             PROVE  /\ misused' \subseteq late
                    /\ \A g \in Features \ late : g \in up' <=> g \in Up'
  BY <1>0
<1>3. \A g \in Features \ late : g \in up <=> g \in Up
  BY <1>0
<1>4. CASE pc = "initialize"
  <2>1. Up = Ahead(features, n) /\ Up' = Ahead(features, n) \cup {n}
    BY <1>0, <1>1, <1>2, <1>4 DEF Up, Passed, Called
  <2>2. n \notin Ahead(features, n)
    BY <1>0, <1>1, AheadFacts
  <2>3. up' = up \cup {n} /\ (n \in up => n \in late)
    BY <1>0, <1>1, <1>3, <1>4, <2>1, <2>2 DEF n
  <2>4. misused' \subseteq late
    BY <1>0, <1>4, <2>3 DEF n
  <2>5. QED
    BY <1>3, <2>1, <2>3, <2>4
<1>5. CASE pc = "tick"
  <2>1. Up = ToSet(features) /\ Up' = ToSet(features)
    BY <1>0, <1>5 DEF Up
  <2>2. up' = up /\ (n \notin up => n \in late)
    BY <1>0, <1>1, <1>3, <1>5, <2>1 DEF n
  <2>3. misused' \subseteq late
    BY <1>0, <1>5, <2>2 DEF n
  <2>4. QED
    BY <1>3, <2>1, <2>2, <2>3
<1>6. CASE pc = "finalize"
  <2>1. /\ Up = Passed(features, n) \cup {n}
        /\ Up' = (Passed(features, n) \cup {n}) \ {n}
    BY <1>0, <1>1, <1>2, <1>6 DEF Up, Called, Passed
  <2>2. up' = up \ {n} /\ (n \notin up => n \in late)
    BY <1>0, <1>1, <1>3, <1>6, <2>1 DEF n
  <2>3. misused' \subseteq late
    BY <1>0, <1>6, <2>2 DEF n
  <2>4. QED
    BY <1>3, <2>1, <2>2, <2>3
<1>7. QED
  BY <1>0, <1>4, <1>5, <1>6

LEMMA ReturnKeepsTurns ==
  ASSUME WalkInv, Turns, Return
  PROVE  Turns'
<1> USE DEF Turns
<1>0. /\ walk \in Walk /\ walk # None /\ walk.calling # None /\ pc' = pc
      /\ features' = features /\ late' = late /\ disturbed' = disturbed
      /\ up' = up /\ misused' = misused
      /\ pc \in {"initialize", "tick", "finalize"}
      /\ features \in Seq(Features) /\ IsInjective(features)
  BY DEF Return, ghosts, WalkInv, RunTyped, TypeOK
<1>1. SUFFICES ASSUME ~disturbed PROVE Up' = Up
  BY <1>0
<1>2. ~walk.dangling
  BY <1>0, <1>1 DEF WalkInv, WalkSafe
<1> DEFINE n == IF pc = "finalize" THEN Before(walk.at) ELSE Following(walk.at)
<1>3. walk'.at = n /\ walk'.calling = None
  BY <1>0, <1>2 DEF Return, Walk
<1>4. CASE pc = "tick"
  BY <1>0, <1>4 DEF Up
<1>5. CASE pc = "initialize"
  <2>1. walk.calling = walk.at /\ walk.at \in ToSet(features)
    BY <1>0, <1>2, <1>5 DEF WalkInv, ForwardOK
  <2>2. Passed(features, n) = Passed(features, walk.at) \cup {walk.at}
    BY <1>0, <1>5, <2>1, FollowingFacts
  <2> HIDE DEF n
  <2>3. QED
    BY <1>0, <1>3, <1>5, <2>1, <2>2 DEF Up, Called, Passed
<1>6. CASE pc = "finalize"
  <2>1. /\ walk.calling = n
        /\ features # <<>> /\ walk.at # Head(features)
        /\ walk.at \in ToSet(features) \cup {None}
    BY <1>0, <1>1, <1>2, <1>6 DEF WalkInv, BackwardOK
  <2>2. /\ Passed(features, walk.at) = Passed(features, n) \cup {n}
        /\ n \notin Passed(features, n)
    BY <1>0, <1>6, <2>1, BeforeFacts
  <2> HIDE DEF n
  <2>3. QED
    BY <1>0, <1>3, <1>6, <2>1, <2>2 DEF Up, Called, Passed
<1>7. QED
  BY <1>0, <1>4, <1>5, <1>6

LEMMA TurnsKept ==
  WalkInv /\ WalkInv' /\ Turns /\ [Next]_vars => Turns'
<1> SUFFICES ASSUME WalkInv, WalkInv', Turns, [Next]_vars PROVE Turns'
  OBVIOUS
<1>0. /\ features \in Seq(Features) /\ IsInjective(features)
      /\ misused \subseteq Features /\ up \subseteq Features
  BY DEF WalkInv, RunTyped, TypeOK
<1> DEFINE Aside == /\ features' = features /\ disturbed' = disturbed
                    /\ up' = up /\ late' = late /\ misused' = misused
                    /\ (pc' # "idle" => pc # "idle" /\ Up' = Up)
<1> USE DEF managers, queued, ghosts
<1>1. ASSUME NEW f \in Features, AddFeature(f) \/ RemoveFeature(f) PROVE Turns'
  BY <1>1, GameKeepsTurns
<1>2. CASE Call \/ Return
  BY <1>2, CallKeepsTurns, ReturnKeepsTurns
<1>3. ASSUME NEW code \in Codes, Stop(code) PROVE Aside
  BY <1>3 DEF Stop, Up, Called
<1>4. ASSUME NEW code \in Codes, QueueQuit(code) PROVE Aside
  BY <1>4 DEF QueueQuit, Up, Called
<1>5. CASE Run
  <2>1. /\ pc' = "initialize" /\ late' = up /\ up' = up /\ misused' = {}
        /\ features' = features /\ walk' = Forward
    BY <1>5 DEF Run
  <2>2. Passed(features, Forward.at) = {} /\ Forward.calling = None
    BY <1>0, WalkBegins, ForwardFacts
  <2>3. Up' = {}
    BY <2>1, <2>2 DEF Up, Called, Passed
  <2>4. QED
    BY <2>1, <2>3 DEF Turns
<1>6. ASSUME NEW ok \in BOOLEAN, Setup(ok) PROVE Aside
  <2>1. /\ pc = "initialize" /\ pc' \in {"setup", "cleanup"} /\ ~walk.dangling
        /\ walk # None /\ walk.calling = None /\ walk.at = walk.last
    BY <1>6 DEF Setup, Done, Walking, AtEnd
  <2>2. walk.at = None
    BY <2>1 DEF WalkInv, ForwardOK
  <2>3. Up = ToSet(features) /\ Up' = ToSet(features')
    BY <2>1, <2>2 DEF Up, Called, Passed
  <2>4. QED
    BY <1>6, <2>1, <2>3 DEF Setup
<1>7. ASSUME NEW ok \in BOOLEAN, Initialized(ok) PROVE Aside
  BY <1>7 DEF Initialized, Up
<1>8. Iterate => Aside
  BY DEF Iterate, Up
<1>20. Polled => Aside
  BY DEF Polled, Up
<1>21. CloseWindow => Aside
  BY DEF CloseWindow, Up
<1>22. DequeueQuit => Aside
  BY DEF DequeueQuit, Up, Called
<1>9. Ticked => Aside
  BY DEF Ticked, Up
<1>10. Execute => Aside
  BY DEF Execute, HandleQuit, MissQuit, QuitDue, Drained, Held, Up
<1>11. ASSUME NEW draw \in BOOLEAN, Updated(draw) PROVE Aside
  BY <1>11 DEF Updated, Up
<1>12. Rendered => Aside
  BY DEF Rendered, Up
<1>13. Leave => Aside
  BY DEF Leave, Up
<1>14. CASE Cleaned
  <2>1. /\ pc = "cleanup" /\ pc' = "finalize" /\ walk' = Backward
        /\ features' = features
    BY <1>14 DEF Cleaned
  <2>2. Backward.at = None /\ Backward.calling = None
    BY <1>0, BackwardFacts
  <2>3. Up = ToSet(features) /\ Up' = ToSet(features)
    BY <2>1, <2>2 DEF Up, Called, Passed
  <2>4. Aside
    BY <1>14, <2>1, <2>3 DEF Cleaned
  <2>5. QED
    BY <2>4 DEF Turns
<1>15. CASE Finalized
  <2>1. /\ pc = "finalize" /\ pc' = "exit" /\ ~walk.dangling
        /\ walk # None /\ walk.calling = None /\ walk.at = walk.last
    BY <1>15 DEF Finalized, Done, Walking, AtEnd
  <2>2. walk.at = Backward.last
    BY <2>1 DEF WalkInv, BackwardOK, Backward
  <2>3. Up = {} /\ Up' = {}
    BY <1>0, <2>1, <2>2, WalkBegins DEF Up, Called
  <2>4. Aside
    BY <1>15, <2>1, <2>3 DEF Finalized
  <2>5. QED
    BY <2>4 DEF Turns
<1>16. CASE Exit
  <2>1. /\ pc = "exit" /\ pc' = "idle" /\ up' = up /\ late' = late
        /\ disturbed' = disturbed /\ misused' = misused \cup up
    BY <1>16 DEF Exit
  <2>2. Up = {}
    BY <2>1 DEF Up
  <2>3. QED
    BY <1>0, <2>1, <2>2 DEF Turns
<1>17. UNCHANGED vars => Aside
  BY DEF vars, Up, Called
<1>18. ASSUME Aside PROVE Turns'
  BY <1>18 DEF Turns
<1>19. QED
  BY <1>1, <1>2, <1>3, <1>4, <1>5, <1>6, <1>7, <1>8, <1>9, <1>10, <1>11, <1>12,
     <1>13, <1>14, <1>15, <1>16, <1>17, <1>18, <1>20, <1>21, <1>22 DEF Next, Game, Engine

LEMMA RunSound == Spec => [](WalkInv /\ Turns)
<1>1. Init => WalkInv /\ Turns
  <2> SUFFICES ASSUME Init PROVE WalkInv /\ Turns
    OBVIOUS
  <2>1. features \in Seq(Features) /\ IsInjective(features)
    BY DEF Init, IsInjective
  <2>2. TypeOK
    <3>1. event_manager \in {"engine", "game", None} /\ pc \in Places
      BY DEF Init, Places
    <3>2. runs \in 0..MaxRuns
      BY RunConstants DEF Init
    <3>3. QED
      BY <2>1, <3>1, <3>2 DEF Init, TypeOK
  <2>3. QED
    BY <2>1, <2>2 DEF Init, WalkInv, RunTyped, ForwardOK, BackwardOK, WalkSafe, Turns
<1>2. WalkInv /\ Turns /\ [Next]_vars => (WalkInv /\ Turns)'
  BY WalkKept, TurnsKept
<1>3. QED
  BY <1>1, <1>2, PTL DEF Spec

(* The variables of the engine's loop keep their types in every behaviour. *)
THEOREM RunTypeCorrect == Spec => []TypeOK
<1>1. WalkInv => TypeOK
  BY DEF WalkInv, RunTyped
<1>2. QED
  BY <1>1, RunSound, PTL

(* The walks over the features, forward in initialize() and in the loop    *)
(* and backward in finalize(), touch a freed node only after a feature     *)
(* removed itself, or after a removal made from finalize() of a feature.   *)
THEOREM WalkIsSafe == Spec => []WalkSafe
<1>1. WalkInv => WalkSafe
  BY DEF WalkInv
<1>2. QED
  BY <1>1, RunSound, PTL

(* Every feature of a run is initialized, ticked and finalized in turn,    *)
(* whatever the features add and remove meanwhile without pulling a node   *)
(* from under a walk.                                                      *)
THEOREM FeaturesTakeTurns == Spec => []FeaturesInTurn
<1>1. Turns => FeaturesInTurn
  BY DEF Turns, FeaturesInTurn
<1>2. QED
  BY <1>1, RunSound, PTL
=============================================================================
