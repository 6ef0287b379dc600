-------------------------- MODULE TitleScreenProofs --------------------------
(***************************************************************************)
(* Theorems about TitleScreen, for any fade, exposure, updates, frames and *)
(* number of buffers.                                                      *)
(***************************************************************************)
EXTENDS TitleScreen, SequenceTheorems, FiniteSetTheorems, WellFoundedInduction, TLAPS

(***************************************************************************)
(* The splash.  Until it is reset, its colour is what its timer says, but  *)
(* for the first update, which counts only for the second.                 *)
(***************************************************************************)
Coloured ==
  ~again =>
    /\ state = "Init" => timer = 0 /\ shade = 0
    /\ state = "FadeIn" => shade <= timer /\ timer <= shade + Longest
    /\ state = "Exposure" => shade = Fade
    /\ state = "FadeOut" => shade = Fade - timer

SplashInv == SplashTypeOK /\ Coloured

Change == ~again => shade' - shade \in -(2 * Longest)..(2 * Longest)

LEMMA SplashUpdateKeeps ==
  ASSUME SplashInv, NEW d \in 1..Longest, SplashUpdate(d)
  PROVE  SplashInv' /\ Change
<1>1. /\ timer \in Nat /\ shade \in 0..Fade /\ d \in Nat /\ d <= Longest
      /\ Fade \in Nat /\ Longest \in Nat /\ Exposure \in Nat
  BY SplashAssumption, TitleAssumption DEF SplashInv, SplashTypeOK
<1>2. CASE Begin(d)
  BY <1>1, <1>2 DEF Begin, SplashInv, SplashTypeOK, Coloured, Change
<1>3. CASE FadeFurther(d)
  BY <1>1, <1>3 DEF FadeFurther, SplashInv, SplashTypeOK, Coloured, Change
<1>4. CASE FadedIn(d)
  BY <1>1, <1>4 DEF FadedIn, Whiten, SplashInv, SplashTypeOK, Coloured, Change
<1>5. CASE Expose(d)
  BY <1>1, <1>5 DEF Expose, SplashInv, SplashTypeOK, Coloured, Change
<1>6. CASE Exposed(d)
  BY <1>1, <1>6 DEF Exposed, Whiten, SplashInv, SplashTypeOK, Coloured, Change
<1>7. CASE FadedOut(d)
  <2>1. killed' \in BOOLEAN
    BY <1>7 DEF FadedOut, SplashInv, SplashTypeOK
  <2>2. QED
    BY <1>1, <1>7, <2>1 DEF FadedOut, SplashInv, SplashTypeOK, Coloured, Change
<1>8. CASE UNCHANGED splash
  BY <1>1, <1>8 DEF splash, SplashInv, SplashTypeOK, Coloured, Change
<1>9. QED
  BY <1>2, <1>3, <1>4, <1>5, <1>6, <1>7, <1>8 DEF SplashUpdate

LEMMA SplashGameKeeps ==
  ASSUME SplashInv, SplashGame
  PROVE  SplashInv' /\ Change
<1>1. /\ timer \in Nat /\ shade \in 0..Fade /\ Fade \in Nat /\ Longest \in Nat
  BY SplashAssumption, TitleAssumption DEF SplashInv, SplashTypeOK
<1>2. CASE Reset
  BY <1>1, <1>2 DEF Reset, SplashInv, SplashTypeOK, Coloured, Change
<1>3. CASE Skip
  BY <1>1, <1>3 DEF Skip, Whiten, SplashInv, SplashTypeOK, Coloured, Change
<1>4. CASE SetAutoKill
  BY <1>1, <1>4 DEF SetAutoKill, SplashInv, SplashTypeOK, Coloured, Change
<1>5. QED
  BY <1>2, <1>3, <1>4 DEF SplashGame

-----------------------------------------------------------------------------
(***************************************************************************)
(* The animation.  The entries counted are those of the list that plays.   *)
(***************************************************************************)
Counted ==
  /\ playing => current_framelist \in Animations
  /\ current_framelist \in Animations =>
       current_frame_entries = Length(current_framelist)

AnimationInv == AnimationTypeOK /\ Counted /\ InRange

LEMMA LengthFacts ==
  ASSUME AnimationTypeOK, NEW a \in Animations
  PROVE  Length(a) \in 0..MaxFrames
BY AnimationAssumption DEF AnimationTypeOK, Length

Resized(a, n) ==
  /\ animation_frames' = [animation_frames EXCEPT ![a] = n]
  /\ current_frame_entries' = IF a = current_framelist
       THEN current_frame_entries + (n - Length(a)) ELSE current_frame_entries
  /\ UNCHANGED <<current_framelist, current_frame_entry, current_frame_duration,
                 frame_time, timestamp, loop, playing, render, crashed, overrun>>

LEMMA PushPopKeeps ==
  ASSUME AnimationInv, NEW a \in Animations, PushFrame(a) \/ PopFrame(a)
  PROVE  AnimationInv'
<1>1. PICK n \in 0..MaxFrames : Resized(a, n)
  <2>1. Length(a) \in 0..MaxFrames /\ MaxFrames \in Nat /\ current_frame_entries \in Int
    BY LengthFacts, AnimationAssumption DEF AnimationInv, AnimationTypeOK
  <2>2. CASE PushFrame(a)
    <3>1. Length(a) + 1 \in 0..MaxFrames /\ (Length(a) + 1) - Length(a) = 1
      BY <2>1, <2>2 DEF PushFrame
    <3>2. Resized(a, Length(a) + 1)
      BY <2>1, <2>2, <3>1 DEF PushFrame, Resized
    <3>3. QED
      BY <3>1, <3>2
  <2>3. CASE PopFrame(a)
    <3>1. Length(a) - 1 \in 0..MaxFrames /\ (Length(a) - 1) - Length(a) = -1
      BY <2>1, <2>3 DEF PopFrame
    <3>2. current_frame_entries - 1 = current_frame_entries + (-1)
          /\ current_frame_entries - 0 = current_frame_entries
      BY <2>1
    <3>3. Resized(a, Length(a) - 1)
      BY <2>3, <3>1, <3>2 DEF PopFrame, Resized
    <3>4. QED
      BY <3>1, <3>3
  <2>4. QED
    BY <2>2, <2>3
<1>2. AnimationTypeOK'
  <2>1. Length(a) \in Int
    BY LengthFacts DEF AnimationInv
  <2>2. current_frame_entries' \in Int
    BY <1>1, <2>1 DEF Resized, AnimationInv, AnimationTypeOK
  <2>3. animation_frames' \in [Animations -> 0..MaxFrames \cup {None}]
    BY <1>1 DEF Resized, AnimationInv, AnimationTypeOK
  <2>4. QED
    BY <1>1, <2>2, <2>3 DEF Resized, AnimationInv, AnimationTypeOK
<1>3. \A b \in Animations : Length(b)' = IF b = a THEN n ELSE Length(b)
  BY <1>1, AnimationAssumption DEF Resized, Length, AnimationInv, AnimationTypeOK
<1>4. Counted'
  <2>1. Length(a) \in Int
    BY LengthFacts DEF AnimationInv
  <2>2. QED
    BY <1>1, <1>3, <2>1 DEF Resized, AnimationInv, Counted
<1>5. QED
  BY <1>1, <1>2, <1>4 DEF Resized, AnimationInv, InRange

LEMMA AnimationGameKeeps ==
  ASSUME AnimationInv, AnimationGame
  PROVE  AnimationInv'
<1>1. ASSUME NEW a \in Animations, NEW l \in BOOLEAN, Play(a, l)
      PROVE  AnimationInv'
  <2>1. /\ animation_frames' = animation_frames
        /\ current_framelist' = a /\ current_frame_entries' = Length(a)
        /\ current_frame_entry' = 0 /\ current_frame_duration' = 0
        /\ frame_time' \in FrameTimes /\ timestamp' \in FrameTimes
        /\ loop' = l /\ playing' = TRUE
        /\ UNCHANGED <<render, crashed, overrun>>
    BY <1>1 DEF Play
  <2>2. Length(a) \in Int /\ Length(a)' = Length(a) /\ timestamp' \in Nat
    BY <2>1, LengthFacts, AnimationAssumption DEF AnimationInv, Length
  <2>3. playing' \in BOOLEAN
    BY <2>1
  <2>4. AnimationTypeOK'
    BY <2>1, <2>2, <2>3 DEF AnimationInv, AnimationTypeOK
  <2>5. QED
    BY <2>1, <2>2, <2>4 DEF AnimationInv, Counted, InRange
<1>2. CASE SetPlaybackRatio
  BY <1>2 DEF SetPlaybackRatio, playback, AnimationInv, AnimationTypeOK, Counted, InRange,
              Length
<1>3. CASE Stop
  <2>1. current_framelist' = None /\ ~playing' /\ playing' \in BOOLEAN
    BY <1>3 DEF Stop, Stops
  <2>2. None \notin Animations
    BY AnimationAssumption
  <2>3. QED
    BY <1>3, <2>1, <2>2
       DEF Stop, Stops, AnimationInv, AnimationTypeOK, Counted, InRange
<1>4. QED
  BY <1>1, <1>2, <1>3, PushPopKeeps DEF AnimationGame

LEMMA AnimationUpdateKeeps ==
  ASSUME AnimationInv, NEW d \in 1..Longest, AnimationUpdate(d)
  PROVE  AnimationInv'
<1>1. /\ animation_frames' = animation_frames /\ frame_time' = frame_time
      /\ render' \in BOOLEAN
      /\ \A a \in Animations : Length(a)' = Length(a)
      /\ timestamp \in Nat /\ d \in Nat /\ frame_time \in Nat /\ MaxLag \in Nat
  BY AnimationAssumption, TitleAssumption
     DEF AnimationUpdate, AnimationInv, AnimationTypeOK, Length
<1>2. StepDue(d) => timestamp' \in Nat
  BY <1>1 DEF StepDue, Lag
<1>3. CASE Wait(d)
  <2>1. timestamp' \in Nat /\ UNCHANGED <<playback, crashed, overrun>>
    BY <1>1, <1>3 DEF Wait
  <2>2. QED
    BY <1>1, <2>1
       DEF playback, AnimationInv, AnimationTypeOK, Counted, InRange
<1>4. CASE Hold(d)
  <2>1. timestamp' \in Nat /\ current_frame_duration' \in Int
    BY <1>2, <1>4 DEF Hold, AnimationInv, AnimationTypeOK
  <2>2. QED
    BY <1>1, <1>4, <2>1
       DEF Hold, AnimationInv, AnimationTypeOK, Counted, InRange
<1>5. CASE ShowNext(d)
  <2>1. /\ playing
        /\ current_frame_entry' = IF AtEnd THEN 0 ELSE current_frame_entry + 1
        /\ current_frame_duration' \in Durations
        /\ crashed' = (Length(current_framelist) = 0)
        /\ overrun' = (overrun \/ (~crashed'
                         /\ current_frame_entry' >= Length(current_framelist)))
        /\ UNCHANGED <<current_framelist, current_frame_entries, loop, playing>>
    BY <1>5 DEF ShowNext, StepDue
  <2>2. /\ current_framelist \in Animations
        /\ current_frame_entries = Length(current_framelist)
        /\ Length(current_framelist) \in Nat
    BY <2>1, LengthFacts, AnimationAssumption DEF AnimationInv, Counted
  <2>3. current_frame_entry' \in Nat /\ current_frame_duration' \in Int /\ timestamp' \in Nat
    BY <1>2, <1>5, <2>1, AnimationAssumption DEF AnimationInv, AnimationTypeOK, ShowNext
  <2>4. ~crashed' => current_frame_entry' < Length(current_framelist)
    <3>1. Length(current_framelist) # 0
            => current_frame_entry' < Length(current_framelist)
      BY <2>1, <2>2 DEF AtEnd, AnimationInv, AnimationTypeOK
    <3>2. Length(current_framelist) = 0 => crashed'
      BY <2>1
    <3>3. QED
      BY <3>1, <3>2
  <2>5. ~overrun'
    <3>1. ~overrun
      BY DEF AnimationInv, InRange
    <3>2. ~(~crashed' /\ current_frame_entry' >= Length(current_framelist))
      BY <2>2, <2>3, <2>4
    <3>3. overrun' <=> (overrun \/ (~crashed'
                         /\ current_frame_entry' >= Length(current_framelist)))
      BY <2>1, Zenon
    <3>4. QED
      BY <3>1, <3>2, <3>3, Zenon
  <2>6. crashed' \in BOOLEAN /\ overrun' \in BOOLEAN
    BY <2>1
  <2>7. QED
    BY <1>1, <2>1, <2>2, <2>3, <2>5, <2>6
       DEF AnimationInv, AnimationTypeOK, Counted, InRange
<1>6. CASE Finish(d)
  <2>1. /\ current_framelist' = None /\ ~playing' /\ playing' \in BOOLEAN
        /\ timestamp' \in Nat
    BY <1>2, <1>6 DEF Finish, Stops
  <2>2. None \notin Animations
    BY AnimationAssumption
  <2>3. QED
    BY <1>1, <1>6, <2>1, <2>2
       DEF Finish, Stops, AnimationInv, AnimationTypeOK, Counted, InRange
<1>7. QED
  BY <1>3, <1>4, <1>5, <1>6 DEF AnimationUpdate

-----------------------------------------------------------------------------
(***************************************************************************)
(* The device.  The bits are those of the buffers that are not queued, no  *)
(* buffer is queued twice, and a source that plays has something left to   *)
(* play; the Write in progress still finds what AvailableFrames had seen.  *)
(***************************************************************************)
Queued == {queue[k] : k \in 1..Len(queue)}

Ring ==
  /\ available = Buffers \ Queued
  /\ \A i, j \in 1..Len(queue) : queue[i] = queue[j] => i = j

Played ==
  /\ source = "INITIAL" => processed = 0
  /\ source = "PLAYING" => processed < Len(queue)
  /\ source = "STOPPED" => processed = Len(queue)

Promised ==
  /\ write.at \in {"state", "unqueue"} => HasRoom
  /\ write.at \in {"unqueue", "queue"} =>
       /\ write.state = "INITIAL" <=> source = "INITIAL"
       /\ write.state = "STOPPED" => source = "STOPPED"
  /\ write.at = "queue" => write.buffer \in available

DeviceInv == DeviceTypeOK /\ Ring /\ Played /\ Promised /\ WriteFindsRoom

LEMMA BufferFacts == BuffersMax \in Nat \ {0} /\ Buffers \subseteq Nat /\ 0 \in Buffers
BY DeviceAssumption DEF Buffers

(* A set of numbers that is not empty has a smallest one. *)
LEMMA MinFacts ==
  ASSUME NEW S \in SUBSET Nat, S # {}
  PROVE  Min(S) \in S
<1>1. PICK x \in S : \A y \in S : ~(<<y, x>> \in OpToRel(<, Nat))
  BY NatLessThanWellFounded, WFMin
<1>2. ASSUME NEW y \in S
      PROVE  x <= y
  <2>1. ~(y < x)
    BY <1>1 DEF OpToRel
  <2>2. QED
    BY <2>1
<1>3. QED
  BY <1>2 DEF Min

(* Fewer buffers are queued than there are: one of them is not queued.     *)
LEMMA OneIsLeft ==
  ASSUME DeviceTypeOK, Ring, Len(queue) < BuffersMax
  PROVE  available # {}
<1>1. Len(queue) \in Nat /\ \A k \in 1..Len(queue) : queue[k] \in Buffers
  BY DEF DeviceTypeOK
<1>2. Cardinality(Queued) <= Len(queue)
  <2>1. [k \in 1..Len(queue) |-> queue[k]] \in Surjection(1..Len(queue), Queued)
    BY DEF Surjection, Queued
  <2>2. ExistsSurjection(1..Len(queue), Queued)
    BY <2>1 DEF ExistsSurjection
  <2>3. QED
    BY <1>1, <2>2, FS_SurjCardinalityBound
<1>3. Cardinality(Buffers) = BuffersMax
  <2>1. 0 \in Int /\ BuffersMax - 1 \in Int /\ ~(0 > BuffersMax - 1)
        /\ BuffersMax - 1 - 0 + 1 = BuffersMax
    BY BufferFacts
  <2>2. Cardinality(0..BuffersMax - 1) = BuffersMax - 1 - 0 + 1
    BY <2>1, FS_Interval
  <2>3. QED
    BY <2>1, <2>2 DEF Buffers
<1>4. Queued \subseteq Buffers
  BY <1>1 DEF Queued
<1>5. SUFFICES ASSUME available = {}
               PROVE  FALSE
  OBVIOUS
<1>6. Queued = Buffers
  BY <1>4, <1>5 DEF Ring
<1>7. QED
  BY <1>1, <1>2, <1>3, <1>6, BufferFacts

LEMMA UnqueueKeeps ==
  ASSUME DeviceInv, WriteUnqueue
  PROVE  DeviceInv'
<1> DEFINE n == Len(queue)
<1>1. /\ n \in Nat /\ processed \in 1..n
      /\ \A k \in 1..n : queue[k] \in Buffers
      /\ available' = available \cup {queue[k] : k \in 1..processed}
      /\ write' = [write EXCEPT !.at = "queue", !.buffer = queue[processed]]
      /\ queue' = SubSeq(queue, processed + 1, n)
      /\ processed' = 0
      /\ UNCHANGED <<source, failures, full, deaf>>
      /\ write.at = "unqueue" /\ write.state # "INITIAL"
  BY DEF WriteUnqueue, Unqueues, DeviceInv, DeviceTypeOK
<1>2. /\ queue' \in Seq(Buffers)
      /\ Len(queue') = n - processed
      /\ \A k \in 1..Len(queue') : queue'[k] = queue[processed + k]
  <2>1. /\ SubSeq(queue, processed + 1, n) \in Seq(Buffers)
        /\ Len(SubSeq(queue, processed + 1, n))
             = IF processed + 1 <= n THEN n - (processed + 1) + 1 ELSE 0
        /\ \A i \in 1..n - (processed + 1) + 1 :
             SubSeq(queue, processed + 1, n)[i] = queue[processed + 1 + i - 1]
    <3>1. processed + 1 \in Int /\ n \in Int
          /\ \A i \in processed + 1..n : queue[i] \in Buffers
      BY <1>1
    <3>2. QED
      BY <3>1, SubSeqProperties
  <2>2. QED
    BY <1>1, <2>1
<1>3. DeviceTypeOK'
  <2>1. queue[processed] \in Buffers
    BY <1>1
  <2>2. write' \in [at : {"idle", "state", "unqueue", "queue"}, state : States,
                    buffer : Buffers]
    BY <1>1, <2>1 DEF DeviceInv, DeviceTypeOK
  <2>3. available' \in SUBSET Buffers
    BY <1>1 DEF DeviceInv, DeviceTypeOK
  <2>4. processed' \in 0..Len(queue')
    BY <1>1, <1>2
  <2>5. QED
    BY <1>1, <1>2, <2>2, <2>3, <2>4 DEF DeviceInv, DeviceTypeOK
<1>4. Ring'
  <2>1. ASSUME NEW i \in 1..Len(queue'), NEW j \in 1..Len(queue'), queue'[i] = queue'[j]
        PROVE  i = j
    <3>1. /\ n \in Nat /\ processed \in 1..n
          /\ i \in 1..n - processed /\ j \in 1..n - processed
      BY <1>1, <1>2
    <3>2. processed + i \in 1..n /\ processed + j \in 1..n
      BY <3>1
    <3>3. queue[processed + i] = queue[processed + j]
      BY <1>2, <2>1
    <3>4. processed + i = processed + j
      BY <3>2, <3>3 DEF DeviceInv, Ring
    <3>5. QED
      BY <3>1, <3>4
  <2>2. ASSUME NEW b \in Buffers
        PROVE  b \in available' <=> b \notin Queued'
    <3>1. b \in Queued' <=> \E k \in processed + 1..n : b = queue[k]
      <4>1. b \in Queued' <=> \E k \in 1..Len(queue') : b = queue'[k]
        BY DEF Queued
      <4>2. ASSUME NEW k \in 1..Len(queue'), b = queue'[k]
            PROVE  \E l \in processed + 1..n : b = queue[l]
        <5>1. processed + k \in processed + 1..n
          BY <1>1, <1>2
        <5>2. QED
          BY <1>2, <4>2, <5>1
      <4>3. ASSUME NEW l \in processed + 1..n, b = queue[l]
            PROVE  \E k \in 1..Len(queue') : b = queue'[k]
        <5>1. l - processed \in 1..Len(queue') /\ processed + (l - processed) = l
          BY <1>1, <1>2
        <5>2. QED
          BY <1>2, <4>3, <5>1
      <4>4. QED
        BY <4>1, <4>2, <4>3
    <3>2. b \in available' <=> b \notin Queued \/ \E k \in 1..processed : b = queue[k]
      BY <1>1 DEF DeviceInv, Ring
    <3>3. b \in Queued <=> \/ \E k \in 1..processed : b = queue[k]
                           \/ \E k \in processed + 1..n : b = queue[k]
      BY <1>1 DEF Queued
    <3>4. ASSUME NEW k \in 1..processed, NEW l \in processed + 1..n,
                 b = queue[k], b = queue[l]
          PROVE  FALSE
      <4>1. k \in 1..n /\ l \in 1..n /\ k # l
        BY <1>1
      <4>2. QED
        BY <3>4, <4>1 DEF DeviceInv, Ring
    <3>5. QED
      BY <3>1, <3>2, <3>3, <3>4
  <2>3. available' \subseteq Buffers
    BY <1>3 DEF DeviceTypeOK
  <2>4. QED
    BY <2>1, <2>2, <2>3 DEF Ring, Buffers
<1>5. Played'
  BY <1>1, <1>2 DEF DeviceInv, Played, Promised
<1>6. Promised'
  <2>1. write'.at = "queue" /\ write'.state = write.state
        /\ write'.buffer = queue[processed]
    BY <1>1 DEF DeviceInv, DeviceTypeOK
  <2>2. queue[processed] \in available'
    BY <1>1
  <2>3. QED
    BY <1>1, <2>1, <2>2 DEF DeviceInv, Promised
<1>7. QED
  BY <1>1, <1>3, <1>4, <1>5, <1>6 DEF DeviceInv, WriteFindsRoom

LEMMA PickKeeps ==
  ASSUME DeviceInv, WritePick
  PROVE  DeviceInv'
<1>1. source = "INITIAL" /\ write.state = "INITIAL" /\ Len(queue) < BuffersMax
  BY DEF WritePick, Unqueues, DeviceInv, DeviceTypeOK, Promised, HasRoom
<1>2. available # {}
  BY <1>1, OneIsLeft DEF DeviceInv
<1>3. Min(available) \in available /\ available \subseteq Buffers
  BY <1>2, MinFacts, BufferFacts DEF DeviceInv, DeviceTypeOK
<1>4. /\ write' = [write EXCEPT !.at = "queue", !.buffer = Min(available)]
      /\ UNCHANGED <<source, queue, processed, available, failures, deaf>>
  BY <1>2 DEF WritePick
<1>5. ~full' /\ full' \in BOOLEAN
  BY <1>2 DEF WritePick, DeviceInv, DeviceTypeOK, WriteFindsRoom
<1>6. write' \in [at : {"idle", "state", "unqueue", "queue"}, state : States,
                  buffer : Buffers]
      /\ write'.at = "queue" /\ write'.state = "INITIAL"
      /\ write'.buffer = Min(available)
  BY <1>1, <1>3, <1>4 DEF DeviceInv, DeviceTypeOK
<1>7. QED
  BY <1>1, <1>3, <1>4, <1>5, <1>6
     DEF DeviceInv, DeviceTypeOK, Ring, Queued, Played, Promised, WriteFindsRoom

LEMMA QueueKeeps ==
  ASSUME DeviceInv, WriteQueue
  PROVE  DeviceInv'
<1> DEFINE n == Len(queue)
<1> DEFINE b == write.buffer
<1>1. /\ n \in Nat /\ processed \in 0..n
      /\ b \in available /\ b \in Buffers /\ available \subseteq Buffers
      /\ b \notin Queued
      /\ \A k \in 1..n : queue[k] \in Buffers
      /\ write.at = "queue"
  BY DEF WriteQueue, DeviceInv, DeviceTypeOK, Promised, Ring
<1>2. /\ queue' = Append(queue, b)
      /\ available' = available \ {b}
      /\ write' = Idle
      /\ UNCHANGED <<failures, full, deaf>>
  BY <1>1 DEF WriteQueue, Toggled
<1>3. /\ queue' \in Seq(Buffers) /\ Len(queue') = n + 1
      /\ \A k \in 1..n : queue'[k] = queue[k]
      /\ queue'[n + 1] = b
  BY <1>1, <1>2, AppendProperties DEF DeviceInv, DeviceTypeOK
<1>4. Ring'
  <2>1. \A k \in 1..n : queue[k] # b
    BY <1>1 DEF Queued
  <2>2. \A i, j \in 1..Len(queue') : queue'[i] = queue'[j] => i = j
    BY <1>1, <1>3, <2>1 DEF DeviceInv, Ring
  <2>3. Queued' = Queued \cup {b}
    <3>1. Queued' = {queue'[k] : k \in 1..n + 1}
      BY <1>3 DEF Queued
    <3>2. 1..n + 1 = 1..n \cup {n + 1}
      BY <1>1
    <3>3. QED
      BY <1>3, <3>1, <3>2 DEF Queued
  <2>4. available' = Buffers \ Queued'
    BY <1>2, <2>3 DEF DeviceInv, Ring
  <2>5. QED
    BY <2>2, <2>4 DEF Ring, Buffers
<1>5. /\ source' \in States
      /\ source' = "INITIAL" => processed' = 0
      /\ source' = "PLAYING" => processed' \in 0..n
      /\ source' = "STOPPED" => processed' = n + 1
  BY <1>1, <1>3 DEF WriteQueue, DeviceInv, DeviceTypeOK, Promised, Played, States
<1>6. processed' \in 0..n + 1
  BY <1>1, <1>5 DEF States
<1>7. write' \in [at : {"idle", "state", "unqueue", "queue"}, state : States,
                  buffer : Buffers]
      /\ write'.at = "idle"
  BY <1>2, BufferFacts DEF Idle, States
<1>8. DeviceTypeOK'
  BY <1>1, <1>2, <1>3, <1>5, <1>6, <1>7 DEF DeviceInv, DeviceTypeOK
<1>9. QED
  BY <1>1, <1>2, <1>3, <1>4, <1>5, <1>7, <1>8
     DEF DeviceInv, Played, Promised, WriteFindsRoom

LEMMA OtherDeviceSteps ==
  ASSUME DeviceInv, AudioTick \/ WriteState \/ WriteFails \/ SourcePlays
  PROVE  DeviceInv'
<1>1. CASE AudioTick
  <2>1. /\ write' \in [at : {"idle", "state", "unqueue", "queue"}, state : States,
                       buffer : Buffers]
        /\ write'.at = "state" => HasRoom
        /\ write'.at \in {"idle", "state"}
        /\ UNCHANGED <<source, queue, processed, available, failures, full, deaf>>
    BY <1>1 DEF AudioTick, DeviceInv, DeviceTypeOK
  <2>2. QED
    BY <2>1 DEF DeviceInv, DeviceTypeOK, Ring, Queued, Played, Promised, WriteFindsRoom,
                HasRoom
<1>2. CASE WriteState
  <2>1. /\ write' \in [at : {"idle", "state", "unqueue", "queue"}, state : States,
                       buffer : Buffers]
        /\ write'.at = "unqueue" /\ write'.state = source
        /\ HasRoom
        /\ UNCHANGED <<source, queue, processed, available, failures, full, deaf>>
    BY <1>2 DEF WriteState, DeviceInv, DeviceTypeOK, Promised
  <2>2. QED
    BY <2>1 DEF DeviceInv, DeviceTypeOK, Ring, Queued, Played, Promised, WriteFindsRoom,
                HasRoom
<1>3. CASE WriteFails
  <2>1. /\ write' \in [at : {"idle", "state", "unqueue", "queue"}, state : States,
                       buffer : Buffers]
        /\ write'.at = "idle"
    BY <1>3, BufferFacts DEF WriteFails, Idle, States
  <2>2. failures' \in 0..MaxFailures
    BY <1>3, DeviceAssumption DEF WriteFails, DeviceInv, DeviceTypeOK
  <2>3. deaf' \in BOOLEAN
    BY <1>3 DEF WriteFails, DeviceInv, DeviceTypeOK
  <2>4. QED
    BY <1>3, <2>1, <2>2, <2>3
       DEF WriteFails, DeviceInv, DeviceTypeOK, Ring, Queued, Played, Promised,
           WriteFindsRoom
<1>4. CASE SourcePlays
  <2>1. /\ Len(queue) \in Nat /\ processed \in Nat /\ processed < Len(queue)
        /\ processed' = processed + 1
        /\ source = "PLAYING"
        /\ source' = IF processed + 1 = Len(queue) THEN "STOPPED" ELSE "PLAYING"
        /\ UNCHANGED <<queue, available, write, failures, full, deaf>>
    BY <1>4 DEF SourcePlays, DeviceInv, DeviceTypeOK, Played
  <2>2. processed' \in 0..Len(queue) /\ source' \in States
    BY <2>1 DEF States
  <2>3. Promised'
    BY <2>1 DEF DeviceInv, Promised, HasRoom
  <2>4. QED
    BY <2>1, <2>2, <2>3
       DEF DeviceInv, DeviceTypeOK, Ring, Queued, Played, WriteFindsRoom
<1>5. QED
  BY <1>1, <1>2, <1>3, <1>4

-----------------------------------------------------------------------------
(***************************************************************************)
(* The title screen: each step of the engine, the game and the source is   *)
(* one of those above, or leaves the part alone.                           *)
(***************************************************************************)
Parts == SplashInv /\ AnimationInv /\ DeviceInv

Inv ==
  /\ Parts
  /\ pc \in {"tick", "write", "update", "game"}
  /\ covered \in BOOLEAN
  /\ sound \in BOOLEAN

LEMMA Stays ==
  /\ SplashInv /\ UNCHANGED splash => SplashInv' /\ Change
  /\ AnimationInv /\ UNCHANGED animation => AnimationInv'
  /\ DeviceInv /\ UNCHANGED device => DeviceInv'
<1>1. SplashInv /\ UNCHANGED splash => SplashInv' /\ Change
  BY SplashAssumption, TitleAssumption
     DEF splash, SplashInv, SplashTypeOK, Coloured, Change
<1>2. AnimationInv /\ UNCHANGED animation => AnimationInv'
  BY DEF animation, playback, AnimationInv, AnimationTypeOK, Counted, InRange, Length
<1>3. DeviceInv /\ UNCHANGED device => DeviceInv'
  BY DEF device, DeviceInv, DeviceTypeOK, Ring, Queued, Played, Promised, WriteFindsRoom,
         HasRoom
<1>4. QED
  BY <1>1, <1>2, <1>3

LEMMA Starts == Init => Inv
<1>1. Init => SplashInv
  <2>1. Init => autoKill \in BOOLEAN /\ killed \in BOOLEAN /\ again \in BOOLEAN
    BY DEF Init, SplashInit
  <2>2. QED
    BY <2>1, SplashAssumption
       DEF Init, SplashInit, SplashInv, SplashTypeOK, Coloured
<1>2. Init => AnimationInv
  <2>1. Init => /\ loop \in BOOLEAN /\ playing \in BOOLEAN /\ render \in BOOLEAN
                /\ crashed \in BOOLEAN /\ overrun \in BOOLEAN
                /\ ~playing /\ ~overrun
    BY DEF Init, AnimationInit
  <2>2. QED
    BY <2>1, AnimationAssumption
       DEF Init, AnimationInit, AnimationInv, AnimationTypeOK, Counted, InRange
<1>3. Init => DeviceInv
  <2>1. Init => full \in BOOLEAN /\ deaf \in BOOLEAN /\ ~full
    BY DEF Init, DeviceInit
  <2>2. Init => /\ write \in [at : {"idle", "state", "unqueue", "queue"},
                               state : States, buffer : Buffers]
                /\ write.at = "idle"
    BY BufferFacts DEF Init, DeviceInit, Idle, States
  <2>3. Init => queue \in Seq(Buffers) /\ Len(queue) = 0 /\ Queued = {}
    BY DEF Init, DeviceInit, Queued
  <2>4. QED
    BY <2>1, <2>2, <2>3, DeviceAssumption
       DEF Init, DeviceInit, States, DeviceInv, DeviceTypeOK, Ring, Played, Promised,
           WriteFindsRoom
<1>4. QED
  BY <1>1, <1>2, <1>3 DEF Init, Inv, Parts

LEMMA StepKeeps == Inv /\ [Next]_vars => Inv' /\ Change
<1> SUFFICES ASSUME Inv, [Next]_vars
             PROVE  Inv' /\ Change
  OBVIOUS
<1> USE DEF Inv, Parts
<1>1. CASE Tick
  <2>1. pc' \in {"tick", "write", "update", "game"}
        /\ UNCHANGED <<splash, animation, covered, sound>>
        /\ (AudioTick \/ UNCHANGED device)
    BY <1>1 DEF Tick
  <2>2. QED
    BY <2>1, Stays, OtherDeviceSteps
<1>2. CASE Write
  <2>1. pc' \in {"tick", "write", "update", "game"}
        /\ UNCHANGED <<splash, animation, covered, sound>>
        /\ Writing
    BY <1>2 DEF Write
  <2>2. QED
    BY <2>1, Stays, OtherDeviceSteps, UnqueueKeeps, PickKeeps, QueueKeeps DEF Writing
<1>3. CASE Update
  <2>1. pc' \in {"tick", "write", "update", "game"} /\ UNCHANGED <<device, sound>>
    BY <1>3 DEF Update
  <2>2. covered' \in BOOLEAN
    BY <1>3 DEF Update
  <2>3. SplashInv' /\ AnimationInv' /\ Change
    BY <1>3, Stays, SplashUpdateKeeps, AnimationUpdateKeeps DEF Update
  <2>4. QED
    BY <2>1, <2>2, <2>3, Stays
<1>4. CASE Game
  BY <1>4, Stays, SplashGameKeeps, AnimationGameKeeps DEF Game
<1>5. CASE GameReturns
  BY <1>5, Stays DEF GameReturns
<1>6. CASE SourcePlays /\ UNCHANGED <<splash, animation, pc, covered, sound>>
  BY <1>6, Stays, OtherDeviceSteps
<1>7. CASE UNCHANGED vars
  BY <1>7, Stays DEF vars
<1>8. QED
  BY <1>1, <1>2, <1>3, <1>4, <1>5, <1>6, <1>7 DEF Next, Engine

(* The splash, the animation, the device and the engine keep their types.  *)
THEOREM TypeCorrect == Spec => []TypeOK
<1>1. Inv => TypeOK
  BY DEF Inv, Parts, SplashInv, AnimationInv, DeviceInv, TypeOK
<1>2. QED
  BY Starts, StepKeeps, <1>1, PTL DEF Spec

(* No frame behind the end of its list is shown.                           *)
THEOREM FramesInRange == Spec => []InRange
<1>1. Inv => InRange
  BY DEF Inv, Parts, AnimationInv
<1>2. QED
  BY Starts, StepKeeps, <1>1, PTL DEF Spec

(* A write finds the room that the device has reported.                    *)
THEOREM RoomIsFound == Spec => []WriteFindsRoom
<1>1. Inv => WriteFindsRoom
  BY DEF Inv, Parts, DeviceInv
<1>2. QED
  BY Starts, StepKeeps, <1>1, PTL DEF Spec

(* No update makes the splash flash.                                       *)
THEOREM SplashDoesNotFlash == Spec => NoFlash
<1>1. Inv /\ [Next]_vars => [~again => shade' - shade \in -(2 * Longest)..(2 * Longest)]_vars
  BY StepKeeps DEF Change
<1>2. QED
  BY Starts, StepKeeps, <1>1, PTL DEF Spec, NoFlash
=============================================================================
