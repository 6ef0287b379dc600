----------------------------- MODULE AudioPlayer -----------------------------
(***************************************************************************)
(* Audio::Player and Audio::PCM: the tracks loaded under ids, the playlist *)
(* with the iterations left of each id, and tick(), which fills the PCM    *)
(* device from every track on the playlist and rewinds those that end.     *)
(* Amounts are in bytes.  A track is loaded under one id at a time.        *)
(***************************************************************************)
EXTENDS Integers, FiniteSetsExt

CONSTANTS
  Ids, Tracks, PCMs,
  Length,       (* the bytes of each track                                 *)
  Iterations,   (* what the game passes to play(): -1 is for ever          *)
  Formats,      (* [frame, max]: bytes of a frame, frames of the device    *)
  Nil,          (* no track, no device, no tick                            *)
  Null          (* the null track that tracks[id] inserts                  *)

ASSUME AudioAssumption ==
  /\ Length \in [Tracks -> Nat]
  /\ Iterations \subseteq Nat \cup {-1}
  /\ Formats \subseteq [frame : Nat \ {0}, max : Nat \ {0}]
  /\ Nil \notin Ids \cup Tracks \cup PCMs \cup Formats
  /\ Null \notin Tracks \cup {Nil}

VARIABLES
  tracks,    (* the track of each id: Nil, a track, or Null               *)
  playlist,  (* the iterations left of each id, 0 if it does not play      *)
  pcm,       (* the player's device, or Nil                               *)
  buffer,    (* the size of buffer and of mix, 0 if there are none         *)
  format,    (* the format each device is open with, or Nil               *)
  position,  (* how far each track has been read                           *)
  tick,      (* the tick() in progress, or Nil                            *)
  crashed,   (* tick() called the null track                               *)
  due,       (* ghost: the bytes still to be played of each id             *)
  stopped,   (* ghost: the ids that were stopped, or have come to the end  *)
  careless,  (* ghost: an id was played or left playing without a track    *)
  resized    (* ghost: the device was opened again behind the buffers      *)

clients == <<tracks, playlist, position, due, stopped, careless>>
devices == <<pcm, buffer, format, resized>>
player == <<clients, devices, tick, crashed>>

(***************************************************************************)
(* A tick: l_buffer_max, the ids it has yet to come to, the id it is at,   *)
(* l_read, and (ghost) what it has mixed of each id.                       *)
(***************************************************************************)
Tick == [room : Nat, left : SUBSET Ids, id : Ids \cup {Nil}, read : Nat,
         mixed : [Ids -> Nat]]

ASSUME TickAssumption == Nil \notin Tick

PlayerTypeOK ==
  /\ tracks \in [Ids -> Tracks \cup {Nil, Null}]
  /\ playlist \in [Ids -> Nat \cup {-1}]
  /\ pcm \in PCMs \cup {Nil}
  /\ buffer \in Nat
  /\ format \in [PCMs -> Formats \cup {Nil}]
  /\ position \in [Tracks -> Nat]
  /\ \A t \in Tracks : position[t] <= Length[t]
  /\ tick \in Tick \cup {Nil}
  /\ crashed \in BOOLEAN
  /\ due \in [Ids -> Int]
  /\ stopped \in SUBSET Ids
  /\ careless \in BOOLEAN
  /\ resized \in BOOLEAN

PlayerInit ==
  /\ tracks = [id \in Ids |-> Nil]
  /\ playlist = [id \in Ids |-> 0]
  /\ pcm = Nil
  /\ buffer = 0
  /\ format = [p \in PCMs |-> Nil]
  /\ position = [t \in Tracks |-> 0]
  /\ tick = Nil
  /\ crashed = FALSE
  /\ due = [id \in Ids |-> 0]
  /\ stopped = Ids
  /\ careless = FALSE
  /\ resized = FALSE

Loaded(id) == tracks[id] \in Tracks

(* The bytes that n iterations of the track t have from the given place,   *)
(* or 0 if they are not counted.                                           *)
Remaining(n, t, place) == IF n > 0 THEN n * Length[t] - place ELSE 0

Size(f) == f.max * f.frame

(* The game has the CPU: tick() calls nothing of it back. *)
GameRuns == tick = Nil /\ ~crashed

-----------------------------------------------------------------------------
(***************************************************************************)
(* Audio::Player                                                           *)
(***************************************************************************)
LoadTrack(id, t) ==
  /\ GameRuns
  /\ \A other \in Ids : tracks[other] # t
  /\ tracks' = [tracks EXCEPT ![id] = t]
  /\ due' = [due EXCEPT ![id] = Remaining(playlist[id], t, position[t])]
  /\ UNCHANGED <<playlist, position, stopped, careless, devices, tick, crashed>>

(* The id stays on the playlist. *)
Eject(id) ==
  /\ GameRuns
  /\ tracks' = [tracks EXCEPT ![id] = Nil]
  /\ careless' = (careless \/ id \notin stopped)
  /\ UNCHANGED <<playlist, position, due, stopped, devices, tick, crashed>>

Play(id, n) ==
  /\ GameRuns
  /\ n # 0
  /\ playlist' = [playlist EXCEPT ![id] = n]
  /\ position' = IF Loaded(id) THEN [position EXCEPT ![tracks[id]] = 0] ELSE position
  /\ due' = [due EXCEPT ![id] = IF Loaded(id) THEN Remaining(n, tracks[id], 0) ELSE 0]
  /\ stopped' = stopped \ {id}
  /\ careless' = (careless \/ ~Loaded(id))
  /\ UNCHANGED <<tracks, devices, tick, crashed>>

(* stop(id), and play(id, 0). *)
Stop(id) ==
  /\ GameRuns
  /\ playlist' = [playlist EXCEPT ![id] = 0]
  /\ due' = [due EXCEPT ![id] = 0]
  /\ stopped' = stopped \cup {id}
  /\ UNCHANGED <<tracks, position, careless, devices, tick, crashed>>

(* The track of the id, if there is one, starts over; so does its playlist  *)
(* entry's current iteration.                                              *)
Rewind(id) ==
  /\ GameRuns
  /\ Loaded(id)
  /\ position' = [position EXCEPT ![tracks[id]] = 0]
  /\ due' = [due EXCEPT ![id] =
               IF playlist[id] > 0 THEN @ + position[tracks[id]] ELSE @]
  /\ UNCHANGED <<tracks, playlist, stopped, careless, devices, tick, crashed>>

(* Mistake: the buffers of the last device are kept. *)
SetPCM_KeepBuffers(p) ==
  /\ GameRuns
  /\ p # pcm
  /\ pcm' = p
  /\ buffer' = IF p # Nil /\ buffer = 0 /\ format[p] # Nil
               THEN Size(format[p]) ELSE buffer
  /\ resized' = FALSE
  /\ UNCHANGED <<format, clients, tick, crashed>>

SetPCM(p) ==
  /\ GameRuns
  /\ p # pcm
  /\ pcm' = p
  /\ buffer' = IF p = Nil \/ format[p] = Nil THEN 0 ELSE Size(format[p])
  /\ resized' = FALSE
  /\ UNCHANGED <<format, clients, tick, crashed>>

(***************************************************************************)
(* Audio::PCM.  open() closes first and may then fail; the player is not   *)
(* told, and keeps the buffers it has.                                     *)
(***************************************************************************)
Reopen(p, f) ==
  /\ GameRuns
  /\ format' = [format EXCEPT ![p] = f]
  /\ resized' = (resized \/ (p = pcm /\ buffer # 0))
  /\ UNCHANGED <<pcm, buffer, clients, tick, crashed>>

-----------------------------------------------------------------------------
(***************************************************************************)
(* Player::tick.  The device takes the given number of frames right now.   *)
(***************************************************************************)
TickBegin(frames) ==
  /\ GameRuns
  /\ pcm # Nil
  /\ format[pcm] # Nil
  /\ frames <= format[pcm].max
  /\ buffer' = IF buffer = 0 THEN Size(format[pcm]) ELSE buffer
  /\ tick' = IF frames = 0 THEN Nil
             ELSE [room |-> frames * format[pcm].frame,
                   left |-> {id \in Ids : playlist[id] # 0},
                   id |-> Nil, read |-> 0, mixed |-> [id \in Ids |-> 0]]
  /\ UNCHANGED <<clients, pcm, format, resized, crashed>>

(* The loop comes to the id (the order of the map is not told apart).      *)
TickNext(id) ==
  /\ tick # Nil /\ ~crashed
  /\ tick.id = Nil
  /\ id \in tick.left
  /\ tick' = [tick EXCEPT !.id = id, !.left = @ \ {id}, !.read = 0]
  /\ tracks' = IF tracks[id] = Nil THEN [tracks EXCEPT ![id] = Null] ELSE tracks
  /\ crashed' = ~Loaded(id)
  /\ UNCHANGED <<playlist, position, due, stopped, careless, devices>>

Reading == tick # Nil /\ tick.id # Nil /\ ~crashed

(* What ITrack::read gives: as much as fits, up to the end of the track.   *)
Read ==
  Min({tick.room - tick.read, Length[tracks[tick.id]] - position[tracks[tick.id]]})

(* The tick when the bytes read have been mixed and it goes on at id.      *)
Mixed(id) ==
  [tick EXCEPT !.id = id, !.read = @ + Read, !.mixed[tick.id] = @ + Read]

Owed == IF playlist[tick.id] > 0 THEN [due EXCEPT ![tick.id] = @ - Read] ELSE due

Short == Reading /\ tick.read + Read < tick.room

(* The device's room is filled: on to the next id. *)
ReadFull ==
  /\ Reading
  /\ tick.read + Read = tick.room
  /\ tick' = Mixed(Nil)
  /\ position' = [position EXCEPT ![tracks[tick.id]] = @ + Read]
  /\ due' = Owed
  /\ UNCHANGED <<tracks, playlist, stopped, careless, devices, crashed>>

(* Mistake: an iteration is counted when the next id's turn comes only. *)
ReadAgain_NoUpdate ==
  /\ Short
  /\ playlist[tick.id] # 1
  /\ tick' = Mixed(tick.id)
  /\ position' = [position EXCEPT ![tracks[tick.id]] = 0]
  /\ due' = Owed
  /\ UNCHANGED <<tracks, playlist, stopped, careless, devices, crashed>>

(* Mistake: the track is not rewound. *)
ReadAgain_NoRewind ==
  /\ Short
  /\ playlist[tick.id] # 1
  /\ tick' = Mixed(tick.id)
  /\ position' = [position EXCEPT ![tracks[tick.id]] = @ + Read]
  /\ playlist' = [playlist EXCEPT ![tick.id] = IF @ = -1 THEN @ ELSE @ - 1]
  /\ due' = Owed
  /\ UNCHANGED <<tracks, stopped, careless, devices, crashed>>

(* Mistake: the rest of the room is left silent. *)
ReadAgain_Once ==
  /\ Short
  /\ playlist[tick.id] # 1
  /\ tick' = Mixed(Nil)
  /\ position' = [position EXCEPT ![tracks[tick.id]] = 0]
  /\ playlist' = [playlist EXCEPT ![tick.id] = IF @ = -1 THEN @ ELSE @ - 1]
  /\ due' = Owed
  /\ UNCHANGED <<tracks, stopped, careless, devices, crashed>>

(* The track has ended and has iterations left: once more from its start.  *)
ReadAgain ==
  /\ Short
  /\ playlist[tick.id] # 1
  /\ tick' = Mixed(tick.id)
  /\ position' = [position EXCEPT ![tracks[tick.id]] = 0]
  /\ playlist' = [playlist EXCEPT ![tick.id] = IF @ = -1 THEN @ ELSE @ - 1]
  /\ due' = Owed
  /\ UNCHANGED <<tracks, stopped, careless, devices, crashed>>

(* ... or it was the last one. *)
ReadLast ==
  /\ Short
  /\ playlist[tick.id] = 1
  /\ tick' = Mixed(Nil)
  /\ position' = [position EXCEPT ![tracks[tick.id]] = 0]
  /\ playlist' = [playlist EXCEPT ![tick.id] = 0]
  /\ due' = Owed
  /\ stopped' = stopped \cup {tick.id}
  /\ UNCHANGED <<tracks, careless, devices, crashed>>

TickLoopEnds == tick # Nil /\ tick.id = Nil /\ tick.left = {}

(* PCM::write; when it fails, what was read is lost. *)
TickWrite ==
  /\ TickLoopEnds
  /\ tick' = Nil
  /\ UNCHANGED <<clients, devices, crashed>>

GameCalls ==
  \/ \E id \in Ids, t \in Tracks : LoadTrack(id, t)
  \/ \E id \in Ids : Eject(id) \/ Stop(id) \/ Rewind(id)
  \/ \E id \in Ids, n \in Iterations : Play(id, n)
  \/ \E p \in PCMs \cup {Nil} : SetPCM(p)
  \/ \E p \in PCMs, f \in Formats \cup {Nil} : Reopen(p, f)

Ticking ==
  \/ \E id \in Ids : TickNext(id)
  \/ ReadFull \/ ReadAgain \/ ReadLast
  \/ TickWrite

PlayerNext ==
  \/ GameCalls
  \/ Ticking
  \/ \E f \in Formats : \E frames \in 0..f.max : TickBegin(frames)

PlayerSpec == PlayerInit /\ [][PlayerNext]_player

(* tick() runs on. *)
FairPlayerSpec == PlayerSpec /\ WF_player(Ticking)

-----------------------------------------------------------------------------
(* tick() stays within buffer and mix, whatever devices the player is      *)
(* given, unless a device is opened again while the player has buffers for *)
(* it: then they keep the size that fitted the old format.                 *)
BufferFits == tick # Nil /\ ~resized => tick.room <= buffer

(* A playlist entry of n iterations is n whole passes of the track, not a  *)
(* byte more or less, over all the ticks they take: what is left to play   *)
(* is what the iterations and the position say.                            *)
ExactPlays ==
  \A id \in Ids :
    playlist[id] >= 0 /\ Loaded(id) =>
      due[id] = Remaining(playlist[id], tracks[id], position[tracks[id]])

(* Every tick fills the room of the device from every track that was on    *)
(* the playlist, across its ends and rewinds, unless it stops for good.    *)
RoomFilled ==
  TickLoopEnds =>
    \A id \in Ids : playlist[id] # 0 => tick.mixed[id] = tick.room

(* tick() returns, if no track without a byte is played for ever: neither   *)
(* does it read one track without end nor call a null track, unless the    *)
(* game plays an id that has no track, or ejects a track that it has not   *)
(* stopped and that has not come to its end.                               *)
TickReturns == []<>(tick = Nil \/ (crashed /\ careless))
=============================================================================
