---------------------------- MODULE OpenALDevice ----------------------------
(***************************************************************************)
(* The PCM device over OpenAL: a ring of buffers that are filled and       *)
(* queued on a source, played by it and unqueued, and Audio::Player, which *)
(* asks for room once in every tick and then writes.  The source plays on  *)
(* between any two calls of the device.                                    *)
(***************************************************************************)
EXTENDS Integers, Sequences, SequencesExt, FiniteSetsExt

CONSTANTS
  BuffersMax,    (* OPENAL_BUFFERS_MAX                                      *)
  MaxFailures    (* bound: calls of OpenAL that fail                        *)

ASSUME DeviceAssumption == BuffersMax \in Nat \ {0} /\ MaxFailures \in Nat

Buffers == 0..BuffersMax - 1

VARIABLES
  source,        (* "INITIAL", "PLAYING" or "STOPPED"                      *)
  queue,         (* the buffers queued on the source                       *)
  processed,     (* how many of them have been played                      *)
  available,     (* the bits of the handle                                 *)
  write,         (* the Write in progress: at, l_state, l_buffer           *)
  failures,
  full,          (* ghost: a Write has found no buffer                     *)
  deaf           (* ghost: a Write failed and left a stopped source with   *)
                 (* nothing queued                                         *)

device == <<source, queue, processed, available, write, failures, full, deaf>>

States == {"INITIAL", "PLAYING", "STOPPED"}

DeviceTypeOK ==
  /\ source \in States
  /\ queue \in Seq(Buffers)
  /\ processed \in 0..Len(queue)
  /\ available \in SUBSET Buffers
  /\ write \in [at : {"idle", "state", "unqueue", "queue"}, state : States,
                buffer : Buffers]
  /\ failures \in 0..MaxFailures
  /\ full \in BOOLEAN
  /\ deaf \in BOOLEAN

Idle == [at |-> "idle", state |-> "INITIAL", buffer |-> 0]

DeviceInit ==
  /\ source = "INITIAL"
  /\ queue = <<>>
  /\ processed = 0
  /\ available = Buffers
  /\ write = Idle
  /\ failures = 0
  /\ full = FALSE
  /\ deaf = FALSE

(* AvailableFrames, which is all or nothing.                               *)
HasRoom == IF source = "INITIAL" THEN Len(queue) < BuffersMax ELSE processed > 0

(* Player::tick. *)
AudioTick ==
  /\ write.at = "idle"
  /\ write' = IF HasRoom THEN [write EXCEPT !.at = "state"] ELSE write
  /\ UNCHANGED <<source, queue, processed, available, failures, full, deaf>>

WriteState ==
  /\ write.at = "state"
  /\ write' = [write EXCEPT !.at = "unqueue", !.state = source]
  /\ UNCHANGED <<source, queue, processed, available, failures, full, deaf>>

Unqueues == write.state # "INITIAL" /\ processed > 0

(* Mistake: only the buffer that will be used is marked. *)
WriteUnqueue_One ==
  /\ write.at = "unqueue"
  /\ Unqueues
  /\ available' = available \cup {queue[processed]}
  /\ write' = [write EXCEPT !.at = "queue", !.buffer = queue[processed]]
  /\ queue' = SubSeq(queue, processed + 1, Len(queue))
  /\ processed' = 0
  /\ UNCHANGED <<source, failures, full, deaf>>

(* All buffers played come off the queue; the last one is filled again.    *)
WriteUnqueue ==
  /\ write.at = "unqueue"
  /\ Unqueues
  /\ available' = available \cup {queue[k] : k \in 1..processed}
  /\ write' = [write EXCEPT !.at = "queue", !.buffer = queue[processed]]
  /\ queue' = SubSeq(queue, processed + 1, Len(queue))
  /\ processed' = 0
  /\ UNCHANGED <<source, failures, full, deaf>>

(* There is none: one that is not on the queue, or the Write fails.        *)
WritePick ==
  /\ write.at = "unqueue"
  /\ ~Unqueues
  /\ write' = IF available = {} THEN Idle
              ELSE [write EXCEPT !.at = "queue", !.buffer = Min(available)]
  /\ full' = (full \/ available = {})
  /\ UNCHANGED <<source, queue, processed, available, failures, deaf>>

(* alBufferData or alSourceQueueBuffers fails, and the player lets it.     *)
WriteFails ==
  /\ write.at = "queue"
  /\ failures < MaxFailures
  /\ failures' = failures + 1
  /\ write' = Idle
  /\ deaf' = (deaf \/ (source = "STOPPED" /\ queue = <<>>))
  /\ UNCHANGED <<source, queue, processed, available, full>>

Toggled(b) == IF b \in available THEN available \ {b} ELSE available \cup {b}

(* Mistake: a source that has stopped is left so. *)
WriteQueue_NoRewind ==
  /\ write.at = "queue"
  /\ queue' = Append(queue, write.buffer)
  /\ available' = Toggled(write.buffer)
  /\ source' = IF write.state = "INITIAL" /\ Len(queue') >= BuffersMax
               THEN "PLAYING" ELSE source
  /\ processed' = IF source' = "STOPPED" THEN Len(queue') ELSE processed
  /\ write' = Idle
  /\ UNCHANGED <<failures, full, deaf>>

(* The buffer is queued.  Once all are, a source that has not started is   *)
(* played; one that has stopped is rewound.  A buffer queued on a stopped  *)
(* source counts as played.                                                *)
WriteQueue ==
  /\ write.at = "queue"
  /\ queue' = Append(queue, write.buffer)
  /\ available' = Toggled(write.buffer)
  /\ source' = IF write.state = "INITIAL" /\ Len(queue') >= BuffersMax
               THEN "PLAYING"
               ELSE IF write.state = "STOPPED" THEN "INITIAL" ELSE source
  /\ processed' = IF source' = "STOPPED" THEN Len(queue')
                  ELSE IF source' = "INITIAL" THEN 0 ELSE processed
  /\ write' = Idle
  /\ UNCHANGED <<failures, full, deaf>>

Writing == WriteState \/ WriteUnqueue \/ WritePick \/ WriteFails \/ WriteQueue

(* The source has played a buffer; after the last one it stops.            *)
SourcePlays ==
  /\ source = "PLAYING"
  /\ processed' = processed + 1
  /\ source' = IF processed' = Len(queue) THEN "STOPPED" ELSE source
  /\ UNCHANGED <<queue, available, write, failures, full, deaf>>

-----------------------------------------------------------------------------
(* When the device has reported room, Write finds a buffer for what the    *)
(* player has mixed, whatever the source plays meanwhile and whatever has  *)
(* failed before: the player does not look at what Write returns, and      *)
(* would lose it.                                                          *)
WriteFindsRoom == ~full
=============================================================================
