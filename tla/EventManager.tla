---------------------------- MODULE EventManager ----------------------------
(***************************************************************************)
(* Event::EventManager (event/eventmanager.cpp): listeners by event type,  *)
(* two event queues that change roles, a dispatch loop that calls the      *)
(* listeners, and execute(), which drains the active queue.                *)
(*                                                                         *)
(* The program is one thread plus the Unix signal handler of               *)
(* entrypoint/unix.cpp, which queues a quit event between any two steps.   *)
(* A listener's handleEvent may call the manager back, so the call stack   *)
(* is part of the state: frames holds one record per dispatch() in         *)
(* progress, the innermost last.                                           *)
(***************************************************************************)
EXTENDS EventOrder, PointerList

CONSTANTS
  Listeners,    (* IEventListener pointers                                 *)
  NullListener, (* the null pointer; in Listeners if somebody connects it  *)
  Types,        (* event types                                             *)
  NullType,     (* Core::Type::Null                                        *)
  TypeOf,       (* IEvent::type() of each event                            *)
  QuitType,     (* the type of Event::QuitEvent                            *)
  None,         (* no event, no listener, or the end() of a listener list  *)
  MaxTime,      (* bound: the last time stamp and instant                   *)
  MaxDepth      (* bound: how many dispatch() calls may be nested          *)

ASSUME ManagerAssumption ==
  /\ NullType \notin Types
  /\ QuitType \in Types
  /\ TypeOf \in [Events -> Types]
  /\ None \notin Listeners \cup Events
  /\ MaxTime \in Nat
  /\ MaxDepth \in Nat \ {0}

VARIABLES
  s_instance,       (* an EventManager exists                              *)
  registry,         (* the types that have a list in listener_map          *)
  listener_map,     (* the listener list of each type                      *)
  event_queue,      (* the two queues                                      *)
  active_queue,     (* index of the queue execute() drains                 *)
  dispatch_type,    (* type being dispatched, or NullType                  *)
  dispatch_invalid, (* the list being dispatched has changed               *)
  frames,           (* the dispatch() calls in progress                    *)
  phase,            (* where execute() is: "idle", "loop" or "dispatch"    *)
  now,              (* Core::Platform::TimeStamp()                         *)
  owner             (* ghost: who must free each event                     *)

lists   == <<s_instance, registry, listener_map>>
queues  == <<event_queue, active_queue>>
control == <<dispatch_type, dispatch_invalid, frames>>
vars    == <<lists, queues, control, phase, now, owner>>

(***************************************************************************)
(* A dispatch() call: the event passed to it (None for an event on its     *)
(* caller's stack), the iterator (next, the listener whose node it points  *)
(* to, or None for end(); stale when that node has been freed), the        *)
(* listener whose handleEvent is running, l_handled, and the listeners     *)
(* called so far (ghost).                                                  *)
(***************************************************************************)
Frame == [event : Events \cup {None}, type : Types,
          next : Listeners \cup {None}, stale : BOOLEAN,
          running : Listeners \cup {None}, handled : BOOLEAN,
          called : SUBSET Listeners]

TypeOK ==
  /\ s_instance \in BOOLEAN
  /\ registry \in SUBSET Types
  /\ listener_map \in [Types -> Seq(Listeners)]
  /\ event_queue \in [0..1 -> Seq(Events)]
  /\ active_queue \in 0..1
  /\ dispatch_type \in Types \cup {NullType}
  /\ dispatch_invalid \in BOOLEAN
  /\ frames \in Seq(Frame)
  /\ phase \in {"idle", "loop", "dispatch"}
  /\ now \in 0..MaxTime
  /\ owner \in [Events -> {"none", "client", "manager", "leaked"}]

-----------------------------------------------------------------------------
(* Mistake: the iterator is advanced twice. *)
After_Twice(s, x) ==
  LET i == Place(s, x)
  IN  IF i + 1 < Len(s) THEN s[i + 2] ELSE None

(* The element after x in the list s: ++ on the iterator of x. *)
After(s, x) ==
  LET i == Place(s, x)
  IN  IF i < Len(s) THEN s[i + 1] ELSE None

First(s) == IF s = <<>> THEN None ELSE Head(s)

(***************************************************************************)
(* The sequences left of q, a list without duplicates, when only the       *)
(* elements in K stay, in their order (there is exactly one).              *)
(***************************************************************************)
Kept(q, K) ==
  {s \in UNION {[1..n -> K] : n \in 0..Len(q)} :
     /\ ToSet(s) = K
     /\ \A i, j \in DOMAIN s : i < j =>
          \E m, n \in DOMAIN q : m < n /\ q[m] = s[i] /\ q[n] = s[j]}

(* Mistake: queue() and dequeue() use the queue being executed. *)
incoming_Active == active_queue

incoming == 1 - active_queue   (* the queue that queue() and dequeue() use *)

top == Last(frames)

(* Code outside the manager has the CPU: the main program between two      *)
(* calls, or the handleEvent of the innermost dispatch.                    *)
ClientRuns ==
  IF frames = <<>> THEN phase = "idle" ELSE top.running # None

Init ==
  /\ s_instance = FALSE
  /\ registry = {}
  /\ listener_map = [t \in Types |-> <<>>]
  /\ event_queue = [q \in 0..1 |-> <<>>]
  /\ active_queue = 0
  /\ dispatch_type = NullType
  /\ dispatch_invalid = TRUE
  /\ frames = <<>>
  /\ phase = "idle"
  /\ now = 0
  /\ owner = [e \in Events |-> "none"]

(***************************************************************************)
(* Construction and destruction.  The destructor frees the listener lists  *)
(* and every event still queued.                                           *)
(***************************************************************************)
Create ==
  /\ ~s_instance
  /\ s_instance' = TRUE
  /\ active_queue' = 0
  /\ dispatch_type' = NullType
  /\ dispatch_invalid' = TRUE
  /\ UNCHANGED <<registry, listener_map, event_queue, frames, phase, now, owner>>

Destroy ==
  /\ s_instance
  /\ frames = <<>>
  /\ phase = "idle"
  /\ s_instance' = FALSE
  /\ registry' = {}
  /\ listener_map' = [t \in Types |-> <<>>]
  /\ event_queue' = [q \in 0..1 |-> <<>>]
  /\ owner' = [e \in Events |-> IF owner[e] = "manager" THEN "none" ELSE owner[e]]
  /\ UNCHANGED <<active_queue, control, phase, now>>

(***************************************************************************)
(* connect and disconnect.  std::list::push_back leaves iterators alone;   *)
(* std::list::remove frees the node, and an iterator to it goes stale.     *)
(***************************************************************************)
Invalidate(t) == dispatch_invalid' = (dispatch_invalid \/ dispatch_type = t)

Staled(t, l) ==
  [i \in DOMAIN frames |->
     [frames[i] EXCEPT !.stale = @ \/ (frames[i].type = t /\ frames[i].next = l)]]

Connect(l, t) ==
  /\ s_instance
  /\ ClientRuns
  /\ registry' = registry \cup {t}
  /\ IF l \in ToSet(listener_map[t])
     THEN UNCHANGED <<listener_map, dispatch_invalid>>
     ELSE /\ listener_map' = [listener_map EXCEPT ![t] = Append(@, l)]
          /\ Invalidate(t)
  /\ UNCHANGED <<s_instance, queues, dispatch_type, frames, phase, now, owner>>

(* Mistake: disconnect forgets to invalidate the dispatch. *)
Disconnect_NoInvalidate(l, t) ==
  /\ s_instance
  /\ ClientRuns
  /\ t \in registry
  /\ listener_map' = [listener_map EXCEPT ![t] = Without(@, l)]
  /\ frames' = Staled(t, l)
  /\ UNCHANGED <<s_instance, registry, queues, dispatch_type, dispatch_invalid,
                 phase, now, owner>>

Disconnect(l, t) ==
  /\ s_instance
  /\ ClientRuns
  /\ t \in registry
  /\ listener_map' = [listener_map EXCEPT ![t] = Without(@, l)]
  /\ frames' = Staled(t, l)
  /\ Invalidate(t)
  /\ UNCHANGED <<s_instance, registry, queues, dispatch_type, phase, now, owner>>

(***************************************************************************)
(* queue and dequeue work on the queue that is not being executed.  The    *)
(* manager owns a queued event.  dequeue(e) gives e back to its caller if  *)
(* it is there; dequeue(e, true) takes out every event of e's type, and    *)
(* nothing points to the ones other than e any more.                       *)
(***************************************************************************)
Enqueued(e) ==
  /\ event_queue' = [event_queue EXCEPT ![incoming] = Append(@, e)]
  /\ owner' = [owner EXCEPT ![e] = "manager"]

Queue(e) ==
  /\ s_instance
  /\ ClientRuns
  /\ owner[e] \in {"none", "client"}
  /\ Enqueued(e)
  /\ UNCHANGED <<lists, active_queue, control, phase, now>>

(* SignalHandler: at any time, a new QuitEvent if there is a manager. *)
SignalQueue(e) ==
  /\ s_instance
  /\ TypeOf[e] = QuitType
  /\ owner[e] = "none"
  /\ Enqueued(e)
  /\ UNCHANGED <<lists, active_queue, control, phase, now>>

Dequeue(e) ==
  /\ s_instance
  /\ ClientRuns
  /\ e \in ToSet(event_queue[incoming])
  /\ event_queue' = [event_queue EXCEPT ![incoming] = Without(@, e)]
  /\ owner' = [owner EXCEPT ![e] = "client"]
  /\ UNCHANGED <<lists, active_queue, control, phase, now>>

DequeueAll(e) ==
  /\ s_instance
  /\ ClientRuns
  /\ owner[e] \in {"client", "manager"}
  /\ LET q == event_queue[incoming]
         taken == {x \in ToSet(q) : TypeOf[x] = TypeOf[e]}
     IN  /\ \E s \in Kept(q, ToSet(q) \ taken) :
              event_queue' = [event_queue EXCEPT ![incoming] = s]
         /\ owner' = [x \in Events |->
                        IF x \in taken
                        THEN IF x = e THEN "client" ELSE "leaked"
                        ELSE owner[x]]
  /\ UNCHANGED <<lists, active_queue, control, phase, now>>

(* The caller frees an event it got back. *)
Release(e) ==
  /\ ClientRuns
  /\ owner[e] = "client"
  /\ owner' = [owner EXCEPT ![e] = "none"]
  /\ UNCHANGED <<lists, queues, control, phase, now>>

(***************************************************************************)
(* dispatch.  An event of an unknown type returns at once.                 *)
(***************************************************************************)
BeginDispatch(t, e) ==
  IF t \in registry
  THEN /\ dispatch_invalid' = FALSE
       /\ dispatch_type' = t
       /\ frames' = Append(frames,
            [event |-> e, type |-> t, next |-> First(listener_map[t]),
             stale |-> FALSE, running |-> None, handled |-> FALSE,
             called |-> {}])
  ELSE UNCHANGED control

(* The main program, or a handler, dispatches an event of its own. *)
Dispatch(t) ==
  /\ s_instance
  /\ ClientRuns
  /\ Len(frames) < MaxDepth
  /\ BeginDispatch(t, None)
  /\ UNCHANGED <<lists, queues, phase, now, owner>>

(* The condition of dispatch()'s for loop, and where it is tested.  What   *)
(* the loop does with a stale iterator is undefined: it goes no further.   *)
Looping ==
  /\ frames # <<>>
  /\ top.running = None
  /\ ~top.handled
  /\ ~dispatch_invalid
  /\ top.next # None

\* l_handled = (*l_listenersi++)->handleEvent(event), up to the call.
CallListener ==
  /\ Looping
  /\ ~top.stale
  /\ top.next # NullListener
  /\ frames' = [frames EXCEPT ![Len(frames)] =
       [top EXCEPT !.running = top.next,
                   !.next = After(listener_map[top.type], top.next),
                   !.called = @ \cup {top.next}]]
  /\ UNCHANGED <<lists, queues, dispatch_type, dispatch_invalid, phase, now, owner>>

(* l_listeners->erase(l_listenersi++): a null pointer leaves the list. *)
EraseNull ==
  /\ Looping
  /\ ~top.stale
  /\ top.next = NullListener
  /\ listener_map' = [listener_map EXCEPT ![top.type] = Without(@, NullListener)]
  /\ frames' = [i \in DOMAIN frames |->
       IF i = Len(frames)
       THEN [top EXCEPT !.next = After(listener_map[top.type], NullListener)]
       ELSE Staled(top.type, NullListener)[i]]
  /\ UNCHANGED <<s_instance, registry, queues, dispatch_type, dispatch_invalid,
                 phase, now, owner>>

(* handleEvent returns. *)
HandlerReturn(handled) ==
  /\ frames # <<>>
  /\ top.running # None
  /\ frames' = [frames EXCEPT ![Len(frames)] =
                  [top EXCEPT !.running = None, !.handled = handled]]
  /\ UNCHANGED <<lists, queues, dispatch_type, dispatch_invalid, phase, now, owner>>

EndDispatch ==
  /\ frames # <<>>
  /\ top.running = None
  /\ ~Looping
  /\ dispatch_type' = NullType
  /\ frames' = Front(frames)
  /\ UNCHANGED <<lists, queues, dispatch_invalid, phase, now, owner>>

(***************************************************************************)
(* execute: sort the active queue, then dispatch and free its events until *)
(* the queue is empty, when the queues change roles, or its first event is *)
(* in the future.  Assumed of the game: no listener calls execute().  The  *)
(* code does not stop one, which would have the event it is called with    *)
(* dispatched again and freed twice.                                       *)
(***************************************************************************)
ExecuteBegin ==
  /\ s_instance
  /\ frames = <<>>
  /\ phase = "idle"
  /\ phase' = "loop"
  /\ \E s \in SortsOf(event_queue[active_queue]) :
       event_queue' = [event_queue EXCEPT ![active_queue] = s]
  /\ UNCHANGED <<lists, active_queue, control, now, owner>>

(* Mistake: the time stamp is not looked at. *)
ExecuteDispatch_AnyTime ==
  /\ phase = "loop"
  /\ event_queue[active_queue] # <<>>
  /\ LET e == Head(event_queue[active_queue]) IN BeginDispatch(TypeOf[e], e)
  /\ phase' = "dispatch"
  /\ UNCHANGED <<lists, queues, now, owner>>

ExecuteDispatch ==
  /\ phase = "loop"
  /\ event_queue[active_queue] # <<>>
  /\ LET e == Head(event_queue[active_queue])
     IN  /\ TimeStamp[e] <= now
         /\ BeginDispatch(TypeOf[e], e)
  /\ phase' = "dispatch"
  /\ UNCHANGED <<lists, queues, now, owner>>

(* Mistake: the event is freed and stays at the front. *)
ExecutePop_NoPop ==
  /\ phase = "dispatch"
  /\ frames = <<>>
  /\ owner' = [owner EXCEPT ![Head(event_queue[active_queue])] = "none"]
  /\ phase' = "loop"
  /\ UNCHANGED <<lists, queues, control, now>>

(* l_queue.pop_front(); delete l_event; *)
ExecutePop ==
  /\ phase = "dispatch"
  /\ frames = <<>>
  /\ owner' = [owner EXCEPT ![Head(event_queue[active_queue])] = "none"]
  /\ event_queue' = [event_queue EXCEPT ![active_queue] = Tail(@)]
  /\ phase' = "loop"
  /\ UNCHANGED <<lists, active_queue, control, now>>

(* Mistake: the queues never change roles. *)
ExecuteEnd_NoExchange ==
  /\ phase = "loop"
  /\ event_queue[active_queue] # <<>> =>
       TimeStamp[Head(event_queue[active_queue])] > now
  /\ phase' = "idle"
  /\ UNCHANGED <<lists, queues, control, now, owner>>

ExecuteEnd ==
  /\ phase = "loop"
  /\ \/ /\ event_queue[active_queue] = <<>>
        /\ active_queue' = incoming
     \/ /\ event_queue[active_queue] # <<>>
        /\ TimeStamp[Head(event_queue[active_queue])] > now
        /\ UNCHANGED active_queue
  /\ phase' = "idle"
  /\ UNCHANGED <<lists, event_queue, control, now, owner>>

Tick ==
  /\ now < MaxTime
  /\ now' = now + 1
  /\ UNCHANGED <<lists, queues, control, phase, owner>>

Client ==
  \/ Create
  \/ Destroy
  \/ \E l \in Listeners, t \in Types : Connect(l, t) \/ Disconnect(l, t)
  \/ \E e \in Events : Queue(e) \/ Dequeue(e) \/ DequeueAll(e) \/ Release(e)
  \/ \E t \in Types : Dispatch(t)

Manager ==
  \/ CallListener
  \/ EraseNull
  \/ \E handled \in BOOLEAN : HandlerReturn(handled)
  \/ EndDispatch
  \/ ExecuteBegin
  \/ ExecuteDispatch
  \/ ExecutePop
  \/ ExecuteEnd

Next ==
  \/ Client
  \/ Manager
  \/ \E e \in Events : SignalQueue(e)
  \/ Tick

Spec == Init /\ [][Next]_vars

(***************************************************************************)
(* The main loop calls execute() again and again (Engine::run), dispatch   *)
(* and execute run on, listeners return, and time passes.                  *)
(***************************************************************************)
Fairness ==
  /\ SF_vars(ExecuteBegin)
  /\ WF_vars(CallListener \/ EraseNull \/ EndDispatch)
  /\ WF_vars(ExecuteDispatch \/ ExecutePop \/ ExecuteEnd)
  /\ WF_vars(\E handled \in BOOLEAN : HandlerReturn(handled))
  /\ WF_vars(Tick)

FairSpec == Spec /\ Fairness

-----------------------------------------------------------------------------
(***************************************************************************)
(* Properties                                                              *)
(***************************************************************************)

(* Every event the manager must free is in exactly one of its queues, at   *)
(* one place, and the queues hold no event it does not own: none is freed  *)
(* twice, used after it was freed, or lost (queue, dequeue, execute).      *)
OwnedOnce ==
  /\ \A q \in 0..1 : IsInjective(event_queue[q])
  /\ ToSet(event_queue[0]) \cap ToSet(event_queue[1]) = {}
  /\ \A e \in Events : owner[e] = "manager" <=>
       e \in ToSet(event_queue[0]) \cup ToSet(event_queue[1])

(* While execute() dispatches an event, whatever the listeners and the     *)
(* signal handler do with the queues, the event stays at the front of the  *)
(* active queue: pop_front() and delete then hit the same event, and it is *)
(* the one the listeners saw.                                              *)
FreesWhatItDispatched ==
  phase = "dispatch" =>
    /\ event_queue[active_queue] # <<>>
    /\ frames # <<>> => frames[1].event = Head(event_queue[active_queue])
    /\ owner[Head(event_queue[active_queue])] = "manager"

(* dispatch() never follows its iterator into a freed list node: a         *)
(* listener that disconnects somebody during the dispatch invalidates it.  *)
IteratorValid == Looping => ~top.stale

(* No listener gets the same event twice in one dispatch, even when it is  *)
(* disconnected and connected again (at the end of the list) meanwhile.    *)
CalledAtMostOnce == Looping => top.next \notin top.called

(* A dispatch that ends with the event unhandled and the listeners         *)
(* unchanged has offered the event to every listener connected to its type.*)
EveryListenerHeard ==
  (/\ frames # <<>> /\ top.running = None
   /\ ~top.handled /\ ~dispatch_invalid /\ top.next = None)
    => ToSet(listener_map[top.type]) \ {NullListener} \subseteq top.called

(* No dispatch calls a listener twice, whatever listeners do to the lists. *)
(* One that comes to the end of the list with the event unhandled and the  *)
(* listeners of its type unchanged has called all that are connected.  A   *)
(* listener that connects or disconnects one of that type, or handles the  *)
(* event, ends the dispatch: those behind it do not get the event, and     *)
(* nothing is promised of them.                                            *)
EveryListenerOnce == CalledAtMostOnce /\ EveryListenerHeard

(* The event manager keeps the promises of EventBatches: the queue that    *)
(* queue() fills is the accepting one, the active queue is the batch.      *)
Batches == INSTANCE EventBatches WITH
  accepting  <- ToSet(event_queue[incoming]),
  batch      <- ToSet(event_queue[active_queue]),
  delivering <- IF phase = "dispatch" THEN Head(event_queue[active_queue])
                                      ELSE None,
  clock      <- now

KeepsBatches == Batches!Spec

(* A queued event does not stay queued for ever: its time comes, and it is *)
(* dispatched and freed (or dequeued), although an event in the future     *)
(* holds back all the events behind it and all those queued after it.      *)
EventuallyLeaves ==
  \A e \in Events : owner[e] = "manager" ~> owner[e] # "manager"

-----------------------------------------------------------------------------
(***************************************************************************)
(* The inductive invariant, in three parts: the queues, the listener lists *)
(* with the iterators into them, and where the program is.                 *)
(***************************************************************************)
QueuesOK ==
  /\ event_queue \in [0..1 -> Seq(Events)]
  /\ active_queue \in 0..1
  /\ owner \in [Events -> {"none", "client", "manager", "leaked"}]
  /\ OwnedOnce

(* An iterator that is not stale points into the list of its type. *)
IteratorIn(f, map) ==
  f.next # None /\ ~f.stale => f.next \in ToSet(map[f.type])

ListsOK ==
  /\ registry \in SUBSET Types
  /\ listener_map \in [Types -> Seq(Listeners)]
  /\ dispatch_type \in Types \cup {NullType}
  /\ dispatch_invalid \in BOOLEAN
  /\ frames \in Seq(Frame)
  /\ \A t \in Types : IsInjective(listener_map[t])
  /\ \A i \in DOMAIN frames : IteratorIn(frames[i], listener_map)

PlaceOK ==
  /\ s_instance \in BOOLEAN
  /\ phase \in {"idle", "loop", "dispatch"}
  /\ now \in 0..MaxTime
  /\ phase = "loop" => frames = <<>>
  /\ phase = "dispatch" =>
       /\ event_queue[active_queue] # <<>>
       /\ frames # <<>> => frames[1].event = Head(event_queue[active_queue])
  /\ ~s_instance =>
       /\ event_queue[0] = <<>> /\ event_queue[1] = <<>>
       /\ frames = <<>> /\ phase = "idle"

IInv == QueuesOK /\ ListsOK /\ PlaceOK

(***************************************************************************)
(* With at most one dispatch() in progress, more holds of its iterator:    *)
(* the listeners in front of it have been called, those from it on have    *)
(* not, and the list it runs over is the one connect and disconnect watch. *)
(***************************************************************************)
HalfWay(f, s) ==
  /\ NullListener \notin f.called
  /\ IF f.next = None
     THEN ToSet(s) \ {NullListener} \subseteq f.called
     ELSE \E k \in DOMAIN s :
            /\ s[k] = f.next
            /\ \A i \in DOMAIN s :
                 IF i < k THEN s[i] = NullListener \/ s[i] \in f.called
                          ELSE s[i] \notin f.called

SingleDispatch ==
  /\ Len(frames) <= 1
  /\ frames # <<>> =>
       /\ frames[1].type = dispatch_type
       /\ ~dispatch_invalid => /\ ~frames[1].stale
                               /\ HalfWay(frames[1], listener_map[frames[1].type])
=============================================================================
