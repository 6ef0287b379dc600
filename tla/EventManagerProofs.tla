------------------------- MODULE EventManagerProofs -------------------------
(***************************************************************************)
(* Theorems about EventManager, for any set of listeners, types and events *)
(* and any bounds, and about the sort of its queues (EventSort), for any   *)
(* events.                                                                 *)
(***************************************************************************)
EXTENDS EventManager, EventSort, PointerListProofs, FiniteSetTheorems

-----------------------------------------------------------------------------
(* A sort permutes the list. *)
LEMMA SortFacts ==
  ASSUME NEW S, NEW q \in Seq(S), NEW s \in SortsOf(q)
  PROVE  /\ s \in Seq(S)
         /\ Len(s) = Len(q)
         /\ ToSet(s) = ToSet(q)
         /\ IsInjective(q) => IsInjective(s)
<1>1. /\ s \in [1..Len(q) -> ToSet(q)]
      /\ DOMAIN q = 1..Len(q) /\ Len(q) \in Nat
      /\ ToSet(q) \subseteq S
  BY DEF SortsOf, ToSet
<1>2. PICK p \in Bijection(1..Len(q), 1..Len(q)) : s = [i \in 1..Len(q) |-> q[p[i]]]
  BY DEF SortsOf, IsSortOf
<1>3. /\ p \in [1..Len(q) -> 1..Len(q)]
      /\ \A i, j \in 1..Len(q) : p[i] = p[j] => i = j
      /\ \A j \in 1..Len(q) : \E i \in 1..Len(q) : p[i] = j
  BY DEF Bijection, Injection, Surjection, IsInjective
<1>4. s \in Seq(S) /\ Len(s) = Len(q)
  BY <1>1
<1>5. \A i \in 1..Len(q) : s[i] = q[p[i]] /\ p[i] \in 1..Len(q)
  BY <1>2, <1>3
<1>6. ToSet(s) = ToSet(q)
  <2>1. ASSUME NEW y \in ToSet(q) PROVE y \in ToSet(s)
    <3>1. PICK j \in 1..Len(q) : y = q[j]
      BY <1>1 DEF ToSet
    <3>2. PICK i \in 1..Len(q) : p[i] = j
      BY <1>3
    <3>3. QED
      BY <1>1, <1>5, <3>1, <3>2 DEF ToSet
  <2>2. ToSet(s) \subseteq ToSet(q)
    BY <1>1 DEF ToSet
  <2>3. QED
    BY <2>1, <2>2
<1>7. ASSUME IsInjective(q) PROVE IsInjective(s)
  <2>1. SUFFICES ASSUME NEW i \in 1..Len(q), NEW j \in 1..Len(q), s[i] = s[j]
                 PROVE  i = j
    BY <1>1 DEF IsInjective
  <2>2. p[i] = p[j]
    BY <1>1, <1>5, <1>7, <2>1 DEF IsInjective
  <2>3. QED
    BY <1>3, <2>2
<1>8. QED
  BY <1>4, <1>6, <1>7

(* What is left of a list without duplicates has none either. *)
LEMMA KeptFacts ==
  ASSUME NEW S, NEW q \in Seq(S), NEW K \in SUBSET S, NEW s \in Kept(q, K)
  PROVE  /\ s \in Seq(S)
         /\ ToSet(s) = K
         /\ IsInjective(q) => IsInjective(s)
<1>1. PICK n \in 0..Len(q) : s \in [1..n -> K]
  BY DEF Kept
<1>2. s \in Seq(S) /\ DOMAIN s = 1..n /\ ToSet(s) = K
  BY <1>1 DEF Kept
<1>3. \A i, j \in DOMAIN s : i < j =>
        \E a, b \in DOMAIN q : a < b /\ q[a] = s[i] /\ q[b] = s[j]
  BY Zenon DEF Kept
<1>4. DOMAIN q = 1..Len(q)
  OBVIOUS
<1>5. ASSUME IsInjective(q), NEW i \in 1..n, NEW j \in 1..n, i < j
      PROVE  s[i] # s[j]
  BY <1>2, <1>3, <1>4, <1>5 DEF IsInjective
<1>6. ASSUME IsInjective(q) PROVE IsInjective(s)
  BY <1>2, <1>5, <1>6 DEF IsInjective
<1>7. QED
  BY <1>2, <1>6

(* The iterator moves to the element behind x, or to the end. *)
LEMMA AfterFacts ==
  ASSUME NEW S, NEW s \in Seq(S), NEW x \in ToSet(s)
  PROVE  \E i \in 1..Len(s) :
           /\ s[i] = x
           /\ \/ i < Len(s) /\ After(s, x) = s[i + 1]
              \/ i = Len(s) /\ After(s, x) = None
<1> DEFINE k == Place(s, x)
<1>1. k \in 1..Len(s) /\ s[k] = x
  BY DEF ToSet, Place
<1>2. After(s, x) = IF k < Len(s) THEN s[k + 1] ELSE None
  BY DEF After
<1> HIDE DEF k
<1>3. QED
  BY <1>1, <1>2

(* As long as no two events of a queue conflict, sorting it gives an order *)
(* in which no event is behind one of lower priority or of a later time,    *)
(* however far apart: what execute() then dispatches it in.                *)
THEOREM SortedUnlessConflict ==
  ASSUME NEW q \in Seq(Events), NEW s \in SortsOf(q),
         \A e, f \in ToSet(q) : ~Conflict(e, f)
  PROVE  \A i, j \in 1..Len(q) : i < j =>
           Priority[s[i]] >= Priority[s[j]] /\ TimeStamp[s[i]] <= TimeStamp[s[j]]
<1> DEFINE Ordered(a, b) == Priority[a] >= Priority[b] /\ TimeStamp[a] <= TimeStamp[b]
<1>1. /\ Len(q) \in Nat /\ \A i \in 1..Len(q) : s[i] \in ToSet(q)
      /\ \A i \in 1..Len(q) - 1 : MayFollow(s[i], s[i + 1])
  BY DEF SortsOf, IsSortOf
<1>2. \A e \in ToSet(q) : Priority[e] \in Int /\ TimeStamp[e] \in Int
  <2>1. ToSet(q) \subseteq Events
    BY DEF ToSet
  <2>2. \A e \in Events : Priority[e] \in Int
    <3>1. Priority \in [Events -> Nat]
      <4>1. 0..255 \subseteq Nat
        OBVIOUS
      <4>2. QED
        BY <4>1, OrderAssumption
    <3>2. QED
      BY <3>1
  <2>3. \A e \in Events : TimeStamp[e] \in Int
    BY OrderAssumption
  <2>4. QED
    BY <2>1, <2>2, <2>3
<1>3. \A i \in 1..Len(q) - 1 : Ordered(s[i], s[i + 1])
  <2>1. SUFFICES ASSUME NEW a \in ToSet(q), NEW b \in ToSet(q), MayFollow(a, b)
                 PROVE  Ordered(a, b)
    BY <1>1
  <2>2. ~SortEvent(b, a)
    BY <2>1 DEF MayFollow, Conflict
  <2>3. QED
    BY <1>2, <2>2 DEF SortEvent
<1>4. SUFFICES ASSUME NEW i \in 1..Len(q) PROVE \A j \in 1..Len(q) : i < j => Ordered(s[i], s[j])
  OBVIOUS
<1> DEFINE m == Len(q) - i
           G == {n \in 0..m : Ordered(s[i], s[i + n])}
<1>5. m \in Nat
  BY <1>1
<1>6. 0 \in G
  BY <1>1, <1>2, <1>5
<1>7. ASSUME NEW n \in 1..m, n - 1 \in G PROVE n \in G
  <2> DEFINE k == i + (n - 1)
  <2>1. k \in 1..Len(q) - 1 /\ k + 1 = i + n /\ k + 1 \in 1..Len(q)
    BY <1>1, <1>5
  <2>2. Ordered(s[i], s[k])
    BY <1>7
  <2>3. Ordered(s[k], s[k + 1])
    BY <1>3, <2>1
  <2> HIDE DEF k
  <2>4. \A e \in {s[i], s[k], s[k + 1]} : Priority[e] \in Int /\ TimeStamp[e] \in Int
    BY <1>1, <1>2, <2>1
  <2>5. Ordered(s[i], s[k + 1])
    BY <2>2, <2>3, <2>4
  <2>6. QED
    BY <1>5, <2>1, <2>5
<1>8. G = 0..m
  <2>1. G \in SUBSET (0..m)
    OBVIOUS
  <2> HIDE DEF G, m
  <2>2. QED
    BY <1>5, <1>6, <1>7, <2>1, UpTo
<1>9. QED
  <2>1. SUFFICES ASSUME NEW j \in 1..Len(q), i < j PROVE Ordered(s[i], s[j])
    OBVIOUS
  <2>2. j - i \in 0..m /\ i + (j - i) = j
    BY <1>1, <2>1
  <2>3. j - i \in G
    BY <1>8, <2>2
  <2>4. QED
    BY <2>2, <2>3

-----------------------------------------------------------------------------
(* The inductive invariant, initially. *)
LEMMA InvInit == Init => IInv
<1> SUFFICES ASSUME Init PROVE IInv
  OBVIOUS
<1> USE DEF Init
<1>1. listener_map \in [Types -> Seq(Listeners)] /\ event_queue \in [0..1 -> Seq(Events)]
  OBVIOUS
<1>2. frames \in Seq(Frame)
  OBVIOUS
<1>3. owner \in [Events -> {"none", "client", "manager", "leaked"}]
  OBVIOUS
<1>4. OwnedOnce
  BY DEF OwnedOnce, IsInjective, ToSet
<1>5. QueuesOK
  BY <1>1, <1>3, <1>4 DEF QueuesOK
<1>6. ListsOK
  <2>1. \A t \in Types : IsInjective(listener_map[t])
    BY DEF IsInjective
  <2>2. \A i \in DOMAIN frames : IteratorIn(frames[i], listener_map)
    OBVIOUS
  <2>3. QED
    BY <1>1, <1>2, <2>1, <2>2 DEF ListsOK
<1>7. PlaceOK
  <2>1. now \in 0..MaxTime
    BY ManagerAssumption
  <2>2. event_queue[0] = <<>> /\ event_queue[1] = <<>>
    OBVIOUS
  <2>3. QED
    BY <2>1, <2>2 DEF PlaceOK
<1>8. QED
  BY <1>5, <1>6, <1>7 DEF IInv

(* The steps of the queues.  An event comes in at the end of the queue     *)
(* that is not executed.                                                   *)
LEMMA EnqueuedStep ==
  ASSUME IInv, NEW e \in Events, owner[e] # "manager", Enqueued(e),
         UNCHANGED active_queue
  PROVE  /\ QueuesOK'
         /\ event_queue'[active_queue] = event_queue[active_queue]
<1> USE DEF IInv, QueuesOK, OwnedOnce, Enqueued
<1>1. incoming \in 0..1 /\ incoming # active_queue /\ 0..1 = {incoming, active_queue}
  BY DEF incoming
<1>2. e \notin ToSet(event_queue[0]) /\ e \notin ToSet(event_queue[1])
  OBVIOUS
<1>3. /\ event_queue'[incoming] = Append(event_queue[incoming], e)
      /\ event_queue'[active_queue] = event_queue[active_queue]
  BY <1>1
<1> USE <1>1
<1>4. /\ event_queue'[incoming] \in Seq(Events)
      /\ ToSet(event_queue'[incoming]) = ToSet(event_queue[incoming]) \cup {e}
      /\ IsInjective(event_queue'[incoming])
  <2>1. /\ event_queue[incoming] \in Seq(Events)
        /\ e \notin ToSet(event_queue[incoming])
        /\ IsInjective(event_queue[incoming])
    BY <1>2
  <2>2. QED
    BY <1>3, <2>1, AppendFacts
<1>5. event_queue' \in [0..1 -> Seq(Events)]
  BY <1>1, <1>4
<1>6. owner' = [owner EXCEPT ![e] = "manager"]
  OBVIOUS
<1>7. OwnedOnce'
  BY <1>1, <1>2, <1>3, <1>4, <1>6
<1>8. QED
  BY <1>3, <1>5, <1>6, <1>7

(* An event leaves a queue, wherever it is in it, and changes hands. *)
LEMMA RemovedStep ==
  ASSUME IInv, NEW k \in 0..1, NEW gone \in SUBSET ToSet(event_queue[k]),
         NEW s \in Seq(Events), IsInjective(s),
         ToSet(s) = ToSet(event_queue[k]) \ gone,
         event_queue' = [event_queue EXCEPT ![k] = s],
         owner' \in [Events -> {"none", "client", "manager", "leaked"}],
         \A e \in Events : owner'[e] = "manager" <=>
                            owner[e] = "manager" /\ e \notin gone,
         active_queue' \in 0..1
  PROVE  QueuesOK'
<1> USE DEF IInv, QueuesOK, OwnedOnce
<1>1. PICK m \in 0..1 : m # k /\ 0..1 = {k, m}
  OBVIOUS
<1>2. event_queue'[k] = s /\ event_queue'[m] = event_queue[m]
  BY <1>1
<1>3. event_queue' \in [0..1 -> Seq(Events)]
  BY <1>1, <1>2
<1>4. ToSet(event_queue[k]) \cap ToSet(event_queue[m]) = {}
  BY <1>1
<1>5. /\ ToSet(event_queue'[0]) \cap ToSet(event_queue'[1]) = {}
      /\ \A q \in 0..1 : IsInjective(event_queue'[q])
  BY <1>1, <1>2
<1>6. ASSUME NEW e \in Events
      PROVE  owner'[e] = "manager" <=>
               e \in ToSet(event_queue'[0]) \cup ToSet(event_queue'[1])
  <2>1. owner[e] = "manager" <=> e \in ToSet(event_queue[k]) \cup ToSet(event_queue[m])
    BY <1>1
  <2>2. ToSet(event_queue'[0]) \cup ToSet(event_queue'[1])
          = (ToSet(event_queue[k]) \ gone) \cup ToSet(event_queue[m])
    BY <1>1, <1>2
  <2>3. QED
    BY <1>4, <2>1, <2>2
<1>7. QED
  BY <1>3, <1>5, <1>6

(* Every step keeps the queues in order. *)
LEMMA QueuesStep == IInv /\ Next => QueuesOK'
<1> SUFFICES ASSUME IInv, Next PROVE QueuesOK'
  OBVIOUS
<1> USE DEF lists, queues, control
<1>1. ASSUME UNCHANGED <<queues, owner>> PROVE QueuesOK'
  BY <1>1 DEF IInv, QueuesOK, OwnedOnce
<1>2. incoming \in 0..1 /\ active_queue \in 0..1
  BY DEF incoming, IInv, QueuesOK
<1>3. \A k \in 0..1 : event_queue[k] \in Seq(Events) /\ IsInjective(event_queue[k])
  BY DEF IInv, QueuesOK, OwnedOnce
<1>4. CASE Create
  BY <1>4 DEF Create, IInv, QueuesOK, OwnedOnce
<1>5. CASE Destroy
  <2>1. event_queue'[0] = <<>> /\ event_queue'[1] = <<>>
    BY <1>5 DEF Destroy
  <2>2. \A e \in Events : owner'[e] # "manager"
    BY <1>5 DEF Destroy, IInv, QueuesOK
  <2>3. OwnedOnce'
    BY <2>1, <2>2 DEF OwnedOnce, IsInjective, ToSet
  <2>4. event_queue' \in [0..1 -> Seq(Events)]
    BY <1>5 DEF Destroy
  <2>5. QED
    BY <1>2, <1>5, <2>3, <2>4 DEF Destroy, IInv, QueuesOK
<1>6. ASSUME NEW l \in Listeners, NEW t \in Types, Connect(l, t) \/ Disconnect(l, t)
      PROVE  QueuesOK'
  BY <1>1, <1>6 DEF Connect, Disconnect
<1>7. ASSUME NEW e \in Events, Queue(e) \/ SignalQueue(e) PROVE QueuesOK'
  BY <1>7, EnqueuedStep DEF Queue, SignalQueue
<1>8. ASSUME NEW e \in Events, Dequeue(e) PROVE QueuesOK'
  <2> DEFINE q == event_queue[incoming]
             s == Without(q, e)
  <2>1. /\ s \in Seq(Events) /\ IsInjective(s) /\ ToSet(s) = ToSet(q) \ {e}
        /\ {e} \in SUBSET ToSet(q)
    BY <1>2, <1>3, <1>8, WithoutFacts DEF Dequeue
  <2>2. /\ event_queue' = [event_queue EXCEPT ![incoming] = s]
        /\ owner' = [owner EXCEPT ![e] = "client"]
        /\ active_queue' = active_queue
    BY <1>8 DEF Dequeue
  <2>3. /\ owner' \in [Events -> {"none", "client", "manager", "leaked"}]
        /\ \A x \in Events : owner'[x] = "manager" <=>
                              owner[x] = "manager" /\ x \notin {e}
    BY <2>2 DEF IInv, QueuesOK
  <2> HIDE DEF s
  <2>4. QED
    BY <1>2, <2>1, <2>2, <2>3, RemovedStep
<1>9. ASSUME NEW e \in Events, DequeueAll(e) PROVE QueuesOK'
  <2> DEFINE q == event_queue[incoming]
             taken == {x \in ToSet(q) : TypeOf[x] = TypeOf[e]}
  <2>1. PICK s \in Kept(q, ToSet(q) \ taken) :
          event_queue' = [event_queue EXCEPT ![incoming] = s]
    BY <1>9 DEF DequeueAll
  <2>2. q \in Seq(Events) /\ IsInjective(q) /\ ToSet(q) \ taken \in SUBSET Events
    BY <1>2, <1>3 DEF ToSet
  <2>3. s \in Seq(Events) /\ IsInjective(s) /\ ToSet(s) = ToSet(q) \ taken
    BY <2>2, KeptFacts
  <2>4. /\ owner' = [x \in Events |->
                        IF x \in taken
                        THEN IF x = e THEN "client" ELSE "leaked"
                        ELSE owner[x]]
        /\ active_queue' = active_queue
    BY <1>9 DEF DequeueAll
  <2>5. taken \in SUBSET ToSet(q)
    OBVIOUS
  <2> HIDE DEF taken
  <2>6. /\ owner' \in [Events -> {"none", "client", "manager", "leaked"}]
        /\ \A x \in Events : owner'[x] = "manager" <=>
                              owner[x] = "manager" /\ x \notin taken
    BY <2>4 DEF IInv, QueuesOK
  <2>7. QED
    BY <1>2, <2>1, <2>3, <2>4, <2>5, <2>6, RemovedStep
<1>10. ASSUME NEW e \in Events, Release(e) PROVE QueuesOK'
  <2>1. /\ owner' \in [Events -> {"none", "client", "manager", "leaked"}]
        /\ \A x \in Events : owner'[x] = "manager" <=> owner[x] = "manager"
    BY <1>10 DEF Release, IInv, QueuesOK
  <2>2. QED
    BY <1>10, <2>1 DEF Release, IInv, QueuesOK, OwnedOnce
<1>11. ASSUME NEW t \in Types, Dispatch(t) PROVE QueuesOK'
  BY <1>1, <1>11 DEF Dispatch
<1>12. CASE CallListener \/ EraseNull \/ EndDispatch \/ ExecuteDispatch \/ Tick
  BY <1>1, <1>12 DEF CallListener, EraseNull, EndDispatch, ExecuteDispatch, Tick
<1>13. ASSUME NEW handled \in BOOLEAN, HandlerReturn(handled) PROVE QueuesOK'
  BY <1>1, <1>13 DEF HandlerReturn
<1>14. CASE ExecuteBegin
  <2>1. PICK s \in SortsOf(event_queue[active_queue]) :
          event_queue' = [event_queue EXCEPT ![active_queue] = s]
    BY <1>14 DEF ExecuteBegin
  <2>2. /\ s \in Seq(Events) /\ IsInjective(s)
        /\ ToSet(s) = ToSet(event_queue[active_queue]) \ {}
    BY <1>2, <1>3, SortFacts
  <2>3. owner' = owner /\ active_queue' = active_queue
    BY <1>14 DEF ExecuteBegin
  <2>4. /\ owner' \in [Events -> {"none", "client", "manager", "leaked"}]
        /\ {} \in SUBSET ToSet(event_queue[active_queue])
        /\ \A x \in Events : owner'[x] = "manager" <=>
                              owner[x] = "manager" /\ x \notin {}
    BY <2>3 DEF IInv, QueuesOK
  <2>5. QED
    BY <1>2, <2>1, <2>2, <2>3, <2>4, RemovedStep
<1>15. CASE ExecutePop
  <2> DEFINE q == event_queue[active_queue]
             s == Tail(q)
             e == Head(q)
  <2>1. q # <<>>
    BY <1>15 DEF ExecutePop, IInv, PlaceOK
  <2>2. /\ s \in Seq(Events) /\ IsInjective(s) /\ ToSet(s) = ToSet(q) \ {e}
        /\ {e} \in SUBSET ToSet(q) /\ e \in Events
    BY <1>2, <1>3, <2>1, TailFacts
  <2>3. /\ event_queue' = [event_queue EXCEPT ![active_queue] = s]
        /\ owner' = [owner EXCEPT ![e] = "none"]
        /\ active_queue' = active_queue
    BY <1>15 DEF ExecutePop
  <2> HIDE DEF s, e
  <2>4. /\ owner' \in [Events -> {"none", "client", "manager", "leaked"}]
        /\ \A x \in Events : owner'[x] = "manager" <=>
                              owner[x] = "manager" /\ x \notin {e}
    BY <2>2, <2>3 DEF IInv, QueuesOK
  <2>5. QED
    BY <1>2, <2>2, <2>3, <2>4, RemovedStep
<1>16. CASE ExecuteEnd
  BY <1>2, <1>16 DEF ExecuteEnd, IInv, QueuesOK, OwnedOnce
<1>17. QED
  BY <1>4, <1>5, <1>6, <1>7, <1>8, <1>9, <1>10, <1>11, <1>12, <1>13, <1>14,
     <1>15, <1>16 DEF Next, Client, Manager

(* The innermost frame. *)
LEMMA TopFacts ==
  ASSUME ListsOK, frames # <<>>
  PROVE  /\ Len(frames) \in DOMAIN frames
         /\ DOMAIN frames = 1..Len(frames)
         /\ top = frames[Len(frames)]
         /\ top \in Frame
         /\ IteratorIn(top, listener_map)
<1>1. frames \in Seq(Frame)
  BY DEF ListsOK
<1>2. /\ Len(frames) \in DOMAIN frames
      /\ DOMAIN frames = 1..Len(frames)
      /\ top = frames[Len(frames)]
      /\ top \in Frame
  BY <1>1 DEF top, Last
<1>3. QED
  BY <1>2 DEF ListsOK

(* A frame put on the stack points to the first listener of its type.      *)
LEMMA BeginDispatchFacts ==
  ASSUME ListsOK, NEW t \in Types, NEW e \in Events \cup {None},
         BeginDispatch(t, e), UNCHANGED lists
  PROVE  ListsOK'
<1> USE DEF ListsOK, lists, control
<1>1. CASE t \notin registry
  BY <1>1 DEF BeginDispatch, IteratorIn
<1>2. CASE t \in registry
  <2> DEFINE f == [event |-> e, type |-> t, next |-> First(listener_map[t]),
                   stale |-> FALSE, running |-> None, handled |-> FALSE,
                   called |-> {}]
  <2>1. /\ frames' = Append(frames, f)
        /\ dispatch_invalid' = FALSE
        /\ dispatch_type' = t
    BY <1>2 DEF BeginDispatch
  <2>2. listener_map[t] \in Seq(Listeners)
    OBVIOUS
  <2>3. /\ First(listener_map[t]) \in Listeners \cup {None}
        /\ First(listener_map[t]) # None =>
             First(listener_map[t]) \in ToSet(listener_map[t])
    BY <2>2, TailFacts DEF First
  <2>4. f \in Frame
    BY <2>3 DEF Frame
  <2>5. IteratorIn(f, listener_map)
    BY <2>3 DEF IteratorIn
  <2> HIDE DEF f
  <2>6. frames' \in Seq(Frame)
    BY <2>1, <2>4
  <2>7. ASSUME NEW i \in DOMAIN frames' PROVE IteratorIn(frames'[i], listener_map')
    <3>1. CASE i = Len(frames) + 1
      BY <2>1, <2>5, <3>1 DEF IteratorIn
    <3>2. CASE i # Len(frames) + 1
      <4>1. i \in DOMAIN frames /\ frames'[i] = frames[i]
        BY <2>1, <3>2
      <4>2. QED
        BY <4>1 DEF IteratorIn
    <3>3. QED
      BY <3>1, <3>2
  <2>8. QED
    BY <2>1, <2>6, <2>7
<1>3. QED
  BY <1>1, <1>2

(* A step that rewrites the innermost frame only. *)
LEMMA TopStep ==
  ASSUME ListsOK, frames # <<>>, NEW f \in Frame, IteratorIn(f, listener_map),
         frames' = [frames EXCEPT ![Len(frames)] = f],
         UNCHANGED <<lists, dispatch_type, dispatch_invalid>>
  PROVE  ListsOK'
<1>1. /\ Len(frames) \in DOMAIN frames /\ DOMAIN frames = 1..Len(frames)
  BY TopFacts
<1>2. frames' \in Seq(Frame) /\ DOMAIN frames' = DOMAIN frames
  BY <1>1 DEF ListsOK
<1>3. ASSUME NEW i \in DOMAIN frames' PROVE IteratorIn(frames'[i], listener_map')
  BY <1>1, <1>2 DEF ListsOK, lists
<1>4. QED
  BY <1>2, <1>3 DEF ListsOK, lists

(* remove() takes a node away, and only iterators to it go stale.          *)
LEMMA StaledFacts ==
  ASSUME ListsOK, NEW t \in Types, NEW l \in Listeners,
         listener_map' = [listener_map EXCEPT ![t] = Without(@, l)]
  PROVE  /\ listener_map' \in [Types -> Seq(Listeners)]
         /\ \A u \in Types : IsInjective(listener_map'[u])
         /\ Staled(t, l) \in Seq(Frame)
         /\ DOMAIN Staled(t, l) = DOMAIN frames
         /\ \A i \in DOMAIN frames : IteratorIn(Staled(t, l)[i], listener_map')
<1> USE DEF ListsOK
<1> DEFINE w == Without(listener_map[t], l)
<1>1. /\ w \in Seq(Listeners) /\ IsInjective(w)
      /\ ToSet(w) = ToSet(listener_map[t]) \ {l}
  BY WithoutFacts
<1>2. listener_map' = [listener_map EXCEPT ![t] = w]
  OBVIOUS
<1> HIDE DEF w
<1>3. /\ listener_map' \in [Types -> Seq(Listeners)]
      /\ \A u \in Types : IsInjective(listener_map'[u])
      /\ \A u \in Types : u # t => listener_map'[u] = listener_map[u]
      /\ listener_map'[t] = w
  BY <1>1, <1>2
<1>4. DOMAIN frames = 1..Len(frames) /\ Len(frames) \in Nat
  OBVIOUS
<1>5. ASSUME NEW i \in DOMAIN frames
      PROVE  /\ Staled(t, l)[i] \in Frame
             /\ IteratorIn(Staled(t, l)[i], listener_map')
  <2> DEFINE f == frames[i]
             g == [f EXCEPT !.stale = @ \/ (f.type = t /\ f.next = l)]
  <2>1. Staled(t, l)[i] = g
    BY DEF Staled
  <2>2. f \in Frame /\ IteratorIn(f, listener_map)
    OBVIOUS
  <2> HIDE DEF f
  <2>3. /\ g \in Frame /\ g.next = f.next /\ g.type = f.type
        /\ g.stale = (f.stale \/ (f.type = t /\ f.next = l))
    BY <2>2 DEF Frame
  <2>4. IteratorIn(g, listener_map')
    <3>1. f.type \in Types
      BY <2>2 DEF Frame
    <3>2. QED
      BY <1>1, <1>3, <2>2, <2>3, <3>1 DEF IteratorIn
  <2>5. QED
    BY <2>1, <2>3, <2>4
<1>6. Staled(t, l) \in Seq(Frame) /\ DOMAIN Staled(t, l) = DOMAIN frames
  BY <1>4, <1>5 DEF Staled
<1>7. QED
  BY <1>3, <1>5, <1>6

(* Every step keeps the lists and the iterators in order. *)
LEMMA ListsStep == IInv /\ Next => ListsOK'
<1> SUFFICES ASSUME IInv, Next PROVE ListsOK'
  OBVIOUS
<1> USE DEF lists, queues, control
<1>1. ListsOK
  BY DEF IInv
<1>2. ASSUME UNCHANGED <<lists, control>> PROVE ListsOK'
  BY <1>1, <1>2 DEF ListsOK, IteratorIn
<1>3. CASE Create
  <2>1. /\ UNCHANGED <<registry, listener_map, frames>>
        /\ dispatch_type' = NullType /\ dispatch_invalid' = TRUE
    BY <1>3 DEF Create
  <2>2. QED
    BY <1>1, <2>1 DEF ListsOK, IteratorIn
<1>4. CASE Destroy
  <2>1. /\ registry' = {} /\ listener_map' = [t \in Types |-> <<>>]
        /\ UNCHANGED control /\ frames = <<>>
    BY <1>4 DEF Destroy
  <2>2. \A t \in Types : IsInjective(listener_map'[t])
    BY <2>1 DEF IsInjective
  <2>3. listener_map' \in [Types -> Seq(Listeners)]
    BY <2>1
  <2>4. QED
    BY <1>1, <2>1, <2>2, <2>3 DEF ListsOK
<1>5. ASSUME NEW l \in Listeners, NEW t \in Types, Connect(l, t) PROVE ListsOK'
  <2>1. /\ registry' = registry \cup {t}
        /\ UNCHANGED <<dispatch_type, frames>>
    BY <1>5 DEF Connect
  <2>2. CASE l \in ToSet(listener_map[t])
    <3>1. UNCHANGED <<listener_map, dispatch_invalid>>
      BY <1>5, <2>2 DEF Connect
    <3>2. QED
      BY <1>1, <2>1, <3>1 DEF ListsOK
  <2>3. CASE l \notin ToSet(listener_map[t])
    <3> DEFINE w == Append(listener_map[t], l)
    <3>1. /\ listener_map' = [listener_map EXCEPT ![t] = w]
          /\ dispatch_invalid' = (dispatch_invalid \/ dispatch_type = t)
      BY <1>5, <2>3 DEF Connect, Invalidate
    <3>2. /\ w \in Seq(Listeners) /\ IsInjective(w)
          /\ ToSet(w) = ToSet(listener_map[t]) \cup {l}
      BY <1>1, <2>3, AppendFacts DEF ListsOK
    <3> HIDE DEF w
    <3>3. /\ listener_map' \in [Types -> Seq(Listeners)]
          /\ \A u \in Types : /\ IsInjective(listener_map'[u])
                              /\ ToSet(listener_map[u]) \subseteq ToSet(listener_map'[u])
      BY <1>1, <3>1, <3>2 DEF ListsOK
    <3>4. ASSUME NEW i \in DOMAIN frames
          PROVE  IteratorIn(frames[i], listener_map')
      <4>1. frames[i] \in Frame
        BY <1>1 DEF ListsOK
      <4>2. frames[i].type \in Types
        BY <4>1 DEF Frame
      <4>3. QED
        BY <1>1, <3>3, <4>2 DEF ListsOK, IteratorIn
    <3>5. dispatch_invalid' \in BOOLEAN
      BY <3>1, <1>1 DEF ListsOK
    <3>6. QED
      BY <1>1, <2>1, <3>3, <3>4, <3>5 DEF ListsOK
  <2>4. QED
    BY <2>2, <2>3
<1>6. ASSUME NEW l \in Listeners, NEW t \in Types, Disconnect(l, t) PROVE ListsOK'
  <2>1. /\ listener_map' = [listener_map EXCEPT ![t] = Without(@, l)]
        /\ frames' = Staled(t, l)
        /\ UNCHANGED <<registry, dispatch_type>>
        /\ dispatch_invalid' = (dispatch_invalid \/ dispatch_type = t)
    BY <1>6 DEF Disconnect, Invalidate
  <2>2. dispatch_invalid' \in BOOLEAN
    BY <1>1, <2>1 DEF ListsOK
  <2>3. QED
    BY <1>1, <2>1, <2>2, StaledFacts DEF ListsOK
<1>7. ASSUME NEW e \in Events,
             Queue(e) \/ SignalQueue(e) \/ Dequeue(e) \/ DequeueAll(e) \/ Release(e)
      PROVE  ListsOK'
  BY <1>2, <1>7 DEF Queue, SignalQueue, Dequeue, DequeueAll, Release
<1>8. ASSUME NEW t \in Types, Dispatch(t) PROVE ListsOK'
  BY <1>1, <1>8, BeginDispatchFacts DEF Dispatch
<1>9. CASE CallListener
  <2> DEFINE l == top.next
             f == [top EXCEPT !.running = l,
                              !.next = After(listener_map[top.type], l),
                              !.called = @ \cup {l}]
  <2>1. /\ frames # <<>> /\ l # None /\ ~top.stale
        /\ frames' = [frames EXCEPT ![Len(frames)] = f]
        /\ UNCHANGED <<lists, dispatch_type, dispatch_invalid>>
    BY <1>1, <1>9, TopFacts DEF CallListener, Looping
  <2>2. top \in Frame /\ l \in Listeners /\ top.type \in Types
        /\ l \in ToSet(listener_map[top.type])
    BY <1>1, <2>1, TopFacts DEF Frame, IteratorIn
  <2>3. listener_map[top.type] \in Seq(Listeners)
    BY <1>1, <2>2 DEF ListsOK
  <2>4. After(listener_map[top.type], l) \in ToSet(listener_map[top.type]) \cup {None}
    BY <2>2, <2>3, AfterFacts DEF ToSet
  <2>5. ToSet(listener_map[top.type]) \subseteq Listeners
    BY <2>3 DEF ToSet
  <2>6. f \in Frame
    BY <2>2, <2>4, <2>5 DEF Frame
  <2>7. IteratorIn(f, listener_map)
    BY <2>2, <2>4 DEF IteratorIn, Frame
  <2> HIDE DEF f
  <2>8. QED
    BY <1>1, <2>1, <2>6, <2>7, TopStep
<1>10. CASE EraseNull
  <2> DEFINE t == top.type
             n == After(listener_map[t], NullListener)
             f == [top EXCEPT !.next = n]
             st == Staled(t, NullListener)
  <2>1. /\ frames # <<>> /\ top.next = NullListener /\ NullListener # None /\ ~top.stale
        /\ listener_map' = [listener_map EXCEPT ![t] = Without(@, NullListener)]
        /\ frames' = [i \in DOMAIN frames |-> IF i = Len(frames) THEN f ELSE st[i]]
        /\ UNCHANGED <<registry, dispatch_type, dispatch_invalid>>
    BY <1>10 DEF EraseNull, Looping
  <2>2. /\ top \in Frame /\ t \in Types /\ NullListener \in Listeners
        /\ NullListener \in ToSet(listener_map[t])
        /\ DOMAIN frames = 1..Len(frames) /\ Len(frames) \in DOMAIN frames
    BY <1>1, <2>1, TopFacts DEF Frame, IteratorIn
  <2>3. /\ listener_map[t] \in Seq(Listeners) /\ IsInjective(listener_map[t])
    BY <1>1, <2>2 DEF ListsOK
  <2>4. n \in (ToSet(listener_map[t]) \ {NullListener}) \cup {None}
    BY <2>2, <2>3, AfterFacts DEF ToSet, IsInjective
  <2>5. ToSet(listener_map'[t]) = ToSet(listener_map[t]) \ {NullListener}
    <3>1. listener_map'[t] = Without(listener_map[t], NullListener)
      BY <1>1, <2>1, <2>2 DEF ListsOK
    <3>2. QED
      BY <2>3, <3>1, WithoutFacts
  <2>6. ToSet(listener_map[t]) \subseteq Listeners
    BY <2>3 DEF ToSet
  <2> HIDE DEF n
  <2>7. f \in Frame /\ f.next = n /\ f.type = t
    BY <2>2, <2>4, <2>6 DEF Frame
  <2>8. IteratorIn(f, listener_map')
    BY <2>4, <2>5, <2>7 DEF IteratorIn
  <2>9. /\ listener_map' \in [Types -> Seq(Listeners)]
        /\ \A u \in Types : IsInjective(listener_map'[u])
        /\ st \in Seq(Frame) /\ DOMAIN st = DOMAIN frames
        /\ \A i \in DOMAIN frames : IteratorIn(st[i], listener_map')
    BY <1>1, <2>1, <2>2, StaledFacts
  <2> HIDE DEF f, st
  <2>10. frames' \in Seq(Frame) /\ DOMAIN frames' = DOMAIN frames
    BY <2>1, <2>2, <2>7, <2>9
  <2>11. ASSUME NEW i \in DOMAIN frames' PROVE IteratorIn(frames'[i], listener_map')
    BY <2>1, <2>8, <2>9, <2>10
  <2>12. QED
    BY <1>1, <2>1, <2>9, <2>10, <2>11 DEF ListsOK
<1>11. ASSUME NEW handled \in BOOLEAN, HandlerReturn(handled) PROVE ListsOK'
  <2> DEFINE f == [top EXCEPT !.running = None, !.handled = handled]
  <2>1. /\ frames # <<>>
        /\ frames' = [frames EXCEPT ![Len(frames)] = f]
        /\ UNCHANGED <<lists, dispatch_type, dispatch_invalid>>
    BY <1>1, <1>11, TopFacts DEF HandlerReturn
  <2>2. top \in Frame /\ IteratorIn(top, listener_map)
    BY <1>1, <2>1, TopFacts
  <2>3. f \in Frame /\ IteratorIn(f, listener_map)
    BY <2>2 DEF Frame, IteratorIn
  <2> HIDE DEF f
  <2>4. QED
    BY <1>1, <2>1, <2>3, TopStep
<1>12. CASE EndDispatch
  <2>1. /\ frames # <<>> /\ frames' = SubSeq(frames, 1, Len(frames) - 1)
        /\ dispatch_type' = NullType /\ UNCHANGED <<lists, dispatch_invalid>>
    BY <1>12 DEF EndDispatch, Front
  <2>2. /\ frames' \in Seq(Frame) /\ DOMAIN frames' \subseteq DOMAIN frames
        /\ \A i \in DOMAIN frames' : frames'[i] = frames[i]
    BY <1>1, <2>1 DEF ListsOK
  <2>3. QED
    BY <1>1, <2>1, <2>2 DEF ListsOK
<1>13. CASE ExecuteBegin \/ ExecutePop \/ ExecuteEnd \/ Tick
  BY <1>2, <1>13 DEF ExecuteBegin, ExecutePop, ExecuteEnd, Tick
<1>14. CASE ExecuteDispatch
  <2> DEFINE e == Head(event_queue[active_queue])
  <2>1. e \in Events /\ TypeOf[e] \in Types
    <3>1. event_queue[active_queue] \in Seq(Events) /\ event_queue[active_queue] # <<>>
      BY <1>14 DEF ExecuteDispatch, IInv, QueuesOK
    <3>2. QED
      BY <3>1, TailFacts, ManagerAssumption
  <2>2. BeginDispatch(TypeOf[e], e) /\ UNCHANGED lists
    BY <1>14 DEF ExecuteDispatch
  <2> HIDE DEF e
  <2>3. QED
    BY <1>1, <2>1, <2>2, BeginDispatchFacts
<1>15. QED
  BY <1>3, <1>4, <1>5, <1>6, <1>7, <1>8, <1>9, <1>10, <1>11, <1>12, <1>13,
     <1>14 DEF Next, Client, Manager

(* Every step keeps the program where it can be. *)
LEMMA PlaceStep == IInv /\ Next => PlaceOK'
<1> SUFFICES ASSUME IInv, Next PROVE PlaceOK'
  OBVIOUS
<1> USE DEF lists, queues, control
<1>1. incoming \in 0..1 /\ incoming # active_queue /\ active_queue \in 0..1
      /\ 0..1 = {incoming, active_queue}
  BY DEF incoming, IInv, QueuesOK
<1>2. PlaceOK /\ event_queue \in [0..1 -> Seq(Events)] /\ frames \in Seq(Frame)
  BY DEF IInv, QueuesOK, ListsOK
<1>3. ASSUME UNCHANGED <<s_instance, queues, phase>>,
             now' \in 0..MaxTime,
             frames # <<>> => frames' = <<>> \/ frames'[1].event = frames[1].event,
             frames = <<>> => frames' = <<>>
      PROVE  PlaceOK'
  BY <1>2, <1>3 DEF PlaceOK
<1>4. ASSUME UNCHANGED <<s_instance, active_queue, phase, now, frames>>, s_instance,
             event_queue'[active_queue] = event_queue[active_queue]
      PROVE  PlaceOK'
  BY <1>2, <1>4 DEF PlaceOK
<1>5. CASE Create \/ Destroy
  <2>1. CASE Create
    BY <1>2, <2>1 DEF Create, PlaceOK
  <2>2. CASE Destroy
    <3>1. event_queue'[0] = <<>> /\ event_queue'[1] = <<>>
      BY <2>2 DEF Destroy
    <3>2. QED
      BY <1>2, <2>2, <3>1 DEF Destroy, PlaceOK
  <2>3. QED
    BY <1>5, <2>1, <2>2
<1>6. ASSUME NEW l \in Listeners, NEW t \in Types, Connect(l, t) PROVE PlaceOK'
  BY <1>2, <1>3, <1>6 DEF Connect, PlaceOK
<1>7. ASSUME NEW l \in Listeners, NEW t \in Types, Disconnect(l, t) PROVE PlaceOK'
  <2>1. frames' = Staled(t, l) /\ UNCHANGED <<s_instance, queues, phase, now>>
    BY <1>7 DEF Disconnect
  <2>2. DOMAIN frames' = DOMAIN frames
    BY <2>1 DEF Staled
  <2>3. frames = <<>> => frames' = <<>>
    BY <1>2, <2>1 DEF Staled
  <2>4. frames # <<>> => frames'[1].event = frames[1].event
    <3>1. SUFFICES ASSUME frames # <<>> PROVE frames'[1].event = frames[1].event
      OBVIOUS
    <3>2. 1 \in DOMAIN frames /\ frames[1] \in Frame
      BY <1>2, <3>1
    <3>3. frames'[1] = [frames[1] EXCEPT !.stale = @ \/ (frames[1].type = t
                                                         /\ frames[1].next = l)]
      BY <2>1, <3>2 DEF Staled
    <3>4. QED
      BY <3>2, <3>3 DEF Frame
  <2>5. QED
    BY <1>2, <1>3, <2>1, <2>3, <2>4 DEF PlaceOK
<1>8. ASSUME NEW e \in Events, Queue(e) \/ SignalQueue(e) PROVE PlaceOK'
  <2>1. event_queue' = [event_queue EXCEPT ![incoming] = Append(@, e)]
    BY <1>8 DEF Queue, SignalQueue, Enqueued
  <2>2. event_queue'[active_queue] = event_queue[active_queue]
    BY <1>1, <1>2, <2>1
  <2>3. QED
    BY <1>4, <1>8, <2>2 DEF Queue, SignalQueue
<1>9. ASSUME NEW e \in Events, Dequeue(e) PROVE PlaceOK'
  <2>1. event_queue'[active_queue] = event_queue[active_queue]
    BY <1>1, <1>2, <1>9 DEF Dequeue
  <2>2. QED
    BY <1>4, <1>9, <2>1 DEF Dequeue
<1>10. ASSUME NEW e \in Events, DequeueAll(e) PROVE PlaceOK'
  <2>1. event_queue'[active_queue] = event_queue[active_queue]
    BY <1>1, <1>2, <1>10 DEF DequeueAll
  <2>2. QED
    BY <1>4, <1>10, <2>1 DEF DequeueAll
<1>11. ASSUME NEW e \in Events, Release(e) PROVE PlaceOK'
  BY <1>2, <1>3, <1>11 DEF Release, PlaceOK
<1>12. ASSUME NEW t \in Types, NEW e \in Events \cup {None}, BeginDispatch(t, e)
       PROVE  /\ frames # <<>> => frames'[1] = frames[1]
              /\ frames = <<>> /\ frames' # <<>> => frames'[1].event = e
  <2>1. CASE t \notin registry
    BY <1>12, <2>1 DEF BeginDispatch
  <2>2. CASE t \in registry
    <3> DEFINE f == [event |-> e, type |-> t, next |-> First(listener_map[t]),
                     stale |-> FALSE, running |-> None, handled |-> FALSE,
                     called |-> {}]
    <3>1. frames' = Append(frames, f) /\ f.event = e
      BY <1>12, <2>2 DEF BeginDispatch
    <3> HIDE DEF f
    <3>2. QED
      BY <1>2, <3>1
  <2>3. QED
    BY <2>1, <2>2
<1>13. ASSUME NEW t \in Types, Dispatch(t) PROVE PlaceOK'
  <2>1. frames # <<>> => frames'[1] = frames[1]
    BY <1>12, <1>13 DEF Dispatch
  <2>2. frames = <<>> => phase = "idle"
    BY <1>13 DEF Dispatch, ClientRuns
  <2>3. QED
    BY <1>2, <1>13, <2>1, <2>2 DEF Dispatch, PlaceOK
<1>14. ASSUME frames # <<>>, NEW f, f.event = top.event,
              frames' = [frames EXCEPT ![Len(frames)] = f]
       PROVE  frames'[1].event = frames[1].event
  <2>1. top = frames[Len(frames)] /\ DOMAIN frames = 1..Len(frames) /\ 1 \in DOMAIN frames
    BY <1>2, <1>14 DEF top, Last
  <2>2. QED
    BY <1>14, <2>1
<1>15. CASE CallListener
  <2> DEFINE f == [top EXCEPT !.running = top.next,
                              !.next = After(listener_map[top.type], top.next),
                              !.called = @ \cup {top.next}]
  <2>1. frames # <<>> /\ frames' = [frames EXCEPT ![Len(frames)] = f]
    BY <1>15 DEF CallListener, Looping
  <2>2. top \in Frame
    BY <2>1, TopFacts DEF IInv
  <2>3. f.event = top.event
    BY <2>2 DEF Frame
  <2> HIDE DEF f
  <2>4. frames'[1].event = frames[1].event
    BY <1>14, <2>1, <2>3
  <2>5. QED
    BY <1>2, <1>3, <1>15, <2>1, <2>4 DEF CallListener, PlaceOK
<1>16. CASE HandlerReturn(TRUE) \/ HandlerReturn(FALSE)
  <2>1. PICK h \in BOOLEAN : HandlerReturn(h)
    BY <1>16
  <2> DEFINE f == [top EXCEPT !.running = None, !.handled = h]
  <2>2. frames # <<>> /\ frames' = [frames EXCEPT ![Len(frames)] = f]
    BY <2>1 DEF HandlerReturn
  <2>3. top \in Frame
    BY <2>2, TopFacts DEF IInv
  <2>4. f.event = top.event
    BY <2>3 DEF Frame
  <2> HIDE DEF f
  <2>5. frames'[1].event = frames[1].event
    BY <1>14, <2>2, <2>4
  <2>6. QED
    BY <1>2, <1>3, <2>1, <2>2, <2>5 DEF HandlerReturn, PlaceOK
<1>17. CASE EraseNull
  <2> DEFINE f == [top EXCEPT !.next = After(listener_map[top.type], NullListener)]
             st == Staled(top.type, NullListener)
  <2>1. frames # <<>>
        /\ frames' = [i \in DOMAIN frames |-> IF i = Len(frames) THEN f ELSE st[i]]
    BY <1>17 DEF EraseNull, Looping
  <2>2. /\ top \in Frame /\ top = frames[Len(frames)]
        /\ 1 \in DOMAIN frames /\ frames[1] \in Frame
    BY <1>2, <2>1, TopFacts DEF IInv
  <2>3. f.event = top.event /\ st[1].event = frames[1].event
    BY <2>2 DEF Frame, Staled
  <2> HIDE DEF f, st
  <2>4. frames'[1].event = frames[1].event
    BY <2>1, <2>2, <2>3
  <2>5. QED
    BY <1>2, <1>3, <1>17, <2>1, <2>4 DEF EraseNull, PlaceOK
<1>18. CASE EndDispatch
  <2>1. frames # <<>> /\ frames' = SubSeq(frames, 1, Len(frames) - 1)
    BY <1>18 DEF EndDispatch, Front
  <2>2. frames' = <<>> \/ frames'[1] = frames[1]
    BY <1>2, <2>1
  <2>3. QED
    BY <1>2, <1>3, <1>18, <2>1, <2>2 DEF EndDispatch, PlaceOK
<1>19. CASE ExecuteBegin
  BY <1>2, <1>19 DEF ExecuteBegin, PlaceOK
<1>20. CASE ExecuteDispatch
  <2> DEFINE e == Head(event_queue[active_queue])
  <2>1. event_queue[active_queue] # <<>> /\ phase = "loop" /\ phase' = "dispatch"
        /\ BeginDispatch(TypeOf[e], e)
        /\ UNCHANGED <<lists, queues, now>>
    BY <1>20 DEF ExecuteDispatch
  <2>2. e \in Events /\ TypeOf[e] \in Types /\ frames = <<>> /\ s_instance
    <3>1. event_queue[active_queue] \in Seq(Events)
      BY <1>1, <1>2
    <3>2. e \in Events
      BY <2>1, <3>1
    <3>3. QED
      BY <1>2, <2>1, <3>2, ManagerAssumption DEF PlaceOK
  <2> HIDE DEF e
  <2>3. frames' # <<>> => frames'[1].event = e
    BY <1>12, <2>1, <2>2
  <2>4. e = Head(event_queue[active_queue])
    BY DEF e
  <2>5. QED
    BY <1>2, <2>1, <2>2, <2>3, <2>4 DEF PlaceOK
<1>21. CASE ExecutePop
  BY <1>2, <1>21 DEF ExecutePop, PlaceOK
<1>22. CASE ExecuteEnd
  BY <1>2, <1>22 DEF ExecuteEnd, PlaceOK
<1>23. CASE Tick
  BY <1>2, <1>3, <1>23, ManagerAssumption DEF Tick, PlaceOK
<1>24. QED
  BY <1>5, <1>6, <1>7, <1>8, <1>9, <1>10, <1>11, <1>13, <1>15, <1>16, <1>17,
     <1>18, <1>19, <1>20, <1>21, <1>22, <1>23 DEF Next, Client, Manager

-----------------------------------------------------------------------------
LEMMA Invariance == Spec => []IInv
<1>1. IInv /\ UNCHANGED vars => IInv'
  BY DEF IInv, vars, lists, queues, control, QueuesOK, OwnedOnce, ListsOK,
         IteratorIn, PlaceOK
<1>2. IInv /\ [Next]_vars => IInv'
  BY <1>1, QueuesStep, ListsStep, PlaceStep DEF IInv
<1>3. QED
  BY <1>2, InvInit, PTL DEF Spec

(* The variables of the event manager keep their types. *)
THEOREM TypeCorrect == Spec => []TypeOK
<1>1. IInv => TypeOK
  BY DEF IInv, QueuesOK, ListsOK, PlaceOK, TypeOK
<1>2. QED
  BY <1>1, Invariance, PTL

(* For any listeners, events and depth of nesting, whoever queues and      *)
(* dequeues whenever: no queued event is freed twice, or lost.             *)
THEOREM EventsOwnedOnce == Spec => []OwnedOnce
<1>1. IInv => OwnedOnce
  BY DEF IInv, QueuesOK
<1>2. QED
  BY <1>1, Invariance, PTL

(* What execute() pops and frees is the event it has just dispatched.      *)
THEOREM FreesTheDispatched == Spec => []FreesWhatItDispatched
<1>1. IInv => FreesWhatItDispatched
  <2>1. SUFFICES ASSUME IInv, phase = "dispatch"
                 PROVE  owner[Head(event_queue[active_queue])] = "manager"
    BY DEF IInv, PlaceOK, FreesWhatItDispatched
  <2>2. /\ event_queue[active_queue] \in Seq(Events)
        /\ event_queue[active_queue] # <<>>
        /\ active_queue = 0 \/ active_queue = 1
    BY <2>1 DEF IInv, QueuesOK, PlaceOK
  <2>3. /\ Head(event_queue[active_queue]) \in ToSet(event_queue[active_queue])
        /\ Head(event_queue[active_queue]) \in Events
    BY <2>2, TailFacts
  <2>4. QED
    BY <2>1, <2>2, <2>3 DEF IInv, QueuesOK, OwnedOnce
<1>2. QED
  BY <1>1, Invariance, PTL

-----------------------------------------------------------------------------
(* EventManager implements EventBatches.                                   *)
LEMMA BatchesInit == Init => Batches!Init
<1> SUFFICES ASSUME Init PROVE Batches!Init
  OBVIOUS
<1>1. event_queue[incoming] = <<>> /\ event_queue[active_queue] = <<>>
  BY DEF Init, incoming
<1>2. ToSet(<<>>) = {}
  BY DEF ToSet
<1>3. QED
  BY <1>1, <1>2 DEF Init, Batches!Init

LEMMA BatchesStep == IInv /\ IInv' /\ Next => Batches!Next \/ UNCHANGED Batches!vars
<1> SUFFICES ASSUME IInv, IInv', Next PROVE Batches!Next \/ UNCHANGED Batches!vars
  OBVIOUS
<1> USE DEF lists, queues, control
<1>1. /\ incoming \in 0..1 /\ active_queue \in 0..1 /\ incoming # active_queue
      /\ active_queue' = active_queue => incoming' = incoming
      /\ event_queue \in [0..1 -> Seq(Events)]
  <2>1. active_queue \in 0..1 /\ event_queue \in [0..1 -> Seq(Events)]
    BY DEF IInv, QueuesOK
  <2>2. incoming \in 0..1 /\ incoming # active_queue
    BY <2>1 DEF incoming
  <2>3. active_queue' = active_queue => incoming' = incoming
    BY DEF incoming
  <2>4. QED
    BY <2>1, <2>2, <2>3
<1>2. \A k \in 0..1 : IsInjective(event_queue[k]) /\ ToSet(event_queue[k]) \subseteq Events
  BY <1>1 DEF IInv, QueuesOK, OwnedOnce, ToSet
<1>3. ToSet(event_queue[incoming]) \cap ToSet(event_queue[active_queue]) = {}
  BY <1>1 DEF IInv, QueuesOK, OwnedOnce
<1>4. ToSet(<<>>) = {}
  BY DEF ToSet
<1>5. None \notin Events
  BY ManagerAssumption
<1>6. ASSUME UNCHANGED <<queues, phase, now>> PROVE UNCHANGED Batches!vars
  BY <1>1, <1>6 DEF Batches!vars
<1>7. CASE Create
  <2>1. /\ event_queue[0] = <<>> /\ event_queue[1] = <<>> /\ phase = "idle"
        /\ UNCHANGED <<event_queue, phase, now>> /\ active_queue' = 0
    BY <1>7 DEF Create, IInv, PlaceOK
  <2>2. /\ event_queue[incoming] = <<>> /\ event_queue'[incoming'] = <<>>
        /\ event_queue[active_queue] = <<>> /\ event_queue'[active_queue'] = <<>>
    BY <1>1, <2>1 DEF incoming
  <2>3. QED
    BY <2>1, <2>2 DEF Batches!vars
<1>8. CASE Destroy
  <2>1. /\ event_queue' = [q \in 0..1 |-> <<>>] /\ phase = "idle"
        /\ UNCHANGED <<active_queue, phase, now>>
    BY <1>8 DEF Destroy
  <2>2. event_queue'[incoming'] = <<>> /\ event_queue'[active_queue'] = <<>>
    BY <1>1, <2>1
  <2>3. Batches!Shutdown
    BY <1>4, <2>1, <2>2 DEF Batches!Shutdown
  <2>4. QED
    BY <2>3 DEF Batches!Next
<1>9. ASSUME NEW l \in Listeners, NEW t \in Types, Connect(l, t) \/ Disconnect(l, t)
      PROVE  UNCHANGED Batches!vars
  BY <1>6, <1>9 DEF Connect, Disconnect
<1>10. ASSUME NEW e \in Events, Queue(e) \/ SignalQueue(e) PROVE Batches!Next
  <2>1. /\ event_queue' = [event_queue EXCEPT ![incoming] = Append(@, e)]
        /\ owner[e] # "manager"
        /\ UNCHANGED <<active_queue, phase, now>>
    BY <1>10 DEF Queue, SignalQueue, Enqueued
  <2>2. /\ event_queue'[incoming'] = Append(event_queue[incoming], e)
        /\ event_queue'[active_queue'] = event_queue[active_queue]
    BY <1>1, <2>1
  <2>3. ToSet(event_queue'[incoming']) = ToSet(event_queue[incoming]) \cup {e}
    BY <1>1, <2>2, AppendFacts
  <2>4. e \notin ToSet(event_queue[incoming]) \cup ToSet(event_queue[active_queue])
    BY <1>1, <2>1 DEF IInv, QueuesOK, OwnedOnce
  <2>5. /\ ToSet(event_queue'[active_queue']) = ToSet(event_queue[active_queue])
        /\ Head(event_queue'[active_queue']) = Head(event_queue[active_queue])
        /\ phase' = phase /\ now' = now
    BY <2>1, <2>2
  <2>6. Batches!Post(e)
    BY <2>3, <2>4, <2>5 DEF Batches!Post
  <2>7. QED
    BY <2>6 DEF Batches!Next
<1>11. ASSUME NEW S \in SUBSET ToSet(event_queue[incoming]), NEW s,
              event_queue' = [event_queue EXCEPT ![incoming] = s],
              ToSet(s) = ToSet(event_queue[incoming]) \ S,
              UNCHANGED <<active_queue, phase, now>>
       PROVE  Batches!Next
  <2>1. event_queue'[incoming'] = s /\ event_queue'[active_queue'] = event_queue[active_queue]
    BY <1>1, <1>11
  <2>2. Batches!Withdraw(S)
    BY <1>11, <2>1 DEF Batches!Withdraw
  <2>3. S \in SUBSET Events
    BY <1>1, <1>2
  <2>4. QED
    BY <2>2, <2>3 DEF Batches!Next
<1>12. ASSUME NEW e \in Events, Dequeue(e) PROVE Batches!Next
  <2> DEFINE s == Without(event_queue[incoming], e)
  <2>1. ToSet(s) = ToSet(event_queue[incoming]) \ {e}
    BY <1>1, <1>2, WithoutFacts
  <2>2. /\ event_queue' = [event_queue EXCEPT ![incoming] = s]
        /\ {e} \in SUBSET ToSet(event_queue[incoming])
        /\ UNCHANGED <<active_queue, phase, now>>
    BY <1>12 DEF Dequeue
  <2> HIDE DEF s
  <2>3. QED
    BY <1>11, <2>1, <2>2
<1>13. ASSUME NEW e \in Events, DequeueAll(e) PROVE Batches!Next
  <2> DEFINE q == event_queue[incoming]
             taken == {x \in ToSet(q) : TypeOf[x] = TypeOf[e]}
  <2>1. PICK s \in Kept(q, ToSet(q) \ taken) :
          event_queue' = [event_queue EXCEPT ![incoming] = s]
    BY <1>13 DEF DequeueAll
  <2>2. ToSet(s) = ToSet(q) \ taken /\ taken \in SUBSET ToSet(q)
    BY DEF Kept
  <2>3. UNCHANGED <<active_queue, phase, now>>
    BY <1>13 DEF DequeueAll
  <2> HIDE DEF taken
  <2>4. QED
    BY <1>11, <2>1, <2>2, <2>3
<1>14. ASSUME NEW e \in Events, Release(e) PROVE UNCHANGED Batches!vars
  BY <1>6, <1>14 DEF Release
<1>15. ASSUME NEW t \in Types, Dispatch(t) PROVE UNCHANGED Batches!vars
  BY <1>6, <1>15 DEF Dispatch
<1>16. CASE CallListener \/ EraseNull \/ EndDispatch
  BY <1>6, <1>16 DEF CallListener, EraseNull, EndDispatch
<1>17. ASSUME NEW h \in BOOLEAN, HandlerReturn(h) PROVE UNCHANGED Batches!vars
  BY <1>6, <1>17 DEF HandlerReturn
<1>18. CASE ExecuteBegin
  <2>1. PICK s \in SortsOf(event_queue[active_queue]) :
          event_queue' = [event_queue EXCEPT ![active_queue] = s]
    BY <1>18 DEF ExecuteBegin
  <2>2. ToSet(s) = ToSet(event_queue[active_queue])
    BY <1>1, SortFacts
  <2>3. /\ phase = "idle" /\ phase' = "loop" /\ UNCHANGED <<active_queue, now>>
    BY <1>18 DEF ExecuteBegin
  <2>4. event_queue'[incoming'] = event_queue[incoming] /\ event_queue'[active_queue'] = s
    BY <1>1, <2>1, <2>3
  <2>5. QED
    BY <2>2, <2>3, <2>4 DEF Batches!vars
<1>19. CASE ExecuteDispatch
  <2> DEFINE e == Head(event_queue[active_queue])
  <2>1. /\ phase = "loop" /\ phase' = "dispatch" /\ TimeStamp[e] <= now
        /\ event_queue[active_queue] # <<>> /\ UNCHANGED <<queues, now>>
    BY <1>19 DEF ExecuteDispatch
  <2>2. e \in ToSet(event_queue[active_queue]) /\ e \in Events
    BY <1>1, <2>1, TailFacts
  <2>3. Batches!Deliver(e)
    BY <1>1, <2>1, <2>2 DEF Batches!Deliver
  <2>4. QED
    BY <2>2, <2>3 DEF Batches!Next
<1>20. CASE ExecutePop
  <2> DEFINE q == event_queue[active_queue]
  <2>1. /\ phase = "dispatch" /\ phase' = "loop" /\ q # <<>>
        /\ event_queue' = [event_queue EXCEPT ![active_queue] = Tail(@)]
        /\ UNCHANGED <<active_queue, now>>
    BY <1>20 DEF ExecutePop, IInv, PlaceOK
  <2>2. Head(q) \in ToSet(q) /\ ToSet(Tail(q)) = ToSet(q) \ {Head(q)}
    BY <1>1, <1>2, <2>1, TailFacts
  <2>3. event_queue'[incoming'] = event_queue[incoming]
        /\ event_queue'[active_queue'] = Tail(q)
    BY <1>1, <2>1
  <2>4. Batches!Free
    BY <2>1, <2>2, <2>3 DEF Batches!Free
  <2>5. QED
    BY <2>4 DEF Batches!Next
<1>21. CASE ExecuteEnd
  <2>1. phase = "loop" /\ phase' = "idle" /\ UNCHANGED <<event_queue, now>>
    BY <1>21 DEF ExecuteEnd
  <2>2. CASE event_queue[active_queue] = <<>> /\ active_queue' = incoming
    <3>1. incoming' = active_queue
      BY <1>1, <2>2 DEF incoming
    <3>2. Batches!Exchange
      BY <1>4, <2>1, <2>2, <3>1 DEF Batches!Exchange
    <3>3. QED
      BY <3>2 DEF Batches!Next
  <2>3. CASE UNCHANGED active_queue
    BY <1>1, <2>1, <2>3 DEF Batches!vars
  <2>4. QED
    BY <1>21, <2>2, <2>3 DEF ExecuteEnd
<1>22. CASE Tick
  <2>1. Batches!Advance
    BY <1>1, <1>22 DEF Tick, Batches!Advance
  <2>2. QED
    BY <2>1 DEF Batches!Next
<1>23. QED
  BY <1>7, <1>8, <1>9, <1>10, <1>12, <1>13, <1>14, <1>15, <1>16, <1>17, <1>18,
     <1>19, <1>20, <1>21, <1>22 DEF Next, Client, Manager

(* The event manager delivers in batches, each event once and not before   *)
(* its time, for every instance (the safety part of KeepsBatches is all of *)
(* it: EventBatches states no liveness).                                   *)
THEOREM ImplementsBatches == Spec => KeepsBatches
<1>1. UNCHANGED vars => UNCHANGED Batches!vars
  BY DEF vars, queues, Batches!vars, incoming
<1>2. IInv /\ IInv' /\ [Next]_vars => [Batches!Next]_(Batches!vars)
  BY <1>1, BatchesStep
<1>3. QED
  BY <1>2, BatchesInit, Invariance, PTL DEF Spec, KeepsBatches, Batches!Spec

-----------------------------------------------------------------------------
(* One dispatch at a time.                                                 *)

(* A call stack of at most one frame.                                      *)
LEMMA OneFrame ==
  ASSUME frames \in Seq(Frame), frames # <<>>, Len(frames) <= 1
  PROVE  Len(frames) = 1 /\ top = frames[1] /\ frames[1] \in Frame
<1> DEFINE n == Len(frames)
<1>1. n \in Nat \ {0} /\ n <= 1
  BY EmptySeq, LenProperties
<1> HIDE DEF n
<1>2. n = 1
  BY <1>1
<1>3. QED
  BY <1>2 DEF n, top, Last

(* std::list::erase at an iterator that has moved on: it stays half way.   *)
LEMMA WithoutOrder ==
  ASSUME NEW S, NEW s \in Seq(S), NEW x \in ToSet(s), IsInjective(s)
  PROVE  \E k \in 1..Len(s) :
           /\ s[k] = x
           /\ After(s, x) = IF k < Len(s) THEN s[k + 1] ELSE None
           /\ DOMAIN Without(s, x) = 1..Len(s) - 1
           /\ \A i \in 1..Len(s) - 1 :
                Without(s, x)[i] = IF i < k THEN s[i] ELSE s[i + 1]
<1> DEFINE k == Place(s, x)
<1>1. k \in 1..Len(s) /\ s[k] = x
  BY DEF ToSet, Place
<1>2. After(s, x) = IF k < Len(s) THEN s[k + 1] ELSE None
  BY DEF After
<1>3. Without(s, x) = RemoveAt(s, k)
  BY DEF Without
<1> HIDE DEF k
<1>4. /\ RemoveAt(s, k) \in Seq(S) /\ Len(RemoveAt(s, k)) = Len(s) - 1
      /\ \A i \in 1..Len(s) - 1 :
           RemoveAt(s, k)[i] = IF i < k THEN s[i] ELSE s[i + 1]
  BY <1>1, RemoveAtFacts
<1>5. DOMAIN RemoveAt(s, k) = 1..Len(s) - 1
  BY <1>4
<1>6. QED
  BY <1>1, <1>2, <1>3, <1>4, <1>5

(* A dispatch begins with every listener of its type still to be called.   *)
LEMMA SingleBegin ==
  ASSUME ListsOK, frames = <<>>, NEW t \in Types, NEW e,
         BeginDispatch(t, e), UNCHANGED lists
  PROVE  SingleDispatch'
<1> USE DEF lists, control
<1>1. CASE t \notin registry
  BY <1>1 DEF BeginDispatch, SingleDispatch
<1>2. CASE t \in registry
  <2> DEFINE f == [event |-> e, type |-> t, next |-> First(listener_map[t]),
                   stale |-> FALSE, running |-> None, handled |-> FALSE,
                   called |-> {}]
  <2>1. /\ frames' = Append(frames, f)
        /\ dispatch_type' = t
        /\ listener_map' = listener_map
    BY <1>2 DEF BeginDispatch
  <2>2. listener_map[t] \in Seq(Listeners) /\ None \notin Listeners
    BY ManagerAssumption DEF ListsOK
  <2>3. HalfWay(f, listener_map[t])
    <3>1. CASE listener_map[t] = <<>>
      BY <3>1 DEF HalfWay, First, ToSet
    <3>2. CASE listener_map[t] # <<>>
      <4>1. /\ 1 \in DOMAIN listener_map[t] /\ listener_map[t][1] = f.next
            /\ \A i \in DOMAIN listener_map[t] : ~(i < 1)
            /\ f.called = {} /\ f.next # None
        BY <2>2, <3>2 DEF First
      <4>2. QED
        BY <4>1 DEF HalfWay
    <3>3. QED
      BY <3>1, <3>2
  <2>4. f.type = t /\ f.stale = FALSE
    OBVIOUS
  <2> HIDE DEF f
  <2>5. Len(frames') = 1 /\ frames'[1] = f
    BY <2>1
  <2>6. QED
    BY <2>1, <2>3, <2>4, <2>5 DEF SingleDispatch
<1>3. QED
  BY <1>1, <1>2

(* After a call the iterator is one place further on.                      *)
LEMMA SingleCall ==
  ASSUME IInv, SingleDispatch, CallListener PROVE SingleDispatch'
<1> DEFINE f == frames[1]
           s == listener_map[f.type]
           n == After(s, f.next)
           g == [f EXCEPT !.running = f.next, !.next = n, !.called = @ \cup {f.next}]
<1> USE DEF lists
<1>1. /\ frames # <<>> /\ frames \in Seq(Frame) /\ Len(frames) = 1 /\ top = f
      /\ f \in Frame /\ s \in Seq(Listeners) /\ IsInjective(s)
  <2>1. frames # <<>> /\ frames \in Seq(Frame) /\ Len(frames) <= 1
    BY DEF CallListener, Looping, IInv, ListsOK, SingleDispatch
  <2>2. Len(frames) = 1 /\ top = f /\ f \in Frame
    BY <2>1, OneFrame
  <2>3. f.type \in Types
    BY <2>2 DEF Frame
  <2>4. QED
    BY <2>1, <2>2, <2>3 DEF IInv, ListsOK
<1>2. /\ f.next # None /\ f.next # NullListener /\ ~dispatch_invalid
      /\ frames' = [frames EXCEPT ![1] = g]
      /\ UNCHANGED <<listener_map, dispatch_type, dispatch_invalid>>
  BY <1>1 DEF CallListener, Looping
<1>3. /\ f.type = dispatch_type /\ ~f.stale /\ HalfWay(f, s)
  BY <1>1, <1>2 DEF SingleDispatch
<1>4. /\ g.next = n /\ g.called = f.called \cup {f.next}
      /\ g.type = f.type /\ g.stale = f.stale
  BY <1>1 DEF Frame
<1>5. HalfWay(g, s)
  <2>1. PICK k \in 1..Len(s) :
          /\ s[k] = f.next
          /\ \A i \in 1..Len(s) :
               IF i < k THEN s[i] = NullListener \/ s[i] \in f.called
                        ELSE s[i] \notin f.called
    BY <1>1, <1>2, <1>3 DEF HalfWay
  <2>2. f.next \in ToSet(s)
    BY <1>1, <2>1 DEF ToSet
  <2>3. /\ k < Len(s) => n = s[k + 1]
        /\ k = Len(s) => n = None
    <3>1. PICK i \in 1..Len(s) : /\ s[i] = f.next
                                 /\ \/ i < Len(s) /\ n = s[i + 1]
                                    \/ i = Len(s) /\ n = None
      BY <1>1, <2>2, AfterFacts
    <3>2. i = k
      BY <1>1, <2>1, <3>1 DEF IsInjective
    <3>3. QED
      BY <3>1, <3>2
  <2>4. NullListener \notin g.called
    BY <1>2, <1>3, <1>4 DEF HalfWay
  <2>5. CASE k = Len(s)
    <3>1. \A i \in 1..Len(s) : s[i] = NullListener \/ s[i] \in g.called
      BY <1>1, <1>4, <2>1, <2>5
    <3>2. ToSet(s) \ {NullListener} \subseteq g.called
      BY <1>1, <3>1 DEF ToSet
    <3>3. QED
      BY <1>4, <2>3, <2>4, <2>5, <3>2 DEF HalfWay
  <2>6. CASE k < Len(s)
    <3>1. k + 1 \in DOMAIN s /\ s[k + 1] = g.next /\ g.next # None
      BY <1>1, <1>4, <2>1, <2>3, <2>6, ManagerAssumption
    <3>2. ASSUME NEW i \in DOMAIN s
          PROVE  IF i < k + 1 THEN s[i] = NullListener \/ s[i] \in g.called
                              ELSE s[i] \notin g.called
      <4>1. i \in 1..Len(s) /\ (i = k \/ i < k \/ i > k)
        BY <1>1, <2>1
      <4>2. i > k => s[i] # f.next
        BY <1>1, <2>1, <4>1 DEF IsInjective
      <4>3. QED
        BY <1>4, <2>1, <4>1, <4>2
    <3>3. QED
      BY <2>4, <3>1, <3>2 DEF HalfWay
  <2>7. QED
    BY <1>1, <2>1, <2>5, <2>6
<1> HIDE DEF g, n
<1>6. Len(frames') = 1 /\ frames'[1] = g
  BY <1>1, <1>2
<1>7. QED
  BY <1>2, <1>3, <1>4, <1>5, <1>6 DEF SingleDispatch

(* erase() at the iterator: nobody was called, and the list closes up.     *)
LEMMA SingleErase ==
  ASSUME IInv, SingleDispatch, EraseNull PROVE SingleDispatch'
<1> DEFINE f == frames[1]
           s == listener_map[f.type]
           n == After(s, NullListener)
           w == Without(s, NullListener)
           g == [f EXCEPT !.next = n]
<1> USE DEF lists
<1>1. /\ frames # <<>> /\ frames \in Seq(Frame) /\ Len(frames) = 1 /\ top = f
      /\ f \in Frame /\ s \in Seq(Listeners) /\ IsInjective(s) /\ f.type \in Types
      /\ listener_map \in [Types -> Seq(Listeners)]
  <2>1. frames # <<>> /\ frames \in Seq(Frame) /\ Len(frames) <= 1
    BY DEF EraseNull, Looping, IInv, ListsOK, SingleDispatch
  <2>2. Len(frames) = 1 /\ top = f /\ f \in Frame
    BY <2>1, OneFrame
  <2>3. f.type \in Types
    BY <2>2 DEF Frame
  <2>4. QED
    BY <2>1, <2>2, <2>3 DEF IInv, ListsOK
<1>2. /\ f.next = NullListener /\ NullListener # None /\ ~dispatch_invalid
      /\ frames' = [i \in DOMAIN frames |->
                      IF i = 1 THEN g ELSE Staled(f.type, NullListener)[i]]
      /\ listener_map' = [listener_map EXCEPT ![f.type] = w]
      /\ UNCHANGED <<dispatch_type, dispatch_invalid>>
  BY <1>1 DEF EraseNull, Looping
<1>3. /\ f.type = dispatch_type /\ ~f.stale /\ HalfWay(f, s)
  BY <1>1, <1>2 DEF SingleDispatch
<1>4. g.next = n /\ g.called = f.called /\ g.type = f.type /\ g.stale = f.stale
  BY <1>1 DEF Frame
<1>5. HalfWay(g, w)
  <2>1. PICK k \in 1..Len(s) :
          /\ s[k] = NullListener
          /\ \A i \in 1..Len(s) :
               IF i < k THEN s[i] = NullListener \/ s[i] \in f.called
                        ELSE s[i] \notin f.called
    BY <1>1, <1>2, <1>3 DEF HalfWay
  <2>2. NullListener \in ToSet(s)
    BY <1>1, <2>1 DEF ToSet
  <2>3. PICK j \in 1..Len(s) :
          /\ s[j] = NullListener
          /\ n = IF j < Len(s) THEN s[j + 1] ELSE None
          /\ DOMAIN w = 1..Len(s) - 1
          /\ \A i \in 1..Len(s) - 1 : w[i] = IF i < j THEN s[i] ELSE s[i + 1]
    BY <1>1, <2>2, WithoutOrder
  <2>4. j = k
    BY <1>1, <2>1, <2>3 DEF IsInjective
  <2>5. NullListener \notin g.called
    BY <1>3, <1>4 DEF HalfWay
  <2>6. Len(s) \in Nat /\ \A i \in 1..Len(s) : s[i] \in Listeners
    BY <1>1
  <2> HIDE DEF w, n
  <2>7. CASE k = Len(s)
    <3>1. \A i \in DOMAIN w : w[i] = NullListener \/ w[i] \in g.called
      BY <1>4, <2>1, <2>3, <2>4, <2>6, <2>7
    <3>2. ToSet(w) \ {NullListener} \subseteq g.called
      BY <3>1 DEF ToSet
    <3>3. g.next = None
      BY <1>4, <2>3, <2>4, <2>7
    <3>4. QED
      BY <2>5, <3>2, <3>3 DEF HalfWay
  <2>8. CASE k < Len(s)
    <3>1. k \in DOMAIN w /\ w[k] = s[k + 1] /\ g.next = s[k + 1] /\ g.next # None
      BY <1>4, <2>1, <2>3, <2>4, <2>6, <2>8, ManagerAssumption
    <3>2. ASSUME NEW i \in DOMAIN w
          PROVE  IF i < k THEN w[i] = NullListener \/ w[i] \in g.called
                          ELSE w[i] \notin g.called
      <4>1. i \in 1..Len(s) /\ i + 1 \in 1..Len(s)
        BY <2>3, <2>6
      <4>2. CASE i < k
        BY <1>4, <2>1, <2>3, <2>4, <4>1, <4>2
      <4>3. CASE ~(i < k)
        <5>1. w[i] = s[i + 1] /\ ~(i + 1 < k)
          BY <2>1, <2>3, <2>4, <4>1, <4>3
        <5>2. QED
          BY <1>4, <2>1, <4>1, <4>3, <5>1
      <4>4. QED
        BY <4>2, <4>3
    <3>3. QED
      BY <2>5, <3>1, <3>2 DEF HalfWay
  <2>9. QED
    BY <2>1, <2>6, <2>7, <2>8
<1>6. listener_map'[f.type] = w
  BY <1>1, <1>2
<1> HIDE DEF g, w
<1>7. Len(frames') = 1 /\ frames'[1] = g
  <2>1. DOMAIN frames = 1..1
    BY <1>1
  <2>2. frames' = [i \in 1..1 |->
                      IF i = 1 THEN g ELSE Staled(f.type, NullListener)[i]]
    BY <1>2, <2>1
  <2>3. QED
    BY <2>2
<1>8. QED
  BY <1>2, <1>3, <1>4, <1>5, <1>6, <1>7 DEF SingleDispatch

(* A step that leaves the innermost iterator and its list alone.           *)
LEMMA SingleSame ==
  ASSUME IInv, SingleDispatch, NEW f \in Frame,
         frames # <<>> => /\ frames' = [frames EXCEPT ![1] = f]
                          /\ f.type = frames[1].type /\ f.next = frames[1].next
                          /\ f.stale = frames[1].stale /\ f.called = frames[1].called
                          /\ listener_map'[f.type] = listener_map[f.type],
         frames = <<>> => frames' = <<>>,
         UNCHANGED <<dispatch_type, dispatch_invalid>>
  PROVE  SingleDispatch'
<1>1. frames \in Seq(Frame) /\ Len(frames) <= 1
  BY DEF IInv, ListsOK, SingleDispatch
<1>2. CASE frames = <<>>
  BY <1>2 DEF SingleDispatch
<1>3. CASE frames # <<>>
  <2>1. Len(frames) = 1
    BY <1>1, <1>3, OneFrame
  <2>2. Len(frames') = 1 /\ frames'[1] = f
    BY <1>1, <1>3, <2>1
  <2>3. HalfWay(frames[1], listener_map[f.type]) => HalfWay(f, listener_map[f.type])
    BY <1>3 DEF HalfWay
  <2>4. QED
    BY <1>3, <2>1, <2>2, <2>3 DEF SingleDispatch
<1>4. QED
  BY <1>2, <1>3

LEMMA SingleStep ==
  ASSUME MaxDepth = 1, IInv, IInv', SingleDispatch, Next
  PROVE  SingleDispatch'
<1> USE DEF lists, control
<1>1. frames \in Seq(Frame) /\ Len(frames) <= 1
  BY DEF IInv, ListsOK, SingleDispatch
<1>2. ASSUME frames # <<>>
      PROVE  /\ frames[1] \in Frame /\ frames[1].type \in Types
             /\ Len(frames) = 1 /\ top = frames[1]
             /\ DOMAIN frames = {1}
  <2>1. Len(frames) = 1
    BY <1>1, <1>2, OneFrame
  <2>2. top = frames[1]
    BY <1>1, <1>2, OneFrame
  <2>3. frames[1] \in Frame /\ DOMAIN frames = 1..1
    BY <1>1, <2>1
  <2>4. QED
    BY <2>1, <2>2, <2>3 DEF Frame
<1>3. ASSUME UNCHANGED <<listener_map, control>> PROVE SingleDispatch'
  BY <1>3 DEF SingleDispatch, HalfWay
<1>4. CASE Create \/ Destroy
  <2>1. frames' = <<>>
    BY <1>4 DEF Create, Destroy, IInv, PlaceOK
  <2>2. QED
    BY <2>1 DEF SingleDispatch
<1>5. ASSUME NEW l \in Listeners, NEW t \in Types, Connect(l, t) \/ Disconnect(l, t)
      PROVE  SingleDispatch'
  <2>1. listener_map \in [Types -> Seq(Listeners)]
    BY DEF IInv, ListsOK
  <2>2. /\ \A u \in Types : u # t => listener_map'[u] = listener_map[u]
        /\ dispatch_type' = dispatch_type
        /\ \/ dispatch_invalid' = (dispatch_invalid \/ dispatch_type = t)
           \/ UNCHANGED <<listener_map, frames, dispatch_invalid>>
    BY <1>5, <2>1 DEF Connect, Disconnect, Invalidate
  <2>3. frames' = frames \/ frames' = Staled(t, l)
    BY <1>5 DEF Connect, Disconnect
  <2>4. CASE UNCHANGED <<listener_map, frames, dispatch_invalid>>
    BY <1>3, <2>2, <2>4
  <2>5. CASE frames = <<>>
    <3>1. frames' = <<>>
      BY <2>3, <2>5 DEF Staled
    <3>2. QED
      BY <3>1 DEF SingleDispatch
  <2>6. CASE frames # <<>> /\ dispatch_invalid' = (dispatch_invalid \/ dispatch_type = t)
    <3> DEFINE f == frames[1]
    <3>1. /\ Len(frames') = 1 /\ frames'[1] \in Frame /\ frames'[1].type = f.type
          /\ \/ frames'[1] = f
             \/ frames'[1] = [f EXCEPT !.stale = @ \/ (f.type = t /\ f.next = l)]
      <4>1. CASE frames' = frames
        BY <1>2, <2>6, <4>1
      <4>2. CASE frames' = Staled(t, l)
        <5>1. frames' = [i \in 1..1 |->
                 [frames[i] EXCEPT !.stale = @ \/ (frames[i].type = t /\ frames[i].next = l)]]
          BY <1>2, <2>6, <4>2 DEF Staled
        <5>2. /\ Len(frames') = 1
              /\ frames'[1] = [f EXCEPT !.stale = @ \/ (f.type = t /\ f.next = l)]
          BY <5>1
        <5>3. f \in Frame
          BY <1>2, <2>6
        <5>4. frames'[1] \in Frame /\ frames'[1].type = f.type
          BY <5>2, <5>3 DEF Frame
        <5>5. QED
          BY <5>2, <5>4
      <4>3. QED
        BY <2>3, <4>1, <4>2
    <3>2. f.type = dispatch_type
      BY <2>6 DEF SingleDispatch
    <3>3. CASE dispatch_invalid'
      BY <2>2, <3>1, <3>2, <3>3 DEF SingleDispatch
    <3>4. CASE ~dispatch_invalid'
      <4>1. ~dispatch_invalid /\ f.type # t
        BY <2>6, <3>2, <3>4
      <4>2. f \in Frame /\ f.type \in Types
        BY <1>2, <2>6
      <4>3. frames'[1] = f
        BY <3>1, <4>1, <4>2 DEF Frame
      <4>4. listener_map'[f.type] = listener_map[f.type]
        BY <2>2, <4>1, <4>2
      <4>5. ~f.stale /\ HalfWay(f, listener_map[f.type])
        BY <2>6, <4>1 DEF SingleDispatch
      <4>6. QED
        BY <2>2, <3>1, <3>2, <4>3, <4>4, <4>5 DEF SingleDispatch
    <3>5. QED
      BY <3>3, <3>4
  <2>7. QED
    BY <2>2, <2>4, <2>5, <2>6
<1>6. ASSUME NEW e \in Events,
             Queue(e) \/ SignalQueue(e) \/ Dequeue(e) \/ DequeueAll(e) \/ Release(e)
      PROVE  SingleDispatch'
  BY <1>3, <1>6 DEF Queue, SignalQueue, Dequeue, DequeueAll, Release
<1>7. ASSUME NEW t \in Types, Dispatch(t) PROVE SingleDispatch'
  <2>1. frames = <<>>
    BY <1>1, <1>7 DEF Dispatch
  <2>2. QED
    BY <1>7, <2>1, SingleBegin DEF Dispatch, IInv
<1>8. CASE CallListener
  BY <1>8, SingleCall
<1>9. CASE EraseNull
  BY <1>9, SingleErase
<1>10. ASSUME NEW handled \in BOOLEAN, HandlerReturn(handled) PROVE SingleDispatch'
  <2> DEFINE f == [frames[1] EXCEPT !.running = None, !.handled = handled]
  <2>1. /\ frames # <<>> /\ frames' = [frames EXCEPT ![1] = f]
        /\ UNCHANGED <<listener_map, dispatch_type, dispatch_invalid>>
    BY <1>2, <1>10 DEF HandlerReturn
  <2>2. /\ f \in Frame
        /\ f.type = frames[1].type /\ f.next = frames[1].next
        /\ f.stale = frames[1].stale /\ f.called = frames[1].called
    BY <1>2, <2>1 DEF Frame
  <2> HIDE DEF f
  <2>3. QED
    BY <2>1, <2>2, SingleSame
<1>11. CASE EndDispatch
  <2>1. frames # <<>> /\ frames' = Front(frames)
    BY <1>11 DEF EndDispatch
  <2>2. Len(frames) - 1 = 0 /\ frames' = SubSeq(frames, 1, Len(frames) - 1)
    BY <1>2, <2>1 DEF Front
  <2>3. frames' = <<>>
    BY <1>1, <2>2
  <2>4. QED
    BY <2>3 DEF SingleDispatch
<1>12. CASE ExecuteBegin \/ ExecutePop \/ ExecuteEnd \/ Tick
  BY <1>3, <1>12 DEF ExecuteBegin, ExecutePop, ExecuteEnd, Tick
<1>13. CASE ExecuteDispatch
  <2> DEFINE e == Head(event_queue[active_queue])
  <2>1. frames = <<>> /\ BeginDispatch(TypeOf[e], e) /\ UNCHANGED lists
    BY <1>13 DEF ExecuteDispatch, IInv, PlaceOK
  <2>2. event_queue[active_queue] \in Seq(Events) /\ event_queue[active_queue] # <<>>
    BY <1>13 DEF ExecuteDispatch, IInv, QueuesOK
  <2>3. TypeOf[e] \in Types
    BY <2>2, TailFacts, ManagerAssumption
  <2> HIDE DEF e
  <2>4. QED
    BY <2>1, <2>3, SingleBegin DEF IInv
<1>14. QED
  BY <1>4, <1>5, <1>6, <1>7, <1>8, <1>9, <1>10, <1>11, <1>12, <1>13
     DEF Next, Client, Manager

(* As long as no listener dispatches an event itself, dispatch() never     *)
(* follows a dangling iterator, whatever the listeners connect and         *)
(* disconnect.                                                             *)
LEMMA SingleInvariance == ASSUME MaxDepth = 1 PROVE Spec => [](IInv /\ SingleDispatch)
<1>1. Init => SingleDispatch
  BY DEF Init, SingleDispatch
<1>2. IInv /\ SingleDispatch /\ IInv' /\ [Next]_vars => SingleDispatch'
  <2>1. SingleDispatch /\ UNCHANGED vars => SingleDispatch'
    BY DEF SingleDispatch, HalfWay, vars, lists, control
  <2>2. QED
    BY <2>1, SingleStep
<1>3. QED
  BY <1>1, <1>2, Invariance, PTL DEF Spec

(* Without nested dispatches the iterator of dispatch() always points into *)
(* the list it walks or at its end, whoever (dis)connects on the way, ...  *)
THEOREM SingleDispatchIterator == ASSUME MaxDepth = 1 PROVE Spec => []IteratorValid
<1>1. IInv /\ SingleDispatch => IteratorValid
  <2>1. SUFFICES ASSUME IInv, SingleDispatch, Looping PROVE ~top.stale
    BY DEF IteratorValid
  <2>2. Len(frames) = 1 /\ frames \in Seq(Frame) /\ frames # <<>> /\ ~dispatch_invalid
    BY <2>1, OneFrame DEF IInv, ListsOK, SingleDispatch, Looping
  <2>3. top = frames[1]
    BY <2>2, OneFrame
  <2>4. QED
    BY <2>1, <2>2, <2>3 DEF SingleDispatch
<1>2. QED
  BY <1>1, SingleInvariance, PTL

LEMMA SingleCalls == IInv /\ SingleDispatch => CalledAtMostOnce /\ EveryListenerHeard
<1>1. SUFFICES ASSUME IInv, SingleDispatch, frames # <<>>, ~dispatch_invalid
               PROVE  CalledAtMostOnce /\ EveryListenerHeard
  BY DEF CalledAtMostOnce, EveryListenerHeard, Looping
<1>2. Len(frames) = 1 /\ frames \in Seq(Frame)
  BY <1>1, OneFrame DEF IInv, ListsOK, SingleDispatch
<1>3. top = frames[1]
  BY <1>1, <1>2, OneFrame
<1>4. HalfWay(top, listener_map[top.type])
  BY <1>1, <1>3 DEF SingleDispatch
<1>5. CalledAtMostOnce
  <2>1. CASE top.next # None
    <3>1. PICK k \in DOMAIN listener_map[top.type] :
            /\ listener_map[top.type][k] = top.next
            /\ ~(k < k) => listener_map[top.type][k] \notin top.called
      BY <1>4, <2>1 DEF HalfWay
    <3>2. top \in Frame
      BY <1>2, <1>3
    <3>3. listener_map[top.type] \in Seq(Listeners)
      <4>1. top.type \in Types
        BY <3>2 DEF Frame
      <4>2. QED
        BY <1>1, <4>1 DEF IInv, ListsOK
    <3>4. ~(k < k)
      BY <3>3
    <3>5. QED
      BY <3>1, <3>4 DEF CalledAtMostOnce
  <2>2. QED
    BY <2>1 DEF CalledAtMostOnce, Looping
<1>6. EveryListenerHeard
  BY <1>4 DEF EveryListenerHeard, HalfWay
<1>7. QED
  BY <1>5, <1>6

(* ... and offers the event to each listener at most once, even to one     *)
(* that is disconnected and connected again meanwhile, and to all of them  *)
(* when none handles it and the listeners stay the same until it ends.     *)
THEOREM SingleDispatchOnce == ASSUME MaxDepth = 1 PROVE Spec => []EveryListenerOnce
<1>1. IInv /\ SingleDispatch => EveryListenerOnce
  BY SingleCalls DEF EveryListenerOnce
<1>2. QED
  BY <1>1, SingleInvariance, PTL

-----------------------------------------------------------------------------
(***************************************************************************)
(* The steps of a merge: t[n] of the first n events of the result are of   *)
(* older.                                                                  *)
(***************************************************************************)
Steps(older, younger, t) ==
  /\ t \in [0..Len(older) + Len(younger) -> Nat]
  /\ t[0] = 0
  /\ \A n \in 1..Len(older) + Len(younger) :
       t[n] = IF TakesOlder(older, younger, t[n - 1], n - 1 - t[n - 1])
              THEN t[n - 1] + 1 ELSE t[n - 1]
  /\ Merge(older, younger) =
       [n \in 1..Len(older) + Len(younger) |->
          IF t[n] > t[n - 1] THEN older[t[n]] ELSE younger[n - t[n]]]

LEMMA MergeSteps ==
  ASSUME NEW older, NEW younger, Len(older) \in Nat, Len(younger) \in Nat
  PROVE  \E t : Steps(older, younger, t)
<1> DEFINE m == Len(older) + Len(younger)
           Take(n, v) == IF TakesOlder(older, younger, v, n - 1 - v) THEN v + 1 ELSE v
           g == [n \in 1..m |-> [v \in Nat |-> Take(n, v)]]
           Rec(t) == t = [n \in 0..m |-> IF n = 0 THEN 0 ELSE Take(n, t[n - 1])]
           taken == CHOOSE t : Rec(t)
<1>1. m \in Nat
  OBVIOUS
<1>2. g \in [1..m -> [Nat -> Nat]]
  <2>1. \A n \in 1..m, v \in Nat : Take(n, v) \in Nat
    OBVIOUS
  <2> HIDE DEF Take
  <2>2. QED
    BY <2>1
<1>3. PICK t \in [0..m -> Nat] : t[0] = 0 /\ \A n \in 1..m : t[n] = g[n][t[n - 1]]
  <2> DEFINE D == Nat
             z == 0
  <2>1. z \in D /\ m \in Nat /\ g \in [1..m -> [D -> D]]
    BY <1>1, <1>2
  <2> HIDE DEF g, m, D, z
  <2>2. \E t \in [0..m -> D] : t[0] = z /\ \A n \in 1..m : t[n] = g[n][t[n - 1]]
    BY ONLY <2>1, Recursion
  <2>3. QED
    BY <2>2 DEF D, z
<1>4. Rec(t)
  <2> HIDE DEF Take, m
  <2>1. ASSUME NEW n \in 0..m PROVE t[n] = IF n = 0 THEN 0 ELSE Take(n, t[n - 1])
    <3>1. CASE n = 0
      BY <1>3, <3>1
    <3>2. CASE n # 0
      <4>1. n \in 1..m /\ n - 1 \in 0..m
        BY <1>1, <3>2
      <4>2. QED
        BY <1>3, <3>2, <4>1
    <3>3. QED
      BY <3>1, <3>2
  <2>2. QED
    BY <1>3, <2>1
<1>5. Rec(taken)
  <2>1. \E x : Rec(x)
    BY <1>4
  <2> HIDE DEF Rec
  <2>2. QED
    BY <2>1
<1>6. Merge(older, younger) =
        [n \in 1..m |-> IF taken[n] > taken[n - 1] THEN older[taken[n]] ELSE younger[n - taken[n]]]
  BY DEF Merge
<1>7. Steps(older, younger, taken)
  <2> HIDE DEF taken
  <2>1. taken[0] = 0
    BY <1>1, <1>5
  <2>2. \A n \in 1..m : taken[n] = Take(n, taken[n - 1])
    <3>1. \A n \in 1..m : n \in 0..m /\ n # 0
      BY <1>1
    <3> HIDE DEF Take, m
    <3>2. QED
      BY <1>5, <3>1
  <2>3. \A n \in 0..m : taken[n] \in Nat
    <3> DEFINE G == {n \in 0..m : taken[n] \in Nat}
    <3>1. 0 \in G
      BY <1>1, <2>1
    <3>2. ASSUME NEW n \in 1..m, n - 1 \in G PROVE n \in G
      BY <1>1, <2>2, <3>2
    <3>3. G = 0..m
      <4>1. G \in SUBSET (0..m)
        OBVIOUS
      <4> HIDE DEF G, m
      <4>2. QED
        BY <1>1, <3>1, <3>2, <4>1, UpTo
    <3>4. QED
      BY <3>3
  <2>4. taken \in [0..m -> Nat]
    <3> HIDE DEF Take, m
    <3>1. taken = [n \in 0..m |-> taken[n]]
      BY <1>5
    <3>2. QED
      BY <2>3, <3>1
  <2>5. QED
    BY <1>6, <2>1, <2>2, <2>4 DEF Steps
<1>8. QED
  BY <1>7

(* What goes from below k to k or more in a step of one is k then. *)
LEMMA ByOne ==
  \A n, k, x \in Nat :
    n - x >= k /\ ~(n - 1 - x >= k) => n - x = k
  OBVIOUS

LEMMA StepsFacts ==
  ASSUME NEW older, NEW younger, Len(older) \in Nat, Len(younger) \in Nat,
         NEW t, Steps(older, younger, t)
  PROVE  LET m == Len(older) + Len(younger)
         IN  /\ \A n \in 0..m : /\ t[n] \in 0..Len(older)
                                /\ n - t[n] \in 0..Len(younger)
             /\ \A n, k \in 0..m : n <= k => t[n] <= t[k] /\ n - t[n] <= k - t[k]
<1> DEFINE m == Len(older) + Len(younger)
           G == {n \in 0..m : t[n] \in 0..Len(older) /\ n - t[n] \in 0..Len(younger)}
<1>1. /\ m \in Nat /\ t[0] = 0
      /\ \A n \in 0..m : t[n] \in Nat
      /\ \A n \in 1..m : t[n] = IF TakesOlder(older, younger, t[n - 1], n - 1 - t[n - 1])
                                THEN t[n - 1] + 1 ELSE t[n - 1]
  <2>1. t \in [0..m -> Nat] /\ m \in Nat
    BY DEF Steps
  <2>2. \A n \in 0..m : t[n] \in Nat
    <3> HIDE DEF m
    <3>1. QED
      BY <2>1
  <2>3. QED
    BY <2>1, <2>2 DEF Steps
<1>2. 0 \in G
  BY <1>1
<1>3. ASSUME NEW n \in 1..m, n - 1 \in G PROVE n \in G
  <2>1. CASE TakesOlder(older, younger, t[n - 1], n - 1 - t[n - 1])
    <3>1. t[n - 1] < Len(older)
      BY <2>1 DEF TakesOlder
    <3>2. t[n] = t[n - 1] + 1
      BY <1>1, <2>1
    <3>3. QED
      BY <1>1, <1>3, <3>1, <3>2
  <2>2. CASE ~TakesOlder(older, younger, t[n - 1], n - 1 - t[n - 1])
    <3>1. t[n] = t[n - 1]
      BY <1>1, <2>2
    <3>2. t[n - 1] < Len(older) => n - 1 - t[n - 1] < Len(younger)
      BY <2>2 DEF TakesOlder
    <3>3. QED
      BY <1>1, <1>3, <3>1, <3>2
  <2>3. QED
    BY <2>1, <2>2
<1>4. G = 0..m
  <2>1. G \in SUBSET (0..m)
    OBVIOUS
  <2> HIDE DEF G, m
  <2>2. QED
    BY <1>1, <1>2, <1>3, <2>1, UpTo
<1>5. ASSUME NEW n \in 0..m, NEW k \in 0..m, n <= k
      PROVE  t[n] <= t[k] /\ n - t[n] <= k - t[k]
  <2> DEFINE Ok(l) == t[n] <= t[l] /\ n - t[n] <= l - t[l]
             d == m - n
             H == {i \in 0..d : \A l \in 0..m : l = n + i => Ok(l)}
  <2>1. d \in Nat /\ 0 \in H
    BY <1>1
  <2>2. ASSUME NEW i \in 1..d, i - 1 \in H PROVE i \in H
    <3>1. SUFFICES ASSUME NEW l \in 0..m, l = n + i PROVE Ok(l)
      OBVIOUS
    <3>2. l \in 1..m /\ l - 1 \in 0..m /\ l - 1 = n + (i - 1) /\ n \in Nat
      BY <1>1, <3>1
    <3>3. Ok(l - 1)
      <4> HIDE DEF Ok, m, d
      <4>1. QED
        BY <2>2, <3>2
    <3>4. t[l] = t[l - 1] + 1 \/ t[l] = t[l - 1]
      BY <1>1, <3>2
    <3>5. PICK x, y, z, u \in Nat : x = t[n] /\ y = t[l - 1] /\ z = t[l] /\ u = l
      <4>1. t[n] \in Nat /\ t[l - 1] \in Nat /\ t[l] \in Nat /\ l \in Nat
        BY <1>1, <3>2
      <4>2. QED
        BY <4>1
    <3>6. z = y + 1 \/ z = y
      BY <3>4, <3>5
    <3>7. x <= y /\ n - x <= u - 1 - y
      BY <3>3, <3>5
    <3>8. x <= z /\ n - x <= u - z
      BY <3>2, <3>6, <3>7
    <3>9. QED
      BY <3>5, <3>8
  <2>3. H = 0..d
    <3>1. H \in SUBSET (0..d)
      OBVIOUS
    <3> HIDE DEF H, d
    <3>2. QED
      BY <2>1, <2>2, <3>1, UpTo
  <2>4. k - n \in 0..d /\ k = n + (k - n)
    BY <1>5
  <2>5. k - n \in H
    <3> HIDE DEF H, d
    <3>1. QED
      BY <2>3, <2>4
  <2>6. QED
    BY <2>4, <2>5
<1>6. QED
  BY <1>4, <1>5

(***************************************************************************)
(* A merge holds the events of both runs; each event but the first follows *)
(* the event it followed in its run, or one of the other run that the      *)
(* comparison let go first.                                                *)
(***************************************************************************)
Adjoin(older, younger, e, f) ==
  \/ \E i \in 1..Len(older) - 1 : e = older[i] /\ f = older[i + 1]
  \/ \E i \in 1..Len(younger) - 1 : e = younger[i] /\ f = younger[i + 1]
  \/ e \in ToSet(older) /\ f \in ToSet(younger) /\ ~SortEvent(f, e)
  \/ e \in ToSet(younger) /\ f \in ToSet(older) /\ SortEvent(e, f)

LEMMA MergeFacts ==
  ASSUME NEW S, NEW older \in Seq(S), NEW younger \in Seq(S)
  PROVE  LET s == Merge(older, younger)
         IN  /\ s \in Seq(S)
             /\ ToSet(s) = ToSet(older) \cup ToSet(younger)
             /\ \A n \in 1..Len(s) - 1 : Adjoin(older, younger, s[n], s[n + 1])
             /\ (/\ IsInjective(older) /\ IsInjective(younger)
                 /\ ToSet(older) \cap ToSet(younger) = {}) => IsInjective(s)
<1> DEFINE a == Len(older)
           b == Len(younger)
           m == a + b
           s == Merge(older, younger)
<1>1. /\ a \in Nat /\ b \in Nat /\ m \in Nat
      /\ DOMAIN older = 1..a /\ DOMAIN younger = 1..b
      /\ \A i \in 1..a : older[i] \in S /\ older[i] \in ToSet(older)
      /\ \A i \in 1..b : younger[i] \in S /\ younger[i] \in ToSet(younger)
  BY DEF ToSet
<1>2. PICK t : /\ Steps(older, younger, t)
               /\ s = [n \in 1..m |-> IF t[n] > t[n - 1] THEN older[t[n]] ELSE younger[n - t[n]]]
  <2>1. Len(older) \in Nat /\ Len(younger) \in Nat
    BY <1>1
  <2>2. PICK t : Steps(older, younger, t)
    BY ONLY <2>1, MergeSteps
  <2>3. QED
    BY <2>2 DEF Steps
<1>3. /\ \A n \in 0..m : t[n] \in 0..a /\ n - t[n] \in 0..b
      /\ \A n, k \in 0..m : n <= k => t[n] <= t[k] /\ n - t[n] <= k - t[k]
      /\ t[0] = 0
      /\ \A n \in 1..m : t[n] = IF TakesOlder(older, younger, t[n - 1], n - 1 - t[n - 1])
                                THEN t[n - 1] + 1 ELSE t[n - 1]
  BY <1>1, <1>2, StepsFacts DEF Steps
<1> HIDE DEF s
<1>4. ASSUME NEW n \in 1..m
      PROVE  /\ n - 1 \in 0..m /\ n \in 0..m
             /\ t[n - 1] \in Nat /\ t[n] \in Nat
             /\ TakesOlder(older, younger, t[n - 1], n - 1 - t[n - 1]) =>
                  t[n] = t[n - 1] + 1 /\ t[n] \in 1..a /\ s[n] = older[t[n]]
             /\ ~TakesOlder(older, younger, t[n - 1], n - 1 - t[n - 1]) =>
                  t[n] = t[n - 1] /\ n - t[n] \in 1..b /\ s[n] = younger[n - t[n]]
  <2>1. n - 1 \in 0..m /\ n \in 0..m
    BY <1>1
  <2>2. /\ t[n - 1] \in 0..a /\ n - 1 - t[n - 1] \in 0..b
        /\ t[n] \in 0..a /\ n - t[n] \in 0..b
    BY <1>3, <2>1
  <2>3. s[n] = IF t[n] > t[n - 1] THEN older[t[n]] ELSE younger[n - t[n]]
    BY <1>2
  <2>4. t[n] = IF TakesOlder(older, younger, t[n - 1], n - 1 - t[n - 1])
               THEN t[n - 1] + 1 ELSE t[n - 1]
    BY <1>3
  <2> HIDE DEF a, b, m
  <2>5. QED
    BY <1>1, <2>1, <2>2, <2>3, <2>4
<1> DEFINE Old(n) == TakesOlder(older, younger, t[n - 1], n - 1 - t[n - 1])
<1>5. s \in Seq(S) /\ Len(s) = m /\ DOMAIN s = 1..m
  <2>1. \A n \in 1..m : s[n] \in S
    <3> HIDE DEF a, b, m
    <3>1. QED
      BY <1>1, <1>4
  <2>2. DOMAIN s = 1..m /\ s = [n \in 1..m |-> s[n]]
    BY <1>2
  <2> HIDE DEF a, b, m
  <2>3. s \in [1..m -> S]
    BY <2>1, <2>2
  <2>4. QED
    BY <1>1, <2>3
<1>6. ToSet(s) \subseteq ToSet(older) \cup ToSet(younger)
  <2>1. \A n \in 1..m : s[n] \in ToSet(older) \cup ToSet(younger)
    <3> HIDE DEF a, b, m
    <3>1. QED
      BY <1>1, <1>4
  <2> HIDE DEF a, b, m
  <2>2. QED
    BY <1>5, <2>1 DEF ToSet
<1>7. ASSUME NEW k \in 1..a PROVE older[k] \in ToSet(s)
  <2> DEFINE B == {n \in 0..m : t[n] >= k}
  <2>1. m \in B
    BY <1>1, <1>3
  <2>2. PICK n \in B : \A l \in B : n <= l
    <3> HIDE DEF B
    <3>1. B \in SUBSET Nat
      BY DEF B
    <3>2. QED
      BY <2>1, <3>1, Smallest
  <2>3. n \in 1..m /\ t[n] >= k
    BY <1>1, <1>3, <2>2
  <2>4. ~(t[n - 1] >= k)
    BY <1>4, <2>2, <2>3
  <2>5. t[n] = k /\ s[n] = older[k]
    <3> HIDE DEF a, b, m
    <3>1. k \in Nat
      BY <1>1
    <3>2. QED
      BY <1>4, <2>3, <2>4, <3>1
  <2>6. QED
    BY <1>5, <2>3, <2>5 DEF ToSet
<1>8. ASSUME NEW k \in 1..b PROVE younger[k] \in ToSet(s)
  <2> DEFINE B == {n \in 0..m : n - t[n] >= k}
  <2>1. m \in B
    BY <1>1, <1>3
  <2>2. PICK n \in B : \A l \in B : n <= l
    <3> HIDE DEF B
    <3>1. B \in SUBSET Nat
      BY DEF B
    <3>2. QED
      BY <2>1, <3>1, Smallest
  <2>3. n \in 1..m /\ n - t[n] >= k
    BY <1>1, <1>3, <2>2
  <2>4. ~(n - 1 - t[n - 1] >= k)
    BY <1>4, <2>2, <2>3
  <2>5. n - t[n] = k /\ s[n] = younger[k]
    <3> HIDE DEF a, b, m
    <3>1. k \in Nat /\ n \in Nat /\ t[n] \in Nat /\ t[n - 1] \in Nat
      BY <1>1, <1>4, <2>3
    <3>2. ~TakesOlder(older, younger, t[n - 1], n - 1 - t[n - 1])
      BY <1>4, <2>3, <2>4, <3>1
    <3>3. t[n] = t[n - 1] /\ s[n] = younger[n - t[n]]
      BY <1>4, <2>3, <3>2
    <3>4. n - t[n] = k
      <4>1. n - t[n] >= k /\ ~(n - 1 - t[n] >= k)
        BY <2>3, <2>4, <3>3
      <4>2. QED
        BY ONLY <3>1, <4>1, ByOne
    <3>5. QED
      BY <3>3, <3>4
  <2>6. QED
    BY <1>5, <2>3, <2>5 DEF ToSet
<1>9. ToSet(s) = ToSet(older) \cup ToSet(younger)
  <2> HIDE DEF a, b, m
  <2>1. ToSet(older) \subseteq ToSet(s)
    BY <1>1, <1>7 DEF ToSet
  <2>2. ToSet(younger) \subseteq ToSet(s)
    BY <1>1, <1>8 DEF ToSet
  <2>3. QED
    BY <1>6, <2>1, <2>2
<1>10. ASSUME NEW n \in 1..m - 1 PROVE Adjoin(older, younger, s[n], s[n + 1])
  <2>1. n \in 1..m /\ n + 1 \in 1..m /\ n + 1 - 1 = n
    BY <1>1
  <2>2. /\ t[n - 1] \in Nat /\ t[n] \in Nat /\ t[n + 1] \in Nat
        /\ Old(n) => t[n] = t[n - 1] + 1 /\ t[n] \in 1..a /\ s[n] = older[t[n]]
        /\ ~Old(n) => t[n] = t[n - 1] /\ n - t[n] \in 1..b /\ s[n] = younger[n - t[n]]
    BY <1>4, <2>1
  <2>3. /\ Old(n + 1) => t[n + 1] = t[n] + 1 /\ t[n + 1] \in 1..a /\ s[n + 1] = older[t[n + 1]]
        /\ ~Old(n + 1) => /\ t[n + 1] = t[n] /\ n + 1 - t[n + 1] \in 1..b
                          /\ s[n + 1] = younger[n + 1 - t[n + 1]]
    <3>1. PICK k \in 1..m : k = n + 1
      BY <2>1
    <3>2. k - 1 = n
      BY <3>1
    <3>3. /\ t[k] \in Nat
          /\ Old(k) => t[k] = t[k - 1] + 1 /\ t[k] \in 1..a /\ s[k] = older[t[k]]
          /\ ~Old(k) => t[k] = t[k - 1] /\ k - t[k] \in 1..b /\ s[k] = younger[k - t[k]]
      BY <1>4
    <3> HIDE DEF Old
    <3>4. QED
      BY <3>1, <3>2, <3>3
  <2>4. Old(n) <=> /\ t[n - 1] < a
                   /\ n - 1 - t[n - 1] < b =>
                        ~SortEvent(younger[n - 1 - t[n - 1] + 1], older[t[n - 1] + 1])
    BY DEF TakesOlder
  <2> HIDE DEF Old, a, b, m
  <2>5. CASE Old(n) /\ Old(n + 1)
    <3> DEFINE i == t[n]
    <3>1. i \in 1..a - 1 /\ s[n] = older[i] /\ s[n + 1] = older[i + 1]
      BY <1>1, <2>2, <2>3, <2>5
    <3> HIDE DEF i
    <3>2. QED
      BY <3>1 DEF Adjoin, a
  <2>6. CASE ~Old(n) /\ ~Old(n + 1)
    <3> DEFINE i == n - t[n]
    <3>1. i \in 1..b - 1 /\ s[n] = younger[i] /\ s[n + 1] = younger[i + 1]
      <4>1. n + 1 - t[n] = n - t[n] + 1
        BY <2>1, <2>2
      <4>2. QED
        BY <1>1, <2>1, <2>2, <2>3, <2>6, <4>1
    <3> HIDE DEF i
    <3>2. QED
      BY <3>1 DEF Adjoin, b
  <2>7. CASE Old(n) /\ ~Old(n + 1)
    <3>1. n - 1 - t[n - 1] + 1 = n + 1 - t[n + 1] /\ t[n - 1] + 1 = t[n]
      BY <2>1, <2>2, <2>3, <2>7
    <3>2. n - 1 - t[n - 1] < b
      BY <1>1, <2>1, <2>2, <2>3, <2>7, <3>1
    <3>3. ~SortEvent(s[n + 1], s[n])
      BY <2>2, <2>3, <2>4, <2>7, <3>1, <3>2
    <3>4. s[n] \in ToSet(older) /\ s[n + 1] \in ToSet(younger)
      BY <1>1, <2>2, <2>3, <2>7
    <3>5. QED
      BY <3>3, <3>4 DEF Adjoin
  <2>8. CASE ~Old(n) /\ Old(n + 1)
    <3>1. n - 1 - t[n - 1] + 1 = n - t[n] /\ t[n - 1] + 1 = t[n + 1]
      BY <2>1, <2>2, <2>3, <2>8
    <3>2. t[n - 1] < a
      BY <1>1, <2>1, <2>2, <2>3, <2>8, <3>1
    <3>3. SortEvent(s[n], s[n + 1])
      BY <2>2, <2>3, <2>4, <2>8, <3>1, <3>2
    <3>4. s[n] \in ToSet(younger) /\ s[n + 1] \in ToSet(older)
      BY <1>1, <2>2, <2>3, <2>8
    <3>5. QED
      BY <3>3, <3>4 DEF Adjoin
  <2>9. QED
    BY <2>5, <2>6, <2>7, <2>8
<1>11. ASSUME IsInjective(older), IsInjective(younger), ToSet(older) \cap ToSet(younger) = {}
       PROVE  IsInjective(s)
  <2>1. SUFFICES ASSUME NEW n \in 1..m, NEW k \in 1..m, n < k PROVE s[n] # s[k]
    <3> HIDE DEF a, b, m
    <3>1. \A n, k \in 1..m : n < k \/ n = k \/ k < n
      BY <1>1
    <3>2. QED
      BY <1>5, <3>1 DEF IsInjective
  <2>2. /\ n \in 0..m /\ k - 1 \in 0..m /\ k \in 0..m /\ n <= k - 1
    BY <1>1, <2>1
  <2>3. /\ t[n] <= t[k - 1] /\ n - t[n] <= k - 1 - t[k - 1]
        /\ t[n] \in Nat /\ t[k - 1] \in Nat /\ t[k] \in Nat
    BY <1>3, <1>4, <2>2
  <2>4. /\ Old(n) => t[n] \in 1..a /\ s[n] = older[t[n]]
        /\ ~Old(n) => n - t[n] \in 1..b /\ s[n] = younger[n - t[n]]
    BY <1>4
  <2>5. /\ Old(k) => t[k] = t[k - 1] + 1 /\ t[k] \in 1..a /\ s[k] = older[t[k]]
        /\ ~Old(k) => t[k] = t[k - 1] /\ k - t[k] \in 1..b /\ s[k] = younger[k - t[k]]
    BY <1>4
  <2> HIDE DEF Old, a, b, m
  <2>6. CASE Old(n) /\ Old(k)
    <3>1. t[n] # t[k]
      BY <2>3, <2>5, <2>6
    <3>2. QED
      BY <1>1, <1>11, <2>4, <2>5, <2>6, <3>1 DEF IsInjective
  <2>7. CASE ~Old(n) /\ ~Old(k)
    <3>1. n - t[n] # k - t[k]
      BY <2>2, <2>3, <2>5, <2>7
    <3>2. QED
      BY <1>1, <1>11, <2>4, <2>5, <2>7, <3>1 DEF IsInjective
  <2>8. CASE Old(n) /\ ~Old(k)
    BY <1>1, <1>11, <2>4, <2>5, <2>8
  <2>9. CASE ~Old(n) /\ Old(k)
    BY <1>1, <1>11, <2>4, <2>5, <2>9
  <2>10. QED
    BY <2>6, <2>7, <2>8, <2>9
<1>12. QED
  BY <1>5, <1>9, <1>10, <1>11 DEF s

(* m[n] is the first run with n others merged into it. *)
Joins(S, first, runs, m) ==
  /\ m \in [0..Len(runs) -> Seq(S)]
  /\ m[0] = first
  /\ \A n \in 1..Len(runs) : m[n] = Merge(runs[n], m[n - 1])
  /\ MergeAll(first, runs) = m[Len(runs)]

LEMMA MergeAllSteps ==
  ASSUME NEW S, NEW first, NEW runs, first \in Seq(S), runs \in Seq(Seq(S))
  PROVE  MergeAll(first, runs) \in Seq(S) /\ \E m : Joins(S, first, runs, m)
<1> DEFINE D == Seq(S)
           l == Len(runs)
           g == [n \in 1..l |-> [v \in D |-> Merge(runs[n], v)]]
           Rec(f) == f = [n \in 0..l |-> IF n = 0 THEN first ELSE Merge(runs[n], f[n - 1])]
           m == CHOOSE f : Rec(f)
<1>1. l \in Nat /\ first \in D /\ \A n \in 1..l : runs[n] \in D
  OBVIOUS
<1>2. \A u, v \in D : Merge(u, v) \in D
  BY MergeFacts
<1> HIDE DEF D, l
<1>3. PICK f \in [0..l -> D] : f[0] = first /\ \A n \in 1..l : f[n] = g[n][f[n - 1]]
  <2>1. g \in [1..l -> [D -> D]]
    BY <1>1, <1>2
  <2> HIDE DEF g
  <2>2. l \in Nat /\ first \in D
    BY <1>1
  <2>3. QED
    BY ONLY <2>1, <2>2, Recursion
<1>4. Rec(f)
  <2>1. ASSUME NEW n \in 0..l PROVE f[n] = IF n = 0 THEN first ELSE Merge(runs[n], f[n - 1])
    <3>1. CASE n = 0
      BY <1>3, <3>1
    <3>2. CASE n # 0
      <4>1. n \in 1..l /\ n - 1 \in 0..l
        BY <1>1, <3>2
      <4>2. QED
        BY <1>3, <3>2, <4>1
    <3>3. QED
      BY <3>1, <3>2
  <2>2. QED
    BY <1>3, <2>1
<1>5. Rec(m)
  <2>1. \E h : Rec(h)
    BY <1>4
  <2> HIDE DEF Rec
  <2>2. QED
    BY <2>1
<1>6. MergeAll(first, runs) = m[l]
  BY DEF MergeAll, l
<1> HIDE DEF m
<1>7. m[0] = first
  BY <1>1, <1>5
<1>8. \A n \in 1..l : m[n] = Merge(runs[n], m[n - 1])
  <2>1. \A n \in 1..l : n \in 0..l /\ n # 0
    BY <1>1
  <2>2. QED
    BY <1>5, <2>1
<1>9. m \in [0..l -> D]
  <2> DEFINE G == {n \in 0..l : m[n] \in D}
  <2>1. 0 \in G
    BY <1>1, <1>7
  <2>2. ASSUME NEW n \in 1..l, n - 1 \in G PROVE n \in G
    BY <1>1, <1>2, <1>8, <2>2
  <2>3. G = 0..l
    <3>1. G \in SUBSET (0..l)
      OBVIOUS
    <3> HIDE DEF G
    <3>2. QED
      BY <1>1, <2>1, <2>2, <3>1, UpTo
  <2>4. m = [n \in 0..l |-> m[n]]
    BY <1>5
  <2>5. QED
    BY <2>3, <2>4
<1>10. Joins(S, first, runs, m)
  BY <1>6, <1>7, <1>8, <1>9 DEF D, l, Joins
<1>11. MergeAll(first, runs) \in D
  BY <1>1, <1>6, <1>9
<1>12. QED
  BY <1>10, <1>11 DEF D

LEMMA PrefixFacts ==
  ASSUME NEW D, NEW s \in Seq(D), NEW n \in 0..Len(s)
  PROVE  /\ SubSeq(s, 1, n) \in Seq(D)
         /\ Len(SubSeq(s, 1, n)) = n
         /\ \A i \in 1..n : SubSeq(s, 1, n)[i] = s[i]
  OBVIOUS

(* The carry of x ends at run k: it and the shorter runs become one. *)
EndsAt(runs, x, c, k) ==
  /\ k \in 1..Len(runs) + 1
  /\ k = Len(runs) + 1 \/ runs[k] = <<>>
  /\ Len(c) = IF k > Len(runs) THEN k ELSE Len(runs)
  /\ \A i \in 1..k - 1 : c[i] = <<>>
  /\ c[k] = MergeAll(<<x>>, SubSeq(runs, 1, k - 1))
  /\ \A i \in k + 1..Len(runs) : c[i] = runs[i]

LEMMA CarrySteps ==
  ASSUME NEW S, NEW runs, NEW x, runs \in Seq(Seq(S)), x \in S
  PROVE  /\ Carry(runs, x) \in Seq(Seq(S))
         /\ \E k : EndsAt(runs, x, Carry(runs, x), k)
<1> DEFINE D == Seq(S)
           l == Len(runs)
           Free(i) == i = l + 1 \/ runs[i] = <<>>
           k == CHOOSE i \in 1..l + 1 : Free(i) /\ \A j \in 1..i - 1 : runs[j] # <<>>
           high == IF k > l THEN k ELSE l
           joined == MergeAll(<<x>>, SubSeq(runs, 1, k - 1))
           c == Carry(runs, x)
<1>1. l \in Nat /\ <<>> \in D /\ <<x>> \in D /\ \A n \in 1..l : runs[n] \in D
  OBVIOUS
<1>2. k \in 1..l + 1 /\ Free(k)
  <2> DEFINE B == {i \in 1..l + 1 : Free(i)}
  <2>1. l + 1 \in B
    BY <1>1
  <2>2. PICK i \in B : \A j \in B : i <= j
    <3>1. B \in SUBSET Nat
      OBVIOUS
    <3> HIDE DEF B
    <3>2. QED
      BY <2>1, <3>1, Smallest
  <2>3. i \in 1..l + 1 /\ Free(i) /\ \A j \in 1..i - 1 : j \in 1..l + 1 /\ ~(i <= j)
    BY <1>1, <2>2
  <2>4. \A j \in 1..i - 1 : runs[j] # <<>>
    BY <2>2, <2>3
  <2> HIDE DEF Free, l
  <2>5. QED
    BY <2>3, <2>4
<1>3. c = [i \in 1..high |-> IF i < k THEN <<>> ELSE IF i = k THEN joined ELSE runs[i]]
  BY DEF Carry
<1> HIDE DEF c, k
<1>4. joined \in D
  <2>1. k - 1 \in 0..l
    BY <1>1, <1>2
  <2>2. SubSeq(runs, 1, k - 1) \in Seq(D)
    BY <2>1, PrefixFacts
  <2>3. QED
    <3>1. PICK f, p : f = <<x>> /\ p = SubSeq(runs, 1, k - 1)
      OBVIOUS
    <3>2. f \in Seq(S) /\ p \in Seq(Seq(S))
      BY <1>1, <2>2, <3>1
    <3>3. MergeAll(f, p) \in Seq(S)
      BY ONLY <3>2, MergeAllSteps
    <3>4. QED
      BY <3>1, <3>3
<1>5. high \in Nat /\ k \in 1..high /\ l <= high
  BY <1>1, <1>2
<1> HIDE DEF joined, high, D, l
<1>6. ASSUME NEW i \in 1..high PROVE c[i] \in D
  <2>1. i > k => i \in 1..l
    BY <1>1, <1>2 DEF high
  <2>2. QED
    BY <1>1, <1>2, <1>3, <1>4, <1>5, <2>1
<1>7. c \in Seq(D) /\ Len(c) = high
  <2>1. DOMAIN c = 1..high /\ c = [i \in 1..high |-> c[i]]
    BY <1>3
  <2>2. c \in [1..high -> D]
    BY <1>6, <2>1
  <2>3. QED
    BY <1>5, <2>2
<1>8. /\ \A i \in 1..k - 1 : c[i] = <<>>
      /\ c[k] = joined
      /\ \A i \in k + 1..l : c[i] = runs[i]
  BY <1>1, <1>2, <1>3, <1>5
<1>9. EndsAt(runs, x, c, k)
  BY <1>2, <1>7, <1>8 DEF joined, high, l, EndsAt
<1>10. QED
  BY <1>7, <1>9 DEF c, D

(* r[n] are the runs when n elements have been taken off the list. *)
Grows(S, q, r) ==
  /\ r \in [0..Len(q) -> Seq(Seq(S))]
  /\ r[0] = <<>>
  /\ \A n \in 1..Len(q) : r[n] = Carry(r[n - 1], q[n])
  /\ Runs(q) = r[Len(q)]

LEMMA RunsSteps ==
  ASSUME NEW S, NEW q, q \in Seq(S)
  PROVE  \E r : Grows(S, q, r)
<1> DEFINE D == Seq(Seq(S))
           l == Len(q)
           g == [n \in 1..l |-> [v \in D |-> Carry(v, q[n])]]
           Rec(f) == f = [n \in 0..l |-> IF n = 0 THEN <<>> ELSE Carry(f[n - 1], q[n])]
           r == CHOOSE f : Rec(f)
<1>1. l \in Nat /\ <<>> \in D /\ \A n \in 1..l : q[n] \in S
  OBVIOUS
<1>2. \A v \in D, x \in S : Carry(v, x) \in D
  BY CarrySteps
<1> HIDE DEF D, l
<1>3. PICK f \in [0..l -> D] : f[0] = <<>> /\ \A n \in 1..l : f[n] = g[n][f[n - 1]]
  <2>1. g \in [1..l -> [D -> D]]
    BY <1>1, <1>2
  <2> HIDE DEF g
  <2>2. l \in Nat /\ <<>> \in D
    BY <1>1
  <2>3. QED
    BY ONLY <2>1, <2>2, Recursion
<1>4. Rec(f)
  <2>1. ASSUME NEW n \in 0..l PROVE f[n] = IF n = 0 THEN <<>> ELSE Carry(f[n - 1], q[n])
    <3>1. CASE n = 0
      BY <1>3, <3>1
    <3>2. CASE n # 0
      <4>1. n \in 1..l /\ n - 1 \in 0..l
        BY <1>1, <3>2
      <4>2. QED
        BY <1>3, <3>2, <4>1
    <3>3. QED
      BY <3>1, <3>2
  <2>2. QED
    BY <1>3, <2>1
<1>5. Rec(r)
  <2>1. \E h : Rec(h)
    BY <1>4
  <2> HIDE DEF Rec
  <2>2. QED
    BY <2>1
<1>6. Runs(q) = r[l]
  BY DEF Runs, l
<1> HIDE DEF r
<1>7. r[0] = <<>>
  BY <1>1, <1>5
<1>8. \A n \in 1..l : r[n] = Carry(r[n - 1], q[n])
  <2>1. \A n \in 1..l : n \in 0..l /\ n # 0
    BY <1>1
  <2>2. QED
    BY <1>5, <2>1
<1>9. r \in [0..l -> D]
  <2> DEFINE G == {n \in 0..l : r[n] \in D}
  <2>1. 0 \in G
    BY <1>1, <1>7
  <2>2. ASSUME NEW n \in 1..l, n - 1 \in G PROVE n \in G
    BY <1>1, <1>2, <1>8, <2>2
  <2>3. G = 0..l
    <3>1. G \in SUBSET (0..l)
      OBVIOUS
    <3> HIDE DEF G
    <3>2. QED
      BY <1>1, <2>1, <2>2, <3>1, UpTo
  <2>4. r = [n \in 0..l |-> r[n]]
    BY <1>5
  <2>5. QED
    BY <2>3, <2>4
<1>10. Grows(S, q, r)
  BY <1>6, <1>7, <1>8, <1>9 DEF D, l, Grows
<1>11. QED
  BY <1>10

(***************************************************************************)
(* The order.  A run of q is a list of events of q, each of which fits     *)
(* after the one it follows: MayFollow holds, and when q has no conflict,  *)
(* the two are in the order that execute() means.                          *)
(***************************************************************************)
Calm(q) == \A e, f \in ToSet(q) : ~Conflict(e, f)

Earlier(q, e, f) == \E i, j \in 1..Len(q) : i < j /\ q[i] = e /\ q[j] = f

Before(q, e, f) ==
  \/ Priority[e] > Priority[f]
  \/ /\ Priority[e] = Priority[f]
     /\ \/ TimeStamp[e] < TimeStamp[f]
        \/ TimeStamp[e] = TimeStamp[f] /\ Earlier(q, e, f)

Fits(q, e, f) == MayFollow(e, f) /\ (Calm(q) => Before(q, e, f))

Run(q, s) ==
  /\ s \in Seq(ToSet(q))
  /\ IsInjective(s)
  /\ \A n \in 1..Len(s) - 1 : Fits(q, s[n], s[n + 1])

Behind(q, older, younger) ==
  \A e \in ToSet(older), f \in ToSet(younger) : Earlier(q, e, f)

LEMMA OrderType ==
  ASSUME NEW e \in Events
  PROVE  Priority[e] \in Int /\ TimeStamp[e] \in Int
<1>1. Priority \in [Events -> Nat]
  <2>1. 0..255 \subseteq Nat
    OBVIOUS
  <2>2. QED
    BY <2>1, OrderAssumption
<1>2. QED
  BY <1>1, OrderAssumption

(* Whichever the comparison lets go first fits. *)
LEMMA ChoiceFits ==
  ASSUME NEW q, q \in Seq(Events), NEW e \in ToSet(q), NEW f \in ToSet(q)
  PROVE  /\ ~SortEvent(f, e) /\ Earlier(q, e, f) => Fits(q, e, f)
         /\ SortEvent(e, f) => Fits(q, e, f)
<1>1. e \in Events /\ f \in Events
  BY DEF ToSet
<1>2. /\ Priority[e] \in Int /\ TimeStamp[e] \in Int
      /\ Priority[f] \in Int /\ TimeStamp[f] \in Int
  BY <1>1, OrderType
<1>3. ASSUME ~SortEvent(f, e), Earlier(q, e, f) PROVE Fits(q, e, f)
  <2>1. Before(q, e, f)
    BY <1>2, <1>3 DEF Before, SortEvent
  <2>2. QED
    BY <1>3, <2>1 DEF Fits, MayFollow
<1>4. ASSUME SortEvent(e, f) PROVE Fits(q, e, f)
  <2>1. Calm(q) => ~SortEvent(f, e)
    BY <1>4 DEF Calm, Conflict
  <2>2. ~SortEvent(f, e) => Before(q, e, f)
    BY <1>2, <1>4 DEF Before, SortEvent
  <2>3. QED
    BY <1>4, <2>1, <2>2 DEF Fits, MayFollow
<1>5. QED
  BY <1>3, <1>4

(* Merging a run into one that is older gives a run. *)
LEMMA MergeRuns ==
  ASSUME NEW q, q \in Seq(Events), IsInjective(q), NEW older, NEW younger,
         Run(q, older), Run(q, younger), Behind(q, older, younger)
  PROVE  /\ Run(q, Merge(older, younger))
         /\ ToSet(Merge(older, younger)) = ToSet(older) \cup ToSet(younger)
<1> DEFINE s == Merge(older, younger)
<1>1. /\ older \in Seq(ToSet(q)) /\ IsInjective(older)
      /\ younger \in Seq(ToSet(q)) /\ IsInjective(younger)
  BY DEF Run
<1>2. ToSet(older) \cap ToSet(younger) = {}
  <2>1. SUFFICES ASSUME NEW e, e \in ToSet(older), e \in ToSet(younger) PROVE FALSE
    OBVIOUS
  <2>2. Earlier(q, e, e)
    BY <2>1 DEF Behind
  <2>3. DOMAIN q = 1..Len(q)
    OBVIOUS
  <2>4. QED
    BY <2>2, <2>3 DEF Earlier, IsInjective
<1>3. /\ s \in Seq(ToSet(q))
      /\ ToSet(s) = ToSet(older) \cup ToSet(younger)
      /\ \A n \in 1..Len(s) - 1 : Adjoin(older, younger, s[n], s[n + 1])
      /\ IsInjective(s)
  BY ONLY <1>1, <1>2, MergeFacts
<1>4. ASSUME NEW e, NEW f, Adjoin(older, younger, e, f) PROVE Fits(q, e, f)
  <2>1. ToSet(older) \subseteq ToSet(q) /\ ToSet(younger) \subseteq ToSet(q)
    BY <1>1 DEF ToSet
  <2>2. CASE \E i \in 1..Len(older) - 1 : e = older[i] /\ f = older[i + 1]
    BY <2>2 DEF Run
  <2>3. CASE \E i \in 1..Len(younger) - 1 : e = younger[i] /\ f = younger[i + 1]
    BY <2>3 DEF Run
  <2>4. CASE e \in ToSet(older) /\ f \in ToSet(younger) /\ ~SortEvent(f, e)
    <3>1. Earlier(q, e, f) /\ e \in ToSet(q) /\ f \in ToSet(q)
      BY <2>1, <2>4 DEF Behind
    <3>2. QED
      BY <2>4, <3>1, ChoiceFits
  <2>5. CASE e \in ToSet(younger) /\ f \in ToSet(older) /\ SortEvent(e, f)
    BY <2>1, <2>5, ChoiceFits
  <2>6. QED
    BY <1>4, <2>2, <2>3, <2>4, <2>5 DEF Adjoin
<1> HIDE DEF s
<1>5. \A n \in 1..Len(s) - 1 : Fits(q, s[n], s[n + 1])
  BY <1>3, <1>4
<1>6. QED
  BY <1>3, <1>5 DEF Run, s

(***************************************************************************)
(* The runs of a sort in progress: the shortest, which holds the latest    *)
(* events, first.                                                          *)
(***************************************************************************)
Stack(q, runs) ==
  /\ runs \in Seq(Seq(ToSet(q)))
  /\ \A i \in 1..Len(runs) : Run(q, runs[i])
  /\ \A i, k \in 1..Len(runs) : i < k => Behind(q, runs[k], runs[i])

(* The events of the first n runs. *)
Held(runs, n) == UNION {ToSet(runs[i]) : i \in 1..n}

LEMMA MergeAllRuns ==
  ASSUME NEW q, q \in Seq(Events), IsInjective(q), NEW first, NEW runs,
         Run(q, first), Stack(q, runs),
         \A i \in 1..Len(runs) : Behind(q, runs[i], first)
  PROVE  /\ Run(q, MergeAll(first, runs))
         /\ ToSet(MergeAll(first, runs)) = ToSet(first) \cup Held(runs, Len(runs))
<1> DEFINE S == ToSet(q)
           l == Len(runs)
<1>1. first \in Seq(S) /\ runs \in Seq(Seq(S)) /\ l \in Nat
  BY DEF Run, Stack
<1>2. PICK m : Joins(S, first, runs, m)
  <2> HIDE DEF S
  <2>1. QED
    BY ONLY <1>1, MergeAllSteps
<1> HIDE DEF S
<1>3. /\ m[0] = first
      /\ \A n \in 1..l : m[n] = Merge(runs[n], m[n - 1])
      /\ MergeAll(first, runs) = m[l]
  BY <1>2 DEF Joins
<1> DEFINE G == {n \in 0..l : Run(q, m[n]) /\ ToSet(m[n]) = ToSet(first) \cup Held(runs, n)}
<1>4. 0 \in G
  <2>1. Held(runs, 0) = {}
    BY DEF Held
  <2> HIDE DEF l
  <2>2. QED
    BY <1>1, <1>3, <2>1
<1>5. ASSUME NEW n \in 1..l, n - 1 \in G PROVE n \in G
  <2>1. n \in 0..l /\ n - 1 \in 0..l
    BY <1>1
  <2>2. Run(q, m[n - 1]) /\ ToSet(m[n - 1]) = ToSet(first) \cup Held(runs, n - 1)
    BY <1>5
  <2>3. Behind(q, runs[n], m[n - 1])
    <3>1. SUFFICES ASSUME NEW e \in ToSet(runs[n]), NEW f \in ToSet(m[n - 1])
                   PROVE  Earlier(q, e, f)
      BY DEF Behind
    <3>2. CASE f \in ToSet(first)
      BY <3>2 DEF Behind
    <3>3. CASE f \in Held(runs, n - 1)
      <4>1. PICK i \in 1..n - 1 : f \in ToSet(runs[i])
        BY <3>3 DEF Held
      <4>2. i \in 1..l /\ i < n
        BY <1>1
      <4>3. Behind(q, runs[n], runs[i])
        BY <4>2 DEF Stack
      <4>4. QED
        BY <4>1, <4>3 DEF Behind
    <3>4. QED
      BY <2>2, <3>2, <3>3
  <2>4. Run(q, runs[n])
    BY DEF Stack
  <2>5. Run(q, m[n]) /\ ToSet(m[n]) = ToSet(runs[n]) \cup ToSet(m[n - 1])
    BY <1>3, <2>2, <2>3, <2>4, MergeRuns
  <2>6. Held(runs, n) = Held(runs, n - 1) \cup ToSet(runs[n])
    <3>1. 1..n = (1..n - 1) \cup {n}
      OBVIOUS
    <3>2. QED
      BY <3>1 DEF Held
  <2>7. QED
    BY <2>1, <2>2, <2>5, <2>6
<1>6. G = 0..l
  <2>1. G \in SUBSET (0..l)
    OBVIOUS
  <2> HIDE DEF G, l
  <2>2. QED
    BY <1>1, <1>4, <1>5, <2>1, UpTo
<1>7. l \in G
  BY <1>1, <1>6
<1>8. QED
  BY <1>3, <1>7

(* One more event, later than those the runs hold, carried into them. *)
LEMMA CarryRuns ==
  ASSUME NEW q, q \in Seq(Events), IsInjective(q), NEW runs, Stack(q, runs),
         NEW x \in ToSet(q), \A e \in Held(runs, Len(runs)) : Earlier(q, e, x)
  PROVE  LET c == Carry(runs, x)
         IN  Stack(q, c) /\ Held(c, Len(c)) = Held(runs, Len(runs)) \cup {x}
<1> DEFINE S == ToSet(q)
           l == Len(runs)
           c == Carry(runs, x)
<1>1. runs \in Seq(Seq(S)) /\ l \in Nat
  BY DEF Stack
<1>2. c \in Seq(Seq(S)) /\ \E k : EndsAt(runs, x, c, k)
  <2> HIDE DEF S
  <2>1. x \in S
    BY DEF S
  <2>2. QED
    BY ONLY <1>1, <2>1, CarrySteps
<1> HIDE DEF S, c
<1>3. PICK k : EndsAt(runs, x, c, k)
  BY <1>2
<1> DEFINE one == <<x>>
           short == SubSeq(runs, 1, k - 1)
<1>4. /\ k \in 1..l + 1
      /\ k = l + 1 \/ runs[k] = <<>>
      /\ Len(c) = IF k > l THEN k ELSE l
      /\ \A i \in 1..k - 1 : c[i] = <<>>
      /\ c[k] = MergeAll(one, short)
      /\ \A i \in k + 1..l : c[i] = runs[i]
  BY <1>3 DEF EndsAt
<1>5. /\ short \in Seq(Seq(S))
      /\ Len(short) = k - 1
      /\ \A i \in 1..k - 1 : short[i] = runs[i] /\ i \in 1..l
  <2>1. k - 1 \in 0..l
    BY <1>1, <1>4
  <2> DEFINE D == Seq(S)
  <2> HIDE DEF D
  <2>2. runs \in Seq(D) /\ k - 1 \in 0..Len(runs)
    BY <1>1, <2>1 DEF D
  <2>3. /\ short \in Seq(D) /\ Len(short) = k - 1
        /\ \A i \in 1..k - 1 : short[i] = runs[i]
    BY ONLY <2>2, PrefixFacts
  <2>4. QED
    BY <1>1, <2>1, <2>3 DEF D
<1>6. Run(q, one) /\ ToSet(one) = {x}
  <2>1. one \in Seq(ToSet(q)) /\ Len(one) = 1 /\ DOMAIN one = {1} /\ one[1] = x
    OBVIOUS
  <2> HIDE DEF one
  <2>2. QED
    BY <2>1 DEF Run, IsInjective, ToSet
<1> HIDE DEF one, short
<1>7. Stack(q, short)
  <2>1. \A i \in 1..Len(short) : short[i] = runs[i] /\ i \in 1..l
    BY <1>5
  <2>2. \A i \in 1..l : Run(q, runs[i])
    BY DEF Stack
  <2>3. \A i, j \in 1..l : i < j => Behind(q, runs[j], runs[i])
    BY DEF Stack
  <2> HIDE DEF l
  <2>4. /\ \A i \in 1..Len(short) : Run(q, short[i])
        /\ \A i, j \in 1..Len(short) : i < j => Behind(q, short[j], short[i])
    BY <2>1, <2>2, <2>3
  <2>5. QED
    BY <1>5, <2>4 DEF Stack, S
<1>8. /\ Run(q, c[k])
      /\ ToSet(c[k]) = {x} \cup Held(short, k - 1)
  <2>1. ASSUME NEW i \in 1..Len(short) PROVE Behind(q, short[i], one)
    <3>1. i \in 1..l /\ short[i] = runs[i]
      BY <1>5
    <3>2. ToSet(runs[i]) \subseteq Held(runs, l)
      BY <3>1 DEF Held
    <3>3. QED
      BY <1>6, <3>1, <3>2 DEF Behind
  <2>2. Run(q, MergeAll(one, short)) /\ ToSet(MergeAll(one, short)) = ToSet(one) \cup Held(short, Len(short))
    BY <1>6, <1>7, <2>1, MergeAllRuns
  <2>3. QED
    BY <1>4, <1>5, <1>6, <2>2
<1>9. Held(short, k - 1) = Held(runs, k - 1)
  BY <1>5 DEF Held
<1>10. Run(q, <<>>) /\ ToSet(<<>>) = {}
  BY DEF Run, IsInjective, ToSet
<1> DEFINE high == Len(c)
<1>11. /\ high \in Nat /\ l <= high /\ k \in 1..high
       /\ \A i \in 1..high : i < k \/ i = k \/ i \in k + 1..l
       /\ \A i \in 1..high : i < k => i \in 1..k - 1
       /\ \A i \in k + 1..l : i \in 1..l /\ k < i
  BY <1>1, <1>4
<1> HIDE DEF high, l
<1>12. ASSUME NEW i \in 1..high PROVE Run(q, c[i])
  <2>1. CASE i < k
    BY <1>4, <1>10, <1>11, <2>1
  <2>2. CASE i = k
    BY <1>8, <2>2
  <2>3. CASE i \in k + 1..l
    <3>1. Run(q, runs[i])
      BY <1>11, <2>3 DEF Stack, l
    <3>2. QED
      BY <1>4, <2>3, <3>1
  <2>4. QED
    BY <1>11, <2>1, <2>2, <2>3
<1>13. ASSUME NEW i \in 1..high, NEW j \in 1..high, i < j PROVE Behind(q, c[j], c[i])
  <2>1. CASE i < k
    <3>1. ToSet(c[i]) = {}
      BY <1>4, <1>10, <1>11, <2>1
    <3>2. QED
      BY <3>1 DEF Behind
  <2>2. CASE i = k
    <3>1. j \in k + 1..l
      BY <1>11, <1>13, <2>2
    <3>2. c[j] = runs[j] /\ j \in 1..l
      BY <1>4, <1>11, <3>1
    <3>3. SUFFICES ASSUME NEW e \in ToSet(runs[j]), NEW f \in ToSet(c[k]) PROVE Earlier(q, e, f)
      BY <2>2, <3>2 DEF Behind
    <3>4. CASE f = x
      BY <3>2, <3>4 DEF Held, l
    <3>5. CASE f \in Held(runs, k - 1)
      <4>1. PICK h \in 1..k - 1 : f \in ToSet(runs[h])
        BY <3>5 DEF Held
      <4>2. h \in 1..l /\ h < j
        BY <1>5, <1>11, <3>1
      <4>3. Behind(q, runs[j], runs[h])
        BY <3>2, <4>2 DEF Stack, l
      <4>4. QED
        BY <4>1, <4>3 DEF Behind
    <3>6. QED
      BY <1>8, <1>9, <3>4, <3>5
  <2>3. CASE i \in k + 1..l
    <3>1. j \in k + 1..l
      BY <1>11, <1>13, <2>3
    <3>2. c[i] = runs[i] /\ c[j] = runs[j] /\ i \in 1..l /\ j \in 1..l
      BY <1>4, <1>11, <2>3, <3>1
    <3>3. QED
      BY <1>13, <3>2 DEF Stack, l
  <2>4. QED
    BY <1>11, <2>1, <2>2, <2>3
<1>14. Stack(q, c)
  BY <1>2, <1>12, <1>13 DEF Stack, S, high
<1>15. Held(c, high) = Held(runs, l) \cup {x}
  <2>1. ASSUME NEW e \in Held(c, high) PROVE e \in Held(runs, l) \cup {x}
    <3>1. PICK i \in 1..high : e \in ToSet(c[i])
      BY DEF Held
    <3>2. CASE i < k
      BY <1>4, <1>10, <1>11, <3>1, <3>2
    <3>3. CASE i = k
      <4>1. Held(runs, k - 1) \subseteq Held(runs, l)
        BY <1>5 DEF Held
      <4>2. QED
        BY <1>8, <1>9, <3>1, <3>3, <4>1
    <3>4. CASE i \in k + 1..l
      BY <1>4, <1>11, <3>1, <3>4 DEF Held
    <3>5. QED
      BY <1>11, <3>2, <3>3, <3>4
  <2>2. x \in Held(c, high)
    BY <1>8, <1>11 DEF Held
  <2>3. ASSUME NEW e \in Held(runs, l) PROVE e \in Held(c, high)
    <3>1. PICK i \in 1..l : e \in ToSet(runs[i])
      BY DEF Held
    <3>2. i \in 1..high
      BY <1>1, <1>11 DEF l
    <3>3. CASE i < k
      <4>1. e \in Held(runs, k - 1)
        BY <1>11, <3>1, <3>2, <3>3 DEF Held
      <4>2. QED
        BY <1>8, <1>9, <1>11, <4>1 DEF Held
    <3>4. CASE i = k
      <4>1. runs[k] = <<>>
        BY <1>1, <1>4, <3>1, <3>4 DEF l
      <4>2. QED
        BY <1>10, <3>1, <3>4, <4>1
    <3>5. CASE i \in k + 1..l
      BY <1>4, <3>1, <3>2, <3>5 DEF Held
    <3>6. QED
      BY <1>11, <3>2, <3>3, <3>4, <3>5
  <2>4. QED
    BY <2>1, <2>2, <2>3
<1>16. QED
  BY <1>14, <1>15 DEF c, high, l

LEMMA RunsFacts ==
  ASSUME NEW q, q \in Seq(Events), IsInjective(q)
  PROVE  Stack(q, Runs(q)) /\ Held(Runs(q), Len(Runs(q))) = ToSet(q)
<1> DEFINE S == ToSet(q)
           l == Len(q)
<1>1. q \in Seq(S) /\ l \in Nat /\ DOMAIN q = 1..l
  BY DEF ToSet
<1>2. PICK r : Grows(S, q, r)
  <2> HIDE DEF S
  <2>1. QED
    BY ONLY <1>1, RunsSteps
<1>3. /\ r[0] = <<>>
      /\ \A n \in 1..l : r[n] = Carry(r[n - 1], q[n])
      /\ Runs(q) = r[l]
  BY <1>2 DEF Grows
<1> DEFINE All(n) == {q[i] : i \in 1..n}
           G == {n \in 0..l : Stack(q, r[n]) /\ Held(r[n], Len(r[n])) = All(n)}
<1>4. 0 \in G
  <2>1. Len(<<>>) = 0 /\ <<>> \in Seq(Seq(ToSet(q))) /\ 1..0 = {} /\ 0 \in 0..l
    BY <1>1
  <2>2. Held(<<>>, 0) = {} /\ All(0) = {}
    BY <2>1 DEF Held
  <2>3. Stack(q, <<>>)
    BY <2>1 DEF Stack
  <2> HIDE DEF l
  <2>4. QED
    BY <1>3, <2>1, <2>2, <2>3
<1>5. ASSUME NEW n \in 1..l, n - 1 \in G PROVE n \in G
  <2>1. n \in 0..l /\ n - 1 \in 0..l /\ 1..n = (1..n - 1) \cup {n}
    BY <1>1
  <2>2. Stack(q, r[n - 1]) /\ Held(r[n - 1], Len(r[n - 1])) = All(n - 1)
    BY <1>5
  <2>3. q[n] \in ToSet(q)
    BY <1>1 DEF ToSet
  <2>4. \A e \in All(n - 1) : Earlier(q, e, q[n])
    <3>1. \A i \in 1..n - 1 : i \in 1..l /\ i < n
      BY <1>1
    <3>2. QED
      BY <3>1 DEF Earlier
  <2> HIDE DEF l, All
  <2>5. PICK u, x : u = r[n - 1] /\ x = q[n]
    OBVIOUS
  <2>6. /\ Stack(q, u) /\ x \in ToSet(q)
        /\ \A e \in Held(u, Len(u)) : Earlier(q, e, x)
    BY <2>2, <2>3, <2>4, <2>5
  <2>7. /\ Stack(q, Carry(u, x))
        /\ Held(Carry(u, x), Len(Carry(u, x))) = Held(u, Len(u)) \cup {x}
    BY <2>6, CarryRuns
  <2>8. All(n) = All(n - 1) \cup {q[n]}
    BY <2>1 DEF All
  <2>9. QED
    BY <1>3, <2>1, <2>2, <2>5, <2>7, <2>8
<1>6. G = 0..l
  <2>1. G \in SUBSET (0..l)
    OBVIOUS
  <2> HIDE DEF G, l
  <2>2. QED
    BY <1>1, <1>4, <1>5, <2>1, UpTo
<1>7. Stack(q, r[l]) /\ Held(r[l], Len(r[l])) = All(l)
  BY <1>1, <1>6
<1>8. All(l) = ToSet(q)
  BY <1>1 DEF ToSet
<1>9. QED
  BY <1>3, <1>7, <1>8

(* The library's sort of a queue is a run of it with all its events. *)
LEMMA ListSortRun ==
  ASSUME NEW q, q \in Seq(Events), IsInjective(q)
  PROVE  Run(q, ListSort(q)) /\ ToSet(ListSort(q)) = ToSet(q)
<1>1. Stack(q, Runs(q)) /\ Held(Runs(q), Len(Runs(q))) = ToSet(q)
  BY RunsFacts
<1>2. PICK first, runs : first = <<>> /\ runs = Runs(q)
  OBVIOUS
<1>3. Run(q, first) /\ ToSet(first) = {}
  BY <1>2 DEF Run, IsInjective, ToSet
<1>4. \A i \in 1..Len(runs) : Behind(q, runs[i], first)
  BY <1>3 DEF Behind
<1>5. Stack(q, runs)
  BY <1>1, <1>2
<1>6. /\ Run(q, MergeAll(first, runs))
      /\ ToSet(MergeAll(first, runs)) = ToSet(first) \cup Held(runs, Len(runs))
  BY <1>3, <1>4, <1>5, MergeAllRuns
<1>7. ListSort(q) = MergeAll(first, runs)
  BY <1>2 DEF ListSort
<1>8. QED
  BY <1>1, <1>2, <1>3, <1>6, <1>7

(* A list of all events of another, both without duplicates, permutes it. *)
LEMMA Permutes ==
  ASSUME NEW S, NEW q, NEW s, q \in Seq(S), s \in Seq(S), IsInjective(q), IsInjective(s),
         ToSet(s) = ToSet(q)
  PROVE  /\ Len(s) = Len(q)
         /\ \E p \in Bijection(1..Len(q), 1..Len(q)) : s = [i \in 1..Len(q) |-> q[p[i]]]
<1> DEFINE l == Len(q)
           k == Len(s)
           p == [i \in 1..k |-> Place(q, s[i])]
<1>1. /\ l \in Nat /\ k \in Nat /\ DOMAIN q = 1..l /\ DOMAIN s = 1..k
      /\ s = [i \in 1..k |-> s[i]]
      /\ \A i \in 1..k : s[i] \in ToSet(s)
      /\ \A i \in 1..l : q[i] \in ToSet(s)
  <2>1. l \in Nat /\ k \in Nat /\ DOMAIN q = 1..l /\ DOMAIN s = 1..k
    OBVIOUS
  <2>2. s = [i \in 1..k |-> s[i]]
    OBVIOUS
  <2> HIDE DEF l, k
  <2>3. /\ \A i \in 1..k : s[i] \in ToSet(s)
        /\ \A i \in 1..l : q[i] \in ToSet(q)
    BY <2>1 DEF ToSet
  <2>4. QED
    BY <2>1, <2>2, <2>3
<1>2. \A x \in ToSet(q) : Place(q, x) \in 1..l /\ q[Place(q, x)] = x
  BY PlaceFacts
<1> HIDE DEF l, k
<1>3. ASSUME NEW i \in 1..k PROVE p[i] \in 1..l /\ q[p[i]] = s[i]
  BY <1>1, <1>2
<1>4. p \in [1..k -> 1..l]
  BY <1>3
<1>5. IsInjective(p)
  <2>1. SUFFICES ASSUME NEW i \in 1..k, NEW j \in 1..k, p[i] = p[j] PROVE i = j
    BY DEF IsInjective
  <2>2. s[i] = s[j]
    BY <1>3, <2>1
  <2>3. QED
    BY <1>1, <2>2 DEF IsInjective
<1>6. ASSUME NEW j \in 1..l PROVE \E i \in 1..k : p[i] = j
  <2>1. PICK i \in 1..k : s[i] = q[j]
    BY <1>1 DEF ToSet
  <2>2. q[p[i]] = q[j] /\ p[i] \in 1..l
    BY <1>3, <2>1
  <2>3. QED
    BY <1>1, <2>2 DEF IsInjective
<1> HIDE DEF p
<1>7. p \in Bijection(1..k, 1..l)
  BY <1>4, <1>5, <1>6 DEF Bijection, Injection, Surjection
<1>8. k = l
  <2>1. IsFiniteSet(1..k) /\ Cardinality(1..k) = k /\ Cardinality(1..l) = l
    <3>1. PICK a \in Int : a = 1
      OBVIOUS
    <3>2. k \in Int /\ l \in Int
      BY <1>1
    <3>3. /\ IsFiniteSet(a..k) /\ Cardinality(a..k) = IF a > k THEN 0 ELSE k - a + 1
          /\ Cardinality(a..l) = IF a > l THEN 0 ELSE l - a + 1
      BY ONLY <3>2, FS_Interval
    <3>4. QED
      BY <1>1, <3>1, <3>3
  <2>2. ExistsBijection(1..k, 1..l)
    BY <1>7 DEF ExistsBijection
  <2>3. Cardinality(1..l) = Cardinality(1..k)
    BY <2>1, <2>2, FS_Bijection
  <2>4. QED
    BY <2>1, <2>3
<1>9. s = [i \in 1..l |-> q[p[i]]]
  BY <1>1, <1>3, <1>8
<1>10. QED
  BY <1>7, <1>8, <1>9 DEF l, k

(***************************************************************************)
(* What EventManager assumes of the sort is what the library's algorithm   *)
(* gives, for every queue of distinct events.                              *)
(***************************************************************************)
THEOREM LibrarySort ==
  ASSUME NEW q, q \in Seq(Events), IsInjective(q)
  PROVE  ListSort(q) \in SortsOf(q)
<1> DEFINE s == ListSort(q)
<1>1. Run(q, s) /\ ToSet(s) = ToSet(q)
  BY ListSortRun
<1> HIDE DEF s
<1>2. /\ q \in Seq(ToSet(q)) /\ s \in Seq(ToSet(q)) /\ IsInjective(s)
      /\ \A n \in 1..Len(s) - 1 : Fits(q, s[n], s[n + 1])
  BY <1>1 DEF Run, ToSet
<1>3. /\ Len(s) = Len(q)
      /\ \E p \in Bijection(1..Len(q), 1..Len(q)) : s = [i \in 1..Len(q) |-> q[p[i]]]
  BY ONLY <1>1, <1>2, IsInjective(q), Permutes
<1>4. \A i \in 1..Len(q) - 1 : MayFollow(s[i], s[i + 1])
  BY <1>2, <1>3 DEF Fits
<1>5. s \in [1..Len(q) -> ToSet(q)]
  BY <1>2, <1>3
<1>6. QED
  BY <1>3, <1>4, <1>5 DEF SortsOf, IsSortOf, s

LEMMA BeforeTransitive ==
  ASSUME NEW q, q \in Seq(Events), IsInjective(q),
         NEW e \in Events, NEW f \in Events, NEW g \in Events,
         Before(q, e, f), Before(q, f, g)
  PROVE  Before(q, e, g)
<1>1. /\ Priority[e] \in Int /\ TimeStamp[e] \in Int
      /\ Priority[f] \in Int /\ TimeStamp[f] \in Int
      /\ Priority[g] \in Int /\ TimeStamp[g] \in Int
  BY OrderType
<1>2. Earlier(q, e, f) /\ Earlier(q, f, g) => Earlier(q, e, g)
  <2>1. SUFFICES ASSUME NEW i \in 1..Len(q), NEW j \in 1..Len(q), i < j,
                        NEW h \in 1..Len(q), NEW k \in 1..Len(q), h < k,
                        q[i] = e, q[j] = f, q[h] = f, q[k] = g
                 PROVE  \E a, b \in 1..Len(q) : a < b /\ q[a] = e /\ q[b] = g
    BY DEF Earlier
  <2>2. j = h
    <3>1. DOMAIN q = 1..Len(q)
      OBVIOUS
    <3>2. QED
      BY <2>1, <3>1 DEF IsInjective
  <2>3. i < k
    BY <2>1, <2>2
  <2>4. QED
    BY <2>1, <2>3
<1>3. QED
  BY ONLY <1>1, <1>2, Before(q, e, f), Before(q, f, g) DEF Before

(* In a run without conflicts every two events are in order, not only      *)
(* neighbours.                                                             *)
LEMMA RunInOrder ==
  ASSUME NEW q, q \in Seq(Events), IsInjective(q), Calm(q), NEW s, Run(q, s)
  PROVE  \A i, j \in 1..Len(s) : i < j => Before(q, s[i], s[j])
<1>1. /\ s \in Seq(ToSet(q)) /\ Len(s) \in Nat
      /\ \A n \in 1..Len(s) - 1 : Before(q, s[n], s[n + 1])
  BY DEF Run, Fits
<1>2. \A n \in 1..Len(s) : s[n] \in Events
  <2>1. \A n \in 1..Len(s) : s[n] \in ToSet(q)
    BY <1>1
  <2>2. ToSet(q) \subseteq Events
    BY DEF ToSet
  <2>3. QED
    BY <2>1, <2>2
<1>3. SUFFICES ASSUME NEW i \in 1..Len(s), NEW j \in 1..Len(s), i < j
               PROVE  Before(q, s[i], s[j])
  OBVIOUS
<1> DEFINE m == j - i - 1
           G == {d \in 0..m : \A k \in 1..Len(s) : k = i + 1 + d => Before(q, s[i], s[k])}
<1>4. m \in Nat
  BY <1>1, <1>3
<1>5. 0 \in G
  <2>1. \A k \in 1..Len(s) : k = i + 1 + 0 => k = i + 1 /\ i \in 1..Len(s) - 1
    BY <1>1
  <2>2. QED
    BY <1>1, <1>4, <2>1
<1>6. ASSUME NEW d \in 1..m, d - 1 \in G PROVE d \in G
  <2>1. SUFFICES ASSUME NEW k \in 1..Len(s), k = i + 1 + d PROVE Before(q, s[i], s[k])
    OBVIOUS
  <2>2. PICK h \in 1..Len(s) : h = k - 1 /\ h = i + 1 + (d - 1) /\ h \in 1..Len(s) - 1 /\ k = h + 1
    BY <1>1, <2>1
  <2>3. Before(q, s[i], s[h])
    BY <1>6, <2>2
  <2>4. Before(q, s[h], s[k])
    BY <1>1, <2>2
  <2>5. s[i] \in Events /\ s[h] \in Events /\ s[k] \in Events
    BY <1>2
  <2>6. QED
    BY <2>3, <2>4, <2>5, BeforeTransitive
<1>7. G = 0..m
  <2>1. G \in SUBSET (0..m)
    OBVIOUS
  <2> HIDE DEF G, m
  <2>2. QED
    BY <1>4, <1>5, <1>6, <2>1, UpTo
<1>8. m \in G
  <2> HIDE DEF G, m
  <2>1. QED
    BY <1>4, <1>7
<1>9. j = i + 1 + m
  BY <1>3
<1>10. QED
  BY <1>8, <1>9

-----------------------------------------------------------------------------
(***************************************************************************)
(* What is true between the steps of EventSort: the queue holds distinct   *)
(* events of those queued, ties are still in the order of their arrival,   *)
(* and a queue that is being dispatched is in order.                       *)
(***************************************************************************)
QueueKept ==
  /\ arrival \in Seq(Events) /\ IsInjective(arrival)
  /\ queue \in Seq(Events) /\ IsInjective(queue)
  /\ ToSet(queue) \subseteq ToSet(arrival)

TiesKept(a, q) ==
  \A i, j \in 1..Len(q) :
    i < j /\ Priority[q[i]] = Priority[q[j]] /\ TimeStamp[q[i]] = TimeStamp[q[j]] =>
      Earlier(a, q[i], q[j])

InOrder(a, q) == \A i, j \in 1..Len(q) : i < j => Before(a, q[i], q[j])

OrderKept ==
  Calm(arrival) => TiesKept(arrival, queue) /\ (sorted => InOrder(arrival, queue))

LEMMA SortInitial == SortInit => QueueKept /\ OrderKept
<1>1. SUFFICES ASSUME SortInit PROVE QueueKept /\ OrderKept
  OBVIOUS
<1>2. /\ arrival \in Seq(Events) /\ IsInjective(arrival)
      /\ queue = arrival /\ sorted = FALSE
  <2>1. arrival \in UNION {[1..m -> Events] : m \in 0..MaxLength}
    BY <1>1 DEF SortInit, BoundedSeq, SeqOf
  <2>2. PICK m \in 0..MaxLength : arrival \in [1..m -> Events]
    BY <2>1
  <2>3. m \in Nat
    BY SortAssumption
  <2>4. arrival \in Seq(Events)
    BY <2>2, <2>3
  <2>5. QED
    BY <1>1, <2>4 DEF SortInit
<1>3. QueueKept
  BY <1>2 DEF QueueKept
<1>4. OrderKept
  BY <1>2 DEF OrderKept, TiesKept, Earlier
<1>5. QED
  BY <1>3, <1>4

LEMMA ExecuteKeeps == QueueKept /\ OrderKept /\ Execute => QueueKept' /\ OrderKept'
<1>1. SUFFICES ASSUME QueueKept, OrderKept, Execute PROVE QueueKept' /\ OrderKept'
  OBVIOUS
<1> DEFINE s == ListSort(queue)
<1>2. queue' = s /\ sorted' = TRUE /\ arrival' = arrival
  BY <1>1 DEF Execute
<1>3. Run(queue, s) /\ ToSet(s) = ToSet(queue)
  BY <1>1, ListSortRun DEF QueueKept
<1> HIDE DEF s
<1>4. s \in Seq(Events) /\ IsInjective(s)
  <2>1. ToSet(queue) \subseteq Events
    BY <1>1 DEF QueueKept, ToSet
  <2>2. QED
    BY <1>3, <2>1 DEF Run
<1>5. QueueKept'
  BY <1>1, <1>2, <1>3, <1>4 DEF QueueKept
<1>6. ASSUME Calm(arrival) PROVE InOrder(arrival, s)
  <2>1. SUFFICES ASSUME NEW i \in 1..Len(s), NEW j \in 1..Len(s), i < j
                 PROVE  Before(arrival, s[i], s[j])
    BY DEF InOrder
  <2>2. Calm(queue)
    BY <1>1, <1>6 DEF Calm, QueueKept
  <2>3. Before(queue, s[i], s[j])
    BY <1>1, <1>3, <2>1, <2>2, RunInOrder DEF QueueKept
  <2>4. ASSUME Priority[s[i]] = Priority[s[j]], TimeStamp[s[i]] = TimeStamp[s[j]],
               Earlier(queue, s[i], s[j])
        PROVE  Earlier(arrival, s[i], s[j])
    <3>1. PICK a \in 1..Len(queue), b \in 1..Len(queue) :
            a < b /\ queue[a] = s[i] /\ queue[b] = s[j]
      BY <2>4 DEF Earlier
    <3>2. TiesKept(arrival, queue)
      BY <1>1, <1>6 DEF OrderKept
    <3>3. QED
      BY <2>4, <3>1, <3>2 DEF TiesKept
  <2>5. QED
    BY <2>3, <2>4 DEF Before
<1>7. InOrder(arrival, s) => TiesKept(arrival, s)
  <2>1. SUFFICES ASSUME NEW i \in 1..Len(s), NEW j \in 1..Len(s),
                        Before(arrival, s[i], s[j]),
                        Priority[s[i]] = Priority[s[j]], TimeStamp[s[i]] = TimeStamp[s[j]]
                 PROVE  Earlier(arrival, s[i], s[j])
    BY DEF InOrder, TiesKept
  <2>2. Priority[s[i]] \in Int /\ TimeStamp[s[i]] \in Int
    <3>1. s[i] \in Events
      BY <1>4
    <3>2. QED
      BY <3>1, OrderType
  <2>3. QED
    BY <2>1, <2>2 DEF Before
<1>8. OrderKept'
  <2>1. OrderKept' <=> (Calm(arrival) => TiesKept(arrival, s) /\ InOrder(arrival, s))
    BY <1>2 DEF OrderKept, TiesKept, InOrder, Calm, Before, Earlier
  <2>2. QED
    BY <1>6, <1>7, <2>1
<1>9. QED
  BY <1>5, <1>8

LEMMA PopKeeps == QueueKept /\ OrderKept /\ Pop => QueueKept' /\ OrderKept'
<1>1. SUFFICES ASSUME QueueKept, OrderKept, Pop PROVE QueueKept' /\ OrderKept'
  OBVIOUS
<1> DEFINE s == Tail(queue)
<1>2. /\ queue \in Seq(Events) /\ queue # <<>> /\ IsInjective(queue)
      /\ queue' = s /\ sorted' = sorted /\ arrival' = arrival
  BY <1>1 DEF Pop, QueueKept
<1>3. /\ s \in Seq(Events) /\ IsInjective(s) /\ ToSet(s) \subseteq ToSet(queue)
  BY <1>2, TailFacts
<1>4. /\ Len(queue) \in Nat /\ Len(s) = Len(queue) - 1
      /\ \A i \in 1..Len(s) : s[i] = queue[i + 1] /\ i + 1 \in 1..Len(queue)
  BY <1>2
<1> HIDE DEF s
<1>5. QueueKept'
  BY <1>1, <1>2, <1>3 DEF QueueKept
<1>6. \A i, j \in 1..Len(s) : i < j =>
        \E a, b \in 1..Len(queue) : a < b /\ s[i] = queue[a] /\ s[j] = queue[b]
  <2>1. SUFFICES ASSUME NEW i \in 1..Len(s), NEW j \in 1..Len(s), i < j
                 PROVE  i + 1 < j + 1
    BY <1>4
  <2>2. QED
    BY <1>4, <2>1
<1>7. /\ TiesKept(arrival, queue) => TiesKept(arrival, s)
      /\ InOrder(arrival, queue) => InOrder(arrival, s)
  <2>1. ASSUME TiesKept(arrival, queue) PROVE TiesKept(arrival, s)
    <3>1. SUFFICES ASSUME NEW i \in 1..Len(s), NEW j \in 1..Len(s), i < j,
                          Priority[s[i]] = Priority[s[j]], TimeStamp[s[i]] = TimeStamp[s[j]]
                   PROVE  Earlier(arrival, s[i], s[j])
      BY DEF TiesKept
    <3>2. PICK a \in 1..Len(queue), b \in 1..Len(queue) :
            a < b /\ s[i] = queue[a] /\ s[j] = queue[b]
      BY <1>6, <3>1
    <3>3. QED
      BY <2>1, <3>1, <3>2 DEF TiesKept
  <2>2. ASSUME InOrder(arrival, queue) PROVE InOrder(arrival, s)
    <3>1. SUFFICES ASSUME NEW i \in 1..Len(s), NEW j \in 1..Len(s), i < j
                   PROVE  Before(arrival, s[i], s[j])
      BY DEF InOrder
    <3>2. PICK a \in 1..Len(queue), b \in 1..Len(queue) :
            a < b /\ s[i] = queue[a] /\ s[j] = queue[b]
      BY <1>6, <3>1
    <3>3. QED
      BY <2>2, <3>2 DEF InOrder
  <2>3. QED
    BY <2>1, <2>2
<1>8. OrderKept' <=>
        (Calm(arrival) => TiesKept(arrival, s) /\ (sorted => InOrder(arrival, s)))
  BY <1>2 DEF OrderKept, TiesKept, InOrder, Calm, Before, Earlier
<1>9. OrderKept'
  BY <1>1, <1>7, <1>8 DEF OrderKept
<1>10. QED
  BY <1>5, <1>9

LEMMA SortStep == QueueKept /\ OrderKept /\ [SortNext]_sorting => QueueKept' /\ OrderKept'
<1>1. SUFFICES ASSUME QueueKept, OrderKept, [SortNext]_sorting PROVE QueueKept' /\ OrderKept'
  OBVIOUS
<1>2. CASE Execute
  BY <1>1, <1>2, ExecuteKeeps
<1>3. CASE Pop
  BY <1>1, <1>3, PopKeeps
<1>4. CASE Stop
  BY <1>1, <1>4 DEF Stop, QueueKept, OrderKept, TiesKept, InOrder, Calm, Before, Earlier
<1>5. CASE TimePasses
  BY <1>1, <1>5 DEF TimePasses, QueueKept, OrderKept, TiesKept, InOrder, Calm, Before, Earlier
<1>6. CASE UNCHANGED sorting
  BY <1>1, <1>6 DEF sorting, QueueKept, OrderKept, TiesKept, InOrder, Calm, Before, Earlier
<1>7. QED
  BY <1>1, <1>2, <1>3, <1>4, <1>5, <1>6 DEF SortNext

LEMMA SortInvariance == SortSpec => [](QueueKept /\ OrderKept)
<1>1. QED
  BY SortInitial, SortStep, PTL DEF SortSpec

(***************************************************************************)
(* Whatever the comparator says, the sort of the queue is one that         *)
(* EventManager allows for, in every state of EventSort.                   *)
(***************************************************************************)
THEOREM SortIsSound == SortSpec => []SortSound
<1>1. QueueKept => SortSound
  <2>1. SUFFICES ASSUME QueueKept PROVE SortSound
    OBVIOUS
  <2>2. ListSort(queue) \in SortsOf(queue)
    BY <2>1, LibrarySort DEF QueueKept
  <2>3. QED
    BY <2>2 DEF SortsOf, SortSound
<1>2. QED
  BY <1>1, SortInvariance, PTL

(***************************************************************************)
(* Without conflicts execute() dispatches by priority, time and arrival,   *)
(* however often it has sorted the rest of the queue again.                *)
(***************************************************************************)
THEOREM SortInOrder == SortSpec => []InOrderUnlessConflict
<1>1. QueueKept /\ OrderKept => InOrderUnlessConflict
  <2>1. SUFFICES ASSUME QueueKept, OrderKept, sorted, Calm(arrival),
                        NEW i \in DOMAIN queue, NEW j \in DOMAIN queue, i < j
                 PROVE  \/ Priority[queue[i]] > Priority[queue[j]]
                        \/ /\ Priority[queue[i]] = Priority[queue[j]]
                           /\ \/ TimeStamp[queue[i]] < TimeStamp[queue[j]]
                              \/ /\ TimeStamp[queue[i]] = TimeStamp[queue[j]]
                                 /\ Position(arrival, queue[i]) < Position(arrival, queue[j])
    BY DEF InOrderUnlessConflict, Calm
  <2>2. DOMAIN queue = 1..Len(queue) /\ DOMAIN arrival = 1..Len(arrival)
    BY <2>1 DEF QueueKept
  <2>3. Before(arrival, queue[i], queue[j])
    BY <2>1, <2>2 DEF OrderKept, InOrder
  <2>4. \A e, f : Earlier(arrival, e, f) => Position(arrival, e) < Position(arrival, f)
    <3>1. SUFFICES ASSUME NEW a \in 1..Len(arrival), NEW b \in 1..Len(arrival), a < b
                   PROVE  Position(arrival, arrival[a]) < Position(arrival, arrival[b])
      BY DEF Earlier
    <3>2. \A c \in 1..Len(arrival) : Position(arrival, arrival[c]) = c
      BY <2>1, <2>2 DEF QueueKept, IsInjective, Position
    <3>3. QED
      BY <3>1, <3>2
  <2>5. QED
    BY <2>3, <2>4 DEF Before
<1>2. QED
  BY <1>1, SortInvariance, PTL
=============================================================================
