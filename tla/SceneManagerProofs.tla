------------------------- MODULE SceneManagerProofs -------------------------
(***************************************************************************)
(* Theorems about SceneManager, for any number of scenes and layers.       *)
(***************************************************************************)
EXTENDS SceneManager, PointerListProofs, WellFoundedInduction

(* x is in the list s, and y is too, at the same place or behind it.       *)
Ordered(s, x, y) ==
  \E j, k \in DOMAIN s : j <= k /\ s[j] = x /\ s[k] = y

-----------------------------------------------------------------------------
(* Pushing, popping and removing layers leaves the others in their order.  *)
LEMMA PushKeeps ==
  ASSUME NEW s \in Seq(Layers), IsInjective(s), NEW l \in Layers, l \notin ToSet(s)
  PROVE  /\ <<l>> \o s \in Seq(Layers)
         /\ IsInjective(<<l>> \o s)
         /\ \A x, y : Ordered(s, x, y) => Ordered(<<l>> \o s, x, y)
<1> DEFINE t == <<l>> \o s
<1>1. /\ t \in Seq(Layers)
      /\ Len(s) \in Nat
      /\ DOMAIN s = 1..Len(s)
      /\ DOMAIN t = 1..Len(s) + 1
      /\ t[1] = l
      /\ \A k \in 1..Len(s) : t[k + 1] = s[k]
      /\ \A k \in 1..Len(s) + 1 : k # 1 => k - 1 \in 1..Len(s) /\ t[k] = s[k - 1]
  OBVIOUS
<1> HIDE DEF t
<1>2. IsInjective(t)
  <2>1. SUFFICES ASSUME NEW j \in 1..Len(s) + 1, NEW k \in 1..Len(s) + 1, t[j] = t[k]
                 PROVE  j = k
    BY <1>1 DEF IsInjective
  <2>2. \A i \in 1..Len(s) : s[i] # l
    BY <1>1 DEF ToSet
  <2>3. \A m, n \in 1..Len(s) : s[m] = s[n] => m = n
    BY <1>1 DEF IsInjective
  <2>4. QED
    BY <1>1, <2>1, <2>2, <2>3
<1>3. ASSUME NEW x, NEW y, Ordered(s, x, y) PROVE Ordered(t, x, y)
  <2>1. PICK j, k \in 1..Len(s) : j <= k /\ s[j] = x /\ s[k] = y
    BY <1>1, <1>3 DEF Ordered
  <2>2. /\ j + 1 \in DOMAIN t /\ k + 1 \in DOMAIN t /\ j + 1 <= k + 1
        /\ t[j + 1] = x /\ t[k + 1] = y
    BY <1>1, <2>1
  <2>3. QED
    BY <2>2 DEF Ordered
<1>4. QED
  BY <1>1, <1>2, <1>3 DEF t

LEMMA PopKeeps ==
  ASSUME NEW s \in Seq(Layers), IsInjective(s), s # <<>>
  PROVE  /\ Tail(s) \in Seq(Layers)
         /\ IsInjective(Tail(s))
         /\ \A x, y : Ordered(s, x, y) /\ Head(s) \notin {x, y} => Ordered(Tail(s), x, y)
<1>1. /\ Len(s) \in Nat
      /\ DOMAIN s = 1..Len(s)
      /\ DOMAIN Tail(s) = 1..Len(s) - 1
      /\ s[1] = Head(s)
      /\ \A k \in 1..Len(s) : k # 1 => k - 1 \in 1..Len(s) - 1 /\ Tail(s)[k - 1] = s[k]
  OBVIOUS
<1>2. ASSUME NEW x, NEW y, Ordered(s, x, y), Head(s) \notin {x, y}
      PROVE  Ordered(Tail(s), x, y)
  <2>1. PICK j, k \in 1..Len(s) : j <= k /\ s[j] = x /\ s[k] = y
    BY <1>1, <1>2 DEF Ordered
  <2>2. /\ j - 1 \in DOMAIN Tail(s) /\ k - 1 \in DOMAIN Tail(s) /\ j - 1 <= k - 1
        /\ Tail(s)[j - 1] = x /\ Tail(s)[k - 1] = y
    BY <1>1, <1>2, <2>1
  <2>3. QED
    BY <2>2 DEF Ordered
<1>3. QED
  BY <1>2, TailFacts

LEMMA RemoveKeeps ==
  ASSUME NEW s \in Seq(Layers), IsInjective(s), NEW l
  PROVE  /\ Without(s, l) \in Seq(Layers)
         /\ IsInjective(Without(s, l))
         /\ \A x, y : Ordered(s, x, y) /\ l \notin {x, y} => Ordered(Without(s, l), x, y)
<1>1. ASSUME NEW x, NEW y, Ordered(s, x, y), l \notin {x, y}
      PROVE  Ordered(Without(s, l), x, y)
  <2>1. CASE l \notin ToSet(s)
    BY <1>1, <2>1 DEF Without
  <2>2. CASE l \in ToSet(s)
    <3> DEFINE p == Place(s, l)
               r == RemoveAt(s, p)
               Moved(i) == IF i < p THEN i ELSE i - 1
    <3>1. p \in 1..Len(s) /\ s[p] = l /\ Len(s) \in Nat /\ DOMAIN s = 1..Len(s)
      BY <2>2 DEF ToSet, Place
    <3> HIDE DEF p
    <3>2. /\ r \in Seq(Layers)
          /\ DOMAIN r = 1..Len(s) - 1
          /\ \A i \in 1..Len(s) - 1 : r[i] = IF i < p THEN s[i] ELSE s[i + 1]
      BY <3>1, RemoveAtFacts
    <3>3. Without(s, l) = r
      BY <2>2 DEF Without, p
    <3> HIDE DEF r
    <3>4. PICK j, k \in 1..Len(s) : j <= k /\ s[j] = x /\ s[k] = y
      BY <1>1, <3>1 DEF Ordered
    <3>5. j # p /\ k # p
      BY <1>1, <3>1, <3>4
    <3>6. ASSUME NEW i \in 1..Len(s), i # p
          PROVE  Moved(i) \in 1..Len(s) - 1 /\ r[Moved(i)] = s[i]
      <4>1. CASE i < p
        BY <3>1, <3>2, <3>6, <4>1
      <4>2. CASE ~(i < p)
        <5>1. i - 1 \in 1..Len(s) - 1 /\ ~(i - 1 < p) /\ (i - 1) + 1 = i
          BY <3>1, <3>6, <4>2
        <5>2. QED
          BY <3>2, <4>2, <5>1
      <4>3. QED
        BY <4>1, <4>2
    <3>7. Moved(j) <= Moved(k)
      BY <3>1, <3>4, <3>5
    <3>8. /\ Moved(j) \in 1..Len(s) - 1 /\ r[Moved(j)] = x
          /\ Moved(k) \in 1..Len(s) - 1 /\ r[Moved(k)] = y
      BY <3>4, <3>5, <3>6
    <3> HIDE DEF Moved
    <3>9. QED
      BY <3>2, <3>3, <3>7, <3>8 DEF Ordered
  <2>3. QED
    BY <2>1, <2>2
<1>2. QED
  BY <1>1, WithoutFacts

(* A list that is not empty has a layer where the walk begins.             *)
LEMMA BlockerFacts ==
  ASSUME NEW s \in Seq(Layers), s # <<>>, NEW flag
  PROVE  /\ Blocker(s, flag) \in DOMAIN s
         /\ \A j \in 1..Blocker(s, flag) - 1 : s[j] \notin flag
         /\ s[Blocker(s, flag)] \in flag \/ Blocker(s, flag) = Len(s)
<1> DEFINE K == {k \in DOMAIN s : s[k] \in flag \/ k = Len(s)}
<1>1. Len(s) \in Nat \ {0} /\ DOMAIN s = 1..Len(s) /\ Len(s) \in K /\ K \subseteq Nat
  OBVIOUS
<1>2. PICK k \in K : \A j \in K : ~(<<j, k>> \in OpToRel(<, Nat))
  <2>1. K \in SUBSET Nat /\ K # {}
    BY <1>1
  <2> HIDE DEF K
  <2>2. QED
    BY <2>1, NatLessThanWellFounded, WFMin
<1>3. \A j \in 1..k - 1 : s[j] \notin flag
  <2>1. SUFFICES ASSUME NEW j \in 1..k - 1, s[j] \in flag PROVE FALSE
    OBVIOUS
  <2>2. k \in 1..Len(s)
    BY <1>1, <1>2
  <2>3. j \in 1..Len(s) /\ j < k
    BY <1>1, <2>1, <2>2
  <2>4. j \in K
    BY <1>1, <2>1, <2>3
  <2>5. QED
    BY <1>1, <1>2, <2>2, <2>3, <2>4 DEF OpToRel
<1>4. \E m \in DOMAIN s : /\ \A j \in 1..m - 1 : s[j] \notin flag
                          /\ s[m] \in flag \/ m = Len(s)
  BY <1>2, <1>3
<1>5. QED
  BY <1>4 DEF Blocker

-----------------------------------------------------------------------------
(* The stack, and the property about it: each step that changes one of     *)
(* these variables keeps them together.                                    *)
StackInv ==
  /\ stack \in Seq(Scenes)
  /\ active \in Scenes \cup {None}
  /\ activated \in SUBSET Scenes
  /\ bgcolor \in [Scenes -> Colors]
  /\ painted \in Colors
  /\ stale \in Colors \cup {None}
  /\ TopSceneShown

LEMMA StackInit == Init => StackInv
BY SceneAssumption DEF Init, StackInv, TopSceneShown

LEMMA StackStep == StackInv /\ [Next]_vars => StackInv'
<1> SUFFICES ASSUME StackInv, [Next]_vars PROVE StackInv'
  OBVIOUS
<1> USE SceneAssumption DEF StackInv
<1>1. ASSUME NEW s \in Scenes, PushScene(s) PROVE StackInv'
  <2>1. active # None => <<active>> \o stack \in Seq(Scenes)
    OBVIOUS
  <2>2. activated' = {s} /\ active' = s /\ painted' = bgcolor'[s] /\ stale' = None
    BY <1>1 DEF PushScene, TopSceneShown
  <2>3. QED
    BY <1>1, <2>1, <2>2 DEF PushScene, TopSceneShown
<1>2. ASSUME PopScene PROVE StackInv'
  <2>1. stack # <<>> => Head(stack) \in Scenes /\ Tail(stack) \in Seq(Scenes)
    OBVIOUS
  <2>2. /\ activated' = {} /\ painted' = stale'
        /\ stale' \in Colors
    BY <1>2 DEF PopScene, TopSceneShown
  <2>3. QED
    BY <1>2, <2>1, <2>2 DEF PopScene, TopSceneShown
<1>3. ASSUME NEW s \in Scenes, NEW c \in Colors, SetBackground(s, c) PROVE StackInv'
  BY <1>3 DEF SetBackground, TopSceneShown
<1>4. CASE UNCHANGED <<manager, bgcolor>>
  BY <1>4 DEF manager, TopSceneShown
<1>5. QED
  BY <1>1, <1>2, <1>3, <1>4
     DEF Next, Game, Update, vars, Suspend, PushLayer, PopLayer, RemoveLayer, Kill,
         UpdateBegin, RemoveZombie, UpdateLayer, LayerReturn, UpdateEnd, manager

(* After a push only the scene on top is active, and the painter shows its *)
(* background; after a pop no scene is active and the painter keeps what   *)
(* the popped scene had, for any number of scenes and however high the     *)
(* stack (SceneManager::pushScene, popScene, Scene::setBackground).        *)
THEOREM TopSceneIsShown == Spec => []TopSceneShown
<1>1. StackInv => TopSceneShown
  BY DEF StackInv
<1>2. QED
  BY <1>1, StackInit, StackStep, PTL DEF Spec

-----------------------------------------------------------------------------
(* The walk: until it is at the blocking layer both its nodes are on the   *)
(* list, that of l_b not behind that of l_i, or one was freed; and the     *)
(* layer that is being updated holds neither of them.                      *)
LayersInv ==
  /\ layers \in [Scenes -> Seq(Layers)]
  /\ \A s \in Scenes : IsInjective(layers[s])
  /\ killed \in SUBSET Layers
  /\ suspended \in BOOLEAN

WalkInv ==
  walk # None =>
    /\ walk \in Walk
    /\ ~walk.finished =>
         /\ ~walk.dangling => Ordered(layers[walk.scene], walk.b, walk.i)
         /\ walk.slayer \notin {walk.i, walk.b}

IInv == StackInv /\ LayersInv /\ WalkInv /\ NoDangling

LEMMA IInit == Init => IInv
<1>1. SUFFICES ASSUME Init PROVE LayersInv /\ WalkInv /\ NoDangling
  BY StackInit DEF IInv
<1>2. IsInjective(<<>>)
  BY DEF IsInjective
<1>3. suspended \in BOOLEAN
  BY <1>1, Zenon DEF Init
<1>4. LayersInv
  <2>1. layers = [s \in Scenes |-> <<>>] /\ killed = {}
    BY <1>1 DEF Init
  <2>2. QED
    BY <1>2, <1>3, <2>1 DEF LayersInv
<1>5. QED
  BY <1>1, <1>4 DEF Init, WalkInv, NoDangling

(* One step of the walk: l_i is at another layer, not before l_b.          *)
LEMMA SteppedFacts ==
  ASSUME LayersInv, WalkInv, Walking
  PROVE  /\ walk \in Walk /\ Stepped \in Walk
         /\ Stepped.scene = walk.scene /\ Stepped.b = walk.b
         /\ Stepped.slayer = None /\ ~Stepped.dangling
         /\ Stepped.disturbed = walk.disturbed
         /\ ~Stepped.finished =>
              /\ walk.i \notin {Stepped.i, Stepped.b}
              /\ Ordered(layers[walk.scene], walk.b, Stepped.i)
<1> DEFINE s == layers[walk.scene]
           p == Place(s, walk.i)
<1>1. walk \in Walk /\ ~walk.finished /\ ~walk.dangling /\ walk.slayer = None
  BY DEF Walking, WalkInv, Walk
<1>2. s \in Seq(Layers) /\ IsInjective(s) /\ Len(s) \in Nat /\ DOMAIN s = 1..Len(s)
  BY <1>1 DEF LayersInv, Walk
<1>3. PICK j, k \in 1..Len(s) : j <= k /\ s[j] = walk.b /\ s[k] = walk.i
  BY <1>1, <1>2 DEF WalkInv, Ordered, Walking
<1>4. p = k
  BY <1>2, <1>3 DEF Place, IsInjective
<1>5. CASE walk.i = walk.b
  <2>1. Stepped = [walk EXCEPT !.finished = TRUE, !.i = walk.i,
                               !.seen = Append(walk.seen, walk.i)]
    BY <1>1, <1>5 DEF Stepped, Walk
  <2>2. Append(walk.seen, walk.i) \in Seq(Layers)
    BY <1>1 DEF Walk
  <2>3. QED
    BY <1>1, <2>1, <2>2 DEF Walk
<1>6. CASE walk.i # walk.b
  <2>1. j <= k - 1 /\ k - 1 \in 1..Len(s) /\ k # k - 1
    BY <1>2, <1>3, <1>6
  <2>2. s[k - 1] \in Layers /\ s[k - 1] # walk.i /\ Ordered(s, walk.b, s[k - 1])
    BY <1>2, <1>3, <2>1 DEF Ordered, IsInjective
  <2>3. Stepped = [walk EXCEPT !.finished = FALSE, !.i = s[k - 1],
                               !.seen = Append(walk.seen, walk.i)]
    BY <1>1, <1>4, <1>6 DEF Stepped, Walk
  <2>4. Append(walk.seen, walk.i) \in Seq(Layers)
    BY <1>1 DEF Walk
  <2>5. QED
    BY <1>1, <1>6, <2>2, <2>3, <2>4 DEF Walk
<1>7. QED
  BY <1>5, <1>6

(* The game takes a layer off a scene: whichever list changes, the nodes   *)
(* of the walk stay in it, or the walk is marked.                          *)
LEMMA TakenKeeps ==
  ASSUME LayersInv, WalkInv, NoDangling, GameRuns,
         NEW s \in Scenes, NEW l \in ToSet(layers[s]),
         layers' \in [Scenes -> Seq(Layers)],
         \A r \in Scenes \ {s} : layers'[r] = layers[r],
         \A x, y : Ordered(layers[s], x, y) /\ l \notin {x, y} => Ordered(layers'[s], x, y),
         walk' = Disturbed(walk, l)
  PROVE  WalkInv' /\ NoDangling'
<1>1. CASE walk = None
  BY <1>1 DEF Disturbed, WalkInv, NoDangling
<1>2. CASE walk # None /\ l \notin ToSet(layers[walk.scene])
  <2>1. walk' = walk /\ walk \in Walk /\ walk.scene # s /\ walk.scene \in Scenes
    BY <1>2 DEF Disturbed, WalkInv, Walk
  <2>2. QED
    BY <2>1 DEF WalkInv, NoDangling
<1>3. CASE walk # None /\ l \in ToSet(layers[walk.scene])
  <2> DEFINE freed == ~walk.finished /\ l \in {walk.i, walk.b}
  <2>1. walk \in Walk /\ walk.slayer # None
    BY <1>3 DEF WalkInv, GameRuns
  <2>2. walk' = [walk EXCEPT !.dangling = walk.dangling \/ freed,
                             !.disturbed = walk.disturbed \/ l # walk.slayer]
    BY <1>3, <2>1 DEF Disturbed, Freed, Walk
  <2>3. /\ walk' \in Walk /\ walk'.scene = walk.scene /\ walk'.i = walk.i
        /\ walk'.b = walk.b /\ walk'.slayer = walk.slayer /\ walk'.finished = walk.finished
        /\ walk'.dangling = (walk.dangling \/ freed)
        /\ walk'.disturbed = (walk.disturbed \/ l # walk.slayer)
    BY <2>1, <2>2 DEF Walk
  <2>4. NoDangling'
    BY <1>3, <2>3 DEF NoDangling, WalkInv
  <2>5. ASSUME ~walk.finished, ~walk'.dangling
        PROVE  Ordered(layers'[walk.scene], walk.b, walk.i)
    <3>1. Ordered(layers[walk.scene], walk.b, walk.i) /\ l \notin {walk.b, walk.i}
      BY <1>3, <2>3, <2>5 DEF WalkInv
    <3>2. walk.scene \in Scenes
      BY <2>1 DEF Walk
    <3>3. QED
      BY <3>1, <3>2
  <2>6. WalkInv'
    BY <1>3, <2>3, <2>5 DEF WalkInv
  <2>7. QED
    BY <2>4, <2>6
<1>4. QED
  BY <1>1, <1>2, <1>3

LEMMA IStep == IInv /\ [Next]_vars => IInv'
<1> SUFFICES ASSUME IInv, [Next]_vars PROVE IInv'
  OBVIOUS
<1> USE SceneAssumption
<1>1. /\ LayersInv /\ WalkInv /\ NoDangling
      /\ active \in Scenes \cup {None} /\ None \notin Layers /\ StackInv'
  BY StackStep DEF IInv, StackInv
<1> SUFFICES LayersInv' /\ WalkInv' /\ NoDangling'
  BY <1>1 DEF IInv
<1>2. ASSUME NEW l \in Layers, PushLayer(l) PROVE LayersInv' /\ WalkInv' /\ NoDangling'
  <2> DEFINE s == layers[SceneOf[l]]
  <2>1. SceneOf[l] \in Scenes /\ s \in Seq(Layers) /\ IsInjective(s) /\ l \notin ToSet(s)
    BY <1>1, <1>2 DEF LayersInv, PushLayer
  <2>2. /\ <<l>> \o s \in Seq(Layers) /\ IsInjective(<<l>> \o s)
        /\ \A x, y : Ordered(s, x, y) => Ordered(<<l>> \o s, x, y)
    BY <2>1, PushKeeps
  <2>3. /\ layers' = [layers EXCEPT ![SceneOf[l]] = <<l>> \o s]
        /\ walk' = walk /\ UNCHANGED <<killed, suspended>>
    BY <1>2 DEF PushLayer
  <2>4. LayersInv'
    BY <1>1, <2>1, <2>2, <2>3 DEF LayersInv
  <2>5. \A r \in Scenes : \A x, y :
          Ordered(layers[r], x, y) => Ordered(layers'[r], x, y)
    BY <1>1, <2>1, <2>2, <2>3 DEF LayersInv
  <2>6. walk # None => walk.scene \in Scenes
    BY <1>1 DEF WalkInv, Walk
  <2>7. WalkInv' /\ NoDangling'
    BY <1>1, <2>3, <2>5, <2>6 DEF WalkInv, NoDangling
  <2>8. QED
    BY <2>4, <2>7
<1>3. ASSUME NEW s \in Scenes, PopLayer(s) PROVE LayersInv' /\ WalkInv' /\ NoDangling'
  <2> DEFINE t == layers[s]
  <2>1. t \in Seq(Layers) /\ IsInjective(t) /\ t # <<>> /\ Head(t) \in ToSet(t)
    BY <1>1, <1>3, TailFacts DEF LayersInv, PopLayer
  <2>2. /\ Tail(t) \in Seq(Layers) /\ IsInjective(Tail(t))
        /\ \A x, y : Ordered(t, x, y) /\ Head(t) \notin {x, y} => Ordered(Tail(t), x, y)
    BY <2>1, PopKeeps
  <2>3. /\ layers' = [layers EXCEPT ![s] = Tail(t)]
        /\ walk' = Disturbed(walk, Head(t)) /\ UNCHANGED <<killed, suspended>> /\ GameRuns
    BY <1>3 DEF PopLayer
  <2>4. LayersInv'
    BY <1>1, <2>2, <2>3 DEF LayersInv
  <2>5. /\ layers' \in [Scenes -> Seq(Layers)]
        /\ \A r \in Scenes \ {s} : layers'[r] = layers[r]
        /\ layers'[s] = Tail(t)
    BY <1>1, <2>3, <2>4 DEF LayersInv
  <2>6. WalkInv' /\ NoDangling'
    BY <1>1, <2>1, <2>2, <2>3, <2>5, TakenKeeps
  <2>7. QED
    BY <2>4, <2>6
<1>4. ASSUME NEW l \in Layers, RemoveLayer(l) PROVE LayersInv' /\ WalkInv' /\ NoDangling'
  <2> DEFINE s == SceneOf[l]
             t == layers[s]
  <2>1. s \in Scenes /\ t \in Seq(Layers) /\ IsInjective(t) /\ l \in ToSet(t)
    BY <1>1, <1>4 DEF LayersInv, RemoveLayer
  <2>2. /\ Without(t, l) \in Seq(Layers) /\ IsInjective(Without(t, l))
        /\ \A x, y : Ordered(t, x, y) /\ l \notin {x, y} => Ordered(Without(t, l), x, y)
    BY <2>1, RemoveKeeps
  <2>3. /\ layers' = [layers EXCEPT ![s] = Without(t, l)]
        /\ walk' = Disturbed(walk, l) /\ UNCHANGED <<killed, suspended>> /\ GameRuns
    BY <1>4 DEF RemoveLayer
  <2>4. LayersInv'
    BY <1>1, <2>1, <2>2, <2>3 DEF LayersInv
  <2>5. /\ layers' \in [Scenes -> Seq(Layers)]
        /\ \A r \in Scenes \ {s} : layers'[r] = layers[r]
        /\ layers'[s] = Without(t, l)
    BY <1>1, <2>1, <2>3, <2>4 DEF LayersInv
  <2>6. WalkInv' /\ NoDangling'
    BY <1>1, <2>1, <2>2, <2>3, <2>5, TakenKeeps
  <2>7. QED
    BY <2>4, <2>6
<1>5. ASSUME NEW l \in Layers, Kill(l) PROVE LayersInv' /\ WalkInv' /\ NoDangling'
  BY <1>1, <1>5 DEF Kill, LayersInv, WalkInv, NoDangling
<1>6. ASSUME UpdateBegin PROVE LayersInv' /\ WalkInv' /\ NoDangling'
  <2> DEFINE s == layers[active]
             k == Blocker(s, UpdateBlock)
  <2>1. active \in Scenes /\ s \in Seq(Layers) /\ s # <<>>
    BY <1>1, <1>6 DEF UpdateBegin, LayersInv
  <2>2. k \in DOMAIN s
    BY <2>1, BlockerFacts
  <2>3. 1 \in DOMAIN s /\ 1 <= k /\ s[1] = Head(s) /\ s[k] \in Layers /\ Head(s) \in Layers
    BY <2>1, <2>2
  <2> HIDE DEF k
  <2>4. Ordered(s, Head(s), s[k])
    BY <2>2, <2>3 DEF Ordered
  <2>5. walk' = [scene |-> active, i |-> s[k], b |-> Head(s),
                 slayer |-> None, finished |-> FALSE, dangling |-> FALSE,
                 was |-> s, dead |-> killed, seen |-> <<>>, disturbed |-> FALSE]
        /\ UNCHANGED <<layers, killed, suspended>>
    BY <1>6 DEF UpdateBegin, k
  <2>6. walk' \in Walk
    BY <1>1, <2>1, <2>3, <2>5 DEF Walk, LayersInv
  <2>7. QED
    BY <1>1, <2>3, <2>4, <2>5, <2>6 DEF LayersInv, WalkInv, NoDangling
<1>7. ASSUME RemoveZombie PROVE LayersInv' /\ WalkInv' /\ NoDangling'
  <2> DEFINE t == layers[walk.scene]
  <2>1. Walking /\ walk \in Walk
    BY <1>1, <1>7 DEF RemoveZombie, Walking, WalkInv
  <2>2. walk.scene \in Scenes /\ t \in Seq(Layers) /\ IsInjective(t)
    BY <1>1, <2>1 DEF LayersInv, Walk
  <2>3. /\ Without(t, walk.i) \in Seq(Layers) /\ IsInjective(Without(t, walk.i))
        /\ \A x, y : Ordered(t, x, y) /\ walk.i \notin {x, y}
                       => Ordered(Without(t, walk.i), x, y)
    BY <2>2, RemoveKeeps
  <2>4. /\ layers' = [layers EXCEPT ![walk.scene] = Without(t, walk.i)]
        /\ walk' = Freed(Stepped, walk.i) /\ UNCHANGED <<killed, suspended>>
    BY <1>7 DEF RemoveZombie
  <2>5. LayersInv'
    BY <1>1, <2>2, <2>3, <2>4 DEF LayersInv
  <2>6. walk' = Stepped
    <3>1. Freed(Stepped, walk.i) = [Stepped EXCEPT !.dangling = FALSE]
      BY <1>1, <2>1, SteppedFacts DEF Freed, Walk
    <3>2. QED
      BY <1>1, <2>1, <2>4, <3>1, SteppedFacts DEF Walk
  <2>7. ~walk'.finished => Ordered(layers'[walk'.scene], walk'.b, walk'.i)
    BY <1>1, <2>1, <2>2, <2>3, <2>4, <2>6, SteppedFacts DEF LayersInv
  <2>8. QED
    BY <1>1, <2>1, <2>5, <2>6, <2>7, SteppedFacts DEF WalkInv, NoDangling, Walk
<1>8. ASSUME UpdateLayer PROVE LayersInv' /\ WalkInv' /\ NoDangling'
  <2>1. Walking /\ walk \in Walk
    BY <1>1, <1>8 DEF UpdateLayer, Walking, WalkInv
  <2>2. walk' = [Stepped EXCEPT !.slayer = walk.i] /\ UNCHANGED <<layers, killed, suspended>>
    BY <1>8 DEF UpdateLayer
  <2>3. /\ walk' \in Walk /\ walk'.scene = walk.scene /\ walk'.b = walk.b
        /\ walk'.i = Stepped.i /\ walk'.slayer = walk.i /\ ~walk'.dangling
        /\ walk'.finished = Stepped.finished
    BY <1>1, <2>1, <2>2, SteppedFacts DEF Walk
  <2>4. QED
    BY <1>1, <2>1, <2>2, <2>3, SteppedFacts DEF LayersInv, WalkInv, NoDangling
<1>9. ASSUME LayerReturn PROVE LayersInv' /\ WalkInv' /\ NoDangling'
  <2>1. /\ walk \in Walk /\ walk' = [walk EXCEPT !.slayer = None]
        /\ UNCHANGED <<layers, killed, suspended>>
    BY <1>1, <1>9 DEF LayerReturn, WalkInv
  <2>2. QED
    BY <1>1, <1>9, <2>1 DEF LayersInv, WalkInv, NoDangling, LayerReturn, Walk
<1>10. ASSUME UpdateEnd PROVE LayersInv' /\ WalkInv' /\ NoDangling'
  BY <1>1, <1>10 DEF UpdateEnd, LayersInv, WalkInv, NoDangling
<1>11. CASE UNCHANGED <<layers, killed, walk>> /\ suspended' \in BOOLEAN
  BY <1>1, <1>11 DEF LayersInv, WalkInv, NoDangling
<1>12. QED
  BY <1>2, <1>3, <1>4, <1>5, <1>6, <1>7, <1>8, <1>9, <1>10, <1>11
     DEF IInv, LayersInv, Next, Game, Update, vars, PushScene, PopScene, SetBackground,
         Suspend

(* Type correctness: a walk in progress is one over layers that exist, at  *)
(* nodes that hold layers.                                                 *)
THEOREM TypeCorrect == Spec => []TypeOK
<1>1. IInv => TypeOK
  BY DEF IInv, StackInv, LayersInv, WalkInv, TypeOK
<1>2. QED
  BY <1>1, IInit, IStep, PTL DEF Spec

(* Scene::update uses no freed node unless a layer's update has taken      *)
(* another layer off the scene: for any number of layers, with whatever    *)
(* layers push and kill and wherever the zombies are.                      *)
THEOREM WalkClear == Spec => []NoDangling
<1>1. IInv => NoDangling
  BY DEF IInv
<1>2. QED
  BY <1>1, IInit, IStep, PTL DEF Spec

-----------------------------------------------------------------------------
(* What the walk has come by and was dead at its start is off the scene,   *)
(* at every moment of the walk and whatever layers do: the game pushes no  *)
(* killed layer.                                                           *)
Buried(w) ==
  /\ w.dead \subseteq killed
  /\ ToSet(w.seen) \cap w.dead \cap ToSet(layers[w.scene]) = {}

BuriedInv == walk # None => Buried(walk)

(* No step of the game loses a killed layer or brings a buried one back.   *)
LEMMA BuriedStays ==
  ASSUME IInv, BuriedInv, walk # None, walk' # None,
         walk'.dead = walk.dead, walk'.seen = walk.seen, walk'.scene = walk.scene,
         killed \subseteq killed',
         ToSet(layers'[walk.scene]) \subseteq ToSet(layers[walk.scene]) \cup (Layers \ killed)
  PROVE  BuriedInv'
<1>1. Buried(walk)
  BY DEF BuriedInv
<1>2. QED
  BY <1>1 DEF BuriedInv, Buried

LEMMA BuriedStep == IInv /\ BuriedInv /\ [Next]_vars => BuriedInv'
<1> SUFFICES ASSUME IInv, BuriedInv, [Next]_vars PROVE BuriedInv'
  OBVIOUS
<1> USE SceneAssumption
<1>1. /\ LayersInv /\ WalkInv /\ active \in Scenes \cup {None}
      /\ walk # None => walk \in Walk /\ walk.scene \in Scenes
  BY DEF IInv, StackInv, WalkInv, Walk
<1>2. ASSUME NEW l, walk # None
      PROVE  LET w == Disturbed(walk, l)
             IN  w # None => /\ w.dead = walk.dead /\ w.seen = walk.seen
                             /\ w.scene = walk.scene
  BY <1>1, <1>2 DEF Disturbed, Freed, Walk
<1>3. ASSUME NEW l, walk = None PROVE Disturbed(walk, l) = None
  BY <1>3 DEF Disturbed
<1>4. ASSUME NEW l \in Layers, PushLayer(l) PROVE BuriedInv'
  <2> DEFINE s == layers[SceneOf[l]]
  <2>1. SceneOf[l] \in Scenes /\ s \in Seq(Layers) /\ l \notin killed
    BY <1>1, <1>4 DEF LayersInv, PushLayer
  <2>2. ToSet(<<l>> \o s) \subseteq ToSet(s) \cup {l}
    <3>1. \A k \in DOMAIN (<<l>> \o s) : (<<l>> \o s)[k] = l \/ \E j \in DOMAIN s : (<<l>> \o s)[k] = s[j]
      <4>1. /\ DOMAIN s = 1..Len(s) /\ Len(s) \in Nat
            /\ DOMAIN (<<l>> \o s) = 1..Len(s) + 1
            /\ (<<l>> \o s)[1] = l
            /\ \A k \in 1..Len(s) + 1 : k # 1 => k - 1 \in 1..Len(s)
                                                 /\ (<<l>> \o s)[k] = s[k - 1]
        BY <2>1
      <4>2. QED
        BY <4>1
    <3>2. QED
      BY <3>1 DEF ToSet
  <2>3. /\ layers' = [layers EXCEPT ![SceneOf[l]] = <<l>> \o s]
        /\ walk' = walk /\ killed' = killed
    BY <1>4 DEF PushLayer
  <2>4. \A r \in Scenes : ToSet(layers'[r]) \subseteq ToSet(layers[r]) \cup (Layers \ killed)
    BY <1>1, <2>1, <2>2, <2>3 DEF LayersInv
  <2>5. CASE walk = None
    BY <2>3, <2>5 DEF BuriedInv
  <2>6. CASE walk # None
    BY <1>1, <2>3, <2>4, <2>6, BuriedStays
  <2>7. QED
    BY <2>5, <2>6
<1>5. ASSUME NEW s \in Scenes, NEW l, NEW t, ToSet(t) \subseteq ToSet(layers[s]),
             layers' = [layers EXCEPT ![s] = t], walk' = Disturbed(walk, l), killed' = killed
      PROVE  BuriedInv'
  <2>1. \A r \in Scenes : ToSet(layers'[r]) \subseteq ToSet(layers[r])
    BY <1>1, <1>5 DEF LayersInv
  <2>2. CASE walk = None
    BY <1>3, <1>5, <2>2 DEF BuriedInv
  <2>3. CASE walk # None /\ walk' = None
    BY <2>3 DEF BuriedInv
  <2>4. CASE walk # None /\ walk' # None
    BY <1>1, <1>2, <1>5, <2>1, <2>4, BuriedStays
  <2>5. QED
    BY <2>2, <2>3, <2>4
<1>6. ASSUME NEW s \in Scenes, PopLayer(s) PROVE BuriedInv'
  <2>1. layers[s] \in Seq(Layers) /\ IsInjective(layers[s]) /\ layers[s] # <<>>
    BY <1>1, <1>6 DEF LayersInv, PopLayer
  <2>2. ToSet(Tail(layers[s])) \subseteq ToSet(layers[s])
    BY <2>1, TailFacts
  <2>3. QED
    BY <1>5, <1>6, <2>2 DEF PopLayer
<1>7. ASSUME NEW l \in Layers, RemoveLayer(l) PROVE BuriedInv'
  <2>1. /\ SceneOf[l] \in Scenes /\ layers[SceneOf[l]] \in Seq(Layers)
        /\ IsInjective(layers[SceneOf[l]])
    BY <1>1 DEF LayersInv
  <2>2. ToSet(Without(layers[SceneOf[l]], l)) \subseteq ToSet(layers[SceneOf[l]])
    BY <2>1, WithoutFacts
  <2>3. QED
    BY <1>5, <1>7, <2>1, <2>2 DEF RemoveLayer
<1>8. ASSUME NEW l \in Layers, Kill(l) PROVE BuriedInv'
  BY <1>8 DEF Kill, BuriedInv, Buried
<1>9. ASSUME UpdateBegin PROVE BuriedInv'
  <2>1. walk'.dead = killed /\ walk'.seen = <<>> /\ killed' = killed
    BY <1>9 DEF UpdateBegin
  <2>2. ToSet(<<>>) = {}
    BY DEF ToSet
  <2>3. QED
    BY <2>1, <2>2 DEF BuriedInv, Buried
<1>10. ASSUME Walking
       PROVE  /\ walk # None /\ Stepped \in Walk
              /\ Stepped.dead = walk.dead /\ Stepped.scene = walk.scene
              /\ ToSet(Stepped.seen) = ToSet(walk.seen) \cup {walk.i}
  <2>1. walk # None /\ walk \in Walk
    BY <1>1, <1>10 DEF Walking
  <2>2. ToSet(Append(walk.seen, walk.i)) = ToSet(walk.seen) \cup {walk.i}
    BY <2>1, AppendFacts DEF Walk
  <2>3. Stepped \in Walk
    BY <1>1, <1>10, SteppedFacts
  <2>4. /\ Stepped.dead = walk.dead /\ Stepped.scene = walk.scene
        /\ Stepped.seen = Append(walk.seen, walk.i)
    BY <2>1 DEF Stepped, Walk
  <2>5. QED
    BY <2>1, <2>2, <2>3, <2>4
<1>11. ASSUME RemoveZombie PROVE BuriedInv'
  <2> DEFINE t == layers[walk.scene]
  <2>1. Walking /\ walk # None /\ Buried(walk)
    BY <1>11 DEF RemoveZombie, Walking, BuriedInv
  <2>2. t \in Seq(Layers) /\ IsInjective(t) /\ walk.scene \in Scenes
    BY <1>1, <2>1 DEF LayersInv
  <2>3. ToSet(Without(t, walk.i)) = ToSet(t) \ {walk.i}
    BY <2>2, WithoutFacts
  <2>4. /\ layers' = [layers EXCEPT ![walk.scene] = Without(t, walk.i)]
        /\ walk' = Freed(Stepped, walk.i) /\ killed' = killed
    BY <1>11 DEF RemoveZombie
  <2>5. layers'[walk.scene] = Without(t, walk.i)
    BY <1>1, <2>2, <2>4 DEF LayersInv
  <2>6. /\ walk'.dead = walk.dead /\ walk'.scene = walk.scene
        /\ ToSet(walk'.seen) = ToSet(walk.seen) \cup {walk.i}
    BY <1>10, <2>1, <2>4 DEF Freed, Walk
  <2>7. QED
    BY <2>1, <2>3, <2>4, <2>5, <2>6 DEF BuriedInv, Buried
<1>12. ASSUME UpdateLayer PROVE BuriedInv'
  <2>1. Walking /\ walk # None /\ Buried(walk) /\ walk.i \notin killed
    BY <1>12 DEF UpdateLayer, Walking, BuriedInv
  <2>2. /\ walk' = [Stepped EXCEPT !.slayer = walk.i]
        /\ killed' = killed /\ layers' = layers
    BY <1>12 DEF UpdateLayer
  <2>3. /\ walk'.dead = walk.dead /\ walk'.scene = walk.scene
        /\ ToSet(walk'.seen) = ToSet(walk.seen) \cup {walk.i}
    BY <1>10, <2>1, <2>2 DEF Walk
  <2>4. QED
    BY <2>1, <2>2, <2>3 DEF BuriedInv, Buried
<1>13. ASSUME LayerReturn PROVE BuriedInv'
  BY <1>1, <1>13 DEF LayerReturn, BuriedInv, Buried, Walk
<1>14. ASSUME UpdateEnd PROVE BuriedInv'
  BY <1>14 DEF UpdateEnd, BuriedInv
<1>15. CASE UNCHANGED <<layers, killed, walk>>
  BY <1>15 DEF BuriedInv, Buried
<1>16. QED
  BY <1>4, <1>6, <1>7, <1>8, <1>9, <1>11, <1>12, <1>13, <1>14, <1>15
     DEF Next, Game, Update, vars, PushScene, PopScene, SetBackground, Suspend

(* No layer that a Scene::update has come by and that was dead when it     *)
(* began is left on the scene, for any number of layers.                   *)
THEOREM ZombiesGone == Spec => []ZombiesBuried
<1>1. Init => BuriedInv
  BY DEF Init, BuriedInv
<1>2. BuriedInv => ZombiesBuried
  BY DEF BuriedInv, Buried, ZombiesBuried
<1>3. QED
  BY <1>1, <1>2, IInit, IStep, BuriedStep, PTL DEF Spec
-----------------------------------------------------------------------------
(* The first m layers of t are in the list s, one behind the other, with o *)
(* layers before them.                                                     *)
Block(s, t, o, m) == o + m <= Len(s) /\ \A k \in 1..m : s[o + k] = t[k]

LEMMA BlockPush ==
  ASSUME NEW s \in Seq(Layers), NEW l \in Layers, NEW t, NEW o \in Nat, NEW m \in Nat,
         Block(s, t, o, m)
  PROVE  Block(<<l>> \o s, t, o + 1, m)
<1> DEFINE r == <<l>> \o s
<1>1. /\ Len(s) \in Nat /\ Len(r) = Len(s) + 1
      /\ \A k \in 1..Len(s) : r[k + 1] = s[k]
  OBVIOUS
<1> HIDE DEF r
<1>2. o + 1 + m <= Len(r)
  BY <1>1 DEF Block
<1>3. ASSUME NEW k \in 1..m PROVE r[o + 1 + k] = t[k]
  <2>1. o + m <= Len(s) /\ s[o + k] = t[k]
    BY DEF Block
  <2>2. o + k \in 1..Len(s) /\ o + 1 + k = (o + k) + 1
    BY <1>1, <2>1
  <2>3. QED
    BY <1>1, <2>1, <2>2
<1>4. QED
  BY <1>2, <1>3 DEF Block, r

LEMMA BlockWithout ==
  ASSUME NEW s \in Seq(Layers), IsInjective(s), NEW x, NEW t, NEW o \in Nat,
         NEW m \in Nat \ {0}, Block(s, t, o, m), \A k \in 1..m : t[k] # x
  PROVE  \E q \in Nat : Block(Without(s, x), t, q, m)
<1>1. CASE x \notin ToSet(s)
  BY <1>1 DEF Without
<1>2. CASE x \in ToSet(s)
  <2> DEFINE r == Without(s, x)
             p == Place(s, x)
  <2>1. p \in 1..Len(s) /\ s[p] = x /\ Len(s) \in Nat
    BY <1>2, PlaceFacts
  <2>2. r = RemoveAt(s, p)
    BY <1>2 DEF Without
  <2>3. /\ Len(r) = Len(s) - 1
        /\ \A i \in 1..Len(s) - 1 : r[i] = IF i < p THEN s[i] ELSE s[i + 1]
    BY <2>1, <2>2, RemoveAtFacts
  <2> HIDE DEF r, p
  <2>4. \A k \in 1..m : o + k # p /\ o + k \in 1..Len(s) /\ s[o + k] = t[k]
    BY <2>1 DEF Block
  <2>5. p <= o \/ o + m < p
    <3>1. SUFFICES ASSUME o < p, p <= o + m PROVE FALSE
      BY <2>1
    <3>2. p - o \in 1..m /\ o + (p - o) = p
      BY <2>1, <3>1
    <3>3. QED
      BY <2>4, <3>2
  <2>6. CASE p <= o
    <3>1. o - 1 \in Nat /\ (o - 1) + m <= Len(r)
      BY <2>1, <2>3, <2>6 DEF Block
    <3>2. ASSUME NEW k \in 1..m PROVE r[(o - 1) + k] = t[k]
      <4>1. /\ (o - 1) + k \in 1..Len(s) - 1 /\ ~((o - 1) + k < p)
            /\ ((o - 1) + k) + 1 = o + k
        BY <2>1, <2>4, <2>6
      <4>2. QED
        BY <2>3, <2>4, <4>1
    <3>3. QED
      BY <3>1, <3>2 DEF Block, r
  <2>7. CASE o + m < p
    <3>1. o + m <= Len(r)
      BY <2>1, <2>3, <2>7
    <3>2. ASSUME NEW k \in 1..m PROVE r[o + k] = t[k]
      <4>1. o + k \in 1..Len(s) - 1 /\ o + k < p
        BY <2>1, <2>7
      <4>2. QED
        BY <2>3, <2>4, <4>1
    <3>3. QED
      BY <3>1, <3>2 DEF Block, r
  <2>8. QED
    BY <2>5, <2>6, <2>7
<1>3. QED
  BY <1>1, <1>2

LEMMA TailIsWithout ==
  ASSUME NEW s \in Seq(Layers), IsInjective(s), s # <<>>
  PROVE  Tail(s) = Without(s, Head(s))
<1>1. Head(s) \in ToSet(s) /\ Place(s, Head(s)) = 1
  BY HeadFacts
<1>2. /\ Len(s) \in Nat /\ 1 \in 1..Len(s)
      /\ Tail(s) \in Seq(Layers) /\ Len(Tail(s)) = Len(s) - 1
      /\ \A i \in 1..Len(s) - 1 : Tail(s)[i] = s[i + 1]
  OBVIOUS
<1> DEFINE r == RemoveAt(s, 1)
<1>3. /\ r \in Seq(Layers) /\ Len(r) = Len(s) - 1
      /\ \A i \in 1..Len(s) - 1 : r[i] = s[i + 1]
  <2>1. \A i \in 1..Len(s) - 1 : ~(i < 1)
    BY <1>2
  <2>2. QED
    BY <1>2, <2>1, RemoveAtFacts
<1>4. Without(s, Head(s)) = r
  BY <1>1 DEF Without
<1> HIDE DEF r
<1>5. Tail(s) = r
  BY <1>2, <1>3, SeqEqual
<1>6. QED
  BY <1>4, <1>5

(* A walk that no layer has disturbed: it has come by the layers from the  *)
(* blocking one, each once and in order, and those it still has to come by *)
(* are together on the scene, wherever layers were pushed or removed.      *)
Walked(w) ==
  LET n == Len(w.seen)
      k == Blocker(w.was, UpdateBlock)
  IN  /\ w.was # <<>> /\ IsInjective(w.was)
      /\ w.b = w.was[1]
      /\ n <= k
      /\ \A j \in 1..n : w.seen[j] = w.was[k + 1 - j]
      /\ w.finished => n = k
      /\ ~w.finished => /\ n < k
                        /\ w.i = w.was[k - n]
                        /\ \E o \in Nat : Block(layers[w.scene], w.was, o, k - n)
      /\ w.slayer # None => n > 0 /\ w.slayer = w.seen[n]

WalkedInv == walk # None /\ ~walk.disturbed => Walked(walk)

(* The nodes, the layers come by and the layer under way stay as they are, *)
(* and so do the layers still to come.                                     *)
LEMMA WalkedStays ==
  ASSUME WalkedInv, walk # None, walk' # None, walk'.disturbed \/ ~walk.disturbed,
         walk'.was = walk.was, walk'.seen = walk.seen, walk'.scene = walk.scene,
         walk'.i = walk.i, walk'.b = walk.b, walk'.finished = walk.finished,
         walk'.slayer \in {walk.slayer, None},
         \A o, m \in Nat : ~walk'.disturbed /\ ~walk.finished /\ m # 0
                            /\ m = Blocker(walk.was, UpdateBlock) - Len(walk.seen)
                            /\ Block(layers[walk.scene], walk.was, o, m) =>
                              \E q \in Nat : Block(layers'[walk.scene], walk.was, q, m),
         Len(walk.seen) \in Nat,
         Blocker(walk.was, UpdateBlock) \in Nat
  PROVE  WalkedInv'
<1> DEFINE n == Len(walk.seen)
           k == Blocker(walk.was, UpdateBlock)
<1>1. SUFFICES ASSUME ~walk'.disturbed PROVE Walked(walk)'
  BY DEF WalkedInv
<1>2. /\ walk.was # <<>> /\ IsInjective(walk.was)
      /\ walk.b = walk.was[1]
      /\ n <= k
      /\ \A j \in 1..n : walk.seen[j] = walk.was[k + 1 - j]
      /\ walk.finished => n = k
      /\ ~walk.finished => /\ n < k
                           /\ walk.i = walk.was[k - n]
                           /\ \E o \in Nat : Block(layers[walk.scene], walk.was, o, k - n)
      /\ walk.slayer # None => n > 0 /\ walk.slayer = walk.seen[n]
  BY <1>1 DEF WalkedInv, Walked
<1>3. ASSUME ~walk.finished
      PROVE  \E o \in Nat : Block(layers'[walk.scene], walk.was, o, k - n)
  <2>1. PICK o \in Nat : Block(layers[walk.scene], walk.was, o, k - n)
    BY <1>2, <1>3
  <2>2. k - n \in Nat /\ k - n # 0
    BY <1>2, <1>3
  <2> HIDE DEF n, k
  <2>3. QED
    BY <1>1, <1>3, <2>1, <2>2 DEF n, k
<1>4. Len(walk'.seen) = n /\ Blocker(walk'.was, UpdateBlock) = k
  OBVIOUS
<1> HIDE DEF n, k
<1>5. QED
  BY <1>2, <1>3, <1>4 DEF Walked

(* What a walk is made of, for the lemmas above.                           *)
LEMMA WalkedTypes ==
  ASSUME LayersInv, WalkInv, walk # None
  PROVE  /\ walk \in Walk /\ walk.scene \in Scenes
         /\ layers[walk.scene] \in Seq(Layers) /\ IsInjective(layers[walk.scene])
         /\ Len(layers[walk.scene]) \in Nat
         /\ walk.seen \in Seq(Layers) /\ Len(walk.seen) \in Nat
         /\ walk.was \in Seq(Layers)
         /\ walk.was # <<>> => Blocker(walk.was, UpdateBlock) \in 1..Len(walk.was)
<1>1. walk \in Walk
  BY DEF WalkInv
<1>2. walk.scene \in Scenes /\ walk.was \in Seq(Layers) /\ walk.seen \in Seq(Layers)
  BY <1>1 DEF Walk
<1>3. layers[walk.scene] \in Seq(Layers) /\ IsInjective(layers[walk.scene])
  BY <1>2 DEF LayersInv
<1>4. ASSUME walk.was # <<>> PROVE Blocker(walk.was, UpdateBlock) \in DOMAIN walk.was
  BY <1>2, <1>4, BlockerFacts
<1>5. DOMAIN walk.was = 1..Len(walk.was)
  BY <1>2
<1>6. QED
  BY <1>1, <1>2, <1>3, <1>4, <1>5

(* The game takes a layer off a scene: off the scene of the walk only the  *)
(* layer under way, which is not among those still to come.                *)
LEMMA WalkedTaken ==
  ASSUME LayersInv, WalkInv, WalkedInv, GameRuns,
         NEW s \in Scenes, NEW l \in ToSet(layers[s]),
         layers' = [layers EXCEPT ![s] = Without(layers[s], l)],
         walk' = Disturbed(walk, l)
  PROVE  WalkedInv'
<1>1. CASE walk = None
  BY <1>1 DEF Disturbed, WalkedInv
<1>2. CASE walk # None /\ walk'.disturbed
  BY <1>2 DEF WalkedInv
<1>3. CASE walk # None /\ walk' # None /\ ~walk'.disturbed
  <2> DEFINE n == Len(walk.seen)
             k == Blocker(walk.was, UpdateBlock)
  <2>1. /\ walk \in Walk /\ walk.scene \in Scenes
        /\ layers[walk.scene] \in Seq(Layers) /\ IsInjective(layers[walk.scene])
        /\ n \in Nat /\ walk.was \in Seq(Layers)
        /\ walk.was # <<>> => k \in 1..Len(walk.was)
    BY <1>3, WalkedTypes
  <2>2. /\ ~walk.disturbed
        /\ walk'.was = walk.was /\ walk'.seen = walk.seen /\ walk'.scene = walk.scene
        /\ walk'.i = walk.i /\ walk'.b = walk.b /\ walk'.finished = walk.finished
        /\ walk'.slayer = walk.slayer
        /\ l \in ToSet(layers[walk.scene]) => l = walk.slayer
    <3>1. CASE l \notin ToSet(layers[walk.scene])
      BY <1>3, <2>1, <3>1 DEF Disturbed
    <3>2. CASE l \in ToSet(layers[walk.scene])
      <4>1. walk' = [walk EXCEPT !.dangling = @ \/ (~walk.finished /\ l \in {walk.i, walk.b}),
                                 !.disturbed = @ \/ l # walk.slayer]
        BY <1>3, <2>1, <3>2 DEF Disturbed, Freed, Walk
      <4>2. QED
        BY <1>3, <2>1, <4>1 DEF Walk
    <3>3. QED
      BY <3>1, <3>2
  <2>3. Walked(walk)
    BY <1>3, <2>2 DEF WalkedInv
  <2>4. k \in Nat /\ k \in 1..Len(walk.was) /\ Len(walk.was) \in Nat
    BY <2>1, <2>3 DEF Walked
  <2>5. ASSUME NEW o \in Nat, NEW m \in Nat, ~walk.finished, m # 0, m = k - n,
               Block(layers[walk.scene], walk.was, o, m)
        PROVE  \E q \in Nat : Block(layers'[walk.scene], walk.was, q, m)
    <3>1. CASE l \notin ToSet(layers[walk.scene])
      <4>1. layers'[walk.scene] = layers[walk.scene]
        BY <2>1, <3>1 DEF LayersInv
      <4>2. QED
        BY <2>5, <4>1
    <3>2. CASE l \in ToSet(layers[walk.scene]) /\ s # walk.scene
      <4>1. layers'[walk.scene] = layers[walk.scene]
        BY <2>1, <3>2 DEF LayersInv
      <4>2. QED
        BY <2>5, <4>1
    <3>3. CASE l \in ToSet(layers[walk.scene]) /\ s = walk.scene
      <4>1. layers'[walk.scene] = Without(layers[walk.scene], l)
        BY <2>1, <3>3 DEF LayersInv
      <4>2. n > 0 /\ l = walk.seen[n]
        BY <1>3, <2>2, <2>3, <3>3 DEF Walked, GameRuns
      <4>3. walk.seen[n] = walk.was[k + 1 - n]
        BY <2>1, <2>3, <4>2 DEF Walked
      <4>4. \A i \in 1..Len(walk.was) : i # k + 1 - n => walk.was[i] # l
        <5>1. k + 1 - n \in 1..Len(walk.was) /\ DOMAIN walk.was = 1..Len(walk.was)
          BY <2>1, <2>4, <2>5, <4>2
        <5>2. IsInjective(walk.was)
          BY <2>3 DEF Walked
        <5>3. QED
          BY <4>2, <4>3, <5>1, <5>2 DEF IsInjective
      <4>5. \A i \in 1..m : walk.was[i] # l
        <5>1. \A i \in 1..m : i \in 1..Len(walk.was) /\ i # k + 1 - n
          BY <2>1, <2>4, <2>5, <4>2
        <5>2. QED
          BY <4>4, <5>1
      <4> DEFINE t == layers[walk.scene]
      <4>6. m \in Nat \ {0} /\ t \in Seq(Layers) /\ IsInjective(t)
            /\ Block(t, walk.was, o, m)
        BY <2>1, <2>5
      <4> HIDE DEF t
      <4>7. \E q \in Nat : Block(Without(t, l), walk.was, q, m)
        BY <4>5, <4>6, BlockWithout
      <4>8. QED
        BY <4>1, <4>7 DEF t
    <3>4. QED
      BY <3>1, <3>2, <3>3
  <2>6. QED
    BY <1>3, <2>1, <2>2, <2>4, <2>5, WalkedStays
<1>4. CASE walk' = None
  BY <1>4 DEF WalkedInv
<1>5. QED
  BY <1>1, <1>2, <1>3, <1>4

(* One step of an undisturbed walk: it comes by the last of the layers     *)
(* still to come.                                                          *)
LEMMA WalkedStepped ==
  ASSUME LayersInv, WalkInv, WalkedInv, Walking, ~walk.disturbed
  PROVE  LET n == Len(walk.seen)
             k == Blocker(walk.was, UpdateBlock)
         IN  /\ n \in Nat /\ k \in 1..Len(walk.was) /\ n + 1 <= k
             /\ Len(walk.was) \in Nat
             /\ walk.was # <<>> /\ IsInjective(walk.was)
             /\ Stepped.was = walk.was /\ Stepped.b = walk.was[1]
             /\ Stepped.scene = walk.scene /\ Stepped.slayer = None
             /\ Len(Stepped.seen) = n + 1
             /\ \A j \in 1..n + 1 : Stepped.seen[j] = walk.was[k + 1 - j]
             /\ walk.i = walk.was[k - n] /\ Stepped.seen[n + 1] = walk.i
             /\ Stepped.finished => n + 1 = k
             /\ ~Stepped.finished =>
                  /\ n + 1 < k
                  /\ Stepped.i = walk.was[k - (n + 1)]
                  /\ \E o \in Nat : Block(layers[walk.scene], walk.was, o, k - (n + 1))
<1> DEFINE n == Len(walk.seen)
           k == Blocker(walk.was, UpdateBlock)
           s == layers[walk.scene]
<1>1. walk # None /\ ~walk.finished /\ walk.slayer = None
  BY DEF Walking
<1>2. /\ walk \in Walk /\ s \in Seq(Layers) /\ IsInjective(s) /\ Len(s) \in Nat
      /\ walk.seen \in Seq(Layers) /\ n \in Nat /\ walk.was \in Seq(Layers)
      /\ walk.was # <<>> => k \in 1..Len(walk.was)
  BY <1>1, WalkedTypes
<1>3. /\ walk.was # <<>> /\ IsInjective(walk.was)
      /\ walk.b = walk.was[1]
      /\ \A j \in 1..n : walk.seen[j] = walk.was[k + 1 - j]
      /\ n < k /\ walk.i = walk.was[k - n]
      /\ \E o \in Nat : Block(s, walk.was, o, k - n)
  BY <1>1 DEF WalkedInv, Walked
<1>4. /\ k \in 1..Len(walk.was) /\ Len(walk.was) \in Nat /\ DOMAIN walk.was = 1..Len(walk.was)
      /\ k - n \in 1..Len(walk.was) /\ 1 \in 1..Len(walk.was)
  BY <1>2, <1>3
<1> HIDE DEF n, k, s
<1>5. PICK o \in Nat : Block(s, walk.was, o, k - n)
  BY <1>3
<1>6. /\ o + (k - n) <= Len(s)
      /\ \A i \in 1..k - n : s[o + i] = walk.was[i]
  BY <1>5 DEF Block
<1>7. o + (k - n) \in 1..Len(s) /\ s[o + (k - n)] = walk.i
  <2>1. k - n \in 1..k - n /\ o + (k - n) \in 1..Len(s)
    BY <1>2, <1>4, <1>6
  <2>2. QED
    BY <1>3, <1>6, <2>1
<1>8. walk.i \in ToSet(s) /\ Place(s, walk.i) = o + (k - n)
  <2>1. walk.i \in ToSet(s)
    BY <1>2, <1>7 DEF ToSet
  <2>2. \A j \in 1..Len(s) : s[j] = walk.i => j = Place(s, walk.i)
    BY <1>2, <2>1, PlaceFacts
  <2>3. QED
    BY <1>7, <2>1, <2>2
<1>9. /\ Stepped.was = walk.was /\ Stepped.b = walk.b
      /\ Stepped.scene = walk.scene /\ Stepped.slayer = None
      /\ Stepped.seen = Append(walk.seen, walk.i)
      /\ Stepped.finished = (walk.i = walk.b)
      /\ walk.i # walk.b => Stepped.i = s[Place(s, walk.i) - 1]
  BY <1>1, <1>2 DEF Stepped, Walk, s
<1>10. walk.i = walk.b <=> k - n = 1
  BY <1>3, <1>4 DEF IsInjective
<1>11. /\ Len(Stepped.seen) = n + 1 /\ Stepped.seen[n + 1] = walk.i
       /\ \A j \in 1..n : Stepped.seen[j] = walk.seen[j]
  <2>1. walk.i \in Layers
    BY <1>2 DEF Walk
  <2>2. /\ Len(Append(walk.seen, walk.i)) = n + 1
        /\ Append(walk.seen, walk.i)[n + 1] = walk.i
        /\ \A j \in 1..n : Append(walk.seen, walk.i)[j] = walk.seen[j]
    BY <1>2, <2>1 DEF n
  <2>3. QED
    BY <1>9, <2>2
<1>12. \A j \in 1..n + 1 : Stepped.seen[j] = walk.was[k + 1 - j]
  <2>1. k + 1 - (n + 1) = k - n
    BY <1>2, <1>4
  <2>2. \A j \in 1..n + 1 : j \in 1..n \/ j = n + 1
    BY <1>2
  <2>3. QED
    BY <1>3, <1>11, <2>1, <2>2
<1>13. ASSUME ~Stepped.finished
       PROVE  /\ n + 1 < k
              /\ Stepped.i = walk.was[k - (n + 1)]
              /\ Block(s, walk.was, o, k - (n + 1))
  <2>0. walk.i # walk.b /\ k - n # 1
    BY <1>9, <1>10, <1>13
  <2>a. n \in Nat /\ k \in Nat /\ n < k
    BY <1>2, <1>3, <1>4
  <2>1. n + 1 < k /\ Stepped.i = s[(o + (k - n)) - 1]
    <3>1. n + 1 < k
      BY <2>0, <2>a
    <3>2. QED
      BY <1>8, <1>9, <2>0, <3>1
  <2>2. (o + (k - n)) - 1 = o + (k - (n + 1)) /\ k - (n + 1) \in 1..k - n
    BY <2>1, <2>a
  <2>3. Stepped.i = walk.was[k - (n + 1)]
    BY <1>6, <2>1, <2>2
  <2>4. o + (k - (n + 1)) <= Len(s)
    BY <1>2, <1>4, <1>6
  <2>5. \A i \in 1..k - (n + 1) : s[o + i] = walk.was[i]
    BY <1>2, <1>4, <1>6
  <2>6. QED
    BY <2>1, <2>3, <2>4, <2>5 DEF Block
<1>14. ASSUME Stepped.finished PROVE n + 1 = k
  <2>1. k - n = 1
    BY <1>9, <1>10, <1>14
  <2>2. QED
    BY <1>2, <1>4, <2>1
<1>15. n + 1 <= k
  BY <1>2, <1>3, <1>4
<1>16. QED
  BY <1>2, <1>3, <1>4, <1>9, <1>11, <1>12, <1>13, <1>14, <1>15 DEF n, k, s

(* What the walk has come by leaves the layers still to come together.     *)
LEMMA WalkedZombie ==
  ASSUME LayersInv, WalkInv, WalkedInv, RemoveZombie
  PROVE  WalkedInv'
<1> DEFINE n == Len(walk.seen)
           k == Blocker(walk.was, UpdateBlock)
           t == layers[walk.scene]
<1>1. Walking /\ walk # None
  BY DEF RemoveZombie, Walking
<1>2. /\ walk \in Walk /\ walk.scene \in Scenes /\ t \in Seq(Layers) /\ IsInjective(t)
      /\ Stepped \in Walk /\ Stepped.disturbed = walk.disturbed
  BY <1>1, WalkedTypes, SteppedFacts
<1>3. /\ walk' = [Stepped EXCEPT !.dangling = @ \/ (~Stepped.finished
                                                     /\ walk.i \in {Stepped.i, Stepped.b})]
      /\ layers'[walk.scene] = Without(t, walk.i)
  BY <1>2 DEF RemoveZombie, Freed, LayersInv
<1>4. /\ walk'.disturbed = walk.disturbed
      /\ walk'.was = Stepped.was /\ walk'.seen = Stepped.seen
      /\ walk'.scene = Stepped.scene /\ walk'.i = Stepped.i /\ walk'.b = Stepped.b
      /\ walk'.finished = Stepped.finished /\ walk'.slayer = Stepped.slayer
  <2>1. walk' \in Walk
    BY <1>2, <1>3 DEF Walk
  <2>2. QED
    BY <1>2, <1>3, <2>1 DEF Walk
<1>5. SUFFICES ASSUME ~walk.disturbed PROVE Walked(walk)'
  BY <1>4 DEF WalkedInv
<1>6. /\ n \in Nat /\ k \in 1..Len(walk.was) /\ n + 1 <= k
      /\ Len(walk.was) \in Nat
      /\ walk.was # <<>> /\ IsInjective(walk.was)
      /\ Stepped.was = walk.was /\ Stepped.b = walk.was[1]
      /\ Stepped.scene = walk.scene /\ Stepped.slayer = None
      /\ Len(Stepped.seen) = n + 1
      /\ \A j \in 1..n + 1 : Stepped.seen[j] = walk.was[k + 1 - j]
      /\ walk.i = walk.was[k - n]
      /\ Stepped.finished => n + 1 = k
      /\ ~Stepped.finished =>
           /\ n + 1 < k
           /\ Stepped.i = walk.was[k - (n + 1)]
           /\ \E o \in Nat : Block(t, walk.was, o, k - (n + 1))
  BY <1>1, <1>5, WalkedStepped
<1>7. Len(walk'.seen) = n + 1 /\ Blocker(walk'.was, UpdateBlock) = k
  BY <1>4, <1>6
<1> HIDE DEF n, k, t
<1>8. ASSUME ~Stepped.finished
      PROVE  \E o \in Nat : Block(layers'[walk.scene], walk.was, o, k - (n + 1))
  <2> DEFINE m == k - (n + 1)
  <2>1. PICK o \in Nat : Block(t, walk.was, o, m)
    BY <1>6, <1>8
  <2>2. m \in Nat \ {0}
    BY <1>6, <1>8
  <2>3. \A i \in 1..m : walk.was[i] # walk.i
    <3>1. DOMAIN walk.was = 1..Len(walk.was)
      BY <1>2 DEF Walk
    <3>2. \A i \in 1..m : i \in 1..Len(walk.was) /\ i # k - n /\ k - n \in 1..Len(walk.was)
      BY <1>6
    <3>3. QED
      BY <1>6, <3>1, <3>2 DEF IsInjective
  <2> HIDE DEF m
  <2>4. \E q \in Nat : Block(Without(t, walk.i), walk.was, q, m)
    BY <1>2, <2>1, <2>2, <2>3, BlockWithout
  <2>5. QED
    BY <1>3, <2>4 DEF m
<1>9. QED
  BY <1>4, <1>6, <1>7, <1>8 DEF Walked

LEMMA WalkedUpdate ==
  ASSUME LayersInv, WalkInv, WalkedInv, UpdateLayer
  PROVE  WalkedInv'
<1> DEFINE n == Len(walk.seen)
           k == Blocker(walk.was, UpdateBlock)
<1>1. Walking /\ walk # None
  BY DEF UpdateLayer, Walking
<1>2. walk \in Walk /\ Stepped \in Walk /\ Stepped.disturbed = walk.disturbed
  BY <1>1, SteppedFacts
<1>3. walk' = [Stepped EXCEPT !.slayer = walk.i] /\ layers' = layers
  BY DEF UpdateLayer
<1>4. /\ walk'.disturbed = walk.disturbed
      /\ walk'.was = Stepped.was /\ walk'.seen = Stepped.seen
      /\ walk'.scene = Stepped.scene /\ walk'.i = Stepped.i /\ walk'.b = Stepped.b
      /\ walk'.finished = Stepped.finished /\ walk'.slayer = walk.i
  BY <1>2, <1>3 DEF Walk
<1>5. SUFFICES ASSUME ~walk.disturbed PROVE Walked(walk)'
  BY <1>4 DEF WalkedInv
<1>6. /\ n \in Nat /\ k \in 1..Len(walk.was) /\ n + 1 <= k
      /\ walk.was # <<>> /\ IsInjective(walk.was)
      /\ Stepped.was = walk.was /\ Stepped.b = walk.was[1]
      /\ Stepped.scene = walk.scene
      /\ Len(Stepped.seen) = n + 1 /\ Stepped.seen[n + 1] = walk.i
      /\ \A j \in 1..n + 1 : Stepped.seen[j] = walk.was[k + 1 - j]
      /\ Stepped.finished => n + 1 = k
      /\ ~Stepped.finished =>
           /\ n + 1 < k
           /\ Stepped.i = walk.was[k - (n + 1)]
           /\ \E o \in Nat : Block(layers[walk.scene], walk.was, o, k - (n + 1))
  BY <1>1, <1>5, WalkedStepped
<1>7. Len(walk'.seen) = n + 1 /\ Blocker(walk'.was, UpdateBlock) = k
  BY <1>4, <1>6
<1>8. n + 1 > 0
  BY <1>6
<1> HIDE DEF n, k
<1>9. QED
  BY <1>3, <1>4, <1>6, <1>7, <1>8 DEF Walked

LEMMA WalkedStep == IInv /\ WalkedInv /\ [Next]_vars => WalkedInv'
<1> SUFFICES ASSUME IInv, WalkedInv, [Next]_vars PROVE WalkedInv'
  OBVIOUS
<1> USE SceneAssumption
<1>1. LayersInv /\ WalkInv /\ active \in Scenes \cup {None}
  BY DEF IInv, StackInv
<1>2. ASSUME NEW l \in Layers, PushLayer(l) PROVE WalkedInv'
  <2> DEFINE s == layers[SceneOf[l]]
  <2>1. SceneOf[l] \in Scenes /\ s \in Seq(Layers)
    BY <1>1 DEF LayersInv
  <2>2. layers' = [layers EXCEPT ![SceneOf[l]] = <<l>> \o s] /\ walk' = walk
    BY <1>2 DEF PushLayer
  <2>3. CASE walk = None \/ walk.disturbed
    BY <2>2, <2>3 DEF WalkedInv
  <2>4. CASE walk # None /\ ~walk.disturbed
    <3>1. /\ walk.scene \in Scenes /\ layers[walk.scene] \in Seq(Layers)
          /\ Len(walk.seen) \in Nat
          /\ walk.was # <<>> => Blocker(walk.was, UpdateBlock) \in 1..Len(walk.was)
      BY <1>1, <2>4, WalkedTypes
    <3>2. Blocker(walk.was, UpdateBlock) \in Nat
      BY <2>4, <3>1 DEF WalkedInv, Walked
    <3>3. \/ layers'[walk.scene] = layers[walk.scene]
          \/ layers'[walk.scene] = <<l>> \o layers[walk.scene]
      BY <1>1, <2>1, <2>2, <3>1 DEF LayersInv
    <3>4. ASSUME NEW o \in Nat, NEW m \in Nat, Block(layers[walk.scene], walk.was, o, m)
          PROVE  \E q \in Nat : Block(layers'[walk.scene], walk.was, q, m)
      <4> DEFINE t == layers[walk.scene]
      <4>1. t \in Seq(Layers) /\ Block(t, walk.was, o, m)
        BY <3>1, <3>4
      <4> HIDE DEF t
      <4>2. Block(<<l>> \o t, walk.was, o + 1, m)
        BY <4>1, BlockPush
      <4>3. o + 1 \in Nat
        OBVIOUS
      <4>4. QED
        BY <3>3, <4>1, <4>2, <4>3 DEF t
    <3>5. QED
      BY <2>2, <2>4, <3>1, <3>2, <3>4, WalkedStays
  <2>5. QED
    BY <2>3, <2>4
<1>3. ASSUME NEW s \in Scenes, PopLayer(s) PROVE WalkedInv'
  <2> DEFINE t == layers[s]
  <2>1. t \in Seq(Layers) /\ IsInjective(t) /\ t # <<>>
    BY <1>1, <1>3 DEF LayersInv, PopLayer
  <2>2. Tail(t) = Without(t, Head(t)) /\ Head(t) \in ToSet(t)
    BY <2>1, TailIsWithout, TailFacts
  <2>3. /\ layers' = [layers EXCEPT ![s] = Tail(t)]
        /\ walk' = Disturbed(walk, Head(t)) /\ GameRuns
    BY <1>3 DEF PopLayer
  <2>4. QED
    BY <1>1, <2>2, <2>3, WalkedTaken
<1>4. ASSUME NEW l \in Layers, RemoveLayer(l) PROVE WalkedInv'
  <2> DEFINE s == SceneOf[l]
             t == layers[s]
  <2>1. s \in Scenes /\ l \in ToSet(t)
    BY <1>4 DEF RemoveLayer
  <2>2. /\ layers' = [layers EXCEPT ![s] = Without(t, l)]
        /\ walk' = Disturbed(walk, l) /\ GameRuns
    BY <1>4 DEF RemoveLayer
  <2>3. QED
    BY <1>1, <2>1, <2>2, WalkedTaken
<1>5. ASSUME UpdateBegin PROVE WalkedInv'
  <2> DEFINE s == layers[active]
             k == Blocker(s, UpdateBlock)
  <2>1. active \in Scenes /\ s \in Seq(Layers) /\ s # <<>> /\ IsInjective(s)
    BY <1>1, <1>5 DEF UpdateBegin, LayersInv
  <2>2. k \in 1..Len(s) /\ Len(s) \in Nat
    BY <2>1, BlockerFacts
  <2>3. /\ walk' = [scene |-> active, i |-> s[k], b |-> Head(s),
                    slayer |-> None, finished |-> FALSE, dangling |-> FALSE,
                    was |-> s, dead |-> killed, seen |-> <<>>, disturbed |-> FALSE]
        /\ layers' = layers
    BY <1>5 DEF UpdateBegin
  <2>4. Block(s, s, 0, k)
    <3>1. 0 + k <= Len(s) /\ \A i \in 1..k : 0 + i = i
      BY <2>2
    <3> HIDE DEF s, k
    <3>2. QED
      BY <3>1 DEF Block
  <2>5. Head(s) = s[1]
    BY <2>1
  <2>6. Len(<<>>) = 0 /\ 0 \in Nat /\ k - 0 = k /\ 0 < k
    BY <2>2
  <2>7. /\ walk'.was = s /\ walk'.b = s[1] /\ Len(walk'.seen) = 0 /\ ~walk'.finished
        /\ walk'.i = s[k] /\ layers'[walk'.scene] = s /\ walk'.slayer = None
    BY <2>3, <2>5, <2>6
  <2>8. Blocker(walk'.was, UpdateBlock) = k
    BY <2>7
  <2>9. Walked(walk)'
    <3> HIDE DEF s, k
    <3>1. k - Len(walk'.seen) = k /\ Len(walk'.seen) < k /\ Len(walk'.seen) <= k
          /\ \A j \in 1..Len(walk'.seen) : FALSE
      BY <2>2, <2>7
    <3>2. \E o \in Nat : Block(layers'[walk'.scene], walk'.was, o, k)
      BY <2>4, <2>6, <2>7
    <3>3. QED
      BY <2>1, <2>7, <2>8, <3>1, <3>2 DEF Walked
  <2>10. QED
    BY <2>9 DEF WalkedInv
<1>6. ASSUME RemoveZombie PROVE WalkedInv'
  BY <1>1, <1>6, WalkedZombie
<1>7. ASSUME UpdateLayer PROVE WalkedInv'
  BY <1>1, <1>7, WalkedUpdate
<1>8. ASSUME LayerReturn PROVE WalkedInv'
  <2>1. /\ walk # None /\ walk' = [walk EXCEPT !.slayer = None] /\ layers' = layers
    BY <1>8 DEF LayerReturn
  <2>2. /\ walk \in Walk /\ walk.scene \in Scenes /\ Len(walk.seen) \in Nat
        /\ walk.was # <<>> => Blocker(walk.was, UpdateBlock) \in 1..Len(walk.was)
    BY <1>1, <2>1, WalkedTypes
  <2>3. /\ walk'.was = walk.was /\ walk'.seen = walk.seen /\ walk'.scene = walk.scene
        /\ walk'.i = walk.i /\ walk'.b = walk.b /\ walk'.finished = walk.finished
        /\ walk'.slayer = None /\ walk'.disturbed = walk.disturbed
    BY <2>1, <2>2 DEF Walk
  <2>4. CASE walk' = None \/ walk.disturbed
    BY <2>3, <2>4 DEF WalkedInv
  <2>5. CASE walk' # None /\ ~walk.disturbed
    <3>1. Blocker(walk.was, UpdateBlock) \in Nat
      BY <2>1, <2>2, <2>5 DEF WalkedInv, Walked
    <3>2. QED
      BY <2>1, <2>2, <2>3, <2>5, <3>1, WalkedStays
  <2>6. QED
    BY <2>4, <2>5
<1>9. ASSUME UpdateEnd PROVE WalkedInv'
  BY <1>9 DEF UpdateEnd, WalkedInv
<1>10. CASE UNCHANGED <<layers, walk>>
  BY <1>10 DEF WalkedInv, Walked, Block
<1>11. QED
  BY <1>2, <1>3, <1>4, <1>5, <1>6, <1>7, <1>8, <1>9, <1>10
     DEF Next, Game, Update, vars, PushScene, PopScene, SetBackground, Suspend, Kill

(* An undisturbed Scene::update comes by every layer from the one that     *)
(* blocks updates to the front, once each, in order, and by no other: for  *)
(* any number of layers and whatever they push, kill and remove meanwhile. *)
THEOREM WalkComesByAll == Spec => []WalkedAll
<1>1. Init => WalkedInv
  BY DEF Init, WalkedInv
<1>2. IInv /\ WalkedInv => WalkedAll
  <2>1. SUFFICES ASSUME IInv, WalkedInv, Undisturbed PROVE WalkedAll
    BY DEF WalkedAll
  <2> DEFINE n == Len(walk.seen)
             k == Blocker(walk.was, UpdateBlock)
  <2>2. walk # None /\ walk.finished /\ Walked(walk) /\ LayersInv /\ WalkInv
    BY <2>1 DEF Undisturbed, WalkedInv, IInv
  <2>3. /\ walk.seen \in Seq(Layers) /\ walk.was \in Seq(Layers)
    BY <2>2, WalkedTypes
  <2>4. /\ walk.was # <<>> /\ n = k
        /\ \A j \in 1..n : walk.seen[j] = walk.was[k + 1 - j]
    BY <2>2 DEF Walked
  <2>5. /\ k \in 1..Len(walk.was)
        /\ \A j \in 1..k - 1 : walk.was[j] \notin UpdateBlock
        /\ walk.was[k] \in UpdateBlock \/ k = Len(walk.was)
    BY <2>3, <2>4, BlockerFacts
  <2>6. Reverse(walk.seen) = SubSeq(walk.was, 1, n)
    <3> DEFINE r == Reverse(walk.seen)
               t == SubSeq(walk.was, 1, n)
    <3>1. n \in Nat /\ Len(walk.was) \in Nat /\ n \in 1..Len(walk.was)
      BY <2>3, <2>4, <2>5
    <3>2. t \in Seq(Layers) /\ Len(t) = n /\ \A i \in 1..n : t[i] = walk.was[i]
      BY <2>3, <3>1
    <3>3. r = [i \in 1..n |-> walk.seen[(n - i) + 1]]
      BY DEF Reverse
    <3>4. \A i \in 1..n : (n - i) + 1 \in 1..n /\ k + 1 - ((n - i) + 1) = i
      BY <2>4, <3>1
    <3> HIDE DEF r, t, n, k
    <3>5. \A i \in 1..n : r[i] = walk.was[i]
      BY <2>4, <3>3, <3>4
    <3>6. \A i \in 1..n : walk.seen[i] \in Layers
      BY <2>3 DEF n
    <3>7. r \in Seq(Layers) /\ Len(r) = n
      <4>1. r \in [1..n -> Layers]
        BY <3>3, <3>4, <3>6
      <4>2. QED
        BY <3>1, <4>1
    <3>8. QED
      BY <3>2, <3>5, <3>7, SeqEqual DEF r, t, n
  <2>7. QED
    BY <2>4, <2>5, <2>6 DEF WalkedAll
<1>3. QED
  BY <1>1, <1>2, IInit, IStep, WalkedStep, PTL DEF Spec

-----------------------------------------------------------------------------
(* FlattenSeq by its first n sequences. *)
FlatStep(ss, f, n) == IF n = 1 THEN ss[n] ELSE f[n - 1] \o ss[n]

LEMMA FlatExists ==
  ASSUME NEW ss, NEW m \in Nat
  PROVE  \E f : f = [n \in 1..m |-> FlatStep(ss, f, n)]
<1> DEFINE Exists(k) == \E f : f = [n \in 1..k |-> FlatStep(ss, f, n)]
           G == {k \in 0..m : Exists(k)}
<1>1. 0 \in G
  <2> DEFINE e == [n \in 1..0 |-> <<>>]
  <2>1. e = [n \in 1..0 |-> FlatStep(ss, e, n)]
    OBVIOUS
  <2> HIDE DEF e
  <2>2. Exists(0)
    BY ONLY <2>1
  <2> HIDE DEF Exists
  <2>3. QED
    BY <2>2
<1>2. ASSUME NEW k \in 1..m, k - 1 \in G PROVE k \in G
  <2>1. PICK f : f = [n \in 1..k - 1 |-> FlatStep(ss, f, n)]
    BY <1>2
  <2> DEFINE g == [n \in 1..k |-> IF n < k THEN f[n] ELSE FlatStep(ss, f, k)]
  <2>2. ASSUME NEW n \in 1..k PROVE g[n] = FlatStep(ss, g, n)
    <3>1. g[n] = FlatStep(ss, f, n)
      BY <2>1
    <3>2. n # 1 => g[n - 1] = f[n - 1]
      OBVIOUS
    <3>3. QED
      BY <3>1, <3>2 DEF FlatStep
  <2>3. g = [n \in 1..k |-> FlatStep(ss, g, n)]
    BY <2>2
  <2> HIDE DEF g
  <2>4. \E h : h = [n \in 1..k |-> FlatStep(ss, h, n)]
    BY ONLY <2>3
  <2>5. k \in 0..m
    OBVIOUS
  <2>6. QED
    BY <2>4, <2>5
<1>3. G = 0..m
  <2> HIDE DEF G
  <2>1. G \in SUBSET (0..m)
    BY DEF G
  <2>2. QED
    BY <1>1, <1>2, <2>1, UpTo
<1>4. QED
  BY <1>3

LEMMA FlatFacts ==
  ASSUME NEW ss, Len(ss) \in Nat \ {0}
  PROVE  \E f : /\ FlattenSeq(ss) = f[Len(ss)]
                /\ \A n \in 1..Len(ss) : f[n] = FlatStep(ss, f, n)
<1> DEFINE flatten == CHOOSE f : f = [n \in 1..Len(ss) |-> FlatStep(ss, f, n)]
<1>1. FlattenSeq(ss) = flatten[Len(ss)]
  BY DEF FlattenSeq, FlatStep
<1>2. flatten = [n \in 1..Len(ss) |-> FlatStep(ss, flatten, n)]
  <2>1. \E f : f = [n \in 1..Len(ss) |-> FlatStep(ss, f, n)]
    BY FlatExists
  <2>2. QED
    BY ONLY <2>1
<1>3. \A n \in 1..Len(ss) : flatten[n] = FlatStep(ss, flatten, n)
  BY ONLY <1>2
<1>4. QED
  BY <1>1, <1>3

(* What two lists one behind the other hold. *)
LEMMA ConcatFacts ==
  ASSUME NEW S, NEW s \in Seq(S), NEW t \in Seq(S)
  PROVE  /\ s \o t \in Seq(S) /\ Len(s \o t) = Len(s) + Len(t)
         /\ \A i \in 1..Len(s) : (s \o t)[i] = s[i]
         /\ \A i \in 1..Len(t) : (s \o t)[Len(s) + i] = t[i]
         /\ ToSet(s \o t) = ToSet(s) \cup ToSet(t)
<1> DEFINE r == s \o t
<1>1. /\ r \in Seq(S) /\ Len(r) = Len(s) + Len(t) /\ Len(s) \in Nat /\ Len(t) \in Nat
      /\ DOMAIN r = 1..Len(s) + Len(t) /\ DOMAIN s = 1..Len(s) /\ DOMAIN t = 1..Len(t)
      /\ \A i \in 1..Len(s) : r[i] = s[i]
      /\ \A i \in 1..Len(t) : r[Len(s) + i] = t[i]
  OBVIOUS
<1> HIDE DEF r
<1>2. ASSUME NEW x \in ToSet(r) PROVE x \in ToSet(s) \cup ToSet(t)
  <2>1. PICK i \in 1..Len(s) + Len(t) : x = r[i]
    BY <1>1 DEF ToSet
  <2>2. CASE i <= Len(s)
    <3>1. i \in 1..Len(s)
      BY <1>1, <2>1, <2>2
    <3>2. QED
      BY <1>1, <2>1, <3>1 DEF ToSet
  <2>3. CASE ~(i <= Len(s))
    <3>1. i - Len(s) \in 1..Len(t) /\ Len(s) + (i - Len(s)) = i
      BY <1>1, <2>1, <2>3
    <3>2. QED
      BY <1>1, <2>1, <3>1 DEF ToSet
  <2>4. QED
    BY <2>2, <2>3
<1>3. ASSUME NEW x \in ToSet(s) \cup ToSet(t) PROVE x \in ToSet(r)
  <2>1. CASE x \in ToSet(s)
    <3>1. PICK i \in 1..Len(s) : x = s[i]
      BY <1>1, <2>1 DEF ToSet
    <3>2. i \in 1..Len(s) + Len(t)
      BY <1>1, <3>1
    <3>3. QED
      BY <1>1, <3>1, <3>2 DEF ToSet
  <2>2. CASE x \in ToSet(t)
    <3>1. PICK i \in 1..Len(t) : x = t[i]
      BY <1>1, <2>2 DEF ToSet
    <3>2. Len(s) + i \in 1..Len(s) + Len(t)
      BY <1>1, <3>1
    <3>3. QED
      BY <1>1, <3>1, <3>2 DEF ToSet
  <2>3. QED
    BY <1>3, <2>1, <2>2
<1>4. QED
  BY <1>1, <1>2, <1>3 DEF r

LEMMA FlatTyped ==
  ASSUME NEW S, NEW N \in Nat \ {0}, NEW ss \in [1..N -> Seq(S)],
         NEW f, \A n \in 1..N : f[n] = FlatStep(ss, f, n),
         NEW n \in 1..N
  PROVE  f[n] \in Seq(S) /\ \A x \in ToSet(f[n]) : \E q \in 1..n : x \in ToSet(ss[q])
<1> DEFINE Good(p) == /\ f[p] \in Seq(S)
                      /\ \A x \in ToSet(f[p]) : \E q \in 1..p : x \in ToSet(ss[q])
           G == {d \in 0..N - 1 : Good(d + 1)}
<1>1. 0 \in G
  <2>1. f[1] = ss[1] /\ ss[1] \in Seq(S)
    BY DEF FlatStep
  <2>2. 0 \in 0..N - 1 /\ 0 + 1 = 1
    OBVIOUS
  <2>3. QED
    BY <2>1, <2>2
<1>2. ASSUME NEW d \in 1..N - 1, d - 1 \in G PROVE d \in G
  <2>1. Good(d)
    <3>1. Good((d - 1) + 1) /\ (d - 1) + 1 = d
      BY <1>2
    <3>2. QED
      BY <3>1
  <2>2. f[d + 1] = f[d] \o ss[d + 1] /\ ss[d + 1] \in Seq(S)
    <3>1. d + 1 \in 1..N /\ d + 1 # 1 /\ (d + 1) - 1 = d
      OBVIOUS
    <3>2. f[d + 1] = FlatStep(ss, f, d + 1)
      BY <3>1
    <3>3. QED
      BY <3>1, <3>2 DEF FlatStep
  <2>3. f[d + 1] \in Seq(S) /\ ToSet(f[d + 1]) = ToSet(f[d]) \cup ToSet(ss[d + 1])
    BY <2>1, <2>2, ConcatFacts
  <2>4. ASSUME NEW x \in ToSet(f[d + 1]) PROVE \E q \in 1..d + 1 : x \in ToSet(ss[q])
    <3>1. 1..d \subseteq 1..d + 1 /\ d + 1 \in 1..d + 1
      OBVIOUS
    <3>2. QED
      BY <2>1, <2>3, <2>4, <3>1
  <2>5. d \in 0..N - 1
    OBVIOUS
  <2>6. QED
    BY <2>3, <2>4, <2>5
<1>3. G = 0..N - 1
  <2> HIDE DEF G
  <2>1. G \in SUBSET (0..N - 1) /\ N - 1 \in Nat
    BY DEF G
  <2>2. QED
    BY <1>1, <1>2, <2>1, UpTo
<1>4. n - 1 \in G /\ (n - 1) + 1 = n
  <2>1. n - 1 \in 0..N - 1 /\ (n - 1) + 1 = n
    OBVIOUS
  <2> HIDE DEF G
  <2>2. QED
    BY <1>3, <2>1
<1>5. Good((n - 1) + 1)
  BY <1>4
<1>6. QED
  BY <1>4, <1>5

(* The q-th sequence is in x, and behind it is only what comes from those  *)
(* behind it, up to the p-th.                                              *)
HasPart(S, ss, q, p, x) ==
  \E u, v \in Seq(S) :
    /\ x = (u \o ss[q]) \o v
    /\ \A y \in ToSet(v) : \E i \in q + 1..p : y \in ToSet(ss[i])

LEMMA FlatParts ==
  ASSUME NEW S, NEW N \in Nat \ {0}, NEW ss, ss \in [1..N -> Seq(S)],
         NEW f, \A n \in 1..N : f[n] = FlatStep(ss, f, n),
         NEW q \in 1..N
  PROVE  HasPart(S, ss, q, N, f[N])
<1>0. \A a, v, z \in Seq(S) : (a \o v) \o z = a \o (v \o z)
  BY ONLY ConcatAssociative
<1> DEFINE Parts(p) == \E u, v \in Seq(S) :
                         /\ f[p] = (u \o ss[q]) \o v
                         /\ \A x \in ToSet(v) : \E i \in q + 1..p : x \in ToSet(ss[i])
           G == {d \in 0..N - q : Parts(q + d)}
<1>1. 0 \in G
  <2>1. PICK u \in Seq(S) : f[q] = u \o ss[q]
    <3>1. CASE q = 1
      <4>1. f[q] = ss[q] /\ ss[q] \in Seq(S)
        BY <3>1 DEF FlatStep
      <4>2. <<>> \o ss[q] = ss[q] /\ <<>> \in Seq(S)
        BY <4>1, ConcatEmptySeq
      <4>3. QED
        BY <4>1, <4>2
    <3>2. CASE q # 1
      <4>1. q - 1 \in 1..N /\ f[q] = f[q - 1] \o ss[q]
        <5>1. q - 1 \in 1..N
          BY <3>2
        <5>2. f[q] = FlatStep(ss, f, q)
          OBVIOUS
        <5>3. QED
          BY <3>2, <5>1, <5>2 DEF FlatStep
      <4>2. f[q - 1] \in Seq(S)
        BY <4>1, FlatTyped
      <4>3. QED
        BY <4>1, <4>2
    <3>3. QED
      BY <3>1, <3>2
  <2>2. u \o ss[q] \in Seq(S)
    OBVIOUS
  <2>3. f[q] = (u \o ss[q]) \o <<>> /\ <<>> \in Seq(S)
    BY <2>1, <2>2, ConcatEmptySeq
  <2>4. ToSet(<<>>) = {}
    BY DEF ToSet
  <2>5. Parts(q)
    BY <2>3, <2>4
  <2>6. 0 \in 0..N - q /\ q + 0 = q
    OBVIOUS
  <2> HIDE DEF Parts
  <2>7. QED
    BY <2>5, <2>6
<1>2. ASSUME NEW d \in 1..N - q, d - 1 \in G PROVE d \in G
  <2> DEFINE p == q + (d - 1)
  <2>1. PICK u, v \in Seq(S) : /\ f[p] = (u \o ss[q]) \o v
                               /\ \A x \in ToSet(v) : \E i \in q + 1..p : x \in ToSet(ss[i])
    BY <1>2
  <2>2. p \in 1..N /\ p + 1 \in 1..N /\ p + 1 = q + d /\ p + 1 \in q + 1..p + 1
        /\ q + 1..p \subseteq q + 1..p + 1 /\ d \in 0..N - q
    OBVIOUS
  <2> HIDE DEF p
  <2>3. f[p + 1] = f[p] \o ss[p + 1] /\ ss[p + 1] \in Seq(S) /\ ss[q] \in Seq(S)
    <3>1. p + 1 # 1 /\ (p + 1) - 1 = p
      BY <2>2
    <3>2. f[p + 1] = FlatStep(ss, f, p + 1)
      BY <2>2
    <3>3. QED
      BY <2>2, <3>1, <3>2 DEF FlatStep
  <2>4. /\ u \o ss[q] \in Seq(S) /\ v \o ss[p + 1] \in Seq(S)
        /\ ToSet(v \o ss[p + 1]) = ToSet(v) \cup ToSet(ss[p + 1])
    BY <2>3, ConcatFacts
  <2>5. f[p + 1] = (u \o ss[q]) \o (v \o ss[p + 1])
    <3> DEFINE a == u \o ss[q]
               z == ss[p + 1]
    <3>1. /\ a \in Seq(S) /\ v \in Seq(S) /\ z \in Seq(S)
          /\ f[p] = a \o v /\ f[p + 1] = f[p] \o z
      BY <2>1, <2>3, <2>4
    <3> HIDE DEF a, z
    <3>2. f[p + 1] = a \o (v \o z)
      BY ONLY <1>0, <3>1
    <3>3. QED
      BY <3>2 DEF a, z
  <2>6. \A x \in ToSet(v \o ss[p + 1]) : \E i \in q + 1..p + 1 : x \in ToSet(ss[i])
    BY <2>1, <2>2, <2>4
  <2>7. Parts(p + 1)
    BY <2>4, <2>5, <2>6
  <2> HIDE DEF Parts
  <2>8. QED
    BY <2>2, <2>7
<1>3. N - q \in G
  <2> HIDE DEF G
  <2>1. G \in SUBSET (0..N - q) /\ N - q \in Nat
    BY DEF G
  <2>2. G = 0..N - q
    BY <1>1, <1>2, <2>1, UpTo
  <2>3. QED
    BY <2>1, <2>2
<1>4. Parts(q + (N - q))
  BY <1>3
<1>5. q + (N - q) = N
  OBVIOUS
<1>6. QED
  BY <1>4, <1>5 DEF HasPart

(* The layers of a scene that are drawn: from the blocking one to the front *)
LEMMA ShownFacts ==
  ASSUME NEW s \in Seq(Layers), NEW flag
  PROVE  /\ Shown(s, flag) \in Seq(Layers)
         /\ ToSet(Shown(s, flag)) \subseteq ToSet(s)
         /\ s # <<>> => /\ Len(Shown(s, flag)) = Blocker(s, flag)
                        /\ \A i \in 1..Blocker(s, flag) :
                             Shown(s, flag)[i] = s[Blocker(s, flag) + 1 - i]
<1>1. CASE s = <<>>
  <2>1. Shown(s, flag) = <<>>
    BY <1>1 DEF Shown
  <2>2. ToSet(<<>>) = {}
    BY DEF ToSet
  <2>3. QED
    BY <1>1, <2>1, <2>2
<1>2. CASE s # <<>>
  <2> DEFINE b == Blocker(s, flag)
             t == SubSeq(s, 1, b)
             r == Shown(s, flag)
  <2>1. b \in 1..Len(s) /\ Len(s) \in Nat /\ DOMAIN s = 1..Len(s)
    BY <1>2, BlockerFacts
  <2>2. r = Reverse(t)
    BY <1>2 DEF Shown
  <2> HIDE DEF b, r
  <2>3. Len(t) = b /\ \A i \in 1..b : t[i] = s[i]
    BY <2>1
  <2> HIDE DEF t
  <2>4. r = [i \in 1..b |-> t[(b - i) + 1]]
    BY <2>2, <2>3 DEF Reverse
  <2>5. \A i \in 1..b : (b - i) + 1 \in 1..b /\ (b - i) + 1 = b + 1 - i
                         /\ b + 1 - i \in 1..Len(s)
    BY <2>1
  <2>6. \A i \in 1..b : r[i] = s[b + 1 - i] /\ s[b + 1 - i] \in Layers
                         /\ s[b + 1 - i] \in ToSet(s)
    <3>1. \A k \in 1..Len(s) : s[k] \in Layers /\ s[k] \in ToSet(s)
      BY <2>1 DEF ToSet
    <3>2. \A i \in 1..b : r[i] = t[(b - i) + 1]
      BY ONLY <2>4
    <3>3. SUFFICES ASSUME NEW i \in 1..b
                   PROVE  /\ r[i] = s[b + 1 - i] /\ s[b + 1 - i] \in Layers
                          /\ s[b + 1 - i] \in ToSet(s)
      OBVIOUS
    <3>4. r[i] = s[(b - i) + 1]
      BY ONLY <2>3, <2>5, <3>2, i \in 1..b
    <3>5. (b - i) + 1 = b + 1 - i /\ b + 1 - i \in 1..Len(s)
      BY ONLY <2>5, i \in 1..b
    <3>6. QED
      BY ONLY <3>1, <3>4, <3>5
  <2>7. r \in [1..b -> Layers]
    BY <2>4, <2>6
  <2>8. r \in Seq(Layers) /\ Len(r) = b /\ DOMAIN r = 1..b
    BY <2>1, <2>7
  <2>9. ToSet(r) \subseteq ToSet(s)
    BY <2>6, <2>8 DEF ToSet
  <2>10. QED
    BY <2>6, <2>8, <2>9 DEF r, b
<1>3. QED
  BY <1>1, <1>2

(* A layer is on no scene but the one it is made for. *)
Home == \A s \in Scenes : \A l \in ToSet(layers[s]) : SceneOf[l] = s

LEMMA HomeStep == IInv /\ Home /\ [Next]_vars => Home'
<1> SUFFICES ASSUME IInv, Home, [Next]_vars PROVE Home'
  OBVIOUS
<1>1. LayersInv /\ WalkInv /\ SceneOf \in [Layers -> Scenes]
  BY SceneAssumption DEF IInv
<1>2. ASSUME NEW s \in Scenes, NEW t, layers' = [layers EXCEPT ![s] = t],
             \A l \in ToSet(t) : l \in ToSet(layers[s]) \/ SceneOf[l] = s
      PROVE  Home'
  <2>1. SUFFICES ASSUME NEW r \in Scenes, NEW l \in ToSet(layers'[r]) PROVE SceneOf[l] = r
    BY DEF Home
  <2>2. layers'[r] = IF r = s THEN t ELSE layers[r]
    BY <1>1, <1>2 DEF LayersInv
  <2>3. QED
    BY <1>2, <2>1, <2>2 DEF Home
<1>3. ASSUME NEW l \in Layers, PushLayer(l) PROVE Home'
  <2> DEFINE s == layers[SceneOf[l]]
  <2>1. SceneOf[l] \in Scenes /\ s \in Seq(Layers) /\ <<l>> \in Seq(Layers)
    BY <1>1 DEF LayersInv
  <2>2. ToSet(<<l>> \o s) = ToSet(<<l>>) \cup ToSet(s)
    <3> DEFINE u == <<l>>
    <3>1. u \in Seq(Layers) /\ s \in Seq(Layers)
      BY <2>1
    <3> HIDE DEF u, s
    <3>2. ToSet(u \o s) = ToSet(u) \cup ToSet(s)
      BY ONLY <3>1, ConcatFacts
    <3>3. QED
      BY <3>2 DEF u
  <2>3. ToSet(<<l>>) = {l}
    BY DEF ToSet
  <2>4. layers' = [layers EXCEPT ![SceneOf[l]] = <<l>> \o s]
    BY <1>3 DEF PushLayer
  <2> HIDE DEF s
  <2>5. \A x \in ToSet(<<l>> \o s) : x \in ToSet(s) \/ SceneOf[x] = SceneOf[l]
    BY <2>2, <2>3
  <2>6. QED
    BY <1>2, <2>1, <2>4, <2>5 DEF s
<1>4. ASSUME NEW s \in Scenes, PopLayer(s) PROVE Home'
  <2>1. layers[s] \in Seq(Layers) /\ IsInjective(layers[s]) /\ layers[s] # <<>>
    BY <1>1, <1>4 DEF LayersInv, PopLayer
  <2>2. ToSet(Tail(layers[s])) \subseteq ToSet(layers[s])
    BY <2>1, TailFacts
  <2>3. QED
    BY <1>2, <1>4, <2>2 DEF PopLayer
<1>5. ASSUME NEW s \in Scenes, NEW l, layers' = [layers EXCEPT ![s] = Without(@, l)]
      PROVE  Home'
  <2>1. layers[s] \in Seq(Layers) /\ IsInjective(layers[s])
    BY <1>1 DEF LayersInv
  <2>2. ToSet(Without(layers[s], l)) \subseteq ToSet(layers[s])
    BY <2>1, WithoutFacts
  <2>3. QED
    BY <1>2, <1>5, <2>2
<1>6. ASSUME RemoveZombie PROVE Home'
  <2>1. walk.scene \in Scenes
    BY <1>1, <1>6, WalkedTypes DEF RemoveZombie, Walking
  <2>2. QED
    BY <1>5, <1>6, <2>1 DEF RemoveZombie
<1>7. ASSUME NEW l \in Layers, RemoveLayer(l) PROVE Home'
  BY <1>1, <1>5, <1>7 DEF RemoveLayer
<1>8. CASE UNCHANGED layers
  BY <1>8 DEF Home
<1>9. QED
  BY <1>3, <1>4, <1>6, <1>7, <1>8
     DEF Next, Game, Update, vars, PushScene, PopScene, SetBackground, Suspend, Kill,
         UpdateBegin, UpdateLayer, LayerReturn, UpdateEnd

LEMMA FrameFacts ==
  ASSUME IInv, Home,
         NEW s \in Scenes, NEW j \in DOMAIN layers[s], NEW k \in DOMAIN layers[s],
         j < k, layers[s][k] \in ToSet(Frame)
  PROVE  /\ layers[s][j] \notin RenderBlock
         /\ \E m \in DOMAIN Frame : /\ Frame[m] = layers[s][j]
                                    /\ \A n \in m..Len(Frame) : Frame[n] # layers[s][k]
<1> DEFINE scenes == stack \o (IF active = None THEN <<>> ELSE <<active>>)
           N == Len(scenes)
           ss == [i \in DOMAIN scenes |-> Shown(layers[scenes[i]], RenderBlock)]
           t == layers[s]
           b == Blocker(t, RenderBlock)
           r == Shown(t, RenderBlock)
<1>1. LayersInv /\ stack \in Seq(Scenes) /\ active \in Scenes \cup {None}
  BY DEF IInv, StackInv
<1>2. scenes \in Seq(Scenes)
  BY <1>1
<1>3. N \in Nat /\ DOMAIN scenes = 1..N /\ \A i \in 1..N : scenes[i] \in Scenes
  BY <1>2
<1>4. Frame = FlattenSeq(ss)
  BY DEF Frame
<1> HIDE DEF scenes
<1>5. ss \in [1..N -> Seq(Layers)] /\ \A i \in 1..N : ToSet(ss[i]) \subseteq ToSet(layers[scenes[i]])
  <2>1. \A i \in 1..N : layers[scenes[i]] \in Seq(Layers)
    BY <1>1, <1>3 DEF LayersInv
  <2>2. QED
    BY <1>3, <2>1, ShownFacts
<1>6. Len(ss) = N
  BY <1>3, <1>5
<1>7. \A i \in 1..N : scenes[i] = s => ss[i] = r
  BY <1>3
<1>8. /\ t \in Seq(Layers) /\ IsInjective(t) /\ Len(t) \in Nat /\ DOMAIN t = 1..Len(t)
      /\ t # <<>>
  <2>1. t \in Seq(Layers) /\ IsInjective(t)
    BY <1>1 DEF LayersInv
  <2>2. QED
    BY <2>1
<1>9. /\ b \in 1..Len(t)
      /\ \A i \in 1..b - 1 : t[i] \notin RenderBlock
      /\ r \in Seq(Layers) /\ Len(r) = b
      /\ \A i \in 1..b : r[i] = t[b + 1 - i]
  BY <1>8, BlockerFacts, ShownFacts
<1>10. t[j] # t[k] /\ j \in 1..Len(t) /\ k \in 1..Len(t) /\ j < k
  BY <1>8 DEF IsInjective
<1>11. t[k] \in ToSet(FlattenSeq(ss))
  BY <1>4
<1> HIDE DEF N, ss, t, b, r
<1>12. N # 0
  <2>1. SUFFICES ASSUME N = 0 PROVE FALSE
    OBVIOUS
  <2>2. FlattenSeq(ss) = ss
    BY <1>6, <2>1 DEF FlattenSeq
  <2>3. DOMAIN ss = {}
    BY <1>3, <1>5, <2>1
  <2>4. QED
    BY <1>11, <2>2, <2>3 DEF ToSet
<1>13. N \in Nat \ {0}
  BY <1>3, <1>12
<1>14. PICK f : /\ FlattenSeq(ss) = f[N]
                /\ \A n \in 1..N : f[n] = FlatStep(ss, f, n)
  <2>1. Len(ss) \in Nat \ {0}
    BY <1>6, <1>13
  <2>2. QED
    BY <1>6, <2>1, FlatFacts
<1>T. /\ N \in Nat \ {0} /\ ss \in [1..N -> Seq(Layers)]
        /\ \A n \in 1..N : f[n] = FlatStep(ss, f, n)
  BY <1>5, <1>13, <1>14
<1>15. PICK p \in 1..N : t[k] \in ToSet(ss[p])
  <2>1. N \in 1..N
    BY <1>13
  <2>2. \A x \in ToSet(f[N]) : \E i \in 1..N : x \in ToSet(ss[i])
    BY ONLY <1>T, <2>1, FlatTyped
  <2>3. QED
    BY <1>11, <1>14, <2>2
<1>16. \A i \in 1..N : \A l \in ToSet(ss[i]) : SceneOf[l] = scenes[i]
  BY <1>3, <1>5 DEF Home
<1>17. SceneOf[t[k]] = s
  BY <1>8, <1>10 DEF Home, ToSet, t
<1>18. scenes[p] = s /\ ss[p] = r
  BY <1>7, <1>15, <1>16, <1>17
<1>19. k <= b
  <2>1. PICK i \in 1..b : r[i] = t[k]
    <3>1. DOMAIN r = 1..b
      BY <1>9
    <3>2. QED
      BY <1>15, <1>18, <3>1 DEF ToSet
  <2>2. t[b + 1 - i] = t[k] /\ b + 1 - i \in 1..Len(t)
    BY <1>8, <1>9, <2>1
  <2>3. b + 1 - i = k
    BY <1>8, <1>10, <2>2 DEF IsInjective
  <2>4. QED
    BY <1>8, <1>9, <2>1, <2>3
<1>20. t[j] \notin RenderBlock
  <2>1. j \in 1..b - 1
    BY <1>8, <1>9, <1>10, <1>19
  <2>2. QED
    BY <1>9, <2>1
<1>21. PICK q \in 1..N : scenes[q] = s /\ \A i \in q + 1..N : scenes[i] # s
  <2> DEFINE B == {d \in 0..N - 1 : scenes[N - d] = s}
  <2>1. B \in SUBSET Nat
    OBVIOUS
  <2>2. B # {}
    <3>1. N - p \in 0..N - 1 /\ N - (N - p) = p
      BY <1>13
    <3>2. N - p \in B
      BY <1>18, <3>1
    <3>3. QED
      BY <3>2
  <2>3. PICK d \in B : \A e \in B : d <= e
    <3> HIDE DEF B
    <3>1. QED
      BY <2>1, <2>2, Smallest
  <2>4. N - d \in 1..N /\ scenes[N - d] = s
    BY <1>13, <2>3
  <2>5. ASSUME NEW i \in (N - d) + 1..N, scenes[i] = s PROVE FALSE
    <3>1. N - i \in 0..N - 1 /\ N - (N - i) = i /\ ~(d <= N - i)
      BY <1>13, <2>3, <2>5
    <3>2. N - i \in B
      BY <2>5, <3>1
    <3>3. QED
      BY <2>3, <3>1, <3>2
  <2>6. QED
    BY <2>4, <2>5
<1>22. PICK u, v \in Seq(Layers) :
         /\ f[N] = (u \o ss[q]) \o v
         /\ \A x \in ToSet(v) : \E i \in q + 1..N : x \in ToSet(ss[i])
  <2>1. q \in 1..N
    OBVIOUS
  <2>2. HasPart(Layers, ss, q, N, f[N])
    BY ONLY <1>T, <2>1, FlatParts
  <2>3. QED
    BY <2>2 DEF HasPart
<1>23. Frame = (u \o r) \o v
  BY <1>4, <1>7, <1>14, <1>21, <1>22
<1>24. t[k] \notin ToSet(v)
  <2>1. SUFFICES ASSUME t[k] \in ToSet(v) PROVE FALSE
    OBVIOUS
  <2>2. PICK i \in q + 1..N : t[k] \in ToSet(ss[i])
    BY <1>22, <2>1
  <2>3. i \in 1..N
    BY <1>3
  <2>4. QED
    BY <1>16, <1>17, <1>21, <2>2, <2>3
<1> DEFINE w == u \o r
           m == Len(u) + (b + 1 - j)
<1>25. /\ w \in Seq(Layers) /\ Len(w) = Len(u) + b
       /\ \A i \in 1..b : w[Len(u) + i] = r[i]
       /\ Len(u) \in Nat
  <2>1. u \in Seq(Layers) /\ r \in Seq(Layers)
    BY <1>9
  <2>2. /\ u \o r \in Seq(Layers) /\ Len(u \o r) = Len(u) + Len(r)
        /\ \A i \in 1..Len(r) : (u \o r)[Len(u) + i] = r[i]
    BY ONLY <2>1, ConcatFacts
  <2>3. QED
    BY <1>9, <2>1, <2>2
<1> HIDE DEF w
<1>26. /\ Frame = w \o v
       /\ Frame \in Seq(Layers) /\ Len(Frame) = Len(w) + Len(v)
       /\ \A i \in 1..Len(w) : Frame[i] = w[i]
       /\ \A i \in 1..Len(v) : Frame[Len(w) + i] = v[i]
       /\ Len(v) \in Nat /\ DOMAIN v = 1..Len(v)
  <2>1. Frame = w \o v
    BY <1>23 DEF w
  <2>2. w \in Seq(Layers) /\ v \in Seq(Layers)
    BY <1>25
  <2>3. /\ w \o v \in Seq(Layers) /\ Len(w \o v) = Len(w) + Len(v)
        /\ \A i \in 1..Len(w) : (w \o v)[i] = w[i]
        /\ \A i \in 1..Len(v) : (w \o v)[Len(w) + i] = v[i]
    BY ONLY <2>2, ConcatFacts
  <2>4. QED
    BY <2>1, <2>2, <2>3
<1>27. /\ b + 1 - j \in 1..b /\ b + 1 - (b + 1 - j) = j
       /\ m \in 1..Len(w) /\ b \in Nat
  <2>1. b \in Nat /\ j \in Nat /\ 0 < j /\ j <= b
    BY <1>8, <1>9, <1>10, <1>19
  <2>2. b + 1 - j \in 1..b /\ b + 1 - (b + 1 - j) = j
    BY <2>1
  <2>3. QED
    BY <1>25, <2>1, <2>2
<1>28. m \in DOMAIN Frame /\ Frame[m] = t[j]
  <2>1. DOMAIN Frame = 1..Len(Frame) /\ Len(Frame) \in Nat
    BY <1>26
  <2>2. Frame[m] = w[m] /\ w[m] = r[b + 1 - j] /\ r[b + 1 - j] = t[j]
    BY <1>9, <1>25, <1>26, <1>27
  <2>3. m \in 1..Len(Frame)
    BY <1>25, <1>26, <1>27
  <2>4. QED
    BY <2>1, <2>2, <2>3
<1>29. ASSUME NEW n \in m..Len(Frame) PROVE Frame[n] # t[k]
  <2>1. CASE n <= Len(w)
    <3>0. /\ b \in Nat /\ j \in Nat /\ Len(u) \in Nat /\ Len(w) = Len(u) + b
          /\ m = Len(u) + (b + 1 - j) /\ b + 1 - j \in 1..b
          /\ n \in Int /\ m <= n
      BY <1>10, <1>25, <1>27
    <3>1. /\ n \in 1..Len(w) /\ n - Len(u) \in 1..b /\ Len(u) + (n - Len(u)) = n
          /\ b + 1 - (n - Len(u)) \in 1..j
      <4> HIDE DEF m
      <4>1. QED
        BY ONLY <2>1, <3>0
    <3>2. Frame[n] = w[n] /\ w[n] = r[n - Len(u)]
          /\ r[n - Len(u)] = t[b + 1 - (n - Len(u))]
      BY <1>9, <1>25, <1>26, <3>1
    <3>3. b + 1 - (n - Len(u)) \in 1..Len(t) /\ b + 1 - (n - Len(u)) # k
      BY <1>8, <1>10, <3>1
    <3>4. QED
      BY <1>8, <1>10, <3>2, <3>3 DEF IsInjective
  <2>2. CASE ~(n <= Len(w))
    <3>1. n - Len(w) \in 1..Len(v) /\ Len(w) + (n - Len(w)) = n
      BY <1>25, <1>26, <1>27, <2>2
    <3>2. Frame[n] = v[n - Len(w)]
      BY <1>26, <3>1
    <3>3. Frame[n] \in ToSet(v)
      BY <1>26, <3>1, <3>2 DEF ToSet
    <3>4. QED
      BY <1>24, <3>3
  <2>3. QED
    BY <2>1, <2>2
<1>30. QED
  BY <1>20, <1>28, <1>29 DEF t

(* What a frame draws of the scene s is what is shown of it, all of it if  *)
(* s is active or on the stack.                                            *)
LEMMA FrameSet ==
  ASSUME IInv, Home, NEW s \in Scenes
  PROVE  /\ s \in OnStack => ToSet(Shown(layers[s], RenderBlock)) \subseteq ToSet(Frame)
         /\ \A l \in ToSet(layers[s]) :
              l \in ToSet(Frame) =>
                s \in OnStack /\ l \in ToSet(Shown(layers[s], RenderBlock))
<1> DEFINE scenes == stack \o (IF active = None THEN <<>> ELSE <<active>>)
           N == Len(scenes)
           ss == [i \in DOMAIN scenes |-> Shown(layers[scenes[i]], RenderBlock)]
<1>1. LayersInv /\ stack \in Seq(Scenes) /\ active \in Scenes \cup {None}
  BY DEF IInv, StackInv
<1>2. scenes \in Seq(Scenes) /\ ToSet(scenes) = OnStack
  <2> DEFINE z == IF active = None THEN <<>> ELSE <<active>>
  <2>1. z \in Seq(Scenes) /\ ToSet(z) = {active} \ {None}
    BY <1>1 DEF ToSet
  <2> HIDE DEF z
  <2>2. stack \o z \in Seq(Scenes) /\ ToSet(stack \o z) = ToSet(stack) \cup ToSet(z)
    BY ONLY <1>1, <2>1, ConcatFacts
  <2>3. QED
    BY <2>1, <2>2 DEF OnStack, z
<1>3. N \in Nat /\ DOMAIN scenes = 1..N /\ \A i \in 1..N : scenes[i] \in Scenes
  BY <1>2
<1>4. Frame = FlattenSeq(ss)
  BY DEF Frame
<1> HIDE DEF scenes
<1>5. ss \in [1..N -> Seq(Layers)] /\ \A i \in 1..N : ToSet(ss[i]) \subseteq ToSet(layers[scenes[i]])
  <2>1. \A i \in 1..N : layers[scenes[i]] \in Seq(Layers)
    BY <1>1, <1>3 DEF LayersInv
  <2>2. QED
    BY <1>3, <2>1, ShownFacts
<1>6. \A i \in 1..N : ss[i] = Shown(layers[scenes[i]], RenderBlock)
  BY <1>3
<1>7. OnStack = {scenes[i] : i \in 1..N}
  BY <1>2, <1>3 DEF ToSet
<1>8. Len(ss) = N
  BY <1>3, <1>5
<1> HIDE DEF N, ss
<1>9. CASE N = 0
  <2>1. FlattenSeq(ss) = ss
    BY <1>8, <1>9 DEF FlattenSeq
  <2>2. DOMAIN ss = {}
    BY <1>5, <1>9
  <2>3. ToSet(Frame) = {}
    BY <1>4, <2>1, <2>2 DEF ToSet
  <2>4. OnStack = {}
    BY <1>7, <1>9
  <2>5. QED
    BY <2>3, <2>4
<1>10. CASE N # 0
  <2>1. N \in Nat \ {0} /\ N \in 1..N
    BY <1>3, <1>10
  <2>2. PICK f : /\ FlattenSeq(ss) = f[N]
                 /\ \A n \in 1..N : f[n] = FlatStep(ss, f, n)
    <3>1. Len(ss) \in Nat \ {0}
      BY <1>8, <2>1
    <3>2. QED
      BY <1>8, <3>1, FlatFacts
  <2>3. /\ N \in Nat \ {0} /\ ss \in [1..N -> Seq(Layers)]
        /\ \A n \in 1..N : f[n] = FlatStep(ss, f, n)
    BY <1>5, <2>1, <2>2
  <2>4. \A l \in ToSet(Frame) : \E i \in 1..N : l \in ToSet(ss[i])
    <3>1. \A x \in ToSet(f[N]) : \E i \in 1..N : x \in ToSet(ss[i])
      BY ONLY <2>1, <2>3, FlatTyped
    <3>2. QED
      BY <1>4, <2>2, <3>1
  <2>5. ASSUME NEW q \in 1..N PROVE ToSet(ss[q]) \subseteq ToSet(Frame)
    <3>1. HasPart(Layers, ss, q, N, f[N])
      BY ONLY <2>3, <2>1, <2>5, FlatParts
    <3>2. PICK u, v \in Seq(Layers) : f[N] = (u \o ss[q]) \o v
      BY <3>1 DEF HasPart
    <3>3. /\ u \o ss[q] \in Seq(Layers)
          /\ ToSet(u \o ss[q]) = ToSet(u) \cup ToSet(ss[q])
      <4>1. ss[q] \in Seq(Layers)
        BY <1>5
      <4>2. QED
        BY ONLY <4>1, u \in Seq(Layers), ConcatFacts
    <3>4. ToSet((u \o ss[q]) \o v) = ToSet(u \o ss[q]) \cup ToSet(v)
      <4> DEFINE w == u \o ss[q]
      <4>1. w \in Seq(Layers)
        BY <3>3
      <4> HIDE DEF w
      <4>2. ToSet(w \o v) = ToSet(w) \cup ToSet(v)
        BY ONLY <4>1, v \in Seq(Layers), ConcatFacts
      <4>3. QED
        BY <4>2 DEF w
    <3>5. QED
      BY <1>4, <2>2, <3>2, <3>3, <3>4
  <2>6. s \in OnStack => ToSet(Shown(layers[s], RenderBlock)) \subseteq ToSet(Frame)
    BY <1>6, <1>7, <2>5
  <2>7. ASSUME NEW l \in ToSet(layers[s]), l \in ToSet(Frame)
        PROVE  s \in OnStack /\ l \in ToSet(Shown(layers[s], RenderBlock))
    <3>1. PICK i \in 1..N : l \in ToSet(ss[i])
      BY <2>4, <2>7
    <3>2. scenes[i] = s
      <4>1. l \in ToSet(layers[scenes[i]]) /\ scenes[i] \in Scenes
        BY <1>3, <1>5, <3>1
      <4>2. SceneOf[l] = scenes[i] /\ SceneOf[l] = s
        BY <2>7, <4>1 DEF Home
      <4>3. QED
        BY <4>2
    <3>3. QED
      BY <1>6, <1>7, <3>1, <3>2
  <2>8. QED
    BY <2>6, <2>7
<1>11. QED
  BY <1>9, <1>10

(* What is shown of a scene is what no layer in front hides.               *)
LEMMA ShownSet ==
  ASSUME NEW t \in Seq(Layers), IsInjective(t), NEW k \in DOMAIN t, NEW flag
  PROVE  t[k] \in ToSet(Shown(t, flag)) <=> \A i \in 1..k - 1 : t[i] \notin flag
<1> DEFINE b == Blocker(t, flag)
           r == Shown(t, flag)
<1>1. Len(t) \in Nat /\ DOMAIN t = 1..Len(t) /\ t # <<>> /\ k \in 1..Len(t)
  OBVIOUS
<1>2. /\ b \in 1..Len(t)
      /\ \A i \in 1..b - 1 : t[i] \notin flag
      /\ t[b] \in flag \/ b = Len(t)
      /\ r \in Seq(Layers) /\ Len(r) = b
      /\ \A i \in 1..b : r[i] = t[b + 1 - i]
  BY <1>1, BlockerFacts, ShownFacts
<1> HIDE DEF b, r
<1>3. DOMAIN r = 1..b
  BY <1>2
<1>b. b \in 1..Len(t)
  BY <1>2
<1>n. /\ b \in Nat /\ k \in Nat /\ Len(t) \in Nat
      /\ 1 <= b /\ b <= Len(t) /\ 1 <= k /\ k <= Len(t)
  BY ONLY <1>1, <1>b
<1>4. CASE k <= b
  <2>1. b + 1 - k \in 1..b /\ b + 1 - (b + 1 - k) = k
    BY ONLY <1>n, <1>4
  <2>2. r[b + 1 - k] = t[k]
    BY <1>2, <2>1
  <2>3. t[k] \in ToSet(r)
    BY <1>3, <2>1, <2>2 DEF ToSet
  <2>4. \A i \in 1..k - 1 : i \in 1..b - 1
    BY ONLY <1>n, <1>4
  <2>5. QED
    BY <1>2, <2>3, <2>4 DEF r
<1>5. CASE ~(k <= b)
  <2>1. b \in 1..k - 1 /\ b # Len(t)
    BY ONLY <1>n, <1>5
  <2>2. t[b] \in flag
    BY <1>2, <2>1
  <2>3. t[k] \notin ToSet(r)
    <3>1. SUFFICES ASSUME NEW i \in 1..b, r[i] = t[k] PROVE FALSE
      BY <1>3 DEF ToSet
    <3>2. b + 1 - i \in 1..Len(t) /\ b + 1 - i <= b
      BY ONLY <1>n, i \in 1..b
    <3>3. t[b + 1 - i] = t[k]
      BY <1>2, <3>1
    <3>4. b + 1 - i = k
      BY <1>1, <3>2, <3>3 DEF IsInjective
    <3>5. QED
      BY <1>5, <3>2, <3>4
  <2>4. QED
    BY <2>1, <2>2, <2>3 DEF r
<1>6. QED
  BY <1>4, <1>5

(* A frame draws all of every scene down to the first layer that hides the *)
(* rest, from back to front, and nothing else, for any stack of scenes,    *)
(* even one that is on it more than once (SceneManager::render,            *)
(* Scene::render).                                                         *)
THEOREM FrameBackToFront == Spec => []DrawnBackToFront
<1>1. Init => Home
  <2>1. ToSet(<<>>) = {}
    BY DEF ToSet
  <2>2. QED
    BY <2>1 DEF Init, Home
<1>2. ASSUME IInv, Home, NEW s \in Scenes, NEW k \in DOMAIN layers[s]
      PROVE  /\ layers[s][k] \in ToSet(Frame) <=>
                  /\ s \in OnStack
                  /\ \A i \in 1..k - 1 : layers[s][i] \notin RenderBlock
             /\ layers[s][k] \in ToSet(Frame) =>
                  \A j \in 1..k - 1 : \E m \in DOMAIN Frame :
                    /\ Frame[m] = layers[s][j]
                    /\ \A n \in m..Len(Frame) : Frame[n] # layers[s][k]
  <2>1. /\ layers[s] \in Seq(Layers) /\ IsInjective(layers[s])
        /\ Len(layers[s]) \in Nat /\ DOMAIN layers[s] = 1..Len(layers[s])
        /\ layers[s][k] \in ToSet(layers[s])
    BY <1>2 DEF IInv, LayersInv, ToSet
  <2>2. layers[s][k] \in ToSet(Shown(layers[s], RenderBlock)) <=>
          \A i \in 1..k - 1 : layers[s][i] \notin RenderBlock
    BY <1>2, <2>1, ShownSet
  <2>3. layers[s][k] \in ToSet(Frame) <=>
          s \in OnStack /\ layers[s][k] \in ToSet(Shown(layers[s], RenderBlock))
    BY <1>2, <2>1, FrameSet
  <2>4. ASSUME layers[s][k] \in ToSet(Frame), NEW j \in 1..k - 1
        PROVE  \E m \in DOMAIN Frame :
                 /\ Frame[m] = layers[s][j]
                 /\ \A n \in m..Len(Frame) : Frame[n] # layers[s][k]
    <3>1. j \in DOMAIN layers[s] /\ j < k
      BY <1>2, <2>1
    <3>2. QED
      BY <1>2, <2>4, <3>1, FrameFacts
  <2>5. QED
    BY <2>2, <2>3, <2>4
<1>3. IInv /\ Home => DrawnBackToFront
  BY <1>2 DEF DrawnBackToFront
<1>4. QED
  BY <1>1, <1>3, IInit, IStep, HomeStep, PTL DEF Spec

-----------------------------------------------------------------------------
(* The line of an update: the layers from that of l_i to that of l_b.      *)
LEMMA OrderedFacts ==
  ASSUME NEW s \in Seq(Layers), IsInjective(s), NEW x, NEW y
  PROVE  Ordered(s, x, y) <=> /\ x \in ToSet(s) /\ y \in ToSet(s)
                              /\ Place(s, x) <= Place(s, y)
<1>1. ASSUME Ordered(s, x, y)
      PROVE  x \in ToSet(s) /\ y \in ToSet(s) /\ Place(s, x) <= Place(s, y)
  <2>1. PICK j, k \in 1..Len(s) : j <= k /\ s[j] = x /\ s[k] = y
    BY <1>1 DEF Ordered
  <2>2. x \in ToSet(s) /\ y \in ToSet(s)
    BY <2>1 DEF ToSet
  <2>3. j = Place(s, x) /\ k = Place(s, y)
    BY <2>1, <2>2, PlaceFacts
  <2>4. QED
    BY <2>1, <2>2, <2>3
<1>2. ASSUME x \in ToSet(s), y \in ToSet(s), Place(s, x) <= Place(s, y)
      PROVE  Ordered(s, x, y)
  BY <1>2, PlaceFacts DEF Ordered
<1>3. QED
  BY <1>1, <1>2

LEMMA LineFacts ==
  ASSUME NEW s \in Seq(Layers), IsInjective(s), NEW i, NEW b, Ordered(s, b, i)
  PROVE  LET t == ToCome(s, i, b)
         IN  /\ t \in Seq(Layers) /\ t # <<>> /\ IsInjective(t)
             /\ Len(t) = Place(s, i) - Place(s, b) + 1
             /\ \A k \in 1..Len(t) : t[k] = s[Place(s, i) + 1 - k]
             /\ ToSet(t) \subseteq ToSet(s)
             /\ Head(t) = i /\ i \notin ToSet(Tail(t))
<1> DEFINE t == ToCome(s, i, b)
           p == Place(s, i)
           o == Place(s, b)
           n == Len(s)
<1>1. /\ p \in 1..n /\ s[p] = i /\ o \in 1..n /\ s[o] = b /\ o <= p
      /\ n \in Nat /\ DOMAIN s = 1..n
      /\ \A k \in 1..n : s[k] \in Layers /\ s[k] \in ToSet(s)
  BY OrderedFacts, PlaceFacts DEF ToSet
<1>2. \A j, k \in 1..n : s[j] = s[k] => j = k
  BY <1>1 DEF IsInjective
<1>3. t = [k \in 1..p - o + 1 |-> s[p + 1 - k]]
  BY DEF ToCome
<1> HIDE DEF t, p, o, n
<1>4. p - o + 1 \in Nat /\ \A k \in 1..p - o + 1 : p + 1 - k \in 1..n
  BY <1>1
<1>5. /\ t \in Seq(Layers) /\ Len(t) = p - o + 1 /\ DOMAIN t = 1..p - o + 1
      /\ \A k \in 1..p - o + 1 : t[k] = s[p + 1 - k] /\ t[k] \in ToSet(s)
  BY <1>1, <1>3, <1>4
<1>6. t # <<>> /\ Head(t) = t[1] /\ 1 \in 1..p - o + 1 /\ p + 1 - 1 = p
  BY <1>1, <1>5
<1>7. IsInjective(t)
  <2>1. SUFFICES ASSUME NEW j \in 1..p - o + 1, NEW k \in 1..p - o + 1, t[j] = t[k]
                 PROVE  j = k
    BY <1>5 DEF IsInjective
  <2>2. p + 1 - j = p + 1 - k
    BY <1>2, <1>4, <1>5, <2>1
  <2>3. QED
    BY <1>1, <2>2
<1>8. ToSet(t) \subseteq ToSet(s)
  BY <1>5 DEF ToSet
<1>9. i \notin ToSet(Tail(t))
  BY <1>1, <1>5, <1>6, <1>7, TailFacts
<1>10. QED
  BY <1>1, <1>5, <1>6, <1>7, <1>8, <1>9 DEF t, p, o, n

(* The next layer in the line. *)
LEMMA LineTail ==
  ASSUME NEW s \in Seq(Layers), IsInjective(s), NEW i, NEW b, Ordered(s, b, i)
  PROVE  Tail(ToCome(s, i, b)) =
           IF i = b THEN <<>> ELSE ToCome(s, s[Place(s, i) - 1], b)
<1> DEFINE t == ToCome(s, i, b)
           p == Place(s, i)
           o == Place(s, b)
           y == s[p - 1]
           u == ToCome(s, y, b)
<1>1. /\ p \in 1..Len(s) /\ s[p] = i /\ o \in 1..Len(s) /\ s[o] = b /\ o <= p
      /\ Len(s) \in Nat
  BY OrderedFacts, PlaceFacts
<1>2. /\ t \in Seq(Layers) /\ t # <<>> /\ Len(t) = p - o + 1
      /\ \A k \in 1..Len(t) : t[k] = s[p + 1 - k]
  BY LineFacts
<1>3. CASE i = b
  <2>1. o = p
    BY <1>3
  <2> HIDE DEF t, p, o
  <2>2. Len(t) = 1
    BY <1>1, <1>2, <2>1
  <2>3. t \in Seq(Layers) /\ t # <<>>
    BY <1>2
  <2>4. Tail(t) \in Seq(Layers) /\ Len(Tail(t)) = 0
    BY ONLY <2>2, <2>3
  <2>5. Tail(t) = <<>>
    BY <2>4, EmptySeq
  <2>6. QED
    BY <1>3, <2>5 DEF t
<1>4. CASE i # b
  <2>1. o <= p - 1 /\ p - 1 \in 1..Len(s)
    BY <1>1, <1>4
  <2>2. y \in ToSet(s)
    BY <2>1 DEF ToSet
  <2>3. Place(s, y) = p - 1
    BY <2>1, <2>2, PlaceFacts
  <2>4. Ordered(s, b, y)
    <3>1. b \in ToSet(s)
      BY OrderedFacts
    <3>2. o <= Place(s, y)
      BY <2>1, <2>3
    <3> HIDE DEF y, p
    <3>3. QED
      BY <2>2, <3>1, <3>2, OrderedFacts
  <2> HIDE DEF y
  <2>5. /\ u \in Seq(Layers) /\ Len(u) = p - 1 - o + 1
        /\ \A k \in 1..Len(u) : u[k] = s[p - 1 + 1 - k]
    <3>1. /\ u \in Seq(Layers) /\ Len(u) = Place(s, y) - o + 1
          /\ \A k \in 1..Len(u) : u[k] = s[Place(s, y) + 1 - k]
      BY <2>4, LineFacts
    <3> HIDE DEF u, p, o
    <3>2. QED
      BY <1>1, <2>3, <3>1
  <2> HIDE DEF t, p, o, u
  <2>6. /\ Tail(t) \in Seq(Layers) /\ Len(Tail(t)) = p - o
        /\ \A k \in 1..p - o : Tail(t)[k] = t[k + 1]
    BY <1>1, <1>2
  <2>7. Len(u) = p - o
    BY <1>1, <2>5
  <2>8. \A k \in 1..p - o : /\ k + 1 \in 1..p - o + 1
                            /\ p - 1 + 1 - k = p + 1 - (k + 1)
    BY <1>1
  <2>9. \A k \in 1..p - o : Tail(t)[k] = u[k]
    BY <1>2, <2>5, <2>6, <2>7, <2>8
  <2>10. Tail(t) = u
    BY <2>5, <2>6, <2>7, <2>9, SeqEqual
  <2>11. QED
    BY <1>4, <2>10 DEF t, u, y, p
<1>5. QED
  BY <1>3, <1>4

(* A layer that is pushed is not in the line. *)
LEMMA LinePush ==
  ASSUME NEW s \in Seq(Layers), IsInjective(s), NEW i, NEW b, Ordered(s, b, i),
         NEW l \in Layers, l \notin ToSet(s)
  PROVE  ToCome(<<l>> \o s, i, b) = ToCome(s, i, b)
<1> DEFINE r == <<l>> \o s
           t == ToCome(s, i, b)
           u == ToCome(r, i, b)
           p == Place(s, i)
           o == Place(s, b)
<1>1. /\ p \in 1..Len(s) /\ s[p] = i /\ o \in 1..Len(s) /\ s[o] = b /\ o <= p
      /\ Len(s) \in Nat
  BY OrderedFacts, PlaceFacts
<1>2. /\ Len(r) = Len(s) + 1 /\ \A k \in 1..Len(s) : r[k + 1] = s[k]
  OBVIOUS
<1>3. r \in Seq(Layers) /\ IsInjective(r) /\ Ordered(r, b, i)
  BY PushKeeps
<1>4. /\ t \in Seq(Layers) /\ Len(t) = p - o + 1
      /\ \A k \in 1..Len(t) : t[k] = s[p + 1 - k]
  BY LineFacts
<1> HIDE DEF r, p, o
<1>5. Place(r, i) = p + 1 /\ Place(r, b) = o + 1
  <2>1. i \in ToSet(r) /\ b \in ToSet(r)
    BY <1>3, OrderedFacts
  <2>2. p + 1 \in 1..Len(r) /\ r[p + 1] = i /\ o + 1 \in 1..Len(r) /\ r[o + 1] = b
    BY <1>1, <1>2
  <2>3. QED
    BY <1>3, <2>1, <2>2, PlaceFacts
<1>6. /\ u \in Seq(Layers) /\ Len(u) = Place(r, i) - Place(r, b) + 1
      /\ \A k \in 1..Len(u) : u[k] = r[Place(r, i) + 1 - k]
  BY <1>3, LineFacts
<1> HIDE DEF t, u
<1>7. Len(u) = Len(t)
  BY <1>1, <1>4, <1>5, <1>6
<1>8. ASSUME NEW k \in 1..Len(t) PROVE t[k] = u[k]
  <2>1. p + 1 - k \in 1..Len(s) /\ Place(r, i) + 1 - k = (p + 1 - k) + 1
    BY <1>1, <1>4, <1>5
  <2>2. QED
    BY <1>2, <1>4, <1>6, <1>7, <1>8, <2>1
<1>9. t = u
  BY <1>4, <1>6, <1>7, <1>8, SeqEqual
<1>10. QED
  BY <1>9 DEF t, u, r

(* A layer that goes off the scene goes out of the line. *)
LEMMA LineWithout ==
  ASSUME NEW s \in Seq(Layers), IsInjective(s), NEW i, NEW b, Ordered(s, b, i),
         NEW l, l \notin {i, b}
  PROVE  ToCome(Without(s, l), i, b) = Without(ToCome(s, i, b), l)
<1> DEFINE p == Place(s, i)
           o == Place(s, b)
           n == Len(s)
           t == ToCome(s, i, b)
<1>1. /\ p \in 1..n /\ s[p] = i /\ o \in 1..n /\ s[o] = b /\ o <= p
      /\ n \in Nat /\ DOMAIN s = 1..n /\ i \in ToSet(s) /\ b \in ToSet(s)
  BY OrderedFacts, PlaceFacts
<1>2. /\ t \in Seq(Layers) /\ Len(t) = p - o + 1
      /\ \A k \in 1..Len(t) : t[k] = s[p + 1 - k]
      /\ ToSet(t) \subseteq ToSet(s) /\ IsInjective(t)
  BY LineFacts
<1>3. CASE l \notin ToSet(s)
  BY <1>2, <1>3 DEF Without
<1>4. CASE l \in ToSet(s)
  <2> DEFINE q == Place(s, l)
             r == Without(s, l)
             u == ToCome(r, i, b)
             m == Place(r, i)
             h == Place(r, b)
  <2>1. /\ q \in 1..n /\ s[q] = l /\ q # p /\ q # o
    BY <1>1, <1>4, PlaceFacts
  <2>2. /\ r \in Seq(Layers) /\ Len(r) = n - 1
        /\ \A k \in 1..n - 1 : r[k] = IF k < q THEN s[k] ELSE s[k + 1]
        /\ m = IF p < q THEN p ELSE p - 1
        /\ h = IF o < q THEN o ELSE o - 1
    BY <1>1, <1>4, WithoutPlaces
  <2>3. IsInjective(r) /\ Ordered(r, b, i)
    BY RemoveKeeps
  <2>4. /\ u \in Seq(Layers) /\ Len(u) = m - h + 1
        /\ \A k \in 1..Len(u) : u[k] = r[m + 1 - k]
    BY <2>2, <2>3, LineFacts
  <2>5. \A k \in 1..n : s[k] = l => k = q
    BY <1>1, <1>4, PlaceFacts
  <2> HIDE DEF p, o, n, t, q, r, u, m, h
  <2>6. ASSUME q < o \/ p < q PROVE u = Without(t, l)
    <3>1. Len(u) = Len(t)
      BY <1>1, <1>2, <2>1, <2>2, <2>4, <2>6
    <3>2. ASSUME NEW k \in 1..Len(u) PROVE u[k] = t[k]
      <4>1. k \in 1..Len(t) /\ p + 1 - k \in o..p
        BY <1>1, <1>2, <3>1
      <4>2. CASE p < q
        <5>1. m = p /\ p + 1 - k \in 1..n - 1 /\ p + 1 - k < q
          BY <1>1, <2>1, <2>2, <4>1, <4>2
        <5>2. QED
          BY <1>2, <2>2, <2>4, <3>2, <4>1, <5>1
      <4>3. CASE q < o
        <5>1. /\ m = p - 1 /\ m + 1 - k \in 1..n - 1 /\ ~(m + 1 - k < q)
              /\ m + 1 - k + 1 = p + 1 - k
          BY <1>1, <2>1, <2>2, <4>1, <4>3
        <5>2. u[k] = r[m + 1 - k]
          BY <2>4, <3>2
        <5>3. r[m + 1 - k] = s[m + 1 - k + 1]
          BY <2>2, <5>1
        <5>4. QED
          BY <1>2, <4>1, <5>1, <5>2, <5>3
      <4>4. QED
        BY <2>6, <4>2, <4>3
    <3>3. u = t
      BY <1>2, <2>4, <3>1, <3>2, SeqEqual
    <3>4. l \notin ToSet(t)
      <4>1. SUFFICES ASSUME NEW k \in 1..Len(t), t[k] = l PROVE FALSE
        BY <1>2 DEF ToSet
      <4>2. p + 1 - k \in 1..n /\ p + 1 - k # q
        BY <1>1, <1>2, <2>1, <2>6
      <4>3. QED
        BY <1>2, <2>5, <4>1, <4>2
    <3>5. QED
      BY <3>3, <3>4 DEF Without
  <2>7. ASSUME o < q, q < p PROVE u = Without(t, l)
    <3> DEFINE j == p + 1 - q
    <3>1. /\ m = p - 1 /\ h = o /\ Len(u) = Len(t) - 1
          /\ j \in 1..Len(t) /\ p + 1 - j = q
      <4>1. m = p - 1 /\ h = o
        BY <1>1, <2>1, <2>2, <2>7
      <4>2. Len(u) = Len(t) - 1
        BY <1>1, <1>2, <2>4, <4>1
      <4>3. j \in 1..Len(t) /\ p + 1 - j = q
        BY <1>1, <1>2, <2>1, <2>7
      <4>4. QED
        BY <4>1, <4>2, <4>3
    <3>2. t[j] = l
      BY <1>2, <2>1, <3>1
    <3>3. ASSUME NEW k \in 1..Len(t) - 1 PROVE u[k] = IF k < j THEN t[k] ELSE t[k + 1]
      <4>1. /\ m + 1 - k \in 1..n - 1 /\ k \in 1..Len(u)
            /\ k \in 1..Len(t) /\ k + 1 \in 1..Len(t)
            /\ m + 1 - k < q <=> ~(k < j)
            /\ m + 1 - k + 1 = p + 1 - k /\ m + 1 - k = p + 1 - (k + 1)
        BY <1>1, <1>2, <2>1, <2>7, <3>1
      <4>2. u[k] = r[m + 1 - k]
        BY <2>4, <4>1
      <4>3. u[k] = IF m + 1 - k < q THEN s[m + 1 - k] ELSE s[m + 1 - k + 1]
        BY <2>2, <4>1, <4>2
      <4>4. t[k] = s[p + 1 - k] /\ t[k + 1] = s[p + 1 - (k + 1)]
        BY <1>2, <4>1
      <4>5. QED
        BY <4>1, <4>3, <4>4
    <3> HIDE DEF j
    <3>4. u = Without(t, t[j])
      BY <1>2, <2>4, <3>1, <3>3, WithoutIs
    <3>5. QED
      BY <3>2, <3>4
  <2>8. u = Without(t, l)
    BY <1>1, <2>1, <2>6, <2>7
  <2>9. QED
    BY <2>8 DEF u, t, r
<1>5. QED
  BY <1>3, <1>4

-----------------------------------------------------------------------------
(* SceneManager implements UpdateRound.                                    *)
(* An update that has come to its last layer needs no node any more.       *)
DangleInv == walk # None /\ walk.dangling => ~walk.finished

(* Removing the zombie frees no node that the walk still needs. *)
LEMMA ZombieStep ==
  ASSUME IInv, Walking
  PROVE  Freed(Stepped, walk.i) = Stepped
<1>1. LayersInv /\ WalkInv
  BY DEF IInv
<1>2. Freed(Stepped, walk.i) = [Stepped EXCEPT !.dangling = FALSE]
  BY <1>1, SteppedFacts DEF Freed, Walk
<1>3. QED
  BY <1>1, <1>2, SteppedFacts DEF Walk

LEMMA DisturbedFacts ==
  ASSUME IInv, walk # None, NEW l
  PROVE  LET w == Disturbed(walk, l)
         IN  /\ w \in Walk /\ w.scene = walk.scene /\ w.i = walk.i /\ w.b = walk.b
             /\ w.slayer = walk.slayer /\ w.finished = walk.finished
             /\ w.dangling = (\/ walk.dangling
                              \/ /\ l \in ToSet(layers[walk.scene])
                                 /\ ~walk.finished /\ l \in {walk.i, walk.b})
<1>1. walk \in Walk
  BY DEF IInv, WalkInv
<1>2. CASE l \in ToSet(layers[walk.scene])
  <2> DEFINE d == walk.dangling \/ (~walk.finished /\ l \in {walk.i, walk.b})
             e == walk.disturbed \/ l # walk.slayer
  <2>1. Disturbed(walk, l) = [walk EXCEPT !.dangling = d, !.disturbed = e]
    BY <1>1, <1>2 DEF Disturbed, Freed, Walk
  <2>2. d \in BOOLEAN /\ e \in BOOLEAN
    BY <1>1 DEF Walk
  <2>3. d = (\/ walk.dangling
             \/ /\ l \in ToSet(layers[walk.scene])
                /\ ~walk.finished /\ l \in {walk.i, walk.b})
    BY <1>2
  <2> HIDE DEF d, e
  <2>4. QED
    BY <1>1, <2>1, <2>2, <2>3 DEF Walk
<1>3. CASE l \notin ToSet(layers[walk.scene])
  <2>1. Disturbed(walk, l) = walk
    BY <1>3 DEF Disturbed
  <2>2. walk.dangling \in BOOLEAN
    BY <1>1 DEF Walk
  <2>3. QED
    BY <1>1, <1>3, <2>1, <2>2
<1>4. QED
  BY <1>2, <1>3

LEMMA DangleStep == IInv /\ DangleInv /\ [Next]_vars => DangleInv'
<1> SUFFICES ASSUME IInv, DangleInv, [Next]_vars PROVE DangleInv'
  OBVIOUS
<1>1. walk # None => walk \in Walk
  BY DEF IInv, WalkInv
<1>2. ASSUME NEW l, walk' = Disturbed(walk, l) PROVE DangleInv'
  <2>1. CASE walk = None
    BY <1>2, <2>1 DEF Disturbed, DangleInv
  <2>2. CASE walk # None
    BY <1>2, <2>2, DisturbedFacts DEF DangleInv
  <2>3. QED
    BY <2>1, <2>2
<1>3. CASE RemoveZombie
  BY <1>3, ZombieStep, SteppedFacts DEF RemoveZombie, IInv, DangleInv
<1>4. CASE UpdateLayer
  <2>1. Stepped \in Walk /\ ~Stepped.dangling /\ walk' = [Stepped EXCEPT !.slayer = walk.i]
    BY <1>4, SteppedFacts DEF UpdateLayer, IInv
  <2>2. QED
    BY <2>1 DEF DangleInv, Walk
<1>5. CASE LayerReturn
  BY <1>1, <1>5 DEF LayerReturn, DangleInv, Walk
<1>6. CASE UpdateBegin \/ UpdateEnd
  BY <1>6 DEF UpdateBegin, UpdateEnd, DangleInv
<1>7. CASE walk' = walk
  BY <1>7 DEF DangleInv
<1>8. QED
  BY <1>2, <1>3, <1>4, <1>5, <1>6, <1>7
     DEF Next, Game, Update, vars, PushScene, PopScene, SetBackground, Suspend,
         PushLayer, PopLayer, RemoveLayer, Kill

(* What the abstract update sees of an update in progress, and of none.    *)
OnScenes == UNION {ToSet(layers[s]) : s \in Scenes}

LEMMA UpdateSeen ==
  /\ walk = None => Stage = "idle" /\ Turn = None /\ Line = <<>>
  /\ walk # None => Turn = walk.slayer
  /\ walk # None /\ walk.dangling => Stage = "lost"
  /\ walk # None /\ ~walk.dangling =>
       /\ Stage = "update"
       /\ Line = IF walk.finished THEN <<>> ELSE ToCome(layers[walk.scene], walk.i, walk.b)
BY DEF Stage, Turn, Line

LEMMA SeenNext ==
  /\ walk' = None => Stage' = "idle" /\ Turn' = None /\ Line' = <<>>
  /\ walk' # None => Turn' = walk'.slayer
  /\ walk' # None /\ walk'.dangling => Stage' = "lost"
  /\ walk' # None /\ ~walk'.dangling =>
       /\ Stage' = "update"
       /\ Line' = IF walk'.finished THEN <<>>
                  ELSE ToCome(layers'[walk'.scene], walk'.i, walk'.b)
BY DEF Stage, Turn, Line

LEMMA RoundLists ==
  ASSUME NEW s
  PROVE  /\ \A x : Round!Without(s, x) = Without(s, x)
         /\ Round!IsInjective(s) = IsInjective(s)
BY DEF Round!Without, Without, Round!Place, Place, Round!ToSet, ToSet, Round!RemoveAt, RemoveAt,
       Round!IsInjective, IsInjective

LEMMA RoundClient ==
  ASSUME GameRuns
  PROVE  Round!ClientRuns
BY UpdateSeen DEF GameRuns, Round!ClientRuns

(* The step of a lost update is one of UpdateRound, whatever it is. *)
LEMMA RoundLost ==
  ASSUME IInv, DangleInv, Next, walk # None, walk.dangling
  PROVE  Round!Next
<1>1. walk' # None /\ walk'.dangling
  <2>1. walk \in Walk /\ ~walk.finished
    BY DEF IInv, WalkInv, DangleInv
  <2>2. ASSUME NEW l, walk' = Disturbed(walk, l) PROVE walk' # None /\ walk'.dangling
    BY <2>2, DisturbedFacts, WalkAssumption
  <2>3. CASE LayerReturn
    <3>1. walk' = [walk EXCEPT !.slayer = None]
      BY <2>3 DEF LayerReturn
    <3>2. walk' \in Walk /\ walk'.dangling
      BY <2>1, <3>1 DEF Walk
    <3>3. QED
      BY <3>2, WalkAssumption
  <2>4. CASE walk' = walk
    BY <2>4
  <2>5. QED
    BY <2>1, <2>2, <2>3, <2>4
       DEF Next, Game, Update, PushScene, PopScene, SetBackground, Suspend, PushLayer,
           PopLayer, RemoveLayer, Kill, UpdateBegin, UpdateEnd, RemoveZombie, UpdateLayer,
           Walking
<1>2. Stage = "lost" /\ Stage' = "lost"
  BY <1>1, UpdateSeen, SeenNext
<1>3. QED
  BY <1>2 DEF Round!Lost, Round!Next

LEMMA RoundPush ==
  ASSUME IInv, Home, NEW l \in Layers, PushLayer(l), walk # None => ~walk.dangling
  PROVE  Round!Next
<1> DEFINE h == SceneOf[l]
           s == layers[h]
<1>1. /\ h \in Scenes /\ s \in Seq(Layers) /\ IsInjective(s) /\ l \notin ToSet(s)
      /\ layers \in [Scenes -> Seq(Layers)] /\ \A r \in Scenes : IsInjective(layers[r])
  BY SceneAssumption DEF IInv, LayersInv, PushLayer
<1>2. /\ layers' = [layers EXCEPT ![h] = <<l>> \o s]
      /\ walk' = walk /\ killed' = killed /\ GameRuns
  BY DEF PushLayer
<1>3. ToSet(<<l>> \o s) = ToSet(s) \cup {l}
  <2> DEFINE u == <<l>>
  <2>1. u \in Seq(Layers) /\ ToSet(u) = {l}
    BY DEF ToSet
  <2> HIDE DEF u, s
  <2>2. ToSet(u \o s) = ToSet(u) \cup ToSet(s)
    BY ONLY <1>1, <2>1, ConcatFacts
  <2>3. QED
    BY <2>1, <2>2 DEF u
<1>4. OnScenes' = OnScenes \cup {l}
  <2> HIDE DEF s, h
  <2>1. \A r \in Scenes : layers'[r] = IF r = h THEN <<l>> \o s ELSE layers[r]
    BY <1>1, <1>2
  <2>2. s = layers[h]
    BY DEF s
  <2>3. \A r \in Scenes : ToSet(layers'[r]) = IF r = h THEN ToSet(layers[r]) \cup {l}
                                              ELSE ToSet(layers[r])
    BY <1>3, <2>1, <2>2
  <2>4. QED
    BY <1>1, <2>3 DEF OnScenes
<1>5. l \notin OnScenes
  BY <1>1 DEF Home, OnScenes
<1>6. UNCHANGED <<Turn, Stage>>
  BY <1>2 DEF Turn, Stage
<1>7. Line' = Line
  <2>1. CASE walk = None \/ walk.finished
    BY <1>2, <2>1 DEF Line, Stage
  <2>2. CASE walk # None /\ ~walk.finished
    <3> DEFINE t == layers[walk.scene]
    <3>1. walk.scene \in Scenes /\ Ordered(t, walk.b, walk.i)
      BY <2>2 DEF IInv, WalkInv, Walk
    <3>2. t \in Seq(Layers) /\ IsInjective(t)
      BY <1>1, <3>1
    <3>3. ToCome(layers'[walk.scene], walk.i, walk.b) = ToCome(t, walk.i, walk.b)
      <4>1. CASE walk.scene = h
        <5>1. layers'[walk.scene] = <<l>> \o t /\ l \notin ToSet(t)
          BY <1>1, <1>2, <4>1
        <5> HIDE DEF t
        <5>2. ToCome(<<l>> \o t, walk.i, walk.b) = ToCome(t, walk.i, walk.b)
          BY <3>1, <3>2, <5>1, LinePush
        <5>3. QED
          BY <5>1, <5>2
      <4>2. CASE walk.scene # h
        BY <1>1, <1>2, <3>1, <4>2
      <4>3. QED
        BY <4>1, <4>2
    <3>4. QED
      BY <1>2, <2>2, <3>3, UpdateSeen, SeenNext
  <2>3. QED
    BY <2>1, <2>2
<1>8. Round!Add(l)
  BY <1>2, <1>4, <1>5, <1>6, <1>7, RoundClient DEF Round!Add, OnScenes
<1>9. QED
  BY <1>8 DEF Round!Next

(* The game takes a layer off a scene. *)
LEMMA RoundTake ==
  ASSUME IInv, Home, GameRuns, walk # None => ~walk.dangling,
         NEW h \in Scenes, NEW l \in ToSet(layers[h]),
         layers' = [layers EXCEPT ![h] = Without(layers[h], l)],
         walk' = Disturbed(walk, l), killed' = killed
  PROVE  Round!Next
<1>1. /\ layers \in [Scenes -> Seq(Layers)] /\ \A r \in Scenes : IsInjective(layers[r])
  BY DEF IInv, LayersInv
<1>2. ToSet(Without(layers[h], l)) = ToSet(layers[h]) \ {l} /\ l \in Layers
  BY <1>1, WithoutFacts, PlaceFacts
<1>3. \A r \in Scenes : r # h => l \notin ToSet(layers[r])
  BY DEF Home
<1>4. OnScenes' = OnScenes \ {l} /\ l \in OnScenes
  <2>1. \A r \in Scenes : layers'[r] = IF r = h THEN Without(layers[h], l) ELSE layers[r]
    BY <1>1
  <2>2. \A r \in Scenes : ToSet(layers'[r]) = ToSet(layers[r]) \ {l}
    <3>1. SUFFICES ASSUME NEW r \in Scenes PROVE ToSet(layers'[r]) = ToSet(layers[r]) \ {l}
      OBVIOUS
    <3>2. CASE r = h
      BY <1>2, <2>1, <3>2
    <3>3. CASE r # h
      BY <1>3, <2>1, <3>3
    <3>4. QED
      BY <3>2, <3>3
  <2>3. QED
    BY <2>2 DEF OnScenes
<1>5. Without(<<>>, l) = <<>>
  <2>1. ToSet(<<>>) = {}
    BY DEF ToSet
  <2>2. QED
    BY <2>1 DEF Without
<1>6. ASSUME UNCHANGED <<Turn, Stage>>, Line' = Without(Line, l) PROVE Round!Next
  <2>1. Round!TakeOff(l)
    BY <1>4, <1>6, RoundClient, RoundLists DEF Round!TakeOff, OnScenes
  <2>2. QED
    BY <1>2, <2>1 DEF Round!Next
<1>7. CASE walk = None
  <2>1. walk' = None
    BY <1>7 DEF Disturbed
  <2>2. QED
    BY <1>5, <1>6, <1>7, <2>1, UpdateSeen, SeenNext
<1>8. CASE walk # None
  <2> DEFINE t == layers[walk.scene]
  <2>1. /\ walk \in Walk /\ ~walk.dangling /\ walk.slayer # None /\ walk.scene \in Scenes
        /\ t \in Seq(Layers) /\ IsInjective(t)
        /\ ~walk.finished => Ordered(t, walk.b, walk.i)
    BY <1>1, <1>8 DEF IInv, WalkInv, GameRuns, Walk
  <2>2. /\ walk' # None /\ walk'.scene = walk.scene /\ walk'.i = walk.i /\ walk'.b = walk.b
        /\ walk'.slayer = walk.slayer /\ walk'.finished = walk.finished
        /\ walk'.dangling = (l \in ToSet(t) /\ ~walk.finished /\ l \in {walk.i, walk.b})
    BY <1>8, <2>1, DisturbedFacts, WalkAssumption
  <2>3. CASE walk'.dangling
    <3>1. Stage = "update" /\ Turn # None /\ Stage' = "lost"
      BY <1>8, <2>1, <2>2, <2>3, UpdateSeen, SeenNext
    <3>2. QED
      BY <3>1 DEF Round!Break, Round!Next
  <2>4. CASE ~walk'.dangling
    <3>1. UNCHANGED <<Turn, Stage>>
      BY <1>8, <2>1, <2>2, <2>4, UpdateSeen, SeenNext
    <3>2. CASE walk.finished
      <4>1. Line = <<>> /\ Line' = <<>>
        BY <1>8, <2>1, <2>2, <2>4, <3>2, UpdateSeen, SeenNext
      <4>2. QED
        BY <1>5, <1>6, <3>1, <4>1
    <3>3. CASE ~walk.finished
      <4> DEFINE line == ToCome(t, walk.i, walk.b)
      <4>1. Line = line /\ Line' = ToCome(layers'[walk.scene], walk.i, walk.b)
        BY <1>8, <2>1, <2>2, <2>4, <3>3, UpdateSeen, SeenNext
      <4>2. ToCome(layers'[walk.scene], walk.i, walk.b) = Without(line, l)
        <5>1. CASE walk.scene = h
          <6>1. layers'[walk.scene] = Without(t, l) /\ l \in ToSet(t)
            BY <1>1, <5>1
          <6>2. l \notin {walk.i, walk.b}
            BY <2>2, <2>4, <3>3, <6>1
          <6> HIDE DEF t
          <6>3. ToCome(Without(t, l), walk.i, walk.b) = Without(line, l)
            BY <2>1, <3>3, <6>2, LineWithout
          <6>4. QED
            BY <6>1, <6>3
        <5>2. CASE walk.scene # h
          <6>1. layers'[walk.scene] = t /\ l \notin ToSet(t)
            BY <1>1, <1>3, <2>1, <5>2
          <6> HIDE DEF t
          <6>2. ToSet(line) \subseteq ToSet(t)
            BY <2>1, <3>3, LineFacts
          <6> HIDE DEF line
          <6>3. Without(line, l) = line
            BY <6>1, <6>2 DEF Without
          <6>4. QED
            BY <6>1, <6>3 DEF line
        <5>3. QED
          BY <5>1, <5>2
      <4>3. QED
        BY <1>6, <3>1, <4>1, <4>2
    <3>4. QED
      BY <3>2, <3>3
  <2>5. QED
    BY <2>3, <2>4
<1>9. QED
  BY <1>7, <1>8

(* The update's own steps. *)
LEMMA RoundBegin ==
  ASSUME IInv, UpdateBegin
  PROVE  Round!Next
<1> DEFINE s == layers[active]
           i == s[Blocker(s, UpdateBlock)]
           b == Head(s)
           t == ToCome(s, i, b)
<1>1. /\ active \in Scenes /\ s \in Seq(Layers) /\ IsInjective(s) /\ s # <<>>
      /\ layers \in [Scenes -> Seq(Layers)] /\ killed \in SUBSET Layers
  BY DEF IInv, StackInv, LayersInv, UpdateBegin
<1>2. i \in Layers /\ b \in Layers /\ Ordered(s, b, i)
  <2> DEFINE k == Blocker(s, UpdateBlock)
  <2>1. k \in DOMAIN s
    BY <1>1, BlockerFacts
  <2> HIDE DEF k
  <2>2. 1 \in DOMAIN s /\ 1 <= k /\ s[1] = Head(s) /\ s[k] \in Layers /\ Head(s) \in Layers
    BY <1>1, <2>1
  <2>3. Ordered(s, Head(s), s[k])
    BY <2>1, <2>2 DEF Ordered
  <2>4. QED
    BY <2>2, <2>3 DEF k
<1>3. t \in Seq(Layers) /\ IsInjective(t) /\ ToSet(t) \subseteq ToSet(s)
  BY <1>1, <1>2, LineFacts
<1>4. /\ walk' = [scene |-> active, i |-> i, b |-> b,
                  slayer |-> None, finished |-> FALSE, dangling |-> FALSE,
                  was |-> s, dead |-> killed, seen |-> <<>>, disturbed |-> FALSE]
      /\ UNCHANGED <<layers, killed>> /\ walk = None
  BY DEF UpdateBegin
<1>5. walk' \in Walk
  <2> HIDE DEF i, b, s
  <2>1. QED
    BY <1>1, <1>2, <1>4 DEF Walk
<1>6. /\ Stage = "idle" /\ Turn = None
      /\ Stage' = "update" /\ Turn' = None /\ Line' = t
  <2> HIDE DEF i, b
  <2>1. /\ walk' # None /\ ~walk'.dangling /\ ~walk'.finished /\ walk'.slayer = None
        /\ walk'.scene = active /\ walk'.i = i /\ walk'.b = b
    BY <1>4, <1>5, WalkAssumption
  <2>2. QED
    BY <1>4, <2>1, UpdateSeen, SeenNext
<1>7. ToSet(s) \subseteq OnScenes
  BY <1>1 DEF OnScenes
<1> HIDE DEF t, s
<1>8. t \in Seq(OnScenes)
  <2>1. \A k \in 1..Len(t) : t[k] \in ToSet(t)
    BY <1>3 DEF ToSet
  <2>2. \A k \in 1..Len(t) : t[k] \in OnScenes
    BY <1>3, <1>7, <2>1
  <2>3. QED
    BY <1>3, <2>2
<1>9. Round!IsInjective(t)
  BY <1>3, RoundLists
<1>10. Round!Begin
  BY <1>4, <1>6, <1>8, <1>9 DEF Round!Begin, OnScenes
<1>11. QED
  BY <1>10 DEF Round!Next

(* The walk goes on from one layer to the next. *)
LEMMA SteppedLine ==
  ASSUME IInv, Walking
  PROVE  LET s == layers[walk.scene]
             t == ToCome(s, walk.i, walk.b)
         IN  /\ walk \in Walk /\ walk # None /\ walk.i \in Layers
             /\ s \in Seq(Layers) /\ IsInjective(s) /\ walk.i \in ToSet(s)
             /\ Stage = "update" /\ Turn = None /\ Line = t
             /\ t # <<>> /\ Head(t) = walk.i /\ walk.i \notin ToSet(Tail(t))
             /\ Tail(t) = IF Stepped.finished THEN <<>>
                          ELSE ToCome(s, Stepped.i, walk.b)
<1> DEFINE s == layers[walk.scene]
           t == ToCome(s, walk.i, walk.b)
<1>1. /\ walk \in Walk /\ walk # None /\ ~walk.finished /\ ~walk.dangling
      /\ walk.slayer = None /\ walk.scene \in Scenes /\ walk.i \in Layers
      /\ Ordered(s, walk.b, walk.i)
  BY DEF IInv, WalkInv, Walking, Walk
<1>2. s \in Seq(Layers) /\ IsInjective(s)
  BY <1>1 DEF IInv, LayersInv
<1>3. walk.i \in ToSet(s)
  BY <1>1, <1>2, OrderedFacts
<1>4. Stage = "update" /\ Turn = None /\ Line = t
  BY <1>1, UpdateSeen
<1>5. t # <<>> /\ Head(t) = walk.i /\ walk.i \notin ToSet(Tail(t))
  BY <1>1, <1>2, LineFacts
<1>6. /\ Stepped.finished = (walk.i = walk.b)
      /\ Stepped.i = IF walk.i = walk.b THEN walk.i ELSE s[Place(s, walk.i) - 1]
  BY <1>1 DEF Stepped, Walk
<1>7. Tail(t) = IF walk.i = walk.b THEN <<>> ELSE ToCome(s, s[Place(s, walk.i) - 1], walk.b)
  <2> HIDE DEF s
  <2>1. QED
    BY <1>1, <1>2, LineTail
<1>8. QED
  BY <1>1, <1>2, <1>3, <1>4, <1>5, <1>6, <1>7

LEMMA RoundZombie ==
  ASSUME IInv, Home, RemoveZombie
  PROVE  Round!Next
<1> DEFINE h == walk.scene
           s == layers[h]
           x == walk.i
           t == ToCome(s, x, walk.b)
           r == Without(s, x)
<1>1. Walking /\ x \in killed /\ killed' = killed /\ layers' = [layers EXCEPT ![h] = r]
  BY DEF RemoveZombie
<1>2. LayersInv /\ WalkInv
  BY DEF IInv
<1>3. walk' = Stepped
  BY <1>1, ZombieStep DEF RemoveZombie
<1>4. /\ walk \in Walk /\ walk # None /\ x \in Layers /\ h \in Scenes
      /\ s \in Seq(Layers) /\ IsInjective(s) /\ x \in ToSet(s)
      /\ Stage = "update" /\ Turn = None /\ Line = t
      /\ t # <<>> /\ Head(t) = x /\ x \notin ToSet(Tail(t))
      /\ Tail(t) = IF Stepped.finished THEN <<>> ELSE ToCome(s, Stepped.i, walk.b)
  BY <1>1, <1>2, SteppedLine, WalkedTypes
<1>5. /\ walk' # None /\ walk'.scene = h /\ walk'.b = walk.b /\ walk'.slayer = None
      /\ ~walk'.dangling
      /\ ~walk'.finished => x \notin {walk'.i, walk.b} /\ Ordered(s, walk.b, walk'.i)
  BY <1>1, <1>2, <1>3, SteppedFacts, WalkAssumption
<1>6. /\ ToSet(r) = ToSet(s) \ {x} /\ layers'[h] = r
      /\ \A g \in Scenes : g # h => layers'[g] = layers[g]
  BY <1>1, <1>2, <1>4, WithoutFacts DEF LayersInv
<1> HIDE DEF t, r
<1>7. OnScenes' = OnScenes \ {x}
  <2>1. \A g \in Scenes : ToSet(layers'[g]) = ToSet(layers[g]) \ {x}
    <3>1. SUFFICES ASSUME NEW g \in Scenes PROVE ToSet(layers'[g]) = ToSet(layers[g]) \ {x}
      OBVIOUS
    <3>2. CASE g = h
      BY <1>6, <3>2
    <3>3. CASE g # h
      <4>1. x \notin ToSet(layers[g])
        BY <1>4, <3>3 DEF Home
      <4>2. layers'[g] = layers[g]
        BY <1>6, <3>3
      <4>3. QED
        BY <4>1, <4>2
    <3>4. QED
      BY <3>2, <3>3
  <2>2. QED
    BY <2>1 DEF OnScenes
<1>8. Line' = Tail(t)
  <2>1. CASE walk'.finished
    BY <1>3, <1>4, <1>5, <2>1, SeenNext
  <2>2. CASE ~walk'.finished
    <3>1. Tail(t) = ToCome(s, walk'.i, walk.b)
      BY <1>3, <1>4, <2>2
    <3>2. Line' = ToCome(r, walk'.i, walk.b)
      BY <1>5, <1>6, <2>2, SeenNext
    <3> HIDE DEF s, x
    <3>3. ToCome(r, walk'.i, walk.b) = Without(ToCome(s, walk'.i, walk.b), x)
      BY <1>4, <1>5, <2>2, LineWithout DEF r
    <3>4. Without(Tail(t), x) = Tail(t)
      BY <1>4 DEF Without
    <3>5. QED
      BY <3>1, <3>2, <3>3, <3>4
  <2>3. QED
    BY <2>1, <2>2
<1>9. Stage' = "update" /\ Turn' = None
  BY <1>5, SeenNext
<1>10. Round!Bury
  BY <1>1, <1>4, <1>7, <1>8, <1>9 DEF Round!Bury, Round!Comes, OnScenes
<1>11. QED
  BY <1>10 DEF Round!Next

LEMMA RoundUpdate ==
  ASSUME IInv, UpdateLayer
  PROVE  Round!Next
<1> DEFINE s == layers[walk.scene]
           t == ToCome(s, walk.i, walk.b)
<1>1. /\ Walking /\ walk.i \notin killed /\ UNCHANGED <<killed, layers>>
      /\ walk' = [Stepped EXCEPT !.slayer = walk.i]
  BY DEF UpdateLayer
<1>2. LayersInv /\ WalkInv
  BY DEF IInv
<1>3. /\ walk.i \in Layers /\ Stage = "update" /\ Turn = None /\ Line = t
      /\ t # <<>> /\ Head(t) = walk.i
      /\ Tail(t) = IF Stepped.finished THEN <<>> ELSE ToCome(s, Stepped.i, walk.b)
  BY <1>1, SteppedLine
<1>4. Stepped \in Walk /\ Stepped.scene = walk.scene /\ Stepped.b = walk.b
      /\ ~Stepped.dangling
  BY <1>1, <1>2, SteppedFacts
<1>5. /\ walk' \in Walk /\ walk'.scene = walk.scene /\ walk'.b = walk.b
      /\ walk'.i = Stepped.i /\ walk'.finished = Stepped.finished
      /\ walk'.slayer = walk.i /\ ~walk'.dangling
  BY <1>1, <1>3, <1>4 DEF Walk
<1> HIDE DEF t
<1>6. Stage' = "update" /\ Turn' = walk.i /\ Line' = Tail(t)
  BY <1>1, <1>3, <1>5, SeenNext, WalkAssumption
<1>7. Round!Call
  BY <1>1, <1>3, <1>6 DEF Round!Call, Round!Comes
<1>8. QED
  BY <1>7 DEF Round!Next

LEMMA RoundReturn ==
  ASSUME IInv, LayerReturn, ~walk.dangling
  PROVE  Round!Next
<1>1. /\ walk \in Walk /\ walk # None /\ walk.slayer # None
      /\ walk' = [walk EXCEPT !.slayer = None] /\ UNCHANGED <<layers, killed>>
  BY DEF IInv, WalkInv, LayerReturn
<1>2. /\ walk' \in Walk /\ walk'.slayer = None /\ ~walk'.dangling
      /\ walk'.scene = walk.scene /\ walk'.i = walk.i /\ walk'.b = walk.b
      /\ walk'.finished = walk.finished
  BY <1>1 DEF Walk
<1>3. /\ Stage = "update" /\ Turn # None
      /\ Stage' = "update" /\ Turn' = None /\ Line' = Line
  BY <1>1, <1>2, UpdateSeen, SeenNext, WalkAssumption
<1>4. Round!Return
  BY <1>1, <1>3 DEF Round!Return
<1>5. QED
  BY <1>4 DEF Round!Next

LEMMA RoundEnd ==
  ASSUME UpdateEnd, ~walk.dangling
  PROVE  Round!Next
<1>1. /\ walk # None /\ walk.slayer = None /\ walk.finished /\ walk' = None
      /\ UNCHANGED <<layers, killed>>
  BY DEF UpdateEnd
<1>2. /\ Stage = "update" /\ Turn = None /\ Line = <<>>
      /\ Stage' = "idle" /\ Turn' = None /\ Line' = <<>>
  BY <1>1, UpdateSeen, SeenNext
<1>3. Round!End
  BY <1>1, <1>2 DEF Round!End, Round!Comes
<1>4. QED
  BY <1>3 DEF Round!Next

LEMMA RoundStep ==
  IInv /\ DangleInv /\ Home /\ [Next]_vars => [Round!Next]_(Round!vars)
<1> SUFFICES ASSUME IInv, DangleInv, Home, [Next]_vars
             PROVE  Round!Next \/ UNCHANGED Round!vars
  OBVIOUS
<1>1. CASE UNCHANGED <<layers, killed, walk>>
  BY <1>1 DEF Round!vars, Line, Turn, Stage
<1>2. CASE Next /\ walk # None /\ walk.dangling
  BY <1>2, RoundLost
<1>3. CASE Next /\ (walk # None => ~walk.dangling)
  <2>1. ASSUME NEW l \in Layers, Kill(l) PROVE Round!Next
    <3>1. /\ killed' = killed \cup {l} /\ GameRuns /\ layers' = layers
          /\ UNCHANGED <<Line, Turn, Stage>>
      BY <2>1 DEF Kill, Line, Turn, Stage
    <3>2. Round!Kill(l)
      BY <3>1, RoundClient DEF Round!Kill
    <3>3. QED
      BY <3>2 DEF Round!Next
  <2>2. ASSUME NEW l \in Layers, PushLayer(l) PROVE Round!Next
    BY <1>3, <2>2, RoundPush
  <2>3. ASSUME NEW l \in Layers, RemoveLayer(l) PROVE Round!Next
    <3>1. SceneOf[l] \in Scenes
      BY SceneAssumption
    <3>2. QED
      BY <1>3, <2>3, <3>1, RoundTake DEF RemoveLayer
  <2>4. ASSUME NEW s \in Scenes, PopLayer(s) PROVE Round!Next
    <3> DEFINE t == layers[s]
               l == Head(t)
    <3>1. t \in Seq(Layers) /\ IsInjective(t) /\ t # <<>>
      BY <2>4 DEF IInv, LayersInv, PopLayer
    <3>2. l \in ToSet(t) /\ Tail(t) = Without(t, l)
      BY <3>1, TailFacts, TailIsWithout
    <3>3. /\ layers' = [layers EXCEPT ![s] = Without(t, l)] /\ walk' = Disturbed(walk, l)
          /\ killed' = killed /\ GameRuns
      BY <2>4, <3>2 DEF PopLayer
    <3> HIDE DEF l
    <3>4. QED
      BY <1>3, <3>2, <3>3, RoundTake
  <2>5. CASE UpdateBegin \/ RemoveZombie \/ UpdateLayer
    BY <2>5, RoundBegin, RoundZombie, RoundUpdate
  <2>6. CASE LayerReturn \/ UpdateEnd
    BY <1>3, <2>6, RoundReturn, RoundEnd DEF LayerReturn, UpdateEnd
  <2>7. QED
    BY <1>1, <1>3, <2>1, <2>2, <2>3, <2>4, <2>5, <2>6
       DEF Next, Game, Update, PushScene, PopScene, SetBackground, Suspend
<1>4. QED
  BY <1>1, <1>2, <1>3 DEF vars

(* Scene::update comes by its layers as UpdateRound promises, for any      *)
(* number of scenes and layers and whatever the layers do.                 *)
THEOREM UpdatesInRounds == Spec => KeepsRounds
<1>1. Init => DangleInv /\ Home /\ Round!Init
  <2>1. ToSet(<<>>) = {}
    BY DEF ToSet
  <2>2. Init => UNION {ToSet(layers[s]) : s \in Scenes} = {}
    BY <2>1 DEF Init
  <2>3. QED
    BY <2>1, <2>2, UpdateSeen DEF Init, DangleInv, Home, Round!Init
<1>2. Spec => []IInv
  BY IInit, IStep, PTL DEF Spec
<1>3. Spec => [](DangleInv /\ Home)
  BY <1>1, <1>2, DangleStep, HomeStep, PTL DEF Spec
<1>4. QED
  BY <1>1, <1>2, <1>3, RoundStep, PTL DEF Spec, KeepsRounds, Round!Spec
=============================================================================
