---------------------------- MODULE SceneManager ----------------------------
(***************************************************************************)
(* Game::SceneManager, Game::Scene and Game::SceneLayer: the stack of      *)
(* scenes, the layers of each scene, and Scene::update, which walks over   *)
(* the layers and calls them.  A layer's update may push, pop, remove and  *)
(* kill layers and push and pop scenes: the walk is cut into steps there.  *)
(***************************************************************************)
EXTENDS PointerList

CONSTANTS
  Scenes, Layers,
  SceneOf,      (* the scene each layer is made for                        *)
  UpdateBlock,  (* the layers with the flag ISceneLayer::UpdateBlock       *)
  RenderBlock,  (* the layers with the flag ISceneLayer::RenderBlock       *)
  Colors, Black,
  None,         (* no scene, no layer, no walk                             *)
  MaxStack      (* bound: scenes under the active one                       *)

ASSUME SceneAssumption ==
  /\ SceneOf \in [Layers -> Scenes]
  /\ UpdateBlock \subseteq Layers
  /\ RenderBlock \subseteq Layers
  /\ Black \in Colors
  /\ None \notin Scenes \cup Layers \cup Colors
  /\ MaxStack \in Nat

VARIABLES
  stack,      (* the scenes under the active one, the newest first         *)
  active,     (* the active scene, or None                                 *)
  activated,  (* the scenes whose flag active is set                       *)
  layers,     (* the layer list of each scene, the front layer first       *)
  killed,     (* the layers whose flag killed is set                       *)
  bgcolor,    (* the background of each scene                              *)
  painted,    (* the painter's background color                            *)
  stale,      (* ghost: None while the top scene is the active one, else   *)
              (* the background of the last scene that was                 *)
  suspended,  (* Engine::isSuspended()                                     *)
  walk        (* the Scene::update in progress, or None                    *)

manager == <<stack, active, activated, painted, stale>>
vars == <<manager, layers, killed, bgcolor, suspended, walk>>

(***************************************************************************)
(* A Scene::update: l_i and l_b by the layer their nodes hold, l_slayer    *)
(* while its update runs, l_finished, and whether one of the two nodes was *)
(* freed while the loop still needs it.  The rest are ghosts: the layers   *)
(* as the walk began, those killed by then, those the walk has come by,    *)
(* and whether a layer's update has taken another layer off the scene.     *)
(***************************************************************************)
Walk == [scene : Scenes, i : Layers, b : Layers, slayer : Layers \cup {None},
         finished : BOOLEAN, dangling : BOOLEAN,
         was : Seq(Layers), dead : SUBSET Layers,
         seen : Seq(Layers), disturbed : BOOLEAN]

ASSUME WalkAssumption == None \notin Walk

TypeOK ==
  /\ stack \in Seq(Scenes)
  /\ active \in Scenes \cup {None}
  /\ activated \in SUBSET Scenes
  /\ layers \in [Scenes -> Seq(Layers)]
  /\ killed \in SUBSET Layers
  /\ bgcolor \in [Scenes -> Colors]
  /\ painted \in Colors
  /\ stale \in Colors \cup {None}
  /\ suspended \in BOOLEAN
  /\ walk \in Walk \cup {None}

Init ==
  /\ stack = <<>>
  /\ active = None
  /\ activated = {}
  /\ layers = [s \in Scenes |-> <<>>]
  /\ killed = {}
  /\ bgcolor = [s \in Scenes |-> Black]
  /\ painted = Black
  /\ stale = Black
  /\ suspended = FALSE
  /\ walk = None

-----------------------------------------------------------------------------
(* Code of the game has the CPU: between two frames, or in a layer.        *)
GameRuns == walk # None => walk.slayer # None

(* Mistake: the last layer with a flag. *)
Blocker_Last(s, flag) ==
  CHOOSE k \in DOMAIN s :
    /\ \A j \in k + 1..Len(s) : s[j] \notin flag
    /\ s[k] \in flag \/ k = 1

(* The first layer with a flag, or the last layer if none has it.          *)
Blocker(s, flag) ==
  CHOOSE k \in DOMAIN s :
    /\ \A j \in 1..k - 1 : s[j] \notin flag
    /\ s[k] \in flag \/ k = Len(s)

(* The layers from the blocking one to the front. *)
Shown(s, flag) ==
  IF s = <<>> THEN <<>> ELSE Reverse(SubSeq(s, 1, Blocker(s, flag)))

(* The walk w when the node of the layer l is freed. *)
Freed(w, l) ==
  [w EXCEPT !.dangling = @ \/ (~w.finished /\ l \in {w.i, w.b})]

(* The walk w when a layer, or the game between two frames, removes l.     *)
Disturbed(w, l) ==
  IF w # None /\ l \in ToSet(layers[w.scene])
  THEN [Freed(w, l) EXCEPT !.disturbed = @ \/ l # w.slayer]
  ELSE w

(***************************************************************************)
(* SceneManager                                                            *)
(***************************************************************************)
PushScene(s) ==
  /\ GameRuns
  /\ Len(stack) < MaxStack
  /\ stack' = IF active = None THEN stack ELSE <<active>> \o stack
  /\ activated' = (activated \ {active}) \cup {s}
  /\ active' = s
  /\ painted' = bgcolor[s]
  /\ stale' = None
  /\ UNCHANGED <<layers, killed, bgcolor, suspended, walk>>

(* The scene that comes back is not activated, and the painter not told.   *)
PopScene ==
  /\ GameRuns
  /\ activated' = activated \ {active}
  /\ active' = IF stack = <<>> THEN None ELSE Head(stack)
  /\ stack' = IF stack = <<>> THEN <<>> ELSE Tail(stack)
  /\ stale' = IF stale = None THEN bgcolor[active] ELSE stale
  /\ UNCHANGED <<layers, killed, bgcolor, painted, suspended, walk>>

(* Mistake: the painter is told whatever the scene. *)
SetBackground_Always(s, c) ==
  /\ GameRuns
  /\ bgcolor' = [bgcolor EXCEPT ![s] = c]
  /\ painted' = c
  /\ UNCHANGED <<stack, active, activated, stale, layers, killed, suspended, walk>>

SetBackground(s, c) ==
  /\ GameRuns
  /\ bgcolor' = [bgcolor EXCEPT ![s] = c]
  /\ painted' = IF s \in activated THEN c ELSE painted
  /\ UNCHANGED <<stack, active, activated, stale, layers, killed, suspended, walk>>

(* Engine::suspend and resume. *)
Suspend(b) ==
  /\ GameRuns
  /\ suspended' = b
  /\ UNCHANGED <<manager, layers, killed, bgcolor, walk>>

(***************************************************************************)
(* The layers of a scene.  The game pushes a layer when it is in no list,  *)
(* and none that is killed: the next update would only take it off.        *)
(***************************************************************************)
PushLayer(l) ==
  /\ GameRuns
  /\ l \notin ToSet(layers[SceneOf[l]])
  /\ l \notin killed
  /\ layers' = [layers EXCEPT ![SceneOf[l]] = <<l>> \o @]
  /\ UNCHANGED <<manager, killed, bgcolor, suspended, walk>>

PopLayer(s) ==
  /\ GameRuns
  /\ layers[s] # <<>>
  /\ layers' = [layers EXCEPT ![s] = Tail(@)]
  /\ walk' = Disturbed(walk, Head(layers[s]))
  /\ UNCHANGED <<manager, killed, bgcolor, suspended>>

RemoveLayer(l) ==
  /\ GameRuns
  /\ l \in ToSet(layers[SceneOf[l]])
  /\ layers' = [layers EXCEPT ![SceneOf[l]] = Without(@, l)]
  /\ walk' = Disturbed(walk, l)
  /\ UNCHANGED <<manager, killed, bgcolor, suspended>>

Kill(l) ==
  /\ GameRuns
  /\ killed' = killed \cup {l}
  /\ UNCHANGED <<manager, layers, bgcolor, suspended, walk>>

(***************************************************************************)
(* SceneManager::update and Scene::update                                  *)
(***************************************************************************)
UpdateBegin ==
  /\ walk = None
  /\ active # None
  /\ ~suspended
  /\ layers[active] # <<>>
  /\ walk' = [scene |-> active,
              i |-> layers[active][Blocker(layers[active], UpdateBlock)],
              b |-> Head(layers[active]),
              slayer |-> None, finished |-> FALSE, dangling |-> FALSE,
              was |-> layers[active], dead |-> killed, seen |-> <<>>,
              disturbed |-> FALSE]
  /\ UNCHANGED <<manager, layers, killed, bgcolor, suspended>>

(* The walk has a layer to take: what it would do with a freed node is     *)
(* undefined.                                                              *)
Walking ==
  /\ walk # None
  /\ walk.slayer = None
  /\ ~walk.finished
  /\ ~walk.dangling

(* l_slayer is taken, and l_i moves on unless it is at l_b. *)
Stepped ==
  LET s == layers[walk.scene]
  IN  [walk EXCEPT !.finished = (walk.i = walk.b),
                   !.i = IF walk.i = walk.b THEN @ ELSE s[Place(s, @) - 1],
                   !.seen = Append(@, walk.i)]

(* Mistake: l_i moves on after its layer was removed. *)
RemoveZombie_First ==
  /\ Walking
  /\ walk.i \in killed
  /\ layers' = [layers EXCEPT ![walk.scene] = Without(@, walk.i)]
  /\ walk' = [Stepped EXCEPT !.dangling = Freed(walk, walk.i).dangling]
  /\ UNCHANGED <<manager, killed, bgcolor, suspended>>

(* Mistake: the walk passes over a zombie and leaves it on the scene. *)
RemoveZombie_Keep ==
  /\ Walking
  /\ walk.i \in killed
  /\ walk' = Stepped
  /\ UNCHANGED <<manager, layers, killed, bgcolor, suspended>>

RemoveZombie ==
  /\ Walking
  /\ walk.i \in killed
  /\ layers' = [layers EXCEPT ![walk.scene] = Without(@, walk.i)]
  /\ walk' = Freed(Stepped, walk.i)
  /\ UNCHANGED <<manager, killed, bgcolor, suspended>>

(* Mistake: zombies are updated like the rest. *)
UpdateLayer_Zombies ==
  /\ Walking
  /\ walk' = [Stepped EXCEPT !.slayer = walk.i]
  /\ UNCHANGED <<manager, layers, killed, bgcolor, suspended>>

UpdateLayer ==
  /\ Walking
  /\ walk.i \notin killed
  /\ walk' = [Stepped EXCEPT !.slayer = walk.i]
  /\ UNCHANGED <<manager, layers, killed, bgcolor, suspended>>

LayerReturn ==
  /\ walk # None
  /\ walk.slayer # None
  /\ walk' = [walk EXCEPT !.slayer = None]
  /\ UNCHANGED <<manager, layers, killed, bgcolor, suspended>>

UpdateEnd ==
  /\ walk # None
  /\ walk.slayer = None
  /\ walk.finished
  /\ walk' = None
  /\ UNCHANGED <<manager, layers, killed, bgcolor, suspended>>

(***************************************************************************)
(* SceneManager::render: what a frame draws, the scenes of the stack and   *)
(* then the active one.  It changes nothing.                               *)
(***************************************************************************)
(* Mistake: a scene is drawn from the front. *)
Frame_FromFront ==
  LET scenes == stack \o (IF active = None THEN <<>> ELSE <<active>>)
  IN  FlattenSeq([k \in DOMAIN scenes |-> Reverse(Shown(layers[scenes[k]], RenderBlock))])

Frame ==
  LET scenes == stack \o (IF active = None THEN <<>> ELSE <<active>>)
  IN  FlattenSeq([k \in DOMAIN scenes |-> Shown(layers[scenes[k]], RenderBlock)])

Game ==
  \/ \E s \in Scenes : PushScene(s) \/ PopLayer(s)
  \/ PopScene
  \/ \E s \in Scenes, c \in Colors : SetBackground(s, c)
  \/ \E b \in BOOLEAN : Suspend(b)
  \/ \E l \in Layers : PushLayer(l) \/ RemoveLayer(l) \/ Kill(l)

Update == UpdateBegin \/ RemoveZombie \/ UpdateLayer \/ LayerReturn \/ UpdateEnd

Next == Game \/ Update

Spec == Init /\ [][Next]_vars

-----------------------------------------------------------------------------
(***************************************************************************)
(* Properties                                                              *)
(***************************************************************************)

(* After a push the scene on top is the only one active, and the painter   *)
(* has its background, whatever is set for the scenes it covers.  A pop    *)
(* leaves no scene active, the one that comes back included: the painter   *)
(* then keeps the background of the scene that was popped, and follows     *)
(* that of no scene, through more pops and until the next push.            *)
TopSceneShown ==
  /\ active = None => stack = <<>>
  /\ IF stale = None
     THEN active # None /\ activated = {active} /\ painted = bgcolor[active]
     ELSE activated = {} /\ painted = stale

(* Scene::update does not touch a freed list node as long as no layer's    *)
(* update takes another layer off the scene: it may take itself off, kill  *)
(* any layer and push new ones, and the walk itself removes zombies.       *)
NoDangling == walk # None /\ walk.dangling => walk.disturbed

Undisturbed == walk # None /\ walk.finished /\ ~walk.disturbed

(* Then it comes by every layer down to the first that blocks updates,     *)
(* from that one to the front, once each, and by none behind it or pushed  *)
(* meanwhile.                                                              *)
WalkedAll ==
  Undisturbed =>
    LET n == Len(walk.seen)
    IN  /\ Reverse(walk.seen) = SubSeq(walk.was, 1, n)
        /\ \A k \in 1..n - 1 : walk.was[k] \notin UpdateBlock
        /\ n = Len(walk.was) \/ walk.was[n] \in UpdateBlock

(* At every moment of a walk, none of the layers it has come by and that   *)
(* were dead when it began is on the scene, whatever layers do.            *)
ZombiesBuried ==
  walk # None =>
    ToSet(walk.seen) \cap walk.dead \cap ToSet(layers[walk.scene]) = {}

(* The scenes a frame draws. *)
OnStack == ToSet(stack) \cup ({active} \ {None})

(* A frame draws every scene that is active or on the stack, all of its    *)
(* layers from the front down to the first that hides the rest, none that  *)
(* is hidden and none of another scene.  It draws them from back to front: *)
(* what is in front of a layer is drawn after the layer is, for the last   *)
(* time if the scene is on the stack more than once.                       *)
DrawnBackToFront ==
  LET drawn == Frame
  IN  \A s \in Scenes : \A k \in DOMAIN layers[s] :
        /\ layers[s][k] \in ToSet(drawn) <=>
             /\ s \in OnStack
             /\ \A i \in 1..k - 1 : layers[s][i] \notin RenderBlock
        /\ layers[s][k] \in ToSet(drawn) =>
             \A j \in 1..k - 1 : \E m \in DOMAIN drawn :
               /\ drawn[m] = layers[s][j]
               /\ \A n \in m..Len(drawn) : drawn[n] # layers[s][k]

(* The layers from that of l_i to that of l_b, which the walk has yet to   *)
(* come by.                                                                *)
ToCome(s, i, b) ==
  [k \in 1..Place(s, i) - Place(s, b) + 1 |-> s[Place(s, i) + 1 - k]]

Stage == IF walk = None THEN "idle" ELSE IF walk.dangling THEN "lost" ELSE "update"
Turn == IF walk = None THEN None ELSE walk.slayer
Line ==
  IF Stage = "update" /\ ~walk.finished
  THEN ToCome(layers[walk.scene], walk.i, walk.b)
  ELSE <<>>

(* An update of a scene keeps the promises of UpdateRound: Scene::update   *)
(* comes by its layers in a line, whatever they do to it, unless one takes *)
(* a layer off whose node the walk is at or ends at.                       *)
Round == INSTANCE UpdateRound WITH
  Objects <- Layers, present <- UNION {ToSet(layers[s]) : s \in Scenes},
  dead <- killed, line <- Line, current <- Turn, state <- Stage

KeepsRounds == Round!Spec
=============================================================================
