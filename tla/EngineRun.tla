------------------------------ MODULE EngineRun ------------------------------
(***************************************************************************)
(* Game::Engine from run() to its return: initialize(), the iterations of  *)
(* the loop and finalize(), with the engine features they call and the     *)
(* managers they create and delete.  Features, the game's own hooks and its *)
(* listeners may add and remove features and stop the engine whenever they *)
(* run.                                                                    *)
(***************************************************************************)
EXTENDS PointerList

CONSTANTS
  Features,
  Codes,       (* the exit codes in use                                    *)
  None,        (* no feature, no walk, no manager, no event                *)
  MaxRuns      (* bound: how often run() is called                          *)

ASSUME RunAssumption ==
  /\ None \notin Features \cup Codes
  /\ Codes \subseteq Int
  /\ MaxRuns \in Nat

VARIABLES
  pc,             (* where run() is, see Places                            *)
  features,
  walk,           (* the loop over features in progress, or None           *)
  running,
  exit_code,
  event_manager,  (* who made Engine's event manager: "engine", "game", or *)
                  (* None                                                  *)
  scene_manager,  (* Engine has a scene manager (and a factory)            *)
  quit,           (* the code of a QuitEvent that is queued, or None       *)
  ready,          (* the queue it is in is the active one                  *)
  missed,         (* ghost: the last one queued never reached the engine   *)
  result,         (* what the last run() returned                          *)
  runs,           (* ghost: calls of run()                                 *)
  up,             (* ghost: features initialized and not finalized since   *)
  late,           (* ghost: features up since before, removed, or added    *)
                  (* after the walk of initialize(), in this run           *)
  misused,        (* ghost: features called out of turn in this run        *)
  disturbed       (* ghost: a walk lost the place it was at                *)

managers == <<event_manager, scene_manager>>
queued == <<quit, ready, missed>>
ghosts == <<runs, up, late, misused>>
vars == <<pc, features, walk, running, exit_code, managers, queued, result,
          ghosts, disturbed>>

(***************************************************************************)
(* "idle": outside run(); "initialize", "tick", "finalize": the walks over *)
(* the features; "setup", "update", "render", "cleanup": the game's hooks  *)
(* (initialize(), update(), render() and finalize() of the subclass);      *)
(* "loop": the condition of the loop; "poll": the hook second() and the    *)
(* events of the graphics backend; "execute": the event queue; "exit": the *)
(* managers go.  Hooks are the places at which the game's hooks or its     *)
(* listeners run.                                                          *)
(***************************************************************************)
Places == {"idle", "initialize", "setup", "loop", "poll", "tick", "execute",
           "update", "render", "cleanup", "finalize", "exit"}
Hooks == {"setup", "poll", "execute", "update", "render", "cleanup"}

(***************************************************************************)
(* A walk: at is the node of l_i.  A reverse_iterator holds the node after *)
(* the one it stands for, and rend() the first node as the walk begins.    *)
(***************************************************************************)
Walk == [at : Features \cup {None}, last : Features \cup {None},
         calling : Features \cup {None}, dangling : BOOLEAN]

ASSUME WalkAssumption == None \notin Walk

TypeOK ==
  /\ pc \in Places
  /\ features \in Seq(Features)
  /\ walk \in Walk \cup {None}
  /\ walk # None => pc \in {"initialize", "tick", "finalize"}
  /\ running \in BOOLEAN
  /\ exit_code \in Codes \cup {0, -1}
  /\ event_manager \in {"engine", "game", None}
  /\ scene_manager \in BOOLEAN
  /\ quit \in Codes \cup {None}
  /\ ready \in BOOLEAN
  /\ missed \in BOOLEAN
  /\ result \in Codes \cup {0, -1, None}
  /\ runs \in 0..MaxRuns
  /\ up \in SUBSET Features
  /\ late \in SUBSET Features
  /\ misused \in SUBSET Features
  /\ disturbed \in BOOLEAN

Init ==
  /\ pc = "idle"
  /\ features = <<>>
  /\ walk = None
  /\ running = FALSE
  /\ exit_code = 0
  /\ event_manager \in {"game", None}
  /\ scene_manager = FALSE
  /\ quit = None
  /\ ready = FALSE
  /\ missed = FALSE
  /\ result = None
  /\ runs = 0
  /\ up = {} /\ late = {} /\ misused = {}
  /\ disturbed = FALSE

-----------------------------------------------------------------------------
(***************************************************************************)
(* What the game and its features do when they have the CPU.               *)
(***************************************************************************)
GameRuns ==
  IF walk = None THEN pc \in Hooks \cup {"idle"} ELSE walk.calling # None

(* From the end of the walk of initialize() until run() returns. *)
Underway == pc \notin {"idle", "initialize"}

(* Bound: what was removed during a run is not added again in it.          *)
AddFeature(f) ==
  /\ GameRuns
  /\ pc # "idle" => f \notin late
  /\ f \notin ToSet(features)
  /\ features' = Append(features, f)
  /\ late' = IF Underway THEN late \cup {f} ELSE late
  /\ disturbed' = (disturbed \/ (walk # None /\ pc = "finalize"))
  /\ UNCHANGED <<pc, walk, running, exit_code, managers, queued, result,
                 runs, up, misused>>

(* The node of f is freed. *)
RemoveFeature(f) ==
  /\ GameRuns
  /\ f \in ToSet(features)
  /\ features' = Without(features, f)
  /\ late' = IF pc = "idle" THEN late ELSE late \cup {f}
  /\ walk' = IF walk = None THEN None
             ELSE [walk EXCEPT !.dangling = @ \/ f \in {walk.at, walk.last}]
  /\ disturbed' = (disturbed \/ (walk # None /\ (pc = "finalize" \/ f = walk.calling)))
  /\ UNCHANGED <<pc, running, exit_code, managers, queued, result,
                 runs, up, misused>>

(* Engine::stop, also by way of Game::Backend::Stop. *)
Stop(code) ==
  /\ GameRuns
  /\ pc # "idle"
  /\ exit_code' = code
  /\ running' = FALSE
  /\ UNCHANGED <<pc, features, walk, managers, queued, result, ghosts, disturbed>>

(***************************************************************************)
(* The game or the signal handler queues a QuitEvent, in the queue that is *)
(* not the active one.  Bound: one at a time.                              *)
(***************************************************************************)
QueueQuit(code) ==
  /\ event_manager # None
  /\ quit = None
  /\ quit' = code
  /\ ready' = FALSE
  /\ missed' = FALSE
  /\ UNCHANGED <<pc, features, walk, running, exit_code, managers, result,
                 ghosts, disturbed>>

(* The game dequeues it, which the active queue is not searched for.       *)
DequeueQuit ==
  /\ GameRuns
  /\ quit # None
  /\ ~ready
  /\ quit' = None
  /\ missed' = TRUE
  /\ UNCHANGED <<pc, features, walk, running, exit_code, managers, ready,
                 result, ghosts, disturbed>>

-----------------------------------------------------------------------------
(***************************************************************************)
(* The walks over the features                                             *)
(***************************************************************************)
(* Mistake: the loop ends before the last feature. *)
Forward_LastNode ==
  [at |-> IF features = <<>> THEN None ELSE Head(features),
   last |-> IF features = <<>> THEN None ELSE Last(features),
   calling |-> None, dangling |-> FALSE]

Forward == [at |-> IF features = <<>> THEN None ELSE Head(features),
            last |-> None, calling |-> None, dangling |-> FALSE]

(* Mistake: rbegin() from the last node, which passes over its feature. *)
Backward_SkipLast ==
  [at |-> IF features = <<>> THEN None ELSE Last(features),
   last |-> IF features = <<>> THEN None ELSE Head(features),
   calling |-> None, dangling |-> FALSE]

Backward == [at |-> None,
             last |-> IF features = <<>> THEN None ELSE Head(features),
             calling |-> None, dangling |-> FALSE]

Walking == walk # None /\ walk.calling = None /\ ~walk.dangling

AtEnd == walk.at = walk.last

Before(f) == IF f = None THEN Last(features) ELSE features[Place(features, f) - 1]

Following(f) ==
  LET i == Place(features, f)
  IN  IF i < Len(features) THEN features[i + 1] ELSE None

(* A feature is called: initialize, tick or finalize. *)
Call ==
  /\ Walking
  /\ ~AtEnd
  /\ LET f == IF pc = "finalize" THEN Before(walk.at) ELSE walk.at
     IN  /\ walk' = [walk EXCEPT !.calling = f]
         /\ up' = CASE pc = "initialize" -> up \cup {f}
                    [] pc = "finalize"   -> up \ {f}
                    [] OTHER             -> up
         /\ misused' = IF (pc = "initialize") = (f \in up)
                       THEN misused \cup {f} ELSE misused
  /\ UNCHANGED <<pc, features, running, exit_code, managers, queued, result,
                 runs, late, disturbed>>

(* It returns, and the iterator moves on (++ of a freed node is undefined).*)
Return ==
  /\ walk # None
  /\ walk.calling # None
  /\ walk' = IF walk.dangling THEN [walk EXCEPT !.calling = None]
             ELSE [walk EXCEPT !.calling = None,
                     !.at = IF pc = "finalize" THEN Before(@) ELSE Following(@)]
  /\ UNCHANGED <<pc, features, running, exit_code, managers, queued, result,
                 ghosts, disturbed>>

Done == Walking /\ AtEnd

-----------------------------------------------------------------------------
(* run() begins: the event manager and the graphics backend.               *)
Run ==
  /\ pc = "idle"
  /\ runs < MaxRuns
  /\ runs' = runs + 1
  /\ pc' = "initialize"
  /\ event_manager' = IF event_manager = None THEN "engine" ELSE event_manager
  /\ walk' = Forward
  /\ late' = up
  /\ misused' = {}
  /\ disturbed' = FALSE
  /\ UNCHANGED <<features, running, exit_code, scene_manager, queued, result, up>>

(* The scene manager and the factory; Graphics::Backend::Setup.            *)
Setup(ok) ==
  /\ pc = "initialize"
  /\ Done
  /\ scene_manager' = TRUE
  /\ walk' = None
  /\ pc' = IF ok THEN "setup" ELSE "cleanup"
  /\ result' = IF ok THEN result ELSE -1
  /\ UNCHANGED <<features, running, exit_code, event_manager, queued,
                 ghosts, disturbed>>

(* The game's initialize() returns ok: running is set whatever it did.     *)
Initialized(ok) ==
  /\ pc = "setup"
  /\ pc' = IF ok THEN "loop" ELSE "cleanup"
  /\ running' = IF ok THEN TRUE ELSE running
  /\ result' = IF ok THEN result ELSE -1
  /\ UNCHANGED <<features, walk, exit_code, managers, queued,
                 ghosts, disturbed>>

Iterate ==
  /\ pc = "loop"
  /\ running
  /\ pc' = "poll"
  /\ UNCHANGED <<features, walk, running, exit_code, managers, queued, result,
                 ghosts, disturbed>>

(* The backend finds its window closed: it dispatches a QuitEvent of its   *)
(* own, past the queues, and the engine stops.                             *)
CloseWindow ==
  /\ pc = "poll"
  /\ exit_code' = -1
  /\ running' = FALSE
  /\ UNCHANGED <<pc, features, walk, managers, queued, result, ghosts, disturbed>>

Polled ==
  /\ pc = "poll"
  /\ pc' = "tick"
  /\ walk' = Forward
  /\ UNCHANGED <<features, running, exit_code, managers, queued, result,
                 ghosts, disturbed>>

Ticked ==
  /\ pc = "tick"
  /\ Done
  /\ walk' = None
  /\ pc' = "execute"
  /\ UNCHANGED <<features, running, exit_code, managers, queued, result,
                 ghosts, disturbed>>

(***************************************************************************)
(* EventManager::execute, as far as the QuitEvent is concerned: the active *)
(* queue is dispatched until it is empty or an event in the future is at   *)
(* its front, and the queues change roles when it is empty.                *)
(***************************************************************************)
QuitDue ==
  /\ pc = "execute"
  /\ quit # None
  /\ ready
  /\ quit' = None
  /\ ready' = FALSE
  /\ UNCHANGED <<pc, features, walk, managers, result, ghosts, disturbed>>

(* Mistake: handleEvent knows no QuitEvent. *)
HandleQuit_Unknown == QuitDue /\ UNCHANGED <<running, exit_code, missed>>

(* It is dispatched to Engine::handleEvent. *)
HandleQuit ==
  /\ QuitDue
  /\ exit_code' = quit
  /\ running' = FALSE
  /\ UNCHANGED missed

(* It is dispatched, but another listener takes it, or ends the dispatch   *)
(* by connecting or disconnecting one, before the engine's turn.           *)
MissQuit ==
  /\ QuitDue
  /\ missed' = TRUE
  /\ UNCHANGED <<running, exit_code>>

(* The active queue is empty. *)
Drained ==
  /\ pc = "execute"
  /\ ~ready
  /\ ready' = (quit # None)
  /\ pc' = "update"
  /\ UNCHANGED <<features, walk, running, exit_code, managers, quit, missed,
                 result, ghosts, disturbed>>

(* An event in the future is at its front. *)
Held ==
  /\ pc = "execute"
  /\ pc' = "update"
  /\ UNCHANGED <<features, walk, running, exit_code, managers, queued, result,
                 ghosts, disturbed>>

(* The hook update() returns; the frame may be drawn. *)
Updated(draw) ==
  /\ pc = "update"
  /\ pc' = IF draw THEN "render" ELSE "loop"
  /\ UNCHANGED <<features, walk, running, exit_code, managers, queued, result,
                 ghosts, disturbed>>

Rendered ==
  /\ pc = "render"
  /\ pc' = "loop"
  /\ UNCHANGED <<features, walk, running, exit_code, managers, queued, result,
                 ghosts, disturbed>>

Leave ==
  /\ pc = "loop"
  /\ ~running
  /\ pc' = "cleanup"
  /\ result' = None
  /\ UNCHANGED <<features, walk, running, exit_code, managers, queued,
                 ghosts, disturbed>>

(* The hook finalize() returns; factory and scene manager are deleted.     *)
Cleaned ==
  /\ pc = "cleanup"
  /\ scene_manager' = FALSE
  /\ walk' = Backward
  /\ pc' = "finalize"
  /\ UNCHANGED <<features, running, exit_code, event_manager, queued, result,
                 ghosts, disturbed>>

Finalized ==
  /\ pc = "finalize"
  /\ Done
  /\ walk' = None
  /\ pc' = "exit"
  /\ UNCHANGED <<features, running, exit_code, managers, queued, result,
                 ghosts, disturbed>>

(* The event manager is deleted with what is queued; run() returns.        *)
Exit ==
  /\ pc = "exit"
  /\ event_manager' = None
  /\ quit' = None
  /\ ready' = FALSE
  /\ missed' = FALSE
  /\ result' = IF result = -1 THEN -1 ELSE exit_code
  /\ misused' = misused \cup up
  /\ pc' = "idle"
  /\ UNCHANGED <<features, walk, running, exit_code, scene_manager,
                 runs, up, late, disturbed>>

Game ==
  \/ \E f \in Features : AddFeature(f) \/ RemoveFeature(f)
  \/ \E code \in Codes : Stop(code)
  \/ DequeueQuit

Execute == HandleQuit \/ MissQuit \/ Drained \/ Held

Engine ==
  \/ Call \/ Return
  \/ \E ok \in BOOLEAN : Setup(ok) \/ Initialized(ok)
  \/ Iterate \/ Polled \/ Ticked \/ Execute
  \/ \E draw \in BOOLEAN : Updated(draw)
  \/ Rendered \/ Leave \/ Cleaned \/ Finalized \/ Exit

Next ==
  \/ Game \/ Engine \/ Run \/ CloseWindow
  \/ \E code \in Codes : QueueQuit(code)

Spec == Init /\ [][Next]_vars

(***************************************************************************)
(* The engine runs on, and the features, hooks and listeners it calls      *)
(* return.  Nothing is added to the active queue, and time passes every    *)
(* time stamp in it: what is in it is dispatched, and it is drained.       *)
(***************************************************************************)
FairSpec ==
  /\ Spec
  /\ WF_vars(Engine)
  /\ SF_vars(HandleQuit \/ MissQuit)
  /\ SF_vars(Drained)

-----------------------------------------------------------------------------
(* In a run, a feature is initialized first, then ticked, and finalized    *)
(* once at last, if it was there when initialize() walked and nobody takes *)
(* it away, whatever the others do to the list meanwhile (as long as no    *)
(* feature pulls a node from under a walk, and finalize() of a feature     *)
(* adds none: a reverse_iterator at end() would then go back to the last). *)
FeaturesInTurn == ~disturbed => misused \subseteq late

(* A walk over the features does not touch a freed node unless a feature   *)
(* removes itself, or finalize() of a feature removes any.                 *)
WalkSafe == walk # None /\ walk.dangling => disturbed

Lost == walk # None /\ walk.dangling

InLoop == pc \in {"loop", "poll", "tick", "execute", "update", "render"}

(* A QuitEvent that is queued when the loop runs, say by the signal        *)
(* handler, reaches the engine through both queues, however long events in *)
(* the future hold it back, unless the game dequeues it or a listener      *)
(* keeps it from the engine; and once the loop is to stop, by such an      *)
(* event, by a stop() in the loop or by the window being closed, run()     *)
(* comes to its end, through all the finalizing (a stop() made before the  *)
(* loop is lost: Initialized).                                             *)
QuitEnds ==
  /\ (quit # None /\ InLoop) ~> (pc = "idle" \/ Lost \/ missed)
  /\ (~running /\ InLoop) ~> (pc = "idle" \/ Lost)
=============================================================================
