# Verification of marshmallow_h

TLA+ models of the Marshmallow game engine, the TLC runs that check them on
small instances and TLAPS proofs about them. Paths below are relative to the
repository (`src/event/eventmanager.cpp` and so on).

    tlc -config EventManager.cfg MCEventManager     # a run: a .cfg and its MC module
    tlapm EventManagerProofs.tla                    # the proofs

`PROJECT.json` lists the runs, the source lines of every definition, for every
property a mutant of the code that breaks it, the hazards and the findings.

## The system

The engine is one thread: `Engine::run` iterates a loop that measures time,
ticks the engine features (audio, input), executes the event queue, dispatches
an update event and maybe a render event. The scene manager listens to these
two and updates and draws the scenes. There is one asynchronous caller, the Unix
signal handler that queues a `QuitEvent`. So the hard part is not threads but
**re-entrance**: nearly every component calls code of the game (listeners,
layers, features, entities) from within a walk over a list, and that code may
change the list, nest the walk, or stop the engine.

| Component | State | Operations | Called by / calls | What is hard | Correct when |
|---|---|---|---|---|---|
| Event manager `event/eventmanager.cpp` | listener lists by type, two queues with swapped roles, dispatch flags | connect, disconnect, queue, dequeue, dispatch, execute | everyone / listeners | listeners that (dis)connect, queue and dispatch; signal handler; sort by a comparator that is no order | each event freed once, by the one who dispatched it; no listener called twice, all called if the list stays as it is; batches |
| Engine `game/engine.cpp` | features, managers, running, exit code | run (initialize, loop, finalize), addFeature, removeFeature, stop, suspend | entry point / features, hooks, event manager | features that change the list during a walk; stop and quit at any moment | features initialized, ticked, finalized in turn; a stop stops |
| Engine loop timing `game/engine.cpp` | accumulators for frame and second | one iteration, setFrameRateMax | - | uneven frame times, long waits | rate limited, no bursts |
| Scene manager, scenes, layers `game/scene*.cpp` | scene stack, layers, killed flags, backgrounds | pushScene, popScene, pushLayer, popLayer, removeLayer, kill, update, render | event manager / layers | layers that change the list during the walk | one active scene, walk complete and safe |
| Audio player `audio/player.cpp`, `pcm.cpp` | tracks by id, playlist with iterations, buffers | load, eject, play, stop, rewind, setPCM, tick | audio feature / track, PCM backend | ends of tracks in the middle of a tick; formats that change | exact iterations, buffers large enough |
| Audio backends `audio/alsa`, `openal`, `dummy` | device handle, ring of buffers | open, close, write, framesAvailable | PCM | the hardware plays on between any two calls; underruns, writes that fail | what was reported as room is found; sound goes on |
| Linux input `input/linux/evdev*.cpp` | device slots, port bits, key states | initialize, finalize, tick, hot plug | input feature / kernel | notifications against scans, reused slots | ports distinct; open is what is there |
| Entities and components `game/entity*.cpp` | entity list of a layer, component list of an entity | add, remove, kill, update, render | layer / components | re-entrant change | as for layers |
| Colliders `game/collidercomponent.cpp` | registered bodies, link to position, movement, size | register, deregister, update, collision | layer / `collision()` of the game | bodies that vanish in the walk | - |
| Animation `game/animationcomponent.cpp` | animations, playback position | push/pop frame, play, stop, update | entity | pushes and pops during playback | no frame behind the end is shown |
| Splash and pause layers | fade state and timer | update, skip, reset, setAutoKill | scene | reset, kill, skip in any state; blocks the scene under it | no flash; gives way |
| Graphics `graphics/` | backend flags, X and GL objects, session of the painter, mesh and texture data, cached matrices | initialize, setup, finalize, tick; load, buffer, draw | engine, game / listeners of the viewport | a Setup that fails half way; data that outlives its context | viewport whole or gone; data uses names of its own |
| Data I/O `core/*io.cpp`, `gzip.cpp`, `zlib.cpp` | handle, position, mode | open, close, read, write, seek | assets, audio | failure in the middle, boundaries | reads what was written |
| Values `core/base64.cpp`, `hash.cpp`... | none | pure functions | - | padding | round trip |
| Tile map loader, factory, Box2D binding, other platforms | - | glue to data and libraries | - | - | - |

`PROJECT.json` has every component with its status, and the hazards at their
lines.

## The modules

| Module | Models |
|---|---|
| `PointerList` | place of a pointer in a `std::list`, and `std::list::remove` |
| `EventOrder` | `SortEvent`, and what a sort with it can give |
| `EventManager` | the event manager, with the call stack of nested dispatches |
| `EventBatches` | abstract: what users of the manager may rely on |
| `EventSort` | `std::list::sort` as libstdc++ does it (bottom-up merge sort), applied by `execute()` again and again |
| `UpdateRound` | abstract: what layers and entities may rely on when they are updated |
| `EngineRun` | `Engine::run` with the features, managers, stop and quit |
| `EngineClock` | times in `Engine::run` |
| `SceneManager` | scene manager, scenes and layers, walk by walk |
| `EntityLayer` | a layer of entities with their components and colliders |
| `AudioPlayer` | player and PCM |
| `Evdev` | event devices of Linux: scan, hot plug, ports |
| `GraphicsBackend` | the viewport of the X11 backend, with EGL or GLX |
| `GLData` | painter, textures and buffers, by the names GL gives them |
| `Graphics` | the two composed, with the game between them |
| `SplashSceneLayer` | the fades of a splash layer |
| `AnimationComponent` | the frames and the playback of an animation |
| `OpenALDevice` | the OpenAL device, and the player as far as it uses it |
| `TitleScreen` | the three composed on the engine's thread |
| `PointerListProofs` | lemmas about lists of pointers |
| `EventManagerProofs`, `EngineProofs`, `SceneManagerProofs`, `EntityLayerProofs`, `EvdevProofs`, `OutputProofs`, `TitleScreenProofs` | theorems; `EventManagerProofs` is also about `EventSort`, `EngineProofs` about `EngineRun` and `EngineClock`, `OutputProofs` about `Graphics` and `AudioPlayer` |
| `MC...` | values of the constants for TLC |

Conventions. One action per operation of the code; a loop that calls the game
is cut at the calls (a record such as `frames`, `walk` or `tick` holds the local
variables of the call in progress), and the game's code acts exactly where it
has the CPU (`GameRuns`, `ClientRuns`). Iterators are modelled by the element
they point to, plus a flag that says that the node has been freed: following
such an iterator is undefined behaviour, and the model stops there. Variables
marked *ghost* record history for the properties and never guard a step of the
program, except where a comment says *bound*. An operator that starts with
`(* Mistake:` is a plausible bug, used only by the mutant of that property.

**EventManager.** `listener_map`, `event_queue`, `active_queue`,
`dispatch_type` and `dispatch_invalid` are the members of
`EventManager::Private`; `frames` is the stack of `dispatch()` calls, `phase`
where `execute()` is. `SignalQueue` is the handler of `entrypoint/unix.cpp`,
enabled at every step. `owner` is the ghost that says who must free an event.
The sort is any permutation in which no event directly follows one that it
should clearly precede; `EventSort` has the library's algorithm: it gives
such a permutation (`LibrarySort`), and the order of dispatch follows from it.

**EventSort.** `Merge` is `std::list::merge`, with `taken` for how far the two
iterators have got; `Carry` and `Runs` are the array of lists that
`std::list::sort` uses like a binary counter. The steps are those of `execute()`
that sort the queue and take events off it, at one instant after another.

**EngineRun.** `pc` says where `run()` is; `walk` is the loop over the features in
`initialize`, `update` or `finalize`, with `at` for its iterator and `last` for
the end it compares with. A `reverse_iterator` holds the node *after* the one it
stands for: that is why a change of the list during `finalize()` can make a
feature be called twice or not at all. Features, hooks and listeners add and
remove features and stop the engine whenever they have the CPU. `QueueQuit` is the
game, or the signal handler, queueing a `QuitEvent`: it goes to the queue that is
being filled (`~ready`) and becomes due for dispatch when the queues change roles
(`Drained`); `Held` is an `execute()` that stops at an event in the future. When
it is dispatched the engine stops (`HandleQuit`), unless another listener takes it
or ends the dispatch first (`MissQuit`); the game may also dequeue it
(`DequeueQuit`). The ghost `missed` notes both. `CloseWindow` is the backend's own
`QuitEvent`, which it dispatches past the queues (`backend-x11.cpp:652`) and whose
other listeners are left out: one that takes it keeps the engine running, as if
the window had not been closed. The scene manager and the factory are made by the
engine here, the event manager by the engine or the game.

**EngineClock.** `stage` is where an iteration of the loop has got to. Times are integers in a unit that divides a second and all
frame times, so the program's floats are exact. The rest of an iteration is a
choice of how long it takes.

**UpdateRound.** An update has a `line` of the objects it is still to come by and
takes one after the other off its front: the dead are taken off the list
(`Bury`), the others called (`Call`, `Return`). Who is called may add, kill and
take off objects, which changes the line by that object only. After `Break`,
which only who is called can do, nothing is promised. `SceneManager` and
`EntityLayer`, whose lists run in opposite directions, both implement it.

**SceneManager.** `walk` is the `Scene::update` in progress with its iterators
`l_i` and `l_b`. `Frame` is what a `render()` draws. A layer's update may do
anything the game may. The ghost `stale` is the background that a popped scene has
left on the painter, or `None` while the scene on top is active.

**EntityLayer.** `walk` holds the three nested loops of an update: `l_i` of
`EntitySceneLayer::update`, the base of the reverse iterator (and of the `rend`
it compares with) of `Entity::update`, and `l_c` of `ColliderComponent::update`.
The game acts in the `update()` of a component that is no collider and in the
two `collision()` calls of a hit. Whether two bodies touch is a choice of the
model (`Hit`, `NoHit`). `Registered` is what the first update of a collider does;
a deleted one deregisters (`Freed`). `disturbed` notes what the game must not do
in an update.

**AudioPlayer.** Amounts are bytes; `ITrack::read` is modelled by the number of
bytes it gives, as `WaveTrack::read` and `OGGTrack::read` do. The device reports
any room up to its maximum at each tick. The order of the playlist is not told
apart. `EngineClock`, `AudioPlayer` and `EventSort` name their initial states,
steps and specifications `ClockInit`, `PlayerSpec` and so on, because the modules
of their theorems extend another component too.

**Evdev.** `node` is what the kernel has in `/dev/input`, `notices` what inotify
has queued; the kernel and udev act between any two system calls of the engine,
so `Initialize` is a step per node (`Scan`), and `ProcessNotificationEvents` a
step per `read()` (`Fetch`) and per notification (`Process`). `s_evdev`,
`s_evdev_ports` and `s_initialized` are the variables of that name. `l_i` counts
notifications; as it is not reset, a second `read()` in one call is parsed from
beyond what it read, and `Taken` is then any notification or junk. Open file
handles are not counted.

**Graphics.** `flags` are the bits of `ViewportFlags`; `handles` is which of the
window, surface and context pointers are not null. A `Setup` is cut where it
dispatches the viewport events: at `pc = "destroyed"`, when nothing has been taken
down yet, and at `"created"`, the listeners, which are the game, may draw, load
and free. Each call of X, EGL or GLX that the code checks may fail: one action per
exit of the code that leaves something else behind (`NoVisual`, `NoHints`,
`NoContext`, `NoViewport`). In `GLData`, `owner` is GL's own table, which dies
with the context, and `name` and `session` are what the data remembers of it; GL
may give any free name, so also the one of an earlier context. Drawing makes stale
data again first. Each texture is of a file of its own. X11 events are the change
of focus; resizing draws only, and the `QuitEvent` of a closed window is
`CloseWindow` of `EngineRun`. `leaked` has the kinds of objects that exist without
a handle, the colormap of every window among them.

**TitleScreen.** The engine's thread ticks the audio (`AudioTick`, then the four
steps of a `Write`), updates the scene, where the splash layer blocks what is
under it until it is a zombie and is buried, and lets the game run. The hardware
(`SourcePlays`) plays a buffer at any moment, also between the steps of a
`Write`. `sound` chooses between a title screen with sound, in which the game
leaves the layers alone, and one without, in which the game acts on them in
every way: the device and the layers share nothing but the thread. The durations
of frames are a choice when the frame is shown. Time that an animation is behind
is not told apart beyond `MaxLag`.

## The runs

| Run | Instance | Shows |
|---|---|---|
| `manager_single` | 2 listeners and a null pointer, 1 type, 2 events, no nested dispatch | `IteratorValid`, `EveryListenerOnce` (none twice, and all if the list stays the same); a queued event leaves the queues |
| `manager_nested` | 1 listener and a null pointer, 2 types, 2 events, nesting 2 | `OwnedOnce`, `FreesWhatItDispatched`; refinement of `EventBatches` |
| `manager_stale` | 2 listeners and null, nesting 2 | **finding**: a nested dispatch lets the outer one use a freed node |
| `sort` | queues of up to 5 | the library's sort is what `EventManager` assumes; order of dispatch if no two events conflict |
| `engine_run` | 3 features, 2 runs | `FeaturesInTurn`, `WalkSafe`; a `QuitEvent` goes through both queues to the engine, unless it is taken or dequeued; it, a stop in the loop or a closed window ends `run()` |
| `clock` | 60 units to a second, rates 0, 12, 20, iterations of 4 and 10 | `RateLimited`, `NeverEarly`, `NoBurst` |
| `scene` | 2 scenes, 3 layers, one blocks updates, one blocks rendering, 2 colours, one suspended scene | `TopSceneShown`: after a push one active scene with its background on the painter, after a pop none and the background of the popped one; the walk is complete, stays clear of freed nodes and buries zombies; what a frame draws and in which order; refinement of `UpdateRound` |
| `entity_layer` | 2 entities, one with a collider and a component of the game, one with a collider | the nested walks stay clear of what was freed, entities are updated in turn, no deleted collider is registered, zombies leave; refinement of `UpdateRound` |
| `audio_player` | 2 ids, 2 tracks, 2 devices, 2 formats, iterations -1, 1, 2 | exact playback, buffers, room filled; `tick()` returns, by its end or, when the game is careless, by a crash |
| `evdev` | 2 nodes, 2 ports, devices that are keyboard and gamepad in one, a buffer of 2 notifications, 2 waiting | `DistinctPorts`, `InStep` |
| `graphics` | GLX; 2 textures, 2 buffers, 2 names of each kind, 3 contexts | `OnlyColormapsLeft`, `ActiveComplete`: a viewport is whole or, but for a colormap, gone; `OwnNames`, `BoundIsLast`: data and painter are right about what GL has |
| `title` | fades of 6, exposure of 3, updates of 1 or 2, 2 animations of up to 3 frames, a ring of 3 buffers, 1 call that fails | `NoFlash`, `GivesWay`, `InRange`, `WriteFindsRoom`; `SoundGoesOn` |

Every module states its types as `TypeOK` (or `...TypeOK`). They are proved
(`TypeCorrect`, `ClockTypeCorrect`, `RunTypeCorrect`, `PlayerTypeCorrect`); the
runs check what could be wrong.

Why the bounds are enough. Two listeners and the null pointer are what a
dispatch needs for a listener to disconnect itself, the one before or the one
after; two types, for a nested dispatch to walk the same list or another, of
which nesting of two, where the flags of the outer dispatch are lost, is the
first. Two events make the queues reorder and swap; the sorts of `EventManager`
are those of `EventSort`, which has the longer queues. Three features or layers
give a walk a first, a middle and a last element. Two entities give the walk
over them a current and a next one; a collider and a component of the game on
one entity let the game run while the collision walk is at each of two
colliders, from `update()` and from both `collision()` calls. The tracks are
shorter and longer than the device's room, so that a tick wraps several times
and a track spans several ticks. Iterations of 4 and 10 units are a normal one
and one beyond `DELTA_TIME_LONG_WAIT`; 64 units pass the second. Two nodes are
what it takes to share a port; a device that serves both masks is the one whose
class depends on when it is opened; a buffer of two notifications can be read
empty, partly filled, full and again; more devices than ports come and go, as
ports are not given back. Three contexts let data skip a context and come back
in a later one; two names of a kind let a stale name be that of other data or
free. The longest update is shorter than a fade and than the exposure, so every
state is met in the middle and at its end; three frames give an animation a
first, a middle and a last one, and a second animation lets `play()` change it
in the middle of another. A ring of three is empty, partly and wholly played;
the one failure can come in any state of the source and of the ring.

`EngineRun` follows one `QuitEvent` at a time, of any number that come one after the
other: of several in a row the first that reaches the engine ends the loop.

Deadlock is checked in `manager_single`, `manager_stale` and `sort`; the others
may stop: their bounds (runs, clock, contexts) end, an undefined step or a crash is not
modelled further, or the game has nothing left to do.

## Fairness

The main thread runs on, and code of the game that is called returns: weak
fairness of the manager's, the engine's and the walks' own steps (`HandlerReturn`
and `Return` are the game's returns). The main loop calls `execute()` and updates
the layers in each iteration, which the game can interrupt for a while but not for
ever: strong fairness of `ExecuteBegin` of `EventManager` and `UpdateBegin` of
`EntityLayer`. In `EngineRun` an event in the future may hold up `execute()` in
any one iteration (`Held`), but nothing is added to the active queue and time
passes every time stamp in it: strong fairness of the dispatch of the `QuitEvent`
and of `Drained`. `EventManager`, where time is modelled, shows this of every
event (`EventuallyLeaves`). In `TitleScreen` the thread runs on unless it has
crashed, and the game gives the CPU back; nothing is assumed of the hardware: a
source that plays for ever satisfies `SoundGoesOn`. `SceneManager` and `Graphics`
are checked for safety only. Nothing is assumed of the game's calls or of the
signal handler.

## Findings

`manager_stale`: `dispatch()` resets `dispatch_invalid` and `dispatch_type`
although an outer dispatch may run (`eventmanager.cpp:202`, `220`), which then
follows an iterator to a freed node.

Known facts of the code that are modelled without being called a finding. Where
a property has such a case as its precondition (`disturbed`, `careless`,
`resized`, `reread`, `botched`, `hit`, `elsewhere`, `again`, `deaf`, `missed`),
its comment says so.

- *Events.* `SortEvent` (`eventmanager.cpp:72`) is no strict weak ordering: where
  priorities and time stamps disagree, an event of lower priority may go first,
  although `event.h` says that a higher value gets a higher priority. `execute()`
  stops at the first event in the future, so a due event may wait behind it
  (`eventmanager.cpp:271`). `dequeue(event, true)` leaks the other events of the
  type (`owner = "leaked"`). A listener that connects or disconnects one of the
  type that is being dispatched ends the dispatch: the listeners behind it never
  get the event, handled or not (`eventmanager.cpp:209`, `217`). A listener that
  calls `execute()` itself has the front of the queue, the event it is called
  with, dispatched again and freed twice (`eventmanager.cpp:256` has no check);
  the models assume that none does (`ExecuteBegin`).
- *Engine.* An iteration longer than an eighth of a second counts as one whole
  frame time (`engine.cpp:362`), which with a limit below 8 frames a second
  exceeds the limit (the rates of `clock` are above). `stop()` before the loop is
  lost, as `running` is set after `initialize()` (`engine.cpp:349`). A `QuitEvent`
  that a listener before the engine takes is lost to the engine (`missed`). A
  feature added while the engine runs is never initialized, one removed never
  finalized; a feature that removes itself while it is called leaves the walk with
  a freed node; a feature added by `finalize()` of the last one makes that one
  finalize again.
- *Scenes and entities.* `popScene` does not activate the scene that comes back
  (`scenemanager.cpp:114`): it is updated and drawn, but with the background of
  the scene that was popped, and a background set for it is not shown until a
  scene is pushed; suspended scenes are drawn newest first, so an older one covers
  a newer one. `kill()` of the entity that is being updated still updates the rest
  of its components; a component that removes itself makes the one added before it
  skip an update; an entity or component that is removed while an iterator is at
  it leaves the update with a freed node; a collider whose entity has a position
  and no size makes another one read a null size (entities with colliders have
  both here).
- *Audio player.* An id that plays without a track crashes `tick()`; a device
  opened again with a larger format outgrows the player's buffers; a track
  without data that plays for ever keeps `tick()` for ever.
- *OpenAL.* `Write` reads the state of the source once and acts on it later. A
  buffer that is unqueued and not refilled stays idle until the source has
  stopped; a source that stops after it was seen playing counts the buffer
  queued then as played, and it is never heard. A `Write` that fails when the source has
  stopped and everything was unqueued leaves it silent for good (`deaf`): no
  room is reported any more.
- *Event devices.* A tick that reads two buffers of notifications misreads the
  second (`evdev.cpp:99`). The destructor of `EventDevice` looks at the type that
  `close()` has just cleared (`evdev_eventdevice.cpp:119`, `265`), so port bits
  are never freed: after eight devices of a class every new one is port 0.
- *Graphics.* Every `Setup` that finds a visual makes a colormap that nobody frees
  (`backend-x11.cpp:525`); it goes with the display. A creation that fails between
  the first object and the last leaves flags and objects behind (`botched`), which
  the next `Setup` overwrites, although `backend_p.h:80` promises their release,
  and at which the assertion of `Finalize` fails (`backend-x11.cpp:260`); without
  memory for the size hints the window stays. Freeing or setting data of an
  earlier context before it is drawn again frees or writes what has its name now
  (`hit`). `load()` binds a texture behind the painter's back (`elsewhere`). Two
  textures of one file share an id. Without a context the functions for buffers
  are null. The engine goes on when `Backend::Initialize` fails.
- *Splash.* `reset()` keeps the timer and the colour, so the next fade starts
  near its end (`again`). Nothing makes the mesh black at the end: a splash
  that is not killed keeps a rest of its colour, and blocks what is under it for
  ever. `setAutoKill(true)` after the end has no effect.
- *Animation.* The first frame is skipped at the start, and the only frame of an
  animation that does not loop is never shown. An update makes one step at most.
  A loop over a list that has become empty, a `stop()` before the first update and a
  pop of a frame that is not there crash or are undefined.

## Proofs

Every safety property that a run checks, the three refinements included, is also
a theorem, for all constants that satisfy the named assumptions. The theorems
rest on nothing else than these assumptions: those on the constants
(`ManagerAssumption`, `SceneAssumption` and so on: the sets are disjoint where
the code has different objects, the parts of an entity name it as their owner),
and those which say that `None`, `Nil` or `Junk` is no record of the model
(`WalkAssumption`, `EntityAssumption`, `ValuesAssumption`, `TickAssumption`).

`EventManagerProofs`:

- `TypeCorrect`, `EventsOwnedOnce`, `FreesTheDispatched`: from the inductive
  invariant `IInv`. `OwnedOnce` alone is not inductive: `ExecutePop` frees the
  front of the active queue, so one must know that the queue is not empty in the
  phase "dispatch" and that its front is the event of the outermost frame; that
  in turn needs that queueing and dequeueing use the other queue and that no
  frame is left when `execute()` looks at the queue. `IInv` has three parts:
  `QueuesOK`, `ListsOK` (iterators point into lists without duplicates) and
  `PlaceOK` (where the program is).
- `ImplementsBatches`: every step maps to a step of `EventBatches` or a stutter.
- `SingleDispatchIterator`, `SingleDispatchOnce` (`EveryListenerOnce`): with
  `MaxDepth = 1`, from the additional invariant `SingleDispatch`: what is before
  the iterator has been called, what is from it on has not; at the end of the
  list all have. With nested dispatches these are false (`manager_stale`).
- `SortedUnlessConflict`: what a sort by `SortEvent` promises if no two events
  of the queue conflict. `IsSortOf` speaks of neighbours only; that it holds of
  any two, however far apart, is an induction over their distance.
- `LibrarySort`: `ListSort(q)` is in `SortsOf(q)` for every queue of distinct events,
  so what `EventManager` lets a sort do includes what the library does, and there
  is always something it can do. The proof follows the algorithm. `MergeFacts`
  says of two neighbours in a merge that they were neighbours in one of the two
  runs, or that the comparison let the first go before the second (`Adjoin`).
  Either way the second fits (`Fits`: `MayFollow`, and the intended order if the
  queue has no conflict), provided that the older run holds the events that were
  queued earlier (`Behind`): on a tie the comparison is false and the older goes
  first. `Stack` says this of all the runs of a sort in progress, and `CarryRuns`
  that one more element keeps it.
- `SortIsSound` (`SortSound`) and `SortInOrder` (`InOrderUnlessConflict`): between the
  steps of `execute()`, events that agree in priority and time are in the order
  of their arrival (`TiesKept`), so the next sort of what is left of the queue,
  which is stable with respect to the queue and not to the arrival, keeps the order.

`PointerListProofs` has the lemmas on lists without duplicates: appending, removing
one pointer or many (`WithoutAll`), what is before and behind a place. The library's
induction principles cannot be instantiated here; an induction is `Smallest` (a
set of numbers has a least one, of which the predecessor is no counterexample)
or `UpTo`, which follows from it. `LeftExists` shows in this way that the recursive
function of `WithoutAll` exists, without which nothing could be said of it;
`Recursion` does so for any function that computes each value from the one
before, as the three of `EventSort` do.

`EngineProofs` proves the safety properties of the engine's loop:

- `FramesDoNotBurst` (`NoBurst`): less than one frame time is left over after a frame
  (`Leftover`).
- `SecondNeverEarly` (`NeverEarly`) and `RateStaysLimited` (`RateLimited`): neither says what
  is still accumulated, so neither is inductive. `SecondsPassed` and `FramesPaid` say
  that the seconds or frames counted *and* what is accumulated for the next one do not exceed
  the time that has passed, up to the frame ahead with which the loop starts.
  Their hypothesis, `FramesAreShort`, is that no frame time exceeds
  `DELTA_TIME_LONG_WAIT`, that is, rates of 8 and more: below, the code replaces a
  long wait by a *longer* frame time and the two are false (see the findings).
- `WalkIsSafe` (`WalkSafe`): a walk forward is at a node of the list or at its end
  (`ForwardOK`), a walk backward is behind the node of the feature it calls and
  its end is the first one (`BackwardOK`), unless the node was removed.
- `FeaturesTakeTurns` (`FeaturesInTurn`): `Up` says which features have been initialized and not
  finalized at each place of `run()`, `Turns` which the walk under way has
  behind it (`Passed`) and which it has called.

`EvdevProofs` proves `TypeCorrect` and `PortsDistinct` (`Spec => []DistinctPorts`)
for any number of nodes, ports and notifications. `DistinctPorts` is not
inductive: a new device avoids the ports that are marked, so one must know that
the port of every open device is marked (`Marked`). The invariant needs nothing
of the notifications, which is why it holds even when junk is parsed. The
lemmas `ReopenKeeps` (a slot gets a new device) and `ClosedKeeps` carry the
proof; `MinFacts` is the existence of a least free port. `DevicesInStep`
(`InStep`) does need them: the notifications that wait (`Rest`: what is read and
not yet processed, then what the kernel has queued) are a promise about their
nodes, so only a node of which none waits must be up to date (`UpToDate`), and if
a deletion waits (`Left`) the node is gone. `StepInv` adds where `Initialize` and `Tick` have got to, as what
is up to date depends on which types have been scanned for at this node (`Asked`).

`SceneManagerProofs` proves every property of the scenes, for any number of scenes
and layers:

- `TopSceneIsShown` (`TopSceneShown`): from `StackInv`, which adds the types of the
  stack; each step keeps the flags, the painter and `stale` together.
- `WalkClear` (`Spec => []NoDangling`) and `TypeCorrect`: a step of the walk goes
  to the node before `l_i`, so one must know that `l_b` is on the list and not
  behind `l_i` (`Ordered`), and that the layer being updated is neither of the
  two (`WalkInv`): then a layer that removes itself frees no node of the walk.
  `PushKeeps`, `PopKeeps` and `RemoveKeeps` say that the lists keep their order.
- `ZombiesGone` (`Spec => []ZombiesBuried`): from `BuriedInv`, which adds that a
  layer that was dead stays so.
- `WalkComesByAll` (`WalkedAll`): from `Walked`. The layers still to come are one
  behind the other in the list (`Block`), at whatever offset: pushing a layer or
  removing one that the walk has behind it moves the block and leaves it whole.
- `FrameBackToFront` (`DrawnBackToFront`): a frame is the scenes' lists one after the
  other, each from its blocking layer, all of them and nothing else (`FrameSet`,
  `ShownSet`); as a layer is on no scene but its own (`Home`), the part it is drawn
  in is that of its scene, and no later part has it again (`FrameFacts`).
- `UpdatesInRounds` (`KeepsRounds`): every step maps to a step of `UpdateRound` or a
  stutter. The line (`ToCome`) is the list from `l_i` *back* to `l_b`, so that
  pushing a layer leaves it alone (`LinePush`) and removing one takes out that layer,
  or nothing if the walk has passed it (`LineWithout`). This needs the order of `Ordered`,
  that the walk's iterators are on the list of its own scene (`Home`, as the
  objects are those of all scenes), and that a walk is only left dangling while a layer
  is being updated (`DangleInv`), so that it is the layer that breaks the round.

`EntityLayerProofs` proves the safety properties of an update of entities, for any number of
entities, components and colliders, whatever their game does:

- `UpdateIsSafe` (`NoDangling`), `CollidersStayAlive`, `TypeCorrect`: from `Inv`. `ListsOK` says that no list holds a
  pointer twice or a deleted one, and `WalkOK` that each of the three nested
  walks is at a node of its list (`EntityWalk`, `ComponentWalk`, `ColliderWalk`) or that
  the game has disturbed the update.
- `EntitiesTakeTurns` (`UpdatedInTurn`): from `TurnsOK`. `Turned(k)` says that the
  first k entities have had their turn or were deleted before it, and that the
  others still follow one another in the list from the iterator on.
- `UpdatesInRounds` (`KeepsRounds`): the line is the list from `l_i` to its end, so an
  entity that is added comes last in it (`LineAppend`). The current entity is the one
  whose components are walked over; that this is nobody's turn while the outer loop
  has the CPU is the invariant `NoTurn`. The steps of the two inner walks are
  stutters, or the `Return` of the entity.

`OutputProofs` proves all four properties of `Graphics` and its types, for
either build, any data, names and number of contexts:

- `ActiveIsComplete`, `OnlyColormapsAreLeft` (`OnlyColormapsLeft`): from `ViewportInv`. A viewport that is
  valid has every object and a painter, and one in creation has none but stray
  ones (`Whole`); what a `Setup` under way may have in its flags depends on
  where it is (`PhaseOK`); unless a creation was botched there are no handles
  without a viewport, and nothing but colormaps has lost its handle (`Clean`).
- `NamesAreOwn`, `LastIsBound`: from `DataInv`, which adds that no data is of a
  session to come (`Past`: so a new session makes all data stale at once, and no
  name of it is trusted) and that the painter's last texture is of the current
  one (`LastCurrent`).

and the safety properties of `AudioPlayer`, for any tracks, devices, formats and
iterations, from one invariant, `AudioInv`:

- `BuffersFit` (`BufferFits`): the player's buffers are those of its device's format,
  unless that was opened again (`BuffersMatch`), and no room exceeds that format's.
- `PlaysAreExact` (`ExactPlays`): each track plays under one id (`OneId`), so what a
  step does to a track's position is accounted for in one entry of the playlist only
  (`ExactStep`). A read that is short ends at the track's end, so the iteration it
  takes off the count is exactly what has been read (`EndKeeps`).
- `RoomIsFilled` (`RoomFilled`): nothing is mixed of the ids a tick has yet to come
  to, and the room is full of those it has left, unless they stopped (`MixOK`).
- `PlayerTypeCorrect`: no track is read beyond its end (`ReadFacts`).

`TitleScreenProofs` proves the safety properties of `TitleScreen` and its types,
for any times and any size of the ring. Each component has an invariant of its own, and one
lemma, `StepKeeps`, puts them together:

- `SplashDoesNotFlash` (`Spec => NoFlash`): the colour follows the timer in both
  fades and is white in between (`Coloured`), as long as `reset()` was not called.
- `FramesInRange`: the count that playback keeps is the length of its list,
  though pushes and pops go to either (`Counted`).
- `RoomIsFound`: each buffer is either on the queue, once, or marked as available
  (`Ring`), a stopped source has played all it has (`Played`), and what a `Write`
  has been promised is still there at each of its steps (`Promised`); that a
  queue shorter than the ring leaves a buffer is the pigeonhole lemma `OneIsLeft`.

Only model-checked: all liveness (`EventuallyLeaves`, `QuitEnds`, `ZombiesLeave`,
`TickReturns`, `GivesWay`, `SoundGoesOn`), as fairness and ENABLED are out of the
prover's reach.

## Plan

Done: event manager, engine run and clock, scene manager, entity layer, audio
player, event devices, graphics, title screen (splash, animation, OpenAL), with
proofs of their safety properties and refinements. Next, in this order:

1. `Evdev` with what the devices report: key and axis events, the key table that
   all keyboards share.
2. The ALSA device, which takes part of a write; `Transform` (the stale matrix).
3. `DataIO` (BufferIO and FileIO as implementations of one abstract file),
   `Base64`.

## Not modelled

Drawing, decoding, floating-point geometry (transforms, the camera), parsing, data I/O,
platform glue and vendored libraries, which are most of the repository's lines:
see the notes of the components in `PROJECT.json`. Of the backends, only X11
(graphics), OpenAL (audio) and evdev (input, without the keys it reports) are
modelled; the pause layer only draws. A signal
that hits the inside of a list operation is below the granularity of the
models. More than one event manager at a time is not modelled.
