--------------------------- MODULE GraphicsBackend ---------------------------
(***************************************************************************)
(* Graphics::Backend for X11: the flags of the viewport and the X and GL   *)
(* objects they stand for, through initialization, any number of Setup,    *)
(* each of which may fail at any call, and finalization.  Listeners of the *)
(* viewport events run in the midst of a Setup.                            *)
(***************************************************************************)
EXTENDS Integers

CONSTANT EGL   (* the build: EGL, or else GLX *)

ASSUME BackendAssumption == EGL \in BOOLEAN

VARIABLES
  pc,        (* "off"; "game": none of the backend's calls runs;           *)
             (* "destroyed", "created": Setup has dispatched the event;    *)
             (* "create": Setup is about to create                         *)
  flags,
  handles,   (* those of xwindow, egl_surface, egl_ctx or glx_ctx that are *)
             (* not null, named by their flags                             *)
  leaked,    (* ghost: the kinds of objects that exist and no handle has   *)
  botched,   (* ghost: a creation failed after it had made something       *)
  stray      (* ghost: Finalize has seen stray flags                       *)

backend == <<pc, flags, handles, leaked, botched, stray>>

GLDisplay == IF EGL THEN {"GLDisplay"} ELSE {}
GLObjects == IF EGL THEN {"GLSurface", "GLContext"} ELSE {"GLContext"}
GLMade    == GLObjects \cup {"GLCurrent"}
Objects   == GLObjects \cup {"X11Window"}
Opened    == {"X11Display"} \cup GLDisplay
Valid     == Opened \cup GLMade \cup {"X11Window"}
Kinds     == Objects \cup {"X11Colormap"}
Active    == Valid \cup {"Ready", "Exposed"}
Flags     == Active \cup {"Focused"}

BackendTypeOK ==
  /\ pc \in {"off", "game", "destroyed", "create", "created"}
  /\ flags \in SUBSET Flags
  /\ handles \in SUBSET Objects
  /\ leaked \in SUBSET Kinds
  /\ botched \in BOOLEAN
  /\ stray \in BOOLEAN

BackendInit ==
  /\ pc = "off"
  /\ flags = {}
  /\ handles = {}
  /\ leaked = {}
  /\ botched = FALSE
  /\ stray = FALSE

IsValid == Valid \subseteq flags

(* Backend::Active() *)
IsActive == Active \subseteq flags

(* Initialize gets as far as opening the given displays.                   *)
Initialize(opened) ==
  /\ pc = "off"
  /\ pc' = "game"
  /\ flags' = opened
  /\ UNCHANGED <<handles, leaked, botched, stray>>

(***************************************************************************)
(* Tick: the window gets or loses the focus.  A window that is closed      *)
(* changes nothing here: a QuitEvent is dispatched and the rest of the     *)
(* messages waits for the next Tick.  Its listeners are the game between   *)
(* the calls, and the engine, for which see EngineRun.                     *)
(***************************************************************************)
Focus ==
  /\ pc = "game"
  /\ "Exposed" \in flags
  /\ \E on \in BOOLEAN :
       flags' = IF on THEN flags \cup {"Focused"} ELSE flags \ {"Focused"}
  /\ UNCHANGED <<pc, handles, leaked, botched, stray>>

(* What Destroy leaves of the flags before it tells the listeners: Hide.   *)
Hidden == flags \ (IF "Exposed" \in flags THEN {"Ready", "Exposed", "Focused"}
                                          ELSE {"Ready"})

(* Mistake: the listeners are told first. *)
SetupDestroys_Shown ==
  /\ pc = "game"
  /\ IsValid
  /\ pc' = "destroyed"
  /\ UNCHANGED <<flags, handles, leaked, botched, stray>>

(* Setup of a viewport that is there: Destroy, up to the event.            *)
SetupDestroys ==
  /\ pc = "game"
  /\ IsValid
  /\ flags' = Hidden
  /\ pc' = "destroyed"
  /\ UNCHANGED <<handles, leaked, botched, stray>>

(* DestroyGLContext takes down what the flags say, DestroyX11Window the    *)
(* window; Reset keeps the displays.                                       *)
SetupTearsDown ==
  /\ pc = "destroyed"
  /\ flags' = flags \cap Opened
  /\ handles' = handles \ ((flags \cap GLObjects) \cup {"X11Window"})
  /\ pc' = "create"
  /\ UNCHANGED <<leaked, botched, stray>>

(* Setup without a viewport, once the displays are open.                   *)
SetupBegins ==
  /\ pc = "game"
  /\ ~IsValid
  /\ Opened \subseteq flags
  /\ pc' = "create"
  /\ UNCHANGED <<flags, handles, leaked, botched, stray>>

(* CreateX11Window finds no visual. *)
NoVisual ==
  /\ pc = "create"
  /\ pc' = "game"
  /\ UNCHANGED <<flags, handles, leaked, botched, stray>>

(***************************************************************************)
(* CreateX11Window with a visual: the colormap it makes for the window is  *)
(* known to nobody and freed by nobody.  Of what was there already, the    *)
(* given objects lose their handles.                                       *)
(***************************************************************************)
Leaks(objects) == leaked' = leaked \cup {"X11Colormap"} \cup (handles \cap objects)

(* CreateX11Window finds no memory for the size hints, after it has made   *)
(* the window.                                                             *)
NoHints ==
  /\ pc = "create"
  /\ handles' = handles \cup {"X11Window"}
  /\ Leaks({"X11Window"})
  /\ botched' = TRUE
  /\ pc' = "game"
  /\ UNCHANGED <<flags, stray>>

(* Where CreateEGLContext and CreateGLXContext may fail: the handles they  *)
(* have assigned, and the flags they have raised.                          *)
Failures ==
  IF EGL
  THEN {<<{}, {}>>, <<{"GLSurface"}, {}>>, <<GLObjects, {"GLSurface"}>>,
        <<GLObjects, GLObjects>>}
  ELSE {<<GLObjects, {}>>, <<GLObjects, GLObjects>>, <<GLObjects, GLMade>>}

(* The context cannot be made: what there is of it stays, the window goes. *)
NoContext(assigned, raised) ==
  /\ pc = "create"
  /\ flags' = (flags \cup raised) \ {"X11Window"}
  /\ handles' = ((handles \ assigned) \cup (raised \cap GLObjects)) \ {"X11Window"}
  /\ Leaks(assigned \cup {"X11Window"})
  /\ botched' = (botched \/ raised # {})
  /\ pc' = "game"
  /\ UNCHANGED stray

(* Mistake: the window stays. *)
NoViewport_Window ==
  /\ pc = "create"
  /\ flags' = flags \ GLMade
  /\ handles' = {"X11Window"}
  /\ Leaks(Objects)
  /\ pc' = "game"
  /\ UNCHANGED <<botched, stray>>

(* glViewport fails: the context and the window are taken down again.      *)
NoViewport ==
  /\ pc = "create"
  /\ flags' = flags \ (GLMade \cup {"X11Window"})
  /\ handles' = {}
  /\ Leaks(Objects)
  /\ pc' = "game"
  /\ UNCHANGED <<botched, stray>>

(* Create succeeds and tells the listeners.                                *)
Creates ==
  /\ pc = "create"
  /\ flags' = flags \cup Valid \cup {"Ready"}
  /\ handles' = Objects
  /\ Leaks(Objects)
  /\ pc' = "created"
  /\ UNCHANGED <<botched, stray>>

Show ==
  /\ pc = "created"
  /\ flags' = flags \cup {"Exposed"}
  /\ pc' = "game"
  /\ UNCHANGED <<handles, leaked, botched, stray>>

(* What is left of the flags at the end of Finalize, but for Terminated.   *)
Unfinished == IF IsValid THEN {} ELSE flags \ Opened

(* Finalize: a valid viewport is destroyed, without an event; closing the  *)
(* displays frees what else was made on them.                              *)
Finalize ==
  /\ pc = "game"
  /\ flags' = {}
  /\ handles' = {}
  /\ leaked' = {}
  /\ stray' = (stray \/ Unfinished # {})
  /\ pc' = "off"
  /\ UNCHANGED botched

-----------------------------------------------------------------------------
(* However often displays are changed, and whichever call of a Setup       *)
(* fails, no window, surface or context is lost, and while there is no     *)
(* viewport none is left and no flag but those of the displays: a Setup    *)
(* leaves a colormap behind, until Finalize closes the display, and        *)
(* nothing else.  This is so unless a creation broke off between the first *)
(* object made and the last (botched).                                     *)
OnlyColormapsLeft ==
  ~botched =>
    /\ leaked \subseteq {"X11Colormap"}
    /\ ~IsValid => handles = {} /\ flags \subseteq Opened
    /\ ~stray
=============================================================================
