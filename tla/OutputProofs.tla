---------------------------- MODULE OutputProofs ----------------------------
(***************************************************************************)
(* Theorems about what the player sees and hears: Graphics, for any data   *)
(* and names, either build and any number of contexts, and AudioPlayer,    *)
(* for any tracks, ids, devices and formats.                               *)
(***************************************************************************)
EXTENDS Graphics, AudioPlayer, TLAPS

-----------------------------------------------------------------------------
(***************************************************************************)
(* Graphics                                                                *)
(***************************************************************************)

(* How the sets of flags lie to each other.                                *)
LEMMA FlagFacts ==
  /\ "X11Window" \notin Opened \cup GLMade
  /\ {"Ready", "Exposed", "Focused"} \cap Valid = {}
  /\ Valid = Opened \cup GLMade \cup {"X11Window"}
  /\ Objects = GLObjects \cup {"X11Window"}
  /\ GLObjects \subseteq GLMade
  /\ Opened \cap GLMade = {}
  /\ Active = Valid \cup {"Ready", "Exposed"}
  /\ Flags = Active \cup {"Focused"}
BY BackendAssumption
   DEF Opened, GLDisplay, GLObjects, GLMade, Objects, Valid, Active, Flags

LEMMA FailureFacts ==
  ASSUME NEW f \in Failures
  PROVE  f[1] \subseteq GLObjects /\ f[2] \subseteq GLMade
BY BackendAssumption DEF Failures, GLObjects, GLMade

-----------------------------------------------------------------------------
(***************************************************************************)
(* The viewport.  The flag of the window is raised last and taken down     *)
(* first, so it stands for the whole viewport; what is exposed is valid.   *)
(* There is a painter exactly while there is a viewport.                   *)
(***************************************************************************)
PaintsIfValid == painting <=> IsValid

Whole ==
  /\ "X11Window" \in flags => IsValid
  /\ IsValid => handles = Objects
  /\ PaintsIfValid

PhaseOK ==
  /\ "Exposed" \in flags => IsValid /\ pc = "game"
  /\ pc \in {"destroyed", "created"} => IsValid
  /\ pc \in {"off", "create"} => ~IsValid

(* Without a viewport, and a creation that broke off, there is nothing     *)
(* but the displays, and colormaps.                                        *)
Clean ==
  ~botched =>
    /\ ~IsValid => flags \subseteq Opened /\ handles = {}
    /\ leaked \subseteq {"X11Colormap"}
    /\ ~stray

ViewportInv == BackendTypeOK /\ painting \in BOOLEAN /\ Whole /\ PhaseOK /\ Clean

(* The game, as a listener or between the calls, leaves the viewport alone. *)
LEMMA PainterKept == GameStep => painting' = painting
BY DEF GameStep, Load, Buffer, SetVertex, Free, Draw, painter

LEMMA ViewportInit == Init => ViewportInv
BY FlagFacts
   DEF Init, BackendInit, DataInit, ViewportInv, BackendTypeOK, Whole, PhaseOK, Clean,
       IsValid, PaintsIfValid

LEMMA OpenKeeps ==
  ASSUME ViewportInv, NEW opened \in {{}, {"X11Display"}, Opened},
         Initialize(opened), UNCHANGED data
  PROVE  ViewportInv'
<1>1. opened \subseteq Opened
  BY DEF Opened
<1>2. /\ flags' = opened /\ pc = "off" /\ pc' = "game"
      /\ UNCHANGED <<handles, leaked, botched, stray, painting>>
  BY DEF Initialize, data, painter
<1>3. flags' \subseteq Flags /\ ~IsValid'
  BY <1>1, <1>2, FlagFacts DEF IsValid
<1>4. QED
  BY <1>1, <1>2, <1>3, FlagFacts
     DEF ViewportInv, BackendTypeOK, Whole, PhaseOK, Clean, PaintsIfValid

LEMMA FocusKeeps ==
  ASSUME ViewportInv, Focus, UNCHANGED data
  PROVE  ViewportInv'
<1>1. /\ flags' = flags \cup {"Focused"} \/ flags' = flags \ {"Focused"}
      /\ pc = "game" /\ "Exposed" \in flags
      /\ UNCHANGED <<pc, handles, leaked, botched, stray, painting>>
  BY DEF Focus, data, painter
<1>2. IsValid /\ IsValid' /\ flags' \subseteq Flags
  BY <1>1, FlagFacts DEF ViewportInv, BackendTypeOK, PhaseOK, IsValid
<1>3. QED
  BY <1>1, <1>2, FlagFacts
     DEF ViewportInv, BackendTypeOK, Whole, PhaseOK, Clean, PaintsIfValid

LEMMA SetupKeeps ==
  ASSUME ViewportInv, Setup
  PROVE  ViewportInv'
<1>1. CASE SetupDestroys /\ UNCHANGED data
  <2>1. /\ IsValid /\ flags' = Hidden /\ pc' = "destroyed"
        /\ UNCHANGED <<handles, leaked, botched, stray, painting>>
    BY <1>1 DEF SetupDestroys, data, painter
  <2>2. /\ Hidden \subseteq Flags
        /\ Valid \subseteq Hidden
        /\ "Exposed" \notin Hidden
    BY <2>1, FlagFacts DEF Hidden, ViewportInv, BackendTypeOK, IsValid
  <2>3. IsValid'
    BY <2>1, <2>2 DEF IsValid
  <2>4. QED
    BY <2>1, <2>2, <2>3
       DEF ViewportInv, BackendTypeOK, Whole, PhaseOK, Clean, PaintsIfValid
<1>2. CASE SetupBegins /\ UNCHANGED data
  <2>1. ~IsValid /\ pc' = "create" /\ UNCHANGED <<flags, handles, leaked, botched, stray, painting>>
    BY <1>2 DEF SetupBegins, data, painter
  <2>2. ~IsValid'
    BY <2>1 DEF IsValid
  <2>3. QED
    BY <2>1, <2>2
       DEF ViewportInv, BackendTypeOK, Whole, PhaseOK, Clean, PaintsIfValid
<1>3. CASE Show /\ UNCHANGED data
  <2>1. /\ pc = "created" /\ pc' = "game" /\ flags' = flags \cup {"Exposed"}
        /\ UNCHANGED <<handles, leaked, botched, stray, painting>>
    BY <1>3 DEF Show, data, painter
  <2>2. IsValid /\ IsValid' /\ flags' \subseteq Flags
    BY <2>1, FlagFacts DEF ViewportInv, BackendTypeOK, PhaseOK, IsValid
  <2>3. QED
    BY <2>1, <2>2
       DEF ViewportInv, BackendTypeOK, Whole, PhaseOK, Clean, PaintsIfValid
<1>4. CASE SetupTearsDown /\ PainterFinalize
  <2>1. /\ pc = "destroyed" /\ pc' = "create"
        /\ flags' = flags \cap Opened
        /\ handles' = handles \ ((flags \cap GLObjects) \cup {"X11Window"})
        /\ UNCHANGED <<leaked, botched, stray>>
        /\ painting' = FALSE
    BY <1>4 DEF SetupTearsDown, PainterFinalize
  <2>2. IsValid /\ handles = Objects
    BY <2>1 DEF ViewportInv, PhaseOK, Whole
  <2>3. handles' = {}
    BY <2>1, <2>2, FlagFacts DEF IsValid
  <2>4. ~IsValid' /\ flags' \subseteq Opened /\ "Exposed" \notin flags'
    BY <2>1, FlagFacts DEF IsValid
  <2>5. flags' \subseteq Flags
    BY <2>4, FlagFacts
  <2>6. QED
    BY <2>1, <2>3, <2>4, <2>5, FlagFacts
       DEF ViewportInv, BackendTypeOK, Whole, PhaseOK, Clean, PaintsIfValid
<1>5. CASE Creates /\ PainterInitialize
  <2>1. /\ pc = "create" /\ pc' = "created"
        /\ flags' = flags \cup Valid \cup {"Ready"}
        /\ handles' = Objects
        /\ leaked' = leaked \cup {"X11Colormap"} \cup (handles \cap Objects)
        /\ UNCHANGED <<botched, stray>>
        /\ painting' = TRUE
    BY <1>5 DEF Creates, Leaks, PainterInitialize
  <2>2. ~IsValid /\ "Exposed" \notin flags
    BY <2>1 DEF ViewportInv, PhaseOK
  <2>3. /\ IsValid' /\ flags' \subseteq Flags /\ "Exposed" \notin flags'
        /\ leaked' \subseteq Kinds
    BY <2>1, <2>2, FlagFacts DEF ViewportInv, BackendTypeOK, Kinds, IsValid
  <2>4. QED
    BY <2>1, <2>2, <2>3
       DEF ViewportInv, BackendTypeOK, Whole, PhaseOK, Clean, PaintsIfValid
<1>6. QED
  BY <1>1, <1>2, <1>3, <1>4, <1>5 DEF Setup

LEMMA SetupFailsKeeps ==
  ASSUME ViewportInv, SetupFails
  PROVE  ViewportInv'
<1>1. pc = "create" /\ pc' = "game" /\ painting' = painting
  BY DEF SetupFails, NoVisual, NoHints, NoViewport, NoContext, data, painter
<1>2. ~IsValid /\ "Exposed" \notin flags /\ "X11Window" \notin flags /\ ~painting
  BY <1>1 DEF ViewportInv, PhaseOK, Whole, PaintsIfValid
<1>3. CASE NoVisual
  BY <1>1, <1>2, <1>3
     DEF NoVisual, ViewportInv, BackendTypeOK, Whole, PhaseOK, Clean, PaintsIfValid, IsValid
<1>4. CASE NoHints
  <2>1. botched' /\ flags' = flags /\ handles' \subseteq Objects /\ leaked' \subseteq Kinds
        /\ stray' = stray
    BY <1>4, FlagFacts DEF NoHints, Leaks, Kinds, ViewportInv, BackendTypeOK
  <2>2. ~IsValid'
    BY <1>2, <2>1 DEF IsValid
  <2>3. QED
    BY <1>1, <1>2, <2>1, <2>2
       DEF ViewportInv, BackendTypeOK, Whole, PhaseOK, Clean, PaintsIfValid
<1>5. CASE NoViewport
  <2>1. /\ flags' = flags \ (GLMade \cup {"X11Window"})
        /\ handles' = {}
        /\ leaked' = leaked \cup {"X11Colormap"} \cup (handles \cap Objects)
        /\ UNCHANGED <<botched, stray>>
    BY <1>5 DEF NoViewport, Leaks
  <2>2. ~IsValid' /\ flags' \subseteq flags /\ leaked' \subseteq Kinds
    BY <2>1, FlagFacts DEF IsValid, Kinds, ViewportInv, BackendTypeOK
  <2>3. QED
    BY <1>1, <1>2, <2>1, <2>2
       DEF ViewportInv, BackendTypeOK, Whole, PhaseOK, Clean, PaintsIfValid
<1>6. ASSUME NEW f \in Failures, NoContext(f[1], f[2])
      PROVE  ViewportInv'
  <2> DEFINE assigned == f[1]
             raised   == f[2]
  <2>1. assigned \subseteq GLObjects /\ raised \subseteq GLMade
    BY FailureFacts
  <2> HIDE DEF assigned, raised
  <2>2. /\ flags' = (flags \cup raised) \ {"X11Window"}
        /\ handles' = ((handles \ assigned) \cup (raised \cap GLObjects)) \ {"X11Window"}
        /\ leaked' = leaked \cup {"X11Colormap"}
                            \cup (handles \cap (assigned \cup {"X11Window"}))
        /\ botched' = (botched \/ raised # {})
        /\ stray' = stray
    BY <1>6 DEF NoContext, Leaks, assigned, raised
  <2>3. ~IsValid' /\ "X11Window" \notin flags' /\ "Exposed" \notin flags'
    BY <1>2, <2>1, <2>2, FlagFacts DEF IsValid
  <2>4. flags' \subseteq Flags /\ handles' \subseteq Objects /\ leaked' \subseteq Kinds
        /\ botched' \in BOOLEAN
    BY <2>1, <2>2, FlagFacts DEF ViewportInv, BackendTypeOK, Kinds
  <2>5. Clean'
    <3>1. CASE raised # {} \/ botched
      BY <2>2, <3>1 DEF Clean
    <3>2. CASE raised = {} /\ ~botched
      <4>1. flags \subseteq Opened /\ handles = {} /\ leaked \subseteq {"X11Colormap"}
            /\ ~stray
        BY <1>2, <3>2 DEF ViewportInv, Clean
      <4>2. QED
        BY <2>2, <3>2, <4>1 DEF Clean
    <3>3. QED
      BY <3>1, <3>2
  <2>6. QED
    BY <1>1, <1>2, <2>2, <2>3, <2>4, <2>5
       DEF ViewportInv, BackendTypeOK, Whole, PhaseOK, PaintsIfValid
<1>7. QED
  BY <1>3, <1>4, <1>5, <1>6 DEF SetupFails

LEMMA FinalizesKeeps ==
  ASSUME ViewportInv, Finalizes
  PROVE  ViewportInv'
<1>1. /\ flags' = {} /\ handles' = {} /\ leaked' = {} /\ pc' = "off"
      /\ stray' = (stray \/ Unfinished # {})
      /\ botched' = botched
  BY DEF Finalizes, Finalize
<1>2. ~painting'
  BY DEF Finalizes, PainterFinalize, data, painter, ViewportInv, Whole, PaintsIfValid
<1>3. painting' \in BOOLEAN
  BY DEF Finalizes, PainterFinalize, data, painter, ViewportInv
<1>4. ~IsValid'
  BY <1>1, FlagFacts DEF IsValid
<1>5. ~botched => Unfinished = {}
  BY DEF Unfinished, ViewportInv, Clean
<1>6. QED
  BY <1>1, <1>2, <1>3, <1>4, <1>5
     DEF ViewportInv, BackendTypeOK, Whole, PhaseOK, Clean, PaintsIfValid

LEMMA ViewportNext == ViewportInv /\ [Next]_vars => ViewportInv'
<1>1. SUFFICES ASSUME ViewportInv, [Next]_vars PROVE ViewportInv'
  OBVIOUS
<1>2. ASSUME UNCHANGED backend, painting' = painting
      PROVE  ViewportInv'
  BY <1>1, <1>2
     DEF backend, ViewportInv, BackendTypeOK, Whole, PhaseOK, Clean, PaintsIfValid, IsValid
<1>3. CASE Game
  BY <1>2, <1>3, PainterKept DEF Game
<1>4. CASE UNCHANGED vars
  BY <1>2, <1>4 DEF vars, data, painter
<1>5. QED
  BY <1>1, <1>3, <1>4, OpenKeeps, FocusKeeps, SetupKeeps, SetupFailsKeeps, FinalizesKeeps
     DEF Next

-----------------------------------------------------------------------------
(***************************************************************************)
(* The data.  No session is of the future, so that a new context makes all *)
(* names stale; and the texture that was drawn last has a name of this     *)
(* session.                                                                *)
(***************************************************************************)
Past == \A d \in Data : session[d] <= session_id

LastCurrent ==
  painting /\ last_texture_id # None /\ name[last_texture_id] # None
    => session[last_texture_id] = session_id

DataInv == DataTypeOK /\ Past /\ OwnNames /\ LastCurrent /\ BoundIsLast

LEMMA NameFacts ==
  /\ Textures \subseteq Data /\ Buffers \subseteq Data
  /\ \A d \in Data : NamesOf(d) \subseteq Names
  /\ None \notin Data /\ None \notin Names
  /\ TextureNames \subseteq Names /\ BufferNames \subseteq Names
BY DataAssumption DEF Data, Names, NamesOf

LEMMA DataInitial == Init => DataInv
<1>1. SUFFICES ASSUME DataInit PROVE DataInv
  BY DEF Init
<1>2. painting = FALSE /\ elsewhere = FALSE /\ hit = FALSE
  BY <1>1 DEF DataInit
<1>3. painting \in BOOLEAN /\ elsewhere \in BOOLEAN /\ hit \in BOOLEAN
  BY <1>2
<1>4. DataTypeOK
  BY <1>1, <1>3 DEF DataInit, DataTypeOK
<1>5. Past
  BY <1>1 DEF DataInit, Past
<1>6. OwnNames /\ LastCurrent /\ BoundIsLast
  BY <1>2 DEF OwnNames, LastCurrent, BoundIsLast
<1>7. QED
  BY <1>4, <1>5, <1>6 DEF DataInv

(* With a new context all names are stale.                                 *)
LEMMA PainterInitializeKeeps ==
  ASSUME DataInv, PainterInitialize
  PROVE  DataInv'
<1>1. /\ session_id' = session_id + 1 /\ session_id \in Nat
      /\ last_texture_id' = None /\ bound' = None /\ elsewhere' = FALSE /\ painting' = TRUE
      /\ UNCHANGED <<owner, name, session, loaded, hit>>
  BY DEF PainterInitialize, DataInv, DataTypeOK, assets
<1>2. \A d \in Data : session'[d] < session_id'
  BY <1>1 DEF DataInv, DataTypeOK, Past
<1>3. DataTypeOK'
  <2>1. painting' \in BOOLEAN /\ elsewhere' \in BOOLEAN
    BY <1>1
  <2>2. session_id' \in Nat
    BY <1>1
  <2>3. QED
    BY <1>1, <2>1, <2>2 DEF DataInv, DataTypeOK
<1>4. Past'
  BY <1>1, <1>2, <1>3 DEF Past, DataTypeOK
<1>5. OwnNames'
  <2>1. \A d \in Data : session'[d] # session_id'
    BY <1>1, <1>2, <1>3 DEF DataTypeOK
  <2>2. QED
    BY <2>1 DEF OwnNames, Stale
<1>6. QED
  BY <1>1, <1>3, <1>4, <1>5 DEF DataInv, LastCurrent, BoundIsLast

LEMMA PainterFinalizeKeeps ==
  ASSUME DataInv, PainterFinalize
  PROVE  DataInv'
BY NameFacts
   DEF PainterFinalize, DataInv, DataTypeOK, Past, OwnNames, LastCurrent, BoundIsLast, assets

(* Load and Buffer: a name that is free becomes that of d.                 *)
LEMMA NamedKeeps ==
  ASSUME DataInv, painting, NEW d \in Data, NEW n \in NamesOf(d), Generates(d, n),
         name[d] = None,
         owner' = [owner EXCEPT ![n] = d],
         name' = [name EXCEPT ![d] = n],
         session' = [session EXCEPT ![d] = session_id],
         UNCHANGED <<painter, hit>>
  PROVE  /\ name' \in [Data -> Names \cup {None}]
         /\ \A e \in Data : name'[e] \in NamesOf(e) \cup {None}
         /\ owner' \in [Names -> Data \cup {None}]
         /\ session' \in [Data -> Nat]
         /\ Past' /\ OwnNames' /\ LastCurrent'
<1>1. n \in Names /\ owner[n] = None /\ session_id \in Nat
  BY NameFacts DEF Generates, DataInv, DataTypeOK
<1>2. /\ \A e \in Data : name'[e] = IF e = d THEN n ELSE name[e]
      /\ \A e \in Data : session'[e] = IF e = d THEN session_id ELSE session[e]
      /\ \A m \in Names : owner'[m] = IF m = n THEN d ELSE owner[m]
  BY <1>1 DEF DataInv, DataTypeOK
<1>3. /\ name' \in [Data -> Names \cup {None}]
      /\ owner' \in [Names -> Data \cup {None}]
      /\ session' \in [Data -> Nat]
  BY <1>1 DEF DataInv, DataTypeOK
<1>4. \A e \in Data : name'[e] \in NamesOf(e) \cup {None}
  <2>1. SUFFICES ASSUME NEW e \in Data PROVE name'[e] \in NamesOf(e) \cup {None}
    OBVIOUS
  <2>2. name[e] \in NamesOf(e) \cup {None}
    BY DEF DataInv, DataTypeOK
  <2>3. QED
    BY <1>2, <2>2
<1>5. Past'
  <2>1. SUFFICES ASSUME NEW e \in Data PROVE session'[e] <= session_id
    BY DEF Past, painter
  <2>2. session[e] <= session_id
    BY DEF DataInv, Past
  <2>3. QED
    BY <1>1, <1>2, <2>2
<1>6. OwnNames'
  <2>1. SUFFICES ASSUME ~hit, NEW e \in Data, name'[e] # None, session'[e] = session_id
                 PROVE  owner'[name'[e]] = e
    BY DEF OwnNames, Stale, painter
  <2>2. CASE e = d
    BY <1>1, <1>2, <2>2
  <2>3. CASE e # d
    <3>1. name'[e] = name[e] /\ session[e] = session_id
      BY <1>2, <2>1, <2>3
    <3>2. name[e] \in Names /\ owner[name[e]] = e
      BY <2>1, <3>1 DEF DataInv, DataTypeOK, OwnNames, Stale
    <3>3. name[e] # n
      BY <1>1, <3>2, NameFacts
    <3>4. QED
      BY <1>2, <3>1, <3>2, <3>3
  <2>4. QED
    BY <2>2, <2>3
<1>7. LastCurrent'
  <2>1. SUFFICES ASSUME last_texture_id # None, name'[last_texture_id] # None
                 PROVE  session'[last_texture_id] = session_id
    BY DEF LastCurrent, painter
  <2>2. last_texture_id \in Data
    BY <2>1, NameFacts DEF DataInv, DataTypeOK
  <2>3. CASE last_texture_id = d
    BY <1>2, <2>2, <2>3
  <2>4. CASE last_texture_id # d
    BY <1>2, <2>1, <2>2, <2>4 DEF DataInv, LastCurrent
  <2>5. QED
    BY <2>3, <2>4
<1>8. QED
  BY <1>3, <1>4, <1>5, <1>6, <1>7

LEMMA LoadKeeps ==
  ASSUME DataInv, NEW t \in Textures, Load(t)
  PROVE  DataInv'
<1>1. PICK n \in TextureNames :
        /\ Generates(t, n)
        /\ owner' = [owner EXCEPT ![n] = t]
        /\ name' = [name EXCEPT ![t] = n]
        /\ bound' = n
  BY DEF Load
<1>2. /\ painting /\ name[t] = None
      /\ session' = [session EXCEPT ![t] = session_id]
      /\ loaded' = loaded \cup {t}
      /\ elsewhere' = (elsewhere \/ t # last_texture_id)
      /\ UNCHANGED <<painter, hit>>
  BY DEF Load
<1>3. t \in Data /\ n \in NamesOf(t)
  BY <1>1, NameFacts DEF NamesOf
<1>4. /\ name' \in [Data -> Names \cup {None}]
      /\ \A e \in Data : name'[e] \in NamesOf(e) \cup {None}
      /\ owner' \in [Names -> Data \cup {None}]
      /\ session' \in [Data -> Nat]
      /\ Past' /\ OwnNames' /\ LastCurrent'
  BY <1>1, <1>2, <1>3, NamedKeeps
<1>5. DataTypeOK'
  <2>1. elsewhere' \in BOOLEAN /\ loaded' \in SUBSET Textures /\ bound' \in TextureNames
    BY <1>1, <1>2 DEF DataInv, DataTypeOK
  <2>2. QED
    BY <1>2, <1>4, <2>1 DEF DataInv, DataTypeOK, painter
<1>6. BoundIsLast'
  <2>1. SUFFICES ASSUME last_texture_id = t PROVE bound' = name'[t]
    BY <1>2 DEF BoundIsLast, painter
  <2>2. QED
    BY <1>1, <1>3 DEF DataInv, DataTypeOK
<1>7. QED
  BY <1>4, <1>5, <1>6 DEF DataInv

LEMMA BufferKeeps ==
  ASSUME DataInv, NEW b \in Buffers, Buffer(b)
  PROVE  DataInv'
<1>1. PICK n \in BufferNames :
        /\ Generates(b, n)
        /\ owner' = [owner EXCEPT ![n] = b]
        /\ name' = [name EXCEPT ![b] = n]
  BY DEF Buffer
<1>2. /\ painting /\ name[b] = None
      /\ session' = [session EXCEPT ![b] = session_id]
      /\ UNCHANGED <<painter, bound, loaded, elsewhere, hit>>
  BY DEF Buffer
<1>3. b \in Data /\ b \notin Textures /\ n \in NamesOf(b)
  BY <1>1, NameFacts, DataAssumption DEF NamesOf
<1>4. /\ name' \in [Data -> Names \cup {None}]
      /\ \A e \in Data : name'[e] \in NamesOf(e) \cup {None}
      /\ owner' \in [Names -> Data \cup {None}]
      /\ session' \in [Data -> Nat]
      /\ Past' /\ OwnNames' /\ LastCurrent'
  BY <1>1, <1>2, <1>3, NamedKeeps
<1>5. DataTypeOK'
  BY <1>2, <1>4 DEF DataInv, DataTypeOK, painter
<1>6. BoundIsLast'
  <2>1. last_texture_id # None => name'[last_texture_id] = name[last_texture_id]
    BY <1>1, <1>3, NameFacts DEF DataInv, DataTypeOK
  <2>2. QED
    BY <1>2, <2>1 DEF DataInv, BoundIsLast, painter
<1>7. QED
  BY <1>4, <1>5, <1>6 DEF DataInv

(* What goes by the name of data that is freed is the data's own, or       *)
(* nothing, unless the free hits.                                          *)
LEMMA FreeKeeps ==
  ASSUME DataInv, NEW d \in Data, Free(d)
  PROVE  DataInv'
<1> DEFINE n == name[d]
<1>1. /\ n # None /\ n \in Names
      /\ owner' = [owner EXCEPT ![n] = None]
      /\ hit' = (hit \/ owner[n] \notin {d, None})
      /\ bound' = IF bound = n THEN None ELSE bound
      /\ name' = [name EXCEPT ![d] = None]
      /\ session' = IF d \in Textures THEN [session EXCEPT ![d] = 0] ELSE session
      /\ UNCHANGED <<painter, loaded, elsewhere>>
  BY DEF Free, DataInv, DataTypeOK
<1> HIDE DEF n
<1>2. /\ \A e \in Data : name'[e] = IF e = d THEN None ELSE name[e]
      /\ \A e \in Data : e # d => session'[e] = session[e]
      /\ \A e \in Data : session'[e] \in {0, session[e]}
      /\ \A m \in Names : owner'[m] = IF m = n THEN None ELSE owner[m]
  BY <1>1 DEF DataInv, DataTypeOK
<1>3. DataTypeOK'
  <2>1. \A e \in Data : name'[e] \in NamesOf(e) \cup {None}
    BY <1>2 DEF DataInv, DataTypeOK
  <2>2. name' \in [Data -> Names \cup {None}] /\ owner' \in [Names -> Data \cup {None}]
    BY <1>1 DEF DataInv, DataTypeOK
  <2>3. session' \in [Data -> Nat]
    BY <1>1 DEF DataInv, DataTypeOK
  <2>4. hit' \in BOOLEAN /\ bound' \in TextureNames \cup {None}
    BY <1>1 DEF DataInv, DataTypeOK
  <2>5. QED
    BY <1>1, <2>1, <2>2, <2>3, <2>4 DEF DataInv, DataTypeOK, painter
<1>4. Past'
  <2>1. SUFFICES ASSUME NEW e \in Data PROVE session'[e] <= session_id
    BY <1>1 DEF Past, painter
  <2>2. session[e] <= session_id /\ session_id \in Nat
    BY DEF DataInv, DataTypeOK, Past
  <2>3. QED
    BY <1>2, <2>2
<1>5. OwnNames'
  <2>1. SUFFICES ASSUME ~hit', painting, NEW e \in Data, name'[e] # None,
                        session'[e] = session_id
                 PROVE  owner'[name'[e]] = e
    BY <1>1 DEF OwnNames, Stale, painter
  <2>2. e # d /\ name'[e] = name[e] /\ session[e] = session_id
    BY <1>2, <2>1
  <2>3. ~hit /\ owner[n] \in {d, None}
    BY <1>1, <2>1
  <2>4. name[e] \in Names /\ owner[name[e]] = e
    BY <2>1, <2>2, <2>3 DEF DataInv, DataTypeOK, OwnNames, Stale
  <2>5. name[e] # n
    BY <2>2, <2>3, <2>4, NameFacts
  <2>6. QED
    BY <1>2, <2>2, <2>4, <2>5
<1>6. LastCurrent' /\ BoundIsLast'
  <2>1. SUFFICES ASSUME painting, last_texture_id # None, name'[last_texture_id] # None
                 PROVE  /\ session'[last_texture_id] = session_id
                        /\ ~hit' /\ ~elsewhere => bound' = name'[last_texture_id]
    BY <1>1 DEF LastCurrent, BoundIsLast, painter
  <2> DEFINE t == last_texture_id
  <2>2. t \in Data
    BY <2>1, NameFacts DEF DataInv, DataTypeOK
  <2>3. t # d /\ name'[t] = name[t] /\ session'[t] = session[t]
    BY <1>2, <2>1, <2>2
  <2>4. session[t] = session_id
    BY <2>1, <2>3 DEF DataInv, LastCurrent
  <2>5. ASSUME ~hit', ~elsewhere PROVE bound' = name'[t]
    <3>1. ~hit /\ owner[n] \in {d, None}
      BY <1>1, <2>5
    <3>2. bound = name[t]
      BY <2>1, <2>3, <2>5, <3>1 DEF DataInv, BoundIsLast
    <3>3. owner[name[t]] = t
      BY <2>1, <2>2, <2>3, <2>4, <3>1 DEF DataInv, OwnNames, Stale
    <3>4. name[t] # n
      BY <2>2, <2>3, <3>1, <3>3, NameFacts
    <3>5. QED
      BY <1>1, <2>3, <3>2, <3>4
  <2>6. QED
    BY <2>3, <2>4, <2>5
<1>7. QED
  BY <1>3, <1>4, <1>5, <1>6 DEF DataInv

LEMMA SetVertexKeeps ==
  ASSUME DataInv, NEW b \in Buffers, SetVertex(b)
  PROVE  DataInv'
<1>1. hit' \in BOOLEAN /\ (~hit' => ~hit)
  BY DEF SetVertex, DataInv, DataTypeOK
<1>2. QED
  BY <1>1
     DEF SetVertex, DataInv, DataTypeOK, Past, OwnNames, Stale, LastCurrent, BoundIsLast,
         painter, assets

LEMMA RemadeFacts ==
  ASSUME NEW t \in Textures, NEW v \in Buffers, NEW c \in Buffers
  PROVE  /\ Remade(t, v, c) \subseteq Data
         /\ \A d \in Remade(t, v, c) : Stale(d)
         /\ t \in Remade(t, v, c) <=> Stale(t) /\ Rebinds(t)
         /\ \A u \in Textures \ {t} : u \notin Remade(t, v, c)
BY NameFacts, DataAssumption DEF Remade

(* What is made again has a free name, each its own.                       *)
LEMMA DrawsAgainKeeps ==
  ASSUME DataInv, painting, NEW again \in SUBSET Data, \A d \in again : Stale(d),
         NEW lost \in SUBSET again, DrawsAgain(again, lost),
         UNCHANGED <<session_id, painting, hit>>
  PROVE  /\ name' \in [Data -> Names \cup {None}]
         /\ \A d \in Data : name'[d] \in NamesOf(d) \cup {None}
         /\ owner' \in [Names -> Data \cup {None}]
         /\ session' \in [Data -> Nat]
         /\ Past' /\ OwnNames'
         /\ \A d \in Data \ again : name'[d] = name[d] /\ session'[d] = session[d]
         /\ \A d \in again : name'[d] # None => session'[d] = session_id
<1>1. PICK fresh \in [again \ lost -> Names] :
        /\ Injective(fresh)
        /\ \A d \in again \ lost : Generates(d, fresh[d])
        /\ owner' = [n \in Names |->
             IF \E d \in again \ lost : fresh[d] = n
             THEN CHOOSE d \in again \ lost : fresh[d] = n ELSE owner[n]]
        /\ name' = [d \in Data |-> IF d \in lost THEN None
                                   ELSE IF d \in again THEN fresh[d] ELSE name[d]]
  BY DEF DrawsAgain
<1>2. session' = [d \in Data |-> IF d \in lost THEN 0
                                ELSE IF d \in again THEN session_id ELSE session[d]]
  BY DEF DrawsAgain
<1>3. session_id \in Nat /\ name \in [Data -> Names \cup {None}]
      /\ owner \in [Names -> Data \cup {None}] /\ session \in [Data -> Nat]
  BY DEF DataInv, DataTypeOK
<1>4. \A d \in again \ lost : fresh[d] \in Names /\ fresh[d] \in NamesOf(d)
                               /\ owner[fresh[d]] = None /\ owner'[fresh[d]] = d
  <2>1. SUFFICES ASSUME NEW d \in again \ lost
                 PROVE  /\ fresh[d] \in Names /\ fresh[d] \in NamesOf(d)
                        /\ owner[fresh[d]] = None /\ owner'[fresh[d]] = d
    OBVIOUS
  <2>2. fresh[d] \in Names /\ fresh[d] \in NamesOf(d) /\ owner[fresh[d]] = None
    BY <1>1 DEF Generates
  <2>3. owner'[fresh[d]] = CHOOSE e \in again \ lost : fresh[e] = fresh[d]
    BY <1>1, <2>2
  <2>4. \A e \in again \ lost : fresh[e] = fresh[d] => e = d
    BY <1>1 DEF Injective
  <2>5. (CHOOSE e \in again \ lost : fresh[e] = fresh[d]) = d
    BY <2>4
  <2>6. QED
    BY <2>2, <2>3, <2>5
<1>5. \A n \in Names : owner'[n] = owner[n] \/ owner'[n] \in again \ lost
  BY <1>1
<1>6. \A n \in Names : owner[n] # None => owner'[n] = owner[n]
  <2>1. SUFFICES ASSUME NEW n \in Names, owner[n] # None PROVE owner'[n] = owner[n]
    OBVIOUS
  <2>2. ~ \E d \in again \ lost : fresh[d] = n
    BY <1>4, <2>1
  <2>3. QED
    BY <1>1, <2>2
<1>7. owner' \in [Names -> Data \cup {None}]
  BY <1>1, <1>3, <1>5
<1>8. name' \in [Data -> Names \cup {None}] /\ session' \in [Data -> Nat]
  BY <1>1, <1>2, <1>3, <1>4
<1>9. \A d \in Data : name'[d] \in NamesOf(d) \cup {None}
  BY <1>1, <1>4 DEF DataInv, DataTypeOK
<1>10. Past'
  BY <1>2, <1>3 DEF Past, DataInv
<1>11. OwnNames'
  <2>1. SUFFICES ASSUME ~hit, NEW d \in Data, name'[d] # None, session'[d] = session_id
                 PROVE  owner'[name'[d]] = d
    BY DEF OwnNames, Stale
  <2>2. d \notin lost
    BY <1>1, <2>1
  <2>3. CASE d \in again
    BY <1>1, <1>4, <2>2, <2>3
  <2>4. CASE d \notin again
    <3>1. name'[d] = name[d] /\ session[d] = session_id
      BY <1>1, <1>2, <2>1, <2>2, <2>4
    <3>2. name[d] \in Names /\ owner[name[d]] = d
      BY <1>3, <2>1, <3>1 DEF DataInv, OwnNames, Stale
    <3>3. QED
      BY <1>6, <3>1, <3>2, NameFacts
  <2>5. QED
    BY <2>3, <2>4
<1>12. /\ \A d \in Data \ again : name'[d] = name[d] /\ session'[d] = session[d]
       /\ \A d \in again : name'[d] # None => session'[d] = session_id
  BY <1>1, <1>2
<1>13. QED
  BY <1>7, <1>8, <1>9, <1>10, <1>11, <1>12

LEMMA DrawKeeps ==
  ASSUME DataInv, NEW t \in Textures, NEW v \in Buffers, NEW c \in Buffers,
         Draw(t, v, c)
  PROVE  DataInv'
<1> DEFINE again == Remade(t, v, c)
<1>1. PICK lost \in SUBSET (again \cap Textures) : DrawsAgain(again, lost)
  BY DEF Draw
<1>2. /\ painting
      /\ last_texture_id' = Id(t)
      /\ IF Rebinds(t) /\ name[t] # None
         THEN bound' = name'[t] /\ elsewhere' = FALSE
         ELSE bound' = bound /\ elsewhere' = elsewhere
      /\ UNCHANGED <<session_id, painting, loaded, hit>>
  BY DEF Draw
<1>3. /\ again \subseteq Data
      /\ \A d \in again : Stale(d)
      /\ t \in again <=> Stale(t) /\ Rebinds(t)
      /\ t \in Data
  BY RemadeFacts, NameFacts
<1> HIDE DEF again
<1>4. /\ name' \in [Data -> Names \cup {None}]
      /\ \A d \in Data : name'[d] \in NamesOf(d) \cup {None}
      /\ owner' \in [Names -> Data \cup {None}]
      /\ session' \in [Data -> Nat]
      /\ Past' /\ OwnNames'
      /\ \A d \in Data \ again : name'[d] = name[d] /\ session'[d] = session[d]
      /\ \A d \in again : name'[d] # None => session'[d] = session_id
  BY <1>1, <1>2, <1>3, DrawsAgainKeeps
<1>5. DataTypeOK'
  <2>1. last_texture_id' \in Textures \cup {None}
    BY <1>2 DEF Id
  <2>2. name'[t] \in TextureNames \cup {None}
    BY <1>3, <1>4 DEF NamesOf
  <2>3. bound' \in TextureNames \cup {None} /\ elsewhere' \in BOOLEAN
    BY <1>2, <2>2 DEF DataInv, DataTypeOK
  <2>4. QED
    BY <1>2, <1>4, <2>1, <2>3 DEF DataInv, DataTypeOK
<1>6. LastCurrent' /\ BoundIsLast'
  <2>1. SUFFICES ASSUME last_texture_id' # None, name'[last_texture_id'] # None
                 PROVE  /\ session'[last_texture_id'] = session_id
                        /\ ~hit /\ ~elsewhere' => bound' = name'[last_texture_id']
    BY <1>2 DEF LastCurrent, BoundIsLast
  <2>2. last_texture_id' = t /\ Id(t) = t
    BY <1>2, <2>1 DEF Id
  <2>3. name[t] # None
    <3>1. CASE t \in again
      BY <1>3, <3>1 DEF Stale
    <3>2. CASE t \notin again
      BY <1>3, <1>4, <2>1, <2>2, <3>2
    <3>3. QED
      BY <3>1, <3>2
  <2>4. CASE Rebinds(t)
    <3>1. session'[t] = session_id
      <4>1. CASE Stale(t)
        BY <1>3, <1>4, <2>1, <2>2, <2>4, <4>1
      <4>2. CASE ~Stale(t)
        BY <1>3, <1>4, <2>3, <4>2 DEF Stale
      <4>3. QED
        BY <4>1, <4>2
    <3>2. QED
      BY <1>2, <2>2, <2>3, <2>4, <3>1
  <2>5. CASE ~Rebinds(t)
    <3>1. last_texture_id = t
      BY <2>2, <2>5 DEF Rebinds
    <3>2. t \notin again /\ bound' = bound /\ elsewhere' = elsewhere
      BY <1>2, <1>3, <2>5
    <3>3. name'[t] = name[t] /\ session'[t] = session[t]
      BY <1>3, <1>4, <3>2
    <3>4. session[t] = session_id
      BY <1>2, <2>1, <2>2, <2>3, <3>1 DEF DataInv, LastCurrent
    <3>5. ~hit /\ ~elsewhere => bound = name[t]
      BY <1>2, <2>1, <2>2, <2>3, <3>1 DEF DataInv, BoundIsLast
    <3>6. QED
      BY <2>2, <3>2, <3>3, <3>4, <3>5
  <2>6. QED
    BY <2>4, <2>5
<1>7. QED
  BY <1>4, <1>5, <1>6 DEF DataInv

LEMMA GameKeeps ==
  ASSUME DataInv, GameStep
  PROVE  DataInv'
<1>1. \A t \in Textures : Load(t) => DataInv'
  BY LoadKeeps
<1>2. \A b \in Buffers : Buffer(b) \/ SetVertex(b) => DataInv'
  BY BufferKeeps, SetVertexKeeps
<1>3. \A d \in Data : Free(d) => DataInv'
  BY FreeKeeps
<1>4. \A t \in Textures, v \in Buffers : \A c \in Buffers \ {v} : Draw(t, v, c) => DataInv'
  BY DrawKeeps
<1>5. QED
  BY <1>1, <1>2, <1>3, <1>4 DEF GameStep

LEMMA DataNext == DataInv /\ [Next]_vars => DataInv'
<1>1. SUFFICES ASSUME DataInv, [Next]_vars PROVE DataInv'
  OBVIOUS
<1>2. ASSUME UNCHANGED data PROVE DataInv'
  BY <1>1, <1>2
     DEF data, painter, assets, DataInv, DataTypeOK, Past, OwnNames, Stale, LastCurrent,
         BoundIsLast
<1>3. CASE Setup
  BY <1>1, <1>2, <1>3, PainterInitializeKeeps, PainterFinalizeKeeps DEF Setup
<1>4. CASE SetupFails
  BY <1>2, <1>4 DEF SetupFails
<1>5. CASE Finalizes
  BY <1>1, <1>2, <1>5, PainterFinalizeKeeps DEF Finalizes
<1>6. CASE Game
  BY <1>1, <1>6, GameKeeps DEF Game
<1>7. CASE UNCHANGED vars
  BY <1>2, <1>7 DEF vars
<1>8. QED
  BY <1>1, <1>2, <1>3, <1>4, <1>5, <1>6, <1>7 DEF Next

-----------------------------------------------------------------------------
LEMMA Viewports == Spec => []ViewportInv
BY ViewportInit, ViewportNext, PTL DEF Spec

LEMMA DataSound == Spec => []DataInv
BY DataInitial, DataNext, PTL DEF Spec

(* The flags, handles, names and sessions keep their types.                *)
THEOREM TypeCorrect == Spec => []TypeOK
<1>1. ViewportInv /\ DataInv => TypeOK
  BY DEF ViewportInv, DataInv, TypeOK
<1>2. QED
  BY <1>1, Viewports, DataSound, PTL

(* Backend::Active() is true only of a whole viewport with its painter,    *)
(* whichever call of a Setup has failed before.                            *)
THEOREM ActiveIsComplete == Spec => []ActiveComplete
<1>1. ViewportInv => ActiveComplete
  BY FlagFacts
     DEF ViewportInv, Whole, PhaseOK, PaintsIfValid, IsActive, IsValid, ActiveComplete
<1>2. QED
  BY <1>1, Viewports, PTL

(* Of what a Setup makes only the colormap is left behind, whether it      *)
(* succeeds or fails, unless a creation broke off between two of its       *)
(* objects; no window, surface or context is lost, and no flag is left     *)
(* without a viewport.                                                     *)
THEOREM OnlyColormapsAreLeft == Spec => []OnlyColormapsLeft
<1>1. ViewportInv => OnlyColormapsLeft
  BY DEF ViewportInv, Clean, OnlyColormapsLeft
<1>2. QED
  BY <1>1, Viewports, PTL

(* Names of this session are their data's own, after any number of new     *)
(* contexts.                                                               *)
THEOREM NamesAreOwn == Spec => []OwnNames
<1>1. DataInv => OwnNames
  BY DEF DataInv
<1>2. QED
  BY <1>1, DataSound, PTL

(* The texture that is bound is the one the painter takes for bound.       *)
THEOREM LastIsBound == Spec => []BoundIsLast
<1>1. DataInv => BoundIsLast
  BY DEF DataInv
<1>2. QED
  BY <1>1, DataSound, PTL

-----------------------------------------------------------------------------
(***************************************************************************)
(* AudioPlayer                                                             *)
(***************************************************************************)
(* A track plays under one id; the buffers are those of the device, unless *)
(* it was opened again behind them; and how far a tick has come with each  *)
(* id: nothing is mixed of those it has yet to come to, and the room is    *)
(* full of those it has left behind, unless they came to their end.        *)
OneId == \A i, j \in Ids : tracks[i] \in Tracks /\ tracks[i] = tracks[j] => i = j

BuffersMatch ==
  ~resized /\ pcm # Nil /\ buffer # 0 => format[pcm] # Nil /\ buffer = Size(format[pcm])

MixOK ==
  tick # Nil =>
    /\ \A id \in tick.left : playlist[id] # 0 /\ tick.mixed[id] = 0
    /\ \A id \in Ids \ tick.left :
         playlist[id] # 0 /\ id # tick.id => tick.mixed[id] = tick.room
    /\ tick.id # Nil =>
         /\ tick.id \notin tick.left
         /\ playlist[tick.id] # 0
         /\ crashed \/ Loaded(tick.id)
         /\ tick.mixed[tick.id] = tick.read
         /\ tick.read <= tick.room

AudioInv ==
  /\ PlayerTypeOK
  /\ OneId /\ BuffersMatch /\ MixOK
  /\ BufferFits /\ ExactPlays

LEMMA PlayerStarts == PlayerInit => AudioInv
<1>1. SUFFICES ASSUME PlayerInit PROVE AudioInv
  OBVIOUS
<1>2. PlayerTypeOK
  <2>1. position \in [Tracks -> Nat] /\ \A t \in Tracks : position[t] <= Length[t]
    BY <1>1, AudioAssumption DEF PlayerInit
  <2>2. tracks \in [Ids -> Tracks \cup {Nil, Null}] /\ playlist \in [Ids -> Nat \cup {-1}]
    BY <1>1 DEF PlayerInit
  <2>3. /\ pcm \in PCMs \cup {Nil} /\ buffer \in Nat
        /\ format \in [PCMs -> Formats \cup {Nil}]
    BY <1>1 DEF PlayerInit
  <2>4. due \in [Ids -> Int] /\ stopped \in SUBSET Ids
    BY <1>1 DEF PlayerInit
  <2>5. /\ tick \in Tick \cup {Nil}
        /\ crashed \in BOOLEAN /\ careless \in BOOLEAN /\ resized \in BOOLEAN
    BY <1>1 DEF PlayerInit
  <2>6. QED
    BY <2>1, <2>2, <2>3, <2>4, <2>5 DEF PlayerTypeOK
<1>3. OneId /\ ExactPlays
  <2>1. \A id \in Ids : tracks[id] \notin Tracks
    BY <1>1, AudioAssumption DEF PlayerInit
  <2>2. QED
    BY <2>1 DEF OneId, ExactPlays, Loaded
<1>4. BuffersMatch /\ MixOK /\ BufferFits
  BY <1>1 DEF PlayerInit, BuffersMatch, MixOK, BufferFits
<1>5. QED
  BY <1>2, <1>3, <1>4 DEF AudioInv

-----------------------------------------------------------------------------
(* The smaller of two numbers, and what is left of a track.                *)
LEMMA SmallerFacts ==
  ASSUME NEW a \in Int, NEW b \in Int
  PROVE  Min({a, b}) \in {a, b} /\ Min({a, b}) <= a /\ Min({a, b}) <= b
<1>1. \E x \in {a, b} : \A y \in {a, b} : x <= y
  <2>1. CASE a <= b
    BY <2>1
  <2>2. CASE b <= a
    BY <2>2
  <2>3. QED
    BY <2>1, <2>2
<1>2. QED
  BY <1>1 DEF Min

LEMMA RemainingFacts ==
  ASSUME NEW t \in Tracks, NEW n \in Nat \cup {-1}, NEW place \in Nat
  PROVE  /\ Length[t] \in Nat
         /\ Remaining(n, t, place) \in Int
         /\ n > 0 => Remaining(n, t, place) = n * Length[t] - place
         /\ n <= 0 => Remaining(n, t, place) = 0
<1>1. Length[t] \in Nat
  BY AudioAssumption
<1>2. n \in Int /\ n * Length[t] \in Int
  BY <1>1
<1>3. QED
  BY <1>1, <1>2 DEF Remaining

(* What a step does to one id and its track is of no account to the others.*)
LEMMA ExactStep ==
  ASSUME PlayerTypeOK, OneId, ExactPlays, NEW id \in Ids, Loaded(id),
         tracks' = tracks,
         \A j \in Ids : j # id => playlist'[j] = playlist[j] /\ due'[j] = due[j],
         \A t \in Tracks : t # tracks[id] => position'[t] = position[t],
         playlist'[id] >= 0 =>
           due'[id] = Remaining(playlist'[id], tracks[id], position'[tracks[id]])
  PROVE  OneId' /\ ExactPlays'
<1>1. OneId'
  BY DEF OneId
<1>2. SUFFICES ASSUME NEW j \in Ids, playlist'[j] >= 0, tracks[j] \in Tracks
               PROVE  due'[j] = Remaining(playlist'[j], tracks[j], position'[tracks[j]])
  BY <1>1 DEF ExactPlays, Loaded
<1>3. CASE j = id
  BY <1>2, <1>3
<1>4. CASE j # id
  <2>1. tracks[j] # tracks[id]
    BY <1>2, <1>4 DEF OneId
  <2>2. QED
    BY <1>2, <1>4, <2>1 DEF ExactPlays, Loaded
<1>5. QED
  BY <1>3, <1>4

-----------------------------------------------------------------------------
(* The calls of the game, between two ticks.                               *)
LEMMA CallKeeps ==
  ASSUME tick' = Nil, PlayerTypeOK', OneId', BuffersMatch', ExactPlays'
  PROVE  AudioInv'
BY DEF AudioInv, MixOK, BufferFits

LEMMA LoadTrackKeeps ==
  ASSUME AudioInv, NEW id \in Ids, NEW t \in Tracks, LoadTrack(id, t)
  PROVE  AudioInv'
<1> USE DEF AudioInv, PlayerTypeOK, devices
<1>1. /\ tracks' = [tracks EXCEPT ![id] = t] /\ tick' = Nil
      /\ \A other \in Ids : tracks[other] # t
      /\ due' = [due EXCEPT ![id] = Remaining(playlist[id], t, position[t])]
      /\ UNCHANGED <<playlist, position, stopped, careless, devices, crashed>>
  BY DEF LoadTrack, GameRuns
<1>2. Remaining(playlist[id], t, position[t]) \in Int
  BY RemainingFacts
<1>3. PlayerTypeOK'
  BY <1>1, <1>2
<1>4. \A j \in Ids : tracks'[j] = IF j = id THEN t ELSE tracks[j]
  BY <1>1
<1>5. OneId'
  BY <1>1, <1>4 DEF OneId
<1>6. ExactPlays'
  BY <1>1, <1>4 DEF ExactPlays, Loaded
<1>7. BuffersMatch'
  BY <1>1 DEF BuffersMatch
<1> HIDE DEF AudioInv, PlayerTypeOK, devices
<1>8. tick' = Nil
  BY <1>1
<1>9. QED
  BY ONLY <1>3, <1>5, <1>6, <1>7, <1>8, CallKeeps

LEMMA EjectKeeps ==
  ASSUME AudioInv, NEW id \in Ids, Eject(id)
  PROVE  AudioInv'
<1> USE DEF AudioInv, PlayerTypeOK, devices
<1>1. /\ tracks' = [tracks EXCEPT ![id] = Nil] /\ tick' = Nil
      /\ careless' \in BOOLEAN
      /\ UNCHANGED <<playlist, position, due, stopped, devices, crashed>>
  BY DEF Eject, GameRuns
<1>2. PlayerTypeOK'
  BY <1>1
<1>3. \A j \in Ids : tracks'[j] \in Tracks => j # id /\ tracks'[j] = tracks[j]
  BY <1>1, AudioAssumption
<1>4. OneId'
  BY <1>3 DEF OneId
<1>5. ExactPlays'
  BY <1>1, <1>3 DEF ExactPlays, Loaded
<1>6. BuffersMatch'
  BY <1>1 DEF BuffersMatch
<1>7. QED
  BY <1>1, <1>2, <1>4, <1>5, <1>6, CallKeeps

LEMMA PlayKeeps ==
  ASSUME AudioInv, NEW id \in Ids, NEW n \in Iterations, Play(id, n)
  PROVE  AudioInv'
<1> USE DEF AudioInv, PlayerTypeOK, devices
<1>1. /\ tick' = Nil /\ tracks' = tracks /\ n \in Nat \cup {-1}
      /\ playlist' = [playlist EXCEPT ![id] = n]
      /\ due' = [due EXCEPT ![id] = IF Loaded(id) THEN Remaining(n, tracks[id], 0) ELSE 0]
      /\ Loaded(id) => position' = [position EXCEPT ![tracks[id]] = 0]
      /\ ~Loaded(id) => position' = position
      /\ stopped' = stopped \ {id} /\ careless' \in BOOLEAN
      /\ UNCHANGED <<devices, crashed>>
  BY AudioAssumption DEF Play, GameRuns
<1>2. Loaded(id) => Remaining(n, tracks[id], 0) \in Int
  BY <1>1, RemainingFacts DEF Loaded
<1>3. /\ position' \in [Tracks -> Nat]
      /\ \A t \in Tracks : position'[t] <= Length[t]
  <2>1. CASE Loaded(id)
    <3>1. \A t \in Tracks : position'[t] = IF t = tracks[id] THEN 0 ELSE position[t]
      BY <1>1, <2>1
    <3>2. \A t \in Tracks : 0 <= Length[t]
      BY AudioAssumption
    <3>3. QED
      BY <1>1, <2>1, <3>1, <3>2
  <2>2. CASE ~Loaded(id)
    BY <1>1, <2>2
  <2>3. QED
    BY <2>1, <2>2
<1>4. PlayerTypeOK'
  BY <1>1, <1>2, <1>3
<1>5. OneId' /\ ExactPlays'
  <2>1. CASE Loaded(id)
    <3>1. /\ \A j \in Ids : j # id => playlist'[j] = playlist[j] /\ due'[j] = due[j]
          /\ \A t \in Tracks : t # tracks[id] => position'[t] = position[t]
          /\ playlist'[id] = n /\ due'[id] = Remaining(n, tracks[id], 0)
          /\ position'[tracks[id]] = 0
      BY <1>1, <2>1 DEF Loaded
    <3>2. QED
      BY <1>1, <2>1, <3>1, ExactStep
  <2>2. CASE ~Loaded(id)
    BY <1>1, <2>2 DEF OneId, ExactPlays, Loaded
  <2>3. QED
    BY <2>1, <2>2
<1>6. BuffersMatch'
  BY <1>1 DEF BuffersMatch
<1>7. QED
  BY <1>1, <1>4, <1>5, <1>6, CallKeeps

LEMMA StopKeeps ==
  ASSUME AudioInv, NEW id \in Ids, Stop(id)
  PROVE  AudioInv'
<1> USE DEF AudioInv, PlayerTypeOK, devices
<1>1. /\ tick' = Nil /\ playlist' = [playlist EXCEPT ![id] = 0]
      /\ due' = [due EXCEPT ![id] = 0] /\ stopped' = stopped \cup {id}
      /\ UNCHANGED <<tracks, position, careless, devices, crashed>>
  BY DEF Stop, GameRuns
<1>2. PlayerTypeOK'
  BY <1>1
<1>3. OneId' /\ BuffersMatch'
  BY <1>1 DEF OneId, BuffersMatch
<1>4. ExactPlays'
  <2>1. SUFFICES ASSUME NEW j \in Ids, playlist'[j] >= 0, tracks[j] \in Tracks
                 PROVE  due'[j] = Remaining(playlist'[j], tracks[j], position[tracks[j]])
    BY <1>1 DEF ExactPlays, Loaded
  <2>2. CASE j = id
    BY <1>1, <2>1, <2>2 DEF Remaining
  <2>3. CASE j # id
    BY <1>1, <2>1, <2>3 DEF ExactPlays, Loaded
  <2>4. QED
    BY <2>2, <2>3
<1>5. QED
  BY <1>1, <1>2, <1>3, <1>4, CallKeeps

LEMMA RewindKeeps ==
  ASSUME AudioInv, NEW id \in Ids, Rewind(id)
  PROVE  AudioInv'
<1> USE DEF AudioInv, PlayerTypeOK, devices
<1> DEFINE t == tracks[id]
           n == playlist[id]
<1>1. /\ tick' = Nil /\ Loaded(id) /\ t \in Tracks
      /\ n \in Nat \cup {-1} /\ due[id] \in Int /\ position[t] \in Nat
      /\ position' = [position EXCEPT ![t] = 0]
      /\ due' = [due EXCEPT ![id] = IF n > 0 THEN @ + position[t] ELSE @]
      /\ UNCHANGED <<tracks, playlist, stopped, careless, devices, crashed>>
  BY DEF Rewind, GameRuns, Loaded
<1>2. PlayerTypeOK'
  <2>1. due' \in [Ids -> Int]
    BY <1>1
  <2>2. position' \in [Tracks -> Nat] /\ \A u \in Tracks : position'[u] <= Length[u]
    <3>1. \A u \in Tracks : 0 <= Length[u]
      BY AudioAssumption
    <3>2. \A u \in Tracks : position'[u] = IF u = t THEN 0 ELSE position[u]
      BY <1>1
    <3>3. QED
      BY <1>1, <3>1, <3>2
  <2>3. QED
    BY <1>1, <2>1, <2>2
<1>3. OneId' /\ ExactPlays'
  <2>1. n >= 0 => due'[id] = Remaining(n, t, 0)
    <3>1. SUFFICES ASSUME n >= 0 PROVE due'[id] = Remaining(n, t, 0)
      OBVIOUS
    <3>2. due[id] = Remaining(n, t, position[t])
      BY <1>1, <3>1 DEF ExactPlays
    <3>3. due'[id] = IF n > 0 THEN due[id] + position[t] ELSE due[id]
      BY <1>1
    <3> HIDE DEF n, t
    <3>4. Length[t] \in Nat /\ n * Length[t] \in Int
      <4>1. Length[t] \in Nat /\ n \in Nat
        BY <1>1, <3>1, RemainingFacts
      <4>2. QED
        BY ONLY <4>1
    <3>5. QED
      BY <1>1, <3>1, <3>2, <3>3, <3>4 DEF Remaining
  <2>2. /\ \A j \in Ids : j # id => playlist'[j] = playlist[j] /\ due'[j] = due[j]
        /\ \A u \in Tracks : u # t => position'[u] = position[u]
        /\ position'[t] = 0 /\ playlist'[id] = n
    BY <1>1
  <2>3. QED
    BY <1>1, <2>1, <2>2, ExactStep
<1>4. BuffersMatch'
  BY <1>1 DEF BuffersMatch
<1>5. QED
  BY <1>1, <1>2, <1>3, <1>4, CallKeeps

LEMMA SizeFacts ==
  ASSUME NEW f \in Formats
  PROVE  /\ f.max \in Nat /\ f.frame \in Nat /\ Size(f) \in Nat
         /\ \A n \in Nat : n <= f.max => n * f.frame \in Nat /\ n * f.frame <= Size(f)
<1>1. f.max \in Nat /\ f.frame \in Nat
  BY AudioAssumption
<1>2. ASSUME NEW n \in Nat, NEW m \in Nat, NEW k \in Nat, n <= m
      PROVE  n * k \in Nat /\ n * k <= m * k
  BY <1>2
<1>3. QED
  BY <1>1, <1>2 DEF Size

LEMMA SetPCMKeeps ==
  ASSUME AudioInv, NEW p \in PCMs \cup {Nil}, SetPCM(p)
  PROVE  AudioInv'
<1>1. /\ tick' = Nil /\ pcm' = p /\ resized' = FALSE
      /\ buffer' = IF p = Nil \/ format[p] = Nil THEN 0 ELSE Size(format[p])
      /\ UNCHANGED <<format, tracks, playlist, position, due, stopped, careless, crashed>>
  BY DEF SetPCM, GameRuns, clients
<1>2. p # Nil => p \in PCMs /\ (format[p] # Nil => format[p] \in Formats)
  BY DEF AudioInv, PlayerTypeOK
<1>3. buffer' \in Nat
  BY <1>1, <1>2, SizeFacts
<1>4. PlayerTypeOK'
  BY <1>1, <1>3 DEF AudioInv, PlayerTypeOK
<1>5. OneId' /\ ExactPlays'
  BY <1>1 DEF AudioInv, OneId, ExactPlays, Loaded
<1>6. BuffersMatch'
  BY <1>1 DEF BuffersMatch
<1>7. QED
  BY <1>1, <1>4, <1>5, <1>6, CallKeeps

LEMMA ReopenKeeps ==
  ASSUME AudioInv, NEW p \in PCMs, NEW f \in Formats \cup {Nil}, Reopen(p, f)
  PROVE  AudioInv'
<1>1. /\ tick' = Nil /\ format' = [format EXCEPT ![p] = f]
      /\ resized' = (resized \/ (p = pcm /\ buffer # 0))
      /\ UNCHANGED <<pcm, buffer, tracks, playlist, position, due, stopped, careless, crashed>>
  BY DEF Reopen, GameRuns, clients
<1>2. PlayerTypeOK'
  <2>1. format' \in [PCMs -> Formats \cup {Nil}]
    BY <1>1 DEF AudioInv, PlayerTypeOK
  <2>2. resized' \in BOOLEAN
    BY <1>1 DEF AudioInv, PlayerTypeOK
  <2>3. QED
    BY <1>1, <2>1, <2>2 DEF AudioInv, PlayerTypeOK
<1>3. OneId' /\ ExactPlays'
  BY <1>1 DEF AudioInv, OneId, ExactPlays, Loaded
<1>4. BuffersMatch'
  <2>1. SUFFICES ASSUME ~resized', pcm # Nil, buffer # 0
                 PROVE  format'[pcm] # Nil /\ buffer = Size(format'[pcm])
    BY <1>1 DEF BuffersMatch
  <2>2. ~resized /\ p # pcm
    BY <1>1, <2>1
  <2>3. format'[pcm] = format[pcm]
    BY <1>1, <2>1, <2>2 DEF AudioInv, PlayerTypeOK
  <2>4. QED
    BY <2>1, <2>2, <2>3 DEF AudioInv, BuffersMatch
<1>5. QED
  BY <1>1, <1>2, <1>3, <1>4, CallKeeps

LEMMA GameCallsKeep ==
  ASSUME AudioInv, GameCalls
  PROVE  AudioInv'
<1>1. ASSUME NEW id \in Ids, NEW t \in Tracks, LoadTrack(id, t) PROVE AudioInv'
  BY <1>1, LoadTrackKeeps
<1>2. ASSUME NEW id \in Ids, Eject(id) \/ Stop(id) \/ Rewind(id) PROVE AudioInv'
  BY <1>2, EjectKeeps, StopKeeps, RewindKeeps
<1>3. ASSUME NEW id \in Ids, NEW n \in Iterations, Play(id, n) PROVE AudioInv'
  BY <1>3, PlayKeeps
<1>4. ASSUME NEW p \in PCMs \cup {Nil}, SetPCM(p) PROVE AudioInv'
  BY <1>4, SetPCMKeeps
<1>5. ASSUME NEW p \in PCMs, NEW f \in Formats \cup {Nil}, Reopen(p, f) PROVE AudioInv'
  BY <1>5, ReopenKeeps
<1>6. QED
  BY <1>1, <1>2, <1>3, <1>4, <1>5 DEF GameCalls

-----------------------------------------------------------------------------
(* The tick: it begins, ...                                                *)
LEMMA BeginKeeps ==
  ASSUME AudioInv, NEW frames \in Nat, TickBegin(frames)
  PROVE  AudioInv'
<1> DEFINE f == format[pcm]
           left == {id \in Ids : playlist[id] # 0}
           new == [room |-> frames * f.frame, left |-> left, id |-> Nil, read |-> 0,
                   mixed |-> [id \in Ids |-> 0]]
<1>1. /\ f \in Formats /\ frames <= f.max
      /\ buffer' = IF buffer = 0 THEN Size(f) ELSE buffer
      /\ tick' = IF frames = 0 THEN Nil ELSE new
      /\ pcm # Nil
      /\ UNCHANGED <<tracks, playlist, position, due, stopped, careless,
                      pcm, format, resized, crashed>>
  BY DEF TickBegin, clients, AudioInv, PlayerTypeOK
<1>2. /\ Size(f) \in Nat /\ frames * f.frame \in Nat
      /\ frames * f.frame <= Size(f)
  <2> HIDE DEF f
  <2>1. QED
    BY <1>1, SizeFacts
<1> HIDE DEF f
<1>3. new \in Tick
  <2>1. left \in SUBSET Ids /\ [id \in Ids |-> 0] \in [Ids -> Nat]
    OBVIOUS
  <2> HIDE DEF left
  <2>2. QED
    BY <1>2, <2>1 DEF Tick
<1>4. PlayerTypeOK'
  <2>1. buffer' \in Nat /\ tick' \in Tick \cup {Nil}
    BY <1>1, <1>2, <1>3 DEF AudioInv, PlayerTypeOK
  <2> HIDE DEF new
  <2>2. QED
    BY <1>1, <2>1 DEF AudioInv, PlayerTypeOK
<1>5. OneId' /\ ExactPlays'
  <2> HIDE DEF new
  <2>1. QED
    BY <1>1 DEF AudioInv, OneId, ExactPlays, Loaded
<1>6. BuffersMatch'
  <2> HIDE DEF new
  <2>1. f # Nil
    BY <1>1, AudioAssumption
  <2>2. QED
    BY <1>1, <2>1 DEF f, AudioInv, BuffersMatch
<1>7. MixOK'
  BY <1>1 DEF MixOK
<1>8. BufferFits'
  <2>1. SUFFICES ASSUME tick' # Nil, ~resized PROVE frames * f.frame <= buffer'
    BY <1>1 DEF BufferFits
  <2>2. buffer' = Size(f)
    BY <1>1, <2>1 DEF f, AudioInv, BuffersMatch
  <2>3. QED
    BY <1>2, <2>2
<1>9. QED
  BY <1>4, <1>5, <1>6, <1>7, <1>8 DEF AudioInv

(* ... comes to an id, ...                                                 *)
LEMMA NextKeeps ==
  ASSUME AudioInv, NEW id \in Ids, TickNext(id)
  PROVE  AudioInv'
<1>1. /\ tick # Nil /\ tick.id = Nil /\ id \in tick.left
      /\ tick' = [tick EXCEPT !.id = id, !.left = @ \ {id}, !.read = 0]
      /\ tracks' = IF tracks[id] = Nil THEN [tracks EXCEPT ![id] = Null] ELSE tracks
      /\ crashed' = ~Loaded(id)
      /\ UNCHANGED <<playlist, position, due, stopped, careless,
                      pcm, buffer, format, resized>>
  BY DEF TickNext, devices
<1>2. tick \in Tick
  BY <1>1 DEF AudioInv, PlayerTypeOK
<1>3. /\ tick' \in Tick /\ tick' # Nil
      /\ tick'.id = id /\ tick'.left = tick.left \ {id} /\ tick'.read = 0
      /\ tick'.room = tick.room /\ tick'.mixed = tick.mixed /\ tick.room \in Nat
  <2>1. /\ tick'.id = id /\ tick'.left = tick.left \ {id} /\ tick'.read = 0
        /\ tick'.room = tick.room /\ tick'.mixed = tick.mixed /\ tick.room \in Nat
    BY <1>1, <1>2 DEF Tick
  <2>2. tick' \in Tick
    BY <1>1, <1>2 DEF Tick
  <2>3. QED
    BY <2>1, <2>2, TickAssumption
<1>4. \A j \in Ids : (tracks'[j] \in Tracks <=> tracks[j] \in Tracks)
                      /\ (tracks[j] \in Tracks => tracks'[j] = tracks[j])
  BY <1>1, AudioAssumption DEF AudioInv, PlayerTypeOK
<1>5. PlayerTypeOK'
  <2>1. tracks' \in [Ids -> Tracks \cup {Nil, Null}]
    BY <1>1 DEF AudioInv, PlayerTypeOK
  <2>2. tick' \in Tick \cup {Nil} /\ crashed' \in BOOLEAN
    BY <1>1, <1>3
  <2>3. QED
    BY <1>1, <2>1, <2>2 DEF AudioInv, PlayerTypeOK
<1>6. OneId' /\ ExactPlays'
  BY <1>1, <1>4 DEF AudioInv, OneId, ExactPlays, Loaded
<1>7. BuffersMatch' /\ BufferFits'
  BY <1>1, <1>3 DEF AudioInv, BuffersMatch, BufferFits
<1>8. MixOK'
  <2>1. /\ \A j \in tick.left : playlist[j] # 0 /\ tick.mixed[j] = 0
        /\ \A j \in Ids \ tick.left : playlist[j] # 0 => tick.mixed[j] = tick.room
    <3>1. \A j \in Ids : j # Nil
      BY AudioAssumption
    <3>2. QED
      BY <1>1, <3>1 DEF AudioInv, MixOK
  <2>2. crashed' \/ tracks'[id] \in Tracks
    BY <1>1, <1>4 DEF Loaded
  <2>3. QED
    BY <1>1, <1>3, <2>1, <2>2 DEF MixOK, Loaded
<1>9. QED
  BY <1>5, <1>6, <1>7, <1>8 DEF AudioInv

(* ... reads its track: within the room and the track, and to the end of   *)
(* the one or the other.  The tick goes on at the id it is at or at none.  *)
LEMMA ReadFacts ==
  ASSUME AudioInv, Reading
  PROVE  /\ tick \in Tick /\ tick # Nil /\ tick.id \in Ids
         /\ Loaded(tick.id) /\ tracks[tick.id] \in Tracks
         /\ Read \in Nat
         /\ tick.read + Read <= tick.room
         /\ position[tracks[tick.id]] + Read <= Length[tracks[tick.id]]
         /\ tick.read + Read < tick.room =>
              position[tracks[tick.id]] + Read = Length[tracks[tick.id]]
<1>1. tick \in Tick /\ tick # Nil /\ tick.id # Nil /\ ~crashed
  BY DEF Reading, AudioInv, PlayerTypeOK
<1>2. /\ tick.id \in Ids /\ Loaded(tick.id) /\ tick.read <= tick.room
      /\ tick.read \in Nat /\ tick.room \in Nat
  BY <1>1 DEF AudioInv, MixOK, Tick
<1>3. tracks[tick.id] \in Tracks
  BY <1>2 DEF Loaded
<1> DEFINE a == tick.room - tick.read
           b == Length[tracks[tick.id]] - position[tracks[tick.id]]
<1>4. /\ Length[tracks[tick.id]] \in Nat /\ position[tracks[tick.id]] \in Nat
      /\ position[tracks[tick.id]] <= Length[tracks[tick.id]]
  BY <1>3, AudioAssumption DEF AudioInv, PlayerTypeOK
<1>5. a \in Nat /\ b \in Nat
  BY <1>2, <1>4
<1>6. Read \in {a, b} /\ Read <= a /\ Read <= b
  <2>1. Read = Min({a, b})
    BY DEF Read
  <2> HIDE DEF a, b
  <2>2. QED
    BY <1>5, <2>1, SmallerFacts
<1>7. QED
  BY <1>1, <1>2, <1>3, <1>4, <1>5, <1>6

LEMMA MixedFacts ==
  ASSUME AudioInv, Reading, NEW id \in {tick.id, Nil}, tick' = Mixed(id)
  PROVE  /\ tick' \in Tick /\ tick' # Nil
         /\ tick'.id = id /\ tick'.left = tick.left /\ tick'.room = tick.room
         /\ tick'.read = tick.read + Read /\ tick.read \in Nat /\ tick.room \in Nat
         /\ \A j \in Ids \ {tick.id} : tick'.mixed[j] = tick.mixed[j]
         /\ tick'.mixed[tick.id] = tick'.read
<1> DEFINE amount == Read
<1>1. tick \in Tick /\ tick.id \in Ids /\ amount \in Nat
  BY ReadFacts
<1>2. tick' = [tick EXCEPT !.id = id, !.read = @ + amount, !.mixed[tick.id] = @ + amount]
  BY DEF Mixed
<1> HIDE DEF amount
<1>3. /\ tick'.id = id /\ tick'.left = tick.left /\ tick'.room = tick.room
      /\ tick'.read = tick.read + amount /\ tick.read \in Nat /\ tick.room \in Nat
      /\ tick'.mixed = [tick.mixed EXCEPT ![tick.id] = @ + amount]
      /\ tick.mixed \in [Ids -> Nat]
  BY <1>1, <1>2 DEF Tick
<1>4. tick' \in Tick
  <2>1. tick'.read \in Nat /\ tick'.mixed \in [Ids -> Nat] /\ id \in Ids \cup {Nil}
    BY <1>1, <1>3
  <2>2. QED
    BY <1>1, <1>2, <2>1 DEF Tick
<1>5. tick.mixed[tick.id] = tick.read
  BY DEF Reading, AudioInv, MixOK
<1>6. QED
  BY <1>1, <1>3, <1>4, <1>5, TickAssumption DEF amount

(* What a read leaves to be played of its id.                              *)
LEMMA OwedFacts ==
  ASSUME AudioInv, Reading, due' = Owed
  PROVE  /\ due' \in [Ids -> Int]
         /\ \A j \in Ids : j # tick.id => due'[j] = due[j]
         /\ playlist[tick.id] > 0 => due'[tick.id] = due[tick.id] - Read
         /\ playlist[tick.id] <= 0 => due'[tick.id] = due[tick.id]
<1>1. /\ tick.id \in Ids /\ Read \in Nat /\ due \in [Ids -> Int]
      /\ playlist[tick.id] \in Nat \cup {-1}
  BY ReadFacts DEF AudioInv, PlayerTypeOK
<1>2. due' = IF playlist[tick.id] > 0
             THEN [due EXCEPT ![tick.id] = due[tick.id] - Read] ELSE due
  BY DEF Owed
<1>3. CASE playlist[tick.id] > 0
  BY <1>1, <1>2, <1>3
<1>4. CASE ~(playlist[tick.id] > 0)
  BY <1>1, <1>2, <1>4
<1>5. QED
  BY <1>1, <1>3, <1>4

LEMMA ReadFullKeeps ==
  ASSUME AudioInv, ReadFull
  PROVE  AudioInv'
<1> DEFINE id == tick.id
           t == tracks[id]
           n == playlist[id]
           amount == Read
<1>1. /\ Reading /\ tick.read + amount = tick.room
      /\ tick' = Mixed(Nil) /\ due' = Owed
      /\ position' = [position EXCEPT ![t] = position[t] + amount]
      /\ UNCHANGED <<tracks, playlist, stopped, careless,
                      pcm, buffer, format, resized, crashed>>
  BY DEF ReadFull, devices
<1>2. /\ tick \in Tick /\ tick # Nil /\ id \in Ids
      /\ Loaded(id) /\ t \in Tracks /\ amount \in Nat
      /\ position[t] + amount <= Length[t]
  BY <1>1, ReadFacts
<1>3. /\ tick' \in Tick /\ tick' # Nil
      /\ tick'.id = Nil /\ tick'.left = tick.left /\ tick'.room = tick.room
      /\ \A j \in Ids \ {id} : tick'.mixed[j] = tick.mixed[j]
      /\ tick'.mixed[id] = tick.room
  BY <1>1, MixedFacts
<1>4. /\ due' \in [Ids -> Int]
      /\ \A j \in Ids : j # id => due'[j] = due[j]
      /\ n > 0 => due'[id] = due[id] - amount
      /\ n <= 0 => due'[id] = due[id]
  BY <1>1, OwedFacts
<1>5. /\ position \in [Tracks -> Nat] /\ position[t] \in Nat
      /\ n \in Nat \cup {-1} /\ due[id] \in Int
      /\ \A u \in Tracks : position[u] <= Length[u]
  BY <1>2 DEF AudioInv, PlayerTypeOK
<1>6. n >= 0 => due[id] = Remaining(n, t, position[t])
  BY <1>2 DEF AudioInv, ExactPlays
<1> HIDE DEF amount, t, n
<1>7. /\ position' \in [Tracks -> Nat]
      /\ position'[t] = position[t] + amount
      /\ \A u \in Tracks : u # t => position'[u] = position[u]
  BY <1>1, <1>2, <1>5
<1>8. \A u \in Tracks : position'[u] <= Length[u]
  BY <1>2, <1>5, <1>7
<1>9. PlayerTypeOK'
  BY <1>1, <1>3, <1>4, <1>7, <1>8 DEF AudioInv, PlayerTypeOK
<1>10. n >= 0 => due'[id] = Remaining(n, t, position'[t])
  <2>1. Length[t] \in Nat /\ n \in Int
    BY <1>2, <1>5, RemainingFacts
  <2>2. n * Length[t] \in Int
    BY <2>1
  <2>3. QED
    BY <1>2, <1>4, <1>5, <1>6, <1>7, <2>2 DEF Remaining
<1>11. OneId' /\ ExactPlays'
  BY <1>1, <1>2, <1>4, <1>7, <1>10, ExactStep DEF t, n, AudioInv
<1>12. BuffersMatch' /\ BufferFits'
  BY <1>1, <1>2, <1>3 DEF AudioInv, BuffersMatch, BufferFits
<1>13. MixOK'
  <2>1. /\ \A j \in tick.left : playlist[j] # 0 /\ tick.mixed[j] = 0
        /\ \A j \in Ids \ tick.left :
             playlist[j] # 0 /\ j # id => tick.mixed[j] = tick.room
        /\ id \notin tick.left /\ tick.left \subseteq Ids
    BY <1>1, <1>2 DEF AudioInv, MixOK, Reading, Tick
  <2>2. QED
    BY <1>1, <1>2, <1>3, <2>1 DEF MixOK
<1>14. QED
  BY <1>9, <1>11, <1>12, <1>13 DEF AudioInv

(* A track that has ended: it is rewound and has an iteration less, and    *)
(* the tick goes on with it if that leaves it any.                         *)
LEMMA EndKeeps ==
  ASSUME AudioInv, Short,
         NEW next \in {tick.id, Nil}, NEW m \in Nat \cup {-1},
         \/ playlist[tick.id] = -1 /\ m = -1
         \/ playlist[tick.id] > 0 /\ m = playlist[tick.id] - 1,
         next = IF m = 0 THEN Nil ELSE tick.id,
         tick' = Mixed(next), due' = Owed,
         position' = [position EXCEPT ![tracks[tick.id]] = 0],
         playlist' = [playlist EXCEPT ![tick.id] = m],
         stopped' \in SUBSET Ids,
         UNCHANGED <<tracks, careless, devices, crashed>>
  PROVE  AudioInv'
<1> DEFINE id == tick.id
           t == tracks[id]
           n == playlist[id]
           amount == Read
<1>1. /\ Reading /\ tick.read + amount < tick.room
      /\ position' = [position EXCEPT ![t] = 0]
      /\ playlist' = [playlist EXCEPT ![id] = m]
      /\ UNCHANGED <<tracks, careless, pcm, buffer, format, resized, crashed>>
      /\ (n = -1 /\ m = -1) \/ (n > 0 /\ m = n - 1)
      /\ next = IF m = 0 THEN Nil ELSE id
  BY DEF Short, devices
<1>2. /\ tick \in Tick /\ tick # Nil /\ id \in Ids
      /\ Loaded(id) /\ t \in Tracks /\ amount \in Nat
      /\ tick.read + amount <= tick.room
      /\ position[t] + amount = Length[t]
  BY <1>1, ReadFacts
<1>3. /\ tick' \in Tick /\ tick' # Nil
      /\ tick'.id = next /\ tick'.left = tick.left /\ tick'.room = tick.room
      /\ tick'.read = tick.read + amount
      /\ \A j \in Ids \ {id} : tick'.mixed[j] = tick.mixed[j]
      /\ tick'.mixed[id] = tick'.read
  BY <1>1, MixedFacts
<1>4. /\ due' \in [Ids -> Int]
      /\ \A j \in Ids : j # id => due'[j] = due[j]
      /\ n > 0 => due'[id] = due[id] - amount
      /\ n <= 0 => due'[id] = due[id]
  BY <1>1, OwedFacts
<1>5. /\ position \in [Tracks -> Nat] /\ position[t] \in Nat
      /\ playlist \in [Ids -> Nat \cup {-1}] /\ n \in Nat \cup {-1} /\ due[id] \in Int
      /\ \A u \in Tracks : position[u] <= Length[u]
  BY <1>2 DEF AudioInv, PlayerTypeOK
<1>6. n >= 0 => due[id] = Remaining(n, t, position[t])
  BY <1>2 DEF AudioInv, ExactPlays
<1>7. \A u \in Tracks : Length[u] \in Nat
  BY AudioAssumption
<1> HIDE DEF amount, t, n
<1>8. /\ position' \in [Tracks -> Nat]
      /\ position'[t] = 0
      /\ \A u \in Tracks : u # t => position'[u] = position[u]
  <2>1. /\ position' = [position EXCEPT ![t] = 0]
        /\ position \in [Tracks -> Nat] /\ t \in Tracks
    BY <1>1, <1>2, <1>5
  <2>2. QED
    BY ONLY <2>1
<1>9. \A u \in Tracks : position'[u] <= Length[u]
  BY <1>5, <1>7, <1>8
<1>10. /\ playlist' \in [Ids -> Nat \cup {-1}]
       /\ playlist'[id] = m
       /\ \A j \in Ids : j # id => playlist'[j] = playlist[j]
  BY <1>1, <1>2, <1>5
<1>11. PlayerTypeOK'
  BY <1>1, <1>3, <1>4, <1>8, <1>9, <1>10 DEF AudioInv, PlayerTypeOK
<1>12. m >= 0 => due'[id] = Remaining(m, t, 0)
  <2>1. SUFFICES ASSUME m >= 0 PROVE due'[id] = Remaining(m, t, 0)
    OBVIOUS
  <2>2. n \in Nat /\ n > 0 /\ m = n - 1 /\ Length[t] \in Nat
    BY <1>1, <1>2, <1>5, <1>7, <2>1
  <2>3. due'[id] = n * Length[t] - position[t] - amount
    BY <1>4, <1>6, <2>2 DEF Remaining
  <2>4. n * Length[t] \in Int /\ m * Length[t] = n * Length[t] - Length[t]
    BY ONLY <2>2
  <2>5. due'[id] = m * Length[t]
    BY <1>2, <1>5, <2>2, <2>3, <2>4
  <2>6. m = 0 => m * Length[t] = 0
    BY <2>2
  <2>7. QED
    BY <2>2, <2>5, <2>6 DEF Remaining
<1>13. OneId' /\ ExactPlays'
  <2>1. playlist'[id] >= 0 => due'[id] = Remaining(playlist'[id], t, position'[t])
    BY <1>8, <1>10, <1>12
  <2>2. QED
    BY <1>1, <1>2, <1>4, <1>8, <1>10, <2>1, ExactStep DEF t, AudioInv
<1>14. BuffersMatch' /\ BufferFits'
  BY <1>1, <1>2, <1>3 DEF AudioInv, BuffersMatch, BufferFits
<1>15. MixOK'
  <2>1. /\ \A j \in tick.left : playlist[j] # 0 /\ tick.mixed[j] = 0
        /\ \A j \in Ids \ tick.left :
             playlist[j] # 0 /\ j # id => tick.mixed[j] = tick.room
        /\ id \notin tick.left /\ tick.left \subseteq Ids /\ id # Nil
    BY <1>1, <1>2 DEF AudioInv, MixOK, Reading, Tick
  <2>2. \A j \in tick'.left : playlist'[j] # 0 /\ tick'.mixed[j] = 0
    BY <1>3, <1>10, <2>1
  <2>3. \A j \in Ids \ tick'.left :
          playlist'[j] # 0 /\ j # tick'.id => tick'.mixed[j] = tick'.room
    BY <1>1, <1>3, <1>10, <2>1
  <2>4. tick'.id # Nil => /\ tick'.id = id /\ tick'.id \notin tick'.left
                          /\ playlist'[id] # 0 /\ tracks'[id] \in Tracks
                          /\ tick'.mixed[id] = tick'.read
                          /\ tick'.read <= tick'.room
    BY <1>1, <1>2, <1>3, <1>10, <2>1 DEF t
  <2>5. QED
    BY <2>2, <2>3, <2>4 DEF MixOK, Loaded
<1>16. QED
  BY <1>11, <1>13, <1>14, <1>15 DEF AudioInv

LEMMA ReadAgainKeeps ==
  ASSUME AudioInv, ReadAgain
  PROVE  AudioInv'
<1> DEFINE n == playlist[tick.id]
           m == IF n = -1 THEN -1 ELSE n - 1
<1>1. /\ Short /\ n # 1 /\ tick' = Mixed(tick.id) /\ due' = Owed
      /\ position' = [position EXCEPT ![tracks[tick.id]] = 0]
      /\ playlist' = [playlist EXCEPT ![tick.id] = m]
      /\ UNCHANGED <<tracks, stopped, careless, devices, crashed>>
  BY DEF ReadAgain
<1>2. /\ Reading /\ tick.id \in Ids /\ n # 0 /\ n \in Nat \cup {-1}
      /\ stopped' \in SUBSET Ids
  <2>1. Reading /\ tick.id \in Ids
    BY <1>1, ReadFacts DEF Short
  <2>2. QED
    BY <1>1, <2>1 DEF Reading, AudioInv, PlayerTypeOK, MixOK
<1>3. /\ m \in Nat \cup {-1} /\ m # 0
      /\ (n = -1 /\ m = -1) \/ (n > 0 /\ m = n - 1)
  BY <1>1, <1>2
<1> HIDE DEF m
<1>4. QED
  BY <1>1, <1>2, <1>3, EndKeeps

LEMMA ReadLastKeeps ==
  ASSUME AudioInv, ReadLast
  PROVE  AudioInv'
<1>1. /\ Short /\ playlist[tick.id] = 1 /\ tick' = Mixed(Nil) /\ due' = Owed
      /\ position' = [position EXCEPT ![tracks[tick.id]] = 0]
      /\ playlist' = [playlist EXCEPT ![tick.id] = 0]
      /\ stopped' = stopped \cup {tick.id}
      /\ UNCHANGED <<tracks, careless, devices, crashed>>
  BY DEF ReadLast
<1>2. stopped' \in SUBSET Ids
  BY <1>1, ReadFacts DEF Short, AudioInv, PlayerTypeOK
<1>3. playlist[tick.id] > 0 /\ 0 = playlist[tick.id] - 1
  BY <1>1
<1>4. QED
  BY <1>1, <1>2, <1>3, EndKeeps

LEMMA WriteKeeps ==
  ASSUME AudioInv, TickWrite
  PROVE  AudioInv'
<1>1. /\ tick' = Nil
      /\ UNCHANGED <<tracks, playlist, position, due, stopped, careless,
                      pcm, buffer, format, resized, crashed>>
  BY DEF TickWrite, clients, devices
<1>2. PlayerTypeOK'
  BY <1>1 DEF AudioInv, PlayerTypeOK
<1>3. OneId' /\ BuffersMatch' /\ ExactPlays'
  BY <1>1 DEF AudioInv, OneId, BuffersMatch, ExactPlays, Loaded
<1>4. QED
  BY <1>1, <1>2, <1>3, CallKeeps

LEMMA PlayerStep == AudioInv /\ [PlayerNext]_player => AudioInv'
<1>1. SUFFICES ASSUME AudioInv, [PlayerNext]_player PROVE AudioInv'
  OBVIOUS
<1>2. CASE GameCalls
  BY <1>1, <1>2, GameCallsKeep
<1>3. CASE Ticking
  <2>1. ASSUME NEW id \in Ids, TickNext(id) PROVE AudioInv'
    BY <1>1, <2>1, NextKeeps
  <2>2. CASE ReadFull
    BY <1>1, <2>2, ReadFullKeeps
  <2>3. CASE ReadAgain
    BY <1>1, <2>3, ReadAgainKeeps
  <2>4. CASE ReadLast
    BY <1>1, <2>4, ReadLastKeeps
  <2>5. CASE TickWrite
    BY <1>1, <2>5, WriteKeeps
  <2>6. QED
    BY <1>3, <2>1, <2>2, <2>3, <2>4, <2>5 DEF Ticking
<1>4. ASSUME NEW f \in Formats, NEW frames \in 0..f.max, TickBegin(frames) PROVE AudioInv'
  <2>1. frames \in Nat
    BY SizeFacts
  <2>2. QED
    BY <1>1, <1>4, <2>1, BeginKeeps
<1>5. CASE UNCHANGED player
  <2>1. UNCHANGED <<tracks, playlist, position, due, stopped, careless,
                    pcm, buffer, format, resized, tick, crashed>>
    BY <1>5 DEF player, clients, devices
  <2>2. PlayerTypeOK'
    BY <1>1, <2>1 DEF AudioInv, PlayerTypeOK
  <2>3. OneId' /\ BuffersMatch' /\ ExactPlays' /\ BufferFits'
    BY <1>1, <2>1 DEF AudioInv, OneId, BuffersMatch, ExactPlays, BufferFits, Loaded
  <2>4. MixOK'
    BY <1>1, <2>1 DEF AudioInv, MixOK, Loaded
  <2>5. QED
    BY <2>2, <2>3, <2>4 DEF AudioInv
<1>6. QED
  BY <1>1, <1>2, <1>3, <1>4, <1>5 DEF PlayerNext

LEMMA PlayerSound == PlayerSpec => []AudioInv
BY PlayerStarts, PlayerStep, PTL DEF PlayerSpec

(* The playlist, the positions, the buffers and the tick keep their types: *)
(* no track is read beyond its end.                                        *)
THEOREM PlayerTypeCorrect == PlayerSpec => []PlayerTypeOK
<1>1. AudioInv => PlayerTypeOK
  BY DEF AudioInv
<1>2. QED
  BY <1>1, PlayerSound, PTL

(* tick() stays within buffer and mix, whatever devices the player is      *)
(* given, unless one is opened again while the player has buffers for it.  *)
THEOREM BuffersFit == PlayerSpec => []BufferFits
<1>1. AudioInv => BufferFits
  BY DEF AudioInv
<1>2. QED
  BY <1>1, PlayerSound, PTL

(* n iterations are n whole passes of the track, over all the ticks they   *)
(* take and whatever the game calls between them.                          *)
THEOREM PlaysAreExact == PlayerSpec => []ExactPlays
<1>1. AudioInv => ExactPlays
  BY DEF AudioInv
<1>2. QED
  BY <1>1, PlayerSound, PTL

(* A tick fills the room from every track on the playlist that does not    *)
(* stop for good, however often the track ends within it.                  *)
THEOREM RoomIsFilled == PlayerSpec => []RoomFilled
<1>1. AudioInv => RoomFilled
  <2>1. SUFFICES ASSUME AudioInv, TickLoopEnds, NEW id \in Ids, playlist[id] # 0
                 PROVE  tick.mixed[id] = tick.room
    BY DEF RoomFilled
  <2>2. id # Nil
    BY AudioAssumption
  <2>3. QED
    BY <2>1, <2>2 DEF TickLoopEnds, AudioInv, MixOK
<1>2. QED
  BY <1>1, PlayerSound, PTL
=============================================================================
