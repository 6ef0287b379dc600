------------------------------- MODULE GLData -------------------------------
(***************************************************************************)
(* The painter and the data it draws: textures (TextureData), each of a    *)
(* file of its own, and buffers (VertexData and TextureCoordinateData),    *)
(* each with the name GL gave it and the painter's session it is from.     *)
(* Names mean nothing once the context is gone, and a new context gives    *)
(* the same names again.                                                   *)
(***************************************************************************)
EXTENDS Integers

CONSTANTS
  Textures, Buffers,         (* the data                                   *)
  TextureNames, BufferNames, (* what GL numbers them by                    *)
  None,
  MaxSession                 (* bound: how many contexts there will be     *)

Data  == Textures \cup Buffers
Names == TextureNames \cup BufferNames

ASSUME DataAssumption ==
  /\ Textures \cap Buffers = {}
  /\ TextureNames \cap BufferNames = {}
  /\ None \notin Data \cup Names
  /\ MaxSession \in Nat

VARIABLES
  session_id,
  painting,          (* the painter is initialized: there is a context     *)
  last_texture_id,
  bound,             (* the texture GL has bound                           *)
  owner,             (* what each name is in the context, or None          *)
  name,              (* m_texture_id, m_buffer_id                          *)
  session,           (* m_session_id                                       *)
  loaded,            (* the textures with an id: those ever loaded         *)
  elsewhere,         (* ghost: a load has bound another texture since the  *)
                     (* painter did                                        *)
  hit                (* ghost: a name of an earlier context was used to    *)
                     (* free or change what another data has by it         *)

assets == <<name, session, loaded>>
painter == <<session_id, painting, last_texture_id>>
data == <<painter, bound, owner, assets, elsewhere, hit>>

NamesOf(d) == IF d \in Textures THEN TextureNames ELSE BufferNames

DataTypeOK ==
  /\ session_id \in Nat
  /\ painting \in BOOLEAN
  /\ last_texture_id \in Textures \cup {None}
  /\ bound \in TextureNames \cup {None}
  /\ owner \in [Names -> Data \cup {None}]
  /\ name \in [Data -> Names \cup {None}]
  /\ \A d \in Data : name[d] \in NamesOf(d) \cup {None}
  /\ session \in [Data -> Nat]
  /\ loaded \in SUBSET Textures
  /\ elsewhere \in BOOLEAN
  /\ hit \in BOOLEAN

DataInit ==
  /\ session_id = 0
  /\ painting = FALSE
  /\ last_texture_id = None
  /\ bound = None
  /\ owner = [n \in Names |-> None]
  /\ name = [d \in Data |-> None]
  /\ session = [d \in Data |-> 0]
  /\ loaded = {}
  /\ elsewhere = FALSE
  /\ hit = FALSE

(* Mistake: the session goes on. *)
PainterInitialize_SameSession ==
  /\ session_id < MaxSession
  /\ session_id' = IF session_id = 0 THEN 1 ELSE session_id
  /\ painting' = TRUE
  /\ last_texture_id' = None
  /\ bound' = None
  /\ elsewhere' = FALSE
  /\ UNCHANGED <<owner, assets, hit>>

(* Painter::Initialize, in a context that has just been made.              *)
PainterInitialize ==
  /\ session_id < MaxSession
  /\ session_id' = session_id + 1
  /\ painting' = TRUE
  /\ last_texture_id' = None
  /\ bound' = None
  /\ elsewhere' = FALSE
  /\ UNCHANGED <<owner, assets, hit>>

(* Painter::Finalize, and with the context go its names.                   *)
PainterFinalize ==
  /\ painting' = FALSE
  /\ last_texture_id' = None
  /\ bound' = None
  /\ owner' = [n \in Names |-> None]
  /\ UNCHANGED <<session_id, assets, elsewhere, hit>>

Id(t) == IF t \in loaded THEN t ELSE None
Stale(d) == name[d] # None /\ session[d] # session_id

(* glGenTextures, glGenBuffers: any name of the kind that is not in use.   *)
Generates(d, n) ==
  /\ n \in NamesOf(d)
  /\ owner[n] = None

-----------------------------------------------------------------------------
(* Mistake: the texture is unbound at the end. *)
Load_Unbinds(t) ==
  /\ painting
  /\ name[t] = None
  /\ \E n \in TextureNames :
       /\ Generates(t, n)
       /\ owner' = [owner EXCEPT ![n] = t]
       /\ name' = [name EXCEPT ![t] = n]
  /\ bound' = None
  /\ session' = [session EXCEPT ![t] = session_id]
  /\ loaded' = loaded \cup {t}
  /\ elsewhere' = (elsewhere \/ t # last_texture_id)
  /\ UNCHANGED <<painter, hit>>

(* TextureData::load, which leaves the texture bound.                      *)
Load(t) ==
  /\ painting
  /\ name[t] = None
  /\ \E n \in TextureNames :
       /\ Generates(t, n)
       /\ owner' = [owner EXCEPT ![n] = t]
       /\ name' = [name EXCEPT ![t] = n]
       /\ bound' = n
  /\ session' = [session EXCEPT ![t] = session_id]
  /\ loaded' = loaded \cup {t}
  /\ elsewhere' = (elsewhere \/ t # last_texture_id)
  /\ UNCHANGED <<painter, hit>>

(* VertexData::buffer, when the data is made.                              *)
Buffer(b) ==
  /\ painting
  /\ name[b] = None
  /\ \E n \in BufferNames :
       /\ Generates(b, n)
       /\ owner' = [owner EXCEPT ![n] = b]
       /\ name' = [name EXCEPT ![b] = n]
  /\ session' = [session EXCEPT ![b] = session_id]
  /\ UNCHANGED <<painter, bound, loaded, elsewhere, hit>>

(* TextureData::unload and VertexData::unbuffer delete whatever has the    *)
(* name now.  Without a context the functions for buffers are null.        *)
Free(d) ==
  /\ name[d] # None
  /\ d \in Buffers => painting
  /\ owner' = [owner EXCEPT ![name[d]] = None]
  /\ hit' = (hit \/ owner[name[d]] \notin {d, None})
  /\ bound' = IF bound = name[d] THEN None ELSE bound
  /\ name' = [name EXCEPT ![d] = None]
  /\ session' = IF d \in Textures THEN [session EXCEPT ![d] = 0] ELSE session
  /\ UNCHANGED <<painter, loaded, elsewhere>>

(* VertexData::set writes to whatever has the name now.                    *)
SetVertex(b) ==
  /\ painting
  /\ name[b] # None
  /\ hit' = (hit \/ owner[name[b]] \notin {b, None})
  /\ UNCHANGED <<painter, bound, owner, assets, elsewhere>>

-----------------------------------------------------------------------------
(***************************************************************************)
(* Painter::Draw of a mesh with texture t, vertices v and texture          *)
(* coordinates c: data of an earlier session is made again first.          *)
(* DrawsAgain gives it its new names; a texture whose file is gone is      *)
(* lost.  The coordinates are of no use without a texture.                 *)
(***************************************************************************)
Rebinds(t) == Id(t) # last_texture_id

Remade(t, v, c) ==
  {d \in {t, v} \cup (IF Id(t) = None THEN {} ELSE {c}) :
     Stale(d) /\ (d = t => Rebinds(t))}

Injective(f) == \A x, y \in DOMAIN f : f[x] = f[y] => x = y

DrawsAgain(again, lost) ==
  /\ \E fresh \in [again \ lost -> Names] :
       /\ Injective(fresh)
       /\ \A d \in again \ lost : Generates(d, fresh[d])
       /\ owner' = [n \in Names |->
            IF \E d \in again \ lost : fresh[d] = n
            THEN CHOOSE d \in again \ lost : fresh[d] = n ELSE owner[n]]
       /\ name' = [d \in Data |-> IF d \in lost THEN None
                                  ELSE IF d \in again THEN fresh[d] ELSE name[d]]
  /\ session' = [d \in Data |-> IF d \in lost THEN 0
                                ELSE IF d \in again THEN session_id ELSE session[d]]

Draw(t, v, c) ==
  /\ painting
  /\ \E lost \in SUBSET (Remade(t, v, c) \cap Textures) :
       DrawsAgain(Remade(t, v, c), lost)
  /\ last_texture_id' = Id(t)
  /\ IF Rebinds(t) /\ name[t] # None
     THEN /\ bound' = name'[t]
          /\ elsewhere' = FALSE
     ELSE UNCHANGED <<bound, elsewhere>>
  /\ UNCHANGED <<session_id, painting, loaded, hit>>

GameStep ==
  \/ \E t \in Textures : Load(t)
  \/ \E b \in Buffers : Buffer(b) \/ SetVertex(b)
  \/ \E d \in Data : Free(d)
  \/ \E t \in Textures, v \in Buffers : \E c \in Buffers \ {v} : Draw(t, v, c)

-----------------------------------------------------------------------------
(* What data takes for its GL object is its own: a name of this session is *)
(* in use in this context, for this data, however many contexts there have *)
(* been, unless the game has freed or changed data of an earlier context   *)
(* before drawing it: that hits whoever has the name now.                  *)
OwnNames ==
  ~hit => \A d \in Data :
    painting /\ name[d] # None /\ ~Stale(d) => owner[name[d]] = d

(* The painter binds a texture only when last_texture_id changes: the one  *)
(* that is bound is that one, also after a new context, unless a texture   *)
(* has been loaded meanwhile.                                              *)
BoundIsLast ==
  painting /\ ~hit /\ ~elsewhere /\ last_texture_id # None /\ name[last_texture_id] # None
    => bound = name[last_texture_id]
=============================================================================
