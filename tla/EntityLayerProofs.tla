-------------------------- MODULE EntityLayerProofs --------------------------
(***************************************************************************)
(* Theorems about EntityLayer: what the walks of an update stand on, and   *)
(* what the collision layer knows.                                         *)
(***************************************************************************)
EXTENDS EntityLayer, PointerListProofs

(* The lists hold no pointer twice and nothing that was deleted; those of  *)
(* deleted entities are gone and tell nothing.                             *)
ListsOK ==
  /\ IsInjective(entities) /\ IsInjective(colliders)
  /\ ToSet(entities) \cap deleted = {}
  /\ ToSet(colliders) \cap deleted = {}
  /\ \A e \in Entities :
       /\ IsInjective(components[e])
       /\ \A c \in ToSet(components[e]) : OwnerOf[c] = e
       /\ e \notin deleted => ToSet(components[e]) \cap deleted = {}

(* The walk over the entities is at one that is on the layer.              *)
EntityWalk ==
  /\ walk.l_i \in ToSet(entities) \cup {None}
  /\ walk.at # "entities" => /\ walk.entity \in Entities \ deleted
                             /\ walk.entity # walk.l_i

(* The walk over the components of an entity has come to a node of its     *)
(* list, and its end is the first node.                                    *)
ComponentWalk ==
  walk.at # "entities" =>
    LET cs == components[walk.entity]
    IN  \/ cs = <<>> /\ walk.base = None /\ walk.rend = None /\ walk.at = "components"
        \/ /\ cs # <<>>
           /\ walk.rend = Head(cs)
           /\ walk.base \in ToSet(cs) \cup {None}
           /\ walk.at # "components" => walk.base # walk.rend

(* The walk over the colliders is at one that is registered.               *)
ColliderWalk ==
  /\ walk.at \notin {"colliders", "other", "self"} =>
       walk.collider = None /\ walk.l_c = None
  /\ walk.collider # None => OwnerOf[walk.collider] = walk.entity
  /\ walk.l_c \in ToSet(colliders) \cup {None}
  /\ walk.at \in {"other", "self"} => walk.l_c # None

WalkOK ==
  walk # None => /\ walk.dangling => walk.disturbed
                 /\ ~walk.dangling => EntityWalk /\ ComponentWalk /\ ColliderWalk

Inv == TypeOK /\ ListsOK /\ WalkOK

-----------------------------------------------------------------------------
LEMMA EntityFacts ==
  /\ Colliders \subseteq Components
  /\ OwnerOf \in [Components -> Entities]
  /\ Parts \in [Entities -> Seq(Components)]
  /\ \A e \in Entities : /\ IsInjective(Parts[e])
                         /\ \A c \in ToSet(Parts[e]) : OwnerOf[c] = e
  /\ Entities \cap Components = {}
  /\ None \notin Entities /\ None \notin Components /\ None \notin Colliders
BY EntityAssumption DEF EntityAssumption

LEMMA AfterFacts ==
  ASSUME NEW S, NEW s \in Seq(S), IsInjective(s), NEW x \in ToSet(s), None \notin S
  PROVE  After(s, x) \in ToSet(s) \cup {None} /\ After(s, x) # x
<1>1. x # None /\ Place(s, x) \in 1..Len(s) /\ Len(s) \in Nat
  BY PlaceFacts
<1>2. CASE x = Last(s)
  BY <1>1, <1>2 DEF After
<1>3. CASE x # Last(s)
  <2>1. Place(s, x) < Len(s)
    BY <1>1, <1>3, NextFacts
  <2>2. QED
    BY <1>3, <2>1, NextFacts DEF After
<1>4. QED
  BY <1>2, <1>3

LEMMA BeforeFacts ==
  ASSUME NEW S, NEW s \in Seq(S), IsInjective(s), s # <<>>,
         NEW x \in ToSet(s) \cup {None}, x # Head(s)
  PROVE  Before(s, x) \in ToSet(s) /\ Before(s, x) \in S
<1>1. Before(s, x) \in ToSet(s)
  BY LastFacts, PreviousFacts DEF Before
<1>2. QED
  BY <1>1, PlaceFacts

LEMMA FirstFacts ==
  ASSUME NEW S, NEW s \in Seq(S)
  PROVE  First(s) \in ToSet(s) \cup {None} /\ First(s) \in S \cup {None}
BY TailFacts DEF First

LEMMA ListElements ==
  ASSUME NEW S, NEW s \in Seq(S)
  PROVE  ToSet(s) \subseteq S
BY PlaceFacts

(* A list that keeps its first element has one. *)
LEMMA NotEmpty ==
  ASSUME NEW S, NEW s \in Seq(S), NEW x \in ToSet(s)
  PROVE  s # <<>>
<1>1. Place(s, x) \in 1..Len(s)
  BY PlaceFacts
<1>2. QED
  BY <1>1

-----------------------------------------------------------------------------
(* The entity of each element of a list of components is the list's.       *)
LEMMA OthersApart ==
  ASSUME TypeOK, ListsOK, NEW e \in Entities, NEW f \in Entities, e # f
  PROVE  ToSet(components[e]) \cap (ToSet(components[f]) \cup {f}) = {}
<1>1. \A c \in ToSet(components[e]) : c \in Components /\ OwnerOf[c] = e
  BY ListElements DEF TypeOK, ListsOK
<1>2. \A c \in ToSet(components[f]) : OwnerOf[c] = f
  BY DEF ListsOK
<1>3. QED
  BY <1>1, <1>2, EntityFacts

(* What is deleted goes out of the lists. *)
LEMMA EntityGone ==
  ASSUME TypeOK, ListsOK, NEW e \in Entities,
         entities' = Without(entities, e),
         deleted' = deleted \cup {e} \cup ToSet(components[e]),
         Freed(ToSet(components[e])), components' = components
  PROVE  /\ entities' \in Seq(Entities) /\ colliders' \in Seq(Colliders)
         /\ deleted' \in SUBSET (Entities \cup Components)
         /\ ListsOK'
         /\ ToSet(entities') = ToSet(entities) \ {e}
         /\ ToSet(colliders') = ToSet(colliders) \ ToSet(components[e])
<1>0. /\ entities \in Seq(Entities) /\ colliders \in Seq(Colliders)
      /\ components[e] \in Seq(Components) /\ deleted \subseteq Entities \cup Components
  BY DEF TypeOK
<1>1. /\ entities' \in Seq(Entities) /\ IsInjective(entities')
      /\ ToSet(entities') = ToSet(entities) \ {e}
  BY <1>0, WithoutFacts DEF ListsOK
<1>2. /\ colliders' \in Seq(Colliders) /\ IsInjective(colliders')
      /\ ToSet(colliders') = ToSet(colliders) \ ToSet(components[e])
  BY <1>0, WithoutAllFacts DEF ListsOK, Freed
<1>3. /\ ToSet(components[e]) \subseteq Components
      /\ ToSet(entities) \subseteq Entities /\ ToSet(colliders) \subseteq Components
  BY <1>0, ListElements, EntityFacts
<1>4. deleted' \in SUBSET (Entities \cup Components)
  BY <1>0, <1>3
<1>5. ToSet(entities') \cap deleted' = {} /\ ToSet(colliders') \cap deleted' = {}
  BY <1>1, <1>2, <1>3, EntityFacts DEF ListsOK
<1>6. ASSUME NEW f \in Entities, f \notin deleted'
      PROVE  ToSet(components'[f]) \cap deleted' = {}
  <2>1. f # e /\ f \notin deleted
    BY <1>6
  <2>2. ToSet(components[f]) \cap (ToSet(components[e]) \cup {e}) = {}
    BY <2>1, OthersApart
  <2>3. ToSet(components[f]) \cap deleted = {}
    BY <2>1 DEF ListsOK
  <2>4. QED
    BY <2>2, <2>3
<1>7. ListsOK'
  BY <1>1, <1>2, <1>5, <1>6 DEF ListsOK
<1>8. QED
  BY <1>1, <1>2, <1>4, <1>7

(* A game call changes nothing of a walk but the two notes about it.       *)
SamePlace ==
  /\ walk'.at = walk.at /\ walk'.l_i = walk.l_i /\ walk'.entity = walk.entity
  /\ walk'.base = walk.base /\ walk'.rend = walk.rend
  /\ walk'.collider = walk.collider /\ walk'.l_c = walk.l_c

LEMMA NotedFacts ==
  ASSUME walk \in Walk, walk # None, NEW d \in BOOLEAN, NEW b \in BOOLEAN,
         walk' = Noted(d, b)
  PROVE  /\ walk' \in Walk /\ SamePlace
         /\ walk'.was = walk.was /\ walk'.dead = walk.dead /\ walk'.seen = walk.seen
         /\ walk'.dangling = (walk.dangling \/ d)
         /\ walk'.disturbed = (walk.disturbed \/ b)
<1>1. walk' = [walk EXCEPT !.dangling = walk.dangling \/ d,
                           !.disturbed = walk.disturbed \/ b]
  BY DEF Noted
<1>2. (walk.dangling \/ d) \in BOOLEAN /\ (walk.disturbed \/ b) \in BOOLEAN
  BY DEF Walk
<1>3. QED
  BY <1>1, <1>2 DEF Walk, SamePlace

LEMMA WalkFields ==
  ASSUME walk \in Walk
  PROVE  /\ walk.at \in Loops \cup Calls
         /\ walk.l_i \in Entities \cup {None} /\ walk.entity \in Entities \cup {None}
         /\ walk.base \in Components \cup {None} /\ walk.rend \in Components \cup {None}
         /\ walk.collider \in Colliders \cup {None}
         /\ walk.l_c \in Colliders \cup {None}
         /\ walk.dangling \in BOOLEAN /\ walk.was \in Seq(Entities)
         /\ walk.dead \in SUBSET Entities /\ walk.seen \in Seq(Entities)
         /\ walk.disturbed \in BOOLEAN
BY DEF Walk

LEMMA InCall ==
  ASSUME Inv, GameRuns, walk # None
  PROVE  /\ walk \in Walk /\ walk.at \in Calls /\ walk.at \notin Loops /\ ~walk.dangling
         /\ EntityWalk /\ ComponentWalk /\ ColliderWalk
         /\ walk.entity \in Entities /\ walk.entity \notin deleted
         /\ walk.entity # walk.l_i
<1>1. walk \in Walk /\ walk.at \in Calls /\ ~walk.dangling
  BY DEF Inv, TypeOK, GameRuns
<1>2. walk.at \notin Loops
  BY <1>1 DEF Calls, Loops
<1>3. QED
  BY <1>1, <1>2 DEF Inv, WalkOK, EntityWalk, Loops

LEMMA AddEntityKeeps ==
  ASSUME Inv, NEW e \in Entities, AddEntity(e)
  PROVE  Inv'
<1> USE DEF AddEntity, Inv
<1>1. /\ entities' \in Seq(Entities) /\ ToSet(entities') = ToSet(entities) \cup {e}
      /\ IsInjective(entities')
  BY AppendFacts DEF TypeOK, ListsOK
<1>2. TypeOK' /\ ListsOK'
  BY <1>1 DEF TypeOK, ListsOK
<1>3. WalkOK'
  BY <1>1 DEF WalkOK, EntityWalk, ComponentWalk, ColliderWalk
<1>4. QED
  BY <1>2, <1>3

LEMMA RemoveEntityKeeps ==
  ASSUME Inv, NEW e \in Entities, NEW delete \in BOOLEAN, RemoveEntity(e, delete)
  PROVE  Inv'
<1> DEFINE d == \/ e = walk.l_i
                \/ /\ delete
                   /\ \/ e = walk.entity
                      \/ walk.l_c \in ToSet(components[e])
           b == delete \/ e # walk.entity
<1>0. /\ entities' = Without(entities, e) /\ components' = components
      /\ killed' = killed /\ active' = active /\ GameRuns
      /\ walk' = Noted(d, b) /\ d \in BOOLEAN /\ b \in BOOLEAN
  BY DEF RemoveEntity
<1> HIDE DEF d, b
<1>1. /\ entities' \in Seq(Entities) /\ colliders' \in Seq(Colliders)
      /\ deleted' \in SUBSET (Entities \cup Components)
      /\ ListsOK'
      /\ ToSet(entities') = ToSet(entities) \ {e}
      /\ deleted' = deleted \/ (delete /\ deleted' = deleted \cup {e} \cup ToSet(components[e]))
      /\ ToSet(colliders') = ToSet(colliders)
           \/ (delete /\ ToSet(colliders') = ToSet(colliders) \ ToSet(components[e]))
  <2>1. CASE delete
    BY <1>0, <2>1, EntityGone DEF RemoveEntity, Inv
  <2>2. CASE ~delete
    <3>1. deleted' = deleted /\ colliders' = colliders
      BY <2>2 DEF RemoveEntity
    <3>2. /\ entities' \in Seq(Entities) /\ IsInjective(entities')
          /\ ToSet(entities') = ToSet(entities) \ {e}
      BY <1>0, WithoutFacts DEF Inv, TypeOK, ListsOK
    <3>3. ListsOK'
      BY <1>0, <3>1, <3>2 DEF Inv, ListsOK
    <3>4. QED
      BY <3>1, <3>2, <3>3 DEF Inv, TypeOK
  <2>3. QED
    BY <2>1, <2>2
<1>2. CASE walk = None
  <2>1. walk' = None
    BY <1>0, <1>2 DEF Noted
  <2>2. QED
    BY <1>0, <1>1, <2>1 DEF Inv, TypeOK, WalkOK
<1>3. CASE walk # None
  <2>1. /\ walk \in Walk /\ walk.at \in Calls /\ walk.at \notin Loops /\ ~walk.dangling
        /\ EntityWalk /\ ComponentWalk /\ ColliderWalk
        /\ walk.entity \in Entities /\ walk.entity \notin deleted
        /\ walk.entity # walk.l_i
    BY <1>0, <1>3, InCall
  <2>2. /\ walk' \in Walk /\ SamePlace
        /\ walk'.dangling = d /\ walk'.disturbed = (walk.disturbed \/ b)
    BY <1>0, <1>3, <2>1, NotedFacts
  <2>3. TypeOK'
    BY <1>0, <1>1, <2>2 DEF Inv, TypeOK
  <2>4. d => b
    BY <2>1 DEF d, b
  <2>5. ASSUME ~d PROVE (EntityWalk /\ ComponentWalk /\ ColliderWalk)'
    <3>1. /\ e # walk.l_i
          /\ delete => e # walk.entity /\ walk.l_c \notin ToSet(components[e])
      BY <2>5 DEF d
    <3>2. walk.entity \notin deleted'
      <4>1. delete => walk.entity \notin ToSet(components[e])
        <5>1. ToSet(components[e]) \subseteq Components
          BY ListElements DEF Inv, TypeOK
        <5>2. QED
          BY <2>1, <5>1, EntityFacts
      <4>2. QED
        BY <1>1, <2>1, <3>1, <4>1
    <3>3. EntityWalk'
      BY <1>1, <2>1, <2>2, <3>1, <3>2 DEF EntityWalk, SamePlace
    <3>4. ComponentWalk'
      BY <1>0, <2>1, <2>2 DEF ComponentWalk, SamePlace
    <3>5. ColliderWalk'
      BY <1>1, <2>1, <2>2, <3>1 DEF ColliderWalk, SamePlace
    <3>6. QED
      BY <3>3, <3>4, <3>5
  <2>6. WalkOK'
    BY <2>2, <2>4, <2>5 DEF WalkOK
  <2>7. QED
    BY <1>1, <2>3, <2>6 DEF Inv
<1>4. QED
  BY <1>2, <1>3

LEMMA FlagsKeep ==
  ASSUME Inv,
         \/ \E e \in Entities : Kill(e)
         \/ \E c \in Colliders : SetActive(c)
         \/ UNCHANGED vars
  PROVE  Inv'
<1>1. /\ UNCHANGED <<entities, components, colliders, deleted, walk>>
      /\ killed' \in SUBSET Entities /\ active' \in SUBSET Colliders
  BY DEF Kill, SetActive, vars, lists, Inv, TypeOK
<1>2. TypeOK' /\ ListsOK'
  BY <1>1 DEF Inv, TypeOK, ListsOK
<1>3. WalkOK'
  BY <1>1 DEF Inv, WalkOK, EntityWalk, ComponentWalk, ColliderWalk
<1>4. QED
  BY <1>2, <1>3 DEF Inv

LEMMA AddComponentKeeps ==
  ASSUME Inv, NEW c \in Components, AddComponent(c)
  PROVE  Inv'
<1> DEFINE o == OwnerOf[c]
<1>0. /\ GameRuns /\ c \notin deleted /\ o \notin deleted /\ o \in Entities
      /\ c \notin ToSet(components[o])
      /\ UNCHANGED <<entities, colliders, killed, active, deleted, walk>>
      /\ components \in [Entities -> Seq(Components)]
      /\ components' = [components EXCEPT ![o] = Append(components[o], c)]
  BY EntityFacts DEF AddComponent, Inv, TypeOK
<1>1. /\ components[o] \in Seq(Components) /\ IsInjective(components[o])
      /\ \A e \in Entities : IsInjective(components[e])
  BY <1>0 DEF Inv, ListsOK
<1>2. /\ components' \in [Entities -> Seq(Components)]
      /\ \A e \in Entities : e # o => components'[e] = components[e]
      /\ components'[o] = Append(components[o], c)
      /\ ToSet(components'[o]) = ToSet(components[o]) \cup {c}
      /\ IsInjective(components'[o])
  BY <1>0, <1>1, AppendFacts
<1>3. TypeOK'
  BY <1>0, <1>2 DEF Inv, TypeOK
<1>4. ListsOK'
  <2>1. ASSUME NEW e \in Entities
        PROVE  /\ IsInjective(components'[e])
               /\ \A k \in ToSet(components'[e]) : OwnerOf[k] = e
               /\ e \notin deleted => ToSet(components'[e]) \cap deleted = {}
    <3>1. CASE e = o
      BY <1>0, <1>2, <3>1 DEF Inv, ListsOK
    <3>2. CASE e # o
      BY <1>2, <3>2 DEF Inv, ListsOK
    <3>3. QED
      BY <3>1, <3>2
  <2>2. QED
    BY <1>0, <2>1 DEF Inv, ListsOK
<1>5. WalkOK'
  <2>1. CASE walk = None
    BY <1>0, <2>1 DEF WalkOK
  <2>2. CASE walk # None
    <3>1. /\ walk.at \in Calls /\ walk.at \notin Loops /\ ~walk.dangling
          /\ EntityWalk /\ ComponentWalk /\ ColliderWalk
          /\ walk.entity \in Entities
      BY <1>0, <2>2, InCall
    <3>2. LET cs == components[walk.entity]
          IN  /\ cs # <<>> /\ walk.rend = Head(cs)
              /\ walk.base \in ToSet(cs) \cup {None} /\ walk.base # walk.rend
      BY <3>1 DEF ComponentWalk, Loops
    <3>3. LET cs == components'[walk.entity]
          IN  /\ cs # <<>> /\ walk.rend = Head(cs)
              /\ walk.base \in ToSet(cs) \cup {None}
      <4>1. CASE walk.entity = o
        <5>1. Head(components[o]) \in ToSet(components[o])
          BY <1>1, <3>2, <4>1, TailFacts
        <5>2. Head(components'[o]) = Head(components[o])
          BY <1>0, <1>1, <1>2, <5>1, AheadAppend
        <5>3. components'[o] # <<>>
          BY <1>2, <5>1, NotEmpty
        <5>4. QED
          BY <1>2, <3>2, <4>1, <5>2, <5>3
      <4>2. CASE walk.entity # o
        BY <1>2, <3>1, <3>2, <4>2
      <4>3. QED
        BY <4>1, <4>2
    <3>4. (EntityWalk /\ ComponentWalk /\ ColliderWalk)'
      BY <1>0, <3>1, <3>2, <3>3 DEF EntityWalk, ComponentWalk, ColliderWalk
    <3>5. QED
      BY <1>0, <3>1, <3>4 DEF Inv, WalkOK
  <2>3. QED
    BY <2>1, <2>2
<1>6. QED
  BY <1>3, <1>4, <1>5 DEF Inv

LEMMA RemoveComponentKeeps ==
  ASSUME Inv, NEW c \in Components, NEW delete \in BOOLEAN,
         RemoveComponent(c, delete)
  PROVE  Inv'
<1> DEFINE o == OwnerOf[c]
           d == \/ c \in {walk.base, walk.rend}
                \/ delete /\ c \in {walk.collider, walk.l_c}
           b == \/ o = walk.entity
                \/ delete /\ c = walk.l_c
<1>0. /\ GameRuns /\ o \notin deleted /\ o \in Entities
      /\ c \in ToSet(components[o])
      /\ UNCHANGED <<entities, killed, active>>
      /\ components \in [Entities -> Seq(Components)]
      /\ components' = [components EXCEPT ![o] = Without(components[o], c)]
      /\ walk' = Noted(d, b) /\ d \in BOOLEAN /\ b \in BOOLEAN
  BY EntityFacts DEF RemoveComponent, Inv, TypeOK
<1>1. /\ components[o] \in Seq(Components)
      /\ \A e \in Entities : IsInjective(components[e])
      /\ colliders \in Seq(Colliders) /\ IsInjective(colliders)
      /\ ToSet(colliders) \cap deleted = {}
  BY <1>0 DEF Inv, TypeOK, ListsOK
<1>2. /\ components' \in [Entities -> Seq(Components)]
      /\ \A e \in Entities : e # o => components'[e] = components[e]
      /\ components'[o] = Without(components[o], c)
      /\ ToSet(components'[o]) = ToSet(components[o]) \ {c}
      /\ IsInjective(components'[o])
  BY <1>0, <1>1, WithoutFacts
<1> HIDE DEF d, b
<1>3. \/ deleted' = deleted /\ colliders' = colliders
      \/ /\ delete /\ deleted' = deleted \cup {c}
         /\ colliders' \in Seq(Colliders) /\ IsInjective(colliders')
         /\ ToSet(colliders') = ToSet(colliders) \ {c}
  BY <1>1, WithoutAllFacts DEF RemoveComponent, Freed
<1>4. /\ colliders' \in Seq(Colliders) /\ IsInjective(colliders')
      /\ deleted' \in SUBSET (Entities \cup Components)
      /\ ToSet(colliders') \cap deleted' = {}
      /\ deleted' \subseteq deleted \cup {c}
      /\ c \notin Entities
  BY <1>1, <1>3, EntityFacts DEF Inv, TypeOK
<1>5. ListsOK'
  <2>1. ASSUME NEW e \in Entities
        PROVE  /\ IsInjective(components'[e])
               /\ \A k \in ToSet(components'[e]) : OwnerOf[k] = e
               /\ e \notin deleted' => ToSet(components'[e]) \cap deleted' = {}
    <3>1. /\ \A k \in ToSet(components[e]) : OwnerOf[k] = e
          /\ e \notin deleted => ToSet(components[e]) \cap deleted = {}
          /\ deleted \subseteq deleted'
      BY <1>3 DEF Inv, ListsOK
    <3>2. CASE e = o
      BY <1>2, <1>4, <3>1, <3>2
    <3>3. CASE e # o
      <4>1. c \notin ToSet(components[e])
        BY <3>1, <3>3
      <4>2. QED
        BY <1>1, <1>2, <1>4, <3>1, <3>3, <4>1
    <3>4. QED
      BY <3>2, <3>3
  <2>2. ToSet(entities') \cap deleted' = {}
    <3>1. ToSet(entities) \subseteq Entities
      BY ListElements DEF Inv, TypeOK
    <3>2. QED
      BY <1>0, <1>4, <3>1 DEF Inv, ListsOK
  <2>3. QED
    BY <1>0, <1>4, <2>1, <2>2 DEF Inv, ListsOK
<1>6. CASE walk = None
  <2>1. walk' = None
    BY <1>0, <1>6 DEF Noted
  <2>2. QED
    BY <1>0, <1>2, <1>4, <1>5, <2>1 DEF Inv, TypeOK, WalkOK
<1>7. CASE walk # None
  <2>1. /\ walk \in Walk /\ walk.at \in Calls /\ walk.at \notin Loops /\ ~walk.dangling
        /\ EntityWalk /\ ComponentWalk /\ ColliderWalk
        /\ walk.entity \in Entities /\ walk.entity \notin deleted
    BY <1>0, <1>7, InCall
  <2>2. /\ walk' \in Walk /\ SamePlace
        /\ walk'.dangling = d /\ walk'.disturbed = (walk.disturbed \/ b)
    BY <1>0, <1>7, <2>1, NotedFacts
  <2>3. TypeOK'
    BY <1>0, <1>2, <1>4, <2>2 DEF Inv, TypeOK
  <2>a. LET cs == components[walk.entity]
        IN  /\ cs # <<>> /\ walk.rend = Head(cs)
            /\ walk.base \in ToSet(cs) \cup {None} /\ walk.base # walk.rend
            /\ Head(cs) \in ToSet(cs)
            /\ \A k \in ToSet(cs) : OwnerOf[k] = walk.entity
            /\ cs \in Seq(Components) /\ IsInjective(cs)
    <3>1. /\ components[walk.entity] # <<>>
          /\ walk.rend = Head(components[walk.entity])
          /\ walk.base \in ToSet(components[walk.entity]) \cup {None}
          /\ walk.base # walk.rend
      BY <2>1 DEF ComponentWalk, Loops
    <3>2. /\ components[walk.entity] \in Seq(Components)
          /\ IsInjective(components[walk.entity])
          /\ \A k \in ToSet(components[walk.entity]) : OwnerOf[k] = walk.entity
      BY <1>0, <2>1 DEF Inv, ListsOK
    <3>3. QED
      BY <3>1, <3>2, TailFacts
  <2>4. d => b
    <3>1. c # None
      BY EntityFacts
    <3>2. c \in {walk.base, walk.rend} => o = walk.entity
      BY <2>a, <3>1
    <3>3. c = walk.collider => o = walk.entity
      BY <2>1, <3>1 DEF ColliderWalk
    <3>4. QED
      BY <3>2, <3>3 DEF d, b
  <2>5. ASSUME ~d PROVE (EntityWalk /\ ComponentWalk /\ ColliderWalk)'
    <3>1. c # walk.base /\ c # walk.rend /\ (delete => c # walk.l_c)
      BY <2>5 DEF d
    <3>2. EntityWalk'
      BY <1>0, <1>4, <2>1, <2>2 DEF EntityWalk, SamePlace
    <3>3. LET cs == components'[walk.entity]
          IN  /\ cs # <<>> /\ walk.rend = Head(cs)
              /\ walk.base \in ToSet(cs) \cup {None}
      <4>1. CASE walk.entity = o
        <5>1. /\ Head(components'[o]) = Head(components[o])
              /\ Head(components[o]) \in ToSet(components'[o])
          BY <1>2, <2>a, <3>1, <4>1, AheadWithout
        <5>2. components'[o] # <<>>
          BY <1>0, <1>2, <5>1, NotEmpty
        <5>3. QED
          BY <1>2, <2>a, <3>1, <4>1, <5>1, <5>2
      <4>2. CASE walk.entity # o
        BY <1>2, <2>1, <2>a, <4>2
      <4>3. QED
        BY <4>1, <4>2
    <3>4. ComponentWalk'
      BY <2>2, <2>a, <3>3 DEF ComponentWalk, SamePlace
    <3>5. ColliderWalk'
      BY <1>3, <2>1, <2>2, <3>1 DEF ColliderWalk, SamePlace
    <3>6. QED
      BY <3>2, <3>4, <3>5
  <2>6. WalkOK'
    BY <2>2, <2>4, <2>5 DEF WalkOK
  <2>7. QED
    BY <1>5, <2>3, <2>6 DEF Inv
<1>8. QED
  BY <1>6, <1>7

-----------------------------------------------------------------------------
(* What a walk that goes on stands on.                                     *)
LEMMA OnTheWay ==
  ASSUME Inv, NEW place, At(place)
  PROVE  /\ walk \in Walk /\ walk # None /\ walk.at = place /\ ~walk.dangling
         /\ EntityWalk /\ ComponentWalk /\ ColliderWalk
BY DEF Inv, TypeOK, WalkOK, At

LEMMA SameListsKeep ==
  ASSUME Inv, UNCHANGED <<lists, killed, active, deleted>>,
         \/ walk' = None
         \/ walk' \in Walk /\ ~walk'.dangling
            /\ (EntityWalk /\ ComponentWalk /\ ColliderWalk)'
  PROVE  Inv'
<1>1. TypeOK' /\ ListsOK'
  BY DEF Inv, TypeOK, ListsOK, lists
<1>2. QED
  BY <1>1 DEF Inv, WalkOK

LEMMA UpdateBeginKeeps ==
  ASSUME Inv, UpdateBegin
  PROVE  Inv' /\ walk' \in Walk
<1> DEFINE f == First(entities)
           z == killed \cap ToSet(entities)
<1>1. f \in Entities \cup {None} /\ f \in ToSet(entities) \cup {None}
  BY FirstFacts DEF Inv, TypeOK
<1>2. z \in SUBSET Entities /\ entities \in Seq(Entities)
  BY DEF Inv, TypeOK
<1>3. walk' = [at |-> "entities", l_i |-> f, entity |-> None,
               base |-> None, rend |-> None, collider |-> None, l_c |-> None,
               dangling |-> FALSE, was |-> entities, dead |-> z, seen |-> <<>>,
               disturbed |-> FALSE]
  BY DEF UpdateBegin
<1> HIDE DEF f, z
<1>4. /\ walk' \in Walk /\ ~walk'.dangling
      /\ walk'.at = "entities" /\ walk'.l_i = f
      /\ walk'.collider = None /\ walk'.l_c = None
  BY <1>1, <1>2, <1>3 DEF Walk, Loops
<1>5. EntityWalk'
  BY <1>1, <1>4 DEF EntityWalk, UpdateBegin, lists
<1>6. ComponentWalk' /\ ColliderWalk'
  BY <1>4 DEF ComponentWalk, ColliderWalk
<1>7. QED
  BY <1>4, <1>5, <1>6, SameListsKeep DEF UpdateBegin

LEMMA BuryKeeps ==
  ASSUME Inv, Bury
  PROVE  Inv'
<1> DEFINE e == walk.l_i
           n == After(entities, e)
<1>1. /\ walk \in Walk /\ walk.at = "entities" /\ ~walk.dangling
      /\ EntityWalk /\ ComponentWalk /\ ColliderWalk
      /\ e \in ToSet(entities) /\ e \in Entities
  BY OnTheWay DEF Bury, EntityWalk, Walk
<1>2. /\ entities' = Without(entities, e)
      /\ deleted' = deleted \cup {e} \cup ToSet(components[e])
      /\ Freed(ToSet(components[e])) /\ UNCHANGED <<components, killed, active>>
      /\ walk' = [walk EXCEPT !.l_i = n]
  BY DEF Bury
<1>3. /\ entities' \in Seq(Entities) /\ colliders' \in Seq(Colliders)
      /\ deleted' \in SUBSET (Entities \cup Components)
      /\ ListsOK'
      /\ ToSet(entities') = ToSet(entities) \ {e}
      /\ ToSet(colliders') = ToSet(colliders) \ ToSet(components[e])
  BY <1>1, <1>2, EntityGone DEF Inv
<1>4. n \in ToSet(entities) \cup {None} /\ n # e /\ n \in Entities \cup {None}
  BY <1>1, EntityFacts, AfterFacts, ListElements DEF Inv, TypeOK, ListsOK
<1> HIDE DEF n
<1>5. /\ walk' \in Walk /\ ~walk'.dangling
      /\ walk'.at = "entities" /\ walk'.l_i = n
      /\ walk'.collider = walk.collider /\ walk'.l_c = walk.l_c
  BY <1>1, <1>2, <1>4 DEF Walk
<1>6. TypeOK'
  BY <1>2, <1>3, <1>5 DEF Inv, TypeOK
<1>7. EntityWalk' /\ ComponentWalk'
  BY <1>3, <1>4, <1>5 DEF EntityWalk, ComponentWalk
<1>8. ColliderWalk'
  BY <1>1, <1>5 DEF ColliderWalk
<1>9. QED
  BY <1>3, <1>5, <1>6, <1>7, <1>8 DEF Inv, WalkOK

LEMMA UpdateEntityKeeps ==
  ASSUME Inv, UpdateEntity
  PROVE  Inv' /\ walk' \in Walk
<1> DEFINE e == walk.l_i
           n == After(entities, e)
           f == First(components[e])
           was == Noticed(e)
<1>1. /\ walk \in Walk /\ walk.at = "entities" /\ ~walk.dangling
      /\ EntityWalk /\ ComponentWalk /\ ColliderWalk
      /\ e \in ToSet(entities) /\ e \in Entities
  BY OnTheWay DEF UpdateEntity, EntityWalk, Walk
<1>2. walk' = [walk EXCEPT !.at = "components", !.entity = e, !.l_i = n,
                 !.base = None, !.rend = f, !.seen = was]
  BY DEF UpdateEntity
<1>3. n \in ToSet(entities) \cup {None} /\ n # e /\ n \in Entities \cup {None}
  BY <1>1, EntityFacts, AfterFacts, ListElements DEF Inv, TypeOK, ListsOK
<1>4. components[e] \in Seq(Components) /\ f \in Components \cup {None}
  BY <1>1, FirstFacts DEF Inv, TypeOK
<1>5. was \in Seq(Entities)
  BY <1>1 DEF Noticed, Walk
<1>6. e \notin deleted /\ f = IF components[e] = <<>> THEN None ELSE Head(components[e])
  BY <1>1 DEF Inv, ListsOK, First
<1> HIDE DEF e, n, f, was
<1>7. /\ walk' \in Walk /\ ~walk'.dangling
      /\ walk'.at = "components" /\ walk'.l_i = n /\ walk'.entity = e
      /\ walk'.base = None /\ walk'.rend = f
      /\ walk'.collider = walk.collider /\ walk'.l_c = walk.l_c
  BY <1>1, <1>2, <1>3, <1>4, <1>5 DEF Walk, Loops
<1>8. UNCHANGED <<entities, components, colliders, killed, active, deleted>>
  BY DEF UpdateEntity, lists
<1>9. EntityWalk'
  BY <1>1, <1>3, <1>6, <1>7, <1>8 DEF EntityWalk
<1>10. ComponentWalk'
  BY <1>6, <1>7, <1>8 DEF ComponentWalk
<1>11. ColliderWalk'
  BY <1>1, <1>7, <1>8 DEF ColliderWalk
<1>12. QED
  BY <1>7, <1>8, <1>9, <1>10, <1>11, SameListsKeep DEF lists

LEMMA ComponentsEndKeeps ==
  ASSUME Inv, ComponentsEnd \/ UpdateEnd
  PROVE  Inv'
<1>1. CASE UpdateEnd
  BY <1>1, SameListsKeep DEF UpdateEnd
<1>2. CASE ComponentsEnd
  <2>1. /\ walk \in Walk /\ walk.at = "components" /\ ~walk.dangling
        /\ EntityWalk /\ ComponentWalk /\ ColliderWalk
    BY <1>2, OnTheWay DEF ComponentsEnd
  <2>2. walk' = [walk EXCEPT !.at = "entities", !.entity = None,
                             !.base = None, !.rend = None]
    BY <1>2 DEF ComponentsEnd
  <2>3. /\ walk' \in Walk /\ ~walk'.dangling
        /\ walk'.at = "entities" /\ walk'.l_i = walk.l_i
        /\ walk'.collider = walk.collider /\ walk'.l_c = walk.l_c
    BY <2>1, <2>2 DEF Walk, Loops
  <2>4. UNCHANGED <<entities, components, colliders, killed, active, deleted>>
    BY <1>2 DEF ComponentsEnd, lists
  <2>5. (EntityWalk /\ ComponentWalk /\ ColliderWalk)'
    BY <2>1, <2>3, <2>4 DEF EntityWalk, ComponentWalk, ColliderWalk
  <2>6. QED
    BY <2>3, <2>4, <2>5, SameListsKeep DEF lists
<1>3. QED
  BY <1>1, <1>2

(* The component that is updated is one of the entity, and not deleted.    *)
LEMMA CurrentFacts ==
  ASSUME Inv, walk \in Walk, walk # None, ~walk.dangling, walk.at # "entities",
         walk.base # walk.rend
  PROVE  /\ Current \in ToSet(components[walk.entity])
         /\ Current \in Components /\ Current # None
         /\ Current \notin deleted /\ OwnerOf[Current] = walk.entity
         /\ components[walk.entity] # <<>>
         /\ walk.rend = Head(components[walk.entity])
<1>1. /\ EntityWalk /\ ComponentWalk /\ walk.entity \in Entities
      /\ walk.entity \notin deleted
  BY DEF Inv, WalkOK, EntityWalk
<1>2. LET cs == components[walk.entity]
      IN  /\ cs # <<>> /\ walk.rend = Head(cs)
          /\ walk.base \in ToSet(cs) \cup {None}
  BY <1>1 DEF ComponentWalk
<1>3. LET cs == components[walk.entity]
      IN  /\ cs \in Seq(Components) /\ IsInjective(cs)
          /\ \A k \in ToSet(cs) : OwnerOf[k] = walk.entity
          /\ ToSet(cs) \cap deleted = {}
  BY <1>1 DEF Inv, TypeOK, ListsOK
<1>4. Current \in ToSet(components[walk.entity]) /\ Current \in Components
  BY <1>2, <1>3, BeforeFacts DEF Current
<1>5. QED
  BY <1>2, <1>3, <1>4, EntityFacts

LEMMA SteppedFacts ==
  ASSUME Inv, walk \in Walk, walk # None, ~walk.dangling, walk.at # "entities",
         walk.base # walk.rend, walk' = Stepped, UNCHANGED <<entities, components, deleted>>
  PROVE  /\ walk' \in Walk /\ ~walk'.dangling
         /\ walk'.seen = walk.seen /\ walk'.was = walk.was
         /\ (EntityWalk /\ ComponentWalk /\ ColliderWalk)'
<1> DEFINE c == Current
<1>1. /\ c \in ToSet(components[walk.entity]) /\ c \in Components
      /\ components[walk.entity] # <<>>
      /\ walk.rend = Head(components[walk.entity])
  BY CurrentFacts
<1>2. walk' = [walk EXCEPT !.at = "components", !.base = c,
                           !.collider = None, !.l_c = None]
  BY DEF Stepped
<1> HIDE DEF c
<1>3. /\ walk' \in Walk /\ ~walk'.dangling
      /\ walk'.seen = walk.seen /\ walk'.was = walk.was
      /\ walk'.at = "components" /\ walk'.l_i = walk.l_i /\ walk'.entity = walk.entity
      /\ walk'.base = c /\ walk'.rend = walk.rend
      /\ walk'.collider = None /\ walk'.l_c = None
  BY <1>1, <1>2 DEF Walk, Loops
<1>4. EntityWalk
  BY DEF Inv, WalkOK
<1>5. (EntityWalk /\ ComponentWalk /\ ColliderWalk)'
  BY <1>1, <1>3, <1>4 DEF EntityWalk, ComponentWalk, ColliderWalk
<1>6. QED
  BY <1>3, <1>5

(* Where an update is in a call, or in the loop over colliders. *)
LEMMA InComponent ==
  ASSUME Inv, NEW place, At(place), place \in Calls \cup {"colliders"}
  PROVE  /\ walk \in Walk /\ walk # None /\ walk.at = place /\ ~walk.dangling
         /\ walk.at # "entities" /\ walk.at # "components" /\ walk.base # walk.rend
         /\ EntityWalk /\ ComponentWalk /\ ColliderWalk
<1>1. place # "entities" /\ place # "components"
  BY DEF Calls
<1>2. QED
  BY <1>1, OnTheWay DEF ComponentWalk

LEMMA StepKeeps ==
  ASSUME Inv, UpdateReturn \/ CollidersEnd
  PROVE  Inv' /\ walk' \in Walk
<1>1. At("update") \/ At("colliders")
  BY DEF UpdateReturn, CollidersEnd
<1>2. /\ walk \in Walk /\ walk # None /\ ~walk.dangling
      /\ walk.at # "entities" /\ walk.base # walk.rend
  BY <1>1, InComponent DEF Calls
<1>3. walk' = Stepped /\ UNCHANGED <<lists, killed, active, deleted>>
  BY DEF UpdateReturn, CollidersEnd
<1>4. UNCHANGED <<entities, components, deleted>>
  BY <1>3 DEF lists
<1>5. /\ walk' \in Walk /\ ~walk'.dangling
      /\ (EntityWalk /\ ComponentWalk /\ ColliderWalk)'
  BY <1>2, <1>3, <1>4, SteppedFacts
<1>6. QED
  BY <1>3, <1>5, SameListsKeep

LEMMA UpdateComponentKeeps ==
  ASSUME Inv, UpdateComponent
  PROVE  Inv' /\ walk' \in Walk
<1>1. /\ walk \in Walk /\ walk.at = "components" /\ ~walk.dangling
      /\ EntityWalk /\ ComponentWalk /\ ColliderWalk /\ walk.base # walk.rend
  BY OnTheWay DEF UpdateComponent
<1>2. walk' = [walk EXCEPT !.at = "update"]
  BY DEF UpdateComponent
<1>3. /\ walk' \in Walk /\ ~walk'.dangling /\ walk'.at = "update"
      /\ walk'.l_i = walk.l_i /\ walk'.entity = walk.entity
      /\ walk'.base = walk.base /\ walk'.rend = walk.rend
      /\ walk'.collider = walk.collider /\ walk'.l_c = walk.l_c
  BY <1>1, <1>2 DEF Walk, Calls
<1>4. UNCHANGED <<entities, components, colliders, killed, active, deleted>>
  BY DEF UpdateComponent, lists
<1>5. (EntityWalk /\ ComponentWalk /\ ColliderWalk)'
  BY <1>1, <1>3, <1>4 DEF EntityWalk, ComponentWalk, ColliderWalk
<1>6. QED
  BY <1>3, <1>4, <1>5, SameListsKeep DEF lists

(* A collider registers if it is not in the list. *)
LEMMA RegisteredFacts ==
  ASSUME Inv, NEW c \in Colliders, c \notin deleted
  PROVE  /\ Registered(c) \in Seq(Colliders) /\ IsInjective(Registered(c))
         /\ ToSet(Registered(c)) = ToSet(colliders) \cup {c}
         /\ ToSet(Registered(c)) \cap deleted = {}
<1>1. colliders \in Seq(Colliders) /\ IsInjective(colliders)
      /\ ToSet(colliders) \cap deleted = {}
  BY DEF Inv, TypeOK, ListsOK
<1>2. CASE c \in ToSet(colliders)
  BY <1>1, <1>2 DEF Registered
<1>3. CASE c \notin ToSet(colliders)
  BY <1>1, <1>3, AppendFacts DEF Registered
<1>4. QED
  BY <1>2, <1>3

LEMMA UpdateColliderKeeps ==
  ASSUME Inv, UpdateCollider
  PROVE  Inv' /\ walk' \in Walk
<1> DEFINE c == Current
           f == First(colliders')
<1>1. /\ walk \in Walk /\ walk # None /\ walk.at = "components" /\ ~walk.dangling
      /\ EntityWalk /\ ComponentWalk /\ ColliderWalk /\ walk.base # walk.rend
  BY OnTheWay DEF UpdateCollider
<1>2. c \in Colliders /\ c # None /\ c \notin deleted /\ OwnerOf[c] = walk.entity
  BY <1>1, CurrentFacts DEF UpdateCollider
<1>3. /\ UNCHANGED <<entities, components, killed, active, deleted>>
      /\ colliders' = Registered(c)
  BY DEF UpdateCollider
<1>4. /\ colliders' \in Seq(Colliders) /\ IsInjective(colliders')
      /\ ToSet(colliders') = ToSet(colliders) \cup {c}
      /\ ToSet(colliders') \cap deleted = {}
  BY <1>2, <1>3, RegisteredFacts
<1>5. ListsOK'
  BY <1>3, <1>4 DEF Inv, ListsOK
<1>6. /\ walk' \in Walk /\ ~walk'.dangling
      /\ (EntityWalk /\ ComponentWalk /\ ColliderWalk)'
  <2>1. CASE c \in active
    <3>1. f \in Colliders \cup {None} /\ f \in ToSet(colliders') \cup {None}
      BY <1>4, FirstFacts
    <3>2. walk' = [walk EXCEPT !.at = "colliders", !.collider = c, !.l_c = f]
      BY <2>1 DEF UpdateCollider
    <3> HIDE DEF c, f
    <3>3. /\ walk' \in Walk /\ ~walk'.dangling /\ walk'.at = "colliders"
          /\ walk'.l_i = walk.l_i /\ walk'.entity = walk.entity
          /\ walk'.base = walk.base /\ walk'.rend = walk.rend
          /\ walk'.collider = c /\ walk'.l_c = f
      BY <1>1, <1>2, <3>1, <3>2 DEF Walk, Loops
    <3>4. EntityWalk' /\ ComponentWalk'
      BY <1>1, <1>3, <3>3 DEF EntityWalk, ComponentWalk
    <3>5. ColliderWalk'
      BY <1>2, <3>1, <3>3 DEF ColliderWalk
    <3>6. QED
      BY <3>3, <3>4, <3>5
  <2>2. CASE c \notin active
    <3>1. walk' = Stepped
      BY <2>2 DEF UpdateCollider
    <3>2. QED
      BY <1>1, <1>3, <3>1, SteppedFacts
  <2>3. QED
    BY <2>1, <2>2
<1>7. TypeOK'
  BY <1>3, <1>4, <1>6 DEF Inv, TypeOK
<1>8. QED
  BY <1>5, <1>6, <1>7 DEF Inv, WalkOK

LEMMA CollisionKeeps ==
  ASSUME Inv, NoHit \/ Hit \/ OtherReturn \/ SelfReturn
  PROVE  Inv' /\ walk' \in Walk
<1>1. /\ walk \in Walk /\ walk # None /\ ~walk.dangling
      /\ walk.at \in {"colliders", "other", "self"} /\ walk.base # walk.rend
      /\ EntityWalk /\ ComponentWalk /\ ColliderWalk
  BY InComponent DEF NoHit, Hit, OtherReturn, SelfReturn, Calls
<1>2. UNCHANGED <<entities, components, colliders, killed, active, deleted>>
  BY DEF NoHit, Hit, OtherReturn, SelfReturn, lists
<1> DEFINE n == After(colliders, walk.l_c)
<1>3. walk.l_c # None => n \in ToSet(colliders) \cup {None} /\ n \in Colliders \cup {None}
  BY <1>1, EntityFacts, AfterFacts, ListElements DEF Inv, TypeOK, ListsOK, ColliderWalk
<1> HIDE DEF n
<1>4. PICK place \in {"colliders", "other", "self"},
           l_c \in ToSet(colliders) \cup {None} :
        /\ walk' = [walk EXCEPT !.at = place, !.l_c = l_c]
        /\ l_c \in Colliders \cup {None}
        /\ place # "colliders" => l_c # None
  <2>1. CASE NoHit \/ SelfReturn
    <3>1. walk.l_c # None
      BY <1>1, <2>1 DEF NoHit, SelfReturn, At, ColliderWalk
    <3>2. walk' = [walk EXCEPT !.at = "colliders", !.l_c = n]
      BY <1>1, <2>1 DEF NoHit, SelfReturn, At, n, Walk
    <3>3. QED
      BY <1>3, <3>1, <3>2
  <2>2. CASE Hit
    <3>1. walk.l_c # None /\ walk.l_c \in ToSet(colliders)
      BY <1>1, <2>2 DEF Hit, ColliderWalk
    <3>2. walk' = [walk EXCEPT !.at = "other", !.l_c = walk.l_c]
      BY <1>1, <2>2 DEF Hit, Walk
    <3>3. QED
      BY <1>1, <3>1, <3>2 DEF Walk
  <2>3. CASE OtherReturn
    <3>1. walk.l_c # None /\ walk.l_c \in ToSet(colliders)
      BY <1>1, <2>3 DEF OtherReturn, At, ColliderWalk
    <3>2. walk' = [walk EXCEPT !.at = "self", !.l_c = walk.l_c]
      BY <1>1, <2>3 DEF OtherReturn, Walk
    <3>3. QED
      BY <1>1, <3>1, <3>2 DEF Walk
  <2>4. QED
    BY <2>1, <2>2, <2>3
<1>5. place \in Loops \cup Calls
  BY DEF Loops, Calls
<1>6. /\ walk' \in Walk /\ ~walk'.dangling /\ walk'.at = place
      /\ walk'.l_i = walk.l_i /\ walk'.entity = walk.entity
      /\ walk'.base = walk.base /\ walk'.rend = walk.rend
      /\ walk'.collider = walk.collider /\ walk'.l_c = l_c
  BY <1>1, <1>4, <1>5 DEF Walk
<1>7. place # "components" /\ place # "entities" /\ walk.at # "entities"
  BY <1>1
<1>8. EntityWalk' /\ ComponentWalk'
  BY <1>1, <1>2, <1>6, <1>7 DEF EntityWalk, ComponentWalk
<1>9. ColliderWalk'
  BY <1>1, <1>2, <1>4, <1>6 DEF ColliderWalk
<1>10. QED
  BY <1>2, <1>6, <1>8, <1>9, SameListsKeep DEF lists

LEMMA InvKept ==
  Inv /\ [Next]_vars => Inv'
<1> SUFFICES ASSUME Inv, [Next]_vars PROVE Inv'
  OBVIOUS
<1>1. CASE Game
  BY <1>1, AddEntityKeeps, RemoveEntityKeeps, FlagsKeep, AddComponentKeeps,
     RemoveComponentKeeps DEF Game
<1>2. CASE UpdateBegin
  BY <1>2, UpdateBeginKeeps
<1>3. CASE Walking
  BY <1>3, BuryKeeps, UpdateEntityKeeps, ComponentsEndKeeps, UpdateComponentKeeps,
     UpdateColliderKeeps, CollisionKeeps, StepKeeps DEF Walking
<1>4. CASE Return
  BY <1>4, CollisionKeeps, StepKeeps DEF Return
<1>5. CASE UNCHANGED vars
  BY <1>5, FlagsKeep
<1>6. QED
  BY <1>1, <1>2, <1>3, <1>4, <1>5 DEF Next

LEMMA Sound == Spec => []Inv
<1>1. Init => Inv
  <2> SUFFICES ASSUME Init PROVE Inv
    OBVIOUS
  <2>1. TypeOK
    BY EntityFacts DEF Init, TypeOK
  <2>2. ToSet(entities) = {} /\ ToSet(colliders) = {}
        /\ IsInjective(entities) /\ IsInjective(colliders)
    BY DEF Init, ToSet, IsInjective
  <2>3. ListsOK
    BY <2>2, EntityFacts DEF Init, ListsOK
  <2>4. QED
    BY <2>1, <2>3 DEF Init, Inv, WalkOK
<1>2. QED
  BY <1>1, InvKept, PTL DEF Spec

(* The lists, flags and walks keep their types in every behaviour.         *)
THEOREM TypeCorrect == Spec => []TypeOK
<1>1. Inv => TypeOK
  BY DEF Inv
<1>2. QED
  BY <1>1, Sound, PTL

(* An update of the layer, its three walks within one another, uses no     *)
(* entity, component, collider or list node that was freed, whatever the   *)
(* code it calls adds, kills and removes, but for the removals NoDangling  *)
(* lists.                                                                  *)
THEOREM UpdateIsSafe == Spec => []NoDangling
<1>1. Inv => NoDangling
  BY DEF Inv, WalkOK, NoDangling
<1>2. QED
  BY <1>1, Sound, PTL

(* The collision layer knows each collider once and none that is deleted.  *)
THEOREM CollidersStayAlive == Spec => []CollidersAlive
<1>1. Inv => CollidersAlive
  BY DEF Inv, ListsOK, CollidersAlive
<1>2. QED
  BY <1>1, Sound, PTL

-----------------------------------------------------------------------------
(* The turns of the entities                                               *)
-----------------------------------------------------------------------------
(* Who follows an element in a list stays so when others come and go.      *)
LEMMA AfterIs ==
  ASSUME NEW S, NEW s \in Seq(S), IsInjective(s), None \notin S,
         NEW i \in 1..Len(s) - 1
  PROVE  After(s, s[i]) = s[i + 1]
<1>1. Len(s) \in Nat /\ DOMAIN s = 1..Len(s) /\ i \in 1..Len(s) /\ i + 1 \in 1..Len(s)
  OBVIOUS
<1>2. s[i] \in ToSet(s)
  BY <1>1 DEF ToSet
<1>3. Place(s, s[i]) = i
  BY <1>1, <1>2, PlaceFacts
<1>4. s[i] # Last(s)
  BY <1>1, <1>2, <1>3, NextFacts
<1>5. QED
  BY <1>3, <1>4 DEF After

LEMMA AfterPlace ==
  ASSUME NEW S, NEW s \in Seq(S), IsInjective(s), None \notin S,
         NEW x \in ToSet(s), After(s, x) # None
  PROVE  /\ Place(s, x) \in 1..Len(s) - 1
         /\ s[Place(s, x)] = x /\ s[Place(s, x) + 1] = After(s, x)
         /\ After(s, x) \in ToSet(s)
<1>1. /\ Place(s, x) \in 1..Len(s) /\ s[Place(s, x)] = x /\ Len(s) \in Nat
      /\ DOMAIN s = 1..Len(s)
  BY PlaceFacts
<1>2. x # Last(s) /\ After(s, x) = s[Place(s, x) + 1]
  BY DEF After
<1>3. Place(s, x) # Len(s)
  BY <1>1, <1>2, NextFacts
<1>4. QED
  BY <1>1, <1>2, <1>3 DEF ToSet

LEMMA AfterAppend ==
  ASSUME NEW S, NEW s \in Seq(S), IsInjective(s), None \notin S,
         NEW x \in ToSet(s), After(s, x) # None, NEW y \in S, y \notin ToSet(s)
  PROVE  After(Append(s, y), x) = After(s, x)
<1> DEFINE t == Append(s, y)
           p == Place(s, x)
<1>1. p \in 1..Len(s) - 1 /\ s[p] = x /\ s[p + 1] = After(s, x) /\ Len(s) \in Nat
  BY AfterPlace
<1>2. t \in Seq(S) /\ IsInjective(t)
  BY AppendFacts
<1>3. Len(t) = Len(s) + 1 /\ \A i \in 1..Len(s) : t[i] = s[i]
  OBVIOUS
<1> HIDE DEF t, p
<1>4. p \in 1..Len(t) - 1 /\ t[p] = x /\ t[p + 1] = After(s, x)
  BY <1>1, <1>3
<1>5. After(t, t[p]) = t[p + 1]
  BY <1>2, <1>4, AfterIs
<1>6. QED
  BY <1>4, <1>5 DEF t

LEMMA AfterWithout ==
  ASSUME NEW S, NEW s \in Seq(S), IsInjective(s), None \notin S,
         NEW x \in ToSet(s), After(s, x) # None,
         NEW f, f # x, f # After(s, x)
  PROVE  After(Without(s, f), x) = After(s, x)
<1>0. CASE f \notin ToSet(s)
  BY <1>0 DEF Without
<1>1. CASE f \in ToSet(s)
  <2> DEFINE t == Without(s, f)
             p == Place(s, x)
             k == Place(s, f)
             q == IF p < k THEN p ELSE p - 1
  <2>1. /\ p \in 1..Len(s) - 1 /\ s[p] = x /\ s[p + 1] = After(s, x)
        /\ k \in 1..Len(s) /\ s[k] = f /\ Len(s) \in Nat
    BY <1>1, AfterPlace, PlaceFacts
  <2>2. t = RemoveAt(s, k)
    BY <1>1 DEF Without
  <2>3. /\ Len(t) = Len(s) - 1
        /\ \A i \in 1..Len(s) - 1 : t[i] = IF i < k THEN s[i] ELSE s[i + 1]
    BY <2>1, <2>2, RemoveAtFacts
  <2>4. t \in Seq(S) /\ IsInjective(t)
    BY WithoutFacts
  <2> HIDE DEF t, p, k
  <2>5. k # p /\ k # p + 1
    BY <2>1
  <2>6. q \in 1..Len(t) - 1 /\ t[q] = x /\ t[q + 1] = After(s, x)
    <3>1. CASE p < k
      BY <2>1, <2>3, <2>5, <3>1
    <3>2. CASE ~(p < k)
      <4>1. q = p - 1 /\ p > k /\ p - 1 \in 1..Len(s) - 1 /\ p - 1 + 1 = p
        BY <2>1, <2>5, <3>2
      <4>2. t[p - 1] = s[p] /\ t[p] = s[p + 1]
        BY <2>1, <2>3, <2>5, <4>1
      <4>3. p - 1 \in 1..Len(t) - 1
        BY <2>1, <2>3, <4>1
      <4>4. QED
        BY <2>1, <4>1, <4>2, <4>3
    <3>3. QED
      BY <3>1, <3>2
  <2>7. After(t, t[q]) = t[q + 1]
    <3> HIDE DEF q
    <3>1. QED
      BY <2>4, <2>6, AfterIs
  <2>8. QED
    BY <2>6, <2>7 DEF t
<1>2. QED
  BY <1>0, <1>1

LEMMA PrefixFacts ==
  ASSUME NEW S, NEW s \in Seq(S)
  PROVE  /\ IsPrefix(s, s)
         /\ \A r \in Seq(S), x \in S : IsPrefix(r, s) => IsPrefix(r, Append(s, x))
<1>1. IsPrefix(s, s)
  BY DEF IsPrefix
<1>2. ASSUME NEW r \in Seq(S), NEW x \in S, IsPrefix(r, s)
      PROVE  IsPrefix(r, Append(s, x))
  <2>1. Len(r) \in Nat /\ Len(s) \in Nat /\ Len(r) <= Len(s)
    BY <1>2 DEF IsPrefix
  <2>2. \A i \in 1..Len(r) : Append(s, x)[i] = s[i]
    BY <2>1
  <2>3. SubSeq(Append(s, x), 1, Len(r)) = SubSeq(s, 1, Len(r))
    BY <2>1, <2>2
  <2>4. QED
    BY <1>2, <2>1, <2>3 DEF IsPrefix
<1>3. QED
  BY <1>1, <1>2

(* The turn of the first k entities has come: they were updated, in their  *)
(* order, or killed and deleted; and the walk is at the next of the others,*)
(* which still follow one another in the list of the layer.                *)
Turned(k) ==
  LET was == walk.was
      seen == walk.seen
      left == WithoutAll(SubSeq(was, 1, k), Entities \ ToSet(seen))
  IN  /\ \A i \in 1..k : was[i] \in ToSet(seen) \cup (killed \cap deleted)
      /\ \A i \in k + 1..Len(was) : was[i] \notin ToSet(seen) /\ was[i] \in ToSet(entities)
      /\ \A i \in k + 1..Len(was) - 1 : After(entities, was[i]) = was[i + 1]
      /\ k < Len(was) => walk.l_i = was[k + 1] /\ seen = left
      /\ IsPrefix(left, seen)

TurnsOK ==
  walk # None /\ ~walk.disturbed =>
    /\ walk.dead \subseteq killed /\ walk.dead \cap ToSet(walk.seen) = {}
    /\ IsInjective(walk.was)
    /\ walk.at # "entities" => walk.entity \in ToSet(walk.seen)
    /\ \E k \in 0..Len(walk.was) : Turned(k)

(* Steps that leave the walk over the entities where it is.                *)
Quiet ==
  walk' # None =>
    /\ walk # None
    /\ walk'.was = walk.was /\ walk'.seen = walk.seen /\ walk'.dead = walk.dead
    /\ walk'.l_i = walk.l_i
    /\ walk.disturbed => walk'.disturbed
    /\ walk'.at = "entities" \/ (walk.at # "entities" /\ walk'.entity = walk.entity)
    /\ entities' = entities /\ killed \subseteq killed' /\ deleted \subseteq deleted'

LEMMA QuietKeeps ==
  ASSUME TurnsOK, Quiet
  PROVE  TurnsOK'
<1> SUFFICES ASSUME walk' # None, ~walk'.disturbed
             PROVE  /\ (walk.dead \subseteq killed)' /\ (walk.dead \cap ToSet(walk.seen) = {})'
                    /\ IsInjective(walk'.was)
                    /\ walk'.at # "entities" => walk'.entity \in ToSet(walk'.seen)
                    /\ \E k \in 0..Len(walk'.was) : Turned(k)'
  BY DEF TurnsOK
<1>1. PICK k \in 0..Len(walk.was) : Turned(k)
  BY DEF TurnsOK, Quiet
<1>2. Turned(k)'
  BY <1>1 DEF Turned, Quiet
<1>3. QED
  BY <1>1, <1>2 DEF TurnsOK, Quiet

LEMMA QuietSteps ==
  ASSUME Inv,
         \/ \E e \in Entities : Kill(e)
         \/ \E c \in Components : AddComponent(c)
         \/ \E c \in Components, delete \in BOOLEAN : RemoveComponent(c, delete)
         \/ \E c \in Colliders : SetActive(c)
         \/ Return \/ UpdateComponent \/ UpdateCollider \/ ComponentsEnd
         \/ NoHit \/ Hit \/ CollidersEnd \/ UpdateEnd
         \/ UNCHANGED vars
  PROVE  Quiet
<1>1. CASE \/ \E e \in Entities : Kill(e)
           \/ \E c \in Components : AddComponent(c)
           \/ \E c \in Colliders : SetActive(c)
           \/ UNCHANGED vars
  <2>1. walk' = walk /\ entities' = entities /\ killed \subseteq killed' /\ deleted' = deleted
    BY <1>1 DEF Kill, AddComponent, SetActive, vars, lists
  <2>2. QED
    BY <2>1 DEF Quiet
<1>2. ASSUME NEW c \in Components, NEW delete \in BOOLEAN, RemoveComponent(c, delete)
      PROVE  Quiet
  <2> DEFINE d == \/ c \in {walk.base, walk.rend}
                  \/ delete /\ c \in {walk.collider, walk.l_c}
             b == \/ OwnerOf[c] = walk.entity
                  \/ delete /\ c = walk.l_c
  <2>1. /\ walk' = Noted(d, b) /\ d \in BOOLEAN /\ b \in BOOLEAN /\ GameRuns
        /\ entities' = entities /\ killed' = killed /\ deleted \subseteq deleted'
    BY <1>2 DEF RemoveComponent
  <2> HIDE DEF d, b
  <2>2. CASE walk = None
    BY <2>1, <2>2 DEF Noted, Quiet
  <2>3. CASE walk # None
    <3>1. walk \in Walk /\ walk.at \in Calls /\ walk.at # "entities"
      BY <2>1, <2>3, InCall DEF Loops
    <3>2. QED
      BY <2>1, <2>3, <3>1, NotedFacts DEF Quiet, SamePlace
  <2>4. QED
    BY <2>2, <2>3
<1>3. CASE UpdateEnd
  BY <1>3 DEF UpdateEnd, Quiet
<1>4. CASE Return \/ UpdateComponent \/ UpdateCollider \/ ComponentsEnd
           \/ NoHit \/ Hit \/ CollidersEnd
  <2>1. walk \in Walk /\ walk # None
    BY <1>4, OnTheWay DEF Return, UpdateReturn, OtherReturn, SelfReturn, UpdateComponent,
       UpdateCollider, ComponentsEnd, NoHit, Hit, CollidersEnd
  <2>2. entities' = entities /\ killed' = killed /\ deleted' = deleted
    BY <1>4 DEF Return, UpdateReturn, OtherReturn, SelfReturn, UpdateComponent,
       UpdateCollider, ComponentsEnd, NoHit, Hit, CollidersEnd, lists
  <2>3. CASE ComponentsEnd
    BY <2>1, <2>2, <2>3 DEF ComponentsEnd, Quiet, Walk
  <2>4. CASE UpdateReturn \/ UpdateCollider \/ CollidersEnd
    <3>1. walk.at # "entities"
      BY <2>4 DEF UpdateReturn, UpdateCollider, CollidersEnd, At
    <3>2. \/ walk' = Stepped
          \/ walk' = [walk EXCEPT !.at = "colliders", !.collider = Current,
                                  !.l_c = First(colliders')]
      BY <2>4 DEF UpdateReturn, UpdateCollider, CollidersEnd
    <3>3. QED
      BY <2>1, <2>2, <3>1, <3>2 DEF Quiet, Walk, Stepped
  <2>5. CASE UpdateComponent \/ NoHit \/ Hit \/ OtherReturn \/ SelfReturn
    <3>1. walk.at # "entities"
      BY <2>5 DEF UpdateComponent, NoHit, Hit, OtherReturn, SelfReturn, At
    <3>2. \/ \E place : walk' = [walk EXCEPT !.at = place]
          \/ \E l_c : walk' = [walk EXCEPT !.l_c = l_c]
          \/ \E l_c : walk' = [walk EXCEPT !.at = "colliders", !.l_c = l_c]
      BY <2>5 DEF UpdateComponent, NoHit, Hit, OtherReturn, SelfReturn
    <3>3. QED
      BY <2>1, <2>2, <3>1, <3>2 DEF Quiet, Walk
  <2>6. QED
    BY <1>4, <2>3, <2>4, <2>5 DEF Return
<1>5. QED
  BY <1>1, <1>2, <1>3, <1>4

LEMMA AddEntityTurns ==
  ASSUME Inv, TurnsOK, NEW e \in Entities, AddEntity(e)
  PROVE  TurnsOK'
<1> SUFFICES ASSUME walk # None, ~walk.disturbed
             PROVE  \E k \in 0..Len(walk.was) : Turned(k)'
  BY DEF TurnsOK, AddEntity
<1>1. PICK k \in 0..Len(walk.was) : Turned(k)
  BY DEF TurnsOK
<1>2. /\ entities \in Seq(Entities) /\ IsInjective(entities) /\ e \notin ToSet(entities)
      /\ entities' = Append(entities, e) /\ walk' = walk
      /\ killed' = killed /\ deleted' = deleted
      /\ walk.was \in Seq(Entities)
  BY DEF Inv, TypeOK, ListsOK, AddEntity, Walk
<1>3. ToSet(entities') = ToSet(entities) \cup {e}
  BY <1>2, AppendFacts
<1>4. ASSUME NEW i \in k + 1..Len(walk.was) - 1
      PROVE  After(entities', walk.was[i]) = walk.was[i + 1]
  <2>1. walk.was[i] \in ToSet(entities) /\ After(entities, walk.was[i]) = walk.was[i + 1]
    BY <1>1, <1>2 DEF Turned
  <2>2. i + 1 \in 1..Len(walk.was)
    BY <1>2
  <2>3. walk.was[i + 1] \in Entities /\ walk.was[i + 1] # None
    BY <1>2, <2>2, EntityFacts
  <2>4. After(Append(entities, e), walk.was[i]) = walk.was[i + 1]
    <3> DEFINE x == walk.was[i]
    <3>1. x \in ToSet(entities) /\ After(entities, x) # None
      BY <2>1, <2>3
    <3> HIDE DEF x
    <3>2. After(Append(entities, e), x) = After(entities, x)
      BY <1>2, <3>1, AfterAppend, EntityFacts
    <3>3. QED
      BY <2>1, <3>2 DEF x
  <2>5. QED
    BY <1>2, <2>4
<1>5. Turned(k)'
  BY <1>1, <1>2, <1>3, <1>4 DEF Turned
<1>6. QED
  BY <1>2, <1>5

LEMMA RemoveEntityTurns ==
  ASSUME Inv, TurnsOK, NEW e \in Entities, NEW delete \in BOOLEAN,
         RemoveEntity(e, delete)
  PROVE  TurnsOK'
<1> DEFINE d == \/ e = walk.l_i
                \/ /\ delete
                   /\ \/ e = walk.entity
                      \/ walk.l_c \in ToSet(components[e])
           b == delete \/ e # walk.entity
<1>0. /\ entities' = Without(entities, e) /\ killed' = killed /\ GameRuns
      /\ walk' = Noted(d, b) /\ d \in BOOLEAN /\ b \in BOOLEAN
      /\ ~delete => deleted' = deleted
  BY DEF RemoveEntity
<1> HIDE DEF d
<1>1. CASE walk = None
  BY <1>0, <1>1 DEF Noted, TurnsOK
<1>2. CASE walk # None
  <2>1. walk \in Walk /\ walk.at \in Calls /\ walk.at # "entities"
    BY <1>0, <1>2, InCall DEF Loops
  <2>2. /\ walk' \in Walk /\ SamePlace
        /\ walk'.was = walk.was /\ walk'.dead = walk.dead /\ walk'.seen = walk.seen
        /\ walk'.disturbed = (walk.disturbed \/ b)
    BY <1>0, <1>2, <2>1, NotedFacts
  <2>3. SUFFICES ASSUME ~walk.disturbed, ~b
                 PROVE  TurnsOK'
    BY <2>2 DEF TurnsOK
  <2>4. /\ e = walk.entity /\ deleted' = deleted /\ e \in ToSet(walk.seen)
        /\ e # None
    BY <1>0, <1>2, <2>1, <2>3, EntityFacts DEF TurnsOK
  <2>5. PICK k \in 0..Len(walk.was) : Turned(k)
    BY <1>2, <2>3 DEF TurnsOK
  <2>6. /\ entities \in Seq(Entities) /\ IsInjective(entities)
        /\ walk.was \in Seq(Entities)
        /\ ToSet(entities') = ToSet(entities) \ {e}
    BY <1>0, <2>1, WithoutFacts DEF Inv, TypeOK, ListsOK, Walk
  <2>7. \A i \in k + 1..Len(walk.was) :
          walk.was[i] # e /\ walk.was[i] \in ToSet(entities)
    BY <2>4, <2>5 DEF Turned
  <2>8. ASSUME NEW i \in k + 1..Len(walk.was) - 1
        PROVE  After(entities', walk.was[i]) = walk.was[i + 1]
    <3>1. walk.was[i] \in ToSet(entities) /\ After(entities, walk.was[i]) = walk.was[i + 1]
      BY <2>5, <2>6 DEF Turned
    <3>2. walk.was[i + 1] \in Entities /\ walk.was[i] # e /\ walk.was[i + 1] # e
      BY <2>6, <2>7
    <3>3. QED
      BY <1>0, <2>6, <3>1, <3>2, AfterWithout, EntityFacts
  <2>9. Turned(k)'
    <3>1. walk'.l_i = walk.l_i
      BY <2>2 DEF SamePlace
    <3>2. QED
      BY <1>0, <2>2, <2>4, <2>5, <2>6, <2>7, <2>8, <3>1 DEF Turned
  <2>10. QED
    BY <1>0, <1>2, <2>2, <2>3, <2>4, <2>5, <2>9 DEF TurnsOK, SamePlace
<1>3. QED
  BY <1>1, <1>2

LEMMA UpdateBeginTurns ==
  ASSUME Inv, UpdateBegin
  PROVE  TurnsOK'
<1> DEFINE f == First(entities)
           z == killed \cap ToSet(entities)
<1>1. walk' = [at |-> "entities", l_i |-> f, entity |-> None,
               base |-> None, rend |-> None, collider |-> None, l_c |-> None,
               dangling |-> FALSE, was |-> entities, dead |-> z, seen |-> <<>>,
               disturbed |-> FALSE]
  BY DEF UpdateBegin
<1> HIDE DEF f, z
<1>2. /\ walk'.at = "entities" /\ walk'.l_i = f /\ walk'.was = entities
      /\ walk'.dead = z /\ walk'.seen = <<>>
  BY <1>1
<1>3. /\ entities \in Seq(Entities) /\ IsInjective(entities) /\ Len(entities) \in Nat
      /\ entities' = entities /\ killed' = killed
      /\ DOMAIN entities = 1..Len(entities)
  BY DEF Inv, TypeOK, ListsOK, UpdateBegin, lists
<1>4. z \subseteq killed /\ ToSet(<<>>) = {}
  BY DEF z, ToSet
<1>5. Turned(0)'
  <2>1. SubSeq(entities, 1, 0) = <<>>
    BY <1>3
  <2>2. WithoutAll(<<>>, Entities \ ToSet(<<>>)) = <<>>
    BY WithoutAllEmpty
  <2>3. IsPrefix(<<>>, <<>>)
    <3>1. <<>> \in Seq(Entities)
      OBVIOUS
    <3>2. QED
      BY <3>1, PrefixFacts
  <2>4. \A i \in 1..Len(entities) : entities[i] \in ToSet(entities)
    BY <1>3 DEF ToSet
  <2>5. \A i \in 1..Len(entities) - 1 : After(entities, entities[i]) = entities[i + 1]
    BY <1>3, AfterIs, EntityFacts
  <2>6. 0 < Len(entities) => f = entities[1]
    BY <1>3 DEF f, First
  <2>7. 0 + 1 = 1 /\ 1..0 = {}
    OBVIOUS
  <2>8. QED
    BY <1>2, <1>3, <1>4, <2>1, <2>2, <2>3, <2>4, <2>5, <2>6, <2>7 DEF Turned
<1>6. 0 \in 0..Len(walk'.was)
  BY <1>2, <1>3
<1>7. QED
  BY <1>2, <1>3, <1>4, <1>5, <1>6 DEF TurnsOK

(* What is left of the first k + 1 entities. *)
LEMMA LeftGrows ==
  ASSUME NEW was \in Seq(Entities), NEW k \in 0..Len(was) - 1, NEW xs
  PROVE  /\ was[k + 1] \in Entities
         /\ SubSeq(was, 1, k) \in Seq(Entities) /\ Len(SubSeq(was, 1, k)) = k
         /\ \A i \in 1..k : SubSeq(was, 1, k)[i] = was[i]
         /\ WithoutAll(SubSeq(was, 1, k + 1), xs) =
              IF was[k + 1] \in xs THEN WithoutAll(SubSeq(was, 1, k), xs)
              ELSE Append(WithoutAll(SubSeq(was, 1, k), xs), was[k + 1])
<1>1. Len(was) \in Nat /\ k \in Nat /\ k + 1 \in 1..Len(was) /\ was[k + 1] \in Entities
  OBVIOUS
<1>2. /\ SubSeq(was, 1, k) \in Seq(Entities) /\ Len(SubSeq(was, 1, k)) = k
      /\ \A i \in 1..k : SubSeq(was, 1, k)[i] = was[i]
  BY <1>1
<1>3. SubSeq(was, 1, k + 1) = Append(SubSeq(was, 1, k), was[k + 1])
  BY <1>1
<1> DEFINE front == SubSeq(was, 1, k)
           e == was[k + 1]
<1>4. front \in Seq(Entities) /\ e \in Entities
  BY <1>1, <1>2
<1> HIDE DEF front, e
<1>5. WithoutAll(Append(front, e), xs) =
        IF e \in xs THEN WithoutAll(front, xs) ELSE Append(WithoutAll(front, xs), e)
  BY <1>4, WithoutAllAppend
<1>6. QED
  BY <1>1, <1>2, <1>3, <1>5 DEF front, e

(* What the next turn does to those that are behind the walk: those whose  *)
(* turn has come are e and the ones before, seen has e in one case.        *)
LEMMA TurnPasses ==
  ASSUME NEW was \in Seq(Entities), IsInjective(was),
         NEW seen \in Seq(Entities), NEW k \in 0..Len(was) - 1,
         \A i \in k + 1..Len(was) : was[i] \notin ToSet(seen),
         seen = WithoutAll(SubSeq(was, 1, k), Entities \ ToSet(seen)),
         NEW now, now = seen \/ now = Append(seen, was[k + 1])
  PROVE  /\ now = WithoutAll(SubSeq(was, 1, k + 1), Entities \ ToSet(now))
         /\ \A i \in k + 2..Len(was) : was[i] \notin ToSet(now)
<1> DEFINE e == was[k + 1]
           front == SubSeq(was, 1, k)
<1>1. /\ e \in Entities /\ front \in Seq(Entities) /\ Len(front) = k
      /\ \A i \in 1..k : front[i] = was[i]
      /\ \A xs : WithoutAll(SubSeq(was, 1, k + 1), xs) =
                   IF e \in xs THEN WithoutAll(front, xs)
                   ELSE Append(WithoutAll(front, xs), e)
  BY LeftGrows
<1>2. /\ Len(was) \in Nat /\ k \in Nat /\ DOMAIN was = 1..Len(was)
      /\ \A i \in 1..Len(was) : i # k + 1 => was[i] # e
      /\ e \notin ToSet(seen)
  BY DEF IsInjective
<1> HIDE DEF e, front
<1>3. CASE now = seen
  <2>1. WithoutAll(SubSeq(was, 1, k + 1), Entities \ ToSet(now)) = seen
    BY <1>1, <1>2, <1>3 DEF front
  <2>2. QED
    BY <1>2, <1>3, <2>1
<1>4. CASE now = Append(seen, e)
  <2>1. ToSet(now) = ToSet(seen) \cup {e}
    BY <1>1, <1>4, AppendFacts
  <2> DEFINE xs == Entities \ ToSet(now)
             ys == Entities \ ToSet(seen)
  <2>2. \A i \in 1..Len(front) : front[i] \in xs <=> front[i] \in ys
    <3>1. \A i \in 1..k : front[i] # e
      BY <1>1, <1>2
    <3>2. QED
      BY <1>1, <2>1, <3>1
  <2>3. Len(front) \in Nat
    BY <1>1, <1>2
  <2>4. e \notin xs
    BY <2>1
  <2> HIDE DEF xs, ys
  <2>5. WithoutAll(front, xs) = WithoutAll(front, ys)
    BY <2>2, <2>3, WithoutAllSame
  <2>6. seen = WithoutAll(front, ys)
    BY DEF front, ys
  <2>7. WithoutAll(SubSeq(was, 1, k + 1), xs) = Append(seen, e)
    BY <1>1, <2>4, <2>5, <2>6
  <2>8. now = WithoutAll(SubSeq(was, 1, k + 1), Entities \ ToSet(now))
    BY <1>4, <2>7 DEF xs
  <2>9. QED
    BY <1>2, <2>1, <2>8
<1>5. QED
  BY <1>3, <1>4 DEF e

(* The next entity of the walk: it is of those that were there, or they    *)
(* all had their turn.                                                     *)
LEMMA NextInTurn ==
  ASSUME Inv, TurnsOK, walk # None, ~walk.disturbed, At("entities"), walk.l_i # None
  PROVE  /\ walk \in Walk /\ entities \in Seq(Entities) /\ IsInjective(entities)
         /\ walk.l_i \in ToSet(entities) /\ walk.l_i \in Entities
         /\ walk.l_i \notin deleted
         /\ walk.was \in Seq(Entities) /\ IsInjective(walk.was)
         /\ walk.seen \in Seq(Entities)
         /\ walk.dead \subseteq killed /\ walk.dead \cap ToSet(walk.seen) = {}
<1>1. walk \in Walk /\ EntityWalk
  BY OnTheWay
<1>2. QED
  BY <1>1 DEF EntityWalk, Inv, TypeOK, ListsOK, TurnsOK, Walk

LEMMA BuryTurns ==
  ASSUME Inv, TurnsOK, Bury
  PROVE  TurnsOK'
<1> DEFINE e == walk.l_i
           n == After(entities, e)
<1>0. /\ At("entities") /\ walk.l_i # None /\ e \in killed
      /\ entities' = Without(entities, e) /\ e \in deleted' /\ deleted \subseteq deleted'
      /\ killed' = killed /\ walk' = [walk EXCEPT !.l_i = n] /\ walk # None
  BY DEF Bury, At
<1> HIDE DEF n
<1>1. walk \in Walk
  BY <1>0, OnTheWay
<1>2. /\ walk'.at = walk.at /\ walk'.l_i = n /\ walk'.entity = walk.entity
      /\ walk'.was = walk.was /\ walk'.seen = walk.seen /\ walk'.dead = walk.dead
      /\ walk'.disturbed = walk.disturbed
  BY <1>0, <1>1 DEF Walk
<1> SUFFICES ASSUME ~walk.disturbed
             PROVE  \E k \in 0..Len(walk.was) : Turned(k)'
  BY <1>0, <1>2 DEF TurnsOK
<1>3. /\ entities \in Seq(Entities) /\ IsInjective(entities)
      /\ e \in ToSet(entities) /\ e \in Entities /\ e \notin deleted
      /\ walk.was \in Seq(Entities) /\ IsInjective(walk.was)
      /\ walk.seen \in Seq(Entities) /\ Len(walk.was) \in Nat
  BY <1>0, NextInTurn
<1>4. PICK k \in 0..Len(walk.was) : Turned(k)
  BY <1>0 DEF TurnsOK
<1>5. ToSet(entities') = ToSet(entities) \ {e}
  BY <1>0, <1>3, WithoutFacts
<1>6. CASE k = Len(walk.was)
  <2>1. k + 1..Len(walk.was) = {} /\ k + 1..Len(walk.was) - 1 = {}
    BY <1>3, <1>6
  <2>2. Turned(k)'
    BY <1>0, <1>2, <1>4, <1>6, <2>1 DEF Turned
  <2>3. QED
    BY <2>2
<1>7. CASE k # Len(walk.was)
  <2>1. k < Len(walk.was) /\ k \in 0..Len(walk.was) - 1 /\ k + 1 \in 1..Len(walk.was)
    BY <1>3, <1>7
  <2>2. /\ e = walk.was[k + 1]
        /\ walk.seen = WithoutAll(SubSeq(walk.was, 1, k), Entities \ ToSet(walk.seen))
        /\ \A i \in k + 1..Len(walk.was) : walk.was[i] \notin ToSet(walk.seen)
    BY <1>4, <2>1 DEF Turned
  <2>3. /\ walk.seen = WithoutAll(SubSeq(walk.was, 1, k + 1), Entities \ ToSet(walk.seen))
        /\ \A i \in k + 2..Len(walk.was) : walk.was[i] \notin ToSet(walk.seen)
    <3> DEFINE was == walk.was
               seen == walk.seen
    <3>1. /\ was \in Seq(Entities) /\ IsInjective(was) /\ seen \in Seq(Entities)
          /\ \A i \in k + 1..Len(was) : was[i] \notin ToSet(seen)
          /\ seen = WithoutAll(SubSeq(was, 1, k), Entities \ ToSet(seen))
          /\ k \in 0..Len(was) - 1
      BY <1>3, <2>1, <2>2
    <3> HIDE DEF was, seen
    <3>2. /\ seen = WithoutAll(SubSeq(was, 1, k + 1), Entities \ ToSet(seen))
          /\ \A i \in k + 2..Len(was) : was[i] \notin ToSet(seen)
      BY ONLY <3>1, TurnPasses
    <3>3. QED
      BY <3>2 DEF was, seen
  <2>4. \A i \in 1..Len(walk.was) : i # k + 1 => walk.was[i] # e
    BY <1>3, <2>1, <2>2 DEF IsInjective
  <2>5. \A i \in 1..k + 1 : walk.was[i] \in ToSet(walk.seen) \cup (killed \cap deleted')
    <3>1. \A i \in 1..k : walk.was[i] \in ToSet(walk.seen) \cup (killed \cap deleted)
      BY <1>4 DEF Turned
    <3>2. QED
      BY <1>0, <1>3, <2>1, <2>2, <3>1
  <2>6. \A i \in k + 2..Len(walk.was) :
          walk.was[i] \notin ToSet(walk.seen) /\ walk.was[i] \in ToSet(entities')
    <3>1. \A i \in k + 1..Len(walk.was) : walk.was[i] \in ToSet(entities)
      BY <1>4 DEF Turned
    <3>2. QED
      BY <1>3, <1>5, <2>1, <2>3, <2>4, <3>1
  <2>7. ASSUME NEW i \in k + 2..Len(walk.was) - 1
        PROVE  After(entities', walk.was[i]) = walk.was[i + 1]
    <3> DEFINE x == walk.was[i]
               y == walk.was[i + 1]
    <3>1. /\ i \in k + 1..Len(walk.was) - 1 /\ i \in k + 1..Len(walk.was)
          /\ i \in 1..Len(walk.was) /\ i # k + 1
          /\ i + 1 \in 1..Len(walk.was) /\ i + 1 # k + 1
      BY <1>3, <2>1
    <3>2. x \in ToSet(entities) /\ After(entities, x) = y
      BY <1>4, <3>1 DEF Turned
    <3>3. y \in Entities /\ y # None /\ x # e /\ y # e
      BY <1>3, <2>4, <3>1, EntityFacts
    <3> HIDE DEF x, y
    <3>4. After(Without(entities, e), x) = After(entities, x)
      BY <1>3, <3>2, <3>3, AfterWithout, EntityFacts
    <3>5. QED
      BY <1>0, <3>2, <3>4 DEF x, y
  <2>8. k + 1 < Len(walk.was) => n = walk.was[k + 2]
    <3>1. SUFFICES ASSUME k + 1 < Len(walk.was) PROVE n = walk.was[k + 2]
      OBVIOUS
    <3>2. k + 1 \in k + 1..Len(walk.was) - 1
      BY <1>3, <2>1, <3>1
    <3>3. After(entities, walk.was[k + 1]) = walk.was[k + 1 + 1] /\ k + 1 + 1 = k + 2
      BY <1>4, <3>2 DEF Turned
    <3>4. QED
      BY <2>2, <3>3 DEF n
  <2>9. IsPrefix(walk.seen, walk.seen)
    BY <1>3, PrefixFacts
  <2>10. k + 1 \in 0..Len(walk.was) /\ k + 1 + 1 = k + 2
    BY <1>3, <2>1
  <2>11. Turned(k + 1)'
    BY <1>0, <1>2, <2>3, <2>5, <2>6, <2>7, <2>8, <2>9, <2>10 DEF Turned
  <2>12. QED
    BY <2>10, <2>11
<1>8. QED
  BY <1>6, <1>7

LEMMA UpdateEntityTurns ==
  ASSUME Inv, TurnsOK, UpdateEntity
  PROVE  TurnsOK'
<1> DEFINE e == walk.l_i
           n == After(entities, e)
           f == First(components[e])
           now == Noticed(e)
           was == walk.was
           seen == walk.seen
<1>0. /\ At("entities") /\ e # None /\ e \notin killed /\ walk # None
      /\ entities' = entities /\ deleted' = deleted /\ killed' = killed
      /\ walk' = [walk EXCEPT !.at = "components", !.entity = e, !.l_i = n,
                    !.base = None, !.rend = f, !.seen = now]
  BY DEF UpdateEntity, At, lists
<1>1. walk \in Walk
  BY <1>0, OnTheWay
<1> HIDE DEF n, f, now
<1>2. /\ walk'.entity = e /\ walk'.l_i = n /\ walk'.seen = now
      /\ walk'.was = was /\ walk'.dead = walk.dead
      /\ walk'.disturbed = walk.disturbed
  BY <1>0, <1>1 DEF Walk
<1> SUFFICES ASSUME ~walk.disturbed
             PROVE  TurnsOK'
  BY <1>2 DEF TurnsOK
<1>3. /\ entities \in Seq(Entities) /\ IsInjective(entities)
      /\ e \in ToSet(entities) /\ e \in Entities /\ e \notin deleted
      /\ was \in Seq(Entities) /\ IsInjective(was)
      /\ seen \in Seq(Entities) /\ Len(was) \in Nat
      /\ walk.dead \subseteq killed /\ walk.dead \cap ToSet(seen) = {}
  BY <1>0, NextInTurn
<1>4. PICK k \in 0..Len(was) : Turned(k)
  BY <1>0 DEF TurnsOK
<1>5. /\ now \in {seen, Append(seen, e)} /\ now \in Seq(Entities)
      /\ ToSet(now) = ToSet(seen) \cup {e}
  <2>1. CASE e \in ToSet(seen)
    BY <1>3, <2>1 DEF now, Noticed
  <2>2. CASE e \notin ToSet(seen)
    BY <1>3, <2>2, AppendFacts DEF now, Noticed
  <2>3. QED
    BY <2>1, <2>2
<1>6. SUFFICES ASSUME TRUE PROVE \E j \in 0..Len(was) : Turned(j)'
  <2>1. walk.dead \cap ToSet(now) = {}
    BY <1>0, <1>3, <1>5
  <2>2. e \in ToSet(now)
    BY <1>5
  <2>3. QED
    BY <1>0, <1>2, <1>3, <2>1, <2>2 DEF TurnsOK
<1>7. CASE k = Len(was)
  <2> DEFINE front == SubSeq(was, 1, k)
             xs == Entities \ ToSet(now)
             ys == Entities \ ToSet(seen)
  <2>1. /\ k + 1..Len(was) = {} /\ k + 1..Len(was) - 1 = {}
        /\ front \in Seq(Entities) /\ Len(front) = k
        /\ \A i \in 1..k : front[i] = was[i]
    BY <1>3, <1>7
  <2>2. \A i \in 1..k : was[i] \in ToSet(seen) \cup (killed \cap deleted)
    BY <1>4 DEF Turned
  <2>3. IsPrefix(WithoutAll(front, ys), seen)
    BY <1>4 DEF Turned
  <2>4. \A i \in 1..Len(front) : front[i] \in xs <=> front[i] \in ys
    BY <1>3, <1>5, <2>1, <2>2
  <2> HIDE DEF xs, ys, front
  <2>5. WithoutAll(front, xs) = WithoutAll(front, ys)
    BY <1>3, <1>7, <2>1, <2>4, WithoutAllSame
  <2>6. WithoutAll(front, ys) \in Seq(Entities)
    BY <2>1, WithoutAllFacts
  <2>7. IsPrefix(WithoutAll(front, xs), now)
    <3> HIDE DEF e, seen
    <3>1. \A r \in Seq(Entities) : IsPrefix(r, seen) => IsPrefix(r, Append(seen, e))
      BY <1>3, PrefixFacts
    <3>2. QED
      BY <1>5, <2>3, <2>5, <2>6, <3>1
  <2>8. \A i \in 1..k : was[i] \in ToSet(now) \cup (killed \cap deleted)
    BY <1>5, <2>2
  <2>9. Turned(k)'
    BY <1>0, <1>2, <1>7, <2>1, <2>7, <2>8 DEF Turned, xs, front
  <2>10. QED
    BY <1>4, <2>9
<1>8. CASE k # Len(was)
  <2>1. k < Len(was) /\ k \in 0..Len(was) - 1 /\ k + 1 \in 1..Len(was)
    BY <1>3, <1>8
  <2>2. /\ e = was[k + 1]
        /\ seen = WithoutAll(SubSeq(was, 1, k), Entities \ ToSet(seen))
        /\ \A i \in k + 1..Len(was) : was[i] \notin ToSet(seen) /\ was[i] \in ToSet(entities)
        /\ \A i \in 1..k : was[i] \in ToSet(seen) \cup (killed \cap deleted)
        /\ \A i \in k + 1..Len(was) - 1 : After(entities, was[i]) = was[i + 1]
    BY <1>4, <2>1 DEF Turned
  <2> HIDE DEF was, seen
  <2>3. /\ now = WithoutAll(SubSeq(was, 1, k + 1), Entities \ ToSet(now))
        /\ \A i \in k + 2..Len(was) : was[i] \notin ToSet(now)
    <3>1. /\ was \in Seq(Entities) /\ IsInjective(was) /\ seen \in Seq(Entities)
          /\ \A i \in k + 1..Len(was) : was[i] \notin ToSet(seen)
          /\ seen = WithoutAll(SubSeq(was, 1, k), Entities \ ToSet(seen))
          /\ k \in 0..Len(was) - 1 /\ (now = seen \/ now = Append(seen, was[k + 1]))
      BY <1>3, <1>5, <2>1, <2>2
    <3>2. QED
      BY ONLY <3>1, TurnPasses
  <2>4. \A i \in 1..k + 1 : was[i] \in ToSet(now) \cup (killed \cap deleted)
    BY <1>3, <1>5, <2>1, <2>2
  <2>5. /\ \A i \in k + 2..Len(was) : was[i] \in ToSet(entities)
        /\ \A i \in k + 2..Len(was) - 1 : After(entities, was[i]) = was[i + 1]
    BY <1>3, <2>1, <2>2
  <2>6. k + 1 < Len(was) => n = was[k + 2]
    <3>1. SUFFICES ASSUME k + 1 < Len(was) PROVE n = was[k + 2]
      OBVIOUS
    <3>2. k + 1 \in k + 1..Len(was) - 1 /\ k + 1 + 1 = k + 2
      BY <1>3, <2>1, <3>1
    <3>3. After(entities, was[k + 1]) = was[k + 2]
      BY <2>2, <3>2
    <3>4. QED
      BY <2>2, <3>3 DEF n
  <2>7. IsPrefix(now, now)
    BY <1>5, PrefixFacts
  <2>8. k + 1 \in 0..Len(was) /\ k + 1 + 1 = k + 2
    BY <1>3, <2>1
  <2>9. Turned(k + 1)'
    BY <1>0, <1>2, <2>3, <2>4, <2>5, <2>6, <2>7, <2>8 DEF Turned
  <2>10. QED
    BY <2>8, <2>9
<1>9. QED
  BY <1>7, <1>8

LEMMA TurnsKept ==
  Inv /\ TurnsOK /\ [Next]_vars => TurnsOK'
<1> SUFFICES ASSUME Inv, TurnsOK, [Next]_vars PROVE TurnsOK'
  OBVIOUS
<1>1. ASSUME NEW e \in Entities, AddEntity(e) PROVE TurnsOK'
  BY <1>1, AddEntityTurns
<1>2. ASSUME NEW e \in Entities, NEW delete \in BOOLEAN, RemoveEntity(e, delete)
      PROVE  TurnsOK'
  BY <1>2, RemoveEntityTurns
<1>3. CASE UpdateBegin
  BY <1>3, UpdateBeginTurns
<1>4. CASE Bury
  BY <1>4, BuryTurns
<1>5. CASE UpdateEntity
  BY <1>5, UpdateEntityTurns
<1>6. ASSUME Quiet PROVE TurnsOK'
  BY <1>6, QuietKeeps
<1>7. QED
  BY <1>1, <1>2, <1>3, <1>4, <1>5, <1>6, QuietSteps DEF Next, Game, Walking

(* An update in which the code it calls keeps to the limits of NoDangling  *)
(* comes by all entities that were there in their order: each is updated,  *)
(* or was killed before its turn and is deleted; none that was dead before *)
(* is updated.                                                             *)
THEOREM EntitiesTakeTurns == Spec => []UpdatedInTurn
<1>1. Init => TurnsOK
  BY DEF Init, TurnsOK
<1>2. Inv /\ TurnsOK => UpdatedInTurn
  <2> SUFFICES ASSUME Inv, TurnsOK, Finished, ~walk.disturbed
               PROVE  LET updated == ToSet(walk.seen)
                      IN  /\ IsPrefix(WithoutAll(walk.was, Entities \ updated), walk.seen)
                          /\ ToSet(walk.was) \subseteq updated \cup (killed \cap deleted)
                          /\ walk.dead \cap updated = {}
    BY DEF UpdatedInTurn
  <2>1. walk # None /\ walk \in Walk /\ walk.was \in Seq(Entities) /\ walk.l_i = None
    BY OnTheWay DEF Finished, At, Walk
  <2>2. PICK k \in 0..Len(walk.was) : Turned(k)
    BY <2>1 DEF TurnsOK
  <2>3. k = Len(walk.was)
    <3>1. SUFFICES ASSUME k # Len(walk.was) PROVE FALSE
      OBVIOUS
    <3>2. k < Len(walk.was) /\ k + 1 \in 1..Len(walk.was)
      BY <2>1, <3>1
    <3>3. walk.was[k + 1] = None /\ walk.was[k + 1] \in Entities
      BY <2>1, <2>2, <3>2 DEF Turned
    <3>4. QED
      BY <3>3, EntityFacts
  <2>4. SubSeq(walk.was, 1, k) = walk.was
    BY <2>1, <2>3
  <2>5. ToSet(walk.was) = {walk.was[i] : i \in 1..k}
    BY <2>1, <2>3 DEF ToSet
  <2>6. QED
    BY <2>1, <2>2, <2>4, <2>5 DEF Turned, TurnsOK
<1>3. QED
  BY <1>1, <1>2, TurnsKept, Sound, PTL DEF Spec

-----------------------------------------------------------------------------
(* The line of an update: the entities from one to the end of the list.    *)
LEMMA LineFacts ==
  ASSUME NEW S, NEW s \in Seq(S), IsInjective(s), NEW x \in ToSet(s), None \notin S
  PROVE  LET t == ToCome(s, x)
         IN  /\ t \in Seq(S) /\ t # <<>> /\ IsInjective(t)
             /\ Len(t) = Len(s) - Place(s, x) + 1
             /\ \A k \in 1..Len(t) : t[k] = s[Place(s, x) - 1 + k]
             /\ ToSet(t) \subseteq ToSet(s)
             /\ Head(t) = x /\ x \notin ToSet(Tail(t))
             /\ Tail(t) = IF After(s, x) = None THEN <<>> ELSE ToCome(s, After(s, x))
<1> DEFINE t == ToCome(s, x)
           p == Place(s, x)
           n == Len(s)
<1>1. /\ p \in 1..n /\ s[p] = x /\ n \in Nat /\ DOMAIN s = 1..n
      /\ \A k \in 1..n : s[k] \in S /\ s[k] \in ToSet(s)
  BY PlaceFacts DEF ToSet
<1>2. \A j, k \in 1..n : s[j] = s[k] => j = k
  BY <1>1 DEF IsInjective
<1>3. t = [k \in 1..n - p + 1 |-> s[p - 1 + k]]
  BY DEF ToCome
<1> HIDE DEF t, p, n
<1>4. n - p + 1 \in Nat /\ \A k \in 1..n - p + 1 : p - 1 + k \in 1..n
  BY <1>1
<1>5. /\ t \in Seq(S) /\ Len(t) = n - p + 1 /\ DOMAIN t = 1..n - p + 1
      /\ \A k \in 1..n - p + 1 : t[k] = s[p - 1 + k] /\ t[k] \in ToSet(s)
  BY <1>1, <1>3, <1>4
<1>6. t # <<>> /\ Head(t) = t[1] /\ 1 \in 1..n - p + 1 /\ p - 1 + 1 = p
  BY <1>1, <1>5
<1>7. IsInjective(t)
  <2>1. SUFFICES ASSUME NEW j \in 1..n - p + 1, NEW k \in 1..n - p + 1, t[j] = t[k]
                 PROVE  j = k
    BY <1>5 DEF IsInjective
  <2>2. p - 1 + j = p - 1 + k
    BY <1>2, <1>4, <1>5, <2>1
  <2>3. QED
    BY <1>1, <2>2
<1>8. ToSet(t) \subseteq ToSet(s)
  BY <1>5 DEF ToSet
<1>9. x \notin ToSet(Tail(t))
  BY <1>1, <1>5, <1>6, <1>7, TailFacts
<1>10. Tail(t) = IF After(s, x) = None THEN <<>> ELSE ToCome(s, After(s, x))
  <2>1. CASE p = n
    <3>1. After(s, x) = None
      BY <2>1, NextFacts DEF After, p, n
    <3>2. Len(t) = 1
      BY <1>1, <1>5, <2>1
    <3>3. t \in Seq(S) /\ t # <<>>
      BY <1>5, <1>6
    <3>4. Tail(t) \in Seq(S) /\ Len(Tail(t)) = 0
      BY ONLY <3>2, <3>3
    <3>5. Tail(t) = <<>>
      BY <3>4, EmptySeq
    <3>6. QED
      BY <3>1, <3>5
  <2>2. CASE p # n
    <3> DEFINE y == s[p + 1]
               u == ToCome(s, y)
    <3>1. p + 1 \in 1..n /\ p \in 1..n - 1
      BY <1>1, <2>2
    <3>2. After(s, x) = y
      BY <1>1, <3>1, AfterIs DEF n
    <3>3. y \in ToSet(s) /\ y # None
      BY <1>1, <3>1
    <3>4. Place(s, y) = p + 1
      BY <1>1, <3>1, <3>3, PlaceFacts DEF n
    <3> HIDE DEF y
    <3> DEFINE m == p + 1
    <3>5. m = Place(s, y)
      BY <3>4
    <3>6. m \in 1..n /\ \A k \in 1..n - m + 1 : m - 1 + k \in 1..n /\ m - 1 + k = p + k
      BY <1>1, <3>1
    <3> HIDE DEF m
    <3>7. u = [k \in 1..n - m + 1 |-> s[m - 1 + k]]
      BY <3>5 DEF ToCome, n
    <3> HIDE DEF u
    <3>8. u \in Seq(S) /\ Len(u) = n - p /\ \A k \in 1..n - p : u[k] = s[p + k]
      <4>1. u \in Seq(S) /\ Len(u) = n - m + 1 /\ \A k \in 1..n - m + 1 : u[k] = s[m - 1 + k]
        BY <1>1, <3>6, <3>7
      <4>2. n - m + 1 = n - p
        BY <1>1 DEF m
      <4>3. QED
        BY <3>6, <4>1, <4>2
    <3>9. /\ Tail(t) \in Seq(S) /\ Len(Tail(t)) = n - p
          /\ \A k \in 1..n - p : Tail(t)[k] = t[k + 1]
      BY <1>1, <1>5
    <3>10. \A k \in 1..n - p : /\ k + 1 \in 1..n - p + 1
                               /\ p - 1 + (k + 1) = p + k
      BY <1>1
    <3>11. \A k \in 1..n - p : Tail(t)[k] = u[k]
      BY <1>5, <3>8, <3>9, <3>10
    <3>12. Tail(t) = u
      BY <3>8, <3>9, <3>11, SeqEqual
    <3>13. QED
      BY <3>2, <3>3, <3>12 DEF u
  <2>3. QED
    BY <2>1, <2>2
<1>11. QED
  BY <1>1, <1>5, <1>6, <1>7, <1>8, <1>9, <1>10 DEF t, p, n

(* Who joins the list comes last in the line. *)
LEMMA LineAppend ==
  ASSUME NEW S, NEW s \in Seq(S), IsInjective(s), NEW x \in ToSet(s), None \notin S,
         NEW y \in S, y \notin ToSet(s)
  PROVE  ToCome(Append(s, y), x) = Append(ToCome(s, x), y)
<1> DEFINE p == Place(s, x)
           n == Len(s)
           t == ToCome(s, x)
           r == Append(s, y)
           u == ToCome(r, x)
           v == Append(t, y)
<1>1. p \in 1..n /\ s[p] = x /\ n \in Nat
  BY PlaceFacts
<1>2. t \in Seq(S) /\ Len(t) = n - p + 1 /\ \A k \in 1..Len(t) : t[k] = s[p - 1 + k]
  BY LineFacts
<1>3. /\ r \in Seq(S) /\ IsInjective(r) /\ ToSet(r) = ToSet(s) \cup {y}
      /\ Len(r) = n + 1 /\ r[n + 1] = y /\ \A k \in 1..n : r[k] = s[k]
  BY AppendFacts
<1> HIDE DEF p, n, r
<1>4. x \in ToSet(r) /\ p \in 1..Len(r) /\ r[p] = x
  BY <1>1, <1>3
<1>5. Place(r, x) = p
  BY <1>3, <1>4, PlaceFacts
<1>6. u \in Seq(S) /\ Len(u) = n + 1 - p + 1 /\ \A k \in 1..Len(u) : u[k] = r[p - 1 + k]
  <2>1. /\ u \in Seq(S) /\ Len(u) = Len(r) - Place(r, x) + 1
        /\ \A k \in 1..Len(u) : u[k] = r[Place(r, x) - 1 + k]
    BY <1>3, <1>4, LineFacts
  <2> HIDE DEF u
  <2>2. QED
    BY <1>1, <1>3, <1>5, <2>1
<1> HIDE DEF t, u
<1>7. /\ v \in Seq(S) /\ Len(v) = Len(t) + 1 /\ v[Len(t) + 1] = y
      /\ \A k \in 1..Len(t) : v[k] = t[k]
  BY <1>2
<1> HIDE DEF v
<1>8. Len(u) = Len(v)
  BY <1>1, <1>2, <1>6, <1>7
<1>9. ASSUME NEW k \in 1..Len(u) PROVE u[k] = v[k]
  <2>1. CASE k = n - p + 2
    <3>1. p - 1 + k = n + 1 /\ k = Len(t) + 1
      BY <1>1, <1>2, <2>1
    <3>2. QED
      BY <1>3, <1>6, <1>7, <1>9, <3>1
  <2>2. CASE k # n - p + 2
    <3>1. k \in 1..Len(t) /\ p - 1 + k \in 1..n
      BY <1>1, <1>2, <1>6, <2>2
    <3>2. QED
      BY <1>2, <1>3, <1>6, <1>7, <1>9, <3>1
  <2>3. QED
    BY <2>1, <2>2
<1>10. u = v
  BY <1>6, <1>7, <1>8, <1>9, SeqEqual
<1>11. QED
  BY <1>10 DEF u, v, t, r

(* Who goes off the list goes out of the line. *)
LEMMA LineWithout ==
  ASSUME NEW S, NEW s \in Seq(S), IsInjective(s), NEW x \in ToSet(s), None \notin S,
         NEW y, y # x
  PROVE  ToCome(Without(s, y), x) = Without(ToCome(s, x), y)
<1> DEFINE p == Place(s, x)
           n == Len(s)
           t == ToCome(s, x)
<1>1. p \in 1..n /\ s[p] = x /\ n \in Nat /\ DOMAIN s = 1..n
  BY PlaceFacts
<1>2. /\ t \in Seq(S) /\ Len(t) = n - p + 1 /\ \A k \in 1..Len(t) : t[k] = s[p - 1 + k]
      /\ ToSet(t) \subseteq ToSet(s) /\ IsInjective(t)
  BY LineFacts
<1>3. CASE y \notin ToSet(s)
  BY <1>2, <1>3 DEF Without
<1>4. CASE y \in ToSet(s)
  <2> DEFINE q == Place(s, y)
             r == Without(s, y)
             u == ToCome(r, x)
             m == Place(r, x)
  <2>1. /\ q \in 1..n /\ s[q] = y /\ q # p
        /\ \A k \in 1..n : s[k] = y => k = q
    BY <1>1, <1>4, PlaceFacts
  <2>2. /\ r \in Seq(S) /\ Len(r) = n - 1
        /\ \A k \in 1..n - 1 : r[k] = IF k < q THEN s[k] ELSE s[k + 1]
        /\ x \in ToSet(r)
        /\ m = IF p < q THEN p ELSE p - 1
    BY <1>4, WithoutPlaces
  <2>3. IsInjective(r)
    BY WithoutFacts
  <2>4. u \in Seq(S) /\ Len(u) = n - 1 - m + 1 /\ \A k \in 1..Len(u) : u[k] = r[m - 1 + k]
    BY <2>2, <2>3, LineFacts
  <2> HIDE DEF p, n, t, q, r, u, m
  <2>5. CASE q < p
    <3>1. m = p - 1 /\ Len(u) = Len(t)
      BY <1>1, <1>2, <2>1, <2>2, <2>4, <2>5
    <3>2. ASSUME NEW k \in 1..Len(u) PROVE u[k] = t[k]
      <4>1. /\ m - 1 + k \in 1..n - 1 /\ ~(m - 1 + k < q)
            /\ m - 1 + k + 1 = p - 1 + k
        BY <1>1, <1>2, <2>1, <2>5, <3>1
      <4>2. QED
        BY <1>2, <2>2, <2>4, <3>1, <3>2, <4>1
    <3>3. u = t
      BY <1>2, <2>4, <3>1, <3>2, SeqEqual
    <3>4. y \notin ToSet(t)
      <4>1. SUFFICES ASSUME NEW k \in 1..Len(t), t[k] = y PROVE FALSE
        BY <1>2 DEF ToSet
      <4>2. p - 1 + k \in 1..n /\ p - 1 + k # q
        BY <1>1, <1>2, <2>1, <2>5
      <4>3. QED
        BY <1>2, <2>1, <4>1, <4>2
    <3>5. QED
      BY <3>3, <3>4 DEF Without, u, t, r
  <2>6. CASE ~(q < p)
    <3> DEFINE j == q - p + 1
    <3>1. m = p /\ Len(u) = Len(t) - 1 /\ j \in 1..Len(t) /\ p - 1 + j = q /\ p < q
      BY <1>1, <1>2, <2>1, <2>2, <2>4, <2>6
    <3>2. t[j] = y
      BY <1>2, <2>1, <3>1
    <3>3. ASSUME NEW k \in 1..Len(t) - 1 PROVE u[k] = IF k < j THEN t[k] ELSE t[k + 1]
      <4>1. /\ p - 1 + k \in 1..n - 1 /\ k \in 1..Len(u)
            /\ k \in 1..Len(t) /\ k + 1 \in 1..Len(t)
            /\ p - 1 + k < q <=> k < j
            /\ p - 1 + k + 1 = p - 1 + (k + 1)
        BY <1>1, <1>2, <2>1, <3>1
      <4>2. u[k] = r[p - 1 + k]
        BY <2>4, <3>1, <4>1
      <4>3. u[k] = IF p - 1 + k < q THEN s[p - 1 + k] ELSE s[p - 1 + k + 1]
        BY <2>2, <4>1, <4>2
      <4>4. t[k] = s[p - 1 + k] /\ t[k + 1] = s[p - 1 + (k + 1)]
        BY <1>2, <4>1
      <4>5. QED
        BY <4>1, <4>3, <4>4
    <3> HIDE DEF j
    <3>4. u = Without(t, t[j])
      BY <1>2, <2>4, <3>1, <3>3, WithoutIs
    <3>5. QED
      BY <3>2, <3>4 DEF u, t, r
  <2>7. QED
    BY <2>5, <2>6
<1>5. QED
  BY <1>3, <1>4

-----------------------------------------------------------------------------
(* EntityLayer implements UpdateRound.                                     *)
(* Between two entities none has its turn. *)
NoTurn == walk # None /\ walk.at = "entities" => walk.entity = None

LEMMA NoTurnKept == Inv /\ NoTurn /\ [Next]_vars => NoTurn'
<1> SUFFICES ASSUME Inv, NoTurn, [Next]_vars PROVE NoTurn'
  OBVIOUS
<1>1. walk # None => walk \in Walk
  BY DEF Inv, TypeOK
<1>2. CASE walk' = walk
  BY <1>2 DEF NoTurn
<1>3. ASSUME NEW d \in BOOLEAN, NEW b \in BOOLEAN, walk' = Noted(d, b) PROVE NoTurn'
  <2>1. CASE walk = None
    BY <1>3, <2>1 DEF Noted, NoTurn
  <2>2. CASE walk # None
    BY <1>1, <1>3, <2>2, NotedFacts DEF NoTurn, SamePlace
  <2>3. QED
    BY <2>1, <2>2
<1>4. ASSUME NEW e \in Entities, NEW delete \in BOOLEAN, RemoveEntity(e, delete)
      PROVE  NoTurn'
  <2> DEFINE d == \/ e = walk.l_i
                  \/ delete /\ (e = walk.entity \/ walk.l_c \in ToSet(components[e]))
             b == delete \/ e # walk.entity
  <2>1. walk' = Noted(d, b) /\ d \in BOOLEAN /\ b \in BOOLEAN
    BY <1>4 DEF RemoveEntity
  <2> HIDE DEF d, b
  <2>2. QED
    BY <1>3, <2>1
<1>5. ASSUME NEW c \in Components, NEW delete \in BOOLEAN, RemoveComponent(c, delete)
      PROVE  NoTurn'
  <2> DEFINE d == \/ c \in {walk.base, walk.rend}
                  \/ delete /\ c \in {walk.collider, walk.l_c}
             b == OwnerOf[c] = walk.entity \/ (delete /\ c = walk.l_c)
  <2>1. walk' = Noted(d, b) /\ d \in BOOLEAN /\ b \in BOOLEAN
    BY <1>5 DEF RemoveComponent
  <2> HIDE DEF d, b
  <2>2. QED
    BY <1>3, <2>1
<1>6. CASE Game
  BY <1>2, <1>4, <1>5, <1>6 DEF Game, AddEntity, Kill, AddComponent, SetActive
<1>7. CASE UpdateBegin \/ Walking \/ Return
  <2>1. CASE UpdateBegin \/ UpdateEnd
    BY <2>1 DEF NoTurn, UpdateBegin, UpdateEnd
  <2>2. CASE UpdateEntity
    BY <1>1, <2>2 DEF NoTurn, UpdateEntity, At, Walk
  <2>3. CASE Bury
    BY <1>1, <2>3 DEF NoTurn, Bury, At, Walk
  <2>4. CASE ComponentsEnd
    BY <1>1, <2>4 DEF NoTurn, ComponentsEnd, At, Walk
  <2>5. CASE UpdateComponent \/ Hit \/ OtherReturn
    BY <1>1, <2>5 DEF NoTurn, UpdateComponent, Hit, OtherReturn, At, Walk
  <2>6. CASE NoHit \/ SelfReturn
    BY <1>1, <2>6 DEF NoTurn, NoHit, SelfReturn, At, Walk
  <2>7. CASE UpdateCollider \/ CollidersEnd \/ UpdateReturn
    <3>1. /\ walk \in Walk
          /\ \/ walk' = Stepped
             \/ walk' = [walk EXCEPT !.at = "colliders", !.collider = Current,
                                     !.l_c = First(colliders')]
      BY <1>1, <2>7 DEF UpdateCollider, CollidersEnd, UpdateReturn, At
    <3>2. walk'.at \in {"components", "colliders"}
      BY <3>1 DEF Stepped, Walk
    <3>3. QED
      BY <3>2 DEF NoTurn
  <2>8. QED
    BY <1>7, <2>1, <2>2, <2>3, <2>4, <2>5, <2>6, <2>7 DEF Walking, Return
<1>8. QED
  BY <1>2, <1>6, <1>7 DEF Next, vars

(* What the abstract update sees of an update in progress, and of none. *)
LEMMA UpdateSeen ==
  ASSUME walk # None, ~walk.dangling
  PROVE  /\ Stage = "update" /\ Turn = walk.entity
         /\ Line = IF walk.l_i = None THEN <<>> ELSE ToCome(entities, walk.l_i)
BY DEF Stage, Turn, Line

LEMMA IdleSeen ==
  ASSUME walk = None
  PROVE  Stage = "idle" /\ Turn = None /\ Line = <<>>
BY DEF Stage, Turn, Line

LEMMA SeenNext ==
  /\ walk' # None /\ ~walk'.dangling =>
       /\ Stage' = "update" /\ Turn' = walk'.entity
       /\ Line' = IF walk'.l_i = None THEN <<>> ELSE ToCome(entities', walk'.l_i)
  /\ walk' = None => Stage' = "idle" /\ Turn' = None /\ Line' = <<>>
  /\ walk' # None /\ walk'.dangling => Stage' = "lost"
BY DEF Stage, Turn, Line

(* The steps inside the update of one entity. *)
LEMMA RoundStays ==
  ASSUME UNCHANGED <<entities, killed>>,
         \/ walk = None /\ walk' = None
         \/ /\ walk # None /\ walk' # None /\ ~walk.dangling /\ ~walk'.dangling
            /\ walk'.l_i = walk.l_i /\ walk'.entity = walk.entity
  PROVE  UNCHANGED Round!vars
<1>1. UNCHANGED <<Stage, Turn, Line>>
  BY UpdateSeen, IdleSeen, SeenNext
<1>2. QED
  BY <1>1 DEF Round!vars

(* The game has the CPU. *)
LEMMA RoundClient ==
  ASSUME Inv, GameRuns
  PROVE  /\ Round!ClientRuns
         /\ walk # None => /\ Stage = "update" /\ Turn # None
                           /\ walk \in Walk /\ ~walk.dangling
                           /\ walk.l_i \in ToSet(entities) \cup {None}
<1>1. CASE walk = None
  BY <1>1, IdleSeen DEF Round!ClientRuns
<1>2. CASE walk # None
  <2>1. walk \in Walk /\ ~walk.dangling /\ EntityWalk /\ walk.entity \in Entities
    BY <1>2, InCall
  <2>2. Stage = "update" /\ Turn = walk.entity
    BY <1>2, <2>1, UpdateSeen
  <2>3. QED
    BY <1>2, <2>1, <2>2, EntityFacts DEF Round!ClientRuns, EntityWalk
<1>3. QED
  BY <1>1, <1>2

(* Both modules mean the same by a list. *)
LEMMA RoundLists ==
  ASSUME NEW s
  PROVE  /\ \A x : Round!Without(s, x) = Without(s, x)
         /\ Round!IsInjective(s) = IsInjective(s)
BY DEF Round!Without, Without, Round!Place, Place, Round!ToSet, ToSet, Round!RemoveAt, RemoveAt,
       Round!IsInjective, IsInjective

LEMMA WithoutNothing ==
  ASSUME NEW x
  PROVE  Without(<<>>, x) = <<>>
<1>1. ToSet(<<>>) = {}
  BY DEF ToSet
<1>2. QED
  BY <1>1 DEF Without

LEMMA RoundAdd ==
  ASSUME Inv, NEW e \in Entities, AddEntity(e)
  PROVE  Round!Next
<1>1. /\ entities \in Seq(Entities) /\ IsInjective(entities) /\ None \notin Entities
      /\ e \notin ToSet(entities) /\ entities' = Append(entities, e)
      /\ UNCHANGED <<killed, walk>> /\ GameRuns
  BY EntityFacts DEF Inv, TypeOK, ListsOK, AddEntity
<1>2. ToSet(entities') = ToSet(entities) \cup {e}
  BY <1>1, AppendFacts
<1>3. UNCHANGED <<Turn, Stage>>
  BY <1>1 DEF Turn, Stage
<1>4. Line' = Line \/ (Stage = "update" /\ Line' = Append(Line, e))
  <2>1. CASE walk = None \/ walk.l_i = None
    BY <1>1, <2>1 DEF Line, Stage
  <2>2. CASE walk # None /\ walk.l_i # None
    <3>1. walk.l_i \in ToSet(entities) /\ ~walk.dangling /\ Stage = "update"
      BY <1>1, <2>2, RoundClient
    <3>2. ToCome(entities', walk.l_i) = Append(ToCome(entities, walk.l_i), e)
      BY <1>1, <3>1, LineAppend
    <3>3. QED
      BY <1>1, <2>2, <3>1, <3>2, UpdateSeen, SeenNext
  <2>3. QED
    BY <2>1, <2>2
<1>5. Round!Add(e)
  BY <1>1, <1>2, <1>3, <1>4, RoundClient DEF Round!Add
<1>6. QED
  BY <1>5 DEF Round!Next

(* The game frees what the update in progress still needs, or not. *)
LEMMA RoundNoted ==
  ASSUME Inv, GameRuns, NEW d \in BOOLEAN, NEW b \in BOOLEAN, walk' = Noted(d, b),
         NEW e \in Entities, killed' = killed, entities' = Without(entities, e),
         walk # None /\ e = walk.l_i => d
  PROVE  Round!Next \/ UNCHANGED Round!vars
<1>1. entities \in Seq(Entities) /\ IsInjective(entities) /\ None \notin Entities
  BY EntityFacts DEF Inv, TypeOK, ListsOK
<1>2. ToSet(entities') = ToSet(entities) \ {e}
  BY <1>1, WithoutFacts
<1>3. CASE walk = None
  <2>1. walk' = None
    BY <1>3 DEF Noted
  <2>2. Line = <<>> /\ Line' = <<>> /\ UNCHANGED <<Turn, Stage>>
    BY <1>3, <2>1, IdleSeen, SeenNext
  <2>3. Line' = Without(Line, e)
    BY <2>2, WithoutNothing
  <2>4. CASE e \in ToSet(entities)
    <3>1. Round!TakeOff(e)
      BY <1>2, <2>2, <2>3, <2>4, RoundClient, RoundLists DEF Round!TakeOff
    <3>2. QED
      BY <3>1 DEF Round!Next
  <2>5. CASE e \notin ToSet(entities)
    BY <1>2, <2>2, <2>5 DEF Round!vars
  <2>6. QED
    BY <2>4, <2>5
<1>4. CASE walk # None
  <2>1. /\ walk \in Walk /\ ~walk.dangling /\ Stage = "update" /\ Turn # None
        /\ walk.l_i \in ToSet(entities) \cup {None}
    BY <1>4, RoundClient
  <2>2. /\ walk' # None /\ walk'.l_i = walk.l_i /\ walk'.entity = walk.entity
        /\ walk'.dangling = d
    <3>1. walk' \in Walk /\ SamePlace /\ walk'.dangling = (walk.dangling \/ d)
      BY <1>4, <2>1, NotedFacts
    <3>2. QED
      BY <2>1, <3>1, WalkAssumption DEF SamePlace
  <2>3. CASE d
    <3>1. Round!Break
      BY <2>1, <2>2, <2>3, SeenNext DEF Round!Break
    <3>2. QED
      BY <3>1 DEF Round!Next
  <2>4. CASE ~d
    <3>1. UNCHANGED <<Turn, Stage>>
      BY <1>4, <2>1, <2>2, <2>4, UpdateSeen, SeenNext
    <3>2. CASE e \notin ToSet(entities)
      <4>1. entities' = entities
        BY <3>2 DEF Without
      <4>2. QED
        BY <1>4, <2>1, <2>2, <2>4, <4>1, RoundStays
    <3>3. CASE e \in ToSet(entities)
      <4>1. CASE walk.l_i = None
        BY <1>2, <1>4, <2>1, <2>2, <2>4, <3>1, <3>3, <4>1, UpdateSeen, SeenNext,
           WithoutNothing, RoundClient, RoundLists DEF Round!TakeOff, Round!Next
      <4>2. CASE walk.l_i # None
        <5>1. ToCome(entities', walk.l_i) = Without(ToCome(entities, walk.l_i), e)
          BY <1>1, <1>4, <2>1, <2>4, <4>2, LineWithout
        <5>2. Line' = Without(Line, e)
          BY <1>4, <2>1, <2>2, <2>4, <4>2, <5>1, UpdateSeen, SeenNext
        <5>3. Round!TakeOff(e)
          BY <1>2, <3>1, <3>3, <5>2, RoundClient, RoundLists DEF Round!TakeOff
        <5>4. QED
          BY <5>3 DEF Round!Next
      <4>3. QED
        BY <4>1, <4>2
    <3>4. QED
      BY <3>2, <3>3
  <2>5. QED
    BY <2>3, <2>4
<1>5. QED
  BY <1>3, <1>4

LEMMA RoundRemoveEntity ==
  ASSUME Inv, NEW e \in Entities, NEW delete \in BOOLEAN, RemoveEntity(e, delete)
  PROVE  Round!Next \/ UNCHANGED Round!vars
<1> DEFINE d == \/ e = walk.l_i
                \/ delete /\ (e = walk.entity \/ walk.l_c \in ToSet(components[e]))
           b == delete \/ e # walk.entity
<1>1. /\ GameRuns /\ walk' = Noted(d, b) /\ d \in BOOLEAN /\ b \in BOOLEAN
      /\ killed' = killed /\ entities' = Without(entities, e)
      /\ e = walk.l_i => d
  BY DEF RemoveEntity
<1> HIDE DEF d, b
<1>2. QED
  BY <1>1, RoundNoted

LEMMA RoundRemoveComponent ==
  ASSUME Inv, NEW c \in Components, NEW delete \in BOOLEAN, RemoveComponent(c, delete)
  PROVE  Round!Next \/ UNCHANGED Round!vars
<1> DEFINE d == \/ c \in {walk.base, walk.rend}
                \/ delete /\ c \in {walk.collider, walk.l_c}
           b == OwnerOf[c] = walk.entity \/ (delete /\ c = walk.l_c)
<1>1. /\ GameRuns /\ walk' = Noted(d, b) /\ d \in BOOLEAN /\ b \in BOOLEAN
      /\ UNCHANGED <<entities, killed>>
  BY DEF RemoveComponent
<1> HIDE DEF d, b
<1>2. CASE walk = None
  <2>1. walk' = None
    BY <1>1, <1>2 DEF Noted
  <2>2. QED
    BY <1>1, <1>2, <2>1, RoundStays
<1>3. CASE walk # None
  <2>1. walk \in Walk /\ ~walk.dangling /\ Stage = "update" /\ Turn # None
    BY <1>1, <1>3, RoundClient
  <2>2. /\ walk' # None /\ walk'.l_i = walk.l_i /\ walk'.entity = walk.entity
        /\ walk'.dangling = d
    <3>1. walk' \in Walk /\ SamePlace /\ walk'.dangling = (walk.dangling \/ d)
      BY <1>1, <1>3, <2>1, NotedFacts
    <3>2. QED
      BY <1>1, <2>1, <3>1, WalkAssumption DEF SamePlace
  <2>3. CASE d
    BY <2>1, <2>2, <2>3, SeenNext DEF Round!Break, Round!Next
  <2>4. CASE ~d
    BY <1>1, <1>3, <2>1, <2>2, <2>4, RoundStays
  <2>5. QED
    BY <2>3, <2>4
<1>4. QED
  BY <1>2, <1>3

(* The update's own steps. *)
LEMMA RoundBegin ==
  ASSUME Inv, UpdateBegin
  PROVE  Round!Next
<1> DEFINE l == First(entities)
<1>1. /\ entities \in Seq(Entities) /\ IsInjective(entities) /\ None \notin Entities
      /\ l \in ToSet(entities) \cup {None}
  BY EntityFacts, FirstFacts DEF Inv, TypeOK, ListsOK
<1>2. Stage = "idle" /\ Turn = None
  BY IdleSeen DEF UpdateBegin
<1>3. /\ UNCHANGED <<entities, killed>> /\ walk' # None /\ ~walk'.dangling
      /\ walk'.l_i = l /\ walk'.entity = None
  <2>1. walk' \in Walk
    BY UpdateBeginKeeps
  <2>2. QED
    BY <2>1, WalkAssumption DEF UpdateBegin, lists
<1> HIDE DEF l
<1>4. /\ Stage' = "update" /\ Turn' = None
      /\ Line' = IF l = None THEN <<>> ELSE ToCome(entities, l)
  BY <1>3, SeenNext
<1>5. Line' \in Seq(ToSet(entities)) /\ IsInjective(Line')
  <2>1. CASE l = None
    <3>1. IsInjective(<<>>)
      BY DEF IsInjective
    <3>2. QED
      BY <1>4, <2>1, <3>1
  <2>2. CASE l # None
    <3> DEFINE t == ToCome(entities, l)
    <3>1. t \in Seq(Entities) /\ IsInjective(t) /\ ToSet(t) \subseteq ToSet(entities)
      BY <1>1, <2>2, LineFacts
    <3> HIDE DEF t
    <3>2. \A k \in 1..Len(t) : t[k] \in ToSet(t)
      BY <3>1 DEF ToSet
    <3>3. t \in Seq(ToSet(entities))
      BY <3>1, <3>2
    <3>4. QED
      BY <1>4, <2>2, <3>1, <3>3 DEF t
  <2>3. QED
    BY <2>1, <2>2
<1>6. Round!Begin
  <2>1. Round!IsInjective(Line')
    BY <1>5, RoundLists
  <2>2. QED
    BY <1>2, <1>3, <1>4, <1>5, <2>1 DEF Round!Begin
<1>7. QED
  BY <1>6 DEF Round!Next

LEMMA RoundEntity ==
  ASSUME Inv, NoTurn, Bury \/ UpdateEntity
  PROVE  Round!Next
<1> DEFINE x == walk.l_i
           y == After(entities, x)
           t == ToCome(entities, x)
<1>1. /\ walk \in Walk /\ walk # None /\ ~walk.dangling /\ walk.at = "entities"
      /\ walk.entity = None /\ x \in ToSet(entities)
  BY OnTheWay DEF Bury, UpdateEntity, NoTurn, EntityWalk
<1>2. entities \in Seq(Entities) /\ IsInjective(entities) /\ None \notin Entities
  BY EntityFacts DEF Inv, TypeOK, ListsOK
<1>3. /\ t \in Seq(Entities) /\ t # <<>> /\ Head(t) = x /\ x \notin ToSet(Tail(t))
      /\ Tail(t) = IF y = None THEN <<>> ELSE ToCome(entities, y)
      /\ y \in ToSet(entities) \cup {None} /\ y # x /\ x # None /\ x \in Entities
  <2>1. x \in Entities /\ x # None
    BY <1>1, <1>2, PlaceFacts
  <2>2. y \in ToSet(entities) \cup {None} /\ y # x
    BY <1>1, <1>2, AfterFacts
  <2> HIDE DEF y, t
  <2>3. /\ t \in Seq(Entities) /\ t # <<>> /\ Head(t) = x /\ x \notin ToSet(Tail(t))
        /\ Tail(t) = IF After(entities, x) = None THEN <<>> ELSE ToCome(entities, After(entities, x))
    BY <1>1, <1>2, LineFacts DEF t
  <2>4. QED
    BY <2>1, <2>2, <2>3 DEF y
<1>4. Stage = "update" /\ Turn = None /\ Line = t
  BY <1>1, <1>3, UpdateSeen
<1>5. CASE Bury
  <2>1. /\ x \in killed /\ entities' = Without(entities, x) /\ killed' = killed
        /\ walk' = [walk EXCEPT !.l_i = y]
    BY <1>5 DEF Bury
  <2>2. walk' # None /\ ~walk'.dangling /\ walk'.l_i = y /\ walk'.entity = None
    <3>1. walk' \in Walk
      BY <1>1, <1>2, <1>3, <2>1, PlaceFacts DEF Walk
    <3> HIDE DEF y
    <3>2. QED
      BY <1>1, <2>1, <3>1, WalkAssumption DEF Walk
  <2>3. ToSet(entities') = ToSet(entities) \ {x}
    BY <1>2, <2>1, WithoutFacts
  <2> HIDE DEF t, x, y
  <2>4. y # None => ToCome(entities', y) = ToCome(entities, y)
    <3>1. SUFFICES ASSUME y # None PROVE ToCome(entities', y) = ToCome(entities, y)
      OBVIOUS
    <3>2. ToCome(entities', y) = Without(ToCome(entities, y), x)
      BY <1>2, <1>3, <2>1, <3>1, LineWithout
    <3>3. x \notin ToSet(ToCome(entities, y))
      BY <1>3, <3>1
    <3>4. QED
      BY <3>2, <3>3 DEF Without
  <2>5. Stage' = "update" /\ Turn' = None /\ Line' = Tail(t)
    BY <1>3, <2>2, <2>4, SeenNext
  <2>6. Round!Bury
    BY <1>3, <1>4, <2>1, <2>3, <2>5 DEF Round!Bury, Round!Comes
  <2>7. QED
    BY <2>6 DEF Round!Next
<1>6. CASE UpdateEntity
  <2>1. /\ x \notin killed /\ UNCHANGED <<entities, killed>>
        /\ walk' = [walk EXCEPT !.at = "components", !.entity = x, !.l_i = y,
                     !.base = None, !.rend = First(components[x]), !.seen = Noticed(x)]
    BY <1>6 DEF UpdateEntity, lists
  <2>2. walk' \in Walk
    BY <1>6, UpdateEntityKeeps
  <2> HIDE DEF t, y
  <2>3. walk'.l_i = y /\ walk'.entity = x /\ ~walk'.dangling
    BY <1>1, <2>1 DEF Walk
  <2>4. walk' # None
    BY <2>2, WalkAssumption
  <2> HIDE DEF x
  <2>5. Stage' = "update" /\ Turn' = x /\ Line' = Tail(t)
    BY <1>3, <2>1, <2>3, <2>4, SeenNext
  <2>6. Round!Call
    BY <1>3, <1>4, <2>1, <2>5 DEF Round!Call, Round!Comes
  <2>7. QED
    BY <2>6 DEF Round!Next
<1>7. QED
  BY <1>5, <1>6

LEMMA RoundReturn ==
  ASSUME Inv, ComponentsEnd
  PROVE  Round!Next
<1>1. /\ walk \in Walk /\ walk # None /\ walk.at = "components" /\ ~walk.dangling
      /\ walk.entity \in Entities
  BY OnTheWay DEF ComponentsEnd, EntityWalk
<1>2. walk' = [walk EXCEPT !.at = "entities", !.entity = None, !.base = None, !.rend = None]
      /\ UNCHANGED <<entities, killed>>
  BY DEF ComponentsEnd, lists
<1>3. /\ walk' \in Walk /\ walk'.entity = None /\ walk'.l_i = walk.l_i /\ ~walk'.dangling
  BY <1>1, <1>2 DEF Walk, Loops
<1>4. Stage = "update" /\ Turn # None /\ Stage' = "update" /\ Turn' = None /\ Line' = Line
  BY <1>1, <1>2, <1>3, UpdateSeen, SeenNext, EntityFacts, WalkAssumption
<1>5. Round!Return
  BY <1>2, <1>4 DEF Round!Return
<1>6. QED
  BY <1>5 DEF Round!Next

LEMMA RoundEnd ==
  ASSUME Inv, NoTurn, UpdateEnd
  PROVE  Round!Next
<1>1. walk # None /\ walk.entity = None /\ ~walk.dangling /\ walk.l_i = None
      /\ walk' = None /\ UNCHANGED <<entities, killed>>
  BY DEF UpdateEnd, At, NoTurn, lists
<1>2. /\ Stage = "update" /\ Turn = None /\ Line = <<>>
      /\ Stage' = "idle" /\ Turn' = None /\ Line' = <<>>
  BY <1>1, UpdateSeen, SeenNext
<1>3. Round!End
  BY <1>1, <1>2 DEF Round!End, Round!Comes
<1>4. QED
  BY <1>3 DEF Round!Next

LEMMA RoundInside ==
  ASSUME Inv,
         \/ UpdateComponent \/ UpdateCollider \/ UpdateReturn \/ CollidersEnd
         \/ NoHit \/ Hit \/ OtherReturn \/ SelfReturn
  PROVE  UNCHANGED Round!vars
<1>1. walk \in Walk /\ walk # None /\ ~walk.dangling
  BY OnTheWay DEF UpdateComponent, UpdateCollider, UpdateReturn, CollidersEnd, NoHit, Hit,
     OtherReturn, SelfReturn
<1>2. walk' \in Walk
  BY UpdateComponentKeeps, UpdateColliderKeeps, StepKeeps, CollisionKeeps
<1>3. UNCHANGED <<entities, killed>>
  BY DEF UpdateComponent, UpdateCollider, UpdateReturn, CollidersEnd, NoHit, Hit,
     OtherReturn, SelfReturn, lists
<1>4. walk'.l_i = walk.l_i /\ walk'.entity = walk.entity /\ walk'.dangling = walk.dangling
  <2>1. CASE UpdateComponent \/ Hit \/ OtherReturn
    BY <1>1, <2>1 DEF UpdateComponent, Hit, OtherReturn, Walk
  <2>2. CASE NoHit \/ SelfReturn
    BY <1>1, <2>2 DEF NoHit, SelfReturn, Walk
  <2>3. CASE UpdateCollider \/ UpdateReturn \/ CollidersEnd
    <3>1. \/ walk' = Stepped
          \/ walk' = [walk EXCEPT !.at = "colliders", !.collider = Current,
                                  !.l_c = First(colliders')]
      BY <2>3 DEF UpdateCollider, UpdateReturn, CollidersEnd
    <3>2. QED
      BY <1>1, <3>1 DEF Stepped, Walk
  <2>4. QED
    BY <2>1, <2>2, <2>3
<1>5. QED
  BY <1>1, <1>2, <1>3, <1>4, RoundStays, WalkAssumption

LEMMA RoundStep ==
  Inv /\ NoTurn /\ [Next]_vars => [Round!Next]_(Round!vars)
<1> SUFFICES ASSUME Inv, NoTurn, [Next]_vars PROVE Round!Next \/ UNCHANGED Round!vars
  OBVIOUS
<1>1. CASE UNCHANGED <<entities, killed, walk>>
  BY <1>1 DEF Round!vars, Line, Turn, Stage
<1>2. ASSUME NEW e \in Entities, Kill(e) PROVE Round!Next
  <2>1. /\ killed' = killed \cup {e} /\ GameRuns /\ entities' = entities
        /\ UNCHANGED <<Line, Turn, Stage>>
    BY <1>2 DEF Kill, lists, Line, Turn, Stage
  <2>2. Round!Kill(e)
    BY <2>1, RoundClient DEF Round!Kill
  <2>3. QED
    BY <2>2 DEF Round!Next
<1>3. CASE Game
  <2>1. CASE \/ \E c \in Components : AddComponent(c)
             \/ \E c \in Colliders : SetActive(c)
    BY <1>1, <2>1 DEF AddComponent, SetActive, lists
  <2>2. QED
    BY <1>2, <1>3, <2>1, RoundAdd, RoundRemoveEntity, RoundRemoveComponent DEF Game
<1>4. CASE UpdateBegin \/ Walking \/ Return
  BY <1>4, RoundBegin, RoundEntity, RoundReturn, RoundEnd, RoundInside DEF Walking, Return
<1>5. QED
  BY <1>1, <1>3, <1>4 DEF Next, vars, lists

(* The entity layer updates its entities as UpdateRound promises, for any  *)
(* number of entities, components and colliders and whatever they do.      *)
THEOREM UpdatesInRounds == Spec => KeepsRounds
<1>1. Init => NoTurn /\ Round!Init
  <2>1. ToSet(<<>>) = {}
    BY DEF ToSet
  <2>2. QED
    BY <2>1, IdleSeen DEF Init, NoTurn, Round!Init
<1>2. Spec => []NoTurn
  BY <1>1, NoTurnKept, Sound, PTL DEF Spec
<1>3. QED
  BY <1>1, <1>2, RoundStep, Sound, PTL DEF Spec, KeepsRounds, Round!Spec
=============================================================================
