----------------------------- MODULE EntityLayer -----------------------------
(***************************************************************************)
(* An EntitySceneLayer with its entities, their components and, among      *)
(* these, the colliders that register with the CollisionSceneLayer.  An    *)
(* update of the layer is three walks within one another: over entities,   *)
(* over the components of one, over the colliders from one; the game runs  *)
(* inside it, in the update() of its components and in collision().        *)
(*                                                                         *)
(* An entity with a collider has position and size; both layers outlive    *)
(* the entities.                                                           *)
(***************************************************************************)
EXTENDS PointerList

CONSTANTS
  Entities,
  Components,
  Colliders,   (* the ColliderComponents; the others are the game's        *)
  OwnerOf,     (* the entity of each component                             *)
  Parts,       (* the components that each entity is made with             *)
  Moving,      (* the entities with a MovementComponent                    *)
  None         (* no entity, no component, the end of a list, no walk      *)

ASSUME EntityAssumption ==
  /\ Colliders \subseteq Components
  /\ OwnerOf \in [Components -> Entities]
  /\ Parts \in [Entities -> Seq(Components)]
  /\ \A e \in Entities : /\ IsInjective(Parts[e])
                         /\ \A c \in ToSet(Parts[e]) : OwnerOf[c] = e
  /\ Entities \cap Components = {}
  /\ Moving \subseteq Entities
  /\ None \notin Entities \cup Components

VARIABLES
  entities,    (* EntitySceneLayer's list                                  *)
  components,  (* the list of each Entity                                  *)
  colliders,   (* CollisionSceneLayer's list                               *)
  killed,      (* the entities with the flag                               *)
  active,      (* the colliders with the flag Active                       *)
  deleted,     (* the entities and components that were deleted            *)
  walk         (* the update in progress, or None                          *)

lists == <<entities, components, colliders>>
vars == <<lists, killed, active, deleted, walk>>

(***************************************************************************)
(* Where an update is: at the head of the loop over entities, components   *)
(* or colliders, or in the game, called by a component's update(), by the  *)
(* collision() of the other collider or by that of the updated one.        *)
(***************************************************************************)
Loops == {"entities", "components", "colliders"}
Calls == {"update", "other", "self"}

Walk == [at : Loops \cup Calls,
         l_i : Entities \cup {None},      (* the next entity               *)
         entity : Entities \cup {None},
         base : Components \cup {None},   (* a reverse_iterator holds the  *)
         rend : Components \cup {None},   (* node after the one it is at   *)
         collider : Colliders \cup {None},
         l_c : Colliders \cup {None},     (* the other collider            *)
         dangling : BOOLEAN,              (* a node or object of the       *)
                                          (* above was freed               *)
         was : Seq(Entities),             (* ghost: entities at the start  *)
         dead : SUBSET Entities,          (* ghost: killed at the start    *)
         seen : Seq(Entities),            (* ghost: updated, by first turn *)
         disturbed : BOOLEAN]             (* ghost, see NoDangling         *)

ASSUME WalkAssumption == None \notin Walk

TypeOK ==
  /\ entities \in Seq(Entities)
  /\ components \in [Entities -> Seq(Components)]
  /\ colliders \in Seq(Colliders)
  /\ killed \in SUBSET Entities
  /\ active \in SUBSET Colliders
  /\ deleted \in SUBSET (Entities \cup Components)
  /\ walk \in Walk \cup {None}

Init ==
  /\ entities = <<>>
  /\ components = Parts
  /\ colliders = <<>>
  /\ killed = {}
  /\ active = Colliders
  /\ deleted = {}
  /\ walk = None

First(s) == IF s = <<>> THEN None ELSE Head(s)
After(s, x) == IF x = Last(s) THEN None ELSE s[Place(s, x) + 1]
Before(s, x) == IF x = None THEN Last(s) ELSE s[Place(s, x) - 1]

-----------------------------------------------------------------------------
(***************************************************************************)
(* The game, between updates and when it is called in one.                 *)
(***************************************************************************)
GameRuns == walk # None => (walk.at \in Calls /\ ~walk.dangling)

(* What the game does in an update, but for what NoDangling lists.         *)
Noted(dangling, disturbed) ==
  IF walk = None THEN None
  ELSE [walk EXCEPT !.dangling = @ \/ dangling, !.disturbed = @ \/ disturbed]

(* Mistake: a collider stays registered. *)
Freed_Registered(cs) == UNCHANGED colliders

(* The destructors of components: a collider deregisters. *)
Freed(cs) == colliders' = WithoutAll(colliders, cs)

AddEntity(e) ==
  /\ GameRuns
  /\ e \notin ToSet(entities) \cup deleted
  /\ entities' = Append(entities, e)
  /\ UNCHANGED <<components, colliders, killed, active, deleted, walk>>

(* removeEntity, and delete if the game likes. *)
RemoveEntity(e, delete) ==
  /\ GameRuns
  /\ e \in ToSet(entities) \/ (delete /\ e \notin deleted)
  /\ entities' = Without(entities, e)
  /\ IF delete
     THEN /\ deleted' = deleted \cup {e} \cup ToSet(components[e])
          /\ Freed(ToSet(components[e]))
     ELSE UNCHANGED <<deleted, colliders>>
  /\ walk' = Noted(\/ e = walk.l_i
                   \/ /\ delete
                      /\ \/ e = walk.entity
                         \/ walk.l_c \in ToSet(components[e]),
                   delete \/ e # walk.entity)
  /\ UNCHANGED <<components, killed, active>>

Kill(e) ==
  /\ GameRuns
  /\ e \notin killed \cup deleted
  /\ killed' = killed \cup {e}
  /\ UNCHANGED <<lists, active, deleted, walk>>

AddComponent(c) ==
  /\ GameRuns
  /\ {c, OwnerOf[c]} \cap deleted = {}
  /\ c \notin ToSet(components[OwnerOf[c]])
  /\ components' = [components EXCEPT ![OwnerOf[c]] = Append(@, c)]
  /\ UNCHANGED <<entities, colliders, killed, active, deleted, walk>>

RemoveComponent(c, delete) ==
  /\ GameRuns
  /\ OwnerOf[c] \notin deleted
  /\ c \in ToSet(components[OwnerOf[c]])
  /\ components' = [components EXCEPT ![OwnerOf[c]] = Without(@, c)]
  /\ IF delete THEN deleted' = deleted \cup {c} /\ Freed({c})
               ELSE UNCHANGED <<deleted, colliders>>
  /\ walk' = Noted(\/ c \in {walk.base, walk.rend}
                   \/ delete /\ c \in {walk.collider, walk.l_c},
                   \/ OwnerOf[c] = walk.entity
                   \/ delete /\ c = walk.l_c)
  /\ UNCHANGED <<entities, killed, active>>

SetActive(c) ==
  /\ GameRuns
  /\ c \notin deleted
  /\ active' = (active \ {c}) \cup ({c} \ active)
  /\ UNCHANGED <<lists, killed, deleted, walk>>

-----------------------------------------------------------------------------
(***************************************************************************)
(* EntitySceneLayer::update                                                *)
(***************************************************************************)
UpdateBegin ==
  /\ walk = None
  /\ walk' = [at |-> "entities", l_i |-> First(entities), entity |-> None,
              base |-> None, rend |-> None, collider |-> None, l_c |-> None,
              dangling |-> FALSE, was |-> entities,
              dead |-> killed \cap ToSet(entities), seen |-> <<>>,
              disturbed |-> FALSE]
  /\ UNCHANGED <<lists, killed, active, deleted>>

At(place) == walk # None /\ walk.at = place /\ ~walk.dangling

(* Mistake: a zombie is only passed by. *)
Bury_Keep ==
  /\ At("entities")
  /\ walk.l_i # None /\ walk.l_i \in killed
  /\ walk' = [walk EXCEPT !.l_i = After(entities, @)]
  /\ UNCHANGED <<lists, killed, active, deleted>>

(* A zombie is deleted with its components.                                *)
Bury ==
  /\ At("entities")
  /\ walk.l_i # None /\ walk.l_i \in killed
  /\ LET e == walk.l_i
     IN  /\ entities' = Without(entities, e)
         /\ deleted' = deleted \cup {e} \cup ToSet(components[e])
         /\ Freed(ToSet(components[e]))
         /\ walk' = [walk EXCEPT !.l_i = After(entities, e)]
  /\ UNCHANGED <<components, killed, active>>

Noticed(e) == IF e \in ToSet(walk.seen) THEN walk.seen ELSE Append(walk.seen, e)

(* Mistake: the iterator stays at the entity that is updated. *)
UpdateEntity_NoStep ==
  /\ At("entities")
  /\ walk.l_i # None /\ walk.l_i \notin killed
  /\ LET e == walk.l_i
     IN  walk' = [walk EXCEPT !.at = "components", !.entity = e,
                    !.base = None, !.rend = First(components[e]),
                    !.seen = Noticed(e)]
  /\ UNCHANGED <<lists, killed, active, deleted>>

(* Mistake: the flag is not looked at. *)
UpdateEntity_Zombies ==
  /\ At("entities")
  /\ walk.l_i # None
  /\ LET e == walk.l_i
     IN  walk' = [walk EXCEPT !.at = "components", !.entity = e,
                    !.l_i = After(entities, e),
                    !.base = None, !.rend = First(components[e]),
                    !.seen = Noticed(e)]
  /\ UNCHANGED <<lists, killed, active, deleted>>

UpdateEntity ==
  /\ At("entities")
  /\ walk.l_i # None /\ walk.l_i \notin killed
  /\ LET e == walk.l_i
     IN  walk' = [walk EXCEPT !.at = "components", !.entity = e,
                    !.l_i = After(entities, e),
                    !.base = None, !.rend = First(components[e]),
                    !.seen = Noticed(e)]
  /\ UNCHANGED <<lists, killed, active, deleted>>

UpdateEnd ==
  /\ At("entities")
  /\ walk.l_i = None
  /\ walk' = None
  /\ UNCHANGED <<lists, killed, active, deleted>>

-----------------------------------------------------------------------------
(***************************************************************************)
(* Entity::update: from the last component to the first                    *)
(***************************************************************************)
Current == Before(components[walk.entity], walk.base)

(* The component has been updated: the reverse_iterator steps.             *)
Stepped == [walk EXCEPT !.at = "components", !.base = Current,
                        !.collider = None, !.l_c = None]

ComponentsEnd ==
  /\ At("components")
  /\ walk.base = walk.rend
  /\ walk' = [walk EXCEPT !.at = "entities", !.entity = None,
                          !.base = None, !.rend = None]
  /\ UNCHANGED <<lists, killed, active, deleted>>

UpdateComponent ==
  /\ At("components")
  /\ walk.base # walk.rend
  /\ Current \notin Colliders
  /\ walk' = [walk EXCEPT !.at = "update"]
  /\ UNCHANGED <<lists, killed, active, deleted>>

(* The first update of a collider finds the layer and registers.           *)
Registered(c) == IF c \in ToSet(colliders) THEN colliders ELSE Append(colliders, c)

UpdateCollider ==
  /\ At("components")
  /\ walk.base # walk.rend
  /\ Current \in Colliders
  /\ colliders' = Registered(Current)
  /\ walk' = IF Current \in active
             THEN [walk EXCEPT !.at = "colliders", !.collider = Current,
                               !.l_c = First(colliders')]
             ELSE Stepped
  /\ UNCHANGED <<entities, components, killed, active, deleted>>

UpdateReturn ==
  /\ At("update")
  /\ walk' = Stepped
  /\ UNCHANGED <<lists, killed, active, deleted>>

-----------------------------------------------------------------------------
(***************************************************************************)
(* ColliderComponent::update: every other collider, hit or not.  A bullet  *)
(* looks several times, and stops at the first hit.                        *)
(***************************************************************************)
NoHit ==
  /\ At("colliders")
  /\ walk.l_c # None
  /\ walk' = [walk EXCEPT !.l_c = After(colliders, @)]
  /\ UNCHANGED <<lists, killed, active, deleted>>

Hit ==
  /\ At("colliders")
  /\ walk.l_c \notin {None, walk.collider}
  /\ walk.entity \in Moving
  /\ walk' = [walk EXCEPT !.at = "other"]
  /\ UNCHANGED <<lists, killed, active, deleted>>

(* collision() of the other collider returns, then that of the updated one.*)
OtherReturn ==
  /\ At("other")
  /\ walk' = [walk EXCEPT !.at = "self"]
  /\ UNCHANGED <<lists, killed, active, deleted>>

SelfReturn ==
  /\ At("self")
  /\ walk' = [walk EXCEPT !.at = "colliders", !.l_c = After(colliders, @)]
  /\ UNCHANGED <<lists, killed, active, deleted>>

CollidersEnd ==
  /\ At("colliders")
  /\ walk.l_c = None
  /\ walk' = Stepped
  /\ UNCHANGED <<lists, killed, active, deleted>>

-----------------------------------------------------------------------------
Game ==
  \/ \E e \in Entities : AddEntity(e) \/ Kill(e)
  \/ \E e \in Entities, delete \in BOOLEAN : RemoveEntity(e, delete)
  \/ \E c \in Components : AddComponent(c)
  \/ \E c \in Components, delete \in BOOLEAN : RemoveComponent(c, delete)
  \/ \E c \in Colliders : SetActive(c)

Return == UpdateReturn \/ OtherReturn \/ SelfReturn

Walking ==
  \/ Bury \/ UpdateEntity \/ UpdateEnd
  \/ UpdateComponent \/ UpdateCollider \/ ComponentsEnd
  \/ NoHit \/ Hit \/ CollidersEnd

Next == Game \/ UpdateBegin \/ Walking \/ Return

Spec == Init /\ [][Next]_vars

(* The scene updates its layers again and again, an update goes on, and    *)
(* what it calls returns.                                                  *)
FairSpec == Spec /\ SF_vars(UpdateBegin) /\ WF_vars(Walking) /\ WF_vars(Return)

-----------------------------------------------------------------------------
(* An update uses nothing that was freed, although what it calls may kill  *)
(* and add any entity, take the entity that is updated off the layer, and  *)
(* change the components of others: it may not take another entity off,    *)
(* delete one, take a component off the entity that is updated or delete   *)
(* the other collider of a collision.                                      *)
NoDangling == walk # None /\ walk.dangling => walk.disturbed

Finished == At("entities") /\ walk.l_i = None

(* Such an update comes by all entities in their order: at its end each    *)
(* has been updated, or was killed before its turn and is deleted, and     *)
(* none that was dead when it began has been updated.                      *)
UpdatedInTurn ==
  (Finished /\ ~walk.disturbed) =>
    LET updated == ToSet(walk.seen)
    IN  /\ IsPrefix(WithoutAll(walk.was, Entities \ updated), walk.seen)
        /\ ToSet(walk.was) \subseteq updated \cup (killed \cap deleted)
        /\ walk.dead \cap updated = {}

(* The collision layer knows each collider once, and none that is deleted, *)
(* whoever deletes it and whenever.                                        *)
CollidersAlive == ToSet(colliders) \cap deleted = {} /\ IsInjective(colliders)

(* As long as updates end, no killed entity stays on the layer for ever.   *)
ZombiesLeave ==
  []<>(walk = None) => \A e \in Entities : ~<>[](e \in killed /\ e \in ToSet(entities))

(* The entities from that of l_i on. *)
ToCome(s, x) ==
  [k \in 1..Len(s) - Place(s, x) + 1 |-> s[Place(s, x) - 1 + k]]

Stage == IF walk = None THEN "idle" ELSE IF walk.dangling THEN "lost" ELSE "update"
Turn == IF walk = None THEN None ELSE walk.entity
Line == IF Stage = "update" /\ walk.l_i # None THEN ToCome(entities, walk.l_i) ELSE <<>>

(* An update of the entities keeps the promises of UpdateRound, whatever   *)
(* components and collisions do, unless they use what NoDangling lists.    *)
Round == INSTANCE UpdateRound WITH
  Objects <- Entities, present <- ToSet(entities), dead <- killed,
  line <- Line, current <- Turn, state <- Stage

KeepsRounds == Round!Spec
=============================================================================
