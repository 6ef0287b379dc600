---------------------------- MODULE MCEntityLayer ----------------------------
(* Instances of EntityLayer for TLC. *)
EXTENDS EntityLayer, TLC

CONSTANTS e1, e2, k1, k2, g1

MCEntities == {e1, e2}
MCComponents == {k1, g1, k2}
MCColliders == {k1, k2}
MCOwnerOf == k1 :> e1 @@ g1 :> e1 @@ k2 :> e2
MCParts == e1 :> <<k1, g1>> @@ e2 :> <<k2>>
=============================================================================
