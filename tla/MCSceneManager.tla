--------------------------- MODULE MCSceneManager ---------------------------
(* Instances of SceneManager for TLC. *)
EXTENDS SceneManager

CONSTANTS s1, s2, a, b, c, black, white

MCScenes == {s1, s2}
MCLayers == {a, b, c}
MCOnOneScene == [l \in MCLayers |-> s1]
MCUpdateBlock == {b}
MCRenderBlock == {c}
MCColors == {black, white}
=============================================================================
