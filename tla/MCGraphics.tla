----------------------------- MODULE MCGraphics -----------------------------
(* Instances of Graphics for TLC. *)
EXTENDS Graphics, TLC

CONSTANTS t1, t2, b1, b2, n1, n2, m1, m2

MCTextures == {t1, t2}
MCBuffers == {b1, b2}
MCTextureNames == {n1, n2}
MCBufferNames == {m1, m2}

MCSymmetry ==
  Permutations(MCTextures) \cup Permutations(MCBuffers)
    \cup Permutations(MCTextureNames) \cup Permutations(MCBufferNames)
=============================================================================
