---------------------------- MODULE PointerList ----------------------------
(***************************************************************************)
(* The std::list of pointers of this program, as sequences whose elements  *)
(* are all different: an iterator is named by the element its node holds.  *)
(***************************************************************************)
EXTENDS Integers, SequencesExt

Place(s, x) == CHOOSE i \in DOMAIN s : s[i] = x

(* std::list::remove(x) *)
Without(s, x) == IF x \in ToSet(s) THEN RemoveAt(s, Place(s, x)) ELSE s

(* What is left of s when all of xs are removed from it, one by one. *)
WithoutAll(s, xs) ==
  LET left[n \in 0..Len(s)] ==
        IF n = 0 THEN <<>>
        ELSE IF s[n] \in xs THEN left[n - 1] ELSE Append(left[n - 1], s[n])
  IN  left[Len(s)]
=============================================================================
