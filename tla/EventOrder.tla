----------------------------- MODULE EventOrder -----------------------------
(***************************************************************************)
(* The order in which EventManager::execute dispatches the events of a     *)
(* queue: the comparator SortEvent of event/eventmanager.cpp, and what a   *)
(* sort that uses it can promise.                                          *)
(*                                                                         *)
(* SortEvent is not a strict weak ordering: when one event has the higher  *)
(* priority and the other the earlier timestamp, each "precedes" the       *)
(* other.  std::list::sort is not specified for such a comparator, so      *)
(* IsSortOf states only what every stable merge sort gives: a permutation  *)
(* in which no event directly follows one that it should clearly precede.  *)
(* Module EventSort has the library's algorithm, which satisfies it.       *)
(***************************************************************************)
EXTENDS Integers, SequencesExt

CONSTANTS
  Events,      (* the event objects                                        *)
  Priority,    (* Event::priority(), an unsigned char, of each event       *)
  TimeStamp    (* Event::timeStamp() of each event                         *)

ASSUME OrderAssumption ==
  /\ Priority  \in [Events -> 0..255]
  /\ TimeStamp \in [Events -> Nat]

SortEvent(lhs, rhs) ==
  \/ Priority[lhs] > Priority[rhs]
  \/ TimeStamp[lhs] < TimeStamp[rhs]

(* Each of the two precedes the other. *)
Conflict(a, b) == SortEvent(a, b) /\ SortEvent(b, a)

(* b may come directly after a in a sorted queue. *)
MayFollow(a, b) == SortEvent(b, a) => SortEvent(a, b)

(* s is q in an order that sorting q may give. *)
IsSortOf(q, s) ==
  /\ \E p \in Bijection(1..Len(q), 1..Len(q)) :
       s = [i \in 1..Len(q) |-> q[p[i]]]
  /\ \A i \in 1..Len(q) - 1 : MayFollow(s[i], s[i + 1])

(* The results that sorting q may give. *)
SortsOf(q) == {s \in [1..Len(q) -> ToSet(q)] : IsSortOf(q, s)}
=============================================================================
