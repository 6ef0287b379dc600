----------------------------- MODULE EventSort ------------------------------
(***************************************************************************)
(* EventList::sort(SortEvent) as the C++ library does it: std::list::sort  *)
(* of libstdc++ is a bottom-up merge sort.  It takes the elements off the  *)
(* list one by one and merges runs of 1, 2, 4... elements like a binary    *)
(* counter.  A merge puts the head of the younger run before the head of   *)
(* the older one exactly when the comparator says so.                      *)
(*                                                                         *)
(* execute() sorts the active queue on every call, so a queue that waits   *)
(* for an event in the future is sorted again and again.                   *)
(***************************************************************************)
EXTENDS EventOrder

CONSTANTS
  MaxLength,   (* bound: the longest queue considered *)
  LastInstant  (* bound: the last instant *)

ASSUME SortAssumption == MaxLength \in Nat

VARIABLES
  arrival,     (* the active queue as queue() filled it                     *)
  queue,       (* the active queue                                          *)
  sorted,      (* execute() has sorted it and is dispatching                *)
  time

sorting == <<arrival, queue, sorted, time>>

(* Mistake: on a tie the younger event goes first. *)
TakesOlder_Unstable(older, younger, i, j) ==
  /\ i < Len(older)
  /\ j < Len(younger) => SortEvent(older[i + 1], younger[j + 1])

(* With i events of older and j of younger merged, the next is of older.   *)
TakesOlder(older, younger, i, j) ==
  /\ i < Len(older)
  /\ j < Len(younger) => ~SortEvent(younger[j + 1], older[i + 1])

(* taken[n] of the first n events of the result are of older.              *)
Merge(older, younger) ==
  LET taken[n \in 0..Len(older) + Len(younger)] ==
        IF n = 0 THEN 0
        ELSE IF TakesOlder(older, younger, taken[n - 1], n - 1 - taken[n - 1])
             THEN taken[n - 1] + 1 ELSE taken[n - 1]
  IN  [n \in 1..Len(older) + Len(younger) |->
         IF taken[n] > taken[n - 1] THEN older[taken[n]] ELSE younger[n - taken[n]]]

(* The first run merged into one run after another. *)
MergeAll(first, runs) ==
  LET m[n \in 0..Len(runs)] == IF n = 0 THEN first ELSE Merge(runs[n], m[n - 1])
  IN  m[Len(runs)]

(* The carry of one more element into the runs, the shortest run first, up *)
(* to the first that is empty.                                             *)
Carry(runs, x) ==
  LET k == CHOOSE i \in 1..Len(runs) + 1 :
             /\ i = Len(runs) + 1 \/ runs[i] = <<>>
             /\ \A j \in 1..i - 1 : runs[j] # <<>>
  IN  [i \in 1..(IF k > Len(runs) THEN k ELSE Len(runs)) |->
         IF i < k THEN <<>>
         ELSE IF i = k THEN MergeAll(<<x>>, SubSeq(runs, 1, k - 1)) ELSE runs[i]]

(* The runs when all elements have been taken off the list. *)
Runs(q) ==
  LET r[n \in 0..Len(q)] == IF n = 0 THEN <<>> ELSE Carry(r[n - 1], q[n])
  IN  r[Len(q)]

(* Mistake: the runs are joined without a last merge. *)
ListSort_NoLastMerge(q) == FlattenSeq(Reverse(Runs(q)))

ListSort(q) == MergeAll(<<>>, Runs(q))

(* Any queue of distinct events may have become the active one. *)
SortInit ==
  /\ arrival \in {q \in BoundedSeq(Events, MaxLength) : IsInjective(q)}
  /\ queue = arrival
  /\ sorted = FALSE
  /\ time = 0

Execute ==
  /\ ~sorted
  /\ queue' = ListSort(queue)
  /\ sorted' = TRUE
  /\ UNCHANGED <<arrival, time>>

Due(e) == TimeStamp[e] <= time

(* The first event is due: dispatch it, pop it. *)
Pop ==
  /\ sorted
  /\ queue # <<>>
  /\ Due(Head(queue))
  /\ queue' = Tail(queue)
  /\ UNCHANGED <<arrival, sorted, time>>

(* The queue is empty or its first event is in the future: execute() ends. *)
Stop ==
  /\ sorted
  /\ queue # <<>> => ~Due(Head(queue))
  /\ sorted' = FALSE
  /\ UNCHANGED <<arrival, queue, time>>

TimePasses ==
  /\ time < LastInstant
  /\ time' = time + 1
  /\ UNCHANGED <<arrival, queue, sorted>>

SortNext == Execute \/ Pop \/ Stop \/ TimePasses

SortSpec == SortInit /\ [][SortNext]_sorting

-----------------------------------------------------------------------------
Position(q, e) == CHOOSE i \in DOMAIN q : q[i] = e

(* What EventManager assumes of the sort holds of the library's algorithm, *)
(* for every queue, whatever the comparator says.                          *)
SortSound == IsSortOf(queue, ListSort(queue))

(* As long as no two events conflict, execute() dispatches in order of     *)
(* priority, then of time, and events that agree in both in the order they *)
(* were queued, however often the rest of the queue is sorted again.       *)
InOrderUnlessConflict ==
  (sorted /\ \A e, f \in ToSet(arrival) : ~Conflict(e, f)) =>
    \A i, j \in DOMAIN queue : i < j =>
      \/ Priority[queue[i]] > Priority[queue[j]]
      \/ /\ Priority[queue[i]] = Priority[queue[j]]
         /\ \/ TimeStamp[queue[i]] < TimeStamp[queue[j]]
            \/ /\ TimeStamp[queue[i]] = TimeStamp[queue[j]]
               /\ Position(arrival, queue[i]) < Position(arrival, queue[j])

=============================================================================
