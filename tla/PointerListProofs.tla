-------------------------- MODULE PointerListProofs --------------------------
(***************************************************************************)
(* What the operations of std::list do to a list without duplicates.       *)
(***************************************************************************)
EXTENDS PointerList, SequenceTheorems, WellFoundedInduction, TLAPS

(* push_back adds one element, and keeps a list without duplicates so.     *)
LEMMA AppendFacts ==
  ASSUME NEW S, NEW s \in Seq(S), NEW x \in S
  PROVE  /\ Append(s, x) \in Seq(S)
         /\ ToSet(Append(s, x)) = ToSet(s) \cup {x}
         /\ IsInjective(s) /\ x \notin ToSet(s) => IsInjective(Append(s, x))
<1>1. /\ Append(s, x) \in Seq(S)
      /\ DOMAIN Append(s, x) = 1..Len(s) + 1
      /\ DOMAIN s = 1..Len(s)
      /\ Len(s) \in Nat
      /\ \A i \in 1..Len(s) : Append(s, x)[i] = s[i]
      /\ Append(s, x)[Len(s) + 1] = x
  OBVIOUS
<1>2. ToSet(Append(s, x)) = ToSet(s) \cup {x}
  BY <1>1 DEF ToSet
<1>3. ASSUME IsInjective(s), x \notin ToSet(s) PROVE IsInjective(Append(s, x))
  BY <1>1, <1>3 DEF ToSet, IsInjective
<1>4. QED
  BY <1>1, <1>2, <1>3

(* pop_front takes the first element away. *)
LEMMA TailFacts ==
  ASSUME NEW S, NEW s \in Seq(S), s # <<>>
  PROVE  /\ Tail(s) \in Seq(S)
         /\ Head(s) \in ToSet(s)
         /\ Head(s) \in S
         /\ IsInjective(s) => /\ ToSet(Tail(s)) = ToSet(s) \ {Head(s)}
                              /\ IsInjective(Tail(s))
<1>1. /\ Tail(s) \in Seq(S)
      /\ Len(s) \in Nat \ {0}
      /\ DOMAIN Tail(s) = 1..Len(s) - 1
      /\ DOMAIN s = 1..Len(s)
      /\ \A i \in 1..Len(s) - 1 : Tail(s)[i] = s[i + 1]
      /\ Head(s) = s[1]
      /\ s[1] \in S
  OBVIOUS
<1>2. Head(s) \in ToSet(s)
  BY <1>1 DEF ToSet
<1>3. ASSUME IsInjective(s)
      PROVE  ToSet(Tail(s)) = ToSet(s) \ {Head(s)}
  <2>1. ASSUME NEW y \in ToSet(s), y # Head(s) PROVE y \in ToSet(Tail(s))
    <3>1. PICK i \in 1..Len(s) : y = s[i]
      BY <1>1 DEF ToSet
    <3>2. i # 1 /\ i - 1 \in 1..Len(s) - 1 /\ Tail(s)[i - 1] = s[i]
      BY <1>1, <2>1, <3>1
    <3>3. QED
      BY <1>1, <3>1, <3>2 DEF ToSet
  <2>2. ASSUME NEW y \in ToSet(Tail(s)) PROVE y \in ToSet(s) /\ y # Head(s)
    BY <1>1, <1>3 DEF ToSet, IsInjective
  <2>3. QED
    BY <2>1, <2>2
<1>4. ASSUME IsInjective(s) PROVE IsInjective(Tail(s))
  BY <1>1, <1>4 DEF IsInjective
<1>5. QED
  BY <1>1, <1>2, <1>3, <1>4

(* erase(i): the elements behind the place k move up by one. *)
LEMMA RemoveAtFacts ==
  ASSUME NEW S, NEW s \in Seq(S), NEW k \in 1..Len(s)
  PROVE  /\ RemoveAt(s, k) \in Seq(S)
         /\ Len(RemoveAt(s, k)) = Len(s) - 1
         /\ \A i \in 1..Len(s) - 1 :
              RemoveAt(s, k)[i] = IF i < k THEN s[i] ELSE s[i + 1]
<1> DEFINE u == SubSeq(s, 1, k - 1)
           v == SubSeq(s, k + 1, Len(s))
<1>1. /\ u \in Seq(S) /\ Len(u) = k - 1
      /\ \A i \in 1..k - 1 : u[i] = s[i]
  OBVIOUS
<1>2. /\ v \in Seq(S) /\ Len(v) = Len(s) - k
      /\ \A i \in 1..Len(s) - k : v[i] = s[i + k]
  OBVIOUS
<1>3. RemoveAt(s, k) = u \o v
  BY DEF RemoveAt
<1> HIDE DEF u, v
<1>4. /\ u \o v \in Seq(S) /\ Len(u \o v) = Len(s) - 1
  BY <1>1, <1>2
<1>5. ASSUME NEW i \in 1..Len(s) - 1
      PROVE  (u \o v)[i] = IF i < k THEN s[i] ELSE s[i + 1]
  <2>1. CASE i < k
    BY <1>1, <1>2, <2>1
  <2>2. CASE ~(i < k)
    <3>1. (u \o v)[i] = v[i - k + 1] /\ i - k + 1 \in 1..Len(s) - k
      BY <1>1, <1>2, <2>2
    <3>2. v[i - k + 1] = s[i - k + 1 + k] /\ i - k + 1 + k = i + 1
      BY <1>2, <3>1
    <3>3. QED
      BY <2>2, <3>1, <3>2
  <2>3. QED
    BY <2>1, <2>2
<1>6. QED
  BY <1>3, <1>4, <1>5

(* remove takes out the only place of x. *)
LEMMA WithoutFacts ==
  ASSUME NEW S, NEW s \in Seq(S), NEW x
  PROVE  /\ Without(s, x) \in Seq(S)
         /\ IsInjective(s) => /\ ToSet(Without(s, x)) = ToSet(s) \ {x}
                              /\ IsInjective(Without(s, x))
<1>1. CASE x \notin ToSet(s)
  BY <1>1 DEF Without
<1>2. CASE x \in ToSet(s)
  <2> DEFINE k == Place(s, x)
             r == RemoveAt(s, k)
  <2>1. k \in 1..Len(s) /\ s[k] = x /\ Len(s) \in Nat /\ DOMAIN s = 1..Len(s)
    BY <1>2 DEF ToSet, Place
  <2> HIDE DEF k
  <2>2. Without(s, x) = r
    BY <1>2 DEF Without, k
  <2>3. /\ r \in Seq(S)
        /\ DOMAIN r = 1..Len(s) - 1
        /\ \A i \in 1..Len(s) - 1 : r[i] = IF i < k THEN s[i] ELSE s[i + 1]
    BY <2>1, RemoveAtFacts
  <2> HIDE DEF r
  <2>4. ASSUME IsInjective(s) PROVE ToSet(r) = ToSet(s) \ {x}
    <3>1. ASSUME NEW y \in ToSet(s), y # x PROVE y \in ToSet(r)
      <4>1. PICK i \in 1..Len(s) : y = s[i]
        BY <2>1 DEF ToSet
      <4>2. CASE i < k
        BY <2>1, <2>3, <4>1, <4>2 DEF ToSet
      <4>3. CASE i > k
        <5>1. i - 1 \in 1..Len(s) - 1 /\ ~(i - 1 < k) /\ r[i - 1] = s[i]
          BY <2>1, <2>3, <4>3
        <5>2. QED
          BY <2>3, <4>1, <5>1 DEF ToSet
      <4>4. QED
        BY <2>1, <3>1, <4>1, <4>2, <4>3
    <3>2. ASSUME NEW y \in ToSet(r) PROVE y \in ToSet(s) /\ y # x
      <4>1. PICK i \in 1..Len(s) - 1 : y = IF i < k THEN s[i] ELSE s[i + 1]
        BY <2>3 DEF ToSet
      <4>2. PICK j \in 1..Len(s) : y = s[j] /\ j # k
        BY <2>1, <4>1
      <4>3. QED
        BY <2>1, <2>4, <4>2 DEF ToSet, IsInjective
    <3>3. QED
      BY <3>1, <3>2
  <2>5. ASSUME IsInjective(s) PROVE IsInjective(r)
    <3>1. SUFFICES ASSUME NEW i \in 1..Len(s) - 1, NEW j \in 1..Len(s) - 1,
                          r[i] = r[j]
                   PROVE  i = j
      BY <2>3 DEF IsInjective
    <3>2. \A m, n \in 1..Len(s) : s[m] = s[n] => m = n
      BY <2>1, <2>5 DEF IsInjective
    <3>3. QED
      BY <2>1, <2>3, <3>1, <3>2
  <2>6. QED
    BY <2>2, <2>3, <2>4, <2>5
<1>3. QED
  BY <1>1, <1>2

-----------------------------------------------------------------------------
(* Where a pointer is. *)
LEMMA PlaceFacts ==
  ASSUME NEW S, NEW s \in Seq(S), NEW x \in ToSet(s)
  PROVE  /\ Place(s, x) \in 1..Len(s)
         /\ s[Place(s, x)] = x
         /\ x \in S
         /\ Len(s) \in Nat /\ DOMAIN s = 1..Len(s)
         /\ IsInjective(s) => \A k \in 1..Len(s) : s[k] = x => k = Place(s, x)
<1>1. PICK i \in 1..Len(s) : s[i] = x
  BY DEF ToSet
<1>2. Place(s, x) \in DOMAIN s /\ s[Place(s, x)] = x
  BY <1>1 DEF Place
<1>3. QED
  BY <1>1, <1>2 DEF IsInjective

(* What an iterator at x has behind it: the elements before x.             *)
Ahead(s, x) == {s[k] : k \in 1..Place(s, x) - 1}

LEMMA HeadFacts ==
  ASSUME NEW S, NEW s \in Seq(S), s # <<>>, IsInjective(s)
  PROVE  /\ Head(s) \in ToSet(s)
         /\ Place(s, Head(s)) = 1
         /\ Ahead(s, Head(s)) = {}
<1>1. Len(s) \in Nat \ {0} /\ DOMAIN s = 1..Len(s) /\ Head(s) = s[1]
  OBVIOUS
<1>2. Head(s) \in ToSet(s)
  BY <1>1 DEF ToSet
<1>3. Place(s, Head(s)) = 1
  BY <1>1, <1>2, PlaceFacts
<1>4. QED
  BY <1>2, <1>3 DEF Ahead

LEMMA LastFacts ==
  ASSUME NEW S, NEW s \in Seq(S), s # <<>>, IsInjective(s)
  PROVE  /\ Last(s) \in ToSet(s)
         /\ Place(s, Last(s)) = Len(s)
         /\ ToSet(s) = Ahead(s, Last(s)) \cup {Last(s)}
<1>1. Len(s) \in Nat \ {0} /\ DOMAIN s = 1..Len(s) /\ Last(s) = s[Len(s)]
  BY DEF Last
<1>2. Last(s) \in ToSet(s)
  BY <1>1 DEF ToSet
<1>3. Place(s, Last(s)) = Len(s)
  BY <1>1, <1>2, PlaceFacts
<1>4. QED
  BY <1>1, <1>2, <1>3 DEF Ahead, ToSet

LEMMA AheadFacts ==
  ASSUME NEW S, NEW s \in Seq(S), NEW x \in ToSet(s), IsInjective(s)
  PROVE  Ahead(s, x) \subseteq ToSet(s) /\ x \notin Ahead(s, x)
<1>1. /\ Place(s, x) \in 1..Len(s) /\ Len(s) \in Nat /\ DOMAIN s = 1..Len(s)
      /\ \A k \in 1..Len(s) : s[k] = x => k = Place(s, x)
  BY PlaceFacts
<1>2. QED
  BY <1>1 DEF Ahead, ToSet

(* The elements next to an element in the list. *)
LEMMA NextFacts ==
  ASSUME NEW S, NEW s \in Seq(S), NEW x \in ToSet(s), IsInjective(s)
  PROVE  /\ x = Last(s) => Place(s, x) = Len(s)
         /\ Place(s, x) < Len(s) =>
              LET y == s[Place(s, x) + 1]
              IN  /\ y \in ToSet(s) /\ y # x
                  /\ Place(s, y) = Place(s, x) + 1
                  /\ Ahead(s, y) = Ahead(s, x) \cup {x}
         /\ Place(s, x) = Len(s) => ToSet(s) = Ahead(s, x) \cup {x} /\ x = Last(s)
<1> DEFINE p == Place(s, x)
<1>1. /\ p \in 1..Len(s) /\ s[p] = x
      /\ Len(s) \in Nat /\ DOMAIN s = 1..Len(s)
      /\ \A k \in 1..Len(s) : s[k] = x => k = p
  BY PlaceFacts
<1>2. s # <<>> /\ Last(s) = s[Len(s)]
  BY <1>1 DEF Last
<1>3. ASSUME p < Len(s)
      PROVE  LET y == s[p + 1]
             IN  /\ y \in ToSet(s) /\ y # x
                 /\ Place(s, y) = p + 1
                 /\ Ahead(s, y) = Ahead(s, x) \cup {x}
  <2> DEFINE y == s[p + 1]
  <2>1. p + 1 \in 1..Len(s)
    BY <1>1, <1>3
  <2>2. y \in ToSet(s) /\ y # x
    BY <1>1, <2>1 DEF ToSet
  <2>3. Place(s, y) = p + 1
    BY <2>1, <2>2, PlaceFacts
  <2> HIDE DEF y
  <2>4. 1..(p + 1) - 1 = (1..p - 1) \cup {p}
    BY <1>1
  <2>5. Ahead(s, y) = Ahead(s, x) \cup {x}
    BY <1>1, <2>3, <2>4 DEF Ahead
  <2>6. QED
    BY <2>2, <2>3, <2>5 DEF y
<1>4. ASSUME p = Len(s) PROVE ToSet(s) = Ahead(s, x) \cup {x} /\ x = Last(s)
  BY <1>1, <1>2, <1>4, LastFacts
<1>5. QED
  BY <1>1, <1>2, <1>3, <1>4

LEMMA PreviousFacts ==
  ASSUME NEW S, NEW s \in Seq(S), NEW x \in ToSet(s), IsInjective(s), x # Head(s)
  PROVE  LET y == s[Place(s, x) - 1]
         IN  /\ y \in ToSet(s) /\ y # x
             /\ Place(s, y) = Place(s, x) - 1
             /\ Ahead(s, x) = Ahead(s, y) \cup {y}
             /\ y \notin Ahead(s, y)
<1> DEFINE p == Place(s, x)
           y == s[p - 1]
<1>1. /\ p \in 1..Len(s) /\ s[p] = x
      /\ Len(s) \in Nat /\ DOMAIN s = 1..Len(s)
      /\ Head(s) = s[1]
  BY PlaceFacts
<1>2. p - 1 \in 1..Len(s) /\ (p - 1) + 1 = p
  BY <1>1
<1>3. y \in ToSet(s)
  BY <1>1, <1>2 DEF ToSet
<1>4. Place(s, y) = p - 1
  BY <1>2, <1>3, PlaceFacts
<1> HIDE DEF p
<1>5. Place(s, y) < Len(s) /\ s[Place(s, y) + 1] = x
  BY <1>1, <1>2, <1>4
<1>6. x # y /\ Ahead(s, x) = Ahead(s, y) \cup {y}
  BY <1>3, <1>5, NextFacts
<1>7. y \notin Ahead(s, y)
  BY <1>3, AheadFacts
<1>8. QED
  BY <1>3, <1>4, <1>6, <1>7 DEF p

(* What push_back and remove leave of what is ahead of an iterator.        *)
LEMMA AheadAppend ==
  ASSUME NEW S, NEW s \in Seq(S), NEW y \in S, NEW x \in ToSet(s),
         IsInjective(s), y \notin ToSet(s)
  PROVE  /\ Ahead(Append(s, y), x) = Ahead(s, x)
         /\ Head(Append(s, y)) = Head(s)
<1> DEFINE t == Append(s, y)
           p == Place(s, x)
<1>1. /\ p \in 1..Len(s) /\ s[p] = x
      /\ Len(s) \in Nat /\ DOMAIN s = 1..Len(s)
  BY PlaceFacts
<1>2. /\ t \in Seq(S) /\ Len(t) = Len(s) + 1
      /\ \A i \in 1..Len(s) : t[i] = s[i]
  OBVIOUS
<1>3. x \in ToSet(t) /\ IsInjective(t)
  BY AppendFacts
<1> HIDE DEF t, p
<1>4. p \in 1..Len(t) /\ t[p] = x
  BY <1>1, <1>2
<1>5. Place(t, x) = p
  BY <1>2, <1>3, <1>4, PlaceFacts
<1>6. {t[k] : k \in 1..p - 1} = {s[k] : k \in 1..p - 1}
  BY <1>1, <1>2
<1>7. Head(t) = Head(s)
  <2>1. s # <<>> /\ t # <<>>
    BY <1>1, <1>2
  <2>2. QED
    BY <1>1, <1>2, <2>1
<1>8. QED
  BY <1>5, <1>6, <1>7 DEF Ahead, p, t

LEMMA AheadWithout ==
  ASSUME NEW S, NEW s \in Seq(S), NEW f, NEW x \in ToSet(s),
         IsInjective(s), f # x
  PROVE  /\ Ahead(Without(s, f), x) = Ahead(s, x) \ {f}
         /\ f # Head(s) => Head(Without(s, f)) = Head(s)
<1>0. CASE f \notin ToSet(s)
  <2>1. Without(s, f) = s
    BY <1>0 DEF Without
  <2>2. f \notin Ahead(s, x)
    BY <1>0, AheadFacts
  <2>3. QED
    BY <2>1, <2>2
<1>1. CASE f \in ToSet(s)
  <2> DEFINE t == Without(s, f)
             p == Place(s, x)
             k == Place(s, f)
  <2>1. /\ p \in 1..Len(s) /\ s[p] = x
        /\ k \in 1..Len(s) /\ s[k] = f
        /\ Len(s) \in Nat /\ DOMAIN s = 1..Len(s)
        /\ \A i \in 1..Len(s) : s[i] = f => i = k
    BY <1>1, PlaceFacts
  <2>2. t = RemoveAt(s, k)
    BY <1>1 DEF Without
  <2>3. /\ t \in Seq(S) /\ Len(t) = Len(s) - 1
        /\ \A i \in 1..Len(s) - 1 : t[i] = IF i < k THEN s[i] ELSE s[i + 1]
    BY <2>1, <2>2, RemoveAtFacts
  <2>4. x \in ToSet(t) /\ IsInjective(t)
    BY WithoutFacts
  <2> DEFINE q == IF p < k THEN p ELSE p - 1
  <2> HIDE DEF t, p, k
  <2>5. p # k
    BY <2>1
  <2>6. q \in 1..Len(t) /\ t[q] = x
    BY <2>1, <2>3, <2>5
  <2>7. Place(t, x) = q
    BY <2>3, <2>4, <2>6, PlaceFacts
  <2>8. {t[i] : i \in 1..q - 1} = {s[i] : i \in 1..p - 1} \ {f}
    <3>1. ASSUME NEW i \in 1..q - 1
          PROVE  t[i] \in {s[j] : j \in 1..p - 1} \ {f}
      <4>1. CASE i < k
        BY <2>1, <2>3, <2>5, <3>1, <4>1
      <4>2. CASE ~(i < k)
        <5>1. t[i] = s[i + 1] /\ i + 1 \in 1..p - 1 /\ i + 1 # k /\ i + 1 \in 1..Len(s)
          BY <2>1, <2>3, <2>5, <3>1, <4>2
        <5>2. QED
          BY <2>1, <5>1
      <4>3. QED
        BY <4>1, <4>2
    <3>2. ASSUME NEW i \in 1..p - 1, s[i] # f
          PROVE  s[i] \in {t[j] : j \in 1..q - 1}
      <4>1. CASE i < k
        BY <2>1, <2>3, <2>5, <3>2, <4>1
      <4>2. CASE i > k
        <5>1. /\ i - 1 \in 1..q - 1 /\ t[i - 1] = s[(i - 1) + 1]
              /\ (i - 1) + 1 = i
          BY <2>1, <2>3, <2>5, <3>2, <4>2
        <5>2. QED
          BY <5>1
      <4>3. QED
        BY <2>1, <3>2, <4>1, <4>2
    <3>3. QED
      BY <3>1, <3>2
  <2>9. f # Head(s) => Head(t) = Head(s)
    <3>1. SUFFICES ASSUME f # Head(s) PROVE Head(t) = Head(s)
      OBVIOUS
    <3>2. Head(s) = s[1] /\ k # 1
      BY <2>1, <3>1
    <3>3. t # <<>> /\ t[1] = s[1]
      BY <2>1, <2>3, <3>2
    <3>4. QED
      BY <2>3, <3>2, <3>3
  <2>10. QED
    BY <2>7, <2>8, <2>9 DEF Ahead, p, t
<1>2. QED
  BY <1>0, <1>1

-----------------------------------------------------------------------------
(* A set of numbers that is not empty has a smallest one. *)
LEMMA Smallest ==
  ASSUME NEW B \in SUBSET Nat, B # {}
  PROVE  \E x \in B : \A y \in B : x <= y
<1>1. PICK x \in B : \A y \in B : ~(<<y, x>> \in OpToRel(<, Nat))
  BY NatLessThanWellFounded, WFMin
<1>2. SUFFICES ASSUME NEW y \in B PROVE x <= y
  OBVIOUS
<1>3. ~(y < x)
  BY <1>1 DEF OpToRel
<1>4. QED
  BY <1>3

(* The numbers up to m with a property that 0 has and each passes on.      *)
LEMMA UpTo ==
  ASSUME NEW m \in Nat, NEW G \in SUBSET (0..m), 0 \in G,
         \A n \in 1..m : n - 1 \in G => n \in G
  PROVE  G = 0..m
<1>1. SUFFICES ASSUME G # 0..m PROVE FALSE
  OBVIOUS
<1>2. PICK x \in (0..m) \ G : \A y \in (0..m) \ G : x <= y
  <2>1. (0..m) \ G \in SUBSET Nat
    OBVIOUS
  <2>2. (0..m) \ G # {}
    BY <1>1
  <2>3. QED
    BY <2>1, <2>2, Smallest
<1>3. x \in 1..m /\ x - 1 \in 0..m /\ ~(x <= x - 1)
  BY <1>2
<1>4. x - 1 \in G
  BY <1>2, <1>3
<1>5. QED
  BY <1>2, <1>3, <1>4

(* A function whose value at each number is computed from the one before. *)
LEMMA Recursion ==
  ASSUME NEW D, NEW z \in D, NEW m \in Nat, NEW g \in [1..m -> [D -> D]]
  PROVE  \E f \in [0..m -> D] : f[0] = z /\ \A n \in 1..m : f[n] = g[n][f[n - 1]]
<1> DEFINE Upto(k, f) == f[0] = z /\ \A n \in 1..k : f[n] = g[n][f[n - 1]]
           G == {k \in 0..m : \E f \in [0..k -> D] : Upto(k, f)}
<1>1. 0 \in G
  <2>1. [i \in 0..0 |-> z] \in [0..0 -> D] /\ Upto(0, [i \in 0..0 |-> z])
    OBVIOUS
  <2>2. \E f \in [0..0 -> D] : Upto(0, f)
    BY <2>1
  <2> HIDE DEF Upto
  <2>3. QED
    BY <2>2
<1>2. ASSUME NEW k \in 1..m, k - 1 \in G PROVE k \in G
  <2>1. PICK f \in [0..k - 1 -> D] : Upto(k - 1, f)
    BY <1>2
  <2> DEFINE h == [n \in 0..k |-> IF n < k THEN f[n] ELSE g[k][f[k - 1]]]
  <2>2. f[k - 1] \in D /\ g[k][f[k - 1]] \in D
    BY <2>1
  <2>3. h \in [0..k -> D]
    BY <2>1, <2>2
  <2>4. ASSUME NEW n \in 1..k PROVE h[n] = g[n][h[n - 1]]
    <3>1. h[n - 1] = f[n - 1]
      OBVIOUS
    <3>2. CASE n = k
      BY <3>1, <3>2
    <3>3. CASE n < k
      BY <2>1, <3>1, <3>3
    <3>4. QED
      BY <3>2, <3>3
  <2>5. h[0] = z
    BY <2>1
  <2>6. Upto(k, h)
    BY <2>4, <2>5
  <2> HIDE DEF h, Upto
  <2>7. k \in 0..m
    OBVIOUS
  <2>8. QED
    BY <2>3, <2>6, <2>7
<1>3. G = 0..m
  <2>1. G \in SUBSET (0..m)
    OBVIOUS
  <2> HIDE DEF G
  <2>2. QED
    BY <1>1, <1>2, <2>1, UpTo
<1>4. QED
  BY <1>3

LeftStep(s, xs, f, n) ==
  IF n = 0 THEN <<>> ELSE IF s[n] \in xs THEN f[n - 1] ELSE Append(f[n - 1], s[n])

LEMMA LeftExists ==
  ASSUME NEW s, NEW xs, NEW m \in Nat
  PROVE  \E f : f = [n \in 0..m |-> LeftStep(s, xs, f, n)]
<1> DEFINE G == {k \in 0..m : \E f : f = [n \in 0..k |-> LeftStep(s, xs, f, n)]}
<1>1. 0 \in G
  <2>1. [n \in 0..0 |-> <<>>] = [n \in 0..0 |-> LeftStep(s, xs, [i \in 0..0 |-> <<>>], n)]
    BY DEF LeftStep
  <2>2. QED
    BY <2>1
<1>2. ASSUME NEW k \in 1..m, k - 1 \in G PROVE k \in G
  <2>1. PICK f : f = [n \in 0..k - 1 |-> LeftStep(s, xs, f, n)]
    BY <1>2
  <2> DEFINE g == [n \in 0..k |-> IF n < k THEN f[n] ELSE LeftStep(s, xs, f, k)]
  <2>2. ASSUME NEW n \in 0..k PROVE g[n] = LeftStep(s, xs, g, n)
    <3>1. CASE n = 0
      <4>1. g[n] = f[0] /\ f[0] = LeftStep(s, xs, f, 0)
        BY <2>1, <3>1
      <4>2. QED
        BY <3>1, <4>1 DEF LeftStep
    <3>2. CASE n # 0
      <4>1. g[n - 1] = f[n - 1]
        BY <3>2
      <4>2. g[n] = LeftStep(s, xs, f, n)
        BY <2>1
      <4>3. QED
        BY <4>1, <4>2 DEF LeftStep
    <3>3. QED
      BY <3>1, <3>2
  <2>3. g = [n \in 0..k |-> LeftStep(s, xs, g, n)]
    BY <2>2
  <2> HIDE DEF g
  <2>4. \E h : h = [n \in 0..k |-> LeftStep(s, xs, h, n)]
    BY ONLY <2>3
  <2>5. k \in 0..m
    OBVIOUS
  <2>6. QED
    BY <2>4, <2>5
<1>3. G = 0..m
  <2> HIDE DEF G
  <2>1. G \in SUBSET (0..m)
    BY DEF G
  <2>2. QED
    BY <1>1, <1>2, <2>1, UpTo
<1>4. QED
  BY <1>3

LEMMA LeftFacts ==
  ASSUME NEW s, NEW xs, Len(s) \in Nat
  PROVE  \E f : /\ WithoutAll(s, xs) = f[Len(s)]
                /\ f = [n \in 0..Len(s) |-> LeftStep(s, xs, f, n)]
<1> DEFINE left == CHOOSE f : f = [n \in 0..Len(s) |-> LeftStep(s, xs, f, n)]
<1>1. WithoutAll(s, xs) = left[Len(s)]
  BY DEF WithoutAll, LeftStep
<1>2. left = [n \in 0..Len(s) |-> LeftStep(s, xs, left, n)]
  <2>1. \E f : f = [n \in 0..Len(s) |-> LeftStep(s, xs, f, n)]
    BY LeftExists
  <2>2. QED
    BY ONLY <2>1
<1>3. QED
  BY <1>1, <1>2

(* What removing several elements leaves of a list. *)
LEMMA WithoutAllFacts ==
  ASSUME NEW S, NEW s \in Seq(S), NEW xs
  PROVE  /\ WithoutAll(s, xs) \in Seq(S)
         /\ ToSet(WithoutAll(s, xs)) = ToSet(s) \ xs
         /\ IsInjective(s) => IsInjective(WithoutAll(s, xs))
<1>0. Len(s) \in Nat /\ DOMAIN s = 1..Len(s) /\ \A n \in 1..Len(s) : s[n] \in S
  OBVIOUS
<1>1. PICK f : /\ WithoutAll(s, xs) = f[Len(s)]
               /\ f = [n \in 0..Len(s) |-> LeftStep(s, xs, f, n)]
  BY <1>0, LeftFacts
<1> DEFINE Elements(n) == {s[i] : i \in 1..n}
           G == {n \in 0..Len(s) : /\ f[n] \in Seq(S)
                                   /\ ToSet(f[n]) = Elements(n) \ xs
                                   /\ IsInjective(s) => IsInjective(f[n])}
<1>a. \A n \in 0..Len(s) : f[n] = LeftStep(s, xs, f, n)
  BY ONLY <1>1
<1>2. 0 \in G
  <2>1. f[0] = <<>>
    BY <1>0, <1>a DEF LeftStep
  <2>2. ToSet(<<>>) = {} /\ Elements(0) = {} /\ IsInjective(<<>>)
    BY DEF ToSet, IsInjective
  <2> HIDE DEF Elements
  <2>3. 0 \in 0..Len(s)
    BY <1>0
  <2>4. f[0] \in Seq(S) /\ ToSet(f[0]) = Elements(0) \ xs /\ IsInjective(f[0])
    BY <2>1, <2>2
  <2>5. QED
    BY <2>3, <2>4
<1>3. ASSUME NEW n \in 1..Len(s), n - 1 \in G PROVE n \in G
  <2>1. /\ f[n - 1] \in Seq(S)
        /\ ToSet(f[n - 1]) = Elements(n - 1) \ xs
        /\ IsInjective(s) => IsInjective(f[n - 1])
    BY <1>3
  <2>2. Elements(n) = Elements(n - 1) \cup {s[n]}
    <3>1. 1..n = (1..n - 1) \cup {n}
      BY <1>0
    <3>2. QED
      BY <3>1
  <2>3. IsInjective(s) => s[n] \notin Elements(n - 1)
    BY <1>0 DEF IsInjective
  <2>4. f[n] = IF s[n] \in xs THEN f[n - 1] ELSE Append(f[n - 1], s[n])
    BY <1>0, <1>a DEF LeftStep
  <2> HIDE DEF Elements
  <2>5. /\ f[n] \in Seq(S)
        /\ ToSet(f[n]) = Elements(n) \ xs
        /\ IsInjective(s) => IsInjective(f[n])
    <3>1. CASE s[n] \in xs
      BY <2>1, <2>2, <2>4, <3>1
    <3>2. CASE s[n] \notin xs
      <4>1. s[n] \in S
        BY <1>0
      <4>2. QED
        BY <2>1, <2>2, <2>3, <2>4, <3>2, <4>1, AppendFacts
    <3>3. QED
      BY <3>1, <3>2
  <2>6. QED
    BY <1>0, <2>5
<1>4. Len(s) \in G
  <2> HIDE DEF G
  <2>1. G \in SUBSET (0..Len(s))
    BY DEF G
  <2>2. G = 0..Len(s)
    BY <1>0, <1>2, <1>3, <2>1, UpTo
  <2>3. QED
    BY <1>0, <2>2
<1>5. Elements(Len(s)) = ToSet(s)
  BY <1>0 DEF ToSet
<1>6. QED
  BY <1>1, <1>4, <1>5

(* What is left of a list depends on no other list and no other elements.  *)
LEMMA LeftSame ==
  ASSUME NEW s, NEW t, NEW xs, NEW ys, NEW m \in Nat, NEW n \in Nat, m <= n,
         NEW f, f = [i \in 0..m |-> LeftStep(s, xs, f, i)],
         NEW g, g = [i \in 0..n |-> LeftStep(t, ys, g, i)],
         \A i \in 1..m : s[i] = t[i] /\ (s[i] \in xs <=> t[i] \in ys)
  PROVE  f[m] = g[m]
<1>1. \A i \in 0..m : f[i] = LeftStep(s, xs, f, i)
  OBVIOUS
<1>2. \A i \in 0..n : g[i] = LeftStep(t, ys, g, i)
  OBVIOUS
<1> DEFINE G == {i \in 0..m : f[i] = g[i]}
<1>3. 0 \in G
  BY <1>1, <1>2 DEF LeftStep
<1>4. ASSUME NEW i \in 1..m, i - 1 \in G PROVE i \in G
  <2>1. f[i - 1] = g[i - 1] /\ i \in 0..m /\ i \in 0..n /\ i # 0
    BY <1>4
  <2>2. f[i] = LeftStep(s, xs, f, i) /\ g[i] = LeftStep(t, ys, g, i)
    BY <1>1, <1>2, <2>1
  <2>3. f[i] = g[i]
    BY <2>1, <2>2 DEF LeftStep
  <2>4. QED
    BY <2>1, <2>3
<1>5. m \in G
  <2> HIDE DEF G
  <2>1. G \in SUBSET (0..m)
    BY DEF G
  <2>2. G = 0..m
    BY ONLY m \in Nat, <1>3, <1>4, <2>1, UpTo
  <2>3. QED
    BY <2>2
<1>6. QED
  BY <1>5

LEMMA WithoutAllSame ==
  ASSUME NEW s, NEW xs, NEW ys, Len(s) \in Nat,
         \A i \in 1..Len(s) : s[i] \in xs <=> s[i] \in ys
  PROVE  WithoutAll(s, xs) = WithoutAll(s, ys)
<1>1. PICK f : /\ WithoutAll(s, xs) = f[Len(s)]
               /\ f = [n \in 0..Len(s) |-> LeftStep(s, xs, f, n)]
  BY LeftFacts
<1>2. PICK g : /\ WithoutAll(s, ys) = g[Len(s)]
               /\ g = [n \in 0..Len(s) |-> LeftStep(s, ys, g, n)]
  BY LeftFacts
<1>3. Len(s) <= Len(s)
  OBVIOUS
<1>4. f[Len(s)] = g[Len(s)]
  BY <1>1, <1>2, <1>3, LeftSame
<1>5. QED
  BY <1>1, <1>2, <1>4

LEMMA WithoutAllEmpty ==
  ASSUME NEW xs
  PROVE  WithoutAll(<<>>, xs) = <<>>
<1>1. Len(<<>>) = 0
  OBVIOUS
<1>2. PICK f : /\ WithoutAll(<<>>, xs) = f[0]
               /\ f = [n \in 0..0 |-> LeftStep(<<>>, xs, f, n)]
  BY <1>1, LeftFacts
<1>3. \A n \in 0..0 : f[n] = LeftStep(<<>>, xs, f, n)
  BY ONLY <1>2
<1>4. QED
  BY <1>2, <1>3 DEF LeftStep

LEMMA WithoutAllAppend ==
  ASSUME NEW S, NEW s \in Seq(S), NEW x \in S, NEW xs
  PROVE  WithoutAll(Append(s, x), xs) =
           IF x \in xs THEN WithoutAll(s, xs) ELSE Append(WithoutAll(s, xs), x)
<1> DEFINE t == Append(s, x)
           m == Len(s)
<1>0. /\ m \in Nat /\ Len(t) = m + 1 /\ t[m + 1] = x
      /\ \A i \in 1..m : s[i] = t[i]
  OBVIOUS
<1> HIDE DEF t, m
<1>1. PICK f : /\ WithoutAll(s, xs) = f[m]
               /\ f = [n \in 0..m |-> LeftStep(s, xs, f, n)]
  BY <1>0, LeftFacts DEF m
<1>2. PICK g : /\ WithoutAll(t, xs) = g[m + 1]
               /\ g = [n \in 0..m + 1 |-> LeftStep(t, xs, g, n)]
  <2>1. Len(t) \in Nat
    BY <1>0
  <2>2. QED
    BY <1>0, <2>1, LeftFacts
<1>3. m + 1 \in Nat /\ m <= m + 1
  BY <1>0
<1>4. f[m] = g[m]
  BY <1>0, <1>1, <1>2, <1>3, LeftSame
<1>5. \A n \in 0..m + 1 : g[n] = LeftStep(t, xs, g, n)
  BY ONLY <1>2
<1>6. g[m + 1] = LeftStep(t, xs, g, m + 1) /\ m + 1 # 0 /\ m + 1 - 1 = m
  BY <1>0, <1>5
<1>7. QED
  BY <1>0, <1>1, <1>2, <1>4, <1>6 DEF LeftStep, t

-----------------------------------------------------------------------------
(* The list without an element, place by place. *)
LEMMA WithoutPlaces ==
  ASSUME NEW S, NEW s \in Seq(S), IsInjective(s), NEW x \in ToSet(s)
  PROVE  LET r == Without(s, x)
             p == Place(s, x)
         IN  /\ r \in Seq(S) /\ Len(r) = Len(s) - 1
             /\ \A k \in 1..Len(s) - 1 : r[k] = IF k < p THEN s[k] ELSE s[k + 1]
             /\ \A y \in ToSet(s) \ {x} :
                  /\ y \in ToSet(r)
                  /\ Place(r, y) = IF Place(s, y) < p THEN Place(s, y) ELSE Place(s, y) - 1
<1> DEFINE r == Without(s, x)
           p == Place(s, x)
<1>1. p \in 1..Len(s) /\ Len(s) \in Nat
  BY PlaceFacts
<1>2. r = RemoveAt(s, p)
  BY DEF Without
<1>3. /\ r \in Seq(S) /\ Len(r) = Len(s) - 1
      /\ \A k \in 1..Len(s) - 1 : r[k] = IF k < p THEN s[k] ELSE s[k + 1]
  BY <1>1, <1>2, RemoveAtFacts
<1>4. IsInjective(r) /\ ToSet(r) = ToSet(s) \ {x}
  BY WithoutFacts
<1> HIDE DEF r
<1>5. ASSUME NEW y \in ToSet(s) \ {x}
      PROVE  Place(r, y) = IF Place(s, y) < p THEN Place(s, y) ELSE Place(s, y) - 1
  <2> DEFINE q == Place(s, y)
             k == IF q < p THEN q ELSE q - 1
  <2>1. q \in 1..Len(s) /\ s[q] = y /\ q # p
    BY PlaceFacts
  <2> HIDE DEF q, p
  <2>2. k \in 1..Len(s) - 1 /\ r[k] = y
    BY <1>1, <1>3, <2>1
  <2>3. y \in ToSet(r) /\ k \in 1..Len(r)
    BY <1>3, <1>4, <2>2
  <2> HIDE DEF k
  <2>4. k = Place(r, y)
    BY <1>3, <1>4, <2>2, <2>3, PlaceFacts
  <2>5. QED
    BY <2>4 DEF k, q, p
<1>6. QED
  BY <1>3, <1>4, <1>5 DEF r

(* A list that has all but one element of another, in their order.         *)
LEMMA WithoutIs ==
  ASSUME NEW S, NEW s \in Seq(S), IsInjective(s), NEW p \in 1..Len(s),
         NEW t \in Seq(S), Len(t) = Len(s) - 1,
         \A k \in 1..Len(s) - 1 : t[k] = IF k < p THEN s[k] ELSE s[k + 1]
  PROVE  t = Without(s, s[p])
<1> DEFINE r == Without(s, s[p])
<1>1. s[p] \in ToSet(s) /\ Len(s) \in Nat /\ DOMAIN s = 1..Len(s)
  BY DEF ToSet
<1>2. p = Place(s, s[p])
  BY <1>1, PlaceFacts
<1>3. /\ r \in Seq(S) /\ Len(r) = Len(s) - 1
      /\ \A k \in 1..Len(s) - 1 : r[k] = IF k < p THEN s[k] ELSE s[k + 1]
  BY <1>1, <1>2, WithoutPlaces
<1> HIDE DEF r
<1>4. \A k \in 1..Len(t) : t[k] = r[k]
  BY <1>3
<1>5. t = r
  BY <1>3, <1>4, SeqEqual
<1>6. QED
  BY <1>5 DEF r
=============================================================================
