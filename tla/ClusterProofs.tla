--------------------------- MODULE ClusterProofs ----------------------------
(***************************************************************************)
(* Proofs about Cluster, for any remotes, priorities, filters and requests *)
(* in flight: every remote is tried once and best first, and the shared    *)
(* counters spread the requests evenly.                                    *)
(***************************************************************************)
EXTENDS Cluster, WellFoundedInduction, TLAPS

USE ClusterAssumption

-----------------------------------------------------------------------------
(* The ring *)

\* A remainder is told by its quotient.
LEMMA ModUnique ==
  ASSUME NEW n \in Nat \ {0}, NEW q \in Int, NEW r \in 0..n - 1 PROVE (n * q + r) % n = r
OBVIOUS

\* The remainder of the next number.
LEMMA ModNext ==
  ASSUME NEW x \in Nat, NEW n \in Nat \ {0}
  PROVE  (x + 1) % n = IF x % n = n - 1 THEN 0 ELSE (x % n) + 1
<1>1. x % n \in 0..n - 1 /\ x \div n \in Int
  OBVIOUS
<1>2. x = n * (x \div n) + (x % n)
  OBVIOUS
<1> DEFINE q == x \div n
           r == x % n
<1>3. x = n * q + r /\ r \in 0..n - 1 /\ q \in Int
  BY <1>1, <1>2
<1> HIDE DEF q, r
<1>4. CASE r = n - 1
  <2>1. x + 1 = n * (q + 1) + 0 /\ q + 1 \in Int /\ 0 \in 0..n - 1
    BY <1>3, <1>4
  <2>2. (n * (q + 1) + 0) % n = 0
    BY <2>1, ModUnique
  <2> QED
    BY <1>4, <2>1, <2>2 DEF r
<1>5. CASE r # n - 1
  <2>1. x + 1 = n * q + (r + 1) /\ r + 1 \in 0..n - 1
    BY <1>3, <1>5
  <2>2. (n * q + (r + 1)) % n = r + 1
    BY <1>3, <2>1, ModUnique
  <2> QED
    BY <1>5, <2>1, <2>2 DEF r
<1> QED
  BY <1>4, <1>5

\* One step on the ring: everything falls behind by one, but for what it comes to.
LEMMA RingStep ==
  ASSUME NEW n \in Nat \ {0}, NEW j \in Nat
  PROVE  /\ At(j, n) \in 1..n /\ At(j + 1, n) \in 1..n
         /\ \A x \in 1..n :
              /\ Behind(At(j, n), x, n) \in 0..n - 1
              /\ x = At(j + 1, n) <=> Behind(At(j, n), x, n) = n - 1
              /\ Behind(At(j + 1, n), x, n) =
                   IF x = At(j + 1, n) THEN 0 ELSE Behind(At(j, n), x, n) + 1
<1> DEFINE p == At(j, n)
           s == At(j + 1, n)
<1>1. p \in 1..n /\ s = (IF p = n THEN 1 ELSE p + 1)
  <2>1. (j + 1) % n = IF j % n = n - 1 THEN 0 ELSE (j % n) + 1
    BY ModNext
  <2>2. j % n \in 0..n - 1
    OBVIOUS
  <2> QED
    BY <2>1, <2>2 DEF At
<1> HIDE DEF p, s
<1>2. s \in 1..n
  BY <1>1
<1>3. \A x \in 1..n : /\ Behind(p, x, n) \in 0..n - 1
                      /\ x = s <=> Behind(p, x, n) = n - 1
                      /\ Behind(s, x, n) = IF x = s THEN 0 ELSE Behind(p, x, n) + 1
  BY <1>1 DEF Behind
<1> QED
  BY <1>1, <1>2, <1>3 DEF p, s

-----------------------------------------------------------------------------
(* Sequences *)

\* What InsertAt puts where.
LEMMA Inserted ==
  ASSUME NEW S, NEW s \in Seq(S), NEW e \in S, NEW i \in 1..Len(s) + 1
  PROVE  /\ InsertAt(s, i, e) \in Seq(S) /\ Len(InsertAt(s, i, e)) = Len(s) + 1
         /\ \A j \in 1..Len(s) + 1 :
              InsertAt(s, i, e)[j] = IF j < i THEN s[j] ELSE IF j = i THEN e ELSE s[j - 1]
<1> DEFINE a == SubSeq(s, 1, i - 1)
           b == SubSeq(s, i, Len(s))
           c == a \o <<e>>
<1>1. a \in Seq(S) /\ Len(a) = i - 1 /\ \A j \in 1..i - 1 : a[j] = s[j]
  OBVIOUS
<1>2. b \in Seq(S) /\ Len(b) = Len(s) - i + 1 /\ \A j \in 1..Len(s) - i + 1 : b[j] = s[i + j - 1]
  OBVIOUS
<1>3. InsertAt(s, i, e) = c \o b
  BY DEF InsertAt
<1> HIDE DEF a, b
<1>4. c \in Seq(S) /\ Len(c) = i /\ \A j \in 1..i : c[j] = IF j < i THEN s[j] ELSE e
  BY <1>1
<1> HIDE DEF c
<1>5. c \o b \in Seq(S) /\ Len(c \o b) = Len(s) + 1
  <2>0. c \in Seq(S) /\ b \in Seq(S)
    BY <1>2, <1>4
  <2>1. c \o b \in Seq(S) /\ Len(c \o b) = Len(c) + Len(b)
    BY <2>0
  <2> QED
    BY <1>2, <1>4, <2>1
<1>6. ASSUME NEW j \in 1..Len(s) + 1
      PROVE  (c \o b)[j] = IF j < i THEN s[j] ELSE IF j = i THEN e ELSE s[j - 1]
  <2>1. CASE j <= i
    <3>1. (c \o b)[j] = c[j]
      BY <1>2, <1>4, <2>1
    <3> QED
      BY <1>4, <2>1, <3>1
  <2>2. CASE j > i
    <3>1. (c \o b)[j] = b[j - i] /\ j - i \in 1..Len(s) - i + 1
      BY <1>2, <1>4, <2>2
    <3> QED
      BY <1>2, <2>2, <3>1
  <2>3. j <= i \/ j > i
    OBVIOUS
  <2> QED
    BY <2>1, <2>2, <2>3
<1> QED
  BY <1>3, <1>5, <1>6

\* It adds one element.
LEMMA InsertedSet ==
  ASSUME NEW S, NEW s \in Seq(S), NEW e \in S, NEW i \in 1..Len(s) + 1
  PROVE  ToSet(InsertAt(s, i, e)) = ToSet(s) \cup {e}
<1> DEFINE t == InsertAt(s, i, e)
<1>1. /\ t \in Seq(S) /\ Len(t) = Len(s) + 1
      /\ \A j \in 1..Len(s) + 1 : t[j] = IF j < i THEN s[j] ELSE IF j = i THEN e ELSE s[j - 1]
  BY Inserted
<1> HIDE DEF t
<1>2. DOMAIN t = 1..Len(s) + 1 /\ DOMAIN s = 1..Len(s) /\ Len(s) \in Nat
  BY <1>1
<1>3. ASSUME NEW j \in DOMAIN t PROVE t[j] \in ToSet(s) \cup {e}
  <2>1. CASE j < i
    BY <1>1, <1>2, <2>1 DEF ToSet
  <2>2. CASE j = i
    BY <1>1, <1>2, <2>2
  <2>3. CASE j > i
    <3>1. j - 1 \in DOMAIN s /\ t[j] = s[j - 1]
      BY <1>1, <1>2, <2>3
    <3> QED
      BY <3>1 DEF ToSet
  <2> QED
    BY <1>2, <2>1, <2>2, <2>3
<1>4. ASSUME NEW j \in DOMAIN s PROVE \E x \in DOMAIN t : t[x] = s[j]
  <2>1. CASE j < i
    BY <1>1, <1>2, <2>1
  <2>2. CASE ~(j < i)
    <3>1. j + 1 \in DOMAIN t /\ t[j + 1] = s[j]
      BY <1>1, <1>2, <2>2
    <3> QED
      BY <3>1
  <2> QED
    BY <2>1, <2>2
<1>5. i \in DOMAIN t /\ t[i] = e
  BY <1>1, <1>2
<1> QED
  BY <1>3, <1>4, <1>5 DEF ToSet, t

\* So does Append, at the end.
LEMMA Appended ==
  ASSUME NEW S, NEW s \in Seq(S), NEW e \in S
  PROVE  /\ Append(s, e) \in Seq(S) /\ ToSet(Append(s, e)) = ToSet(s) \cup {e}
         /\ Last(Append(s, e)) = e
<1>1. /\ Append(s, e) \in Seq(S) /\ Len(Append(s, e)) = Len(s) + 1 /\ Len(s) \in Nat
      /\ DOMAIN s = 1..Len(s) /\ DOMAIN Append(s, e) = 1..Len(s) + 1
      /\ \A i \in 1..Len(s) : Append(s, e)[i] = s[i]
      /\ Append(s, e)[Len(s) + 1] = e
  OBVIOUS
<1>2. ToSet(Append(s, e)) = ToSet(s) \cup {e}
  <2>1. 1..Len(s) + 1 = 1..Len(s) \cup {Len(s) + 1}
    BY <1>1
  <2> QED
    BY <1>1, <2>1 DEF ToSet
<1>3. Last(Append(s, e)) = e
  BY <1>1 DEF Last
<1> QED
  BY <1>1, <1>2, <1>3

\* BinarySearch comes to an index, and it is the first that is not below.
LEMMA Found ==
  ASSUME NEW keys \in Seq(Int), NEW p \in Int
  PROVE  /\ Search(keys, p) \in 1..Len(keys) + 1
         /\ Search(keys, p) <= Len(keys) => keys[Search(keys, p)] >= p
         /\ \A j \in 1..Search(keys, p) - 1 : keys[j] < p
<1> DEFINE n == Len(keys)
           S == {i \in 1..n + 1 : i <= n => keys[i] >= p}
<1>1. n \in Nat /\ n + 1 \in S /\ S \subseteq Nat
  OBVIOUS
<1>2. PICK i \in S : \A m \in S : i <= m
  <2> DEFINE R == OpToRel(<, Nat)
  <2>1. IsWellFoundedOn(R, Nat)
    BY NatLessThanWellFounded
  <2>2. \A x, y \in Nat : x < y => <<x, y>> \in R
    BY DEF OpToRel
  <2> HIDE DEF R
  <2>3. \E i \in S : \A m \in S : ~(<<m, i>> \in R)
    BY <1>1, <2>1, WFMin, ZenonT(40)
  <2>4. S \subseteq Nat
    BY <1>1
  <2> HIDE DEF S, n
  <2>5. PICK i \in S : \A m \in S : ~(<<m, i>> \in R)
    BY <2>3
  <2>6. \A m \in S : ~(m < i) /\ m \in Nat /\ i \in Nat
    BY <2>2, <2>4, <2>5
  <2>7. \A m \in S : i <= m
    BY <2>6
  <2> QED
    BY <2>7
<1>3. \A j \in 1..i - 1 : keys[j] < p
  <2> SUFFICES ASSUME NEW j \in 1..i - 1, ~(keys[j] < p) PROVE FALSE
    OBVIOUS
  <2>1. j \in 1..n /\ keys[j] \in Int
    BY <1>1, <1>2
  <2>2. j \in S
    BY <1>1, <2>1
  <2> QED
    BY <1>1, <1>2, <2>1, <2>2
<1>4. \E x \in 1..n + 1 : (x <= n => keys[x] >= p) /\ \A j \in 1..x - 1 : keys[j] < p
  BY <1>2, <1>3
<1> QED
  BY <1>4 DEF Search

-----------------------------------------------------------------------------
(* Groups *)

\* The groups do not share a remote.
LEMMA Disjoint ==
  ASSUME TypeOK, GroupsInv, NEW h \in DOMAIN priorities, NEW i \in DOMAIN priorities,
         NEW x \in DOMAIN priorities[h].remotes, NEW y \in DOMAIN priorities[i].remotes,
         priorities[h].remotes[x] = priorities[i].remotes[y]
  PROVE  h = i /\ x = y
<1>1. h \in Nat /\ i \in Nat /\ priorities[h].priority \in Int /\ priorities[i].priority \in Int
  <2>1. h \in Nat /\ i \in Nat /\ priorities[h] \in GroupOf /\ priorities[i] \in GroupOf
    BY DEF TypeOK
  <2> QED
    BY <2>1 DEF GroupOf
<1>2. priorities[h].priority = priorities[i].priority
  BY DEF GroupsInv, GroupInv
<1>3. h = i
  BY <1>1, <1>2 DEF GroupsInv
<1> QED
  BY <1>3 DEF GroupsInv, GroupInv

\* What is in a group, and where.
LEMMA GroupTypes ==
  ASSUME TypeOK, GroupsInv, NEW i \in DOMAIN priorities
  PROVE  /\ priorities[i] \in GroupOf /\ priorities[i].remotes \in Seq(Remote)
         /\ priorities[i].round \in Nat /\ priorities[i].priority \in Int
         /\ Len(priorities[i].remotes) \in Nat \ {0}
         /\ DOMAIN priorities[i].remotes = 1..Len(priorities[i].remotes)
         /\ \A x \in DOMAIN priorities[i].remotes : priorities[i].remotes[x] \in Remote
<1>1. priorities[i] \in GroupOf
  BY DEF TypeOK
<1>2. /\ priorities[i].remotes \in Seq(Remote) /\ priorities[i].round \in Nat
      /\ priorities[i].priority \in Int /\ priorities[i].remotes # <<>>
  BY <1>1 DEF GroupOf, GroupsInv, GroupInv
<1> QED
  BY <1>1, <1>2

\* The remotes of the cluster are those of its groups.
LEMMA AddedIs ==
  ASSUME GroupsInv, NEW r
  PROVE  r \in Added <=> \E i \in DOMAIN priorities : \E x \in DOMAIN priorities[i].remotes :
                           r = priorities[i].remotes[x]
BY DEF GroupsInv, ToSet

\* Nobody is ahead right after Add.
LEMMA FreshSpread ==
  ASSUME NEW g \in GroupOf, starts' = [s \in Remote |-> 0] PROVE SpreadInv(g)'
<1> DEFINE n == Len(g.remotes)
<1>1. g.remotes \in Seq(Remote) /\ n \in Nat /\ DOMAIN g.remotes = 1..n /\ g.round + 1 \in Nat
  BY DEF GroupOf
<1> SUFFICES ASSUME n > 1
             PROVE  \E ahead \in 0..n - 1, y \in 1..n : \A x \in 1..n :
                      starts'[g.remotes[x]] = starts'[g.remotes[y]]
                        + IF Behind(At(g.round + 1, n), x, n) < ahead THEN 1 ELSE 0
  BY DEF SpreadInv
<1>2. \A x \in 1..n : starts'[g.remotes[x]] = 0
  BY <1>1
<1>3. \A x \in 1..n : ~(Behind(At(g.round + 1, n), x, n) < 0)
  <2>0. n \in Nat \ {0} /\ g.round + 1 \in Nat
    BY <1>1
  <2>1. \A x \in 1..n : Behind(At(g.round + 1, n), x, n) \in 0..n - 1
    BY <2>0, RingStep
  <2> QED
    BY <1>1, <2>1
<1>4. 0 \in 0..n - 1 /\ 1 \in 1..n
  BY <1>1
<1> QED
  BY <1>2, <1>3, <1>4

\* Of n counts on a ring, those of the last few positions up to p are one ahead; the
\* next position s gets one more: B and D are how far behind p and s the others are.
OneMore(n, ahead, m, s, t, B, D, c, e) ==
    /\ n \in Nat /\ n > 1 /\ ahead \in 0..n - 1 /\ m \in Nat /\ s \in 1..n /\ t \in 1..n
    /\ D[t] = n - 1
    /\ \A x \in 1..n : B[x] \in 0..n - 1 /\ (x = s <=> B[x] = n - 1)
    /\ \A x \in 1..n : D[x] = IF x = s THEN 0 ELSE B[x] + 1
    /\ \A x \in 1..n : c[x] = m + IF B[x] < ahead THEN 1 ELSE 0
    /\ \A x \in 1..n : e[x] = IF x = s THEN c[x] + 1 ELSE c[x]

\* ... and the counts stay within one of each other, in the same shape.
LEMMA RingSpread ==
  ASSUME NEW n, NEW ahead, NEW m, NEW s, NEW t, NEW B, NEW D, NEW c, NEW e,
         OneMore(n, ahead, m, s, t, B, D, c, e)
  PROVE  \E a \in 0..n - 1, z \in 1..n : \A x \in 1..n : e[x] = e[z] + IF D[x] < a THEN 1 ELSE 0
<1> USE DEF OneMore
<1>1. CASE ahead < n - 1
  <2>1. ahead + 1 \in 0..n - 1 /\ t # s
    BY <1>1
  <2>2. B[t] = n - 2
    BY <2>1
  <2>3. e[t] = m
    BY <1>1, <2>1, <2>2
  <2>4. ASSUME NEW x \in 1..n PROVE e[x] = e[t] + IF D[x] < ahead + 1 THEN 1 ELSE 0
    <3>1. CASE x = s
      BY <2>3, <3>1
    <3>2. CASE x # s
      BY <2>3, <3>2
    <3> QED
      BY <3>1, <3>2
  <2> QED
    BY <2>1, <2>4
<1>2. CASE ahead = n - 1
  <2>1. \A x \in 1..n : e[x] = m + 1 /\ ~(D[x] < 0)
    BY <1>2
  <2>2. \A x \in 1..n : e[x] = e[1] + IF D[x] < 0 THEN 1 ELSE 0
    BY <2>1
  <2>3. 0 \in 0..n - 1 /\ 1 \in 1..n
    OBVIOUS
  <2> QED
    BY <2>2, <2>3
<1> QED
  BY <1>1, <1>2

\* The round robin moves on by one remote.
LEMMA SpreadStep ==
  ASSUME NEW g \in GroupOf, GroupInv(g), Len(g.remotes) > 1, SpreadInv(g),
         starts \in [Remote -> Nat],
         starts' = [starts EXCEPT ![Pick(g, g.round + 1)] = @ + 1],
         NEW new \in GroupOf, new.remotes = g.remotes, new.round = g.round + 1
  PROVE  SpreadInv(new)'
<1> DEFINE n == Len(g.remotes)
           j == g.round + 1
           p == At(j, n)
           s == At(j + 1, n)
           t == At(j + 1 + 1, n)
           c(x) == starts[g.remotes[x]]
<1>1. g.remotes \in Seq(Remote) /\ n \in Nat \ {0} /\ DOMAIN g.remotes = 1..n /\ j \in Nat /\ j + 1 \in Nat
      /\ n > 1 /\ \A x \in 1..n : g.remotes[x] \in Remote /\ c(x) \in Nat
  BY DEF GroupOf
<1>2. PICK ahead \in 0..n - 1, y \in 1..n : \A x \in 1..n :
        c(x) = c(y) + IF Behind(p, x, n) < ahead THEN 1 ELSE 0
  BY <1>1 DEF SpreadInv
<1>3. /\ p \in 1..n /\ s \in 1..n
      /\ \A x \in 1..n : /\ Behind(p, x, n) \in 0..n - 1
                         /\ x = s <=> Behind(p, x, n) = n - 1
                         /\ Behind(s, x, n) = IF x = s THEN 0 ELSE Behind(p, x, n) + 1
  BY <1>1, RingStep
<1>4. t \in 1..n /\ Behind(s, t, n) = n - 1
  BY <1>1, RingStep
<1>5. Pick(g, j) = g.remotes[s]
  BY DEF Pick, At
<1>6. \A x \in 1..n : starts'[g.remotes[x]] = IF x = s THEN c(x) + 1 ELSE c(x)
  <2>1. \A x \in 1..n : g.remotes[x] = g.remotes[s] => x = s
    BY <1>1, <1>3 DEF GroupInv
  <2> QED
    BY <1>1, <1>3, <1>5, <2>1
<1> DEFINE m == c(y)
           B(x) == Behind(p, x, n)
           D(x) == Behind(s, x, n)
           e(x) == starts'[g.remotes[x]]
<1>7. SUFFICES \E a \in 0..n - 1, z \in 1..n : \A x \in 1..n :
                 e(x) = e(z) + IF D(x) < a THEN 1 ELSE 0
  BY ZenonT(40) DEF SpreadInv
<1>8. /\ n \in Nat /\ n > 1 /\ ahead \in 0..n - 1 /\ m \in Nat /\ s \in 1..n /\ t \in 1..n /\ D(t) = n - 1
      /\ \A x \in 1..n : B(x) \in 0..n - 1 /\ (x = s <=> B(x) = n - 1)
      /\ \A x \in 1..n : D(x) = IF x = s THEN 0 ELSE B(x) + 1
      /\ \A x \in 1..n : c(x) = m + IF B(x) < ahead THEN 1 ELSE 0
      /\ \A x \in 1..n : e(x) = IF x = s THEN c(x) + 1 ELSE c(x)
  BY <1>1, <1>2, <1>3, <1>4, <1>6
<1> HIDE DEF n, j, p, s, t, c, m, B, D, e
<1> DEFINE fB == [x \in 1..n |-> B(x)]
           fD == [x \in 1..n |-> D(x)]
           fc == [x \in 1..n |-> c(x)]
           fe == [x \in 1..n |-> e(x)]
<1>9. \E a \in 0..n - 1, z \in 1..n : \A x \in 1..n :
        fe[x] = fe[z] + IF fD[x] < a THEN 1 ELSE 0
  <2>1. /\ fD[t] = n - 1
        /\ \A x \in 1..n : fB[x] \in 0..n - 1 /\ (x = s <=> fB[x] = n - 1)
        /\ \A x \in 1..n : fD[x] = IF x = s THEN 0 ELSE fB[x] + 1
        /\ \A x \in 1..n : fc[x] = m + IF fB[x] < ahead THEN 1 ELSE 0
        /\ \A x \in 1..n : fe[x] = IF x = s THEN fc[x] + 1 ELSE fc[x]
    BY <1>8
  <2> HIDE DEF fB, fD, fc, fe
  <2>2. OneMore(n, ahead, m, s, t, fB, fD, fc, fe)
    BY <1>8, <2>1 DEF OneMore
  <2> QED
    BY <2>2, RingSpread
<1> QED
  BY <1>9

\* It depends on the starts at the remotes of the group only.
LEMMA SameSpread ==
  ASSUME NEW i, SpreadInv(priorities[i]), priorities'[i] = priorities[i],
         \A x \in 1..Len(priorities[i].remotes) :
           starts'[priorities[i].remotes[x]] = starts[priorities[i].remotes[x]]
  PROVE  SpreadInv(priorities[i])'
<1> DEFINE g == priorities[i]
           n == Len(g.remotes)
           c(x) == starts[g.remotes[x]]
           e(x) == starts'[g.remotes[x]]
           B(x) == Behind(At(g.round + 1, n), x, n)
<1>1. SUFFICES n > 1 => \E ahead \in 0..n - 1, y \in 1..n : \A x \in 1..n :
                          e(x) = e(y) + IF B(x) < ahead THEN 1 ELSE 0
  BY DEF SpreadInv
<1>2. n > 1 => \E ahead \in 0..n - 1, y \in 1..n : \A x \in 1..n :
                 c(x) = c(y) + IF B(x) < ahead THEN 1 ELSE 0
  BY DEF SpreadInv
<1>3. \A x \in 1..n : e(x) = c(x)
  OBVIOUS
<1> HIDE DEF n, c, e, B
<1> QED
  BY <1>2, <1>3

\* An even spread is what the invariant says.
LEMMA SpreadIsBalanced ==
  ASSUME TypeOK, ClusterInv PROVE Balanced
<1> SUFFICES ASSUME NEW i \in DOMAIN priorities, Len(priorities[i].remotes) > 1,
                    NEW r \in ToSet(priorities[i].remotes), NEW s \in ToSet(priorities[i].remotes)
             PROVE  starts[r] <= starts[s] + 1
  BY DEF Balanced, ToSet
<1> DEFINE g == priorities[i]
           n == Len(g.remotes)
<1>1. GroupsInv /\ SpreadInv(g)
  BY DEF ClusterInv
<1>2. DOMAIN g.remotes = 1..n /\ \A x \in DOMAIN g.remotes : g.remotes[x] \in Remote
  BY <1>1, GroupTypes
<1>3. PICK ahead \in 0..n - 1, y \in 1..n : \A x \in 1..n :
        starts[g.remotes[x]] = starts[g.remotes[y]]
          + IF Behind(At(g.round + 1, n), x, n) < ahead THEN 1 ELSE 0
  BY <1>1 DEF SpreadInv
<1>4. starts[g.remotes[y]] \in Nat
  BY <1>2, <1>3 DEF TypeOK
<1>5. \A x \in 1..n : starts[g.remotes[x]] \in {starts[g.remotes[y]], starts[g.remotes[y]] + 1}
  BY <1>3, <1>4, SMTT(30)
<1>6. \A q \in {r, s} : starts[q] \in {starts[g.remotes[y]], starts[g.remotes[y]] + 1}
  BY <1>2, <1>5 DEF ToSet
<1> QED
  BY <1>4, <1>6, SMTT(30)

-----------------------------------------------------------------------------
(* Requests *)

\* Requests and the order of the groups do not depend on the counters.
LEMMA SameRemotes ==
  ASSUME TypeOK, GroupsInv, UNCHANGED remotes, DOMAIN priorities' = DOMAIN priorities,
         Len(priorities') = Len(priorities),
         \A h \in DOMAIN priorities : /\ priorities'[h].remotes = priorities[h].remotes
                                      /\ priorities'[h].priority = priorities[h].priority
  PROVE  GroupsInv' /\ \A me : RequestInv(me)' <=> RequestInv(me)
<1>1. Added' = Added
  BY DEF Added
<1>2. \A h \in DOMAIN priorities : GroupInv(priorities'[h]) <=> GroupInv(priorities[h])
  BY DEF GroupInv
<1>3. UNION {ToSet(priorities'[i].remotes) : i \in DOMAIN priorities'}
      = UNION {ToSet(priorities[i].remotes) : i \in DOMAIN priorities}
  OBVIOUS
<1>4. GroupsInv'
  <2>1. \A i \in DOMAIN priorities' : GroupInv(priorities'[i])
    BY <1>2 DEF GroupsInv
  <2>2. \A h, i \in DOMAIN priorities' : h < i => priorities'[h].priority < priorities'[i].priority
    BY DEF GroupsInv
  <2>3. (\A i \in DOMAIN priorities : GroupInv(priorities[i]))'
    BY <2>1 DEF GroupInv
  <2>4. Added' = UNION {ToSet(priorities'[i].remotes) : i \in DOMAIN priorities'}
    BY <1>1, <1>3 DEF GroupsInv
  <2> QED
    BY <2>2, <2>3, <2>4 DEF GroupsInv
<1>5. \A me, x : \A h \in DOMAIN priorities : HasTried(me, h, x)' <=> HasTried(me, h, x)
  BY DEF HasTried
<1>6. ASSUME NEW me PROVE RequestInv(me)' <=> RequestInv(me)
  <2>1. me.i \in 1..Len(priorities) => priorities'[me.i].remotes = priorities[me.i].remotes
    BY DEF TypeOK
  <2>2. CASE me.i \in 1..Len(priorities) + 1
    <3>1. me.i <= Len(priorities) => me.i \in 1..Len(priorities)
      BY <2>2 DEF TypeOK
    <3> QED
      BY <1>1, <1>5, <2>1, <2>2, <3>1, SMTT(30) DEF RequestInv
  <2>3. CASE me.i \notin 1..Len(priorities) + 1
    BY <2>3 DEF RequestInv
  <2> QED
    BY <2>2, <2>3
<1> QED
  BY <1>4, <1>6

\* The x-th remote of a group that a request tries next: it has not been tried, all
\* better ones have, and what it has tried from then on.
LEMMA TryNext ==
  ASSUME TypeOK, GroupsInv, NEW me \in Progress, RequestInv(me), me.pc = "try"
  PROVE  LET i == me.i
             g == priorities[i]
             n == Len(g.remotes)
             s == At(me.j + 1, n)
             rem == Pick(g, me.j)
             T == ToSet(me.tried)
         IN  /\ i \in DOMAIN priorities /\ n \in Nat \ {0} /\ s \in 1..n /\ me.k \in 0..n - 1
             /\ rem = g.remotes[s] /\ rem \in Remote /\ rem \in Added /\ rem \notin T
             /\ \A r \in Added : Priority[r] < Priority[rem] => r \in T
             /\ \A h \in DOMAIN priorities : \A x \in DOMAIN priorities[h].remotes :
                  priorities[h].remotes[x] \in T \cup {rem}
                    <=> h < i \/ (h = i /\ Behind(s, x, n) < me.k + 1)
             /\ me.k = n - 1 => \A x \in 1..n : Behind(s, x, n) < me.k + 1
<1> DEFINE i == me.i
           g == priorities[i]
           n == Len(g.remotes)
           p == At(me.j, n)
           s == At(me.j + 1, n)
           rem == Pick(g, me.j)
           T == ToSet(me.tried)
<1>1. /\ i \in 1..Len(priorities) + 1 /\ i <= Len(priorities) /\ me.k < n /\ me.k \in Nat /\ me.j \in Nat
      /\ \A h \in DOMAIN priorities : \A x \in DOMAIN priorities[h].remotes :
           priorities[h].remotes[x] \in T <=> HasTried(me, h, x)
  BY DEF RequestInv, Progress
<1>2. i \in DOMAIN priorities /\ DOMAIN priorities = 1..Len(priorities) /\ i \in Nat
  BY <1>1 DEF TypeOK
<1>3. n \in Nat \ {0} /\ DOMAIN g.remotes = 1..n /\ \A x \in 1..n : g.remotes[x] \in Remote
  BY <1>2, GroupTypes
<1>4. /\ p \in 1..n /\ s \in 1..n
      /\ \A x \in 1..n : /\ Behind(p, x, n) \in 0..n - 1
                         /\ x = s <=> Behind(p, x, n) = n - 1
                         /\ Behind(s, x, n) = IF x = s THEN 0 ELSE Behind(p, x, n) + 1
  BY <1>1, <1>3, RingStep
<1>5. rem = g.remotes[s]
  BY DEF Pick, At
<1>6. rem \in Remote /\ rem \in Added
  BY <1>2, <1>3, <1>4, <1>5, AddedIs
<1>7. \A h \in DOMAIN priorities : \A x \in DOMAIN priorities[h].remotes :
        priorities[h].remotes[x] \in T <=> h < i \/ (h = i /\ Behind(p, x, n) < me.k)
  BY <1>1 DEF HasTried
<1> HIDE DEF i, n, p, s, rem, T
<1>8. rem \notin T
  <2>1. Behind(p, s, n) = n - 1 /\ s \in DOMAIN g.remotes
    BY <1>3, <1>4
  <2>2. ~(n - 1 < me.k)
    BY <1>1, <1>3 DEF i
  <2> QED
    BY <1>2, <1>5, <1>7, <2>1, <2>2
<1>9. ASSUME NEW r \in Added, Priority[r] < Priority[rem] PROVE r \in T
  <2>1. PICK h \in DOMAIN priorities : \E x \in DOMAIN priorities[h].remotes : r = priorities[h].remotes[x]
    BY AddedIs
  <2>2. PICK x \in DOMAIN priorities[h].remotes : r = priorities[h].remotes[x]
    BY <2>1
  <2>3. Priority[r] = priorities[h].priority /\ Priority[rem] = g.priority
    BY <1>2, <1>3, <1>4, <1>5, <2>2 DEF GroupsInv, GroupInv
  <2>4. priorities[h].priority \in Int /\ g.priority \in Int /\ h \in Nat
    BY <1>2, GroupTypes
  <2>5. ~(h = i) /\ ~(i < h)
    BY <1>2, <1>9, <2>3, <2>4 DEF GroupsInv
  <2>6. h < i
    BY <1>2, <2>4, <2>5
  <2> QED
    BY <1>7, <2>2, <2>6
<1>10. ASSUME NEW h \in DOMAIN priorities, NEW x \in DOMAIN priorities[h].remotes
       PROVE  priorities[h].remotes[x] \in T \cup {rem}
                <=> h < i \/ (h = i /\ Behind(s, x, n) < me.k + 1)
  <2>0. s \in DOMAIN g.remotes /\ (h = i => x \in 1..n)
    BY <1>3, <1>4
  <2>1. priorities[h].remotes[x] = rem <=> h = i /\ x = s
    BY <1>2, <1>5, <2>0, Disjoint
  <2>2. h = i => (Behind(s, x, n) < me.k + 1 <=> Behind(p, x, n) < me.k \/ x = s)
    <3> SUFFICES ASSUME h = i PROVE Behind(s, x, n) < me.k + 1 <=> Behind(p, x, n) < me.k \/ x = s
      OBVIOUS
    <3>1. Behind(p, x, n) \in 0..n - 1 /\ Behind(s, x, n) = IF x = s THEN 0 ELSE Behind(p, x, n) + 1
      BY <1>4, <2>0
    <3> HIDE DEF g
    <3> QED
      BY <1>1, <1>3, <3>1
  <2> QED
    BY <1>7, <2>1, <2>2
<1>11. ASSUME me.k = n - 1, NEW x \in 1..n PROVE Behind(s, x, n) < me.k + 1
  <2>0. me.j + 1 \in Nat /\ n \in Nat \ {0}
    BY <1>1, <1>3
  <2>1. Behind(s, x, n) \in 0..n - 1
    BY <2>0, RingStep DEF s
  <2> QED
    BY <1>3, <1>11, <2>1
<1>12. me.k \in 0..n - 1
  BY <1>1, <1>3 DEF i, n
<1> QED
  BY <1>2, <1>3, <1>4, <1>5, <1>6, <1>8, <1>9, <1>10, <1>11, <1>12, Zenon DEF i, n, s, rem, T

\* What a request has sent or does next when a remote has answered.
LEMMA TryCases ==
  ASSUME NEW q \in Request, Try(q)
  PROVE  LET me == req[q]
             n == Len(priorities[me.i].remotes)
             tried == [me EXCEPT !.tried = Append(@, Pick(priorities[me.i], me.j))]
         IN  /\ me.pc = "try" /\ UNCHANGED <<priorities, remotes, starts>>
             /\ \/ \E a \in Answer :
                     /\ req' = [req EXCEPT ![q] = [tried EXCEPT !.pc = "done", !.answer = a]]
                     /\ a \in {"data", "error", "nothing"} => LastRemote(me)
                \/ /\ me.k = n - 1
                   /\ req' = [req EXCEPT ![q] = [tried EXCEPT !.pc = "group", !.i = @ + 1]]
                \/ /\ me.k # n - 1
                   /\ req' = [req EXCEPT ![q] = [tried EXCEPT !.j = @ + 1, !.k = @ + 1]]
<1> DEFINE me == req[q]
           n == Len(priorities[me.i].remotes)
           rem == Pick(priorities[me.i], me.j)
           tried == [me EXCEPT !.tried = Append(@, rem)]
           Send(a) == [tried EXCEPT !.pc = "done", !.answer = a]
           last == LastRemote(me)
           up == [tried EXCEPT !.pc = "group", !.i = @ + 1]
           on == [tried EXCEPT !.j = @ + 1, !.k = @ + 1]
           continue == IF me.k = n - 1 THEN up ELSE on
           New(outcome) ==
               CASE outcome = "result"                    -> Send("result")
                 [] IsUserError(outcome)                  -> Send(outcome)
                 [] outcome \in {"old", "error"} /\ ~last -> continue
                 [] outcome = "old" /\ last               -> Send("data")
                 [] outcome = "error" /\ last             -> Send("error")
                 [] outcome = "nil"                       -> continue
<1>1. /\ me.pc = "try" /\ UNCHANGED <<priorities, remotes, starts>>
      /\ \E outcome \in Outcome(q, rem) : req' = [req EXCEPT ![q] = New(outcome)]
  BY DEF Try
<1>2. PICK outcome \in {"result", "nil", "user", "old", "error", "refused"} :
        req' = [req EXCEPT ![q] = New(outcome)]
  BY <1>1, ZenonT(40) DEF Outcome
<1> HIDE DEF tried, up, on, last, rem, n
<1>3. New(outcome) = continue
      \/ \E a \in Answer : New(outcome) = Send(a) /\ (a \in {"data", "error", "nothing"} => last)
  <2> HIDE DEF Send, continue
  <2>1. CASE outcome = "result"
    <3>1. New(outcome) = Send("result")
      BY <2>1 DEF IsUserError
    <3> QED
      BY <3>1 DEF Answer
  <2>2. CASE outcome = "nil"
    BY <2>2 DEF IsUserError
  <2>3. CASE outcome \in {"user", "refused"}
    <3>1. New(outcome) = Send(outcome)
      BY <2>3 DEF IsUserError
    <3> QED
      BY <2>3, <3>1 DEF Answer
  <2>4. CASE outcome = "old"
    <3>1. New(outcome) = IF last THEN Send("data") ELSE continue
      BY <2>4 DEF IsUserError
    <3> QED
      BY <3>1 DEF Answer
  <2>5. CASE outcome = "error"
    <3>1. New(outcome) = IF last THEN Send("error") ELSE continue
      BY <2>5 DEF IsUserError
    <3> QED
      BY <3>1 DEF Answer
  <2> QED
    BY <2>1, <2>2, <2>3, <2>4, <2>5
<1> DEFINE new == New(outcome)
<1>4. req' = [req EXCEPT ![q] = new]
  BY <1>2
<1>5. new = continue
      \/ \E a \in Answer : new = Send(a) /\ (a \in {"data", "error", "nothing"} => last)
  BY <1>3
<1> HIDE DEF new, New
<1> QED
  BY <1>1, <1>4, <1>5, ZenonT(40) DEF tried, up, on, last, rem, n

\* A step that moves one request and nothing else.
LEMMA OneMoves ==
  ASSUME TypeOK, ClusterInv, UNCHANGED <<priorities, remotes, starts>>,
         NEW q \in Request, NEW new \in Progress, req' = [req EXCEPT ![q] = new], RequestInv(new)
  PROVE  TypeOK' /\ ClusterInv'
<1>1. TypeOK'
  BY DEF TypeOK
<1>2. GroupsInv'
  BY DEF ClusterInv, GroupsInv, GroupInv, Added
<1>3. (\A i \in DOMAIN priorities : SpreadInv(priorities[i]))'
  <2> SUFFICES ASSUME NEW i \in DOMAIN priorities PROVE SpreadInv(priorities[i])'
    OBVIOUS
  <2>1. SpreadInv(priorities[i])
    BY DEF ClusterInv
  <2> QED
    BY <2>1, SameSpread
<1>4. ASSUME NEW z \in Request PROVE RequestInv(req[z])'
  <2> DEFINE me == req'[z]
  <2>1. me = IF z = q THEN new ELSE req[z]
    BY DEF TypeOK
  <2>2. RequestInv(me)
    BY <2>1 DEF ClusterInv
  <2> QED
    BY <2>2 DEF RequestInv, HasTried, Added
<1> QED
  BY <1>1, <1>2, <1>3, <1>4 DEF ClusterInv

\* A request that begins has tried nothing.
LEMMA EnterKeeps ==
  ASSUME TypeOK, ClusterInv, NEW q \in Request, Enter(q) PROVE TypeOK' /\ ClusterInv'
<1> DEFINE me == req[q]
           new == [me EXCEPT !.pc = "group"]
<1>1. /\ me \in Progress /\ me.pc = "idle" /\ RequestInv(me)
      /\ UNCHANGED <<priorities, remotes, starts>> /\ req' = [req EXCEPT ![q] = new]
  BY DEF Enter, TypeOK, ClusterInv
<1>2. /\ new \in Progress /\ new.pc = "group" /\ new.i = 1 /\ new.tried = <<>>
  BY <1>1 DEF Progress, RequestInv
<1> HIDE DEF new, me
<1>3. ToSet(new.tried) = {}
  BY <1>2 DEF ToSet
<1>4. \A h \in DOMAIN priorities : \A x : ~HasTried(new, h, x)
  <2>1. \A h \in DOMAIN priorities : ~(h < 1)
    BY DEF TypeOK
  <2> QED
    BY <1>2, <2>1 DEF HasTried
<1>5. new.i \in 1..Len(priorities) + 1
  <2>1. Len(priorities) \in Nat
    BY DEF TypeOK
  <2> QED
    BY <1>2, <2>1
<1>6. RequestInv(new)
  BY <1>2, <1>3, <1>4, <1>5 DEF RequestInv
<1> QED
  BY <1>1, <1>2, <1>6, OneMoves

\* A request that has ended has no position.
LEMMA FallThroughKeeps ==
  ASSUME TypeOK, ClusterInv, NEW q \in Request, FallThrough(q) PROVE TypeOK' /\ ClusterInv'
<1> DEFINE me == req[q]
           new == [me EXCEPT !.pc = "done"]
<1>1. /\ me \in Progress
      /\ UNCHANGED <<priorities, remotes, starts>> /\ req' = [req EXCEPT ![q] = new]
  BY DEF FallThrough, TypeOK
<1>2. new \in Progress /\ new.pc = "done"
  BY <1>1, Zenon DEF Progress
<1> HIDE DEF new, me
<1>3. RequestInv(new)
  BY <1>2 DEF RequestInv
<1> QED
  BY <1>1, <1>2, <1>3, OneMoves

\* A request that goes on has tried one remote more: the next on the ring of its group.
LEMMA TryKeeps ==
  ASSUME TypeOK, ClusterInv, NEW q \in Request, Try(q) PROVE TypeOK' /\ ClusterInv'
<1> DEFINE me == req[q]
           i == me.i
           g == priorities[i]
           n == Len(g.remotes)
           s == At(me.j + 1, n)
           rem == Pick(g, me.j)
           tried == [me EXCEPT !.tried = Append(@, rem)]
           T == ToSet(me.tried)
<1>1. /\ me \in Progress /\ RequestInv(me) /\ GroupsInv /\ me.pc = "try"
      /\ UNCHANGED <<priorities, remotes, starts>>
  BY TryCases, Zenon DEF TypeOK, ClusterInv
<1>2. /\ i \in DOMAIN priorities /\ n \in Nat \ {0} /\ s \in 1..n /\ me.k \in 0..n - 1
      /\ rem \in Remote /\ rem \in Added
      /\ \A h \in DOMAIN priorities : \A x \in DOMAIN priorities[h].remotes :
           priorities[h].remotes[x] \in T \cup {rem}
             <=> h < i \/ (h = i /\ Behind(s, x, n) < me.k + 1)
      /\ me.k = n - 1 => \A x \in 1..n : Behind(s, x, n) < me.k + 1
  BY <1>1, TryNext
<1>3. /\ me.tried \in Seq(Remote) /\ me.j \in Nat /\ me.k \in Nat /\ me.i \in Nat
      /\ T \subseteq Added
  BY <1>1 DEF Progress, RequestInv
<1> DEFINE list == Append(me.tried, rem)
<1>4. list \in Seq(Remote) /\ ToSet(list) = T \cup {rem}
  BY <1>2, <1>3, Appended
<1>5. ToSet(list) \subseteq Added
  BY <1>2, <1>3, <1>4
<1>5_1. tried = [me EXCEPT !.tried = list]
  OBVIOUS
<1> HIDE DEF list, me
<1>5_2. /\ tried \in Progress /\ tried.tried = list
       /\ tried.pc = me.pc /\ tried.i = i /\ tried.j = me.j /\ tried.k = me.k
  BY <1>1, <1>4, <1>5_1 DEF Progress
<1> HIDE DEF tried
<1>6. ASSUME NEW a \in Answer,
             req' = [req EXCEPT ![q] = [tried EXCEPT !.pc = "done", !.answer = a]]
      PROVE  TypeOK' /\ ClusterInv'
  <2> DEFINE new == [tried EXCEPT !.pc = "done", !.answer = a]
  <2>1. new \in Progress /\ new.pc = "done"
    BY <1>5_2 DEF Progress
  <2> HIDE DEF new
  <2>2. RequestInv(new)
    BY <2>1 DEF RequestInv
  <2>3. req' = [req EXCEPT ![q] = new]
    BY <1>6 DEF new
  <2> QED
    BY <1>1, <2>1, <2>2, <2>3, OneMoves
<1>7. ASSUME me.k = n - 1,
             req' = [req EXCEPT ![q] = [tried EXCEPT !.pc = "group", !.i = @ + 1]]
      PROVE  TypeOK' /\ ClusterInv'
  <2> DEFINE new == [tried EXCEPT !.pc = "group", !.i = @ + 1]
             a == i + 1
  <2>0. a \in Nat /\ new = [tried EXCEPT !.pc = "group", !.i = a]
    BY <1>3, <1>5_2
  <2>0_1. new \in Progress /\ new.pc = "group" /\ new.i = a /\ new.tried = tried.tried
    <3>1. tried \in Progress
      BY <1>5_2
    <3> HIDE DEF a, new
    <3> QED
      BY <2>0, <3>1 DEF Progress
  <2>1. new \in Progress /\ new.pc = "group" /\ new.i = i + 1 /\ new.tried = list
    BY <1>5_2, <2>0_1
  <2>2. req' = [req EXCEPT ![q] = new]
    BY <1>7
  <2> HIDE DEF new
  <2>3. ASSUME NEW h \in DOMAIN priorities, NEW x \in DOMAIN priorities[h].remotes
        PROVE  priorities[h].remotes[x] \in ToSet(new.tried) <=> HasTried(new, h, x)
    <3>1. h = i => x \in 1..n
      BY <1>1, <1>2, GroupTypes
    <3>2. h \in Nat /\ i \in Nat
      BY <1>3 DEF TypeOK
    <3>3. priorities[h].remotes[x] \in ToSet(new.tried)
            <=> h < i \/ (h = i /\ Behind(s, x, n) < me.k + 1)
      BY <1>2, <1>4, <2>1
    <3>4. h = i => Behind(s, x, n) < me.k + 1
      BY <1>2, <1>7, <3>1
    <3>5. HasTried(new, h, x) <=> h < i + 1
      BY <2>1 DEF HasTried
    <3> HIDE DEF i, n, s
    <3> QED
      BY <3>2, <3>3, <3>4, <3>5
  <2>4. new.i \in 1..Len(priorities) + 1
    <3>1. i \in 1..Len(priorities) /\ Len(priorities) \in Nat
      BY <1>2 DEF TypeOK
    <3> QED
      BY <2>1, <3>1
  <2>5. ToSet(new.tried) \subseteq Added
    BY <1>5, <2>1
  <2>6. RequestInv(new)
    BY <2>1, <2>3, <2>4, <2>5 DEF RequestInv
  <2> QED
    BY <1>1, <2>1, <2>2, <2>6, OneMoves
<1>8. ASSUME me.k # n - 1,
             req' = [req EXCEPT ![q] = [tried EXCEPT !.j = @ + 1, !.k = @ + 1]]
      PROVE  TypeOK' /\ ClusterInv'
  <2> DEFINE new == [tried EXCEPT !.j = @ + 1, !.k = @ + 1]
             a == me.j + 1
             b == me.k + 1
  <2>0. a \in Nat /\ b \in Nat /\ new = [tried EXCEPT !.j = a, !.k = b]
    BY <1>3, <1>5_2
  <2>0_1. /\ new \in Progress /\ new.pc = tried.pc /\ new.i = tried.i /\ new.tried = tried.tried
         /\ new.j = a /\ new.k = b
    <3>1. tried \in Progress
      BY <1>5_2
    <3> HIDE DEF a, b, new
    <3> QED
      BY <2>0, <3>1 DEF Progress
  <2>1. /\ new \in Progress /\ new.pc = "try" /\ new.i = i /\ new.tried = list
        /\ new.j = me.j + 1 /\ new.k = me.k + 1
    <3> HIDE DEF new
    <3> QED
      BY <1>1, <1>5_2, <2>0_1
  <2>2. req' = [req EXCEPT ![q] = new]
    BY <1>8
  <2> HIDE DEF new
  <2>3. ASSUME NEW h \in DOMAIN priorities, NEW x \in DOMAIN priorities[h].remotes
        PROVE  priorities[h].remotes[x] \in ToSet(new.tried) <=> HasTried(new, h, x)
    <3>1. priorities[h].remotes[x] \in ToSet(new.tried)
            <=> h < i \/ (h = i /\ Behind(s, x, n) < me.k + 1)
      BY <1>2, <1>4, <2>1
    <3>2. HasTried(new, h, x) <=> h < i \/ (h = i /\ Behind(s, x, n) < me.k + 1)
      BY <2>1 DEF HasTried
    <3> QED
      BY <3>1, <3>2
  <2>4. new.i \in 1..Len(priorities) + 1 /\ new.i <= Len(priorities)
    <3>1. i \in 1..Len(priorities) /\ Len(priorities) \in Nat
      BY <1>2 DEF TypeOK
    <3> QED
      BY <2>1, <3>1
  <2>5. ToSet(new.tried) \subseteq Added
    BY <1>5, <2>1
  <2>6. new.k < Len(priorities[new.i].remotes)
    <3>1. me.k + 1 < n
      <4> HIDE DEF n
      <4> QED
        BY <1>2, <1>8
    <3> QED
      BY <2>1, <3>1
  <2>7. RequestInv(new)
    BY <2>1, <2>3, <2>4, <2>5, <2>6 DEF RequestInv
  <2> QED
    BY <1>1, <2>1, <2>2, <2>7, OneMoves
<1> QED
  BY <1>6, <1>7, <1>8, TryCases, ZenonT(40) DEF tried, me

\* A request that takes a number moves the group's counter, and has tried nothing of the group.
LEMMA GroupKeeps ==
  ASSUME TypeOK, ClusterInv, NEW q \in Request, Group(q) PROVE TypeOK' /\ ClusterInv'
<1> DEFINE me == req[q]
           i == me.i
           g == priorities[i]
           n == Len(g.remotes)
           round == g.round + 1
           j == IF n > 1 THEN round ELSE 0
           new == [me EXCEPT !.pc = "try", !.j = j, !.k = 0]
<1>1. /\ me \in Progress /\ RequestInv(me) /\ GroupsInv /\ me.pc = "group"
      /\ i <= Len(priorities) /\ UNCHANGED remotes
      /\ req' = [req EXCEPT ![q].pc = "try", ![q].j = j, ![q].k = 0]
      /\ IF n > 1
         THEN /\ priorities' = [priorities EXCEPT ![i].round = round]
              /\ starts' = [starts EXCEPT ![Pick(g, j)] = @ + 1]
         ELSE UNCHANGED <<priorities, starts>>
  BY DEF Group, Take, TypeOK, ClusterInv
<1>2. i \in Nat /\ i \in DOMAIN priorities /\ DOMAIN priorities = 1..Len(priorities)
  BY <1>1 DEF RequestInv, Progress, TypeOK
<1>3. /\ g \in GroupOf /\ g.round \in Nat /\ n \in Nat \ {0} /\ DOMAIN g.remotes = 1..n
      /\ \A x \in 1..n : g.remotes[x] \in Remote
  BY <1>1, <1>2, GroupTypes
<1>4. j \in Nat /\ round \in Nat
  BY <1>3
<1>5. req' = [req EXCEPT ![q] = new]
  BY <1>1
<1> HIDE DEF j, round, me
<1>6. /\ new \in Progress /\ new.pc = "try" /\ new.i = i /\ new.j = j /\ new.k = 0
      /\ new.tried = me.tried
  BY <1>1, <1>4 DEF Progress
<1> HIDE DEF new
<1>7. RequestInv(new)
  <2>1. \A x \in 1..n : ~(Behind(At(j, n), x, n) < 0)
    <3>1. \A x \in 1..n : Behind(At(j, n), x, n) \in 0..n - 1
      BY <1>3, <1>4, RingStep
    <3> QED
      BY <1>3, <3>1
  <2>2. ASSUME NEW h \in DOMAIN priorities, NEW x \in DOMAIN priorities[h].remotes
        PROVE  HasTried(new, h, x) <=> HasTried(me, h, x)
    <3>1. HasTried(me, h, x) <=> h < i
      BY <1>1 DEF HasTried
    <3>2. HasTried(new, h, x) <=> h < i
      BY <1>3, <1>6, <2>1 DEF HasTried
    <3> QED
      BY <3>1, <3>2
  <2>3. /\ me.i \in 1..Len(priorities) + 1 /\ ToSet(me.tried) \subseteq Added
        /\ \A h \in DOMAIN priorities : \A x \in DOMAIN priorities[h].remotes :
             priorities[h].remotes[x] \in ToSet(me.tried) <=> HasTried(me, h, x)
    BY <1>1 DEF RequestInv
  <2>4. new.i <= Len(priorities) /\ new.k < Len(priorities[new.i].remotes)
    BY <1>1, <1>3, <1>6
  <2> QED
    BY <1>6, <2>2, <2>3, <2>4 DEF RequestInv
<1>8. CASE ~(n > 1)
  BY <1>1, <1>5, <1>6, <1>7, <1>8, OneMoves
<1>9. CASE n > 1
  <2> DEFINE s == At(j + 1, n)
  <2>0. PICK one : one = [g EXCEPT !.round = round]
    OBVIOUS
  <2>1. /\ one \in GroupOf /\ one.remotes = g.remotes /\ one.round = round
        /\ one.priority = g.priority
    BY <1>3, <1>4, <2>0 DEF GroupOf
  <2>2. /\ j = round /\ priorities' = [priorities EXCEPT ![i] = one] /\ UNCHANGED remotes
        /\ starts' = [starts EXCEPT ![Pick(g, j)] = @ + 1]
    BY <1>1, <1>9, <2>0 DEF j
  <2>3. /\ priorities' \in Seq(GroupOf) /\ Len(priorities') = Len(priorities)
        /\ DOMAIN priorities' = DOMAIN priorities
        /\ \A h \in DOMAIN priorities : priorities'[h] = IF h = i THEN one ELSE priorities[h]
    BY <1>2, <2>1, <2>2 DEF TypeOK
  <2>4. s \in 1..n /\ Pick(g, j) = g.remotes[s]
    <3>1. s \in 1..n
      BY <1>3, <1>4, RingStep
    <3> QED
      BY <3>1 DEF Pick, At
  <2>5. starts' \in [Remote -> Nat]
    <3>1. Pick(g, j) \in Remote
      BY <1>3, <2>4
    <3> HIDE DEF g
    <3> QED
      BY <2>2, <3>1 DEF TypeOK
  <2>6. TypeOK'
    <3>1. req' \in [Request -> Progress]
      BY <1>5, <1>6 DEF TypeOK
    <3> QED
      BY <2>2, <2>3, <2>5, <3>1 DEF TypeOK
  <2>7. GroupsInv' /\ \A u : RequestInv(u)' <=> RequestInv(u)
    <3>1. \A h \in DOMAIN priorities : /\ priorities'[h].remotes = priorities[h].remotes
                                       /\ priorities'[h].priority = priorities[h].priority
      BY <2>1, <2>3
    <3> QED
      BY <1>1, <2>3, <3>1, SameRemotes
  <2>8. ASSUME NEW z \in Request PROVE RequestInv(req[z])'
    <3>0. PICK u : u = req'[z]
      OBVIOUS
    <3>1. u = IF z = q THEN new ELSE req[z]
      BY <1>5, <3>0 DEF TypeOK
    <3>2. RequestInv(u)
      BY <1>7, <3>1 DEF ClusterInv
    <3>3. RequestInv(u)'
      BY <2>7, <3>2
    <3> QED
      BY <3>0, <3>3 DEF RequestInv, HasTried
  <2>9. ASSUME NEW h \in DOMAIN priorities PROVE SpreadInv(priorities[h])'
    <3>1. SpreadInv(priorities[h]) /\ SpreadInv(g) /\ GroupInv(g)
      BY <1>2, <2>3 DEF ClusterInv, GroupsInv
    <3>2. CASE h = i
      <4>1. PICK old : old = g
        OBVIOUS
      <4>2. /\ old \in GroupOf /\ GroupInv(old) /\ Len(old.remotes) > 1 /\ SpreadInv(old)
            /\ starts \in [Remote -> Nat] /\ one.remotes = old.remotes /\ one.round = old.round + 1
            /\ starts' = [starts EXCEPT ![Pick(old, old.round + 1)] = @ + 1]
        BY <1>3, <1>9, <2>1, <2>2, <3>1, <4>1 DEF TypeOK, round
      <4>3. SpreadInv(one)'
        BY <2>1, <4>2, SpreadStep
      <4>4. priorities'[h] = one
        BY <2>3, <3>2
      <4> QED
        BY <4>3, <4>4 DEF SpreadInv
    <3>3. CASE h # i
      <4>1. ASSUME NEW x \in 1..Len(priorities[h].remotes)
            PROVE  starts'[priorities[h].remotes[x]] = starts[priorities[h].remotes[x]]
        <5>1. x \in DOMAIN priorities[h].remotes /\ priorities[h].remotes[x] \in Remote
          BY <1>1, GroupTypes
        <5>2. s \in DOMAIN priorities[i].remotes
          BY <1>3, <2>4
        <5>3. priorities[h].remotes[x] # g.remotes[s]
          BY <1>1, <1>2, <3>3, <5>1, <5>2, Disjoint
        <5> QED
          BY <2>2, <2>4, <5>1, <5>3 DEF TypeOK
      <4>2. priorities'[h] = priorities[h]
        BY <2>3, <3>3
      <4> QED
        BY <3>1, <4>1, <4>2, SameSpread
    <3> QED
      BY <3>2, <3>3
  <2> QED
    BY <2>3, <2>6, <2>7, <2>8, <2>9 DEF ClusterInv
<1> QED
  BY <1>8, <1>9

-----------------------------------------------------------------------------
(* Add *)

\* Where Add finds the group, or the place for a new one.
LEMMA AddPlaces ==
  ASSUME TypeOK, NEW p \in Int
  PROVE  /\ SearchRemote(p) \in 1..Len(remotes) + 1
         /\ SearchGroup(p) \in 1..Len(priorities) + 1
         /\ SearchGroup(p) <= Len(priorities) => priorities[SearchGroup(p)].priority >= p
         /\ \A h \in 1..SearchGroup(p) - 1 : priorities[h].priority < p
<1>1. SearchRemote(p) \in 1..Len(remotes) + 1
  <2> DEFINE keys == [i \in DOMAIN remotes |-> Priority[remotes[i]]]
  <2>1. keys \in Seq(Int) /\ Len(keys) = Len(remotes)
    BY DEF TypeOK
  <2> QED
    BY <2>1, Found DEF SearchRemote
<1>2. /\ SearchGroup(p) \in 1..Len(priorities) + 1
      /\ SearchGroup(p) <= Len(priorities) => priorities[SearchGroup(p)].priority >= p
      /\ \A h \in 1..SearchGroup(p) - 1 : priorities[h].priority < p
  <2> DEFINE keys == [i \in DOMAIN priorities |-> priorities[i].priority]
  <2>1. /\ keys \in Seq(Int) /\ Len(keys) = Len(priorities)
        /\ \A i \in 1..Len(priorities) : keys[i] = priorities[i].priority
    <3>1. \A i \in DOMAIN priorities : priorities[i] \in GroupOf
      BY DEF TypeOK
    <3>2. \A i \in DOMAIN priorities : priorities[i].priority \in Int
      BY <3>1 DEF GroupOf
    <3>3. DOMAIN priorities = 1..Len(priorities) /\ Len(priorities) \in Nat
      BY DEF TypeOK
    <3> QED
      BY <3>2, <3>3
  <2>2. SearchGroup(p) = Search(keys, p)
    BY DEF SearchGroup
  <2> HIDE DEF keys
  <2>3. /\ Search(keys, p) \in 1..Len(keys) + 1
        /\ Search(keys, p) <= Len(keys) => keys[Search(keys, p)] >= p
        /\ \A j \in 1..Search(keys, p) - 1 : keys[j] < p
    BY <2>1, Found
  <2>4. Len(priorities) \in Nat
    BY DEF TypeOK
  <2> DEFINE k == SearchGroup(p)
  <2>5. /\ k \in 1..Len(priorities) + 1
        /\ k <= Len(priorities) => keys[k] >= p
        /\ \A j \in 1..k - 1 : keys[j] < p
    BY <2>1, <2>2, <2>3
  <2> HIDE DEF k
  <2>6. /\ k <= Len(priorities) => k \in 1..Len(priorities)
        /\ \A j \in 1..k - 1 : j \in 1..Len(priorities)
    BY <2>4, <2>5
  <2> QED
    BY <2>1, <2>5, <2>6 DEF k
<1> QED
  BY <1>1, <1>2

\* The groups after Add: nobody is in flight, and all counts begin anew.
LEMMA AddRest ==
  ASSUME TypeOK, ClusterInv, NEW r \in Remote, Add(r),
         priorities' \in Seq(GroupOf), GroupsInv'
  PROVE  TypeOK' /\ ClusterInv'
<1>1. /\ UNCHANGED req /\ starts' = [s \in Remote |-> 0] /\ Priority[r] \in Int
      /\ remotes' = InsertAt(remotes, SearchRemote(Priority[r]), r)
      /\ \A q \in Request : req[q].pc \in {"idle", "done"}
  BY DEF Add
<1>2. remotes' \in Seq(Remote)
  <2>1. SearchRemote(Priority[r]) \in 1..Len(remotes) + 1 /\ remotes \in Seq(Remote)
    BY <1>1, AddPlaces DEF TypeOK
  <2> QED
    BY <1>1, <2>1, Inserted
<1>3. TypeOK'
  BY <1>1, <1>2 DEF TypeOK
<1>4. ASSUME NEW i \in DOMAIN priorities' PROVE SpreadInv(priorities[i])'
  <2>1. PICK g : g = priorities'[i]
    OBVIOUS
  <2>2. g \in GroupOf
    BY <2>1
  <2>3. SpreadInv(g)'
    BY <1>1, <2>2, FreshSpread
  <2> QED
    BY <2>1, <2>3 DEF SpreadInv
<1>5. ASSUME NEW q \in Request PROVE RequestInv(req[q])'
  <2>1. RequestInv(req[q]) /\ req'[q] = req[q] /\ req[q].pc \in {"idle", "done"}
    BY <1>1 DEF ClusterInv
  <2> QED
    BY <2>1 DEF RequestInv
<1> QED
  BY <1>3, <1>4, <1>5 DEF ClusterInv

\* A new remote goes to the end of its group, or into a new group at its place.
LEMMA AddKeeps ==
  ASSUME TypeOK, ClusterInv, NEW r \in Remote, Add(r) PROVE TypeOK' /\ ClusterInv'
<1> DEFINE p == Priority[r]
           idx == SearchGroup(p)
           N == Len(priorities)
           found == idx <= N /\ priorities[idx].priority = p
           one == [priority |-> p, remotes |-> <<r>>, round |-> 0]
<1>1. /\ p \in Int /\ r \notin Added /\ GroupsInv
      /\ remotes' = InsertAt(remotes, SearchRemote(p), r)
      /\ found => priorities' = [priorities EXCEPT ![idx].remotes = Append(@, r)]
      /\ ~found => priorities' = InsertAt(priorities, idx, one)
  BY DEF Add, ClusterInv
<1>2. /\ idx \in 1..N + 1 /\ N \in Nat /\ DOMAIN priorities = 1..N
      /\ idx <= N => priorities[idx].priority >= p
      /\ \A h \in 1..idx - 1 : priorities[h].priority < p
  BY <1>1, AddPlaces DEF TypeOK
<1>3. Added' = Added \cup {r}
  <2>1. SearchRemote(p) \in 1..Len(remotes) + 1 /\ remotes \in Seq(Remote)
    BY <1>1, AddPlaces DEF TypeOK
  <2> QED
    BY <1>1, <2>1, InsertedSet DEF Added
<1>4. /\ \A h \in 1..N : /\ priorities[h] \in GroupOf /\ GroupInv(priorities[h])
                         /\ priorities[h].priority \in Int /\ priorities[h].remotes \in Seq(Remote)
      /\ \A h, i \in 1..N : h < i => priorities[h].priority < priorities[i].priority
      /\ \A s : s \in Added <=> \E h \in 1..N : s \in ToSet(priorities[h].remotes)
  <2>1. \A h \in 1..N : priorities[h] \in GroupOf
    BY DEF TypeOK
  <2>2. \A h \in 1..N : priorities[h].priority \in Int /\ priorities[h].remotes \in Seq(Remote)
    BY <2>1 DEF GroupOf
  <2> QED
    BY <1>1, <1>2, <2>1, <2>2 DEF GroupsInv
<1> HIDE DEF p, idx, N
<1>5. ASSUME NEW g \in GroupOf, GroupInv(g), g.priority = p, r \notin ToSet(g.remotes)
      PROVE  GroupInv([g EXCEPT !.remotes = Append(@, r)])
  <2> DEFINE new == [g EXCEPT !.remotes = Append(@, r)]
             s == g.remotes
             n == Len(s)
  <2>1. new.remotes = Append(s, r) /\ new.priority = p /\ s \in Seq(Remote)
    BY <1>5 DEF GroupOf
  <2>2. /\ n \in Nat /\ DOMAIN s = 1..n /\ DOMAIN Append(s, r) = 1..n + 1
        /\ \A x \in 1..n : Append(s, r)[x] = s[x]
        /\ Append(s, r)[n + 1] = r /\ Append(s, r) # <<>>
    BY <2>1
  <2>3. \A x \in 1..n : Priority[s[x]] = p /\ s[x] # r /\ \A y \in 1..n : s[x] = s[y] => x = y
    BY <1>5, <2>2 DEF GroupInv, ToSet
  <2> DEFINE t == Append(s, r)
  <2>4. \A x \in 1..n + 1 : x \in 1..n \/ x = n + 1
    BY <2>2
  <2> HIDE DEF new, s, n, t
  <2>5. \A x \in 1..n + 1 : Priority[t[x]] = p
    BY <2>2, <2>3, <2>4 DEF p, t
  <2>6. \A x, y \in 1..n + 1 : t[x] = t[y] => x = y
    BY <2>2, <2>3, <2>4 DEF t
  <2>7. GroupInv(new)
    BY <2>1, <2>2, <2>5, <2>6 DEF GroupInv, t
  <2> QED
    BY <2>7 DEF new
<1>6. CASE found
  <2> DEFINE g == priorities[idx]
  <2>0. PICK new : new = [g EXCEPT !.remotes = Append(@, r)]
    OBVIOUS
  <2>1. idx \in 1..N /\ g \in GroupOf /\ GroupInv(g) /\ g.priority = p /\ g.remotes \in Seq(Remote)
    BY <1>2, <1>4, <1>6
  <2>2. r \notin ToSet(g.remotes)
    BY <1>1, <1>4, <2>1
  <2>3. GroupInv(new)
    BY <1>5, <2>0, <2>1, <2>2
  <2>4. ToSet(Append(g.remotes, r)) = ToSet(g.remotes) \cup {r} /\ Append(g.remotes, r) \in Seq(Remote)
    BY <2>1, Appended
  <2>5. new \in GroupOf /\ new.priority = p /\ ToSet(new.remotes) = ToSet(g.remotes) \cup {r}
    BY <2>0, <2>1, <2>4 DEF GroupOf
  <2>6. priorities' = [priorities EXCEPT ![idx] = new]
    BY <1>1, <1>6, <2>0
  <2>7. /\ priorities' \in Seq(GroupOf) /\ DOMAIN priorities' = 1..N
        /\ \A h \in 1..N : priorities'[h] = IF h = idx THEN new ELSE priorities[h]
    BY <1>2, <2>1, <2>5, <2>6 DEF TypeOK
  <2>8. \A h \in 1..N : GroupInv(priorities'[h])
    BY <1>4, <2>3, <2>7
  <2>9. \A h, i \in 1..N : h < i => priorities'[h].priority < priorities'[i].priority
    <3>1. \A h \in 1..N : priorities'[h].priority = priorities[h].priority
      BY <2>1, <2>5, <2>7
    <3> QED
      BY <1>4, <3>1
  <2>10. \A s : s \in Added' <=> \E h \in 1..N : s \in ToSet(priorities'[h].remotes)
    BY <1>3, <1>4, <2>1, <2>5, <2>7
  <2>11. GroupsInv'
    <3>1. \A i \in DOMAIN priorities' : GroupInv(priorities[i])'
      BY <2>7, <2>8 DEF GroupInv
    <3>2. Added' = UNION {ToSet(priorities'[i].remotes) : i \in DOMAIN priorities'}
      BY <2>7, <2>10
    <3> QED
      BY <2>7, <2>9, <3>1, <3>2 DEF GroupsInv
  <2> QED
    BY <2>7, <2>11, AddRest
<1>7. CASE ~found
  <2>1. one \in GroupOf /\ one.priority = p /\ one.remotes = <<r>> /\ GroupInv(one)
    <3>1. one \in GroupOf /\ one.priority = p /\ one.remotes = <<r>>
      BY <1>1 DEF GroupOf
    <3>2. DOMAIN <<r>> = {1} /\ <<r>>[1] = r /\ <<r>> # <<>>
      OBVIOUS
    <3> HIDE DEF one
    <3> QED
      BY <3>1, <3>2 DEF GroupInv, p
  <2>2. ToSet(one.remotes) = {r}
    BY <2>1 DEF ToSet
  <2>3. priorities' = InsertAt(priorities, idx, one)
    BY <1>1, <1>7
  <2> HIDE DEF one
  <2>4. /\ priorities' \in Seq(GroupOf) /\ DOMAIN priorities' = 1..N + 1
        /\ \A h \in 1..N + 1 :
             priorities'[h] = IF h < idx THEN priorities[h] ELSE IF h = idx THEN one ELSE priorities[h - 1]
    <3>1. priorities \in Seq(GroupOf) /\ idx \in 1..Len(priorities) + 1 /\ one \in GroupOf
      BY <1>2, <2>1 DEF TypeOK, N
    <3>2. /\ InsertAt(priorities, idx, one) \in Seq(GroupOf)
          /\ Len(InsertAt(priorities, idx, one)) = Len(priorities) + 1
          /\ \A h \in 1..Len(priorities) + 1 : InsertAt(priorities, idx, one)[h] =
               IF h < idx THEN priorities[h] ELSE IF h = idx THEN one ELSE priorities[h - 1]
      BY <3>1, Inserted
    <3>3. priorities' \in Seq(GroupOf) /\ Len(priorities') = N + 1
      BY <2>3, <3>2 DEF N
    <3> QED
      BY <2>3, <3>2, <3>3 DEF N
  <2>5. ASSUME NEW h \in 1..N + 1
        PROVE  \/ h < idx /\ h \in 1..N /\ priorities'[h] = priorities[h]
               \/ h = idx /\ priorities'[h] = one
               \/ h > idx /\ h - 1 \in 1..N /\ priorities'[h] = priorities[h - 1]
    BY <1>2, <2>4
  <2>6. ASSUME NEW h \in 1..N + 1 PROVE GroupInv(priorities'[h])
    BY <1>4, <2>1, <2>5
  <2>7. ASSUME NEW h \in 1..N PROVE /\ h < idx => priorities[h].priority < p
                                    /\ h >= idx => p < priorities[h].priority
    <3>1. h < idx => priorities[h].priority < p
      BY <1>2
    <3>2. CASE h >= idx
      <4>1. idx \in 1..N /\ priorities[idx].priority >= p /\ priorities[idx].priority # p
        BY <1>2, <1>7, <3>2
      <4>2. priorities[idx].priority > p
        BY <1>1, <1>4, <4>1
      <4>3. h = idx \/ priorities[idx].priority < priorities[h].priority
        BY <1>4, <3>2, <4>1
      <4> QED
        BY <1>1, <1>2, <1>4, <4>1, <4>2, <4>3
    <3> QED
      BY <1>2, <3>1, <3>2
  <2>8. ASSUME NEW h \in 1..N + 1, NEW i \in 1..N + 1, h < i
        PROVE  priorities'[h].priority < priorities'[i].priority
    <3>1. \/ h < idx /\ h \in 1..N /\ priorities'[h] = priorities[h]
          \/ h = idx /\ priorities'[h] = one
          \/ h > idx /\ h - 1 \in 1..N /\ priorities'[h] = priorities[h - 1]
      BY <2>5
    <3>2. \/ i < idx /\ i \in 1..N /\ priorities'[i] = priorities[i]
          \/ i = idx /\ priorities'[i] = one
          \/ i > idx /\ i - 1 \in 1..N /\ priorities'[i] = priorities[i - 1]
      BY <2>5
    <3>3. CASE h < idx /\ i < idx
      BY <1>2, <1>4, <2>8, <3>1, <3>2, <3>3
    <3>4. CASE h < idx /\ i = idx
      BY <1>2, <2>1, <2>7, <3>1, <3>2, <3>4
    <3>5. CASE h < idx /\ i > idx
      <4>1. h \in 1..N /\ i - 1 \in 1..N /\ h < i - 1
        BY <1>2, <3>1, <3>2, <3>5
      <4> QED
        BY <1>2, <1>4, <3>1, <3>2, <3>5, <4>1
    <3>6. CASE h = idx /\ i > idx
      <4>1. i - 1 \in 1..N /\ i - 1 >= idx
        BY <1>2, <3>2, <3>6
      <4>2. p < priorities[i - 1].priority
        BY <2>7, <4>1
      <4> QED
        BY <1>2, <2>1, <3>1, <3>2, <3>6, <4>2
    <3>7. CASE h > idx /\ i > idx
      <4>1. h - 1 \in 1..N /\ i - 1 \in 1..N /\ h - 1 < i - 1
        BY <1>2, <2>8, <3>1, <3>2, <3>7
      <4> QED
        BY <1>2, <1>4, <3>1, <3>2, <3>7, <4>1
    <3> QED
      BY <1>2, <2>8, <3>3, <3>4, <3>5, <3>6, <3>7
  <2>9. ASSUME NEW s PROVE s \in Added' <=> \E h \in 1..N + 1 : s \in ToSet(priorities'[h].remotes)
    <3>1. ASSUME s \in Added PROVE \E h \in 1..N + 1 : s \in ToSet(priorities'[h].remotes)
      <4>1. PICK h \in 1..N : s \in ToSet(priorities[h].remotes)
        BY <1>4, <3>1
      <4>2. CASE h < idx
        <5>1. h \in 1..N + 1 /\ priorities'[h] = priorities[h]
          BY <1>2, <2>4, <4>2
        <5> QED
          BY <4>1, <5>1
      <4>3. CASE ~(h < idx)
        <5>1. h + 1 \in 1..N + 1 /\ priorities'[h + 1] = priorities[h]
          BY <1>2, <2>4, <4>3
        <5> QED
          BY <4>1, <5>1
      <4> QED
        BY <4>2, <4>3
    <3>2. s = r => \E h \in 1..N + 1 : s \in ToSet(priorities'[h].remotes)
      <4>1. idx \in 1..N + 1 /\ priorities'[idx] = one
        BY <1>2, <2>4
      <4> QED
        BY <2>2, <4>1
    <3>3. ASSUME NEW h \in 1..N + 1, s \in ToSet(priorities'[h].remotes) PROVE s \in Added \cup {r}
      BY <1>4, <2>2, <2>5, <3>3
    <3> QED
      BY <1>3, <3>1, <3>2, <3>3
  <2>10. GroupsInv'
    <3>1. \A i \in DOMAIN priorities' : GroupInv(priorities[i])'
      BY <2>4, <2>6 DEF GroupInv
    <3>2. Added' = UNION {ToSet(priorities'[i].remotes) : i \in DOMAIN priorities'}
      BY <2>4, <2>9
    <3> QED
      BY <2>4, <2>8, <3>1, <3>2 DEF GroupsInv
  <2> QED
    BY <2>4, <2>10, AddRest
<1> QED
  BY <1>6, <1>7

-----------------------------------------------------------------------------
(* Theorems *)

\* The groups stay sorted and whole, whatever requests and Add do, and the counter
\* of a group and the number of a request tell which remotes were begun with and
\* which were tried.
THEOREM ClusterIsSound == Spec => [](TypeOK /\ ClusterInv)
<1>1. Init => TypeOK /\ ClusterInv
  <2> SUFFICES ASSUME Init PROVE TypeOK /\ ClusterInv
    OBVIOUS
  <2>1. TypeOK
    BY DEF Init, TypeOK, Progress, Answer
  <2>2. DOMAIN priorities = {} /\ Added = {}
    BY DEF Init, Added, ToSet
  <2>3. \A q \in Request : req[q].pc = "idle" /\ req[q].i = 1 /\ req[q].tried = <<>>
    BY DEF Init
  <2>4. GroupsInv /\ \A i \in DOMAIN priorities : SpreadInv(priorities[i])
    BY <2>2 DEF GroupsInv
  <2>5. \A q \in Request : RequestInv(req[q])
    BY <2>3 DEF RequestInv
  <2> QED
    BY <2>1, <2>4, <2>5 DEF ClusterInv
<1>2. TypeOK /\ ClusterInv /\ [Next]_vars => (TypeOK /\ ClusterInv)'
  <2> SUFFICES ASSUME TypeOK, ClusterInv, [Next]_vars PROVE TypeOK' /\ ClusterInv'
    OBVIOUS
  <2>1. ASSUME NEW r \in Remote, Add(r) PROVE TypeOK' /\ ClusterInv'
    BY <2>1, AddKeeps
  <2>2. ASSUME NEW q \in Request, Enter(q) PROVE TypeOK' /\ ClusterInv'
    BY <2>2, EnterKeeps
  <2>3. ASSUME NEW q \in Request, Group(q) PROVE TypeOK' /\ ClusterInv'
    BY <2>3, GroupKeeps
  <2>4. ASSUME NEW q \in Request, Try(q) PROVE TypeOK' /\ ClusterInv'
    BY <2>4, TryKeeps
  <2>5. ASSUME NEW q \in Request, FallThrough(q) PROVE TypeOK' /\ ClusterInv'
    BY <2>5, FallThroughKeeps
  <2>6. CASE UNCHANGED vars
    <3>1. UNCHANGED <<priorities, remotes, req, starts>>
      BY <2>6 DEF vars
    <3>2. TypeOK'
      BY <3>1 DEF TypeOK
    <3>3. GroupsInv'
      BY <3>1 DEF ClusterInv, GroupsInv, GroupInv, Added
    <3>4. ASSUME NEW i \in DOMAIN priorities PROVE SpreadInv(priorities[i])'
      BY <3>1, SameSpread DEF ClusterInv
    <3>5. ASSUME NEW q \in Request PROVE RequestInv(req[q])'
      BY <3>1 DEF ClusterInv, RequestInv, HasTried, Added
    <3> QED
      BY <3>1, <3>2, <3>3, <3>4, <3>5 DEF ClusterInv
  <2> QED
    BY <2>1, <2>2, <2>3, <2>4, <2>5, <2>6 DEF Next
<1> QED
  BY <1>1, <1>2, PTL DEF Spec

\* Balanced, for any number of remotes and of requests that share the counter.
THEOREM RequestsAreSpread == Spec => []Balanced
<1>1. TypeOK /\ ClusterInv => Balanced
  BY SpreadIsBalanced
<1> QED
  BY <1>1, ClusterIsSound, PTL

\* A request that has tried a remote of every group has tried them all.
LEMMA TriedAll ==
  ASSUME GroupsInv, NEW T, T \subseteq Added,
         \A h \in DOMAIN priorities : \A x \in DOMAIN priorities[h].remotes :
           priorities[h].remotes[x] \in T
  PROVE  T = Added
<1>1. ASSUME NEW r \in Added PROVE r \in T
  <2>1. \E i \in DOMAIN priorities : \E x \in DOMAIN priorities[i].remotes : r = priorities[i].remotes[x]
    BY AddedIs
  <2> QED
    BY <2>1
<1> QED
  BY <1>1

\* What a step does to one request.
Orderly(q) ==
    LET before == ToSet(req[q].tried)
        tried == req'[q].tried
    IN  /\ tried # req[q].tried =>
             /\ Last(tried) \notin before
             /\ \A r \in Added : Priority[r] < Priority[Last(tried)] => r \in before
        /\ Ends(q) /\ req'[q].answer \in {"data", "error", "nothing"} => ToSet(tried) = Added

\* Past the last group, everything has been tried.
LEMMA FallThroughIsOrderly ==
  ASSUME TypeOK, ClusterInv, NEW q \in Request, FallThrough(q) PROVE Orderly(q)
<1> DEFINE me == req[q]
<1>1. /\ me \in Progress /\ RequestInv(me) /\ GroupsInv /\ me.pc = "group" /\ me.i > Len(priorities)
      /\ req'[q].tried = me.tried
  BY DEF FallThrough, TypeOK, ClusterInv, Progress
<1>2. \A h \in DOMAIN priorities : h < me.i
  BY <1>1 DEF TypeOK, Progress
<1>3. ToSet(me.tried) = Added
  BY <1>1, <1>2, TriedAll DEF RequestInv, HasTried
<1> QED
  BY <1>1, <1>3 DEF Orderly

\* A remote that is tried is new and the best left; the last one leaves none.
LEMMA TryIsOrderly ==
  ASSUME TypeOK, ClusterInv, NEW q \in Request, Try(q) PROVE Orderly(q)
<1> DEFINE me == req[q]
           i == me.i
           g == priorities[i]
           n == Len(g.remotes)
           s == At(me.j + 1, n)
           rem == Pick(g, me.j)
           list == Append(me.tried, rem)
           tried == [me EXCEPT !.tried = Append(@, rem)]
           T == ToSet(me.tried)
<1>1. me \in Progress /\ RequestInv(me) /\ GroupsInv /\ me.pc = "try"
  BY TryCases, Zenon DEF TypeOK, ClusterInv
<1>2. /\ i \in DOMAIN priorities /\ n \in Nat \ {0} /\ rem \in Remote /\ rem \in Added /\ rem \notin T
      /\ \A r \in Added : Priority[r] < Priority[rem] => r \in T
      /\ \A h \in DOMAIN priorities : \A x \in DOMAIN priorities[h].remotes :
           priorities[h].remotes[x] \in T \cup {rem}
             <=> h < i \/ (h = i /\ Behind(s, x, n) < me.k + 1)
      /\ me.k = n - 1 => \A x \in 1..n : Behind(s, x, n) < me.k + 1
  BY <1>1, TryNext
<1>3. me.tried \in Seq(Remote) /\ T \subseteq Added
  BY <1>1 DEF Progress, RequestInv
<1>4. list \in Seq(Remote) /\ ToSet(list) = T \cup {rem} /\ Last(list) = rem
  BY <1>2, <1>3, Appended
<1>5. tried.tried = list /\ tried \in Progress /\ req \in [Request -> Progress]
  <2>1. me \in Progress /\ list \in Seq(Remote) /\ tried = [me EXCEPT !.tried = list]
    BY <1>1, <1>4
  <2> HIDE DEF list, me
  <2>2. tried.tried = list /\ tried \in Progress
    BY <2>1 DEF Progress
  <2> QED
    BY <2>2 DEF TypeOK
<1>6. ASSUME LastRemote(me) PROVE T \cup {rem} = Added
  <2>1. me.k = n - 1 /\ i = Len(priorities)
    BY <1>6 DEF LastRemote
  <2>2. ASSUME NEW h \in DOMAIN priorities, NEW x \in DOMAIN priorities[h].remotes
        PROVE  priorities[h].remotes[x] \in T \cup {rem}
    <3>1. h = i => x \in 1..n
      BY <1>1, <1>2, GroupTypes
    <3>2. h < i \/ h = i
      BY <2>1 DEF TypeOK
    <3>3. h = i => Behind(s, x, n) < me.k + 1
      BY <1>2, <2>1, <3>1
    <3> QED
      BY <1>2, <3>2, <3>3
  <2>3. T \cup {rem} \subseteq Added
    BY <1>2, <1>3, SMTT(30)
  <2> HIDE DEF T, rem
  <2> QED
    BY <1>1, <2>2, <2>3, TriedAll
<1>7. /\ req'[q].tried = list
      /\ Ends(q) /\ req'[q].answer \in {"data", "error", "nothing"} => LastRemote(me)
  <2> HIDE DEF list, tried, me, rem, n
  <2>1. ASSUME NEW a \in Answer, a \in {"data", "error", "nothing"} => LastRemote(me),
               req' = [req EXCEPT ![q] = [tried EXCEPT !.pc = "done", !.answer = a]]
        PROVE  /\ req'[q].tried = list
               /\ Ends(q) /\ req'[q].answer \in {"data", "error", "nothing"} => LastRemote(me)
    <3>1. req'[q].tried = list /\ req'[q].answer = a
      BY <1>5, <2>1 DEF Progress
    <3> QED
      BY <2>1, <3>1
  <2>2. ASSUME req' = [req EXCEPT ![q] = [tried EXCEPT !.pc = "group", !.i = @ + 1]]
        PROVE  req'[q].tried = list /\ ~Ends(q)
    BY <1>5, <2>2 DEF Progress, Ends
  <2>3. ASSUME req' = [req EXCEPT ![q] = [tried EXCEPT !.j = @ + 1, !.k = @ + 1]],
               tried.pc = "try"
        PROVE  req'[q].tried = list /\ ~Ends(q)
    BY <1>5, <2>3 DEF Progress, Ends
  <2>4. tried.pc = "try"
    BY <1>1 DEF tried, Progress
  <2> QED
    BY <2>1, <2>2, <2>3, <2>4, TryCases, Zenon DEF tried, me, rem, n
<1> QED
  BY <1>2, <1>4, <1>6, <1>7, Zenon DEF Orderly

\* TriesEachByPriority, for any remotes, priorities, filters and requests in flight.
THEOREM RemotesAreTriedByPriority == Spec => TriesEachByPriority
<1>1. TypeOK /\ ClusterInv /\ [Next]_vars => [\A q \in Request : Orderly(q)]_vars
  <2> SUFFICES ASSUME TypeOK, ClusterInv, Next, NEW q \in Request PROVE Orderly(q)
    BY DEF vars
  <2>1. CASE req'[q] = req[q]
    BY <2>1 DEF Orderly, Ends
  <2>2. CASE Enter(q)
    BY <2>2 DEF Enter, TypeOK, Progress, Orderly, Ends
  <2>3. CASE Group(q)
    <3>1. req'[q].tried = req[q].tried /\ req'[q].pc = "try"
      BY <2>3 DEF Group, TypeOK, Progress
    <3> QED
      BY <3>1 DEF Orderly, Ends
  <2>4. CASE Try(q)
    BY <2>4, TryIsOrderly
  <2>5. CASE FallThrough(q)
    BY <2>5, FallThroughIsOrderly
  <2>6. ASSUME NEW r \in Remote, Add(r) PROVE req'[q] = req[q]
    BY <2>6 DEF Add
  <2>7. ASSUME NEW z \in Request, z # q, Enter(z) \/ Group(z) \/ Try(z) \/ FallThrough(z)
        PROVE  req'[q] = req[q]
    <3>1. CASE Enter(z)
      BY <2>7, <3>1 DEF Enter, TypeOK
    <3>2. CASE Group(z)
      BY <2>7, <3>2, SMTT(30) DEF Group, TypeOK
    <3>3. CASE Try(z)
      BY <2>7, <3>3, TryCases, Zenon DEF TypeOK
    <3>4. CASE FallThrough(z)
      BY <2>7, <3>4 DEF FallThrough, TypeOK
    <3> QED
      BY <2>7, <3>1, <3>2, <3>3, <3>4
  <2> QED
    BY <2>1, <2>2, <2>3, <2>4, <2>5, <2>6, <2>7 DEF Next
<1>2. [\A q \in Request : Orderly(q)]_vars
        => [\A q \in Request :
              LET before == ToSet(req[q].tried)
                  tried == req'[q].tried
              IN  /\ tried # req[q].tried =>
                       /\ Last(tried) \notin before
                       /\ \A r \in Added : Priority[r] < Priority[Last(tried)] => r \in before
                  /\ Ends(q) /\ req'[q].answer \in {"data", "error", "nothing"}
                       => ToSet(tried) = Added]_vars
  BY DEF Orderly
<1> QED
  BY <1>1, <1>2, ClusterIsSound, PTL DEF Spec, TriesEachByPriority
=============================================================================
