---------------------------- MODULE Ranges_proofs ----------------------------
(* Proofs about Ranges: the page keeps its text, ranges lead back to their *)
(* characters, selections are exact, and highlights are one annotation's   *)
(* and cover what it is about.                                             *)
(*                                                                         *)
(* A page reads 1, 2, 3, ..., so a text and an offset in it are a number,  *)
(* and a range is two; what lookups and selections yield is compared by    *)
(* these numbers.                                                          *)
EXTENDS Pages_proofs

-----------------------------------------------------------------------------
(* How much the first k elements of s have, by f.                          *)
Sum(f, s, k) == Len(Join(f, SubSeq(s, 1, k)))

(* A sequence cut in two.                                                  *)
LEMMA Cut ==
  ASSUME NEW N, NEW s \in Seq(N), NEW j \in 0 .. Len(s), NEW k \in j .. Len(s)
  PROVE  /\ Same(SubSeq(s, 1, k), SubSeq(s, 1, j) \o SubSeq(s, j + 1, k))
         /\ SubSeq(s, 1, k) \in Seq(N) /\ SubSeq(s, 1, j) \in Seq(N) /\ SubSeq(s, j + 1, k) \in Seq(N)
  <1>1. Len(s) \in Nat /\ \A i \in 1 .. Len(s) : s[i] \in N BY LenProperties, ElementOfSeq
  <1>2. \A i \in 1 .. k : s[i] \in N BY <1>1
  <1>3. \A i \in 1 .. j : s[i] \in N BY <1>1
  <1>4. \A i \in j + 1 .. k : s[i] \in N BY <1>1
  <1>5. SubSeq(s, 1, k) \in Seq(N) BY <1>1, <1>2, SubSeqProperties
  <1>6. SubSeq(s, 1, j) \in Seq(N) BY <1>1, <1>3, SubSeqProperties
  <1>7. SubSeq(s, j + 1, k) \in Seq(N) BY <1>1, <1>4, SubSeqProperties
  <1>8. SubSeq(s, 1, j) \o SubSeq(s, j + 1, k) = SubSeq(s, 1, k)
    <2>1. 1 \in 1 .. Len(s) + 1 /\ j \in 1 - 1 .. Len(s) /\ k \in j .. Len(s) BY <1>1
    <2> QED BY <2>1, ConcatAdjacentSubSeq
  <1> QED BY <1>5, <1>6, <1>7, <1>8 DEF Same

(* What is counted up to k is what is counted up to j, and what lies       *)
(* between.                                                                *)
Adds(f, s, j, k) ==
  /\ Sum(f, s, j) \in Nat /\ Sum(f, s, k) \in Nat /\ Len(Join(f, SubSeq(s, j + 1, k))) \in Nat
  /\ Sum(f, s, k) = Sum(f, s, j) + Len(Join(f, SubSeq(s, j + 1, k)))

(* So it is for any cut,                                                   *)
LEMMA SumCut ==
  ASSUME NEW N, NEW M, NEW s \in Seq(N), NEW f, Yields(f, N, M), NEW j \in 0 .. Len(s), NEW k \in j .. Len(s)
  PROVE  /\ Same(Join(f, SubSeq(s, 1, k)), Join(f, SubSeq(s, 1, j)) \o Join(f, SubSeq(s, j + 1, k)))
         /\ Join(f, SubSeq(s, 1, j)) \in Seq(M) /\ Join(f, SubSeq(s, j + 1, k)) \in Seq(M)
         /\ Adds(f, s, j, k)
  <1> DEFINE a == SubSeq(s, 1, j)
             b == SubSeq(s, j + 1, k)
  <1>1. Same(SubSeq(s, 1, k), a \o b) /\ a \in Seq(N) /\ b \in Seq(N) BY Cut
  <1> HIDE DEF a, b
  <1>2. Same(Join(f, a \o b), Join(f, a) \o Join(f, b)) BY <1>1, JoinConcat
  <1>3. Join(f, a) \in Seq(M) /\ Join(f, b) \in Seq(M) BY <1>1, JoinType
  <1>4. Join(f, SubSeq(s, 1, k)) = Join(f, a) \o Join(f, b) BY <1>1, <1>2 DEF Same
  <1> DEFINE x == Join(f, a)
             y == Join(f, b)
  <1>5. x \in Seq(M) /\ y \in Seq(M) BY <1>3
  <1> HIDE DEF x, y
  <1>6. Len(x \o y) = Len(x) + Len(y) /\ Len(x) \in Nat /\ Len(y) \in Nat BY <1>5, ConcatProperties, LenProperties
  <1>7. Sum(f, s, k) = Len(x \o y) /\ Sum(f, s, j) = Len(x) BY <1>4 DEF Sum, x, y, a
  <1> QED BY <1>3, <1>4, <1>6, <1>7 DEF Same, Adds, x, y, a, b

(* hence counts only grow.                                                 *)
LEMMA SumGrows ==
  ASSUME NEW N, NEW M, NEW s \in Seq(N), NEW f, Yields(f, N, M), NEW j \in 0 .. Len(s), NEW k \in j .. Len(s)
  PROVE  Sum(f, s, j) \in Nat /\ Sum(f, s, k) \in Nat /\ Sum(f, s, j) <= Sum(f, s, k)
  <1> DEFINE J == Sum(f, s, j)
             K == Sum(f, s, k)
             R == Len(Join(f, SubSeq(s, j + 1, k)))
  <1>3. Adds(f, s, j, k) BY SumCut
  <1>1. J \in Nat /\ K = J + R /\ R \in Nat BY <1>3 DEF Adds
  <1> HIDE DEF J, K, R
  <1>2. J \in Nat /\ K \in Nat /\ J <= K BY <1>1
  <1> QED BY <1>2 DEF J, K

(* x has the numbers after F.                                              *)
Counts(x, F) == x = [i \in 1 .. Len(x) |-> F + i]

(* Where the characters are numbered, those of a stretch are numbered from *)
(* what stands before it,                                                  *)
LEMMA StretchCounts ==
  ASSUME NEW N, NEW s \in Seq(N), NEW f, Yields(f, N, Nat), NEW F \in Nat, Counts(Join(f, s), F), NEW j \in 0 .. Len(s), NEW k \in j .. Len(s)
  PROVE  \A i \in 1 .. Len(Join(f, SubSeq(s, j + 1, k))) : Join(f, SubSeq(s, j + 1, k))[i] = (F + Sum(f, s, j)) + i
  <1> DEFINE a == Join(f, SubSeq(s, 1, j))
             b == Join(f, SubSeq(s, j + 1, k))
             c == Join(f, SubSeq(s, k + 1, Len(s)))
             ab == Join(f, SubSeq(s, 1, k))
             all == Join(f, s)
  <1>1. Len(s) \in Nat BY LenProperties
  <1>2. Same(ab, a \o b) /\ a \in Seq(Nat) /\ b \in Seq(Nat) BY SumCut
  <1>3. Same(all, ab \o c) /\ ab \in Seq(Nat) /\ c \in Seq(Nat)
    <2>1. k \in 0 .. Len(s) /\ Len(s) \in k .. Len(s) BY <1>1
    <2>2. SubSeq(s, 1, Len(s)) = s BY SubSeqFull
    <2>3. Same(Join(f, SubSeq(s, 1, Len(s))), ab \o c) /\ ab \in Seq(Nat) /\ c \in Seq(Nat) BY <2>1, SumCut
    <2> QED BY <2>2, <2>3
  <1>4. Sum(f, s, j) = Len(a) BY DEF Sum
  <1>5. Counts(all, F) OBVIOUS
  <1> HIDE DEF a, b, c, ab, all
  <1>6. ab = a \o b /\ all = ab \o c BY <1>2, <1>3 DEF Same
  <1>7. /\ Len(ab) = Len(a) + Len(b) /\ Len(a) \in Nat /\ Len(b) \in Nat
        /\ \A i \in 1 .. Len(a) + Len(b) : ab[i] = IF i <= Len(a) THEN a[i] ELSE b[i - Len(a)]
    BY <1>2, <1>6, ConcatProperties, LenProperties
  <1>8. /\ Len(all) = Len(ab) + Len(c) /\ Len(c) \in Nat
        /\ \A i \in 1 .. Len(ab) + Len(c) : all[i] = IF i <= Len(ab) THEN ab[i] ELSE c[i - Len(ab)]
    BY <1>3, <1>6, ConcatProperties, LenProperties
  <1>9. ASSUME NEW i \in 1 .. Len(b) PROVE b[i] = (F + Len(a)) + i
    <2>1. Len(a) + i \in 1 .. Len(a) + Len(b) /\ ~ (Len(a) + i <= Len(a)) /\ (Len(a) + i) - Len(a) = i BY <1>7
    <2>2. ab[Len(a) + i] = b[i] BY <1>7, <2>1
    <2>3. Len(a) + i \in 1 .. Len(ab) + Len(c) /\ Len(a) + i <= Len(ab) /\ Len(a) + i \in 1 .. Len(all) BY <1>7, <1>8, <2>1
    <2>4. all[Len(a) + i] = ab[Len(a) + i] BY <1>8, <2>3
    <2>5. all[Len(a) + i] = F + (Len(a) + i) BY <1>5, <2>3 DEF Counts
    <2> QED BY <1>7, <2>2, <2>4, <2>5
  <1> QED BY <1>4, <1>9 DEF b

(* and they are all the numbers up to what stands before its end.          *)
LEMMA StretchHas ==
  ASSUME NEW N, NEW s \in Seq(N), NEW f, Yields(f, N, Nat), NEW F \in Nat, Counts(Join(f, s), F), NEW p \in 1 .. Len(s), NEW q \in 1 .. Len(s)
  PROVE  ToSet(Join(f, SubSeq(s, p, q))) = (F + Sum(f, s, p - 1)) + 1 .. F + Sum(f, s, q)
  <1>1. Len(s) \in Nat BY LenProperties
  <1> DEFINE b == Join(f, SubSeq(s, p, q))
  <1>2. CASE p <= q
    <2> DEFINE j == p - 1
    <2>1. j \in 0 .. Len(s) /\ q \in j .. Len(s) /\ j + 1 = p BY <1>1, <1>2
    <2> HIDE DEF j
    <2>2. Adds(f, s, j, q) /\ Join(f, SubSeq(s, j + 1, q)) \in Seq(Nat) BY <2>1, SumCut
    <2>3. \A i \in 1 .. Len(Join(f, SubSeq(s, j + 1, q))) : Join(f, SubSeq(s, j + 1, q))[i] = (F + Sum(f, s, j)) + i
      BY <2>1, StretchCounts
    <2>4. /\ Sum(f, s, q) = Sum(f, s, j) + Len(b) /\ Len(b) \in Nat /\ b \in Seq(Nat)
          /\ \A i \in 1 .. Len(b) : b[i] = (F + Sum(f, s, j)) + i
      BY <2>1, <2>2, <2>3 DEF Adds
    <2> DEFINE J == Sum(f, s, j)
               Q == Sum(f, s, q)
    <2>7. J \in Nat /\ Q = J + Len(b) /\ Len(b) \in Nat /\ b \in Seq(Nat) /\ \A i \in 1 .. Len(b) : b[i] = (F + J) + i BY <2>2, <2>4 DEF Adds
    <2> HIDE DEF b, J, Q
    <2>5. ToSet(b) = {b[i] : i \in 1 .. Len(b)} BY <2>7, ToSetIs
    <2>6. {b[i] : i \in 1 .. Len(b)} = (F + J) + 1 .. F + Q
      <3>1. ASSUME NEW i \in 1 .. Len(b) PROVE b[i] \in (F + J) + 1 .. F + Q
        <4>1. b[i] = (F + J) + i BY <2>7
        <4>2. (F + J) + i \in (F + J) + 1 .. F + Q BY <2>7
        <4> QED BY <4>1, <4>2
      <3>2. ASSUME NEW x \in (F + J) + 1 .. F + Q PROVE \E i \in 1 .. Len(b) : x = b[i]
        <4>1. x - (F + J) \in 1 .. Len(b) BY <2>7
        <4>2. b[x - (F + J)] = (F + J) + (x - (F + J)) BY <2>7, <4>1
        <4>3. b[x - (F + J)] = x BY <2>7, <4>2
        <4> QED BY <4>1, <4>3
      <3> QED BY <3>1, <3>2
    <2>8. ToSet(b) = (F + J) + 1 .. F + Q BY <2>5, <2>6
    <2> QED BY <2>8 DEF b, j, J, Q
  <1>3. CASE q < p
    <2>1. SubSeq(s, p, q) = <<>> BY <1>1, <1>3, SubSeqEmpty
    <2>2. b = <<>> BY <2>1, JoinEmpty
    <2>3. ToSet(b) = {} BY <2>2, OnesAndTwos
    <2>4. Sum(f, s, q) <= Sum(f, s, p - 1) /\ Sum(f, s, q) \in Nat /\ Sum(f, s, p - 1) \in Nat
      <3> DEFINE k == p - 1
      <3>1. q \in 0 .. Len(s) /\ k \in q .. Len(s) BY <1>1, <1>3
      <3> HIDE DEF k
      <3>2. Sum(f, s, q) \in Nat /\ Sum(f, s, k) \in Nat /\ Sum(f, s, q) <= Sum(f, s, k) BY <3>1, SumGrows
      <3> QED BY <3>2 DEF k
    <2>5. (F + Sum(f, s, p - 1)) + 1 .. F + Sum(f, s, q) = {} BY <2>4
    <2> QED BY <2>3, <2>5
  <1> QED BY <1>1, <1>2, <1>3

(* Where something stands in a sequence put together of three.             *)
LEMMA PlaceIn ==
  ASSUME NEW N, NEW a \in Seq(N), NEW t \in Seq(N), NEW b \in Seq(N), Distinct((a \o t) \o b), NEW i \in 1 .. Len(t)
  PROVE  /\ Len(a) + i \in 1 .. Len((a \o t) \o b)
         /\ ((a \o t) \o b)[Len(a) + i] = t[i]
         /\ Position((a \o t) \o b, t[i]) = Len(a) + i
  <1> DEFINE s == (a \o t) \o b
             at == a \o t
  <1>1. at \in Seq(N) /\ s \in Seq(N) BY ConcatProperties
  <1>2. /\ Len(at) = Len(a) + Len(t) /\ Len(a) \in Nat /\ Len(t) \in Nat
        /\ \A k \in 1 .. Len(a) + Len(t) : at[k] = IF k <= Len(a) THEN a[k] ELSE t[k - Len(a)]
    BY ConcatProperties, LenProperties
  <1> HIDE DEF at
  <1>3. /\ Len(s) = Len(at) + Len(b) /\ Len(b) \in Nat
        /\ \A k \in 1 .. Len(at) + Len(b) : s[k] = IF k <= Len(at) THEN at[k] ELSE b[k - Len(at)]
    BY <1>1, ConcatProperties, LenProperties DEF at
  <1> DEFINE p == Len(a) + i
  <1>4. /\ p \in 1 .. Len(a) + Len(t) /\ p \in 1 .. Len(at) + Len(b) /\ p <= Len(at) /\ ~ (p <= Len(a))
        /\ p - Len(a) = i
    BY <1>2, <1>3
  <1>5. s[p] = t[i] BY <1>2, <1>3, <1>4
  <1>6. p \in 1 .. Len(s) BY <1>3, <1>4
  <1>7. Distinct(s) OBVIOUS
  <1> HIDE DEF s, p
  <1>8. Position(s, s[p]) = p BY <1>1, <1>6, <1>7, PositionIs
  <1> QED BY <1>5, <1>6, <1>8 DEF s, p, at

(* How much there is before the elements of a part, in it and in the whole.*)
Before(f, a, t, s, i) ==
  /\ Len(Join(f, a)) \in Nat /\ Sum(f, t, i - 1) \in Nat
  /\ Sum(f, s, Position(s, t[i]) - 1) = Len(Join(f, a)) + Sum(f, t, i - 1)

(* How much stands before an element of a part: what is before the part,   *)
(* and in it.                                                              *)
LEMMA PartSums ==
  ASSUME NEW N, NEW M, NEW a \in Seq(N), NEW t \in Seq(N), NEW b \in Seq(N), Distinct((a \o t) \o b),
         NEW f, Yields(f, N, M), NEW i \in 1 .. Len(t)
  PROVE  Before(f, a, t, (a \o t) \o b, i)
  <1> DEFINE s == (a \o t) \o b
             at == a \o t
             p == SubSeq(t, 1, i - 1)
  <1>1. at \in Seq(N) /\ s \in Seq(N) BY ConcatProperties
  <1>2. Len(a) + i \in 1 .. Len(s) /\ Position(s, t[i]) = Len(a) + i
    <2> HIDE DEF s
    <2> QED BY PlaceIn DEF s
  <1>3. Len(t) \in Nat /\ Len(a) \in Nat BY LenProperties
  <1>4. p \in Seq(N)
    <2>1. i - 1 \in 0 .. Len(t) /\ Len(t) \in i - 1 .. Len(t) BY <1>3
    <2> DEFINE j == i - 1
    <2> HIDE DEF j
    <2>2. SubSeq(t, 1, j) \in Seq(N) BY <2>1, Cut DEF j
    <2> QED BY <2>2 DEF j
  <1>5. SubSeq(s, 1, Len(a) + (i - 1)) = a \o p
    <2> DEFINE r == a \o p
               k == Len(a) + (i - 1)
    <2>1. /\ Len(at) = Len(a) + Len(t)
          /\ \A l \in 1 .. Len(a) + Len(t) : at[l] = IF l <= Len(a) THEN a[l] ELSE t[l - Len(a)]
      BY ConcatProperties
    <2>2. /\ Len(p) = i - 1 /\ \A l \in 1 .. i - 1 : p[l] = t[l]
      <3>1. 1 \in 1 .. Len(t) + 1 /\ i - 1 \in 1 - 1 .. Len(t) BY <1>3
      <3> QED BY <1>3, SubSeqProperties
    <2> HIDE DEF at, p
    <2>3. /\ Len(s) = Len(at) + Len(b) /\ Len(b) \in Nat
          /\ \A l \in 1 .. Len(at) + Len(b) : s[l] = IF l <= Len(at) THEN at[l] ELSE b[l - Len(at)]
      BY <1>1, ConcatProperties, LenProperties DEF at
    <2>4. /\ r \in Seq(N) /\ Len(r) = Len(a) + (i - 1)
          /\ \A l \in 1 .. Len(a) + (i - 1) : r[l] = IF l <= Len(a) THEN a[l] ELSE p[l - Len(a)]
      <3>1. /\ r \in Seq(N) /\ Len(r) = Len(a) + Len(p)
            /\ \A l \in 1 .. Len(a) + Len(p) : r[l] = IF l <= Len(a) THEN a[l] ELSE p[l - Len(a)]
        BY <1>4, ConcatProperties
      <3> HIDE DEF r
      <3>2. Len(a) + Len(p) = Len(a) + (i - 1) BY <2>2
      <3> QED BY <3>1, <3>2
    <2> HIDE DEF s, r
    <2>5. k \in 0 .. Len(s) /\ Len(s) \in k .. Len(s) /\ k \in Nat BY <1>3, <2>1, <2>3
    <2>6. SubSeq(s, 1, k) \in Seq(N)
      <3> HIDE DEF k
      <3> QED BY <1>1, <2>5, Cut
    <2>7. Len(SubSeq(s, 1, k)) = k /\ \A l \in 1 .. k : SubSeq(s, 1, k)[l] = s[l]
      <3> HIDE DEF k
      <3> QED BY <1>1, <2>5, SubSeqProperties
    <2>8. ASSUME NEW l \in 1 .. k PROVE s[l] = r[l]
      <3>1. l \in 1 .. Len(at) + Len(b) /\ l <= Len(at) /\ l \in 1 .. Len(a) + Len(t) BY <1>3, <2>1, <2>3
      <3>2. s[l] = at[l] BY <2>3, <3>1
      <3>3. CASE l <= Len(a) BY <2>1, <2>4, <3>1, <3>2, <3>3
      <3>4. CASE ~ (l <= Len(a))
        <4>1. l - Len(a) \in 1 .. i - 1 BY <1>3, <3>4
        <4>2. p[l - Len(a)] = t[l - Len(a)] BY <2>2, <4>1
        <4> QED BY <2>1, <2>4, <3>1, <3>2, <3>4, <4>2
      <3> QED BY <3>3, <3>4
    <2> DEFINE q == SubSeq(s, 1, k)
    <2> HIDE DEF q, k
    <2>9. q = r
      <3>1. Len(q) = Len(r) BY <2>4, <2>7 DEF q, k
      <3>2. \A l \in 1 .. Len(q) : q[l] = r[l] BY <2>7, <2>8 DEF q
      <3> QED BY <2>4, <2>6, <3>1, <3>2, SeqEqual DEF q
    <2> QED BY <2>9 DEF q, k, r
  <1>6. (Len(a) + i) - 1 = Len(a) + (i - 1) BY <1>3
  <1> HIDE DEF s, p
  <1>7. Same(Join(f, a \o p), Join(f, a) \o Join(f, p)) BY <1>4, JoinConcat
  <1> DEFINE x == Join(f, a)
             y == Join(f, p)
  <1>8. x \in Seq(M) /\ y \in Seq(M) BY <1>4, JoinType
  <1>9. Join(f, a \o p) = x \o y BY <1>7 DEF Same
  <1> HIDE DEF x, y
  <1>10. Len(x \o y) = Len(x) + Len(y) /\ Len(x) \in Nat /\ Len(y) \in Nat BY <1>8, ConcatProperties, LenProperties
  <1>11. Sum(f, s, Position(s, t[i]) - 1) = Len(x \o y) BY <1>2, <1>5, <1>6, <1>9 DEF Sum
  <1>12. Sum(f, t, i - 1) = Len(y) BY DEF Sum, y, p
  <1> QED BY <1>10, <1>11, <1>12 DEF s, x, Before

(* How much of the page is before a text.                                  *)
Start(d, t) == Sum(d.chars, TextNodes(d, Body), Position(TextNodes(d, Body), t) - 1)
(* As much as is before the part of the page, and in it.                   *)
Offset(d, s, t, F, i) == Start(d, t) = F + Sum(d.chars, s, i - 1) /\ Sum(d.chars, s, i - 1) \in Nat
Numbered(d) == Counts(Reads(d, Body), 0)

(* The texts of a node and its characters have their place in the page.    *)
StartsAt(d, x, F) ==
  /\ \A i \in 1 .. Len(TextNodes(d, x)) : Offset(d, TextNodes(d, x), TextNodes(d, x)[i], F, i)
  /\ Numbered(d) => Counts(Reads(d, x), F)

(* A part of something numbered is numbered.                               *)
LEMMA CountsPart ==
  ASSUME NEW x \in Seq(Nat), NEW y \in Seq(Nat), NEW z \in Seq(Nat), Counts((x \o y) \o z, 0)
  PROVE  Counts(y, Len(x))
  <1> DEFINE xy == x \o y
             all == xy \o z
  <1>1. /\ xy \in Seq(Nat) /\ Len(xy) = Len(x) + Len(y) /\ Len(x) \in Nat /\ Len(y) \in Nat
        /\ \A i \in 1 .. Len(x) + Len(y) : xy[i] = IF i <= Len(x) THEN x[i] ELSE y[i - Len(x)]
    BY ConcatProperties, LenProperties
  <1> HIDE DEF xy
  <1>2. /\ Len(all) = Len(xy) + Len(z) /\ Len(z) \in Nat
        /\ \A i \in 1 .. Len(xy) + Len(z) : all[i] = IF i <= Len(xy) THEN xy[i] ELSE z[i - Len(xy)]
    <2>1. Len(z) \in Nat BY LenProperties
    <2>2. xy \in Seq(Nat) /\ z \in Seq(Nat) BY <1>1
    <2>3. /\ Len(xy \o z) = Len(xy) + Len(z)
          /\ \A i \in 1 .. Len(xy) + Len(z) : (xy \o z)[i] = IF i <= Len(xy) THEN xy[i] ELSE z[i - Len(xy)]
      <3> HIDE DEF all
      <3> QED BY <2>2, ConcatProperties
    <2> QED BY <2>1, <2>3
  <1>3. Counts(all, 0) BY DEF xy
  <1> HIDE DEF all
  <1>4. ASSUME NEW i \in 1 .. Len(y) PROVE y[i] = Len(x) + i
    <2> DEFINE j == Len(x) + i
    <2>1. /\ j \in 1 .. Len(x) + Len(y) /\ ~ (j <= Len(x)) /\ j - Len(x) = i
          /\ j \in 1 .. Len(xy) + Len(z) /\ j <= Len(xy) /\ j \in 1 .. Len(all) /\ 0 + j = j
      BY <1>1, <1>2
    <2> HIDE DEF j
    <2>2. all[j] = 0 + j BY <1>3, <2>1 DEF Counts
    <2>3. all[j] = xy[j] BY <1>2, <2>1
    <2>4. xy[j] = y[i] BY <1>1, <2>1
    <2> QED BY <2>1, <2>2, <2>3, <2>4 DEF j
  <1>5. y = [i \in 1 .. Len(y) |-> y[i]] BY LenProperties
  <1> QED BY <1>4, <1>5 DEF Counts

(* So the texts of a node that stand together start where the part does.   *)
LEMMA PartStarts ==
  ASSUME NEW d, WellFormed(d), NEW x \in Nodes, NEW a \in Seq(Nodes), NEW b \in Seq(Nodes),
         TextNodes(d, Body) = (a \o TextNodes(d, x)) \o b
  PROVE  Len(Join(d.chars, a)) \in Nat /\ StartsAt(d, x, Len(Join(d.chars, a)))
  <1> DEFINE C == d.chars
             t == TextNodes(d, x)
             s == TextNodes(d, Body)
             F == Len(Join(C, a))
  <1>1. t \in Seq(Nodes) BY TextsDiffer
  <1>2. Distinct(s) /\ s \in Seq(Nodes) BY TextsDiffer, NodesAssumption
  <1>3. Yields(C, Nodes, Nat)
    <2>1. d \in Document BY DEF WellFormed
    <2> QED BY <2>1, Typed DEF Yields
  <1>4. s = (a \o t) \o b OBVIOUS
  <1>5. Reads(d, x) = Join(C, t) /\ Reads(d, Body) = Join(C, s) BY DEF Reads, TextOf, Join, Map
  <1>6. \A i : Start(d, t[i]) = Sum(C, s, Position(s, t[i]) - 1) BY DEF Start
  <1> HIDE DEF t, s
  <1>7. ASSUME NEW i \in 1 .. Len(t) PROVE Offset(d, t, t[i], F, i)
    <2>1. Before(C, a, t, (a \o t) \o b, i)
      <3> HIDE DEF C
      <3> QED BY <1>1, <1>2, <1>3, <1>4, PartSums
    <2> QED BY <1>4, <1>6, <2>1 DEF Offset, Before
  <1>8. Join(C, a) \in Seq(Nat) /\ Join(C, t) \in Seq(Nat) /\ Join(C, b) \in Seq(Nat) BY <1>1, <1>3, JoinType
  <1>9. F \in Nat BY <1>8, LenProperties
  <1>10. ASSUME Numbered(d) PROVE Counts(Reads(d, x), F)
    <2>1. Same(Join(C, (a \o t) \o b), (Join(C, a) \o Join(C, t)) \o Join(C, b)) BY <1>1, <1>3, JoinThree
    <2>2. Counts((Join(C, a) \o Join(C, t)) \o Join(C, b), 0) BY <1>4, <1>5, <1>10, <2>1 DEF Same, Numbered
    <2> DEFINE u == Join(C, a)
               v == Join(C, t)
               w == Join(C, b)
    <2> HIDE DEF u, v, w
    <2>3. Counts(v, Len(u)) BY <1>8, <2>2, CountsPart DEF u, v, w
    <2> QED BY <1>5, <2>3 DEF u, v
  <1>11. \A i \in 1 .. Len(t) : Offset(d, t, t[i], F, i) BY <1>7
  <1> QED BY <1>9, <1>10, <1>11 DEF StartsAt, t, C

(* How much of the page is before a node.                                  *)
LEMMA NodeStarts ==
  ASSUME NEW d, WellFormed(d), NEW x \in Nodes, d.kind[x] # "free"
  PROVE  \E F \in Nat : StartsAt(d, x, F)
  <1>1. Body \in Nodes BY NodesAssumption
  <1>2. CASE x = Body
    <2> DEFINE t == TextNodes(d, Body)
               e == <<>>
    <2>1. t \in Seq(Nodes) BY <1>1, TextsDiffer
    <2>2. e \in Seq(Nodes) OBVIOUS
    <2>3. t = (e \o t) \o e
      <3> HIDE DEF t
      <3> QED BY <2>1, ConcatEmptySeq
    <2> HIDE DEF e
    <2>4. Len(Join(d.chars, e)) \in Nat /\ StartsAt(d, Body, Len(Join(d.chars, e)))
      BY <1>1, <2>2, <2>3, PartStarts
    <2> QED BY <1>2, <2>4
  <1>3. CASE x # Body
    <2>1. Body \in Over(d, x) BY <1>3, OverHolds
    <2>2. PICK a, b \in Seq(Nodes) : TextNodes(d, Body) = (a \o TextNodes(d, x)) \o b BY <2>1, TextsStandTogether DEF Part
    <2>3. Len(Join(d.chars, a)) \in Nat /\ StartsAt(d, x, Len(Join(d.chars, a))) BY <2>2, PartStarts
    <2> QED BY <2>3
  <1> QED BY <1>2, <1>3

(* What is put together of an element each is the sequence itself.         *)
LEMMA JoinId ==
  ASSUME NEW N, NEW s \in Seq(N), NEW g, \A x \in ToSet(s) : g[x] = <<x>>
  PROVE  Same(Join(g, s), s)
  <1> DEFINE pre(k) == SubSeq(s, 1, k)
             Eq(k) == Join(g, pre(k)) = pre(k)
             T == {k \in 0 .. Len(s) : ~ Eq(k)}
             G == [x \in ToSet(s) |-> <<x>>]
  <1>1. Len(s) \in Nat BY LenProperties
  <1>0. /\ ToSet(s) \subseteq N /\ ToSet(s) = {s[i] : i \in 1 .. Len(s)} /\ s \in Seq(ToSet(s))
    <2>1. ToSet(s) \subseteq N /\ ToSet(s) = {s[i] : i \in 1 .. Len(s)} BY ToSetIs
    <2>2. \A i \in 1 .. Len(s) : s[i] \in ToSet(s) BY <2>1
    <2>3. DOMAIN s = 1 .. Len(s) /\ s = [i \in 1 .. Len(s) |-> s[i]] BY LenProperties
    <2>4. s \in [1 .. Len(s) -> ToSet(s)] BY <2>2, <2>3
    <2> QED BY <1>1, <2>1, <2>4
  <1> DEFINE M == ToSet(s)
  <1>6. s \in Seq(M) /\ Yields(g, M, M)
    <2>1. \A x \in M : <<x>> \in Seq(M) OBVIOUS
    <2> QED BY <1>0, <2>1 DEF Yields
  <1>7. \A x \in M : g[x] = <<x>> OBVIOUS
  <1> HIDE DEF M
  <1>2. Eq(0)
    <2>1. pre(0) = <<>> BY SubSeqEmpty
    <2>2. Join(g, <<>>) = <<>> BY JoinEmpty
    <2> HIDE DEF pre
    <2> QED BY <2>1, <2>2
  <1>3. ASSUME T # {} PROVE FALSE
    <2>1. T \subseteq Nat BY <1>1, SMT
    <2>2. PICK k \in T : \A j \in T : k <= j BY <2>1, <1>3, Least
    <2>3. k # 0 BY <1>2
    <2>4. k \in 1 .. Len(s) /\ k - 1 \in 0 .. Len(s) /\ ~ (k <= k - 1) BY <1>1, <2>3
    <2>5. Eq(k - 1) BY <2>2, <2>4
    <2> DEFINE p == pre(k - 1)
               y == s[k]
               one == <<y>>
    <2>6. pre(k) = Append(p, y) /\ p \in Seq(M) /\ y \in M BY <1>6, <2>4, SubSeqStep
    <2>7. g[y] = one /\ one \in Seq(M)
      <3> HIDE DEF y
      <3> QED BY <1>7, <2>6
    <2>8. Append(p, y) = p \o one
      <3> HIDE DEF p, y
      <3> QED BY <2>6, AppendIsConcat
    <2>9. Same(Join(g, one), g[y])
      <3>1. g[y] \in Seq(M) BY <2>7
      <3> HIDE DEF y
      <3> QED BY <3>1, JoinOne
    <2>10. Same(Join(g, p \o one), Join(g, p) \o Join(g, one))
      <3> HIDE DEF p, one
      <3> QED BY <1>6, <2>6, <2>7, JoinConcat
    <2>11. Join(g, p) = p BY <2>5
    <2> HIDE DEF pre, p, one, y
    <2>12. Join(g, p \o one) = p \o one BY <2>7, <2>9, <2>10, <2>11 DEF Same
    <2>13. Eq(k) BY <2>6, <2>8, <2>12
    <2> QED BY <2>2, <2>13
  <1>4. Eq(Len(s)) BY <1>1, <1>3
  <1>5. pre(Len(s)) = s BY SubSeqFull
  <1> QED BY <1>4, <1>5 DEF Same

(* The two parts of a pair.                                                *)
LEMMA PartsOfTwo ==
  ASSUME NEW N, NEW a \in N, NEW b \in N
  PROVE  Same(SubSeq(<<a, b>>, 1, 1), <<a>>) /\ Same(SubSeq(<<a, b>>, 2, 2), <<b>>)
  <1> DEFINE s == <<a, b>>
             p == <<a>>
             q == <<b>>
  <1>1. s \in Seq(N) /\ Len(s) = 2 /\ s[1] = a /\ s[2] = b OBVIOUS
  <1>2. p \in Seq(N) /\ Len(p) = 1 /\ p[1] = a OBVIOUS
  <1>3. q \in Seq(N) /\ Len(q) = 1 /\ q[1] = b OBVIOUS
  <1> HIDE DEF s, p, q
  <1>4. \A i \in 1 .. 1 : s[i] \in N BY <1>1
  <1>5. \A i \in 2 .. 2 : s[i] \in N BY <1>1
  <1>6. /\ SubSeq(s, 1, 1) \in Seq(N) /\ Len(SubSeq(s, 1, 1)) = IF 1 <= 1 THEN 1 - 1 + 1 ELSE 0
        /\ \A i \in 1 .. 1 - 1 + 1 : SubSeq(s, 1, 1)[i] = s[1 + i - 1]
    BY <1>4, SubSeqProperties
  <1>7. /\ SubSeq(s, 2, 2) \in Seq(N) /\ Len(SubSeq(s, 2, 2)) = IF 2 <= 2 THEN 2 - 2 + 1 ELSE 0
        /\ \A i \in 1 .. 2 - 2 + 1 : SubSeq(s, 2, 2)[i] = s[2 + i - 1]
    BY <1>5, SubSeqProperties
  <1> DEFINE u == SubSeq(s, 1, 1)
             v == SubSeq(s, 2, 2)
  <1>8. u \in Seq(N) /\ Len(u) = 1 /\ u[1] = a BY <1>1, <1>6
  <1>9. v \in Seq(N) /\ Len(v) = 1 /\ v[1] = b BY <1>1, <1>7
  <1> HIDE DEF u, v
  <1>10. u = p
    <2>1. \A i \in 1 .. Len(u) : u[i] = p[i] BY <1>2, <1>8
    <2> QED BY <1>2, <1>8, <2>1, SeqEqual
  <1>11. v = q
    <2>1. \A i \in 1 .. Len(v) : v[i] = q[i] BY <1>3, <1>9
    <2> QED BY <1>3, <1>9, <2>1, SeqEqual
  <1> QED BY <1>10, <1>11 DEF Same, u, v, p, q, s

(* Texts do not depend on characters.                                      *)
LEMMA TextsOfShape ==
  ASSUME NEW d, NEW e, d.kind = e.kind, d.kids = e.kids, NEW x
  PROVE  TextNodes(d, x) = TextNodes(e, x)
  BY DEF TextNodes

(* What a text becomes of that is split.                                   *)
Halves(d, n) == [t \in Nodes |-> IF t = n THEN <<n, Fresh(d)>> ELSE <<t>>]

(* The texts of an element after a split: for the text its two halves.     *)
LEMMA HalvesAre ==
  ASSUME NEW d, WellFormed(d), NEW n \in Texts(d), NEW k \in 0 .. Length(d, n), Free(d) # {}, NEW x \in Elements(d)
  PROVE  Same(TextNodes(Split(d, n, k), x), Join(Halves(d, n), TextNodes(d, x)))
  <1> DEFINE m == Fresh(d)
             e == Split(d, n, k)
             C == Halves(d, n)
             d2 == [d EXCEPT !.chars = C]
             e2 == Split(d2, n, 1)
  <1>1. d = [kind |-> d.kind, tag |-> d.tag, up |-> d.up, kids |-> d.kids, chars |-> d.chars]
        /\ d.kind \in [Nodes -> {"element", "highlight", "text", "free"}] /\ d.tag \in [Nodes -> {"div", "p", "span"}]
        /\ d.up \in [Nodes -> Nodes \cup {None}] /\ d.kids \in [Nodes -> Seq(Nodes)]
    <2>1. d \in Document BY DEF WellFormed
    <2> QED BY <2>1, Typed
  <1>2. m \in Nodes /\ n \in Nodes /\ m # n
    <2>1. m \in Free(d) BY FreshIsFree
    <2> HIDE DEF m
    <2> QED BY <2>1 DEF Free, Texts
  <1>3. C \in [Nodes -> Seq(Nat)] /\ C[n] = <<n, m>>
    <2> DEFINE c(t) == IF t = n THEN <<n, m>> ELSE <<t>>
    <2>1. \A t \in Nodes : t \in Nat BY NodesAssumption
    <2>2. ASSUME NEW t \in Nodes PROVE c(t) \in Seq(Nat) BY <1>2, <2>1
    <2>3. C = [t \in Nodes |-> c(t)] BY DEF Halves
    <2>4. c(n) = <<n, m>> OBVIOUS
    <2> HIDE DEF c, m
    <2> QED BY <1>2, <2>2, <2>3, <2>4
  <1> HIDE DEF C
  <1>4. /\ d2.kind = d.kind /\ d2.tag = d.tag /\ d2.up = d.up /\ d2.kids = d.kids /\ d2.chars = C
        /\ d2 = [kind |-> d.kind, tag |-> d.tag, up |-> d.up, kids |-> d.kids, chars |-> C]
    BY <1>1
  <1> HIDE DEF d2
  <1>5. WellFormed(d2)
    <2>1. d2 \in Document BY <1>1, <1>3, <1>4 DEF Document
    <2> QED BY <1>4, <2>1 DEF WellFormed
  <1>6. Free(d2) = Free(d) /\ Texts(d2) = Texts(d) /\ Elements(d2) = Elements(d) /\ Fresh(d2) = m
    BY <1>4 DEF Free, Texts, Elements, Fresh
  <1>7. Length(d2, n) = 2
    <2>1. Len(<<n, m>>) = 2 OBVIOUS
    <2> QED BY <1>3, <1>4, <2>1 DEF Length
  <1>8. WellFormed(e2) /\ Unchanged(d2, e2, Elements(d2)) /\ SplitInto(d2, e2, n, 1)
    <2>1. 1 \in 0 .. Length(d2, n) BY <1>7
    <2> QED BY <1>5, <1>6, <2>1, SplitKeeps
  <1>9. WellFormed(e) /\ SplitInto(d, e, n, k) BY SplitKeeps
  <1> HIDE DEF e, e2
  <1>10. e.kind = e2.kind /\ e.kids = e2.kids
    <2>1. \A y \in Nodes : e.kind[y] = e2.kind[y] BY <1>4, <1>6, <1>8, <1>9 DEF SplitInto
    <2>2. \A y \in Nodes : e.kids[y] = e2.kids[y] BY <1>4, <1>6, <1>8, <1>9 DEF SplitInto
    <2>3. e.kind = [y \in Nodes |-> e.kind[y]] /\ e.kids = [y \in Nodes |-> e.kids[y]] BY <1>9, Typed DEF WellFormed
    <2>4. e2.kind = [y \in Nodes |-> e2.kind[y]] /\ e2.kids = [y \in Nodes |-> e2.kids[y]] BY <1>8, Typed DEF WellFormed
    <2> QED BY <2>1, <2>2, <2>3, <2>4
  <1>11. TextNodes(e, x) = TextNodes(e2, x) /\ TextNodes(d, x) = TextNodes(d2, x) BY <1>4, <1>10, TextsOfShape
  <1>12. Same(Reads(e2, x), Reads(d2, x)) BY <1>6, <1>8 DEF Unchanged
  <1>13. Reads(e2, x) = Join(e2.chars, TextNodes(e2, x)) /\ Reads(d2, x) = Join(C, TextNodes(d2, x))
    BY <1>4 DEF Reads, TextOf, Join, Map
  <1>14. ASSUME NEW t \in Nodes PROVE e2.chars[t] = <<t>>
    <2>1. CASE t = n
      <3>1. e2.chars[t] = SubSeq(C[n], 1, 1) BY <1>2, <1>4, <1>8, <2>1 DEF SplitInto
      <3>2. SubSeq(<<n, m>>, 1, 1) = <<n>>
        <4> HIDE DEF m
        <4> QED BY <1>2, PartsOfTwo DEF Same
      <3> QED BY <1>3, <2>1, <3>1, <3>2
    <2>2. CASE t = m
      <3>1. e2.chars[t] = SubSeq(C[n], 2, 2)
        <4>1. e2.chars[t] = SubSeq(C[n], 1 + 1, Length(d2, n)) BY <1>2, <1>4, <1>6, <1>8, <2>2 DEF SplitInto
        <4> QED BY <1>7, <4>1
      <3>2. SubSeq(<<n, m>>, 2, 2) = <<m>>
        <4> HIDE DEF m
        <4> QED BY <1>2, PartsOfTwo DEF Same
      <3> QED BY <1>3, <2>2, <3>1, <3>2
    <2>3. CASE t # n /\ t # m
      <3>1. e2.chars[t] = C[t] BY <1>4, <1>6, <1>8, <2>3 DEF SplitInto
      <3> QED BY <2>3, <3>1 DEF C, Halves
    <2> QED BY <2>1, <2>2, <2>3
  <1>15. x \in Nodes BY DEF Elements
  <1>16. TextNodes(e2, x) \in Seq(Nodes) BY <1>8, <1>15, TextsDiffer
  <1> DEFINE s == TextNodes(e2, x)
  <1>17. s \in Seq(Nodes) BY <1>16
  <1> HIDE DEF s
  <1>18. Same(Join(e2.chars, s), s)
    <2>1. ToSet(s) \subseteq Nodes BY <1>17, ToSetIs
    <2>2. \A t \in ToSet(s) : e2.chars[t] = <<t>> BY <1>14, <2>1
    <2> DEFINE g == e2.chars
    <2>3. \A t \in ToSet(s) : g[t] = <<t>> BY <2>2
    <2> HIDE DEF g
    <2>4. Same(Join(g, s), s) BY <1>17, <2>3, JoinId
    <2> QED BY <2>4 DEF g
  <1> QED BY <1>11, <1>12, <1>13, <1>18 DEF Same, s, C, e

(* How much of s is ahead of x.                                            *)
Ahead(f, s, x) == Sum(f, s, Position(s, x) - 1)

(* y is x and z more.                                                      *)
More(y, x, z) == x \in Nat /\ z \in Nat /\ y = x + z

(* What is ahead of an element of a part,                                  *)
LEMMA AheadOf ==
  ASSUME NEW N, NEW M, NEW a \in Seq(N), NEW t \in Seq(N), NEW b \in Seq(N), Distinct((a \o t) \o b),
         NEW f, Yields(f, N, M), NEW i \in 1 .. Len(t)
  PROVE  More(Ahead(f, (a \o t) \o b, t[i]), Len(Join(f, a)), Sum(f, t, i - 1))
  <1>1. Before(f, a, t, (a \o t) \o b, i) BY PartSums
  <1> QED BY <1>1 DEF Before, More, Ahead

(* of the very first (nothing),                                            *)
LEMMA SumNone ==
  ASSUME NEW f, NEW s
  PROVE  Sum(f, s, 0) = 0 /\ Len(Join(f, <<>>)) = 0
  <1>1. SubSeq(s, 1, 0) = <<>> BY SubSeqEmpty
  <1>2. Join(f, <<>>) = <<>> BY JoinEmpty
  <1>3. Len(<<>>) = 0 OBVIOUS
  <1> QED BY <1>1, <1>2, <1>3 DEF Sum

(* of one in the first part of two,                                        *)
LEMMA AheadInFirst ==
  ASSUME NEW N, NEW M, NEW a \in Seq(N), NEW b \in Seq(N), Distinct(a \o b), NEW f, Yields(f, N, M), NEW i \in 1 .. Len(a)
  PROVE  Ahead(f, a \o b, a[i]) = Sum(f, a, i - 1) /\ Sum(f, a, i - 1) \in Nat
  <1> DEFINE e == <<>>
  <1>1. e \in Seq(N) /\ e \o a = a
    <2>1. e \in Seq(N) OBVIOUS
    <2> QED BY <2>1, ConcatEmptySeq
  <1>2. Len(Join(f, e)) = 0 BY SumNone
  <1> HIDE DEF e
  <1>3. More(Ahead(f, (e \o a) \o b, a[i]), Len(Join(f, e)), Sum(f, a, i - 1))
    <2>1. Distinct((e \o a) \o b) BY <1>1
    <2> QED BY <1>1, <2>1, AheadOf
  <1>4. More(Ahead(f, a \o b, a[i]), 0, Sum(f, a, i - 1)) BY <1>1, <1>2, <1>3
  <1> QED BY <1>4 DEF More

(* and of one in the last.                                                 *)
LEMMA AheadInLast ==
  ASSUME NEW N, NEW M, NEW a \in Seq(N), NEW b \in Seq(N), Distinct(a \o b), NEW f, Yields(f, N, M), NEW i \in 1 .. Len(b)
  PROVE  More(Ahead(f, a \o b, b[i]), Len(Join(f, a)), Sum(f, b, i - 1))
  <1> DEFINE e == <<>>
             ab == a \o b
  <1>1. e \in Seq(N) /\ ab \in Seq(N)
    <2>1. e \in Seq(N) OBVIOUS
    <2> QED BY <2>1, ConcatProperties
  <1>2. ab \o e = ab
    <2> HIDE DEF ab
    <2> QED BY <1>1, ConcatEmptySeq
  <1> HIDE DEF e
  <1>3. More(Ahead(f, (a \o b) \o e, b[i]), Len(Join(f, a)), Sum(f, b, i - 1))
    <2>1. Distinct((a \o b) \o e) BY <1>2
    <2> QED BY <1>1, <2>1, AheadOf
  <1> QED BY <1>2, <1>3

(* Counts depend on what the elements yield only.                          *)
LEMMA SumSame ==
  ASSUME NEW N, NEW s \in Seq(N), NEW f, NEW g, \A x \in ToSet(s) : f[x] = g[x], NEW k \in 0 .. Len(s)
  PROVE  Sum(f, s, k) = Sum(g, s, k) /\ Join(f, s) = Join(g, s)
  <1>1. Len(s) \in Nat /\ \A i \in 1 .. Len(s) : s[i] \in N /\ s[i] \in ToSet(s) /\ DOMAIN s = 1 .. Len(s)
    BY LenProperties, ElementOfSeq, ToSetIs
  <1> DEFINE p == SubSeq(s, 1, k)
  <1>2. /\ p \in Seq(N) /\ Len(p) = k /\ \A i \in 1 .. k : p[i] = s[i]
    <2>1. \A i \in 1 .. k : s[i] \in N BY <1>1
    <2> QED BY <1>1, <2>1, SubSeqProperties
  <1> HIDE DEF p
  <1>3. \A i \in DOMAIN p : f[p[i]] = g[p[i]]
    <2>1. DOMAIN p = 1 .. k BY <1>2, LenProperties
    <2>2. \A i \in 1 .. k : i \in 1 .. Len(s) BY <1>1
    <2> QED BY <1>1, <1>2, <2>1, <2>2
  <1>4. Join(f, p) = Join(g, p) BY <1>3, JoinSame
  <1>5. \A i \in DOMAIN s : f[s[i]] = g[s[i]]
    <2>1. DOMAIN s = 1 .. Len(s) BY LenProperties
    <2> QED BY <1>1, <2>1
  <1>6. Join(f, s) = Join(g, s) BY <1>5, JoinSame
  <1> QED BY <1>4, <1>6 DEF Sum, p

(* t has n and m where s has n.                                            *)
SplitThere(s, t, n, m, pre, suf) ==
  /\ s = (pre \o <<n>>) \o suf /\ t = (pre \o <<n, m>>) \o suf
  /\ n \notin ToSet(pre) /\ n \notin ToSet(suf)

(* The texts of an element when one has been split.                        *)
LEMMA SplitTexts ==
  ASSUME NEW d, WellFormed(d), NEW n \in Texts(d), NEW k \in 0 .. Length(d, n), Free(d) # {}, NEW x \in Elements(d)
  PROVE  /\ n \in ToSet(TextNodes(d, x)) =>
              \E pre, suf \in Seq(Nodes) : SplitThere(TextNodes(d, x), TextNodes(Split(d, n, k), x), n, Fresh(d), pre, suf)
         /\ n \notin ToSet(TextNodes(d, x)) => TextNodes(Split(d, n, k), x) = TextNodes(d, x)
  <1> DEFINE e == Split(d, n, k)
             m == Fresh(d)
             H == Halves(d, n)
             s == TextNodes(d, x)
             t == TextNodes(e, x)
             one == <<n>>
             two == <<n, m>>
  <1>1. Same(t, Join(H, s)) BY HalvesAre
  <1>2. x \in Nodes BY DEF Elements
  <1>3. s \in Seq(Nodes) /\ Distinct(s) BY <1>2, TextsDiffer
  <1>4. m \in Nodes /\ n \in Nodes /\ m # n
    <2>1. m \in Free(d) BY FreshIsFree
    <2> HIDE DEF m
    <2> QED BY <2>1 DEF Free, Texts
  <1>5. \A y \in Nodes : H[y] = IF y = n THEN two ELSE <<y>> BY DEF Halves
  <1> HIDE DEF m, H, s, t
  <1>6. one \in Seq(Nodes) /\ two \in Seq(Nodes) /\ ToSet(one) = {n}
    <2>1. one \in Seq(Nodes) /\ two \in Seq(Nodes) BY <1>4
    <2> QED BY <2>1, OnesAndTwos
  <1>7. Yields(H, Nodes, Nodes)
    <2>1. \A y \in Nodes : <<y>> \in Seq(Nodes) OBVIOUS
    <2> QED BY <2>1, <1>5, <1>6 DEF Yields
  <1>8. ASSUME NEW r \in Seq(Nodes), n \notin ToSet(r) PROVE Same(Join(H, r), r)
    <2>1. \A y \in ToSet(r) : H[y] = <<y>> BY <1>5, <1>8, ToSetIs
    <2> QED BY <2>1, JoinId
  <1>9. CASE n \notin ToSet(s) BY <1>1, <1>3, <1>8, <1>9 DEF Same, s, t
  <1>10. CASE n \in ToSet(s)
    <2>1. PICK pre, suf \in Seq(Nodes) : Stands(s, n, pre, suf) BY <1>3, <1>10, Around
    <2>2. s = (pre \o one) \o suf BY <2>1 DEF Stands
    <2>3. H[n] = two BY <1>4, <1>5
    <2> HIDE DEF one, two
    <2>4. n \notin ToSet(pre) /\ n \notin ToSet(suf)
      <3>1. Distinct((pre \o one) \o suf) BY <1>3, <2>2
      <3>2. ToSet(pre) \cap ToSet(one) = {} /\ ToSet(one) \cap ToSet(suf) = {} BY <1>6, <3>1, ThreeParts
      <3> QED BY <1>6, <3>2
    <2>5. Same(Join(H, (pre \o one) \o suf), (Join(H, pre) \o Join(H, one)) \o Join(H, suf)) BY <1>6, <1>7, JoinThree
    <2>6. Same(Join(H, one), H[n])
      <3>1. H[n] \in Seq(Nodes) BY <1>4, <1>7 DEF Yields
      <3> QED BY <3>1, JoinOne DEF one
    <2>7. Same(Join(H, pre), pre) /\ Same(Join(H, suf), suf) BY <1>8, <2>4
    <2>8. t = (pre \o two) \o suf BY <1>1, <2>2, <2>3, <2>5, <2>6, <2>7 DEF Same
    <2>9. SplitThere(s, t, n, m, pre, suf) BY <2>2, <2>4, <2>8 DEF SplitThere, one, two
    <2> QED BY <2>9, <1>10 DEF s, t, m
  <1> QED BY <1>9, <1>10

(* How much is before a text is how much is ahead of it.                   *)
LEMMA StartIs ==
  ASSUME NEW d, NEW t
  PROVE  Start(d, t) = Ahead(d.chars, TextNodes(d, Body), t)
  BY DEF Start, Ahead

(* What two elements yield.                                                *)
LEMMA JoinTwo ==
  ASSUME NEW N, NEW M, NEW f, Yields(f, N, M), NEW x \in N, NEW y \in N
  PROVE  Same(Join(f, <<x, y>>), f[x] \o f[y])
  <1> DEFINE a == <<x>>
             b == <<y>>
  <1>1. a \in Seq(N) /\ b \in Seq(N) /\ <<x, y>> = a \o b
    <2>1. a \in Seq(N) /\ b \in Seq(N) OBVIOUS
    <2>2. <<x, y>> = Append(a, y) OBVIOUS
    <2>3. Append(a, y) = a \o b
      <3> HIDE DEF a
      <3> QED BY <2>1, AppendIsConcat
    <2> QED BY <2>1, <2>2, <2>3
  <1>2. Same(Join(f, a), f[x]) /\ Same(Join(f, b), f[y])
    <2>1. f[x] \in Seq(M) /\ f[y] \in Seq(M) BY DEF Yields
    <2> QED BY <2>1, JoinOne
  <1> HIDE DEF a, b
  <1>3. Same(Join(f, a \o b), Join(f, a) \o Join(f, b)) BY <1>1, JoinConcat
  <1> QED BY <1>1, <1>2, <1>3 DEF Same

(* The halves of a text.                                                   *)
LEMMA HalfLengths ==
  ASSUME NEW d, WellFormed(d), NEW n \in Texts(d), NEW k \in 0 .. Length(d, n), Free(d) # {}
  PROVE  /\ \A t \in Texts(d) \ {n} : Split(d, n, k).chars[t] = d.chars[t]
         /\ Same(Split(d, n, k).chars[n] \o Split(d, n, k).chars[Fresh(d)], d.chars[n])
         /\ Length(Split(d, n, k), n) = k /\ Length(Split(d, n, k), Fresh(d)) = Length(d, n) - k
         /\ Texts(Split(d, n, k)) = Texts(d) \cup {Fresh(d)} /\ Fresh(d) \in Nodes \ Texts(d)
  <1> DEFINE e == Split(d, n, k)
             m == Fresh(d)
             c == d.chars[n]
  <1>1. SplitInto(d, e, n, k) BY SplitKeeps
  <1>2. n \in Nodes /\ c \in Seq(Nat) BY TextNode
  <1> HIDE DEF e, m
  <1>3. /\ m \in Nodes /\ m # n /\ d.kind[m] = "free"
        /\ e.chars[n] = SubSeq(c, 1, k) /\ e.chars[m] = SubSeq(c, k + 1, Len(c))
        /\ \A x \in Nodes \ {n, m} : e.chars[x] = d.chars[x]
        /\ \A x \in Nodes : e.kind[x] = IF x = m THEN "text" ELSE d.kind[x]
    BY <1>1, <1>2 DEF SplitInto, m, Length
  <1>4. k \in 0 .. Len(c) /\ Length(d, n) = Len(c) BY DEF Length
  <1> HIDE DEF c
  <1>5. Len(c) \in Nat BY <1>2, LenProperties
  <1>6. Len(c) \in k .. Len(c) BY <1>4, <1>5
  <1>7. SubSeq(c, 1, Len(c)) = c BY <1>2, SubSeqFull
  <1> DEFINE l == Len(c)
  <1>8. l \in Nat /\ k \in 0 .. l /\ l \in k .. l /\ SubSeq(c, 1, l) = c BY <1>4, <1>5, <1>6, <1>7
  <1>9. k \in 0 .. Len(c) /\ l \in k .. Len(c) BY <1>4, <1>5
  <1>14. \A i \in 1 .. Len(c) : c[i] \in Nat BY <1>2, ElementOfSeq
  <1> HIDE DEF l
  <1>10. Same(SubSeq(c, 1, l), SubSeq(c, 1, k) \o SubSeq(c, k + 1, l)) BY <1>2, <1>9, Cut
  <1>11. Len(SubSeq(c, 1, k)) = k
    <2>1. \A i \in 1 .. k : c[i] \in Nat BY <1>5, <1>9, <1>14
    <2>2. Len(SubSeq(c, 1, k)) = IF 1 <= k THEN k - 1 + 1 ELSE 0 BY <1>8, <2>1, SubSeqProperties
    <2> QED BY <1>8, <2>2
  <1>12. Len(SubSeq(c, k + 1, l)) = l - k
    <2>1. \A i \in k + 1 .. l : c[i] \in Nat BY <1>5, <1>8, <1>9, <1>14
    <2>2. Len(SubSeq(c, k + 1, l)) = IF k + 1 <= l THEN l - (k + 1) + 1 ELSE 0 BY <1>8, <2>1, SubSeqProperties
    <2> QED BY <1>8, <2>2
  <1>13. \A x \in Nodes : e.kind[x] = "text" <=> d.kind[x] = "text" \/ x = m BY <1>3
  <1>15. Texts(e) = Texts(d) \cup {m} /\ m \in Nodes \ Texts(d) BY <1>3, <1>13 DEF Texts
  <1>16. \A t \in Texts(d) \ {n} : e.chars[t] = d.chars[t] BY <1>3, <1>15 DEF Texts
  <1>17. Same(e.chars[n] \o e.chars[m], c) BY <1>3, <1>8, <1>10 DEF Same, l
  <1>18. Length(e, n) = k /\ Length(e, m) = Length(d, n) - k BY <1>3, <1>4, <1>11, <1>12 DEF Length, l
  <1> QED BY <1>15, <1>16, <1>17, <1>18 DEF e, m, c

(* A text is where the first part of it was, and what was behind is behind *)
(* both parts.                                                             *)
LEMMA SplitStarts ==
  ASSUME NEW d, WellFormed(d), NEW n \in Texts(d), NEW k \in 0 .. Length(d, n), Free(d) # {}
  PROVE  /\ \A t \in Texts(d) : Start(Split(d, n, k), t) = Start(d, t)
         /\ More(Start(Split(d, n, k), Fresh(d)), Start(d, n), k)
  <1> DEFINE e == Split(d, n, k)
             m == Fresh(d)
             C == d.chars
             D == e.chars
             s == TextNodes(d, Body)
             t == TextNodes(e, Body)
             one == <<n>>
             two == <<n, m>>
  <1>1. WellFormed(e) BY SplitKeeps
  <1>2. /\ \A y \in Texts(d) \ {n} : D[y] = C[y]
        /\ Same(D[n] \o D[m], C[n]) /\ Length(e, n) = k /\ Texts(e) = Texts(d) \cup {m} /\ m \in Nodes \ Texts(d)
    BY HalfLengths
  <1>3. Body \in Elements(d) /\ Body \in Nodes /\ Body \notin Texts(d) BY NodesAssumption DEF Elements, WellFormed, Texts
  <1>4. \A y \in Texts(d) : y \in ToSet(s)
    <2>1. ASSUME NEW y \in Texts(d) PROVE y \in ToSet(s)
      <3>1. y \in Nodes /\ y # Body /\ d.kind[y] # "free" BY <1>3 DEF Texts
      <3>2. Body \in Over(d, y) BY <3>1, OverHolds
      <3> QED BY <3>2, TextIsBelow
    <2> QED BY <2>1
  <1>5. PICK pre, suf \in Seq(Nodes) : SplitThere(s, t, n, m, pre, suf)
    <2>1. n \in ToSet(s) => \E pre, suf \in Seq(Nodes) : SplitThere(s, t, n, m, pre, suf) BY <1>3, SplitTexts
    <2> HIDE DEF s, t, m
    <2> QED BY <1>4, <2>1
  <1>6. s \in Seq(Texts(d)) /\ s \in Seq(Nodes) /\ Distinct(s) BY <1>3, TextsBelow, TextsDiffer
  <1>7. t \in Seq(Nodes) /\ Distinct(t) BY <1>1, <1>3, TextsDiffer
  <1>8. s = (pre \o one) \o suf /\ t = (pre \o two) \o suf /\ n \notin ToSet(pre) /\ n \notin ToSet(suf) BY <1>5 DEF SplitThere
  <1>9. Yields(C, Nodes, Nat) /\ Yields(D, Nodes, Nat)
    <2>1. d \in Document /\ e \in Document BY <1>1 DEF WellFormed
    <2> QED BY <2>1, Typed DEF Yields
  <1>10. \A y : Start(d, y) = Ahead(C, s, y) /\ Start(e, y) = Ahead(D, t, y) BY StartIs
  <1>11. n \in Nodes BY DEF Texts
  <1>12. Length(e, n) = Len(D[n]) BY DEF Length
  <1>13. ToSet(s) \subseteq Texts(d) BY <1>6, ToSetIs
  <1> HIDE DEF e, m, C, D, s, t
  <1>14. one \in Seq(Nodes) /\ two \in Seq(Nodes) BY <1>2, <1>11
  <1>15. ToSet(one) = {n} /\ Len(one) = 1 /\ one[1] = n /\ Len(two) = 2 /\ two[1] = n /\ two[2] = m /\ two \in Seq(Nodes)
    <2>1. ToSet(one) = {n} BY OnesAndTwos
    <2> QED BY <2>1, <1>14
  <1>16. Same(Join(C, one), C[n]) /\ Same(Join(D, two), D[n] \o D[m]) /\ SubSeq(two, 1, 1) = one
    <2>1. C[n] \in Seq(Nat) BY <1>9, <1>11 DEF Yields
    <2>2. Same(Join(C, one), C[n]) BY <2>1, JoinOne
    <2>3. m \in Nodes BY <1>2
    <2>4. Same(Join(D, two), D[n] \o D[m]) BY <1>9, <1>11, <2>3, JoinTwo
    <2>5. SubSeq(two, 1, 1) = one BY <1>11, <2>3, PartsOfTwo DEF Same
    <2> QED BY <2>2, <2>4, <2>5
  <1>17. Same(Join(D, one), D[n])
    <2>1. D[n] \in Seq(Nat) BY <1>9, <1>11 DEF Yields
    <2> QED BY <2>1, JoinOne
  <1> HIDE DEF one, two
  <1>18. ToSet(pre) \subseteq ToSet(s) /\ ToSet(suf) \subseteq ToSet(s) /\ ToSet(s) = (ToSet(pre) \cup {n}) \cup ToSet(suf)
    <2>1. ToSet((pre \o one) \o suf) = (ToSet(pre) \cup ToSet(one)) \cup ToSet(suf) BY <1>14, ThreeParts
    <2> QED BY <2>1, <1>8, <1>15
  <1>19. \A y \in ToSet(pre) \cup ToSet(suf) : C[y] = D[y] BY <1>2, <1>8, <1>13, <1>18
  <1>20. Len(pre) \in Nat /\ Len(suf) \in Nat BY LenProperties
  <1>21. \A i \in 0 .. Len(pre) : Sum(C, pre, i) = Sum(D, pre, i) /\ Join(C, pre) = Join(D, pre) BY <1>19, SumSame
  <1>22. \A i \in 0 .. Len(suf) : Sum(C, suf, i) = Sum(D, suf, i) BY <1>19, SumSame
  <1>23. Join(C, pre) = Join(D, pre)
    <2>1. 0 \in 0 .. Len(pre) BY <1>20
    <2> QED BY <2>1, <1>21
  <1>24. Join(C, pre \o one) = Join(D, pre \o two)
    <2>1. Same(Join(C, pre \o one), Join(C, pre) \o Join(C, one)) BY <1>9, <1>14, JoinConcat
    <2>2. Same(Join(D, pre \o two), Join(D, pre) \o Join(D, two)) BY <1>9, <1>14, JoinConcat
    <2> QED BY <1>2, <1>16, <1>23, <2>1, <2>2 DEF Same
  <1> DEFINE po == pre \o one
             pt == pre \o two
             os == one \o suf
             ts == two \o suf
  <1>25. po \in Seq(Nodes) /\ pt \in Seq(Nodes) /\ os \in Seq(Nodes) /\ ts \in Seq(Nodes) BY <1>14, ConcatProperties
  <1>26. s = pre \o os /\ t = pre \o ts
    <2>1. Same((pre \o one) \o suf, pre \o (one \o suf)) BY <1>14, Associate
    <2>2. Same((pre \o two) \o suf, pre \o (two \o suf)) BY <1>14, Associate
    <2> QED BY <1>8, <2>1, <2>2 DEF Same
  <1>27. s = po \o suf /\ t = pt \o suf BY <1>8
  <1>28. ASSUME NEW i \in 1 .. Len(pre) PROVE Ahead(D, t, pre[i]) = Ahead(C, s, pre[i])
    <2> HIDE DEF os, ts
    <2>1. Ahead(C, pre \o os, pre[i]) = Sum(C, pre, i - 1)
      <3>1. Distinct(pre \o os) BY <1>6, <1>26
      <3> QED BY <1>9, <1>25, <3>1, AheadInFirst
    <2>2. Ahead(D, pre \o ts, pre[i]) = Sum(D, pre, i - 1)
      <3>1. Distinct(pre \o ts) BY <1>7, <1>26
      <3> QED BY <1>9, <1>25, <3>1, AheadInFirst
    <2>3. i - 1 \in 0 .. Len(pre) BY <1>20
    <2> QED BY <1>21, <1>26, <2>1, <2>2, <2>3
  <1>29. ASSUME NEW i \in 1 .. Len(suf) PROVE Ahead(D, t, suf[i]) = Ahead(C, s, suf[i])
    <2> HIDE DEF po, pt
    <2>1. More(Ahead(C, po \o suf, suf[i]), Len(Join(C, po)), Sum(C, suf, i - 1))
      <3>1. Distinct(po \o suf) BY <1>6, <1>27
      <3> QED BY <1>9, <1>25, <3>1, AheadInLast
    <2>2. More(Ahead(D, pt \o suf, suf[i]), Len(Join(D, pt)), Sum(D, suf, i - 1))
      <3>1. Distinct(pt \o suf) BY <1>7, <1>27
      <3> QED BY <1>9, <1>25, <3>1, AheadInLast
    <2>3. i - 1 \in 0 .. Len(suf) BY <1>20
    <2>4. Join(C, po) = Join(D, pt) BY <1>24 DEF po, pt
    <2> QED BY <1>22, <1>27, <2>1, <2>2, <2>3, <2>4 DEF More
  <1>30. More(Ahead(C, s, n), Len(Join(C, pre)), 0)
    <2>1. Distinct((pre \o one) \o suf) BY <1>6, <1>8
    <2>2. 1 \in 1 .. Len(one) BY <1>15
    <2>3. More(Ahead(C, (pre \o one) \o suf, one[1]), Len(Join(C, pre)), Sum(C, one, 1 - 1)) BY <1>9, <1>14, <2>1, <2>2, AheadOf
    <2>4. Sum(C, one, 0) = 0 BY SumNone
    <2> QED BY <1>8, <1>15, <2>3, <2>4
  <1>31. Distinct((pre \o two) \o suf) BY <1>7, <1>8
  <1>32. More(Ahead(D, t, n), Len(Join(D, pre)), 0)
    <2>2. 1 \in 1 .. Len(two) BY <1>15
    <2>3. More(Ahead(D, (pre \o two) \o suf, two[1]), Len(Join(D, pre)), Sum(D, two, 1 - 1)) BY <1>9, <1>14, <1>31, <2>2, AheadOf
    <2>4. Sum(D, two, 0) = 0 BY SumNone
    <2> QED BY <1>8, <1>15, <2>3, <2>4
  <1>33. More(Ahead(D, t, m), Len(Join(D, pre)), k)
    <2>2. 2 \in 1 .. Len(two) BY <1>15
    <2>3. More(Ahead(D, (pre \o two) \o suf, two[2]), Len(Join(D, pre)), Sum(D, two, 2 - 1)) BY <1>9, <1>14, <1>31, <2>2, AheadOf
    <2>4. Sum(D, two, 1) = k BY <1>2, <1>12, <1>16, <1>17 DEF Sum, Same
    <2> QED BY <1>8, <1>15, <2>3, <2>4
  <1>34. Ahead(D, t, n) = Ahead(C, s, n) BY <1>23, <1>30, <1>32 DEF More
  <1>35. More(Ahead(D, t, m), Ahead(C, s, n), k) BY <1>23, <1>30, <1>33 DEF More
  <1>36. ASSUME NEW y \in Texts(d) PROVE Ahead(D, t, y) = Ahead(C, s, y)
    <2>1. y \in (ToSet(pre) \cup {n}) \cup ToSet(suf) BY <1>4, <1>18
    <2>2. ToSet(pre) = {pre[i] : i \in 1 .. Len(pre)} /\ ToSet(suf) = {suf[i] : i \in 1 .. Len(suf)} BY ToSetIs
    <2> QED BY <1>28, <1>29, <1>34, <2>1, <2>2
  <1> QED BY <1>10, <1>35, <1>36 DEF e, m

(* The place of a text of a node in the page and of its characters.        *)
LEMMA TextPlaces ==
  ASSUME NEW d, WellFormed(d), NEW x \in Nodes, d.kind[x] # "free", NEW F \in Nat, StartsAt(d, x, F),
         NEW i \in 1 .. Len(TextNodes(d, x))
  PROVE  /\ Start(d, TextNodes(d, x)[i]) = F + Sum(d.chars, TextNodes(d, x), i - 1)
         /\ Start(d, TextNodes(d, x)[i]) + Length(d, TextNodes(d, x)[i]) = F + Sum(d.chars, TextNodes(d, x), i)
         /\ Sum(d.chars, TextNodes(d, x), i - 1) \in Nat /\ Sum(d.chars, TextNodes(d, x), i) \in Nat
         /\ Length(d, TextNodes(d, x)[i]) \in Nat
  <1> DEFINE T == TextNodes(d, x)
             C == d.chars
             t == T[i]
             one == <<t>>
  <1>1. T \in Seq(Nodes) BY TextsDiffer
  <1>2. Yields(C, Nodes, Nat)
    <2>1. d \in Document BY DEF WellFormed
    <2> QED BY <2>1, Typed DEF Yields
  <1>3. Offset(d, T, t, F, i) BY DEF StartsAt
  <1>4. Length(d, t) = Len(C[t]) BY DEF Length
  <1>0. i \in 1 .. Len(T) OBVIOUS
  <1> HIDE DEF T, C
  <1>5. Len(T) \in Nat BY <1>1, LenProperties
  <1>6. i - 1 \in 0 .. Len(T) /\ i \in i - 1 .. Len(T) /\ i \in 0 .. Len(T) BY <1>0, <1>5
  <1> DEFINE j == i - 1
  <1>7. j + 1 = i BY <1>5
  <1>8. j \in 0 .. Len(T) /\ i \in j .. Len(T) BY <1>6
  <1> HIDE DEF j
  <1>9. Adds(C, T, j, i) BY <1>1, <1>2, <1>8, SumCut
  <1>10. SubSeq(T, i, i) = one /\ t \in Nodes
    <2>1. t \in Nodes BY <1>0, <1>1, ElementOfSeq
    <2>2. \A l \in i .. i : T[l] \in Nodes BY <1>1, <2>1
    <2>3. /\ SubSeq(T, i, i) \in Seq(Nodes) /\ Len(SubSeq(T, i, i)) = IF i <= i THEN i - i + 1 ELSE 0
          /\ \A l \in 1 .. (i - i + 1) : SubSeq(T, i, i)[l] = T[i + l - 1]
      BY <1>5, <2>2, SubSeqProperties
    <2> DEFINE q == SubSeq(T, i, i)
    <2>4. q \in Seq(Nodes) /\ Len(q) = 1 /\ q[1] = t
      <3> HIDE DEF t
      <3>1. Len(q) = 1 BY <1>5, <2>3
      <3>2. 1 \in 1 .. (i - i + 1) /\ i + 1 - 1 = i BY <1>5
      <3>3. q[1] = T[i] BY <2>3, <3>2
      <3> QED BY <2>3, <3>1, <3>3 DEF t
    <2> HIDE DEF q, t
    <2>5. q = one BY <2>1, <2>4
    <2> QED BY <2>1, <2>5 DEF q
  <1>11. C[t] \in Seq(Nat) BY <1>2, <1>10 DEF Yields
  <1>12. Same(Join(C, one), C[t])
    <2> HIDE DEF t
    <2> QED BY <1>11, JoinOne
  <1> HIDE DEF t, one
  <1>13. Join(C, SubSeq(T, i, i)) = C[t] BY <1>10, <1>12 DEF Same
  <1>14. Len(C[t]) \in Nat BY <1>11, LenProperties
  <1>15. Sum(C, T, j) \in Nat /\ Sum(C, T, i) \in Nat /\ Sum(C, T, i) = Sum(C, T, j) + Len(C[t])
    BY <1>7, <1>9, <1>13 DEF Adds
  <1>16. Start(d, t) = F + Sum(C, T, j) BY <1>3 DEF Offset, j, C
  <1>17. Start(d, t) + Len(C[t]) = F + Sum(C, T, i) BY <1>14, <1>15, <1>16
  <1> QED BY <1>4, <1>14, <1>15, <1>16, <1>17 DEF j, T, C, t

(* It is a number.                                                         *)
LEMMA StartType ==
  ASSUME NEW d, WellFormed(d), NEW t \in Texts(d)
  PROVE  Start(d, t) \in Nat /\ Length(d, t) \in Nat
  <1> DEFINE T == TextNodes(d, t)
  <1>1. t \in Nodes /\ d.kind[t] # "free" BY DEF Texts
  <1>2. PICK F \in Nat : StartsAt(d, t, F) BY <1>1, NodeStarts
  <1>3. t \in ToSet(T) /\ T \in Seq(Nodes) BY <1>1, TextIsBelow, TextsDiffer
  <1>4. PICK i \in 1 .. Len(T) : T[i] = t
    <2> HIDE DEF T
    <2> QED BY <1>3, ToSetIs
  <1>5. Start(d, T[i]) = F + Sum(d.chars, T, i - 1) /\ Sum(d.chars, T, i - 1) \in Nat /\ Length(d, T[i]) \in Nat
    BY <1>1, <1>2, TextPlaces
  <1> HIDE DEF T
  <1> QED BY <1>4, <1>5

(* A range between two texts below an element.                             *)
LEMMA RangeIs ==
  ASSUME NEW d, WellFormed(d), NEW r, r.common \in Elements(d),
         r.start \in ToSet(TextNodes(d, r.common)), r.end \in ToSet(TextNodes(d, r.common))
  PROVE  \E i, j \in 1 .. Len(TextNodes(d, r.common)) :
           /\ TextNodes(d, r.common)[i] = r.start /\ TextNodes(d, r.common)[j] = r.end
           /\ RangeNodes(d, r) = SubSeq(TextNodes(d, r.common), i, j)
  <1> DEFINE T == TextNodes(d, r.common)
  <1>1. r.common \in Nodes BY DEF Elements
  <1>2. T \in Seq(Nodes) /\ Distinct(T) BY <1>1, TextsDiffer
  <1>3. r.start # None /\ r.end # None
    <2>1. T \in Seq(Texts(d)) BY <1>1, TextsBelow
    <2>2. ToSet(T) \subseteq Texts(d)
      <3> HIDE DEF T
      <3> QED BY <2>1, ToSetIs
    <2>3. None \notin Nodes BY NodesAssumption
    <2> QED BY <2>2, <2>3 DEF Texts
  <1>4. RangeNodes(d, r) = LET s == IndexOf(d, T, r.start)
                               e == IndexOf(d, T, r.end)
                           IN SubSeq(T, IF s < 0 THEN Len(T) ELSE s + 1, IF e = -1 THEN Len(T) ELSE e + 1)
    BY DEF RangeNodes
  <1>5. r.start \in ToSet(T) /\ r.end \in ToSet(T) OBVIOUS
  <1> HIDE DEF T
  <1>6. ASSUME NEW x \in ToSet(T), x # None
        PROVE  \E i \in 1 .. Len(T) : T[i] = x /\ IndexOf(d, T, x) = i - 1
    <2>1. PICK i \in 1 .. Len(T) : T[i] = x BY <1>2, ToSetIs
    <2>2. Position(T, T[i]) = i BY <1>2, PositionIs
    <2>3. T # <<>>
      <3>1. ToSet(<<>>) = {} BY OnesAndTwos
      <3> QED BY <3>1
    <2>4. Contains(T, x)
      <3>1. DOMAIN T = 1 .. Len(T) BY <1>2, LenProperties
      <3> QED BY <2>1, <3>1 DEF Contains
    <2>5. IndexOf(d, T, x) = Position(T, x) - 1 BY <1>6, <2>3, <2>4 DEF IndexOf
    <2> QED BY <2>1, <2>2, <2>5
  <1>7. PICK i \in 1 .. Len(T) : T[i] = r.start /\ IndexOf(d, T, r.start) = i - 1 BY <1>3, <1>5, <1>6
  <1>8. PICK j \in 1 .. Len(T) : T[j] = r.end /\ IndexOf(d, T, r.end) = j - 1 BY <1>3, <1>5, <1>6
  <1>9. Len(T) \in Nat BY <1>2, LenProperties
  <1>10. ~ (i - 1 < 0) /\ j - 1 # -1 /\ (i - 1) + 1 = i /\ (j - 1) + 1 = j BY <1>9
  <1>11. RangeNodes(d, r) = SubSeq(T, i, j) BY <1>4, <1>7, <1>8, <1>10
  <1> QED BY <1>7, <1>8, <1>11 DEF T

(* The characters of such a range.                                         *)
LEMMA AboutIs ==
  ASSUME NEW r, WellFormed(r.doc), Numbered(r.doc), r.common \in Elements(r.doc),
         r.start \in ToSet(TextNodes(r.doc, r.common)), r.end \in ToSet(TextNodes(r.doc, r.common))
  PROVE  About(r) = Start(r.doc, r.start) + 1 .. Start(r.doc, r.end) + Length(r.doc, r.end)
  <1> DEFINE d == r.doc
             c == r.common
             T == TextNodes(d, c)
             C == d.chars
  <1>1. c \in Nodes /\ d.kind[c] # "free" BY DEF Elements
  <1>2. PICK i, j \in 1 .. Len(T) : T[i] = r.start /\ T[j] = r.end /\ RangeNodes(d, r) = SubSeq(T, i, j) BY RangeIs
  <1>3. PICK F \in Nat : StartsAt(d, c, F) BY <1>1, NodeStarts
  <1>4. Start(d, T[i]) = F + Sum(C, T, i - 1) BY <1>1, <1>3, TextPlaces
  <1>5. Start(d, T[j]) + Length(d, T[j]) = F + Sum(C, T, j) BY <1>1, <1>3, TextPlaces
  <1>6. Yields(C, Nodes, Nat)
    <2>1. d \in Document BY DEF WellFormed
    <2> QED BY <2>1, Typed DEF Yields
  <1>7. T \in Seq(Nodes) /\ T \in Seq(Texts(d)) BY <1>1, TextsDiffer, TextsBelow
  <1>8. Counts(Join(C, T), F)
    <2>1. Reads(d, c) = Join(C, T) BY DEF Reads, TextOf, Join, Map
    <2> QED BY <1>3, <2>1 DEF StartsAt
  <1>9. r.start # None
    <2>1. ToSet(T) \subseteq Texts(d)
      <3> HIDE DEF T
      <3> QED BY <1>7, ToSetIs
    <2>2. None \notin Nodes BY NodesAssumption
    <2> QED BY <2>1, <2>2 DEF Texts
  <1>10. About(r) = ToSet(Join(C, SubSeq(T, i, j))) BY <1>2, <1>9 DEF About, TextOf, Join, Map
  <1> HIDE DEF d, c, T, C
  <1>11. ToSet(Join(C, SubSeq(T, i, j))) = (F + Sum(C, T, i - 1)) + 1 .. F + Sum(C, T, j) BY <1>6, <1>7, <1>8, StretchHas
  <1> QED BY <1>2, <1>4, <1>5, <1>10, <1>11 DEF d

(* Characters stay numbered if the body reads the same.                    *)
LEMMA KeptNumbered ==
  ASSUME NEW d, WellFormed(d), NEW e, Unchanged(d, e, Elements(d) \ Highlights(d)), Numbered(d)
  PROVE  Numbered(e)
  <1>1. Body \in Elements(d) \ Highlights(d) BY NodesAssumption DEF Elements, Highlights, WellFormed
  <1>2. Reads(e, Body) = Reads(d, Body) BY <1>1 DEF Unchanged, Same
  <1> QED BY <1>2 DEF Numbered

(* The second half of a text stands behind the first.                      *)
LEMMA SplitSibling ==
  ASSUME NEW d, WellFormed(d), NEW n \in Texts(d), NEW k \in 0 .. Length(d, n), Free(d) # {}
  PROVE  NextSibling(Split(d, n, k), n) = Fresh(d)
  <1> DEFINE e == Split(d, n, k)
             m == Fresh(d)
             u == d.up[n]
             s == d.kids[u]
             two == <<n, m>>
             z == e.kids[u]
  <1>1. SplitInto(d, e, n, k) /\ WellFormed(e) BY SplitKeeps
  <1>2. n \in Nodes /\ u # None BY TextNode
  <1>3. u \in Elements(d) /\ n \in ToSet(s) /\ s \in Seq(Nodes) /\ Distinct(s) BY <1>2, Parent
  <1>4. u \in Nodes BY <1>3 DEF Elements
  <1>5. m \in Nodes /\ m # n /\ m # u BY <1>1 DEF SplitInto
  <1>6. e.up[n] = u /\ z = Replace(s, n, two)
    <2> HIDE DEF e, m
    <2> QED BY <1>1, <1>2, <1>4, <1>5 DEF SplitInto, m
  <1>7. PICK pre, suf \in Seq(Nodes) : Stands(s, n, pre, suf)
    <2> HIDE DEF s
    <2> QED BY <1>3, Around
  <1>8. z = (pre \o two) \o suf
    <2> HIDE DEF z, s, two
    <2> QED BY <1>6, <1>7 DEF Stands
  <1>9. e.up[n] # None BY <1>2, <1>6
  <1>10. z \in Seq(Nodes) /\ Distinct(z) BY <1>1, <1>2, <1>6, <1>9, Parent
  <1>11. NextSibling(e, n) = IF Last(z) = n THEN None ELSE z[Position(z, n) + 1] BY <1>6 DEF NextSibling
  <1>12. two \in Seq(Nodes) /\ Len(two) = 2 /\ two[1] = n /\ two[2] = m BY <1>2, <1>5
  <1> HIDE DEF e, m, z, two
  <1>13. Len(pre) \in Nat /\ Len(z) \in Nat /\ 1 \in 1 .. Len(two) /\ 2 \in 1 .. Len(two) BY <1>10, <1>12, LenProperties
  <1>14. Distinct((pre \o two) \o suf) /\ two \in Seq(Nodes) BY <1>8, <1>10, <1>12
  <1>19. \A i \in 1 .. Len(two) : /\ Len(pre) + i \in 1 .. Len(z) /\ z[Len(pre) + i] = two[i]
                                  /\ Position(z, two[i]) = Len(pre) + i
    <2>1. ASSUME NEW i \in 1 .. Len(two)
          PROVE  /\ Len(pre) + i \in 1 .. Len((pre \o two) \o suf) /\ ((pre \o two) \o suf)[Len(pre) + i] = two[i]
                 /\ Position((pre \o two) \o suf, two[i]) = Len(pre) + i
      BY <1>14, PlaceIn
    <2> QED BY <1>8, <2>1
  <1>15. Len(pre) + 1 \in 1 .. Len(z) /\ z[Len(pre) + 1] = two[1] /\ Position(z, two[1]) = Len(pre) + 1 BY <1>13, <1>19
  <1>16. Len(pre) + 2 \in 1 .. Len(z) /\ z[Len(pre) + 2] = two[2] BY <1>13, <1>19
  <1>17. Last(z) # n
    <2>1. Last(z) = z[Len(z)] BY DEF Last
    <2>2. DOMAIN z = 1 .. Len(z) BY <1>10, LenProperties
    <2>4. Len(z) \in 1 .. Len(z) /\ Len(z) # Len(pre) + 1 BY <1>13, <1>16
    <2>3. Len(z) \in DOMAIN z /\ Len(pre) + 1 \in DOMAIN z /\ Len(z) # Len(pre) + 1 BY <1>15, <2>2, <2>4
    <2> QED BY <1>10, <1>12, <1>15, <2>1, <2>3 DEF Distinct
  <1>18. (Len(pre) + 1) + 1 = Len(pre) + 2 BY <1>13
  <1> QED BY <1>11, <1>12, <1>15, <1>16, <1>17, <1>18 DEF e, m

(* Where the texts are once one of them is split.                          *)
LEMMA SplitFinds ==
  ASSUME NEW d, WellFormed(d), NEW c \in Elements(d), NEW n \in ToSet(TextNodes(d, c)), NEW k \in 0 .. Length(d, n), Free(d) # {}
  PROVE  /\ ToSet(TextNodes(Split(d, n, k), c)) = ToSet(TextNodes(d, c)) \cup {Fresh(d)}
         /\ \A t \in Texts(d) : Start(Split(d, n, k), t) = Start(d, t)
         /\ \A t \in Texts(d) \ {n} : Split(d, n, k).chars[t] = d.chars[t]
         /\ Length(Split(d, n, k), n) = k /\ Length(Split(d, n, k), Fresh(d)) = Length(d, n) - k
         /\ More(Start(Split(d, n, k), Fresh(d)), Start(d, n), k)
         /\ Texts(Split(d, n, k)) = Texts(d) \cup {Fresh(d)} /\ Fresh(d) \notin Texts(d)
         /\ NextSibling(Split(d, n, k), n) = Fresh(d)
  <1> DEFINE e == Split(d, n, k)
             m == Fresh(d)
             s == TextNodes(d, c)
             t == TextNodes(e, c)
             one == <<n>>
             two == <<n, m>>
  <1>1. c \in Nodes BY DEF Elements
  <1>2. s \in Seq(Texts(d)) BY <1>1, TextsBelow
  <1>3. n \in Texts(d)
    <2>1. n \in ToSet(s) OBVIOUS
    <2> HIDE DEF s
    <2> QED BY <1>2, <2>1, ToSetIs
  <1>4. PICK pre, suf \in Seq(Nodes) : SplitThere(s, t, n, m, pre, suf) BY <1>3, SplitTexts
  <1>5. n \in Nodes /\ m \in Nodes
    <2>1. m \in Free(d) BY FreshIsFree
    <2> HIDE DEF m
    <2> QED BY <1>3, <2>1 DEF Free, Texts
  <1>6. ToSet(t) = ToSet(s) \cup {m}
    <2> HIDE DEF s, t, m
    <2>1. s = (pre \o one) \o suf /\ t = (pre \o two) \o suf BY <1>4 DEF SplitThere
    <2>2. one \in Seq(Nodes) /\ two \in Seq(Nodes) BY <1>5
    <2>3. ToSet(one) = {n} /\ ToSet(two) = {n, m} BY OnesAndTwos
    <2> HIDE DEF one, two
    <2>4. ToSet((pre \o one) \o suf) = (ToSet(pre) \cup ToSet(one)) \cup ToSet(suf) BY <2>2, ThreeParts
    <2>5. ToSet((pre \o two) \o suf) = (ToSet(pre) \cup ToSet(two)) \cup ToSet(suf) BY <2>2, ThreeParts
    <2> QED BY <2>1, <2>3, <2>4, <2>5
  <1>7. /\ \A x \in Texts(d) : Start(e, x) = Start(d, x)
        /\ More(Start(e, m), Start(d, n), k)
    BY <1>3, SplitStarts
  <1>8. /\ \A x \in Texts(d) \ {n} : e.chars[x] = d.chars[x]
        /\ Length(e, n) = k /\ Length(e, m) = Length(d, n) - k
        /\ Texts(e) = Texts(d) \cup {m} /\ m \in Nodes \ Texts(d)
    BY <1>3, HalfLengths
  <1>9. NextSibling(e, n) = m BY <1>3, SplitSibling
  <1> HIDE DEF e, m, s, t
  <1> QED BY <1>6, <1>7, <1>8, <1>9 DEF e, m, s, t

(* What is left where it was when a text is split or is not.               *)
Standing(d, e, c, n) ==
  /\ ToSet(TextNodes(d, c)) \subseteq ToSet(TextNodes(e, c)) /\ Texts(d) \subseteq Texts(e)
  /\ \A t \in Texts(d) : Start(e, t) = Start(d, t)
  /\ \A t \in Texts(d) \ {n} : Length(e, t) = Length(d, t)

(* What is known of a text of an element.                                  *)
LEMMA TextBelow ==
  ASSUME NEW d, WellFormed(d), NEW c \in Elements(d), NEW n \in ToSet(TextNodes(d, c))
  PROVE  n \in Texts(d) /\ n \in Nodes /\ c \in Nodes /\ Start(d, n) \in Nat /\ Length(d, n) \in Nat
  <1> DEFINE s == TextNodes(d, c)
  <1>1. c \in Nodes BY DEF Elements
  <1>2. s \in Seq(Texts(d)) BY <1>1, TextsBelow
  <1>3. n \in Texts(d)
    <2>1. n \in ToSet(s) OBVIOUS
    <2> HIDE DEF s
    <2> QED BY <1>2, <2>1, ToSetIs
  <1> QED BY <1>1, <1>3, StartType DEF Texts

(* Where a text ends up that is split, or is not because it ends there.    *)
LEMMA SplitAtFinds ==
  ASSUME NEW d, WellFormed(d), Room(d, 1), NEW c \in Elements(d), NEW n \in ToSet(TextNodes(d, c)), NEW k \in 0 .. Length(d, n)
  PROVE  Standing(d, SplitAt(d, n, k), c, n) /\ Length(SplitAt(d, n, k), n) = k
  <1> DEFINE e == SplitAt(d, n, k)
  <1>1. n \in Texts(d) /\ Length(d, n) \in Nat BY TextBelow
  <1>2. CASE k \in 0 .. Length(d, n) - 1
    <2>1. e = Split(d, n, k) BY <1>1, <1>2 DEF SplitAt
    <2>2. Free(d) # {} BY FreeIsFinite
    <2>3. /\ ToSet(TextNodes(e, c)) = ToSet(TextNodes(d, c)) \cup {Fresh(d)}
          /\ \A t \in Texts(d) : Start(e, t) = Start(d, t)
          /\ \A t \in Texts(d) \ {n} : e.chars[t] = d.chars[t]
          /\ Length(e, n) = k
          /\ Texts(e) = Texts(d) \cup {Fresh(d)}
      BY <2>1, <2>2, SplitFinds
    <2> HIDE DEF e
    <2> QED BY <2>3 DEF e, Standing, Length
  <1>3. CASE k \notin 0 .. Length(d, n) - 1
    <2>1. e = d BY <1>3 DEF SplitAt
    <2>2. k = Length(d, n) BY <1>1, <1>3
    <2> QED BY <2>1, <2>2 DEF Standing
  <1> QED BY <1>2, <1>3

(* The first half of normalize: the range begins with a text.              *)
LEMMA FirstFinds ==
  ASSUME NEW d, WellFormed(d), Room(d, 2), NEW c \in Elements(d), NEW n \in ToSet(TextNodes(d, c)),
         NEW k \in 0 .. Length(d, n), k = 0 \/ k # Length(d, n),
         NEW d1, d1 = IF k > 0 THEN SplitAt(d, n, k) ELSE d,
         NEW first, first = IF k > 0 THEN NextSibling(d1, n) ELSE n
  PROVE  /\ Kept(d, d1) /\ Room(d1, 1) /\ Standing(d, d1, c, n)
         /\ first \in ToSet(TextNodes(d1, c))
         /\ More(Start(d1, first), Start(d, n), k) /\ Length(d1, first) = Length(d, n) - k
  <1>1. n \in Texts(d) /\ Length(d, n) \in Nat /\ Start(d, n) \in Nat BY TextBelow
  <1>2. Room(d, 1) BY FreeIsFinite DEF Room
  <1>3. CASE k = 0
    <2>1. d1 = d /\ first = n BY <1>3
    <2> QED BY <1>1, <1>2, <1>3, <2>1, KeptItself DEF Standing, More
  <1>4. CASE k # 0
    <2>1. k > 0 /\ k \in 0 .. Length(d, n) - 1 BY <1>1, <1>4
    <2>2. d1 = SplitAt(d, n, k) /\ SplitAt(d, n, k) = Split(d, n, k) /\ first = NextSibling(d1, n) BY <1>1, <2>1 DEF SplitAt
    <2>3. Kept(d, d1) /\ Room(d1, 1) BY <1>2, <2>2, SplitAtKeeps
    <2>4. Standing(d, d1, c, n) BY <1>2, <2>2, SplitAtFinds
    <2>5. Free(d) # {} BY <1>2, FreeIsFinite
    <2>6. /\ ToSet(TextNodes(d1, c)) = ToSet(TextNodes(d, c)) \cup {Fresh(d)}
          /\ Length(d1, Fresh(d)) = Length(d, n) - k
          /\ More(Start(d1, Fresh(d)), Start(d, n), k)
          /\ NextSibling(d1, n) = Fresh(d)
      BY <2>2, <2>5, SplitFinds
    <2> QED BY <2>2, <2>3, <2>4, <2>6
  <1> QED BY <1>3, <1>4

(* A range whose first text begins behind P characters and whose last one  *)
(* ends with the Qth.                                                      *)
Finds(r, P, Q) ==
  /\ r.start \in ToSet(TextNodes(r.doc, r.common)) /\ r.end \in ToSet(TextNodes(r.doc, r.common))
  /\ Start(r.doc, r.start) = P /\ Start(r.doc, r.end) + Length(r.doc, r.end) = Q

(* normalize finds the characters between two points of texts.             *)
LEMMA NormalizeFinds ==
  ASSUME NEW d, WellFormed(d), Room(d, 2), NEW c \in Elements(d), NEW s, NEW e,
         s.node \in ToSet(TextNodes(d, c)), s.at \in 0 .. Length(d, s.node), s.at = 0 \/ s.at # Length(d, s.node),
         e.node \in ToSet(TextNodes(d, c)), e.at \in 0 .. Length(d, e.node)
  PROVE  /\ Normalize(d, s, e, c).start = None => s.node = e.node /\ e.at < s.at
         /\ Normalize(d, s, e, c).start # None => Finds(Normalize(d, s, e, c), Start(d, s.node) + s.at, Start(d, e.node) + e.at)
  <1> DEFINE d1    == IF s.at > 0 THEN SplitAt(d, s.node, s.at) ELSE d
             first == IF s.at > 0 THEN NextSibling(d1, s.node) ELSE s.node
             same  == s.node = e.node
             d2    == IF same THEN SplitAt(d1, first, e.at - s.at) ELSE SplitAt(d1, e.node, e.at)
             r     == Normalize(d, s, e, c)
  <1>1. r = [doc |-> d2, start |-> IF same /\ e.at < s.at THEN None ELSE first,
             end |-> IF same THEN first ELSE e.node, common |-> c]
    BY DEF Normalize
  <1>2. /\ s.node \in Texts(d) /\ Start(d, s.node) \in Nat /\ Length(d, s.node) \in Nat
        /\ e.node \in Texts(d) /\ Start(d, e.node) \in Nat /\ Length(d, e.node) \in Nat
    BY TextBelow
  <1>3. /\ Kept(d, d1) /\ Room(d1, 1) /\ Standing(d, d1, c, s.node)
        /\ first \in ToSet(TextNodes(d1, c))
        /\ More(Start(d1, first), Start(d, s.node), s.at) /\ Length(d1, first) = Length(d, s.node) - s.at
    BY FirstFinds
  <1>4. WellFormed(d1) /\ c \in Elements(d1)
    <2> HIDE DEF d1
    <2> QED BY <1>3, KeptElements DEF Kept
  <1>5. same => d2 = SplitAt(d1, first, e.at - s.at) OBVIOUS
  <1>6. ~ same => d2 = SplitAt(d1, e.node, e.at) OBVIOUS
  <1> HIDE DEF d1, first, d2
  <1>7. first \in Texts(d1) /\ first \in Nodes BY <1>3, <1>4, TextBelow
  <1>8. first # None BY <1>7, NodesAssumption
  <1>9. CASE same
    <2>1. CASE e.at < s.at
      <3>1. r.start = None BY <1>1, <1>9, <2>1
      <3> QED BY <1>9, <2>1, <3>1
    <2>2. CASE ~ (e.at < s.at)
      <3> DEFINE k == e.at - s.at
      <3>1. k \in 0 .. Length(d1, first) /\ s.at + k = e.at BY <1>2, <1>3, <1>9, <2>2
      <3> HIDE DEF k
      <3>2. Standing(d1, SplitAt(d1, first, k), c, first) /\ Length(SplitAt(d1, first, k), first) = k
        BY <1>3, <1>4, <3>1, SplitAtFinds
      <3>3. Standing(d1, d2, c, first) /\ Length(d2, first) = k BY <1>5, <1>9, <3>2 DEF k
      <3>4. first \in ToSet(TextNodes(d2, c)) /\ Start(d2, first) = Start(d1, first) BY <1>3, <1>7, <3>3 DEF Standing
      <3>5. r.start = first /\ r.end = first /\ r.doc = d2 /\ r.common = c BY <1>1, <1>9, <2>2
      <3>6. Start(d2, first) = Start(d, s.node) + s.at BY <1>3, <3>4 DEF More
      <3>7. Start(d2, first) + Length(d2, first) = Start(d, e.node) + e.at
        <4>1. s.node = e.node BY <1>9
        <4>2. s.at \in Nat /\ k \in Nat BY <1>2, <1>3, <2>2 DEF k
        <4>3. (Start(d, s.node) + s.at) + k = Start(d, s.node) + (s.at + k) BY <1>2, <4>2
        <4> QED BY <3>1, <3>3, <3>6, <4>1, <4>3
      <3> HIDE DEF r
      <3>8. Finds(r, Start(d, s.node) + s.at, Start(d, e.node) + e.at) BY <3>4, <3>5, <3>6, <3>7 DEF Finds
      <3> QED BY <1>8, <3>5, <3>8 DEF r
    <2> QED BY <2>1, <2>2
  <1>10. CASE ~ same
    <2>1. Length(d1, e.node) = Length(d, e.node) /\ e.node \in ToSet(TextNodes(d1, c)) /\ Start(d1, e.node) = Start(d, e.node)
      BY <1>2, <1>3, <1>10 DEF Standing
    <2>2. Standing(d1, d2, c, e.node) /\ Length(d2, e.node) = e.at
      <3>1. e.at \in 0 .. Length(d1, e.node) BY <2>1
      <3>2. Standing(d1, SplitAt(d1, e.node, e.at), c, e.node) /\ Length(SplitAt(d1, e.node, e.at), e.node) = e.at
        BY <1>3, <1>4, <2>1, <3>1, SplitAtFinds
      <3> QED BY <1>6, <1>10, <3>2
    <2>3. e.node \in Texts(d1) BY <1>4, <2>1, TextBelow
    <2>4. /\ first \in ToSet(TextNodes(d2, c)) /\ Start(d2, first) = Start(d1, first)
          /\ e.node \in ToSet(TextNodes(d2, c)) /\ Start(d2, e.node) = Start(d1, e.node)
      BY <1>3, <1>7, <2>1, <2>2, <2>3 DEF Standing
    <2>5. r.start = first /\ r.end = e.node /\ r.doc = d2 /\ r.common = c BY <1>1, <1>10
    <2>6. Start(d2, first) = Start(d, s.node) + s.at BY <1>3, <2>4 DEF More
    <2>7. Start(d2, e.node) + Length(d2, e.node) = Start(d, e.node) + e.at BY <2>1, <2>2, <2>4
    <2> HIDE DEF r
    <2>8. Finds(r, Start(d, s.node) + s.at, Start(d, e.node) + e.at) BY <2>4, <2>5, <2>6, <2>7 DEF Finds
    <2> QED BY <1>8, <2>5, <2>8 DEF r
  <1> QED BY <1>9, <1>10

(* So a range between two texts is about the characters from one place to  *)
(* the other.                                                              *)
LEMMA NormalizeAbout ==
  ASSUME NEW d, WellFormed(d), Room(d, 2), Numbered(d), NEW c \in Elements(d), NEW s, NEW e,
         s.node \in ToSet(TextNodes(d, c)), s.at \in 0 .. Length(d, s.node), s.at = 0 \/ s.at # Length(d, s.node),
         e.node \in ToSet(TextNodes(d, c)), e.at \in 0 .. Length(d, e.node)
  PROVE  About(Normalize(d, s, e, c)) = (Start(d, s.node) + s.at) + 1 .. Start(d, e.node) + e.at
  <1> DEFINE r == Normalize(d, s, e, c)
             P == Start(d, s.node) + s.at
             Q == Start(d, e.node) + e.at
  <1>1. /\ r.start = None => s.node = e.node /\ e.at < s.at
        /\ r.start # None => Finds(r, P, Q)
    BY NormalizeFinds
  <1>2. /\ Start(d, s.node) \in Nat /\ Length(d, s.node) \in Nat
        /\ Start(d, e.node) \in Nat /\ Length(d, e.node) \in Nat
    BY TextBelow
  <1>3. Kept(d, r.doc) /\ r.common = c BY NormalizeKeeps
  <1> HIDE DEF r
  <1>4. CASE r.start = None
    <2>1. About(r) = {} BY <1>4 DEF About
    <2>2. Q < P BY <1>1, <1>2, <1>4
    <2>3. P \in Nat /\ Q \in Nat BY <1>2
    <2> HIDE DEF P, Q
    <2>4. P + 1 .. Q = {} BY <2>2, <2>3
    <2> QED BY <2>1, <2>4 DEF r, P, Q
  <1>5. CASE r.start # None
    <2>1. Finds(r, P, Q) BY <1>1, <1>5
    <2>2. WellFormed(r.doc) /\ r.common \in Elements(r.doc)
      <3> DEFINE f == r.doc
      <3> HIDE DEF f
      <3>1. Elements(d) \subseteq Elements(f) /\ WellFormed(f) BY <1>3, KeptElements DEF f, Kept
      <3> QED BY <1>3, <3>1 DEF f
    <2>3. Numbered(r.doc)
      <3>1. Unchanged(d, r.doc, Elements(d) \ Highlights(d)) BY <1>3 DEF Kept, Unchanged
      <3> QED BY <3>1, KeptNumbered
    <2> HIDE DEF P, Q
    <2>4. About(r) = Start(r.doc, r.start) + 1 .. Start(r.doc, r.end) + Length(r.doc, r.end)
      BY <2>1, <2>2, <2>3, AboutIs DEF Finds
    <2>5. About(r) = P + 1 .. Q BY <2>1, <2>4 DEF Finds
    <2> QED BY <2>5 DEF r, P, Q
  <1> QED BY <1>4, <1>5

(* Min is what its name says.                                              *)
LEMMA MinIsLeast ==
  ASSUME NEW S, S \subseteq Nat, S # {}
  PROVE  Min(S) \in S /\ \A j \in S : Min(S) <= j
  <1>1. PICK k \in S : \A j \in S : k <= j BY Least
  <1>2. \E x \in S : \A y \in S : x =< y BY <1>1
  <1> QED BY <1>2 DEF Min

(* The last text of an element is no empty one.                            *)
LEMMA LastIsFull ==
  ASSUME NEW d, WellFormed(d), Decent(d), NEW u \in Elements(d)
  PROVE  TextNodes(d, u) # <<>> /\ d.chars[Last(TextNodes(d, u))] # <<>>
  <1> DEFINE Full(x) == d.chars[Last(TextNodes(d, x))] # <<>>
             S == {x \in Elements(d) : ~ Full(x)}
             B == Below(d)
  <1>1. /\ Yields(B, Nodes, Nodes)
        /\ \A n \in Nodes : B[n] = TextNodes(d, n)
        /\ \A n \in Nodes : TextNodes(d, n) = IF d.kind[n] = "text" THEN <<n>> ELSE Join(B, d.kids[n])
    BY TextNodesAre
  <1>2. Elements(d) \subseteq Nodes BY DEF Elements
  <1> HIDE DEF B
  <1>3. ASSUME NEW x \in S, Kids(d)[x] \cap S = {} PROVE FALSE
    <2> DEFINE s == d.kids[x]
               k == Len(s)
               p == SubSeq(s, 1, k - 1)
               l == s[k]
               one == <<l>>
    <2>1. x \in Nodes /\ d.kind[x] \in {"element", "highlight"} BY DEF Elements
    <2>2. s \in Seq(Nodes) /\ s # <<>>
      <3>1. d \in Document BY DEF WellFormed
      <3>2. d.kids \in [Nodes -> Seq(Nodes)] BY <3>1, Typed
      <3>3. d.kids[x] = <<>> <=> d.kind[x] \in {"text", "free"} BY <2>1 DEF WellFormed
      <3> QED BY <2>1, <3>2, <3>3
    <2>3. k \in Nat /\ k # 0 BY <2>2, LenProperties, EmptySeq
    <2>4. l = Last(s) /\ l \in ToSet(s)
      <3>1. k \in 1 .. Len(s) BY <2>3
      <3>2. ToSet(s) = {s[i] : i \in 1 .. Len(s)} BY <2>2, ToSetIs
      <3> QED BY <3>1, <3>2 DEF Last
    <2>5. l \in Nodes /\ d.kind[l] # "free" BY <2>1, <2>4, OneParent
    <2>6. s = p \o one /\ p \in Seq(Nodes)
      <3> HIDE DEF s
      <3>1. k \in 1 .. Len(s) BY <2>3
      <3>2. SubSeq(s, 1, k) = Append(p, l) /\ p \in Seq(Nodes) /\ l \in Nodes BY <2>2, <3>1, SubSeqStep
      <3>3. SubSeq(s, 1, k) = s BY <2>2, SubSeqFull
      <3> HIDE DEF p, l, k
      <3>4. Append(p, l) = p \o one BY <3>2, AppendIsConcat
      <3> QED BY <3>2, <3>3, <3>4
    <2>7. one \in Seq(Nodes) BY <2>5
    <2>8. B[l] \in Seq(Nodes) BY <1>1, <2>5 DEF Yields
    <2>9. Same(Join(B, one), B[l])
      <3> HIDE DEF l
      <3> QED BY <2>8, JoinOne
    <2>10. TextNodes(d, x) = Join(B, s) BY <1>1, <2>1
    <2>11. TextNodes(d, l) # <<>> BY <2>5, TextsBelow
    <2>12. Kids(d)[x] = ToSet(s) BY <2>1 DEF Kids
    <2>16. d.kind[l] = "text" => d.chars[l] # <<>>
      <3>1. x \in Elements(d) OBVIOUS
      <3> QED BY <2>4, <3>1 DEF Decent
    <2> HIDE DEF s, k, p, l, one
    <2>13. Same(Join(B, p \o one), Join(B, p) \o Join(B, one)) BY <1>1, <2>6, <2>7, JoinConcat
    <2>14. Join(B, p) \in Seq(Nodes) BY <1>1, <2>6, JoinType
    <2>15. Last(TextNodes(d, x)) = Last(TextNodes(d, l))
      <3>1. TextNodes(d, x) = Join(B, p) \o B[l] BY <2>6, <2>9, <2>10, <2>13 DEF Same
      <3>2. B[l] = TextNodes(d, l) BY <1>1, <2>5
      <3>3. Last(Join(B, p) \o B[l]) = Last(B[l]) BY <2>8, <2>11, <2>14, <3>2, LastConcat
      <3> QED BY <3>1, <3>2, <3>3
    <2>17. CASE d.kind[l] = "text"
      <3>1. TextNodes(d, l) = <<l>> BY <1>1, <2>5, <2>17
      <3>2. Last(<<l>>) = l BY DEF Last
      <3> QED BY <2>15, <2>16, <2>17, <3>1, <3>2
    <2>18. CASE d.kind[l] # "text"
      <3>1. l \in Elements(d)
        <4>1. d \in Document BY DEF WellFormed
        <4>2. d.kind \in [Nodes -> {"element", "highlight", "text", "free"}] BY <4>1, Typed
        <4> QED BY <2>5, <2>18, <4>2 DEF Elements
      <3>2. l \notin S BY <1>3, <2>4, <2>12
      <3> QED BY <2>15, <3>1, <3>2
    <2> QED BY <2>17, <2>18
  <1>4. S = {}
    <2>1. S \in SUBSET Nodes BY <1>2
    <2> HIDE DEF S
    <2> QED BY <1>3, <2>1, TreeIsGrounded DEF Grounded
  <1>5. TextNodes(d, u) # <<>>
    <2>1. u \in Nodes /\ d.kind[u] # "free" BY DEF Elements
    <2> QED BY <2>1, TextsBelow
  <1> QED BY <1>4, <1>5

(* An element reads all of its texts, of which some is behind each.        *)
LEMMA ReadsBeyond ==
  ASSUME NEW d, WellFormed(d), Decent(d), NEW u \in Elements(d)
  PROVE  /\ Len(Reads(d, u)) = Sum(d.chars, TextNodes(d, u), Len(TextNodes(d, u)))
         /\ Len(TextNodes(d, u)) \in Nat \ {0} /\ Len(Reads(d, u)) \in Nat \ {0}
         /\ \A i \in 1 .. Len(TextNodes(d, u)) :
              /\ Sum(d.chars, TextNodes(d, u), i - 1) \in 0 .. Len(Reads(d, u)) - 1
              /\ Sum(d.chars, TextNodes(d, u), i) \in 0 .. Len(Reads(d, u))
  <1> DEFINE T == TextNodes(d, u)
             C == d.chars
             k == Len(T)
  <1>1. u \in Nodes /\ d.kind[u] # "free" BY DEF Elements
  <1>2. T \in Seq(Nodes) /\ T \in Seq(Texts(d)) /\ T # <<>> BY <1>1, TextsDiffer, TextsBelow
  <1>3. k \in Nat /\ k # 0
    <2> HIDE DEF T
    <2> QED BY <1>2, LenProperties, EmptySeq
  <1>4. Yields(C, Nodes, Nat)
    <2>1. d \in Document BY DEF WellFormed
    <2> QED BY <2>1, Typed DEF Yields
  <1>5. Reads(d, u) = Join(C, T) BY DEF Reads, TextOf, Join, Map
  <1>6. PICK F \in Nat : StartsAt(d, u, F) BY <1>1, NodeStarts
  <1>7. /\ Start(d, T[k]) = F + Sum(C, T, k - 1) /\ Start(d, T[k]) + Length(d, T[k]) = F + Sum(C, T, k)
        /\ Sum(C, T, k - 1) \in Nat /\ Sum(C, T, k) \in Nat /\ Length(d, T[k]) \in Nat
    <2>1. k \in 1 .. Len(TextNodes(d, u)) BY <1>3
    <2> HIDE DEF k
    <2> QED BY <1>1, <1>6, <2>1, TextPlaces
  <1>8. Length(d, T[k]) # 0
    <2>1. C[T[k]] # <<>> BY LastIsFull DEF Last
    <2>2. C[T[k]] \in Seq(Nat)
      <3> HIDE DEF T, C
      <3>1. T[k] \in Nodes
        <4>1. k \in 1 .. Len(T) BY <1>3
        <4> QED BY <1>2, <4>1, ElementOfSeq
      <3> QED BY <1>4, <3>1 DEF Yields
    <2> QED BY <2>1, <2>2, EmptySeq DEF Length
  <1>9. SubSeq(T, 1, k) = T
    <2> HIDE DEF T
    <2> QED BY <1>2, SubSeqFull
  <1>10. Len(Reads(d, u)) = Sum(C, T, k) BY <1>5, <1>9 DEF Sum
  <1> HIDE DEF C, T
  <1>11. Sum(C, T, k) > Sum(C, T, k - 1) BY <1>3, <1>7, <1>8
  <1>12. ASSUME NEW j \in 0 .. k, NEW l \in j .. k PROVE Sum(C, T, j) \in Nat /\ Sum(C, T, l) \in Nat /\ Sum(C, T, j) <= Sum(C, T, l)
    BY <1>2, <1>4, SumGrows
  <1>13. ASSUME NEW i \in 1 .. k PROVE Sum(C, T, i - 1) \in 0 .. Sum(C, T, k) - 1 /\ Sum(C, T, i) \in 0 .. Sum(C, T, k)
    <2>1. i - 1 \in 0 .. k /\ k - 1 \in i - 1 .. k /\ i \in 0 .. k /\ k \in i .. k BY <1>3
    <2>2. Sum(C, T, i - 1) \in Nat /\ Sum(C, T, i - 1) <= Sum(C, T, k - 1) BY <1>12, <2>1
    <2>3. Sum(C, T, i) \in Nat /\ Sum(C, T, i) <= Sum(C, T, k) BY <1>12, <2>1
    <2> QED BY <1>7, <1>11, <2>2, <2>3
  <1>14. Sum(C, T, k) \in Nat \ {0} BY <1>7, <1>11
  <1> HIDE DEF k
  <1> QED BY <1>3, <1>10, <1>13, <1>14 DEF k, C, T

(* The characters of the page before those of an element.                  *)
First(d, u) == Reads(d, u)[1] - 1

(* The texts of a node start at its first character.                       *)
LEMMA FirstIs ==
  ASSUME NEW d, WellFormed(d), Numbered(d), Decent(d), NEW u \in Elements(d)
  PROVE  First(d, u) \in Nat /\ StartsAt(d, u, First(d, u))
  <1>1. u \in Nodes /\ d.kind[u] # "free" BY DEF Elements
  <1>2. PICK F \in Nat : StartsAt(d, u, F) BY <1>1, NodeStarts
  <1> DEFINE x == Reads(d, u)
  <1>3. Len(x) \in Nat \ {0} BY ReadsBeyond
  <1>4. Counts(x, F) BY <1>2 DEF StartsAt
  <1>5. First(d, u) = x[1] - 1 BY DEF First
  <1> HIDE DEF x
  <1>6. 1 \in 1 .. Len(x) BY <1>3
  <1>7. x[1] = F + 1 BY <1>4, <1>6 DEF Counts
  <1>8. First(d, u) = F BY <1>5, <1>7
  <1> QED BY <1>2, <1>8

(* An offset into an element's text is one into one of its texts.          *)
LEMMA PointInIs ==
  ASSUME NEW d, WellFormed(d), Numbered(d), Decent(d), NEW u \in Elements(d), NEW isEnd \in BOOLEAN,
         NEW o \in 0 .. Len(Reads(d, u)) - IF isEnd THEN 0 ELSE 1,
         NEW p, p = PointIn(d, TextNodes(d, u), o, isEnd)
  PROVE  /\ p # NoPoint /\ p.node \in ToSet(TextNodes(d, u)) /\ p.at \in 0 .. Length(d, p.node)
         /\ isEnd \/ p.at # Length(d, p.node)
         /\ Start(d, p.node) + p.at = First(d, u) + o
  <1> DEFINE T == TextNodes(d, u)
             C == d.chars
             R == Len(Reads(d, u))
             F == First(d, u)
             b == IF isEnd THEN o - 1 ELSE o
             before(i) == Len(TextOf(d, SubSeq(T, 1, i - 1)))
             found == {i \in DOMAIN T : before(i) + Length(d, T[i]) > b}
             m == Min(found)
  <1>1. p = IF found = {} THEN NoPoint ELSE [node |-> T[m], at |-> o - before(m)] BY DEF PointIn
  <1>2. \A i : before(i) = Sum(C, T, i - 1) BY DEF Sum, TextOf, Join, Map
  <1>3. u \in Nodes /\ d.kind[u] # "free" BY DEF Elements
  <1>4. F \in Nat /\ StartsAt(d, u, F) BY FirstIs
  <1>5. \A i \in 1 .. Len(T) :
          /\ Start(d, T[i]) = F + Sum(C, T, i - 1) /\ Start(d, T[i]) + Length(d, T[i]) = F + Sum(C, T, i)
          /\ Sum(C, T, i - 1) \in Nat /\ Sum(C, T, i) \in Nat /\ Length(d, T[i]) \in Nat
    <2> HIDE DEF F
    <2> QED BY <1>3, <1>4, TextPlaces
  <1>6. /\ R = Sum(C, T, Len(T)) /\ Len(T) \in Nat \ {0} /\ R \in Nat \ {0} BY ReadsBeyond
  <1>7. T \in Seq(Nodes) BY <1>3, TextsDiffer
  <1>8. o \in 0 .. R - IF isEnd THEN 0 ELSE 1 OBVIOUS
  <1> HIDE DEF T, C, R, F, before
  <1>9. DOMAIN T = 1 .. Len(T) /\ ToSet(T) = {T[i] : i \in 1 .. Len(T)} BY <1>7, LenProperties, ToSetIs
  <1>10. b < R /\ b \in Int /\ o \in Nat /\ b <= o /\ (isEnd => b = o - 1) /\ (~ isEnd => b = o) BY <1>6, <1>8
  <1>24. ASSUME NEW i \in 1 .. Len(T) PROVE Sum(C, T, i) = Sum(C, T, i - 1) + Length(d, T[i]) /\ Sum(C, T, i - 1) \in Nat
    <2>1. F \in Nat BY <1>4
    <2>2. /\ Start(d, T[i]) = F + Sum(C, T, i - 1) /\ Start(d, T[i]) + Length(d, T[i]) = F + Sum(C, T, i)
          /\ Sum(C, T, i - 1) \in Nat /\ Sum(C, T, i) \in Nat /\ Length(d, T[i]) \in Nat
      BY <1>5
    <2> DEFINE A == Sum(C, T, i - 1)
               B == Sum(C, T, i)
               st == Start(d, T[i])
               l == Length(d, T[i])
    <2>3. st = F + A /\ st + l = F + B /\ A \in Nat /\ B \in Nat /\ l \in Nat BY <2>2
    <2> HIDE DEF A, B, st, l
    <2>4. B = A + l /\ A \in Nat BY <2>1, <2>3
    <2> QED BY <2>4 DEF A, B, l
  <1>11. \A i \in 1 .. Len(T) : before(i) = Sum(C, T, i - 1) /\ before(i) + Length(d, T[i]) = Sum(C, T, i) /\ before(i) \in Nat
    BY <1>2, <1>24
  <1>12. found = {i \in 1 .. Len(T) : Sum(C, T, i) > b} BY <1>9, <1>11
  <1>13. Len(T) \in found
    <2>1. Len(T) \in 1 .. Len(T) BY <1>6
    <2> HIDE DEF found, b
    <2> QED BY <1>6, <1>10, <1>12, <2>1
  <1> HIDE DEF found, b
  <1>14. m \in found /\ \A j \in found : m <= j
    <2>1. found \subseteq Nat BY <1>6, <1>12
    <2> QED BY <1>13, <2>1, MinIsLeast
  <1> HIDE DEF m
  <1>15. m \in 1 .. Len(T) /\ Sum(C, T, m) > b BY <1>12, <1>14
  <1>16. p = [node |-> T[m], at |-> o - Sum(C, T, m - 1)] /\ found # {} BY <1>1, <1>11, <1>13, <1>15
  <1>17. Sum(C, T, m - 1) <= o /\ Sum(C, T, m - 1) \in Nat
    <2>1. Sum(C, T, m - 1) \in Nat BY <1>5, <1>15
    <2>2. CASE m = 1 
      <3>1. Sum(C, T, 0) = 0 BY SumNone
      <3> QED BY <1>10, <2>1, <2>2, <3>1
    <2>3. CASE m # 1
      <3>1. m - 1 \in 1 .. Len(T) /\ ~ (m <= m - 1) BY <1>6, <1>15, <2>3
      <3>2. ~ (Sum(C, T, m - 1) > b) BY <1>12, <1>14, <3>1
      <3> QED BY <1>10, <2>1, <3>2
    <2> QED BY <2>2, <2>3
  <1>18. p.node = T[m] /\ p.at = o - Sum(C, T, m - 1) BY <1>16
  <1>19. Start(d, p.node) + p.at = F + o BY <1>4, <1>5, <1>10, <1>15, <1>17, <1>18
  <1>20. /\ p.at \in Nat /\ Length(d, p.node) \in Nat
         /\ Sum(C, T, m) = Sum(C, T, m - 1) + Length(d, p.node)
    <2>1. p.at \in Nat BY <1>10, <1>17, <1>18
    <2>2. Length(d, T[m]) \in Nat BY <1>5, <1>15
    <2>3. Sum(C, T, m) = Sum(C, T, m - 1) + Length(d, T[m]) BY <1>15, <1>24
    <2> QED BY <1>18, <2>1, <2>2, <2>3
  <1>21. p.at \in 0 .. Length(d, p.node) /\ (isEnd \/ p.at # Length(d, p.node))
    BY <1>10, <1>15, <1>17, <1>18, <1>20
  <1>22. p.node \in ToSet(T) BY <1>9, <1>15, <1>18
  <1>23. p # NoPoint
    <2>1. T[m] \in Nodes BY <1>7, <1>15, ElementOfSeq
    <2>2. T[m] # None BY <2>1, NodesAssumption
    <2> QED BY <1>18, <2>2 DEF NoPoint
  <1> QED BY <1>19, <1>21, <1>22, <1>23 DEF T, F

(* The steps of paths.                                                     *)
Steps(d) == {StepTo(d, n) : n \in Nodes}

(* The path to a node is the path to its parent and a step more.           *)
LEMMA PathsAre ==
  ASSUME NEW d, WellFormed(d)
  PROVE  /\ \A n \in Nodes : PathTo(d, n) \in Seq(Steps(d))
         /\ \A n \in Nodes : PathTo(d, n) = IF n = Root \/ d.up[n] = None THEN <<>> ELSE Append(PathTo(d, d.up[n]), StepTo(d, n))
  <1> DEFINE V == Seq(Steps(d))
             K == Ups(d)
             part(f, n) == IF n = Root \/ d.up[n] = None THEN <<>> ELSE Append(f[d.up[n]], StepTo(d, n))
             G == [n \in Nodes |-> [f \in [Nodes -> V] |-> part(f, n)]]
             Is(h) == h = [m \in Nodes |-> IF m = Root \/ d.up[m] = None THEN <<>> ELSE Append(h[d.up[m]], StepTo(d, m))]
  <1>1. \A n \in Nodes : d.up[n] # None => d.up[n] \in Nodes /\ d.up[n] \in K[n]
    <2>1. d \in Document BY DEF WellFormed
    <2>2. \A n \in Nodes : d.up[n] # None => d.up[n] \in Nodes BY <2>1, Typed
    <2> QED BY <2>2 DEF Ups
  <1>2. Grounded(Nodes, K) /\ K \in [Nodes -> SUBSET Nodes]
    <2>1. K \in [Nodes -> SUBSET Nodes] BY DEF Ups
    <2> QED BY <2>1, UpIsGrounded
  <1>3. G \in [Nodes -> [[Nodes -> V] -> V]]
    <2>1. ASSUME NEW n \in Nodes, NEW f \in [Nodes -> V] PROVE part(f, n) \in V
      <3>1. <<>> \in Seq(Steps(d)) OBVIOUS
      <3>2. CASE d.up[n] # None
        <4>1. f[d.up[n]] \in Seq(Steps(d)) /\ StepTo(d, n) \in Steps(d) BY <1>1, <3>2 DEF Steps
        <4>2. Append(f[d.up[n]], StepTo(d, n)) \in Seq(Steps(d)) BY <4>1, AppendProperties
        <4> QED BY <3>1, <3>2, <4>2
      <3> QED BY <3>1, <3>2
    <2> HIDE DEF part, V
    <2> QED BY <2>1
  <1>4. Local(G, K, Nodes, V)
    <2>1. ASSUME NEW n \in Nodes, NEW f \in [Nodes -> V], NEW g \in [Nodes -> V], Agree(f, g, K[n])
          PROVE  part(f, n) = part(g, n)
      BY <1>1, <2>1 DEF Agree
    <2> HIDE DEF part, V, K
    <2> QED BY <2>1 DEF Local, Same
  <1>5. <<>> \in V OBVIOUS
  <1>6. PICK F \in [Nodes -> V] : Solution(G, Nodes, F)
    <2> HIDE DEF V, K, G
    <2> QED BY <1>2, <1>3, <1>4, <1>5, Recursion
  <1>7. \A n \in Nodes : F[n] = part(F, n)
    <2> HIDE DEF part, V
    <2> QED BY <1>6 DEF Solution
  <1>8. Is(F)
    <2>2. F = [n \in Nodes |-> F[n]] OBVIOUS
    <2> QED BY <1>7, <2>2
  <1>9. ASSUME NEW h, Is(h) PROVE h = F
    <2>1. h = [n \in Nodes |-> h[n]] BY <1>9
    <2>2. \A n \in Nodes : h[n] = part(h, n) BY <1>9
    <2> HIDE DEF Is
    <2> DEFINE S == {n \in Nodes : h[n] # F[n]}
    <2>3. CASE S = {}
      <3>1. \A n \in Nodes : h[n] = F[n] BY <2>3
      <3> QED BY <3>1, <2>1
    <2>4. CASE S # {}
      <3>1. PICK n \in S : K[n] \cap S = {} BY <1>2, <2>4 DEF Grounded
      <3>2. d.up[n] # None => h[d.up[n]] = F[d.up[n]] BY <1>1, <3>1
      <3>3. part(h, n) = part(F, n) BY <3>2
      <3>4. h[n] = part(h, n) /\ F[n] = part(F, n) BY <2>2, <1>7
      <3> HIDE DEF part
      <3> QED BY <3>3, <3>4
    <2> QED BY <2>3, <2>4
  <1> DEFINE above == CHOOSE h : Is(h)
  <1>10. above = F
    <2> HIDE DEF Is
    <2>1. Is(above) BY <1>8
    <2> QED BY <2>1, <1>9
  <1>11. \A n \in Nodes : PathTo(d, n) = above[n] BY DEF PathTo
  <1> HIDE DEF above
  <1>12. \A n \in Nodes : PathTo(d, n) = F[n] BY <1>10, <1>11
  <1>13. \A n \in Nodes : PathTo(d, n) \in V BY <1>12
  <1>14. \A n \in Nodes : part(F, n) = IF n = Root \/ d.up[n] = None THEN <<>> ELSE Append(PathTo(d, d.up[n]), StepTo(d, n))
    BY <1>1, <1>12
  <1>15. \A n \in Nodes : PathTo(d, n) = part(F, n)
    <2> HIDE DEF part
    <2> QED BY <1>7, <1>12
  <1> HIDE DEF part
  <1> QED BY <1>13, <1>14, <1>15

(* The annotated element and what is inside it.                            *)
InRoot(d, n) == n = Root \/ Root \in Over(d, n)

(* How many of the first k of some nodes are elements of a name.           *)
Nth(d, s, k, g) == Cardinality({l \in 1 .. k : d.kind[s[l]] # "text" /\ d.tag[s[l]] = g})

(* Nodes on different places have different numbers.                       *)
LEMMA NthDiffers ==
  ASSUME NEW d, NEW s \in Seq(Nodes), NEW i \in 1 .. Len(s), NEW j \in 1 .. Len(s), i < j,
         NEW g, d.kind[s[j]] # "text", d.tag[s[j]] = g
  PROVE  Nth(d, s, i, g) # Nth(d, s, j, g)
  <1> DEFINE A == {l \in 1 .. i : d.kind[s[l]] # "text" /\ d.tag[s[l]] = g}
             B == {l \in 1 .. j : d.kind[s[l]] # "text" /\ d.tag[s[l]] = g}
  <1>1. Len(s) \in Nat BY LenProperties
  <1>2. j \in B /\ j \notin A /\ A \subseteq B BY <1>1
  <1>3. IsFiniteSet(B)
    <2>1. IsFiniteSet(1 .. j) BY <1>1, FS_Interval
    <2> QED BY <2>1, FS_Subset
  <1> HIDE DEF A, B
  <1>4. Cardinality(A) # Cardinality(B) BY <1>2, <1>3, FS_Subset
  <1> QED BY <1>4 DEF A, B, Nth

(* In one element a step leads to one node.                                *)
LEMMA StepsDiffer ==
  ASSUME NEW d, WellFormed(d), NEW n \in Elements(d), NEW m \in Elements(d), d.up[n] # None, d.up[m] = d.up[n],
         StepTo(d, n) = StepTo(d, m)
  PROVE  n = m
  <1> DEFINE s == d.kids[d.up[n]]
  <1>1. n \in Nodes /\ m \in Nodes /\ d.kind[n] # "text" /\ d.kind[m] # "text" BY DEF Elements
  <1>2. s \in Seq(Nodes) /\ Distinct(s) /\ n \in ToSet(s) /\ m \in ToSet(s) BY <1>1, Parent
  <1>3. d.tag[n] = d.tag[m] /\ Nth(d, s, Position(s, n), d.tag[n]) = Nth(d, s, Position(s, m), d.tag[m])
    <2>1. StepTo(d, n).tag = d.tag[n] /\ StepTo(d, m).tag = d.tag[m] BY DEF StepTo
    <2>2. StepTo(d, n).nth = Nth(d, s, Position(s, n), d.tag[n]) BY DEF StepTo, Nth
    <2>3. StepTo(d, m).nth = Nth(d, s, Position(s, m), d.tag[m]) BY DEF StepTo, Nth
    <2> QED BY <2>1, <2>2, <2>3
  <1> HIDE DEF s
  <1>4. PICK i, j \in 1 .. Len(s) : s[i] = n /\ s[j] = m BY <1>2, ToSetIs
  <1>5. Position(s, n) = i /\ Position(s, m) = j BY <1>2, <1>4, PositionIs
  <1>6. Len(s) \in Nat BY <1>2, LenProperties
  <1>7. ~ (i < j)
    <2>1. i < j => Nth(d, s, i, d.tag[n]) # Nth(d, s, j, d.tag[n]) BY <1>1, <1>2, <1>3, <1>4, NthDiffers
    <2> QED BY <1>3, <1>5, <2>1
  <1>8. ~ (j < i)
    <2>1. j < i => Nth(d, s, j, d.tag[n]) # Nth(d, s, i, d.tag[n]) BY <1>1, <1>2, <1>3, <1>4, NthDiffers
    <2> QED BY <1>3, <1>5, <2>1
  <1>9. i = j BY <1>6, <1>7, <1>8
  <1> QED BY <1>4, <1>9

(* In the annotated element a path leads to one node.                      *)
LEMMA PathsDiffer ==
  ASSUME NEW d, WellFormed(d), NEW x \in Elements(d), NEW y \in Elements(d), InRoot(d, x), InRoot(d, y), PathTo(d, x) = PathTo(d, y)
  PROVE  x = y
  <1> DEFINE Alike(n, m) == m \in Elements(d) /\ InRoot(d, m) /\ PathTo(d, n) = PathTo(d, m)
             S == {n \in Elements(d) : InRoot(d, n) /\ \E m \in Nodes : Alike(n, m) /\ n # m}
  <1>1. Elements(d) \subseteq Nodes BY DEF Elements
  <1>2. ASSUME NEW n \in Elements(d), InRoot(d, n), n # Root
        PROVE  /\ d.up[n] \in Elements(d) /\ d.up[n] # None /\ InRoot(d, d.up[n]) /\ d.up[n] \in Ups(d)[n]
               /\ PathTo(d, n) = Append(PathTo(d, d.up[n]), StepTo(d, n))
               /\ PathTo(d, d.up[n]) \in Seq(Steps(d)) /\ StepTo(d, n) \in Steps(d)
    <2>1. Root \in Over(d, n) BY <1>2 DEF InRoot
    <2>2. n \in Nodes BY <1>1
    <2>3. d.up[n] # None BY <2>1, <2>2, OverIs
    <2>4. d.up[n] \in Elements(d) BY <2>2, <2>3, Parent
    <2>5. InRoot(d, d.up[n])
      <3>1. Over(d, n) = {d.up[n]} \cup Over(d, d.up[n]) BY <2>2, <2>3, OverIs
      <3> QED BY <2>1, <3>1 DEF InRoot
    <2>6. d.up[n] \in Nodes BY <1>1, <2>4
    <2>7. PathTo(d, n) = Append(PathTo(d, d.up[n]), StepTo(d, n)) BY <1>2, <2>2, <2>3, PathsAre
    <2>8. PathTo(d, d.up[n]) \in Seq(Steps(d)) BY <2>6, PathsAre
    <2> QED BY <2>2, <2>3, <2>4, <2>5, <2>6, <2>7, <2>8 DEF Ups, Steps
  <1>3. PathTo(d, Root) = <<>> BY PathsAre, NodesAssumption
  <1>4. ASSUME NEW n \in Elements(d), InRoot(d, n), n # Root PROVE PathTo(d, n) # PathTo(d, Root)
    <2>1. /\ PathTo(d, n) = Append(PathTo(d, d.up[n]), StepTo(d, n))
          /\ PathTo(d, d.up[n]) \in Seq(Steps(d)) /\ StepTo(d, n) \in Steps(d)
      BY <1>2, <1>4
    <2>2. Append(PathTo(d, d.up[n]), StepTo(d, n)) # <<>> BY <2>1, AppendProperties
    <2> QED BY <1>3, <2>1, <2>2
  <1>5. ASSUME NEW n \in S, Ups(d)[n] \cap S = {} PROVE FALSE
    <2>1. PICK m \in Nodes : Alike(n, m) /\ n # m OBVIOUS
    <2>2. n \in Elements(d) /\ InRoot(d, n) /\ m \in Elements(d) /\ InRoot(d, m) /\ PathTo(d, n) = PathTo(d, m) BY <2>1
    <2>3. n # Root /\ m # Root BY <1>4, <2>1, <2>2
    <2> DEFINE u == d.up[n]
               v == d.up[m]
    <2>4. /\ u \in Elements(d) /\ u # None /\ InRoot(d, u) /\ u \in Ups(d)[n]
          /\ PathTo(d, n) = Append(PathTo(d, u), StepTo(d, n))
          /\ PathTo(d, u) \in Seq(Steps(d)) /\ StepTo(d, n) \in Steps(d)
      BY <1>2, <2>2, <2>3
    <2>5. /\ v \in Elements(d) /\ InRoot(d, v)
          /\ PathTo(d, m) = Append(PathTo(d, v), StepTo(d, m))
          /\ PathTo(d, v) \in Seq(Steps(d)) /\ StepTo(d, m) \in Steps(d)
      BY <1>2, <2>2, <2>3
    <2>6. PathTo(d, u) = PathTo(d, v) /\ StepTo(d, n) = StepTo(d, m)
      <3>1. Append(PathTo(d, u), StepTo(d, n)) = Append(PathTo(d, v), StepTo(d, m)) BY <2>2, <2>4, <2>5
      <3> HIDE DEF u, v
      <3> QED BY <2>4, <2>5, <3>1, AppendInjective
    <2>7. u = v
      <3>1. u \notin S BY <1>5, <2>4
      <3>2. v \in Nodes /\ Alike(u, v) BY <1>1, <2>5, <2>6
      <3> HIDE DEF u, v
      <3> QED BY <2>4, <3>1, <3>2
    <2>8. n = m BY <2>2, <2>4, <2>6, <2>7, StepsDiffer
    <2> QED BY <2>1, <2>8
  <1>6. S = {}
    <2>1. S \in SUBSET Nodes BY <1>1
    <2> HIDE DEF S
    <2> QED BY <1>5, <2>1, UpIsGrounded DEF Grounded
  <1>7. y \in Nodes /\ Alike(x, y) BY <1>1
  <1> QED BY <1>6, <1>7

(* A path found leads back.                                                *)
LEMMA NodeAtPath ==
  ASSUME NEW d, WellFormed(d), NEW x \in Elements(d), InRoot(d, x)
  PROVE  NodeAt(d, PathTo(d, x)) = x
  <1> DEFINE found == {n \in InUse(d) \ Texts(d) : (n = Root \/ Inside(d, n, Root)) /\ PathTo(d, n) = PathTo(d, x)}
  <1>1. NodeAt(d, PathTo(d, x)) = IF found = {} THEN None ELSE CHOOSE n \in found : TRUE BY DEF NodeAt
  <1>2. \A n \in InUse(d) \ Texts(d) : n \in Elements(d)
    <2>1. d \in Document BY DEF WellFormed
    <2>2. d.kind \in [Nodes -> {"element", "highlight", "text", "free"}] BY <2>1, Typed
    <2> QED BY <2>2 DEF InUse, Texts, Free, Elements
  <1>3. x \in Nodes /\ x \in InUse(d) \ Texts(d) BY DEF InUse, Texts, Free, Elements
  <1>4. x \in found BY <1>3, OverIs DEF InRoot
  <1>5. ASSUME NEW n \in found PROVE n = x
    <2>1. n \in Elements(d) BY <1>2
    <2>2. n \in Nodes BY <2>1 DEF Elements
    <2>3. InRoot(d, n) BY <2>2, OverIs DEF InRoot
    <2> QED BY <2>1, <2>3, PathsDiffer
  <1> HIDE DEF found
  <1> QED BY <1>1, <1>4, <1>5

(* The elements of a name that stand up to one of them in its parent.      *)
Elders(d, x) ==
  {y \in Nodes : d.kind[y] = "element" /\ d.tag[y] = d.tag[x] /\ InOrder(d.kids[d.up[x]], y, x)}

(* A step counts those, since highlights have a name of their own.         *)
LEMMA StepCounts ==
  ASSUME NEW d, WellFormed(d), Decent(d), NEW x \in Nodes, d.kind[x] = "element", d.up[x] # None
  PROVE  StepTo(d, x).tag = d.tag[x] /\ StepTo(d, x).nth = Cardinality(Elders(d, x))
  <1> DEFINE u == d.up[x]
             s == d.kids[u]
             p == Position(s, x)
             A == {l \in 1 .. p : d.kind[s[l]] # "text" /\ d.tag[s[l]] = d.tag[x]}
             B == Elders(d, x)
             f == [l \in A |-> s[l]]
  <1>1. s \in Seq(Nodes) /\ Distinct(s) /\ x \in ToSet(s) /\ u \in Elements(d) BY Parent
  <1>2. u \in Nodes BY <1>1 DEF Elements
  <1>3. StepTo(d, x).tag = d.tag[x] /\ StepTo(d, x).nth = Cardinality(A) BY DEF StepTo
  <1>4. \A y \in ToSet(s) : y \in Nodes /\ d.kind[y] # "free" BY <1>2, OneParent
  <1>5. \A y \in Nodes : y \in B <=> d.kind[y] = "element" /\ d.tag[y] = d.tag[x] /\ InOrder(s, y, x) BY DEF Elders
  <1>6. B \subseteq Nodes BY DEF Elders
  <1> HIDE DEF s, B
  <1>7. PICK j \in 1 .. Len(s) : s[j] = x /\ p = j
    <2>1. PICK j \in 1 .. Len(s) : s[j] = x BY <1>1, ToSetIs
    <2>2. Position(s, s[j]) = j BY <1>1, PositionIs
    <2> QED BY <2>1, <2>2
  <1>8. Len(s) \in Nat /\ DOMAIN s = 1 .. Len(s) /\ ToSet(s) = {s[i] : i \in 1 .. Len(s)} BY <1>1, LenProperties, ToSetIs
  <1>9. \A l \in 1 .. p : l \in 1 .. Len(s) /\ l <= j BY <1>7, <1>8
  <1>10. ASSUME NEW l \in A PROVE s[l] \in B
    <2>1. l \in 1 .. Len(s) /\ l <= j BY <1>9
    <2>2. s[l] \in Nodes /\ d.kind[s[l]] # "free" BY <1>4, <1>8, <2>1
    <2>3. d.tag[x] # "span" BY DEF Decent
    <2>4. d.kind[s[l]] # "highlight" BY <2>2, <2>3 DEF Decent
    <2>5. d.kind[s[l]] = "element"
      <3>1. d \in Document BY DEF WellFormed
      <3>2. d.kind \in [Nodes -> {"element", "highlight", "text", "free"}] BY <3>1, Typed
      <3> QED BY <2>2, <2>4, <3>2
    <2>6. InOrder(s, s[l], x) BY <1>7, <2>1 DEF InOrder
    <2> QED BY <1>5, <2>2, <2>5, <2>6
  <1>11. ASSUME NEW y \in B PROVE \E l \in A : s[l] = y
    <2>1. y \in Nodes /\ d.kind[y] = "element" /\ d.tag[y] = d.tag[x] /\ InOrder(s, y, x) BY <1>5, <1>6
    <2>2. PICK l, k \in 1 .. Len(s) : l <= k /\ s[l] = y /\ s[k] = x BY <2>1 DEF InOrder
    <2>3. k = j BY <1>1, <1>7, <1>8, <2>2 DEF Distinct
    <2>4. l \in 1 .. p BY <1>7, <1>8, <2>2, <2>3
    <2> QED BY <2>1, <2>2, <2>4
  <1>12. \A l, k \in A : s[l] = s[k] => l = k BY <1>1, <1>8, <1>9 DEF Distinct
  <1>13. IsFiniteSet(A)
    <2>1. IsFiniteSet(1 .. p) BY <1>7, <1>8, FS_Interval
    <2> QED BY <2>1, FS_Subset
  <1> HIDE DEF A
  <1>14. Cardinality(B) = Cardinality(A)
    <2>1. f \in [A -> B] BY <1>10
    <2>2. \A a, b \in A : f[a] = f[b] => a = b BY <1>12
    <2>3. \A t \in B : \E a \in A : f[a] = t BY <1>11
    <2> HIDE DEF f
    <2>4. f \in Bijection(A, B) BY <2>1, <2>2, <2>3, Fun_IsBij
    <2>5. ExistsBijection(A, B) BY <2>4 DEF ExistsBijection
    <2> QED BY <1>13, <2>5, FS_Bijection
  <1> QED BY <1>3, <1>14 DEF B, A

(* Whatever is split, wrapped and unwrapped, an element is at the place it *)
(* was, and its path is the same.                                          *)
LEMMA ShapePaths ==
  ASSUME NEW d, NEW e, WellFormed(d), WellFormed(e), Decent(d), Decent(e), Shape(d, e),
         NEW x \in Nodes, d.kind[x] = "element"
  PROVE  Over(e, x) = Over(d, x) /\ PathTo(e, x) = PathTo(d, x)
  <1> DEFINE Fits(y) == Over(e, y) = Over(d, y) /\ PathTo(e, y) = PathTo(d, y)
             S == {y \in Nodes : d.kind[y] = "element" /\ ~ Fits(y)}
  <1>1. ASSUME NEW y \in S, Ups(d)[y] \cap S = {} PROVE FALSE
    <2> DEFINE u == d.up[y]
    <2>1. y \in Nodes /\ d.kind[y] = "element" OBVIOUS
    <2>2. e.kind[y] = "element" /\ e.up[y] = u /\ e.tag[y] = d.tag[y] BY <2>1 DEF Shape
    <2>3. CASE u = None
      <3>1. Over(e, y) = {} /\ Over(d, y) = {} BY <2>1, <2>2, <2>3, OverIs
      <3>2. PathTo(e, y) = <<>> /\ PathTo(d, y) = <<>> BY <2>1, <2>2, <2>3, PathsAre
      <3> QED BY <3>1, <3>2
    <2>4. CASE u # None
      <3>1. u \in Elements(d) /\ u \in Nodes BY <2>1, <2>4, Parent DEF Elements
      <3>2. d.kind[u] = "element" BY <2>1, <2>4 DEF Decent
      <3>3. u \in Ups(d)[y] BY <2>1, <3>1 DEF Ups
      <3>4. Fits(u) BY <1>1, <3>1, <3>2, <3>3
      <3>5. StepTo(d, y).tag = d.tag[y] /\ StepTo(d, y).nth = Cardinality(Elders(d, y)) BY <2>1, <2>4, StepCounts
      <3>6. StepTo(e, y).tag = e.tag[y] /\ StepTo(e, y).nth = Cardinality(Elders(e, y)) BY <2>1, <2>2, <2>4, StepCounts
      <3>7. Elders(e, y) = Elders(d, y)
        <4>1. ASSUME NEW z \in Nodes
              PROVE  /\ e.kind[z] = "element" <=> d.kind[z] = "element"
                     /\ d.kind[z] = "element" => e.tag[z] = d.tag[z] /\ (InOrder(e.kids[u], z, y) <=> InOrder(d.kids[u], z, y))
          BY <2>1, <3>1 DEF Shape
        <4> QED BY <2>2, <4>1 DEF Elders
      <3>8. StepTo(e, y) = StepTo(d, y)
        <4>1. \A c : StepTo(c, y) = [tag |-> StepTo(c, y).tag, nth |-> StepTo(c, y).nth] BY DEF StepTo
        <4> QED BY <2>2, <3>5, <3>6, <3>7, <4>1
      <3>9. Over(d, y) = {u} \cup Over(d, u) BY <2>1, <2>4, OverIs
      <3>10. Over(e, y) = {u} \cup Over(e, u) BY <2>1, <2>2, <2>4, OverIs
      <3>11. PathTo(d, y) = IF y = Root THEN <<>> ELSE Append(PathTo(d, u), StepTo(d, y)) BY <2>1, <2>4, PathsAre
      <3>12. PathTo(e, y) = IF y = Root THEN <<>> ELSE Append(PathTo(e, u), StepTo(e, y)) BY <2>1, <2>2, <2>4, PathsAre
      <3> QED BY <3>4, <3>8, <3>9, <3>10, <3>11, <3>12
    <2> QED BY <2>3, <2>4
  <1>2. S = {}
    <2>1. S \in SUBSET Nodes OBVIOUS
    <2> HIDE DEF S
    <2> QED BY <1>1, <2>1, UpIsGrounded DEF Grounded
  <1> QED BY <1>2

(* What PointIn and SelectInSeq choose is there, and the first of its      *)
(* kind.                                                                   *)
LEMMA Chosen ==
  ASSUME NEW N, NEW ps \in Seq(N), NEW I, I \subseteq 1 .. Len(ps), I # {}
  PROVE  /\ Min(I) \in I /\ Min(I) \in 1 .. Len(ps) /\ \A j \in I : Min(I) <= j
         /\ ps[IF I # {} THEN Min(I) ELSE 0] = ps[Min(I)] /\ ps[Min(I)] \in ToSet(ps) /\ ps[Min(I)] \in N
  <1>1. Len(ps) \in Nat BY LenProperties
  <1>2. I \subseteq Nat BY <1>1
  <1>3. Min(I) \in I /\ \A j \in I : Min(I) <= j BY <1>2, MinIsLeast
  <1>4. ps[Min(I)] \in ToSet(ps) /\ ToSet(ps) \subseteq N
    <2> DEFINE m == Min(I)
    <2>1. m \in 1 .. Len(ps) BY <1>3
    <2> HIDE DEF m
    <2>2. ps[m] \in ToSet(ps) /\ ToSet(ps) \subseteq N BY <2>1, ToSetIs
    <2> QED BY <2>2 DEF m
  <1> QED BY <1>3, <1>4

(* The texts an anchored range is between are below what both have in      *)
(* common.                                                                 *)
LEMMA BetweenIs ==
  ASSUME NEW d, WellFormed(d), NEW s, NEW e, s # NoPoint, e # NoPoint,
         s.node \in Texts(d), e.node \in Texts(d), d.up[e.node] # Body
  PROVE  \E c \in Elements(d) : /\ Between(d, s, e) = Normalize(d, s, e, c)
                                /\ s.node \in ToSet(TextNodes(d, c)) /\ e.node \in ToSet(TextNodes(d, c))
  <1> DEFINE ps == ParentsOf(d, s.node)
             I == {i \in 1 .. Len(ps) : Inside(d, d.up[e.node], ps[i])}
             c == ps[SelectInSeq(ps, LAMBDA p : Inside(d, d.up[e.node], p))]
  <1>1. Between(d, s, e) = Normalize(d, s, e, c) BY DEF Between
  <1>2. c = ps[IF I # {} THEN Min(I) ELSE 0] BY DEF SelectInSeq
  <1> HIDE DEF c
  <1>3. s.node \in Nodes /\ d.kind[s.node] = "text" /\ e.node \in Nodes /\ d.up[e.node] # None BY TextNode
  <1>4. s.node # Body BY <1>3 DEF WellFormed
  <1>5. ps \in Seq(Nodes) /\ ToSet(ps) = Over(d, s.node) /\ Over(d, s.node) \subseteq Elements(d) /\ Body \in Over(d, s.node)
    <2>1. ps \in Seq(Nodes) /\ ToSet(ps) = Over(d, s.node) BY <1>3, OverIs
    <2>2. Over(d, s.node) \subseteq Elements(d) /\ Body \in Over(d, s.node) BY <1>3, <1>4, OverHolds
    <2> QED BY <2>1, <2>2
  <1>6. d.up[e.node] \in Elements(d) BY <1>3, Parent
  <1>7. d.up[e.node] \in Nodes /\ d.kind[d.up[e.node]] # "free" BY <1>6 DEF Elements
  <1>8. Body \in Over(d, d.up[e.node]) BY <1>7, OverHolds
  <1>9. \A a : Inside(d, d.up[e.node], a) <=> a \in Over(d, d.up[e.node]) BY <1>7, OverIs
  <1>10. Over(d, e.node) = {d.up[e.node]} \cup Over(d, d.up[e.node]) BY <1>3, OverIs
  <1>11. I = {i \in 1 .. Len(ps) : ps[i] \in Over(d, d.up[e.node])} BY <1>9
  <1> HIDE DEF I, ps
  <1>12. I # {} /\ I \subseteq 1 .. Len(ps)
    <2>1. PICK i \in 1 .. Len(ps) : ps[i] = Body BY <1>5, ToSetIs
    <2> QED BY <1>8, <1>11, <2>1
  <1>13. Min(I) \in I /\ c = ps[Min(I)] /\ ps[Min(I)] \in ToSet(ps) BY <1>2, <1>5, <1>12, Chosen
  <1>14. c \in Over(d, s.node) /\ c \in Over(d, d.up[e.node]) BY <1>5, <1>11, <1>13
  <1>15. c \in Over(d, e.node) BY <1>10, <1>14
  <1>16. s.node \in ToSet(TextNodes(d, c)) /\ e.node \in ToSet(TextNodes(d, c)) BY <1>14, <1>15, TextIsBelow
  <1> QED BY <1>1, <1>5, <1>14, <1>16

(* An annotation that is kept: its range is between places in elements of  *)
(* the page, and it is about what is there.                                *)
HeldAt(d, a, x, y, o, q) ==
  /\ d.kind[x] = "element" /\ d.kind[y] = "element" /\ InRoot(d, x) /\ InRoot(d, y)
  /\ o \in 0 .. Len(Reads(d, x)) - 1 /\ q \in 0 .. Len(Reads(d, y))
  /\ a.range = [start |-> [path |-> PathTo(d, x), offset |-> o], end |-> [path |-> PathTo(d, y), offset |-> q]]
  /\ a.about = (First(d, x) + o) + 1 .. First(d, y) + q
(* There are such elements and offsets.                                    *)
Held(d, a) == \E x, y \in Nodes : \E o, q \in Nat : HeldAt(d, a, x, y, o, q)

(* It is kept whatever is split, wrapped and unwrapped.                    *)
LEMMA HeldOn ==
  ASSUME NEW d, NEW e, WellFormed(d), WellFormed(e), Decent(d), Decent(e), Shape(d, e),
         Unchanged(d, e, Elements(d) \ Highlights(d)), NEW a, Held(d, a)
  PROVE  Held(e, a)
  <1>1. PICK x, y \in Nodes : \E o, q \in Nat : HeldAt(d, a, x, y, o, q) BY DEF Held
  <1>2. PICK o, q \in Nat : HeldAt(d, a, x, y, o, q) BY <1>1
  <1>3. ASSUME NEW z \in Nodes, d.kind[z] = "element", InRoot(d, z)
        PROVE  e.kind[z] = "element" /\ InRoot(e, z) /\ PathTo(e, z) = PathTo(d, z) /\ Reads(e, z) = Reads(d, z) /\ First(e, z) = First(d, z)
    <2>1. Over(e, z) = Over(d, z) /\ PathTo(e, z) = PathTo(d, z) BY <1>3, ShapePaths
    <2>2. z \in Elements(d) \ Highlights(d) BY <1>3 DEF Elements, Highlights
    <2>3. e.kind[z] = d.kind[z] /\ Reads(e, z) = Reads(d, z) BY <2>2 DEF Unchanged, Same
    <2> QED BY <1>3, <2>1, <2>3 DEF InRoot, First
  <1>4. /\ e.kind[x] = "element" /\ InRoot(e, x) /\ PathTo(e, x) = PathTo(d, x) /\ Reads(e, x) = Reads(d, x) /\ First(e, x) = First(d, x)
        /\ e.kind[y] = "element" /\ InRoot(e, y) /\ PathTo(e, y) = PathTo(d, y) /\ Reads(e, y) = Reads(d, y) /\ First(e, y) = First(d, y)
    BY <1>2, <1>3 DEF HeldAt
  <1>5. HeldAt(e, a, x, y, o, q) BY <1>2, <1>4 DEF HeldAt
  <1> QED BY <1>5 DEF Held

(* It is found again.                                                      *)
LEMMA AnchorFinds ==
  ASSUME NEW d, WellFormed(d), Decent(d), Numbered(d), Room(d, 2), NEW a, Held(d, a)
  PROVE  About(Anchor(d, a.range)) = a.about
  <1>1. PICK x, y \in Nodes : \E o, q \in Nat : HeldAt(d, a, x, y, o, q) BY DEF Held
  <1>2. PICK o, q \in Nat : HeldAt(d, a, x, y, o, q) BY <1>1
  <1> DEFINE s == PointIn(d, TextNodes(d, x), o, FALSE)
             e == PointIn(d, TextNodes(d, y), q, TRUE)
  <1>3. x \in Elements(d) /\ y \in Elements(d) /\ InRoot(d, x) /\ InRoot(d, y) BY <1>2 DEF HeldAt, Elements
  <1>4. a.range.start.path = PathTo(d, x) /\ a.range.start.offset = o /\ a.range.end.path = PathTo(d, y) /\ a.range.end.offset = q
    <2>1. a.range = [start |-> [path |-> PathTo(d, x), offset |-> o], end |-> [path |-> PathTo(d, y), offset |-> q]] BY <1>2 DEF HeldAt
    <2> QED BY <2>1
  <1>5. NodeAt(d, PathTo(d, x)) = x /\ NodeAt(d, PathTo(d, y)) = y BY <1>3, NodeAtPath
  <1>6. x # None /\ y # None BY NodesAssumption
  <1>7. PointAt(d, a.range.start, FALSE) = s /\ PointAt(d, a.range.end, TRUE) = e BY <1>4, <1>5, <1>6 DEF PointAt
  <1>8. Anchor(d, a.range) = Between(d, s, e) BY <1>7 DEF Anchor
  <1>9. /\ s # NoPoint /\ s.node \in ToSet(TextNodes(d, x)) /\ s.at \in 0 .. Length(d, s.node) /\ s.at # Length(d, s.node)
        /\ Start(d, s.node) + s.at = First(d, x) + o
    <2>1. o \in 0 .. Len(Reads(d, x)) - IF FALSE THEN 0 ELSE 1 BY <1>2 DEF HeldAt
    <2> DEFINE b == FALSE
    <2>2. b \in BOOLEAN /\ o \in 0 .. Len(Reads(d, x)) - (IF b THEN 0 ELSE 1) /\ s = PointIn(d, TextNodes(d, x), o, b) BY <2>1
    <2> HIDE DEF b, s
    <2>3. /\ s # NoPoint /\ s.node \in ToSet(TextNodes(d, x)) /\ s.at \in 0 .. Length(d, s.node)
          /\ b \/ s.at # Length(d, s.node)
          /\ Start(d, s.node) + s.at = First(d, x) + o
      BY <1>3, <2>2, PointInIs
    <2>4. ~ b BY DEF b
    <2> QED BY <2>3, <2>4
  <1>10. /\ e # NoPoint /\ e.node \in ToSet(TextNodes(d, y)) /\ e.at \in 0 .. Length(d, e.node)
         /\ Start(d, e.node) + e.at = First(d, y) + q
    <2>1. q \in 0 .. Len(Reads(d, y)) - IF TRUE THEN 0 ELSE 1
      <3>1. Len(Reads(d, y)) \in Nat BY <1>3, ReadsBeyond
      <3>2. q \in 0 .. Len(Reads(d, y)) BY <1>2 DEF HeldAt
      <3> QED BY <3>1, <3>2
    <2> DEFINE b == TRUE
    <2>2. b \in BOOLEAN /\ q \in 0 .. Len(Reads(d, y)) - (IF b THEN 0 ELSE 1) /\ e = PointIn(d, TextNodes(d, y), q, b) BY <2>1
    <2> HIDE DEF b, e
    <2> QED BY <1>3, <2>2, PointInIs
  <1>11. e.node \in Texts(d) /\ s.node \in Texts(d) BY <1>3, <1>9, <1>10, TextBelow
  <1>12. d.up[e.node] # Body
    <2>1. PointAt(d, a.range.end, TRUE) # NoPoint BY <1>7, <1>10
    <2>2. d.up[PointAt(d, a.range.end, TRUE).node] \in Elements(d) \ {Body}
      <3>1. TRUE \in BOOLEAN OBVIOUS
      <3> QED BY <2>1, PointIs
    <2> QED BY <1>7, <2>2
  <1> HIDE DEF s, e
  <1>13. PICK c \in Elements(d) : /\ Between(d, s, e) = Normalize(d, s, e, c)
                                  /\ s.node \in ToSet(TextNodes(d, c)) /\ e.node \in ToSet(TextNodes(d, c))
    BY <1>9, <1>10, <1>11, <1>12, BetweenIs
  <1>14. About(Normalize(d, s, e, c)) = (Start(d, s.node) + s.at) + 1 .. Start(d, e.node) + e.at
    BY <1>9, <1>10, <1>13, NormalizeAbout
  <1>15. a.about = (First(d, x) + o) + 1 .. First(d, y) + q BY <1>2 DEF HeldAt
  <1> QED BY <1>8, <1>9, <1>10, <1>13, <1>14, <1>15

(* Parents are listed from the inside to the outside.                      *)
LEMMA OverLater ==
  ASSUME NEW d, WellFormed(d), NEW n \in Nodes, NEW i \in 1 .. Len(ParentsOf(d, n)), NEW j \in 1 .. Len(ParentsOf(d, n)), i <= j
  PROVE  ParentsOf(d, n)[j] = ParentsOf(d, n)[i] \/ ParentsOf(d, n)[j] \in Over(d, ParentsOf(d, n)[i])
  <1> DEFINE Listed(ps) == \A k, l \in 1 .. Len(ps) : k <= l => ps[l] = ps[k] \/ ps[l] \in Over(d, ps[k])
             S == {x \in Nodes : ~ Listed(ParentsOf(d, x))}
  <1>1. ASSUME NEW x \in S, Ups(d)[x] \cap S = {} PROVE FALSE
    <2> DEFINE u == d.up[x]
               r == ParentsOf(d, u)
               ps == ParentsOf(d, x)
               one == <<u>>
    <2>1. x \in Nodes OBVIOUS
    <2>2. ps = IF u = None THEN <<>> ELSE one \o r
      <3>1. \A y \in Nodes : Above(d)[y] = ParentsOf(d, y) BY ParentsAre
      <3>2. u # None => u \in Nodes
        <4>1. u # None => u \in Elements(d) BY <2>1, Parent
        <4> QED BY <4>1 DEF Elements
      <3>3. Above(d)[x] = IF u = None THEN <<>> ELSE one \o Above(d)[u] BY <2>1, ParentsAre
      <3> QED BY <2>1, <3>1, <3>2, <3>3
    <2>3. CASE u = None
      <3>1. ps = <<>> BY <2>2, <2>3
      <3>2. Len(<<>>) = 0 OBVIOUS
      <3> HIDE DEF ps
      <3>3. Listed(ps) BY <3>1, <3>2
      <3> QED BY <3>3 DEF ps
    <2>4. CASE u # None
      <3>1. u \in Nodes
        <4>1. u \in Elements(d) BY <2>1, <2>4, Parent
        <4> QED BY <4>1 DEF Elements
      <3>2. u \in Ups(d)[x] BY <2>1, <3>1 DEF Ups
      <3>3. Listed(r) BY <1>1, <3>1, <3>2
      <3>4. r \in Seq(Nodes) /\ ToSet(r) = Over(d, u) BY <3>1, OverIs
      <3>5. one \in Seq(Nodes) /\ Len(one) = 1 /\ one[1] = u BY <3>1
      <3>6. ps = one \o r BY <2>2, <2>4
      <3> HIDE DEF u, r, ps, one
      <3>7. Len(r) \in Nat /\ ToSet(r) = {r[k] : k \in 1 .. Len(r)} BY <3>4, LenProperties, ToSetIs
      <3>8. /\ Len(ps) = 1 + Len(r)
            /\ \A k \in 1 .. 1 + Len(r) : ps[k] = IF k <= 1 THEN one[k] ELSE r[k - 1]
        <4>1. /\ Len(one \o r) = Len(one) + Len(r)
              /\ \A k \in 1 .. Len(one) + Len(r) : (one \o r)[k] = IF k <= Len(one) THEN one[k] ELSE r[k - Len(one)]
          BY <3>4, <3>5, ConcatProperties
        <4>2. Len(one) = 1 BY <3>5
        <4> QED BY <3>6, <4>1, <4>2
      <3>9. ASSUME NEW k \in 1 .. Len(ps), NEW l \in 1 .. Len(ps), k <= l PROVE ps[l] = ps[k] \/ ps[l] \in Over(d, ps[k])
        <4>1. CASE l = 1
          <5>1. k = 1 BY <3>7, <3>8, <3>9, <4>1
          <5> QED BY <4>1, <5>1
        <4>2. CASE l # 1 /\ k = 1
          <5>1. ps[k] = u BY <3>5, <3>7, <3>8, <4>2
          <5>2. ps[l] = r[l - 1] /\ l - 1 \in 1 .. Len(r) BY <3>7, <3>8, <4>2
          <5> QED BY <3>4, <3>7, <5>1, <5>2
        <4>3. CASE k # 1
          <5>1. k - 1 \in 1 .. Len(r) /\ l - 1 \in 1 .. Len(r) /\ k - 1 <= l - 1 /\ ps[k] = r[k - 1] /\ ps[l] = r[l - 1]
            BY <3>7, <3>8, <3>9, <4>3
          <5>2. r[l - 1] = r[k - 1] \/ r[l - 1] \in Over(d, r[k - 1]) BY <3>3, <5>1
          <5> QED BY <5>1, <5>2
        <4> QED BY <4>1, <4>2, <4>3
      <3>10. Listed(ps) BY <3>9
      <3> QED BY <3>10 DEF ps
    <2> QED BY <2>3, <2>4
  <1>2. S = {}
    <2>1. S \in SUBSET Nodes OBVIOUS
    <2> HIDE DEF S
    <2> QED BY <1>1, <2>1, UpIsGrounded DEF Grounded
  <1>3. Listed(ParentsOf(d, n)) BY <1>2
  <1> QED BY <1>3

(* The element a text of the annotated element is in.                      *)
LEMMA UnmarkedIs ==
  ASSUME NEW d, WellFormed(d), NEW n \in Texts(d), Root \in Over(d, n)
  PROVE  /\ Unmarked(d, n) \in Elements(d) /\ d.kind[Unmarked(d, n)] = "element" /\ InRoot(d, Unmarked(d, n))
         /\ n \in ToSet(TextNodes(d, Unmarked(d, n)))
  <1> DEFINE ps == ParentsOf(d, n)
             I == {i \in 1 .. Len(ps) : d.kind[ps[i]] # "highlight"}
             x == Unmarked(d, n)
  <1>1. x = ps[IF I # {} THEN Min(I) ELSE 0] BY DEF Unmarked, SelectInSeq
  <1>2. n \in Nodes BY DEF Texts
  <1>3. ps \in Seq(Nodes) /\ ToSet(ps) = Over(d, n) /\ Over(d, n) \subseteq Elements(d)
    <2>1. ps \in Seq(Nodes) /\ ToSet(ps) = Over(d, n) BY <1>2, OverIs
    <2> QED BY <1>2, <2>1, OverHolds
  <1>4. \A i, j \in 1 .. Len(ps) : i <= j => ps[j] = ps[i] \/ ps[j] \in Over(d, ps[i]) BY <1>2, OverLater
  <1> HIDE DEF ps, x
  <1>5. PICK k \in 1 .. Len(ps) : ps[k] = Root BY <1>3, ToSetIs
  <1>6. k \in I BY <1>5 DEF WellFormed
  <1>7. I \subseteq 1 .. Len(ps) OBVIOUS
  <1>8. \A i \in I : d.kind[ps[i]] # "highlight" OBVIOUS
  <1> HIDE DEF I
  <1>9. Min(I) \in I /\ Min(I) \in 1 .. Len(ps) /\ Min(I) <= k /\ x = ps[Min(I)] /\ ps[Min(I)] \in ToSet(ps)
    <2>1. I # {} BY <1>6
    <2>2. /\ Min(I) \in I /\ Min(I) \in 1 .. Len(ps) /\ \A j \in I : Min(I) <= j
          /\ ps[IF I # {} THEN Min(I) ELSE 0] = ps[Min(I)] /\ ps[Min(I)] \in ToSet(ps)
      BY <1>3, <1>7, <2>1, Chosen
    <2> QED BY <1>1, <1>6, <2>2
  <1>10. x \in Over(d, n) /\ x \in Elements(d) /\ d.kind[x] # "highlight" BY <1>3, <1>8, <1>9
  <1>11. d.kind[x] = "element" BY <1>10 DEF Elements
  <1>12. InRoot(d, x) BY <1>4, <1>5, <1>9 DEF InRoot
  <1>13. n \in ToSet(TextNodes(d, x)) BY <1>10, TextIsBelow
  <1> QED BY <1>10, <1>11, <1>12, <1>13 DEF x

(* A place is kept as an element and an offset in its text.                *)
LEMMA SerializedIs ==
  ASSUME NEW d, WellFormed(d), Decent(d), Numbered(d), NEW n \in Texts(d), Root \in Over(d, n), NEW isEnd \in BOOLEAN
  PROVE  \E x \in Nodes : \E o \in Nat :
           /\ d.kind[x] = "element" /\ InRoot(d, x)
           /\ SerializePoint(d, n, isEnd) = [path |-> PathTo(d, x), offset |-> o]
           /\ o \in 0 .. Len(Reads(d, x)) - IF isEnd THEN 0 ELSE 1
           /\ First(d, x) + o = Start(d, n) + IF isEnd THEN Length(d, n) ELSE 0
  <1> DEFINE x == Unmarked(d, n)
             T == TextNodes(d, x)
             C == d.chars
             k == Position(T, n)
             j == IF isEnd THEN k ELSE k - 1
             o == Sum(C, T, j)
  <1>1. x \in Elements(d) /\ d.kind[x] = "element" /\ InRoot(d, x) /\ n \in ToSet(T) BY UnmarkedIs
  <1>2. x \in Nodes /\ d.kind[x] # "free" BY <1>1 DEF Elements
  <1>3. SerializePoint(d, n, isEnd) = [path |-> PathTo(d, x), offset |-> o]
    BY DEF SerializePoint, Sum, TextOf, Join, Map
  <1> HIDE DEF x
  <1>4. T \in Seq(Nodes) /\ Distinct(T) BY <1>2, TextsDiffer
  <1>5. PICK i \in 1 .. Len(T) : T[i] = n /\ k = i
    <2> HIDE DEF T
    <2>1. PICK i \in 1 .. Len(T) : T[i] = n BY <1>1, <1>4, ToSetIs
    <2>2. Position(T, T[i]) = i BY <1>4, PositionIs
    <2> QED BY <2>1, <2>2
  <1>6. First(d, x) \in Nat /\ StartsAt(d, x, First(d, x)) BY <1>1, FirstIs
  <1>7. /\ Start(d, T[i]) = First(d, x) + Sum(C, T, i - 1) /\ Start(d, T[i]) + Length(d, T[i]) = First(d, x) + Sum(C, T, i)
        /\ Sum(C, T, i - 1) \in Nat /\ Sum(C, T, i) \in Nat
    BY <1>2, <1>6, TextPlaces
  <1>8. Sum(C, T, i - 1) \in 0 .. Len(Reads(d, x)) - 1 /\ Sum(C, T, i) \in 0 .. Len(Reads(d, x)) /\ Len(Reads(d, x)) \in Nat
    BY <1>1, ReadsBeyond
  <1>9. Start(d, n) \in Nat BY StartType
  <1> HIDE DEF T, C, k
  <1>10. CASE isEnd
    <2>1. j = i BY <1>5, <1>10
    <2>2. o = Sum(C, T, i) BY <2>1
    <2> HIDE DEF o
    <2>3. o \in Nat /\ o \in 0 .. Len(Reads(d, x)) - 0 /\ First(d, x) + o = Start(d, n) + Length(d, n)
      BY <1>5, <1>7, <1>8, <2>2
    <2> QED BY <1>1, <1>2, <1>3, <1>10, <2>3
  <1>11. CASE ~ isEnd
    <2>1. j = i - 1 BY <1>5, <1>11
    <2>2. o = Sum(C, T, i - 1) BY <2>1
    <2> HIDE DEF o
    <2>3. o \in Nat /\ o \in 0 .. Len(Reads(d, x)) - 1 /\ First(d, x) + o = Start(d, n) + 0
      BY <1>5, <1>7, <1>8, <1>9, <2>2
    <2> QED BY <1>1, <1>2, <1>3, <1>11, <2>3
  <1> QED BY <1>10, <1>11

(* Max is what its name says.                                              *)
LEMMA MaxIsGreatest ==
  ASSUME NEW n \in Nat, NEW S \in (SUBSET (1 .. n)) \ {{}}
  PROVE  Max(S) \in S /\ \A j \in S : j <= Max(S)
  <1>1. PICK k \in {n - j : j \in S} : \A l \in {n - j : j \in S} : k <= l
    <2>1. {n - j : j \in S} \subseteq Nat /\ {n - j : j \in S} # {}
      <3>1. \A j \in S : n - j \in Nat OBVIOUS
      <3> QED BY <3>1
    <2> QED BY <2>1, Least
  <1>2. PICK m \in S : k = n - m BY <1>1
  <1>3. \A j \in S : j <= m
    <2>1. ASSUME NEW j \in S PROVE j <= m
      <3>1. n - m <= n - j BY <1>1, <1>2
      <3>2. j \in Nat /\ m \in Nat OBVIOUS
      <3> QED BY <3>1, <3>2
    <2> QED BY <2>1
  <1>4. \E x \in S : \A y \in S : x >= y
    <2>1. \A y \in S : y \in Nat OBVIOUS
    <2> QED BY <1>3, <2>1
  <1>5. \A y \in S : Max(S) >= y /\ Max(S) \in S BY <1>4 DEF Max
  <1>6. S # {} /\ \A y \in S : y \in Nat OBVIOUS
  <1> QED BY <1>5, <1>6

(* A range that ends in a text is a stretch of texts, wherever it begins.  *)
LEMMA RangeStretch ==
  ASSUME NEW d, WellFormed(d), NEW r, r.common \in Elements(d), r.end \in ToSet(TextNodes(d, r.common))
  PROVE  \E p \in Nat \ {0} : \E q \in 1 .. Len(TextNodes(d, r.common)) : RangeNodes(d, r) = SubSeq(TextNodes(d, r.common), p, q)
  <1> DEFINE T == TextNodes(d, r.common)
             s == IndexOf(d, T, r.start)
             e == IndexOf(d, T, r.end)
  <1>1. r.common \in Nodes BY DEF Elements
  <1>2. T \in Seq(Nodes) /\ Distinct(T) BY <1>1, TextsDiffer
  <1>3. T \in Seq(Texts(d)) BY <1>1, TextsBelow
  <1>4. RangeNodes(d, r) = SubSeq(T, IF s < 0 THEN Len(T) ELSE s + 1, IF e = -1 THEN Len(T) ELSE e + 1)
    BY DEF RangeNodes
  <1>5. r.end \in ToSet(T) OBVIOUS
  <1> HIDE DEF T
  <1>6. Len(T) \in Nat \ {0} /\ T # <<>>
    <2>1. PICK i \in 1 .. Len(T) : T[i] = r.end BY <1>2, <1>5, ToSetIs
    <2>2. Len(T) \in Nat BY <1>2, LenProperties
    <2>3. Len(T) # 0 BY <2>1, <2>2
    <2>4. Len(<<>>) = 0 OBVIOUS
    <2> QED BY <2>2, <2>3, <2>4
  <1>7. DOMAIN T = 1 .. Len(T) BY <1>2, LenProperties
  <1>8. ASSUME NEW x, x # None, Contains(T, x)
        PROVE  IndexOf(d, T, x) \in 0 .. Len(T) - 1
    <2>1. PICK i \in 1 .. Len(T) : T[i] = x BY <1>7, <1>8 DEF Contains
    <2>2. Position(T, T[i]) = i BY <1>2, PositionIs
    <2>3. IndexOf(d, T, x) = Position(T, x) - 1 BY <1>6, <1>8 DEF IndexOf
    <2> QED BY <1>6, <2>1, <2>2, <2>3
  <1>9. ASSUME NEW x, x # None, ~ Contains(T, x) PROVE IndexOf(d, T, x) = -1 BY <1>6, <1>9 DEF IndexOf
  <1>10. IndexOf(d, T, None) \in Nat
    <2> DEFINE h == Head(T)
               sibs == d.kids[d.up[h]]
               A == {i \in DOMAIN sibs : i < Position(sibs, h) /\ d.kind[sibs[i]] # "text"}
    <2>1. IndexOf(d, T, None) = Cardinality(A) BY <1>6 DEF IndexOf
    <2>2. h \in Texts(d)
      <3>1. h = T[1] /\ 1 \in 1 .. Len(T) BY <1>6
      <3> HIDE DEF h
      <3> QED BY <1>3, <3>1, ElementOfSeq
    <2>3. h \in Nodes /\ d.up[h] # None BY <2>2, TextNode
    <2>4. sibs \in Seq(Nodes) BY <2>3, Parent
    <2> HIDE DEF sibs
    <2>5. DOMAIN sibs = 1 .. Len(sibs) /\ Len(sibs) \in Nat BY <2>4, LenProperties
    <2>6. IsFiniteSet(1 .. Len(sibs)) BY <2>5, FS_Interval
    <2>7. A \in SUBSET (1 .. Len(sibs)) BY <2>5
    <2> HIDE DEF A
    <2>8. IsFiniteSet(A) BY <2>6, <2>7, FS_Subset
    <2>9. Cardinality(A) \in Nat BY <2>8, FS_CardinalityType
    <2> QED BY <2>1, <2>9
  <1>11. s = -1 \/ s \in Nat
    <2>1. CASE r.start = None BY <1>10, <2>1
    <2>2. CASE r.start # None /\ Contains(T, r.start)
      <3>1. s \in 0 .. Len(T) - 1 BY <1>8, <2>2
      <3> QED BY <1>6, <3>1
    <2>3. CASE r.start # None /\ ~ Contains(T, r.start) BY <1>9, <2>3
    <2> QED BY <2>1, <2>2, <2>3
  <1>12. e \in 0 .. Len(T) - 1
    <2>1. r.end # None
      <3>1. r.end \in Nodes BY <1>2, <1>5, ToSetIs
      <3> QED BY <3>1, NodesAssumption
    <2>2. Contains(T, r.end)
      <3>1. PICK i \in 1 .. Len(T) : T[i] = r.end BY <1>2, <1>5, ToSetIs
      <3> QED BY <1>7, <3>1 DEF Contains
    <2> QED BY <1>8, <2>1, <2>2
  <1> HIDE DEF s, e
  <1>13. (IF s < 0 THEN Len(T) ELSE s + 1) \in Nat \ {0} BY <1>6, <1>11
  <1>14. (IF e = -1 THEN Len(T) ELSE e + 1) \in 1 .. Len(T) BY <1>6, <1>12
  <1> QED BY <1>4, <1>13, <1>14 DEF T

(* The texts of such a range are texts of what its ends have in common.    *)
LEMMA StretchIs ==
  ASSUME NEW N, NEW T \in Seq(N), NEW p \in Nat \ {0}, NEW q \in 0 .. Len(T), NEW ns, ns = SubSeq(T, p, q)
  PROVE  /\ ns \in Seq(N) /\ Len(ns) \in Nat
         /\ \A i \in 1 .. Len(ns) : p + i - 1 \in p .. q /\ p + i - 1 \in 1 .. Len(T) /\ ns[i] = T[p + i - 1]
         /\ \A k \in p .. q : k - p + 1 \in 1 .. Len(ns) /\ ns[k - p + 1] = T[k]
  <1>1. Len(T) \in Nat BY LenProperties
  <1>2. \A i \in p .. q : T[i] \in N
    <2>1. \A i \in p .. q : i \in 1 .. Len(T) BY <1>1
    <2> QED BY <2>1, ElementOfSeq
  <1>3. /\ SubSeq(T, p, q) \in Seq(N) /\ Len(SubSeq(T, p, q)) = (IF p <= q THEN q - p + 1 ELSE 0)
        /\ \A i \in 1 .. q - p + 1 : SubSeq(T, p, q)[i] = T[p + i - 1]
    BY <1>1, <1>2, SubSeqProperties
  <1>4. ns \in Seq(N) /\ Len(ns) = (IF p <= q THEN q - p + 1 ELSE 0) BY <1>3
  <1>5. \A i \in 1 .. q - p + 1 : ns[i] = T[p + i - 1] BY <1>3
  <1>6. ASSUME NEW i \in 1 .. Len(ns) PROVE p + i - 1 \in p .. q /\ p + i - 1 \in 1 .. Len(T) /\ ns[i] = T[p + i - 1]
    <2>1. i \in 1 .. q - p + 1 /\ p <= q BY <1>1, <1>4
    <2> QED BY <1>1, <1>5, <2>1
  <1>7. ASSUME NEW k \in p .. q PROVE k - p + 1 \in 1 .. Len(ns) /\ ns[k - p + 1] = T[k]
    <2>1. p <= q /\ k - p + 1 \in 1 .. q - p + 1 /\ p + (k - p + 1) - 1 = k BY <1>1
    <2> QED BY <1>4, <1>5, <2>1
  <1>8. Len(ns) \in Nat BY <1>1, <1>4
  <1> QED BY <1>4, <1>6, <1>7, <1>8

(* What is left of a range in the annotated element: from its first text   *)
(* there to its last.                                                      *)
Limited(r, l, i, j) ==
  LET ns == RangeNodes(r.doc, r)
  IN /\ i \in 1 .. Len(ns) /\ j \in 1 .. Len(ns) /\ l.start = ns[i] /\ l.end = ns[j]
     /\ Root \in Over(r.doc, ns[i]) /\ Root \in Over(r.doc, ns[j])
     /\ \A k \in 1 .. Len(ns) : Root \in Over(r.doc, ns[k]) => i <= k /\ k <= j

(* Limiting changes no node, and yields the first and last text inside.    *)
LEMMA LimitIs ==
  ASSUME NEW r, WellFormed(r.doc), r \in [doc : {r.doc}, start : {r.start}, end : {r.end}, common : {r.common}],
         RangeNodes(r.doc, r) \in Seq(Texts(r.doc)), Limit(r, Root).start # None
  PROVE  /\ Limit(r, Root).doc = r.doc /\ Limit(r, Root).common \in Elements(r.doc)
         /\ Limit(r, Root).start \in ToSet(TextNodes(r.doc, Limit(r, Root).common))
         /\ Limit(r, Root).end \in ToSet(TextNodes(r.doc, Limit(r, Root).common))
         /\ \E i, j \in Nat : Limited(r, Limit(r, Root), i, j)
  <1> DEFINE d == r.doc
             ns == RangeNodes(d, r)
             J == {i \in DOMAIN ns : Inside(d, ns[i], Root)}
             first == ns[Min(J)]
             last == ns[Max(J)]
             ps == ParentsOf(d, last)
             I == {i \in 1 .. Len(ps) : Inside(d, first, ps[i])}
             c == ps[SelectInSeq(ps, LAMBDA p : Inside(d, first, p))]
             l == Limit(r, Root)
  <1>1. l = IF J = {} THEN [r EXCEPT !.start = None] ELSE [r EXCEPT !.start = first, !.end = last, !.common = c]
    BY DEF Limit
  <1>2. c = ps[IF I # {} THEN Min(I) ELSE 0] BY DEF SelectInSeq
  <1> HIDE DEF c
  <1>3. ns \in Seq(Texts(d)) OBVIOUS
  <1> HIDE DEF ns, l
  <1>4. J # {}
    <2>1. J = {} => l.start = None
      <3> HIDE DEF J
      <3>1. J = {} => l = [r EXCEPT !.start = None] BY <1>1
      <3>2. [r EXCEPT !.start = None].start = None OBVIOUS
      <3> QED BY <3>1, <3>2
    <2>2. l.start # None BY DEF l
    <2> QED BY <2>1, <2>2
  <1>5. DOMAIN ns = 1 .. Len(ns) /\ Len(ns) \in Nat /\ \A i \in 1 .. Len(ns) : ns[i] \in Texts(d)
    BY <1>3, LenProperties, ElementOfSeq
  <1>6. \A n \in Nodes : \A a : Inside(d, n, a) <=> a \in Over(d, n) BY OverIs
  <1>7. J = {i \in 1 .. Len(ns) : Root \in Over(d, ns[i])} BY <1>5, <1>6 DEF Texts
  <1> HIDE DEF J
  <1>8. J \in (SUBSET (1 .. Len(ns))) \ {{}} BY <1>4, <1>7
  <1>9. Max(J) \in J /\ \A j \in J : j <= Max(J) BY <1>5, <1>8, MaxIsGreatest
  <1>10. Min(J) \in J /\ \A j \in J : Min(J) <= j
    <2>1. J \subseteq Nat /\ J # {} BY <1>5, <1>8
    <2> QED BY <2>1, MinIsLeast
  <1>11. first \in Texts(d) /\ last \in Texts(d) /\ Root \in Over(d, first) /\ Root \in Over(d, last) BY <1>5, <1>7, <1>9, <1>10
  <1>12. \A k \in 1 .. Len(ns) : Root \in Over(d, ns[k]) => Min(J) <= k /\ k <= Max(J) BY <1>7, <1>9, <1>10
  <1>13. l = [r EXCEPT !.start = first, !.end = last, !.common = c] BY <1>1, <1>4
  <1>14. l.doc = d /\ l.start = first /\ l.end = last /\ l.common = c BY <1>13
  <1>15. Min(J) \in Nat /\ Max(J) \in Nat /\ Min(J) \in 1 .. Len(ns) /\ Max(J) \in 1 .. Len(ns) BY <1>5, <1>7, <1>9, <1>10
  <1>16. Limited(r, l, Min(J), Max(J)) BY <1>11, <1>12, <1>14, <1>15 DEF Limited, ns
  <1> HIDE DEF first, last
  <1>17. first \in Nodes /\ last \in Nodes BY <1>11 DEF Texts
  <1>18. ps \in Seq(Nodes) /\ ToSet(ps) = Over(d, last) /\ Over(d, last) \subseteq Elements(d)
    <2>1. ps \in Seq(Nodes) /\ ToSet(ps) = Over(d, last) BY <1>17, OverIs
    <2> QED BY <1>17, <2>1, OverHolds
  <1>19. I = {i \in 1 .. Len(ps) : ps[i] \in Over(d, first)} BY <1>6, <1>17
  <1> HIDE DEF I, ps
  <1>20. I # {} /\ I \subseteq 1 .. Len(ps)
    <2>1. PICK i \in 1 .. Len(ps) : ps[i] = Root BY <1>11, <1>18, ToSetIs
    <2> QED BY <1>11, <1>19, <2>1
  <1>21. Min(I) \in I /\ ps[Min(I)] \in ToSet(ps) /\ c = ps[Min(I)] BY <1>2, <1>18, <1>20, Chosen
  <1>22. c \in Over(d, last) /\ c \in Over(d, first) BY <1>18, <1>19, <1>21
  <1>23. first \in ToSet(TextNodes(d, c)) /\ last \in ToSet(TextNodes(d, c)) BY <1>11, <1>22, TextIsBelow
  <1>24. c \in Elements(d) BY <1>18, <1>22
  <1> QED BY <1>14, <1>15, <1>16, <1>23, <1>24 DEF l

(* What is made of it can be kept.                                         *)
LEMMA SerializedHeld ==
  ASSUME NEW r, WellFormed(r.doc), Decent(r.doc), Numbered(r.doc), r.common \in Elements(r.doc),
         r.start \in ToSet(TextNodes(r.doc, r.common)), r.end \in ToSet(TextNodes(r.doc, r.common)),
         Root \in Over(r.doc, r.start), Root \in Over(r.doc, r.end),
         NEW a, a.range = Serialize(r), a.about = About(r)
  PROVE  Held(r.doc, a)
  <1> DEFINE d == r.doc
             no == FALSE
             yes == TRUE
  <1>1. r.start \in Texts(d) /\ r.end \in Texts(d) BY TextBelow
  <1>2. a.range = [start |-> SerializePoint(d, r.start, no), end |-> SerializePoint(d, r.end, yes)] BY DEF Serialize
  <1>3. no \in BOOLEAN /\ yes \in BOOLEAN OBVIOUS
  <1>4. About(r) = Start(d, r.start) + 1 .. Start(d, r.end) + Length(d, r.end) BY AboutIs
  <1> HIDE DEF d, no, yes
  <1>5. PICK x \in Nodes : \E o \in Nat :
           /\ d.kind[x] = "element" /\ InRoot(d, x)
           /\ SerializePoint(d, r.start, no) = [path |-> PathTo(d, x), offset |-> o]
           /\ o \in 0 .. Len(Reads(d, x)) - IF no THEN 0 ELSE 1
           /\ First(d, x) + o = Start(d, r.start) + IF no THEN Length(d, r.start) ELSE 0
    BY <1>1, <1>3, SerializedIs DEF d
  <1>6. PICK o \in Nat :
           /\ d.kind[x] = "element" /\ InRoot(d, x)
           /\ SerializePoint(d, r.start, no) = [path |-> PathTo(d, x), offset |-> o]
           /\ o \in 0 .. Len(Reads(d, x)) - IF no THEN 0 ELSE 1
           /\ First(d, x) + o = Start(d, r.start) + IF no THEN Length(d, r.start) ELSE 0
    BY <1>5
  <1>7. PICK y \in Nodes : \E q \in Nat :
           /\ d.kind[y] = "element" /\ InRoot(d, y)
           /\ SerializePoint(d, r.end, yes) = [path |-> PathTo(d, y), offset |-> q]
           /\ q \in 0 .. Len(Reads(d, y)) - IF yes THEN 0 ELSE 1
           /\ First(d, y) + q = Start(d, r.end) + IF yes THEN Length(d, r.end) ELSE 0
    BY <1>1, <1>3, SerializedIs DEF d
  <1>8. PICK q \in Nat :
           /\ d.kind[y] = "element" /\ InRoot(d, y)
           /\ SerializePoint(d, r.end, yes) = [path |-> PathTo(d, y), offset |-> q]
           /\ q \in 0 .. Len(Reads(d, y)) - IF yes THEN 0 ELSE 1
           /\ First(d, y) + q = Start(d, r.end) + IF yes THEN Length(d, r.end) ELSE 0
    BY <1>7
  <1>9. Start(d, r.start) \in Nat BY <1>1, StartType DEF d
  <1>10. o \in 0 .. Len(Reads(d, x)) - 1 /\ First(d, x) + o = Start(d, r.start) BY <1>6, <1>9 DEF no
  <1>11. q \in 0 .. Len(Reads(d, y)) /\ First(d, y) + q = Start(d, r.end) + Length(d, r.end)
    <2>1. y \in Elements(d) BY <1>8 DEF Elements
    <2>2. Len(Reads(d, y)) \in Nat BY <2>1, ReadsBeyond DEF d
    <2> QED BY <1>8, <2>2 DEF yes
  <1>12. HeldAt(d, a, x, y, o, q)
    <2>1. a.about = (First(d, x) + o) + 1 .. First(d, y) + q BY <1>4, <1>10, <1>11
    <2> QED BY <1>2, <1>6, <1>8, <1>10, <1>11, <2>1 DEF HeldAt
  <1> QED BY <1>12 DEF Held, d

(* Where a text ends in the page.                                          *)
LEMMA EndIs ==
  ASSUME NEW d, WellFormed(d), NEW t \in Texts(d)
  PROVE  Len(TextOf(d, SubSeq(TextNodes(d, Body), 1, Position(TextNodes(d, Body), t)))) = Start(d, t) + Length(d, t)
  <1> DEFINE T == TextNodes(d, Body)
             C == d.chars
  <1>1. Body \in Nodes /\ d.kind[Body] # "free" /\ d.kind[Body] # "text" BY NodesAssumption DEF WellFormed
  <1>2. T \in Seq(Nodes) /\ Distinct(T) BY <1>1, TextsDiffer
  <1>3. t \in Nodes /\ t # Body /\ d.kind[t] # "free" BY <1>1 DEF Texts
  <1>4. Body \in Over(d, t) BY <1>3, OverHolds
  <1>5. t \in ToSet(T) BY <1>4, TextIsBelow
  <1>6. PICK F \in Nat : StartsAt(d, Body, F) BY <1>1, NodeStarts
  <1>7. ASSUME NEW i \in 1 .. Len(T)
        PROVE  /\ Start(d, T[i]) = F + Sum(C, T, i - 1) /\ Start(d, T[i]) + Length(d, T[i]) = F + Sum(C, T, i)
               /\ Sum(C, T, i - 1) \in Nat /\ Sum(C, T, i) \in Nat /\ Length(d, T[i]) \in Nat
    BY <1>1, <1>6, TextPlaces
  <1>8. \A k : Len(TextOf(d, SubSeq(T, 1, k))) = Sum(C, T, k) BY DEF Sum, TextOf, Join, Map
  <1>9. Start(d, t) = Sum(C, T, Position(T, t) - 1) BY DEF Start
  <1> HIDE DEF T, C
  <1>10. PICK i \in 1 .. Len(T) : T[i] = t BY <1>2, <1>5, ToSetIs
  <1>11. Position(T, T[i]) = i BY <1>2, PositionIs
  <1>12. Start(d, t) = F + Sum(C, T, i - 1) /\ Start(d, t) = Sum(C, T, i - 1) /\ Start(d, t) + Length(d, t) = F + Sum(C, T, i)
    BY <1>7, <1>9, <1>10, <1>11
  <1>13. Sum(C, T, i - 1) \in Nat /\ Sum(C, T, i) \in Nat BY <1>7
  <1>14. F = 0 BY <1>12, <1>13
  <1>15. Sum(C, T, i) = Start(d, t) + Length(d, t) BY <1>12, <1>13, <1>14
  <1>16. Len(TextOf(d, SubSeq(T, 1, Position(T, t)))) = Sum(C, T, i) BY <1>8, <1>10, <1>11
  <1> QED BY <1>15, <1>16 DEF T

(* A place in the page.                                                    *)
LEMMA PointsAre ==
  ASSUME NEW d, WellFormed(d), NEW c \in Points(d)
  PROVE  /\ c.node \in Nodes /\ c.node \in Texts(d) \cup Elements(d) /\ d.kind[c.node] # "free"
         /\ d.kind[c.node] = "text" => c.node \in Texts(d) /\ c.at \in 0 .. Length(d, c.node)
         /\ d.kind[c.node] # "text" => c.node \in Elements(d) /\ c.at \in 0 .. Len(d.kids[c.node]) /\ d.kids[c.node] \in Seq(Nodes)
  <1>1. PICK n \in InUse(d) : c \in [node : {n}, at : 0 .. IF d.kind[n] = "text" THEN Length(d, n) ELSE Len(d.kids[n])]
    BY DEF Points
  <1>2. c.node = n /\ c.at \in 0 .. IF d.kind[n] = "text" THEN Length(d, n) ELSE Len(d.kids[n]) BY <1>1
  <1>3. n \in Nodes /\ d.kind[n] # "free" BY DEF InUse, Free
  <1>4. d \in Document BY DEF WellFormed
  <1>5. d.kind \in [Nodes -> {"element", "highlight", "text", "free"}] /\ d.kids \in [Nodes -> Seq(Nodes)] BY <1>4, Typed
  <1>6. d.kind[n] = "text" => n \in Texts(d) BY <1>3 DEF Texts
  <1>7. d.kind[n] # "text" => n \in Elements(d) /\ d.kids[n] \in Seq(Nodes) BY <1>3, <1>5 DEF Elements
  <1> QED BY <1>2, <1>3, <1>6, <1>7

(* The text at a child.                                                    *)
LEMMA ChildText ==
  ASSUME NEW d, WellFormed(d), NEW u \in Elements(d), NEW i \in 1 .. Len(d.kids[u])
  PROVE  /\ Head(TextNodes(d, d.kids[u][i])) \in Texts(d)
         /\ u \in Over(d, Head(TextNodes(d, d.kids[u][i])))
  <1> DEFINE n == d.kids[u][i]
             T == TextNodes(d, n)
             h == Head(T)
             s == d.kids[u]
  <1>1. u \in Nodes BY DEF Elements
  <1>2. s \in Seq(Nodes)
    <2>1. d \in Document BY DEF WellFormed
    <2>2. d.kids \in [Nodes -> Seq(Nodes)] BY <2>1, Typed
    <2> QED BY <1>1, <2>2
  <1>3. n \in ToSet(s)
    <2>1. i \in 1 .. Len(s) /\ n = s[i] OBVIOUS
    <2> HIDE DEF s, n
    <2> QED BY <1>2, <2>1, ToSetIs
  <1>4. n \in Nodes /\ d.up[n] = u /\ d.kind[n] # "free" BY <1>1, <1>3, OneParent
  <1> HIDE DEF n, s
  <1>5. T \in Seq(Texts(d)) /\ T # <<>> /\ \A t \in ToSet(T) : t = n \/ n \in Over(d, t) BY <1>4, TextsBelow
  <1> HIDE DEF T
  <1>6. h = T[1] /\ 1 \in 1 .. Len(T)
    <2>1. Len(T) \in Nat /\ Len(T) # 0 BY <1>5, LenProperties, EmptySeq
    <2> QED BY <2>1
  <1>7. h \in Texts(d) /\ h \in ToSet(T)
    <2> HIDE DEF h
    <2>1. h \in Texts(d) BY <1>5, <1>6, ElementOfSeq
    <2>2. ToSet(T) = {T[k] : k \in 1 .. Len(T)} BY <1>5, ToSetIs
    <2> QED BY <1>6, <2>1, <2>2
  <1> HIDE DEF h
  <1>8. u # None BY <1>1, NodesAssumption
  <1>9. u \in Over(d, n) BY <1>4, <1>8, OverIs
  <1>10. u \in Over(d, h)
    <2>1. CASE h = n BY <1>9, <2>1
    <2>2. CASE n \in Over(d, h)
      <3>1. h \in Nodes BY <1>7 DEF Texts
      <3> QED BY <1>9, <2>2, <3>1, OverOver
    <2> QED BY <1>5, <1>7, <2>1, <2>2
  <1> QED BY <1>7, <1>10 DEF h, T, n

(* A text and an offset in it that stand for a place.                      *)
PointOf(d, c, s) ==
  /\ s.node \in Texts(d) /\ s.at \in 0 .. Length(d, s.node) /\ c.node \in {s.node} \cup Over(d, s.node)
  /\ CharsBefore(d, c) = Start(d, s.node) + s.at

(* Where a selection begins.                                               *)
LEMMA StartPoint ==
  ASSUME NEW d, WellFormed(d), NEW c \in Points(d), NormalizeStart(d, c) # NoPoint
  PROVE  PointOf(d, c, NormalizeStart(d, c))
  <1> DEFINE n == c.node
             s == NormalizeStart(d, c)
  <1>1. CASE d.kind[n] = "text"
    <2>1. n \in Texts(d) /\ c.at \in 0 .. Length(d, n) BY <1>1, PointsAre
    <2>2. s = c BY <1>1 DEF NormalizeStart
    <2>3. CharsBefore(d, c) = Start(d, n) + c.at BY <1>1 DEF CharsBefore, Start, Sum, TextOf, Join, Map
    <2> QED BY <2>1, <2>2, <2>3 DEF PointOf
  <1>2. CASE d.kind[n] # "text"
    <2> DEFINE h == Head(TextNodes(d, d.kids[n][c.at + 1]))
    <2>1. n \in Elements(d) /\ c.at \in 0 .. Len(d.kids[n]) /\ d.kids[n] \in Seq(Nodes) BY <1>2, PointsAre
    <2>2. c.at # Len(d.kids[n]) /\ s = [node |-> h, at |-> 0] BY <1>2 DEF NormalizeStart
    <2>3. c.at + 1 \in 1 .. Len(d.kids[n])
      <3>1. Len(d.kids[n]) \in Nat BY <2>1, LenProperties
      <3> QED BY <2>1, <2>2, <3>1
    <2>4. h \in Texts(d) /\ n \in Over(d, h) BY <2>1, <2>3, ChildText
    <2>5. CharsBefore(d, c) = Start(d, h) BY <1>2, <2>2 DEF CharsBefore, Start, Sum, TextOf, Join, Map
    <2> HIDE DEF h
    <2>6. Start(d, h) \in Nat /\ Length(d, h) \in Nat BY <2>4, StartType
    <2>7. s.node = h /\ s.at = 0 BY <2>2
    <2> HIDE DEF s
    <2> QED BY <2>4, <2>5, <2>6, <2>7 DEF PointOf, s
  <1> QED BY <1>1, <1>2

(* Where it ends.                                                          *)
LEMMA EndPoint ==
  ASSUME NEW d, WellFormed(d), NEW c \in Points(d)
  PROVE  PointOf(d, c, NormalizeEnd(d, c))
  <1> DEFINE n == c.node
             s == NormalizeEnd(d, c)
  <1>1. CASE d.kind[n] = "text"
    <2>1. n \in Texts(d) /\ c.at \in 0 .. Length(d, n) BY <1>1, PointsAre
    <2>2. s = c BY <1>1 DEF NormalizeEnd
    <2>3. CharsBefore(d, c) = Start(d, n) + c.at BY <1>1 DEF CharsBefore, Start, Sum, TextOf, Join, Map
    <2> QED BY <2>1, <2>2, <2>3 DEF PointOf
  <1>2. CASE d.kind[n] # "text" /\ c.at < Len(d.kids[n])
    <2> DEFINE h == Head(TextNodes(d, d.kids[n][c.at + 1]))
    <2>1. n \in Elements(d) /\ c.at \in 0 .. Len(d.kids[n]) /\ d.kids[n] \in Seq(Nodes) BY <1>2, PointsAre
    <2>2. s = [node |-> h, at |-> 0] BY <1>2 DEF NormalizeEnd
    <2>3. c.at + 1 \in 1 .. Len(d.kids[n]) /\ c.at # Len(d.kids[n])
      <3>1. Len(d.kids[n]) \in Nat BY <2>1, LenProperties
      <3> QED BY <1>2, <2>1, <3>1
    <2>4. h \in Texts(d) /\ n \in Over(d, h) BY <2>1, <2>3, ChildText
    <2>5. CharsBefore(d, c) = Start(d, h) BY <1>2, <2>3 DEF CharsBefore, Start, Sum, TextOf, Join, Map
    <2> HIDE DEF h
    <2>6. Start(d, h) \in Nat /\ Length(d, h) \in Nat BY <2>4, StartType
    <2>7. s.node = h /\ s.at = 0 BY <2>2
    <2> HIDE DEF s
    <2> QED BY <2>4, <2>5, <2>6, <2>7 DEF PointOf, s
  <1>3. CASE d.kind[n] # "text" /\ ~ (c.at < Len(d.kids[n]))
    <2> DEFINE T == TextNodes(d, n)
               h == Last(T)
    <2>1. n \in Elements(d) /\ c.at \in 0 .. Len(d.kids[n]) /\ d.kids[n] \in Seq(Nodes) BY <1>3, PointsAre
    <2>2. s = [node |-> h, at |-> Length(d, h)] BY <1>3 DEF NormalizeEnd
    <2>3. c.at = Len(d.kids[n])
      <3>1. Len(d.kids[n]) \in Nat BY <2>1, LenProperties
      <3> QED BY <1>3, <2>1, <3>1
    <2>4. n \in Nodes /\ d.kind[n] # "free" BY <2>1 DEF Elements
    <2>5. T \in Seq(Texts(d)) /\ T # <<>> /\ \A t \in ToSet(T) : t = n \/ n \in Over(d, t) BY <2>4, TextsBelow
    <2>6. h \in Texts(d) /\ n \in {h} \cup Over(d, h)
      <3> HIDE DEF T
      <3>1. h \in ToSet(T) /\ h \in Texts(d) BY <2>5, LastIn
      <3> QED BY <2>5, <3>1
    <2>7. CharsBefore(d, c) = Start(d, h) + Length(d, h)
      <3> DEFINE B == TextNodes(d, Body)
      <3>1. CharsBefore(d, c) = Len(TextOf(d, SubSeq(B, 1, Position(B, h) - 0))) BY <1>3, <2>3 DEF CharsBefore
      <3>2. Position(B, h) - 0 = Position(B, h)
        <4>1. Body \in Nodes /\ d.kind[Body] # "free" /\ d.kind[Body] # "text" BY NodesAssumption DEF WellFormed
        <4>2. B \in Seq(Nodes) /\ Distinct(B) BY <4>1, TextsDiffer
        <4>3. Body \in Over(d, h)
          <5> HIDE DEF h
          <5>1. h \in Nodes /\ h # Body /\ d.kind[h] # "free" BY <2>6, <4>1 DEF Texts
          <5> QED BY <5>1, OverHolds
        <4>4. h \in ToSet(B)
          <5> HIDE DEF h
          <5> QED BY <2>6, <4>3, TextIsBelow
        <4> HIDE DEF B, h
        <4>5. PICK i \in 1 .. Len(B) : B[i] = h BY <4>2, <4>4, ToSetIs
        <4>6. Position(B, B[i]) = i BY <4>2, PositionIs
        <4> QED BY <4>5, <4>6
      <3> HIDE DEF h
      <3>3. Len(TextOf(d, SubSeq(B, 1, Position(B, h)))) = Start(d, h) + Length(d, h) BY <2>6, EndIs
      <3> QED BY <3>1, <3>2, <3>3
    <2> HIDE DEF h
    <2>8. Start(d, h) \in Nat /\ Length(d, h) \in Nat BY <2>6, StartType
    <2>9. s.node = h /\ s.at = Length(d, h) BY <2>2
    <2> HIDE DEF s
    <2> QED BY <2>6, <2>7, <2>8, <2>9 DEF PointOf, s
  <1> QED BY <1>1, <1>2, <1>3

(* What two places have in common is over the texts at both.               *)
LEMMA CommonIs ==
  ASSUME NEW d, WellFormed(d), NEW b \in Points(d), NEW c \in Points(d), NEW s, NEW e, PointOf(d, b, s), PointOf(d, c, e)
  PROVE  /\ CommonElement(d, b.node, c.node) \in Elements(d)
         /\ s.node \in ToSet(TextNodes(d, CommonElement(d, b.node, c.node)))
         /\ e.node \in ToSet(TextNodes(d, CommonElement(d, b.node, c.node)))
  <1> DEFINE m == b.node
             n == c.node
             one == IF d.kind[m] = "text" THEN <<>> ELSE <<m>>
             qs == ParentsOf(d, m)
             ps == one \o qs
             I == {i \in 1 .. Len(ps) : ps[i] = n \/ Inside(d, n, ps[i])}
             x == CommonElement(d, m, n)
  <1>1. x = ps[IF I # {} THEN Min(I) ELSE 0] BY DEF CommonElement, SelectInSeq
  <1>2. /\ m \in Nodes /\ m \in Texts(d) \cup Elements(d) /\ d.kind[m] # "free"
        /\ n \in Nodes /\ n \in Texts(d) \cup Elements(d) /\ d.kind[n] # "free"
        /\ (d.kind[m] # "text" => m \in Elements(d))
    BY PointsAre
  <1>3. qs \in Seq(Nodes) /\ ToSet(qs) = Over(d, m) /\ Over(d, m) \subseteq Elements(d)
    <2>1. qs \in Seq(Nodes) /\ ToSet(qs) = Over(d, m) BY <1>2, OverIs
    <2> QED BY <1>2, <2>1, OverHolds
  <1>4. one \in Seq(Nodes) /\ ToSet(one) = IF d.kind[m] = "text" THEN {} ELSE {m}
    <2>1. <<m>> \in Seq(Nodes) /\ <<>> \in Seq(Nodes) BY <1>2
    <2>2. ToSet(<<m>>) = {m} /\ ToSet(<<>>) = {} BY OnesAndTwos
    <2> QED BY <2>1, <2>2
  <1>5. \A a : Inside(d, n, a) <=> a \in Over(d, n) BY <1>2, OverIs
  <1>6. I = {i \in 1 .. Len(ps) : ps[i] \in {n} \cup Over(d, n)} BY <1>5
  <1> HIDE DEF one, qs
  <1>7. ps \in Seq(Nodes) /\ ToSet(ps) = ToSet(one) \cup Over(d, m)
    <2>1. ps \in Seq(Nodes) BY <1>3, <1>4, ConcatProperties
    <2>2. ToSet(ps) = ToSet(one) \cup ToSet(qs) BY <1>3, <1>4, ToSetConcat
    <2> QED BY <1>3, <2>1, <2>2
  <1> HIDE DEF I, ps, x
  <1>8. \A a \in Nodes : d.kind[a] # "free" => Body \in {a} \cup Over(d, a) BY OverHolds
  <1>9. Body \in ToSet(ps)
    <2>1. d.kind[m] = "text" => m # Body BY DEF WellFormed
    <2> QED BY <1>2, <1>4, <1>7, <1>8, <2>1
  <1>10. I # {} /\ I \subseteq 1 .. Len(ps)
    <2>1. PICK i \in 1 .. Len(ps) : ps[i] = Body BY <1>7, <1>9, ToSetIs
    <2>2. Body \in {n} \cup Over(d, n) BY <1>2, <1>8
    <2> QED BY <1>6, <2>1, <2>2
  <1>11. Min(I) \in I /\ ps[Min(I)] \in ToSet(ps) /\ x = ps[Min(I)] BY <1>1, <1>7, <1>10, Chosen
  <1>12. x \in ToSet(ps) /\ x \in {n} \cup Over(d, n) BY <1>6, <1>11
  <1>13. x \in Elements(d) /\ x \in {m} \cup Over(d, m) BY <1>2, <1>3, <1>4, <1>7, <1>12
  <1>14. ASSUME NEW a \in Texts(d), NEW v \in {a} \cup Over(d, a), x \in {v} \cup Over(d, v) PROVE a \in ToSet(TextNodes(d, x))
    <2>1. a \in Nodes BY DEF Texts
    <2>2. x \in {a} \cup Over(d, a) BY <1>14, <2>1, OverOver
    <2> QED BY <2>2, TextIsBelow
  <1>15. s.node \in ToSet(TextNodes(d, x)) BY <1>13, <1>14 DEF PointOf
  <1>16. e.node \in ToSet(TextNodes(d, x)) BY <1>12, <1>14 DEF PointOf
  <1> QED BY <1>13, <1>15, <1>16 DEF x

(* What a selection comes to before it is limited to the annotated         *)
(* element.                                                                *)
Selected(d, b, c, s, r) ==
  /\ Kept(d, r.doc) /\ r.common \in Elements(r.doc)
  /\ RangeNodes(r.doc, r) \in Seq(Texts(r.doc))
  /\ r = [doc |-> r.doc, start |-> r.start, end |-> r.end, common |-> r.common]
  /\ s.at # Length(d, s.node) => Finds(r, CharsBefore(d, b), CharsBefore(d, c))

(* A selection begins and ends with the characters it was made from.       *)
LEMMA SelectFinds ==
  ASSUME NEW d, WellFormed(d), Room(d, 2), NEW b \in Points(d), NEW c \in Points(d), NEW s, NEW e,
         PointOf(d, b, s), PointOf(d, c, e), CharsBefore(d, b) < CharsBefore(d, c),
         NEW r, r = Normalize(d, s, e, CommonElement(d, b.node, c.node))
  PROVE  Selected(d, b, c, s, r)
  <1> DEFINE x == CommonElement(d, b.node, c.node)
  <1>1. x \in Elements(d) /\ s.node \in ToSet(TextNodes(d, x)) /\ e.node \in ToSet(TextNodes(d, x)) BY CommonIs
  <1>2. r = Normalize(d, s, e, x) OBVIOUS
  <1> HIDE DEF x
  <1>3. /\ s.node \in Texts(d) /\ s.at \in 0 .. Length(d, s.node) /\ CharsBefore(d, b) = Start(d, s.node) + s.at
        /\ e.node \in Texts(d) /\ e.at \in 0 .. Length(d, e.node) /\ CharsBefore(d, c) = Start(d, e.node) + e.at
    BY DEF PointOf
  <1>4. /\ Start(d, s.node) \in Nat /\ Length(d, s.node) \in Nat /\ Start(d, e.node) \in Nat /\ Length(d, e.node) \in Nat
    BY <1>3, StartType
  <1>5. Kept(d, r.doc) /\ r.common = x BY <1>2, NormalizeKeeps
  <1>6. ~ (s.node = e.node /\ e.at < s.at) BY <1>3, <1>4
  <1>7. ASSUME s.at = 0 \/ s.at # Length(d, s.node)
        PROVE  r.end \in ToSet(TextNodes(r.doc, x)) /\ Finds(r, CharsBefore(d, b), CharsBefore(d, c))
    <2>1. /\ r.start = None => s.node = e.node /\ e.at < s.at
          /\ r.start # None => Finds(r, Start(d, s.node) + s.at, Start(d, e.node) + e.at)
      BY <1>1, <1>2, <1>3, <1>7, NormalizeFinds
    <2>2. Finds(r, CharsBefore(d, b), CharsBefore(d, c)) BY <1>3, <1>6, <2>1
    <2> QED BY <1>5, <2>2 DEF Finds
  <1>8. ASSUME s.at # 0, s.at = Length(d, s.node) PROVE r.end \in ToSet(TextNodes(r.doc, x))
    <2>1. s.node # e.node BY <1>3, <1>4, <1>8
    <2>2. s.at > 0 /\ s.at \notin 0 .. Length(d, s.node) - 1 BY <1>3, <1>4, <1>8
    <2>3. SplitAt(d, s.node, s.at) = d BY <2>2 DEF SplitAt
    <2>4. r.doc = SplitAt(d, e.node, e.at) /\ r.end = e.node BY <1>2, <2>1, <2>2, <2>3 DEF Normalize
    <2>5. Room(d, 1) BY FreeIsFinite DEF Room
    <2>6. Standing(d, r.doc, x, e.node) BY <1>1, <1>3, <2>4, <2>5, SplitAtFinds
    <2> QED BY <1>1, <1>5, <1>8, <2>4, <2>6 DEF Standing
  <1>9. r.end \in ToSet(TextNodes(r.doc, x)) BY <1>7, <1>8
  <1>10. WellFormed(r.doc) /\ x \in Elements(r.doc)
    <2> DEFINE f == r.doc
    <2> HIDE DEF f
    <2>1. Elements(d) \subseteq Elements(f) /\ WellFormed(f) BY <1>5, KeptElements DEF f, Kept
    <2> QED BY <1>1, <2>1 DEF f
  <1>11. RangeNodes(r.doc, r) \in Seq(Texts(r.doc))
    <2> DEFINE T == TextNodes(r.doc, r.common)
    <2>1. PICK p \in Nat \ {0} : \E q \in 1 .. Len(T) : RangeNodes(r.doc, r) = SubSeq(T, p, q)
      BY <1>5, <1>9, <1>10, RangeStretch
    <2>2. PICK q \in 1 .. Len(T) : RangeNodes(r.doc, r) = SubSeq(T, p, q) BY <2>1
    <2>3. T \in Seq(Texts(r.doc))
      <3>1. x \in Nodes BY <1>10 DEF Elements
      <3> QED BY <1>5, <1>10, <3>1, TextsBelow
    <2> HIDE DEF T
    <2>4. q \in 0 .. Len(T) OBVIOUS
    <2> QED BY <2>2, <2>3, <2>4, StretchIs
  <1>12. r = [doc |-> r.doc, start |-> r.start, end |-> r.end, common |-> r.common] BY <1>2 DEF Normalize
  <1> QED BY <1>5, <1>7, <1>10, <1>11, <1>12 DEF Selected

(* A selection that reaches the annotated element can be kept.             *)
LEMMA SelectHeld ==
  ASSUME NEW r, WellFormed(r.doc), Decent(r.doc), Numbered(r.doc), RangeNodes(r.doc, r) \in Seq(Texts(r.doc)),
         r = [doc |-> r.doc, start |-> r.start, end |-> r.end, common |-> r.common],
         NEW l, l = Limit(r, Root), l.start # None,
         NEW a, a.range = Serialize(l), a.about = About(l)
  PROVE  l.doc = r.doc /\ Held(l.doc, a)
  <1>1. r \in [doc : {r.doc}, start : {r.start}, end : {r.end}, common : {r.common}]
    <2> DEFINE w == r.doc
               x == r.start
               y == r.end
               z == r.common
    <2>1. r = [doc |-> w, start |-> x, end |-> y, common |-> z] OBVIOUS
    <2> HIDE DEF w, x, y, z
    <2>2. r \in [doc : {w}, start : {x}, end : {y}, common : {z}] BY <2>1
    <2> QED BY <2>2 DEF w, x, y, z
  <1>2. /\ l.doc = r.doc /\ l.common \in Elements(r.doc)
        /\ l.start \in ToSet(TextNodes(r.doc, l.common)) /\ l.end \in ToSet(TextNodes(r.doc, l.common))
        /\ \E i, j \in Nat : Limited(r, l, i, j)
    BY <1>1, LimitIs
  <1>3. Root \in Over(r.doc, l.start) /\ Root \in Over(r.doc, l.end) BY <1>2 DEF Limited
  <1>4. WellFormed(l.doc) /\ Decent(l.doc) /\ Numbered(l.doc) BY <1>2
  <1> QED BY <1>2, <1>3, <1>4, SerializedHeld

(* What is in a text put together is in one of its parts.                  *)
LEMMA JoinHas ==
  ASSUME NEW N, NEW M, NEW f, Yields(f, N, M), NEW s \in Seq(N)
  PROVE  ToSet(Join(f, s)) = UNION {ToSet(f[s[i]]) : i \in 1 .. Len(s)}
  <1> DEFINE J(k) == Join(f, SubSeq(s, 1, k))
  <1>1. Len(s) \in Nat BY LenProperties
  <1>2. ASSUME NEW k \in 1 .. Len(s) PROVE ToSet(J(k)) = ToSet(J(k - 1)) \cup ToSet(f[s[k]])
    <2>1. SubSeq(s, 1, k) = Append(SubSeq(s, 1, k - 1), s[k]) /\ SubSeq(s, 1, k - 1) \in Seq(N) /\ s[k] \in N BY SubSeqStep
    <2> DEFINE a == SubSeq(s, 1, k - 1)
               b == <<s[k]>>
    <2>2. Append(a, s[k]) = a \o b BY <2>1, AppendIsConcat
    <2>3. a \in Seq(N) /\ b \in Seq(N) BY <2>1
    <2>4. f[s[k]] \in Seq(M) BY <2>1 DEF Yields
    <2>5. Join(f, b) = f[s[k]] BY <2>4, JoinOne DEF Same
    <2> HIDE DEF a, b
    <2>6. Join(f, a \o b) = Join(f, a) \o Join(f, b) BY <2>3, JoinConcat DEF Same
    <2>7. Join(f, a) \in Seq(M) /\ Join(f, b) \in Seq(M) BY <2>3, JoinType
    <2>8. ToSet(Join(f, a) \o Join(f, b)) = ToSet(Join(f, a)) \cup ToSet(Join(f, b)) BY <2>7, ToSetConcat
    <2>9. J(k) = Join(f, a) \o Join(f, b) BY <2>1, <2>2, <2>6 DEF a
    <2> QED BY <2>5, <2>8, <2>9 DEF a
  <1>3. J(0) = <<>> /\ J(Len(s)) = Join(f, s)
    <2>1. SubSeq(s, 1, 0) = <<>> /\ SubSeq(s, 1, Len(s)) = s BY <1>1
    <2> QED BY <2>1, JoinEmpty
  <1>4. ToSet(J(0)) = {} BY <1>3, OnesAndTwos
  <1> HIDE DEF J
  <1>5. ASSUME NEW v \in ToSet(Join(f, s)) PROVE \E i \in 1 .. Len(s) : v \in ToSet(f[s[i]])
    <2> DEFINE K == {k \in 0 .. Len(s) : v \in ToSet(J(k))}
    <2>1. Len(s) \in K /\ K \subseteq Nat BY <1>1, <1>3
    <2>2. PICK k \in K : \A j \in K : k <= j
      <3> HIDE DEF K
      <3> QED BY <2>1, Least
    <2>3. k # 0 BY <1>4
    <2>4. k \in 1 .. Len(s) /\ k - 1 \in 0 .. Len(s) /\ ~ (k <= k - 1) BY <1>1, <2>3
    <2>5. v \notin ToSet(J(k - 1)) BY <2>2, <2>4
    <2> QED BY <1>2, <2>4, <2>5
  <1>6. ASSUME NEW i \in 1 .. Len(s), NEW v \in ToSet(f[s[i]]) PROVE v \in ToSet(Join(f, s))
    <2> DEFINE K == {Len(s) - k : k \in {l \in i .. Len(s) : \A h \in i .. l : v \in ToSet(J(h))}}
    <2>1. v \in ToSet(J(i)) BY <1>2
    <2>2. Len(s) - i \in K
      <3>1. i \in i .. Len(s) BY <1>1
      <3>2. \A h \in i .. i : v \in ToSet(J(h))
        <4>1. \A h \in i .. i : h = i BY <1>1
        <4> QED BY <2>1, <4>1
      <3> QED BY <3>1, <3>2
    <2>3. \A x \in K : x \in Nat BY <1>1
    <2>4. PICK x \in K : \A y \in K : x <= y
      <3> HIDE DEF K
      <3> QED BY <2>2, <2>3, Least
    <2>5. PICK k \in i .. Len(s) : x = Len(s) - k /\ \A h \in i .. k : v \in ToSet(J(h)) BY <2>4
    <2>6. k = Len(s)
      <3> SUFFICES ASSUME k # Len(s) PROVE FALSE OBVIOUS
      <3>1. k + 1 \in 1 .. Len(s) /\ k + 1 \in i .. Len(s) /\ k \in i .. k /\ (k + 1) - 1 = k BY <1>1
      <3>2. ToSet(J(k + 1)) = ToSet(J((k + 1) - 1)) \cup ToSet(f[s[k + 1]]) BY <1>2, <3>1
      <3>3. v \in ToSet(J(k + 1)) BY <2>5, <3>1, <3>2
      <3>4. \A h \in i .. k + 1 : h \in i .. k \/ h = k + 1 BY <3>1
      <3>5. \A h \in i .. k + 1 : v \in ToSet(J(h)) BY <2>5, <3>3, <3>4
      <3>6. Len(s) - (k + 1) \in K BY <3>1, <3>5
      <3>7. Len(s) - k <= Len(s) - (k + 1) BY <2>4, <2>5, <3>6
      <3> QED BY <1>1, <3>1, <3>7
    <2>7. k \in i .. k BY <1>1
    <2> QED BY <1>3, <2>5, <2>6, <2>7
  <1> QED BY <1>5, <1>6

(* Texts below a node, in their order.                                     *)
LEMMA TextsInOrder ==
  ASSUME NEW d, WellFormed(d), NEW x \in Nodes, d.kind[x] # "free",
         NEW i \in 1 .. Len(TextNodes(d, x)), NEW j \in i .. Len(TextNodes(d, x))
  PROVE  /\ Start(d, TextNodes(d, x)[i]) <= Start(d, TextNodes(d, x)[j])
         /\ Start(d, TextNodes(d, x)[i]) + Length(d, TextNodes(d, x)[i]) <= Start(d, TextNodes(d, x)[j]) + Length(d, TextNodes(d, x)[j])
         /\ i # j => Start(d, TextNodes(d, x)[i]) + Length(d, TextNodes(d, x)[i]) <= Start(d, TextNodes(d, x)[j])
  <1> DEFINE T == TextNodes(d, x)
             C == d.chars
  <1>1. PICK F \in Nat : StartsAt(d, x, F) BY NodeStarts
  <1>2. T \in Seq(Nodes) BY TextsDiffer
  <1>3. Yields(C, Nodes, Nat)
    <2>1. d \in Document BY DEF WellFormed
    <2> QED BY <2>1, Typed DEF Yields
  <1>4. Len(T) \in Nat
    <2> HIDE DEF T
    <2> QED BY <1>2, LenProperties
  <1>5. j \in 1 .. Len(T) BY <1>4
  <1>6. \A k \in 1 .. Len(T) : /\ Start(d, T[k]) = F + Sum(C, T, k - 1)
                               /\ Start(d, T[k]) + Length(d, T[k]) = F + Sum(C, T, k)
    BY <1>1, TextPlaces
  <1> HIDE DEF T, C
  <1>7. \A k \in 0 .. Len(T) : \A l \in k .. Len(T) : Sum(C, T, k) \in Nat /\ Sum(C, T, l) \in Nat /\ Sum(C, T, k) <= Sum(C, T, l)
    BY <1>2, <1>3, SumGrows
  <1>8. i - 1 \in 0 .. Len(T) /\ j - 1 \in i - 1 .. Len(T) /\ i \in 0 .. Len(T) /\ j \in i .. Len(T) /\ (i # j => j - 1 \in i .. Len(T))
    BY <1>4, <1>5 DEF T
  <1>9. /\ Sum(C, T, i - 1) \in Nat /\ Sum(C, T, j - 1) \in Nat /\ Sum(C, T, i - 1) <= Sum(C, T, j - 1)
        /\ Sum(C, T, i) \in Nat /\ Sum(C, T, j) \in Nat /\ Sum(C, T, i) <= Sum(C, T, j)
        /\ i # j => Sum(C, T, i) <= Sum(C, T, j - 1)
    BY <1>7, <1>8
  <1>10. i \in 1 .. Len(T) BY DEF T
  <1> DEFINE si == Start(d, T[i])
             sj == Start(d, T[j])
             ei == si + Length(d, T[i])
             ej == sj + Length(d, T[j])
  <1>11. si = F + Sum(C, T, i - 1) /\ ei = F + Sum(C, T, i) BY <1>6, <1>10
  <1>12. sj = F + Sum(C, T, j - 1) /\ ej = F + Sum(C, T, j) BY <1>6, <1>5
  <1> DEFINE A == Sum(C, T, i - 1)
             B == Sum(C, T, j - 1)
             G == Sum(C, T, i)
             H == Sum(C, T, j)
  <1>13. A \in Nat /\ B \in Nat /\ A <= B /\ G \in Nat /\ H \in Nat /\ G <= H /\ (i # j => G <= B) BY <1>9
  <1>14. si = F + A /\ ei = F + G /\ sj = F + B /\ ej = F + H BY <1>11, <1>12
  <1> HIDE DEF si, sj, ei, ej, A, B, G, H
  <1>15. si <= sj /\ ei <= ej /\ (i # j => ei <= sj) BY <1>13, <1>14
  <1> QED BY <1>15 DEF si, sj, ei, ej, T

(* The characters of a text, by their numbers.                             *)
LEMMA TextHas ==
  ASSUME NEW d, WellFormed(d), Numbered(d), NEW t \in Texts(d)
  PROVE  ToSet(d.chars[t]) = Start(d, t) + 1 .. Start(d, t) + Length(d, t)
  <1> DEFINE B == TextNodes(d, Body)
             C == d.chars
  <1>1. Body \in Nodes /\ d.kind[Body] # "free" /\ d.kind[Body] # "text" BY NodesAssumption DEF WellFormed
  <1>2. B \in Seq(Nodes) BY <1>1, TextsDiffer
  <1>3. t \in Nodes /\ t # Body /\ d.kind[t] # "free" BY <1>1 DEF Texts
  <1>4. t \in ToSet(B)
    <2>1. Body \in Over(d, t) BY <1>3, OverHolds
    <2> QED BY <2>1, TextIsBelow
  <1>5. PICK F \in Nat : StartsAt(d, Body, F) BY <1>1, NodeStarts
  <1>6. Counts(Join(C, B), F)
    <2>1. Reads(d, Body) = Join(C, B) BY DEF Reads, TextOf, Join, Map
    <2> QED BY <1>5, <2>1 DEF StartsAt
  <1>7. Yields(C, Nodes, Nat)
    <2>1. d \in Document BY DEF WellFormed
    <2> QED BY <2>1, Typed DEF Yields
  <1>8. \A i \in 1 .. Len(B) : Start(d, B[i]) = F + Sum(C, B, i - 1) /\ Start(d, B[i]) + Length(d, B[i]) = F + Sum(C, B, i)
    BY <1>1, <1>5, TextPlaces
  <1> HIDE DEF B, C
  <1>9. PICK i \in 1 .. Len(B) : B[i] = t BY <1>2, <1>4, ToSetIs
  <1>10. ToSet(Join(C, SubSeq(B, i, i))) = (F + Sum(C, B, i - 1)) + 1 .. F + Sum(C, B, i) BY <1>2, <1>6, <1>7, StretchHas
  <1>11. ToSet(Join(C, SubSeq(B, i, i))) = ToSet(C[t])
    <2> DEFINE ns == SubSeq(B, i, i)
    <2>1. Len(B) \in Nat BY <1>2, LenProperties
    <2>2. i \in Nat \ {0} /\ i \in 0 .. Len(B) /\ i \in i .. i /\ i - i + 1 = 1 BY <2>1
    <2>3. ns = SubSeq(B, i, i) OBVIOUS
    <2> HIDE DEF ns
    <2>4. /\ ns \in Seq(Nodes)
          /\ \A k \in 1 .. Len(ns) : i + k - 1 \in i .. i /\ ns[k] = B[i + k - 1]
          /\ \A k \in i .. i : k - i + 1 \in 1 .. Len(ns)
      BY <1>2, <2>2, <2>3, StretchIs
    <2>5. \A k \in 1 .. Len(ns) : i + k - 1 = i BY <2>2, <2>4
    <2>6. \A k \in 1 .. Len(ns) : ns[k] = t BY <1>9, <2>4, <2>5
    <2>7. 1 \in 1 .. Len(ns) BY <2>2, <2>4
    <2>8. ns \in Seq(Nodes) BY <2>4
    <2>9. ToSet(Join(C, ns)) = UNION {ToSet(C[ns[k]]) : k \in 1 .. Len(ns)} BY <1>7, <2>8, JoinHas
    <2>10. {ToSet(C[ns[k]]) : k \in 1 .. Len(ns)} = {ToSet(C[t])} BY <2>6, <2>7
    <2>11. ToSet(Join(C, ns)) = ToSet(C[t]) BY <2>9, <2>10
    <2> QED BY <2>11 DEF ns
  <1>14. Start(d, t) = F + Sum(C, B, i - 1) /\ Start(d, t) + Length(d, t) = F + Sum(C, B, i) BY <1>8, <1>9
  <1> QED BY <1>10, <1>11, <1>14 DEF C

(* No character is in two texts.                                           *)
LEMMA OneText ==
  ASSUME NEW d, WellFormed(d), Numbered(d), NEW t \in Texts(d), NEW u \in Texts(d), NEW v \in ToSet(d.chars[t]), v \in ToSet(d.chars[u])
  PROVE  t = u
  <1> DEFINE B == TextNodes(d, Body)
  <1>1. Body \in Nodes /\ d.kind[Body] # "free" /\ d.kind[Body] # "text" BY NodesAssumption DEF WellFormed
  <1>2. B \in Seq(Nodes) BY <1>1, TextsDiffer
  <1>3. ASSUME NEW w \in Texts(d) PROVE \E i \in 1 .. Len(B) : B[i] = w
    <2>1. w \in Nodes /\ w # Body /\ d.kind[w] # "free" BY <1>1 DEF Texts
    <2>2. Body \in Over(d, w) BY <2>1, OverHolds
    <2>3. w \in ToSet(B) BY <2>2, TextIsBelow
    <2> HIDE DEF B
    <2> QED BY <1>2, <2>3, ToSetIs
  <1>4. ASSUME NEW i \in 1 .. Len(B), NEW j \in 1 .. Len(B), i < j, v \in ToSet(d.chars[B[i]]), v \in ToSet(d.chars[B[j]]),
               B[i] \in Texts(d), B[j] \in Texts(d)
        PROVE  FALSE
    <2>1. j \in i .. Len(B) /\ i # j BY <1>4
    <2>2. Start(d, B[i]) + Length(d, B[i]) <= Start(d, B[j]) BY <1>1, <2>1, TextsInOrder
    <2> HIDE DEF B
    <2>3. Start(d, B[i]) \in Nat /\ Length(d, B[i]) \in Nat /\ Start(d, B[j]) \in Nat /\ Length(d, B[j]) \in Nat BY <1>4, StartType
    <2>4. v \in Start(d, B[i]) + 1 .. Start(d, B[i]) + Length(d, B[i]) BY <1>4, TextHas
    <2>5. v \in Start(d, B[j]) + 1 .. Start(d, B[j]) + Length(d, B[j]) BY <1>4, TextHas
    <2> QED BY <2>2, <2>3, <2>4, <2>5
  <1>5. PICK i \in 1 .. Len(B) : B[i] = t BY <1>3
  <1>6. PICK j \in 1 .. Len(B) : B[j] = u BY <1>3
  <1>7. ~ (i < j) /\ ~ (j < i) BY <1>4, <1>5, <1>6
  <1>8. Len(B) \in Nat
    <2> HIDE DEF B
    <2> QED BY <1>2, LenProperties
  <1>9. i = j BY <1>7, <1>8
  <1> QED BY <1>5, <1>6, <1>9

(* What is left of a range is what it has of the annotated element.        *)
LEMMA LimitedIsExact ==
  ASSUME NEW r, WellFormed(r.doc), Numbered(r.doc), NEW l, l.doc = r.doc, r.common \in Elements(r.doc), l.common \in Elements(r.doc),
         l.start \in ToSet(TextNodes(r.doc, l.common)), l.end \in ToSet(TextNodes(r.doc, l.common)),
         NEW i \in Nat, NEW j \in Nat, Limited(r, l, i, j), NEW P, NEW Q, Finds(r, P, Q)
  PROVE  About(l) = (P + 1 .. Q) \cap ToSet(Reads(r.doc, Root))
  <1> DEFINE d == r.doc
             c == r.common
             T == TextNodes(d, c)
             R == TextNodes(d, Root)
             C == d.chars
             ns == RangeNodes(d, r)
  <1>1. c \in Nodes /\ d.kind[c] # "free" /\ Root \in Nodes /\ d.kind[Root] # "free" /\ d.kind[Root] # "text"
    BY NodesAssumption DEF Elements, WellFormed
  <1>2. r.start \in ToSet(T) /\ r.end \in ToSet(T) /\ P = Start(d, r.start) /\ Q = Start(d, r.end) + Length(d, r.end) BY DEF Finds
  <1>3. PICK p, q \in 1 .. Len(T) : T[p] = r.start /\ T[q] = r.end /\ ns = SubSeq(T, p, q) BY <1>2, RangeIs
  <1>4. T \in Seq(Texts(d)) /\ R \in Seq(Texts(d)) BY <1>1, TextsBelow
  <1>5. Yields(C, Texts(d), Nat)
    <2>1. d \in Document BY DEF WellFormed
    <2> QED BY <2>1, Typed DEF Yields, Texts
  <1>6. About(l) = Start(d, l.start) + 1 .. Start(d, l.end) + Length(d, l.end)
    <2>1. WellFormed(l.doc) /\ Numbered(l.doc) /\ l.common \in Elements(l.doc) OBVIOUS
    <2> QED BY <2>1, AboutIs
  <1>7. About(r) = P + 1 .. Q BY <1>2, AboutIs
  <1>8. /\ i \in 1 .. Len(ns) /\ j \in 1 .. Len(ns) /\ l.start = ns[i] /\ l.end = ns[j]
        /\ Root \in Over(d, ns[i]) /\ Root \in Over(d, ns[j])
        /\ \A k \in 1 .. Len(ns) : Root \in Over(d, ns[k]) => i <= k /\ k <= j
    BY DEF Limited
  <1>9. Len(T) \in Nat /\ Len(R) \in Nat
    <2> HIDE DEF T, R
    <2> QED BY <1>4, LenProperties
  <1>10. /\ ns \in Seq(Texts(d)) /\ Len(ns) \in Nat
         /\ \A k \in 1 .. Len(ns) : p + k - 1 \in p .. q /\ p + k - 1 \in 1 .. Len(T) /\ ns[k] = T[p + k - 1]
    <2> HIDE DEF T, ns
    <2>1. p \in Nat \ {0} /\ q \in 0 .. Len(T) BY <1>9
    <2> QED BY <1>3, <1>4, <2>1, StretchIs
  <1>11. \A t \in Texts(d) : Start(d, t) \in Nat /\ Length(d, t) \in Nat BY StartType
  <1>12. i <= j BY <1>8
  <1>13. \A k \in 1 .. Len(ns) : ns[k] \in Texts(d)
    <2> HIDE DEF ns
    <2> QED BY <1>10
  <1>14. About(l) \subseteq P + 1 .. Q
    <2>1. p + i - 1 \in p .. Len(T) /\ q \in p + j - 1 .. Len(T) /\ p + j - 1 \in 1 .. Len(T)
      <3>1. p + i - 1 \in p .. q /\ p + j - 1 \in p .. q /\ p + j - 1 \in 1 .. Len(T) BY <1>8, <1>10
      <3>2. \A a \in p .. q : a \in p .. Len(T) /\ q \in a .. Len(T) BY <1>3, <1>9
      <3> QED BY <3>1, <3>2
    <2>2. Start(d, T[p]) <= Start(d, T[p + i - 1]) BY <1>1, <1>3, <2>1, TextsInOrder
    <2>3. Start(d, T[p + j - 1]) + Length(d, T[p + j - 1]) <= Start(d, T[q]) + Length(d, T[q]) BY <1>1, <2>1, TextsInOrder
    <2>4. T[p + i - 1] = ns[i] /\ T[p + j - 1] = ns[j] BY <1>8, <1>10
    <2> DEFINE a == Start(d, ns[i])
               b == Start(d, ns[j]) + Length(d, ns[j])
    <2>5. a \in Nat /\ b \in Nat BY <1>8, <1>11, <1>13
    <2>6. P <= a /\ b <= Q BY <1>2, <1>3, <2>2, <2>3, <2>4
    <2>7. P \in Nat /\ Q \in Nat
      <3>1. r.start \in Texts(d) /\ r.end \in Texts(d)
        <4> HIDE DEF T
        <4> QED BY <1>2, <1>4, ToSetIs
      <3> QED BY <1>2, <1>11, <3>1
    <2>8. About(l) = a + 1 .. b BY <1>6, <1>8
    <2> HIDE DEF a, b
    <2> QED BY <2>5, <2>6, <2>7, <2>8
  <1>15. About(l) \subseteq ToSet(Reads(d, Root))
    <2>1. PICK F \in Nat : StartsAt(d, Root, F) BY <1>1, NodeStarts
    <2>2. ns[i] \in ToSet(R) /\ ns[j] \in ToSet(R) BY <1>8, <1>13, TextIsBelow
    <2>3. PICK a, b \in 1 .. Len(R) : R[a] = ns[i] /\ R[b] = ns[j]
      <3> HIDE DEF R, ns
      <3>1. ToSet(R) = {R[k] : k \in 1 .. Len(R)} BY <1>4, ToSetIs
      <3>2. PICK a \in 1 .. Len(R) : R[a] = ns[i] BY <2>2, <3>1
      <3>3. PICK b \in 1 .. Len(R) : R[b] = ns[j] BY <2>2, <3>1
      <3> QED BY <3>2, <3>3
    <2>16. \A k \in 1 .. Len(R) : Start(d, R[k]) = F + Sum(C, R, k - 1) /\ Start(d, R[k]) + Length(d, R[k]) = F + Sum(C, R, k)
      <3>1. WellFormed(d) OBVIOUS
      <3> HIDE DEF d
      <3> QED BY <1>1, <2>1, <3>1, TextPlaces
    <2>17. \A k \in 1 .. Len(R) : Sum(C, R, k - 1) \in Nat /\ Sum(C, R, k) \in Nat
      <3>1. WellFormed(d) OBVIOUS
      <3> HIDE DEF d
      <3> QED BY <1>1, <2>1, <3>1, TextPlaces
    <2>4. Start(d, R[a]) = F + Sum(C, R, a - 1) /\ Start(d, R[b]) + Length(d, R[b]) = F + Sum(C, R, b)
          /\ Sum(C, R, a - 1) \in Nat /\ Sum(C, R, b) \in Nat
      <3> HIDE DEF R, C
      <3> QED BY <2>16, <2>17
    <2>5. Reads(d, Root) = Join(C, R) BY DEF Reads, TextOf, Join, Map
    <2>6. Counts(Join(C, R), F) BY <2>1, <2>5 DEF StartsAt
    <2>7. Join(C, R) \in Seq(Nat)
      <3> HIDE DEF R, C
      <3> QED BY <1>4, <1>5, JoinType
    <2>8. Sum(C, R, b) <= Len(Join(C, R)) /\ Len(Join(C, R)) \in Nat
      <3> HIDE DEF R, C
      <3>1. b \in 0 .. Len(R) /\ Len(R) \in b .. Len(R) BY <1>9
      <3>2. Sum(C, R, b) <= Sum(C, R, Len(R)) BY <1>4, <1>5, <3>1, SumGrows
      <3>3. SubSeq(R, 1, Len(R)) = R BY <1>4
      <3> QED BY <2>7, <3>2, <3>3, LenProperties DEF Sum
    <2> DEFINE x == Join(C, R)
               A == Sum(C, R, a - 1)
               B == Sum(C, R, b)
    <2>9. About(l) = (F + A) + 1 .. F + B BY <1>6, <1>8, <2>3, <2>4
    <2>10. A \in Nat /\ B \in Nat /\ B <= Len(x) /\ Len(x) \in Nat /\ x \in Seq(Nat) BY <2>4, <2>7, <2>8
    <2>11. Counts(x, F) BY <2>6
    <2> HIDE DEF x, A, B
    <2>12. ASSUME NEW v \in About(l) PROVE v \in ToSet(x)
      <3>5. v \in (F + A) + 1 .. F + B BY <2>9
      <3>1. v \in Nat /\ v - F \in 1 .. Len(x) BY <2>10, <3>5
      <3>2. x[v - F] = F + (v - F)
        <4> DEFINE y == Len(x)
        <4>1. x = [k \in 1 .. y |-> F + k] BY <2>11 DEF Counts
        <4> HIDE DEF y
        <4> QED BY <3>1, <4>1 DEF y
      <3>6. F + (v - F) = v BY <3>1
      <3>3. x[v - F] = v BY <3>2, <3>6
      <3>4. x[v - F] \in ToSet(x)
        <4>1. ToSet(x) = {x[k] : k \in 1 .. Len(x)} BY <2>10, ToSetIs
        <4> QED BY <3>1, <4>1
      <3> QED BY <3>3, <3>4
    <2> QED BY <2>5, <2>12 DEF x
  <1>16. ASSUME NEW v \in P + 1 .. Q, v \in ToSet(Reads(d, Root)) PROVE v \in About(l)
    <2>1. PICK k \in 1 .. Len(ns) : v \in ToSet(C[ns[k]])
      <3>1. r.start # None
        <4>1. r.start \in Texts(d)
          <5> HIDE DEF T
          <5> QED BY <1>2, <1>4, ToSetIs
        <4> QED BY <4>1, NodesAssumption DEF Texts
      <3>2. About(r) = ToSet(Join(C, ns)) BY <3>1 DEF About, TextOf, Join, Map
      <3>3. v \in ToSet(Join(C, ns)) BY <1>7, <1>16, <3>2
      <3> HIDE DEF C, ns
      <3>4. ToSet(Join(C, ns)) = UNION {ToSet(C[ns[k]]) : k \in 1 .. Len(ns)} BY <1>5, <1>10, JoinHas
      <3> QED BY <3>3, <3>4
    <2>2. PICK k2 \in 1 .. Len(R) : v \in ToSet(C[R[k2]])
      <3>1. Reads(d, Root) = Join(C, R) BY DEF Reads, TextOf, Join, Map
      <3>2. v \in ToSet(Join(C, R)) BY <1>16, <3>1
      <3> HIDE DEF C, R
      <3>3. ToSet(Join(C, R)) = UNION {ToSet(C[R[k2]]) : k2 \in 1 .. Len(R)} BY <1>4, <1>5, JoinHas
      <3> QED BY <3>2, <3>3
    <2>3. R[k2] \in Texts(d) /\ R[k2] \in ToSet(R)
      <3> HIDE DEF R
      <3> QED BY <1>4, ToSetIs
    <2>4. ns[k] = R[k2]
      <3>1. ns[k] \in Texts(d) BY <1>13
      <3> HIDE DEF ns, R
      <3> QED BY <2>1, <2>2, <2>3, <3>1, OneText
    <2>5. Root \in Over(d, ns[k])
      <3>1. \A t \in ToSet(R) : t = Root \/ Root \in Over(d, t) BY <1>1, TextsBelow
      <3>2. R[k2] # Root BY <1>1, <2>3 DEF Texts
      <3> QED BY <2>3, <2>4, <3>1, <3>2
    <2>6. i <= k /\ k <= j BY <1>8, <2>5
    <2>7. v \in Start(d, ns[k]) + 1 .. Start(d, ns[k]) + Length(d, ns[k])
      <3>1. ns[k] \in Texts(d) BY <1>13
      <3>2. v \in ToSet(d.chars[ns[k]]) BY <2>1
      <3> HIDE DEF ns
      <3> QED BY <3>1, <3>2, TextHas
    <2> DEFINE x == p + i - 1
               y == p + k - 1
               z == p + j - 1
    <2>8. /\ x \in 1 .. Len(T) /\ y \in 1 .. Len(T) /\ z \in 1 .. Len(T) /\ x <= y /\ y <= z
          /\ T[x] = ns[i] /\ T[y] = ns[k] /\ T[z] = ns[j]
      <3>1. /\ x \in 1 .. Len(T) /\ y \in 1 .. Len(T) /\ z \in 1 .. Len(T)
            /\ T[x] = ns[i] /\ T[y] = ns[k] /\ T[z] = ns[j]
        BY <1>8, <1>10
      <3>2. x <= y /\ y <= z
        <4>1. p \in Int /\ k \in Int BY <1>3
        <4> HIDE DEF T, ns
        <4> QED BY <2>6, <4>1
      <3> QED BY <3>1, <3>2
    <2> HIDE DEF x, y, z
    <2>9. y \in x .. Len(T) /\ z \in y .. Len(T) BY <1>9, <2>8
    <2>10. Start(d, T[x]) <= Start(d, T[y]) BY <1>1, <2>8, <2>9, TextsInOrder
    <2>11. Start(d, T[y]) + Length(d, T[y]) <= Start(d, T[z]) + Length(d, T[z]) BY <1>1, <2>8, <2>9, TextsInOrder
    <2> DEFINE a == Start(d, ns[i])
               b == Start(d, ns[j]) + Length(d, ns[j])
               e == Start(d, ns[k])
               f == Start(d, ns[k]) + Length(d, ns[k])
    <2>12. a \in Nat /\ b \in Nat /\ e \in Nat /\ f \in Nat
      <3>1. ns[i] \in Texts(d) /\ ns[j] \in Texts(d) /\ ns[k] \in Texts(d) BY <1>8, <1>13
      <3> HIDE DEF ns
      <3>2. Start(d, ns[i]) \in Nat BY <1>11, <3>1
      <3>3. Start(d, ns[j]) \in Nat /\ Length(d, ns[j]) \in Nat BY <1>11, <3>1
      <3>4. Start(d, ns[k]) \in Nat /\ Length(d, ns[k]) \in Nat BY <1>11, <3>1
      <3>5. a \in Nat BY <3>2
      <3>6. b \in Nat BY <3>3
      <3>7. e \in Nat BY <3>4
      <3>8. f \in Nat BY <3>4
      <3> QED BY <3>5, <3>6, <3>7, <3>8
    <2>13. a <= e /\ f <= b BY <2>8, <2>10, <2>11
    <2>14. v \in e + 1 .. f BY <2>7
    <2>15. About(l) = a + 1 .. b BY <1>6, <1>8
    <2> HIDE DEF a, b, e, f
    <2> QED BY <2>12, <2>13, <2>14, <2>15
  <1> QED BY <1>14, <1>15, <1>16

(* What highlights cover of what an annotation is about: HighlightsCover,  *)
(* of one annotation in any document.                                      *)
Covers(d, hs, about) ==
  LET covered == UNION {ToSet(Reads(d, h)) : h \in hs}
  IN covered \subseteq about /\ about \ White \subseteq covered

(* What has just been drawn covers it,                                     *)
LEMMA CoversNew ==
  ASSUME NEW r, WellFormed(r.doc), RangeNodes(r.doc, r) \in Seq(Texts(r.doc)), r.start # None, Marking(r)
  PROVE  Covers(HighlightRange(r).doc, HighlightRange(r).highlights, About(r))
  <1> DEFINE d == r.doc
             ns == RangeNodes(d, r)
             C == d.chars
             e == HighlightRange(r).doc
             hs == HighlightRange(r).highlights
             M == {n \in ToSet(ns) : ~ IsWhite(d, n)}
             covered == UNION {ToSet(Reads(e, h)) : h \in hs}
  <1>1. hs = {e.up[n] : n \in M} /\ \A n \in M : Reads(e, e.up[n]) = C[n] BY DEF Marking, Same
  <1>2. About(r) = ToSet(Join(C, ns)) BY DEF About, TextOf, Join, Map
  <1>3. Yields(C, Texts(d), Nat)
    <2>1. d \in Document BY DEF WellFormed
    <2> QED BY <2>1, Typed DEF Yields, Texts
  <1>4. ns \in Seq(Texts(d)) OBVIOUS
  <1>5. \A n : ~ IsWhite(d, n) <=> ~ (ToSet(C[n]) \subseteq White) BY DEF IsWhite
  <1> HIDE DEF d, ns, C, e, hs
  <1>6. ToSet(Join(C, ns)) = UNION {ToSet(C[ns[i]]) : i \in 1 .. Len(ns)} BY <1>3, <1>4, JoinHas
  <1>7. ToSet(ns) = {ns[i] : i \in 1 .. Len(ns)} BY <1>4, ToSetIs
  <1>8. covered = UNION {ToSet(C[n]) : n \in M}
    <2>1. ASSUME NEW v \in covered PROVE \E n \in M : v \in ToSet(C[n])
      <3>1. PICK h \in hs : v \in ToSet(Reads(e, h)) OBVIOUS
      <3>2. PICK n \in M : h = e.up[n] BY <1>1
      <3> QED BY <1>1, <3>1, <3>2
    <2>2. ASSUME NEW n \in M, NEW v \in ToSet(C[n]) PROVE v \in covered
      <3>1. e.up[n] \in hs /\ Reads(e, e.up[n]) = C[n] BY <1>1
      <3> QED BY <3>1
    <2> HIDE DEF covered, M
    <2> QED BY <2>1, <2>2
  <1> HIDE DEF covered
  <1>9. covered \subseteq About(r) BY <1>2, <1>6, <1>7, <1>8
  <1>10. ASSUME NEW v \in About(r), v \notin White PROVE v \in covered
    <2>1. PICK i \in 1 .. Len(ns) : v \in ToSet(C[ns[i]]) BY <1>2, <1>6
    <2>2. ns[i] \in M BY <1>5, <1>7, <1>10, <2>1
    <2> QED BY <1>8, <2>1, <2>2
  <1>11. covered \subseteq About(r) /\ About(r) \ White \subseteq covered BY <1>9, <1>10
  <1> QED BY <1>11 DEF Covers, covered, e, hs

(* and goes on to, until it is itself undrawn.                             *)
LEMMA CoversOn ==
  ASSUME NEW d, NEW e, NEW X, Unchanged(d, e, X), NEW hs, hs \subseteq X, NEW about, Covers(d, hs, about)
  PROVE  Covers(e, hs, about)
  <1>1. \A h \in hs : Reads(e, h) = Reads(d, h) BY DEF Unchanged, Same
  <1>2. {ToSet(Reads(e, h)) : h \in hs} = {ToSet(Reads(d, h)) : h \in hs} BY <1>1
  <1> QED BY <1>2 DEF Covers

(* A page as it comes is decent, and its characters are numbered.          *)
LEMMA PlainIsDecent ==
  ASSUME NEW d, WellFormed(d), Plain(d)
  PROVE  Decent(d) /\ Numbered(d)
  <1>1. /\ \A n \in Nodes : d.kind[n] # "highlight" /\ (d.kind[n] = "element" => d.tag[n] # "span")
        /\ \A n \in Texts(d) : d.chars[n] # <<>>
        /\ Reads(d, Body) = [i \in 1 .. Len(Reads(d, Body)) |-> i]
    BY DEF Plain
  <1>2. ASSUME NEW x \in Nodes, d.kind[x] = "element", d.up[x] # None PROVE d.kind[d.up[x]] = "element"
    <2>1. d.up[x] \in Elements(d) BY <1>2, Parent
    <2> QED BY <1>1, <2>1 DEF Elements
  <1>3. ASSUME NEW u \in Elements(d), d.kind[Last(d.kids[u])] = "text" PROVE d.chars[Last(d.kids[u])] # <<>>
    <2>1. u \in Nodes /\ d.kids[u] \in Seq(Nodes) /\ d.kids[u] # <<>>
      <3>1. d \in Document BY DEF WellFormed
      <3>2. u \in Nodes /\ d.kind[u] \notin {"text", "free"} BY DEF Elements
      <3> QED BY <3>1, <3>2, Typed DEF WellFormed
    <2>2. Last(d.kids[u]) \in Nodes
      <3> DEFINE s == d.kids[u]
      <3>1. s \in Seq(Nodes) /\ s # <<>> BY <2>1
      <3> HIDE DEF s
      <3>2. Last(s) \in Nodes BY <3>1, LastIn
      <3> QED BY <3>2 DEF s
    <2>3. Last(d.kids[u]) \in Texts(d) BY <1>3, <2>2 DEF Texts
    <2> QED BY <1>1, <2>3
  <1>4. Decent(d) BY <1>1, <1>2, <1>3 DEF Decent
  <1>5. Numbered(d)
    <2> DEFINE x == Reads(d, Body)
               k == Len(x)
    <2>1. x = [i \in 1 .. k |-> i] BY <1>1
    <2>2. x \in Seq(Nat)
      <3>1. Body \in Nodes BY NodesAssumption
      <3> QED BY <3>1, ReadsAre DEF Yields
    <2> HIDE DEF x
    <2>3. k \in Nat BY <2>2, LenProperties
    <2> HIDE DEF k
    <2>4. \A i \in 1 .. k : 0 + i = i BY <2>3
    <2>5. [i \in 1 .. k |-> i] = [i \in 1 .. k |-> 0 + i] BY <2>4
    <2> QED BY <2>1, <2>5 DEF Numbered, Counts, x, k
  <1> QED BY <1>4, <1>5

-----------------------------------------------------------------------------
(* The steps.                                                              *)

(* Every annotation has its own highlights: they are in the page, and no   *)
(* other annotation has them.                                              *)
Theirs ==
  /\ drawn \in Seq(SUBSET Nodes)
  /\ \A a \in DOMAIN drawn : drawn[a] \subseteq Highlights(doc)
  /\ \A a, b \in DOMAIN drawn : a # b => drawn[a] \cap drawn[b] = {}

(* The page is a tree in which nothing stands in the way of paths, and its *)
(* text is kept.                                                           *)
PageHolds == WellFormed(doc) /\ Decent(doc) /\ Numbered(doc) /\ TextIsKept

(* Every annotation's range leads, by paths of elements and offsets in     *)
(* their text, to the characters it is about.                              *)
Leads == \A a \in DOMAIN made : Held(doc, made[a])

(* HighlightsCover, which is stated of the document as it is.              *)
Covering == \A a \in DOMAIN made : drawn[a] # {} => Covers(doc, drawn[a], made[a].about)

(* It is the same,                                                         *)
LEMMA CoveringIs == Covering <=> HighlightsCover
  BY DEF Covering, Covers, HighlightsCover, Covered

(* The invariant.                                                          *)
IInv ==
  /\ PageHolds /\ Theirs
  /\ made \in Seq(ToSet(made)) /\ Len(made) = Len(drawn)
  /\ Leads /\ SelectionIsExact /\ Covering

(* What the invariant says of the lengths of made and drawn.               *)
LEMMA Lengths ==
  ASSUME IInv
  PROVE  /\ Len(made) \in Nat /\ DOMAIN made = 1 .. Len(made) /\ DOMAIN drawn = 1 .. Len(made) /\ Len(drawn) = Len(made)
         /\ made \in Seq(ToSet(made)) /\ drawn \in Seq(SUBSET Nodes)
  BY LenProperties DEF IInv, Theirs

(* It holds of a page without annotations,                                 *)
LEMMA InitHolds == Init => IInv
  <1> SUFFICES ASSUME Init PROVE IInv OBVIOUS
  <1>1. doc \in Pages /\ drawn = <<>> /\ made = <<>> BY DEF Init
  <1>2. WellFormed(doc) /\ Plain(doc) BY <1>1, PagesAssumption
  <1>3. Decent(doc) /\ Numbered(doc) BY <1>2, PlainIsDecent
  <1>4. TextIsKept BY <1>1 DEF TextIsKept
  <1>5. DOMAIN drawn = {} /\ DOMAIN made = {} /\ drawn \in Seq(SUBSET Nodes) /\ made \in Seq(ToSet(made)) /\ Len(made) = Len(drawn)
    BY <1>1
  <1>6. Theirs BY <1>5 DEF Theirs
  <1>7. Leads /\ SelectionIsExact /\ Covering BY <1>5 DEF Leads, SelectionIsExact, Covering
  <1> QED BY <1>2, <1>3, <1>4, <1>5, <1>6, <1>7 DEF IInv, PageHolds

(* The text is kept where no element of the page is changed.               *)
LEMMA TextKeeps ==
  ASSUME TextIsKept, NEW X, Unchanged(doc, doc', X), \A n \in Nodes : doc.kind[n] = "element" => n \in X
  PROVE  TextIsKept'
  <1>1. PICK page \in Pages : \A n \in {m \in Nodes : page.kind[m] = "element"} :
          doc.kind[n] = "element" /\ Reads(doc, n) = Reads(page, n)
    BY DEF TextIsKept
  <1>2. ASSUME NEW n \in {m \in Nodes : page.kind[m] = "element"}
        PROVE  doc'.kind[n] = "element" /\ Reads(doc', n) = Reads(page, n)
    <2>1. n \in X BY <1>1
    <2> QED BY <1>1, <2>1 DEF Unchanged, Same
  <1> QED BY <1>2 DEF TextIsKept

(* The page, and where ranges lead, when only highlights come and go.      *)
LEMMA PageKeeps ==
  ASSUME IInv, WellFormed(doc'), Shaped(doc, doc'), NEW X, Unchanged(doc, doc', X), Elements(doc) \ Highlights(doc) \subseteq X
  PROVE  PageHolds' /\ \A a \in DOMAIN made : Held(doc', made[a])
  <1>1. WellFormed(doc) /\ Decent(doc) /\ Numbered(doc) /\ TextIsKept BY DEF IInv, PageHolds
  <1>2. Decent(doc') /\ Shape(doc, doc') BY <1>1 DEF Shaped
  <1>3. Unchanged(doc, doc', Elements(doc) \ Highlights(doc)) BY DEF Unchanged
  <1>4. Numbered(doc') BY <1>1, <1>3, KeptNumbered
  <1>5. \A n \in Nodes : doc.kind[n] = "element" => n \in X BY DEF Elements, Highlights
  <1>6. TextIsKept' BY <1>1, <1>5, TextKeeps
  <1>7. ASSUME NEW a \in DOMAIN made PROVE Held(doc', made[a])
    <2>1. Held(doc, made[a]) BY DEF IInv, Leads
    <2> QED BY <1>1, <1>2, <1>3, <2>1, HeldOn
  <1> QED BY <1>2, <1>4, <1>6, <1>7 DEF PageHolds

(* So where texts are split and put into highlights.                       *)
LEMMA SplitsHold ==
  ASSUME IInv, Kept(doc, doc')
  PROVE  /\ PageHolds' /\ \A a \in DOMAIN made : Held(doc', made[a])
         /\ Highlights(doc) \subseteq Highlights(doc')
         /\ \A a \in DOMAIN made : drawn[a] # {} => Covers(doc', drawn[a], made[a].about)
  <1>1. WellFormed(doc') /\ Shaped(doc, doc') /\ Unchanged(doc, doc', Elements(doc)) BY DEF Kept
  <1>2. PageHolds' /\ \A a \in DOMAIN made : Held(doc', made[a]) BY <1>1, PageKeeps
  <1>3. Highlights(doc) \subseteq Highlights(doc') BY KeptElements
  <1>4. ASSUME NEW a \in DOMAIN made, drawn[a] # {} PROVE Covers(doc', drawn[a], made[a].about)
    <2>1. a \in DOMAIN drawn BY Lengths
    <2>2. drawn[a] \subseteq Elements(doc) BY <2>1 DEF IInv, Theirs, Highlights, Elements
    <2>3. Covers(doc, drawn[a], made[a].about) BY <1>4 DEF IInv, Covering
    <2> QED BY <1>1, <2>2, <2>3, CoversOn
  <1> QED BY <1>2, <1>3, <1>4

(* What a selection of the annotated element is kept as.                   *)
LEMMA SelectKeeps ==
  ASSUME IInv, Room(doc, 2), NEW from \in Points(doc), NEW to \in Points(doc), CharsBefore(doc, from) < CharsBefore(doc, to),
         Select(from, to)
  PROVE  /\ Kept(doc, doc')
         /\ \/ UNCHANGED <<made, drawn>>
            \/ /\ drawn' = Append(drawn, {})
               /\ \E x : made' = Append(made, x) /\ Held(doc', x) /\ x.about = x.wanted
  <1> DEFINE s == NormalizeStart(doc, from)
             e == NormalizeEnd(doc, to)
             r0 == Normalize(doc, s, e, CommonElement(doc, from.node, to.node))
             r == Limit(r0, Root)
             P == CharsBefore(doc, from)
             Q == CharsBefore(doc, to)
             x == [range |-> Serialize(r), about |-> About(r),
                   wanted |-> IF s.at = Length(doc, s.node) THEN About(r) ELSE (P + 1 .. Q) \cap ToSet(Reads(doc, Root))]
  <1>1. WellFormed(doc) /\ Decent(doc) /\ Numbered(doc) BY DEF IInv, PageHolds
  <1>2. CASE s = NoPoint
    <2>1. doc' = doc /\ made' = made /\ drawn' = drawn BY <1>2 DEF Select, vars
    <2> QED BY <1>1, <2>1, KeptItself
  <1>3. CASE s # NoPoint
    <2>1. /\ doc' = r.doc
          /\ r.start = None => UNCHANGED <<made, drawn>>
          /\ r.start # None => made' = Append(made, x) /\ drawn' = Append(drawn, {})
      BY <1>3 DEF Select
    <2>2. PointOf(doc, from, s) /\ PointOf(doc, to, e)
      <3>1. PointOf(doc, from, s) BY <1>1, <1>3, StartPoint
      <3>2. PointOf(doc, to, e) BY <1>1, EndPoint
      <3> QED BY <3>1, <3>2
    <2>3. r0 = Normalize(doc, s, e, CommonElement(doc, from.node, to.node)) /\ r = Limit(r0, Root) OBVIOUS
    <2>4. /\ x.range = Serialize(r) /\ x.about = About(r)
          /\ x.wanted = IF s.at = Length(doc, s.node) THEN About(r) ELSE (P + 1 .. Q) \cap ToSet(Reads(doc, Root))
      OBVIOUS
    <2> HIDE DEF r0, r, s, e, x
    <2>5. /\ Kept(doc, r0.doc) /\ r0.common \in Elements(r0.doc) /\ RangeNodes(r0.doc, r0) \in Seq(Texts(r0.doc))
          /\ r0 = [doc |-> r0.doc, start |-> r0.start, end |-> r0.end, common |-> r0.common]
          /\ s.at # Length(doc, s.node) => Finds(r0, P, Q)
      <3>1. Selected(doc, from, to, s, r0) BY <1>1, <2>2, <2>3, SelectFinds
      <3> QED BY <3>1 DEF Selected
    <2>6. r.doc = r0.doc
      <3>1. \E a, b, c, d : r0 = [doc |-> a, start |-> b, end |-> c, common |-> d] BY <2>5
      <3> QED BY <2>3, <3>1 DEF Limit
    <2>7. CASE r.start = None BY <2>1, <2>5, <2>6, <2>7
    <2>8. CASE r.start # None
      <3>1. doc' = r0.doc BY <2>1, <2>6
      <3>2. WellFormed(r0.doc) /\ Decent(r0.doc) /\ Numbered(r0.doc)
        <4>1. Kept(doc, doc') BY <2>5, <3>1
        <4>2. PageHolds' BY <4>1, SplitsHold
        <4> QED BY <3>1, <4>2 DEF PageHolds
      <3>3. Held(r.doc, x) BY <2>3, <2>4, <2>5, <2>8, <3>2, SelectHeld
      <3>4. x.about = x.wanted
        <4>1. CASE s.at = Length(doc, s.node) BY <2>4, <4>1
        <4>2. CASE s.at # Length(doc, s.node)
          <5>1. /\ r.doc = r0.doc /\ r.common \in Elements(r0.doc)
                /\ r.start \in ToSet(TextNodes(r0.doc, r.common)) /\ r.end \in ToSet(TextNodes(r0.doc, r.common))
                /\ \E i, j \in Nat : Limited(r0, r, i, j)
            <6>1. r0 \in [doc : {r0.doc}, start : {r0.start}, end : {r0.end}, common : {r0.common}]
              <7> DEFINE a == r0.doc
                         b == r0.start
                         c == r0.end
                         d == r0.common
              <7>1. r0 = [doc |-> a, start |-> b, end |-> c, common |-> d] BY <2>5
              <7> HIDE DEF a, b, c, d
              <7>2. r0 \in [doc : {a}, start : {b}, end : {c}, common : {d}] BY <7>1
              <7> QED BY <7>2 DEF a, b, c, d
            <6> QED BY <2>3, <2>5, <2>8, <3>2, <6>1, LimitIs
          <5>2. PICK i, j \in Nat : Limited(r0, r, i, j) BY <5>1
          <5>3. Finds(r0, P, Q) BY <2>5, <4>2
          <5>4. About(r) = (P + 1 .. Q) \cap ToSet(Reads(r0.doc, Root)) BY <2>5, <3>2, <5>1, <5>2, <5>3, LimitedIsExact
          <5>5. Root \in Elements(doc) BY <1>1, NodesAssumption DEF WellFormed, Elements
          <5>6. Reads(r0.doc, Root) = Reads(doc, Root) BY <2>5, <5>5 DEF Kept, Unchanged, Same
          <5> QED BY <2>4, <4>2, <5>4, <5>6
        <4> QED BY <4>1, <4>2
      <3> QED BY <2>1, <2>5, <2>6, <2>8, <3>3, <3>4
    <2> QED BY <2>7, <2>8
  <1> QED BY <1>2, <1>3

(* and is kept by a selection, whether or not it is of the annotated       *)
(* element,                                                                *)
LEMMA SelectHolds ==
  ASSUME IInv, Room(doc, 2), NEW from \in Points(doc), NEW to \in Points(doc), CharsBefore(doc, from) < CharsBefore(doc, to),
         Select(from, to)
  PROVE  IInv'
  <1>1. Kept(doc, doc') BY SelectKeeps
  <1>2. /\ PageHolds' /\ \A a \in DOMAIN made : Held(doc', made[a])
        /\ Highlights(doc) \subseteq Highlights(doc')
        /\ \A a \in DOMAIN made : drawn[a] # {} => Covers(doc', drawn[a], made[a].about)
    BY <1>1, SplitsHold
  <1>3. Theirs /\ SelectionIsExact BY DEF IInv
  <1>4. CASE UNCHANGED <<made, drawn>>
    <2>1. made' = made /\ drawn' = drawn BY <1>4
    <2>2. Theirs' BY <1>2, <1>3, <2>1 DEF Theirs
    <2>3. Leads' /\ SelectionIsExact' /\ Covering' BY <1>2, <1>3, <2>1 DEF Leads, SelectionIsExact, Covering
    <2>4. made' \in Seq(ToSet(made')) /\ Len(made') = Len(drawn') BY <2>1 DEF IInv
    <2> QED BY <1>2, <2>2, <2>3, <2>4 DEF IInv
  <1>5. ASSUME drawn' = Append(drawn, {}), NEW x, made' = Append(made, x), Held(doc', x), x.about = x.wanted
        PROVE  IInv'
    <2>1. /\ Len(made) \in Nat /\ DOMAIN made = 1 .. Len(made) /\ DOMAIN drawn = 1 .. Len(made) /\ Len(drawn) = Len(made)
          /\ made \in Seq(ToSet(made)) /\ drawn \in Seq(SUBSET Nodes)
      BY Lengths
    <2>2. drawn' \in Seq(SUBSET Nodes) /\ Len(drawn') = Len(made) + 1
      <3>1. {} \in SUBSET Nodes OBVIOUS
      <3> QED BY <1>5, <2>1, <3>1, AppendProperties
    <2>3. (\A a \in 1 .. Len(made) : drawn'[a] = drawn[a]) /\ drawn'[Len(made) + 1] = {}
      <3>1. {} \in SUBSET Nodes OBVIOUS
      <3> QED BY <1>5, <2>1, <3>1, AppendProperties
    <2>4. made' \in Seq(ToSet(made) \cup {x}) /\ Len(made') = Len(made) + 1
      <3>1. made \in Seq(ToSet(made) \cup {x}) /\ x \in ToSet(made) \cup {x} BY <2>1
      <3> QED BY <1>5, <3>1, AppendProperties
    <2>5. (\A a \in 1 .. Len(made) : made'[a] = made[a]) /\ made'[Len(made) + 1] = x BY <1>5, <2>1, AppendProperties
    <2>6. DOMAIN made' = 1 .. Len(made) + 1 /\ DOMAIN drawn' = 1 .. Len(made) + 1 BY <2>2, <2>4, LenProperties
    <2>7. \A a \in 1 .. Len(made) + 1 : a \in 1 .. Len(made) \/ a = Len(made) + 1 BY <2>1
    <2>8. made' \in Seq(ToSet(made'))
      <3>1. \A a \in 1 .. Len(made') : made'[a] \in ToSet(made') BY <2>4, <2>6 DEF ToSet
      <3> QED BY <2>4, <3>1
    <2>9. Theirs'
      <3>1. \A a \in DOMAIN drawn' : (a \in DOMAIN drawn /\ drawn'[a] = drawn[a]) \/ drawn'[a] = {} BY <2>1, <2>3, <2>6, <2>7
      <3> QED BY <1>2, <1>3, <2>2, <3>1 DEF Theirs
    <2>10. Leads' BY <1>2, <1>5, <2>1, <2>5, <2>6, <2>7 DEF Leads
    <2>11. SelectionIsExact' BY <1>3, <1>5, <2>1, <2>5, <2>6, <2>7 DEF SelectionIsExact
    <2>12. Covering' BY <1>2, <2>1, <2>3, <2>5, <2>6, <2>7 DEF Covering
    <2> QED BY <1>2, <2>2, <2>4, <2>8, <2>9, <2>10, <2>11, <2>12 DEF IInv
  <1> QED BY <1>4, <1>5, SelectKeeps

(* One annotation has other highlights than before: none, or new ones that *)
(* cover what it is about.                                                 *)
LEMMA RedrawnHolds ==
  ASSUME IInv, NEW a \in DOMAIN drawn, NEW hs, drawn' = [drawn EXCEPT ![a] = hs], made' = made,
         PageHolds', \A b \in DOMAIN made : Held(doc', made[b]),
         hs \subseteq Highlights(doc'), hs # {} => Covers(doc', hs, made[a].about),
         \A b \in DOMAIN drawn \ {a} : drawn[b] \subseteq Highlights(doc') /\ drawn[b] \cap hs = {},
         \A b \in DOMAIN drawn \ {a} : drawn[b] # {} => Covers(doc', drawn[b], made[b].about)
  PROVE  IInv'
  <1>1. drawn \in Seq(SUBSET Nodes) /\ \A b, c \in DOMAIN drawn : b # c => drawn[b] \cap drawn[c] = {} BY DEF IInv, Theirs
  <1>2. hs \in SUBSET Nodes BY DEF Highlights
  <1>3. drawn' \in Seq(SUBSET Nodes) /\ DOMAIN drawn' = DOMAIN drawn
    <2>1. DOMAIN drawn = 1 .. Len(drawn) BY <1>1, LenProperties
    <2> QED BY <1>1, <1>2, <2>1, ExceptSeq
  <1>4. \A b \in DOMAIN drawn : drawn'[b] = IF b = a THEN hs ELSE drawn[b] BY <1>1
  <1>5. \A b \in DOMAIN drawn' : drawn'[b] \subseteq Highlights(doc') BY <1>3, <1>4
  <1>6. ASSUME NEW b \in DOMAIN drawn', NEW c \in DOMAIN drawn', b # c PROVE drawn'[b] \cap drawn'[c] = {}
    BY <1>1, <1>3, <1>4, <1>6
  <1>7. Theirs' BY <1>3, <1>5, <1>6 DEF Theirs
  <1>8. made' \in Seq(ToSet(made')) /\ Len(made') = Len(drawn') /\ DOMAIN made = DOMAIN drawn
    <2>1. made \in Seq(ToSet(made)) /\ Len(made) \in Nat /\ DOMAIN made = 1 .. Len(made) /\ DOMAIN drawn = 1 .. Len(made) BY Lengths
    <2>2. DOMAIN drawn' = 1 .. Len(drawn') /\ Len(drawn') \in Nat BY <1>3, LenProperties
    <2>3. Len(drawn') = Len(made) BY <1>3, <2>1, <2>2
    <2> QED BY <2>1, <2>3
  <1>9. Covering' BY <1>4, <1>8 DEF Covering
  <1>10. Leads' /\ SelectionIsExact' BY DEF IInv, Leads, SelectionIsExact
  <1> QED BY <1>7, <1>8, <1>9, <1>10 DEF IInv

(* by drawing an annotation, whether or not it is found,                   *)
LEMMA DrawHolds ==
  ASSUME IInv, NEW a \in DOMAIN drawn, Draw(a)
  PROVE  IInv'
  <1> DEFINE r == Anchor(doc, made[a].range)
             h == HighlightRange(r)
  <1>1. Room(doc, 2) /\ WellFormed(doc) /\ Decent(doc) /\ Numbered(doc) /\ made' = made BY DEF Draw, IInv, PageHolds
  <1>2. Kept(doc, r.doc) /\ (r.start # None => r.common \in Elements(doc) /\ r.end # None) BY <1>1, AnchorKeeps
  <1>3. (\A b \in DOMAIN drawn : drawn[b] \subseteq Highlights(doc)) /\ DOMAIN made = DOMAIN drawn BY Lengths DEF IInv, Theirs
  <1>4. About(r) = made[a].about
    <2>1. Held(doc, made[a]) BY <1>3 DEF IInv, Leads
    <2> QED BY <1>1, <2>1, AnchorFinds
  <1>5. CASE r.start = None
    <2>1. doc' = r.doc /\ drawn' = [drawn EXCEPT ![a] = {}] BY <1>5 DEF Draw
    <2> HIDE DEF r
    <2>2. Kept(doc, doc') BY <1>2, <2>1
    <2>3. /\ PageHolds' /\ \A b \in DOMAIN made : Held(doc', made[b])
          /\ Highlights(doc) \subseteq Highlights(doc')
          /\ \A b \in DOMAIN made : drawn[b] # {} => Covers(doc', drawn[b], made[b].about)
      BY <2>2, SplitsHold
    <2>4. \A b \in DOMAIN drawn \ {a} : drawn[b] \subseteq Highlights(doc') /\ drawn[b] \cap {} = {} BY <1>3, <2>3
    <2>5. {} \subseteq Highlights(doc') OBVIOUS
    <2>6. \A b \in DOMAIN drawn \ {a} : drawn[b] # {} => Covers(doc', drawn[b], made[b].about) BY <1>3, <2>3
    <2> DEFINE hs == {}
    <2>7. hs # {} => Covers(doc', hs, made[a].about) OBVIOUS
    <2>8. drawn' = [drawn EXCEPT ![a] = hs] /\ hs \subseteq Highlights(doc')
          /\ \A b \in DOMAIN drawn \ {a} : drawn[b] \subseteq Highlights(doc') /\ drawn[b] \cap hs = {}
      BY <2>1, <2>4
    <2> HIDE DEF hs
    <2> QED BY <1>1, <2>3, <2>6, <2>7, <2>8, RedrawnHolds
  <1>6. CASE r.start # None
    <2>1. Room(r.doc, Len(RangeNodes(r.doc, r))) /\ doc' = h.doc /\ drawn' = [drawn EXCEPT ![a] = h.highlights] BY <1>6 DEF Draw
    <2>2. WellFormed(r.doc) /\ r.common \in Elements(r.doc)
      <3> HIDE DEF r
      <3>1. Elements(doc) \subseteq Elements(r.doc) BY <1>2, KeptElements
      <3> QED BY <1>2, <1>6, <3>1 DEF Kept
    <2> HIDE DEF r
    <2>3. RangeNodes(r.doc, r) \in Seq(Texts(r.doc)) BY <1>2, <1>6, <2>2, RangeNodesAre
    <2>4. Kept(r.doc, h.doc) /\ h.highlights \subseteq Highlights(h.doc) \cap Free(r.doc) /\ Marking(r)
      BY <2>1, <2>2, <2>3, HighlightRangeKeeps
    <2>5. Covers(h.doc, h.highlights, About(r)) BY <1>6, <2>2, <2>3, <2>4, CoversNew
    <2> HIDE DEF h
    <2>6. Kept(doc, doc') BY <1>2, <2>1, <2>4, KeptOn
    <2>7. /\ PageHolds' /\ \A b \in DOMAIN made : Held(doc', made[b])
          /\ Highlights(doc) \subseteq Highlights(doc')
          /\ \A b \in DOMAIN made : drawn[b] # {} => Covers(doc', drawn[b], made[b].about)
      BY <2>6, SplitsHold
    <2>8. h.highlights \subseteq Highlights(doc') /\ Covers(doc', h.highlights, made[a].about) BY <1>4, <2>1, <2>4, <2>5
    <2>9. \A b \in DOMAIN drawn \ {a} : drawn[b] \subseteq Highlights(doc') /\ drawn[b] \cap h.highlights = {}
      <3>1. Free(r.doc) \subseteq Free(doc) BY <1>2 DEF Kept
      <3>2. Highlights(doc) \cap Free(doc) = {} BY DEF Highlights, Free
      <3> QED BY <1>3, <2>4, <2>7, <3>1, <3>2
    <2>10. \A b \in DOMAIN drawn \ {a} : drawn[b] # {} => Covers(doc', drawn[b], made[b].about) BY <1>3, <2>7
    <2> QED BY <1>1, <2>1, <2>7, <2>8, <2>9, <2>10, RedrawnHolds
  <1> QED BY <1>5, <1>6

(* The page, where highlights are taken out.                               *)
LEMMA TakenOutHolds ==
  ASSUME IInv, NEW hs \in SUBSET Highlights(doc), doc' = UnwrapAll(doc, hs)
  PROVE  /\ PageHolds' /\ \A a \in DOMAIN made : Held(doc', made[a])
         /\ Highlights(doc') = Highlights(doc) \ hs
         /\ \A a \in DOMAIN made : drawn[a] # {} /\ drawn[a] \cap hs = {} => Covers(doc', drawn[a], made[a].about)
  <1>1. Unwrapped(doc, doc', hs) BY UnwrapAllKeeps DEF IInv, PageHolds
  <1>2. WellFormed(doc') /\ Shaped(doc, doc') /\ Unchanged(doc, doc', Elements(doc) \ hs) BY <1>1 DEF Unwrapped
  <1>3. Elements(doc) \ Highlights(doc) \subseteq Elements(doc) \ hs OBVIOUS
  <1>4. PageHolds' /\ \A a \in DOMAIN made : Held(doc', made[a]) BY <1>2, <1>3, PageKeeps
  <1>5. Highlights(doc') = Highlights(doc) \ hs
    <2>1. ASSUME NEW x \in Nodes PROVE doc'.kind[x] = "highlight" <=> doc.kind[x] = "highlight" /\ x \notin hs BY <1>1 DEF Unwrapped
    <2> QED BY <2>1 DEF Highlights
  <1>6. ASSUME NEW a \in DOMAIN made, drawn[a] # {}, drawn[a] \cap hs = {} PROVE Covers(doc', drawn[a], made[a].about)
    <2>1. a \in DOMAIN drawn BY Lengths
    <2>2. drawn[a] \subseteq Elements(doc) \ hs BY <1>6, <2>1 DEF IInv, Theirs, Highlights, Elements
    <2>3. Covers(doc, drawn[a], made[a].about) BY <1>6 DEF IInv, Covering
    <2> QED BY <1>2, <2>2, <2>3, CoversOn
  <1> QED BY <1>4, <1>5, <1>6

(* by undrawing one, which takes out its highlights and none of the        *)
(* others,                                                                 *)
LEMMA UndrawHolds ==
  ASSUME IInv, NEW a \in DOMAIN drawn, Undraw(a)
  PROVE  IInv'
  <1> DEFINE hs == drawn[a]
  <1>1. doc' = UnwrapAll(doc, hs) /\ drawn' = [drawn EXCEPT ![a] = {}] /\ made' = made BY DEF Undraw
  <1>2. hs \in SUBSET Highlights(doc) BY DEF IInv, Theirs
  <1>3. \A b \in DOMAIN drawn \ {a} : drawn[b] \subseteq Highlights(doc) /\ drawn[b] \cap hs = {} BY DEF IInv, Theirs
  <1> HIDE DEF hs
  <1>4. /\ PageHolds' /\ \A b \in DOMAIN made : Held(doc', made[b])
        /\ Highlights(doc') = Highlights(doc) \ hs
        /\ \A b \in DOMAIN made : drawn[b] # {} /\ drawn[b] \cap hs = {} => Covers(doc', drawn[b], made[b].about)
    BY <1>1, <1>2, TakenOutHolds
  <1>5. DOMAIN made = DOMAIN drawn BY Lengths
  <1>6. \A b \in DOMAIN drawn \ {a} : drawn[b] # {} => Covers(doc', drawn[b], made[b].about) BY <1>3, <1>4, <1>5
  <1> DEFINE none == {}
  <1>7. /\ drawn' = [drawn EXCEPT ![a] = none] /\ none \subseteq Highlights(doc')
        /\ none # {} => Covers(doc', none, made[a].about)
        /\ \A b \in DOMAIN drawn \ {a} : drawn[b] \subseteq Highlights(doc') /\ drawn[b] \cap none = {}
    BY <1>1, <1>3, <1>4
  <1> HIDE DEF none
  <1> QED BY <1>1, <1>4, <1>6, <1>7, RedrawnHolds

(* by taking out all highlights,                                           *)
LEMMA ClearHolds ==
  ASSUME IInv, Clear
  PROVE  IInv'
  <1>1. doc' = UnwrapAll(doc, Highlights(doc)) /\ drawn' = [a \in DOMAIN drawn |-> {}] /\ made' = made BY DEF Clear, Highlights
  <1>2. PageHolds' /\ \A a \in DOMAIN made : Held(doc', made[a]) BY <1>1, TakenOutHolds
  <1>3. DOMAIN drawn = 1 .. Len(made) /\ Len(made) \in Nat /\ DOMAIN made = 1 .. Len(made) /\ made \in Seq(ToSet(made)) BY Lengths
  <1>4. drawn' = [a \in 1 .. Len(made) |-> {}] BY <1>1, <1>3
  <1>5. drawn' \in Seq(SUBSET Nodes) /\ Len(drawn') = Len(made) BY <1>3, <1>4
  <1>6. (\A a \in DOMAIN drawn' : drawn'[a] = {}) /\ DOMAIN drawn' = DOMAIN made BY <1>3, <1>4
  <1>7. Theirs' BY <1>5, <1>6 DEF Theirs
  <1>8. Covering' BY <1>1, <1>6 DEF Covering
  <1>9. Leads' /\ SelectionIsExact' BY <1>1, <1>2 DEF IInv, Leads, SelectionIsExact
  <1> QED BY <1>1, <1>2, <1>3, <1>5, <1>7, <1>8, <1>9 DEF IInv

(* and so by every step.                                                   *)
LEMMA NextHolds == IInv /\ [Next]_vars => IInv'
  <1> SUFFICES ASSUME IInv, [Next]_vars PROVE IInv' OBVIOUS
  <1>1. ASSUME NEW from \in Points(doc), NEW to \in Points(doc), Room(doc, 2), CharsBefore(doc, from) < CharsBefore(doc, to), Select(from, to)
        PROVE  IInv'
    BY <1>1, SelectHolds
  <1>2. ASSUME NEW a \in DOMAIN drawn, Draw(a) PROVE IInv' BY <1>2, DrawHolds
  <1>3. ASSUME NEW a \in DOMAIN drawn, Undraw(a) PROVE IInv' BY <1>3, UndrawHolds
  <1>4. ASSUME Clear PROVE IInv' BY <1>4, ClearHolds
  <1>5. ASSUME UNCHANGED vars PROVE IInv'
    BY <1>5 DEF IInv, PageHolds, Theirs, TextIsKept, Leads, SelectionIsExact, Covering, vars
  <1>6. CASE Next
    <2>1. \/ Room(doc, 2) /\ \E from, to \in Points(doc) : CharsBefore(doc, from) < CharsBefore(doc, to) /\ Select(from, to)
          \/ \E a \in DOMAIN drawn : Draw(a) \/ Undraw(a)
          \/ Clear
      BY <1>6 DEF Next
    <2> QED BY <2>1, <1>1, <1>2, <1>3, <1>4
  <1> QED BY <1>5, <1>6

(* The page stays a tree in which each node is in one place, whatever is   *)
(* selected, drawn, drawn again, undrawn and cleared in whatever order;    *)
(* every annotation keeps elements and offsets that lead to what it is     *)
(* about, and its own highlights.                                          *)
THEOREM PageStays == Spec => []IInv
  BY InitHolds, NextHolds, PTL DEF Spec

(* Every element of the page has its text, in its order, as the page had   *)
(* it to begin with: splitText, wrapAll and the replaceWith of undraw      *)
(* lose, double and move no character, for all pages, selections and       *)
(* numbers of annotations.                                                 *)
THEOREM TextStays == Spec => []TextIsKept
  <1>1. IInv => TextIsKept BY DEF IInv, PageHolds
  <1> QED BY <1>1, PageStays, PTL

(* No two annotations share a highlight, and a highlight an annotation     *)
(* remembers is in the page: undrawing one annotation never takes out what *)
(* another has drawn.                                                      *)
THEOREM HighlightsStayTheirs == Spec => []Theirs
  <1>1. IInv => Theirs BY DEF IInv
  <1> QED BY <1>1, PageStays, PTL

(* The paths and offsets an annotation is kept as lead back to the very    *)
(* characters it was made for, in any document that drawing, undrawing and *)
(* selecting can make of the page: SerializedRange.normalize undoes        *)
(* NormalizedRange.serialize across splits and highlights.                 *)
THEOREM RangesAreFound == Spec => []RangesHold
  <1>1. ASSUME IInv, Room(doc, 2), NEW a \in DOMAIN made PROVE About(Anchor(doc, made[a].range)) = made[a].about
    <2>1. WellFormed(doc) /\ Decent(doc) /\ Numbered(doc) /\ Held(doc, made[a]) BY <1>1 DEF IInv, PageHolds, Leads
    <2> QED BY <1>1, <2>1, AnchorFinds
  <1>2. IInv => RangesHold BY <1>1 DEF RangesHold
  <1> QED BY <1>2, PageStays, PTL

(* An annotation is about the selected characters of the annotated element *)
(* and about no others: BrowserRange.normalize and NormalizedRange.limit   *)
(* cut a selection to it exactly, unless it begins at the end of a text.   *)
THEOREM SelectionsAreExact == Spec => []SelectionIsExact
  <1>1. IInv => SelectionIsExact BY DEF IInv
  <1> QED BY <1>1, PageStays, PTL

(* What is drawn of an annotation covers its characters, but for white     *)
(* space, and no others, however many annotations overlap it and whichever *)
(* of them are drawn, drawn again and undrawn.                             *)
THEOREM HighlightsStayCovering == Spec => []HighlightsCover
  <1>1. IInv => Covering BY DEF IInv
  <1>2. IInv => HighlightsCover BY <1>1, CoveringIs
  <1> QED BY <1>2, PageStays, PTL
=============================================================================
