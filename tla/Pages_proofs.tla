---------------------------- MODULE Pages_proofs ----------------------------
(* Lemmas about the pages of Ranges: what splitting a text, putting texts  *)
(* into highlights and taking highlights out makes of a page.  It stays a  *)
(* tree that reads as it did, with its elements where they were.           *)
(*                                                                         *)
(* All of it rests on recursion along the tree: what a node reads is       *)
(* joined from what its children read, and what is over a node comes from  *)
(* its parent.                                                             *)
EXTENDS Ranges, TLAPS, SequenceTheorems, FiniteSetTheorems, FunctionTheorems, NaturalsInduction, WellFoundedInduction

(* A set of numbers that is not empty has a least one.                     *)
LEMMA Least ==
  ASSUME NEW T, T \subseteq Nat, T # {}
  PROVE  \E k \in T : \A j \in T : k <= j
  <1>1. PICK k \in T : \A j \in T : ~ (<<j, k>> \in OpToRel(<, Nat))
    BY NatLessThanWellFounded, WFMin
  <1>2. \A j \in T : ~ (j < k) BY <1>1 DEF OpToRel
  <1>3. ASSUME NEW j \in T PROVE k <= j
    <2>1. j \in Nat /\ k \in Nat /\ ~ (j < k) BY <1>2
    <2> QED BY <2>1, SMT
  <1> QED BY <1>3

(* Recursion on a relation without infinite descent has a solution.        *)
Solves(G, K, f, D) == (\A n \in D : K[n] \subseteq D) /\ \A n \in D : f[n] = G[n][f]

(* G looks at f where K says.                                              *)
Same(x, y) == x = y
(* f and g are the same on D.                                              *)
Agree(f, g, D) == \A k \in D : f[k] = g[k]
Local(G, K, N, V) ==
  \A n \in N : \A f, g \in [N -> V] : Agree(f, g, K[n]) => Same(G[n][f], G[n][g])

(* There is no way round in K: in every set is one without a K in it.      *)
Grounded(N, K) == \A S \in (SUBSET N) \ {{}} : \E n \in S : K[n] \cap S = {}
(* F is what G makes of F, everywhere.                                     *)
Solution(G, N, F) == \A n \in N : F[n] = G[n][F]

(* What is defined by its values at the places K leads to is defined, if K *)
(* leads nowhere round.                                                    *)
LEMMA Recursion ==
  ASSUME NEW N, NEW V, NEW v0 \in V, NEW K \in [N -> SUBSET N], NEW G \in [N -> [[N -> V] -> V]],
         Grounded(N, K), Local(G, K, N, V)
  PROVE  \E F \in [N -> V] : Solution(G, N, F)
  <1> DEFINE Known(n, v) == \E D \in SUBSET N : \E f \in [N -> V] : n \in D /\ Solves(G, K, f, D) /\ v = f[n]
             Good == {n \in N : \E v \in V : Known(n, v)}
             F == [n \in N |-> IF n \in Good THEN CHOOSE v \in V : Known(n, v) ELSE v0]
  <1>1. ASSUME NEW D \in SUBSET N, NEW E \in SUBSET N, NEW f \in [N -> V], NEW g \in [N -> V],
               Solves(G, K, f, D), Solves(G, K, g, E)
        PROVE  Agree(f, g, D \cap E)
    <2> DEFINE S == {n \in D \cap E : f[n] # g[n]}
    <2>1. SUFFICES ASSUME S # {} PROVE FALSE BY DEF Agree
    <2>2. PICK n \in S : K[n] \cap S = {} BY <2>1 DEF Grounded
    <2>3. Agree(f, g, K[n])
      <3>1. \A k \in K[n] : k \in D \cap E BY <1>1 DEF Solves
      <3> QED BY <2>2, <3>1 DEF Agree
    <2>4. Same(G[n][f], G[n][g]) BY <2>3 DEF Local
    <2> QED BY <2>4, <1>1 DEF Solves, Same
  <1>2. ASSUME NEW D \in SUBSET N, NEW f \in [N -> V], Solves(G, K, f, D), NEW n \in D PROVE n \in Good /\ Same(F[n], f[n])
    <2>1. Known(n, f[n]) /\ f[n] \in V BY <1>2
    <2>2. n \in Good /\ F[n] = CHOOSE v \in V : Known(n, v) BY <2>1
    <2>3. Known(n, F[n]) BY <2>1, <2>2
    <2>4. PICK E \in SUBSET N, g \in [N -> V] : n \in E /\ Solves(G, K, g, E) /\ F[n] = g[n] BY <2>3
    <2>5. Agree(f, g, D \cap E) BY <1>1, <1>2, <2>4
    <2> QED BY <1>2, <2>2, <2>4, <2>5 DEF Agree, Same
  <1>3. F \in [N -> V]
    <2>1. \A n \in N : F[n] \in V OBVIOUS
    <2> QED BY <2>1
  <1>4. \A n \in Good : \E D \in SUBSET N : \E f \in [N -> V] : n \in D /\ Solves(G, K, f, D) OBVIOUS
  <1>6. Good \subseteq N OBVIOUS
  <1> HIDE DEF Good, F
  <1>5. ASSUME NEW n \in Good PROVE K[n] \subseteq Good /\ F[n] = G[n][F]
    <2>1. PICK D \in SUBSET N, f \in [N -> V] : n \in D /\ Solves(G, K, f, D) BY <1>4
    <2>2. K[n] \subseteq D /\ f[n] = G[n][f] BY <2>1 DEF Solves
    <2>3. \A k \in K[n] : k \in Good /\ Same(F[k], f[k]) BY <1>2, <2>1, <2>2
    <2>4. n \in N /\ Agree(F, f, K[n]) BY <1>6, <2>3 DEF Agree, Same
    <2>5. Same(G[n][F], G[n][f]) BY <1>3, <2>4 DEF Local
    <2>6. Same(F[n], f[n]) BY <1>2, <2>1
    <2> QED BY <2>2, <2>3, <2>5, <2>6 DEF Same
  <1>7. ASSUME N \ Good # {} PROVE FALSE
    <2>1. PICK n \in N \ Good : K[n] \cap (N \ Good) = {} BY <1>7 DEF Grounded
    <2>2. K[n] \subseteq Good BY <2>1
    <2> DEFINE f == [F EXCEPT ![n] = G[n][F]]
               D == Good \cup {n}
    <2>3. G[n][F] \in V /\ f \in [N -> V] BY <1>3
    <2>4. \A m \in Good : f[m] = F[m] BY <1>3, <1>6, <2>1
    <2>5. f[n] = G[n][F] BY <1>3
    <2> HIDE DEF f
    <2>6. ASSUME NEW m \in D PROVE K[m] \subseteq D /\ f[m] = G[m][f]
      <3>1. K[m] \subseteq Good /\ f[m] = G[m][F] BY <1>5, <2>2, <2>4, <2>5
      <3>2. Agree(F, f, K[m]) BY <3>1, <2>4 DEF Agree
      <3>3. m \in N BY <1>6
      <3>4. Same(G[m][F], G[m][f]) BY <1>3, <2>3, <3>2, <3>3 DEF Local
      <3> QED BY <3>1, <3>4 DEF Same
    <2>7. Solves(G, K, f, D) BY <2>6 DEF Solves
    <2>8. n \in Good
      <3>1. D \in SUBSET N /\ n \in D BY <1>6
      <3> QED BY <1>2, <2>3, <2>7, <3>1
    <2> QED BY <2>8
  <1>8. Good = N BY <1>6, <1>7
  <1> QED BY <1>3, <1>5, <1>8 DEF Solution

-----------------------------------------------------------------------------
(* Joining sequences.                                                      *)

(* FlattenSeq adds one sequence after the other to the first.              *)
LEMMA FlattenIs ==
  ASSUME NEW S, NEW ss \in Seq(Seq(S)), ss # <<>>
  PROVE  \E f \in [1 .. Len(ss) -> Seq(S)] :
           /\ f = [i \in 1 .. Len(ss) |-> IF i = 1 THEN ss[i] ELSE f[i - 1] \o ss[i]]
           /\ FlattenSeq(ss) = f[Len(ss)]
  <1> DEFINE N == 1 .. Len(ss)
             K == [i \in N |-> {j \in N : j = i - 1}]
             G == [n \in N |-> [f \in [N -> Seq(S)] |-> IF n = 1 THEN ss[n] ELSE f[n - 1] \o ss[n]]]
             Is(f) == f = [i \in N |-> IF i = 1 THEN ss[i] ELSE f[i - 1] \o ss[i]]
  <1>1. Len(ss) \in Nat \ {0} /\ \A i \in N : ss[i] \in Seq(S) BY EmptySeq, LenProperties, ElementOfSeq
  <1>2. G \in [N -> [[N -> Seq(S)] -> Seq(S)]]
    <2>1. ASSUME NEW n \in N, NEW f \in [N -> Seq(S)] PROVE (IF n = 1 THEN ss[n] ELSE f[n - 1] \o ss[n]) \in Seq(S)
      <3>1. CASE n = 1 BY <1>1, <3>1
      <3>2. CASE n # 1
        <4>1. n - 1 \in N BY <1>1, <3>2
        <4>2. f[n - 1] \in Seq(S) /\ ss[n] \in Seq(S) BY <1>1, <4>1
        <4> QED BY <3>2, <4>2, ConcatProperties
      <3> QED BY <3>1, <3>2
    <2> QED BY <2>1
  <1>3. ASSUME NEW T \in (SUBSET N) \ {{}} PROVE \E n \in T : K[n] \cap T = {}
    <2>0. N \subseteq Nat BY <1>1, SMT
    <2>1. PICK k \in T : \A j \in T : k <= j
      <3>1. T \subseteq Nat /\ T # {} BY <2>0
      <3> QED BY <3>1, Least
    <2>2. \A j \in K[k] : j \notin T BY <1>1, <2>1
    <2> QED BY <2>2
  <1>4. ASSUME NEW n \in N, NEW f \in [N -> Seq(S)], NEW g \in [N -> Seq(S)], Agree(f, g, K[n])
        PROVE  Same(G[n][f], G[n][g])
    <2>1. CASE n = 1 BY <2>1 DEF Same
    <2>2. CASE n # 1
      <3>1. n - 1 \in N /\ n - 1 \in K[n] BY <1>1, <2>2
      <3> QED BY <2>2, <3>1, <1>4 DEF Same, Agree
    <2> QED BY <2>1, <2>2
  <1>5. <<>> \in Seq(S) /\ K \in [N -> SUBSET N] BY EmptySeq
  <1>6. PICK f \in [N -> Seq(S)] : \A n \in N : f[n] = G[n][f]
    <2> DEFINE V == Seq(S)
    <2>0. Grounded(N, K)
      <3> HIDE DEF N, K
      <3> QED BY <1>3 DEF Grounded
    <2>1. Local(G, K, N, V)
      <3> HIDE DEF N, K, G
      <3> QED BY <1>4 DEF Local
    <2>2. G \in [N -> [[N -> V] -> V]] /\ <<>> \in V /\ K \in [N -> SUBSET N] BY <1>2, <1>5
    <2> HIDE DEF N, K, G, V
    <2>3. \E f \in [N -> V] : Solution(G, N, f) BY <2>0, <2>1, <2>2, Recursion
    <2> QED BY <2>3 DEF V, Solution
  <1>7. Is(f)
    <2>1. \A n \in N : f[n] = IF n = 1 THEN ss[n] ELSE f[n - 1] \o ss[n] BY <1>6
    <2> QED BY <2>1
  <1>8. ASSUME NEW h, Is(h) PROVE h = f
    <2>1. h = [n \in N |-> h[n]] BY <1>8
    <2> DEFINE T == {n \in N : h[n] # f[n]}
    <2>2. CASE T # {}
      <3>0. T \subseteq Nat BY <1>1, SMT
      <3>1. PICK n \in T : \A j \in T : n <= j BY <3>0, <2>2, Least
      <3>2. CASE n = 1
        <4>1. h[n] = ss[n] BY <1>8, <3>2
        <4>2. f[n] = ss[n] BY <1>7, <3>2
        <4> QED BY <4>1, <4>2
      <3>3. CASE n # 1
        <4>1. n - 1 \in N /\ ~ (n <= n - 1) BY <1>1, <3>3
        <4>2. h[n - 1] = f[n - 1] BY <3>1, <4>1
        <4>3. h[n] = h[n - 1] \o ss[n] BY <1>8, <3>3
        <4>4. f[n] = f[n - 1] \o ss[n] BY <1>7, <3>3
        <4> QED BY <4>2, <4>3, <4>4
      <3> QED BY <3>2, <3>3
    <2>3. CASE T = {}
      <3>1. \A n \in N : h[n] = f[n] BY <2>3
      <3> QED BY <2>1, <3>1
    <2> QED BY <2>2, <2>3
  <1> DEFINE flat == CHOOSE h : Is(h)
  <1>9. flat = f
    <2>1. Is(flat) BY <1>7
    <2> QED BY <2>1, <1>8
  <1>10. FlattenSeq(ss) = flat[Len(ss)]
    <2>1. Len(ss) # 0 BY <1>1
    <2> QED BY <2>1 DEF FlattenSeq
  <1> QED BY <1>7, <1>9, <1>10

-----------------------------------------------------------------------------
(* Sequences put together are a sequence,                                  *)
LEMMA FlattenType ==
  ASSUME NEW S, NEW ss \in Seq(Seq(S))
  PROVE  FlattenSeq(ss) \in Seq(S)
  <1>1. CASE ss = <<>>
    <2>1. FlattenSeq(ss) = <<>> BY <1>1, EmptySeq DEF FlattenSeq
    <2> QED BY <2>1, EmptySeq
  <1>2. CASE ss # <<>>
    <2>1. PICK f \in [1 .. Len(ss) -> Seq(S)] : FlattenSeq(ss) = f[Len(ss)] BY <1>2, FlattenIs
    <2>2. Len(ss) \in 1 .. Len(ss) BY <1>2, EmptySeq
    <2> QED BY <2>1, <2>2
  <1> QED BY <1>1, <1>2

(* of nothing the empty one,                                               *)
LEMMA FlattenEmpty == FlattenSeq(<<>>) = <<>>
  BY EmptySeq DEF FlattenSeq

(* and of one sequence more that much longer.                              *)
LEMMA FlattenAppend ==
  ASSUME NEW S, NEW ss \in Seq(Seq(S)), NEW x \in Seq(S)
  PROVE  FlattenSeq(Append(ss, x)) = FlattenSeq(ss) \o x
  <1> DEFINE t == Append(ss, x)
             n == Len(ss)
  <1>1. n \in Nat /\ t \in Seq(Seq(S)) /\ t # <<>> /\ Len(t) = n + 1 /\ t[n + 1] = x /\ \A i \in 1 .. n : t[i] = ss[i]
    BY AppendProperties, LenProperties
  <1> HIDE DEF t
  <1>2. PICK g \in [1 .. n + 1 -> Seq(S)] :
          /\ g = [i \in 1 .. n + 1 |-> IF i = 1 THEN t[i] ELSE g[i - 1] \o t[i]]
          /\ FlattenSeq(t) = g[n + 1]
    <2>1. \E g \in [1 .. Len(t) -> Seq(S)] :
            /\ g = [i \in 1 .. Len(t) |-> IF i = 1 THEN t[i] ELSE g[i - 1] \o t[i]]
            /\ FlattenSeq(t) = g[Len(t)]
      BY <1>1, FlattenIs
    <2> QED BY <1>1, <2>1
  <1>3. CASE ss = <<>>
    <2>1. n = 0 BY <1>3, EmptySeq
    <2>2. FlattenSeq(t) = x BY <1>1, <1>2, <2>1
    <2>3. FlattenSeq(ss) = <<>> BY <1>3, FlattenEmpty
    <2> QED BY <2>2, <2>3, ConcatEmptySeq DEF t
  <1>4. CASE ss # <<>>
    <2>0. n \in Nat \ {0} BY <1>4, EmptySeq
    <2>1. PICK f \in [1 .. n -> Seq(S)] :
          /\ f = [i \in 1 .. n |-> IF i = 1 THEN ss[i] ELSE f[i - 1] \o ss[i]]
          /\ FlattenSeq(ss) = f[n]
      BY <1>4, FlattenIs
    <2> DEFINE T == {i \in 1 .. n : f[i] # g[i]}
    <2>2. ASSUME T # {} PROVE FALSE
      <3>1. T \subseteq Nat BY <1>1, SMT
      <3>2. PICK i \in T : \A j \in T : i <= j BY <3>1, <2>2, Least
      <3>3. i \in 1 .. n /\ i \in 1 .. n + 1 BY <1>1
      <3>4. CASE i = 1
        <4>1. f[i] = ss[i] BY <2>1, <3>3, <3>4
        <4>2. g[i] = t[i] BY <1>2, <3>3, <3>4
        <4> QED BY <4>1, <4>2, <1>1, <3>3
      <3>5. CASE i # 1
        <4>1. f[i] = f[i - 1] \o ss[i] BY <2>1, <3>3, <3>5
        <4>2. g[i] = g[i - 1] \o t[i] BY <1>2, <3>3, <3>5
        <4>3. i - 1 \in 1 .. n /\ ~ (i <= i - 1) BY <1>1, <3>3, <3>5
        <4>4. f[i - 1] = g[i - 1] BY <3>2, <4>3
        <4> QED BY <4>1, <4>2, <4>4, <1>1, <3>3
      <3> QED BY <3>4, <3>5
    <2>3. f[n] = g[n]
      <3>1. n \in 1 .. n BY <2>0
      <3> QED BY <3>1, <2>2
    <2>4. g[n + 1] = g[n] \o t[n + 1]
      <3>1. n + 1 \in 1 .. n + 1 /\ n + 1 # 1 /\ (n + 1) - 1 = n BY <2>0
      <3> QED BY <3>1, <1>2
    <2> QED BY <1>1, <1>2, <2>1, <2>3, <2>4 DEF t
  <1> QED BY <1>3, <1>4

(* One more element of a sequence.                                         *)
LEMMA SubSeqStep ==
  ASSUME NEW S, NEW s \in Seq(S), NEW k \in 1 .. Len(s)
  PROVE  /\ SubSeq(s, 1, k) = Append(SubSeq(s, 1, k - 1), s[k])
         /\ SubSeq(s, 1, k - 1) \in Seq(S) /\ s[k] \in S
  <1>1. Len(s) \in Nat /\ s[k] \in S BY LenProperties, ElementOfSeq
  <1>2. SubSeq(s, 1, k - 1) \in Seq(S)
    <2>1. \A i \in 1 .. k - 1 : s[i] \in S BY ElementOfSeq, <1>1
    <2> QED BY <2>1, <1>1, SubSeqProperties
  <1>3. SubSeq(s, 1, k) = SubSeq(s, 1, k - 1) \o <<s[k]>>
    <2>1. 1 \in 1 .. Len(s) /\ k \in 1 .. Len(s) BY <1>1
    <2> QED BY <2>1, SubSeqRecursiveSecond
  <1>4. Append(SubSeq(s, 1, k - 1), s[k]) = SubSeq(s, 1, k - 1) \o <<s[k]>> BY <1>1, <1>2, AppendIsConcat
  <1> QED BY <1>1, <1>2, <1>3, <1>4

(* Appending to the second of two sequences is appending to both.          *)
LEMMA ConcatAppend ==
  ASSUME NEW S, NEW a \in Seq(S), NEW b \in Seq(S), NEW x \in S
  PROVE  a \o Append(b, x) = Append(a \o b, x)
  <1>1. Append(b, x) = b \o <<x>> /\ <<x>> \in Seq(S) BY AppendIsConcat
  <1>2. a \o b \in Seq(S) BY ConcatProperties
  <1>3. Append(a \o b, x) = (a \o b) \o <<x>> BY <1>2, AppendIsConcat
  <1> QED BY <1>1, <1>3, ConcatAssociative

(* To join two sequences of sequences is to join each, and join that.      *)
LEMMA FlattenConcat ==
  ASSUME NEW S, NEW a \in Seq(Seq(S)), NEW b \in Seq(Seq(S))
  PROVE  FlattenSeq(a \o b) = FlattenSeq(a) \o FlattenSeq(b)
  <1> DEFINE pre(k) == SubSeq(b, 1, k)
             Eq(k) == FlattenSeq(a \o pre(k)) = FlattenSeq(a) \o FlattenSeq(pre(k))
             T == {k \in 0 .. Len(b) : ~ Eq(k)}
  <1>1. Len(b) \in Nat BY LenProperties
  <1>2. Eq(0)
    <2>1. pre(0) = <<>> BY SubSeqEmpty
    <2>2. a \o <<>> = a BY ConcatEmptySeq
    <2>3. FlattenSeq(a) \o <<>> = FlattenSeq(a) BY FlattenType, ConcatEmptySeq
    <2> QED BY <2>1, <2>2, <2>3, FlattenEmpty
  <1>3. ASSUME T # {} PROVE FALSE
    <2>1. T \subseteq Nat BY <1>1, SMT
    <2>2. PICK k \in T : \A j \in T : k <= j BY <2>1, <1>3, Least
    <2>3. k # 0 BY <1>2
    <2>4. k \in 1 .. Len(b) /\ k - 1 \in 0 .. Len(b) /\ ~ (k <= k - 1) BY <1>1, <2>3
    <2>5. Eq(k - 1) BY <2>2, <2>4
    <2> DEFINE p == pre(k - 1)
               x == b[k]
    <2>6. pre(k) = Append(p, x) /\ p \in Seq(Seq(S)) /\ x \in Seq(S) BY <2>4, SubSeqStep
    <2>7. FlattenSeq(a \o p) = FlattenSeq(a) \o FlattenSeq(p) BY <2>5
    <2>8. ~ (FlattenSeq(a \o Append(p, x)) = FlattenSeq(a) \o FlattenSeq(Append(p, x))) BY <2>2, <2>6
    <2> HIDE DEF p, x, T
    <2>9. a \o Append(p, x) = Append(a \o p, x) BY <2>6, ConcatAppend
    <2>10. a \o p \in Seq(Seq(S)) BY <2>6, ConcatProperties
    <2>11. FlattenSeq(Append(a \o p, x)) = FlattenSeq(a \o p) \o x BY <2>6, <2>10, FlattenAppend
    <2>12. FlattenSeq(Append(p, x)) = FlattenSeq(p) \o x BY <2>6, FlattenAppend
    <2>13. FlattenSeq(a) \in Seq(S) /\ FlattenSeq(p) \in Seq(S)
      <3>1. p \in Seq(Seq(S)) BY <2>6
      <3>2. FlattenSeq(p) \in Seq(S) BY <3>1, FlattenType
      <3>3. FlattenSeq(a) \in Seq(S) BY FlattenType
      <3> QED BY <3>2, <3>3
    <2>14. (FlattenSeq(a) \o FlattenSeq(p)) \o x = FlattenSeq(a) \o (FlattenSeq(p) \o x) 
      <3>1. x \in Seq(S) BY <2>6
      <3> QED BY <2>13, <3>1, ConcatAssociative
    <2> QED BY <2>7, <2>8, <2>9, <2>11, <2>12, <2>14
  <1>4. Eq(Len(b)) BY <1>1, <1>3
  <1>5. pre(Len(b)) = b BY SubSeqFull
  <1> QED BY <1>4, <1>5

(* What f makes of the elements of s, one after the other.                 *)
Map(f, s) == [i \in DOMAIN s |-> f[s[i]]]
Join(f, s) == FlattenSeq(Map(f, s))

(* What mapping a sequence yields, element by element.                     *)
LEMMA MapIs ==
  ASSUME NEW N, NEW f, NEW s \in Seq(N)
  PROVE  Len(Map(f, s)) = Len(s) /\ DOMAIN Map(f, s) = 1 .. Len(s) /\ \A i \in 1 .. Len(s) : Map(f, s)[i] = f[s[i]]
  <1>1. Len(s) \in Nat /\ DOMAIN s = 1 .. Len(s) BY LenProperties
  <1>2. Map(f, s) = [i \in 1 .. Len(s) |-> f[s[i]]] BY <1>1 DEF Map
  <1> QED BY <1>1, <1>2

(* A sequence mapped is a sequence.                                        *)
LEMMA MapType ==
  ASSUME NEW N, NEW V, NEW f, NEW s \in Seq(N), \A n \in N : f[n] \in V
  PROVE  Map(f, s) \in Seq(V)
  <1>1. Len(s) \in Nat /\ DOMAIN s = 1 .. Len(s) /\ \A i \in 1 .. Len(s) : s[i] \in N BY LenProperties, ElementOfSeq
  <1>2. Map(f, s) = [i \in 1 .. Len(s) |-> f[s[i]]] BY <1>1 DEF Map
  <1>3. \A i \in 1 .. Len(s) : f[s[i]] \in V BY <1>1
  <1> QED BY <1>1, <1>2, <1>3

(* Two sequences are mapped one after the other.                           *)
LEMMA MapConcat ==
  ASSUME NEW N, NEW f, NEW a \in Seq(N), NEW b \in Seq(N)
  PROVE  Map(f, a \o b) = Map(f, a) \o Map(f, b)
  <1> DEFINE V == {f[n] : n \in N}
             c == a \o b
             l == Map(f, c)
             r == Map(f, a) \o Map(f, b)
  <1>1. c \in Seq(N) /\ Len(c) = Len(a) + Len(b) /\ Len(a) \in Nat /\ Len(b) \in Nat
        /\ \A i \in 1 .. Len(a) + Len(b) : c[i] = IF i <= Len(a) THEN a[i] ELSE b[i - Len(a)]
    BY ConcatProperties, LenProperties
  <1> HIDE DEF c
  <1>2. l \in Seq(V) /\ Len(l) = Len(a) + Len(b) /\ \A i \in 1 .. Len(a) + Len(b) : l[i] = f[c[i]]
    <2>1. l \in Seq(V) BY <1>1, MapType
    <2>2. Len(l) = Len(c) /\ \A i \in 1 .. Len(c) : l[i] = f[c[i]] BY <1>1, MapIs
    <2> QED BY <1>1, <2>1, <2>2
  <1>3. Map(f, a) \in Seq(V) /\ Len(Map(f, a)) = Len(a) /\ \A i \in 1 .. Len(a) : Map(f, a)[i] = f[a[i]]
    <2>1. Map(f, a) \in Seq(V) BY MapType
    <2> QED BY <2>1, MapIs
  <1>4. Map(f, b) \in Seq(V) /\ Len(Map(f, b)) = Len(b) /\ \A i \in 1 .. Len(b) : Map(f, b)[i] = f[b[i]]
    <2>1. Map(f, b) \in Seq(V) BY MapType
    <2> QED BY <2>1, MapIs
  <1> DEFINE x == Map(f, a)
             y == Map(f, b)
  <1>5. r \in Seq(V) /\ Len(r) = Len(a) + Len(b)
        /\ \A i \in 1 .. Len(a) + Len(b) : r[i] = IF i <= Len(a) THEN x[i] ELSE y[i - Len(a)]
    <2> HIDE DEF x, y
    <2>1. x \in Seq(V) /\ y \in Seq(V) /\ Len(x) = Len(a) /\ Len(y) = Len(b) BY <1>3, <1>4 DEF x, y
    <2>2. x \o y \in Seq(V) /\ Len(x \o y) = Len(x) + Len(y)
          /\ \A i \in 1 .. Len(x) + Len(y) : (x \o y)[i] = IF i <= Len(x) THEN x[i] ELSE y[i - Len(x)]
      BY <2>1, ConcatProperties
    <2> QED BY <2>1, <2>2 DEF x, y
  <1> HIDE DEF l, r, x, y
  <1>6. ASSUME NEW i \in 1 .. Len(a) + Len(b) PROVE l[i] = r[i]
    <2>1. CASE i <= Len(a)
      <3>1. i \in 1 .. Len(a) BY <1>1, <2>1
      <3>2. x[i] = f[a[i]] BY <3>1, <1>3 DEF x
      <3> QED BY <3>2, <2>1, <1>1, <1>2, <1>5
    <2>2. CASE ~ (i <= Len(a))
      <3>1. i - Len(a) \in 1 .. Len(b) BY <1>1, <2>2
      <3>2. y[i - Len(a)] = f[b[i - Len(a)]] BY <3>1, <1>4 DEF y
      <3> QED BY <3>2, <2>2, <1>1, <1>2, <1>5
    <2> QED BY <2>1, <2>2
  <1>7. l = r BY <1>2, <1>5, <1>6, SeqEqual
  <1> QED BY <1>7 DEF l, r, c

(* f has a sequence for each of N.                                         *)
Yields(f, N, S) == \A n \in N : f[n] \in Seq(S)

(* What is joined of a sequence made of parts is joined of the parts.      *)
LEMMA JoinConcat ==
  ASSUME NEW N, NEW S, NEW f, Yields(f, N, S), NEW a \in Seq(N), NEW b \in Seq(N)
  PROVE  Same(Join(f, a \o b), Join(f, a) \o Join(f, b))
  <1> DEFINE V == Seq(S)
  <1>1. \A n \in N : f[n] \in V BY DEF Yields
  <1> HIDE DEF V
  <1>2. Map(f, a) \in Seq(V) BY <1>1, MapType
  <1>3. Map(f, b) \in Seq(V) BY <1>1, MapType
  <1>4. Map(f, a \o b) = Map(f, a) \o Map(f, b) BY MapConcat
  <1> QED BY <1>2, <1>3, <1>4, FlattenConcat DEF Join, V, Same

(* What is joined is a sequence; of nothing,                               *)
LEMMA JoinType ==
  ASSUME NEW N, NEW S, NEW f, Yields(f, N, S), NEW s \in Seq(N)
  PROVE  Join(f, s) \in Seq(S)
  <1> DEFINE V == Seq(S)
  <1>1. \A n \in N : f[n] \in V BY DEF Yields
  <1> HIDE DEF V
  <1>2. Map(f, s) \in Seq(V) BY <1>1, MapType
  <1> QED BY <1>2, FlattenType DEF Join, V

(* it is empty,                                                            *)
LEMMA JoinEmpty ==
  ASSUME NEW f
  PROVE  Join(f, <<>>) = <<>>
  <1>1. Map(f, <<>>) = <<>> BY DEF Map
  <1> QED BY <1>1, FlattenEmpty DEF Join

(* of one element what that yields,                                        *)
LEMMA JoinOne ==
  ASSUME NEW S, NEW f, NEW x, f[x] \in Seq(S)
  PROVE  Same(Join(f, <<x>>), f[x])
  <1> DEFINE y == f[x]
  <1>1. y \in Seq(S) /\ Map(f, <<x>>) = <<y>> BY DEF Map
  <1> HIDE DEF y
  <1>2. <<y>> = Append(<<>>, y) /\ <<>> \in Seq(Seq(S)) OBVIOUS
  <1>3. FlattenSeq(Append(<<>>, y)) = FlattenSeq(<<>>) \o y BY <1>1, <1>2, FlattenAppend
  <1>4. <<>> \o y = y BY <1>1, ConcatEmptySeq
  <1> QED BY <1>1, <1>2, <1>3, <1>4, FlattenEmpty DEF Join, y, Same

(* and of three sequences their joins, one after the other.                *)
LEMMA JoinThree ==
  ASSUME NEW N, NEW S, NEW f, Yields(f, N, S), NEW a \in Seq(N), NEW b \in Seq(N), NEW c \in Seq(N)
  PROVE  Same(Join(f, (a \o b) \o c), (Join(f, a) \o Join(f, b)) \o Join(f, c))
  <1> DEFINE ab == a \o b
  <1>1. ab \in Seq(N) BY ConcatProperties
  <1>2. Same(Join(f, ab), Join(f, a) \o Join(f, b)) BY JoinConcat
  <1> HIDE DEF ab
  <1>3. Same(Join(f, ab \o c), Join(f, ab) \o Join(f, c)) BY <1>1, JoinConcat
  <1> QED BY <1>2, <1>3 DEF ab, Same

(* It depends on what the elements yield only.                             *)
LEMMA JoinSame ==
  ASSUME NEW f, NEW g, NEW s, \A i \in DOMAIN s : f[s[i]] = g[s[i]]
  PROVE  Join(f, s) = Join(g, s)
  <1>1. Map(f, s) = Map(g, s) BY DEF Map
  <1> QED BY <1>1 DEF Join

-----------------------------------------------------------------------------
(* Sequences in which no element stands twice.                             *)

(* No element stands twice in s.                                           *)
Distinct(s) == \A i, j \in DOMAIN s : s[i] = s[j] => i = j

(* The elements of a sequence.                                             *)
LEMMA ToSetIs ==
  ASSUME NEW N, NEW s \in Seq(N)
  PROVE  ToSet(s) \subseteq N /\ ToSet(s) = {s[i] : i \in 1 .. Len(s)}
  <1>1. DOMAIN s = 1 .. Len(s) /\ \A i \in 1 .. Len(s) : s[i] \in N BY LenProperties, ElementOfSeq
  <1> QED BY <1>1 DEF ToSet

(* The elements of sequences put together.                                 *)
LEMMA ToSetConcat ==
  ASSUME NEW N, NEW a \in Seq(N), NEW b \in Seq(N)
  PROVE  ToSet(a \o b) = ToSet(a) \cup ToSet(b)
  <1> DEFINE c == a \o b
  <1>1. /\ c \in Seq(N) /\ Len(c) = Len(a) + Len(b) /\ Len(a) \in Nat /\ Len(b) \in Nat
        /\ \A i \in 1 .. Len(a) + Len(b) : c[i] = IF i <= Len(a) THEN a[i] ELSE b[i - Len(a)]
    BY ConcatProperties, LenProperties
  <1> HIDE DEF c
  <1>2. ToSet(a) = {a[i] : i \in 1 .. Len(a)} BY ToSetIs
  <1>3. ToSet(b) = {b[i] : i \in 1 .. Len(b)} BY ToSetIs
  <1>4. ToSet(c) = {c[i] : i \in 1 .. Len(c)} BY <1>1, ToSetIs
  <1>5. ASSUME NEW x \in ToSet(c) PROVE x \in ToSet(a) \cup ToSet(b)
    <2>1. PICK i \in 1 .. Len(a) + Len(b) : x = c[i] BY <1>1, <1>4
    <2>2. CASE i <= Len(a)
      <3>1. i \in 1 .. Len(a) /\ x = a[i] BY <1>1, <2>1, <2>2
      <3> QED BY <3>1, <1>2
    <2>3. CASE ~ (i <= Len(a))
      <3>1. i - Len(a) \in 1 .. Len(b) /\ x = b[i - Len(a)] BY <1>1, <2>1, <2>3
      <3> QED BY <3>1, <1>3
    <2> QED BY <2>2, <2>3
  <1>6. ASSUME NEW x \in ToSet(a) PROVE x \in ToSet(c)
    <2>1. PICK i \in 1 .. Len(a) : x = a[i] BY <1>2
    <2>2. i \in 1 .. Len(c) /\ c[i] = a[i] BY <1>1
    <2> QED BY <1>4, <2>1, <2>2
  <1>7. ASSUME NEW x \in ToSet(b) PROVE x \in ToSet(c)
    <2>1. PICK i \in 1 .. Len(b) : x = b[i] BY <1>3
    <2>2. i + Len(a) \in 1 .. Len(c) /\ ~ (i + Len(a) <= Len(a)) /\ (i + Len(a)) - Len(a) = i BY <1>1
    <2>3. c[i + Len(a)] = b[i] BY <1>1, <2>2
    <2> QED BY <1>4, <2>1, <2>2, <2>3
  <1> QED BY <1>5, <1>6, <1>7 DEF c

(* No element stands twice in sequences put together if none stands twice  *)
(* in one or in both.                                                      *)
LEMMA DistinctConcat ==
  ASSUME NEW N, NEW a \in Seq(N), NEW b \in Seq(N)
  PROVE  Distinct(a \o b) <=> Distinct(a) /\ Distinct(b) /\ ToSet(a) \cap ToSet(b) = {}
  <1> DEFINE c == a \o b
  <1>1. /\ c \in Seq(N) /\ Len(c) = Len(a) + Len(b) /\ Len(a) \in Nat /\ Len(b) \in Nat
        /\ \A i \in 1 .. Len(a) + Len(b) : c[i] = IF i <= Len(a) THEN a[i] ELSE b[i - Len(a)]
    BY ConcatProperties, LenProperties
  <1> HIDE DEF c
  <1>2. ToSet(a) = {a[i] : i \in 1 .. Len(a)} /\ DOMAIN a = 1 .. Len(a) BY ToSetIs, LenProperties
  <1>3. ToSet(b) = {b[i] : i \in 1 .. Len(b)} /\ DOMAIN b = 1 .. Len(b) BY ToSetIs, LenProperties
  <1>4. DOMAIN c = 1 .. Len(a) + Len(b) BY <1>1, LenProperties
  <1>5. \A i \in 1 .. Len(a) : i \in DOMAIN c /\ c[i] = a[i] BY <1>1, <1>4
  <1>6. \A i \in 1 .. Len(b) : i + Len(a) \in DOMAIN c /\ c[i + Len(a)] = b[i]
    <2>1. ASSUME NEW i \in 1 .. Len(b) PROVE i + Len(a) \in DOMAIN c /\ c[i + Len(a)] = b[i]
      <3>1. i + Len(a) \in 1 .. Len(a) + Len(b) /\ ~ (i + Len(a) <= Len(a)) /\ (i + Len(a)) - Len(a) = i BY <1>1
      <3> QED BY <1>1, <1>4, <3>1
    <2> QED BY <2>1
  <1>7. \A i \in DOMAIN c : (i \in 1 .. Len(a)) \/ (\E j \in 1 .. Len(b) : i = j + Len(a))
    <2>1. ASSUME NEW i \in DOMAIN c, i \notin 1 .. Len(a) PROVE \E j \in 1 .. Len(b) : i = j + Len(a)
      <3>1. i - Len(a) \in 1 .. Len(b) /\ i = (i - Len(a)) + Len(a) BY <1>1, <1>4, <2>1
      <3> QED BY <3>1
    <2> QED BY <2>1
  <1>8. ASSUME Distinct(c) PROVE Distinct(a) /\ Distinct(b) /\ ToSet(a) \cap ToSet(b) = {}
    <2>1. Distinct(a) BY <1>2, <1>5, <1>8 DEF Distinct
    <2>2. ASSUME NEW i \in 1 .. Len(b), NEW j \in 1 .. Len(b), b[i] = b[j] PROVE i = j
      <3>1. i + Len(a) = j + Len(a) BY <1>6, <1>8, <2>2 DEF Distinct
      <3> QED BY <3>1, <1>1
    <2>3. ASSUME NEW i \in 1 .. Len(a), NEW j \in 1 .. Len(b), a[i] = b[j] PROVE FALSE
      <3>1. i = j + Len(a) BY <1>5, <1>6, <1>8, <2>3 DEF Distinct
      <3> QED BY <3>1, <1>1
    <2>4. Distinct(b) BY <1>3, <2>2 DEF Distinct
    <2>5. ToSet(a) \cap ToSet(b) = {} BY <1>2, <1>3, <2>3
    <2> QED BY <2>1, <2>4, <2>5
  <1>9. ASSUME Distinct(a), Distinct(b), ToSet(a) \cap ToSet(b) = {} PROVE Distinct(c)
    <2>1. ASSUME NEW i \in DOMAIN c, NEW j \in DOMAIN c, c[i] = c[j] PROVE i = j
      <3>1. CASE i \in 1 .. Len(a) /\ j \in 1 .. Len(a) BY <1>2, <1>5, <1>9, <2>1, <3>1 DEF Distinct
      <3>2. CASE i \in 1 .. Len(a) /\ j \notin 1 .. Len(a)
        <4>1. PICK k \in 1 .. Len(b) : j = k + Len(a) BY <1>7, <3>2
        <4>2. a[i] = b[k] BY <1>5, <1>6, <2>1, <3>2, <4>1
        <4> QED BY <4>2, <1>2, <1>3, <1>9, <3>2
      <3>3. CASE i \notin 1 .. Len(a) /\ j \in 1 .. Len(a)
        <4>1. PICK k \in 1 .. Len(b) : i = k + Len(a) BY <1>7, <3>3
        <4>2. a[j] = b[k] BY <1>5, <1>6, <2>1, <3>3, <4>1
        <4> QED BY <4>2, <1>2, <1>3, <1>9, <3>3
      <3>4. CASE i \notin 1 .. Len(a) /\ j \notin 1 .. Len(a)
        <4>1. PICK k \in 1 .. Len(b) : i = k + Len(a) BY <1>7, <3>4
        <4>2. PICK l \in 1 .. Len(b) : j = l + Len(a) BY <1>7, <3>4
        <4>3. b[k] = b[l] BY <1>6, <2>1, <4>1, <4>2
        <4>4. k = l BY <4>3, <1>3, <1>9 DEF Distinct
        <4> QED BY <4>1, <4>2, <4>4
      <3> QED BY <3>1, <3>2, <3>3, <3>4
    <2> QED BY <2>1 DEF Distinct
  <1> QED BY <1>8, <1>9 DEF c

(* Sequences of one and of two elements.                                   *)
LEMMA OnesAndTwos ==
  ASSUME NEW x, NEW y
  PROVE  /\ ToSet(<<x>>) = {x} /\ ToSet(<<x, y>>) = {x, y} /\ ToSet(<<>>) = {}
         /\ Distinct(<<x>>) /\ (x # y => Distinct(<<x, y>>))
  <1>1. DOMAIN <<x>> = {1} /\ DOMAIN <<x, y>> = {1, 2} /\ <<x>>[1] = x /\ <<x, y>>[1] = x /\ <<x, y>>[2] = y OBVIOUS
  <1>2. DOMAIN <<>> = {} OBVIOUS
  <1> QED BY <1>1, <1>2 DEF ToSet, Distinct

(* The same for three sequences.                                           *)
LEMMA ThreeParts ==
  ASSUME NEW N, NEW a \in Seq(N), NEW b \in Seq(N), NEW c \in Seq(N)
  PROVE  /\ (a \o b) \o c \in Seq(N)
         /\ ToSet((a \o b) \o c) = (ToSet(a) \cup ToSet(b)) \cup ToSet(c)
         /\ Distinct((a \o b) \o c) <=>
              /\ Distinct(a) /\ Distinct(b) /\ Distinct(c)
              /\ ToSet(a) \cap ToSet(b) = {} /\ ToSet(a) \cap ToSet(c) = {} /\ ToSet(b) \cap ToSet(c) = {}
  <1> DEFINE ab == a \o b
  <1>1. ab \in Seq(N) BY ConcatProperties
  <1>2. ToSet(ab) = ToSet(a) \cup ToSet(b) BY ToSetConcat
  <1>3. Distinct(ab) <=> Distinct(a) /\ Distinct(b) /\ ToSet(a) \cap ToSet(b) = {} BY DistinctConcat
  <1> HIDE DEF ab
  <1>4. ab \o c \in Seq(N) BY <1>1, ConcatProperties
  <1>5. ToSet(ab \o c) = ToSet(ab) \cup ToSet(c) BY <1>1, ToSetConcat
  <1>6. Distinct(ab \o c) <=> Distinct(ab) /\ Distinct(c) /\ ToSet(ab) \cap ToSet(c) = {} BY <1>1, DistinctConcat
  <1>7. Distinct(ab \o c) <=>
          /\ Distinct(a) /\ Distinct(b) /\ Distinct(c)
          /\ ToSet(a) \cap ToSet(b) = {} /\ ToSet(a) \cap ToSet(c) = {} /\ ToSet(b) \cap ToSet(c) = {}
    BY <1>2, <1>3, <1>6
  <1> QED BY <1>2, <1>4, <1>5, <1>7 DEF ab

(* Where x stands in s.                                                    *)
Stands(s, x, pre, suf) ==
  /\ s = (pre \o <<x>>) \o suf
  /\ \A t : Replace(s, x, t) = (pre \o t) \o suf
  /\ pre = SubSeq(s, 1, Position(s, x) - 1)

(* An element of a sequence has something before it and something behind   *)
(* it.                                                                     *)
LEMMA Around ==
  ASSUME NEW N, NEW s \in Seq(N), Distinct(s), NEW x \in ToSet(s)
  PROVE  \E pre, suf \in Seq(N) : Stands(s, x, pre, suf)
  <1> DEFINE p == Position(s, x)
             pre == SubSeq(s, 1, p - 1)
             suf == SubSeq(s, p + 1, Len(s))
  <1>1. Len(s) \in Nat /\ DOMAIN s = 1 .. Len(s) /\ \A i \in 1 .. Len(s) : s[i] \in N BY LenProperties, ElementOfSeq
  <1>2. p \in 1 .. Len(s) /\ s[p] = x
    <2>1. \E i \in DOMAIN s : s[i] = x BY DEF ToSet
    <2> QED BY <1>1, <2>1 DEF Position
  <1> HIDE DEF p
  <1>3. pre \in Seq(N)
    <2>1. \A i \in 1 .. p - 1 : s[i] \in N BY <1>1, <1>2
    <2> QED BY <1>2, <2>1, SubSeqProperties
  <1>4. suf \in Seq(N)
    <2>1. \A i \in p + 1 .. Len(s) : s[i] \in N BY <1>1, <1>2
    <2> QED BY <1>1, <1>2, <2>1, SubSeqProperties
  <1>5. s = (pre \o <<x>>) \o suf
    <2>1. SubSeq(s, 1, p) = pre \o <<x>>
      <3>1. 1 \in 1 .. Len(s) /\ p \in 1 .. Len(s) BY <1>2
      <3> QED BY <3>1, <1>2, SubSeqRecursiveSecond
    <2>2. SubSeq(s, 1, p) \o SubSeq(s, p + 1, Len(s)) = SubSeq(s, 1, Len(s))
      <3>1. 1 \in 1 .. Len(s) + 1 /\ p \in 1 - 1 .. Len(s) /\ Len(s) \in p .. Len(s) BY <1>1, <1>2
      <3> QED BY <3>1, ConcatAdjacentSubSeq
    <2>3. SubSeq(s, 1, Len(s)) = s BY SubSeqFull
    <2> QED BY <2>1, <2>2, <2>3
  <1>6. ASSUME NEW t PROVE Replace(s, x, t) = (pre \o t) \o suf
    <2>1. Len(<<x>>) = 1 OBVIOUS
    <2> QED BY <2>1 DEF Replace, ReplaceSubSeqAt, p
  <1>7. pre = SubSeq(s, 1, Position(s, x) - 1) BY DEF p
  <1> QED BY <1>3, <1>4, <1>5, <1>6, <1>7 DEF Stands

(* The elements of a sequence in which t stands in the place of x.         *)
LEMMA Replaced ==
  ASSUME NEW N, NEW s \in Seq(N), Distinct(s), NEW x \in ToSet(s),
         NEW t \in Seq(N), Distinct(t), ToSet(t) \cap (ToSet(s) \ {x}) = {}
  PROVE  /\ Replace(s, x, t) \in Seq(N)
         /\ Distinct(Replace(s, x, t))
         /\ ToSet(Replace(s, x, t)) = (ToSet(s) \ {x}) \cup ToSet(t)
  <1>1. PICK pre, suf \in Seq(N) : Stands(s, x, pre, suf) BY Around
  <1>2. s = (pre \o <<x>>) \o suf /\ Replace(s, x, t) = (pre \o t) \o suf BY <1>1 DEF Stands
  <1> DEFINE one == <<x>>
  <1>3. one \in Seq(N) /\ ToSet(one) = {x}
    <2>1. x \in N BY ToSetIs
    <2>2. one \in Seq(N) BY <2>1
    <2> QED BY <2>2, OnesAndTwos
  <1> HIDE DEF one
  <1>4. /\ ToSet(s) = (ToSet(pre) \cup {x}) \cup ToSet(suf)
        /\ Distinct(pre) /\ Distinct(suf) /\ x \notin ToSet(pre) /\ x \notin ToSet(suf) /\ ToSet(pre) \cap ToSet(suf) = {}
    <2>1. s = (pre \o one) \o suf /\ Distinct((pre \o one) \o suf) BY <1>2 DEF one
    <2>2. ToSet((pre \o one) \o suf) = (ToSet(pre) \cup ToSet(one)) \cup ToSet(suf) BY <1>3, ThreeParts
    <2>3. /\ Distinct(pre) /\ Distinct(one) /\ Distinct(suf)
          /\ ToSet(pre) \cap ToSet(one) = {} /\ ToSet(pre) \cap ToSet(suf) = {} /\ ToSet(one) \cap ToSet(suf) = {}
      BY <1>3, <2>1, ThreeParts
    <2> QED BY <1>3, <2>1, <2>2, <2>3
  <1>5. ToSet(t) \cap ToSet(pre) = {} /\ ToSet(t) \cap ToSet(suf) = {} BY <1>4
  <1>6. (pre \o t) \o suf \in Seq(N) BY ThreeParts
  <1>7. ToSet((pre \o t) \o suf) = (ToSet(pre) \cup ToSet(t)) \cup ToSet(suf) BY ThreeParts
  <1>8. Distinct((pre \o t) \o suf) BY <1>4, <1>5, ThreeParts
  <1>9. ToSet((pre \o t) \o suf) = (ToSet(s) \ {x}) \cup ToSet(t) BY <1>4, <1>7
  <1> QED BY <1>2, <1>6, <1>8, <1>9

(* What stands in the place of x reads the same as x did.                  *)
LEMMA ReplacedReads ==
  ASSUME NEW N, NEW S, NEW s \in Seq(N), Distinct(s), NEW x \in ToSet(s), NEW t \in Seq(N),
         NEW f, NEW g, Yields(f, N, S), Yields(g, N, S),
         \A y \in ToSet(s) \ {x} : Same(g[y], f[y]), Same(Join(g, t), f[x])
  PROVE  Same(Join(g, Replace(s, x, t)), Join(f, s))
  <1>1. PICK pre, suf \in Seq(N) : Stands(s, x, pre, suf) BY Around
  <1>2. s = (pre \o <<x>>) \o suf /\ Replace(s, x, t) = (pre \o t) \o suf BY <1>1 DEF Stands
  <1> DEFINE one == <<x>>
  <1>3. one \in Seq(N) /\ ToSet(one) = {x} /\ Join(f, one) = f[x]
    <2>1. x \in N BY ToSetIs
    <2>2. f[x] \in Seq(S) BY <2>1 DEF Yields
    <2>3. Same(Join(f, one), f[x]) BY <2>2, JoinOne
    <2>4. one \in Seq(N) BY <2>1
    <2>5. ToSet(one) = {x} BY OnesAndTwos
    <2> QED BY <2>3, <2>4, <2>5 DEF Same
  <1> HIDE DEF one
  <1>4. /\ ToSet(s) = (ToSet(pre) \cup {x}) \cup ToSet(suf)
        /\ x \notin ToSet(pre) /\ x \notin ToSet(suf)
    <2>1. s = (pre \o one) \o suf /\ Distinct((pre \o one) \o suf) BY <1>2 DEF one
    <2>2. ToSet((pre \o one) \o suf) = (ToSet(pre) \cup ToSet(one)) \cup ToSet(suf) BY <1>3, ThreeParts
    <2>3. ToSet(pre) \cap ToSet(one) = {} /\ ToSet(one) \cap ToSet(suf) = {} BY <1>3, <2>1, ThreeParts
    <2> QED BY <1>3, <2>1, <2>2, <2>3
  <1>5. Join(g, pre) = Join(f, pre)
    <2>1. ASSUME NEW i \in DOMAIN pre PROVE g[pre[i]] = f[pre[i]]
      <3>1. pre[i] \in ToSet(pre) BY DEF ToSet
      <3> QED BY <3>1, <1>4 DEF Same
    <2> QED BY <2>1, JoinSame
  <1>6. Join(g, suf) = Join(f, suf)
    <2>1. ASSUME NEW i \in DOMAIN suf PROVE g[suf[i]] = f[suf[i]]
      <3>1. suf[i] \in ToSet(suf) BY DEF ToSet
      <3> QED BY <3>1, <1>4 DEF Same
    <2> QED BY <2>1, JoinSame
  <1>7. Same(Join(f, (pre \o one) \o suf), (Join(f, pre) \o Join(f, one)) \o Join(f, suf)) BY <1>3, JoinThree
  <1>8. Same(Join(g, (pre \o t) \o suf), (Join(g, pre) \o Join(g, t)) \o Join(g, suf)) BY JoinThree
  <1>9. Join(g, (pre \o t) \o suf) = Join(f, (pre \o one) \o suf) BY <1>3, <1>5, <1>6, <1>7, <1>8 DEF Same
  <1> QED BY <1>2, <1>9 DEF one, Same

-----------------------------------------------------------------------------
(* Pages, downwards: the texts of a node, and what it reads.               *)

(* What is below each node: its children, its texts, what it reads.        *)
Kids(d) == [n \in Nodes |-> ToSet(d.kids[n])]
Below(d) == [n \in Nodes |-> TextNodes(d, n)]
Says(d) == [n \in Nodes |-> Reads(d, n)]

(* The fields of a document.                                               *)
LEMMA Typed ==
  ASSUME NEW d, d \in Document
  PROVE  /\ d = [kind |-> d.kind, tag |-> d.tag, up |-> d.up, kids |-> d.kids, chars |-> d.chars]
         /\ d.kind \in [Nodes -> {"element", "highlight", "text", "free"}]
         /\ d.tag \in [Nodes -> {"div", "p", "span"}]
         /\ d.up \in [Nodes -> Nodes \cup {None}]
         /\ d.kids \in [Nodes -> Seq(Nodes)]
         /\ d.chars \in [Nodes -> Seq(Nat)]
         /\ Kids(d) \in [Nodes -> SUBSET Nodes]
  <1>1. /\ d = [kind |-> d.kind, tag |-> d.tag, up |-> d.up, kids |-> d.kids, chars |-> d.chars]
        /\ d.kind \in [Nodes -> {"element", "highlight", "text", "free"}]
        /\ d.tag \in [Nodes -> {"div", "p", "span"}]
        /\ d.up \in [Nodes -> Nodes \cup {None}]
        /\ d.kids \in [Nodes -> Seq(Nodes)]
        /\ d.chars \in [Nodes -> Seq(Nat)]
    BY DEF Document
  <1>2. \A n \in Nodes : ToSet(d.kids[n]) \subseteq Nodes
    <2>1. \A n \in Nodes : d.kids[n] \in Seq(Nodes) BY <1>1
    <2> QED BY <2>1, ToSetIs
  <1> QED BY <1>1, <1>2 DEF Kids

(* Down a page there is no way round.                                      *)
LEMMA TreeIsGrounded ==
  ASSUME NEW d, WellFormed(d)
  PROVE  Grounded(Nodes, Kids(d))
  <1>1. ASSUME NEW S \in (SUBSET Nodes) \ {{}} PROVE \E n \in S : Kids(d)[n] \cap S = {}
    <2>1. PICK n \in S : ToSet(d.kids[n]) \cap S = {} BY DEF WellFormed
    <2>2. Kids(d)[n] = ToSet(d.kids[n]) BY DEF Kids
    <2> QED BY <2>1, <2>2
  <1> QED BY <1>1 DEF Grounded

(* The text nodes of an element are those of its children in turn.         *)
LEMMA TextNodesAre ==
  ASSUME NEW d, WellFormed(d)
  PROVE  /\ Yields(Below(d), Nodes, Nodes)
         /\ \A n \in Nodes : Below(d)[n] = TextNodes(d, n)
         /\ \A n \in Nodes : TextNodes(d, n) = IF d.kind[n] = "text" THEN <<n>> ELSE Join(Below(d), d.kids[n])
  <1> DEFINE V == Seq(Nodes)
             K == Kids(d)
             part(f, n) == IF d.kind[n] = "text" THEN <<n>> ELSE Join(f, d.kids[n])
             G == [n \in Nodes |-> [f \in [Nodes -> V] |-> part(f, n)]]
             Is(h) == h = [m \in Nodes |-> IF d.kind[m] = "text" THEN <<m>>
                                           ELSE FlattenSeq([i \in DOMAIN d.kids[m] |-> h[d.kids[m][i]]])]
  <1>1. d \in Document /\ K \in [Nodes -> SUBSET Nodes] /\ d.kids \in [Nodes -> Seq(Nodes)] BY Typed DEF WellFormed
  <1>2. Grounded(Nodes, K) BY TreeIsGrounded
  <1>3. G \in [Nodes -> [[Nodes -> V] -> V]]
    <2>1. ASSUME NEW n \in Nodes, NEW f \in [Nodes -> V] PROVE part(f, n) \in V
      <3>1. Yields(f, Nodes, Nodes) /\ d.kids[n] \in Seq(Nodes) BY <1>1 DEF Yields
      <3>2. Join(f, d.kids[n]) \in Seq(Nodes) BY <3>1, JoinType
      <3>3. <<n>> \in Seq(Nodes) OBVIOUS
      <3> QED BY <3>2, <3>3
    <2> HIDE DEF part, V
    <2> QED BY <2>1
  <1>4. Local(G, K, Nodes, V)
    <2>1. ASSUME NEW n \in Nodes, NEW f \in [Nodes -> V], NEW g \in [Nodes -> V], Agree(f, g, K[n])
          PROVE  part(f, n) = part(g, n)
      <3>1. \A i \in DOMAIN d.kids[n] : d.kids[n][i] \in K[n] BY DEF Kids, ToSet
      <3>2. \A i \in DOMAIN d.kids[n] : f[d.kids[n][i]] = g[d.kids[n][i]] BY <2>1, <3>1 DEF Agree
      <3> DEFINE s == d.kids[n]
      <3>3. \A i \in DOMAIN s : f[s[i]] = g[s[i]] BY <3>2
      <3> HIDE DEF s
      <3>4. Join(f, s) = Join(g, s) BY <3>3, JoinSame
      <3> QED BY <3>4 DEF s
    <2> HIDE DEF part, V, K
    <2> QED BY <2>1 DEF Local, Same
  <1>5. <<>> \in V OBVIOUS
  <1>6. PICK F \in [Nodes -> V] : Solution(G, Nodes, F)
    <2> HIDE DEF V, K, G
    <2> QED BY <1>1, <1>2, <1>3, <1>4, <1>5, Recursion
  <1>7. \A n \in Nodes : F[n] = part(F, n)
    <2> HIDE DEF part, V
    <2> QED BY <1>6 DEF Solution
  <1>8. Is(F)
    <2>1. \A n \in Nodes : F[n] = IF d.kind[n] = "text" THEN <<n>>
                                  ELSE FlattenSeq([i \in DOMAIN d.kids[n] |-> F[d.kids[n][i]]])
      BY <1>7 DEF Join, Map
    <2>2. F = [n \in Nodes |-> F[n]] OBVIOUS
    <2> QED BY <2>1, <2>2
  <1>9. ASSUME NEW h, Is(h) PROVE h = F
    <2>1. h = [n \in Nodes |-> h[n]] BY <1>9
    <2>2. \A n \in Nodes : h[n] = part(h, n) BY <1>9 DEF Join, Map
    <2> HIDE DEF Is
    <2> DEFINE S == {n \in Nodes : h[n] # F[n]}
    <2>3. CASE S = {}
      <3>1. \A n \in Nodes : h[n] = F[n] BY <2>3
      <3> QED BY <3>1, <2>1
    <2>4. CASE S # {}
      <3>1. PICK n \in S : K[n] \cap S = {} BY <1>2, <2>4 DEF Grounded
      <3>2. \A i \in DOMAIN d.kids[n] : d.kids[n][i] \in K[n] BY DEF Kids, ToSet
      <3>3. K[n] \subseteq Nodes BY <1>1
      <3>4. \A i \in DOMAIN d.kids[n] : h[d.kids[n][i]] = F[d.kids[n][i]] BY <3>1, <3>2, <3>3
      <3>5. Join(h, d.kids[n]) = Join(F, d.kids[n]) BY <3>4, JoinSame
      <3>6. part(h, n) = part(F, n) BY <3>5
      <3>7. h[n] = part(h, n) /\ F[n] = part(F, n) BY <2>2, <1>7
      <3> QED BY <3>6, <3>7
    <2> QED BY <2>3, <2>4
  <1> DEFINE below == CHOOSE h : Is(h)
  <1>10. below = F
    <2> HIDE DEF Is
    <2>1. Is(below) BY <1>8
    <2> QED BY <2>1, <1>9
  <1>11. \A n \in Nodes : TextNodes(d, n) = below[n] BY DEF TextNodes
  <1> HIDE DEF below
  <1>12. \A n \in Nodes : TextNodes(d, n) = F[n] BY <1>10, <1>11
  <1>13. Below(d) = F
    <2>1. F = [n \in Nodes |-> F[n]] OBVIOUS
    <2>2. Below(d) = [n \in Nodes |-> F[n]] BY <1>12 DEF Below
    <2> QED BY <2>1, <2>2
  <1>14. Yields(Below(d), Nodes, Nodes) BY <1>13 DEF Yields
  <1>15. \A n \in Nodes : TextNodes(d, n) = part(Below(d), n)
    <2> HIDE DEF part
    <2> QED BY <1>7, <1>12, <1>13
  <1> QED BY <1>12, <1>13, <1>14, <1>15

(* f of what g joins, and the join of f of what g has.                     *)
Through(f, g, N) == [n \in N |-> Join(f, g[n])]

(* To join what g has and then what f makes of it, or at once.             *)
LEMMA JoinJoin ==
  ASSUME NEW N, NEW M, NEW S, NEW f, NEW g, Yields(f, M, S), Yields(g, N, M), NEW s \in Seq(N)
  PROVE  Same(Join(f, Join(g, s)), Join(Through(f, g, N), s))
  <1> DEFINE h == Through(f, g, N)
             pre(k) == SubSeq(s, 1, k)
             Eq(k) == Same(Join(f, Join(g, pre(k))), Join(h, pre(k)))
             T == {k \in 0 .. Len(s) : ~ Eq(k)}
  <1>1. Len(s) \in Nat BY LenProperties
  <1>2. Yields(h, N, S)
    <2>1. ASSUME NEW n \in N PROVE h[n] \in Seq(S)
      <3>1. g[n] \in Seq(M) BY DEF Yields
      <3>2. Join(f, g[n]) \in Seq(S) BY <3>1, JoinType
      <3> QED BY <3>2 DEF Through
    <2> QED BY <2>1 DEF Yields
  <1>3. Eq(0)
    <2>1. pre(0) = <<>> BY SubSeqEmpty
    <2> QED BY <2>1, JoinEmpty DEF Same
  <1>4. ASSUME T # {} PROVE FALSE
    <2>0. 0 .. Len(s) \subseteq Nat BY <1>1
    <2>1. T \subseteq Nat BY <2>0
    <2>2. PICK k \in T : \A j \in T : k <= j BY <2>1, <1>4, Least
    <2>3. k # 0 BY <1>3
    <2>4. k \in 1 .. Len(s) /\ k - 1 \in 0 .. Len(s) /\ ~ (k <= k - 1) BY <1>1, <2>3
    <2>5. Eq(k - 1) BY <2>2, <2>4
    <2> DEFINE p == pre(k - 1)
               x == s[k]
               one == <<x>>
    <2>6. pre(k) = Append(p, x) /\ p \in Seq(N) /\ x \in N BY <2>4, SubSeqStep
    <2>7. Same(Join(f, Join(g, p)), Join(h, p)) BY <2>5
    <2>8. ~ Same(Join(f, Join(g, pre(k))), Join(h, pre(k))) BY <2>2
    <2>9. pre(k) = p \o one /\ one \in Seq(N)
      <3> HIDE DEF p, x
      <3>1. Append(p, x) = p \o <<x>> BY <2>6, AppendIsConcat
      <3> QED BY <2>6, <3>1
    <2>10. Same(Join(g, one), g[x]) /\ Same(Join(h, one), Join(f, g[x])) /\ g[x] \in Seq(M)
      <3> HIDE DEF x, h
      <3>1. g[x] \in Seq(M) /\ h[x] \in Seq(S) BY <2>6, <1>2 DEF Yields
      <3>2. Same(Join(g, one), g[x]) BY <3>1, JoinOne
      <3>3. Same(Join(h, one), h[x]) BY <3>1, JoinOne
      <3>4. h[x] = Join(f, g[x]) BY <2>6 DEF h, Through
      <3> QED BY <3>1, <3>2, <3>3, <3>4
    <2>11. ~ Same(Join(f, Join(g, p \o one)), Join(h, p \o one)) BY <2>8, <2>9
    <2> HIDE DEF p, x, T, h, one, pre
    <2>12. Same(Join(g, p \o one), Join(g, p) \o Join(g, one)) BY <2>6, <2>9, JoinConcat
    <2>13. Same(Join(h, p \o one), Join(h, p) \o Join(h, one)) BY <1>2, <2>6, <2>9, JoinConcat
    <2> DEFINE a == Join(g, p)
               b == g[x]
    <2>14. a \in Seq(M) /\ b \in Seq(M) BY <2>6, <2>10, JoinType
    <2> HIDE DEF a, b
    <2>15. Same(Join(f, a \o b), Join(f, a) \o Join(f, b)) BY <2>14, JoinConcat
    <2> QED BY <2>7, <2>10, <2>11, <2>12, <2>13, <2>15 DEF Same, a, b
  <1>5. Eq(Len(s)) BY <1>1, <1>4
  <1>6. pre(Len(s)) = s BY SubSeqFull
  <1> QED BY <1>5, <1>6

(* An element reads as its children in turn.                               *)
LEMMA ReadsAre ==
  ASSUME NEW d, WellFormed(d)
  PROVE  /\ Yields(Says(d), Nodes, Nat)
         /\ \A n \in Nodes : Says(d)[n] = Reads(d, n)
         /\ \A n \in Nodes : Reads(d, n) = IF d.kind[n] = "text" THEN d.chars[n] ELSE Join(Says(d), d.kids[n])
  <1> DEFINE B == Below(d)
             C == d.chars
  <1>1. d \in Document /\ d.kids \in [Nodes -> Seq(Nodes)] /\ C \in [Nodes -> Seq(Nat)] BY Typed DEF WellFormed
  <1>2. Yields(C, Nodes, Nat) BY <1>1 DEF Yields
  <1>3. /\ Yields(B, Nodes, Nodes)
        /\ \A n \in Nodes : B[n] = TextNodes(d, n)
        /\ \A n \in Nodes : TextNodes(d, n) = IF d.kind[n] = "text" THEN <<n>> ELSE Join(B, d.kids[n])
    BY TextNodesAre
  <1> HIDE DEF B
  <1>4. \A n \in Nodes : Reads(d, n) = Join(C, B[n]) BY <1>3 DEF Reads, TextOf, Join, Map
  <1>5. Says(d) = Through(C, B, Nodes)
    <2> HIDE DEF C
    <2> QED BY <1>4 DEF Says, Through
  <1>6. \A n \in Nodes : Says(d)[n] = Reads(d, n) BY DEF Says
  <1>7. ASSUME NEW n \in Nodes PROVE Reads(d, n) \in Seq(Nat)
    <2>1. B[n] \in Seq(Nodes) BY <1>3 DEF Yields
    <2>2. Join(C, B[n]) \in Seq(Nat)
      <3> HIDE DEF C
      <3> QED BY <1>2, <2>1, JoinType
    <2> QED BY <1>4, <2>2
  <1>8. Yields(Says(d), Nodes, Nat) BY <1>6, <1>7 DEF Yields
  <1>9. ASSUME NEW n \in Nodes PROVE Reads(d, n) = IF d.kind[n] = "text" THEN C[n] ELSE Join(Says(d), d.kids[n])
    <2>1. CASE d.kind[n] = "text"
      <3>1. B[n] = <<n>> BY <1>3, <2>1
      <3>2. C[n] \in Seq(Nat) BY <1>1
      <3>3. Same(Join(C, <<n>>), C[n])
        <4> HIDE DEF C
        <4> QED BY <3>2, JoinOne
      <3> QED BY <1>4, <2>1, <3>1, <3>3 DEF Same
    <2>2. CASE d.kind[n] # "text"
      <3>1. B[n] = Join(B, d.kids[n]) BY <1>3, <2>2
      <3>2. d.kids[n] \in Seq(Nodes) BY <1>1
      <3>3. Same(Join(C, Join(B, d.kids[n])), Join(Through(C, B, Nodes), d.kids[n]))
        <4> HIDE DEF C
        <4> QED BY <1>2, <1>3, <3>2, JoinJoin
      <3> QED BY <1>4, <1>5, <2>2, <3>1, <3>3 DEF Same
    <2> QED BY <2>1, <2>2
  <1> QED BY <1>6, <1>8, <1>9

-----------------------------------------------------------------------------
(* What changes a page: splitText,                                         *)

(* The nodes that have children; the node that is taken when one is        *)
(* needed.                                                                 *)
Elements(d) == {n \in Nodes : d.kind[n] \in {"element", "highlight"}}
Fresh(d) == Min(Free(d))

(* If a node is free, a free one is taken.                                 *)
LEMMA FreshIsFree ==
  ASSUME NEW d, Free(d) # {}
  PROVE  Fresh(d) \in Free(d)
  <1>1. Free(d) \subseteq Nat BY NodesAssumption DEF Free, None
  <1>2. PICK k \in Free(d) : \A j \in Free(d) : k <= j BY <1>1, Least
  <1>3. \E x \in Free(d) : \A y \in Free(d) : x =< y BY <1>2
  <1> QED BY <1>3 DEF Fresh, Min

(* Where a node of a page is.                                              *)
LEMMA Parent ==
  ASSUME NEW d, WellFormed(d), NEW n \in Nodes, d.up[n] # None
  PROVE  /\ d.up[n] \in Elements(d) /\ d.up[n] # n
         /\ n \in ToSet(d.kids[d.up[n]]) /\ d.kids[d.up[n]] \in Seq(Nodes) /\ Distinct(d.kids[d.up[n]])
  <1>0. d \in Document BY DEF WellFormed
  <1>1. d.up[n] \in Nodes /\ d.kids[d.up[n]] \in Seq(Nodes) BY <1>0, Typed
  <1>2. n \in ToSet(d.kids[d.up[n]]) BY DEF WellFormed
  <1>3. Distinct(d.kids[d.up[n]]) BY <1>1 DEF WellFormed, Distinct
  <1>4. d.kids[d.up[n]] # <<>> BY <1>2 DEF ToSet
  <1>5. d.kind[d.up[n]] \notin {"text", "free"} BY <1>1, <1>4 DEF WellFormed
  <1>6. d.kind[d.up[n]] \in {"element", "highlight", "text", "free"} BY <1>0, <1>1, Typed
  <1>7. d.up[n] # n
    <2>1. {n} \in (SUBSET Nodes) \ {{}} OBVIOUS
    <2>2. \E x \in {n} : ToSet(d.kids[x]) \cap {n} = {} BY <2>1 DEF WellFormed
    <2> QED BY <2>2, <1>2
  <1> QED BY <1>1, <1>2, <1>3, <1>5, <1>6, <1>7 DEF Elements

(* A node is a child of its parent only.                                   *)
LEMMA OneParent ==
  ASSUME NEW d, WellFormed(d), NEW u \in Nodes, NEW n \in ToSet(d.kids[u])
  PROVE  n \in Nodes /\ d.up[n] = u /\ d.kind[n] # "free" /\ n # u
  <1>1. d.kids[u] \in Seq(Nodes)
    <2>1. d \in Document BY DEF WellFormed
    <2> QED BY <2>1, Typed
  <1>2. n \in Nodes BY <1>1, ToSetIs
  <1>3. d.up[n] = u /\ d.kind[n] # "free" BY DEF WellFormed
  <1>4. d.up[n] # None BY <1>3, NodesAssumption DEF None
  <1> QED BY <1>2, <1>3, <1>4, Parent

(* A free node is in no place.                                             *)
LEMMA FreeNode ==
  ASSUME NEW d, WellFormed(d), NEW m \in Free(d)
  PROVE  m \in Nodes /\ d.kind[m] = "free" /\ d.kids[m] = <<>> /\ d.up[m] = None /\ \A u \in Nodes : m \notin ToSet(d.kids[u])
  <1>1. m \in Nodes /\ d.kind[m] = "free" BY DEF Free
  <1> QED BY <1>1 DEF WellFormed

(* A text is in a place, and nothing is below it.                          *)
LEMMA TextNode ==
  ASSUME NEW d, WellFormed(d), NEW n \in Texts(d)
  PROVE  n \in Nodes /\ d.kind[n] = "text" /\ d.kids[n] = <<>> /\ d.up[n] # None /\ d.chars[n] \in Seq(Nat)
  <1>1. n \in Nodes /\ d.kind[n] = "text" BY DEF Texts
  <1>2. d.chars[n] \in Seq(Nat)
    <2>1. d \in Document BY DEF WellFormed
    <2> QED BY <1>1, <2>1, Typed
  <1> QED BY <1>1, <1>2 DEF WellFormed

(* What else reads as it did, if nothing below it has changed but there.   *)
Unchanged(d, e, X) == \A x \in X : e.kind[x] = d.kind[x] /\ Same(Reads(e, x), Reads(d, x))

(* What splitText changes of the nodes: e is d with n split at k.          *)
SplitInto(d, e, n, k) ==
  LET m == Fresh(d)
      u == d.up[n]
  IN /\ m \in Nodes \ {n, u} /\ d.kind[m] = "free"
     /\ \A x \in Nodes : /\ e.kind[x] = IF x = m THEN "text" ELSE d.kind[x]
                         /\ e.tag[x] = d.tag[x]
                         /\ e.up[x] = IF x = m THEN u ELSE d.up[x]
                         /\ e.kids[x] = IF x = u THEN Replace(d.kids[u], n, <<n, m>>) ELSE d.kids[x]
                         /\ e.chars[x] = IF x = n THEN SubSeq(d.chars[n], 1, k)
                                         ELSE IF x = m THEN SubSeq(d.chars[n], k + 1, Length(d, n)) ELSE d.chars[x]

(* splitText: the page stays a tree and every element reads as it did, in  *)
(* one node more.                                                          *)
LEMMA SplitKeeps ==
  ASSUME NEW d, WellFormed(d), NEW n \in Texts(d), NEW k \in 0 .. Length(d, n), Free(d) # {}
  PROVE  /\ WellFormed(Split(d, n, k))
         /\ Free(Split(d, n, k)) = Free(d) \ {Fresh(d)}
         /\ Unchanged(d, Split(d, n, k), Elements(d))
         /\ SplitInto(d, Split(d, n, k), n, k)
  <1> DEFINE m == Fresh(d)
             u == d.up[n]
             e == Split(d, n, k)
             new == Replace(d.kids[u], n, <<n, m>>)
             left == SubSeq(d.chars[n], 1, k)
             right == SubSeq(d.chars[n], k + 1, Length(d, n))
  <1>1. m \in Free(d) BY FreshIsFree
  <1>2. m \in Nodes /\ d.kind[m] = "free" /\ d.kids[m] = <<>> /\ d.up[m] = None /\ \A x \in Nodes : m \notin ToSet(d.kids[x])
    <2> HIDE DEF m
    <2> QED BY <1>1, FreeNode
  <1>3. n \in Nodes /\ d.kind[n] = "text" /\ d.kids[n] = <<>> /\ u # None /\ d.chars[n] \in Seq(Nat) BY TextNode
  <1>4. u \in Elements(d) /\ u # n /\ n \in ToSet(d.kids[u]) /\ d.kids[u] \in Seq(Nodes) /\ Distinct(d.kids[u]) BY <1>3, Parent
  <1>5. u \in Nodes /\ u # m /\ n # m /\ d.kind[u] \in {"element", "highlight"} BY <1>2, <1>3, <1>4 DEF Elements
  <1>6. left \in Seq(Nat) /\ right \in Seq(Nat) /\ left \o right = d.chars[n]
    <2> DEFINE s == d.chars[n]
    <2>1. s \in Seq(Nat) /\ Len(s) \in Nat /\ k \in 0 .. Len(s) /\ \A i \in 1 .. Len(s) : s[i] \in Nat
      BY <1>3, LenProperties, ElementOfSeq DEF Length
    <2> HIDE DEF s
    <2>2. SubSeq(s, 1, k) \in Seq(Nat)
      <3>1. \A i \in 1 .. k : s[i] \in Nat BY <2>1
      <3> QED BY <2>1, <3>1, SubSeqProperties
    <2>3. SubSeq(s, k + 1, Len(s)) \in Seq(Nat)
      <3>1. \A i \in k + 1 .. Len(s) : s[i] \in Nat BY <2>1
      <3> QED BY <2>1, <3>1, SubSeqProperties
    <2>4. SubSeq(s, 1, k) \o SubSeq(s, k + 1, Len(s)) = SubSeq(s, 1, Len(s))
      <3>1. 1 \in 1 .. Len(s) + 1 /\ k \in 1 - 1 .. Len(s) /\ Len(s) \in k .. Len(s) BY <2>1
      <3> QED BY <2>1, <3>1, ConcatAdjacentSubSeq
    <2>5. SubSeq(s, 1, Len(s)) = s BY <2>1, SubSeqFull
    <2> QED BY <2>2, <2>3, <2>4, <2>5 DEF s, Length
  <1>7. /\ e.kind = [d.kind EXCEPT ![m] = "text"]
        /\ e.tag = d.tag
        /\ e.up = [d.up EXCEPT ![m] = u]
        /\ e.kids = [d.kids EXCEPT ![u] = new]
        /\ e.chars = [d.chars EXCEPT ![m] = right, ![n] = left]
        /\ e = [kind |-> e.kind, tag |-> e.tag, up |-> e.up, kids |-> e.kids, chars |-> e.chars]
    <2>1. d = [kind |-> d.kind, tag |-> d.tag, up |-> d.up, kids |-> d.kids, chars |-> d.chars]
      <3>1. d \in Document BY DEF WellFormed
      <3> QED BY <3>1, Typed
    <2>2. e = [kind |-> [d.kind EXCEPT ![m] = "text"], tag |-> d.tag, up |-> [d.up EXCEPT ![m] = u],
               kids |-> [d.kids EXCEPT ![u] = new], chars |-> [d.chars EXCEPT ![m] = right, ![n] = left]]
      <3> HIDE DEF new, left, right, m, u
      <3>1. e = [d EXCEPT !.kind[m] = "text", !.up[m] = u, !.chars[m] = right, !.chars[n] = left, !.kids[u] = new]
        BY DEF Split, m, u, new, left, right, Fresh
      <3> QED BY <2>1, <3>1
    <2> HIDE DEF e, m, u, new, left, right
    <2> QED BY <2>2
  <1>8. new \in Seq(Nodes) /\ Distinct(new) /\ ToSet(new) = ToSet(d.kids[u]) \cup {m}
    <2> DEFINE s == d.kids[u]
               t == <<n, m>>
    <2>1. t \in Seq(Nodes) /\ ToSet(t) = {n, m} /\ Distinct(t)
      <3>1. t \in Seq(Nodes) BY <1>2, <1>3
      <3> QED BY <3>1, <1>5, OnesAndTwos
    <2>2. s \in Seq(Nodes) /\ Distinct(s) /\ n \in ToSet(s) /\ m \notin ToSet(s) BY <1>2, <1>4, <1>5
    <2> HIDE DEF s, t, m
    <2>3. ToSet(t) \cap (ToSet(s) \ {n}) = {} BY <2>1, <2>2
    <2>4. Replace(s, n, t) \in Seq(Nodes) /\ Distinct(Replace(s, n, t)) /\ ToSet(Replace(s, n, t)) = (ToSet(s) \ {n}) \cup ToSet(t)
      BY <2>1, <2>2, <2>3, Replaced
    <2> QED BY <2>1, <2>2, <2>4 DEF s, t, m
  <1>9. d \in Document /\ d.kind \in [Nodes -> {"element", "highlight", "text", "free"}] /\ d.tag \in [Nodes -> {"div", "p", "span"}]
        /\ d.up \in [Nodes -> Nodes \cup {None}] /\ d.kids \in [Nodes -> Seq(Nodes)] /\ d.chars \in [Nodes -> Seq(Nat)]
    <2>1. d \in Document BY DEF WellFormed
    <2> QED BY <2>1, Typed
  <1> HIDE DEF e, m, u, new, left, right
  <1>10. \A x \in Nodes : /\ e.kind[x] = IF x = m THEN "text" ELSE d.kind[x]
                          /\ e.up[x] = IF x = m THEN u ELSE d.up[x]
                          /\ e.kids[x] = IF x = u THEN new ELSE d.kids[x]
                          /\ e.chars[x] = IF x = n THEN left ELSE IF x = m THEN right ELSE d.chars[x]
    BY <1>2, <1>3, <1>5, <1>7, <1>9
  <1>11. e \in Document
    <2>1. e.kind \in [Nodes -> {"element", "highlight", "text", "free"}] BY <1>2, <1>7, <1>9
    <2>2. e.up \in [Nodes -> Nodes \cup {None}]
      <3> DEFINE V == Nodes \cup {None}
      <3>1. u \in V /\ d.up \in [Nodes -> V] BY <1>5, <1>9
      <3> HIDE DEF V
      <3>2. e.up \in [Nodes -> V] BY <3>1, <1>7
      <3> QED BY <3>2 DEF V
    <2>3. e.kids \in [Nodes -> Seq(Nodes)]
      <3> DEFINE V == Seq(Nodes)
      <3>1. new \in V /\ d.kids \in [Nodes -> V] BY <1>8, <1>9
      <3> HIDE DEF V
      <3>2. e.kids \in [Nodes -> V] BY <3>1, <1>7
      <3> QED BY <3>2 DEF V
    <2>4. e.chars \in [Nodes -> Seq(Nat)]
      <3> DEFINE V == Seq(Nat)
      <3>1. left \in V /\ right \in V /\ d.chars \in [Nodes -> V] BY <1>6, <1>9
      <3> HIDE DEF V
      <3>2. e.chars \in [Nodes -> V] BY <3>1, <1>7
      <3> QED BY <3>2 DEF V
    <2>5. e.tag \in [Nodes -> {"div", "p", "span"}] BY <1>7, <1>9
    <2> QED BY <1>7, <2>1, <2>2, <2>3, <2>4, <2>5 DEF Document
  <1>12. \A x \in Nodes : ToSet(e.kids[x]) = IF x = u THEN ToSet(d.kids[x]) \cup {m} ELSE ToSet(d.kids[x]) BY <1>8, <1>10
  <1>13. WellFormed(e)
    <2>1. e.kind[Body] = "element" /\ e.kind[Root] = "element" /\ e.up[Root] # None
      <3>1. d.kind[Body] = "element" /\ d.kind[Root] = "element" /\ d.up[Root] # None /\ Body \in Nodes /\ Root \in Nodes
        BY NodesAssumption DEF WellFormed
      <3> QED BY <3>1, <1>2, <1>10
    <2>2. ASSUME NEW x \in Nodes PROVE Distinct(e.kids[x])
      <3>1. Distinct(d.kids[x]) BY DEF WellFormed, Distinct
      <3> QED BY <3>1, <1>8, <1>10
    <2>3. ASSUME NEW x \in Nodes, NEW y \in ToSet(e.kids[x]) PROVE e.up[y] = x /\ e.kind[y] # "free"
      <3>1. CASE y = m BY <1>2, <1>10, <1>12, <2>3, <3>1
      <3>2. CASE y # m
        <4>1. y \in ToSet(d.kids[x]) BY <1>12, <2>3, <3>2
        <4>2. y \in Nodes /\ d.up[y] = x /\ d.kind[y] # "free" BY <4>1, OneParent
        <4> QED BY <4>2, <3>2, <1>10
      <3> QED BY <3>1, <3>2
    <2>4. ASSUME NEW x \in Nodes, e.up[x] # None PROVE x \in ToSet(e.kids[e.up[x]])
      <3>1. CASE x = m BY <1>5, <1>10, <1>12, <3>1
      <3>2. CASE x # m
        <4>1. e.up[x] = d.up[x] /\ d.up[x] # None BY <1>10, <2>4, <3>2
        <4>2. x \in ToSet(d.kids[d.up[x]]) /\ d.up[x] \in Nodes BY <4>1, Parent DEF Elements
        <4> QED BY <4>1, <4>2, <1>12
      <3> QED BY <3>1, <3>2
    <2>5. ASSUME NEW x \in Nodes PROVE e.up[x] = None <=> x = Body \/ e.kind[x] = "free"
      <3>1. d.up[x] = None <=> x = Body \/ d.kind[x] = "free" BY DEF WellFormed
      <3>2. m # Body BY <1>2 DEF WellFormed
      <3>3. u # None BY <1>3 DEF u
      <3> QED BY <3>1, <3>2, <3>3, <1>10
    <2>6. ASSUME NEW x \in Nodes PROVE e.kids[x] = <<>> <=> e.kind[x] \in {"text", "free"}
      <3>1. d.kids[x] = <<>> <=> d.kind[x] \in {"text", "free"} BY DEF WellFormed
      <3>2. new # <<>>
        <4>1. m \in ToSet(new) BY <1>8
        <4> QED BY <4>1 DEF ToSet
      <3>3. CASE x = u BY <3>2, <3>3, <1>5, <1>10
      <3>4. CASE x # u BY <3>1, <3>4, <1>2, <1>10
      <3> QED BY <3>3, <3>4
    <2>7. ASSUME NEW S \in (SUBSET Nodes) \ {{}} PROVE \E x \in S : ToSet(e.kids[x]) \cap S = {}
      <3>1. CASE m \in S
        <4>1. ToSet(d.kids[m]) = {} BY <1>2, OnesAndTwos
        <4>2. ToSet(e.kids[m]) = {} BY <1>2, <1>5, <1>12, <4>1
        <4> QED BY <3>1, <4>2
      <3>2. CASE m \notin S
        <4>1. PICK x \in S : ToSet(d.kids[x]) \cap S = {} BY DEF WellFormed
        <4>2. ToSet(e.kids[x]) \cap S = {} BY <4>1, <3>2, <1>12
        <4> QED BY <4>2
      <3> QED BY <3>1, <3>2
    <2> QED BY <1>11, <2>1, <2>2, <2>3, <2>4, <2>5, <2>6, <2>7 DEF WellFormed, Distinct
  <1>14. Free(e) = Free(d) \ {m}
    <2>1. \A x \in Nodes : e.kind[x] = "free" <=> d.kind[x] = "free" /\ x # m BY <1>10
    <2> QED BY <2>1 DEF Free
  <1>15. Unchanged(d, e, Elements(d))
    <2> DEFINE R == Says(d)
               Q == Says(e)
               S == {x \in Nodes \ {n, m} : ~ Same(Q[x], R[x])}
    <2>1. /\ Yields(R, Nodes, Nat) /\ \A x \in Nodes : R[x] = Reads(d, x)
          /\ \A x \in Nodes : R[x] = IF d.kind[x] = "text" THEN d.chars[x] ELSE Join(R, d.kids[x])
      BY ReadsAre
    <2>2. /\ Yields(Q, Nodes, Nat) /\ \A x \in Nodes : Q[x] = Reads(e, x)
          /\ \A x \in Nodes : Q[x] = IF e.kind[x] = "text" THEN e.chars[x] ELSE Join(Q, e.kids[x])
      BY <1>13, ReadsAre
    <2> HIDE DEF R, Q
    <2>3. ASSUME S # {} PROVE FALSE
      <3>1. PICK x \in S : ToSet(e.kids[x]) \cap S = {}
        <4>1. S \in (SUBSET Nodes) \ {{}} BY <2>3
        <4> HIDE DEF S
        <4> QED BY <4>1, <1>13 DEF WellFormed
      <3>2. x \in Nodes /\ x # n /\ x # m /\ ~ Same(Q[x], R[x]) OBVIOUS
      <3>3. CASE d.kind[x] = "text"
        <4>1. e.kind[x] = "text" /\ e.chars[x] = d.chars[x] BY <1>10, <3>2, <3>3
        <4> QED BY <2>1, <2>2, <3>2, <3>3, <4>1 DEF Same
      <3>4. CASE d.kind[x] # "text" /\ x # u
        <4>1. e.kind[x] # "text" /\ e.kids[x] = d.kids[x] BY <1>10, <3>2, <3>4
        <4>2. ASSUME NEW i \in DOMAIN d.kids[x] PROVE Q[d.kids[x][i]] = R[d.kids[x][i]]
          <5> DEFINE y == d.kids[x][i]
          <5>1. y \in ToSet(d.kids[x]) /\ y \in ToSet(e.kids[x]) BY <4>1 DEF ToSet
          <5>2. y \in Nodes /\ d.up[y] = x /\ d.kind[y] # "free" BY <3>2, <5>1, OneParent
          <5>3. y # m /\ y # n BY <5>2, <3>4, <1>2 DEF u
          <5>4. y \notin S BY <3>1, <5>1
          <5> HIDE DEF y
          <5>5. Same(Q[y], R[y]) BY <5>2, <5>3, <5>4
          <5> QED BY <5>5 DEF Same, y
        <4> DEFINE s == d.kids[x]
        <4>3. \A i \in DOMAIN s : Q[s[i]] = R[s[i]] BY <4>2
        <4> HIDE DEF s
        <4>4. Join(Q, s) = Join(R, s) BY <4>3, JoinSame
        <4>5. Q[x] = Join(Q, s) /\ R[x] = Join(R, s) BY <2>1, <2>2, <3>2, <3>4, <4>1 DEF s
        <4> QED BY <3>2, <4>4, <4>5 DEF Same
      <3>5. CASE x = u
        <4> DEFINE s == d.kids[u]
                   t == <<n, m>>
        <4>1. s \in Seq(Nodes) /\ Distinct(s) /\ n \in ToSet(s) /\ t \in Seq(Nodes) BY <1>2, <1>3, <1>4
        <4>2. ASSUME NEW y \in ToSet(s) \ {n} PROVE Same(Q[y], R[y])
          <5>1. y \in Nodes /\ d.kind[y] # "free" BY <1>5, OneParent
          <5>2. y # m /\ y \in ToSet(e.kids[x]) BY <1>2, <1>5, <1>12, <3>5, <5>1
          <5> QED BY <3>1, <5>1, <5>2
        <4>3. Same(Join(Q, t), R[n])
          <5>1. Q[n] = left /\ Q[m] = right /\ R[n] = d.chars[n] BY <1>2, <1>3, <1>5, <1>10, <2>1, <2>2
          <5> DEFINE a == <<n>>
                     b == <<m>>
          <5>2. a \in Seq(Nodes) /\ b \in Seq(Nodes) /\ t = a \o b BY <1>2, <1>3
          <5>3. Same(Join(Q, a), Q[n]) /\ Same(Join(Q, b), Q[m])
            <6>1. Q[n] \in Seq(Nat) /\ Q[m] \in Seq(Nat) BY <1>6, <5>1
            <6> QED BY <6>1, JoinOne
          <5> HIDE DEF a, b
          <5>4. Same(Join(Q, a \o b), Join(Q, a) \o Join(Q, b)) BY <2>2, <5>2, JoinConcat
          <5> QED BY <1>6, <5>1, <5>2, <5>3, <5>4 DEF Same
        <4> HIDE DEF s, t
        <4>4. Same(Join(Q, Replace(s, n, t)), Join(R, s)) BY <2>1, <2>2, <4>1, <4>2, <4>3, ReplacedReads
        <4>5. Q[u] = Join(Q, Replace(s, n, t)) /\ R[u] = Join(R, s)
          <5>1. d.kind[u] # "text" /\ e.kind[u] # "text" /\ e.kids[u] = new BY <1>5, <1>10
          <5> QED BY <2>1, <2>2, <1>5, <5>1 DEF s, t, new
        <4> QED BY <3>2, <3>5, <4>4, <4>5 DEF Same
      <3> QED BY <3>3, <3>4, <3>5
    <2>4. ASSUME NEW x \in Elements(d) PROVE e.kind[x] = d.kind[x] /\ Same(Reads(e, x), Reads(d, x))
      <3>1. x \in Nodes /\ x # n /\ x # m BY <1>2, <1>3 DEF Elements
      <3>2. Same(Q[x], R[x]) BY <2>3, <3>1
      <3> QED BY <3>1, <3>2, <2>1, <2>2, <1>10
    <2> QED BY <2>4 DEF Unchanged
  <1>16. SplitInto(d, e, n, k) BY <1>2, <1>5, <1>7, <1>10 DEF SplitInto, m, u, new, left, right
  <1> QED BY <1>13, <1>14, <1>15, <1>16 DEF e, m

-----------------------------------------------------------------------------
(* putting a text into a highlight,                                        *)

(* What wrapAll changes of the nodes: in e, n is in a highlight.           *)
WrappedIn(d, e, n) ==
  LET h == Fresh(d)
      u == d.up[n]
  IN /\ h \in Nodes \ {n, u} /\ d.kind[h] = "free"
     /\ \A x \in Nodes : /\ e.kind[x] = IF x = h THEN "highlight" ELSE d.kind[x]
                         /\ e.tag[x] = IF x = h THEN "span" ELSE d.tag[x]
                         /\ e.up[x] = IF x = n THEN h ELSE IF x = h THEN u ELSE d.up[x]
                         /\ e.kids[x] = IF x = u THEN Replace(d.kids[u], n, <<h>>) ELSE IF x = h THEN <<n>> ELSE d.kids[x]
                         /\ e.chars[x] = d.chars[x]

(* A text that is put into a highlight: the page stays a tree and every    *)
(* other element and highlight reads as it did.                            *)
LEMMA WrapKeeps ==
  ASSUME NEW d, WellFormed(d), NEW n \in Texts(d), Free(d) # {}
  PROVE  /\ WellFormed(Wrap(d, n))
         /\ Free(Wrap(d, n)) = Free(d) \ {Fresh(d)}
         /\ Unchanged(d, Wrap(d, n), Elements(d))
         /\ WrappedIn(d, Wrap(d, n), n)
  <1> DEFINE h == Fresh(d)
             u == d.up[n]
             e == Wrap(d, n)
             new == Replace(d.kids[u], n, <<h>>)
             one == <<n>>
  <1>1. h \in Free(d) BY FreshIsFree
  <1>2. h \in Nodes /\ d.kind[h] = "free" /\ d.kids[h] = <<>> /\ d.up[h] = None /\ \A x \in Nodes : h \notin ToSet(d.kids[x])
    <2> HIDE DEF h
    <2> QED BY <1>1, FreeNode
  <1>3. n \in Nodes /\ d.kind[n] = "text" /\ d.kids[n] = <<>> /\ u # None /\ d.chars[n] \in Seq(Nat) BY TextNode
  <1>4. u \in Elements(d) /\ u # n /\ n \in ToSet(d.kids[u]) /\ d.kids[u] \in Seq(Nodes) /\ Distinct(d.kids[u]) BY <1>3, Parent
  <1>5. u \in Nodes /\ u # h /\ n # h /\ d.kind[u] \in {"element", "highlight"} BY <1>2, <1>3, <1>4 DEF Elements
  <1>6. one \in Seq(Nodes) /\ ToSet(one) = {n} /\ Distinct(one) /\ one # <<>>
    <2>1. one \in Seq(Nodes) /\ one # <<>> BY <1>3
    <2> QED BY <2>1, OnesAndTwos
  <1>7. /\ e.kind = [d.kind EXCEPT ![h] = "highlight"]
        /\ e.tag = [d.tag EXCEPT ![h] = "span"]
        /\ e.up = [d.up EXCEPT ![h] = u, ![n] = h]
        /\ e.kids = [d.kids EXCEPT ![h] = one, ![u] = new]
        /\ e.chars = d.chars
        /\ e = [kind |-> e.kind, tag |-> e.tag, up |-> e.up, kids |-> e.kids, chars |-> e.chars]
    <2>1. d = [kind |-> d.kind, tag |-> d.tag, up |-> d.up, kids |-> d.kids, chars |-> d.chars]
      <3>1. d \in Document BY DEF WellFormed
      <3> QED BY <3>1, Typed
    <2>2. e = [kind |-> [d.kind EXCEPT ![h] = "highlight"], tag |-> [d.tag EXCEPT ![h] = "span"],
               up |-> [d.up EXCEPT ![h] = u, ![n] = h],
               kids |-> [d.kids EXCEPT ![h] = one, ![u] = new], chars |-> d.chars]
      <3>1. e = [d EXCEPT !.kind[h] = "highlight", !.tag[h] = "span", !.up = [@ EXCEPT ![h] = u, ![n] = h],
                          !.kids = [@ EXCEPT ![h] = one, ![u] = new]]
        BY DEF Wrap, h, u, one, new, Fresh
      <3> HIDE DEF h, u, one, new, e
      <3> QED BY <2>1, <3>1
    <2> HIDE DEF e, h, u, new, one
    <2> QED BY <2>2
  <1>8. new \in Seq(Nodes) /\ Distinct(new) /\ ToSet(new) = (ToSet(d.kids[u]) \ {n}) \cup {h}
    <2> DEFINE s == d.kids[u]
               t == <<h>>
    <2>1. t \in Seq(Nodes) /\ ToSet(t) = {h} /\ Distinct(t)
      <3>1. t \in Seq(Nodes) BY <1>2
      <3> QED BY <3>1, OnesAndTwos
    <2>2. s \in Seq(Nodes) /\ Distinct(s) /\ n \in ToSet(s) /\ h \notin ToSet(s) BY <1>2, <1>4, <1>5
    <2> HIDE DEF s, t, h
    <2>3. ToSet(t) \cap (ToSet(s) \ {n}) = {} BY <2>1, <2>2
    <2>4. Replace(s, n, t) \in Seq(Nodes) /\ Distinct(Replace(s, n, t)) /\ ToSet(Replace(s, n, t)) = (ToSet(s) \ {n}) \cup ToSet(t)
      BY <2>1, <2>2, <2>3, Replaced
    <2> QED BY <2>1, <2>2, <2>4 DEF s, t, h
  <1>9. d \in Document /\ d.kind \in [Nodes -> {"element", "highlight", "text", "free"}] /\ d.tag \in [Nodes -> {"div", "p", "span"}]
        /\ d.up \in [Nodes -> Nodes \cup {None}] /\ d.kids \in [Nodes -> Seq(Nodes)] /\ d.chars \in [Nodes -> Seq(Nat)]
    <2>1. d \in Document BY DEF WellFormed
    <2> QED BY <2>1, Typed
  <1> HIDE DEF e, h, u, new, one
  <1>10. \A x \in Nodes : /\ e.kind[x] = IF x = h THEN "highlight" ELSE d.kind[x]
                          /\ e.up[x] = IF x = n THEN h ELSE IF x = h THEN u ELSE d.up[x]
                          /\ e.kids[x] = IF x = u THEN new ELSE IF x = h THEN one ELSE d.kids[x]
                          /\ e.chars[x] = d.chars[x]
    BY <1>2, <1>3, <1>5, <1>7, <1>9
  <1>11. e \in Document
    <2>1. e.kind \in [Nodes -> {"element", "highlight", "text", "free"}] BY <1>2, <1>7, <1>9
    <2>2. e.up \in [Nodes -> Nodes \cup {None}]
      <3> DEFINE V == Nodes \cup {None}
      <3>1. u \in V /\ h \in V /\ d.up \in [Nodes -> V] BY <1>2, <1>5, <1>9
      <3> HIDE DEF V
      <3>2. e.up \in [Nodes -> V] BY <3>1, <1>7
      <3> QED BY <3>2 DEF V
    <2>3. e.kids \in [Nodes -> Seq(Nodes)]
      <3> DEFINE V == Seq(Nodes)
      <3>1. new \in V /\ one \in V /\ d.kids \in [Nodes -> V] BY <1>6, <1>8, <1>9
      <3> HIDE DEF V
      <3>2. e.kids \in [Nodes -> V] BY <3>1, <1>7
      <3> QED BY <3>2 DEF V
    <2>4. e.chars \in [Nodes -> Seq(Nat)] BY <1>7, <1>9
    <2>5. e.tag \in [Nodes -> {"div", "p", "span"}] BY <1>7, <1>9
    <2> QED BY <1>7, <2>1, <2>2, <2>3, <2>4, <2>5 DEF Document
  <1>12. \A x \in Nodes : ToSet(e.kids[x]) = IF x = u THEN (ToSet(d.kids[x]) \ {n}) \cup {h}
                                             ELSE IF x = h THEN {n} ELSE ToSet(d.kids[x])
    BY <1>6, <1>8, <1>10
  <1>13. WellFormed(e)
    <2>1. e.kind[Body] = "element" /\ e.kind[Root] = "element" /\ e.up[Root] # None
      <3>1. d.kind[Body] = "element" /\ d.kind[Root] = "element" /\ d.up[Root] # None /\ Body \in Nodes /\ Root \in Nodes
        BY NodesAssumption DEF WellFormed
      <3> QED BY <3>1, <1>2, <1>3, <1>10
    <2>2. ASSUME NEW x \in Nodes PROVE Distinct(e.kids[x])
      <3>1. Distinct(d.kids[x]) BY DEF WellFormed, Distinct
      <3> QED BY <3>1, <1>6, <1>8, <1>10
    <2>3. ASSUME NEW x \in Nodes, NEW y \in ToSet(e.kids[x]) PROVE e.up[y] = x /\ e.kind[y] # "free"
      <3>1. CASE y = h BY <1>2, <1>3, <1>5, <1>10, <1>12, <2>3, <3>1
      <3>2. CASE y # h /\ x # h
        <4>1. y \in ToSet(d.kids[x]) BY <1>12, <2>3, <3>2
        <4>2. y \in Nodes /\ d.up[y] = x /\ d.kind[y] # "free" BY <4>1, OneParent
        <4>3. y # n BY <4>2, <1>12, <2>3, <3>2 DEF u
        <4> QED BY <4>2, <4>3, <3>2, <1>10
      <3>3. CASE y # h /\ x = h
        <4>1. ToSet(e.kids[h]) = {n} BY <1>2, <1>5, <1>12
        <4>2. y = n BY <2>3, <3>3, <4>1
        <4> QED BY <1>2, <1>3, <1>5, <1>10, <3>3, <4>2
      <3> QED BY <3>1, <3>2, <3>3
    <2>4. ASSUME NEW x \in Nodes, e.up[x] # None PROVE x \in ToSet(e.kids[e.up[x]])
      <3>1. CASE x = h BY <1>3, <1>5, <1>10, <1>12, <3>1
      <3>2. CASE x = n BY <1>2, <1>5, <1>10, <1>12, <3>2
      <3>3. CASE x # h /\ x # n
        <4>1. e.up[x] = d.up[x] /\ d.up[x] # None BY <1>10, <2>4, <3>3
        <4>2. x \in ToSet(d.kids[d.up[x]]) /\ d.up[x] \in Elements(d) BY <4>1, Parent
        <4>3. d.up[x] \in Nodes /\ d.up[x] # h BY <4>2, <1>2 DEF Elements
        <4> QED BY <4>1, <4>2, <4>3, <3>3, <1>12
      <3> QED BY <3>1, <3>2, <3>3
    <2>5. ASSUME NEW x \in Nodes PROVE e.up[x] = None <=> x = Body \/ e.kind[x] = "free"
      <3>1. d.up[x] = None <=> x = Body \/ d.kind[x] = "free" BY DEF WellFormed
      <3>2. h # Body /\ n # Body BY <1>2, <1>3 DEF WellFormed
      <3>3. u # None BY <1>3 DEF u
      <3>4. h # None BY <1>2, NodesAssumption DEF None
      <3> QED BY <3>1, <3>2, <3>3, <3>4, <1>2, <1>3, <1>5, <1>10
    <2>6. ASSUME NEW x \in Nodes PROVE e.kids[x] = <<>> <=> e.kind[x] \in {"text", "free"}
      <3>1. d.kids[x] = <<>> <=> d.kind[x] \in {"text", "free"} BY DEF WellFormed
      <3>2. new # <<>>
        <4>1. h \in ToSet(new) BY <1>8
        <4> QED BY <4>1 DEF ToSet
      <3>3. CASE x = u BY <3>2, <3>3, <1>5, <1>10
      <3>4. CASE x = h BY <3>4, <1>6, <1>5, <1>10
      <3>5. CASE x # u /\ x # h BY <3>1, <3>5, <1>10
      <3> QED BY <3>3, <3>4, <3>5
    <2>7. ASSUME NEW S \in (SUBSET Nodes) \ {{}} PROVE \E x \in S : ToSet(e.kids[x]) \cap S = {}
      <3>1. CASE n \in S
        <4>1. ToSet(d.kids[n]) = {} BY <1>3, OnesAndTwos
        <4>2. ToSet(e.kids[n]) = {} BY <1>3, <1>4, <1>5, <1>12, <4>1
        <4> QED BY <3>1, <4>2
      <3>2. CASE n \notin S /\ h \in S
        <4>1. ToSet(e.kids[h]) = {n} BY <1>2, <1>5, <1>12
        <4> QED BY <3>2, <4>1
      <3>3. CASE n \notin S /\ h \notin S
        <4>1. PICK x \in S : ToSet(d.kids[x]) \cap S = {} BY DEF WellFormed
        <4>2. ToSet(e.kids[x]) \cap S = {} BY <4>1, <3>3, <1>12
        <4> QED BY <4>2
      <3> QED BY <3>1, <3>2, <3>3
    <2> QED BY <1>11, <2>1, <2>2, <2>3, <2>4, <2>5, <2>6, <2>7 DEF WellFormed, Distinct
  <1>14. Free(e) = Free(d) \ {h}
    <2>1. \A x \in Nodes : e.kind[x] = "free" <=> d.kind[x] = "free" /\ x # h BY <1>10
    <2> QED BY <2>1 DEF Free
  <1>15. Unchanged(d, e, Elements(d))
    <2> DEFINE R == Says(d)
               Q == Says(e)
               S == {x \in Nodes \ {h} : ~ Same(Q[x], R[x])}
    <2>1. /\ Yields(R, Nodes, Nat) /\ \A x \in Nodes : R[x] = Reads(d, x)
          /\ \A x \in Nodes : R[x] = IF d.kind[x] = "text" THEN d.chars[x] ELSE Join(R, d.kids[x])
      BY ReadsAre
    <2>2. /\ Yields(Q, Nodes, Nat) /\ \A x \in Nodes : Q[x] = Reads(e, x)
          /\ \A x \in Nodes : Q[x] = IF e.kind[x] = "text" THEN e.chars[x] ELSE Join(Q, e.kids[x])
      BY <1>13, ReadsAre
    <2> HIDE DEF R, Q
    <2>3. ASSUME S # {} PROVE FALSE
      <3>1. PICK x \in S : ToSet(e.kids[x]) \cap S = {}
        <4>1. S \in (SUBSET Nodes) \ {{}} BY <2>3
        <4> HIDE DEF S
        <4> QED BY <4>1, <1>13 DEF WellFormed
      <3>2. x \in Nodes /\ x # h /\ ~ Same(Q[x], R[x]) OBVIOUS
      <3>3. CASE d.kind[x] = "text"
        <4>1. e.kind[x] = "text" /\ e.chars[x] = d.chars[x] BY <1>10, <3>2, <3>3
        <4> QED BY <2>1, <2>2, <3>2, <3>3, <4>1 DEF Same
      <3>4. CASE d.kind[x] # "text" /\ x # u
        <4> DEFINE s == d.kids[x]
        <4>1. e.kind[x] # "text" /\ e.kids[x] = s BY <1>10, <3>2, <3>4
        <4>2. ASSUME NEW y \in ToSet(s) PROVE Q[y] = R[y]
          <5>1. y \in Nodes BY <3>2, OneParent
          <5>2. y # h BY <1>2, <3>2
          <5>3. y \notin S BY <3>1, <4>1
          <5> QED BY <5>1, <5>2, <5>3 DEF Same
        <4>3. \A i \in DOMAIN s : Q[s[i]] = R[s[i]]
          <5> HIDE DEF s
          <5> QED BY <4>2 DEF ToSet
        <4>5. Q[x] = Join(Q, s) /\ R[x] = Join(R, s) BY <2>1, <2>2, <3>2, <3>4, <4>1
        <4> HIDE DEF s
        <4>4. Join(Q, s) = Join(R, s) BY <4>3, JoinSame
        <4> QED BY <3>2, <4>4, <4>5 DEF Same
      <3>5. CASE x = u
        <4> DEFINE s == d.kids[u]
                   t == <<h>>
        <4>1. s \in Seq(Nodes) /\ Distinct(s) /\ n \in ToSet(s) /\ t \in Seq(Nodes) BY <1>2, <1>4 DEF u
        <4>2. ASSUME NEW y \in ToSet(s) \ {n} PROVE Same(Q[y], R[y])
          <5>1. y \in Nodes BY <1>5, OneParent
          <5>2. y # h /\ y \in ToSet(e.kids[x]) BY <1>2, <1>5, <1>12, <3>5, <5>1
          <5> QED BY <3>1, <5>1, <5>2
        <4>3. Same(Join(Q, t), R[n])
          <5>1. R[n] = d.chars[n] /\ Q[n] = d.chars[n] BY <1>3, <1>5, <1>10, <2>1, <2>2
          <5>2. Q[h] = Join(Q, one) BY <1>2, <1>5, <1>10, <2>2
          <5>3. Same(Join(Q, one), Q[n])
            <6>1. Q[n] \in Seq(Nat) BY <1>3, <5>1
            <6> QED BY <6>1, JoinOne DEF one
          <5>4. Same(Join(Q, t), Q[h])
            <6>1. Q[h] \in Seq(Nat) BY <1>3, <5>1, <5>2, <5>3 DEF Same
            <6> QED BY <6>1, JoinOne
          <5> QED BY <5>1, <5>2, <5>3, <5>4 DEF Same
        <4> HIDE DEF s, t
        <4>4. Same(Join(Q, Replace(s, n, t)), Join(R, s)) BY <2>1, <2>2, <4>1, <4>2, <4>3, ReplacedReads
        <4>5. Q[u] = Join(Q, Replace(s, n, t)) /\ R[u] = Join(R, s)
          <5>1. d.kind[u] # "text" /\ e.kind[u] # "text" /\ e.kids[u] = new BY <1>5, <1>10
          <5> QED BY <2>1, <2>2, <1>5, <5>1 DEF s, t, new
        <4> QED BY <3>2, <3>5, <4>4, <4>5 DEF Same
      <3> QED BY <3>3, <3>4, <3>5
    <2>4. ASSUME NEW x \in Elements(d) PROVE e.kind[x] = d.kind[x] /\ Same(Reads(e, x), Reads(d, x))
      <3>1. x \in Nodes /\ x # h BY <1>2 DEF Elements
      <3>2. Same(Q[x], R[x]) BY <2>3, <3>1
      <3> QED BY <3>1, <3>2, <2>1, <2>2, <1>10
    <2> QED BY <2>4 DEF Unchanged
  <1>16. WrappedIn(d, e, n)
    <2>1. \A x \in Nodes : e.tag[x] = IF x = h THEN "span" ELSE d.tag[x] BY <1>2, <1>7, <1>9
    <2> QED BY <1>2, <1>5, <1>10, <2>1 DEF WrappedIn, h, u, new, one
  <1> QED BY <1>13, <1>14, <1>15, <1>16 DEF e, h

-----------------------------------------------------------------------------
(* and taking a highlight out.                                             *)

(* The spans that highlight something.                                     *)
Highlights(d) == {n \in Nodes : d.kind[n] = "highlight"}

(* What replaceWith changes of the nodes: in e, what was in h is in its    *)
(* place.                                                                  *)
TakenFrom(d, e, h) ==
  LET u == d.up[h]
  IN \A x \in Nodes : /\ e.kind[x] = IF x = h THEN "free" ELSE d.kind[x]
                      /\ e.tag[x] = IF x = h THEN "div" ELSE d.tag[x]
                      /\ e.up[x] = IF x = h THEN None ELSE IF d.up[x] = h THEN u ELSE d.up[x]
                      /\ e.kids[x] = IF x = h THEN <<>> ELSE IF x = u THEN Replace(d.kids[u], h, d.kids[h]) ELSE d.kids[x]
                      /\ e.chars[x] = d.chars[x]

(* undraw, of one highlight: what it held stands in its place, in its      *)
(* order, and the page reads as it did.                                    *)
LEMMA UnwrapKeeps ==
  ASSUME NEW d, WellFormed(d), NEW h \in Highlights(d)
  PROVE  /\ WellFormed(Unwrap(d, h))
         /\ Unchanged(d, Unwrap(d, h), Elements(d) \ {h})
         /\ TakenFrom(d, Unwrap(d, h), h)
  <1> DEFINE u == d.up[h]
             e == Unwrap(d, h)
             t == d.kids[h]
             s == d.kids[u]
             new == Replace(s, h, t)
  <1>1. d \in Document /\ d.kind \in [Nodes -> {"element", "highlight", "text", "free"}] /\ d.tag \in [Nodes -> {"div", "p", "span"}]
        /\ d.up \in [Nodes -> Nodes \cup {None}] /\ d.kids \in [Nodes -> Seq(Nodes)] /\ d.chars \in [Nodes -> Seq(Nat)]
    <2>1. d \in Document BY DEF WellFormed
    <2> QED BY <2>1, Typed
  <1>2. h \in Nodes /\ d.kind[h] = "highlight" /\ u # None
    <2>1. h \in Nodes /\ d.kind[h] = "highlight" BY DEF Highlights
    <2>2. h # Body BY <2>1 DEF WellFormed
    <2> QED BY <2>1, <2>2 DEF WellFormed
  <1>3. u \in Elements(d) /\ u # h /\ h \in ToSet(s) /\ s \in Seq(Nodes) /\ Distinct(s) BY <1>2, Parent
  <1>4. u \in Nodes /\ d.kind[u] \in {"element", "highlight"} BY <1>3 DEF Elements
  <1>5. t \in Seq(Nodes) /\ Distinct(t) /\ t # <<>> /\ \A y \in ToSet(t) : y \in Nodes /\ d.up[y] = h /\ d.kind[y] # "free" /\ y # h
    <2>1. t \in Seq(Nodes) BY <1>1, <1>2
    <2>2. Distinct(t) BY <1>2 DEF WellFormed, Distinct
    <2>3. t # <<>> BY <1>2 DEF WellFormed
    <2>4. \A y \in ToSet(t) : y \in Nodes /\ d.up[y] = h /\ d.kind[y] # "free" /\ y # h BY <1>2, OneParent
    <2> QED BY <2>1, <2>2, <2>3, <2>4
  <1>6. ToSet(t) \cap ToSet(s) = {}
    <2>1. ASSUME NEW y \in ToSet(t), y \in ToSet(s) PROVE FALSE
      <3>1. d.up[y] = h BY <1>5
      <3>2. d.up[y] = u BY <1>4, <2>1, OneParent
      <3> QED BY <3>1, <3>2, <1>3
    <2> QED BY <2>1
  <1>7. /\ e.kind = [d.kind EXCEPT ![h] = "free"]
        /\ e.tag = [d.tag EXCEPT ![h] = "div"]
        /\ e.up = [n \in Nodes |-> IF n = h THEN None ELSE IF d.up[n] = h THEN u ELSE d.up[n]]
        /\ e.kids = [n \in Nodes |-> IF n = h THEN <<>> ELSE IF n = u THEN Replace(d.kids[n], h, t) ELSE d.kids[n]]
        /\ e.chars = d.chars
        /\ e = [kind |-> e.kind, tag |-> e.tag, up |-> e.up, kids |-> e.kids, chars |-> e.chars]
    <2>1. d = [kind |-> d.kind, tag |-> d.tag, up |-> d.up, kids |-> d.kids, chars |-> d.chars] BY <1>1, Typed
    <2> DEFINE ups == [n \in Nodes |-> IF n = h THEN None ELSE IF d.up[n] = h THEN u ELSE d.up[n]]
               kidss == [n \in Nodes |-> IF n = h THEN <<>> ELSE IF n = u THEN Replace(d.kids[n], h, t) ELSE d.kids[n]]
    <2>2. e = [d EXCEPT !.kind[h] = "free", !.tag[h] = "div", !.up = ups, !.kids = kidss] BY DEF Unwrap
    <2> HIDE DEF ups, kidss, e
    <2>3. e = [kind |-> [d.kind EXCEPT ![h] = "free"], tag |-> [d.tag EXCEPT ![h] = "div"], up |-> ups, kids |-> kidss, chars |-> d.chars]
      BY <2>1, <2>2
    <2> QED BY <2>3 DEF ups, kidss
  <1>8. new \in Seq(Nodes) /\ Distinct(new) /\ ToSet(new) = (ToSet(s) \ {h}) \cup ToSet(t)
    <2> HIDE DEF s, t
    <2>1. ToSet(t) \cap (ToSet(s) \ {h}) = {} BY <1>6
    <2> QED BY <1>3, <1>5, <2>1, Replaced
  <1> HIDE DEF e
  <1>9. \A x \in Nodes : /\ e.kind[x] = IF x = h THEN "free" ELSE d.kind[x]
                         /\ e.up[x] = IF x = h THEN None ELSE IF d.up[x] = h THEN u ELSE d.up[x]
                         /\ e.kids[x] = IF x = h THEN <<>> ELSE IF x = u THEN new ELSE d.kids[x]
                         /\ e.chars[x] = d.chars[x]
    BY <1>1, <1>2, <1>7
  <1> HIDE DEF u, t, s, new
  <1>10. e \in Document
    <2>0. e.kind = [d.kind EXCEPT ![h] = "free"] /\ e.tag = [d.tag EXCEPT ![h] = "div"] BY <1>7
    <2>1. e.kind \in [Nodes -> {"element", "highlight", "text", "free"}] BY <1>1, <2>0
    <2>2. e.up \in [Nodes -> Nodes \cup {None}]
      <3>1. \A x \in Nodes : (IF x = h THEN None ELSE IF d.up[x] = h THEN u ELSE d.up[x]) \in Nodes \cup {None} BY <1>1, <1>4
      <3> QED BY <3>1, <1>7
    <2>3. e.kids \in [Nodes -> Seq(Nodes)]
      <3>1. <<>> \in Seq(Nodes) BY EmptySeq
      <3>2. \A x \in Nodes : e.kids[x] \in Seq(Nodes) BY <3>1, <1>1, <1>8, <1>9
      <3>3. \E f : e.kids = [x \in Nodes |-> f[x]]
        <4> DEFINE g == [n \in Nodes |-> IF n = h THEN <<>> ELSE IF n = u THEN Replace(d.kids[n], h, t) ELSE d.kids[n]]
        <4>1. g = [x \in Nodes |-> g[x]] OBVIOUS
        <4> HIDE DEF g
        <4>2. e.kids = g BY <1>7 DEF g
        <4> QED BY <4>1, <4>2
      <3> QED BY <3>2, <3>3
    <2>4. e.chars \in [Nodes -> Seq(Nat)] BY <1>1, <1>7
    <2>5. e.tag \in [Nodes -> {"div", "p", "span"}] BY <1>1, <2>0
    <2> QED BY <1>7, <2>1, <2>2, <2>3, <2>4, <2>5 DEF Document
  <1>11. \A x \in Nodes : ToSet(e.kids[x]) = IF x = h THEN {} ELSE IF x = u THEN (ToSet(s) \ {h}) \cup ToSet(t) ELSE ToSet(d.kids[x])
    <2>1. ToSet(<<>>) = {} BY OnesAndTwos
    <2> QED BY <2>1, <1>8, <1>9
  <1>12. ToSet(d.kids[u]) = ToSet(s) /\ ToSet(d.kids[h]) = ToSet(t) BY DEF s, t
  <1>13. WellFormed(e)
    <2>1. e.kind[Body] = "element" /\ e.kind[Root] = "element" /\ e.up[Root] # None
      <3>1. d.kind[Body] = "element" /\ d.kind[Root] = "element" /\ d.up[Root] # None /\ Body \in Nodes /\ Root \in Nodes
        BY NodesAssumption DEF WellFormed
      <3> QED BY <3>1, <1>2, <1>9
    <2>2. ASSUME NEW x \in Nodes PROVE Distinct(e.kids[x])
      <3>1. Distinct(d.kids[x]) BY DEF WellFormed, Distinct
      <3>2. Distinct(<<>>) BY DEF Distinct
      <3> QED BY <3>1, <3>2, <1>8, <1>9
    <2>3. ASSUME NEW x \in Nodes, NEW y \in ToSet(e.kids[x]) PROVE e.up[y] = x /\ e.kind[y] # "free"
      <3>1. x # h BY <2>3, <1>11
      <3>2. CASE y \in ToSet(t)
        <4>1. x = u
          <5>1. ASSUME x # u PROVE FALSE
            <6>1. y \in ToSet(d.kids[x]) BY <5>1, <3>1, <2>3, <1>11
            <6>2. d.up[y] = x BY <6>1, OneParent
            <6> QED BY <6>2, <3>1, <3>2, <1>5
          <5> QED BY <5>1
        <4>2. y \in Nodes /\ d.up[y] = h /\ d.kind[y] # "free" /\ y # h BY <1>5, <3>2
        <4> QED BY <4>1, <4>2, <1>9
      <3>3. CASE y \notin ToSet(t)
        <4>1. y \in ToSet(d.kids[x]) /\ y # h
          <5>1. CASE x = u BY <5>1, <3>1, <3>3, <2>3, <1>11, <1>12
          <5>2. CASE x # u
            <6>1. y \in ToSet(d.kids[x]) BY <5>2, <3>1, <2>3, <1>11
            <6>2. d.up[y] = x BY <6>1, OneParent
            <6> QED BY <6>1, <6>2, <5>2 DEF u
          <5> QED BY <5>1, <5>2
        <4>2. y \in Nodes /\ d.up[y] = x /\ d.kind[y] # "free" BY <4>1, OneParent
        <4> QED BY <4>1, <4>2, <3>1, <1>9
      <3> QED BY <3>2, <3>3
    <2>4. ASSUME NEW x \in Nodes, e.up[x] # None PROVE x \in ToSet(e.kids[e.up[x]])
      <3>1. x # h BY <1>9, <2>4
      <3>2. CASE d.up[x] = h
        <4>1. e.up[x] = u BY <1>9, <3>1, <3>2
        <4>2. x \in ToSet(t)
          <5>1. h # None BY <1>2, NodesAssumption DEF None
          <5>2. x \in ToSet(d.kids[d.up[x]]) BY <3>2, <5>1 DEF WellFormed
          <5> QED BY <5>2, <3>2 DEF t
        <4> QED BY <4>1, <4>2, <1>3, <1>4, <1>11
      <3>3. CASE d.up[x] # h
        <4>1. e.up[x] = d.up[x] /\ d.up[x] # None BY <1>9, <2>4, <3>1, <3>3
        <4>2. x \in ToSet(d.kids[d.up[x]]) /\ d.up[x] \in Elements(d) BY <4>1, Parent
        <4>3. d.up[x] \in Nodes BY <4>2 DEF Elements
        <4> QED BY <4>1, <4>2, <4>3, <3>1, <3>3, <1>11, <1>12
      <3> QED BY <3>2, <3>3
    <2>5. ASSUME NEW x \in Nodes PROVE e.up[x] = None <=> x = Body \/ e.kind[x] = "free"
      <3>1. d.up[x] = None <=> x = Body \/ d.kind[x] = "free" BY DEF WellFormed
      <3>2. h # Body BY <1>2 DEF WellFormed
      <3>3. u # None /\ h # None BY <1>2, NodesAssumption DEF None, u
      <3> QED BY <3>1, <3>2, <3>3, <1>2, <1>9
    <2>6. ASSUME NEW x \in Nodes PROVE e.kids[x] = <<>> <=> e.kind[x] \in {"text", "free"}
      <3>1. d.kids[x] = <<>> <=> d.kind[x] \in {"text", "free"} BY DEF WellFormed
      <3>2. new # <<>>
        <4>1. PICK y \in ToSet(t) : TRUE
          <5>1. t[1] \in ToSet(t)
            <6>1. 1 \in DOMAIN t
              <7>1. t \in Seq(Nodes) /\ t # <<>> BY <1>5
              <7>2. Len(t) \in Nat /\ Len(t) # 0 /\ DOMAIN t = 1 .. Len(t) BY <7>1, EmptySeq, LenProperties
              <7> QED BY <7>2
            <6> QED BY <6>1 DEF ToSet
          <5> QED BY <5>1
        <4>2. y \in ToSet(new) BY <1>8, <4>1
        <4>3. ToSet(<<>>) = {} BY OnesAndTwos
        <4> QED BY <4>2, <4>3
      <3>3. CASE x = u BY <3>2, <3>3, <1>3, <1>4, <1>9
      <3>4. CASE x = h BY <3>4, <1>9
      <3>5. CASE x # u /\ x # h BY <3>1, <3>5, <1>9
      <3> QED BY <3>3, <3>4, <3>5
    <2>7. ASSUME NEW S \in (SUBSET Nodes) \ {{}} PROVE \E x \in S : ToSet(e.kids[x]) \cap S = {}
      <3>1. CASE h \in S
        <4>1. ToSet(e.kids[h]) = {} BY <1>2, <1>11
        <4> QED BY <3>1, <4>1
      <3>2. CASE h \notin S
        <4> DEFINE T == S \cup {h}
        <4>1. T \in (SUBSET Nodes) \ {{}} BY <1>2
        <4>2. PICK x \in T : ToSet(d.kids[x]) \cap T = {}
          <5> HIDE DEF T
          <5> QED BY <4>1 DEF WellFormed
        <4>3. CASE x # h
          <5>1. x \in S /\ x \in Nodes BY <4>3
          <5>2. x # u BY <4>2, <1>3, <1>12
          <5>3. ToSet(e.kids[x]) = ToSet(d.kids[x]) BY <5>1, <5>2, <4>3, <1>11
          <5> QED BY <4>2, <5>1, <5>3
        <4>4. CASE x = h
          <5>1. ToSet(t) \cap S = {} BY <4>2, <4>4, <1>12
          <5>2. PICK y \in S : ToSet(d.kids[y]) \cap S = {} BY DEF WellFormed
          <5>3. ToSet(e.kids[y]) \subseteq ToSet(d.kids[y]) \cup ToSet(t) BY <1>11, <1>12
          <5> QED BY <5>1, <5>2, <5>3
        <4> QED BY <4>3, <4>4
      <3> QED BY <3>1, <3>2
    <2> QED BY <1>10, <2>1, <2>2, <2>3, <2>4, <2>5, <2>6, <2>7 DEF WellFormed, Distinct
  <1>14. Unchanged(d, e, Elements(d) \ {h})
    <2> DEFINE R == Says(d)
               Q == Says(e)
               S == {x \in Nodes \ {h} : ~ Same(Q[x], R[x])}
    <2>1. /\ Yields(R, Nodes, Nat) /\ \A x \in Nodes : R[x] = Reads(d, x)
          /\ \A x \in Nodes : R[x] = IF d.kind[x] = "text" THEN d.chars[x] ELSE Join(R, d.kids[x])
      BY ReadsAre
    <2>2. /\ Yields(Q, Nodes, Nat) /\ \A x \in Nodes : Q[x] = Reads(e, x)
          /\ \A x \in Nodes : Q[x] = IF e.kind[x] = "text" THEN e.chars[x] ELSE Join(Q, e.kids[x])
      BY <1>13, ReadsAre
    <2> HIDE DEF R, Q
    <2>3. ASSUME S # {} PROVE FALSE
      <3>1. PICK x \in S : ToSet(e.kids[x]) \cap S = {}
        <4>1. S \in (SUBSET Nodes) \ {{}} BY <2>3
        <4> HIDE DEF S
        <4> QED BY <4>1, <1>13 DEF WellFormed
      <3>2. x \in Nodes /\ x # h /\ ~ Same(Q[x], R[x]) OBVIOUS
      <3>3. CASE d.kind[x] = "text"
        <4>1. e.kind[x] = "text" /\ e.chars[x] = d.chars[x] BY <1>9, <3>2, <3>3
        <4> QED BY <2>1, <2>2, <3>2, <3>3, <4>1 DEF Same
      <3>4. CASE d.kind[x] # "text" /\ x # u
        <4> DEFINE k == d.kids[x]
        <4>1. e.kind[x] # "text" /\ e.kids[x] = k BY <1>9, <3>2, <3>4
        <4>2. ASSUME NEW y \in ToSet(k) PROVE Q[y] = R[y]
          <5>1. y \in Nodes /\ d.up[y] = x BY <3>2, OneParent
          <5>2. y # h BY <5>1, <3>4 DEF u
          <5>3. y \notin S BY <3>1, <4>1
          <5> QED BY <5>1, <5>2, <5>3 DEF Same
        <4>3. \A i \in DOMAIN k : Q[k[i]] = R[k[i]]
          <5> HIDE DEF k
          <5> QED BY <4>2 DEF ToSet
        <4>5. Q[x] = Join(Q, k) /\ R[x] = Join(R, k) BY <2>1, <2>2, <3>2, <3>4, <4>1
        <4> HIDE DEF k
        <4>4. Join(Q, k) = Join(R, k) BY <4>3, JoinSame
        <4> QED BY <3>2, <4>4, <4>5 DEF Same
      <3>5. CASE x = u
        <4>1. ASSUME NEW y \in ToSet(s) \ {h} PROVE Same(Q[y], R[y])
          <5>1. y \in Nodes BY <1>4, <1>12, OneParent
          <5>2. y \in ToSet(e.kids[x]) BY <1>3, <1>4, <1>11, <3>5
          <5> QED BY <3>1, <5>1, <5>2
        <4>2. Same(Join(Q, t), R[h])
          <5>1. ASSUME NEW y \in ToSet(t) PROVE Q[y] = R[y]
            <6>1. y \in Nodes /\ y # h BY <1>5
            <6>2. y \in ToSet(e.kids[x]) BY <1>3, <1>4, <1>11, <3>5
            <6> QED BY <3>1, <6>1, <6>2 DEF Same
          <5>2. \A i \in DOMAIN t : Q[t[i]] = R[t[i]] BY <5>1 DEF ToSet
          <5>3. Join(Q, t) = Join(R, t) BY <5>2, JoinSame
          <5>4. R[h] = Join(R, t) BY <1>2, <2>1 DEF t
          <5> QED BY <5>3, <5>4 DEF Same
        <4>3. Same(Join(Q, new), Join(R, s))
          <5>1. s \in Seq(Nodes) /\ Distinct(s) /\ h \in ToSet(s) /\ t \in Seq(Nodes) BY <1>3, <1>5
          <5>2. Same(Join(Q, Replace(s, h, t)), Join(R, s)) BY <2>1, <2>2, <4>1, <4>2, <5>1, ReplacedReads
          <5> QED BY <5>2 DEF new
        <4>4. Q[u] = Join(Q, new) /\ R[u] = Join(R, s)
          <5>1. d.kind[u] # "text" /\ e.kind[u] # "text" /\ e.kids[u] = new BY <1>3, <1>4, <1>9
          <5>2. s = d.kids[u] BY DEF s
          <5> QED BY <2>1, <2>2, <1>4, <5>1, <5>2
        <4> QED BY <3>2, <3>5, <4>3, <4>4 DEF Same
      <3> QED BY <3>3, <3>4, <3>5
    <2>4. ASSUME NEW x \in Elements(d) \ {h} PROVE e.kind[x] = d.kind[x] /\ Same(Reads(e, x), Reads(d, x))
      <3>1. x \in Nodes /\ x # h BY DEF Elements
      <3>2. Same(Q[x], R[x]) BY <2>3, <3>1
      <3> QED BY <3>1, <3>2, <2>1, <2>2, <1>9
    <2> QED BY <2>4 DEF Unchanged
  <1>15. TakenFrom(d, e, h)
    <2>1. \A x \in Nodes : e.tag[x] = IF x = h THEN "div" ELSE d.tag[x] BY <1>1, <1>2, <1>7
    <2> QED BY <1>9, <2>1 DEF TakenFrom, u, s, t, new
  <1> QED BY <1>13, <1>14, <1>15 DEF e

-----------------------------------------------------------------------------
(* Pages, upwards: the parents of a node.                                  *)

(* The parent of each node, as a set, and all its parents.                 *)
Ups(d) == [n \in Nodes |-> {m \in Nodes : m = d.up[n]}]
Above(d) == [n \in Nodes |-> ParentsOf(d, n)]

(* Up a page there is no way round either: a smallest set of nodes that    *)
(* has their parents loses nothing but a node without children in it.      *)
LEMMA UpIsGrounded ==
  ASSUME NEW d, WellFormed(d)
  PROVE  Grounded(Nodes, Ups(d))
  <1> DEFINE Closed(S) == S \in (SUBSET Nodes) \ {{}} /\ \A n \in S : d.up[n] \in S
             Sizes == {Cardinality(S) : S \in {R \in SUBSET Nodes : Closed(R)}}
  <1>1. IsFiniteSet(Nodes) BY NodesAssumption
  <1>2. ASSUME NEW S, Closed(S) PROVE FALSE
    <2>1. Sizes \subseteq Nat /\ Sizes # {}
      <3>1. \A R \in SUBSET Nodes : Cardinality(R) \in Nat BY <1>1, FS_Subset, FS_CardinalityType
      <3> QED BY <3>1, <1>2
    <2>2. PICK k \in Sizes : \A j \in Sizes : k <= j
      <3> HIDE DEF Sizes
      <3> QED BY <2>1, Least
    <2>3. PICK R \in SUBSET Nodes : Closed(R) /\ k = Cardinality(R) OBVIOUS
    <2>4. PICK n \in R : ToSet(d.kids[n]) \cap R = {} BY <2>3 DEF WellFormed
    <2>5. ASSUME NEW m \in R PROVE m # n /\ d.up[m] # n => d.up[m] \in R \ {n} BY <2>3
    <2>6. ASSUME NEW m \in R PROVE d.up[m] # n
      <3>1. m \in Nodes /\ d.up[m] # None BY <2>3, NodesAssumption DEF None
      <3>2. m \in ToSet(d.kids[d.up[m]]) BY <3>1, Parent
      <3> QED BY <3>2, <2>4
    <2>7. d.up[n] \in R /\ d.up[n] # n BY <2>3, <2>6
    <2>8. Closed(R \ {n}) BY <2>3, <2>5, <2>6, <2>7
    <2>9. Cardinality(R \ {n}) = Cardinality(R) - 1 /\ Cardinality(R) \in Nat
      <3>1. IsFiniteSet(R) BY <1>1, <2>3, FS_Subset
      <3> QED BY <3>1, FS_RemoveElement, FS_CardinalityType
    <2>10. Cardinality(R \ {n}) \in Sizes BY <2>8
    <2>11. k <= Cardinality(R \ {n}) BY <2>2, <2>10
    <2> QED BY <2>3, <2>9, <2>11
  <1>3. ASSUME NEW S \in (SUBSET Nodes) \ {{}} PROVE \E n \in S : Ups(d)[n] \cap S = {}
    <2>1. PICK n \in S : d.up[n] \notin S BY <1>2
    <2>2. Ups(d)[n] = {m \in Nodes : m = d.up[n]} BY DEF Ups
    <2> QED BY <2>1, <2>2
  <1> QED BY <1>3 DEF Grounded

(* The parents of a node are its parent and then those of its parent.      *)
LEMMA ParentsAre ==
  ASSUME NEW d, WellFormed(d)
  PROVE  /\ Yields(Above(d), Nodes, Nodes)
         /\ \A n \in Nodes : Above(d)[n] = ParentsOf(d, n)
         /\ \A n \in Nodes : Above(d)[n] = IF d.up[n] = None THEN <<>> ELSE <<d.up[n]>> \o Above(d)[d.up[n]]
  <1> DEFINE V == Seq(Nodes)
             K == Ups(d)
             part(f, n) == IF d.up[n] = None THEN <<>> ELSE <<d.up[n]>> \o f[d.up[n]]
             G == [n \in Nodes |-> [f \in [Nodes -> V] |-> part(f, n)]]
             Is(h) == h = [m \in Nodes |-> IF d.up[m] = None THEN <<>> ELSE <<d.up[m]>> \o h[d.up[m]]]
  <1>1. \A n \in Nodes : d.up[n] # None => d.up[n] \in Nodes /\ d.up[n] \in K[n]
    <2>1. d \in Document BY DEF WellFormed
    <2>2. \A n \in Nodes : d.up[n] # None => d.up[n] \in Nodes BY <2>1, Typed
    <2> QED BY <2>2 DEF Ups
  <1>2. Grounded(Nodes, K) /\ K \in [Nodes -> SUBSET Nodes]
    <2>1. K \in [Nodes -> SUBSET Nodes] BY DEF Ups
    <2> QED BY <2>1, UpIsGrounded
  <1>3. G \in [Nodes -> [[Nodes -> V] -> V]]
    <2>1. ASSUME NEW n \in Nodes, NEW f \in [Nodes -> V] PROVE part(f, n) \in V
      <3>1. <<>> \in Seq(Nodes) OBVIOUS
      <3>2. CASE d.up[n] # None
        <4>1. f[d.up[n]] \in Seq(Nodes) /\ <<d.up[n]>> \in Seq(Nodes) BY <1>1, <3>2
        <4>2. <<d.up[n]>> \o f[d.up[n]] \in Seq(Nodes) BY <4>1, ConcatProperties
        <4> QED BY <3>2, <4>2
      <3> QED BY <3>1, <3>2
    <2> HIDE DEF part, V
    <2> QED BY <2>1
  <1>4. Local(G, K, Nodes, V)
    <2>1. ASSUME NEW n \in Nodes, NEW f \in [Nodes -> V], NEW g \in [Nodes -> V], Agree(f, g, K[n])
          PROVE  part(f, n) = part(g, n)
      BY <1>1, <2>1 DEF Agree
    <2> HIDE DEF part, V, K
    <2> QED BY <2>1 DEF Local, Same
  <1>5. <<>> \in V OBVIOUS
  <1>6. PICK F \in [Nodes -> V] : Solution(G, Nodes, F)
    <2> HIDE DEF V, K, G
    <2> QED BY <1>2, <1>3, <1>4, <1>5, Recursion
  <1>7. \A n \in Nodes : F[n] = part(F, n)
    <2> HIDE DEF part, V
    <2> QED BY <1>6 DEF Solution
  <1>8. Is(F)
    <2>2. F = [n \in Nodes |-> F[n]] OBVIOUS
    <2> QED BY <1>7, <2>2
  <1>9. ASSUME NEW h, Is(h) PROVE h = F
    <2>1. h = [n \in Nodes |-> h[n]] BY <1>9
    <2>2. \A n \in Nodes : h[n] = part(h, n) BY <1>9
    <2> HIDE DEF Is
    <2> DEFINE S == {n \in Nodes : h[n] # F[n]}
    <2>3. CASE S = {}
      <3>1. \A n \in Nodes : h[n] = F[n] BY <2>3
      <3> QED BY <3>1, <2>1
    <2>4. CASE S # {}
      <3>1. PICK n \in S : K[n] \cap S = {} BY <1>2, <2>4 DEF Grounded
      <3>2. d.up[n] # None => h[d.up[n]] = F[d.up[n]] BY <1>1, <3>1
      <3>3. part(h, n) = part(F, n) BY <3>2
      <3>4. h[n] = part(h, n) /\ F[n] = part(F, n) BY <2>2, <1>7
      <3> HIDE DEF part
      <3> QED BY <3>3, <3>4
    <2> QED BY <2>3, <2>4
  <1> DEFINE above == CHOOSE h : Is(h)
  <1>10. above = F
    <2> HIDE DEF Is
    <2>1. Is(above) BY <1>8
    <2> QED BY <2>1, <1>9
  <1>11. \A n \in Nodes : ParentsOf(d, n) = above[n] BY DEF ParentsOf
  <1> HIDE DEF above
  <1>12. \A n \in Nodes : ParentsOf(d, n) = F[n] BY <1>10, <1>11
  <1>13. Above(d) = F
    <2>1. F = [n \in Nodes |-> F[n]] OBVIOUS
    <2>2. Above(d) = [n \in Nodes |-> F[n]] BY <1>12 DEF Above
    <2> QED BY <2>1, <2>2
  <1>14. Yields(Above(d), Nodes, Nodes) BY <1>13 DEF Yields
  <1>15. \A n \in Nodes : Above(d)[n] = part(Above(d), n)
    <2> HIDE DEF part
    <2> QED BY <1>7, <1>13
  <1> QED BY <1>12, <1>13, <1>14, <1>15

(* The parents of a node, as a set: its parent, and those of its parent.   *)
Over(d, n) == ToSet(Above(d)[n])

(* To be inside a node is to have it over oneself.                         *)
LEMMA OverIs ==
  ASSUME NEW d, WellFormed(d), NEW n \in Nodes
  PROVE  /\ ParentsOf(d, n) \in Seq(Nodes) /\ ToSet(ParentsOf(d, n)) = Over(d, n) /\ Over(d, n) \subseteq Nodes
         /\ \A a : Inside(d, n, a) <=> a \in Over(d, n)
         /\ d.up[n] = None => Over(d, n) = {}
         /\ d.up[n] # None => Over(d, n) = {d.up[n]} \cup Over(d, d.up[n])
  <1>1. ParentsOf(d, n) \in Seq(Nodes) /\ Above(d)[n] = ParentsOf(d, n) BY ParentsAre DEF Yields
  <1>2. ToSet(ParentsOf(d, n)) = Over(d, n) BY <1>1 DEF Over
  <1>3. Over(d, n) \subseteq Nodes /\ \A a : Inside(d, n, a) <=> a \in Over(d, n)
    <2> DEFINE s == ParentsOf(d, n)
    <2>1. \A a : Inside(d, n, a) <=> \E i \in 1 .. Len(s) : s[i] = a BY DEF Inside, Contains
    <2>2. s \in Seq(Nodes) BY <1>1
    <2> HIDE DEF s
    <2>3. ToSet(s) \subseteq Nodes /\ ToSet(s) = {s[i] : i \in 1 .. Len(s)} BY <2>2, ToSetIs
    <2>4. \A a : Inside(d, n, a) <=> a \in ToSet(s) BY <2>1, <2>3
    <2> QED BY <2>3, <2>4, <1>2 DEF s
  <1>4. ASSUME d.up[n] = None PROVE Over(d, n) = {}
    <2>1. Above(d)[n] = <<>> BY <1>4, ParentsAre
    <2> QED BY <2>1, OnesAndTwos DEF Over
  <1>5. ASSUME d.up[n] # None PROVE Over(d, n) = {d.up[n]} \cup Over(d, d.up[n])
    <2> DEFINE u == d.up[n]
               a == <<u>>
               b == Above(d)[u]
    <2>1. Above(d)[n] = a \o b BY <1>5, ParentsAre
    <2>2. u \in Nodes BY <1>5, Parent DEF Elements
    <2>3. a \in Seq(Nodes) /\ b \in Seq(Nodes) BY <2>2, ParentsAre DEF Yields
    <2>4. ToSet(a) = {u} BY OnesAndTwos
    <2> HIDE DEF a, b
    <2>5. ToSet(a \o b) = ToSet(a) \cup ToSet(b) BY <2>3, ToSetConcat
    <2> QED BY <2>1, <2>4, <2>5 DEF Over, b
  <1> QED BY <1>1, <1>2, <1>3, <1>4, <1>5

(* What is over a node has children, goes up to the outermost element, and *)
(* reaches it unless the node is free.                                     *)
LEMMA OverHolds ==
  ASSUME NEW d, WellFormed(d), NEW n \in Nodes
  PROVE  /\ Over(d, n) \subseteq Elements(d)
         /\ \A a \in Over(d, n) : d.up[a] # None => d.up[a] \in Over(d, n)
         /\ d.kind[n] # "free" /\ n # Body => Body \in Over(d, n)
  <1> DEFINE Good(x) == /\ Over(d, x) \subseteq Elements(d)
                        /\ \A a \in Over(d, x) : d.up[a] # None => d.up[a] \in Over(d, x)
                        /\ d.kind[x] # "free" /\ x # Body => Body \in Over(d, x)
             S == {x \in Nodes : ~ Good(x)}
  <1>1. ASSUME NEW x \in S, Ups(d)[x] \cap S = {} PROVE FALSE
    <2>1. CASE d.up[x] = None
      <3>1. Over(d, x) = {} BY <2>1, OverIs
      <3>2. x = Body \/ d.kind[x] = "free" BY <2>1 DEF WellFormed
      <3> QED BY <3>1, <3>2
    <2>2. CASE d.up[x] # None
      <3> DEFINE u == d.up[x]
      <3>1. u \in Elements(d) /\ u \in Nodes BY <2>2, Parent DEF Elements
      <3>2. Over(d, x) = {u} \cup Over(d, u) BY <2>2, OverIs
      <3>3. u \in Ups(d)[x] BY <3>1 DEF Ups
      <3>4. Good(u) BY <1>1, <3>1, <3>3
      <3>5. d.up[u] # None => d.up[u] \in Over(d, u)
        <4>1. d.up[u] # None => Over(d, u) = {d.up[u]} \cup Over(d, d.up[u]) BY <3>1, OverIs
        <4> QED BY <4>1
      <3>6. d.kind[u] # "free" BY <3>1 DEF Elements
      <3> HIDE DEF u
      <3> QED BY <3>1, <3>2, <3>4, <3>5, <3>6
    <2> QED BY <2>1, <2>2
  <1>2. S = {}
    <2>1. S \in SUBSET Nodes OBVIOUS
    <2> HIDE DEF S
    <2> QED BY <1>1, <2>1, UpIsGrounded DEF Grounded
  <1> QED BY <1>2

(* The text nodes below a node that is not free: texts, at least one.      *)
LEMMA TextsBelow ==
  ASSUME NEW d, WellFormed(d), NEW n \in Nodes
  PROVE  /\ TextNodes(d, n) \in Seq(Texts(d))
         /\ d.kind[n] # "free" => TextNodes(d, n) # <<>>
         /\ \A t \in ToSet(TextNodes(d, n)) : t = n \/ n \in Over(d, t)
  <1> DEFINE B == Below(d)
             Good(x) == /\ B[x] \in Seq(Texts(d))
                        /\ d.kind[x] # "free" => B[x] # <<>>
                        /\ \A t \in ToSet(B[x]) : t = x \/ x \in Over(d, t)
             S == {x \in Nodes : ~ Good(x)}
  <1>1. /\ Yields(B, Nodes, Nodes)
        /\ \A x \in Nodes : B[x] = TextNodes(d, x)
        /\ \A x \in Nodes : B[x] = IF d.kind[x] = "text" THEN <<x>> ELSE Join(B, d.kids[x])
    BY TextNodesAre
  <1>0. d \in Document /\ d.kids \in [Nodes -> Seq(Nodes)] /\ d.kind \in [Nodes -> {"element", "highlight", "text", "free"}]
    BY Typed DEF WellFormed
  <1> HIDE DEF B
  <1>2. ASSUME NEW x \in S, ToSet(d.kids[x]) \cap S = {} PROVE FALSE
    <2>1. CASE d.kind[x] = "text"
      <3>1. B[x] = <<x>> BY <1>1, <2>1
      <3>2. x \in Texts(d) BY <2>1 DEF Texts
      <3>3. <<x>> # <<>> /\ <<x>> \in Seq(Texts(d)) BY <3>2
      <3>4. ToSet(<<x>>) = {x} BY OnesAndTwos
      <3>5. ToSet(B[x]) = {x} /\ B[x] # <<>> /\ B[x] \in Seq(Texts(d)) BY <3>1, <3>3, <3>4
      <3> QED BY <3>5
    <2>2. CASE d.kind[x] # "text"
      <3> DEFINE s == d.kids[x]
      <3>1. B[x] = Join(B, s) /\ s \in Seq(Nodes) BY <1>0, <1>1, <2>2
      <3>2. \A y \in ToSet(s) : y \in Nodes /\ d.up[y] = x /\ d.kind[y] # "free" /\ Good(y)
        <4>1. ASSUME NEW y \in ToSet(s) PROVE y \in Nodes /\ d.up[y] = x /\ d.kind[y] # "free" /\ Good(y)
          <5>1. y \in Nodes /\ d.up[y] = x /\ d.kind[y] # "free" BY OneParent
          <5> QED BY <5>1, <1>2
        <4> QED BY <4>1
      <3>3. d.kind[x] # "free" => s # <<>>
        <4>1. d.kind[x] # "free" => d.kind[x] \notin {"text", "free"} BY <2>2
        <4> QED BY <4>1 DEF WellFormed
      <3> DEFINE pre(k) == SubSeq(s, 1, k)
                 Fine(k) == /\ Join(B, pre(k)) \in Seq(Texts(d))
                            /\ k > 0 => Join(B, pre(k)) # <<>>
                            /\ \A t \in ToSet(Join(B, pre(k))) : x \in Over(d, t)
                 T == {k \in 0 .. Len(s) : ~ Fine(k)}
      <3> HIDE DEF s
      <3>4. Len(s) \in Nat /\ \A i \in 1 .. Len(s) : s[i] \in ToSet(s)
        <4>1. Len(s) \in Nat BY <3>1, LenProperties
        <4> QED BY <4>1, <3>1, ToSetIs
      <3>5. Fine(0)
        <4>1. pre(0) = <<>> BY <3>1, SubSeqEmpty
        <4>2. Join(B, pre(0)) = <<>> BY <4>1, JoinEmpty
        <4>3. <<>> \in Seq(Texts(d)) /\ ~ (0 > 0) OBVIOUS
        <4>4. ToSet(<<>>) = {} BY OnesAndTwos
        <4> HIDE DEF pre
        <4> QED BY <4>2, <4>3, <4>4
      <3>6. ASSUME T # {} PROVE FALSE
        <4>1. T \subseteq Nat BY <3>4, SMT
        <4>2. PICK k \in T : \A j \in T : k <= j BY <4>1, <3>6, Least
        <4>3. k # 0 BY <3>5, <4>2
        <4>4. k \in 1 .. Len(s) /\ k - 1 \in 0 .. Len(s) /\ ~ (k <= k - 1) BY <3>4, <4>2, <4>3
        <4>5. Fine(k - 1) BY <4>2, <4>4
        <4> DEFINE p == pre(k - 1)
                   y == s[k]
                   one == <<y>>
                   l == Join(B, p)
        <4>6. pre(k) = Append(p, y) /\ p \in Seq(Nodes) /\ y \in Nodes BY <3>1, <4>4, SubSeqStep
        <4>7. y \in ToSet(s) BY <3>4, <4>4
        <4>8. l \in Seq(Texts(d)) /\ \A t \in ToSet(l) : x \in Over(d, t) BY <4>5
        <4>9. one \in Seq(Nodes) BY <4>6
        <4>10. Append(p, y) = p \o one
          <5> HIDE DEF p, y
          <5> QED BY <4>6, AppendIsConcat
        <4>11. Same(Join(B, one), B[y])
          <5>1. B[y] \in Seq(Nodes) BY <4>6, <1>1 DEF Yields
          <5> HIDE DEF y
          <5> QED BY <5>1, JoinOne
        <4>12. Same(Join(B, p \o one), Join(B, p) \o Join(B, one))
          <5> HIDE DEF p, one
          <5> QED BY <4>6, <4>9, <1>1, JoinConcat
        <4>13. Join(B, pre(k)) = l \o B[y] BY <4>6, <4>10, <4>11, <4>12 DEF Same
        <4>14. Good(y) /\ d.up[y] = x /\ d.kind[y] # "free" BY <3>2, <4>7
        <4> DEFINE b == B[y]
        <4>15. b \in Seq(Texts(d)) /\ b # <<>> BY <4>14
        <4>16. \A t \in ToSet(b) : x \in Over(d, t)
          <5>1. ASSUME NEW t \in ToSet(b) PROVE x \in Over(d, t)
            <6>0. t \in Nodes /\ x \in Nodes
              <7>1. ToSet(b) \subseteq Texts(d) BY <4>15, ToSetIs
              <7> QED BY <7>1 DEF Texts
            <6>1. t = y \/ y \in Over(d, t) BY <4>14, <5>1
            <6>2. d.up[y] # None BY <4>14, <6>0, NodesAssumption DEF None
            <6>3. CASE t = y
              <7>1. Over(d, y) = {d.up[y]} \cup Over(d, d.up[y]) BY <6>2, <4>6, OverIs
              <7> QED BY <7>1, <6>3, <4>14
            <6>4. CASE y \in Over(d, t) BY <6>0, <6>2, <6>4, <4>14, OverHolds
            <6> QED BY <6>1, <6>3, <6>4
          <5> QED BY <5>1
        <4> HIDE DEF l, b
        <4>17. l \o b \in Seq(Texts(d)) BY <4>8, <4>15, ConcatProperties
        <4>18. ToSet(l \o b) = ToSet(l) \cup ToSet(b) BY <4>8, <4>15, ToSetConcat
        <4>19. l \o b # <<>>
          <5>1. Len(l \o b) = Len(l) + Len(b) /\ Len(l) \in Nat /\ Len(b) \in Nat /\ Len(b) # 0
            BY <4>8, <4>15, ConcatProperties, LenProperties, EmptySeq
          <5>2. Len(<<>>) = 0 OBVIOUS
          <5>3. Len(l) + Len(b) # 0 BY <5>1
          <5> QED BY <5>1, <5>2, <5>3
        <4>20. Join(B, pre(k)) = l \o b BY <4>13 DEF b
        <4>21. Fine(k)
          <5>1. \A t \in ToSet(l \o b) : x \in Over(d, t) BY <4>8, <4>16, <4>18
          <5> HIDE DEF pre
          <5> QED BY <4>17, <4>19, <4>20, <5>1
        <4> QED BY <4>2, <4>21
      <3>7. Fine(Len(s)) BY <3>4, <3>6
      <3>8. pre(Len(s)) = s BY <3>1, SubSeqFull
      <3>9. s # <<>> => Len(s) > 0 BY <3>1, <3>4, EmptySeq
      <3> HIDE DEF pre
      <3>10. /\ Join(B, s) \in Seq(Texts(d)) /\ (s # <<>> => Join(B, s) # <<>>)
             /\ \A t \in ToSet(Join(B, s)) : x \in Over(d, t)
        BY <3>7, <3>8, <3>9
      <3> QED BY <3>1, <3>3, <3>10
    <2> QED BY <2>1, <2>2
  <1>3. S = {}
    <2>1. S \in SUBSET Nodes OBVIOUS
    <2>2. ASSUME S # {} PROVE FALSE
      <3>1. S \in (SUBSET Nodes) \ {{}} BY <2>1, <2>2
      <3> HIDE DEF S
      <3>2. PICK x \in S : ToSet(d.kids[x]) \cap S = {} BY <3>1 DEF WellFormed
      <3> QED BY <1>2, <3>2
    <2> QED BY <2>2
  <1>4. Good(n) BY <1>3
  <1> QED BY <1>1, <1>4

-----------------------------------------------------------------------------
(* x stands in s and y there or later.                                     *)
InOrder(s, x, y) == \E i, j \in 1 .. Len(s) : i <= j /\ s[i] = x /\ s[j] = y

(* What is in order in one sequence behind another.                        *)
LEMMA OrderConcat ==
  ASSUME NEW N, NEW a \in Seq(N), NEW b \in Seq(N), NEW x, NEW y
  PROVE  InOrder(a \o b, x, y) <=> InOrder(a, x, y) \/ InOrder(b, x, y) \/ (x \in ToSet(a) /\ y \in ToSet(b))
  <1> DEFINE c == a \o b
  <1>1. c \in Seq(N) /\ Len(c) = Len(a) + Len(b) /\ Len(a) \in Nat /\ Len(b) \in Nat
        /\ \A i \in 1 .. Len(a) + Len(b) : c[i] = IF i <= Len(a) THEN a[i] ELSE b[i - Len(a)]
    BY ConcatProperties, LenProperties
  <1>2. ToSet(a) = {a[i] : i \in 1 .. Len(a)} /\ ToSet(b) = {b[i] : i \in 1 .. Len(b)} BY ToSetIs
  <1> HIDE DEF c
  <1>3. \A i \in 1 .. Len(a) : i \in 1 .. Len(c) /\ c[i] = a[i] BY <1>1
  <1>4. \A i \in 1 .. Len(b) : Len(a) + i \in 1 .. Len(c) /\ c[Len(a) + i] = b[i]
    <2>1. ASSUME NEW i \in 1 .. Len(b) PROVE Len(a) + i \in 1 .. Len(c) /\ c[Len(a) + i] = b[i]
      <3>1. Len(a) + i \in 1 .. Len(a) + Len(b) /\ ~ (Len(a) + i <= Len(a)) /\ (Len(a) + i) - Len(a) = i BY <1>1
      <3> QED BY <1>1, <3>1
    <2> QED BY <2>1
  <1>5. \A i \in 1 .. Len(c) : i > Len(a) => i - Len(a) \in 1 .. Len(b) /\ c[i] = b[i - Len(a)] BY <1>1
  <1>6. \A i \in 1 .. Len(c) : i <= Len(a) => i \in 1 .. Len(a) /\ c[i] = a[i] BY <1>1
  <1>7. InOrder(a, x, y) => InOrder(c, x, y) BY <1>3 DEF InOrder
  <1>8. ASSUME InOrder(b, x, y) PROVE InOrder(c, x, y)
    <2>1. PICK i, j \in 1 .. Len(b) : i <= j /\ b[i] = x /\ b[j] = y BY <1>8 DEF InOrder
    <2>2. Len(a) + i <= Len(a) + j BY <1>1, <2>1
    <2> QED BY <1>4, <2>1, <2>2 DEF InOrder
  <1>9. ASSUME x \in ToSet(a), y \in ToSet(b) PROVE InOrder(c, x, y)
    <2>1. PICK i \in 1 .. Len(a) : a[i] = x BY <1>2, <1>9
    <2>2. PICK j \in 1 .. Len(b) : b[j] = y BY <1>2, <1>9
    <2>3. i <= Len(a) + j BY <1>1, <2>1, <2>2
    <2> QED BY <1>3, <1>4, <2>1, <2>2, <2>3 DEF InOrder
  <1>10. ASSUME InOrder(c, x, y) PROVE InOrder(a, x, y) \/ InOrder(b, x, y) \/ (x \in ToSet(a) /\ y \in ToSet(b))
    <2>1. PICK i, j \in 1 .. Len(c) : i <= j /\ c[i] = x /\ c[j] = y BY <1>10 DEF InOrder
    <2>2. CASE j <= Len(a)
      <3>1. i <= Len(a) BY <1>1, <2>1, <2>2
      <3> QED BY <1>6, <2>1, <2>2, <3>1 DEF InOrder
    <2>3. CASE i > Len(a)
      <3>1. j > Len(a) /\ i - Len(a) <= j - Len(a) BY <1>1, <2>1, <2>3
      <3>2. i - Len(a) \in 1 .. Len(b) /\ b[i - Len(a)] = x /\ j - Len(a) \in 1 .. Len(b) /\ b[j - Len(a)] = y
        BY <1>5, <2>1, <2>3, <3>1
      <3> QED BY <3>1, <3>2 DEF InOrder
    <2>4. CASE i <= Len(a) /\ j > Len(a)
      <3>1. i \in 1 .. Len(a) /\ a[i] = x BY <1>6, <2>1, <2>4
      <3>2. j - Len(a) \in 1 .. Len(b) /\ b[j - Len(a)] = y BY <1>5, <2>1, <2>4
      <3> QED BY <1>2, <3>1, <3>2
    <2>5. i \in Nat /\ j \in Nat BY <1>1, SMT
    <2> QED BY <1>1, <2>2, <2>3, <2>4, <2>5
  <1> QED BY <1>7, <1>8, <1>9, <1>10 DEF c

(* What is last in one sequence behind another.                            *)
LEMMA LastConcat ==
  ASSUME NEW N, NEW a \in Seq(N), NEW b \in Seq(N)
  PROVE  /\ b # <<>> => Last(a \o b) = Last(b) /\ Last(b) \in ToSet(b)
         /\ b = <<>> => a \o b = a
  <1>1. ASSUME b # <<>> PROVE Last(a \o b) = Last(b) /\ Last(b) \in ToSet(b)
    <2> DEFINE c == a \o b
    <2>1. Len(c) = Len(a) + Len(b) /\ Len(a) \in Nat /\ Len(b) \in Nat
          /\ \A i \in 1 .. Len(a) + Len(b) : c[i] = IF i <= Len(a) THEN a[i] ELSE b[i - Len(a)]
      BY ConcatProperties, LenProperties
    <2>2. Len(b) # 0 BY <1>1, EmptySeq
    <2> HIDE DEF c
    <2>3. Len(c) \in 1 .. Len(a) + Len(b) /\ ~ (Len(c) <= Len(a)) /\ Len(c) - Len(a) = Len(b) /\ Len(b) \in 1 .. Len(b) BY <2>1, <2>2
    <2>4. c[Len(c)] = b[Len(b)] BY <2>1, <2>3
    <2>5. b[Len(b)] \in ToSet(b) BY <2>3, ToSetIs
    <2> QED BY <2>4, <2>5 DEF Last, c
  <1>2. b = <<>> => a \o b = a BY ConcatEmptySeq
  <1> QED BY <1>1, <1>2

(* What Replace leaves as it was: the order of what it does not touch, and *)
(* what is last.                                                           *)
LEMMA ReplacedOrder ==
  ASSUME NEW N, NEW s \in Seq(N), Distinct(s), NEW n \in ToSet(s), NEW t \in Seq(N), t # <<>>
  PROVE  /\ \A x, y : x \notin {n} \cup ToSet(t) /\ y \notin {n} \cup ToSet(t)
                      => (InOrder(Replace(s, n, t), x, y) <=> InOrder(s, x, y))
         /\ Last(Replace(s, n, t)) = IF Last(s) = n THEN Last(t) ELSE Last(s)
  <1> DEFINE one == <<n>>
             r == Replace(s, n, t)
  <1>1. PICK pre, suf \in Seq(N) : Stands(s, n, pre, suf) BY Around
  <1>2. one \in Seq(N) /\ ToSet(one) = {n} /\ one # <<>> /\ Last(one) = n
    <2>1. n \in N BY ToSetIs
    <2>2. ToSet(one) = {n} BY OnesAndTwos
    <2> QED BY <2>1, <2>2 DEF Last
  <1> HIDE DEF one
  <1>3. s = (pre \o one) \o suf /\ r = (pre \o t) \o suf BY <1>1 DEF Stands, one
  <1> DEFINE p1 == pre \o one
             p2 == pre \o t
  <1>4. p1 \in Seq(N) /\ p2 \in Seq(N) BY <1>2, ConcatProperties
  <1>5. ToSet(p1) = ToSet(pre) \cup {n} /\ ToSet(p2) = ToSet(pre) \cup ToSet(t) BY <1>2, ToSetConcat
  <1>6. Last(p1) = n /\ Last(p2) = Last(t) BY <1>2, LastConcat
  <1>7. ASSUME NEW x, NEW y, x \notin {n} \cup ToSet(t), y \notin {n} \cup ToSet(t)
        PROVE  InOrder(r, x, y) <=> InOrder(s, x, y)
    <2> DEFINE In == InOrder(pre, x, y) \/ InOrder(suf, x, y) \/ (x \in ToSet(pre) /\ y \in ToSet(suf))
    <2>1. ~ InOrder(one, x, y)
      <3>2. ToSet(one) = {one[i] : i \in 1 .. Len(one)} BY <1>2, ToSetIs
      <3>1. \A i \in 1 .. Len(one) : one[i] \in ToSet(one) BY <3>2
      <3> QED BY <1>2, <1>7, <3>1 DEF InOrder
    <2>2. ~ InOrder(t, x, y)
      <3>1. \A i \in 1 .. Len(t) : t[i] \in ToSet(t) BY ToSetIs
      <3> QED BY <1>7, <3>1 DEF InOrder
    <2>3. InOrder(p1, x, y) <=> InOrder(pre, x, y)
      <3>1. InOrder(p1, x, y) <=> InOrder(pre, x, y) \/ InOrder(one, x, y) \/ (x \in ToSet(pre) /\ y \in ToSet(one)) BY <1>2, OrderConcat
      <3> QED BY <3>1, <2>1, <1>2, <1>7
    <2>4. InOrder(p2, x, y) <=> InOrder(pre, x, y)
      <3>1. InOrder(p2, x, y) <=> InOrder(pre, x, y) \/ InOrder(t, x, y) \/ (x \in ToSet(pre) /\ y \in ToSet(t)) BY OrderConcat
      <3> QED BY <3>1, <2>2, <1>7
    <2> HIDE DEF p1, p2
    <2>5. InOrder(p1 \o suf, x, y) <=> InOrder(p1, x, y) \/ InOrder(suf, x, y) \/ (x \in ToSet(p1) /\ y \in ToSet(suf)) BY <1>4, OrderConcat
    <2>6. InOrder(p2 \o suf, x, y) <=> InOrder(p2, x, y) \/ InOrder(suf, x, y) \/ (x \in ToSet(p2) /\ y \in ToSet(suf)) BY <1>4, OrderConcat
    <2>7. InOrder(p1 \o suf, x, y) <=> In BY <2>3, <2>5, <1>5, <1>7
    <2>8. InOrder(p2 \o suf, x, y) <=> In BY <2>4, <2>6, <1>5, <1>7
    <2> QED BY <2>7, <2>8, <1>3 DEF p1, p2
  <1>8. Last(r) = IF Last(s) = n THEN Last(t) ELSE Last(s)
    <2>0. Distinct(p1 \o suf) BY <1>3
    <2> HIDE DEF p1, p2
    <2>1. CASE suf = <<>>
      <3>1. p1 \o suf = p1 /\ p2 \o suf = p2 BY <1>4, <2>1, LastConcat
      <3> QED BY <3>1, <1>3, <1>6 DEF p1, p2
    <2>2. CASE suf # <<>>
      <3>1. Last(p1 \o suf) = Last(suf) /\ Last(p2 \o suf) = Last(suf) /\ Last(suf) \in ToSet(suf) BY <1>4, <2>2, LastConcat
      <3>2. ToSet(p1) \cap ToSet(suf) = {} BY <2>0, <1>4, DistinctConcat
      <3>3. Last(suf) # n BY <3>1, <3>2, <1>5
      <3> QED BY <3>1, <3>3, <1>3 DEF p1, p2
    <2> QED BY <2>1, <2>2
  <1> QED BY <1>7, <1>8

-----------------------------------------------------------------------------
(* What a page keeps besides its text: its elements, where they are and    *)
(* in which order.                                                         *)

(* No element is called like a highlight or is in one, and where the last  *)
(* child is a text, that text is not empty.                                *)
Decent(d) ==
  /\ \A x \in Nodes : d.kind[x] = "highlight" => d.tag[x] = "span"
  /\ \A x \in Nodes : d.kind[x] = "element" => d.tag[x] # "span" /\ (d.up[x] # None => d.kind[d.up[x]] = "element")
  /\ \A u \in Elements(d) : d.kind[Last(d.kids[u])] = "text" => d.chars[Last(d.kids[u])] # <<>>

(* The elements of d are those of e, with their names and parents, and in  *)
(* the same order.                                                         *)
Shape(d, e) ==
  /\ \A x \in Nodes : d.kind[x] = "element" <=> e.kind[x] = "element"
  /\ \A x \in Nodes : d.kind[x] = "element" => e.tag[x] = d.tag[x] /\ e.up[x] = d.up[x]
  /\ \A x, y, u \in Nodes : d.kind[x] = "element" /\ d.kind[y] = "element"
                           => (InOrder(e.kids[u], x, y) <=> InOrder(d.kids[u], x, y))

(* A change that keeps a page as it should be, and its shape.              *)
Shaped(d, e) == Decent(d) => Decent(e) /\ Shape(d, e)

(* The last element of a sequence is one of it.                            *)
LEMMA LastIn ==
  ASSUME NEW N, NEW s \in Seq(N), s # <<>>
  PROVE  Last(s) \in ToSet(s) /\ Last(s) \in N
  <1>1. Len(s) \in Nat /\ Len(s) # 0 BY LenProperties, EmptySeq
  <1>2. Len(s) \in 1 .. Len(s) BY <1>1
  <1> QED BY <1>2, ToSetIs DEF Last

(* Splitting a text leaves an empty text before another only.              *)
LEMMA SplitShapes ==
  ASSUME NEW d, WellFormed(d), NEW n \in Texts(d), NEW k \in 0 .. Length(d, n) - 1, Free(d) # {}
  PROVE  Shaped(d, Split(d, n, k))
  <1> DEFINE e == Split(d, n, k)
             m == Fresh(d)
             u == d.up[n]
             t == <<n, m>>
             s == d.kids[u]
             right == SubSeq(d.chars[n], k + 1, Length(d, n))
  <1>1. WellFormed(e) /\ SplitInto(d, e, n, k)
    <2>1. Length(d, n) \in Nat BY TextNode, LenProperties DEF Length
    <2>2. k \in 0 .. Length(d, n) BY <2>1
    <2> QED BY <2>2, SplitKeeps
  <1> HIDE DEF e
  <1>2. /\ m \in Nodes /\ m # n /\ m # u /\ d.kind[m] = "free"
        /\ \A x \in Nodes : /\ e.kind[x] = IF x = m THEN "text" ELSE d.kind[x]
                            /\ e.tag[x] = d.tag[x]
                            /\ e.up[x] = IF x = m THEN u ELSE d.up[x]
                            /\ e.kids[x] = IF x = u THEN Replace(s, n, t) ELSE d.kids[x]
                            /\ x # n /\ x # m => e.chars[x] = d.chars[x]
                            /\ x = m => e.chars[x] = right
    BY <1>1 DEF SplitInto
  <1>3. n \in Nodes /\ d.kind[n] = "text" /\ d.kids[n] = <<>> /\ u # None /\ d.chars[n] \in Seq(Nat) BY TextNode
  <1>4. u \in Elements(d) /\ u # n /\ n \in ToSet(s) /\ s \in Seq(Nodes) /\ Distinct(s) BY <1>3, Parent
  <1>5. t \in Seq(Nodes) /\ t # <<>> /\ Last(t) = m /\ ToSet(t) = {n, m}
    <2>1. t \in Seq(Nodes) /\ t # <<>> BY <1>2, <1>3
    <2>2. Last(t) = m BY DEF Last
    <2> QED BY <2>1, <2>2, OnesAndTwos
  <1>6. right # <<>>
    <2> DEFINE c == d.chars[n]
    <2>1. Len(c) \in Nat /\ k \in 0 .. Len(c) - 1 /\ \A i \in 1 .. Len(c) : c[i] \in Nat
      BY <1>3, LenProperties, ElementOfSeq DEF Length
    <2> HIDE DEF c
    <2>2. \A i \in k + 1 .. Len(c) : c[i] \in Nat BY <2>1
    <2>3. Len(SubSeq(c, k + 1, Len(c))) = IF k + 1 <= Len(c) THEN Len(c) - (k + 1) + 1 ELSE 0 BY <2>1, <2>2, SubSeqProperties
    <2>4. Len(SubSeq(c, k + 1, Len(c))) # 0 BY <2>1, <2>3
    <2>5. Len(<<>>) = 0 OBVIOUS
    <2>6. SubSeq(c, k + 1, Len(c)) # <<>> BY <2>4, <2>5
    <2> QED BY <2>6 DEF c, Length
  <1>7. d.kids \in [Nodes -> Seq(Nodes)] /\ d.up \in [Nodes -> Nodes \cup {None}] BY Typed DEF WellFormed
  <1> HIDE DEF m, t, right
  <1>8. /\ \A x, y : x \notin {n} \cup ToSet(t) /\ y \notin {n} \cup ToSet(t)
                    => (InOrder(Replace(s, n, t), x, y) <=> InOrder(s, x, y))
        /\ Last(Replace(s, n, t)) = IF Last(s) = n THEN Last(t) ELSE Last(s)
    <2> HIDE DEF s
    <2> QED BY <1>4, <1>5, ReplacedOrder
  <1>9. ASSUME Decent(d) PROVE Shape(d, e)
    <2>1. \A x \in Nodes : d.kind[x] = "element" => x # n /\ x # m BY <1>2, <1>3
    <2>2. \A x \in Nodes : d.kind[x] = "element" <=> e.kind[x] = "element" BY <1>2
    <2>3. \A x \in Nodes : d.kind[x] = "element" => e.tag[x] = d.tag[x] /\ e.up[x] = d.up[x] BY <1>2, <2>1
    <2>4. ASSUME NEW x \in Nodes, NEW y \in Nodes, NEW v \in Nodes, d.kind[x] = "element", d.kind[y] = "element"
          PROVE  InOrder(e.kids[v], x, y) <=> InOrder(d.kids[v], x, y)
      <3>1. x \notin {n} \cup ToSet(t) /\ y \notin {n} \cup ToSet(t) BY <1>5, <2>1, <2>4
      <3> QED BY <1>2, <1>8, <3>1
    <2> QED BY <2>2, <2>3, <2>4 DEF Shape
  <1>10. ASSUME Decent(d) PROVE Decent(e)
    <2>1. \A x \in Nodes : e.kind[x] = "highlight" => e.tag[x] = "span" BY <1>2, <1>10 DEF Decent
    <2>2. ASSUME NEW x \in Nodes, e.kind[x] = "element"
          PROVE  e.tag[x] # "span" /\ (e.up[x] # None => e.kind[e.up[x]] = "element")
      <3>1. d.kind[x] = "element" /\ x # m BY <1>2, <2>2
      <3>2. e.tag[x] = d.tag[x] /\ e.up[x] = d.up[x] BY <1>2, <3>1
      <3>3. d.up[x] # None => d.up[x] \in Nodes /\ d.kind[d.up[x]] = "element" BY <1>7, <1>10, <3>1 DEF Decent
      <3> QED BY <1>2, <1>10, <3>1, <3>2, <3>3 DEF Decent
    <2>3. ASSUME NEW v \in Elements(e) PROVE e.kind[Last(e.kids[v])] = "text" => e.chars[Last(e.kids[v])] # <<>>
      <3>1. v \in Elements(d) /\ v \in Nodes BY <1>2 DEF Elements
      <3>2. d.kids[v] \in Seq(Nodes) /\ d.kids[v] # <<>> BY <1>7, <3>1 DEF WellFormed, Elements
      <3>3. Last(d.kids[v]) \in ToSet(d.kids[v]) /\ Last(d.kids[v]) \in Nodes BY <3>2, LastIn
      <3> DEFINE l == Last(d.kids[v])
      <3>4. d.up[l] = v /\ d.kind[l] # "free" BY <3>1, <3>3, OneParent
      <3>5. d.kind[l] = "text" => d.chars[l] # <<>> BY <1>10, <3>1 DEF Decent
      <3> HIDE DEF l
      <3>6. CASE l = n
        <4>1. v = u BY <3>4, <3>6
        <4>2. Last(e.kids[v]) = m BY <1>2, <1>5, <1>8, <3>1, <3>6, <4>1 DEF l
        <4> QED BY <1>2, <1>6, <4>2
      <3>7. CASE l # n
        <4>1. Last(e.kids[v]) = l BY <1>2, <1>8, <3>1, <3>7 DEF l
        <4>2. l \in Nodes /\ l # m BY <1>2, <3>3, <3>4 DEF l
        <4> QED BY <1>2, <3>5, <3>7, <4>1, <4>2
      <3> QED BY <3>6, <3>7
    <2> QED BY <2>1, <2>2, <2>3 DEF Decent
  <1> QED BY <1>9, <1>10 DEF Shaped, e

(* Putting a text into a highlight, and taking a highlight out, moves no   *)
(* element.                                                                *)
LEMMA WrapShapes ==
  ASSUME NEW d, WellFormed(d), NEW n \in Texts(d), d.chars[n] # <<>>, Free(d) # {}
  PROVE  Shaped(d, Wrap(d, n))
  <1> DEFINE e == Wrap(d, n)
             h == Fresh(d)
             u == d.up[n]
             t == <<h>>
             s == d.kids[u]
  <1>1. WellFormed(e) /\ WrappedIn(d, e, n) BY WrapKeeps
  <1> HIDE DEF e
  <1>2. /\ h \in Nodes /\ h # n /\ h # u /\ d.kind[h] = "free"
        /\ \A x \in Nodes : /\ e.kind[x] = IF x = h THEN "highlight" ELSE d.kind[x]
                            /\ e.tag[x] = IF x = h THEN "span" ELSE d.tag[x]
                            /\ e.up[x] = IF x = n THEN h ELSE IF x = h THEN u ELSE d.up[x]
                            /\ e.kids[x] = IF x = u THEN Replace(s, n, t) ELSE IF x = h THEN <<n>> ELSE d.kids[x]
                            /\ e.chars[x] = d.chars[x]
    BY <1>1 DEF WrappedIn
  <1>3. n \in Nodes /\ d.kind[n] = "text" /\ d.kids[n] = <<>> /\ u # None /\ d.chars[n] \in Seq(Nat) BY TextNode
  <1>4. u \in Elements(d) /\ u # n /\ n \in ToSet(s) /\ s \in Seq(Nodes) /\ Distinct(s) BY <1>3, Parent
  <1>5. t \in Seq(Nodes) /\ t # <<>> /\ Last(t) = h /\ ToSet(t) = {h}
    <2>1. t \in Seq(Nodes) /\ t # <<>> BY <1>2, <1>3
    <2>2. Last(t) = h BY DEF Last
    <2> QED BY <2>1, <2>2, OnesAndTwos
  <1>6. \A x, y : InOrder(<<n>>, x, y) => x = n /\ y = n BY DEF InOrder
  <1>7. d.kids \in [Nodes -> Seq(Nodes)] /\ d.up \in [Nodes -> Nodes \cup {None}] BY Typed DEF WellFormed
  <1>12. d.kids[h] = <<>> BY <1>2 DEF WellFormed
  <1>13. \A x, y : ~ InOrder(<<>>, x, y) BY DEF InOrder
  <1>14. Last(<<n>>) = n BY DEF Last
  <1> DEFINE one == <<n>>
  <1> HIDE DEF h, t, one
  <1>8. /\ \A x, y : x \notin {n} \cup ToSet(t) /\ y \notin {n} \cup ToSet(t)
                    => (InOrder(Replace(s, n, t), x, y) <=> InOrder(s, x, y))
        /\ Last(Replace(s, n, t)) = IF Last(s) = n THEN Last(t) ELSE Last(s)
    <2> HIDE DEF s
    <2> QED BY <1>4, <1>5, ReplacedOrder
  <1>9. ASSUME Decent(d) PROVE Shape(d, e)
    <2>1. \A x \in Nodes : d.kind[x] = "element" => x # n /\ x # h BY <1>2, <1>3
    <2>2. \A x \in Nodes : d.kind[x] = "element" <=> e.kind[x] = "element" BY <1>2
    <2>3. \A x \in Nodes : d.kind[x] = "element" => e.tag[x] = d.tag[x] /\ e.up[x] = d.up[x] BY <1>2, <2>1
    <2>4. ASSUME NEW x \in Nodes, NEW y \in Nodes, NEW v \in Nodes, d.kind[x] = "element", d.kind[y] = "element"
          PROVE  InOrder(e.kids[v], x, y) <=> InOrder(d.kids[v], x, y)
      <3>1. x \notin {n} \cup ToSet(t) /\ y \notin {n} \cup ToSet(t) BY <1>5, <2>1, <2>4
      <3>2. CASE v = u BY <1>2, <1>8, <3>1, <3>2
      <3>3. CASE v = h
        <4>1. e.kids[v] = one /\ d.kids[v] = <<>> BY <1>2, <1>12, <3>3 DEF one
        <4>2. ~ InOrder(one, x, y) BY <1>6, <3>1 DEF one
        <4> QED BY <1>13, <4>1, <4>2
      <3>4. CASE v # u /\ v # h
        <4>1. e.kids[v] = d.kids[v] BY <1>2, <3>4
        <4> QED BY <4>1
      <3> QED BY <3>2, <3>3, <3>4
    <2> QED BY <2>2, <2>3, <2>4 DEF Shape
  <1>10. ASSUME Decent(d) PROVE Decent(e)
    <2>1. \A x \in Nodes : e.kind[x] = "highlight" => e.tag[x] = "span" BY <1>2, <1>10 DEF Decent
    <2>2. ASSUME NEW x \in Nodes, e.kind[x] = "element"
          PROVE  e.tag[x] # "span" /\ (e.up[x] # None => e.kind[e.up[x]] = "element")
      <3>1. d.kind[x] = "element" /\ x # h /\ x # n BY <1>2, <1>3, <2>2
      <3>2. e.tag[x] = d.tag[x] /\ e.up[x] = d.up[x] BY <1>2, <3>1
      <3>3. d.up[x] # None => d.up[x] \in Nodes /\ d.kind[d.up[x]] = "element" BY <1>7, <1>10, <3>1 DEF Decent
      <3> QED BY <1>2, <1>10, <3>1, <3>2, <3>3 DEF Decent
    <2>3. ASSUME NEW v \in Elements(e) PROVE e.kind[Last(e.kids[v])] = "text" => e.chars[Last(e.kids[v])] # <<>>
      <3>1. CASE v = h
        <4>1. e.kids[v] = one /\ Last(one) = n BY <1>2, <1>14, <3>1 DEF one
        <4> QED BY <1>2, <1>3, <4>1
      <3>2. CASE v # h
        <4>1. v \in Elements(d) /\ v \in Nodes BY <1>2, <3>2 DEF Elements
        <4>2. d.kids[v] \in Seq(Nodes) /\ d.kids[v] # <<>> BY <1>7, <4>1 DEF WellFormed, Elements
        <4>3. Last(d.kids[v]) \in ToSet(d.kids[v]) /\ Last(d.kids[v]) \in Nodes BY <4>2, LastIn
        <4> DEFINE l == Last(d.kids[v])
        <4>4. d.up[l] = v /\ d.kind[l] # "free" BY <4>1, <4>3, OneParent
        <4>5. d.kind[l] = "text" => d.chars[l] # <<>> BY <1>10, <4>1 DEF Decent
        <4> HIDE DEF l
        <4>6. CASE l = n
          <5>1. v = u BY <4>4, <4>6
          <5>2. Last(e.kids[v]) = h BY <1>2, <1>5, <1>8, <4>1, <4>6, <5>1 DEF l
          <5> QED BY <1>2, <5>2
        <4>7. CASE l # n
          <5>1. Last(e.kids[v]) = l BY <1>2, <1>8, <3>2, <4>1, <4>7 DEF l
          <5>2. l \in Nodes /\ l # h BY <1>2, <4>3, <4>4 DEF l
          <5> QED BY <1>2, <4>5, <4>7, <5>1, <5>2
        <4> QED BY <4>6, <4>7
      <3> QED BY <3>1, <3>2
    <2> QED BY <2>1, <2>2, <2>3 DEF Decent
  <1> QED BY <1>9, <1>10 DEF Shaped, e

(* (A highlight that is taken out has children, so the last child stays    *)
(* one that is not empty.)                                                 *)
LEMMA UnwrapShapes ==
  ASSUME NEW d, WellFormed(d), NEW h \in Highlights(d)
  PROVE  Shaped(d, Unwrap(d, h))
  <1> DEFINE e == Unwrap(d, h)
             u == d.up[h]
             t == d.kids[h]
             s == d.kids[u]
  <1>1. WellFormed(e) /\ TakenFrom(d, e, h) BY UnwrapKeeps
  <1> HIDE DEF e
  <1>2. \A x \in Nodes : /\ e.kind[x] = IF x = h THEN "free" ELSE d.kind[x]
                         /\ e.tag[x] = IF x = h THEN "div" ELSE d.tag[x]
                         /\ e.up[x] = IF x = h THEN None ELSE IF d.up[x] = h THEN u ELSE d.up[x]
                         /\ e.kids[x] = IF x = h THEN <<>> ELSE IF x = u THEN Replace(s, h, t) ELSE d.kids[x]
                         /\ e.chars[x] = d.chars[x]
    BY <1>1 DEF TakenFrom
  <1>3. h \in Nodes /\ d.kind[h] = "highlight" /\ u # None
    <2>1. h \in Nodes /\ d.kind[h] = "highlight" BY DEF Highlights
    <2>2. h # Body BY <2>1 DEF WellFormed
    <2> QED BY <2>1, <2>2 DEF WellFormed
  <1>4. u \in Elements(d) /\ u # h /\ h \in ToSet(s) /\ s \in Seq(Nodes) /\ Distinct(s) BY <1>3, Parent
  <1>7. d.kids \in [Nodes -> Seq(Nodes)] /\ d.up \in [Nodes -> Nodes \cup {None}] BY Typed DEF WellFormed
  <1>5. t \in Seq(Nodes) /\ t # <<>> BY <1>3, <1>7 DEF WellFormed
  <1>6. \A y \in ToSet(t) : y \in Nodes /\ d.up[y] = h /\ d.kind[y] # "free" /\ y # h BY <1>3, OneParent
  <1>13. \A x, y : ~ InOrder(<<>>, x, y) BY DEF InOrder
  <1>14. \A x, y : InOrder(t, x, y) => x \in ToSet(t)
    <2>1. ToSet(t) = {t[i] : i \in 1 .. Len(t)} BY <1>5, ToSetIs
    <2> HIDE DEF t
    <2> QED BY <2>1 DEF InOrder
  <1> HIDE DEF t
  <1>8. /\ \A x, y : x \notin {h} \cup ToSet(t) /\ y \notin {h} \cup ToSet(t)
                    => (InOrder(Replace(s, h, t), x, y) <=> InOrder(s, x, y))
        /\ Last(Replace(s, h, t)) = IF Last(s) = h THEN Last(t) ELSE Last(s)
    <2> HIDE DEF s
    <2> QED BY <1>4, <1>5, ReplacedOrder
  <1>9. ASSUME Decent(d) PROVE \A x \in Nodes : d.kind[x] = "element" => x # h /\ d.up[x] # h /\ x \notin ToSet(t)
    <2>1. ASSUME NEW x \in Nodes, d.kind[x] = "element", d.up[x] = h PROVE FALSE
      <3>1. h # None BY <1>3, NodesAssumption
      <3> QED BY <1>3, <1>9, <2>1, <3>1 DEF Decent
    <2> QED BY <1>3, <1>6, <2>1
  <1>10. ASSUME Decent(d) PROVE Shape(d, e)
    <2>2. \A x \in Nodes : d.kind[x] = "element" <=> e.kind[x] = "element" BY <1>2, <1>3
    <2>3. \A x \in Nodes : d.kind[x] = "element" => e.tag[x] = d.tag[x] /\ e.up[x] = d.up[x] BY <1>2, <1>9, <1>10
    <2>4. ASSUME NEW x \in Nodes, NEW y \in Nodes, NEW v \in Nodes, d.kind[x] = "element", d.kind[y] = "element"
          PROVE  InOrder(e.kids[v], x, y) <=> InOrder(d.kids[v], x, y)
      <3>1. x \notin {h} \cup ToSet(t) /\ y \notin {h} \cup ToSet(t) BY <1>9, <1>10, <2>4
      <3>2. CASE v = u BY <1>2, <1>4, <1>8, <3>1, <3>2
      <3>3. CASE v = h
        <4>1. e.kids[v] = <<>> /\ d.kids[v] = t BY <1>2, <3>3 DEF t
        <4>2. ~ InOrder(t, x, y) BY <1>14, <3>1
        <4> QED BY <1>13, <4>1, <4>2
      <3>4. CASE v # u /\ v # h
        <4>1. e.kids[v] = d.kids[v] BY <1>2, <3>4
        <4> QED BY <4>1
      <3> QED BY <3>2, <3>3, <3>4
    <2> QED BY <2>2, <2>3, <2>4 DEF Shape
  <1>11. ASSUME Decent(d) PROVE Decent(e)
    <2>1. \A x \in Nodes : e.kind[x] = "highlight" => e.tag[x] = "span" BY <1>2, <1>11 DEF Decent
    <2>2. ASSUME NEW x \in Nodes, e.kind[x] = "element"
          PROVE  e.tag[x] # "span" /\ (e.up[x] # None => e.kind[e.up[x]] = "element")
      <3>1. d.kind[x] = "element" /\ x # h /\ d.up[x] # h BY <1>2, <1>9, <1>11, <2>2
      <3>2. e.tag[x] = d.tag[x] /\ e.up[x] = d.up[x] BY <1>2, <3>1
      <3>3. d.up[x] # None => d.up[x] \in Nodes /\ d.kind[d.up[x]] = "element" BY <1>7, <1>11, <3>1 DEF Decent
      <3> QED BY <1>2, <1>11, <3>1, <3>2, <3>3 DEF Decent
    <2>3. ASSUME NEW v \in Elements(e) PROVE e.kind[Last(e.kids[v])] = "text" => e.chars[Last(e.kids[v])] # <<>>
      <3>1. v # h /\ v \in Elements(d) /\ v \in Nodes
        <4>1. v \in Nodes /\ e.kind[v] \in {"element", "highlight"} BY DEF Elements
        <4>2. v # h BY <1>2, <4>1
        <4> QED BY <1>2, <4>1, <4>2 DEF Elements
      <3>2. d.kids[v] \in Seq(Nodes) /\ d.kids[v] # <<>> BY <1>7, <3>1 DEF WellFormed, Elements
      <3>3. Last(d.kids[v]) \in ToSet(d.kids[v]) /\ Last(d.kids[v]) \in Nodes BY <3>2, LastIn
      <3> DEFINE l == Last(d.kids[v])
      <3>4. d.up[l] = v /\ d.kind[l] # "free" BY <3>1, <3>3, OneParent
      <3>5. d.kind[l] = "text" => d.chars[l] # <<>> BY <1>11, <3>1 DEF Decent
      <3>6. CASE l = h
        <4>1. v = u BY <3>4, <3>6
        <4>2. Last(e.kids[v]) = Last(t) BY <1>2, <1>8, <3>1, <3>6, <4>1
        <4>3. Last(t) \in Nodes /\ Last(t) # h BY <1>5, <1>6, LastIn
        <4>4. h \in Elements(d) BY <1>3 DEF Elements
        <4>5. d.kind[Last(t)] = "text" => d.chars[Last(t)] # <<>> BY <1>11, <4>4 DEF Decent, t
        <4> QED BY <1>2, <4>2, <4>3, <4>5
      <3>7. CASE l # h
        <4>1. Last(e.kids[v]) = l BY <1>2, <1>8, <3>1, <3>7
        <4>2. l \in Nodes BY <3>3
        <4> HIDE DEF l
        <4> QED BY <1>2, <3>5, <3>7, <4>1, <4>2
      <3> QED BY <3>6, <3>7
    <2> QED BY <2>1, <2>2, <2>3 DEF Decent
  <1> QED BY <1>10, <1>11 DEF Shaped, e

(* A page is of its own shape, and is shaped by one change after another.  *)
LEMMA ShapedItself ==
  ASSUME NEW d
  PROVE  Shaped(d, d)
  BY DEF Shaped, Shape

(* Shapes are kept by one change after the other.                          *)
LEMMA ShapedOn ==
  ASSUME NEW d, NEW e, NEW f, Shaped(d, e), Shaped(e, f)
  PROVE  Shaped(d, f)
  <1>1. ASSUME Shape(d, e), Shape(e, f) PROVE Shape(d, f) BY <1>1 DEF Shape
  <1> QED BY <1>1 DEF Shaped

-----------------------------------------------------------------------------
(* Ranges that are found.                                                  *)

(* What splitting texts leaves of a page.                                  *)
Kept(d, e) == WellFormed(e) /\ Unchanged(d, e, Elements(d)) /\ Free(e) \subseteq Free(d) /\ Shaped(d, e)

(* A page that is left alone is kept,                                      *)
LEMMA KeptItself ==
  ASSUME NEW d, WellFormed(d)
  PROVE  Kept(d, d)
  BY ShapedItself DEF Kept, Unchanged, Same

(* keeps its elements and highlights,                                      *)
LEMMA KeptElements ==
  ASSUME NEW d, NEW e, Kept(d, e)
  PROVE  Elements(d) \subseteq Elements(e) /\ Highlights(d) \subseteq Highlights(e)
  BY DEF Kept, Unchanged, Elements, Highlights

(* and is kept by one change after another.                                *)
LEMMA KeptOn ==
  ASSUME NEW d, NEW e, NEW f, Kept(d, e), Kept(e, f)
  PROVE  Kept(d, f)
  <1>1. Elements(d) \subseteq Elements(e) BY KeptElements
  <1>2. Shaped(d, f) BY ShapedOn DEF Kept
  <1> QED BY <1>1, <1>2 DEF Kept, Unchanged, Same

(* The free nodes are finitely many; if there is room for one there is     *)
(* one.                                                                    *)
LEMMA FreeIsFinite ==
  ASSUME NEW d
  PROVE  IsFiniteSet(Free(d)) /\ Cardinality(Free(d)) \in Nat /\ (Room(d, 1) => Free(d) # {})
  <1>1. Free(d) \in SUBSET Nodes /\ IsFiniteSet(Nodes) BY NodesAssumption DEF Free
  <1>2. IsFiniteSet(Free(d)) /\ Cardinality(Free(d)) \in Nat BY <1>1, FS_Subset, FS_CardinalityType
  <1>3. ASSUME Free(d) = {} PROVE Cardinality(Free(d)) = 0 BY <1>3, FS_EmptySet
  <1> QED BY <1>2, <1>3 DEF Room

(* A node that is taken leaves room for one less.                          *)
LEMMA RoomLess ==
  ASSUME NEW d, NEW e, NEW m \in Free(d), Free(e) = Free(d) \ {m}, NEW k \in Nat, Room(d, k + 1)
  PROVE  Room(e, k)
  <1>1. IsFiniteSet(Free(d)) /\ Cardinality(Free(d)) \in Nat BY FreeIsFinite
  <1>2. Cardinality(Free(e)) = Cardinality(Free(d)) - 1 BY <1>1, FS_RemoveElement
  <1> QED BY <1>1, <1>2 DEF Room

(* splitText where the code calls it, between the characters of a text or  *)
(* not at all.                                                             *)
LEMMA SplitAtKeeps ==
  ASSUME NEW d, WellFormed(d), NEW n, NEW k, Room(d, 1)
  PROVE  Kept(d, SplitAt(d, n, k)) /\ (Room(d, 2) => Room(SplitAt(d, n, k), 1))
  <1>1. Free(d) # {} BY FreeIsFinite
  <1>2. CASE n \in Texts(d) /\ k \in 0 .. Length(d, n) - 1
    <2>1. SplitAt(d, n, k) = Split(d, n, k) BY <1>2 DEF SplitAt
    <2>2. k \in 0 .. Length(d, n)
      <3>1. Length(d, n) \in Nat BY <1>2, TextNode, LenProperties DEF Length
      <3> QED BY <3>1, <1>2
    <2> DEFINE e == Split(d, n, k)
    <2>3. WellFormed(e) /\ Free(e) = Free(d) \ {Fresh(d)} /\ Unchanged(d, e, Elements(d)) BY <1>1, <1>2, <2>2, SplitKeeps
    <2>4. Fresh(d) \in Free(d) BY <1>1, FreshIsFree
    <2>6. Shaped(d, e) BY <1>1, <1>2, SplitShapes
    <2> HIDE DEF e
    <2>5. Room(d, 1 + 1) => Room(e, 1) BY <2>3, <2>4, RoomLess
    <2> QED BY <2>1, <2>3, <2>5, <2>6 DEF Kept, e
  <1>3. CASE ~ (n \in Texts(d) /\ k \in 0 .. Length(d, n) - 1)
    <2>1. SplitAt(d, n, k) = d BY <1>3 DEF SplitAt
    <2>2. Room(d, 2) => Room(d, 1) BY FreeIsFinite DEF Room
    <2> QED BY <2>1, <2>2, KeptItself
  <1> QED BY <1>2, <1>3

(* normalize, whatever it is given: two texts are split at most, so there  *)
(* must be room for two.                                                   *)
LEMMA NormalizeKeeps ==
  ASSUME NEW d, WellFormed(d), Room(d, 2), NEW s, NEW e, NEW c
  PROVE  /\ Kept(d, Normalize(d, s, e, c).doc)
         /\ Normalize(d, s, e, c).common = c
         /\ Normalize(d, s, e, c).start # None /\ e.node # None => Normalize(d, s, e, c).end # None
  <1> DEFINE d1    == IF s.at > 0 THEN SplitAt(d, s.node, s.at) ELSE d
             first == IF s.at > 0 THEN NextSibling(d1, s.node) ELSE s.node
             same  == s.node = e.node
             d2    == IF same THEN SplitAt(d1, first, e.at - s.at) ELSE SplitAt(d1, e.node, e.at)
  <1>1. Room(d, 1) BY FreeIsFinite DEF Room
  <1>2. Kept(d, d1) /\ Room(d1, 1)
    <2>1. Kept(d, d) BY KeptItself
    <2>2. Kept(d, SplitAt(d, s.node, s.at)) /\ Room(SplitAt(d, s.node, s.at), 1) BY <1>1, SplitAtKeeps
    <2> QED BY <1>1, <2>1, <2>2
  <1>3. WellFormed(d1) BY <1>2 DEF Kept
  <1>4. Kept(d1, d2)
    <2> HIDE DEF d1, first
    <2>1. Kept(d1, SplitAt(d1, first, e.at - s.at)) BY <1>2, <1>3, SplitAtKeeps
    <2>2. Kept(d1, SplitAt(d1, e.node, e.at)) BY <1>2, <1>3, SplitAtKeeps
    <2> QED BY <2>1, <2>2
  <1>5. Kept(d, d2)
    <2> HIDE DEF d1, d2
    <2> QED BY <1>2, <1>4, KeptOn
  <1>6. Normalize(d, s, e, c) = [doc |-> d2, start |-> IF same /\ e.at < s.at THEN None ELSE first,
                                 end |-> IF same THEN first ELSE e.node, common |-> c]
    BY DEF Normalize
  <1> HIDE DEF d1, d2, first, same
  <1> QED BY <1>5, <1>6

(* The least of some numbers is one of them.                               *)
LEMMA MinIs ==
  ASSUME NEW S, S \subseteq Nat, S # {}
  PROVE  Min(S) \in S
  <1>1. PICK k \in S : \A j \in S : k <= j BY Least
  <1>2. \E x \in S : \A y \in S : x =< y BY <1>1
  <1> QED BY <1>2 DEF Min

(* What a path leads to is the annotated element or inside it, and no      *)
(* text.                                                                   *)
LEMMA NodeAtIs ==
  ASSUME NEW d, WellFormed(d), NEW path, NodeAt(d, path) # None
  PROVE  /\ NodeAt(d, path) \in Nodes /\ d.kind[NodeAt(d, path)] # "text"
         /\ (NodeAt(d, path) = Root \/ Root \in Over(d, NodeAt(d, path)))
  <1> DEFINE found == {n \in InUse(d) \ Texts(d) : (n = Root \/ Inside(d, n, Root)) /\ PathTo(d, n) = path}
             n == NodeAt(d, path)
  <1>1. n = IF found = {} THEN None ELSE CHOOSE x \in found : TRUE BY DEF NodeAt
  <1> HIDE DEF n
  <1>2. n \in found BY <1>1 DEF n
  <1>3. n \in Nodes /\ d.kind[n] # "text" /\ (n = Root \/ Inside(d, n, Root)) BY <1>2 DEF InUse, Texts
  <1>4. Inside(d, n, Root) <=> Root \in Over(d, n) BY <1>3, OverIs
  <1> QED BY <1>3, <1>4 DEF n

(* A place that is found is in a text below the annotated element, never   *)
(* directly in the outermost one.                                          *)
LEMMA PointIs ==
  ASSUME NEW d, WellFormed(d), NEW p, NEW isEnd, PointAt(d, p, isEnd) # NoPoint
  PROVE  /\ PointAt(d, p, isEnd).node \in Texts(d)
         /\ d.up[PointAt(d, p, isEnd).node] \in Elements(d) \ {Body}
  <1> DEFINE E == NodeAt(d, p.path)
             ns == TextNodes(d, E)
             before(i) == Len(TextOf(d, SubSeq(ns, 1, i - 1)))
             found == {i \in DOMAIN ns : before(i) + Length(d, ns[i]) > IF isEnd THEN p.offset - 1 ELSE p.offset}
             t == PointAt(d, p, isEnd).node
  <1>1. PointAt(d, p, isEnd) = IF E = None THEN NoPoint
                               ELSE IF found = {} THEN NoPoint
                               ELSE [node |-> ns[Min(found)], at |-> p.offset - before(Min(found))]
    BY DEF PointAt, PointIn
  <1>2. E # None /\ found # {} /\ found \subseteq DOMAIN ns
    <2> HIDE DEF E, ns, before
    <2> QED BY <1>1
  <1>3. t = ns[Min(found)]
    <2> HIDE DEF E, ns, found, before
    <2> QED BY <1>1, <1>2
  <1> HIDE DEF found, t
  <1>5. E \in Nodes /\ d.kind[E] # "text" /\ (E = Root \/ Root \in Over(d, E)) BY <1>2, NodeAtIs
  <1>6. ns = TextNodes(d, E) OBVIOUS
  <1> HIDE DEF E, ns
  <1>7. ns \in Seq(Texts(d)) /\ \A x \in ToSet(ns) : x = E \/ E \in Over(d, x) BY <1>5, <1>6, TextsBelow
  <1>8. DOMAIN ns = 1 .. Len(ns) /\ Len(ns) \in Nat BY <1>7, LenProperties
  <1>9. Min(found) \in found
    <2>1. found \subseteq Nat BY <1>2, <1>8
    <2> QED BY <2>1, <1>2, MinIs
  <1>10. t \in ToSet(ns) /\ t \in Texts(d)
    <2>1. Min(found) \in DOMAIN ns BY <1>2, <1>9
    <2>2. t \in ToSet(ns) BY <1>3, <2>1 DEF ToSet
    <2> QED BY <2>2, <1>7, ToSetIs
  <1>11. t \in Nodes /\ d.kind[t] = "text" /\ d.up[t] # None BY <1>10, TextNode
  <1>12. d.up[t] \in Elements(d) /\ d.up[t] \in Nodes BY <1>11, Parent DEF Elements
  <1>13. ASSUME d.up[t] = Body PROVE FALSE
    <2>1. E \in Over(d, t) BY <1>5, <1>7, <1>10, <1>11
    <2>2. d.up[Body] = None BY NodesAssumption DEF WellFormed
    <2>3. Over(d, Body) = {} BY <2>2, NodesAssumption, OverIs
    <2>4. Over(d, t) = {Body} \cup Over(d, Body) BY <1>11, <1>13, OverIs
    <2>5. E = Body BY <2>1, <2>3, <2>4
    <2>6. Root # Body BY <2>2 DEF WellFormed
    <2> QED BY <1>5, <2>3, <2>5, <2>6
  <1> QED BY <1>10, <1>12, <1>13 DEF t

(* Looking up a range splits texts and no more; if it is found, its ends   *)
(* have an element in common.                                              *)
LEMMA AnchorKeeps ==
  ASSUME NEW d, WellFormed(d), Room(d, 2), NEW range
  PROVE  /\ Kept(d, Anchor(d, range).doc)
         /\ Anchor(d, range).start # None => Anchor(d, range).common \in Elements(d) /\ Anchor(d, range).end # None
  <1> DEFINE s == PointAt(d, range.start, FALSE)
             e == PointAt(d, range.end, TRUE)
             ps == ParentsOf(d, s.node)
             I == {i \in 1 .. Len(ps) : Inside(d, d.up[e.node], ps[i])}
             common == ps[SelectInSeq(ps, LAMBDA p : Inside(d, d.up[e.node], p))]
  <1>1. Anchor(d, range) = IF s = NoPoint \/ e = NoPoint
                           THEN [doc |-> d, start |-> None, end |-> None, common |-> None]
                           ELSE Normalize(d, s, e, common)
    BY DEF Anchor, Between
  <1>2. SelectInSeq(ps, LAMBDA p : Inside(d, d.up[e.node], p)) = IF I # {} THEN Min(I) ELSE 0 BY DEF SelectInSeq
  <1>3. common = ps[IF I # {} THEN Min(I) ELSE 0] BY <1>2
  <1> HIDE DEF common
  <1>4. CASE s = NoPoint \/ e = NoPoint
    <2>1. Anchor(d, range) = [doc |-> d, start |-> None, end |-> None, common |-> None] BY <1>1, <1>4
    <2>2. Anchor(d, range).doc = d /\ Anchor(d, range).start = None BY <2>1
    <2> QED BY <2>2, KeptItself
  <1>5. CASE s # NoPoint /\ e # NoPoint
    <2>1. s.node \in Texts(d) /\ d.up[s.node] \in Elements(d) \ {Body} BY <1>5, PointIs
    <2>2. e.node \in Texts(d) /\ d.up[e.node] \in Elements(d) \ {Body} BY <1>5, PointIs
    <2>3. Anchor(d, range) = Normalize(d, s, e, common) BY <1>1, <1>5
    <2> HIDE DEF s, e
    <2>4. s.node \in Nodes /\ s.node # Body /\ d.kind[s.node] # "free"
      <3>1. s.node \in Nodes /\ d.kind[s.node] = "text" BY <2>1 DEF Texts
      <3> QED BY <3>1 DEF WellFormed
    <2>5. ps \in Seq(Nodes) /\ Body \in ToSet(ps) /\ ToSet(ps) \subseteq Elements(d)
      <3>1. ps \in Seq(Nodes) /\ ToSet(ps) = Over(d, s.node) BY <2>4, OverIs
      <3>2. Over(d, s.node) \subseteq Elements(d) /\ Body \in Over(d, s.node) BY <2>4, OverHolds
      <3> QED BY <3>1, <3>2
    <2>6. Inside(d, d.up[e.node], Body)
      <3>1. d.up[e.node] \in Nodes /\ d.up[e.node] # Body /\ d.kind[d.up[e.node]] # "free" BY <2>2 DEF Elements
      <3>2. Body \in Over(d, d.up[e.node]) BY <3>1, OverHolds
      <3> QED BY <3>1, <3>2, OverIs
    <2> HIDE DEF ps
    <2>7. I # {} /\ I \subseteq 1 .. Len(ps)
      <3>1. PICK i \in 1 .. Len(ps) : ps[i] = Body BY <2>5, ToSetIs
      <3>2. i \in I BY <3>1, <2>6
      <3> QED BY <3>2
    <2> HIDE DEF I
    <2>8. Min(I) \in 1 .. Len(ps)
      <3>1. Len(ps) \in Nat BY <2>5, LenProperties
      <3>2. I \subseteq Nat BY <2>7, <3>1
      <3> QED BY <2>7, <3>2, MinIs
    <2>9. common \in Elements(d)
      <3>1. common = ps[Min(I)] BY <1>3, <2>7
      <3>2. ps[Min(I)] \in ToSet(ps) BY <2>5, <2>8, ToSetIs
      <3> QED BY <2>5, <3>1, <3>2
    <2>10. e.node # None BY <2>2, NodesAssumption DEF Texts, None
    <2> QED BY <2>3, <2>9, <2>10, NormalizeKeeps
  <1> QED BY <1>4, <1>5

(* The nodes of a range that has both ends are texts.                      *)
LEMMA RangeNodesAre ==
  ASSUME NEW d, WellFormed(d), NEW r, r.common \in Elements(d), r.start # None, r.end # None
  PROVE  RangeNodes(d, r) \in Seq(Texts(d))
  <1> DEFINE ns == TextNodes(d, r.common)
             i(n) == IndexOf(d, ns, n)
             from == IF i(r.start) < 0 THEN Len(ns) ELSE i(r.start) + 1
             to   == IF i(r.end) = -1 THEN Len(ns) ELSE i(r.end) + 1
  <1>1. RangeNodes(d, r) = SubSeq(ns, from, to) BY DEF RangeNodes
  <1>2. ns \in Seq(Texts(d)) /\ ns # <<>>
    <2>1. r.common \in Nodes /\ d.kind[r.common] # "free" BY DEF Elements
    <2> QED BY <2>1, TextsBelow
  <1> HIDE DEF ns
  <1>3. Len(ns) \in Nat \ {0} /\ DOMAIN ns = 1 .. Len(ns) BY <1>2, LenProperties, EmptySeq
  <1>4. ASSUME NEW n, n # None PROVE i(n) \in -1 .. Len(ns) - 1
    <2>1. i(n) = IF Contains(ns, n) THEN Position(ns, n) - 1 ELSE -1 BY <1>2, <1>4 DEF IndexOf
    <2>2. ASSUME Contains(ns, n) PROVE Position(ns, n) \in 1 .. Len(ns)
      <3>1. \E k \in DOMAIN ns : ns[k] = n BY <1>3, <2>2 DEF Contains
      <3> QED BY <3>1, <1>3 DEF Position
    <2> QED BY <2>1, <2>2, <1>3
  <1>5. i(r.start) \in -1 .. Len(ns) - 1 /\ i(r.end) \in -1 .. Len(ns) - 1 BY <1>4
  <1>6. from \in 1 .. Len(ns) /\ to \in 1 .. Len(ns)
    <2> HIDE DEF i
    <2> QED BY <1>3, <1>5
  <1> HIDE DEF from, to
  <1>7. SubSeq(ns, from, to) \in Seq(Texts(d))
    <2>1. \A k \in from .. to : ns[k] \in Texts(d) BY <1>2, <1>3, <1>6, ElementOfSeq
    <2> QED BY <1>3, <1>6, <2>1, SubSeqProperties
  <1> QED BY <1>1, <1>7

-----------------------------------------------------------------------------
(* Among sets of a finite set is one that is in it without any that has    *)
(* one element less.                                                       *)
LEMMA SubsetMin ==
  ASSUME NEW S, IsFiniteSet(S), NEW Bad \in SUBSET (SUBSET S), Bad # {}
  PROVE  \E T \in Bad : \A x \in T : T \ {x} \notin Bad
  <1> DEFINE Sizes == {Cardinality(T) : T \in Bad}
  <1>1. \A T \in Bad : IsFiniteSet(T) /\ Cardinality(T) \in Nat BY FS_Subset, FS_CardinalityType
  <1>2. PICK k \in Sizes : \A j \in Sizes : k <= j
    <2>1. Sizes \subseteq Nat /\ Sizes # {} BY <1>1
    <2> HIDE DEF Sizes
    <2> QED BY <2>1, Least
  <1>3. PICK T \in Bad : k = Cardinality(T) OBVIOUS
  <1>4. ASSUME NEW x \in T, T \ {x} \in Bad PROVE FALSE
    <2>1. Cardinality(T \ {x}) = Cardinality(T) - 1 BY <1>1, FS_RemoveElement
    <2>2. k <= Cardinality(T \ {x}) BY <1>2, <1>4
    <2> QED BY <2>1, <2>2, <1>1, <1>3
  <1> QED BY <1>4

(* One after the other, a step for each element of a finite set.           *)
Chain(F, S, pick, step, v) ==
  /\ F[{}] = v
  /\ \A T \in (SUBSET S) \ {{}} : F[T] = step[pick[T]][F[T \ {pick[T]}]]

(* Steps can be taken for all elements of a finite set.                    *)
LEMMA Chained ==
  ASSUME NEW S, IsFiniteSet(S), NEW V, NEW v \in V, NEW pick, \A T \in (SUBSET S) \ {{}} : pick[T] \in T,
         NEW step \in [S -> [V -> V]]
  PROVE  \E F \in [SUBSET S -> V] : Chain(F, S, pick, step, v)
  <1> DEFINE N == SUBSET S
             K == [T \in N |-> {U \in N : T # {} /\ U = T \ {pick[T]}}]
             part(f, T) == IF T = {} THEN v ELSE step[pick[T]][f[T \ {pick[T]}]]
             G == [T \in N |-> [f \in [N -> V] |-> part(f, T)]]
  <1>1. K \in [N -> SUBSET N] OBVIOUS
  <1>2. \A T \in N : T # {} => pick[T] \in S /\ T \ {pick[T]} \in N /\ T \ {pick[T]} \in K[T] OBVIOUS
  <1>3. Grounded(N, K)
    <2>1. ASSUME NEW Bad \in (SUBSET N) \ {{}} PROVE \E T \in Bad : K[T] \cap Bad = {}
      <3>1. PICK T \in Bad : \A x \in T : T \ {x} \notin Bad BY SubsetMin
      <3>2. K[T] \cap Bad = {} BY <3>1
      <3> QED BY <3>2
    <2> HIDE DEF K, N
    <2> QED BY <2>1 DEF Grounded
  <1>4. G \in [N -> [[N -> V] -> V]]
    <2>1. ASSUME NEW T \in N, NEW f \in [N -> V] PROVE part(f, T) \in V
      <3> DEFINE g == step[pick[T]]
                 y == f[T \ {pick[T]}]
      <3>1. CASE T # {}
        <4>1. g \in [V -> V] /\ y \in V BY <1>2, <3>1
        <4> HIDE DEF g, y
        <4>2. g[y] \in V BY <4>1
        <4> QED BY <3>1, <4>2 DEF g, y
      <3> QED BY <3>1
    <2> HIDE DEF part, N
    <2> QED BY <2>1
  <1>5. Local(G, K, N, V)
    <2>1. ASSUME NEW T \in N, NEW f \in [N -> V], NEW g \in [N -> V], Agree(f, g, K[T])
          PROVE  part(f, T) = part(g, T)
      <3>1. CASE T # {}
        <4>1. f[T \ {pick[T]}] = g[T \ {pick[T]}] BY <1>2, <2>1, <3>1 DEF Agree
        <4> QED BY <4>1
      <3> QED BY <3>1
    <2> HIDE DEF part, K, N
    <2> QED BY <2>1 DEF Local, Same
  <1>6. PICK F \in [N -> V] : Solution(G, N, F)
    <2> HIDE DEF N, K, G
    <2> QED BY <1>1, <1>3, <1>4, <1>5, Recursion
  <1>7. \A T \in N : F[T] = part(F, T)
    <2> HIDE DEF part
    <2> QED BY <1>6 DEF Solution
  <1>8. {} \in N OBVIOUS
  <1> QED BY <1>7, <1>8 DEF Chain

(* The greatest of some numbers up to n is one of them.                    *)
LEMMA MaxIs ==
  ASSUME NEW n \in Nat, NEW S \in (SUBSET (1 .. n)) \ {{}}
  PROVE  Max(S) \in S
  <1> DEFINE T == {n - x : x \in S}
  <1>1. T \subseteq Nat /\ T # {} OBVIOUS
  <1>2. PICK k \in T : \A j \in T : k <= j
    <2> HIDE DEF T
    <2> QED BY <1>1, Least
  <1>3. PICK x \in S : k = n - x OBVIOUS
  <1>4. \A y \in S : x >= y
    <2>1. ASSUME NEW y \in S PROVE x >= y
      <3>1. n - y \in T OBVIOUS
      <3>2. n - x <= n - y BY <3>1, <1>2, <1>3
      <3> QED BY <3>2
    <2> QED BY <2>1
  <1> QED BY <1>4 DEF Max

-----------------------------------------------------------------------------
(* Taking out highlights, one after the other.                             *)

(* f takes the highlights of T out of d one after the other, as far as     *)
(* that yields documents; what that comes to.                              *)
Unwraps(f, d, hs, T) ==
  LET h == CHOOSE h \in T : TRUE
      e == Unwrap(f[T \ {h}], h)
  IN e \in Document => f[T] = e

(* e is d without the highlights in T.                                     *)
Unwrapped(d, e, T) ==
  /\ WellFormed(e) /\ Unchanged(d, e, Elements(d) \ T) /\ Shaped(d, e)
  /\ \A x \in Nodes : e.kind[x] = IF x \in T THEN "free" ELSE d.kind[x]

(* f follows the order in which FoldSet chooses the highlights.            *)
Taken(f, hs) ==
  \A T \in (SUBSET hs) \ {{}} : f[T] = Unwrap(f[T \ {CHOOSE h \in T : TRUE}], CHOOSE h \in T : TRUE)

(* After any number of steps the page is a tree, and reads the same but    *)
(* for the highlights taken out.                                           *)
LEMMA UnwrapsKeep ==
  ASSUME NEW d, WellFormed(d), NEW hs \in SUBSET Highlights(d), NEW f, f[{}] = d,
         \A T \in (SUBSET hs) \ {{}} : Unwraps(f, d, hs, T)
  PROVE  Taken(f, hs) /\ \A T \in SUBSET hs : Unwrapped(d, f[T], T)
  <1> DEFINE Good(T) == /\ Unwrapped(d, f[T], T)
                        /\ T # {} => f[T] = Unwrap(f[T \ {CHOOSE h \in T : TRUE}], CHOOSE h \in T : TRUE)
             Bad == {T \in SUBSET hs : ~ Good(T)}
  <1>1. IsFiniteSet(hs) /\ hs \subseteq Nodes
    <2>1. hs \in SUBSET Nodes BY DEF Highlights
    <2> QED BY <2>1, NodesAssumption, FS_Subset
  <1>2. Good({})
    <2>1. Unwrapped(d, d, {}) BY ShapedItself DEF Unwrapped, Unchanged, Same
    <2> QED BY <2>1
  <1>3. ASSUME NEW T \in Bad, \A x \in T : T \ {x} \notin Bad PROVE FALSE
    <2>1. T # {} /\ T \in SUBSET hs BY <1>2
    <2> DEFINE h == CHOOSE h \in T : TRUE
               c == f[T \ {h}]
               e == Unwrap(c, h)
    <2>2. h \in T BY <2>1
    <2> HIDE DEF h
    <2>3. Unwrapped(d, c, T \ {h})
      <3>1. T \ {h} \notin Bad /\ T \ {h} \in SUBSET hs BY <1>3, <2>1, <2>2
      <3> QED BY <3>1
    <2> HIDE DEF c
    <2>4. h \in Highlights(c) /\ h \in Nodes /\ WellFormed(c) BY <2>1, <2>2, <2>3 DEF Unwrapped, Highlights
    <2>5. /\ WellFormed(e) /\ Unchanged(c, e, Elements(c) \ {h})
          /\ \A x \in Nodes : e.kind[x] = IF x = h THEN "free" ELSE c.kind[x]
      BY <2>4, UnwrapKeeps DEF TakenFrom
    <2>8. Shaped(c, e) BY <2>4, UnwrapShapes
    <2>6. f[T] = e
      <3>1. e \in Document BY <2>5 DEF WellFormed
      <3>2. Unwraps(f, d, hs, T) BY <2>1
      <3> QED BY <3>1, <3>2 DEF Unwraps, h, c
    <2> HIDE DEF e
    <2>7. Unwrapped(d, e, T)
      <3>1. \A x \in Elements(d) \ T : x \in Elements(c) \ {h} BY <2>2, <2>3 DEF Unwrapped, Elements
      <3>2. \A x \in Elements(d) \ T : x \in Elements(d) \ (T \ {h}) OBVIOUS
      <3>3. Unchanged(d, e, Elements(d) \ T) BY <2>3, <2>5, <3>1, <3>2 DEF Unwrapped, Unchanged, Same
      <3>4. \A x \in Nodes : e.kind[x] = IF x \in T THEN "free" ELSE d.kind[x] BY <2>2, <2>3, <2>5 DEF Unwrapped
      <3>5. Shaped(d, e) BY <2>3, <2>8, ShapedOn DEF Unwrapped
      <3> QED BY <2>5, <3>3, <3>4, <3>5 DEF Unwrapped
    <2> QED BY <2>6, <2>7 DEF e, c, h
  <1>4. Bad = {}
    <2>1. Bad \in SUBSET (SUBSET hs) OBVIOUS
    <2> HIDE DEF Bad
    <2> QED BY <1>1, <1>3, <2>1, SubsetMin
  <1>5. \A T \in SUBSET hs : Good(T) BY <1>4
  <1>6. Taken(f, hs) BY <1>5 DEF Taken
  <1> QED BY <1>5, <1>6

(* undraw: all of the highlights are taken out, and nothing else.          *)
LEMMA UnwrapAllKeeps ==
  ASSUME NEW d, WellFormed(d), NEW hs \in SUBSET Highlights(d)
  PROVE  Unwrapped(d, UnwrapAll(d, hs), hs)
  <1> DEFINE first(T) == CHOOSE h \in T : TRUE
             pick == [T \in SUBSET hs |-> first(T)]
             one(e, h) == IF Unwrap(e, h) \in Document THEN Unwrap(e, h) ELSE e
             step == [h \in hs |-> [e \in Document |-> one(e, h)]]
             Is(f) == f = [T \in SUBSET hs |-> IF T = {} THEN d ELSE Unwrap(f[T \ {first(T)}], first(T))]
             iter == CHOOSE f : Is(f)
  <1>1. IsFiniteSet(hs)
    <2>1. hs \in SUBSET Nodes BY DEF Highlights
    <2> QED BY <2>1, NodesAssumption, FS_Subset
  <1>2. UnwrapAll(d, hs) = iter[hs]
    <2>1. UnwrapAll(d, hs) = (LET f[T \in SUBSET hs] == IF T = {} THEN d
                                                        ELSE LET h == CHOOSE h \in T : TRUE IN Unwrap(f[T \ {h}], h)
                              IN f[hs])
      BY DEF UnwrapAll, FoldSet, MapThenFoldSet
    <2> QED BY <2>1
  <1>3. d \in Document BY DEF WellFormed
  <1>4. \A T \in (SUBSET hs) \ {{}} : pick[T] = first(T) /\ pick[T] \in T /\ first(T) \in hs OBVIOUS
  <1>5. step \in [hs -> [Document -> Document]] OBVIOUS
  <1>6. PICK F \in [SUBSET hs -> Document] : Chain(F, hs, pick, step, d)
    <2> HIDE DEF pick, step
    <2> QED BY <1>1, <1>3, <1>4, <1>5, Chained
  <1>7. F[{}] = d /\ \A T \in (SUBSET hs) \ {{}} : F[T] = one(F[T \ {first(T)}], first(T))
    <2>1. \A T \in (SUBSET hs) \ {{}} : F[T \ {first(T)}] \in Document OBVIOUS
    <2>2. \A T \in (SUBSET hs) \ {{}} : F[T] = step[first(T)][F[T \ {first(T)}]] BY <1>4, <1>6 DEF Chain
    <2> HIDE DEF one, first
    <2>3. \A h \in hs : \A e \in Document : step[h][e] = one(e, h) OBVIOUS
    <2> HIDE DEF step
    <2> QED BY <1>4, <1>6, <2>1, <2>2, <2>3 DEF Chain
  <1>8. \A T \in (SUBSET hs) \ {{}} : Unwraps(F, d, hs, T) BY <1>7 DEF Unwraps
  <1>9. \A T \in (SUBSET hs) \ {{}} : F[T] = Unwrap(F[T \ {first(T)}], first(T))
    <2>1. F[{}] = d BY <1>7
    <2>2. Taken(F, hs) BY <1>8, <2>1, UnwrapsKeep
    <2> QED BY <2>2 DEF Taken
  <1>10. Is(F)
    <2>1. F = [T \in SUBSET hs |-> F[T]] OBVIOUS
    <2>2. \A T \in SUBSET hs : F[T] = IF T = {} THEN d ELSE Unwrap(F[T \ {first(T)}], first(T)) BY <1>7, <1>9
    <2> HIDE DEF first
    <2> QED BY <2>1, <2>2
  <1>11. Is(iter)
    <2> HIDE DEF Is
    <2> QED BY <1>10
  <1> HIDE DEF iter
  <1>12. iter[{}] = d /\ \A T \in (SUBSET hs) \ {{}} : iter[T] = Unwrap(iter[T \ {first(T)}], first(T))
    <2>1. {} \in SUBSET hs OBVIOUS
    <2> HIDE DEF first
    <2> QED BY <1>11, <2>1
  <1>13. \A T \in (SUBSET hs) \ {{}} : Unwraps(iter, d, hs, T) BY <1>12 DEF Unwraps
  <1>14. Unwrapped(d, iter[hs], hs) BY <1>12, <1>13, UnwrapsKeep
  <1> QED BY <1>2, <1>14

-----------------------------------------------------------------------------
(* Drawing.                                                                *)

(* What is not put into a highlight.                                       *)
IsWhite(d, n) == ToSet(d.chars[n]) \subseteq White

(* f puts the texts of ns at T into highlights one after the other, as far *)
(* as that yields documents; what that comes to.                           *)
Wraps(f, d, ns, T) ==
  LET i == Max(T)
      e == Wrap(f[T \ {i}], ns[i])
  IN IF IsWhite(d, ns[i]) THEN f[T] = f[T \ {i}] ELSE e \in Document => f[T] = e

(* e is d with the texts of ns at T in highlights of their own.            *)
Marked(d, e, ns, T) ==
  /\ Kept(d, e) /\ Cardinality(Free(e)) >= Cardinality(Free(d)) - Cardinality(T)
  /\ Texts(d) \subseteq Texts(e) /\ \A x \in Nodes : e.chars[x] = d.chars[x]
  /\ \A i \in T : ~ IsWhite(d, ns[i]) =>
       e.up[ns[i]] \in Highlights(e) \cap Free(d) /\ Same(Reads(e, e.up[ns[i]]), d.chars[ns[i]])

(* f follows the order of the texts, which FoldLeft takes them in.         *)
Marks(f, d, ns) ==
  \A T \in (SUBSET (1 .. Len(ns))) \ {{}} :
    f[T] = IF IsWhite(d, ns[Max(T)]) THEN f[T \ {Max(T)}] ELSE Wrap(f[T \ {Max(T)}], ns[Max(T)])

(* After any number of steps the page is a tree and reads the same, and    *)
(* each text done is in a highlight of its own that was not there before.  *)
LEMMA WrapsKeep ==
  ASSUME NEW d, WellFormed(d), NEW ns \in Seq(Texts(d)), Room(d, Len(ns)), NEW f, f[{}] = d,
         \A T \in (SUBSET (1 .. Len(ns))) \ {{}} : Wraps(f, d, ns, T)
  PROVE  Marks(f, d, ns) /\ \A T \in SUBSET (1 .. Len(ns)) : Marked(d, f[T], ns, T)
  <1> DEFINE N == 1 .. Len(ns)
             Follows(T) == T # {} => f[T] = IF IsWhite(d, ns[Max(T)]) THEN f[T \ {Max(T)}] ELSE Wrap(f[T \ {Max(T)}], ns[Max(T)])
             Good(T) == Marked(d, f[T], ns, T) /\ Follows(T)
             Bad == {T \in SUBSET N : ~ Good(T)}
  <1>1. IsFiniteSet(N) /\ Len(ns) \in Nat /\ (\A i \in N : ns[i] \in Texts(d)) /\ Cardinality(N) = Len(ns)
    <2>1. Len(ns) \in Nat BY LenProperties
    <2> DEFINE n == Len(ns)
    <2> HIDE DEF n
    <2>2. IsFiniteSet(1 .. n) /\ Cardinality(1 .. n) = IF 1 > n THEN 0 ELSE n - 1 + 1 BY <2>1, FS_Interval DEF n
    <2>3. IsFiniteSet(1 .. n) /\ Cardinality(1 .. n) = n BY <2>1, <2>2 DEF n
    <2>4. IsFiniteSet(N) /\ Cardinality(N) = Len(ns) BY <2>3 DEF n
    <2> QED BY <2>1, <2>4, ElementOfSeq
  <1>2. \A T \in SUBSET N : IsFiniteSet(T) /\ Cardinality(T) \in Nat /\ Cardinality(T) <= Len(ns)
    <2> HIDE DEF N
    <2> QED BY <1>1, FS_Subset, FS_CardinalityType
  <1>3. Good({})
    <2>1. Cardinality({}) = 0 BY FS_EmptySet
    <2>2. Cardinality(Free(d)) \in Nat BY FreeIsFinite
    <2>3. Marked(d, d, ns, {}) BY <2>1, <2>2, KeptItself DEF Marked
    <2> QED BY <2>3
  <1>4. ASSUME NEW T \in Bad, \A x \in T : T \ {x} \notin Bad PROVE FALSE
    <2>1. T # {} /\ T \in SUBSET N BY <1>3
    <2> DEFINE i == Max(T)
               n == ns[i]
               c == f[T \ {i}]
               e == Wrap(c, n)
               h == Fresh(c)
    <2>2. i \in T BY <2>1, <1>1, MaxIs
    <2> HIDE DEF i
    <2>3. Marked(d, c, ns, T \ {i})
      <3>1. T \ {i} \notin Bad /\ T \ {i} \in SUBSET N BY <1>4, <2>1, <2>2
      <3> QED BY <3>1
    <2>4. Cardinality(T \ {i}) = Cardinality(T) - 1 /\ Cardinality(T) \in Nat /\ Cardinality(T) <= Len(ns) BY <1>2, <2>1, <2>2, FS_RemoveElement
    <2>5. Wraps(f, d, ns, T) BY <2>1
    <2>6. Cardinality(Free(d)) \in Nat /\ Cardinality(Free(c)) \in Nat /\ Cardinality(Free(d)) >= Len(ns) BY FreeIsFinite DEF Room
    <2> HIDE DEF c
    <2>7. CASE IsWhite(d, n)
      <3>1. f[T] = c BY <2>5, <2>7 DEF Wraps, i, c
      <3>2. Cardinality(Free(c)) >= Cardinality(Free(d)) - Cardinality(T) BY <2>3, <2>4, <2>6 DEF Marked
      <3>3. \A j \in T : ~ IsWhite(d, ns[j]) => j \in T \ {i} BY <2>7
      <3>4. Marked(d, c, ns, T) BY <2>3, <3>2, <3>3 DEF Marked
      <3>5. Follows(T) BY <3>1, <2>7 DEF i, c
      <3> HIDE DEF Follows
      <3> QED BY <3>1, <3>4, <3>5
    <2>8. CASE ~ IsWhite(d, n)
      <3>1. n \in Texts(d) /\ n \in Texts(c) /\ WellFormed(c) /\ Free(c) \subseteq Free(d) BY <1>1, <2>1, <2>2, <2>3 DEF Marked, Kept
      <3>2. Cardinality(Free(c)) >= 1
        <4>1. Cardinality(Free(c)) >= Cardinality(Free(d)) - (Cardinality(T) - 1) BY <2>3, <2>4 DEF Marked
        <4> QED BY <4>1, <2>4, <2>6, <1>1
      <3>3. Free(c) # {} BY <3>2, FreeIsFinite DEF Room
      <3>4. h \in Free(c) BY <3>3, FreshIsFree
      <3> HIDE DEF h, n
      <3>5. /\ WellFormed(e) /\ Free(e) = Free(c) \ {h} /\ Unchanged(c, e, Elements(c))
            /\ \A x \in Nodes : /\ e.kind[x] = IF x = h THEN "highlight" ELSE c.kind[x]
                                /\ e.up[x] = IF x = n THEN h ELSE IF x = h THEN c.up[n] ELSE c.up[x]
        <4>1. WellFormed(e) /\ Free(e) = Free(c) \ {h} /\ Unchanged(c, e, Elements(c)) /\ WrappedIn(c, e, n)
          BY <3>1, <3>3, WrapKeeps DEF h
        <4> HIDE DEF e
        <4> QED BY <4>1 DEF WrappedIn, h
      <3>6. f[T] = e
        <4>1. e \in Document BY <3>5 DEF WellFormed
        <4> QED BY <2>5, <2>8, <4>1 DEF Wraps, i, c, n
      <3>15. \A x \in Nodes : e.chars[x] = c.chars[x] /\ (x = h => e.kids[x] = <<n>>)
        <4>1. WrappedIn(c, e, n) BY <3>1, <3>3, WrapKeeps
        <4> HIDE DEF e
        <4>2. h # c.up[n] BY <4>1 DEF WrappedIn, h
        <4> QED BY <4>1, <4>2 DEF WrappedIn, h
      <3>7. Kept(c, e)
        <4>1. c.chars[n] = d.chars[n]
          <5>1. n \in Nodes BY <3>1 DEF Texts
          <5> QED BY <5>1, <2>3 DEF Marked
        <4>2. d.chars[n] # <<>>
          <5>1. ToSet(<<>>) = {} BY OnesAndTwos
          <5> QED BY <5>1, <2>8 DEF IsWhite
        <4>3. Shaped(c, e) BY <3>1, <3>3, <4>1, <4>2, WrapShapes DEF e
        <4> QED BY <3>5, <4>3 DEF Kept
      <3> HIDE DEF e
      <3>8. Kept(d, e)
        <4>1. Kept(d, c) BY <2>3 DEF Marked
        <4> QED BY <3>7, <4>1, KeptOn
      <3>9. Cardinality(Free(e)) >= Cardinality(Free(d)) - Cardinality(T)
        <4>1. Cardinality(Free(e)) = Cardinality(Free(c)) - 1
          <5>1. IsFiniteSet(Free(c)) BY FreeIsFinite
          <5> QED BY <5>1, <3>4, <3>5, FS_RemoveElement
        <4> QED BY <4>1, <2>3, <2>4, <2>6 DEF Marked
      <3>10. h \in Nodes /\ c.kind[h] = "free" /\ h \in Free(d) BY <3>1, <3>4 DEF Free
      <3>11. Texts(d) \subseteq Texts(e)
        <4>1. \A x \in Texts(c) : x \in Nodes /\ c.kind[x] = "text" /\ x # h BY <3>10 DEF Texts
        <4>2. Texts(c) \subseteq Texts(e) BY <4>1, <3>5 DEF Texts
        <4> QED BY <4>2, <2>3 DEF Marked
      <3>16. Same(Reads(e, h), c.chars[n]) /\ n \in Nodes
        <4> DEFINE R == Says(e)
                   one == <<n>>
        <4>1. /\ Yields(R, Nodes, Nat) /\ \A x \in Nodes : R[x] = Reads(e, x)
              /\ \A x \in Nodes : Reads(e, x) = IF e.kind[x] = "text" THEN e.chars[x] ELSE Join(R, e.kids[x])
          BY <3>5, ReadsAre
        <4> HIDE DEF R
        <4>2. n \in Nodes /\ e.kind[n] = "text"
          <5>1. n \in Nodes /\ c.kind[n] = "text" BY <3>1 DEF Texts
          <5> QED BY <5>1, <3>5, <3>10
        <4>3. e.kind[h] = "highlight" /\ e.kids[h] = one BY <3>5, <3>10, <3>15
        <4>4. Same(Join(R, one), R[n])
          <5>1. R[n] \in Seq(Nat) BY <4>1, <4>2 DEF Yields
          <5> QED BY <5>1, JoinOne
        <4> HIDE DEF one
        <4>5. Reads(e, h) = Join(R, one) BY <3>10, <4>1, <4>3
        <4>6. R[n] = c.chars[n] BY <3>15, <4>1, <4>2
        <4> QED BY <4>2, <4>4, <4>5, <4>6 DEF Same
      <3>12. ASSUME NEW j \in T, ~ IsWhite(d, ns[j])
             PROVE  e.up[ns[j]] \in Highlights(e) \cap Free(d) /\ Same(Reads(e, e.up[ns[j]]), d.chars[ns[j]])
        <4> DEFINE m == ns[j]
        <4>1. m \in Texts(d) /\ m \in Texts(c) BY <1>1, <2>1, <2>3 DEF Marked
        <4>2. m \in Nodes /\ c.kind[m] = "text" /\ m # h BY <4>1, <3>10 DEF Texts
        <4> HIDE DEF m
        <4>3. CASE m = n
          <5>1. e.up[m] = h /\ e.kind[h] = "highlight" BY <3>5, <3>10, <4>2, <4>3
          <5>2. c.chars[m] = d.chars[m] BY <2>3, <4>2 DEF Marked
          <5>3. Same(Reads(e, e.up[m]), d.chars[m]) BY <3>16, <4>3, <5>1, <5>2
          <5> QED BY <5>1, <5>3, <3>10 DEF Highlights, m
        <4>4. CASE m # n
          <5>1. j \in T \ {i} BY <4>4 DEF m, n
          <5>2. c.up[m] \in Highlights(c) \cap Free(d) /\ Same(Reads(c, c.up[m]), d.chars[m]) BY <5>1, <2>3, <3>12 DEF Marked, m
          <5>3. e.up[m] = c.up[m] BY <3>5, <4>2, <4>4
          <5>4. c.up[m] \in Nodes /\ c.kind[c.up[m]] = "highlight" BY <5>2 DEF Highlights
          <5>5. c.up[m] # h BY <5>4, <3>10
          <5>6. e.kind[c.up[m]] = "highlight" BY <5>4, <5>5, <3>5
          <5>7. c.up[m] \in Elements(c) BY <5>4 DEF Elements
          <5>8. Same(Reads(e, c.up[m]), Reads(c, c.up[m])) BY <3>5, <5>7 DEF Unchanged
          <5>9. Same(Reads(e, e.up[m]), d.chars[m]) BY <5>2, <5>3, <5>8 DEF Same
          <5> QED BY <5>2, <5>3, <5>4, <5>6, <5>9 DEF Highlights, m
        <4> QED BY <4>3, <4>4
      <3>17. \A x \in Nodes : e.chars[x] = d.chars[x] BY <2>3, <3>15 DEF Marked
      <3>13. Marked(d, e, ns, T) BY <3>8, <3>9, <3>11, <3>12, <3>17 DEF Marked
      <3>14. Follows(T) BY <3>6, <2>8 DEF e, i, c, n
      <3> HIDE DEF Follows
      <3> QED BY <3>6, <3>13, <3>14
    <2> QED BY <2>7, <2>8
  <1>5. Bad = {}
    <2>1. Bad \in SUBSET (SUBSET N) OBVIOUS
    <2> HIDE DEF Bad, N
    <2> QED BY <1>1, <1>4, <2>1, SubsetMin
  <1>6. \A T \in SUBSET N : Good(T) BY <1>5
  <1>7. Marks(f, d, ns) BY <1>6 DEF Marks
  <1> HIDE DEF Follows
  <1> QED BY <1>6, <1>7

(* Of the texts of a range those that are not white are highlighted, and   *)
(* each highlight reads as the text in it.                                 *)
Marking(r) ==
  LET e  == HighlightRange(r).doc
      ns == {n \in ToSet(RangeNodes(r.doc, r)) : ~ IsWhite(r.doc, n)}
  IN /\ HighlightRange(r).highlights = {e.up[n] : n \in ns}
     /\ \A n \in ns : Same(Reads(e, e.up[n]), r.doc.chars[n])

(* draw: the page is kept, and the highlights are new ones.                *)
LEMMA HighlightRangeKeeps ==
  ASSUME NEW r, WellFormed(r.doc), RangeNodes(r.doc, r) \in Seq(Texts(r.doc)), Room(r.doc, Len(RangeNodes(r.doc, r)))
  PROVE  /\ Kept(r.doc, HighlightRange(r).doc)
         /\ HighlightRange(r).highlights \subseteq Highlights(HighlightRange(r).doc) \cap Free(r.doc)
         /\ Marking(r)
  <1> DEFINE d == r.doc
             ns == RangeNodes(r.doc, r)
             N == 1 .. Len(ns)
             pick == [T \in SUBSET N |-> Max(T)]
             one(e, i) == IF IsWhite(d, ns[i]) THEN e ELSE IF Wrap(e, ns[i]) \in Document THEN Wrap(e, ns[i]) ELSE e
             step == [i \in N |-> [e \in Document |-> one(e, i)]]
             Is(f) == f = [T \in SUBSET N |-> IF T = {} THEN d
                                              ELSE IF IsWhite(d, ns[Max(T)]) THEN f[T \ {Max(T)}]
                                              ELSE Wrap(f[T \ {Max(T)}], ns[Max(T)])]
             iter == CHOOSE f : Is(f)
  <1>1. HighlightRange(r).doc = iter[N] /\ DOMAIN ns = N
    <2>1. HighlightRange(r).doc =
            (LET f[T \in SUBSET DOMAIN ns] ==
                   IF T = {} THEN d
                   ELSE LET i == Max(T)
                        IN IF ToSet(r.doc.chars[ns[i]]) \subseteq White THEN f[T \ {i}] ELSE Wrap(f[T \ {i}], ns[i])
             IN f[DOMAIN ns])
      BY DEF HighlightRange, FoldLeft, MapThenFoldSet
    <2>2. DOMAIN ns = N BY LenProperties
    <2> HIDE DEF d, ns, N
    <2> QED BY <2>1, <2>2 DEF IsWhite, d
  <1>2. HighlightRange(r).highlights = {HighlightRange(r).doc.up[n] : n \in {m \in ToSet(ns) : ~ IsWhite(d, m)}}
    BY DEF HighlightRange, IsWhite
  <1>3. d \in Document /\ WellFormed(d) /\ ns \in Seq(Texts(d)) /\ Room(d, Len(ns)) BY DEF WellFormed
  <1> HIDE DEF d, ns
  <1>4. Len(ns) \in Nat /\ IsFiniteSet(N)
    <2>1. Len(ns) \in Nat BY <1>3, LenProperties
    <2> QED BY <2>1, FS_Interval
  <1>5. \A T \in (SUBSET N) \ {{}} : pick[T] = Max(T) /\ pick[T] \in T /\ Max(T) \in N
    <2>1. \A T \in (SUBSET N) \ {{}} : Max(T) \in T BY <1>4, MaxIs
    <2> HIDE DEF N
    <2> QED BY <2>1
  <1> HIDE DEF N
  <1>6. step \in [N -> [Document -> Document]] OBVIOUS
  <1>7. PICK F \in [SUBSET N -> Document] : Chain(F, N, pick, step, d)
    <2> HIDE DEF pick, step
    <2> QED BY <1>3, <1>4, <1>5, <1>6, Chained
  <1>8. F[{}] = d /\ \A T \in (SUBSET N) \ {{}} : F[T] = one(F[T \ {Max(T)}], Max(T))
    <2>1. \A T \in (SUBSET N) \ {{}} : F[T \ {Max(T)}] \in Document OBVIOUS
    <2>2. \A T \in (SUBSET N) \ {{}} : F[T] = step[Max(T)][F[T \ {Max(T)}]] BY <1>5, <1>7 DEF Chain
    <2> HIDE DEF one
    <2>3. \A i \in N : \A e \in Document : step[i][e] = one(e, i) OBVIOUS
    <2> HIDE DEF step
    <2> QED BY <1>5, <1>7, <2>1, <2>2, <2>3 DEF Chain
  <1>9. \A T \in (SUBSET N) \ {{}} : Wraps(F, d, ns, T) BY <1>8 DEF Wraps
  <1>10. Marks(F, d, ns) BY <1>3, <1>8, <1>9, WrapsKeep DEF N
  <1>11. Is(F)
    <2>1. F = [T \in SUBSET N |-> F[T]] OBVIOUS
    <2>2. \A T \in SUBSET N : F[T] = IF T = {} THEN d
                                     ELSE IF IsWhite(d, ns[Max(T)]) THEN F[T \ {Max(T)}]
                                     ELSE Wrap(F[T \ {Max(T)}], ns[Max(T)])
      <3>1. F[{}] = d BY <1>8
      <3>2. \A T \in (SUBSET N) \ {{}} : F[T] = IF IsWhite(d, ns[Max(T)]) THEN F[T \ {Max(T)}]
                                                ELSE Wrap(F[T \ {Max(T)}], ns[Max(T)])
        BY <1>10 DEF Marks, N
      <3> QED BY <3>1, <3>2
    <2> QED BY <2>1, <2>2
  <1>12. Is(iter)
    <2> HIDE DEF Is
    <2> QED BY <1>11
  <1> HIDE DEF iter
  <1>13. iter[{}] = d /\ \A T \in (SUBSET N) \ {{}} : iter[T] = IF IsWhite(d, ns[Max(T)]) THEN iter[T \ {Max(T)}]
                                                                ELSE Wrap(iter[T \ {Max(T)}], ns[Max(T)])
    <2>1. {} \in SUBSET N OBVIOUS
    <2> QED BY <1>12, <2>1
  <1>14. \A T \in (SUBSET N) \ {{}} : Wraps(iter, d, ns, T) BY <1>13 DEF Wraps
  <1>15. Marked(d, iter[N], ns, N)
    <2>1. \A T \in SUBSET N : Marked(d, iter[T], ns, T) BY <1>3, <1>13, <1>14, WrapsKeep DEF N
    <2> QED BY <2>1
  <1>16. Kept(d, HighlightRange(r).doc) BY <1>1, <1>15 DEF Marked
  <1>17. ASSUME NEW n \in ToSet(ns), ~ IsWhite(d, n) PROVE HighlightRange(r).doc.up[n] \in Highlights(HighlightRange(r).doc) \cap Free(d)
    <2>1. PICK i \in N : n = ns[i] BY <1>3, ToSetIs DEF N
    <2> QED BY <1>1, <1>15, <1>17, <2>1 DEF Marked
  <1>18. HighlightRange(r).highlights \subseteq Highlights(HighlightRange(r).doc) \cap Free(d) BY <1>2, <1>17
  <1>19. ASSUME NEW n \in ToSet(ns), ~ IsWhite(d, n) PROVE Same(Reads(HighlightRange(r).doc, HighlightRange(r).doc.up[n]), d.chars[n])
    <2>1. PICK i \in N : n = ns[i] BY <1>3, ToSetIs DEF N
    <2> QED BY <1>1, <1>15, <1>19, <2>1 DEF Marked
  <1>20. Marking(r)
    <2> DEFINE h == HighlightRange(r)
    <2>1. h.highlights = {h.doc.up[n] : n \in {m \in ToSet(ns) : ~ IsWhite(d, m)}} BY <1>2
    <2>2. \A n \in {m \in ToSet(ns) : ~ IsWhite(d, m)} : Same(Reads(h.doc, h.doc.up[n]), d.chars[n]) BY <1>19
    <2> HIDE DEF h
    <2>3. Marking(r) <=> /\ h.highlights = {h.doc.up[n] : n \in {m \in ToSet(ns) : ~ IsWhite(d, m)}}
                         /\ \A n \in {m \in ToSet(ns) : ~ IsWhite(d, m)} : Same(Reads(h.doc, h.doc.up[n]), d.chars[n])
      BY DEF Marking, h, ns, d
    <2> QED BY <2>1, <2>2, <2>3
  <1> QED BY <1>16, <1>18, <1>20 DEF d

(* What is over something over a node is over the node.                    *)
LEMMA OverOver ==
  ASSUME NEW d, WellFormed(d), NEW n \in Nodes, NEW a \in Over(d, n)
  PROVE  Over(d, a) \subseteq Over(d, n)
  <1> DEFINE S == {b \in Over(d, n) : ~ (Over(d, b) \subseteq Over(d, n))}
  <1>1. Over(d, n) \subseteq Nodes BY OverIs
  <1>2. ASSUME NEW b \in S, Ups(d)[b] \cap S = {} PROVE FALSE
    <2>1. b \in Nodes BY <1>1
    <2>2. CASE d.up[b] = None BY <2>1, <2>2, OverIs
    <2>3. CASE d.up[b] # None
      <3>1. d.up[b] \in Over(d, n) BY <2>3, OverHolds
      <3>2. Over(d, b) = {d.up[b]} \cup Over(d, d.up[b]) BY <2>1, <2>3, OverIs
      <3>3. d.up[b] \in Ups(d)[b] BY <1>1, <2>1, <3>1 DEF Ups
      <3>4. Over(d, d.up[b]) \subseteq Over(d, n) BY <1>2, <3>1, <3>3
      <3> QED BY <3>1, <3>2, <3>4
    <2> QED BY <2>2, <2>3
  <1>3. S = {}
    <2>1. S \in SUBSET Nodes BY <1>1
    <2> HIDE DEF S
    <2> QED BY <1>2, <2>1, UpIsGrounded DEF Grounded
  <1> QED BY <1>3

(* No node is over itself.                                                 *)
LEMMA NotOverItself ==
  ASSUME NEW d, WellFormed(d), NEW n \in Nodes
  PROVE  n \notin Over(d, n)
  <1> DEFINE S == {a \in Over(d, n) : n \in Over(d, a)}
  <1>1. Over(d, n) \subseteq Nodes BY OverIs
  <1>2. ASSUME NEW a \in S, n \in Over(d, n) PROVE \E b \in S : b \in Ups(d)[a]
    <2>1. a \in Nodes /\ d.up[a] # None
      <3>1. a \in Nodes BY <1>1
      <3>2. Over(d, a) # {} OBVIOUS
      <3> QED BY <3>1, <3>2, OverIs
    <2>2. Over(d, a) = {d.up[a]} \cup Over(d, d.up[a]) BY <2>1, OverIs
    <2>3. d.up[a] \in Over(d, n) BY <2>1, OverHolds
    <2>4. n \in Over(d, d.up[a])
      <3>1. n = d.up[a] \/ n \in Over(d, d.up[a]) BY <2>2
      <3>2. n = d.up[a] => n \in Over(d, d.up[a]) BY <1>2
      <3> QED BY <3>1, <3>2
    <2>5. d.up[a] \in Ups(d)[a] BY <1>1, <2>1, <2>3 DEF Ups
    <2> QED BY <2>3, <2>4, <2>5
  <1>3. ASSUME n \in Over(d, n) PROVE FALSE
    <2>1. S \in (SUBSET Nodes) \ {{}} BY <1>1, <1>3
    <2>2. \A a \in S : \E b \in S : b \in Ups(d)[a] BY <1>2, <1>3
    <2> HIDE DEF S
    <2>3. PICK a \in S : Ups(d)[a] \cap S = {} BY <2>1, UpIsGrounded DEF Grounded
    <2> QED BY <2>2, <2>3
  <1> QED BY <1>3

(* What is over one node and has one parent is one.                        *)
LEMMA OneOver ==
  ASSUME NEW d, WellFormed(d), NEW t \in Nodes,
         NEW x \in {t} \cup Over(d, t), NEW y \in {t} \cup Over(d, t), d.up[x] = d.up[y], d.up[x] # None
  PROVE  x = y
  <1> DEFINE Both(r, u, v) == /\ u \in {r} \cup Over(d, r) /\ v \in {r} \cup Over(d, r)
                              /\ d.up[u] = d.up[v] /\ d.up[u] # None /\ u # v
             S == {r \in Nodes : \E u, v \in Nodes : Both(r, u, v)}
  <1>1. ASSUME NEW r \in Nodes, NEW v \in Over(d, r), d.up[r] = d.up[v], d.up[r] # None PROVE FALSE
    <2> DEFINE p == d.up[r]
    <2>1. p \in Nodes BY <1>1, Parent DEF Elements
    <2>2. v \in Nodes BY OverIs
    <2>3. Over(d, r) = {p} \cup Over(d, p) BY <1>1, OverIs
    <2>4. p \in Over(d, v) BY <1>1, <2>2, OverIs
    <2>5. CASE v = p BY <2>1, <2>4, <2>5, NotOverItself
    <2>6. CASE v \in Over(d, p)
      <3>1. Over(d, v) \subseteq Over(d, p) BY <2>1, <2>6, OverOver
      <3> QED BY <2>1, <2>4, <3>1, NotOverItself
    <2> QED BY <2>3, <2>5, <2>6
  <1>2. ASSUME NEW r \in S, Ups(d)[r] \cap S = {} PROVE FALSE
    <2>1. PICK u, v \in Nodes : Both(r, u, v) OBVIOUS
    <2>2. u \in Over(d, r) /\ v \in Over(d, r)
      <3>1. u = r => v \in Over(d, r) /\ d.up[r] = d.up[v] /\ d.up[r] # None BY <2>1
      <3>2. v = r => u \in Over(d, r) /\ d.up[r] = d.up[u] /\ d.up[r] # None BY <2>1
      <3>3. u # r /\ v # r BY <1>1, <3>1, <3>2
      <3> QED BY <2>1, <3>3
    <2>3. d.up[r] # None BY <2>2, OverIs
    <2>4. Over(d, r) = {d.up[r]} \cup Over(d, d.up[r]) BY <2>3, OverIs
    <2>5. d.up[r] \in Nodes /\ d.up[r] \in Ups(d)[r] BY <2>3, Parent DEF Elements, Ups
    <2>6. Both(d.up[r], u, v) BY <2>1, <2>2, <2>4
    <2> QED BY <1>2, <2>1, <2>5, <2>6
  <1>3. S = {}
    <2>1. S \in SUBSET Nodes OBVIOUS
    <2> HIDE DEF S
    <2> QED BY <1>2, <2>1, UpIsGrounded DEF Grounded
  <1>4. x \in Nodes /\ y \in Nodes BY OverIs
  <1> QED BY <1>3, <1>4

(* t is a stretch of s.                                                    *)
Part(s, t) == \E a, b \in Seq(Nodes) : s = (a \o t) \o b

(* Concatenations may be grouped as one likes, of three sequences          *)
LEMMA Associate ==
  ASSUME NEW N, NEW a \in Seq(N), NEW b \in Seq(N), NEW c \in Seq(N)
  PROVE  Same((a \o b) \o c, a \o (b \o c))
  <1>1. (a \o b) \o c = a \o (b \o c) BY ConcatAssociative
  <1> QED BY <1>1 DEF Same

(* and of five.                                                            *)
LEMMA Regroup ==
  ASSUME NEW N, NEW a \in Seq(N), NEW p \in Seq(N), NEW t \in Seq(N), NEW q \in Seq(N), NEW b \in Seq(N)
  PROVE  Same((a \o ((p \o t) \o q)) \o b, ((a \o p) \o t) \o (q \o b))
  <1> DEFINE pt == p \o t
             apt == a \o pt
  <1>1. pt \in Seq(N) BY ConcatProperties
  <1>2. Same((a \o p) \o t, a \o (p \o t)) BY Associate
  <1> HIDE DEF pt
  <1>3. Same((a \o pt) \o q, a \o (pt \o q)) BY <1>1, Associate
  <1>7. apt \in Seq(N) BY <1>1, ConcatProperties
  <1> HIDE DEF apt
  <1>4. Same((apt \o q) \o b, apt \o (q \o b)) BY <1>7, Associate
  <1>5. apt = (a \o p) \o t BY <1>2 DEF apt, pt, Same
  <1>6. (a \o (pt \o q)) \o b = ((a \o p) \o t) \o (q \o b) BY <1>3, <1>4, <1>5 DEF apt, Same
  <1> QED BY <1>6 DEF Same, pt

(* A part of a part is a part.                                             *)
LEMMA PartOfPart ==
  ASSUME NEW r \in Seq(Nodes), NEW s \in Seq(Nodes), NEW t \in Seq(Nodes), Part(r, s), Part(s, t)
  PROVE  Part(r, t)
  <1>1. PICK a, b \in Seq(Nodes) : r = (a \o s) \o b BY DEF Part
  <1>2. PICK p, q \in Seq(Nodes) : s = (p \o t) \o q BY DEF Part
  <1>3. a \o p \in Seq(Nodes) /\ q \o b \in Seq(Nodes) BY ConcatProperties
  <1>5. Same((a \o ((p \o t) \o q)) \o b, ((a \o p) \o t) \o (q \o b)) BY Regroup
  <1>4. r = ((a \o p) \o t) \o (q \o b) BY <1>1, <1>2, <1>5 DEF Same
  <1> QED BY <1>3, <1>4 DEF Part

(* The texts of a node stand together in those of any node over it.        *)
LEMMA TextsStandTogether ==
  ASSUME NEW d, WellFormed(d), NEW x \in Nodes, NEW u \in Over(d, x)
  PROVE  Part(TextNodes(d, u), TextNodes(d, x))
  <1> DEFINE B == Below(d)
             S == {y \in Nodes : u \in Over(d, y) /\ ~ Part(B[u], B[y])}
  <1>1. /\ Yields(B, Nodes, Nodes)
        /\ \A y \in Nodes : B[y] = TextNodes(d, y)
        /\ \A y \in Nodes : B[y] = IF d.kind[y] = "text" THEN <<y>> ELSE Join(B, d.kids[y])
    BY TextNodesAre
  <1> HIDE DEF B
  <1>2. u \in Nodes BY OverIs
  <1>3. ASSUME NEW y \in S, Ups(d)[y] \cap S = {} PROVE FALSE
    <2> DEFINE p == d.up[y]
               k == d.kids[p]
    <2>1. p # None BY <1>3, OverIs
    <2>2. p \in Elements(d) /\ y \in ToSet(k) /\ k \in Seq(Nodes) /\ Distinct(k) BY <2>1, Parent
    <2>3. p \in Nodes /\ B[p] = Join(B, k) BY <1>1, <2>2 DEF Elements
    <2>4. Over(d, y) = {p} \cup Over(d, p) BY <2>1, OverIs
    <2>5. p \in Ups(d)[y] BY <2>3 DEF Ups
    <2>6. PICK pre, suf \in Seq(Nodes) : Stands(k, y, pre, suf)
      <3> HIDE DEF k
      <3> QED BY <2>2, Around
    <2>7. k = (pre \o <<y>>) \o suf BY <2>6 DEF Stands
    <2>8. Same(Join(B, (pre \o <<y>>) \o suf), (Join(B, pre) \o Join(B, <<y>>)) \o Join(B, suf))
      <3>1. <<y>> \in Seq(Nodes) OBVIOUS
      <3> QED BY <1>1, <3>1, JoinThree
    <2>9. Same(Join(B, <<y>>), B[y])
      <3>1. B[y] \in Seq(Nodes) BY <1>1 DEF Yields
      <3> QED BY <3>1, JoinOne
    <2>10. Join(B, pre) \in Seq(Nodes) /\ Join(B, suf) \in Seq(Nodes) BY <1>1, JoinType
    <2>11. B[p] = (Join(B, pre) \o B[y]) \o Join(B, suf) BY <2>3, <2>7, <2>8, <2>9 DEF Same
    <2>12. Part(B[p], B[y]) BY <2>10, <2>11 DEF Part
    <2>13. CASE u = p BY <2>12, <2>13, <1>3
    <2>14. CASE u \in Over(d, p)
      <3>1. Part(B[u], B[p]) BY <1>3, <2>3, <2>5, <2>14
      <3>2. B[u] \in Seq(Nodes) /\ B[p] \in Seq(Nodes) /\ B[y] \in Seq(Nodes) BY <1>1, <1>2, <2>3 DEF Yields
      <3>3. Part(B[u], B[y]) BY <2>12, <3>1, <3>2, PartOfPart
      <3> QED BY <3>3
    <2> QED BY <1>3, <2>4, <2>13, <2>14
  <1>4. S = {}
    <2>1. S \in SUBSET Nodes OBVIOUS
    <2> HIDE DEF S
    <2> QED BY <1>3, <2>1, UpIsGrounded DEF Grounded
  <1> QED BY <1>1, <1>2, <1>4

(* A text is among the texts of all that is over it.                       *)
LEMMA TextIsBelow ==
  ASSUME NEW d, WellFormed(d), NEW t \in Texts(d), NEW u \in {t} \cup Over(d, t)
  PROVE  t \in ToSet(TextNodes(d, u))
  <1>1. t \in Nodes /\ TextNodes(d, t) = <<t>> BY TextNode, TextNodesAre
  <1>2. ToSet(<<t>>) = {t} BY OnesAndTwos
  <1>3. CASE u \in Over(d, t)
    <2> DEFINE one == <<t>>
    <2>1. PICK a, b \in Seq(Nodes) : TextNodes(d, u) = (a \o one) \o b BY <1>1, <1>3, TextsStandTogether DEF Part
    <2>2. one \in Seq(Nodes) /\ t \in ToSet(one) BY <1>1, <1>2
    <2> HIDE DEF one
    <2>3. ToSet((a \o one) \o b) = (ToSet(a) \cup ToSet(one)) \cup ToSet(b) BY <2>2, ThreeParts
    <2> QED BY <2>1, <2>2, <2>3
  <1> QED BY <1>1, <1>2, <1>3

(* Where sequences have no element twice, positions are what they say.     *)
LEMMA PositionIs ==
  ASSUME NEW N, NEW s \in Seq(N), Distinct(s), NEW i \in 1 .. Len(s)
  PROVE  Position(s, s[i]) = i
  <1>1. DOMAIN s = 1 .. Len(s) BY LenProperties
  <1>2. \A k \in DOMAIN s : s[k] = s[i] => k = i BY <1>1 DEF Distinct
  <1> QED BY <1>1, <1>2 DEF Position

(* What is joined has no element twice if no two of the parts share one.   *)
LEMMA DistinctJoin ==
  ASSUME NEW N, NEW M, NEW s \in Seq(N), NEW f, Yields(f, N, M),
         \A i \in 1 .. Len(s) : Distinct(f[s[i]]),
         \A i, j \in 1 .. Len(s) : i # j => ToSet(f[s[i]]) \cap ToSet(f[s[j]]) = {}
  PROVE  Distinct(Join(f, s))
  <1> DEFINE pre(k) == SubSeq(s, 1, k)
             Fine(k) == /\ Distinct(Join(f, pre(k)))
                        /\ \A t \in ToSet(Join(f, pre(k))) : \E i \in 1 .. k : t \in ToSet(f[s[i]])
             T == {k \in 0 .. Len(s) : ~ Fine(k)}
  <1>1. Len(s) \in Nat BY LenProperties
  <1>2. Fine(0)
    <2>1. pre(0) = <<>> BY SubSeqEmpty
    <2>2. Join(f, pre(0)) = <<>> BY <2>1, JoinEmpty
    <2>3. Distinct(<<>>) BY DEF Distinct
    <2>4. ToSet(<<>>) = {} BY OnesAndTwos
    <2> HIDE DEF pre
    <2> QED BY <2>2, <2>3, <2>4
  <1>3. ASSUME T # {} PROVE FALSE
    <2>1. T \subseteq Nat BY <1>1, SMT
    <2>2. PICK k \in T : \A j \in T : k <= j BY <2>1, <1>3, Least
    <2>3. k # 0 BY <1>2
    <2>4. k \in 1 .. Len(s) /\ k - 1 \in 0 .. Len(s) /\ ~ (k <= k - 1) BY <1>1, <2>3
    <2>5. Fine(k - 1) BY <2>2, <2>4
    <2> DEFINE p == pre(k - 1)
               y == s[k]
               one == <<y>>
               l == Join(f, p)
               b == f[y]
    <2>6. pre(k) = Append(p, y) /\ p \in Seq(N) /\ y \in N BY <2>4, SubSeqStep
    <2>7. Distinct(l) /\ \A t \in ToSet(l) : \E i \in 1 .. k - 1 : t \in ToSet(f[s[i]]) BY <2>5
    <2>8. Append(p, y) = p \o one /\ one \in Seq(N)
      <3> HIDE DEF p, y
      <3> QED BY <2>6, AppendIsConcat
    <2>9. b \in Seq(M) /\ Same(Join(f, one), b)
      <3>1. b \in Seq(M) BY <2>6 DEF Yields
      <3> HIDE DEF y
      <3> QED BY <3>1, JoinOne
    <2>10. Same(Join(f, p \o one), Join(f, p) \o Join(f, one)) /\ l \in Seq(M)
      <3> HIDE DEF p, one
      <3>1. Join(f, p) \in Seq(M) BY <2>6, JoinType
      <3> QED BY <2>6, <2>8, <3>1, JoinConcat
    <2>11. Join(f, pre(k)) = l \o b BY <2>6, <2>8, <2>9, <2>10 DEF Same
    <2>12. Distinct(b) BY <2>4
    <2>13. ToSet(l) \cap ToSet(b) = {}
      <3>1. ASSUME NEW t \in ToSet(l), t \in ToSet(b) PROVE FALSE
        <4>1. PICK i \in 1 .. k - 1 : t \in ToSet(f[s[i]]) BY <2>7
        <4>2. i \in 1 .. Len(s) /\ i # k BY <1>1, <2>4
        <4>3. ToSet(f[s[i]]) \cap ToSet(f[s[k]]) = {} BY <2>4, <4>2
        <4> QED BY <3>1, <4>1, <4>3
      <3> QED BY <3>1
    <2> HIDE DEF l, b
    <2>14. Distinct(l \o b) /\ ToSet(l \o b) = ToSet(l) \cup ToSet(b) BY <2>7, <2>9, <2>10, <2>12, <2>13, DistinctConcat, ToSetConcat
    <2>15. Fine(k)
      <3>1. ASSUME NEW t \in ToSet(l \o b) PROVE \E i \in 1 .. k : t \in ToSet(f[s[i]])
        <4>1. CASE t \in ToSet(l)
          <5>1. PICK i \in 1 .. k - 1 : t \in ToSet(f[s[i]]) BY <2>7, <4>1
          <5>2. i \in 1 .. k BY <1>1, <2>4
          <5> QED BY <5>1, <5>2
        <4>2. CASE t \in ToSet(b)
          <5>1. k \in 1 .. k BY <2>4
          <5> QED BY <4>2, <5>1 DEF b
        <4> QED BY <2>14, <3>1, <4>1, <4>2
      <3> HIDE DEF pre
      <3> QED BY <2>11, <2>14, <3>1
    <2> QED BY <2>2, <2>15
  <1>4. Fine(Len(s)) BY <1>1, <1>3
  <1>5. pre(Len(s)) = s BY SubSeqFull
  <1> QED BY <1>4, <1>5

(* No text stands twice in the texts of a node.                            *)
LEMMA TextsDiffer ==
  ASSUME NEW d, WellFormed(d), NEW n \in Nodes
  PROVE  Distinct(TextNodes(d, n)) /\ TextNodes(d, n) \in Seq(Nodes)
  <1> DEFINE B == Below(d)
             S == {x \in Nodes : ~ Distinct(B[x])}
  <1>1. /\ Yields(B, Nodes, Nodes)
        /\ \A x \in Nodes : B[x] = TextNodes(d, x)
        /\ \A x \in Nodes : B[x] = IF d.kind[x] = "text" THEN <<x>> ELSE Join(B, d.kids[x])
    BY TextNodesAre
  <1>0. d.kids \in [Nodes -> Seq(Nodes)] BY Typed DEF WellFormed
  <1> HIDE DEF B
  <1>2. ASSUME NEW x \in S, ToSet(d.kids[x]) \cap S = {} PROVE FALSE
    <2> DEFINE s == d.kids[x]
    <2>1. CASE d.kind[x] = "text"
      <3>1. B[x] = <<x>> BY <1>1, <2>1
      <3> QED BY <3>1, OnesAndTwos
    <2>2. CASE d.kind[x] # "text"
      <3>1. B[x] = Join(B, s) /\ s \in Seq(Nodes) /\ Distinct(s) BY <1>0, <1>1, <2>2 DEF WellFormed, Distinct
      <3>2. \A y \in ToSet(s) : y \in Nodes /\ d.up[y] = x /\ Distinct(B[y])
        <4>1. ASSUME NEW y \in ToSet(s) PROVE y \in Nodes /\ d.up[y] = x /\ Distinct(B[y])
          <5>1. y \in Nodes /\ d.up[y] = x BY OneParent
          <5> QED BY <5>1, <1>2
        <4> QED BY <4>1
      <3> HIDE DEF s
      <3>3. DOMAIN s = 1 .. Len(s) /\ \A i \in 1 .. Len(s) : s[i] \in ToSet(s) BY <3>1, LenProperties, ToSetIs
      <3>4. ASSUME NEW i \in 1 .. Len(s), NEW j \in 1 .. Len(s), i # j, NEW t \in ToSet(B[s[i]]), t \in ToSet(B[s[j]]) PROVE FALSE
        <4>1. s[i] \in Nodes /\ s[j] \in Nodes /\ d.up[s[i]] = x /\ d.up[s[j]] = x BY <3>2, <3>3
        <4>2. B[s[i]] = TextNodes(d, s[i]) /\ B[s[j]] = TextNodes(d, s[j]) BY <1>1, <4>1
        <4>3. t = s[i] \/ s[i] \in Over(d, t) BY <3>4, <4>1, <4>2, TextsBelow
        <4>4. t = s[j] \/ s[j] \in Over(d, t) BY <3>4, <4>1, <4>2, TextsBelow
        <4>5. t \in Nodes
          <5>1. B[s[i]] \in Seq(Nodes) BY <1>1, <4>1 DEF Yields
          <5> QED BY <5>1, <3>4, ToSetIs
        <4>6. x # None BY NodesAssumption DEF None
        <4>7. s[i] = s[j] BY <4>1, <4>3, <4>4, <4>5, <4>6, OneOver
        <4> QED BY <3>1, <3>3, <3>4, <4>7 DEF Distinct
      <3>5. \A i \in 1 .. Len(s) : Distinct(B[s[i]]) BY <3>2, <3>3
      <3>6. \A i, j \in 1 .. Len(s) : i # j => ToSet(B[s[i]]) \cap ToSet(B[s[j]]) = {} BY <3>4
      <3>7. Distinct(Join(B, s)) BY <1>1, <3>1, <3>5, <3>6, DistinctJoin
      <3> QED BY <3>1, <3>7
    <2> QED BY <2>1, <2>2
  <1>3. S = {}
    <2>1. S \in SUBSET Nodes OBVIOUS
    <2>2. ASSUME S # {} PROVE FALSE
      <3>1. S \in (SUBSET Nodes) \ {{}} BY <2>1, <2>2
      <3> HIDE DEF S
      <3>2. PICK x \in S : ToSet(d.kids[x]) \cap S = {} BY <3>1 DEF WellFormed
      <3> QED BY <1>2, <3>2
    <2> QED BY <2>2
  <1> QED BY <1>1, <1>3 DEF Yields
=============================================================================
