-------------------------- MODULE Variables_proofs --------------------------
(***************************************************************************)
(* However many classes are transformed, by whatever threads: as long as   *)
(* transformations do not overlap, a number stands for one class, for its  *)
(* entry in the files of names and for its variables.                      *)
(***************************************************************************)
EXTENDS Variables, TLAPS, SequenceTheorems, FiniteSetTheorems

Rewritten == {"compiled", "named", "listed", "counting"}
Stages == {"new", "declared", "done", "failed"} \cup Rewritten
HasName(c) == stage[c] \in {"named", "listed", "counting"}
HasMethods(c) == stage[c] \in {"listed", "counting"}

TypesInv ==
  /\ classIndex \in Nat
  /\ stage \in [Classes -> Stages]
  /\ compiled \in [Classes -> Nat]
  /\ seen \in [Classes -> Nat]
  /\ known = [c \in Classes |-> known[c]]
  /\ classNames \in Seq(Classes)
  /\ methodNames \in Seq(Classes)

(* One class at a time has the number that is next.                        *)
NumbersInv ==
  "overlap" \notin disorder =>
    /\ \A c, d \in Busy : c = d
    /\ \A c \in Classes : stage[c] \in Rewritten => compiled[c] = classIndex
    /\ \A c \in Classes : stage[c] = "counting" => seen[c] = classIndex
    /\ \A c \in Classes : stage[c] = "done" => compiled[c] < classIndex

(* The files have an entry for each number given, and for the class that   *)
(* is about to use up the next one.                                        *)
NamesInv ==
  disorder \cap {"overlap", "io"} = {} =>
    /\ Busy = {} => Len(classNames) = classIndex /\ Len(methodNames) = classIndex
    /\ \A c \in Busy :
         /\ Len(classNames) = classIndex + (IF HasName(c) THEN 1 ELSE 0)
         /\ Len(methodNames) = classIndex + (IF HasMethods(c) THEN 1 ELSE 0)
    /\ \A c \in Classes :
         /\ HasName(c) \/ stage[c] = "done" =>
              compiled[c] + 1 \in 1 .. Len(classNames) /\ classNames[compiled[c] + 1] = c
         /\ HasMethods(c) \/ stage[c] = "done" =>
              compiled[c] + 1 \in 1 .. Len(methodNames) /\ methodNames[compiled[c] + 1] = c

(* Nothing is declared under a number that has not been given, but by the  *)
(* class that is about to use it up.                                       *)
Those(R, n) == {e \in R : e.method = Method(n)}
DefinitionsInv ==
  disorder \cap {"overlap", "failure"} = {} =>
    /\ \A n \in Nat : n > classIndex => Those(rangedVariables, n) = {}
    /\ Busy = {} => Those(rangedVariables, classIndex) = {}
    /\ \A c \in Busy : Those(rangedVariables, classIndex) = Entries(classIndex, scopes[c])
    /\ \A c \in Classes : stage[c] \in Rewritten \cup {"done"} =>
         /\ Those(rangedVariables, compiled[c]) = Entries(compiled[c], scopes[c])
         /\ known[c] = Those(rangedVariables, compiled[c])

IInv == TypesInv /\ NumbersInv /\ NamesInv /\ DefinitionsInv

-----------------------------------------------------------------------------
(* Identifiers of methods (DumpingGround.uniqueMethodIdentifier): two      *)
(* methods never have the same, whatever their classes' and their own      *)
(* numbers, so that definitions of one are not found for another.          *)
LEMMA SquaresGrow == ASSUME NEW a \in Nat, NEW b \in Nat, a < b PROVE a * a + a + a < b * b
  <1>1. PICK k \in Nat : b = a + 1 + k BY SMT
  <1>2. b * b = a * a + a + a + 1 + 2 * k + k * k + 2 * (a * k) BY <1>1, SMT
  <1>3. k * k \in Nat /\ a * k \in Nat BY SMT
  <1> QED BY <1>2, <1>3, SMT

(* The pairing of a and b lies in the square numbered by the greater one.  *)
LEMMA InSquare ==
  ASSUME NEW a \in Nat, NEW b \in Nat, NEW m \in Nat, m = IF a >= b THEN a ELSE b
  PROVE  /\ szudzikPairing(a, b) \in Nat
         /\ m * m <= szudzikPairing(a, b)
         /\ szudzikPairing(a, b) <= m * m + m + m
  BY SMT DEF szudzikPairing

THEOREM IdentifiersAreUnique ==
  ASSUME NEW a \in Nat, NEW b \in Nat, NEW c \in Nat, NEW d \in Nat,
         szudzikPairing(a, b) = szudzikPairing(c, d)
  PROVE  a = c /\ b = d
  <1> DEFINE m == IF a >= b THEN a ELSE b
             n == IF c >= d THEN c ELSE d
  <1>1. m \in Nat /\ n \in Nat OBVIOUS
  <1>2. /\ szudzikPairing(a, b) \in Nat
        /\ m * m <= szudzikPairing(a, b) /\ szudzikPairing(a, b) <= m * m + m + m
    BY <1>1, InSquare
  <1>3. n * n <= szudzikPairing(c, d) /\ szudzikPairing(c, d) <= n * n + n + n BY <1>1, InSquare
  <1>4. m * m \in Nat /\ n * n \in Nat BY <1>1, SMT
  <1>5. ~ m < n
    <2> SUFFICES ASSUME m < n PROVE FALSE OBVIOUS
    <2>1. m * m + m + m < n * n BY <1>1, SquaresGrow
    <2> HIDE DEF m, n
    <2> QED BY <2>1, <1>1, <1>2, <1>3, <1>4, SMT
  <1>6. ~ n < m
    <2> SUFFICES ASSUME n < m PROVE FALSE OBVIOUS
    <2>1. n * n + n + n < m * m BY <1>1, SquaresGrow
    <2> HIDE DEF m, n
    <2> QED BY <2>1, <1>1, <1>2, <1>3, <1>4, SMT
  <1>7. m = n
    <2> HIDE DEF m, n
    <2> QED BY <1>1, <1>5, <1>6, SMT
  <1>8. szudzikPairing(a, b) = IF a >= b THEN m * m + m + b ELSE m * m + a BY SMT DEF szudzikPairing
  <1>9. szudzikPairing(c, d) = IF c >= d THEN n * n + n + d ELSE n * n + c BY SMT DEF szudzikPairing
  <1>10. CASE a >= b /\ c >= d
    <2>1. m * m + m + b = m * m + m + d BY <1>7, <1>8, <1>9, <1>10
    <2>2. b = d
      <3> HIDE DEF m, n
      <3> QED BY <2>1, <1>1, <1>4, SMT
    <2> QED BY <2>2, <1>7, <1>10
  <1>11. CASE a >= b /\ ~ c >= d
    <2>1. m * m + m + b = m * m + c BY <1>7, <1>8, <1>9, <1>11
    <2>2. m + b = c
      <3> HIDE DEF m, n
      <3> QED BY <2>1, <1>1, <1>4, SMT
    <2> QED BY <2>2, <1>7, <1>11
  <1>12. CASE ~ a >= b /\ c >= d
    <2>1. m * m + a = m * m + m + d BY <1>7, <1>8, <1>9, <1>12
    <2>2. a = m + d
      <3> HIDE DEF m, n
      <3> QED BY <2>1, <1>1, <1>4, SMT
    <2> QED BY <2>2, <1>7, <1>12
  <1>13. CASE ~ a >= b /\ ~ c >= d
    <2>1. m * m + a = m * m + c BY <1>7, <1>8, <1>9, <1>13
    <2>2. a = c
      <3> HIDE DEF m, n
      <3> QED BY <2>1, <1>1, <1>4, SMT
    <2> QED BY <2>2, <1>7, <1>13
  <1> QED BY <1>10, <1>11, <1>12, <1>13

LEMMA MethodsDiffer == ASSUME NEW n \in Nat, NEW k \in Nat, Method(n) = Method(k) PROVE n = k
  BY IdentifiersAreUnique DEF Method

-----------------------------------------------------------------------------
(* What tracking declarations does to those under a number.                *)
LEMMA Tracked ==
  ASSUME NEW k \in Nat, NEW D, rangedVariables' = Track(k, D)
  PROVE  /\ \A n \in Nat \ {k} : Those(rangedVariables', n) = Those(rangedVariables, n)
         /\ Those(rangedVariables, k) = {} => Those(rangedVariables', k) = Entries(k, D)
  <1>1. \A e \in Entries(k, D) : e.method = Method(k) BY DEF Entries
  <1>2. ASSUME NEW n \in Nat \ {k} PROVE Those(rangedVariables', n) = Those(rangedVariables, n)
    <2>1. Method(n) # Method(k) BY MethodsDiffer
    <2>2. ASSUME NEW e, e \in Those(rangedVariables, n) PROVE e \in Those(rangedVariables', n)
      BY <2>1, <2>2 DEF Those, Track
    <2>3. ASSUME NEW e, e \in Those(rangedVariables', n) PROVE e \in Those(rangedVariables, n)
      BY <2>1, <2>3, <1>1 DEF Those, Track
    <2> QED BY <2>2, <2>3
  <1>3. ASSUME Those(rangedVariables, k) = {} PROVE Those(rangedVariables', k) = Entries(k, D)
    <2>1. ASSUME NEW e, e \in Entries(k, D) PROVE e \in Those(rangedVariables', k)
      BY <2>1, <1>1 DEF Those, Track
    <2>2. ASSUME NEW e, e \in Those(rangedVariables', k) PROVE e \in Entries(k, D)
      BY <2>2, <1>3 DEF Those, Track
    <2> QED BY <2>1, <2>2
  <1> QED BY <1>2, <1>3

LEMMA InitInv == Init => IInv
  <1> SUFFICES ASSUME Init PROVE IInv OBVIOUS
  <1> USE DEF Init, LoadingInit
  <1>1. Busy = {} BY DEF Busy
  <1>2. TypesInv BY DEF TypesInv, Stages, Rewritten
  <1>3. NumbersInv BY <1>1 DEF NumbersInv, Rewritten
  <1>4. NamesInv BY <1>1 DEF NamesInv, HasName, HasMethods
  <1>5. DefinitionsInv BY <1>1 DEF DefinitionsInv, Those, Rewritten
  <1> QED BY <1>2, <1>3, <1>4, <1>5 DEF IInv

-----------------------------------------------------------------------------
(* The steps of a transformation.                                          *)
LEMMA FailCounts == ASSUME NEW c, Fail(c) PROVE classIndex' = classIndex \/ classIndex' = seen[c] + 1
  BY DEF Fail

LEMMA TypesStep == ASSUME TypesInv, NEW c \in Classes, Transform(c) PROVE TypesInv'
  <1> USE DEF TypesInv, Stages, Rewritten, At
  <1>1. CASE Declare(c) BY <1>1 DEF Declare
  <1>2. CASE Compile(c) BY <1>2 DEF Compile
  <1>3. CASE Fail(c)
    <2>1. classIndex' = classIndex \/ classIndex' = seen[c] + 1 BY <1>3, FailCounts
    <2>2. classIndex' \in Nat BY <2>1
    <2>3. UNCHANGED <<scopes, compiled, known, seen, classNames, methodNames>> BY <1>3 DEF Fail
    <2>4. stage' \in [Classes -> Stages] BY <1>3 DEF Fail
    <2> QED BY <2>2, <2>3, <2>4
  <1>4. CASE NameClass(c)
    <2>1. CASE classNames' = Append(classNames, c)
      <3>1. classNames' \in Seq(Classes) BY <2>1, AppendProperties
      <3> QED BY <1>4, <3>1 DEF NameClass
    <2>2. CASE UNCHANGED classNames BY <1>4, <2>2 DEF NameClass
    <2> QED BY <1>4, <2>1, <2>2 DEF NameClass
  <1>5. CASE NameMethods(c)
    <2>1. CASE methodNames' = Append(methodNames, c)
      <3>1. methodNames' \in Seq(Classes) BY <2>1, AppendProperties
      <3> QED BY <1>5, <3>1 DEF NameMethods
    <2>2. CASE UNCHANGED methodNames BY <1>5, <2>2 DEF NameMethods
    <2> QED BY <1>5, <2>1, <2>2 DEF NameMethods
  <1>6. CASE ReadIndex(c) BY <1>6 DEF ReadIndex
  <1>7. CASE CountUp(c) BY <1>7 DEF CountUp
  <1> QED BY <1>1, <1>2, <1>3, <1>4, <1>5, <1>6, <1>7 DEF Transform

(* Whoever goes on in the middle of a transformation was alone and stays   *)
(* alone; whoever begins or fails was, if nothing is said to overlap after. *)
Idle == {"new", "done", "failed"}
LEMMA AloneStep ==
  ASSUME TypesInv, NumbersInv, NEW c \in Classes, Transform(c), "overlap" \notin disorder'
  PROVE  /\ "overlap" \notin disorder
         /\ \A d \in Classes \ {c} : stage'[d] = stage[d] /\ stage[d] \in Idle
         /\ Busy = {} \/ Busy = {c}
         /\ stage[c] \notin Idle => Busy = {c}
         /\ stage[c] \in Idle => Busy = {}
         /\ stage'[c] \notin Idle => Busy' = {c}
         /\ stage'[c] \in Idle => Busy' = {}
         /\ disorder \subseteq disorder'
         /\ scopes' = scopes
  <1> USE DEF At
  <1>1. /\ \A d \in Classes \ {c} : stage'[d] = stage[d]
        /\ disorder \subseteq disorder'
        /\ scopes' = scopes
    BY DEF TypesInv, Transform, Declare, Compile, Fail, NameClass, NameMethods, ReadIndex, CountUp
  <1>2. "overlap" \notin disorder BY <1>1
  <1>3. \A d, e \in Busy : d = e BY <1>2 DEF NumbersInv
  <1>4. Busy \subseteq {c}
    <2>1. CASE Declare(c) BY <2>1 DEF Declare
    <2>2. CASE Fail(c) BY <2>2 DEF Fail
    <2>3. CASE ~ Declare(c) /\ ~ Fail(c)
      <3>1. stage[c] \in Rewritten \cup {"declared"}
        BY <2>3 DEF Transform, Compile, NameClass, NameMethods, ReadIndex, CountUp, Rewritten
      <3>2. c \in Busy BY <3>1 DEF Busy, Rewritten
      <3> QED BY <1>3, <3>2
    <2> QED BY <2>1, <2>2, <2>3
  <1>5. \A d \in Classes \ {c} : stage[d] \in Idle BY <1>4 DEF Busy, Idle
  <1>6. c \in Busy <=> stage[c] \notin Idle BY DEF Busy, Idle
  <1>7. Busy' = {d \in Classes : stage'[d] \notin Idle} BY DEF Busy, Idle
  <1>8. Busy' = IF stage'[c] \in Idle THEN {} ELSE {c} BY <1>1, <1>5, <1>7
  <1> QED BY <1>1, <1>2, <1>4, <1>5, <1>6, <1>8

LEMMA NumbersStep == ASSUME TypesInv, NumbersInv, NEW c \in Classes, Transform(c) PROVE NumbersInv'
  <1> SUFFICES ASSUME "overlap" \notin disorder' PROVE NumbersInv' BY DEF NumbersInv
  <1>0. /\ Busy' = {} \/ Busy' = {c}
        /\ \A d \in Classes \ {c} : stage'[d] = stage[d] /\ stage[d] \in Idle
    BY AloneStep
  <1>n. /\ \A d \in Classes : stage[d] \in Rewritten => compiled[d] = classIndex
        /\ \A d \in Classes : stage[d] = "counting" => seen[d] = classIndex
        /\ \A d \in Classes : stage[d] = "done" => compiled[d] < classIndex
    BY AloneStep DEF NumbersInv
  <1>t. classIndex \in Nat /\ compiled \in [Classes -> Nat] /\ seen \in [Classes -> Nat] /\ stage \in [Classes -> Stages]
    BY DEF TypesInv
  <1> DEFINE Others(d) == /\ stage'[d] \in Rewritten => compiled'[d] = classIndex'
                          /\ stage'[d] = "counting" => seen'[d] = classIndex'
                          /\ stage'[d] = "done" => compiled'[d] < classIndex'
  <1> SUFFICES ASSUME NEW d \in Classes PROVE Others(d)
    BY <1>0 DEF NumbersInv
  <1> USE <1>0, <1>n, <1>t DEF Idle, Rewritten, Stages, At
  <1>1. CASE Declare(c) BY <1>1 DEF Declare
  <1>2. CASE Compile(c) BY <1>2 DEF Compile
  <1>3. CASE Fail(c)
    <2>1. /\ classIndex' = classIndex \/ classIndex' = classIndex + 1
          /\ compiled' = compiled /\ seen' = seen
          /\ stage'[c] = "failed"
      BY <1>3 DEF Fail
    <2> QED BY <2>1
  <1>4. CASE NameClass(c) BY <1>4 DEF NameClass
  <1>5. CASE NameMethods(c) BY <1>5 DEF NameMethods
  <1>6. CASE ReadIndex(c) BY <1>6 DEF ReadIndex
  <1>7. CASE CountUp(c)
    <2>1. /\ classIndex' = classIndex + 1
          /\ compiled' = compiled
          /\ stage'[c] = "done" /\ compiled[c] = classIndex
      BY <1>7 DEF CountUp
    <2> QED BY <2>1
  <1> QED BY <1>1, <1>2, <1>3, <1>4, <1>5, <1>6, <1>7 DEF Transform

(* A name is added at the end, and the others stay where they are.         *)
LEMMA Added ==
  ASSUME NEW s \in Seq(Classes), NEW c \in Classes
  PROVE  /\ Len(Append(s, c)) = Len(s) + 1
         /\ Append(s, c)[Len(s) + 1] = c
         /\ \A k \in 1 .. Len(s) : Append(s, c)[k] = s[k]
  <1>1. Append(s, c) \in Seq(Classes) /\ Len(Append(s, c)) = Len(s) + 1 BY AppendProperties
  <1>2. Len(s) \in Nat OBVIOUS
  <1>3. Append(s, c)[Len(s) + 1] = c BY <1>2, AppendProperties
  <1>4. \A k \in 1 .. Len(s) : Append(s, c)[k] = s[k] BY <1>2, AppendProperties
  <1> QED BY <1>1, <1>3, <1>4

LEMMA NamesStep == ASSUME TypesInv, NumbersInv, NamesInv, NEW c \in Classes, Transform(c) PROVE NamesInv'
  <1> SUFFICES ASSUME disorder' \cap {"overlap", "io"} = {} PROVE NamesInv' BY DEF NamesInv
  <1>0. /\ disorder \cap {"overlap", "io"} = {}
        /\ \A d \in Classes \ {c} : stage'[d] = stage[d] /\ stage[d] \in Idle
        /\ stage[c] \notin Idle => Busy = {c}
        /\ stage[c] \in Idle => Busy = {}
        /\ stage'[c] \notin Idle => Busy' = {c}
        /\ stage'[c] \in Idle => Busy' = {}
    BY AloneStep
  <1>t. /\ classIndex \in Nat /\ compiled \in [Classes -> Nat] /\ stage \in [Classes -> Stages]
        /\ Len(classNames) \in Nat /\ Len(methodNames) \in Nat
        /\ classNames \in Seq(Classes) /\ methodNames \in Seq(Classes)
    BY DEF TypesInv
  <1>n. /\ Len(classNames) = classIndex + (IF HasName(c) THEN 1 ELSE 0)
        /\ Len(methodNames) = classIndex + (IF HasMethods(c) THEN 1 ELSE 0)
    <2>1. CASE stage[c] \in Idle
      <3>1. Busy = {} /\ ~ HasName(c) /\ ~ HasMethods(c) BY <1>0, <2>1 DEF Idle, HasName, HasMethods
      <3>2. Len(classNames) = classIndex /\ Len(methodNames) = classIndex BY <1>0, <3>1 DEF NamesInv
      <3> QED BY <1>t, <3>1, <3>2
    <2>2. CASE stage[c] \notin Idle
      <3>1. c \in Busy BY <1>0, <2>2
      <3> QED BY <1>0, <3>1 DEF NamesInv
    <2> QED BY <2>1, <2>2
  <1> DEFINE Right(d) ==
               /\ HasName(d) \/ stage[d] = "done" =>
                    compiled[d] + 1 \in 1 .. Len(classNames) /\ classNames[compiled[d] + 1] = d
               /\ HasMethods(d) \/ stage[d] = "done" =>
                    compiled[d] + 1 \in 1 .. Len(methodNames) /\ methodNames[compiled[d] + 1] = d
  <1>r. \A d \in Classes : Right(d) BY <1>0 DEF NamesInv
  <1>c. /\ stage[c] \in Rewritten => compiled[c] = classIndex
        /\ stage[c] = "counting" => seen[c] = classIndex
    BY <1>0 DEF NumbersInv
  <1> SUFFICES /\ Len(classNames') = classIndex' + (IF HasName(c)' THEN 1 ELSE 0)
               /\ Len(methodNames') = classIndex' + (IF HasMethods(c)' THEN 1 ELSE 0)
               /\ \A d \in Classes : Right(d)'
    <2> HIDE DEF Right
    <2>1. CASE stage'[c] \in Idle
      <3>1. ~ HasName(c)' /\ ~ HasMethods(c)' BY <2>1 DEF Idle, HasName, HasMethods
      <3>2. TypesInv' BY TypesStep
      <3>3. Len(classNames') = classIndex' /\ Len(methodNames') = classIndex' BY <3>1, <3>2 DEF TypesInv
      <3>4. Busy' = {} BY <1>0, <2>1
      <3> QED BY <3>3, <3>4 DEF NamesInv, Right
    <2>2. CASE stage'[c] \notin Idle
      <3>1. Busy' = {c} BY <1>0, <2>2
      <3> QED BY <3>1 DEF NamesInv, Right
    <2> QED BY <2>1, <2>2
  <1> USE <1>0, <1>t, <1>n, <1>r DEF Idle, Rewritten, Stages, HasName, HasMethods, At
  <1>1. CASE Declare(c) BY <1>1 DEF Declare
  <1>2. CASE Compile(c) BY <1>2 DEF Compile
  <1>3. CASE Fail(c)
    <2>1. /\ UNCHANGED <<classNames, methodNames, compiled>> /\ stage'[c] = "failed"
          /\ \/ stage[c] \in {"new", "declared"} /\ classIndex' = classIndex
             \/ stage[c] = "counting" /\ classIndex' = classIndex + 1
      BY <1>3, <1>c DEF Fail
    <2>2. CASE stage[c] \in {"new", "declared"} /\ classIndex' = classIndex BY <2>1, <2>2
    <2>3. CASE stage[c] = "counting" /\ classIndex' = classIndex + 1 BY <2>1, <2>3
    <2> QED BY <2>1, <2>2, <2>3
  <1>4. CASE NameClass(c)
    <2>1. /\ classNames' = Append(classNames, c) /\ UNCHANGED <<methodNames, classIndex, compiled>>
          /\ stage[c] = "compiled" /\ stage'[c] = "named"
      BY <1>4 DEF NameClass
    <2>2. Len(classNames) = classIndex /\ compiled[c] = classIndex BY <2>1, <1>c
    <2>3. /\ Len(classNames') = classIndex + 1
          /\ classNames'[classIndex + 1] = c
          /\ \A k \in 1 .. Len(classNames) : classNames'[k] = classNames[k]
      BY <2>1, <2>2, Added
    <2> QED BY <2>1, <2>2, <2>3
  <1>5. CASE NameMethods(c)
    <2>1. /\ methodNames' = Append(methodNames, c) /\ UNCHANGED <<classNames, classIndex, compiled>>
          /\ stage[c] = "named" /\ stage'[c] = "listed"
      BY <1>5 DEF NameMethods
    <2>2. Len(methodNames) = classIndex /\ compiled[c] = classIndex BY <2>1, <1>c
    <2>3. /\ Len(methodNames') = classIndex + 1
          /\ methodNames'[classIndex + 1] = c
          /\ \A k \in 1 .. Len(methodNames) : methodNames'[k] = methodNames[k]
      BY <2>1, <2>2, Added
    <2> QED BY <2>1, <2>2, <2>3
  <1>6. CASE ReadIndex(c) BY <1>6 DEF ReadIndex
  <1>7. CASE CountUp(c)
    <2>1. /\ classIndex' = classIndex + 1 /\ UNCHANGED <<classNames, methodNames, compiled>>
          /\ stage[c] = "counting" /\ stage'[c] = "done"
      BY <1>7, <1>c DEF CountUp
    <2> QED BY <2>1
  <1> QED BY <1>1, <1>2, <1>3, <1>4, <1>5, <1>6, <1>7 DEF Transform

LEMMA DefinitionsStep ==
  ASSUME TypesInv, NumbersInv, DefinitionsInv, NEW c \in Classes, Transform(c)
  PROVE  DefinitionsInv'
  <1> SUFFICES ASSUME disorder' \cap {"overlap", "failure"} = {} PROVE DefinitionsInv' BY DEF DefinitionsInv
  <1>0. /\ disorder \cap {"overlap", "failure"} = {}
        /\ \A d \in Classes \ {c} : stage'[d] = stage[d] /\ stage[d] \in Idle
        /\ stage[c] \notin Idle => Busy = {c}
        /\ stage[c] \in Idle => Busy = {}
        /\ stage'[c] \notin Idle => Busy' = {c}
        /\ stage'[c] \in Idle => Busy' = {}
        /\ scopes' = scopes
    BY AloneStep
  <1>t. /\ classIndex \in Nat /\ compiled \in [Classes -> Nat] /\ stage \in [Classes -> Stages]
        /\ known = [d \in Classes |-> known[d]]
    BY DEF TypesInv
  <1>c. /\ stage[c] \in Rewritten => compiled[c] = classIndex
        /\ stage[c] = "counting" => seen[c] = classIndex
        /\ \A d \in Classes : stage[d] = "done" => compiled[d] < classIndex
    BY <1>0 DEF NumbersInv
  <1>d. /\ \A n \in Nat : n > classIndex => Those(rangedVariables, n) = {}
        /\ stage[c] \in Idle => Those(rangedVariables, classIndex) = {}
        /\ stage[c] \notin Idle => Those(rangedVariables, classIndex) = Entries(classIndex, scopes[c])
    BY <1>0 DEF DefinitionsInv
  <1> DEFINE Own(d) == stage[d] \in Rewritten \cup {"done"} =>
               /\ Those(rangedVariables, compiled[d]) = Entries(compiled[d], scopes[d])
               /\ known[d] = Those(rangedVariables, compiled[d])
  <1>o. \A d \in Classes : Own(d) BY <1>0 DEF DefinitionsInv
  <1> SUFFICES /\ \A n \in Nat : n > classIndex' => Those(rangedVariables', n) = {}
               /\ stage'[c] \in Idle => Those(rangedVariables', classIndex') = {}
               /\ stage'[c] \notin Idle => Those(rangedVariables', classIndex') = Entries(classIndex', scopes'[c])
               /\ \A d \in Classes : Own(d)'
    <2>1. CASE stage'[c] \in Idle BY <1>0, <2>1 DEF DefinitionsInv
    <2>2. CASE stage'[c] \notin Idle BY <1>0, <2>2 DEF DefinitionsInv
    <2> QED BY <2>1, <2>2
  <1> USE <1>0, <1>t, <1>c, <1>d, <1>o DEF Idle, Rewritten, Stages, At
  <1>1. CASE Declare(c)
    <2>1. stage[c] = "new" /\ stage'[c] = "declared" /\ UNCHANGED <<classIndex, compiled, known>> BY <1>1 DEF Declare
    <2>2. /\ \A n \in Nat \ {classIndex} : Those(rangedVariables', n) = Those(rangedVariables, n)
          /\ Those(rangedVariables', classIndex) = Entries(classIndex, scopes[c])
      BY <1>1, <2>1, Tracked DEF Declare
    <2>3. ASSUME NEW d \in Classes, stage'[d] \in Rewritten \cup {"done"}
          PROVE  stage[d] = "done" /\ compiled[d] \in Nat \ {classIndex}
      BY <2>1, <2>3
    <2>4. \A d \in Classes : Own(d)' BY <2>1, <2>2, <2>3
    <2>5. \A n \in Nat : n > classIndex' => Those(rangedVariables', n) = {} BY <2>1, <2>2
    <2> QED BY <2>1, <2>2, <2>4, <2>5
  <1>2. CASE Compile(c)
    <2>1. /\ stage[c] = "declared" /\ stage'[c] = "compiled" /\ UNCHANGED <<classIndex, rangedVariables>>
          /\ compiled' = [compiled EXCEPT ![c] = classIndex]
          /\ known' = [known EXCEPT ![c] = Those(rangedVariables, classIndex)]
      BY <1>2 DEF Compile, Under, Those
    <2>2. ASSUME NEW d \in Classes PROVE Own(d)' BY <2>1
    <2> QED BY <2>1, <2>2
  <1>3. CASE Fail(c) BY <1>3 DEF Fail
  <1>4. CASE NameClass(c)
    <2>1. stage[c] = "compiled" /\ stage'[c] = "named" /\ UNCHANGED <<classIndex, rangedVariables, compiled, known>>
      BY <1>4 DEF NameClass
    <2> QED BY <2>1
  <1>5. CASE NameMethods(c)
    <2>1. stage[c] = "named" /\ stage'[c] = "listed" /\ UNCHANGED <<classIndex, rangedVariables, compiled, known>>
      BY <1>5 DEF NameMethods
    <2> QED BY <2>1
  <1>6. CASE ReadIndex(c)
    <2>1. stage[c] = "listed" /\ stage'[c] = "counting" /\ UNCHANGED <<classIndex, rangedVariables, compiled, known>>
      BY <1>6 DEF ReadIndex
    <2> QED BY <2>1
  <1>7. CASE CountUp(c)
    <2>1. /\ stage[c] = "counting" /\ stage'[c] = "done" /\ UNCHANGED <<rangedVariables, compiled, known>>
          /\ classIndex' = classIndex + 1
      BY <1>7 DEF CountUp
    <2> QED BY <2>1
  <1> QED BY <1>1, <1>2, <1>3, <1>4, <1>5, <1>6, <1>7 DEF Transform

LEMMA Unchanged == ASSUME IInv, UNCHANGED loading PROVE IInv'
  <1> USE DEF loading
  <1>1. TypesInv' BY DEF IInv, TypesInv
  <1>2. NumbersInv' BY DEF IInv, NumbersInv, Busy
  <1>3. NamesInv' BY DEF IInv, NamesInv, Busy, HasName, HasMethods
  <1>4. DefinitionsInv' BY DEF IInv, DefinitionsInv, Busy
  <1> QED BY <1>1, <1>2, <1>3, <1>4 DEF IInv

LEMMA StepInv == IInv /\ [Next]_vars => IInv'
  <1> SUFFICES ASSUME IInv, [Next]_vars PROVE IInv' OBVIOUS
  <1>1. ASSUME NEW c \in Classes, Transform(c) PROVE IInv'
    BY <1>1, TypesStep, NumbersStep, NamesStep, DefinitionsStep DEF IInv
  <1>2. CASE UNCHANGED loading BY <1>2, Unchanged
  <1> QED BY <1>1, <1>2 DEF Next, vars

LEMMA Invariance == Spec => []IInv
  <1> QED BY InitInv, StepInv, PTL DEF Spec

(* The names of the class and of its methods are found under the number in *)
(* its code, however many transformations have failed.                     *)
THEOREM NamesAreOfClasses == Spec => []NamesAreClasses
  <1>1. ASSUME IInv PROVE NamesAreClasses
    <2>1. DOMAIN classNames = 1 .. Len(classNames) /\ DOMAIN methodNames = 1 .. Len(methodNames)
      BY <1>1 DEF IInv, TypesInv
    <2> QED BY <1>1, <2>1 DEF IInv, NamesInv, NamesAreClasses
  <1> QED BY <1>1, Invariance, PTL

(* Once its code is compiled a class finds its own variables and no others. *)
THEOREM VariablesAreItsOwn == Spec => []OwnVariables
  <1>1. IInv => OwnVariables BY DEF IInv, DefinitionsInv, OwnVariables, Under, Those
  <1> QED BY <1>1, Invariance, PTL

-----------------------------------------------------------------------------
(***************************************************************************)
(* Whatever the program is, as long as it is compiled as programs are: the *)
(* code put in reads only variables that have a value, and what a line is  *)
(* recorded with, and what watches then show, are the values of the        *)
(* variables of that method. It rests on the above: a method finds its own *)
(* variables.                                                              *)
(***************************************************************************)

(* The program runs when all classes are loaded, and then no class is      *)
(* loaded any more. What follows is about the code of a method m and a     *)
(* frame f that executes it; ms is what the agent keeps for the next line. *)

FrameType == [of : Classes, at : Nat, fell : BOOLEAN, unsaved : SUBSET Indices, sure : SUBSET Indices,
              locals : [Indices -> Nat]]
HaveValues(ms) == DOMAIN ms \subseteq Indices /\ \A i \in DOMAIN ms : ms[i] \in Nat /\ ms[i] # 0

(* The code put in front of a label runs when the instruction before it    *)
(* was executed, or at the beginning of the method. What it reads has been *)
(* stored: it is unsaved, has its scope begin here, or is a parameter.     *)
Sound(m, f) ==
  /\ f.at \in 1 .. Len(m.code)
  /\ ~f.fell => IsLabel(m.code[f.at]) /\ f.unsaved = {}
  /\ \A i \in f.unsaved : f.locals[i] # 0
  /\ f.fell /\ f.at = 1 => \A d \in Parameters(m.scopes) : f.locals[d.index] # 0
  /\ f.fell /\ f.at > 1 /\ m.code[f.at - 1].op = "store" => f.locals[m.code[f.at - 1].arg] # 0

(* What is kept is what variables of this method have, unless it has just  *)
(* been called, except for what is about to be told and "this".            *)
Began(f) == f.fell /\ f.at = 1
IsCurrent(m, f, ms) ==
  \A i \in DOMAIN ms \ f.unsaved : ~(m.constructor /\ i = 0) => ms[i] = f.locals[i]

(* What is stored in the course of a line is about to be told or is kept.  *)
IsKept(m, f, ms) ==
  \A i \in f.sure :
    /\ ~(m.constructor /\ i = 0)
    /\ i \notin f.unsaved => i \in DOMAIN ms /\ ms[i] = f.locals[i]

LoadedInv ==
  /\ program = <<>> => stack = <<>> /\ modifiedVariablesByIndex = None
  /\ program # <<>> =>
       /\ program \in Programs
       /\ disorder = {}
       /\ \A c \in Classes : stage[c] = "done" /\ program[c].scopes = scopes[c]

(* Of the frames s of program p. Those that wait for a call have nothing   *)
(* left to be recorded with a line.                                        *)
Frames(p, s) ==
  /\ s \in Seq(FrameType)
  /\ \A k \in 1 .. Len(s) : Sound(p[s[k].of], s[k])
  /\ \A k \in 1 .. Len(s) - 1 : s[k].sure = {}

FramesInv == clock \in Nat /\ Frames(program, stack)

KeptInv ==
  /\ HaveValues(modifiedVariablesByIndex)
  /\ stack # <<>> =>
       /\ unheard \/ Began(Top) \/ IsCurrent(Code, Top, modifiedVariablesByIndex)
       /\ IsKept(Code, Top, modifiedVariablesByIndex)

RunInv == LoadedInv /\ FramesInv /\ KeptInv

(* In plain programs nothing is kept for long: a store is followed by the  *)
(* line that records it, the parameters by that with which a method begins. *)
(* Watches lack nothing but that.                                          *)
PlainCode(m) == \A k \in DOMAIN m.code : m.code[k].op = "store" => m.code[k + 1].op = "line"

Pending(m, f) == f.fell /\ f.at > 1 /\ m.code[f.at - 1].op = "store"
News(m, f) == IF Pending(m, f) THEN Stored(m, f.at - 1)
              ELSE IF Began(f) THEN Passed(m) ELSE {}

Unsaved(m, f) == f.unsaved = IF Pending(m, f) THEN {m.code[f.at - 1].arg} ELSE {}

PlainFrames(p, s) ==
  /\ \A k \in 1 .. Len(s) : Unsaved(p[s[k].of], s[k])
  /\ \A k \in 1 .. Len(s) - 1 : News(p[s[k].of], s[k]) = {}

Shown(w, a, D, l) ==
  /\ w \in [Names -> Nat] /\ a \in [Names -> Nat]
  /\ \A n \in Names : (\A d \in D : d.name # n) => w[n] = a[n]
  /\ \A d \in D : a[d.name] = l[d.index]

WatchInv ==
  Plain =>
    /\ modifiedVariablesByIndex = None
    /\ PlainFrames(program, stack)
    /\ stack = <<>> => Shown(watch, assigned, {}, None)
    /\ stack # <<>> => Shown(watch, assigned, News(Code, Top), Top.locals)

-----------------------------------------------------------------------------
(* The code of a method.                                                   *)
LEMMA CodeIs ==
  ASSUME NEW m, Compiled(m)
  PROVE  /\ Len(m.code) \in Nat /\ Len(m.code) >= 1 /\ DOMAIN m.code = 1 .. Len(m.code)
         /\ m.code[1].op = "line"
         /\ m.scopes \subseteq [name : Names, index : Indices, from : Nat, to : Nat]
         /\ \A k \in 1 .. Len(m.code) :
              /\ m.code[k].op \in Ops
              /\ m.code[k].op \notin {"return", "throw"} => k + 1 \in 1 .. Len(m.code)
              /\ m.code[k].op \in {"jump", "switch"} =>
                   m.code[k].arg \in 1 .. Len(m.code) /\ IsLabel(m.code[m.code[k].arg])
              /\ m.code[k].op = "call" => m.code[k].arg \in Classes
              /\ m.code[k].op = "store" =>
                   m.code[k].arg \in Indices /\ ~(m.constructor /\ m.code[k].arg = 0)
         /\ m.handler # 0 => m.handler \in 1 .. Len(m.code) /\ IsLabel(m.code[m.handler])
  <1> DEFINE n == Len(m.code)
  <1>1. /\ m.code \in Seq([op : Ops, arg : Nat \cup Classes]) /\ m.code # <<>>
        /\ m.code[1].op = "line" /\ m.code[Len(m.code)].op \in {"return", "throw"}
    BY DEF Compiled, WellFormed
  <1>2. n \in Nat /\ n >= 1 /\ DOMAIN m.code = 1 .. n BY <1>1
  <1>3. ASSUME NEW k \in 1 .. n PROVE m.code[k].op \in Ops
    <2>1. m.code[k] \in [op : Ops, arg : Nat \cup Classes] BY <1>1, ElementOfSeq
    <2> QED BY <2>1
  <1>4. ASSUME NEW k \in 1 .. n, m.code[k].op \notin {"return", "throw"} PROVE k + 1 \in 1 .. n
    <2>1. k # n BY <1>1, <1>4
    <2> QED BY <1>2, <2>1
  <1>5. \A k \in 1 .. n :
              /\ m.code[k].op \in {"jump", "switch"} =>
                   m.code[k].arg \in 1 .. n /\ IsLabel(m.code[m.code[k].arg])
              /\ m.code[k].op = "call" => m.code[k].arg \in Classes
              /\ m.code[k].op = "store" =>
                   m.code[k].arg \in Indices /\ ~(m.constructor /\ m.code[k].arg = 0)
    BY <1>2 DEF Compiled, WellFormed
  <1>6. m.handler # 0 => m.handler \in 1 .. n /\ IsLabel(m.code[m.handler]) BY <1>2 DEF Compiled, WellFormed
  <1>7. m.scopes \subseteq [name : Names, index : Indices, from : Nat, to : Nat] BY DEF Compiled, WellFormed
  <1> QED BY <1>1, <1>2, <1>3, <1>4, <1>5, <1>6, <1>7

(* Labels are numbered from above to below, and the first line has the     *)
(* first of them.                                                          *)
LEMMA LabelsGrow ==
  ASSUME NEW m, NEW k \in Nat, NEW j \in Nat, k < j
  PROVE  /\ LabelsIn(m, k) \in Nat /\ LabelsIn(m, j) \in Nat
         /\ IsLabel(m.code[j]) => LabelsIn(m, k) < LabelsIn(m, j)
         /\ IsLabel(m.code[j]) /\ j = k + 1 => LabelsIn(m, j) = LabelsIn(m, k) + 1
  <1> DEFINE L(i) == {l \in 1 .. i : IsLabel(m.code[l])}
  <1>1. ASSUME NEW i \in Nat PROVE IsFiniteSet(L(i)) /\ Cardinality(L(i)) \in Nat
    <2>1. IsFiniteSet(1 .. i) BY FS_Interval
    <2>2. L(i) \in SUBSET (1 .. i) OBVIOUS
    <2> HIDE DEF L
    <2>3. IsFiniteSet(L(i)) BY <2>1, <2>2, FS_Subset
    <2> QED BY <2>3, FS_CardinalityType
  <1>2. ASSUME IsLabel(m.code[j]) PROVE Cardinality(L(k)) < Cardinality(L(j))
    <2>1. L(k) \cup {j} \in SUBSET L(j) /\ j \notin L(k) BY <1>2
    <2> HIDE DEF L
    <2>2. Cardinality(L(k) \cup {j}) = Cardinality(L(k)) + 1 BY <1>1, <2>1, FS_AddElement
    <2>3. Cardinality(L(k) \cup {j}) <= Cardinality(L(j)) BY <1>1, <2>1, FS_Subset
    <2> QED BY <1>1, <2>2, <2>3
  <1>3. LabelsIn(m, k) = Cardinality(L(k)) /\ LabelsIn(m, j) = Cardinality(L(j)) BY DEF LabelsIn
  <1>4. ASSUME IsLabel(m.code[j]), j = k + 1 PROVE Cardinality(L(j)) = Cardinality(L(k)) + 1
    <2>1. L(j) = L(k) \cup {j} /\ j \notin L(k) BY <1>4
    <2> HIDE DEF L
    <2> QED BY <1>1, <2>1, FS_AddElement
  <1> HIDE DEF L
  <1> QED BY <1>1, <1>2, <1>3, <1>4

LEMMA SameLabel ==
  ASSUME NEW m, NEW k \in Nat, NEW j \in Nat, IsLabel(m.code[k]), IsLabel(m.code[j]),
         LabelsIn(m, k) = LabelsIn(m, j)
  PROVE  k = j
  <1>1. ASSUME k < j PROVE FALSE BY <1>1, LabelsGrow
  <1>2. ASSUME j < k PROVE FALSE BY <1>2, LabelsGrow
  <1> QED BY <1>1, <1>2

LEMMA FirstLabel == ASSUME NEW m, Compiled(m) PROVE LabelsIn(m, 1) = 1
  <1>1. {j \in 1 .. 1 : IsLabel(m.code[j])} = {1} BY CodeIs DEF IsLabel
  <1> QED BY <1>1, FS_Singleton DEF LabelsIn

(* The scope of a variable that is no parameter begins after a store.      *)
LEMMA StartsAfterStore ==
  ASSUME NEW m, Compiled(m), NEW k \in 1 .. Len(m.code), IsLabel(m.code[k]), k # 1,
         NEW d \in m.scopes, d.from = LabelsIn(m, k) - 1
  PROVE  m.code[k - 1].op = "store" /\ m.code[k - 1].arg = d.index
  <1>1. k \in Nat /\ d.from \in Nat /\ LabelsIn(m, k) \in Nat
    <2>1. k \in Nat /\ d.from \in Nat BY CodeIs
    <2>2. k < k + 1 /\ k + 1 \in Nat BY <2>1
    <2> QED BY <2>1, <2>2, LabelsGrow
  <1>2. LabelsIn(m, 1) = 1 /\ IsLabel(m.code[1]) BY FirstLabel, CodeIs DEF IsLabel
  <1>3. d.from # 0
    <2> SUFFICES ASSUME d.from = 0 PROVE FALSE OBVIOUS
    <2>1. LabelsIn(m, k) = LabelsIn(m, 1) BY <1>1, <1>2
    <2> QED BY <1>1, <1>2, <2>1, SameLabel
  <1>4. d \in m.scopes \ Parameters(m.scopes) BY <1>3 DEF Parameters
  <1>5. PICK j \in DOMAIN m.code : /\ IsLabel(m.code[j]) /\ LabelsIn(m, j) = d.from + 1
                                   /\ m.code[j - 1] = [op |-> "store", arg |-> d.index]
    BY <1>4 DEF Compiled
  <1>6. j \in 1 .. Len(m.code) /\ j \in Nat BY <1>5, CodeIs
  <1>7. LabelsIn(m, j) = LabelsIn(m, k) BY <1>1, <1>5
  <1>8. j = k BY <1>1, <1>5, <1>6, <1>7, SameLabel
  <1> QED BY <1>5, <1>8

(* A variable whose scope begins at a label that is run into has a value.  *)
LEMMA StartHasValue ==
  ASSUME NEW m, NEW f \in FrameType, Compiled(m), Sound(m, f), f.fell, IsLabel(m.code[f.at]),
         NEW d \in m.scopes, d.from = LabelsIn(m, f.at) - 1
  PROVE  f.locals[d.index] # 0
  <1>1. f.at \in Nat /\ f.at >= 1 /\ f.at \in 1 .. Len(m.code) BY CodeIs DEF Sound, FrameType
  <1>2. CASE f.at = 1
    <2>1. d.from = 0 BY <1>2, FirstLabel
    <2> QED BY <1>2, <2>1 DEF Sound, Parameters
  <1>3. CASE f.at # 1
    <2>1. m.code[f.at - 1].op = "store" /\ m.code[f.at - 1].arg = d.index BY <1>1, <1>3, StartsAfterStore
    <2>2. f.at > 1 BY <1>1, <1>3
    <2> QED BY <2>1, <2>2 DEF Sound
  <1> QED BY <1>2, <1>3

-----------------------------------------------------------------------------
(* What steps do to frames.                                                *)
LEMMA FrameOnTop ==
  ASSUME NEW p, NEW s, Frames(p, s), s # <<>>
  PROVE  /\ Len(s) \in Nat /\ Len(s) >= 1 /\ Len(s) \in 1 .. Len(s)
         /\ s[Len(s)] \in FrameType /\ Sound(p[s[Len(s)].of], s[Len(s)])
  <1>1. s \in Seq(FrameType) BY DEF Frames
  <1>2. Len(s) \in Nat /\ Len(s) >= 1 BY <1>1
  <1>3. Len(s) \in 1 .. Len(s) BY <1>2
  <1>4. s[Len(s)] \in FrameType BY <1>1, <1>3
  <1> QED BY <1>2, <1>3, <1>4 DEF Frames

LEMMA FrameMoves ==
  ASSUME NEW p, NEW s, Frames(p, s), s # <<>>, NEW h \in FrameType, Sound(p[h.of], h)
  PROVE  LET t == [s EXCEPT ![Len(s)] = h]
         IN  Frames(p, t) /\ t # <<>> /\ Len(t) = Len(s) /\ t[Len(t)] = h
  <1> DEFINE n == Len(s)
             t == [s EXCEPT ![n] = h]
  <1>1. s \in Seq(FrameType) /\ n \in Nat /\ n >= 1 /\ n \in 1 .. n BY FrameOnTop DEF Frames
  <1>2. t \in Seq(FrameType) /\ Len(t) = n BY <1>1, ExceptSeq
  <1>3. t[n] = h /\ \A k \in 1 .. n : k # n => t[k] = s[k] BY <1>1, ExceptSeq
  <1> HIDE DEF t, n
  <1>4. \A k \in 1 .. n : Sound(p[t[k].of], t[k]) BY <1>3 DEF Frames, n
  <1>5. \A k \in 1 .. n - 1 : t[k].sure = {}
    <2>1. \A k \in 1 .. n - 1 : k \in 1 .. n /\ k # n BY <1>1
    <2> QED BY <1>3, <2>1 DEF Frames, n
  <1>6. t # <<>> BY <1>1, <1>2
  <1> QED BY <1>2, <1>3, <1>4, <1>5, <1>6 DEF Frames, t, n

LEMMA FramePushed ==
  ASSUME NEW p, NEW s, Frames(p, s), s # <<>>, s[Len(s)].sure = {}, NEW h \in FrameType, Sound(p[h.of], h)
  PROVE  LET t == Append(s, h)
         IN  Frames(p, t) /\ t # <<>> /\ t[Len(t)] = h
  <1> DEFINE n == Len(s)
             t == Append(s, h)
  <1>1. s \in Seq(FrameType) /\ n \in Nat /\ n >= 1 BY FrameOnTop DEF Frames
  <1>2. t \in Seq(FrameType) /\ Len(t) = n + 1 BY <1>1, AppendProperties
  <1>3. t[n + 1] = h /\ \A k \in 1 .. n : t[k] = s[k] BY <1>1, AppendProperties
  <1> HIDE DEF t
  <1>4. \A k \in 1 .. n + 1 : Sound(p[t[k].of], t[k])
    <2> SUFFICES ASSUME NEW k \in 1 .. n + 1 PROVE Sound(p[t[k].of], t[k]) OBVIOUS
    <2>1. CASE k = n + 1 BY <1>3, <2>1
    <2>2. CASE k \in 1 .. n BY <1>3, <2>2 DEF Frames
    <2> QED BY <1>1, <2>1, <2>2
  <1>5. \A k \in 1 .. n : t[k].sure = {}
    <2> SUFFICES ASSUME NEW k \in 1 .. n PROVE t[k].sure = {} OBVIOUS
    <2>1. CASE k = n BY <1>3, <2>1
    <2>2. CASE k \in 1 .. n - 1 BY <1>3, <2>2 DEF Frames
    <2> QED BY <1>1, <2>1, <2>2
  <1>6. t # <<>> BY <1>1, <1>2
  <1>7. n + 1 - 1 = n BY <1>1
  <1> QED BY <1>2, <1>3, <1>4, <1>5, <1>6, <1>7 DEF Frames, t

LEMMA FramesCut ==
  ASSUME NEW p, NEW s, Frames(p, s), NEW j \in 0 .. Len(s)
  PROVE  LET t == SubSeq(s, 1, j)
         IN  Frames(p, t) /\ Len(t) = j /\ \A k \in 1 .. j : t[k] = s[k]
  <1> DEFINE t == SubSeq(s, 1, j)
  <1>1. s \in Seq(FrameType) /\ Len(s) \in Nat BY DEF Frames
  <1>2. t \in Seq(FrameType) /\ Len(t) = j /\ \A k \in 1 .. j : t[k] = s[k]
    <2>1. \A k \in 1 .. j : s[k] \in FrameType BY <1>1
    <2>2. Len(t) = j /\ \A k \in 1 .. j : t[k] = s[k] BY <1>1, SubSeqProperties
    <2>3. t \in Seq(FrameType) BY <1>1, SubSeqProperties
    <2> QED BY <2>2, <2>3
  <1> HIDE DEF t
  <1>3. \A k \in 1 .. j : Sound(p[t[k].of], t[k]) BY <1>1, <1>2 DEF Frames
  <1>4. \A k \in 1 .. j - 1 : t[k].sure = {} BY <1>1, <1>2 DEF Frames
  <1> QED BY <1>2, <1>3, <1>4 DEF Frames, t

(* The same of those of plain programs.                                    *)
LEMMA PlainMoves ==
  ASSUME NEW p, NEW s, Frames(p, s), s # <<>>, PlainFrames(p, s), NEW h \in FrameType, Unsaved(p[h.of], h)
  PROVE  PlainFrames(p, [s EXCEPT ![Len(s)] = h])
  <1> DEFINE n == Len(s)
             t == [s EXCEPT ![n] = h]
  <1>1. s \in Seq(FrameType) /\ n \in Nat /\ n >= 1 /\ n \in 1 .. n BY FrameOnTop DEF Frames
  <1>2. Len(t) = n BY <1>1, ExceptSeq
  <1>3. t[n] = h /\ \A k \in 1 .. n : k # n => t[k] = s[k] BY <1>1, ExceptSeq
  <1> HIDE DEF t, n
  <1>4. \A k \in 1 .. n : Unsaved(p[t[k].of], t[k]) BY <1>3 DEF PlainFrames, n
  <1>5. \A k \in 1 .. n - 1 : News(p[t[k].of], t[k]) = {}
    <2>1. \A k \in 1 .. n - 1 : k \in 1 .. n /\ k # n BY <1>1
    <2> QED BY <1>3, <2>1 DEF PlainFrames, n
  <1>6. PlainFrames(p, t) BY <1>2, <1>4, <1>5 DEF PlainFrames
  <1> QED BY <1>6 DEF t, n

LEMMA PlainPushed ==
  ASSUME NEW p, NEW s, Frames(p, s), s # <<>>, PlainFrames(p, s), News(p[s[Len(s)].of], s[Len(s)]) = {},
         NEW h \in FrameType, Unsaved(p[h.of], h)
  PROVE  PlainFrames(p, Append(s, h))
  <1> DEFINE n == Len(s)
             t == Append(s, h)
  <1>1. s \in Seq(FrameType) /\ n \in Nat /\ n >= 1 BY FrameOnTop DEF Frames
  <1>2. Len(t) = n + 1 BY <1>1, AppendProperties
  <1>3. t[n + 1] = h /\ \A k \in 1 .. n : t[k] = s[k] BY <1>1, AppendProperties
  <1> HIDE DEF t
  <1>4. \A k \in 1 .. n + 1 : Unsaved(p[t[k].of], t[k])
    <2> SUFFICES ASSUME NEW k \in 1 .. n + 1 PROVE Unsaved(p[t[k].of], t[k]) OBVIOUS
    <2>1. CASE k = n + 1 BY <1>3, <2>1
    <2>2. CASE k \in 1 .. n BY <1>3, <2>2 DEF PlainFrames
    <2> QED BY <1>1, <2>1, <2>2
  <1>5. \A k \in 1 .. n : News(p[t[k].of], t[k]) = {}
    <2> SUFFICES ASSUME NEW k \in 1 .. n PROVE News(p[t[k].of], t[k]) = {} OBVIOUS
    <2>1. CASE k = n BY <1>3, <2>1
    <2>2. CASE k \in 1 .. n - 1 BY <1>3, <2>2 DEF PlainFrames
    <2> QED BY <1>1, <2>1, <2>2
  <1>6. 1 .. Len(t) = 1 .. n + 1 /\ 1 .. Len(t) - 1 = 1 .. n BY <1>1, <1>2
  <1>7. PlainFrames(p, t) BY <1>4, <1>5, <1>6 DEF PlainFrames
  <1> QED BY <1>7 DEF t

LEMMA PlainCut ==
  ASSUME NEW p, NEW s, Frames(p, s), PlainFrames(p, s), NEW j \in 0 .. Len(s)
  PROVE  PlainFrames(p, SubSeq(s, 1, j))
  <1> DEFINE t == SubSeq(s, 1, j)
  <1>1. Len(s) \in Nat BY DEF Frames
  <1>2. Len(t) = j /\ \A k \in 1 .. j : t[k] = s[k] BY FramesCut
  <1> HIDE DEF t
  <1>3. ASSUME NEW k \in 1 .. j PROVE Unsaved(p[t[k].of], t[k])
    <2>1. k \in 1 .. Len(s) /\ t[k] = s[k] BY <1>1, <1>2
    <2>2. Unsaved(p[s[k].of], s[k]) BY <2>1 DEF PlainFrames
    <2> QED BY <2>1, <2>2
  <1>4. ASSUME NEW k \in 1 .. j - 1 PROVE News(p[t[k].of], t[k]) = {}
    <2>1. k \in 1 .. Len(s) - 1 /\ t[k] = s[k] BY <1>1, <1>2
    <2>2. News(p[s[k].of], s[k]) = {} BY <2>1 DEF PlainFrames
    <2> QED BY <2>1, <2>2
  <1>5. PlainFrames(p, t) BY <1>2, <1>3, <1>4 DEF PlainFrames
  <1> QED BY <1>5 DEF t

LEMMA Highest ==
  ASSUME NEW n \in Nat, NEW T, T \subseteq 1 .. n, T # {}
  PROVE  \E k \in T : \A j \in T : j <= k
  <1> DEFINE D == {n - y : y \in T}
  <1>t. T \subseteq Nat /\ \A y \in T : y <= n OBVIOUS
  <1>u. \A y \in T : n - y \in Nat BY <1>t
  <1>1. D \subseteq Nat /\ D # {} BY <1>u
  <1>2. PICK x \in D : \A y \in D : ~ (<<y, x>> \in OpToRel(<, Nat))
    BY <1>1, NatLessThanWellFounded, WFMin
  <1>3. \A y \in D : ~ (y < x) BY <1>1, <1>2 DEF OpToRel
  <1>4. PICK t \in T : x = n - t BY <1>2
  <1>5. \A y \in T : ~ (n - y < n - t) BY <1>3, <1>4
  <1>6. ASSUME NEW y \in T PROVE y <= t
    <2>1. y \in Nat /\ t \in Nat /\ ~ (n - y < n - t) BY <1>t, <1>5
    <2> QED BY <2>1, SMT
  <1> QED BY <1>6

-----------------------------------------------------------------------------
(* What is known of the running method.                                    *)
LEMMA Running ==
  ASSUME IInv, RunInv, stack # <<>>
  PROVE  /\ program # <<>>
         /\ Top \in FrameType /\ Code = program[Top.of] /\ Compiled(Code) /\ Sound(Code, Top)
         /\ Code.scopes = scopes[Top.of]
         /\ Under(compiled[Top.of]) = Entries(compiled[Top.of], Code.scopes)
         /\ known[Top.of] = Under(compiled[Top.of])
         /\ IsKept(Code, Top, modifiedVariablesByIndex)
         /\ unheard \/ Began(Top) \/ IsCurrent(Code, Top, modifiedVariablesByIndex)
         /\ HaveValues(modifiedVariablesByIndex)
  <1>1. program # <<>> /\ program \in Programs /\ disorder = {}
        /\ \A c \in Classes : stage[c] = "done" /\ program[c].scopes = scopes[c]
    BY DEF RunInv, LoadedInv
  <1>2. Top \in FrameType /\ Sound(Code, Top) BY FrameOnTop DEF RunInv, FramesInv, Top, Code
  <1>3. Top.of \in Classes BY <1>2 DEF FrameType
  <1>4. Compiled(Code) BY <1>1, <1>3, ProgramsAssumption DEF Code
  <1>5. Code.scopes = scopes[Top.of] /\ stage[Top.of] = "done" BY <1>1, <1>3 DEF Code
  <1>6. OwnVariables BY DEF IInv, DefinitionsInv, OwnVariables, Under, Those
  <1>7. /\ Under(compiled[Top.of]) = Entries(compiled[Top.of], Code.scopes)
        /\ known[Top.of] = Under(compiled[Top.of])
    BY <1>1, <1>3, <1>5, <1>6 DEF OwnVariables
  <1>8. /\ IsKept(Code, Top, modifiedVariablesByIndex)
        /\ unheard \/ Began(Top) \/ IsCurrent(Code, Top, modifiedVariablesByIndex)
        /\ HaveValues(modifiedVariablesByIndex)
    BY DEF RunInv, KeptInv
  <1> QED BY <1>1, <1>2, <1>4, <1>5, <1>7, <1>8 DEF Code

(* What a definition says of the labels at which it is found.              *)
LEMMA EntriesAre ==
  ASSUME NEW D, D \subseteq [name : Names, index : Indices, from : Nat, to : Nat], NEW n, NEW e \in Entries(n, D)
  PROVE  /\ e.definition \in D
         /\ e.label \in e.definition.from .. e.definition.to
  <1>1. PICK d \in D : \E l \in d.from .. d.to : e = [method |-> Method(n), label |-> l, definition |-> d]
    BY DEF Entries
  <1>2. PICK l \in d.from .. d.to : e = [method |-> Method(n), label |-> l, definition |-> d] BY <1>1
  <1>3. e.definition = d /\ e.label = l BY <1>2
  <1> QED BY <1>2, <1>3

LEMMA EntryOf ==
  ASSUME NEW D, NEW n, NEW d \in D, NEW l \in d.from .. d.to
  PROVE  \E e \in Entries(n, D) : e.definition = d /\ e.label = l
  <1>1. [method |-> Method(n), label |-> l, definition |-> d] \in Entries(n, D) BY DEF Entries
  <1> QED BY <1>1

(* The variables that are found for an index are those in scope.           *)
LEMMA LookupIs ==
  ASSUME IInv, RunInv, stack # <<>>, NEW i, NEW l \in Nat
  PROVE  \A d : d \in Lookup(Top.of, i, l) <=> d \in Code.scopes /\ d.index = i /\ d.from <= l /\ l <= d.to
  <1> DEFINE D == Code.scopes
             n == compiled[Top.of]
             U == Under(n)
  <1>1. D \subseteq [name : Names, index : Indices, from : Nat, to : Nat] BY Running, CodeIs
  <1>2. U = Entries(n, D) BY Running
  <1>3. Lookup(Top.of, i, l) = {e.definition : e \in {x \in U : x.definition.index = i /\ x.label = l}} BY DEF Lookup
  <1> HIDE DEF D, n, U
  <1>4. ASSUME NEW d, d \in Lookup(Top.of, i, l) PROVE d \in D /\ d.index = i /\ d.from <= l /\ l <= d.to
    <2>1. PICK e \in U : e.definition.index = i /\ e.label = l /\ d = e.definition BY <1>3, <1>4
    <2>2. e.definition \in D /\ e.label \in e.definition.from .. e.definition.to BY <1>1, <1>2, <2>1, EntriesAre
    <2>3. d.from \in Nat /\ d.to \in Nat BY <1>1, <2>1, <2>2
    <2> QED BY <2>1, <2>2, <2>3
  <1>5. ASSUME NEW d \in D, d.index = i, d.from <= l, l <= d.to PROVE d \in Lookup(Top.of, i, l)
    <2>1. d.from \in Nat /\ d.to \in Nat BY <1>1
    <2>2. l \in d.from .. d.to BY <1>5, <2>1
    <2>3. PICK e \in Entries(n, D) : e.definition = d /\ e.label = l BY <2>2, EntryOf
    <2>4. e \in U /\ e.definition.index = i /\ e.label = l BY <1>2, <1>5, <2>3
    <2> QED BY <1>3, <2>3, <2>4
  <1> QED BY <1>4, <1>5 DEF D

(* The variables whose scope starts at a label.                            *)
LEMMA StartsAre ==
  ASSUME IInv, RunInv, stack # <<>>, NEW l \in Nat
  PROVE  /\ \A i \in StartingAt(Top.of, l) : \E d \in Code.scopes : d.index = i /\ d.from = l
         /\ \A d \in Code.scopes : d.from = l /\ l <= d.to => d.index \in StartingAt(Top.of, l)
  <1> DEFINE D == Code.scopes
             n == compiled[Top.of]
             K == known[Top.of]
  <1>1. D \subseteq [name : Names, index : Indices, from : Nat, to : Nat] BY Running, CodeIs
  <1>2. K = Entries(n, D) BY Running
  <1>3. StartingAt(Top.of, l) = {e.definition.index : e \in {x \in K : x.definition.from = l}} BY DEF StartingAt
  <1> HIDE DEF D, n, K
  <1>4. ASSUME NEW i \in StartingAt(Top.of, l) PROVE \E d \in D : d.index = i /\ d.from = l
    <2>1. PICK e \in K : e.definition.from = l /\ i = e.definition.index BY <1>3
    <2>2. e.definition \in D BY <1>1, <1>2, EntriesAre
    <2> QED BY <2>1, <2>2
  <1>5. ASSUME NEW d \in D, d.from = l, l <= d.to PROVE d.index \in StartingAt(Top.of, l)
    <2>1. d.from \in Nat /\ d.to \in Nat BY <1>1
    <2>2. l \in d.from .. d.to BY <1>5, <2>1
    <2>3. PICK e \in Entries(n, D) : e.definition = d /\ e.label = l BY <2>2, EntryOf
    <2>4. e \in K /\ e.definition.from = l /\ e.definition.index = d.index BY <1>2, <1>5, <2>3
    <2> QED BY <1>3, <2>4
  <1> QED BY <1>4, <1>5 DEF D

-----------------------------------------------------------------------------
(* What the agent is told.                                                 *)
This(i) == Code.constructor /\ i = 0

LEMMA CapturedIs ==
  ASSUME NEW S
  PROVE  /\ DOMAIN Captured(S) = {i \in S : ~ This(i)} \cup DOMAIN modifiedVariablesByIndex
         /\ \A i \in S : ~ This(i) => Captured(S)[i] = Top.locals[i]
         /\ \A i \in DOMAIN modifiedVariablesByIndex :
              i \notin S \/ This(i) => Captured(S)[i] = modifiedVariablesByIndex[i]
  BY DEF Captured, This

LEMMA Told ==
  ASSUME IInv, RunInv, stack # <<>>, NEW S, S \subseteq Indices, Top.unsaved \subseteq S,
         \A i \in S : Top.locals[i] # 0
  PROVE  /\ HaveValues(Captured(S))
         /\ \A i \in S : ~ This(i) => i \in DOMAIN Captured(S) /\ Captured(S)[i] = Top.locals[i]
         /\ \A i \in Top.sure : i \in DOMAIN Captured(S) /\ Captured(S)[i] = Top.locals[i]
         /\ unheard \/ Began(Top) \/ \A i \in DOMAIN Captured(S) : ~ This(i) => Captured(S)[i] = Top.locals[i]
  <1> DEFINE ms == modifiedVariablesByIndex
  <1>1. /\ Top.locals \in [Indices -> Nat]
        /\ IsKept(Code, Top, ms) /\ HaveValues(ms)
        /\ unheard \/ Began(Top) \/ IsCurrent(Code, Top, ms)
    BY Running DEF FrameType
  <1>2. ASSUME NEW i \in S, ~ This(i) PROVE i \in DOMAIN Captured(S) /\ Captured(S)[i] = Top.locals[i]
    BY <1>2, CapturedIs
  <1>3. HaveValues(Captured(S))
    <2>1. DOMAIN Captured(S) \subseteq Indices BY <1>1, CapturedIs DEF HaveValues
    <2>2. ASSUME NEW i \in DOMAIN Captured(S) PROVE Captured(S)[i] \in Nat /\ Captured(S)[i] # 0
      <3>1. CASE i \in S /\ ~ This(i) BY <1>1, <1>2, <3>1
      <3>2. CASE ~ (i \in S /\ ~ This(i))
        <4>1. i \in DOMAIN ms /\ Captured(S)[i] = ms[i] BY <2>2, <3>2, CapturedIs
        <4> QED BY <1>1, <4>1 DEF HaveValues
      <3> QED BY <3>1, <3>2
    <2> QED BY <2>1, <2>2 DEF HaveValues
  <1>4. ASSUME NEW i \in Top.sure PROVE i \in DOMAIN Captured(S) /\ Captured(S)[i] = Top.locals[i]
    <2>1. ~ This(i) /\ (i \notin Top.unsaved => i \in DOMAIN ms /\ ms[i] = Top.locals[i])
      BY <1>1 DEF IsKept, This
    <2>2. CASE i \in S BY <1>2, <2>1, <2>2
    <2>3. CASE i \notin S
      <3>1. i \in DOMAIN ms /\ ms[i] = Top.locals[i] BY <2>1, <2>3
      <3> QED BY <2>3, <3>1, CapturedIs
    <2> QED BY <2>2, <2>3
  <1>5. ASSUME IsCurrent(Code, Top, ms), NEW i \in DOMAIN Captured(S), ~ This(i)
        PROVE  Captured(S)[i] = Top.locals[i]
    <2>1. CASE i \in S BY <1>2, <1>5, <2>1
    <2>2. CASE i \notin S
      <3>1. i \in DOMAIN ms /\ Captured(S)[i] = ms[i] BY <1>5, <2>2, CapturedIs
      <3>2. i \notin Top.unsaved BY <2>2
      <3>3. ms[i] = Top.locals[i] BY <1>5, <3>1, <3>2 DEF IsCurrent, This
      <3> QED BY <3>1, <3>3
    <2> QED BY <2>1, <2>2
  <1> QED BY <1>1, <1>2, <1>3, <1>4, <1>5

(* The same of what it is told in front of a label.                        *)
LEMMA ToldAtLabel ==
  ASSUME IInv, RunInv, stack # <<>>, IsLabel(Code.code[Top.at])
  PROVE  /\ Label \in Nat
         /\ HaveValues(AtLabel)
         /\ \A i \in Top.sure : i \in DOMAIN AtLabel /\ AtLabel[i] = Top.locals[i]
         /\ unheard \/ Began(Top) \/ \A i \in DOMAIN AtLabel : ~ This(i) => AtLabel[i] = Top.locals[i]
         /\ Began(Top) => Label = 0 /\ \A d \in Parameters(Code.scopes) :
              ~ This(d.index) => d.index \in DOMAIN AtLabel /\ AtLabel[d.index] = Top.locals[d.index]
  <1> DEFINE ms == modifiedVariablesByIndex
             S  == Top.unsaved \cup StartingAt(Top.of, Label)
  <1>1. /\ Compiled(Code) /\ Top \in FrameType /\ Sound(Code, Top)
        /\ IsKept(Code, Top, ms) /\ HaveValues(ms)
        /\ unheard \/ Began(Top) \/ IsCurrent(Code, Top, ms)
    BY Running
  <1>2. Top.at \in 1 .. Len(Code.code) /\ Top.at \in Nat /\ Top.at >= 1
    <2>1. Top.at \in 1 .. Len(Code.code) /\ Len(Code.code) \in Nat BY <1>1, CodeIs DEF Sound
    <2> QED BY <2>1
  <1>3. LabelsIn(Code, 1) = 1 /\ LabelsIn(Code, Top.at) \in Nat /\ LabelsIn(Code, Top.at) >= 1
    <2>1. LabelsIn(Code, 1) = 1 BY <1>1, FirstLabel
    <2>2. CASE Top.at = 1 BY <2>1, <2>2
    <2>3. CASE Top.at > 1 BY <1>2, <2>1, <2>3, LabelsGrow
    <2> QED BY <1>2, <2>1, <2>2, <2>3
  <1>4. Label \in Nat BY <1>3 DEF Label
  <1>5. CASE ~ Top.fell
    <2>1. AtLabel = ms /\ Top.unsaved = {} /\ ~ Began(Top) BY <1>1, <1>5 DEF AtLabel, Sound, Began
    <2>2. \A i \in Top.sure : i \in DOMAIN ms /\ ms[i] = Top.locals[i] BY <1>1, <2>1 DEF IsKept
    <2>3. IsCurrent(Code, Top, ms) => \A i \in DOMAIN ms : ~ This(i) => ms[i] = Top.locals[i]
      BY <2>1 DEF IsCurrent, This
    <2> QED BY <1>1, <1>4, <2>1, <2>2, <2>3
  <1>6. CASE Top.fell
    <2>1. AtLabel = Captured(S) BY <1>6 DEF AtLabel
    <2>2. /\ \A i \in StartingAt(Top.of, Label) : \E d \in Code.scopes : d.index = i /\ d.from = Label
          /\ \A d \in Code.scopes : d.from = Label /\ Label <= d.to => d.index \in StartingAt(Top.of, Label)
      BY <1>4, StartsAre
    <2>3. Code.scopes \subseteq [name : Names, index : Indices, from : Nat, to : Nat] BY <1>1, CodeIs
    <2>4. S \subseteq Indices /\ Top.unsaved \subseteq S
      <3>1. StartingAt(Top.of, Label) \subseteq Indices BY <2>2, <2>3
      <3>2. Top.unsaved \subseteq Indices BY <1>1 DEF FrameType
      <3> QED BY <3>1, <3>2
    <2>5. ASSUME NEW i \in S PROVE Top.locals[i] # 0
      <3>1. CASE i \in Top.unsaved BY <1>1, <3>1 DEF Sound
      <3>2. CASE i \in StartingAt(Top.of, Label)
        <4>1. PICK d \in Code.scopes : d.index = i /\ d.from = Label BY <2>2, <3>2
        <4>2. d.from = LabelsIn(Code, Top.at) - 1 BY <4>1 DEF Label
        <4> QED BY <1>1, <1>6, <4>1, <4>2, StartHasValue
      <3> QED BY <2>5, <3>1, <3>2
    <2> HIDE DEF S
    <2>6. /\ HaveValues(Captured(S))
          /\ \A i \in S : ~ This(i) => i \in DOMAIN Captured(S) /\ Captured(S)[i] = Top.locals[i]
          /\ \A i \in Top.sure : i \in DOMAIN Captured(S) /\ Captured(S)[i] = Top.locals[i]
          /\ unheard \/ Began(Top) \/ \A i \in DOMAIN Captured(S) : ~ This(i) => Captured(S)[i] = Top.locals[i]
      BY <2>4, <2>5, Told
    <2>7. ASSUME Began(Top) PROVE Label = 0 BY <1>3, <2>7 DEF Began, Label
    <2>8. ASSUME Began(Top), NEW d \in Parameters(Code.scopes), ~ This(d.index)
          PROVE  d.index \in DOMAIN AtLabel /\ AtLabel[d.index] = Top.locals[d.index]
      <3>1. d \in Code.scopes /\ d.from = 0 BY DEF Parameters
      <3>2. d.to \in Nat BY <2>3, <3>1
      <3>3. d.from = Label /\ Label <= d.to BY <2>7, <2>8, <3>1, <3>2
      <3>4. d.index \in S BY <2>2, <3>1, <3>3 DEF S
      <3> QED BY <2>1, <2>6, <2>8, <3>4
    <2> QED BY <1>4, <2>1, <2>6, <2>7, <2>8
  <1> QED BY <1>5, <1>6

-----------------------------------------------------------------------------
(* The steps of the program.                                               *)
LEMMA LoadedStays ==
  ASSUME RunInv, stack # <<>>, UNCHANGED <<program, loading>>
  PROVE  LoadedInv' /\ program' # <<>>
  <1>1. program # <<>> BY DEF RunInv, LoadedInv
  <1> QED BY <1>1 DEF RunInv, LoadedInv, loading

(* The frame on top goes on.                                               *)
LEMMA GoesOn ==
  ASSUME RunInv, stack # <<>>, UNCHANGED <<program, loading>>,
         NEW h \in FrameType, stack' = Moved(h), h.of = Top.of, Sound(Code, h),
         clock' \in Nat, HaveValues(modifiedVariablesByIndex'),
         unheard' \/ IsCurrent(Code, h, modifiedVariablesByIndex'),
         IsKept(Code, h, modifiedVariablesByIndex')
  PROVE  RunInv'
  <1>1. LoadedInv' BY LoadedStays
  <1>2. Frames(program, stack) BY DEF RunInv, FramesInv
  <1>3. Sound(program[h.of], h) BY DEF Code
  <1> DEFINE t == [stack EXCEPT ![Len(stack)] = h]
  <1>t. Frames(program, t) /\ t # <<>> /\ Len(t) = Len(stack) /\ t[Len(t)] = h
    BY <1>2, <1>3, FrameMoves
  <1>u. stack' = t BY DEF Moved
  <1>4. Frames(program, stack') /\ stack' # <<>> /\ stack'[Len(stack')] = h
    BY <1>t, <1>u
  <1>5. FramesInv' BY <1>4 DEF FramesInv
  <1>6. Top' = h /\ Code' = Code BY <1>4 DEF Top, Code
  <1>7. KeptInv' BY <1>6 DEF KeptInv
  <1> QED BY <1>1, <1>5, <1>7 DEF RunInv

(* An instruction that is not a label and is followed by the next.         *)
LEMMA NextOne ==
  ASSUME NEW m, Compiled(m), NEW f \in FrameType, Sound(m, f), m.code[f.at].op \notin {"return", "throw"},
         NEW h \in FrameType, h.at = f.at + 1, h.fell, \A i \in h.unsaved : h.locals[i] # 0,
         m.code[f.at].op = "store" => h.locals[m.code[f.at].arg] # 0
  PROVE  Sound(m, h)
  <1>1. f.at \in 1 .. Len(m.code) /\ f.at + 1 \in 1 .. Len(m.code) /\ f.at \in Nat /\ f.at >= 1
    <2>1. f.at \in 1 .. Len(m.code) /\ Len(m.code) \in Nat BY CodeIs DEF Sound
    <2>2. f.at + 1 \in 1 .. Len(m.code) BY <2>1, CodeIs
    <2> QED BY <2>1, <2>2
  <1>2. h.at # 1 /\ h.at - 1 = f.at BY <1>1
  <1> QED BY <1>1, <1>2 DEF Sound

(* A label to which something leads.                                       *)
LEMMA Arrives ==
  ASSUME NEW m, NEW h \in FrameType, h.at \in 1 .. Len(m.code), IsLabel(m.code[h.at]), ~ h.fell, h.unsaved = {}
  PROVE  Sound(m, h)
  BY DEF Sound

LEMMA NothingKept ==
  ASSUME NEW m, NEW f
  PROVE  HaveValues(None) /\ IsCurrent(m, f, None)
  BY DEF None, HaveValues, IsCurrent

(* What holds when an instruction of the running method is executed.       *)
LEMMA Executing ==
  ASSUME IInv, RunInv, stack # <<>>
  PROVE  /\ Top \in FrameType /\ Compiled(Code) /\ Sound(Code, Top)
         /\ Top.at \in 1 .. Len(Code.code) /\ Top.at \in Nat
         /\ Top.of \in Classes /\ Top.unsaved \subseteq Indices /\ Top.sure \subseteq Indices
         /\ Top.locals \in [Indices -> Nat]
         /\ clock \in Nat
         /\ ~ IsLabel(Code.code[Top.at]) => Top.fell /\ ~ Began(Top)
  <1>1. Top \in FrameType /\ Compiled(Code) /\ Sound(Code, Top) BY Running
  <1>2. Top.at \in 1 .. Len(Code.code) BY <1>1 DEF Sound
  <1>3. /\ Top.at \in Nat
        /\ Top.of \in Classes /\ Top.unsaved \subseteq Indices /\ Top.sure \subseteq Indices
        /\ Top.locals \in [Indices -> Nat] /\ Top.fell \in BOOLEAN
    BY <1>1 DEF FrameType
  <1>4. ASSUME ~ IsLabel(Code.code[Top.at]) PROVE Top.fell /\ ~ Began(Top)
    <2>1. IsLabel(Code.code[1]) BY <1>1, CodeIs DEF IsLabel
    <2> QED BY <1>1, <1>4, <2>1 DEF Sound, Began
  <1>5. clock \in Nat BY DEF RunInv, FramesInv
  <1> QED BY <1>1, <1>2, <1>3, <1>4, <1>5

LEMMA LineRuns == ASSUME IInv, RunInv, Line, UNCHANGED <<program, loading>> PROVE RunInv'
  <1> DEFINE h == [Top EXCEPT !.at = @ + 1, !.fell = TRUE, !.unsaved = {}, !.sure = {}]
  <1>1. stack # <<>> /\ Code.code[Top.at].op = "line" /\ stack' = Moved(h) /\ modifiedVariablesByIndex' = None /\ clock' = clock
    BY DEF Line, Now
  <1>2. /\ h \in FrameType /\ h.at = Top.at + 1 /\ h.of = Top.of /\ h.fell /\ h.unsaved = {} /\ h.sure = {}
        /\ h.locals = Top.locals
    <2>1. Top \in FrameType /\ Top.at + 1 \in Nat BY <1>1, Executing
    <2> QED BY <2>1 DEF FrameType
  <1> HIDE DEF h
  <1>3. Sound(Code, h) BY <1>1, <1>2, Executing, NextOne
  <1>4. IsKept(Code, h, None) BY <1>2 DEF IsKept
  <1> QED BY <1>1, <1>2, <1>3, <1>4, NothingKept, Executing, GoesOn

LEMMA LabelRuns == ASSUME IInv, RunInv, LabelOnly, UNCHANGED <<program, loading>> PROVE RunInv'
  <1> DEFINE h == [Top EXCEPT !.at = @ + 1, !.fell = TRUE, !.unsaved = {}]
  <1>1. /\ stack # <<>> /\ Code.code[Top.at].op = "label" /\ stack' = Moved(h)
        /\ modifiedVariablesByIndex' = AtLabel /\ clock' = clock /\ unheard' = unheard
    BY DEF LabelOnly, Now
  <1>2. /\ h \in FrameType /\ h.at = Top.at + 1 /\ h.of = Top.of /\ h.fell /\ h.unsaved = {} /\ h.sure = Top.sure
        /\ h.locals = Top.locals
    <2>1. Top \in FrameType /\ Top.at + 1 \in Nat BY <1>1, Executing
    <2> QED BY <2>1 DEF FrameType
  <1> HIDE DEF h
  <1>3. Sound(Code, h) BY <1>1, <1>2, Executing, NextOne
  <1>4. IsLabel(Code.code[Top.at]) BY <1>1 DEF IsLabel
  <1>5. ~ Began(Top)
    <2>1. Code.code[1].op = "line" BY <1>1, Executing, CodeIs
    <2> QED BY <1>1, <2>1 DEF Began
  <1>6. /\ HaveValues(AtLabel)
        /\ \A i \in Top.sure : i \in DOMAIN AtLabel /\ AtLabel[i] = Top.locals[i]
        /\ unheard \/ \A i \in DOMAIN AtLabel : ~ This(i) => AtLabel[i] = Top.locals[i]
    BY <1>1, <1>4, <1>5, ToldAtLabel
  <1>7. unheard \/ IsCurrent(Code, h, AtLabel) BY <1>2, <1>6 DEF IsCurrent, This
  <1>8. IsKept(Code, h, AtLabel)
    <2>1. IsKept(Code, Top, modifiedVariablesByIndex) BY <1>1, Running
    <2> QED BY <1>2, <1>6, <2>1 DEF IsKept
  <1> QED BY <1>1, <1>2, <1>3, <1>6, <1>7, <1>8, Executing, GoesOn

LEMMA StoreRuns == ASSUME IInv, RunInv, Store, UNCHANGED <<program, loading>> PROVE RunInv'
  <1> DEFINE a == Arg
             h == [Top EXCEPT !.at = @ + 1, !.locals[a] = clock', !.unsaved = @ \cup {a}, !.sure = @ \cup {a}]
             ms == modifiedVariablesByIndex
  <1>1. /\ stack # <<>> /\ Code.code[Top.at].op = "store" /\ Code.code[Top.at].arg = a /\ stack' = Moved(h)
        /\ ms' = ms /\ clock' = clock + 1 /\ unheard' = unheard
    BY DEF Store, Now, Arg
  <1>2. a \in Indices /\ ~ This(a) BY <1>1, Executing, CodeIs DEF This
  <1>3. clock' \in Nat /\ clock' # 0 BY <1>1, Executing
  <1>4. Top.fell /\ ~ Began(Top) BY <1>1, Executing DEF IsLabel
  <1> HIDE DEF a
  <1>5. /\ h \in FrameType /\ h.at = Top.at + 1 /\ h.of = Top.of /\ h.fell
        /\ h.unsaved = Top.unsaved \cup {a} /\ h.sure = Top.sure \cup {a}
        /\ h.locals = [Top.locals EXCEPT ![a] = clock']
    <2>1. Top \in FrameType /\ Top.at + 1 \in Nat /\ Top.locals \in [Indices -> Nat] BY <1>1, Executing
    <2> QED BY <1>2, <1>3, <1>4, <2>1 DEF FrameType
  <1> HIDE DEF h
  <1>6. h.locals[a] = clock' /\ h.locals[a] # 0 /\ \A i \in Indices : i # a => h.locals[i] = Top.locals[i]
    BY <1>1, <1>2, <1>3, <1>5, Executing
  <1>7. Sound(Code, h)
    <2>1. \A i \in Top.unsaved : i \in Indices /\ Top.locals[i] # 0 BY <1>1, Executing DEF Sound
    <2>2. ASSUME NEW i \in h.unsaved PROVE h.locals[i] # 0
      <3>1. CASE i = a BY <1>6, <3>1
      <3>2. CASE i # a BY <1>5, <1>6, <2>1, <3>2
      <3> QED BY <3>1, <3>2
    <2>3. Code.code[Top.at].op \notin {"return", "throw"} /\ h.locals[Code.code[Top.at].arg] # 0
      BY <1>1, <1>6
    <2>4. Compiled(Code) /\ Top \in FrameType /\ Sound(Code, Top) BY <1>1, Executing
    <2> QED BY <1>5, <2>2, <2>3, <2>4, NextOne
  <1>8. IsKept(Code, Top, ms) /\ HaveValues(ms) /\ (unheard \/ IsCurrent(Code, Top, ms))
    BY <1>1, <1>4, Running
  <1>9. unheard \/ IsCurrent(Code, h, ms)
    <2> SUFFICES ASSUME IsCurrent(Code, Top, ms), NEW i \in DOMAIN ms \ h.unsaved, ~ This(i)
                 PROVE  ms[i] = h.locals[i]
      BY <1>8 DEF IsCurrent, This
    <2>1. i # a /\ i \in DOMAIN ms \ Top.unsaved /\ i \in Indices BY <1>5, <1>8 DEF HaveValues
    <2> QED BY <1>6, <2>1 DEF IsCurrent, This
  <1>10. IsKept(Code, h, ms)
    <2> SUFFICES ASSUME NEW i \in h.sure
                 PROVE  ~ This(i) /\ (i \notin h.unsaved => i \in DOMAIN ms /\ ms[i] = h.locals[i])
      BY DEF IsKept, This
    <2>1. CASE i = a BY <1>2, <1>5, <2>1
    <2>2. CASE i # a
      <3>1. i \in Top.sure /\ i \in Indices BY <1>1, <1>5, <2>2, Executing
      <3>2. ~ This(i) /\ (i \notin Top.unsaved => i \in DOMAIN ms /\ ms[i] = Top.locals[i])
        BY <1>8, <3>1 DEF IsKept, This
      <3> QED BY <1>5, <1>6, <2>2, <3>1, <3>2
    <2> QED BY <2>1, <2>2
  <1> QED BY <1>1, <1>3, <1>5, <1>7, <1>8, <1>9, <1>10, GoesOn

LEMMA JumpRuns == ASSUME IInv, RunInv, Jump, UNCHANGED <<program, loading>> PROVE RunInv'
  <1> DEFINE a  == Arg
             h1 == [Top EXCEPT !.at = a, !.fell = FALSE, !.unsaved = {}]
             h2 == [Top EXCEPT !.at = @ + 1, !.unsaved = {}]
             ms == Captured(Top.unsaved)
  <1>1. /\ stack # <<>> /\ Code.code[Top.at].op = "jump" /\ Code.code[Top.at].arg = a
        /\ stack' = Moved(h1) \/ stack' = Moved(h2)
        /\ modifiedVariablesByIndex' = ms /\ clock' = clock /\ unheard' = unheard
    BY DEF Jump, Now, Arg
  <1>2. Top.fell /\ ~ Began(Top) BY <1>1, Executing DEF IsLabel
  <1>3. a \in 1 .. Len(Code.code) /\ a \in Nat /\ IsLabel(Code.code[a])
    <2>1. Compiled(Code) /\ Top.at \in 1 .. Len(Code.code) BY <1>1, Executing
    <2>2. a \in 1 .. Len(Code.code) /\ IsLabel(Code.code[a]) BY <1>1, <2>1, CodeIs
    <2> QED BY <2>1, <2>2, CodeIs
  <1>4. /\ HaveValues(ms)
        /\ \A i \in Top.sure : i \in DOMAIN ms /\ ms[i] = Top.locals[i]
        /\ unheard \/ \A i \in DOMAIN ms : ~ This(i) => ms[i] = Top.locals[i]
    <2>1. Top.unsaved \subseteq Indices /\ \A i \in Top.unsaved : Top.locals[i] # 0
      BY <1>1, Executing DEF Sound
    <2> HIDE DEF a, h1, h2
    <2> QED BY <1>1, <1>2, <2>1, Told
  <1>5. IsKept(Code, Top, modifiedVariablesByIndex) BY <1>1, Running
  <1> HIDE DEF a, ms
  <1>6. ASSUME NEW h \in FrameType, stack' = Moved(h), h.of = Top.of, h.sure = Top.sure, h.locals = Top.locals,
               Sound(Code, h)
        PROVE  RunInv'
    <2>1. unheard \/ IsCurrent(Code, h, ms) BY <1>4, <1>6 DEF IsCurrent, This
    <2>2. IsKept(Code, h, ms) BY <1>4, <1>5, <1>6 DEF IsKept
    <2>3. clock \in Nat BY <1>1, Executing
    <2> QED BY <1>1, <1>4, <1>6, <2>1, <2>2, <2>3, GoesOn
  <1>7. Top \in FrameType /\ Top.at + 1 \in Nat /\ Compiled(Code) /\ Sound(Code, Top) BY <1>1, Executing
  <1>8. CASE stack' = Moved(h1)
    <2>1. /\ h1 \in FrameType /\ h1.at = a /\ h1.of = Top.of /\ ~ h1.fell /\ h1.unsaved = {} /\ h1.sure = Top.sure
          /\ h1.locals = Top.locals
      BY <1>3, <1>7 DEF FrameType
    <2> HIDE DEF h1, h2
    <2>2. Sound(Code, h1) BY <1>3, <2>1, Arrives
    <2> QED BY <1>6, <1>8, <2>1, <2>2
  <1>9. CASE stack' = Moved(h2)
    <2>1. /\ h2 \in FrameType /\ h2.at = Top.at + 1 /\ h2.of = Top.of /\ h2.fell /\ h2.unsaved = {} /\ h2.sure = Top.sure
          /\ h2.locals = Top.locals
      BY <1>2, <1>7 DEF FrameType
    <2> HIDE DEF h1, h2
    <2>2. Sound(Code, h2) BY <1>1, <1>7, <2>1, NextOne
    <2> QED BY <1>6, <1>9, <2>1, <2>2
  <1> QED BY <1>1, <1>8, <1>9

LEMMA SwitchRuns == ASSUME IInv, RunInv, Switch, UNCHANGED <<program, loading>> PROVE RunInv'
  <1> DEFINE a  == Arg
             h  == [Top EXCEPT !.at = a, !.fell = FALSE, !.unsaved = {}, !.sure = {}]
             ms == modifiedVariablesByIndex
  <1>1. /\ stack # <<>> /\ Code.code[Top.at].op = "switch" /\ Code.code[Top.at].arg = a /\ stack' = Moved(h)
        /\ ms' = ms /\ clock' = clock /\ (Top.unsaved # {} => unheard') /\ (unheard => unheard')
    BY DEF Switch, Now, Arg
  <1>2. ~ Began(Top) BY <1>1, Executing DEF IsLabel
  <1>3. a \in 1 .. Len(Code.code) /\ a \in Nat /\ IsLabel(Code.code[a])
    <2>1. Compiled(Code) /\ Top.at \in 1 .. Len(Code.code) BY <1>1, Executing
    <2>2. a \in 1 .. Len(Code.code) /\ IsLabel(Code.code[a]) BY <1>1, <2>1, CodeIs
    <2> QED BY <2>1, <2>2, CodeIs
  <1>4. Top \in FrameType /\ clock \in Nat BY <1>1, Executing
  <1> HIDE DEF a
  <1>5. /\ h \in FrameType /\ h.at = a /\ h.of = Top.of /\ ~ h.fell /\ h.unsaved = {} /\ h.sure = {}
        /\ h.locals = Top.locals
    BY <1>3, <1>4 DEF FrameType
  <1> HIDE DEF h
  <1>6. Sound(Code, h) BY <1>3, <1>5, Arrives
  <1>7. HaveValues(ms) /\ (unheard \/ IsCurrent(Code, Top, ms)) BY <1>1, <1>2, Running
  <1>8. unheard' \/ IsCurrent(Code, h, ms)
    <2>1. CASE Top.unsaved = {}
      <3>1. IsCurrent(Code, Top, ms) => IsCurrent(Code, h, ms) BY <1>5, <2>1 DEF IsCurrent
      <3> QED BY <1>1, <1>7, <3>1
    <2>2. CASE Top.unsaved # {} BY <1>1, <2>2
    <2> QED BY <2>1, <2>2
  <1>9. IsKept(Code, h, ms) BY <1>5 DEF IsKept
  <1> QED BY <1>1, <1>4, <1>5, <1>6, <1>7, <1>8, <1>9, GoesOn

(* A method that begins.                                                   *)
LEMMA Begins ==
  ASSUME NEW p, NEW c \in Classes, Compiled(p[c]), p[c].scopes = scopes[c], NEW v \in Nat, v # 0
  PROVE  /\ Frame(c, v) \in FrameType /\ Sound(p[c], Frame(c, v)) /\ Began(Frame(c, v))
         /\ Frame(c, v).of = c /\ Frame(c, v).sure = {}
  <1> DEFINE h == Frame(c, v)
  <1>1. /\ h.of = c /\ h.at = 1 /\ h.fell = TRUE /\ h.unsaved = {} /\ h.sure = {}
        /\ h.locals = [i \in Indices |-> IF \E d \in Parameters(scopes[c]) : d.index = i THEN v ELSE 0]
    BY DEF Frame
  <1>2. h \in FrameType
    <2>1. [i \in Indices |-> IF \E d \in Parameters(scopes[c]) : d.index = i THEN v ELSE 0] \in [Indices -> Nat]
      OBVIOUS
    <2> QED BY <2>1 DEF Frame, FrameType
  <1> HIDE DEF h
  <1>3. 1 \in 1 .. Len(p[c].code) BY CodeIs
  <1>4. ASSUME NEW d \in Parameters(p[c].scopes) PROVE h.locals[d.index] # 0
    <2>1. d \in p[c].scopes BY DEF Parameters
    <2>2. d.index \in Indices BY <2>1, CodeIs
    <2>3. d \in Parameters(scopes[c]) BY <1>4
    <2> QED BY <1>1, <2>2, <2>3
  <1>5. Sound(p[c], h) BY <1>1, <1>3, <1>4 DEF Sound
  <1> QED BY <1>1, <1>2, <1>5 DEF Began, h

LEMMA CallRuns == ASSUME IInv, RunInv, Call, UNCHANGED <<program, loading>> PROVE RunInv'
  <1> DEFINE a  == Arg
             h  == [Top EXCEPT !.at = @ + 1, !.sure = {}]
             t  == Moved(h)
             b  == Frame(a, clock')
             ms == modifiedVariablesByIndex
  <1>1. /\ stack # <<>> /\ Code.code[Top.at].op = "call" /\ Code.code[Top.at].arg = a /\ stack' = Append(t, b)
        /\ ms' = ms /\ clock' = clock + 1
    BY DEF Call, Now, Arg
  <1>2. Top.fell BY <1>1, Executing DEF IsLabel
  <1>3. /\ Top \in FrameType /\ Top.at + 1 \in Nat /\ Compiled(Code) /\ Sound(Code, Top)
        /\ clock' \in Nat /\ clock' # 0
    BY <1>1, Executing
  <1>4. a \in Classes BY <1>1, <1>3, Executing, CodeIs
  <1> HIDE DEF a
  <1>5. /\ h \in FrameType /\ h.at = Top.at + 1 /\ h.of = Top.of /\ h.fell /\ h.unsaved = Top.unsaved /\ h.sure = {}
        /\ h.locals = Top.locals
    BY <1>2, <1>3 DEF FrameType
  <1> HIDE DEF h
  <1>6. Sound(Code, h)
    <2>1. \A i \in h.unsaved : h.locals[i] # 0 BY <1>3, <1>5 DEF Sound
    <2> QED BY <1>1, <1>3, <1>5, <2>1, NextOne
  <1>7. Frames(program, t) /\ t # <<>> /\ t[Len(t)] = h
    <2>1. Frames(program, stack) /\ Sound(program[h.of], h) BY <1>5, <1>6 DEF RunInv, FramesInv, Code
    <2> DEFINE u == [stack EXCEPT ![Len(stack)] = h]
    <2>2. Frames(program, u) /\ u # <<>> /\ Len(u) = Len(stack) /\ u[Len(u)] = h BY <1>1, <1>5, <2>1, FrameMoves
    <2> QED BY <2>2 DEF Moved
  <1> HIDE DEF t
  <1>8. Compiled(program[a]) /\ program[a].scopes = scopes[a]
    BY <1>1, <1>4, ProgramsAssumption DEF RunInv, LoadedInv
  <1>9. b \in FrameType /\ Sound(program[a], b) /\ Began(b) /\ b.of = a /\ b.sure = {}
    BY <1>3, <1>4, <1>8, Begins
  <1> HIDE DEF b
  <1>10. Frames(program, stack') /\ stack' # <<>> /\ stack'[Len(stack')] = b
    <2> DEFINE u == Append(t, b)
    <2>1. t[Len(t)].sure = {} /\ Sound(program[b.of], b) BY <1>5, <1>7, <1>9
    <2>2. Frames(program, u) /\ u # <<>> /\ u[Len(u)] = b BY <1>7, <1>9, <2>1, FramePushed
    <2> QED BY <1>1, <2>2
  <1>11. LoadedInv' BY <1>1, LoadedStays
  <1>12. FramesInv' BY <1>3, <1>10 DEF FramesInv
  <1>13. Top' = b BY <1>10 DEF Top
  <1>14. HaveValues(ms) BY <1>1, Running
  <1>15. KeptInv' BY <1>1, <1>9, <1>13, <1>14 DEF KeptInv, IsKept
  <1> QED BY <1>11, <1>12, <1>15 DEF RunInv

(* A method ends, and one of those that wait goes on, or none.             *)
LEMMA Ends ==
  ASSUME IInv, RunInv, stack # <<>>, UNCHANGED <<program, loading, clock>>,
         Frames(program, stack'), HaveValues(modifiedVariablesByIndex'),
         stack' # <<>> => stack'[Len(stack')].sure = {},
         unheard' \/ modifiedVariablesByIndex' = None
  PROVE  RunInv'
  <1>1. LoadedInv' BY LoadedStays
  <1>2. FramesInv' BY DEF RunInv, FramesInv
  <1>3. ASSUME stack' # <<>> PROVE IsKept(Code, Top, modifiedVariablesByIndex)'
    BY <1>3 DEF IsKept, Top
  <1>4. unheard' \/ IsCurrent(Code, Top, modifiedVariablesByIndex)' BY DEF IsCurrent, None
  <1>5. KeptInv' BY <1>3, <1>4 DEF KeptInv
  <1> QED BY <1>1, <1>2, <1>5 DEF RunInv

LEMMA ReturnRuns == ASSUME IInv, RunInv, Return, UNCHANGED <<program, loading>> PROVE RunInv'
  <1> DEFINE n == Len(stack) - 1
             t == SubSeq(stack, 1, n)
  <1>1. stack # <<>> /\ stack' = t /\ modifiedVariablesByIndex' = None /\ clock' = clock
    BY DEF Return, Now
  <1>2. Frames(program, stack) /\ Len(stack) \in Nat /\ Len(stack) >= 1
    BY <1>1, FrameOnTop DEF RunInv, FramesInv
  <1>3. n \in 0 .. Len(stack) /\ n \in Nat BY <1>2
  <1> HIDE DEF n
  <1>4. Frames(program, t) /\ Len(t) = n /\ \A k \in 1 .. n : t[k] = stack[k] BY <1>2, <1>3, FramesCut
  <1> HIDE DEF t
  <1>5. ASSUME t # <<>> PROVE t[Len(t)].sure = {}
    <2>1. n >= 1
      <3>1. t \in Seq(FrameType) BY <1>4 DEF Frames
      <3> QED BY <1>3, <1>4, <1>5, <3>1, EmptySeq
    <2>2. n \in 1 .. Len(stack) - 1 BY <1>3, <2>1 DEF n
    <2>3. stack[n].sure = {} BY <1>2, <2>2 DEF Frames
    <2>4. t[n] = stack[n] BY <1>3, <1>4, <2>1
    <2> QED BY <1>4, <2>3, <2>4
  <1>6. HaveValues(None) BY NothingKept
  <1> QED BY <1>1, <1>4, <1>5, <1>6, Ends

(* Whichever frame goes on after an exception does so at its handler.      *)
LEMMA UnwoundIs ==
  ASSUME IInv, RunInv, stack # <<>>
  PROVE  /\ Frames(program, Unwound)
         /\ Unwound # <<>> => Unwound[Len(Unwound)].sure = {} /\ ~ Unwound[Len(Unwound)].fell
         /\ PlainFrames(program, stack) => PlainFrames(program, Unwound)
  <1> DEFINE at(k)   == IF k = Len(stack) THEN stack[k].at ELSE stack[k].at - 1
             catch   == {k \in DOMAIN stack : Covered(program[stack[k].of], at(k))}
             catcher == CHOOSE k \in catch : \A j \in catch : j <= k
             u       == SubSeq(stack, 1, catcher)
             m       == program[stack[catcher].of]
             h       == [u[catcher] EXCEPT !.at = m.handler, !.fell = FALSE, !.unsaved = {}, !.sure = {}]
             t       == [u EXCEPT ![catcher] = h]
  <1>1. Unwound = IF catch = {} THEN <<>> ELSE t BY DEF Unwound
  <1>2. CASE catch = {}
    <2>1. Frames(program, <<>>) /\ PlainFrames(program, <<>>) BY DEF Frames, PlainFrames
    <2> QED BY <1>1, <1>2, <2>1
  <1>3. CASE catch # {}
    <2>1. Frames(program, stack) /\ stack \in Seq(FrameType) /\ Len(stack) \in Nat
      BY FrameOnTop DEF RunInv, FramesInv, Frames
    <2>2. catch \subseteq 1 .. Len(stack) BY <2>1
    <2>3. \E k \in catch : \A j \in catch : j <= k
      <3> HIDE DEF catch
      <3> QED BY <1>3, <2>1, <2>2, Highest
    <2>4. catcher \in catch BY <2>3
    <2>5. m.handler # 0 BY <2>4 DEF Covered
    <2>6. catcher \in 1 .. Len(stack) /\ catcher \in 0 .. Len(stack) /\ catcher \in Nat /\ catcher >= 1
      <3>1. catcher \in 1 .. Len(stack) BY <2>2, <2>4
      <3> HIDE DEF catcher
      <3> QED BY <2>1, <3>1
    <2> HIDE DEF catch, catcher
    <2>7. Frames(program, u) /\ Len(u) = catcher /\ u[catcher] = stack[catcher] BY <2>1, <2>6, FramesCut
    <2>8. stack[catcher] \in FrameType /\ stack[catcher].of \in Classes
      <3>1. stack[catcher] \in FrameType BY <2>1, <2>6
      <3> QED BY <3>1 DEF FrameType
    <2>9. Compiled(m) BY <2>8, ProgramsAssumption DEF RunInv, LoadedInv
    <2>10. m.handler \in 1 .. Len(m.code) /\ m.handler \in Nat /\ IsLabel(m.code[m.handler])
      <3>1. m.handler \in 1 .. Len(m.code) /\ IsLabel(m.code[m.handler]) /\ Len(m.code) \in Nat BY <2>5, <2>9, CodeIs
      <3> QED BY <3>1
    <2> HIDE DEF u
    <2>11. u[catcher] \in FrameType /\ u[catcher].of = stack[catcher].of BY <2>7, <2>8
    <2>12. /\ h \in FrameType /\ h.of = stack[catcher].of /\ h.at = m.handler /\ ~ h.fell /\ h.unsaved = {} /\ h.sure = {}
      BY <2>10, <2>11 DEF FrameType
    <2> HIDE DEF h
    <2>13. Sound(program[h.of], h) BY <2>10, <2>12, Arrives
    <2>14. u # <<>>
      <3>1. u \in Seq(FrameType) BY <2>7 DEF Frames
      <3> QED BY <2>6, <2>7, <3>1
    <2>15. t = [u EXCEPT ![Len(u)] = h] BY <2>7
    <2> HIDE DEF t
    <2> DEFINE w == [u EXCEPT ![Len(u)] = h]
    <2>16. Frames(program, w) /\ w # <<>> /\ Len(w) = Len(u) /\ w[Len(w)] = h
      <3>1. Frames(program, u) BY <2>7
      <3>2. h \in FrameType BY <2>12
      <3> QED BY <2>13, <2>14, <3>1, <3>2, FrameMoves
    <2>17. ASSUME PlainFrames(program, stack) PROVE PlainFrames(program, w)
      <3>1. PlainFrames(program, u) BY <2>1, <2>6, <2>17, PlainCut DEF u
      <3>2. Unsaved(program[h.of], h) BY <2>12 DEF Unsaved, Pending
      <3> QED BY <2>7, <2>12, <2>14, <3>1, <3>2, PlainMoves
    <2>18. Unwound = w BY <1>1, <1>3, <2>15
    <2> QED BY <2>12, <2>16, <2>17, <2>18
  <1> QED BY <1>2, <1>3

LEMMA ThrowRuns == ASSUME IInv, RunInv, Throw, UNCHANGED <<program, loading>> PROVE RunInv'
  <1>1. stack # <<>> /\ stack' = Unwound /\ modifiedVariablesByIndex' = None /\ clock' = clock
    BY DEF Throw, Now
  <1>2. Frames(program, stack') /\ (stack' # <<>> => stack'[Len(stack')].sure = {}) BY <1>1, UnwoundIs
  <1>3. HaveValues(None) BY NothingKept
  <1> QED BY <1>1, <1>2, <1>3, Ends

LEMMA RaiseRuns == ASSUME IInv, RunInv, Raise, UNCHANGED <<program, loading>> PROVE RunInv'
  <1> DEFINE h  == [Top EXCEPT !.at = @ + 1]
             ms == modifiedVariablesByIndex
  <1>1. /\ stack # <<>> /\ Code.code[Top.at].op = "raise" /\ ms' = ms /\ clock' = clock
        /\ (stack' = Moved(h) /\ unheard' = unheard) \/ (stack' = Unwound /\ unheard' = TRUE)
    BY DEF Raise, Now
  <1>2. Top.fell /\ ~ Began(Top) BY <1>1, Executing DEF IsLabel
  <1>3. HaveValues(ms) /\ IsKept(Code, Top, ms) /\ (unheard \/ IsCurrent(Code, Top, ms)) BY <1>1, <1>2, Running
  <1>4. CASE stack' = Moved(h) /\ unheard' = unheard
    <2>1. /\ Top \in FrameType /\ Top.at + 1 \in Nat /\ Compiled(Code) /\ Sound(Code, Top) /\ clock \in Nat
      BY <1>1, Executing
    <2>2. /\ h \in FrameType /\ h.at = Top.at + 1 /\ h.of = Top.of /\ h.fell /\ h.unsaved = Top.unsaved
          /\ h.sure = Top.sure /\ h.locals = Top.locals
      BY <1>2, <2>1 DEF FrameType
    <2> HIDE DEF h
    <2>3. Sound(Code, h)
      <3>1. \A i \in h.unsaved : h.locals[i] # 0 BY <2>1, <2>2 DEF Sound
      <3> QED BY <1>1, <2>1, <2>2, <3>1, NextOne
    <2>4. IsKept(Code, h, ms) BY <1>3, <2>2 DEF IsKept
    <2>5. unheard' \/ IsCurrent(Code, h, ms) BY <1>3, <1>4, <2>2 DEF IsCurrent
    <2> QED BY <1>1, <1>3, <1>4, <2>1, <2>2, <2>3, <2>4, <2>5, GoesOn
  <1>5. CASE stack' = Unwound /\ unheard' = TRUE
    <2>1. Frames(program, stack') /\ (stack' # <<>> => stack'[Len(stack')].sure = {}) BY <1>1, <1>5, UnwoundIs
    <2> QED BY <1>1, <1>3, <1>5, <2>1, Ends
  <1> QED BY <1>1, <1>4, <1>5

LEMMA StartRuns == ASSUME IInv, RunInv, Start, UNCHANGED loading PROVE RunInv'
  <1> DEFINE b == Frame(Main, 1)
  <1>1. /\ program = <<>> /\ modifiedVariablesByIndex' = modifiedVariablesByIndex /\ stack' = <<b>> /\ clock' = 1
        /\ disorder = {} /\ program' \in Programs
        /\ \A c \in Classes : stage[c] = "done" /\ program'[c].scopes = scopes[c]
    BY DEF Start
  <1>2. Main \in Classes /\ DOMAIN program' = Classes /\ Compiled(program'[Main])
    BY <1>1, MainAssumption, ProgramsAssumption
  <1>3. program' # <<>>
    <2>1. DOMAIN <<>> = {} OBVIOUS
    <2> QED BY <1>2, <2>1
  <1>4. LoadedInv' BY <1>1, <1>3 DEF LoadedInv, loading
  <1>5. b \in FrameType /\ Sound(program'[Main], b) /\ Began(b) /\ b.of = Main /\ b.sure = {}
    BY <1>1, <1>2, Begins
  <1> HIDE DEF b
  <1>6. stack' \in Seq(FrameType) /\ Len(stack') = 1 /\ stack'[1] = b BY <1>1, <1>5
  <1>7. FramesInv'
    <2>1. \A k \in 1 .. Len(stack') : k = 1 BY <1>6
    <2>2. \A k \in 1 .. Len(stack') - 1 : stack'[k].sure = {} BY <1>6
    <2>3. \A k \in 1 .. Len(stack') : Sound(program'[stack'[k].of], stack'[k]) BY <1>5, <1>6, <2>1
    <2> QED BY <1>1, <1>6, <2>2, <2>3 DEF FramesInv, Frames
  <1>8. Top' = b BY <1>6 DEF Top
  <1>9. modifiedVariablesByIndex' = None BY <1>1 DEF RunInv, LoadedInv
  <1>10. HaveValues(None) BY NothingKept
  <1>11. KeptInv' BY <1>5, <1>8, <1>9, <1>10 DEF KeptInv, IsKept
  <1> QED BY <1>4, <1>7, <1>11 DEF RunInv

(* Classes are not loaded while the program runs.                          *)
LEMMA LoadingRuns ==
  ASSUME IInv, RunInv, NEW c \in Classes, Transform(c), UNCHANGED running
  PROVE  RunInv'
  <1>1. program = <<>>
    <2>1. stage[c] # "done"
      BY DEF Transform, Declare, Compile, Fail, NameClass, NameMethods, ReadIndex, CountUp, At
    <2> QED BY <2>1 DEF RunInv, LoadedInv
  <1>2. stack = <<>> /\ modifiedVariablesByIndex = None BY <1>1 DEF RunInv, LoadedInv
  <1>3. LoadedInv' BY <1>1, <1>2 DEF LoadedInv, running
  <1>4. FramesInv' BY DEF RunInv, FramesInv, running
  <1>5. KeptInv' BY <1>2 DEF RunInv, KeptInv, running
  <1> QED BY <1>3, <1>4, <1>5 DEF RunInv

LEMMA RunBegins == Init => RunInv
  <1> SUFFICES ASSUME Init PROVE RunInv OBVIOUS
  <1>1. stack = <<>> /\ Len(stack) = 0 /\ program = <<>> /\ modifiedVariablesByIndex = None /\ clock = 0 BY DEF Init
  <1>2. LoadedInv BY <1>1 DEF LoadedInv
  <1>3. FramesInv BY <1>1 DEF FramesInv, Frames
  <1>4. KeptInv BY <1>1, NothingKept DEF KeptInv
  <1> QED BY <1>2, <1>3, <1>4 DEF RunInv

LEMMA RunStays == IInv /\ RunInv /\ [Next]_vars => RunInv'
  <1> SUFFICES ASSUME IInv, RunInv, [Next]_vars PROVE RunInv' OBVIOUS
  <1>1. CASE UNCHANGED vars
    <2>1. UNCHANGED <<loading, running>> BY <1>1 DEF vars
    <2>2. LoadedInv' BY <2>1 DEF RunInv, LoadedInv, loading, running
    <2>3. FramesInv' BY <2>1 DEF RunInv, FramesInv, running
    <2>4. KeptInv' BY <2>1 DEF RunInv, KeptInv, running, Top, Code
    <2> QED BY <2>2, <2>3, <2>4 DEF RunInv
  <1>2. ASSUME NEW c \in Classes, Transform(c), UNCHANGED running PROVE RunInv' BY <1>2, LoadingRuns
  <1>3. CASE Start /\ UNCHANGED loading BY <1>3, StartRuns
  <1>4. CASE Run /\ UNCHANGED <<program, loading>>
    BY <1>4, LineRuns, LabelRuns, StoreRuns, JumpRuns, SwitchRuns, CallRuns, ReturnRuns, ThrowRuns, RaiseRuns DEF Run
  <1> QED BY <1>1, <1>2, <1>3, <1>4 DEF Next

LEMMA RunInvariance == Spec => [](IInv /\ RunInv)
  <1>1. Init => IInv /\ RunInv BY InitInv, RunBegins
  <1>2. IInv /\ RunInv /\ [Next]_vars => (IInv /\ RunInv)' BY StepInv, RunStays
  <1> QED BY <1>1, <1>2, PTL DEF Spec

-----------------------------------------------------------------------------
(* The code put in reads only variables that have a value, so that the     *)
(* rewritten class verifies: whatever method runs, calls and throws.       *)
THEOREM ReadsAreOfValues == Spec => []ReadsHaveValues
  <1>1. RunInv => ReadsHaveValues BY DEF RunInv, KeptInv, HaveValues, ReadsHaveValues
  <1> QED BY <1>1, RunInvariance, PTL

(* What a line is recorded with are values that variables in scope there   *)
(* have, whichever methods have told the agent of values since the line    *)
(* before: but for "this" in a constructor, and after an exception or a    *)
(* store it has not been told of.                                          *)
WrittenIsTrue ==
  Line /\ ~ unheard => \A w \in written' : \E d \in Code.scopes :
    /\ w = <<d.name, Top.locals[d.index]>> \/ (Code.constructor /\ d.index = 0 /\ w[1] = d.name)
    /\ d.from <= Label /\ Label <= d.to

LEMMA LineTells ==
  ASSUME IInv, RunInv, Line
  PROVE  /\ stack # <<>> /\ IsLabel(Code.code[Top.at]) /\ Label \in Nat
         /\ written' = {<<d.name, AtLabel[d.index]>> : d \in UNION {Lookup(Top.of, i, Label) : i \in DOMAIN AtLabel}}
  <1>1. stack # <<>> /\ IsLabel(Code.code[Top.at]) BY DEF Line, Now, IsLabel
  <1>2. Label \in Nat BY <1>1, ToldAtLabel
  <1> QED BY <1>1, <1>2 DEF Line

THEOREM LinesShowTheTruth == Spec => LinesAreTrue
  <1>1. ASSUME IInv, RunInv PROVE WrittenIsTrue
    <2> SUFFICES ASSUME Line, ~ unheard, NEW w \in written'
                 PROVE  \E d \in Code.scopes :
                          /\ w = <<d.name, Top.locals[d.index]>> \/ (Code.constructor /\ d.index = 0 /\ w[1] = d.name)
                          /\ d.from <= Label /\ Label <= d.to
      BY DEF WrittenIsTrue
    <2>1. /\ stack # <<>> /\ IsLabel(Code.code[Top.at]) /\ Label \in Nat
          /\ written' = {<<d.name, AtLabel[d.index]>> : d \in UNION {Lookup(Top.of, i, Label) : i \in DOMAIN AtLabel}}
      BY <1>1, LineTells
    <2>p. PICK d \in UNION {Lookup(Top.of, i, Label) : i \in DOMAIN AtLabel} : w = <<d.name, AtLabel[d.index]>>
      BY <2>1
    <2>q. PICK i \in DOMAIN AtLabel : d \in Lookup(Top.of, i, Label) OBVIOUS
    <2>2. w = <<d.name, AtLabel[d.index]>> BY <2>p
    <2>3. d \in Code.scopes /\ d.index = i /\ d.from <= Label /\ Label <= d.to
      BY <1>1, <2>1, <2>q, LookupIs
    <2>4. CASE This(i)
      <3>1. w[1] = d.name BY <2>2
      <3> QED BY <2>3, <2>4, <3>1 DEF This
    <2>5. CASE ~ This(i)
      <3>1. AtLabel[i] = Top.locals[i]
        <4>1. CASE ~ Began(Top) BY <1>1, <2>1, <2>5, <4>1, ToldAtLabel
        <4>2. CASE Began(Top)
          <5>1. Label = 0 /\ \A e \in Parameters(Code.scopes) : ~ This(e.index) => AtLabel[e.index] = Top.locals[e.index]
            BY <1>1, <2>1, <4>2, ToldAtLabel
          <5>2. Code.scopes \subseteq [name : Names, index : Indices, from : Nat, to : Nat]
            BY <1>1, <2>1, Running, CodeIs
          <5>3. d.from = 0 BY <2>3, <5>1, <5>2
          <5>4. d \in Parameters(Code.scopes) BY <2>3, <5>3 DEF Parameters
          <5> QED BY <2>3, <2>5, <5>1, <5>4
        <4> QED BY <4>1, <4>2
      <3> QED BY <2>2, <2>3, <3>1
    <2> QED BY <2>4, <2>5
  <1>2. IInv /\ RunInv /\ [Next]_vars => [WrittenIsTrue]_vars BY <1>1
  <1>3. [][WrittenIsTrue]_vars => LinesAreTrue
    <2>1. [WrittenIsTrue]_vars => [Line /\ ~ unheard => \A w \in written' : \E d \in Code.scopes :
            /\ w = <<d.name, Top.locals[d.index]>> \/ (Code.constructor /\ d.index = 0 /\ w[1] = d.name)
            /\ d.from <= Label /\ Label <= d.to]_vars
      BY DEF WrittenIsTrue
    <2> QED BY <2>1, PTL DEF LinesAreTrue
  <1> QED BY <1>2, <1>3, RunInvariance, PTL DEF Spec

(* An assignment is recorded with the next line of its method, unless the  *)
(* line went on with a call, a switch or an exception.                     *)
HasAssignments ==
  Line => \A d \in Code.scopes :
    d.index \in Top.sure /\ d.from <= Label /\ Label <= d.to => <<d.name, Top.locals[d.index]>> \in written'

THEOREM LinesHaveAssignments == Spec => LineHasAssignments
  <1>1. ASSUME IInv, RunInv PROVE HasAssignments
    <2> SUFFICES ASSUME Line, NEW d \in Code.scopes, d.index \in Top.sure, d.from <= Label, Label <= d.to
                 PROVE  <<d.name, Top.locals[d.index]>> \in written'
      BY DEF HasAssignments
    <2>1. /\ stack # <<>> /\ IsLabel(Code.code[Top.at]) /\ Label \in Nat
          /\ written' = {<<e.name, AtLabel[e.index]>> : e \in UNION {Lookup(Top.of, i, Label) : i \in DOMAIN AtLabel}}
      BY <1>1, LineTells
    <2>2. d.index \in DOMAIN AtLabel /\ AtLabel[d.index] = Top.locals[d.index] BY <1>1, <2>1, ToldAtLabel
    <2>3. d \in Lookup(Top.of, d.index, Label) BY <1>1, <2>1, LookupIs
    <2>4. d \in UNION {Lookup(Top.of, i, Label) : i \in DOMAIN AtLabel} BY <2>2, <2>3
    <2> QED BY <2>1, <2>2, <2>4
  <1>2. IInv /\ RunInv /\ [Next]_vars => [HasAssignments]_vars BY <1>1
  <1>3. [][HasAssignments]_vars => LineHasAssignments
    <2>1. [HasAssignments]_vars => [Line => \A d \in Code.scopes :
            d.index \in Top.sure /\ d.from <= Label /\ Label <= d.to => <<d.name, Top.locals[d.index]>> \in written']_vars
      BY DEF HasAssignments
    <2> QED BY <2>1, PTL DEF LineHasAssignments
  <1> QED BY <1>2, <1>3, RunInvariance, PTL DEF Spec

-----------------------------------------------------------------------------
(* Plain programs. What is in front of a frame's instruction is a store    *)
(* only if that is a line.                                                 *)
LEMMA NoNews ==
  ASSUME NEW m, Compiled(m), PlainCode(m), NEW f \in FrameType, Sound(m, f), m.code[f.at].op # "line"
  PROVE  ~ Pending(m, f) /\ ~ Began(f) /\ News(m, f) = {}
  <1>1. f.at \in 1 .. Len(m.code) /\ DOMAIN m.code = 1 .. Len(m.code) /\ Len(m.code) \in Nat /\ f.at \in Nat
    BY CodeIs DEF Sound
  <1>2. ~ Began(f) BY CodeIs DEF Began
  <1>3. ~ Pending(m, f)
    <2> SUFFICES ASSUME Pending(m, f) PROVE FALSE OBVIOUS
    <2>1. f.at > 1 /\ m.code[f.at - 1].op = "store" BY DEF Pending
    <2>2. f.at - 1 \in DOMAIN m.code /\ (f.at - 1) + 1 = f.at BY <1>1, <2>1
    <2> QED BY <2>1, <2>2 DEF PlainCode
  <1> QED BY <1>2, <1>3 DEF News

LEMMA NoNewsAfter ==
  ASSUME NEW m, NEW k \in Nat, k >= 1, NEW h, h.at = k + 1, m.code[k].op # "store"
  PROVE  ~ Pending(m, h) /\ ~ Began(h) /\ News(m, h) = {}
  <1>1. h.at - 1 = k /\ h.at # 1 OBVIOUS
  <1>2. ~ Pending(m, h) /\ ~ Began(h) BY <1>1 DEF Pending, Began
  <1> QED BY <1>2 DEF News

LEMMA NoNewsThere == ASSUME NEW m, NEW h, ~ h.fell PROVE ~ Pending(m, h) /\ ~ Began(h) /\ News(m, h) = {}
  BY DEF Pending, Began, News

(* Watches that lack nothing, and what an assignment changes.              *)
LEMMA AllShown == ASSUME NEW w, NEW a, NEW l, Shown(w, a, {}, l) PROVE w = a /\ a \in [Names -> Nat]
  <1>1. w \in [Names -> Nat] /\ a \in [Names -> Nat] /\ \A n \in Names : w[n] = a[n] BY DEF Shown
  <1> QED BY <1>1

LEMMA ShownAgain == ASSUME NEW a \in [Names -> Nat], NEW l PROVE Shown(a, a, {}, l)
  BY DEF Shown

LEMMA Assigned ==
  ASSUME assigned \in [Names -> Nat], NEW D, NEW v \in Nat, NEW l, \A d \in D : d.name \in Names /\ l[d.index] = v
  PROVE  Shown(assigned, Assigns(D, v), D, l)
  <1> DEFINE a == Assigns(D, v)
  <1>1. a = [n \in Names |-> IF \E d \in D : d.name = n THEN v ELSE assigned[n]] BY DEF Assigns
  <1>2. a \in [Names -> Nat] BY <1>1
  <1> HIDE DEF a
  <1>3. ASSUME NEW n \in Names, \A d \in D : d.name # n PROVE assigned[n] = a[n] BY <1>1, <1>3
  <1>4. ASSUME NEW d \in D PROVE a[d.name] = l[d.index] BY <1>1, <1>4
  <1>5. Shown(assigned, a, D, l) BY <1>2, <1>3, <1>4 DEF Shown
  <1> QED BY <1>5 DEF a

(* What holds when a plain program runs, and when it is not at a line.     *)
LEMMA RunsPlain ==
  ASSUME IInv, RunInv, WatchInv, Plain, stack # <<>>
  PROVE  /\ Top \in FrameType /\ Compiled(Code) /\ Sound(Code, Top) /\ PlainCode(Code)
         /\ modifiedVariablesByIndex = None
         /\ PlainFrames(program, stack) /\ Frames(program, stack) /\ Unsaved(Code, Top)
         /\ Shown(watch, assigned, News(Code, Top), Top.locals)
  <1>1. Top \in FrameType /\ Compiled(Code) /\ Sound(Code, Top) /\ Top.of \in Classes BY Executing
  <1>2. PlainCode(Code)
    <2>1. DOMAIN program = Classes BY ProgramsAssumption, Running DEF RunInv, LoadedInv
    <2> QED BY <1>1, <2>1 DEF Plain, PlainCode, Code
  <1>3. /\ modifiedVariablesByIndex = None /\ PlainFrames(program, stack)
        /\ Shown(watch, assigned, News(Code, Top), Top.locals)
    BY DEF WatchInv
  <1>4. Frames(program, stack) BY DEF RunInv, FramesInv
  <1>5. Unsaved(Code, Top)
    <2>1. Len(stack) \in 1 .. Len(stack) BY <1>4, FrameOnTop
    <2> QED BY <1>3, <2>1 DEF PlainFrames, Top, Code
  <1> QED BY <1>1, <1>2, <1>3, <1>4, <1>5

LEMMA RunsOn ==
  ASSUME IInv, RunInv, WatchInv, Plain, stack # <<>>, Code.code[Top.at].op # "line"
  PROVE  /\ ~ Pending(Code, Top) /\ ~ Began(Top) /\ Top.unsaved = {} /\ modifiedVariablesByIndex = None
         /\ watch = assigned /\ assigned \in [Names -> Nat]
  <1>1. ~ Pending(Code, Top) /\ ~ Began(Top) /\ News(Code, Top) = {} BY RunsPlain, NoNews
  <1>2. Top.unsaved = {} BY <1>1, RunsPlain DEF Unsaved
  <1>3. Shown(watch, assigned, {}, Top.locals) BY <1>1, RunsPlain
  <1>4. watch = assigned /\ assigned \in [Names -> Nat] BY <1>3, AllShown
  <1> QED BY <1>1, <1>2, <1>4, RunsPlain

(* The frame on top goes on, or one that waited does.                      *)
LEMMA GoesOnPlain ==
  ASSUME RunInv, stack # <<>>, PlainFrames(program, stack), UNCHANGED program,
         NEW h \in FrameType, stack' = Moved(h), h.of = Top.of, Sound(Code, h), Unsaved(Code, h),
         modifiedVariablesByIndex' = None, Shown(watch', assigned', News(Code, h), h.locals)
  PROVE  WatchInv'
  <1> DEFINE t == [stack EXCEPT ![Len(stack)] = h]
  <1>1. Frames(program, stack) /\ Sound(program[h.of], h) /\ Unsaved(program[h.of], h)
    BY DEF RunInv, FramesInv, Code
  <1>2. t # <<>> /\ t[Len(t)] = h
    <2>1. Frames(program, t) /\ t # <<>> /\ Len(t) = Len(stack) /\ t[Len(t)] = h BY <1>1, FrameMoves
    <2> QED BY <2>1
  <1>3. PlainFrames(program, t) BY <1>1, PlainMoves
  <1>4. stack' = t BY DEF Moved
  <1> HIDE DEF t
  <1>5. Top' = h /\ Code' = Code BY <1>2, <1>4 DEF Top, Code
  <1>6. stack' # <<>> /\ PlainFrames(program, stack)' BY <1>2, <1>3, <1>4
  <1>7. Shown(watch, assigned, News(Code, Top), Top.locals)' BY <1>5
  <1> QED BY <1>6, <1>7 DEF WatchInv

LEMMA EndsPlain ==
  ASSUME PlainFrames(program, stack'), UNCHANGED program, modifiedVariablesByIndex' = None,
         watch' = assigned', assigned' \in [Names -> Nat],
         stack' # <<>> => News(program[stack'[Len(stack')].of], stack'[Len(stack')]) = {}
  PROVE  WatchInv'
  <1>1. ASSUME NEW l PROVE Shown(watch', assigned', {}, l) BY ShownAgain
  <1>2. ASSUME stack' # <<>> PROVE Shown(watch, assigned, News(Code, Top), Top.locals)'
    <2>1. News(Code', Top') = {} BY <1>2 DEF Top, Code
    <2>2. Shown(watch', assigned', {}, Top'.locals) BY <1>1
    <2> QED BY <2>1, <2>2
  <1> QED BY <1>1, <1>2 DEF WatchInv

(* What the agent is told in front of a label: at one without a line       *)
(* nothing, and at a line the news.                                        *)
LEMMA StartsAreNews ==
  ASSUME IInv, RunInv, stack # <<>>, IsLabel(Code.code[Top.at]), Top.at # 1, Top.fell,
         NEW i \in StartingAt(Top.of, Label)
  PROVE  Pending(Code, Top) /\ Code.code[Top.at - 1].arg = i
  <1>1. Compiled(Code) /\ Top.at \in 1 .. Len(Code.code) /\ Top.at \in Nat BY Executing
  <1>2. Label \in Nat BY ToldAtLabel
  <1>3. PICK d \in Code.scopes : d.index = i /\ d.from = Label BY <1>2, StartsAre
  <1>4. d.from = LabelsIn(Code, Top.at) - 1 BY <1>3 DEF Label
  <1>5. Code.code[Top.at - 1].op = "store" /\ Code.code[Top.at - 1].arg = d.index BY <1>1, <1>3, <1>4, StartsAfterStore
  <1>6. Top.at > 1
    <2>1. Len(Code.code) \in Nat BY <1>1, CodeIs
    <2> QED BY <1>1, <2>1
  <1> QED BY <1>3, <1>5, <1>6 DEF Pending

LEMMA NothingTold ==
  ASSUME IInv, RunInv, stack # <<>>, IsLabel(Code.code[Top.at]), modifiedVariablesByIndex = None,
         ~ Pending(Code, Top), ~ Began(Top), Top.unsaved = {}
  PROVE  AtLabel = None
  <1>1. CASE ~ Top.fell BY <1>1 DEF AtLabel
  <1>2. CASE Top.fell
    <2>1. StartingAt(Top.of, Label) = {}
      <3>1. Top.at # 1 BY <1>2 DEF Began
      <3> QED BY <1>2, <3>1, StartsAreNews
    <2>2. AtLabel = Captured({}) BY <1>2, <2>1 DEF AtLabel
    <2>3. Captured({}) = None BY DEF Captured, None
    <2> QED BY <2>2, <2>3
  <1> QED BY <1>1, <1>2

LEMMA InScopeAtLine ==
  ASSUME NEW m, Compiled(m), NEW k \in 1 .. Len(m.code), k # 1, IsLabel(m.code[k]), NEW d \in m.scopes
  PROVE  LET l == LabelsIn(m, k) - 1
         IN  d \in InScope(m, k - 1) \cup InScope(m, k) <=> d.from <= l /\ l <= d.to
  <1> DEFINE l == LabelsIn(m, k) - 1
  <1>1. k \in Nat /\ k - 1 \in Nat /\ k - 1 < k /\ k = (k - 1) + 1
    <2>1. Len(m.code) \in Nat BY CodeIs
    <2> QED BY <2>1
  <1>2. LabelsIn(m, k - 1) \in Nat /\ LabelsIn(m, k) \in Nat /\ LabelsIn(m, k) = LabelsIn(m, k - 1) + 1
    BY <1>1, LabelsGrow
  <1>3. d.from \in Nat /\ d.to \in Nat /\ d.from < d.to
    <2>1. d \in [name : Names, index : Indices, from : Nat, to : Nat] BY CodeIs
    <2>2. d.from < d.to BY DEF Compiled, WellFormed
    <2> QED BY <2>1, <2>2
  <1>4. d \in InScope(m, k - 1) <=> d.from < LabelsIn(m, k - 1) /\ LabelsIn(m, k - 1) <= d.to BY DEF InScope
  <1>5. d \in InScope(m, k) <=> d.from < LabelsIn(m, k) /\ LabelsIn(m, k) <= d.to BY DEF InScope
  <1> QED BY <1>2, <1>3, <1>4, <1>5

LEMMA LineTakesNews ==
  ASSUME IInv, RunInv, WatchInv, Plain, Line
  PROVE  /\ \A d \in News(Code, Top) :
              d \in Code.scopes /\ d.index \in DOMAIN AtLabel /\ AtLabel[d.index] = Top.locals[d.index]
              /\ d.from <= Label /\ Label <= d.to
         /\ \A d \in Code.scopes :
              d.index \in DOMAIN AtLabel /\ d.from <= Label /\ Label <= d.to => d \in News(Code, Top)
  <1> DEFINE ms == modifiedVariablesByIndex
             S  == Top.unsaved \cup StartingAt(Top.of, Label)
  <1>1. stack # <<>> /\ IsLabel(Code.code[Top.at]) /\ Label \in Nat BY LineTells
  <1>2. /\ Top \in FrameType /\ Compiled(Code) /\ Sound(Code, Top) /\ ms = None /\ Unsaved(Code, Top)
    BY <1>1, RunsPlain
  <1>3. Top.at \in 1 .. Len(Code.code) /\ Top.at \in Nat BY <1>1, Executing
  <1>4. CASE ~ Pending(Code, Top) /\ ~ Began(Top)
    <2>1. News(Code, Top) = {} BY <1>4 DEF News
    <2>2. Top.unsaved = {} BY <1>2, <1>4 DEF Unsaved
    <2>3. AtLabel = None BY <1>1, <1>2, <1>4, <2>2, NothingTold
    <2> QED BY <2>1, <2>3 DEF None
  <1>5. CASE Pending(Code, Top)
    <2> DEFINE a == Code.code[Top.at - 1].arg
    <2>1. Top.fell /\ Top.at # 1 /\ Code.code[Top.at - 1].op = "store" /\ Top.at - 1 \in 1 .. Len(Code.code)
          /\ (Top.at - 1) + 1 = Top.at
      <3>1. Len(Code.code) \in Nat BY <1>2, CodeIs
      <3> QED BY <1>3, <1>5, <3>1 DEF Pending
    <2>2. a \in Indices /\ ~ This(a) BY <1>2, <2>1, CodeIs DEF This
    <2>3. Top.unsaved = {a} BY <1>2, <1>5 DEF Unsaved
    <2>4. S = {a}
      <3>1. \A i \in StartingAt(Top.of, Label) : i = a BY <1>1, <2>1, StartsAreNews
      <3> QED BY <2>3, <3>1
    <2>5. AtLabel = Captured({a}) BY <2>1, <2>4 DEF AtLabel
    <2>6. DOMAIN AtLabel = {a} /\ AtLabel[a] = Top.locals[a]
      <3>1. DOMAIN ms = {} BY <1>2 DEF None
      <3> HIDE DEF a
      <3>2. DOMAIN Captured({a}) = {i \in {a} : ~ This(i)} \cup DOMAIN ms BY CapturedIs
      <3>3. Captured({a})[a] = Top.locals[a] BY <2>2, CapturedIs
      <3> QED BY <2>2, <2>5, <3>1, <3>2, <3>3
    <2>7. \A d : d \in News(Code, Top) <=> d \in InScope(Code, Top.at - 1) \cup InScope(Code, Top.at) /\ d.index = a
      BY <1>5, <2>1 DEF News, Stored
    <2>8. ASSUME NEW d \in Code.scopes
          PROVE  d \in InScope(Code, Top.at - 1) \cup InScope(Code, Top.at) <=> d.from <= Label /\ Label <= d.to
      <3> DEFINE l == LabelsIn(Code, Top.at) - 1
      <3>1. d \in InScope(Code, Top.at - 1) \cup InScope(Code, Top.at) <=> d.from <= l /\ l <= d.to
        BY <1>1, <1>2, <1>3, <2>1, InScopeAtLine
      <3> QED BY <3>1 DEF Label
    <2>9. InScope(Code, Top.at - 1) \cup InScope(Code, Top.at) \subseteq Code.scopes BY DEF InScope
    <2> HIDE DEF a
    <2> QED BY <2>6, <2>7, <2>8, <2>9
  <1>6. CASE ~ Pending(Code, Top) /\ Began(Top)
    <2>1. Top.fell /\ Top.at = 1 /\ Top.unsaved = {} BY <1>2, <1>6 DEF Began, Unsaved
    <2>2. Label = 0 BY <1>1, <1>6, ToldAtLabel
    <2>3. AtLabel = Captured(S) BY <2>1 DEF AtLabel
    <2>4. DOMAIN ms = {} BY <1>2 DEF None
    <2>5. DOMAIN AtLabel = {i \in S : ~ This(i)}
      <3> HIDE DEF S
      <3> QED BY <2>3, <2>4, CapturedIs
    <2>6. \A d \in Parameters(Code.scopes) :
            ~ This(d.index) => d.index \in DOMAIN AtLabel /\ AtLabel[d.index] = Top.locals[d.index]
      BY <1>1, <1>6, ToldAtLabel
    <2>7. News(Code, Top) = Passed(Code) BY <1>6 DEF News
    <2>8. \A d \in Code.scopes : d.from \in Nat /\ d.to \in Nat BY <1>2, CodeIs
    <2>9. ASSUME NEW d \in News(Code, Top)
          PROVE  /\ d \in Code.scopes /\ d.index \in DOMAIN AtLabel /\ AtLabel[d.index] = Top.locals[d.index]
                 /\ d.from <= Label /\ Label <= d.to
      <3>1. d \in Parameters(Code.scopes) /\ ~ This(d.index) BY <2>7 DEF Passed, This
      <3>2. d \in Code.scopes /\ d.from = 0 BY <3>1 DEF Parameters
      <3> QED BY <2>2, <2>6, <2>8, <3>1, <3>2
    <2>10. ASSUME NEW d \in Code.scopes, d.index \in DOMAIN AtLabel, d.from <= Label
           PROVE  d \in News(Code, Top)
      <3>1. d.from = 0 BY <2>2, <2>8, <2>10
      <3>2. ~ This(d.index) BY <2>5, <2>10
      <3> QED BY <2>7, <3>1, <3>2 DEF Passed, Parameters, This
    <2> QED BY <2>9, <2>10
  <1> QED BY <1>4, <1>5, <1>6

LEMMA LineShows == ASSUME IInv, RunInv, WatchInv, Plain, Line PROVE watch' = assigned
  <1> DEFINE D == News(Code, Top)
  <1>1. stack # <<>> /\ Label \in Nat
        /\ written' = {<<d.name, AtLabel[d.index]>> : d \in UNION {Lookup(Top.of, i, Label) : i \in DOMAIN AtLabel}}
    BY LineTells
  <1>2. Shown(watch, assigned, D, Top.locals) BY <1>1, RunsPlain
  <1>3. ASSUME NEW w \in written' PROVE \E d \in D : w = <<d.name, Top.locals[d.index]>>
    <2>1. PICK d \in UNION {Lookup(Top.of, i, Label) : i \in DOMAIN AtLabel} : w = <<d.name, AtLabel[d.index]>>
      BY <1>1
    <2>2. PICK i \in DOMAIN AtLabel : d \in Lookup(Top.of, i, Label) OBVIOUS
    <2>3. d \in Code.scopes /\ d.index = i /\ d.from <= Label /\ Label <= d.to BY <1>1, <2>2, LookupIs
    <2>4. d \in D BY <2>2, <2>3, LineTakesNews
    <2>5. AtLabel[d.index] = Top.locals[d.index] BY <2>4, LineTakesNews
    <2> QED BY <2>1, <2>4, <2>5
  <1>4. ASSUME NEW d \in D PROVE <<d.name, Top.locals[d.index]>> \in written'
    <2>1. d \in Code.scopes /\ d.index \in DOMAIN AtLabel /\ AtLabel[d.index] = Top.locals[d.index]
          /\ d.from <= Label /\ Label <= d.to
      BY LineTakesNews
    <2>2. d \in Lookup(Top.of, d.index, Label) BY <1>1, <2>1, LookupIs
    <2>3. d \in UNION {Lookup(Top.of, i, Label) : i \in DOMAIN AtLabel} BY <2>1, <2>2
    <2> QED BY <1>1, <2>1, <2>3
  <1>5. watch' = [n \in Names |-> IF \E w \in written' : w[1] = n
                                  THEN (CHOOSE w \in written' : w[1] = n)[2] ELSE watch[n]]
    BY DEF Line
  <1> HIDE DEF D
  <1>6. ASSUME NEW n \in Names PROVE watch'[n] = assigned[n]
    <2>1. CASE \E w \in written' : w[1] = n
      <3> DEFINE w == CHOOSE x \in written' : x[1] = n
      <3>1. w \in written' /\ w[1] = n BY <2>1
      <3>2. watch'[n] = w[2] BY <1>5, <2>1
      <3> HIDE DEF w
      <3>3. PICK d \in D : w = <<d.name, Top.locals[d.index]>> BY <1>3, <3>1
      <3>4. d.name = n /\ w[2] = Top.locals[d.index] BY <3>1, <3>3
      <3>5. assigned[d.name] = Top.locals[d.index] BY <1>2, <3>3 DEF Shown
      <3> QED BY <3>2, <3>4, <3>5
    <2>2. CASE ~ \E w \in written' : w[1] = n
      <3>1. \A d \in D : d.name # n
        <4> SUFFICES ASSUME NEW d \in D, d.name = n PROVE FALSE OBVIOUS
        <4> DEFINE w == <<d.name, Top.locals[d.index]>>
        <4>1. w \in written' BY <1>4
        <4>2. w[1] = n OBVIOUS
        <4> QED BY <2>2, <4>1, <4>2
      <3> QED BY <1>2, <1>5, <2>2, <3>1 DEF Shown
    <2> QED BY <2>1, <2>2
  <1>7. assigned \in [Names -> Nat] BY <1>2 DEF Shown
  <1>8. watch' = [n \in Names |-> watch'[n]]
    <2> DEFINE v(n) == IF \E w \in written' : w[1] = n
                       THEN (CHOOSE w \in written' : w[1] = n)[2] ELSE watch[n]
    <2>1. watch' = [n \in Names |-> v(n)] BY <1>5
    <2> HIDE DEF v
    <2> QED BY <2>1
  <1> QED BY <1>6, <1>7, <1>8

(* The steps of the program, when it is plain.                             *)
Keeps == IInv /\ RunInv /\ WatchInv /\ Plain /\ UNCHANGED <<program, loading>>

LEMMA LinePlain == ASSUME Keeps, Line PROVE WatchInv'
  <1> DEFINE h == [Top EXCEPT !.at = @ + 1, !.fell = TRUE, !.unsaved = {}, !.sure = {}]
  <1>1. /\ stack # <<>> /\ Code.code[Top.at].op = "line" /\ stack' = Moved(h)
        /\ modifiedVariablesByIndex' = None /\ assigned' = assigned
    BY DEF Line, Now
  <1>2. /\ Top \in FrameType /\ Compiled(Code) /\ Sound(Code, Top)
        /\ Top.at \in Nat /\ Top.at >= 1 /\ Top.at + 1 \in Nat
        /\ PlainFrames(program, stack) /\ assigned \in [Names -> Nat]
    <2>1. Top.at \in 1 .. Len(Code.code) /\ Len(Code.code) \in Nat BY <1>1, Executing, CodeIs DEF Keeps
    <2> QED BY <1>1, <2>1, RunsPlain DEF Keeps, Shown
  <1>3. /\ h \in FrameType /\ h.at = Top.at + 1 /\ h.of = Top.of /\ h.fell /\ h.unsaved = {}
    BY <1>2 DEF FrameType
  <1> HIDE DEF h
  <1>4. Sound(Code, h) BY <1>1, <1>2, <1>3, NextOne
  <1>5. ~ Pending(Code, h) /\ News(Code, h) = {} BY <1>1, <1>2, <1>3, NoNewsAfter
  <1>6. Unsaved(Code, h) BY <1>3, <1>5 DEF Unsaved
  <1>7. watch' = assigned BY LineShows DEF Keeps
  <1>8. Shown(watch', assigned', News(Code, h), h.locals) BY <1>1, <1>2, <1>5, <1>7, ShownAgain
  <1> QED BY <1>1, <1>2, <1>3, <1>4, <1>6, <1>8, GoesOnPlain DEF Keeps

(* Steps that assign nothing, after which the method goes on.              *)
LEMMA QuietPlain ==
  ASSUME Keeps, stack # <<>>, Code.code[Top.at].op # "line", UNCHANGED <<watch, assigned>>,
         modifiedVariablesByIndex' = None,
         NEW h \in FrameType, stack' = Moved(h), h.of = Top.of, h.unsaved = {}, Sound(Code, h),
         ~ h.fell \/ (h.at = Top.at + 1 /\ Code.code[Top.at].op # "store")
  PROVE  WatchInv'
  <1>1. /\ PlainFrames(program, stack) /\ Top.at \in Nat /\ Top.at >= 1
        /\ watch = assigned /\ assigned \in [Names -> Nat]
    <2>1. Top.at \in 1 .. Len(Code.code) /\ Len(Code.code) \in Nat BY Executing, CodeIs DEF Keeps
    <2>2. watch = assigned /\ assigned \in [Names -> Nat] BY RunsOn DEF Keeps
    <2>3. PlainFrames(program, stack) BY RunsPlain DEF Keeps
    <2> QED BY <2>1, <2>2, <2>3
  <1>2. ~ Pending(Code, h) /\ News(Code, h) = {}
    <2>1. CASE ~ h.fell BY <2>1, NoNewsThere
    <2>2. CASE h.at = Top.at + 1 /\ Code.code[Top.at].op # "store" BY <1>1, <2>2, NoNewsAfter
    <2> QED BY <2>1, <2>2
  <1>3. Unsaved(Code, h) BY <1>2 DEF Unsaved
  <1>4. Shown(watch', assigned', News(Code, h), h.locals) BY <1>1, <1>2, ShownAgain
  <1> QED BY <1>1, <1>3, <1>4, GoesOnPlain DEF Keeps

LEMMA LabelPlain == ASSUME Keeps, LabelOnly PROVE WatchInv'
  <1> DEFINE h == [Top EXCEPT !.at = @ + 1, !.fell = TRUE, !.unsaved = {}]
  <1>1. /\ stack # <<>> /\ Code.code[Top.at].op = "label" /\ stack' = Moved(h)
        /\ modifiedVariablesByIndex' = AtLabel /\ UNCHANGED <<watch, assigned>>
    BY DEF LabelOnly, Now
  <1>2. Top \in FrameType /\ Top.at + 1 \in Nat /\ Compiled(Code) /\ Sound(Code, Top) BY <1>1, Executing DEF Keeps
  <1>3. h \in FrameType /\ h.at = Top.at + 1 /\ h.of = Top.of /\ h.fell /\ h.unsaved = {}
    BY <1>2 DEF FrameType
  <1> HIDE DEF h
  <1>4. Sound(Code, h) BY <1>1, <1>2, <1>3, NextOne
  <1>5. AtLabel = None
    <2>1. IsLabel(Code.code[Top.at]) BY <1>1 DEF IsLabel
    <2>2. ~ Pending(Code, Top) /\ ~ Began(Top) /\ Top.unsaved = {} /\ modifiedVariablesByIndex = None
      BY <1>1, RunsOn DEF Keeps
    <2> QED BY <1>1, <2>1, <2>2, NothingTold DEF Keeps
  <1> QED BY <1>1, <1>3, <1>4, <1>5, QuietPlain

LEMMA StorePlain == ASSUME Keeps, Store PROVE WatchInv'
  <1> DEFINE a == Arg
             h == [Top EXCEPT !.at = @ + 1, !.locals[a] = clock', !.unsaved = @ \cup {a}, !.sure = @ \cup {a}]
             D == Stored(Code, Top.at)
  <1>1. /\ stack # <<>> /\ Code.code[Top.at].op = "store" /\ Code.code[Top.at].arg = a /\ stack' = Moved(h)
        /\ clock' = clock + 1 /\ assigned' = Assigns(D, clock') /\ watch' = watch
        /\ modifiedVariablesByIndex' = modifiedVariablesByIndex
    BY DEF Store, Now, Arg
  <1>2. /\ Top \in FrameType /\ Top.at + 1 \in Nat /\ Top.at \in Nat /\ Top.at >= 1 /\ Top.locals \in [Indices -> Nat]
        /\ Compiled(Code) /\ Sound(Code, Top) /\ clock' \in Nat /\ clock' # 0 /\ Top.fell
        /\ Top.at \in 1 .. Len(Code.code)
    <2>1. Top.at \in 1 .. Len(Code.code) /\ Len(Code.code) \in Nat BY <1>1, Executing, CodeIs DEF Keeps
    <2> QED BY <1>1, <2>1, Executing DEF Keeps, IsLabel
  <1>3. a \in Indices BY <1>1, <1>2, CodeIs
  <1>4. /\ Top.unsaved = {} /\ modifiedVariablesByIndex = None
        /\ watch = assigned /\ assigned \in [Names -> Nat]
    BY <1>1, RunsOn DEF Keeps
  <1> HIDE DEF a
  <1>5. /\ h \in FrameType /\ h.at = Top.at + 1 /\ h.of = Top.of /\ h.fell /\ h.unsaved = {a}
        /\ h.locals = [Top.locals EXCEPT ![a] = clock']
    BY <1>2, <1>3, <1>4 DEF FrameType
  <1> HIDE DEF h
  <1>6. h.locals[a] = clock' BY <1>2, <1>3, <1>5
  <1>7. Sound(Code, h)
    <2>1. \A i \in h.unsaved : h.locals[i] # 0 BY <1>2, <1>5, <1>6
    <2>2. Code.code[Top.at].op \notin {"return", "throw"} /\ h.locals[Code.code[Top.at].arg] # 0
      BY <1>1, <1>2, <1>6
    <2> QED BY <1>2, <1>5, <2>1, <2>2, NextOne
  <1>8. Pending(Code, h) /\ h.at - 1 = Top.at
    <2>1. h.at > 1 /\ h.at - 1 = Top.at BY <1>2, <1>5
    <2> QED BY <1>1, <1>5, <2>1 DEF Pending
  <1>9. Unsaved(Code, h) BY <1>1, <1>5, <1>8 DEF Unsaved
  <1>10. News(Code, h) = D BY <1>8 DEF News
  <1>11. \A d \in D : d.name \in Names /\ h.locals[d.index] = clock'
    <2> SUFFICES ASSUME NEW d \in D PROVE d.name \in Names /\ h.locals[d.index] = clock' OBVIOUS
    <2>1. d \in Code.scopes /\ d.index = a BY <1>1 DEF Stored, InScope
    <2>2. d \in [name : Names, index : Indices, from : Nat, to : Nat] BY <1>2, <2>1, CodeIs
    <2> QED BY <1>6, <2>1, <2>2
  <1> HIDE DEF D
  <1>12. Shown(assigned, Assigns(D, clock'), D, h.locals) BY <1>2, <1>4, <1>11, Assigned
  <1>13. Shown(watch', assigned', News(Code, h), h.locals) BY <1>1, <1>4, <1>10, <1>12
  <1>14. PlainFrames(program, stack) BY <1>1, RunsPlain DEF Keeps
  <1> QED BY <1>1, <1>4, <1>5, <1>7, <1>9, <1>13, <1>14, GoesOnPlain DEF Keeps

LEMMA JumpPlain == ASSUME Keeps, Jump PROVE WatchInv'
  <1> DEFINE a  == Arg
             h1 == [Top EXCEPT !.at = a, !.fell = FALSE, !.unsaved = {}]
             h2 == [Top EXCEPT !.at = @ + 1, !.unsaved = {}]
  <1>1. /\ stack # <<>> /\ Code.code[Top.at].op = "jump" /\ Code.code[Top.at].arg = a
        /\ stack' = Moved(h1) \/ stack' = Moved(h2)
        /\ modifiedVariablesByIndex' = Captured(Top.unsaved) /\ UNCHANGED <<watch, assigned>>
    BY DEF Jump, Now, Arg
  <1>2. /\ Top \in FrameType /\ Top.at + 1 \in Nat /\ Compiled(Code) /\ Sound(Code, Top) /\ Top.fell
    BY <1>1, Executing DEF Keeps, IsLabel
  <1>3. a \in 1 .. Len(Code.code) /\ a \in Nat /\ IsLabel(Code.code[a])
    <2>1. Top.at \in 1 .. Len(Code.code) BY <1>1, Executing DEF Keeps
    <2>2. a \in 1 .. Len(Code.code) /\ IsLabel(Code.code[a]) BY <1>1, <1>2, <2>1, CodeIs
    <2> QED BY <1>2, <2>2, CodeIs
  <1>4. modifiedVariablesByIndex' = None
    <2>1. Top.unsaved = {} /\ modifiedVariablesByIndex = None BY <1>1, RunsOn DEF Keeps
    <2>2. Captured({}) = None BY <2>1 DEF Captured, None
    <2> QED BY <1>1, <2>1, <2>2
  <1> HIDE DEF a
  <1>5. CASE stack' = Moved(h1)
    <2>1. h1 \in FrameType /\ h1.at = a /\ h1.of = Top.of /\ ~ h1.fell /\ h1.unsaved = {} BY <1>2, <1>3 DEF FrameType
    <2> HIDE DEF h1, h2
    <2>2. Sound(Code, h1) BY <1>3, <2>1, Arrives
    <2> QED BY <1>1, <1>4, <1>5, <2>1, <2>2, QuietPlain
  <1>6. CASE stack' = Moved(h2)
    <2>1. h2 \in FrameType /\ h2.at = Top.at + 1 /\ h2.of = Top.of /\ h2.fell /\ h2.unsaved = {} BY <1>2 DEF FrameType
    <2> HIDE DEF h1, h2
    <2>2. Sound(Code, h2) BY <1>1, <1>2, <2>1, NextOne
    <2> QED BY <1>1, <1>4, <1>6, <2>1, <2>2, QuietPlain
  <1> QED BY <1>1, <1>5, <1>6

LEMMA SwitchPlain == ASSUME Keeps, Switch PROVE WatchInv'
  <1> DEFINE a == Arg
             h == [Top EXCEPT !.at = a, !.fell = FALSE, !.unsaved = {}, !.sure = {}]
  <1>1. /\ stack # <<>> /\ Code.code[Top.at].op = "switch" /\ Code.code[Top.at].arg = a /\ stack' = Moved(h)
        /\ modifiedVariablesByIndex' = modifiedVariablesByIndex /\ UNCHANGED <<watch, assigned>>
    BY DEF Switch, Now, Arg
  <1>2. Top \in FrameType /\ Compiled(Code) BY <1>1, Executing DEF Keeps
  <1>3. a \in 1 .. Len(Code.code) /\ a \in Nat /\ IsLabel(Code.code[a])
    <2>1. Top.at \in 1 .. Len(Code.code) BY <1>1, Executing DEF Keeps
    <2>2. a \in 1 .. Len(Code.code) /\ IsLabel(Code.code[a]) BY <1>1, <1>2, <2>1, CodeIs
    <2> QED BY <1>2, <2>2, CodeIs
  <1>4. modifiedVariablesByIndex = None BY <1>1, RunsOn DEF Keeps
  <1> HIDE DEF a
  <1>5. h \in FrameType /\ h.at = a /\ h.of = Top.of /\ ~ h.fell /\ h.unsaved = {} BY <1>2, <1>3 DEF FrameType
  <1> HIDE DEF h
  <1>6. Sound(Code, h) BY <1>3, <1>5, Arrives
  <1> QED BY <1>1, <1>4, <1>5, <1>6, QuietPlain

(* What a call assigns is what the frame begins with.                      *)
LEMMA CallPasses ==
  ASSUME NEW p, NEW c, Compiled(p[c]), p[c].scopes = scopes[c], NEW v
  PROVE  Frame(c, v).unsaved = {} /\ \A d \in Passed(p[c]) : d.name \in Names /\ Frame(c, v).locals[d.index] = v
  <1> DEFINE h == Frame(c, v)
  <1>1. /\ h.unsaved = {}
        /\ h.locals = [i \in Indices |-> IF \E d \in Parameters(scopes[c]) : d.index = i THEN v ELSE 0]
    BY DEF Frame
  <1> HIDE DEF h
  <1>2. ASSUME NEW d \in Passed(p[c]) PROVE d.name \in Names /\ h.locals[d.index] = v
    <2>1. d \in Parameters(p[c].scopes) /\ d \in p[c].scopes BY DEF Passed, Parameters
    <2>2. d \in [name : Names, index : Indices, from : Nat, to : Nat] BY <2>1, CodeIs
    <2> QED BY <1>1, <2>1, <2>2
  <1>3. h.unsaved = {} /\ \A d \in Passed(p[c]) : d.name \in Names /\ h.locals[d.index] = v BY <1>1, <1>2
  <1> QED BY <1>3 DEF h

LEMMA CallPlain == ASSUME Keeps, Call PROVE WatchInv'
  <1> DEFINE a == Arg
             h == [Top EXCEPT !.at = @ + 1, !.sure = {}]
             t == Moved(h)
             b == Frame(a, clock')
             D == Passed(program[a])
  <1>1. /\ stack # <<>> /\ Code.code[Top.at].op = "call" /\ Code.code[Top.at].arg = a /\ stack' = Append(t, b)
        /\ modifiedVariablesByIndex' = modifiedVariablesByIndex /\ clock' = clock + 1
        /\ assigned' = Assigns(D, clock') /\ watch' = watch
    BY DEF Call, Now, Arg
  <1>2. /\ Top \in FrameType /\ Top.at + 1 \in Nat /\ Compiled(Code) /\ Sound(Code, Top) /\ Top.fell
        /\ clock' \in Nat /\ clock' # 0 /\ Top.at \in Nat /\ Top.at >= 1 /\ Top.at \in 1 .. Len(Code.code)
    <2>1. Top.at \in 1 .. Len(Code.code) /\ Len(Code.code) \in Nat BY <1>1, Executing, CodeIs DEF Keeps
    <2> QED BY <1>1, <2>1, Executing DEF Keeps, IsLabel
  <1>3. a \in Classes BY <1>1, <1>2, CodeIs
  <1>4. /\ Top.unsaved = {} /\ modifiedVariablesByIndex = None
        /\ watch = assigned /\ assigned \in [Names -> Nat]
    BY <1>1, RunsOn DEF Keeps
  <1> HIDE DEF a
  <1>5. h \in FrameType /\ h.at = Top.at + 1 /\ h.of = Top.of /\ h.fell /\ h.unsaved = {} /\ h.sure = {}
    BY <1>2, <1>4 DEF FrameType
  <1> HIDE DEF h
  <1>6. Sound(Code, h) BY <1>1, <1>2, <1>5, NextOne
  <1>7. ~ Pending(Code, h) /\ News(Code, h) = {} BY <1>1, <1>2, <1>5, NoNewsAfter
  <1>8. Frames(program, t) /\ t # <<>> /\ t[Len(t)] = h /\ PlainFrames(program, t)
    <2>1. Frames(program, stack) /\ PlainFrames(program, stack) BY <1>1, RunsPlain DEF Keeps
    <2>2. Sound(program[h.of], h) /\ Unsaved(program[h.of], h) BY <1>5, <1>6, <1>7 DEF Code, Unsaved
    <2> DEFINE u == [stack EXCEPT ![Len(stack)] = h]
    <2>3. Frames(program, u) /\ u # <<>> /\ Len(u) = Len(stack) /\ u[Len(u)] = h BY <1>1, <1>5, <2>1, <2>2, FrameMoves
    <2>4. PlainFrames(program, u) BY <1>1, <1>5, <2>1, <2>2, PlainMoves
    <2> QED BY <2>3, <2>4 DEF Moved
  <1> HIDE DEF t
  <1>9. Compiled(program[a]) /\ program[a].scopes = scopes[a]
    BY <1>1, <1>3, ProgramsAssumption DEF Keeps, RunInv, LoadedInv
  <1>10. b \in FrameType /\ Sound(program[a], b) /\ Began(b) /\ b.of = a
    BY <1>2, <1>3, <1>9, Begins
  <1>11. b.unsaved = {} /\ \A d \in D : d.name \in Names /\ b.locals[d.index] = clock'
    BY <1>9, CallPasses
  <1> HIDE DEF b, D
  <1>12. ~ Pending(program[a], b) BY <1>10 DEF Began, Pending
  <1>13. News(program[a], b) = D /\ Unsaved(program[a], b) BY <1>10, <1>11, <1>12 DEF News, Unsaved, D
  <1>14. PlainFrames(program, stack') /\ stack' # <<>> /\ stack'[Len(stack')] = b
    <2> DEFINE u == Append(t, b)
    <2>1. t[Len(t)].sure = {} /\ News(program[t[Len(t)].of], t[Len(t)]) = {}
      <3>1. program[h.of] = Code BY <1>5 DEF Code
      <3> QED BY <1>5, <1>7, <1>8, <3>1
    <2>2. Sound(program[b.of], b) /\ Unsaved(program[b.of], b) BY <1>10, <1>13
    <2>3. Frames(program, u) /\ u # <<>> /\ u[Len(u)] = b BY <1>8, <1>10, <2>1, <2>2, FramePushed
    <2>4. PlainFrames(program, u) BY <1>8, <1>10, <2>1, <2>2, PlainPushed
    <2> QED BY <1>1, <2>3, <2>4
  <1>15. Shown(assigned, Assigns(D, clock'), D, b.locals) BY <1>2, <1>4, <1>11, Assigned
  <1>16. Top' = b /\ Code' = program[a] BY <1>10, <1>14 DEF Top, Code, Keeps
  <1>17. Shown(watch, assigned, News(Code, Top), Top.locals)' BY <1>1, <1>4, <1>13, <1>15, <1>16
  <1>18. PlainFrames(program, stack)' BY <1>14 DEF Keeps
  <1> QED BY <1>1, <1>4, <1>14, <1>17, <1>18 DEF WatchInv

LEMMA ReturnPlain == ASSUME Keeps, Return PROVE WatchInv'
  <1> DEFINE n == Len(stack) - 1
             t == SubSeq(stack, 1, n)
  <1>1. /\ stack # <<>> /\ Code.code[Top.at].op = "return" /\ stack' = t
        /\ modifiedVariablesByIndex' = None /\ UNCHANGED <<watch, assigned>>
    BY DEF Return, Now
  <1>2. watch = assigned /\ assigned \in [Names -> Nat] BY <1>1, RunsOn DEF Keeps
  <1>3. Frames(program, stack) /\ PlainFrames(program, stack) /\ Len(stack) \in Nat /\ Len(stack) >= 1
    BY <1>1, FrameOnTop, RunsPlain DEF Keeps
  <1>4. n \in 0 .. Len(stack) /\ n \in Nat BY <1>3
  <1> HIDE DEF n
  <1>5. Frames(program, t) /\ Len(t) = n /\ \A k \in 1 .. n : t[k] = stack[k] BY <1>3, <1>4, FramesCut
  <1>6. PlainFrames(program, t) BY <1>3, <1>4, PlainCut
  <1> HIDE DEF t
  <1>7. ASSUME t # <<>> PROVE News(program[t[Len(t)].of], t[Len(t)]) = {}
    <2>1. n >= 1
      <3>1. t \in Seq(FrameType) BY <1>5 DEF Frames
      <3> QED BY <1>4, <1>5, <1>7, <3>1, EmptySeq
    <2>2. n \in 1 .. Len(stack) - 1 BY <1>4, <2>1 DEF n
    <2>3. News(program[stack[n].of], stack[n]) = {} BY <1>3, <2>2 DEF PlainFrames
    <2>4. t[n] = stack[n] BY <1>4, <1>5, <2>1
    <2> QED BY <1>5, <2>3, <2>4
  <1> QED BY <1>1, <1>2, <1>6, <1>7, EndsPlain DEF Keeps

LEMMA UnwoundPlain ==
  ASSUME Keeps, stack # <<>>, Code.code[Top.at].op # "line", stack' = Unwound,
         modifiedVariablesByIndex' = None, UNCHANGED <<watch, assigned>>
  PROVE  WatchInv'
  <1>1. watch = assigned /\ assigned \in [Names -> Nat] BY RunsOn DEF Keeps
  <1>2. PlainFrames(program, stack) BY RunsPlain DEF Keeps
  <1>3. PlainFrames(program, stack') /\ (stack' # <<>> => ~ stack'[Len(stack')].fell) BY <1>2, UnwoundIs DEF Keeps
  <1>4. stack' # <<>> => News(program[stack'[Len(stack')].of], stack'[Len(stack')]) = {} BY <1>3, NoNewsThere
  <1> QED BY <1>1, <1>3, <1>4, EndsPlain DEF Keeps

LEMMA ThrowPlain == ASSUME Keeps, Throw PROVE WatchInv'
  <1>1. /\ stack # <<>> /\ Code.code[Top.at].op = "throw" /\ stack' = Unwound
        /\ modifiedVariablesByIndex' = None /\ UNCHANGED <<watch, assigned>>
    BY DEF Throw, Now
  <1> QED BY <1>1, UnwoundPlain

LEMMA RaisePlain == ASSUME Keeps, Raise PROVE WatchInv'
  <1> DEFINE h == [Top EXCEPT !.at = @ + 1]
  <1>1. /\ stack # <<>> /\ Code.code[Top.at].op = "raise"
        /\ stack' = Moved(h) \/ stack' = Unwound
        /\ modifiedVariablesByIndex' = modifiedVariablesByIndex /\ UNCHANGED <<watch, assigned>>
    BY DEF Raise, Now
  <1>2. Top.unsaved = {} /\ modifiedVariablesByIndex = None BY <1>1, RunsOn DEF Keeps
  <1>3. CASE stack' = Moved(h)
    <2>1. /\ Top \in FrameType /\ Top.at + 1 \in Nat /\ Compiled(Code) /\ Sound(Code, Top) /\ Top.fell
      BY <1>1, Executing DEF Keeps, IsLabel
    <2>2. h \in FrameType /\ h.at = Top.at + 1 /\ h.of = Top.of /\ h.fell /\ h.unsaved = {}
      BY <1>2, <2>1 DEF FrameType
    <2> HIDE DEF h
    <2>3. Sound(Code, h) BY <1>1, <2>1, <2>2, NextOne
    <2> QED BY <1>1, <1>2, <1>3, <2>2, <2>3, QuietPlain
  <1>4. CASE stack' = Unwound BY <1>1, <1>2, <1>4, UnwoundPlain
  <1> QED BY <1>1, <1>3, <1>4

LEMMA StartPlain == ASSUME RunInv, WatchInv, Start PROVE WatchInv'
  <1> DEFINE b == Frame(Main, 1)
             D == Passed(program'[Main])
  <1>1. /\ program = <<>> /\ modifiedVariablesByIndex' = modifiedVariablesByIndex /\ stack' = <<b>>
        /\ program' \in Programs /\ watch' = watch /\ assigned' = Assigns(D, 1)
        /\ \A c \in Classes : program'[c].scopes = scopes[c]
    BY DEF Start
  <1>2. stack = <<>> /\ modifiedVariablesByIndex = None BY <1>1 DEF RunInv, LoadedInv
  <1>3. Shown(watch, assigned, {}, None)
    <2>1. Plain
      <3>1. DOMAIN <<>> = {} OBVIOUS
      <3> QED BY <1>1, <3>1 DEF Plain
    <2> QED BY <1>2, <2>1 DEF WatchInv
  <1>4. watch = assigned /\ assigned \in [Names -> Nat] BY <1>3, AllShown
  <1>5. Main \in Classes /\ Compiled(program'[Main]) /\ program'[Main].scopes = scopes[Main]
    BY <1>1, MainAssumption, ProgramsAssumption
  <1>6. b \in FrameType /\ Began(b) /\ b.of = Main BY <1>5, Begins
  <1>7. b.unsaved = {} /\ \A d \in D : d.name \in Names /\ b.locals[d.index] = 1 BY <1>5, CallPasses
  <1>8. Shown(assigned, Assigns(D, 1), D, b.locals) BY <1>4, <1>7, Assigned
  <1> HIDE DEF b
  <1>9. ~ Pending(program'[Main], b) BY <1>6 DEF Began, Pending
  <1>10. News(program'[Main], b) = D /\ Unsaved(program'[Main], b) BY <1>6, <1>7, <1>9 DEF News, Unsaved
  <1>11. Len(stack') = 1 /\ stack'[1] = b /\ stack' # <<>> BY <1>1
  <1>12. Top' = b /\ Code' = program'[Main] BY <1>6, <1>11 DEF Top, Code
  <1>13. PlainFrames(program', stack')
    <2>1. \A k \in 1 .. Len(stack') : k = 1 BY <1>11
    <2>2. \A k \in 1 .. Len(stack') : Unsaved(program'[stack'[k].of], stack'[k]) BY <1>6, <1>10, <1>11, <2>1
    <2>3. \A k \in 1 .. Len(stack') - 1 : News(program'[stack'[k].of], stack'[k]) = {} BY <1>11
    <2> QED BY <2>2, <2>3 DEF PlainFrames
  <1> HIDE DEF D
  <1>14. Shown(watch', assigned', News(Code', Top'), Top'.locals) BY <1>1, <1>4, <1>8, <1>10, <1>12
  <1> QED BY <1>1, <1>2, <1>11, <1>13, <1>14 DEF WatchInv

LEMMA WatchBegins == Init => WatchInv
  <1> SUFFICES ASSUME Init PROVE WatchInv OBVIOUS
  <1>1. stack = <<>> /\ Len(stack) = 0 /\ modifiedVariablesByIndex = None
        /\ watch = [n \in Names |-> 0] /\ assigned = watch
    BY DEF Init
  <1>2. watch \in [Names -> Nat] BY <1>1
  <1>3. Shown(watch, assigned, {}, None) BY <1>1, <1>2, ShownAgain
  <1>4. PlainFrames(program, stack) BY <1>1 DEF PlainFrames
  <1> QED BY <1>1, <1>3, <1>4 DEF WatchInv

LEMMA WatchSame == ASSUME WatchInv, UNCHANGED running PROVE WatchInv'
  <1>1. UNCHANGED <<program, stack, modifiedVariablesByIndex, watch, assigned>> BY DEF running
  <1>2. UNCHANGED <<Top, Code, Plain>> BY <1>1 DEF Top, Code, Plain
  <1> QED BY <1>1, <1>2 DEF WatchInv

LEMMA WatchStays == IInv /\ RunInv /\ WatchInv /\ [Next]_vars => WatchInv'
  <1> SUFFICES ASSUME IInv, RunInv, WatchInv, [Next]_vars PROVE WatchInv' OBVIOUS
  <1>1. CASE UNCHANGED running BY <1>1, WatchSame
  <1>2. CASE Start BY <1>2, StartPlain
  <1>3. CASE Run /\ UNCHANGED <<program, loading>>
    <2>1. CASE Plain
      <3>1. Keeps BY <1>3, <2>1 DEF Keeps
      <3> QED BY <1>3, <3>1, LinePlain, LabelPlain, StorePlain, JumpPlain, SwitchPlain, CallPlain, ReturnPlain,
                 ThrowPlain, RaisePlain DEF Run
    <2>2. CASE ~ Plain
      <3>1. Plain' <=> Plain BY <1>3 DEF Plain
      <3> QED BY <2>2, <3>1 DEF WatchInv
    <2> QED BY <2>1, <2>2
  <1> QED BY <1>1, <1>2, <1>3 DEF Next, vars

(* In programs that take a line for each assignment, each line leaves the  *)
(* watches as the variables are, in whatever method they were assigned.    *)
WatchesFollow == Plain /\ Line => watch' = assigned

THEOREM WatchesShowWhatIs == Spec => WatchesAreCurrent
  <1>1. Init => WatchInv BY WatchBegins
  <1>2. IInv /\ RunInv /\ WatchInv /\ [Next]_vars => WatchInv' BY WatchStays
  <1>3. IInv /\ RunInv /\ WatchInv /\ [Next]_vars => [WatchesFollow]_vars BY LineShows DEF WatchesFollow
  <1>4. [][WatchesFollow]_vars => WatchesAreCurrent
    <2>1. [WatchesFollow]_vars => [Plain /\ Line => watch' = assigned]_vars BY DEF WatchesFollow
    <2> QED BY <2>1, PTL DEF WatchesAreCurrent
  <1> QED BY <1>1, <1>2, <1>3, <1>4, RunInvariance, PTL DEF Spec
=============================================================================
