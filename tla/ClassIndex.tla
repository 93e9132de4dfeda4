----------------------------- MODULE ClassIndex -----------------------------
(***************************************************************************)
(* How classes get their numbers. Whatever thread loads a class calls      *)
(* transform of CaptureFlowAndStateClassTransformer, without a lock: it    *)
(* declares the local variables of the class under classIndex, compiles    *)
(* classIndex into its code, adds the names of the class and of its        *)
(* methods to the files of the session, where the position of an entry     *)
(* stands for the number, and counts up.                                   *)
(* Classes have one method here, numbered 0.                               *)
(***************************************************************************)
EXTENDS Naturals, Sequences, FiniteSets

CONSTANTS
  Classes,
  Programs   \* a program gives each class the code and the scopes of its method

VARIABLES
  scopes,          \* the definitions of the local variables of each class
  classIndex,
  rangedVariables, \* what is declared: entries of method, label and definition
  stage,           \* how far the transformation of each class has come
  compiled,        \* the number in the code of each class
  known,           \* what was declared under that number when it was compiled
  seen,            \* classIndex as a thread that is about to count up has read it
  classNames,      \* the session's files of names
  methodNames,
  disorder         \* history: what has gone wrong so far

loading == <<scopes, classIndex, rangedVariables, stage, compiled, known, seen, classNames, methodNames, disorder>>

Disorders == {"overlap", "failure", "io"}

szudzikPairing(a, b) == IF a >= b THEN a * a + a + b ELSE a + b * b
Method(n) == szudzikPairing(n, 0)  \* uniqueMethodIdentifier

Under(n) == {e \in rangedVariables : e.method = Method(n)}
Busy == {c \in Classes : stage[c] \notin {"new", "done", "failed"}}

\* A variable has its definition at each label of its scope, the last included.
Entries(n, D) == UNION {{[method |-> Method(n), label |-> l, definition |-> d] : l \in d.from .. d.to} : d \in D}

\* TreeRangeMap.put for each of D: an entry gives way to one for the same place.
Track(n, D) ==
  {e \in rangedVariables : \A d \in D :
      ~(e.method = Method(n) /\ e.definition.index = d.index /\ e.label \in d.from .. d.to)}
    \cup Entries(n, D)

LoadingInit ==
  /\ scopes \in {[c \in Classes |-> p[c].scopes] : p \in Programs}
  /\ classIndex = 0
  /\ rangedVariables = {}
  /\ stage = [c \in Classes |-> "new"]
  /\ compiled = [c \in Classes |-> 0]
  /\ known = [c \in Classes |-> {}]
  /\ seen = [c \in Classes |-> 0]
  /\ classNames = <<>>
  /\ methodNames = <<>>
  /\ disorder = {}

-----------------------------------------------------------------------------
At(c, from, to) == stage[c] = from /\ stage' = [stage EXCEPT ![c] = to]

\* The class is read a first time for its declarations.
Declare(c) ==
  /\ At(c, "new", "declared")
  /\ rangedVariables' = Track(classIndex, scopes[c])
  /\ disorder' = disorder \cup (IF Busy # {} THEN {"overlap"} ELSE {})
  /\ UNCHANGED <<scopes, classIndex, compiled, known, seen, classNames, methodNames>>

\* ... and a second time, to be rewritten, for which classIndex is read again.
Compile(c) ==
  /\ At(c, "declared", "compiled")
  /\ compiled' = [compiled EXCEPT ![c] = classIndex]
  /\ known' = [known EXCEPT ![c] = Under(classIndex)]
  /\ UNCHANGED <<scopes, classIndex, rangedVariables, seen, classNames, methodNames, disorder>>

\* What if a class that could not be rewritten used up its number?
FailCounting(c) ==
  /\ \/ At(c, "declared", "failed") /\ classIndex' = classIndex + 1
     \/ At(c, "counting", "failed") /\ classIndex' = seen[c] + 1
  /\ disorder' = disorder \cup {"failure"} \cup (IF Busy \ {c} # {} THEN {"overlap"} ELSE {})
  /\ UNCHANGED <<scopes, rangedVariables, compiled, known, seen, classNames, methodNames>>

\* Either pass throws, and the number is not used up; or toByteArray does, after the
\* class has been named and counted. The class is loaded as it was.
Fail(c) ==
  /\ \/ /\ At(c, "new", "failed")
        /\ \E D \in SUBSET scopes[c] : rangedVariables' = Track(classIndex, D)
        /\ UNCHANGED classIndex
     \/ At(c, "declared", "failed") /\ UNCHANGED <<classIndex, rangedVariables>>
     \/ At(c, "counting", "failed") /\ classIndex' = seen[c] + 1 /\ UNCHANGED rangedVariables
  /\ disorder' = disorder \cup {"failure"} \cup (IF Busy \ {c} # {} THEN {"overlap"} ELSE {})
  /\ UNCHANGED <<scopes, compiled, known, seen, classNames, methodNames>>

\* A name that cannot be written is missing, which is printed and forgotten.
NameClass(c) ==
  /\ At(c, "compiled", "named")
  /\ \/ classNames' = Append(classNames, c) /\ UNCHANGED disorder
     \/ disorder' = disorder \cup {"io"} /\ UNCHANGED classNames
  /\ UNCHANGED <<scopes, classIndex, rangedVariables, compiled, known, seen, methodNames>>

NameMethods(c) ==
  /\ At(c, "named", "listed")
  /\ \/ methodNames' = Append(methodNames, c) /\ UNCHANGED disorder
     \/ disorder' = disorder \cup {"io"} /\ UNCHANGED methodNames
  /\ UNCHANGED <<scopes, classIndex, rangedVariables, compiled, known, seen, classNames>>

\* classIndex++, on a plain field.
ReadIndex(c) ==
  /\ At(c, "listed", "counting")
  /\ seen' = [seen EXCEPT ![c] = classIndex]
  /\ UNCHANGED <<scopes, classIndex, rangedVariables, compiled, known, classNames, methodNames, disorder>>

\* What if it was not counted up?
CountNothing(c) ==
  /\ At(c, "counting", "done")
  /\ UNCHANGED <<scopes, classIndex, rangedVariables, compiled, known, seen, classNames, methodNames, disorder>>

CountUp(c) ==
  /\ At(c, "counting", "done")
  /\ classIndex' = seen[c] + 1
  /\ UNCHANGED <<scopes, rangedVariables, compiled, known, seen, classNames, methodNames, disorder>>

Transform(c) ==
  \/ Declare(c) \/ Compile(c) \/ Fail(c)
  \/ NameClass(c) \/ NameMethods(c)
  \/ ReadIndex(c) \/ CountUp(c)

-----------------------------------------------------------------------------
\* Unless transformations overlap or a name could not be written, the web
\* application finds under the number in the code of a class the name of that
\* class and the names of its methods. A failed transformation does no harm here.
NamesAreClasses ==
  disorder \cap {"overlap", "io"} = {} =>
    \A c \in Classes : stage[c] = "done" =>
      /\ compiled[c] + 1 \in DOMAIN classNames  /\ classNames[compiled[c] + 1] = c
      /\ compiled[c] + 1 \in DOMAIN methodNames /\ methodNames[compiled[c] + 1] = c

\* Unless transformations overlap or fail, a class finds, when its code is compiled
\* and ever after, its own local variables declared under its number, and no other's.
OwnVariables ==
  disorder \cap {"overlap", "failure"} = {} =>
    \A c \in Classes : stage[c] = "done" =>
      /\ Under(compiled[c]) = Entries(compiled[c], scopes[c])
      /\ known[c] = Under(compiled[c])
=============================================================================
