----------------------------- MODULE Variables ------------------------------
(***************************************************************************)
(* How the values of local variables are recorded. A store is not recorded *)
(* at once: the code that tells the agent about it is put in front of the  *)
(* next label or jump (CaptureVariableAssignmentMethodVisitor). What the   *)
(* agent is told it keeps, by index, for the next line that is executed    *)
(* (VariableModificationTracker), which looks up what the indices mean in  *)
(* its own method. So the assignments of one method may meet the line of   *)
(* another. This is one thread, running instrumented code of two or more   *)
(* methods, after ClassIndex has loaded their classes.                     *)
(***************************************************************************)
EXTENDS ClassIndex

CONSTANTS
  Main,      \* the class whose method is run
  Indices,   \* of the local variables
  Names,     \* of the variables
  MaxClock   \* bound on assignments

\* Instructions, as far as they matter here. Code is read once from above to below
\* by the visitors; a label without a line number begins or ends the scope of a
\* variable or is jumped to.
Ops == {"line", "label", "store", "jump", "switch", "call", "raise", "return", "throw"}

IsLabel(i) == i.op \in {"line", "label"}
LabelsIn(m, k) == Cardinality({j \in 1 .. k : IsLabel(m.code[j])})
InScope(m, k) == {d \in m.scopes : d.from < LabelsIn(m, k) /\ LabelsIn(m, k) <= d.to}  \* at the k-th instruction
Parameters(D) == {d \in D : d.from = 0}
Covered(m, k) == m.handler # 0 /\ k < m.handler

\* What methods are made of; jumps and handlers lead to labels, scopes are not empty (javac
\* leaves those out), and nothing is assigned to "this".
WellFormed(m) ==
  /\ m.code \in Seq([op : Ops, arg : Nat \cup Classes])
  /\ m.scopes \subseteq [name : Names, index : Indices, from : Nat, to : Nat]
  /\ \A d \in m.scopes : d.from < d.to
  /\ m.handler \in {0} \cup {k \in DOMAIN m.code : IsLabel(m.code[k])}
  /\ \A k \in DOMAIN m.code :
       /\ m.code[k].op \in {"jump", "switch"} =>
            m.code[k].arg \in DOMAIN m.code /\ IsLabel(m.code[m.code[k].arg])
       /\ m.code[k].op = "call" => m.code[k].arg \in Classes
       /\ m.code[k].op = "store" =>
            m.code[k].arg \in Indices /\ ~(m.constructor /\ m.code[k].arg = 0)

\* What compilers see to: methods begin with a line and do not run out of their code,
\* nothing jumps into the scope of a variable, and one that is in scope has a value,
\* since its scope begins with the label after its first store.
Compiled(m) ==
  /\ WellFormed(m)
  /\ m.code # <<>> /\ m.code[1].op = "line"
  /\ m.code[Len(m.code)].op \in {"return", "throw"}
  /\ \A k \in DOMAIN m.code : m.code[k].op \in {"jump", "switch"} =>
       InScope(m, m.code[k].arg) \subseteq InScope(m, k)
  /\ \A k \in DOMAIN m.code : m.code[k].op \in {"call", "raise"} /\ Covered(m, k) =>
       InScope(m, m.handler) \subseteq InScope(m, k)
  /\ \A d \in m.scopes \ Parameters(m.scopes) : \E k \in DOMAIN m.code :
       /\ IsLabel(m.code[k]) /\ LabelsIn(m, k) = d.from + 1
       /\ m.code[k - 1] = [op |-> "store", arg |-> d.index]

ASSUME MainAssumption     == Main \in Classes
ASSUME ProgramsAssumption ==
  \A p \in Programs : DOMAIN p = Classes /\ \A c \in Classes : Compiled(p[c])

VARIABLES
  program,      \* that is run, known when it starts
  stack,        \* frames, the innermost last
  modifiedVariablesByIndex,
  written,      \* the variables the last step has recorded with its line
  watch,        \* what a watch of a name shows: the last value recorded under it
  assigned,     \* history: the last value assigned to a variable of that name
  clock,        \* the assignments so far; each assigns its number, 0 is no value
  unheard       \* history: since the last line an exception came that no ATHROW threw, or a
                \* switch passed over what would have told the agent of a store

running == <<program, stack, modifiedVariablesByIndex, written, watch, assigned, clock, unheard>>
vars == <<loading, running>>

Top == stack[Len(stack)]
Code == program[Top.of]
Now(op) == stack # <<>> /\ Code.code[Top.at].op = op
Arg == Code.code[Top.at].arg
Label == LabelsIn(Code, Top.at) - 1
Moved(f) == [stack EXCEPT ![Len(stack)] = f]

\* What if the last label of a scope were not part of it, or variables captured one label early?
LookupBefore(c, index, label) ==
  {e.definition : e \in {x \in Under(compiled[c]) : x.definition.index = index /\ x.label = label /\ label < x.definition.to}}
StartingAfter(c, label) == {e.definition.index : e \in {x \in known[c] : x.definition.from = label + 1}}

\* lookupVariableDefinition, and lookupVariableDefinitions of what starts at a label.
Lookup(c, index, label) == {e.definition : e \in {x \in Under(compiled[c]) : x.definition.index = index /\ x.label = label}}
StartingAt(c, label) == {e.definition.index : e \in {x \in known[c] : x.definition.from = label}}

\* captureState: the agent is told the values of what was stored since the last
\* label or jump, but for "this" in constructors.
Captured(S) ==
  LET told == {i \in S : ~(Code.constructor /\ i = 0)}
  IN  [i \in told \cup DOMAIN modifiedVariablesByIndex |->
         IF i \in told THEN Top.locals[i] ELSE modifiedVariablesByIndex[i]]

\* The code in front of a label does not run if the label is jumped to.
AtLabel == IF Top.fell THEN Captured(Top.unsaved \cup StartingAt(Top.of, Label)) ELSE modifiedVariablesByIndex

None == [i \in {} |-> 0]

Frame(c, v) ==
  [of |-> c, at |-> 1, fell |-> TRUE, unsaved |-> {}, sure |-> {},
   locals |-> [i \in Indices |-> IF \E d \in Parameters(scopes[c]) : d.index = i THEN v ELSE 0]]

\* What a call assigns, and a store at k: a scope begins after the first one.
Passed(m)    == {d \in Parameters(m.scopes) : ~(m.constructor /\ d.index = 0)}
Stored(m, k) == {d \in InScope(m, k) \cup InScope(m, k + 1) : d.index = m.code[k].arg}

Assigns(D, v) == [n \in Names |-> IF \E d \in D : d.name = n THEN v ELSE assigned[n]]

Init ==
  /\ LoadingInit
  /\ program = <<>>
  /\ stack = <<>>
  /\ modifiedVariablesByIndex = None
  /\ written = {}
  /\ watch = [n \in Names |-> 0]
  /\ assigned = [n \in Names |-> 0]
  /\ clock = 0
  /\ unheard = FALSE

-----------------------------------------------------------------------------
\* The thread begins when the classes have been loaded. Only if that was in order is
\* it followed: otherwise even the code may read variables of another class, and not verify.
Start ==
  /\ program = <<>>
  /\ disorder = {} /\ \A c \in Classes : stage[c] = "done"
  /\ program' \in {p \in Programs : \A c \in Classes : p[c].scopes = scopes[c]}
  /\ stack' = <<Frame(Main, 1)>>
  /\ clock' = 1
  /\ assigned' = Assigns(Passed(program'[Main]), 1)
  /\ UNCHANGED <<modifiedVariablesByIndex, written, watch, unheard>>

\* captureLineExecution: everything kept is taken, and recorded if its index means
\* something here.
Line ==
  /\ Now("line")
  /\ written' = {<<d.name, AtLabel[d.index]>> : d \in
       UNION {Lookup(Top.of, i, Label) : i \in DOMAIN AtLabel}}
  /\ modifiedVariablesByIndex' = None
  /\ watch' = [n \in Names |-> IF \E w \in written' : w[1] = n
                               THEN (CHOOSE w \in written' : w[1] = n)[2] ELSE watch[n]]
  /\ stack' = Moved([Top EXCEPT !.at = @ + 1, !.fell = TRUE, !.unsaved = {}, !.sure = {}])
  /\ unheard' = FALSE
  /\ UNCHANGED <<assigned, clock>>

LabelOnly ==
  /\ Now("label")
  /\ modifiedVariablesByIndex' = AtLabel
  /\ stack' = Moved([Top EXCEPT !.at = @ + 1, !.fell = TRUE, !.unsaved = {}])
  /\ written' = {}
  /\ UNCHANGED <<watch, assigned, clock, unheard>>

Store ==
  /\ Now("store") /\ clock < MaxClock
  /\ clock' = clock + 1
  /\ stack' = Moved([Top EXCEPT !.at = @ + 1, !.locals[Arg] = clock', !.unsaved = @ \cup {Arg}, !.sure = @ \cup {Arg}])
  /\ assigned' = Assigns(Stored(Code, Top.at), clock')
  /\ written' = {}
  /\ UNCHANGED <<modifiedVariablesByIndex, watch, unheard>>

\* What if nothing was put in front of jumps?
JumpUntold ==
  /\ Now("jump")
  /\ \/ stack' = Moved([Top EXCEPT !.at = Arg, !.fell = FALSE, !.unsaved = {}])
     \/ stack' = Moved([Top EXCEPT !.at = @ + 1])
  /\ written' = {}
  /\ UNCHANGED <<modifiedVariablesByIndex, watch, assigned, clock, unheard>>

\* A conditional jump: either way the agent has been told before.
Jump ==
  /\ Now("jump")
  /\ modifiedVariablesByIndex' = Captured(Top.unsaved)
  /\ \/ stack' = Moved([Top EXCEPT !.at = Arg, !.fell = FALSE, !.unsaved = {}])
     \/ stack' = Moved([Top EXCEPT !.at = @ + 1, !.unsaved = {}])
  /\ written' = {}
  /\ UNCHANGED <<watch, assigned, clock, unheard>>

\* tableswitch and lookupswitch: what was stored just before is told by code that
\* stands after the switch, in front of the first case, and never runs.
Switch ==
  /\ Now("switch")
  /\ stack' = Moved([Top EXCEPT !.at = Arg, !.fell = FALSE, !.unsaved = {}, !.sure = {}])
  /\ written' = {}
  /\ unheard' = (unheard \/ Top.unsaved # {})
  /\ UNCHANGED <<modifiedVariablesByIndex, watch, assigned, clock>>

Call ==
  /\ Now("call") /\ clock < MaxClock
  /\ clock' = clock + 1
  /\ stack' = Append(Moved([Top EXCEPT !.at = @ + 1, !.sure = {}]), Frame(Arg, clock'))
  /\ assigned' = Assigns(Passed(program[Arg]), clock')
  /\ written' = {}
  /\ UNCHANGED <<modifiedVariablesByIndex, watch, unheard>>

\* What if methods did not dump what they leave?
ReturnOnly ==
  /\ Now("return")
  /\ stack' = SubSeq(stack, 1, Len(stack) - 1)
  /\ written' = {}
  /\ UNCHANGED <<modifiedVariablesByIndex, watch, assigned, clock, unheard>>

\* Before RETURN and ATHROW comes dumpLeftoverVariableStateAtMethodExit.
Return ==
  /\ Now("return")
  /\ stack' = SubSeq(stack, 1, Len(stack) - 1)
  /\ modifiedVariablesByIndex' = None
  /\ written' = {}
  /\ UNCHANGED <<watch, assigned, clock, unheard>>

\* Frames go until one has a handler for where it is.
Unwound ==
  LET at(k)    == IF k = Len(stack) THEN stack[k].at ELSE stack[k].at - 1
      catch    == {k \in DOMAIN stack : Covered(program[stack[k].of], at(k))}
      catcher  == CHOOSE k \in catch : \A j \in catch : j <= k
  IN  IF catch = {} THEN <<>>
      ELSE [SubSeq(stack, 1, catcher) EXCEPT ![catcher] =
              [@ EXCEPT !.at = program[stack[catcher].of].handler, !.fell = FALSE, !.unsaved = {}, !.sure = {}]]

Throw ==
  /\ Now("throw")
  /\ stack' = Unwound
  /\ modifiedVariablesByIndex' = None
  /\ written' = {}
  /\ UNCHANGED <<watch, assigned, clock, unheard>>

\* An instruction, or a method that is not instrumented, throws an exception or not.
Raise ==
  /\ Now("raise")
  /\ \/ stack' = Moved([Top EXCEPT !.at = @ + 1]) /\ UNCHANGED unheard
     \/ stack' = Unwound /\ unheard' = TRUE
  /\ written' = {}
  /\ UNCHANGED <<modifiedVariablesByIndex, watch, assigned, clock>>

Run == Line \/ LabelOnly \/ Store \/ Jump \/ Switch \/ Call \/ Return \/ Throw \/ Raise

Next == \/ (\E c \in Classes : Transform(c)) /\ UNCHANGED running
        \/ Start /\ UNCHANGED loading
        \/ Run /\ UNCHANGED <<program, loading>>

Spec == Init /\ [][Next]_vars

-----------------------------------------------------------------------------
\* The code put in reads only variables that have a value: otherwise the class would
\* not verify, and the program not run.
ReadsHaveValues == \A i \in DOMAIN modifiedVariablesByIndex : modifiedVariablesByIndex[i] # 0

\* What is recorded with a line are values which variables of that method have at that
\* time, although what the agent is told of may have been told by another method:
\* except for "this" in constructors, of which it is never told, and at the first line
\* after it has not been told of an exception or of a store.
LinesAreTrue ==
  [][Line /\ ~unheard => \A w \in written' : \E d \in Code.scopes :
       /\ w = <<d.name, Top.locals[d.index]>> \/ (Code.constructor /\ d.index = 0 /\ w[1] = d.name)
       /\ d.from <= Label /\ Label <= d.to]_vars

\* An assignment is recorded with the next line of its method, unless it was in the
\* middle of a line that went on with a call, a switch or an exception.
LineHasAssignments ==
  [][Line => \A d \in Code.scopes :
       d.index \in Top.sure /\ d.from <= Label /\ Label <= d.to =>
         <<d.name, Top.locals[d.index]>> \in written']_vars

\* In programs in which each assignment ends a line, the watches show at each line what
\* was last assigned to a variable of the name, in whatever method.
Plain == \A c \in DOMAIN program : \A k \in DOMAIN program[c].code :
           program[c].code[k].op = "store" => program[c].code[k + 1].op = "line"
WatchesAreCurrent == [][Plain /\ Line => watch' = assigned]_vars
=============================================================================
