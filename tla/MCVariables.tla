---------------------------- MODULE MCVariables -----------------------------
\* Programs for Variables: a method f, with variables x and y, that may call g, which
\* has a parameter, or is a constructor, and a variable of its own that is called x too.
EXTENDS Variables

CONSTANTS f, g

I(op, arg) == [op |-> op, arg |-> arg]
line   == I("line", 0)
label  == I("label", 0)
return == I("return", 0)

Places(code, ops) == {k \in DOMAIN code : code[k].op \in ops}
Labels(code)      == Places(code, {"line", "label"})
Before(code, k)   == Cardinality({j \in Labels(code) : j < k})
Stores(code, i)   == {k \in DOMAIN code : code[k] = I("store", i)}
First(S)          == CHOOSE k \in S : \A j \in S : k <= j

\* The scope of the variable at index i, up to the label numbered to.
Scope(code, name, i, to) ==
  IF Stores(code, i) = {} THEN {}
  ELSE {[name |-> name, index |-> i, from |-> Before(code, First(Stores(code, i)) + 1), to |-> to]}

MethodWith(code, definitions, constructor, handler) ==
  [code |-> code, scopes |-> definitions, constructor |-> constructor, handler |-> handler]

\* Bodies of f, between its first and its last line, longer and longer. No two labels are
\* at one place, and there is at most one jump.
Alphabet == {line, label, I("store", 0), I("store", 1), I("call", g), I("raise", 0)}
              \cup {I("jump", k) : k \in 1 .. 6} \cup {I("switch", 6)}
Sensible(b) ==
  /\ Cardinality(Places(b, {"jump", "switch"})) <= 1
  /\ Cardinality(Places(b, {"call", "raise"})) <= 2
  /\ Cardinality(Labels(b)) <= 2 /\ 1 \notin Labels(b)
  /\ \A k \in Labels(b) : k + 1 \notin Labels(b)
Longer(B) == {b \in {Append(b, i) : b \in B, i \in Alphabet} : Sensible(b)}
One   == Longer({<<>>})
Two   == Longer(One)
Three == Longer(Two)
Four  == Longer(Three)
Bodies == {b \in Two \cup Three \cup Four : Places(b, {"store"}) # {} /\ Len(b) \notin Labels(b)}

Mains ==
  LET end(code) == Cardinality(Labels(code))
      methods(code) ==
        {MethodWith(code, Scope(code, "x", 0, end(code)) \cup Scope(code, "y", 1, to), FALSE, handler) :
           to \in {end(code) - 1, end(code)},
           handler \in {0} \cup (IF Places(code, {"call", "raise"}) = {} THEN {} ELSE {Len(code) - 1})}
  IN  UNION {{m \in methods(<<line>> \o b \o <<line, return>>) :
                (\A d \in m.scopes : d.from < d.to) /\ Compiled(m)} : b \in Bodies}

\* for (x = ...; g(); x = ...) on one line and a body on the next.
ForLoop == MethodWith(
  <<line, I("store", 0), label, I("call", g), I("jump", 9), line, I("store", 0), I("jump", 3), line, return>>,
  {[name |-> "x", index |-> 0, from |-> 1, to |-> 3]}, FALSE, 0)

Parameter(name, n) == {[name |-> name, index |-> 0, from |-> 0, to |-> n]}
Local(from, n)     == {[name |-> "x", index |-> 1, from |-> from, to |-> n]}
store == I("store", 1)
Callees == {
  MethodWith(<<line, return>>, Parameter("p", 1), FALSE, 0),
  MethodWith(<<line, return>>, Parameter("this", 1), TRUE, 0),
  MethodWith(<<line, store, line, store, I("jump", 6), label, return>>, Parameter("p", 3) \cup Local(1, 3), FALSE, 0),
  MethodWith(<<line, store, label, I("raise", 0), line, return>>, Parameter("p", 3) \cup Local(1, 3), FALSE, 0),
  MethodWith(<<line, store, label, I("throw", 0)>>, Parameter("p", 2) \cup Local(1, 2), FALSE, 0) }

AllPrograms ==
  {[c \in {f, g} |-> IF c = f THEN m ELSE n] : m \in {ForLoop} \cup {m \in Mains : Places(m.code, {"call"}) # {}}, n \in Callees}
    \cup {[c \in {f, g} |-> m] : m \in {m \in Mains : Places(m.code, {"call"}) = {}}}
=============================================================================
