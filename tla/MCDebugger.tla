----------------------------- MODULE MCDebugger -----------------------------
\* Model-checking parameters of Debugger.
EXTENDS Debugger, TLC

CONSTANTS f, g, filtered, builtin, hidden

OwnMethods == {f, g}
Mixed      == OwnMethods \union {filtered, builtin, hidden}
OnHidden   == OwnMethods \union {hidden}

Kind(m) == CASE m \in OwnMethods -> "recorded" [] m = filtered -> "filtered"
             [] m = hidden -> "hidden"         [] m = builtin -> "builtin"

MixedKinds    == [m \in Mixed |-> Kind(m)]
OnHiddenKinds == [m \in OnHidden |-> Kind(m)]

Symmetry == Permutations(OwnMethods)
=============================================================================
