----------------------------- MODULE Settlement -----------------------------
(***************************************************************************)
(* What a promise promises: it is settled at most once and for ever, and   *)
(* then, and only then, what has been registered on it runs, once each, in *)
(* the order of registration.                                              *)
(***************************************************************************)
EXTENDS Naturals, Sequences

CONSTANTS Ids,       \* promises
          Values     \* what they can be settled with

VARIABLES outcome,     \* how each promise is settled, Pending before that
          registered,  \* the reactions registered on each, in order
          ran          \* those that have run, in order

vars == <<outcome, registered, ran>>

Pending == [state |-> "pending", value |-> {}]
Settled == [state : {"fulfilled", "rejected"}, value : {{v} : v \in Values}]

Init == /\ outcome = [p \in Ids |-> Pending]
        /\ registered = [p \in Ids |-> <<>>]
        /\ ran = [p \in Ids |-> <<>>]

Settle(p) == /\ outcome[p] = Pending
             /\ \E o \in Settled : outcome' = [outcome EXCEPT ![p] = o]
             /\ UNCHANGED <<registered, ran>>

Register(p) == /\ \E r \in Ids : registered' = [registered EXCEPT ![p] = Append(@, r)]
               /\ UNCHANGED <<outcome, ran>>

Run(p) == /\ outcome[p] # Pending
          /\ Len(ran[p]) < Len(registered[p])
          /\ ran' = [ran EXCEPT ![p] = Append(@, registered[p][Len(@) + 1])]
          /\ UNCHANGED <<outcome, registered>>

Next == \E p \in Ids : Settle(p) \/ Register(p) \/ Run(p)

Spec == Init /\ [][Next]_vars
FairSpec == Spec /\ \A p \in Ids : WF_vars(Run(p))
=============================================================================
