----------------------------- MODULE Recording -----------------------------
(***************************************************************************)
(* What the agent promises about each thread of the program: a log of the  *)
(* lines the thread executes, each with the objects it has modified since  *)
(* the line before, as if line and snapshot were written in one step and   *)
(* nothing of the program ran in between.                                  *)
(***************************************************************************)
EXTENDS Sequences, Integers

CONSTANTS Threads, Objects

VARIABLES
  log,      \* for each thread, the sets of objects modified before its lines
  pending,  \* for each thread, what it has modified since its last line
  failed,   \* the threads that do not record any more
  spoilt    \* the threads of which nothing is promised any more

vars == <<log, pending, failed, spoilt>>

Init ==
  /\ log = [t \in Threads |-> <<>>]
  /\ pending = [t \in Threads |-> {}]
  /\ failed = {}
  /\ spoilt = {}

Modify(t, x) ==
  /\ t \notin failed
  /\ pending' = [pending EXCEPT ![t] = @ \union {x}]
  /\ UNCHANGED <<log, failed, spoilt>>

Line(t) ==
  /\ t \notin failed
  /\ log' = [log EXCEPT ![t] = Append(@, pending[t])]
  /\ pending' = [pending EXCEPT ![t] = {}]
  /\ UNCHANGED <<failed, spoilt>>

\* Recording fails, and the thread's last line may lose its objects. Nothing of
\* what had been recorded before is lost, by this thread or by others.
Fail(t) ==
  /\ failed' = failed \union {t}
  /\ \/ UNCHANGED log
     \/ log[t] # <<>> /\ log' = [log EXCEPT ![t][Len(log[t])] = {}]
  /\ UNCHANGED <<pending, spoilt>>

\* The promise ends for t, and for t alone.
Spoil(t) ==
  /\ spoilt' = spoilt \union {t}
  /\ failed \subseteq failed'
  /\ \A u \in Threads \ {t} :
       /\ log'[u] = log[u]
       /\ pending'[u] = pending[u]
       /\ u \in failed' => u \in failed

Next == \E t \in Threads :
  \/ \E x \in Objects : Modify(t, x)
  \/ Line(t) \/ Fail(t) \/ Spoil(t)

Spec == Init /\ [][Next]_vars
=============================================================================
