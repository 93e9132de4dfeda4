------------------------------ MODULE LineLog ------------------------------
(***************************************************************************)
(* What a recording thread is promised about one of its .dbg files: the    *)
(* lines it completes reach the file in the order it completed them, each  *)
(* of them whole, and the file is not closed before all of them are there. *)
(*                                                                         *)
(* A line is named by the offset, in the stream of bytes the thread        *)
(* writes, at which it ends.                                               *)
(***************************************************************************)
EXTENDS Integers

CONSTANT Offsets  \* the offsets at which a line may end

VARIABLES
  ends,     \* the subset of Offsets at which a line has been completed
  durable,  \* how much of the stream is in the file: 0 or a member of ends
  closed    \* the file has been closed

vars == <<ends, durable, closed>>

Init ==
  /\ ends = {}
  /\ durable = 0
  /\ closed = FALSE

\* The thread completes a line that ends at e.
CompleteLine(e) ==
  /\ ~closed
  /\ \A d \in ends : d < e
  /\ ends' = ends \union {e}
  /\ UNCHANGED <<durable, closed>>

\* Some more whole lines become durable, at once.
Persist(e) ==
  /\ ~closed
  /\ durable < e
  /\ durable' = e
  /\ UNCHANGED <<ends, closed>>

\* The file is closed, and no completed line is missing from it.
Close ==
  /\ ~closed
  /\ \A e \in ends : e <= durable
  /\ closed' = TRUE
  /\ UNCHANGED <<ends, durable>>

Next ==
  \/ \E e \in Offsets : CompleteLine(e)
  \/ \E e \in ends : Persist(e)
  \/ Close

Spec == Init /\ [][Next]_vars
=============================================================================
