-------------------------- MODULE LineBuffer_proofs --------------------------
(***************************************************************************)
(* The inductive invariant of LineBuffer, and proofs that its properties   *)
(* hold for every capacity, every length of writes and every set of        *)
(* faults.                                                                 *)
(*                                                                         *)
(* Once the recording thread writes into a buffer that the shutdown hook   *)
(* has handed over, nothing is left to be said ("late"). Until then the    *)
(* buffers are filled, handed over and saved in the order in which they    *)
(* were allocated: the buffers 1 .. Taken have been taken by the writer,   *)
(* those up to Submitted are in the queue, and the stream continues from   *)
(* the end of each buffer at the beginning of the next.                    *)
(***************************************************************************)
EXTENDS LineBuffer, SequenceTheorems, TLAPS

Orderly == NoneOf({"late"})

\* A flush has cut the current buffer at its last line end.
Cut == \/ pc["app"] \in {"flip", "submit", "renew"}
       \/ pc["hook"] \notin {"waiting", "limit"}

Submitted == IF \/ pc["app"] = "renew"
                \/ pc["hook"] \in {"renew", "stop", "await", "close", "done"}
             THEN Len(heap) ELSE Len(heap) - 1

Taken == Submitted - Len(queue)

\* Where in the stream the whole lines of a cut buffer end.
End(b) == heap[b].origin + heap[b].lim

\* How much of the stream precedes the next byte to be saved.
Saved == IF Taken = 0 THEN 0
         ELSE IF saver.at = "taken" THEN heap[Taken].origin ELSE End(Taken)

\* The first n bytes of b are consecutive bytes of the stream.
Holds(b, n) == \A i \in 0 .. Capacity - 1 : i < n => heap[b].mem[i] = heap[b].origin + i + 1

\* Shutdown finds the recording thread between two lines, and it stays there.
QuietInv ==
  /\ jvm # "running" => ~Recording
  /\ pc["hook"] # "waiting" => jvm # "running"
  /\ pool = "shutdown" => jvm # "running"
  /\ pc["app"] = "ended" => ~Recording
  /\ disabled => pc["app"] \in {"ready", "ended"}

\* The buffer being filled.
FillingInv ==
  /\ buf = Len(heap)
  /\ ~Cut => /\ heap[buf].lim = Capacity
             /\ heap[buf].origin + heap[buf].pos = written
             /\ lle <= heap[buf].pos
             /\ heap[buf].origin + lle \in ends \union {0}
             /\ \A e \in ends : e <= heap[buf].origin + lle
             /\ Holds(buf, heap[buf].pos)
             /\ pc["app"] \in {"mark", "store"} => lle < heap[buf].pos
             /\ pc["app"] = "store" => req.end = heap[buf].pos
  /\ pc["app"] = "put" => req.len <= Remaining(buf) \/ lle = 0

\* The current buffer while it is being handed over, and after that.
HandOverInv ==
  /\ Cut => /\ End(buf) \in ends \union {0}
            /\ \A e \in ends : e <= End(buf)
            /\ Holds(buf, heap[buf].lim)
  /\ \A a \in Actors : pc[a] \in {"limit", "flip", "submit", "renew"} => flushing[a] = buf
  /\ \A a \in Actors : pc[a] = "flip" => heap[buf].pos = heap[buf].lim
  /\ pc["app"] \in {"flip", "submit", "renew"} =>
       /\ End(buf) + Len(carry["app"]) = written
       /\ \A i \in 1 .. Len(carry["app"]) : carry["app"][i] = End(buf) + i

\* The buffers handed over before the current one.
PastInv ==
  /\ heap[1].origin = 0
  /\ \A b \in 1 .. Len(heap) - 1 :
       /\ heap[b + 1].origin = End(b)
       /\ End(b) \in ends \union {0}
       /\ Holds(b, heap[b].lim)

\* The queue and the writer.
QueueInv ==
  /\ Taken \in Nat
  /\ \A k \in 1 .. Len(queue) : queue[k] = Taken + k
  /\ \A b \in Buffers : Taken < b /\ b <= Submitted => heap[b].pos = 0
  /\ pc["app"] = "submit" => heap[buf].pos = 0
  /\ pc["hook"] = "submit" => heap[buf].pos = 0
  /\ saver.at = "none" => Submitted = 0
  /\ saver.at \in {"taken", "written"} => saver.buf = Taken
  /\ saver.at = "taken" => saver.from = 0 /\ saver.to = heap[saver.buf].lim

FileInv ==
  /\ NoneOf({"io", "short"}) /\ (closed => NoneOf({"timeout"})) => Len(file) = Saved
  /\ pc["hook"] \in {"close", "done"} /\ NoneOf({"timeout"}) => Terminated
  /\ closed => pc["hook"] = "done"

Order ==
  /\ QuietInv /\ FillingInv /\ HandOverInv /\ PastInv /\ QueueInv /\ FileInv
  /\ InOrder /\ WholeLines /\ OnlyLongLinesDisable

IInv == TypeOK /\ (Orderly => Order)

-----------------------------------------------------------------------------
\* Type correctness.

\* What is typed by the buffers allocated so far stays so typed when more are.
LEMMA KeepFlushes ==
  ASSUME FlushesOK, UNCHANGED flushVars, Buffers \subseteq Buffers'
  PROVE  FlushesOK'
BY DEF FlushesOK, flushVars, Actors

\* The same for what the writer has.
LEMMA KeepSave ==
  ASSUME SaveOK, UNCHANGED saveVars, Buffers \subseteq Buffers'
  PROVE  SaveOK'
<1>1. queue' \in Seq(Buffers')
  BY DEF SaveOK, saveVars
<1> QED
  BY <1>1 DEF SaveOK, saveVars

\* The fields of an allocated buffer.
LEMMA BufferTyped ==
  ASSUME BuffersOK, NEW b \in Buffers
  PROVE  /\ heap[b] \in Buffer
         /\ heap[b].mem \in [0 .. Capacity - 1 -> Nat]
         /\ heap[b].pos \in 0 .. Capacity
         /\ heap[b].lim \in 0 .. Capacity
         /\ heap[b].origin \in Int
<1>1. heap[b] \in Buffer
  BY DEF BuffersOK, Buffers
<1> QED
  BY <1>1 DEF Buffer

\* What the operations on one buffer leave of it.
LEMMA BufferOperations ==
  ASSUME NEW b \in Buffer, NEW n \in 0 .. Capacity
  PROVE  /\ LimitedTo(b, n) \in Buffer
         /\ Flipped(b) \in Buffer
         /\ [b EXCEPT !.pos = n] \in Buffer
         /\ written \in Nat /\ n <= b.lim - b.pos => Filled(b, n) \in Buffer
<1> USE CapacityAssumption
<1>1. /\ b.mem \in [0 .. Capacity - 1 -> Nat]
      /\ b.pos \in 0 .. Capacity
      /\ b.lim \in 0 .. Capacity
      /\ b.origin \in Int
      /\ b = [mem |-> b.mem, pos |-> b.pos, lim |-> b.lim, origin |-> b.origin]
  BY DEF Buffer
<1>2. /\ LimitedTo(b, n) \in Buffer
      /\ Flipped(b) \in Buffer
      /\ [b EXCEPT !.pos = n] \in Buffer
  <2>1. \A l \in 0 .. Capacity, p \in 0 .. Capacity :
          [b EXCEPT !.lim = l, !.pos = p] \in Buffer /\ [b EXCEPT !.pos = p] \in Buffer
    BY DEF Buffer
  <2>2. /\ 0 \in 0 .. Capacity
        /\ b.pos \in 0 .. Capacity
        /\ (IF b.pos < n THEN b.pos ELSE n) \in 0 .. Capacity
    BY <1>1
  <2> QED
    BY <2>1, <2>2 DEF LimitedTo, Flipped
<1>3. ASSUME written \in Nat, n <= b.lim - b.pos PROVE Filled(b, n) \in Buffer
  <2> DEFINE m == [i \in 0 .. Capacity - 1 |->
                    IF i \in b.pos .. (b.pos + n - 1) THEN written + 1 + i - b.pos ELSE b.mem[i]]
  <2>1. m \in [0 .. Capacity - 1 -> Nat]
    BY SMTT(30), <1>1, <1>3
  <2>2. b.pos + n \in 0 .. Capacity
    BY <1>1, <1>3
  <2>3. Filled(b, n) = [b EXCEPT !.pos = b.pos + n, !.mem = m]
    BY DEF Filled
  <2> HIDE DEF m
  <2> QED
    BY <1>1, <2>1, <2>2, <2>3 DEF Buffer
<1> QED
  BY <1>2, <1>3

\* The bytes copied out of a buffer.
LEMMA CellsTyped ==
  ASSUME BuffersOK, NEW b \in Buffers, NEW from \in 0 .. Capacity, NEW to \in 0 .. Capacity
  PROVE  /\ Cells(b, from, to) \in Seq(Nat)
         /\ Len(Cells(b, from, to)) = IF from <= to THEN to - from ELSE 0
         /\ \A i \in 1 .. to - from : Cells(b, from, to)[i] = heap[b].mem[from + i - 1]
<1> USE CapacityAssumption
<1> DEFINE n == IF from <= to THEN to - from ELSE 0
<1>1. n \in Nat /\ 1 .. to - from = 1 .. n
  OBVIOUS
<1>2. \A i \in 1 .. n : heap[b].mem[from + i - 1] \in Nat
  BY BufferTyped
<1>3. Cells(b, from, to) \in [1 .. n -> Nat]
  BY <1>1, <1>2 DEF Cells
<1>4. Cells(b, from, to) \in Seq(Nat) /\ Len(Cells(b, from, to)) = n
  BY <1>1, <1>3
<1> QED
  BY <1>1, <1>4 DEF Cells

\* Replacing one buffer.
LEMMA UpdateBuffer ==
  ASSUME BuffersOK, NEW b \in Buffers, NEW r \in Buffer, heap' = [heap EXCEPT ![b] = r]
  PROVE  /\ heap' \in Seq(Buffer)
         /\ Len(heap') = Len(heap)
         /\ Buffers' = Buffers
         /\ heap'[b] = r
         /\ \A c \in Buffers : c # b => heap'[c] = heap[c]
BY ExceptSeq DEF BuffersOK, Buffers

\* A flush that begins.
LEMMA BeginFlushTyped ==
  ASSUME BuffersOK, FlushesOK, NEW a \in Actors, BeginFlush(a), UNCHANGED <<heap, carry>>
  PROVE  FlushesOK'
<1>1. UNCHANGED Buffers
  BY DEF Buffers
<1>2. buf \in Buffers
  BY DEF BuffersOK
<1> QED
  BY <1>1, <1>2 DEF FlushesOK, BeginFlush

\* Each step keeps the types, one case per action.
LEMMA TypeCorrectStep == TypeOK /\ [Next]_vars => TypeOK'
<1> USE CapacityAssumption, MaxWriteAssumption, FaultsAssumption
<1> SUFFICES ASSUME BuffersOK, ThreadsOK, FlushesOK, SaveOK, ProgramOK, [Next]_vars PROVE TypeOK'
  BY DEF TypeOK
<1>1. ASSUME NEW part \in Parts, NEW n \in 1 .. MaxWrite, Reserve(part, n) PROVE TypeOK'
  <2>1. BuffersOK' /\ Buffers \subseteq Buffers'
    BY <1>1 DEF Reserve, AppRuns, Meet, bufferVars, BuffersOK, Buffers
  <2>2. ThreadsOK'
    BY <1>1
       DEF Reserve, AppRuns, Meet, ThreadsOK, Parts, Goto, Actors, AppPlaces, HookPlaces,
           FlushPlaces
  <2>3. FlushesOK'
    BY <1>1, <2>1, KeepFlushes, BeginFlushTyped
       DEF Reserve, AppRuns, Meet, Actors, bufferVars, flushVars
  <2>4. SaveOK'
    BY <1>1, <2>1, KeepSave DEF Reserve, AppRuns, Meet
  <2>5. ProgramOK'
    BY <1>1 DEF Reserve, AppRuns, Meet, ProgramOK, history, jvmVars
  <2> QED
    BY <2>1, <2>2, <2>3, <2>4, <2>5 DEF TypeOK
<1>2. CASE Put
  <2>1. BuffersOK' /\ Buffers \subseteq Buffers'
    <3>1. buf \in Buffers /\ written \in Nat /\ req.len \in 1 .. MaxWrite
      BY DEF BuffersOK, ProgramOK, ThreadsOK
    <3>2. heap[buf] \in Buffer /\ req.len \in 0 .. Capacity /\ req.len <= heap[buf].lim - heap[buf].pos
      BY <1>2, <3>1, BufferTyped DEF Put, Remaining
    <3>3. Filled(heap[buf], req.len) \in Buffer
      BY <3>1, <3>2, BufferOperations
    <3> QED
      BY <1>2, <3>1, <3>3, UpdateBuffer DEF Put, BuffersOK
  <2>2. ThreadsOK'
    BY <1>2
       DEF Put, AppRuns, Meet, Remaining, ThreadsOK, Parts, Goto, Actors, AppPlaces, HookPlaces,
           FlushPlaces
  <2>3. FlushesOK'
    BY <1>2, <2>1, KeepFlushes DEF Put, AppRuns, Meet, Remaining
  <2>4. SaveOK'
    BY <1>2, <2>1, KeepSave DEF Put, AppRuns, Meet, Remaining
  <2>5. ProgramOK'
    BY <1>2 DEF Put, AppRuns, Meet, ThreadsOK, ProgramOK, jvmVars
  <2> QED
    BY <2>1, <2>2, <2>3, <2>4, <2>5 DEF TypeOK
<1>21. CASE ReadPosition
  <2>1. BuffersOK' /\ Buffers \subseteq Buffers'
    BY <1>21 DEF ReadPosition, bufferVars, BuffersOK, Buffers
  <2>2. ThreadsOK'
    <3>1. heap[buf].pos \in 0 .. Capacity
      BY BufferTyped DEF BuffersOK
    <3> QED
      BY <1>21, <3>1
         DEF ReadPosition, AppRuns, Meet, ThreadsOK, Parts, Goto, Actors, AppPlaces, HookPlaces,
             FlushPlaces
  <2>3. FlushesOK'
    BY <1>21, <2>1, KeepFlushes DEF ReadPosition, AppRuns, Meet
  <2>4. SaveOK'
    BY <1>21, <2>1, KeepSave DEF ReadPosition, AppRuns, Meet
  <2>5. ProgramOK'
    BY <1>21 DEF ReadPosition, AppRuns, Meet, ProgramOK, history, jvmVars
  <2> QED
    BY <2>1, <2>2, <2>3, <2>4, <2>5 DEF TypeOK
<1>3. CASE MarkLineEnd
  <2>1. BuffersOK' /\ Buffers \subseteq Buffers'
    BY <1>3, BufferTyped DEF MarkLineEnd, BuffersOK, ThreadsOK, Buffers
  <2>2. ThreadsOK'
    BY <1>3
       DEF MarkLineEnd, AppRuns, Meet, ThreadsOK, Parts, Goto, Actors, AppPlaces, HookPlaces,
           FlushPlaces
  <2>3. FlushesOK'
    BY <1>3, <2>1, KeepFlushes DEF MarkLineEnd, AppRuns, Meet
  <2>4. SaveOK'
    BY <1>3, <2>1, KeepSave DEF MarkLineEnd, AppRuns, Meet
  <2>5. ProgramOK'
    BY <1>3 DEF MarkLineEnd, AppRuns, Meet, ProgramOK, history, jvmVars
  <2> QED
    BY <2>1, <2>2, <2>3, <2>4, <2>5 DEF TypeOK
<1>4. CASE Overflow
  <2>1. BuffersOK' /\ Buffers \subseteq Buffers'
    BY <1>4 DEF Overflow, AppRuns, Meet, SwitchOff, bufferVars, BuffersOK, Buffers
  <2>2. ThreadsOK'
    BY <1>4
       DEF Overflow, AppRuns, Meet, SwitchOff, ThreadsOK, Parts, Goto, Actors, AppPlaces,
           HookPlaces, FlushPlaces
  <2>3. FlushesOK'
    BY <1>4, <2>1, KeepFlushes DEF Overflow, AppRuns, Meet, SwitchOff
  <2>4. SaveOK'
    BY <1>4, <2>1, KeepSave DEF Overflow, AppRuns, Meet, SwitchOff
  <2>5. ProgramOK'
    BY <1>4 DEF Overflow, AppRuns, Meet, SwitchOff, ProgramOK, history, jvmVars
  <2> QED
    BY <2>1, <2>2, <2>3, <2>4, <2>5 DEF TypeOK
<1>5. CASE AppEnds
  <2>1. BuffersOK' /\ Buffers \subseteq Buffers'
    BY <1>5 DEF AppEnds, AppRuns, Meet, bufferVars, BuffersOK, Buffers
  <2>2. ThreadsOK'
    BY <1>5
       DEF AppEnds, AppRuns, Meet, ThreadsOK, Parts, Goto, Actors, AppPlaces, HookPlaces,
           FlushPlaces
  <2>3. FlushesOK'
    BY <1>5, <2>1, KeepFlushes DEF AppEnds, AppRuns, Meet
  <2>4. SaveOK'
    BY <1>5, <2>1, KeepSave DEF AppEnds, AppRuns, Meet
  <2>5. ProgramOK'
    BY <1>5 DEF AppEnds, AppRuns, Meet, ProgramOK, history, jvmVars
  <2> QED
    BY <2>1, <2>2, <2>3, <2>4, <2>5 DEF TypeOK
<1>6. CASE SubmitThrows
  <2>1. BuffersOK' /\ Buffers \subseteq Buffers'
    BY <1>6 DEF SubmitThrows, AppRuns, Meet, SwitchOff, bufferVars, BuffersOK, Buffers
  <2>2. ThreadsOK'
    BY <1>6
       DEF SubmitThrows, AppRuns, Meet, SwitchOff, ThreadsOK, Parts, Goto, Actors, AppPlaces,
           HookPlaces, FlushPlaces
  <2>3. FlushesOK'
    BY <1>6, <2>1, KeepFlushes DEF SubmitThrows, AppRuns, Meet, SwitchOff
  <2>4. SaveOK'
    BY <1>6, <2>1, KeepSave DEF SubmitThrows, AppRuns, Meet, SwitchOff
  <2>5. ProgramOK'
    BY <1>6 DEF SubmitThrows, AppRuns, Meet, SwitchOff, ProgramOK, history, jvmVars
  <2> QED
    BY <2>1, <2>2, <2>3, <2>4, <2>5 DEF TypeOK
<1>7. ASSUME NEW a \in Actors, Limit(a) PROVE TypeOK'
  <2>1. BuffersOK' /\ Buffers \subseteq Buffers'
    <3>1. flushing[a] \in Buffers /\ lle \in 0 .. Capacity
      BY DEF BuffersOK, FlushesOK
    <3> DEFINE r == LimitedTo(heap[flushing[a]], lle)
    <3>2. r \in Buffer
      BY <3>1, BufferTyped, BufferOperations
    <3>3. heap' = [heap EXCEPT ![flushing[a]] = r] /\ UNCHANGED <<buf, lle>>
      BY <1>7 DEF Limit
    <3> QED
      BY <3>1, <3>2, <3>3, UpdateBuffer DEF BuffersOK
  <2>2. ThreadsOK'
    BY <1>7
       DEF Limit, AppRuns, Meet, FlusherRuns, ThreadsOK, Parts, Goto, Actors, AppPlaces,
           HookPlaces, FlushPlaces
  <2>3. FlushesOK'
    <3> DEFINE b == flushing[a]
               c == Cells(b, lle, heap[b].pos)
    <3>0. b \in Buffers /\ lle \in 0 .. Capacity /\ heap[b].pos \in 0 .. Capacity
      BY BufferTyped DEF BuffersOK, FlushesOK
    <3>1. c \in Seq(Nat) /\ Len(c) <= Capacity
      <4>1. Len(c) = IF lle <= heap[b].pos THEN heap[b].pos - lle ELSE 0
        BY <3>0, CellsTyped
      <4>2. Len(c) <= Capacity
        BY <3>0, <4>1
      <4> QED
        BY <3>0, <4>2, CellsTyped
    <3>2. flushing' \in [Actors -> Buffers']
      BY <1>7, <2>1 DEF Limit, FlushesOK, BuffersOK
    <3>3. carry' = [carry EXCEPT ![a] = c]
      BY <1>7 DEF Limit
    <3> QED
      BY <1>7, <3>1, <3>2, <3>3 DEF FlushesOK
  <2>4. SaveOK'
    BY <1>7, <2>1, KeepSave DEF Limit, AppRuns, Meet, FlusherRuns
  <2>5. ProgramOK'
    BY <1>7 DEF Limit, AppRuns, Meet, FlusherRuns, ProgramOK, history, jvmVars
  <2> QED
    BY <2>1, <2>2, <2>3, <2>4, <2>5 DEF TypeOK
<1>8. ASSUME NEW a \in Actors, LimitThrows(a) PROVE TypeOK'
  <2>1. BuffersOK' /\ Buffers \subseteq Buffers'
    BY <1>8 DEF LimitThrows, AppRuns, Meet, FlusherRuns, SwitchOff, bufferVars, BuffersOK, Buffers
  <2>2. ThreadsOK'
    BY ZenonT(60), <1>8
       DEF LimitThrows, AppRuns, Meet, FlusherRuns, SwitchOff, ThreadsOK, Parts, Goto, Actors,
           AppPlaces, HookPlaces, FlushPlaces
  <2>3. FlushesOK'
    BY <1>8, <2>1, KeepFlushes DEF LimitThrows, AppRuns, Meet, FlusherRuns, SwitchOff
  <2>4. SaveOK'
    BY <1>8, <2>1, KeepSave DEF LimitThrows, AppRuns, Meet, FlusherRuns, SwitchOff
  <2>5. ProgramOK'
    BY <1>8 DEF LimitThrows, AppRuns, Meet, FlusherRuns, SwitchOff, ProgramOK, history, jvmVars
  <2> QED
    BY <2>1, <2>2, <2>3, <2>4, <2>5 DEF TypeOK
<1>9. ASSUME NEW a \in Actors, Flip(a) PROVE TypeOK'
  <2>1. BuffersOK' /\ Buffers \subseteq Buffers'
    <3> DEFINE b == flushing[a]
               r == Flipped(heap[b])
    <3>1. b \in Buffers
      BY <1>9 DEF FlushesOK
    <3>2. r \in Buffer
      BY <3>1, BufferTyped, BufferOperations
    <3>3. heap' = [heap EXCEPT ![b] = r] /\ UNCHANGED <<buf, lle>>
      BY <1>9 DEF Flip
    <3> QED
      BY <3>1, <3>2, <3>3, UpdateBuffer DEF BuffersOK
  <2>2. ThreadsOK'
    BY <1>9
       DEF Flip, AppRuns, Meet, FlusherRuns, ThreadsOK, Parts, Goto, Actors, AppPlaces,
           HookPlaces, FlushPlaces
  <2>3. FlushesOK'
    BY <1>9, <2>1, KeepFlushes DEF Flip, AppRuns, Meet, FlusherRuns
  <2>4. SaveOK'
    BY <1>9, <2>1, KeepSave DEF Flip, AppRuns, Meet, FlusherRuns
  <2>5. ProgramOK'
    BY <1>9 DEF Flip, AppRuns, Meet, FlusherRuns, ProgramOK, history, jvmVars
  <2> QED
    BY <2>1, <2>2, <2>3, <2>4, <2>5 DEF TypeOK
<1>10. ASSUME NEW a \in Actors, Submit(a) PROVE TypeOK'
  <2>1. BuffersOK' /\ Buffers \subseteq Buffers'
    BY <1>10 DEF Submit, AppRuns, Meet, FlusherRuns, bufferVars, BuffersOK, Buffers
  <2>2. ThreadsOK'
    BY <1>10
       DEF Submit, AppRuns, Meet, FlusherRuns, ThreadsOK, Parts, Goto, Actors, AppPlaces,
           HookPlaces, FlushPlaces
  <2>3. FlushesOK'
    BY <1>10, <2>1, KeepFlushes DEF Submit, AppRuns, Meet, FlusherRuns
  <2>4. SaveOK'
    <3>1. flushing[a] \in Buffers
      BY <1>10 DEF FlushesOK
    <3>2. queue' \in Seq(Buffers)
      BY <1>10, <3>1, AppendProperties DEF Submit, SaveOK
    <3> QED
      BY <1>10, <3>2, <2>1, SeqMonotonic DEF Submit, SaveOK, bufferVars, Buffers
  <2>5. ProgramOK'
    BY <1>10 DEF Submit, AppRuns, Meet, FlusherRuns, ProgramOK, history, jvmVars
  <2> QED
    BY <2>1, <2>2, <2>3, <2>4, <2>5 DEF TypeOK
<1>11. ASSUME NEW a \in Actors, Renew(a) PROVE TypeOK'
  <2>1. BuffersOK' /\ Buffers \subseteq Buffers'
    <3>1. CASE a = "app"
      <4> DEFINE r == Fresh(carry[a], written - Len(carry[a]))
      <4>1. carry[a] \in Seq(Nat) /\ Len(carry[a]) \in 0 .. Capacity /\ written \in Nat
        BY <1>11 DEF FlushesOK, ProgramOK
      <4>2. \A i \in 0 .. Capacity - 1 : i < Len(carry[a]) => carry[a][i + 1] \in Nat
        BY <4>1
      <4>3. r \in Buffer
        BY <4>1, <4>2 DEF Fresh, Buffer
      <4>4. heap' = Append(heap, r) /\ buf' = Len(heap) + 1 /\ lle' = 0
        BY <1>11, <3>1 DEF Renew
      <4>5. heap' \in Seq(Buffer) /\ Len(heap') = Len(heap) + 1 /\ Len(heap) \in Nat
        BY <4>3, <4>4, AppendProperties, LenProperties DEF BuffersOK
      <4> HIDE DEF r
      <4> QED
        BY <4>4, <4>5 DEF BuffersOK, Buffers
    <3>2. CASE a # "app"
      BY <1>11, <3>2 DEF Renew, BuffersOK, Buffers
    <3> QED
      BY <3>1, <3>2
  <2>2. ThreadsOK'
    BY <1>11
       DEF Renew, AppRuns, Meet, FlusherRuns, ThreadsOK, Parts, Goto, Actors, AppPlaces,
           HookPlaces, FlushPlaces
  <2>3. FlushesOK'
    BY <1>11, <2>1, KeepFlushes DEF Renew, AppRuns, Meet, FlusherRuns
  <2>4. SaveOK'
    BY <1>11, <2>1, KeepSave DEF Renew, AppRuns, Meet, FlusherRuns
  <2>5. ProgramOK'
    BY <1>11 DEF Renew, AppRuns, Meet, FlusherRuns, ProgramOK, history, jvmVars
  <2> QED
    BY <2>1, <2>2, <2>3, <2>4, <2>5 DEF TypeOK
<1>12. CASE Take
  <2>1. BuffersOK' /\ Buffers \subseteq Buffers'
    BY <1>12 DEF Take, SaverIs, bufferVars, BuffersOK, Buffers
  <2>2. ThreadsOK'
    BY <1>12 DEF Take, SaverIs, ThreadsOK
  <2>3. FlushesOK'
    BY <1>12, <2>1, KeepFlushes DEF Take, SaverIs
  <2>4. SaveOK'
    <3>1. Head(queue) \in Buffers /\ Tail(queue) \in Seq(Buffers)
      BY <1>12, HeadTailProperties DEF Take, SaveOK
    <3>2. saver' \in [at : {"none", "idle", "taken", "written"}, buf : Buffers,
                      from : 0 .. Capacity, to : 0 .. Capacity]
      BY <1>12, <3>1, BufferTyped DEF Take, SaverIs
    <3> QED
      BY <1>12, <3>1, <3>2 DEF Take, SaveOK, bufferVars, Buffers
  <2>5. ProgramOK'
    BY <1>12 DEF Take, SaverIs, ProgramOK, history, jvmVars
  <2> QED
    BY <2>1, <2>2, <2>3, <2>4, <2>5 DEF TypeOK
<1>13. CASE WriteAll \/ WriteShort
  <2>1. BuffersOK' /\ Buffers \subseteq Buffers'
    BY <1>13 DEF WriteAll, WriteShort, Write, Meet, SaverIs, bufferVars, BuffersOK, Buffers
  <2>2. ThreadsOK'
    BY <1>13 DEF WriteAll, WriteShort, Write, Meet, SaverIs, ThreadsOK
  <2>3. FlushesOK'
    BY <1>13, <2>1, KeepFlushes DEF WriteAll, WriteShort, Write, Meet, SaverIs
  <2>4. SaveOK'
    <3>1. PICK to \in 0 .. Capacity : Write(to)
      BY <1>13 DEF WriteAll, WriteShort, SaveOK
    <3>2. Cells(saver.buf, saver.from, to) \in Seq(Nat)
      BY CellsTyped DEF SaveOK
    <3>3. file' \in Seq(Nat)
      BY <3>1, <3>2, ConcatProperties DEF Write, SaveOK
    <3> QED
      BY <3>1, <3>3 DEF Write, SaverIs, SaveOK, bufferVars, Buffers
  <2>5. ProgramOK'
    BY <1>13 DEF WriteAll, WriteShort, Write, Meet, SaverIs, ProgramOK, history, jvmVars
  <2> QED
    BY <2>1, <2>2, <2>3, <2>4, <2>5 DEF TypeOK
<1>14. CASE WriteThrows
  <2>1. BuffersOK' /\ Buffers \subseteq Buffers'
    BY <1>14 DEF WriteThrows, Meet, SaverIs, bufferVars, BuffersOK, Buffers
  <2>2. ThreadsOK'
    BY <1>14 DEF WriteThrows, Meet, SaverIs, ThreadsOK
  <2>3. FlushesOK'
    BY <1>14, <2>1, KeepFlushes DEF WriteThrows, Meet, SaverIs
  <2>4. SaveOK'
    BY <1>14 DEF WriteThrows, Meet, SaverIs, SaveOK, bufferVars, Buffers
  <2>5. ProgramOK'
    BY <1>14 DEF WriteThrows, Meet, SaverIs, ProgramOK, history, jvmVars
  <2> QED
    BY <2>1, <2>2, <2>3, <2>4, <2>5 DEF TypeOK
<1>15. CASE SaveEnds
  <2>1. BuffersOK' /\ Buffers \subseteq Buffers'
    <3> DEFINE r == [heap[saver.buf] EXCEPT !.pos = saver.to]
    <3>1. saver.buf \in Buffers /\ saver.to \in 0 .. Capacity
      BY DEF SaveOK
    <3>2. r \in Buffer
      BY <3>1, BufferTyped, BufferOperations
    <3>3. heap' = [heap EXCEPT ![saver.buf] = r] /\ UNCHANGED <<buf, lle>>
      BY <1>15 DEF SaveEnds
    <3> QED
      BY <3>1, <3>2, <3>3, UpdateBuffer DEF BuffersOK
  <2>2. ThreadsOK'
    BY <1>15 DEF SaveEnds, SaverIs, ThreadsOK
  <2>3. FlushesOK'
    BY <1>15, <2>1, KeepFlushes DEF SaveEnds, SaverIs
  <2>4. SaveOK'
    <3>1. Buffers' = Buffers
      BY <1>15, LenProperties, ExceptSeq DEF SaveEnds, BuffersOK, SaveOK, Buffers
    <3> QED
      BY <1>15, <3>1 DEF SaveEnds, SaverIs, SaveOK
  <2>5. ProgramOK'
    BY <1>15 DEF SaveEnds, SaverIs, ProgramOK, history, jvmVars
  <2> QED
    BY <2>1, <2>2, <2>3, <2>4, <2>5 DEF TypeOK
<1>16. CASE Exit \/ LastThreadEnds
  <2>1. BuffersOK' /\ Buffers \subseteq Buffers'
    BY <1>16 DEF Exit, LastThreadEnds, ShutdownBegins, Meet, bufferVars, BuffersOK, Buffers
  <2>2. ThreadsOK'
    BY <1>16 DEF Exit, LastThreadEnds, ShutdownBegins, Meet, ThreadsOK
  <2>3. FlushesOK'
    BY <1>16, <2>1, KeepFlushes DEF Exit, LastThreadEnds, ShutdownBegins, Meet
  <2>4. SaveOK'
    BY <1>16, <2>1, KeepSave DEF Exit, LastThreadEnds, ShutdownBegins, Meet
  <2>5. ProgramOK'
    BY <1>16 DEF Exit, LastThreadEnds, ShutdownBegins, Meet, ProgramOK, history, jvmVars
  <2> QED
    BY <2>1, <2>2, <2>3, <2>4, <2>5 DEF TypeOK
<1>17. CASE PrintURL
  <2>1. BuffersOK' /\ Buffers \subseteq Buffers'
    BY <1>17 DEF PrintURL, bufferVars, BuffersOK, Buffers
  <2>2. ThreadsOK'
    BY <1>17 DEF PrintURL, ThreadsOK
  <2>3. FlushesOK'
    BY <1>17, <2>1, KeepFlushes DEF PrintURL
  <2>4. SaveOK'
    BY <1>17, <2>1, KeepSave DEF PrintURL
  <2>5. ProgramOK'
    BY <1>17 DEF PrintURL, ProgramOK, history, jvmVars
  <2> QED
    BY <2>1, <2>2, <2>3, <2>4, <2>5 DEF TypeOK
<1>18. CASE CleanupBegins \/ ShutdownPool \/ AwaitTermination \/ CloseChannel
  <2>1. BuffersOK' /\ Buffers \subseteq Buffers'
    BY <1>18
       DEF CleanupBegins, ShutdownPool, AwaitTermination, CloseChannel, HookStep, Meet,
           bufferVars, BuffersOK, Buffers
  <2>2. ThreadsOK'
    BY <1>18
       DEF CleanupBegins, ShutdownPool, AwaitTermination, CloseChannel, HookStep, Meet,
           ThreadsOK, Parts, Goto, Actors, AppPlaces, HookPlaces, FlushPlaces
  <2>3. FlushesOK'
    BY <1>18, <2>1, KeepFlushes, BeginFlushTyped
       DEF CleanupBegins, ShutdownPool, AwaitTermination, CloseChannel, HookStep, Meet, Actors,
           bufferVars, flushVars
  <2>4. SaveOK'
    BY <1>18
       DEF CleanupBegins, ShutdownPool, AwaitTermination, CloseChannel, HookStep, Meet, SaveOK,
           bufferVars, Buffers
  <2>5. ProgramOK'
    BY <1>18
       DEF CleanupBegins, ShutdownPool, AwaitTermination, CloseChannel, HookStep, Meet,
           ProgramOK, history, jvmVars
  <2> QED
    BY <2>1, <2>2, <2>3, <2>4, <2>5 DEF TypeOK
<1>19. CASE Halt
  <2>1. BuffersOK' /\ Buffers \subseteq Buffers'
    BY <1>19 DEF Halt, bufferVars, BuffersOK, Buffers
  <2>2. ThreadsOK'
    BY <1>19 DEF Halt, ThreadsOK
  <2>3. FlushesOK'
    BY <1>19, <2>1, KeepFlushes DEF Halt
  <2>4. SaveOK'
    BY <1>19, <2>1, KeepSave DEF Halt
  <2>5. ProgramOK'
    BY <1>19 DEF Halt, ProgramOK, history, jvmVars
  <2> QED
    BY <2>1, <2>2, <2>3, <2>4, <2>5 DEF TypeOK
<1>20. CASE UNCHANGED vars
  <2>1. BuffersOK' /\ Buffers \subseteq Buffers'
    BY <1>20 DEF vars, bufferVars, BuffersOK, Buffers
  <2>2. ThreadsOK'
    BY <1>20 DEF vars, ThreadsOK
  <2>3. FlushesOK'
    BY <1>20, <2>1, KeepFlushes DEF vars
  <2>4. SaveOK'
    BY <1>20, <2>1, KeepSave DEF vars
  <2>5. ProgramOK'
    BY <1>20 DEF vars, ProgramOK, history, jvmVars
  <2> QED
    BY <2>1, <2>2, <2>3, <2>4, <2>5 DEF TypeOK
<1> QED
  BY <1>1, <1>2, <1>3, <1>4, <1>5, <1>6, <1>7, <1>8, <1>9, <1>10, <1>11, <1>12, <1>13,
     <1>14, <1>15, <1>16, <1>17, <1>18, <1>19, <1>20, <1>21
     DEF Next, App, Saver, Hook, Flush, Actors

-----------------------------------------------------------------------------
\* The order in which buffers are filled, handed over and saved.

\* The types, as far as arithmetic needs them.
LEMMA Typed ==
  ASSUME TypeOK
  PROVE  /\ Len(heap) \in Nat \ {0} /\ buf \in Buffers /\ Buffers = 1 .. Len(heap)
         /\ lle \in 0 .. Capacity /\ written \in Nat /\ ends \subseteq Nat
         /\ req.len \in Nat \ {0} /\ Len(queue) \in Nat /\ Len(file) \in Nat
         /\ pc["app"] \in AppPlaces \union FlushPlaces
         /\ pc["hook"] \in HookPlaces \union FlushPlaces
<1> USE CapacityAssumption, MaxWriteAssumption DEF TypeOK
<1>1. Len(heap) \in Nat /\ buf \in 1 .. Len(heap)
  BY DEF BuffersOK, Buffers
<1>2. Len(queue) \in Nat /\ Len(file) \in Nat
  BY DEF SaveOK
<1>3. req.len \in Nat \ {0}
  BY DEF ThreadsOK
<1>4. ends \subseteq Nat /\ written \in Nat
  BY DEF ProgramOK
<1> QED
  BY <1>1, <1>2, <1>3, <1>4 DEF BuffersOK, ThreadsOK, Buffers

\* What a Goto says of the two actors.
LEMMA Goes ==
  ASSUME TypeOK, NEW a \in Actors, NEW from, NEW to, Goto(a, from, to)
  PROVE  /\ pc[a] = from /\ pc'[a] = to
         /\ \A b \in Actors : b # a => pc'[b] = pc[b]
BY DEF Goto, TypeOK, ThreadsOK

\* As long as things are orderly, the recording thread acts only while the program
\* runs, when the hook has not begun.
LEMMA AppRunsOrderly ==
  ASSUME AppRuns, Orderly', QuietInv
  PROVE  jvm = "running" /\ pc["hook"] = "waiting" /\ pool # "shutdown" /\ UNCHANGED met
BY DEF AppRuns, Meet, Orderly, NoneOf, QuietInv

\* Once the JVM shuts down the recording thread is in no method of ByteBufferOutput.
LEMMA HookOrderly ==
  ASSUME TypeOK, QuietInv, jvm # "running"
  PROVE  pc["app"] \in {"ready", "ended"}
BY DEF QuietInv, Recording

\* One flush at a time: the hook's begins when the recording thread is quiet.
LEMMA FlusherOrderly ==
  ASSUME TypeOK, QuietInv, Orderly', NEW a \in Actors, FlusherRuns(a), pc[a] \in FlushPlaces
  PROVE  /\ \/ a = "app" /\ pc["hook"] = "waiting"
            \/ a = "hook" /\ pc["app"] \in {"ready", "ended"} /\ jvm # "running"
         /\ UNCHANGED met
BY AppRunsOrderly, HookOrderly DEF FlusherRuns, Actors

\* Of the buffers all, or all but the current one, have been submitted.
LEMMA SubmittedTyped ==
  ASSUME TypeOK
  PROVE  /\ Submitted \in {Len(heap), Len(heap) - 1} /\ Submitted \in Nat /\ Taken \in Int
         /\ Taken <= Submitted
         /\ Submitted = Len(heap) => Cut
BY Typed DEF Submitted, Taken, Cut

\* The ranges every step of the proof works in.
Shape ==
  /\ buf = Len(heap) /\ Buffers = 1 .. Len(heap) /\ Len(heap) \in Nat \ {0}
  /\ Submitted \in {Len(heap), Len(heap) - 1} /\ (Submitted = Len(heap) => Cut)
  /\ Taken \in Nat /\ Taken <= Submitted
  /\ saver.buf \in Buffers
  /\ \A b \in Buffers : /\ heap[b].pos \in 0 .. Capacity /\ heap[b].lim \in 0 .. Capacity
                        /\ heap[b].origin \in Int

\* The ranges follow from the types and two parts of the invariant.
LEMMA ShapeFromOrder ==
  ASSUME TypeOK, FillingInv, QueueInv
  PROVE  Shape
BY SubmittedTyped, Typed, BufferTyped DEF Shape, FillingInv, QueueInv, TypeOK, SaveOK

\* Emptiness of the queue, as a length.
LEMMA QueueLength ==
  ASSUME TypeOK
  PROVE  queue = <<>> <=> Len(queue) = 0
BY EmptySeq DEF TypeOK, SaveOK

\* A buffer starts where a line, or the stream, begins.
LEMMA Origins ==
  ASSUME TypeOK, PastInv, NEW b \in Buffers
  PROVE  heap[b].origin \in Nat
<1>1. CASE b = 1
  BY <1>1 DEF PastInv
<1>2. CASE b # 1
  <2>1. b - 1 \in 1 .. Len(heap) - 1 /\ (b - 1) + 1 = b
    BY <1>2, Typed
  <2>2. heap[b].origin = End(b - 1) /\ End(b - 1) \in ends \union {0}
    BY <2>1 DEF PastInv
  <2> QED
    BY <2>2, Typed
<1> QED
  BY <1>1, <1>2

\* The fields of a buffer after an operation.
LEMMA OperationFields ==
  ASSUME NEW b \in Buffer, NEW n
  PROVE  /\ Filled(b, n).pos = b.pos + n /\ Filled(b, n).lim = b.lim /\ Filled(b, n).origin = b.origin
         /\ \A i \in 0 .. Capacity - 1 : Filled(b, n).mem[i] =
              IF i \in b.pos .. (b.pos + n - 1) THEN written + 1 + i - b.pos ELSE b.mem[i]
         /\ LimitedTo(b, n).lim = n /\ LimitedTo(b, n).pos = (IF b.pos < n THEN b.pos ELSE n)
         /\ LimitedTo(b, n).origin = b.origin /\ LimitedTo(b, n).mem = b.mem
         /\ Flipped(b).lim = b.pos /\ Flipped(b).pos = 0
         /\ Flipped(b).origin = b.origin /\ Flipped(b).mem = b.mem
         /\ [b EXCEPT !.pos = n].lim = b.lim /\ [b EXCEPT !.pos = n].pos = n
         /\ [b EXCEPT !.pos = n].origin = b.origin /\ [b EXCEPT !.pos = n].mem = b.mem
<1>1. /\ Filled(b, n).pos = b.pos + n /\ Filled(b, n).lim = b.lim /\ Filled(b, n).origin = b.origin
      /\ \A i \in 0 .. Capacity - 1 : Filled(b, n).mem[i] =
           IF i \in b.pos .. (b.pos + n - 1) THEN written + 1 + i - b.pos ELSE b.mem[i]
  BY DEF Filled, Buffer
<1>2. /\ LimitedTo(b, n).lim = n /\ LimitedTo(b, n).pos = (IF b.pos < n THEN b.pos ELSE n)
      /\ LimitedTo(b, n).origin = b.origin /\ LimitedTo(b, n).mem = b.mem
  BY DEF LimitedTo, Buffer
<1>3. /\ Flipped(b).lim = b.pos /\ Flipped(b).pos = 0
      /\ Flipped(b).origin = b.origin /\ Flipped(b).mem = b.mem
  BY DEF Flipped, Buffer
<1>4. /\ [b EXCEPT !.pos = n].lim = b.lim /\ [b EXCEPT !.pos = n].pos = n
      /\ [b EXCEPT !.pos = n].origin = b.origin /\ [b EXCEPT !.pos = n].mem = b.mem
  BY DEF Buffer
<1> QED
  BY <1>1, <1>2, <1>3, <1>4

\* What Put makes of the current buffer, field by field.
LEMMA PutUpdates ==
  ASSUME TypeOK, Put
  PROVE  /\ Len(heap') = Len(heap)
         /\ \A c \in Buffers : c # buf => heap'[c] = heap[c]
         /\ heap'[buf].pos = heap[buf].pos + req.len
         /\ heap'[buf].lim = heap[buf].lim /\ heap'[buf].origin = heap[buf].origin
         /\ \A i \in 0 .. Capacity - 1 : heap'[buf].mem[i] =
              IF i \in heap[buf].pos .. (heap[buf].pos + req.len - 1)
                THEN written + 1 + i - heap[buf].pos ELSE heap[buf].mem[i]
<1>1. buf \in Buffers /\ written \in Nat /\ req.len \in Nat \ {0} /\ heap[buf] \in Buffer
      /\ heap[buf].lim \in 0 .. Capacity /\ heap[buf].pos \in 0 .. Capacity
  BY Typed, BufferTyped DEF TypeOK
<1>2. req.len \in 0 .. Capacity /\ req.len <= heap[buf].lim - heap[buf].pos
  BY <1>1, CapacityAssumption DEF Put, Remaining
<1>3. Filled(heap[buf], req.len) \in Buffer
  BY <1>1, <1>2, BufferOperations
<1>4. /\ Len(heap') = Len(heap)
      /\ \A c \in Buffers : c # buf => heap'[c] = heap[c]
      /\ heap'[buf] = Filled(heap[buf], req.len)
  BY <1>1, <1>3, UpdateBuffer DEF Put, TypeOK
<1> DEFINE r == Filled(heap[buf], req.len)
<1>5. /\ r.pos = heap[buf].pos + req.len /\ r.lim = heap[buf].lim /\ r.origin = heap[buf].origin
      /\ \A i \in 0 .. Capacity - 1 : r.mem[i] =
           IF i \in heap[buf].pos .. (heap[buf].pos + req.len - 1)
             THEN written + 1 + i - heap[buf].pos ELSE heap[buf].mem[i]
  BY <1>1, OperationFields
<1>6. heap'[buf] = r
  BY <1>4
<1> HIDE DEF r
<1> QED
  BY <1>4, <1>5, <1>6

\* What Limit makes of the current buffer and of the flush's locals.
LEMMA LimitUpdates ==
  ASSUME TypeOK, NEW a \in Actors, Limit(a), flushing[a] = buf, lle <= heap[buf].pos
  PROVE  /\ Len(heap') = Len(heap)
         /\ \A c \in Buffers : c # buf => heap'[c] = heap[c]
         /\ heap'[buf].lim = lle /\ heap'[buf].pos = lle
         /\ heap'[buf].origin = heap[buf].origin /\ heap'[buf].mem = heap[buf].mem
         /\ UNCHANGED flushing
         /\ Len(carry'[a]) = heap[buf].pos - lle
         /\ \A i \in 1 .. Len(carry'[a]) : carry'[a][i] = heap[buf].mem[lle + i - 1]
<1>1. buf \in Buffers /\ lle \in 0 .. Capacity /\ heap[buf] \in Buffer /\ heap[buf].pos \in 0 .. Capacity
  BY Typed, BufferTyped DEF TypeOK
<1>2. LimitedTo(heap[buf], lle) \in Buffer
  BY <1>1, BufferOperations
<1>3. /\ Len(heap') = Len(heap)
      /\ \A c \in Buffers : c # buf => heap'[c] = heap[c]
      /\ heap'[buf] = LimitedTo(heap[buf], lle)
  BY <1>1, <1>2, UpdateBuffer DEF Limit, TypeOK
<1>4. /\ heap'[buf].lim = lle /\ heap'[buf].pos = (IF heap[buf].pos < lle THEN heap[buf].pos ELSE lle)
      /\ heap'[buf].origin = heap[buf].origin /\ heap'[buf].mem = heap[buf].mem
  BY <1>1, <1>3, OperationFields
<1>5. UNCHANGED flushing
  BY DEF Limit
<1> DEFINE c == Cells(buf, lle, heap[buf].pos)
<1>6. carry'[a] = c
  BY DEF Limit, TypeOK, FlushesOK
<1>7. /\ Len(c) = (IF lle <= heap[buf].pos THEN heap[buf].pos - lle ELSE 0)
      /\ \A i \in 1 .. heap[buf].pos - lle : c[i] = heap[buf].mem[lle + i - 1]
  BY <1>1, CellsTyped DEF TypeOK
<1> HIDE DEF c
<1>8. heap'[buf].pos = lle /\ Len(c) = heap[buf].pos - lle
  BY <1>1, <1>4, <1>7, CapacityAssumption
<1> QED
  BY <1>3, <1>4, <1>5, <1>6, <1>7, <1>8

\* What Flip makes of the current buffer, when that is the one being flushed.
LEMMA FlipUpdates ==
  ASSUME TypeOK, NEW a \in Actors, Flip(a), flushing[a] = buf, heap[buf].pos = heap[buf].lim
  PROVE  /\ Len(heap') = Len(heap)
         /\ \A c \in Buffers : c # buf => heap'[c] = heap[c]
         /\ heap'[buf].lim = heap[buf].lim /\ heap'[buf].pos = 0
         /\ heap'[buf].origin = heap[buf].origin /\ heap'[buf].mem = heap[buf].mem
<1>1. buf \in Buffers /\ heap[buf] \in Buffer /\ 0 \in 0 .. Capacity
  BY Typed, BufferTyped, CapacityAssumption DEF TypeOK
<1>2. Flipped(heap[buf]) \in Buffer
  BY <1>1, BufferOperations
<1>3. /\ Len(heap') = Len(heap)
      /\ \A c \in Buffers : c # buf => heap'[c] = heap[c]
      /\ heap'[buf] = Flipped(heap[buf])
  BY <1>1, <1>2, UpdateBuffer DEF Flip, TypeOK
<1>4. /\ Flipped(heap[buf]).lim = heap[buf].pos /\ Flipped(heap[buf]).pos = 0
      /\ Flipped(heap[buf]).origin = heap[buf].origin /\ Flipped(heap[buf]).mem = heap[buf].mem
  BY <1>1, OperationFields
<1> QED
  BY <1>3, <1>4

\* The buffer that Renew appends, field by field.
LEMMA RenewUpdates ==
  ASSUME TypeOK, Renew("app")
  PROVE  /\ Len(heap') = Len(heap) + 1 /\ buf' = Len(heap) + 1
         /\ \A c \in Buffers : heap'[c] = heap[c]
         /\ heap'[buf'].lim = Capacity /\ heap'[buf'].pos = Len(carry["app"])
         /\ heap'[buf'].origin = written - Len(carry["app"])
         /\ \A i \in 0 .. Capacity - 1 :
              i < Len(carry["app"]) => heap'[buf'].mem[i] = carry["app"][i + 1]
         /\ Len(carry["app"]) \in 0 .. Capacity
<1> DEFINE r == Fresh(carry["app"], written - Len(carry["app"]))
<1>1. heap \in Seq(Buffer) /\ heap' = Append(heap, r) /\ buf' = Len(heap) + 1
      /\ Buffers = 1 .. Len(heap)
  BY DEF Renew, TypeOK, BuffersOK, Buffers
<1>2. /\ r.lim = Capacity /\ r.pos = Len(carry["app"]) /\ r.origin = written - Len(carry["app"])
      /\ \A i \in 0 .. Capacity - 1 : i < Len(carry["app"]) => r.mem[i] = carry["app"][i + 1]
  BY DEF Fresh
<1>3. Len(carry["app"]) \in 0 .. Capacity
  BY DEF TypeOK, FlushesOK, Actors
<1> HIDE DEF r
<1>4. /\ Len(heap') = Len(heap) + 1
      /\ \A c \in Buffers : heap'[c] = heap[c]
      /\ heap'[Len(heap) + 1] = r
  BY <1>1
<1> QED
  BY <1>1, <1>2, <1>3, <1>4

\* SaveEnds moves nothing but a position.
LEMMA SaveEndsUpdates ==
  ASSUME TypeOK, SaveEnds
  PROVE  /\ Len(heap') = Len(heap)
         /\ \A c \in Buffers : c # saver.buf => heap'[c] = heap[c]
         /\ \A c \in Buffers : /\ heap'[c].lim = heap[c].lim /\ heap'[c].origin = heap[c].origin
                               /\ heap'[c].mem = heap[c].mem
<1> DEFINE b == saver.buf
           r == [heap[b] EXCEPT !.pos = saver.to]
<1>1. b \in Buffers /\ saver.to \in 0 .. Capacity
  BY DEF TypeOK, SaveOK
<1>2. heap[b] \in Buffer
  BY <1>1, BufferTyped DEF TypeOK
<1>3. r \in Buffer
  BY <1>1, <1>2, BufferOperations
<1>4. r.lim = heap[b].lim /\ r.origin = heap[b].origin /\ r.mem = heap[b].mem
  BY <1>2, OperationFields
<1>5. heap' = [heap EXCEPT ![b] = r]
  BY DEF SaveEnds
<1> HIDE DEF r, b
<1>6. /\ Len(heap') = Len(heap)
      /\ \A c \in Buffers : c # b => heap'[c] = heap[c]
      /\ heap'[b] = r
  BY <1>1, <1>3, <1>5, UpdateBuffer DEF TypeOK
<1>7. \A c \in Buffers : /\ heap'[c].lim = heap[c].lim /\ heap'[c].origin = heap[c].origin
                         /\ heap'[c].mem = heap[c].mem
  BY <1>4, <1>6
<1> QED
  BY <1>6, <1>7 DEF b

\* What does not touch the whole lines of the earlier buffers leaves them in order.
LEMMA KeepPast ==
  ASSUME Shape, PastInv, Len(heap') = Len(heap), ends \subseteq ends',
         \A c \in Buffers : heap'[c].origin = heap[c].origin,
         \A c \in 1 .. Len(heap) - 1 : heap'[c].lim = heap[c].lim /\ heap'[c].mem = heap[c].mem
  PROVE  PastInv'
<1>1. heap'[1].origin = 0
  BY DEF PastInv, Shape
<1>2. ASSUME NEW b \in 1 .. Len(heap) - 1
      PROVE  /\ heap'[b + 1].origin = heap'[b].origin + heap'[b].lim
             /\ heap'[b].origin + heap'[b].lim \in ends' \union {0}
             /\ \A i \in 0 .. Capacity - 1 :
                  i < heap'[b].lim => heap'[b].mem[i] = heap'[b].origin + i + 1
  <2>1. b \in Buffers /\ b + 1 \in Buffers
    BY DEF Shape
  <2>2. /\ heap[b + 1].origin = heap[b].origin + heap[b].lim
        /\ heap[b].origin + heap[b].lim \in ends \union {0}
        /\ \A i \in 0 .. Capacity - 1 : i < heap[b].lim => heap[b].mem[i] = heap[b].origin + i + 1
    BY DEF PastInv, End, Holds
  <2> QED
    BY <2>1, <2>2
<1> QED
  BY <1>1, <1>2 DEF PastInv, End, Holds

\* Nor does it change how much has been saved.
LEMMA KeepSaved ==
  ASSUME Taken' = Taken, saver'.at = saver.at,
         Taken # 0 => heap'[Taken].origin = heap[Taken].origin /\ heap'[Taken].lim = heap[Taken].lim
  PROVE  Saved' = Saved
BY DEF Saved, End

\* reserve looks whether the write fits and touches no buffer.
LEMMA ReserveOrder ==
  ASSUME TypeOK, TypeOK', Orderly, Orderly', Order,
         NEW part \in Parts, NEW n \in 1 .. MaxWrite, Reserve(part, n)
  PROVE  Order'
<1> USE CapacityAssumption, MaxWriteAssumption, Typed DEF Order
<1>0. Shape
  BY ShapeFromOrder
<1> USE <1>0 DEF Shape
<1>1. /\ jvm = "running" /\ pc["hook"] = "waiting" /\ pc'["hook"] = "waiting"
      /\ pc["app"] = "ready" /\ pc'["app"] \in {"put", "limit"}
      /\ pc'["app"] = "put" => n <= Remaining(buf)
      /\ pc'["app"] = "limit" => flushing'["app"] = buf
      /\ ~disabled /\ req' = [part |-> part, len |-> n, end |-> 0]
      /\ UNCHANGED <<heap, buf, lle, carry, disabled, pool, queue, saver, file, closed, jvm,
                     written, ends, met>>
      /\ ~Cut /\ ~Cut' /\ UNCHANGED <<Submitted, Taken>>
  <2>1. /\ AppRuns
        /\ \/ Goto("app", "ready", "put") /\ n <= Remaining(buf)
           \/ Goto("app", "ready", "limit") /\ BeginFlush("app")
    BY DEF Reserve
  <2>2. /\ jvm = "running" /\ pc["hook"] = "waiting" /\ pc'["hook"] = "waiting"
        /\ pc["app"] = "ready" /\ UNCHANGED met
        /\ \/ pc'["app"] = "put" /\ n <= Remaining(buf)
           \/ pc'["app"] = "limit" /\ flushing'["app"] = buf
    BY <2>1, AppRunsOrderly, Goes DEF Actors, BeginFlush, TypeOK, FlushesOK
  <2>3. UNCHANGED <<heap, buf, lle, carry, disabled, pool, queue, saver, file, closed, jvm,
                    written, ends>>
        /\ ~disabled /\ req' = [part |-> part, len |-> n, end |-> 0]
    BY DEF Reserve, bufferVars, saveVars, jvmVars, history
  <2> QED
    BY <2>2, <2>3 DEF Cut, Submitted, Taken
<1>2. QuietInv'
  BY <1>1 DEF QuietInv, Recording
<1>3. FillingInv'
  BY <1>1 DEF FillingInv, Holds, Remaining
<1>4. HandOverInv'
  BY <1>1 DEF HandOverInv, Holds, End, Actors
<1>5. PastInv'
  BY <1>1 DEF PastInv, End, Holds
<1>6. QueueInv'
  BY <1>1 DEF QueueInv, Buffers
<1>7. FileInv'
  BY <1>1 DEF FileInv, Saved, End, Terminated, NoneOf
<1>8. InOrder'
  BY <1>1 DEF InOrder, NoneOf
<1>9. WholeLines'
  BY <1>1 DEF WholeLines, NoneOf
<1>10. OnlyLongLinesDisable'
  BY <1>1 DEF OnlyLongLinesDisable, NoneOf
<1> QED
  BY <1>2, <1>3, <1>4, <1>5, <1>6, <1>7, <1>8, <1>9, <1>10

\* The write extends the current buffer by the next bytes of the stream.
LEMMA PutOrder ==
  ASSUME TypeOK, TypeOK', Orderly, Orderly', Order,
         Put
  PROVE  Order'
<1> USE CapacityAssumption, MaxWriteAssumption, Typed DEF Order
<1>0. Shape
  BY ShapeFromOrder
<1> USE <1>0 DEF Shape
<1>1. /\ jvm = "running" /\ pc["hook"] = "waiting" /\ pc'["hook"] = "waiting"
      /\ pc["app"] = "put" /\ pc'["app"] \in {"ready", "mark"}
      /\ Len(heap') = Len(heap) /\ \A c \in Buffers : c # buf => heap'[c] = heap[c]
      /\ heap'[buf].pos = heap[buf].pos + req.len /\ req.len <= Remaining(buf)
      /\ \A c \in Buffers : heap'[c].lim = heap[c].lim /\ heap'[c].origin = heap[c].origin
      /\ \A i \in 0 .. Capacity - 1 : heap'[buf].mem[i] =
           IF i \in heap[buf].pos .. (heap[buf].pos + req.len - 1)
             THEN written + 1 + i - heap[buf].pos ELSE heap[buf].mem[i]
      /\ written' = written + req.len
      /\ UNCHANGED <<buf, lle, req, flushing, carry, disabled, pool, queue, saver, file,
                     closed, jvm, ends, met>>
      /\ ~Cut /\ ~Cut' /\ UNCHANGED <<Submitted, Taken>>
  BY AppRunsOrderly, PutUpdates
     DEF Put, Actors, TypeOK, ThreadsOK, Cut, Submitted, Taken, bufferVars, flushVars, saveVars,
         jvmVars, history
<1>2. QuietInv'
  BY <1>1 DEF QuietInv, Recording
<1>3. FillingInv'
  <2>1. /\ heap[buf].lim = Capacity /\ heap[buf].origin + heap[buf].pos = written
        /\ lle <= heap[buf].pos /\ Holds(buf, heap[buf].pos)
        /\ heap[buf].origin + lle \in ends \union {0} /\ \A e \in ends : e <= heap[buf].origin + lle
    BY <1>1 DEF FillingInv
  <2>2. buf \in Buffers /\ heap[buf].pos \in Nat /\ heap[buf].origin \in Int /\ req.len \in Nat \ {0}
        /\ lle \in Nat /\ written \in Nat
    OBVIOUS
  <2>3. heap'[buf].lim = Capacity /\ heap'[buf].origin = heap[buf].origin /\ req.len <= Capacity - heap[buf].pos
    BY <1>1, <2>1, <2>2 DEF Remaining
  <2>4. heap'[buf].pos = heap[buf].pos + req.len /\ written' = written + req.len
    BY <1>1
  <2>5. heap'[buf].origin + heap'[buf].pos = written' /\ lle < heap'[buf].pos /\ heap'[buf].pos \in 0 .. Capacity
    <3> HIDE <1>0, Typed, MaxWriteAssumption
    <3> QED
      BY <2>1, <2>2, <2>3, <2>4
  <2>6. ASSUME NEW i \in 0 .. Capacity - 1, i < heap'[buf].pos
        PROVE  heap'[buf].mem[i] = heap'[buf].origin + i + 1
    <3>1. CASE i < heap[buf].pos
      <4>1. heap'[buf].mem[i] = heap[buf].mem[i]
        <5>1. i \notin heap[buf].pos .. (heap[buf].pos + req.len - 1)
          <6> HIDE <1>0, Typed, MaxWriteAssumption
          <6> QED
            BY <2>2, <3>1
        <5> QED
          BY <1>1, <5>1
      <4> QED
        BY <2>1, <2>3, <3>1, <4>1 DEF Holds
    <3>2. CASE ~(i < heap[buf].pos)
      <4>1. heap'[buf].mem[i] = written + 1 + i - heap[buf].pos
        <5>1. i \in heap[buf].pos .. (heap[buf].pos + req.len - 1)
          <6> HIDE <1>0, Typed, MaxWriteAssumption
          <6> QED
            BY <2>2, <2>4, <2>6, <3>2
        <5> QED
          BY <1>1, <5>1
      <4> QED
        <5> HIDE <1>0, Typed, MaxWriteAssumption
        <5> QED
          BY <2>1, <2>2, <2>3, <4>1
    <3> QED
      BY <3>1, <3>2
  <2>7. lle <= heap'[buf].pos
    BY <2>2, <2>5
  <2> QED
    BY <1>1, <2>1, <2>3, <2>5, <2>6, <2>7 DEF FillingInv, Holds
<1>4. HandOverInv'
  BY <1>1 DEF HandOverInv, Holds, End, Actors
<1>5. PastInv'
  <2>1. \A c \in 1 .. Len(heap) - 1 : heap'[c].lim = heap[c].lim /\ heap'[c].mem = heap[c].mem
    <3>1. \A c \in 1 .. Len(heap) - 1 : c \in Buffers /\ c # buf
      OBVIOUS
    <3> QED
      BY <1>1, <3>1
  <2>2. Len(heap') = Len(heap) /\ ends \subseteq ends' /\ \A c \in Buffers : heap'[c].origin = heap[c].origin
    BY <1>1
  <2> QED
    BY <2>1, <2>2, KeepPast
<1>6. QueueInv'
  <2>1. ASSUME NEW b \in Buffers, Taken < b, b <= Submitted
        PROVE  heap'[b].pos = 0
    <3>1. b # buf
      BY <1>1, <2>1
    <3> QED
      BY <1>1, <2>1, <3>1 DEF QueueInv
  <2>2. saver.at = "taken" => heap'[saver.buf].lim = heap[saver.buf].lim
    BY <1>1 DEF QueueInv
  <2> QED
    BY <1>1, <2>1, <2>2 DEF QueueInv, Buffers, Actors
<1>7. FileInv'
  <2>1. Saved' = Saved
    BY <1>1, KeepSaved
  <2> QED
    BY <1>1, <2>1 DEF FileInv, Terminated, NoneOf
<1>8. InOrder'
  BY <1>1 DEF InOrder, NoneOf
<1>9. WholeLines'
  BY <1>1 DEF WholeLines, NoneOf
<1>10. OnlyLongLinesDisable'
  <2>1. ~disabled
    BY <1>1 DEF QuietInv
  <2> QED
    BY <1>1, <2>1 DEF OnlyLongLinesDisable
<1> QED
  BY <1>2, <1>3, <1>4, <1>5, <1>6, <1>7, <1>8, <1>9, <1>10

\* What ReadPosition changes: where the recording thread is, and what it has read.
LEMMA ReadPositionUpdates ==
  ASSUME TypeOK, ReadPosition
  PROVE  /\ pc["app"] = "mark" /\ pc'["app"] = "store" /\ pc'["hook"] = pc["hook"]
         /\ req'.part = req.part /\ req'.len = req.len /\ req'.end = heap[buf].pos
         /\ UNCHANGED <<heap, buf, lle, flushing, carry, disabled, pool, queue, saver, file,
                        closed, jvm, written, ends>>
         /\ UNCHANGED <<Submitted, Taken>>
<1>1. pc["app"] = "mark" /\ pc'["app"] = "store" /\ pc'["hook"] = pc["hook"]
  BY Goes DEF ReadPosition, Actors
<1>2. req'.part = req.part /\ req'.len = req.len /\ req'.end = heap[buf].pos
  BY DEF ReadPosition, TypeOK, ThreadsOK
<1>3. UNCHANGED <<heap, buf, lle, flushing, carry, disabled, pool, queue, saver, file, closed,
                  jvm, written, ends>>
  BY DEF ReadPosition, bufferVars, flushVars, saveVars, jvmVars, history
<1> QED
  BY <1>1, <1>2, <1>3 DEF Submitted, Taken

\* The position writeLineEnd reads is still that of the buffer when it remembers it.
LEMMA ReadPositionOrder ==
  ASSUME TypeOK, TypeOK', Orderly, Orderly', Order,
         ReadPosition
  PROVE  Order'
<1> USE CapacityAssumption, MaxWriteAssumption, Typed DEF Order
<1>0. Shape
  BY ShapeFromOrder
<1> USE <1>0 DEF Shape
<1>1. /\ jvm = "running" /\ pc["hook"] = "waiting" /\ pc'["hook"] = "waiting"
      /\ pc["app"] = "mark" /\ pc'["app"] = "store"
      /\ req'.part = req.part /\ req'.len = req.len /\ req'.end = heap[buf].pos
      /\ UNCHANGED <<heap, buf, lle, flushing, carry, disabled, pool, queue, saver, file,
                     closed, jvm, written, ends, met>>
      /\ ~Cut /\ ~Cut' /\ UNCHANGED <<Submitted, Taken>>
  <2>1. jvm = "running" /\ pc["hook"] = "waiting" /\ UNCHANGED met
    BY AppRunsOrderly DEF ReadPosition
  <2> QED
    BY <2>1, ReadPositionUpdates DEF Cut
<1>2. QuietInv'
  BY <1>1 DEF QuietInv, Recording
<1>3. FillingInv'
  BY <1>1 DEF FillingInv, Holds
<1>4. HandOverInv'
  BY <1>1 DEF HandOverInv, Holds, End, Actors
<1>5. PastInv'
  BY <1>1 DEF PastInv, End, Holds
<1>6. QueueInv'
  BY <1>1 DEF QueueInv, Buffers
<1>7. FileInv'
  BY <1>1 DEF FileInv, Saved, End, Terminated, NoneOf
<1>8. InOrder'
  BY <1>1 DEF InOrder, NoneOf
<1>9. WholeLines'
  BY <1>1 DEF WholeLines, NoneOf
<1>10. OnlyLongLinesDisable'
  BY <1>1 DEF OnlyLongLinesDisable, NoneOf, QuietInv
<1> QED
  BY <1>2, <1>3, <1>4, <1>5, <1>6, <1>7, <1>8, <1>9, <1>10

\* writeLineEnd moves lastLineEndPosition to the end of the stream so far.
LEMMA MarkLineEndOrder ==
  ASSUME TypeOK, TypeOK', Orderly, Orderly', Order,
         MarkLineEnd
  PROVE  Order'
<1> USE CapacityAssumption, MaxWriteAssumption, Typed DEF Order
<1>0. Shape
  BY ShapeFromOrder
<1> USE <1>0 DEF Shape
<1>1. /\ jvm = "running" /\ pc["hook"] = "waiting" /\ pc'["hook"] = "waiting"
      /\ pc["app"] = "store" /\ pc'["app"] = "ready"
      /\ lle' = heap[buf].pos /\ ends' = ends \union {written}
      /\ UNCHANGED <<heap, buf, req, flushing, carry, disabled, pool, queue, saver, file,
                     closed, jvm, written, met>>
      /\ ~Cut /\ ~Cut' /\ UNCHANGED <<Submitted, Taken>>
  <2>1. /\ jvm = "running" /\ pc["hook"] = "waiting" /\ pc'["hook"] = "waiting"
        /\ pc["app"] = "store" /\ pc'["app"] = "ready"
        /\ lle' = req.end /\ ends' = ends \union {written}
        /\ UNCHANGED <<heap, buf, req, flushing, carry, disabled, pool, queue, saver, file,
                       closed, jvm, written, met>>
    BY AppRunsOrderly, Goes
       DEF MarkLineEnd, Actors, flushVars, saveVars, jvmVars
  <2>2. ~Cut /\ ~Cut' /\ UNCHANGED <<Submitted, Taken>>
    BY <2>1 DEF Cut, Submitted, Taken
  <2>3. req.end = heap[buf].pos
    BY <2>1, <2>2 DEF FillingInv
  <2> QED
    BY <2>1, <2>2, <2>3
<1>2. QuietInv'
  BY <1>1 DEF QuietInv, Recording
<1>3. FillingInv'
  <2>1. heap[buf].lim = Capacity /\ heap[buf].origin + heap[buf].pos = written /\ Holds(buf, heap[buf].pos)
        /\ lle <= heap[buf].pos /\ \A e \in ends : e <= heap[buf].origin + lle
    BY <1>1 DEF FillingInv
  <2>2. heap[buf].pos \in Nat /\ heap[buf].origin \in Int /\ lle \in Nat /\ ends \subseteq Nat
    OBVIOUS
  <2>3. heap[buf].origin + lle' \in ends' /\ \A e \in ends' : e <= heap[buf].origin + lle'
    <3>1. heap[buf].origin + lle' = written /\ written \in ends' /\ written \in Nat
      BY <1>1, <2>1
    <3>2. ASSUME NEW e \in ends' PROVE e <= written
      <4>1. CASE e = written
        BY <3>1, <4>1
      <4>2. CASE e \in ends
        <5>1. e \in Nat /\ e <= heap[buf].origin + lle
          BY <2>1, <2>2, <4>2
        <5> HIDE <1>0, Typed, MaxWriteAssumption
        <5> QED
          BY <2>1, <2>2, <5>1
      <4> QED
        BY <1>1, <3>2, <4>1, <4>2
    <3> QED
      BY <3>1, <3>2
  <2> QED
    BY <1>1, <2>1, <2>2, <2>3 DEF FillingInv, Holds
<1>4. HandOverInv'
  BY <1>1 DEF HandOverInv, Holds, End, Actors
<1>5. PastInv'
  BY <1>1 DEF PastInv, End, Holds
<1>6. QueueInv'
  BY <1>1 DEF QueueInv, Buffers
<1>7. FileInv'
  BY <1>1 DEF FileInv, Saved, End, Terminated, NoneOf
<1>8. InOrder'
  BY <1>1 DEF InOrder, NoneOf
<1>9. WholeLines'
  BY <1>1 DEF WholeLines, NoneOf
<1>10. OnlyLongLinesDisable'
  BY <1>1 DEF OnlyLongLinesDisable, NoneOf, QuietInv
<1> QED
  BY <1>2, <1>3, <1>4, <1>5, <1>6, <1>7, <1>8, <1>9, <1>10

\* The write did not fit a buffer that starts with its line: the line is too long.
LEMMA OverflowOrder ==
  ASSUME TypeOK, TypeOK', Orderly, Orderly', Order,
         Overflow
  PROVE  Order'
<1> USE CapacityAssumption, MaxWriteAssumption, Typed DEF Order
<1>0. Shape
  BY ShapeFromOrder
<1> USE <1>0 DEF Shape
<1>1. /\ jvm = "running" /\ pc["hook"] = "waiting" /\ pc'["hook"] = "waiting"
      /\ pc["app"] = "put" /\ pc'["app"] = "ready"
      /\ req.len > Remaining(buf) /\ disabled' = TRUE
      /\ UNCHANGED <<heap, buf, lle, req, flushing, carry, pool, queue, saver, file, closed,
                     jvm, written, ends, met>>
      /\ ~Cut /\ ~Cut' /\ UNCHANGED <<Submitted, Taken>>
  BY AppRunsOrderly, Goes
     DEF Overflow, SwitchOff, Actors, Cut, Submitted, Taken, bufferVars, flushVars, saveVars,
         jvmVars, history
<1>2. QuietInv'
  BY <1>1 DEF QuietInv, Recording
<1>3. FillingInv'
  BY <1>1 DEF FillingInv, Holds, Remaining
<1>4. HandOverInv'
  BY <1>1 DEF HandOverInv, Holds, End, Actors
<1>5. PastInv'
  BY <1>1 DEF PastInv, End, Holds
<1>6. QueueInv'
  BY <1>1 DEF QueueInv, Buffers
<1>7. FileInv'
  BY <1>1 DEF FileInv, Saved, End, Terminated, NoneOf
<1>8. InOrder'
  BY <1>1 DEF InOrder, NoneOf
<1>9. WholeLines'
  BY <1>1 DEF WholeLines, NoneOf
<1>10. OnlyLongLinesDisable'
  <2>1. heap[buf].origin \in Nat /\ heap[buf].pos \in Nat
    BY Origins
  <2>2. /\ heap[buf].lim = Capacity /\ heap[buf].origin + heap[buf].pos = written
        /\ \A e \in ends : e <= heap[buf].origin + lle
        /\ lle = 0 /\ req.len > Capacity - heap[buf].pos
    BY SMTT(30), <1>1 DEF FillingInv, Remaining
  <2>3. \A e \in ends \union {0} : e \in Nat /\ e <= heap[buf].origin
    BY <2>1, <2>2
  <2>4. \A e \in ends \union {0} : written + req.len - e > Capacity
    <3>1. written \in Nat /\ req.len \in Nat
      OBVIOUS
    <3> HIDE <1>0, Typed, MaxWriteAssumption
    <3> QED
      BY <2>1, <2>2, <2>3, <3>1
  <2> QED
    BY <1>1, <2>4 DEF OnlyLongLinesDisable
<1> QED
  BY <1>2, <1>3, <1>4, <1>5, <1>6, <1>7, <1>8, <1>9, <1>10

\* The recording thread stops between two lines or switched off.
LEMMA AppEndsOrder ==
  ASSUME TypeOK, TypeOK', Orderly, Orderly', Order,
         AppEnds
  PROVE  Order'
<1> USE CapacityAssumption, MaxWriteAssumption, Typed DEF Order
<1>0. Shape
  BY ShapeFromOrder
<1> USE <1>0 DEF Shape
<1>1. /\ jvm = "running" /\ pc["hook"] = "waiting" /\ pc'["hook"] = "waiting"
      /\ pc["app"] = "ready" /\ pc'["app"] = "ended"
      /\ req.part = "newline" \/ disabled
      /\ UNCHANGED <<heap, buf, lle, req, flushing, carry, disabled, pool, queue, saver,
                     file, closed, jvm, written, ends, met>>
      /\ ~Cut /\ ~Cut' /\ UNCHANGED <<Submitted, Taken>>
  BY AppRunsOrderly, Goes
     DEF AppEnds, Actors, Cut, Submitted, Taken, bufferVars, flushVars, saveVars, jvmVars, history
<1>2. QuietInv'
  BY <1>1 DEF QuietInv, Recording
<1>3. FillingInv'
  BY <1>1 DEF FillingInv, Holds, Remaining
<1>4. HandOverInv'
  BY <1>1 DEF HandOverInv, Holds, End, Actors
<1>5. PastInv'
  BY <1>1 DEF PastInv, End, Holds
<1>6. QueueInv'
  BY <1>1 DEF QueueInv, Buffers
<1>7. FileInv'
  BY <1>1 DEF FileInv, Saved, End, Terminated, NoneOf
<1>8. InOrder'
  BY <1>1 DEF InOrder, NoneOf
<1>9. WholeLines'
  BY <1>1 DEF WholeLines, NoneOf
<1>10. OnlyLongLinesDisable'
  BY <1>1 DEF OnlyLongLinesDisable, NoneOf
<1> QED
  BY <1>2, <1>3, <1>4, <1>5, <1>6, <1>7, <1>8, <1>9, <1>10

\* From here on the current buffer is cut at its last line end.
LEMMA LimitOrder ==
  ASSUME TypeOK, TypeOK', Orderly, Orderly', Order,
         NEW a \in Actors, Limit(a)
  PROVE  Order'
<1> USE CapacityAssumption, MaxWriteAssumption, Typed DEF Order
<1>0. Shape
  BY ShapeFromOrder
<1> USE <1>0 DEF Shape
<1>1. /\ \/ a = "app" /\ pc["hook"] = "waiting"
         \/ a = "hook" /\ pc["app"] \in {"ready", "ended"} /\ jvm # "running"
      /\ pc[a] = "limit" /\ pc'[a] = "flip"
      /\ \A c \in Actors : c # a => pc'[c] = pc[c]
      /\ Len(heap') = Len(heap) /\ \A c \in Buffers : c # buf => heap'[c] = heap[c]
      /\ heap'[buf].lim = lle /\ heap'[buf].pos = lle /\ heap'[buf].origin = heap[buf].origin
      /\ heap'[buf].mem = heap[buf].mem
      /\ flushing[a] = buf /\ UNCHANGED flushing
      /\ Len(carry'[a]) = heap[buf].pos - lle
      /\ \A i \in 1 .. Len(carry'[a]) : carry'[a][i] = heap[buf].origin + lle + i
      /\ UNCHANGED <<buf, lle, req, disabled, pool, queue, saver, file, closed, jvm, written,
                     ends, met>>
      /\ ~Cut /\ Cut'
      /\ UNCHANGED <<Submitted, Taken>>
  <2>1. pc[a] = "limit" /\ pc'[a] = "flip" /\ \A c \in Actors : c # a => pc'[c] = pc[c]
    BY Goes DEF Limit
  <2>2. /\ \/ a = "app" /\ pc["hook"] = "waiting"
           \/ a = "hook" /\ pc["app"] \in {"ready", "ended"} /\ jvm # "running"
        /\ UNCHANGED met
    BY <2>1, FlusherOrderly DEF Limit, FlushPlaces
  <2>3. ~Cut /\ Submitted = Len(heap) - 1 /\ lle <= heap[buf].pos
    BY <2>1, <2>2 DEF Actors, Cut, Submitted, FillingInv
  <2>8. flushing[a] = buf
    BY <2>1 DEF HandOverInv
  <2>4. UNCHANGED <<buf, lle, req, disabled, pool, queue, saver, file, closed, jvm, written, ends>>
    BY DEF Limit, saveVars, jvmVars, history
  <2>5. /\ Len(heap') = Len(heap) /\ \A c \in Buffers : c # buf => heap'[c] = heap[c]
        /\ heap'[buf].lim = lle /\ heap'[buf].pos = lle /\ heap'[buf].origin = heap[buf].origin
        /\ heap'[buf].mem = heap[buf].mem
        /\ UNCHANGED flushing
        /\ Len(carry'[a]) = heap[buf].pos - lle
        /\ \A i \in 1 .. Len(carry'[a]) : carry'[a][i] = heap[buf].mem[lle + i - 1]
    BY <2>3, <2>8, LimitUpdates
  <2>6. \A i \in 1 .. heap[buf].pos - lle : heap[buf].mem[lle + i - 1] = heap[buf].origin + lle + i
    <3>1. Holds(buf, heap[buf].pos) /\ heap[buf].pos \in 0 .. Capacity /\ heap[buf].origin \in Int
          /\ lle \in Nat
      BY <2>3 DEF FillingInv
    <3>2. ASSUME NEW i \in 1 .. heap[buf].pos - lle
          PROVE  heap[buf].mem[lle + i - 1] = heap[buf].origin + lle + i
      <4>1. lle + i - 1 \in 0 .. Capacity - 1 /\ lle + i - 1 < heap[buf].pos
        <5> HIDE <1>0, Typed, MaxWriteAssumption
        <5> QED
          BY <3>1
      <4>2. heap[buf].mem[lle + i - 1] = heap[buf].origin + (lle + i - 1) + 1
        BY <3>1, <4>1 DEF Holds
      <4> QED
        BY <3>1, <4>2
    <3> QED
      BY <3>2
  <2>7. Cut' /\ Submitted' = Submitted /\ Taken' = Taken
    BY <2>1, <2>2, <2>3, <2>4, <2>5 DEF Actors, Cut, Submitted, Taken
  <2> QED
    BY <2>1, <2>2, <2>3, <2>4, <2>5, <2>6, <2>7, <2>8
<1>2. QuietInv'
  BY <1>1 DEF QuietInv, Recording, Actors
<1>3. FillingInv'
  BY <1>1 DEF FillingInv, Holds, Remaining, Actors
<1>4. HandOverInv'
  <2>1. heap'[buf].origin + heap'[buf].lim = heap[buf].origin + lle
        /\ heap[buf].origin + lle \in ends \union {0} /\ \A e \in ends : e <= heap[buf].origin + lle
    BY <1>1 DEF FillingInv
  <2>2. \A i \in 0 .. Capacity - 1 : i < heap'[buf].lim => heap'[buf].mem[i] = heap'[buf].origin + i + 1
    BY <1>1 DEF FillingInv, Holds
  <2>3. \A c \in Actors : pc'[c] \in {"flip", "submit", "renew"} => c = a
    BY <1>1 DEF Actors, Cut
  <2>4. pc'["app"] \in {"flip", "submit", "renew"} =>
          /\ heap'[buf].origin + heap'[buf].lim + Len(carry'["app"]) = written
          /\ \A i \in 1 .. Len(carry'["app"]) :
               carry'["app"][i] = heap'[buf].origin + heap'[buf].lim + i
    <3> SUFFICES ASSUME a = "app"
                 PROVE  /\ heap[buf].origin + lle + Len(carry'["app"]) = written
                        /\ \A i \in 1 .. Len(carry'["app"]) : carry'["app"][i] = heap[buf].origin + lle + i
      BY <2>1, <2>3 DEF Actors
    <3>1. heap[buf].origin + heap[buf].pos = written /\ heap[buf].pos \in Nat /\ heap[buf].origin \in Int
          /\ lle \in Nat
      BY <1>1 DEF FillingInv
    <3> QED
      BY SMTT(30), <1>1, <3>1
  <2> QED
    BY <1>1, <2>1, <2>2, <2>3, <2>4 DEF HandOverInv, End, Holds
<1>5. PastInv'
  <2>1. \A c \in Buffers : heap'[c].origin = heap[c].origin
    BY <1>1
  <2>2. \A c \in 1 .. Len(heap) - 1 : heap'[c].lim = heap[c].lim /\ heap'[c].mem = heap[c].mem
    <3>1. \A c \in 1 .. Len(heap) - 1 : c \in Buffers /\ c # buf
      OBVIOUS
    <3> QED
      BY <1>1, <3>1
  <2> QED
    BY <1>1, <2>1, <2>2, KeepPast
<1>6. QueueInv'
  <2>1. \A b \in Buffers : Taken < b /\ b <= Submitted => b # buf /\ heap'[b].pos = 0
    BY SMTT(30), <1>1 DEF QueueInv
  <2>2. saver.at = "taken" => saver.buf # buf /\ saver.buf \in Buffers
    BY <1>1 DEF QueueInv
  <2>3. pc'["app"] # "submit" /\ pc'["hook"] # "submit"
    BY <1>1 DEF Actors, Cut
  <2> QED
    BY <1>1, <2>1, <2>2, <2>3 DEF QueueInv, Buffers
<1>7. FileInv'
  <2>1. Taken # 0 => Taken \in Buffers /\ Taken # buf
    BY <1>1
  <2>2. Saved' = Saved
    BY <1>1, <2>1, KeepSaved
  <2> QED
    BY <1>1, <2>2 DEF FileInv, Terminated, NoneOf, Actors
<1>8. InOrder'
  BY <1>1 DEF InOrder, NoneOf
<1>9. WholeLines'
  BY <1>1 DEF WholeLines, NoneOf
<1>10. OnlyLongLinesDisable'
  BY <1>1 DEF OnlyLongLinesDisable, NoneOf
<1> QED
  BY <1>2, <1>3, <1>4, <1>5, <1>6, <1>7, <1>8, <1>9, <1>10

\* The cut buffer is made ready for the writer, from its beginning.
LEMMA FlipOrder ==
  ASSUME TypeOK, TypeOK', Orderly, Orderly', Order,
         NEW a \in Actors, Flip(a)
  PROVE  Order'
<1> USE CapacityAssumption, MaxWriteAssumption, Typed DEF Order
<1>0. Shape
  BY ShapeFromOrder
<1> USE <1>0 DEF Shape
<1>1. /\ \/ a = "app" /\ pc["hook"] = "waiting"
         \/ a = "hook" /\ pc["app"] \in {"ready", "ended"} /\ jvm # "running"
      /\ pc[a] = "flip" /\ pc'[a] = "submit"
      /\ \A c \in Actors : c # a => pc'[c] = pc[c]
      /\ Len(heap') = Len(heap) /\ \A c \in Buffers : c # buf => heap'[c] = heap[c]
      /\ heap'[buf].lim = heap[buf].lim /\ heap'[buf].pos = 0 /\ heap'[buf].origin = heap[buf].origin
      /\ heap'[buf].mem = heap[buf].mem
      /\ UNCHANGED <<buf, lle, req, flushing, carry, disabled, pool, queue, saver, file,
                     closed, jvm, written, ends, met>>
      /\ Cut /\ Cut'
      /\ UNCHANGED <<Submitted, Taken>>
  <2>1. pc[a] = "flip" /\ pc'[a] = "submit" /\ \A c \in Actors : c # a => pc'[c] = pc[c]
    BY Goes DEF Flip
  <2>2. /\ \/ a = "app" /\ pc["hook"] = "waiting"
           \/ a = "hook" /\ pc["app"] \in {"ready", "ended"} /\ jvm # "running"
        /\ UNCHANGED met
    BY <2>1, FlusherOrderly DEF Flip, FlushPlaces
  <2>3. flushing[a] = buf /\ heap[buf].pos = heap[buf].lim
    BY <2>1 DEF HandOverInv
  <2>4. UNCHANGED <<buf, lle, req, flushing, carry, disabled, pool, queue, saver, file, closed,
                    jvm, written, ends>>
    BY DEF Flip, flushVars, saveVars, jvmVars, history
  <2>5. /\ Len(heap') = Len(heap) /\ \A c \in Buffers : c # buf => heap'[c] = heap[c]
        /\ heap'[buf].lim = heap[buf].lim /\ heap'[buf].pos = 0 /\ heap'[buf].origin = heap[buf].origin
        /\ heap'[buf].mem = heap[buf].mem
    BY <2>3, FlipUpdates
  <2>6. Cut /\ Cut' /\ Submitted = Len(heap) - 1 /\ Submitted' = Submitted /\ Taken' = Taken
    BY <2>1, <2>2, <2>4, <2>5 DEF Actors, Cut, Submitted, Taken
  <2> QED
    BY <2>1, <2>2, <2>3, <2>4, <2>5, <2>6
<1>2. QuietInv'
  BY <1>1 DEF QuietInv, Recording, Actors
<1>3. FillingInv'
  BY <1>1 DEF FillingInv, Holds, Remaining, Actors
<1>4. HandOverInv'
  <2>1. heap'[buf].origin + heap'[buf].lim = End(buf) /\ End(buf) \in ends \union {0}
        /\ \A e \in ends : e <= End(buf)
    BY <1>1 DEF HandOverInv, End
  <2>2. \A i \in 0 .. Capacity - 1 : i < heap'[buf].lim => heap'[buf].mem[i] = heap'[buf].origin + i + 1
    <3>1. heap'[buf].lim = heap[buf].lim /\ heap'[buf].mem = heap[buf].mem /\ heap'[buf].origin = heap[buf].origin
      BY <1>1
    <3>2. \A i \in 0 .. Capacity - 1 : i < heap[buf].lim => heap[buf].mem[i] = heap[buf].origin + i + 1
      <4>1. Cut
        BY <1>1
      <4> QED
        BY <4>1 DEF HandOverInv, Holds
    <3> HIDE <1>0, Typed
    <3> QED
      BY <3>1, <3>2
  <2>3. \A c \in Actors : /\ pc'[c] \in {"flip", "submit", "renew"} => c = a
                          /\ pc'[c] # "flip"
    BY <1>1, HookOrderly DEF Actors, QuietInv
  <2>4. pc'["app"] \in {"flip", "submit", "renew"} =>
          /\ End(buf) + Len(carry["app"]) = written
          /\ \A i \in 1 .. Len(carry["app"]) : carry["app"][i] = End(buf) + i
    BY <1>1, <2>3 DEF HandOverInv, Actors
  <2>5. flushing[a] = buf
    BY <1>1 DEF HandOverInv
  <2> QED
    BY ZenonT(60), <1>1, <2>1, <2>2, <2>3, <2>4, <2>5 DEF HandOverInv, End, Holds
<1>5. PastInv'
  <2>1. \A c \in Buffers : heap'[c].origin = heap[c].origin
    BY <1>1
  <2>2. \A c \in 1 .. Len(heap) - 1 : heap'[c].lim = heap[c].lim /\ heap'[c].mem = heap[c].mem
    <3>1. \A c \in 1 .. Len(heap) - 1 : c \in Buffers /\ c # buf
      OBVIOUS
    <3> QED
      BY <1>1, <3>1
  <2> QED
    BY <1>1, <2>1, <2>2, KeepPast
<1>6. QueueInv'
  <2>1. \A b \in Buffers : Taken < b /\ b <= Submitted => heap'[b].pos = 0
    BY SMTT(30), <1>1 DEF QueueInv
  <2>2. saver.at = "taken" => saver.buf \in Buffers /\ heap'[saver.buf].lim = heap[saver.buf].lim
    BY <1>1 DEF QueueInv
  <2> QED
    BY <1>1, <2>1, <2>2 DEF QueueInv, Buffers
<1>7. FileInv'
  <2>1. Taken # 0 => Taken \in Buffers
    BY <1>1
  <2>2. Saved' = Saved
    BY <1>1, <2>1, KeepSaved
  <2> QED
    BY <1>1, <2>2 DEF FileInv, Terminated, NoneOf, Actors
<1>8. InOrder'
  BY <1>1 DEF InOrder, NoneOf
<1>9. WholeLines'
  BY <1>1 DEF WholeLines, NoneOf
<1>10. OnlyLongLinesDisable'
  BY <1>1 DEF OnlyLongLinesDisable, NoneOf
<1> QED
  BY <1>2, <1>3, <1>4, <1>5, <1>6, <1>7, <1>8, <1>9, <1>10

\* The cut buffer joins the end of the queue.
LEMMA SubmitOrder ==
  ASSUME TypeOK, TypeOK', Orderly, Orderly', Order,
         NEW a \in Actors, Submit(a)
  PROVE  Order'
<1> USE CapacityAssumption, MaxWriteAssumption, Typed DEF Order
<1>0. Shape
  BY ShapeFromOrder
<1> USE <1>0 DEF Shape
<1>1. /\ \/ a = "app" /\ pc["hook"] = "waiting"
         \/ a = "hook" /\ pc["app"] \in {"ready", "ended"} /\ jvm # "running"
      /\ pc[a] = "submit" /\ pc'[a] = "renew"
      /\ \A c \in Actors : c # a => pc'[c] = pc[c]
      /\ pool = "running" /\ Len(queue') = Len(queue) + 1
      /\ \A k \in 1 .. Len(queue) : queue'[k] = queue[k]
      /\ queue'[Len(queue) + 1] = buf
      /\ saver'.at = (IF saver.at = "none" THEN "idle" ELSE saver.at)
      /\ saver'.buf = saver.buf /\ saver'.from = saver.from /\ saver'.to = saver.to
      /\ UNCHANGED <<heap, buf, lle, req, flushing, carry, disabled, pool, file, closed, jvm,
                     written, ends, met>>
      /\ Cut /\ Cut'
      /\ Submitted = Len(heap) - 1 /\ Submitted' = Len(heap) /\ Taken' = Taken
  <2>1. pc[a] = "submit" /\ pc'[a] = "renew" /\ \A c \in Actors : c # a => pc'[c] = pc[c]
    BY Goes DEF Submit
  <2>2. /\ \/ a = "app" /\ pc["hook"] = "waiting"
           \/ a = "hook" /\ pc["app"] \in {"ready", "ended"} /\ jvm # "running"
        /\ UNCHANGED met
    BY <2>1, FlusherOrderly DEF Submit, FlushPlaces
  <2>3. flushing[a] = buf
    BY <2>1 DEF HandOverInv
  <2>4. UNCHANGED <<heap, buf, lle, req, flushing, carry, disabled, pool, file, closed, jvm,
                    written, ends>>
        /\ pool = "running"
    BY DEF Submit, bufferVars, flushVars, jvmVars, history
  <2>5. Len(queue') = Len(queue) + 1 /\ queue'[Len(queue) + 1] = buf
        /\ \A k \in 1 .. Len(queue) : queue'[k] = queue[k]
    BY <2>3, AppendProperties DEF Submit, TypeOK, SaveOK
  <2>6. /\ saver'.at = (IF saver.at = "none" THEN "idle" ELSE saver.at)
        /\ saver'.buf = saver.buf /\ saver'.from = saver.from /\ saver'.to = saver.to
    BY DEF Submit, TypeOK, SaveOK
  <2>7. Cut /\ Cut' /\ Submitted = Len(heap) - 1 /\ Submitted' = Len(heap)
    BY <2>1, <2>2, <2>4 DEF Actors, Cut, Submitted
  <2>8. Taken' = Taken
    BY <2>5, <2>7, Typed DEF Taken
  <2> QED
    BY <2>1, <2>2, <2>4, <2>5, <2>6, <2>7, <2>8
<1>2. QuietInv'
  BY <1>1 DEF QuietInv, Recording, Actors
<1>3. FillingInv'
  <2>1. pc'["app"] # "put"
    BY <1>1 DEF Actors
  <2> QED
    BY <1>1, <2>1 DEF FillingInv
<1>4. HandOverInv'
  BY <1>1 DEF HandOverInv, Holds, End, Actors, Actors
<1>5. PastInv'
  BY <1>1 DEF PastInv, End, Holds
<1>6. QueueInv'
  <2>1. heap[buf].pos = 0
    BY <1>1 DEF QueueInv, Actors
  <2>2. \A k \in 1 .. Len(queue') : queue'[k] = Taken + k
    <3>1. Taken + Len(queue) + 1 = buf
      BY <1>1, Typed DEF Taken
    <3>2. \A k \in 1 .. Len(queue) : queue'[k] = Taken + k
      BY <1>1 DEF QueueInv
    <3>3. queue'[Len(queue) + 1] = Taken + (Len(queue) + 1)
      <4>1. queue'[Len(queue) + 1] = buf
        BY <1>1
      <4>2. Taken \in Nat /\ Len(queue) \in Nat
        OBVIOUS
      <4> HIDE <1>0, Typed, MaxWriteAssumption
      <4> QED
        BY <3>1, <4>1, <4>2
    <3>4. \A k \in 1 .. Len(queue') : k \in 1 .. Len(queue) \/ k = Len(queue) + 1
      BY <1>1, Typed
    <3> QED
      BY <3>2, <3>3, <3>4
  <2>3. \A b \in Buffers : Taken < b /\ b <= Submitted' => heap[b].pos = 0
    BY <1>1, <2>1 DEF QueueInv
  <2>4. pc'["app"] # "submit" /\ pc'["hook"] # "submit"
    BY <1>1, HookOrderly DEF Actors, QuietInv
  <2> QED
    BY <1>1, <2>2, <2>3, <2>4 DEF QueueInv, Buffers
<1>7. FileInv'
  <2>1. Saved' = Saved
    BY <1>1 DEF Saved, End
  <2>2. pc'["hook"] \notin {"close", "done"} /\ (closed => pc["hook"] = "done")
    BY <1>1 DEF FileInv, Actors
  <2> QED
    BY <1>1, <2>1, <2>2 DEF FileInv, NoneOf, Actors
<1>8. InOrder'
  BY <1>1 DEF InOrder, NoneOf
<1>9. WholeLines'
  BY <1>1 DEF WholeLines, NoneOf
<1>10. OnlyLongLinesDisable'
  BY <1>1 DEF OnlyLongLinesDisable, NoneOf
<1> QED
  BY <1>2, <1>3, <1>4, <1>5, <1>6, <1>7, <1>8, <1>9, <1>10

\* The next buffer begins with the unfinished line, where the cut one ends.
LEMMA RenewAppOrder ==
  ASSUME TypeOK, TypeOK', Orderly, Orderly', Order,
         Renew("app")
  PROVE  Order'
<1> USE CapacityAssumption, MaxWriteAssumption, Typed DEF Order
<1>0. Shape
  BY ShapeFromOrder
<1> USE <1>0 DEF Shape
<1>1. /\ pc["hook"] = "waiting" /\ pc'["hook"] = "waiting"
      /\ pc["app"] = "renew" /\ pc'["app"] = "put"
      /\ Len(heap') = Len(heap) + 1 /\ buf' = Len(heap) + 1
      /\ \A c \in Buffers : heap'[c] = heap[c]
      /\ heap'[buf'].lim = Capacity /\ heap'[buf'].pos = Len(carry["app"])
      /\ heap'[buf'].origin = written - Len(carry["app"])
      /\ \A i \in 0 .. Capacity - 1 : i < Len(carry["app"]) => heap'[buf'].mem[i] = carry["app"][i + 1]
      /\ Len(carry["app"]) \in 0 .. Capacity
      /\ lle' = 0
      /\ UNCHANGED <<req, flushing, carry, disabled, pool, queue, saver, file, closed, jvm,
                     written, ends, met>>
      /\ Submitted = Len(heap) /\ Submitted' = Len(heap) /\ Taken' = Taken /\ Cut /\ ~Cut'
  <2>1. Goto("app", "renew", "put") /\ FlusherRuns("app")
    BY DEF Renew
  <2>2. pc["app"] = "renew" /\ pc'["app"] = "put" /\ pc["hook"] = "waiting" /\ pc'["hook"] = "waiting"
        /\ UNCHANGED met
    BY <2>1, FlusherOrderly, Goes DEF Actors, FlushPlaces
  <2>3. Submitted = Len(heap) /\ Submitted' = Len(heap) /\ Taken' = Taken /\ Cut /\ ~Cut'
    BY <2>2, RenewUpdates DEF Renew, saveVars, Cut, Submitted, Taken
  <2> QED
    BY <2>2, <2>3, RenewUpdates DEF Renew, flushVars, saveVars, jvmVars, history
<1>2. QuietInv'
  BY <1>1 DEF QuietInv, Recording
<1>3. FillingInv'
  <2>1. /\ End(buf) + Len(carry["app"]) = written /\ End(buf) \in ends \union {0}
        /\ End(buf) \in Int /\ \A e \in ends : e <= End(buf)
        /\ \A i \in 1 .. Len(carry["app"]) : carry["app"][i] = End(buf) + i
    <3>1. End(buf) \in Int
      BY DEF End
    <3>2. /\ End(buf) + Len(carry["app"]) = written /\ End(buf) \in ends \union {0}
          /\ \A e \in ends : e <= End(buf)
          /\ \A i \in 1 .. Len(carry["app"]) : carry["app"][i] = End(buf) + i
      <4>1. Cut /\ pc["app"] = "renew"
        BY <1>1
      <4> HIDE <1>0, Typed, MaxWriteAssumption, CapacityAssumption
      <4> QED
        BY <4>1 DEF HandOverInv
    <3> QED
      BY <3>1, <3>2
  <2>2. heap'[buf'].origin = End(buf) /\ heap'[buf'].origin + heap'[buf'].pos = written
    BY SMTT(30), <1>1, <2>1 DEF End
  <2>3. \A i \in 0 .. Capacity - 1 : i < heap'[buf'].pos => heap'[buf'].mem[i] = heap'[buf'].origin + i + 1
    <3>1. ASSUME NEW i \in 0 .. Capacity - 1, i < heap'[buf'].pos
          PROVE  heap'[buf'].mem[i] = heap'[buf'].origin + i + 1
      <4>1. i + 1 \in 1 .. Len(carry["app"]) /\ heap'[buf'].mem[i] = carry["app"][i + 1]
        <5>1. i < Len(carry["app"]) /\ Len(carry["app"]) \in Nat /\ i \in Nat
          BY <1>1, <3>1
        <5>2. heap'[buf'].mem[i] = carry["app"][i + 1]
          BY <1>1, <5>1
        <5> HIDE <1>0, Typed, MaxWriteAssumption
        <5> QED
          BY <5>1, <5>2
      <4> QED
        <5>1. carry["app"][i + 1] = End(buf) + (i + 1)
          BY <2>1, <4>1
        <5> HIDE <1>0, Typed, MaxWriteAssumption
        <5> QED
          BY <2>1, <2>2, <4>1, <5>1
    <3> QED
      BY <3>1
  <2>4. pc'["app"] = "put" /\ lle' = 0 /\ lle' <= heap'[buf'].pos
    BY <1>1
  <2>5. heap'[buf'].origin + lle' = End(buf)
    BY <2>1, <2>2, <2>4
  <2>6. heap'[buf'].lim = Capacity /\ buf' = Len(heap') /\ ends' = ends /\ written' = written
    BY <1>1
  <2> QED
    BY <2>1, <2>2, <2>3, <2>4, <2>5, <2>6 DEF FillingInv, Holds
<1>4. HandOverInv'
  BY <1>1 DEF HandOverInv, Holds, End, Actors
<1>5. PastInv'
  <2>1. End(buf) + Len(carry["app"]) = written /\ End(buf) \in ends \union {0} /\ Holds(buf, heap[buf].lim)
        /\ End(buf) \in Int
    BY <1>1 DEF HandOverInv, End
  <2>2. heap'[1].origin = 0
    BY <1>1 DEF PastInv
  <2>3. ASSUME NEW b \in 1 .. Len(heap') - 1
        PROVE  /\ heap'[b + 1].origin = heap'[b].origin + heap'[b].lim
               /\ heap'[b].origin + heap'[b].lim \in ends' \union {0}
               /\ \A i \in 0 .. Capacity - 1 :
                    i < heap'[b].lim => heap'[b].mem[i] = heap'[b].origin + i + 1
    <3>1. b \in Buffers /\ heap'[b] = heap[b]
      BY <1>1
    <3>2. CASE b = buf
      <4>1. heap'[b + 1].origin = End(buf)
        <5>1. b + 1 = buf' /\ heap'[buf'].origin = written - Len(carry["app"])
          BY <1>1, <3>2
        <5>2. written \in Nat /\ Len(carry["app"]) \in Nat
          BY <1>1
        <5> HIDE <1>0, Typed, MaxWriteAssumption
        <5> QED
          BY <2>1, <5>1, <5>2
      <4> QED
        BY <1>1, <2>1, <3>1, <3>2, <4>1 DEF End, Holds
    <3>3. CASE b # buf
      <4>1. b \in 1 .. Len(heap) - 1 /\ b + 1 \in Buffers /\ heap'[b + 1] = heap[b + 1]
        BY SMTT(30), <1>1, <3>1, <3>3
      <4> QED
        BY SMTT(30), <1>1, <3>1, <4>1 DEF PastInv, End, Holds
    <3> QED
      BY <3>2, <3>3
  <2> QED
    BY <2>2, <2>3 DEF PastInv, End, Holds
<1>6. QueueInv'
  <2>1. \A b \in Buffers : Taken < b /\ b <= Submitted => heap'[b].pos = 0
    BY <1>1 DEF QueueInv
  <2>2. saver.at = "taken" => saver.buf \in Buffers /\ heap'[saver.buf].lim = heap[saver.buf].lim
    BY <1>1 DEF QueueInv
  <2>3. \A b \in 1 .. Len(heap') : b <= Submitted => b \in Buffers
    BY <1>1
  <2> QED
    BY <1>1, <2>1, <2>2, <2>3 DEF QueueInv, Buffers
<1>7. FileInv'
  <2>1. Taken # 0 => Taken \in Buffers
    BY <1>1
  <2>2. Saved' = Saved
    BY <1>1, <2>1, KeepSaved
  <2> QED
    BY <1>1, <2>2 DEF FileInv, Terminated, NoneOf
<1>8. InOrder'
  BY <1>1 DEF InOrder, NoneOf
<1>9. WholeLines'
  BY <1>1 DEF WholeLines, NoneOf
<1>10. OnlyLongLinesDisable'
  BY <1>1 DEF OnlyLongLinesDisable, NoneOf
<1> QED
  BY <1>2, <1>3, <1>4, <1>5, <1>6, <1>7, <1>8, <1>9, <1>10

\* The hook needs no new buffer.
LEMMA RenewHookOrder ==
  ASSUME TypeOK, TypeOK', Orderly, Orderly', Order,
         Renew("hook")
  PROVE  Order'
<1> USE CapacityAssumption, MaxWriteAssumption, Typed DEF Order
<1>0. Shape
  BY ShapeFromOrder
<1> USE <1>0 DEF Shape
<1>1. /\ pc["app"] \in {"ready", "ended"} /\ pc'["app"] = pc["app"] /\ jvm # "running"
      /\ pc["hook"] = "renew" /\ pc'["hook"] = "stop"
      /\ lle' = 0
      /\ UNCHANGED <<heap, buf, req, flushing, carry, disabled, pool, queue, saver, file,
                     closed, jvm, written, ends, met>>
      /\ Submitted = Len(heap) /\ Cut /\ Cut'
      /\ UNCHANGED <<Submitted, Taken>>
  <2>1. Goto("hook", "renew", "stop") /\ FlusherRuns("hook")
    BY DEF Renew
  <2>2. pc["app"] \in {"ready", "ended"} /\ pc'["app"] = pc["app"] /\ jvm # "running"
        /\ pc["hook"] = "renew" /\ pc'["hook"] = "stop" /\ UNCHANGED met
    BY <2>1, FlusherOrderly, Goes DEF Actors, FlushPlaces
  <2> QED
    BY <2>2 DEF Renew, Cut, Submitted, Taken, flushVars, saveVars, jvmVars, history
<1>2. QuietInv'
  BY <1>1 DEF QuietInv, Recording
<1>3. FillingInv'
  BY <1>1 DEF FillingInv, Holds, Remaining
<1>4. HandOverInv'
  BY <1>1 DEF HandOverInv, Holds, End, Actors, Actors
<1>5. PastInv'
  BY <1>1 DEF PastInv, End, Holds
<1>6. QueueInv'
  BY <1>1 DEF QueueInv, Buffers
<1>7. FileInv'
  BY <1>1 DEF FileInv, Saved, End, Terminated, NoneOf
<1>8. InOrder'
  BY <1>1 DEF InOrder, NoneOf
<1>9. WholeLines'
  BY <1>1 DEF WholeLines, NoneOf
<1>10. OnlyLongLinesDisable'
  BY <1>1 DEF OnlyLongLinesDisable, NoneOf
<1> QED
  BY <1>2, <1>3, <1>4, <1>5, <1>6, <1>7, <1>8, <1>9, <1>10

\* The writer takes the buffer that follows the ones it has saved.
LEMMA TakeOrder ==
  ASSUME TypeOK, TypeOK', Orderly, Orderly', Order,
         Take
  PROVE  Order'
<1> USE CapacityAssumption, MaxWriteAssumption, Typed DEF Order
<1>0. Shape
  BY ShapeFromOrder
<1> USE <1>0 DEF Shape
<1>1. /\ UNCHANGED <<heap, buf, lle, pc, req, flushing, carry, disabled, pool, file, closed,
                     jvm, written, ends, met>>
      /\ Len(queue) # 0 /\ Len(queue') = Len(queue) - 1
      /\ \A k \in 1 .. Len(queue') : queue'[k] = queue[k + 1]
      /\ saver.at = "idle" /\ saver'.at = "taken" /\ saver'.buf = Taken + 1
      /\ saver'.from = heap[Taken + 1].pos /\ saver'.to = heap[Taken + 1].lim
      /\ UNCHANGED <<Cut,
                     Submitted>> /\ Taken' = Taken + 1 /\ Taken + 1 \in Buffers /\ Taken + 1 <= Submitted
  <2>1. queue # <<>> /\ Len(queue) # 0 /\ Len(queue') = Len(queue) - 1 /\ Head(queue) = queue[1]
        /\ \A k \in 1 .. Len(queue') : queue'[k] = queue[k + 1]
    BY HeadTailProperties, EmptySeq DEF Take, TypeOK, SaveOK
  <2>2. Taken + 1 <= Submitted /\ Taken + 1 \in Buffers /\ queue[1] = Taken + 1
    BY SMTT(30), <2>1 DEF QueueInv, Taken
  <2>3. UNCHANGED <<Cut, Submitted>> /\ Taken' = Taken + 1
    BY <2>1 DEF Take, bufferVars, Cut, Submitted, Taken
  <2> QED
    BY <2>1, <2>2, <2>3 DEF Take, SaverIs, bufferVars, flushVars, jvmVars, history
<1>2. QuietInv'
  BY <1>1 DEF QuietInv, Recording
<1>3. FillingInv'
  BY <1>1 DEF FillingInv, Holds, Remaining
<1>4. HandOverInv'
  BY <1>1 DEF HandOverInv, Holds, End, Actors
<1>5. PastInv'
  BY <1>1 DEF PastInv, End, Holds
<1>6. QueueInv'
  <2>1. \A k \in 1 .. Len(queue') : queue'[k] = Taken' + k
    BY <1>1, Typed DEF QueueInv
  <2>2. heap[Taken + 1].pos = 0
    BY <1>1 DEF QueueInv
  <2> QED
    BY <1>1, <2>1, <2>2 DEF QueueInv, Buffers
<1>7. FileInv'
  <2>1. ~Terminated
    BY <1>1, QueueLength DEF Terminated
  <2>2. Saved' = heap[Taken + 1].origin
    BY <1>1 DEF Saved
  <2>3. heap[Taken + 1].origin = Saved
    <3>1. CASE Taken = 0
      BY <3>1 DEF Saved, PastInv
    <3>2. CASE Taken # 0
      BY <1>1, <3>2 DEF Saved, PastInv
    <3> QED
      BY <3>1, <3>2
  <2> QED
    BY <1>1, <2>1, <2>2, <2>3 DEF FileInv, NoneOf
<1>8. InOrder'
  BY <1>1 DEF InOrder, NoneOf
<1>9. WholeLines'
  BY <1>1 DEF WholeLines, NoneOf
<1>10. OnlyLongLinesDisable'
  BY <1>1 DEF OnlyLongLinesDisable, NoneOf
<1> QED
  BY <1>2, <1>3, <1>4, <1>5, <1>6, <1>7, <1>8, <1>9, <1>10

\* The file goes on where it ends, up to a line end unless the write is short.
LEMMA WriteOrder ==
  ASSUME TypeOK, TypeOK', Orderly, Orderly', Order,
         WriteAll \/ WriteShort
  PROVE  Order'
<1> USE CapacityAssumption, MaxWriteAssumption, Typed DEF Order
<1>0. Shape
  BY ShapeFromOrder
<1> USE <1>0 DEF Shape
<1>1. /\ UNCHANGED <<heap, buf, lle, pc, req, flushing, carry, disabled, pool, queue, closed,
                     jvm, written, ends>>
      /\ saver.at = "taken" /\ ~closed /\ saver'.at = "written" /\ saver'.buf = saver.buf
      /\ saver.buf \in Buffers /\ saver.buf = Taken
      /\ saver'.to \in 0 .. heap[Taken].lim /\ ("short" \notin met' => saver'.to = heap[Taken].lim)
      /\ met \subseteq met' /\ met' \subseteq met \union {"short"}
      /\ Len(file') = Len(file) + saver'.to
      /\ \A i \in 1 .. Len(file) : file'[i] = file[i]
      /\ \A i \in 1 .. saver'.to : file'[Len(file) + i] = heap[Taken].origin + i
      /\ heap[Taken].origin \in Nat /\ End(Taken) \in ends \union {0}
      /\ UNCHANGED <<Cut, Submitted, Taken>>
  <2>1. saver.at = "taken" /\ saver.buf = Taken /\ saver.buf \in Buffers /\ saver.from = 0
        /\ saver.to = heap[Taken].lim /\ ~closed
    BY DEF WriteAll, WriteShort, Write, SaverIs, QueueInv, TypeOK, SaveOK
  <2>2. Holds(Taken, heap[Taken].lim) /\ heap[Taken].origin \in Nat /\ End(Taken) \in ends \union {0}
    <3>1. heap[Taken].origin \in Nat
      BY <2>1, Origins
    <3>2. CASE Taken = buf
      <4>1. Cut
        BY <3>2
      <4> QED
        BY <3>1, <3>2, <4>1 DEF HandOverInv
    <3>3. CASE Taken # buf
      <4>1. Taken \in 1 .. Len(heap) - 1
        BY <2>1, <3>3
      <4> QED
        BY <3>1, <4>1 DEF PastInv
    <3> QED
      BY <3>2, <3>3
  <2>3. PICK to \in 0 .. heap[Taken].lim :
          /\ Write(to) /\ met \subseteq met' /\ met' \subseteq met \union {"short"}
          /\ "short" \notin met' => to = heap[Taken].lim
    <3>1. CASE WriteAll
      BY <2>1, <3>1 DEF WriteAll
    <3>2. CASE WriteShort
      <4>1. PICK to \in saver.from .. saver.to - 1 : Write(to)
        BY <3>2 DEF WriteShort
      <4>2. met' = met \union {"short"}
        BY <3>2 DEF WriteShort, Meet
      <4>3. to \in 0 .. heap[Taken].lim
        BY <2>1, <4>1
      <4> QED
        BY <4>1, <4>2, <4>3
    <3> QED
      BY <3>1, <3>2
  <2> DEFINE c == Cells(Taken, 0, to)
  <2>4. c \in Seq(Nat) /\ Len(c) = to /\ \A i \in 1 .. to : c[i] = heap[Taken].origin + i
    <3>1. to \in 0 .. Capacity /\ 0 \in 0 .. Capacity /\ Taken \in Buffers
      BY <2>1
    <3>2. /\ c \in Seq(Nat) /\ Len(c) = (IF 0 <= to THEN to - 0 ELSE 0)
          /\ \A i \in 1 .. to - 0 : c[i] = heap[Taken].mem[0 + i - 1]
      <4>1. BuffersOK
        BY DEF TypeOK
      <4> HIDE <1>0, Typed, MaxWriteAssumption
      <4> QED
        BY <3>1, <4>1, CellsTyped
    <3> HIDE DEF c
    <3>3. ASSUME NEW i \in 1 .. to PROVE c[i] = heap[Taken].origin + i
      <4>1. i - 1 \in 0 .. Capacity - 1 /\ i - 1 < heap[Taken].lim /\ 0 + i - 1 = i - 1
        BY <2>1, <3>1
      <4>2. heap[Taken].mem[i - 1] = heap[Taken].origin + (i - 1) + 1
        BY <2>2, <4>1 DEF Holds
      <4>3. c[i] = heap[Taken].mem[i - 1]
        BY <3>1, <3>2, <4>1
      <4>4. heap[Taken].origin \in Nat /\ i \in Int
        BY <2>2
      <4> HIDE <1>0, Typed, MaxWriteAssumption, CapacityAssumption
      <4> QED
        BY <4>2, <4>3, <4>4
    <3> QED
      BY <3>1, <3>2, <3>3
  <2>5. file' = file \o c /\ file \in Seq(Nat)
    BY <2>1, <2>3 DEF Write, TypeOK, SaveOK
  <2> HIDE DEF c
  <2>6. /\ Len(file') = Len(file) + to
        /\ \A i \in 1 .. Len(file) : file'[i] = file[i]
        /\ \A i \in 1 .. to : file'[Len(file) + i] = heap[Taken].origin + i
    <3>1. /\ Len(file') = Len(file) + Len(c)
          /\ \A i \in 1 .. Len(file) + Len(c) :
               file'[i] = IF i <= Len(file) THEN file[i] ELSE c[i - Len(file)]
      BY ZenonT(60), <2>4, <2>5, ConcatProperties
    <3>2. ASSUME NEW i \in 1 .. to
          PROVE  file'[Len(file) + i] = heap[Taken].origin + i
      <4>1. Len(file) + i \in 1 .. Len(file) + Len(c) /\ ~(Len(file) + i <= Len(file))
            /\ (Len(file) + i) - Len(file) = i
        BY <2>4
      <4> QED
        BY <2>4, <3>1, <4>1
    <3> QED
      BY <2>4, <3>1, <3>2
  <2>7. saver'.at = "written" /\ saver'.to = to /\ saver'.buf = saver.buf
    BY <2>3 DEF Write, TypeOK, SaveOK
  <2>8. UNCHANGED <<heap, buf, lle, pc, req, flushing, carry, disabled, pool, queue, closed, jvm,
                    written, ends>>
    BY <2>3 DEF Write, bufferVars, flushVars, jvmVars, history
  <2> QED
    BY <2>1, <2>2, <2>3, <2>6, <2>7, <2>8 DEF Cut, Submitted, Taken
<1>2. QuietInv'
  BY <1>1 DEF QuietInv, Recording
<1>3. FillingInv'
  BY <1>1 DEF FillingInv, Holds, Remaining
<1>4. HandOverInv'
  BY <1>1 DEF HandOverInv, Holds, End, Actors
<1>5. PastInv'
  BY <1>1 DEF PastInv, End, Holds
<1>6. QueueInv'
  BY <1>1 DEF QueueInv, Buffers
<1>7. FileInv'
  BY SMTT(30), <1>1 DEF FileInv, Saved, End, Terminated, NoneOf
<1>8. InOrder'
  <2> SUFFICES ASSUME NoneOf({"io", "short", "late"})', NEW i \in 1 .. Len(file') PROVE file'[i] = i
    BY DEF InOrder
  <2>1. NoneOf({"io", "short", "late"}) /\ NoneOf({"io", "short"})
    BY <1>1 DEF NoneOf
  <2>2. Len(file) = heap[Taken].origin
    BY <1>1, <2>1 DEF FileInv, Saved
  <2>3. CASE i <= Len(file)
    <3>1. i \in 1 .. Len(file)
      BY <2>3, Typed
    <3> QED
      BY <1>1, <2>1, <3>1 DEF InOrder
  <2>4. CASE i > Len(file)
    <3>1. i - Len(file) \in 1 .. saver'.to /\ Len(file) + (i - Len(file)) = i
      BY SMTT(30), <1>1, <2>4, Typed
    <3> QED
      BY <1>1, <2>2, <3>1
  <2> QED
    BY <2>3, <2>4, Typed
<1>9. WholeLines'
  <2> SUFFICES ASSUME NoneOf({"short", "late"})', NEW i \in 1 .. Len(file')
               PROVE  (i < Len(file') /\ file'[i + 1] = file'[i] + 1) \/ file'[i] \in ends'
    BY DEF WholeLines
  <2>1. NoneOf({"short", "late"}) /\ saver'.to = heap[Taken].lim
    BY <1>1 DEF NoneOf
  <2> DEFINE n == Len(file)
             m == saver'.to
             o == heap[Taken].origin
  <2>0. /\ n \in Nat /\ m \in Nat /\ o \in Nat /\ Len(file') = n + m
        /\ o + m \in ends \union {0} /\ ends' = ends
        /\ \A k \in 1 .. n : file'[k] = file[k]
        /\ \A k \in 1 .. m : file'[n + k] = o + k
        /\ \A k \in 1 .. n : (k < n /\ file[k + 1] = file[k] + 1) \/ file[k] \in ends
    <3>1. n \in Nat /\ m \in Nat /\ o \in Nat /\ Len(file') = n + m
      BY <1>1
    <3>2. o + m \in ends \union {0} /\ ends' = ends
      BY <1>1, <2>1 DEF End
    <3>3. (\A k \in 1 .. n : file'[k] = file[k]) /\ (\A k \in 1 .. m : file'[n + k] = o + k)
      BY <1>1
    <3>4. \A k \in 1 .. n : (k < n /\ file[k + 1] = file[k] + 1) \/ file[k] \in ends
      BY <2>1 DEF WholeLines
    <3> QED
      BY <3>1, <3>2, <3>3, <3>4
  <2> HIDE DEF n, m, o
  <2>2. CASE i <= n
    <3>1. i \in 1 .. n /\ (i < n => i + 1 \in 1 .. n /\ i < n + m)
      BY <2>0, <2>2
    <3> QED
      BY <2>0, <3>1
  <2>3. CASE ~(i <= n)
    <3>1. PICK k \in 1 .. m : i = n + k
      <4>1. i - n \in 1 .. m /\ i = n + (i - n)
        BY <2>0, <2>3
      <4> QED
        BY <4>1
    <3>2. file'[i] = o + k /\ k \in Nat
      BY <2>0, <3>1
    <3>3. CASE k < m
      <4>1. k + 1 \in 1 .. m /\ n + (k + 1) = i + 1 /\ i < n + m
        <5> HIDE <1>0, Typed, MaxWriteAssumption
        <5> QED
          BY <2>0, <3>1, <3>3
      <4>2. file'[i + 1] = o + (k + 1)
        BY <2>0, <4>1
      <4> QED
        BY <2>0, <3>2, <4>1, <4>2
    <3>4. CASE k = m
      BY <2>0, <3>1, <3>2, <3>4
    <3> QED
      BY <2>0, <3>1, <3>3, <3>4
  <2> QED
    BY <2>0, <2>2, <2>3
<1>10. OnlyLongLinesDisable'
  BY <1>1 DEF OnlyLongLinesDisable, NoneOf
<1> QED
  BY <1>2, <1>3, <1>4, <1>5, <1>6, <1>7, <1>8, <1>9, <1>10

\* A buffer is lost, which only a disk fault or a hook that gave up can do.
LEMMA WriteThrowsOrder ==
  ASSUME TypeOK, TypeOK', Orderly, Orderly', Order,
         WriteThrows
  PROVE  Order'
<1> USE CapacityAssumption, MaxWriteAssumption, Typed DEF Order
<1>0. Shape
  BY ShapeFromOrder
<1> USE <1>0 DEF Shape
<1>1. /\ UNCHANGED <<heap, buf, lle, pc, req, flushing, carry, disabled, pool, queue, file,
                     closed, jvm, written, ends>>
      /\ saver.at = "taken" /\ saver'.at = "idle"
      /\ IF closed THEN met' = met ELSE met' = met \union {"io"}
      /\ UNCHANGED <<Cut, Submitted, Taken>>
  <2>1. UNCHANGED <<heap, buf, lle, pc, req, flushing, carry, disabled, pool, queue, file,
                    closed, jvm, written, ends>>
    BY DEF WriteThrows, bufferVars, flushVars, jvmVars, history
  <2>2. saver.at = "taken" /\ saver'.at = "idle"
    BY DEF WriteThrows, SaverIs, TypeOK, SaveOK
  <2>3. IF closed THEN met' = met ELSE met' = met \union {"io"}
    BY DEF WriteThrows, Meet
  <2> QED
    BY <2>1, <2>2, <2>3 DEF Cut, Submitted, Taken
<1>2. QuietInv'
  BY <1>1 DEF QuietInv, Recording
<1>3. FillingInv'
  BY <1>1 DEF FillingInv, Holds, Remaining
<1>4. HandOverInv'
  BY <1>1 DEF HandOverInv, Holds, End, Actors
<1>5. PastInv'
  BY <1>1 DEF PastInv, End, Holds
<1>6. QueueInv'
  BY <1>1 DEF QueueInv, Buffers
<1>7. FileInv'
  BY <1>1 DEF FileInv, Saved, End, Terminated, NoneOf
<1>8. InOrder'
  BY <1>1 DEF InOrder, NoneOf
<1>9. WholeLines'
  BY <1>1 DEF WholeLines, NoneOf
<1>10. OnlyLongLinesDisable'
  BY <1>1 DEF OnlyLongLinesDisable, NoneOf
<1> QED
  BY <1>2, <1>3, <1>4, <1>5, <1>6, <1>7, <1>8, <1>9, <1>10

\* The saved buffer's position is of no further use.
LEMMA SaveEndsOrder ==
  ASSUME TypeOK, TypeOK', Orderly, Orderly', Order,
         SaveEnds
  PROVE  Order'
<1> USE CapacityAssumption, MaxWriteAssumption, Typed DEF Order
<1>0. Shape
  BY ShapeFromOrder
<1> USE <1>0 DEF Shape
<1>1. /\ UNCHANGED <<buf, lle, pc, req, flushing, carry, disabled, pool, queue, file, closed,
                     jvm, written, ends, met>>
      /\ saver.at = "written" /\ saver'.at = "idle"
      /\ Taken \in Buffers /\ Len(heap') = Len(heap)
      /\ \A c \in Buffers : c # Taken => heap'[c] = heap[c]
      /\ \A c \in Buffers : /\ heap'[c].lim = heap[c].lim /\ heap'[c].origin = heap[c].origin
                            /\ heap'[c].mem = heap[c].mem
      /\ Taken = buf => Cut /\ pc["app"] \notin {"flip", "submit"} /\ pc["hook"] \notin {"flip", "submit"}
      /\ UNCHANGED <<Cut, Submitted, Taken>>
  <2>1. saver.buf = Taken /\ Taken \in Buffers /\ saver.at = "written" /\ saver.to \in 0 .. Capacity
    BY DEF SaveEnds, SaverIs, QueueInv, TypeOK, SaveOK
  <2>2. /\ Len(heap') = Len(heap) /\ \A c \in Buffers : c # Taken => heap'[c] = heap[c]
        /\ \A c \in Buffers : /\ heap'[c].lim = heap[c].lim /\ heap'[c].origin = heap[c].origin
                              /\ heap'[c].mem = heap[c].mem
    BY <2>1, SaveEndsUpdates
  <2>3. UNCHANGED <<buf, lle, pc, req, flushing, carry, disabled, pool, queue, file, closed, jvm,
                    written, ends, met>>
        /\ saver'.at = "idle"
    BY DEF SaveEnds, flushVars, jvmVars, history, TypeOK, SaveOK
  <2>4. UNCHANGED <<Cut, Submitted, Taken>>
    BY <2>2, <2>3 DEF Cut, Submitted, Taken
  <2>5. Taken = buf => Cut /\ pc["app"] \notin {"flip", "submit"} /\ pc["hook"] \notin {"flip", "submit"}
    <3>1. Taken = buf => Submitted = Len(heap)
      OBVIOUS
    <3>2. Submitted = Len(heap) => pc["app"] = "renew" \/ pc["hook"] \in {"renew", "stop", "await", "close", "done"}
      BY DEF Submitted
    <3>3. pc["app"] = "renew" => pc["hook"] = "waiting" \/ pc["hook"] = "limit"
      BY HookOrderly DEF QuietInv
    <3>4. pc["hook"] \in {"renew", "stop", "await", "close", "done"} => pc["app"] \notin {"flip", "submit"}
      BY HookOrderly DEF QuietInv
    <3> QED
      BY <3>1, <3>2, <3>3, <3>4
  <2> QED
    BY <2>1, <2>2, <2>3, <2>4, <2>5
<1>2. QuietInv'
  BY <1>1 DEF QuietInv, Recording
<1>3. FillingInv'
  <2>1. ~Cut => heap'[buf] = heap[buf]
    BY <1>1
  <2>2. pc["app"] = "put" => ~Cut
    BY HookOrderly DEF Cut, QuietInv
  <2> QED
    BY <1>1, <2>1, <2>2 DEF FillingInv, Holds, Remaining
<1>4. HandOverInv'
  BY ZenonT(60), <1>1 DEF HandOverInv, Holds, End, Actors
<1>5. PastInv'
  <2>1. \A c \in 1 .. Len(heap) - 1 : heap'[c].lim = heap[c].lim /\ heap'[c].mem = heap[c].mem
    BY <1>1
  <2>2. Len(heap') = Len(heap) /\ ends \subseteq ends' /\ \A c \in Buffers : heap'[c].origin = heap[c].origin
    BY <1>1
  <2> QED
    BY <2>1, <2>2, KeepPast
<1>6. QueueInv'
  <2>1. \A b \in Buffers : Taken < b /\ b <= Submitted => heap'[b].pos = 0
    <3>1. ASSUME NEW b \in Buffers, Taken < b, b <= Submitted PROVE heap'[b].pos = 0
      <4>1. heap[b].pos = 0
        BY <3>1 DEF QueueInv
      <4>2. Taken \in Nat /\ \A c \in Buffers : c # Taken => heap'[c] = heap[c]
        BY <1>1
      <4> HIDE <1>0, Typed, MaxWriteAssumption, CapacityAssumption
      <4>3. b # Taken
        BY <3>1, <4>2
      <4> QED
        BY <4>1, <4>2, <4>3
    <3> QED
      BY <3>1
  <2>2. pc["app"] = "submit" \/ pc["hook"] = "submit" => heap'[buf] = heap[buf]
    BY <1>1
  <2> QED
    BY <1>1, <2>1, <2>2 DEF QueueInv, Buffers
<1>7. FileInv'
  BY <1>1 DEF FileInv, Saved, End, Terminated, NoneOf
<1>8. InOrder'
  BY <1>1 DEF InOrder, NoneOf
<1>9. WholeLines'
  BY <1>1 DEF WholeLines, NoneOf
<1>10. OnlyLongLinesDisable'
  BY <1>1 DEF OnlyLongLinesDisable, NoneOf
<1> QED
  BY <1>2, <1>3, <1>4, <1>5, <1>6, <1>7, <1>8, <1>9, <1>10

\* Orderly shutdown finds the recording thread quiet.
LEMMA ExitOrder ==
  ASSUME TypeOK, TypeOK', Orderly, Orderly', Order,
         Exit \/ LastThreadEnds
  PROVE  Order'
<1> USE CapacityAssumption, MaxWriteAssumption, Typed DEF Order
<1>0. Shape
  BY ShapeFromOrder
<1> USE <1>0 DEF Shape
<1>1. /\ UNCHANGED <<heap, buf, lle, pc, req, flushing, carry, disabled, pool, queue, saver,
                     file, closed, written, ends, met>>
      /\ jvm = "running" /\ jvm' = "shutdown" /\ ~Recording
      /\ UNCHANGED <<Cut, Submitted, Taken>>
  BY DEF Exit, LastThreadEnds, ShutdownBegins, Meet, Orderly, NoneOf, QuietInv, Cut, Submitted,
      Taken, bufferVars, flushVars, saveVars, jvmVars, history
<1>2. QuietInv'
  BY <1>1 DEF QuietInv, Recording
<1>3. FillingInv'
  BY <1>1 DEF FillingInv, Holds, Remaining
<1>4. HandOverInv'
  BY <1>1 DEF HandOverInv, Holds, End, Actors
<1>5. PastInv'
  BY <1>1 DEF PastInv, End, Holds
<1>6. QueueInv'
  BY <1>1 DEF QueueInv, Buffers
<1>7. FileInv'
  BY <1>1 DEF FileInv, Saved, End, Terminated, NoneOf
<1>8. InOrder'
  BY <1>1 DEF InOrder, NoneOf
<1>9. WholeLines'
  BY <1>1 DEF WholeLines, NoneOf
<1>10. OnlyLongLinesDisable'
  BY <1>1 DEF OnlyLongLinesDisable, NoneOf
<1> QED
  BY <1>2, <1>3, <1>4, <1>5, <1>6, <1>7, <1>8, <1>9, <1>10

\* The hook's own steps.
LEMMA CleanupOrder ==
  ASSUME TypeOK, TypeOK', Orderly, Orderly', Order,
         CleanupBegins \/ ShutdownPool \/ AwaitTermination \/ CloseChannel
  PROVE  Order'
<1> USE CapacityAssumption, MaxWriteAssumption, Typed DEF Order
<1>0. Shape
  BY ShapeFromOrder
<1> USE <1>0 DEF Shape
<1>1. /\ UNCHANGED <<heap, buf, lle, req, carry, disabled, queue, saver, file, jvm,
                     written, ends>>
      /\ jvm = "shutdown" /\ pc'["app"] = pc["app"] /\ pc["app"] \in {"ready", "ended"}
      /\ \/ pc["hook"] = "waiting" /\ pc'["hook"] = "limit" /\ UNCHANGED <<pool, closed, met>>
         \/ pc["hook"] = "stop" /\ pc'["hook"] = "await" /\ pool' = "shutdown" /\ UNCHANGED <<closed, met>>
         \/ /\ pc["hook"] = "await" /\ pc'["hook"] = "close" /\ UNCHANGED <<pool, closed>>
            /\ IF Terminated THEN met' = met ELSE met' = met \union {"timeout"}
         \/ pc["hook"] = "close" /\ pc'["hook"] = "done" /\ closed' = TRUE /\ UNCHANGED <<pool,
                                                                                          met>>
      /\ pc'["hook"] = "limit" => flushing'["hook"] = buf
      /\ UNCHANGED <<Cut, Submitted, Taken>>
  <2>1. \E from, to : HookStep(from, to)
    BY DEF CleanupBegins, ShutdownPool, AwaitTermination, CloseChannel
  <2>2. jvm = "shutdown" /\ pc'["app"] = pc["app"] /\ pc["app"] \in {"ready", "ended"}
        /\ UNCHANGED <<heap, buf, lle, req, carry, disabled, queue, saver, file, jvm, written,
                       ends>>
    BY <2>1, HookOrderly, Goes DEF HookStep, Actors, bufferVars, jvmVars, history
  <2>3. \/ pc["hook"] = "waiting" /\ pc'["hook"] = "limit" /\ UNCHANGED <<pool, closed, met>>
        \/ pc["hook"] = "stop" /\ pc'["hook"] = "await" /\ pool' = "shutdown" /\ UNCHANGED <<closed, met>>
        \/ /\ pc["hook"] = "await" /\ pc'["hook"] = "close" /\ UNCHANGED <<pool, closed>>
           /\ IF Terminated THEN met' = met ELSE met' = met \union {"timeout"}
        \/ pc["hook"] = "close" /\ pc'["hook"] = "done" /\ closed' = TRUE /\ UNCHANGED <<pool, met>>
    <3>1. CASE CleanupBegins
      BY <3>1, Goes DEF CleanupBegins, HookStep, Actors
    <3>2. CASE ShutdownPool
      BY <3>2, Goes DEF ShutdownPool, HookStep, Actors
    <3>3. CASE AwaitTermination
      BY <3>3, Goes DEF AwaitTermination, HookStep, Meet, Actors
    <3>4. CASE CloseChannel
      BY <3>4, Goes DEF CloseChannel, HookStep, Actors
    <3> QED
      BY <3>1, <3>2, <3>3, <3>4
  <2>4. UNCHANGED <<Cut, Submitted, Taken>>
    BY <2>2, <2>3 DEF Cut, Submitted, Taken
  <2>5. pc'["hook"] = "limit" => flushing'["hook"] = buf
    <3>1. CASE CleanupBegins
      BY <3>1 DEF CleanupBegins, BeginFlush, TypeOK, FlushesOK, Actors
    <3>2. CASE ~CleanupBegins
      BY <3>2, Goes DEF ShutdownPool, AwaitTermination, CloseChannel, HookStep, Actors
    <3> QED
      BY <3>1, <3>2
  <2> QED
    BY <2>2, <2>3, <2>4, <2>5
<1>2. QuietInv'
  BY <1>1 DEF QuietInv, Recording
<1>3. FillingInv'
  BY <1>1 DEF FillingInv, Holds, Remaining
<1>4. HandOverInv'
  BY <1>1 DEF HandOverInv, Holds, End, Actors
<1>5. PastInv'
  BY <1>1 DEF PastInv, End, Holds
<1>6. QueueInv'
  BY <1>1 DEF QueueInv, Buffers
<1>7. FileInv'
  BY <1>1 DEF FileInv, Saved, End, Terminated, NoneOf
<1>8. InOrder'
  BY <1>1 DEF InOrder, NoneOf
<1>9. WholeLines'
  BY <1>1 DEF WholeLines, NoneOf
<1>10. OnlyLongLinesDisable'
  BY <1>1 DEF OnlyLongLinesDisable, NoneOf
<1> QED
  BY <1>2, <1>3, <1>4, <1>5, <1>6, <1>7, <1>8, <1>9, <1>10

\* Steps that concern none of the buffers.
LEMMA OtherOrder ==
  ASSUME TypeOK, TypeOK', Orderly, Orderly', Order,
         PrintURL \/ Halt \/ UNCHANGED vars
  PROVE  Order'
<1> USE CapacityAssumption, MaxWriteAssumption, Typed DEF Order
<1>0. Shape
  BY ShapeFromOrder
<1> USE <1>0 DEF Shape
<1>1. /\ UNCHANGED <<heap, buf, lle, pc, req, flushing, carry, disabled, pool, queue, saver,
                     file, closed, written, ends, met>>
      /\ UNCHANGED jvm \/ (jvm = "shutdown" /\ jvm' = "halted")
      /\ UNCHANGED <<Cut, Submitted, Taken>>
  <2>1. UNCHANGED <<heap, buf, lle, pc, req, flushing, carry, disabled, pool, queue, saver, file,
                    closed, written, ends, met>>
        /\ (UNCHANGED jvm \/ (jvm = "shutdown" /\ jvm' = "halted"))
    <3>1. CASE PrintURL
      BY <3>1 DEF PrintURL, bufferVars, flushVars, saveVars, history
    <3>2. CASE Halt
      BY <3>2 DEF Halt, bufferVars, flushVars, saveVars, history
    <3>3. CASE UNCHANGED vars
      BY <3>3 DEF vars, bufferVars, flushVars, saveVars, jvmVars, history
    <3> QED
      BY <3>1, <3>2, <3>3
  <2> QED
    BY <2>1 DEF Cut, Submitted, Taken
<1>2. QuietInv'
  BY <1>1 DEF QuietInv, Recording
<1>3. FillingInv'
  BY <1>1 DEF FillingInv, Holds, Remaining
<1>4. HandOverInv'
  BY <1>1 DEF HandOverInv, Holds, End, Actors
<1>5. PastInv'
  BY <1>1 DEF PastInv, End, Holds
<1>6. QueueInv'
  BY <1>1 DEF QueueInv, Buffers
<1>7. FileInv'
  BY <1>1 DEF FileInv, Saved, End, Terminated, NoneOf
<1>8. InOrder'
  BY <1>1 DEF InOrder, NoneOf
<1>9. WholeLines'
  BY <1>1 DEF WholeLines, NoneOf
<1>10. OnlyLongLinesDisable'
  BY <1>1 DEF OnlyLongLinesDisable, NoneOf
<1> QED
  BY <1>2, <1>3, <1>4, <1>5, <1>6, <1>7, <1>8, <1>9, <1>10

\* No exception ends a flush: the recording thread's own flush finds the buffer as
\* it left it, and the executor is not shut down before the thread is quiet.
LEMMA NoFlushThrows ==
  ASSUME TypeOK, Orderly', Order, NEW a \in Actors
  PROVE  ~LimitThrows(a) /\ ~SubmitThrows
<1>1. ~SubmitThrows
  BY AppRunsOrderly DEF SubmitThrows, Order
<1>2. ASSUME LimitThrows(a) PROVE FALSE
  <2>1. pc[a] = "limit" /\ FlusherRuns(a) /\ lle > heap[buf].lim
    <3>1. pc[a] = "limit" /\ FlusherRuns(a) /\ lle > heap[flushing[a]].lim
      BY <1>2 DEF LimitThrows, SwitchOff, Goto
    <3> QED
      BY <3>1 DEF Order, HandOverInv
  <2>2. ~Cut
    BY <2>1, FlusherOrderly DEF Order, FlushPlaces, Actors, Cut
  <2>3. lle <= heap[buf].pos /\ heap[buf].lim = Capacity /\ heap[buf].pos \in 0 .. Capacity
    BY <2>2, ShapeFromOrder, Typed DEF Order, FillingInv, Shape
  <2> QED
    BY <2>1, <2>3, Typed, CapacityAssumption
<1> QED
  BY <1>1, <1>2

\* Each step keeps the order, one lemma per action.
LEMMA OrderStep ==
  ASSUME TypeOK, TypeOK', Orderly, Orderly', Order, [Next]_vars
  PROVE  Order'
<1>1. ASSUME NEW part \in Parts, NEW n \in 1 .. MaxWrite, Reserve(part, n) PROVE Order'
  BY <1>1, ReserveOrder
<1>2. Put => Order'
  BY PutOrder
<1>3. MarkLineEnd => Order'
  BY MarkLineEndOrder
<1>4. Overflow => Order'
  BY OverflowOrder
<1>5. AppEnds => Order'
  BY AppEndsOrder
<1>6. SubmitThrows => Order'
  BY NoFlushThrows DEF Actors
<1>7. ASSUME NEW a \in Actors, Flush(a) PROVE Order'
  <2>1. Limit(a) => Order'
    BY LimitOrder
  <2>2. Flip(a) => Order'
    BY FlipOrder
  <2>3. Submit(a) => Order'
    BY SubmitOrder
  <2>4. Renew(a) => Order'
    BY RenewAppOrder, RenewHookOrder DEF Actors
  <2> QED
    BY <1>7, <2>1, <2>2, <2>3, <2>4, NoFlushThrows DEF Flush
<1>8. Take => Order'
  BY TakeOrder
<1>9. WriteAll \/ WriteShort => Order'
  BY WriteOrder
<1>10. WriteThrows => Order'
  BY WriteThrowsOrder
<1>11. SaveEnds => Order'
  BY SaveEndsOrder
<1>12. Exit \/ LastThreadEnds => Order'
  BY ExitOrder
<1>13. CleanupBegins \/ ShutdownPool \/ AwaitTermination \/ CloseChannel => Order'
  BY CleanupOrder
<1>14. PrintURL \/ Halt \/ UNCHANGED vars => Order'
  BY OtherOrder
<1>15. ReadPosition => Order'
  BY ReadPositionOrder
<1>16. "app" \in Actors /\ "hook" \in Actors
  BY DEF Actors
<1> QED
  BY <1>1, <1>2, <1>3, <1>4, <1>5, <1>6, <1>7, <1>8, <1>9, <1>10, <1>11, <1>12, <1>13, <1>14, <1>15, <1>16
     DEF Next, App, Saver, Hook

\* A fault that has been met stays met.
LEMMA MetGrows == [Next]_vars => met \subseteq met'
<1> SUFFICES ASSUME [Next]_vars PROVE met \subseteq met'
  OBVIOUS
<1>1. ASSUME NEW part \in Parts, NEW n \in 1 .. MaxWrite, Reserve(part, n) PROVE met \subseteq met'
  BY <1>1 DEF Reserve, AppRuns, Meet
<1>2. Put \/ ReadPosition \/ MarkLineEnd \/ Overflow \/ AppEnds \/ SubmitThrows => met \subseteq met'
  BY DEF Put, ReadPosition, MarkLineEnd, Overflow, AppEnds, SubmitThrows, AppRuns, Meet
<1>3. ASSUME NEW a \in Actors, Flush(a) PROVE met \subseteq met'
  BY <1>3 DEF Flush, Limit, LimitThrows, Flip, Submit, Renew, FlusherRuns, AppRuns, Meet
<1>4. Saver => met \subseteq met'
  BY DEF Saver, Take, WriteAll, WriteShort, WriteThrows, SaveEnds, Meet
<1>5. CleanupBegins \/ ShutdownPool \/ AwaitTermination \/ CloseChannel => met \subseteq met'
  BY DEF CleanupBegins, ShutdownPool, AwaitTermination, CloseChannel, Meet
<1>6. Exit \/ LastThreadEnds \/ PrintURL \/ Halt \/ UNCHANGED vars => met \subseteq met'
  BY DEF Exit, LastThreadEnds, PrintURL, Halt, Meet, vars
<1>7. "app" \in Actors /\ "hook" \in Actors
  BY DEF Actors
<1> QED
  BY <1>1, <1>2, <1>3, <1>4, <1>5, <1>6, <1>7 DEF Next, App, Hook

\* The initial state is typed.
LEMMA TypeCorrectInit == Init => TypeOK
<1> USE CapacityAssumption, MaxWriteAssumption, FaultsAssumption
<1> SUFFICES ASSUME Init PROVE TypeOK
  OBVIOUS
<1>1. Fresh(<<>>, 0) \in Buffer
  BY DEF Fresh, Buffer
<1> HIDE DEF Fresh
<1>2. Len(heap) = 1 /\ Buffers = 1 .. 1 /\ heap \in Seq(Buffer)
  BY <1>1 DEF Init, Buffers
<1>3. BuffersOK
  BY <1>2 DEF Init, BuffersOK
<1>4. ThreadsOK
  <2>1. req \in [part : Parts, len : 1 .. MaxWrite, end : 0 .. Capacity]
    BY DEF Init, Parts
  <2>2. pc["app"] = "ready" /\ pc["hook"] = "waiting" /\ DOMAIN pc = Actors
    BY DEF Init, Actors
  <2>3. pc \in [Actors -> AppPlaces \union HookPlaces \union FlushPlaces]
    BY DEF Init, Actors, AppPlaces, HookPlaces, FlushPlaces
  <2> QED
    BY <2>1, <2>2, <2>3 DEF Init, ThreadsOK, AppPlaces, HookPlaces
<1>5. FlushesOK
  BY <1>2 DEF Init, FlushesOK
<1>6. SaveOK
  <2>1. saver \in [at : {"none", "idle", "taken", "written"}, buf : Buffers,
                   from : 0 .. Capacity, to : 0 .. Capacity]
    BY <1>2 DEF Init
  <2>2. queue \in Seq(Buffers) /\ file \in Seq(Nat)
    BY DEF Init
  <2> QED
    BY <2>1, <2>2 DEF Init, SaveOK
<1>7. ProgramOK
  BY DEF Init, ProgramOK
<1> QED
  BY <1>3, <1>4, <1>5, <1>6, <1>7 DEF TypeOK

\* Initially there is one empty buffer, and nothing to be in disorder.
LEMMA OrderInit == Init => Order
<1> USE CapacityAssumption, MaxWriteAssumption
<1> SUFFICES ASSUME Init PROVE Order
  OBVIOUS
<1>1. /\ Len(heap) = 1 /\ Buffers = 1 .. 1 /\ buf = 1 /\ lle = 0
      /\ heap[1].pos = 0 /\ heap[1].lim = Capacity /\ heap[1].origin = 0
  BY DEF Init, Fresh, Buffers
<1>2. pc["app"] = "ready" /\ pc["hook"] = "waiting" /\ req.part = "newline" /\ jvm = "running"
      /\ ~disabled /\ pool = "running" /\ saver.at = "none" /\ ~closed
      /\ written = 0 /\ ends = {} /\ queue = <<>> /\ Len(queue) = 0 /\ file = <<>> /\ Len(file) = 0
  BY DEF Init, Actors
<1>3. ~Cut /\ Submitted = 0 /\ Taken = 0
  BY <1>1, <1>2 DEF Cut, Submitted, Taken
<1>4. QuietInv
  BY <1>2 DEF QuietInv, Recording
<1>5. FillingInv
  BY <1>1, <1>2 DEF FillingInv, Holds
<1>6. HandOverInv
  BY <1>2, <1>3 DEF HandOverInv, Actors
<1>7. PastInv
  BY <1>1 DEF PastInv
<1>8. QueueInv
  BY <1>1, <1>2, <1>3 DEF QueueInv
<1>9. FileInv
  BY <1>2, <1>3 DEF FileInv, Saved
<1>10. InOrder /\ WholeLines /\ OnlyLongLinesDisable
  BY <1>2 DEF InOrder, WholeLines, OnlyLongLinesDisable
<1> QED
  BY <1>4, <1>5, <1>6, <1>7, <1>8, <1>9, <1>10 DEF Order

(* The inductive invariant, which the runs check as well, holds of every   *)
(* run: what each actor of the recording may still hold, what is queued    *)
(* and what has been written fit together at every step.                   *)
THEOREM Invariant == Spec => []IInv
<1>1. Init => IInv
  BY TypeCorrectInit, OrderInit DEF IInv
<1>2. IInv /\ [Next]_vars => IInv'
  <2> SUFFICES ASSUME IInv, [Next]_vars PROVE IInv'
    OBVIOUS
  <2>1. TypeOK /\ TypeOK'
    BY TypeCorrectStep DEF IInv
  <2>2. Orderly' => Orderly
    BY MetGrows DEF Orderly, NoneOf
  <2>3. Orderly' => Order'
    BY <2>1, <2>2, OrderStep DEF IInv
  <2> QED
    BY <2>1, <2>3 DEF IInv
<1> QED
  BY <1>1, <1>2, PTL DEF Spec

-----------------------------------------------------------------------------
\* The theorems.

\* The variables of the buffer, the flushes, the writer and the hooks keep their
\* types whatever faults are met.
THEOREM TypeCorrect == Spec => []TypeOK
<1>1. IInv => TypeOK
  BY DEF IInv
<1> QED
  BY <1>1, Invariant, PTL

\* The file is a prefix of what the thread wrote (ByteBufferOutput's flush, the
\* queue of SaveTasks and the writer thread keep all bytes in their order).
THEOREM FileInOrder == Spec => []InOrder
<1>1. IInv => InOrder
  BY DEF IInv, Order, Orderly, InOrder, NoneOf
<1> QED
  BY <1>1, Invariant, PTL

\* The flush at a full buffer hands over nothing but whole lines.
THEOREM OnlyWholeLines == Spec => []WholeLines
<1>1. IInv => WholeLines
  BY DEF IInv, Order, Orderly, WholeLines, NoneOf
<1> QED
  BY <1>1, Invariant, PTL

\* A full buffer never switches recording off; a line longer than a buffer does.
THEOREM FullBuffersAreHarmless == Spec => []OnlyLongLinesDisable
<1>1. IInv => OnlyLongLinesDisable
  BY DEF IInv, Order, Orderly, OnlyLongLinesDisable, NoneOf
<1> QED
  BY <1>1, Invariant, PTL

\* Once the writer has nothing left to do the file has every completed line.
LEMMA AllSaved ==
  ASSUME TypeOK, Order, NoneOf({"io", "short", "timeout"}), Terminated,
         pc["hook"] \in {"close", "done"}
  PROVE  \A e \in ends : e <= Len(file)
<1>1. Submitted = Len(heap) /\ Len(queue) = 0 /\ Cut
  BY QueueLength DEF Submitted, Terminated, Cut
<1>2. Shape
  BY ShapeFromOrder DEF Order
<1>3. Taken = buf /\ Taken # 0
  BY <1>1, <1>2 DEF Taken, Shape
<1>4. Len(file) = End(buf)
  BY <1>3 DEF Order, FileInv, NoneOf, Saved, Terminated
<1> QED
  BY <1>1, <1>4 DEF Order, HandOverInv

\* What Cleanup's order of steps (flush, shut the pool down, await its end, close
\* the channels) is for: no completed line is missing from a closed file.
THEOREM NothingIsLost == Spec => []NothingLost
<1>1. IInv => NothingLost
  <2> SUFFICES ASSUME IInv, NoneOf(FaultKinds), closed PROVE \A e \in ends : e <= Len(file)
    BY DEF NothingLost
  <2>1. Order /\ TypeOK /\ NoneOf({"io", "short", "timeout"}) /\ NoneOf({"timeout"})
    BY DEF IInv, Orderly, NoneOf, FaultKinds
  <2>2. pc["hook"] = "done" /\ Terminated
    BY <2>1 DEF Order, FileInv
  <2> QED
    BY <2>1, <2>2, AllSaved
<1> QED
  BY <1>1, Invariant, PTL

-----------------------------------------------------------------------------
\* LineBuffer implements LineLog, as long as nothing goes wrong around it.

\* The bound on the bytes written, which makes the offsets a finite set.
Bounded ==
  /\ written <= MaxCells
  /\ pc["app"] \in {"put", "limit", "flip", "submit", "renew"} => written + req.len <= MaxCells

\* Nothing is written that would not fit under the bound.
LEMMA BoundedStep == TypeOK /\ Bounded /\ [Next]_vars => Bounded'
<1> SUFFICES ASSUME TypeOK, Bounded, [Next]_vars PROVE Bounded'
  OBVIOUS
<1> USE MaxCellsAssumption, Typed DEF Bounded
<1>1. ASSUME NEW part \in Parts, NEW n \in 1 .. MaxWrite, Reserve(part, n) PROVE Bounded'
  BY <1>1 DEF Reserve, history
<1>2. Put => Bounded'
  BY DEF Put, TypeOK, ThreadsOK, Actors
<1>3. ReadPosition \/ MarkLineEnd => Bounded'
  BY Goes DEF ReadPosition, MarkLineEnd, history, Actors
<1>4. Overflow \/ AppEnds \/ SubmitThrows => Bounded'
  BY Goes DEF Overflow, AppEnds, SubmitThrows, SwitchOff, history, Actors
<1>5. ASSUME NEW a \in Actors, Flush(a) PROVE Bounded'
  <2>1. UNCHANGED <<req, written>>
    BY <1>5 DEF Flush, Limit, LimitThrows, SwitchOff, Flip, Submit, Renew, history
  <2>2. \E from \in FlushPlaces : \E to : /\ Goto(a, from, to)
                                          /\ a = "app" => to \in FlushPlaces \union {"ready", "put"}
    BY <1>5 DEF Flush, Limit, LimitThrows, SwitchOff, Flip, Submit, Renew, FlushPlaces
  <2> QED
    BY <2>1, <2>2, Goes DEF Actors, FlushPlaces
<1>6. Saver => Bounded'
  BY DEF Saver, Take, WriteAll, WriteShort, Write, WriteThrows, SaveEnds, history
<1>7. CleanupBegins \/ ShutdownPool \/ AwaitTermination \/ CloseChannel => Bounded'
  BY Goes DEF CleanupBegins, ShutdownPool, AwaitTermination, CloseChannel, HookStep, history, Actors
<1>8. Exit \/ LastThreadEnds \/ PrintURL \/ Halt \/ UNCHANGED vars => Bounded'
  BY DEF Exit, LastThreadEnds, ShutdownBegins, PrintURL, Halt, vars, history
<1>9. "app" \in Actors /\ "hook" \in Actors
  BY DEF Actors
<1> QED
  BY <1>1, <1>2, <1>3, <1>4, <1>5, <1>6, <1>7, <1>8, <1>9 DEF Next, App, Hook

\* What every step leaves of the three things LineLog speaks of.
LEMMA LogStep ==
  ASSUME Faults = {}, IInv, IInv', Bounded, Bounded', [Next]_vars
  PROVE  [Log!Next]_(Log!vars)
<1> USE Typed, MaxCellsAssumption
<1>0. TypeOK /\ TypeOK' /\ met = {} /\ met' = {} /\ Order /\ Order' /\ Shape
  <2>1. TypeOK /\ TypeOK' /\ met = {} /\ met' = {}
    BY DEF IInv, TypeOK, ProgramOK
  <2>2. Order /\ Order'
    BY <2>1 DEF IInv, Orderly, NoneOf
  <2> QED
    BY <2>1, <2>2, ShapeFromOrder DEF Order
<1>s. ASSUME UNCHANGED <<ends, file, closed>> PROVE [Log!Next]_(Log!vars)
  BY <1>s DEF Log!vars
<1>1. ASSUME NEW part \in Parts, NEW n \in 1 .. MaxWrite, Reserve(part, n)
      PROVE  UNCHANGED <<ends, file, closed>>
  BY <1>1 DEF Reserve, history, saveVars
<1>2. Put \/ ReadPosition \/ Overflow \/ AppEnds \/ SubmitThrows => UNCHANGED <<ends, file, closed>>
  BY DEF Put, ReadPosition, Overflow, AppEnds, SubmitThrows, SwitchOff, history, saveVars
<1>3. MarkLineEnd => Log!Next
  <2> SUFFICES ASSUME MarkLineEnd PROVE Log!CompleteLine(written) /\ written \in 1 .. MaxCells
    BY DEF Log!Next
  <2>1. pc["app"] = "store" /\ AppRuns /\ ends' = ends \union {written} /\ UNCHANGED <<file, closed>>
    BY DEF MarkLineEnd, Goto, saveVars
  <2>2. pc["hook"] = "waiting" /\ ~Cut
    BY <1>0, <2>1, AppRunsOrderly DEF Order, Orderly, NoneOf, Cut
  <2>3. ~closed
    BY <1>0, <2>2 DEF Order, FileInv
  <2>4. heap[buf].origin + heap[buf].pos = written /\ lle < heap[buf].pos
        /\ \A e \in ends : e <= heap[buf].origin + lle
    BY <1>0, <2>1, <2>2 DEF Order, FillingInv
  <2>5. heap[buf].origin \in Nat /\ heap[buf].pos \in Nat /\ lle \in Nat /\ ends \subseteq Nat
    BY <1>0, Origins DEF Order, Shape
  <2>6. written \in 1 .. MaxCells /\ \A e \in ends : e < written
    <3>1. written \in Nat /\ written <= MaxCells
      BY <1>0 DEF Bounded
    <3>2. written > 0 /\ heap[buf].origin + lle < written
      BY <2>4, <2>5
    <3>3. \A e \in ends : e \in Nat /\ e < written
      BY <2>4, <2>5, <3>1, <3>2
    <3> QED
      BY <3>1, <3>2, <3>3
  <2> QED
    BY <2>1, <2>3, <2>6 DEF Log!CompleteLine
<1>4. ASSUME NEW a \in Actors, Flush(a) PROVE UNCHANGED <<ends, file, closed>>
  BY <1>4 DEF Flush, Limit, LimitThrows, SwitchOff, Flip, Submit, Renew, history, saveVars
<1>5. Take \/ WriteThrows \/ SaveEnds => UNCHANGED <<ends, file, closed>>
  BY DEF Take, WriteThrows, SaveEnds, history
<1>6. WriteAll \/ WriteShort => [Log!Next]_(Log!vars)
  <2> SUFFICES ASSUME WriteAll \/ WriteShort PROVE [Log!Next]_(Log!vars)
    OBVIOUS
  <2>1. UNCHANGED <<ends, closed, heap, pc, queue>> /\ ~closed /\ saver.at = "taken"
        /\ saver'.at = "written"
    BY <1>0 DEF WriteAll, WriteShort, Write, SaverIs, bufferVars, history, TypeOK, SaveOK
  <2>2. Len(file) = Saved /\ Len(file') = Saved'
    BY <1>0, <2>1 DEF Order, FileInv, NoneOf
  <2>3. Taken' = Taken /\ Taken \in Buffers
    BY <1>0, <2>1 DEF Order, QueueInv, Taken, Submitted, Shape
  <2>4. Len(file') = End(Taken) /\ Len(file) = heap[Taken].origin
    BY <1>0, <2>1, <2>2, <2>3 DEF Saved, End, Shape
  <2>5. End(Taken) \in ends \union {0} /\ heap[Taken].lim \in Nat /\ heap[Taken].origin \in Nat
    <3>1. heap[Taken].lim \in Nat /\ heap[Taken].origin \in Nat
      BY <1>0, <2>3, Origins DEF Order, Shape
    <3>2. CASE Taken = buf
      BY <1>0, <3>1, <3>2 DEF Order, HandOverInv, Shape
    <3>3. CASE Taken # buf
      <4>1. Taken \in 1 .. Len(heap) - 1
        BY <1>0, <2>3, <3>3 DEF Shape
      <4> QED
        BY <1>0, <3>1, <4>1 DEF Order, PastInv
    <3> QED
      BY <3>2, <3>3
  <2>6. CASE heap[Taken].lim = 0
    BY <2>1, <2>4, <2>5, <2>6 DEF Log!vars, End
  <2>7. CASE heap[Taken].lim # 0
    <3>1. Len(file) < Len(file') /\ Len(file') \in ends
      BY <2>4, <2>5, <2>7 DEF End
    <3>2. Log!Persist(Len(file'))
      BY <2>1, <3>1 DEF Log!Persist
    <3> QED
      BY <3>1, <3>2 DEF Log!Next
  <2> QED
    BY <2>6, <2>7
<1>7. CleanupBegins \/ ShutdownPool \/ AwaitTermination => UNCHANGED <<ends, file, closed>>
  BY DEF CleanupBegins, ShutdownPool, AwaitTermination, HookStep, history
<1>8. CloseChannel => Log!Next
  <2> SUFFICES ASSUME CloseChannel PROVE Log!Close
    BY DEF Log!Next
  <2>1. pc["hook"] = "close" /\ closed' = TRUE /\ UNCHANGED <<ends, file>>
    BY DEF CloseChannel, HookStep, Goto, history
  <2>2. ~closed /\ Terminated
    BY <1>0, <2>1 DEF Order, FileInv, NoneOf
  <2>3. \A e \in ends : e <= Len(file)
    BY <1>0, <2>1, <2>2, AllSaved DEF NoneOf
  <2> QED
    BY <2>1, <2>2, <2>3 DEF Log!Close
<1>9. Exit \/ LastThreadEnds \/ PrintURL \/ Halt \/ UNCHANGED vars => UNCHANGED <<ends, file,
                                                                                  closed>>
  BY DEF Exit, LastThreadEnds, ShutdownBegins, PrintURL, Halt, vars, history, saveVars
<1>10. "app" \in Actors /\ "hook" \in Actors
  BY DEF Actors
<1> QED
  BY <1>s, <1>1, <1>2, <1>3, <1>4, <1>5, <1>6, <1>7, <1>8, <1>9, <1>10 DEF Next, App, Saver, Hook

\* When no write fails, no write is cut short, the hook does not give up waiting
\* and the program has stopped recording before it exits, the buffers, the queue
\* and the writer amount to an append-only log of lines.
THEOREM Implementation == ASSUME Faults = {} PROVE Spec => ImplementsLineLog
<1>1. Init => Log!Init /\ Bounded
  BY MaxCellsAssumption DEF Init, Log!Init, Bounded, Actors
<1>2. IInv /\ Bounded /\ [Next]_vars => Bounded'
  BY BoundedStep DEF IInv
<1>3. IInv /\ IInv' /\ Bounded /\ Bounded' /\ [Next]_vars => [Log!Next]_(Log!vars)
  BY LogStep
<1> QED
  BY <1>1, <1>2, <1>3, Invariant, PTL DEF Spec, ImplementsLineLog, Log!Spec
=============================================================================
