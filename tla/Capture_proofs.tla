--------------------------- MODULE Capture_proofs ---------------------------
(***************************************************************************)
(* The inductive invariant of Capture, and proofs that its properties hold *)
(* for any set of threads, of objects and of faults.                       *)
(*                                                                         *)
(* Threads share nothing but allCaptureDisabled, so the invariant is one   *)
(* of each thread: a step of a thread preserves its own, and that of the   *)
(* others because it can only switch recording off.                        *)
(*                                                                         *)
(* Last comes the refinement of Recording, with one fact more (RInv).      *)
(***************************************************************************)
EXTENDS Capture, SequenceTheorems, TLAPS

\* The outermost activation is at a place.
Is(t, place) == calls[t] # <<>> /\ calls[t][1].at = place

\* The counter counts the activations; one within another is not recorded.
Nesting(t) ==
  /\ entries[t] = Len(calls[t])
  /\ Len(calls[t]) <= 2
  /\ Len(calls[t]) = 2 => /\ calls[t][1].at = "consume"
                          /\ calls[t][2].at \in {"check", "finally"}

Quiet(t) ==
  t \in failed => /\ allCaptureDisabled
                  /\ calls[t] # <<>> => calls[t][1].at \in {"check", "finally"}

\* Lines and steps go together.
Lines(t) ==
  t \notin erred =>
    /\ \A k \in 1 .. Len(flow[t]) : flow[t][k].step = k - 1 /\ flow[t][k].whole
    /\ t \notin failed /\ ~Is(t, "catch") =>
         /\ torn[t] = {}
         /\ step[t] = Len(flow[t]) + (IF Is(t, "flow") THEN 1 ELSE 0)
    /\ Is(t, "flow") => calls[t][1].step = Len(flow[t])
    /\ Is(t, "consume") => calls[t][1].step = Len(flow[t]) - 1

Snapshots(t) ==
  t \notin erred =>
    /\ \A k \in 1 .. Len(snapshot[t]) :
         /\ snapshot[t][k].i < Len(flow[t])
         /\ snapshot[t][k].whole
         /\ k > 1 => snapshot[t][k - 1].i < snapshot[t][k].i
    /\ Is(t, "consume") =>
         \A k \in 1 .. Len(snapshot[t]) : snapshot[t][k].i < calls[t][1].step

\* Nothing has been missed.
Complete(t) ==
  ~allCaptureDisabled /\ t \notin erred =>
    /\ executed[t] = step[t] + (IF Is(t, "check") THEN 1 ELSE 0)
    /\ modified[t] = touched[t]
    /\ Is(t, "consume") => calls[t][1].sn = calls[t][1].due
    /\ \A k \in 1 .. Len(snapshot[t]) : snapshot[t][k].sn = snapshot[t][k].due

ThreadInv(t) == Nesting(t) /\ Quiet(t) /\ Lines(t) /\ Snapshots(t) /\ Complete(t)

\* The inductive invariant.
IInv == TypeOK /\ \A t \in Threads : ThreadInv(t)

----------------------------------------------------------------------------
\* The stack of activations.

LEMMA BecomeStack ==
  ASSUME calls \in [Threads -> Seq(Call)], NEW t \in Threads, calls[t] # <<>>,
         NEW c \in Call, Become(t, c)
  PROVE  /\ calls' \in [Threads -> Seq(Call)]
         /\ \A u \in Threads \ {t} : calls'[u] = calls[u]
         /\ Len(calls'[t]) = Len(calls[t])
         /\ Len(calls[t]) \in Nat \ {0}
         /\ calls'[t] # <<>>
         /\ calls'[t][Len(calls[t])] = c
         /\ \A k \in 1 .. Len(calls[t]) - 1 : calls'[t][k] = calls[t][k]
<1> DEFINE s == calls[t]
           r == [s EXCEPT ![Len(s)] = c]
<1>1. s \in Seq(Call) /\ s # <<>> /\ Len(s) \in Nat \ {0}
  OBVIOUS
<1>2. r \in Seq(Call) /\ Len(r) = Len(s) /\ r # <<>>
  BY <1>1
<1>3. r[Len(s)] = c /\ \A k \in 1 .. Len(s) - 1 : r[k] = s[k]
  BY <1>1
<1>4. calls' = [calls EXCEPT ![t] = r]
  BY DEF Become
<1>5. calls'[t] = r /\ \A u \in Threads \ {t} : calls'[u] = calls[u]
  BY <1>4
<1>6. calls' \in [Threads -> Seq(Call)]
  <2> HIDE DEF r
  <2> QED BY <1>4, <1>2
<1> QED BY <1>1, <1>2, <1>3, <1>5, <1>6

LEMMA PushStack ==
  ASSUME calls \in [Threads -> Seq(Call)], NEW t \in Threads, NEW c \in Call,
         calls' = [calls EXCEPT ![t] = Append(@, c)]
  PROVE  /\ calls' \in [Threads -> Seq(Call)]
         /\ \A u \in Threads \ {t} : calls'[u] = calls[u]
         /\ Len(calls[t]) \in Nat
         /\ Len(calls'[t]) = Len(calls[t]) + 1
         /\ calls'[t] # <<>>
         /\ calls'[t][Len(calls[t]) + 1] = c
         /\ \A k \in 1 .. Len(calls[t]) : calls'[t][k] = calls[t][k]
<1> DEFINE s == calls[t]
           r == Append(s, c)
<1>1. s \in Seq(Call) /\ Len(s) \in Nat
  OBVIOUS
<1>2. r \in Seq(Call) /\ Len(r) = Len(s) + 1 /\ r # <<>>
  BY <1>1
<1>3. r[Len(s) + 1] = c /\ \A k \in 1 .. Len(s) : r[k] = s[k]
  BY <1>1
<1>4. calls' = [calls EXCEPT ![t] = r]
  OBVIOUS
<1>5. calls'[t] = r /\ \A u \in Threads \ {t} : calls'[u] = calls[u]
  BY <1>4
<1>6. calls' \in [Threads -> Seq(Call)]
  <2> HIDE DEF r
  <2> QED BY <1>4, <1>2
<1> QED BY <1>1, <1>2, <1>3, <1>5, <1>6

LEMMA PopStack ==
  ASSUME calls \in [Threads -> Seq(Call)], NEW t \in Threads, calls[t] # <<>>,
         calls' = [calls EXCEPT ![t] = SubSeq(@, 1, Len(@) - 1)]
  PROVE  /\ calls' \in [Threads -> Seq(Call)]
         /\ \A u \in Threads \ {t} : calls'[u] = calls[u]
         /\ Len(calls[t]) \in Nat \ {0}
         /\ Len(calls'[t]) = Len(calls[t]) - 1
         /\ calls'[t] = <<>> <=> Len(calls[t]) = 1
         /\ \A k \in 1 .. Len(calls[t]) - 1 : calls'[t][k] = calls[t][k]
<1> DEFINE s == calls[t]
           r == SubSeq(s, 1, Len(s) - 1)
<1>1. s \in Seq(Call) /\ s # <<>> /\ Len(s) \in Nat \ {0}
  OBVIOUS
<1>2. \A k \in 1 .. Len(s) - 1 : s[k] \in Call
  BY <1>1
<1>3. /\ r \in Seq(Call)
      /\ Len(r) = Len(s) - 1
      /\ \A k \in 1 .. Len(s) - 1 : r[k] = s[k]
  <2>1. 1 \in Int /\ Len(s) - 1 \in Int
    BY <1>1
  <2>2. /\ r \in Seq(Call)
        /\ Len(r) = IF 1 <= Len(s) - 1 THEN Len(s) - 1 - 1 + 1 ELSE 0
        /\ \A k \in 1 .. Len(s) - 1 - 1 + 1 : r[k] = s[1 + k - 1]
    BY ONLY <1>2, <2>1, SubSeqProperties
  <2> HIDE DEF r, s
  <2>3. Len(r) = Len(s) - 1
    <3> DEFINE n == Len(s)
               m == Len(r)
    <3>1. n \in Nat \ {0}
      BY <1>1
    <3>2. m = IF 1 <= n - 1 THEN n - 1 - 1 + 1 ELSE 0
      BY <2>2
    <3> HIDE DEF n, m
    <3>3. m = n - 1
      BY <3>1, <3>2
    <3> QED BY <3>3 DEF n, m
  <2>4. \A k \in 1 .. Len(s) - 1 : r[k] = s[k]
    BY <1>1, <2>2
  <2> QED BY <2>2, <2>3, <2>4
<1>4. r = <<>> <=> Len(s) = 1
  <2>1. CASE Len(s) = 1
    BY <1>1, <2>1, SubSeqEmpty
  <2>2. CASE Len(s) # 1
    <3>1. Len(r) # 0
      BY <1>1, <1>3, <2>2
    <3> QED BY <3>1, <2>2, EmptySeq
  <2> QED BY <2>1, <2>2
<1>5. calls' = [calls EXCEPT ![t] = r]
  OBVIOUS
<1>6. calls'[t] = r /\ \A u \in Threads \ {t} : calls'[u] = calls[u]
  BY <1>5
<1>7. calls' \in [Threads -> Seq(Call)]
  <2> HIDE DEF r
  <2> QED BY <1>5, <1>3
<1> QED BY <1>1, <1>3, <1>4, <1>6, <1>7

----------------------------------------------------------------------------
\* The others.

\* Nothing of another thread changes, and recording is not switched on again.
Others(t) ==
  /\ allCaptureDisabled => allCaptureDisabled'
  /\ \A u \in Threads \ {t} :
       /\ entries'[u] = entries[u]
       /\ step'[u] = step[u]
       /\ calls'[u] = calls[u]
       /\ modified'[u] = modified[u]
       /\ flow'[u] = flow[u]
       /\ snapshot'[u] = snapshot[u]
       /\ torn'[u] = torn[u]
       /\ executed'[u] = executed[u]
       /\ touched'[u] = touched[u]
       /\ u \in failed' <=> u \in failed
       /\ u \in erred' <=> u \in erred

\* A step that leaves a thread's own state alone preserves its invariant.
LEMMA OthersKeepTheirs ==
  ASSUME NEW t \in Threads, NEW u \in Threads \ {t}, ThreadInv(u), Others(t)
  PROVE  ThreadInv(u)'
<1> USE DEF Others
<1>1. Is(u, "flow")' <=> Is(u, "flow")
  BY DEF Is
<1>2. Is(u, "consume")' <=> Is(u, "consume")
  BY DEF Is
<1>3. Is(u, "catch")' <=> Is(u, "catch")
  BY DEF Is
<1>4. Is(u, "check")' <=> Is(u, "check")
  BY DEF Is
<1>5. Nesting(u)'
  BY DEF Nesting, ThreadInv
<1>6. Quiet(u)'
  BY DEF Quiet, ThreadInv
<1>7. Lines(u)'
  BY <1>1, <1>2, <1>3 DEF Lines, ThreadInv
<1>8. Snapshots(u)'
  BY <1>2 DEF Snapshots, ThreadInv
<1>9. Complete(u)'
  BY <1>2, <1>4 DEF Complete, ThreadInv
<1> QED BY <1>5, <1>6, <1>7, <1>8, <1>9 DEF ThreadInv

----------------------------------------------------------------------------
\* The innermost activation.

LEMMA Innermost ==
  ASSUME TypeOK, NEW t \in Threads, ThreadInv(t), NEW place, At(t, place)
  PROVE  /\ calls[t] # <<>>
         /\ Top(t) \in Call
         /\ Top(t).at = place
         /\ \/ Len(calls[t]) = 1 /\ Top(t) = calls[t][1]
            \/ Len(calls[t]) = 2 /\ Is(t, "consume") /\ place \in {"check", "finally"}
<1>1. calls[t] \in Seq(Call) /\ calls[t] # <<>>
  BY DEF TypeOK, CountersOK, At
<1>2. Len(calls[t]) \in Nat \ {0}
  BY <1>1
<1>3. Top(t) \in Call /\ Top(t).at = place
  BY <1>1, <1>2 DEF Top, At
<1>4. Len(calls[t]) = 1 \/ Len(calls[t]) = 2
  <2> DEFINE n == Len(calls[t])
  <2>1. n <= 2
    BY DEF ThreadInv, Nesting
  <2> HIDE DEF n
  <2>2. n \in Nat \ {0}
    BY <1>2 DEF n
  <2>3. n = 1 \/ n = 2
    BY <2>1, <2>2
  <2> QED BY <2>3 DEF n
<1>5. Len(calls[t]) = 2 => Is(t, "consume") /\ place \in {"check", "finally"}
  BY <1>1, <1>3 DEF ThreadInv, Nesting, Is, Top
<1> QED BY <1>1, <1>3, <1>4, <1>5 DEF Top

\* What GoTo does to the outermost activation.
LEMMA GoingTo ==
  ASSUME TypeOK, NEW t \in Threads, ThreadInv(t), NEW from, At(t, from),
         NEW to \in Places, GoTo(t, to)
  PROVE  /\ calls' \in [Threads -> Seq(Call)]
         /\ \A u \in Threads \ {t} : calls'[u] = calls[u]
         /\ calls'[t] # <<>>
         /\ Len(calls'[t]) = Len(calls[t])
         /\ Len(calls[t]) = 1 => /\ calls'[t][1].at = to
                                 /\ calls'[t][1].step = calls[t][1].step
                                 /\ calls'[t][1].sn = calls[t][1].sn
                                 /\ calls'[t][1].due = calls[t][1].due
         /\ Len(calls[t]) = 2 => calls'[t][1] = calls[t][1] /\ calls'[t][2].at = to
<1> DEFINE c == [Top(t) EXCEPT !.at = to]
<1>1. calls[t] # <<>> /\ Top(t) \in Call /\ (Len(calls[t]) = 1 => Top(t) = calls[t][1])
  BY Innermost
<1>2. /\ c \in Call
      /\ c.at = to
      /\ c.step = Top(t).step
      /\ c.sn = Top(t).sn
      /\ c.due = Top(t).due
  BY <1>1 DEF Call
<1>3. Become(t, c)
  BY DEF GoTo
<1>4. calls \in [Threads -> Seq(Call)]
  BY DEF TypeOK, CountersOK
<1> HIDE DEF c
<1>5. /\ calls' \in [Threads -> Seq(Call)]
      /\ \A u \in Threads \ {t} : calls'[u] = calls[u]
      /\ Len(calls'[t]) = Len(calls[t])
      /\ Len(calls[t]) \in Nat \ {0}
      /\ calls'[t] # <<>>
      /\ calls'[t][Len(calls[t])] = c
      /\ \A k \in 1 .. Len(calls[t]) - 1 : calls'[t][k] = calls[t][k]
  BY <1>1, <1>2, <1>3, <1>4, BecomeStack
<1>6. Len(calls[t]) = 1 => calls'[t][1] = c
  BY <1>5
<1>7. Len(calls[t]) = 2 => calls'[t][1] = calls[t][1] /\ calls'[t][2] = c
  BY <1>5
<1> QED BY <1>1, <1>2, <1>5, <1>6, <1>7

----------------------------------------------------------------------------
\* The program's steps.

LEMMA ModifyStep ==
  ASSUME TypeOK, NEW t \in Threads, ThreadInv(t), NEW x \in Objects, Modify(t, x)
  PROVE  TypeOK' /\ ThreadInv(t)' /\ Others(t)
<1>1. PICK disabled \in ReadsDisabled(t) :
        modified' = IF entries[t] >= 1 \/ disabled
                      THEN modified ELSE [modified EXCEPT ![t] = @ \union {x}]
  BY DEF Modify
<1>2. perThread' = perThread \union {t}
  BY DEF Modify, HasPerThread
<1>3. touched' = IF OnItsOwn(t) THEN [touched EXCEPT ![t] = @ \union {x}] ELSE touched
  BY DEF Modify
<1>4. UNCHANGED <<entries, step, calls, tag, files, switch, erred, executed, escaped>>
  BY DEF Modify
<1>5. modified' \in [Threads -> SUBSET Objects] /\ touched' \in [Threads -> SUBSET Objects]
  BY <1>1, <1>3 DEF TypeOK, FilesOK, HistoryOK
<1>6. TypeOK'
  BY <1>2, <1>4, <1>5 DEF TypeOK, CountersOK, FilesOK, HistoryOK, files, switch
<1>7. ~allCaptureDisabled => disabled = FALSE
  BY DEF ReadsDisabled
<1>8. ProgramRuns(t)
  BY DEF Modify
<1>9. calls[t] \in Seq(Call) /\ entries[t] \in Nat /\ entries[t] = Len(calls[t])
  BY DEF TypeOK, CountersOK, ThreadInv, Nesting
<1>10. OnItsOwn(t) => entries[t] = 0
  BY <1>9 DEF OnItsOwn
<1>11. ~OnItsOwn(t) => entries[t] >= 1
  BY <1>9 DEF OnItsOwn
<1>12. ~allCaptureDisabled /\ modified[t] = touched[t] => modified'[t] = touched'[t]
  BY <1>1, <1>3, <1>7, <1>10, <1>11 DEF TypeOK, FilesOK, HistoryOK
<1>13. \A p : Is(t, p)' <=> Is(t, p)
  BY <1>4 DEF Is
<1>14. Nesting(t)' /\ Quiet(t)'
  BY <1>4 DEF ThreadInv, Nesting, Quiet, switch
<1>15. Lines(t)' /\ Snapshots(t)'
  BY <1>4, <1>13 DEF ThreadInv, Lines, Snapshots, files, switch
<1>16. Complete(t)'
  BY <1>4, <1>12, <1>13 DEF ThreadInv, Complete, files, switch
<1>17. Others(t)
  BY <1>1, <1>3, <1>4 DEF Others, files, switch, TypeOK, FilesOK, HistoryOK
<1> QED BY <1>6, <1>14, <1>15, <1>16, <1>17 DEF ThreadInv

\* Tag and OpenFails change nothing the invariant speaks of.
LEMMA SilentStep ==
  ASSUME TypeOK, NEW t \in Threads, ThreadInv(t), Tag(t) \/ OpenFails(t)
  PROVE  TypeOK' /\ ThreadInv(t)' /\ Others(t)
<1>1. UNCHANGED <<entries, step, calls, modified, files, switch, erred, executed, touched>>
  BY DEF Tag, OpenFails, capture, trackers, history
<1>2. perThread' \subseteq Threads
  BY DEF Tag, OpenFails, HasPerThread, capture, TypeOK, CountersOK
<1>3. tag' \in [Threads -> BOOLEAN] /\ escaped' \in BOOLEAN
  BY DEF Tag, OpenFails, trackers, history, TypeOK, FilesOK, HistoryOK
<1>4. TypeOK'
  BY <1>1, <1>2, <1>3 DEF TypeOK, CountersOK, FilesOK, HistoryOK, files, switch
<1>5. \A p : Is(t, p)' <=> Is(t, p)
  BY <1>1 DEF Is
<1>6. Nesting(t)' /\ Quiet(t)'
  BY <1>1 DEF ThreadInv, Nesting, Quiet, switch
<1>7. Lines(t)' /\ Snapshots(t)' /\ Complete(t)'
  BY <1>1, <1>5 DEF ThreadInv, Lines, Snapshots, Complete, files, switch
<1>8. Others(t)
  BY <1>1 DEF Others, files, switch
<1> QED BY <1>4, <1>6, <1>7, <1>8 DEF ThreadInv

LEMMA LineStep ==
  ASSUME TypeOK, NEW t \in Threads, ThreadInv(t), Line(t)
  PROVE  TypeOK' /\ ThreadInv(t)' /\ Others(t)
<1> DEFINE c == [at |-> "check", step |-> 0, sn |-> {}, due |-> {}]
<1>1. c \in Call /\ c.at = "check"
  BY DEF Call, Places
<1>2. /\ calls' = [calls EXCEPT ![t] = Append(@, c)]
      /\ entries' = [entries EXCEPT ![t] = @ + 1]
      /\ perThread' = perThread \union {t}
      /\ UNCHANGED <<step, tag, modified, flow, snapshot, torn, allCaptureDisabled, failed,
                     erred, touched, escaped>>
  BY DEF Line, HasPerThread, trackers, files, switch
<1>3. IF OnItsOwn(t) THEN executed' = [executed EXCEPT ![t] = @ + 1] ELSE executed' = executed
  BY DEF Line
<1>4. calls \in [Threads -> Seq(Call)] /\ calls[t] \in Seq(Call)
  BY DEF TypeOK, CountersOK
<1> HIDE DEF c
<1>5. /\ calls' \in [Threads -> Seq(Call)]
      /\ \A u \in Threads \ {t} : calls'[u] = calls[u]
      /\ Len(calls[t]) \in Nat
      /\ Len(calls'[t]) = Len(calls[t]) + 1
      /\ calls'[t] # <<>>
      /\ calls'[t][Len(calls[t]) + 1] = c
      /\ \A k \in 1 .. Len(calls[t]) : calls'[t][k] = calls[t][k]
  BY <1>1, <1>2, <1>4, PushStack
<1>6. entries' \in [Threads -> Nat] /\ executed' \in [Threads -> Nat]
  BY <1>2, <1>3 DEF TypeOK, CountersOK, HistoryOK
<1>7. TypeOK'
  BY <1>2, <1>5, <1>6 DEF TypeOK, CountersOK, FilesOK, HistoryOK
<1>8. Others(t)
  BY <1>2, <1>3, <1>5 DEF Others, TypeOK, CountersOK, HistoryOK
<1>9. entries'[t] = Len(calls'[t])
  BY <1>2, <1>5 DEF ThreadInv, Nesting, TypeOK, CountersOK
<1>10. CASE OnItsOwn(t)
  <2>1. calls[t] = <<>> /\ Len(calls[t]) = 0
    BY <1>4, <1>10 DEF OnItsOwn
  <2>2. Len(calls'[t]) = 1 /\ calls'[t][1].at = "check"
    BY <1>1, <1>5, <2>1
  <2>3. \A p : ~Is(t, p) /\ (Is(t, p)' <=> p = "check")
    BY <1>5, <2>1, <2>2 DEF Is
  <2>4. Nesting(t)' /\ Quiet(t)'
    BY <1>2, <1>9, <2>2 DEF ThreadInv, Nesting, Quiet
  <2>5. Lines(t)' /\ Snapshots(t)'
    BY <1>2, <2>3 DEF ThreadInv, Lines, Snapshots
  <2>6. executed'[t] = executed[t] + 1
    BY <1>3, <1>10 DEF TypeOK, HistoryOK
  <2>7. Complete(t)'
    <3>1. Is(t, "check")' /\ ~Is(t, "consume")' /\ ~Is(t, "check")
      BY <2>3
    <3>2. ~allCaptureDisabled /\ t \notin erred => executed'[t] = step[t] + 1
      BY <2>6, <3>1 DEF ThreadInv, Complete, TypeOK, CountersOK
    <3> QED BY <1>2, <3>1, <3>2 DEF ThreadInv, Complete
  <2> QED BY <1>7, <1>8, <2>4, <2>5, <2>7 DEF ThreadInv
<1>11. CASE ~OnItsOwn(t)
  <2>1. At(t, "consume")
    BY <1>11 DEF Line, ProgramRuns, OnItsOwn
  <2>2. Len(calls[t]) = 1 /\ Top(t) = calls[t][1] /\ Top(t).at = "consume" /\ calls[t] # <<>>
    BY <2>1, Innermost
  <2>3. Len(calls'[t]) = 2 /\ calls'[t][1] = calls[t][1] /\ calls'[t][2].at = "check"
    BY <1>1, <1>5, <2>2
  <2>4. \A p : Is(t, p)' <=> Is(t, p)
    BY <1>5, <2>2, <2>3 DEF Is
  <2>5. Nesting(t)'
    BY <1>9, <2>2, <2>3 DEF Nesting
  <2>6. Quiet(t)'
    BY <1>2, <1>5, <2>2, <2>3 DEF ThreadInv, Quiet
  <2>7. executed' = executed
    BY <1>3, <1>11
  <2>8. Lines(t)' /\ Snapshots(t)'
    BY <1>2, <2>3, <2>4 DEF ThreadInv, Lines, Snapshots
  <2>9. Complete(t)'
    BY <1>2, <2>3, <2>4, <2>7 DEF ThreadInv, Complete
  <2> QED BY <1>7, <1>8, <2>5, <2>6, <2>8, <2>9 DEF ThreadInv
<1> QED BY <1>10, <1>11

----------------------------------------------------------------------------
\* The agent's steps.

LEMMA CheckStep ==
  ASSUME TypeOK, NEW t \in Threads, ThreadInv(t), Check(t)
  PROVE  TypeOK' /\ ThreadInv(t)' /\ Others(t)
<1>1. PICK disabled \in ReadsDisabled(t) :
        IF entries[t] > 1 \/ disabled
          THEN GoTo(t, "finally") /\ UNCHANGED step
          ELSE /\ Become(t, [Top(t) EXCEPT !.at = "flow", !.step = step[t]])
               /\ step' = [step EXCEPT ![t] = @ + 1]
  BY DEF Check
<1>2. UNCHANGED <<perThread, entries, tag, modified, flow, snapshot, torn, allCaptureDisabled,
                  failed, erred, executed, touched, escaped>>
  BY DEF Check, trackers, files, switch, history
<1>3. At(t, "check")
  BY DEF Check
<1>4. /\ calls[t] # <<>>
      /\ Top(t) \in Call
      /\ Top(t).at = "check"
      /\ \/ Len(calls[t]) = 1 /\ Top(t) = calls[t][1]
         \/ Len(calls[t]) = 2 /\ Is(t, "consume")
  BY <1>3, Innermost
<1>5. entries[t] = Len(calls[t])
  BY DEF ThreadInv, Nesting
<1>6. CASE entries[t] > 1 \/ disabled
  <2>1. GoTo(t, "finally") /\ step' = step /\ "finally" \in Places
    BY <1>1, <1>6 DEF Places
  <2>2. /\ calls' \in [Threads -> Seq(Call)]
        /\ \A u \in Threads \ {t} : calls'[u] = calls[u]
        /\ calls'[t] # <<>>
        /\ Len(calls'[t]) = Len(calls[t])
        /\ Len(calls[t]) = 1 => calls'[t][1].at = "finally"
        /\ Len(calls[t]) = 2 => calls'[t][1] = calls[t][1] /\ calls'[t][2].at = "finally"
    BY <1>3, <2>1, GoingTo
  <2>3. TypeOK' /\ Others(t)
    BY <1>2, <2>1, <2>2 DEF TypeOK, CountersOK, FilesOK, HistoryOK, Others
  <2>4. CASE Len(calls[t]) = 1
    <3>1. \A p : (Is(t, p)' <=> p = "finally") /\ (Is(t, p) <=> p = "check")
      BY <1>4, <2>2, <2>4 DEF Is
    <3>2. allCaptureDisabled
      BY <1>5, <1>6, <2>4 DEF ReadsDisabled
    <3>3. Nesting(t)' /\ Quiet(t)'
      BY <1>2, <1>5, <2>2, <2>4, <3>2 DEF Nesting, Quiet
    <3>4. Lines(t)' /\ Snapshots(t)' /\ Complete(t)'
      BY <1>2, <2>1, <3>1, <3>2 DEF ThreadInv, Lines, Snapshots, Complete
    <3> QED BY <2>3, <3>3, <3>4 DEF ThreadInv
  <2>5. CASE Len(calls[t]) = 2
    <3>1. \A p : Is(t, p)' <=> Is(t, p)
      BY <1>4, <2>2, <2>5 DEF Is
    <3>2. Nesting(t)' /\ Quiet(t)'
      BY <1>2, <1>4, <1>5, <2>2, <2>5 DEF ThreadInv, Nesting, Quiet, Is
    <3>3. Lines(t)' /\ Snapshots(t)' /\ Complete(t)'
      BY <1>2, <2>1, <2>2, <2>5, <3>1 DEF ThreadInv, Lines, Snapshots, Complete
    <3> QED BY <2>3, <3>2, <3>3 DEF ThreadInv
  <2> QED BY <1>4, <2>4, <2>5
<1>7. CASE ~(entries[t] > 1 \/ disabled)
  <2> DEFINE c == [Top(t) EXCEPT !.at = "flow", !.step = step[t]]
  <2>1. Len(calls[t]) = 1 /\ Top(t) = calls[t][1]
    <3>1. ~(entries[t] > 1)
      BY <1>7
    <3>2. Len(calls[t]) # 2
      BY SMTT(30), <1>5, <3>1
    <3> QED BY <1>4, <3>2
  <2>2. step \in [Threads -> Nat] /\ calls \in [Threads -> Seq(Call)]
    BY DEF TypeOK, CountersOK
  <2>3. c \in Call /\ c.at = "flow" /\ c.step = step[t]
    BY <1>4, <2>2 DEF Call, Places
  <2>4. Become(t, c) /\ step' = [step EXCEPT ![t] = @ + 1]
    BY <1>1, <1>7
  <2> HIDE DEF c
  <2>5. /\ calls' \in [Threads -> Seq(Call)]
        /\ \A u \in Threads \ {t} : calls'[u] = calls[u]
        /\ Len(calls'[t]) = Len(calls[t])
        /\ calls'[t] # <<>>
        /\ calls'[t][Len(calls[t])] = c
    BY <1>4, <2>2, <2>3, <2>4, BecomeStack
  <2>6. Len(calls'[t]) = 1 /\ calls'[t][1].at = "flow" /\ calls'[t][1].step = step[t]
    BY <2>1, <2>3, <2>5
  <2>7. step'[t] = step[t] + 1 /\ step[t] \in Nat /\ step' \in [Threads -> Nat]
        /\ \A u \in Threads \ {t} : step'[u] = step[u]
    BY <2>2, <2>4
  <2>8. TypeOK' /\ Others(t)
    BY <1>2, <2>5, <2>7 DEF TypeOK, CountersOK, FilesOK, HistoryOK, Others
  <2>9. \A p : (Is(t, p)' <=> p = "flow") /\ (Is(t, p) <=> p = "check")
    BY <1>4, <2>1, <2>5, <2>6 DEF Is
  <2>10. t \notin failed
    BY <1>7 DEF ReadsDisabled, ThreadInv, Quiet
  <2>11. Nesting(t)' /\ Quiet(t)'
    BY <1>2, <1>5, <2>1, <2>6, <2>10 DEF Nesting, Quiet
  <2>12. t \notin erred => torn[t] = {} /\ step[t] = Len(flow[t])
    <3>1. Len(flow[t]) \in Nat
      BY DEF TypeOK, FilesOK
    <3>2. ~Is(t, "flow") /\ ~Is(t, "catch")
      BY <2>9
    <3>3. t \notin erred => torn[t] = {} /\ step[t] = Len(flow[t]) + 0
      BY <2>10, <3>2 DEF ThreadInv, Lines
    <3> QED BY <3>1, <3>3
  <2>13. Lines(t)'
    BY <1>2, <2>6, <2>7, <2>9, <2>12 DEF ThreadInv, Lines
  <2>14. Snapshots(t)'
    BY <1>2, <2>9 DEF ThreadInv, Snapshots
  <2>15. Complete(t)'
    <3>1. ~Is(t, "check")' /\ ~Is(t, "consume")' /\ Is(t, "check")
      BY <2>9
    <3>2. ~allCaptureDisabled /\ t \notin erred => executed[t] = step'[t] + 0
      BY <2>7, <3>1 DEF ThreadInv, Complete
    <3> QED BY <1>2, <3>1, <3>2 DEF ThreadInv, Complete
  <2> QED BY <2>8, <2>11, <2>13, <2>14, <2>15 DEF ThreadInv
<1> QED BY <1>6, <1>7

\* A line appended to a file.
LEMMA EndLineFile ==
  ASSUME NEW t \in Threads, NEW f, NEW Line_, NEW lines, NEW lines_,
         lines \in [Threads -> Seq(Line_)], NEW line \in Line_,
         lines_ = [lines EXCEPT ![t] = Append(@, line)]
  PROVE  /\ lines_ \in [Threads -> Seq(Line_)]
         /\ \A u \in Threads \ {t} : lines_[u] = lines[u]
         /\ Len(lines[t]) \in Nat
         /\ Len(lines_[t]) = Len(lines[t]) + 1
         /\ \A k \in 1 .. Len(lines[t]) : lines_[t][k] = lines[t][k]
         /\ lines_[t][Len(lines[t]) + 1] = line
<1>1. lines[t] \in Seq(Line_)
  OBVIOUS
<1>2. Append(lines[t], line) \in Seq(Line_)
  BY <1>1
<1> QED BY <1>1, <1>2

LEMMA PackFlowStep ==
  ASSUME TypeOK, NEW t \in Threads, ThreadInv(t), PackFlow(t)
  PROVE  TypeOK' /\ ThreadInv(t)' /\ Others(t)
<1> DEFINE c == [Top(t) EXCEPT !.at = IF modified[t] = {} THEN "finally" ELSE "consume",
                               !.sn = modified[t], !.due = touched[t]]
           line == [step |-> Top(t).step, tagged |-> tag[t], whole |-> "flow" \notin torn[t]]
           n == Len(flow[t])
<1>1. At(t, "flow") /\ Become(t, c)
  BY DEF PackFlow
<1>2. /\ calls[t] # <<>>
      /\ Top(t) \in Call
      /\ Len(calls[t]) = 1
      /\ Top(t) = calls[t][1]
      /\ Top(t).at = "flow"
  BY <1>1, Innermost
<1>3. /\ flow' = [flow EXCEPT ![t] = Append(@, line)]
      /\ torn' = [torn EXCEPT ![t] = @ \ {"flow"}]
      /\ tag' = [tag EXCEPT ![t] = FALSE]
      /\ modified' = [modified EXCEPT ![t] = {}]
      /\ touched' = [touched EXCEPT ![t] = {}]
      /\ UNCHANGED <<perThread, entries, step, snapshot, allCaptureDisabled, failed, erred,
                     executed, escaped>>
  <2> DEFINE blank == [step |-> Top(t).step, tagged |-> tag[t], whole |-> TRUE]
  <2>1. line = [blank EXCEPT !.whole = "flow" \notin torn[t]]
    OBVIOUS
  <2> HIDE DEF line
  <2>2. flow' = [flow EXCEPT ![t] = Append(@, line)]
    BY <2>1 DEF PackFlow, EndLine
  <2> QED BY <2>2 DEF PackFlow, EndLine, switch
<1>4. /\ c \in Call
      /\ c.at \in {"finally", "consume"}
      /\ c.step = Top(t).step
      /\ c.sn = modified[t]
      /\ c.due = touched[t]
  BY <1>2 DEF Call, Places, TypeOK, FilesOK, HistoryOK
<1>5. /\ line \in [step : Nat, tagged : BOOLEAN, whole : BOOLEAN]
      /\ line.step = Top(t).step
      /\ line.whole = ("flow" \notin torn[t])
  BY <1>2 DEF Call, TypeOK, FilesOK
<1>6. calls \in [Threads -> Seq(Call)]
  BY DEF TypeOK, CountersOK
<1> HIDE DEF c, line
<1>7. /\ calls' \in [Threads -> Seq(Call)]
      /\ \A u \in Threads \ {t} : calls'[u] = calls[u]
      /\ Len(calls'[t]) = Len(calls[t])
      /\ calls'[t] # <<>>
      /\ calls'[t][Len(calls[t])] = c
  BY <1>1, <1>2, <1>4, <1>6, BecomeStack
<1>8. Len(calls'[t]) = 1 /\ calls'[t][1] = c
  BY <1>2, <1>7
<1>9. /\ flow' \in [Threads -> Seq([step : Nat, tagged : BOOLEAN, whole : BOOLEAN])]
      /\ \A u \in Threads \ {t} : flow'[u] = flow[u]
      /\ n \in Nat
      /\ Len(flow'[t]) = n + 1
      /\ \A k \in 1 .. n : flow'[t][k] = flow[t][k]
      /\ flow'[t][n + 1] = line
  BY <1>3, <1>5, EndLineFile DEF TypeOK, FilesOK
<1>10. TypeOK'
  BY <1>3, <1>7, <1>9 DEF TypeOK, CountersOK, FilesOK, HistoryOK
<1>11. Others(t)
  BY <1>3, <1>7, <1>9 DEF Others, TypeOK, FilesOK, HistoryOK
<1>12. \A p : (Is(t, p)' <=> p = c.at) /\ (Is(t, p) <=> p = "flow")
  BY <1>2, <1>7, <1>8 DEF Is
<1>13. t \notin failed
  BY <1>2 DEF ThreadInv, Quiet
<1>14. Nesting(t)' /\ Quiet(t)'
  BY <1>2, <1>3, <1>8, <1>13 DEF ThreadInv, Nesting, Quiet
<1>15. t \notin erred => torn[t] = {} /\ step[t] = n + 1 /\ Top(t).step = n
  <2>1. Is(t, "flow") /\ ~Is(t, "catch")
    BY <1>12
  <2> QED BY <1>2, <1>13, <2>1 DEF ThreadInv, Lines
<1>16. ~Is(t, "flow")' /\ ~Is(t, "check")' /\ ~Is(t, "check") /\ ~Is(t, "consume")
  BY <1>4, <1>12
<1>17. Lines(t)'
  <2> SUFFICES ASSUME t \notin erred
               PROVE  Lines(t)'
    BY <1>3 DEF Lines
  <2> HIDE DEF n
  <2>1. torn[t] = {} /\ step[t] = n + 1 /\ Top(t).step = n
    BY <1>15
  <2>2. \A k \in 1 .. n : flow[t][k].step = k - 1 /\ flow[t][k].whole
    BY DEF ThreadInv, Lines, n
  <2>3. line.step = n /\ line.whole
    BY <1>5, <2>1
  <2>4. \A k \in 1 .. n + 1 : flow'[t][k].step = k - 1 /\ flow'[t][k].whole
    <3> TAKE k \in 1 .. n + 1
    <3>1. CASE k = n + 1
      <4>1. flow'[t][k] = line /\ k - 1 = n
        BY <1>9, <3>1
      <4> QED BY <2>3, <4>1
    <3>2. CASE k \in 1 .. n
      BY <1>9, <2>2, <3>2
    <3> QED BY <1>9, <3>1, <3>2
  <2>5. torn'[t] = {}
    BY <1>3, <2>1 DEF TypeOK, FilesOK
  <2>6. step'[t] = Len(flow'[t]) + 0
    BY <1>3, <1>9, <2>1
  <2>7. calls'[t][1].step = Len(flow'[t]) - 1
    BY <1>4, <1>8, <1>9, <2>1
  <2> QED BY <1>9, <1>16, <2>4, <2>5, <2>6, <2>7 DEF Lines
<1>18. Snapshots(t)'
  <2> SUFFICES ASSUME t \notin erred
               PROVE  Snapshots(t)'
    BY <1>3 DEF Snapshots
  <2> HIDE DEF n
  <2>1. \A k \in 1 .. Len(snapshot[t]) :
          /\ snapshot[t][k].i < n
          /\ snapshot[t][k].whole
          /\ k > 1 => snapshot[t][k - 1].i < snapshot[t][k].i
    BY DEF ThreadInv, Snapshots, n
  <2>2. \A k \in 1 .. Len(snapshot[t]) : snapshot[t][k].i \in Nat
    <3> DEFINE S == [i : Nat, sn : SUBSET Objects, due : SUBSET Objects, whole : BOOLEAN]
    <3>1. snapshot[t] \in Seq(S)
      BY DEF TypeOK, FilesOK
    <3>2. \A r \in S : r.i \in Nat
      OBVIOUS
    <3> HIDE DEF S
    <3>3. \A k \in 1 .. Len(snapshot[t]) : snapshot[t][k] \in S
      BY <3>1
    <3> QED BY <3>2, <3>3
  <2>3. \A k \in 1 .. Len(snapshot[t]) : snapshot[t][k].i < Len(flow'[t])
    BY <1>9, <2>1, <2>2
  <2>4. \A k \in 1 .. Len(snapshot[t]) : snapshot[t][k].i < calls'[t][1].step
    BY <1>4, <1>8, <1>15, <2>1
  <2> QED BY <1>3, <2>1, <2>3, <2>4 DEF Snapshots
<1>19. Complete(t)'
  <2> SUFFICES ASSUME ~allCaptureDisabled, t \notin erred
               PROVE  Complete(t)'
    BY <1>3 DEF Complete
  <2>1. /\ executed[t] = step[t] + 0
        /\ modified[t] = touched[t]
        /\ \A k \in 1 .. Len(snapshot[t]) : snapshot[t][k].sn = snapshot[t][k].due
    BY <1>16 DEF ThreadInv, Complete
  <2>2. modified'[t] = touched'[t]
    BY <1>3 DEF TypeOK, FilesOK, HistoryOK
  <2>3. calls'[t][1].sn = calls'[t][1].due
    BY <1>4, <1>8, <2>1
  <2> QED BY <1>3, <1>16, <2>1, <2>2, <2>3 DEF Complete
<1> QED BY <1>10, <1>11, <1>14, <1>17, <1>18, <1>19 DEF ThreadInv

LEMMA PackSnapshotStep ==
  ASSUME TypeOK, NEW t \in Threads, ThreadInv(t), PackSnapshot(t)
  PROVE  TypeOK' /\ ThreadInv(t)' /\ Others(t)
<1> DEFINE line == [i |-> Top(t).step, sn |-> Top(t).sn, due |-> Top(t).due,
                    whole |-> "snapshot" \notin torn[t]]
           n == Len(snapshot[t])
<1>1. At(t, "consume") /\ GoTo(t, "finally") /\ "finally" \in Places
  BY DEF PackSnapshot, Places
<1>2. /\ calls[t] # <<>>
      /\ Top(t) \in Call
      /\ Len(calls[t]) = 1
      /\ Top(t) = calls[t][1]
      /\ Top(t).at = "consume"
  BY <1>1, Innermost
<1>3. /\ snapshot' = [snapshot EXCEPT ![t] = Append(@, line)]
      /\ torn' = [torn EXCEPT ![t] = @ \ {"snapshot"}]
      /\ UNCHANGED <<perThread, entries, step, tag, modified, flow, allCaptureDisabled, failed,
                     erred, executed, touched, escaped>>
  <2> DEFINE blank == [i |-> Top(t).step, sn |-> Top(t).sn, due |-> Top(t).due, whole |-> TRUE]
  <2>1. line = [blank EXCEPT !.whole = "snapshot" \notin torn[t]]
    OBVIOUS
  <2> HIDE DEF line
  <2>2. snapshot' = [snapshot EXCEPT ![t] = Append(@, line)]
    BY <2>1 DEF PackSnapshot, EndLine
  <2> QED BY <2>2 DEF PackSnapshot, EndLine, trackers, switch, history
<1>4. /\ line \in [i : Nat, sn : SUBSET Objects, due : SUBSET Objects, whole : BOOLEAN]
      /\ line.i = Top(t).step
      /\ line.sn = Top(t).sn
      /\ line.due = Top(t).due
      /\ line.whole = ("snapshot" \notin torn[t])
  BY <1>2 DEF Call
<1>5. /\ calls' \in [Threads -> Seq(Call)]
      /\ \A u \in Threads \ {t} : calls'[u] = calls[u]
      /\ calls'[t] # <<>>
      /\ Len(calls'[t]) = Len(calls[t])
      /\ calls'[t][1].at = "finally"
  BY <1>1, <1>2, GoingTo
<1> HIDE DEF line
<1>6. /\ snapshot' \in [Threads -> Seq([i : Nat, sn : SUBSET Objects, due : SUBSET Objects,
                                        whole : BOOLEAN])]
      /\ \A u \in Threads \ {t} : snapshot'[u] = snapshot[u]
      /\ n \in Nat
      /\ Len(snapshot'[t]) = n + 1
      /\ \A k \in 1 .. n : snapshot'[t][k] = snapshot[t][k]
      /\ snapshot'[t][n + 1] = line
  <2> DEFINE S == [i : Nat, sn : SUBSET Objects, due : SUBSET Objects, whole : BOOLEAN]
  <2>1. snapshot \in [Threads -> Seq(S)] /\ line \in S
    BY <1>4 DEF TypeOK, FilesOK
  <2> HIDE DEF S
  <2>2. snapshot' = [snapshot EXCEPT ![t] = Append(@, line)]
    BY <1>3
  <2>3. /\ snapshot' \in [Threads -> Seq(S)]
        /\ \A u \in Threads \ {t} : snapshot'[u] = snapshot[u]
        /\ n \in Nat
        /\ Len(snapshot'[t]) = n + 1
        /\ \A k \in 1 .. n : snapshot'[t][k] = snapshot[t][k]
        /\ snapshot'[t][n + 1] = line
    BY <2>1, <2>2, EndLineFile
  <2> QED BY <2>3 DEF S
<1>7. TypeOK'
  BY <1>3, <1>5, <1>6 DEF TypeOK, CountersOK, FilesOK, HistoryOK
<1>8. Others(t)
  BY <1>3, <1>5, <1>6 DEF Others, TypeOK, FilesOK
<1>9. \A p : (Is(t, p)' <=> p = "finally") /\ (Is(t, p) <=> p = "consume")
  BY <1>2, <1>5 DEF Is
<1>10. Nesting(t)' /\ Quiet(t)'
  BY <1>2, <1>3, <1>5 DEF ThreadInv, Nesting, Quiet
<1>11. t \notin failed
  BY <1>2 DEF ThreadInv, Quiet
<1>12. t \notin erred => /\ torn[t] = {}
                         /\ step[t] = Len(flow[t]) + 0
                         /\ Top(t).step = Len(flow[t]) - 1
  <2>1. ~Is(t, "flow") /\ ~Is(t, "catch") /\ Is(t, "consume")
    BY <1>9
  <2> QED BY <1>2, <1>11, <2>1 DEF ThreadInv, Lines
<1>13. ~Is(t, "flow")' /\ ~Is(t, "consume")' /\ ~Is(t, "check")' /\ ~Is(t, "check")
  BY <1>9
<1>14. Lines(t)'
  <2> SUFFICES ASSUME t \notin erred
               PROVE  Lines(t)'
    BY <1>3 DEF Lines
  <2>1. torn'[t] = {}
    BY <1>3, <1>12 DEF TypeOK, FilesOK
  <2> QED BY <1>3, <1>12, <1>13, <2>1 DEF ThreadInv, Lines
<1>15. Snapshots(t)'
  <2> SUFFICES ASSUME t \notin erred
               PROVE  Snapshots(t)'
    BY <1>3 DEF Snapshots
  <2>1. \A k \in 1 .. Len(snapshot[t]) :
          /\ snapshot[t][k].i < Len(flow[t])
          /\ snapshot[t][k].whole
          /\ k > 1 => snapshot[t][k - 1].i < snapshot[t][k].i
          /\ snapshot[t][k].i < Top(t).step
    BY <1>2, <1>9 DEF ThreadInv, Snapshots
  <2>2. Len(flow[t]) \in Nat
    BY DEF TypeOK, FilesOK
  <2> DEFINE m == Len(flow[t])
  <2>3. line.i = m - 1 /\ line.whole
    BY <1>4, <1>12
  <2> HIDE DEF n, m
  <2>4. \A k \in 1 .. n :
          /\ snapshot'[t][k].i < m
          /\ snapshot'[t][k].whole
          /\ snapshot'[t][k].i < line.i
    BY <1>4, <1>6, <2>1 DEF n, m
  <2>5. \A k \in 1 .. n : k > 1 => snapshot'[t][k - 1].i < snapshot'[t][k].i
    <3> TAKE k \in 1 .. n
    <3> HAVE k > 1
    <3>1. k - 1 \in 1 .. n
      BY <1>6
    <3>2. snapshot'[t][k - 1] = snapshot[t][k - 1] /\ snapshot'[t][k] = snapshot[t][k]
      BY <1>6, <3>1
    <3> QED BY <2>1, <3>2 DEF n
  <2>6. \A k \in 1 .. n + 1 :
          /\ snapshot'[t][k].i < m
          /\ snapshot'[t][k].whole
          /\ k > 1 => snapshot'[t][k - 1].i < snapshot'[t][k].i
    <3> TAKE k \in 1 .. n + 1
    <3>1. CASE k \in 1 .. n
      BY <2>4, <2>5, <3>1
    <3>2. CASE k = n + 1
      <4>1. snapshot'[t][k] = line /\ line.i < m /\ line.whole
        BY <1>6, <2>2, <2>3, <3>2 DEF m
      <4>2. k > 1 => k - 1 \in 1 .. n
        BY <1>6, <3>2
      <4> QED BY <2>4, <4>1, <4>2
    <3> QED BY <1>6, <3>1, <3>2
  <2> QED BY <1>3, <1>6, <1>13, <2>6 DEF Snapshots, m
<1>16. Complete(t)'
  <2> SUFFICES ASSUME ~allCaptureDisabled, t \notin erred
               PROVE  Complete(t)'
    BY <1>3 DEF Complete
  <2>1. /\ executed[t] = step[t] + 0
        /\ modified[t] = touched[t]
        /\ Top(t).sn = Top(t).due
        /\ \A k \in 1 .. n : snapshot[t][k].sn = snapshot[t][k].due
    BY <1>2, <1>9, <1>13 DEF ThreadInv, Complete
  <2> HIDE DEF n
  <2>2. \A k \in 1 .. n + 1 : snapshot'[t][k].sn = snapshot'[t][k].due
    <3> TAKE k \in 1 .. n + 1
    <3>1. CASE k \in 1 .. n
      BY <1>6, <2>1, <3>1
    <3>2. CASE k = n + 1
      BY <1>4, <1>6, <2>1, <3>2
    <3> QED BY <1>6, <3>1, <3>2
  <2> QED BY <1>3, <1>6, <1>13, <2>1, <2>2 DEF Complete
<1> QED BY <1>7, <1>8, <1>10, <1>14, <1>15, <1>16 DEF ThreadInv

\* A packer breaks off: at "flow" or at "consume", the activation is the only one.
LEMMA BreakOffStep ==
  ASSUME TypeOK, NEW t \in Threads, ThreadInv(t),
         PackFlowThrows(t) \/ PackSnapshotThrows(t)
  PROVE  TypeOK' /\ ThreadInv(t)' /\ Others(t)
<1>1. PICK f \in Files, place \in {"flow", "consume"} :
        BreakOff(t, f) /\ At(t, place)
  BY DEF PackFlowThrows, PackSnapshotThrows, Files
<1>2. tag' \in [Threads -> BOOLEAN]
  BY DEF PackFlowThrows, PackSnapshotThrows, TypeOK, FilesOK
<1>3. /\ torn' \in {torn, [torn EXCEPT ![t] = @ \union {f}]}
      /\ UNCHANGED <<perThread, entries, step, modified, flow, snapshot, allCaptureDisabled,
                     failed, executed, touched, escaped>>
  BY <1>1 DEF BreakOff, switch
<1>4. PICK to \in {"catch", "finally"} :
        /\ GoTo(t, to)
        /\ to = "catch" => erred' = erred
        /\ to = "finally" => erred' = erred \union {t}
  BY <1>1 DEF BreakOff
<1>5. /\ calls[t] # <<>>
      /\ Len(calls[t]) = 1
      /\ calls[t][1].at = place
  BY <1>1, Innermost
<1>6. /\ calls' \in [Threads -> Seq(Call)]
      /\ \A u \in Threads \ {t} : calls'[u] = calls[u]
      /\ calls'[t] # <<>>
      /\ Len(calls'[t]) = 1
      /\ calls'[t][1].at = to
  <2>1. to \in Places
    BY DEF Places
  <2> QED BY <1>1, <1>4, <1>5, <2>1, GoingTo
<1>7. torn' \in [Threads -> SUBSET Files] /\ \A u \in Threads \ {t} : torn'[u] = torn[u]
  BY <1>3 DEF TypeOK, FilesOK
<1>8. erred' \subseteq Threads /\ \A u \in Threads \ {t} : u \in erred' <=> u \in erred
  BY <1>4 DEF TypeOK, HistoryOK
<1>9. TypeOK' /\ Others(t)
  BY <1>2, <1>3, <1>6, <1>7, <1>8 DEF TypeOK, CountersOK, FilesOK, HistoryOK, Others
<1>10. t \notin failed
  BY <1>1, <1>5 DEF ThreadInv, Quiet
<1>11. Nesting(t)' /\ Quiet(t)'
  BY <1>3, <1>5, <1>6, <1>10 DEF ThreadInv, Nesting, Quiet
<1>12. \A p : (Is(t, p)' <=> p = to) /\ (Is(t, p) <=> p = place)
  BY <1>5, <1>6 DEF Is
<1>13. t \notin erred' => t \notin erred /\ to = "catch"
  BY <1>4
<1>14. ~Is(t, "flow")' /\ ~Is(t, "consume")' /\ ~Is(t, "check")' /\ ~Is(t, "check")
  BY <1>12
<1>15. Lines(t)'
  <2> SUFFICES ASSUME t \notin erred'
               PROVE  Lines(t)'
    BY DEF Lines
  <2>1. Is(t, "catch")' /\ t \notin erred
    BY <1>12, <1>13
  <2> QED BY <1>3, <1>14, <2>1 DEF ThreadInv, Lines
<1>16. Snapshots(t)'
  BY <1>3, <1>13, <1>14 DEF ThreadInv, Snapshots
<1>17. Complete(t)'
  BY <1>3, <1>13, <1>14 DEF ThreadInv, Complete
<1> QED BY <1>9, <1>11, <1>15, <1>16, <1>17 DEF ThreadInv

LEMMA CatchStep ==
  ASSUME TypeOK, NEW t \in Threads, ThreadInv(t), Catch(t)
  PROVE  TypeOK' /\ ThreadInv(t)' /\ Others(t)
<1>1. At(t, "catch") /\ GoTo(t, "finally") /\ "finally" \in Places
  BY DEF Catch, Places
<1>2. /\ allCaptureDisabled' = TRUE
      /\ failed' = failed \union {t}
      /\ UNCHANGED <<perThread, entries, step, tag, modified, flow, snapshot, torn, erred,
                     executed, touched, escaped>>
  BY DEF Catch, trackers, files, history
<1>3. /\ calls[t] # <<>>
      /\ Len(calls[t]) = 1
      /\ calls[t][1].at = "catch"
  BY <1>1, Innermost
<1>4. /\ calls' \in [Threads -> Seq(Call)]
      /\ \A u \in Threads \ {t} : calls'[u] = calls[u]
      /\ calls'[t] # <<>>
      /\ Len(calls'[t]) = 1
      /\ calls'[t][1].at = "finally"
  BY <1>1, <1>3, GoingTo
<1>5. TypeOK' /\ Others(t)
  BY <1>2, <1>4 DEF TypeOK, CountersOK, FilesOK, HistoryOK, Others
<1>6. Nesting(t)' /\ Quiet(t)'
  BY <1>2, <1>3, <1>4 DEF ThreadInv, Nesting, Quiet
<1>7. ~Is(t, "flow")' /\ ~Is(t, "consume")'
  BY <1>4 DEF Is
<1>8. Lines(t)' /\ Snapshots(t)' /\ Complete(t)'
  BY <1>2, <1>7 DEF ThreadInv, Lines, Snapshots, Complete
<1> QED BY <1>5, <1>6, <1>8 DEF ThreadInv

LEMMA FinallyStep ==
  ASSUME TypeOK, NEW t \in Threads, ThreadInv(t), Finally(t)
  PROVE  TypeOK' /\ ThreadInv(t)' /\ Others(t)
<1>1. At(t, "finally")
  BY DEF Finally
<1>2. /\ entries' = [entries EXCEPT ![t] = @ - 1]
      /\ calls' = [calls EXCEPT ![t] = SubSeq(@, 1, Len(@) - 1)]
      /\ UNCHANGED <<perThread, step, tag, modified, flow, snapshot, torn, allCaptureDisabled,
                     failed, erred, executed, touched, escaped>>
  BY DEF Finally, trackers, files, switch, history
<1>3. /\ calls[t] # <<>>
      /\ Top(t).at = "finally"
      /\ \/ Len(calls[t]) = 1 /\ Top(t) = calls[t][1]
         \/ Len(calls[t]) = 2 /\ Is(t, "consume")
  BY <1>1, Innermost
<1>4. calls \in [Threads -> Seq(Call)]
  BY DEF TypeOK, CountersOK
<1>5. /\ calls' \in [Threads -> Seq(Call)]
      /\ \A u \in Threads \ {t} : calls'[u] = calls[u]
      /\ Len(calls[t]) \in Nat \ {0}
      /\ Len(calls'[t]) = Len(calls[t]) - 1
      /\ calls'[t] = <<>> <=> Len(calls[t]) = 1
      /\ \A k \in 1 .. Len(calls[t]) - 1 : calls'[t][k] = calls[t][k]
  BY <1>2, <1>3, <1>4, PopStack
<1>6. entries[t] = Len(calls[t])
  BY DEF ThreadInv, Nesting
<1>7. /\ entries' \in [Threads -> Nat]
      /\ entries'[t] = Len(calls'[t])
      /\ \A u \in Threads \ {t} : entries'[u] = entries[u]
  BY <1>2, <1>5, <1>6 DEF TypeOK, CountersOK
<1>8. TypeOK' /\ Others(t)
  BY <1>2, <1>5, <1>7 DEF TypeOK, CountersOK, FilesOK, HistoryOK, Others
<1>9. CASE Len(calls[t]) = 1
  <2>1. calls'[t] = <<>> /\ Len(calls'[t]) = 0
    BY <1>5, <1>9
  <2>2. \A p : ~Is(t, p)' /\ (Is(t, p) <=> p = "finally")
    BY <1>3, <1>9, <2>1 DEF Is
  <2>3. Nesting(t)' /\ Quiet(t)'
    BY <1>2, <1>7, <2>1 DEF ThreadInv, Nesting, Quiet
  <2>4. Lines(t)' /\ Snapshots(t)' /\ Complete(t)'
    BY <1>2, <2>2 DEF ThreadInv, Lines, Snapshots, Complete
  <2> QED BY <1>8, <2>3, <2>4 DEF ThreadInv
<1>10. CASE Len(calls[t]) = 2
  <2>1. Len(calls'[t]) = 1 /\ calls'[t] # <<>> /\ calls'[t][1] = calls[t][1]
    BY <1>5, <1>10
  <2>2. \A p : Is(t, p)' <=> Is(t, p)
    BY <1>3, <2>1 DEF Is
  <2>3. Nesting(t)'
    BY <1>7, <1>10, <2>1 DEF ThreadInv, Nesting
  <2>4. calls[t][1].at = "consume" /\ calls[t] # <<>>
    BY <1>10 DEF ThreadInv, Nesting
  <2>5. Is(t, "consume")
    BY <2>4 DEF Is
  <2>6. Quiet(t)'
    BY <1>2, <2>1, <2>4, <2>5 DEF ThreadInv, Quiet
  <2>7. Lines(t)' /\ Snapshots(t)' /\ Complete(t)'
    BY <1>2, <2>1, <2>2 DEF ThreadInv, Lines, Snapshots, Complete
  <2> QED BY <1>8, <2>3, <2>6, <2>7 DEF ThreadInv
<1> QED BY <1>3, <1>9, <1>10

----------------------------------------------------------------------------
\* The invariant.

LEMMA Initially == Init => IInv
<1> SUFFICES ASSUME Init
             PROVE  IInv
  OBVIOUS
<1>1. TypeOK
  <2>1. CountersOK
    <3>1. calls \in [Threads -> Seq(Call)]
      BY EmptySeq DEF Init
    <3> QED BY <3>1 DEF Init, CountersOK
  <2>2. FilesOK
    <3>1. flow \in [Threads -> Seq([step : Nat, tagged : BOOLEAN, whole : BOOLEAN])]
      BY EmptySeq DEF Init
    <3>2. snapshot \in [Threads -> Seq([i : Nat, sn : SUBSET Objects, due : SUBSET Objects,
                                        whole : BOOLEAN])]
      BY EmptySeq DEF Init
    <3> QED BY <3>1, <3>2 DEF Init, FilesOK
  <2>3. HistoryOK
    BY DEF Init, HistoryOK
  <2> QED BY <2>1, <2>2, <2>3 DEF TypeOK
<1>2. ASSUME NEW t \in Threads
      PROVE  ThreadInv(t)
  <2>1. /\ calls[t] = <<>> /\ Len(calls[t]) = 0
        /\ flow[t] = <<>> /\ Len(flow[t]) = 0
        /\ snapshot[t] = <<>> /\ Len(snapshot[t]) = 0
        /\ entries[t] = 0 /\ step[t] = 0 /\ executed[t] = 0
        /\ torn[t] = {} /\ modified[t] = touched[t] /\ failed = {}
    BY DEF Init
  <2>2. \A p : ~Is(t, p)
    BY <2>1 DEF Is
  <2>3. Nesting(t) /\ Quiet(t)
    BY <2>1 DEF Nesting, Quiet
  <2>4. Lines(t) /\ Snapshots(t) /\ Complete(t)
    BY <2>1, <2>2 DEF Lines, Snapshots, Complete
  <2> QED BY <2>3, <2>4 DEF ThreadInv
<1> QED BY <1>1, <1>2 DEF IInv

LEMMA Inductive == IInv /\ [Next]_vars => IInv'
<1> SUFFICES ASSUME IInv, [Next]_vars
             PROVE  IInv'
  OBVIOUS
<1>1. TypeOK /\ \A t \in Threads : ThreadInv(t)
  BY DEF IInv
<1>2. CASE Next
  <2>1. PICK t \in Threads : Program(t) \/ Agent(t)
    BY <1>2 DEF Next
  <2>2. TypeOK' /\ ThreadInv(t)' /\ Others(t)
    BY <1>1, <2>1, ModifyStep, SilentStep, LineStep, CheckStep, PackFlowStep,
       PackSnapshotStep, BreakOffStep, CatchStep, FinallyStep DEF Program, Agent
  <2>3. ASSUME NEW u \in Threads \ {t}
        PROVE  ThreadInv(u)'
    BY <1>1, <2>2, OthersKeepTheirs
  <2> QED BY <2>2, <2>3 DEF IInv
<1>3. CASE UNCHANGED vars
  <2>1. UNCHANGED <<perThread, entries, step, calls, tag, modified, flow, snapshot, torn,
                    allCaptureDisabled, failed, erred, executed, touched, escaped>>
    BY <1>3 DEF vars, capture, trackers, files, switch, history
  <2>2. TypeOK'
    BY <1>1, <2>1 DEF TypeOK, CountersOK, FilesOK, HistoryOK
  <2>3. ASSUME NEW t \in Threads
        PROVE  ThreadInv(t)'
    <3>1. \A p : Is(t, p)' <=> Is(t, p)
      BY <2>1 DEF Is
    <3>2. Nesting(t)' /\ Quiet(t)'
      BY <1>1, <2>1 DEF ThreadInv, Nesting, Quiet
    <3>3. Lines(t)' /\ Snapshots(t)' /\ Complete(t)'
      BY <1>1, <2>1, <3>1 DEF ThreadInv, Lines, Snapshots, Complete
    <3> QED BY <3>2, <3>3 DEF ThreadInv
  <2> QED BY <2>2, <2>3 DEF IInv
<1> QED BY <1>2, <1>3

LEMMA Invariant == Spec => []IInv
<1>1. Init => IInv
  BY Initially
<1>2. IInv /\ [Next]_vars => IInv'
  BY Inductive
<1> QED BY <1>1, <1>2, PTL DEF Spec

----------------------------------------------------------------------------
\* Results.

\* Type correctness: the counter of a thread never drops below zero.
THEOREM TypeCorrect == Spec => []TypeOK
<1>1. IInv => TypeOK
  BY DEF IInv
<1> QED BY <1>1, Invariant, PTL

\* The k-th line of a thread's flow file is the k-th it has recorded, whatever its
\* own code does while a snapshot is written and whatever befalls other threads.
THEOREM LinesOfSteps == Spec => []LinesAreSteps
<1>1. IInv => LinesAreSteps
  BY DEF IInv, ThreadInv, Lines, LinesAreSteps
<1> QED BY <1>1, Invariant, PTL

\* Every snapshot belongs to one line of the flow file.
THEOREM SnapshotsOfLines == Spec => []SnapshotsHaveTheirLine
<1>1. IInv => SnapshotsHaveTheirLine
  BY DEF IInv, ThreadInv, Snapshots, SnapshotsHaveTheirLine
<1> QED BY <1>1, Invariant, PTL

\* Until recording fails somewhere, no line of the program is missing.
THEOREM NoLineMissing == Spec => []EveryLine
<1>1. ASSUME IInv
      PROVE  EveryLine
  <2> SUFFICES ASSUME ~allCaptureDisabled, NEW t \in Threads \ erred, OnItsOwn(t)
               PROVE  Len(flow[t]) = executed[t]
    BY DEF EveryLine
  <2>1. ThreadInv(t) /\ TypeOK
    BY <1>1 DEF IInv
  <2>2. \A p : ~Is(t, p)
    BY DEF Is, OnItsOwn
  <2>3. t \notin failed
    BY <2>1 DEF ThreadInv, Quiet
  <2>4. executed[t] = step[t] + 0
    BY <2>1, <2>2 DEF ThreadInv, Complete
  <2>5. step[t] = Len(flow[t]) + 0
    BY <2>1, <2>2, <2>3 DEF ThreadInv, Lines
  <2>6. Len(flow[t]) \in Nat
    BY <2>1 DEF TypeOK, FilesOK
  <2> QED BY <2>4, <2>5, <2>6
<1> QED BY <1>1, Invariant, PTL

\* Until then no modification is missing, and none is attributed to a line that
\* it does not precede.
THEOREM NoModificationMissing == Spec => []EveryModification
<1>1. IInv => EveryModification
  BY DEF IInv, ThreadInv, Complete, EveryModification
<1> QED BY <1>1, Invariant, PTL

\* A thread whose capture has failed records nothing any more.
THEOREM FailedThreadStops == Spec => FailedThreadIsQuiet
<1> DEFINE Same(t) == flow'[t] = flow[t] /\ snapshot'[t] = snapshot[t]
<1>1. ASSUME IInv, [Next]_vars, NEW t \in failed
      PROVE  Same(t)
  <2>1. TypeOK /\ t \in Threads /\ ThreadInv(t)
    BY <1>1 DEF IInv, TypeOK, HistoryOK
  <2>2. CASE UNCHANGED vars
    BY <2>2 DEF vars, files
  <2>3. ASSUME NEW u \in Threads, Program(u) \/ Agent(u)
        PROVE  Same(t)
    <3>1. CASE u # t
      <4>1. Others(u)
        BY <1>1, <2>3, ModifyStep, SilentStep, LineStep, CheckStep, PackFlowStep,
           PackSnapshotStep, BreakOffStep, CatchStep, FinallyStep DEF Program, Agent, IInv
      <4> QED BY <2>1, <3>1, <4>1 DEF Others
    <3>2. CASE u = t
      <4>1. ~PackFlow(t) /\ ~PackSnapshot(t)
        <5>1. ~At(t, "flow") /\ ~At(t, "consume")
          <6>1. ASSUME NEW p \in {"flow", "consume"}, At(t, p)
                PROVE  FALSE
            <7>1. calls[t] # <<>> /\ calls[t][1].at = p
              BY <2>1, <6>1, Innermost
            <7> QED BY <2>1, <7>1 DEF ThreadInv, Quiet
          <6> QED BY <6>1
        <5> QED BY <5>1 DEF PackFlow, PackSnapshot
      <4> QED BY <2>3, <3>2, <4>1 DEF Program, Agent, Modify, Tag, Line, OpenFails, Check,
                Catch, Finally, PackFlowThrows, PackSnapshotThrows, BreakOff, files
    <3> QED BY <3>1, <3>2
  <2> QED BY <1>1, <2>2, <2>3 DEF Next
<1>2. IInv /\ [Next]_vars => [\A t \in failed : Same(t)]_vars
  BY <1>1
<1> QED BY <1>2, Invariant, PTL DEF Spec, FailedThreadIsQuiet

----------------------------------------------------------------------------
\* The log of Recording, which the state implies.

\* A thread whose line or snapshot broke off has not written a snapshot of it.
Caught(t) ==
  t \notin erred /\ Is(t, "catch") =>
    /\ calls[t][1].step \in {Len(flow[t]) - 1, Len(flow[t])}
    /\ \A k \in 1 .. Len(snapshot[t]) : snapshot[t][k].i < calls[t][1].step

\* What the refinement needs beside the invariant.
RInv == IInv /\ \A t \in Threads : Caught(t)

\* The activation holds objects that no snapshot has yet.
Holding(c) == c # <<>> /\ c[1].at \in {"consume", "catch"}

\* ModifiedAt, of a thread's snapshots and activations.
LogAt(s, c, k) ==
  UNION ({s[j].sn : j \in {j \in 1 .. Len(s) : s[j].i = k - 1}}
         \union {c[j].sn : j \in {j \in 1 .. Len(c) :
                    c[j].at \in {"consume", "catch"} /\ c[j].step = k - 1}})

LogOf(n, s, c) == [k \in 1 .. n |-> LogAt(s, c, k)]

Log == [t \in Threads |-> [k \in 1 .. Len(flow[t]) |-> ModifiedAt(t, k)]]

Snap == [i : Nat, sn : SUBSET Objects, due : SUBSET Objects, whole : BOOLEAN]

LEMMA LogIs ==
  /\ Log = [t \in Threads |-> LogOf(Len(flow[t]), snapshot[t], calls[t])]
  /\ Log' = [t \in Threads |-> LogOf(Len(flow'[t]), snapshot'[t], calls'[t])]
BY DEF Log, LogOf, LogAt, ModifiedAt

\* A set in s at k, or in the activation.
InSnapshots(s, k) == UNION {s[j].sn : j \in {j \in 1 .. Len(s) : s[j].i = k - 1}}

LEMMA LogAtIs ==
  ASSUME NEW s, NEW c \in Seq(Call), Len(c) <= 2,
         Len(c) = 2 => c[2].at \in {"check", "finally"}, NEW k
  PROVE  LogAt(s, c, k) = InSnapshots(s, k) \union
                            (IF Holding(c) /\ c[1].step = k - 1 THEN c[1].sn ELSE {})
<1> DEFINE H == {j \in 1 .. Len(c) : c[j].at \in {"consume", "catch"} /\ c[j].step = k - 1}
           G == {c[j].sn : j \in H}
<1>1. LogAt(s, c, k) = InSnapshots(s, k) \union UNION G
  BY DEF LogAt, InSnapshots
<1>2. Len(c) \in Nat /\ (c = <<>> <=> Len(c) = 0)
  BY EmptySeq
<1>3. H = IF Holding(c) /\ c[1].step = k - 1 THEN {1} ELSE {}
  <2>1. \A j \in 1 .. Len(c) : j = 1 \/ (j = 2 /\ Len(c) = 2)
    <3> DEFINE n == Len(c)
    <3>1. n \in Nat /\ n <= 2
      BY <1>2
    <3> HIDE DEF n
    <3>2. \A j \in 1 .. n : j = 1 \/ (j = 2 /\ n = 2)
      BY <3>1
    <3> QED BY <3>2 DEF n
  <2>2. \A j \in H : j = 1 /\ Len(c) # 0
    BY <1>2, <2>1
  <2>3. 1 \in 1 .. Len(c) <=> c # <<>>
    BY <1>2
  <2> QED BY <2>2, <2>3 DEF Holding
<1>4. UNION G = IF Holding(c) /\ c[1].step = k - 1 THEN c[1].sn ELSE {}
  <2> HIDE DEF H
  <2>1. CASE Holding(c) /\ c[1].step = k - 1
    <3>1. G = {c[1].sn}
      BY <1>3, <2>1
    <3> QED BY <2>1, <3>1
  <2>2. CASE ~(Holding(c) /\ c[1].step = k - 1)
    <3>1. G = {}
      BY <1>3, <2>2
    <3> QED BY <2>2, <3>1
  <2> QED BY <2>1, <2>2
<1> QED BY <1>1, <1>4

\* The log of a thread is a sequence.
LEMMA LogOfType ==
  ASSUME NEW n \in Nat, NEW s \in Seq(Snap), NEW c \in Seq(Call)
  PROVE  /\ LogOf(n, s, c) \in Seq(SUBSET Objects)
         /\ Len(LogOf(n, s, c)) = n
         /\ \A k \in 1 .. n : LogOf(n, s, c)[k] = LogAt(s, c, k)
<1>1. \A j \in 1 .. Len(s) : s[j].sn \subseteq Objects
  <2>1. \A r \in Snap : r.sn \subseteq Objects
    BY DEF Snap
  <2> QED BY <2>1
<1>2. \A j \in 1 .. Len(c) : c[j].sn \subseteq Objects
  <2>1. \A r \in Call : r.sn \subseteq Objects
    BY DEF Call
  <2> QED BY <2>1
<1>3. \A k \in 1 .. n : LogAt(s, c, k) \in SUBSET Objects
  BY <1>1, <1>2 DEF LogAt
<1>4. LogOf(n, s, c) \in [1 .. n -> SUBSET Objects]
  BY <1>3 DEF LogOf
<1> QED BY <1>4 DEF LogOf

\* What TypeOK says of the sequences of a thread.
LEMMA FilesOf ==
  ASSUME TypeOK, NEW t \in Threads
  PROVE  /\ calls[t] \in Seq(Call)
         /\ snapshot[t] \in Seq(Snap)
         /\ Len(flow[t]) \in Nat
         /\ Len(snapshot[t]) \in Nat
<1>1. calls[t] \in Seq(Call)
  BY DEF TypeOK, CountersOK
<1>2. snapshot[t] \in Seq(Snap)
  BY DEF TypeOK, FilesOK, Snap
<1>3. Len(flow[t]) \in Nat
  BY DEF TypeOK, FilesOK
<1> QED BY <1>1, <1>2, <1>3

\* What a step of t does to the log: nothing ...
LEMMA SameLog ==
  ASSUME NEW t \in Threads, Others(t), Len(flow'[t]) = Len(flow[t]),
         \A k \in 1 .. Len(flow[t]) :
           LogAt(snapshot'[t], calls'[t], k) = LogAt(snapshot[t], calls[t], k)
  PROVE  Log' = Log
<1>1. \A u \in Threads : LogOf(Len(flow'[u]), snapshot'[u], calls'[u])
                           = LogOf(Len(flow[u]), snapshot[u], calls[u])
  BY DEF LogOf, Others
<1> QED BY <1>1, LogIs

\* ... in particular when what the activation holds stays the same ...
LEMMA SameHolding ==
  ASSUME TypeOK, TypeOK', NEW t \in Threads, ThreadInv(t), ThreadInv(t)', Others(t),
         flow'[t] = flow[t], snapshot'[t] = snapshot[t],
         Holding(calls'[t]) <=> Holding(calls[t]),
         Holding(calls[t]) => /\ calls'[t][1].step = calls[t][1].step
                              /\ calls'[t][1].sn = calls[t][1].sn
  PROVE  Log' = Log
<1>1. calls[t] \in Seq(Call) /\ calls'[t] \in Seq(Call)
  BY DEF TypeOK, CountersOK
<1>2. /\ Len(calls[t]) <= 2 /\ Len(calls'[t]) <= 2
      /\ Len(calls[t]) = 2 => calls[t][2].at \in {"check", "finally"}
      /\ Len(calls'[t]) = 2 => calls'[t][2].at \in {"check", "finally"}
  BY DEF ThreadInv, Nesting
<1>3. ASSUME NEW k \in 1 .. Len(flow[t])
      PROVE  LogAt(snapshot'[t], calls'[t], k) = LogAt(snapshot[t], calls[t], k)
  <2>1. LogAt(snapshot[t], calls[t], k) = InSnapshots(snapshot[t], k) \union
          (IF Holding(calls[t]) /\ calls[t][1].step = k - 1 THEN calls[t][1].sn ELSE {})
    BY <1>1, <1>2, LogAtIs
  <2>2. LogAt(snapshot'[t], calls'[t], k) = InSnapshots(snapshot'[t], k) \union
          (IF Holding(calls'[t]) /\ calls'[t][1].step = k - 1 THEN calls'[t][1].sn ELSE {})
    BY <1>1, <1>2, LogAtIs
  <2> QED BY <2>1, <2>2
<1> QED BY <1>3, SameLog

\* ... as it does in every step but those that pack or catch.
LEMMA HoldingStays ==
  ASSUME TypeOK, NEW t \in Threads, ThreadInv(t),
         \/ \E x \in Objects : Modify(t, x)
         \/ Tag(t) \/ OpenFails(t) \/ Line(t) \/ Check(t) \/ Finally(t)
  PROVE  /\ UNCHANGED <<flow, snapshot, failed, erred>>
         /\ Holding(calls'[t]) <=> Holding(calls[t])
         /\ Holding(calls[t]) => calls'[t][1] = calls[t][1]
<1>1. calls \in [Threads -> Seq(Call)] /\ calls[t] \in Seq(Call)
  BY DEF TypeOK, CountersOK
<1>2. CASE (\E x \in Objects : Modify(t, x)) \/ Tag(t) \/ OpenFails(t)
  BY <1>2 DEF Modify, Tag, OpenFails, files, switch, history, capture
<1>3. CASE Line(t)
  <2> DEFINE c == [at |-> "check", step |-> 0, sn |-> {}, due |-> {}]
  <2>1. c \in Call /\ c.at = "check"
    BY DEF Call, Places
  <2>2. calls' = [calls EXCEPT ![t] = Append(@, c)]
    BY <1>3 DEF Line
  <2>3. UNCHANGED <<flow, snapshot, failed, erred>>
    BY <1>3 DEF Line, files, switch
  <2> HIDE DEF c
  <2>4. /\ Len(calls[t]) \in Nat
        /\ calls'[t] # <<>>
        /\ calls'[t][Len(calls[t]) + 1] = c
        /\ \A k \in 1 .. Len(calls[t]) : calls'[t][k] = calls[t][k]
    BY <1>1, <2>1, <2>2, PushStack
  <2>5. CASE calls[t] = <<>>
    <3>1. calls'[t][1] = c
      BY <2>4, <2>5
    <3> QED BY <2>1, <2>3, <2>5, <3>1 DEF Holding
  <2>6. CASE calls[t] # <<>>
    <3>1. 1 \in 1 .. Len(calls[t])
      BY <1>1, <2>6, EmptySeq
    <3> QED BY <2>3, <2>4, <2>6, <3>1 DEF Holding
  <2> QED BY <2>5, <2>6
<1>4. CASE Check(t)
  <2>1. UNCHANGED <<flow, snapshot, failed, erred>> /\ At(t, "check")
    BY <1>4 DEF Check, files, switch, history
  <2>2. /\ calls[t] # <<>>
        /\ Top(t) \in Call
        /\ Top(t).at = "check"
        /\ Len(calls[t]) \in {1, 2}
        /\ Len(calls[t]) = 1 => Top(t) = calls[t][1]
    BY <2>1, Innermost
  <2>3. PICK to \in {"finally", "flow"}, n \in Nat :
          Become(t, [Top(t) EXCEPT !.at = to, !.step = n])
    <3>1. Top(t).step \in Nat /\ step[t] \in Nat
      BY <2>2 DEF Call, TypeOK, CountersOK
    <3>2. [Top(t) EXCEPT !.at = "finally"]
            = [Top(t) EXCEPT !.at = "finally", !.step = Top(t).step]
      BY <2>2 DEF Call
    <3>3. GoTo(t, "finally") \/ Become(t, [Top(t) EXCEPT !.at = "flow", !.step = step[t]])
      BY <1>4 DEF Check
    <3> QED BY <3>1, <3>2, <3>3 DEF GoTo
  <2> DEFINE c == [Top(t) EXCEPT !.at = to, !.step = n]
  <2>4. c \in Call /\ c.at = to
    BY <2>2 DEF Call, Places
  <2>5. Become(t, c)
    BY <2>3
  <2> HIDE DEF c
  <2>6. /\ calls'[t] # <<>>
        /\ calls'[t][Len(calls[t])] = c
        /\ \A k \in 1 .. Len(calls[t]) - 1 : calls'[t][k] = calls[t][k]
    BY <1>1, <2>2, <2>4, <2>5, BecomeStack
  <2>7. CASE Len(calls[t]) = 1
    <3>1. calls[t][1].at = "check" /\ calls'[t][1].at = to
      BY <2>2, <2>4, <2>6, <2>7
    <3> QED BY <2>1, <3>1 DEF Holding
  <2>8. CASE Len(calls[t]) = 2
    <3>1. calls'[t][1] = calls[t][1]
      BY <2>6, <2>8
    <3> QED BY <2>1, <2>2, <2>6, <3>1 DEF Holding
  <2> QED BY <2>2, <2>7, <2>8
<1>5. CASE Finally(t)
  <2>1. /\ UNCHANGED <<flow, snapshot, failed, erred>>
        /\ At(t, "finally")
        /\ calls' = [calls EXCEPT ![t] = SubSeq(@, 1, Len(@) - 1)]
    BY <1>5 DEF Finally, files, switch, history
  <2>2. /\ calls[t] # <<>>
        /\ Top(t).at = "finally"
        /\ Len(calls[t]) \in {1, 2}
        /\ Len(calls[t]) = 1 => Top(t) = calls[t][1]
    BY <2>1, Innermost
  <2>3. /\ calls'[t] = <<>> <=> Len(calls[t]) = 1
        /\ \A k \in 1 .. Len(calls[t]) - 1 : calls'[t][k] = calls[t][k]
    BY <1>1, <2>1, <2>2, PopStack
  <2>4. CASE Len(calls[t]) = 1
    BY <2>1, <2>2, <2>3, <2>4 DEF Holding
  <2>5. CASE Len(calls[t]) = 2
    <3>1. calls'[t][1] = calls[t][1] /\ calls'[t] # <<>>
      BY <2>3, <2>5
    <3> QED BY <2>1, <2>2, <3>1 DEF Holding
  <2> QED BY <2>2, <2>4, <2>5
<1> QED BY <1>2, <1>3, <1>4, <1>5

\* A packer breaks off; it has written no snapshot of the line it was at.
LEMMA BreakingOff ==
  ASSUME TypeOK, NEW t \in Threads, ThreadInv(t),
         PackFlowThrows(t) \/ PackSnapshotThrows(t), t \notin erred'
  PROVE  /\ UNCHANGED <<flow, snapshot, failed, erred, modified>>
         /\ calls[t] # <<>> /\ calls[t][1].at \in {"flow", "consume"}
         /\ calls'[t] # <<>> /\ calls'[t][1].at = "catch"
         /\ calls'[t][1].step = calls[t][1].step
         /\ calls'[t][1].sn = calls[t][1].sn
         /\ t \notin erred /\ t \notin failed
<1>1. PICK f \in Files, place \in {"flow", "consume"} :
        BreakOff(t, f) /\ At(t, place)
  BY DEF PackFlowThrows, PackSnapshotThrows, Files
<1>2. UNCHANGED <<flow, snapshot, failed, erred, modified>> /\ GoTo(t, "catch")
  BY <1>1 DEF BreakOff, switch
<1>3. calls[t] # <<>> /\ Len(calls[t]) = 1 /\ calls[t][1].at = place
  BY <1>1, Innermost
<1>4. /\ calls'[t] # <<>>
      /\ calls'[t][1].at = "catch"
      /\ calls'[t][1].step = calls[t][1].step
      /\ calls'[t][1].sn = calls[t][1].sn
  <2>1. "catch" \in Places
    BY DEF Places
  <2> QED BY <1>1, <1>2, <1>3, <2>1, GoingTo
<1>5. t \notin failed
  BY <1>3 DEF ThreadInv, Quiet
<1> QED BY <1>2, <1>3, <1>4, <1>5

\* What each step does to Caught.
LEMMA CaughtStep ==
  ASSUME TypeOK, NEW t \in Threads, ThreadInv(t), ThreadInv(t)', Caught(t),
         Program(t) \/ Agent(t)
  PROVE  Caught(t)'
<1> SUFFICES ASSUME t \notin erred', Is(t, "catch")'
             PROVE  /\ calls'[t][1].step \in {Len(flow'[t]) - 1, Len(flow'[t])}
                    /\ \A k \in 1 .. Len(snapshot'[t]) :
                         snapshot'[t][k].i < calls'[t][1].step
  BY DEF Caught
<1>1. calls'[t] # <<>> /\ calls'[t][1].at = "catch" /\ Holding(calls'[t])
  BY DEF Is, Holding
<1>2. CASE \/ \E x \in Objects : Modify(t, x)
           \/ Tag(t) \/ OpenFails(t) \/ Line(t) \/ Check(t) \/ Finally(t)
  <2>1. /\ UNCHANGED <<flow, snapshot, failed, erred>>
        /\ Holding(calls[t]) /\ calls'[t][1] = calls[t][1]
    BY <1>1, <1>2, HoldingStays
  <2>2. Is(t, "catch")
    BY <1>1, <2>1 DEF Is, Holding
  <2> QED BY <2>1, <2>2 DEF Caught
<1>3. CASE PackFlowThrows(t) \/ PackSnapshotThrows(t)
  <2>1. /\ UNCHANGED <<flow, snapshot, failed, erred, modified>>
        /\ calls[t] # <<>> /\ calls[t][1].at \in {"flow", "consume"}
        /\ calls'[t][1].step = calls[t][1].step
        /\ t \notin erred
    BY <1>3, BreakingOff
  <2>2. Is(t, "flow") \/ Is(t, "consume")
    BY <2>1 DEF Is
  <2>3. CASE Is(t, "flow")
    BY <2>1, <2>3 DEF ThreadInv, Lines, Snapshots
  <2>4. CASE Is(t, "consume")
    BY <2>1, <2>4 DEF ThreadInv, Lines, Snapshots
  <2> QED BY <2>2, <2>3, <2>4
<1>4. CASE PackFlow(t) \/ PackSnapshot(t) \/ Catch(t)
  <2>1. PICK place \in {"flow", "consume", "catch"} : At(t, place)
    BY <1>4 DEF PackFlow, PackSnapshot, Catch
  <2>2. calls[t] # <<>> /\ Len(calls[t]) = 1 /\ Top(t) \in Call
    BY <2>1, Innermost
  <2>3. PICK c \in Call : Become(t, c) /\ c.at \in {"finally", "consume"}
    <3>1. CASE PackFlow(t)
      <4> DEFINE c == [Top(t) EXCEPT !.at = IF modified[t] = {} THEN "finally" ELSE "consume",
                                     !.sn = modified[t], !.due = touched[t]]
      <4>1. c \in Call /\ c.at \in {"finally", "consume"}
        BY <2>2 DEF Call, Places, TypeOK, FilesOK, HistoryOK
      <4>2. Become(t, c)
        BY <3>1 DEF PackFlow
      <4> QED BY <4>1, <4>2
    <3>2. CASE PackSnapshot(t) \/ Catch(t)
      <4>1. GoTo(t, "finally")
        BY <3>2 DEF PackSnapshot, Catch
      <4>2. [Top(t) EXCEPT !.at = "finally"] \in Call /\ [Top(t) EXCEPT !.at = "finally"].at = "finally"
        BY <2>2 DEF Call, Places
      <4> QED BY <4>1, <4>2 DEF GoTo
    <3> QED BY <1>4, <3>1, <3>2
  <2>4. calls \in [Threads -> Seq(Call)]
    BY DEF TypeOK, CountersOK
  <2>5. calls'[t][1] = c
    BY <2>2, <2>3, <2>4, BecomeStack
  <2> QED BY <1>1, <2>3, <2>5
<1> QED BY <1>2, <1>3, <1>4 DEF Program, Agent

\* One line more in the snapshot file.
LEMMA InSnapshotsGrows ==
  ASSUME NEW s, NEW r, NEW n \in Nat, Len(s) = n, Len(r) = n + 1,
         \A j \in 1 .. n : r[j] = s[j], NEW k
  PROVE  InSnapshots(r, k) = InSnapshots(s, k) \union
                               (IF r[n + 1].i = k - 1 THEN r[n + 1].sn ELSE {})
<1> DEFINE J == {j \in 1 .. n : s[j].i = k - 1}
           I == {j \in 1 .. n + 1 : r[j].i = k - 1}
           A == {s[j].sn : j \in J}
           B == {r[j].sn : j \in I}
<1>1. InSnapshots(s, k) = UNION A /\ InSnapshots(r, k) = UNION B
  BY DEF InSnapshots
<1>2. I = J \union (IF r[n + 1].i = k - 1 THEN {n + 1} ELSE {})
  <2>1. \A j \in 1 .. n + 1 : j \in 1 .. n \/ j = n + 1
    OBVIOUS
  <2>2. 1 .. n \subseteq 1 .. n + 1 /\ n + 1 \in 1 .. n + 1
    OBVIOUS
  <2> QED BY <2>1, <2>2
<1>3. \A j \in J : r[j].sn = s[j].sn
  OBVIOUS
<1> HIDE DEF I, J
<1>4. B = A \union (IF r[n + 1].i = k - 1 THEN {r[n + 1].sn} ELSE {})
  BY <1>2, <1>3
<1> HIDE DEF A, B
<1> QED BY <1>1, <1>4

\* The log of a thread whose line is packed grows by that line, with all that has
\* been modified since the one before.
LEMMA PackFlowLogs ==
  ASSUME TypeOK, TypeOK', NEW t \in Threads, ThreadInv(t), ThreadInv(t)', Others(t),
         PackFlow(t), t \notin erred
  PROVE  /\ Log' = [Log EXCEPT ![t] = Append(@, modified[t])]
         /\ modified' = [modified EXCEPT ![t] = {}]
         /\ t \notin failed
         /\ UNCHANGED <<failed, erred>>
<1> DEFINE c == [Top(t) EXCEPT !.at = IF modified[t] = {} THEN "finally" ELSE "consume",
                               !.sn = modified[t], !.due = touched[t]]
           n == Len(flow[t])
           s == snapshot[t]
<1>1. /\ modified' = [modified EXCEPT ![t] = {}]
      /\ UNCHANGED <<snapshot, failed, erred>>
      /\ At(t, "flow") /\ Become(t, c)
  BY DEF PackFlow, switch
<1>2. /\ calls[t] # <<>>
      /\ Len(calls[t]) = 1
      /\ Top(t) \in Call
      /\ Top(t) = calls[t][1]
      /\ calls[t][1].at = "flow"
  BY <1>1, Innermost
<1>3. /\ c \in Call
      /\ c.at = IF modified[t] = {} THEN "finally" ELSE "consume"
      /\ c.step = Top(t).step
      /\ c.sn = modified[t]
  BY <1>2 DEF Call, Places, TypeOK, FilesOK, HistoryOK
<1> HIDE DEF c
<1>4. calls \in [Threads -> Seq(Call)]
  BY DEF TypeOK, CountersOK
<1>5. calls'[t] # <<>> /\ Len(calls'[t]) = 1 /\ calls'[t][1] = c
  BY <1>1, <1>2, <1>3, <1>4, BecomeStack
<1>6. n \in Nat /\ Len(flow'[t]) = n + 1
  <2> DEFINE S == [step : Nat, tagged : BOOLEAN, whole : BOOLEAN]
             line == [step |-> Top(t).step, tagged |-> tag[t], whole |-> "flow" \notin torn[t]]
             blank == [step |-> Top(t).step, tagged |-> tag[t], whole |-> TRUE]
  <2>1. flow \in [Threads -> Seq(S)] /\ line \in S
    BY <1>2 DEF Call, TypeOK, FilesOK
  <2>2. line = [blank EXCEPT !.whole = "flow" \notin torn[t]]
    OBVIOUS
  <2> HIDE DEF line, S
  <2>3. flow' = [flow EXCEPT ![t] = Append(@, line)]
    BY <2>2 DEF PackFlow, EndLine
  <2> QED BY <2>1, <2>3, EndLineFile
<1>7. Is(t, "flow")
  BY <1>2 DEF Is
<1>8. c.step = n /\ \A j \in 1 .. Len(s) : s[j].i < n
  BY <1>2, <1>3, <1>7 DEF ThreadInv, Lines, Snapshots
<1>9. t \notin failed
  BY <1>2 DEF ThreadInv, Quiet
<1>10. calls[t] \in Seq(Call) /\ calls'[t] \in Seq(Call) /\ s \in Seq(Snap) /\ Len(s) \in Nat
       /\ snapshot'[t] = s
  BY <1>1, FilesOf DEF TypeOK, CountersOK
<1>11. /\ Len(calls[t]) <= 2 /\ Len(calls[t]) # 2
       /\ Len(calls'[t]) <= 2 /\ Len(calls'[t]) # 2
  BY <1>2, <1>5
<1>12. ASSUME NEW k
       PROVE  /\ LogAt(s, calls[t], k) = InSnapshots(s, k)
              /\ LogAt(s, calls'[t], k) = InSnapshots(s, k) \union
                   (IF n = k - 1 THEN modified[t] ELSE {})
  <2>1. LogAt(s, calls[t], k) = InSnapshots(s, k) \union
          (IF Holding(calls[t]) /\ calls[t][1].step = k - 1 THEN calls[t][1].sn ELSE {})
    BY <1>2, <1>10, <1>11, LogAtIs
  <2>2. ~Holding(calls[t])
    BY <1>2 DEF Holding
  <2>3. LogAt(s, calls'[t], k) = InSnapshots(s, k) \union
          (IF Holding(calls'[t]) /\ calls'[t][1].step = k - 1 THEN calls'[t][1].sn ELSE {})
    BY <1>5, <1>10, <1>11, LogAtIs
  <2>4. Holding(calls'[t]) <=> modified[t] # {}
    BY <1>3, <1>5 DEF Holding
  <2> QED BY <1>3, <1>5, <1>8, <2>1, <2>2, <2>3, <2>4
<1>13. InSnapshots(s, n + 1) = {}
  <2>1. {j \in 1 .. Len(s) : s[j].i = n + 1 - 1} = {}
    <3>1. \A j \in 1 .. Len(s) : s[j].i \in Nat
      <4>1. \A r \in Snap : r.i \in Nat
        BY DEF Snap
      <4> QED BY <1>10, <4>1
    <3> HIDE DEF s, n
    <3>2. \A j \in 1 .. Len(s) : s[j].i # n + 1 - 1
      BY <1>6, <1>8, <3>1
    <3> QED BY <3>2
  <2> QED BY <2>1 DEF InSnapshots
<1> DEFINE before == LogOf(n, s, calls[t])
           after  == LogOf(n + 1, s, calls'[t])
<1>14. /\ before \in Seq(SUBSET Objects) /\ Len(before) = n
       /\ \A k \in 1 .. n : before[k] = LogAt(s, calls[t], k)
       /\ after \in Seq(SUBSET Objects) /\ Len(after) = n + 1
       /\ \A k \in 1 .. n + 1 : after[k] = LogAt(s, calls'[t], k)
  <2> HIDE DEF s, n
  <2>1. n \in Nat /\ n + 1 \in Nat
    BY <1>6
  <2>2. /\ before \in Seq(SUBSET Objects) /\ Len(before) = n
        /\ \A k \in 1 .. n : before[k] = LogAt(s, calls[t], k)
    BY ONLY <1>10, <2>1, LogOfType
  <2>3. /\ after \in Seq(SUBSET Objects) /\ Len(after) = n + 1
        /\ \A k \in 1 .. n + 1 : after[k] = LogAt(s, calls'[t], k)
    BY ONLY <1>10, <2>1, LogOfType
  <2> QED BY <2>2, <2>3
<1> HIDE DEF before, after
<1>15. after = Append(before, modified[t])
  <2>1. modified[t] \in SUBSET Objects
    BY DEF TypeOK, FilesOK
  <2> HIDE DEF n, s
  <2>2. /\ Append(before, modified[t]) \in Seq(SUBSET Objects)
        /\ Len(Append(before, modified[t])) = n + 1
        /\ \A k \in 1 .. n : Append(before, modified[t])[k] = before[k]
        /\ Append(before, modified[t])[n + 1] = modified[t]
    BY <1>14, <2>1, AppendProperties
  <2>3. \A k \in 1 .. n : after[k] = before[k]
    <3> TAKE k \in 1 .. n
    <3>1. n # k - 1 /\ k \in 1 .. n + 1
      BY <1>6
    <3>2. LogAt(s, calls'[t], k) = LogAt(s, calls[t], k)
      BY <1>12, <3>1
    <3> QED BY <1>14, <3>1, <3>2
  <2>4. after[n + 1] = modified[t]
    <3> DEFINE m == n + 1
    <3>1. m - 1 = n /\ m \in 1 .. n + 1
      BY <1>6
    <3>2. InSnapshots(s, m) = {}
      BY <1>13
    <3> HIDE DEF m
    <3>3. LogAt(s, calls'[t], m) = InSnapshots(s, m) \union
            (IF n = m - 1 THEN modified[t] ELSE {})
      BY <1>12
    <3>4. LogAt(s, calls'[t], m) = modified[t]
      BY <3>1, <3>2, <3>3
    <3>5. after[m] = LogAt(s, calls'[t], m)
      BY <1>14, <3>1
    <3> QED BY <3>4, <3>5 DEF m
  <2>5. \A k \in 1 .. n + 1 : after[k] = Append(before, modified[t])[k]
    <3> TAKE k \in 1 .. n + 1
    <3>1. k \in 1 .. n \/ k = n + 1
      BY <1>6
    <3> QED BY <2>2, <2>3, <2>4, <3>1
  <2> QED BY <1>14, <2>2, <2>5, SeqEqual
<1>16. Log' = [Log EXCEPT ![t] = Append(@, modified[t])]
  <2>1. Log[t] = before
    BY LogIs DEF before
  <2>2. Log'[t] = after
    BY <1>6, <1>10, LogIs DEF after
  <2>3. \A u \in Threads \ {t} : Log'[u] = Log[u]
    BY LogIs DEF Others
  <2>4. Log = [u \in Threads |-> Log[u]] /\ Log' = [u \in Threads |-> Log'[u]]
    BY LogIs
  <2> QED BY <1>15, <2>1, <2>2, <2>3, <2>4
<1> QED BY <1>1, <1>9, <1>16

\* Its snapshot is what the log has of the line already.
LEMMA PackSnapshotLogs ==
  ASSUME TypeOK, TypeOK', NEW t \in Threads, ThreadInv(t), ThreadInv(t)', Others(t),
         PackSnapshot(t), t \notin erred
  PROVE  Log' = Log /\ UNCHANGED <<modified, failed, erred>>
<1> DEFINE line == [i |-> Top(t).step, sn |-> Top(t).sn, due |-> Top(t).due,
                    whole |-> "snapshot" \notin torn[t]]
           s == snapshot[t]
           n == Len(s)
<1>1. /\ UNCHANGED <<flow, modified, failed, erred>>
      /\ At(t, "consume") /\ GoTo(t, "finally") /\ "finally" \in Places
  BY DEF PackSnapshot, switch, trackers, history, Places
<1>2. /\ calls[t] # <<>>
      /\ Len(calls[t]) = 1
      /\ Top(t) \in Call
      /\ Top(t) = calls[t][1]
      /\ calls[t][1].at = "consume"
  BY <1>1, Innermost
<1>3. calls'[t] # <<>> /\ Len(calls'[t]) = 1 /\ calls'[t][1].at = "finally"
  BY <1>1, <1>2, GoingTo
<1>4. /\ n \in Nat
      /\ Len(snapshot'[t]) = n + 1
      /\ \A j \in 1 .. n : snapshot'[t][j] = s[j]
      /\ snapshot'[t][n + 1].i = calls[t][1].step
      /\ snapshot'[t][n + 1].sn = calls[t][1].sn
  <2> DEFINE blank == [i |-> Top(t).step, sn |-> Top(t).sn, due |-> Top(t).due, whole |-> TRUE]
  <2>1. snapshot \in [Threads -> Seq(Snap)] /\ line \in Snap
    BY <1>2 DEF Call, TypeOK, FilesOK, Snap
  <2>2. line = [blank EXCEPT !.whole = "snapshot" \notin torn[t]]
    OBVIOUS
  <2>3. line.i = calls[t][1].step /\ line.sn = calls[t][1].sn
    BY <1>2
  <2> HIDE DEF line
  <2>4. snapshot' = [snapshot EXCEPT ![t] = Append(@, line)]
    BY <2>2 DEF PackSnapshot, EndLine
  <2>5. /\ n \in Nat
        /\ Len(snapshot'[t]) = n + 1
        /\ \A j \in 1 .. n : snapshot'[t][j] = s[j]
        /\ snapshot'[t][n + 1] = line
    BY <2>1, <2>4, EndLineFile
  <2> QED BY <2>3, <2>5
<1>5. calls[t] \in Seq(Call) /\ calls'[t] \in Seq(Call)
  BY FilesOf DEF TypeOK, CountersOK
<1>6. /\ Len(calls[t]) <= 2 /\ Len(calls[t]) # 2
      /\ Len(calls'[t]) <= 2 /\ Len(calls'[t]) # 2
  BY <1>2, <1>3
<1>7. Holding(calls[t]) /\ ~Holding(calls'[t])
  BY <1>2, <1>3 DEF Holding
<1>8. ASSUME NEW k \in 1 .. Len(flow[t])
      PROVE  LogAt(snapshot'[t], calls'[t], k) = LogAt(snapshot[t], calls[t], k)
  <2>1. LogAt(snapshot[t], calls[t], k) = InSnapshots(snapshot[t], k) \union
          (IF Holding(calls[t]) /\ calls[t][1].step = k - 1 THEN calls[t][1].sn ELSE {})
    BY <1>5, <1>6, LogAtIs
  <2>2. LogAt(snapshot'[t], calls'[t], k) = InSnapshots(snapshot'[t], k) \union
          (IF Holding(calls'[t]) /\ calls'[t][1].step = k - 1 THEN calls'[t][1].sn ELSE {})
    BY <1>5, <1>6, LogAtIs
  <2> DEFINE r == snapshot'[t]
  <2> HIDE DEF s, r, n
  <2>3. InSnapshots(r, k) = InSnapshots(s, k) \union
          (IF r[n + 1].i = k - 1 THEN r[n + 1].sn ELSE {})
    <3>1. Len(s) = n /\ Len(r) = n + 1 /\ n \in Nat /\ \A j \in 1 .. n : r[j] = s[j]
      BY <1>4 DEF n, r
    <3> QED BY <3>1, InSnapshotsGrows
  <2>4. r[n + 1].i = calls[t][1].step /\ r[n + 1].sn = calls[t][1].sn
    BY <1>4 DEF r
  <2> QED BY <1>7, <2>1, <2>2, <2>3, <2>4 DEF r, s
<1> QED BY <1>1, <1>8, SameLog

\* A break off in the middle of a line leaves the log as it is.
LEMMA BreakOffLogs ==
  ASSUME TypeOK, TypeOK', NEW t \in Threads, ThreadInv(t), ThreadInv(t)', Others(t),
         PackFlowThrows(t) \/ PackSnapshotThrows(t), t \notin erred'
  PROVE  Log' = Log /\ UNCHANGED <<modified, failed, erred>>
<1>1. /\ UNCHANGED <<flow, snapshot, failed, erred, modified>>
      /\ calls[t] # <<>> /\ calls[t][1].at \in {"flow", "consume"}
      /\ calls'[t] # <<>> /\ calls'[t][1].at = "catch"
      /\ calls'[t][1].step = calls[t][1].step
      /\ calls'[t][1].sn = calls[t][1].sn
      /\ t \notin erred
  BY BreakingOff
<1>2. CASE calls[t][1].at = "consume"
  <2>1. Holding(calls[t]) /\ Holding(calls'[t])
    BY <1>1, <1>2 DEF Holding
  <2> QED BY <1>1, <2>1, SameHolding
<1>3. CASE calls[t][1].at = "flow"
  <2>1. Is(t, "flow") /\ ~Holding(calls[t])
    BY <1>1, <1>3 DEF Is, Holding
  <2>2. calls'[t][1].step = Len(flow[t])
    BY <1>1, <2>1 DEF ThreadInv, Lines
  <2>3. calls[t] \in Seq(Call) /\ calls'[t] \in Seq(Call) /\ Len(flow[t]) \in Nat
    BY FilesOf DEF TypeOK, CountersOK
  <2>4. /\ Len(calls[t]) <= 2 /\ Len(calls'[t]) <= 2
        /\ Len(calls[t]) = 2 => calls[t][2].at \in {"check", "finally"}
        /\ Len(calls'[t]) = 2 => calls'[t][2].at \in {"check", "finally"}
    BY DEF ThreadInv, Nesting
  <2>5. ASSUME NEW k \in 1 .. Len(flow[t])
        PROVE  LogAt(snapshot'[t], calls'[t], k) = LogAt(snapshot[t], calls[t], k)
    <3>1. LogAt(snapshot[t], calls[t], k) = InSnapshots(snapshot[t], k) \union
            (IF Holding(calls[t]) /\ calls[t][1].step = k - 1 THEN calls[t][1].sn ELSE {})
      BY <2>3, <2>4, LogAtIs
    <3>2. LogAt(snapshot'[t], calls'[t], k) = InSnapshots(snapshot'[t], k) \union
            (IF Holding(calls'[t]) /\ calls'[t][1].step = k - 1 THEN calls'[t][1].sn ELSE {})
      BY <2>3, <2>4, LogAtIs
    <3>3. calls'[t][1].step # k - 1
      BY <2>2, <2>3
    <3> QED BY <1>1, <2>1, <3>1, <3>2, <3>3
  <2> QED BY <1>1, <2>5, SameLog
<1> QED BY <1>1, <1>2, <1>3

\* A thread that gives up in the middle of a line leaves the line without objects,
\* if it got as far as the line.
LEMMA CatchLogs ==
  ASSUME TypeOK, TypeOK', NEW t \in Threads, ThreadInv(t), ThreadInv(t)', Caught(t),
         Others(t), Catch(t), t \notin erred
  PROVE  /\ \/ Log' = Log
            \/ Log[t] # <<>> /\ Log' = [Log EXCEPT ![t] = [Log[t] EXCEPT ![Len(Log[t])] = {}]]
         /\ failed' = failed \union {t}
         /\ UNCHANGED <<modified, erred>>
<1> DEFINE n == Len(flow[t])
           s == snapshot[t]
<1>1. /\ UNCHANGED <<flow, snapshot, modified, erred>>
      /\ failed' = failed \union {t}
      /\ At(t, "catch") /\ GoTo(t, "finally") /\ "finally" \in Places
  BY DEF Catch, trackers, files, history, Places
<1>2. calls[t] # <<>> /\ Len(calls[t]) = 1 /\ calls[t][1].at = "catch"
  BY <1>1, Innermost
<1>3. calls'[t] # <<>> /\ Len(calls'[t]) = 1 /\ calls'[t][1].at = "finally"
  BY <1>1, <1>2, GoingTo
<1>4. calls[t] \in Seq(Call) /\ calls'[t] \in Seq(Call) /\ n \in Nat /\ s \in Seq(Snap)
  BY FilesOf DEF TypeOK, CountersOK
<1>5. /\ Len(calls[t]) <= 2 /\ Len(calls[t]) # 2
      /\ Len(calls'[t]) <= 2 /\ Len(calls'[t]) # 2
  BY <1>2, <1>3
<1>6. Holding(calls[t]) /\ ~Holding(calls'[t]) /\ Is(t, "catch")
  BY <1>2, <1>3 DEF Holding, Is
<1> DEFINE m == calls[t][1].step
<1>7. m \in {n - 1, n} /\ m \in Nat /\ \A j \in 1 .. Len(s) : s[j].i < m
  <2>1. \A r \in Call : r.step \in Nat
    BY DEF Call
  <2>2. calls[t][1] \in Call
    BY <1>2, <1>4
  <2> QED BY <1>6, <2>1, <2>2 DEF Caught
<1>8. ASSUME NEW k
      PROVE  /\ LogAt(s, calls[t], k) = InSnapshots(s, k) \union
                  (IF m = k - 1 THEN calls[t][1].sn ELSE {})
             /\ LogAt(s, calls'[t], k) = InSnapshots(s, k)
  <2>1. LogAt(s, calls[t], k) = InSnapshots(s, k) \union
          (IF Holding(calls[t]) /\ calls[t][1].step = k - 1 THEN calls[t][1].sn ELSE {})
    BY <1>4, <1>5, LogAtIs
  <2>2. LogAt(s, calls'[t], k) = InSnapshots(s, k) \union
          (IF Holding(calls'[t]) /\ calls'[t][1].step = k - 1 THEN calls'[t][1].sn ELSE {})
    BY <1>4, <1>5, LogAtIs
  <2> QED BY <1>6, <2>1, <2>2
<1>9. flow'[t] = flow[t] /\ snapshot'[t] = s
  BY <1>1
<1>10. CASE m = n
  <2>1. ASSUME NEW k \in 1 .. Len(flow[t])
        PROVE  LogAt(snapshot'[t], calls'[t], k) = LogAt(snapshot[t], calls[t], k)
    <3>1. m # k - 1
      BY <1>4, <1>10
    <3> HIDE DEF m
    <3> QED BY <1>8, <1>9, <3>1
  <2> QED BY <1>1, <2>1, SameLog
<1>11. CASE m = n - 1
  <2>1. n \in Nat \ {0}
    BY <1>4, <1>7, <1>11
  <2>2. InSnapshots(s, n) = {}
    <3> HIDE DEF m, n
    <3>1. {j \in 1 .. Len(s) : s[j].i = n - 1} = {}
      <4>1. \A j \in 1 .. Len(s) : s[j].i \in Nat
        <5>1. \A r \in Snap : r.i \in Nat
          BY DEF Snap
        <5> QED BY <1>4, <5>1
      <4> HIDE DEF s
      <4>2. \A j \in 1 .. Len(s) : s[j].i # n - 1
        BY <1>7, <1>11, <2>1, <4>1
      <4> QED BY <4>2
    <3> QED BY <3>1 DEF InSnapshots
  <2> DEFINE before == LogOf(n, s, calls[t])
             after  == LogOf(n, s, calls'[t])
  <2>3. /\ before \in Seq(SUBSET Objects) /\ Len(before) = n
        /\ \A k \in 1 .. n : before[k] = LogAt(s, calls[t], k)
    <3> HIDE DEF s, n, m
    <3> QED BY ONLY <1>4, LogOfType
  <2>4. /\ after \in Seq(SUBSET Objects) /\ Len(after) = n
        /\ \A k \in 1 .. n : after[k] = LogAt(s, calls'[t], k)
    <3> HIDE DEF s, n, m
    <3> QED BY ONLY <1>4, LogOfType
  <2> HIDE DEF before, after
  <2>5. after = [before EXCEPT ![Len(before)] = {}]
    <3> HIDE DEF s, n, m
    <3>1. /\ [before EXCEPT ![n] = {}] \in Seq(SUBSET Objects)
          /\ Len([before EXCEPT ![n] = {}]) = n
          /\ \A k \in 1 .. n : [before EXCEPT ![n] = {}][k] = IF k = n THEN {} ELSE before[k]
      <4>1. n \in 1 .. Len(before) /\ {} \in SUBSET Objects
        BY <2>1, <2>3
      <4> QED BY <2>3, <4>1, ExceptSeq
    <3>2. ASSUME NEW k \in 1 .. n
          PROVE  after[k] = [before EXCEPT ![n] = {}][k]
      <4>1. CASE k = n
        <5>1. after[n] = LogAt(s, calls'[t], n)
          BY <2>1, <2>4
        <5>2. LogAt(s, calls'[t], n) = InSnapshots(s, n)
          BY <1>8
        <5> QED BY <2>2, <3>1, <4>1, <5>1, <5>2
      <4>2. CASE k # n
        <5>1. m # k - 1
          BY <1>11, <2>1, <4>2
        <5>2. LogAt(s, calls[t], k) = LogAt(s, calls'[t], k)
          BY <1>8, <5>1
        <5> QED BY <2>3, <2>4, <3>1, <4>2, <5>2
      <4> QED BY <4>1, <4>2
    <3>3. after = [before EXCEPT ![n] = {}]
      BY <2>4, <3>1, <3>2, SeqEqual
    <3> QED BY <2>3, <3>3
  <2>6. Log[t] = before
    BY LogIs DEF before
  <2>7. Log'[t] = after
    BY <1>9, LogIs DEF after
  <2>8. \A u \in Threads \ {t} : Log'[u] = Log[u]
    BY LogIs DEF Others
  <2>9. Log = [u \in Threads |-> Log[u]] /\ Log' = [u \in Threads |-> Log'[u]]
    BY LogIs
  <2>10. Log' = [Log EXCEPT ![t] = [Log[t] EXCEPT ![Len(Log[t])] = {}]]
    BY <2>5, <2>6, <2>7, <2>8, <2>9
  <2>11. Log[t] # <<>>
    BY <2>1, <2>3, <2>6, EmptySeq
  <2> QED BY <1>1, <2>10, <2>11
<1> QED BY <1>7, <1>10, <1>11

\* The program's steps outside of a capture: a modification is recorded, or it is
\* not as far as Recording is concerned.
LEMMA ModifyLogs ==
  ASSUME TypeOK, TypeOK', NEW t \in Threads, ThreadInv(t), ThreadInv(t)', Others(t),
         NEW x \in Objects, Modify(t, x)
  PROVE  /\ UNCHANGED <<Log, failed, erred>>
         /\ \/ modified' = modified
            \/ t \notin failed /\ modified' = [modified EXCEPT ![t] = @ \union {x}]
<1>1. /\ UNCHANGED <<flow, snapshot, failed, erred>>
      /\ Holding(calls'[t]) <=> Holding(calls[t])
      /\ Holding(calls[t]) => calls'[t][1] = calls[t][1]
  BY HoldingStays
<1>2. Log' = Log
  BY <1>1, SameHolding
<1>3. PICK disabled \in ReadsDisabled(t) :
        modified' = IF entries[t] >= 1 \/ disabled
                      THEN modified ELSE [modified EXCEPT ![t] = @ \union {x}]
  BY DEF Modify
<1>4. t \in failed => disabled = TRUE
  BY DEF ReadsDisabled, ThreadInv, Quiet
<1> QED BY <1>1, <1>2, <1>3, <1>4

LEMMA OtherwiseSilent ==
  ASSUME TypeOK, TypeOK', NEW t \in Threads, ThreadInv(t), ThreadInv(t)', Others(t),
         Tag(t) \/ OpenFails(t) \/ Line(t) \/ Check(t) \/ Finally(t)
  PROVE  UNCHANGED <<Log, modified, failed, erred>>
<1>1. /\ UNCHANGED <<flow, snapshot, failed, erred>>
      /\ Holding(calls'[t]) <=> Holding(calls[t])
      /\ Holding(calls[t]) => calls'[t][1] = calls[t][1]
  BY HoldingStays
<1>2. Log' = Log
  BY <1>1, SameHolding
<1>3. modified' = modified
  BY DEF Tag, OpenFails, Line, Check, Finally, trackers
<1> QED BY <1>1, <1>2, <1>3

\* Once an Error has been thrown in a thread's capture, whatever the thread does
\* concerns no other.
LEMMA SpoiltStep ==
  ASSUME TypeOK, TypeOK', NEW t \in Threads, ThreadInv(t), Others(t),
         Program(t) \/ Agent(t), t \in erred'
  PROVE  Record!Spoil(t)
<1>1. erred' = erred \union {t}
  BY DEF Others, TypeOK, HistoryOK
<1>2. failed \subseteq failed'
  <2>1. t \in failed => t \in failed'
    BY DEF Program, Agent, Modify, Tag, Line, OpenFails, Check, PackFlow, PackSnapshot, Catch,
           Finally, PackFlowThrows, PackSnapshotThrows, BreakOff, switch
  <2> QED BY <2>1 DEF Others, TypeOK, HistoryOK
<1>3. \A u \in Threads \ {t} :
        /\ Log'[u] = Log[u]
        /\ modified'[u] = modified[u]
        /\ u \in failed' => u \in failed
  BY LogIs DEF Others
<1> QED BY <1>1, <1>2, <1>3 DEF Record!Spoil, Log

LEMMA RecordedStep ==
  ASSUME RInv, RInv', [Next]_vars
  PROVE  [Record!Next]_(Record!vars)
<1>1. /\ TypeOK /\ TypeOK'
      /\ \A t \in Threads : ThreadInv(t) /\ Caught(t)
      /\ \A t \in Threads : ThreadInv(t)'
  BY DEF RInv, IInv
<1>2. ASSUME UNCHANGED <<Log, modified, failed, erred>>
      PROVE  UNCHANGED Record!vars
  BY <1>2 DEF Record!vars, Log
<1>3. CASE UNCHANGED vars
  <2>1. UNCHANGED <<flow, snapshot, calls, modified, failed, erred>>
    BY <1>3 DEF vars, capture, trackers, files, switch, history
  <2>2. Log' = Log
    BY <2>1, LogIs
  <2> QED BY <1>2, <2>1, <2>2
<1>4. ASSUME NEW t \in Threads, Program(t) \/ Agent(t)
      PROVE  Record!Next \/ UNCHANGED Record!vars
  <2>1. Others(t)
    BY <1>1, <1>4, ModifyStep, SilentStep, LineStep, CheckStep, PackFlowStep,
       PackSnapshotStep, BreakOffStep, CatchStep, FinallyStep DEF Program, Agent
  <2>2. CASE t \in erred'
    BY <1>1, <1>4, <2>1, <2>2, SpoiltStep DEF Record!Next
  <2>3. CASE t \notin erred'
    <3>1. t \notin erred
      BY <1>4, <2>3 DEF Program, Agent, Modify, Tag, Line, OpenFails, Check, PackFlow,
         PackSnapshot, Catch, Finally, PackFlowThrows, PackSnapshotThrows, BreakOff, history
    <3>2. ASSUME NEW x \in Objects, Modify(t, x)
          PROVE  Record!Next \/ UNCHANGED Record!vars
      <4>1. /\ UNCHANGED <<Log, failed, erred>>
            /\ \/ modified' = modified
               \/ t \notin failed /\ modified' = [modified EXCEPT ![t] = @ \union {x}]
        BY <1>1, <2>1, <3>2, ModifyLogs
      <4>2. CASE modified' = modified
        BY <1>2, <4>1, <4>2
      <4>3. CASE t \notin failed /\ modified' = [modified EXCEPT ![t] = @ \union {x}]
        <5>1. Record!Modify(t, x)
          BY <4>1, <4>3 DEF Record!Modify, Log
        <5> QED BY <5>1 DEF Record!Next
      <4> QED BY <4>1, <4>2, <4>3
    <3>3. CASE Tag(t) \/ OpenFails(t) \/ Line(t) \/ Check(t) \/ Finally(t)
      BY <1>1, <1>2, <2>1, <3>3, OtherwiseSilent
    <3>4. CASE PackFlow(t)
      <4>1. /\ Log' = [Log EXCEPT ![t] = Append(@, modified[t])]
            /\ modified' = [modified EXCEPT ![t] = {}]
            /\ t \notin failed
            /\ UNCHANGED <<failed, erred>>
        BY <1>1, <2>1, <3>1, <3>4, PackFlowLogs
      <4>2. Record!Line(t)
        BY <4>1 DEF Record!Line, Log
      <4> QED BY <4>2 DEF Record!Next
    <3>5. CASE PackSnapshot(t)
      BY <1>1, <1>2, <2>1, <3>1, <3>5, PackSnapshotLogs
    <3>6. CASE PackFlowThrows(t) \/ PackSnapshotThrows(t)
      BY <1>1, <1>2, <2>1, <2>3, <3>6, BreakOffLogs
    <3>7. CASE Catch(t)
      <4>1. /\ \/ Log' = Log
               \/ Log[t] # <<>> /\ Log' = [Log EXCEPT ![t] = [Log[t] EXCEPT ![Len(Log[t])] = {}]]
            /\ failed' = failed \union {t}
            /\ UNCHANGED <<modified, erred>>
        BY <1>1, <2>1, <3>1, <3>7, CatchLogs
      <4>2. Record!Fail(t)
        BY <4>1 DEF Record!Fail, Log
      <4> QED BY <4>2 DEF Record!Next
    <3> QED BY <1>4, <3>2, <3>3, <3>4, <3>5, <3>6, <3>7 DEF Program, Agent
  <2> QED BY <2>2, <2>3
<1> QED BY <1>3, <1>4 DEF Next

LEMMA RecordedInit ==
  ASSUME Init
  PROVE  Record!Init
<1>1. Log = [t \in Threads |-> <<>>]
  <2>1. \A t \in Threads : Len(flow[t]) = 0
    BY DEF Init
  <2>2. \A t \in Threads : LogOf(Len(flow[t]), snapshot[t], calls[t]) = <<>>
    <3> TAKE t \in Threads
    <3>1. <<>> \in Seq({}) /\ <<>> \in Seq(Call) /\ <<>> \in Seq(Snap)
      OBVIOUS
    <3>2. snapshot[t] = <<>> /\ calls[t] = <<>> /\ flow[t] = <<>> /\ 0 \in Nat
      BY DEF Init
    <3>3. LogOf(0, <<>>, <<>>) \in Seq(SUBSET Objects) /\ Len(LogOf(0, <<>>, <<>>)) = 0
      BY ONLY <3>1, <3>2, LogOfType
    <3>4. LogOf(0, <<>>, <<>>) = <<>>
      BY <3>3, EmptySeq
    <3> QED BY <2>1, <3>2, <3>4
  <2> QED BY <2>2, LogIs
<1> QED BY <1>1 DEF Init, Record!Init, Log

LEMMA RefinementInvariant == Spec => []RInv
<1>1. Init => RInv
  <2>1. Init => \A t \in Threads : Caught(t)
    BY DEF Init, Caught, Is
  <2> QED BY <2>1, Initially DEF RInv
<1>2. RInv /\ [Next]_vars => RInv'
  <2> SUFFICES ASSUME RInv, [Next]_vars
               PROVE  RInv'
    OBVIOUS
  <2>1. TypeOK /\ \A t \in Threads : ThreadInv(t) /\ Caught(t)
    BY DEF RInv, IInv
  <2>2. IInv'
    BY Inductive DEF RInv
  <2>3. \A t \in Threads : ThreadInv(t)'
    BY <2>2 DEF IInv
  <2>4. ASSUME NEW t \in Threads, Program(t) \/ Agent(t), NEW u \in Threads
        PROVE  Caught(u)'
    <3>1. CASE u = t
      BY <2>1, <2>3, <2>4, <3>1, CaughtStep
    <3>2. CASE u # t
      <4>1. Others(t)
        BY <2>1, <2>4, ModifyStep, SilentStep, LineStep, CheckStep, PackFlowStep,
           PackSnapshotStep, BreakOffStep, CatchStep, FinallyStep DEF Program, Agent
      <4>2. Is(u, "catch")' <=> Is(u, "catch")
        BY <3>2, <4>1 DEF Is, Others
      <4> QED BY <2>1, <3>2, <4>1, <4>2 DEF Caught, Others
    <3> QED BY <3>1, <3>2
  <2>5. CASE UNCHANGED vars
    <3>1. UNCHANGED <<flow, snapshot, calls, erred>>
      BY <2>5 DEF vars, capture, files, history
    <3>2. \A u \in Threads : Caught(u)'
      BY <2>1, <3>1 DEF Caught, Is
    <3> QED BY <2>2, <3>2 DEF RInv
  <2> QED BY <2>2, <2>4, <2>5 DEF RInv, Next
<1> QED BY <1>1, <1>2, PTL DEF Spec

\* The agent's files are those of an agent that writes line and snapshot in one step:
\* whatever threads do at the same time, whatever of the program's own code runs
\* while a snapshot is written, and whatever fails.
THEOREM CaptureImplementsRecording == Spec => ImplementsRecording
<1>1. Init => Record!Init
  BY RecordedInit
<1>2. RInv /\ RInv' /\ [Next]_vars => [Record!Next]_(Record!vars)
  BY RecordedStep
<1> QED BY <1>1, <1>2, RefinementInvariant, PTL DEF Spec, ImplementsRecording, Record!Spec
=============================================================================
