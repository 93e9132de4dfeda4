-------------------------- MODULE Debugger_proofs --------------------------
(***************************************************************************)
(* Proofs about StackDepth and about what Debugger makes of it, for any    *)
(* methods, handlers and bounds: the depth is never too low, and stepping  *)
(* leads where the calls went.                                             *)
(*                                                                         *)
(* Stepping compares two recorded lines; so what has to be shown is how    *)
(* depths of lines compare whose activations are the same, or one of which *)
(* lies under the other (Related).  When a line is recorded, all it can be *)
(* compared with is in the past.  Therefore the invariant relates lines to *)
(* the stack as it is now (Fits): as long as no exception was thrown and   *)
(* the depth not looked up anew since, a line has just the depth that the  *)
(* counter had, and will have again, when its frame was and is on top.     *)
(***************************************************************************)
EXTENDS Debugger, FiniteSetTheorems, SequenceTheorems, TLAPS

-----------------------------------------------------------------------------
\* The depth.

Count == Cardinality(Counted(stack))

\* An exception for which the method on top has counted down.
Pending == thrown = "counted"

\* Frames below the top have recorded a line, and no frame only half of one. An
\* exception has a frame to look at.
Chain ==
  /\ stack = <<>> => thrown = "none"
  /\ \A k \in 1 .. Len(stack) :
       /\ stack[k].first = 0 <=> stack[k].last = 0
       /\ k < Len(stack) /\ Recorded(stack[k]) => stack[k].last > 0

\* What the counter may lack: nothing but the methods lost, and the one on top while
\* what it has thrown is pending.
Level ==
  /\ Pending => /\ stack # <<>> /\ Instrumented(Top)
                /\ lost < throws
                /\ stackTraceDepth + lost + 1 >= Count
  /\ ~Pending => \/ stackTraceDepth + lost >= Count
                 \/ stackTraceDepth = -1 /\ Counted(stack) = {}

IInv == TypeOK /\ Chain /\ Level

----------------------------------------------------------------------------
\* What a counter that lacks nothing cannot fall below.
LEMMA AtLeastFresh ==
  ASSUME NEW d \in Int, NEW l \in Nat, NEW c \in Nat, d + l >= c \/ d = -1
  PROVE  d + l >= -1
OBVIOUS

LEMMA OneMoreIsSome ==
  ASSUME NEW a \in Nat, NEW b \in Nat, a = b + 1
  PROVE  a # 0
OBVIOUS

----------------------------------------------------------------------------
\* Counting frames.

LEMMA CountedFinite ==
  ASSUME NEW s \in Seq(FrameType)
  PROVE  IsFiniteSet(Counted(s)) /\ Cardinality(Counted(s)) \in Nat
<1>1. Counted(s) \subseteq 1 .. Len(s) /\ Len(s) \in Nat
  BY DEF Counted
<1>2. IsFiniteSet(1 .. Len(s))
  BY <1>1, FS_Interval
<1>3. IsFiniteSet(Counted(s))
  BY <1>1, <1>2, FS_Subset
<1> QED BY <1>3, FS_CardinalityType

LEMMA CountedPush ==
  ASSUME NEW s \in Seq(FrameType), NEW f \in FrameType
  PROVE  /\ Instrumented(f) => Cardinality(Counted(Append(s, f))) = Cardinality(Counted(s)) + 1
         /\ ~Instrumented(f) => Counted(Append(s, f)) = Counted(s)
<1> DEFINE t == Append(s, f)
           n == Len(s) + 1
<1>1. /\ Len(s) \in Nat /\ Len(t) = n /\ t[n] = f
      /\ \A k \in 1 .. Len(s) : t[k] = s[k]
  BY AppendProperties
<1>2. \A k \in 1 .. Len(s) : k \in Counted(t) <=> k \in Counted(s)
  BY <1>1 DEF Counted
<1>3. n \notin Counted(s) /\ (n \in Counted(t) <=> Instrumented(f))
  BY <1>1 DEF Counted
<1>4. Counted(s) \subseteq 1 .. Len(s) /\ Counted(t) \subseteq 1 .. n
  BY <1>1 DEF Counted
<1>5. 1 .. n = (1 .. Len(s)) \union {n}
  BY <1>1
<1> HIDE DEF t, n
<1>6. CASE Instrumented(f)
  <2>1. Counted(t) = Counted(s) \union {n}
    BY <1>2, <1>3, <1>4, <1>5, <1>6
  <2>2. Cardinality(Counted(s) \union {n}) = Cardinality(Counted(s)) + 1
    BY <1>3, CountedFinite, FS_AddElement
  <2> QED BY <1>6, <2>1, <2>2 DEF t
<1>7. CASE ~Instrumented(f)
  <2>1. Counted(t) = Counted(s)
    BY <1>2, <1>3, <1>4, <1>5, <1>7
  <2> QED BY <1>7, <2>1 DEF t
<1> QED BY <1>6, <1>7

\* The frames below the top.
LEMMA BelowTop ==
  ASSUME NEW s \in Seq(FrameType), s # <<>>
  PROVE  /\ Len(s) \in Nat \ {0} /\ s[Len(s)] \in FrameType
         /\ Below(s) \in Seq(FrameType)
         /\ Len(Below(s)) = Len(s) - 1
         /\ \A k \in 1 .. Len(s) - 1 : Below(s)[k] = s[k]
         /\ s = Append(Below(s), s[Len(s)])
<1>1. Len(s) \in Nat \ {0} /\ \A k \in 1 .. Len(s) : s[k] \in FrameType
  BY EmptySeq
<1>2. /\ Below(s) \in Seq(FrameType)
      /\ Len(Below(s)) = Len(s) - 1
      /\ \A k \in 1 .. Len(s) - 1 : Below(s)[k] = s[k]
  <2> DEFINE n == Len(s) - 1
  <2>1. \A k \in 1 .. n : s[k] \in FrameType
    BY <1>1
  <2>0. n \in Nat
    BY <1>1
  <2>3. Below(s) = SubSeq(s, 1, n)
    BY DEF Below
  <2> HIDE DEF n
  <2>2. 1 \in Int /\ n \in Int /\ n - 1 + 1 = n /\ (1 <= n \/ n = 0)
    BY <2>0
  <2>4. /\ SubSeq(s, 1, n) \in Seq(FrameType)
        /\ Len(SubSeq(s, 1, n)) = IF 1 <= n THEN n - 1 + 1 ELSE 0
        /\ \A k \in 1 .. n - 1 + 1 : SubSeq(s, 1, n)[k] = s[1 + k - 1]
    BY <2>1, <2>2, SubSeqProperties
  <2>5. \A k \in 1 .. n : 1 + k - 1 = k
    BY <2>2
  <2>6. Len(SubSeq(s, 1, n)) = n /\ \A k \in 1 .. n : SubSeq(s, 1, n)[k] = s[k]
    BY <2>2, <2>4, <2>5
  <2> QED BY <2>3, <2>4, <2>6 DEF n
<1> DEFINE r == Append(Below(s), s[Len(s)])
<1>3. /\ r \in Seq(FrameType) /\ Len(r) = Len(s) /\ r[Len(s)] = s[Len(s)]
      /\ \A k \in 1 .. Len(s) - 1 : r[k] = s[k]
  BY <1>1, <1>2, AppendProperties
<1>4. \A k \in 1 .. Len(s) : r[k] = s[k]
  BY <1>1, <1>3
<1> HIDE DEF r
<1>5. r = s
  BY <1>3, <1>4, SeqEqual
<1> QED BY <1>1, <1>2, <1>5 DEF r

LEMMA CountedPop ==
  ASSUME NEW s \in Seq(FrameType), s # <<>>
  PROVE  LET f == s[Len(s)]
         IN /\ Instrumented(f) => Cardinality(Counted(s)) = Cardinality(Counted(Below(s))) + 1
            /\ ~Instrumented(f) => Counted(s) = Counted(Below(s))
BY BelowTop, CountedPush

\* Looking the depth up misses no instrumented method.
LEMMA FetchCountsAll ==
  ASSUME NEW s \in Seq(FrameType), NEW a \in Int, NEW b \in Int
  PROVE  Fetch(s, a, b) \in Int /\ Fetch(s, a, b) >= Cardinality(Counted(s)) + a - (b + 1)
<1> DEFINE all == {k \in 1 .. Len(s) : ~Ignored(s[k])}
<1>1. IsFiniteSet(1 .. Len(s)) /\ all \subseteq 1 .. Len(s)
  BY FS_Interval
<1>2. IsFiniteSet(all) /\ Cardinality(all) \in Nat
  BY <1>1, FS_Subset, FS_CardinalityType
<1>3. Counted(s) \subseteq all
  BY DEF Counted, Instrumented, Ignored
<1>4. Cardinality(Counted(s)) <= Cardinality(all) /\ Cardinality(Counted(s)) \in Nat
  BY <1>2, <1>3, FS_Subset, CountedFinite
<1>5. Fetch(s, a, b) = Cardinality(all) + a - (b + 1)
  BY DEF Fetch
<1> HIDE DEF all
<1> QED BY <1>2, <1>4, <1>5
----------------------------------------------------------------------------
\* The steps.

\* What arithmetic needs.
LEMMA Typed ==
  ASSUME IInv
  PROVE  /\ stack \in Seq(FrameType) /\ Count \in Nat
         /\ stackTraceDepth \in Int /\ lost \in Nat /\ throws \in Nat /\ lost <= throws
BY CountedFinite, BoundsAssumption DEF IInv, TypeOK, Count

LEMMA CallStep ==
  ASSUME IInv, NEW m \in Methods, Call(m)
  PROVE  IInv'
<1> DEFINE f == Frame(m)
<1>1. /\ stack' = Append(stack, f) /\ thrown = "none"
      /\ stackTraceDepth' = IF Instrumented(f) THEN Increase(stack') ELSE stackTraceDepth
      /\ lookups' \in {lookups, lookups + 1}
      /\ UNCHANGED <<thrown, flow, throws, lost>>
      /\ stack = <<>> \/ (Recorded(Top) => Top.last > 0)
      /\ Len(stack) < MaxDepth
  BY DEF Call, Running, IInv, Chain
<1>2. f \in FrameType /\ f.first = 0 /\ f.last = 0
  BY BoundsAssumption DEF Frame, FrameType
<1>3. stack \in Seq(FrameType) /\ Len(stack) \in Nat /\ TypeOK /\ Chain /\ Level
  BY DEF IInv, TypeOK
<1>4. /\ stack' \in Seq(FrameType) /\ Len(stack') = Len(stack) + 1
      /\ \A k \in 1 .. Len(stack) : stack'[k] = stack[k]
      /\ stack'[Len(stack) + 1] = f
      /\ stack' # <<>>
  BY <1>1, <1>2, <1>3, AppendProperties
<1>5. Chain'
  <2>1. \A k \in 1 .. Len(stack') : k = Len(stack) + 1 \/ k \in 1 .. Len(stack)
    BY <1>3, <1>4
  <2>2. \A k \in 1 .. Len(stack) : Recorded(stack[k]) => stack[k].last > 0
    BY <1>1, <1>3 DEF Chain, Top
  <2>3. \A k \in 1 .. Len(stack) : Recorded(stack'[k]) => Recorded(stack[k])
    BY <1>4 DEF Recorded
  <2> QED BY <1>2, <1>3, <1>4, <2>1, <2>2, <2>3 DEF Chain
<1>6. /\ Count \in Nat /\ stackTraceDepth \in Int /\ lost \in Nat /\ Count' \in Nat
      /\ Instrumented(f) => Count' = Count + 1
      /\ ~Instrumented(f) => Count' = Count /\ Counted(stack)' = Counted(stack)
      /\ Counted(stack) = {} => Count = 0
  BY <1>1, <1>2, <1>3, <1>4, Typed, CountedPush, CountedFinite, FS_EmptySet DEF Count
<1>7. Fetch(stack', 4, 3) \in Int /\ Fetch(stack', 4, 3) >= Count'
  BY <1>4, <1>6, FetchCountsAll DEF Count
<1>8. /\ stackTraceDepth' \in Int
      /\ \/ stackTraceDepth' + lost >= Count'
         \/ stackTraceDepth' = -1 /\ Counted(stack)' = {}
  <2>1. CASE Instrumented(f)
    BY <1>1, <1>3, <1>6, <1>7, <2>1 DEF Increase, LooksUp, Level, Pending
  <2>2. CASE ~Instrumented(f)
    BY <1>1, <1>3, <1>6, <2>2 DEF Level, Pending
  <2> QED BY <2>1, <2>2
<1>9. TypeOK'
  BY <1>1, <1>3, <1>4, <1>6, <1>8, BoundsAssumption DEF TypeOK
<1>10. Level'
  BY <1>1, <1>8 DEF Level, Pending
<1> QED BY <1>5, <1>9, <1>10 DEF IInv

LEMMA LineStep ==
  ASSUME IInv, Line
  PROVE  IInv'
<1> DEFINE n     == Len(stack)
           step  == Len(flow) + 1
           top   == [Top EXCEPT !.first = IF @ = 0 THEN step ELSE @, !.last = step]
           under == {k \in 1 .. n - 1 : Recorded(stack[k])}
           line  == [m |-> top.m, sd |-> stackTraceDepth, throws |-> throws, lookups |-> lookups,
                     act |-> top.first,
                     under |-> {stack[k].first : k \in under},
                     frames |-> {stack[k].last : k \in under} \union {step},
                     plain |-> \A k \in 1 .. n : KindOf[stack[k].m] # "filtered"]
<1>1. /\ stack # <<>> /\ thrown = "none" /\ Recorded(Top)
      /\ Len(flow) < MaxSteps
      /\ stack' = [stack EXCEPT ![n] = top]
      /\ flow' = Append(flow, line)
      /\ UNCHANGED <<thrown, stackTraceDepth, throws, lookups, lost>>
  BY DEF Line
<1>2. /\ stack \in Seq(FrameType) /\ flow \in Seq(LineType) /\ Len(flow) \in Nat
      /\ TypeOK /\ Chain /\ Level
  BY DEF IInv, TypeOK
<1>3. n \in Nat \ {0} /\ Top \in FrameType /\ Top = stack[n]
  BY <1>1, <1>2, BelowTop DEF Top
<1>4. step \in Steps /\ MaxSteps \in Nat
  BY <1>1, <1>2, BoundsAssumption DEF Steps
<1>5. /\ top \in FrameType /\ top.m = Top.m /\ top.last = step
      /\ top.first \in Steps
  <2>1. Top.m \in Methods /\ Top.first \in 0 .. MaxSteps /\ Top.last \in 0 .. MaxSteps
    BY <1>3 DEF FrameType
  <2>2. top = [m |-> Top.m, first |-> IF Top.first = 0 THEN step ELSE Top.first, last |-> step]
    <3>1. Top = [m |-> Top.m, first |-> Top.first, last |-> Top.last]
      BY <1>3 DEF FrameType
    <3> DEFINE first == IF Top.first = 0 THEN step ELSE Top.first
    <3>2. top = [[Top EXCEPT !.first = first] EXCEPT !.last = step]
      OBVIOUS
    <3> HIDE DEF top, step, first
    <3>3. [Top EXCEPT !.first = first] = [m |-> Top.m, first |-> first, last |-> Top.last]
      BY <3>1
    <3>4. top = [m |-> Top.m, first |-> first, last |-> step]
      BY <3>2, <3>3
    <3> QED BY <3>4 DEF first
  <2> HIDE DEF top, step
  <2>3. (IF Top.first = 0 THEN step ELSE Top.first) \in Steps
    BY <1>4, <2>1 DEF Steps
  <2>4. step \in 0 .. MaxSteps /\ top.first \in Steps /\ top.first \in 0 .. MaxSteps
    BY <1>4, <2>2, <2>3 DEF Steps
  <2>5. top.first = IF Top.first = 0 THEN step ELSE Top.first
    BY <2>2
  <2> QED BY <2>1, <2>2, <2>4, <2>5 DEF FrameType
<1> HIDE DEF top
<1>6. /\ stack' \in Seq(FrameType) /\ Len(stack') = n
      /\ stack' # <<>> /\ stack'[n] = top
      /\ \A k \in 1 .. n : k # n => stack'[k] = stack[k]
  BY <1>1, <1>2, <1>3, <1>5, ExceptSeq
<1>7. \A k \in 1 .. n : stack'[k].m = stack[k].m
  BY <1>3, <1>5, <1>6
<1>8. Chain'
  <2>1. \A k \in 1 .. n : Recorded(stack'[k]) <=> Recorded(stack[k])
    BY <1>7 DEF Recorded
  <2>2. top.first # 0 /\ top.last # 0
    BY <1>4, <1>5 DEF Steps
  <2> QED BY <1>2, <1>3, <1>6, <2>1, <2>2 DEF Chain
<1>9. Counted(stack)' = Counted(stack) /\ Count' = Count
  <2>1. \A k \in 1 .. n : Instrumented(stack'[k]) <=> Instrumented(stack[k])
    BY <1>7 DEF Instrumented
  <2>2. Counted(stack)' = Counted(stack)
    BY <1>6, <2>1 DEF Counted
  <2> QED BY <2>2 DEF Count
<1>10. line \in LineType
  <2>1. \A k \in under : stack[k].first \in Steps /\ stack[k].last \in Steps
    <3>1. \A k \in under : k \in 1 .. n /\ k < n /\ Recorded(stack[k])
      BY <1>3
    <3>3. \A k \in 1 .. n : stack[k] \in FrameType
      BY <1>2, <1>3
    <3>2. \A k \in 1 .. n : stack[k].first \in 0 .. MaxSteps /\ stack[k].last \in 0 .. MaxSteps
      BY <3>3 DEF FrameType
    <3> QED BY <1>2, <3>1, <3>2 DEF Chain, Steps
  <2>2. {stack[k].first : k \in under} \subseteq Steps
    BY <2>1
  <2>3. {stack[k].last : k \in under} \union {step} \subseteq Steps
    BY <1>4, <2>1
  <2>4. top.m \in Methods /\ stackTraceDepth \in Int /\ throws \in 0 .. MaxThrows /\ lookups \in Nat
    BY <1>2, <1>5 DEF TypeOK, FrameType
  <2>5. (\A k \in 1 .. n : KindOf[stack[k].m] # "filtered") \in BOOLEAN
    OBVIOUS
  <2> QED BY <1>5, <2>2, <2>3, <2>4, <2>5 DEF LineType
<1> HIDE DEF line
<1>11. flow' \in Seq(LineType) /\ Len(flow') = Len(flow) + 1
  BY <1>1, <1>2, <1>10, AppendProperties
<1>12. TypeOK'
  <2>1. Len(stack') <= MaxDepth
    BY <1>2, <1>6 DEF TypeOK
  <2>2. Len(flow') <= MaxSteps
    BY <1>1, <1>2, <1>4, <1>11
  <2> HIDE DEF n, step
  <2> QED BY <1>1, <1>2, <1>6, <1>11, <2>1, <2>2 DEF TypeOK
<1>13. Level'
  BY <1>1, <1>2, <1>9 DEF Level, Pending
<1> QED BY <1>8, <1>12, <1>13 DEF IInv

\* What holds of the stack when its top goes.
LEMMA Popped ==
  ASSUME IInv, stack # <<>>, stack' = Below(stack)
  PROVE  /\ stack' \in Seq(FrameType) /\ Len(stack') <= MaxDepth
         /\ \A k \in 1 .. Len(stack') :
              /\ stack'[k].first = 0 <=> stack'[k].last = 0
              /\ k < Len(stack') /\ Recorded(stack'[k]) => stack'[k].last > 0
         /\ Count \in Nat /\ Count' \in Nat
         /\ Instrumented(Top) => Count = Count' + 1 /\ Counted(stack) # {}
         /\ ~Instrumented(Top) => Count = Count' /\ Counted(stack) = Counted(stack)'
<1>1. stack \in Seq(FrameType) /\ Len(stack) <= MaxDepth /\ Chain
  BY DEF IInv, TypeOK
<1>2. /\ Len(stack) \in Nat \ {0}
      /\ stack' \in Seq(FrameType)
      /\ Len(stack') = Len(stack) - 1
      /\ \A k \in 1 .. Len(stack) - 1 : stack'[k] = stack[k]
  BY <1>1, BelowTop
<1>3. MaxDepth \in Nat
  BY BoundsAssumption
<1>4. Len(stack') <= MaxDepth
  BY <1>1, <1>2, <1>3
<1>5. \A k \in 1 .. Len(stack') : k \in 1 .. Len(stack) /\ stack'[k] = stack[k] /\ k < Len(stack)
  BY <1>2
<1>6. Count \in Nat /\ Count' \in Nat
  BY <1>1, <1>2, CountedFinite DEF Count
<1>7. /\ Instrumented(Top) => Count = Count' + 1
      /\ ~Instrumented(Top) => Counted(stack) = Counted(stack)'
  BY <1>1, CountedPop DEF Count, Top
<1>8. Counted(stack) = {} => Count = 0
  BY FS_EmptySet DEF Count
<1>9. Instrumented(Top) => Counted(stack) # {}
  BY <1>6, <1>7, <1>8, OneMoreIsSome
<1>10. ~Instrumented(Top) => Count = Count'
  BY <1>7 DEF Count
<1>11. \A k \in 1 .. Len(stack') :
         /\ stack'[k].first = 0 <=> stack'[k].last = 0
         /\ k < Len(stack') /\ Recorded(stack'[k]) => stack'[k].last > 0
  BY <1>1, <1>5 DEF Chain
<1> QED BY <1>2, <1>4, <1>6, <1>7, <1>9, <1>10, <1>11

LEMMA ReturnStep ==
  ASSUME IInv, Return
  PROVE  IInv'
<1>1. /\ stack # <<>> /\ thrown = "none" /\ stack' = Below(stack)
      /\ Instrumented(Top) => stackTraceDepth' = stackTraceDepth - 1
      /\ ~Instrumented(Top) => stackTraceDepth' = stackTraceDepth
      /\ UNCHANGED <<thrown, flow, throws, lookups, lost>>
  BY DEF Return, Running
<1>2. TypeOK /\ Level /\ stackTraceDepth \in Int /\ lost \in Nat
  BY Typed DEF IInv
<1>3. Chain'
  BY <1>1, Popped DEF Chain
<1>4. /\ stackTraceDepth' \in Int
      /\ \/ stackTraceDepth' + lost >= Count'
         \/ stackTraceDepth' = -1 /\ Counted(stack)' = {}
  BY <1>1, <1>2, Popped DEF Level, Pending
<1>5. Level'
  BY <1>1, <1>4 DEF Level, Pending
<1>6. stackTraceDepth' + lost' >= -1
  BY <1>1, <1>2, <1>4, Popped, AtLeastFresh
<1>7. TypeOK'
  BY <1>1, <1>2, <1>4, <1>6, Popped DEF TypeOK
<1> QED BY <1>3, <1>5, <1>7 DEF IInv

LEMMA UnwindStep ==
  ASSUME IInv, Unwind
  PROVE  IInv'
<1>1. /\ stack # <<>> /\ stack' = Below(stack)
      /\ thrown' \in Exceptions /\ thrown' # "counted"
      /\ stack' = <<>> => thrown' = "none"
      /\ UNCHANGED <<stackTraceDepth, flow, throws, lookups, lost>>
  BY DEF Unwind, Exceptions
<1>2. TypeOK /\ Level /\ stackTraceDepth \in Int /\ lost \in Nat
  BY Typed DEF IInv
<1>3. Chain'
  BY <1>1, Popped DEF Chain
<1>4. \/ stackTraceDepth + lost >= Count'
      \/ stackTraceDepth = -1 /\ Counted(stack)' = {}
  BY <1>1, <1>2, Popped DEF Level, Pending
<1>5. Level'
  BY <1>1, <1>4 DEF Level, Pending
<1>6. TypeOK'
  BY <1>1, <1>2, Popped DEF TypeOK
<1> QED BY <1>3, <1>5, <1>6 DEF IInv

LEMMA ThrowStep ==
  ASSUME IInv, Throw
  PROVE  IInv'
<1>1. /\ stack # <<>> /\ thrown = "none"
      /\ throws < MaxThrows /\ throws' = throws + 1
      /\ UNCHANGED <<stack, flow, lookups, lost>>
  BY DEF Throw, Running
<1>2. /\ TypeOK /\ Chain /\ Level /\ stack \in Seq(FrameType) /\ Count \in Nat
      /\ stackTraceDepth \in Int /\ lost \in Nat /\ throws \in Nat /\ lost <= throws
  BY Typed DEF IInv
<1>3. Chain'
  BY <1>1, <1>2 DEF Chain
<1>4. /\ throws' \in 0 .. MaxThrows /\ lost \in 0 .. throws' /\ lost < throws'
      /\ Count' = Count /\ Counted(stack)' = Counted(stack)
  BY <1>1, <1>2, BoundsAssumption DEF Count
<1>5. CASE thrown' = "uncounted" /\ UNCHANGED stackTraceDepth
  <2>1. TypeOK'
    BY <1>1, <1>2, <1>4, <1>5 DEF TypeOK, Exceptions
  <2>2. Level'
    BY <1>1, <1>2, <1>4, <1>5 DEF Level, Pending
  <2> QED BY <1>3, <2>1, <2>2 DEF IInv
<1>6. CASE Instrumented(Top) /\ thrown' = "counted" /\ stackTraceDepth' = stackTraceDepth - 1
  <2>1. Counted(stack) # {} /\ Count >= 1
    <3>1. Instrumented(Top) => Count = Cardinality(Counted(Below(stack))) + 1
      BY <1>1, <1>2, CountedPop DEF Count, Top
    <3>2. Below(stack) \in Seq(FrameType)
      BY <1>1, <1>2, BelowTop
    <3>3. Cardinality(Counted(Below(stack))) \in Nat
      BY <3>2, CountedFinite
    <3>4. Count >= 1
      BY <1>6, <3>1, <3>3
    <3>5. Counted(stack) = {} => Count = 0
      BY FS_EmptySet DEF Count
    <3> QED BY <3>4, <3>5
  <2>2. stackTraceDepth + lost >= Count
    BY <1>1, <1>2, <2>1 DEF Level, Pending
  <2>3. stackTraceDepth' \in Int /\ stackTraceDepth' + lost + 1 >= Count /\ stackTraceDepth' + lost >= -1
    BY <1>2, <1>6, <2>1, <2>2
  <2>4. TypeOK'
    BY <1>1, <1>2, <1>4, <1>6, <2>3 DEF TypeOK, Exceptions
  <2>5. Top' = Top /\ (Instrumented(Top))'
    BY <1>1, <1>6 DEF Top, Instrumented
  <2>6. Level'
    BY <1>1, <1>2, <1>4, <1>6, <2>3, <2>5 DEF Level, Pending
  <2> QED BY <1>3, <2>4, <2>6 DEF IInv
<1> QED BY <1>5, <1>6 DEF Throw

LEMMA CatchStep ==
  ASSUME IInv, NEW handler \in Handlers, Catch(handler)
  PROVE  IInv'
<1>1. /\ thrown # "none" /\ stack # <<>> /\ thrown' = "none"
      /\ UNCHANGED <<stack, flow, throws, lookups>>
  BY DEF Catch
<1>2. /\ TypeOK /\ Chain /\ Level /\ stack \in Seq(FrameType) /\ Count \in Nat
      /\ stackTraceDepth \in Int /\ lost \in Nat /\ throws \in Nat /\ lost <= throws
  BY Typed DEF IInv
<1>3. Chain'
  BY <1>1, <1>2 DEF Chain
<1>4. Count' = Count /\ Counted(stack)' = Counted(stack)
  BY <1>1 DEF Count
<1>5. /\ stackTraceDepth' \in Int /\ lost' \in 0 .. throws
      /\ \/ stackTraceDepth' + lost' >= Count
         \/ stackTraceDepth' = -1 /\ Counted(stack) = {}
  <2>1. CASE handler = "last"
    <3>1. stackTraceDepth' = Fetch(stack, 3, 1) /\ lost' = lost
      BY <2>1 DEF Catch, Resynchronise
    <3>2. Fetch(stack, 3, 1) \in Int /\ Fetch(stack, 3, 1) >= Count + 3 - (1 + 1)
      BY <1>2, FetchCountsAll DEF Count
    <3> QED BY <1>2, <3>1, <3>2
  <2>2. CASE handler # "last" /\ Pending
    <3>1. stackTraceDepth' = stackTraceDepth /\ lost' = lost + 1
      BY <2>2, HandlersAssumption DEF Catch, Pending, HandlerKinds
    <3>2. lost < throws /\ stackTraceDepth + lost + 1 >= Count
      BY <1>2, <2>2 DEF Level
    <3> QED BY <1>2, <3>1, <3>2
  <2>3. CASE handler # "last" /\ ~Pending
    <3>1. stackTraceDepth' = stackTraceDepth /\ lost' = lost
      BY <2>3 DEF Catch, Pending
    <3>2. \/ stackTraceDepth + lost >= Count
          \/ stackTraceDepth = -1 /\ Counted(stack) = {}
      BY <1>2, <2>3 DEF Level
    <3> QED BY <1>2, <3>1, <3>2
  <2> QED BY <2>1, <2>2, <2>3
<1>6. Level'
  BY <1>1, <1>4, <1>5 DEF Level, Pending
<1>7. stackTraceDepth' + lost' >= -1
  <2>1. lost' \in Nat
    BY <1>2, <1>5
  <2> QED BY <1>2, <1>5, <2>1, AtLeastFresh
<1>8. TypeOK'
  BY <1>1, <1>2, <1>5, <1>7 DEF TypeOK, Exceptions
<1> QED BY <1>3, <1>6, <1>8 DEF IInv

LEMMA CatchUnnoticedStep ==
  ASSUME IInv, CatchUnnoticed
  PROVE  IInv'
<1>1. /\ thrown # "none" /\ ~Instrumented(Top) /\ thrown' = "none"
      /\ UNCHANGED <<stack, stackTraceDepth, flow, throws, lookups, lost>>
  BY DEF CatchUnnoticed
<1>2. TypeOK /\ Chain /\ Level
  BY DEF IInv
<1>3. TypeOK'
  BY <1>1, <1>2 DEF TypeOK, Exceptions
<1>4. Chain'
  BY <1>1, <1>2 DEF Chain
<1>5. Count' = Count /\ Counted(stack)' = Counted(stack) /\ ~Pending
  BY <1>1, <1>2 DEF Count, Level
<1>6. Level'
  BY <1>1, <1>2, <1>5 DEF Level, Pending
<1> QED BY <1>3, <1>4, <1>6 DEF IInv

----------------------------------------------------------------------------
\* The invariant.

LEMMA Initially == Init => IInv
<1> SUFFICES ASSUME Init PROVE IInv
  OBVIOUS
<1>1. stack = <<>> /\ Len(stack) = 0 /\ thrown = "none" /\ stackTraceDepth = -1 /\ lost = 0
  BY DEF Init
<1>2. Counted(stack) = {}
  BY <1>1 DEF Counted
<1>3. TypeOK
  BY BoundsAssumption DEF Init, TypeOK, Exceptions
<1>4. Chain
  BY <1>1 DEF Chain
<1>5. Level
  BY <1>1, <1>2 DEF Level, Pending
<1> QED BY <1>3, <1>4, <1>5 DEF IInv

LEMMA Inductive == IInv /\ [Next]_vars => IInv'
<1> SUFFICES ASSUME IInv, [Next]_vars PROVE IInv'
  OBVIOUS
<1>1. CASE UNCHANGED vars
  BY <1>1 DEF vars, IInv, TypeOK, Chain, Level, Pending, Count, Counted, Top, Instrumented, Recorded
<1>2. CASE \E m \in Methods : Call(m)
  BY <1>2, CallStep
<1>3. CASE Line
  BY <1>3, LineStep
<1>4. CASE Return
  BY <1>4, ReturnStep
<1>5. CASE Throw
  BY <1>5, ThrowStep
<1>6. CASE Unwind
  BY <1>6, UnwindStep
<1>7. CASE \E handler \in Handlers : Catch(handler)
  BY <1>7, CatchStep
<1>8. CASE CatchUnnoticed
  BY <1>8, CatchUnnoticedStep
<1> QED BY <1>1, <1>2, <1>3, <1>4, <1>5, <1>6, <1>7, <1>8 DEF Next

\* The inductive invariant holds in every state a thread gets to.
THEOREM Invariant == Spec => []IInv
BY Initially, Inductive, PTL DEF Spec

\* The variables keep their types: flow lines name steps that were, and the counter
\* falls below -1 only by methods that have caught what they had thrown themselves.
THEOREM TypeCorrect == Spec => []TypeOK
<1>1. IInv => TypeOK
  BY DEF IInv
<1> QED BY <1>1, Invariant, PTL

\* However calls, returns, exceptions and handlers follow each other, the counter that
\* FlowPerThread keeps is not below the number of instrumented methods running, except
\* by one for each method that has caught what it had thrown itself.
THEOREM NotTooLow == Spec => []NeverTooLow
<1>1. IInv => NeverTooLow
  BY DEF IInv, Level, Pending, Count, NeverTooLow
<1> QED BY <1>1, Invariant, PTL

-----------------------------------------------------------------------------
\* Stepping, and the Frames panel.

\* The counted frames of s above position j, and the depth that the counter, now d,
\* has when j is on top.
Above(s, j)      == {i \in Counted(s) : i > j}
DepthAt(d, s, j) == d - Cardinality(Above(s, j))

\* The lines of fl since which the counter has only followed calls and returns.
Recent(fl, th, lu) == {k \in 1 .. Len(fl) : fl[k].throws = th /\ fl[k].lookups = lu}

\* The numbers of exceptions and lookups only grow, and an exception on its way is
\* later than all lines. What a line tells of the stack is not from the future, and
\* activations below its own are older.
Dated(fl, tn, th, lu) ==
  /\ \A k \in 1 .. Len(fl) :
       /\ fl[k].throws <= th /\ fl[k].lookups <= lu
       /\ tn # "none" => fl[k].throws < th
       /\ fl[k].act \in 1 .. k
       /\ \A a \in fl[k].under : a < fl[k].act
       /\ k \in fl[k].frames
       /\ \A c \in fl[k].frames : c <= k
  /\ \A i, k \in 1 .. Len(fl) :
       i < k => fl[i].throws <= fl[k].throws /\ fl[i].lookups <= fl[k].lookups

\* Frames have recorded their lines one after the other.
Stacked(fl, s) ==
  \A j \in 1 .. Len(s) :
    /\ s[j].first <= s[j].last /\ s[j].last <= Len(fl)
    /\ s[j].last > 0 => fl[s[j].last].act = s[j].first
    /\ \A i \in 1 .. Len(s) : i < j /\ s[j].first # 0 => s[i].last < s[j].first

\* A recent line has the depth of its frame, if that is still there, and a larger one
\* than frames that were below it, or have recorded nothing since.
Fits(fl, R, d, s) ==
  \A k \in R :
    /\ fl[k].sd > DepthAt(d, s, 0)
    /\ \A j \in 1 .. Len(s) :
         /\ fl[k].act = s[j].first => fl[k].m = s[j].m /\ fl[k].sd = DepthAt(d, s, j)
         /\ s[j].first \in fl[k].under => fl[k].sd > DepthAt(d, s, j)
         /\ s[j].last > 0 /\ k > s[j].last => fl[k].sd > DepthAt(d, s, j)

\* How the depths of line s and of earlier ones compare.
Alike(fl, k, s) == fl[k].throws = fl[s].throws /\ fl[k].lookups = fl[s].lookups
Compares(fl, k, s) ==
  /\ fl[k].act = fl[s].act => fl[k].m = fl[s].m /\ fl[k].sd = fl[s].sd
  /\ fl[k].act \in fl[s].under => fl[k].sd < fl[s].sd
  /\ fl[s].act \in fl[k].under => fl[s].sd < fl[k].sd
  /\ fl[s].plain =>
       /\ fl[k].sd <= fl[s].sd => \E c \in fl[s].frames : k <= c /\ fl[c].sd = fl[k].sd
       /\ k \in fl[s].frames => \A c \in fl[s].frames : k < c => fl[k].sd < fl[c].sd
Related(fl, s) == \A k \in 1 .. s - 1 : Alike(fl, k, s) => Compares(fl, k, s)

\* Without exceptions the depth is looked up once, and counts from 1.
Grounded(fl, tn, d, th, lu) ==
  /\ tn # "none" => th > 0
  /\ th = 0 => lu = IF d = -1 THEN 0 ELSE 1
  /\ \A k \in 1 .. Len(fl) : fl[k].throws = 0 => fl[k].sd >= 1 /\ fl[k].lookups = 1

DInv ==
  /\ Grounded(flow, thrown, stackTraceDepth, throws, lookups)
  /\ Dated(flow, thrown, throws, lookups)
  /\ Stacked(flow, stack)
  /\ Fits(flow, Recent(flow, throws, lookups), stackTraceDepth, stack)
  /\ \A s \in 1 .. Len(flow) : Related(flow, s)

----------------------------------------------------------------------------
\* The smallest and the largest step of a set.

LEMMA LeastNat ==
  ASSUME NEW T, T \subseteq Nat, T # {}
  PROVE  \E x \in T : \A y \in T : x <= y
<1>1. PICK x \in T : \A y \in T : ~ (<<y, x>> \in OpToRel(<, Nat))
  BY NatLessThanWellFounded, WFMin
<1>2. \A y \in T : ~(y < x)
  BY <1>1 DEF OpToRel
<1> QED BY <1>2

LEMMA MinIs ==
  ASSUME NEW T, T \subseteq Nat, T # {}
  PROVE  Min(T) \in T /\ \A y \in T : Min(T) <= y
BY LeastNat DEF Min

LEMMA MaxIs ==
  ASSUME NEW n \in Nat, NEW T, T \subseteq 1 .. n, T # {}
  PROVE  Max(T) \in T /\ \A y \in T : y <= Max(T)
<1> DEFINE D == {n - y : y \in T}
<1>1. D \subseteq Nat
  OBVIOUS
<1>2. D # {}
  BY <1>1
<1>3. PICK x \in D : \A y \in D : x <= y
  BY <1>1, <1>2, LeastNat
<1>4. PICK t \in T : x = n - t
  BY <1>3
<1>5. \A y \in T : n - t <= n - y
  BY <1>3, <1>4
<1>6. \A y \in T : t >= y
  BY <1>5
<1>7. Max(T) \in T /\ \A y \in T : Max(T) >= y
  BY <1>6 DEF Max
<1> QED BY <1>7

----------------------------------------------------------------------------
\* Counting the frames above another.

LEMMA AboveFinite ==
  ASSUME NEW s \in Seq(FrameType), NEW j \in Nat
  PROVE  IsFiniteSet(Above(s, j)) /\ Cardinality(Above(s, j)) \in Nat
<1>1. Above(s, j) \in SUBSET Counted(s)
  BY DEF Above
<1>2. IsFiniteSet(Above(s, j))
  BY <1>1, CountedFinite, FS_Subset
<1> QED BY <1>2, FS_CardinalityType

LEMMA DepthType ==
  ASSUME NEW s \in Seq(FrameType), NEW j \in Nat, NEW d \in Int
  PROVE  DepthAt(d, s, j) \in Int
BY AboveFinite DEF DepthAt

LEMMA AboveTop ==
  ASSUME NEW s \in Seq(FrameType), NEW d \in Int
  PROVE  DepthAt(d, s, Len(s)) = d
<1>1. Above(s, Len(s)) = {}
  BY DEF Above, Counted
<1>2. Cardinality(Above(s, Len(s))) = 0
  BY <1>1, FS_EmptySet
<1> QED BY <1>2 DEF DepthAt

\* A frame that is counted is deeper than those below.
LEMMA AboveLower ==
  ASSUME NEW s \in Seq(FrameType), NEW d \in Int, NEW j \in Nat, NEW k \in Counted(s), j < k
  PROVE  DepthAt(d, s, j) < DepthAt(d, s, k)
<1>1. k \in Nat /\ k \in 1 .. Len(s)
  BY DEF Counted
<1>2. Above(s, k) \union {k} \in SUBSET Above(s, j) /\ k \notin Above(s, k)
  BY <1>1 DEF Above, Counted
<1>3. /\ IsFiniteSet(Above(s, k)) /\ Cardinality(Above(s, k)) \in Nat
      /\ IsFiniteSet(Above(s, j)) /\ Cardinality(Above(s, j)) \in Nat
  BY <1>1, AboveFinite
<1>4. Cardinality(Above(s, k) \union {k}) = Cardinality(Above(s, k)) + 1
  BY <1>2, <1>3, FS_AddElement
<1>5. Cardinality(Above(s, k) \union {k}) <= Cardinality(Above(s, j))
  BY <1>2, <1>3, FS_Subset
<1> QED BY <1>3, <1>4, <1>5 DEF DepthAt

\* All depths between occur.
LEMMA DepthOccurs ==
  ASSUME NEW s \in Seq(FrameType), NEW d \in Int, NEW e \in Int, DepthAt(d, s, 0) < e, e <= d
  PROVE  \E j \in Counted(s) : DepthAt(d, s, j) = e
<1> DEFINE n == Len(s)
           T == {j \in 0 .. n : e <= DepthAt(d, s, j)}
           j == Min(T)
<1>1. n \in Nat /\ T \subseteq Nat
  OBVIOUS
<1>2. n \in T
  BY <1>1, AboveTop
<1>3. j \in T /\ \A i \in T : j <= i
  BY <1>1, <1>2, MinIs
<1> HIDE DEF j
<1>4. j \in 0 .. n /\ j # 0 /\ e <= DepthAt(d, s, j)
  <2>1. DepthAt(d, s, 0) \in Int
    BY DepthType
  <2>2. 0 \notin T
    BY <2>1
  <2> QED BY <1>3, <2>2
<1>5. j - 1 \in 0 .. n /\ j - 1 \in Nat /\ j \in Nat
  BY <1>1, <1>4
<1>6. j - 1 \notin T
  BY <1>3, <1>5
<1>7. DepthAt(d, s, j) \in Int /\ DepthAt(d, s, j - 1) \in Int
  BY <1>5, DepthType
<1>8. DepthAt(d, s, j - 1) < e
  BY <1>5, <1>6, <1>7
<1>9. IsFiniteSet(Above(s, j)) /\ Cardinality(Above(s, j)) \in Nat /\ j \notin Above(s, j)
  BY <1>5, AboveFinite DEF Above
<1>10. \A i \in Counted(s) : i > j - 1 <=> i > j \/ i = j
  BY <1>5 DEF Counted
<1>11. CASE j \in Counted(s)
  <2>1. Above(s, j - 1) = Above(s, j) \union {j}
    BY <1>10, <1>11 DEF Above
  <2>2. Cardinality(Above(s, j - 1)) = Cardinality(Above(s, j)) + 1
    BY <1>9, <2>1, FS_AddElement
  <2>3. DepthAt(d, s, j - 1) = DepthAt(d, s, j) - 1
    BY <1>9, <2>2 DEF DepthAt
  <2> QED BY <1>4, <1>7, <1>8, <1>11, <2>3
<1>12. CASE j \notin Counted(s)
  <2>1. Above(s, j - 1) = Above(s, j)
    BY <1>10, <1>12 DEF Above
  <2> QED BY <1>4, <1>7, <1>8, <2>1 DEF DepthAt
<1> QED BY <1>11, <1>12

\* A call and a return change nothing for the frames below.
LEMMA AbovePush ==
  ASSUME NEW s \in Seq(FrameType), NEW f \in FrameType, NEW j \in Nat, j <= Len(s)
  PROVE  /\ Instrumented(f) => Cardinality(Above(Append(s, f), j)) = Cardinality(Above(s, j)) + 1
         /\ ~Instrumented(f) => Cardinality(Above(Append(s, f), j)) = Cardinality(Above(s, j))
<1> DEFINE t == Append(s, f)
           n == Len(s) + 1
<1>1. /\ Len(s) \in Nat /\ Len(t) = n /\ t[n] = f
      /\ \A k \in 1 .. Len(s) : t[k] = s[k]
  BY AppendProperties
<1>2. \A k \in 1 .. Len(s) : k \in Counted(t) <=> k \in Counted(s)
  BY <1>1 DEF Counted
<1>3. n \notin Counted(s) /\ (n \in Counted(t) <=> Instrumented(f))
  BY <1>1 DEF Counted
<1>4. Counted(s) \subseteq 1 .. Len(s) /\ Counted(t) \subseteq 1 .. n
  BY <1>1 DEF Counted
<1>5. 1 .. n = (1 .. Len(s)) \union {n} /\ n > j
  BY <1>1
<1> HIDE DEF t, n
<1>6. CASE Instrumented(f)
  <2>1. Above(t, j) = Above(s, j) \union {n} /\ n \notin Above(s, j)
    BY <1>2, <1>3, <1>4, <1>5, <1>6 DEF Above
  <2>2. Cardinality(Above(s, j) \union {n}) = Cardinality(Above(s, j)) + 1
    BY <2>1, AboveFinite, FS_AddElement
  <2> QED BY <1>6, <2>1, <2>2 DEF t
<1>7. CASE ~Instrumented(f)
  <2>1. Above(t, j) = Above(s, j)
    BY <1>2, <1>3, <1>4, <1>5, <1>7 DEF Above
  <2> QED BY <1>7, <2>1 DEF t
<1> QED BY <1>6, <1>7

LEMMA DepthPush ==
  ASSUME NEW s \in Seq(FrameType), NEW f \in FrameType, NEW d \in Int
  PROVE  /\ Instrumented(f) => \A j \in 0 .. Len(s) : DepthAt(d + 1, Append(s, f), j) = DepthAt(d, s, j)
         /\ ~Instrumented(f) => \A j \in 0 .. Len(s) : DepthAt(d, Append(s, f), j) = DepthAt(d, s, j)
<1> SUFFICES ASSUME NEW j \in 0 .. Len(s)
             PROVE  /\ Instrumented(f) => DepthAt(d + 1, Append(s, f), j) = DepthAt(d, s, j)
                    /\ ~Instrumented(f) => DepthAt(d, Append(s, f), j) = DepthAt(d, s, j)
  OBVIOUS
<1>1. j \in Nat /\ j <= Len(s)
  OBVIOUS
<1>2. Cardinality(Above(s, j)) \in Nat
  BY <1>1, AboveFinite
<1> QED BY <1>1, <1>2, AbovePush DEF DepthAt

LEMMA DepthPop ==
  ASSUME NEW s \in Seq(FrameType), s # <<>>, NEW d \in Int
  PROVE  /\ Instrumented(s[Len(s)]) => \A j \in 0 .. Len(s) - 1 : DepthAt(d - 1, Below(s), j) = DepthAt(d, s, j)
         /\ ~Instrumented(s[Len(s)]) => \A j \in 0 .. Len(s) - 1 : DepthAt(d, Below(s), j) = DepthAt(d, s, j)
<1>1. /\ s[Len(s)] \in FrameType /\ Below(s) \in Seq(FrameType)
      /\ Len(Below(s)) = Len(s) - 1 /\ s = Append(Below(s), s[Len(s)])
  BY BelowTop
<1> DEFINE b == Below(s)
           f == s[Len(s)]
<1> HIDE DEF b, f
<1>2. b \in Seq(FrameType) /\ f \in FrameType /\ s = Append(b, f) /\ Len(b) = Len(s) - 1
  BY <1>1 DEF b, f
<1>3. d - 1 \in Int /\ (d - 1) + 1 = d
  OBVIOUS
<1>4. Instrumented(f) => \A j \in 0 .. Len(b) : DepthAt((d - 1) + 1, Append(b, f), j) = DepthAt(d - 1, b, j)
  BY <1>2, <1>3, DepthPush
<1>5. ~Instrumented(f) => \A j \in 0 .. Len(b) : DepthAt(d, Append(b, f), j) = DepthAt(d, b, j)
  BY <1>2, DepthPush
<1> QED BY <1>2, <1>3, <1>4, <1>5 DEF b, f

\* Nor does it matter what has been recorded.
LEMMA DepthSame ==
  ASSUME NEW s, NEW t, Len(t) = Len(s), \A k \in 1 .. Len(s) : t[k].m = s[k].m, NEW d, NEW j
  PROVE  DepthAt(d, t, j) = DepthAt(d, s, j)
<1>1. \A k \in 1 .. Len(s) : Instrumented(t[k]) <=> Instrumented(s[k])
  BY DEF Instrumented
<1>2. Counted(t) = Counted(s)
  BY <1>1 DEF Counted
<1> QED BY <1>2 DEF DepthAt, Above

----------------------------------------------------------------------------
\* Calls, returns and exceptions.

\* What a recorded line and a frame are.
LEMMA LinesAndFrames ==
  ASSUME TypeOK
  PROVE  /\ stack \in Seq(FrameType) /\ Len(stack) \in Nat
         /\ \A j \in 1 .. Len(stack) : stack[j].first \in Nat /\ stack[j].last \in Nat
         /\ flow \in Seq(LineType) /\ Len(flow) \in Nat
         /\ stackTraceDepth \in Int /\ throws \in Nat /\ lookups \in Nat
         /\ \A k \in 1 .. Len(flow) :
              /\ flow[k].sd \in Int /\ flow[k].throws \in Nat /\ flow[k].lookups \in Nat
              /\ flow[k].act \in Nat \ {0}
              /\ flow[k].under \subseteq Nat \ {0} /\ flow[k].frames \subseteq Nat \ {0}
<1>1. stack \in Seq(FrameType) /\ flow \in Seq(LineType)
  BY DEF TypeOK
<1>2. \A f \in FrameType : f.first \in Nat /\ f.last \in Nat
  BY DEF FrameType
<1>3. \A l \in LineType : /\ l.sd \in Int /\ l.throws \in Nat /\ l.lookups \in Nat
                          /\ l.act \in Nat \ {0}
                          /\ l.under \subseteq Nat \ {0} /\ l.frames \subseteq Nat \ {0}
  BY DEF LineType, Steps
<1>4. stackTraceDepth \in Int /\ throws \in Nat /\ lookups \in Nat
  BY DEF TypeOK
<1>5. /\ \A j \in 1 .. Len(stack) : stack[j] \in FrameType
      /\ \A k \in 1 .. Len(flow) : flow[k] \in LineType
  BY <1>1
<1>6. Len(stack) \in Nat /\ Len(flow) \in Nat
  BY <1>1
<1> QED BY <1>1, <1>2, <1>3, <1>4, <1>5, <1>6

\* After an exception or a lookup no line is recent.
LEMMA FitsNothing ==
  ASSUME NEW fl, NEW d, NEW s
  PROVE  Fits(fl, {}, d, s)
BY DEF Fits

\* What a step says that records no line.
LEMMA NoLine ==
  ASSUME DInv, flow' = flow,
         Grounded(flow, thrown', stackTraceDepth', throws', lookups'),
         Dated(flow, thrown', throws', lookups'), Stacked(flow, stack'),
         Fits(flow, Recent(flow, throws', lookups'), stackTraceDepth', stack')
  PROVE  DInv'
BY DEF DInv

\* Without exceptions the counter counts what is on the stack.
Counts(d, s) == d >= Cardinality(Counted(s)) \/ (d = -1 /\ Counted(s) = {})

LEMMA CountsTop ==
  ASSUME NEW s \in Seq(FrameType), s # <<>>, Instrumented(s[Len(s)]), NEW d \in Int, Counts(d, s)
  PROVE  d >= 1
<1>1. IsFiniteSet(Counted(s)) /\ Cardinality(Counted(s)) \in Nat
  BY CountedFinite
<1>2. Len(s) \in Counted(s)
  BY BelowTop DEF Counted
<1>3. Cardinality(Counted(s)) # 0
  BY <1>1, <1>2, FS_EmptySet
<1> QED BY <1>1, <1>2, <1>3 DEF Counts

LEMMA Unharmed ==
  ASSUME IInv, throws = 0, thrown = "none"
  PROVE  Counts(stackTraceDepth, stack)
<1>1. lost = 0
  BY DEF IInv, TypeOK
<1>2. stackTraceDepth \in Int
  BY Typed
<1> QED BY <1>1, <1>2 DEF IInv, Level, Pending, Count, Counts

LEMMA StackedBelow ==
  ASSUME NEW fl, NEW s \in Seq(FrameType), s # <<>>, Stacked(fl, s)
  PROVE  Stacked(fl, Below(s))
<1>1. /\ Len(Below(s)) = Len(s) - 1 /\ Len(s) \in Nat
      /\ \A k \in 1 .. Len(s) - 1 : Below(s)[k] = s[k]
  BY BelowTop
<1> DEFINE b == Below(s)
<1> HIDE DEF b
<1>2. Len(b) = Len(s) - 1 /\ \A k \in 1 .. Len(b) : b[k] = s[k] /\ k \in 1 .. Len(s)
  BY <1>1 DEF b
<1>3. Stacked(fl, b)
  BY <1>2 DEF Stacked
<1> QED BY <1>3 DEF b

LEMMA CallKeeps ==
  ASSUME IInv, DInv, NEW m \in Methods, Call(m)
  PROVE  DInv'
<1> DEFINE f == Frame(m)
<1>1. /\ stack' = Append(stack, f)
      /\ stackTraceDepth' = IF Instrumented(f) THEN Increase(stack') ELSE stackTraceDepth
      /\ lookups' = IF Instrumented(f) /\ LooksUp THEN lookups + 1 ELSE lookups
      /\ thrown' = thrown /\ flow' = flow /\ throws' = throws
  BY DEF Call
<1>2. f \in FrameType /\ f.first = 0 /\ f.last = 0
  BY BoundsAssumption DEF Frame, FrameType
<1>3. TypeOK /\ Dated(flow, thrown, throws, lookups) /\ Stacked(flow, stack)
      /\ Fits(flow, Recent(flow, throws, lookups), stackTraceDepth, stack)
      /\ Grounded(flow, thrown, stackTraceDepth, throws, lookups)
  BY DEF IInv, DInv
<1>4. /\ stack \in Seq(FrameType) /\ Len(stack) \in Nat
      /\ Len(flow) \in Nat /\ stackTraceDepth \in Int /\ throws \in Nat /\ lookups \in Nat
      /\ \A j \in 1 .. Len(stack) : stack[j].first \in Nat /\ stack[j].last \in Nat
      /\ \A k \in 1 .. Len(flow) :
           /\ flow[k].throws \in Nat /\ flow[k].lookups \in Nat
           /\ flow[k].act # 0 /\ 0 \notin flow[k].under
  BY <1>3, LinesAndFrames
<1> HIDE DEF f
<1>5. /\ Len(stack') = Len(stack) + 1 /\ stack'[Len(stack) + 1] = f
      /\ \A k \in 1 .. Len(stack) : stack'[k] = stack[k]
  BY <1>1, <1>2, <1>4, AppendProperties
<1>6. \A j \in 1 .. Len(stack') : (j = Len(stack) + 1 /\ stack'[j] = f) \/ (j \in 1 .. Len(stack) /\ stack'[j] = stack[j])
  BY <1>4, <1>5
<1>7. Dated(flow, thrown', throws', lookups')
  <2>1. lookups \in Nat /\ lookups' \in Nat /\ lookups <= lookups'
    BY <1>1, <1>4
  <2>2. \A k \in 1 .. Len(flow) : flow[k].lookups <= lookups'
    BY <1>3, <1>4, <2>1 DEF Dated
  <2> QED BY <1>1, <1>3, <2>2 DEF Dated
<1>8. Stacked(flow, stack')
  <2> SUFFICES ASSUME NEW j \in 1 .. Len(stack')
               PROVE  /\ stack'[j].first <= stack'[j].last /\ stack'[j].last <= Len(flow)
                      /\ stack'[j].last > 0 => flow[stack'[j].last].act = stack'[j].first
                      /\ \A i \in 1 .. Len(stack') : i < j /\ stack'[j].first # 0 => stack'[i].last < stack'[j].first
    BY DEF Stacked
  <2>1. CASE j = Len(stack) + 1
    BY <1>2, <1>4, <1>5, <2>1
  <2>2. CASE j \in 1 .. Len(stack)
    <3>1. stack'[j] = stack[j] /\ \A i \in 1 .. Len(stack') : i < j => i \in 1 .. Len(stack) /\ stack'[i] = stack[i]
      BY <1>4, <1>5, <2>2
    <3> QED BY <1>3, <2>2, <3>1 DEF Stacked
  <2> QED BY <1>6, <2>1, <2>2
<1>9. Fits(flow, Recent(flow, throws', lookups'), stackTraceDepth', stack')
  <2>1. CASE Instrumented(f) /\ LooksUp
    <3>1. \A k \in 1 .. Len(flow) : flow[k].lookups < lookups + 1
      BY <1>3, <1>4 DEF Dated
    <3>2. Recent(flow, throws', lookups') = {}
      BY <1>1, <1>4, <2>1, <3>1 DEF Recent
    <3> QED BY <3>2, FitsNothing
  <2>2. CASE ~(Instrumented(f) /\ LooksUp)
    <3>1. lookups' = lookups /\ stackTraceDepth' = IF Instrumented(f) THEN stackTraceDepth + 1 ELSE stackTraceDepth
      BY <1>1, <2>2 DEF Increase
    <3>2. \A j \in 0 .. Len(stack) : DepthAt(stackTraceDepth', stack', j) = DepthAt(stackTraceDepth, stack, j)
      BY <1>1, <1>2, <1>4, <3>1, DepthPush
    <3>3. Recent(flow, throws', lookups') = Recent(flow, throws, lookups)
      BY <1>1, <3>1
    <3>4. \A k \in Recent(flow, throws, lookups) : flow[k].act # 0 /\ 0 \notin flow[k].under
      BY <1>4 DEF Recent
    <3>5. \A j \in 1 .. Len(stack) : j \in 0 .. Len(stack)
      OBVIOUS
    <3>6. 0 \in 0 .. Len(stack)
      BY <1>4
    <3> QED BY <1>2, <1>3, <1>6, <3>2, <3>3, <3>4, <3>5, <3>6 DEF Fits
  <2> QED BY <2>1, <2>2
<1>10. Grounded(flow, thrown', stackTraceDepth', throws', lookups')
  <2>1. CASE throws # 0
    BY <1>1, <1>3, <2>1 DEF Grounded
  <2>2. CASE throws = 0 /\ ~Instrumented(f)
    BY <1>1, <1>3, <2>2 DEF Grounded
  <2>3. CASE throws = 0 /\ Instrumented(f)
    <3>1. thrown = "none"
      BY <1>3, <1>4, <2>3 DEF Grounded
    <3>2. IInv'
      BY CallStep
    <3>3. stack' \in Seq(FrameType) /\ stack' # <<>> /\ Instrumented(stack'[Len(stack')])
      BY <1>1, <1>2, <1>4, <1>5, <2>3 DEF Instrumented
    <3>4. stackTraceDepth' \in Int /\ lost' = 0 /\ Level' /\ ~Pending'
      BY <1>1, <2>3, <3>1, <3>2 DEF IInv, TypeOK, Pending
    <3>5. Counts(stackTraceDepth', stack')
      BY <3>4 DEF Level, Count, Counts
    <3>8. stackTraceDepth' >= 1
      BY <3>3, <3>4, <3>5, CountsTop
    <3>6. lookups' = 1
      BY <1>1, <1>3, <2>3 DEF Grounded, LooksUp
    <3>7. stackTraceDepth' # -1
      BY <3>4, <3>8
    <3> QED BY <1>1, <1>3, <2>3, <3>1, <3>6, <3>7 DEF Grounded
  <2> QED BY <2>1, <2>2, <2>3
<1> QED BY <1>1, <1>7, <1>8, <1>9, <1>10, NoLine

LEMMA ReturnKeeps ==
  ASSUME IInv, DInv, Return
  PROVE  DInv'
<1>1. /\ stack # <<>> /\ stack' = Below(stack)
      /\ Instrumented(stack[Len(stack)]) => stackTraceDepth' = stackTraceDepth - 1
      /\ ~Instrumented(stack[Len(stack)]) => stackTraceDepth' = stackTraceDepth
      /\ thrown' = thrown /\ flow' = flow /\ throws' = throws /\ lookups' = lookups
  BY DEF Return, Running, Top
<1>2. TypeOK /\ Dated(flow, thrown, throws, lookups) /\ Stacked(flow, stack)
      /\ Fits(flow, Recent(flow, throws, lookups), stackTraceDepth, stack)
      /\ Grounded(flow, thrown, stackTraceDepth, throws, lookups)
  BY DEF IInv, DInv
<1>3. stack \in Seq(FrameType) /\ stackTraceDepth \in Int
  BY <1>2, LinesAndFrames
<1>4. Stacked(flow, stack')
  BY <1>1, <1>2, <1>3, StackedBelow
<1>5. /\ Len(stack') = Len(stack) - 1 /\ Len(stack) \in Nat \ {0}
      /\ \A k \in 1 .. Len(stack) - 1 : stack'[k] = stack[k]
  BY <1>1, <1>3, BelowTop
<1>6. \A j \in 0 .. Len(stack) - 1 : DepthAt(stackTraceDepth', stack', j) = DepthAt(stackTraceDepth, stack, j)
  BY <1>1, <1>3, DepthPop
<1>7. \A j \in 1 .. Len(stack') : j \in 1 .. Len(stack) /\ j \in 0 .. Len(stack) - 1 /\ stack'[j] = stack[j]
  BY <1>5
<1>8. 0 \in 0 .. Len(stack) - 1
  BY <1>5
<1>9. Fits(flow, Recent(flow, throws, lookups), stackTraceDepth', stack')
  BY <1>2, <1>6, <1>7, <1>8 DEF Fits
<1>10. Grounded(flow, thrown', stackTraceDepth', throws', lookups')
  <2>1. CASE throws # 0 \/ ~Instrumented(Top)
    BY <1>1, <1>2, <2>1 DEF Grounded, Top
  <2>2. CASE throws = 0 /\ Instrumented(Top)
    <3>1. thrown = "none"
      BY DEF Return, Running
    <3>2. stackTraceDepth >= 1
      BY <1>1, <1>3, <2>2, <3>1, Unharmed, CountsTop DEF Top
    <3>3. stackTraceDepth' # -1 /\ stackTraceDepth # -1
      BY <1>1, <1>3, <2>2, <3>2 DEF Top
    <3> QED BY <1>1, <1>2, <3>3 DEF Grounded
  <2> QED BY <2>1, <2>2
<1> QED BY <1>1, <1>2, <1>4, <1>9, <1>10, NoLine

LEMMA ThrowKeeps ==
  ASSUME IInv, DInv, Throw
  PROVE  DInv'
<1>1. /\ throws' = throws + 1
      /\ stack' = stack /\ flow' = flow /\ lookups' = lookups
  BY DEF Throw
<1>2. TypeOK /\ Dated(flow, thrown, throws, lookups) /\ Stacked(flow, stack)
      /\ Grounded(flow, thrown, stackTraceDepth, throws, lookups)
  BY DEF IInv, DInv
<1>3. /\ throws \in Nat /\ lookups \in Nat
      /\ \A k \in 1 .. Len(flow) : flow[k].throws \in Nat /\ flow[k].lookups \in Nat
  BY <1>2, LinesAndFrames
<1>4. \A k \in 1 .. Len(flow) : flow[k].throws < throws + 1
  BY <1>2, <1>3 DEF Dated
<1>5. Recent(flow, throws', lookups') = {}
  BY <1>1, <1>3, <1>4 DEF Recent
<1>6. Dated(flow, thrown', throws', lookups')
  BY <1>1, <1>2, <1>3, <1>4 DEF Dated
<1>7. throws + 1 > 0 /\ throws + 1 # 0
  BY <1>3
<1>8. Grounded(flow, thrown', stackTraceDepth', throws', lookups')
  BY <1>1, <1>2, <1>7 DEF Grounded
<1> QED BY <1>1, <1>2, <1>5, <1>6, <1>8, FitsNothing, NoLine

\* While an exception is on its way, all lines are older.
LEMMA OnItsWay ==
  ASSUME IInv, DInv, thrown # "none", flow' = flow, throws' = throws, lookups' = lookups,
         Stacked(flow, stack')
  PROVE  DInv'
<1>1. TypeOK /\ Dated(flow, thrown, throws, lookups)
      /\ Grounded(flow, thrown, stackTraceDepth, throws, lookups)
  BY DEF IInv, DInv
<1>2. /\ throws \in Nat /\ lookups \in Nat
      /\ \A k \in 1 .. Len(flow) : flow[k].throws \in Nat /\ flow[k].lookups \in Nat
  BY <1>1, LinesAndFrames
<1>3. \A k \in 1 .. Len(flow) : flow[k].throws < throws
  BY <1>1 DEF Dated
<1>4. Recent(flow, throws, lookups) = {}
  BY <1>2, <1>3 DEF Recent
<1>5. Dated(flow, thrown', throws, lookups)
  BY <1>1, <1>3 DEF Dated
<1>6. throws > 0 /\ throws # 0
  BY <1>1, <1>2 DEF Grounded
<1>7. Grounded(flow, thrown', stackTraceDepth', throws, lookups)
  BY <1>1, <1>6 DEF Grounded
<1> QED BY <1>4, <1>5, <1>7, FitsNothing, NoLine

LEMMA ExceptionKeeps ==
  ASSUME IInv, DInv, Unwind \/ CatchUnnoticed \/ \E handler \in Handlers : Catch(handler)
  PROVE  DInv'
<1>1. TypeOK /\ Stacked(flow, stack)
  BY DEF IInv, DInv
<1>2. CASE Unwind
  <2>1. /\ thrown # "none" /\ stack # <<>> /\ stack' = Below(stack)
        /\ flow' = flow /\ throws' = throws /\ lookups' = lookups
    BY <1>2 DEF Unwind
  <2>2. Stacked(flow, stack')
    BY <1>1, <2>1, LinesAndFrames, StackedBelow
  <2> QED BY <2>1, <2>2, OnItsWay
<1>3. CASE CatchUnnoticed \/ \E handler \in Handlers : Catch(handler)
  <2>1. /\ thrown # "none" /\ stack' = stack
        /\ flow' = flow /\ throws' = throws /\ lookups' = lookups
    BY <1>3 DEF CatchUnnoticed, Catch
  <2> QED BY <1>1, <2>1, OnItsWay
<1> QED BY <1>2, <1>3

----------------------------------------------------------------------------
\* A line.

\* The recorded frames of s below the top.
Under(s) == {i \in 1 .. Len(s) - 1 : Recorded(s[i])}

\* What the line x tells, of frames s and their new top t.
Tells(x, s, t, d, th, lu, step) ==
  /\ x.m = s[Len(s)].m /\ x.sd = d /\ x.throws = th /\ x.lookups = lu
  /\ x.act = t.first
  /\ x.under = {s[i].first : i \in Under(s)}
  /\ x.frames = {s[i].last : i \in Under(s)} \union {step}
  /\ x.plain => \A i \in 1 .. Len(s) : KindOf[s[i].m] # "filtered"

LEMMA LineIs ==
  ASSUME IInv, Line
  PROVE  LET n    == Len(stack)
             step == Len(flow) + 1
         IN /\ stack # <<>> /\ n \in Counted(stack)
            /\ Len(stack') = n /\ \A j \in 1 .. n : j # n => stack'[j] = stack[j]
            /\ stack'[n].m = stack[n].m /\ stack'[n].last = step
            /\ stack'[n].first = IF stack[n].first = 0 THEN step ELSE stack[n].first
            /\ Len(flow') = step /\ \A k \in 1 .. Len(flow) : flow'[k] = flow[k]
            /\ Tells(flow'[step], stack, stack'[n], stackTraceDepth, throws, lookups, step)
            /\ UNCHANGED <<thrown, stackTraceDepth, throws, lookups>>
<1> DEFINE n     == Len(stack)
           step  == Len(flow) + 1
           first == IF Top.first = 0 THEN step ELSE Top.first
           top   == [Top EXCEPT !.first = IF @ = 0 THEN step ELSE @, !.last = step]
           under == {k \in 1 .. n - 1 : Recorded(stack[k])}
           line  == [m |-> top.m, sd |-> stackTraceDepth, throws |-> throws, lookups |-> lookups,
                     act |-> top.first,
                     under |-> {stack[k].first : k \in under},
                     frames |-> {stack[k].last : k \in under} \union {step},
                     plain |-> \A k \in 1 .. n : KindOf[stack[k].m] # "filtered"]
<1>1. /\ stack # <<>> /\ Recorded(Top)
      /\ stack' = [stack EXCEPT ![n] = top]
      /\ flow' = Append(flow, line)
      /\ UNCHANGED <<thrown, stackTraceDepth, throws, lookups>>
  BY DEF Line
<1>2. stack \in Seq(FrameType) /\ flow \in Seq(LineType) /\ Len(flow) \in Nat
  BY LinesAndFrames DEF IInv
<1>3. n \in Nat \ {0} /\ Top \in FrameType /\ Top = stack[n]
  BY <1>1, <1>2, BelowTop DEF Top
<1>4. top.m = Top.m /\ top.last = step /\ top.first = first
  <2>1. Top = [m |-> Top.m, first |-> Top.first, last |-> Top.last]
    BY <1>3 DEF FrameType
  <2>2. top = [[Top EXCEPT !.first = first] EXCEPT !.last = step]
    OBVIOUS
  <2> HIDE DEF top, step, first
  <2>3. [Top EXCEPT !.first = first] = [m |-> Top.m, first |-> first, last |-> Top.last]
    BY <2>1
  <2>4. top = [m |-> Top.m, first |-> first, last |-> step]
    BY <2>2, <2>3
  <2> QED BY <2>4
<1>5. n \in Counted(stack)
  BY <1>1, <1>3 DEF Counted, Recorded, Instrumented
<1> HIDE DEF top
<1>6. /\ Len(stack') = n /\ stack'[n] = top
      /\ \A j \in 1 .. n : j # n => stack'[j] = stack[j]
  BY <1>1, <1>2, <1>3
<1>7. Tells(line, stack, top, stackTraceDepth, throws, lookups, step)
  BY <1>3, <1>4 DEF Tells, Under
<1> HIDE DEF line
<1>8. /\ Len(flow') = step /\ flow'[step] = line
      /\ \A k \in 1 .. Len(flow) : flow'[k] = flow[k]
  BY <1>1, <1>2
<1> QED BY <1>1, <1>3, <1>4, <1>5, <1>6, <1>7, <1>8

\* What the old frames and lines of the last lemma are to the new line.
LEMMA OlderThanLine ==
  ASSUME IInv, DInv, Line, NEW n, n = Len(stack), NEW step, step = Len(flow) + 1
  PROVE  /\ n \in Nat \ {0} /\ step \in Nat \ {0}
         /\ stack'[n].first \in 1 .. step
         /\ \A i \in 1 .. n - 1 : stack[i].last < stack'[n].first /\ stack[i].first < stack'[n].first
         /\ \A k \in 1 .. Len(flow) :
              /\ flow[k].act = stack'[n].first => flow[k].act = stack[n].first
              /\ stack'[n].first \in flow[k].under => stack[n].first \in flow[k].under
<1>1. TypeOK /\ Dated(flow, thrown, throws, lookups) /\ Stacked(flow, stack)
  BY DEF IInv, DInv
<1>2. /\ stack \in Seq(FrameType)
      /\ \A j \in 1 .. Len(stack) : stack[j].first \in Nat /\ stack[j].last \in Nat
      /\ Len(flow) \in Nat
      /\ \A k \in 1 .. Len(flow) : flow[k].act \in Nat \ {0} /\ flow[k].under \subseteq Nat \ {0}
  BY <1>1, LinesAndFrames
<1>3. /\ stack # <<>>
      /\ stack'[n].first = IF stack[n].first = 0 THEN step ELSE stack[n].first
  BY LineIs
<1>4. n \in Nat \ {0} /\ step \in Nat \ {0}
  BY <1>2, <1>3
<1>5. \A j \in 1 .. n : stack[j].first <= stack[j].last /\ stack[j].last < step
  BY <1>1, <1>2, <1>4 DEF Stacked
<1>6. stack'[n].first \in 1 .. step
  BY <1>2, <1>3, <1>4, <1>5
<1>7. \A i \in 1 .. n - 1 : stack[i].last < stack'[n].first /\ stack[i].first < stack'[n].first
  <2> SUFFICES ASSUME NEW i \in 1 .. n - 1
               PROVE  stack[i].last < stack'[n].first /\ stack[i].first < stack'[n].first
    OBVIOUS
  <2>1. i \in 1 .. n /\ i < n /\ n \in 1 .. n
    BY <1>4
  <2>2. stack[n].first # 0 => stack[i].last < stack[n].first
    BY <1>1, <2>1 DEF Stacked
  <2> QED BY <1>2, <1>3, <1>4, <1>5, <2>1, <2>2
<1>8. \A k \in 1 .. Len(flow) :
        /\ flow[k].act = stack'[n].first => flow[k].act = stack[n].first
        /\ stack'[n].first \in flow[k].under => stack[n].first \in flow[k].under
  <2> SUFFICES ASSUME NEW k \in 1 .. Len(flow)
               PROVE  flow[k].act # step /\ step \notin flow[k].under
    BY <1>3
  <2>1. flow[k].act \in 1 .. k /\ \A a \in flow[k].under : a < flow[k].act
    BY <1>1 DEF Dated
  <2>2. flow[k].act < step
    BY <1>2, <2>1
  <2>3. \A a \in flow[k].under : a # step
    BY <1>2, <1>4, <2>1, <2>2
  <2> QED BY <1>2, <1>4, <2>2, <2>3
<1> QED BY <1>4, <1>6, <1>7, <1>8

LEMMA LineDated ==
  ASSUME IInv, DInv, Line
  PROVE  Dated(flow, thrown, throws, lookups)' /\ Stacked(flow, stack)'
<1> DEFINE n    == Len(stack)
           step == Len(flow) + 1
           t    == stack'[n]
           x    == flow'[step]
<1>1. /\ stack # <<>>
      /\ Len(stack') = n /\ \A j \in 1 .. n : j # n => stack'[j] = stack[j]
      /\ t.last = step
      /\ Len(flow') = step /\ \A k \in 1 .. Len(flow) : flow'[k] = flow[k]
      /\ Tells(x, stack, t, stackTraceDepth, throws, lookups, step)
      /\ UNCHANGED <<thrown, stackTraceDepth, throws, lookups>>
  BY LineIs
<1>2. /\ n \in Nat \ {0} /\ step \in Nat \ {0}
      /\ t.first \in 1 .. step
      /\ \A i \in 1 .. n - 1 : stack[i].last < t.first /\ stack[i].first < t.first
  BY OlderThanLine
<1>3. TypeOK /\ Dated(flow, thrown, throws, lookups) /\ Stacked(flow, stack)
  BY DEF IInv, DInv
<1>4. /\ stack \in Seq(FrameType)
      /\ \A j \in 1 .. n : stack[j].first \in Nat /\ stack[j].last \in Nat
      /\ Len(flow) \in Nat /\ throws \in Nat /\ lookups \in Nat
  BY <1>3, LinesAndFrames
<1>5. thrown = "none"
  BY DEF Line
<1> HIDE DEF t, x
<1>6. /\ x.throws = throws /\ x.lookups = lookups
      /\ x.act \in 1 .. step
      /\ \A a \in x.under : a < x.act
      /\ step \in x.frames
      /\ \A c \in x.frames : c <= step
  <2>1. \A i \in Under(stack) : i \in 1 .. n - 1
    BY DEF Under
  <2>2. \A i \in Under(stack) : stack[i].last <= step
    <3>1. \A i \in 1 .. n : stack[i].last <= Len(flow)
      BY <1>3 DEF Stacked
    <3> QED BY <1>2, <1>4, <2>1, <3>1
  <2> QED BY <1>1, <1>2, <2>1, <2>2 DEF Tells
<1>7. \A k \in 1 .. step : k = step \/ (k \in 1 .. Len(flow) /\ k < step)
  BY <1>4
<1>8. Dated(flow', thrown', throws', lookups')
  <2>1. \A k \in 1 .. step :
          /\ flow'[k].throws <= throws /\ flow'[k].lookups <= lookups
          /\ flow'[k].act \in 1 .. k
          /\ \A a \in flow'[k].under : a < flow'[k].act
          /\ k \in flow'[k].frames
          /\ \A c \in flow'[k].frames : c <= k
    <3> SUFFICES ASSUME NEW k \in 1 .. step
                 PROVE  /\ flow'[k].throws <= throws /\ flow'[k].lookups <= lookups
                        /\ flow'[k].act \in 1 .. k
                        /\ \A a \in flow'[k].under : a < flow'[k].act
                        /\ k \in flow'[k].frames
                        /\ \A c \in flow'[k].frames : c <= k
      OBVIOUS
    <3>1. CASE k = step
      BY <1>4, <1>6, <3>1 DEF x
    <3>2. CASE k \in 1 .. Len(flow)
      BY <1>1, <1>3, <3>2 DEF Dated
    <3> QED BY <1>7, <3>1, <3>2
  <2>2. \A i, k \in 1 .. step : i < k => flow'[i].throws <= flow'[k].throws /\ flow'[i].lookups <= flow'[k].lookups
    <3> SUFFICES ASSUME NEW i \in 1 .. step, NEW k \in 1 .. step, i < k
                 PROVE  flow'[i].throws <= flow'[k].throws /\ flow'[i].lookups <= flow'[k].lookups
      OBVIOUS
    <3>1. i \in 1 .. Len(flow)
      BY <1>4
    <3>2. CASE k = step
      BY <1>1, <1>3, <1>6, <3>1, <3>2 DEF Dated, x
    <3>3. CASE k \in 1 .. Len(flow)
      BY <1>1, <1>3, <3>1, <3>3 DEF Dated
    <3> QED BY <1>7, <3>2, <3>3
  <2> QED BY <1>1, <1>5, <2>1, <2>2 DEF Dated
<1>9. Stacked(flow', stack')
  <2> SUFFICES ASSUME NEW j \in 1 .. n
               PROVE  /\ stack'[j].first <= stack'[j].last /\ stack'[j].last <= step
                      /\ stack'[j].last > 0 => flow'[stack'[j].last].act = stack'[j].first
                      /\ \A i \in 1 .. n : i < j /\ stack'[j].first # 0 => stack'[i].last < stack'[j].first
    BY <1>1 DEF Stacked
  <2>1. CASE j = n
    <3>1. flow'[step].act = t.first
      BY <1>1 DEF Tells, x
    <3>2. \A i \in 1 .. n : i < n => stack'[i] = stack[i] /\ stack[i].last < t.first
      BY <1>1, <1>2
    <3> QED BY <1>1, <1>2, <2>1, <3>1, <3>2 DEF t
  <2>2. CASE j # n
    <3>1. stack'[j] = stack[j] /\ \A i \in 1 .. n : i < j => i # n /\ stack'[i] = stack[i]
      BY <1>1, <1>2, <2>2
    <3>2. stack[j].last <= Len(flow) /\ stack[j].first <= stack[j].last
      BY <1>3 DEF Stacked
    <3>3. stack[j].last > 0 => stack[j].last \in 1 .. Len(flow)
      BY <1>4, <3>2
    <3> QED BY <1>1, <1>3, <1>4, <2>2, <3>1, <3>2, <3>3 DEF Stacked
  <2> QED BY <2>1, <2>2
<1> QED BY <1>8, <1>9

LEMMA LineFits ==
  ASSUME IInv, DInv, Line
  PROVE  Fits(flow, Recent(flow, throws, lookups), stackTraceDepth, stack)'
<1> DEFINE n    == Len(stack)
           step == Len(flow) + 1
           t    == stack'[n]
           x    == flow'[step]
           d    == stackTraceDepth
<1>1. /\ n \in Counted(stack)
      /\ Len(stack') = n /\ \A j \in 1 .. n : j # n => stack'[j] = stack[j]
      /\ t.m = stack[n].m /\ t.last = step
      /\ Len(flow') = step /\ \A k \in 1 .. Len(flow) : flow'[k] = flow[k]
      /\ Tells(x, stack, t, d, throws, lookups, step)
      /\ stackTraceDepth' = d /\ throws' = throws /\ lookups' = lookups
  BY LineIs
<1>2. /\ n \in Nat \ {0} /\ step \in Nat \ {0}
      /\ \A i \in 1 .. n - 1 : stack[i].last < t.first /\ stack[i].first < t.first
      /\ \A k \in 1 .. Len(flow) :
              /\ flow[k].act = t.first => flow[k].act = stack[n].first
              /\ t.first \in flow[k].under => stack[n].first \in flow[k].under
  BY OlderThanLine
<1>3. TypeOK /\ Fits(flow, Recent(flow, throws, lookups), d, stack)
  BY DEF IInv, DInv
<1>4. /\ stack \in Seq(FrameType) /\ Len(flow) \in Nat /\ d \in Int
      /\ \A j \in 1 .. n : stack[j].first \in Nat /\ stack[j].last \in Nat
  BY <1>3, LinesAndFrames
<1>5. \A j \in 1 .. n : stack'[j].m = stack[j].m
  BY <1>1
<1>6. \A j : DepthAt(d, stack', j) = DepthAt(d, stack, j)
  BY <1>1, <1>5, DepthSame
<1>7. DepthAt(d, stack, n) = d /\ \A j \in 0 .. n - 1 : DepthAt(d, stack, j) < d
  <2>1. DepthAt(d, stack, n) = d
    BY <1>4, AboveTop
  <2>2. \A j \in 0 .. n - 1 : j \in Nat /\ j < n
    BY <1>2
  <2>3. \A j \in 0 .. n - 1 : DepthAt(d, stack, j) < DepthAt(d, stack, n)
    BY <1>1, <1>4, <2>2, AboveLower
  <2> QED BY <2>1, <2>3
<1> HIDE DEF t, x, d
<1>8. \A k \in Recent(flow', throws, lookups) : k = step \/ (k \in Recent(flow, throws, lookups) /\ k \in 1 .. Len(flow) /\ flow'[k] = flow[k])
  BY <1>1, <1>4 DEF Recent
<1>9. 0 \in 0 .. n - 1 /\ \A j \in 1 .. n : j = n \/ (j \in 0 .. n - 1 /\ j \in 1 .. n - 1 /\ j # n)
  BY <1>2
<1>10. ASSUME NEW k \in Recent(flow, throws, lookups), k \in 1 .. Len(flow), flow'[k] = flow[k]
       PROVE  /\ flow'[k].sd > DepthAt(d, stack, 0)
              /\ \A j \in 1 .. n :
                   /\ flow'[k].act = stack'[j].first => flow'[k].m = stack'[j].m /\ flow'[k].sd = DepthAt(d, stack, j)
                   /\ stack'[j].first \in flow'[k].under => flow'[k].sd > DepthAt(d, stack, j)
                   /\ stack'[j].last > 0 /\ k > stack'[j].last => flow'[k].sd > DepthAt(d, stack, j)
  <2>1. flow[k].sd > DepthAt(d, stack, 0)
    BY <1>3 DEF Fits
  <2>2. ASSUME NEW j \in 1 .. n
        PROVE  /\ flow[k].act = stack'[j].first => flow[k].m = stack'[j].m /\ flow[k].sd = DepthAt(d, stack, j)
               /\ stack'[j].first \in flow[k].under => flow[k].sd > DepthAt(d, stack, j)
               /\ stack'[j].last > 0 /\ k > stack'[j].last => flow[k].sd > DepthAt(d, stack, j)
    <3>1. CASE j = n
      <4>1. ~(k > t.last)
        BY <1>1, <1>4, <1>10
      <4> QED BY <1>1, <1>2, <1>3, <1>10, <3>1, <4>1 DEF Fits, t
    <3>2. CASE j # n
      BY <1>1, <1>3, <3>2 DEF Fits
    <3> QED BY <3>1, <3>2
  <2> QED BY <1>10, <2>1, <2>2
<1>11. /\ x.sd > DepthAt(d, stack, 0)
       /\ \A j \in 1 .. n :
            /\ x.act = stack'[j].first => x.m = stack'[j].m /\ x.sd = DepthAt(d, stack, j)
            /\ stack'[j].first \in x.under => x.sd > DepthAt(d, stack, j)
            /\ stack'[j].last > 0 /\ step > stack'[j].last => x.sd > DepthAt(d, stack, j)
  <2>1. /\ x.sd = d /\ x.act = t.first /\ x.m = stack[n].m
        /\ \A a \in x.under : \E i \in 1 .. n - 1 : a = stack[i].first
    BY <1>1 DEF Tells, Under
  <2>2. \A j \in 0 .. n - 1 : d > DepthAt(d, stack, j)
    <3>1. \A j \in 0 .. n - 1 : DepthAt(d, stack, j) \in Int
      BY <1>4, DepthType DEF d
    <3> QED BY <1>4, <1>7, <3>1
  <2>3. ASSUME NEW j \in 1 .. n
        PROVE  /\ x.act = stack'[j].first => x.m = stack'[j].m /\ x.sd = DepthAt(d, stack, j)
               /\ stack'[j].first \in x.under => x.sd > DepthAt(d, stack, j)
               /\ stack'[j].last > 0 /\ step > stack'[j].last => x.sd > DepthAt(d, stack, j)
    <3>1. CASE j = n
      <4>1. x.m = stack'[j].m /\ x.sd = DepthAt(d, stack, j) /\ ~(step > stack'[j].last)
        BY <1>1, <1>2, <1>7, <2>1, <3>1 DEF t
      <4>2. \A i \in 1 .. n - 1 : stack[i].first < t.first /\ stack[i].first \in Nat
        BY <1>2, <1>4
      <4>3. \A i \in 1 .. n - 1 : stack[i].first # t.first
        BY <4>2
      <4>4. stack'[j].first \notin x.under
        BY <2>1, <3>1, <4>3 DEF t
      <4> QED BY <4>1, <4>4
    <3>2. CASE j # n
      <4>1. stack'[j] = stack[j] /\ j \in 1 .. n - 1 /\ d > DepthAt(d, stack, j)
        BY <1>1, <1>9, <2>2, <3>2
      <4>2. stack[j].first < t.first /\ stack[j].first \in Nat
        BY <1>2, <1>4, <4>1
      <4>3. x.act # stack'[j].first
        BY <2>1, <4>1, <4>2
      <4> QED BY <2>1, <4>1, <4>3
    <3> QED BY <3>1, <3>2
  <2> QED BY <1>9, <2>1, <2>2, <2>3
<1>12. Fits(flow', Recent(flow', throws, lookups), d, stack')
  <2> SUFFICES ASSUME NEW k \in Recent(flow', throws, lookups)
               PROVE  /\ flow'[k].sd > DepthAt(d, stack, 0)
                      /\ \A j \in 1 .. n :
                           /\ flow'[k].act = stack'[j].first => flow'[k].m = stack'[j].m /\ flow'[k].sd = DepthAt(d, stack, j)
                           /\ stack'[j].first \in flow'[k].under => flow'[k].sd > DepthAt(d, stack, j)
                           /\ stack'[j].last > 0 /\ k > stack'[j].last => flow'[k].sd > DepthAt(d, stack, j)
    BY <1>1, <1>6 DEF Fits
  <2>1. CASE k = step
    BY <1>11, <2>1 DEF x
  <2>2. CASE k \in Recent(flow, throws, lookups) /\ k \in 1 .. Len(flow) /\ flow'[k] = flow[k]
    BY <1>10, <2>2
  <2> QED BY <1>8, <2>1, <2>2
<1> QED BY <1>1, <1>12 DEF d

\* How the new line compares with the earlier ones.
LEMMA LineRelated ==
  ASSUME IInv, DInv, Line
  PROVE  Related(flow', Len(flow) + 1)
<1> DEFINE n    == Len(stack)
           step == Len(flow) + 1
           t    == stack'[n]
           x    == flow'[step]
           d    == stackTraceDepth
<1>1. /\ n \in Counted(stack)
      /\ \A k \in 1 .. Len(flow) : flow'[k] = flow[k]
      /\ Tells(x, stack, t, d, throws, lookups, step)
  BY LineIs
<1>2. /\ n \in Nat \ {0} /\ step \in Nat \ {0}
      /\ \A k \in 1 .. Len(flow) :
              /\ flow[k].act = t.first => flow[k].act = stack[n].first
              /\ t.first \in flow[k].under => stack[n].first \in flow[k].under
  BY OlderThanLine
<1>3. /\ TypeOK /\ Chain /\ Fits(flow, Recent(flow, throws, lookups), d, stack)
      /\ Stacked(flow, stack) /\ Dated(flow, thrown, throws, lookups)
  BY DEF IInv, DInv
<1>4. /\ stack \in Seq(FrameType) /\ Len(flow) \in Nat /\ d \in Int
      /\ \A j \in 1 .. n : stack[j].first \in Nat /\ stack[j].last \in Nat
      /\ throws \in Nat /\ lookups \in Nat
      /\ \A k \in 1 .. Len(flow) : flow[k].sd \in Int /\ flow[k].throws \in Nat /\ flow[k].lookups \in Nat
  BY <1>3, LinesAndFrames
<1>5. DepthAt(d, stack, n) = d /\ \A j \in 0 .. n - 1 : DepthAt(d, stack, j) < d
  <2>1. DepthAt(d, stack, n) = d
    BY <1>4, AboveTop
  <2>2. \A j \in 0 .. n - 1 : j \in Nat /\ j < n
    BY <1>2
  <2>3. \A j \in 0 .. n - 1 : DepthAt(d, stack, j) < DepthAt(d, stack, n)
    BY <1>1, <1>4, <2>2, AboveLower
  <2> QED BY <2>1, <2>3
<1>6. /\ x.sd = d /\ x.act = t.first /\ x.m = stack[n].m
      /\ x.throws = throws /\ x.lookups = lookups
      /\ x.under = {stack[i].first : i \in Under(stack)}
      /\ x.frames = {stack[i].last : i \in Under(stack)} \union {step}
      /\ x.plain => \A i \in 1 .. n : KindOf[stack[i].m] # "filtered"
  BY <1>1 DEF Tells
<1>7. \A i \in Under(stack) : /\ i \in 1 .. n - 1 /\ i \in 1 .. n /\ i < n /\ i \in 0 .. n - 1
                              /\ Recorded(stack[i]) /\ stack[i].last > 0
  <2>1. \A i \in Under(stack) : i \in 1 .. n - 1 /\ i \in 1 .. n /\ i < n /\ i \in 0 .. n - 1 /\ Recorded(stack[i])
    BY <1>2 DEF Under
  <2> QED BY <1>3, <2>1 DEF Chain
<1> HIDE DEF t, x, d
<1> SUFFICES ASSUME NEW k \in 1 .. Len(flow), flow[k].throws = throws, flow[k].lookups = lookups
             PROVE  Compares(flow', k, step)
  <2>1. \A k \in 1 .. step - 1 : k \in 1 .. Len(flow) /\ flow'[k] = flow[k]
    BY <1>1, <1>4
  <2> QED BY <1>6, <2>1 DEF Related, Alike, x
<1>8. k \in Recent(flow, throws, lookups) /\ flow'[k] = flow[k] /\ n \in 1 .. n
  BY <1>1, <1>2 DEF Recent
<1>9. flow[k].act = x.act => flow[k].m = x.m /\ flow[k].sd = x.sd
  BY <1>2, <1>3, <1>5, <1>6, <1>8 DEF Fits
<1>10. ASSUME NEW i \in Under(stack), flow[k].act = stack[i].first
       PROVE  flow[k].sd < x.sd
  <2>1. flow[k].sd = DepthAt(d, stack, i)
    BY <1>3, <1>7, <1>8, <1>10 DEF Fits
  <2> QED BY <1>5, <1>6, <1>7, <2>1
<1>11. flow[k].act \in x.under => flow[k].sd < x.sd
  BY <1>6, <1>10
<1>12. x.act \in flow[k].under => x.sd < flow[k].sd
  <2>1. x.act \in flow[k].under => flow[k].sd > DepthAt(d, stack, n)
    BY <1>2, <1>3, <1>6, <1>8 DEF Fits
  <2> QED BY <1>4, <1>5, <1>6, <2>1
<1>13. ASSUME NEW i \in Under(stack), k <= stack[i].last
       PROVE  LET c == stack[i].last
              IN c \in x.frames /\ c # step /\ flow'[c] = flow[c] /\ flow[c].sd = DepthAt(d, stack, i)
  <2> DEFINE c == stack[i].last
  <2>1. i \in 1 .. n /\ c > 0 /\ c <= Len(flow) /\ flow[c].act = stack[i].first
    BY <1>3, <1>7 DEF Stacked
  <2>2. c \in 1 .. Len(flow) /\ c # step
    BY <1>4, <2>1
  <2> HIDE DEF c
  <2>3. flow[c].throws = throws /\ flow[c].lookups = lookups
    <3>1. flow[c].throws <= throws /\ flow[c].lookups <= lookups
      BY <1>3, <2>2 DEF Dated
    <3>2. CASE k = c
      BY <3>2
    <3>3. CASE k # c
      <4>1. k < c
        BY <1>4, <1>13, <2>2, <3>3 DEF c
      <4>2. flow[k].throws <= flow[c].throws /\ flow[k].lookups <= flow[c].lookups
        BY <1>3, <2>2, <4>1 DEF Dated
      <4> QED BY <1>4, <2>2, <3>1, <4>2
    <3> QED BY <3>2, <3>3
  <2>4. c \in Recent(flow, throws, lookups)
    BY <2>2, <2>3 DEF Recent
  <2>5. flow[c].sd = DepthAt(d, stack, i)
    BY <1>3, <2>1, <2>4 DEF Fits
  <2> QED BY <1>1, <1>6, <2>2, <2>5 DEF c
<1>14. ASSUME k \in x.frames, NEW c \in x.frames, k < c
       PROVE  flow[k].sd < flow'[c].sd
  <2>1. PICK i \in Under(stack) : k = stack[i].last
    BY <1>4, <1>6, <1>14
  <2>2. k <= stack[i].last
    BY <1>4, <2>1
  <2>3. flow[k].sd = DepthAt(d, stack, i)
    BY <1>13, <2>1, <2>2
  <2>4. CASE c = step
    BY <1>5, <1>6, <1>7, <2>3, <2>4 DEF x
  <2>5. CASE c # step
    <3>1. PICK j \in Under(stack) : c = stack[j].last
      BY <1>6, <1>14, <2>5
    <3>2. k <= stack[j].last
      BY <1>4, <1>7, <1>14, <3>1
    <3>3. flow'[c].sd = DepthAt(d, stack, j)
      BY <1>13, <3>1, <3>2
    <3>4. i \in Nat /\ j \in Nat /\ i \in 1 .. n /\ j \in 1 .. n
      BY <1>2, <1>7
    <3>5. i < j
      <4>1. CASE i = j
        BY <1>4, <1>14, <2>1, <3>1, <3>4, <4>1
      <4>2. CASE j < i
        <5>0. stack[i].last # 0
          BY <1>4, <1>7, <3>4
        <5>1. stack[i].first # 0
          BY <1>3, <3>4, <5>0 DEF Chain
        <5>2. stack[j].last < stack[i].first /\ stack[i].first <= stack[i].last
          BY <1>3, <3>4, <4>2, <5>1 DEF Stacked
        <5> QED BY <1>4, <1>14, <2>1, <3>1, <3>4, <5>2
      <4> QED BY <3>4, <4>1, <4>2
    <3>6. j \in Counted(stack)
      BY <1>7, <3>4 DEF Counted, Recorded, Instrumented
    <3>7. DepthAt(d, stack, i) < DepthAt(d, stack, j)
      BY <1>4, <3>4, <3>5, <3>6, AboveLower
    <3> QED BY <2>3, <3>3, <3>7
  <2> QED BY <2>4, <2>5
<1>15. ASSUME x.plain, flow[k].sd <= x.sd
       PROVE  \E c \in x.frames : k <= c /\ flow'[c].sd = flow[k].sd
  <2>1. \A i \in 1 .. n : i \in Counted(stack) => i \in Under(stack) \/ i = n
    BY <1>2, <1>6, <1>15 DEF Counted, Under, Instrumented, Recorded
  <2>2. DepthAt(d, stack, 0) < flow[k].sd
    <3>1. DepthAt(d, stack, 0) \in Int
      BY <1>4, DepthType
    <3> QED BY <1>3, <1>4, <1>8, <3>1 DEF Fits
  <2>3. PICK j \in Counted(stack) : DepthAt(d, stack, j) = flow[k].sd
    BY <1>4, <1>6, <1>15, <2>2, DepthOccurs
  <2>4. j \in 1 .. n
    BY <2>3 DEF Counted
  <2>5. CASE j = n
    <3>1. step \in x.frames /\ k <= step /\ flow'[step].sd = flow[k].sd
      BY <1>4, <1>5, <1>6, <2>3, <2>5 DEF x
    <3> QED BY <3>1
  <2>6. CASE j \in Under(stack)
    <3>1. ~(k > stack[j].last)
      <4>1. k > stack[j].last => flow[k].sd > DepthAt(d, stack, j)
        BY <1>3, <1>7, <1>8, <2>4, <2>6 DEF Fits
      <4> QED BY <1>4, <2>3, <4>1
    <3>2. k <= stack[j].last
      BY <1>4, <2>4, <3>1
    <3> QED BY <1>13, <2>3, <2>6, <3>2
  <2> QED BY <2>1, <2>4, <2>5, <2>6
<1> QED BY <1>8, <1>9, <1>11, <1>12, <1>14, <1>15 DEF Compares, x

LEMMA LineGrounded ==
  ASSUME IInv, DInv, Line
  PROVE  Grounded(flow, thrown, stackTraceDepth, throws, lookups)'
<1> DEFINE n    == Len(stack)
           step == Len(flow) + 1
<1>1. /\ stack # <<>> /\ n \in Counted(stack)
      /\ Len(flow') = step /\ \A k \in 1 .. Len(flow) : flow'[k] = flow[k]
      /\ Tells(flow'[step], stack, stack'[n], stackTraceDepth, throws, lookups, step)
      /\ UNCHANGED <<thrown, stackTraceDepth, throws, lookups>>
  BY LineIs
<1>2. TypeOK /\ Grounded(flow, thrown, stackTraceDepth, throws, lookups) /\ thrown = "none"
  BY DEF IInv, DInv, Line
<1>3. stack \in Seq(FrameType) /\ stackTraceDepth \in Int /\ Len(flow) \in Nat
  BY <1>2, LinesAndFrames
<1>4. flow'[step].sd = stackTraceDepth /\ flow'[step].throws = throws /\ flow'[step].lookups = lookups
  BY <1>1 DEF Tells
<1>5. ASSUME throws = 0
      PROVE  stackTraceDepth >= 1 /\ lookups = 1
  <2>1. Instrumented(stack[Len(stack)])
    BY <1>1 DEF Counted
  <2>2. stackTraceDepth >= 1
    BY <1>1, <1>2, <1>3, <1>5, <2>1, Unharmed, CountsTop
  <2>3. stackTraceDepth # -1
    BY <1>3, <2>2
  <2> QED BY <1>2, <1>5, <2>2, <2>3 DEF Grounded
<1>6. \A k \in 1 .. step : k \in 1 .. Len(flow) \/ k = step
  BY <1>3
<1>7. \A k \in 1 .. step : flow'[k].throws = 0 => flow'[k].sd >= 1 /\ flow'[k].lookups = 1
  BY <1>1, <1>2, <1>4, <1>5, <1>6 DEF Grounded
<1> QED BY <1>1, <1>2, <1>7 DEF Grounded

LEMMA LineKeeps ==
  ASSUME IInv, DInv, Line
  PROVE  DInv'
<1>1. /\ Len(flow') = Len(flow) + 1 /\ \A k \in 1 .. Len(flow) : flow'[k] = flow[k]
      /\ Len(flow) \in Nat
  BY LineIs, LinesAndFrames DEF IInv
<1>2. /\ \A s \in 1 .. Len(flow) : Related(flow, s)
      /\ Dated(flow, thrown, throws, lookups) /\ TypeOK
  BY DEF DInv, IInv
<1>3. \A s \in 1 .. Len(flow) : Related(flow', s)
  <2> SUFFICES ASSUME NEW s \in 1 .. Len(flow), NEW k \in 1 .. s - 1, Alike(flow', k, s)
               PROVE  Compares(flow', k, s)
    BY DEF Related
  <2>1. flow'[k] = flow[k] /\ flow'[s] = flow[s]
    BY <1>1
  <2>2. Compares(flow, k, s)
    BY <1>2, <2>1 DEF Related, Alike
  <2>3. \A c \in flow[s].frames : c \in 1 .. Len(flow)
    <3>1. \A c \in flow[s].frames : c <= s
      BY <1>2 DEF Dated
    <3>2. flow[s].frames \subseteq Nat \ {0}
      BY <1>2, LinesAndFrames
    <3> QED BY <1>1, <3>1, <3>2
  <2>4. \A c \in flow[s].frames : flow'[c] = flow[c]
    BY <1>1, <2>3
  <2> QED BY <2>1, <2>2, <2>4 DEF Compares
<1>4. \A s \in 1 .. Len(flow') : s \in 1 .. Len(flow) \/ s = Len(flow) + 1
  BY <1>1
<1>5. \A s \in 1 .. Len(flow') : Related(flow', s)
  BY <1>3, <1>4, LineRelated
<1> QED BY <1>5, LineDated, LineFits, LineGrounded DEF DInv

----------------------------------------------------------------------------
\* The invariant.

LEMMA DebuggerInitially == Init => IInv /\ DInv
<1> SUFFICES ASSUME Init PROVE IInv /\ DInv
  OBVIOUS
<1>1. stack = <<>> /\ Len(stack) = 0 /\ flow = <<>> /\ Len(flow) = 0
  BY DEF Init
<1>2. Recent(flow, throws, lookups) = {}
  BY <1>1 DEF Recent
<1>3. Dated(flow, thrown, throws, lookups) /\ Stacked(flow, stack)
  BY <1>1 DEF Dated, Stacked
<1>4. Fits(flow, Recent(flow, throws, lookups), stackTraceDepth, stack)
  BY <1>2, FitsNothing
<1>5. \A s \in 1 .. Len(flow) : Related(flow, s)
  BY <1>1
<1>6. Grounded(flow, thrown, stackTraceDepth, throws, lookups)
  BY <1>1 DEF Init, Grounded
<1>7. DInv
  BY <1>3, <1>4, <1>5, <1>6 DEF DInv
<1> QED BY <1>7, Initially

LEMMA DebuggerStep == IInv /\ DInv /\ [Next]_vars => DInv'
<1> SUFFICES ASSUME IInv, DInv, [Next]_vars PROVE DInv'
  OBVIOUS
<1>1. CASE UNCHANGED vars
  BY <1>1 DEF vars, DInv
<1>2. CASE \E m \in Methods : Call(m)
  BY <1>2, CallKeeps
<1>3. CASE Line
  BY <1>3, LineKeeps
<1>4. CASE Return
  BY <1>4, ReturnKeeps
<1>5. CASE Throw
  BY <1>5, ThrowKeeps
<1>6. CASE Unwind \/ CatchUnnoticed \/ \E handler \in Handlers : Catch(handler)
  BY <1>6, ExceptionKeeps
<1> QED BY <1>1, <1>2, <1>3, <1>4, <1>5, <1>6 DEF Next

LEMMA DebuggerInvariant == Spec => [](IInv /\ DInv)
<1>1. IInv /\ DInv /\ [Next]_vars => (IInv /\ DInv)'
  BY Inductive, DebuggerStep
<1> QED BY <1>1, DebuggerInitially, PTL DEF Spec

----------------------------------------------------------------------------
\* Stepping.

\* What recorded lines are to each other, however the stack is now.
LEMMA Lines ==
  ASSUME IInv, DInv
  PROVE  /\ Len(flow) \in Nat
         /\ \A k \in 1 .. Len(flow) :
              /\ flow[k].sd \in Int /\ flow[k].throws \in Nat /\ flow[k].lookups \in Nat
              /\ k \in flow[k].frames
              /\ flow[k].frames \subseteq 1 .. k
         /\ \A k, s \in 1 .. Len(flow) : k < s /\ SameCounting(k, s) => Compares(flow, k, s)
         /\ \A i, j, k \in 1 .. Len(flow) :
              i <= j /\ j <= k /\ SameCounting(i, k) => SameCounting(i, j) /\ SameCounting(j, k)
<1>1. TypeOK /\ Dated(flow, thrown, throws, lookups) /\ \A s \in 1 .. Len(flow) : Related(flow, s)
  BY DEF IInv, DInv
<1>2. /\ Len(flow) \in Nat
      /\ \A k \in 1 .. Len(flow) :
           /\ flow[k].sd \in Int /\ flow[k].throws \in Nat /\ flow[k].lookups \in Nat
           /\ flow[k].frames \subseteq Nat \ {0}
  BY <1>1, LinesAndFrames
<1>3. \A k \in 1 .. Len(flow) : k \in flow[k].frames /\ \A c \in flow[k].frames : c <= k
  BY <1>1 DEF Dated
<1>4. \A k \in 1 .. Len(flow) : flow[k].frames \subseteq 1 .. k
  BY <1>2, <1>3
<1>5. \A k, s \in 1 .. Len(flow) : k < s /\ SameCounting(k, s) => Compares(flow, k, s)
  BY <1>1, <1>2 DEF Related, Alike, SameCounting
<1>6. \A i, k \in 1 .. Len(flow) :
        i <= k => flow[i].throws <= flow[k].throws /\ flow[i].lookups <= flow[k].lookups
  <2> SUFFICES ASSUME NEW i \in 1 .. Len(flow), NEW k \in 1 .. Len(flow), i <= k
               PROVE  flow[i].throws <= flow[k].throws /\ flow[i].lookups <= flow[k].lookups
    OBVIOUS
  <2>1. CASE i = k
    BY <1>2, <2>1
  <2>2. CASE i < k
    BY <1>1, <2>2 DEF Dated
  <2> QED BY <1>2, <2>1, <2>2
<1>7. \A i, j, k \in 1 .. Len(flow) :
        i <= j /\ j <= k /\ SameCounting(i, k) => SameCounting(i, j) /\ SameCounting(j, k)
  <2> SUFFICES ASSUME NEW i \in 1 .. Len(flow), NEW j \in 1 .. Len(flow), NEW k \in 1 .. Len(flow),
                      i <= j, j <= k, SameCounting(i, k)
               PROVE  SameCounting(i, j) /\ SameCounting(j, k)
    OBVIOUS
  <2>1. /\ flow[i].throws <= flow[j].throws /\ flow[i].lookups <= flow[j].lookups
        /\ flow[j].throws <= flow[k].throws /\ flow[j].lookups <= flow[k].lookups
    BY <1>6
  <2> QED BY <1>2, <2>1 DEF SameCounting
<1> QED BY <1>2, <1>3, <1>4, <1>5, <1>7

\* Step over leads to the next line of the method or of those that called it, or to
\* one before that it did not call: whatever is filtered, and whatever calls of whatever
\* depth are in between.
THEOREM StepOverLeadsOn == Spec => []StepOverIsNext
<1>1. IInv /\ DInv => StepOverIsNext
  <2> SUFFICES ASSUME IInv, DInv, NEW s \in StepsOf(flow),
                      Home(s) \intersect After(flow, s) # {},
                      SameCounting(s, Min(Home(s) \intersect After(flow, s)))
               PROVE  /\ StepOver(flow, s) \in s + 1 .. Min(Home(s) \intersect After(flow, s))
                      /\ StepOver(flow, s) \notin Within(s)
    BY DEF StepOverIsNext
  <2> DEFINE t == Min(Home(s) \intersect After(flow, s))
             S == SameOrOut(flow, s) \intersect After(flow, s)
             o == Min(S)
  <2>1. Len(flow) \in Nat /\ s \in 1 .. Len(flow) /\ s \in Nat
    BY Lines DEF StepsOf
  <2>2. Home(s) \intersect After(flow, s) \subseteq Nat /\ S \subseteq Nat
    BY <2>1 DEF After, StepsOf
  <2>3. t \in Home(s) /\ t \in After(flow, s)
    BY <2>2, MinIs
  <2>4. t \in 1 .. Len(flow) /\ s < t /\ SameCounting(s, t)
    BY <2>3 DEF After, StepsOf
  <2>5. Compares(flow, s, t)
    BY <2>1, <2>4, Lines
  <2>6. flow[t].act = flow[s].act \/ flow[t].act \in flow[s].under
    BY <2>3 DEF Home
  <2> HIDE DEF t
  <2>7. t \in S
    BY <2>3, <2>4, <2>5, <2>6 DEF Compares, SameOrOut, StepsOf
  <2>8. o \in S /\ o <= t
    BY <2>2, <2>7, MinIs
  <2>9. StepOver(flow, s) = o /\ o \in 1 .. Len(flow) /\ s < o
    <3>1. First(S) = o
      BY <2>7 DEF First
    <3>2. o \in 1 .. Len(flow) /\ s < o
      BY <2>8 DEF After, StepsOf
    <3>3. First(S) # NoStep
      BY <2>1, <3>1, <3>2 DEF NoStep
    <3> QED BY <3>1, <3>2, <3>3 DEF StepOver
  <2>10. SameCounting(s, o)
    BY <2>1, <2>4, <2>8, <2>9, Lines
  <2>11. Compares(flow, s, o)
    BY <2>1, <2>9, <2>10, Lines
  <2>12. flow[o].sd <= flow[s].sd
    <3>1. flow[o].sd = flow[s].sd \/ flow[o].sd < flow[s].sd
      BY <2>8 DEF SameOrOut
    <3>2. flow[s].sd \in Int /\ flow[o].sd \in Int
      BY <2>1, <2>9, Lines
    <3> QED BY <3>1, <3>2
  <2>13. o \notin Within(s)
    <3> SUFFICES ASSUME flow[s].act \in flow[o].under PROVE FALSE
      BY DEF Within
    <3>1. flow[s].sd < flow[o].sd
      BY <2>11 DEF Compares
    <3>2. flow[s].sd \in Int /\ flow[o].sd \in Int
      BY <2>1, <2>9, Lines
    <3> QED BY <2>12, <3>1, <3>2
  <2>14. o \in s + 1 .. t
    BY <2>1, <2>4, <2>8, <2>9
  <2> QED BY <2>9, <2>13, <2>14 DEF t
<1> QED BY <1>1, DebuggerInvariant, PTL

\* Step back leads to the line before of the method or of those that called it, or to
\* one after that it did not call.
THEOREM StepBackLeadsBack == Spec => []StepBackIsPrevious
<1>1. IInv /\ DInv => StepBackIsPrevious
  <2> SUFFICES ASSUME IInv, DInv, NEW s \in StepsOf(flow),
                      Home(s) \intersect Before(flow, s) # {},
                      SameCounting(Max(Home(s) \intersect Before(flow, s)), s)
               PROVE  /\ StepBack(flow, s) \in Max(Home(s) \intersect Before(flow, s)) .. s - 1
                      /\ StepBack(flow, s) \notin Within(s)
    BY DEF StepBackIsPrevious
  <2> DEFINE t == Max(Home(s) \intersect Before(flow, s))
             S == SameOrOut(flow, s) \intersect Before(flow, s)
             o == Max(S)
  <2>1. Len(flow) \in Nat /\ s \in 1 .. Len(flow) /\ s \in Nat
    BY Lines DEF StepsOf
  <2>2. Home(s) \intersect Before(flow, s) \subseteq 1 .. Len(flow) /\ S \subseteq 1 .. Len(flow)
    BY <2>1 DEF Before, StepsOf
  <2>3. t \in Home(s) /\ t \in Before(flow, s)
    BY <2>1, <2>2, MaxIs
  <2>4. t \in 1 .. Len(flow) /\ t < s /\ SameCounting(t, s)
    BY <2>3 DEF Before, StepsOf
  <2>5. Compares(flow, t, s)
    BY <2>1, <2>4, Lines
  <2>6. flow[t].act = flow[s].act \/ flow[t].act \in flow[s].under
    BY <2>3 DEF Home
  <2> HIDE DEF t
  <2>7. t \in S
    BY <2>3, <2>4, <2>5, <2>6 DEF Compares, SameOrOut, StepsOf
  <2>8. o \in S /\ t <= o
    BY <2>1, <2>2, <2>7, MaxIs
  <2>9. StepBack(flow, s) = o /\ o \in 1 .. Len(flow) /\ o < s
    <3>1. Last(S) = o
      BY <2>7 DEF Last
    <3>2. o \in 1 .. Len(flow) /\ o < s
      BY <2>8 DEF Before, StepsOf
    <3> QED BY <3>1, <3>2 DEF StepBack
  <2>10. SameCounting(o, s)
    BY <2>1, <2>4, <2>8, <2>9, Lines
  <2>11. Compares(flow, o, s)
    BY <2>1, <2>9, <2>10, Lines
  <2>12. flow[o].sd <= flow[s].sd
    <3>1. flow[o].sd = flow[s].sd \/ flow[o].sd < flow[s].sd
      BY <2>8 DEF SameOrOut
    <3>2. flow[s].sd \in Int /\ flow[o].sd \in Int
      BY <2>1, <2>9, Lines
    <3> QED BY <3>1, <3>2
  <2>13. o \notin Within(s)
    <3> SUFFICES ASSUME flow[s].act \in flow[o].under PROVE FALSE
      BY DEF Within
    <3>1. flow[s].sd < flow[o].sd
      BY <2>11 DEF Compares
    <3>2. flow[s].sd \in Int /\ flow[o].sd \in Int
      BY <2>1, <2>9, Lines
    <3> QED BY <2>12, <3>1, <3>2
  <2>14. o \in t .. s - 1
    BY <2>1, <2>4, <2>8, <2>9
  <2> QED BY <2>9, <2>13, <2>14 DEF t
<1> QED BY <1>1, DebuggerInvariant, PTL

\* Step out leads to the line that made the call, and nowhere if there is none.
THEOREM StepOutLeadsToCaller == Spec => []StepOutIsCaller
<1>1. IInv /\ DInv => StepOutIsCaller
  <2> SUFFICES ASSUME IInv, DInv, NEW s \in StepsOf(flow), flow[s].plain,
                      NEW caller, caller = Last(flow[s].frames \ {s}),
                      SameCounting(IF caller = NoStep THEN 1 ELSE caller, s)
               PROVE  StepOut(flow, s) = caller
    BY DEF StepOutIsCaller
  <2> DEFINE F == flow[s].frames \ {s}
             S == {k \in Before(flow, s) : flow[k].sd < flow[s].sd}
  <2>1. Len(flow) \in Nat /\ s \in 1 .. Len(flow) /\ s \in Nat
    BY Lines DEF StepsOf
  <2>2. F \subseteq 1 .. Len(flow) /\ \A c \in F : c < s
    <3>1. flow[s].frames \subseteq 1 .. s
      BY <2>1, Lines
    <3> QED BY <2>1, <3>1
  <2>3. S \subseteq 1 .. Len(flow) /\ \A k \in S : k < s /\ flow[k].sd < flow[s].sd
    BY DEF Before, StepsOf
  <2>4. \A k \in 1 .. Len(flow) : k < s /\ flow[k].sd < flow[s].sd => k \in S
    BY DEF Before, StepsOf
  <2>5. StepOut(flow, s) = Last(S) /\ caller = Last(F)
    BY DEF StepOut
  <2>6. ASSUME NEW k \in 1 .. Len(flow), k < s, SameCounting(k, s), \A c \in F : c < k
        PROVE  k \notin S
    <3> SUFFICES ASSUME flow[k].sd < flow[s].sd PROVE FALSE
      BY <2>3
    <3>1. flow[k].sd \in Int /\ flow[s].sd \in Int
      BY <2>1, Lines
    <3>2. flow[k].sd <= flow[s].sd /\ flow[k].sd # flow[s].sd
      BY <3>1
    <3>3. Compares(flow, k, s)
      BY <2>1, <2>6, Lines
    <3>4. PICK c \in flow[s].frames : k <= c /\ flow[c].sd = flow[k].sd
      BY <3>2, <3>3 DEF Compares
    <3>5. c \in F /\ c \in Nat /\ k \in Nat
      BY <2>1, <2>2, <3>2, <3>4
    <3>6. c < k
      BY <2>6, <3>5
    <3> QED BY <3>4, <3>5, <3>6
  <2> HIDE DEF S, F
  <2>7. CASE F = {}
    <3>1. caller = NoStep
      BY <2>5, <2>7 DEF Last
    <3>2. SameCounting(1, s) /\ 1 \in 1 .. Len(flow)
      BY <2>1, <3>1
    <3>3. \A k \in 1 .. Len(flow) : k < s => SameCounting(k, s)
      BY <2>1, <3>2, Lines
    <3>4. S = {}
      BY <2>3, <2>6, <2>7, <3>3
    <3> QED BY <2>5, <3>1, <3>4 DEF Last
  <2>8. CASE F # {}
    <3>1. caller \in F /\ \A c \in F : c <= caller
      BY <2>1, <2>2, <2>5, <2>8, MaxIs DEF Last
    <3>2. caller \in 1 .. Len(flow) /\ caller < s /\ caller # NoStep
      BY <2>2, <3>1 DEF NoStep
    <3>3. SameCounting(caller, s)
      BY <3>2
    <3>4. caller \in flow[s].frames
      BY <3>1 DEF F
    <3>10. Compares(flow, caller, s) /\ s \in flow[s].frames
      BY <2>1, <3>2, <3>3, Lines
    <3>5. flow[caller].sd < flow[s].sd
      BY <3>2, <3>4, <3>10 DEF Compares
    <3>6. caller \in S
      BY <2>4, <3>2, <3>5
    <3>7. \A k \in S : k <= caller
      <4>0. caller \in Nat /\ \A k \in S : k \in Nat
        BY <2>1, <2>3, <3>2
      <4> SUFFICES ASSUME NEW k \in S, caller < k PROVE FALSE
        BY <4>0
      <4>1. k \in 1 .. Len(flow) /\ k < s
        BY <2>3
      <4>2. SameCounting(k, s)
        BY <2>1, <3>2, <3>3, <4>1, Lines
      <4>3. \A c \in F : c < k
        <5>1. \A c \in F : c \in Nat
          BY <2>1, <2>2
        <5> QED BY <3>1, <4>0, <5>1
      <4> QED BY <2>6, <4>1, <4>2, <4>3
    <3>8. Max(S) \in S /\ \A k \in S : k <= Max(S)
      BY <2>1, <2>3, <3>6, MaxIs
    <3>9. Max(S) = caller
      <4>1. Max(S) <= caller /\ caller <= Max(S)
        BY <3>6, <3>7, <3>8
      <4>2. \A x \in 1 .. Len(flow) : x \in Nat
        BY <2>1
      <4>3. Max(S) \in 1 .. Len(flow) /\ caller \in 1 .. Len(flow)
        BY <2>3, <3>2, <3>8
      <4>4. Max(S) \in Nat /\ caller \in Nat
        BY <4>2, <4>3
      <4> QED BY <4>1, <4>4
    <3> QED BY <2>5, <3>6, <3>9 DEF Last
  <2> QED BY <2>7, <2>8
<1> QED BY <1>1, DebuggerInvariant, PTL

\* The Frames panel shows the last line of each method on the stack and nothing else,
\* callers first, as long as no exception was thrown and no filtered method is on the
\* stack: whatever has been called and has returned before.
THEOREM FramesShowTheStack == Spec => []FramesAreTheStack
<1>1. IInv /\ DInv => FramesAreTheStack
  <2> SUFFICES ASSUME IInv, DInv, NEW s \in StepsOf(flow), flow[s].plain, flow[s].throws = 0
               PROVE  ShowsStack(s)
    BY DEF FramesAreTheStack
  <2> DEFINE F     == flow[s].frames
             L(d)  == {k \in StepsOf(flow) : k <= s /\ flow[k].sd = d}
             shown == FramesAt(flow, s)
  <2>1. /\ Len(flow) \in Nat /\ s \in 1 .. Len(flow) /\ s \in Nat
        /\ F \subseteq 1 .. s /\ s \in F
        /\ \A k \in 1 .. Len(flow) : flow[k].sd \in Int /\ flow[k].throws \in Nat
    BY Lines DEF StepsOf
  <2>2. \A k \in 1 .. s : k \in 1 .. Len(flow) /\ k <= s
    BY <2>1
  <2>3. \A k \in 1 .. s : SameCounting(k, s) /\ flow[k].sd >= 1
    <3> SUFFICES ASSUME NEW k \in 1 .. s PROVE SameCounting(k, s) /\ flow[k].sd >= 1
      OBVIOUS
    <3>1. Grounded(flow, thrown, stackTraceDepth, throws, lookups) /\ Dated(flow, thrown, throws, lookups)
      BY DEF DInv
    <3>2. flow[k].throws <= flow[s].throws
      <4>1. CASE k = s
        BY <2>1, <4>1
      <4>2. CASE k < s
        BY <2>1, <2>2, <3>1, <4>2 DEF Dated
      <4> QED BY <2>1, <4>1, <4>2
    <3>3. flow[k].throws = 0
      BY <2>1, <2>2, <3>2
    <3> QED BY <2>1, <2>2, <3>1, <3>3 DEF Grounded, SameCounting
  <2>4. ASSUME NEW k \in 1 .. s, flow[k].sd <= flow[s].sd
        PROVE  \E c \in F : k <= c /\ flow[c].sd = flow[k].sd
    <3>1. CASE k = s
      BY <2>1, <3>1
    <3>2. CASE k < s
      BY <2>1, <2>2, <2>3, <2>4, <3>2, Lines DEF Compares
    <3> QED BY <2>1, <3>1, <3>2
  <2>5. ASSUME NEW k \in F, NEW c \in F, k < c
        PROVE  flow[k].sd < flow[c].sd
    <3>1. k \in 1 .. s /\ c \in 1 .. s /\ k < s
      BY <2>1, <2>5
    <3>2. Compares(flow, k, s)
      BY <2>1, <2>2, <2>3, <3>1, Lines
    <3> QED BY <2>5, <3>2 DEF Compares
  <2>6. ASSUME NEW d
        PROVE  L(d) \subseteq 1 .. s /\ \A k \in L(d) : flow[k].sd = d
    BY <2>1 DEF StepsOf
  \* What is shown at a depth.
  <2>7. ASSUME NEW d, d <= flow[s].sd, L(d) # {}
        PROVE  Max(L(d)) \in F /\ flow[Max(L(d))].sd = d
    <3> DEFINE k == Max(L(d))
    <3>1. k \in L(d) /\ \A i \in L(d) : i <= k
      BY <2>1, <2>6, <2>7, MaxIs
    <3>2. k \in 1 .. s /\ flow[k].sd = d
      BY <2>6, <3>1
    <3> HIDE DEF k
    <3>3. PICK c \in F : k <= c /\ flow[c].sd = d
      <4>1. flow[k].sd <= flow[s].sd
        BY <2>7, <3>2
      <4>2. \E c \in F : k <= c /\ flow[c].sd = flow[k].sd
        BY <2>4, <3>2, <4>1
      <4> QED BY <3>2, <4>2
    <3>4. c \in L(d)
      BY <2>1, <2>2, <3>3 DEF StepsOf
    <3>5. c <= k /\ k \in Nat /\ c \in Nat
      BY <2>1, <3>1, <3>2, <3>3, <3>4
    <3>6. c = k
      BY <3>3, <3>5
    <3> QED BY <3>2, <3>3, <3>6 DEF k
  <2>8. ASSUME NEW c \in F
        PROVE  /\ flow[c].sd \in 1 .. flow[s].sd
               /\ L(flow[c].sd) # {} /\ Max(L(flow[c].sd)) = c
    <3>1. c \in 1 .. s /\ c \in 1 .. Len(flow)
      BY <2>1, <2>2
    <3>2. flow[c].sd <= flow[s].sd
      <4>1. CASE c = s
        BY <2>1, <4>1
      <4>2. CASE c < s
        BY <2>1, <2>5, <3>1, <4>2
      <4> QED BY <2>1, <3>1, <4>1, <4>2
    <3>3. flow[c].sd \in 1 .. flow[s].sd
      BY <2>1, <2>3, <3>1, <3>2
    <3>4. c \in L(flow[c].sd)
      BY <3>1 DEF StepsOf
    <3> DEFINE k == Max(L(flow[c].sd))
    <3>5. k \in F /\ flow[k].sd = flow[c].sd
      BY <2>7, <3>2, <3>4
    <3>6. c <= k
      BY <2>1, <2>6, <3>4, MaxIs
    <3> HIDE DEF k
    <3>7. ~(c < k)
      <4>1. c < k => flow[c].sd < flow[k].sd
        BY <2>5, <3>5
      <4> QED BY <2>1, <3>1, <3>5, <4>1
    <3>8. k \in Nat /\ c \in Nat
      BY <2>1, <3>1, <3>5
    <3>9. k = c
      BY <3>6, <3>7, <3>8
    <3> QED BY <3>3, <3>4, <3>9 DEF k
  <2> DEFINE D == {d \in 1 .. flow[s].sd : Last(L(d)) # NoStep}
  <2>9. shown = [d \in D |-> Last(L(d))]
    BY DEF FramesAt
  <2>10. \A d \in D : L(d) # {} /\ Last(L(d)) = Max(L(d)) /\ d <= flow[s].sd
    BY <2>1 DEF Last
  <2> HIDE DEF L, shown
  <2>11. DOMAIN shown = D /\ \A d \in D : shown[d] = Max(L(d)) /\ shown[d] \in F /\ flow[shown[d]].sd = d
    BY <2>7, <2>9, <2>10
  <2>12. \A c \in F : flow[c].sd \in D /\ shown[flow[c].sd] = c
    <3> SUFFICES ASSUME NEW c \in F PROVE flow[c].sd \in D /\ shown[flow[c].sd] = c
      OBVIOUS
    <3>1. Last(L(flow[c].sd)) = c
      BY <2>8 DEF Last
    <3>2. c # NoStep
      BY <2>1 DEF NoStep
    <3>3. flow[c].sd \in D
      BY <2>8, <3>1, <3>2
    <3> QED BY <2>8, <2>11, <3>3
  <2>13. {shown[d] : d \in D} = F
    BY <2>11, <2>12
  <2>14. ASSUME NEW d \in D, NEW e \in D, d < e
         PROVE  shown[d] < shown[e]
    <3>1. shown[d] \in F /\ shown[e] \in F /\ flow[shown[d]].sd = d /\ flow[shown[e]].sd = e
      BY <2>11
    <3>2. shown[d] \in Nat /\ shown[e] \in Nat /\ d \in Int /\ e \in Int
      BY <2>1, <3>1
    <3>3. CASE shown[d] = shown[e]
      BY <2>14, <3>1, <3>2, <3>3
    <3>4. CASE shown[e] < shown[d]
      <4>1. e < d
        BY <2>5, <3>1, <3>4
      <4> QED BY <2>14, <3>2, <4>1
    <3> QED BY <3>2, <3>3, <3>4
  <2> QED BY <2>11, <2>13, <2>14 DEF ShowsStack, shown
<1> QED BY <1>1, DebuggerInvariant, PTL
=============================================================================
