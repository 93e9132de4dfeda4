------------------------------ MODULE Stepper -------------------------------
(***************************************************************************)
(* Stepping through a recorded flow: StepperAPI and FlowAPI.frames of the  *)
(* web application. All they know of the program's stack is the depth sd   *)
(* of each line. Steps count from 1 here; 0 is undefined.                  *)
(***************************************************************************)
EXTENDS Integers, Sequences, FiniteSetsExt

NoStep == 0

First(S) == IF S = {} THEN NoStep ELSE Min(S)
Last(S)  == IF S = {} THEN NoStep ELSE Max(S)

StepsOf(flow) == 1 .. Len(flow)

\* Entries with the same class, method and depth, or with a smaller depth.
SameOrOut(flow, s) ==
  {k \in StepsOf(flow) : \/ flow[k].m = flow[s].m /\ flow[k].sd = flow[s].sd
                         \/ flow[k].sd < flow[s].sd}

After(flow, s)  == {k \in StepsOf(flow) : k > s}
Before(flow, s) == {k \in StepsOf(flow) : k < s}

StepIn(flow, s) == IF s < Len(flow) THEN s + 1 ELSE NoStep

\* What if step over went on to any line of the same method?
StepOverAnywhere(flow, s) ==
  LET next == First({k \in After(flow, s) : flow[k].m = flow[s].m})
  IN IF next # NoStep THEN next ELSE StepIn(flow, s)

StepOver(flow, s) ==
  LET next == First(SameOrOut(flow, s) \intersect After(flow, s))
  IN IF next # NoStep THEN next ELSE StepIn(flow, s)

\* What if stepping back stayed in the same method?
StepBackWithin(flow, s) ==
  Last({k \in Before(flow, s) : flow[k].m = flow[s].m /\ flow[k].sd = flow[s].sd})

\* The recursive call at its end is made without a step, and returns none.
StepBack(flow, s) == Last(SameOrOut(flow, s) \intersect Before(flow, s))

\* What if stepping out went to the line before in another method?
StepOutSideways(flow, s) ==
  Last({k \in Before(flow, s) : flow[k].sd <= flow[s].sd /\ flow[k].m # flow[s].m})

StepOut(flow, s) == Last({k \in Before(flow, s) : flow[k].sd < flow[s].sd})

\* What if the first line at each depth were taken?
FramesAtFirst(flow, s) ==
  LET at(d) == First({k \in StepsOf(flow) : k <= s /\ flow[k].sd = d})
  IN [d \in {d \in 1 .. flow[s].sd : at(d) # NoStep} |-> at(d)]

\* For each depth the last line there. The panel leaves out depths without one, and
\* lists the others one after the other.
FramesAt(flow, s) ==
  LET at(d) == Last({k \in StepsOf(flow) : k <= s /\ flow[k].sd = d})
  IN [d \in {d \in 1 .. flow[s].sd : at(d) # NoStep} |-> at(d)]
=============================================================================
