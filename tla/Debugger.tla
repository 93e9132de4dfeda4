------------------------------ MODULE Debugger ------------------------------
(***************************************************************************)
(* What stepping and the Frames panel make of the depths that the agent    *)
(* has recorded, compared with the calls that really took place.           *)
(***************************************************************************)
EXTENDS StackDepth, Stepper

\* Line k belongs to the activation of line s, or to one that had called it.
Home(s) == {k \in StepsOf(flow) : flow[k].act \in {flow[s].act} \union flow[s].under}

\* Line k was executed by something that the activation of line s had called.
Within(s) == {k \in StepsOf(flow) : flow[s].act \in flow[k].under}

\* Between two lines no exception was thrown, and no call has looked the depth up.
\* (An exception that is caught leaves the counter off by some amount, the same for
\* all lines up to the next one. If so it gets down to -1, which two exceptions can
\* do in one method, the next call takes the thread to be at its beginning, and the
\* method goes on with another depth than it had.)
SameCounting(s, t) == /\ flow[s].throws = flow[t].throws
                      /\ flow[s].lookups = flow[t].lookups

\* Step over goes to the next line of this method or of its callers and does not
\* miss it; it neither enters a call the method makes. docs/source/navigation.rst:62
\* "Step over to the next line".
StepOverIsNext ==
  \A s \in StepsOf(flow) :
    LET home == Home(s) \intersect After(flow, s)
        over == StepOver(flow, s)
    IN home # {} /\ SameCounting(s, Min(home)) =>
         over \in s + 1 .. Min(home) /\ over \notin Within(s)

\* Step back likewise, in the other direction.
StepBackIsPrevious ==
  \A s \in StepsOf(flow) :
    LET home == Home(s) \intersect Before(flow, s)
        back == StepBack(flow, s)
    IN home # {} /\ SameCounting(Max(home), s) =>
         back \in Max(home) .. s - 1 /\ back \notin Within(s)

\* Step out goes to the line that made the call, and nowhere from an outermost
\* method, unless calls of filtered methods are in between.
StepOutIsCaller ==
  \A s \in StepsOf(flow) :
    LET caller == Last(flow[s].frames \ {s})
    IN flow[s].plain /\ SameCounting(IF caller = NoStep THEN 1 ELSE caller, s) =>
         StepOut(flow, s) = caller

\* The panel has the last line of each method on the stack, callers first.
ShowsStack(s) ==
  LET shown == FramesAt(flow, s)
  IN /\ {shown[d] : d \in DOMAIN shown} = flow[s].frames
     /\ \A d, e \in DOMAIN shown : d < e => shown[d] < shown[e]

\* The Frames panel shows the lines where the methods on the stack were, as long as
\* no exception was thrown and no filtered method is on the stack.
FramesAreTheStack ==
  \A s \in StepsOf(flow) :
    flow[s].plain /\ flow[s].throws = 0 => ShowsStack(s)

\* docs/source/navigation.rst:35, of the Frames panel: "it is identical to a similar
\* view which can be found in a traditional debugger".
FramesLikeADebugger ==
  \A s \in StepsOf(flow) : ShowsStack(s)
=============================================================================
