----------------------------- MODULE StackDepth -----------------------------
(***************************************************************************)
(* The stack depth the agent writes into each flow line. It does not look  *)
(* at the stack for that: calls to FlowFacade that instrumentation has put *)
(* into methods keep a counter, FlowPerThread.stackTraceDepth, up at their *)
(* start and down at RETURN and ATHROW instructions. A frame that an       *)
(* exception just passes through does not count down; instead the handler  *)
(* counts the frames there are. This is one thread's stack, its counter    *)
(* and the lines it records.                                               *)
(***************************************************************************)
EXTENDS Integers, Sequences, FiniteSets

CONSTANTS
  Methods,   \* the methods that get called
  KindOf,    \* for each of them, how the agent treats its class
  Handlers,  \* the catch and finally blocks instrumented methods have
  MaxDepth,  \* bound on frames
  MaxSteps,  \* bound on recorded lines
  MaxThrows  \* bound on exceptions

Kinds == {
  "recorded",  \* its lines are recorded, its calls counted
  "filtered",  \* left out by the include and exclude filters: only counted
  "builtin",   \* java.*, sun.* and the like: not instrumented, never counted
  "hidden" }   \* not instrumented, but counted by handlers: com.sun.proxy, natives

HandlerKinds == {
  "last",   \* the handler of the last entry in the method's exception table
  "other" } \* any other handler

ASSUME KindsAssumption    == KindOf \in [Methods -> Kinds]
ASSUME HandlersAssumption == Handlers \subseteq HandlerKinds
ASSUME BoundsAssumption   == MaxDepth \in Nat /\ MaxSteps \in Nat /\ MaxThrows \in Nat

VARIABLES
  stack,            \* frames, the innermost last, each with the first and the
                    \* last step at which it has recorded a line (0: none yet)
  thrown,           \* an exception is looking for its handler
  stackTraceDepth,  \* the counter
  flow,             \* the recorded lines
  throws,           \* history: the number of exceptions so far
  lookups,          \* history: how often a call has looked the depth up
  lost              \* history: how often a method went on that had counted down

vars == <<stack, thrown, stackTraceDepth, flow, throws, lookups, lost>>

Exceptions == {
  "none",
  "counted",    \* thrown by the method on top, which has counted down for it
  "uncounted" } \* anything else

Recorded(f)     == KindOf[f.m] = "recorded"
Instrumented(f) == KindOf[f.m] \in {"recorded", "filtered"}
Ignored(f)      == KindOf[f.m] = "builtin"

Counted(s) == {k \in 1 .. Len(s) : Instrumented(s[k])}

\* FlowPerThread.fetch: it sees the frames of s that are not ignored, and those
\* of the agent that it has been called through.
Fetch(s, agentFrames, subtractInternalCalls) ==
  Cardinality({k \in 1 .. Len(s) : ~Ignored(s[k])}) + agentFrames - (subtractInternalCalls + 1)

\* Called through FlowFacade, Flow and FlowPerThread.increase.
LooksUp     == stackTraceDepth = -1
Increase(s) == IF LooksUp THEN Fetch(s, 4, 3) ELSE stackTraceDepth + 1

\* Called through FlowFacade and Flow.
Resynchronise(s) == Fetch(s, 3, 1)

Frame(m) == [m |-> m, first |-> 0, last |-> 0]
Top      == stack[Len(stack)]
Below(s) == SubSeq(s, 1, Len(s) - 1)

\* The first line of a method comes before anything else it does.
Running == stack # <<>> /\ thrown = "none" /\ (Recorded(Top) => Top.last > 0)

Init ==
  /\ stack = <<>>
  /\ thrown = "none"
  /\ stackTraceDepth = -1
  /\ flow = <<>>
  /\ throws = 0
  /\ lookups = 0
  /\ lost = 0

\* What if only the methods whose lines are recorded were counted?
CallRecorded(m) ==
  /\ stack = <<>> \/ Running
  /\ Len(stack) < MaxDepth
  /\ stack' = Append(stack, Frame(m))
  /\ stackTraceDepth' = IF Recorded(Frame(m)) THEN Increase(stack') ELSE stackTraceDepth
  /\ lookups' = IF Recorded(Frame(m)) /\ LooksUp THEN lookups + 1 ELSE lookups
  /\ UNCHANGED <<thrown, flow, throws, lost>>

\* A method is called, by the one on top or from outside of Java.
Call(m) ==
  /\ stack = <<>> \/ Running
  /\ Len(stack) < MaxDepth
  /\ stack' = Append(stack, Frame(m))
  /\ stackTraceDepth' = IF Instrumented(Frame(m)) THEN Increase(stack') ELSE stackTraceDepth
  /\ lookups' = IF Instrumented(Frame(m)) /\ LooksUp THEN lookups + 1 ELSE lookups
  /\ UNCHANGED <<thrown, flow, throws, lost>>

\* A line is recorded. What is really on the stack goes along as history: the
\* activation (named by its first step), those below it, the last step of each of
\* them, whether one is filtered; and the numbers of exceptions and lookups so far.
Line ==
  /\ stack # <<>> /\ thrown = "none" /\ Recorded(Top)
  /\ Len(flow) < MaxSteps
  /\ LET step  == Len(flow) + 1
         top   == [Top EXCEPT !.first = IF @ = 0 THEN step ELSE @, !.last = step]
         under == {k \in 1 .. Len(stack) - 1 : Recorded(stack[k])}
     IN /\ stack' = [stack EXCEPT ![Len(stack)] = top]
        /\ flow' = Append(flow,
             [m |-> top.m, sd |-> stackTraceDepth, throws |-> throws, lookups |-> lookups,
              act |-> top.first,
              under |-> {stack[k].first : k \in under},
              frames |-> {stack[k].last : k \in under} \union {step},
              plain |-> \A k \in 1 .. Len(stack) : KindOf[stack[k].m] # "filtered"])
  /\ UNCHANGED <<thrown, stackTraceDepth, throws, lookups, lost>>

\* What if methods that do not count up counted down?
ReturnDown ==
  /\ Running
  /\ stack' = Below(stack)
  /\ stackTraceDepth' = stackTraceDepth - 1
  /\ UNCHANGED <<thrown, flow, throws, lookups, lost>>

Return ==
  /\ Running
  /\ stack' = Below(stack)
  /\ stackTraceDepth' = IF Instrumented(Top) THEN stackTraceDepth - 1 ELSE stackTraceDepth
  /\ UNCHANGED <<thrown, flow, throws, lookups, lost>>

\* By an ATHROW instruction, which counts down in an instrumented method, or by
\* another one that fails.
Throw ==
  /\ Running
  /\ throws < MaxThrows
  /\ throws' = throws + 1
  /\ \/ thrown' = "uncounted" /\ UNCHANGED stackTraceDepth
     \/ /\ Instrumented(Top)
        /\ thrown' = "counted"
        /\ stackTraceDepth' = stackTraceDepth - 1
  /\ UNCHANGED <<stack, flow, lookups, lost>>

\* What if frames left by an exception were counted down, as returns are?
UnwindDown ==
  /\ thrown # "none" /\ stack # <<>>
  /\ stack' = Below(stack)
  /\ thrown' = IF stack' = <<>> THEN "none" ELSE "uncounted"
  /\ stackTraceDepth' = IF Instrumented(Top) THEN stackTraceDepth - 1 ELSE stackTraceDepth
  /\ UNCHANGED <<flow, throws, lookups, lost>>

\* The frame on top has no handler, and is left.
Unwind ==
  /\ thrown # "none" /\ stack # <<>>
  /\ stack' = Below(stack)
  /\ thrown' = IF stack' = <<>> THEN "none" ELSE "uncounted"
  /\ UNCHANGED <<stackTraceDepth, flow, throws, lookups, lost>>

Catch(handler) ==
  /\ thrown # "none" /\ stack # <<>> /\ Instrumented(Top)
  /\ thrown' = "none"
  /\ stackTraceDepth' = IF handler = "last" THEN Resynchronise(stack) ELSE stackTraceDepth
  /\ lost' = IF handler = "other" /\ thrown = "counted" THEN lost + 1 ELSE lost
  /\ UNCHANGED <<stack, flow, throws, lookups>>

\* In a method that is not instrumented, as of an executor.
CatchUnnoticed ==
  /\ thrown # "none" /\ stack # <<>> /\ ~Instrumented(Top)
  /\ thrown' = "none"
  /\ UNCHANGED <<stack, stackTraceDepth, flow, throws, lookups, lost>>

Next ==
  \/ \E m \in Methods : Call(m)
  \/ Line \/ Return \/ Throw \/ Unwind
  \/ \E handler \in Handlers : Catch(handler)
  \/ CatchUnnoticed

Spec == Init /\ [][Next]_vars

----------------------------------------------------------------------------
\* Properties.

Steps == 1 .. MaxSteps

FrameType == [m : Methods, first : 0 .. MaxSteps, last : 0 .. MaxSteps]
LineType  == [m : Methods, sd : Int, throws : 0 .. MaxThrows, lookups : Nat, act : Steps,
              under : SUBSET Steps, frames : SUBSET Steps, plain : BOOLEAN]

\* The type invariant.
TypeOK ==
  /\ stack \in Seq(FrameType)
  /\ Len(stack) <= MaxDepth
  /\ thrown \in Exceptions
  /\ stackTraceDepth \in Int /\ stackTraceDepth + lost >= -1
  /\ flow \in Seq(LineType)
  /\ Len(flow) <= MaxSteps
  /\ throws \in 0 .. MaxThrows
  /\ lookups \in Nat
  /\ lost \in 0 .. throws

\* The counter is never below the number of instrumented methods on the stack,
\* whatever exceptions pass through them, but for methods that have caught what they
\* had thrown themselves (each makes it one too low). So without those a thread that
\* is in an instrumented method never gets back to -1, the value before its first
\* call, at which the depth is looked up anew.
NeverTooLow ==
  \/ thrown # "none"
  \/ stackTraceDepth + lost >= Cardinality(Counted(stack))
  \/ stackTraceDepth = -1 /\ Counted(stack) = {}
=============================================================================
