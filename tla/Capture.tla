------------------------------ MODULE Capture ------------------------------
(***************************************************************************)
(* What the threads of the recorded program go through when the code that  *)
(* instrumentation has put into them calls the agent: Flow with its        *)
(* FlowPerThread, the trackers of modified fields, arrays, collections and *)
(* maps, the Collector, and the lines they write.                          *)
(*                                                                         *)
(* Each thread has its own counter, steps, trackers and packers. What the  *)
(* threads share is allCaptureDisabled, a plain field: a thread sees that  *)
(* another one has set it some time later, or never.                       *)
(*                                                                         *)
(* Writing a snapshot reads the program's own objects, and with that calls *)
(* the program's own, instrumented, methods: captureLineExecution is       *)
(* entered again from within itself.                                       *)
(***************************************************************************)
EXTENDS Integers, Sequences

CONSTANTS
  Threads,    \* the threads of the program
  Objects,    \* fields, arrays, collections and maps they modify
  MaxLines,   \* bound on the lines a thread executes
  MaxNesting, \* bound on activations of captureLineExecution within each other
  Faults      \* what may go wrong

FaultKinds == {
  "exception",  \* a packer, or the program's own code called by one, throws
  "error",      \* the same, with an Error: the stack overflows, memory runs out
  "open" }      \* the .dbg file of a thread cannot be created

ASSUME LinesAssumption   == MaxLines \in Nat
ASSUME NestingAssumption == MaxNesting \in Nat \ {0}
ASSUME FaultsAssumption  == Faults \subseteq FaultKinds

VARIABLES
  perThread,  \* the threads that have their FlowPerThread
  entries,    \* FlowPerThread.entriesWithinCaptureCode
  step,       \* FlowPerThread.step
  tag,        \* TagTracker.tag is there
  modified,   \* what the trackers hold
  calls,      \* the activations of captureLineExecution, innermost last
  flow,       \* lines ended in the flow file
  snapshot,   \* lines ended in the snapshot file
  torn,       \* the files that end in a part of a line
  allCaptureDisabled,
  failed,     \* the threads whose capture has met an exception
  erred,      \* history: the threads in whose capture an Error was thrown
  executed,   \* history: how many lines the program itself has executed
  touched,    \* history: what it has modified since the last of them
  escaped     \* history: the agent has thrown an exception into the program

capture  == <<perThread, entries, step, calls>>
trackers == <<tag, modified>>
files    == <<flow, snapshot, torn>>
switch   == <<allCaptureDisabled, failed>>
history  == <<erred, executed, touched, escaped>>
vars     == <<capture, trackers, files, switch, history>>

Places == {"check", "flow", "consume", "catch", "finally"}
Files  == {"flow", "snapshot"}

Init ==
  /\ perThread = {}
  /\ entries = [t \in Threads |-> 0]
  /\ step = [t \in Threads |-> 0]
  /\ tag = [t \in Threads |-> FALSE]
  /\ modified = [t \in Threads |-> {}]
  /\ calls = [t \in Threads |-> <<>>]
  /\ flow = [t \in Threads |-> <<>>]
  /\ snapshot = [t \in Threads |-> <<>>]
  /\ torn = [t \in Threads |-> {}]
  /\ allCaptureDisabled = FALSE
  /\ failed = {}
  /\ erred = {}
  /\ executed = [t \in Threads |-> 0]
  /\ touched = [t \in Threads |-> {}]
  /\ escaped = FALSE

Top(t) == calls[t][Len(calls[t])]
At(t, place) == calls[t] # <<>> /\ Top(t).at = place

\* The innermost activation goes on as `call`.
Become(t, call) == calls' = [calls EXCEPT ![t][Len(calls[t])] = call]

GoTo(t, place) == Become(t, [Top(t) EXCEPT !.at = place])

\* The program's own code runs: outside of capture, or called by a packer.
ProgramRuns(t) == calls[t] = <<>> \/ At(t, "consume")
OnItsOwn(t)    == calls[t] = <<>>

\* What t may read from the plain field allCaptureDisabled.
ReadsDisabled(t) ==
  IF ~allCaptureDisabled THEN {FALSE} ELSE IF t \in failed THEN {TRUE} ELSE BOOLEAN

\* Flow.perThread() returns, having created the FlowPerThread if need be.
HasPerThread(t) == perThread' = perThread \union {t}

----------------------------------------------------------------------------
\* Instrumented code of the program.

\* What if modifications were tracked whoever makes them?
ModifyAnyway(t, x) ==
  /\ ProgramRuns(t)
  /\ HasPerThread(t)
  /\ touched' = IF OnItsOwn(t) THEN [touched EXCEPT ![t] = @ \union {x}] ELSE touched
  /\ \E disabled \in ReadsDisabled(t) :
       modified' = IF disabled THEN modified ELSE [modified EXCEPT ![t] = @ \union {x}]
  /\ UNCHANGED <<entries, step, calls, tag, files, switch, erred, executed, escaped>>

\* capture...Modification.
Modify(t, x) ==
  /\ ProgramRuns(t)
  /\ HasPerThread(t)
  /\ touched' = IF OnItsOwn(t) THEN [touched EXCEPT ![t] = @ \union {x}] ELSE touched
  /\ \E disabled \in ReadsDisabled(t) :
       modified' = IF entries[t] >= 1 \/ disabled
                     THEN modified ELSE [modified EXCEPT ![t] = @ \union {x}]
  /\ UNCHANGED <<entries, step, calls, tag, files, switch, erred, executed, escaped>>

\* captureTag.
Tag(t) ==
  /\ ProgramRuns(t)
  /\ HasPerThread(t)
  /\ \E disabled \in ReadsDisabled(t) :
       tag' = IF entries[t] >= 1 \/ disabled THEN tag ELSE [tag EXCEPT ![t] = TRUE]
  /\ UNCHANGED <<entries, step, calls, modified, files, switch, history>>

\* What if capture were not disabled while it is going on?
LineUncounted(t) ==
  /\ ProgramRuns(t)
  /\ Len(calls[t]) < MaxNesting
  /\ HasPerThread(t)
  /\ calls' = [calls EXCEPT ![t] = Append(@, [at |-> "check", step |-> 0, sn |-> {}, due |-> {}])]
  /\ IF OnItsOwn(t)
       THEN executed[t] < MaxLines /\ executed' = [executed EXCEPT ![t] = @ + 1]
       ELSE UNCHANGED executed
  /\ UNCHANGED <<entries, step, trackers, files, switch, erred, touched, escaped>>

\* captureLineExecution is called.
Line(t) ==
  /\ ProgramRuns(t)
  /\ Len(calls[t]) < MaxNesting
  /\ HasPerThread(t)
  /\ entries' = [entries EXCEPT ![t] = @ + 1]
  /\ calls' = [calls EXCEPT ![t] = Append(@, [at |-> "check", step |-> 0, sn |-> {}, due |-> {}])]
  /\ IF OnItsOwn(t)
       THEN executed[t] < MaxLines /\ executed' = [executed EXCEPT ![t] = @ + 1]
       ELSE UNCHANGED executed
  /\ UNCHANGED <<step, trackers, files, switch, erred, touched, escaped>>

\* perThread() throws from wherever it is called first: the constructor of
\* FlowPerThread cannot open its files. No capture method catches that.
OpenFails(t) ==
  /\ "open" \in Faults
  /\ OnItsOwn(t)
  /\ t \notin perThread
  /\ escaped' = TRUE
  /\ UNCHANGED <<capture, trackers, files, switch, erred, executed, touched>>

----------------------------------------------------------------------------
\* The rest of captureLineExecution.

\* What if every call counted as a step?
CheckCountsAll(t) ==
  /\ At(t, "check")
  /\ step' = [step EXCEPT ![t] = @ + 1]
  /\ \E disabled \in ReadsDisabled(t) :
       IF entries[t] > 1 \/ disabled
         THEN GoTo(t, "finally")
         ELSE Become(t, [Top(t) EXCEPT !.at = "flow", !.step = step[t]])
  /\ UNCHANGED <<perThread, entries, trackers, files, switch, history>>

\* What if it did not look at allCaptureDisabled?
CheckCounterOnly(t) ==
  /\ At(t, "check")
  /\ IF entries[t] > 1
       THEN GoTo(t, "finally") /\ UNCHANGED step
       ELSE /\ Become(t, [Top(t) EXCEPT !.at = "flow", !.step = step[t]])
            /\ step' = [step EXCEPT ![t] = @ + 1]
  /\ UNCHANGED <<perThread, entries, trackers, files, switch, history>>

\* capturingLinesDisabled, and nextStep.
Check(t) ==
  /\ At(t, "check")
  /\ \E disabled \in ReadsDisabled(t) :
       IF entries[t] > 1 \/ disabled
         THEN GoTo(t, "finally") /\ UNCHANGED step
         ELSE /\ Become(t, [Top(t) EXCEPT !.at = "flow", !.step = step[t]])
              /\ step' = [step EXCEPT ![t] = @ + 1]
  /\ UNCHANGED <<perThread, entries, trackers, files, switch, history>>

\* A packer ends a line: if the file ended in a part of a line, they are one.
EndLine(t, f, lines, line) ==
  /\ lines' = [lines EXCEPT ![t] = Append(@, [line EXCEPT !.whole = f \notin torn[t]])]
  /\ torn' = [torn EXCEPT ![t] = @ \ {f}]

\* What if collect left the trackers as they are?
PackFlowAndPeek(t) ==
  /\ At(t, "flow")
  /\ tag' = [tag EXCEPT ![t] = FALSE]
  /\ EndLine(t, "flow", flow, [step |-> Top(t).step, tagged |-> tag[t], whole |-> TRUE])
  /\ touched' = [touched EXCEPT ![t] = {}]
  /\ Become(t, [Top(t) EXCEPT !.at = IF modified[t] = {} THEN "finally" ELSE "consume",
                              !.sn = modified[t], !.due = touched[t]])
  /\ UNCHANGED <<perThread, entries, step, modified, snapshot, switch, erred, executed, escaped>>

\* packFlow, then collect: the trackers start anew.
PackFlow(t) ==
  /\ At(t, "flow")
  /\ tag' = [tag EXCEPT ![t] = FALSE]
  /\ EndLine(t, "flow", flow, [step |-> Top(t).step, tagged |-> tag[t], whole |-> TRUE])
  /\ modified' = [modified EXCEPT ![t] = {}]
  /\ touched' = [touched EXCEPT ![t] = {}]
  /\ Become(t, [Top(t) EXCEPT !.at = IF modified[t] = {} THEN "finally" ELSE "consume",
                              !.sn = modified[t], !.due = touched[t]])
  /\ UNCHANGED <<perThread, entries, step, snapshot, switch, erred, executed, escaped>>

\* What if it wrote the thread's current step and not that of its line?
PackSnapshotAtStep(t) ==
  /\ At(t, "consume")
  /\ EndLine(t, "snapshot", snapshot,
             [i |-> step[t], sn |-> Top(t).sn, due |-> Top(t).due, whole |-> TRUE])
  /\ GoTo(t, "finally")
  /\ UNCHANGED <<perThread, entries, step, trackers, flow, switch, history>>

\* packSnapshot, once the program's code that it has called is done. due is
\* history: what the program has modified since the line before.
PackSnapshot(t) ==
  /\ At(t, "consume")
  /\ EndLine(t, "snapshot", snapshot,
             [i |-> Top(t).step, sn |-> Top(t).sn, due |-> Top(t).due, whole |-> TRUE])
  /\ GoTo(t, "finally")
  /\ UNCHANGED <<perThread, entries, step, trackers, flow, switch, history>>

\* A packer breaks off, in the middle of a line or before it has begun one. An
\* Exception is caught; an Error just makes the finally block run.
BreakOff(t, f) ==
  /\ torn' \in {torn, [torn EXCEPT ![t] = @ \union {f}]}
  /\ \/ "exception" \in Faults /\ GoTo(t, "catch") /\ UNCHANGED erred
     \/ "error" \in Faults /\ GoTo(t, "finally") /\ erred' = erred \union {t}
  /\ UNCHANGED <<perThread, entries, step, modified, flow, snapshot, switch,
                 executed, touched, escaped>>

PackFlowThrows(t) ==
  /\ At(t, "flow")
  /\ tag' = [tag EXCEPT ![t] = FALSE]
  /\ BreakOff(t, "flow")

PackSnapshotThrows(t) ==
  /\ At(t, "consume")
  /\ BreakOff(t, "snapshot")
  /\ UNCHANGED tag

\* onExceptionDuringCapture.
Catch(t) ==
  /\ At(t, "catch")
  /\ allCaptureDisabled' = TRUE
  /\ failed' = failed \union {t}
  /\ GoTo(t, "finally")
  /\ UNCHANGED <<perThread, entries, step, trackers, files, history>>

\* What if capture were not enabled again?
FinallyNothing(t) ==
  /\ At(t, "finally")
  /\ calls' = [calls EXCEPT ![t] = SubSeq(@, 1, Len(@) - 1)]
  /\ UNCHANGED <<perThread, entries, step, trackers, files, switch, history>>

\* reenableCapture, and captureLineExecution returns.
Finally(t) ==
  /\ At(t, "finally")
  /\ entries' = [entries EXCEPT ![t] = @ - 1]
  /\ calls' = [calls EXCEPT ![t] = SubSeq(@, 1, Len(@) - 1)]
  /\ UNCHANGED <<perThread, step, trackers, files, switch, history>>

Program(t) ==
  \/ \E x \in Objects : Modify(t, x)
  \/ Tag(t) \/ Line(t) \/ OpenFails(t)

Agent(t) ==
  \/ Check(t) \/ PackFlow(t) \/ PackSnapshot(t) \/ Catch(t) \/ Finally(t)
  \/ PackFlowThrows(t) \/ PackSnapshotThrows(t)

Next == \E t \in Threads : Program(t) \/ Agent(t)

Spec == Init /\ [][Next]_vars

----------------------------------------------------------------------------
\* Properties.

Call == [at : Places, step : Nat, sn : SUBSET Objects, due : SUBSET Objects]

CountersOK ==
  /\ perThread \subseteq Threads
  /\ entries \in [Threads -> Nat]
  /\ step \in [Threads -> Nat]
  /\ calls \in [Threads -> Seq(Call)]

FilesOK ==
  /\ tag \in [Threads -> BOOLEAN]
  /\ modified \in [Threads -> SUBSET Objects]
  /\ flow \in [Threads -> Seq([step : Nat, tagged : BOOLEAN, whole : BOOLEAN])]
  /\ snapshot \in [Threads -> Seq([i : Nat, sn : SUBSET Objects, due : SUBSET Objects,
                                  whole : BOOLEAN])]
  /\ torn \in [Threads -> SUBSET Files]

HistoryOK ==
  /\ allCaptureDisabled \in BOOLEAN
  /\ failed \subseteq Threads
  /\ erred \subseteq Threads
  /\ executed \in [Threads -> Nat]
  /\ touched \in [Threads -> SUBSET Objects]
  /\ escaped \in BOOLEAN

\* The type invariant.
TypeOK == CountersOK /\ FilesOK /\ HistoryOK

\* Flow line k is step k - 1, and whole: no other line is lost or torn by threads
\* that fail, by code called while capturing, or by recording being switched off.
LinesAreSteps ==
  \A t \in Threads \ erred : \A k \in 1 .. Len(flow[t]) :
    flow[t][k].step = k - 1 /\ flow[t][k].whole

\* A snapshot line refers to a flow line that is in the flow file, and no two of
\* them to the same.
SnapshotsHaveTheirLine ==
  \A t \in Threads \ erred : \A k \in 1 .. Len(snapshot[t]) :
    /\ snapshot[t][k].i < Len(flow[t])
    /\ snapshot[t][k].whole
    /\ k > 1 => snapshot[t][k - 1].i < snapshot[t][k].i

\* Until something goes wrong every line the program itself executes is in the
\* flow file, and no line of code that was called to write a snapshot.
EveryLine ==
  ~allCaptureDisabled =>
    \A t \in Threads \ erred : OnItsOwn(t) => Len(flow[t]) = executed[t]

\* Until then a snapshot holds what the program itself has modified since the
\* line before, and what is not yet in a snapshot is still in the trackers.
EveryModification ==
  ~allCaptureDisabled =>
    \A t \in Threads \ erred :
      /\ \A k \in 1 .. Len(snapshot[t]) : snapshot[t][k].sn = snapshot[t][k].due
      /\ OnItsOwn(t) => modified[t] = touched[t]

\* A thread whose capture has failed writes nothing any more after the part of a
\* line it may have left behind, while others may take a while to notice.
FailedThreadIsQuiet ==
  [][\A t \in failed : flow'[t] = flow[t] /\ snapshot'[t] = snapshot[t]]_vars

\* Flow.java:287, what the agent prints: "Halik will be disabled and your program
\* will continue to work correctly." No exception of the agent's own gets into the
\* program.
ProgramUnaffected == ~escaped

\* The lines of a thread with what has been modified since the line before: what
\* Recording calls its log.
ModifiedAt(t, k) ==
  UNION ({snapshot[t][j].sn : j \in {j \in 1 .. Len(snapshot[t]) : snapshot[t][j].i = k - 1}}
         \union {calls[t][j].sn : j \in {j \in 1 .. Len(calls[t]) :
                    calls[t][j].at \in {"consume", "catch"} /\ calls[t][j].step = k - 1}})

Record == INSTANCE Recording WITH
  log <- [t \in Threads |-> [k \in 1 .. Len(flow[t]) |-> ModifiedAt(t, k)]],
  pending <- modified, spoilt <- erred

ImplementsRecording == Record!Spec
=============================================================================
