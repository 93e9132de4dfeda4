----------------------------- MODULE LineBuffer -----------------------------
(***************************************************************************)
(* How the lines of one recording thread get to one of its .dbg files:     *)
(* ByteBufferOutput and JSONDirectBufferPacker (the buffer that is written *)
(* to, and the flush that hands its whole lines over), the thread's        *)
(* single-threaded writers executor with its SaveTasks, the channel, and   *)
(* the Cleanup shutdown hook of FlowPerThread with the JVM exit it is      *)
(* part of.                                                                *)
(*                                                                         *)
(* The bytes a thread writes are numbered 1, 2, 3... in the order of       *)
(* writing, and a byte is represented by its number: a file is correct     *)
(* when it reads 1, 2, 3... up to the end of a line.                       *)
(*                                                                         *)
(* The recording thread ("app") and the hook run the same flush on the     *)
(* same unsynchronised object, so the flush is split where the other one   *)
(* can see it half done.                                                   *)
(***************************************************************************)
EXTENDS Integers, Sequences

CONSTANTS
  Capacity,   \* BUFFER_SIZE
  MaxWrite,   \* the longest single write
  MaxCells,   \* bound on the bytes a thread writes
  Faults      \* what may go wrong around the program

FaultKinds == {
  "io",       \* a write to the file throws
  "short",    \* a write to the file takes only part of the buffer
  "timeout",  \* awaitTermination gives up after 30 seconds
  "late" }    \* the shutdown finds the thread recording, or it goes on recording

ASSUME CapacityAssumption == Capacity \in Nat \ {0}
ASSUME MaxWriteAssumption == MaxWrite \in Nat \ {0}
ASSUME MaxCellsAssumption == MaxCells \in Nat
ASSUME FaultsAssumption   == Faults \subseteq FaultKinds

VARIABLES
  heap,       \* the ByteBuffers allocated so far
  buf,        \* ByteBufferOutput.buffer, an index of heap
  lle,        \* ByteBufferOutput.lastLineEndPosition
  pc,         \* where the recording thread and the hook are
  req,        \* the write the recording thread is at: what part of a line, how
              \* long, and the position it has read after that part
  flushing,   \* local toFlush of a flush
  carry,      \* local toCopyOver of a flush: the bytes of the unfinished line
  disabled,   \* an exception has switched recording off
  pool,       \* the writers executor: "running" or "shutdown"
  queue,      \* buffers of the SaveTasks that wait for the writer
  saver,      \* the writer thread
  file,       \* what the channel has been given
  closed,     \* the channel has been closed
  jvm,        \* "running", "shutdown" or "halted"
  announced,  \* what the session URL hook has printed
  written,    \* history: how many bytes the thread has written
  ends,       \* history: the offsets at which it completed a line
  met         \* history: the faults met

bufferVars == <<heap, buf, lle>>
flushVars  == <<flushing, carry>>
saveVars   == <<pool, queue, saver, file, closed>>
jvmVars    == <<jvm, announced>>
history    == <<written, ends>>
vars == <<bufferVars, pc, req, flushVars, disabled, saveVars, jvmVars, history, met>>

Actors == {"app", "hook"}
Parts  == {"body", "comma", "newline"}

----------------------------------------------------------------------------
\* java.nio.ByteBuffer, as far as it is used.

\* A new buffer that starts with the given bytes; origin is history: the offset
\* in the stream from which it is filled.
Fresh(cells, from) ==
  [mem    |-> [i \in 0 .. Capacity - 1 |-> IF i < Len(cells) THEN cells[i + 1] ELSE 0],
   pos    |-> Len(cells),
   lim    |-> Capacity,
   origin |-> from]

\* b after the next n bytes of the stream have been put into it.
Filled(b, n) ==
  [b EXCEPT !.pos = b.pos + n,
            !.mem = [i \in 0 .. Capacity - 1 |->
               IF i \in b.pos .. (b.pos + n - 1) THEN written + 1 + i - b.pos ELSE b.mem[i]]]

\* limit(n), which moves the position back if it has to, and flip().
LimitedTo(b, n) == [b EXCEPT !.lim = n, !.pos = IF b.pos < n THEN b.pos ELSE n]
Flipped(b) == [b EXCEPT !.lim = b.pos, !.pos = 0]

Remaining(b) == heap[b].lim - heap[b].pos

\* The bytes of b from position `from` up to, but without, position `to`.
Cells(b, from, to) == [i \in 1 .. (to - from) |-> heap[b].mem[from + i - 1]]

Init ==
  /\ heap = <<Fresh(<<>>, 0)>>
  /\ buf = 1
  /\ lle = 0
  /\ pc = [a \in Actors |-> IF a = "app" THEN "ready" ELSE "waiting"]
  /\ req = [part |-> "newline", len |-> 1, end |-> 0]
  /\ flushing = [a \in Actors |-> 1]
  /\ carry = [a \in Actors |-> <<>>]
  /\ disabled = FALSE
  /\ pool = "running"
  /\ queue = <<>>
  /\ saver = [at |-> "none", buf |-> 1, from |-> 0, to |-> 0]
  /\ file = <<>>
  /\ closed = FALSE
  /\ jvm = "running"
  /\ announced = "nothing"
  /\ written = 0
  /\ ends = {}
  /\ met = {}

Goto(a, from, to) == pc[a] = from /\ pc' = [pc EXCEPT ![a] = to]

Meet(fault) == fault \in Faults /\ met' = met \union {fault}

\* The recording thread runs: freely while the program does, and on into the
\* shutdown, which stops no thread, as a fault.
Recording == pc["app"] \notin {"ready", "ended"} \/ (req.part # "newline" /\ ~disabled)

AppRuns ==
  \/ jvm = "running" /\ UNCHANGED met
  \/ jvm = "shutdown" /\ Meet("late")

----------------------------------------------------------------------------
\* The recording thread: ByteBufferOutput.write..., writeLineEnd.

\* What a line consists of: body bytes, then ',' and '\n' in two writes.
Follows(part, n) ==
  \/ part = "body" /\ req.part \in {"newline", "body"} /\ n \in 1 .. MaxWrite
  \/ part = "comma" /\ req.part = "body" /\ n = 1
  \/ part = "newline" /\ req.part = "comma" /\ n = 1

BeginFlush(a) == flushing' = [flushing EXCEPT ![a] = buf]

\* reserve: does the write fit?
Reserve(part, n) ==
  /\ AppRuns
  /\ ~disabled
  /\ Follows(part, n)
  /\ written + n <= MaxCells
  /\ \/ n <= Remaining(buf) /\ Goto("app", "ready", "put") /\ UNCHANGED flushing
     \/ n > Remaining(buf) /\ Goto("app", "ready", "limit") /\ BeginFlush("app")
  /\ req' = [part |-> part, len |-> n, end |-> 0]
  /\ UNCHANGED <<bufferVars, carry, disabled, saveVars, jvmVars, history>>

\* What if absolute puts were used, which do not look at the remaining space?
PutUnchecked ==
  /\ AppRuns
  /\ pc["app"] = "put"
  /\ heap' = [heap EXCEPT ![buf] = Filled(@, req.len)]
  /\ written' = written + req.len
  /\ pc' = [pc EXCEPT !["app"] = IF req.part = "newline" THEN "mark" ELSE "ready"]
  /\ UNCHANGED <<buf, lle, req, flushVars, disabled, saveVars, jvmVars, ends>>

Put ==
  /\ AppRuns
  /\ pc["app"] = "put"
  /\ req.len <= Remaining(buf)
  /\ heap' = [heap EXCEPT ![buf] = Filled(@, req.len)]
  /\ written' = written + req.len
  /\ pc' = [pc EXCEPT !["app"] = IF req.part = "newline" THEN "mark" ELSE "ready"]
  /\ UNCHANGED <<buf, lle, req, flushVars, disabled, saveVars, jvmVars, ends>>

\* writeLineEnd reads the position.
ReadPosition ==
  /\ AppRuns
  /\ Goto("app", "mark", "store")
  /\ req' = [req EXCEPT !.end = heap[buf].pos]
  /\ UNCHANGED <<bufferVars, flushVars, disabled, saveVars, jvmVars, history>>

\* What if writeLineEnd did not remember the position?
MarkNothing ==
  /\ AppRuns
  /\ Goto("app", "store", "ready")
  /\ ends' = ends \union {written}
  /\ UNCHANGED <<bufferVars, req, flushVars, disabled, saveVars, jvmVars, written>>

\* It remembers it, as lastLineEndPosition.
MarkLineEnd ==
  /\ AppRuns
  /\ Goto("app", "store", "ready")
  /\ lle' = req.end
  /\ ends' = ends \union {written}
  /\ UNCHANGED <<heap, buf, req, flushVars, disabled, saveVars, jvmVars, written>>

\* An exception in the recording thread: Flow.onExceptionDuringCapture.
SwitchOff(at) ==
  /\ Goto("app", at, "ready")
  /\ disabled' = TRUE
  /\ UNCHANGED <<bufferVars, req, flushVars, saveVars, jvmVars, history>>

\* BufferOverflowException: the write does not even fit into a new buffer.
Overflow ==
  /\ AppRuns
  /\ req.len > Remaining(buf)
  /\ SwitchOff("put")

AppEnds ==
  /\ AppRuns
  /\ req.part = "newline" \/ disabled
  /\ Goto("app", "ready", "ended")
  /\ UNCHANGED <<bufferVars, req, flushVars, disabled, saveVars, jvmVars, history>>

----------------------------------------------------------------------------
\* flushToEndOfLineAndTransferRestOverToNewBuffer, by the recording thread (from
\* reserve) or by the hook (from flush).

FlusherRuns(a) ==
  \/ a = "app" /\ AppRuns
  \/ a = "hook" /\ jvm = "shutdown" /\ UNCHANGED met

\* What if the flush did not cut the buffer at the last line end?
LimitNowhere(a) ==
  /\ FlusherRuns(a)
  /\ Goto(a, "limit", "flip")
  /\ carry' = [carry EXCEPT ![a] = Cells(flushing[a], lle, heap[flushing[a]].pos)]
  /\ UNCHANGED <<bufferVars, flushing, req, disabled, saveVars, jvmVars, history>>

\* Set the unfinished line aside and cut the buffer at the last line end.
Limit(a) ==
  /\ FlusherRuns(a)
  /\ lle <= heap[flushing[a]].lim
  /\ Goto(a, "limit", "flip")
  /\ carry' = [carry EXCEPT ![a] = Cells(flushing[a], lle, heap[flushing[a]].pos)]
  /\ heap' = [heap EXCEPT ![flushing[a]] = LimitedTo(@, lle)]
  /\ UNCHANGED <<buf, lle, flushing, req, disabled, saveVars, jvmVars, history>>

\* IllegalArgumentException of Buffer.position: lastLineEndPosition is one of another
\* buffer, or of this one before the other flush cut it. The hook's thread dies of it.
LimitThrows(a) ==
  /\ FlusherRuns(a)
  /\ lle > heap[flushing[a]].lim
  /\ \/ a = "app" /\ SwitchOff("limit")
     \/ /\ a = "hook" /\ Goto("hook", "limit", "done")
        /\ UNCHANGED <<bufferVars, req, flushVars, disabled, saveVars, jvmVars, history>>

Flip(a) ==
  /\ FlusherRuns(a)
  /\ Goto(a, "flip", "submit")
  /\ heap' = [heap EXCEPT ![flushing[a]] = Flipped(@)]
  /\ UNCHANGED <<buf, lle, req, flushVars, disabled, saveVars, jvmVars, history>>

\* writers.execute(new SaveTask(...)): the first task creates the writer thread.
Submit(a) ==
  /\ FlusherRuns(a)
  /\ pool = "running"
  /\ Goto(a, "submit", "renew")
  /\ queue' = Append(queue, flushing[a])
  /\ saver' = [saver EXCEPT !.at = IF @ = "none" THEN "idle" ELSE @]
  /\ UNCHANGED <<bufferVars, req, flushVars, disabled, pool, file, closed, jvmVars, history>>

\* RejectedExecutionException: the hook has shut the executor down.
SubmitThrows ==
  /\ AppRuns
  /\ pool = "shutdown"
  /\ SwitchOff("submit")

\* What if the new buffer did not get the unfinished line?
RenewEmpty(a) ==
  /\ FlusherRuns(a)
  /\ Goto(a, "renew", IF a = "app" THEN "put" ELSE "stop")
  /\ lle' = 0
  /\ IF a = "app"
       THEN heap' = Append(heap, Fresh(<<>>, written)) /\ buf' = Len(heap) + 1
       ELSE UNCHANGED <<heap, buf>>
  /\ UNCHANGED <<req, flushVars, disabled, saveVars, jvmVars, history>>

\* What if it forgot to reset lastLineEndPosition?
RenewStale(a) ==
  /\ FlusherRuns(a)
  /\ Goto(a, "renew", IF a = "app" THEN "put" ELSE "stop")
  /\ IF a = "app"
       THEN /\ heap' = Append(heap, Fresh(carry[a], written - Len(carry[a])))
            /\ buf' = Len(heap) + 1
       ELSE UNCHANGED <<heap, buf>>
  /\ UNCHANGED <<lle, req, flushVars, disabled, saveVars, jvmVars, history>>

\* The unfinished line goes to a new buffer, which reserve assigns to the field;
\* flush, which is how the hook gets here, drops it.
Renew(a) ==
  /\ FlusherRuns(a)
  /\ Goto(a, "renew", IF a = "app" THEN "put" ELSE "stop")
  /\ lle' = 0
  /\ IF a = "app"
       THEN /\ heap' = Append(heap, Fresh(carry[a], written - Len(carry[a])))
            /\ buf' = Len(heap) + 1
       ELSE UNCHANGED <<heap, buf>>
  /\ UNCHANGED <<req, flushVars, disabled, saveVars, jvmVars, history>>

----------------------------------------------------------------------------
\* The writer thread: SaveTask.run.

SaverIs(at) == jvm # "halted" /\ saver.at = at

Take ==
  /\ SaverIs("idle")
  /\ queue # <<>>
  /\ queue' = Tail(queue)
  /\ saver' = [at |-> "taken", buf |-> Head(queue),
               from |-> heap[Head(queue)].pos, to |-> heap[Head(queue)].lim]
  /\ UNCHANGED <<bufferVars, pc, req, flushVars, disabled, pool, file, closed, jvmVars, history, met>>

\* The channel is given the bytes up to position `to`.
Write(to) ==
  /\ SaverIs("taken")
  /\ ~closed
  /\ file' = file \o Cells(saver.buf, saver.from, to)
  /\ saver' = [saver EXCEPT !.at = "written", !.to = to]
  /\ UNCHANGED <<bufferVars, pc, req, flushVars, disabled, pool, queue, closed, jvmVars, history>>

WriteAll == Write(saver.to) /\ UNCHANGED met

WriteShort == Meet("short") /\ \E to \in saver.from .. saver.to - 1 : Write(to)

\* The exception is printed and the buffer is lost.
WriteThrows ==
  /\ SaverIs("taken")
  /\ \/ closed /\ UNCHANGED met
     \/ ~closed /\ Meet("io")
  /\ saver' = [saver EXCEPT !.at = "idle"]
  /\ UNCHANGED <<bufferVars, pc, req, flushVars, disabled, pool, queue, file, closed, jvmVars, history>>

\* The write advances the position of the buffer.
SaveEnds ==
  /\ SaverIs("written")
  /\ heap' = [heap EXCEPT ![saver.buf] = [@ EXCEPT !.pos = saver.to]]
  /\ saver' = [saver EXCEPT !.at = "idle"]
  /\ UNCHANGED <<buf, lle, pc, req, flushVars, disabled, pool, queue, file, closed, jvmVars, history, met>>

----------------------------------------------------------------------------
\* JVM exit and the shutdown hooks.

ShutdownBegins ==
  /\ jvm = "running"
  /\ jvm' = "shutdown"
  /\ UNCHANGED <<bufferVars, pc, req, flushVars, disabled, saveVars, announced, history>>

\* System.exit, by this thread or, wherever this one is just then, by another.
Exit ==
  /\ ShutdownBegins
  /\ IF Recording THEN Meet("late") ELSE UNCHANGED met

\* The program ends by itself once its last non-daemon thread has: writer threads
\* are not daemons.
LastThreadEnds ==
  /\ pc["app"] = "ended"
  /\ saver.at = "none"
  /\ ShutdownBegins
  /\ UNCHANGED met

PrintURL ==
  /\ jvm = "shutdown"
  /\ announced = "nothing"
  /\ announced' = IF disabled THEN "empty" ELSE "url"
  /\ UNCHANGED <<bufferVars, pc, req, flushVars, disabled, saveVars, jvm, history, met>>

HookStep(from, to) ==
  /\ jvm = "shutdown"
  /\ Goto("hook", from, to)
  /\ UNCHANGED <<bufferVars, req, carry, disabled, queue, saver, file, jvmVars, history>>

\* What if Cleanup did not flush, did not shut the executor down, or did not wait?
CleanupWithoutFlush == HookStep("waiting", "stop") /\ UNCHANGED <<flushing, pool, closed, met>>
StopNothing == HookStep("stop", "await") /\ UNCHANGED <<flushing, pool, closed, met>>
AwaitNothing == HookStep("await", "close") /\ UNCHANGED <<flushing, pool, closed, met>>

CleanupBegins ==
  HookStep("waiting", "limit") /\ BeginFlush("hook") /\ UNCHANGED <<pool, closed, met>>

ShutdownPool ==
  HookStep("stop", "await") /\ pool' = "shutdown" /\ UNCHANGED <<flushing, closed, met>>

Terminated == pool = "shutdown" /\ queue = <<>> /\ saver.at \in {"none", "idle"}

AwaitTermination ==
  /\ HookStep("await", "close")
  /\ \/ Terminated /\ UNCHANGED met
     \/ ~Terminated /\ Meet("timeout")
  /\ UNCHANGED <<flushing, pool, closed>>

CloseChannel ==
  HookStep("close", "done") /\ closed' = TRUE /\ UNCHANGED <<flushing, pool, met>>

Halt ==
  /\ jvm = "shutdown"
  /\ pc["hook"] = "done"
  /\ announced # "nothing"
  /\ jvm' = "halted"
  /\ UNCHANGED <<bufferVars, pc, req, flushVars, disabled, saveVars, announced, history, met>>

----------------------------------------------------------------------------
Flush(a) == Limit(a) \/ LimitThrows(a) \/ Flip(a) \/ Submit(a) \/ Renew(a)

App ==
  \/ \E part \in Parts, n \in 1 .. MaxWrite : Reserve(part, n)
  \/ Put \/ ReadPosition \/ MarkLineEnd \/ Overflow \/ AppEnds \/ SubmitThrows
  \/ Flush("app")

Saver == Take \/ WriteAll \/ WriteShort \/ WriteThrows \/ SaveEnds

Hook ==
  \/ CleanupBegins \/ ShutdownPool \/ AwaitTermination \/ CloseChannel
  \/ Flush("hook")

Next == App \/ Saver \/ Hook \/ Exit \/ LastThreadEnds \/ PrintURL \/ Halt

Spec == Init /\ [][Next]_vars

\* The writer and the hooks are threads that get scheduled, the program's own
\* thread need not come to an end, and nobody has to call System.exit; but when
\* the last non-daemon thread has ended the JVM does exit. That the wait for the
\* writer times out is not relied on.
FairSpec ==
  /\ Spec
  /\ WF_vars(Take \/ WriteAll \/ (closed /\ WriteThrows) \/ SaveEnds)
  /\ WF_vars(CleanupBegins \/ Flush("hook") \/ ShutdownPool \/ (Terminated /\ AwaitTermination) \/ CloseChannel)
  /\ WF_vars(PrintURL)
  /\ WF_vars(LastThreadEnds)
  /\ WF_vars(Halt)

----------------------------------------------------------------------------
\* Properties.

Buffers == 1 .. Len(heap)
Buffer  == [mem : [0 .. Capacity - 1 -> Nat], pos : 0 .. Capacity, lim : 0 .. Capacity,
            origin : Int]
AppPlaces  == {"ready", "put", "mark", "store", "ended"}
HookPlaces == {"waiting", "stop", "await", "close", "done"}
FlushPlaces == {"limit", "flip", "submit", "renew"}

BuffersOK ==
  /\ heap \in Seq(Buffer)
  /\ buf \in Buffers
  /\ lle \in 0 .. Capacity

ThreadsOK ==
  /\ pc \in [Actors -> AppPlaces \union HookPlaces \union FlushPlaces]
  /\ pc["app"] \in AppPlaces \union FlushPlaces
  /\ pc["hook"] \in HookPlaces \union FlushPlaces
  /\ req \in [part : Parts, len : 1 .. MaxWrite, end : 0 .. Capacity]
  /\ disabled \in BOOLEAN

FlushesOK ==
  /\ flushing \in [Actors -> Buffers]
  /\ carry \in [Actors -> Seq(Nat)]
  /\ \A a \in Actors : Len(carry[a]) <= Capacity

SaveOK ==
  /\ pool \in {"running", "shutdown"}
  /\ queue \in Seq(Buffers)
  /\ saver \in [at : {"none", "idle", "taken", "written"}, buf : Buffers,
                from : 0 .. Capacity, to : 0 .. Capacity]
  /\ file \in Seq(Nat)
  /\ closed \in BOOLEAN

ProgramOK ==
  /\ jvm \in {"running", "shutdown", "halted"}
  /\ announced \in {"nothing", "url", "empty"}
  /\ written \in Nat
  /\ ends \subseteq 0 .. written
  /\ met \subseteq Faults

\* The type invariant.
TypeOK == BuffersOK /\ ThreadsOK /\ FlushesOK /\ SaveOK /\ ProgramOK

NoneOf(faults) == met \intersect faults = {}

\* The file is a prefix of what the thread wrote: no flush loses, repeats or
\* reorders bytes on the way through buffers, queue and writer.
InOrder ==
  NoneOf({"io", "short", "late"}) => \A i \in 1 .. Len(file) : file[i] = i

\* Only whole lines get into the file, although buffers fill up in the middle of
\* one: where it skips bytes (a buffer was lost) and where it stops, a line ends.
WholeLines ==
  NoneOf({"short", "late"}) =>
    \A i \in 1 .. Len(file) :
      \/ i < Len(file) /\ file[i + 1] = file[i] + 1
      \/ file[i] \in ends

\* When the hook has closed the channel, every line the thread had completed is
\* in the file, also when an exception had switched recording off before.
NothingLost ==
  NoneOf(FaultKinds) /\ closed => \A e \in ends : e <= Len(file)

\* Recording is switched off by nothing but a line too long for a whole buffer;
\* a full buffer, at whatever point of a line, does not do it.
OnlyLongLinesDisable ==
  NoneOf({"late"}) /\ disabled =>
    \A e \in ends \union {0} : written + req.len - e > Capacity

\* Once the JVM shuts down it halts: the hook does not wait for ever for a writer
\* that still has tasks, nor for one that never had any.
ShutdownHalts == jvm = "shutdown" ~> jvm = "halted"

\* The bytes of the file and the lines completed are a LineLog.
Log == INSTANCE LineLog WITH Offsets <- 1 .. MaxCells,
                               ends <- ends, durable <- Len(file), closed <- closed
ImplementsLineLog == Log!Spec

\* docs/source/getting-started.rst: "After the program finished running you will
\* see a URL to Halik exploration session." FlowPerThread's writer threads are not
\* daemons and are stopped by nothing but the shutdown hook.
URLAfterProgramEnds == pc["app"] = "ended" ~> announced # "nothing"

\* docs/source/recording.rst: "During recording all executed lines of code, and
\* state changes will be captured". Unconditional form of WholeLines for a thread
\* that is still recording when the shutdown hook flushes its buffer.
AlwaysWholeLines ==
  \A i \in 1 .. Len(file) :
    \/ i < Len(file) /\ file[i + 1] = file[i] + 1
    \/ file[i] \in ends
=============================================================================
