# Verification of halik

Halik records what a Java program does and lets one step through the recording
afterwards, back and forth, in a browser. This directory holds TLA+ models of its core,
the runs in which TLC checks them, and proofs checked by TLAPS. Source lines that a
definition models are listed in `PROJECT.json` ("map"); names in the models are those of
the code wherever TLA+ allows it.

## 1. The system

A program is started from IntelliJ with a **Java agent**. Instrumentation puts calls to
the agent into the program's classes; these write, per thread, a flow file (one line per
executed line of code) and a snapshot file (what was modified). The **plugin** serves the
files of a session locally; the **web application** loads them and is the debugger. A
session can be shared: it is uploaded to the **server**, which stores it (S3,
Elasticsearch), and where people can annotate it: what somebody writes about a passage of the page is kept with the
session and shown to everyone who loads it. Annotations are the work of annotator.js,
which brings its own promises (es6-promise) and its own way of writing down a range of text
(xpath-range).

    program + instrumentation --calls--> FlowFacade -> Flow -> FlowPerThread (one per thread)
                                                                |  trackers, Collector
                                                                v
                                     flow / snapshot packer -> ByteBufferOutput
                                                                | whole lines, as SaveTask
                                                                v
                                          writers executor (1 thread) -> channel -> *.dbg
    class loading --transform--> class-names, method-names;  Thread.setName --> thread names
    *.dbg --plugin or server--> session_loader -> FlowAPI, StepperAPI, ReferenceFlow, Filters -> views
    selection --TextSelector--> range --Adder, Editor--> StorageAdapter (hooks, promises)
                                                           |  hooks: Highlighter, list of comments, storage
                                                           v
                                    socket <--> server --> Elasticsearch;  room of the session (joined, but told nothing, see 2)

### Inventory

| Component | State it keeps | Operations | What makes it correct | Modelled in |
|---|---|---|---|---|
| recording output (`output/`, `FlowPerThread` files and Cleanup) | the buffer, its last line end, executor queue, channel | write, end of line, flush, save, shutdown hook | files are prefixes of what was written, in whole lines, and complete after exit | `LineBuffer`, `LineLog` |
| capture (`Flow`, `FlowPerThread`, `Collector`, trackers) | re-entrancy counter, step, tag, modified objects, the global switch | capture of lines, modifications, tags; failure | flow lines and snapshots stay aligned, nothing of the program is missed, nothing of the agent's own doing is recorded | `Capture`, `Recording` |
| stack depth (`FlowPerThread` counter, `CaptureStackTraceDepth*`) | one counter per thread | call, return, throw, handler | the counter follows the real stack | `StackDepth` |
| stepping and frames (`stepper_api`, `flow_api`) | none; functions of flow and step | step over, back, in, out; frames | they lead where the real calls went | `Stepper`, `Debugger` |
| local variables (`VariableDefinitionLookup`, `VariableModificationTracker`) | pending assignments per thread; definitions of all methods | assign, line, exit; definition | a value is shown under the variable that was assigned | `Variables` |
| class transformation and index files | `classIndex`, class and method names | transform, by any class loading thread | an index in a flow line names the right class and method | `ClassIndex` |
| thread names (`ThreadNames`) | listener, list of early names | register, record | no name is lost | planned |
| packers of values | none | pack | readable JSON | control only, in `Capture` |
| plugin server | none (reads files) | session, flow, source routes | it serves also what is still being written | planned, last |
| plugin configuration | IDE settings | - | - | no |
| session loading (web) | promises of several requests | load, join | lines get their snapshot, names, indices | planned |
| filters and step context (web) | filters, current step | add, remove, step | the current step is one that is shown | planned |
| values, search, watches (web) | reference tree | value at a step | the value is the one at that step | planned |
| editor and views (web) | chain of updates | step change, load source | the source shown is that of the current step | planned (editor) |
| annotations (web, server) | storage and list of comments of each user, room, index | load, create, update, delete, tell the room, move to a step | who made a change sees in the end what is stored; the list is in order and agrees with the storage | `Annotations` |
| annotator: promises | state, subscribers, one queue | resolve, reject, then, all, flush | settled once, callbacks once and in order, nothing forgotten | `Promises`, `Settlement` |
| annotator: ranges and highlights | the document itself, highlights per annotation | select, draw, undraw | a range is found again; the page keeps its text | `Ranges` |
| annotator: widgets, authorisation | forms, timers of the viewer | - | - | no |
| settings, sharing, sign in (web) | forms | - | - | no |
| sessions (server) | objects in S3, entries in Elasticsearch | upload, list | a listed session is a stored one | planned |
| users (server) | accounts | find or create | one account per user | planned |
| demo, docs, build, vendored files | - | - | - | no |

What is hard to test here: one object used by two threads without a lock (a recording
thread and the shutdown hook); buffers that fill up at any byte of a line; capture that
calls back into the code it is capturing; a counter that is kept up by instrumented calls
while exceptions go past them; class loading threads that share an index; requests and
promises that come back in another order; answers and events that cross; a document that changes between
writing a range down and looking it up. `PROJECT.json` ("hazards") lists them with their lines
and the properties that look at them; hazards of the parts not yet modelled name the module
planned for them.

## 2. Modules

| Module | Content |
|---|---|
| `LineLog` | abstract: a file of whole lines, complete when closed |
| `LineBuffer` | buffers, flush, queue, writer thread, shutdown hook and JVM exit |
| `LineBuffer_proofs`, `MCLineBuffer` | proofs; model-checking parameters |
| `Recording` | abstract: per thread, a log of lines with what was modified before each |
| `Capture` | all threads' captures with re-entrancy and failures |
| `Capture_proofs`, `MCCapture` | proofs; parameters |
| `StackDepth` | one thread's stack, the counter, the recorded lines |
| `Stepper` | stepping and the Frames panel as functions of a flow |
| `Debugger`, `MCDebugger` | composition of the two, its properties; parameters |
| `Debugger_proofs` | proofs about the depth, and about stepping by it |
| `Settlement` | abstract: a promise is settled once, and what is registered on it runs once and in order |
| `Promises`, `Promises_proofs` | the promises of annotator.js with their queue; proofs |
| `Ranges`, `MCRanges` | selections, ranges written down and found again, highlights; pages |
| `Pages_proofs` | lemmas: what splitting texts, drawing and undrawing makes of a page |
| `Ranges_proofs` | proofs: the page keeps its text, ranges lead back, selections are exact, highlights cover |
| `Annotations`, `MCAnnotations` | users, their annotators, the server and the index; parameters |
| `Annotations_proofs` | proofs |
| `ClassIndex` | concurrent transformation of classes: their numbers, names and declared variables |
| `Variables`, `MCVariables` | what one thread's instrumented code tells of local variables, on top of `ClassIndex`; programs |
| `Variables_proofs` | proofs about the numbers of classes, and about the running program |

Operators named for a question ("What if ...?") stand before the definition they would
replace. They are plausible slips of the code; for each property there is one that
breaks it.

### LineBuffer

A byte is represented by its number in the stream a thread writes, so a correct file reads 1, 2,
3, ... Each write is an action per effect the code has: `Reserve` (`reserve` decides whether to
flush), `Put`, `Overflow` (the exception that `Flow.onExceptionDuringCapture` turns into recording
being switched off). `writeLineEnd` ends with `ReadPosition` and `MarkLineEnd`: it reads the position
of the buffer and then remembers it, and the hook can cut that buffer in between. A flush is
five steps, because the hook runs the same code on the same object: `BeginFlush` reads the field
`buffer` (in the step that decides to flush), then come `Limit`, `Flip`, `Submit` and `Renew`;
`pc`, `flushing` and `carry` are indexed by who runs it. `LimitThrows` is the flush that finds
`lastLineEndPosition` beyond the limit of the buffer it has read, which takes a thread that
records into the shutdown. Setting the unfinished line aside and cutting the buffer is still
one step. `Take`, `WriteAll`, `WriteShort`, `WriteThrows`, `SaveEnds` are the SaveTask on the
executor's thread. `CleanupBegins`
to `CloseChannel` are the hook; `Exit`, `LastThreadEnds`, `PrintURL` and `Halt` are the JVM.

`Faults` says what may go wrong: a write that throws, a write that takes a part of the buffer,
a wait that times out, a thread still recording at shutdown ("late"). History
variable `met` has those that did; properties say which of them they survive.

What goes into the buffer is one line after the other: a body, then the comma and the newline
of `writeLineEnd`. One thread and one of its two files are modelled: threads share no buffer,
and the two packers of a thread do the same.

### Capture

`calls[t]` is the stack of activations of `captureLineExecution` in thread t: it is entered
again from within itself when packing a snapshot calls the program's own
instrumented methods. `Modify` and `Tag` are the other capture calls; they are one step, since
only their own thread touches what they touch. `Check`, `PackFlow`, `PackSnapshot`, `Catch` and
`Finally` are the steps of `captureLineExecution`, `PackFlowThrows` and `PackSnapshotThrows`
its exceptions ("exception": caught; "error": not). `allCaptureDisabled` is
neither volatile nor locked: another thread than the one that set it may read it as
FALSE for any time (`ReadsDisabled`). `touched` and `executed` are history: what the
program itself did.

An object stands for whatever a tracker keys by: the trackers of fields, arrays,
collections and maps are sets that start anew at each line. Local variables, which are resolved
by method and label, are not part of this.

### StackDepth, Stepper, Debugger

`StackDepth` has the real stack of one thread next to the counter. `KindOf` says what the agent
makes of a method's class: recorded and counted; filtered (only counted); built-in (neither
instrumented nor counted when the depth is looked up); hidden (not instrumented but counted
then). `Increase` and `Resynchronise` look the depth up with the very numbers
of agent frames the code adds and subtracts. An exception passes through frames by `Unwind`, which
does not count down; one that an ATHROW of the method on top has thrown has counted down
("counted"). A handler of the last entry of a method's exception table looks the depth
up again, others do not (`Handlers`).

Each recorded line takes along, as history, which activation it belongs to and which activations and
lines were below it; `Debugger` compares with that what `Stepper` finds by the recorded depths alone. And each takes
along how many exceptions there had been, and how many times a call had found the counter at -1 and had looked the depth up
(`lookups`). Only lines with the same numbers can be compared (`SameCounting`): an exception that is caught leaves the
counter off, from then on. Back at -1 in the middle of a method, the counter is taken for that of a thread at its beginning, and the
method's later lines get another depth than the earlier ones.

### Promises, Settlement

`Promises` is the es6-promise that annotator.js is bundled with. A promise's state is written in two steps: `Settle`
seals it and queues a `PublishJob`, and `PublishBegins` writes how it was settled, then tells its subscribers one by
one (`publishing`). `Subscribe` adds to the subscribers until then and queues an `InvokeJob` afterwards. `FlushBegins` to
`FlushEnds` is the loop of `flush`, which looks at the length of the queue anew each time: callbacks append to it.
`CallbackBegins` and `CallbackReturns` or `CallbackThrows` are two steps, between which the callback may do whatever an
event may (`Application`): make promises, settle them, call `then` and `all`. `AllInput` is one round of the loop of
`all`; nothing else runs until it has ended.

`resolve` with a promise subscribes to it (`AdoptBy`); the one that follows stays pending *and is not
locked*, so that a later call of its resolver can settle it first. That is what the code does, though the
standard forbids it; `ToldSo` therefore says "one of the things it was told". A rejection passed on without
a callback is followed if its reason is a promise; the model has that too (`PassOn`).

`told`, `registered` and `ran` are history. `Contract` maps a promise's settlement to `Settlement`: sealed still
counts as pending.

### Ranges

A document is a tree of elements, highlights and texts. Characters are numbered, so the text of a page reads 1, 2, 3, ...
and a lost, doubled or swapped character shows. `Select` is `captureDocumentSelection` with `BrowserRange.normalize`
(which splits text nodes), `limit` and, when a range comes out, `serialize`; `Draw` is `SerializedRange.normalize`
(which splits again) and `highlightRange`; `Undraw` puts a highlight's children in its place; `Clear` is what
`onNewStep` does to the page. Undrawing leaves texts split, as the code does. After `Clear` an annotation still
holds highlights that are no longer in the page; they have no parent and `undraw` skips them, so the model drops them.
New nodes are taken from those that are free. A browser has as many as it likes: `Room`, a guard of the steps that make
nodes, is a bound of the model. An XPath is what `PathTo` says of a node, and `NodeAt` the element below the
annotated one of which it says that.

`WellFormed` says what a tree is, `Plain` what a page is like that nobody has annotated: no highlights, no text without characters,
no element that is a `span`. All pages must be like that (`PagesAssumption`). Only the last is a restriction of the code's domain. Highlights are
spans, and an XPath numbers an element among the children of its name, highlights included (annotator.js:11763); a range made in a
span of the page, while a highlight is drawn in front of it, is not found once that is undrawn. TLC shows this at once when a page with such a span is
let in. `RangesHold` asks for room for two nodes, since to find a range its texts may have to be split.

At this commit nothing calls `configureStandardAnnotator` (annotations/setup.coffee:57), which sets up this selector and highlighter; the annotator
of the editor has a selector and a highlighter of its own, made for CodeMirror. What is modelled is what the application bundles and would run there.

The corner cases of `normalize` are in the model as the code has them: a start in an element behind its last
child throws (`NoPoint`); a start at the end of a text node becomes its next sibling, which may be none or an
element, and jQuery's `index` then gives a number of something else (`IndexOf`). Elements without any text in them,
comments, and selections of several ranges are left out.

### Annotations

Each client has a `storage` and a `list`, two queues of messages, and perhaps an annotation in its editor. The actions of a user
are those of annotator.js with the website's hooks: what was done is shown at once, in one step with sending it (the
promises in between run before the next event). The server passes operations to the index (`Serve`), which performs
them in any order (`Search`, `Perform`, `Fail`), and answers load or, for a change, tells the room (`Answer`). A connection can be lost with
all that is on it (`Disconnect`); socket.io connects again, but nobody joins the room again.

**Nobody is told of a change.** After a change the server calls `io.sockets.in(room).broadcast.emit` (annotations.coffee:32, 38, 44). With
socket.io ^1.4.6 (server/package.json:23) `io.sockets` is a namespace, and a namespace has no `broadcast`: `emit` of undefined throws in the callback, which runs when the
index has succeeded, and no event is sent. The handlers of events in socketio-storage.coffee never run. This is `"nobody"`
in the constant `Reach`. The model has two other values of it: `"others"`, all in the room but the sender, which is what `broadcast` does on a socket and what was meant
here; and `"all"`, what the call does without `broadcast`. They let `Handled` be checked as it would run against a server that tells. Each change reaches any audience that `Reach` allows; so a property
that passes holds of the program as it is, of one where all changes are told, and of any mixture. No property says that others see a change, for they do not.

**Searches lag behind.** No change asks Elasticsearch for a refresh, so a search does not find a change as soon as it is made. `searchable` is what a search
finds, and `Refresh` brings it up to date for one annotation at any time after a change, or never. A client asks for the annotations once, when it starts:
what that search missed it does not see until the page is loaded again. Updates and deletes go by identifier, which is not subject to this.

`Annotation.create` turns the ranges of its argument into a text, and that same object would be sent to others: their highlighter
throws on it, and since it is the first hook, neither list nor storage hears of the annotation (`Throws`).

`ChangesSettle` is about those who change something. `author` is history: who changed an annotation last. What that client shows of it is in the end what
is stored, text or absence, although it was shown before it was sent, an answer to load may bring an older state after it, its connection may be lost and made again, and the annotator
reloads comments at each move. `raced` exempts what the code leaves diverging: a change made before another of the same annotation was performed and those told who are
(the index may perform them in either order), a change that failed or was lost with its connection (it stays shown), and an annotation deleted during loading (the
answer brings it back). What everybody else sees is whatever they loaded, and nothing is promised of it.

### ClassIndex, Variables

`ClassIndex` has one action per step of `transform` that touches something shared: `Declare` (the first pass, under the
number read then), `Compile` (the second pass, with the number read again, and the variables declared under it by
then), `NameClass`, `NameMethods`, and `classIndex++` as `ReadIndex` and `CountUp`. `Fail` is an exception in either pass, or in
`toByteArray`, which comes after the class has been named and counted;
a name that cannot be appended to its file is missing (`"io"`). `disorder` is history. A class has one method, so
its identifier is `szudzikPairing` of the class's number and 0. A `TreeRangeMap` is a set of points. `Declare` is one step,
although two threads may be inside it: `"overlap"` is recorded then, and the invariants promise nothing for it.

`Variables` runs the code that was compiled. An instruction is what the visitors see: a line, another label, a store, a
conditional jump, a switch, a call of recorded code, an instruction that may throw, `return`, `throw`. A frame has its
`locals`, and `unsaved`, what a visitor would have remembered in `VariableStateCapturer` at this place of the code. That is
the one thing to get used to: the visitor reads code from above to below, whereas frames jump. Code in front of a label runs
only when the label is reached from above (`fell`); after a jump `unsaved` is empty, because the visitor put the capture in
front of the jump. `Compiled` says what compilers see to: nothing jumps into the scope of a variable, and a scope begins
with the label behind the first store (`WellFormed` has what class files ensure anyway: jumps lead to labels, a scope is not empty, `this` is not assigned).
That is all the proofs assume of a program. `MCVariables` makes all bodies of up to four instructions between the first line and the last,
with at most one jump, which satisfy it. The classes have been loaded in order when the thread begins: after an overlap the code may read
locals without a value and would not verify, so there is nothing to follow. `ReadsHaveValues` is the verifier's condition.

`watch` is `_valueAtStep` of the web application for a name: the last value recorded under it at or before a step.

## 3. What is checked

| Run | Bounds | Shows |
|---|---|---|
| `orderly` | buffer of 4 bytes, writes of up to 3, 9 bytes in all | Without faults: `NothingLost`, `OnlyLongLinesDisable`, and the whole implements `LineLog` |
| `faults` | buffer of 3 bytes, writes of up to 2, 6 bytes in all, with failing and short writes, the timeout and a thread that goes on recording | `InOrder`, `WholeLines` as far as each fault leaves them; the inductive invariant of the proofs; and liveness: a JVM that shuts down halts |
| `late` | buffer of 4 bytes | **violated**: lines are torn by a shutdown that meets a recording thread |
| `noexit` | buffer of 6 bytes | **violated**: a program that ends does not exit after a buffer was full |
| `capture` | 2 threads, 1 object, 2 lines each, 2 activations within each other, all faults | alignment and completeness of lines and snapshots, and refinement of `Recording` |
| `capture_open` | the same, files that cannot be opened | **violated**: an exception of the agent gets into the program |
| `debugger` | methods of all four kinds, two of them recorded; 3 frames, 3 lines, 1 exception | the counter is never too low; steps and frames lead where the calls were |
| `debugger_frames` | recorded and hidden methods | **violated**: after a handler the Frames panel shows a frame that is not there |
| `promises` | 3 promises, 2 calls of resolvers, `all` of up to 2 | settled once, as told, with callbacks once and in order (refinement of `Settlement`, with its fairness); `all` agrees with what it waits for; nothing that could be settled stays pending |
| `ranges` | 2 pages of 4 characters in nested or neighbouring elements, 2 annotations, 11 nodes | ranges are found again as the characters they were made for, whatever is drawn; highlights cover just these; the page keeps its text |
| `annotations` | 2 users at different steps, 2 annotations, 2 changes, 3 moves, edits or faults, of which 1 fault | `Reach` of "nobody" and "others": list and storage agree, in order; nobody is told what was not stored; who changed an annotation last sees in the end what is stored of it, unless changes raced |
| `variables` | 2 classes, 2 variables at the indices 0 and 1, bodies of up to 4 instructions with 1 jump or switch, 5 callees, a loop; 5 assignments | a class is found under its number; what is recorded with a line are values of that method's variables at that time, and all that were assigned; watches are current |

Why the bounds are enough. With 4 bytes a buffer fills up within a body, after the
comma and at the newline, lines span two buffers, single lines are longer than a buffer, and 9 bytes
need several buffers, so that flushes meet a writer that is idle, busy or behind. In `capture`
a second thread is needed for the shared switch; one object, since objects do not
interact; two activations, since a third is never entered (the inner one calls no
code of the program, which `Capture_proofs` shows as `Nesting`). In `debugger` three
frames are a caller, a callee and something in between (filtered, built-in or hidden), three lines and
two interchangeable methods allow recursion, a second call from one line, and lines before, in and after a
call. One exception separates before from after. No method has lines before and after a lookup within these bounds
(that takes two exceptions), so that the run checks lines of one method in each case; what else
`SameCounting` may exempt matters to the theorems, which hold for all bounds.

Three promises make a chain, a cycle, an `all` of two, a promise that follows another
and is settled otherwise meanwhile, and a `then` called at each stage of another's publishing. A `then` has a callback for one of the two cases (`Callbacks`): with both or none it
acts in either case as one of these. Two calls of
resolvers settle one promise twice or two of them. In `ranges` two annotations, made of any two selections, overlap,
nest or touch each other, and each is drawn before or after the other is made and undrawn in either order; 11 nodes
leave a page of six five for splits and highlights, which both annotations share (`Room` keeps a step from running out). One page has text outside the
annotated element, and white space. In `annotations` two users at different steps make the list's order matter; two annotations let
one come by an event or by loading and be inserted before another; three moves or edits allow one to make an annotation, another
to come to its step and change it. A change on a change of the same annotation needs but two clients. Two changes let a
search find the state before the second one, and its answer come after. With `Reach` containing "all" as well the run takes three times as long, and passes too.

In `variables` two classes are enough for two threads to meet in every step of `transform`, and for a class to come after one that failed.
Four instructions make room for a store, the label that begins its scope, a second store of the same or another variable and a jump, call or
exception, in any order; the callees are one with a parameter at the same index, a constructor, one with a variable of the same name and a jump, and two
that leave by an exception with a value still pending. A third frame would be another call of the same kind.

Fairness (`FairSpec` of `LineBuffer`, runs `faults` and `noexit`). Weak fairness of the writer, the hook, the
URL hook, the end of the JVM after its last non-daemon thread, and its halt: these are
threads, which the scheduler runs. None for the recorded program, which need neither go on nor end,
and none for the timeout, failing writes (but those to a closed channel, which do fail) or
System.exit. The hook does not rely on the wait's giving up: it goes on when the pool has terminated. `Promises!FairSpec`: the flush that was scheduled runs and goes on, callbacks return, and the loop of `all` ends; nobody
need call a resolver. `Annotations!FairSpec`: messages arrive, unless the connection is lost, and the index
answers or fails; users need do nothing, and searches need never be brought up to date.

No run reports a deadlock: `Capture` is checked for it; `LineBuffer` and `StackDepth` may really
stop, in a halted JVM and when the bounded program is over (`Variables` too), and so may promises that nobody settles, and people
who have made their annotations.

### Disagreements found

1. `late`: *During recording all executed lines of code, and state changes will be captured*
   (docs/source/recording.rst:8), but the hook flushes packers which their thread may be using. Daemon
   threads and threads other than the one that called System.exit are not stopped.
2. `noexit`: *After the program finished running you will see a URL* (docs/source/getting-started.rst:30),
   but writer threads are no daemons, and what stops them is a shutdown hook.
3. `capture_open`: the agent prints that *your program will continue to work correctly*
   (Flow.java:287), but the files of a thread are opened outside of any try block.
4. `debugger_frames`: the Frames panel is *identical to a similar view* of a debugger
   (docs/source/navigation.rst:35), but after a handler the depth is one too large:
   FlowFacade.fetch subtracts two frames of the agent where three are on the stack.

Met while modelling, and kept in the models as the code has it, without a document that says otherwise: a promise that
follows another is not locked; a selection that begins at the end of a text node is written down as another
range (`SelectionIsExact` exempts it); drawing an annotation twice forgets its first highlights; an event about a new annotation would
be thrown away by those who get it; simultaneous changes of one annotation leave users with different texts; what was
deleted while annotations were being loaded comes back; whoever loads just after a change may not find it; of a
session only as many annotations are loaded as a search returns by default, which is ten. And the server tells nobody of any change, since what it calls for that does not exist in the
declared version of socket.io: people who annotate a session together see what the others did when they load the page again. There is no document or test of this feature to disagree with
(docs/source/collaboration.rst is empty), so it is recorded here, under "hazards", and in `Reach`. A method that catches two exceptions of
its own, by handlers that do not look the depth up, may bring the counter back to -1; the next call it makes is then recorded with a depth
that was looked up, what follows in the method with one too high, and step over takes lines of the one for lines of the other.

Of local variables: an assignment followed on the same line by a call of recorded code is taken by the first line of that code and lost,
unless a variable has its index there (so in `for (int i = 0; i < g(); i++)`, whose condition gets no line of its own, `i` may never be recorded);
what a constructor's caller left pending at index 0 shows as its `this`; an exception that no
ATHROW of recorded code throws leaves values pending, which the next line takes, whichever method it is in (a test means otherwise,
Regression_aka_DumpingGround.java:144); what is stored immediately before a switch is told only by code that never runs. `LinesAreTrue` and
`LineHasAssignments` exempt just these. `CaptureDeclarationsClassVisitor.visitMethod` returns before it counts the method if the class comes from
Kotlin, so all variables of such a class are declared under method 0; the model, with one method per class, cannot show it.

## 4. What is proved

For every value of the constants, under the assumptions named in the modules (which say no more
than that capacities are positive, bounds natural numbers, and faults and kinds among those listed).

**LineBuffer_proofs** (`IInv == TypeOK /\ (Orderly => Order)`). What the properties say of the file
follows only if it is known where every byte is before it gets there. `Order` says: buffers
are filled, handed over and saved in the order of allocation; those up to `Taken` have been taken by the
writer, those up to `Submitted` are queued; the stream goes on from the end of one buffer at the
beginning of the next; and each was cut at a line end, with the bytes after it in `carry`. All
this holds until a thread records while the hook flushes. Theorems: `TypeCorrect`, `FileInOrder`, `OnlyWholeLines`,
`FullBuffersAreHarmless`, `NothingIsLost`, `Invariant` (the inductive invariant itself, which run `faults` checks too), and
`Implementation`: without faults LineBuffer implements LineLog.

**Capture_proofs** (`IInv == TypeOK /\ \A t : ThreadInv(t)`). `Nesting` (the counter is the number of
activations, the inner one is waiting or leaving), `Quiet` (a thread that failed is only on its
way out), `Lines`, `Snapshots` and `Complete` relate step, flow, snapshots and history at each place of an
activation. Threads meet only in `allCaptureDisabled`, so a step of one preserves the
invariant of another because that can only become TRUE. Theorems: `TypeCorrect`, `LinesOfSteps`, `SnapshotsOfLines`,
`NoLineMissing`, `NoModificationMissing`, `FailedThreadStops` (an action property), and `CaptureImplementsRecording`. The log that
`Recording` speaks of is put together from flow lines, snapshots and what an activation still holds; the refinement needs one more
fact, `Caught`: an exception on its way to the handler has left no snapshot of its line (`RInv`). Two steps of the code then are
the abstract line: `PackFlow`, and the end of an activation whose exception was caught. All others stutter, or modify an object.

**Debugger_proofs**, the depth (`IInv == TypeOK /\ Chain /\ Level`). `NeverTooLow` is not inductive: between a throw
that has counted down and the next step the counter lacks the frame on top, and whether that becomes permanent
depends on where the exception is caught. `Level` says exactly that, and that a method can be lost only by an exception
of its own (`lost < throws`). Theorems: `TypeCorrect`, `NotTooLow`.

**Debugger_proofs**, stepping (`DInv == Grounded /\ Dated /\ Stacked /\ Fits /\ Related`, next to the `IInv` above). Stepping compares two
recorded lines, and what is needed is how their depths compare: equal within an activation, larger in what it calls, whatever
happened in between (`Related`). That is about two lines in the past, and a new one has to be compared with each. So `Fits` relates recent lines to
the stack as it is now: a line has the depth that the counter would have if its frame were on top, and one that is not below the depth of a frame which
has recorded nothing since; "recent" means that no exception was thrown and no depth looked up after it. An exception or a lookup leaves none
recent, and all other steps move the counter and the stack together. `Dated` and `Stacked` say in what order frames and
lines came to be, `Grounded` that until the first exception the depth was looked up but once. That every depth between occurs on the stack
(`DepthOccurs`) makes step out and the panel exact. Theorems: `StepOverLeadsOn`, `StepBackLeadsBack`, `StepOutLeadsToCaller`, `FramesShowTheStack`, for stacks of
all depths and all numbers of lines and exceptions. The attempt to prove the first one is what brought up the lookups in the middle of a method.

**Promises_proofs** (`IInv == Now /\ looping \in 0 .. MaxInputs /\ calls \in 0 .. MaxCalls /\ ...`). A promise's life is spread over its state, its
subscribers, the queue, and how far the flush has come in it; every property is about what all of these together still
have to do. The proof reduces them to two sets: `Waiting`, who is still to be told of which promise, and `Decided`, how promises are settled or
are about to be published. `Flushing` says what the flush and its queue look like (one job at most publishes a promise; nobody waits twice),
and only its lemmas look into them. The other four parts are stated with the two sets: `OrderHolds` (who has run and who waits is who was
registered, in that order), `ToldHolds` (what a decided promise was told; who is being followed), `AllHolds` (`remaining` counts the results
that are missing, and each of these has just one who will bring it), `KindsHold` (a promise of `all` is settled by nobody else). A step of the flush
is taken apart the same way as in the code: a subscriber is called (`Begins`), its call does something, the flush moves on (`Returns`).
Theorems: `TypeCorrect`, `SettledAsTold`, `AllHasItsInputs`, `PromisesKeepTheContract`: the safety part of `Implementation`. Its fairness stays with TLC.

**Pages_proofs** and **Ranges_proofs** (`IInv == PageHolds /\ Theirs /\ Leads /\ SelectionIsExact /\ Covering`, and the lengths of `made` and `drawn`). A page is any finite tree, so
what is said of it rests on recursion: `TextNodes`, `ParentsOf` and `PathTo` are functions that call themselves along the tree. The library's theorems of
recursion and induction take operators and cannot be used. Instead `Recursion` shows, for any relation without infinite descent, that the
function defined by it exists and satisfies its equation; inductions are arguments by a smallest counterexample (`Least`). `WellFormed` says that downward
there is no infinite descent; upward there is none either (`UpIsGrounded`).

What a step does to a page is splits, highlights put around texts, and highlights taken out, each repeated by a fold, in whatever order the fold
takes them (`WrapsKeep`, `UnwrapsKeep`). Each keeps the page a tree, what every element reads (`Unchanged`), and where the elements are and in
which order (`Shape`). `Decent` is what that needs of the page: elements are not in highlights and not called like them. `Kept` says
this of a document in which texts were split and highlighted, `Unwrapped` of one from which highlights were taken, and from these two everything else follows.

* `TextIsKept`: elements read as before. `Theirs`: new highlights are nodes that were free, so no annotation has another one's.
* `RangesHold` is not inductive, since it speaks of looking a range up now. `Leads` says instead what a range is (`Held`): the paths of two elements, offsets
  in what these read, and the characters between. Paths depend on `Shape` only (`ShapePaths`), and no two elements have the same (`NodeAtPath`); offsets depend on what an element reads. So `Leads` is kept
  by all steps, and a range that is held is found (`AnchorFinds`). That one just made is held (`SelectHeld`) is where `serialize` comes in: its
  offsets are what `Start`, the number of characters before a text in the page, says (`PartSums`).
* `SelectionIsExact`: `normalize` yields the texts that begin and end with the selection (`SelectFinds`), whether or not both ends are in one text, and `limit` the
  first and last of them in the annotated element (`LimitedIsExact`).
* `HighlightsCover`: what has just been drawn covers its characters (`CoversNew`), a highlight reads the same until it is taken out (`CoversOn`),
  and only its own annotation or `Clear` takes it out (`Theirs`).

Theorems: `PageStays` (the invariant itself), `TextStays`, `HighlightsStayTheirs`, `RangesAreFound`, `SelectionsAreExact`, `HighlightsStayCovering`, for all pages,
selections and numbers of annotations. They assume of `Nodes` that it is finite, which `Room` makes a bound on what is drawn and not on the page. TLC found
the invariant to hold of all states of run `ranges` before it was proved.

**Annotations_proofs** (`IInv == RequestsInv /\ EventsInv /\ OpsInv /\ IndexInv`). `OnlyStoredIsTold` speaks of what is on its way to
a client; what gets there comes from an operation, and that from a request or from the index. So the invariant follows an
annotation's text along this way: whatever the index holds, a search may find or has found, and an event or answer carries is in the history
`was`, which only grows, and requests in the queues are well formed. Theorem: `NothingUnstoredIsTold`, whatever fails or is cut off, whomever `Reach` lets be told, and however far searches lag.

The list of comments and the storage are two sequences that four hooks change in parallel, each in its own way. `ViewInv == TypeOK /\ ListsInv`
relates them by `Shows(list[c], storage[c])`: the list is in order, has the same annotations, and each of its entries is equal to the first
entry of that annotation in the storage. That it is the first is needed, since a storage holds an annotation twice while it takes in what was loaded, and
the hooks find and change the first. Every hook keeps `Shows` (`CreatedShows`, `SetTextShows`, `DropShows`, `LoadedShows`), for all sequences:
`Place` separates earlier and later comments (`PlaceIs`); loading shows one entry after the other, and `ShowsTo` is what holds in between.
`Drop`, `UniqById` and `OfStep` are built from `Chosen`, the entries at certain positions, because the prover cannot look into `SelectSeq`:
`ChosenIs` says that these entries stand as they stood. `TypeOK` is inductive by itself; that a search finds a list rests on
`Ids` being finite. Theorems: `TypeCorrect`, `ListShowsStorage`, `CommentsStandInOrder`.

**Variables_proofs** (`IInv == TypesInv /\ NumbersInv /\ NamesInv /\ DefinitionsInv`). That a class is found under its number
is about classes that are done; it depends on the one that is being transformed. `NumbersInv`: without an overlap that is one, it has
compiled the number that is next into its code and read that before counting up. `NamesInv`: the files have as many entries as
numbers have been used up, and one more from when the class was named. `DefinitionsInv`: nothing is declared under numbers to
come. The last needs that identifiers of different methods differ: `IdentifiersAreUnique` shows it for `szudzikPairing`, by the square in which a pair lies.
Theorems: `NamesAreOfClasses`, `VariablesAreItsOwn`. Running the program changes nothing of this, so they hold of the whole specification.

About the running program (`RunInv == LoadedInv /\ FramesInv /\ KeptInv`, next to the `IInv` above). It takes any programs that satisfy
`Compiled`, of any length, and stacks of any depth. `FramesInv` is about the visitor's view of a frame's place (`Sound`): it got there from the instruction above,
or to a label by a jump; what the code in front of the next label reads is unsaved and therefore stored, has its scope begin here (and then the instruction before was
its first store, `StartsAfterStore`), or is a parameter. A frame that waits for a call has nothing left that must be recorded, so calls and
exceptions cut and extend the stack without any of this changing. `KeptInv` is about what the agent keeps. It belongs to
whichever method is on top: each value is that of the variable now (`IsCurrent`), but in a method that has just begun, which still may have what its caller
left, and but for what is about to be told again. The method's first line settles that: only parameters have a scope there, and these it
has told itself. `IsKept` is the other direction: what was stored in the course of a line is kept, or is about to be told.
Theorems: `ReadsAreOfValues`, `LinesShowTheTruth`, `LinesHaveAssignments`.
For the watches the same is needed the other way round, that nothing is kept: `WatchInv` says of plain programs that the watches
lack just the `News` of the frame on top, which are the variables a store has assigned in front of a line, or the parameters in front of the first one; `LineTakesNews` that a line
takes exactly these. Theorem: `WatchesShowWhatIs`.

Only model-checked: liveness (`ShutdownHalts`, `SettledInTurn`, `ChangesSettle`), and with it the fairness in `Implementation` of `Promises`, which
are out of the prover's reach.

## 5. What is left

Modules still to be written, the most important first. Each gets a type invariant, the properties the
hazards call for, a run and, where its data allow, a proof.

1. `Trackers` and `ReferenceFlow`: the sets of modified fields (by equality first, by identity after the first
   line), what a snapshot says of an object, and the value the web application shows at a step. Abstract
   specification: the heap at each step. To prove: what is shown is the last value written, where order is kept.
2. `ThreadNames`: registration of the listener and early names. In `ClassIndex`: several methods per class, the sources file, and what overlapping
   passes do to the maps that are not concurrent; numbers of 16 bits.
3. The abstract side of `Variables`: each variable has the value it was last assigned, as a specification that programs in which no line goes on
   after a call implement.
4. `SessionLoader`, `Filters`, `EditorSync`: joining by position, the current step under changing filters, the chain of
   editor updates.
5. `SessionUpload`, `Accounts`: concurrent requests to the server.
6. Composition of `Capture` with `LineBuffer` (two files per thread, of which one may be longer than the other when it is read).
7. Proofs: every safety property the passing runs check is a theorem; those of the modules above are to follow with them.

Not modelled, and not planned: forms, settings, rendering and layout of plugin and web application; the JSON form of values (formatting);
bytecode generation itself (each visitor is modelled by the calls it puts in); the demo programs, vendored and generated files. `src/web/src/ext` has copies of annotator.js and of CodeMirror's
clike.js. Of annotator.js the parts above are modelled, which halik depends on (the build takes
the package from a fork, package.json:42); two thirds of the file are jQuery, and most of the rest are
widgets. So the map covers a small part of those files, and most of what it covers is in the Java and CoffeeScript sources.
Times are left out: timestamps are data no property tells apart, and the 30 seconds of awaitTermination are a choice.
