---------------------------- MODULE Annotations ----------------------------
(***************************************************************************)
(* Annotations of a session that several people look at: each one's        *)
(* annotator with its storage and its list of comments, the server that    *)
(* passes on what they do, and the index in which annotations are kept.    *)
(*                                                                         *)
(* Nobody waits for anybody: an annotator shows what its user did before   *)
(* the server has heard of it, the index answers in any order, and what    *)
(* others did is to be sent on when the index has answered.  Whom that     *)
(* reaches is a parameter: the server asks socket.io, at version 1, for    *)
(* something it does not have, which throws, and nobody is told.  An       *)
(* annotation is created in the index with its ranges as a text, which     *)
(* only a query parses again: an event about it has them as a text too.    *)
(***************************************************************************)
EXTENDS Naturals, Sequences, FiniteSets, SequencesExt

CONSTANTS Clients,
          Steps,      \* steps of the session
          Start,      \* per client: the step it begins at
          Reach,      \* whom io.sockets.in(room).broadcast.emit may reach
          MaxMade,    \* bound: annotations made
          MaxActs,    \* bound: changes made: each writes a text of its own
          MaxLooks,   \* bound: moves to another step, editors opened or cancelled, and faults
          MaxFaults   \* bound: connections lost, and operations of the index that fail

ASSUME StepsAssumption  == Steps \subseteq Nat /\ Start \in [Clients -> Steps]
ASSUME ReachAssumption  == Reach # {} /\ Reach \subseteq {"nobody", "others", "all"}
ASSUME BoundsAssumption == {MaxMade, MaxActs, MaxLooks, MaxFaults} \subseteq Nat

VARIABLES here,       \* per client: the step it is at
          editing,    \* per client: the annotation in its editor
          storage,    \* per client: the annotations it knows, as they came
          list,       \* per client: the comments shown, from top to bottom
          requests,   \* per client: messages on their way to the server
          events,     \* per client: messages on their way from the server
          room,       \* the clients whose sockets have joined the session's room
          ops,        \* operations the index has been asked for and has not answered
          index,      \* per annotation: what is stored, or <<>>
          searchable, \* per annotation: what a search finds of it
          made, acts, looks, faults,   \* counters, for the bounds
          was,        \* history: what the index has held
          raced,      \* history: annotations changed while a change was under way, or not stored
          author      \* history: per annotation, who changed it last

client  == <<here, editing, storage, list>>
server  == <<room, ops, index, searchable>>
counts  == <<made, acts, looks, faults>>
history == <<was, raced, author>>
vars    == <<client, requests, events, server, counts, history>>

Ids     == 1 .. MaxMade
Texts   == 1 .. MaxActs
Note    == [id : Ids, text : Texts, step : Steps]
NoEdit  == [kind |-> "none"]
Edits   == {NoEdit} \cup [kind : {"create"}, step : Steps] \cup [kind : {"update"}, note : Note]
Changes == [kind : {"create", "update", "delete"}, note : Note]
Load    == [kind |-> "load"]

TypeOK ==
  /\ here \in [Clients -> Steps] /\ editing \in [Clients -> Edits]
  /\ storage \in [Clients -> Seq(Note)] /\ list \in [Clients -> Seq(Note)]
  /\ requests \in [Clients -> Seq(Changes \cup {Load})]
  /\ events \in [Clients -> Seq(Changes \cup [kind : {"answer"}, notes : Seq(Note)])]
  /\ room \subseteq Clients
  /\ \A op \in ops : op \in [from : Clients, request : Changes \cup {Load}, at : {"asked", "done"}, found : Seq(Note)]
  /\ {index, searchable} \subseteq [Ids -> {<<>>} \cup [text : Texts, step : Steps]]
  /\ made \in 0 .. MaxMade /\ acts \in 0 .. MaxActs

-----------------------------------------------------------------------------
(* The hooks of comments-ui-updater and of the storage, called one after   *)
(* the other by runHook.                                                   *)

KnownIn(s) == {s[i].id : i \in DOMAIN s}
First(s, id) == CHOOSE i \in DOMAIN s : s[i].id = id /\ \A j \in 1 .. i - 1 : s[j].id # id

(* The entries of s at the positions K.                                    *)
Chosen(s, K) == [k \in 1 .. Cardinality(K) |-> s[CHOOSE i \in K : Cardinality({j \in K : j <= i}) = k]]
Drop(s, id)  == Chosen(s, {i \in DOMAIN s : s[i].id # id})
UniqById(s)  == Chosen(s, {i \in DOMAIN s : \A j \in 1 .. i - 1 : s[j].id # s[i].id})
OfStep(s, step) == Chosen(s, {i \in DOMAIN s : s[i].step = step})

(* After the last comment of that step or of an earlier one.               *)
Place(s, n) == LET before == {i \in DOMAIN s : s[i].step <= n.step}
               IN IF before = {} THEN 0 ELSE CHOOSE i \in before : \A j \in before : j <= i
(* Mutant of ShowComment: comments are added at the end.                   *)
ShowCommentLast(s, n) == IF n.id \in KnownIn(s) THEN s ELSE Append(s, n)

ShowComment(s, n) == IF n.id \in KnownIn(s) THEN s ELSE InsertAt(s, Place(s, n) + 1, n)

ShowComments(s, ns) ==
  LET shown[k \in 0 .. Len(ns)] == IF k = 0 THEN s ELSE ShowComment(shown[k - 1], ns[k])
  IN  shown[Len(ns)]

SetText(s, id, text) == IF id \in KnownIn(s) THEN [s EXCEPT ![First(s, id)].text = text] ELSE s

AnnotationCreated(c, n) ==
  /\ list' = [list EXCEPT ![c] = ShowComment(@, n)]
  /\ storage' = [storage EXCEPT ![c] = Append(@, n)]

AnnotationUpdated(c, n) ==
  /\ list' = [list EXCEPT ![c] = SetText(@, n.id, n.text)]
  /\ storage' = [storage EXCEPT ![c] = SetText(@, n.id, n.text)]

AnnotationDeleted(c, id) ==
  /\ list' = [list EXCEPT ![c] = Drop(@, id)]
  /\ storage' = [storage EXCEPT ![c] = Drop(@, id)]

(* Mutant of AnnotationsLoaded: what is loaded takes the place of all that *)
(* was known.                                                              *)
AnnotationsLoadedInstead(c, ns) ==
  /\ list' = [list EXCEPT ![c] = ShowComments(<<>>, ns)]
  /\ storage' = [storage EXCEPT ![c] = UniqById(ns)]

(* Mutant of AnnotationsLoaded: the storage forgets what it had.           *)
AnnotationsLoadedAnew(c, ns) ==
  /\ list' = [list EXCEPT ![c] = ShowComments(@, ns)]
  /\ storage' = [storage EXCEPT ![c] = UniqById(ns)]

AnnotationsLoaded(c, ns) ==
  /\ list' = [list EXCEPT ![c] = ShowComments(@, ns)]
  /\ storage' = [storage EXCEPT ![c] = UniqById(@ \o ns)]

-----------------------------------------------------------------------------
(* What a user does.                                                       *)

Pending(id) ==
  \/ \E c \in Clients : \E i \in DOMAIN requests[c] : requests[c][i] # Load /\ requests[c][i].note.id = id
  \/ \E c \in Clients : \E i \in DOMAIN events[c] : events[c][i].kind # "answer" /\ events[c][i].note.id = id
  \/ \E op \in ops : op.request # Load /\ op.request.note.id = id

(* What is deleted comes back with annotations that were asked for before. *)
Loading(c) ==
  \/ \E i \in DOMAIN requests[c] : requests[c][i] = Load
  \/ \E op \in ops : op.from = c /\ op.request = Load
  \/ \E i \in DOMAIN events[c] : events[c][i].kind = "answer"
Reloading(c, kind) == kind = "delete" /\ Loading(c)

Emit(c, kind, n) ==
  /\ requests' = [requests EXCEPT ![c] = Append(@, [kind |-> kind, note |-> n])]
  /\ acts' = acts + 1
  /\ raced' = IF Pending(n.id) \/ Reloading(c, kind) THEN raced \cup {n.id} ELSE raced
  /\ author' = [author EXCEPT ![n.id] = {c}]

Look  == looks + faults < MaxLooks /\ looks' = looks + 1
Fault == faults < MaxFaults /\ looks + faults < MaxLooks /\ faults' = faults + 1

(* The Annotate button: a new annotation goes into the editor, and takes   *)
(* the place of one that was there and is never heard of again.            *)
Annotate(c) ==
  /\ acts < MaxActs /\ made < MaxMade /\ Look
  /\ editing' = [editing EXCEPT ![c] = [kind |-> "create", step |-> here[c]]]
  /\ UNCHANGED <<here, storage, list, requests, events, server, made, acts, faults, history>>

(* Edit in the viewer, of an annotation that is drawn in the page.         *)
Edit(c) ==
  /\ acts < MaxActs /\ Look
  /\ \E i \in DOMAIN storage[c] :
       /\ storage[c][i].step = here[c]
       /\ editing' = [editing EXCEPT ![c] = [kind |-> "update", note |-> storage[c][i]]]
  /\ UNCHANGED <<here, storage, list, requests, events, server, made, acts, faults, history>>

Cancel(c) ==
  /\ editing[c] # NoEdit /\ Look
  /\ editing' = [editing EXCEPT ![c] = NoEdit]
  /\ UNCHANGED <<here, storage, list, requests, events, server, made, acts, faults, history>>

SaveNew(c) ==
  LET n == [id |-> made + 1, text |-> acts + 1, step |-> editing[c].step]
  IN /\ editing[c].kind = "create" /\ acts < MaxActs /\ made < MaxMade
     /\ editing' = [editing EXCEPT ![c] = NoEdit]
     /\ made' = made + 1
     /\ Emit(c, "create", n)
     /\ AnnotationCreated(c, n)
     /\ UNCHANGED <<here, events, server, looks, faults, was>>

(* If the annotation has been deleted the storage's hook throws, when the  *)
(* request has been sent.                                                  *)
SaveEdited(c) ==
  LET n == [editing[c].note EXCEPT !.text = acts + 1]
  IN /\ editing[c].kind = "update" /\ acts < MaxActs
     /\ editing' = [editing EXCEPT ![c] = NoEdit]
     /\ Emit(c, "update", n)
     /\ AnnotationUpdated(c, n)
     /\ UNCHANGED <<here, events, server, made, looks, faults, was>>

Delete(c) ==
  /\ acts < MaxActs
  /\ \E i \in DOMAIN storage[c] :
       /\ storage[c][i].step = here[c]
       /\ Emit(c, "delete", storage[c][i])
       /\ AnnotationDeleted(c, storage[c][i].id)
  /\ UNCHANGED <<here, editing, events, server, made, looks, faults, was>>

(* onNewStep: what the storage has for the step is loaded from it again.   *)
MoveTo(c, s) ==
  /\ s # here[c] /\ Look
  /\ here' = [here EXCEPT ![c] = s]
  /\ AnnotationsLoaded(c, OfStep(storage[c], s))
  /\ UNCHANGED <<editing, requests, events, server, made, acts, faults, history>>

-----------------------------------------------------------------------------
(* What comes from the server.                                             *)

(* A hook that throws keeps the others from being called: the highlighter, *)
(* which comes first, for ranges that are a text, and what looks for an    *)
(* annotation that is not there.                                           *)
Throws(c, e) == \/ e.kind = "create"
                \/ e.kind \in {"update", "delete"} /\ e.note.id \notin KnownIn(storage[c])

Handled(c, e) ==
  \/ e.kind = "answer" /\ AnnotationsLoaded(c, e.notes)
  \/ Throws(c, e) /\ UNCHANGED <<storage, list>>
  \/ e.kind = "update" /\ ~ Throws(c, e) /\ AnnotationUpdated(c, e.note)
  \/ e.kind = "delete" /\ ~ Throws(c, e) /\ AnnotationDeleted(c, e.note.id)

Hear(c) ==
  /\ events[c] # <<>>
  /\ Handled(c, Head(events[c]))
  /\ events' = [events EXCEPT ![c] = Tail(@)]
  /\ UNCHANGED <<here, editing, requests, server, counts, history>>

-----------------------------------------------------------------------------
(* The server and the index.                                               *)

Serve(c) ==
  LET r == Head(requests[c])
  IN /\ requests[c] # <<>>
     /\ requests' = [requests EXCEPT ![c] = Tail(@)]
     /\ room' = IF r = Load THEN room \cup {c} ELSE room
     /\ ops' = ops \cup {[from |-> c, request |-> r, at |-> "asked", found |-> <<>>]}
     /\ UNCHANGED <<client, events, index, searchable, counts, history>>

Stored == {[id |-> i, text |-> searchable[i].text, step |-> searchable[i].step] : i \in {j \in Ids : searchable[j] # <<>>}}

(* Searches lag behind: no change asks the index to refresh what they see. *)
Refresh(i) ==
  /\ searchable[i] # index[i]
  /\ searchable' = [searchable EXCEPT ![i] = index[i]]
  /\ UNCHANGED <<client, requests, events, room, ops, index, counts, history>>

(* What a search finds comes in any order.                                 *)
Found(set) == {ns \in [1 .. Cardinality(set) -> set] : \A i, j \in DOMAIN ns : i # j => ns[i] # ns[j]}

Search(op) ==
  /\ op.at = "asked" /\ op.request = Load
  /\ \E ns \in Found(Stored) : ops' = (ops \ {op}) \cup {[from |-> op.from, request |-> Load, at |-> "done", found |-> ns]}
  /\ UNCHANGED <<client, requests, events, room, index, searchable, counts, history>>

(* Mutant of Perform: what is not there is made from what is written.      *)
PerformAnyway(op) ==
  LET r == op.request
      n == r.note
  IN /\ op.at = "asked" /\ r # Load
     /\ ops' = (ops \ {op}) \cup {[op EXCEPT !.at = "done"]}
     /\ index' = [index EXCEPT ![n.id] =
                    CASE r.kind = "create" -> [text |-> n.text, step |-> n.step]
                      [] r.kind = "update" -> [text |-> n.text]
                      [] r.kind = "delete" -> <<>>]
     /\ was' = IF r.kind = "delete" THEN was ELSE was \cup {<<n.id, n.text>>}
     /\ UNCHANGED <<client, requests, events, room, searchable, counts, raced, author>>

(* The index does what it was asked; a change of what is not there fails.  *)
Perform(op) ==
  LET r == op.request
      n == r.note
  IN /\ op.at = "asked" /\ r # Load
     /\ r.kind \in {"update", "delete"} => index[n.id] # <<>>
     /\ ops' = (ops \ {op}) \cup {[op EXCEPT !.at = "done"]}
     /\ index' = [index EXCEPT ![n.id] =
                    CASE r.kind = "create" -> [text |-> n.text, step |-> n.step]
                      [] r.kind = "update" -> [@ EXCEPT !.text = n.text]
                      [] r.kind = "delete" -> <<>>]
     /\ was' = IF r.kind = "delete" THEN was ELSE was \cup {<<n.id, n.text>>}
     /\ UNCHANGED <<client, requests, events, room, searchable, counts, raced, author>>

(* A namespace of socket.io has no broadcast: .emit of undefined throws,   *)
(* and nobody is told.  The others were meant, and all would be reached    *)
(* without it; what the clients do then is checked as well.                *)
Audience(op, reach) ==
  CASE reach = "nobody" -> {} [] reach = "others" -> room \ {op.from} [] reach = "all" -> room

Send(to, message) == events' = [c \in Clients |-> IF c \in to THEN Append(events[c], message) ELSE events[c]]

(* Mutant of Answer: others are told when the index has been asked.        *)
AnswerEarly(op) ==
  /\ op.at = "done" \/ op.request # Load
  /\ ops' = ops \ {op}
  /\ \/ op.request = Load /\ Send({op.from} \cap room, [kind |-> "answer", notes |-> op.found])
     \/ op.request # Load /\ \E reach \in Reach : Send(Audience(op, reach), op.request)
  /\ UNCHANGED <<client, requests, room, index, searchable, counts, history>>

Answer(op) ==
  /\ op.at = "done"
  /\ ops' = ops \ {op}
  /\ \/ op.request = Load /\ Send({op.from} \cap room, [kind |-> "answer", notes |-> op.found])
     \/ op.request # Load /\ \E reach \in Reach : Send(Audience(op, reach), op.request)
  /\ UNCHANGED <<client, requests, room, index, searchable, counts, history>>

(* An error is written to the server's log, and that is all.               *)
Fail(op) ==
  /\ op.at = "asked"
  /\ IF op.request.kind \in {"update", "delete"} /\ index[op.request.note.id] = <<>> THEN UNCHANGED faults
     ELSE Fault
  /\ ops' = ops \ {op}
  /\ raced' = IF op.request = Load THEN raced ELSE raced \cup {op.request.note.id}
  /\ UNCHANGED <<client, requests, events, room, index, searchable, made, acts, looks, was, author>>

(* A connection is lost with all that is on it. It comes back, but as a    *)
(* socket that has joined no room.                                         *)
Disconnect(c) ==
  /\ c \in room /\ Fault
  /\ requests' = [requests EXCEPT ![c] = <<>>]
  /\ events' = [events EXCEPT ![c] = <<>>]
  /\ room' = room \ {c}
  /\ raced' = raced \cup {i \in Ids : \E k \in DOMAIN requests[c] : requests[c][k] # Load /\ requests[c][k].note.id = i}
  /\ UNCHANGED <<client, ops, index, searchable, made, acts, looks, was, author>>

-----------------------------------------------------------------------------
Init ==
  /\ here = Start /\ editing = [c \in Clients |-> NoEdit]
  /\ storage = [c \in Clients |-> <<>>] /\ list = [c \in Clients |-> <<>>]
  /\ requests = [c \in Clients |-> <<Load>>] /\ events = [c \in Clients |-> <<>>]
  /\ room = {} /\ ops = {} /\ index = [i \in Ids |-> <<>>] /\ searchable = [i \in Ids |-> <<>>]
  /\ made = 0 /\ acts = 0 /\ looks = 0 /\ faults = 0
  /\ was = {} /\ raced = {} /\ author = [i \in Ids |-> {}]

User(c) == Annotate(c) \/ Edit(c) \/ Cancel(c) \/ SaveNew(c) \/ SaveEdited(c) \/ Delete(c) \/ \E s \in Steps : MoveTo(c, s)
Next ==
  \/ \E c \in Clients : User(c) \/ Hear(c) \/ Serve(c) \/ Disconnect(c)
  \/ \E op \in ops : Search(op) \/ Perform(op) \/ Answer(op) \/ Fail(op)
  \/ \E i \in Ids : Refresh(i)

Spec == Init /\ [][Next]_vars

(* Messages arrive and the index answers; nobody need do anything more.    *)
Fairness == /\ \A c \in Clients : WF_vars(Hear(c)) /\ WF_vars(Serve(c))
            /\ WF_vars(\E op \in ops : Search(op) \/ Perform(op) \/ Answer(op) \/ Fail(op))
FairSpec == Spec /\ Fairness

-----------------------------------------------------------------------------
(* What is listed is what the storage has, as its first entry has it,      *)
(* whichever hooks throw: so a comment can be found by the next event.     *)
ListIsStorage ==
  \A c \in Clients :
    /\ KnownIn(list[c]) = KnownIn(storage[c])
    /\ \A i \in DOMAIN list[c] : storage[c][First(storage[c], list[c][i].id)] = list[c][i]

(* Comments stand in the order of the steps they are about, and each is    *)
(* there once, in whatever order they come and from wherever.              *)
CommentsInOrder ==
  \A c \in Clients : \A i, j \in DOMAIN list[c] :
    i < j => list[c][i].step <= list[c][j].step /\ list[c][i].id # list[c][j].id

(* Nobody is told of a change that was not stored.                         *)
OnlyStoredIsTold ==
  \A c \in Clients : \A k \in DOMAIN events[c] :
    /\ events[c][k].kind \in {"create", "update"} => <<events[c][k].note.id, events[c][k].note.text>> \in was
    /\ events[c][k].kind = "answer" => \A i \in DOMAIN events[c][k].notes : <<events[c][k].notes[i].id, events[c][k].notes[i].text>> \in was

(* In the end whoever changed an annotation last sees of it what is stored *)
(* -- the text, or that it is gone -- though searches lag and the answer   *)
(* to load may bring an earlier state: unless a change of it was made      *)
(* before another was performed and told, failed or was lost with its      *)
(* connection, or it was deleted while the annotations were being loaded.  *)
Shown(c, i) == IF i \in KnownIn(list[c]) THEN LET n == list[c][First(list[c], i)] IN [text |-> n.text, step |-> n.step] ELSE <<>>
AuthorsSeeStored == \A i \in Ids \ raced : \A c \in author[i] : Shown(c, i) = index[i]
ChangesSettle == <>[]AuthorsSeeStored
=============================================================================
