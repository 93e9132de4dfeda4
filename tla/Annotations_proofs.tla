------------------------- MODULE Annotations_proofs -------------------------
(***************************************************************************)
(* Whoever makes changes, however the index orders them, whatever fails    *)
(* and whoever is cut off: nobody is told of what was not stored, and what *)
(* each one's list of comments shows is what its storage has, in order.    *)
(***************************************************************************)
EXTENDS Annotations, TLAPS, SequenceTheorems, FiniteSetTheorems, NaturalsInduction, WellFoundedInduction

(* What has been stored is never taken from the history.                   *)
StoredNote(w, n) == <<n.id, n.text>> \in w
StoredNotes(w, ns) == \A i \in DOMAIN ns : StoredNote(w, ns[i])

(* A message to a client, as OnlyStoredIsTold has it.                      *)
Told(w, e) == /\ e.kind \in {"create", "update"} => StoredNote(w, e.note)
              /\ e.kind = "answer" => StoredNotes(w, e.notes)

Change(r) == r = [kind |-> r.kind, note |-> r.note] /\ r.kind \in {"create", "update", "delete"}
Request(r) == r = Load \/ Change(r)
Op(op) == /\ op = [from |-> op.from, request |-> op.request, at |-> op.at, found |-> op.found]
          /\ Request(op.request)
          /\ op.at \in {"asked", "done"}
Done(w, op) == op.at = "done" => /\ Told(w, op.request)
                                 /\ op.request = Load => StoredNotes(w, op.found)
Entry(w, i, x) == x # <<>> => x = [text |-> x.text, step |-> x.step] /\ <<i, x.text>> \in w

RequestsInv == /\ \E S : requests \in [Clients -> Seq(S)]
               /\ \A c \in Clients : \A k \in DOMAIN requests[c] : Request(requests[c][k])
EventsInv == /\ \E S : events \in [Clients -> Seq(S)]
             /\ \A c \in Clients : \A k \in DOMAIN events[c] : Told(was, events[c][k])
OpsInv == \A op \in ops : Op(op) /\ Done(was, op)
IndexInv == /\ index = [i \in Ids |-> index[i]] /\ searchable = [i \in Ids |-> searchable[i]]
            /\ \A i \in Ids : Entry(was, i, index[i]) /\ Entry(was, i, searchable[i])
IInv == RequestsInv /\ EventsInv /\ OpsInv /\ IndexInv

-----------------------------------------------------------------------------
LEMMA ToldStays == ASSUME NEW v, NEW w, v \subseteq w, NEW e, Told(v, e) PROVE Told(w, e)
  BY DEF Told, StoredNotes, StoredNote

LEMMA DoneStays == ASSUME NEW v, NEW w, v \subseteq w, NEW op, Done(v, op) PROVE Done(w, op)
  BY ToldStays DEF Done, StoredNotes, StoredNote

LEMMA EntryStays == ASSUME NEW v, NEW w, v \subseteq w, NEW i, NEW x, Entry(v, i, x) PROVE Entry(w, i, x)
  BY DEF Entry

(* Queues: what is true of all elements stays true of all when one is      *)
(* added for which it is, or the first is taken.                           *)
LEMMA Appended ==
  ASSUME NEW S, NEW s \in Seq(S), NEW x
  PROVE  /\ Append(s, x) \in Seq(S \cup {x})
         /\ \A k \in DOMAIN Append(s, x) : (k \in DOMAIN s /\ Append(s, x)[k] = s[k]) \/ Append(s, x)[k] = x
  <1>1. s \in Seq(S \cup {x}) OBVIOUS
  <1>2. Append(s, x) \in Seq(S \cup {x}) BY <1>1, AppendProperties
  <1>3. ASSUME NEW k \in DOMAIN Append(s, x)
        PROVE  (k \in DOMAIN s /\ Append(s, x)[k] = s[k]) \/ Append(s, x)[k] = x
    BY <1>1, <1>3, AppendProperties
  <1> QED BY <1>2, <1>3

LEMMA Shortened ==
  ASSUME NEW S, NEW s \in Seq(S), s # <<>>
  PROVE  /\ Tail(s) \in Seq(S)
         /\ \A k \in DOMAIN Tail(s) : k + 1 \in DOMAIN s /\ Tail(s)[k] = s[k + 1]
  BY HeadTailProperties

-----------------------------------------------------------------------------
LEMMA Begins == Init => IInv
  <1> SUFFICES ASSUME Init PROVE IInv OBVIOUS
  <1>1. RequestsInv
    <2>1. requests \in [Clients -> Seq({Load})] BY DEF Init
    <2>2. ASSUME NEW c \in Clients, NEW k \in DOMAIN requests[c] PROVE requests[c][k] = Load
      BY <2>2 DEF Init
    <2> QED BY <2>1, <2>2 DEF RequestsInv, Request
  <1>2. EventsInv
    <2>1. events \in [Clients -> Seq({})] BY DEF Init
    <2> QED BY <2>1 DEF Init, EventsInv
  <1>3. OpsInv BY DEF Init, OpsInv
  <1>4. IndexInv BY DEF Init, IndexInv, Entry
  <1> QED BY <1>1, <1>2, <1>3, <1>4 DEF IInv

(* A client asks: a change is put behind its requests.                     *)
LEMMA EmitAsks ==
  ASSUME RequestsInv, NEW c \in Clients, NEW kind \in {"create", "update", "delete"}, NEW n, Emit(c, kind, n)
  PROVE  RequestsInv'
  <1> DEFINE r == [kind |-> kind, note |-> n]
  <1>1. PICK S : requests \in [Clients -> Seq(S)] BY DEF RequestsInv
  <1>2. requests' = [requests EXCEPT ![c] = Append(@, r)] BY DEF Emit
  <1>3. Request(r) BY DEF Request, Change
  <1>4. \A d \in Clients : requests[d] \in Seq(S \cup {r}) BY <1>1
  <1>5. Append(requests[c], r) \in Seq(S \cup {r}) BY <1>1, Appended
  <1>6. requests' \in [Clients -> Seq(S \cup {r})] BY <1>1, <1>2, <1>4, <1>5
  <1>7. ASSUME NEW d \in Clients, NEW k \in DOMAIN requests'[d] PROVE Request(requests'[d][k])
    <2>1. CASE d = c
      <3>1. requests'[d] = Append(requests[c], r) BY <1>1, <1>2, <2>1
      <3> HIDE DEF r
      <3>2. (k \in DOMAIN requests[c] /\ requests'[d][k] = requests[c][k]) \/ requests'[d][k] = r
        BY <1>1, <1>7, <3>1, Appended
      <3> QED BY <3>2, <1>3 DEF RequestsInv
    <2>2. CASE d # c
      <3>1. requests'[d] = requests[d] BY <1>1, <1>2, <2>2
      <3> QED BY <3>1, <1>7 DEF RequestsInv
    <2> QED BY <2>1, <2>2
  <1> QED BY <1>6, <1>7 DEF RequestsInv

(* What users do touches neither the index nor what others are told.       *)
LEMMA UserKeeps ==
  ASSUME IInv, NEW c \in Clients, User(c)
  PROVE  IInv'
  <1> DEFINE rest == <<events, ops, index, searchable, was>>
  <1>1. ASSUME UNCHANGED rest PROVE EventsInv' /\ OpsInv' /\ IndexInv'
    BY <1>1 DEF IInv, EventsInv, OpsInv, IndexInv
  <1>2. ASSUME UNCHANGED requests PROVE RequestsInv'
    BY <1>2 DEF IInv, RequestsInv
  <1>3. CASE Annotate(c) \/ Edit(c) \/ Cancel(c) \/ \E s \in Steps : MoveTo(c, s)
    <2>1. UNCHANGED rest /\ UNCHANGED requests
      BY <1>3 DEF Annotate, Edit, Cancel, MoveTo, server, history, vars
    <2> QED BY <2>1, <1>1, <1>2 DEF IInv
  <1>4. CASE SaveNew(c) \/ SaveEdited(c) \/ Delete(c)
    <2>1. UNCHANGED rest BY <1>4 DEF SaveNew, SaveEdited, Delete, server
    <2>2. \E kind \in {"create", "update", "delete"} : \E n : Emit(c, kind, n)
      BY <1>4 DEF SaveNew, SaveEdited, Delete
    <2> QED BY <2>1, <2>2, <1>1, EmitAsks DEF IInv
  <1> QED BY <1>3, <1>4 DEF User

LEMMA HearKeeps ==
  ASSUME IInv, NEW c \in Clients, Hear(c)
  PROVE  IInv'
  <1>1. UNCHANGED <<requests, ops, index, searchable, was>> BY DEF Hear, server, history
  <1>2. RequestsInv' /\ OpsInv' /\ IndexInv' BY <1>1 DEF IInv, RequestsInv, OpsInv, IndexInv
  <1>3. PICK S : events \in [Clients -> Seq(S)] BY DEF IInv, EventsInv
  <1>4. events' = [events EXCEPT ![c] = Tail(@)] /\ events[c] # <<>> BY DEF Hear
  <1>5. Tail(events[c]) \in Seq(S) BY <1>3, <1>4, Shortened
  <1>6. events' \in [Clients -> Seq(S)] BY <1>3, <1>4, <1>5
  <1>7. ASSUME NEW d \in Clients, NEW k \in DOMAIN events'[d] PROVE Told(was, events'[d][k])
    <2>1. CASE d = c
      <3>1. events'[d] = Tail(events[c]) BY <1>3, <1>4, <2>1
      <3>2. k + 1 \in DOMAIN events[c] /\ events'[d][k] = events[c][k + 1]
        BY <1>3, <1>4, <1>7, <3>1, Shortened
      <3> QED BY <3>2 DEF IInv, EventsInv
    <2>2. CASE d # c
      <3>1. events'[d] = events[d] BY <1>3, <1>4, <2>2
      <3> QED BY <3>1, <1>7 DEF IInv, EventsInv
    <2> QED BY <2>1, <2>2
  <1> QED BY <1>1, <1>2, <1>6, <1>7 DEF IInv, EventsInv

LEMMA ServeKeeps ==
  ASSUME IInv, NEW c \in Clients, Serve(c)
  PROVE  IInv'
  <1> DEFINE r  == Head(requests[c])
             op == [from |-> c, request |-> r, at |-> "asked", found |-> <<>>]
  <1>1. UNCHANGED <<events, index, searchable, was>> BY DEF Serve, history
  <1>2. EventsInv' /\ IndexInv' BY <1>1 DEF IInv, EventsInv, IndexInv
  <1>3. PICK S : requests \in [Clients -> Seq(S)] BY DEF IInv, RequestsInv
  <1>4. requests' = [requests EXCEPT ![c] = Tail(@)] /\ requests[c] # <<>> BY DEF Serve
  <1>5. Tail(requests[c]) \in Seq(S) BY <1>3, <1>4, Shortened
  <1>6. requests' \in [Clients -> Seq(S)] BY <1>3, <1>4, <1>5
  <1>7. ASSUME NEW d \in Clients, NEW k \in DOMAIN requests'[d] PROVE Request(requests'[d][k])
    <2>1. CASE d = c
      <3>1. requests'[d] = Tail(requests[c]) BY <1>3, <1>4, <2>1
      <3>2. k + 1 \in DOMAIN requests[c] /\ requests'[d][k] = requests[c][k + 1]
        BY <1>3, <1>4, <1>7, <3>1, Shortened
      <3> QED BY <3>2 DEF IInv, RequestsInv
    <2>2. CASE d # c
      <3>1. requests'[d] = requests[d] BY <1>3, <1>4, <2>2
      <3> QED BY <3>1, <1>7 DEF IInv, RequestsInv
    <2> QED BY <2>1, <2>2
  <1>8. Request(r)
    <2>1. 1 \in DOMAIN requests[c] /\ r = requests[c][1] BY <1>3, <1>4, HeadTailProperties
    <2> QED BY <2>1 DEF IInv, RequestsInv
  <1>9. Op(op) /\ Done(was, op) BY <1>8 DEF Op, Done
  <1>10. OpsInv'
    <2>1. ops' = ops \cup {op} BY DEF Serve
    <2> QED BY <2>1, <1>1, <1>9 DEF IInv, OpsInv
  <1> QED BY <1>2, <1>6, <1>7, <1>10 DEF IInv, RequestsInv

LEMMA DisconnectKeeps ==
  ASSUME IInv, NEW c \in Clients, Disconnect(c)
  PROVE  IInv'
  <1>1. UNCHANGED <<ops, index, searchable, was>> BY DEF Disconnect
  <1>2. OpsInv' /\ IndexInv' BY <1>1 DEF IInv, OpsInv, IndexInv
  <1>3. requests' = [requests EXCEPT ![c] = <<>>] /\ events' = [events EXCEPT ![c] = <<>>] BY DEF Disconnect
  <1>4. PICK S : requests \in [Clients -> Seq(S)] BY DEF IInv, RequestsInv
  <1>5. PICK T : events \in [Clients -> Seq(T)] BY DEF IInv, EventsInv
  <1>6. requests' \in [Clients -> Seq(S)] /\ events' \in [Clients -> Seq(T)] BY <1>3, <1>4, <1>5
  <1>7. ASSUME NEW d \in Clients
        PROVE  /\ requests'[d] = requests[d] \/ requests'[d] = <<>>
               /\ events'[d] = events[d] \/ events'[d] = <<>>
    BY <1>3, <1>4, <1>5
  <1>8. ASSUME NEW d \in Clients, NEW k \in DOMAIN requests'[d] PROVE Request(requests'[d][k])
    BY <1>7, <1>8 DEF IInv, RequestsInv
  <1>9. ASSUME NEW d \in Clients, NEW k \in DOMAIN events'[d] PROVE Told(was, events'[d][k])
    BY <1>7, <1>9 DEF IInv, EventsInv
  <1> QED BY <1>1, <1>2, <1>6, <1>8, <1>9 DEF IInv, RequestsInv, EventsInv

(* What a search finds is, or has been, in the index.                      *)
LEMMA FoundIsStored ==
  ASSUME IndexInv, NEW ns \in Found(Stored)
  PROVE  StoredNotes(was, ns)
  <1> SUFFICES ASSUME NEW k \in DOMAIN ns PROVE StoredNote(was, ns[k]) BY DEF StoredNotes
  <1>1. ns[k] \in Stored BY DEF Found
  <1>2. PICK i \in Ids : searchable[i] # <<>> /\ ns[k] = [id |-> i, text |-> searchable[i].text, step |-> searchable[i].step]
    BY <1>1 DEF Stored
  <1>3. <<i, searchable[i].text>> \in was BY <1>2 DEF IndexInv, Entry
  <1> QED BY <1>2, <1>3 DEF StoredNote

LEMMA SearchKeeps ==
  ASSUME IInv, NEW op \in ops, Search(op)
  PROVE  IInv'
  <1>1. UNCHANGED <<requests, events, index, searchable, was>> BY DEF Search, history
  <1>2. RequestsInv' /\ EventsInv' /\ IndexInv' BY <1>1 DEF IInv, RequestsInv, EventsInv, IndexInv
  <1> DEFINE done(ns) == [from |-> op.from, request |-> Load, at |-> "done", found |-> ns]
  <1>3. PICK ns \in Found(Stored) : ops' = (ops \ {op}) \cup {done(ns)} BY DEF Search
  <1>4. StoredNotes(was, ns) BY FoundIsStored DEF IInv
  <1>5. Told(was, Load) BY DEF Told, Load
  <1>6. Op(done(ns)) /\ Done(was, done(ns)) BY <1>4, <1>5 DEF Op, Done, Request
  <1> HIDE DEF done
  <1>7. OpsInv' BY <1>1, <1>3, <1>6 DEF IInv, OpsInv
  <1> QED BY <1>2, <1>7 DEF IInv

LEMMA RefreshKeeps ==
  ASSUME IInv, NEW i \in Ids, Refresh(i)
  PROVE  IInv'
  <1>1. UNCHANGED <<requests, events, ops, index, was>> BY DEF Refresh, history
  <1>2. RequestsInv' /\ EventsInv' /\ OpsInv' BY <1>1 DEF IInv, RequestsInv, EventsInv, OpsInv
  <1>3. searchable' = [searchable EXCEPT ![i] = index[i]] BY DEF Refresh
  <1>4. searchable' = [j \in Ids |-> IF j = i THEN index[i] ELSE searchable[j]] BY <1>3 DEF IInv, IndexInv
  <1>5. searchable' = [j \in Ids |-> searchable'[j]] BY <1>4
  <1>6. ASSUME NEW j \in Ids PROVE Entry(was, j, searchable'[j]) BY <1>4 DEF IInv, IndexInv
  <1>7. IndexInv' BY <1>1, <1>5, <1>6 DEF IInv, IndexInv
  <1> QED BY <1>2, <1>7 DEF IInv

LEMMA PerformKeeps ==
  ASSUME IInv, NEW op \in ops, Perform(op)
  PROVE  IInv'
  <1> DEFINE r == op.request
             n == r.note
             o == [op EXCEPT !.at = "done"]
  <1>1. UNCHANGED <<requests, events>> BY DEF Perform
  <1>2. Op(op) /\ Change(r) BY DEF IInv, OpsInv, Op, Request, Perform
  <1>3. was \subseteq was' BY DEF Perform
  <1>4. r.kind # "delete" => <<n.id, n.text>> \in was' BY DEF Perform
  <1>5. RequestsInv' BY <1>1 DEF IInv, RequestsInv
  <1>6. EventsInv'
    <2>1. \E S : events' \in [Clients -> Seq(S)] BY <1>1 DEF IInv, EventsInv
    <2>2. ASSUME NEW c \in Clients, NEW k \in DOMAIN events'[c] PROVE Told(was', events'[c][k])
      BY <1>1, <1>3, <2>2, ToldStays DEF IInv, EventsInv
    <2> QED BY <2>1, <2>2 DEF EventsInv
  <1>7. OpsInv'
    <2>1. o = [from |-> op.from, request |-> r, at |-> "done", found |-> op.found] BY <1>2 DEF Op
    <2>2. Told(was', r) BY <1>2, <1>4 DEF Told, Change, StoredNote
    <2>3. r # Load BY DEF Perform
    <2>4. Op(o) /\ Done(was', o) BY <1>2, <2>1, <2>2, <2>3 DEF Op, Done
    <2>5. ops' = (ops \ {op}) \cup {o} BY DEF Perform
    <2>6. ASSUME NEW p \in ops PROVE Op(p) /\ Done(was', p) BY <1>3, DoneStays DEF IInv, OpsInv
    <2> QED BY <2>4, <2>5, <2>6 DEF OpsInv
  <1>8. IndexInv'
    <2>1. PICK x : /\ index' = [index EXCEPT ![n.id] = x]
                   /\ r.kind = "create" => x = [text |-> n.text, step |-> n.step]
                   /\ r.kind = "update" => x = [index[n.id] EXCEPT !.text = n.text]
                   /\ r.kind = "delete" => x = <<>>
      BY <1>2 DEF Perform, Change
    <2>2. n.id \in Ids => Entry(was', n.id, x)
      <3>1. CASE r.kind = "create" BY <1>4, <2>1, <3>1 DEF Entry
      <3>2. CASE r.kind = "update"
        <4> SUFFICES ASSUME n.id \in Ids PROVE Entry(was', n.id, x) OBVIOUS
        <4>1. index[n.id] # <<>> BY <3>2 DEF Perform
        <4>2. index[n.id] = [text |-> index[n.id].text, step |-> index[n.id].step]
          BY <4>1 DEF IInv, IndexInv, Entry
        <4>3. x = [text |-> n.text, step |-> index[n.id].step] BY <2>1, <3>2, <4>2
        <4> QED BY <1>4, <3>2, <4>3 DEF Entry
      <3>3. CASE r.kind = "delete" BY <2>1, <3>3 DEF Entry
      <3> QED BY <1>2, <3>1, <3>2, <3>3 DEF Change
    <2>3. index = [i \in Ids |-> index[i]] BY DEF IInv, IndexInv
    <2>4. index' = [i \in Ids |-> IF i = n.id THEN x ELSE index[i]] BY <2>1, <2>3
    <2>5. ASSUME NEW i \in Ids PROVE Entry(was', i, index'[i]) /\ Entry(was', i, searchable[i])
      <3>1. Entry(was', i, index[i]) /\ Entry(was', i, searchable[i]) BY <1>3, EntryStays DEF IInv, IndexInv
      <3> QED BY <2>2, <2>4, <3>1
    <2>6. index' = [i \in Ids |-> index'[i]] BY <2>4
    <2>7. searchable' = searchable BY DEF Perform
    <2>8. searchable = [i \in Ids |-> searchable[i]] BY DEF IInv, IndexInv
    <2> QED BY <2>5, <2>6, <2>7, <2>8 DEF IndexInv
  <1> QED BY <1>5, <1>6, <1>7, <1>8 DEF IInv

(* Everyone is sent nothing, or one message that tells of what is stored.  *)
LEMMA SendingKeeps ==
  ASSUME EventsInv, NEW e, Told(was, e), NEW to, was' = was,
         Send(to, e)
  PROVE  EventsInv'
  <1>0. events' = [c \in Clients |-> IF c \in to THEN Append(events[c], e) ELSE events[c]] BY DEF Send
  <1>1. PICK S : events \in [Clients -> Seq(S)] BY DEF EventsInv
  <1>2. ASSUME NEW c \in Clients PROVE events'[c] \in Seq(S \cup {e})
    <2>1. events[c] \in Seq(S) /\ events[c] \in Seq(S \cup {e}) BY <1>1
    <2>2. Append(events[c], e) \in Seq(S \cup {e}) BY <2>1, Appended
    <2> QED BY <1>0, <2>1, <2>2
  <1>3. events' \in [Clients -> Seq(S \cup {e})] BY <1>0, <1>2
  <1>4. ASSUME NEW c \in Clients, NEW k \in DOMAIN events'[c] PROVE Told(was, events'[c][k])
    <2>1. CASE c \in to
      <3>1. events'[c] = Append(events[c], e) BY <1>0, <2>1
      <3>2. (k \in DOMAIN events[c] /\ events'[c][k] = events[c][k]) \/ events'[c][k] = e
        BY <1>1, <1>4, <3>1, Appended
      <3> QED BY <3>2 DEF EventsInv
    <2>2. CASE c \notin to
      <3>1. events'[c] = events[c] BY <1>0, <2>2
      <3> QED BY <3>1, <1>4 DEF EventsInv
    <2> QED BY <2>1, <2>2
  <1> QED BY <1>3, <1>4 DEF EventsInv

LEMMA AnswerKeeps ==
  ASSUME IInv, NEW op \in ops, Answer(op)
  PROVE  IInv'
  <1>1. UNCHANGED <<requests, index, searchable, was>> BY DEF Answer, history
  <1>2. RequestsInv' /\ IndexInv' BY <1>1 DEF IInv, RequestsInv, IndexInv
  <1>3. OpsInv' BY <1>1 DEF Answer, IInv, OpsInv
  <1>4. Op(op) /\ Done(was, op) /\ op.at = "done" BY DEF IInv, OpsInv, Answer
  <1>5. CASE op.request = Load
    <2> DEFINE e == [kind |-> "answer", notes |-> op.found]
    <2>1. Told(was, e) BY <1>4, <1>5 DEF Done, Told
    <2>2. Send({op.from} \cap room, e) BY <1>5 DEF Answer
    <2> HIDE DEF e
    <2>3. EventsInv' BY <1>1, <2>1, <2>2, SendingKeeps DEF IInv
    <2> QED BY <1>2, <1>3, <2>3 DEF IInv
  <1>6. CASE op.request # Load
    <2>1. Told(was, op.request) BY <1>4 DEF Done
    <2>2. PICK to : Send(to, op.request) BY <1>6 DEF Answer
    <2>3. EventsInv' BY <1>1, <2>1, <2>2, SendingKeeps DEF IInv
    <2> QED BY <1>2, <1>3, <2>3 DEF IInv
  <1> QED BY <1>5, <1>6

LEMMA FailKeeps ==
  ASSUME IInv, NEW op \in ops, Fail(op)
  PROVE  IInv'
  BY DEF Fail, IInv, RequestsInv, EventsInv, OpsInv, IndexInv

LEMMA StutterKeeps == IInv /\ UNCHANGED vars => IInv'
  BY DEF vars, client, server, counts, history, IInv, RequestsInv, EventsInv, OpsInv, IndexInv

LEMMA Invariance == Spec => []IInv
  <1>1. Init => IInv BY Begins
  <1>2. IInv /\ [Next]_vars => IInv'
    <2> SUFFICES ASSUME IInv, [Next]_vars PROVE IInv' OBVIOUS
    <2>1. ASSUME NEW c \in Clients, User(c) PROVE IInv' BY <2>1, UserKeeps
    <2>2. ASSUME NEW c \in Clients, Hear(c) PROVE IInv' BY <2>2, HearKeeps
    <2>3. ASSUME NEW c \in Clients, Serve(c) PROVE IInv' BY <2>3, ServeKeeps
    <2>4. ASSUME NEW c \in Clients, Disconnect(c) PROVE IInv' BY <2>4, DisconnectKeeps
    <2>5. ASSUME NEW op \in ops, Search(op) PROVE IInv' BY <2>5, SearchKeeps
    <2>6. ASSUME NEW op \in ops, Perform(op) PROVE IInv' BY <2>6, PerformKeeps
    <2>7. ASSUME NEW op \in ops, Answer(op) PROVE IInv' BY <2>7, AnswerKeeps
    <2>8. ASSUME NEW op \in ops, Fail(op) PROVE IInv' BY <2>8, FailKeeps
    <2>9. ASSUME NEW i \in Ids, Refresh(i) PROVE IInv' BY <2>9, RefreshKeeps
    <2>10. CASE UNCHANGED vars BY <2>10, StutterKeeps
    <2> QED BY <2>1, <2>2, <2>3, <2>4, <2>5, <2>6, <2>7, <2>8, <2>9, <2>10 DEF Next
  <1> QED BY <1>1, <1>2, PTL DEF Spec

(* Nobody is told, by an event or in answer to load, of an annotation with *)
(* a text it has never had in the index: annotations.coffee sends events   *)
(* from then, and what a query finds.                                      *)
THEOREM NothingUnstoredIsTold == Spec => []OnlyStoredIsTold
  <1>1. IInv => OnlyStoredIsTold
    BY DEF IInv, EventsInv, Told, StoredNotes, StoredNote, OnlyStoredIsTold
  <1> QED BY <1>1, Invariance, PTL
-----------------------------------------------------------------------------
LEMMA Least ==
  ASSUME NEW T, T \subseteq Nat, T # {}
  PROVE  \E k \in T : \A j \in T : k <= j
  <1>1. PICK k \in T : \A j \in T : ~ (<<j, k>> \in OpToRel(<, Nat))
    BY NatLessThanWellFounded, WFMin
  <1>2. \A j \in T : ~ (j < k) BY <1>1 DEF OpToRel
  <1>3. ASSUME NEW j \in T PROVE k <= j
    <2>1. j \in Nat /\ k \in Nat /\ ~ (j < k) BY <1>2
    <2> QED BY <2>1, SMT
  <1> QED BY <1>3

LEMMA Greatest ==
  ASSUME NEW n \in Nat, NEW T, T \subseteq 1 .. n, T # {}
  PROVE  \E k \in T : \A j \in T : j <= k
  <1> DEFINE D == {n - y : y \in T}
  <1>1. T \subseteq Nat /\ \A y \in T : y <= n /\ n - y \in Nat OBVIOUS
  <1>2. D \subseteq Nat /\ D # {} BY <1>1
  <1>3. PICK x \in D : \A y \in D : x <= y BY <1>2, Least
  <1>4. PICK t \in T : x = n - t BY <1>3
  <1>5. ASSUME NEW y \in T PROVE y <= t
    <2>1. y \in Nat /\ t \in Nat /\ n - t <= n - y BY <1>1, <1>3, <1>4
    <2> QED BY <2>1, SMT
  <1> QED BY <1>5

(* How many of K there are up to i: one more if i is in K.                 *)
UpTo(K, i) == Cardinality({j \in K : j <= i})

LEMMA UpToIs ==
  ASSUME NEW n \in Nat, NEW K, K \subseteq 1 .. n
  PROVE  /\ \A i \in 0 .. n : UpTo(K, i) \in Nat
         /\ UpTo(K, 0) = 0 /\ UpTo(K, n) = Cardinality(K)
         /\ \A i \in 1 .. n : UpTo(K, i) = UpTo(K, i - 1) + (IF i \in K THEN 1 ELSE 0)
         /\ \A i, j \in 0 .. n : i <= j => UpTo(K, i) <= UpTo(K, j)
  <1> DEFINE U(i) == {j \in K : j <= i}
  <1>1. \A j \in K : j \in Nat /\ 1 <= j /\ j <= n OBVIOUS
  <1>2. ASSUME NEW i \in 0 .. n PROVE IsFiniteSet(U(i)) /\ UpTo(K, i) = Cardinality(U(i)) /\ UpTo(K, i) \in Nat
    <2>1. IsFiniteSet(1 .. n) BY FS_Interval
    <2>2. U(i) \in SUBSET (1 .. n) OBVIOUS
    <2>3. UpTo(K, i) = Cardinality(U(i)) BY DEF UpTo
    <2> HIDE DEF U
    <2>4. IsFiniteSet(U(i)) BY <2>1, <2>2, FS_Subset
    <2>5. Cardinality(U(i)) \in Nat BY <2>4, FS_CardinalityType
    <2> QED BY <2>3, <2>4, <2>5
  <1>3. U(0) = {} /\ U(n) = K
    <2>1. \A j \in K : ~ (j <= 0) /\ j <= n BY <1>1
    <2> QED BY <2>1, Zenon
  <1>4. ASSUME NEW i \in 1 .. n, i \in K PROVE UpTo(K, i) = UpTo(K, i - 1) + 1
    <2>a. ~ (i <= i - 1) /\ i <= i /\ \A j \in K : j <= i <=> j <= i - 1 \/ j = i BY <1>1
    <2>1. U(i) = U(i - 1) \cup {i} /\ i \notin U(i - 1) BY <1>4, <2>a, Zenon
    <2>2. i - 1 \in 0 .. n /\ i \in 0 .. n OBVIOUS
    <2>3. IsFiniteSet(U(i - 1)) BY <1>2, <2>2
    <2>4. UpTo(K, i) = Cardinality(U(i)) /\ UpTo(K, i - 1) = Cardinality(U(i - 1)) BY <1>2, <2>2
    <2> HIDE DEF U
    <2>5. Cardinality(U(i - 1) \cup {i}) = Cardinality(U(i - 1)) + 1 BY <2>1, <2>3, FS_AddElement
    <2> QED BY <2>1, <2>4, <2>5
  <1>5. ASSUME NEW i \in 1 .. n, i \notin K PROVE UpTo(K, i) = UpTo(K, i - 1)
    <2>a. \A j \in K : j <= i <=> j <= i - 1 BY <1>1, <1>5
    <2>1. U(i) = U(i - 1) BY <2>a, Zenon
    <2>2. i - 1 \in 0 .. n /\ i \in 0 .. n OBVIOUS
    <2>3. UpTo(K, i) = Cardinality(U(i)) /\ UpTo(K, i - 1) = Cardinality(U(i - 1)) BY <1>2, <2>2
    <2> QED BY <2>1, <2>3
  <1>6. ASSUME NEW i \in 0 .. n, NEW j \in 0 .. n, i <= j PROVE UpTo(K, i) <= UpTo(K, j)
    <2>a. \A k \in K : k <= i => k <= j BY <1>1, <1>6
    <2>1. U(i) \in SUBSET U(j) BY <2>a, Zenon
    <2>2. IsFiniteSet(U(j)) /\ UpTo(K, i) = Cardinality(U(i)) /\ UpTo(K, j) = Cardinality(U(j)) BY <1>2
    <2> HIDE DEF U
    <2> QED BY <2>1, <2>2, FS_Subset
  <1>7. 0 \in 0 .. n /\ n \in 0 .. n OBVIOUS
  <1>8. UpTo(K, 0) = 0 BY <1>2, <1>3, <1>7, FS_EmptySet
  <1>9. UpTo(K, n) = Cardinality(K) BY <1>2, <1>3, <1>7
  <1>10. \A i \in 0 .. n : UpTo(K, i) \in Nat BY <1>2
  <1>11. ASSUME NEW i \in 1 .. n PROVE UpTo(K, i) = UpTo(K, i - 1) + (IF i \in K THEN 1 ELSE 0)
    <2>1. i - 1 \in 0 .. n OBVIOUS
    <2>2. UpTo(K, i - 1) \in Nat BY <1>10, <2>1
    <2> QED BY <1>4, <1>5, <2>2
  <1> HIDE DEF U
  <1> QED BY <1>6, <1>8, <1>9, <1>10, <1>11

LEMMA UpToGrows ==
  ASSUME NEW n \in Nat, NEW K, K \subseteq 1 .. n, NEW i \in K, NEW j \in K, i < j
  PROVE  UpTo(K, i) < UpTo(K, j)
  <1>1. j \in 1 .. n /\ j - 1 \in 0 .. n /\ i \in 0 .. n /\ i <= j - 1 OBVIOUS
  <1>2. UpTo(K, i) <= UpTo(K, j - 1) BY <1>1, UpToIs
  <1>3. UpTo(K, j) = UpTo(K, j - 1) + 1 BY <1>1, UpToIs
  <1>4. UpTo(K, j - 1) \in Nat /\ UpTo(K, i) \in Nat BY <1>1, UpToIs
  <1> QED BY <1>2, <1>3, <1>4

LEMMA UpToDiffers ==
  ASSUME NEW n \in Nat, NEW K, K \subseteq 1 .. n, NEW i \in K, NEW j \in K, UpTo(K, i) = UpTo(K, j)
  PROVE  i = j
  <1>1. i \in Nat /\ j \in Nat /\ i \in 0 .. n /\ j \in 0 .. n OBVIOUS
  <1>2. UpTo(K, i) \in Nat /\ UpTo(K, j) \in Nat BY <1>1, UpToIs
  <1>3. ASSUME i < j PROVE FALSE
    <2>1. UpTo(K, i) < UpTo(K, j) BY <1>3, UpToGrows
    <2> QED BY <1>2, <2>1
  <1>4. ASSUME j < i PROVE FALSE
    <2>1. UpTo(K, j) < UpTo(K, i) BY <1>4, UpToGrows
    <2> QED BY <1>2, <2>1
  <1> QED BY <1>1, <1>3, <1>4

(* Each number up to that of K is how many there are up to one of K.       *)
LEMMA UpToReaches ==
  ASSUME NEW n \in Nat, NEW K, K \subseteq 1 .. n, NEW k \in 1 .. Cardinality(K)
  PROVE  \E i \in K : UpTo(K, i) = k
  <1> DEFINE T == {i \in 0 .. n : UpTo(K, i) >= k}
  <1>0. Cardinality(K) \in Nat
    <2>1. n \in 0 .. n OBVIOUS
    <2>2. UpTo(K, n) \in Nat /\ UpTo(K, n) = Cardinality(K) BY <2>1, UpToIs
    <2> QED BY <2>2
  <1>1. k \in Nat /\ 1 <= k /\ k <= Cardinality(K) BY <1>0
  <1>2. n \in T
    <2>1. UpTo(K, n) = Cardinality(K) BY UpToIs
    <2> QED BY <1>0, <1>1, <2>1
  <1>3. T \subseteq Nat /\ T # {} BY <1>2
  <1>4. PICK i \in T : \A j \in T : i <= j BY <1>3, Least
  <1>5. i # 0
    <2>1. UpTo(K, 0) = 0 /\ UpTo(K, i) >= k BY <1>4, UpToIs
    <2> QED BY <1>1, <2>1
  <1>6. i \in 1 .. n /\ i - 1 \in 0 .. n /\ ~ (i <= i - 1) /\ i \in 0 .. n BY <1>4, <1>5
  <1>7. ~ (UpTo(K, i - 1) >= k) BY <1>4, <1>6
  <1>8. UpTo(K, i) >= k BY <1>4
  <1> HIDE DEF T
  <1>9. UpTo(K, i) \in Nat /\ UpTo(K, i - 1) \in Nat BY <1>6, UpToIs
  <1>10. UpTo(K, i) = UpTo(K, i - 1) + (IF i \in K THEN 1 ELSE 0)
    <2>1. \A j \in 1 .. n : UpTo(K, j) = UpTo(K, j - 1) + (IF j \in K THEN 1 ELSE 0) BY UpToIs
    <2> QED BY <1>6, <2>1, Zenon
  <1>11. i \in K /\ UpTo(K, i) = k BY <1>1, <1>7, <1>8, <1>9, <1>10
  <1> QED BY <1>11

(* The entries at the positions K stand as they stood: p tells where.      *)
Places(s, K, t, p) ==
  /\ DOMAIN p = DOMAIN t
  /\ \A k \in DOMAIN t : p[k] \in K /\ t[k] = s[p[k]]
  /\ \A i \in K : \E k \in DOMAIN t : p[k] = i
  /\ \A k, l \in DOMAIN t : k < l => p[k] < p[l]

LEMMA ChosenIs ==
  ASSUME NEW S, NEW s \in Seq(S), NEW K, K \subseteq DOMAIN s
  PROVE  Chosen(s, K) \in Seq(S) /\ \E p : Places(s, K, Chosen(s, K), p)
  <1> DEFINE n == Len(s)
             m == Cardinality(K)
             at(k) == CHOOSE i \in K : UpTo(K, i) = k
             p == [k \in 1 .. m |-> at(k)]
             t == [k \in 1 .. m |-> s[at(k)]]
  <1>1. n \in Nat /\ K \subseteq 1 .. n /\ DOMAIN s = 1 .. n BY LenProperties
  <1> HIDE DEF n
  <1>2. \A k \in 1 .. m : at(k) \in K /\ UpTo(K, at(k)) = k BY <1>1, UpToReaches
  <1>3. Chosen(s, K) = t BY DEF Chosen, UpTo
  <1>4. m \in Nat
    <2>1. n \in 0 .. n BY <1>1
    <2> QED BY <1>1, <2>1, UpToIs
  <1> HIDE DEF at, m
  <1>5. \A k \in 1 .. m : s[at(k)] \in S BY <1>1, <1>2
  <1>6. t \in Seq(S) BY <1>4, <1>5
  <1>7. p \in [1 .. m -> K] /\ DOMAIN t = 1 .. m /\ DOMAIN p = 1 .. m BY <1>2
  <1>8. \A k \in DOMAIN t : p[k] \in K /\ t[k] = s[p[k]] BY <1>7
  <1>9. \A k, l \in DOMAIN p : k < l => p[k] < p[l]
    <2> SUFFICES ASSUME NEW k \in 1 .. m, NEW l \in 1 .. m, k < l PROVE p[k] < p[l] BY <1>7
    <2>1. /\ p[k] \in K /\ UpTo(K, p[k]) = k
          /\ p[l] \in K /\ UpTo(K, p[l]) = l BY <1>2
    <2> HIDE DEF p
    <2>2. p[k] \in Nat /\ p[l] \in Nat /\ k \in Nat /\ l \in Nat BY <1>1, <1>4, <2>1
    <2>3. ASSUME p[l] < p[k] PROVE FALSE
      <3>1. UpTo(K, p[l]) < UpTo(K, p[k]) BY <1>1, <2>1, <2>3, UpToGrows
      <3> QED BY <2>1, <2>2, <3>1
    <2>4. p[k] # p[l] BY <2>1, <2>2
    <2> QED BY <2>2, <2>3, <2>4
  <1>10. \A i \in K : \E k \in DOMAIN p : p[k] = i
    <2> SUFFICES ASSUME NEW i \in K PROVE \E k \in 1 .. m : p[k] = i BY <1>7
    <2> DEFINE k == UpTo(K, i)
    <2>1. i \in 1 .. n /\ i - 1 \in 0 .. n /\ i \in 0 .. n BY <1>1
    <2>2. k \in Nat /\ UpTo(K, i - 1) \in Nat /\ k = UpTo(K, i - 1) + 1 BY <1>1, <2>1, UpToIs
    <2>3. k <= m
      <3>1. n \in 0 .. n /\ i <= n BY <1>1, <2>1
      <3>2. UpTo(K, n) = Cardinality(K) BY <1>1, UpToIs
      <3>3. UpTo(K, i) <= UpTo(K, n) BY <1>1, <2>1, <3>1, UpToIs
      <3> QED BY <3>2, <3>3 DEF m
    <2>4. k \in 1 .. m BY <1>4, <2>2, <2>3
    <2>5. at(k) \in K /\ UpTo(K, at(k)) = UpTo(K, i) BY <1>2, <2>4
    <2>6. at(k) = i
      <3> DEFINE j == at(k)
      <3>1. j \in K /\ UpTo(K, j) = UpTo(K, i) BY <2>5
      <3> HIDE DEF j, k
      <3>2. j = i BY <1>1, <3>1, UpToDiffers
      <3> QED BY <3>2 DEF j
    <2>7. p[k] = i BY <2>4, <2>6
    <2> QED BY <2>4, <2>7
  <1> HIDE DEF p, t
  <1>11. Places(s, K, t, p) BY <1>7, <1>8, <1>9, <1>10 DEF Places
  <1> QED BY <1>3, <1>6, <1>11
-----------------------------------------------------------------------------
(* A list l is shown for what the storage knows, s, or for its first k     *)
(* entries: each annotation once and as its first entry has it, in the     *)
(* order of steps.                                                         *)
IsFirst(s, n) == \E k \in DOMAIN s : s[k] = n /\ \A j \in 1 .. k - 1 : s[j].id # n.id
Ordered(l) == \A i, j \in DOMAIN l : i < j => l[i].step <= l[j].step /\ l[i].id # l[j].id
Shows(l, s) == Ordered(l) /\ KnownIn(l) = KnownIn(s) /\ \A i \in DOMAIN l : IsFirst(s, l[i])
ShowsTo(l, s, k) == Ordered(l) /\ KnownIn(l) = {s[i].id : i \in 1 .. k} /\ \A i \in DOMAIN l : IsFirst(s, l[i])

LEMMA NotesAre ==
  ASSUME NEW s \in Seq(Note)
  PROVE  /\ Len(s) \in Nat /\ DOMAIN s = 1 .. Len(s)
         /\ \A i \in DOMAIN s : s[i] \in Note /\ i \in Nat /\ i >= 1 /\ i <= Len(s)
                                /\ s[i].id \in Ids /\ s[i].text \in Texts /\ s[i].step \in Nat
  <1>1. Len(s) \in Nat /\ DOMAIN s = 1 .. Len(s) BY LenProperties
  <1>2. ASSUME NEW i \in 1 .. Len(s)
        PROVE  s[i] \in Note /\ s[i].id \in Ids /\ s[i].text \in Texts /\ s[i].step \in Nat
    <2>1. s[i] \in Note BY ElementOfSeq
    <2>2. \A n \in Note : n.id \in Ids /\ n.text \in Texts /\ n.step \in Nat BY StepsAssumption DEF Note
    <2> QED BY <2>1, <2>2
  <1> QED BY <1>1, <1>2

LEMMA FirstIs ==
  ASSUME NEW s \in Seq(Note), NEW id \in KnownIn(s)
  PROVE  /\ First(s, id) \in DOMAIN s /\ s[First(s, id)].id = id
         /\ \A j \in 1 .. First(s, id) - 1 : s[j].id # id
  <1> DEFINE T == {i \in DOMAIN s : s[i].id = id}
  <1>1. T \subseteq Nat /\ T # {} BY NotesAre DEF KnownIn
  <1>2. PICK k \in T : \A j \in T : k <= j BY <1>1, Least
  <1>3. k \in DOMAIN s /\ s[k].id = id BY <1>2
  <1>4. ASSUME NEW j \in 1 .. k - 1 PROVE s[j].id # id
    <2>1. k \in Nat /\ k <= Len(s) /\ Len(s) \in Nat /\ DOMAIN s = 1 .. Len(s) BY <1>3, NotesAre
    <2>2. j \in DOMAIN s /\ ~ (k <= j) BY <2>1
    <2> QED BY <1>2, <2>2
  <1> HIDE DEF T
  <1> QED BY <1>3, <1>4 DEF First

LEMMA FirstAt ==
  ASSUME NEW s \in Seq(Note), NEW k \in DOMAIN s, \A j \in 1 .. k - 1 : s[j].id # s[k].id
  PROVE  First(s, s[k].id) = k
  <1> DEFINE id == s[k].id
             f  == First(s, id)
  <1>1. id \in KnownIn(s) BY DEF KnownIn
  <1> HIDE DEF id
  <1>2. f \in DOMAIN s /\ s[f].id = id /\ \A j \in 1 .. f - 1 : s[j].id # id BY <1>1, FirstIs
  <1> HIDE DEF f
  <1>3. f \in Nat /\ k \in Nat /\ f >= 1 /\ k >= 1 BY <1>2, NotesAre
  <1>4. ASSUME f < k PROVE FALSE
    <2>1. f \in 1 .. k - 1 BY <1>3, <1>4
    <2> QED BY <1>2, <2>1 DEF id
  <1>5. ASSUME k < f PROVE FALSE
    <2>1. k \in 1 .. f - 1 BY <1>3, <1>5
    <2> QED BY <1>2, <2>1 DEF id
  <1>6. f = k BY <1>3, <1>4, <1>5
  <1> QED BY <1>6 DEF f, id

LEMMA FirstHas ==
  ASSUME NEW s \in Seq(Note), NEW n, IsFirst(s, n)
  PROVE  n.id \in KnownIn(s) /\ s[First(s, n.id)] = n
  <1>1. PICK k \in DOMAIN s : s[k] = n /\ \A j \in 1 .. k - 1 : s[j].id # n.id BY DEF IsFirst
  <1>2. First(s, s[k].id) = k BY <1>1, FirstAt
  <1> QED BY <1>1, <1>2 DEF KnownIn

(* What of a list is chosen stays in order, and what is chosen with all    *)
(* that comes first, comes first.                                          *)
LEMMA ChosenNotes ==
  ASSUME NEW s \in Seq(Note), NEW K, K \subseteq DOMAIN s
  PROVE  /\ Chosen(s, K) \in Seq(Note)
         /\ KnownIn(Chosen(s, K)) = {s[i].id : i \in K}
         /\ \A k \in DOMAIN Chosen(s, K) : \E i \in K : Chosen(s, K)[k] = s[i]
         /\ Ordered(s) => Ordered(Chosen(s, K))
         /\ \A i \in K : (\A j \in 1 .. i - 1 : s[j].id # s[i].id) => IsFirst(Chosen(s, K), s[i])
  <1> DEFINE t == Chosen(s, K)
  <1>1. t \in Seq(Note) BY ChosenIs
  <1>2. PICK p : Places(s, K, t, p) BY ChosenIs
  <1> HIDE DEF t
  <1>3. DOMAIN p = DOMAIN t /\ \A k \in DOMAIN t : p[k] \in DOMAIN s BY <1>2 DEF Places
  <1>4. /\ \A k \in DOMAIN t : p[k] \in K /\ t[k] = s[p[k]]
        /\ \A i \in K : \E k \in DOMAIN t : p[k] = i
        /\ \A k, l \in DOMAIN t : k < l => p[k] < p[l]
    BY <1>2 DEF Places
  <1>5. \A i \in K : \E k \in DOMAIN t : t[k] = s[i] BY <1>4
  <1>6. KnownIn(t) = {s[i].id : i \in K} BY <1>4, <1>5 DEF KnownIn
  <1>7. ASSUME Ordered(s) PROVE Ordered(t)
    <2> SUFFICES ASSUME NEW i \in DOMAIN t, NEW j \in DOMAIN t, i < j
                 PROVE  t[i].step <= t[j].step /\ t[i].id # t[j].id
      BY DEF Ordered
    <2>1. p[i] \in DOMAIN s /\ p[j] \in DOMAIN s /\ p[i] < p[j] BY <1>3, <1>4
    <2> QED BY <1>4, <1>7, <2>1 DEF Ordered
  <1>8. ASSUME NEW i \in K, \A j \in 1 .. i - 1 : s[j].id # s[i].id PROVE IsFirst(t, s[i])
    <2>1. PICK k \in DOMAIN t : p[k] = i /\ t[k] = s[i] BY <1>4
    <2>2. ASSUME NEW j \in 1 .. k - 1 PROVE t[j].id # s[i].id
      <3>1. k \in Nat /\ k <= Len(t) /\ Len(t) \in Nat /\ DOMAIN t = 1 .. Len(t) BY <1>1, NotesAre
      <3>2. j \in DOMAIN t /\ j < k BY <3>1
      <3>3. p[j] \in DOMAIN s /\ p[j] < i /\ t[j] = s[p[j]] BY <1>3, <1>4, <2>1, <3>2
      <3>4. i \in Nat /\ p[j] \in Nat /\ p[j] >= 1 BY <3>3, NotesAre
      <3>5. p[j] \in 1 .. i - 1 BY <3>3, <3>4
      <3> QED BY <1>8, <3>3, <3>5
    <2> QED BY <2>1, <2>2 DEF IsFirst
  <1> QED BY <1>1, <1>4, <1>6, <1>7, <1>8 DEF t

(* What is deleted is gone from both.                                      *)
LEMMA DropShows ==
  ASSUME NEW l \in Seq(Note), NEW s \in Seq(Note), Shows(l, s), NEW id
  PROVE  /\ Drop(l, id) \in Seq(Note) /\ Drop(s, id) \in Seq(Note)
         /\ Shows(Drop(l, id), Drop(s, id))
  <1> DEFINE L == {i \in DOMAIN l : l[i].id # id}
             K == {i \in DOMAIN s : s[i].id # id}
  <1>1. L \subseteq DOMAIN l /\ K \subseteq DOMAIN s OBVIOUS
  <1>2. Drop(l, id) = Chosen(l, L) /\ Drop(s, id) = Chosen(s, K) BY DEF Drop
  <1>3. {l[i].id : i \in L} = KnownIn(l) \ {id} /\ {s[i].id : i \in K} = KnownIn(s) \ {id} BY DEF KnownIn
  <1>4. ASSUME NEW i \in L PROVE IsFirst(Chosen(s, K), l[i])
    <2>1. PICK k \in DOMAIN s : s[k] = l[i] /\ \A j \in 1 .. k - 1 : s[j].id # l[i].id BY DEF Shows, IsFirst
    <2>2. k \in K /\ \A j \in 1 .. k - 1 : s[j].id # s[k].id BY <2>1
    <2> HIDE DEF L, K
    <2>3. IsFirst(Chosen(s, K), s[k]) BY <1>1, <2>2, ChosenNotes
    <2> QED BY <2>1, <2>3
  <1> HIDE DEF L, K
  <1>5. Chosen(l, L) \in Seq(Note) /\ Chosen(s, K) \in Seq(Note) BY <1>1, ChosenNotes
  <1>6. KnownIn(Chosen(l, L)) = KnownIn(Chosen(s, K)) BY <1>1, <1>3, ChosenNotes DEF Shows
  <1>7. Ordered(Chosen(l, L)) BY <1>1, ChosenNotes DEF Shows
  <1>8. \A k \in DOMAIN Chosen(l, L) : \E i \in L : Chosen(l, L)[k] = l[i] BY <1>1, ChosenNotes
  <1>9. \A k \in DOMAIN Chosen(l, L) : IsFirst(Chosen(s, K), Chosen(l, L)[k]) BY <1>4, <1>8
  <1> QED BY <1>2, <1>5, <1>6, <1>7, <1>9 DEF Shows

(* The storage may forget all but the first entry of each.                 *)
LEMMA UniqShows ==
  ASSUME NEW l \in Seq(Note), NEW s \in Seq(Note), Shows(l, s)
  PROVE  UniqById(s) \in Seq(Note) /\ Shows(l, UniqById(s))
  <1> DEFINE K == {i \in DOMAIN s : \A j \in 1 .. i - 1 : s[j].id # s[i].id}
  <1>1. K \subseteq DOMAIN s OBVIOUS
  <1>2. UniqById(s) = Chosen(s, K) BY DEF UniqById
  <1>3. ASSUME NEW id \in KnownIn(s) PROVE \E i \in K : s[i].id = id
    <2>1. First(s, id) \in K /\ s[First(s, id)].id = id BY FirstIs
    <2> QED BY <2>1
  <1>4. {s[i].id : i \in K} = KnownIn(s)
    <2> HIDE DEF K
    <2>1. \A i \in K : s[i].id \in KnownIn(s) BY <1>1 DEF KnownIn
    <2> QED BY <1>3, <2>1
  <1>5. ASSUME NEW n, IsFirst(s, n) PROVE IsFirst(Chosen(s, K), n)
    <2>1. PICK k \in DOMAIN s : s[k] = n /\ \A j \in 1 .. k - 1 : s[j].id # n.id BY <1>5 DEF IsFirst
    <2>2. k \in K /\ \A j \in 1 .. k - 1 : s[j].id # s[k].id BY <2>1
    <2> HIDE DEF K
    <2>3. IsFirst(Chosen(s, K), s[k]) BY <1>1, <2>2, ChosenNotes
    <2> QED BY <2>1, <2>3
  <1> HIDE DEF K
  <1>6. Chosen(s, K) \in Seq(Note) /\ KnownIn(Chosen(s, K)) = KnownIn(s) BY <1>1, <1>4, ChosenNotes
  <1> QED BY <1>2, <1>5, <1>6 DEF Shows
-----------------------------------------------------------------------------
LEMMA SetTextIs ==
  ASSUME NEW s \in Seq(Note), NEW id \in KnownIn(s), NEW text \in Texts
  PROVE  /\ SetText(s, id, text) \in Seq(Note)
         /\ DOMAIN SetText(s, id, text) = DOMAIN s
         /\ \A j \in DOMAIN s :
              SetText(s, id, text)[j] = IF j = First(s, id) THEN [s[j] EXCEPT !.text = text] ELSE s[j]
  <1> DEFINE f == First(s, id)
             n == [s[f] EXCEPT !.text = text]
             t == [s EXCEPT ![f] = n]
  <1>1. f \in 1 .. Len(s) /\ s[f] \in Note /\ DOMAIN s = 1 .. Len(s) BY FirstIs, NotesAre
  <1>2. SetText(s, id, text) = t BY DEF SetText
  <1> HIDE DEF f
  <1>3. n \in Note BY <1>1 DEF Note
  <1>4. n = [s[f] EXCEPT !.text = text] OBVIOUS
  <1> HIDE DEF n
  <1>5. t \in Seq(Note) /\ Len(t) = Len(s) /\ \A j \in 1 .. Len(s) : t[j] = IF j = f THEN n ELSE s[j]
    BY <1>1, <1>3, ExceptSeq
  <1>6. DOMAIN t = DOMAIN s OBVIOUS
  <1> HIDE DEF t
  <1> QED BY <1>1, <1>2, <1>4, <1>5, <1>6 DEF f

(* A new text is given to the comment and to what it shows.                *)
LEMMA SetTextShows ==
  ASSUME NEW l \in Seq(Note), NEW s \in Seq(Note), Shows(l, s), NEW id, NEW text \in Texts
  PROVE  /\ SetText(l, id, text) \in Seq(Note) /\ SetText(s, id, text) \in Seq(Note)
         /\ Shows(SetText(l, id, text), SetText(s, id, text))
  <1>1. KnownIn(l) = KnownIn(s) BY DEF Shows
  <1>2. CASE id \notin KnownIn(s) BY <1>1, <1>2 DEF SetText
  <1>3. CASE id \in KnownIn(s)
    <2> DEFINE L == SetText(l, id, text)
               S == SetText(s, id, text)
               f == First(l, id)
               g == First(s, id)
    <2>1. L \in Seq(Note) /\ S \in Seq(Note) /\ DOMAIN L = DOMAIN l /\ DOMAIN S = DOMAIN s
      BY <1>1, <1>3, SetTextIs
    <2>2. /\ \A i \in DOMAIN l : L[i] = IF i = f THEN [l[i] EXCEPT !.text = text] ELSE l[i]
          /\ \A i \in DOMAIN s : S[i] = IF i = g THEN [s[i] EXCEPT !.text = text] ELSE s[i]
      BY <1>1, <1>3, SetTextIs
    <2>3. /\ f \in DOMAIN l /\ l[f].id = id
          /\ g \in DOMAIN s /\ s[g].id = id
      BY <1>1, <1>3, FirstIs
    <2> HIDE DEF L, S, f, g
    <2>4. ASSUME NEW n \in Note
          PROVE  LET m == [n EXCEPT !.text = text] IN m.id = n.id /\ m.step = n.step
      BY DEF Note
    <2>5. \A i \in DOMAIN l : L[i].id = l[i].id /\ L[i].step = l[i].step BY <2>2, <2>4, NotesAre
    <2>6. \A i \in DOMAIN s : S[i].id = s[i].id BY <2>2, <2>4, NotesAre
    <2>7. KnownIn(L) = KnownIn(S)
      <3>1. KnownIn(L) = KnownIn(l) BY <2>1, <2>5 DEF KnownIn
      <3>2. KnownIn(S) = KnownIn(s) BY <2>1, <2>6 DEF KnownIn
      <3> QED BY <1>1, <3>1, <3>2
    <2>8. Ordered(L) BY <2>1, <2>5 DEF Shows, Ordered
    <2>9. ASSUME NEW i \in DOMAIN l PROVE IsFirst(S, L[i])
      <3>1. PICK k \in DOMAIN s : s[k] = l[i] /\ \A j \in 1 .. k - 1 : s[j].id # l[i].id BY DEF Shows, IsFirst
      <3>2. \A j \in 1 .. k - 1 : j \in DOMAIN s BY NotesAre
      <3>3. \A j \in 1 .. k - 1 : S[j].id # L[i].id BY <2>5, <2>6, <3>1, <3>2
      <3>4. S[k] = L[i]
        <4>1. CASE l[i].id = id
          <5>1. i = f
            <6>1. i \in Nat /\ f \in Nat /\ f \in DOMAIN l BY <2>3, NotesAre
            <6>2. ~ (i < f) /\ ~ (f < i) BY <2>3, <4>1 DEF Shows, Ordered
            <6> QED BY <6>1, <6>2
          <5>2. k = g
            <6>1. First(s, s[k].id) = k BY <3>1, FirstAt
            <6> QED BY <3>1, <4>1, <6>1 DEF g
          <5>3. L[i] = [l[i] EXCEPT !.text = text] BY <2>2, <5>1
          <5>4. S[k] = [s[k] EXCEPT !.text = text] BY <2>2, <5>2
          <5> QED BY <3>1, <5>3, <5>4
        <4>2. CASE l[i].id # id
          <5>1. i # f /\ k # g BY <2>3, <3>1, <4>2
          <5> QED BY <2>2, <3>1, <5>1
        <4> QED BY <4>1, <4>2
      <3> QED BY <2>1, <3>3, <3>4 DEF IsFirst
    <2>10. Shows(L, S) BY <2>1, <2>7, <2>8, <2>9 DEF Shows
    <2> QED BY <2>1, <2>10 DEF L, S
  <1> QED BY <1>2, <1>3

-----------------------------------------------------------------------------
LEMMA Inserted ==
  ASSUME NEW l \in Seq(Note), NEW p \in 0 .. Len(l), NEW n \in Note
  PROVE  /\ InsertAt(l, p + 1, n) \in Seq(Note)
         /\ Len(InsertAt(l, p + 1, n)) = Len(l) + 1
         /\ \A i \in 1 .. Len(l) + 1 :
              InsertAt(l, p + 1, n)[i] = IF i <= p THEN l[i] ELSE IF i = p + 1 THEN n ELSE l[i - 1]
  <1> DEFINE a == SubSeq(l, 1, p)
             b == SubSeq(l, p + 1, Len(l))
             c == <<n>>
  <1>1. Len(l) \in Nat /\ p \in Nat /\ p <= Len(l) /\ \A i \in 1 .. Len(l) : l[i] \in Note
    BY NotesAre
  <1>2. a \in Seq(Note) /\ Len(a) = p /\ \A i \in 1 .. p : a[i] = l[i]
    <2>1. 1 \in Int /\ p \in Int /\ \A i \in 1 .. p : l[i] \in Note BY <1>1
    <2>2. /\ a \in Seq(Note) /\ Len(a) = IF 1 <= p THEN p - 1 + 1 ELSE 0
          /\ \A i \in 1 .. p - 1 + 1 : a[i] = l[1 + i - 1] BY <2>1, SubSeqProperties
    <2> HIDE DEF a
    <2> QED BY <1>1, <2>2
  <1>3. b \in Seq(Note) /\ Len(b) = Len(l) - p /\ \A i \in 1 .. Len(l) - p : b[i] = l[p + i]
    <2> DEFINE m == Len(l)
               q == p + 1
    <2>1. q \in Int /\ m \in Int /\ \A i \in q .. m : l[i] \in Note BY <1>1
    <2>2. b = SubSeq(l, q, m) OBVIOUS
    <2> HIDE DEF q, m, b
    <2>3. /\ SubSeq(l, q, m) \in Seq(Note) /\ Len(SubSeq(l, q, m)) = IF q <= m THEN m - q + 1 ELSE 0
          /\ \A i \in 1 .. m - q + 1 : SubSeq(l, q, m)[i] = l[q + i - 1] BY <2>1, SubSeqProperties
    <2> QED BY <1>1, <2>2, <2>3 DEF q, m
  <1>4. c \in Seq(Note) /\ Len(c) = 1 /\ c[1] = n OBVIOUS
  <1>5. InsertAt(l, p + 1, n) = (a \o c) \o b
    <2>1. (p + 1) - 1 = p BY <1>1
    <2> QED BY <2>1 DEF InsertAt
  <1> HIDE DEF a, b, c
  <1>6. a \o c \in Seq(Note) /\ Len(a \o c) = p + 1 /\ \A i \in 1 .. p + 1 : (a \o c)[i] = IF i <= p THEN l[i] ELSE n
    <2>1. /\ a \o c \in Seq(Note) /\ Len(a \o c) = Len(a) + Len(c)
          /\ \A i \in 1 .. Len(a) + Len(c) : (a \o c)[i] = IF i <= Len(a) THEN a[i] ELSE c[i - Len(a)]
      BY <1>2, <1>4, ConcatProperties
    <2> QED BY <1>1, <1>2, <1>4, <2>1
  <1> DEFINE d == a \o c
  <1>7. d \in Seq(Note) /\ Len(d) = p + 1 /\ \A i \in 1 .. p + 1 : d[i] = IF i <= p THEN l[i] ELSE n BY <1>6
  <1> HIDE DEF d
  <1>8. /\ d \o b \in Seq(Note) /\ Len(d \o b) = Len(d) + Len(b)
        /\ \A i \in 1 .. Len(d) + Len(b) : (d \o b)[i] = IF i <= Len(d) THEN d[i] ELSE b[i - Len(d)]
    BY <1>3, <1>7, ConcatProperties
  <1>9. Len(d \o b) = Len(l) + 1 BY <1>1, <1>3, <1>7, <1>8
  <1>10. ASSUME NEW i \in 1 .. Len(l) + 1
         PROVE  (d \o b)[i] = IF i <= p THEN l[i] ELSE IF i = p + 1 THEN n ELSE l[i - 1]
    <2>0. i \in Nat /\ 1 <= i /\ i <= Len(l) + 1 /\ i \in 1 .. Len(d) + Len(b) BY <1>1, <1>3, <1>7
    <2>1. CASE i <= p + 1
      <3>1. (d \o b)[i] = d[i] /\ i \in 1 .. p + 1 BY <1>1, <1>7, <1>8, <2>0, <2>1
      <3> QED BY <1>1, <1>7, <2>0, <2>1, <3>1
    <2>2. CASE ~ (i <= p + 1)
      <3>1. (d \o b)[i] = b[i - (p + 1)] BY <1>1, <1>7, <1>8, <2>0, <2>2
      <3>2. i - (p + 1) \in 1 .. Len(l) - p /\ p + (i - (p + 1)) = i - 1 BY <1>1, <2>0, <2>2
      <3>3. b[i - (p + 1)] = l[i - 1] BY <1>3, <3>2
      <3> QED BY <1>1, <2>0, <2>2, <3>1, <3>3
    <2> QED BY <2>1, <2>2
  <1> QED BY <1>5, <1>8, <1>9, <1>10 DEF d

(* A comment is placed behind those of its step and of earlier ones, and   *)
(* before those of later ones.                                             *)
LEMMA PlaceIs ==
  ASSUME NEW l \in Seq(Note), Ordered(l), NEW n \in Note
  PROVE  /\ Place(l, n) \in 0 .. Len(l)
         /\ \A i \in DOMAIN l : IF i <= Place(l, n) THEN l[i].step <= n.step ELSE n.step <= l[i].step
  <1> DEFINE before == {i \in DOMAIN l : l[i].step <= n.step}
             p == Place(l, n)
  <1>1. Len(l) \in Nat /\ DOMAIN l = 1 .. Len(l) /\ n.step \in Nat
    <2>1. n.step \in Nat BY StepsAssumption DEF Note
    <2> QED BY <2>1, NotesAre
  <1>2. CASE before = {}
    <2>1. p = 0 BY <1>2 DEF Place
    <2>2. ASSUME NEW i \in DOMAIN l PROVE ~ (i <= 0) /\ n.step <= l[i].step
      <3>1. i \in Nat /\ i >= 1 /\ l[i].step \in Nat BY NotesAre
      <3>2. ~ (l[i].step <= n.step) BY <1>2
      <3> QED BY <1>1, <3>1, <3>2
    <2> QED BY <1>1, <2>1, <2>2
  <1>3. CASE before # {}
    <2>1. before \subseteq 1 .. Len(l) BY <1>1
    <2>2. \E k \in before : \A j \in before : j <= k BY <1>1, <1>3, <2>1, Greatest
    <2>3. p \in before /\ \A j \in before : j <= p BY <1>3, <2>2 DEF Place
    <2> HIDE DEF p
    <2>4. p \in DOMAIN l /\ p \in Nat /\ p \in 0 .. Len(l) /\ l[p].step <= n.step /\ l[p].step \in Nat
      BY <1>1, <2>3, NotesAre
    <2>5. ASSUME NEW i \in DOMAIN l PROVE IF i <= p THEN l[i].step <= n.step ELSE n.step <= l[i].step
      <3>1. i \in Nat /\ l[i].step \in Nat BY NotesAre
      <3>2. CASE i <= p
        <4>1. l[i].step <= l[p].step BY <2>4, <3>1, <3>2 DEF Ordered
        <4> QED BY <1>1, <2>4, <3>1, <3>2, <4>1
      <3>3. CASE ~ (i <= p)
        <4>1. ~ (l[i].step <= n.step) BY <2>3, <3>3
        <4> QED BY <1>1, <3>1, <3>3, <4>1
      <3> QED BY <3>2, <3>3
    <2> QED BY <2>4, <2>5 DEF p
  <1> QED BY <1>2, <1>3

(* The next entry is shown, or was there.                                  *)
LEMMA ShowCommentShows ==
  ASSUME NEW l \in Seq(Note), NEW s \in Seq(Note), NEW k \in Nat, k + 1 \in DOMAIN s, ShowsTo(l, s, k)
  PROVE  ShowComment(l, s[k + 1]) \in Seq(Note) /\ ShowsTo(ShowComment(l, s[k + 1]), s, k + 1)
  <1> DEFINE n == s[k + 1]
             K == {s[i].id : i \in 1 .. k}
  <1>1. n \in Note /\ Len(l) \in Nat /\ DOMAIN l = 1 .. Len(l) BY NotesAre
  <1>2. {s[i].id : i \in 1 .. k + 1} = K \cup {n.id}
    <2>1. \A i : i \in 1 .. k + 1 <=> i \in 1 .. k \/ i = k + 1 OBVIOUS
    <2> QED BY <2>1
  <1>3. Ordered(l) /\ KnownIn(l) = K /\ \A i \in DOMAIN l : IsFirst(s, l[i]) BY DEF ShowsTo
  <1>4. CASE n.id \in KnownIn(l)
    <2>1. ShowComment(l, n) = l BY <1>4 DEF ShowComment
    <2> QED BY <1>2, <1>3, <1>4, <2>1 DEF ShowsTo
  <1>5. CASE n.id \notin KnownIn(l)
    <2> DEFINE p == Place(l, n)
               t == InsertAt(l, p + 1, n)
    <2>0. IsFirst(s, n)
      <3>1. \A j \in 1 .. (k + 1) - 1 : s[j].id # n.id BY <1>3, <1>5
      <3> QED BY <3>1 DEF IsFirst
    <2> HIDE DEF K
    <2>1. ShowComment(l, n) = t BY <1>5 DEF ShowComment
    <2> HIDE DEF n
    <2>2. /\ p \in 0 .. Len(l)
          /\ \A i \in DOMAIN l : IF i <= p THEN l[i].step <= n.step ELSE n.step <= l[i].step
      BY <1>1, <1>3, PlaceIs
    <2> HIDE DEF p
    <2>3. t \in Seq(Note) /\ Len(t) = Len(l) + 1 BY <1>1, <2>2, Inserted
    <2>4. ASSUME NEW i \in 1 .. Len(l) + 1
          PROVE  t[i] = IF i <= p THEN l[i] ELSE IF i = p + 1 THEN n ELSE l[i - 1]
      <3>1. \A m \in Note : \A q \in 0 .. Len(l) :
              InsertAt(l, q + 1, m)[i] = IF i <= q THEN l[i] ELSE IF i = q + 1 THEN m ELSE l[i - 1]
        BY Inserted
      <3> QED BY <1>1, <2>2, <3>1, Zenon
    <2> HIDE DEF t
    <2>5. DOMAIN t = 1 .. Len(l) + 1 BY <2>3, NotesAre
    <2> DEFINE old(i) == IF i <= p THEN i ELSE i - 1
    <2>6. ASSUME NEW i \in DOMAIN t, i # p + 1
          PROVE  old(i) \in DOMAIN l /\ t[i] = l[old(i)] /\ (i < p + 1 <=> old(i) <= p)
      BY <1>1, <2>2, <2>4, <2>5, <2>6
    <2>7. t[p + 1] = n /\ p + 1 \in DOMAIN t BY <1>1, <2>2, <2>4, <2>5
    <2>8. \A j \in DOMAIN l : l[j].id # n.id BY <1>5 DEF KnownIn
    <2>9. \A j \in DOMAIN l : \E i \in DOMAIN t : t[i] = l[j]
      <3> SUFFICES ASSUME NEW j \in DOMAIN l PROVE \E i \in DOMAIN t : t[i] = l[j] OBVIOUS
      <3>1. CASE j <= p
        <4>1. j \in DOMAIN t /\ t[j] = l[j] BY <1>1, <2>4, <2>5, <3>1
        <4> QED BY <4>1
      <3>2. CASE ~ (j <= p)
        <4>1. j + 1 \in DOMAIN t /\ ~ (j + 1 <= p) /\ j + 1 # p + 1 /\ (j + 1) - 1 = j BY <1>1, <2>2, <2>5, <3>2
        <4>2. t[j + 1] = l[j] BY <2>4, <2>5, <4>1
        <4> QED BY <4>1, <4>2
      <3> QED BY <3>1, <3>2
    <2>10. KnownIn(t) = K \cup {n.id}
      <3>1. \A i \in DOMAIN t : t[i] = n \/ \E j \in DOMAIN l : t[i] = l[j] BY <2>6, <2>7
      <3> HIDE DEF old
      <3>2. KnownIn(t) = KnownIn(l) \cup {n.id} BY <2>7, <2>9, <3>1 DEF KnownIn
      <3> QED BY <1>3, <3>2
    <2>11. \A i \in DOMAIN t : IsFirst(s, t[i]) BY <1>3, <2>0, <2>6, <2>7
    <2>12. Ordered(t)
      <3> SUFFICES ASSUME NEW i \in DOMAIN t, NEW j \in DOMAIN t, i < j
                   PROVE  t[i].step <= t[j].step /\ t[i].id # t[j].id
        BY DEF Ordered
      <3>1. i \in Nat /\ j \in Nat /\ p \in Nat BY <1>1, <2>2, <2>5
      <3>2. CASE i = p + 1
        <4>1. j # p + 1 /\ ~ (j < p + 1) BY <3>1, <3>2
        <4>2. old(j) \in DOMAIN l /\ t[j] = l[old(j)] /\ ~ (old(j) <= p) BY <2>6, <4>1
        <4> HIDE DEF old
        <4> QED BY <2>2, <2>7, <2>8, <3>2, <4>2
      <3>3. CASE j = p + 1
        <4>1. i # p + 1 /\ i < p + 1 BY <3>1, <3>3
        <4>2. old(i) \in DOMAIN l /\ t[i] = l[old(i)] /\ old(i) <= p BY <2>6, <4>1
        <4> HIDE DEF old
        <4> QED BY <2>2, <2>7, <2>8, <3>3, <4>2
      <3>4. CASE i # p + 1 /\ j # p + 1
        <4>1. old(i) < old(j) BY <3>1, <3>4
        <4>2. old(i) \in DOMAIN l /\ t[i] = l[old(i)] /\ old(j) \in DOMAIN l /\ t[j] = l[old(j)] BY <2>6, <3>4
        <4> HIDE DEF old
        <4> QED BY <1>3, <4>1, <4>2 DEF Ordered
      <3> QED BY <3>2, <3>3, <3>4
    <2>13. ShowsTo(t, s, k + 1) BY <1>2, <2>10, <2>11, <2>12 DEF ShowsTo, n
    <2> QED BY <2>1, <2>3, <2>13 DEF n
  <1> QED BY <1>4, <1>5

(* What is shown for s is shown for the first entries of s with more.      *)
LEMMA ShowsPrefix ==
  ASSUME NEW l \in Seq(Note), NEW s \in Seq(Note), NEW ns \in Seq(Note), Shows(l, s)
  PROVE  ShowsTo(l, s \o ns, Len(s))
  <1> DEFINE u == s \o ns
  <1>1. /\ u \in Seq(Note) /\ Len(u) = Len(s) + Len(ns)
        /\ \A i \in 1 .. Len(s) + Len(ns) : u[i] = IF i <= Len(s) THEN s[i] ELSE ns[i - Len(s)]
    BY ConcatProperties
  <1>2. Len(s) \in Nat /\ Len(ns) \in Nat /\ DOMAIN s = 1 .. Len(s) BY NotesAre
  <1>3. \A i \in 1 .. Len(s) : i \in DOMAIN u /\ u[i] = s[i]
    <2>1. DOMAIN u = 1 .. Len(u) BY <1>1, NotesAre
    <2> HIDE DEF u
    <2> QED BY <1>1, <1>2, <2>1
  <1> HIDE DEF u
  <1>4. KnownIn(s) = {u[i].id : i \in 1 .. Len(s)} BY <1>2, <1>3 DEF KnownIn
  <1>5. ASSUME NEW i \in DOMAIN l PROVE IsFirst(u, l[i])
    <2>1. PICK k \in DOMAIN s : s[k] = l[i] /\ \A j \in 1 .. k - 1 : s[j].id # l[i].id BY DEF Shows, IsFirst
    <2>2. \A j \in 1 .. k - 1 : j \in 1 .. Len(s) BY <1>2
    <2>3. k \in DOMAIN u /\ u[k] = l[i] /\ \A j \in 1 .. k - 1 : u[j].id # l[i].id BY <1>2, <1>3, <2>1, <2>2
    <2> QED BY <2>3 DEF IsFirst
  <1>6. ShowsTo(l, u, Len(s)) BY <1>4, <1>5 DEF Shows, ShowsTo
  <1> QED BY <1>6 DEF u

LEMMA ShowsAll ==
  ASSUME NEW l \in Seq(Note), NEW s \in Seq(Note), ShowsTo(l, s, Len(s))
  PROVE  Shows(l, s)
  BY NotesAre DEF Shows, ShowsTo, KnownIn
-----------------------------------------------------------------------------
(* That there is what ShowComments defines by recursion.                   *)
LEMMA ShowCommentsIs ==
  ASSUME NEW l \in Seq(Note), NEW ns \in Seq(Note)
  PROVE  \E f : /\ ShowComments(l, ns) = f[Len(ns)] /\ f[0] = l
                /\ \A k \in 1 .. Len(ns) : f[k] = ShowComment(f[k - 1], ns[k])
  <1> DEFINE m == Len(ns)
             Is(f, k) == f = [i \in 0 .. k |-> IF i = 0 THEN l ELSE ShowComment(f[i - 1], ns[i])]
             T == {k \in 0 .. m : ~ \E f : Is(f, k)}
             shown == CHOOSE f : Is(f, m)
  <1>1. m \in Nat BY NotesAre
  <1>2. ShowComments(l, ns) = shown[m] BY DEF ShowComments
  <1> HIDE DEF m
  <1>3. T = {}
    <2> SUFFICES ASSUME T # {} PROVE FALSE OBVIOUS
    <2>1. T \subseteq Nat BY <1>1
    <2>2. PICK k \in T : \A j \in T : k <= j BY <2>1, Least
    <2>3. k \in Nat /\ k <= m /\ ~ \E f : Is(f, k) BY <1>1, <2>2
    <2>4. k # 0
      <3> SUFFICES ASSUME k = 0 PROVE FALSE OBVIOUS
      <3> DEFINE g == [i \in 0 .. 0 |-> l]
      <3>1. \A i \in 0 .. 0 : i = 0 OBVIOUS
      <3>2. g = [i \in 0 .. 0 |-> IF i = 0 THEN l ELSE ShowComment(g[i - 1], ns[i])] BY <3>1
      <3> HIDE DEF g
      <3>3. Is(g, 0) BY <3>2
      <3> QED BY <2>3, <3>3
    <2>5. k - 1 \in 0 .. m /\ ~ (k <= k - 1) BY <1>1, <2>3, <2>4
    <2>6. k - 1 \notin T BY <2>2, <2>5
    <2>7. PICK f : Is(f, k - 1) BY <2>5, <2>6
    <2> DEFINE g == [i \in 0 .. k |-> IF i = 0 THEN l ELSE ShowComment(f[i - 1], ns[i])]
    <2>8. \A i \in 0 .. k - 1 : i \in 0 .. k /\ f[i] = g[i] BY <2>3, <2>7
    <2>9. \A i \in 0 .. k : i # 0 => i - 1 \in 0 .. k - 1 BY <2>3
    <2>10. \A i \in 0 .. k : (IF i = 0 THEN l ELSE ShowComment(f[i - 1], ns[i]))
                           = (IF i = 0 THEN l ELSE ShowComment(g[i - 1], ns[i]))
      BY <2>8, <2>9
    <2>11. g = [i \in 0 .. k |-> IF i = 0 THEN l ELSE ShowComment(g[i - 1], ns[i])] BY <2>10
    <2> HIDE DEF g
    <2>12. Is(g, k) BY <2>11
    <2> QED BY <2>3, <2>12
  <1>4. m \in 0 .. m BY <1>1
  <1>5. \E f : Is(f, m) BY <1>3, <1>4
  <1>6. Is(shown, m) BY <1>5
  <1> HIDE DEF shown
  <1>7. shown[0] = l BY <1>1, <1>6
  <1>8. \A k \in 1 .. m : shown[k] = ShowComment(shown[k - 1], ns[k])
    <2>1. \A k \in 1 .. m : k \in 0 .. m /\ k # 0 BY <1>1
    <2> QED BY <1>6, <2>1
  <1> QED BY <1>2, <1>7, <1>8 DEF m

(* What is loaded is shown one after the other.                            *)
LEMMA LoadedShows ==
  ASSUME NEW l \in Seq(Note), NEW s \in Seq(Note), NEW ns \in Seq(Note), Shows(l, s)
  PROVE  /\ ShowComments(l, ns) \in Seq(Note) /\ UniqById(s \o ns) \in Seq(Note)
         /\ Shows(ShowComments(l, ns), UniqById(s \o ns))
  <1> DEFINE u == s \o ns
             n == Len(s)
             m == Len(ns)
  <1>1. PICK f : /\ ShowComments(l, ns) = f[m] /\ f[0] = l
                 /\ \A k \in 1 .. m : f[k] = ShowComment(f[k - 1], ns[k])
    BY ShowCommentsIs
  <1>2. n \in Nat /\ m \in Nat BY NotesAre
  <1>3. /\ u \in Seq(Note) /\ Len(u) = n + m
        /\ \A i \in 1 .. n + m : u[i] = IF i <= n THEN s[i] ELSE ns[i - n]
    BY ConcatProperties
  <1>4. ShowsTo(l, u, n) BY ShowsPrefix
  <1> HIDE DEF u, n, m
  <1>5. DOMAIN u = 1 .. n + m BY <1>3, NotesAre
  <1> DEFINE Good(k) == f[k] \in Seq(Note) /\ ShowsTo(f[k], u, n + k)
             T == {k \in 0 .. m : ~ Good(k)}
  <1>6. T = {}
    <2> SUFFICES ASSUME T # {} PROVE FALSE OBVIOUS
    <2>1. T \subseteq Nat BY <1>2
    <2>2. PICK k \in T : \A j \in T : k <= j BY <2>1, Least
    <2>3. k \in Nat /\ k <= m /\ ~ Good(k) BY <1>2, <2>2
    <2>4. k # 0
      <3>1. n + 0 = n BY <1>2
      <3> QED BY <1>1, <1>4, <2>3, <3>1
    <2>5. k - 1 \in 0 .. m /\ k \in 1 .. m /\ ~ (k <= k - 1) BY <1>2, <2>3, <2>4
    <2>6. Good(k - 1) BY <2>2, <2>5
    <2> DEFINE q == n + (k - 1)
    <2>7. q \in Nat /\ q + 1 \in 1 .. n + m /\ q + 1 = n + k /\ ~ (q + 1 <= n) /\ (q + 1) - n = k
      BY <1>2, <2>3, <2>4
    <2>8. f[k - 1] \in Seq(Note) /\ ShowsTo(f[k - 1], u, q) BY <2>6
    <2> HIDE DEF q, T, Good
    <2>9. u[q + 1] = ns[k] BY <1>3, <2>7
    <2>10. /\ ShowComment(f[k - 1], u[q + 1]) \in Seq(Note)
           /\ ShowsTo(ShowComment(f[k - 1], u[q + 1]), u, q + 1)
      BY <1>3, <1>5, <2>7, <2>8, ShowCommentShows
    <2>11. f[k] = ShowComment(f[k - 1], u[q + 1]) BY <1>1, <2>5, <2>9
    <2>12. Good(k) BY <2>7, <2>10, <2>11 DEF Good
    <2> QED BY <2>3, <2>12
  <1>7. m \in 0 .. m BY <1>2
  <1>8. f[m] \in Seq(Note) /\ ShowsTo(f[m], u, Len(u)) BY <1>3, <1>6, <1>7
  <1>9. Shows(f[m], u) BY <1>3, <1>8, ShowsAll
  <1>10. UniqById(u) \in Seq(Note) /\ Shows(f[m], UniqById(u)) BY <1>3, <1>8, <1>9, UniqShows
  <1> QED BY <1>1, <1>8, <1>10 DEF u, m

(* What is made is shown.                                                  *)
LEMMA CreatedShows ==
  ASSUME NEW l \in Seq(Note), NEW s \in Seq(Note), Shows(l, s), NEW n \in Note
  PROVE  /\ ShowComment(l, n) \in Seq(Note) /\ Append(s, n) \in Seq(Note)
         /\ Shows(ShowComment(l, n), Append(s, n))
  <1> DEFINE u == Append(s, n)
             c == <<n>>
  <1>1. c \in Seq(Note) OBVIOUS
  <1>2. u = s \o c BY AppendIsConcat
  <1>3. Len(s) \in Nat BY NotesAre
  <1>4. u \in Seq(Note) /\ Len(u) = Len(s) + 1 /\ u[Len(s) + 1] = n BY AppendProperties
  <1> HIDE DEF u, c
  <1>5. ShowsTo(l, u, Len(s)) BY <1>1, <1>2, ShowsPrefix
  <1>6. Len(s) + 1 \in DOMAIN u
    <2>1. DOMAIN u = 1 .. Len(u) BY <1>4, NotesAre
    <2> QED BY <1>3, <1>4, <2>1
  <1>7. ShowComment(l, n) \in Seq(Note) /\ ShowsTo(ShowComment(l, n), u, Len(u))
    <2>1. /\ ShowComment(l, u[Len(s) + 1]) \in Seq(Note)
          /\ ShowsTo(ShowComment(l, u[Len(s) + 1]), u, Len(s) + 1)
      BY <1>3, <1>4, <1>5, <1>6, ShowCommentShows
    <2> QED BY <1>4, <2>1
  <1>8. Shows(ShowComment(l, n), u) BY <1>4, <1>7, ShowsAll
  <1> QED BY <1>4, <1>7, <1>8 DEF u

LEMMA EmptyShows == Shows(<<>>, <<>>)
  BY DEF Shows, Ordered, KnownIn

(* That a list shows the storage is what the two properties say of it.     *)
LEMMA ShowsMeans ==
  ASSUME NEW l \in Seq(Note), NEW s \in Seq(Note), Shows(l, s)
  PROVE  /\ KnownIn(l) = KnownIn(s)
         /\ \A i \in DOMAIN l : s[First(s, l[i].id)] = l[i]
         /\ \A i, j \in DOMAIN l : i < j => l[i].step <= l[j].step /\ l[i].id # l[j].id
  <1>1. \A i \in DOMAIN l : s[First(s, l[i].id)] = l[i] BY FirstHas DEF Shows
  <1> QED BY <1>1 DEF Shows, Ordered
-----------------------------------------------------------------------------
(* Every client's list shows its storage.                                  *)
ListsInv == \A c \in Clients : Shows(list[c], storage[c])
ViewInv  == TypeOK /\ ListsInv

Operation == [from : Clients, request : Changes \cup {Load}, at : {"asked", "done"}, found : Seq(Note)]
Event     == Changes \cup [kind : {"answer"}, notes : Seq(Note)]

(* TypeOK by what the steps change.                                        *)
UserTypes    == here \in [Clients -> Steps] /\ editing \in [Clients -> Edits]
ListTypes    == storage \in [Clients -> Seq(Note)] /\ list \in [Clients -> Seq(Note)]
RequestTypes == requests \in [Clients -> Seq(Changes \cup {Load})]
EventTypes   == events \in [Clients -> Seq(Event)]
ServerTypes  == room \subseteq Clients /\ \A op \in ops : op \in Operation
IndexTypes   == {index, searchable} \subseteq [Ids -> {<<>>} \cup [text : Texts, step : Steps]]
CountTypes   == made \in 0 .. MaxMade /\ acts \in 0 .. MaxActs

LEMMA TypesAre ==
  TypeOK <=> /\ UserTypes /\ ListTypes /\ RequestTypes /\ EventTypes
             /\ ServerTypes /\ IndexTypes /\ CountTypes
  BY DEF TypeOK, UserTypes, ListTypes, RequestTypes, EventTypes, ServerTypes, IndexTypes, CountTypes, Operation, Event

LEMMA ViewParts ==
  ViewInv <=> /\ UserTypes /\ ListTypes /\ RequestTypes /\ EventTypes
              /\ ServerTypes /\ IndexTypes /\ CountTypes /\ ListsInv
  BY TypesAre DEF ViewInv

LEMMA ViewPartsNext ==
  ViewInv' <=> /\ UserTypes' /\ ListTypes' /\ RequestTypes' /\ EventTypes'
               /\ ServerTypes' /\ IndexTypes' /\ CountTypes' /\ ListsInv'
  BY DEF ViewInv, TypeOK, UserTypes, ListTypes, RequestTypes, EventTypes, ServerTypes, IndexTypes, CountTypes, Operation, Event

(* What a step leaves alone keeps its types.                               *)
LEMMA Untouched ==
  ASSUME ViewInv
  PROVE  /\ UNCHANGED <<here, editing>> => UserTypes'
         /\ UNCHANGED <<storage, list>> => ListTypes' /\ ListsInv'
         /\ UNCHANGED requests => RequestTypes'
         /\ UNCHANGED events => EventTypes'
         /\ UNCHANGED <<room, ops>> => ServerTypes'
         /\ UNCHANGED <<index, searchable>> => IndexTypes'
         /\ UNCHANGED <<made, acts>> => CountTypes'
  <1>0. /\ UserTypes /\ ListTypes /\ RequestTypes /\ EventTypes
        /\ ServerTypes /\ IndexTypes /\ CountTypes /\ ListsInv BY ViewParts
  <1>1. UNCHANGED <<here, editing>> => UserTypes' BY <1>0 DEF UserTypes
  <1>2. UNCHANGED <<storage, list>> => ListTypes' BY <1>0 DEF ListTypes
  <1>3. UNCHANGED <<storage, list>> => ListsInv' BY <1>0 DEF ListsInv
  <1>4. UNCHANGED requests => RequestTypes' BY <1>0 DEF RequestTypes
  <1>5. UNCHANGED events => EventTypes' BY <1>0 DEF EventTypes
  <1>6. UNCHANGED <<room, ops>> => ServerTypes' BY <1>0 DEF ServerTypes
  <1>7. UNCHANGED <<index, searchable>> => IndexTypes' BY <1>0 DEF IndexTypes
  <1>8. UNCHANGED <<made, acts>> => CountTypes' BY <1>0 DEF CountTypes
  <1> QED BY <1>1, <1>2, <1>3, <1>4, <1>5, <1>6, <1>7, <1>8

LEMMA Counters == /\ MaxMade \in Nat /\ MaxActs \in Nat
                  /\ CountTypes => made \in Nat /\ acts \in Nat
  BY BoundsAssumption DEF CountTypes

-----------------------------------------------------------------------------
(* The hooks, as the event that is handled calls them.                     *)
LEMMA Hooked ==
  ASSUME ViewInv, NEW c \in Clients, NEW l \in Seq(Note), NEW s \in Seq(Note), Shows(l, s),
         list' = [list EXCEPT ![c] = l], storage' = [storage EXCEPT ![c] = s]
  PROVE  ListTypes' /\ ListsInv'
  <1>1. ListTypes /\ ListsInv BY ViewParts
  <1>2. ListTypes' BY <1>1 DEF ListTypes
  <1>3. ASSUME NEW d \in Clients PROVE Shows(list'[d], storage'[d])
    <2>1. CASE d = c
      <3>1. list'[d] = l /\ storage'[d] = s BY <1>1, <2>1 DEF ListTypes
      <3> QED BY <3>1
    <2>2. CASE d # c
      <3>1. list'[d] = list[d] /\ storage'[d] = storage[d] BY <1>1, <2>2 DEF ListTypes
      <3> QED BY <1>1, <3>1 DEF ListsInv
    <2> QED BY <2>1, <2>2
  <1> QED BY <1>2, <1>3 DEF ListsInv

LEMMA Have ==
  ASSUME ViewInv, NEW c \in Clients
  PROVE  list[c] \in Seq(Note) /\ storage[c] \in Seq(Note) /\ Shows(list[c], storage[c])
  <1>1. ListTypes /\ ListsInv BY ViewParts
  <1> QED BY <1>1 DEF ListTypes, ListsInv

LEMMA CreatedKeeps ==
  ASSUME ViewInv, NEW c \in Clients, NEW n \in Note, AnnotationCreated(c, n)
  PROVE  ListTypes' /\ ListsInv'
  <1> DEFINE l == ShowComment(list[c], n)
             s == Append(storage[c], n)
  <1>1. list' = [list EXCEPT ![c] = l] /\ storage' = [storage EXCEPT ![c] = s] BY DEF AnnotationCreated
  <1>2. l \in Seq(Note) /\ s \in Seq(Note) /\ Shows(l, s) BY Have, CreatedShows
  <1> HIDE DEF l, s
  <1> QED BY <1>1, <1>2, Hooked

LEMMA UpdatedKeeps ==
  ASSUME ViewInv, NEW c \in Clients, NEW n \in Note, AnnotationUpdated(c, n)
  PROVE  ListTypes' /\ ListsInv'
  <1> DEFINE l == SetText(list[c], n.id, n.text)
             s == SetText(storage[c], n.id, n.text)
  <1>1. list' = [list EXCEPT ![c] = l] /\ storage' = [storage EXCEPT ![c] = s] BY DEF AnnotationUpdated
  <1>2. n.text \in Texts BY DEF Note
  <1>3. l \in Seq(Note) /\ s \in Seq(Note) /\ Shows(l, s) BY <1>2, Have, SetTextShows
  <1> HIDE DEF l, s
  <1> QED BY <1>1, <1>3, Hooked

LEMMA DeletedKeeps ==
  ASSUME ViewInv, NEW c \in Clients, NEW id, AnnotationDeleted(c, id)
  PROVE  ListTypes' /\ ListsInv'
  <1> DEFINE l == Drop(list[c], id)
             s == Drop(storage[c], id)
  <1>1. list' = [list EXCEPT ![c] = l] /\ storage' = [storage EXCEPT ![c] = s] BY DEF AnnotationDeleted
  <1>2. l \in Seq(Note) /\ s \in Seq(Note) /\ Shows(l, s) BY Have, DropShows
  <1> HIDE DEF l, s
  <1> QED BY <1>1, <1>2, Hooked

LEMMA LoadedKeeps ==
  ASSUME ViewInv, NEW c \in Clients, NEW ns \in Seq(Note), AnnotationsLoaded(c, ns)
  PROVE  ListTypes' /\ ListsInv'
  <1> DEFINE l == ShowComments(list[c], ns)
             s == UniqById(storage[c] \o ns)
  <1>1. list' = [list EXCEPT ![c] = l] /\ storage' = [storage EXCEPT ![c] = s] BY DEF AnnotationsLoaded
  <1>2. l \in Seq(Note) /\ s \in Seq(Note) /\ Shows(l, s) BY Have, LoadedShows
  <1> HIDE DEF l, s
  <1> QED BY <1>1, <1>2, Hooked

LEMMA EmitTypes ==
  ASSUME ViewInv, NEW c \in Clients, NEW kind \in {"create", "update", "delete"}, NEW n \in Note,
         acts < MaxActs, Emit(c, kind, n)
  PROVE  RequestTypes' /\ acts' \in 0 .. MaxActs
  <1> DEFINE r == [kind |-> kind, note |-> n]
  <1>1. RequestTypes /\ CountTypes BY ViewParts
  <1>2. r \in Changes \cup {Load} BY DEF Changes
  <1>3. requests' = [requests EXCEPT ![c] = Append(@, r)] /\ acts' = acts + 1 BY DEF Emit
  <1> HIDE DEF r
  <1>4. requests[c] \in Seq(Changes \cup {Load}) BY <1>1 DEF RequestTypes
  <1>5. Append(requests[c], r) \in Seq(Changes \cup {Load}) BY <1>2, <1>4, AppendProperties
  <1>6. RequestTypes' BY <1>1, <1>3, <1>5 DEF RequestTypes
  <1>7. acts' \in 0 .. MaxActs BY <1>1, <1>3, Counters DEF CountTypes
  <1> QED BY <1>6, <1>7

LEMMA EditingIs ==
  ASSUME NEW e \in Edits
  PROVE  /\ e.kind = "create" => e.step \in Steps
         /\ e.kind = "update" => e.note \in Note
  <1>1. CASE e = NoEdit BY <1>1 DEF NoEdit
  <1>2. CASE e \in [kind : {"create"}, step : Steps] BY <1>2
  <1>3. CASE e \in [kind : {"update"}, note : Note] BY <1>3
  <1> QED BY <1>1, <1>2, <1>3 DEF Edits

(* What users do.                                                          *)
LEMMA UserKeepsView ==
  ASSUME ViewInv, NEW c \in Clients, User(c)
  PROVE  ViewInv'
  <1>0. /\ UserTypes /\ ListTypes /\ RequestTypes /\ EventTypes
        /\ ServerTypes /\ IndexTypes /\ CountTypes /\ ListsInv BY ViewParts
  <1>1. /\ here[c] \in Steps /\ editing[c] \in Edits /\ NoEdit \in Edits
        /\ storage[c] \in Seq(Note)
    BY <1>0 DEF UserTypes, ListTypes, Edits
  <1>2. \A i \in DOMAIN storage[c] : storage[c][i] \in Note BY <1>1, NotesAre
  <1>3. MaxMade \in Nat /\ MaxActs \in Nat /\ made \in Nat /\ acts \in Nat BY <1>0, Counters
  <1>4. ASSUME NEW e \in Edits, UNCHANGED here, editing' = [editing EXCEPT ![c] = e] PROVE UserTypes'
    BY <1>0, <1>4 DEF UserTypes
  <1>5. ASSUME UNCHANGED <<events, room, ops, index, searchable>> PROVE EventTypes' /\ ServerTypes' /\ IndexTypes'
    BY <1>5, Untouched
  <1>6. ASSUME Annotate(c) \/ Edit(c) \/ Cancel(c) PROVE ViewInv'
    <2>1. /\ UNCHANGED <<here, storage, list>> /\ UNCHANGED requests
          /\ UNCHANGED <<events, room, ops, index, searchable>> /\ UNCHANGED <<made, acts>>
      BY <1>6 DEF Annotate, Edit, Cancel, server
    <2>2. ListTypes' /\ ListsInv' /\ RequestTypes' /\ CountTypes' BY <2>1, Untouched
    <2>3. \E e \in Edits : editing' = [editing EXCEPT ![c] = e]
      <3>1. CASE Annotate(c)
        <4>1. [kind |-> "create", step |-> here[c]] \in Edits BY <1>1 DEF Edits
        <4> QED BY <3>1, <4>1 DEF Annotate
      <3>2. CASE Edit(c)
        <4>1. PICK i \in DOMAIN storage[c] : editing' = [editing EXCEPT ![c] = [kind |-> "update", note |-> storage[c][i]]]
          BY <3>2 DEF Edit
        <4>2. [kind |-> "update", note |-> storage[c][i]] \in Edits BY <1>2 DEF Edits
        <4> QED BY <4>1, <4>2
      <3>3. CASE Cancel(c) BY <1>1, <3>3 DEF Cancel
      <3> QED BY <1>6, <3>1, <3>2, <3>3
    <2>4. UserTypes' BY <1>4, <2>1, <2>3
    <2> QED BY <1>5, <2>1, <2>2, <2>4, ViewPartsNext
  <1>7. ASSUME SaveNew(c) PROVE ViewInv'
    <2> DEFINE n == [id |-> made + 1, text |-> acts + 1, step |-> editing[c].step]
    <2>1. /\ editing[c].kind = "create" /\ acts < MaxActs /\ made < MaxMade
          /\ editing' = [editing EXCEPT ![c] = NoEdit] /\ made' = made + 1
          /\ Emit(c, "create", n) /\ AnnotationCreated(c, n)
          /\ UNCHANGED here /\ UNCHANGED <<events, room, ops, index, searchable>>
      BY <1>7 DEF SaveNew, server
    <2>2. n \in Note
      <3>1. editing[c].step \in Steps BY <1>1, <2>1, EditingIs
      <3>2. made + 1 \in Ids /\ acts + 1 \in Texts BY <1>3, <2>1 DEF Ids, Texts
      <3> QED BY <3>1, <3>2 DEF Note
    <2> HIDE DEF n
    <2>3. RequestTypes' /\ acts' \in 0 .. MaxActs BY <2>1, <2>2, EmitTypes
    <2>4. ListTypes' /\ ListsInv' BY <2>1, <2>2, CreatedKeeps
    <2>5. CountTypes' BY <1>3, <2>1, <2>3 DEF CountTypes
    <2>6. UserTypes' BY <1>1, <1>4, <2>1
    <2> QED BY <1>5, <2>1, <2>3, <2>4, <2>5, <2>6, ViewPartsNext
  <1>8. ASSUME SaveEdited(c) PROVE ViewInv'
    <2> DEFINE m == editing[c].note
               n == [m EXCEPT !.text = acts + 1]
    <2>1. /\ editing[c].kind = "update" /\ acts < MaxActs
          /\ editing' = [editing EXCEPT ![c] = NoEdit] /\ UNCHANGED made
          /\ Emit(c, "update", n) /\ AnnotationUpdated(c, n)
          /\ UNCHANGED here /\ UNCHANGED <<events, room, ops, index, searchable>>
      BY <1>8 DEF SaveEdited, server
    <2>2. n \in Note
      <3>1. m \in Note BY <1>1, <2>1, EditingIs
      <3>2. acts + 1 \in Texts BY <1>3, <2>1 DEF Texts
      <3> HIDE DEF m
      <3> QED BY <3>1, <3>2 DEF Note
    <2> HIDE DEF n
    <2>3. RequestTypes' /\ acts' \in 0 .. MaxActs BY <2>1, <2>2, EmitTypes
    <2>4. ListTypes' /\ ListsInv' BY <2>1, <2>2, UpdatedKeeps
    <2>5. CountTypes' BY <1>0, <2>1, <2>3 DEF CountTypes
    <2>6. UserTypes' BY <1>1, <1>4, <2>1
    <2> QED BY <1>5, <2>1, <2>3, <2>4, <2>5, <2>6, ViewPartsNext
  <1>9. ASSUME Delete(c) PROVE ViewInv'
    <2>1. /\ acts < MaxActs /\ UNCHANGED <<here, editing>> /\ UNCHANGED made
          /\ UNCHANGED <<events, room, ops, index, searchable>>
      BY <1>9 DEF Delete, server
    <2>2. PICK i \in DOMAIN storage[c] :
            Emit(c, "delete", storage[c][i]) /\ AnnotationDeleted(c, storage[c][i].id)
      BY <1>9 DEF Delete
    <2>3. RequestTypes' /\ acts' \in 0 .. MaxActs BY <1>2, <2>1, <2>2, EmitTypes
    <2>4. ListTypes' /\ ListsInv' BY <2>2, DeletedKeeps
    <2>5. CountTypes' BY <1>0, <2>1, <2>3 DEF CountTypes
    <2>6. UserTypes' BY <2>1, Untouched
    <2> QED BY <1>5, <2>1, <2>3, <2>4, <2>5, <2>6, ViewPartsNext
  <1>10. ASSUME NEW s \in Steps, MoveTo(c, s) PROVE ViewInv'
    <2>1. /\ here' = [here EXCEPT ![c] = s] /\ AnnotationsLoaded(c, OfStep(storage[c], s))
          /\ UNCHANGED editing /\ UNCHANGED requests
          /\ UNCHANGED <<events, room, ops, index, searchable>> /\ UNCHANGED <<made, acts>>
      BY <1>10 DEF MoveTo, server
    <2>2. OfStep(storage[c], s) \in Seq(Note)
      <3> DEFINE K == {i \in DOMAIN storage[c] : storage[c][i].step = s}
      <3>1. K \subseteq DOMAIN storage[c] /\ OfStep(storage[c], s) = Chosen(storage[c], K) BY DEF OfStep
      <3> HIDE DEF K
      <3> QED BY <1>1, <3>1, ChosenNotes
    <2>3. ListTypes' /\ ListsInv' BY <2>1, <2>2, LoadedKeeps
    <2>4. RequestTypes' /\ CountTypes' BY <2>1, Untouched
    <2>5. UserTypes' BY <1>0, <2>1 DEF UserTypes
    <2> QED BY <1>5, <2>1, <2>3, <2>4, <2>5, ViewPartsNext
  <1> QED BY <1>6, <1>7, <1>8, <1>9, <1>10 DEF User
-----------------------------------------------------------------------------
LEMMA EventIs ==
  ASSUME NEW e \in Event
  PROVE  /\ e.kind = "answer" => e.notes \in Seq(Note)
         /\ e.kind # "answer" => e \in Changes /\ e.note \in Note
  <1>1. CASE e \in Changes BY <1>1 DEF Changes
  <1>2. CASE e \in [kind : {"answer"}, notes : Seq(Note)] BY <1>2
  <1> QED BY <1>1, <1>2 DEF Event

LEMMA HearKeepsView ==
  ASSUME ViewInv, NEW c \in Clients, Hear(c)
  PROVE  ViewInv'
  <1> DEFINE e == Head(events[c])
  <1>0. EventTypes BY ViewParts
  <1>1. /\ events[c] # <<>> /\ Handled(c, e) /\ events' = [events EXCEPT ![c] = Tail(@)]
        /\ UNCHANGED <<here, editing>> /\ UNCHANGED requests /\ UNCHANGED <<room, ops>> /\ UNCHANGED <<index, searchable>>
        /\ UNCHANGED <<made, acts>>
    BY DEF Hear, server, counts
  <1>2. UserTypes' /\ RequestTypes' /\ ServerTypes' /\ IndexTypes' /\ CountTypes' BY <1>1, Untouched
  <1>3. events[c] \in Seq(Event) BY <1>0 DEF EventTypes
  <1>4. e \in Event /\ Tail(events[c]) \in Seq(Event) BY <1>1, <1>3, HeadTailProperties
  <1>5. EventTypes' BY <1>0, <1>1, <1>4 DEF EventTypes
  <1> HIDE DEF e
  <1>6. ListTypes' /\ ListsInv'
    <2>1. CASE e.kind = "answer" /\ AnnotationsLoaded(c, e.notes)
      <3>1. e.notes \in Seq(Note) BY <1>4, <2>1, EventIs
      <3> QED BY <2>1, <3>1, LoadedKeeps
    <2>2. CASE UNCHANGED <<storage, list>> BY <2>2, Untouched
    <2>3. CASE e.kind = "update" /\ AnnotationUpdated(c, e.note)
      <3>1. e.note \in Note BY <1>4, <2>3, EventIs
      <3> QED BY <2>3, <3>1, UpdatedKeeps
    <2>4. CASE e.kind = "delete" /\ AnnotationDeleted(c, e.note.id) BY <2>4, DeletedKeeps
    <2> QED BY <1>1, <2>1, <2>2, <2>3, <2>4 DEF Handled
  <1> QED BY <1>2, <1>5, <1>6, ViewPartsNext

LEMMA ServeKeepsView ==
  ASSUME ViewInv, NEW c \in Clients, Serve(c)
  PROVE  ViewInv'
  <1> DEFINE r == Head(requests[c])
             op == [from |-> c, request |-> r, at |-> "asked", found |-> <<>>]
  <1>0. RequestTypes /\ ServerTypes BY ViewParts
  <1>1. /\ requests[c] # <<>> /\ requests' = [requests EXCEPT ![c] = Tail(@)]
        /\ room' = IF r = Load THEN room \cup {c} ELSE room
        /\ ops' = ops \cup {op}
        /\ UNCHANGED <<here, editing>> /\ UNCHANGED <<storage, list>> /\ UNCHANGED events /\ UNCHANGED <<index, searchable>>
        /\ UNCHANGED <<made, acts>>
    BY DEF Serve, client, counts
  <1>2. UserTypes' /\ ListTypes' /\ ListsInv' /\ EventTypes' /\ IndexTypes' /\ CountTypes' BY <1>1, Untouched
  <1>3. requests[c] \in Seq(Changes \cup {Load}) BY <1>0 DEF RequestTypes
  <1>4. r \in Changes \cup {Load} /\ Tail(requests[c]) \in Seq(Changes \cup {Load}) BY <1>1, <1>3, HeadTailProperties
  <1>5. RequestTypes' BY <1>0, <1>1, <1>4 DEF RequestTypes
  <1> HIDE DEF r
  <1>6. op \in Operation
    <2>1. <<>> \in Seq(Note) OBVIOUS
    <2> QED BY <1>4, <2>1 DEF Operation
  <1> HIDE DEF op
  <1>7. ServerTypes' BY <1>0, <1>1, <1>6 DEF ServerTypes
  <1> QED BY <1>2, <1>5, <1>7, ViewPartsNext

LEMMA DisconnectKeepsView ==
  ASSUME ViewInv, NEW c \in Clients, Disconnect(c)
  PROVE  ViewInv'
  <1>0. RequestTypes /\ EventTypes /\ ServerTypes BY ViewParts
  <1>1. /\ requests' = [requests EXCEPT ![c] = <<>>] /\ events' = [events EXCEPT ![c] = <<>>]
        /\ room' = room \ {c} /\ UNCHANGED ops
        /\ UNCHANGED <<here, editing>> /\ UNCHANGED <<storage, list>> /\ UNCHANGED <<index, searchable>> /\ UNCHANGED <<made, acts>>
    BY DEF Disconnect, client
  <1>2. UserTypes' /\ ListTypes' /\ ListsInv' /\ IndexTypes' /\ CountTypes' BY <1>1, Untouched
  <1>3. <<>> \in Seq(Changes \cup {Load}) /\ <<>> \in Seq(Event) OBVIOUS
  <1>4. RequestTypes' BY <1>0, <1>1, <1>3 DEF RequestTypes
  <1>5. EventTypes' BY <1>0, <1>1, <1>3 DEF EventTypes
  <1>6. ServerTypes' BY <1>0, <1>1 DEF ServerTypes
  <1> QED BY <1>2, <1>4, <1>5, <1>6, ViewPartsNext

(* There are finitely many annotations, so a search finds a list of them.  *)
LEMMA FoundIs ==
  ASSUME IndexTypes, NEW ns \in Found(Stored)
  PROVE  ns \in Seq(Note)
  <1> DEFINE J == {j \in Ids : searchable[j] # <<>>}
  <1>1. Stored \subseteq Note
    <2> SUFFICES ASSUME NEW i \in Ids, searchable[i] # <<>>
                 PROVE  [id |-> i, text |-> searchable[i].text, step |-> searchable[i].step] \in Note
      BY DEF Stored
    <2>1. searchable[i] \in [text : Texts, step : Steps] BY DEF IndexTypes
    <2> QED BY <2>1 DEF Note
  <1>2. IsFiniteSet(Ids)
    <2>1. 1 \in Int /\ MaxMade \in Int BY Counters
    <2> QED BY <2>1, FS_Interval DEF Ids
  <1>3. IsFiniteSet(J) BY <1>2, FS_Subset
  <1>4. IsFiniteSet(Stored)
    <2> DEFINE F == [j \in J |-> [id |-> j, text |-> searchable[j].text, step |-> searchable[j].step]]
    <2>1. Stored = {F[j] : j \in J} BY DEF Stored
    <2>2. F \in Surjection(J, Stored) BY <2>1 DEF Surjection
    <2> HIDE DEF F, J
    <2> QED BY <1>3, <2>2, FS_Surjection
  <1>5. Cardinality(Stored) \in Nat BY <1>4, FS_CardinalityType
  <1>6. ns \in [1 .. Cardinality(Stored) -> Stored] BY DEF Found
  <1>7. ns \in [1 .. Cardinality(Stored) -> Note] BY <1>1, <1>6
  <1> QED BY <1>5, <1>7

LEMMA SearchKeepsView ==
  ASSUME ViewInv, NEW op \in ops, Search(op)
  PROVE  ViewInv'
  <1>0. ServerTypes /\ IndexTypes BY ViewParts
  <1>1. /\ UNCHANGED <<here, editing>> /\ UNCHANGED <<storage, list>> /\ UNCHANGED requests /\ UNCHANGED events
        /\ UNCHANGED room /\ UNCHANGED <<index, searchable>> /\ UNCHANGED <<made, acts>>
    BY DEF Search, client, counts
  <1>2. UserTypes' /\ ListTypes' /\ ListsInv' /\ RequestTypes' /\ EventTypes' /\ IndexTypes' /\ CountTypes'
    BY <1>1, Untouched
  <1> DEFINE done(ns) == [from |-> op.from, request |-> Load, at |-> "done", found |-> ns]
  <1>3. PICK ns \in Found(Stored) : ops' = (ops \ {op}) \cup {done(ns)} BY DEF Search
  <1>4. ns \in Seq(Note) BY <1>0, FoundIs
  <1>5. done(ns) \in Operation BY <1>0, <1>4 DEF ServerTypes, Operation
  <1> HIDE DEF done
  <1>6. ServerTypes' BY <1>0, <1>1, <1>3, <1>5 DEF ServerTypes
  <1> QED BY <1>2, <1>6, ViewPartsNext

LEMMA RefreshKeepsView ==
  ASSUME ViewInv, NEW i \in Ids, Refresh(i)
  PROVE  ViewInv'
  <1> DEFINE D == {<<>>} \cup [text : Texts, step : Steps]
  <1>0. IndexTypes BY ViewParts
  <1>1. /\ UNCHANGED <<here, editing>> /\ UNCHANGED <<storage, list>> /\ UNCHANGED requests /\ UNCHANGED events
        /\ UNCHANGED <<room, ops>> /\ UNCHANGED index /\ UNCHANGED <<made, acts>>
        /\ searchable' = [searchable EXCEPT ![i] = index[i]]
    BY DEF Refresh, client, counts
  <1>2. UserTypes' /\ ListTypes' /\ ListsInv' /\ RequestTypes' /\ EventTypes' /\ ServerTypes' /\ CountTypes'
    BY <1>1, Untouched
  <1>3. index \in [Ids -> D] /\ searchable \in [Ids -> D] BY <1>0 DEF IndexTypes
  <1> HIDE DEF D
  <1>4. index' \in [Ids -> D] /\ searchable' \in [Ids -> D] BY <1>1, <1>3
  <1>5. IndexTypes' BY <1>4 DEF IndexTypes, D
  <1> QED BY <1>2, <1>5, ViewPartsNext

LEMMA PerformKeepsView ==
  ASSUME ViewInv, NEW op \in ops, Perform(op)
  PROVE  ViewInv'
  <1> DEFINE r == op.request
             n == r.note
             o == [op EXCEPT !.at = "done"]
             D == {<<>>} \cup [text : Texts, step : Steps]
  <1>0. ServerTypes /\ IndexTypes BY ViewParts
  <1>1. /\ UNCHANGED <<here, editing>> /\ UNCHANGED <<storage, list>> /\ UNCHANGED requests /\ UNCHANGED events
        /\ UNCHANGED room /\ UNCHANGED <<made, acts>> /\ ops' = (ops \ {op}) \cup {o}
    BY DEF Perform, client, counts
  <1>2. UserTypes' /\ ListTypes' /\ ListsInv' /\ RequestTypes' /\ EventTypes' /\ CountTypes'
    BY <1>1, Untouched
  <1>3. op \in Operation /\ r # Load BY <1>0 DEF ServerTypes, Perform
  <1>4. o \in Operation BY <1>3 DEF Operation
  <1>5. r \in Changes BY <1>3 DEF Operation
  <1>6. r.kind \in {"create", "update", "delete"} /\ n \in Note BY <1>5 DEF Changes
  <1> HIDE DEF o
  <1>7. ServerTypes' BY <1>0, <1>1, <1>4 DEF ServerTypes
  <1>8. PICK x : /\ index' = [index EXCEPT ![n.id] = x]
                 /\ r.kind = "create" => x = [text |-> n.text, step |-> n.step]
                 /\ r.kind = "update" => x = [index[n.id] EXCEPT !.text = n.text] /\ index[n.id] # <<>>
                 /\ r.kind = "delete" => x = <<>>
    BY <1>6 DEF Perform
  <1> HIDE DEF r, n
  <1>9. n.id \in Ids /\ n.text \in Texts /\ n.step \in Steps BY <1>6 DEF Note
  <1>10. x \in D
    <2>1. CASE r.kind = "create" BY <1>8, <1>9, <2>1
    <2>2. CASE r.kind = "update"
      <3>1. index[n.id] \in [text : Texts, step : Steps] BY <1>0, <1>8, <1>9, <2>2 DEF IndexTypes
      <3>2. x \in [text : Texts, step : Steps] BY <1>8, <1>9, <2>2, <3>1
      <3> QED BY <3>2
    <2>3. CASE r.kind = "delete" BY <1>8, <2>3
    <2> QED BY <1>6, <2>1, <2>2, <2>3
  <1>11. index \in [Ids -> D] /\ searchable' \in [Ids -> D] BY <1>0 DEF IndexTypes, Perform
  <1> HIDE DEF D
  <1>12. index' \in [Ids -> D] /\ searchable' \in [Ids -> D] BY <1>8, <1>10, <1>11
  <1>13. IndexTypes' BY <1>12 DEF IndexTypes, D
  <1> QED BY <1>2, <1>7, <1>13, ViewPartsNext

LEMMA AnswerKeepsView ==
  ASSUME ViewInv, NEW op \in ops, Answer(op)
  PROVE  ViewInv'
  <1> DEFINE e == [kind |-> "answer", notes |-> op.found]
  <1>0. ServerTypes /\ EventTypes BY ViewParts
  <1>1. /\ UNCHANGED <<here, editing>> /\ UNCHANGED <<storage, list>> /\ UNCHANGED requests /\ UNCHANGED <<index, searchable>>
        /\ UNCHANGED room /\ UNCHANGED <<made, acts>> /\ ops' = ops \ {op}
    BY DEF Answer, client, counts
  <1>2. UserTypes' /\ ListTypes' /\ ListsInv' /\ RequestTypes' /\ IndexTypes' /\ CountTypes' BY <1>1, Untouched
  <1>3. ServerTypes' BY <1>0, <1>1 DEF ServerTypes
  <1>4. op.found \in Seq(Note) /\ op.request \in Changes \cup {Load} BY <1>0 DEF ServerTypes, Operation
  <1>5. e \in Event /\ (op.request # Load => op.request \in Event) BY <1>4 DEF Event
  <1>6. PICK to : \E m \in Event : Send(to, m) BY <1>5 DEF Answer
  <1>7. PICK m \in Event : Send(to, m) BY <1>6
  <1>8. ASSUME NEW c \in Clients
        PROVE  (IF c \in to THEN Append(events[c], m) ELSE events[c]) \in Seq(Event)
    <2>1. events[c] \in Seq(Event) BY <1>0 DEF EventTypes
    <2>2. Append(events[c], m) \in Seq(Event) BY <2>1, AppendProperties
    <2> QED BY <2>1, <2>2
  <1>9. EventTypes' BY <1>7, <1>8 DEF Send, EventTypes
  <1> QED BY <1>2, <1>3, <1>9, ViewPartsNext

LEMMA FailKeepsView ==
  ASSUME ViewInv, NEW op \in ops, Fail(op)
  PROVE  ViewInv'
  <1>0. ServerTypes BY ViewParts
  <1>1. /\ UNCHANGED <<here, editing>> /\ UNCHANGED <<storage, list>> /\ UNCHANGED requests /\ UNCHANGED events
        /\ UNCHANGED <<index, searchable>> /\ UNCHANGED room /\ UNCHANGED <<made, acts>> /\ ops' = ops \ {op}
    BY DEF Fail, client
  <1>2. UserTypes' /\ ListTypes' /\ ListsInv' /\ RequestTypes' /\ EventTypes' /\ IndexTypes' /\ CountTypes'
    BY <1>1, Untouched
  <1>3. ServerTypes' BY <1>0, <1>1 DEF ServerTypes
  <1> QED BY <1>2, <1>3, ViewPartsNext

LEMMA ViewBegins == Init => ViewInv
  <1> SUFFICES ASSUME Init PROVE ViewInv OBVIOUS
  <1>1. UserTypes BY StepsAssumption DEF Init, UserTypes, Edits
  <1>2. ListTypes BY DEF Init, ListTypes
  <1>3. RequestTypes BY DEF Init, RequestTypes
  <1>4. EventTypes /\ ServerTypes BY DEF Init, EventTypes, ServerTypes
  <1>5. IndexTypes BY DEF Init, IndexTypes
  <1>6. CountTypes BY Counters DEF Init, CountTypes
  <1>7. ListsInv BY EmptyShows DEF Init, ListsInv
  <1> QED BY <1>1, <1>2, <1>3, <1>4, <1>5, <1>6, <1>7, ViewParts

LEMMA ViewInvariance == Spec => []ViewInv
  <1>1. Init => ViewInv BY ViewBegins
  <1>2. ViewInv /\ [Next]_vars => ViewInv'
    <2> SUFFICES ASSUME ViewInv, [Next]_vars PROVE ViewInv' OBVIOUS
    <2>1. ASSUME NEW c \in Clients, User(c) PROVE ViewInv' BY <2>1, UserKeepsView
    <2>2. ASSUME NEW c \in Clients, Hear(c) PROVE ViewInv' BY <2>2, HearKeepsView
    <2>3. ASSUME NEW c \in Clients, Serve(c) PROVE ViewInv' BY <2>3, ServeKeepsView
    <2>4. ASSUME NEW c \in Clients, Disconnect(c) PROVE ViewInv' BY <2>4, DisconnectKeepsView
    <2>5. ASSUME NEW op \in ops, Search(op) PROVE ViewInv' BY <2>5, SearchKeepsView
    <2>6. ASSUME NEW op \in ops, Perform(op) PROVE ViewInv' BY <2>6, PerformKeepsView
    <2>7. ASSUME NEW op \in ops, Answer(op) PROVE ViewInv' BY <2>7, AnswerKeepsView
    <2>8. ASSUME NEW op \in ops, Fail(op) PROVE ViewInv' BY <2>8, FailKeepsView
    <2>9. ASSUME NEW i \in Ids, Refresh(i) PROVE ViewInv' BY <2>9, RefreshKeepsView
    <2>10. CASE UNCHANGED vars
      <3>1. /\ UNCHANGED <<here, editing>> /\ UNCHANGED <<storage, list>> /\ UNCHANGED requests /\ UNCHANGED events
            /\ UNCHANGED <<room, ops>> /\ UNCHANGED <<index, searchable>> /\ UNCHANGED <<made, acts>>
        BY <2>10 DEF vars, client, server, counts
      <3> QED BY <3>1, Untouched, ViewPartsNext
    <2> QED BY <2>1, <2>2, <2>3, <2>4, <2>5, <2>6, <2>7, <2>8, <2>9, <2>10 DEF Next
  <1> QED BY <1>1, <1>2, PTL DEF Spec

(* Whoever makes, changes and deletes annotations, and in whatever order   *)
(* the server's messages come, all that is kept and sent has its type.     *)
THEOREM TypeCorrect == Spec => []TypeOK
  <1>1. ViewInv => TypeOK BY DEF ViewInv
  <1> QED BY <1>1, ViewInvariance, PTL

(* The comments listed are the annotations in the storage, each as its     *)
(* first entry there has it, which is the one that the hooks of annotator  *)
(* and of the list look up and change.                                     *)
THEOREM ListShowsStorage == Spec => []ListIsStorage
  <1>1. ViewInv => ListIsStorage BY Have, ShowsMeans DEF ListIsStorage
  <1> QED BY <1>1, ViewInvariance, PTL

(* Comments stand in the order of steps, each once, however they come:     *)
(* made here, loaded once more, or at a move to another step.              *)
THEOREM CommentsStandInOrder == Spec => []CommentsInOrder
  <1>1. ViewInv => CommentsInOrder BY Have, ShowsMeans DEF CommentsInOrder
  <1> QED BY <1>1, ViewInvariance, PTL
=============================================================================
