------------------------------ MODULE Promises ------------------------------
(***************************************************************************)
(* The promises annotator.js is bundled with, on which its storage and its *)
(* hooks rest.  Whoever holds the functions of a promise's resolver calls  *)
(* them, and anyone calls then, from an event or from within a callback;   *)
(* callbacks run from one queue, which a flush works off.                  *)
(*                                                                         *)
(* The promise made by a then that only handleThenable or all has called   *)
(* is left out: nobody holds it.                                           *)
(***************************************************************************)
EXTENDS Naturals, Sequences

CONSTANTS Plain,        \* values that are no promises
          Error,        \* the TypeError of a promise that would follow itself
          Array,        \* the array all is fulfilled with
          Callbacks,    \* what then is called with: the cases for which there is a callback
          MaxPromises,  \* bound: promises in all
          MaxCalls,     \* bound: calls of resolver functions
          MaxInputs     \* bound: length of what all is called with

ASSUME PlainAssumption == Error \in Plain /\ Array \in Plain /\ Plain \cap Nat = {}
ASSUME BoundAssumption == MaxPromises \in Nat /\ MaxCalls \in Nat /\ MaxInputs \in Nat

VARIABLES created,     \* promises so far; they are numbered
          opened,      \* those whose resolver functions someone holds
          state, detail, subscribers,
          inputs,      \* what a promise made by all waits for
          results, remaining, looping,   \* the variables of all, and where its loop is (0: nowhere)
          queue, next, \* asap's queue, and the place its flush has got to (0: none runs)
          publishing,  \* the subscriber a publish has got to (0: none runs)
          calling,     \* the callback that is running, as a set of at most one
          calls,       \* counts up to MaxCalls
          registered, ran, told    \* history: see Implementation, ToldSo

settlement == <<state, detail>>
alls       == <<inputs, results, remaining, looping>>
flushing   == <<next, publishing, calling>>
history    == <<registered, ran, told>>
vars == <<created, opened, settlement, subscribers, alls, queue, flushing, calls, history>>

Ids     == 1 .. MaxPromises
Values  == Plain \cup Ids
Known   == Plain \cup 1 .. created
Settled == {"fulfilled", "rejected"}
ASSUME CallbacksAssumption == Callbacks \subseteq SUBSET Settled
Nothing == 0

(* A subscriber: who is told (child) and how.  A "then" has callbacks for  *)
(* the cases in handles; "adopt" is what handleThenable passes to then;    *)
(* "all" is the resolver for an index, and reject.                         *)
Subscriber ==
  [type : {"then", "adopt", "all"}, child : Ids, handles : SUBSET Settled, index : 0 .. MaxInputs]
ThenBy(c, h) == [type |-> "then", child |-> c, handles |-> h, index |-> 0]
AdoptBy(c)   == [type |-> "adopt", child |-> c, handles |-> {}, index |-> 0]
AllBy(c, i)  == [type |-> "all", child |-> c, handles |-> {}, index |-> i]

(* A tuple of the queue: to publish that a promise is settled, or to       *)
(* invoke a callback registered on one that was settled already.           *)
PublishJob(p, s) == [does |-> "publish", promise |-> p, as |-> s, by |-> {}]
InvokeJob(p, e)  == [does |-> "invoke", promise |-> p, as |-> state[p], by |-> {e}]
Job == [does : {"publish", "invoke"}, promise : Ids, as : Settled, by : SUBSET Subscriber]

TypeOK ==
  /\ created \in 0 .. MaxPromises
  /\ opened \subseteq 1 .. created
  /\ state \in [Ids -> {"pending", "sealed"} \cup Settled]
  /\ detail \in [Ids -> Values \cup {Nothing}]
  /\ subscribers \in [Ids -> Seq(Subscriber)]
  /\ inputs \in [Ids -> Seq(Values)]
  /\ results \in [Ids -> [1 .. MaxInputs -> Values \cup {Nothing}]]
  /\ remaining \in [Ids -> Nat]
  /\ looping \in 0 .. MaxInputs
  /\ queue \in Seq(Job)
  /\ next \in 0 .. Len(queue) + 1
  /\ publishing \in Nat
  /\ calling \subseteq Subscriber
  /\ calls \in 0 .. MaxCalls
  /\ registered \in [Ids -> Seq(Ids)]
  /\ ran \in [Ids -> Seq(Ids)]
  /\ told \in [Ids -> Seq([as : Settled \cup {"follow"}, value : Values])]

Init ==
  /\ created = 0
  /\ opened = {}
  /\ state = [p \in Ids |-> "pending"]
  /\ detail = [p \in Ids |-> Nothing]
  /\ subscribers = [p \in Ids |-> <<>>]
  /\ inputs = [p \in Ids |-> <<>>]
  /\ results = [p \in Ids |-> [i \in 1 .. MaxInputs |-> Nothing]]
  /\ remaining = [p \in Ids |-> 0]
  /\ looping = 0
  /\ queue = <<>>
  /\ next = 0
  /\ publishing = 0
  /\ calling = {}
  /\ calls = 0
  /\ registered = [p \in Ids |-> <<>>]
  /\ ran = [p \in Ids |-> <<>>]
  /\ told = [p \in Ids |-> <<>>]

-----------------------------------------------------------------------------
(* What the functions do to a promise.                                     *)

(* What if a promise could be settled again until it has been published?   *)
SettleAgain(p, s, v) ==
  IF state[p] \in {"pending", "sealed"}
  THEN /\ state' = [state EXCEPT ![p] = "sealed"]
       /\ detail' = [detail EXCEPT ![p] = v]
       /\ queue' = Append(queue, PublishJob(p, s))
  ELSE UNCHANGED <<settlement, queue>>

Settle(p, s, v) ==
  IF state[p] = "pending"
  THEN /\ state' = [state EXCEPT ![p] = "sealed"]
       /\ detail' = [detail EXCEPT ![p] = v]
       /\ queue' = Append(queue, PublishJob(p, s))
  ELSE UNCHANGED <<settlement, queue>>

Subscribe(q, e) ==
  IF state[q] \in Settled
  THEN /\ queue' = Append(queue, InvokeJob(q, e))
       /\ UNCHANGED subscribers
  ELSE /\ subscribers' = [subscribers EXCEPT ![q] = Append(@, e)]
       /\ UNCHANGED queue

Resolve(p, v) ==
  \/ /\ v \in Ids \ {p}
     /\ Subscribe(v, AdoptBy(p))
     /\ UNCHANGED settlement
  \/ /\ v \notin Ids \ {p}
     /\ Settle(p, "fulfilled", v)
     /\ UNCHANGED subscribers

Reject(p, v) == Settle(p, "rejected", v) /\ UNCHANGED subscribers

(* What if all collected the values in the order in which they arrive?     *)
ResolveAllPushing(a, i, v) ==
  /\ results' = [results EXCEPT ![a][Len(inputs[a]) - remaining[a] + 1] = v]
  /\ remaining' = [remaining EXCEPT ![a] = @ - 1]
  /\ IF remaining[a] = 1 THEN Resolve(a, Array) ELSE UNCHANGED <<settlement, subscribers, queue>>
  /\ UNCHANGED inputs

ResolveAll(a, i, v) ==
  /\ results' = [results EXCEPT ![a][i] = v]
  /\ remaining' = [remaining EXCEPT ![a] = @ - 1]
  /\ IF remaining[a] = 1 THEN Resolve(a, Array) ELSE UNCHANGED <<settlement, subscribers, queue>>
  /\ UNCHANGED inputs

Tell(p, s, v) == told' = IF state[p] = "pending"
                         THEN [told EXCEPT ![p] = Append(@, [as |-> s, value |-> v])] ELSE told
TellValue(p, v) == Tell(p, IF v \in Ids \ {p} THEN "follow" ELSE "fulfilled", v)

-----------------------------------------------------------------------------
(* What is done with promises, in an event or in a callback.               *)

Running == looping = 0 /\ (next = 0 \/ calling # {})

Open ==
  /\ Running /\ created < MaxPromises
  /\ created' = created + 1
  /\ opened' = opened \cup {created + 1}
  /\ UNCHANGED <<settlement, subscribers, alls, queue, flushing, calls, history>>

Counted == calls < MaxCalls /\ calls' = calls + 1

CallResolve(p, v) ==
  /\ Running /\ Counted
  /\ Resolve(p, v)
  /\ TellValue(p, v)
  /\ UNCHANGED <<created, opened, alls, flushing, registered, ran>>

CallReject(p, v) ==
  /\ Running /\ Counted
  /\ Reject(p, v)
  /\ Tell(p, "rejected", v)
  /\ UNCHANGED <<created, opened, alls, flushing, registered, ran>>

Then(p, h) ==
  /\ Running /\ created < MaxPromises
  /\ created' = created + 1
  /\ Subscribe(p, ThenBy(created + 1, h))
  /\ registered' = [registered EXCEPT ![p] = Append(@, created + 1)]
  /\ UNCHANGED <<opened, settlement, alls, flushing, calls, ran, told>>

AllBegins(qs) ==
  /\ Running /\ created < MaxPromises
  /\ created' = created + 1
  /\ inputs' = [inputs EXCEPT ![created + 1] = qs]
  /\ remaining' = [remaining EXCEPT ![created + 1] = Len(qs)]
  /\ IF qs = <<>>
     THEN Resolve(created + 1, Array) /\ looping' = 0
     ELSE looping' = 1 /\ UNCHANGED <<settlement, subscribers, queue>>
  /\ UNCHANGED <<opened, results, flushing, calls, history>>

AllInput ==
  /\ looping # 0
  /\ LET q == inputs[created][looping]
     IN IF q \in Ids
        THEN Subscribe(q, AllBy(created, looping)) /\ UNCHANGED <<settlement, inputs, results, remaining>>
        ELSE ResolveAll(created, looping, q)
  /\ looping' = IF looping = Len(inputs[created]) THEN 0 ELSE looping + 1
  /\ UNCHANGED <<created, opened, flushing, calls, history>>

-----------------------------------------------------------------------------
(* The flush.                                                              *)

Current == queue[next]
OfFlush == next \in 1 .. Len(queue)

FlushBegins ==
  /\ next = 0 /\ looping = 0 /\ queue # <<>>
  /\ next' = 1
  /\ UNCHANGED <<created, opened, settlement, subscribers, alls, queue, publishing, calling, calls, history>>

FlushEnds ==
  /\ next = Len(queue) + 1
  /\ next' = 0
  /\ queue' = <<>>
  /\ UNCHANGED <<created, opened, settlement, subscribers, alls, publishing, calling, calls, history>>

PublishBegins ==
  /\ OfFlush /\ Current.does = "publish" /\ publishing = 0
  /\ state' = [state EXCEPT ![Current.promise] = Current.as]
  /\ publishing' = 1
  /\ UNCHANGED <<created, opened, detail, subscribers, alls, queue, next, calling, calls, history>>

PublishEnds ==
  /\ OfFlush /\ Current.does = "publish" /\ publishing = Len(subscribers[Current.promise]) + 1
  /\ subscribers' = [subscribers EXCEPT ![Current.promise] = <<>>]
  /\ publishing' = 0
  /\ next' = next + 1
  /\ UNCHANGED <<created, opened, settlement, alls, queue, calling, calls, history>>

(* The one for which invokeCallback is called next; then another is due.   *)
Invoked ==
  IF ~ OfFlush \/ calling # {} THEN {}
  ELSE IF Current.does = "invoke" THEN Current.by
  ELSE {subscribers[Current.promise][i] : i \in {publishing} \cap DOMAIN subscribers[Current.promise]}
OneInvoked ==
  IF Current.does = "publish"
  THEN publishing' = publishing + 1 /\ UNCHANGED next
  ELSE next' = next + 1 /\ UNCHANGED publishing

CallbackBegins(e) ==
  /\ e.type = "then" /\ Current.as \in e.handles
  /\ calling' = {e}
  /\ ran' = [ran EXCEPT ![Current.promise] = Append(@, e.child)]
  /\ UNCHANGED <<created, opened, settlement, subscribers, alls, queue, next, publishing, calls, registered, told>>

CallbackReturns(e, v) ==
  /\ looping = 0
  /\ IF v = e.child
     THEN Reject(v, Error) /\ Tell(v, "rejected", Error)
     ELSE Resolve(e.child, v) /\ TellValue(e.child, v)
  /\ calling' = {}
  /\ OneInvoked
  /\ UNCHANGED <<created, opened, alls, calls, registered, ran>>

CallbackThrows(e, v) ==
  /\ looping = 0
  /\ Reject(e.child, v)
  /\ Tell(e.child, "rejected", v)
  /\ calling' = {}
  /\ OneInvoked
  /\ UNCHANGED <<created, opened, alls, calls, registered, ran>>

(* There is no callback for how the promise was settled.  A promise that   *)
(* was the reason of a rejection is followed here too.                     *)
PassOn(e) ==
  /\ e.type = "then" /\ Current.as \notin e.handles
  /\ LET v == detail[Current.promise]
     IN CASE v = e.child          -> Reject(v, Error) /\ Tell(v, "rejected", Error)
          [] v \in Ids \ {e.child} -> Resolve(e.child, v) /\ Tell(e.child, "follow", v)
          [] OTHER -> /\ Settle(e.child, Current.as, v) /\ UNCHANGED subscribers
                      /\ Tell(e.child, Current.as, v)
  /\ OneInvoked
  /\ ran' = [ran EXCEPT ![Current.promise] = Append(@, e.child)]
  /\ UNCHANGED <<created, opened, alls, calling, calls, registered>>

(* What if a followed promise's rejection were passed on as a value?       *)
AdoptAnyhow(e) ==
  /\ e.type = "adopt"
  /\ LET q == Current.promise
     IN IF detail[q] # q
        THEN Resolve(e.child, detail[q])
        ELSE Settle(e.child, "fulfilled", q) /\ UNCHANGED subscribers
  /\ OneInvoked
  /\ UNCHANGED <<created, opened, alls, calling, calls, history>>

(* What if then were called with the first function only?                  *)
AdoptValues(e) ==
  /\ e.type = "adopt"
  /\ IF Current.as = "fulfilled"
     THEN Resolve(e.child, detail[Current.promise])
     ELSE UNCHANGED <<settlement, subscribers, queue>>
  /\ OneInvoked
  /\ UNCHANGED <<created, opened, alls, calling, calls, history>>

Adopt(e) ==
  /\ e.type = "adopt"
  /\ LET q == Current.promise
     IN CASE Current.as = "rejected" -> Reject(e.child, detail[q])
          [] Current.as = "fulfilled" /\ detail[q] # q -> Resolve(e.child, detail[q])
          [] Current.as = "fulfilled" /\ detail[q] = q ->
               Settle(e.child, "fulfilled", q) /\ UNCHANGED subscribers
  /\ OneInvoked
  /\ UNCHANGED <<created, opened, alls, calling, calls, history>>

OneOfAll(e) ==
  /\ e.type = "all"
  /\ IF Current.as = "fulfilled"
     THEN ResolveAll(e.child, e.index, detail[Current.promise])
     ELSE Reject(e.child, detail[Current.promise]) /\ UNCHANGED <<inputs, results, remaining>>
  /\ OneInvoked
  /\ UNCHANGED <<created, opened, looping, calling, calls, history>>

FlushStep ==
  \/ FlushBegins \/ FlushEnds \/ PublishBegins \/ PublishEnds
  \/ \E e \in Invoked : CallbackBegins(e) \/ PassOn(e) \/ Adopt(e) \/ OneOfAll(e)
CallbackEnds ==
  \E e \in calling : \E v \in Known : CallbackReturns(e, v) \/ (v \in Plain /\ CallbackThrows(e, v))
Application ==
  \/ Open
  \/ \E p \in opened, v \in Known : CallResolve(p, v) \/ CallReject(p, v)
  \/ \E p \in 1 .. created, h \in Callbacks : Then(p, h)
  \/ \E n \in 0 .. MaxInputs : \E qs \in [1 .. n -> Known] : AllBegins(qs)

Next == Application \/ AllInput \/ FlushStep \/ CallbackEnds

Spec == Init /\ [][Next]_vars

(* The browser runs the flush that has been asked for, and functions end.  *)
FairSpec == Spec /\ WF_vars(FlushStep) /\ WF_vars(CallbackEnds) /\ WF_vars(AllInput)

-----------------------------------------------------------------------------
(* Promises keep the promises of Settlement: they are settled once, and    *)
(* what was registered by then runs afterwards, once, in the order of      *)
(* registration, whether it was registered before the promise was settled, *)
(* between that and its publishing, in the middle of it or later.          *)
Contract == INSTANCE Settlement WITH
  outcome <- [p \in Ids |-> IF state[p] \in Settled
                            THEN [state |-> state[p], value |-> {detail[p]}]
                            ELSE [state |-> "pending", value |-> {}]]
Implementation == Contract!FairSpec

(* A promise is settled as one of the calls said that reached it while it  *)
(* was pending, and if that was to follow another one, as that one is.     *)
ToldSo ==
  \A p \in Ids : state[p] \in Settled /\ inputs[p] = <<>> /\ told[p] # <<>> =>
    \E i \in DOMAIN told[p] :
      LET t == told[p][i]
      IN IF t.as = "follow"
         THEN state[t.value] = state[p] /\ detail[t.value] = detail[p]
         ELSE t.as = state[p] /\ t.value = detail[p]

(* A promise made by all is fulfilled only when all that it waits for are, *)
(* and has their values in their order; it is rejected only as one of them *)
(* is.                                                                     *)
AllAgrees ==
  \A a \in Ids : inputs[a] # <<>> =>
    /\ state[a] = "fulfilled" => \A i \in DOMAIN inputs[a] :
         LET q == inputs[a][i]
         IN IF q \in Ids THEN state[q] = "fulfilled" /\ results[a][i] = detail[q] ELSE results[a][i] = q
    /\ state[a] = "rejected" => \E i \in DOMAIN inputs[a] :
         LET q == inputs[a][i] IN q \in Ids /\ state[q] = "rejected" /\ detail[a] = detail[q]

(* Nothing is forgotten: a promise that was told something final, follows  *)
(* a settled one, or waits with all for settled ones, is settled in the    *)
(* end.                                                                    *)
Final(v) == v \in Plain \/ state[v] \in Settled
Due(p) == \/ \E i \in DOMAIN told[p] : told[p][i].as # "follow" \/ Final(told[p][i].value)
          \/ inputs[p] # <<>> /\ \A i \in DOMAIN inputs[p] : Final(inputs[p][i])
SettledInTurn == \A p \in Ids : Due(p) ~> state[p] \in Settled
=============================================================================
