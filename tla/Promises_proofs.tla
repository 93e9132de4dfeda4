-------------------------- MODULE Promises_proofs --------------------------
(***************************************************************************)
(* Proofs that Promises keep what Settlement promises, and that a promise  *)
(* is settled as it was told to be, for any number of promises, calls and  *)
(* values.                                                                 *)
(*                                                                         *)
(* The inductive invariant has five parts: what holds of the flush and its *)
(* queue (Flushing), of the order in which reactions run (OrderHolds), of  *)
(* what promises have been told (ToldHolds), of what all waits for         *)
(* (AllHolds), and who has been created as what (KindsHold).  The last     *)
(* four do not look into the queue: they speak of who still waits for whom *)
(* (Waiting) and of how promises are settled or are about to be published  *)
(* (Decided), and Flushing alone says what a step does to these two sets.  *)
(*                                                                         *)
(* They are operators of the variables' values, so that a step of the      *)
(* flush is taken apart: one is called (Begins), its call has an effect,   *)
(* the flush moves on (Returns), and the invariant holds in between.       *)
(***************************************************************************)
EXTENDS Promises, SequenceTheorems, FiniteSetTheorems, TLAPS

-----------------------------------------------------------------------------
(* What is asked of the flush, in operators of the values of the variables *)
(* so that an action can be taken apart: it has an effect on the promises, *)
(* then the flush moves on.                                                *)

States == {"pending", "sealed"} \cup Settled

Fit(st, de, su, qu, nx, pb, ca) ==
  /\ st \in [Ids -> States]
  /\ de \in [Ids -> Values \cup {Nothing}]
  /\ su \in [Ids -> Seq(Subscriber)]
  /\ qu \in Seq(Job)
  /\ nx \in 0 .. Len(qu) + 1
  /\ pb \in Nat
  /\ ca \subseteq Subscriber

(* The subscribers of p that have been called already, and the jobs that   *)
(* are still to be begun.                                                  *)
Past(qu, nx, pb, ca, p) ==
  IF pb > 0 /\ qu[nx].promise = p THEN IF ca = {} THEN pb - 1 ELSE pb ELSE 0
SubscriberWaits(su, qu, nx, pb, ca, p, i) == i \in 1 .. Len(su[p]) /\ i > Past(qu, nx, pb, ca, p)
JobWaits(qu, nx, ca, p, j) ==
  /\ j \in 1 .. Len(qu) /\ qu[j].does = "invoke" /\ qu[j].promise = p
  /\ j >= nx /\ (j = nx => ca = {})

(* Who still waits for whom.                                               *)
Waits(su, qu, nx, pb, ca, p, e) ==
  \/ \E i \in Nat : SubscriberWaits(su, qu, nx, pb, ca, p, i) /\ e = su[p][i]
  \/ \E j \in Nat : JobWaits(qu, nx, ca, p, j) /\ e \in qu[j].by
Waiting(su, qu, nx, pb, ca) ==
  {w \in Ids \X Subscriber : Waits(su, qu, nx, pb, ca, w[1], w[2])}

(* What a promise is, or is about to be published as.                      *)
IsDecided(st, qu, p, s) ==
  \/ st[p] = s
  \/ \E j \in 1 .. Len(qu) : qu[j].does = "publish" /\ qu[j].promise = p /\ qu[j].as = s
Decided(st, qu) == {d \in Ids \X Settled : IsDecided(st, qu, d[1], d[2])}

Apart(e, f) ==
  /\ e.type = "then" /\ f.type = "then" => e.child < f.child
  /\ e.type = "all" /\ f.type = "all" => e.child # f.child \/ e.index # f.index

IsApart(W, q, e) == \A f \in Subscriber : <<q, f>> \in W => Apart(f, e)

JobsHold(st, qu) ==
  \A j \in 1 .. Len(qu) :
    /\ st[qu[j].promise] # "pending"
    /\ qu[j].does = "invoke" =>
         st[qu[j].promise] = qu[j].as /\ \E e \in Subscriber : qu[j].by = {e}
PublishedOnce(qu) ==
  \A j, k \in 1 .. Len(qu) :
    qu[j].does = "publish" /\ qu[k].does = "publish" /\ qu[j].promise = qu[k].promise => j = k
SealedUntilPublished(st, qu, nx, pb) ==
  \A j \in 1 .. Len(qu) :
    qu[j].does = "publish" /\ j >= nx /\ (j = nx => pb = 0) => st[qu[j].promise] = "sealed"
PublishingHolds(st, su, qu, nx, pb) ==
  pb > 0 => /\ nx \in 1 .. Len(qu) /\ qu[nx].does = "publish"
            /\ st[qu[nx].promise] = qu[nx].as
            /\ pb <= Len(su[qu[nx].promise]) + 1
NobodyLeft(st, su, qu, nx, pb) ==
  \A p \in Ids : st[p] \in Settled /\ su[p] # <<>> => pb > 0 /\ qu[nx].promise = p
IsInvoked(su, qu, nx, pb, e) ==
  /\ nx \in 1 .. Len(qu)
  /\ qu[nx].does = "invoke" => qu[nx].by = {e}
  /\ qu[nx].does = "publish" =>
       pb \in 1 .. Len(su[qu[nx].promise]) /\ e = su[qu[nx].promise][pb]
CallingHolds(su, qu, nx, pb, ca) ==
  ca = {} \/ \E e \in Subscriber : ca = {e} /\ IsInvoked(su, qu, nx, pb, e)
InTurn(su, qu, nx, pb, ca) ==
  \A p \in Ids :
    /\ \A i, k \in Nat :
         SubscriberWaits(su, qu, nx, pb, ca, p, i) /\ SubscriberWaits(su, qu, nx, pb, ca, p, k) /\ i < k
           => Apart(su[p][i], su[p][k])
    /\ \A i, k \in Nat :
         SubscriberWaits(su, qu, nx, pb, ca, p, i) /\ JobWaits(qu, nx, ca, p, k)
           => \A f \in qu[k].by : Apart(su[p][i], f)
    /\ \A i, k \in Nat :
         JobWaits(qu, nx, ca, p, i) /\ JobWaits(qu, nx, ca, p, k) /\ i < k
           => \A e \in qu[i].by, f \in qu[k].by : Apart(e, f)

Flushing(st, de, su, qu, nx, pb, ca) ==
  /\ Fit(st, de, su, qu, nx, pb, ca)
  /\ JobsHold(st, qu) /\ PublishedOnce(qu)
  /\ SealedUntilPublished(st, qu, nx, pb) /\ PublishingHolds(st, su, qu, nx, pb)
  /\ NobodyLeft(st, su, qu, nx, pb)
  /\ CallingHolds(su, qu, nx, pb, ca)
  /\ InTurn(su, qu, nx, pb, ca)

-----------------------------------------------------------------------------
(* The effects.                                                            *)

Seals(st, de, qu, p, s, v, st2, de2, qu2) ==
  /\ st[p] = "pending"
  /\ st2 = [st EXCEPT ![p] = "sealed"]
  /\ de2 = [de EXCEPT ![p] = v]
  /\ qu2 = Append(qu, PublishJob(p, s))

Subscribes(st, su, qu, q, e, su2, qu2) ==
  IF st[q] \in Settled
  THEN qu2 = Append(qu, [does |-> "invoke", promise |-> q, as |-> st[q], by |-> {e}]) /\ su2 = su
  ELSE su2 = [su EXCEPT ![q] = Append(@, e)] /\ qu2 = qu

(* A promise that is settled waits in the queue to be published.           *)
LEMMA SealingFlush ==
  ASSUME NEW st, NEW de, NEW su, NEW qu, NEW nx, NEW pb, NEW ca,
         NEW st2, NEW de2, NEW qu2,
         NEW p \in Ids, NEW s \in Settled, NEW v \in Values \cup {Nothing},
         Flushing(st, de, su, qu, nx, pb, ca),
         Seals(st, de, qu, p, s, v, st2, de2, qu2)
  PROVE  /\ Flushing(st2, de2, su, qu2, nx, pb, ca)
         /\ Waiting(su, qu2, nx, pb, ca) = Waiting(su, qu, nx, pb, ca)
         /\ Decided(st2, qu2) = Decided(st, qu) \cup {<<p, s>>}
PROOF
<1> DEFINE j0 == PublishJob(p, s)
<1>1. j0 \in Job /\ j0.does = "publish" /\ j0.promise = p /\ j0.as = s
  BY DEF PublishJob, Job
<1>2. Fit(st, de, su, qu, nx, pb, ca)
  BY DEF Flushing
<1>3. /\ qu2 \in Seq(Job) /\ Len(qu2) = Len(qu) + 1 /\ Len(qu) \in Nat
      /\ \A j \in 1 .. Len(qu) : qu2[j] = qu[j] /\ qu[j] \in Job
      /\ qu2[Len(qu) + 1] = j0
  <2> HIDE DEF j0
  <2> QED
  BY <1>1, <1>2, AppendProperties, ElementOfSeq, LenProperties DEF Fit, Seals, j0
<1>4. /\ st2 \in [Ids -> States] /\ de2 \in [Ids -> Values \cup {Nothing}]
      /\ st2[p] = "sealed" /\ st[p] = "pending" /\ \A q \in Ids \ {p} : st2[q] = st[q]
  BY <1>2 DEF Fit, Seals, States
<1>5. Fit(st2, de2, su, qu2, nx, pb, ca)
  BY <1>2, <1>3, <1>4 DEF Fit
<1>6. \A j \in 1 .. Len(qu) : qu[j].promise \in Ids \ {p}
  BY <1>3, <1>4 DEF Flushing, JobsHold, Job
<1> HIDE DEF j0
<1>7. JobsHold(st2, qu2) /\ PublishedOnce(qu2)
  <2>1. JobsHold(st, qu) /\ PublishedOnce(qu)
    BY DEF Flushing
  <2>2. \A j \in 1 .. Len(qu2) : j \in 1 .. Len(qu) \/ j = Len(qu) + 1
    BY <1>3
  <2>3. JobsHold(st2, qu2)
    BY <1>1, <1>3, <1>4, <1>6, <2>1, <2>2 DEF JobsHold
  <2>4. PublishedOnce(qu2)
    BY <1>1, <1>3, <1>6, <2>1, <2>2 DEF PublishedOnce
  <2> QED
    BY <2>3, <2>4
<1>8. CallingHolds(su, qu, nx, pb, ca) /\ PublishingHolds(st, su, qu, nx, pb)
  BY DEF Flushing
<1>9. pb > 0 \/ ca # {} => nx \in 1 .. Len(qu)
  BY <1>8 DEF CallingHolds, PublishingHolds, IsInvoked
<1>10. nx \in 0 .. Len(qu) + 1 /\ pb \in Nat
  BY <1>2 DEF Fit
<1>11. SealedUntilPublished(st2, qu2, nx, pb) /\ PublishingHolds(st2, su, qu2, nx, pb)
  BY <1>1, <1>3, <1>4, <1>6, <1>9, <1>10 DEF Flushing, SealedUntilPublished, PublishingHolds
<1>12. NobodyLeft(st2, su, qu2, nx, pb)
  BY <1>3, <1>4, <1>9, <1>10 DEF Flushing, NobodyLeft, Settled
<1>13. CallingHolds(su, qu2, nx, pb, ca)
  BY <1>3, <1>8, <1>10 DEF CallingHolds, IsInvoked
<1>14. \A q \in Ids : Past(qu2, nx, pb, ca, q) = Past(qu, nx, pb, ca, q)
  BY <1>3, <1>9, <1>10 DEF Past
<1>15. \A q \in Ids : \A i \in Nat : SubscriberWaits(su, qu2, nx, pb, ca, q, i) <=> SubscriberWaits(su, qu, nx, pb, ca, q, i)
  BY <1>14 DEF SubscriberWaits
<1>16. \A q \in Ids : \A j \in Nat : JobWaits(qu2, nx, ca, q, j) <=> JobWaits(qu, nx, ca, q, j)
  BY <1>1, <1>3, <1>10 DEF JobWaits
<1>17. \A q \in Ids : \A j \in Nat : JobWaits(qu, nx, ca, q, j) => j \in 1 .. Len(qu) /\ qu2[j] = qu[j]
  BY <1>3 DEF JobWaits
<1>18. InTurn(su, qu2, nx, pb, ca)
  BY <1>15, <1>16, <1>17 DEF InTurn, Flushing
<1>19. \A q \in Ids, e \in Subscriber : Waits(su, qu2, nx, pb, ca, q, e) <=> Waits(su, qu, nx, pb, ca, q, e)
  BY <1>15, <1>16, <1>17 DEF Waits
<1>20. \A d \in Ids \X Settled : IsDecided(st2, qu2, d[1], d[2]) <=> IsDecided(st, qu, d[1], d[2]) \/ d = <<p, s>>
  BY <1>1, <1>3, <1>4, <1>6 DEF IsDecided, Settled
<1> QED
  BY <1>5, <1>7, <1>11, <1>12, <1>13, <1>18, <1>19, <1>20 DEF Flushing, Waiting, Decided

(* Who subscribes waits after all who wait for the same promise.           *)
LEMMA SubscribingFlush ==
  ASSUME NEW st, NEW de, NEW su, NEW qu, NEW nx, NEW pb, NEW ca,
         NEW su2, NEW qu2,
         NEW q \in Ids, NEW e \in Subscriber,
         Flushing(st, de, su, qu, nx, pb, ca),
         Subscribes(st, su, qu, q, e, su2, qu2),
         IsApart(Waiting(su, qu, nx, pb, ca), q, e)
  PROVE  /\ Flushing(st, de, su2, qu2, nx, pb, ca)
         /\ Waiting(su2, qu2, nx, pb, ca) = Waiting(su, qu, nx, pb, ca) \cup {<<q, e>>}
         /\ Decided(st, qu2) = Decided(st, qu)
PROOF
<1>1. /\ Fit(st, de, su, qu, nx, pb, ca) /\ JobsHold(st, qu) /\ PublishedOnce(qu)
      /\ SealedUntilPublished(st, qu, nx, pb) /\ PublishingHolds(st, su, qu, nx, pb)
      /\ NobodyLeft(st, su, qu, nx, pb)
      /\ CallingHolds(su, qu, nx, pb, ca)
      /\ InTurn(su, qu, nx, pb, ca)
  BY DEF Flushing
<1>2. nx \in 0 .. Len(qu) + 1 /\ pb \in Nat /\ Len(qu) \in Nat /\ st \in [Ids -> States]
      /\ su \in [Ids -> Seq(Subscriber)]
  BY <1>1, LenProperties DEF Fit
<1>3. pb > 0 \/ ca # {} => nx \in 1 .. Len(qu)
  BY <1>1 DEF CallingHolds, PublishingHolds, IsInvoked
<1>4. \A f \in Subscriber : Waits(su, qu, nx, pb, ca, q, f) => Apart(f, e)
  BY DEF Waiting, IsApart
<1>5. \A p \in Ids : Len(su[p]) \in Nat /\ \A i \in 1 .. Len(su[p]) : su[p][i] \in Subscriber
  BY <1>2, LenProperties, ElementOfSeq
<1>6. \A j \in 1 .. Len(qu) : qu[j].promise \in Ids /\ qu[j] \in Job /\ qu[j].by \subseteq Subscriber
  <2>1. \A j \in 1 .. Len(qu) : qu[j] \in Job
    BY <1>1, ElementOfSeq DEF Fit
  <2> QED
    BY <2>1 DEF Job
<1>7. CASE st[q] \in Settled
  <2> DEFINE j0 == [does |-> "invoke", promise |-> q, as |-> st[q], by |-> {e}]
  <2>1. j0 \in Job /\ j0.does = "invoke" /\ j0.promise = q /\ j0.as = st[q] /\ j0.by = {e}
    BY <1>7 DEF Job
  <2>2. su2 = su /\ qu2 = Append(qu, j0)
    BY <1>7 DEF Subscribes
  <2> HIDE DEF j0
  <2>3. /\ qu2 \in Seq(Job) /\ Len(qu2) = Len(qu) + 1
        /\ \A j \in 1 .. Len(qu) : qu2[j] = qu[j]
        /\ qu2[Len(qu) + 1] = j0
    BY <1>1, <2>1, <2>2, AppendProperties DEF Fit
  <2>4. \A j \in 1 .. Len(qu2) : j \in 1 .. Len(qu) \/ j = Len(qu) + 1
    BY <1>2, <2>3
  <2>5. Fit(st, de, su2, qu2, nx, pb, ca)
    BY <1>1, <2>2, <2>3 DEF Fit
  <2>6. JobsHold(st, qu2) /\ PublishedOnce(qu2)
    <3>1. JobsHold(st, qu2)
      BY <1>1, <1>7, <2>1, <2>3, <2>4 DEF JobsHold, Settled
    <3>2. PublishedOnce(qu2)
      BY <1>1, <2>1, <2>3, <2>4 DEF PublishedOnce
    <3> QED
      BY <3>1, <3>2
  <2>7. SealedUntilPublished(st, qu2, nx, pb) /\ PublishingHolds(st, su2, qu2, nx, pb)
    BY <1>1, <1>2, <1>3, <2>1, <2>2, <2>3, <2>4 DEF SealedUntilPublished, PublishingHolds
  <2>8. NobodyLeft(st, su2, qu2, nx, pb) /\ CallingHolds(su2, qu2, nx, pb, ca)
    <3>1. NobodyLeft(st, su2, qu2, nx, pb)
      BY <1>1, <1>2, <1>3, <2>2, <2>3 DEF NobodyLeft
    <3>2. nx \in 1 .. Len(qu) => qu2[nx] = qu[nx] /\ nx \in 1 .. Len(qu2)
      BY <1>2, <2>3
    <3>3. CallingHolds(su, qu2, nx, pb, ca)
      BY <1>1, <3>2 DEF CallingHolds, IsInvoked
    <3> QED
      BY <3>1, <3>3, <2>2
  <2>9. \A p \in Ids : Past(qu2, nx, pb, ca, p) = Past(qu, nx, pb, ca, p)
    BY <1>2, <1>3, <2>3 DEF Past
  <2>10. \A p \in Ids, i \in Nat : SubscriberWaits(su2, qu2, nx, pb, ca, p, i) <=> SubscriberWaits(su, qu, nx, pb, ca, p, i)
    BY <2>2, <2>9 DEF SubscriberWaits
  <2>11. \A p \in Ids, j \in Nat : JobWaits(qu2, nx, ca, p, j) <=> JobWaits(qu, nx, ca, p, j) \/ (p = q /\ j = Len(qu) + 1)
    BY <1>2, <1>3, <2>1, <2>3, <2>4 DEF JobWaits
  <2>12. \A p \in Ids, j \in Nat : JobWaits(qu, nx, ca, p, j) => j \in 1 .. Len(qu) /\ qu2[j] = qu[j]
    BY <2>3 DEF JobWaits
  <2>13. \A i \in Nat : SubscriberWaits(su, qu, nx, pb, ca, q, i) => Apart(su[q][i], e)
    BY <1>4, <1>5 DEF Waits, SubscriberWaits
  <2>14. \A j \in Nat : JobWaits(qu, nx, ca, q, j) => \A f \in qu[j].by : Apart(f, e)
    BY <1>4, <1>6, <2>12 DEF Waits
  <2>15. InTurn(su2, qu2, nx, pb, ca)
    <3> SUFFICES ASSUME NEW p \in Ids, NEW i \in Nat, NEW k \in Nat
                 PROVE /\ SubscriberWaits(su, qu, nx, pb, ca, p, i) /\ SubscriberWaits(su, qu, nx, pb, ca, p, k) /\ i < k
                             => Apart(su[p][i], su[p][k])
                       /\ SubscriberWaits(su, qu, nx, pb, ca, p, i) /\ JobWaits(qu2, nx, ca, p, k)
                             => \A f \in qu2[k].by : Apart(su[p][i], f)
                       /\ JobWaits(qu2, nx, ca, p, i) /\ JobWaits(qu2, nx, ca, p, k) /\ i < k
                             => \A d \in qu2[i].by, f \in qu2[k].by : Apart(d, f)
      BY <2>2, <2>10 DEF InTurn
    <3>1. CASE JobWaits(qu, nx, ca, p, k)
      <4>1. k \in 1 .. Len(qu) /\ qu2[k] = qu[k]
        BY <2>12, <3>1
      <4>2. JobWaits(qu2, nx, ca, p, i) /\ i < k => JobWaits(qu, nx, ca, p, i) /\ qu2[i] = qu[i]
        BY <1>2, <2>11, <2>12, <4>1
      <4> QED
        BY <1>1, <3>1, <4>1, <4>2 DEF InTurn
    <3>2. CASE ~ JobWaits(qu, nx, ca, p, k)
      <4>1. JobWaits(qu2, nx, ca, p, k) => p = q /\ k = Len(qu) + 1 /\ qu2[k].by = {e}
        BY <2>1, <2>3, <2>11, <3>2
      <4>2. JobWaits(qu2, nx, ca, p, i) /\ i < Len(qu) + 1 => JobWaits(qu, nx, ca, p, i) /\ qu2[i] = qu[i]
        BY <1>2, <2>11, <2>12
      <4>3. SubscriberWaits(su, qu, nx, pb, ca, p, i) /\ SubscriberWaits(su, qu, nx, pb, ca, p, k) /\ i < k
              => Apart(su[p][i], su[p][k])
        BY <1>1 DEF InTurn
      <4> QED
        BY <4>1, <4>2, <4>3, <2>13, <2>14
    <3> QED
      BY <3>1, <3>2
  <2>16. \A p \in Ids, f \in Subscriber : Waits(su2, qu2, nx, pb, ca, p, f) <=> Waits(su, qu, nx, pb, ca, p, f) \/ <<p, f>> = <<q, e>>
    BY <1>2, <2>1, <2>2, <2>3, <2>10, <2>11, <2>12 DEF Waits
  <2>17. \A d \in Ids \X Settled : IsDecided(st, qu2, d[1], d[2]) <=> IsDecided(st, qu, d[1], d[2])
    BY <1>2, <2>1, <2>3, <2>4 DEF IsDecided
  <2> QED
    BY <2>5, <2>6, <2>7, <2>8, <2>15, <2>16, <2>17 DEF Flushing, Waiting, Decided
<1>8. CASE st[q] \notin Settled
  <2> DEFINE s0 == su[q]
             n == Len(s0)
  <2>1. su2 = [su EXCEPT ![q] = Append(s0, e)] /\ qu2 = qu
    BY <1>8 DEF Subscribes
  <2>2. s0 \in Seq(Subscriber) /\ n \in Nat
    BY <1>2, <1>5
  <2>3. /\ su2 \in [Ids -> Seq(Subscriber)] /\ Len(su2[q]) = n + 1 /\ su2[q][n + 1] = e
        /\ \A i \in 1 .. n : su2[q][i] = su[q][i]
        /\ \A p \in Ids \ {q} : su2[p] = su[p]
    <3>1. su2[q] = Append(s0, e) /\ \A p \in Ids \ {q} : su2[p] = su[p]
      BY <1>2, <2>1
    <3> HIDE DEF s0
    <3>2. /\ Append(s0, e) \in Seq(Subscriber) /\ Len(Append(s0, e)) = n + 1 /\ Append(s0, e)[n + 1] = e
          /\ \A i \in 1 .. n : Append(s0, e)[i] = s0[i]
      BY <2>2, AppendProperties DEF n
    <3>3. su2 \in [Ids -> Seq(Subscriber)]
      BY <1>2, <2>1, <3>2
    <3> QED
      BY <3>1, <3>2, <3>3 DEF s0
  <2>4. pb > 0 \/ ca # {} => qu[nx].promise # q
    BY <1>1, <1>3, <1>6, <1>8 DEF PublishingHolds, CallingHolds, IsInvoked, JobsHold, Job
  <2> HIDE DEF n, s0
  <2>5. Fit(st, de, su2, qu2, nx, pb, ca)
    BY <1>1, <2>1, <2>3 DEF Fit
  <2>6. PublishingHolds(st, su2, qu, nx, pb)
    BY <1>1, <1>6, <2>3, <2>4 DEF PublishingHolds
  <2>7. NobodyLeft(st, su2, qu, nx, pb)
    BY <1>1, <1>8, <2>3 DEF NobodyLeft
  <2>8. CallingHolds(su2, qu, nx, pb, ca)
    BY <1>1, <1>6, <2>3, <2>4 DEF CallingHolds, IsInvoked
  <2>9. Past(qu, nx, pb, ca, q) = 0
    BY <2>4, <1>2 DEF Past
  <2>10. \A p \in Ids, i \in Nat : SubscriberWaits(su2, qu, nx, pb, ca, p, i) <=>
           SubscriberWaits(su, qu, nx, pb, ca, p, i) \/ (p = q /\ i = n + 1)
    BY <2>2, <2>3, <2>9 DEF SubscriberWaits, n, s0
  <2>11. \A j \in Nat : ~ JobWaits(qu, nx, ca, q, j)
    BY <1>1, <1>6, <1>8 DEF JobWaits, JobsHold, Job
  <2>12. \A p \in Ids, i \in Nat : SubscriberWaits(su, qu, nx, pb, ca, p, i) => su2[p][i] = su[p][i] /\ (p = q => i <= n)
    BY <2>2, <2>3 DEF SubscriberWaits, n, s0
  <2>13. \A i \in Nat : SubscriberWaits(su, qu, nx, pb, ca, q, i) => Apart(su[q][i], e)
    BY <1>4, <1>5 DEF Waits, SubscriberWaits
  <2>14. InTurn(su2, qu, nx, pb, ca)
    <3> SUFFICES ASSUME NEW p \in Ids, NEW i \in Nat, NEW k \in Nat
                 PROVE /\ SubscriberWaits(su2, qu, nx, pb, ca, p, i) /\ SubscriberWaits(su2, qu, nx, pb, ca, p, k) /\ i < k
                             => Apart(su2[p][i], su2[p][k])
                       /\ SubscriberWaits(su2, qu, nx, pb, ca, p, i) /\ JobWaits(qu, nx, ca, p, k)
                             => \A f \in qu[k].by : Apart(su2[p][i], f)
      BY <1>1 DEF InTurn
    <3>1. CASE p = q
      BY <1>1, <2>2, <2>3, <2>10, <2>11, <2>12, <2>13, <3>1 DEF InTurn
    <3>2. CASE p # q
      BY <1>1, <2>3, <2>10, <2>12, <3>2 DEF InTurn
    <3> QED
      BY <3>1, <3>2
  <2>15. \A p \in Ids, f \in Subscriber : Waits(su2, qu, nx, pb, ca, p, f) <=> Waits(su, qu, nx, pb, ca, p, f) \/ <<p, f>> = <<q, e>>
    BY <2>2, <2>3, <2>10, <2>12 DEF Waits
  <2>16. qu2 = qu
    BY <2>1
  <2>17. Flushing(st, de, su2, qu, nx, pb, ca)
    BY <1>1, <2>5, <2>6, <2>7, <2>8, <2>14, <2>16 DEF Flushing
  <2>18. Waiting(su2, qu, nx, pb, ca) = Waiting(su, qu, nx, pb, ca) \cup {<<q, e>>}
    BY <2>15 DEF Waiting
  <2> QED
    BY <2>16, <2>17, <2>18
<1> QED
  BY <1>7, <1>8

-----------------------------------------------------------------------------
(* The flush moves on.                                                     *)

Begins(su, qu, nx, pb, ca, e, ca2) ==
  /\ nx \in 1 .. Len(qu) /\ ca = {} /\ ca2 = {e}
  /\ IF qu[nx].does = "invoke" THEN e \in qu[nx].by
     ELSE pb \in 1 .. Len(su[qu[nx].promise]) /\ e = su[qu[nx].promise][pb]

Returns(qu, nx, pb, ca, nx2, pb2, ca2) ==
  /\ ca # {} /\ ca2 = {}
  /\ IF qu[nx].does = "publish" THEN pb2 = pb + 1 /\ nx2 = nx ELSE nx2 = nx + 1 /\ pb2 = pb

Publishes(st, p, s, st2) == st2 = [st EXCEPT ![p] = s]
EndsPublishing(su, qu, nx, pb, su2, nx2) ==
  /\ nx \in 1 .. Len(qu) /\ qu[nx].does = "publish" /\ pb = Len(su[qu[nx].promise]) + 1
  /\ su2 = [su EXCEPT ![qu[nx].promise] = <<>>] /\ nx2 = nx + 1

(* The one that is called is the first who waits.                          *)
LEMMA BeginningFlush ==
  ASSUME NEW st, NEW de, NEW su, NEW qu, NEW nx, NEW pb, NEW ca, NEW ca2, NEW e \in Subscriber,
         Flushing(st, de, su, qu, nx, pb, ca),
         Begins(su, qu, nx, pb, ca, e, ca2)
  PROVE  /\ Flushing(st, de, su, qu, nx, pb, ca2)
         /\ Waiting(su, qu, nx, pb, ca2) \subseteq Waiting(su, qu, nx, pb, ca)
         /\ Waiting(su, qu, nx, pb, ca) \subseteq Waiting(su, qu, nx, pb, ca2) \cup {<<qu[nx].promise, e>>}
         /\ <<qu[nx].promise, e>> \in Waiting(su, qu, nx, pb, ca)
         /\ \A f \in Subscriber : <<qu[nx].promise, f>> \in Waiting(su, qu, nx, pb, ca2) => Apart(e, f)
         /\ <<qu[nx].promise, qu[nx].as>> \in Decided(st, qu)
         /\ st[qu[nx].promise] = qu[nx].as
         /\ qu[nx].promise \in Ids /\ qu[nx].as \in Settled
PROOF
<1>1. /\ Fit(st, de, su, qu, nx, pb, ca) /\ JobsHold(st, qu) /\ PublishedOnce(qu)
      /\ SealedUntilPublished(st, qu, nx, pb) /\ PublishingHolds(st, su, qu, nx, pb)
      /\ NobodyLeft(st, su, qu, nx, pb)
      /\ InTurn(su, qu, nx, pb, ca)
  BY DEF Flushing
<1>2. nx \in Nat /\ nx \in 1 .. Len(qu) /\ pb \in Nat /\ Len(qu) \in Nat /\ ca = {} /\ ca2 = {e}
  BY <1>1, LenProperties DEF Fit, Begins
<1>3. \A j \in 1 .. Len(qu) : qu[j].promise \in Ids /\ qu[j].as \in Settled /\ qu[j].does \in {"publish", "invoke"}
                               /\ qu[j].by \subseteq Subscriber
  <2>1. \A j \in 1 .. Len(qu) : qu[j] \in Job
    BY <1>1, ElementOfSeq DEF Fit
  <2> QED
    BY <2>1 DEF Job
<1> DEFINE p == qu[nx].promise
<1>4. p \in Ids /\ su[p] \in Seq(Subscriber) /\ Len(su[p]) \in Nat
  BY <1>1, <1>2, <1>3, LenProperties DEF Fit
<1>5. st[p] = qu[nx].as
  <2>1. CASE qu[nx].does = "invoke"
    BY <1>1, <1>2, <2>1 DEF JobsHold
  <2>2. CASE qu[nx].does = "publish"
    BY <1>1, <1>2, <2>2 DEF Begins, PublishingHolds
  <2> QED
    BY <2>1, <2>2, <1>2, <1>3
<1>6. Fit(st, de, su, qu, nx, pb, ca2)
  BY <1>1, <1>2 DEF Fit
<1>7. CallingHolds(su, qu, nx, pb, ca2)
  BY <1>1, <1>2 DEF CallingHolds, IsInvoked, Begins, JobsHold
<1>8. qu[nx].does = "invoke" => pb = 0 /\ su[p] = <<>> /\ qu[nx].by = {e}
  BY <1>1, <1>2, <1>3, <1>4, <1>5 DEF Begins, PublishingHolds, NobodyLeft, JobsHold
<1>9. qu[nx].does = "publish" => pb \in 1 .. Len(su[p]) /\ e = su[p][pb]
  BY DEF Begins
<1> HIDE DEF p
<1>10. \A q \in Ids, i \in Nat :
         /\ SubscriberWaits(su, qu, nx, pb, ca2, q, i) => SubscriberWaits(su, qu, nx, pb, ca, q, i)
         /\ SubscriberWaits(su, qu, nx, pb, ca, q, i) =>
              SubscriberWaits(su, qu, nx, pb, ca2, q, i) \/ (q = p /\ i = pb /\ qu[nx].does = "publish")
  BY <1>2, <1>1 DEF SubscriberWaits, Past, PublishingHolds, p
<1>11. \A q \in Ids, j \in Nat :
         /\ JobWaits(qu, nx, ca2, q, j) => JobWaits(qu, nx, ca, q, j)
         /\ JobWaits(qu, nx, ca, q, j) =>
              JobWaits(qu, nx, ca2, q, j) \/ (q = p /\ j = nx /\ qu[nx].does = "invoke")
  BY <1>2 DEF JobWaits, p
<1>12. InTurn(su, qu, nx, pb, ca2)
  BY <1>1, <1>10, <1>11 DEF InTurn
<1>13. \A q \in Ids, f \in Subscriber :
         /\ Waits(su, qu, nx, pb, ca2, q, f) => Waits(su, qu, nx, pb, ca, q, f)
         /\ Waits(su, qu, nx, pb, ca, q, f) => Waits(su, qu, nx, pb, ca2, q, f) \/ <<q, f>> = <<p, e>>
  BY <1>8, <1>9, <1>10, <1>11 DEF Waits
<1>14. qu[nx].does = "publish" => SubscriberWaits(su, qu, nx, pb, ca, p, pb)
  BY <1>2, <1>9 DEF SubscriberWaits, Past, p
<1>15. qu[nx].does = "invoke" => JobWaits(qu, nx, ca, p, nx)
  BY <1>2 DEF JobWaits, p
<1>16. Waits(su, qu, nx, pb, ca, p, e)
  BY <1>2, <1>3, <1>8, <1>9, <1>14, <1>15 DEF Waits
<1>17. \A f \in Subscriber : Waits(su, qu, nx, pb, ca2, p, f) => Apart(e, f)
  <2> SUFFICES ASSUME NEW f \in Subscriber, Waits(su, qu, nx, pb, ca2, p, f) PROVE Apart(e, f)
    OBVIOUS
  <2>1. CASE qu[nx].does = "publish"
    <3>1. \A i \in Nat : SubscriberWaits(su, qu, nx, pb, ca2, p, i) => SubscriberWaits(su, qu, nx, pb, ca, p, i) /\ pb < i
      BY <1>2, <1>4, <1>9, <1>10, <2>1 DEF SubscriberWaits, Past, p
    <3>2. \A j \in Nat : JobWaits(qu, nx, ca2, p, j) => JobWaits(qu, nx, ca, p, j)
      BY <1>4, <1>11
    <3> QED
      BY <1>1, <1>2, <1>4, <1>9, <1>14, <2>1, <3>1, <3>2 DEF Waits, InTurn
  <2>2. CASE qu[nx].does = "invoke"
    <3>1. \A i \in Nat : ~ SubscriberWaits(su, qu, nx, pb, ca2, p, i)
      BY <1>8, <2>2 DEF SubscriberWaits
    <3>2. \A j \in Nat : JobWaits(qu, nx, ca2, p, j) => JobWaits(qu, nx, ca, p, j) /\ nx < j
      BY <1>2, <1>4, <1>11, <2>2 DEF JobWaits
    <3> QED
      BY <1>1, <1>2, <1>4, <1>8, <1>15, <2>2, <3>1, <3>2 DEF Waits, InTurn
  <2> QED
    BY <2>1, <2>2, <1>2, <1>3
<1>18. <<p, qu[nx].as>> \in Decided(st, qu)
  BY <1>2, <1>3, <1>4, <1>5 DEF Decided, IsDecided
<1>19. Flushing(st, de, su, qu, nx, pb, ca2)
  BY <1>1, <1>6, <1>7, <1>12 DEF Flushing
<1>20. \A q \in Ids, f \in Subscriber :
         /\ <<q, f>> \in Waiting(su, qu, nx, pb, ca) <=> Waits(su, qu, nx, pb, ca, q, f)
         /\ <<q, f>> \in Waiting(su, qu, nx, pb, ca2) <=> Waits(su, qu, nx, pb, ca2, q, f)
  BY DEF Waiting
<1>21. Waiting(su, qu, nx, pb, ca) \subseteq Ids \X Subscriber /\ Waiting(su, qu, nx, pb, ca2) \subseteq Ids \X Subscriber
  BY DEF Waiting
<1>22. /\ Waiting(su, qu, nx, pb, ca2) \subseteq Waiting(su, qu, nx, pb, ca)
       /\ Waiting(su, qu, nx, pb, ca) \subseteq Waiting(su, qu, nx, pb, ca2) \cup {<<p, e>>}
  BY <1>13, <1>20, <1>21
<1>23. <<p, e>> \in Waiting(su, qu, nx, pb, ca)
  BY <1>4, <1>16, <1>20
<1>24. \A f \in Subscriber : <<p, f>> \in Waiting(su, qu, nx, pb, ca2) => Apart(e, f)
  BY <1>4, <1>17, <1>20
<1> QED
  BY <1>2, <1>3, <1>4, <1>5, <1>18, <1>19, <1>22, <1>23, <1>24 DEF p

(* When the call has ended the flush goes on to the next.                  *)
LEMMA ReturningFlush ==
  ASSUME NEW st, NEW de, NEW su, NEW qu, NEW nx, NEW pb, NEW ca,
         NEW nx2, NEW pb2, NEW ca2,
         Flushing(st, de, su, qu, nx, pb, ca),
         Returns(qu, nx, pb, ca, nx2, pb2, ca2)
  PROVE  /\ Flushing(st, de, su, qu, nx2, pb2, ca2)
         /\ Waiting(su, qu, nx2, pb2, ca2) = Waiting(su, qu, nx, pb, ca)
PROOF
<1>1. /\ Fit(st, de, su, qu, nx, pb, ca) /\ JobsHold(st, qu) /\ PublishedOnce(qu)
      /\ SealedUntilPublished(st, qu, nx, pb) /\ PublishingHolds(st, su, qu, nx, pb)
      /\ NobodyLeft(st, su, qu, nx, pb)
      /\ CallingHolds(su, qu, nx, pb, ca)
      /\ InTurn(su, qu, nx, pb, ca)
  BY DEF Flushing
<1>2. nx \in Nat /\ nx \in 1 .. Len(qu) /\ pb \in Nat /\ Len(qu) \in Nat /\ ca # {} /\ ca2 = {}
  BY <1>1, LenProperties DEF Fit, Returns, CallingHolds, IsInvoked
<1>3. qu[nx] \in Job
  BY <1>1, <1>2, ElementOfSeq DEF Fit
<1>4. su \in [Ids -> Seq(Subscriber)] /\ \A q \in Ids : Len(su[q]) \in Nat
  BY <1>1, LenProperties DEF Fit
<1>5. qu[nx].promise \in Ids
  BY <1>3 DEF Job
<1>6. CASE qu[nx].does = "publish"
  <2>1. pb2 = pb + 1 /\ nx2 = nx /\ pb \in 1 .. Len(su[qu[nx].promise])
    BY <1>1, <1>2, <1>6 DEF Returns, CallingHolds, IsInvoked
  <2>2. Fit(st, de, su, qu, nx2, pb2, ca2) /\ CallingHolds(su, qu, nx2, pb2, ca2)
    BY <1>1, <1>2, <2>1 DEF Fit, CallingHolds
  <2>3. SealedUntilPublished(st, qu, nx2, pb2) /\ NobodyLeft(st, su, qu, nx2, pb2)
    BY <1>1, <1>2, <2>1 DEF SealedUntilPublished, NobodyLeft
  <2>4. PublishingHolds(st, su, qu, nx2, pb2)
    BY <1>1, <1>2, <1>4, <1>5, <2>1 DEF PublishingHolds
  <2>5. \A q \in Ids : Past(qu, nx2, pb2, ca2, q) = Past(qu, nx, pb, ca, q)
    BY <1>2, <2>1 DEF Past
  <2>6. \A q \in Ids, j \in Nat : JobWaits(qu, nx2, ca2, q, j) <=> JobWaits(qu, nx, ca, q, j)
    BY <1>2, <1>6, <2>1 DEF JobWaits
  <2>7. \A q \in Ids, i \in Nat : SubscriberWaits(su, qu, nx2, pb2, ca2, q, i) <=> SubscriberWaits(su, qu, nx, pb, ca, q, i)
    BY <2>5 DEF SubscriberWaits
  <2> QED
    BY <1>1, <2>2, <2>3, <2>4, <2>6, <2>7 DEF Flushing, Waiting, Waits, InTurn
<1>7. CASE qu[nx].does # "publish"
  <2>1. pb2 = pb /\ nx2 = nx + 1 /\ pb = 0
    BY <1>1, <1>2, <1>7 DEF Returns, PublishingHolds
  <2>2. Fit(st, de, su, qu, nx2, pb2, ca2) /\ CallingHolds(su, qu, nx2, pb2, ca2)
    BY <1>1, <1>2, <2>1 DEF Fit, CallingHolds
  <2>3. SealedUntilPublished(st, qu, nx2, pb2) /\ NobodyLeft(st, su, qu, nx2, pb2)
    BY <1>1, <1>2, <2>1 DEF SealedUntilPublished, NobodyLeft
  <2>4. PublishingHolds(st, su, qu, nx2, pb2)
    BY <2>1 DEF PublishingHolds
  <2>5. \A q \in Ids : Past(qu, nx2, pb2, ca2, q) = Past(qu, nx, pb, ca, q)
    BY <1>2, <2>1 DEF Past
  <2>6. \A q \in Ids, j \in Nat : JobWaits(qu, nx2, ca2, q, j) <=> JobWaits(qu, nx, ca, q, j)
    BY <1>2, <1>7, <2>1 DEF JobWaits
  <2>7. \A q \in Ids, i \in Nat : SubscriberWaits(su, qu, nx2, pb2, ca2, q, i) <=> SubscriberWaits(su, qu, nx, pb, ca, q, i)
    BY <2>5 DEF SubscriberWaits
  <2> QED
    BY <1>1, <2>2, <2>3, <2>4, <2>6, <2>7 DEF Flushing, Waiting, Waits, InTurn
<1> QED
  BY <1>6, <1>7

(* From its publishing on, the subscribers of a promise are called.        *)
LEMMA PublishingFlush ==
  ASSUME NEW st, NEW de, NEW su, NEW qu, NEW nx, NEW st2,
         Flushing(st, de, su, qu, nx, 0, {}),
         nx \in 1 .. Len(qu), qu[nx].does = "publish",
         Publishes(st, qu[nx].promise, qu[nx].as, st2)
  PROVE  /\ Flushing(st2, de, su, qu, nx, 1, {})
         /\ Waiting(su, qu, nx, 1, {}) = Waiting(su, qu, nx, 0, {})
         /\ Decided(st2, qu) = Decided(st, qu)
         /\ st[qu[nx].promise] = "sealed"
         /\ <<qu[nx].promise, qu[nx].as>> \in Decided(st, qu)
PROOF
<1>1. /\ Fit(st, de, su, qu, nx, 0, {}) /\ JobsHold(st, qu) /\ PublishedOnce(qu)
      /\ SealedUntilPublished(st, qu, nx, 0)
      /\ NobodyLeft(st, su, qu, nx, 0)
      /\ InTurn(su, qu, nx, 0, {})
  BY DEF Flushing
<1>2. nx \in Nat /\ Len(qu) \in Nat
  BY <1>1, LenProperties DEF Fit
<1>3. \A j \in 1 .. Len(qu) : qu[j].promise \in Ids /\ qu[j].as \in Settled
  <2>1. \A j \in 1 .. Len(qu) : qu[j] \in Job
    BY <1>1, ElementOfSeq DEF Fit
  <2> QED
    BY <2>1 DEF Job
<1> DEFINE p == qu[nx].promise
           s == qu[nx].as
<1>4. p \in Ids /\ s \in Settled
  BY <1>3
<1>5. st[p] = "sealed"
  BY <1>1, <1>2 DEF SealedUntilPublished
<1>6. st2[p] = s /\ (\A q \in Ids \ {p} : st2[q] = st[q]) /\ st2 \in [Ids -> States]
  BY <1>1, <1>4 DEF Fit, States, Publishes
<1>7. su[p] \in Seq(Subscriber) /\ Len(su[p]) \in Nat
  BY <1>1, <1>4, LenProperties DEF Fit
<1> HIDE DEF p, s
<1>8. Fit(st2, de, su, qu, nx, 1, {}) /\ CallingHolds(su, qu, nx, 1, {})
  BY <1>1, <1>6 DEF Fit, CallingHolds
<1>9. JobsHold(st2, qu)
  BY <1>1, <1>3, <1>4, <1>5, <1>6 DEF JobsHold, Settled
<1>10. \A j \in 1 .. Len(qu) : qu[j].does = "publish" /\ qu[j].promise = p => j = nx
  BY <1>1 DEF PublishedOnce, p
<1>11. SealedUntilPublished(st2, qu, nx, 1)
  BY <1>1, <1>2, <1>3, <1>6, <1>10 DEF SealedUntilPublished
<1>12. PublishingHolds(st2, su, qu, nx, 1)
  BY <1>6, <1>7 DEF PublishingHolds, p, s
<1>13. NobodyLeft(st2, su, qu, nx, 1)
  BY <1>1, <1>6 DEF NobodyLeft, p
<1>14. \A q \in Ids : Past(qu, nx, 1, {}, q) = Past(qu, nx, 0, {}, q)
  BY DEF Past
<1>15. \A q \in Ids, i \in Nat : SubscriberWaits(su, qu, nx, 1, {}, q, i) <=> SubscriberWaits(su, qu, nx, 0, {}, q, i)
  BY <1>14 DEF SubscriberWaits
<1>16. InTurn(su, qu, nx, 1, {}) /\ Waiting(su, qu, nx, 1, {}) = Waiting(su, qu, nx, 0, {})
  BY <1>1, <1>15 DEF InTurn, Waiting, Waits
<1>17. \A d \in Ids \X Settled : IsDecided(st2, qu, d[1], d[2]) <=> IsDecided(st, qu, d[1], d[2])
  BY <1>4, <1>5, <1>6, <1>10 DEF IsDecided, Settled, p, s
<1>18. <<p, s>> \in Decided(st, qu)
  BY <1>4 DEF Decided, IsDecided, p, s
<1> QED
  BY <1>1, <1>5, <1>8, <1>9, <1>11, <1>12, <1>13, <1>16, <1>17, <1>18 DEF Flushing, Decided, p, s

(* When all have been called nobody is left with the promise.              *)
LEMMA PublishedFlush ==
  ASSUME NEW st, NEW de, NEW su, NEW qu, NEW nx, NEW pb, NEW ca, NEW su2, NEW nx2,
         Flushing(st, de, su, qu, nx, pb, ca),
         EndsPublishing(su, qu, nx, pb, su2, nx2)
  PROVE  /\ Flushing(st, de, su2, qu, nx2, 0, ca)
         /\ Waiting(su2, qu, nx2, 0, ca) = Waiting(su, qu, nx, pb, ca)
PROOF
<1>1. /\ Fit(st, de, su, qu, nx, pb, ca) /\ JobsHold(st, qu) /\ PublishedOnce(qu)
      /\ SealedUntilPublished(st, qu, nx, pb) /\ PublishingHolds(st, su, qu, nx, pb)
      /\ NobodyLeft(st, su, qu, nx, pb)
      /\ CallingHolds(su, qu, nx, pb, ca)
      /\ InTurn(su, qu, nx, pb, ca)
  BY DEF Flushing
<1> DEFINE p == qu[nx].promise
<1>0. /\ nx \in 1 .. Len(qu) /\ qu[nx].does = "publish" /\ pb = Len(su[p]) + 1
      /\ su2 = [su EXCEPT ![p] = <<>>] /\ nx2 = nx + 1
  BY DEF EndsPublishing
<1>2. nx \in Nat /\ Len(qu) \in Nat /\ qu[nx] \in Job /\ nx2 = nx + 1 /\ nx \in 1 .. Len(qu)
  BY <1>0, <1>1, LenProperties, ElementOfSeq DEF Fit
<1>3. p \in Ids /\ Len(su[p]) \in Nat /\ pb = Len(su[p]) + 1
  <2>1. p \in Ids
    BY <1>2 DEF Job
  <2> QED
    BY <1>0, <1>1, <2>1, LenProperties DEF Fit
<1>4. ca = {}
  BY <1>0, <1>1, <1>3 DEF CallingHolds, IsInvoked
<1>5. su2[p] = <<>> /\ (\A q \in Ids \ {p} : su2[q] = su[q]) /\ su2 \in [Ids -> Seq(Subscriber)]
  BY <1>0, <1>1, <1>3 DEF Fit
<1>6. Len(su2[p]) = 0
  BY <1>5
<1> HIDE DEF p
<1>7. Fit(st, de, su2, qu, nx2, 0, ca) /\ CallingHolds(su2, qu, nx2, 0, ca)
  BY <1>1, <1>2, <1>4, <1>5 DEF Fit, CallingHolds
<1>8. SealedUntilPublished(st, qu, nx2, 0)
  BY <1>1, <1>2 DEF SealedUntilPublished
<1>9. NobodyLeft(st, su2, qu, nx2, 0)
  BY <1>1, <1>3, <1>5 DEF NobodyLeft, p
<1>10. PublishingHolds(st, su2, qu, nx2, 0)
  BY DEF PublishingHolds
<1>11. \A q \in Ids : Past(qu, nx2, 0, ca, q) = 0 /\ Past(qu, nx, pb, ca, q) = IF q = p THEN Len(su[p]) ELSE 0
  BY <1>3, <1>4 DEF Past, p
<1>12. \A q \in Ids, i \in Nat : SubscriberWaits(su2, qu, nx2, 0, ca, q, i) <=> SubscriberWaits(su, qu, nx, pb, ca, q, i)
  <2> SUFFICES ASSUME NEW q \in Ids, NEW i \in Nat
               PROVE SubscriberWaits(su2, qu, nx2, 0, ca, q, i) <=> SubscriberWaits(su, qu, nx, pb, ca, q, i)
    OBVIOUS
  <2>1. CASE q = p
    BY <1>3, <1>6, <1>11, <2>1 DEF SubscriberWaits
  <2>2. CASE q # p
    BY <1>5, <1>11, <2>2 DEF SubscriberWaits
  <2> QED
    BY <2>1, <2>2
<1>13. \A q \in Ids, j \in Nat : JobWaits(qu, nx2, ca, q, j) <=> JobWaits(qu, nx, ca, q, j)
  BY <1>0, <1>2, <1>4 DEF JobWaits
<1>14. \A q \in Ids, i \in Nat : SubscriberWaits(su, qu, nx, pb, ca, q, i) => su2[q] = su[q]
  BY <1>3, <1>5, <1>11 DEF SubscriberWaits
<1>15. InTurn(su2, qu, nx2, 0, ca)
  BY <1>1, <1>12, <1>13, <1>14 DEF InTurn
<1>16. \A q \in Ids, f \in Subscriber : Waits(su2, qu, nx2, 0, ca, q, f) <=> Waits(su, qu, nx, pb, ca, q, f)
  BY <1>12, <1>13, <1>14 DEF Waits
<1> QED
  BY <1>1, <1>7, <1>8, <1>9, <1>10, <1>15, <1>16 DEF Flushing, Waiting

(* A flush starts with the first of the queue.                             *)
LEMMA StartingFlush ==
  ASSUME NEW st, NEW de, NEW su, NEW qu, NEW pb, NEW ca,
         Flushing(st, de, su, qu, 0, pb, ca)
  PROVE  /\ Flushing(st, de, su, qu, 1, pb, ca)
         /\ Waiting(su, qu, 1, pb, ca) = Waiting(su, qu, 0, pb, ca)
PROOF
<1>1. /\ Fit(st, de, su, qu, 0, pb, ca) /\ JobsHold(st, qu) /\ PublishedOnce(qu)
      /\ SealedUntilPublished(st, qu, 0, pb) /\ PublishingHolds(st, su, qu, 0, pb)
      /\ NobodyLeft(st, su, qu, 0, pb)
      /\ CallingHolds(su, qu, 0, pb, ca)
      /\ InTurn(su, qu, 0, pb, ca)
  BY DEF Flushing
<1>2. Len(qu) \in Nat /\ pb = 0 /\ ca = {}
  BY <1>1, LenProperties DEF Fit, PublishingHolds, CallingHolds, IsInvoked
<1>3. Fit(st, de, su, qu, 1, pb, ca) /\ CallingHolds(su, qu, 1, pb, ca) /\ PublishingHolds(st, su, qu, 1, pb)
  BY <1>1, <1>2 DEF Fit, CallingHolds, PublishingHolds
<1>4. SealedUntilPublished(st, qu, 1, pb) /\ NobodyLeft(st, su, qu, 1, pb)
  BY <1>1, <1>2 DEF SealedUntilPublished, NobodyLeft
<1>5. \A q \in Ids, i \in Nat : SubscriberWaits(su, qu, 1, pb, ca, q, i) <=> SubscriberWaits(su, qu, 0, pb, ca, q, i)
  BY <1>2 DEF SubscriberWaits, Past
<1>6. \A q \in Ids, j \in Nat : JobWaits(qu, 1, ca, q, j) <=> JobWaits(qu, 0, ca, q, j)
  BY <1>2 DEF JobWaits
<1> QED
  BY <1>1, <1>3, <1>4, <1>5, <1>6 DEF Flushing, InTurn, Waiting, Waits

(* At its end nothing in the queue is left to be done.                     *)
LEMMA EndingFlush ==
  ASSUME NEW st, NEW de, NEW su, NEW qu, NEW nx, NEW pb, NEW ca,
         Flushing(st, de, su, qu, nx, pb, ca), nx = Len(qu) + 1
  PROVE  /\ Flushing(st, de, su, <<>>, 0, pb, ca)
         /\ Waiting(su, <<>>, 0, pb, ca) = Waiting(su, qu, nx, pb, ca)
         /\ Decided(st, <<>>) \subseteq Decided(st, qu)
PROOF
<1>1. /\ Fit(st, de, su, qu, nx, pb, ca)
      /\ PublishingHolds(st, su, qu, nx, pb)
      /\ NobodyLeft(st, su, qu, nx, pb)
      /\ CallingHolds(su, qu, nx, pb, ca)
      /\ InTurn(su, qu, nx, pb, ca)
  BY DEF Flushing
<1>2. Len(qu) \in Nat
  BY <1>1, LenProperties DEF Fit
<1>3. pb = 0 /\ ca = {}
  BY <1>1, <1>2 DEF Fit, PublishingHolds, CallingHolds, IsInvoked
<1>4. Len(<<>>) = 0 /\ <<>> \in Seq(Job)
  OBVIOUS
<1>5. Fit(st, de, su, <<>>, 0, pb, ca) /\ CallingHolds(su, <<>>, 0, pb, ca) /\ PublishingHolds(st, su, <<>>, 0, pb)
  BY <1>1, <1>3, <1>4 DEF Fit, CallingHolds, PublishingHolds
<1>6. /\ JobsHold(st, <<>>) /\ PublishedOnce(<<>>)
      /\ SealedUntilPublished(st, <<>>, 0, pb)
  BY <1>4 DEF JobsHold, PublishedOnce, SealedUntilPublished
<1>7. NobodyLeft(st, su, <<>>, 0, pb)
  BY <1>1, <1>3 DEF NobodyLeft
<1>8. \A q \in Ids, i \in Nat : SubscriberWaits(su, <<>>, 0, pb, ca, q, i) <=> SubscriberWaits(su, qu, nx, pb, ca, q, i)
  BY <1>3 DEF SubscriberWaits, Past
<1>9. \A q \in Ids, j \in Nat : ~ JobWaits(<<>>, 0, ca, q, j) /\ ~ JobWaits(qu, nx, ca, q, j)
  BY <1>2, <1>4 DEF JobWaits
<1>10. InTurn(su, <<>>, 0, pb, ca)
  BY <1>1, <1>8, <1>9 DEF InTurn
<1>11. Waiting(su, <<>>, 0, pb, ca) = Waiting(su, qu, nx, pb, ca)
  BY <1>8, <1>9 DEF Waiting, Waits
<1>12. Decided(st, <<>>) \subseteq Decided(st, qu)
  BY <1>4 DEF Decided, IsDecided
<1> QED
  BY <1>5, <1>6, <1>7, <1>10, <1>11, <1>12 DEF Flushing

-----------------------------------------------------------------------------
(* The order in which callbacks run.                                       *)

OrderHolds(cr, W, rg, ra) ==
  /\ rg \in [Ids -> Seq(Ids)] /\ ra \in [Ids -> Seq(Ids)]
  /\ \A p \in Ids : \A i \in 1 .. Len(rg[p]) : rg[p][i] \in 1 .. cr
  /\ \A p \in Ids : \A i, j \in 1 .. Len(rg[p]) : i < j => rg[p][i] < rg[p][j]
  /\ \A p \in Ids : Len(ra[p]) <= Len(rg[p]) /\ \A i \in 1 .. Len(ra[p]) : ra[p][i] = rg[p][i]
  /\ \A p \in Ids : \A i \in 1 .. Len(rg[p]) : i > Len(ra[p]) =>
       \E e \in Subscriber : <<p, e>> \in W /\ e.type = "then" /\ e.child = rg[p][i]
  /\ \A p \in Ids, e \in Subscriber : <<p, e>> \in W /\ e.type = "then" =>
       \E i \in 1 .. Len(rg[p]) : i > Len(ra[p]) /\ e.child = rg[p][i]

(* Those that were not registered by the application do not matter.        *)
LEMMA OrderStays ==
  ASSUME NEW cr \in Nat, NEW cr2 \in Nat, NEW W, NEW W2, NEW rg, NEW ra, NEW q, NEW e \in Subscriber,
         OrderHolds(cr, W, rg, ra), cr <= cr2, e.type # "then",
         W2 \subseteq W \cup {<<q, e>>}, W \subseteq W2 \cup {<<q, e>>}
  PROVE  OrderHolds(cr2, W2, rg, ra)
PROOF
<1>1. \A p \in Ids, f \in Subscriber : f.type = "then" => (<<p, f>> \in W <=> <<p, f>> \in W2)
  OBVIOUS
<1>2. \A p \in Ids : Len(rg[p]) \in Nat /\ Len(ra[p]) \in Nat
  BY LenProperties DEF OrderHolds
<1>3. \A p \in Ids : \A i \in 1 .. Len(rg[p]) : rg[p][i] \in 1 .. cr2
  BY <1>2 DEF OrderHolds
<1> QED
  BY <1>1, <1>3 DEF OrderHolds

Registers(rg, p, c, rg2) == rg2 = [rg EXCEPT ![p] = Append(@, c)]

(* A new registration is the last of those that have not run.              *)
LEMMA OrderRegistering ==
  ASSUME NEW cr \in Nat, NEW m \in Ids, m = cr + 1, NEW W, NEW W2, NEW rg, NEW rg2, NEW ra, NEW q \in Ids, NEW e \in Subscriber,
         OrderHolds(cr, W, rg, ra), e.type = "then", e.child = m,
         W2 = W \cup {<<q, e>>},
         Registers(rg, q, m, rg2)
  PROVE  OrderHolds(m, W2, rg2, ra)
PROOF
<1> DEFINE r0 == rg[q]
           n == Len(r0)
<1>1. r0 \in Seq(Ids) /\ n \in Nat /\ rg \in [Ids -> Seq(Ids)]
  BY LenProperties DEF OrderHolds
<1>2. m \in Ids /\ m \in Nat /\ cr < m
  BY DEF Ids
<1>3. /\ Append(r0, m) \in Seq(Ids) /\ Len(Append(r0, m)) = n + 1 /\ Append(r0, m)[n + 1] = m
      /\ \A i \in 1 .. n : Append(r0, m)[i] = r0[i]
  <2> HIDE DEF r0
  <2> QED
    BY <1>1, <1>2, AppendProperties DEF n
<1>4. rg2 \in [Ids -> Seq(Ids)] /\ rg2[q] = Append(r0, m) /\ \A p \in Ids \ {q} : rg2[p] = rg[p]
  BY <1>1, <1>3 DEF Registers
<1>5. \A p \in Ids : Len(rg[p]) \in Nat /\ Len(ra[p]) \in Nat
  BY LenProperties DEF OrderHolds
<1>a. /\ \A p \in Ids : \A i \in 1 .. Len(rg[p]) : rg[p][i] \in 1 .. cr
      /\ \A p \in Ids : \A i, j \in 1 .. Len(rg[p]) : i < j => rg[p][i] < rg[p][j]
      /\ \A p \in Ids : \A i \in 1 .. Len(rg[p]) : i > Len(ra[p]) =>
           \E f \in Subscriber : <<p, f>> \in W /\ f.type = "then" /\ f.child = rg[p][i]
  BY DEF OrderHolds
<1>6. /\ Len(rg2[q]) = n + 1 /\ rg2[q][n + 1] = m /\ n = Len(rg[q])
      /\ \A i \in 1 .. n : rg2[q][i] = rg[q][i]
  BY <1>3, <1>4
<1> HIDE DEF n, r0
<1>7. \A p \in Ids : \A i \in 1 .. Len(rg2[p]) : rg2[p][i] \in 1 .. m
  <2> SUFFICES ASSUME NEW p \in Ids, NEW i \in 1 .. Len(rg2[p]) PROVE rg2[p][i] \in 1 .. m
    OBVIOUS
  <2>1. CASE p # q
    <3>1. i \in 1 .. Len(rg[p]) /\ rg2[p] = rg[p]
      BY <1>4, <2>1
    <3>2. rg[p][i] \in 1 .. cr
      BY <1>a, <3>1
    <3> QED
      BY <1>2, <3>1, <3>2
  <2>2. CASE p = q /\ i <= n
    <3>1. i \in 1 .. Len(rg[p]) /\ rg2[p][i] = rg[p][i]
      BY <1>1, <1>6, <2>2
    <3>2. rg[p][i] \in 1 .. cr
      BY <1>a, <3>1
    <3> QED
      BY <1>2, <3>1, <3>2
  <2>3. CASE p = q /\ i = n + 1
    BY <1>2, <1>6, <2>3
  <2> QED
    BY <1>1, <1>6, <2>1, <2>2, <2>3
<1>8. \A p \in Ids : \A i, j \in 1 .. Len(rg2[p]) : i < j => rg2[p][i] < rg2[p][j]
  <2> SUFFICES ASSUME NEW p \in Ids, NEW i \in 1 .. Len(rg2[p]), NEW j \in 1 .. Len(rg2[p]), i < j PROVE rg2[p][i] < rg2[p][j]
    OBVIOUS
  <2>1. CASE p # q
    BY <1>4, <1>a, <2>1
  <2>2. CASE p = q /\ j <= n
    <3>1. i \in 1 .. n /\ j \in 1 .. n
      BY <1>1, <1>6, <2>2
    <3> QED
      BY <1>6, <1>a, <2>2, <3>1
  <2>3. CASE p = q /\ j = n + 1
    <3>1. i \in 1 .. n
      BY <1>1, <1>6, <2>3
    <3>2. rg2[q][i] \in 1 .. cr
      BY <1>6, <1>a, <3>1
    <3> QED
      BY <1>2, <1>6, <2>3, <3>2
  <2> QED
    BY <1>1, <1>6, <2>1, <2>2, <2>3
<1>9. \A p \in Ids : Len(ra[p]) <= Len(rg2[p]) /\ \A i \in 1 .. Len(ra[p]) : ra[p][i] = rg2[p][i]
  <2> SUFFICES ASSUME NEW p \in Ids PROVE Len(ra[p]) <= Len(rg2[p]) /\ \A i \in 1 .. Len(ra[p]) : ra[p][i] = rg2[p][i]
    OBVIOUS
  <2>1. Len(ra[p]) <= Len(rg[p]) /\ \A i \in 1 .. Len(ra[p]) : ra[p][i] = rg[p][i]
    BY DEF OrderHolds
  <2>2. CASE p = q
    <3>1. Len(ra[p]) <= n /\ Len(ra[p]) \in Nat
      BY <1>5, <1>6, <2>1, <2>2
    <3>2. \A i \in 1 .. Len(ra[p]) : i \in 1 .. n
      BY <1>1, <3>1
    <3> QED
      BY <1>1, <1>6, <2>1, <2>2, <3>1, <3>2
  <2>3. CASE p # q
    BY <1>4, <2>1, <2>3
  <2> QED
    BY <2>2, <2>3
<1>10. \A p \in Ids : \A i \in 1 .. Len(rg2[p]) : i > Len(ra[p]) =>
       \E f \in Subscriber : <<p, f>> \in W2 /\ f.type = "then" /\ f.child = rg2[p][i]
  <2> SUFFICES ASSUME NEW p \in Ids, NEW i \in 1 .. Len(rg2[p]), i > Len(ra[p])
               PROVE \E f \in Subscriber : <<p, f>> \in W2 /\ f.type = "then" /\ f.child = rg2[p][i]
    OBVIOUS
  <2>1. CASE p = q /\ i = n + 1
    BY <1>6, <2>1
  <2>2. CASE p # q \/ i <= n
    <3>1. i \in 1 .. Len(rg[p]) /\ rg2[p][i] = rg[p][i]
      <4>1. CASE p # q
        BY <1>4, <4>1
      <4>2. CASE p = q
        BY <1>1, <1>6, <2>2, <4>2
      <4> QED
        BY <4>1, <4>2
    <3> QED
      BY <3>1, <1>a
  <2> QED
    <3>1. CASE p = q
      <4>1. i \in 1 .. n + 1
        BY <1>6, <3>1
      <4>2. i <= n \/ i = n + 1
        BY <1>1, <4>1
      <4> QED
        BY <2>1, <2>2, <3>1, <4>2
    <3>2. CASE p # q
      BY <2>2, <3>2
    <3> QED
      BY <3>1, <3>2
<1>11. \A p \in Ids, f \in Subscriber : <<p, f>> \in W2 /\ f.type = "then" =>
       \E i \in 1 .. Len(rg2[p]) : i > Len(ra[p]) /\ f.child = rg2[p][i]
  <2> SUFFICES ASSUME NEW p \in Ids, NEW f \in Subscriber, <<p, f>> \in W2, f.type = "then"
               PROVE \E i \in 1 .. Len(rg2[p]) : i > Len(ra[p]) /\ f.child = rg2[p][i]
    OBVIOUS
  <2>1. CASE <<p, f>> \in W
    <3>1. PICK i \in 1 .. Len(rg[p]) : i > Len(ra[p]) /\ f.child = rg[p][i]
      BY <2>1 DEF OrderHolds
    <3>2. i \in 1 .. Len(rg2[p]) /\ rg2[p][i] = rg[p][i]
      <4>1. CASE p # q
        BY <1>4, <3>1, <4>1
      <4>2. CASE p = q
        BY <1>1, <1>6, <3>1, <4>2
      <4> QED
        BY <4>1, <4>2
    <3> QED
      BY <3>1, <3>2
  <2>2. CASE p = q /\ f = e
    <3>1. n + 1 \in 1 .. Len(rg2[q]) /\ n + 1 > Len(ra[q])
      BY <1>1, <1>5, <1>6 DEF OrderHolds
    <3> QED
      BY <1>6, <2>2, <3>1
  <2> QED
    BY <2>1, <2>2
<1>12. ra \in [Ids -> Seq(Ids)]
  BY DEF OrderHolds
<1> QED
  BY <1>4, <1>7, <1>8, <1>9, <1>10, <1>11, <1>12 DEF OrderHolds

Runs(ra, p, e, ra2) == ra2 = IF e.type = "then" THEN [ra EXCEPT ![p] = Append(@, e.child)] ELSE ra

(* e is the first of those who wait for q; whether it still does is left   *)
(* open, for it can wait there twice.                                      *)
IsNext(rg, ra, q, c) == Len(ra[q]) < Len(rg[q]) /\ c = rg[q][Len(ra[q]) + 1]
Leaves(W, q, e, W2) ==
  /\ <<q, e>> \in W /\ W2 \subseteq W /\ W \subseteq W2 \cup {<<q, e>>}
  /\ \A f \in Subscriber : <<q, f>> \in W2 => Apart(e, f)

(* The first who waits for a promise is the next that was registered on    *)
(* it.                                                                     *)
LEMMA OrderRunning ==
  ASSUME NEW cr \in Nat, NEW W, NEW W2, NEW rg, NEW ra, NEW ra2, NEW q \in Ids, NEW e \in Subscriber,
         OrderHolds(cr, W, rg, ra), e.type = "then", Leaves(W, q, e, W2),
         Runs(ra, q, e, ra2)
  PROVE  /\ OrderHolds(cr, W2, rg, ra2)
         /\ IsNext(rg, ra, q, e.child)
PROOF
<1> DEFINE r0 == ra[q]
           n == Len(r0)
           c == e.child
<1>0. /\ <<q, e>> \in W /\ W2 \subseteq W /\ W \subseteq W2 \cup {<<q, e>>}
      /\ \A f \in Subscriber : <<q, f>> \in W2 => Apart(e, f)
  BY DEF Leaves
<1>1. r0 \in Seq(Ids) /\ n \in Nat /\ c \in Ids /\ c \in Nat
  <2>1. ra \in [Ids -> Seq(Ids)] /\ e.child \in Ids /\ \A p \in Ids : p \in Nat
    BY DEF OrderHolds, Subscriber, Ids
  <2> QED
    BY <2>1, LenProperties
<1>2. /\ rg \in [Ids -> Seq(Ids)] /\ ra \in [Ids -> Seq(Ids)]
      /\ \A p \in Ids : Len(rg[p]) \in Nat /\ Len(ra[p]) \in Nat
      /\ \A p \in Ids : Len(ra[p]) <= Len(rg[p]) /\ \A i \in 1 .. Len(ra[p]) : ra[p][i] = rg[p][i]
  BY LenProperties DEF OrderHolds
<1>a. \A p \in Ids : \A i \in 1 .. Len(rg[p]) : rg[p][i] \in 1 .. cr
  BY DEF OrderHolds
<1>b. \A p \in Ids : \A i, j \in 1 .. Len(rg[p]) : i < j => rg[p][i] < rg[p][j]
  BY DEF OrderHolds
<1>3. \A p \in Ids : \A i, j \in 1 .. Len(rg[p]) : /\ rg[p][i] \in Nat /\ rg[p][j] \in Nat
                                                   /\ i < j => rg[p][i] < rg[p][j]
  <2>1. \A p \in Ids : \A i \in 1 .. Len(rg[p]) : rg[p][i] \in Nat
    BY <1>a
  <2> QED
    BY <1>b, <2>1
<1>4. PICK k \in 1 .. Len(rg[q]) : k > n /\ c = rg[q][k]
  BY <1>0 DEF OrderHolds
<1>5. k = n + 1
  <2> SUFFICES ASSUME k > n + 1 PROVE FALSE
    BY <1>1, <1>4
  <2> DEFINE l == Len(rg[q])
  <2>1. n + 1 \in 1 .. Len(rg[q]) /\ n + 1 > Len(ra[q]) /\ n + 1 < k
    <3>1. l \in Nat /\ k \in 1 .. l
      BY <1>2, <1>4
    <3> HIDE DEF l, n
    <3>2. n + 1 \in 1 .. l /\ n + 1 < k /\ n + 1 > n
      BY <1>1, <3>1
    <3> QED
      BY <3>2 DEF l, n
  <2>2. rg[q][n + 1] < c
    BY <1>3, <1>4, <2>1
  <2>3. PICK f \in Subscriber : <<q, f>> \in W /\ f.type = "then" /\ f.child = rg[q][n + 1]
    BY <2>1 DEF OrderHolds
  <2>4. f # e
    BY <1>1, <1>3, <2>1, <2>2, <2>3
  <2>5. c < f.child
    BY <1>0, <2>3, <2>4 DEF Apart
  <2> QED
    BY <1>1, <1>3, <2>1, <2>2, <2>3, <2>5
<1>6. <<q, e>> \notin W2
  BY <1>0, <1>1 DEF Apart
<1>7. /\ Append(r0, c) \in Seq(Ids) /\ Len(Append(r0, c)) = n + 1 /\ Append(r0, c)[n + 1] = c
      /\ \A i \in 1 .. n : Append(r0, c)[i] = r0[i]
  <2> HIDE DEF r0, c
  <2> QED
    BY <1>1, AppendProperties DEF n
<1>8. ra2 \in [Ids -> Seq(Ids)] /\ ra2[q] = Append(r0, c) /\ \A p \in Ids \ {q} : ra2[p] = ra[p]
  BY <1>2, <1>7 DEF Runs
<1>9. /\ Len(ra2[q]) = n + 1 /\ ra2[q][n + 1] = c /\ n = Len(ra[q])
      /\ \A i \in 1 .. n : ra2[q][i] = ra[q][i]
  BY <1>7, <1>8
<1>10. n + 1 \in 1 .. Len(rg[q]) /\ rg[q][n + 1] = c
  BY <1>4, <1>5
<1> HIDE DEF n, r0, c
<1>11. \A p \in Ids : Len(ra2[p]) <= Len(rg[p]) /\ \A i \in 1 .. Len(ra2[p]) : ra2[p][i] = rg[p][i]
  <2> SUFFICES ASSUME NEW p \in Ids PROVE Len(ra2[p]) <= Len(rg[p]) /\ \A i \in 1 .. Len(ra2[p]) : ra2[p][i] = rg[p][i]
    OBVIOUS
  <2>1. Len(ra[p]) <= Len(rg[p]) /\ \A i \in 1 .. Len(ra[p]) : ra[p][i] = rg[p][i]
    BY <1>2
  <2>2. \A i \in 1 .. n + 1 : i \in 1 .. n \/ i = n + 1
    BY <1>1
  <2>3. CASE p = q
    <3>1. Len(ra2[p]) = n + 1 /\ n + 1 <= Len(rg[p])
      BY <1>9, <1>10, <2>3
    <3> QED
      BY <1>9, <1>10, <2>1, <2>2, <2>3, <3>1
  <2>4. CASE p # q
    BY <1>8, <2>1, <2>4
  <2> QED
    BY <2>3, <2>4
<1>12. \A p \in Ids : \A i \in 1 .. Len(rg[p]) : i > Len(ra2[p]) =>
         \E f \in Subscriber : <<p, f>> \in W2 /\ f.type = "then" /\ f.child = rg[p][i]
  <2> SUFFICES ASSUME NEW p \in Ids, NEW i \in 1 .. Len(rg[p]), i > Len(ra2[p])
               PROVE \E f \in Subscriber : <<p, f>> \in W2 /\ f.type = "then" /\ f.child = rg[p][i]
    OBVIOUS
  <2>1. i > Len(ra[p]) /\ (p = q => n + 1 < i)
    <3>1. CASE p = q
      BY <1>1, <1>9, <3>1
    <3>2. CASE p # q
      BY <1>8, <3>2
    <3> QED
      BY <3>1, <3>2
  <2>2. PICK f \in Subscriber : <<p, f>> \in W /\ f.type = "then" /\ f.child = rg[p][i]
    BY <2>1 DEF OrderHolds
  <2>3. p = q => f.child # e.child
    BY <1>3, <1>10, <2>1, <2>2 DEF c
  <2> QED
    BY <1>0, <2>2, <2>3
<1>13. \A p \in Ids, f \in Subscriber : <<p, f>> \in W2 /\ f.type = "then" =>
         \E i \in 1 .. Len(rg[p]) : i > Len(ra2[p]) /\ f.child = rg[p][i]
  <2> SUFFICES ASSUME NEW p \in Ids, NEW f \in Subscriber, <<p, f>> \in W2, f.type = "then"
               PROVE \E i \in 1 .. Len(rg[p]) : i > Len(ra2[p]) /\ f.child = rg[p][i]
    OBVIOUS
  <2>1. PICK i \in 1 .. Len(rg[p]) : i > Len(ra[p]) /\ f.child = rg[p][i]
    BY <1>0 DEF OrderHolds
  <2>2. p = q => c < f.child
    BY <1>0 DEF Apart, c
  <2>3. p = q => i # n + 1
    BY <1>1, <1>10, <2>1, <2>2
  <2>4. i > Len(ra2[p])
    <3>1. CASE p = q
      BY <1>1, <1>2, <1>9, <2>1, <2>3, <3>1
    <3>2. CASE p # q
      BY <1>8, <2>1, <3>2
    <3> QED
      BY <3>1, <3>2
  <2> QED
    BY <2>1, <2>4
<1>14. \A p \in Ids : \A i \in 1 .. Len(rg[p]) : rg[p][i] \in 1 .. cr
  BY DEF OrderHolds
<1>15. OrderHolds(cr, W2, rg, ra2)
  BY <1>2, <1>3, <1>8, <1>11, <1>12, <1>13, <1>14 DEF OrderHolds
<1> QED
  BY <1>1, <1>9, <1>10, <1>15 DEF c, IsNext

-----------------------------------------------------------------------------
(* What promises have been told.                                           *)

Told == [as : Settled \cup {"follow"}, value : Values]

(* p follows q, or one that turned out to be fulfilled with q.             *)
FollowsOn(st, de, to, p, q) ==
  \E i \in 1 .. Len(to[p]) :
    LET v == to[p][i].value
    IN /\ to[p][i].as = "follow"
       /\ v = q \/ (st[v] = "fulfilled" /\ de[v] = q /\ st[q] = "fulfilled" /\ de[q] = q)
AgreesOn(st, de, to, p, s, v) ==
  \E i \in 1 .. Len(to[p]) :
    LET t == to[p][i]
    IN IF t.as = "follow" THEN st[t.value] = s /\ de[t.value] = v ELSE t.as = s /\ t.value = v

IsItself(st, de, p, v) == v \in Ids \ {p} => st[v] = "fulfilled" /\ de[v] = v

ToldHolds(st, de, W, D, in, to) ==
  /\ st \in [Ids -> States] /\ de \in [Ids -> Values \cup {Nothing}]
  /\ to \in [Ids -> Seq(Told)]
  /\ \A p \in Ids : \A i \in 1 .. Len(to[p]) : to[p][i].as = "follow" => to[p][i].value \in Ids
  /\ \A p \in Ids : st[p] # "pending" => de[p] \in Values
  /\ \A p \in Ids, s \in Settled : <<p, s>> \in D => st[p] # "pending"
  /\ \A p \in Ids, e \in Subscriber : <<p, e>> \in W /\ e.type = "adopt" =>
       st[e.child] # "pending" \/ FollowsOn(st, de, to, e.child, p)
  /\ \A p \in Ids : <<p, "fulfilled">> \in D => IsItself(st, de, p, de[p])
  /\ \A p \in Ids, s \in Settled : <<p, s>> \in D /\ in[p] = <<>> /\ to[p] # <<>> =>
       AgreesOn(st, de, to, p, s, de[p])

(* What is settled stays as it is.                                         *)
Keeps(st, de, st2, de2) ==
  \A p \in Ids : /\ st[p] \in Settled => st2[p] = st[p]
                 /\ st[p] # "pending" => st2[p] # "pending" /\ de2[p] = de[p]
Grows(to, to2) ==
  \A p \in Ids : Len(to[p]) <= Len(to2[p]) /\ \A i \in 1 .. Len(to[p]) : to2[p][i] = to[p][i]

(* What is said of a promise stays true while others are settled.          *)
LEMMA ToldIsKept ==
  ASSUME NEW st, NEW de, NEW W, NEW D, NEW in, NEW to, NEW st2, NEW de2, NEW to2,
         ToldHolds(st, de, W, D, in, to), Keeps(st, de, st2, de2), Grows(to, to2),
         to2 \in [Ids -> Seq(Told)]
  PROVE  /\ \A p, q \in Ids : FollowsOn(st, de, to, p, q) => FollowsOn(st2, de2, to2, p, q)
         /\ \A p \in Ids, s \in Settled, v \in Values : AgreesOn(st, de, to, p, s, v) => AgreesOn(st2, de2, to2, p, s, v)
         /\ \A p \in Ids, v \in Values : IsItself(st, de, p, v) => IsItself(st2, de2, p, v)
PROOF
<1>1. \A p \in Ids : Len(to[p]) \in Nat /\ Len(to2[p]) \in Nat
  BY LenProperties DEF ToldHolds
<1>2. \A p \in Ids : \A i \in 1 .. Len(to[p]) : i \in 1 .. Len(to2[p]) /\ to2[p][i] = to[p][i]
  BY <1>1 DEF Grows
<1>3. \A p \in Ids : st[p] \in Settled => st2[p] = st[p] /\ de2[p] = de[p]
  BY DEF Keeps, Settled
<1>4. \A p \in Ids : \A i \in 1 .. Len(to[p]) : to[p][i].as = "follow" => to[p][i].value \in Ids
  BY DEF ToldHolds
<1>5. \A p, q \in Ids : FollowsOn(st, de, to, p, q) => FollowsOn(st2, de2, to2, p, q)
  <2> SUFFICES ASSUME NEW p \in Ids, NEW q \in Ids, FollowsOn(st, de, to, p, q) PROVE FollowsOn(st2, de2, to2, p, q)
    OBVIOUS
  <2>1. PICK i \in 1 .. Len(to[p]) : /\ to[p][i].as = "follow"
          /\ \/ to[p][i].value = q
             \/ st[to[p][i].value] = "fulfilled" /\ de[to[p][i].value] = q /\ st[q] = "fulfilled" /\ de[q] = q
    BY DEF FollowsOn
  <2>2. to[p][i].value \in Ids
    BY <1>4, <2>1
  <2>3. i \in 1 .. Len(to2[p]) /\ to2[p][i] = to[p][i]
    BY <1>2
  <2>4. to2[p][i].value = q \/ (st2[to2[p][i].value] = "fulfilled" /\ de2[to2[p][i].value] = q /\ st2[q] = "fulfilled" /\ de2[q] = q)
    BY <1>3, <2>1, <2>2, <2>3 DEF Settled
  <2> QED
    BY <2>1, <2>3, <2>4 DEF FollowsOn
<1>6. \A p \in Ids, s \in Settled, v \in Values : AgreesOn(st, de, to, p, s, v) => AgreesOn(st2, de2, to2, p, s, v)
  <2> SUFFICES ASSUME NEW p \in Ids, NEW s \in Settled, NEW v \in Values, AgreesOn(st, de, to, p, s, v)
               PROVE  AgreesOn(st2, de2, to2, p, s, v)
    OBVIOUS
  <2>1. PICK i \in 1 .. Len(to[p]) :
          IF to[p][i].as = "follow" THEN st[to[p][i].value] = s /\ de[to[p][i].value] = v
          ELSE to[p][i].as = s /\ to[p][i].value = v
    BY DEF AgreesOn
  <2>2. i \in 1 .. Len(to2[p]) /\ to2[p][i] = to[p][i]
    BY <1>2
  <2>3. to[p][i].as = "follow" => st2[to[p][i].value] = s /\ de2[to[p][i].value] = v
    BY <1>3, <1>4, <2>1
  <2> QED
    BY <2>1, <2>2, <2>3 DEF AgreesOn
<1>7. \A p \in Ids, v \in Values : IsItself(st, de, p, v) => IsItself(st2, de2, p, v)
  BY <1>3 DEF IsItself, Settled
<1> QED
  BY <1>5, <1>6, <1>7

(* ... and while promises are told more.                                   *)
LEMMA ToldGrows ==
  ASSUME NEW st, NEW de, NEW W, NEW D, NEW in, NEW to, NEW to2,
         ToldHolds(st, de, W, D, in, to), Grows(to, to2), to2 \in [Ids -> Seq(Told)]
  PROVE  /\ \A p, q \in Ids : FollowsOn(st, de, to, p, q) => FollowsOn(st, de, to2, p, q)
         /\ \A p \in Ids, s \in Settled, v \in Values : AgreesOn(st, de, to, p, s, v) => AgreesOn(st, de, to2, p, s, v)
PROOF
<1>1. Keeps(st, de, st, de)
  BY DEF Keeps
<1> QED
  BY <1>1, ToldIsKept

(* A promise is settled as it has been told to be.                         *)
LEMMA ToldSealing ==
  ASSUME NEW st, NEW de, NEW W, NEW D, NEW in, NEW to, NEW st2, NEW de2, NEW D2,
         NEW p \in Ids, NEW s \in Settled, NEW v \in Values,
         ToldHolds(st, de, W, D, in, to),
         st[p] = "pending", st2 = [st EXCEPT ![p] = "sealed"], de2 = [de EXCEPT ![p] = v],
         D2 \subseteq D \cup {<<p, s>>},
         s = "fulfilled" => IsItself(st, de, p, v),
         in[p] = <<>> /\ to[p] # <<>> => AgreesOn(st, de, to, p, s, v)
  PROVE  ToldHolds(st2, de2, W, D2, in, to)
PROOF
<1>1. /\ st \in [Ids -> States] /\ de \in [Ids -> Values \cup {Nothing}] /\ to \in [Ids -> Seq(Told)]
      /\ \A q \in Ids : \A i \in 1 .. Len(to[q]) : to[q][i].as = "follow" => to[q][i].value \in Ids
      /\ \A q \in Ids : st[q] # "pending" => de[q] \in Values
      /\ \A q \in Ids, r \in Settled : <<q, r>> \in D => st[q] # "pending"
      /\ \A q \in Ids, e \in Subscriber : <<q, e>> \in W /\ e.type = "adopt" =>
           st[e.child] # "pending" \/ FollowsOn(st, de, to, e.child, q)
      /\ \A q \in Ids : <<q, "fulfilled">> \in D => IsItself(st, de, q, de[q])
      /\ \A q \in Ids, r \in Settled : <<q, r>> \in D /\ in[q] = <<>> /\ to[q] # <<>> =>
           AgreesOn(st, de, to, q, r, de[q])
  BY DEF ToldHolds
<1>2. /\ st2 \in [Ids -> States] /\ de2 \in [Ids -> Values \cup {Nothing}]
      /\ st2[p] = "sealed" /\ de2[p] = v
      /\ \A q \in Ids \ {p} : st2[q] = st[q] /\ de2[q] = de[q]
  BY <1>1 DEF States
<1>3. Keeps(st, de, st2, de2)
  BY <1>2 DEF Keeps, Settled
<1>4. Grows(to, to)
  BY <1>1, LenProperties DEF Grows
<1>5. /\ \A r, q \in Ids : FollowsOn(st, de, to, r, q) => FollowsOn(st2, de2, to, r, q)
      /\ \A q \in Ids, r \in Settled, w \in Values : AgreesOn(st, de, to, q, r, w) => AgreesOn(st2, de2, to, q, r, w)
      /\ \A q \in Ids, w \in Values : IsItself(st, de, q, w) => IsItself(st2, de2, q, w)
  BY <1>1, <1>3, <1>4, ToldIsKept
<1>6. \A q \in Ids, r \in Settled : <<q, r>> \in D2 => (<<q, r>> \in D /\ q # p) \/ (q = p /\ r = s)
  BY <1>1
<1>7. \A q \in Ids : st2[q] # "pending" => de2[q] \in Values
  BY <1>1, <1>2
<1>8. \A q \in Ids, r \in Settled : <<q, r>> \in D2 => st2[q] # "pending"
  BY <1>1, <1>2, <1>6
<1>9. \A q \in Ids, e \in Subscriber : <<q, e>> \in W /\ e.type = "adopt" =>
           st2[e.child] # "pending" \/ FollowsOn(st2, de2, to, e.child, q)
  <2>1. \A e \in Subscriber : e.child \in Ids
    BY DEF Subscriber
  <2> QED
    BY <1>1, <1>3, <1>5, <2>1 DEF Keeps
<1>10. \A q \in Ids : <<q, "fulfilled">> \in D2 => IsItself(st2, de2, q, de2[q])
  <2> SUFFICES ASSUME NEW q \in Ids, <<q, "fulfilled">> \in D2 PROVE IsItself(st2, de2, q, de2[q])
    OBVIOUS
  <2>1. CASE q = p
    BY <1>2, <1>5, <1>6, <2>1 DEF Settled
  <2>2. CASE q # p
    <3>1. <<q, "fulfilled">> \in D /\ st[q] # "pending" /\ de2[q] = de[q]
      BY <1>1, <1>2, <1>6, <2>2 DEF Settled
    <3> QED
      BY <1>1, <1>5, <3>1
  <2> QED
    BY <2>1, <2>2
<1>11. \A q \in Ids, r \in Settled : <<q, r>> \in D2 /\ in[q] = <<>> /\ to[q] # <<>> => AgreesOn(st2, de2, to, q, r, de2[q])
  <2> SUFFICES ASSUME NEW q \in Ids, NEW r \in Settled, <<q, r>> \in D2, in[q] = <<>>, to[q] # <<>>
               PROVE AgreesOn(st2, de2, to, q, r, de2[q])
    OBVIOUS
  <2>1. CASE q = p
    <3>1. r = s /\ de2[q] = v
      BY <1>2, <1>6, <2>1
    <3>2. AgreesOn(st, de, to, q, r, v)
      BY <2>1, <3>1
    <3> QED
      BY <1>5, <3>1, <3>2
  <2>2. CASE q # p
    BY <1>1, <1>2, <1>5, <1>6, <2>2
  <2> QED
    BY <2>1, <2>2
<1> QED
  BY <1>1, <1>2, <1>7, <1>8, <1>9, <1>10, <1>11 DEF ToldHolds

Adds(to, p, t, to2) == to2 = [to EXCEPT ![p] = Append(@, t)]

OnlyAt(to, p, to2) == \A q \in Ids \ {p} : to2[q] = to[q]

(* What a promise has been told is kept.                                   *)
LEMMA AddingGrows ==
  ASSUME NEW to \in [Ids -> Seq(Told)], NEW to2, NEW p \in Ids, NEW t \in Told,
         Adds(to, p, t, to2)
  PROVE  /\ to2 \in [Ids -> Seq(Told)] /\ Grows(to, to2)
         /\ Len(to[p]) \in Nat /\ Len(to2[p]) = Len(to[p]) + 1 /\ to2[p][Len(to[p]) + 1] = t
         /\ OnlyAt(to, p, to2)
PROOF
<1> DEFINE r0 == to[p]
           n == Len(r0)
<1>2. r0 \in Seq(Told) /\ n \in Nat
  BY LenProperties
<1>3. /\ Append(r0, t) \in Seq(Told) /\ Len(Append(r0, t)) = n + 1 /\ Append(r0, t)[n + 1] = t
      /\ \A i \in 1 .. n : Append(r0, t)[i] = r0[i]
  <2> HIDE DEF r0
  <2> QED
    BY <1>2, AppendProperties DEF n
<1>4. to2 \in [Ids -> Seq(Told)] /\ to2[p] = Append(r0, t) /\ \A q \in Ids : q # p => to2[q] = to[q]
  BY <1>3 DEF Adds
<1>5. /\ Len(to2[p]) = n + 1 /\ to2[p][n + 1] = t /\ n = Len(to[p])
      /\ \A i \in 1 .. n : to2[p][i] = to[p][i]
  BY <1>3, <1>4
<1> HIDE DEF n, r0
<1>6. Grows(to, to2)
  <2> SUFFICES ASSUME NEW q \in Ids PROVE Len(to[q]) <= Len(to2[q]) /\ \A i \in 1 .. Len(to[q]) : to2[q][i] = to[q][i]
    BY DEF Grows
  <2>1. CASE q = p
    BY <1>2, <1>5, <2>1
  <2>2. CASE q # p
    BY <1>4, <2>2, LenProperties
  <2> QED
    BY <2>1, <2>2
<1>7. OnlyAt(to, p, to2)
  BY <1>4 DEF OnlyAt
<1> QED
  BY <1>2, <1>4, <1>5, <1>6, <1>7

(* A promise that is told something while it is pending.                   *)
LEMMA ToldTelling ==
  ASSUME NEW st, NEW de, NEW W, NEW D, NEW in, NEW to, NEW to2,
         NEW p \in Ids, NEW t \in Told,
         ToldHolds(st, de, W, D, in, to),
         st[p] = "pending", t.as = "follow" => t.value \in Ids,
         to2 \in [Ids -> Seq(Told)], Grows(to, to2),
         Len(to[p]) \in Nat, Len(to2[p]) = Len(to[p]) + 1, to2[p][Len(to[p]) + 1] = t,
         OnlyAt(to, p, to2)
  PROVE  ToldHolds(st, de, W, D, in, to2)
PROOF
<1>1. /\ st \in [Ids -> States] /\ de \in [Ids -> Values \cup {Nothing}] /\ to \in [Ids -> Seq(Told)]
      /\ \A q \in Ids : \A i \in 1 .. Len(to[q]) : to[q][i].as = "follow" => to[q][i].value \in Ids
      /\ \A q \in Ids : st[q] # "pending" => de[q] \in Values
      /\ \A q \in Ids, r \in Settled : <<q, r>> \in D => st[q] # "pending"
      /\ \A q \in Ids, e \in Subscriber : <<q, e>> \in W /\ e.type = "adopt" =>
           st[e.child] # "pending" \/ FollowsOn(st, de, to, e.child, q)
      /\ \A q \in Ids : <<q, "fulfilled">> \in D => IsItself(st, de, q, de[q])
      /\ \A q \in Ids, r \in Settled : <<q, r>> \in D /\ in[q] = <<>> /\ to[q] # <<>> =>
           AgreesOn(st, de, to, q, r, de[q])
  BY DEF ToldHolds
<1>2. /\ \A r, q \in Ids : FollowsOn(st, de, to, r, q) => FollowsOn(st, de, to2, r, q)
      /\ \A q \in Ids, r \in Settled, w \in Values : AgreesOn(st, de, to, q, r, w) => AgreesOn(st, de, to2, q, r, w)
  BY ToldGrows
<1>3. \A q \in Ids : \A i \in 1 .. Len(to2[q]) : to2[q][i].as = "follow" => to2[q][i].value \in Ids
  <2> SUFFICES ASSUME NEW q \in Ids, NEW i \in 1 .. Len(to2[q]) PROVE to2[q][i].as = "follow" => to2[q][i].value \in Ids
    OBVIOUS
  <2>1. CASE q # p
    BY <1>1, <2>1 DEF OnlyAt
  <2>2. CASE q = p
    <3>1. i \in 1 .. Len(to[p]) \/ i = Len(to[p]) + 1
      BY <2>2
    <3> QED
      BY <1>1, <2>2, <3>1 DEF Grows
  <2> QED
    BY <2>1, <2>2
<1>4. \A q \in Ids, e \in Subscriber : <<q, e>> \in W /\ e.type = "adopt" =>
           st[e.child] # "pending" \/ FollowsOn(st, de, to2, e.child, q)
  <2>1. \A e \in Subscriber : e.child \in Ids
    BY DEF Subscriber
  <2> QED
    BY <1>1, <1>2, <2>1
<1>5. \A q \in Ids, r \in Settled : <<q, r>> \in D /\ in[q] = <<>> /\ to2[q] # <<>> => AgreesOn(st, de, to2, q, r, de[q])
  <2> SUFFICES ASSUME NEW q \in Ids, NEW r \in Settled, <<q, r>> \in D, in[q] = <<>>, to2[q] # <<>>
               PROVE AgreesOn(st, de, to2, q, r, de[q])
    OBVIOUS
  <2>1. q # p /\ st[q] # "pending"
    BY <1>1
  <2> QED
    BY <1>1, <1>2, <2>1 DEF OnlyAt
<1> QED
  BY <1>1, <1>3, <1>4, <1>5 DEF ToldHolds

(* An adopting promise subscribes to what it has been told to follow.      *)
LEMMA ToldWaiting ==
  ASSUME NEW st, NEW de, NEW W, NEW D, NEW in, NEW to, NEW W2, NEW D2, NEW q \in Ids, NEW e \in Subscriber,
         ToldHolds(st, de, W, D, in, to),
         W2 \subseteq W \cup {<<q, e>>}, D2 \subseteq D,
         e.type = "adopt" => st[e.child] # "pending" \/ FollowsOn(st, de, to, e.child, q)
  PROVE  ToldHolds(st, de, W2, D2, in, to)
BY DEF ToldHolds

(* Publishing does not change what a promise has been told.                *)
LEMMA ToldPublishing ==
  ASSUME NEW st, NEW de, NEW W, NEW D, NEW in, NEW to, NEW st2,
         NEW p \in Ids, NEW s \in Settled,
         ToldHolds(st, de, W, D, in, to),
         st[p] = "sealed", Publishes(st, p, s, st2)
  PROVE  ToldHolds(st2, de, W, D, in, to)
PROOF
<1>1. /\ st \in [Ids -> States] /\ de \in [Ids -> Values \cup {Nothing}] /\ to \in [Ids -> Seq(Told)]
      /\ \A q \in Ids : \A i \in 1 .. Len(to[q]) : to[q][i].as = "follow" => to[q][i].value \in Ids
      /\ \A q \in Ids : st[q] # "pending" => de[q] \in Values
      /\ \A q \in Ids, r \in Settled : <<q, r>> \in D => st[q] # "pending"
      /\ \A q \in Ids, e \in Subscriber : <<q, e>> \in W /\ e.type = "adopt" =>
           st[e.child] # "pending" \/ FollowsOn(st, de, to, e.child, q)
      /\ \A q \in Ids : <<q, "fulfilled">> \in D => IsItself(st, de, q, de[q])
      /\ \A q \in Ids, r \in Settled : <<q, r>> \in D /\ in[q] = <<>> /\ to[q] # <<>> =>
           AgreesOn(st, de, to, q, r, de[q])
  BY DEF ToldHolds
<1>2. st2 \in [Ids -> States] /\ st2[p] = s /\ \A q \in Ids \ {p} : st2[q] = st[q]
  BY <1>1 DEF States, Publishes
<1>3. Keeps(st, de, st2, de)
  BY <1>2 DEF Keeps, Settled
<1>4. Grows(to, to)
  BY <1>1, LenProperties DEF Grows
<1>5. /\ \A r, q \in Ids : FollowsOn(st, de, to, r, q) => FollowsOn(st2, de, to, r, q)
      /\ \A q \in Ids, r \in Settled, w \in Values : AgreesOn(st, de, to, q, r, w) => AgreesOn(st2, de, to, q, r, w)
      /\ \A q \in Ids, w \in Values : IsItself(st, de, q, w) => IsItself(st2, de, q, w)
  BY <1>1, <1>3, <1>4, ToldIsKept
<1>6. \A q \in Ids : st2[q] # "pending" <=> st[q] # "pending"
  BY <1>2 DEF Settled
<1>7. \A e \in Subscriber : e.child \in Ids
  BY DEF Subscriber
<1>8. \A q \in Ids, e \in Subscriber : <<q, e>> \in W /\ e.type = "adopt" =>
           st2[e.child] # "pending" \/ FollowsOn(st2, de, to, e.child, q)
  BY <1>1, <1>5, <1>6, <1>7
<1>9. \A q \in Ids : <<q, "fulfilled">> \in D => IsItself(st2, de, q, de[q])
  BY <1>1, <1>5 DEF Settled
<1>10. \A q \in Ids, r \in Settled : <<q, r>> \in D /\ in[q] = <<>> /\ to[q] # <<>> => AgreesOn(st2, de, to, q, r, de[q])
  BY <1>1, <1>5
<1> QED
  BY <1>1, <1>2, <1>6, <1>8, <1>9, <1>10 DEF ToldHolds

(* What handleThenable makes of how a promise was settled.                 *)
LEMMA ToldAdopting ==
  ASSUME NEW st, NEW de, NEW W, NEW D, NEW in, NEW to, NEW q \in Ids, NEW e \in Subscriber,
         ToldHolds(st, de, W, D, in, to),
         <<q, e>> \in W, e.type = "adopt", st[e.child] = "pending",
         st[q] \in Settled, <<q, st[q]>> \in D
  PROVE  /\ st[q] = "rejected" => AgreesOn(st, de, to, e.child, "rejected", de[q])
         /\ st[q] = "fulfilled" /\ de[q] # q /\ de[q] \in Ids => FollowsOn(st, de, to, e.child, de[q])
         /\ st[q] = "fulfilled" => AgreesOn(st, de, to, e.child, "fulfilled", de[q])
PROOF
<1> DEFINE c == e.child
<1>1. c \in Ids
  BY DEF Subscriber
<1>2. FollowsOn(st, de, to, c, q)
  BY DEF ToldHolds
<1>3. PICK i \in 1 .. Len(to[c]) : /\ to[c][i].as = "follow"
          /\ \/ to[c][i].value = q
             \/ st[to[c][i].value] = "fulfilled" /\ de[to[c][i].value] = q /\ st[q] = "fulfilled" /\ de[q] = q
  BY <1>2 DEF FollowsOn
<1>4. to[c][i].value \in Ids
  BY <1>1, <1>3 DEF ToldHolds
<1>5. st[to[c][i].value] = st[q] /\ de[to[c][i].value] = de[q]
  BY <1>3
<1>6. AgreesOn(st, de, to, c, st[q], de[q])
  BY <1>3, <1>5 DEF AgreesOn
<1>7. ASSUME st[q] = "fulfilled", de[q] # q, de[q] \in Ids PROVE FollowsOn(st, de, to, c, de[q])
  <2>1. to[c][i].value = q
    BY <1>3, <1>7
  <2>2. IsItself(st, de, q, de[q])
    BY <1>7 DEF ToldHolds
  <2>3. st[de[q]] = "fulfilled" /\ de[de[q]] = de[q]
    BY <1>7, <2>2 DEF IsItself
  <2> QED
    BY <1>3, <1>7, <2>1, <2>3 DEF FollowsOn
<1> QED
  BY <1>6, <1>7

-----------------------------------------------------------------------------
(* What all waits for.                                                     *)

Missing(in, rs, a) == {i \in 1 .. Len(in[a]) : rs[a][i] = Nothing}
IsComplete(in, rs, a) == Missing(in, rs, a) = {}
ResultIsRight(st, de, in, rs, a, i) ==
  IF in[a][i] \in Ids THEN st[in[a][i]] = "fulfilled" /\ rs[a][i] = de[in[a][i]]
  ELSE rs[a][i] = in[a][i]
OneIsRejected(st, de, in, a, v) ==
  \E i \in 1 .. Len(in[a]) : in[a][i] \in Ids /\ st[in[a][i]] = "rejected" /\ de[in[a][i]] = v
InputWaits(in, rs, p, e) ==
  e.index \in 1 .. Len(in[e.child]) /\ in[e.child][e.index] = p /\ rs[e.child][e.index] = Nothing

AllHolds(cr, st, de, W, D, in, rs, rm, lo) ==
  /\ st \in [Ids -> States]
  /\ in \in [Ids -> Seq(Values)] /\ rm \in [Ids -> Int] /\ lo \in Nat
  /\ rs \in [Ids -> [1 .. MaxInputs -> Values \cup {Nothing}]]
  /\ \A a \in Ids : Len(in[a]) <= MaxInputs
  /\ \A a \in Ids : a > cr => in[a] = <<>> /\ \A i \in 1 .. MaxInputs : rs[a][i] = Nothing
  /\ \A a \in Ids : rm[a] = Cardinality(Missing(in, rs, a))
  /\ \A a \in Ids : \A i \in 1 .. Len(in[a]) : rs[a][i] # Nothing => ResultIsRight(st, de, in, rs, a, i)
  /\ \A p \in Ids, e \in Subscriber : <<p, e>> \in W /\ e.type = "all" =>
       InputWaits(in, rs, p, e) /\ (lo # 0 /\ e.child = cr => e.index < lo)
  /\ lo # 0 => /\ cr \in Ids /\ lo \in 1 .. Len(in[cr])
               /\ \A i \in lo .. Len(in[cr]) : rs[cr][i] = Nothing
  /\ \A a \in Ids : <<a, "fulfilled">> \in D /\ in[a] # <<>> => IsComplete(in, rs, a)
  /\ \A a \in Ids : <<a, "rejected">> \in D /\ in[a] # <<>> => OneIsRejected(st, de, in, a, de[a])

LEMMA UpTo == \A n \in Nat : IsFiniteSet(1 .. n) /\ Cardinality(1 .. n) = n
BY FS_Interval

(* What has arrived stays right, and so does a rejection that was passed   *)
(* on.                                                                     *)
LEMMA AllIsKept ==
  ASSUME NEW cr, NEW st, NEW de, NEW W, NEW D, NEW in, NEW rs, NEW rm, NEW lo, NEW st2, NEW de2,
         AllHolds(cr, st, de, W, D, in, rs, rm, lo), Keeps(st, de, st2, de2)
  PROVE  /\ \A a \in Ids : \A i \in 1 .. Len(in[a]) : ResultIsRight(st, de, in, rs, a, i) => ResultIsRight(st2, de2, in, rs, a, i)
         /\ \A a \in Ids : \A v \in Values : OneIsRejected(st, de, in, a, v) => OneIsRejected(st2, de2, in, a, v)
PROOF
<1>1. \A p \in Ids : st[p] \in Settled => st2[p] = st[p] /\ de2[p] = de[p]
  BY DEF Keeps, Settled
<1> QED
  BY <1>1 DEF ResultIsRight, OneIsRejected, Settled

(* all is fulfilled when it has everything, and rejected with one of them. *)
LEMMA AllSealing ==
  ASSUME NEW cr, NEW st, NEW de, NEW W, NEW D, NEW in, NEW rs, NEW rm, NEW lo, NEW st2, NEW de2, NEW D2,
         NEW p \in Ids, NEW s \in Settled, NEW v \in Values,
         AllHolds(cr, st, de, W, D, in, rs, rm, lo), de \in [Ids -> Values \cup {Nothing}],
         \A a \in Ids : st[a] # "pending" => de[a] \in Values,
         \A a \in Ids, t \in Settled : <<a, t>> \in D => st[a] # "pending",
         st[p] = "pending", st2 = [st EXCEPT ![p] = "sealed"], de2 = [de EXCEPT ![p] = v],
         D2 \subseteq D \cup {<<p, s>>},
         s = "fulfilled" /\ in[p] # <<>> => IsComplete(in, rs, p),
         s = "rejected" /\ in[p] # <<>> => OneIsRejected(st, de, in, p, v)
  PROVE  AllHolds(cr, st2, de2, W, D2, in, rs, rm, lo)
PROOF
<1>1. /\ st \in [Ids -> States]
      /\ \A a \in Ids : \A i \in 1 .. Len(in[a]) : rs[a][i] # Nothing => ResultIsRight(st, de, in, rs, a, i)
      /\ \A a \in Ids : <<a, "fulfilled">> \in D /\ in[a] # <<>> => IsComplete(in, rs, a)
      /\ \A a \in Ids : <<a, "rejected">> \in D /\ in[a] # <<>> => OneIsRejected(st, de, in, a, de[a])
  BY DEF AllHolds
<1>2. /\ st2 \in [Ids -> States] /\ st2[p] = "sealed" /\ de2[p] = v
      /\ \A q \in Ids \ {p} : st2[q] = st[q] /\ de2[q] = de[q]
  BY <1>1 DEF States
<1>3. Keeps(st, de, st2, de2)
  BY <1>2 DEF Keeps, Settled
<1>4. /\ \A a \in Ids : \A i \in 1 .. Len(in[a]) : ResultIsRight(st, de, in, rs, a, i) => ResultIsRight(st2, de2, in, rs, a, i)
      /\ \A a \in Ids : \A w \in Values : OneIsRejected(st, de, in, a, w) => OneIsRejected(st2, de2, in, a, w)
  BY <1>3, AllIsKept
<1>5. "fulfilled" \in Settled /\ "rejected" \in Settled
  BY DEF Settled
<1>6. \A a \in Ids : <<a, "fulfilled">> \in D2 /\ in[a] # <<>> => IsComplete(in, rs, a)
  BY <1>1
<1>7. \A a \in Ids : <<a, "rejected">> \in D2 /\ in[a] # <<>> => OneIsRejected(st2, de2, in, a, de2[a])
  <2> SUFFICES ASSUME NEW a \in Ids, <<a, "rejected">> \in D2, in[a] # <<>>
               PROVE OneIsRejected(st2, de2, in, a, de2[a])
    OBVIOUS
  <2>1. CASE <<a, "rejected">> \in D
    <3>1. a # p /\ de2[a] = de[a] /\ de[a] \in Values
      BY <1>2, <1>5, <2>1
    <3> QED
      BY <1>1, <1>4, <2>1, <3>1
  <2>2. CASE a = p /\ s = "rejected"
    BY <1>2, <1>4, <2>2
  <2> QED
    BY <2>1, <2>2
<1>8. \A a \in Ids : \A i \in 1 .. Len(in[a]) : rs[a][i] # Nothing => ResultIsRight(st2, de2, in, rs, a, i)
  BY <1>1, <1>4
<1> QED
  BY <1>2, <1>6, <1>7, <1>8 DEF AllHolds

(* Publishing does not change what all has.                                *)
LEMMA AllPublishing ==
  ASSUME NEW cr, NEW st, NEW de, NEW W, NEW D, NEW in, NEW rs, NEW rm, NEW lo, NEW st2,
         NEW p \in Ids, NEW s \in Settled,
         AllHolds(cr, st, de, W, D, in, rs, rm, lo),
         \A a \in Ids : st[a] # "pending" => de[a] \in Values,
         \A a \in Ids, t \in Settled : <<a, t>> \in D => st[a] # "pending",
         st[p] = "sealed", Publishes(st, p, s, st2)
  PROVE  AllHolds(cr, st2, de, W, D, in, rs, rm, lo)
PROOF
<1>1. /\ st \in [Ids -> States]
      /\ \A a \in Ids : \A i \in 1 .. Len(in[a]) : rs[a][i] # Nothing => ResultIsRight(st, de, in, rs, a, i)
      /\ \A a \in Ids : <<a, "rejected">> \in D /\ in[a] # <<>> => OneIsRejected(st, de, in, a, de[a])
  BY DEF AllHolds
<1>2. st2 \in [Ids -> States] /\ st2[p] = s /\ \A q \in Ids \ {p} : st2[q] = st[q]
  BY <1>1 DEF States, Publishes
<1>3. Keeps(st, de, st2, de)
  BY <1>2 DEF Keeps, Settled
<1>4. /\ \A a \in Ids : \A i \in 1 .. Len(in[a]) : ResultIsRight(st, de, in, rs, a, i) => ResultIsRight(st2, de, in, rs, a, i)
      /\ \A a \in Ids : \A w \in Values : OneIsRejected(st, de, in, a, w) => OneIsRejected(st2, de, in, a, w)
  BY <1>3, AllIsKept
<1>5. \A a \in Ids : <<a, "rejected">> \in D /\ in[a] # <<>> => OneIsRejected(st2, de, in, a, de[a])
  BY <1>1, <1>4 DEF Settled
<1>6. \A a \in Ids : \A i \in 1 .. Len(in[a]) : rs[a][i] # Nothing => ResultIsRight(st2, de, in, rs, a, i)
  BY <1>1, <1>4
<1> QED
  BY <1>2, <1>5, <1>6 DEF AllHolds

(* A subscriber of all waits for an input that has not arrived.            *)
LEMMA AllWaiting ==
  ASSUME NEW cr, NEW st, NEW de, NEW W, NEW D, NEW in, NEW rs, NEW rm, NEW lo, NEW W2, NEW D2,
         NEW q \in Ids, NEW e \in Subscriber,
         AllHolds(cr, st, de, W, D, in, rs, rm, lo),
         W2 \subseteq W \cup {<<q, e>>}, D2 \subseteq D,
         e.type = "all" => InputWaits(in, rs, q, e) /\ (lo # 0 /\ e.child = cr => e.index < lo)
  PROVE  AllHolds(cr, st, de, W2, D2, in, rs, rm, lo)
PROOF
<1>1. \A p \in Ids, f \in Subscriber : <<p, f>> \in W2 /\ f.type = "all" =>
       InputWaits(in, rs, p, f) /\ (lo # 0 /\ f.child = cr => f.index < lo)
  BY DEF AllHolds
<1>2. /\ \A a \in Ids : <<a, "fulfilled">> \in D2 /\ in[a] # <<>> => IsComplete(in, rs, a)
      /\ \A a \in Ids : <<a, "rejected">> \in D2 /\ in[a] # <<>> => OneIsRejected(st, de, in, a, de[a])
  BY DEF AllHolds
<1> QED
  BY <1>1, <1>2 DEF AllHolds

(* A new promise waits for nothing.                                        *)
LEMMA AllCreating ==
  ASSUME NEW cr \in Nat, NEW st, NEW de, NEW W, NEW D, NEW in, NEW rs, NEW rm,
         AllHolds(cr, st, de, W, D, in, rs, rm, 0)
  PROVE  AllHolds(cr + 1, st, de, W, D, in, rs, rm, 0)
PROOF
<1>1. \A a \in Ids : a > cr + 1 => a > cr
  BY DEF Ids
<1> QED
  BY <1>1 DEF AllHolds

(* The loop of all comes to each input once.                               *)
LEMMA AllLooping ==
  ASSUME NEW cr, NEW st, NEW de, NEW W, NEW D, NEW in, NEW rs, NEW rm, NEW lo, NEW lo2,
         AllHolds(cr, st, de, W, D, in, rs, rm, lo), lo # 0,
         lo2 = IF lo = Len(in[cr]) THEN 0 ELSE lo + 1
  PROVE  AllHolds(cr, st, de, W, D, in, rs, rm, lo2) /\ (lo2 # 0 => lo < lo2) /\ lo2 \in 0 .. MaxInputs
PROOF
<1> DEFINE n == Len(in[cr])
<1>1. cr \in Ids /\ lo \in 1 .. n /\ n \in Nat /\ n <= MaxInputs
  BY LenProperties DEF AllHolds
<1>2. lo2 = IF lo = n THEN 0 ELSE lo + 1
  OBVIOUS
<1>3. \A i \in lo .. n : rs[cr][i] = Nothing
  BY DEF AllHolds
<1>4. \A p \in Ids, e \in Subscriber : <<p, e>> \in W /\ e.type = "all" =>
       InputWaits(in, rs, p, e) /\ (e.child = cr => e.index < lo)
  BY DEF AllHolds
<1>5. \A e \in Subscriber : e.index \in Nat
  BY BoundAssumption DEF Subscriber
<1> HIDE DEF n
<1>6. lo2 \in Nat /\ (lo2 # 0 => lo2 \in 1 .. n /\ lo < lo2) /\ (lo2 # 0 => \A i \in lo2 .. n : i \in lo .. n)
  BY <1>1, <1>2
<1>7. \A p \in Ids, e \in Subscriber : <<p, e>> \in W /\ e.type = "all" =>
       InputWaits(in, rs, p, e) /\ (lo2 # 0 /\ e.child = cr => e.index < lo2)
  BY <1>1, <1>4, <1>5, <1>6
<1>8. lo2 # 0 => cr \in Ids /\ lo2 \in 1 .. Len(in[cr]) /\ \A i \in lo2 .. Len(in[cr]) : rs[cr][i] = Nothing
  BY <1>1, <1>3, <1>6 DEF n
<1>9. AllHolds(cr, st, de, W, D, in, rs, rm, lo2)
  BY <1>6, <1>7, <1>8 DEF AllHolds
<1>10. lo2 \in 0 .. MaxInputs
  BY <1>1, <1>6, BoundAssumption
<1> QED
  BY <1>6, <1>9, <1>10

StartsAll(in, rm, m, qs, in2, rm2, lo2) ==
  /\ in2 = [in EXCEPT ![m] = qs] /\ rm2 = [rm EXCEPT ![m] = Len(qs)]
  /\ lo2 = IF qs = <<>> THEN 0 ELSE 1

(* all begins with everything missing.                                     *)
LEMMA AllStarting ==
  ASSUME NEW cr \in Nat, NEW m \in Ids, m = cr + 1, NEW st, NEW de, NEW W, NEW D, NEW in, NEW rs, NEW rm,
         NEW in2, NEW rm2, NEW lo2, NEW k \in 0 .. MaxInputs, NEW qs \in [1 .. k -> Values],
         AllHolds(cr, st, de, W, D, in, rs, rm, 0),
         \A s \in Settled : <<m, s>> \notin D,
         StartsAll(in, rm, m, qs, in2, rm2, lo2)
  PROVE  AllHolds(m, st, de, W, D, in2, rs, rm2, lo2) /\ lo2 \in 0 .. MaxInputs
PROOF
<1>1. m \in Ids /\ m \in Nat /\ cr < m /\ \A a \in Ids : a > m => a > cr
  BY DEF Ids
<1>2. qs \in Seq(Values) /\ Len(qs) = k /\ k \in Nat /\ k <= MaxInputs /\ (qs = <<>> <=> k = 0)
  BY BoundAssumption
<1>3. \A s \in Settled : <<m, s>> \notin D
  OBVIOUS
<1>0. lo2 = IF qs = <<>> THEN 0 ELSE 1
  BY DEF StartsAll
<1>4. in2 = [in EXCEPT ![m] = qs] /\ rm2 = [rm EXCEPT ![m] = k]
  BY <1>2 DEF StartsAll
<1>5. /\ in \in [Ids -> Seq(Values)] /\ rm \in [Ids -> Int]
      /\ rs \in [Ids -> [1 .. MaxInputs -> Values \cup {Nothing}]]
      /\ \A a \in Ids : Len(in[a]) <= MaxInputs
      /\ \A a \in Ids : a > cr => in[a] = <<>> /\ \A i \in 1 .. MaxInputs : rs[a][i] = Nothing
      /\ \A a \in Ids : rm[a] = Cardinality(Missing(in, rs, a))
      /\ \A a \in Ids : \A i \in 1 .. Len(in[a]) : rs[a][i] # Nothing => ResultIsRight(st, de, in, rs, a, i)
      /\ \A p \in Ids, e \in Subscriber : <<p, e>> \in W /\ e.type = "all" => InputWaits(in, rs, p, e)
      /\ \A a \in Ids : <<a, "fulfilled">> \in D /\ in[a] # <<>> => IsComplete(in, rs, a)
      /\ \A a \in Ids : <<a, "rejected">> \in D /\ in[a] # <<>> => OneIsRejected(st, de, in, a, de[a])
  BY DEF AllHolds
<1>6. /\ in2 \in [Ids -> Seq(Values)] /\ in2[m] = qs /\ \A a \in Ids \ {m} : in2[a] = in[a]
      /\ rm2 \in [Ids -> Int] /\ rm2[m] = k /\ \A a \in Ids \ {m} : rm2[a] = rm[a]
  BY <1>1, <1>2, <1>4, <1>5
<1>7. in[m] = <<>> /\ \A i \in 1 .. MaxInputs : rs[m][i] = Nothing
  BY <1>1, <1>5
<1>8. \A a \in Ids \ {m} : Missing(in2, rs, a) = Missing(in, rs, a)
  BY <1>6 DEF Missing
<1>9. Missing(in2, rs, m) = 1 .. k
  BY <1>2, <1>6, <1>7, BoundAssumption DEF Missing
<1>10. Cardinality(1 .. k) = k
  BY <1>2, UpTo
<1>11. \A a \in Ids : rm2[a] = Cardinality(Missing(in2, rs, a))
  BY <1>5, <1>6, <1>8, <1>9, <1>10
<1>12. \A a \in Ids : Len(in2[a]) <= MaxInputs
  BY <1>2, <1>5, <1>6
<1>13. \A a \in Ids : a > m => in2[a] = <<>> /\ \A i \in 1 .. MaxInputs : rs[a][i] = Nothing
  BY <1>1, <1>5, <1>6
<1>14. \A a \in Ids : \A i \in 1 .. Len(in2[a]) : rs[a][i] # Nothing => ResultIsRight(st, de, in2, rs, a, i)
  <2> SUFFICES ASSUME NEW a \in Ids, NEW i \in 1 .. Len(in2[a]), rs[a][i] # Nothing
               PROVE ResultIsRight(st, de, in2, rs, a, i)
    OBVIOUS
  <2>1. a # m
    BY <1>2, <1>6, <1>7, BoundAssumption
  <2>2. in2[a] = in[a] /\ i \in 1 .. Len(in[a])
    BY <1>6, <2>1
  <2>3. ResultIsRight(st, de, in, rs, a, i)
    BY <1>5, <2>2
  <2> QED
    BY <2>2, <2>3 DEF ResultIsRight
<1>15. \A p \in Ids, e \in Subscriber : <<p, e>> \in W /\ e.type = "all" => e.child # m /\ InputWaits(in2, rs, p, e)
  <2> SUFFICES ASSUME NEW p \in Ids, NEW e \in Subscriber, <<p, e>> \in W, e.type = "all"
               PROVE  e.child # m /\ InputWaits(in2, rs, p, e)
    OBVIOUS
  <2>1. InputWaits(in, rs, p, e) /\ e.child \in Ids
    BY <1>5 DEF Subscriber
  <2>2. e.child # m
    BY <1>7, <2>1 DEF InputWaits
  <2> QED
    BY <1>6, <2>1, <2>2 DEF InputWaits
<1>16. lo2 # 0 => m \in Ids /\ lo2 \in 1 .. Len(in2[m]) /\ \A i \in lo2 .. Len(in2[m]) : rs[m][i] = Nothing
  BY <1>0, <1>1, <1>2, <1>6, <1>7, BoundAssumption
<1>17. \A a \in Ids : <<a, "fulfilled">> \in D /\ in2[a] # <<>> => IsComplete(in2, rs, a)
  BY <1>3, <1>5, <1>6, <1>8 DEF Settled, IsComplete
<1>18. \A a \in Ids : <<a, "rejected">> \in D /\ in2[a] # <<>> => OneIsRejected(st, de, in2, a, de[a])
  <2> SUFFICES ASSUME NEW a \in Ids, <<a, "rejected">> \in D, in2[a] # <<>> PROVE OneIsRejected(st, de, in2, a, de[a])
    OBVIOUS
  <2>1. a # m
    BY <1>3 DEF Settled
  <2>2. in2[a] = in[a] /\ OneIsRejected(st, de, in, a, de[a])
    BY <1>5, <1>6, <2>1
  <2> QED
    BY <2>2 DEF OneIsRejected
<1>19. lo2 \in Nat /\ st \in [Ids -> States]
  BY <1>0 DEF AllHolds
<1>20. AllHolds(m, st, de, W, D, in2, rs, rm2, lo2)
  BY <1>5, <1>6, <1>11, <1>12, <1>13, <1>14, <1>15, <1>16, <1>17, <1>18, <1>19 DEF AllHolds
<1>21. lo2 \in 0 .. MaxInputs
  BY <1>0, <1>2, BoundAssumption
<1> QED
  BY <1>20, <1>21

IsValueOf(st, de, q, v) == IF q \in Ids THEN st[q] = "fulfilled" /\ v = de[q] ELSE v = q
IsAlone(W, a, i) == \A p \in Ids, e \in Subscriber : <<p, e>> \in W /\ e.type = "all" /\ e.child = a => e.index # i
Completes(in, rm, rs2, a) == rm[a] = 1 => IsComplete(in, rs2, a)
Records(rs, rm, a, i, v, rs2, rm2) ==
  rs2 = [rs EXCEPT ![a][i] = v] /\ rm2 = [rm EXCEPT ![a] = @ - 1]

(* An input arrives: one less is missing, and none after the last.         *)
LEMMA AllResolving ==
  ASSUME NEW cr, NEW st, NEW de, NEW W, NEW D, NEW in, NEW rs, NEW rm, NEW lo, NEW rs2, NEW rm2,
         NEW a \in Ids, NEW i \in 1 .. Len(in[a]), NEW v \in Values,
         AllHolds(cr, st, de, W, D, in, rs, rm, lo),
         rs[a][i] = Nothing,
         IsValueOf(st, de, in[a][i], v), IsAlone(W, a, i),
         lo # 0 /\ a = cr => i < lo,
         Records(rs, rm, a, i, v, rs2, rm2)
  PROVE  /\ AllHolds(cr, st, de, W, D, in, rs2, rm2, lo)
         /\ Completes(in, rm, rs2, a)
PROOF
<1>1. /\ in \in [Ids -> Seq(Values)] /\ rm \in [Ids -> Int] /\ lo \in Nat
      /\ rs \in [Ids -> [1 .. MaxInputs -> Values \cup {Nothing}]]
      /\ \A b \in Ids : Len(in[b]) <= MaxInputs
      /\ \A b \in Ids : b > cr => in[b] = <<>> /\ \A j \in 1 .. MaxInputs : rs[b][j] = Nothing
      /\ \A b \in Ids : rm[b] = Cardinality(Missing(in, rs, b))
      /\ \A b \in Ids : \A j \in 1 .. Len(in[b]) : rs[b][j] # Nothing => ResultIsRight(st, de, in, rs, b, j)
      /\ \A p \in Ids, e \in Subscriber : <<p, e>> \in W /\ e.type = "all" =>
           InputWaits(in, rs, p, e) /\ (lo # 0 /\ e.child = cr => e.index < lo)
      /\ \A b \in Ids : <<b, "fulfilled">> \in D /\ in[b] # <<>> => IsComplete(in, rs, b)
      /\ lo # 0 => \A j \in lo .. Len(in[cr]) : rs[cr][j] = Nothing
  BY DEF AllHolds
<1> DEFINE n == Len(in[a])
<1>2. n \in Nat /\ n <= MaxInputs /\ i \in 1 .. n /\ i \in 1 .. MaxInputs
  BY <1>1, LenProperties, BoundAssumption
<1>3. v # Nothing
  BY PlainAssumption DEF Values, Nothing, Ids
<1>4. /\ rs2 \in [Ids -> [1 .. MaxInputs -> Values \cup {Nothing}]]
      /\ rs2[a][i] = v
      /\ \A j \in (1 .. MaxInputs) \ {i} : rs2[a][j] = rs[a][j]
      /\ \A b \in Ids \ {a} : rs2[b] = rs[b]
  BY <1>1, <1>2 DEF Records
<1>5. rm2 \in [Ids -> Int] /\ rm2[a] = rm[a] - 1 /\ \A b \in Ids \ {a} : rm2[b] = rm[b]
  BY <1>1 DEF Records
<1>6. \A j \in 1 .. n : j \in 1 .. MaxInputs
  BY <1>2, BoundAssumption
<1>7. Missing(in, rs2, a) = Missing(in, rs, a) \ {i} /\ i \in Missing(in, rs, a)
  BY <1>2, <1>3, <1>4, <1>6 DEF Missing
<1>8. IsFiniteSet(1 .. n) /\ Missing(in, rs, a) \in SUBSET (1 .. n)
  <2>1. IsFiniteSet(1 .. n)
    BY <1>2, UpTo
  <2> QED
    BY <2>1 DEF Missing
<1>9. IsFiniteSet(Missing(in, rs, a))
  BY <1>8, FS_Subset
<1>10. Cardinality(Missing(in, rs2, a)) = Cardinality(Missing(in, rs, a)) - 1 /\ IsFiniteSet(Missing(in, rs2, a))
  BY <1>7, <1>9, FS_RemoveElement
<1>11. \A b \in Ids \ {a} : Missing(in, rs2, b) = Missing(in, rs, b)
  BY <1>4 DEF Missing
<1>12. \A b \in Ids : rm2[b] = Cardinality(Missing(in, rs2, b))
  BY <1>1, <1>5, <1>10, <1>11
<1>13. Completes(in, rm, rs2, a)
  BY <1>1, <1>5, <1>10, <1>12, FS_EmptySet DEF IsComplete, Completes
<1>15. \A b \in Ids : b > cr => in[b] = <<>> /\ \A j \in 1 .. MaxInputs : rs2[b][j] = Nothing
  <2> SUFFICES ASSUME NEW b \in Ids, b > cr PROVE in[b] = <<>> /\ \A j \in 1 .. MaxInputs : rs2[b][j] = Nothing
    OBVIOUS
  <2>1. in[b] = <<>> /\ Len(<<>>) = 0
    BY <1>1
  <2>2. b # a
    BY <1>2, <2>1
  <2> QED
    BY <1>1, <1>4, <2>2
<1>16. \A b \in Ids : \A j \in 1 .. Len(in[b]) : rs2[b][j] # Nothing => ResultIsRight(st, de, in, rs2, b, j)
  <2> SUFFICES ASSUME NEW b \in Ids, NEW j \in 1 .. Len(in[b]), rs2[b][j] # Nothing
               PROVE ResultIsRight(st, de, in, rs2, b, j)
    OBVIOUS
  <2>1. CASE b = a /\ j = i
    BY <1>4, <2>1 DEF ResultIsRight, IsValueOf
  <2>2. CASE b # a \/ j # i
    <3>1. rs2[b][j] = rs[b][j]
      BY <1>4, <1>6, <2>2
    <3> QED
      BY <1>1, <3>1 DEF ResultIsRight
  <2> QED
    BY <2>1, <2>2
<1>17. \A p \in Ids, e \in Subscriber : <<p, e>> \in W /\ e.type = "all" =>
         InputWaits(in, rs2, p, e) /\ (lo # 0 /\ e.child = cr => e.index < lo)
  <2> SUFFICES ASSUME NEW p \in Ids, NEW e \in Subscriber, <<p, e>> \in W, e.type = "all"
               PROVE InputWaits(in, rs2, p, e) /\ (lo # 0 /\ e.child = cr => e.index < lo)
    OBVIOUS
  <2>1. InputWaits(in, rs, p, e) /\ (lo # 0 /\ e.child = cr => e.index < lo) /\ e.child \in Ids
    BY <1>1 DEF Subscriber
  <2>2. rs2[e.child][e.index] = rs[e.child][e.index]
    <3>1. CASE e.child = a
      <4>1. e.index \in 1 .. n /\ e.index # i
        BY <2>1, <3>1 DEF InputWaits, IsAlone
      <4> QED
        BY <1>4, <1>6, <3>1, <4>1
    <3>2. CASE e.child # a
      BY <1>4, <2>1, <3>2
    <3> QED
      BY <3>1, <3>2
  <2> QED
    BY <2>1, <2>2 DEF InputWaits
<1>18. lo # 0 => cr \in Ids /\ lo \in 1 .. Len(in[cr]) /\ \A j \in lo .. Len(in[cr]) : rs2[cr][j] = Nothing
  <2> SUFFICES ASSUME lo # 0 PROVE cr \in Ids /\ lo \in 1 .. Len(in[cr]) /\ \A j \in lo .. Len(in[cr]) : rs2[cr][j] = Nothing
    OBVIOUS
  <2>1. cr \in Ids /\ lo \in 1 .. Len(in[cr]) /\ \A j \in lo .. Len(in[cr]) : rs[cr][j] = Nothing
    BY DEF AllHolds
  <2>2. CASE a # cr
    BY <1>4, <2>1, <2>2
  <2>3. CASE a = cr
    <3>1. \A j \in lo .. n : j \in (1 .. MaxInputs) \ {i}
      BY <1>2, <1>1, <2>1, <2>3, BoundAssumption
    <3> QED
      BY <1>4, <2>1, <2>3, <3>1
  <2> QED
    BY <2>2, <2>3
<1>19. \A b \in Ids : <<b, "fulfilled">> \in D /\ in[b] # <<>> => IsComplete(in, rs2, b)
  BY <1>1, <1>7, <1>11 DEF IsComplete
<1> QED
  BY <1>4, <1>5, <1>12, <1>13, <1>15, <1>16, <1>17, <1>18, <1>19 DEF AllHolds

-----------------------------------------------------------------------------
(* All of it together.                                                     *)

KindsHold(cr, op, st, W, ca, in, to) ==
  /\ cr \in 0 .. MaxPromises
  /\ op \subseteq 1 .. cr /\ \A p \in op : in[p] = <<>>
  /\ \A p \in Ids : p > cr => st[p] = "pending" /\ in[p] = <<>> /\ to[p] = <<>>
  /\ \A p \in Ids, e \in Subscriber : <<p, e>> \in W =>
       /\ e.child \in 1 .. cr
       /\ e.type # "all" => in[e.child] = <<>>
       /\ e.type = "adopt" => p # e.child
  /\ \A e \in ca : e.child \in 1 .. cr /\ (e.type # "all" => in[e.child] = <<>>)

Holds(cr, op, st, de, su, qu, nx, pb, ca, in, rs, rm, lo, rg, ra, to) ==
  /\ Flushing(st, de, su, qu, nx, pb, ca)
  /\ OrderHolds(cr, Waiting(su, qu, nx, pb, ca), rg, ra)
  /\ ToldHolds(st, de, Waiting(su, qu, nx, pb, ca), Decided(st, qu), in, to)
  /\ AllHolds(cr, st, de, Waiting(su, qu, nx, pb, ca), Decided(st, qu), in, rs, rm, lo)
  /\ KindsHold(cr, op, st, Waiting(su, qu, nx, pb, ca), ca, in, to)

Outcome(st, de) == [p \in Ids |-> IF st[p] \in Settled THEN [state |-> st[p], value |-> {de[p]}]
                                  ELSE [state |-> "pending", value |-> {}]]

SameOutcome(st, de, st2, de2) == Outcome(st2, de2) = Outcome(st, de)

SettlesTo(st, de, qu, p, s, v, st2, de2, qu2) ==
  IF st[p] = "pending" THEN Seals(st, de, qu, p, s, v, st2, de2, qu2) ELSE st2 = st /\ de2 = de /\ qu2 = qu
ResolvesTo(st, de, su, qu, p, v, st2, de2, su2, qu2) ==
  IF v \in Ids \ {p} THEN Subscribes(st, su, qu, v, AdoptBy(p), su2, qu2) /\ st2 = st /\ de2 = de
  ELSE SettlesTo(st, de, qu, p, "fulfilled", v, st2, de2, qu2) /\ su2 = su

(* What p has been told, or what it waits for, allows it to be settled so, *)
(* or to follow v.                                                         *)
MaySettle(st, de, in, rs, to, p, s, v) ==
  /\ s = "fulfilled" => IsItself(st, de, p, v)
  /\ st[p] = "pending" /\ in[p] = <<>> /\ to[p] # <<>> => AgreesOn(st, de, to, p, s, v)
  /\ st[p] = "pending" /\ s = "fulfilled" /\ in[p] # <<>> => IsComplete(in, rs, p)
  /\ st[p] = "pending" /\ s = "rejected" /\ in[p] # <<>> => OneIsRejected(st, de, in, p, v)
MayResolve(st, de, in, rs, to, p, v) ==
  /\ v \in Ids \ {p} => in[p] = <<>> /\ (st[p] # "pending" \/ FollowsOn(st, de, to, p, v))
  /\ v \notin Ids \ {p} /\ st[p] = "pending" =>
       /\ in[p] = <<>> /\ to[p] # <<>> => AgreesOn(st, de, to, p, "fulfilled", v)
       /\ in[p] # <<>> => IsComplete(in, rs, p)

(* A promise is settled, or it was settled before.                         *)
LEMMA Settling ==
  ASSUME NEW cr, NEW op, NEW st, NEW de, NEW su, NEW qu, NEW nx, NEW pb, NEW ca, NEW in,
         NEW rs, NEW rm, NEW lo, NEW rg, NEW ra, NEW to, NEW st2, NEW de2, NEW qu2,
         Holds(cr, op, st, de, su, qu, nx, pb, ca, in, rs, rm, lo, rg, ra, to),
         NEW p \in 1 .. cr, NEW s \in Settled, NEW v \in Values,
         SettlesTo(st, de, qu, p, s, v, st2, de2, qu2),
         MaySettle(st, de, in, rs, to, p, s, v)
  PROVE  /\ Holds(cr, op, st2, de2, su, qu2, nx, pb, ca, in, rs, rm, lo, rg, ra, to)
         /\ SameOutcome(st, de, st2, de2)
PROOF
<1>1. CASE st[p] # "pending"
  BY <1>1 DEF SettlesTo, SameOutcome
<1>2. CASE st[p] = "pending"
  <2> DEFINE W == Waiting(su, qu, nx, pb, ca)
             D == Decided(st, qu)
             D2 == Decided(st2, qu2)
  <2>1. Seals(st, de, qu, p, s, v, st2, de2, qu2)
    BY <1>2 DEF SettlesTo
  <2>2. p \in Ids /\ v \in Values \cup {Nothing}
    BY BoundAssumption DEF Holds, KindsHold, Ids
  <2>3. /\ Flushing(st, de, su, qu, nx, pb, ca) /\ OrderHolds(cr, W, rg, ra)
        /\ ToldHolds(st, de, W, D, in, to) /\ AllHolds(cr, st, de, W, D, in, rs, rm, lo)
        /\ KindsHold(cr, op, st, W, ca, in, to)
    BY DEF Holds
  <2>4. /\ Flushing(st2, de2, su, qu2, nx, pb, ca)
        /\ Waiting(su, qu2, nx, pb, ca) = W
        /\ D2 = D \cup {<<p, s>>}
    BY <2>1, <2>2, <2>3, SealingFlush
  <2> HIDE DEF W, D, D2
  <2>5. st2 = [st EXCEPT ![p] = "sealed"] /\ de2 = [de EXCEPT ![p] = v]
    BY <2>1 DEF Seals
  <2>6. D2 \subseteq D \cup {<<p, s>>}
    BY <2>4
  <2>7. ToldHolds(st2, de2, W, D2, in, to)
    <3>1. /\ s = "fulfilled" => IsItself(st, de, p, v)
          /\ in[p] = <<>> /\ to[p] # <<>> => AgreesOn(st, de, to, p, s, v)
      BY <1>2 DEF MaySettle
    <3> QED
      BY <1>2, <2>2, <2>3, <2>5, <2>6, <3>1, ToldSealing
  <2>8. /\ de \in [Ids -> Values \cup {Nothing}] /\ st \in [Ids -> States]
        /\ \A a \in Ids : st[a] # "pending" => de[a] \in Values
        /\ \A a \in Ids, t \in Settled : <<a, t>> \in D => st[a] # "pending"
    BY <2>3 DEF ToldHolds
  <2>9. AllHolds(cr, st2, de2, W, D2, in, rs, rm, lo)
    <3>1. /\ s = "fulfilled" /\ in[p] # <<>> => IsComplete(in, rs, p)
          /\ s = "rejected" /\ in[p] # <<>> => OneIsRejected(st, de, in, p, v)
      BY <1>2 DEF MaySettle
    <3> QED
      BY <1>2, <2>2, <2>3, <2>5, <2>6, <2>8, <3>1, AllSealing
  <2>10. \A q \in Ids \ {p} : st2[q] = st[q] /\ de2[q] = de[q]
    BY <2>5, <2>8
  <2>11. st2[p] = "sealed" /\ st[p] \notin Settled /\ st2[p] \notin Settled
    BY <1>2, <2>2, <2>5, <2>8 DEF Settled, States
  <2>12. \A q \in Ids : q > cr => q # p
    BY <2>3 DEF KindsHold
  <2>13. KindsHold(cr, op, st2, W, ca, in, to)
    BY <2>3, <2>10, <2>12 DEF KindsHold
  <2>14. SameOutcome(st, de, st2, de2)
    BY <2>10, <2>11 DEF Outcome, SameOutcome
  <2> QED
    BY <2>3, <2>4, <2>7, <2>9, <2>13, <2>14 DEF Holds, D2
<1> QED
  BY <1>1, <1>2

(* Someone subscribes for whom nothing is registered by the application.   *)
LEMMA Subscribing ==
  ASSUME NEW cr, NEW op, NEW st, NEW de, NEW su, NEW qu, NEW nx, NEW pb, NEW ca, NEW in,
         NEW rs, NEW rm, NEW lo, NEW rg, NEW ra, NEW to, NEW su2, NEW qu2,
         Holds(cr, op, st, de, su, qu, nx, pb, ca, in, rs, rm, lo, rg, ra, to),
         NEW q \in Ids, NEW e \in Subscriber, e.type # "then", e.child \in 1 .. cr,
         Subscribes(st, su, qu, q, e, su2, qu2),
         e.type = "adopt" => /\ q # e.child /\ in[e.child] = <<>>
                             /\ st[e.child] # "pending" \/ FollowsOn(st, de, to, e.child, q),
         e.type = "all" => /\ InputWaits(in, rs, q, e)
                           /\ lo # 0 /\ e.child = cr => e.index < lo
                           /\ IsApart(Waiting(su, qu, nx, pb, ca), q, e)
  PROVE  Holds(cr, op, st, de, su2, qu2, nx, pb, ca, in, rs, rm, lo, rg, ra, to)
PROOF
<1> DEFINE W == Waiting(su, qu, nx, pb, ca)
           W2 == Waiting(su2, qu2, nx, pb, ca)
           D == Decided(st, qu)
           D2 == Decided(st, qu2)
<1>1. /\ Flushing(st, de, su, qu, nx, pb, ca) /\ OrderHolds(cr, W, rg, ra)
      /\ ToldHolds(st, de, W, D, in, to) /\ AllHolds(cr, st, de, W, D, in, rs, rm, lo)
      /\ KindsHold(cr, op, st, W, ca, in, to)
  BY DEF Holds
<1>2. e.type \in {"adopt", "all"}
  BY DEF Subscriber
<1>3. IsApart(W, q, e)
  BY <1>2 DEF IsApart, Apart
<1>4. Flushing(st, de, su2, qu2, nx, pb, ca) /\ W2 = W \cup {<<q, e>>} /\ D2 = D
  BY <1>1, <1>3, SubscribingFlush
<1> HIDE DEF W, W2, D, D2
<1>5. cr \in Nat /\ W2 \subseteq W \cup {<<q, e>>} /\ W \subseteq W2 \cup {<<q, e>>} /\ D2 \subseteq D /\ cr <= cr
  BY <1>1, <1>4, BoundAssumption DEF KindsHold
<1>6. OrderHolds(cr, W2, rg, ra)
  BY <1>1, <1>5, OrderStays
<1>7. ToldHolds(st, de, W2, D2, in, to)
  BY <1>1, <1>5, ToldWaiting
<1>8. AllHolds(cr, st, de, W2, D2, in, rs, rm, lo)
  BY <1>1, <1>5, AllWaiting
<1>9. KindsHold(cr, op, st, W2, ca, in, to)
  BY <1>1, <1>2, <1>4 DEF KindsHold
<1> QED
  BY <1>4, <1>6, <1>7, <1>8, <1>9 DEF Holds, W2, D2

(* A promise is fulfilled, or follows another one.                         *)
LEMMA Resolving ==
  ASSUME NEW cr, NEW op, NEW st, NEW de, NEW su, NEW qu, NEW nx, NEW pb, NEW ca, NEW in,
         NEW rs, NEW rm, NEW lo, NEW rg, NEW ra, NEW to, NEW st2, NEW de2, NEW su2, NEW qu2,
         Holds(cr, op, st, de, su, qu, nx, pb, ca, in, rs, rm, lo, rg, ra, to),
         NEW p \in 1 .. cr, NEW v \in Values,
         ResolvesTo(st, de, su, qu, p, v, st2, de2, su2, qu2),
         MayResolve(st, de, in, rs, to, p, v)
  PROVE  /\ Holds(cr, op, st2, de2, su2, qu2, nx, pb, ca, in, rs, rm, lo, rg, ra, to)
         /\ SameOutcome(st, de, st2, de2)
PROOF
<1>1. p \in Ids
  BY BoundAssumption DEF Holds, KindsHold, Ids
<1>2. CASE v \in Ids \ {p}
  <2> DEFINE e == AdoptBy(p)
  <2>1. e \in Subscriber /\ e.type = "adopt" /\ e.child = p
    BY <1>1, BoundAssumption DEF AdoptBy, Subscriber
  <2>2. Subscribes(st, su, qu, v, e, su2, qu2) /\ st2 = st /\ de2 = de
    BY <1>2 DEF ResolvesTo
  <2> HIDE DEF e
  <2>4. in[p] = <<>> /\ (st[p] # "pending" \/ FollowsOn(st, de, to, p, v))
    BY <1>2 DEF MayResolve
  <2>3. Holds(cr, op, st, de, su2, qu2, nx, pb, ca, in, rs, rm, lo, rg, ra, to)
    BY <1>2, <2>1, <2>2, <2>4, Subscribing
  <2> QED
    BY <2>2, <2>3 DEF SameOutcome
<1>3. CASE v \notin Ids \ {p}
  <2>1. SettlesTo(st, de, qu, p, "fulfilled", v, st2, de2, qu2) /\ su2 = su
    BY <1>3 DEF ResolvesTo
  <2>2. MaySettle(st, de, in, rs, to, p, "fulfilled", v) /\ "fulfilled" \in Settled
    BY <1>3 DEF MayResolve, MaySettle, IsItself, Settled
  <2>3. /\ Holds(cr, op, st2, de2, su, qu2, nx, pb, ca, in, rs, rm, lo, rg, ra, to)
        /\ SameOutcome(st, de, st2, de2)
    BY <1>3, <2>1, <2>2, Settling
  <2> QED
    BY <2>1, <2>3
<1> QED
  BY <1>2, <1>3

(* A pending promise is told something.                                    *)
LEMMA Telling ==
  ASSUME NEW cr, NEW op, NEW st, NEW de, NEW su, NEW qu, NEW nx, NEW pb, NEW ca, NEW in,
         NEW rs, NEW rm, NEW lo, NEW rg, NEW ra, NEW to, NEW to2,
         Holds(cr, op, st, de, su, qu, nx, pb, ca, in, rs, rm, lo, rg, ra, to),
         NEW p \in 1 .. cr, NEW t \in Told, t.as = "follow" => t.value \in Ids,
         st[p] = "pending", Adds(to, p, t, to2)
  PROVE  /\ Holds(cr, op, st, de, su, qu, nx, pb, ca, in, rs, rm, lo, rg, ra, to2)
         /\ t.as = "follow" => FollowsOn(st, de, to2, p, t.value)
         /\ t.as # "follow" => AgreesOn(st, de, to2, p, t.as, t.value)
         /\ t.as = "follow" => \A s \in Settled : s = st[t.value] => AgreesOn(st, de, to2, p, s, de[t.value])
PROOF
<1> DEFINE W == Waiting(su, qu, nx, pb, ca)
           D == Decided(st, qu)
           n == Len(to[p]) + 1
<1>1. /\ Flushing(st, de, su, qu, nx, pb, ca) /\ OrderHolds(cr, W, rg, ra)
      /\ ToldHolds(st, de, W, D, in, to) /\ AllHolds(cr, st, de, W, D, in, rs, rm, lo)
      /\ KindsHold(cr, op, st, W, ca, in, to)
  BY DEF Holds
<1>2. p \in Ids /\ \A q \in Ids : q > cr => q # p
  BY <1>1, BoundAssumption DEF KindsHold, Ids
<1>3. to \in [Ids -> Seq(Told)]
  BY <1>1 DEF ToldHolds
<1>4. /\ to2 \in [Ids -> Seq(Told)] /\ Grows(to, to2)
      /\ Len(to[p]) \in Nat /\ Len(to2[p]) = Len(to[p]) + 1 /\ to2[p][Len(to[p]) + 1] = t
      /\ OnlyAt(to, p, to2)
  BY <1>2, <1>3, AddingGrows
<1> HIDE DEF W, D
<1>5. ToldHolds(st, de, W, D, in, to2)
  BY <1>1, <1>2, <1>4, ToldTelling
<1>6. KindsHold(cr, op, st, W, ca, in, to2)
  BY <1>1, <1>2, <1>4 DEF KindsHold, OnlyAt
<1>7. n \in 1 .. Len(to2[p]) /\ to2[p][n] = t
  BY <1>4
<1> HIDE DEF n
<1>8. t.as = "follow" => FollowsOn(st, de, to2, p, t.value)
  BY <1>7 DEF FollowsOn
<1>9. t.as # "follow" => AgreesOn(st, de, to2, p, t.as, t.value)
  BY <1>7 DEF AgreesOn
<1>10. t.as = "follow" => \A s \in Settled : s = st[t.value] => AgreesOn(st, de, to2, p, s, de[t.value])
  BY <1>7 DEF AgreesOn
<1> QED
  BY <1>1, <1>5, <1>6, <1>8, <1>9, <1>10 DEF Holds, W, D

-----------------------------------------------------------------------------
(* What is known of e when it is called.                                   *)
IsDue(cr, st, de, su, qu, nx, pb, ca, e, ca2, in, rs, lo, rg, ra) ==
  /\ e.type = "then" => IsNext(rg, ra, qu[nx].promise, e.child)
  /\ qu[nx].promise \in Ids /\ qu[nx].as \in Settled /\ st[qu[nx].promise] = qu[nx].as
  /\ de[qu[nx].promise] \in Values
  /\ e.child \in 1 .. cr /\ e.child \in Ids
  /\ <<qu[nx].promise, qu[nx].as>> \in Decided(st, qu)
  /\ <<qu[nx].promise, e>> \in Waiting(su, qu, nx, pb, ca)
  /\ \A f \in Subscriber : <<qu[nx].promise, f>> \in Waiting(su, qu, nx, pb, ca2) => Apart(e, f)
  /\ e.type # "all" => in[e.child] = <<>>
  /\ e.type = "adopt" => qu[nx].promise # e.child
  /\ e.type = "all" => InputWaits(in, rs, qu[nx].promise, e) /\ (lo # 0 /\ e.child = cr => e.index < lo)

(* The flush calls e.                                                      *)
LEMMA Beginning ==
  ASSUME NEW cr, NEW op, NEW st, NEW de, NEW su, NEW qu, NEW nx, NEW pb, NEW ca, NEW in,
         NEW rs, NEW rm, NEW lo, NEW rg, NEW ra, NEW to, NEW ca2, NEW ra2, NEW e \in Subscriber,
         Holds(cr, op, st, de, su, qu, nx, pb, ca, in, rs, rm, lo, rg, ra, to),
         Begins(su, qu, nx, pb, ca, e, ca2),
         Runs(ra, qu[nx].promise, e, ra2)
  PROVE  /\ Holds(cr, op, st, de, su, qu, nx, pb, ca2, in, rs, rm, lo, rg, ra2, to)
         /\ IsDue(cr, st, de, su, qu, nx, pb, ca, e, ca2, in, rs, lo, rg, ra)
PROOF
<1> DEFINE W == Waiting(su, qu, nx, pb, ca)
           W2 == Waiting(su, qu, nx, pb, ca2)
           D == Decided(st, qu)
           q == qu[nx].promise
<1>1. /\ Flushing(st, de, su, qu, nx, pb, ca) /\ OrderHolds(cr, W, rg, ra)
      /\ ToldHolds(st, de, W, D, in, to) /\ AllHolds(cr, st, de, W, D, in, rs, rm, lo)
      /\ KindsHold(cr, op, st, W, ca, in, to)
  BY DEF Holds
<1>2. /\ Flushing(st, de, su, qu, nx, pb, ca2)
      /\ W2 \subseteq W /\ W \subseteq W2 \cup {<<q, e>>} /\ <<q, e>> \in W
      /\ \A f \in Subscriber : <<q, f>> \in W2 => Apart(e, f)
      /\ <<q, qu[nx].as>> \in D
      /\ st[q] = qu[nx].as /\ q \in Ids /\ qu[nx].as \in Settled
  BY <1>1, BeginningFlush
<1>a. Leaves(W, q, e, W2)
  BY <1>2 DEF Leaves
<1>3. ca2 = {e}
  BY DEF Begins
<1> HIDE DEF W, W2, D
<1>4. cr \in Nat /\ cr <= cr /\ W2 \subseteq W \cup {<<q, e>>} /\ D \subseteq D /\ cr <= MaxPromises
  BY <1>1, <1>2, BoundAssumption DEF KindsHold
<1>5. /\ e.child \in 1 .. cr
      /\ e.type # "all" => in[e.child] = <<>>
      /\ e.type = "adopt" => q # e.child
  BY <1>1, <1>2 DEF KindsHold
<1>6. e.type = "adopt" => st[e.child] # "pending" \/ FollowsOn(st, de, to, e.child, q)
  BY <1>1, <1>2 DEF ToldHolds
<1>7. e.type = "all" => InputWaits(in, rs, q, e) /\ (lo # 0 /\ e.child = cr => e.index < lo)
  BY <1>1, <1>2 DEF AllHolds
<1>8. ToldHolds(st, de, W2, D, in, to)
  <2> HIDE DEF q
  <2> QED
    BY <1>1, <1>2, <1>4, <1>6, ToldWaiting
<1>9. AllHolds(cr, st, de, W2, D, in, rs, rm, lo)
  <2> HIDE DEF q
  <2> QED
    BY <1>1, <1>2, <1>4, <1>7, AllWaiting
<1>10. KindsHold(cr, op, st, W2, ca2, in, to)
  BY <1>1, <1>2, <1>3, <1>5 DEF KindsHold
<1>13. de[q] \in Values /\ e.child \in Ids
  BY <1>1, <1>2 DEF ToldHolds, Settled, Subscriber
<1>11. CASE e.type = "then"
  <2>1. Runs(ra, q, e, ra2)
    OBVIOUS
  <2> HIDE DEF q
  <2>2. /\ OrderHolds(cr, W2, rg, ra2)
        /\ IsNext(rg, ra, q, e.child)
    BY <1>1, <1>2, <1>4, <1>11, <1>a, <2>1, OrderRunning
  <2>3. Holds(cr, op, st, de, su, qu, nx, pb, ca2, in, rs, rm, lo, rg, ra2, to)
    BY <1>1, <1>2, <1>8, <1>9, <1>10, <2>2 DEF Holds, W2, D
  <2> QED
    BY <1>2, <1>5, <1>11, <1>13, <2>2, <2>3 DEF IsDue, W, W2, D, q
<1>12. CASE e.type # "then"
  <2>1. OrderHolds(cr, W2, rg, ra)
    <3> HIDE DEF q
    <3> QED
      BY <1>1, <1>2, <1>4, <1>12, OrderStays
  <2>2. ra2 = ra
    BY <1>12 DEF Runs
  <2>3. Holds(cr, op, st, de, su, qu, nx, pb, ca2, in, rs, rm, lo, rg, ra2, to)
    BY <1>1, <1>2, <1>8, <1>9, <1>10, <2>1, <2>2 DEF Holds, W2, D
  <2> QED
    BY <1>2, <1>5, <1>7, <1>12, <1>13, <2>3 DEF IsDue, W, W2, D, q
<1> QED
  BY <1>11, <1>12

(* It has been called.                                                     *)
LEMMA Returning ==
  ASSUME NEW cr, NEW op, NEW st, NEW de, NEW su, NEW qu, NEW nx, NEW pb, NEW ca, NEW in,
         NEW rs, NEW rm, NEW lo, NEW rg, NEW ra, NEW to, NEW nx2, NEW pb2, NEW ca2,
         Holds(cr, op, st, de, su, qu, nx, pb, ca, in, rs, rm, lo, rg, ra, to),
         Returns(qu, nx, pb, ca, nx2, pb2, ca2)
  PROVE  Holds(cr, op, st, de, su, qu, nx2, pb2, ca2, in, rs, rm, lo, rg, ra, to)
PROOF
<1>1. Flushing(st, de, su, qu, nx2, pb2, ca2) /\ Waiting(su, qu, nx2, pb2, ca2) = Waiting(su, qu, nx, pb, ca)
  BY ReturningFlush DEF Holds
<1>2. ca2 = {}
  BY DEF Returns
<1>3. KindsHold(cr, op, st, Waiting(su, qu, nx, pb, ca), ca2, in, to)
  BY <1>2 DEF Holds, KindsHold
<1> QED
  BY <1>1, <1>3 DEF Holds

IsSealed(st, p) == st[p] = "sealed"

(* The flush comes to a promise that is to be published.                   *)
LEMMA Publishing ==
  ASSUME NEW cr, NEW op, NEW st, NEW de, NEW su, NEW qu, NEW nx, NEW ca, NEW in,
         NEW rs, NEW rm, NEW lo, NEW rg, NEW ra, NEW to, NEW st2,
         Holds(cr, op, st, de, su, qu, nx, 0, ca, in, rs, rm, lo, rg, ra, to),
         nx \in 1 .. Len(qu), qu[nx].does = "publish",
         Publishes(st, qu[nx].promise, qu[nx].as, st2)
  PROVE  /\ Holds(cr, op, st2, de, su, qu, nx, 1, ca, in, rs, rm, lo, rg, ra, to)
         /\ qu[nx].promise \in Ids /\ qu[nx].as \in Settled /\ de[qu[nx].promise] \in Values
         /\ IsSealed(st, qu[nx].promise)
PROOF
<1> DEFINE W == Waiting(su, qu, nx, 0, ca)
           D == Decided(st, qu)
           p == qu[nx].promise
           s == qu[nx].as
<1>1. /\ Flushing(st, de, su, qu, nx, 0, ca) /\ OrderHolds(cr, W, rg, ra)
      /\ ToldHolds(st, de, W, D, in, to) /\ AllHolds(cr, st, de, W, D, in, rs, rm, lo)
      /\ KindsHold(cr, op, st, W, ca, in, to)
  BY DEF Holds
<1>2. ca = {}
  BY <1>1 DEF Flushing, CallingHolds, IsInvoked
<1>3. /\ Flushing(st2, de, su, qu, nx, 1, {})
      /\ Waiting(su, qu, nx, 1, {}) = Waiting(su, qu, nx, 0, {})
      /\ Decided(st2, qu) = D
      /\ st[p] = "sealed"
      /\ <<p, s>> \in D
  BY <1>1, <1>2, PublishingFlush
<1>4. p \in Ids /\ s \in Settled
  BY <1>3 DEF Decided
<1> HIDE DEF W, D
<1>5. Publishes(st, p, s, st2)
  OBVIOUS
<1> HIDE DEF p, s
<1>6. ToldHolds(st2, de, W, D, in, to)
  BY <1>1, <1>3, <1>4, <1>5, ToldPublishing
<1>7. /\ \A a \in Ids : st[a] # "pending" => de[a] \in Values
      /\ \A a \in Ids, t \in Settled : <<a, t>> \in D => st[a] # "pending"
      /\ st \in [Ids -> States]
  BY <1>1 DEF ToldHolds
<1>8. AllHolds(cr, st2, de, W, D, in, rs, rm, lo)
  BY <1>1, <1>3, <1>4, <1>5, <1>7, AllPublishing
<1>9. \A q \in Ids : q # p => st2[q] = st[q]
  BY <1>5, <1>7 DEF Publishes
<1>10. KindsHold(cr, op, st2, W, ca, in, to)
  <2>1. \A q \in Ids : q > cr => q # p
    BY <1>1, <1>3 DEF KindsHold
  <2> QED
    BY <1>1, <1>9, <2>1 DEF KindsHold
<1>11. de[p] \in Values
  BY <1>3, <1>4, <1>7
<1>12. Waiting(su, qu, nx, 1, ca) = W /\ Flushing(st2, de, su, qu, nx, 1, ca) /\ Decided(st2, qu) = D
  BY <1>2, <1>3 DEF W
<1>13. Holds(cr, op, st2, de, su, qu, nx, 1, ca, in, rs, rm, lo, rg, ra, to)
  BY <1>1, <1>6, <1>8, <1>10, <1>12 DEF Holds
<1> QED
  BY <1>3, <1>4, <1>11, <1>13 DEF p, s, IsSealed

(* All subscribers of a promise have been called.                          *)
LEMMA Published ==
  ASSUME NEW cr, NEW op, NEW st, NEW de, NEW su, NEW qu, NEW nx, NEW pb, NEW ca, NEW in,
         NEW rs, NEW rm, NEW lo, NEW rg, NEW ra, NEW to, NEW su2, NEW nx2,
         Holds(cr, op, st, de, su, qu, nx, pb, ca, in, rs, rm, lo, rg, ra, to),
         EndsPublishing(su, qu, nx, pb, su2, nx2)
  PROVE  Holds(cr, op, st, de, su2, qu, nx2, 0, ca, in, rs, rm, lo, rg, ra, to)
PROOF
<1>1. /\ Flushing(st, de, su2, qu, nx2, 0, ca)
      /\ Waiting(su2, qu, nx2, 0, ca) = Waiting(su, qu, nx, pb, ca)
  <2>1. Flushing(st, de, su, qu, nx, pb, ca)
    BY DEF Holds
  <2> QED
    BY <2>1, PublishedFlush
<1> QED
  BY <1>1 DEF Holds

LEMMA Starting ==
  ASSUME NEW cr, NEW op, NEW st, NEW de, NEW su, NEW qu, NEW pb, NEW ca, NEW in,
         NEW rs, NEW rm, NEW lo, NEW rg, NEW ra, NEW to,
         Holds(cr, op, st, de, su, qu, 0, pb, ca, in, rs, rm, lo, rg, ra, to)
  PROVE  Holds(cr, op, st, de, su, qu, 1, pb, ca, in, rs, rm, lo, rg, ra, to)
BY StartingFlush DEF Holds

LEMMA Ending ==
  ASSUME NEW cr, NEW op, NEW st, NEW de, NEW su, NEW qu, NEW nx, NEW pb, NEW ca, NEW in,
         NEW rs, NEW rm, NEW lo, NEW rg, NEW ra, NEW to,
         Holds(cr, op, st, de, su, qu, nx, pb, ca, in, rs, rm, lo, rg, ra, to), nx = Len(qu) + 1
  PROVE  Holds(cr, op, st, de, su, <<>>, 0, pb, ca, in, rs, rm, lo, rg, ra, to)
PROOF
<1> DEFINE W == Waiting(su, qu, nx, pb, ca)
           D == Decided(st, qu)
           D2 == Decided(st, <<>>)
<1>1. /\ Flushing(st, de, su, qu, nx, pb, ca) /\ OrderHolds(cr, W, rg, ra)
      /\ ToldHolds(st, de, W, D, in, to) /\ AllHolds(cr, st, de, W, D, in, rs, rm, lo)
      /\ KindsHold(cr, op, st, W, ca, in, to)
  BY DEF Holds
<1>2. Flushing(st, de, su, <<>>, 0, pb, ca) /\ Waiting(su, <<>>, 0, pb, ca) = W /\ D2 \subseteq D
  BY <1>1, EndingFlush
<1> HIDE DEF W, D, D2
<1>3. ToldHolds(st, de, W, D2, in, to)
  BY <1>1, <1>2 DEF ToldHolds
<1>4. AllHolds(cr, st, de, W, D2, in, rs, rm, lo)
  BY <1>1, <1>2 DEF AllHolds
<1> QED
  BY <1>1, <1>2, <1>3, <1>4 DEF Holds, D2

(* A new promise.                                                          *)
LEMMA Creating ==
  ASSUME NEW cr, NEW op, NEW st, NEW de, NEW su, NEW qu, NEW nx, NEW pb, NEW ca, NEW in,
         NEW rs, NEW rm, NEW rg, NEW ra, NEW to, NEW m, NEW op2,
         Holds(cr, op, st, de, su, qu, nx, pb, ca, in, rs, rm, 0, rg, ra, to),
         m = cr + 1, m <= MaxPromises, op2 \subseteq op \cup {m}
  PROVE  /\ Holds(m, op2, st, de, su, qu, nx, pb, ca, in, rs, rm, 0, rg, ra, to)
         /\ cr \in Nat /\ m \in Ids
PROOF
<1> DEFINE W == Waiting(su, qu, nx, pb, ca)
           D == Decided(st, qu)
<1>1. /\ Flushing(st, de, su, qu, nx, pb, ca) /\ OrderHolds(cr, W, rg, ra)
      /\ ToldHolds(st, de, W, D, in, to) /\ AllHolds(cr, st, de, W, D, in, rs, rm, 0)
      /\ KindsHold(cr, op, st, W, ca, in, to)
  BY DEF Holds
<1>2. cr \in Nat /\ m \in Nat /\ m \in Ids /\ cr <= m /\ m \in 0 .. MaxPromises
  BY <1>1, BoundAssumption DEF KindsHold, Ids
<1> HIDE DEF W, D
<1>3. OrderHolds(m, W, rg, ra)
  <2>1. \A p \in Ids : \A i \in 1 .. Len(rg[p]) : rg[p][i] \in 1 .. m
    BY <1>1, <1>2 DEF OrderHolds
  <2> QED
    BY <1>1, <2>1 DEF OrderHolds
<1>4. AllHolds(m, st, de, W, D, in, rs, rm, 0)
  BY <1>1, <1>2, AllCreating
<1>5. KindsHold(m, op2, st, W, ca, in, to)
  <2>1. in[m] = <<>> /\ \A q \in Ids : q > m => q > cr
    BY <1>1, <1>2 DEF KindsHold, Ids
  <2>2. \A x \in 1 .. cr : x \in 1 .. m
    BY <1>2
  <2>3. op2 \subseteq 1 .. m /\ \A p \in op2 : in[p] = <<>>
    BY <1>1, <1>2, <2>1, <2>2 DEF KindsHold, Ids
  <2>4. \A p \in Ids, e \in Subscriber : <<p, e>> \in W =>
       /\ e.child \in 1 .. m
       /\ e.type # "all" => in[e.child] = <<>>
       /\ e.type = "adopt" => p # e.child
    BY <1>1, <2>2 DEF KindsHold
  <2>5. \A e \in ca : e.child \in 1 .. m /\ (e.type # "all" => in[e.child] = <<>>)
    BY <1>1, <2>2 DEF KindsHold
  <2> QED
    BY <1>1, <1>2, <2>1, <2>3, <2>4, <2>5 DEF KindsHold
<1> QED
  BY <1>1, <1>2, <1>3, <1>4, <1>5 DEF Holds, W, D

(* then: a new promise, and one more who waits.                            *)
LEMMA Registering ==
  ASSUME NEW cr, NEW op, NEW st, NEW de, NEW su, NEW qu, NEW nx, NEW pb, NEW ca, NEW in,
         NEW rs, NEW rm, NEW rg, NEW ra, NEW to, NEW m, NEW su2, NEW qu2, NEW rg2,
         NEW p \in Ids, NEW e \in Subscriber,
         Holds(cr, op, st, de, su, qu, nx, pb, ca, in, rs, rm, 0, rg, ra, to),
         m = cr + 1, m <= MaxPromises, e.type = "then", e.child = m,
         Subscribes(st, su, qu, p, e, su2, qu2), Registers(rg, p, m, rg2)
  PROVE  Holds(m, op, st, de, su2, qu2, nx, pb, ca, in, rs, rm, 0, rg2, ra, to)
PROOF
<1> DEFINE W == Waiting(su, qu, nx, pb, ca)
           W2 == Waiting(su2, qu2, nx, pb, ca)
           D == Decided(st, qu)
           D2 == Decided(st, qu2)
<1>1. /\ Flushing(st, de, su, qu, nx, pb, ca) /\ OrderHolds(cr, W, rg, ra)
      /\ KindsHold(cr, op, st, W, ca, in, to)
  BY DEF Holds
<1>2. Holds(m, op, st, de, su, qu, nx, pb, ca, in, rs, rm, 0, rg, ra, to) /\ cr \in Nat /\ m \in Ids
  BY Creating
<1>3. /\ ToldHolds(st, de, W, D, in, to) /\ AllHolds(m, st, de, W, D, in, rs, rm, 0)
      /\ KindsHold(m, op, st, W, ca, in, to)
  BY <1>2 DEF Holds
<1>4. IsApart(W, p, e)
  BY <1>1, <1>2 DEF IsApart, Apart, KindsHold
<1>5. Flushing(st, de, su2, qu2, nx, pb, ca) /\ W2 = W \cup {<<p, e>>} /\ D2 = D
  BY <1>1, <1>4, SubscribingFlush
<1>6. in[m] = <<>>
  BY <1>1, <1>2 DEF KindsHold
<1> HIDE DEF W, W2, D, D2
<1>7. OrderHolds(m, W2, rg2, ra)
  BY <1>1, <1>2, <1>5, OrderRegistering
<1>8. W2 \subseteq W \cup {<<p, e>>} /\ D2 \subseteq D
  BY <1>5
<1>9. ToldHolds(st, de, W2, D2, in, to)
  BY <1>3, <1>8, ToldWaiting
<1>10. AllHolds(m, st, de, W2, D2, in, rs, rm, 0)
  BY <1>3, <1>8, AllWaiting
<1>11. m \in 1 .. m
  BY <1>2
<1>12. KindsHold(m, op, st, W2, ca, in, to)
  BY <1>3, <1>5, <1>6, <1>11 DEF KindsHold
<1> QED
  BY <1>5, <1>7, <1>9, <1>10, <1>12 DEF Holds, W2, D2

(* all: a new promise that waits for qs.                                   *)
LEMMA StartingAll ==
  ASSUME NEW cr, NEW op, NEW st, NEW de, NEW su, NEW qu, NEW nx, NEW pb, NEW ca, NEW in,
         NEW rs, NEW rm, NEW rg, NEW ra, NEW to, NEW m, NEW in2, NEW rm2, NEW lo2,
         NEW k \in 0 .. MaxInputs, NEW qs \in [1 .. k -> Values],
         Holds(cr, op, st, de, su, qu, nx, pb, ca, in, rs, rm, 0, rg, ra, to),
         m = cr + 1, m <= MaxPromises, StartsAll(in, rm, m, qs, in2, rm2, lo2)
  PROVE  /\ Holds(m, op, st, de, su, qu, nx, pb, ca, in2, rs, rm2, lo2, rg, ra, to)
         /\ lo2 \in 0 .. MaxInputs /\ to[m] = <<>> /\ in2[m] = qs
PROOF
<1> DEFINE W == Waiting(su, qu, nx, pb, ca)
           D == Decided(st, qu)
<1>1. /\ ToldHolds(st, de, W, D, in, to) /\ AllHolds(cr, st, de, W, D, in, rs, rm, 0)
      /\ KindsHold(cr, op, st, W, ca, in, to)
  BY DEF Holds
<1>2. Holds(m, op, st, de, su, qu, nx, pb, ca, in, rs, rm, 0, rg, ra, to) /\ cr \in Nat /\ m \in Ids
  BY Creating
<1>3. /\ Flushing(st, de, su, qu, nx, pb, ca) /\ OrderHolds(m, W, rg, ra)
      /\ KindsHold(m, op, st, W, ca, in, to)
  BY <1>2 DEF Holds
<1> HIDE DEF W, D
<1>4. st[m] = "pending" /\ to[m] = <<>> /\ in[m] = <<>> /\ m > cr
  BY <1>1, <1>2 DEF KindsHold
<1>5. \A s \in Settled : <<m, s>> \notin D
  BY <1>1, <1>2, <1>4 DEF ToldHolds
<1>6. AllHolds(m, st, de, W, D, in2, rs, rm2, lo2) /\ lo2 \in 0 .. MaxInputs
  BY <1>1, <1>2, <1>5, AllStarting
<1>7. in2[m] = qs /\ \A q \in Ids : q # m => in2[q] = in[q]
  BY <1>1, <1>2 DEF StartsAll, AllHolds
<1>8. ToldHolds(st, de, W, D, in2, to)
  <2>1. \A q \in Ids, s \in Settled : <<q, s>> \in D => q # m
    BY <1>5
  <2> QED
    BY <1>1, <1>7, <2>1 DEF ToldHolds
<1>9. KindsHold(m, op, st, W, ca, in2, to)
  <2>1. \A x \in 1 .. cr : x \in Ids /\ x # m
    BY <1>1, <1>2, BoundAssumption DEF KindsHold, Ids
  <2>2. \A p \in op : in2[p] = <<>>
    BY <1>1, <1>7, <2>1 DEF KindsHold
  <2>3. \A p \in Ids : p > m => p # m
    BY <1>2
  <2>4. \A p \in Ids, e \in Subscriber : <<p, e>> \in W /\ e.type # "all" => in2[e.child] = <<>>
    BY <1>1, <1>7, <2>1 DEF KindsHold
  <2>5. \A e \in ca : e.type # "all" => in2[e.child] = <<>>
    BY <1>1, <1>7, <2>1 DEF KindsHold
  <2> QED
    BY <1>3, <1>7, <2>2, <2>3, <2>4, <2>5 DEF KindsHold
<1> QED
  BY <1>3, <1>4, <1>6, <1>7, <1>8, <1>9 DEF Holds, W, D

(* The loop of all goes on to the next input.                              *)
LEMMA Looping ==
  ASSUME NEW cr, NEW op, NEW st, NEW de, NEW su, NEW qu, NEW nx, NEW pb, NEW ca, NEW in,
         NEW rs, NEW rm, NEW lo, NEW rg, NEW ra, NEW to, NEW lo2,
         Holds(cr, op, st, de, su, qu, nx, pb, ca, in, rs, rm, lo, rg, ra, to), lo # 0,
         lo2 = IF lo = Len(in[cr]) THEN 0 ELSE lo + 1
  PROVE  /\ Holds(cr, op, st, de, su, qu, nx, pb, ca, in, rs, rm, lo2, rg, ra, to)
         /\ lo2 \in 0 .. MaxInputs
         /\ lo2 # 0 => lo < lo2
         /\ cr \in Ids /\ cr \in 1 .. cr /\ lo \in 1 .. Len(in[cr]) /\ lo \in 0 .. MaxInputs
         /\ in[cr] \in Seq(Values) /\ in[cr] # <<>> /\ in[cr][lo] \in Values
         /\ rs[cr][lo] = Nothing
         /\ IsAlone(Waiting(su, qu, nx, pb, ca), cr, lo)
PROOF
<1> DEFINE W == Waiting(su, qu, nx, pb, ca)
           D == Decided(st, qu)
<1>1. AllHolds(cr, st, de, W, D, in, rs, rm, lo)
  BY DEF Holds
<1> HIDE DEF W, D
<1>2. /\ AllHolds(cr, st, de, W, D, in, rs, rm, lo2) /\ (lo2 # 0 => lo < lo2) /\ lo2 \in 0 .. MaxInputs
  BY <1>1, AllLooping
<1>3. /\ cr \in Ids /\ lo \in 1 .. Len(in[cr]) /\ in[cr] \in Seq(Values) /\ Len(in[cr]) <= MaxInputs
      /\ \A i \in lo .. Len(in[cr]) : rs[cr][i] = Nothing
  BY <1>1 DEF AllHolds
<1>4. Len(in[cr]) \in Nat /\ in[cr][lo] \in Values /\ lo \in Nat
  BY <1>3, LenProperties, ElementOfSeq
<1>5. lo \in lo .. Len(in[cr]) /\ lo \in 0 .. MaxInputs
  BY <1>3, <1>4, BoundAssumption
<1>6. IsAlone(W, cr, lo)
  <2>1. \A p \in Ids, e \in Subscriber : <<p, e>> \in W /\ e.type = "all" /\ e.child = cr => e.index < lo
    BY <1>1 DEF AllHolds
  <2>2. \A e \in Subscriber : e.index \in Nat
    BY BoundAssumption DEF Subscriber
  <2> QED
    BY <1>4, <2>1, <2>2 DEF IsAlone
<1>7. cr \in 1 .. cr /\ in[cr] # <<>>
  BY <1>3, <1>4 DEF Ids
<1> QED
  BY <1>2, <1>3, <1>4, <1>5, <1>6, <1>7 DEF Holds, W, D

(* The resolver of all for an index.                                       *)
LEMMA Recording ==
  ASSUME NEW cr, NEW op, NEW st, NEW de, NEW su, NEW qu, NEW nx, NEW pb, NEW ca, NEW in,
         NEW rs, NEW rm, NEW lo, NEW rg, NEW ra, NEW to, NEW rs2, NEW rm2,
         NEW a \in Ids, NEW i \in 1 .. Len(in[a]), NEW v \in Values,
         Holds(cr, op, st, de, su, qu, nx, pb, ca, in, rs, rm, lo, rg, ra, to),
         rs[a][i] = Nothing,
         IsValueOf(st, de, in[a][i], v), IsAlone(Waiting(su, qu, nx, pb, ca), a, i),
         lo # 0 /\ a = cr => i < lo,
         Records(rs, rm, a, i, v, rs2, rm2)
  PROVE  /\ Holds(cr, op, st, de, su, qu, nx, pb, ca, in, rs2, rm2, lo, rg, ra, to)
         /\ Completes(in, rm, rs2, a)
PROOF
<1> DEFINE W == Waiting(su, qu, nx, pb, ca)
           D == Decided(st, qu)
<1>1. AllHolds(cr, st, de, W, D, in, rs, rm, lo)
  BY DEF Holds
<1>2. IsAlone(W, a, i)
  OBVIOUS
<1> HIDE DEF W, D
<1>3. /\ AllHolds(cr, st, de, W, D, in, rs2, rm2, lo)
      /\ Completes(in, rm, rs2, a)
  BY <1>1, <1>2, AllResolving
<1> QED
  BY <1>3 DEF Holds, W, D

-----------------------------------------------------------------------------
(* What is done with a promise is done after it is noted what the promise  *)
(* has been told.                                                          *)

TellsTo(st, to, p, t, to2) == IF st[p] = "pending" THEN Adds(to, p, t, to2) ELSE to2 = to

LEMMA ToldAndSettled ==
  ASSUME NEW cr, NEW op, NEW st, NEW de, NEW su, NEW qu, NEW nx, NEW pb, NEW ca, NEW in,
         NEW rs, NEW rm, NEW lo, NEW rg, NEW ra, NEW to, NEW st2, NEW de2, NEW qu2, NEW to2, NEW t \in Told,
         NEW p \in 1 .. cr, NEW s \in Settled, NEW v \in Values,
         Holds(cr, op, st, de, su, qu, nx, pb, ca, in, rs, rm, lo, rg, ra, to), in[p] = <<>>,
         t.as = s, t.value = v, s = "fulfilled" => v \notin Ids \ {p},
         TellsTo(st, to, p, t, to2), SettlesTo(st, de, qu, p, s, v, st2, de2, qu2)
  PROVE  /\ Holds(cr, op, st2, de2, su, qu2, nx, pb, ca, in, rs, rm, lo, rg, ra, to2)
         /\ SameOutcome(st, de, st2, de2)
PROOF
<1>1. s = "fulfilled" => IsItself(st, de, p, v)
  BY DEF IsItself
<1>2. s # "follow"
  BY DEF Settled
<1>3. CASE st[p] = "pending"
  <2>1. Adds(to, p, t, to2)
    BY <1>3 DEF TellsTo
  <2>2. /\ Holds(cr, op, st, de, su, qu, nx, pb, ca, in, rs, rm, lo, rg, ra, to2)
        /\ AgreesOn(st, de, to2, p, s, v)
    BY <1>2, <1>3, <2>1, Telling
  <2>3. MaySettle(st, de, in, rs, to2, p, s, v)
    BY <1>1, <2>2 DEF MaySettle
  <2> QED
    BY <2>2, <2>3, Settling
<1>4. CASE st[p] # "pending"
  <2>1. to2 = to /\ st2 = st /\ de2 = de /\ qu2 = qu
    BY <1>4 DEF TellsTo, SettlesTo
  <2> QED
    BY <2>1 DEF SameOutcome
<1> QED
  BY <1>3, <1>4

LEMMA ToldAndResolved ==
  ASSUME NEW cr, NEW op, NEW st, NEW de, NEW su, NEW qu, NEW nx, NEW pb, NEW ca, NEW in,
         NEW rs, NEW rm, NEW lo, NEW rg, NEW ra, NEW to, NEW st2, NEW de2, NEW su2, NEW qu2, NEW to2, NEW t \in Told,
         NEW p \in 1 .. cr, NEW v \in Values,
         Holds(cr, op, st, de, su, qu, nx, pb, ca, in, rs, rm, lo, rg, ra, to), in[p] = <<>>,
         t.as = IF v \in Ids \ {p} THEN "follow" ELSE "fulfilled", t.value = v,
         TellsTo(st, to, p, t, to2), ResolvesTo(st, de, su, qu, p, v, st2, de2, su2, qu2)
  PROVE  /\ Holds(cr, op, st2, de2, su2, qu2, nx, pb, ca, in, rs, rm, lo, rg, ra, to2)
         /\ SameOutcome(st, de, st2, de2)
PROOF
<1>1. CASE st[p] = "pending"
  <2>1. Adds(to, p, t, to2)
    BY <1>1 DEF TellsTo
  <2>2. t.as = "follow" => t.value \in Ids
    OBVIOUS
  <2>3. /\ Holds(cr, op, st, de, su, qu, nx, pb, ca, in, rs, rm, lo, rg, ra, to2)
        /\ t.as = "follow" => FollowsOn(st, de, to2, p, t.value)
        /\ t.as # "follow" => AgreesOn(st, de, to2, p, t.as, t.value)
    BY <1>1, <2>1, <2>2, Telling
  <2>4. v \in Ids \ {p} => FollowsOn(st, de, to2, p, v)
    BY <2>3
  <2>5. v \notin Ids \ {p} => AgreesOn(st, de, to2, p, "fulfilled", v)
    BY <2>3
  <2>6. MayResolve(st, de, in, rs, to2, p, v)
    BY <2>4, <2>5 DEF MayResolve
  <2> QED
    BY <2>3, <2>6, Resolving
<1>2. CASE st[p] # "pending"
  <2>1. to2 = to
    BY <1>2 DEF TellsTo
  <2>2. MayResolve(st, de, in, rs, to, p, v)
    BY <1>2 DEF MayResolve
  <2> QED
    BY <2>1, <2>2, Resolving
<1> QED
  BY <1>1, <1>2

-----------------------------------------------------------------------------
(* The flush moves on when what it has called has returned.                *)

Prolongs(qu, qu2) == \A j \in 1 .. Len(qu) : qu2[j] = qu[j]
Moves(qu, nx, pb, nx2, pb2) ==
  IF qu[nx].does = "publish" THEN pb2 = pb + 1 /\ nx2 = nx ELSE nx2 = nx + 1 /\ pb2 = pb

(* What is done with a promise adds to the end of the queue.               *)
LEMMA Prolonging ==
  ASSUME NEW cr, NEW op, NEW st, NEW de, NEW su, NEW qu, NEW nx, NEW pb, NEW ca, NEW in,
         NEW rs, NEW rm, NEW lo, NEW rg, NEW ra, NEW to, NEW st2, NEW de2, NEW su2, NEW qu2,
         Holds(cr, op, st, de, su, qu, nx, pb, ca, in, rs, rm, lo, rg, ra, to)
  PROVE  /\ \A p \in Ids : \A s, v : SettlesTo(st, de, qu, p, s, v, st2, de2, qu2) => Prolongs(qu, qu2)
         /\ \A p \in Ids : \A v : ResolvesTo(st, de, su, qu, p, v, st2, de2, su2, qu2) => Prolongs(qu, qu2)
PROOF
<1>1. qu \in Seq(Job)
  BY DEF Holds, Flushing, Fit
<1>2. \A x : Prolongs(qu, Append(qu, x)) /\ Prolongs(qu, qu)
  BY <1>1 DEF Prolongs
<1>3. \A p \in Ids : \A s, v : SettlesTo(st, de, qu, p, s, v, st2, de2, qu2) => Prolongs(qu, qu2)
  BY <1>2 DEF SettlesTo, Seals
<1>4. \A p, q, e : Subscribes(st, su, qu, q, e, su2, qu2) => Prolongs(qu, qu2)
  BY <1>2 DEF Subscribes
<1> QED
  BY <1>3, <1>4 DEF ResolvesTo

LEMMA Finishing ==
  ASSUME NEW cr, NEW op, NEW st, NEW de, NEW su, NEW qu, NEW nx, NEW pb, NEW ca, NEW in,
         NEW rs, NEW rm, NEW lo, NEW rg, NEW ra, NEW to, NEW qu2, NEW nx2, NEW pb2,
         Holds(cr, op, st, de, su, qu2, nx, pb, ca, in, rs, rm, lo, rg, ra, to),
         ca # {}, nx \in 1 .. Len(qu), Prolongs(qu, qu2), Moves(qu, nx, pb, nx2, pb2)
  PROVE  Holds(cr, op, st, de, su, qu2, nx2, pb2, {}, in, rs, rm, lo, rg, ra, to)
PROOF
<1>1. qu2[nx] = qu[nx]
  BY DEF Prolongs
<1>2. Returns(qu2, nx, pb, ca, nx2, pb2, {})
  BY <1>1 DEF Returns, Moves
<1> QED
  BY <1>2, Returning

-----------------------------------------------------------------------------
(* The steps.                                                              *)

Now == Holds(created, opened, state, detail, subscribers, queue, next, publishing, calling,
             inputs, results, remaining, looping, registered, ran, told)
IInv ==
  /\ Now
  /\ looping \in 0 .. MaxInputs
  /\ calls \in 0 .. MaxCalls
  /\ \A e \in calling : e.type = "then"

(* A step of Settlement, or none.                                          *)
Implements == [Contract!Next]_(Contract!vars)

(* A step that settles nothing and runs nothing is none of Settlement.     *)
LEMMA Idle ==
  ASSUME SameOutcome(state, detail, state', detail') \/ UNCHANGED <<state, detail>>, UNCHANGED <<registered, ran>>
  PROVE  Implements
BY DEF Implements, Contract!vars, SameOutcome, Outcome

(* The actions of Promises in the terms used above.                        *)
LEMMA Effects ==
  /\ \A p, s, v : Settle(p, s, v) => SettlesTo(state, detail, queue, p, s, v, state', detail', queue')
  /\ \A q, e : Subscribe(q, e) => Subscribes(state, subscribers, queue, q, e, subscribers', queue')
  /\ \A p, v : Resolve(p, v) =>
       ResolvesTo(state, detail, subscribers, queue, p, v, state', detail', subscribers', queue')
  /\ \A p, s, v : Tell(p, s, v) => TellsTo(state, told, p, [as |-> s, value |-> v], told')
PROOF
<1>1. \A p, s, v : Settle(p, s, v) => SettlesTo(state, detail, queue, p, s, v, state', detail', queue')
  BY DEF Settle, SettlesTo, Seals, settlement
<1>2. \A q, e : Subscribe(q, e) => Subscribes(state, subscribers, queue, q, e, subscribers', queue')
  BY DEF Subscribe, Subscribes, InvokeJob
<1>3. \A p, v : Resolve(p, v) =>
       ResolvesTo(state, detail, subscribers, queue, p, v, state', detail', subscribers', queue')
  BY <1>1, <1>2 DEF Resolve, ResolvesTo, settlement
<1>4. \A p, s, v : Tell(p, s, v) => TellsTo(state, told, p, [as |-> s, value |-> v], told')
  BY DEF Tell, TellsTo, Adds
<1> QED
  BY <1>1, <1>2, <1>3, <1>4

LEMMA Bounds ==
  ASSUME Now
  PROVE  /\ created \in Nat /\ 1 .. created \subseteq Ids /\ Known \subseteq Values
         /\ opened \subseteq 1 .. created /\ \A p \in opened : inputs[p] = <<>>
         /\ next \in 0 .. Len(queue) + 1 /\ Len(queue) \in Nat
PROOF
<1>1. created \in 0 .. MaxPromises /\ opened \subseteq 1 .. created /\ \A p \in opened : inputs[p] = <<>>
  BY DEF Now, Holds, KindsHold
<1>2. next \in 0 .. Len(queue) + 1 /\ queue \in Seq(Job)
  BY DEF Now, Holds, Flushing, Fit
<1> QED
  BY <1>1, <1>2, LenProperties, BoundAssumption DEF Ids, Known, Values

LEMMA Notes == \A s \in Settled \cup {"follow"}, v \in Values :
  [as |-> s, value |-> v] \in Told
BY DEF Told

(* The actions of the application.                                         *)
LEMMA OpenStep == IInv /\ Open => IInv' /\ Implements
PROOF
<1> SUFFICES ASSUME IInv, Open PROVE IInv' /\ Implements
  OBVIOUS
<1>1. /\ Now /\ looping = 0 /\ created' = created + 1 /\ created' <= MaxPromises
      /\ opened' \subseteq opened \cup {created'}
      /\ UNCHANGED <<state, detail, subscribers, inputs, results, remaining, looping, queue, next, publishing,
                     calling, calls, registered, ran, told>>
  BY Bounds, BoundAssumption DEF IInv, Open, Running, settlement, alls, flushing, history
<1>2. Now'
  BY <1>1, Creating DEF Now
<1>3. Implements
  BY <1>1, Idle
<1> QED
  BY <1>1, <1>2, <1>3 DEF IInv

LEMMA CallResolveStep ==
  ASSUME IInv, NEW p \in opened, NEW v \in Known, CallResolve(p, v)
  PROVE  IInv' /\ Implements
PROOF
<1> DEFINE s == IF v \in Ids \ {p} THEN "follow" ELSE "fulfilled"
           t == [as |-> s, value |-> v]
<1>1. /\ Now /\ Resolve(p, v) /\ Tell(p, s, v) /\ calls' \in 0 .. MaxCalls
      /\ UNCHANGED <<created, opened, inputs, results, remaining, looping, next, publishing, calling, registered, ran>>
  BY BoundAssumption DEF IInv, CallResolve, Counted, TellValue, alls, flushing
<1>2. p \in 1 .. created /\ inputs[p] = <<>> /\ v \in Values
  BY <1>1, Bounds
<1>3. t \in Told /\ t.as = IF v \in Ids \ {p} THEN "follow" ELSE "fulfilled"
  BY <1>2, Notes DEF Settled
<1>4. TellsTo(state, told, p, t, told') /\ t.value = v
  BY <1>1, Effects
<1>5. ResolvesTo(state, detail, subscribers, queue, p, v, state', detail', subscribers', queue')
  BY <1>1, Effects
<1> HIDE DEF t, s
<1>6. /\ Holds(created, opened, state', detail', subscribers', queue', next, publishing, calling,
               inputs, results, remaining, looping, registered, ran, told')
      /\ SameOutcome(state, detail, state', detail')
  BY <1>1, <1>2, <1>3, <1>4, <1>5, ToldAndResolved DEF Now
<1>7. Now'
  BY <1>1, <1>6 DEF Now
<1> QED
  BY <1>1, <1>6, <1>7, Idle DEF IInv

LEMMA CallRejectStep ==
  ASSUME IInv, NEW p \in opened, NEW v \in Known, CallReject(p, v)
  PROVE  IInv' /\ Implements
PROOF
<1> DEFINE t == [as |-> "rejected", value |-> v]
<1>1. /\ Now /\ Settle(p, "rejected", v) /\ Tell(p, "rejected", v) /\ calls' \in 0 .. MaxCalls
      /\ UNCHANGED <<created, opened, subscribers, inputs, results, remaining, looping, next, publishing, calling,
                     registered, ran>>
  BY BoundAssumption DEF IInv, CallReject, Counted, Reject, alls, flushing
<1>2. p \in 1 .. created /\ inputs[p] = <<>> /\ v \in Values /\ "rejected" \in Settled
  BY <1>1, Bounds DEF Settled
<1>3. t \in Told /\ t.as = "rejected" /\ t.value = v
  BY <1>2, Notes
<1>4. TellsTo(state, told, p, t, told')
  BY <1>1, Effects
<1>5. SettlesTo(state, detail, queue, p, "rejected", v, state', detail', queue')
  BY <1>1, Effects
<1> HIDE DEF t
<1>6. /\ Holds(created, opened, state', detail', subscribers, queue', next, publishing, calling,
               inputs, results, remaining, looping, registered, ran, told')
      /\ SameOutcome(state, detail, state', detail')
  BY <1>1, <1>2, <1>3, <1>4, <1>5, ToldAndSettled DEF Now
<1>7. Now'
  BY <1>1, <1>6 DEF Now
<1> QED
  BY <1>1, <1>6, <1>7, Idle DEF IInv

LEMMA ThenStep ==
  ASSUME IInv, NEW p \in 1 .. created, NEW h \in Callbacks, Then(p, h)
  PROVE  IInv' /\ Implements
PROOF
<1> DEFINE e == ThenBy(created + 1, h)
           m == created'
<1>1. /\ Now /\ looping = 0 /\ created' = created + 1 /\ created' <= MaxPromises
      /\ Subscribe(p, e)
      /\ registered' = [registered EXCEPT ![p] = Append(@, created + 1)]
      /\ UNCHANGED <<opened, state, detail, inputs, results, remaining, looping, next, publishing,
                     calling, calls, ran, told>>
  BY Bounds, BoundAssumption DEF IInv, Then, Running, settlement, alls, flushing
<1>2. p \in Ids /\ m \in Ids
  BY <1>1, Bounds, BoundAssumption DEF Ids
<1>3. e \in Subscriber /\ e.type = "then" /\ e.child = m
  BY <1>1, <1>2, CallbacksAssumption, BoundAssumption DEF ThenBy, Subscriber
<1>4. Registers(registered, p, m, registered')
  BY <1>1 DEF Registers
<1>5. Subscribes(state, subscribers, queue, p, e, subscribers', queue')
  BY <1>1, Effects
<1> HIDE DEF e, m
<1>6. Holds(m, opened, state, detail, subscribers', queue', next, publishing, calling,
            inputs, results, remaining, 0, registered', ran, told)
  <2>1. Holds(created, opened, state, detail, subscribers, queue, next, publishing, calling,
            inputs, results, remaining, 0, registered, ran, told)
    BY <1>1 DEF Now
  <2>2. m = created + 1 /\ m <= MaxPromises
    BY <1>1 DEF m
  <2> QED
    BY <1>2, <1>3, <1>4, <1>5, <2>1, <2>2, Registering
<1>7. Now'
  BY <1>1, <1>6 DEF Now, m
<1>8. Contract!Register(p)
  <2>1. registered' = [registered EXCEPT ![p] = Append(@, m)]
    BY <1>4 DEF Registers
  <2> QED
    BY <1>1, <1>2, <2>1 DEF Contract!Register
<1>9. Implements
  BY <1>2, <1>8 DEF Implements, Contract!Next
<1> QED
  BY <1>1, <1>7, <1>9 DEF IInv

LEMMA AllBeginsStep ==
  ASSUME IInv, NEW n \in 0 .. MaxInputs, NEW qs \in [1 .. n -> Known], AllBegins(qs)
  PROVE  IInv' /\ Implements
PROOF
<1> DEFINE m == created'
           lo == IF qs = <<>> THEN 0 ELSE 1
<1>1. /\ Now /\ looping = 0 /\ created' = created + 1 /\ created' <= MaxPromises
      /\ inputs' = [inputs EXCEPT ![created + 1] = qs]
      /\ remaining' = [remaining EXCEPT ![created + 1] = Len(qs)]
      /\ IF qs = <<>> THEN Resolve(created + 1, Array) /\ looping' = 0
         ELSE looping' = 1 /\ UNCHANGED <<state, detail, subscribers, queue>>
      /\ UNCHANGED <<opened, results, next, publishing, calling, calls, registered, ran, told>>
  BY Bounds, BoundAssumption DEF IInv, AllBegins, Running, settlement, flushing, history
<1>2. m \in Ids /\ qs \in [1 .. n -> Values] /\ m \in 1 .. m
  BY <1>1, Bounds, BoundAssumption DEF Ids
<1>3. StartsAll(inputs, remaining, m, qs, inputs', remaining', looping')
  BY <1>1 DEF StartsAll
<1>4. m = created + 1 /\ m <= MaxPromises
  BY <1>1
<1>5. IF qs = <<>> THEN ResolvesTo(state, detail, subscribers, queue, m, Array, state', detail', subscribers', queue')
      ELSE UNCHANGED <<state, detail, subscribers, queue>>
  BY <1>1, Effects
<1> HIDE DEF m
<1>6. /\ Holds(m, opened, state, detail, subscribers, queue, next, publishing, calling,
               inputs', results, remaining', looping', registered, ran, told)
      /\ looping' \in 0 .. MaxInputs /\ told[m] = <<>> /\ inputs'[m] = qs
  <2>1. Holds(created, opened, state, detail, subscribers, queue, next, publishing, calling,
            inputs, results, remaining, 0, registered, ran, told)
    BY <1>1 DEF Now
  <2> QED
    BY <1>2, <1>3, <1>4, <2>1, StartingAll
<1>7. /\ Holds(m, opened, state', detail', subscribers', queue', next, publishing, calling,
               inputs', results, remaining', looping', registered, ran, told)
      /\ SameOutcome(state, detail, state', detail')
  <2>1. CASE qs = <<>>
    <3>1. Array \in Values /\ Array \notin Ids \ {m}
      BY PlainAssumption DEF Values, Ids
    <3>2. ResolvesTo(state, detail, subscribers, queue, m, Array, state', detail', subscribers', queue')
      BY <1>5, <2>1
    <3>3. inputs'[m] = <<>> /\ told[m] = <<>>
      BY <1>6, <2>1
    <3>4. MayResolve(state, detail, inputs', results, told, m, Array)
      BY <3>1, <3>3 DEF MayResolve
    <3> QED
      BY <1>2, <1>6, <3>1, <3>2, <3>4, Resolving
  <2>2. CASE qs # <<>>
    BY <1>5, <1>6, <2>2 DEF SameOutcome
  <2> QED
    BY <2>1, <2>2
<1>8. Now'
  BY <1>1, <1>7 DEF Now, m
<1> QED
  BY <1>1, <1>6, <1>7, <1>8, Idle DEF IInv

(* all's resolver for an index, in the loop of all or later.               *)
LEMMA ResolvingAll ==
  ASSUME NEW cr, NEW op, NEW nx, NEW pb, NEW ca, NEW lo, NEW rg, NEW ra, NEW to,
         NEW a \in 1 .. cr, NEW i \in 1 .. Len(inputs[a]), NEW v \in Values,
         a \in Ids,
         Holds(cr, op, state, detail, subscribers, queue, nx, pb, ca, inputs, results, remaining, lo, rg, ra, to),
         results[a][i] = Nothing, inputs[a] # <<>>,
         IsValueOf(state, detail, inputs[a][i], v), IsAlone(Waiting(subscribers, queue, nx, pb, ca), a, i),
         lo # 0 /\ a = cr => i < lo,
         ResolveAll(a, i, v)
  PROVE  /\ Holds(cr, op, state', detail', subscribers', queue', nx, pb, ca, inputs', results', remaining', lo, rg, ra, to)
         /\ SameOutcome(state, detail, state', detail')
         /\ Prolongs(queue, queue')
PROOF
<1>1. /\ Records(results, remaining, a, i, v, results', remaining')
      /\ inputs' = inputs
      /\ IF remaining[a] = 1 THEN Resolve(a, Array) ELSE UNCHANGED <<state, detail, subscribers, queue>>
  BY DEF ResolveAll, Records, settlement
<1>2. /\ Holds(cr, op, state, detail, subscribers, queue, nx, pb, ca, inputs, results', remaining', lo, rg, ra, to)
      /\ Completes(inputs, remaining, results', a)
  <2>1. Records(results, remaining, a, i, v, results', remaining')
    BY <1>1
  <2> QED
    BY <2>1, Recording
<1>3. CASE remaining[a] = 1
  <2>1. Array \in Values /\ Array \notin Ids \ {a}
    BY PlainAssumption DEF Values, Ids
  <2>2. ResolvesTo(state, detail, subscribers, queue, a, Array, state', detail', subscribers', queue')
    BY <1>1, <1>3, Effects
  <2>3. IsComplete(inputs, results', a)
    BY <1>2, <1>3 DEF Completes
  <2>6. MayResolve(state, detail, inputs, results', to, a, Array)
    BY <2>1, <2>3 DEF MayResolve
  <2>4. Prolongs(queue, queue')
    BY <1>2, <2>2, Prolonging
  <2>5. /\ Holds(cr, op, state', detail', subscribers', queue', nx, pb, ca, inputs, results', remaining', lo, rg, ra, to)
        /\ SameOutcome(state, detail, state', detail')
    BY <1>2, <2>1, <2>2, <2>6, Resolving
  <2> QED
    BY <1>1, <2>4, <2>5
<1>4. CASE remaining[a] # 1
  <2>1. UNCHANGED <<state, detail, subscribers, queue>>
    BY <1>1, <1>4
  <2>2. Prolongs(queue, queue')
    BY <2>1 DEF Prolongs
  <2> QED
    BY <1>1, <1>2, <2>1, <2>2 DEF SameOutcome
<1> QED
  BY <1>3, <1>4

(* A turn of the loop of all.                                              *)
LEMMA AllInputStep == IInv /\ AllInput => IInv' /\ Implements
PROOF
<1> SUFFICES ASSUME IInv, AllInput PROVE IInv' /\ Implements
  OBVIOUS
<1> DEFINE cr == created
           lo == looping
           lo2 == looping'
           q == inputs[created][looping]
           e == AllBy(created, looping)
           W == Waiting(subscribers, queue, next, publishing, calling)
<1>1. /\ lo # 0
      /\ lo2 = IF lo = Len(inputs[cr]) THEN 0 ELSE lo + 1
      /\ IF q \in Ids THEN Subscribe(q, e) /\ UNCHANGED <<state, detail, inputs, results, remaining>>
         ELSE ResolveAll(cr, lo, q)
      /\ UNCHANGED <<created, opened, next, publishing, calling, calls, registered, ran, told>>
  BY DEF AllInput, settlement, flushing, history
<1>2. /\ Holds(cr, opened, state, detail, subscribers, queue, next, publishing, calling,
               inputs, results, remaining, lo2, registered, ran, told)
      /\ lo2 \in 0 .. MaxInputs
      /\ lo2 # 0 => lo < lo2
      /\ cr \in Ids /\ cr \in 1 .. cr /\ lo \in 1 .. Len(inputs[cr]) /\ lo \in 0 .. MaxInputs
      /\ inputs[cr] \in Seq(Values) /\ inputs[cr] # <<>> /\ q \in Values
      /\ results[cr][lo] = Nothing
      /\ IsAlone(W, cr, lo)
  <2>1. Holds(created, opened, state, detail, subscribers, queue, next, publishing, calling,
            inputs, results, remaining, lo, registered, ran, told)
    BY DEF IInv, Now
  <2> HIDE DEF lo, lo2, cr
  <2>2. Holds(cr, opened, state, detail, subscribers, queue, next, publishing, calling,
            inputs, results, remaining, lo, registered, ran, told)
    BY <2>1 DEF cr
  <2> QED
    BY <1>1, <2>2, Looping DEF lo, cr
<1>3. CASE q \in Ids
  <2>1. e \in Subscriber /\ e.type = "all" /\ e.child = cr /\ e.index = lo
    BY <1>2 DEF AllBy, Subscriber
  <2>2. Subscribes(state, subscribers, queue, q, e, subscribers', queue')
    BY <1>1, <1>3, Effects
  <2>3. InputWaits(inputs, results, q, e)
    BY <1>2, <2>1 DEF InputWaits
  <2>4. IsApart(W, q, e)
    BY <1>2, <1>3, <2>1 DEF IsApart, IsAlone, Apart
  <2>5. lo2 # 0 /\ e.child = cr => e.index < lo2
    BY <1>2, <2>1
  <2>6. UNCHANGED <<state, detail, inputs, results, remaining>>
    BY <1>1, <1>3
  <2>7. q \in Ids /\ e.child \in 1 .. cr
    BY <1>2, <1>3, <2>1
  <2> HIDE DEF q, e, lo2
  <2>8. Holds(cr, opened, state, detail, subscribers', queue', next, publishing, calling,
               inputs, results, remaining, lo2, registered, ran, told)
    BY <1>2, <2>1, <2>2, <2>3, <2>4, <2>5, <2>7, Subscribing DEF W
  <2>9. Now'
    BY <1>1, <2>6, <2>8 DEF Now, lo2
  <2> QED
    BY <1>1, <1>2, <2>6, <2>9, Idle DEF IInv, lo2
<1>4. CASE q \notin Ids
  <2>1. IsValueOf(state, detail, q, q)
    BY <1>4 DEF IsValueOf
  <2>2. ResolveAll(cr, lo, q)
    BY <1>1, <1>4
  <2>3. lo2 # 0 /\ cr = cr => lo < lo2
    BY <1>2
  <2>5. IsValueOf(state, detail, inputs[cr][lo], q)
    BY <2>1
  <2> HIDE DEF q, lo2, W, lo
  <2>4. /\ Holds(cr, opened, state', detail', subscribers', queue', next, publishing, calling,
                 inputs', results', remaining', lo2, registered, ran, told)
        /\ SameOutcome(state, detail, state', detail')
    BY <1>2, <2>5, <2>2, <2>3, ResolvingAll DEF W
  <2>9. Now'
    BY <1>1, <2>4 DEF Now, lo2
  <2> QED
    BY <1>1, <1>2, <2>4, <2>9, Idle DEF IInv, lo2
<1> QED
  BY <1>3, <1>4

(* The flush itself.                                                       *)
LEMMA FlushBeginsStep == IInv /\ FlushBegins => IInv' /\ Implements
PROOF
<1> SUFFICES ASSUME IInv, FlushBegins PROVE IInv' /\ Implements
  OBVIOUS
<1>1. /\ Now /\ next = 0 /\ next' = 1
      /\ UNCHANGED <<created, opened, state, detail, subscribers, inputs, results, remaining, looping, queue,
                     publishing, calling, calls, registered, ran, told>>
  BY DEF IInv, FlushBegins, settlement, alls, history
<1>2. Now'
  BY <1>1, Starting DEF Now
<1> QED
  BY <1>1, <1>2, Idle DEF IInv

LEMMA FlushEndsStep == IInv /\ FlushEnds => IInv' /\ Implements
PROOF
<1> SUFFICES ASSUME IInv, FlushEnds PROVE IInv' /\ Implements
  OBVIOUS
<1>1. /\ Now /\ next = Len(queue) + 1 /\ next' = 0 /\ queue' = <<>>
      /\ UNCHANGED <<created, opened, state, detail, subscribers, inputs, results, remaining, looping,
                     publishing, calling, calls, registered, ran, told>>
  BY DEF IInv, FlushEnds, settlement, alls, history
<1>2. Now'
  BY <1>1, Ending DEF Now
<1> QED
  BY <1>1, <1>2, Idle DEF IInv

LEMMA PublishBeginsStep == IInv /\ PublishBegins => IInv' /\ Implements
PROOF
<1> SUFFICES ASSUME IInv, PublishBegins PROVE IInv' /\ Implements
  OBVIOUS
<1> DEFINE p == queue[next].promise
           s == queue[next].as
<1>1. /\ Now /\ next \in 1 .. Len(queue) /\ queue[next].does = "publish" /\ publishing = 0 /\ publishing' = 1
      /\ state' = [state EXCEPT ![p] = s]
      /\ UNCHANGED <<created, opened, detail, subscribers, inputs, results, remaining, looping, queue, next,
                     calling, calls, registered, ran, told>>
  BY DEF IInv, PublishBegins, OfFlush, Current, alls, history
<1>2. Publishes(state, p, s, state')
  BY <1>1 DEF Publishes
<1>3. /\ Holds(created, opened, state', detail, subscribers, queue, next, 1, calling,
               inputs, results, remaining, looping, registered, ran, told)
      /\ p \in Ids /\ s \in Settled /\ detail[p] \in Values /\ state[p] = "sealed"
  <2>1. Holds(created, opened, state, detail, subscribers, queue, next, 0, calling,
               inputs, results, remaining, looping, registered, ran, told)
    BY <1>1 DEF Now
  <2>2. next \in 1 .. Len(queue) /\ queue[next].does = "publish"
    BY <1>1
  <2>3. IsSealed(state, p)
    BY <1>2, <2>1, <2>2, Publishing
  <2> QED
    BY <1>2, <2>1, <2>2, <2>3, Publishing DEF IsSealed
<1>4. Now'
  BY <1>1, <1>3 DEF Now
<1>5. state \in [Ids -> States]
  BY <1>1 DEF Now, Holds, Flushing, Fit
<1>6. PICK x \in Ids : x = p
  BY <1>3
<1> HIDE DEF p, s
<1>7. Contract!Settle(x)
  <2> DEFINE o == [state |-> s, value |-> {detail[x]}]
             old == Outcome(state, detail)
  <2>1. o \in [state : {"fulfilled", "rejected"}, value : {{v} : v \in Values}]
    BY <1>3, <1>6 DEF Settled
  <2>2. old[x] = [state |-> "pending", value |-> {}]
    BY <1>3, <1>6 DEF Outcome, Settled
  <2>3. Outcome(state', detail') = [old EXCEPT ![x] = o]
    <3>1. state'[x] = s /\ detail' = detail /\ \A q \in Ids \ {x} : state'[q] = state[q]
      BY <1>1, <1>2, <1>3, <1>5, <1>6 DEF Publishes
    <3>2. /\ Outcome(state', detail')[x] = o
          /\ \A q \in Ids \ {x} : Outcome(state', detail')[q] = old[q]
      BY <1>3, <3>1 DEF Outcome
    <3>3. DOMAIN Outcome(state', detail') = Ids /\ DOMAIN old = Ids
      BY DEF Outcome
    <3> QED
      BY <3>2, <3>3 DEF Outcome
  <2> HIDE DEF o
  <2>4. UNCHANGED <<registered, ran>>
    BY <1>1
  <2> QED
    BY <2>1, <2>2, <2>3, <2>4 DEF Contract!Settle, Contract!Settled, Contract!Pending, Outcome
<1>8. Implements
  BY <1>7 DEF Implements, Contract!Next
<1> QED
  BY <1>1, <1>4, <1>8 DEF IInv

LEMMA PublishEndsStep == IInv /\ PublishEnds => IInv' /\ Implements
PROOF
<1> SUFFICES ASSUME IInv, PublishEnds PROVE IInv' /\ Implements
  OBVIOUS
<1>1. /\ Now /\ publishing' = 0
      /\ EndsPublishing(subscribers, queue, next, publishing, subscribers', next')
      /\ UNCHANGED <<created, opened, state, detail, inputs, results, remaining, looping, queue,
                     calling, calls, registered, ran, told>>
  BY DEF IInv, PublishEnds, OfFlush, Current, EndsPublishing, settlement, alls, history
<1>2. Now'
  BY <1>1, Published DEF Now
<1> QED
  BY <1>1, <1>2, Idle DEF IInv

(* Whom the flush calls.                                                   *)
LEMMA InvokedIsBegun ==
  ASSUME IInv, NEW e \in Invoked
  PROVE  /\ e \in Subscriber
         /\ Begins(subscribers, queue, next, publishing, calling, e, {e})
PROOF
<1>1. /\ queue \in Seq(Job) /\ subscribers \in [Ids -> Seq(Subscriber)] /\ JobsHold(state, queue)
  BY DEF IInv, Now, Holds, Flushing, Fit
<1>2. /\ next \in 1 .. Len(queue) /\ calling = {}
      /\ IF queue[next].does = "invoke" THEN e \in queue[next].by
         ELSE \E i \in {publishing} \cap DOMAIN subscribers[queue[next].promise] : e = subscribers[queue[next].promise][i]
  BY DEF Invoked, OfFlush, Current
<1>3. queue[next] \in Job
  BY <1>1, <1>2, ElementOfSeq
<1>4. queue[next].promise \in Ids /\ queue[next].by \subseteq Subscriber
  BY <1>3 DEF Job
<1> DEFINE s == subscribers[queue[next].promise]
<1>5. s \in Seq(Subscriber)
  BY <1>1, <1>4
<1>6. DOMAIN s = 1 .. Len(s)
  BY <1>5
<1>7. CASE queue[next].does = "invoke"
  BY <1>2, <1>4, <1>7 DEF Begins
<1>8. CASE queue[next].does # "invoke"
  <2>1. publishing \in 1 .. Len(s) /\ e = s[publishing]
    BY <1>2, <1>6, <1>8
  <2> HIDE DEF s
  <2>2. e \in Subscriber
    BY <1>5, <2>1, ElementOfSeq
  <2> QED
    BY <1>2, <1>8, <2>1, <2>2 DEF Begins, s
<1> QED
  BY <1>7, <1>8

(* The state in which e has been called, and what is known of e in it.     *)
Called(e, ra2) ==
  /\ Holds(created, opened, state, detail, subscribers, queue, next, publishing, {e},
           inputs, results, remaining, looping, registered, ra2, told)
  /\ next \in 1 .. Len(queue)
  /\ e.child \in 1 .. created /\ e.child \in Ids
CalledFor(e, q) ==
  /\ q \in Ids /\ detail[q] \in Values
  /\ state[q] = queue[next].as /\ state[q] \in Settled
  /\ <<q, state[q]>> \in Decided(state, queue)
  /\ <<q, e>> \in Waiting(subscribers, queue, next, publishing, calling)
  /\ e.type = "then" => IsNext(registered, ran, q, e.child)
  /\ e.type # "all" => inputs[e.child] = <<>>
  /\ e.type = "adopt" => q # e.child
  /\ e.type = "all" => /\ InputWaits(inputs, results, q, e)
                       /\ looping # 0 /\ e.child = created => e.index < looping
                       /\ IsAlone(Waiting(subscribers, queue, next, publishing, {e}), e.child, e.index)

LEMMA Calling ==
  ASSUME IInv, NEW e \in Invoked, NEW ra2, Runs(ran, queue[next].promise, e, ra2)
  PROVE  Called(e, ra2) /\ CalledFor(e, queue[next].promise)
PROOF
<1> DEFINE q == queue[next].promise
           W2 == Waiting(subscribers, queue, next, publishing, {e})
<1>1. e \in Subscriber /\ Begins(subscribers, queue, next, publishing, calling, e, {e})
  BY InvokedIsBegun
<1>2. Holds(created, opened, state, detail, subscribers, queue, next, publishing, calling,
           inputs, results, remaining, looping, registered, ran, told)
  BY DEF IInv, Now
<1>a. /\ Holds(created, opened, state, detail, subscribers, queue, next, publishing, {e},
               inputs, results, remaining, looping, registered, ra2, told)
      /\ IsDue(created, state, detail, subscribers, queue, next, publishing, calling, e, {e},
               inputs, results, looping, registered, ran)
  BY <1>1, <1>2, Beginning
<1>3. /\ Holds(created, opened, state, detail, subscribers, queue, next, publishing, {e},
               inputs, results, remaining, looping, registered, ra2, told)
      /\ e.type = "then" => IsNext(registered, ran, q, e.child)
      /\ q \in Ids /\ queue[next].as \in Settled /\ state[q] = queue[next].as
      /\ detail[q] \in Values
      /\ e.child \in 1 .. created /\ e.child \in Ids
      /\ <<q, queue[next].as>> \in Decided(state, queue)
      /\ <<q, e>> \in Waiting(subscribers, queue, next, publishing, calling)
      /\ \A f \in Subscriber : <<q, f>> \in W2 => Apart(e, f)
      /\ e.type # "all" => inputs[e.child] = <<>>
      /\ e.type = "adopt" => q # e.child
      /\ e.type = "all" => InputWaits(inputs, results, q, e) /\ (looping # 0 /\ e.child = created => e.index < looping)
  BY <1>a DEF IsDue
<1>4. next \in 1 .. Len(queue)
  BY <1>1 DEF Begins
<1>5. \A p \in Ids, f \in Subscriber : <<p, f>> \in W2 /\ f.type = "all" => InputWaits(inputs, results, p, f)
  BY <1>3 DEF Holds, AllHolds
<1> HIDE DEF q, W2
<1>6. e.type = "all" => IsAlone(W2, e.child, e.index)
  <2> SUFFICES ASSUME e.type = "all", NEW p \in Ids, NEW f \in Subscriber, <<p, f>> \in W2, f.type = "all",
                      f.child = e.child, f.index = e.index
               PROVE  FALSE
    BY DEF IsAlone
  <2>1. InputWaits(inputs, results, p, f) /\ InputWaits(inputs, results, q, e)
    BY <1>3, <1>5
  <2>2. p = q
    BY <2>1 DEF InputWaits
  <2>3. Apart(e, f)
    BY <1>3, <2>2
  <2> QED
    BY <2>3 DEF Apart
<1>7. Called(e, ra2)
  BY <1>3, <1>4 DEF Called
<1> QED
  BY <1>3, <1>6, <1>7 DEF CalledFor, q, W2

(* The end of a step that has called e.                                    *)
LEMMA Returned ==
  ASSUME NEW e, IInv, next \in 1 .. Len(queue), Prolongs(queue, queue'), OneInvoked,
         UNCHANGED <<created, opened, calls, looping, registered>>, calling' = {},
         Holds(created, opened, state', detail', subscribers', queue', next, publishing, {e},
               inputs', results', remaining', looping, registered, ran', told')
  PROVE  IInv'
PROOF
<1>1. Moves(queue, next, publishing, next', publishing')
  BY DEF OneInvoked, Moves, Current
<1>2. {e} # {}
  OBVIOUS
<1>3. Holds(created, opened, state', detail', subscribers', queue', next', publishing', {},
               inputs', results', remaining', looping, registered, ran', told')
  BY <1>1, <1>2, Finishing
<1>4. Now'
  BY <1>3 DEF Now
<1> QED
  BY <1>4 DEF IInv

(* A reaction that runs is the next that was registered on the promise.    *)
LEMMA RunningNext ==
  ASSUME NEW e, e.type = "then", CalledFor(e, queue[next].promise),
         ran' = [ran EXCEPT ![queue[next].promise] = Append(@, e.child)],
         SameOutcome(state, detail, state', detail') \/ UNCHANGED <<state, detail>>, UNCHANGED registered
  PROVE  Implements
PROOF
<1>1. PICK q \in Ids : q = queue[next].promise
  BY DEF CalledFor
<1>2. state[q] \in Settled /\ IsNext(registered, ran, q, e.child)
  BY <1>1 DEF CalledFor
<1>3. Len(ran[q]) < Len(registered[q]) /\ e.child = registered[q][Len(ran[q]) + 1]
  BY <1>2 DEF IsNext
<1>4. ran' = [ran EXCEPT ![q] = Append(@, registered[q][Len(@) + 1])]
  BY <1>1, <1>3
<1>5. Outcome(state, detail)[q] # [state |-> "pending", value |-> {}]
  BY <1>2 DEF Outcome, Settled
<1>6. Contract!Run(q)
  BY <1>3, <1>4, <1>5 DEF Contract!Run, Contract!Pending, SameOutcome, Outcome
<1> QED
  BY <1>6 DEF Implements, Contract!Next

(* Those that are called: callbacks, handed on results, followers, inputs  *)
(* of all.                                                                 *)
LEMMA CallbackBeginsStep ==
  ASSUME IInv, NEW e \in Invoked, CallbackBegins(e)
  PROVE  IInv' /\ Implements
PROOF
<1>1. /\ e.type = "then" /\ calling' = {e}
      /\ ran' = [ran EXCEPT ![queue[next].promise] = Append(@, e.child)]
      /\ UNCHANGED <<created, opened, state, detail, subscribers, inputs, results, remaining, looping, queue,
                     next, publishing, calls, registered, told>>
  BY DEF CallbackBegins, Current, settlement, alls
<1>2. Runs(ran, queue[next].promise, e, ran')
  BY <1>1 DEF Runs
<1>3. Called(e, ran') /\ CalledFor(e, queue[next].promise)
  BY <1>2, Calling
<1>4. Now'
  BY <1>1, <1>3 DEF Called, Now
<1>5. Implements
  BY <1>1, <1>3, RunningNext
<1> QED
  BY <1>1, <1>4, <1>5 DEF IInv

LEMMA PassOnStep ==
  ASSUME IInv, NEW e \in Invoked, PassOn(e)
  PROVE  IInv' /\ Implements
PROOF
<1> DEFINE q == queue[next].promise
           c == e.child
           v == detail[q]
<1>1. /\ e.type = "then"
      /\ CASE v = c -> Reject(v, Error) /\ Tell(v, "rejected", Error)
           [] v \in Ids \ {c} -> Resolve(c, v) /\ Tell(c, "follow", v)
           [] OTHER -> Settle(c, queue[next].as, v) /\ UNCHANGED subscribers /\ Tell(c, queue[next].as, v)
      /\ OneInvoked
      /\ ran' = [ran EXCEPT ![q] = Append(@, c)]
      /\ UNCHANGED <<created, opened, inputs, results, remaining, looping, calling, calls, registered>>
  BY DEF PassOn, Current, alls
<1>2. Runs(ran, q, e, ran')
  BY <1>1 DEF Runs
<1>3. Called(e, ran') /\ CalledFor(e, q)
  BY <1>2, Calling
<1>4. calling = {} /\ calling' = {}
  BY <1>1, InvokedIsBegun DEF Begins
<1>5. /\ Holds(created, opened, state, detail, subscribers, queue, next, publishing, {e},
               inputs, results, remaining, looping, registered, ran', told)
      /\ next \in 1 .. Len(queue) /\ c \in 1 .. created /\ c \in Ids
      /\ inputs[c] = <<>> /\ v \in Values
      /\ state[q] = queue[next].as /\ state[q] \in Settled
  BY <1>1, <1>3 DEF Called, CalledFor
<1>6. Error \in Values /\ "rejected" \in Settled
  BY PlainAssumption DEF Values, Settled
<1>7. /\ Holds(created, opened, state', detail', subscribers', queue', next, publishing, {e},
               inputs, results, remaining, looping, registered, ran', told')
      /\ SameOutcome(state, detail, state', detail')
      /\ Prolongs(queue, queue')
  <2>1. CASE v = c
    <3> DEFINE t == [as |-> "rejected", value |-> Error]
    <3>1. SettlesTo(state, detail, queue, c, "rejected", Error, state', detail', queue') /\ subscribers' = subscribers
      BY <1>1, <2>1, Effects DEF Reject
    <3>2. TellsTo(state, told, c, t, told') /\ t \in Told /\ t.as = "rejected" /\ t.value = Error
      BY <1>1, <1>6, <2>1, Effects, Notes
    <3> HIDE DEF t, v, c
    <3>3. Prolongs(queue, queue')
      BY <1>5, <3>1, Prolonging
    <3>4. /\ Holds(created, opened, state', detail', subscribers, queue', next, publishing, {e},
                   inputs, results, remaining, looping, registered, ran', told')
          /\ SameOutcome(state, detail, state', detail')
      BY <1>5, <1>6, <3>1, <3>2, ToldAndSettled
    <3> QED
      BY <3>1, <3>3, <3>4
  <2>2. CASE v \in Ids \ {c}
    <3> DEFINE t == [as |-> "follow", value |-> v]
    <3>0. Resolve(c, v) /\ Tell(c, "follow", v)
      BY <1>1, <2>2
    <3>1. ResolvesTo(state, detail, subscribers, queue, c, v, state', detail', subscribers', queue')
      BY <3>0, Effects
    <3>2. TellsTo(state, told, c, t, told') /\ t \in Told /\ t.value = v /\ t.as = IF v \in Ids \ {c} THEN "follow" ELSE "fulfilled"
      BY <1>5, <2>2, <3>0, Effects, Notes
    <3> HIDE DEF t, v, c
    <3>3. Prolongs(queue, queue')
      BY <1>5, <3>1, Prolonging
    <3>4. /\ Holds(created, opened, state', detail', subscribers', queue', next, publishing, {e},
                   inputs, results, remaining, looping, registered, ran', told')
          /\ SameOutcome(state, detail, state', detail')
      BY <1>5, <3>1, <3>2, ToldAndResolved
    <3> QED
      BY <3>3, <3>4
  <2>3. CASE v \notin Ids
    <3> DEFINE s == queue[next].as
               t == [as |-> s, value |-> v]
    <3>0. Settle(c, s, v) /\ Tell(c, s, v) /\ subscribers' = subscribers
      BY <1>1, <1>5, <2>3
    <3>1. SettlesTo(state, detail, queue, c, s, v, state', detail', queue')
      BY <3>0, Effects
    <3>2. s \in Settled
      BY <1>5
    <3>3. TellsTo(state, told, c, t, told') /\ t \in Told /\ t.as = s /\ t.value = v
      BY <1>5, <3>0, <3>2, Effects, Notes
    <3>4. s = "fulfilled" => v \notin Ids \ {c}
      BY <2>3
    <3> HIDE DEF t, v, c, s
    <3>5. Prolongs(queue, queue')
      BY <1>5, <3>1, Prolonging
    <3>6. /\ Holds(created, opened, state', detail', subscribers, queue', next, publishing, {e},
                   inputs, results, remaining, looping, registered, ran', told')
          /\ SameOutcome(state, detail, state', detail')
      BY <1>5, <3>1, <3>2, <3>3, <3>4, ToldAndSettled
    <3> QED
      BY <3>0, <3>5, <3>6
  <2> QED
    BY <2>1, <2>2, <2>3
<1>8. IInv'
  BY <1>1, <1>4, <1>5, <1>7, Returned
<1>9. Implements
  BY <1>1, <1>3, <1>7, RunningNext
<1> QED
  BY <1>8, <1>9

LEMMA AdoptStep ==
  ASSUME IInv, NEW e \in Invoked, Adopt(e)
  PROVE  IInv' /\ Implements
PROOF
<1> DEFINE q == queue[next].promise
           s == queue[next].as
           c == e.child
           v == detail[q]
           W == Waiting(subscribers, queue, next, publishing, calling)
           D == Decided(state, queue)
<1>1. /\ e.type = "adopt"
      /\ CASE s = "rejected" -> Settle(c, "rejected", v) /\ UNCHANGED subscribers
           [] s = "fulfilled" /\ v # q -> Resolve(c, v)
           [] s = "fulfilled" /\ v = q -> Settle(c, "fulfilled", q) /\ UNCHANGED subscribers
      /\ OneInvoked
      /\ UNCHANGED <<created, opened, inputs, results, remaining, looping, calling, calls, registered, ran, told>>
  BY DEF Adopt, Reject, Current, alls, history
<1>2. Runs(ran, q, e, ran)
  BY <1>1 DEF Runs
<1>3. Called(e, ran) /\ CalledFor(e, q)
  BY <1>2, Calling
<1>4. calling = {} /\ calling' = {} /\ e \in Subscriber
  BY <1>1, InvokedIsBegun DEF Begins
<1>5. /\ Holds(created, opened, state, detail, subscribers, queue, next, publishing, {e},
               inputs, results, remaining, looping, registered, ran, told)
      /\ next \in 1 .. Len(queue) /\ c \in 1 .. created /\ c \in Ids
      /\ inputs[c] = <<>> /\ v \in Values /\ q \in Ids
      /\ state[q] = s /\ state[q] \in Settled
      /\ <<q, state[q]>> \in D /\ <<q, e>> \in W /\ q # c
  BY <1>1, <1>3 DEF Called, CalledFor
<1>6. ToldHolds(state, detail, W, D, inputs, told)
  BY DEF IInv, Now, Holds
<1>7. "rejected" \in Settled /\ "fulfilled" \in Settled
  BY DEF Settled
<1> HIDE DEF W, D
<1>8. state[c] = "pending" =>
        /\ s = "rejected" => AgreesOn(state, detail, told, c, "rejected", v)
        /\ s = "fulfilled" /\ v # q /\ v \in Ids => FollowsOn(state, detail, told, c, v)
        /\ s = "fulfilled" => AgreesOn(state, detail, told, c, "fulfilled", v)
  <2> SUFFICES ASSUME state[c] = "pending"
               PROVE  /\ s = "rejected" => AgreesOn(state, detail, told, c, "rejected", v)
                      /\ s = "fulfilled" /\ v # q /\ v \in Ids => FollowsOn(state, detail, told, c, v)
                      /\ s = "fulfilled" => AgreesOn(state, detail, told, c, "fulfilled", v)
    OBVIOUS
  <2> HIDE DEF q, s
  <2>1. /\ state[q] = "rejected" => AgreesOn(state, detail, told, c, "rejected", v)
        /\ state[q] = "fulfilled" /\ v # q /\ v \in Ids => FollowsOn(state, detail, told, c, v)
        /\ state[q] = "fulfilled" => AgreesOn(state, detail, told, c, "fulfilled", v)
    BY <1>1, <1>4, <1>5, <1>6, ToldAdopting
  <2> QED
    BY <1>5, <2>1
<1>9. /\ Holds(created, opened, state', detail', subscribers', queue', next, publishing, {e},
               inputs, results, remaining, looping, registered, ran, told)
      /\ SameOutcome(state, detail, state', detail')
      /\ Prolongs(queue, queue')
  <2>1. CASE s = "rejected"
    <3>0. Settle(c, "rejected", v) /\ subscribers' = subscribers
      BY <1>1, <2>1
    <3>1. SettlesTo(state, detail, queue, c, "rejected", v, state', detail', queue')
      BY <3>0, Effects
    <3>2. MaySettle(state, detail, inputs, results, told, c, "rejected", v)
      BY <1>5, <1>8, <2>1 DEF MaySettle
    <3> HIDE DEF q, s, c, v
    <3>3. Prolongs(queue, queue')
      BY <1>5, <3>1, Prolonging
    <3>4. /\ Holds(created, opened, state', detail', subscribers, queue', next, publishing, {e},
                   inputs, results, remaining, looping, registered, ran, told)
          /\ SameOutcome(state, detail, state', detail')
      BY <1>5, <1>7, <3>1, <3>2, Settling
    <3> QED
      BY <3>0, <3>3, <3>4
  <2>2. CASE s = "fulfilled" /\ v # q
    <3>0. Resolve(c, v)
      BY <1>1, <2>2
    <3>1. ResolvesTo(state, detail, subscribers, queue, c, v, state', detail', subscribers', queue')
      BY <3>0, Effects
    <3>2. MayResolve(state, detail, inputs, results, told, c, v)
      BY <1>5, <1>8, <2>2 DEF MayResolve
    <3> HIDE DEF q, s, c, v
    <3>4. Prolongs(queue, queue')
      BY <1>5, <3>1, Prolonging
    <3>5. /\ Holds(created, opened, state', detail', subscribers', queue', next, publishing, {e},
                   inputs, results, remaining, looping, registered, ran, told)
          /\ SameOutcome(state, detail, state', detail')
      BY <1>5, <3>1, <3>2, Resolving
    <3> QED
      BY <3>4, <3>5
  <2>3. CASE s = "fulfilled" /\ v = q
    <3>0. Settle(c, "fulfilled", v) /\ subscribers' = subscribers
      BY <1>1, <2>3
    <3>1. SettlesTo(state, detail, queue, c, "fulfilled", v, state', detail', queue')
      BY <3>0, Effects
    <3>2. MaySettle(state, detail, inputs, results, told, c, "fulfilled", v)
      BY <1>5, <1>8, <2>3 DEF MaySettle, IsItself
    <3> HIDE DEF q, s, c, v
    <3>4. Prolongs(queue, queue')
      BY <1>5, <3>1, Prolonging
    <3>5. /\ Holds(created, opened, state', detail', subscribers, queue', next, publishing, {e},
                   inputs, results, remaining, looping, registered, ran, told)
          /\ SameOutcome(state, detail, state', detail')
      BY <1>5, <1>7, <3>1, <3>2, Settling
    <3> QED
      BY <3>0, <3>4, <3>5
  <2> QED
    BY <1>5, <2>1, <2>2, <2>3 DEF Settled
<1>10. IInv'
  BY <1>1, <1>4, <1>5, <1>9, Returned
<1> QED
  BY <1>1, <1>9, <1>10, Idle

LEMMA OneOfAllStep ==
  ASSUME IInv, NEW e \in Invoked, OneOfAll(e)
  PROVE  IInv' /\ Implements
PROOF
<1> DEFINE q == queue[next].promise
           s == queue[next].as
           c == e.child
           i == e.index
           v == detail[q]
<1>1. /\ e.type = "all"
      /\ IF s = "fulfilled" THEN ResolveAll(c, i, v)
         ELSE Settle(c, "rejected", v) /\ UNCHANGED <<subscribers, inputs, results, remaining>>
      /\ OneInvoked
      /\ UNCHANGED <<created, opened, looping, calling, calls, registered, ran, told>>
  BY DEF OneOfAll, Reject, Current, history
<1>2. Runs(ran, q, e, ran)
  BY <1>1 DEF Runs
<1>3. Called(e, ran) /\ CalledFor(e, q)
  BY <1>2, Calling
<1>4. calling = {} /\ calling' = {} /\ e \in Subscriber
  BY <1>1, InvokedIsBegun DEF Begins
<1>5. /\ Holds(created, opened, state, detail, subscribers, queue, next, publishing, {e},
               inputs, results, remaining, looping, registered, ran, told)
      /\ next \in 1 .. Len(queue) /\ c \in 1 .. created /\ c \in Ids
      /\ v \in Values /\ q \in Ids
      /\ state[q] = s /\ state[q] \in Settled
      /\ InputWaits(inputs, results, q, e)
      /\ looping # 0 /\ c = created => i < looping
      /\ IsAlone(Waiting(subscribers, queue, next, publishing, {e}), c, i)
  BY <1>1, <1>3 DEF Called, CalledFor
<1>6. i \in 1 .. Len(inputs[c]) /\ inputs[c][i] = q /\ results[c][i] = Nothing
  BY <1>5 DEF InputWaits
<1>7. inputs[c] # <<>>
  BY <1>6
<1>8. /\ Holds(created, opened, state', detail', subscribers', queue', next, publishing, {e},
               inputs', results', remaining', looping, registered, ran, told)
      /\ SameOutcome(state, detail, state', detail')
      /\ Prolongs(queue, queue')
  <2>1. CASE s = "fulfilled"
    <3>1. ResolveAll(c, i, v)
      BY <1>1, <2>1
    <3>2. IsValueOf(state, detail, inputs[c][i], v)
      BY <1>5, <1>6, <2>1 DEF IsValueOf
    <3> HIDE DEF q, s, c, v, i
    <3> QED
      BY <1>5, <1>6, <1>7, <3>1, <3>2, ResolvingAll
  <2>2. CASE s # "fulfilled"
    <3>0. Settle(c, "rejected", v) /\ subscribers' = subscribers /\ "rejected" \in Settled
          /\ UNCHANGED <<inputs, results, remaining>>
      BY <1>1, <2>2 DEF Settled
    <3>1. SettlesTo(state, detail, queue, c, "rejected", v, state', detail', queue')
      BY <3>0, Effects
    <3>2. MaySettle(state, detail, inputs, results, told, c, "rejected", v)
      BY <1>5, <1>6, <1>7, <2>2 DEF MaySettle, OneIsRejected, Settled
    <3> HIDE DEF q, s, c, v, i
    <3>3. Prolongs(queue, queue')
      BY <1>5, <3>1, Prolonging
    <3>4. /\ Holds(created, opened, state', detail', subscribers, queue', next, publishing, {e},
                   inputs, results, remaining, looping, registered, ran, told)
          /\ SameOutcome(state, detail, state', detail')
      BY <1>5, <1>7, <3>0, <3>1, <3>2, Settling
    <3> QED
      BY <3>0, <3>3, <3>4
  <2> QED
    BY <2>1, <2>2
<1>9. IInv'
  BY <1>1, <1>4, <1>5, <1>8, Returned
<1> QED
  BY <1>1, <1>8, <1>9, Idle

-----------------------------------------------------------------------------
(* The end of a callback.                                                  *)
LEMMA Callee ==
  ASSUME IInv, NEW e \in calling
  PROVE  /\ Holds(created, opened, state, detail, subscribers, queue, next, publishing, {e},
                  inputs, results, remaining, looping, registered, ran, told)
         /\ next \in 1 .. Len(queue)
         /\ e.child \in 1 .. created /\ inputs[e.child] = <<>>
PROOF
<1>1. /\ CallingHolds(subscribers, queue, next, publishing, calling)
      /\ e.child \in 1 .. created /\ (e.type # "all" => inputs[e.child] = <<>>)
      /\ e.type = "then"
  BY DEF IInv, Now, Holds, Flushing, KindsHold
<1>2. calling = {e} /\ next \in 1 .. Len(queue)
  BY <1>1 DEF CallingHolds, IsInvoked
<1> QED
  BY <1>1, <1>2 DEF IInv, Now

LEMMA CallbackSettles ==
  ASSUME IInv, NEW e \in calling, NEW s \in Settled, NEW v \in Values, s = "fulfilled" => v \notin Ids \ {e.child},
         Settle(e.child, s, v), UNCHANGED subscribers, Tell(e.child, s, v), calling' = {}, OneInvoked,
         UNCHANGED <<created, opened, inputs, results, remaining, looping, calls, registered, ran>>
  PROVE  IInv' /\ Implements
PROOF
<1> DEFINE c == e.child
           t == [as |-> s, value |-> v]
<1>1. /\ Holds(created, opened, state, detail, subscribers, queue, next, publishing, {e},
               inputs, results, remaining, looping, registered, ran, told)
      /\ next \in 1 .. Len(queue) /\ c \in 1 .. created /\ inputs[c] = <<>>
  BY Callee
<1>2. SettlesTo(state, detail, queue, c, s, v, state', detail', queue')
  BY Effects
<1>3. TellsTo(state, told, c, t, told') /\ t \in Told /\ t.as = s /\ t.value = v
  BY Effects, Notes
<1>4. s = "fulfilled" => v \notin Ids \ {c}
  OBVIOUS
<1>5. c \in Ids
  BY <1>1, Bounds DEF IInv
<1>6. UNCHANGED subscribers
  OBVIOUS
<1> HIDE DEF c, t
<1>7. Prolongs(queue, queue')
  BY <1>1, <1>2, <1>5, Prolonging
<1>8. /\ Holds(created, opened, state', detail', subscribers, queue', next, publishing, {e},
               inputs, results, remaining, looping, registered, ran, told')
      /\ SameOutcome(state, detail, state', detail')
  <2>1. Holds(created, opened, state', detail', subscribers, queue', next, publishing, {e},
               inputs, results, remaining, looping, registered, ran, told')
    BY <1>1, <1>2, <1>3, <1>4, ToldAndSettled
  <2>2. SameOutcome(state, detail, state', detail')
    BY <1>1, <1>2, <1>3, <1>4, ToldAndSettled
  <2> QED
    BY <2>1, <2>2
<1>9. IInv'
  BY <1>1, <1>7, <1>8, Returned
<1> QED
  BY <1>8, <1>9, Idle

LEMMA CallbackReturnsStep ==
  ASSUME IInv, NEW e \in calling, NEW v \in Known, CallbackReturns(e, v)
  PROVE  IInv' /\ Implements
PROOF
<1> DEFINE c == e.child
<1>0. v \in Values /\ Error \in Values /\ "rejected" \in Settled
  BY Bounds, PlainAssumption DEF IInv, Values, Settled
<1>1. /\ calling' = {} /\ OneInvoked
      /\ UNCHANGED <<created, opened, inputs, results, remaining, looping, calls, registered, ran>>
  BY DEF CallbackReturns, alls
<1>2. CASE v = c
  <2>1. Settle(c, "rejected", Error) /\ UNCHANGED subscribers /\ Tell(c, "rejected", Error)
    BY <1>2 DEF CallbackReturns, Reject
  <2>2. "rejected" = "fulfilled" => Error \notin Ids \ {c}
    OBVIOUS
  <2> QED
    BY <1>0, <1>1, <2>1, <2>2, CallbackSettles
<1>3. CASE v # c
  <2> DEFINE s == IF v \in Ids \ {c} THEN "follow" ELSE "fulfilled"
             t == [as |-> s, value |-> v]
  <2>0. Resolve(c, v) /\ Tell(c, s, v)
    BY <1>3 DEF CallbackReturns, TellValue
  <2>1. /\ Holds(created, opened, state, detail, subscribers, queue, next, publishing, {e},
                 inputs, results, remaining, looping, registered, ran, told)
        /\ next \in 1 .. Len(queue) /\ c \in 1 .. created /\ inputs[c] = <<>>
    BY Callee
  <2>2. ResolvesTo(state, detail, subscribers, queue, c, v, state', detail', subscribers', queue')
    BY <2>0, Effects
  <2>3. TellsTo(state, told, c, t, told') /\ t \in Told /\ t.value = v
        /\ t.as = IF v \in Ids \ {c} THEN "follow" ELSE "fulfilled"
    BY <1>0, <2>0, Effects, Notes DEF Settled
  <2>5. c \in Ids
    BY <2>1, Bounds DEF IInv
  <2> HIDE DEF c, t, s
  <2>7. Prolongs(queue, queue')
    BY <2>1, <2>2, <2>5, Prolonging
  <2>8. /\ Holds(created, opened, state', detail', subscribers', queue', next, publishing, {e},
                 inputs, results, remaining, looping, registered, ran, told')
        /\ SameOutcome(state, detail, state', detail')
    BY <1>0, <2>1, <2>2, <2>3, ToldAndResolved
  <2>9. IInv'
    BY <1>1, <2>1, <2>7, <2>8, Returned
  <2> QED
    BY <1>1, <2>8, <2>9, Idle
<1> QED
  BY <1>2, <1>3

LEMMA CallbackThrowsStep ==
  ASSUME IInv, NEW e \in calling, NEW v \in Plain, CallbackThrows(e, v)
  PROVE  IInv' /\ Implements
PROOF
<1>1. /\ Settle(e.child, "rejected", v) /\ UNCHANGED subscribers /\ Tell(e.child, "rejected", v)
      /\ calling' = {} /\ OneInvoked
      /\ UNCHANGED <<created, opened, inputs, results, remaining, looping, calls, registered, ran>>
      /\ v \in Values /\ "rejected" \in Settled /\ "rejected" # "fulfilled"
  BY DEF CallbackThrows, Reject, alls, Values, Settled
<1> QED
  BY <1>1, CallbackSettles

(* The invariant holds initially.                                          *)
LEMMA Initially == Init => IInv /\ Contract!Init
PROOF
<1> SUFFICES ASSUME Init PROVE IInv /\ Contract!Init
  OBVIOUS
<1>1. /\ created = 0 /\ opened = {} /\ looping = 0 /\ queue = <<>> /\ next = 0 /\ publishing = 0
      /\ calling = {} /\ calls = 0
      /\ state = [p \in Ids |-> "pending"] /\ detail = [p \in Ids |-> Nothing]
      /\ subscribers = [p \in Ids |-> <<>>] /\ inputs = [p \in Ids |-> <<>>]
      /\ results = [p \in Ids |-> [i \in 1 .. MaxInputs |-> Nothing]] /\ remaining = [p \in Ids |-> 0]
      /\ registered = [p \in Ids |-> <<>>] /\ ran = [p \in Ids |-> <<>>] /\ told = [p \in Ids |-> <<>>]
  BY DEF Init
<1>2. \A p \in Ids : /\ state[p] = "pending" /\ detail[p] = Nothing /\ Len(subscribers[p]) = 0 /\ subscribers[p] = <<>>
                     /\ Len(inputs[p]) = 0 /\ inputs[p] = <<>> /\ remaining[p] = 0
                     /\ Len(registered[p]) = 0 /\ Len(ran[p]) = 0 /\ Len(told[p]) = 0 /\ told[p] = <<>>
                     /\ \A i \in 1 .. MaxInputs : results[p][i] = Nothing
  BY <1>1
<1>3. Len(queue) = 0 /\ 1 .. 0 = {}
  BY <1>1
<1>4. Fit(state, detail, subscribers, queue, next, publishing, calling)
  BY <1>1, <1>3 DEF Fit, States
<1>5. Waiting(subscribers, queue, next, publishing, calling) = {}
  <2>1. \A p \in Ids, i \in Nat : ~ SubscriberWaits(subscribers, queue, next, publishing, calling, p, i)
    BY <1>2, <1>3 DEF SubscriberWaits
  <2>2. \A p \in Ids, j \in Nat : ~ JobWaits(queue, next, calling, p, j)
    BY <1>3 DEF JobWaits
  <2> QED
    BY <2>1, <2>2 DEF Waiting, Waits
<1>6. Decided(state, queue) = {}
  BY <1>2, <1>3 DEF Decided, IsDecided, Settled
<1>7. Flushing(state, detail, subscribers, queue, next, publishing, calling)
  <2>1. JobsHold(state, queue) /\ PublishedOnce(queue) /\ SealedUntilPublished(state, queue, next, publishing)
    BY <1>3 DEF JobsHold, PublishedOnce, SealedUntilPublished
  <2>2. PublishingHolds(state, subscribers, queue, next, publishing) /\ NobodyLeft(state, subscribers, queue, next, publishing)
    BY <1>1, <1>2 DEF PublishingHolds, NobodyLeft
  <2>3. CallingHolds(subscribers, queue, next, publishing, calling)
    BY <1>1 DEF CallingHolds
  <2>4. InTurn(subscribers, queue, next, publishing, calling)
    <3>1. \A p \in Ids, i \in Nat : ~ SubscriberWaits(subscribers, queue, next, publishing, calling, p, i)
      BY <1>2, <1>3 DEF SubscriberWaits
    <3>2. \A p \in Ids, j \in Nat : ~ JobWaits(queue, next, calling, p, j)
      BY <1>3 DEF JobWaits
    <3> QED
      BY <3>1, <3>2 DEF InTurn
  <2> QED
    BY <1>4, <2>1, <2>2, <2>3, <2>4 DEF Flushing
<1>8. OrderHolds(created, {}, registered, ran)
  BY <1>1, <1>2, <1>3 DEF OrderHolds
<1>9. ToldHolds(state, detail, {}, {}, inputs, told)
  BY <1>1, <1>2, <1>3 DEF ToldHolds, States
<1>10. AllHolds(created, state, detail, {}, {}, inputs, results, remaining, looping)
  <2>1. \A a \in Ids : Missing(inputs, results, a) = {}
    BY <1>2, <1>3 DEF Missing
  <2>2. \A a \in Ids : remaining[a] = Cardinality(Missing(inputs, results, a))
    BY <1>2, <2>1, FS_EmptySet
  <2>3. inputs \in [Ids -> Seq(Values)] /\ remaining \in [Ids -> Int] /\ looping \in Nat
        /\ results \in [Ids -> [1 .. MaxInputs -> Values \cup {Nothing}]] /\ state \in [Ids -> States]
    BY <1>1 DEF States
  <2>4. \A a \in Ids : Len(inputs[a]) <= MaxInputs
    BY <1>2, BoundAssumption
  <2>5. \A a \in Ids : \A i \in 1 .. Len(inputs[a]) : results[a][i] # Nothing => ResultIsRight(state, detail, inputs, results, a, i)
    BY <1>2, <1>3
  <2> QED
    BY <1>1, <1>2, <2>2, <2>3, <2>4, <2>5 DEF AllHolds
<1>11. KindsHold(created, opened, state, {}, calling, inputs, told)
  BY <1>1, <1>2, BoundAssumption DEF KindsHold
<1>12. Now
  BY <1>5, <1>6, <1>7, <1>8, <1>9, <1>10, <1>11 DEF Now, Holds
<1>13. Contract!Init
  BY <1>1, <1>2 DEF Contract!Init, Contract!Pending, Settled
<1> QED
  BY <1>1, <1>12, <1>13, BoundAssumption DEF IInv

(* Every step preserves the invariant, and is a step of Settlement or      *)
(* none.                                                                   *)
LEMMA Step == IInv /\ [Next]_vars => IInv' /\ Implements
PROOF
<1> SUFFICES ASSUME IInv, [Next]_vars PROVE IInv' /\ Implements
  OBVIOUS
<1>1. CASE Open
  BY <1>1, OpenStep
<1>2. ASSUME NEW p \in opened, NEW v \in Known, CallResolve(p, v) \/ CallReject(p, v) PROVE IInv' /\ Implements
  BY <1>2, CallResolveStep, CallRejectStep
<1>3. ASSUME NEW p \in 1 .. created, NEW h \in Callbacks, Then(p, h) PROVE IInv' /\ Implements
  BY <1>3, ThenStep
<1>4. ASSUME NEW n \in 0 .. MaxInputs, NEW qs \in [1 .. n -> Known], AllBegins(qs) PROVE IInv' /\ Implements
  BY <1>4, AllBeginsStep
<1>5. CASE AllInput
  BY <1>5, AllInputStep
<1>6. CASE FlushBegins
  BY <1>6, FlushBeginsStep
<1>7. CASE FlushEnds
  BY <1>7, FlushEndsStep
<1>8. CASE PublishBegins
  BY <1>8, PublishBeginsStep
<1>9. CASE PublishEnds
  BY <1>9, PublishEndsStep
<1>10. ASSUME NEW e \in Invoked, CallbackBegins(e) \/ PassOn(e) \/ Adopt(e) \/ OneOfAll(e) PROVE IInv' /\ Implements
  BY <1>10, CallbackBeginsStep, PassOnStep, AdoptStep, OneOfAllStep
<1>11. ASSUME NEW e \in calling, NEW v \in Known, CallbackReturns(e, v) \/ (v \in Plain /\ CallbackThrows(e, v))
       PROVE IInv' /\ Implements
  BY <1>11, CallbackReturnsStep, CallbackThrowsStep
<1>12. CASE UNCHANGED vars
  <2>1. UNCHANGED <<created, opened, state, detail, subscribers, inputs, results, remaining, looping, queue, next,
                    publishing, calling, calls, registered, ran, told>>
    BY <1>12 DEF vars, settlement, alls, flushing, history
  <2>2. Now'
    BY <2>1 DEF IInv, Now
  <2> QED
    BY <2>1, <2>2, Idle DEF IInv
<1> QED
  BY <1>1, <1>2, <1>3, <1>4, <1>5, <1>6, <1>7, <1>8, <1>9, <1>10, <1>11, <1>12
  DEF Next, Application, FlushStep, CallbackEnds

LEMMA Invariant == Spec => []IInv
PROOF
<1>1. Init => IInv
  BY Initially
<1>2. IInv /\ [Next]_vars => IInv'
  BY Step
<1> QED
  BY <1>1, <1>2, PTL DEF Spec

-----------------------------------------------------------------------------
(* Type correctness: among others, the counter of all never drops below    *)
(* zero, and all stores no result outside its array.                       *)
THEOREM TypeCorrect == Spec => []TypeOK
PROOF
<1>1. IInv => TypeOK
  <2> SUFFICES ASSUME IInv PROVE TypeOK
    OBVIOUS
  <2>1. /\ Fit(state, detail, subscribers, queue, next, publishing, calling)
        /\ KindsHold(created, opened, state, Waiting(subscribers, queue, next, publishing, calling), calling, inputs, told)
        /\ registered \in [Ids -> Seq(Ids)] /\ ran \in [Ids -> Seq(Ids)]
        /\ told \in [Ids -> Seq(Told)]
        /\ inputs \in [Ids -> Seq(Values)] /\ remaining \in [Ids -> Int]
        /\ results \in [Ids -> [1 .. MaxInputs -> Values \cup {Nothing}]]
        /\ \A a \in Ids : remaining[a] = Cardinality(Missing(inputs, results, a))
    BY DEF IInv, Now, Holds, Flushing, OrderHolds, ToldHolds, AllHolds
  <2>2. \A a \in Ids : remaining[a] \in Nat
    <3> SUFFICES ASSUME NEW a \in Ids PROVE Cardinality(Missing(inputs, results, a)) \in Nat
      BY <2>1
    <3>1. Len(inputs[a]) \in Nat
      BY <2>1, LenProperties
    <3>2. IsFiniteSet(1 .. Len(inputs[a]))
      BY <3>1, UpTo
    <3>3. Missing(inputs, results, a) \in SUBSET (1 .. Len(inputs[a]))
      BY DEF Missing
    <3>4. IsFiniteSet(Missing(inputs, results, a))
      BY <3>2, <3>3, FS_Subset
    <3> QED
      BY <3>4, FS_CardinalityType
  <2>3. remaining \in [Ids -> Nat]
    BY <2>1, <2>2
  <2>4. created \in 0 .. MaxPromises /\ opened \subseteq 1 .. created
    BY <2>1 DEF KindsHold
  <2>5. looping \in 0 .. MaxInputs /\ calls \in 0 .. MaxCalls
    BY DEF IInv
  <2> QED
    BY <2>1, <2>3, <2>4, <2>5 DEF TypeOK, Fit, States, Told
<1> QED
  BY <1>1, Invariant, PTL

LEMMA SettledIsDecided ==
  ASSUME NEW p \in Ids, NEW s \in Settled, state[p] = s
  PROVE  <<p, s>> \in Decided(state, queue)
BY DEF Decided, IsDecided

(* A promise that is settled, and was not made by all, is settled as one of *)
(* the calls said that reached it while it was pending: it has the state and *)
(* value it was called with, or those of the promise it was told to follow. *)
THEOREM SettledAsTold == Spec => []ToldSo
PROOF
<1>1. IInv => ToldSo
  <2> SUFFICES ASSUME IInv, NEW p \in Ids, state[p] \in Settled, inputs[p] = <<>>, told[p] # <<>>
               PROVE  \E i \in DOMAIN told[p] :
                        LET t == told[p][i]
                        IN IF t.as = "follow" THEN state[t.value] = state[p] /\ detail[t.value] = detail[p]
                           ELSE t.as = state[p] /\ t.value = detail[p]
    BY DEF ToldSo
  <2>1. ToldHolds(state, detail, Waiting(subscribers, queue, next, publishing, calling), Decided(state, queue), inputs, told)
    BY DEF IInv, Now, Holds
  <2>2. <<p, state[p]>> \in Decided(state, queue)
    BY SettledIsDecided
  <2>3. AgreesOn(state, detail, told, p, state[p], detail[p])
    BY <2>1, <2>2 DEF ToldHolds
  <2>4. told[p] \in Seq(Told)
    BY <2>1 DEF ToldHolds
  <2>5. DOMAIN told[p] = 1 .. Len(told[p])
    BY <2>4
  <2> QED
    BY <2>3, <2>5 DEF AgreesOn
<1> QED
  BY <1>1, Invariant, PTL

(* A promise of all is fulfilled only when everything it waits for has been, *)
(* with the values in their places; it is rejected only with the reason of one *)
(* of those it waits for.                                                  *)
THEOREM AllHasItsInputs == Spec => []AllAgrees
PROOF
<1>1. IInv => AllAgrees
  <2> SUFFICES ASSUME IInv, NEW a \in Ids, inputs[a] # <<>>
               PROVE  /\ state[a] = "fulfilled" => \A i \in DOMAIN inputs[a] :
                           LET q == inputs[a][i]
                           IN IF q \in Ids THEN state[q] = "fulfilled" /\ results[a][i] = detail[q] ELSE results[a][i] = q
                      /\ state[a] = "rejected" => \E i \in DOMAIN inputs[a] :
                           LET q == inputs[a][i] IN q \in Ids /\ state[q] = "rejected" /\ detail[a] = detail[q]
    BY DEF AllAgrees
  <2> DEFINE D == Decided(state, queue)
  <2>1. AllHolds(created, state, detail, Waiting(subscribers, queue, next, publishing, calling), D, inputs, results, remaining, looping)
    BY DEF IInv, Now, Holds
  <2>2. state[a] = "fulfilled" => <<a, "fulfilled">> \in D
    BY SettledIsDecided DEF Settled
  <2>3. state[a] = "rejected" => <<a, "rejected">> \in D
    BY SettledIsDecided DEF Settled
  <2> HIDE DEF D
  <2>4. inputs[a] \in Seq(Values)
    BY <2>1 DEF AllHolds
  <2>5. DOMAIN inputs[a] = 1 .. Len(inputs[a])
    BY <2>4
  <2>6. state[a] = "fulfilled" => \A i \in 1 .. Len(inputs[a]) : ResultIsRight(state, detail, inputs, results, a, i)
    BY <2>1, <2>2 DEF AllHolds, IsComplete, Missing
  <2>7. state[a] = "rejected" => OneIsRejected(state, detail, inputs, a, detail[a])
    BY <2>1, <2>3 DEF AllHolds
  <2>8. state[a] = "rejected" => \E i \in 1 .. Len(inputs[a]) :
          inputs[a][i] \in Ids /\ state[inputs[a][i]] = "rejected" /\ detail[a] = detail[inputs[a][i]]
    BY <2>7 DEF OneIsRejected
  <2>9. state[a] = "fulfilled" => \A i \in 1 .. Len(inputs[a]) :
          IF inputs[a][i] \in Ids THEN state[inputs[a][i]] = "fulfilled" /\ results[a][i] = detail[inputs[a][i]]
          ELSE results[a][i] = inputs[a][i]
    BY <2>6 DEF ResultIsRight
  <2> QED
    BY <2>5, <2>8, <2>9
<1> QED
  BY <1>1, Invariant, PTL

(* Promises implement Settlement: a promise is settled once and for ever, only *)
(* then reactions run, each once, in the order in which then registered them, *)
(* whether before the promise was settled or between, during or after its  *)
(* publishing.  (That each runs in the end is left to the runs.)           *)
THEOREM PromisesKeepTheContract == Spec => Contract!Spec
PROOF
<1>1. Init => Contract!Init
  BY Initially
<1>2. IInv /\ [Next]_vars => [Contract!Next]_(Contract!vars)
  BY Step DEF Implements
<1> QED
  BY <1>1, <1>2, Invariant, PTL DEF Spec, Contract!Spec
=============================================================================
