------------------------- MODULE HttpServicesProofs -------------------------
(***************************************************************************)
(* Proofs about event subscriptions and deliveries, and about the VNC      *)
(* proxy, for every number of connections, destinations, attempts and      *)
(* viewers.                                                                *)
(***************************************************************************)
EXTENDS HttpServices, WellFoundedInduction, TLAPS

USE EventAssumption DEF SubIds, PayloadIds, Keys, CallerAt, DeliveryAt

-----------------------------------------------------------------------------
(* The list of subscriptions that an event still has to go to              *)

\* A set of numbers that is not empty has a least one.
LEMMA LeastNumber ==
    ASSUME NEW T \in SUBSET Nat, T # {}
    PROVE  \E n \in T : \A m \in T : n <= m
<1>1. \E n \in T : \A m \in T : ~(<<m, n>> \in OpToRel(<, Nat))
    BY NatLessThanWellFounded, WFMin
<1>2. ASSUME NEW n \in T, NEW m \in T, m < n
      PROVE  <<m, n>> \in OpToRel(<, Nat)
    BY <1>2 DEF OpToRel
<1>3. \A n, m \in T : ~(m < n) => n <= m
    OBVIOUS
<1> QED
    BY <1>1, <1>2, <1>3

\* The one whose turn it is is on the list.
LEMMA NextIsListed ==
    ASSUME EventTypeOK, NEW c \in Subscribers, caller[c].todo # {}
    PROVE  NextTodo(c) \in caller[c].todo
<1> DEFINE T == {t.id : t \in caller[c].todo}
<1>1. caller[c].todo \in SUBSET [id: 1..MaxSubs, sub: Subscription]
    BY DEF EventTypeOK, Call
<1>2. T \in SUBSET Nat /\ T # {}
    BY <1>1
<1>3. \E n \in T : \A m \in T : n <= m
    BY <1>2, LeastNumber
<1>4. \E t \in caller[c].todo : \A u \in caller[c].todo : t.id <= u.id
    BY <1>3
<1> QED
    BY <1>4 DEF NextTodo

-----------------------------------------------------------------------------
(* A request's fields, whatever their types                                *)

LEMMA CallFields ==
    ASSUME NEW A, NEW B, NEW C, NEW D, NEW E,
           NEW r \in [pc: A, want: B, payload: C, todo: D, due: E]
    PROVE  r.pc \in A /\ r.want \in B /\ r.payload \in C /\ r.todo \in D /\ r.due \in E
    OBVIOUS

\* One field of the five changes.
LEMMA DueChanges ==
    ASSUME NEW A, NEW B, NEW C, NEW D, NEW E,
           NEW r \in [pc: A, want: B, payload: C, todo: D, due: E], NEW e \in E,
           NEW s, s = [r EXCEPT !.due = e]
    PROVE  /\ s \in [pc: A, want: B, payload: C, todo: D, due: E]
           /\ s.pc = r.pc /\ s.want = r.want /\ s.payload = r.payload /\ s.todo = r.todo
           /\ s.due = e
    OBVIOUS

LEMMA TodoChanges ==
    ASSUME NEW A, NEW B, NEW C, NEW D, NEW E,
           NEW r \in [pc: A, want: B, payload: C, todo: D, due: E], NEW d \in D,
           NEW s, s = [r EXCEPT !.todo = d]
    PROVE  /\ s \in [pc: A, want: B, payload: C, todo: D, due: E]
           /\ s.pc = r.pc /\ s.want = r.want /\ s.payload = r.payload /\ s.due = r.due
           /\ s.todo = d
    OBVIOUS

\* The place changes together with what the request holds.
LEMMA WantChanges ==
    ASSUME NEW A, NEW B, NEW C, NEW D, NEW E,
           NEW r \in [pc: A, want: B, payload: C, todo: D, due: E], NEW a \in A, NEW b \in B
    PROVE  [r EXCEPT !.pc = a, !.want = b] \in [pc: A, want: B, payload: C, todo: D, due: E]
    OBVIOUS

LEMMA ListChanges ==
    ASSUME NEW A, NEW B, NEW C, NEW D, NEW E,
           NEW r \in [pc: A, want: B, payload: C, todo: D, due: E], NEW a \in A, NEW d \in D,
           NEW s, s = [r EXCEPT !.pc = a, !.todo = d]
    PROVE  /\ s \in [pc: A, want: B, payload: C, todo: D, due: E]
           /\ s.want = r.want /\ s.payload = r.payload /\ s.due = r.due
           /\ s.pc = a /\ s.todo = d
    OBVIOUS

LEMMA NumberChanges ==
    ASSUME NEW A, NEW B, NEW C, NEW D, NEW E,
           NEW r \in [pc: A, want: B, payload: C, todo: D, due: E],
           NEW a \in A, NEW n \in C, NEW e \in E,
           NEW s, s = [r EXCEPT !.pc = a, !.payload = n, !.due = e]
    PROVE  /\ s \in [pc: A, want: B, payload: C, todo: D, due: E]
           /\ s.want = r.want /\ s.todo = r.todo
           /\ s.pc = a /\ s.payload = n /\ s.due = e
    OBVIOUS

-----------------------------------------------------------------------------
(* Each action keeps the invariant                                         *)

\* What c holds does not depend on the requests of others.
LEMMA OtherCalls ==
    ASSUME EventInv, NEW c \in Subscribers, caller'[c] = caller[c],
           UNCHANGED <<subs, nextSub, delivery>>, nextEvent' \in Nat, nextEvent' >= nextEvent
    PROVE  CallOK(c)'
    BY DEF EventInv, EventTypeOK, CallOK, EventSubs, Ids

\* What a delivery holds does not depend on requests.
LEMMA OtherDeliveries ==
    ASSUME EventInv, UNCHANGED <<subs, nextSub, delivery>>
    PROVE  \A k \in Keys : DeliveryOK(k)'
    BY DEF EventInv, DeliveryOK, Ids

LEMMA InitialEvents == EventInit => EventInv
<1> SUFFICES ASSUME EventInit PROVE EventInv
    OBVIOUS
<1>1. NoCall \in Call
    BY DEF NoCall, Call
<1>2. NoDelivery \in Delivery
    BY Zenon DEF NoDelivery, Delivery
<1>3. EventTypeOK
    BY <1>1, <1>2 DEF EventInit, EventTypeOK, Ids
<1>4. NoDuplicateSubscription /\ PayloadsDistinct
    BY DEF EventInit, NoDuplicateSubscription, PayloadsDistinct, Ids, NoCall
<1>5. \A c \in Subscribers : CallOK(c)
    BY DEF EventInit, CallOK, NoCall
<1>6. \A k \in Keys : DeliveryOK(k)
    BY DEF EventInit, DeliveryOK, NoDelivery
<1> QED
    BY <1>3, <1>4, <1>5, <1>6 DEF EventInv

LEMMA SubscribeKeeps ==
    ASSUME EventInv, NEW c \in Subscribers, Subscribe(c)
    PROVE  EventInv'
<1>1. PICK w \in Subscription :
          caller' = [caller EXCEPT ![c].pc = "create", ![c].want = w]
    BY DEF Subscribe, Subscription
<1>2. EventTypeOK'
  <2>1. [caller[c] EXCEPT !.pc = "create", !.want = w] \in Call
    <3>1. caller[c] \in Call /\ w \in {<<>>} \cup Subscription
        BY DEF EventInv, EventTypeOK
    <3>2. "create" \in {"idle", "create", "list", "send"}
        OBVIOUS
    <3> QED
        BY <3>1, <3>2, WantChanges, Zenon DEF Call
  <2> QED
      BY <1>1, <2>1 DEF EventInv, EventTypeOK, Subscribe, Ids
<1>3. NoDuplicateSubscription' /\ PayloadsDistinct'
    BY <1>1 DEF EventInv, EventTypeOK, Subscribe, NoDuplicateSubscription, PayloadsDistinct, Ids
<1>4. CallOK(c)'
    BY <1>1 DEF EventInv, EventTypeOK, Subscribe, CallOK, Call, Ids
<1>5. \A d \in Subscribers \ {c} : CallOK(d)'
    BY <1>1, OtherCalls DEF EventInv, EventTypeOK, Subscribe
<1>6. \A k \in Keys : DeliveryOK(k)'
    BY OtherDeliveries DEF Subscribe
<1> QED
    BY <1>2, <1>3, <1>4, <1>5, <1>6 DEF EventInv

LEMMA CreateKeeps ==
    ASSUME EventInv, NEW c \in Subscribers, Create(c)
    PROVE  EventInv'
<1> DEFINE w == caller[c].want
<1>1. w \in Subscription
    BY DEF EventInv, CallOK, Create
<1>2. caller' = [caller EXCEPT ![c] = NoCall] /\ NoCall \in Call
    BY DEF Create, Answered, NoCall, Call
<1>3. CASE Duplicate(w)
  <2>1. UNCHANGED <<subs, nextSub, nextEvent, delivery>>
      BY <1>3 DEF Create
  <2>2. EventTypeOK'
      BY <1>2, <2>1 DEF EventInv, EventTypeOK, Ids
  <2>3. NoDuplicateSubscription' /\ PayloadsDistinct'
      BY <1>2, <2>1 DEF EventInv, EventTypeOK, NoDuplicateSubscription, PayloadsDistinct, Ids, NoCall
  <2>4. CallOK(c)'
      BY <1>2, <2>1 DEF EventInv, EventTypeOK, CallOK, NoCall
  <2>5. \A d \in Subscribers \ {c} : CallOK(d)'
      BY <1>2, <2>1, OtherCalls DEF EventInv, EventTypeOK
  <2> QED
      BY <2>1, <2>2, <2>3, <2>4, <2>5, OtherDeliveries DEF EventInv
<1>4. CASE ~Duplicate(w)
  <2>1. /\ nextSub < MaxSubs /\ nextSub' = nextSub + 1
        /\ subs' = [i \in Ids \cup {nextSub'} |-> IF i = nextSub' THEN w ELSE subs[i]]
        /\ UNCHANGED <<nextEvent, delivery>>
      BY <1>4 DEF Create
  <2>2. /\ nextSub' \notin Ids /\ Ids' = Ids \cup {nextSub'}
        /\ subs'[nextSub'] = w
        /\ \A i \in Ids : subs'[i] = subs[i]
      BY <2>1 DEF EventInv, EventTypeOK, Ids
  <2>3. EventTypeOK'
      BY <1>1, <1>2, <2>1, <2>2 DEF EventInv, EventTypeOK
  <2>4. NoDuplicateSubscription'
      BY <1>4, <2>2 DEF EventInv, NoDuplicateSubscription, Duplicate
  <2>5. PayloadsDistinct'
      BY <1>2 DEF EventInv, EventTypeOK, PayloadsDistinct, NoCall
  <2>6. ASSUME NEW d \in Subscribers
        PROVE  CallOK(d)'
    <3>1. CASE d = c
        BY <1>2, <3>1 DEF EventInv, EventTypeOK, CallOK, NoCall
    <3>2. CASE d # c
      <4>1. caller'[d] = caller[d] /\ CallOK(d)
          BY <1>2, <3>2 DEF EventInv, EventTypeOK
      <4>2. EventSubs \subseteq EventSubs'
          BY <2>2 DEF EventSubs
      <4>3. \A t \in caller[d].todo : t.id \in Ids' => t.id \in Ids
          BY <4>1, <2>1, <2>2 DEF CallOK, EventInv, EventTypeOK, Call
      <4>4. \A t \in caller[d].todo : t.id <= nextSub'
          BY <4>1, <2>1 DEF CallOK, EventInv, EventTypeOK, Call
      <4> QED
          BY <4>1, <4>2, <4>3, <4>4, <2>1, <2>2 DEF CallOK
    <3> QED
        BY <3>1, <3>2
  <2>7. ASSUME NEW k \in Keys
        PROVE  DeliveryOK(k)'
    <3>1. k[2] \in Nat
        OBVIOUS
    <3> QED
        BY <3>1, <2>1, <2>2 DEF EventInv, EventTypeOK, DeliveryOK
  <2> QED
      BY <2>3, <2>4, <2>5, <2>6, <2>7 DEF EventInv
<1> QED
    BY <1>3, <1>4

LEMMA UnsubscribeKeeps ==
    ASSUME EventInv, NEW c \in Subscribers, Unsubscribe(c)
    PROVE  EventInv'
<1>1. PICK i \in Ids : /\ subs' = [j \in Ids \ {i} |-> subs[j]]
                       /\ NoLongerDue(i)
    BY DEF Unsubscribe
<1>2. UNCHANGED <<nextSub, nextEvent, delivery>>
    BY DEF Unsubscribe
<1>3. Ids' = Ids \ {i} /\ \A j \in Ids' : subs'[j] = subs[j]
    BY <1>1 DEF Ids
<1>4. \A d \in Subscribers :
          /\ caller'[d] = [caller[d] EXCEPT !.due = @ \ {i}]
          /\ caller[d] \in Call
    BY <1>1 DEF EventInv, EventTypeOK, NoLongerDue
<1>5. \A d \in Subscribers :
          /\ caller'[d] \in Call
          /\ caller'[d].pc = caller[d].pc /\ caller'[d].want = caller[d].want
          /\ caller'[d].payload = caller[d].payload /\ caller'[d].todo = caller[d].todo
          /\ caller'[d].due = caller[d].due \ {i}
  <2> TAKE d \in Subscribers
  <2>1. caller[d] \in Call
      BY <1>4
  <2>2. caller[d].due \in SUBSET (1..MaxSubs)
      BY <2>1, CallFields, Zenon DEF Call
  <2>3. caller[d].due \ {i} \in SUBSET (1..MaxSubs)
      BY <2>2
  <2>4. caller'[d] = [caller[d] EXCEPT !.due = caller[d].due \ {i}]
      BY <1>4
  <2> QED
      BY <2>1, <2>3, <2>4, DueChanges, Zenon DEF Call
<1>6. EventTypeOK'
  <2>1. caller' \in [Subscribers -> Call]
      BY <1>1, <1>5 DEF NoLongerDue
  <2> QED
      BY <2>1, <1>2, <1>3 DEF EventInv, EventTypeOK
<1>7. NoDuplicateSubscription'
    BY <1>3 DEF EventInv, NoDuplicateSubscription
<1>8. PayloadsDistinct'
    BY <1>5 DEF EventInv, PayloadsDistinct
<1>9. ASSUME NEW d \in Subscribers
      PROVE  CallOK(d)'
  <2>1. CallOK(d)
      BY DEF EventInv
  <2>2. EventSubs' = EventSubs \ {i}
      BY <1>3 DEF EventSubs
  <2> QED
      BY <1>2, <1>3, <1>5, <2>1, <2>2 DEF CallOK
<1>10. \A k \in Keys : DeliveryOK(k)'
    BY <1>2, <1>3 DEF EventInv, DeliveryOK
<1> QED
    BY <1>6, <1>7, <1>8, <1>9, <1>10 DEF EventInv

LEMMA NumberEventKeeps ==
    ASSUME EventInv, NEW c \in Subscribers, NumberEvent(c)
    PROVE  EventInv'
<1>1. /\ nextEvent' = nextEvent + 1 /\ nextEvent' \in 1..MaxEvents
      /\ UNCHANGED <<subs, nextSub, delivery>>
    BY DEF NumberEvent, EventInv, EventTypeOK
<1>2. caller'[c] = [caller[c] EXCEPT !.pc = "list", !.payload = nextEvent', !.due = EventSubs]
    BY DEF NumberEvent, EventInv, EventTypeOK
<1>3. \A d \in Subscribers \ {c} : caller'[d] = caller[d]
    BY DEF NumberEvent, EventInv, EventTypeOK
<1>4. /\ caller'[c] \in Call
      /\ caller'[c].pc = "list" /\ caller'[c].payload = nextEvent' /\ caller'[c].due = EventSubs
      /\ caller'[c].todo = caller[c].todo
  <2>1. caller[c] \in Call
      BY DEF EventInv, EventTypeOK
  <2>2. "list" \in {"idle", "create", "list", "send"} /\ nextEvent' \in Nat
      BY <1>1
  <2>3. EventSubs \in SUBSET (1..MaxSubs)
    <3>1. \A i \in Ids : i \in 1..MaxSubs
        BY DEF EventInv, EventTypeOK
    <3> QED
        BY <3>1 DEF EventSubs
  <2> QED
      BY <1>2, <2>1, <2>2, <2>3, NumberChanges, Zenon DEF Call
<1>5. EventTypeOK'
    BY <1>1, <1>3, <1>4 DEF EventInv, EventTypeOK, Ids, NumberEvent
<1>6. NoDuplicateSubscription'
    BY <1>1 DEF EventInv, NoDuplicateSubscription, Ids
<1>7. PayloadsDistinct'
  <2>1. \A d \in Subscribers \ {c} :
            caller'[d].pc \in {"list", "send"} => caller'[d].payload # nextEvent'
      BY <1>1, <1>3 DEF EventInv, EventTypeOK, CallOK
  <2> QED
      BY <1>3, <1>4, <2>1 DEF EventInv, PayloadsDistinct
<1>8. CallOK(c)'
    BY <1>1, <1>4 DEF EventInv, CallOK, Ids, EventSubs
<1>9. \A d \in Subscribers \ {c} : CallOK(d)'
    BY <1>1, <1>3, OtherCalls DEF EventInv, EventTypeOK
<1> QED
    BY <1>1, <1>5, <1>6, <1>7, <1>8, <1>9, OtherDeliveries DEF EventInv

LEMMA ListKeeps ==
    ASSUME EventInv, NEW c \in Subscribers, ListSubscriptions(c)
    PROVE  EventInv'
<1> DEFINE all == {[id |-> i, sub |-> subs[i]] : i \in Ids}
<1>1. UNCHANGED <<subs, nextSub, nextEvent, delivery>>
    BY DEF ListSubscriptions
<1>2. caller'[c] = [caller[c] EXCEPT !.pc = "send", !.todo = all]
    BY DEF ListSubscriptions, EventInv, EventTypeOK
<1>3. \A d \in Subscribers \ {c} : caller'[d] = caller[d]
    BY DEF ListSubscriptions, EventInv, EventTypeOK
<1>4. /\ caller'[c] \in Call
      /\ caller'[c].pc = "send" /\ caller'[c].todo = all
      /\ caller'[c].payload = caller[c].payload /\ caller'[c].due = caller[c].due
  <2>1. caller[c] \in Call
      BY DEF EventInv, EventTypeOK
  <2>2. "send" \in {"idle", "create", "list", "send"}
      OBVIOUS
  <2>3. all \in SUBSET [id: 1..MaxSubs, sub: Subscription]
      BY DEF EventInv, EventTypeOK
  <2> HIDE DEF all
  <2> QED
      BY <1>2, <2>1, <2>2, <2>3, ListChanges, Zenon DEF Call
<1>5. EventTypeOK'
    BY <1>1, <1>3, <1>4 DEF EventInv, EventTypeOK, Ids, ListSubscriptions
<1>6. NoDuplicateSubscription'
    BY <1>1 DEF EventInv, NoDuplicateSubscription, Ids
<1>7. PayloadsDistinct'
  <2> HIDE DEF all
  <2>1. caller[c].pc = "list"
      BY DEF ListSubscriptions
  <2>2. \A d \in Subscribers : caller'[d].payload = caller[d].payload
      BY <1>3, <1>4
  <2>3. \A d \in Subscribers : caller'[d].pc \in {"list", "send"}
                                  => caller[d].pc \in {"list", "send"}
      BY <1>3, <2>1
  <2> QED
      BY <2>2, <2>3, Zenon DEF EventInv, PayloadsDistinct
<1>8. CallOK(c)'
  <2>1. CallOK(c) /\ CallerAt(c, "list")
      BY DEF EventInv, ListSubscriptions
  <2>2. \A t \in all : t.id \in Ids /\ t.id <= nextSub /\ t.sub = subs[t.id]
      BY DEF EventInv, EventTypeOK
  <2>3. ASSUME NEW i \in EventSubs
        PROVE  \E t \in all : t.id = i /\ t.sub.format = "Event"
    <3>1. [id |-> i, sub |-> subs[i]] \in all /\ subs[i].format = "Event"
        BY DEF EventSubs
    <3> QED
        BY <3>1
  <2> QED
      BY <1>1, <1>4, <2>1, <2>2, <2>3 DEF CallOK, Ids
<1>9. \A d \in Subscribers \ {c} : CallOK(d)'
    BY <1>1, <1>3, OtherCalls DEF EventInv, EventTypeOK
<1> QED
    BY <1>1, <1>5, <1>6, <1>7, <1>8, <1>9, OtherDeliveries DEF EventInv

LEMMA SubmitEndsKeeps ==
    ASSUME EventInv, NEW c \in Subscribers, SubmitEnds(c)
    PROVE  EventInv'
<1>1. UNCHANGED <<subs, nextSub, nextEvent, delivery>>
    BY DEF SubmitEnds
<1>2. caller' = [caller EXCEPT ![c] = NoCall] /\ NoCall \in Call
    BY DEF SubmitEnds, Answered, NoCall, Call
<1>3. EventTypeOK'
    BY <1>1, <1>2 DEF EventInv, EventTypeOK, Ids
<1>4. NoDuplicateSubscription' /\ PayloadsDistinct'
    BY <1>1, <1>2 DEF EventInv, EventTypeOK, NoDuplicateSubscription, PayloadsDistinct, Ids, NoCall
<1>5. CallOK(c)'
    BY <1>2 DEF EventInv, EventTypeOK, CallOK, NoCall
<1>6. \A d \in Subscribers \ {c} : CallOK(d)'
    BY <1>1, <1>2, OtherCalls DEF EventInv, EventTypeOK
<1> QED
    BY <1>1, <1>3, <1>4, <1>5, <1>6, OtherDeliveries DEF EventInv

LEMMA SendNextKeeps ==
    ASSUME EventInv, NEW c \in Subscribers, SendNext(c)
    PROVE  EventInv'
<1> DEFINE t == NextTodo(c)
           key == <<caller[c].payload, t.id>>
           begun == [NoDelivery EXCEPT !.pc = "post", !.dest = t.sub.dest, !.attempt = 1]
           rest == caller[c].todo \ {t}
<1>1. UNCHANGED <<subs, nextSub, nextEvent>>
    BY DEF SendNext
<1>2. /\ caller[c] \in Call
      /\ caller[c].todo \in SUBSET [id: 1..MaxSubs, sub: Subscription]
  <2>1. caller[c] \in Call
      BY DEF EventInv, EventTypeOK
  <2> QED
      BY <2>1, CallFields, Zenon DEF Call
<1>3. t \in caller[c].todo
    BY NextIsListed DEF EventInv, SendNext
<1>4. /\ t.id \in 1..MaxSubs /\ t.sub.dest \in Destinations /\ t.sub.format \in Formats
      /\ t.sub = [dest |-> t.sub.dest, format |-> t.sub.format]
    BY <1>2, <1>3 DEF Subscription
<1>5. /\ t.id <= nextSub
      /\ t.id \in Ids => subs[t.id] = t.sub
      /\ caller[c].payload \in 1..nextEvent
    BY <1>3 DEF EventInv, CallOK, SendNext
<1>6. key \in Keys
    BY <1>4, <1>5 DEF EventInv, EventTypeOK
<1>7. /\ caller'[c] = [caller[c] EXCEPT !.todo = rest]
      /\ \A d \in Subscribers \ {c} : caller'[d] = caller[d]
      /\ caller' \in [Subscribers -> UNION {{caller'[d]} : d \in Subscribers}]
    BY DEF SendNext, EventInv, EventTypeOK
<1>8. /\ caller'[c] \in Call
      /\ caller'[c].pc = "send" /\ caller'[c].todo = rest
      /\ caller'[c].payload = caller[c].payload /\ caller'[c].due = caller[c].due
  <2>1. rest \in SUBSET [id: 1..MaxSubs, sub: Subscription]
      BY <1>2
  <2>2. caller[c].pc = "send"
      BY DEF SendNext
  <2> HIDE DEF rest
  <2> QED
      BY <1>2, <1>7, <2>1, <2>2, TodoChanges, Zenon DEF Call
<1>9. /\ begun.pc = "post" /\ begun.dest = t.sub.dest /\ begun.attempt = 1
      /\ begun \in Delivery
    BY <1>4 DEF NoDelivery, Delivery
<1>10. /\ \A k \in Keys : delivery'[k] = IF t.sub.format = "Event" /\ k = key THEN begun
                                                                            ELSE delivery[k]
       /\ delivery' \in [Keys -> Delivery]
  <2>1. delivery' = IF t.sub.format = "Event" THEN [delivery EXCEPT ![key] = begun] ELSE delivery
      BY DEF SendNext, Start
  <2> HIDE DEF begun, key, t
  <2> QED
      BY <1>6, <1>9, <2>1 DEF EventInv, EventTypeOK
<1> HIDE DEF t, key, begun, rest
<1>11. EventTypeOK'
    BY <1>1, <1>7, <1>8, <1>10 DEF EventInv, EventTypeOK, Ids
<1>12. NoDuplicateSubscription'
    BY <1>1 DEF EventInv, NoDuplicateSubscription, Ids
<1>13. PayloadsDistinct'
    BY <1>7, <1>8 DEF EventInv, PayloadsDistinct, SendNext
<1>14. \A k \in Keys : DeliveryAt(k, "none")' => DeliveryAt(k, "none")
    BY <1>9, <1>10
<1> HIDE DEF Keys
<1>15. ASSUME NEW d \in Subscribers
       PROVE  CallOK(d)'
  <2>1. CallOK(d)
      BY DEF EventInv
  <2>2. ASSUME NEW i \in caller[d].due, CallerAt(d, "send")
        PROVE  <<caller[d].payload, i>> \in Keys
    <3> USE DEF Keys
    <3>1. caller[d] \in Call
        BY DEF EventInv, EventTypeOK
    <3>2. caller[d].due \in SUBSET (1..MaxSubs)
        BY <3>1, CallFields, Zenon DEF Call
    <3>3. caller[d].payload \in 1..MaxEvents
        BY <2>1, <2>2 DEF CallOK, EventInv, EventTypeOK
    <3> QED
        BY <3>2, <3>3
  <2>3. CASE d # c
      BY <1>1, <1>7, <1>14, <2>1, <2>2, <2>3 DEF CallOK, Ids, EventSubs
  <2>4. CASE d = c
    <3>1. ASSUME NEW i \in caller[c].due
          PROVE  \/ delivery'[<<caller[c].payload, i>>].pc # "none"
                 \/ \E u \in rest : u.id = i /\ u.sub.format = "Event"
      <4>1. CallerAt(c, "send") /\ <<caller[c].payload, i>> \in Keys
          BY <2>2, <2>4 DEF SendNext
      <4>2. CASE ~DeliveryAt(<<caller[c].payload, i>>, "none")
          BY <1>14, <4>1, <4>2
      <4>3. CASE \E u \in caller[c].todo : u.id = i /\ u.sub.format = "Event"
        <5>1. PICK u \in caller[c].todo : u.id = i /\ u.sub.format = "Event"
            BY <4>3
        <5>2. CASE u = t
            BY <1>9, <1>10, <4>1, <5>1, <5>2 DEF key
        <5>3. CASE u # t
            BY <5>1, <5>3 DEF rest
        <5> QED
            BY <5>2, <5>3
      <4> QED
          BY <2>1, <2>4, <4>1, <4>2, <4>3 DEF CallOK
    <3>2. \A u \in caller'[c].todo : u \in caller[c].todo
        BY <1>8 DEF rest
    <3>3. \A u \in caller'[c].todo : /\ u.id <= nextSub'
                                     /\ u.id \in Ids' => subs'[u.id] = u.sub
        BY <1>1, <2>1, <2>4, <3>2 DEF CallOK, Ids
    <3>4. caller'[c].payload \in 1..nextEvent'
        BY <1>1, <1>5, <1>8
    <3>5. \A i \in caller'[c].due :
              \/ delivery'[<<caller'[c].payload, i>>].pc # "none"
              \/ \E u \in caller'[c].todo : u.id = i /\ u.sub.format = "Event"
        BY <1>8, <3>1
    <3> QED
        BY <1>8, <2>4, <3>3, <3>4, <3>5 DEF CallOK
  <2> QED
      BY <2>3, <2>4
<1>16. ASSUME NEW k \in Keys
       PROVE  DeliveryOK(k)'
  <2> USE DEF Keys
  <2>1. CASE t.sub.format = "Event" /\ k = key
      BY <1>1, <1>4, <1>5, <1>9, <1>10, <2>1 DEF DeliveryOK, key, Ids
  <2>2. CASE ~(t.sub.format = "Event" /\ k = key)
      BY <1>1, <1>10, <2>2 DEF EventInv, DeliveryOK, Ids
  <2> QED
      BY <2>1, <2>2
<1> QED
    BY <1>11, <1>12, <1>13, <1>15, <1>16 DEF EventInv

LEMMA RetryChanges ==
    ASSUME NEW A, NEW B, NEW C, NEW D,
           NEW r \in [pc: A, dest: B, attempt: C, got: D], NEW a \in A, NEW n \in C,
           NEW s, s = [r EXCEPT !.pc = a, !.attempt = n]
    PROVE  /\ s \in [pc: A, dest: B, attempt: C, got: D]
           /\ s.pc = a /\ s.dest = r.dest /\ s.attempt = n
    OBVIOUS

\* What a goroutine does with its own record.
LEMMA DeliveryStepKeeps ==
    ASSUME EventInv, NEW k \in Keys, DeliveryStep(k)
    PROVE  EventInv'
<1> HIDE DEF Keys
<1>1. UNCHANGED <<subs, nextSub, nextEvent, caller>>
    BY DEF DeliveryStep, PostSucceeds, PostFails, Retry
<1>2. delivery[k] \in Delivery /\ DeliveryOK(k)
    BY DEF EventInv, EventTypeOK
<1>3. PICK r \in Delivery : /\ delivery' = [delivery EXCEPT ![k] = r]
                            /\ r.pc # "none" /\ r.dest = delivery[k].dest
                            /\ r.pc \in {"post", "wait"} => r.attempt <= Attempts
                            /\ r.pc = "wait" => r.attempt < Attempts
                            /\ r.pc = "given_up" => r.attempt = Attempts
                            /\ r.pc = "delivered" => r.got
  <2>1. CASE PostSucceeds(k)
    <3> DEFINE r == [delivery[k] EXCEPT !.pc = "delivered", !.got = TRUE]
    <3>1. r \in Delivery /\ r.pc = "delivered" /\ r.dest = delivery[k].dest /\ r.got
        BY <1>2 DEF Delivery
    <3>2. delivery' = [delivery EXCEPT ![k] = r]
        BY <2>1 DEF PostSucceeds
    <3> HIDE DEF r
    <3> QED
        BY <3>1, <3>2
  <2>2. CASE PostFails(k)
    <3>1. PICK g \in {delivery[k].got, TRUE} :
              delivery' = [delivery EXCEPT
                  ![k].pc = IF delivery[k].attempt < Attempts THEN "wait" ELSE "given_up", ![k].got = g]
        BY <2>2 DEF PostFails
    <3> DEFINE r == [delivery[k] EXCEPT
                         !.pc = IF delivery[k].attempt < Attempts THEN "wait" ELSE "given_up",
                         !.got = g]
    <3>2. delivery[k].got \in BOOLEAN
        BY <1>2, Zenon DEF Delivery
    <3>3. g \in BOOLEAN
        BY <3>2
    <3>4. delivery[k].attempt \in Nat /\ delivery[k].attempt <= Attempts
        BY <1>2, <2>2 DEF DeliveryOK, PostFails, Delivery
    <3>5. r \in Delivery /\ r.dest = delivery[k].dest /\ r.attempt = delivery[k].attempt
        BY <1>2, <3>3 DEF Delivery
    <3>6. /\ r.pc = "wait" => r.attempt < Attempts
          /\ r.pc = "given_up" => r.attempt = Attempts
          /\ r.pc \in {"wait", "given_up"}
        BY <1>2, <3>4, <3>5 DEF Delivery
    <3>7. delivery' = [delivery EXCEPT ![k] = r]
        BY <3>1
    <3> HIDE DEF r
    <3> QED
        BY <3>4, <3>5, <3>6, <3>7
  <2>3. CASE Retry(k)
    <3> DEFINE r == [delivery[k] EXCEPT !.pc = "post", !.attempt = delivery[k].attempt + 1]
    <3>1. delivery[k].attempt \in Nat /\ delivery[k].attempt < Attempts
        BY <1>2, <2>3 DEF DeliveryOK, Retry, Delivery
    <3>2. /\ "post" \in {"none", "post", "wait", "delivered", "given_up"}
          /\ delivery[k].attempt + 1 \in Nat /\ delivery[k].attempt + 1 <= Attempts
        BY <3>1
    <3>3. /\ r \in Delivery /\ r.pc = "post" /\ r.dest = delivery[k].dest
          /\ r.attempt = delivery[k].attempt + 1
        BY <1>2, <3>2, RetryChanges, Zenon DEF Delivery
    <3>4. delivery' = [delivery EXCEPT ![k] = r]
        BY <2>3 DEF Retry
    <3> HIDE DEF r
    <3>5. /\ r.pc # "none" /\ r.pc # "wait" /\ r.pc # "given_up" /\ r.pc # "delivered"
          /\ r.attempt <= Attempts
        BY <3>2, <3>3
    <3> QED
        BY <3>3, <3>4, <3>5, Zenon
  <2> QED
      BY <2>1, <2>2, <2>3 DEF DeliveryStep
<1>4. delivery[k].pc # "none"
    BY DEF DeliveryStep, PostSucceeds, PostFails, Retry
<1>5. delivery'[k] = r /\ \A j \in Keys : j # k => delivery'[j] = delivery[j]
    BY <1>3 DEF EventInv, EventTypeOK
<1>6. \A j \in Keys : delivery[j].pc # "none" => delivery'[j].pc # "none"
    BY <1>3, <1>5
<1>7. EventTypeOK'
    BY <1>1, <1>3 DEF EventInv, EventTypeOK, Ids
<1>8. NoDuplicateSubscription' /\ PayloadsDistinct'
    BY <1>1 DEF EventInv, NoDuplicateSubscription, PayloadsDistinct, Ids
<1>9. ASSUME NEW c \in Subscribers
      PROVE  CallOK(c)'
  <2>1. CallOK(c)
      BY DEF EventInv
  <2>2. ASSUME NEW i \in caller[c].due, CallerAt(c, "send")
        PROVE  <<caller[c].payload, i>> \in Keys
    <3>1. caller[c] \in Call
        BY DEF EventInv, EventTypeOK
    <3>2. caller[c].due \in SUBSET (1..MaxSubs)
        BY <3>1, CallFields, Zenon DEF Call
    <3>3. caller[c].payload \in 1..MaxEvents
        BY <2>1, <2>2 DEF CallOK, EventInv, EventTypeOK
    <3> QED
        BY <3>2, <3>3 DEF Keys
  <2>3. ASSUME NEW i \in caller[c].due, CallerAt(c, "send")
        PROVE  \/ delivery'[<<caller[c].payload, i>>].pc # "none"
               \/ \E u \in caller[c].todo : u.id = i /\ u.sub.format = "Event"
      BY <1>6, <2>1, <2>2, <2>3 DEF CallOK
  <2> QED
      BY <1>1, <2>1, <2>3 DEF CallOK, Ids, EventSubs
<1>10. ASSUME NEW j \in Keys
      PROVE  DeliveryOK(j)'
  <2>1. DeliveryOK(j)
      BY DEF EventInv
  <2>2. CASE j = k
      BY <1>1, <1>2, <1>3, <1>4, <1>5, <2>2 DEF DeliveryOK, Ids
  <2>3. CASE j # k
    <3>1. delivery'[j] = delivery[j]
        BY <1>5, <2>3
    <3> QED
        BY <1>1, <2>1, <3>1 DEF DeliveryOK, Ids
  <2> QED
      BY <2>2, <2>3
<1> QED
    BY <1>7, <1>8, <1>9, <1>10 DEF EventInv

\* A step of the VNC proxy leaves the events alone.
LEMMA EventStutter ==
    ASSUME EventInv, UNCHANGED eventVars
    PROVE  EventInv'
<1>1. EventTypeOK' /\ NoDuplicateSubscription' /\ PayloadsDistinct'
    BY DEF EventInv, eventVars, EventTypeOK, Ids, NoDuplicateSubscription, PayloadsDistinct
<1>2. \A c \in Subscribers : CallOK(c)'
    BY OtherCalls DEF EventInv, eventVars, EventTypeOK
<1> QED
    BY <1>1, <1>2, OtherDeliveries DEF EventInv, eventVars

LEMMA EventStepKeeps ==
    ASSUME EventInv, EventNext
    PROVE  EventInv'
<1>1. ASSUME NEW c \in Subscribers, EventRequest(c) PROVE EventInv'
    BY <1>1, SubscribeKeeps, UnsubscribeKeeps, NumberEventKeeps DEF EventRequest
<1>2. ASSUME NEW c \in Subscribers, EventStep(c) PROVE EventInv'
    BY <1>2, CreateKeeps, ListKeeps, SendNextKeeps, SubmitEndsKeeps DEF EventStep
<1> QED
    BY <1>1, <1>2, DeliveryStepKeeps DEF EventNext

-----------------------------------------------------------------------------
(* The VNC proxy                                                           *)

\* Inductive: a message in the channel comes from a goroutine that has ended.
VncInv ==
    /\ handler \in [Viewers -> {"idle", "dial", "serve", "close_vnc", "close_ws", "returned"}]
    /\ ws \in [Viewers -> {"none", "open", "left", "closed"}]
    /\ vnc \in [Viewers -> {"none", "open", "left", "closed"}]
    /\ copier \in [Viewers -> [Directions -> {"none", "read", "write", "end", "ended"}]]
    /\ done \in [Viewers -> 0..DoneCapacity]
    /\ \A v \in Viewers :
           /\ handler[v] = "dial" => ws[v] # "none" /\ done[v] = 0
           /\ handler[v] # "idle" => ws[v] # "none"
           /\ handler[v] \in {"idle", "dial"} => \A d \in Directions : copier[v][d] = "none"
           /\ \A d \in Directions : copier[v][d] # "none" => ws[v] # "none" /\ vnc[v] # "none"
           /\ done[v] >= 1 => \E d \in Directions : copier[v][d] = "ended"
           /\ done[v] = 2 => \A d \in Directions : copier[v][d] = "ended"

LEMMA InitialVnc == VncInit => VncInv
BY DEF VncInit, VncInv, DoneCapacity

LEMMA HandlerKeeps ==
    ASSUME VncInv, NEW v \in Viewers, Upgrade(v) \/ HandlerStep(v)
    PROVE  VncInv'
<1> USE DEF VncInv, HandlerAt, HandlerGoto, Directions, DoneCapacity
<1>1. CASE Upgrade(v)
    BY <1>1 DEF Upgrade
<1>2. CASE DialFails(v)
    BY <1>2 DEF DialFails
<1>3. CASE Dial(v)
    BY <1>3 DEF Dial, StartCopiers
<1>4. CASE FirstDone(v)
    BY <1>4 DEF FirstDone
<1>5. CASE CloseVnc(v)
    BY <1>5 DEF CloseVnc
<1>6. CASE CloseWs(v)
    BY <1>6 DEF CloseWs
<1> QED
    BY <1>1, <1>2, <1>3, <1>4, <1>5, <1>6 DEF HandlerStep

LEMMA EndsKeep ==
    ASSUME VncInv, NEW v \in Viewers, ViewerLeaves(v) \/ QemuLeaves(v)
    PROVE  VncInv'
<1>1. CASE ViewerLeaves(v)
    BY <1>1 DEF VncInv, ViewerLeaves
<1>2. CASE QemuLeaves(v)
    BY <1>2 DEF VncInv, QemuLeaves
<1> QED
    BY <1>1, <1>2

LEMMA CopierKeeps ==
    ASSUME VncInv, NEW v \in Viewers, NEW d \in Directions, CopierStep(v, d)
    PROVE  VncInv'
<1> USE DEF VncInv, CopierAt, CopierGoto, Directions, DoneCapacity
<1>1. CASE Read(v, d)
    BY <1>1 DEF Read
<1>2. CASE Write(v, d)
    BY <1>2 DEF Write
<1>3. CASE ReadFails(v, d)
    BY <1>3 DEF ReadFails
<1>4. CASE WriteFails(v, d)
    BY <1>4 DEF WriteFails
<1>5. CASE SendDone(v, d)
    BY <1>5 DEF SendDone
<1> QED
    BY <1>1, <1>2, <1>3, <1>4, <1>5 DEF CopierStep, CopierEnds

LEMMA VncStutter ==
    ASSUME VncInv, UNCHANGED vncVars
    PROVE  VncInv'
BY DEF VncInv, vncVars

LEMMA VncImplies == VncInv => VncTypeOK
BY DEF VncInv, VncTypeOK, Directions, DoneCapacity

-----------------------------------------------------------------------------
(* The theorems                                                            *)

LEMMA Inductive ==
    /\ HttpInit => EventInv /\ VncInv
    /\ EventInv /\ VncInv /\ [HttpNext]_httpVars => EventInv' /\ VncInv'
<1>1. HttpInit => EventInv /\ VncInv
    BY InitialEvents, InitialVnc DEF HttpInit
<1>2. ASSUME EventInv, VncInv, [HttpNext]_httpVars
      PROVE  EventInv' /\ VncInv'
  <2>1. CASE inUse = "events" /\ EventNext /\ UNCHANGED vncVars
      BY <1>2, <2>1, EventStepKeeps, VncStutter
  <2>2. CASE inUse = "vnc" /\ VncNext /\ UNCHANGED eventVars
    <3>1. EventInv'
        BY <1>2, <2>2, EventStutter
    <3>2. VncInv'
        BY <1>2, <2>2, HandlerKeeps, EndsKeep, CopierKeeps DEF VncNext
    <3> QED
        BY <3>1, <3>2
  <2>3. CASE UNCHANGED httpVars
      BY <1>2, <2>3, EventStutter, VncStutter DEF httpVars
  <2> QED
      BY <1>2, <2>1, <2>2, <2>3 DEF HttpNext
<1> QED
    BY <1>1, <1>2

LEMMA AlwaysInv == HttpSpec => [](EventInv /\ VncInv)
BY Inductive, PTL DEF HttpSpec

\* What the handlers, the dispatcher and the proxy keep has its type, and the VNC
\* proxy's channel never makes a goroutine wait (ServeWebSocket).
THEOREM HttpTyped == HttpSpec => [](EventTypeOK /\ VncTypeOK)
<1>1. EventInv /\ VncInv => EventTypeOK /\ VncTypeOK
    BY VncImplies DEF EventInv
<1> QED
    BY <1>1, AlwaysInv, PTL

\* Two clients that subscribe at the same time do not make one subscription twice
\* (handleCreateSubscription), and no two submissions share an event id.
THEOREM SubscriptionsDiffer == HttpSpec => [](NoDuplicateSubscription /\ PayloadsDistinct)
<1>1. EventInv => NoDuplicateSubscription /\ PayloadsDistinct
    BY DEF EventInv
<1> QED
    BY <1>1, AlwaysInv, PTL

\* However many clients subscribe and unsubscribe while deliveries are under way, an
\* id keeps its meaning (handleCreateSubscription, Deliver).
THEOREM NeverReused == HttpSpec => []IdsNeverReused
<1>1. EventInv => IdsNeverReused
    BY DEF EventInv, DeliveryOK, IdsNeverReused
<1> QED
    BY <1>1, AlwaysInv, PTL

\* A submission that has ended has started a delivery to every subscriber it owed the
\* event to (handleSubmitTestEvent).
THEOREM NobodyForgotten == HttpSpec => []NoSubscriberForgotten
<1>1. EventInv => NoSubscriberForgotten
    BY DEF EventInv, CallOK, NoSubscriberForgotten
<1> QED
    BY <1>1, AlwaysInv, PTL

\* For every number of attempts, a delivery is given up after exactly so many (Deliver).
THEOREM AllAttemptsMade == HttpSpec => []GivenUpAfterAttempts
<1>1. EventInv => GivenUpAfterAttempts
    BY DEF EventInv, DeliveryOK, GivenUpAfterAttempts
<1> QED
    BY <1>1, AlwaysInv, PTL
=============================================================================
