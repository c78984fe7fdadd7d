---------------------------- MODULE EventService ----------------------------
(***************************************************************************)
(* Event subscriptions and the delivery of test events (internal/redfish,  *)
(* handler_events.go; internal/events, dispatcher.go).  A request takes    *)
(* the server's lock for one look or one change at a time; every delivery  *)
(* is a goroutine that outlives the request which started it.              *)
(***************************************************************************)
EXTENDS Naturals, FiniteSets

CONSTANTS Subscribers,    \* connections that subscribe, unsubscribe and submit events
          Destinations,   \* where events are sent
          Formats,        \* EventFormatType values
          Attempts,       \* deliveryRetryAttempts
          MaxSubs,        \* bound on subscriptions ever made
          MaxEvents       \* bound on events ever submitted

VARIABLES subs,        \* s.subscriptions: id -> destination and format
          nextSub,     \* s.nextSubscriptionID
          nextEvent,   \* s.nextEventID
          caller,      \* each connection's request and how far it is
          delivery     \* <<payload id, subscription id>> -> its goroutine

eventVars == <<subs, nextSub, nextEvent, caller, delivery>>

ASSUME EventAssumption ==
    /\ {Attempts, MaxSubs, MaxEvents} \subseteq Nat /\ Attempts >= 1
    /\ "Event" \in Formats

SubIds == 1..MaxSubs
PayloadIds == 1..MaxEvents
Keys == PayloadIds \X SubIds
Ids == DOMAIN subs

\* want: the subscription asked for; view: the subscriptions an event goes to, and
\* payload its id.  due (the Event subscriptions there were when the submission
\* began and have been ever since) is for the properties.
NoCall == [pc |-> "idle", want |-> <<>>, payload |-> 0, todo |-> {}, due |-> {}]

\* dest: where the goroutine posts to; got: whether the receiver has had the event.
NoDelivery == [pc |-> "none", dest |-> "none", attempt |-> 0, got |-> FALSE]

EventInit ==
    /\ subs = [i \in {} |-> <<>>]
    /\ nextSub = 0
    /\ nextEvent = 0
    /\ caller = [c \in Subscribers |-> NoCall]
    /\ delivery = [k \in Keys |-> NoDelivery]

CallerAt(c, p) == caller[c].pc = p

\* Submissions under way no longer owe an event to a subscription that is gone.
NoLongerDue(i) == caller' = [c \in Subscribers |-> [caller[c] EXCEPT !.due = @ \ {i}]]

-----------------------------------------------------------------------------
(* Subscriptions                                                           *)

\* validateSubscription
Subscribe(c) ==
    /\ CallerAt(c, "idle")
    /\ nextSub < MaxSubs
    /\ \E d \in Destinations, f \in Formats :
           caller' = [caller EXCEPT ![c].pc = "create", ![c].want = [dest |-> d, format |-> f]]
    /\ UNCHANGED <<subs, nextSub, nextEvent, delivery>>

\* The response, 409 or 201, is left out.
Answered(c) == caller' = [caller EXCEPT ![c] = NoCall]

Duplicate(w) == \E i \in Ids : subs[i] = w

\* Variant: ids count the subscriptions there are.
CreateCounted(c) ==
    /\ CallerAt(c, "create")
    /\ IF Duplicate(caller[c].want)
       THEN UNCHANGED <<subs, nextSub>>
       ELSE /\ nextSub < MaxSubs /\ nextSub' = nextSub + 1
            /\ LET id == Cardinality(Ids) + 1
               IN  subs' = [i \in Ids \cup {id} |-> IF i = id THEN caller[c].want ELSE subs[i]]
    /\ Answered(c)
    /\ UNCHANGED <<nextEvent, delivery>>

\* The check and the creation are one critical section.
Create(c) ==
    /\ CallerAt(c, "create")
    /\ IF Duplicate(caller[c].want)
       THEN UNCHANGED <<subs, nextSub>>
       ELSE /\ nextSub < MaxSubs /\ nextSub' = nextSub + 1
            /\ subs' = [i \in Ids \cup {nextSub'} |->
                            IF i = nextSub' THEN caller[c].want ELSE subs[i]]
    /\ Answered(c)
    /\ UNCHANGED <<nextEvent, delivery>>

Unsubscribe(c) ==
    /\ CallerAt(c, "idle")
    /\ \E i \in Ids :
           /\ subs' = [j \in Ids \ {i} |-> subs[j]]
           /\ NoLongerDue(i)
    /\ UNCHANGED <<nextSub, nextEvent, delivery>>

-----------------------------------------------------------------------------
(* SubmitTestEvent                                                         *)

EventSubs == {i \in Ids : subs[i].format = "Event"}

NumberEvent(c) ==
    /\ CallerAt(c, "idle")
    /\ nextEvent < MaxEvents
    /\ nextEvent' = nextEvent + 1
    /\ caller' = [caller EXCEPT ![c].pc = "list", ![c].payload = nextEvent', ![c].due = EventSubs]
    /\ UNCHANGED <<subs, nextSub, delivery>>

\* listSubscriptions, a copy of the subscriptions themselves.
ListSubscriptions(c) ==
    /\ CallerAt(c, "list")
    /\ caller' = [caller EXCEPT ![c].pc = "send",
                                ![c].todo = {[id |-> i, sub |-> subs[i]] : i \in Ids}]
    /\ UNCHANGED <<subs, nextSub, nextEvent, delivery>>

\* The next of the list, which is in the order of the ids.
NextTodo(c) == CHOOSE t \in caller[c].todo : \A u \in caller[c].todo : t.id <= u.id

\* Dispatcher.Send
Start(c, t) ==
    delivery' = [delivery EXCEPT ![<<caller[c].payload, t.id>>] =
                     [NoDelivery EXCEPT !.pc = "post", !.dest = t.sub.dest, !.attempt = 1]]

\* Variant: the loop ends at a subscription of another format.
SendNextBreaks(c) ==
    /\ CallerAt(c, "send") /\ caller[c].todo # {}
    /\ LET t == NextTodo(c)
       IN  IF t.sub.format = "Event"
           THEN Start(c, t) /\ caller' = [caller EXCEPT ![c].todo = @ \ {t}]
           ELSE caller' = [caller EXCEPT ![c].todo = {}] /\ UNCHANGED delivery
    /\ UNCHANGED <<subs, nextSub, nextEvent>>

SendNext(c) ==
    /\ CallerAt(c, "send") /\ caller[c].todo # {}
    /\ LET t == NextTodo(c)
       IN  /\ caller' = [caller EXCEPT ![c].todo = @ \ {t}]
           /\ IF t.sub.format = "Event" THEN Start(c, t) ELSE UNCHANGED delivery
    /\ UNCHANGED <<subs, nextSub, nextEvent>>

SubmitEnds(c) ==
    /\ CallerAt(c, "send") /\ caller[c].todo = {}
    /\ Answered(c)
    /\ UNCHANGED <<subs, nextSub, nextEvent, delivery>>

-----------------------------------------------------------------------------
(* Dispatcher.Deliver, one goroutine for each payload                      *)

DeliveryAt(k, p) == delivery[k].pc = p

\* The receiver takes the event and its 2xx answer arrives.
PostSucceeds(k) ==
    /\ DeliveryAt(k, "post")
    /\ delivery' = [delivery EXCEPT ![k].pc = "delivered", ![k].got = TRUE]
    /\ UNCHANGED <<subs, nextSub, nextEvent, caller>>

\* Variant: an attempt less.
PostFailsShort(k) ==
    /\ DeliveryAt(k, "post")
    /\ \E g \in {delivery[k].got, TRUE} :
           delivery' = [delivery EXCEPT
               ![k].pc = IF delivery[k].attempt + 1 < Attempts THEN "wait" ELSE "given_up", ![k].got = g]
    /\ UNCHANGED <<subs, nextSub, nextEvent, caller>>

\* No answer, a late one, or another status; the receiver may have had the event.
PostFails(k) ==
    /\ DeliveryAt(k, "post")
    /\ \E g \in {delivery[k].got, TRUE} :
           delivery' = [delivery EXCEPT
               ![k].pc = IF delivery[k].attempt < Attempts THEN "wait" ELSE "given_up", ![k].got = g]
    /\ UNCHANGED <<subs, nextSub, nextEvent, caller>>

\* Variant: every retry counts its attempts anew.
RetryAnew(k) ==
    /\ DeliveryAt(k, "wait")
    /\ delivery' = [delivery EXCEPT ![k].pc = "post", ![k].attempt = 1]
    /\ UNCHANGED <<subs, nextSub, nextEvent, caller>>

\* After retryInterval.
Retry(k) ==
    /\ DeliveryAt(k, "wait")
    /\ delivery' = [delivery EXCEPT ![k].pc = "post", ![k].attempt = @ + 1]
    /\ UNCHANGED <<subs, nextSub, nextEvent, caller>>

EventRequest(c) == Subscribe(c) \/ Unsubscribe(c) \/ NumberEvent(c)
EventStep(c) == Create(c) \/ ListSubscriptions(c) \/ SendNext(c) \/ SubmitEnds(c)
DeliveryStep(k) == PostSucceeds(k) \/ PostFails(k) \/ Retry(k)

EventNext ==
    \/ \E c \in Subscribers : EventRequest(c) \/ EventStep(c)
    \/ \E k \in Keys : DeliveryStep(k)

\* A post ends, with an answer or by the client's timeout of 10 s.
EventFairness ==
    /\ \A c \in Subscribers : WF_eventVars(EventStep(c))
    /\ \A k \in Keys : WF_eventVars(DeliveryStep(k))

EventSpec == EventInit /\ [][EventNext]_eventVars /\ EventFairness

-----------------------------------------------------------------------------
(***************************************************************************)
(* Properties                                                              *)
(***************************************************************************)

Subscription == [dest: Destinations, format: Formats]

Call == [pc: {"idle", "create", "list", "send"}, want: {<<>>} \cup Subscription,
         payload: Nat, todo: SUBSET [id: SubIds, sub: Subscription], due: SUBSET SubIds]

Delivery == [pc: {"none", "post", "wait", "delivered", "given_up"},
             dest: Destinations \cup {"none"}, attempt: Nat, got: BOOLEAN]

EventTypeOK ==
    /\ nextSub \in 0..MaxSubs /\ nextEvent \in 0..MaxEvents
    /\ Ids \subseteq 1..nextSub
    /\ \A i \in Ids : subs[i] \in Subscription
    /\ caller \in [Subscribers -> Call]
    /\ delivery \in [Keys -> Delivery]

\* No two subscriptions send events of one format to one destination, whichever
\* clients create them at the same time (README, ResourceAlreadyExists).
NoDuplicateSubscription == \A i, j \in Ids : subs[i] = subs[j] => i = j

\* Events that are being submitted have different payload ids.
PayloadsDistinct ==
    \A c, d \in Subscribers :
        c # d /\ caller[c].pc \in {"list", "send"} /\ caller[d].pc \in {"list", "send"}
            => caller[c].payload # caller[d].payload

\* A subscription id never comes to mean another subscription: what is delivered
\* under an id that there is goes to the destination registered under it.
IdsNeverReused ==
    \A k \in Keys : ~DeliveryAt(k, "none") /\ k[2] \in Ids =>
        subs[k[2]] = [dest |-> delivery[k].dest, format |-> "Event"]

\* When SubmitTestEvent answers, a delivery has been started for every Event
\* subscription that there has been all along, whatever is created and deleted
\* meanwhile.
NoSubscriberForgotten ==
    \A c \in Subscribers :
        CallerAt(c, "send") /\ caller[c].todo = {} =>
            \A i \in caller[c].due : ~DeliveryAt(<<caller[c].payload, i>>, "none")

\* A delivery is given up only after all of its attempts, and is not taken for
\* done when the receiver has not had the event (Deliver).
GivenUpAfterAttempts ==
    \A k \in Keys :
        /\ DeliveryAt(k, "given_up") => delivery[k].attempt = Attempts
        /\ DeliveryAt(k, "delivered") => delivery[k].got

\* Every delivery ends.
DeliveryEnds ==
    \A k \in Keys : DeliveryAt(k, "post") ~> delivery[k].pc \in {"delivered", "given_up"}

-----------------------------------------------------------------------------
(***************************************************************************)
(* The inductive invariant: what a submission and a delivery hold agrees   *)
(* with the subscriptions that there still are.                            *)
(***************************************************************************)

\* What a request holds between two of its critical sections.
CallOK(c) ==
    /\ CallerAt(c, "create") => caller[c].want \in Subscription
    /\ caller[c].pc \in {"list", "send"} => caller[c].payload \in 1..nextEvent
    /\ CallerAt(c, "list") => caller[c].due \subseteq EventSubs
    /\ \A t \in caller[c].todo : /\ t.id <= nextSub
                                 /\ t.id \in Ids => subs[t.id] = t.sub
    /\ CallerAt(c, "send") =>
           \A i \in caller[c].due :
               \/ ~DeliveryAt(<<caller[c].payload, i>>, "none")
               \/ \E t \in caller[c].todo : t.id = i /\ t.sub.format = "Event"

\* What a delivery's goroutine holds.
DeliveryOK(k) ==
    /\ ~DeliveryAt(k, "none") =>
           /\ k[2] <= nextSub
           /\ k[2] \in Ids => subs[k[2]] = [dest |-> delivery[k].dest, format |-> "Event"]
    /\ delivery[k].pc \in {"post", "wait"} => delivery[k].attempt <= Attempts
    /\ DeliveryAt(k, "wait") => delivery[k].attempt < Attempts
    /\ DeliveryAt(k, "given_up") => delivery[k].attempt = Attempts
    /\ DeliveryAt(k, "delivered") => delivery[k].got

\* Inductive; every safety property above follows from it.
EventInv ==
    /\ EventTypeOK
    /\ NoDuplicateSubscription
    /\ PayloadsDistinct
    /\ \A c \in Subscribers : CallOK(c)
    /\ \A k \in Keys : DeliveryOK(k)
=============================================================================
