----------------------- MODULE ClientRegistries_proofs -----------------------
(***************************************************************************)
(* Theorems about ClientRegistries, for any numbers of names, intervals,   *)
(* connections, restarts and subscriptions.                                *)
(***************************************************************************)
EXTENDS ClientRegistries, FiniteSetTheorems, TLAPS

(***************************************************************************)
(* Types                                                                   *)
(***************************************************************************)

(* A session is a session with an object: only then does the server answer. *)
SessionHasObject == \A c \in Clients : session[c] => object[c] # Nothing

(* A name that is looked up stands for a node id. *)
LEMMA LookupType ==
    ASSUME TypeOK, SessionHasObject, NEW c \in Clients, NEW n \in Names,
           NEW i \in Lookup(c, n) \ {Nothing}
    PROVE  /\ i \in NodeIds
           /\ \/ entity[c][n] = i
              \/ /\ entity[c][n] = Nothing /\ object[c] \in Objects
                 /\ i = NodeOf[object[c]][n]
<1>1. CASE entity[c][n] # Nothing
    BY <1>1 DEF TypeOK, Lookup
<1>2. CASE entity[c][n] = Nothing
  <2>1. session[c] /\ i = NodeOf[object[c]][n]
      BY <1>2 DEF Lookup, BrowsedFor
  <2>2. object[c] \in Objects
      BY <2>1 DEF TypeOK, SessionHasObject
  <2> QED
      BY <1>2, <2>1, <2>2, NodeAssumption
<1> QED
    BY <1>1, <1>2

(* An item on a node id is an item of the object of the session.           *)
LEMMA ItemsType ==
    ASSUME TypeOK, SessionHasObject, NEW c \in Clients, session[c],
           NEW i \in NodeIds, NEW n \in Names, NEW item \in ItemsOn(c, i, n)
    PROVE  /\ item \in Item
           /\ item.kind = "data" /\ item.name = n /\ item.node = i
           /\ item.object = object[c] /\ object[c] \in Objects
           /\ \E m \in Names : NodeOf[object[c]][m] = i
<1>1. object[c] \in Objects
    BY DEF TypeOK, SessionHasObject
<1>2. PICK m \in Names :
          /\ NodeOf[object[c]][m] = i
          /\ item = [kind |-> "data", object |-> object[c],
                     node |-> NodeOf[object[c]][m], name |-> n]
    BY DEF ItemsOn
<1> QED
    BY <1>1, <1>2 DEF Item

(* The server's answer gives subs and lastId values of their types. *)
LEMMA CreatedType ==
    ASSUME TypeOK, NEW c \in Clients, SessionHasObject,
           NEW item \in Item \cup {Event, NoItem}, NEW interval \in Nat,
           Created(c, item, interval)
    PROVE  /\ subs' \in [Clients -> SUBSET Subscription]
           /\ lastId' \in [Objects -> Nat]
           /\ NewId(c) \in Ids
<1>1. object[c] \in Objects /\ NewId(c) \in Nat
    BY DEF TypeOK, NewId, SessionHasObject, Created
<1>2. [id |-> NewId(c), item |-> item, interval |-> interval] \in Subscription
    BY DEF Created, Subscription
<1> QED
    BY <1>1, <1>2 DEF TypeOK, Created

(* createSubscription keeps the registries it changes in their ranges. *)
LEMMA CreateSubscriptionType ==
    ASSUME TypeOK, NEW c \in Clients, SessionHasObject,
           NEW i \in NodeIds, NEW n \in Names, NEW interval \in Nat,
           CreateSubscription(c, i, n, interval)
    PROVE  /\ subs' \in [Clients -> SUBSET Subscription]
           /\ lastId' \in [Objects -> Nat]
           /\ minInterval' \in [Clients -> Nat]
           /\ subReg' \in [Clients -> [Ids -> Names \cup {Nothing}]]
           /\ binding' \in [Ids -> Clients \cup {Nothing}]
<1>1. minInterval' \in [Clients -> Nat]
    BY DEF TypeOK, CreateSubscription, ShorterInterval
<1>2. CASE UNCHANGED <<subReg, binding, lastId, subs>>
    BY <1>1, <1>2 DEF TypeOK
<1>3. ASSUME NEW item \in {NoItem} \cup ItemsOn(c, i, n),
             Created(c, item, interval), Registered(c, n), Bound(c)
      PROVE  /\ subs' \in [Clients -> SUBSET Subscription]
             /\ lastId' \in [Objects -> Nat]
             /\ subReg' \in [Clients -> [Ids -> Names \cup {Nothing}]]
             /\ binding' \in [Ids -> Clients \cup {Nothing}]
  <2>1. item \in Item \cup {Event, NoItem}
      BY <1>3, ItemsType DEF Created
  <2> QED
      BY <1>3, <2>1, CreatedType DEF TypeOK, Registered, Bound
<1> QED
    BY <1>1, <1>2, <1>3 DEF CreateSubscription

(* Every operation keeps the variables in their ranges. *)
LEMMA TypeStep ==
    ASSUME TypeOK, SessionHasObject, [Next]_vars
    PROVE  TypeOK'
<1> USE IntervalAssumption, BoundAssumption, NothingAssumption
<1> USE DEF TypeOK, registries, statics, servers, Returned, Disconnected,
            StatusCode
<1>1. ASSUME NEW c \in Clients, Disconnect(c)
      PROVE  TypeOK'
    BY <1>1 DEF Disconnect
<1>2. ASSUME NEW c \in Clients, ConnectFail(c)
      PROVE  TypeOK'
    BY <1>2 DEF ConnectFail
<1>3. ASSUME NEW c \in Clients, ConnectEnd(c)
      PROVE  TypeOK'
    BY <1>3 DEF ConnectEnd
<1>4. ASSUME NEW c \in Clients, NEW o \in Objects, ConnectBegin(c, o)
      PROVE  TypeOK'
    BY <1>4 DEF ConnectBegin
<1>5. ASSUME NEW c \in Clients, NEW n \in Names, NEW subscribe \in BOOLEAN,
             NEW interval \in Intervals,
             AddVariableNode(c, n, subscribe, interval)
      PROVE  TypeOK'
  <2>1. PICK i \in Lookup(c, n) \ {Nothing} :
            /\ entity' = [entity EXCEPT ![c][n] = i]
            /\ IF subscribe THEN CreateSubscription(c, i, n, interval)
               ELSE UNCHANGED <<minInterval, subReg, binding, lastId, subs>>
      BY <1>5 DEF AddVariableNode
  <2>2. i \in NodeIds /\ entity' \in [Clients -> [Names -> NodeIds \cup {Nothing}]]
      BY <2>1, LookupType
  <2>3. UNCHANGED <<object, session, building, result, events, stored,
                    eventBinding, restarts>>
      BY <1>5 DEF AddVariableNode
  <2>4. CASE subscribe
      BY <2>1, <2>2, <2>3, <2>4, CreateSubscriptionType
  <2>5. CASE ~subscribe
      BY <2>1, <2>2, <2>3, <2>5
  <2> QED
      BY <2>4, <2>5
<1>6. ASSUME NEW c \in Clients, ActivateEvent(c)
      PROVE  TypeOK'
  <2>1. /\ subs' \in [Clients -> SUBSET Subscription]
        /\ lastId' \in [Objects -> Nat] /\ NewId(c) \in Ids
    <3>1. PICK item \in {Event, NoItem} : Created(c, item, Default)
        BY <1>6 DEF ActivateEvent
    <3>2. item \in Item \cup {Event, NoItem}
        OBVIOUS
    <3> QED
        BY <3>1, <3>2, CreatedType
  <2>2. /\ events' \in [Clients -> SUBSET Ids]
        /\ eventBinding' \in [Ids -> Clients \cup {Nothing}]
    <3>1. CASE UNCHANGED <<events, eventBinding>>
        BY <3>1
    <3>2. CASE /\ events' = [events EXCEPT ![c] = @ \cup {NewId(c)}]
               /\ eventBinding' = [eventBinding EXCEPT ![NewId(c)] = c]
        BY <2>1, <3>2
    <3> QED
        BY <1>6, <3>1, <3>2 DEF ActivateEvent
  <2>3. UNCHANGED <<object, session, building, result, entity, subReg,
                    minInterval, stored, binding, restarts>>
      BY <1>6 DEF ActivateEvent
  <2> QED
      BY <2>1, <2>2, <2>3
<1>7. ASSUME NEW c \in Clients, NEW id \in Ids, DeactivateEvent(c, id)
      PROVE  TypeOK'
    BY <1>7 DEF DeactivateEvent
<1>8. ASSUME NEW c \in Clients, NEW s \in subs[c], Deliver(c, s)
      PROVE  TypeOK'
  <2> DEFINE to == binding[s.id]
             name == subReg[to][s.id]
             origin == [client |-> c, object |-> s.item.object,
                        node |-> s.item.node, name |-> s.item.name]
  <2>1. s \in Subscription /\ s.item \in Item
      BY <1>8 DEF Deliver, Subscription, Event, NoItem
  <2>2. to \in Clients /\ name \in Names
      BY <1>8, <2>1 DEF Deliver, Subscription
  <2>3. origin \in Origin
      BY <2>1 DEF Item, Origin
  <2>4. stored' = [stored EXCEPT ![to][name] = origin]
      BY <1>8 DEF Deliver
  <2> QED
      BY <1>8, <2>2, <2>3, <2>4 DEF Deliver
<1>9. ASSUME NEW o \in Objects, Restart(o)
      PROVE  TypeOK'
    BY <1>9 DEF Restart
<1>10. CASE UNCHANGED vars
    BY <1>10 DEF vars
<1> QED
    BY <1>1, <1>2, <1>3, <1>4, <1>5, <1>6, <1>7, <1>8, <1>9, <1>10 DEF Next

(* No operation leaves a client with a session but without an object. *)
LEMMA SessionStep ==
    ASSUME TypeOK, SessionHasObject, [Next]_vars
    PROVE  SessionHasObject'
<1> USE NothingAssumption
<1> USE DEF TypeOK, SessionHasObject, Disconnected
<1>1. ASSUME NEW c \in Clients, Disconnect(c) \/ ConnectFail(c)
      PROVE  SessionHasObject'
    BY <1>1 DEF Disconnect, ConnectFail
<1>2. ASSUME NEW c \in Clients, NEW o \in Objects, ConnectBegin(c, o)
      PROVE  SessionHasObject'
    BY <1>2 DEF ConnectBegin
<1>3. ASSUME NEW o \in Objects, Restart(o)
      PROVE  SessionHasObject'
    BY <1>3 DEF Restart
<1>4. CASE UNCHANGED <<object, session>>
    BY <1>4
<1> QED
    BY <1>1, <1>2, <1>3, <1>4
    DEF Next, ConnectEnd, AddVariableNode, ActivateEvent, DeactivateEvent,
        Deliver, vars

(* The registries keep to their types. *)
THEOREM TypeCorrect == Spec => [](TypeOK /\ SessionHasObject)
<1>1. Init => TypeOK /\ SessionHasObject
    BY IntervalAssumption DEF Init, TypeOK, SessionHasObject, StatusCode
<1>2. TypeOK /\ SessionHasObject /\ [Next]_vars
          => (TypeOK /\ SessionHasObject)'
    BY TypeStep, SessionStep
<1> QED
    BY <1>1, <1>2, PTL DEF Spec

(***************************************************************************)
(* The sleep of run_once                                                   *)
(***************************************************************************)

(* What a successful request adds, and a failed one leaves. *)
LEMMA CreateSubscriptionAdds ==
    ASSUME TypeOK, SessionHasObject, NEW c \in Clients, NEW i \in NodeIds,
           NEW n \in Names, NEW interval \in Nat,
           CreateSubscription(c, i, n, interval)
    PROVE  /\ minInterval'[c] <= interval /\ minInterval'[c] <= minInterval[c]
           /\ \A d \in Clients \ {c} : /\ subs'[d] = subs[d]
                                       /\ minInterval'[d] = minInterval[d]
           /\ \A s \in subs'[c] \ subs[c] : s.interval = interval
<1>1. /\ minInterval'[c] <= interval /\ minInterval'[c] <= minInterval[c]
      /\ \A d \in Clients \ {c} : minInterval'[d] = minInterval[d]
    BY DEF TypeOK, CreateSubscription, ShorterInterval
<1>2. /\ \A d \in Clients \ {c} : subs'[d] = subs[d]
      /\ \A s \in subs'[c] \ subs[c] : s.interval = interval
  <2>1. CASE UNCHANGED subs
      BY <2>1
  <2>2. ASSUME NEW item, Created(c, item, interval)
        PROVE  /\ \A d \in Clients \ {c} : subs'[d] = subs[d]
               /\ \A s \in subs'[c] \ subs[c] : s.interval = interval
      BY <2>2 DEF TypeOK, Created
  <2> QED
      BY <2>1, <2>2 DEF CreateSubscription
<1> QED
    BY <1>1, <1>2

(* No operation lets minInterval exceed the interval of a subscription. *)
LEMMA SleepStep ==
    ASSUME TypeOK, SessionHasObject, SleepIsShortEnough, [Next]_vars
    PROVE  SleepIsShortEnough'
<1> USE DEF SleepIsShortEnough, registries
<1>1. ASSUME NEW c \in Clients, NEW n \in Names, NEW subscribe \in BOOLEAN,
             NEW interval \in Intervals,
             AddVariableNode(c, n, subscribe, interval)
      PROVE  SleepIsShortEnough'
  <2>1. CASE UNCHANGED <<minInterval, subs>>
      BY <2>1
  <2>2. ASSUME NEW i \in Lookup(c, n) \ {Nothing},
               CreateSubscription(c, i, n, interval)
        PROVE  SleepIsShortEnough'
    <3>1. /\ minInterval'[c] <= interval /\ minInterval'[c] <= minInterval[c]
          /\ \A d \in Clients \ {c} : /\ subs'[d] = subs[d]
                                      /\ minInterval'[d] = minInterval[d]
          /\ \A s \in subs'[c] \ subs[c] : s.interval = interval
        BY <2>2, LookupType, IntervalAssumption, CreateSubscriptionAdds
    <3>2. minInterval \in [Clients -> Nat] /\ minInterval' \in [Clients -> Nat]
          /\ \A s \in subs[c] : s.interval \in Nat
        BY <1>1, TypeStep DEF TypeOK, Subscription, Next
    <3>3. \A s \in subs'[c] : s.item.kind = "data" =>
                minInterval'[c] <= s.interval
      <4> SUFFICES ASSUME NEW s \in subs'[c], s.item.kind = "data"
                   PROVE  minInterval'[c] <= s.interval
          OBVIOUS
      <4>1. CASE s \in subs[c]
          BY <3>1, <3>2, <4>1
      <4>2. CASE s \notin subs[c]
          BY <3>1, <4>2
      <4> QED
          BY <4>1, <4>2
    <3> QED
        BY <3>1, <3>3
  <2> QED
      BY <1>1, <2>1, <2>2 DEF AddVariableNode
<1>2. ASSUME NEW c \in Clients, ActivateEvent(c)
      PROVE  SleepIsShortEnough'
  <2>1. UNCHANGED minInterval
      BY <1>2 DEF ActivateEvent
  <2>2. PICK item \in {Event, NoItem} : Created(c, item, Default)
      BY <1>2 DEF ActivateEvent
  <2>3. item.kind # "data"
      BY DEF Event, NoItem
  <2> QED
      BY <2>1, <2>2, <2>3 DEF TypeOK, Created
<1>3. ASSUME NEW c \in Clients, NEW id \in Ids, DeactivateEvent(c, id)
      PROVE  SleepIsShortEnough'
    BY <1>3 DEF DeactivateEvent, TypeOK
<1>4. ASSUME NEW c \in Clients,
             Disconnect(c) \/ ConnectFail(c) \/ ConnectEnd(c)
                 \/ \E o \in Objects : ConnectBegin(c, o)
      PROVE  SleepIsShortEnough'
    BY <1>4 DEF Disconnect, ConnectFail, ConnectEnd, ConnectBegin,
                Disconnected, TypeOK
<1>5. ASSUME NEW o \in Objects, Restart(o)
      PROVE  SleepIsShortEnough'
    BY <1>5 DEF Restart
<1>6. ASSUME (\E c \in Clients : \E s \in subs[c] : Deliver(c, s))
                 \/ UNCHANGED vars
      PROVE  SleepIsShortEnough'
    BY <1>6 DEF Deliver, vars
<1> QED
    BY <1>1, <1>2, <1>3, <1>4, <1>5, <1>6 DEF Next

(* For any client objects, run_once never sleeps longer than the interval  *)
(* of one of its live data subscriptions.                                  *)
THEOREM SleepStaysShortEnough == Spec => []SleepIsShortEnough
<1>1. Init => SleepIsShortEnough
    BY DEF Init, SleepIsShortEnough
<1>2. TypeOK /\ SessionHasObject /\ SleepIsShortEnough /\ [Next]_vars
          => SleepIsShortEnough'
    BY SleepStep
<1> QED
    BY <1>1, <1>2, TypeCorrect, PTL DEF Spec

(***************************************************************************)
(* Routing                                                                 *)
(***************************************************************************)

(* The bindings are keyed by the subscription id alone, so either there is *)
(* one client object, or all of them use one server.                       *)
OneRoute ==
    \/ \A c, d \in Clients : c = d
    \/ \A o, p \in Objects : o = p

(* A server counts on from the ids in use: the next one is fresh.          *)
IdsInUse ==
    \A c \in Clients : \A s \in subs[c] :
        session[c] /\ s.id <= lastId[object[c]]

RoutingInv == TypeOK /\ SessionHasObject /\ IdsInUse /\ LiveItemsAreRouted

(* The id a server is about to hand out is not the id of a live item. *)
LEMMA FreshId ==
    ASSUME OneRoute, RoutingInv, NEW c \in Clients, session[c],
           NEW d \in Clients, NEW s \in subs[d]
    PROVE  s.id # NewId(c)
<1>1. session[d] /\ s.id <= lastId[object[d]]
    BY DEF RoutingInv, IdsInUse
<1>2. object[c] \in Objects /\ object[d] \in Objects
    BY <1>1 DEF RoutingInv, TypeOK, SessionHasObject
<1>3. object[d] = object[c]
    BY <1>2 DEF OneRoute
<1>4. lastId[object[c]] \in Nat /\ s.id \in Nat
    BY <1>2 DEF RoutingInv, TypeOK, Subscription, Ids
<1> QED
    BY <1>1, <1>3, <1>4 DEF NewId

(* The subscriptions after a request are the old ones and the new one. *)
LEMMA CreatedAdds ==
    ASSUME TypeOK, SessionHasObject, IdsInUse, NEW c \in Clients, NEW item, NEW interval,
           Created(c, item, interval), UNCHANGED <<object, session>>
    PROVE  /\ session[c] /\ NewId(c) \in Ids
           /\ \A d \in Clients \ {c} : subs'[d] = subs[d]
           /\ subs'[c] = subs[c] \cup
                 {[id |-> NewId(c), item |-> item, interval |-> interval]}
           /\ IdsInUse'
<1>1. /\ session[c] /\ NewId(c) \in Ids
      /\ \A d \in Clients \ {c} : subs'[d] = subs[d]
      /\ subs'[c] = subs[c] \cup
            {[id |-> NewId(c), item |-> item, interval |-> interval]}
      /\ lastId' = [lastId EXCEPT ![object[c]] = NewId(c)]
    BY DEF Created, TypeOK
<1>2. \A o \in Objects : lastId[o] \in Nat /\ lastId'[o] \in Nat
                         /\ lastId[o] <= lastId'[o]
    BY <1>1 DEF TypeOK, NewId, Ids
<1>3. object[c] \in Objects
    BY <1>1 DEF TypeOK, SessionHasObject
<1>4. ASSUME NEW d \in Clients, NEW s \in subs[d]
      PROVE  session[d] /\ s.id <= lastId'[object[d]]
  <2>1. session[d] /\ s.id <= lastId[object[d]] /\ s.id \in Nat
      BY DEF TypeOK, IdsInUse, Subscription, Ids
  <2>2. object[d] \in Objects
      BY <2>1 DEF TypeOK, SessionHasObject
  <2> QED
      BY <1>2, <2>1, <2>2
<1>5. NewId(c) <= lastId'[object[c]]
    BY <1>1, <1>2, <1>3 DEF TypeOK
<1>6. ASSUME NEW d \in Clients, NEW s \in subs'[d]
      PROVE  session'[d] /\ s.id <= lastId'[object'[d]]
  <2>1. CASE s \in subs[d]
      BY <1>4, <2>1
  <2>2. CASE s \notin subs[d]
    <3>1. d = c /\ s.id = NewId(c)
        BY <1>1, <1>6, <2>2
    <3> QED
        BY <1>1, <1>5, <3>1
  <2> QED
      BY <2>1, <2>2
<1>7. IdsInUse'
    BY <1>6 DEF IdsInUse
<1> QED
    BY <1>1, <1>7

(* What a data item is made of. *)
LEMMA DataItemOf ==
    ASSUME TypeOK, NEW c \in Clients, NEW s \in subs[c], s.item.kind = "data"
    PROVE  /\ s.item.object \in Objects /\ s.item.node \in NodeIds
           /\ s.item.name \in Names
<1>1. s.item \in Item \cup {Event, NoItem}
    BY DEF TypeOK, Subscription
<1>2. Event.kind # "data" /\ NoItem.kind # "data"
    BY DEF Event, NoItem
<1>3. s.item \in Item
    BY <1>1, <1>2
<1> QED
    BY <1>3 DEF Item

(* No operation unbinds a live item or binds its id to something else. *)
LEMMA RoutingStep ==
    ASSUME OneRoute, RoutingInv, [Next]_vars
    PROVE  IdsInUse' /\ LiveItemsAreRouted'
<1> USE DEF LiveItemsAreRouted, Routed, registries, statics, servers
<1>1. ASSUME NEW c \in Clients, NEW n \in Names, NEW subscribe \in BOOLEAN,
             NEW interval \in Intervals,
             AddVariableNode(c, n, subscribe, interval)
      PROVE  IdsInUse' /\ LiveItemsAreRouted'
  <2>0. UNCHANGED <<object, session, events, eventBinding>>
      BY <1>1 DEF AddVariableNode
  <2>1. PICK i \in Lookup(c, n) \ {Nothing} :
            /\ entity' = [entity EXCEPT ![c][n] = i]
            /\ IF subscribe THEN CreateSubscription(c, i, n, interval)
               ELSE UNCHANGED <<minInterval, subReg, binding, lastId, subs>>
      BY <1>1 DEF AddVariableNode
  <2>2. i \in NodeIds /\ entity[c][n] \in {Nothing, i}
      BY <2>1, LookupType DEF RoutingInv
  <2>3. ASSUME NEW d \in Clients, NEW s \in subs[d], s.item.kind = "data"
        PROVE  s.item.node = entity'[d][s.item.name]
    <3>1. s.item.node = entity[d][s.item.name]
        BY <2>3 DEF RoutingInv
    <3>2. s.item.name \in Names /\ s.item.node \in NodeIds
        BY <2>3, DataItemOf DEF RoutingInv
    <3>3. entity[d][s.item.name] # Nothing
        BY <3>1, <3>2, NothingAssumption
    <3> QED
        BY <2>1, <2>2, <3>1, <3>2, <3>3 DEF RoutingInv, TypeOK
  <2>4. CASE UNCHANGED <<subReg, binding, lastId, subs>>
    <3>1. IdsInUse'
        BY <2>0, <2>4 DEF RoutingInv, IdsInUse
    <3>2. LiveItemsAreRouted'
        BY <2>0, <2>3, <2>4 DEF RoutingInv
    <3> QED
        BY <3>1, <3>2
  <2>5. ASSUME NEW item \in {NoItem} \cup ItemsOn(c, i, n),
               Created(c, item, interval), Registered(c, n), Bound(c)
        PROVE  IdsInUse' /\ LiveItemsAreRouted'
    <3>1. /\ session[c] /\ NewId(c) \in Ids
          /\ \A d \in Clients \ {c} : subs'[d] = subs[d]
          /\ subs'[c] = subs[c] \cup
                {[id |-> NewId(c), item |-> item, interval |-> interval]}
          /\ IdsInUse'
        BY <2>0, <2>5, CreatedAdds DEF RoutingInv
    <3>2. /\ subReg' = [subReg EXCEPT ![c][NewId(c)] = n]
          /\ binding' = [binding EXCEPT ![NewId(c)] = c]
        BY <2>5 DEF Registered, Bound
    <3>3. ASSUME NEW d \in Clients, NEW s \in subs[d]
          PROVE  Routed(d, s)'
      <4>1. s.id # NewId(c) /\ s.id \in Ids
          BY <3>1, FreshId DEF RoutingInv, TypeOK, Subscription
      <4>2. Routed(d, s)
          BY DEF RoutingInv
      <4>3. binding'[s.id] = binding[s.id] /\ subReg'[d][s.id] = subReg[d][s.id]
          BY <3>2, <4>1 DEF RoutingInv, TypeOK
      <4> QED
          BY <2>0, <2>3, <4>2, <4>3
    <3>4. /\ binding'[NewId(c)] = c /\ subReg'[c][NewId(c)] = n
          /\ entity'[c][n] = i
        BY <2>1, <3>1, <3>2 DEF RoutingInv, TypeOK
    <3>5. /\ item.kind # "event"
          /\ item.kind = "data" => /\ item.name = n /\ item.node = i
                                   /\ item.object = object[c]
      <4>1. CASE item = NoItem
          BY <4>1 DEF NoItem
      <4>2. CASE item \in ItemsOn(c, i, n)
        <5>1. /\ item.kind = "data" /\ item.name = n /\ item.node = i
              /\ item.object = object[c]
            BY <2>2, <3>1, <4>2, ItemsType DEF RoutingInv
        <5> QED
            BY <5>1
      <4> QED
          BY <2>5, <4>1, <4>2
    <3>6. ASSUME NEW d \in Clients, NEW s \in subs'[d] \ subs[d]
          PROVE  Routed(d, s)'
      <4>1. d = c /\ s.id = NewId(c) /\ s.item = item
          BY <3>1, <3>6
      <4> QED
          BY <2>0, <3>4, <3>5, <4>1
    <3>7. LiveItemsAreRouted'
        BY <3>3, <3>6
    <3> QED
        BY <3>1, <3>7
  <2> QED
      BY <2>1, <2>4, <2>5 DEF CreateSubscription
<1>2. ASSUME NEW c \in Clients, ActivateEvent(c)
      PROVE  IdsInUse' /\ LiveItemsAreRouted'
  <2>0. UNCHANGED <<object, session, entity, subReg, binding>>
      BY <1>2 DEF ActivateEvent
  <2>1. PICK item \in {Event, NoItem} :
            /\ Created(c, item, Default)
            /\ \/ item = NoItem /\ UNCHANGED <<events, eventBinding>>
               \/ /\ item = Event
                  /\ events' = [events EXCEPT ![c] = @ \cup {NewId(c)}]
                  /\ eventBinding' = [eventBinding EXCEPT ![NewId(c)] = c]
      BY <1>2 DEF ActivateEvent
  <2>2. /\ session[c] /\ NewId(c) \in Ids
        /\ \A d \in Clients \ {c} : subs'[d] = subs[d]
        /\ subs'[c] = subs[c] \cup
              {[id |-> NewId(c), item |-> item, interval |-> Default]}
        /\ IdsInUse'
      BY <2>0, <2>1, CreatedAdds DEF RoutingInv
  <2>3. ASSUME NEW d \in Clients, NEW s \in subs[d]
        PROVE  Routed(d, s)'
    <3>1. s.id # NewId(c) /\ s.id \in Ids
        BY <2>2, FreshId DEF RoutingInv, TypeOK, Subscription
    <3>2. Routed(d, s)
        BY DEF RoutingInv
    <3>3. /\ events \in [Clients -> SUBSET Ids]
          /\ eventBinding \in [Ids -> Clients \cup {Nothing}]
        BY DEF RoutingInv, TypeOK
    <3>4. eventBinding'[s.id] = eventBinding[s.id]
      <4>1. CASE UNCHANGED eventBinding
          BY <4>1
      <4>2. CASE eventBinding' = [eventBinding EXCEPT ![NewId(c)] = c]
          BY <3>1, <3>3, <4>2
      <4> QED
          BY <2>1, <4>1, <4>2
    <3>5. s.id \in events[d] => s.id \in events'[d]
      <4>1. CASE UNCHANGED events
          BY <4>1
      <4>2. CASE events' = [events EXCEPT ![c] = @ \cup {NewId(c)}]
          BY <3>3, <4>2
      <4> QED
          BY <2>1, <4>1, <4>2
    <3> QED
        BY <2>0, <3>2, <3>4, <3>5
  <2>4. ASSUME NEW d \in Clients, NEW s \in subs'[d] \ subs[d]
        PROVE  Routed(d, s)'
    <3>1. d = c /\ s.id = NewId(c) /\ s.item = item
        BY <2>2, <2>4
    <3>2. CASE item = NoItem
        BY <3>1, <3>2 DEF NoItem
    <3>3. CASE item = Event
      <4>1. item # NoItem
          BY <3>3 DEF Event, NoItem
      <4>2. /\ events' = [events EXCEPT ![c] = @ \cup {NewId(c)}]
            /\ eventBinding' = [eventBinding EXCEPT ![NewId(c)] = c]
          BY <2>1, <4>1
      <4>3. /\ events \in [Clients -> SUBSET Ids]
            /\ eventBinding \in [Ids -> Clients \cup {Nothing}]
          BY DEF RoutingInv, TypeOK
      <4>4. eventBinding'[NewId(c)] = c /\ NewId(c) \in events'[c]
          BY <2>2, <4>2, <4>3
      <4>5. s.item.kind # "data"
          BY <3>1, <3>3 DEF Event
      <4> QED
          BY <3>1, <4>4, <4>5
    <3> QED
        BY <2>1, <3>2, <3>3
  <2> QED
      BY <2>2, <2>3, <2>4
<1>3. ASSUME NEW c \in Clients, NEW id \in Ids, DeactivateEvent(c, id)
      PROVE  IdsInUse' /\ LiveItemsAreRouted'
  <2>1. /\ subs' = [subs EXCEPT ![c] = {s \in @ : s.id # id}]
        /\ events' = [events EXCEPT ![c] = @ \ {id}]
        /\ UNCHANGED <<object, session, entity, subReg, statics, lastId>>
      BY <1>3 DEF DeactivateEvent
  <2>2. \A d \in Clients : \A s \in subs'[d] :
            s \in subs[d] /\ (s.id \in events[d] => s.id \in events'[d])
      BY <2>1 DEF RoutingInv, TypeOK
  <2>3. IdsInUse'
      BY <2>1, <2>2 DEF RoutingInv, IdsInUse
  <2>4. LiveItemsAreRouted'
      BY <2>1, <2>2 DEF RoutingInv
  <2> QED
      BY <2>3, <2>4
<1>4. ASSUME NEW c \in Clients,
             Disconnect(c) \/ ConnectFail(c) \/ ConnectEnd(c)
                 \/ \E o \in Objects : ConnectBegin(c, o)
      PROVE  IdsInUse' /\ LiveItemsAreRouted'
  <2>1. /\ UNCHANGED <<registries, statics, servers>>
        /\ \A d \in Clients : \/ subs'[d] = {}
                              \/ /\ subs'[d] = subs[d]
                                 /\ object'[d] = object[d]
                                 /\ session'[d] = session[d]
      BY <1>4 DEF Disconnect, ConnectFail, ConnectEnd, ConnectBegin,
                  Disconnected, RoutingInv, TypeOK
  <2> QED
      BY <2>1 DEF RoutingInv, IdsInUse
<1>5. ASSUME NEW o \in Objects, Restart(o)
      PROVE  IdsInUse' /\ LiveItemsAreRouted'
  <2>1. /\ UNCHANGED <<object, registries, statics>>
        /\ \A d \in Clients : \/ subs'[d] = {}
                              \/ /\ subs'[d] = subs[d] /\ object[d] # o
                                 /\ session'[d] = session[d]
      BY <1>5 DEF Restart, RoutingInv, TypeOK
  <2>2. \A p \in Objects \ {o} : lastId'[p] = lastId[p]
      BY <1>5 DEF Restart, RoutingInv, TypeOK
  <2>3. IdsInUse'
    <3> SUFFICES ASSUME NEW d \in Clients, NEW s \in subs'[d]
                 PROVE  session'[d] /\ s.id <= lastId'[object'[d]]
        BY DEF IdsInUse
    <3>1. s \in subs[d] /\ object[d] # o /\ session'[d] = session[d]
        BY <2>1
    <3>2. session[d] /\ s.id <= lastId[object[d]]
        BY <3>1 DEF RoutingInv, IdsInUse
    <3>3. object[d] \in Objects
        BY <3>2 DEF RoutingInv, TypeOK, SessionHasObject
    <3> QED
        BY <2>1, <2>2, <3>1, <3>2, <3>3
  <2>4. LiveItemsAreRouted'
      BY <2>1 DEF RoutingInv
  <2> QED
      BY <2>3, <2>4
<1>6. ASSUME (\E c \in Clients : \E s \in subs[c] : Deliver(c, s))
                 \/ UNCHANGED vars
      PROVE  IdsInUse' /\ LiveItemsAreRouted'
  <2>1. UNCHANGED <<object, session, subs, lastId, entity, subReg, events,
                    binding, eventBinding>>
      BY <1>6 DEF Deliver, vars
  <2>2. IdsInUse'
      BY <2>1 DEF RoutingInv, IdsInUse
  <2>3. LiveItemsAreRouted'
      BY <2>1 DEF RoutingInv
  <2> QED
      BY <2>2, <2>3
<1> QED
    BY <1>1, <1>2, <1>3, <1>4, <1>5, <1>6 DEF Next

(* The inductive invariant behind the two theorems that follow. *)
LEMMA RoutingHolds ==
    ASSUME OneRoute
    PROVE  Spec => []RoutingInv
<1>1. Init => RoutingInv
    BY IntervalAssumption
    DEF Init, RoutingInv, TypeOK, SessionHasObject, StatusCode, IdsInUse,
        LiveItemsAreRouted
<1>2. RoutingInv /\ [Next]_vars => RoutingInv'
    BY RoutingStep, TypeStep, SessionStep DEF RoutingInv
<1> QED
    BY <1>1, <1>2, PTL DEF Spec

(* With one client object, or several that use one server, every live item *)
(* is routed to the object and name, or event handler, it was made for,    *)
(* over any number of connections and server restarts.                     *)
THEOREM ItemsStayRouted ==
    ASSUME OneRoute
    PROVE  Spec => []LiveItemsAreRouted
<1>1. RoutingInv => LiveItemsAreRouted
    BY DEF RoutingInv
<1> QED
    BY <1>1, RoutingHolds, PTL

(* Only names that are registered have values.                             *)
StoredIsRegistered ==
    \A c \in Clients, n \in Names :
        stored[c][n] # NoOrigin => entity[c][n] # Nothing

(* A registered name keeps its id.                                         *)
LEMMA NamesStay ==
    ASSUME TypeOK, SessionHasObject, [Next]_vars,
           NEW c \in Clients, NEW n \in Names, entity[c][n] # Nothing
    PROVE  entity'[c][n] = entity[c][n]
<1>1. CASE UNCHANGED entity
    BY <1>1
<1>2. ASSUME NEW d \in Clients, NEW m \in Names, NEW subscribe \in BOOLEAN,
             NEW interval \in Intervals,
             AddVariableNode(d, m, subscribe, interval)
      PROVE  entity'[c][n] = entity[c][n]
  <2>1. PICK i \in Lookup(d, m) \ {Nothing} :
            entity' = [entity EXCEPT ![d][m] = i]
      BY <1>2 DEF AddVariableNode
  <2>2. entity[d][m] \in {Nothing, i}
      BY <2>1, LookupType
  <2> QED
      BY <2>1, <2>2 DEF TypeOK
<1> QED
    BY <1>1, <1>2
    DEF Next, Disconnect, ConnectFail, ConnectEnd, ConnectBegin,
        ActivateEvent, DeactivateEvent, Deliver, Restart, registries, vars

(* A notification that is delivered is stored where its item belongs. *)
LEMMA HomeStep ==
    ASSUME RoutingInv, ValuesAreAtHome, StoredIsRegistered, [Next]_vars
    PROVE  ValuesAreAtHome' /\ StoredIsRegistered'
<1>0. TypeOK /\ SessionHasObject
    BY DEF RoutingInv
<1>1. ASSUME NEW c \in Clients, NEW s \in subs[c], Deliver(c, s)
      PROVE  ValuesAreAtHome' /\ StoredIsRegistered'
  <2>1. /\ binding[s.id] = c /\ subReg[c][s.id] = s.item.name
        /\ s.item.node = entity[c][s.item.name]
        /\ s.item.kind = "data"
      BY <1>1 DEF Deliver, RoutingInv, LiveItemsAreRouted, Routed
  <2>2. stored' = [stored EXCEPT ![c][s.item.name] =
                       [client |-> c, object |-> s.item.object,
                        node |-> s.item.node, name |-> s.item.name]]
      BY <1>1, <2>1 DEF Deliver
  <2>3. s.item.node # Nothing
      BY <1>0, <2>1, DataItemOf, NothingAssumption
  <2>4. entity' = entity
      BY <1>1 DEF Deliver, registries
  <2> QED
      BY <1>0, <2>1, <2>2, <2>3, <2>4 DEF ValuesAreAtHome, StoredIsRegistered, TypeOK
<1>2. CASE UNCHANGED stored
    BY <1>0, <1>2, NamesStay DEF ValuesAreAtHome, StoredIsRegistered
<1> QED
    BY <1>1, <1>2
    DEF Next, Disconnect, ConnectFail, ConnectEnd, ConnectBegin,
        AddVariableNode, ActivateEvent, DeactivateEvent, Restart, vars

(* Under the same condition a value is stored by the client that received  *)
(* it, under the name its item was made for, and comes from the node id    *)
(* that the name stands for.                                               *)
THEOREM ValuesStayAtHome ==
    ASSUME OneRoute
    PROVE  Spec => []ValuesAreAtHome
<1>1. Init => ValuesAreAtHome /\ StoredIsRegistered
    BY DEF Init, ValuesAreAtHome, StoredIsRegistered
<1>2. RoutingInv /\ ValuesAreAtHome /\ StoredIsRegistered /\ [Next]_vars
          => (ValuesAreAtHome /\ StoredIsRegistered)'
    BY HomeStep
<1> QED
    BY <1>1, <1>2, RoutingHolds, PTL DEF Spec

(***************************************************************************)
(* Subscriptions by name                                                   *)
(***************************************************************************)

(* Items are those of node ids.                                            *)
LEMMA DataItemsType ==
    ASSUME TypeOK, NEW c \in Clients
    PROVE  DataItems(c) \in SUBSET (Objects \X NodeIds \X Names)
BY DataItemOf DEF DataItems

(* A step in which subscriptions end, at most. *)
LEMMA EndingStep ==
    ASSUME TypeOK, UNCHANGED <<entity, stored>>,
           \A c \in Clients : subs'[c] \subseteq subs[c]
    PROVE  Promised!Next
<1>1. \A c \in Clients : DataItems(c)' \subseteq DataItems(c)
    BY DEF DataItems
<1>2. \A c \in Clients : DataItems(c)' \in SUBSET (Objects \X NodeIds \X Names)
    BY <1>1, DataItemsType
<1>3. Promised!End
    BY <1>1, <1>2 DEF Promised!End
<1> QED
    BY <1>3 DEF Promised!Next

(* A subscription that is made adds its item, if it has one.               *)
LEMMA CreatedItems ==
    ASSUME TypeOK, NEW c \in Clients, NEW item, NEW interval,
           Created(c, item, interval)
    PROVE  /\ \A d \in Clients \ {c} : DataItems(d)' = DataItems(d)
           /\ DataItems(c)' = DataItems(c) \cup
                  IF item.kind = "data"
                  THEN {<<item.object, item.node, item.name>>} ELSE {}
<1> DEFINE new == [id |-> NewId(c), item |-> item, interval |-> interval]
<1>1. /\ \A d \in Clients \ {c} : subs'[d] = subs[d]
      /\ subs'[c] = subs[c] \cup {new}
      /\ new.item = item
    BY DEF Created, TypeOK
<1> HIDE DEF new
<1> QED
    BY <1>1 DEF DataItems

(* Adding a variable.                                                      *)
LEMMA AddingStep ==
    ASSUME TypeOK, SessionHasObject,
           NEW c \in Clients, NEW n \in Names, NEW subscribe \in BOOLEAN,
           NEW interval \in Intervals, building[c] => object[c] # Nothing,
           AddVariableNode(c, n, subscribe, interval)
    PROVE  Promised!Next
<1>1. PICK i \in Lookup(c, n) \ {Nothing} :
          /\ entity' = [entity EXCEPT ![c][n] = i]
          /\ IF subscribe THEN CreateSubscription(c, i, n, interval)
             ELSE UNCHANGED <<minInterval, subReg, binding, lastId, subs>>
    BY DEF AddVariableNode
<1> DEFINE o == object[c]
<1>2. /\ i \in NodeIds /\ entity'[c][n] = i /\ stored' = stored
      /\ o \in Objects
  <2>1. i \in NodeIds
      BY <1>1, LookupType
  <2>2. o \in Objects
      BY DEF AddVariableNode, TypeOK
  <2> QED
      BY <1>1, <2>1, <2>2 DEF AddVariableNode, TypeOK
<1>3. \/ /\ entity[c][n] = Nothing /\ NodeOf[o][n] # Nothing
         /\ entity' = [entity EXCEPT ![c][n] = NodeOf[o][n]]
      \/ entity[c][n] # Nothing /\ UNCHANGED entity
  <2>1. CASE entity[c][n] = i
    <3>1. entity[c][n] # Nothing
        BY <1>1, <2>1
    <3>2. entity' = entity
        BY <1>1, <2>1 DEF TypeOK
    <3> QED
        BY <3>1, <3>2
  <2>2. CASE entity[c][n] = Nothing /\ i = NodeOf[object[c]][n]
      BY <1>1, <2>2
  <2> QED
      BY <1>1, <2>1, <2>2, LookupType
<1>4. CASE UNCHANGED subs
  <2>1. \A d \in Clients : DataItems(d)' = DataItems(d)
      BY <1>4 DEF DataItems
  <2>2. Promised!Add(c, n, o)
      BY <1>2, <1>3, <2>1 DEF Promised!Add
  <2> QED
      BY <1>2, <2>2 DEF Promised!Next
<1>5. ASSUME NEW item \in {NoItem} \cup ItemsOn(c, i, n),
             Created(c, item, interval)
      PROVE  Promised!Next
  <2>1. /\ \A d \in Clients \ {c} : DataItems(d)' = DataItems(d)
        /\ DataItems(c)' = DataItems(c) \cup
               IF item.kind = "data"
               THEN {<<item.object, item.node, item.name>>} ELSE {}
      BY <1>5, CreatedItems
  <2>2. CASE item = NoItem
    <3>1. \A d \in Clients : DataItems(d)' = DataItems(d)
        BY <2>1, <2>2 DEF NoItem
    <3>2. Promised!Add(c, n, o)
        BY <1>2, <1>3, <3>1 DEF Promised!Add
    <3> QED
        BY <1>2, <3>2 DEF Promised!Next
  <2>3. CASE item \in ItemsOn(c, i, n)
    <3>1. /\ item.kind = "data" /\ item.name = n /\ item.node = i
          /\ item.object = o /\ \E m \in Names : NodeOf[o][m] = i
        BY <1>2, <1>5, <2>3, ItemsType DEF Created
    <3>2. DataItems(c)' = DataItems(c) \cup {<<o, i, n>>}
        BY <2>1, <3>1
    <3>3. Promised!Add(c, n, o)
        BY <1>2, <1>3, <2>1, <3>1, <3>2 DEF Promised!Add
    <3> QED
        BY <1>2, <3>3 DEF Promised!Next
  <2> QED
      BY <1>5, <2>2, <2>3
<1> QED
    BY <1>1, <1>4, <1>5 DEF CreateSubscription

(* A notification is stored where the item it is for belongs.              *)
LEMMA UpdatingStep ==
    ASSUME RoutingInv, NEW c \in Clients, NEW s \in subs[c], Deliver(c, s)
    PROVE  Promised!Next
<1>1. /\ binding[s.id] = c /\ subReg[c][s.id] = s.item.name
      /\ s.item.node = entity[c][s.item.name]
      /\ s.item.kind = "data"
    BY DEF Deliver, RoutingInv, LiveItemsAreRouted, Routed
<1>2. stored' = [stored EXCEPT ![c][s.item.name] =
                     [client |-> c, object |-> s.item.object,
                      node |-> s.item.node, name |-> s.item.name]]
    BY <1>1 DEF Deliver
<1>3. <<s.item.object, s.item.node, s.item.name>> \in DataItems(c)
    BY <1>1 DEF DataItems
<1>4. s.item.object \in Objects /\ s.item.name \in Names
    BY <1>1, DataItemOf DEF RoutingInv
<1>5. entity' = entity /\ \A d \in Clients : DataItems(d)' = DataItems(d)
    BY DEF Deliver, registries, DataItems
<1>6. Promised!Update(c, s.item.object, s.item.name)
    BY <1>1, <1>2, <1>3, <1>5 DEF Promised!Update
<1> QED
    BY <1>4, <1>6 DEF Promised!Next

(* Inside connect a client has an object.                                  *)
BuildingHasObject == \A c \in Clients : building[c] => object[c] # Nothing

LEMMA BuildingStep ==
    ASSUME TypeOK, BuildingHasObject, [Next]_vars
    PROVE  BuildingHasObject'
<1> USE DEF BuildingHasObject, TypeOK
<1>1. ASSUME NEW c \in Clients, Disconnect(c) \/ ConnectFail(c) \/ ConnectEnd(c)
      PROVE  BuildingHasObject'
    BY <1>1 DEF Disconnect, ConnectFail, ConnectEnd, Disconnected
<1>2. ASSUME NEW c \in Clients, NEW o \in Objects, ConnectBegin(c, o)
      PROVE  BuildingHasObject'
    BY <1>2, NothingAssumption DEF ConnectBegin
<1>3. CASE UNCHANGED <<object, building>>
    BY <1>3
<1> QED
    BY <1>1, <1>2, <1>3
    DEF Next, AddVariableNode, ActivateEvent, DeactivateEvent, Deliver,
        Restart, vars

(* With one client object, or several that use one server, every step does *)
(* what subscriptions by name would do: the ids, the registries keyed by   *)
(* them and the static bindings cannot be seen (OpcUaGenericClient.cc      *)
(* 44-59, 363-449).                                                        *)
THEOREM RegistriesAreSubscriptions ==
    ASSUME OneRoute
    PROVE  Spec => SubscriptionsAreByName
<1>0. Spec => []BuildingHasObject
  <2>1. Init => BuildingHasObject
      BY DEF Init, BuildingHasObject
  <2>2. TypeOK /\ SessionHasObject /\ BuildingHasObject /\ [Next]_vars
            => BuildingHasObject'
      BY BuildingStep
  <2> QED
      BY <2>1, <2>2, TypeCorrect, PTL DEF Spec
<1>1. Init => Promised!Init
    BY DEF Init, Promised!Init, Promised!Never, NoOrigin, DataItems
<1>2. RoutingInv /\ BuildingHasObject /\ [Next]_vars
          => [Promised!Next]_(Promised!subscriptionVars)
  <2> SUFFICES ASSUME RoutingInv, BuildingHasObject, [Next]_vars
               PROVE  Promised!Next \/ UNCHANGED Promised!subscriptionVars
      OBVIOUS
  <2>1. TypeOK /\ SessionHasObject
      BY DEF RoutingInv
  <2>2. ASSUME NEW c \in Clients,
               Disconnect(c) \/ ConnectFail(c) \/ ConnectEnd(c)
                   \/ \E o \in Objects : ConnectBegin(c, o)
        PROVE  Promised!Next
    <3>1. UNCHANGED <<entity, stored>> /\ \A d \in Clients : subs'[d] \subseteq subs[d]
        BY <2>1, <2>2 DEF Disconnect, ConnectFail, ConnectEnd, ConnectBegin, Disconnected,
                          registries, TypeOK
    <3> QED
        BY <2>1, <3>1, EndingStep
  <2>3. ASSUME NEW c \in Clients, NEW id \in Ids, DeactivateEvent(c, id)
        PROVE  Promised!Next
    <3>1. UNCHANGED <<entity, stored>> /\ \A d \in Clients : subs'[d] \subseteq subs[d]
        BY <2>1, <2>3 DEF DeactivateEvent, TypeOK
    <3> QED
        BY <2>1, <3>1, EndingStep
  <2>4. ASSUME NEW o \in Objects, Restart(o)
        PROVE  Promised!Next
    <3>1. UNCHANGED <<entity, stored>> /\ \A d \in Clients : subs'[d] \subseteq subs[d]
        BY <2>1, <2>4 DEF Restart, registries, TypeOK
    <3> QED
        BY <2>1, <3>1, EndingStep
  <2>5. ASSUME NEW c \in Clients, ActivateEvent(c)
        PROVE  UNCHANGED Promised!subscriptionVars
    <3>1. PICK item \in {Event, NoItem} : Created(c, item, Default)
        BY <2>5 DEF ActivateEvent
    <3>2. item.kind # "data"
        BY DEF Event, NoItem
    <3>3. \A d \in Clients : DataItems(d)' = DataItems(d)
        BY <2>1, <3>1, <3>2, CreatedItems
    <3> QED
        BY <2>5, <3>3 DEF ActivateEvent, Promised!subscriptionVars
  <2>6. CASE UNCHANGED vars
      BY <2>6 DEF vars, registries, Promised!subscriptionVars, DataItems
  <2> QED
      BY <2>1, <2>2, <2>3, <2>4, <2>5, <2>6, AddingStep, UpdatingStep
      DEF Next, BuildingHasObject
<1> QED
    BY <1>0, <1>1, <1>2, RoutingHolds, PTL DEF Spec, SubscriptionsAreByName, Promised!Spec

(***************************************************************************)
(* Iterations                                                              *)
(***************************************************************************)

(* The ids of a session differ, and each live one is in a registry.        *)
UniqueIds ==
    \A c \in Clients : \A s, t \in subs[c] : s.id = t.id => s = t

Counted ==
    \A c \in Clients : \A s \in subs[c] :
        /\ s.item.kind = "data" => subReg[c][s.id] # Nothing
        /\ s.item.kind = "event" => s.id \in events[c]

CountInv == TypeOK /\ SessionHasObject /\ IdsInUse /\ UniqueIds /\ Counted

(* A new subscription, once it is in its registry, keeps all of it.        *)
LEMMA CountCreated ==
    ASSUME CountInv, NEW c \in Clients, NEW item, NEW interval,
           Created(c, item, interval), UNCHANGED <<object, session>>,
           item.kind = "data" => subReg'[c][NewId(c)] # Nothing,
           item.kind = "event" => NewId(c) \in events'[c],
           \A d \in Clients, i \in Ids :
               /\ subReg[d][i] # Nothing => subReg'[d][i] # Nothing
               /\ i \in events[d] => i \in events'[d]
    PROVE  IdsInUse' /\ UniqueIds' /\ Counted'
<1> DEFINE new == [id |-> NewId(c), item |-> item, interval |-> interval]
<1>1. /\ session[c] /\ NewId(c) \in Ids
      /\ \A d \in Clients \ {c} : subs'[d] = subs[d]
      /\ subs'[c] = subs[c] \cup {new}
      /\ IdsInUse'
    BY CreatedAdds DEF CountInv
<1>2. \A s \in subs[c] : s.id # NewId(c)
  <2>1. object[c] \in Objects /\ lastId[object[c]] \in Nat
      BY <1>1 DEF CountInv, TypeOK, SessionHasObject
  <2>2. \A s \in subs[c] : s.id \in Nat /\ s.id <= lastId[object[c]]
      BY DEF CountInv, TypeOK, IdsInUse, Subscription, Ids
  <2> QED
      BY <2>1, <2>2 DEF NewId
<1>3. \A d \in Clients : \A s \in subs'[d] : s \in subs[d] \/ (d = c /\ s = new)
    BY <1>1
<1>4. UniqueIds'
    BY <1>2, <1>3 DEF CountInv, UniqueIds
<1>5. Counted'
  <2> SUFFICES ASSUME NEW d \in Clients, NEW s \in subs'[d]
               PROVE  /\ s.item.kind = "data" => subReg'[d][s.id] # Nothing
                      /\ s.item.kind = "event" => s.id \in events'[d]
      BY DEF Counted
  <2>1. CASE s \in subs[d]
    <3>1. s.id \in Ids
        BY <2>1 DEF CountInv, TypeOK, Subscription
    <3> QED
        BY <2>1, <3>1 DEF CountInv, Counted
  <2>2. CASE d = c /\ s = new
      BY <2>2
  <2> QED
      BY <1>3, <2>1, <2>2
<1> QED
    BY <1>1, <1>4, <1>5

(* No operation takes the id of a live item out of its registry.           *)
LEMMA CountStep ==
    ASSUME CountInv, [Next]_vars
    PROVE  IdsInUse' /\ UniqueIds' /\ Counted'
<1> USE DEF registries, statics, servers
<1>0. /\ subReg \in [Clients -> [Ids -> Names \cup {Nothing}]]
      /\ events \in [Clients -> SUBSET Ids]
    BY DEF CountInv, TypeOK
<1>1. ASSUME NEW c \in Clients, NEW n \in Names, NEW subscribe \in BOOLEAN,
             NEW interval \in Intervals,
             AddVariableNode(c, n, subscribe, interval)
      PROVE  IdsInUse' /\ UniqueIds' /\ Counted'
  <2>0. UNCHANGED <<object, session, events>>
      BY <1>1 DEF AddVariableNode
  <2>1. CASE UNCHANGED <<subReg, lastId, subs>>
      BY <2>0, <2>1 DEF CountInv, IdsInUse, UniqueIds, Counted
  <2>2. ASSUME NEW i \in Lookup(c, n) \ {Nothing},
               NEW item \in {NoItem} \cup ItemsOn(c, i, n),
               Created(c, item, interval), Registered(c, n)
        PROVE  IdsInUse' /\ UniqueIds' /\ Counted'
    <3>1. NewId(c) \in Ids /\ n # Nothing
        BY <2>2, NothingAssumption DEF Created
    <3>2. subReg' = [subReg EXCEPT ![c][NewId(c)] = n]
        BY <2>2 DEF Registered
    <3>3. \A d \in Clients, id \in Ids :
              subReg[d][id] # Nothing => subReg'[d][id] # Nothing
        BY <1>0, <3>1, <3>2
    <3>4. subReg'[c][NewId(c)] # Nothing
        BY <1>0, <3>1, <3>2
    <3>5. item.kind # "event"
        BY <2>2 DEF NoItem, ItemsOn
    <3> QED
        BY <2>0, <2>2, <3>3, <3>4, <3>5, CountCreated
  <2> QED
      BY <1>1, <2>1, <2>2 DEF AddVariableNode, CreateSubscription
<1>2. ASSUME NEW c \in Clients, ActivateEvent(c)
      PROVE  IdsInUse' /\ UniqueIds' /\ Counted'
  <2>0. UNCHANGED <<object, session, subReg>>
      BY <1>2 DEF ActivateEvent
  <2>1. PICK item \in {Event, NoItem} :
            /\ Created(c, item, Default)
            /\ \/ item = NoItem /\ UNCHANGED events
               \/ events' = [events EXCEPT ![c] = @ \cup {NewId(c)}]
      BY <1>2 DEF ActivateEvent
  <2>2. \A d \in Clients, i \in Ids : i \in events[d] => i \in events'[d]
      BY <1>0, <2>1
  <2>3. item.kind # "data" /\ (item.kind = "event" => NewId(c) \in events'[c])
      BY <1>0, <2>1 DEF Event, NoItem
  <2> QED
      BY <2>0, <2>1, <2>2, <2>3, CountCreated
<1>3. ASSUME NEW c \in Clients, NEW id \in Ids, DeactivateEvent(c, id)
      PROVE  IdsInUse' /\ UniqueIds' /\ Counted'
  <2>1. /\ subs' = [subs EXCEPT ![c] = {s \in @ : s.id # id}]
        /\ events' = [events EXCEPT ![c] = @ \ {id}]
        /\ UNCHANGED <<object, session, subReg, lastId>>
      BY <1>3 DEF DeactivateEvent
  <2>2. \A d \in Clients : \A s \in subs'[d] :
            s \in subs[d] /\ (s.id \in events[d] => s.id \in events'[d])
      BY <2>1 DEF CountInv, TypeOK
  <2> QED
      BY <2>1, <2>2 DEF CountInv, IdsInUse, UniqueIds, Counted
<1>4. ASSUME NEW c \in Clients,
             Disconnect(c) \/ ConnectFail(c) \/ ConnectEnd(c)
                 \/ \E o \in Objects : ConnectBegin(c, o)
      PROVE  IdsInUse' /\ UniqueIds' /\ Counted'
  <2>1. /\ UNCHANGED <<registries, servers>>
        /\ \A d \in Clients : \/ subs'[d] = {}
                              \/ /\ subs'[d] = subs[d]
                                 /\ object'[d] = object[d]
                                 /\ session'[d] = session[d]
      BY <1>4 DEF Disconnect, ConnectFail, ConnectEnd, ConnectBegin,
                  Disconnected, CountInv, TypeOK
  <2> QED
      BY <2>1 DEF CountInv, IdsInUse, UniqueIds, Counted
<1>5. ASSUME NEW o \in Objects, Restart(o)
      PROVE  IdsInUse' /\ UniqueIds' /\ Counted'
  <2>1. /\ UNCHANGED <<object, registries>>
        /\ \A d \in Clients : \/ subs'[d] = {}
                              \/ /\ subs'[d] = subs[d] /\ object[d] # o
                                 /\ session'[d] = session[d]
      BY <1>5 DEF Restart, CountInv, TypeOK
  <2>2. \A p \in Objects \ {o} : lastId'[p] = lastId[p]
      BY <1>5 DEF Restart, CountInv, TypeOK
  <2>3. \A d \in Clients : session[d] => object[d] \in Objects
      BY DEF CountInv, TypeOK, SessionHasObject
  <2>4. IdsInUse'
      BY <2>1, <2>2, <2>3 DEF CountInv, IdsInUse
  <2> QED
      BY <2>1, <2>4 DEF CountInv, UniqueIds, Counted
<1>6. ASSUME (\E c \in Clients : \E s \in subs[c] : Deliver(c, s))
                 \/ UNCHANGED vars
      PROVE  IdsInUse' /\ UniqueIds' /\ Counted'
  <2>1. UNCHANGED <<object, session, subs, lastId, subReg, events>>
      BY <1>6 DEF Deliver, vars
  <2> QED
      BY <2>1 DEF CountInv, IdsInUse, UniqueIds, Counted
<1> QED
    BY <1>1, <1>2, <1>3, <1>4, <1>5, <1>6 DEF Next

(* The live items of a session are at most the entries of its registries.  *)
LEMMA LiveItemsAreCounted == CountInv => IterationsSuffice
<1> SUFFICES ASSUME CountInv, NEW c \in Clients
             PROVE  Cardinality({s \in subs[c] : s.item # NoItem}) <= Iterations(c)
    BY DEF IterationsSuffice
<1> DEFINE Data == {s \in subs[c] : s.item.kind = "data"}
           Events == {s \in subs[c] : s.item.kind = "event"}
           Keys == {i \in Ids : subReg[c][i] # Nothing}
<1>1. IsFiniteSet(Keys) /\ IsFiniteSet(events[c])
  <2>1. IsFiniteSet(Ids)
      BY BoundAssumption, FS_Interval DEF Ids
  <2> QED
      BY <2>1, FS_Subset DEF CountInv, TypeOK
<1>2. \A s \in subs[c] : s.id \in Ids
    BY DEF CountInv, TypeOK, Subscription
<1>3. [s \in Data |-> s.id] \in Injection(Data, Keys)
    BY <1>2 DEF CountInv, UniqueIds, Counted, Injection, IsInjective
<1>4. [s \in Events |-> s.id] \in Injection(Events, events[c])
    BY DEF CountInv, UniqueIds, Counted, Injection, IsInjective
<1>5. /\ IsFiniteSet(Data) /\ Cardinality(Data) <= Cardinality(Keys)
      /\ IsFiniteSet(Events) /\ Cardinality(Events) <= Cardinality(events[c])
    BY <1>1, <1>3, <1>4, FS_Injection
<1>6. {s \in subs[c] : s.item # NoItem} = Data \cup Events
    BY DEF CountInv, TypeOK, Subscription, Item, Event, NoItem
<1>7. Cardinality(Data \cup Events) <= Cardinality(Data) + Cardinality(Events)
  <2>1. IsFiniteSet(Data \cap Events)
      BY <1>5, FS_Intersection
  <2>2. /\ Cardinality(Data) \in Nat /\ Cardinality(Events) \in Nat
        /\ Cardinality(Data \cap Events) \in Nat
      BY <1>5, <2>1, FS_CardinalityType
  <2>3. Cardinality(Data \cup Events) =
            Cardinality(Data) + Cardinality(Events) - Cardinality(Data \cap Events)
      BY <1>5, FS_Union
  <2> QED
      BY <2>2, <2>3
<1>8. /\ Cardinality(Data) \in Nat /\ Cardinality(Events) \in Nat
      /\ Cardinality(Keys) \in Nat /\ Cardinality(events[c]) \in Nat
      /\ Cardinality(Data \cup Events) \in Nat
    BY <1>1, <1>5, FS_CardinalityType, FS_Union
<1>9. Iterations(c) = Cardinality(Keys) + Cardinality(events[c])
    BY DEF Iterations
<1>10. Cardinality(Data \cup Events) <= Iterations(c)
  <2> HIDE DEF Data, Events, Keys
  <2> QED
      BY <1>5, <1>7, <1>8, <1>9
<1> QED
    BY <1>6, <1>10

(* run_once iterates at least once for every subscription that has an      *)
(* item, for any number of objects, connections and server restarts.       *)
THEOREM IterationsAreEnough == Spec => []IterationsSuffice
<1>1. Init => CountInv
    BY IntervalAssumption
    DEF Init, CountInv, TypeOK, SessionHasObject, StatusCode, IdsInUse,
        UniqueIds, Counted
<1>2. CountInv /\ [Next]_vars => CountInv'
    BY CountStep, TypeStep, SessionStep DEF CountInv
<1> QED
    BY <1>1, <1>2, LiveItemsAreCounted, PTL DEF Spec
=============================================================================
