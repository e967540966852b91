-------------------------- MODULE ClientRegistries --------------------------
(***************************************************************************)
(* The bookkeeping of OPCUA::GenericClient over its connections: which     *)
(* node id a name stands for, which name and which client object belongs   *)
(* to a subscription id, and which event subscriptions exist.              *)
(*                                                                         *)
(* Several client objects share the static maps subscription_bindings and  *)
(* event_bindings.  Every operation of one object runs under its           *)
(* clientMutex (ClientConcurrency shows what that gives), so each is one   *)
(* step here; createClientSpace, which runs inside connect, is the series  *)
(* of steps between ConnectBegin and ConnectEnd.                           *)
(*                                                                         *)
(* A name keeps the id it was registered with, and the id is sent to       *)
(* whatever server the client is connected to by then.  There it may be    *)
(* the id of another variable, or of none.                                 *)
(*                                                                         *)
(* External: the remote objects, each on a server of its own that numbers  *)
(* subscriptions from 1, deletes those of a session that ends, and starts  *)
(* to count again after a restart.  Any service call may fail.             *)
(***************************************************************************)
EXTENDS Integers, FiniteSets

CONSTANTS
    Clients,     \* the GenericClient objects of the process
    Objects,     \* the remote root objects, one per server
    Names,       \* browse names of variables
    NodeIds,     \* node ids of variables; servers may use the same ones
    NodeOf,      \* the id of the variable of a name of an object, if it has it
    Intervals,   \* subscription intervals
    Default,     \* the minSubscriptionInterval given to the constructor
    MaxIds,      \* bound: subscription ids per run of a server
    MaxRestarts, \* bound: server restarts
    Nothing      \* no object, no name, no node id, no client

ASSUME NothingAssumption ==
    Nothing \notin Clients \cup Objects \cup Names \cup NodeIds
ASSUME NodeAssumption == NodeOf \in [Objects -> [Names -> NodeIds \cup {Nothing}]]
ASSUME IntervalAssumption == Intervals \subseteq Nat /\ Default \in Nat
ASSUME BoundAssumption == MaxIds \in Nat /\ MaxRestarts \in Nat

VARIABLES
    object,         \* the root object a client is connected to (client # 0)
    session,        \* whether its session still exists
    building,       \* whether its connect is inside createClientSpace
    result,         \* what its last connect or disconnect returned
    subs,           \* the subscriptions of its session, at the server
    entity,         \* entityRegistry: the node id a name maps to
    subReg,         \* subscriptionsRegistry: the name of a subscription id
    events,         \* the keys of eventRegistry
    minInterval,    \* minSubscriptionInterval
    stored,         \* entityUpdateValueRegistry: where the value came from
    binding,        \* subscription_bindings (static)
    eventBinding,   \* event_bindings (static)
    lastId,         \* the last subscription id of every server
    restarts

registries == <<entity, subReg, events, minInterval>>
statics == <<binding, eventBinding>>
servers == <<lastId, restarts>>
vars == <<object, session, building, result, subs, registries, stored,
          statics, servers>>

Ids == 1 .. MaxIds

(* A subscription has a monitored item on a node of the object of its      *)
(* session, made for a name, or one for the events of the root object, or  *)
(* none (it failed).                                                       *)
Item == [kind : {"data"}, object : Objects, node : NodeIds, name : Names]
Event == [kind |-> "event", object |-> Nothing, node |-> Nothing, name |-> Nothing]
NoItem == [kind |-> "none", object |-> Nothing, node |-> Nothing, name |-> Nothing]
Subscription == [id : Ids, item : Item \cup {Event, NoItem},
                 interval : Nat]

(* The origin of a stored value: the session it was received over, the     *)
(* node of the object there, and the name the item was made for.           *)
Origin == [client : Clients, object : Objects, node : NodeIds, name : Names]
NoOrigin == [client |-> Nothing, object |-> Nothing, node |-> Nothing,
             name |-> Nothing]

StatusCode == {"ALL_OK", "WRONG_ID", "ERROR_COMMUNICATION"}

Init ==
    /\ object = [c \in Clients |-> Nothing]
    /\ session = [c \in Clients |-> FALSE]
    /\ building = [c \in Clients |-> FALSE]
    /\ result = [c \in Clients |-> "ALL_OK"]
    /\ subs = [c \in Clients |-> {}]
    /\ entity = [c \in Clients |-> [n \in Names |-> Nothing]]
    /\ subReg = [c \in Clients |-> [i \in Ids |-> Nothing]]
    /\ events = [c \in Clients |-> {}]
    /\ minInterval = [c \in Clients |-> Default]
    /\ stored = [c \in Clients |-> [n \in Names |-> NoOrigin]]
    /\ binding = [i \in Ids |-> Nothing]
    /\ eventBinding = [i \in Ids |-> Nothing]
    /\ lastId = [o \in Objects |-> 0]
    /\ restarts = 0
-----------------------------------------------------------------------------
(* connect, disconnect *)

Returned(c, code) == result' = [result EXCEPT ![c] = code]

(* disconnect() leaves the registries and the static bindings as they are. *)
Disconnected(c) ==
    /\ object' = [object EXCEPT ![c] = Nothing]
    /\ session' = [session EXCEPT ![c] = FALSE]
    /\ subs' = [subs EXCEPT ![c] = {}]

Disconnect(c) ==
    /\ ~building[c]
    /\ Disconnected(c)
    /\ Returned(c, "ALL_OK")
    /\ UNCHANGED <<building, registries, stored, statics, servers>>

ConnectFail(c) ==
    /\ ~building[c]
    /\ Disconnected(c)
    /\ \E code \in {"ERROR_COMMUNICATION", "WRONG_ID"} : Returned(c, code)
    /\ UNCHANGED <<building, registries, stored, statics, servers>>

ConnectBegin(c, o) ==
    /\ ~building[c]
    /\ object' = [object EXCEPT ![c] = o]
    /\ session' = [session EXCEPT ![c] = TRUE]
    /\ subs' = [subs EXCEPT ![c] = {}]
    /\ building' = [building EXCEPT ![c] = TRUE]
    /\ UNCHANGED <<result, registries, stored, statics, servers>>

(* When createClientSpace returns false the client stays connected.        *)
ConnectEnd(c) ==
    /\ building[c]
    /\ building' = [building EXCEPT ![c] = FALSE]
    /\ \E code \in {"ALL_OK", "ERROR_COMMUNICATION"} : Returned(c, code)
    /\ UNCHANGED <<object, session, subs, registries, stored, statics, servers>>
-----------------------------------------------------------------------------
(* checkAndGetEntityId: the node id that name n stands for, which          *)
(* getVariableCurrentValue, setVariableValue, callMethod and               *)
(* createSubscription then use.  A registered name is not looked up again, *)
(* even on another server; any other is browsed for under the root object. *)
BrowsedFor(c, n) == IF session[c] THEN {NodeOf[object[c]][n], Nothing} ELSE {Nothing}

Lookup(c, n) ==
    IF entity[c][n] # Nothing THEN {entity[c][n]}
    ELSE BrowsedFor(c, n)

(* the server's answer to a create subscription request *)
NewId(c) == lastId[object[c]] + 1
Created(c, item, interval) ==
    /\ session[c] /\ NewId(c) \in Ids
    /\ lastId' = [lastId EXCEPT ![object[c]] = NewId(c)]
    /\ subs' = [subs EXCEPT ![c] = @ \cup
                   {[id |-> NewId(c), item |-> item, interval |-> interval]}]

(* mutants: the last interval, and the difference of the two *)
LastInterval(c, interval) ==
    minInterval' = [minInterval EXCEPT ![c] = interval]
IntervalDifference(c, interval) ==
    minInterval' = [minInterval EXCEPT ![c] = @ - interval]

ShorterInterval(c, interval) ==
    minInterval' = [minInterval EXCEPT ![c] =
                       IF interval < @ THEN interval ELSE @]

(* mutant: map::insert, which keeps an old entry, in place of operator[] *)
RegisteredOnce(c, n) ==
    subReg' = [subReg EXCEPT ![c][NewId(c)] = IF @ = Nothing THEN n ELSE @]

Registered(c, n) ==
    subReg' = [subReg EXCEPT ![c][NewId(c)] = n]

Bound(c) == binding' = [binding EXCEPT ![NewId(c)] = c]

(* The monitored item that a server makes for node id i: on whatever       *)
(* variable of its own has that id.                                        *)
ItemsOn(c, i, n) ==
    {[kind |-> "data", object |-> object[c], node |-> NodeOf[object[c]][m],
      name |-> n] : m \in {k \in Names : NodeOf[object[c]][k] = i}}

(* createSubscription, once the node id i of n is known: the request       *)
(* fails, or the monitored item does, or neither.                          *)
CreateSubscription(c, i, n, interval) ==
    /\ ShorterInterval(c, interval)
    /\ \/ UNCHANGED <<subReg, binding, lastId, subs>>
       \/ /\ \E item \in {NoItem} \cup ItemsOn(c, i, n) : Created(c, item, interval)
          /\ Registered(c, n)
          /\ Bound(c)

(* addVariableNode, called from createClientSpace, for a node that is found *)
AddVariableNode(c, n, subscribe, interval) ==
    /\ building[c]
    /\ \E i \in Lookup(c, n) \ {Nothing} :
           /\ entity' = [entity EXCEPT ![c][n] = i]
           /\ IF subscribe THEN CreateSubscription(c, i, n, interval)
              ELSE UNCHANGED <<minInterval, subReg, binding, lastId, subs>>
    /\ UNCHANGED <<object, session, building, result, events, stored,
                   eventBinding, restarts>>
-----------------------------------------------------------------------------
(* activateEvent and deactivateEvent *)

(* A subscription whose monitored item fails is left behind at the server. *)
ActivateEvent(c) ==
    /\ object[c] # Nothing
    /\ \/ /\ Created(c, NoItem, Default)
          /\ UNCHANGED <<events, eventBinding>>
       \/ /\ Created(c, Event, Default)
          /\ events' = [events EXCEPT ![c] = @ \cup {NewId(c)}]
          /\ eventBinding' = [eventBinding EXCEPT ![NewId(c)] = c]
    /\ UNCHANGED <<object, session, building, result, entity, subReg,
                   minInterval, stored, binding, restarts>>

(* Called while the client is connected: without one deactivateEvent would *)
(* hand a null client to the native library.                               *)
DeactivateEvent(c, id) ==
    /\ object[c] # Nothing
    /\ id \in events[c]
    /\ subs' = [subs EXCEPT ![c] = {s \in @ : s.id # id}]
    /\ events' = [events EXCEPT ![c] = @ \ {id}]
    /\ UNCHANGED <<object, session, building, result, entity, subReg,
                   minInterval, stored, statics, servers>>
-----------------------------------------------------------------------------
(* run_once: the native client is iterated once for every entry of the two *)
(* registries.                                                             *)

(* mutant: only the first of the two loops *)
DataIterations(c) == Cardinality({i \in Ids : subReg[c][i] # Nothing})

Iterations(c) ==
    Cardinality({i \in Ids : subReg[c][i] # Nothing}) + Cardinality(events[c])

(* handle_entity_update finds the client object bound to the id, and its   *)
(* handleEntity stores the value under the name registered for the id when *)
(* it has the clientMutex of that object.  The native client of c hands    *)
(* notifications over in run_once and in every synchronous call.           *)
Deliver(c, s) ==
    /\ s \in subs[c] /\ s.item.kind = "data"
    /\ LET to == binding[s.id]
       IN  /\ to # Nothing /\ (to = c \/ ~building[to])
           /\ subReg[to][s.id] # Nothing
           /\ stored' = [stored EXCEPT ![to][subReg[to][s.id]] =
                            [client |-> c, object |-> s.item.object,
                             node |-> s.item.node, name |-> s.item.name]]
    /\ UNCHANGED <<object, session, building, result, subs, registries, statics,
                   servers>>

(* The server of o restarts: its sessions are gone, and it counts anew.    *)
Restart(o) ==
    /\ restarts < MaxRestarts
    /\ restarts' = restarts + 1
    /\ lastId' = [lastId EXCEPT ![o] = 0]
    /\ session' = [c \in Clients |-> session[c] /\ object[c] # o]
    /\ subs' = [c \in Clients |-> IF object[c] = o THEN {} ELSE subs[c]]
    /\ UNCHANGED <<object, building, result, registries, stored, statics>>
-----------------------------------------------------------------------------
Next ==
    \/ \E c \in Clients :
           \/ Disconnect(c) \/ ConnectFail(c) \/ ConnectEnd(c)
           \/ \E o \in Objects : ConnectBegin(c, o)
           \/ \E n \in Names, subscribe \in BOOLEAN, interval \in Intervals :
                  AddVariableNode(c, n, subscribe, interval)
           \/ ActivateEvent(c)
           \/ \E id \in Ids : DeactivateEvent(c, id)
           \/ \E s \in subs[c] : Deliver(c, s)
    \/ \E o \in Objects : Restart(o)

Spec == Init /\ [][Next]_vars
-----------------------------------------------------------------------------
(* Every variable keeps to its range. *)
TypeOK ==
    /\ object \in [Clients -> Objects \cup {Nothing}]
    /\ session \in [Clients -> BOOLEAN] /\ building \in [Clients -> BOOLEAN]
    /\ result \in [Clients -> StatusCode]
    /\ subs \in [Clients -> SUBSET Subscription]
    /\ entity \in [Clients -> [Names -> NodeIds \cup {Nothing}]]
    /\ subReg \in [Clients -> [Ids -> Names \cup {Nothing}]]
    /\ events \in [Clients -> SUBSET Ids]
    /\ minInterval \in [Clients -> Nat]
    /\ stored \in [Clients -> [Names -> Origin \cup {NoOrigin}]]
    /\ binding \in [Ids -> Clients \cup {Nothing}]
    /\ eventBinding \in [Ids -> Clients \cup {Nothing}]
    /\ lastId \in [Objects -> Nat] /\ restarts \in Nat

(* Every live monitored item is connected, through the static bindings and *)
(* the registries, to the client that made it and to the name it was made  *)
(* for, and is on the node whose id that name stands for; or it is         *)
(* connected to the event handler.  So even when a restarted or another    *)
(* server hands out ids that old registry entries still use.               *)
Routed(c, s) ==
    /\ s.item.kind = "data" =>
           /\ s.item.object = object[c] /\ s.item.node = entity[c][s.item.name]
           /\ binding[s.id] = c /\ subReg[c][s.id] = s.item.name
    /\ s.item.kind = "event" =>
           eventBinding[s.id] = c /\ s.id \in events[c]
LiveItemsAreRouted == \A c \in Clients : \A s \in subs[c] : Routed(c, s)

(* A client stores a value under name n only if it was received over its   *)
(* own session, from an item that was made for n, on the node id that n    *)
(* stands for.  (Whose variable has that id on a server other than the one *)
(* n was registered at is another matter.)                                 *)
ValuesAreAtHome ==
    \A c \in Clients, n \in Names :
        stored[c][n] # NoOrigin =>
            /\ stored[c][n].client = c /\ stored[c][n].name = n
            /\ stored[c][n].node = entity[c][n]

(* run_once iterates "at least once for every subscription"                *)
(* (OpcUaGenericClient.cc:773) that can have something to say.             *)
IterationsSuffice ==
    \A c \in Clients :
        Cardinality({s \in subs[c] : s.item # NoItem}) <= Iterations(c)

(* run_once sleeps no longer than the interval of any data subscription,   *)
(* over any number of connections (OpcUaGenericClient.cc:375, 759).        *)
SleepIsShortEnough ==
    \A c \in Clients : \A s \in subs[c] :
        s.item.kind = "data" => minInterval[c] <= s.interval

(* All of that makes subscriptions to names out of those with ids: each    *)
(* step adds a variable, ends subscriptions, or stores an update where it  *)
(* belongs, and does nothing else to any client.                           *)
DataItems(c) ==
    {<<s.item.object, s.item.node, s.item.name>> :
         s \in {t \in subs[c] : t.item.kind = "data"}}

Promised == INSTANCE NamedSubscriptions WITH
                node <- entity,
                items <- [c \in Clients |-> DataItems(c)]
SubscriptionsAreByName == Promised!Spec
=============================================================================
