---------------------------- MODULE ClientObjects ----------------------------
(***************************************************************************)
(* Several GenericClient objects of one process at work at the same time,  *)
(* each with a thread of its own that connects, subscribes, calls run_once *)
(* and destroys the object in the end.  Every object has its clientMutex;  *)
(* the map subscription_bindings is static, "shared by all client          *)
(* instances" (OpcUaGenericClient.cc:49), and no mutex is about it.        *)
(*                                                                         *)
(* ClientConcurrency has the threads of one object, ClientRegistries the   *)
(* bookkeeping over reconnections; here the object of a thread is in one   *)
(* connection at most, and the question is what the objects do to each     *)
(* other.  External: the servers, which number subscriptions for           *)
(* themselves and do not restart.                                          *)
(***************************************************************************)
EXTENDS Integers

CONSTANTS
    Clients,    \* the client objects, and their threads
    Servers,    \* the remote servers
    Nobody,     \* no object
    MaxIds      \* bound: subscription ids of a server

ASSUME NobodyAssumption == Nobody \notin Clients
ASSUME BoundAssumption == MaxIds \in Nat

VARIABLES
    server,     \* the server that an object connects to
    life,       \* "new", "connected", "closed" or "dead"
    mutex,      \* who holds the clientMutex of an object
    place,      \* where the thread of an object is
    id,         \* the subscription id that it handles
    target,     \* the object whose handleEntity it calls
    items,      \* the ids whose monitored items live in an object's session
    registry,   \* the keys of an object's subscriptionsRegistry
    received,   \* the objects over whose sessions it got values it stored
    binding,    \* subscription_bindings
    lastId      \* the last subscription id of a server

work == <<place, id, target>>
session == <<server, life, items, registry>>
vars == <<session, mutex, work, received, binding, lastId>>

Ids == 1 .. MaxIds
Places == {"free", "build", "bind", "item", "iterate", "find", "call", "handle"}

Init ==
    /\ server \in [Clients -> Servers]
    /\ life = [c \in Clients |-> "new"]
    /\ mutex = [c \in Clients |-> Nobody]
    /\ place = [c \in Clients |-> "free"]
    /\ id = [c \in Clients |-> 0]
    /\ target = [c \in Clients |-> Nobody]
    /\ items = [c \in Clients |-> {}]
    /\ registry = [c \in Clients |-> {}]
    /\ received = [c \in Clients |-> {}]
    /\ binding = [i \in Ids |-> Nobody]
    /\ lastId = [s \in Servers |-> 0]

Go(c, p) == place' = [place EXCEPT ![c] = p]
Lock(c, o) == mutex[o] = Nobody /\ mutex' = [mutex EXCEPT ![o] = c]
Unlock(o) == mutex' = [mutex EXCEPT ![o] = Nobody]
-----------------------------------------------------------------------------
(* connect, with the subscriptions that createClientSpace makes in it *)

Connect(c) ==
    /\ place[c] = "free" /\ life[c] = "new"
    /\ Lock(c, c)
    /\ life' = [life EXCEPT ![c] = "connected"]
    /\ Go(c, "build")
    /\ UNCHANGED <<server, items, registry, id, target, received, binding, lastId>>

(* createSubscription: the server gives an id, which is registered. *)
CreateSubscription(c) ==
    LET new == lastId[server[c]] + 1
    IN  /\ place[c] = "build" /\ new \in Ids
        /\ lastId' = [lastId EXCEPT ![server[c]] = new]
        /\ id' = [id EXCEPT ![c] = new]
        /\ registry' = [registry EXCEPT ![c] = @ \cup {new}]
        /\ Go(c, "bind")
        /\ UNCHANGED <<server, life, items, mutex, target, received, binding>>

(* mutants: the key is the id of the monitored item, which is the first of *)
(* its subscription; so it is in the search.                               *)
BoundByItem(c) == binding' = [binding EXCEPT ![1] = c]
SearchByItem(c) == binding[1]

Bound(c) == binding' = [binding EXCEPT ![id[c]] = c]

(* Its entry in the map: the thread is in map::operator[] in "bind".       *)
Bind(c) ==
    /\ place[c] = "bind"
    /\ Bound(c)
    /\ Go(c, "item")
    /\ UNCHANGED <<session, mutex, id, target, received, lastId>>

(* The monitored item is created, or fails; then the next variable follows. *)
CreateItem(c) ==
    /\ place[c] = "item"
    /\ UNCHANGED items \/ items' = [items EXCEPT ![c] = @ \cup {id[c]}]
    /\ Go(c, "build")
    /\ UNCHANGED <<server, life, registry, mutex, id, target, received, binding,
                   lastId>>

ConnectEnd(c) ==
    /\ place[c] = "build"
    /\ Unlock(c) /\ Go(c, "free")
    /\ UNCHANGED <<session, id, target, received, binding, lastId>>

(* disconnect; and the destructor, which is another disconnect and leaves  *)
(* the binding in the map                                                  *)
Disconnect(c) ==
    /\ place[c] = "free" /\ mutex[c] = Nobody /\ life[c] # "dead"
    /\ life' = [life EXCEPT ![c] = IF @ = "connected" THEN "closed" ELSE "dead"]
    /\ items' = [items EXCEPT ![c] = {}]
    /\ UNCHANGED <<server, registry, mutex, work, received, binding, lastId>>
-----------------------------------------------------------------------------
(* run_once *)

RunOnce(c) ==
    /\ place[c] = "free" /\ life[c] = "connected"
    /\ Lock(c, c)
    /\ Go(c, "iterate")
    /\ UNCHANGED <<session, id, target, received, binding, lastId>>

(* UA_Client_run_iterate hands over a notification: handle_entity_update   *)
(* is in map::find from now on.                                            *)
Notification(c) ==
    /\ place[c] = "iterate"
    /\ \E i \in items[c] : id' = [id EXCEPT ![c] = i]
    /\ Go(c, "find")
    /\ UNCHANGED <<session, mutex, target, received, binding, lastId>>

Search(c) == binding[id[c]]

Found(c) ==
    /\ place[c] = "find"
    /\ target' = [target EXCEPT ![c] = Search(c)]
    /\ Go(c, IF Search(c) = Nobody THEN "iterate" ELSE "call")
    /\ UNCHANGED <<session, mutex, id, received, binding, lastId>>

(* mutant: a mutex that is not recursive *)
EnterOnce(c, o) == Lock(c, o)

(* handleEntity locks the clientMutex of its object, which is recursive.   *)
Enter(c, o) == IF mutex[o] = c THEN UNCHANGED mutex ELSE Lock(c, o)

HandleBegin(c) ==
    /\ place[c] = "call"
    /\ Enter(c, target[c])
    /\ Go(c, "handle")
    /\ UNCHANGED <<session, id, target, received, binding, lastId>>

(* It stores the value if its registry has the id. *)
HandleEnd(c) ==
    /\ place[c] = "handle"
    /\ received' = IF id[c] \in registry[target[c]]
                   THEN [received EXCEPT ![target[c]] = @ \cup {c}] ELSE received
    /\ IF target[c] = c THEN UNCHANGED mutex ELSE Unlock(target[c])
    /\ target' = [target EXCEPT ![c] = Nobody]
    /\ Go(c, "iterate")
    /\ UNCHANGED <<session, id, binding, lastId>>

RunOnceEnd(c) ==
    /\ place[c] = "iterate"
    /\ Unlock(c) /\ Go(c, "free")
    /\ UNCHANGED <<session, id, target, received, binding, lastId>>
-----------------------------------------------------------------------------
(* A thread in map::operator[] while another one is in the map is a data   *)
(* race.  What follows one is undefined: no step follows it here.          *)
BindingsAreExclusive ==
    \A c, d \in Clients :
        place[c] = "bind" /\ c # d => place[d] \notin {"bind", "find"}

Build(c) ==
    /\ BindingsAreExclusive
    /\ CreateSubscription(c) \/ Bind(c) \/ CreateItem(c) \/ ConnectEnd(c)

EndIterate(c) == BindingsAreExclusive /\ RunOnceEnd(c)

Iterate(c) ==
    /\ BindingsAreExclusive
    /\ Notification(c) \/ Found(c) \/ HandleBegin(c) \/ HandleEnd(c)

Begin(c) == BindingsAreExclusive /\ (Connect(c) \/ Disconnect(c) \/ RunOnce(c))

Next == \E c \in Clients : Begin(c) \/ Build(c) \/ Iterate(c) \/ EndIterate(c)

Spec == Init /\ [][Next]_vars

(* createClientSpace and run_once come to their ends, and a mutex is       *)
(* granted to a thread that can have it often enough.                      *)
FairSpec ==
    /\ Spec
    /\ \A c \in Clients :
           WF_vars(Build(c)) /\ SF_vars(Iterate(c)) /\ SF_vars(EndIterate(c))
-----------------------------------------------------------------------------
(* Every variable keeps to its range. *)
TypeOK ==
    /\ server \in [Clients -> Servers]
    /\ life \in [Clients -> {"new", "connected", "closed", "dead"}]
    /\ mutex \in [Clients -> Clients \cup {Nobody}]
    /\ place \in [Clients -> Places]
    /\ id \in [Clients -> Ids \cup {0}]
    /\ target \in [Clients -> Clients \cup {Nobody}]
    /\ items \in [Clients -> SUBSET Ids]
    /\ registry \in [Clients -> SUBSET Ids]
    /\ received \in [Clients -> SUBSET Clients]
    /\ binding \in [Ids -> Clients \cup {Nobody}]
    /\ lastId \in [Servers -> Nat]

(* On one server, ids tell the subscriptions of all objects apart. *)
OneServer == \A c, d \in Clients : server[c] = server[d]

(* While all objects of the process talk to one server, an upcall is made  *)
(* on the object whose session it came over, not on another one, and not   *)
(* on one that was destroyed and whose entry is still in the map           *)
(* (OpcUaGenericClient.cc:54-57, 115-119); nobody else's values get there. *)
UpcallsStayAtHome ==
    OneServer => \A c \in Clients :
        /\ place[c] \in {"call", "handle"} => target[c] = c /\ life[c] = "connected"
        /\ received[c] \subseteq {c}

(* And no thread holds the clientMutex of an object other than its own, so *)
(* that objects cannot block each other (OpcUaGenericClient.cc:57, 425).   *)
MutexesStayAtHome ==
    OneServer => \A c \in Clients : mutex[c] \in {c, Nobody}

(* Nor does any of them miss a notification: an item that can notify is    *)
(* bound and registered before it can, whatever the other objects create   *)
(* and destroy (OpcUaGenericClient.cc:391-403).                            *)
LiveItemsAreBound ==
    OneServer => \A c \in Clients : \A i \in items[c] :
        binding[i] = c /\ i \in registry[c]

(* Every connect and every run_once returns, unless there is a race. *)
EverybodyReturns ==
    \A c \in Clients :
        OneServer /\ place[c] # "free"
            ~> place[c] = "free" \/ ~BindingsAreExclusive
=============================================================================
