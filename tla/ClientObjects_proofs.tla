------------------------ MODULE ClientObjects_proofs ------------------------
(***************************************************************************)
(* Proofs that client objects which talk to one server do not get into     *)
(* each other's way, for any number of objects and subscriptions.          *)
(***************************************************************************)
EXTENDS ClientObjects, TLAPS

USE NobodyAssumption, BoundAssumption

(* The ids that an object has registered are its own, up to the last one   *)
(* of the server; its items are bound, and a thread in an upcall follows   *)
(* such a binding with its own mutex locked.                               *)
Numbered ==
    /\ \A c \in Clients : \A i \in registry[c] : i <= lastId[server[c]]
    /\ \A c, d \in Clients : c # d => registry[c] \cap registry[d] = {}
    /\ \A c \in Clients : items[c] \subseteq registry[c]
    /\ \A c \in Clients : place[c] \in {"bind", "item"} => id[c] \in registry[c]

Home ==
    /\ Numbered
    /\ \A c \in Clients : \A i \in items[c] : binding[i] = c
    /\ \A c \in Clients : place[c] = "item" => binding[id[c]] = c
    /\ \A c \in Clients : mutex[c] = IF place[c] = "free" THEN Nobody ELSE c
    /\ \A c \in Clients : place[c] # "free" => life[c] = "connected"
    /\ \A c \in Clients :
           place[c] \in {"find", "call", "handle"} => id[c] \in items[c]
    /\ \A c \in Clients : place[c] \in {"call", "handle"} => target[c] = c
    /\ \A c \in Clients : received[c] \subseteq {c}

(* A thread that handles an id has one. *)
IdInUse ==
    \A c \in Clients : place[c] \in {"bind", "item", "find"} => id[c] \in Ids

Typed == TypeOK /\ IdInUse

(* The types are inductive. *)
LEMMA NextTyped == Typed /\ [Next]_vars => Typed'
<1> SUFFICES ASSUME Typed, [Next]_vars PROVE Typed'
  OBVIOUS
<1> USE DEF Typed, IdInUse, TypeOK, Places, Go, Lock, Unlock, session, work, Ids
<1>1. ASSUME NEW c \in Clients, Connect(c) PROVE Typed'
  BY <1>1 DEF Connect
<1>2. ASSUME NEW c \in Clients, CreateSubscription(c) PROVE Typed'
  BY <1>2 DEF CreateSubscription
<1>3. ASSUME NEW c \in Clients, Bind(c) PROVE Typed'
  BY <1>3 DEF Bind, Bound
<1>4. ASSUME NEW c \in Clients, CreateItem(c) PROVE Typed'
  <2>1. items' \in [Clients -> SUBSET Ids]
    <3>1. id[c] \in Ids /\ items[c] \cup {id[c]} \in SUBSET Ids
      BY <1>4 DEF CreateItem
    <3>2. \/ items' = items
          \/ items' = [items EXCEPT ![c] = items[c] \cup {id[c]}]
      BY <1>4 DEF CreateItem
    <3> QED
      BY <3>1, <3>2
  <2>2. place' = [place EXCEPT ![c] = "build"]
    BY <1>4 DEF CreateItem
  <2>3. UNCHANGED <<server, life, registry, mutex, id, target, received, binding,
                    lastId>>
    BY <1>4 DEF CreateItem
  <2> QED
    BY <2>1, <2>2, <2>3
<1>5. ASSUME NEW c \in Clients, ConnectEnd(c) PROVE Typed'
  BY <1>5 DEF ConnectEnd
<1>6. ASSUME NEW c \in Clients, Disconnect(c) PROVE Typed'
  BY <1>6 DEF Disconnect
<1>7. ASSUME NEW c \in Clients, RunOnce(c) PROVE Typed'
  BY <1>7 DEF RunOnce
<1>8. ASSUME NEW c \in Clients, Notification(c) PROVE Typed'
  BY <1>8 DEF Notification
<1>9. ASSUME NEW c \in Clients, Found(c) PROVE Typed'
  BY <1>9 DEF Found, Search
<1>10. ASSUME NEW c \in Clients, HandleBegin(c) PROVE Typed'
  BY <1>10 DEF HandleBegin, Enter
<1>11. ASSUME NEW c \in Clients, HandleEnd(c) PROVE Typed'
  BY <1>11 DEF HandleEnd
<1>12. ASSUME NEW c \in Clients, RunOnceEnd(c) PROVE Typed'
  BY <1>12 DEF RunOnceEnd
<1>13. CASE UNCHANGED vars
  BY <1>13 DEF vars
<1> QED
  BY <1>1, <1>2, <1>3, <1>4, <1>5, <1>6, <1>7, <1>8, <1>9, <1>10, <1>11, <1>12,
     <1>13 DEF Next, Begin, Build, Iterate, EndIterate

(* While there is one server, every object stays at home. *)
LEMMA NextHome ==
    ASSUME Typed, OneServer, Home, [Next]_vars
    PROVE  Home'
<1> USE DEF Typed, IdInUse, TypeOK, OneServer, Home, Numbered, Places, Go, Lock, Unlock, session,
        work, Ids
<1>1. ASSUME NEW c \in Clients, Connect(c) PROVE Home'
  BY <1>1 DEF Connect
<1>2. ASSUME NEW c \in Clients, CreateSubscription(c) PROVE Home'
  BY <1>2 DEF CreateSubscription
<1>3. ASSUME NEW c \in Clients, Bind(c) PROVE Home'
  BY <1>3 DEF Bind, Bound
<1>4. ASSUME NEW c \in Clients, CreateItem(c) PROVE Home'
  BY <1>4 DEF CreateItem
<1>5. ASSUME NEW c \in Clients, ConnectEnd(c) PROVE Home'
  BY <1>5 DEF ConnectEnd
<1>6. ASSUME NEW c \in Clients, Disconnect(c) PROVE Home'
  BY <1>6 DEF Disconnect
<1>7. ASSUME NEW c \in Clients, RunOnce(c) PROVE Home'
  BY <1>7 DEF RunOnce
<1>8. ASSUME NEW c \in Clients, Notification(c) PROVE Home'
  BY <1>8 DEF Notification
<1>9. ASSUME NEW c \in Clients, Found(c) PROVE Home'
  BY <1>9 DEF Found, Search
<1>10. ASSUME NEW c \in Clients, HandleBegin(c) PROVE Home'
  BY <1>10 DEF HandleBegin, Enter
<1>11. ASSUME NEW c \in Clients, HandleEnd(c) PROVE Home'
  BY <1>11 DEF HandleEnd
<1>12. ASSUME NEW c \in Clients, RunOnceEnd(c) PROVE Home'
  BY <1>12 DEF RunOnceEnd
<1>13. CASE UNCHANGED vars
  BY <1>13 DEF vars
<1> QED
  BY <1>1, <1>2, <1>3, <1>4, <1>5, <1>6, <1>7, <1>8, <1>9, <1>10, <1>11, <1>12,
     <1>13 DEF Next, Begin, Build, Iterate, EndIterate

IInv == Typed /\ (OneServer => Home)

(* All of it holds in every state of the specification. *)
LEMMA Invariance == Spec => []IInv
<1>1. Init => IInv
  <2> SUFFICES ASSUME Init PROVE Typed /\ Home
    BY DEF IInv
  <2>1. Typed
    BY DEF Init, Typed, IdInUse, TypeOK, Places, Ids
  <2>2. Home
    BY DEF Init, Home, Numbered
  <2> QED
    BY <2>1, <2>2
<1>2. IInv /\ [Next]_vars => IInv'
  <2> SUFFICES ASSUME IInv, [Next]_vars PROVE IInv'
    OBVIOUS
  <2>1. Typed'
    BY NextTyped DEF IInv
  <2>2. server' = server
    BY DEF Next, Begin, Build, Iterate, EndIterate, Connect, CreateSubscription,
           Bind, CreateItem, ConnectEnd, Disconnect, RunOnce, Notification,
           Found, HandleBegin, HandleEnd, RunOnceEnd, session, vars
  <2>3. OneServer' => OneServer
    BY <2>2 DEF OneServer
  <2>4. ASSUME OneServer PROVE Home'
    BY <2>4, NextHome DEF IInv
  <2> QED
    BY <2>1, <2>3, <2>4 DEF IInv
<1> QED
  BY <1>1, <1>2, PTL DEF Spec

(* Every variable keeps to its range. *)
THEOREM TypeCorrect == Spec => []TypeOK
BY Invariance, PTL DEF IInv, Typed

(* With one server handle_entity_update calls the object whose session it    *)
(* was called for, also after others were destroyed                          *)
(* (OpcUaGenericClient.cc:54-57, 115-119).                                   *)
THEOREM UpcallsAreAtHome == Spec => []UpcallsStayAtHome
<1>1. IInv => UpcallsStayAtHome
  BY DEF IInv, Home, UpcallsStayAtHome
<1> QED
  BY <1>1, Invariance, PTL

(* With one server no thread locks the clientMutex of another object, so no  *)
(* two of them wait for each other (OpcUaGenericClient.cc:57, 425).          *)
THEOREM MutexesAreAtHome == Spec => []MutexesStayAtHome
<1>1. IInv => MutexesStayAtHome
  BY DEF IInv, Home, MutexesStayAtHome
<1> QED
  BY <1>1, Invariance, PTL

(* With one server every item that can notify is bound to its object and     *)
(* registered there (OpcUaGenericClient.cc:391-403).                         *)
THEOREM ItemsAreBound == Spec => []LiveItemsAreBound
<1>1. IInv => LiveItemsAreBound
  BY DEF IInv, Home, Numbered, LiveItemsAreBound
<1> QED
  BY <1>1, Invariance, PTL
=============================================================================
