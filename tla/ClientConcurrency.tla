------------------------- MODULE ClientConcurrency -------------------------
(***************************************************************************)
(* The threads inside one OPCUA::GenericClient (OpcUaGenericClient.cc).    *)
(*                                                                         *)
(* A runner thread calls run_once() for ever, application threads make     *)
(* synchronous calls (getVariableCurrentValue, setVariableValue,           *)
(* callMethod), others block in getVariableNextValue, and others connect   *)
(* and disconnect.  They share the native UA_Client behind the recursive   *)
(* clientMutex, and the last received values behind entityUpdateMutex and  *)
(* one condition variable per variable.                                    *)
(*                                                                         *)
(* The native client and the server are external: a connection delivers    *)
(* the notifications of one variable in the order they were published, and *)
(* it may break at any time, which the native client notices the next time *)
(* it uses the socket.  Published values are numbered in order; 0 is the   *)
(* empty Variant.  A subscription id is the pair <<client, variable>>.     *)
(***************************************************************************)
EXTENDS Integers, FiniteSets

CONSTANTS
    Runners,          \* threads that loop over run_once()
    Callers,          \* threads that make synchronous calls
    Waiters,          \* threads that call getVariableNextValue
    Connectors,       \* threads that call connect and disconnect
    Vars,             \* the variables of the remote object
    Nobody,           \* owner of a free mutex
    MaxConnects,      \* bound: how many native clients are ever made
    MaxUpdates,       \* bound: how many values the server publishes
    SpuriousWakeups,  \* whether a condition variable may wake up by itself
    ActivateUpcalls,  \* the activateUpcalls argument of connect
    LinkMayFail       \* whether the network may fail

Threads == Runners \cup Callers \cup Waiters \cup Connectors

ASSUME NobodyAssumption == Nobody \notin Threads
ASSUME BoundsAssumption == MaxConnects \in Nat /\ MaxUpdates \in Nat
ASSUME SwitchAssumption ==
    /\ SpuriousWakeups \in BOOLEAN
    /\ ActivateUpcalls \in BOOLEAN
    /\ LinkMayFail \in BOOLEAN

VARIABLES
    lockOwner, lockDepth,  \* clientMutex, a recursive mutex
    updateOwner,           \* entityUpdateMutex
    client,                \* the UA_Client pointer; 0 is null
    live, made,            \* UA_Clients not yet deleted, and how many were made
    session,               \* the state of client's connection
    monitored,             \* variables with a monitored item at the server
    registered,            \* the keys of subscriptionsRegistry
    inbox,                 \* notifications the connection holds for client
    published,             \* how many values the server has published
    value,                 \* entityUpdateValueRegistry
    pc, up,                \* where a thread is, and where its upcall is
    msg,                   \* the notification its upcall handles
    iter,                  \* the loop counter of its run_once
    var, since,            \* argument of a getVariableNextValue, and the
                           \* value that was stored when it was accepted
    out,                   \* the value that call returned
    status                 \* what the last run_once of a runner returned

locks  == <<lockOwner, lockDepth>>
conn   == <<client, live, made, session, monitored, registered>>
feed   == <<inbox, published>>
nextCall == <<var, since, out>>
vars == <<locks, updateOwner, conn, feed, value, pc, up, msg, iter,
          nextCall, status>>

Handles == 1 .. MaxConnects
Stamps  == 1 .. MaxUpdates
Message == [var : Vars, val : Stamps]
NoMsg   == [var |-> Nobody, val |-> 0]

(* A thread is idle, inside run_once (iterate, lockedSleep), inside a      *)
(* synchronous call, inside getVariableNextValue (the next... places) or   *)
(* inside connect: between its disconnect and its lock (connecting, and    *)
(* overtaken once another connect has locked since), then in handshake.    *)
NextPlaces == {"nextLock", "nextPark", "waiting", "woken", "nextCopy"}
Places == {"idle", "iterate", "lockedSleep", "call", "connecting",
           "overtaken", "handshake"} \cup NextPlaces

(* Where handleEntity is: about to take entityUpdateMutex, holding it, in  *)
(* handleVariableValueUpdate, in a call made from there, or returning.     *)
Upcalls == {"none", "extract", "store", "user", "userCall", "leave"}

(* up = the connection works; broken = it does not and the native client   *)
(* has not noticed; lost = UA_Client_getState is not SESSION.              *)
Sessions == {"none", "up", "broken", "lost"}
-----------------------------------------------------------------------------
(* std::recursive_mutex clientMutex *)
Lock(t) ==
    /\ lockOwner \in {Nobody, t}
    /\ lockOwner' = t
    /\ lockDepth' = lockDepth + 1

Unlock(t) ==
    /\ lockDepth' = lockDepth - 1
    /\ lockOwner' = IF lockDepth = 1 THEN Nobody ELSE t

(* A critical section that is a single step needs the mutex to be free. *)
LockFree == lockOwner = Nobody

(* A thread that is in place p, and not inside an upcall. *)
At(t, p) == pc[t] = p /\ up[t] = "none"

(* The native client finds out that its connection is broken. *)
Noticed == IF session = "broken" THEN "lost" ELSE session

Go(t, p) == pc' = [pc EXCEPT ![t] = p]
Answer(t, code) == status' = [status EXCEPT ![t] = code]

Init ==
    /\ lockOwner = Nobody /\ lockDepth = 0 /\ updateOwner = Nobody
    /\ client = 0 /\ live = {} /\ made = 0 /\ session = "none"
    /\ monitored = {} /\ registered = {}
    /\ inbox = {} /\ published = 0
    /\ value = [v \in Vars |-> 0]
    /\ pc = [t \in Threads |-> "idle"]
    /\ up = [t \in Threads |-> "none"]
    /\ msg = [t \in Threads |-> NoMsg]
    /\ iter = [t \in Threads |-> 0]
    /\ var \in [Waiters -> Vars]
    /\ since = [t \in Waiters |-> 0]
    /\ out = [t \in Waiters |-> 0]
    /\ status = [t \in Runners |-> "ALL_OK"]
-----------------------------------------------------------------------------
(* handleEntity: the native client found a notification while thread t was *)
(* using it.                                                               *)

Oldest == {m \in inbox : \A n \in inbox : n.var = m.var => m.val <= n.val}

BeginUpcall(t) ==
    \E m \in Oldest :
        /\ Lock(t)
        /\ inbox' = inbox \ {m}
        /\ msg' = [msg EXCEPT ![t] = m]
        /\ up' = [up EXCEPT ![t] = IF <<client, m.var>> \in registered
                                   THEN "extract" ELSE "leave"]

AcquireUpdate(t) ==
    /\ up[t] = "extract"
    /\ updateOwner = Nobody
    /\ updateOwner' = t
    /\ up' = [up EXCEPT ![t] = "store"]
    /\ UNCHANGED <<locks, conn, feed, value, pc, msg, iter, nextCall, status>>

(* mutants: one condition variable for all variables, and no notify at all *)
WaitingForAnything(v) == {t \in Waiters : pc[t] = "waiting"}
WaitingForNothing(v) == {}

(* notify_all empties the wait set of the variable's condition variable *)
WaitingFor(v) == {t \in Waiters : pc[t] = "waiting" /\ var[t] = v}

(* mutant: one stored value, not one per variable *)
StoreForAll(t) ==
    /\ up[t] = "store"
    /\ value' = [v \in Vars |-> msg[t].val]
    /\ pc' = [w \in Threads |->
                 IF w \in WaitingFor(msg[t].var) THEN "woken" ELSE pc[w]]
    /\ updateOwner' = Nobody
    /\ up' = [up EXCEPT ![t] = "user"]
    /\ UNCHANGED <<locks, conn, feed, msg, iter, nextCall, status>>

StoreAndNotify(t) ==
    /\ up[t] = "store"
    /\ value' = [value EXCEPT ![msg[t].var] = msg[t].val]
    /\ pc' = [w \in Threads |->
                 IF w \in WaitingFor(msg[t].var) THEN "woken" ELSE pc[w]]
    /\ updateOwner' = Nobody
    /\ up' = [up EXCEPT ![t] = "user"]
    /\ UNCHANGED <<locks, conn, feed, msg, iter, nextCall, status>>

(* handleVariableValueUpdate of a derived class may call the client again. *)
UserCall(t) ==
    /\ up[t] = "user"
    /\ Lock(t)
    /\ up' = [up EXCEPT ![t] = "userCall"]
    /\ UNCHANGED <<updateOwner, conn, feed, value, pc, msg, iter, nextCall,
                   status>>

UserCallEnd(t) ==
    /\ up[t] = "userCall"
    /\ Unlock(t)
    /\ session' = Noticed
    /\ up' = [up EXCEPT ![t] = "leave"]
    /\ UNCHANGED <<updateOwner, client, live, made, monitored, registered,
                   feed, value, pc, msg, iter, nextCall, status>>

(* mutant: clientMutex.unlock() before the unique_lock unlocks it again *)
EndUpcallTwice(t) ==
    /\ up[t] \in {"user", "leave"}
    /\ lockDepth' = lockDepth - 2
    /\ lockOwner' = IF lockDepth = 2 THEN Nobody ELSE t
    /\ up' = [up EXCEPT ![t] = "none"]
    /\ msg' = [msg EXCEPT ![t] = NoMsg]
    /\ UNCHANGED <<updateOwner, conn, feed, value, pc, iter, nextCall, status>>

EndUpcall(t) ==
    /\ up[t] \in {"user", "leave"}
    /\ Unlock(t)
    /\ up' = [up EXCEPT ![t] = "none"]
    /\ msg' = [msg EXCEPT ![t] = NoMsg]
    /\ UNCHANGED <<updateOwner, conn, feed, value, pc, iter, nextCall, status>>
-----------------------------------------------------------------------------
(* run_once.  The sleep that follows an unlock, and the caller's loop, are *)
(* part of "idle".                                                         *)

RunOnceDisconnected(t) ==
    /\ At(t, "idle") /\ LockFree
    /\ client = 0
    /\ Answer(t, "DISCONNECTED")
    /\ UNCHANGED <<locks, updateOwner, conn, feed, value, pc, up, msg, iter,
                   nextCall>>

(* The session is not usable: run_once sleeps with clientMutex locked. *)
RunOnceSessionLost(t) ==
    /\ At(t, "idle") /\ Lock(t)
    /\ client # 0 /\ session = "lost"
    /\ Go(t, "lockedSleep")
    /\ UNCHANGED <<updateOwner, conn, feed, value, up, msg, iter, nextCall,
                   status>>

(* mutant: the early return leaves clientMutex locked *)
WakeLocked(t) ==
    /\ At(t, "lockedSleep")
    /\ Go(t, "idle")
    /\ Answer(t, "DISCONNECTED")
    /\ UNCHANGED <<locks, updateOwner, conn, feed, value, up, msg, iter,
                   nextCall>>

RunOnceWake(t) ==
    /\ At(t, "lockedSleep") /\ Unlock(t)
    /\ Go(t, "idle")
    /\ Answer(t, "DISCONNECTED")
    /\ UNCHANGED <<updateOwner, conn, feed, value, up, msg, iter, nextCall>>

RunOnceBegin(t) ==
    /\ At(t, "idle") /\ Lock(t)
    /\ client # 0 /\ session # "lost"
    /\ Go(t, "iterate")
    /\ iter' = [iter EXCEPT ![t] = 0]
    /\ UNCHANGED <<updateOwner, conn, feed, value, up, msg, nextCall, status>>

(* mutant: the loop stops one short *)
IterationsOneShort == Cardinality(registered) - 1

Iterations == Cardinality(registered)

(* UA_Client_run_iterate, once for every entry of subscriptionsRegistry *)
Iterate(t) ==
    /\ At(t, "iterate")
    /\ iter[t] < Iterations
    /\ iter' = [iter EXCEPT ![t] = @ + 1]
    /\ \/ /\ BeginUpcall(t)
          /\ UNCHANGED <<session, published>>
       \/ /\ inbox = {}
          /\ session' = Noticed
          /\ UNCHANGED <<locks, feed, msg, up>>
    /\ UNCHANGED <<updateOwner, client, live, made, monitored, registered,
                   value, pc, nextCall, status>>

RunOnceEnd(t) ==
    /\ At(t, "iterate") /\ Unlock(t)
    /\ iter[t] >= Iterations
    /\ Go(t, "idle")
    /\ iter' = [iter EXCEPT ![t] = 0]
    /\ Answer(t, "ALL_OK")
    /\ UNCHANGED <<updateOwner, conn, feed, value, up, msg, nextCall>>
-----------------------------------------------------------------------------
(* getVariableCurrentValue, setVariableValue, callMethod *)

(* A call that checkAndGetEntityId refuses (no client, or no such entity)  *)
(* returns at once and changes nothing.                                    *)
CallBegin(t) ==
    /\ At(t, "idle") /\ Lock(t)
    /\ client # 0
    /\ Go(t, "call")
    /\ UNCHANGED <<updateOwner, conn, feed, value, up, msg, iter, nextCall,
                   status>>

(* A synchronous service call handles the notifications it meets. *)
CallUpcall(t) ==
    /\ At(t, "call")
    /\ BeginUpcall(t)
    /\ UNCHANGED <<updateOwner, conn, published, value, pc, iter, nextCall,
                   status>>

CallEnd(t) ==
    /\ At(t, "call") /\ Unlock(t)
    /\ Go(t, "idle")
    /\ session' = Noticed
    /\ UNCHANGED <<updateOwner, client, live, made, monitored, registered,
                   feed, value, up, msg, iter, nextCall, status>>
-----------------------------------------------------------------------------
(* getVariableNextValue *)

(* mutant: clientMutex is locked for the whole call *)
CheckHolding(t, v) ==
    /\ At(t, "idle") /\ Lock(t)
    /\ client # 0
    /\ Go(t, "nextLock")
    /\ var' = [var EXCEPT ![t] = v]
    /\ since' = [since EXCEPT ![t] = value[v]]
    /\ UNCHANGED <<updateOwner, conn, feed, value, up, msg, iter, out, status>>

(* The check runs under clientMutex, which is released before the wait. *)
NextCheck(t, v) ==
    /\ At(t, "idle") /\ LockFree
    /\ client # 0
    /\ Go(t, "nextLock")
    /\ var' = [var EXCEPT ![t] = v]
    /\ since' = [since EXCEPT ![t] = value[v]]
    /\ UNCHANGED <<locks, updateOwner, conn, feed, value, up, msg, iter, out,
                   status>>

NextAcquire(t) ==
    /\ \/ pc[t] = "nextLock" /\ Go(t, "nextPark")
       \/ pc[t] = "woken" /\ Go(t, "nextCopy")
    /\ updateOwner = Nobody
    /\ updateOwner' = t
    /\ UNCHANGED <<locks, conn, feed, value, up, msg, iter, nextCall, status>>

(* mutants: a wait that times out, and one that keeps the mutex *)
ParkBriefly(t) ==
    /\ pc[t] = "nextPark"
    /\ updateOwner' = Nobody
    /\ Go(t, "woken")
    /\ UNCHANGED <<locks, conn, feed, value, up, msg, iter, nextCall, status>>
ParkHolding(t) ==
    /\ pc[t] = "nextPark"
    /\ Go(t, "waiting")
    /\ UNCHANGED <<locks, updateOwner, conn, feed, value, up, msg, iter,
                   nextCall, status>>

(* condition_variable::wait without a predicate *)
NextPark(t) ==
    /\ pc[t] = "nextPark"
    /\ updateOwner' = Nobody
    /\ Go(t, "waiting")
    /\ UNCHANGED <<locks, conn, feed, value, up, msg, iter, nextCall, status>>

NextReturn(t) ==
    /\ pc[t] = "nextCopy"
    /\ out' = [out EXCEPT ![t] = value[var[t]]]
    /\ updateOwner' = Nobody
    /\ Go(t, "idle")
    /\ UNCHANGED <<locks, conn, feed, value, up, msg, iter, var, since,
                   status>>

Spurious(t) ==
    /\ SpuriousWakeups
    /\ pc[t] = "waiting"
    /\ Go(t, "woken")
    /\ UNCHANGED <<locks, updateOwner, conn, feed, value, up, msg, iter,
                   nextCall, status>>
-----------------------------------------------------------------------------
(* connect and disconnect *)

DropClient ==
    /\ client' = 0
    /\ live' = live \ {client}
    /\ session' = "none"
    /\ monitored' = {}
    /\ inbox' = {}

(* mutant: disconnect without its unique_lock *)
DisconnectUnlocked(t) ==
    /\ At(t, "idle")
    /\ DropClient
    /\ UNCHANGED <<locks, updateOwner, made, registered, published, value, pc,
                   up, msg, iter, nextCall, status>>

Disconnect(t) ==
    /\ At(t, "idle") /\ LockFree
    /\ DropClient
    /\ UNCHANGED <<locks, updateOwner, made, registered, published, value, pc,
                   up, msg, iter, nextCall, status>>

Connecting == {t \in Threads : pc[t] \in {"connecting", "overtaken"}}

(* mutant: connect relies on its caller to have disconnected *)
ConnectKeeps(t) ==
    /\ At(t, "idle") /\ LockFree
    /\ made + Cardinality(Connecting) < MaxConnects
    /\ Go(t, "connecting")
    /\ UNCHANGED <<locks, updateOwner, conn, feed, value, up, msg, iter,
                   nextCall, status>>

(* connect first calls disconnect, which takes and releases clientMutex *)
ConnectBegin(t) ==
    /\ At(t, "idle") /\ LockFree
    /\ made + Cardinality(Connecting) < MaxConnects
    /\ DropClient
    /\ Go(t, "connecting")
    /\ UNCHANGED <<locks, updateOwner, made, registered, published, value, up,
                   msg, iter, nextCall, status>>

ConnectNew(t) ==
    /\ t \in Connecting /\ up[t] = "none" /\ Lock(t)
    /\ made' = made + 1
    /\ client' = made + 1
    /\ live' = live \cup {made + 1}
    /\ session' = "lost" /\ monitored' = {} /\ inbox' = {}
    /\ pc' = [u \in Threads |-> CASE u = t -> "handshake"
                                  [] u \in Connecting \ {t} -> "overtaken"
                                  [] OTHER -> pc[u]]
    /\ UNCHANGED <<updateOwner, registered, published, value, up, msg, iter,
                   nextCall, status>>

(* no endpoint, no connection, or no object at the given path *)
ConnectFail(t) ==
    /\ At(t, "handshake") /\ Unlock(t)
    /\ DropClient
    /\ Go(t, "idle")
    /\ UNCHANGED <<updateOwner, made, registered, published, value, up, msg,
                   iter, nextCall, status>>

(* createClientSpace registers the subscriptions of ids, of which those to *)
(* items get a monitored item.  When it returns false connect returns      *)
(* ERROR_COMMUNICATION, and the client stays connected.                    *)
ConnectDone(t) ==
    /\ At(t, "handshake") /\ Unlock(t)
    /\ session' = "up"
    /\ \E ids \in SUBSET Vars : \E items \in SUBSET ids :
           /\ ActivateUpcalls \/ ids = {}
           /\ registered' = registered \cup ({client} \X ids)
           /\ monitored' = items
    /\ Go(t, "idle")
    /\ UNCHANGED <<updateOwner, client, live, made, feed, value, up, msg,
                   iter, nextCall, status>>
-----------------------------------------------------------------------------
(* The server and the network *)

Publish(v) ==
    /\ session = "up" /\ v \in monitored
    /\ published < MaxUpdates
    /\ published' = published + 1
    /\ inbox' = inbox \cup {[var |-> v, val |-> published + 1]}
    /\ UNCHANGED <<locks, updateOwner, conn, value, pc, up, msg, iter,
                   nextCall, status>>

LinkDown ==
    /\ LinkMayFail
    /\ session = "up"
    /\ session' = "broken"
    /\ inbox' \in {inbox, {}}
    /\ UNCHANGED <<locks, updateOwner, client, live, made, monitored,
                   registered, published, value, pc, up, msg, iter, nextCall,
                   status>>
-----------------------------------------------------------------------------
Upcall(t) ==
    \/ AcquireUpdate(t) \/ StoreAndNotify(t)
    \/ UserCall(t) \/ UserCallEnd(t) \/ EndUpcall(t)

RunOnce(t) ==
    \/ RunOnceDisconnected(t) \/ RunOnceSessionLost(t) \/ RunOnceWake(t)
    \/ RunOnceBegin(t) \/ Iterate(t) \/ RunOnceEnd(t)

Call(t) == CallBegin(t) \/ CallUpcall(t) \/ CallEnd(t)

NextValue(t) == NextAcquire(t) \/ NextPark(t) \/ NextReturn(t)

Connect(t) == ConnectNew(t) \/ ConnectFail(t) \/ ConnectDone(t)

Next ==
    \/ \E t \in Threads : Upcall(t)
    \/ \E t \in Runners : RunOnce(t)
    \/ \E t \in Callers : Call(t)
    \/ \E t \in Waiters :
           \/ NextValue(t) \/ Spurious(t)
           \/ \E v \in Vars : NextCheck(t, v)
    \/ \E t \in Connectors : Disconnect(t) \/ ConnectBegin(t) \/ Connect(t)
    \/ \E v \in Vars : Publish(v)
    \/ LinkDown

Spec == Init /\ [][Next]_vars

(* A thread that is inside an operation goes on with it, and runners never *)
(* stop.  Strong fairness because a thread that waits for a mutex is ready *)
(* only now and then: it gets the mutex if it becomes free often enough.   *)
(* Nothing is assumed of the decision to begin a call, of the server, of   *)
(* the network, or of spurious wakeups.                                    *)
Fairness ==
    /\ \A t \in Threads : SF_vars(Upcall(t))
    /\ \A t \in Runners : SF_vars(RunOnce(t))
    /\ \A t \in Callers : SF_vars(CallUpcall(t) \/ CallEnd(t))
    /\ \A t \in Waiters : SF_vars(NextValue(t))
    /\ \A t \in Connectors : SF_vars(Connect(t))

FairSpec == Spec /\ Fairness
-----------------------------------------------------------------------------
(* Every variable keeps to its range. *)
TypeOK ==
    /\ lockOwner \in Threads \cup {Nobody} /\ lockDepth \in Nat
    /\ updateOwner \in Threads \cup {Nobody}
    /\ client \in Nat /\ made \in Nat /\ live \subseteq Nat
    /\ session \in Sessions
    /\ monitored \subseteq Vars /\ registered \subseteq (Nat \X Vars)
    /\ inbox \subseteq Message /\ published \in 0 .. MaxUpdates
    /\ value \in [Vars -> 0 .. MaxUpdates]
    /\ pc \in [Threads -> Places] /\ up \in [Threads -> Upcalls]
    /\ msg \in [Threads -> Message \cup {NoMsg}]
    /\ iter \in [Threads -> Nat]
    /\ var \in [Waiters -> Vars]
    /\ since \in [Waiters -> 0 .. MaxUpdates]
    /\ out \in [Waiters -> 0 .. MaxUpdates]
    /\ status \in [Runners -> {"ALL_OK", "DISCONNECTED"}]

(* How often a thread has locked clientMutex, by where it is: once in the  *)
(* operation, once more in handleEntity, and again in a call made there.   *)
OperationFrames(t) ==
    IF pc[t] \in {"iterate", "lockedSleep", "call", "handshake"} THEN 1 ELSE 0
UpcallFrames(t) ==
    CASE up[t] = "none" -> 0
      [] up[t] = "userCall" -> 2
      [] OTHER -> 1
Frames(t) == OperationFrames(t) + UpcallFrames(t)

(* clientMutex is held exactly by the thread whose scopes are open: it is  *)
(* unlocked as often as it was locked, on every path and at every depth of *)
(* recursion, and a thread that waits in getVariableNextValue does not     *)
(* hold it (the deadlock the comment at OpcUaGenericClient.cc:646 fears).  *)
ClientMutexFollowsScopes ==
    /\ lockOwner = Nobody => lockDepth = 0
    /\ \A t \in Threads :
           /\ lockOwner = t <=> Frames(t) > 0
           /\ lockOwner = t => lockDepth = Frames(t)

(* entityUpdateMutex is held exactly by a thread that stores a value, is   *)
(* about to wait, or copies the value: these never overlap, and a waiting  *)
(* thread does not hold it.                                                *)
UpdateMutexFollowsScopes ==
    \A t \in Threads :
        updateOwner = t <=> \/ up[t] = "store"
                            \/ pc[t] \in {"nextPark", "nextCopy"}

(* An upcall happens inside run_once or a synchronous call, never while    *)
(* its thread is elsewhere, and it has a notification to handle.           *)
UpcallHasContext ==
    \A t \in Threads :
        /\ up[t] # "none" => pc[t] \in {"iterate", "call"}
        /\ up[t] \in {"extract", "store"} => msg[t] \in Message

LocksFollowScopes ==
    ClientMutexFollowsScopes /\ UpdateMutexFollowsScopes /\ UpcallHasContext

(* While a thread is inside the native client (iterating, in a service     *)
(* call, or in an upcall out of one of those) no other thread is, and the  *)
(* client is neither null nor deleted under it                             *)
(* (OpcUaGenericClient.hh:48, "prevents from concurrent access").          *)
InsideClient(t) == pc[t] \in {"iterate", "call", "handshake"}
ClientInUse ==
    \A t \in Threads : InsideClient(t) =>
        /\ client \in live
        /\ \A u \in Threads \ {t} : ~InsideClient(u)

(* A UA_Client that was created and not deleted, and to which no pointer   *)
(* is left, is lost.  A connect that another one overtakes between its     *)
(* disconnect and its lock (OpcUaGenericClient.cc:124-128) may lose the    *)
(* other's client; nothing else a thread does loses one, in whatever order *)
(* they connect, disconnect and fail.                                      *)
Lost == live \ {client}
OnlyTheGapLosesClients ==
    [][\/ Lost' \subseteq Lost
       \/ \E t \in Connectors :
              pc[t] = "overtaken" /\ pc'[t] = "handshake"]_vars

(* Notifications reach value in the order they were published, whichever   *)
(* thread hands them over and over however many connections: all that are  *)
(* under way are newer than what is stored, the one in an upcall is newer  *)
(* than the stored value and older than the ones still in the inbox.       *)
NotificationsInOrder ==
    /\ \A v \in Vars : value[v] <= published
    /\ \A m \in inbox : value[m.var] < m.val /\ m.val <= published
    /\ \A t \in Threads : up[t] \in {"extract", "store"} =>
           /\ value[msg[t].var] < msg[t].val /\ msg[t].val <= published
           /\ \A m \in inbox : m.var = msg[t].var => msg[t].val < m.val

(* A woken call of getVariableNextValue has a value newer than the one     *)
(* stored when the call was accepted, until it returns (without spurious   *)
(* wakeups).                                                               *)
WokenByNews ==
    \A t \in Waiters : pc[t] \in NextPlaces =>
        /\ value[var[t]] >= since[t]
        /\ pc[t] \in {"woken", "nextCopy"} => value[var[t]] > since[t]

(* getVariableNextValue implements its promise: a call returns the current *)
(* value, one newer than the value stored when the call was accepted, and  *)
(* a stored value is never replaced by an older one.                       *)
Feed == INSTANCE NextValueFeed WITH
            Readers <- Waiters,
            latest  <- value,
            pending <- {t \in Waiters : pc[t] \in NextPlaces}
NextValueImplementsFeed == Feed!Spec

(* A thread is blocked if it is about to lock a mutex and may not.         *)
Blocked(t) ==
    \/ /\ At(t, "idle") \/ t \in Connecting \/ up[t] = "user"
       /\ lockOwner \notin {Nobody, t}
    \/ /\ up[t] = "extract" \/ pc[t] \in {"nextLock", "woken"}
       /\ updateOwner # Nobody

(* The two mutexes cannot deadlock, though an upcall locks the second one  *)
(* with the first one locked, and getVariableNextValue waits with the      *)
(* second (OpcUaGenericClient.cc:440, 657): while anybody is blocked, one  *)
(* of the threads that have a mutex goes on.                               *)
NoCircularWait ==
    (\E t \in Threads : Blocked(t)) =>
        \E u \in Threads \cap {lockOwner, updateOwner} :
            ~Blocked(u) /\ pc[u] # "waiting"

(* A thread that is inside an operation gets out of it, unless it waits    *)
(* for a value, and clientMutex is free again and again: no two threads    *)
(* wait for each other across clientMutex and entityUpdateMutex, and none  *)
(* waits for a value with clientMutex locked.                              *)
NoThreadIsStuck ==
    /\ \A t \in Threads :
           (pc[t] \notin {"idle", "waiting"}) ~> (pc[t] \in {"idle", "waiting"})
    /\ []<>LockFree

(* A waiter whose variable has a notification under way is woken, as long  *)
(* as the connection lasts.                                                *)
UnderWay(v) == \E m \in inbox : m.var = v
UpdateReleasesWaiter ==
    \A t \in Waiters :
        (pc[t] = "waiting" /\ UnderWay(var[t]))
            ~> (pc[t] # "waiting" \/ session # "up")

(* run_once reports a lost connection (OpcUaGenericClient.hh:251) when the *)
(* client has subscriptions that make it use the socket.                   *)
LossOfSubscriberIsReported ==
    \A r \in Runners :
        (session = "broken" /\ registered # {})
            ~> (status[r] = "DISCONNECTED" \/ session = "up")
=============================================================================
