----------------------- MODULE ServerLifecycle_proofs -----------------------
(***************************************************************************)
(* Theorems about ServerLifecycle, for any servers, addresses and nodes.   *)
(***************************************************************************)
EXTENDS ServerLifecycle, TLAPS

(* Only an object that exists is in run(), and a destroyed one is gone.    *)
OnlyTheLivingRun ==
    \A s \in Servers :
        /\ place[s] # "idle" => Exists(s)
        /\ s \in dead => ~Exists(s)
        /\ result[s] # "none" => Exists(s) \/ s \in dead

(* Two native servers that exist have different addresses.                 *)
AddressesDiffer ==
    \A s, t \in Servers : s # t /\ Exists(s) => server[s] # server[t]

(* What createServerSpace has added so far has its callbacks.              *)
TriedHasCallbacks ==
    \A s \in Servers :
        place[s] = "createServerSpace" => tried[s] \subseteq callback[s]

(* An object that came back from the native server has a full space, and   *)
(* its next createServerSpace adds nothing.                                *)
SpaceStaysFull ==
    \A s \in Servers :
        result[s] \in {"0", "error"} /\ Exists(s) =>
            /\ Nodes \subseteq space[s]
            /\ place[s] = "createServerSpace" => tried[s] = {}

(* A callback is set on a node that was added.                             *)
CallbacksHaveNodes == \A s \in Servers : callback[s] \subseteq space[s]

ServerInv ==
    /\ TypeOK /\ OnlyTheLivingRun /\ AddressesDiffer
    /\ UpcallsReachTheirObject
    /\ TriedHasCallbacks /\ SpaceStaysFull /\ CallbacksHaveNodes
    /\ ServedSpaceIsComplete /\ ServesOnlyOnce

(* Every step keeps the variables in their ranges. *)
LEMMA TypeStep ==
    ASSUME TypeOK, OnlyTheLivingRun, [Next]_vars
    PROVE  TypeOK'
<1> USE DEF TypeOK, Places, Results, Go, Return, Stop, build
<1>1. ASSUME NEW s \in Servers, Construct(s)
      PROVE  TypeOK'
    BY <1>1 DEF Construct, Bind
<1>2. ASSUME NEW s \in Servers, Destroy(s)
      PROVE  TypeOK'
    BY <1>2 DEF Destroy
<1>3. ASSUME NEW s \in Servers, SignalStop(s) \/ RunBegin(s)
      PROVE  TypeOK'
    BY <1>3 DEF SignalStop, RunBegin
<1>4. ASSUME NEW s \in Servers, NEW n \in Nodes, AddNode(s, n)
      PROVE  TypeOK'
    BY <1>4 DEF AddNode
<1>5. ASSUME NEW s \in Servers, AddNodeFails(s)
      PROVE  TypeOK'
    BY <1>5 DEF AddNodeFails
<1>6. ASSUME NEW s \in Servers, SpaceCreated(s) \/ Startup(s) \/ Loop(s)
      PROVE  TypeOK'
    BY <1>6 DEF SpaceCreated, Startup, Loop
<1>7. ASSUME NEW s \in Servers, Upcall(s)
      PROVE  TypeOK'
  <2>1. s \in Servers /\ server[s] \in Addresses
      BY <1>7 DEF Upcall, OnlyTheLivingRun, Exists
  <2> QED
      BY <1>7, <2>1 DEF Upcall
<1>8. ASSUME NEW s \in Servers, UpcallEnd(s) \/ IterateEnd(s)
      PROVE  TypeOK'
    BY <1>8 DEF UpcallEnd, IterateEnd
<1>9. CASE SignalHandler
    BY <1>9 DEF SignalHandler
<1>10. CASE UNCHANGED vars
    BY <1>10 DEF vars
<1> QED
    BY <1>1, <1>2, <1>3, <1>4, <1>5, <1>6, <1>7, <1>8, <1>9, <1>10
    DEF Next, CreateSpace

(* The invariant without the types, for a single object. *)
Sound(s) ==
    /\ place[s] # "idle" => Exists(s)
    /\ s \in dead => ~Exists(s)
    /\ result[s] # "none" => Exists(s) \/ s \in dead
    /\ \A t \in Servers : s # t /\ Exists(s) => server[s] # server[t]
    /\ Exists(s) => binding[server[s]] = s
    /\ place[s] = "upcall" => Exists(s) /\ upcall[s] = s
    /\ place[s] = "createServerSpace" => tried[s] \subseteq callback[s]
    /\ result[s] \in {"0", "error"} /\ Exists(s) =>
           /\ Nodes \subseteq space[s]
           /\ place[s] = "createServerSpace" => tried[s] = {}
    /\ Serving(s) => callback[s] = Nodes
    /\ callback[s] \subseteq space[s]
    /\ Nodes # {} /\ Serving(s) => result[s] \in {"none", "-1"}

(* The invariant is that every object is sound. *)
LEMMA InvIsSound == ServerInv <=> TypeOK /\ \A s \in Servers : Sound(s)
BY DEF ServerInv, Sound, OnlyTheLivingRun, AddressesDiffer,
       UpcallsReachTheirObject, TriedHasCallbacks, SpaceStaysFull,
       CallbacksHaveNodes, ServedSpaceIsComplete, ServesOnlyOnce

(* A step that an object takes in run() keeps it sound, and the others are *)
(* not concerned.                                                          *)
LEMMA RunStep ==
    ASSUME TypeOK, \A t \in Servers : Sound(t), NEW s \in Servers,
           \/ RunBegin(s) \/ CreateSpace(s) \/ Startup(s) \/ Loop(s)
           \/ Upcall(s) \/ UpcallEnd(s) \/ IterateEnd(s)
    PROVE  \A t \in Servers : Sound(t)'
<1> USE DEF TypeOK, Go, Return, build
<1>1. UNCHANGED <<server, dead, binding>>
    BY DEF RunBegin, CreateSpace, AddNode, AddNodeFails, SpaceCreated,
           Startup, Loop, Upcall, UpcallEnd, IterateEnd
<1>2. ASSUME NEW t \in Servers \ {s}
      PROVE  Sound(t)'
  <2>1. /\ place'[t] = place[t] /\ result'[t] = result[t]
        /\ upcall'[t] = upcall[t] /\ tried'[t] = tried[t]
        /\ space'[t] = space[t] /\ callback'[t] = callback[t]
      BY DEF RunBegin, CreateSpace, AddNode, AddNodeFails, SpaceCreated,
             Startup, Loop, Upcall, UpcallEnd, IterateEnd
  <2>2. (Exists(t)' <=> Exists(t)) /\ (Serving(t)' <=> Serving(t))
      BY <1>1, <2>1 DEF Exists, Serving
  <2>3. UNCHANGED <<server, dead, binding>> /\ Sound(t)
      BY <1>1
  <2> QED
      BY <2>1, <2>2, <2>3 DEF Sound
<1>3. Sound(s)'
  <2>1. CASE RunBegin(s)
      BY <1>1, <2>1 DEF RunBegin, Sound, Exists, Serving
  <2>2. ASSUME NEW n \in Nodes, AddNode(s, n)
        PROVE  Sound(s)'
      BY <1>1, <2>2 DEF AddNode, Sound, Exists, Serving
  <2>3. CASE AddNodeFails(s)
    <3>1. /\ place'[s] = "idle" /\ result'[s] = "-1"
          /\ space[s] \subseteq space'[s] /\ UNCHANGED <<callback, upcall>>
          /\ place[s] # "idle"
        BY <2>3 DEF AddNodeFails
    <3> QED
        BY <1>1, <3>1 DEF Sound, Exists, Serving
  <2>4. CASE SpaceCreated(s)
    <3>1. /\ place[s] = "createServerSpace" /\ place'[s] = "startup"
          /\ tried[s] = Nodes
          /\ UNCHANGED <<tried, space, callback, upcall, result>>
        BY <2>4 DEF SpaceCreated
    <3>2. callback[s] = Nodes
      <4>1. callback[s] \subseteq Nodes
          OBVIOUS
      <4>2. tried[s] \subseteq callback[s]
          BY <3>1 DEF Sound
      <4> QED
          BY <3>1, <4>1, <4>2
    <3>3. Exists(s) /\ result[s] \in Results
        BY <3>1 DEF Sound
    <3>4. Nodes # {} => result[s] \in {"none", "-1"}
        BY <3>1, <3>3 DEF Sound, Results
    <3> QED
      <4>1. place'[s] # "idle" /\ place'[s] # "upcall"
            /\ place'[s] # "createServerSpace"
          BY <3>1
      <4>2. Sound(s) /\ (Exists(s)' <=> Exists(s))
          BY <1>1 DEF Exists
      <4> QED
          BY <1>1, <3>1, <3>2, <3>3, <3>4, <4>1, <4>2 DEF Sound
  <2>5. CASE Startup(s)
      BY <1>1, <2>5 DEF Startup, Sound, Exists, Serving
  <2>6. CASE Loop(s)
      BY <1>1, <2>6 DEF Loop, Sound, Exists, Serving
  <2>7. CASE Upcall(s)
    <3>1. /\ upcall' = [upcall EXCEPT ![s] = binding[server[s]]]
          /\ place'[s] = "upcall" /\ place[s] = "iterate"
          /\ UNCHANGED <<build, result>>
        BY <2>7 DEF Upcall
    <3>2. upcall'[s] = s
        BY <3>1 DEF Sound
    <3> QED
        BY <1>1, <3>1, <3>2 DEF Sound, Exists, Serving
  <2>8. CASE UpcallEnd(s) \/ IterateEnd(s)
      BY <1>1, <2>8 DEF UpcallEnd, IterateEnd, Sound, Exists, Serving
  <2> QED
      BY <2>1, <2>2, <2>3, <2>4, <2>5, <2>6, <2>7, <2>8 DEF CreateSpace
<1> QED
    BY <1>2, <1>3

(* A new object takes over the entries of its address, and no other object *)
(* has that address.                                                       *)
LEMMA ConstructStep ==
    ASSUME TypeOK, \A t \in Servers : Sound(t), NEW s \in Servers, Construct(s)
    PROVE  \A t \in Servers : Sound(t)'
<1> USE NothingAssumption DEF TypeOK
<1>1. PICK a \in Addresses :
          /\ \A t \in Servers : server[t] # a
          /\ server' = [server EXCEPT ![s] = a]
          /\ binding' = [binding EXCEPT ![a] = s]
    BY DEF Construct, Bind
<1>2. /\ ~Exists(s) /\ s \notin dead
      /\ UNCHANGED <<dead, place, tried, space, callback, upcall, result>>
    BY DEF Construct
<1>3. a # Nothing
    OBVIOUS
<1>4. ASSUME NEW t \in Servers \ {s}
      PROVE  Sound(t)'
  <2>1. server'[t] = server[t] /\ (Exists(t)' <=> Exists(t))
      BY <1>1 DEF Exists
  <2>2. Exists(t) => binding'[server[t]] = binding[server[t]]
      BY <1>1 DEF Exists
  <2>3. \A u \in Servers : t # u /\ Exists(t) => server'[t] # server'[u]
      BY <1>1, <2>1 DEF Sound
  <2> QED
      BY <1>2, <2>1, <2>2, <2>3 DEF Sound, Serving
<1>5. Sound(s)'
  <2>1. server'[s] = a /\ binding'[a] = s /\ Exists(s)'
      BY <1>1, <1>3 DEF Exists
  <2>2. place[s] = "idle" /\ result[s] = "none"
      BY <1>2 DEF Sound
  <2>3. \A u \in Servers : s # u => server'[s] # server'[u]
      BY <1>1
  <2> QED
      BY <1>2, <2>1, <2>2, <2>3 DEF Sound, Serving
<1> QED
    BY <1>4, <1>5

(* Stopping or destroying an object leaves every object sound. *)
LEMMA StopStep ==
    ASSUME TypeOK, \A t \in Servers : Sound(t),
           SignalHandler \/ \E s \in Servers : Destroy(s) \/ SignalStop(s)
    PROVE  \A t \in Servers : Sound(t)'
<1> USE NothingAssumption DEF TypeOK, build
<1>1. CASE SignalHandler \/ \E s \in Servers : SignalStop(s)
  <2>1. UNCHANGED <<binding, server, dead, build, place, upcall, result>>
      BY <1>1 DEF SignalHandler, SignalStop
  <2> QED
      BY <2>1 DEF Sound, Exists, Serving
<1>2. ASSUME NEW s \in Servers, Destroy(s)
      PROVE  \A t \in Servers : Sound(t)'
  <2>1. /\ place[s] = "idle"
        /\ server' = [server EXCEPT ![s] = Nothing]
        /\ dead' = dead \cup {s}
        /\ space' = [space EXCEPT ![s] = {}]
        /\ callback' = [callback EXCEPT ![s] = {}]
        /\ UNCHANGED <<binding, tried, place, upcall, result>>
      BY <1>2 DEF Destroy
  <2>2. ASSUME NEW t \in Servers \ {s}
        PROVE  Sound(t)'
    <3>1. /\ server'[t] = server[t] /\ (t \in dead' <=> t \in dead)
          /\ space'[t] = space[t] /\ callback'[t] = callback[t]
        BY <2>1
    <3>2. (Exists(t)' <=> Exists(t)) /\ (Serving(t)' <=> Serving(t))
        BY <2>1, <3>1 DEF Exists, Serving
    <3>3. \A u \in Servers : t # u /\ Exists(t) => server'[t] # server'[u]
        BY <2>1, <3>1 DEF Sound, Exists
    <3> QED
        BY <2>1, <3>1, <3>2, <3>3 DEF Sound
  <2>3. Sound(s)'
    <3>1. /\ ~Exists(s)' /\ s \in dead' /\ place'[s] = "idle"
          /\ callback'[s] = {}
        BY <2>1 DEF Exists
    <3> QED
        BY <3>1 DEF Sound, Serving
  <2> QED
      BY <2>2, <2>3
<1> QED
    BY <1>1, <1>2

(* The invariant holds in every state. *)
LEMMA ServerInvHolds == Spec => []ServerInv
<1>1. Init => TypeOK /\ \A s \in Servers : Sound(s)
    BY DEF Init, TypeOK, Sound, Exists, Serving, Places, Results
<1>2. TypeOK /\ (\A s \in Servers : Sound(s)) /\ [Next]_vars
          => TypeOK' /\ \A s \in Servers : Sound(s)'
  <2> SUFFICES ASSUME TypeOK, \A s \in Servers : Sound(s), [Next]_vars
               PROVE  TypeOK' /\ \A s \in Servers : Sound(s)'
      OBVIOUS
  <2>1. TypeOK'
      BY TypeStep DEF OnlyTheLivingRun, Sound
  <2>2. CASE UNCHANGED vars
    <3>1. UNCHANGED <<binding, server, dead, tried, space, callback, place,
                      upcall, result>>
        BY <2>2 DEF vars, build
    <3> QED
        BY <2>1, <3>1 DEF Sound, Exists, Serving
  <2>3. CASE Next
    <3>1. ASSUME NEW s \in Servers, Construct(s)
          PROVE  \A t \in Servers : Sound(t)'
        BY <3>1, ConstructStep
    <3>2. ASSUME NEW s \in Servers,
                 \/ RunBegin(s) \/ CreateSpace(s) \/ Startup(s) \/ Loop(s)
                 \/ Upcall(s) \/ UpcallEnd(s) \/ IterateEnd(s)
          PROVE  \A t \in Servers : Sound(t)'
        BY <3>2, RunStep
    <3>3. ASSUME SignalHandler
                 \/ \E s \in Servers : Destroy(s) \/ SignalStop(s)
          PROVE  \A t \in Servers : Sound(t)'
        BY <3>3, StopStep
    <3> QED
        BY <2>1, <2>3, <3>1, <3>2, <3>3 DEF Next
  <2> QED
      BY <2>1, <2>2, <2>3
<1>3. ServerInv => TypeOK /\ \A s \in Servers : Sound(s)
    BY InvIsSound
<1>4. ServerInv /\ [Next]_vars => ServerInv'
  <2> SUFFICES ASSUME ServerInv, [Next]_vars PROVE ServerInv'
      OBVIOUS
  <2>1. TypeOK' /\ \A s \in Servers : Sound(s)'
      BY <1>2, <1>3
  <2> QED
      BY <2>1
      DEF ServerInv, Sound, OnlyTheLivingRun, AddressesDiffer,
          UpcallsReachTheirObject, TriedHasCallbacks, SpaceStaysFull,
          CallbacksHaveNodes, ServedSpaceIsComplete, ServesOnlyOnce
<1>5. Init => ServerInv
    BY <1>1, InvIsSound
<1> QED
    BY <1>4, <1>5, PTL DEF Spec

(* For any number of servers and any reuse of addresses, the upcalls of a  *)
(* native server are made on the object that owns it.                      *)
THEOREM UpcallsAreRouted == Spec => []UpcallsReachTheirObject
<1>1. ServerInv => UpcallsReachTheirObject
    BY DEF ServerInv
<1> QED
    BY <1>1, ServerInvHolds, PTL

(* A server that answers clients has its whole space, and an object serves *)
(* only once, for any nodes and after any failures.                        *)
THEOREM SpaceIsServedWholeAndOnce ==
    Spec => [](ServedSpaceIsComplete /\ ServesOnlyOnce)
<1>1. ServerInv => ServedSpaceIsComplete /\ ServesOnlyOnce
    BY DEF ServerInv
<1> QED
    BY <1>1, ServerInvHolds, PTL

(* An object whose run() has served once does not serve again.             *)
THEOREM ServesOnce == Spec => []ServesOnlyOnce
<1> QED
    BY SpaceIsServedWholeAndOnce, PTL
=============================================================================
