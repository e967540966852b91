------------------------ MODULE ModelObservers_proofs ------------------------
(***************************************************************************)
(* Theorems about ModelObservers, for any notifiers, views and controllers *)
(* and any number of changes.                                              *)
(***************************************************************************)
EXTENDS ModelObservers, TLAPS

(***************************************************************************)
(* The registry and the loop over it                                       *)
(***************************************************************************)

(* A model pointer is set only after construction began, and an observer   *)
(* that is still to attach is not a controller with a model.               *)
PointersFollowStages ==
    \A o \in Observers :
        /\ stage[o] = "unborn" => ~model[o]
        /\ o \in Views /\ stage[o] \in {"attaching", "attached"} => model[o]
        /\ o \in Controllers /\ stage[o] \in {"attaching", "attached"}
               => ~model[o]

(* Only the notifier that holds the mutex is in the loop of notify.        *)
LoopHoldsMutex ==
    \A n \in Notifiers :
        /\ place[n] = "notifying" <=> holder = n
        /\ place[n] # "notifying" => todo[n] = {} /\ current[n] = Nobody

RegistryInv ==
    /\ TypeOK /\ PointersFollowStages /\ LoopHoldsMutex
    /\ RegistryFollowsLife /\ LoopIsStable

(* A step of an observer's construction or destruction keeps all of it.    *)
LEMMA LifeStep ==
    ASSUME RegistryInv, NEW o \in Observers,
           \/ o \in Views /\ NewView(o)
           \/ o \in Controllers /\ NewController(o)
           \/ Construct(o) \/ Destruct(o) \/ Destroy(o)
    PROVE  RegistryInv'
<1> USE NobodyAssumption, KindAssumption
<1> USE DEF RegistryInv, TypeOK, Observers, Stages, To, loop, history
<1>1. TypeOK'
  <2>1. CASE NewView(o)
      BY <2>1 DEF NewView
  <2>2. CASE NewController(o)
      BY <2>2 DEF NewController
  <2>3. CASE Attach(o)
      BY <2>3 DEF Attach
  <2>4. CASE SetModel(o)
      BY <2>4 DEF SetModel
  <2>5. CASE Derive(o)
      BY <2>5 DEF Derive
  <2>6. CASE Destroy(o) \/ Unbase(o)
      BY <2>6 DEF Destroy, Unbase
  <2>7. CASE Detach(o)
      BY <2>7 DEF Detach
  <2> QED
      BY <2>1, <2>2, <2>3, <2>4, <2>5, <2>6, <2>7 DEF Construct, Destruct
<1>2. PointersFollowStages'
  <2>1. CASE NewView(o) /\ o \in Views
      BY <2>1 DEF PointersFollowStages, NewView
  <2>2. CASE NewController(o) /\ o \in Controllers
      BY <2>2 DEF PointersFollowStages, NewController
  <2>3. CASE Attach(o)
      BY <2>3 DEF PointersFollowStages, Attach
  <2>4. CASE SetModel(o)
      BY <2>4 DEF PointersFollowStages, SetModel
  <2>5. CASE Derive(o) \/ Destroy(o) \/ Unbase(o) \/ Detach(o)
      BY <2>5 DEF PointersFollowStages, Derive, Destroy, Unbase, Detach
  <2> QED
      BY <2>1, <2>2, <2>3, <2>4, <2>5 DEF Construct, Destruct
<1>3. LoopHoldsMutex'
    BY DEF LoopHoldsMutex, NewView, NewController, Construct, Attach,
           SetModel, Derive, Destroy, Destruct, Unbase, Detach
<1>4. RegistryFollowsLife'
    BY DEF RegistryFollowsLife, Registered, PointersFollowStages, NewView,
           NewController, Construct, Attach, SetModel, Derive, Destroy,
           Destruct, Unbase, Detach
<1>5. LoopIsStable'
  <2>1. CASE UNCHANGED registry
      BY <2>1 DEF LoopIsStable, NewView, NewController, Construct, Attach,
                  SetModel, Derive, Destroy, Destruct, Unbase, Detach
  <2>2. CASE registry' = registry \cup {o} /\ UNCHANGED loop
      BY <2>2 DEF LoopIsStable
  <2>3. CASE registry' = registry \ {o} /\ UNCHANGED loop /\ MutexFree
      BY <2>3 DEF LoopIsStable, LoopHoldsMutex, MutexFree
  <2> QED
      BY <2>1, <2>2, <2>3
      DEF NewView, NewController, Construct, Attach, SetModel, Derive,
          Destroy, Destruct, Unbase, Detach
<1> QED
    BY <1>1, <1>2, <1>3, <1>4, <1>5

(* A step of a notifier leaves the registry alone and keeps its loop in it. *)
LEMMA NotifyStep ==
    ASSUME RegistryInv, NEW n \in Notifiers, Change(n) \/ Notify(n)
    PROVE  RegistryInv'
<1> USE NobodyAssumption
<1> USE DEF RegistryInv, TypeOK, observers, history
<1>1. TypeOK'
  <2>1. CASE Change(n)
      BY <2>1 DEF Change
  <2>2. CASE NotifyBegin(n)
      BY <2>2 DEF NotifyBegin
  <2>3. CASE Update(n)
      BY <2>3 DEF Update
  <2>4. CASE UpdateEnd(n) \/ NotifyEnd(n)
      BY <2>4 DEF UpdateEnd, NotifyEnd
  <2> QED
      BY <2>1, <2>2, <2>3, <2>4 DEF Notify
<1>2. PointersFollowStages' /\ RegistryFollowsLife'
    BY DEF PointersFollowStages, RegistryFollowsLife, Registered, Change,
           Notify, NotifyBegin, Update, UpdateEnd, NotifyEnd
<1>3. LoopHoldsMutex'
    BY DEF LoopHoldsMutex, MutexFree, Change, Notify, NotifyBegin, Update,
           UpdateEnd, NotifyEnd
<1>4. LoopIsStable'
    BY <1>3 DEF LoopIsStable, LoopHoldsMutex, Change, Notify, NotifyBegin,
                Update, UpdateEnd, NotifyEnd
<1> QED
    BY <1>1, <1>2, <1>3, <1>4

(* Every state keeps the registry, the stages and the loops in step.       *)
LEMMA RegistryInvHolds == Spec => []RegistryInv
<1>1. Init => RegistryInv
    BY NobodyAssumption
    DEF Init, RegistryInv, TypeOK, PointersFollowStages, LoopHoldsMutex,
        RegistryFollowsLife, LoopIsStable, Registered, Stages
<1>2. RegistryInv /\ [Next]_vars => RegistryInv'
  <2> SUFFICES ASSUME RegistryInv, [Next]_vars PROVE RegistryInv'
      OBVIOUS
  <2>1. CASE UNCHANGED vars
      BY <2>1 DEF vars, observers, loop, history, RegistryInv, TypeOK,
                  PointersFollowStages, LoopHoldsMutex, RegistryFollowsLife,
                  LoopIsStable, Registered
  <2> QED
      BY <2>1, LifeStep, NotifyStep DEF Next, Observers
<1> QED
    BY <1>1, <1>2, PTL DEF Spec

(* The registry holds exactly the observers that exist and have a model,   *)
(* and no observer goes while notify is about to call, or is in, its       *)
(* update(), with any number of threads.                                   *)
THEOREM RegistryIsSound == Spec => [](RegistryFollowsLife /\ LoopIsStable)
<1>1. RegistryInv => RegistryFollowsLife /\ LoopIsStable
    BY DEF RegistryInv
<1> QED
    BY <1>1, RegistryInvHolds, PTL

(* The loop of notify meets only observers that are registered, and so     *)
(* exist, with any number of threads.                                      *)
THEOREM LoopStaysStable == Spec => []LoopIsStable
<1> QED
    BY RegistryIsSound, PTL

(***************************************************************************)
(* Nothing is missed                                                       *)
(***************************************************************************)

(* An observer that has not seen the last change will be told: a notifier  *)
(* has yet to begin its loop, or has the observer still ahead of it.       *)
ToldOrPending ==
    \A o \in registry :
        stage[o] = "alive" /\ born[o] < version =>
            \/ seen[o] = version
            \/ \E n \in Notifiers : place[n] = "changed" \/ o \in todo[n]

(* What an observer does to itself leaves the others told or pending.      *)
LEMMA ToldLifeStep ==
    ASSUME RegistryInv, ToldOrPending, NEW o \in Observers,
           \/ o \in Views /\ NewView(o)
           \/ o \in Controllers /\ NewController(o)
           \/ Construct(o) \/ Destruct(o) \/ Destroy(o)
    PROVE  ToldOrPending'
<1> SUFFICES ASSUME NEW p \in registry', stage'[p] = "alive",
                    born'[p] < version'
             PROVE  \/ seen'[p] = version'
                    \/ \E n \in Notifiers :
                           place'[n] = "changed" \/ p \in todo'[n]
    BY DEF ToldOrPending
<1>1. UNCHANGED <<loop, version>>
    BY DEF NewView, NewController, Construct, Attach, SetModel, Derive,
           Destroy, Destruct, Unbase, Detach, history
<1>2. CASE Derive(o) /\ p = o
    BY <1>2 DEF Derive, RegistryInv, TypeOK
<1>3. CASE ~(Derive(o) /\ p = o)
  <2>1. /\ p \in registry /\ stage[p] = "alive"
        /\ seen'[p] = seen[p] /\ born'[p] = born[p]
      BY <1>3 DEF NewView, NewController, Construct, Attach, SetModel,
                  Derive, Destroy, Destruct, Unbase, Detach, To, history,
                  RegistryInv, TypeOK
  <2> QED
      BY <1>1, <2>1 DEF ToldOrPending, loop
<1> QED
    BY <1>2, <1>3

(* A notifier that comes to an observer tells it, and one that begins has  *)
(* every registered observer ahead of it.                                  *)
LEMMA ToldNotifyStep ==
    ASSUME RegistryInv, ToldOrPending, NEW n \in Notifiers,
           Change(n) \/ Notify(n)
    PROVE  ToldOrPending'
<1> SUFFICES ASSUME NEW p \in registry', stage'[p] = "alive",
                    born'[p] < version'
             PROVE  \/ seen'[p] = version'
                    \/ \E m \in Notifiers :
                           place'[m] = "changed" \/ p \in todo'[m]
    BY DEF ToldOrPending
<1> USE DEF RegistryInv, TypeOK, observers, history
<1>1. /\ p \in registry /\ stage[p] = "alive" /\ p \in Observers
      /\ born' = born
    BY DEF Change, Notify, NotifyBegin, Update, UpdateEnd, NotifyEnd
<1>2. CASE Change(n)
    BY <1>2 DEF Change
<1>3. CASE NotifyBegin(n)
    BY <1>1, <1>3 DEF NotifyBegin
<1>4. CASE Update(n)
  <2>1. PICK o \in todo[n] :
            /\ todo' = [todo EXCEPT ![n] = @ \ {o}]
            /\ seen' = IF stage[o] = "alive" THEN [seen EXCEPT ![o] = version]
                       ELSE seen
      BY <1>4 DEF Update
  <2>2. UNCHANGED <<place, version>>
      BY <1>4 DEF Update
  <2>3. CASE p = o
      BY <1>1, <2>1, <2>2, <2>3
  <2>4. CASE p # o
    <3>1. seen'[p] = seen[p]
        BY <1>1, <2>1, <2>4
    <3>2. \A m \in Notifiers : p \in todo[m] => p \in todo'[m]
        BY <2>1, <2>4
    <3> QED
        BY <1>1, <2>2, <3>1, <3>2 DEF ToldOrPending
  <2> QED
      BY <2>3, <2>4
<1>5. CASE UpdateEnd(n)
    BY <1>1, <1>5 DEF UpdateEnd, ToldOrPending
<1>6. CASE NotifyEnd(n)
  <2>1. UNCHANGED <<seen, version, todo>>
        /\ \A m \in Notifiers : place[m] = "changed" => place'[m] = "changed"
      BY <1>6 DEF NotifyEnd
  <2> QED
      BY <1>1, <2>1 DEF ToldOrPending
<1> QED
    BY <1>2, <1>3, <1>4, <1>5, <1>6 DEF Notify

(* When no notification is outstanding every observer has seen the last    *)
(* change made since its class began to be constructed, for any number of  *)
(* model threads, views and controllers.                                   *)
THEOREM NoChangeIsMissed == Spec => []QuietMeansUpToDate
<1>1. Init => ToldOrPending
    BY DEF Init, ToldOrPending
<1>2. RegistryInv /\ ToldOrPending /\ [Next]_vars => ToldOrPending'
  <2> SUFFICES ASSUME RegistryInv, ToldOrPending, [Next]_vars
               PROVE  ToldOrPending'
      OBVIOUS
  <2>1. CASE UNCHANGED vars
      BY <2>1 DEF vars, observers, loop, history, ToldOrPending
  <2> QED
      BY <2>1, ToldLifeStep, ToldNotifyStep DEF Next, Observers
<1>3. RegistryInv /\ ToldOrPending => QuietMeansUpToDate
    BY DEF RegistryInv, LoopHoldsMutex, ToldOrPending, QuietMeansUpToDate
<1> QED
    BY <1>1, <1>2, <1>3, RegistryInvHolds, PTL DEF Spec
=============================================================================
