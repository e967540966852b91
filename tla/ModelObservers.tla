--------------------------- MODULE ModelObservers ---------------------------
(***************************************************************************)
(* The observers of a Smart::AbstractModel (MVC/): views and controllers   *)
(* attach themselves when they are constructed and detach themselves when  *)
(* they are destroyed, while threads of the model change it and notify.    *)
(*                                                                         *)
(* registry_mutex is not recursive, so an update() that constructs or      *)
(* destroys an observer of the same model would never return: update() is  *)
(* taken to do neither.  The model outlives its observers, and the view    *)
(* given to a controller outlives the controller's constructor.            *)
(*                                                                         *)
(* update() is pure virtual in AbstractModelObserver and in                *)
(* AbstractController, and does nothing in AbstractView: what a call does  *)
(* depends on how far the observer's constructors and destructors are.     *)
(***************************************************************************)
EXTENDS Naturals, FiniteSets

CONSTANTS
    Notifiers,    \* threads of the model, which change it and then notify
    Views,        \* objects of classes derived from AbstractView
    Controllers,  \* objects of classes derived from AbstractController
    Nobody,       \* no thread, no observer
    MaxChanges    \* bound: how often the model changes

Observers == Views \cup Controllers

ASSUME NobodyAssumption == Nobody \notin Notifiers \cup Observers
ASSUME KindAssumption == Views \cap Controllers = {}
ASSUME BoundAssumption == MaxChanges \in Nat

VARIABLES
    holder,     \* the notifier that holds registry_mutex
    registry,   \* AbstractModel::registry
    stage,      \* where the life of an observer is
    model,      \* whether its model pointer is set
    place,      \* where a notifier is
    todo,       \* what is left of its loop over registry
    current,    \* the observer whose update() it is in
    running,    \* whether the process was not ended by a pure virtual call
    version,    \* how often the model has changed
    seen,       \* the version an observer has seen last in an update()
    born        \* the version that its class began with

observers == <<stage, model, registry>>
loop == <<holder, place, todo, current, running>>
history == <<version, seen, born>>
vars == <<observers, loop, history>>

(* attaching: about to call attach.  attached: that call is done, and in a *)
(* controller the model pointer is still null.  based: in the constructor  *)
(* of AbstractView or AbstractController.  alive: calls reach the derived  *)
(* class.  unmade: in the destructor of AbstractView or                    *)
(* AbstractController.  leaving: in that of AbstractModelObserver.         *)
Stages == {"unborn", "attaching", "attached", "based", "alive", "unmade",
           "leaving", "dead"}

Init ==
    /\ holder = Nobody
    /\ registry = {}
    /\ stage = [o \in Observers |-> "unborn"]
    /\ model = [o \in Observers |-> FALSE]
    /\ place = [n \in Notifiers |-> "idle"]
    /\ todo = [n \in Notifiers |-> {}]
    /\ current = [n \in Notifiers |-> Nobody]
    /\ running = TRUE
    /\ version = 0
    /\ seen = [o \in Observers |-> 0]
    /\ born = [o \in Observers |-> 0]

To(o, s) == stage' = [stage EXCEPT ![o] = s]

(* attach() and detach() hold registry_mutex for a single step. *)
MutexFree == holder = Nobody
-----------------------------------------------------------------------------
(* construction *)

(* A view gets its model, or a null pointer, from its creator. *)
NewView(o) ==
    /\ stage[o] = "unborn"
    /\ \E given \in BOOLEAN :
           /\ model' = [model EXCEPT ![o] = given]
           /\ To(o, IF given THEN "attaching" ELSE "based")
    /\ UNCHANGED <<registry, loop, history>>

(* A controller gets the model of its view, or a null view. *)
NewController(o) ==
    /\ stage[o] = "unborn"
    /\ \/ /\ \E v \in Views : stage[v] = "alive" /\ model[v]
          /\ To(o, "attaching")
       \/ To(o, "based")
    /\ UNCHANGED <<model, registry, loop, history>>

Attach(o) ==
    /\ stage[o] = "attaching" /\ MutexFree
    /\ registry' = registry \cup {o}
    /\ To(o, "attached")
    /\ UNCHANGED <<model, loop, history>>

(* mutant: the controller's own model pointer stays null *)
ModelForgotten(o) ==
    /\ stage[o] = "attached"
    /\ To(o, "based")
    /\ UNCHANGED <<model, registry, loop, history>>

(* The pointer of a view was set before it attached itself. *)
SetModel(o) ==
    /\ stage[o] = "attached"
    /\ model' = [model EXCEPT ![o] = TRUE]
    /\ To(o, "based")
    /\ UNCHANGED <<registry, loop, history>>

(* The constructor of the derived class begins. *)
Derive(o) ==
    /\ stage[o] = "based"
    /\ To(o, "alive")
    /\ born' = [born EXCEPT ![o] = version]
    /\ UNCHANGED <<model, registry, loop, version, seen>>
-----------------------------------------------------------------------------
(* destruction *)

InConstructor(o) == stage[o] \in {"attaching", "attached"}

Destroy(o) ==
    /\ stage[o] = "alive"
    /\ o \in Views => \A c \in Controllers : ~InConstructor(c)
    /\ To(o, "unmade")
    /\ UNCHANGED <<model, registry, loop, history>>

Unbase(o) ==
    /\ stage[o] = "unmade"
    /\ To(o, "leaving")
    /\ UNCHANGED <<model, registry, loop, history>>

(* mutant: detach does not lock *)
DetachUnlocked(o) ==
    /\ stage[o] = "leaving"
    /\ registry' = IF model[o] THEN registry \ {o} ELSE registry
    /\ To(o, "dead")
    /\ UNCHANGED <<model, loop, history>>

Detach(o) ==
    /\ stage[o] = "leaving"
    /\ IF model[o] THEN MutexFree /\ registry' = registry \ {o}
       ELSE UNCHANGED registry
    /\ To(o, "dead")
    /\ UNCHANGED <<model, loop, history>>
-----------------------------------------------------------------------------
(* notify *)

Change(n) ==
    /\ place[n] = "idle" /\ version < MaxChanges
    /\ version' = version + 1
    /\ place' = [place EXCEPT ![n] = "changed"]
    /\ UNCHANGED <<observers, holder, todo, current, running, seen, born>>

(* mutant: a notify that finds another one at work leaves it to that one *)
NotifyTry(n) ==
    /\ place[n] = "changed"
    /\ IF MutexFree
       THEN /\ holder' = n
            /\ todo' = [todo EXCEPT ![n] = registry]
            /\ place' = [place EXCEPT ![n] = "notifying"]
       ELSE place' = [place EXCEPT ![n] = "idle"] /\ UNCHANGED <<holder, todo>>
    /\ UNCHANGED <<observers, current, running, history>>

NotifyBegin(n) ==
    /\ place[n] = "changed" /\ MutexFree
    /\ holder' = n
    /\ todo' = [todo EXCEPT ![n] = registry]
    /\ place' = [place EXCEPT ![n] = "notifying"]
    /\ UNCHANGED <<observers, current, running, history>>

(* A call of update() in these stages is of the pure virtual function.     *)
Pure(o) ==
    \/ stage[o] \in {"attached", "leaving"}
    \/ o \in Controllers /\ stage[o] \in {"based", "unmade"}

(* update() of the next observer: that of its class may read the model at  *)
(* once, that of AbstractView does nothing, and a pure virtual one ends    *)
(* the process.                                                            *)
Update(n) ==
    /\ place[n] = "notifying" /\ current[n] = Nobody
    /\ \E o \in todo[n] :
           /\ current' = [current EXCEPT ![n] = o]
           /\ todo' = [todo EXCEPT ![n] = @ \ {o}]
           /\ running' = ~Pure(o)
           /\ seen' = IF stage[o] = "alive" THEN [seen EXCEPT ![o] = version]
                      ELSE seen
    /\ UNCHANGED <<observers, holder, place, version, born>>

UpdateEnd(n) ==
    /\ current[n] # Nobody
    /\ current' = [current EXCEPT ![n] = Nobody]
    /\ UNCHANGED <<observers, holder, place, todo, running, history>>

(* mutant: notify returns without an unlock *)
NotifyKeeps(n) ==
    /\ place[n] = "notifying" /\ current[n] = Nobody /\ todo[n] = {}
    /\ place' = [place EXCEPT ![n] = "idle"]
    /\ UNCHANGED <<observers, holder, todo, current, running, history>>

NotifyEnd(n) ==
    /\ place[n] = "notifying" /\ current[n] = Nobody /\ todo[n] = {}
    /\ holder' = Nobody
    /\ place' = [place EXCEPT ![n] = "idle"]
    /\ UNCHANGED <<observers, todo, current, running, history>>
-----------------------------------------------------------------------------
(* Nothing goes on in a process that was ended. *)
Construct(o) == running /\ (Attach(o) \/ SetModel(o) \/ Derive(o))
Destruct(o) == running /\ (Unbase(o) \/ Detach(o))
Notify(n) ==
    running /\ (NotifyBegin(n) \/ Update(n) \/ UpdateEnd(n) \/ NotifyEnd(n))

Next ==
    \/ \E o \in Views : running /\ NewView(o)
    \/ \E o \in Controllers : running /\ NewController(o)
    \/ \E o \in Observers :
           Construct(o) \/ Destruct(o) \/ (running /\ Destroy(o))
    \/ \E n \in Notifiers : Notify(n) \/ (running /\ Change(n))

Spec == Init /\ [][Next]_vars

(* Constructors, destructors and notify go on when they can, update()      *)
(* returns, and the mutex is granted to one who can have it often enough.  *)
(* Nothing is assumed of the decision to construct, destroy or change.     *)
FairSpec ==
    /\ Spec
    /\ \A o \in Observers : SF_vars(Construct(o)) /\ SF_vars(Destruct(o))
    /\ \A n \in Notifiers : SF_vars(Notify(n))
-----------------------------------------------------------------------------
(* Every variable keeps to its range. *)
TypeOK ==
    /\ holder \in Notifiers \cup {Nobody}
    /\ registry \subseteq Observers
    /\ stage \in [Observers -> Stages]
    /\ model \in [Observers -> BOOLEAN]
    /\ place \in [Notifiers -> {"idle", "changed", "notifying"}]
    /\ todo \in [Notifiers -> SUBSET Observers]
    /\ current \in [Notifiers -> Observers \cup {Nobody}]
    /\ running \in BOOLEAN
    /\ version \in Nat
    /\ seen \in [Observers -> Nat]
    /\ born \in [Observers -> Nat]

(* The registry holds exactly the observers that exist and have a model:   *)
(* whoever attaches itself, by either route, takes itself out before its   *)
(* memory goes (AbstractModelObserver.cc:29, AbstractController.hh:36-37). *)
Registered(o) ==
    \/ stage[o] = "attached"
    \/ stage[o] \in {"based", "alive", "unmade", "leaving"} /\ model[o]
RegistryFollowsLife == registry = {o \in Observers : Registered(o)}

(* The loop of notify is over a registry that does not change under it,    *)
(* and the observer in update() exists at least as a base object until     *)
(* update() returns: its destructor waits in detach().                     *)
LoopIsStable ==
    \A n \in Notifiers :
        /\ place[n] = "notifying" => holder = n
        /\ todo[n] \subseteq registry
        /\ current[n] # Nobody => current[n] \in registry

(* When no notification is outstanding every registered observer that is   *)
(* alive has seen, in an update() of its own class, the last change made   *)
(* since that class began: whatever was attached, detached and changed,    *)
(* and by whom, in the meantime (AbstractModel.cc:35-40).  Of changes made *)
(* between attach() and the derived constructor nothing is said: their     *)
(* update() is that of a base class.                                       *)
QuietMeansUpToDate ==
    (\A n \in Notifiers : place[n] = "idle")
        => \A o \in registry :
               stage[o] = "alive" /\ born[o] < version => seen[o] = version

(* Every constructor, destructor and notify comes to its end, or a notify  *)
(* has called a pure update() and ended the process: nobody waits for the  *)
(* mutex for ever (AbstractModel.cc:25-40).                                *)
EverybodyFinishes ==
    /\ \A o \in Observers :
           (stage[o] \in {"attaching", "attached", "based"})
               ~> (stage[o] = "alive" \/ ~running)
    /\ \A o \in Observers :
           (stage[o] \in {"unmade", "leaving"}) ~> (stage[o] = "dead" \/ ~running)
    /\ \A n \in Notifiers :
           (place[n] # "idle") ~> (place[n] = "idle" \/ ~running)
=============================================================================
