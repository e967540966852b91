----------------------------- MODULE ServerValues -----------------------------
(***************************************************************************)
(* The value of one variable of a GenericServer (OpcUaGenericServer.cc)    *)
(* and the application behind it.  The thread in run() builds the variable *)
(* and then serves remote reads, writes and method calls; threads of the   *)
(* application change its model and write the new value to the server.     *)
(*                                                                         *)
(* External: the application, built as MVC/README.md says.  A controller   *)
(* observes a Smart::AbstractModel; its update() reads the model and calls *)
(* writeVariable, and its handlers change the model and notify.  External  *)
(* too: the native server, whose reads and writes of a value are atomic    *)
(* and which makes the onRead and onWrite calls in the thread that reads   *)
(* or writes.  Values are versions of the model: how often it had changed. *)
(***************************************************************************)
EXTENDS Integers

CONSTANTS
    Writers,      \* threads of the application
    Loop,         \* the thread in GenericServer::run()
    Sessions,     \* the low 32 bits of the session ids of remote clients
    Nothing,      \* no thread; the value of a node that is not there yet
    Remote,       \* a value that a remote client wrote
    MaxChanges    \* bound: how often the model changes

Threads == Writers \cup {Loop}

(* UA_Server_writeValue runs in the server's own session, numbered 1.  Ids *)
(* of remote sessions are random GUIDs, taken to differ from it in the 32  *)
(* bits that handle_onWrite looks at.                                      *)
Own == 1

ASSUME SessionAssumption == Own \notin Sessions
ASSUME ThreadAssumption == Loop \notin Writers /\ Nothing \notin Threads
ASSUME ValueAssumption == Nothing \notin Nat /\ Remote \notin Nat /\ Nothing # Remote
ASSUME BoundAssumption == MaxChanges \in Nat

VARIABLES
    version,    \* the model's value
    holder,     \* who holds registry_mutex of the model
    place,      \* where a thread is
    held,       \* the value a thread has read and will write
    stored,     \* the value of the node in the native server
    refused,    \* the last writeVariable returned ERROR_COMMUNICATION
    published,  \* the newest version whose notification is complete
    floor,      \* published, as the current remote read began
    offers,     \* handleOnRead of the derived class supplies the model's value
    readOnly    \* the argument of addVariableNode

native == <<stored, refused>>
history == <<published, floor>>
class == <<offers, readOnly>>
vars == <<version, holder, place, held, native, history, class>>

Notifying == {"changed", "update", "write", "leave"}

Init ==
    /\ version = 0 /\ published = 0 /\ floor = 0
    /\ holder = Nothing
    /\ place = [t \in Threads |-> IF t = Loop THEN "create" ELSE "idle"]
    /\ held = [t \in Threads |-> 0]
    /\ stored = Nothing /\ refused = FALSE
    /\ offers \in BOOLEAN /\ readOnly \in BOOLEAN

Go(t, p) == place' = [place EXCEPT ![t] = p]
ReadModel(t) == held' = [held EXCEPT ![t] = version]
-----------------------------------------------------------------------------
(* the application's side: AbstractModel::notify and writeVariable *)

(* A thread changes the model, the one in run() from handleMethodCall. *)
Change(t) ==
    /\ place[t] = "idle" /\ version < MaxChanges
    /\ version' = version + 1
    /\ Go(t, "changed")
    /\ UNCHANGED <<holder, held, native, history, class>>

(* mutant: notify does not lock *)
NotifyUnlocked(t) ==
    /\ place[t] = "changed"
    /\ Go(t, "update")
    /\ UNCHANGED <<version, holder, held, native, history, class>>

NotifyBegin(t) ==
    /\ place[t] = "changed" /\ holder = Nothing
    /\ holder' = t
    /\ Go(t, "update")
    /\ UNCHANGED <<version, held, native, history, class>>

(* update() reads the model, in a step of its own. *)
Update(t) ==
    /\ place[t] = "update"
    /\ ReadModel(t)
    /\ Go(t, "write")
    /\ UNCHANGED <<version, holder, native, history, class>>

(* mutants: handle_onWrite passes on every write, or none *)
EveryWriteAnnounced(t, session, p) == Go(t, "handleOnWrite")
NoWriteAnnounced(t, session, p) == Go(t, p)

(* handle_onWrite, called for every write of a session: only one of a      *)
(* remote client is passed on, to handleOnWrite, which the thread calls    *)
(* next; after the server's own it goes on to p.                           *)
OnWrite(t, session, p) == Go(t, IF session # Own THEN "handleOnWrite" ELSE p)

(* writeVariable: the native server refuses it while there is no node. *)
WriteVariable(t) ==
    /\ place[t] = "write"
    /\ IF stored = Nothing
       THEN refused' = TRUE /\ Go(t, "leave") /\ UNCHANGED stored
       ELSE refused' = FALSE /\ stored' = held[t] /\ OnWrite(t, Own, "leave")
    /\ UNCHANGED <<version, holder, held, history, class>>

NotifyEnd(t) ==
    /\ place[t] = "leave"
    /\ holder' = Nothing
    /\ published' = IF refused THEN published ELSE held[t]
    /\ Go(t, "idle")
    /\ UNCHANGED <<version, held, native, floor, class>>
-----------------------------------------------------------------------------
(* the server's side *)

(* createServerSpace reads the model for the initial value and then adds   *)
(* the node (that this may fail is a matter of ServerLifecycle).           *)
InitialValue ==
    /\ place[Loop] = "create"
    /\ ReadModel(Loop)
    /\ Go(Loop, "add")
    /\ UNCHANGED <<version, holder, native, history, class>>

AddVariableNode ==
    /\ place[Loop] = "add"
    /\ stored' = held[Loop]
    /\ Go(Loop, "idle")
    /\ UNCHANGED <<version, holder, held, refused, history, class>>

(* A remote client writes; the native server has stored the value when it  *)
(* calls onWrite.                                                          *)
RemoteWrite ==
    /\ place[Loop] = "idle" /\ ~readOnly /\ version < MaxChanges
    /\ stored' = Remote
    /\ \E session \in Sessions : OnWrite(Loop, session, "idle")
    /\ UNCHANGED <<version, holder, held, refused, history, class>>

(* handleOnWrite gives the written value to the model, which notifies. *)
HandleOnWrite(t) ==
    /\ place[t] = "handleOnWrite"
    /\ version' = version + 1
    /\ Go(t, "changed")
    /\ UNCHANGED <<holder, held, native, history, class>>

(* A remote client reads, or a subscription samples: handle_onRead calls   *)
(* handleOnRead, and writes the value to the node if it is given one.      *)
ReadBegin ==
    /\ place[Loop] = "idle"
    /\ floor' = published
    /\ IF offers THEN ReadModel(Loop) /\ Go(Loop, "offer")
       ELSE UNCHANGED held /\ Go(Loop, "answer")
    /\ UNCHANGED <<version, holder, native, published, class>>

Offer ==
    /\ place[Loop] = "offer"
    /\ stored' = held[Loop]
    /\ OnWrite(Loop, Own, "answer")
    /\ UNCHANGED <<version, holder, held, refused, history, class>>

(* The client gets what is stored now. *)
Answer ==
    /\ place[Loop] = "answer"
    /\ Go(Loop, "idle")
    /\ UNCHANGED <<version, holder, held, native, history, class>>
-----------------------------------------------------------------------------
Notify(t) == NotifyBegin(t) \/ Update(t) \/ WriteVariable(t) \/ NotifyEnd(t)

Serve ==
    \/ InitialValue \/ AddVariableNode \/ HandleOnWrite(Loop)
    \/ Offer \/ Answer

Next ==
    \/ \E t \in Threads : Change(t) \/ Notify(t)
    \/ RemoteWrite \/ ReadBegin
    \/ Serve

Spec == Init /\ [][Next]_vars

(* What was begun goes on, and registry_mutex is granted to a thread that  *)
(* can have it often enough.  Nothing makes a thread or a client begin.    *)
FairSpec ==
    /\ Spec
    /\ WF_vars(Serve)
    /\ \A t \in Threads : SF_vars(Notify(t))
-----------------------------------------------------------------------------
(* Every variable keeps to its range. *)
TypeOK ==
    /\ version \in Nat /\ published \in Nat /\ floor \in Nat
    /\ holder \in Threads \cup {Nothing}
    /\ place \in [Threads -> Notifying \cup
                    {"idle", "create", "add", "handleOnWrite", "offer", "answer"}]
    /\ held \in [Threads -> Nat]
    /\ stored \in Nat \cup {Nothing, Remote}
    /\ refused \in BOOLEAN /\ offers \in BOOLEAN /\ readOnly \in BOOLEAN

(* When nobody is at work the server holds the model's value, whoever      *)
(* changed it: a late writeVariable does not bring back an older value,    *)
(* since update() runs with registry_mutex (AbstractModel.cc:36), and what *)
(* a client wrote has reached the model.  Not so if handleOnRead supplies  *)
(* values, or if the last writeVariable was refused and nobody cared.      *)
QuietMeansCurrent ==
    (\A t \in Threads : place[t] = "idle") /\ ~offers /\ ~refused
        => stored = version

(* A remote read answers with a value of the model, and with none that was *)
(* replaced, by a notification that was complete, before the read began;   *)
(* also when the value that handle_onRead writes (OpcUaGenericServer.cc:72)*)
(* races with a writeVariable.                                             *)
ReadsAreFresh ==
    place[Loop] = "answer" => stored \in Nat /\ stored >= floor

(* Every request and every notification comes to its end: the server's own *)
(* writes are not announced to the application as if a client had made     *)
(* them (OpcUaGenericServer.cc:82), which would notify for ever, or wait   *)
(* for the registry_mutex that it holds.                                   *)
EverythingEnds ==
    \A t \in Threads : (place[t] # "idle") ~> (place[t] = "idle")
=============================================================================
