--------------------------- MODULE ServerLifecycle ---------------------------
(***************************************************************************)
(* The GenericServer objects of a process (OpcUaGenericServer.cc): they    *)
(* are constructed, run, stopped and destroyed, build their server space   *)
(* at the beginning of run(), and get the upcalls for requests of remote   *)
(* clients.  All of them share the flag running, and three static maps     *)
(* from native servers to objects, which are filled together.              *)
(*                                                                         *)
(* Each object has one thread that calls run(); it is destroyed when that  *)
(* thread is not in run().  External: the native server, which starts,     *)
(* loops while *running holds, and shuts down; and the allocator, which    *)
(* may give a new native server the address of a deleted one.              *)
(***************************************************************************)
EXTENDS Naturals, FiniteSets

CONSTANTS
    Servers,    \* the GenericServer objects
    Addresses,  \* addresses of native servers
    Nodes,      \* the nodes that createServerSpace of a derived class adds
    Nothing     \* no object, no address

ASSUME NothingAssumption == Nothing \notin Servers \cup Addresses

VARIABLES
    running,    \* the global flag (OpcUaGenericServer.cc:35)
    binding,    \* on_read_, on_write_ and method_callback_bindings
    server,     \* the native server of an object; Nothing if it has none
    dead,       \* the objects that were destroyed
    root,       \* the objects whose root object was created
    place,      \* where the thread of an object is in run()
    tried,      \* the nodes that this run's createServerSpace has added
    space,      \* nodes in the address space of an object's native server
    callback,   \* those of them with callbacks
    upcall,     \* the object that an upcall of this native server is made on
    result,     \* what the last run() returned
    asked       \* the objects that were asked to stop: history

build == <<root, tried, space, callback>>
vars == <<running, binding, server, dead, build, place, upcall, result, asked>>

Places == {"idle", "createServerSpace", "startup", "loop", "iterate", "upcall"}
Results == {"none", "0", "-1", "error"}

Init ==
    /\ running = TRUE
    /\ binding = [a \in Addresses |-> Nothing]
    /\ server = [s \in Servers |-> Nothing]
    /\ dead = {}
    /\ root = {}
    /\ place = [s \in Servers |-> "idle"]
    /\ tried = [s \in Servers |-> {}]
    /\ space = [s \in Servers |-> {}]
    /\ callback = [s \in Servers |-> {}]
    /\ upcall = [s \in Servers |-> Nothing]
    /\ result = [s \in Servers |-> "none"]
    /\ asked = {}

Exists(s) == server[s] # Nothing
Go(s, p) == place' = [place EXCEPT ![s] = p]
Return(s, r) == Go(s, "idle") /\ result' = [result EXCEPT ![s] = r]
-----------------------------------------------------------------------------
(* constructor and destructor *)

(* mutant: map::insert in place of operator[] *)
BindOnce(a, s) ==
    binding' = [binding EXCEPT ![a] = IF @ = Nothing THEN s ELSE @]

Bind(a, s) == binding' = [binding EXCEPT ![a] = s]

(* The result of createRootObject is not looked at. *)
Construct(s) ==
    /\ ~Exists(s) /\ s \notin dead
    /\ \E a \in Addresses :
           /\ \A t \in Servers : server[t] # a
           /\ server' = [server EXCEPT ![s] = a]
           /\ Bind(a, s)
    /\ root' \in {root, root \cup {s}}
    /\ UNCHANGED <<running, dead, place, tried, space, callback, upcall,
                   result, asked>>

(* signalStop() *)
Stop(s) == running' = FALSE /\ asked' = asked \cup {s}

(* The native server is deleted with its space; the bindings stay. *)
Destroy(s) ==
    /\ Exists(s) /\ place[s] = "idle"
    /\ Stop(s)
    /\ server' = [server EXCEPT ![s] = Nothing]
    /\ dead' = dead \cup {s}
    /\ space' = [space EXCEPT ![s] = {}]
    /\ callback' = [callback EXCEPT ![s] = {}]
    /\ UNCHANGED <<binding, root, tried, place, upcall, result>>

SignalStop(s) ==
    /\ Exists(s)
    /\ Stop(s)
    /\ UNCHANGED <<binding, server, dead, build, place, upcall, result>>

(* SIGINT or SIGTERM, for every server *)
SignalHandler ==
    /\ \E s \in Servers : Exists(s)
    /\ running' = FALSE
    /\ asked' = Servers
    /\ UNCHANGED <<binding, server, dead, build, place, upcall, result>>
-----------------------------------------------------------------------------
(* run *)

(* mutant: run() sets the flag again, so that a server can run twice *)
RunAgain(s) ==
    /\ Exists(s) /\ place[s] = "idle"
    /\ running' = TRUE
    /\ tried' = [tried EXCEPT ![s] = {}]
    /\ Go(s, "createServerSpace")
    /\ UNCHANGED <<binding, server, dead, root, space, callback, upcall,
                   result, asked>>

RunBegin(s) ==
    /\ Exists(s) /\ place[s] = "idle"
    /\ tried' = [tried EXCEPT ![s] = {}]
    /\ Go(s, "createServerSpace")
    /\ UNCHANGED <<running, binding, server, dead, root, space, callback,
                   upcall, result, asked>>

(* mutant: a node that exists already is no error *)
AddNodeAgain(s, n) ==
    /\ place[s] = "createServerSpace"
    /\ n \notin tried[s] /\ s \in root
    /\ tried' = [tried EXCEPT ![s] = @ \cup {n}]
    /\ space' = [space EXCEPT ![s] = @ \cup {n}]
    /\ callback' = [callback EXCEPT ![s] = @ \cup {n}]
    /\ UNCHANGED <<running, binding, server, dead, root, place, upcall,
                   result, asked>>

(* addVariableNode: the node gets its callbacks after it was added.        *)
AddNode(s, n) ==
    /\ place[s] = "createServerSpace"
    /\ n \notin tried[s] /\ n \notin space[s] /\ s \in root
    /\ tried' = [tried EXCEPT ![s] = @ \cup {n}]
    /\ space' = [space EXCEPT ![s] = @ \cup {n}]
    /\ callback' = [callback EXCEPT ![s] = @ \cup {n}]
    /\ UNCHANGED <<running, binding, server, dead, root, place, upcall,
                   result, asked>>

(* mutant: createServerSpace carries on and returns true *)
FailureIgnored(s) ==
    /\ place[s] = "createServerSpace"
    /\ \E n \in Nodes \ tried[s] :
           /\ tried' = [tried EXCEPT ![s] = @ \cup {n}]
           /\ space' \in {space, [space EXCEPT ![s] = @ \cup {n}]}
    /\ UNCHANGED <<running, binding, server, dead, root, callback, place,
                   upcall, result, asked>>

(* addVariableNode returns false: the node exists, it has no parent, the   *)
(* native server refuses it, or it is added but gets no callbacks.  Then   *)
(* createServerSpace returns false, and run() -1.                          *)
AddNodeFails(s) ==
    /\ place[s] = "createServerSpace"
    /\ \E n \in Nodes \ tried[s] :
           \/ UNCHANGED space
           \/ s \in root /\ space' = [space EXCEPT ![s] = @ \cup {n}]
    /\ Return(s, "-1")
    /\ UNCHANGED <<running, binding, server, dead, root, tried, callback,
                   upcall, asked>>

SpaceCreated(s) ==
    /\ place[s] = "createServerSpace" /\ tried[s] = Nodes
    /\ Go(s, "startup")
    /\ UNCHANGED <<running, binding, server, dead, build, upcall, result,
                   asked>>

(* UA_Server_run: its startup fails, for example because the port is in    *)
(* use, or it goes into its loop.                                          *)
Startup(s) ==
    /\ place[s] = "startup"
    /\ \/ Go(s, "loop") /\ UNCHANGED result
       \/ Return(s, "error")
    /\ UNCHANGED <<running, binding, server, dead, build, upcall, asked>>

Loop(s) ==
    /\ place[s] = "loop"
    /\ IF running THEN Go(s, "iterate") /\ UNCHANGED result
       ELSE Return(s, "0")
    /\ UNCHANGED <<running, binding, server, dead, build, upcall, asked>>

(* A remote client reads, writes or calls a node: the handler looks up the *)
(* object of its native server and calls handleOnRead, handleOnWrite or    *)
(* handleMethodCall on it.                                                 *)
Upcall(s) ==
    /\ place[s] = "iterate" /\ callback[s] # {}
    /\ upcall' = [upcall EXCEPT ![s] = binding[server[s]]]
    /\ Go(s, "upcall")
    /\ UNCHANGED <<running, binding, server, dead, build, result, asked>>

UpcallEnd(s) ==
    /\ place[s] = "upcall"
    /\ upcall' = [upcall EXCEPT ![s] = Nothing]
    /\ Go(s, "iterate")
    /\ UNCHANGED <<running, binding, server, dead, build, result, asked>>

IterateEnd(s) ==
    /\ place[s] = "iterate"
    /\ Go(s, "loop")
    /\ UNCHANGED <<running, binding, server, dead, build, upcall, result,
                   asked>>
-----------------------------------------------------------------------------
CreateSpace(s) ==
    (\E n \in Nodes : AddNode(s, n)) \/ AddNodeFails(s) \/ SpaceCreated(s)

Next ==
    \/ \E s \in Servers :
           \/ Construct(s) \/ Destroy(s) \/ SignalStop(s)
           \/ RunBegin(s) \/ CreateSpace(s) \/ Startup(s) \/ Loop(s)
           \/ Upcall(s) \/ UpcallEnd(s) \/ IterateEnd(s)
    \/ SignalHandler

Spec == Init /\ [][Next]_vars

(* The thread in run() goes on, its upcalls return, and an iteration of    *)
(* the native server comes to its end.  Nothing is assumed of who stops,   *)
(* constructs or destroys a server, or of when run() is called.            *)
FairSpec ==
    /\ Spec
    /\ \A s \in Servers :
           /\ WF_vars(CreateSpace(s)) /\ WF_vars(Startup(s))
           /\ WF_vars(Loop(s)) /\ WF_vars(UpcallEnd(s))
           /\ SF_vars(IterateEnd(s))
-----------------------------------------------------------------------------
(* Every variable keeps to its range. *)
TypeOK ==
    /\ running \in BOOLEAN
    /\ binding \in [Addresses -> Servers \cup {Nothing}]
    /\ server \in [Servers -> Addresses \cup {Nothing}]
    /\ dead \subseteq Servers /\ root \subseteq Servers
    /\ asked \subseteq Servers
    /\ place \in [Servers -> Places]
    /\ tried \in [Servers -> SUBSET Nodes]
    /\ space \in [Servers -> SUBSET Nodes]
    /\ callback \in [Servers -> SUBSET Nodes]
    /\ upcall \in [Servers -> Servers \cup {Nothing}]
    /\ result \in [Servers -> Results]

(* The upcalls of a native server are made on the object that owns it: the *)
(* static maps lead there as long as it exists, also when it has the       *)
(* address of a deleted one whose entries nobody removed                   *)
(* (OpcUaGenericServer.cc:139-142).                                        *)
UpcallsReachTheirObject ==
    \A s \in Servers :
        /\ Exists(s) => binding[server[s]] = s
        /\ place[s] = "upcall" => Exists(s) /\ upcall[s] = s

(* A server that answers clients has its whole space, every node with its  *)
(* callbacks; one that failed half way does not come that far, not in a    *)
(* later run either.                                                       *)
Serving(s) == place[s] \in {"startup", "loop", "iterate", "upcall"}
ServedSpaceIsComplete ==
    \A s \in Servers : Serving(s) => callback[s] = Nodes

(* The nodes of a run stay for the next, which cannot add them again: an   *)
(* object whose run() came back from the native server never serves again, *)
(* and a later run() cannot serve a space that an earlier one left half    *)
(* built.                                                                  *)
ServesOnlyOnce ==
    Nodes # {} => \A s \in Servers : Serving(s) => result[s] \in {"none", "-1"}

(* A stop is not lost: once the flag is down every run() returns, one that *)
(* had not begun to loop and one that is in an upcall included             *)
(* (OpcUaGenericServer.hh:186-191).                                        *)
StopEndsEveryRun == \A s \in Servers : ~running ~> place[s] = "idle"
-----------------------------------------------------------------------------
(* What a comment claims and the code does not do: run() blocks until      *)
(* CTRL+C is pressed or signalStop is called, which signals "the server's  *)
(* internal run-loop to stop" (OpcUaGenericServer.hh:186-189), not that of *)
(* another server.                                                         *)
RunEndsWhenAsked == \A s \in Servers : result[s] = "0" => s \in asked
=============================================================================
