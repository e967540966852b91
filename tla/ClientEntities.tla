---------------------------- MODULE ClientEntities ----------------------------
(***************************************************************************)
(* How a GenericClient finds what it is to read, write and call            *)
(* (OpcUaGenericClient.cc): connect walks along a path of browse names, a  *)
(* service call for each, to the root object; createClientSpace and later  *)
(* operations look for names under it, in the registry first.              *)
(*                                                                         *)
(* connect may be given the address of another server each time.  The      *)
(* registry outlives connections, and its node ids are then sent to a      *)
(* server where they may be those of any other nodes, or of none.          *)
(*                                                                         *)
(* A server may add nodes at any time, also between two steps of a walk,   *)
(* and any service call may fail.  External: the servers.  One thread uses *)
(* the client, as clientMutex has it (see ClientConcurrency).  A name is a *)
(* browse name without its namespace, which the code does not look at.     *)
(***************************************************************************)
EXTENDS Naturals, Sequences

CONSTANTS
    Servers,     \* the servers, by their address
    Nodes,       \* node ids that they use or may come to use
    Names,       \* browse names
    Class,       \* "object", "variable", "method": the class of a node of a
                 \* server; "none" if it has no node of that id
    Initial,     \* the references <<name, node>> that a node starts with
    Candidates,  \* those that it may get
    Paths,       \* what connect is called with
    Folder,      \* the objects folder, the same id on every server
    Null,        \* the null node id
    MayFail      \* whether services may fail

ASSUME NodesAssumption == Folder \in Nodes /\ Null \notin Nodes
ASSUME ClassAssumption ==
    Class \in [Servers -> [Nodes -> {"object", "variable", "method", "none"}]]
ASSUME InitialAssumption == Initial \in [Servers -> [Nodes -> Seq(Names \X Nodes)]]
ASSUME CandidatesAssumption == Candidates \in [Servers -> [Nodes -> SUBSET (Names \X Nodes)]]
ASSUME PathsAssumption == Paths \subseteq Seq(Names)

VARIABLES
    space,      \* the references of each node of a server, as it reports them
    server,     \* the address given to the last connect
    client,     \* whether there is a native client
    phase,      \* "idle", in browseObjectPath or in createClientSpace
    path,       \* the path of the last connect
    step, at,   \* how many segments are done, and where that has led
    root,       \* rootObjectId
    registry,   \* entityRegistry
    last,       \* what the last operation returned, and of what
    failed,     \* whether a service failed in it
    before,     \* the space of its server when it began
    origin      \* the server and path of the connection that registered a name

walk == <<phase, path, step, at>>
history == <<failed, before, origin>>
vars == <<space, server, client, walk, root, registry, last, history>>

NodeIds == Nodes \cup {Null}
NoResult == [op |-> "none"]

Init ==
    /\ space = Initial
    /\ server \in Servers
    /\ client = FALSE /\ phase = "idle" /\ path = <<>>
    /\ step = 0 /\ at = Null /\ root = Folder
    /\ registry = [n \in Names |-> Null]
    /\ last = NoResult
    /\ failed = FALSE /\ before = space[server]
    /\ origin = [n \in Names |-> Null]

(* A server adds a reference, after those it has.                          *)
Grow ==
    /\ \E s \in Servers, n \in Nodes : \E r \in Candidates[s][n] :
           /\ \A i \in DOMAIN space[s][n] : space[s][n][i] # r
           /\ space' = [space EXCEPT ![s][n] = Append(@, r)]
    /\ UNCHANGED <<server, client, walk, root, registry, last, history>>
-----------------------------------------------------------------------------
Matches(r, name, class) == r[1] = name /\ Class[server][r[2]] = class

(* mutant: the node class is not looked at *)
FoundAnyClass(parent, name, class, x) ==
    LET refs == space[server][parent]
    IN  \/ \E i \in DOMAIN refs :
               /\ refs[i][1] = name /\ x = refs[i][2]
               /\ \A j \in 1 .. (i - 1) : refs[j][1] # name
        \/ (\A i \in DOMAIN refs : refs[i][1] # name) /\ x = Null

(* findElement yields x: the first reference that fits, or the null id.    *)
Found(parent, name, class, x) ==
    LET refs == space[server][parent]
    IN  \/ \E i \in DOMAIN refs :
               /\ Matches(refs[i], name, class) /\ x = refs[i][2]
               /\ \A j \in 1 .. (i - 1) : ~Matches(refs[j], name, class)
        \/ (\A i \in DOMAIN refs : ~Matches(refs[i], name, class)) /\ x = Null

(* findElement with its service call: if that fails (f) it looks like an   *)
(* answer without references.                                              *)
FindElement(parent, name, class, x, f) ==
    \/ ~f /\ Found(parent, name, class, x)
    \/ f /\ MayFail /\ x = Null

(* mutant: names are looked for in the objects folder *)
GetEntityOfFolder(name, class, x, f) ==
    IF registry[name] # Null THEN x = registry[name] /\ ~f
    ELSE FindElement(Folder, name, class, x, f)

(* checkAndGetEntityId of a connected client: the class of a registered    *)
(* name is not looked at.                                                  *)
GetEntity(name, class, x, f) ==
    IF registry[name] # Null THEN x = registry[name] /\ ~f
    ELSE FindElement(root, name, class, x, f)

Return(result) ==
    /\ phase' = "idle"
    /\ last' = [op |-> "connect", result |-> result]

(* connect to server s up to browseObjectPath; an empty path has no first  *)
(* segment.                                                                *)
ConnectBegin(s, p) ==
    /\ phase = "idle"
    /\ server' = s /\ client' = TRUE /\ phase' = "walk"
    /\ path' = p /\ step' = 0 /\ at' = IF p = <<>> THEN Null ELSE Folder
    /\ last' = NoResult /\ failed' = FALSE /\ before' = space[s]
    /\ UNCHANGED <<space, root, registry, origin>>

(* The server has no endpoints or refuses; an older client is gone.        *)
ConnectFail(s) ==
    /\ phase = "idle"
    /\ server' = s /\ client' = FALSE /\ Return("ERROR_COMMUNICATION")
    /\ failed' = TRUE /\ before' = space[s]
    /\ UNCHANGED <<space, path, step, at, root, registry, origin>>

(* mutant: the default filter of findElement, which is for variables *)
BrowseVariables ==
    /\ phase = "walk" /\ at # Null /\ step < Len(path)
    /\ \E x \in NodeIds, f \in BOOLEAN :
           /\ FindElement(at, path[step + 1], "variable", x, f)
           /\ at' = x /\ failed' = (failed \/ f)
    /\ step' = step + 1
    /\ UNCHANGED <<space, server, client, phase, path, root, registry, last, before, origin>>

(* a segment of browseObjectPath *)
Browse ==
    /\ phase = "walk" /\ at # Null /\ step < Len(path)
    /\ \E x \in NodeIds, f \in BOOLEAN :
           /\ FindElement(at, path[step + 1], "object", x, f)
           /\ at' = x /\ failed' = (failed \/ f)
    /\ step' = step + 1
    /\ UNCHANGED <<space, server, client, phase, path, root, registry, last, before, origin>>

(* rootObjectId is written also when the path leads nowhere.               *)
BrowseEnd ==
    /\ phase = "walk" /\ (at = Null \/ step = Len(path))
    /\ root' = at
    /\ IF at = Null
       THEN client' = FALSE /\ Return("WRONG_ID")
       ELSE phase' = "build" /\ UNCHANGED <<client, last>>
    /\ UNCHANGED <<space, server, path, step, at, registry, history>>

(* addVariableNode, addMethodNode in createClientSpace, which gives up at  *)
(* the first that fails: connect reports it and leaves the client there.   *)
AddNode(name, class) ==
    /\ phase = "build"
    /\ \E x \in NodeIds, f \in BOOLEAN :
           /\ GetEntity(name, class, x, f) /\ failed' = (failed \/ f)
           /\ IF x = Null
              THEN Return("ERROR_COMMUNICATION") /\ UNCHANGED <<registry, origin>>
              ELSE /\ registry' = [registry EXCEPT ![name] = x]
                   /\ origin' = IF registry[name] # Null THEN origin
                                ELSE [origin EXCEPT ![name] = <<server, path>>]
                   /\ UNCHANGED <<phase, last>>
    /\ UNCHANGED <<space, server, client, path, step, at, root, before>>

ConnectEnd ==
    /\ phase = "build" /\ Return("ALL_OK")
    /\ UNCHANGED <<space, server, client, path, step, at, root, registry, history>>

Disconnect ==
    /\ phase = "idle" /\ client
    /\ client' = FALSE /\ last' = NoResult
    /\ UNCHANGED <<space, server, walk, root, registry, history>>

Child(s, parent, name, x) ==
    \E i \in DOMAIN space[s][parent] : space[s][parent][i] = <<name, x>>

(* The server reads and writes variables, and calls methods of the object  *)
(* that they are given with.                                               *)
Serves(class, name, x) ==
    /\ Class[server][x] = class
    /\ class = "method" => Child(server, root, name, x)

(* getVariableCurrentValue and setVariableValue (class "variable"),        *)
(* callMethod ("method"), whose own service may fail too (g)               *)
Access(name, class) ==
    /\ phase = "idle" /\ client
    /\ before' = space[server]
    /\ \E x \in NodeIds, f \in BOOLEAN, g \in {FALSE, MayFail} :
           /\ GetEntity(name, class, x, f) /\ failed' = (f \/ g)
           /\ last' = [op |-> "access", name |-> name, class |-> class, node |-> x,
                       result |-> IF x = Null THEN "WRONG_ID"
                                  ELSE IF ~g /\ Serves(class, name, x) THEN "ALL_OK"
                                  ELSE "ERROR_COMMUNICATION"]
    /\ UNCHANGED <<space, server, client, walk, root, registry, origin>>

Next ==
    \/ Grow \/ Browse \/ BrowseEnd \/ ConnectEnd \/ Disconnect
    \/ \E s \in Servers : ConnectFail(s) \/ \E p \in Paths : ConnectBegin(s, p)
    \/ \E name \in Names, class \in {"variable", "method"} :
           AddNode(name, class) \/ Access(name, class)

Spec == Init /\ [][Next]_vars
-----------------------------------------------------------------------------
(* x is reached from the objects folder by k segments of p, each the name  *)
(* of an object below the one before, in a space with these references and *)
(* classes.                                                                *)
ChainIn(refs, class, p, k, x) ==
    \E w \in [0 .. k -> Nodes] :
        /\ w[0] = Folder /\ w[k] = x
        /\ \A j \in 1 .. k :
               /\ class[w[j]] = "object"
               /\ \E i \in DOMAIN refs[w[j - 1]] : refs[w[j - 1]][i] = <<p[j], w[j]>>

Chain(s, p, k, x) == ChainIn(space[s], Class[s], p, k, x)

(* No two objects below the same node have the same name.                  *)
Unambiguous(refs, class) ==
    \A n \in Nodes : \A i, j \in DOMAIN refs[n] :
        /\ refs[n][i][1] = refs[n][j][1]
        /\ class[refs[n][i][2]] = "object" /\ class[refs[n][j][2]] = "object"
        => i = j

(* Once connect has walked its path, rootObjectId is an object that the    *)
(* path names on the server it is connected to, over connections to any    *)
(* servers, failures and servers that add nodes while they are browsed     *)
(* (OpcUaGenericClient.hh:95, 104).                                        *)
RootIsNamedByPath ==
    client /\ phase # "walk" => path # <<>> /\ Chain(server, path, Len(path), root)

(* Unless a service failed, WRONG_ID says the truth (the comments at       *)
(* OpcUaGenericClient.hh:264, 106): what was asked for was not there, on   *)
(* the server in question, when the operation began; for paths if siblings *)
(* have names of their own, because the walk does not go back to another   *)
(* one of the same name.                                                   *)
WrongIdMeansAbsent ==
    ~failed /\ last.op # "none" /\ last.result = "WRONG_ID" =>
        \/ /\ last.op = "connect"
           /\ Unambiguous(before, Class[server]) /\ path # <<>> =>
                  \A x \in Nodes : ~ChainIn(before, Class[server], path, Len(path), x)
        \/ /\ last.op = "access"
           /\ \A i \in DOMAIN before[root] : ~Matches(before[root][i], last.name, last.class)

(* x is a child called name of an object that path p names on server s.    *)
Named(s, p, name, x) ==
    \E parent \in Nodes : Chain(s, p, Len(p), parent) /\ Child(s, parent, name, x)

(* What an operation by name acts on is of the class that it needs.  It is *)
(* a child of that name of the object connect was called for, as           *)
(* OpcUaGenericClient.hh:118-121 has it, unless the name was registered    *)
(* over an earlier connection, with another address or path: then it is    *)
(* the node, here, that has the id of such a child there.                  *)
OperationsReachTheirEntity ==
    last.op = "access" /\ last.result = "ALL_OK" =>
        /\ Class[server][last.node] = last.class
        /\ \/ Named(server, path, last.name, last.node)
           \/ /\ registry[last.name] = last.node
              /\ origin[last.name] # <<server, path>>
              /\ Named(origin[last.name][1], origin[last.name][2], last.name, last.node)
=============================================================================
