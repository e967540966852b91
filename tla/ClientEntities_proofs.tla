------------------------ MODULE ClientEntities_proofs ------------------------
(***************************************************************************)
(* For any servers, address spaces, paths and names: the root object is    *)
(* one that the path of connect names, and operations act on children of   *)
(* it or on ids that were those of such children when they were found.     *)
(* Both rest on servers only adding references, so that a chain that    *)
(* was walked step by step is there as a whole when its end is reached.    *)
(***************************************************************************)
EXTENDS ClientEntities, TLAPS

USE NodesAssumption, PathsAssumption

TypeOK ==
    /\ space \in [Servers -> [Nodes -> Seq(Names \X Nodes)]]
    /\ server \in Servers
    /\ client \in BOOLEAN
    /\ phase \in {"idle", "walk", "build"}
    /\ path \in Seq(Names) /\ step \in Nat
    /\ at \in NodeIds /\ root \in NodeIds
    /\ registry \in [Names -> NodeIds]
    /\ origin \in [Names -> (Servers \X Seq(Names)) \cup {Null}]

(* The walk so far is a chain.                                             *)
WalkIsChain ==
    phase = "walk" /\ at # Null =>
        path # <<>> /\ step \in 0 .. Len(path) /\ Chain(server, path, step, at)

(* A walk and what follows it have a client.                               *)
BuildsConnected == phase # "idle" => client

(* Operations are given names, and those that succeed act on nodes.        *)
LastNamed ==
    last.op = "access" =>
        last.name \in Names /\ (last.result = "ALL_OK" => last.node \in Nodes)

(* Inside connect there is no last operation.                              *)
Quiet == phase # "idle" => last = NoResult

(* What is registered was a child of that name of the object its           *)
(* connection was called for; on the server of that connection it still is.*)
Registers(name, o, x) ==
    o \in Servers \X Seq(Names) /\ Named(o[1], o[2], name, x)
RegisteredAreNamed ==
    \A name \in Names : registry[name] # Null =>
        Registers(name, origin[name], registry[name])

IInv ==
    /\ TypeOK /\ BuildsConnected /\ LastNamed /\ Quiet /\ WalkIsChain /\ RootIsNamedByPath
    /\ RegisteredAreNamed /\ OperationsReachTheirEntity

(* References are only added.                                              *)
Grown ==
    \A s \in Servers, n \in Nodes : \A i \in DOMAIN space[s][n] :
        i \in DOMAIN space'[s][n] /\ space'[s][n][i] = space[s][n][i]
-----------------------------------------------------------------------------
(* The references of a node, and those that it may get.                    *)
LEMMA SpaceType ==
    ASSUME TypeOK, NEW s \in Servers, NEW n \in Nodes
    PROVE  space[s][n] \in Seq(Names \X Nodes)
<1>1. space[s] \in [Nodes -> Seq(Names \X Nodes)]
      BY DEF TypeOK
<1> QED BY <1>1

LEMMA CandidateType ==
    ASSUME NEW s \in Servers, NEW n \in Nodes
    PROVE  Candidates[s][n] \subseteq Names \X Nodes
<1>1. Candidates[s] \in [Nodes -> SUBSET (Names \X Nodes)]
      BY CandidatesAssumption
<1> QED BY <1>1

(* The server that grows.                                                  *)
LEMMA GrowAppends ==
    ASSUME TypeOK, Grow
    PROVE  \E s \in Servers, n \in Nodes, r \in Names \X Nodes :
               space' = [space EXCEPT ![s][n] = Append(@, r)]
<1>1. PICK s \in Servers, n \in Nodes :
          \E r \in Candidates[s][n] : space' = [space EXCEPT ![s][n] = Append(@, r)]
      BY DEF Grow
<1> QED BY <1>1, CandidateType

(* Type correctness of every step.                                         *)
LEMMA NextTyped == TypeOK /\ [Next]_vars => TypeOK'
<1> SUFFICES ASSUME TypeOK, [Next]_vars PROVE TypeOK'
    OBVIOUS
<1> USE DEF TypeOK, NodeIds, walk, history
<1>1. CASE Grow
  <2>1. PICK s \in Servers, n \in Nodes, r \in Names \X Nodes :
            space' = [space EXCEPT ![s][n] = Append(@, r)]
        BY <1>1, GrowAppends
  <2>2. Append(space[s][n], r) \in Seq(Names \X Nodes)
    <3>1. space[s][n] \in Seq(Names \X Nodes)
          BY SpaceType
    <3> QED BY <3>1
  <2>3. space' \in [Servers -> [Nodes -> Seq(Names \X Nodes)]]
        BY <2>1, <2>2
  <2> QED BY <1>1, <2>3 DEF Grow
<1>2. ASSUME NEW s \in Servers, ConnectFail(s) PROVE TypeOK'
      BY <1>2 DEF ConnectFail, Return
<1>3. CASE Browse BY <1>3 DEF Browse
<1>4. CASE BrowseEnd BY <1>4 DEF BrowseEnd, Return
<1>5. CASE ConnectEnd BY <1>5 DEF ConnectEnd, Return
<1>6. CASE Disconnect BY <1>6 DEF Disconnect
<1>7. ASSUME NEW s \in Servers, NEW p \in Paths, ConnectBegin(s, p) PROVE TypeOK'
      BY <1>7 DEF ConnectBegin
<1>8. ASSUME NEW name \in Names, NEW class \in {"variable", "method"},
             AddNode(name, class)
      PROVE  TypeOK'
  <2>1. PICK x \in NodeIds :
            \/ Return("ERROR_COMMUNICATION") /\ UNCHANGED <<registry, origin>>
            \/ /\ registry' = [registry EXCEPT ![name] = x]
               /\ \/ UNCHANGED origin
                  \/ origin' = [origin EXCEPT ![name] = <<server, path>>]
               /\ UNCHANGED phase
        BY <1>8 DEF AddNode
  <2>2. registry' \in [Names -> NodeIds] /\ phase' \in {"idle", "walk", "build"}
        BY <2>1 DEF Return
  <2>3. PICK pair : pair = <<server, path>>
        OBVIOUS
  <2>4. origin' = origin \/ origin' = [origin EXCEPT ![name] = pair]
        BY <2>1, <2>3
  <2>5. pair \in Servers \X Seq(Names)
        BY <2>3
  <2>6. origin' \in [Names -> (Servers \X Seq(Names)) \cup {Null}]
        BY <2>4, <2>5
  <2> QED BY <1>8, <2>2, <2>6 DEF AddNode
<1>9. ASSUME NEW name \in Names, NEW class \in {"variable", "method"},
             Access(name, class)
      PROVE  TypeOK'
      BY <1>9 DEF Access
<1>10. CASE UNCHANGED vars BY <1>10 DEF vars
<1> QED BY <1>1, <1>2, <1>3, <1>4, <1>5, <1>6, <1>7, <1>8, <1>9, <1>10 DEF Next

(* No step removes or reorders references.                                 *)
LEMMA NextGrows == TypeOK /\ [Next]_vars => Grown
<1> SUFFICES ASSUME TypeOK, [Next]_vars PROVE Grown
    OBVIOUS
<1>1. CASE Grow
  <2>1. PICK s \in Servers, n \in Nodes, r \in Names \X Nodes :
            space' = [space EXCEPT ![s][n] = Append(@, r)]
        BY <1>1, GrowAppends
  <2>2. SUFFICES ASSUME NEW t \in Servers, NEW m \in Nodes, NEW i \in DOMAIN space[t][m]
                 PROVE  i \in DOMAIN space'[t][m] /\ space'[t][m][i] = space[t][m][i]
        BY DEF Grown
  <2>3. CASE t # s \/ m # n
    <3>1. space'[t][m] = space[t][m]
          BY <2>1, <2>3 DEF TypeOK
    <3> QED BY <3>1
  <2>4. CASE t = s /\ m = n
    <3>1. space[s][n] \in Seq(Names \X Nodes)
          BY SpaceType
    <3>2. space'[s][n] = Append(space[s][n], r)
          BY <2>1 DEF TypeOK
    <3> QED BY <2>4, <3>1, <3>2
  <2> QED BY <2>3, <2>4
<1>2. CASE space' = space BY <1>2 DEF Grown
<1> QED BY <1>1, <1>2 DEF Next, vars, walk, history, ConnectFail, Browse, BrowseEnd,
        ConnectEnd, Disconnect, ConnectBegin, AddNode, Access

(* What is a child stays one.                                              *)
LEMMA ChildStays ==
    ASSUME Grown, NEW s \in Servers, NEW n \in Nodes, NEW name, NEW x,
           Child(s, n, name, x)
    PROVE  Child(s, n, name, x)'
BY DEF Grown, Child

(* A chain stays a chain.                                                  *)
LEMMA ChainStays ==
    ASSUME Grown, NEW s \in Servers, NEW p, NEW k \in Nat, NEW x, Chain(s, p, k, x)
    PROVE  Chain(s, p, k, x)'
<1>1. PICK w \in [0 .. k -> Nodes] :
          /\ w[0] = Folder /\ w[k] = x
          /\ \A j \in 1 .. k :
                 /\ Class[s][w[j]] = "object"
                 /\ \E i \in DOMAIN space[s][w[j - 1]] :
                        space[s][w[j - 1]][i] = <<p[j], w[j]>>
      BY DEF Chain, ChainIn
<1>2. ASSUME NEW j \in 1 .. k
      PROVE  \E i \in DOMAIN space'[s][w[j - 1]] : space'[s][w[j - 1]][i] = <<p[j], w[j]>>
  <2>1. w[j - 1] \in Nodes
        OBVIOUS
  <2> QED BY <1>1, <2>1 DEF Grown
<1> QED BY <1>1, <1>2 DEF Chain, ChainIn

(* The empty chain.                                                        *)
LEMMA ChainStarts == ASSUME NEW s, NEW p PROVE Chain(s, p, 0, Folder)
<1> DEFINE w == [j \in 0 .. 0 |-> Folder]
<1>1. w \in [0 .. 0 -> Nodes] /\ w[0] = Folder
      OBVIOUS
<1>2. \A j \in 1 .. 0 : FALSE
      OBVIOUS
<1> HIDE DEF w
<1> QED BY <1>1, <1>2 DEF Chain, ChainIn

(* A chain leads to a node.                                                *)
LEMMA ChainEnds ==
    ASSUME NEW s, NEW p, NEW k \in Nat, NEW x, Chain(s, p, k, x)
    PROVE  x \in Nodes
BY DEF Chain, ChainIn

(* A chain and an object below its end are a longer chain.                 *)
LEMMA ChainExtends ==
    ASSUME NEW s, NEW p, NEW k \in Nat, NEW n, NEW x \in Nodes, Chain(s, p, k, n),
           Class[s][x] = "object", Child(s, n, p[k + 1], x)
    PROVE  Chain(s, p, k + 1, x)
<1>1. PICK w \in [0 .. k -> Nodes] :
          /\ w[0] = Folder /\ w[k] = n
          /\ \A j \in 1 .. k :
                 /\ Class[s][w[j]] = "object"
                 /\ \E i \in DOMAIN space[s][w[j - 1]] :
                        space[s][w[j - 1]][i] = <<p[j], w[j]>>
      BY DEF Chain, ChainIn
<1> DEFINE v == [j \in 0 .. k + 1 |-> IF j = k + 1 THEN x ELSE w[j]]
<1>2. v \in [0 .. k + 1 -> Nodes] /\ v[0] = Folder /\ v[k + 1] = x
      BY <1>1
<1>3. ASSUME NEW j \in 1 .. k + 1
      PROVE  /\ Class[s][v[j]] = "object"
             /\ \E i \in DOMAIN space[s][v[j - 1]] : space[s][v[j - 1]][i] = <<p[j], v[j]>>
  <2>1. CASE j = k + 1
    <3>1. v[j - 1] = n /\ v[j] = x
          BY <1>1, <2>1
    <3> QED BY <2>1, <3>1 DEF Child
  <2>2. CASE j # k + 1
    <3>1. j \in 1 .. k /\ v[j - 1] = w[j - 1] /\ v[j] = w[j]
          BY <2>2
    <3> QED BY <1>1, <3>1
  <2> QED BY <2>1, <2>2
<1> HIDE DEF v
<1> QED BY <1>2, <1>3 DEF Chain, ChainIn

(* What is the name of a child stays one.                                  *)
LEMMA NamedStays ==
    ASSUME Grown, NEW s \in Servers, NEW p \in Seq(Names), NEW name, NEW x,
           Named(s, p, name, x)
    PROVE  Named(s, p, name, x)'
<1>1. PICK parent \in Nodes : Chain(s, p, Len(p), parent) /\ Child(s, parent, name, x)
      BY DEF Named
<1>2. Chain(s, p, Len(p), parent)' /\ Child(s, parent, name, x)'
      BY <1>1, ChainStays, ChildStays
<1> QED BY <1>2 DEF Named

(* What findElement finds is a child of that name and class.               *)
LEMMA FoundIsChild ==
    ASSUME TypeOK, NEW n \in Nodes, NEW name, NEW class, NEW x, NEW f,
           FindElement(n, name, class, x, f), x # Null
    PROVE  Child(server, n, name, x) /\ Class[server][x] = class
<1>1. PICK i \in DOMAIN space[server][n] :
          Matches(space[server][n][i], name, class) /\ x = space[server][n][i][2]
      BY DEF FindElement, Found
<1>2. space[server][n][i] \in Names \X Nodes
  <2>1. space[server][n] \in Seq(Names \X Nodes)
        BY SpaceType DEF TypeOK
  <2> QED BY <1>1, <2>1
<1> QED BY <1>1, <1>2 DEF Matches, Child

(* What an operation finds is named; what it has registered was.           *)
LEMMA EntityIsNamed ==
    ASSUME IInv, client, phase # "walk", NEW name \in Names, NEW class, NEW x, NEW f,
           GetEntity(name, class, x, f), x # Null
    PROVE  /\ registry[name] = Null => Named(server, path, name, x)
           /\ registry[name] # Null => registry[name] = x
<1>1. CASE registry[name] # Null
      BY <1>1 DEF GetEntity
<1>2. CASE registry[name] = Null
  <2>1. root \in Nodes
    <3>1. Chain(server, path, Len(path), root) /\ Len(path) \in Nat
          BY DEF IInv, RootIsNamedByPath, TypeOK
    <3> QED BY <3>1, ChainEnds
  <2>2. Child(server, root, name, x)
        BY <1>2, <2>1, FoundIsChild DEF GetEntity, IInv
  <2> QED BY <1>2, <2>1, <2>2 DEF Named, IInv, RootIsNamedByPath
<1> QED BY <1>1, <1>2

(* The last operation stays what it was.                                   *)
LEMMA OldIsReached ==
    ASSUME IInv, Grown, UNCHANGED <<last, server, path, registry, origin>>
    PROVE  OperationsReachTheirEntity'
<1>1. SUFFICES ASSUME last.op = "access", last.result = "ALL_OK"
               PROVE  OperationsReachTheirEntity'
      BY DEF OperationsReachTheirEntity
<1>2. PICK s, p, o, x, name :
          /\ s = server /\ p = path /\ o = origin[last.name]
          /\ x = last.node /\ name = last.name
      OBVIOUS
<1>3. Class[server][last.node] = last.class
      BY <1>1 DEF IInv, OperationsReachTheirEntity
<1>4. CASE Named(s, p, name, x)
  <2>1. Named(s, p, name, x)'
        BY <1>2, <1>4, NamedStays DEF IInv, TypeOK
  <2> QED BY <1>2, <1>3, <2>1 DEF OperationsReachTheirEntity, Named
<1>5. CASE ~Named(s, p, name, x)
  <2>1. /\ registry[name] = x /\ o # <<server, path>>
        /\ Named(o[1], o[2], name, x) /\ Class[server][last.node] = last.class
        BY <1>1, <1>2, <1>5 DEF IInv, OperationsReachTheirEntity
  <2>2. o \in Servers \X Seq(Names)
        BY <1>1, <1>2, <2>1 DEF IInv, LastNamed, RegisteredAreNamed, Registers
  <2>3. PICK t, q : t = o[1] /\ q = o[2]
        OBVIOUS
  <2>4. Named(t, q, name, x)'
        BY <2>1, <2>2, <2>3, NamedStays
  <2> QED BY <1>2, <2>1, <2>3, <2>4 DEF OperationsReachTheirEntity, Named
<1> QED BY <1>4, <1>5

(* What is registered stays named.                                         *)
LEMMA OldIsNamed ==
    ASSUME IInv, Grown, NEW name \in Names, registry[name] # Null,
           registry'[name] = registry[name], origin'[name] = origin[name]
    PROVE  Registers(name, origin[name], registry[name])'
<1>1. PICK o, x : o = origin[name] /\ x = registry[name]
      OBVIOUS
<1>2. o \in Servers \X Seq(Names) /\ Named(o[1], o[2], name, x)
      BY <1>1 DEF IInv, RegisteredAreNamed, Registers
<1>3. PICK t, q : t = o[1] /\ q = o[2]
      OBVIOUS
<1>4. Named(t, q, name, x)'
      BY <1>2, <1>3, NamedStays
<1> QED BY <1>1, <1>2, <1>3, <1>4 DEF Registers, Named

(* The walk and the root object.                                           *)
LEMMA NextWalks ==
    IInv /\ TypeOK' /\ Grown /\ [Next]_vars => WalkIsChain' /\ RootIsNamedByPath'
<1> SUFFICES ASSUME IInv, TypeOK', Grown, [Next]_vars
             PROVE  WalkIsChain' /\ RootIsNamedByPath'
    OBVIOUS
<1> USE DEF WalkIsChain, RootIsNamedByPath
<1> DEFINE Remains(k, x) == ChainIn(space'[server'], Class[server'], path', k, x)
<1>1. ASSUME NEW k \in Nat, NEW x, Chain(server, path, k, x), path' = path,
             server' = server
      PROVE  Remains(k, x)
  <2>1. PICK s, p : s = server /\ p = path
        OBVIOUS
  <2>2. Chain(s, p, k, x)'
        BY <1>1, <2>1, ChainStays DEF IInv, TypeOK
  <2> QED BY <1>1, <2>1, <2>2 DEF Chain
<1>2. /\ phase = "walk" /\ at # Null =>
             path # <<>> /\ step \in 0 .. Len(path) /\ Chain(server, path, step, at)
      /\ client /\ phase # "walk" => path # <<>> /\ Chain(server, path, Len(path), root)
      /\ Len(path) \in Nat /\ step \in Nat
      BY DEF IInv, TypeOK
<1>3. CASE UNCHANGED walk /\ UNCHANGED <<server, root>> /\ (client' => client)
  <2>1. phase = "walk" /\ at # Null => Remains(step, at)
        BY <1>1, <1>2, <1>3 DEF walk
  <2>2. client /\ phase # "walk" => Remains(Len(path), root)
        BY <1>1, <1>2, <1>3 DEF walk
  <2> QED BY <1>2, <1>3, <2>1, <2>2 DEF walk, Chain
<1>4. CASE Grow BY <1>3, <1>4 DEF Grow
<1>5. ASSUME NEW s \in Servers, ConnectFail(s)
      PROVE  WalkIsChain' /\ RootIsNamedByPath'
      BY <1>5 DEF ConnectFail, Return
<1>6. CASE Browse
  <2>1. PICK x \in NodeIds, f \in BOOLEAN :
            FindElement(at, path[step + 1], "object", x, f) /\ at' = x
        BY <1>6 DEF Browse
  <2>2. ASSUME x # Null PROVE Chain(server, path, step + 1, x)
    <3>1. at \in Nodes /\ x \in Nodes
          BY <1>6, <2>2 DEF Browse, IInv, TypeOK, NodeIds
    <3>2. Child(server, at, path[step + 1], x) /\ Class[server][x] = "object"
          BY <2>1, <2>2, <3>1, FoundIsChild DEF IInv
    <3> QED BY <1>2, <1>6, <3>1, <3>2, ChainExtends DEF Browse
  <2>3. x # Null => Remains(step + 1, x)
    <3>1. step + 1 \in Nat /\ path' = path /\ server' = server
          BY <1>2, <1>6 DEF Browse
    <3> HIDE DEF Remains
    <3> QED BY <1>1, <2>2, <3>1
  <2> QED BY <1>2, <1>6, <2>1, <2>3 DEF Browse, Chain
<1>7. CASE BrowseEnd
  <2>1. CASE at = Null BY <1>7, <2>1 DEF BrowseEnd, Return
  <2>2. CASE at # Null
    <3>1. step = Len(path) /\ Remains(Len(path), at)
          BY <1>1, <1>2, <1>7, <2>2 DEF BrowseEnd
    <3> QED BY <1>2, <1>7, <2>2, <3>1 DEF BrowseEnd, Chain
  <2> QED BY <2>1, <2>2
<1>8. CASE ConnectEnd
  <2>1. client => Remains(Len(path), root)
        BY <1>1, <1>2, <1>8 DEF ConnectEnd
  <2> QED BY <1>2, <1>8, <2>1 DEF ConnectEnd, Return, Chain
<1>9. CASE Disconnect BY <1>3, <1>9 DEF Disconnect
<1>10. ASSUME NEW s \in Servers, NEW p \in Paths, ConnectBegin(s, p)
       PROVE  WalkIsChain' /\ RootIsNamedByPath'
  <2>1. Chain(s, p, 0, Folder)'
    <3>1. Chain(s, p, 0, Folder)
          BY ChainStarts
    <3> QED BY <3>1, ChainStays
  <2>2. Len(p) \in Nat
        BY PathsAssumption
  <2> QED BY <1>10, <2>1, <2>2 DEF ConnectBegin, Chain
<1>11. ASSUME NEW name \in Names, NEW class \in {"variable", "method"},
              AddNode(name, class)
       PROVE  WalkIsChain' /\ RootIsNamedByPath'
  <2>1. client => Remains(Len(path), root)
        BY <1>1, <1>2, <1>11 DEF AddNode
  <2> QED BY <1>2, <1>11, <2>1 DEF AddNode, Return, Chain
<1>12. ASSUME NEW name \in Names, NEW class \in {"variable", "method"},
              Access(name, class)
       PROVE  WalkIsChain' /\ RootIsNamedByPath'
       BY <1>3, <1>12 DEF Access
<1>13. CASE UNCHANGED vars BY <1>3, <1>13 DEF vars
<1> QED BY <1>4, <1>5, <1>6, <1>7, <1>8, <1>9, <1>10, <1>11, <1>12, <1>13 DEF Next

(* The registry and the operations.                                        *)
LEMMA NextNames ==
    IInv /\ TypeOK' /\ Grown /\ [Next]_vars =>
        RegisteredAreNamed' /\ OperationsReachTheirEntity' /\ LastNamed'
<1> SUFFICES ASSUME IInv, TypeOK', Grown, [Next]_vars
             PROVE  RegisteredAreNamed' /\ OperationsReachTheirEntity' /\ LastNamed'
    OBVIOUS
<1>1. ASSUME registry' = registry, origin' = origin PROVE RegisteredAreNamed'
      BY <1>1, OldIsNamed DEF RegisteredAreNamed
<1>2. ASSUME last'.op # "access" PROVE OperationsReachTheirEntity' /\ LastNamed'
      BY <1>2 DEF OperationsReachTheirEntity, LastNamed
<1>3. ASSUME UNCHANGED <<last, server, path, registry, origin>>
      PROVE  OperationsReachTheirEntity' /\ LastNamed'
      BY <1>3, OldIsReached DEF IInv, LastNamed
<1>4. ASSUME NEW name \in Names, NEW class \in {"variable", "method"},
             AddNode(name, class)
      PROVE  RegisteredAreNamed' /\ OperationsReachTheirEntity' /\ LastNamed'
  <2>1. PICK x \in NodeIds, f \in BOOLEAN :
            /\ GetEntity(name, class, x, f)
            /\ IF x = Null
               THEN Return("ERROR_COMMUNICATION") /\ UNCHANGED <<registry, origin>>
               ELSE /\ registry' = [registry EXCEPT ![name] = x]
                    /\ origin' = IF registry[name] # Null THEN origin
                                 ELSE [origin EXCEPT ![name] = <<server, path>>]
                    /\ UNCHANGED <<phase, last>>
        BY <1>4 DEF AddNode
  <2>2. CASE x = Null BY <1>1, <1>2, <2>1, <2>2 DEF Return
  <2>3. CASE x # Null
    <3>1. OperationsReachTheirEntity' /\ LastNamed'
      <4>1. last.op # "access"
            BY <1>4 DEF AddNode, IInv, Quiet, NoResult
      <4> QED BY <1>2, <2>1, <2>3, <4>1
    <3>2. ASSUME NEW other \in Names, registry'[other] # Null
          PROVE  Registers(other, origin[other], registry[other])'
      <4>1. CASE other = name /\ registry[name] = Null
        <5>1. PICK s, p : s = server /\ p = path
              OBVIOUS
        <5>2. s \in Servers /\ p \in Seq(Names) /\ Named(s, p, name, x)
              BY <1>4, <2>1, <2>3, <4>1, <5>1, EntityIsNamed
              DEF AddNode, IInv, BuildsConnected, TypeOK
        <5>3. Named(s, p, name, x)'
              BY <5>2, NamedStays
        <5>4. registry'[name] = x /\ origin'[name] = <<s, p>>
              BY <2>1, <2>3, <4>1, <5>1 DEF IInv, TypeOK
        <5> QED BY <4>1, <5>2, <5>3, <5>4 DEF Registers, Named
      <4>2. CASE other # name \/ registry[name] # Null
        <5>1. registry'[other] = registry[other] /\ origin'[other] = origin[other]
              BY <1>4, <2>1, <2>3, <4>2, EntityIsNamed
              DEF AddNode, IInv, BuildsConnected, TypeOK
        <5> QED BY <3>2, <5>1, OldIsNamed
      <4> QED BY <4>1, <4>2
    <3> QED BY <3>1, <3>2 DEF RegisteredAreNamed
  <2> QED BY <2>2, <2>3
<1>5. ASSUME NEW name \in Names, NEW class \in {"variable", "method"},
             Access(name, class)
      PROVE  RegisteredAreNamed' /\ OperationsReachTheirEntity' /\ LastNamed'
  <2>1. PICK x \in NodeIds, f \in BOOLEAN, g \in {FALSE, MayFail} :
            /\ GetEntity(name, class, x, f)
            /\ last' = [op |-> "access", name |-> name, class |-> class, node |-> x,
                        result |-> IF x = Null THEN "WRONG_ID"
                                   ELSE IF ~g /\ Serves(class, name, x) THEN "ALL_OK"
                                   ELSE "ERROR_COMMUNICATION"]
        BY <1>5 DEF Access
  <2>2. UNCHANGED <<space, server, path, registry, origin>>
        BY <1>5 DEF Access, walk
  <2>3. RegisteredAreNamed' /\ LastNamed'
        BY <1>1, <2>1, <2>2 DEF LastNamed, NodeIds
  <2>4. CASE last'.result # "ALL_OK" BY <2>3, <2>4 DEF OperationsReachTheirEntity
  <2>5. CASE last'.result = "ALL_OK"
    <3>1. x # Null /\ Class[server][x] = class
          BY <2>1, <2>5 DEF Serves
    <3>2. CASE registry[name] = Null
      <4>1. Named(server, path, name, x)
            BY <1>5, <2>1, <3>1, <3>2, EntityIsNamed DEF Access
      <4> QED BY <2>1, <2>2, <2>3, <3>1, <4>1
              DEF OperationsReachTheirEntity, Named, Chain, Child
    <3>3. CASE registry[name] # Null
      <4>1. registry[name] = x
            BY <2>1, <3>3 DEF GetEntity
      <4>2. /\ origin[name] \in Servers \X Seq(Names)
            /\ Named(origin[name][1], origin[name][2], name, x)
            BY <3>3, <4>1 DEF IInv, RegisteredAreNamed, Registers
      <4>3. CASE origin[name] = <<server, path>>
        <5>1. Named(server, path, name, x)
              BY <4>2, <4>3
        <5> QED BY <2>1, <2>2, <2>3, <3>1, <5>1
                DEF OperationsReachTheirEntity, Named, Chain, Child
      <4>4. CASE origin[name] # <<server, path>>
        <5> QED BY <2>1, <2>2, <2>3, <3>1, <4>1, <4>2, <4>4
                DEF OperationsReachTheirEntity, Named, Chain, Child
      <4> QED BY <4>3, <4>4
    <3> QED BY <3>2, <3>3
  <2> QED BY <2>4, <2>5
<1>6. CASE Grow BY <1>1, <1>3, <1>6 DEF Grow, walk, history
<1>7. ASSUME NEW s \in Servers, ConnectFail(s)
      PROVE  RegisteredAreNamed' /\ OperationsReachTheirEntity' /\ LastNamed'
      BY <1>1, <1>2, <1>7 DEF ConnectFail, Return
<1>8. CASE Browse BY <1>1, <1>3, <1>8 DEF Browse
<1>9. CASE BrowseEnd
  <2>1. CASE at = Null BY <1>1, <1>2, <1>9, <2>1 DEF BrowseEnd, Return, history
  <2>2. CASE at # Null BY <1>1, <1>3, <1>9, <2>2 DEF BrowseEnd, history
  <2> QED BY <2>1, <2>2
<1>10. CASE ConnectEnd BY <1>1, <1>2, <1>10 DEF ConnectEnd, Return, history
<1>11. CASE Disconnect BY <1>1, <1>2, <1>11 DEF Disconnect, NoResult, history
<1>12. ASSUME NEW s \in Servers, NEW p \in Paths, ConnectBegin(s, p)
       PROVE  RegisteredAreNamed' /\ OperationsReachTheirEntity' /\ LastNamed'
       BY <1>1, <1>2, <1>12 DEF ConnectBegin, NoResult
<1>13. CASE UNCHANGED vars BY <1>1, <1>3, <1>13 DEF vars, walk, history
<1> QED BY <1>4, <1>5, <1>6, <1>7, <1>8, <1>9, <1>10, <1>11, <1>12, <1>13 DEF Next

(* All of it holds in every state of the specification.                    *)
LEMMA Invariance == Spec => []IInv
<1>1. Init => IInv
  <2> SUFFICES ASSUME Init PROVE IInv
      OBVIOUS
  <2>1. TypeOK
    <3>1. <<>> \in Seq(Names)
          OBVIOUS
    <3> QED BY <3>1, InitialAssumption DEF Init, TypeOK, NodeIds
  <2> QED BY <2>1 DEF Init, IInv, BuildsConnected, LastNamed, Quiet, WalkIsChain,
             RootIsNamedByPath, RegisteredAreNamed, OperationsReachTheirEntity, NoResult
<1>2. IInv /\ [Next]_vars => IInv'
  <2> SUFFICES ASSUME IInv, [Next]_vars PROVE IInv'
      OBVIOUS
  <2>1. TypeOK' /\ Grown
        BY NextTyped, NextGrows DEF IInv
  <2>2. BuildsConnected' /\ Quiet'
        BY DEF IInv, BuildsConnected, Quiet, Next, vars, walk, Grow, ConnectFail, Browse,
               BrowseEnd, ConnectEnd, Disconnect, ConnectBegin, AddNode, Access, Return
  <2> QED BY <2>1, <2>2, NextWalks, NextNames DEF IInv
<1> QED BY <1>1, <1>2, PTL DEF Spec

(* Once connect has walked its path, rootObjectId is an object that the    *)
(* path names (OpcUaGenericClient.cc:198-229).                             *)
THEOREM RootIsNamed == Spec => []RootIsNamedByPath
<1>1. IInv => RootIsNamedByPath
      BY DEF IInv
<1> QED BY <1>1, Invariance, PTL

(* What an operation acts on is of its class, and a child of that name of  *)
(* the object of this connection or, for a name that was registered over   *)
(* an earlier one, the node with the id that such a child had there        *)
(* (OpcUaGenericClient.cc:335-360).                                        *)
THEOREM EntitiesAreReached == Spec => []OperationsReachTheirEntity
<1>1. IInv => OperationsReachTheirEntity
      BY DEF IInv
<1> QED BY <1>1, Invariance, PTL

(***************************************************************************)
(* WRONG_ID says the truth.  Every walk along the path that was there when *)
(* connect began is the one that connect is on: a reference that was there *)
(* then comes before all that were added since, so the first one that fits *)
(* is that of the walk, and only one was there if names are unambiguous.   *)
(***************************************************************************)

(* w is a walk along p in a space with these references and classes.       *)
WalkIn(refs, class, p, w) ==
    /\ w \in [0 .. Len(p) -> Nodes] /\ w[0] = Folder
    /\ \A j \in 1 .. Len(p) :
           /\ class[w[j]] = "object"
           /\ \E i \in DOMAIN refs[w[j - 1]] : refs[w[j - 1]][i] = <<p[j], w[j]>>

(* The server has all that was there when the operation began, in its place. *)
BeforeRemains ==
    \A n \in Nodes : \A i \in DOMAIN before[n] :
        i \in DOMAIN space[server][n] /\ space[server][n][i] = before[n][i]

(* Where the walk has led so far, any walk of the space before is, too.    *)
WalkIsOnly ==
    phase = "walk" /\ ~failed /\ Unambiguous(before, Class[server]) /\ path # <<>> =>
        /\ step \in 0 .. Len(path)
        /\ \A w : WalkIn(before, Class[server], path, w) => at # Null /\ w[step] = at

Truthful ==
    /\ before \in [Nodes -> Seq(Names \X Nodes)]
    /\ phase # "idle" => last = NoResult
    /\ BeforeRemains /\ WalkIsOnly /\ WrongIdMeansAbsent

(* The first match now is the only match there was.                        *)
LEMMA FirstIsOnly ==
    ASSUME TypeOK, Truthful, Unambiguous(before, Class[server]),
           NEW n \in Nodes, NEW name, NEW x, Found(n, name, "object", x),
           NEW i \in DOMAIN before[n], NEW y \in Nodes,
           before[n][i] = <<name, y>>, Class[server][y] = "object"
    PROVE  x = y
<1>1. /\ i \in DOMAIN space[server][n] /\ space[server][n][i] = <<name, y>>
      /\ Matches(space[server][n][i], name, "object")
      BY DEF Truthful, BeforeRemains, Matches
<1>2. PICK k \in DOMAIN space[server][n] :
          /\ Matches(space[server][n][k], name, "object") /\ x = space[server][n][k][2]
          /\ \A j \in 1 .. (k - 1) : ~Matches(space[server][n][j], name, "object")
      BY <1>1 DEF Found
<1>3. k <= i /\ k \in DOMAIN before[n]
  <2>1. space[server][n] \in Seq(Names \X Nodes) /\ before[n] \in Seq(Names \X Nodes)
        BY SpaceType DEF TypeOK, Truthful
  <2>2. k \in Nat /\ i \in Nat /\ k >= 1 /\ i >= 1
        BY <1>1, <1>2, <2>1
  <2>3. ~(i \in 1 .. (k - 1))
        BY <1>1, <1>2
  <2> QED BY <2>1, <2>2, <2>3
<1>4. before[n][k] = space[server][n][k]
      BY <1>3 DEF Truthful, BeforeRemains
<1>5. k = i
      BY <1>2, <1>3, <1>4 DEF Unambiguous, Matches
<1> QED BY <1>1, <1>2, <1>5

(* A step of the walk.                                                     *)
LEMMA BrowseIsOnly == TypeOK /\ Truthful /\ Browse => WalkIsOnly'
<1> SUFFICES ASSUME TypeOK, Truthful, Browse, ~failed',
                    Unambiguous(before, Class[server]), path # <<>>
             PROVE  /\ step + 1 \in 0 .. Len(path)
                    /\ \A w : WalkIn(before, Class[server], path, w) =>
                                at' # Null /\ w[step + 1] = at'
    BY DEF Browse, WalkIsOnly, WalkIn
<1>1. PICK x \in NodeIds : Found(at, path[step + 1], "object", x) /\ at' = x /\ ~failed
      BY DEF Browse, FindElement
<1>2. /\ step \in 0 .. Len(path) /\ step + 1 \in 1 .. Len(path)
      /\ \A w : WalkIn(before, Class[server], path, w) => at # Null /\ w[step] = at
      BY <1>1 DEF Truthful, WalkIsOnly, Browse, TypeOK
<1>3. ASSUME NEW w, WalkIn(before, Class[server], path, w)
      PROVE  at' # Null /\ w[step + 1] = at'
  <2>1. at \in Nodes /\ w[step] = at /\ (step + 1) - 1 = step
        BY <1>2, <1>3 DEF TypeOK, NodeIds
  <2>2. PICK i \in DOMAIN before[at] : before[at][i] = <<path[step + 1], w[step + 1]>>
        BY <1>2, <1>3, <2>1 DEF WalkIn
  <2>3. w[step + 1] \in Nodes /\ Class[server][w[step + 1]] = "object"
        BY <1>2, <1>3 DEF WalkIn
  <2>4. x = w[step + 1]
        BY <1>1, <2>1, <2>2, <2>3, FirstIsOnly
  <2> QED BY <1>1, <2>3, <2>4
<1> QED BY <1>2, <1>3

(* A walk that has led nowhere, or to its end.                             *)
LEMMA EndIsTrue == TypeOK /\ Truthful /\ BrowseEnd => WrongIdMeansAbsent'
<1> SUFFICES ASSUME TypeOK, Truthful, BrowseEnd
             PROVE  WrongIdMeansAbsent'
    OBVIOUS
<1>1. CASE at # Null
      BY <1>1 DEF BrowseEnd, Truthful, WrongIdMeansAbsent, NoResult
<1>2. CASE at = Null
  <2>1. /\ phase = "walk" /\ last' = [op |-> "connect", result |-> "WRONG_ID"]
        /\ UNCHANGED <<server, path, failed, before>>
        BY <1>2 DEF BrowseEnd, Return, history
  <2>2. ASSUME ~failed, Unambiguous(before, Class[server]), path # <<>>,
               NEW x \in Nodes, ChainIn(before, Class[server], path, Len(path), x)
        PROVE  FALSE
    <3>1. \E w : WalkIn(before, Class[server], path, w)
          BY <2>2 DEF ChainIn, WalkIn
    <3> QED BY <1>2, <2>1, <2>2, <3>1 DEF Truthful, WalkIsOnly
  <2>3. ~failed' /\ Unambiguous(before', Class[server']) /\ path' # <<>> =>
            \A x \in Nodes : ~ChainIn(before', Class[server'], path', Len(path'), x)
        BY <2>1, <2>2
  <2> QED BY <2>1, <2>3 DEF WrongIdMeansAbsent
<1> QED BY <1>1, <1>2

(* No step makes a WRONG_ID untrue.                                        *)
LEMMA NextTruthful == IInv /\ Truthful /\ [Next]_vars => Truthful'
<1> SUFFICES ASSUME IInv, Truthful, [Next]_vars PROVE Truthful'
    OBVIOUS
<1>1. TypeOK /\ Grown
      BY NextGrows DEF IInv
<1>2. ASSUME before' = before, server' = server PROVE BeforeRemains'
  <2>1. SUFFICES ASSUME NEW n \in Nodes, NEW i \in DOMAIN before[n]
                 PROVE  /\ i \in DOMAIN space'[server][n]
                        /\ space'[server][n][i] = before[n][i]
        BY <1>2 DEF BeforeRemains
  <2>2. i \in DOMAIN space[server][n] /\ space[server][n][i] = before[n][i]
        BY DEF Truthful, BeforeRemains
  <2> QED BY <1>1, <2>2 DEF Grown, TypeOK
<1>3. ASSUME NEW s \in Servers, server' = s, before' = space[s], space' = space
      PROVE  before' \in [Nodes -> Seq(Names \X Nodes)] /\ BeforeRemains'
      BY <1>1, <1>3 DEF TypeOK, BeforeRemains
<1>4. ASSUME UNCHANGED <<server, before, failed, root, last, walk>>
      PROVE  Truthful'
  <2>1. WrongIdMeansAbsent'
        BY <1>4 DEF Truthful, WrongIdMeansAbsent, Matches, walk
  <2> QED BY <1>2, <1>4, <2>1 DEF Truthful, WalkIsOnly, walk
<1>5. CASE Grow BY <1>4, <1>5 DEF Grow, history
<1>6. ASSUME NEW s \in Servers, ConnectFail(s) PROVE Truthful'
      BY <1>3, <1>6 DEF ConnectFail, Return, Truthful, WalkIsOnly, WrongIdMeansAbsent
<1>7. CASE Browse
  <2>1. WrongIdMeansAbsent' /\ phase' # "idle" /\ last' = NoResult
        BY <1>7 DEF Browse, Truthful, WrongIdMeansAbsent, NoResult
  <2> QED BY <1>1, <1>2, <1>7, <2>1, BrowseIsOnly DEF Browse, Truthful
<1>8. CASE BrowseEnd
      BY <1>1, <1>2, <1>8, EndIsTrue DEF BrowseEnd, Return, Truthful, WalkIsOnly, history
<1>9. CASE ConnectEnd
      BY <1>2, <1>9 DEF ConnectEnd, Return, history, Truthful, WalkIsOnly, WrongIdMeansAbsent
<1>10. CASE Disconnect
      BY <1>2, <1>10 DEF Disconnect, walk, history, Truthful, WalkIsOnly,
                         WrongIdMeansAbsent, NoResult
<1>11. ASSUME NEW s \in Servers, NEW p \in Paths, ConnectBegin(s, p) PROVE Truthful'
  <2>1. BeforeRemains' /\ before' \in [Nodes -> Seq(Names \X Nodes)]
        BY <1>3, <1>11 DEF ConnectBegin
  <2>2. WalkIsOnly'
    <3>1. SUFFICES ASSUME p # <<>>
                   PROVE  /\ 0 \in 0 .. Len(p)
                          /\ \A w : WalkIn(space[s], Class[s], p, w) =>
                                      Folder # Null /\ w[0] = Folder
          BY <1>11 DEF ConnectBegin, WalkIsOnly, WalkIn
    <3>2. Len(p) \in Nat
          BY PathsAssumption
    <3> QED BY <3>2 DEF WalkIn
  <2> QED BY <1>11, <2>1, <2>2 DEF ConnectBegin, Truthful, WrongIdMeansAbsent, NoResult
<1>12. ASSUME NEW name \in Names, NEW class \in {"variable", "method"},
              AddNode(name, class)
       PROVE  Truthful'
      BY <1>2, <1>12 DEF AddNode, Return, Truthful, WalkIsOnly, WrongIdMeansAbsent, NoResult
<1>13. ASSUME NEW name \in Names, NEW class \in {"variable", "method"},
              Access(name, class)
       PROVE  Truthful'
  <2>1. PICK x \in NodeIds, f \in BOOLEAN, g \in {FALSE, MayFail} :
            /\ GetEntity(name, class, x, f) /\ failed' = (f \/ g)
            /\ last' = [op |-> "access", name |-> name, class |-> class, node |-> x,
                        result |-> IF x = Null THEN "WRONG_ID"
                                   ELSE IF ~g /\ Serves(class, name, x) THEN "ALL_OK"
                                   ELSE "ERROR_COMMUNICATION"]
        BY <1>13 DEF Access
  <2>2. ASSUME x = Null, ~f
        PROVE  \A i \in DOMAIN space[server][root] :
                   ~Matches(space[server][root][i], name, class)
    <3>1. root \in Nodes
      <4>1. Chain(server, path, Len(path), root) /\ Len(path) \in Nat
            BY <1>1, <1>13 DEF Access, IInv, RootIsNamedByPath, TypeOK
      <4> QED BY <4>1, ChainEnds
    <3>2. \A i \in DOMAIN space[server][root] : space[server][root][i][2] # Null
      <4>1. space[server][root] \in Seq(Names \X Nodes)
            BY <1>1, <3>1, SpaceType DEF TypeOK
      <4> QED BY <4>1
    <3> QED BY <2>1, <2>2, <3>2 DEF GetEntity, FindElement, Found
  <2>3. WrongIdMeansAbsent'
        BY <1>13, <2>1, <2>2 DEF Access, WrongIdMeansAbsent, Matches
  <2>4. before' \in [Nodes -> Seq(Names \X Nodes)] /\ BeforeRemains'
    <3>1. server \in Servers /\ server' = server /\ space' = space /\ before' = space[server]
          BY <1>1, <1>13 DEF Access, TypeOK
    <3> QED BY <1>3, <3>1
  <2>5. phase' = "idle"
        BY <1>13 DEF Access, walk
  <2> QED BY <2>3, <2>4, <2>5 DEF Truthful, WalkIsOnly
<1>14. CASE UNCHANGED vars BY <1>4, <1>14 DEF vars, history
<1> QED BY <1>5, <1>6, <1>7, <1>8, <1>9, <1>10, <1>11, <1>12, <1>13, <1>14 DEF Next

(* WRONG_ID, without a failure of a service, means that what was asked for *)
(* was not there when the operation began, for any servers, growing in any *)
(* way while connect walks (OpcUaGenericClient.cc:198-229, 335-360, *)
(* OpcUaGenericClient.hh:264, 106).                                        *)
THEOREM WrongIdIsTrue == Spec => []WrongIdMeansAbsent
<1>1. Init => Truthful
  <2> SUFFICES ASSUME Init PROVE Truthful
      OBVIOUS
  <2>1. before \in [Nodes -> Seq(Names \X Nodes)]
        BY InitialAssumption DEF Init
  <2> QED BY <2>1 DEF Init, Truthful, BeforeRemains, WalkIsOnly, WrongIdMeansAbsent, NoResult
<1>2. IInv /\ Truthful /\ [Next]_vars => Truthful'
      BY NextTruthful
<1>3. Truthful => WrongIdMeansAbsent
      BY DEF Truthful
<1> QED BY <1>1, <1>2, <1>3, Invariance, PTL DEF Spec
=============================================================================
