# A verification development for Open62541CppWrapper

TLA+ models of the wrapper in `src/Open62541CppWrapper`, checked with TLC on
small instances and, for every safety property of those runs, proved with TLAPS
for every instance. Abbreviations: *client.cc*, *client.hh*, *server.cc*
and *server.hh* are `OpcUaGenericClient.*` and `OpcUaGenericServer.*`.

## 1. The system

The wrapper puts C++ classes around the C library open62541.

| Component | State | Operations | Meets |
|---|---|---|---|
| **GenericClient** | the native client, `clientMutex` (recursive), `entityUpdateMutex` with a condition variable per variable, `entityRegistry`, `subscriptionsRegistry`, `eventRegistry`, `entityUpdateValueRegistry`, `minSubscriptionInterval`; static `subscription_bindings`, `event_bindings` | `connect`, `disconnect`, `createClientSpace` with `addVariableNode` and `addMethodNode`, `run_once`, `getVariableCurrentValue`, `getVariableNextValue`, `setVariableValue`, `callMethod`, `activateEvent`, `deactivateEvent`, upcalls `handleEntity`, `handleEventUpcall` | application threads; the native client, which calls back out of any call made on it; the server, over the network |
| **GenericServer** | the native server, the root object; a process-wide flag `running`; static maps from native servers to objects | constructor, destructor, `run` with `createServerSpace`, `addVariableNode`, `addMethodNode`, `signalStop`, signal handler, `writeVariable`, upcalls `handleOnRead`, `handleOnWrite`, `handleMethodCall` | application threads; the native server's loop, which makes the upcalls |
| **MVC classes** | the observers registered with a model, `registry_mutex`; an observer's model pointer | `attach`, `detach`, `notify`, construction and destruction of views and controllers | the model's threads call `update()` of observers that other threads own |
| **Variant** | a shared pointer to a native value | construction, copy, move, swap, assignment, setting, destruction; conversions | every value of client and server |
| **NodeId** | an owned native node id | copy, assignment, `==`, `<`, names | keys of lookups |
| **Browsing** (`browseObjectPath`, `findElement`, `checkAndGetEntityId`) | `rootObjectId`, `entityRegistry` | walk along a path of names to the root object; lookup of a name below it | `connect`, `createClientSpace`, every operation by name; the server's address space |
| StatusCode, examples, gtests, code generator | – | – | – |
| open62541 | connections, sessions, subscriptions, loops | external | – |

### What is hard, and what makes each part correct

* *GenericClient, threads.* A native client is not thread safe and all calls
  share it; a notification is handed over inside any call, with `clientMutex`
  held, and takes `entityUpdateMutex`; waiters take these in another order;
  `disconnect` deletes the client. Correct: mutexes are held exactly by the
  open scopes, the client is used by one thread and exists while used, it is
  lost in one known way only, values arrive in order, a waiting call returns a
  newer value, nobody is stuck, losses of the connection are reported.
* *GenericClient, bookkeeping.* Registries and static bindings outlive
  connections, while servers number subscriptions from 1 again after a restart.
  Node ids outlive connections too, and are sent to whatever server the client
  is connected to. Correct: every live item is routed to the object and name it
  was made for and is on the id the name stands for, values are stored where
  they belong, `run_once` iterates and wakes often enough.
* *GenericClient, several objects.* `subscription_bindings` is static, keyed by
  ids that each server numbers for itself, without a mutex, and keeps the
  addresses of destroyed objects. Correct: an upcall is made on the living
  object whose session it came over, no thread takes the mutex of another
  object, no item is missed, every call returns.
* *Browsing.* A path takes a service call per segment while the server goes on
  adding nodes; a failed service looks like an empty answer; the registry
  outlives the connection, to another server too. Correct: the root object is
  what the path names, `WRONG_ID` is true, an operation acts on an entity of its
  class and name, or on a node with the id of one.
* *GenericServer, values.* `writeVariable` runs in application threads, the
  read and write upcalls in the loop; own writes are told from remote ones by a
  session id. Correct: the value that stays is the model's last one, a read is
  not stale, no write is echoed for ever.
* *GenericServer, life.* One flag stops all servers; static maps keep the entries
  of deleted servers, whose addresses come back; `run` builds the address space
  again each time. Correct: upcalls reach the object that owns the server, a
  server that answers has its whole space, a stop is not lost.
* *MVC.* `notify` walks the registry while observers come and go, and may meet
  one that is not constructed yet or no longer. Correct: the registry has no
  dangling entry, the loop is stable, an observer whose class has begun misses
  no change, everybody gets on unless the process ends.
* *Variant.* A move leaves its source pointing to what it gave away; readings
  reinterpret memory. Correct: a change of one object shows in those it was
  moved to or from and in no other; a reading is the conversion of what is held,
  and printing shows it, for the types for which the code can do that.

`PROJECT.json` lists the hazards line by line with the properties that cover
them, or the reason why none does.

## 2. Modules

| Module | What it is |
|---|---|
| `NextValueFeed` | abstract specification: what `getVariableNextValue` promises |
| `NamedSubscriptions` | abstract specification: subscriptions by name, without ids, bindings or registries |
| `ClientConcurrency` | threads, mutexes and condition variables of one client object |
| `ClientRegistries` | registries, ids, bindings of several client objects, over connections and server restarts |
| `ClientObjects` | several client objects with threads of their own, and the static map between them |
| `ClientEntities` | paths, names, node classes and status codes, on a server that grows |
| `ModelObservers` | model, views and controllers |
| `ServerLifecycle` | the server objects of a process |
| `ServerValues` | the value of a server's variable, the application's model behind it, remote clients |
| `PlainValues` | abstract specification: what objects that are values up to moves do |
| `VariantObjects` | Variant objects and the native variants they point to |
| `VariantReadings` | extends `VariantObjects`: what their values read as and print |
| `MC...` | the instances TLC checks |
| `..._proofs` | the theorems about each |

Four modules are views of the class GenericClient. `ClientConcurrency` shows
that operations under `clientMutex` of one object exclude one another;
`ClientRegistries` and `ClientEntities` use that and make each service call one
step. `ClientConcurrency` identifies a subscription by the pair (native client,
variable), `ClientRegistries` has the ids. `ClientObjects` puts threads and ids
of several objects together, for one connection of each. `ServerValues` composes
the server's value callbacks with `notify` of `ModelObservers` and an
application that connects them as `MVC/README.md` says.

### ClientConcurrency (client.cc 103-195, 427-456, 616-795)

`lockOwner` and `lockDepth` are `clientMutex`, `updateOwner` is
`entityUpdateMutex`. `pc[t]` is where thread t is in a public operation, `up[t]`
where it is in an upcall made out of that operation. One action per stretch of
code between two points at which another thread can get in:

| Code | Actions |
|---|---|
| `run_once` | `RunOnceDisconnected`, `RunOnceSessionLost`, `RunOnceWake`, `RunOnceBegin`, `Iterate`, `RunOnceEnd` |
| `getVariableCurrentValue`, `setVariableValue`, `callMethod` | `CallBegin`, `CallUpcall`, `CallEnd` |
| `getVariableNextValue` | `NextCheck`, `NextAcquire`, `NextPark`, `Spurious`, `NextAcquire` again, `NextReturn` |
| `handleEntity` | `BeginUpcall` (locks), `AcquireUpdate`, `StoreAndNotify`, `UserCall`, `UserCallEnd`, `EndUpcall` |
| `connect`, `disconnect` | `ConnectBegin` (its call of `disconnect`), `ConnectNew`, `ConnectFail`, `ConnectDone`, `Disconnect` |
| server, network | `Publish`, `LinkDown` |

Abstractions: values are numbered in the order of publication. A call that is
refused changes nothing and is a stuttering step. The return code is kept for
runners only. The sleep of `run_once` after its unlock belongs to "idle"; the
one with the mutex locked is the place `lockedSleep`. An upcall may make one
synchronous call; a notification met inside that inner call is left out, and so
are upcalls that call `disconnect` or `getVariableNextValue`. A connect that is
between its disconnect and its lock is in the place `connecting`, or `overtaken`
once another one has locked; the code makes no difference between the two.
`NextCheck` is one step, although `checkAndGetEntityId` browses for a name that
is not registered (client.cc:351), and that call might hand over notifications:
a variable with a subscription was registered by `addVariableNode` and is not
browsed for, and for one without no value ever arrives. `createClientSpace` is
the choice, in `ConnectDone`, of which subscriptions and items exist at the
end of it; no notification arrives during it here (one may in
`ClientRegistries`).

### ClientRegistries (client.cc 44-59, 121-195, 335-408, 459-541, 570-594, 773-782)

`entity[c][n]` is the node id name n stands for, `subReg` the subscriptions
registry, `binding` and `eventBinding` the static maps, `subs[c]` the
subscriptions the server has for the session of c. `NodeOf[o][n]` is the id that
the remote object o gives to its variable n, if it has one: two servers may use
one id for different variables. `Lookup` yields what is registered, whatever
server it came from, and `CreateSubscription` sends that id to the connected
server, where `ItemsOn` is the item it makes: on its own variable with that id,
or none. `createClientSpace` is the series of `AddVariableNode` steps between
`ConnectBegin` and `ConnectEnd`; any service call may fail. `Restart` ends the
sessions of a server and makes it number from 1 again. `deactivateEvent` on a
client that is not connected would hand a null pointer to the native library and
is left out. `NamedSubscriptions` is what all of this is for: per name a node id,
the items of the session as triples (object, id, name), the last value. It says
openly that after connecting elsewhere a name stands for the variable with the
old id there. `SubscriptionsAreByName` forgets subscription ids, registries and
bindings of an implementation state.

### ClientObjects (client.cc 44-59, 103-195, 363-404, 427-449, 745-795)

Each object has a thread that connects, subscribes in `createClientSpace`,
calls `run_once` and destroys the object in the end; `server[c]` is where it
connects, `mutex[c]` its `clientMutex`. A subscription takes three steps (the
service call and the registry, `map::operator[]`, the monitored item), a
notification three (`map::find`, the lock in `handleEntity`, the store). A
thread in `map::operator[]` while another is in the map is a data race: no step
follows such a state, and the properties are about what is reached without it.
An object connects once; reconnections are the subject of `ClientRegistries`.

### ClientEntities (client.cc 121-280, 335-360, 570-743)

`space[s][n]` is the sequence of references that server s reports of node n, in
the order they were added; `Grow` adds one at any time, also between two
segments of a walk. `Found` is the loop of `findElement`: the first reference
with the name and the class. A failed service (`MayFail`) yields no references.
`ConnectBegin(s, p)` is a connection to server s along path p, after any earlier
one to the same or another server; `registry` and its node ids stay.
`AddNode` is `addVariableNode` or `addMethodNode` in `createClientSpace`, which
gives up at the first that fails; `Access` is a read, write or call by name.
`origin` remembers over which connection a name was registered: by client.hh:118-121
an operation should act on an entity of the server object, and
`OperationsReachTheirEntity` says that it does, or that it acts on the node with
the kept id of such an entity of an earlier connection with another address or
path, which here may be any node of the right class. Nodes are never deleted or
renamed, and a name has no namespace, which the code does not look at
(section 5).

### ModelObservers (MVC/)

`stage[o]` follows an observer through its constructors and destructors:
attaching happens in the base class for a view and, without the model pointer
until the next statement, in `AbstractController` for a controller. `attach` and
`detach` hold the mutex for one step; `notify` holds it from `NotifyBegin` to
`NotifyEnd`, and calls `update()` of one observer after another. What that call
is depends on the stage: the derived class's once its constructor began
(`Derive`), the empty one of `AbstractView` in a view's own constructor and
destructor, and pure virtual (`Pure`) in a controller's and in those of
`AbstractModelObserver`. A pure virtual call ends the process (`running`), after
which nothing goes on. `born[o]` is the version of the model when the derived
class began: an empty `update()` before that loses its notification, in the model
as in the code, and `QuietMeansUpToDate` is about the changes after it. A derived
class is taken to be able to handle `update()` as soon as its constructor begins
and to have nothing to do in it after its destructor returned. Assumed: the model
outlives its observers, a view has a model and exists while a controller is
constructed on it, and `update()` neither constructs nor destroys an observer
of the same model (it would wait for a mutex its own thread holds). `Change`
and the call of `notify` are the model's, a class derived from AbstractModel,
as the comment at AbstractModel.hh:45 asks for.

### ServerLifecycle (server.cc 31-398)

`binding` stands for the three static maps, which are always filled together.
`createServerSpace` is the derived class's: it adds the nodes of `Nodes` in
some order and returns false at the first that fails, as the example
`SimpleServer.cpp` does. `AddNode` is `addVariableNode` or `addMethodNode`; a
failure may leave a node without callbacks. `UA_Server_run` is its startup,
which may fail, and a loop that tests `running` between two iterations, out of
which the upcalls are made. Assumed: an object is destroyed when its thread is
not in `run()`, and constructed once. A new native server may have the address
of a deleted one. The constructor writes the static maps without a mutex
(server.cc:139-142) while the loop of another server may search them (65, 84,
106): `Bind` and the search are each taken as atomic, so a race inside a map,
after which nothing is defined, is not in the model.

### ServerValues (server.cc 60-90, 219-283, 400-414, AbstractModel.cc 35-40)

A value is a version of the model: how often it had changed. Threads of the
application change the model and notify; `update()` reads the model and calls
`writeVariable`, with `registry_mutex` held (`holder`). The loop builds the
variable, then serves: `RemoteWrite` stores and is passed on by `OnWrite` to
`handleOnWrite`, which changes the model and notifies in the loop's own thread;
`ReadBegin`, `Offer`, `Answer` are a read, into which `handle_onRead` may write
what `handleOnRead` offers; `Change(Loop)` is a method call that changes the
model. `offers` and `readOnly` are chosen once. External, and assumed: reads and
writes of a value inside the native server are atomic, upcalls are made in the
thread that reads or writes, the server's own session has the number 1 and no
remote session has it in the 32 bits compared.

### VariantObjects (OpcUaVariant.cc 12-77, OpcUaVariant.hh 57-158, 226-314)

`value[o]` is the shared pointer of object o, `native[c]` what a native variant
holds, which is deleted with the last pointer to it. The move operations copy
the pointer, so that source and target share from then on; every operation may
be applied to every object that exists, to moved-from ones and to an object and
itself too. `PlainValues` says what that amounts to: objects have values of
their own, except that a move makes source and target *kin*, which have one
value in common until one of them is moved into, swapped or destroyed;
what is set or assigned through one shows in its kin, and an assignment between
kin empties them. `moving` remembers whether the last call was given a
`Variant &&`, the only calls that make kin. A scalar and an array are each one
value. The shared pointer that `getInternalValuePtr` hands out is not modelled.

### VariantReadings (OpcUaVariant.hh 28-41, 161-224, OpcUaVariant.cc 92-208)

Values are records of a type index, scalar or array, and items: bytes, the
lowest first, or one symbol for a text, and lie one after the other in memory;
`ItemsAssumption` says so of `Values`. `BytesAt` is what a cast pointer points
to, by its position; `Beyond` marks a byte past the end of the value. The
conversions of C++ and the numbers that a value stands for are written down
apart from the code (`Converted`, `NumberOf`, and `Decimals` for the text that
`std::to_string` makes of a floating value, six decimals of it) and compared with
what is read and printed in every reachable state. The properties are
equivalences: they say for which types the result is the conversion, or what is
held, and that it is not for the others. Little-endian memory and IEEE floating
values are assumed.

## 3. Runs

| Run | Instance | Distinct states | Shows |
|---|---|---|---|
| `ConcurrencySafety` | runner, caller, waiter, 2 connectors; 2 variables, 2 native clients, 2 updates, failures | 473,000 | mutexes, exclusive use, order, a woken call has a newer value; how a client may be lost; `ClientConcurrency` implements `NextValueFeed` |
| `ConcurrencyProgress` | runner, caller, waiter, connector; 1 variable, 2 native clients, 2 updates, failures, with spurious wakeups and fairness | 21,500 | the two mutexes cannot deadlock; the three liveness properties |
| `Registries` | 1 client object, 2 servers with 2 node ids in different use, 2 names, 2 subscription ids per server run, 1 restart | 1,568,000 | routing, homes of values, iterations, sleep; the client implements `NamedSubscriptions` |
| `ClientObjects` | 2 client objects, 2 servers (either both on one, or apart), 2 ids each, with fairness | 64,900 | homes of upcalls and mutexes, bindings, return of every call |
| `Entities` | 2 servers of 8 nodes in 4 levels, with siblings of one name, one that grows and one with the ids in other places; 3 names, 3 paths, failures | 917,700 | root object, WRONG_ID, entity acted on |
| `Observers` | 2 notifying threads, 1 view, 1 controller, 2 changes, with fairness | 21,000 | registry, loop, missed changes, progress |
| `ServerRuns` | 2 servers, 2 addresses, 2 nodes, with fairness | 28,700 | routing of upcalls, whole spaces, stops |
| `ServerValues` | 2 writers and the loop, 3 changes, with and without offers and read-only, with fairness | 37,800 | the model's value stays, fresh reads, ends |
| `Variants` | 3 objects, 11 values of 8 types, 3 native variants | 12,000 | Variant objects implement `PlainValues`; readings and printing |

Each property also fails when one definition of the model is replaced by a
mutated form, named and commented *mutant* in the modules: a dropped lock, a
missing reset, a wrong key. `PROJECT.json` pairs each property with its mutant.

Three runs end in a counterexample: the code does what a comment denies.

| Run | Comment | What the code does |
|---|---|---|
| `SpuriousWakeup` | client.hh:275 | `wait` without a predicate: a spurious wakeup returns an old value |
| `SharedBindings` | client.cc:45 | two objects on two servers with equal ids: one gets the other's values |
| `SharedFlag` | server.hh:186 | a stop of one server ends `run` of another |

### Bounds

* `MaxConnects`, native clients ever made: 2 is one connection and its
  replacement, so that a stale pointer shows, or one that is lost and the one
  that took its place.
* `MaxUpdates`, published values: 2 is an older and a newer value of a
  variable, so that a waiter can call again after the first, or one value each
  of two variables.
* Spurious wakeups are off in `ConcurrencySafety`, whose last two properties
  need that; they are on in `ConcurrencyProgress`, and the theorems about
  mutexes, deadlock, exclusion, lost clients and order hold with them.
* `MaxIds`, `MaxRestarts`: two ids per run of a server and one restart, so that
  an old id comes back and meets an entry of another name; `Nat` in proofs.
* `Intervals` {1, 3} with `Default` 2: one below and one above.
* Three Variant objects: a value that was moved on, its source, and a third that
  one of them is copied to; as many native variants as objects can point to.
* `MaxChanges`: in `Observers` 2 changes by two notifiers, or by one of them
  twice, so that one changes again while the other is in its loop; in
  `ServerValues` 3, by two writers and a remote write.
* `NodeOf` in `Registries`: two names and two ids. The second server has only the
  variable of the first name, under the id that the second name has on the first
  server, so that kept ids reach another variable, or none.
* `ClientObjects`: two objects are enough to meet; on one server they have ids 1
  and 2 or one has both, on two servers their ids are equal.
* `Entities`: two objects of one name, one of them childless, a variable beside
  them, and a method and a variable of one name below. Paths of length 0 to 2.
  The first server grows from nothing, the second is complete from the start.
* Samples of `Variants`: -2 or its complement in integer types of every width
  and sign, arrays whose elements differ, a Boolean, a floating value, texts.
* One thread per role in the client runs, besides two connectors in
  `ConcurrencySafety`, whose race is a hazard of its own: other threads of the
  same role meet only at the mutexes, for which the theorems stand with any
  number. What one waiter cannot show is that an update wakes *all* waiters of
  its variable, which is liveness and so not proved either.

Symmetry is used in runs without liveness only, for waiters, connectors,
variables, objects and native variants, none of which the modules tell apart.

Deadlock checking is off for `Observers`, which stops when all observers are
dead and all changes made, or with a pure virtual call, for the two runs of `ServerLifecycle`, which may stop
when all objects were destroyed, and for `ClientObjects`, which ends when the
objects are destroyed, after a race, and where two objects on two servers block
each other (section 5).

### Fairness

`ClientConcurrency!Fairness`: a thread inside an operation goes on; runners call
`run_once` again and again, as the loop in `SimpleClient.cpp` does. Strong
fairness, because a thread that waits for a mutex is ready only now and then;
it amounts to a mutex that does not starve a thread for ever. Nothing is
assumed of callers, connectors, the server or the network.
`ModelObservers!FairSpec` is alike: constructors, destructors and `notify` go
on as long as the process does, `update()` returns. `ServerLifecycle!FairSpec`: the thread in `run()` goes
on, upcalls return, and an iteration of the native server ends (strong, because
clients may keep it busy with upcalls). Nobody needs to stop a server or begin
a call. `ClientObjects!FairSpec`: `createClientSpace` and `run_once` go on, and a
`clientMutex` is granted to a thread that can have it often enough; nobody needs
to connect. `ServerValues!FairSpec`: what was begun goes on, and `registry_mutex`
is granted likewise; nobody needs to write, read or change.

## 4. Theorems

All hold for every value of the constants that satisfies the named ASSUMEs
(distinct "nobody" values, natural bounds, Boolean switches, the range of
`NodeOf`, the form of the values of a Variant).

| Module | Theorem | Argument |
|---|---|---|
| `ClientConcurrency_proofs` | `MutexesFollowScopes` | `Locked` = `TypeOK` and `LocksFollowScopes` is inductive as a whole: an unlock keeps the depth natural only because the mutex is held. Three lemmas (a scope opens, closes, or stays) carry the sum of open scopes through every action |
| | `TypeCorrect` | the first half of it |
| | `ClientIsExclusive` | who is inside the client has an open scope, so nobody else has; strengthened by `ClientAlive` (the client in use is not deleted), which every deleting step keeps because it finds the mutex free or its own |
| | `MutexesDoNotDeadlock` | from `Locked`: whoever has `entityUpdateMutex` is never blocked, and whoever has `clientMutex` is blocked by that one only. Spurious wakeups included |
| | `OnlyOvertakenConnectsLose` | for any number of connectors: a connect that nobody has overtaken finds the null pointer that its `disconnect` left, since only a connect writes another one, and its step makes all others in that place overtaken |
| | `NotificationsStayInOrder` | at most one upcall is under way, and it took the oldest notification of its variable |
| | `WakeupsAreNews`, `NextValueIsCorrect` | *without spurious wakeups*: initial states map to initial states; storing a value is `Update`, the check is `Begin`, the return is `Return`, all else stutters. Rests on the order of notifications and on `WokenByNews` |
| `ClientRegistries_proofs` | `TypeCorrect` | with "a session has an object" |
| | `SleepStaysShortEnough` | the minimum only falls |
| | `ItemsStayRouted`, `ValuesStayAtHome` | *if there is one client object, or one server* (`OneRoute`): `RoutingInv` adds that live ids do not exceed the last one the server gave, so that the next id is fresh and its binding overwrites none that is live |
| | `IterationsAreEnough` | `CountInv` adds that ids of live subscriptions are in use, unique, and keys of the registry that fits their item; so there are injections from the items into the two registries, and the cardinality theorems give the count |
| | `RegistriesAreSubscriptions` | *if `OneRoute`*: `ItemsStayRouted` and `ValuesStayAtHome` say that subscription ids lead to the name they stand for, and items are on the node id of that name, since a registered name keeps its id (lemma `NamesStay`); so a new item is `Add`, an item that ends is `End`, a value that is stored is `Update`, and all else stutters |
| `ClientObjects_proofs` | `UpcallsAreAtHome`, `MutexesAreAtHome`, `ItemsAreBound` | *if all objects are on one server* (the premise of the properties): ids of the registries are disjoint and bound to their object, so that a search finds the object whose session it is for, whose mutex the thread has already |
| `ClientEntities_proofs` | `RootIsNamed` | the walk so far is a chain of named objects, and references are never removed; so every step, `Grow` included, keeps it |
| | `EntitiesAreReached` | with the registry: every id in it is that of a child of its name of an object that a path has named, on the server and along the path that `origin` remembers; an id found over the present connection is such a child here |
| | `WrongIdIsTrue` | `Truthful`: if siblings have names of their own, a walk along a path of the space as it was at the beginning is the only one, since the first match of a sequence stays the first when the sequence grows; so where the code's walk ends, or finds nothing, so does every other |
| `ModelObservers_proofs` | `RegistryIsSound`, `LoopStaysStable` | `RegistryInv` adds which stages have a model pointer and that the loop's thread holds the mutex |
| | `NoChangeIsMissed` | while someone alive is behind a change made since its class began, a notifier still has it in its list or has yet to begin |
| `ServerLifecycle_proofs` | `UpcallsAreRouted`, `SpaceIsServedWholeAndOnce`, `ServesOnce` | `ServerInv` adds that existing native servers have distinct addresses, that a tried node has its callbacks, and that the space of a run that came back stays full |
| `ServerValues_proofs` | `QuietServerIsCurrent` | whoever changed the model last has yet to notify, or holds the mutex and has yet to read it; a value read earlier is written before the mutex is released |
| | `RemoteReadsAreFresh` | if nothing is offered, what is stored is at least as new as the last complete notification; what is offered is read after the read began; and a writer about to write holds nothing older either |
| `VariantObjects_proofs` | `VariantsAreValues` | with *any* callers: kin are the objects with the same pointer. A fresh native variant is pointed to by nobody, a moved pointer by the kin of its source, and a write shows in exactly those with the pointer; so every operation is the one of `PlainValues` with its name |
| | `ReadingsConvert`, `PrintingShowsAll` | with *any* callers: `TypeOK` is enough, since every native variant holds a value of `Values`. At the width of its own type the bytes found are those of the item, at a smaller one its first bytes, at a greater one a byte is `Beyond`, which no item and no text of one is; position arithmetic, width by width. Nothing is said of integers read as floating values or the reverse, nor of arrays read at smaller widths |

`TypeOK` of `ModelObservers`, `ServerLifecycle`, `ServerValues`, `ClientObjects`,
`ClientEntities` and `VariantObjects` is proved as part of these invariants and
not repeated as a run.

Every invariant and action property of the passing runs, and every refinement, is
thereby stated by a theorem. Only model-checked: the liveness properties
(`NoThreadIsStuck`, `UpdateReleasesWaiter`, `LossOfSubscriberIsReported`,
`EverybodyFinishes`, `StopEndsEveryRun`, `EverybodyReturns`, `EverythingEnds`),
since fairness and ENABLED are beyond the prover.

## 5. Behaviour worth knowing that no run reports

Seen while modelling, and left in the models as the code has it:

* an update stored between the check and the wait of `getVariableNextValue` is
  missed by that call (client.cc:651-659);
* `disconnect` wakes no waiter; a call that already waits stays
  (client.cc:190; `NoThreadIsStuck` excepts waiting calls);
* `run_once` does not reconnect, despite the comment at client.cc:762;
* without subscriptions `run_once` never uses the socket and says ALL_OK after
  the connection is lost, despite client.hh:251 (client.cc:774);
* when `createClientSpace` fails `connect` returns ERROR_COMMUNICATION and leaves
  the client connected, unlike on its other failures (client.cc:162);
* two objects at work at once race in the static maps (client.cc:54, 394), and
  on two servers with equal ids the runner of each locks its own `clientMutex`
  and then the other's, which blocks both (client.cc:57);
* two threads in `connect` may lose a native client (client.cc:123-131;
  `OnlyTheGapLosesClients` says that nothing else does);
* after connecting to another object or server, registered names still stand for
  the node ids of the first one (client.cc:346), although client.hh:118-121 speaks
  of entities "available in the server object": reads, writes, calls and
  subscriptions by that name go to whatever has the id there;
* an `update()` during the construction or destruction of an observer is pure
  virtual and ends the process (AbstractModelObserver.hh:50), except in the
  constructor and destructor of `AbstractView`, where it is lost;
* an event id kept from an earlier session may end a data subscription of the
  next (client.cc:535);
* `addVariableNode` ignores a failed subscription (client.cc:588);
* browsing ignores namespaces, though client.hh:95-104 speaks of a
  namespaceIndex; it does not go back to a second object of the same name
  (client.cc:264-269), so that `WRONG_ID` may be returned for a path that
  exists (`WrongIdMeansAbsent` assumes siblings with names of their own); a
  failed browse is reported as `WRONG_ID` (client.cc:251);
* `addMethodNode` of a name that is registered as a variable succeeds
  (client.cc:346);
* a `writeVariable` before `run()` has built the variable is refused
  (server.cc:404), and `handleOnRead` may overwrite a newer value with the one
  it read earlier (server.cc:72), until the next notification;
* `getArrayValuesAs<std::string>` yields no texts for arrays of numbers, despite
  the comment at OpcUaVariant.hh:203; `toString` reads 8 and 16 bit integers as
  `int` and `float` as `double`, past the end of the value (OpcUaVariant.cc:108,
  123), and `getValueAs` reads past it at every wider type (OpcUaVariant.hh:183);
  `PrintsWhatItHolds` and `ReadsAreConversions` say so; C++ types that the table does not name, such as `char` and `long long`,
  are stored as Boolean (OpcUaVariant.hh:248, 305);
* `x = x` empties a Variant (OpcUaVariant.cc:67), and assigning to a Variant that
  was moved from changes the one it was moved to (OpcUaVariant.cc:56, 75), which
  is how `PlainValues` defines values up to moves;
* `run()` of the server returns a native status, where server.hh:182 says 0 or
  -1.

## 6. Not modelled

* *NodeId.* Its objects own a native id and are copied by value. Client and
  server copy ids and compare them with null, which `ClientEntities` has; `==` is
  used by the gtest only, `<` by nobody. Worth knowing: `x = x` empties an id
  (OpcUaNodeId.cc:60), and `<` compares the numeric member also of ids that are
  texts (OpcUaNodeId.cc:100).
* *StatusCode*, an enumeration; the packaged *code generator*; the *gtests*.
* `deleteSubscription`, `registerNode` and `unregisterNode` are private and never
  called.
* The shared pointer of `getInternalValuePtr`, and races inside the static maps
  of the server.
* Argument vectors of methods, the description of their arguments in
  `addMethodNode`, and the fields of an event: data that no other state depends
  on.
* An upcall of the client that calls `disconnect` or `getVariableNextValue`, and
  destruction of a server during `run()`: each breaks the object it is called on
  by itself, and nothing in the repository does it.
* The memory that failed service calls leave behind.
