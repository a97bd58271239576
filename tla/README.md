# SlateX in TLA+

SlateX is a small multiplayer engine: a server and its clients run Lua scripts
as coroutines on one thread each, and the server's instance tree is replicated
to the clients over GameNetworkingSockets. This directory holds TLA+ models of
its core, the TLC configurations that check them, and TLAPS proofs. File and
line numbers refer to `src/` at the modelled commit.

To run: `tlc -config MCKakaScheduler.cfg KakaScheduler.tla`,
`tlc -config MCReplication.cfg MCReplication.tla` and so on (the table of section 3
names the module of each configuration); `tlapm ReplicationProofs.tla` and so on
for the modules of section 4.

## 1. The system

| Component | State | Operations | Hard part |
|---|---|---|---|
| **KakaScheduler** (`Engine/Scripting/KakaScheduler`) | `m_tasks`, `m_pending`, `m_timers`, `m_currentTask`, request and time flags of each task | `Spawn*`, `SuspendCurrentTask`, `FulfillRequest`, `CallLater`, `Tick`, `Clear` | scripts call back while `Tick` iterates; answers race timeouts |
| **Instance tree** (`Engine/FemkaDM`) | parent, children, name, `m_destroyed`, `m_netId`, the id registry, `m_networkOwner`, child waiters | `SetParent`, `Destroy`, `SetName`, `FindFirstChild`, `Clone`, `RegisterChildWaiter` | hooks run in the middle of a change; shared and weak ownership |
| **ServerReplicator** | `m_nextNetId`, the hooks it set on instances | `WatchRoot`, `WatchAndMaybeBroadcast`, `Broadcast*`, `SendSnapshotTo`, connect, disconnect, dispatch | a join in between any two changes; subtrees that appear at once |
| **ClientReplicator** | nothing of its own: the client's tree and id registry | `OnPacketReceived`, `ApplyInstanceAdded` | packets about things not known, known twice, or destroyed |
| **Transport** (`GNSTransport`) | `m_clients`, the sockets' queues | `StartServer`, `Connect`, `SendTo`, `SendToAll`, `Poll`, `Shutdown`, status callbacks | order of callbacks, membership and packets; one static `s_instance` and one library for all transports |
| **Players**, **Player** | `LocalPlayer`, connection id registry | made on connect, destroyed on disconnect | a Player outlives or precedes what refers to it |
| **Signal** | connections, waiters | `SetConnection`, `DoOnce`, `Wait`, `Fire` | handlers are tasks: they run later |
| **NetworkEvent** | type, protocol, three signals | `Fire*`, `Invoke*`, `Dispatch*` | a request whose answer never comes; unreliable packets |
| **LuaVM**, **LuaSandbox** | bindings, environments | `wait`, `spawn`, `WaitForChild`, ... | `WaitForChild` registers an id twice (child, timer) |
| **Reflection** | class table, built at start | `Find`, `Create`, `Push` | lookup along base classes |
| **Runtime Engine**, `Main`, **JoinScript** | what is hosted, what is connected, `g_running` | boot, `Poll`, `Tick`, `HostServer`, `ConnectToServer`, `Shutdown` | a failed attempt followed by another; a signal or a lost server at any moment |
| **LuaArgSerializer**, **Serializer** | none | encode, decode | values that do not survive the trip; a message that ends early |
| **AppSettings** | the settings | `Load` | comments, blanks, a number that is none |
| **Crypt**, **ed25519** | none | `VerifySign`, `Base64Decode`; field, scalars, curve, SHA-512, keys and signatures | overflow of limbs and shifts, carries, boundaries of blocks |
| **HttpUtil**, **slDBG**, **Math**, **Rendering** | little or none | I/O, logging, formulas | see "Not modelled" |

How they interact. The main loop (`SXS/Main.cpp:60-82`) alternates `Engine::Poll`
(the transport delivers packets and status changes to the replicator, which calls
the tree, signals and the scheduler) and `KakaScheduler::Tick` (which resumes
scripts; they call the tree). Every change of the tree calls the hooks the server
replicator put there (`OnChildAdded`, `OnDestroyed`, `OnChanged`), and these send
packets at once. There is one thread per process; the concurrency is between
scripts (interleaved at yields), between a Tick and what is polled, between
processes, and between a join and everything else.

What makes each part correct:
- scheduler: no coroutine lost, overtaken, resumed twice in one Tick or resumed
  without cause; every answer reaches the one coroutine that asked for it, and
  every coroutine that can go on does;
- tree and ids: one id for one instance, for life;
- replication: a client that has caught up shows what the server shows, with the
  same classes, names, order and owners, nothing more, nothing that is server-only;
- connections: one Player per open connection, known to its own client;
- waiting: who waits for a child or a Signal misses none that comes, and a request is
  given what it asked for, whatever earlier requests of its coroutine left behind;
- a process: callbacks reach the replicator they are for, nothing that is gone is used,
  and the main loop ends when it should;
- remote functions: a call runs one handler, once, and its caller gets that handler's
  result; remote events: a client knows an event before it hears of it, and Fires over
  TCP arrive, in order;
- pure algorithms: each computes what an independent definition says, at its boundaries too.

## 2. Modules

Behaviours:

| Module | Models | State and actions |
|---|---|---|
| `Requests` | abstract specification: what the scheduler promises to those who suspend coroutines | per coroutine its last request and the answer to it; `Ask` (also while a request is open), `AskAgain` (with an answer ready, which the request inherits; the two together are `Suspend`), `Answer`, `Resume`, `Start`, `End` |
| `KakaScheduler` | the scheduler, seen together with `Signal::Wait/Fire`, `WaitForChild` and `Invoke` as sources of requests and answers; it implements `Requests` | a variable per member. `Tick` is cut where scripts, and so any call, can come in between: `BeginTick`, then per task `Skip` or `Resume` ... `Yield`/`Finish`/`Fail`, the sweep, the timers, `EndTick` |
| `Signal` | connections and waiters of one Signal, on top of `Requests` | `Connect` (`SetConnection`, `DoOnce`), `RemoveConnection`, `Wait`, whatever request its coroutine has, and `Fire` |
| `WaitForChild` | `Instance:WaitForChild` next to a Signal, on a tree that changes | `Reparent`, `SetName`, `DestroyObject` (each with the waiters it answers), `WaitForChild`, `WaitForFire`, `FireTimer`, `OnSignal`; the coroutine Tick runs is `current`: `RunOn`, any number of requests, then `GiveUp` or `Finish` |
| `InstanceTree` | `SetParent`, `AddChild`, `RemoveChild`, `Destroy`, `FindFirstChild`, `GetDescendants` as operators on a tree `[parent, kids, dead]` | no state: a server has one tree, each client another |
| `ClientReplicator` | what each packet does to a client, as operators on a "view" (tree, names, classes, ids, owners, LocalPlayer) | `Received` is `OnPacketReceived` |
| `ServerReplicator` | the server: tree, ids, hooks, connections, packets sent | `Start`, `ScriptSetParent`, `ScriptDestroy`, `ScriptSetName`, `ScriptSetNetworkOwner`, `Connect`, `Disconnect`; each includes every broadcast the code makes inside that call |
| `Replication` | server + channels + one view per connection | `ServerNext` or `Deliver(c)`; the properties are here |
| `RemoteCalls` | abstract specification: what a script may expect of `InvokeServer` and `InvokeClient` | each call is called, running, returned, answered or failed; no step leads back |
| `NetworkEvent` | a server and clients that fire events and invoke handlers of one another, over reliable channels and an unreliable one; it implements `RemoteCalls` | `Connect`, `Disconnect`, `CreateEvent`, `DestroyEvent`, `Release`; `InvokeServer`, `InvokeClient`, `HandlerReturns` (`SendInvokeResponse`), `HandlerRaises`; `FireServer`, `FireClient`, `FireAllClients`; `ServerPolls`, `ClientPolls`, `LooseArrives` (`OnPacketReceived` and the three `Dispatch*`), `LooseLost` |
| `Runtime` | one process, SXS or Client, from `main()` to its end: boot, main loop, `Engine`, its replicators, their `GNSTransport`s and the static callbacks | `BootStep`, `HostServer`, `ConnectServer`, `Stop`, `PollServer`, `PollClient`, `EndTick`, `LoopEnd`, `Interrupt`; the networking library (external): `PeerArrives`, `PeerLost`, `ServerAccepts`, `ServerLost` |

Theorems and their proofs (section 4), each module about the one it is named after:

| Module | About |
|---|---|
| `ListLemmas` | lists (`Lists`, `SequencesExt`) and functions defined by recursion |
| `TreeLemmas` | `InstanceTree`: what `Walk` visits, that `SetParent` and `Destroy` keep a tree a tree |
| `KakaSchedulerProofs` | the scheduler; that it implements `Requests` |
| `WaitForChildProofs` | `WaitForChild` with `Signal` |
| `ReplicationProofs` | the server side of `Replication` |
| `MirrorProofs` | its clients: what packets in flight will make of them |
| `NetworkEventProofs` | `NetworkEvent`; that it implements `RemoteCalls` |
| `RuntimeProofs` | `Runtime` |

Pure algorithms (operators, no state; each module ends with what its operators should
compute, defined another way):

| Module | Models | Compared with |
|---|---|---|
| `LuaArgs` | `SerializeArgs`, `DeserializeArgs` and the `Serializer` under them | the value a receiver is meant to see; every proper prefix of a message raises |
| `InstanceQueries` | `GetDescendants`, `FindFirst*`, `IsA`, `IsDescendantOf`, `GetFullName`, property locks, `Clone` (parts that are not archivable, locks); `InstanceIndex`, `InstanceNewIndex`, `BindAllToLua` | sets of paths and ancestors; bases before derived classes; which parts a copy mirrors, and where its locks are |
| `AppSettings` | `Load`, character by character where blanks, `=`, `;;` and section ends matter | the settings a file was written from |
| `Crypt` | `Base64Decode`, `VerifySign` | the bits of the alphabet in groups of eight; "a script runs only if its signature verifies" |
| `FieldElement` | `fe.c`: limbs, carries, products, packing, addition chains | the integers mod the modulus; bounds of every intermediate limb |
| `Scalar` | `sc.c`: folding, carrying, loading, packing | the integers mod the order; the place of each bit |
| `Curve` | `ge.c`: the point formulas, tables, `slide`, both scalar multiplications, decoding of points | the group law on pairs |
| `Ed25519` | `keypair.c`, `sign.c`, `verify.c`, `add_scalar.c`, `key_exchange.c` | the equation of a signature; both sides get one secret |
| `Sha512`, `Sha512Compress` | `sha512.c`: buffering and padding; the compression | the padded message; published digests and words |

`MCReplication`, `MCNetworkEvent` and `MCWaitForChild` give TLC symmetry sets.
`MCAlgorithms` collects the inputs of `MCValues`, `MCArithmetic`, `MCCurve` and `MCHash`:
its behaviour is one step that picks an algorithm and an input (`Probe`).

`Walk` in `InstanceTree` is a work list, so one operator serves as
`GetDescendants`, the recursion of `WatchAndMaybeBroadcast` (with
`FilterMode::Server` instances cut off), of `Destroy` and of `CollectSnapshot`;
all four are pre-order. `Walk` and `KeepIn` (module `Lists`: erasing by a condition,
`erase(remove_if(...))`) are recursive functions, not RECURSIVE operators, so that
theorems can be stated about the modules that use them.

Definitions named as mutants (`SuspendSameId`, `DiscoveredAlone`, ...) are wrong
variants of the operator that follows them. Each property has been seen to fail when
the named definition is replaced by its mutant; PROJECT.json lists the pairs.

### How the modules rest on one another
`KakaScheduler` is shown to implement `Requests`; `Signal` and `WaitForChild` use
`Requests` in its place, with all of its ways to ask: `SuspendCurrentTask`
(`KakaScheduler.cpp:110-120`) tests neither for an open request nor for a ready answer, and
a nested Lua coroutine that yields leaves its task running with one. `NetworkEvent` is shown
to implement `RemoteCalls`. It uses the same contract more coarsely: an answer resumes its
task at once, and no task asks again while its request is open or answered. `Replication` composes
server, channels and clients; `Runtime` has the life of transports and connections and no
packets, so what it shows about connections is what `Replication` assumes of them.
`Ed25519` takes field, scalars and hash as parameters: `Curve` and `Ed25519` are checked
over a small field that TLC can compute in, `FieldElement`, `Scalar` and `Sha512` on their
own against what that field and hash stand for.

### Assumptions
- A *part* is an instance made by `Instance.new`. In this build the creatable
  classes are `NetworkEvent`, `Player` and `Players`: `BasePart.hpp` is included by
  no source file, so its registration is never compiled. Accordingly `NetworkOwner`
  (`Instance.cpp:26-34`) is the only replicated property.
- Reliable packets to one client arrive in order and completely until the connection
  is lost (GameNetworkingSockets' promise; external). All datamodel packets are
  reliable. `Welcome` and `Ping`/`Pong` carry no state and are left out.
- A connection identifier is used once. A part starts outside the tree; only parts
  are moved, renamed and given owners, and owners are Players. Services may be
  destroyed (`Doomed`).
- Scripts do not put an instance below itself on the server: `SetParent`
  (`Instance.cpp:71-91`) would not return.
- Scripts of a client do not change the tree there. `Hold` is the set of objects such
  a script refers to, which stay in the id registry after they are destroyed;
  references by `LocalPlayer` and `NetworkOwner` are modelled exactly.
- `Habits` names two things scripts may do that the code does not handle:
  `"leave"` (move a watched instance to nil or out of sight) and `"collide"` (two
  children of `game` with one name). The passing runs exclude them; `client_cycle` shows
  what the first leads to.
- `NetworkEvent` abstracts the other models: of a tree it keeps which events are in it
  and which ids resolve, of a signal that it has a connection or none
  when a packet for it arrives (scripts set and remove them at any time).
  `heard` records that a Fire was dispatched to handlers, which run as tasks of their
  own. Each process runs one script and one task per request it handles; handlers may
  invoke in turn. A lost connection loses what is on its way; its client does not come
  back. The server creates the events: one that a client creates has NetId 0 and
  reaches nobody. Sending to a closed connection does nothing, so the Fires on closed
  connections are left out.
- `Faults` names what may go wrong in a run of `NetworkEvent`: connections lost, events
  destroyed, handlers that raise, handlers set late or removed.
- `WaitForChild` leaves out the clock: a timer may fire at any later moment. Who
  changes the tree (a script, a packet) does not matter to it. It leaves out `Clear`, which
  nothing in the repository calls, and the order in which Tick resumes
  (`KakaScheduler!SpawnOrder`).
- `Runtime`: `StartServer` and `Connect` may fail wherever they test for failure; the
  library queues status changes and hands them over inside `Poll`; a signal may come
  between any two steps. `doubled` records that a script hosted or connected while the
  process already had a replicator. The destructor of the first transport then kills the
  library and clears `s_instance` under the second (`GNSTransport.cpp:23-27`,
  `Engine.cpp:21-29`), so the properties of `Runtime` speak of processes that did not.
- `LuaArgs` knows a primitive by its bytes, not its bits. The clone of a `NetworkEvent`
  or `Player` is a bare `Instance` with that class name (`Instance.cpp:309-323`), which
  `ClassRegistry::Push` casts statically: undefined behaviour, left out.

## 3. What TLC checks

Passing runs:

| Run | Configuration, module | Shows | Bounds |
|---|---|---|---|
| `scheduler` | `MCKakaScheduler.cfg`, `KakaScheduler` | `SpawnOrder`, `RequestIdsUnique`, `NoLostWakeup`, `IterationStable`, `AnsweredOnce` | 3 tasks, 2 requests, clock 0..1: two suspended tasks and a third that spawns, answers or is an Invoke handler |
| `scheduler_live` | `MCKakaSchedulerLive.cfg`, `KakaScheduler` | `AnsweredResumes`, `SleeperResumes`, `TimeoutResumes`; `RefinesRequests`: the scheduler implements `Requests` | 2 tasks, 2 requests |
| `replication` | `MCReplication.cfg`, `MCReplication` | `NetIdsUnique`, `ShownIsWatched`, `ClientMirrors`, `NetIdStable`, `ServerOnlyStays` | 1 client, 2 parts, 4 script operations |
| `replication_two` | `MCReplicationTwo.cfg`, `Replication` | `ClientMirrors`, `NoStaleOwner`, `PlayersMirrorConnections`, `JoinCompletes` | 2 clients, 1 part, 3 operations; the Players service may be destroyed |
| `remote_calls` | `MCNetworkEvent.cfg`, `MCNetworkEvent` | `AnswerIsMine`, `Accounted`, `KeepsPromise`: `NetworkEvent` implements `RemoteCalls` | 2 clients, 1 event, 3 calls, every fault |
| `remote_live` | `MCNetworkEventLive.cfg`, `NetworkEvent` | `InvokeReturns`, `FireArrives` | 2 clients, 1 event, 2 calls, 1 Fire; handlers raise, connections are lost |
| `children` | `MCWaitForChild.cfg`, `MCWaitForChild` | `NoChildMissed`, `NoFireMissed`, `AnswerIsWanted` | 2 coroutines, 3 requests, 1 part and its root, 2 names, 1 connection, 2 Fires |
| `runtime` | `MCRuntime.cfg`, `Runtime` | `EventsReachOwner`, `NothingDangles`, `ClientsAreConnections`, `LoopEnds` | 2 peers, 3 transports ever made: attempts that fail and one that succeeds after them, or a second host or connection next to the first |
| `algorithms` | `MCAlgorithms.cfg`, `MCAlgorithms` | one property per family: `ArgsArrive`, `TreesAgree`, `SettingsRead`, `ScriptsAuthentic`, `PrimitivesExact`, `CurveExact`, `SignaturesExact` | about 18,000 inputs, see below |

Why these bounds are enough to be interesting: two parts give a subtree built off
the tree and shown at once, a reparent between parts, and two equal names; four
operations allow show, nest, change, destroy with a client joining before, between or
after any of them; two clients are needed for one to see the other's Player come and
go. `MaxMade` (objects a client can hold) is at least parts plus connections, so that
it never limits. Three calls allow a call inside a handler of a call (client to server to
another client, or back to the same one) with a third beside it, and two requests of one
process with equal and with different ids. The clock needs two values: due and not yet due.
Three requests let one coroutine ask again while its request is open, and again with an
answer ready, and let a stale id (its timer has fired, its child came, or it was given up)
meet a later request, next to another coroutine that waits. `remote_calls`
has no Fires, which ask for nothing; `remote_live` has both.

The pure algorithms. Arguments: all pairs of flat values and tables, nested tables,
unknown instances, and every message cut short. Trees: all trees of up to four instances
with equal names and derived classes; the copies with every choice of archivable parts,
and with locks or none. Settings: all files of up to two items with every mixture of blanks,
comments and line ends, and of up to four items in one style that has them all (no tabs
next to `=`, which `Load` does not trim). The signature library works with
numbers of 255 and 512 bits, which TLC does not have; its modules take the sizes as
parameters, and three kinds of instance are checked:
- small ones computed in full: the ring mod 2^15 - 19 and its fields of ten limbs, an order
  of 24 bits, the curve over the integers mod 101 with its 104 points;
- for loose limbs, the bounds instead of the numbers: each operation maps the bound of
  its operands to the bound of its result, through every formula of `ge.c` (`LimbsFit`);
- at the sizes of the code, what needs no large number: which products are added to which
  coefficient, how large their sum and the multiples of 32 bits before it (2, 19 and 38
  times a limb) can be, which limb each bit is loaded into, masked or not, and packed
  from, the exponent each addition chain computes (`ProductsFit`, `BytesExact`,
  `PowersExact`, `BitsKept`). SHA-512 runs as it is, on "abc" and on the bytes 0 to 111, and with blocks of 8
  bytes on messages of every length around the boundaries.

Violation runs (each one disagreement between the code and what a comment in the
repository says; details with quotations in PROJECT.json, "findings"):

| Run | Property | What happens |
|---|---|---|
| `waitforchild_race` | `FirstAnswerWins` | the child appears and the timer fires in one Tick: the timer's empty answer overwrites the child, `WaitForChild` returns nil |
| `local_player` | `LocalPlayerKnown` | `LocalPlayer` is sent before the snapshot, when the client knows no id: `Players.LocalPlayer` stays nil |
| `client_cycle` | `ClientsSurvive` | a legal sequence of reparents makes a client recurse without end |

More disagreements, which the models have and no run is kept for:
- `PacketSignal.hpp:13` has a packet for an "instance removed from tree", but `Parent = nil`
  sends nothing, so every client keeps the instance: with `"leave"` in `Habits`,
  `ClientMirrors` fails; `client_cycle` builds on it.
- `FilterMode::Server` "means it never leaves the server, da whole subtree included"
  (`ServerReplicator.cpp:44-45`), but `CollectSnapshot` (84-97) tests the NetId: what
  got its id before it was moved below `ServerStorage` is sent to every later client. With
  `"leave"`, `ServerOnlyStays` fails.
- `InvokeServer` and `InvokeClient` are said to wait for a "response/timeout"
  (`NetworkEvent.cpp:76-78`); neither starts a timer. With handlers that raise or are
  missing, the caller waits for good; `InvokeReturns` excepts these calls (`Hopeless`).
- With `"collide"`, `ClientMirrors` fails: two children of `game` with one name become one
  object on a client (`ClientReplicator.cpp:52-60`).
- `Signal:Wait` "suspends current task until next Fire" (`Signal.hpp:14`). Called with an
  answer ready (a nested coroutine of the same task asked before, and was answered), it
  goes on with that answer unless a Fire comes before Tick resumes the task:
  `SuspendCurrentTask` leaves `responseReady` set (`KakaScheduler.cpp:116-118`). The same
  goes for `WaitForChild`. `WaitGetsNextFire` and `AnswerIsWanted` say so (`inherits`).
- A "full datamodel snapshot" (`PacketSignal.hpp:14`) carries no properties, so a client
  lacks each `NetworkOwner` set before it joined or before the instance was shown.
- SXS goes on looping after a failed `HostServer` and after its upstream connection is lost;
  `LoopEnds` claims it of the Client only.

Deadlock checking is off where the bounded operations, requests or connections run out or
the process ends, and a system with nothing to do is no error. The scheduler runs
check it.

### Fairness
`KakaScheduler!Fairness`: the main loop has no exit while the process runs, so Tick
goes on (`WF` on the steps of Tick); the steady clock advances (`SF` on beginning a
Tick at a later time, because a Tick in progress disables it); a script that is
running comes back (`WF` on its outcome), without which a single-threaded,
non-preemptive engine promises nothing. `Replication!FairSpec`: each client keeps
polling (`WF` on `Poll(c)`, stated on `chan`). `NetworkEvent!FairSpec`: server and clients
keep polling (the main loops), and a handler that can run returns or raises; a handler
that waits for a call of its own cannot run, and nothing is assumed of the unreliable
packets. `Runtime!FairSpec`: `main()` goes on (`WF` on its steps); nothing is assumed of
scripts, peers, signals or the library. In `scheduler_live` a coroutine dropped
by `Clear` counts as resolved.

## 4. What is proved

Each theorem holds for every value of the constants: any number of tasks, coroutines,
instances, connections, calls, transports, and any bound on them. It uses the named
assumptions of its modules (`SchedulerBounds`, `RuntimeBounds`, `NetworkEventBounds`,
`WaitAssumption`, `ClientBounds`, `ServerBounds`): bounds are numbers, sets are
finite where the model counts them, `MaxMade` is at least the number of parts and
connections, and the kinds of objects (parts, Players, services, `game`, nil, what a client
makes) are different things. TLC evaluates them in the runs. The inductive
invariants below were checked with TLC on the instances of section 3 before they were proved.

**Scheduler** (`KakaSchedulerProofs`). `TypeCorrect`;
`RequestIdsAreUnique` (strengthened by: every id handed out is below `m_nextRequestId`);
`NoWakeupIsLost`, which needs uniqueness: `FulfillRequest` stops at the first match, so
the id that a waiter list gives up, or a timer consumes, belongs to at most one task, and
that task is then answered (`WakeupAnswered`), while every other step keeps the ids
answerable (`WakeupKept`); `IterationIsStable`. `SpawnOrderHolds`
needs that a task enters `m_pending` or `m_tasks` with a number above all earlier ones, and
that erasing, the sweep and the merge keep the order of what they leave; and that a task
that can still be resumed leaves the lists by `Clear` only (`NextLosesNone`).
`HandlersAnswerOnce`: a handler is answered exactly when it returned.
`SchedulerKeepsContract`: every step of the scheduler is a step of `Requests` or a stutter,
under the refinement mapping.

**Waiting** (`WaitForChildProofs`). `NoChildIsMissed`, `NoFireIsMissed` and `AnswersAreWanted`
from `WaitInv`. Its heart is `WishInv`: where the id of an open request is registered
(`m_waiters`, `m_childWaiters` under a parent and a name, `m_timers`) tells what its
coroutine asked for, whatever ids earlier requests left behind; with ids unique,
whoever answers the ids registered somewhere answers the right wish. A request made with
an answer ready (`inherits`) is answered from the start, with the earlier answer until it is
given one of its own. `SeenInv`
says which children may be there unnoticed, `ConnInv` what each handler has heard.
`WaitTypes` is the type invariant.

**Replication: the server** (`ReplicationProofs`). `ServerInv` describes the server: its tree is one,
with `game` at the root (`TreeInv`); the ids given out are those below `m_nextNetId`,
each to one instance (`IdInv`); what is watched has an id, and its children are watched
unless hidden (`HookInv`); the Player of a connection is nowhere before, in `game.Players`
or destroyed during, and gone after it (`ConnInv`). From it follow `IdsAreUnique`, `IdsAreForLife`,
`ShownStaysWatched`, `PlayersAreConnections` and `ServerTypes` (with: never more ids
than instances). `HiddenStaysOnServer` assumes that scripts do not move shown instances out of
sight (`"leave" \notin Habits`, without which the code sends hidden ids, section 3)
and adds `SightInv`: what has an id is watched or dead, below `game`, and never hidden.

**Replication: the clients** (`MirrorProofs`). `UpToDateMirrors` (`ClientMirrors`),
`OwnersCurrent` (`NoStaleOwner`), `ReplicationTypes` (`TypeOK`) and `NoClientCrashes`
(`ClientsSurvive`), for any number of instances, connections and packets in flight. They
assume `Habits = {}`, without which the code breaks them (`client_cycle` and the list in
section 3), and `Names \cap Service = {}`: scripts give no part the name of a service, which
a client takes for that service (`ClientReplicator.cpp:52-60`). The configurations that check
`ClientMirrors`, `NoStaleOwner` and `TypeOK` meet both. The argument:
- `MirrorsAll(v, f, ...)` says that the object `f[x]` of view `v` stands for the watched
  instance `x`: same id, class, name, parent and place among its siblings; it has an owner
  only if `x` has that owner; and every other object with an id is destroyed, as its
  instance is. Each packet handler is shown to take a mirror of one state of
  the server to a mirror of the next (`AddStep` and its three cases, `DestroyStep`,
  `ReleaseStep`, `NameStep`, `OwnerStep`).
- `Leads(v, s, w)`: the packets `s`, handled in order, take `v` to `w`, and every view on
  the way is well. `OnCourse`: the packets in a client's channel lead it to a mirror of
  the server as it is now. A view in between need not mirror any state of the server, as a
  server step may send several packets; that is why the invariant is about where the
  channel leads and not about the view. A server step appends packets that
  take every mirror of the state before it to one of the state after it (`Passes`); polling
  removes the first packet and leaves the destination (`LeadsTail`).
- Subtrees arrive parents first and siblings in order (`ListStep`, `AddedLeads`). A snapshot
  makes a mirror of a fresh client, and the packets that reach it before the snapshot do nothing
  to it (`FreshDrops`, `FreshIgnores`, `GreetingLeads`).
- `Orderly` adds to the server's invariant that services stay in place and come first and
  that names tell the children of `game` apart (`Civil`). `Orderly /\ MirrorInv` is inductive
  (`MirrorAlways`); a client whose channel is empty is itself the mirror.

`MaxMade`, the number of objects a client can make, is a bound of the model; `ServerBounds`
asks that it is no limit, and `FreeSlot` shows that a new instance then always finds an object.

**Remote calls** (`NetworkEventProofs`). `NetInv` says for every call where it is: what
its caller waits for, which packets on which channels are about it and what its
handler is doing (`JobInv`, `PacketInv`), that a pending id belongs to one call (`AskInv`) and
that a lost connection carries nothing (`LinkInv`). `NetworkTypes`, `AnswersAreMine` and
`CallsAreAccounted` follow, and `CallsKeepPromise`: each step is a step of
`RemoteCalls` for one call, or a stutter.

**Process** (`RuntimeProofs`). `RuntimeInv`, for a process with one replicator at a time:
the transport that is alive is the last one made, it is `s_instance`, and the library is up
exactly while there is one (`OwnerInv`); and the status changes not handed out yet are the difference
between what the library knows of a peer and `m_clients` (`ConnInv`). `StatusReachesOwner`,
`NothingIsStale` and `ClientsAreKnown` follow.

**Trees and lists** (`TreeLemmas`, `ListLemmas`). `Walk` visits an object exactly once, parents
before children, nothing in `skip`, and sees the least set that is closed under
children (`WalkProperties`); `Destroy` kills just that set; `SetParent` outside the subtree
keeps the tree a tree. The library's induction theorems take a predicate as a parameter,
which the provers here cannot instantiate; `UpTo` (induction over a *set* of naturals)
and `RecursionExists` stand in for them, so that recursive functions such as `Walk`
and `KeepIn` can be reasoned about.

Only model-checked:
- all liveness properties (`AnsweredResumes`, `SleeperResumes`, `TimeoutResumes`,
  `InvokeReturns`, `FireArrives`, `JoinCompletes`, `LoopEnds`): proofs under fairness need
  ENABLED, which is out of the prover's reach;
- the pure algorithms. Their definitions of reference are recursive over data
  (RECURSIVE operators), and their properties are evaluations over enumerated inputs.

## 5. Plan

Done: all modules of section 2 and the proofs of section 4.

Open: clients of scripts with `"leave"` or `"collide"` habits, for which the code promises
nothing a theorem could state, and a second connection of one process (section 6).

## 6. Not modelled

- libcurl and file access (`HttpUtil`), logging, vector formulas, rendering (empty files):
  pure I/O, or nothing that changes state.
- The building of sandbox tables (`LuaSandbox`) and the macros and templates that fill the
  class registry: they run once, before any script.
- The precomputed table of the curve (`precomp_data.h`): 1400 lines of numbers of 255 bits.
  `Curve` takes the multiples of the base point as a parameter; that the table holds them
  is not checked.
- `GNSTransport::Kick` and the Kick packet, which nothing calls or sends; `SecretlyHostToo`,
  which nothing passes.
- A process that connects a second time to another server, whose id registry still holds
  the ids of the first (`Instance.cpp:40`), and the memory of instances whose `OnChanged`
  hook keeps them alive (`ServerReplicator.cpp:67`).

PROJECT.json lists the reasons per component, and the hazard no property covers.
