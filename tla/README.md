# Verification of CoppeliaURSim

TLA+ models of the CoppeliaSim plugin `simExtRTDE`, which shows a Universal
Robots arm (or URSim) in a CoppeliaSim scene, with the TLC configurations that
check them and TLAPS proofs of the main results.

## The system

| Part | Source | State | Operations |
|---|---|---|---|
| plugin start, messages, end | `simExtRTDE.cpp` | the error report mode it saved, `jhandles`, the open library | `simStart`, `simMessage`, `simEnd`, static destructors |
| plugin callbacks | `simExtRTDE.cpp` | `plugin_loaded`, `connected`, the client and robot pointers | `simRTDE.init/connect/disconnect/getIO/setIO`, the module-handle message |
| RTDE client | `src/RTDEclient.cpp` | `m_alive`, `m_ircv`, `m_iio`, `m_thr` | `RTDEconnect`, `RTDEdisconnect`, destructor, `getJoints`, `getDigitalIO`, `setDigitalIO`, and `run()` on a thread of its own |
| shared queues | `include/vector_concurrent_queue.h`, `include/basic_concurrent_queue.h` | a deque, a mutex, a condition variable | push, pop, `back` (waits when empty, in the vector queue), `size`, `empty`, `clear` |
| robot state | `include/RobotInterface.h` | joint handles, limits, the three queues | constructor |
| ur_rtde | external library | a connection, the last received packet | constructors, `isConnected`, `getActualQ`, `getDigitalOutState`, `setStandardDigitalOut` |
| sockets | `coppelia/common/socket*Connection.cpp` | descriptors | open and close; send and receive in packets with a header, time-outs |
| shared memory | `coppelia/common/shared_memory.c` | a descriptor, a mapping | create, open, map, unmap, close, destroy |
| stack objects | `coppelia/common/stack/*.cpp` | object trees | build from and onto the simulator's stack, the arrays' and maps' accessors |
| script function data | `coppelia/common/scriptFunctionData*.cpp` | arguments and results, checked against what is expected | write and read, for the caller and for the function called |
| legacy Lua data | `coppelia/common/luaFunctionData*.cpp` | the same, in six buffers with cursors | write and read, for the caller and for the function called |
| loader | `coppelia/common/simLib.cpp` | function pointers | load, resolve and test each name, unload |

Two threads meet in the client. The CoppeliaSim thread runs every callback, one
after the other. A communication thread, started by `RTDEconnect`, reads joint
vectors and outputs from the robot, pushes them into two telemetry queues, trims
those to `buffer_size`, and drains the queue of outputs to set. The two share
the queues (each call locked, sequences of calls not), the flag `m_alive`
(a plain `bool`), and the two `unique_ptr`s to the robot interfaces, which the
CoppeliaSim thread replaces and destroys while the communication thread may be
calling through them. The future `m_thr` is the only place where one thread
waits for the other to end, hidden in an assignment and in a destructor.

What is hard: `back()` and `pop_back()` are two calls; a reconnect runs two
communication threads at once; the flag is set to true and false by both sides;
`connected` survives a new `simRTDE.init`; `RTDEdisconnect` does not wait;
`back()` blocks the CoppeliaSim thread; requests are drained newest first; the
thread works on queues that both their owners give up before anything waits for it
at unloading. The robot's outputs are changed by its own programs as well.

On the CoppeliaSim thread the difficulty is order. Arguments wait on the same
stack that is turned and unfolded to read the ones before them. The writer and
the reader of the Lua buffers count cells apart. `jhandles` grows with every
connect while the scene may have changed or the robot lack joints. `simStart` gives up in several places,
each of which must give the library back. A descriptor closed twice may be
somebody else's by the second time.

### What makes each part correct

* Client: one communication thread at a time; it ends when told to or when the
  link is lost; a connected plugin has one; it never calls a dead interface.
* Telemetry: bounded, never emptied, delivered in order; the scene is a lagging
  mirror of the robot; what `getIO` reports of an output is a state it has taken,
  late, and never older than what it reported before.
* Outputs: every request is carried out, and reported back.
* Callbacks: return.
* Sockets: what is received is what was sent, whole and in order, or a failure is
  reported, and only for a reason.
* Descriptors and shared memory: a part uses and closes only what is its own,
  leaves nothing behind, and both ends mean the same memory.
* Queues: every method is atomic; no wake-up is lost.
* Stack objects: arguments arrive in order with their values; the script finds the
  results the callback pushed, and nothing else.
* Function data: a call's items are delivered, each in its place, or refused as a
  whole and for a reason.
* Plugin life: the library is closed as often as opened, no unresolved function is
  called, the user's error report mode is kept, a thread has its queues for as long as
  it lives, no joint shows another joint's angle.

## Modules

| Module | Models |
|---|---|
| `ConcurrentQueues` | the queue methods as operators on sequences; each call is atomic because it holds the object's mutex throughout |
| `RTDEclient` | `run()` label by label (`wpc`), `RTDEconnect` and `RTDEdisconnect` statement by statement (`main`), the interfaces and the robot behind them |
| `SimExtRTDE` | the callbacks, composed with `RTDEclient`; properties and inductive invariants |
| `AtomicQueue` | abstract specification of a shared queue: each method takes effect in one step between call and return |
| `VectorConcurrentQueue`, `MCVectorConcurrentQueue` | the mutex, the condition variable and the deque, one access per step; implements `AtomicQueue` |
| `MessageTransfer` | abstract specification of a socket connection: whole, once, in order, or a failure |
| `SocketConnection` | one direction of `CSocketOutConnection` and `CSocketInConnection`: packets, reading loops, time-outs; implements `MessageTransfer` |
| `JointMirror` | abstract specification: the scene shows joint vectors of the robot, late, possibly skipping some, never going back |
| `PluginLife`, `MCPluginLife` | `simStart` with the loader, `simMessage`, `simEnd`, the destruction of the statics, handles of joints across scenes; the client reduced to its thread and its share of the queues |
| `SimStack` | CoppeliaSim's script stack as the library uses it (external) |
| `StackObjects` | the classes of `common/stack` as values, and their methods |
| `ScriptCall`, `ScriptCallValues`, `MCScriptCall` | one call of a plugin function: `buildFromStack`, the callback, `buildOntoStack`; what the script sees of it |
| `FunctionContract`, `FunctionCall` | when half a function call can be delivered and how each item is received; abstract specification of that half: delivered item by item, or refused |
| `FunctionDataItem` | arguments and results, alike in both classes |
| `ScriptFunctionData`, `LuaFunctionData` | a function call over a script stack, and over the buffers of `SLuaCallBack` |
| `FunctionData`, `MCFunctionData` | a call over either; both halves of both implement `FunctionCall` |
| `Descriptors` | the descriptor table of a process (external) |
| `SocketHandles` | how both socket classes open and close descriptors, with every call that may fail |
| `SharedMemory` | both ends of a shared memory, in any order of calls, with a server that restarts |
| `Handles` | the last three and the rest of the process, sharing one table |
| `Sequences_proofs` | lemmas: queue operations, induction along the numbers, recursions, flattened sequences |
| `SimExtRTDE_proofs` | theorems about plugin and client: joining, telemetry, mirror; then outputs, answers and the session |
| `FunctionData_proofs` | theorems about `FunctionData`: a call over the stack, then over the buffers |
| `ScriptCall_proofs`, `VectorConcurrentQueue_proofs`, `PluginLife_proofs`, `SocketConnection_proofs`, `Handles_proofs` | theorems about the module named, and lemmas |

### Correspondence

`RTDEclient` extends the queues, `SimExtRTDE` extends `RTDEclient`. Interface
objects, futures and threads are named by the number of the `RTDEconnect` call
that created them; `Null = 0` is the empty pointer. A joint vector is the number
of its arrival. A state of an output is the number of changes before it, the odd
ones being high, and a snapshot is a tuple of them: so two states with the same
signal differ, and a stale one shows. `out` is changed by programs of the robot and
its operator (`OutputChanges`), at any time and in both directions, and by the
plugin (`Driven`), which can only set; `seen` is what the last packet said. The
script gets the signal, `High(answer)`.

A call through an interface pointer takes two steps: `LoadInterface` reads the
pointer, then either the call returns from a living object, or the object was
destroyed in between (`DanglingReturn`). Reaching undefined behaviour (null or
dead interface, `back`/`pop_back` of an empty deque, a read through the null
pointer of a vector that never held anything, a call through `m_rtde` once that is
destroyed) is recorded in `fault`; nothing is claimed of the program afterwards, so
`Next` requires `fault = "none"`. Indexing a snapshot or a non-empty `jhandles` out
of bounds instead yields an arbitrary value. The destructor of `RTDEclient` takes
three steps after `RTDEdisconnect`: `DestroyRtde`, then `DestroyThread`, which waits;
a thread that calls a queue between the two may find it (`RobotInterface` holds it,
too) or not (`ReleasedAccess`). `m_alive` is read and written by two threads without
synchronisation; every access is separated by opaque calls (locks, socket
reads), so a build reloads it each time, and the model takes each access as one
step. A new client's `m_alive` is uninitialised: an arbitrary boolean.

`VectorConcurrentQueue` gives every thread a label `pc` in the method it is in.
The access to the deque is one step apart from the test that guards it, so the
mutex is what keeps them together; `wait` frees the mutex and falls asleep in one
step, may wake for no reason, and returns to the test. `Status` maps the labels
to the abstract phases: the access is where a method takes effect. An empty
deque asked for an entry answers `undefined`, which no run reaches. The plugin
calls neither `push_front`, `at`, `pop_back` nor `clear` of this class; they are
there because they share the lock and the condition variable.

`SocketConnection` models both classes at once, since they send alike and
receive alike: `receiver` says whose clock and whose `select` apply. The stream
holds records, one per byte, that say whether they are header or payload; a
`recv` takes any number of those that are there and wanted. `got`, `header` and
`receivedData` are the locals of `_receiveSimplePacket` and its caller, `began`
is the only history variable. The records also say to which message and place a
byte belongs; properties and invariants look at that, no receiver does. A receiver out of step is told header from payload
by the records, so a payload that happens to contain the identification bytes
where a header is expected is not covered. Messages of more than 65536 packets,
whose count does not fit the header, are excluded by `SocketAssumption`: they
arrive cut. `MaxPacketSize > HeaderLength` is needed too; the constructors do
not check it, and with less room the sending loops do not end. A read that
times out is reported by the server as an error (-1), where the comment at
`socketInConnection.cpp:74` says 0; the model has one kind of failure.

`PluginLife` has the life of the plugin in `plugin`: bound to the library in
steps, each of which may leave, running, and taken down in the order of the code
(`SimEnd`, `DestroyRobot`, `DestroyClient`, `Unload`, which waits). A function pointer
is `null`, `own` (the default of `simAddLog`) or `sim`; `exports` is one of the sets of
functions a version of CoppeliaSim may have (`Libraries`). The `CalledBy` sets are all
the functions of CoppeliaSim that the plugin's own code calls, among them those of the stack
classes the callbacks use; of what nothing calls (see below) they have none. The thread
appears only as `thread`, which may end at any time, `telemetry`, whether a joint
vector has arrived, and `holders`, the objects that share the queues:
`RobotInterface` and the client. A push into queues nobody holds is a fault. A
handle names a joint of a scene; a new scene has a robot with one of the numbers of
joints in `Robots`. A handle of an earlier scene names nothing. An index past the end
of `jhandles` yields a number that may name any joint or none (`Named`), and a fault only
if the vector never held anything. A call through a null pointer is a fault. `simMessage` saves and replaces the
error report mode on entering and restores it on leaving; it is two steps, since
the module-handle message may have to wait for telemetry in between.

In `SimStack` a number is counted in halves, so that a fraction exists to be
lost; a conversion to `float` rounds to its 24 binary digits, ties to even; and a string is a sequence of characters in which `NUL` may occur.
`StackObjects` has the methods `CStackMap` repeats for each key type once, with
the key `<<"str"|"int"|"bool", k>>`; a `simBool` is an unsigned char, so the keys
true and false of a script's table go to the overload for int. Objects are
values: who owns and deletes a child is not seen. Where a method goes on to the
objects inside its object, it uses a constant (`CopyEntry`, `BuildEntry`,
`BuildEntryOnto`), which `MCScriptCall` gives the operator itself for its value; this
is the code's recursion, and leaves the modules open to proof.
`ScriptCall` goes through the phases `test` (are all arguments numbers?),
`read`, `body`, `write`; its callbacks are the plugin's five and two that stand
for any plugin that uses the library: `echo` takes its arguments apart and
returns them, `build` calls the array's methods in any order.

`ScriptFunctionData` and `LuaFunctionData` each have one pair of loops used for
the arguments (`"in"`) and the results (`"out"`), where the code has the same
functions twice or calls a shared one twice. In the buffers a cell is a value,
a character, or the `NUL` behind a string; `p` is `SLuaCallBack`, `counts` what
the counting loop found. `FunctionCall` has one difference between the two,
`converts`: over the stack a number fits any numeric type and a string a buffer.

In `Descriptors` a new descriptor has the lowest free number, as POSIX has it,
which is what makes a number closed twice dangerous. `lapses` records what the
code does that loses a descriptor or a mapping, so that the properties can say
what holds without it: they name the ways, and there is no other.

Faulty variants of some definitions stand in front of them, marked `Faulty:`;
each breaks a property and shows that the property depends on that line.

## Runs

| Run | Question | Result |
|---|---|---|
| `Session` | one connect, link may drop, every callback but disconnect, while programs of the robot set and clear outputs | no fault; connected means served; the scene mirrors the robot; each answer of `getIO` is a state the output has taken, none older than the one before |
| `Reconnect` | two inits and two connects in any order with disconnects and lost links | threads are joined, queues bounded and never emptied, a lost link stops the thread, what waits for a thread returns |
| `Live` | link holds | callbacks return, requests drain, each change of an output is reported |
| `StaleConnected` | violation | init while connected, then a simulation step: blocked for good |
| `ReconnectRace` | violation | connect after a lost link leaves a connected plugin without a thread |
| `LostRequest` | violation | a `setIO` between `back` and `pop_back` is lost |
| `Queue` | three threads in all methods of the vector queue | an atomic queue; a sleeper beside an entry always has a thread on its way, unless another thread only looks |
| `Socket` | one direction of a connection, both receivers | whole messages in order until a failure, tails at most afterwards; a receive fails for a reason; what is sent arrives |
| `Plugin` | the plugin from loading to unloading, libraries that lack functions, scenes that change, with a whole robot or none | the library is held while needed and given back, nothing null is called, the error mode is kept, a thread has its queues until `simEnd`, each joint has its own angle |
| `Data` | every kind of script value through the stack classes and the callbacks | arguments arrive in order, well-formed calls reach the client, results are what was pushed, values taken apart and put together are the same |
| `FunctionData` | function calls over the stack and over the buffers | both implement `FunctionCall` on the way in and out; the buffers are filled to the cell |
| `Handles` | sockets, shared memory and the rest of a process take descriptors from one table | what is owned, what is left behind, and that both ends mean the same memory |

A second connect while connected waits for the old thread as long as the link
holds; `RTDEclient.cpp` does not say otherwise, so `JoinsReturn` claims a return
only for init, and for connect once the link is lost. `Patient` has one excuse
for the client: its start time is an `unsigned short`, and past the range of that
type, which is where a real clock nearly always is, it gives up whenever a read takes
two calls. `NumbersOwned` claims nothing once a `connect` has failed; `NothingLeft`
excuses the ways to lose a descriptor or a mapping that it names, of which a failed
`connect` is none. `AnswersLag` and `AnswersOrdered` speak of each output by itself;
a snapshot may combine outputs of different packets. They say nothing of numbers past
the snapshot, for which `getIO` answers anything, and `setIO(256)` drives output 0.
Colliding keys of maps are outside of `ArgumentsInOrder`,
`ResultsAsPushed` and `Echoed` (`Plain`).

### Bounds

`BufferSize` is 2 where the code has 5, `NIO` 1 or 2 where it has 8, `Dofs` 2
where it has 6: the smallest values at which a queue is trimmed while it keeps
an entry, a snapshot can mix two states, and a joint can be given the angle of another.
The theorems hold for all values. `MaxConnects`, `MaxInits`, `MaxRequests`,
`MaxMoves` and `MaxChanges` bound the script and the robot; in `Session` an output
that begins low may be set, cleared and set again, the last time by the plugin, and
the script speaks of one output, under a number that wraps to it (`IoIds`); two connects are needed for two
threads, and the join admits no third (`Joined`).

In `Queue` each thread makes three calls, enough for two pushes against a sleeper
and a taker, and one wake-up is spurious. In `Socket` a header has two bytes and
a packet holds two more, so messages take one and two full packets; the clock
has eight values, four of which fit the short start time, and a behaviour starts
at any of them and crosses the wrap.

In `Plugin` two scenes and three connects let handles of two scenes follow one
another in `jhandles`; the names are those the plugin calls and `simAddLog`, and any
one or two of them may be missing, which is enough to tell the tests apart, since each
looks at one pointer. In `Data` every value is
passed alone and beside every other, which is what an unfolded table or a turned
stack can disturb, and a few lists have three and four; tables nest twice. `build`
makes three calls, enough for numbers, a cache of ints and an object that must be
refused. `FunctionData` has each item against each expectation, then pairs and
threes for the cursors; texts with a `NUL` go over the stack only, since in the
buffers they shift what follows, as the hazard says. In `Handles` three
descriptors let a number freed by one part be taken by another; two objects are
needed for a memory created anew; each behaviour has lapses of one kind, since the
properties speak of them kind by kind.

Deadlock is checked in `Data` and `FunctionData`, where a call must come to its end,
and in `Handles`. Elsewhere the system may stop: a script stops calling, the plugin
is gone, `fault` ends all, or nothing more is sent over a connection.

Fairness (`LiveSpec`): each communication thread and the rest of a begun
callback run when they can (the scheduler), and packets keep arriving while the
link is up. In `VectorConcurrentQueue` threads inside a method go on, which with
bounded calls is enough to get the mutex; in `SocketConnection` the sending loop
and the receiver go on, the receiver being called again for each message. Nothing forces a script to call or a link to fail.

## Proved for all constants

From the assumptions that `BufferSize > 1`, `NIO <= ByteRange` and the bounds,
`MaxChanges` among them, are naturals (`SizeAssumption`, `BoundAssumption`, `PluginAssumption`), for the plugin
and its client:

* `TypeCorrect`: `Spec => []TypeOK`.
* `Joined`: `Spec => []WorkersJoined`. `JoinInv` adds that a connect that has not
  joined is newer than the thread `m_thr` stands for, which keeps `Launch` from
  restarting a thread that still runs.
* `TelemetryKept`: `Spec => TelemetryStays`. `TrimInv` says that one thread about
  to trim has `BufferSize` entries in front of it and two have one more; with at
  most two threads (`Joined`) a pop leaves at least one entry. This needs
  `BufferSize > 1`: with 1 two threads can empty a queue.
* `Bounded`: `Spec => []QueuesBounded`.
* `Mirrored`: `~Reconnects => (Spec => MirrorSpec)`, a refinement (run `Session`). `MirrorInv`
  orders the scene, the back of the queue, the vector a thread holds, and the
  robot. Without the premise it is false: after a reconnect that races a lost
  link, a vector sampled earlier can be pushed later.

For the vector queue, from `QueueAssumption` (finitely many threads, bounds in the
naturals):

* `QueueTypeCorrect`: `Spec => []TypeOK`.
* `Locked`: `Spec => []LockInv`. Whoever tests or reads the deque holds the mutex,
  and sleepers are where `wait` left them; so an entry seen is still there.
* `Linearizable`: `Spec => AtomicSpec`, for any threads and calls. `LockInv` gives
  the guard of the abstract step; `SameOperations` says that the instance means
  the same operators. This is what allows the client modules to call queues in
  one step.

For the life of the plugin, from `LifeAssumption` (`Dofs > 0`, the table of names
holds what the plugin calls):

* `Held`, `Bound`, `Kept`, `QueuesKept`: `Spec => []LibraryHeld`, `NoNullCall`,
  `ErrorModeKept`, `QueuesHeld`, for any set of libraries, any number of joints, scenes
  and connects. All follow from `LifeInv` (`Life`), which adds: the pointers are bound
  once tested; while a message is handled the saved mode is the wanted one; calls and
  threads exist only while the plugin runs, a thread also until it is unloaded; and
  once there may be a thread, `RobotInterface` holds the queues until it is destroyed
  or replaced, which waits for the thread (`HoldInv`). That they are held after `simEnd`
  is false: see below.
* `Angles`: `Robots \subseteq {0, Dofs} => (Spec => []OwnAngle)`: the robot of each
  scene is whole or missing. `HandleInv` then says that `jhandles` is empty or begins with a
  whole robot, whatever was appended since; handles of earlier scenes name nothing. Without
  the premise it is false, and with `Robots = {1, 2}` TLC finds in a moment how: see
  below.

For what the script asks and is told, again for the plugin and its client:

* `Lagging`: `Spec => []AnswersLag`, for any inits, connects and threads, and
  whatever the robot's programs do to its outputs. `ReportInv` says that nothing is
  ahead of the robot: not the packet, nor a snapshot half taken, nor the queue, nor the
  answers.
* `Ordered`: `~Reconnects => (Spec => AnswersOrdered)`. `StandInv` says that what has
  been reported, or would be now, is no later than what may be reported next: the
  snapshot being taken, the packet. Two threads may push snapshots in the
  wrong order, hence the premise.
* `Faultless`, `Served`: `OneSession => (Spec => []NoFault)`, `[]ConnectedIsServed`.
  `OneSession` is one init, one connect that creates a thread, no disconnect, and
  a scene with at least one joint of the robot: run `Session`. Without it both are
  false: a disconnect resets interfaces that the thread still calls, without any handle
  `jhandles` is read through a null pointer, and a reconnect can leave the plugin
  without a thread (run `ReconnectRace`). Within it connects may fail and the link may drop at any time. `SessionInv` needs
  what a thread relies on between two calls: a pointer it has loaded is the one
  still held (`PointersInv`), the request it found is still there (`TargetInv`),
  and `m_alive` and the thread agree as long as the link is up (`ServedInv`).

For the vector queue also `NoWakeupLost`: `Spec => []WakeupsSuffice`. Each step
that adds an entry adds a thread to tell of it, and each that ends a telling wakes a
sleeper or finds none; `SleepInv` says that a thread falls asleep only to wait for an
entry and only on an empty deque. The counting needs the finite threads of
`QueueAssumption`.

For one direction of a connection, from `SocketAssumption` (packets have room for
payload, a header has at least two bytes, the counts of packets fit their field):

* `SocketTypeCorrect`: `Spec => []TypeOK`.
* `NeverImpatient`: `Spec => Patient`.
* `TransferKept`: `Spec => TransferSpec`, a refinement, for any sizes of packets and
  messages, any splitting of the stream by `recv`, any failures.

All three follow from `SocketInv` (`SocketInvariant`). `TransferSpec` speaks of
messages, the code of bytes wanted next; what connects them is the whole wire, that
is the bytes the receiver holds and those under way. `WireInv` says that a header on
it starts a packet as sent, followed by its message's next packet or by the next
message; `StepInv` says where a receiver that is in step stands, and that even one
out of step after a failure reads the payload of a single packet; `TogetherInv` says
that what it has put together is a gapless part of one message. Reading moves
the boundary inside the wire, sending appends to its end, and one lemma for each
(`WholeMoved`, `WholeSent`) carries the packets over.

For descriptors and memory, with any number of descriptors, objects and lapses:

* `NoStrangersNumber`, `NoneLeaked`, `OneMemory`: `Spec => []NumbersOwned`,
  `[]NothingLeft`, `[]SameMemory`. `HandlesInv` adds that each part knows the number
  of every descriptor it owns, as long as the lapse that breaks this has not happened
  (`ClientKnows`, `ServerKnows`, `EndsKnow`), and that a name stands for what its
  users have open (`NameOpen`). The least free number exists because numbers are
  well-founded (`LeastNumber`). The proof also showed that a failed `connect` leaves
  nothing behind, so `NothingLeft` no longer excuses it.

For a function call, from `CallsAssumption` (the calls are made of items the
constructors can make, and no string with a 0 inside goes over the buffers, where it
would be cut), with any number of arguments and results, of any types, values and
expectations:

* `ArgumentsDoArrive`, `ResultsDoArrive`: `Spec => ArgumentsArrive`,
  `Spec => ResultsArrive`: each half of a call over either transport implements
  `FunctionCall`.
* `BuffersAreExact`: `Spec => []BuffersExact`.

All three follow from `Invariance`: `Spec => []Good`. `FunctionCall` answers in one
step, the code after many; what connects them is that at every step the data in
transit is what is written and not yet taken. Over the stack (`ScriptInv`) that is
the stack itself: the items written so far, or those left, the next one lowest; the
items taken are what the contract receives (`HasRead`), and each either passes and
fits or ends the call as the contract does (`ReadArgumentReads`). Over the buffers
(`LuaInv`) it is a layout, `EndOf`: the cell where each item ends in the buffer of
its type. The counts are the ends of the items counted, the buffers hold each item
filled in at its place, and each cursor is the end of the items taken.

For the call of a plugin function, from `CallAssumption` (the arguments are
sequences of script values), with any arguments, and whatever is made of the
entries of a table:

* `CallsAreDispatched`: `Spec => []Dispatched`. In `ArgumentsInv` the stack after k
  turns is the arguments from k + 1 on, then the first k; while they are read, as
  many objects are there as turns, and those up to the first table mirror their
  arguments (`Mirrors`). Nothing is assumed of what reading that table leaves on the
  stack: an array or a map stays one while its entries are read
  (`ReadEntriesTyped`), and no callback accepts either, so what follows does
  not matter.
* `ArraysAreUnmixed`: `Spec => []ArraysUnmixed`, by `ResultsUnmixed`, for any calls
  on an array.

Tables, strings and layouts are defined by recursion along the numbers. The
library's induction theorems cannot be instantiated, so `Sequences_proofs` states
induction for sets: a set with 0, and with each successor up to n, has the
numbers up to n (`InductionUpto`, from `LeastNumber`). It yields that recursions
have solutions (`Iterated`) and agree if they begin and go on alike (`SameUpto`);
`FlattenFacts` says where the parts of a flattened sequence lie.

## Only model-checked

* Liveness (`LinkLossStops`, `JoinsReturn`, `CallbacksReturn`, `TargetsDrain`,
  `OutputsReported`, `SleeperServed`, `Arrives`), which needs `ENABLED`.
* `ArgumentsInOrder`, `ResultsAsPushed` and `Echoed` in `ScriptCallValues`. They
  compare trees of values at every depth, with recursive operators, after which
  the prover has no SMT backend; a proof would be an induction over the depth.

## Where the code falls short

Three findings have runs of their own: `StaleConnected`, `ReconnectRace` and
`LostRequest`. Three more show as the limits of what is claimed:

* `setIO(id, false)` drives the output high. `simExtRTDE.cpp:404` registers the
  parameters `(number IO_id, bool IO_signal)`; the queue carries the number alone and
  `run()` drives it with `true`, as the comment at `RTDEclient.cpp:111` admits. No
  property says that what is driven was asked for.
* At unloading both owners of the queues go before anything waits for the thread:
  `ptr_robot_interface` (`simExtRTDE.cpp:37`) before `ptr_rtde_client` (line 36), and in
  that `m_rtde` (`RTDEclient.h:61`) before `m_thr` (line 60). `run()` then pushes into
  freed queues. In the model `Telemetry` reaches the fault `released`; `QueuesHeld` is
  claimed up to `simEnd` only.
* A connect whose robot lacks joints leaves its handles in `jhandles`, since the result of
  `simExtGetRobotHandles` is ignored (`simExtRTDE.cpp:232`); the next connect appends a whole
  robot behind them, and joints are given other joints' angles. Hence the premise of
  `Angles` and the `Robots` of run `Plugin`.

## Not modelled

* `simConst.h`, `simTypes.h`, `_dirent.h`, `CMakeLists.txt` and the example scene:
  declarations, a Windows stand-in for a system header, a build and a scene. The
  prototypes in `simLib.h` are those of the functions `PluginLife` binds by name.
* The Windows and Qt branches of the sockets, shared memory and loader.
* `toString`, the names of types, and the texts of error messages.
* `getIP` and `getConnectedMachineIP`, which yield an address and change nothing;
  `simExtGetJointPositions`, `simExtGetJointVelocities` and
  `simExtSetJointPositions`, which nothing calls; the empty methods of
  `RobotInterface`.
* CoppeliaSim and ur_rtde: modelled as the code uses them, when they throw or fail
  only where the code looks.
* Ownership of stack objects: `setArray(key, getArray(key))` on a map deletes what
  it stores, which values cannot show. Second calls with one `CScriptFunctionData`
  or `CLuaFunctionData` object, which keep the first call's results.
* `FD_SET` of descriptor -1 after a failed `accept`, and messages of more than
  65536 packets.
* What a thread does with queues after they were freed, and what `ur_rtde` does with
  an output number the robot does not have: taken to change nothing.
* Subnormal, infinite and undefined floats.
* Whether the robot of a new scene moves after a reconnect: `jhandles` still begins
  with the first scene's handles. `OwnAngle` claims only that no joint is wrong, and only where robots are whole or missing.

## Plan

Done: client, callbacks and queues with their theorems; `VectorConcurrentQueue`
refined to `AtomicQueue`, with proof; `SocketConnection` refined to
`MessageTransfer`, with proof; `PluginLife`, with proof; stack objects and script calls, with proof of
what does not look into tables; function data, twice refined to `FunctionCall`, with
proof; descriptors, sockets and shared memory composed, with proof.

Proofs: every safety property that a passing run checks of the client, the callbacks,
the queues, the plugin's life, the sockets, the handles and the function data is a
theorem, some under the premises stated above, and so are two of
the five about the call of a plugin function.
