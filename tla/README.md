# ipcgull in TLA+

ipcgull lets a C++ program publish objects on D-Bus: a tree of *nodes*, each
with *interfaces* (tables of functions, properties and signals), behind a
*server* that owns a bus name and runs a main loop. This directory holds
TLA+ modules of the parts of the library in which something can go wrong that
a test would hardly reach, TLC configurations that check them on small
instances, and proofs, checked by TLAPS, of what holds for every instance.

All paths below are relative to `src/` of the repository unless they say
otherwise.

## 1. Inventory

| Component | Code | State | Operations |
|---|---|---|---|
| node hierarchy | `src/node.cpp`, `include/ipcgull/node.h`, `node::tree_name` in the back ends | `_name`, `_parent`, `_parent_it`, `_children`, one `_hierarchy_lock` per tree | `make_root`, `make_child`, `~node`, `full_name`/`tree_name` |
| interface table and owner | `src/node.cpp`, `node.h`, `src/interface.cpp` | `_interfaces`, `_servers`, `_managing` of a node, `_owner` of an interface | `make_interface`, `drop_interface`, `add_server`, `drop_server`, `manage`, `emit_signal`, copying and moving an interface, `~interface`, `~node` |
| registrations of the D-Bus server | `src/server_gdbus.cpp` 53-76, 906-980 | `nodes` (path to weak node and registered names), `object_path_lookup`, `server_lock` | `add_interface`, `drop_interface`, `set_managing`, `~server` |
| running the D-Bus server | `src/server_gdbus.cpp` 572-600, 982-1078 | `main_loop`, `owns_name`, `stop_requested`, `run_lock` | `start`, `stop`, `stop_wait`, `stop_sync`, `running`, `reconnect`, the name handlers |
| running the stub server | `src/server_stub.cpp` 32-39, 108-144 | `running`, `state_change`, `cv`, `run_lock` | `start`, `stop`, `stop_wait`, `stop_sync`, `running` |
| dispatch | `src/server_gdbus.cpp` 301-570 | none of its own | `gdbus_method_call`, `gdbus_get_property`, `gdbus_set_property` |
| properties | `include/ipcgull/property.h`, `src/property.cpp` | the value, shared with the interface's copy, its lock, permissions, validator | read, assign, `get_variant`, `set_variant` |
| variants | `include/ipcgull/variant.h`, `src/common_gdbus.cpp`, `server_gdbus.cpp` 78-298 | the `std::any` of a `variant_type`, and what it points to | conversions; construction, copies, moves, assignments and destruction of a `variant_type` |
| functions, signals | `include/ipcgull/function.h`, `signal.h`, `interface.h` 90-113 | none | argument checks, call, emission |
| introspection | `src/server_gdbus.cpp` 607-771 | none | C structures for GDBus |
| exceptions, connection modes, sample program, build | the rest | | |

### How they interact

* A client holds `shared_ptr`s to nodes, interfaces and the server. Among
  themselves these hold `weak_ptr`s only, so that every cross reference may
  fail to lock, at once when the last `shared_ptr` goes, while the destructor
  that tidies up behind it runs later.
* A node calls into its servers: `add_interface`, `drop_interface` per
  interface, `set_managing`, `emit_signal`. The server asks the node for its
  path (`full_name`), which walks up the tree under the hierarchy lock.
* An interface calls its node when it is destroyed; a node calls its server and
  edits its parent and its children when it is destroyed.
* GDBus calls the server in the thread that runs the main loop: to dispatch a
  call, and to tell it that the bus name was acquired or lost.
* Any thread may call any function of the server; `server_lock` protects its
  tables, `run_lock` is held during a run, `owns_name`, `main_loop` and
  `stop_requested` are atomics. A node has no lock except for the tree.

### What is hard, and what would make it correct

* **Destruction of nodes in any order, in any thread.** The tree must stay
  consistent; a node must keep its path when its ancestors go; the
  registrations must be withdrawn under the path they were made under.
  *NodeTree*: `LinksAgree`, `PathLocal`, `ExportsTracked`, `LockReleased`,
  `NearerToRelease`.
* **The node's table, the owner, the server's table and GDBus are changed one
  after the other**, with failures in between. They must agree again when the
  call is over. *Registry*: `Answered`, `Published`, `OwnerAgrees`,
  `WithdrawnAtEnd`.
* **Raw addresses as keys** of the objects that nodes manage, with objects that die
  and are born again at the same address. *Managed*: `ManagedResolves` (and
  `ManagedUnique`, which fails).
* **Starting, stopping and losing the name at the same time.** One run at a
  time, none that ends by itself, none that goes on when it was asked to end,
  and no lost wake-up. *ServerRun*, *StubServer*: both implement *RunControl*;
  `NameLossStops` and `NameLossEndsRun` in the former, `WakeUpComes` in the latter.
* **Two locks, `server_lock` and the lock of the tree, taken in both orders**, with
  clients' handlers running under the first. *Locks*: `HandlerExclusive`,
  `DeadlockNeedsDtor`.
* **One value, several property objects and two sides** (the bus and the program)
  that read and write it. *Property* implements *AtomicValue*; and `WholeValues`,
  which fails when properties are assigned from each other.
* **One reply per call, and a true one**, although the arguments may be anything,
  one exception class stands for several errors, and the handler may throw.
  *Dispatch*: `OneReply`, `ErrorsTell`, `SetExact`.
* **Two descriptions of a type**, the C++ type from which the introspection data is
  made and the alternatives of a variant that conversions choose. They must agree for
  every nesting. *Dispatch* on *Variants*: `AdvertisedAccepted`, `HandlerGetsSent`,
  `SendsFaithful`, `SignalsAdvertised`.
* **Ownership that shows only in the pointer type of a `std::any`.** *VariantType*:
  `SoleOwner`, `LossesKnown`, and `Values`, the refinement of *TypeValue*.

`PROJECT.json` lists every hazard at the line where it bites, with the
properties that watch it or the reason why there is none.

## 2. Modules

| Module | Extends / instances | What it is |
|---|---|---|
| `NodeTree` | `Naturals`, `Sequences`, `FiniteSets` | the tree of nodes, one step per access under the lock |
| `NodeTreeProofs` | `NodeTree`, `SequenceTheorems`, `FiniteSetTheorems`, `TLAPS` | its theorems |
| `Registry` | | node tables, owners, server tables; one step per server call |
| `RegistryProofs` | `Registry`, `TLAPS` | its theorems |
| `Managed` | | managed objects and the table of their paths |
| `Variants` | `Sequences`, `Naturals` | the conversions, as operators on labelled trees |
| `Dispatch` | `Managed`, `Variants` | calls from the bus and signals to it, while managed objects change |
| `DispatchProofs` | `Dispatch`, `WellFoundedInduction`, `SequenceTheorems`, `TLAPS` | theorems of `Managed`, `Variants` and `Dispatch` |
| `TypeValue` | | abstract: a `variant_type` is a value |
| `VariantType` | instances `TypeValue` | who frees what |
| `VariantTypeProofs` | `VariantType`, `TLAPS` | its theorems, the refinement among them |
| `RunControl` | | abstract: what start, stop and stop_wait promise |
| `ServerRun` | instances `RunControl` | the D-Bus server's run, one step per shared access |
| `ServerRunProofs` | `ServerRun`, `TLAPS` | its theorems, the steps of the refinement among them |
| `StubServer` | instances `RunControl` | the stub's run |
| `StubServerProofs` | `StubServer`, `TLAPS` | its theorems, likewise |
| `Locks` | | `server_lock` and the hierarchy lock in every function of a node |
| `LocksProofs` | `Locks`, `TLAPS` | its theorems |
| `AtomicValue` | | abstract: what "properties are atomic" promises |
| `Property` | instances `AtomicValue` | the value and the lock of properties, two steps per access |
| `PropertyProofs` | `Property`, `TLAPS` | its theorems, the refinement among them |
| `MC*` | the module of that name | instances for TLC |

### NodeTree

`life[n]` keeps apart what C++ does in two moments: a node is `"expired"` from
the instant its last reference goes (no `weak_ptr::lock` succeeds) until its
destructor is over. `name`, `parent` and `children` are the members; the
iterator `_parent_it` is represented by the rule that a node sits in the list
of its `_parent`, which is what `LinksAgree` verifies. `exported[n]` is the set of
paths under which the server has registrations of `n`. A path is the sequence
of its segments, so that `up + "/" + down` is concatenation; after an adoption
`_name` has several segments. An empty name of the root, which `full_name`
treats specially, is left out.

| Action | Code |
|---|---|
| `MakeRoot`, `MakeChild` | `make_root`, `make_child` (no lock) |
| `Release` | the last `shared_ptr` goes, `~node` waits for the lock |
| `EnterDtor` | `~node` has the lock, leaves its parent's list, calls `full_name` |
| `BeginExport`, `WalkUp`, `WalkDone` | `tree_name` one level at a time, and what the path is used for |
| `AdoptChild`, `SkipChild` | one round of the loop over the orphans |
| `LeaveDtor` | the end of `~node` |

A `lock()` in the code makes a temporary reference; that this could be the last
one is left out: the destructor it would then run, in the same thread and under
the same recursive lock, is a `Release` of that thread after its call. Such a
destructor would wait for `server_lock` in the middle of the walk or the loop: what is
said below of the end of both is for programs in which it does not happen.

### Registry

The path of a node is fixed here (`PathsKept` says when it is), and two nodes may
have the same one if they do not exist at the same time. `ifsOf[p]` and
`entryNode[p]` are an entry of `internal::nodes`; GDBus's registrations change
together with `ifsOf` in every function. Every server function runs under
`server_lock` and is one step. The node functions that call it are not: `call[t]`
holds what thread `t` has done of its present one, so that failures, other
threads and observers fall between any two server calls.

| Action | Code |
|---|---|
| `CreateNode` | `make_root`, `make_child` (which passes the servers on) |
| `BeginMake`, `AddOne`, `AddFails`, `FinishMake` | `make_interface` |
| `BeginAddServer`, `AddOne`, `AddFails`, `Withdraw`, `FinishWithdraw`, `FinishAddServer` | `add_server` with its rollback |
| `BeginDropServer`, `Withdraw`, `FinishWithdraw` | `drop_server` |
| `BeginDrop`, `DestroyIface`, `Withdraw`, `FinishDrop` | `drop_interface`, also from `~interface` |
| `DestroyNode`, `Withdraw`, `FinishDestroy` | `~node` |
| `CopyIface` | the copy and move constructors of `interface`, whose result has no owner |
| `DestroyServer` | `~server` |

A node has no lock, so two threads that call into the same node at the same time
race: `Usable` excludes that, as the library leaves it to the client.
`Lookup(p, i)` is what the three callbacks find for a call from the bus, as far as
they are the same: path, node, name, interface. `Answered` is about it.

`make_interface` with a name the node has is refused before anything changes
and is therefore no step. There is one server, the most a process may have.

### Managed

A node is its path here, and all its interfaces are one Boolean, `entry[p]`:
whether `internal::nodes` has the path. `lookup` is `object_path_lookup`, keyed by
address; `objects` are the addresses at which there is an object. A weak pointer
to an object that dies becomes `NoObject` in the same step, the key in `lookup`
stays. `node::manage` assigns `_managing` under no lock and then waits for
`server_lock`, hence two steps.

| Action | Code |
|---|---|
| `CreateNode`, `AddServer`, `Expire`, `FinishDestroy` | the life of a node, and when it gets the server |
| `ManageBegin`, `ManageEnd` | `manage`, and `set_managing` in the server |
| `FirstInterface`, `LastInterface` | `add_interface` and `drop_interface` when the entry of the path is made or goes |
| `ObjectDies`, `ObjectIsBorn` | an address is freed and used again |

`set_managing` is called with what `manage` was given and reads what the node manages
by then, which is the same. Two histories say when a lookup can be expected to
succeed: `settled` (the server was told, and has kept the node's entry since) and
`claims` (which nodes were given the object).

### Variants and Dispatch

`Variants` has no state. The code recurses over nested types and values; here these
are labelled trees, functions from positions to labels, and a conversion is a map over
all positions at once. A position in a type is the sequence of the parts on the way to
it (a tuple has n parts, a vector one); a position in a value also says which element of a
vector is meant, and `Place` forgets that. A label of a type is one of three basic types (a
number, a string, a `shared_ptr` to an object), a vector or a tuple; the other nine basic
types are converted in the same way as the first two. The operators are the functions of
the code:

| Operator | Code |
|---|---|
| `IsType`, `IsValue` | the C++ types that can be converted (`variant_constructable`), and their values |
| `VariantType` | `make_variant_type`, the type that is advertised |
| `ToVariant`, `Fits`, `FromVariant` | `to_variant`; whether `from_variant` throws, and what it returns |
| `FromGThrows`, `FromG` | `from_gvariant`: the first exception in the order of the children, or the variant |
| `ToGFails`, `SentType`, `ToG` | `to_gvariant`, given the type that was advertised: a tuple has the types of what is in it, an array the declared one |

`Denotes(type, value, gvariant, means)` is the reference definition they are checked against:
a relation between C++ values and GVariants that mentions neither variants nor the
functions above. A string is passed as `c_str()`, which `CStr` models: a zero byte
cuts it off, and there is none left then (`CStrAssumption`).

The functions, properties, signals and what is sent are constants of `Dispatch`, with
the assumptions that types are types and values are values of them
(`MethodAssumption`, `PropAssumption`, `EmittedAssumption`, `SentAssumption`): what the C++
compiler and GDBus see to. No function has a `shared_ptr` among its arguments, since that
does not compile.

`Dispatch` adds to `Managed` the thread that runs the main loop and what it is
doing. A call holds `server_lock` throughout, so that the only steps between its
beginning and its end are those of the handler (which may call any function of a
node in its thread) and those of other threads that take no lock of the server.

| Action | Code |
|---|---|
| `RefuseCall`, `EnterHandler` | `gdbus_method_call` up to the client's function |
| `HandlerReturns`, `HandlerThrows` | the rest of it: the result converted, or one of the catch clauses |
| `GetProperty` | `gdbus_get_property` with `base_property::get_variant` |
| `SetProperty` | `gdbus_set_property` with `base_property::set_variant` and `property::_set` |
| `Emit` | `interface::emit_signal`, `node::emit_signal`, `server::emit_signal` |
| `ManagedStep` | any step of `Managed` that the lock allows now |
| `Taken` | the message is on its way |

The catch clauses are functions from exceptions to error names, so that what
none of them catches is visible as `"uncaught"`. `out` is the message that was made in
the last step; properties compare it with the state that it was made in. Each
step of `Dispatch` is a step of `ManagedNext` or leaves `managedVars` unchanged,
so that what is proved of `ManagedSpec` holds here too (`ImplementsManaged`).

Validators are left out of `SetProperty`, since no constructor that takes one
compiles (`property.h:182-199`); they are in `Property`. GDBus checks arguments against the
introspection data before it calls the library, and nothing here relies on that.

### VariantType and TypeValue

A `variant_type` is a `std::any` with a pointer. `data[s]` is its kind: no object
(`"gone"`), moved from (`"moved"`), a null pointer, a `GVariantType*` (`"owned"`) or
a `const GVariantType*` (`"borrowed"`, a part of the type in another's block). `heap` is
what is allocated. There is one action for each constructor, assignment and factory,
for `const` references (`BuildFrom`) and rvalues (`BuildOf`) apart, and the destructor.
That a borrowed pointer does not outlive its owner is up to the code that borrows
(`Lent`): `to_gvariant`, where both are parameters and local variables.

`TypeValue` has one variable, what each object stands for, and says which objects an
operation may change.

### ServerRun and RunControl

`RunControl` has two variables, who runs the server and whether that run has
been asked to end, and says: a run begins only when there is none, ends only
when it was asked to, and does end then. `ServerRun` reads and writes
`main_loop`, `owns_name` and `stop_requested` one at a time, because start()
does: `pc` is the place of a thread between two of these. GLib is modelled from
how it is used: `g_main_loop_run` sets the loop's flag, `g_main_loop_quit`
clears it, and a quit before the run is lost. A loop is named by the thread that
made it. `event` is news about the name that the main loop has not handled yet;
there is at most one, a bound. `run` and `two_loops` are history variables that
only properties read. `~server` is, for this module, a thread that calls
`stop_sync`.

Three things are left out: a handler that waits for its own run (`stop_sync`,
`stop_wait`), which blocks for ever by construction; a connection that closes,
after which `reconnect` works on memory it has given up; and failures to
allocate.

`StubServer` is the same interface over a condition variable. Everything done
under `state_change` is one step; `cv.wait` may wake for no reason.

### Locks

Both mutexes are recursive. `server_lock` and `hierarchy_lock` are the threads that
hold them; how often is not counted, since what a function leaves behind follows
from who called it (`Unlocked`: a handler still has `server_lock`). What the
functions do to the tables is in the other modules; here a function is its
sequence of locks:

| Function | Sequence |
|---|---|
| `full_name` | hierarchy lock, briefly |
| `drop_interface`, `emit_signal` | `full_name`, then a call of the server |
| `make_interface`, `manage` | a call of the server, which calls `full_name` itself |
| `add_server` | `full_name`, then a call like that per interface; when one throws, `drop_interface` of those added |
| `drop_server` | `full_name`, then a call of the server per interface |
| `~node` | as `drop_server`, with the hierarchy lock held all along |
| a call from the bus | `server_lock`, and in it any of the functions above |

There is one tree and one server, so that a function makes its calls for one
server. `Name` and `NameInServer` lock and unlock in one step, as nothing in
between waits.

### Property and AtomicValue

A property's copies share data and lock, which are a *cell*; `CellOf` says
which cell a property object has. A value is two words, `lo` and `hi`, and each access
is two steps, so that accesses that are not kept apart by the lock can tear it.

| Action | Code |
|---|---|
| `Read`, `ReadBegin`, `ReadEnd` | `operator T`, `get_variant` with `_get_property` |
| `Assign`, `WriteBegin`, `WriteEnd` | `operator=(const T&)`, `operator=(T&&)` |
| `SetVariant`, `Validate`, `WriteBegin`, `WriteEnd` | `set_variant` with `_validate` and `_set_property` |
| `AssignFrom`, `CopyBegin`, `CopyEnd` | `operator=(const property&)` |

The refinement mapping takes `lo` as the value of a cell: an access has its effect in
its first step. `Quiet` is what a client must do for this to be true: not write a
property while it is assigned to another one. It is a constant, TRUE in the run of
the refinement and in the theorems, FALSE in the run that shows why it is
needed.

Not in the model: assignment from an rvalue property, whose source is left in whatever
state a move leaves it; several properties that share one lock of the client's; and
the constructors with a validator at `property.h:182-199`, which delegate to a
constructor that does not exist, so that no program can use them (the
default validator accepts everything; `Valid` is any set).

## 3. Runs

| Run | Instance | What it shows |
|---|---|---|
| `node_tree` | 3 nodes, 2 threads, 2 names; 575 thousand states | whatever overlaps, lists and parents agree, every step under the lock is a step towards releasing it, and only the destructor's call of the server can keep it from coming free; destructions one after the other keep every path and withdraw every registration |
| `node_orphans` (violated) | 1 name | `assert(!x.expired())` in `~node` fails |
| `registry` | 3 nodes on 2 paths, 3 interfaces with 2 names, 2 threads; 625 thousand states with symmetry | what is on the bus is what the tables say, through failures, rollbacks, copies and re-use of paths |
| `managed_unique` (violated) | 2 nodes, 2 addresses, 2 threads | "Managed object must be unique" is never thrown |
| `dispatch` | 2 threads, 2 nodes, 1 address, 3 functions, 3 properties, 1 signal; 1.6 million states with symmetry | one reply per call, with the values that were sent or an error that is true; signals of the advertised types; a managed object is found under its node's path |
| `variant_type` | 3 objects, 5 blocks, 6 types; 16 thousand states with symmetry | nothing is freed twice or used afterwards; two known leaks; `VariantType` implements `TypeValue` |
| `server_run` | 3 threads; 564 thousand states | the D-Bus server implements `RunControl`; a lost name quits the loop that runs and ends the run |
| `server_lost` (violated) | 2 threads | a run whose name was lost returns normally |
| `stub_run` | 4 threads; 10 thousand states | the stub implements `RunControl`; whoever waits in vain is about to be notified |
| `locks` | 3 threads, 2 interfaces; 57 thousand states with symmetry | handlers run alone; who can wait for whom |
| `property` | 2 threads, 3 properties on 2 cells, 2 values; 90 thousand states | a property implements `AtomicValue`, and no value is ever torn, if the program is `Quiet` |
| `property_torn` (violated) | the same, not `Quiet` | a value that nobody wrote |

### Why these bounds

* Three nodes give a chain grandparent, parent, child as well as two siblings
  under a parent; a node is used once, so `Node` also bounds how often nodes are
  created. Two threads give every pair of overlapping destructors and path
  computations, which is all the lock can order. Two names tell siblings apart.
  The proofs remove these bounds for everything but `LockReleased`.
* In `registry`, nodes `n1` and `n2` share a path one after the other, which is how
  a stale entry would be met; `x1` and `x3` have the same name, which is how
  an interface would be dropped in another's place; a second interface makes
  partial failure possible. Two threads interleave two node functions.
* In `registry` a copy of `x1` is `x3` or the reverse, the two interfaces of one name.
* In `managed_unique`, two objects and two nodes let a node change its object, two
  nodes share one, and an address be used again. `dispatch` has one address, which
  is enough for both nodes to claim it and for it to be used again; `DispatchProofs` is for
  any number.
* In `dispatch`, `f` takes a number and a vector of strings and returns nothing, `g`
  takes nothing and returns a vector of objects, `h` takes a nested tuple and returns
  two values: every wrapper of `function.h`, every alternative at the top level and
  nested. `q1` is an ordinary property, `q2` has no permissions, `q3` is a
  `property<const T>` that is marked writeable. The bus sends a fitting argument
  list for each function, one whose tuple is too short, and one with a type the
  library does not know. `MaxLen` = 1 (of `MCDispatch`) gives the empty vector, which is where types get
  lost, and one element. The signal is emitted with right types, a wrong one, and too few
  arguments. The theorems are for all types, all values and whatever is sent.
* In `variant_type`, a composition needs two parts and a result: three objects. Five
  blocks let each of them own one and two be lost. The types have every
  composition: of one type, of two equal ones, of none.
* Three threads in `server_run`: one runs, one stops, one starts the next run.
  The stub is small enough for four.
* In `locks` a deadlock is between two threads; the third may hold what both of
  them need, or be in a handler. Two interfaces make a function call the server twice,
  so that others get in between. The proofs are for any number of both.
* In `property` two objects share a cell, of which the bus may set one, and
  a third has its own to copy from and to. One of the two values is refused by the
  validator. The proofs remove these bounds too.

Runs with `CHECK_DEADLOCK FALSE` are those in which a program that has created
and destroyed everything it may is done, and `locks`, where the deadlock that
`DeadlockNeedsDtor` describes does exist: a thread destroys a node while another one
is inside `add_interface`, each with the lock that the other wants.
In `variant_type` the program may have lost all the memory there is. `dispatch`,
`server_run`, `stub_run` and `property` check for deadlock.

### Fairness

* `NodeTree`: a thread that *holds* the lock makes progress (`WF` of its locked
  steps), except in one place: `~node` calls the server under the lock, and the
  server waits for `server_lock` (`src/server_gdbus.cpp:942`). That wait may be for ever, as
  `add_interface` holds `server_lock` (`:908`) and wants the lock of the tree (`:909`);
  `Locks` is about that. So the step out of the call is not fair, and
  `LockReleased` ends in "released, or in the server" (`InServer`). Nothing is assumed
  of a thread that waits for the lock of the tree, a mutex is not a fair queue.
* `ServerRun`: `g_main_loop_run` returns after `g_main_loop_quit`, and the
  thread goes on to unlock. Nothing is assumed of the bus, of callers, or that
  anybody ever stops the server.
* `StubServer`: a thread that was woken, and one inside `stop()`, goes on.
  Spurious wake-ups are possible and never assumed, so that termination has to
  come from the notification.

## 4. What the runs found

* **`node_orphans`**: the assertion at `src/node.cpp:59` is wrong. A child can
  expire in another thread and wait for the lock that its parent's destructor
  holds.
* **`managed_unique`**: `node::manage` replaces `_managing` before it calls
  `set_managing`, whose first line wants the previous object: the uniqueness test
  at `src/server_gdbus.cpp:975` cannot fail, two nodes can manage one object and
  the entry of the previous object stays.
* **`server_lost`**: `!owns_name` at `src/server_gdbus.cpp:1054` is true of
  `NAME_WAITING`, not of `NAME_LOST`, so that start() does not throw when the name
  was lost in its run.
* **`property_torn`**: "properties are atomic" (`property.h:152`), but the assignment
  from another property reads the other's value under its own lock only.

Two more things show in passing runs, as exceptions a property has to make. `SetExact`
says that a set which fails says why, except for a writeable `property<const T>`, whose
`_set` returns false, so that GDBus gets FALSE without the error it asks for
(`src/server_gdbus.cpp:526`). `LossesKnown` lists where memory is lost: copy assignment of a
`variant_type` overwrites an owned pointer (`src/common_gdbus.cpp:182`), and `map()` never
frees the dictionary entry (lines 118 and 130).

The branch "This shouldn't happen" (`src/server_gdbus.cpp:401`) does happen: between the
last reference to a node and the end of its destructor. `Dispatch` takes it, and
`OneReply` and `AdvertisedAccepted` hold in it too.

The finding of `node_orphans` is also why `PathLocal` and `ExportsTracked` are claimed only
as long as no destructor met another operation (`overlap`): a skipped child keeps a
`_parent` that no longer locks, computes a shorter path in its own destructor and
withdraws nothing. `LinksAgree` has no such condition.

## 5. Mutants

Each property is checked against a wrong variant of the code, an operator marked
`mutant` next to the definition it replaces: orphans that are not renamed, or not
put into their new parent's list, or not taken out of the old one; a rollback that
takes nothing back; an owner that a copy keeps; a lock that is not taken; a wait that
does not wait; a path that is only stored if the address has none; two answers to a
call; an array typed by what is in it; a tuple whose length is not compared; a
permission that is never tested; a flag that is cleared after the notification; a copy
that shares its pointer. The run of the property finds each of them.

## 6. Proofs

`NodeTreeProofs` proves, for any sets of nodes, threads and names, with the two
assumptions that `NoNode` and `NoThread` are not members of them:

* `TypeCorrect`: `Spec => []TypeOK`
* `LinksCorrect`: `Spec => []LinksAgree`
* `PathsKept`: `Spec => []PathLocal`
* `ExportsCorrect`: `Spec => []ExportsTracked`
* `LockedWorkEnds`: `Spec => NearerToRelease`
* `LockedWorkCounted`: `Spec => [](hierarchy_lock = t => Left(t) \in Nat)`, for every thread

None but the first is inductive. The invariant that is, `IInv`, is proved in
layers, each using those before it:

* `Base`: the types, and which thread is where: the lock is with the thread that
  walks or adopts (`LockOwner`), a thread's target is in the state its operation
  needs (`CallOK`), a node has one destructor (`OneDtor`).
* `Shape`: every expired node has a thread in its destructor; without overlap a
  destructor is alone; a node that does not exist yet is nowhere linked; a
  child in a list has that list's node as its parent.
* `LinksAgree` itself.
* `Lineage`: `PathLocal`; the list of a node in its destructor still has every
  live child (`ListComplete`, without which a child would keep a dead parent);
  and the walk of `tree_name` that has reached `cur` with `acc` can still only
  end at the birth path of its target (`WalkOK`).
* `Exports`: `ExportsTracked`, and that nothing of a node is registered any more
  when its destructor reaches the orphans (`AdoptOK`).
* `Ends`: the lists of children are finite (`ListsFinite`), and every node was created at a
  longer path than the parent it has now, whoever adopted it (`Descends`).

The last layer is what `LockReleased` needs besides fairness. `Left(t)` bounds what the
thread with the lock still has to do: the levels of its walk, then the orphans.
`LockedWorkCounted` proves that it is a natural number in every reachable state,
`LockedWorkEnds` (`NearerToRelease`) that every step of the holder makes it smaller, goes from
the walk to the orphans or releases the lock, and that no step of another thread changes
it, although nodes above and below go on being created and released. What is left to
`LockReleased` is that a descending sequence of numbers ends under weak fairness, up to the
one step for which there is none, the return of the destructor's call of the server.

That each layer holds initially and is preserved by each action are lemmas of
their own; `Invariance` puts them together. What the paths need of sequences
(concatenation is associative, and a path below another is a different one) comes
from the library's `SequenceTheorems`.

`LocksProofs` proves, for any threads and any number of interfaces, `TypeCorrect`
(`TypeOK`), `HandlersAlone` (`HandlerExclusive`) and `DeadlocksKnown`
(`DeadlockNeedsDtor`). Neither of the last two is inductive; what is says for
each lock, as an equivalence, in which states of `pc` and `op` a thread holds it
(`Owners`), and which functions can be at which place (`OpOK`). From `Owners` a thread
holds the hierarchy lock for longer than a step only in `~node`, which makes a cycle
of two the one described. Longer cycles cannot be: there are two locks.

`PropertyProofs` proves, for any threads, properties, cells and values,
`TypeCorrect` (`TypeOK`, which includes that the lock is with the thread that
accesses the cell), and, assuming `Quiet`, `PropertiesAtomic`
(`Spec => Register!Spec`) and `ValuesWhole` (`WholeValues`). The invariant adds
to the types that the two words of a cell differ only while its lock is taken,
what each thread half way through an access knows of the words (`WordsOK`), and that
nobody writes what is being copied (`SourcesKept`). With it `ReadBegin`, `WriteBegin` and
`CopyBegin` map to the register's steps, and every other action to a stutter.

`RegistryProofs` proves, for any threads, nodes, paths and interfaces, all that the run
`registry` checks: `TypeCorrect` (`TypeOK`), `CallsAnswered` (`Answered`), `AllPublished`
(`Published`), `OwnersAgree` (`OwnerAgrees`) and `AllWithdrawn` (`WithdrawnAtEnd`). The
assumptions are that `PathOf` and `NameOf` are functions and that the two "none" values
are not members. The invariant comes in layers again: `Inv1` has the types, which
thread uses which node (`CallsOK`) and the tables and owners of nodes in every state
(`IfacesOK`, of which `OwnerAgrees` is the part about live nodes); `TableAlive`, that
interfaces in tables exist but for one that is being dropped; `BusOK`, which says for
each function that a thread can be in, and for no function, what is on the bus at the
path of its node in terms of the table and of `todo` and `done` (`CallOnBus`, `Full`). At the
end of a call, when `todo` is empty, `CallOnBus` is what the properties ask for.

`DispatchProofs` proves, for any threads, paths and addresses, for all functions,
properties and signals of all types, and for whatever the program returns or emits and
the bus sends, everything that the run `dispatch` checks:

* `ManagedTypeCorrect` (`ManagedTypeOK`) and `PathsResolve` (`ManagedResolves`), of
  `ManagedSpec`. To `ManagedResolves` the invariant `ManagedInv` adds that `claims` has
  every node that manages an object, that a node about to tell the server is not settled
  and has one thread in it, and that what is settled exists: without these a second node
  could take over an entry unnoticed.
* `RoundTrip`, of the conversions alone: a value of any type that goes out as a GVariant
  and comes in again is the same value, but for strings with a zero byte, and nothing
  throws, if every object in it has a path that means it.
* `ImplementsManaged` (`Spec => ManagedSpec`) and with it `PathsResolveInCalls`.
* `TypeCorrect` (`TypeOK`), `AnsweredOnce` (`OneReply`), `AdvertisedCallsAccepted`
  (`AdvertisedAccepted`), `HandlersGetSent` (`HandlerGetsSent`), `SentFaithfully`
  (`SendsFaithful`), `ErrorsTrue` (`ErrorsTell`), `SignalsAsAdvertised`
  (`SignalsAdvertised`) and `SetsExactly` (`SetExact`).

The argument has three parts. The lemmas about trees say that what lies on the way to a
position is itself a position (`OnTheWay`, `PartOfType`), and that a position of the type
with no vector before it is reached in the value (`DirectReached`). Those are inductions
over the length of a position, done as the least-number principle: of the positions
that violate it take one with the shortest way, and look at the step before. The lemmas
about conversions follow position by position: what is sent has the advertised type
(`SentTypeIsAdvertised`) and the values that were given (`SentIsGiven`), what was received
is what was sent (`ReceivedIsSent`), and what has the advertised type fits
(`AdvertisedFits`).

The invariant `DispatchInv` is `ManagedInv`, `CallOK` (`HandlerGetsSent`, and that the call
under way has a live node), `ValueOK` (every property has a value of its type) and
`SaidOK`, what the message of the last step promises; `SaidOK` needs nothing of the step
before it, since a message is gone before anything else happens. `HandlerGetsSent` has to
survive the steps of other threads, which change what paths mean while a handler runs:
it does because no function has an object among its arguments (`ArgsStayTrue`), which is
the assumption that the compiler enforces. The catch clauses are the lemmas `RefusalKinds`,
`SetThrowsKinds` and `HandlerCaught`: which errors can come out of which callback.

`VariantTypeProofs` proves, for any objects, blocks and types, all that the run
`variant_type` checks: `TypeCorrect`, `OneOwner` (`SoleOwner`), `ValueSemantics` (`Values`, each step
is a step of `TypeValue` or a stutter) and `OnlyKnownLosses` (`LossesKnown`). `SoleOwner` is
inductive with the types.

`ServerRunProofs` and `StubServerProofs` prove, for any number of threads, the types,
`WaitersWait` (`WaitsForRun`), for the D-Bus server also `StoppedRunsReturn`
(`StoppedReturns`) and `NameLossesStop` (`NameLossStops`), for the stub `WakeUps`
(`WakeUpComes`), and `RunsControlled`: the initial states and the steps map to those of
`RunControl`, which is the safety part of `RunsUnderControl`. The invariant of the former is
that `run_lock` belongs to the thread of the run, that a thread that has got past the making
of the loop has one, that the flag of a stop() stays until a start() clears it, and
that the loop that runs is the current one while only one was made. `NameLossStops` and
`WakeUpComes` are the safety halves of what `NameLossEndsRun` and `RunsUnderControl` say of the
end of a run: that the right loop has been told to quit, and that a notification is on its way.

## 7. What is only model-checked

Liveness is out of the prover's reach: `LockReleased`, `NameLossEndsRun` and the fairness
half of `RunsUnderControl`. Their safety halves are proved (section 6), so that what
rests on the instances is the step from "closer and closer", "told to end" and "about to be
notified" to "eventually". Everything else that a passing run checks is a theorem.

## 8. Not modelled

* **Maps.** `_variant_helper<std::map>` asks a variant for an alternative it does not have
  (`variant.h:245` and `258`), so that no function or property with a map
  compiles; the branch of `to_gvariant` for maps casts a `variant_type` to a pointer
  (`src/server_gdbus.cpp:271` and `277`) and would throw. `variant_type::map` is in `VariantType`.
* **What else does not compile**: a `shared_ptr` as argument of a function or in a property
  that is not `const` (`variant.h:317`), the constructors at `property.h:182-199` and
  `function.h:290-294`. `Dispatch` sends objects in results and signals, and receives
  them nowhere but in the conversion.
* **Strings.** What GDBus makes of one that is not UTF-8 is not modelled. A zero byte is.
* **Exceptions that are not `std::exception`s** go through every catch clause and through
  C code.
* **Signals of a node after `drop_server`**: the server stays in `_servers`, and signals go out
  for an object that is not on the bus. No document says what is wanted.
* **`weak_ptr`s written by two threads at once** (`_managing`, `_owner`) and tables of one node
  changed by two threads: data races, excluded by `Usable` and `Unused`.
* **A closed connection** in `reconnect`, and a handler that waits for its own run: see
  `ServerRun`.
* **The C structures of the introspection data**, beyond the types they advertise; exceptions,
  connection modes, the sample program and the build: no behaviour to explore.
