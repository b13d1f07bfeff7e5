# A verification development for FunHPC

FunHPC is a C++ library for functional programming on distributed machines: a
thread can call a function on any process (`rexec`, `async` with a remote
policy), wait for the result through a future, and keep references to objects of
other processes (`shared_rptr`, `proxy`).  The containers of `fun/` are written
on top.  This directory holds TLA+ models of the concurrent and distributed
parts and of the containers, TLC configurations that check them on small instances,
and proofs, checked by TLAPS, of what matters most for every size of the instance.

Contents: [the system](#the-system), [modules](#modules),
[runs](#runs), [fairness](#fairness), [proofs](#proofs),
[findings](#findings), [not modelled](#not-modelled), [plan](#plan).

Run inside this directory, for example

    tlc -workers 2 -config Server.cfg Server
    tlapm Server_proofs.tla

## The system

One operating system process per MPI rank.  In it Qthreads multiplexes light
threads on a fixed set of workers, without preemption: a thread keeps its worker
until it ends, yields, or waits for a full/empty bit.  One thread runs the event
loop, the only user of MPI.

| component | source | state | operations | talks to |
|---|---|---|---|---|
| event loop, `rexec` | `funhpc/server.cpp`, `rexec.hpp` | send queue and its mutex, running sends, communication mutex, barrier entered or not | `enqueue_task`, `send_tasks`, `recv_tasks`, `terminate_check`, `cancel_sends`, `comm_lock`, `comm_unlock` | MPI; starts a thread for each task that arrives |
| threading switch | `funhpc/server.cpp` | flag, rwlock, counter, a local `go` for each call | `threading_disable`, `threading_enable` | workers of Qthreads |
| run on all workers | `qthread/thread.cpp` | two counters for each call | `all_threads::run` | workers; used by `hwloc.cpp` |
| start-up, worker affinity | `funhpc/server.cpp`, `hwloc.cpp` | node and rank of each process, a table of PUs (hardware threads) | `set_rank_size`, `thread_layout`, `thread_affinity`, `manage_affinity` | MPI, hwloc, `all_threads::run` |
| futures, asynchronous calls | `qthread/future.hpp`, `funhpc/async.hpp`, `funhpc/serialize_shared_future.hpp` | shared states (ready bit, value, trigger), promises and copies on the heap | `async` in all policies, `wait`/`get`, `then`, `unwrap`, `continued`, `set_result`, `save`, `load`, `shared_future_get`; `promise`, `packaged_task` | `rexec` |
| distributed reference counting | `funhpc/shared_rptr.hpp`, `rptr.hpp` | managers: count, object, owner | construction, copy, assignment, `reset`, `save`, the archive constructor, `incref_then_decref2`, `decref1`, `~manager` | `rexec` |
| proxies | `funhpc/proxy.hpp`, `fun/proxy.hpp` | a shared future of a `shared_rptr`, a cached process | `make_local_proxy`, `make_remote_proxy`, `get_proc`, `make_local`, `unwrap`; `fmap` and the other operations of a container | futures, reference counting |
| mutexes | `qthread/mutex.hpp` | one full/empty word | `lock`, `unlock`, deletion | futures, event loop |
| tasks, serialization | `cxx/task.hpp`, `cxx/invoke.hpp`, `cxx/serialize.hpp`, `cereal/` | function and arguments of a task | call once, serialize | event loop |
| index spaces, grids | `adt/index.hpp`, `adt/grid*.hpp`, `fun/grid*.hpp` | pure values: a view of data | ranges, boundaries, loops, map, stencil | containers |
| trees, nested containers | `fun/tree_*.hpp`, `fun/nested_*.hpp` | pure values; futures or proxies in the nodes | map, fold, stencil, join | futures, proxies |
| flat containers | `fun/{vector,shared_ptr,maxarray,array,maybe,either,...}.hpp`, `fun/{seq,par}_*.hpp` | pure values | iota, map, fold, stencil, join | |
| entry, configuration | `funhpc/main.cpp`, `config.hpp` ... | environment | start-up | |
| examples, tests, build files | `examples/`, `*_test.cpp` ... | | | |

### Where it is hard, and what makes each part correct

- **Event loop.**  User threads on several workers push into the queue while the
  loop empties it; every task gets a thread of its own, so the tasks of one
  sender run in any order; the processes must agree to stop, and one without a
  `main` has nothing to wait for.  Correct: no task is lost, run twice or run
  elsewhere while a user's `main` runs; no process stops serving the others
  before every `main` has returned; all stop afterwards.
- **Reference counting.**  A reference that travels is counted by up to three
  managers for a while, and the messages that move it, the deletion of each
  manager, and further copies interleave.  Correct: an object lives exactly as
  long as somebody, or some message, refers to it; no manager is used after
  its deletion; no manager's count rises from zero; nothing leaks.
- **Futures.**  Threads race for the trigger of a deferred future, and a trigger
  that is run may wait for another one; the promise of
  a remote call and the copy of a serialized future are bare pointers that a
  later message deletes; a promise that the user holds may be dropped.
  Correct: exactly one party sets each future, to the
  result of the one call that was asked for; every waiter goes on; every promise
  and copy is deleted once, when nobody needs it.
- **Proxies.**  A proxy may name the process of an object that does not exist yet,
  caches what it learns, and travels as both; every map of it is a remote call whose
  arguments may be proxies of third processes.  Correct: a call arrives where
  its object is; a claimed process turns out right; a program gets the values that
  local data would give it, and every call returns.
- **`all_threads::run` and the threading switch.**  Both hold workers on purpose
  (spinning or blocked), so they can deadlock, hold one too few, or refer to
  locals of a function that has returned.  Correct: the function runs exactly
  once on each worker; the caller of `threading_disable` is alone; both return.
- **Affinity.**  Each process computes the PUs of its workers alone, from
  ranks that were agreed on once.  Correct: the workers of all
  processes of a node share its PUs evenly, none left out.
- **Containers.**  Trees are nested containers of trees, which are vectors behind
  pointers, and every operation calls itself through these layers; calls that are
  each legal compose to shapes that no test builds (null pointers, empty branches,
  branches of unequal depth, views of views).  Correct: a container is a list and
  a grid is a function of its indices, whatever its shape; an assert fails only
  where a caller could know.

`PROJECT.json` lists the hazards, each with its line and the properties that cover it.

## Modules

| module | models | builds on |
|---|---|---|
| `SharedRptr` | the reference counting protocol; its refinement mapping to `SharedObject` | an instance of `SharedObject` |
| `SharedObject` | abstract: an object with a set of references, freed after the last one | |
| `SharedRptr_proofs` | its invariants and the refinement, proved | `SharedRptr` |
| `Server` | event loops of all processes, the threads they start, `rexec`; the refinement mapping to `TaskPool` | an instance of `TaskPool` |
| `TaskPool` | abstract: tasks that are started once each, in any order | |
| `Server_proofs` | its invariants and the refinement, proved | `Server` |
| `Async` | futures, asynchronous calls, promises, serialized futures | |
| `Async_proofs` | its invariants, proved | `Async` |
| `Proxy` | proxies and the container made of them | |
| `Proxy_proofs` | its invariants, proved for functions that return no proxy of an object elsewhere | `Proxy` |
| `AllThreads` | `all_threads::run` | |
| `Affinity` | `initialize`: `set_rank_size` and the pinning of the workers | `AllThreads` |
| `AllThreads_proofs` | the invariants of the two, proved, and that the second implements the first | `Affinity` |
| `Threading` | `threading_disable`, `threading_enable` | |
| `Threading_proofs` | its invariants, proved for one caller | `Threading` |
| `Index` | strided ranges and boxes of indices | |
| `Calls` | what a program hands to the operations of a container; calls of `mplus` and `fun::convert`, for any kind | `Index` |
| `Functor`, `Monad` | a program that calls the operations of a container of any kind, which are constants; the laws | `Calls` |
| `Vector`, `SharedPtr` | the operations of `std::vector` and `std::shared_ptr` as containers | `Index` |
| `Vectors`, `Pointers` | programs that use them | the two, `Monad` |
| `MaxArray`, `Array`, `Maybe`, `Either`, `IdType`, `Pair`, `Extra` (also `empty`), `SharedFuture` | the container of this name, and a program that uses it | `Calls`, instances of `Functor`, `Monad` |
| `Seq`, `Par` | `seq` and `par` of a pointer and a vector, and a program | `Calls`, instances of `Vector`, `SharedPtr`, `Functor` |
| `Grid`, `Grid2` | index spaces and grids over a vector, and a program | `Calls`, an instance of `Vector` |
| `Grid_proofs` | that the positions of a grid have places of their own, and a grid is a field, proved | `Grid`, an instance of `Contents` |
| `NestedSize` | how `nested<P, A>` divides a range or a box, for any types | `Index` |
| `NestedIota` | the construction of a nested container, one inner container at a time | `NestedSize` |
| `NestedIota_proofs` | that it divides every range and box, and serves what it says, proved | `NestedIota` |
| `Nested` | the operations of `nested<shared_ptr, vector>`, and a program that uses it | `NestedSize`, `Calls`, instances of `SharedPtr`, `Vector` |
| `Tree` | `tree<nested<shared_ptr, vector>>`, and a program that uses it | an instance of `Nested`, `Calls` |
| `Contents` | abstract: a list under the operations of the library, a function of indices (field) under those of a grid | `Calls` |
| `Containers` | all programs on containers composed, with `convert` and boundaries that lead from one kind to another; refines `Contents` | `Tree`, instances of all others |
| `MC*` | the constants of a run | one of the above |

**How they compose.**  `SharedRptr`, `Async` and `Proxy` send their messages by `rexec`.
They assume the network to be what `TaskPool` says: each task is started once,
on the right process, in any order, and eventually.  `ImplementsTaskPool` states that
the event loop provides this, with the reservation that `TaskPool` states: once
every `main` has returned tasks may be lost.  The message sets of the upper
models are the tasks in state `sent`.  `Proxy` in turn takes what `Async` shows of a
future (set once, by the call that was asked for) and what `SharedRptr` shows of an
object (there as long as it is referred to), and so needs neither triggers nor counts.
`Affinity` and `Containers` compose their parts in one state space.

### `SharedRptr` and the code

A manager has a number; `status` is its life (`unborn`, `live`, `dying` between
the decrement that finds zero and the destructor, `freed`), `refcount`, `obj`,
`robj` and `owner` are its fields, `home` the process it is on, `handles` the
number of `shared_rptr` that name it.  `MakeShared`, `Copy`, `Reset` and `Save`
are the user's operations; `Load` is the archive constructor with its three cases
(`LoadAtOwner`: the object is local; `LoadFromOwner`: the reference comes from
its owner; `LoadFromThird`: neither side is the owner); `RunIncref` and
`RunDecref` are the tasks `incref_then_decref2` and `decref1`; `Destroy` is
`~manager` with the `decref1` it sends.  The destructor is an action of its own
because the count is an atomic: other threads run between the decrement and the
`delete`.  A message to the own process is a task as well, as in `rexec`.

The number of the manager that a `Load` will construct is drawn when `Save`
sends.  This keeps messages with equal contents apart and changes nothing else.
Numbers are not used again, but addresses in C++ are.  `NoDangling`, proved,
says that no message and no manager holds the address of a deleted manager, so
reuse cannot confuse them.

### `Server` and the code

The loop of a process goes through `lock` (`comm_lock`), `take` (`send_tasks` swaps the
queue for an empty one, under the mutex), `send` (it hands the tasks it has taken, `reqps`,
to MPI one by one, while others push to the queue; then it tests which sends are done),
`recv` (`recv_tasks`, one action for each task received, then `comm_unlock`),
`check` (`terminate_check`), `cleanup` (`cancel_sends` and the reset of the
mutexes), `returned`.  A user thread is in `thread`; with a task in `hand` it is
in `enqueue_task` between the lock and the unlock of `send_queue_mutex`.  What
else a user thread does is left open: it sends any task to anyone, takes
`comm_lock`, and ends when it likes.  MPI is external and nondeterministic: `wire`
holds what MPI has; `Iprobe` may miss a message, `Test` may find a send
completed early or late, and the barrier is seen to complete some time after
the last process has entered.  `MPI_Cancel` in the clean-up is in time or not.

Assumptions on the user: a thread gives back `comm_lock`, and before it ends; while it
keeps it no process can terminate, and `Terminates` does not say so.
`cancel_sends` frees the buffers of sends that MPI may still use; whether that
is harmful is a question about MPI, and not asked.

### `Async` and the code

A cell is a `shared_state` and the job that makes it ready: a call on its own
process, a call to be made on another one (`remote`), or the value of another cell.
`input` lists the cells that the job waits for, `waited` how far it has come.
A thread is a user's waiter or the thread that runs the job of a cell; `jobs` is
its stack, since a thread that waits for a deferred future runs that job first,
which may wait for another.  `wait` is `Test` (has it a trigger), `Exchange` (take the
trigger with an atomic exchange), then the job, or `Read` (block on the full/empty bit).

`AsyncSync`, `AsyncLocal`, `AsyncRemote`, `AsyncDeferred` are the policies,
`AsyncLater` is `async` to a process that a future will tell; `Then` is `then`
under both policies, `Unwrap` is `unwrap`; `Save` and `Load*` are the
serialization of a `shared_future`; `GetFuture`, `SetValue`, `EndPromise` (the
destructor) and `ReplacePromise` (assignment, `reset`) are the promises and packaged
tasks of the user.  A job goes through `RunWait` for each input, `RunRemote` if it
has to call another process, and `Finish`.  Functions are opaque: the
result of the call of cell *c* is *c*, so a wrong or a second call shows.  `promise`
and `copy` record the heap objects that the code deletes by hand; everything else is
held by `shared_ptr`, and not modelled.  A `launch::sync` continuation is a wait and
an `AsyncSync`; a detached call yields no future.

### `Proxy` and the code

A cell is here a future with the thread that sets it; its name is that of the
thread that made it with a number, so that names do not depend on the
interleaving.  `stage` is where the call is: on its way (`sent`), on the process it
was sent to (`run`), on its way back, `done`.  A thread waits where the code calls
`get`.  A `proxy` is the pair of its `robj` and its `proc`, and `proc_ready`
caches `proc` as the code does, in the variable it is called on.  The steps of the
remote function objects of both headers are the actions `Local`, `Invoke` (which makes
the second and later arguments local), `Apply`, `GetPtr`, `GetPtrLater`,
`Remote`, `RemoteNow`, `Construct*`, `Unproxy`, `Unwrapped`, `Deref`, `Sync`;
`Arrive` and `Return` load the arguments and results, as `Save` and `Load*` of
`Async` do.  Beside them runs the program, which assigns the result of every
operation to a new variable, and beside each variable `meant` holds what it
would be if proxies were plain values.

### `AllThreads`, `Affinity`, `Threading` and the code

`runs` gives the thread each worker holds, and `Dispatch` is the
scheduler of Qthreads, which is external: an idle worker takes any thread that
can go on.  `AllThreads` has one program counter for each task between the two
spin loops.  `Affinity` is `initialize` of one process around it: `SetRankSize`
numbers the nodes, then `all_threads::run` calls `manage_affinity`
(`ManageAffinity` is the step `Work` of `AllThreads` and what the function does),
and the barrier ends it.  `start` is how the program was started: the machine of
each process, the number of PUs, the environment variables, and whether hwloc can bind.

`Threading` has the caller's steps in the order of the code, one
action for each access to shared state: the flag, the new lock, the counter, the start of
each task, the yield, the lock, `go`.  The spinners' steps come between any two of them.  `go` is a local
variable that tasks refer to, so it has the value `gone` after the return.
The caller of `threading_disable` does not yield until it has called
`threading_enable`: a thread that has made itself the only one has nobody to yield
to.  Only one call of `all_threads::run` is active at a time, as in `hwloc.cpp`;
two calls that each hold some of the workers would wait for each other for ever.

### The containers and the code

An operation of a container is an operator with the name of the function, so that
`S!fmapStencil` in `Tree` is the `fmapStencil` of `nested_impl.hpp` that the one of
`tree_impl.hpp` calls, down to `Vector` and `SharedPtr`.  The function given
to `fmap`, `mbind` or a fold is a function.  Where the code calls it with several
arguments or an index (`fmap2`, `iotaMap`, the stencils), the operator returns the
container of the arguments of all calls, which a caller maps; folds are
concatenations.  A result of the code for any other function is an image of it.  An
assert of the code is an operator of its own (`nonempty`, `same_size`, the `..._ok`
operators), and a program makes only the calls that meet none; the properties say
where that is.  A pointer is a sequence of at most one object, a `shared_future` a
sequence of the value it will have.

`NestedIota` is the one model with steps smaller than a call: `iotaMap<P>` may fill
the inner containers in any order, since for a distributed `P` each is a call of its
own.  It takes any pair of types with their smallest and largest sizes.

`Functor` and `Monad` take the operations of a kind as constants
and are the program that calls them: `iotaMap`, `fmap`, `munit`, `mbind` with
functions that yield none, one or two elements; `Sums` of `Calls` is what `mplus` makes
with containers on both sides.  Each flat kind instantiates those that it has.  `Containers` holds one
container at a time, of the kind `kind`, and moves it to another with `fun::convert`,
or to an `idtype` by taking a boundary.  What is hard here is that calls compose:
shapes that no test builds come from three or four legal calls.

A grid is its index space (shape, offset, strides, size of the data) and its data.
`boundary` and its boundary again are views, so `linear`, `invariant` and the
loops are met with offsets and strides that no construction gives.

### Bounds of the programs

`MaxManagers`, `MaxHandles`, `MaxCells`, `MaxOps`, `Task`, `MaxRounds`, `MaxSize` and
`MaxDepth` only bound what users do; no handler is disabled by them.

## Runs

| run | instance | distinct states | asks |
|---|---|---|---|
| `SharedRptr` | 3 processes, 4 managers, 2 handles each | 426 001 | are counts exact, is anything used after its deletion, is everything freed; refinement of `SharedObject` |
| `Server` | 2 processes, one `main`, 2 tasks | 28 872 | are tasks lost or doubled, does a process stop early, do all stop; refinement of `TaskPool` |
| `ServerShutdown` | the same | (violated) | may threads outlive the event loop |
| `Async` | 2 processes, 1 waiter, 3 cells | 468 827 | one setter, the right value, the heap; does every wait return |
| `Proxy` | 2 processes, 3 operations, functions that yield a value or a proxy here | 343 100 | does an assertion fail, is a cached process right, are the values those of local data; does every call return |
| `ProxyUnwrap` | the same, with a function that yields a proxy elsewhere | (violated) | the assertion on a claimed process |
| `AllThreads` | 3 workers, 4 tasks, 35 ways to start 1 to 4 processes on machines | 72 894 | once on each worker, which PUs do they get; does `initialize` return |
| `Threading` | 4 workers, 3 users, one caller, 2 rounds | 11 213 | is the caller alone, are lock and `go` there; do both return |
| `ThreadingTwoCallers` | 3 workers, 2 callers, 2 rounds | (violated) | the comment on `threading_enable`, with two callers |
| `NestedIota` | 20 pairs of types, ranges to 8, boxes to 3 x 3 | 7 195 | is every index held once and in order, which asserts fail |
| `NestedEmptyServed` | the same | (violated) | empty ranges |
| `Containers` | branches of 2, 5 values and what memory holds, up to 5 elements, depth 3, grids of up to 3 dimensions | 15 688 | refinement of `Contents`, shapes, ends, stencils, laws |

**Why the bounds are enough.**  Three processes are an owner, a sender and a
receiver that are all different, the most that one transfer involves; four
managers allow an object's owner, a remote manager, a reference that travels on to
a third process and one that comes home while both are still in transfer.  In
`Server` two tasks can be together in a queue, or one be sent by the thread of the
other on its way back; a process with and one without a `main` are the two that
differ.  (The proofs have no such bounds.)  In `Async` three cells are a deferred
future, a copy of it on another process and a copy of the copy or a continuation of
it, or two futures and one that rests on both.
One waiter is enough: the threads of continuations and of copies wait as well, so
three of them may race for one trigger.
In `Proxy` three operations make two proxies on different processes, neither of them
ready, and a call that takes both, or a proxy of a proxy, its unwrapping and a use of the result.
In `AllThreads` one task more than workers makes one leave early
(the code uses ten times as many; a task that leaves early does nothing else); the
machines hold one or two processes, in blocks, in turns and of different numbers, with
fewer PUs than threads, as many, more, and with a remainder.
Two rounds of `Threading` let the tasks of the first meet the second call.
A branch of 2 instead of 16 subtrees gives trees of three levels with five elements;
the code does nothing else at deeper levels.  The sizes in `NestedIota` are
below, at and above each limit, with remainders.  An `array` of 3 and a `maxarray` of
at most 4 meet ranges of fewer, as many and more elements.

**Deadlock** is asked for by `Containers` only: in the other models the system may stop, when
the users have done all that the bounds allow or all processes have returned.
That it does not stop too early is what the liveness properties say.

What the properties say:

- `RefcountExact`: a manager's count is the number of its handles, messages
  that carry a reference and managers registered with it.  `NoDangling`,
  `NoEarlyFree`, `NoResurrection`: nothing is used after its deletion.
  `Reclaimed`: what nobody refers to is freed, with all its managers.
- `BarrierHolds`, `OnePlace`, `Terminates` for the event loop: nobody leaves early, a
  task is in one place, all stop.
- `OneSetter`, `ValueOfCall`, `WaitReturns` for futures; `HeapExact` for what is made with
  `new` and deleted by hand, promises of remote calls and copies of futures.  A wait may last
  for ever only if it rests on a promise that its user never sets, or lets go of.
- `NoAbort`: no assertion about where an object is fails.  `CachedProc`:
  `proxy::invariant()` for every proxy there is, in a variable, a message or an object.
  `AsIfLocal`: results and places are those that plain values would have.
  `Resolves`: every future becomes ready.
- `OncePerWorker`; `Pinned`: nodes are numbered as the machines are, and the workers of
  all processes of a node share its PUs evenly; `InitializeReturns`.
- `Exclusive`, `InUse`, `AllActive`, `DisableReturns` for the threading switch.
- `Divided`: a nested container holds every index of its range once (`Parted`) and in
  order (`InOrder`).  `Served`: no assert fails within the limits that it states; they show
  that a `nested<shared_ptr, vector>` ends at 16 elements.
- `IsContainer`: whatever its kind and shape, a container changes as a list does
  (`IsList`; but for `mbind` of a `maxarray`, which may lose elements), and a grid as a
  function (`IsField`).  `AllEnds`:
  `head`, `last`, `boundary` and `msize` agree with the list, wherever no assert is met,
  and which trees meet none.  `Shape`: the trees that are constructed are packed and no deeper
  than they need be.  `AllStencils`: every element sees its
  neighbours across all branches and in all directions of a grid, and the boundaries
  reach the ends only.  `AllLaws`: `fmap2`; and the laws of a
  monad, with equality of whole containers: for each kind either everywhere, or exactly
  where its `mbind` loses nothing (`Laws` of `MaxArray`, `Array`, `Pair` and `Either`).  `AllTypeOK`: the
  sizes are those of `fun_traits`, and the asserts of index spaces hold for views of views.

Each property of a passing run has a mutant of the code that breaks it
(the operators marked "Mutant" in the modules, and `mutants` in `PROJECT.json`).
The two spin loops of `all_threads::run` back each other up: either alone keeps the
function from running twice on a worker, so a mutant that drops only one
is not caught.

## Fairness

- *A message is delivered* (`Deliver` in `SharedRptr` and `Async`, `Step` in `Proxy`):
  `TaskPool` promises it, and the run `Server` shows that `Server` keeps the promise.
- *The loop runs, and gets its locks* (`Server`): the loop yields in every round and
  takes `comm_mutex` in every round, so strong fairness is what a mutex that is
  free again and again gives.  A thread that holds a mutex drops it.
  MPI delivers (`RecvTask`) and reports the completed barrier (`Leave`) if asked
  again and again.  No user thread has to return.
- *A thread with a worker executes; a ready thread gets one* if workers are free
  again and again (`Threading`, `Affinity`): Qthreads keeps ready threads in queues.
  User threads yield now and then; a computation that never does would
  keep `threading_disable` from ever returning, in the code as well.
- *The user's functions return* (`Async`, `Step`; `Proxy`, `Step` and `End`).  The
  user's calls need not be made, handles need not be dropped (`Reclaimed` speaks of
  objects without references), and promises need not be set.

## Proofs

TLAPS proves, for any processes, mains, tasks, threads, workers, ranges, programs and bounds:

| module | theorems | from the invariant |
|---|---|---|
| `SharedRptr_proofs` | `TypeCorrect`, `RefcountIsExact`, `NothingDangles`, `ObjectsOutliveHandles`, `ManagerInvariantHolds`, `NothingResurrects`; `ImplementsObject` | `IInv` (`Invariance`); for the refinement with `Names` |
| `Server_proofs` | `TypeCorrect`, `TerminationIsSafe`, `LocksExclude`, `NothingIsSentTwice`; `ImplementsPool` | `IInv` |
| `Async_proofs` | `TypeCorrect`, `NoFutureOfTwo`, `CalledOnce`, `NoLeakNoDangling` | `IInv` |
| `Proxy_proofs` | `TypeCorrect`, `NothingAborts`, `CachedProcIsRight`, `ProxiesAsIfLocal` | `Inv` (`Invariance`), if no function returns a proxy of an object elsewhere |
| `AllThreads_proofs` | `TypeCorrect`, `RunsOncePerWorker`; `StartImplementsRun`, `PinsOncePerWorker`, `EveryWorkerPinned`; `WorkersShareTheNode` | `IInv`; `StartInv`; `LayInv` |
| `Threading_proofs` | `TypeCorrect`, `TasksUseWhatIsThere`, `CallerIsAlone`, `WorkersAreActive` | `IInv`, with one caller |
| `NestedIota_proofs` | `TypeCorrect`, `DividesInOrder`, `ServedWithinLimits` | `IInv` |
| `Grid_proofs` | `PlacesApart`; `GridsAreFields` | `Sound` |

They rest only on the assumptions that the modules name and TLC evaluates in every
run: the constants are distinct, sets of processes (those of a start of `Affinity`
are counted from 0) and workers are finite, there are as many tasks as workers (`AllThreads`), a type can hold something and strides are positive
(`TraitsAssumption`, `RangesAssumption` of `NestedIota`: the latter is `invariant()` in
`adt/index.hpp`, and `empty` is the one type left out; `CallsAssumption` of `Calls` says it of
the ranges and boxes of a program, one of which is empty).  TLC has checked each of the
invariants on the run of its model.
`ManagerInvariant` (`manager::invariant()`), `MutualExclusion` (of the event loop's
mutexes) and `Reported` are stated in the modules and proved, but no run lists them: they
are conjuncts of, or follow from, what the runs list.

**Reference counting.**  `RefcountExact` alone is not inductive: to know that a
decrement meets a positive count one must know which reference it gives back.
`IInv` adds that a live manager has a positive count and all others none
(`CountStatus`), that managers know owners older than themselves on the object's
process (`Structure`), and for each kind of message what it will find when it is
delivered (`ObjectMsgs`, `IncrefMsgs`, `DecrefMsgs`): for example that at most one
`incref_then_decref2` speaks for a manager, and that a `decref1` is sent by a
manager that is gone and was registered.  The lemma on which all rests is
`OwnerIsLive`: the owner of a manager that exists is live.  If the manager is
registered, the owner counts it.  If not, its transfer is under way, and keeps
counted the manager that the reference came from, which was made earlier and has
the same owner; the least manager of such a chain is registered.
`CountedAdd` and `CountedRemove` do the counting of messages once for all steps.

**Event loop.**  `BarrierHolds` and `OnePlace` are inductive with `Located` (a
thread that runs has a place), `Locks` (the mutexes' holders are in the sections
they guard), `Sent` (tasks in queues and with MPI have a destination and have
not been started), `Taken` (only a loop in `send` holds tasks taken from its queue),
`Exclusive` (the five places exclude each other) and `Kept`
(a task sent is somewhere, until a process has returned).

**Proxies.**  That a process is right, a pointer local or an answer correct says nothing of
what is still on its way, so the invariant is a type system.  A typing gives each cell, when
it is made, what it will hold: a pointer to an object of some contents on some process, a proxy of such
an object, a process, or a number (`Holds`).  A proxy means an object if its cell is typed as a
pointer to it, and then the process it has cached is that of the object or none (`Means`).  For each kind of
call, `JobOK` says what its arguments must be for the result to be of the type of its
cell: `GetsPtr` for example runs where the object is, `Unproxies` and `Constructs` claim its process
or none.  `HeapOK` says so of all cells, `VarsOK` that each variable means what the program
was promised (`meant`).  Each step keeps the typing of the cells there are and types those it
makes (`Grows`, `AddTyped`); a proxy that is sent becomes one of the same meaning
(`LoadStands`, `LoadedTyped`).  `NoAbort`, `CachedProc` and `AsIfLocal` are read off the types.
The hypothesis `ObjectsHere` excludes the functions `there`, which return a proxy of an object on another
process.  It is needed: with them `NoAbort` is false, which is finding 4.

**Run on all workers.**  The invariant counts workers.  Until the last task is done,
`count_done` is the number of workers whose task waits in the second spin loop, and
as many workers as sequence numbers have been drawn are held by a task that
stays (`Gathering`).  When `count_done` reaches the number of workers
these sets are all workers, each of which has run the function (`Finished`).
The proof does not use the guard of the first loop.  It is about `Spec` of `AllThreads`.
`StartImplementsRun` carries it over to `Affinity`, whose every step is one of `run` or
leaves its counters alone; so each worker pins itself once, and with `StartInv` (who has
run the function has reported and is bound) all have when `initialize` returns
(`EveryWorkerPinned`, the part of `Pinned` that threads could spoil).
The rest of `Pinned` is about the numbers that each process computes alone
(`WorkersShareTheNode`).  `LayInv` says that who goes on has the layout of `set_rank_size`, on
nodes of one size, and that `div_exact` had no remainder once a worker has run.  The root numbers
the nodes as it meets them, one process after the other, and after each
the nodes met so far are numbered without a gap (`Numbered`, `MetNumbers`; the
table is a recursive function, which exists because each process looks only at the one before,
`MeetsExists`).  The ranks on a node are 0 up to its size (`LocalRanks`), so its threads
are numbered without a gap (`NodeThreads`), and to count the users of a PU is to count
numbers (`HowMany`).  What remains is division: with enough PUs
thread `i` of `n` has PUs of its own (`Enough`), with too few the first thread of PU `u` is
`u * n / m` rounded up, so that no PU gets two more than any other (`Shared`, `TooFew`).

**Futures.**  `OneSetter` alone says too little about what a setter will do.  `IInv` gives
each cell a stage of its life (`Staged`): unused, deferred, asked for, taken by a waiter or run by
its own thread, answered, done, promised, replaced; for each stage it fixes the
trigger, the threads that run the job, the messages about the cell and the state of its
promise, so that `Setters` can be read off.  `Kind` and `Called` say what the
cell's job is and whether its function has been called; `Future`
what a serialized future points to.  A waiter may run the jobs of other
cells, one above the other: `Stacked` and `Linked` say that each waits for the one above,
so that no job is run twice or by two threads.

**Threading switch.**  `IInv` says for each place in the caller's code what lock, flag and `go`
are and where the tasks of this round may be (`Stages`), that no task is on two workers
(`Placed`), and that the counter counts both the tasks beyond the flag and the workers they
hold; when it reaches the number of the other workers, all others are held.  The theorems
have the hypothesis `OneCaller`.  It is needed: with two callers `AllActive` is false,
which is finding 2.

**Nested containers.**  The invariant only says that each inner container that is filled is
the one calculated for its index.  The theorems are about that calculation: that a
range of stride `s` is cut by outer strides that are multiples of `s`, or not at all
(`PartsDisjoint`, `PartsCover`), that the pieces follow one another (`Pieces`, `Glue`), that
a box is cut in each dimension on its own (`BoxesDisjoint`, `BoxesCover`), and the bounds on
products and powers behind the choice of sizes (`OuterServed`, `InnerServed`,
`OuterBoxServed`, `InnerBoxServed`).  Induction is over sets of numbers
(`Upwards`), which the provers can instantiate.

**Grids.**  `Apart` (part of `Sized`, and so of `AllTypeOK`) and the refinement, for boxes of any
size and any number of dimensions.  The positions of a grid
depend on its shape alone: they are the indices below it (`Box`, `PositionsAre`), though the loop
takes them as the digits of a number.  A grid is `Sound` if all positions are in the data
and no two at the same place, and if an outer dimension has no smaller stride than an inner one
(`Rising`).  `Rising` is what a boundary needs: `stride` takes the least of two numbers for the
innermost dimension, and only with it is that the right one, so that a boundary has the strides of
the grid without the one of the missing dimension (`SideSpace`).  In a new grid
`linear` of a position is its number in the loop (`Digits`, `NewPlaces`), so that the
constructor's writes do not meet and each position holds what the function returned for it
(`Made`).  In a boundary the place of a position is that of the same position of the grid, with
the missing index put back (`SidePlaces`): soundness passes on, and the boundary is the field at
that end (`SideIs`).  Everything is said of sums and products as recursive functions, which
exist and are unique by `Recursion` and `Unique`.
The proof shows nothing of `invariant` of an index space, which does not hold
in general (see the notes below): with four dimensions it may fail where all places are right.

**Refinements.**  `ImplementsObject` and `ImplementsPool` prove the safety parts (`SafeSpec`) of
`ImplementsSharedObject` and `ImplementsTaskPool`: initial states map to initial states, and
each step to a step or to a stutter.  For the first, `Names` says that an object has
the name of the manager that made it, and `NoEarlyFree` that it is there while anybody
holds it.  For the second a task is lost only once all mains have returned
(`StrandedIsLate`).

Only model-checked:

- everything that speaks of what eventually happens (`Reclaimed`, `Terminates`,
  `WaitReturns`, `Resolves`, `InitializeReturns`, `DisableReturns`), and the fairness of the two
  refinements, because TLAPS does not prove liveness here;
- the containers other than `NestedIota` and the grids: trees are recursive operators, about
  which nothing can be proved here; flat containers and nested ones fold with operators that
  take operators; and `IsContainer` and `AllTypeOK` compose all kinds, so that the theorems about `Grid`
  do not name them;
- of grids, the stencils, the folds, `head` and `last`, `invariant`, and `Grid2`, whose space is written in
  other terms (`AllStencils`, `AllEnds`, `AllTypeOK`).

## Findings

1. **Threads outlive the event loop** (`ServerShutdown`).  `eventloop` resets
   `send_queue_mutex` (`server.cpp:484`) without waiting for the detached threads
   that it has started.  One that still runs, or that drops the last `shared_rptr`
   of a remote object, locks through a null `unique_ptr` in `enqueue_task` (line
   273), although the comment at line 258 says "Enqueue task (from any thread)".
   The passing run of `Server` contains such threads as `crashed`, and shows that
   nothing else goes wrong because of them.
2. **`threading_enable` clears its flag too early** (`ThreadingTwoCallers`).
   Line 105 clears `threading_disabled` before the workers have left the lock.
   Another thread may call `threading_disable` at once; it makes a new lock and
   sets the counter to 0 under the first caller, which then returns although
   the comment at line 110 says "Wait until all workers have unlocked the lock,
   and are active again".  With one caller at a time (the passing run) all
   is well.
3. **An empty range aborts** (`NestedEmptyServed`).  `nested_calc_outer_size` says
   "empty range, decide whether to create empty or unit outer container"
   (`nested_impl.hpp:134`) but chooses the largest outer size, and
   `nested_calc_outer_inds` asserts that its range has that size, or makes a range
   of step 0.  `iotaMap` over nothing fails; the trees avoid it by a case of their
   own.  The variant for boxes divides by zero if the outer container may be empty.
4. **Unwrapping claims the wrong process** (`ProxyUnwrap`).  The constructor of a
   `proxy` from a future of a proxy of a proxy gives the result the process of the
   outer object (`proxy.hpp:245`, and 259 for an rvalue).  The inner object
   may be on any process, and then the assertion at line 227,
   `cxx_assert(proc == ptr.get_proc())`, ends the program.  If functions
   return proxies of objects on their own process only (the run `Proxy`), all is well.

Deviations met while modelling, for which no document says otherwise and no run is made:

- `nested_calc_outer_range` (`nested_impl.hpp:293`) divides the extent of a box
  without rounding to its stride.  With a
  stride other than one the second inner container may start between two indices, and
  the function is called outside of the range (`Divided` therefore asks for a unit
  stride in boxes).  The trees use strides only over vectors, which have no limit.
- `mjoin` of a `maxarray` (`fun/maxarray.hpp:366` and 379) copies every inner container to
  the front of the result, over those before it, and leaves the rest of it unset: it is
  right only if one inner container at the most has elements.  The model does the same
  (`unset` is what such an element holds).  `Laws` of `MaxArray` says that the laws of a
  monad fail for two elements or more, and `IsList` exempts the calls that overwrite.
- `mbind` of an `either` that is passed as an lvalue makes a left result without its
  value (`either.hpp:168`); the rvalue overload keeps it.  Both are in the model; `Laws`
  of `Either` says that the first breaks the laws for every left value but the default
  one, and the second for none.
- `mjoin` of an `array` takes the first inner one, `mbind` of a `pair` drops what is beside
  the element: `munit` is neutral only for an array of equal elements, and for a pair
  with a default first.  `Laws` of both say so.
- The stencil of a one-dimensional grid asserts sizes that a grid of one point, and
  views with an offset or gaps, do not meet (`stencil1_ok` in `Grid`).  `iotaMapMulti`
  of a grid takes only the shape of its box, not where it begins nor its steps.
- `index_space::invariant` fails for some views of views in four dimensions (shape
  (2,3,5,2), the upper end of dimension 3, then the lower end of dimension 0): the offset
  is not reduced by the stride that was taken away.  Up to three dimensions, which is
  what the sources use, `AllTypeOK` holds.  In any number of dimensions the positions
  are where they should be (`PlacesApart`): it is the test that is wrong.
- `operator==` of two proxies that are not null is true before it looks at them
  (`funhpc/proxy.hpp:369` to 376).
- `decode_policy` of `sync | deferred` yields the asynchronous policy.
- `set_rank_size` asserts that all nodes have as many processes as that of the root, and
  the layout that threads divide the PUs without a remainder; otherwise the program ends
  at its start (`exit` in `Affinity`).
- A promise that is assigned to, and a packaged task that is reset, let go of their
  future without a word; only the destructor reports it (by an exception that nothing
  catches).  `mzero` of a `shared_future` is one that is not valid, fewer than the
  `min_size` of its traits.

## Not modelled

- *Trees and nested containers in two and three dimensions*: their branches hold 27
  subtrees at the least that is interesting, and the stencils repeat, layer for layer,
  what `Grid` does in several dimensions and `Tree` in one.  The policies of `nested`,
  which choose a process for each inner container and no values; trees over other
  containers than `nested<shared_ptr, vector>`.
- *`getIndex` and `accumulator`* of the arrays, beyond what the grids use of them;
  the stencils of a `shared_ptr` and of a `shared_future` in two dimensions, which
  hand their arguments on.
- *`dummy`*, which has declarations only, and *`function`*, a reader of an argument,
  which has no elements to be folded.
- *Comparison operators* of `shared_rptr`, `proxy` and the containers, output, and the
  elementwise operators of `adt/arith.hpp`, a function of one line each.
- *Tasks and serialization*: `cereal/` and the template machinery of `cxx/` have no state
  of their own.  A task is a member of a set in `Server`, a call in `Async` and `Proxy`.
- *Calls of hwloc and the environment* (their results are `start` in `Affinity`), program
  entry, `finalize`, which ends MPI, configuration, examples, tests.

## Plan

1. `SharedRptr` with `SharedObject`: done, safety proved.
2. `Server` with `TaskPool`: done, safety proved.
3. `Async` and `Proxy`: done.
4. `AllThreads`, `Threading`, `Affinity`: done.
5. `Index`, `Vector`, `SharedPtr`, `Nested`, `Tree`, the flat containers and the grids
   with `Contents`: done, trees and nested containers in one dimension.
6. Theorems: the safety of `Async`, `Threading`, `NestedIota`, the safety parts of both refinements, and
   that `Affinity` implements `AllThreads` and shares the PUs, that proxies are as if local, that
   `linear` of `Grid` keeps positions apart and a grid is a field: done.
7. Models next: trees and nested containers in two dimensions over grids, as
   `examples/wave3d.cpp` has them.
