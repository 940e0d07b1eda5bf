# baba.io in TLA+

baba.io is a small asynchronous io library (timers and tcp sockets) for C++. A
program creates an `io_service`, some `io_strand`s and io objects, starts
operations with a callback, and calls `io_service::run`. On Linux the library
moves every operation along a *conveyor* of threads:

    thread of the program -> epoll -> reactor thread -> reactor task threads -> strand
        (recv, send,                (epoll_reactor::    (react: the system     (complete:
         accept, ...)                wait)               call)                  the callback)

and the destructor of an io object sends a *final event* along the same way, so
that memory is given back only behind everything that still points to it. This
directory models the conveyor, the queues it is made of, the registrar that owns
its memory, the life of the service around it, the objects and values a program
holds and the socket calls beneath; it checks them with TLC and proves what it can
of what they promise with TLAPS.

Paths below are relative to `src/`; `epoll/` is `detail/os/reactor/epoll/`.

## 1. Inventory

| component | source | state | operations |
|---|---|---|---|
| descriptor and event | `epoll/epoll_reactor_event.*` | `fd`, `event_mask`, `in_scope`, `in_scope_mtx`, `read_event`, `write_event`; `react`, `complete`, `has_active_event`, `strand`, `id` | set and clear the mask bits |
| operation events | `epoll/events/epoll_{recv,send,accept,connect,timer}.*` | the event taken from the registrar | start, `for_completion`, `do_react`, `dispose`, moves |
| io objects | `epoll/io/epoll_async_{tcp,acceptor,connector,timer}.h` | the (shared) descriptor, the operation events, the strand | constructors, moves, conversion of a connector into a socket, operations, destructor |
| reactor | `epoll/epoll_reactor.*` | epoll fd, `_run` | `wait`, `stop`, `close` |
| interrupter | `epoll/epoll_interrupter.*` | self pipe | `init`, `interrupt`, `close` |
| strand | `epoll/epoll_completion_strand.*` | completion queue, `_run` | `enqueue`, `post`, `run`, `stop`, `clear` |
| service | `epoll/epoll_service.*` | `_run`, deletion queue, task queue, threads, registrar | constructor, `create_strand`, `run`, `stop`, three loops, destructor |
| queues | `detail/library/{blocking_queue,lockable_queue}.h` | deque, mutex, condition variable, `_active` | `enqueue`, `dequeue`, `wait`, `stop`, `clear` |
| registrar | `detail/os/common/event_registrar.*` | id -> event, next id | `take`, `give`, `close` |
| public classes | `src/*.cpp`, `src/pimpl/*.h` | `_strand`, a `unique_ptr` | moves, assignments, calls forwarded to the os classes |
| cancellable tasks | `src/cancellable_task.cpp`, `inc/baba/cancellable_task.h` | a flag and a mutex, shared by reference count | wrap, run, `cancel` in the destructor |
| system calls | `detail/os/impl/*` | the kernel's | `epoll_impl`, `bsd_socket_impl`, `linux_timer_impl`, `unix_file_impl` |
| addresses, options | `src/ip_*.cpp`, `src/socket_option.cpp`, `detail/os/socket/*` | values; an endpoint keeps its address twice, for the program and for the kernel | parse, convert, copy, move, `set_option`, `get_option` |
| other back-ends | kqueue, iocp, windows, wsa | | not built on Linux |

**How they interact.** A program thread calls an io object; the operation event
stores a closure in `react`, sets its bit of `event_mask` and calls `epoll_ctl`.
The reactor thread learns of readiness through a *raw pointer* to the descriptor,
kept by the kernel, and enqueues a closure that calls `react` through that
pointer. A task thread runs it and enqueues `complete` on the event's strand;
the strand runs the callback under the descriptor's `in_scope_mtx`. The
destructor takes a final event from the registrar for each of its events and
puts it into the deletion queue; the reactor hands it to the task queue, a task
thread to the strand, and the strand gives both events back. No reference
counting covers the raw pointers: that none outlives its event rests on the order
in which the queues are emptied and on `has_active_event`.

**What is hard.** Every stage is another thread. `event_mask`, `react`,
`complete` and `has_active_event` are plain fields handed from thread to thread.
Destructors run on any thread, also inside a callback of the object itself, and
also because the registrar destroys the closure that held the last reference.
Files are armed oneshot: each report disarms, the reactor re-arms what it did not
get. Hang-ups are reported unasked. `stop` clears five flags one after the
other while every loop may be anywhere. Objects are moved while operations are in
progress. `PROJECT.json` lists these hazards at their lines.

**What makes each part correct.**

- conveyor: no event is used after it is given back; `react` and `complete` are
  called while they hold a function; a callback runs once, in order, never out of
  scope; nothing reported is lost; destroyed objects are reclaimed; destructors
  return.
- queues: no sleeper while there is work, each task once, first in first out, stop
  ends every loop.
- registrar: an event is in it from its take to its give, no thread waits for the
  mutex it holds, nothing is left to be destroyed by the final `clear`.
- service: the destructor is alone; nothing is dropped without a stop; everything
  is reclaimed in the end; the pipe outlives its writers; stop makes run return.
- objects: one owner per file, descriptor and event, whatever is moved where; an
  object in use is complete; every open file is known to somebody.
- cancellable tasks: no body after the destructor, which returns.
- values and socket calls: what an endpoint shows the kernel is what it tells the
  program; OK means done, but for the six kinds of call listed in section 3; a socket
  knows its peer; a timer runs for the time asked.

## 2. Plan

The order in which the modules were written, the most important behaviour first:

1. `EpollService` with its abstract specification `AsyncIo`; `TaskQueue` (abstract)
   and `BlockingQueue`; `EventRegistrar`; `ServiceLifecycle`; `Handles`.
2. `CancellableTask`, on `BlockingQueue`; `Addresses`, `ValueObjects` on it,
   `Sockets` on that.
3. Proofs, in a module beside each component: `EpollServiceProofs`,
   `BlockingQueueProofs`, `CancellableTaskProofs`, `EventRegistrarProofs`,
   `LifecycleProofs`, `HandlesProofs`, `SocketsProofs` (with the values).
4. `ConveyorInvariant`, the inductive invariant of the conveyor, and `ConveyorProofs`,
   which rests on it.

What could follow, and what stands against it:

- `event_mask`'s `|=` and `&=` as a load and a store each, the bit that a failed arm
  leaves behind, and the number of a closed file used again while the reactor still
  re-arms it: each multiplies the states of the conveyor, whose first run already
  takes minutes.
- `EventRegistrar` composed under `EpollService`: same reason. The two meet in the
  order take - dispose - give, which each checks from its side.
- `NoLostOperation` for full-duplex programs: TLC finds no violation with one socket,
  but an operation can be in several places of the conveyor then, and the invariant
  would have to say which of them is the one that counts.

## 3. Modules

Which module stands on which: `BlockingQueue` implements `TaskQueue`, and
`TaskQueue` - a line of tasks, taken at the head, in one step - is what
`EpollService` and `ServiceLifecycle` take a queue to be. `EpollService`
implements `AsyncIo`. `EpollService` models the service while it runs,
`ServiceLifecycle` how it comes to run and ends; `EventRegistrar` and `Handles`
look at the two ends of an event's life, the closure that holds objects and the
object that holds events. `CancellableTask` runs on the queue of `BlockingQueue` and
extends its specification. `Sockets` extends `ValueObjects`, which extends
`Addresses`: system calls, the objects the program passes to them, their values.

### EpollService - the conveyor

`mask`, `inScope`, `owner` are `event_mask`, `in_scope` and the holder of
`in_scope_mtx`. An event is a pair of descriptor and mask bit. `react[e]` and
`complete[e]` hold the number of the operation whose callback the function
captures, 0 when it is empty; `hasActive` is `has_active_event`. `deletion`,
`tasks`, `completion` are the three queues, `interest`, `fdOpen`, `wake` what the
kernel keeps, `registered` and `finals` the two kinds of event in the registrar.
`issued` and `called` count operations and callbacks and are history.

| actions | code |
|---|---|
| `Initiate`, `Arm`, `ArmFails` | `epoll_recv::recv` and its four siblings: `react` and the mask bit, then `epoll_impl::arm` with the mask *as it was read*; failure completes at once |
| `DestroyBegin`, `DestroyRemove`, `DestroyClose`, `Dispose`, `Interrupt`, `DestroyEnd` | `~async_tcp` and siblings: lock, scope, `epoll_impl::remove`, close, `dispose` of each event (take a final event, deletion queue, pipe), unlock |
| `Wait`, `WaitInterrupted`, `Drain`, `ClearMask`, `Rearm`, `RearmFails`, `MarkActive`, `Dispatch`, `ReportDone` | `epoll_reactor::wait`, report by report |
| `StartDeletion`, `Delete`, `EndDeletion` | `process_deletion_queue` |
| `TakeTask`, `React`, `EnqueueFinal` | a reactor task thread |
| `Complete`, `CallbackReturn`, `Final` | a strand; between the first two the callback runs and makes calls of its own |

The data of an operation, the system call in `do_react` and the five kinds of
operation are one: what differs is the bit and the number of events, which `Kind`
gives.

### AsyncIo - the promise of the conveyor

Start, CallBack, Destroy, Reclaim: a callback runs once per operation and only
while the object is alive; the events of a destroyed object, and only those, are
reclaimed. `EpollService` refines it with `alive <- inScope`, `held <- registered`.

### ConveyorInvariant - why the conveyor is safe

No state and no actions: the inductive invariant of `EpollService`, in named parts.
The code has no list of what is in progress; what keeps a raw pointer valid and a
function from being called empty is that an operation is *in one place at a time* - in
the call that arms it, in epoll, in a report, with the reactor, in the task queue, with a
task thread, on the strand - and that the final event of a destroyed object is too.
`OperationAt(d, place)` and `FinalAt(e, place)` say that no other place has anything of
it; `InCall` to `InStrand` say, place by place, what the next step relies on: that `react`
or `complete` holds the operation, that the mask is the bit that was armed, that
`has_active_event` is set. `CallsOK` is about the threads of the program, `TakenOnce`
and `FinalIsLast` about destruction: final events are taken once, after the file is
closed, and reach the strand behind every completion.

The invariant has layers. `DestructionInv` holds of every program. `ConveyorInv`
adds the operations and holds of *simplex* programs (`Simplex`): a socket is not used in
both directions at once, its `epoll_ctl` does not fail, and a hang-up is reported together
with a bit that was asked for. Acceptors, connectors and timers are under no
condition. Each condition is one the code needs: without the first, run `full_duplex`
shows an empty `react` called; with either of the others dropped (`ArmMayFail = TRUE` or
`BareHangUps <- {d1}` in `MCTcp.cfg`) TLC finds `NoEmptyCall` violated as well, since the
bit that a failed call left in `event_mask`, or that a bare hang-up finds there, stands for
no operation. In full-duplex programs `NoDangling` is lost too: an event that was
dispatched twice loses `has_active_event` with its first completion, and its final event
no longer waits for the second.

What such programs keep is `CalledInv`: whatever the number of places an operation is in,
`react` and `complete` hold it one after the other, and once. The numbers alone
(`CountsOK`) say so, but for an `arm` that fails and finds its operation called back
already; where an open file can always be armed (`~ArmMayFail`) that happens to
files which were never opened only, and of those epoll has nothing to report
(`UnopenedOK`, `FailingCall`). TLC confirms `CalledInv` and `CallbackOnce` on
`MCFullDuplexReact.cfg` with no hang-ups, before the proof says so for all.

### TaskQueue and BlockingQueue

`TaskQueue` is the atomic queue. `BlockingQueue` takes the mutex and the condition
variable of `blocking_queue` apart: `Lock`, then one action per critical section
(`Push`, `Check`, `Sleep`, `Pop`, `Deactivate`), spurious wakeups, and `Loop`,
`RunTask`, `DropTask`, `TaskReturns` for the loops of `process_reactor_queue` and
of `completion_strand_impl::run`. `OwnRun` tells the two apart: the inner loop of
a strand watches a flag of its own, that of a task thread the one of the service.
A task that runs may itself enqueue or stop.

### EventRegistrar

The registrar's map and ids, its mutex, and who keeps whom alive: an event owns a
closure, which owns what the program captured, which may be the last reference to
an object, whose destructor takes an event. `Give` is split at the mutex;
`CloseBegin`, `CloseReset`, `CloseClear` are `close`, one entry at a time.

### ServiceLifecycle

The constructor with the failures that abort it (`ConstructReactor`,
`InitInterrupter`) and its number of threads, `run` with its starts and joins, `stop`
flag by flag, the loops of the reactor, task and strand threads and the destructor's
steps. Events of objects are followed only from the deletion queue back.

### Handles

`own[h]` is the implementation behind the `_pimpl` of a public object, `None` after
it was moved from. `AssignDefault`, `AssignNew`, `Move`, `ConvertConstruct`,
`ConvertAssign`, `Accept`, `Accepted`, `AcceptFails` are the calls of the program
and the ends of an accept; each contains the destructor of what it replaces.
`Reclaim` stands for the conveyor. An accept in progress keeps references to two
implementations, hence follows them through moves of the public objects.

### CancellableTask

`inScope`, `scopeMutex` and `owned`/`pinned` are `_in_scope`, `_in_scope_mtx` and the
references to `cancellable_task_`: the wrapper's own and those a running task has
locked. `Enqueue` wraps a task or not; a wrapped one that the strand runs goes through
`Pin` (`w.lock()`), `Body` (the mutex, then the flag), `BodyReturns`, `Unlock`,
`Unpin`. `Destroy`, `LockToCancel`, `Destroyed` are the destructor, on any thread or in
a body. All other steps are those of `BlockingQueue`.

### Addresses, ValueObjects

`Addresses` has no state: the constructors and conversions of `ip_address`,
`ip_endpoint`, the socket options and `init_timer`. An endpoint is a record of the
name the kernel is shown (`_sock`, `_sock_len`) and of what it tells the program
(`_address`, `_port`); ports are numbers with their bytes swapped, addresses are
members of `V4` and `V6`, `Zero` after a `memset` and `Junk` where nothing was
written. `ValueObjects` holds one value behind each public object: made from texts or
other values, copied, moved - which clears the source in a constructor and leaves a
null pointer in an assignment.

### Sockets

The kernel's files (`file`), what the acceptor, connector, tcp sockets, a datagram
socket and a timer keep (`fd`, endpoints), and the operation each has in progress. A
`Kernel...` operator is the set of results a call may have, failure always among
them; the operator without the prefix (`ConnectResult`, `AcceptResult`, `SetGroup`, ...)
is the function of `bsd_socket_impl` with its branches. Asynchronous operations have
three steps (`Accept`, `ReactAccept`, `CompleteAccept`), with the destructor between any
two; that these come in this order is what `AsyncIo` promises. `said` is the call that
has just returned OK, whether or not the OK is true. `lost` and `unsure` are history: files that an assignment or a
destructor has orphaned, and files whose peer nobody can know.

`OKIsDone` relates `said` to the kernel's files: OK means `Done`. Six kinds of call say
OK in the code without it, and the property names them (`SaidOnly`) instead of leaving
their OK out:

| call | why its OK says nothing | what `Undone` still says |
|---|---|---|
| `bind` of an endpoint of unknown family | no branch for it (`bsd_socket_impl.cpp:230-244`) | |
| `connect` to an endpoint that is not v4 | both branches test for v4 (`:50`, `:57`) | no v6 endpoint is ever connected |
| `recv_from` for a receiver whose endpoint is not of the family of its file | the sender is read by the receiver's family (`:113-118`) | the port is right if the receiver has a family |
| set of `IP_MULTICAST_IF` | it is passed with the length of a text (`:139`, `ip_address.cpp:64-71`), so the kernel looks for the interface behind the address | the interface is one nobody named: cleared or unwritten bytes |
| set of a group whose interface is not v4, or of an option of no family | the interface of an `ipv6_mreq` is a number; no branch for no family | |
| get of an interface that is not v4, or of a group | 4 bytes are read into 16; no branch for no family | |

## 4. Runs

| run | instance | what it shows |
|---|---|---|
| `tcp_half_duplex` | one tcp socket, both threads (its strand and the program's) use and destroy it, 2 task threads, 2 operations per event, hang-ups; fair | no use after give, no empty call, final events behind all reports, no lost wakeup, scope ends outside callbacks, the inductive `ConveyorInv`; every report is delivered, destroyed objects are reclaimed, destructors return; `AsyncIo` is implemented |
| `acceptor_and_connector` | an acceptor and a connector on a strand each, every thread uses and destroys both, failing `epoll_ctl` and failed constructors, bare hang-ups | no operation lost on the re-arming paths, callbacks once, the mutex held through nested destructors |
| `full_duplex` | as the first, but receive and send overlap | **violates** `NoEmptyCall` |
| `task_threads` | 2 task threads, 1 other thread, 3 tasks; fair | `blocking_queue` and its loops: no lost wakeup, each task once, stop ends the loops, `TaskQueue` is implemented |
| `strand_tasks` | 1 strand, 2 other threads, 3 tasks, wrapped by a `cancellable_task` or not; fair | completions run in order; no body runs after the destructor of its owner has returned, and that destructor returns |
| `registrar_self` | 3 objects, 2 strands, closures that hold their own object, as `shared_from_this` does; fair | give never destroys an object, ids are never reused, close leaves nothing |
| `registrar_deadlock` | closures may hold any object | **violates** `NoSelfDeadlock` |
| `lifecycle` | 2 strands, 1 task thread, 1 event; fair | construction, start, stop and destruction |
| `no_task_threads` | `io_service(2)` | **violates** `DestroyedIsGiven` |
| `moves` | an acceptor, a connector, 2 sockets, 4 descriptors | one owner per file and event, objects in use are usable, the reactor finds their events, nothing is lost |
| `server_peer` | an acceptor, 2 sockets, accept into a moved-from socket allowed | **violates** `PeerExists` |
| `sockets` | an acceptor, a connector, a tcp socket, a datagram socket, a timer; 2 endpoints, an address and an option of each class; one address and peer of each family; 3 files | `EndpointsAgree`, `SocketsKnowPeer`, `OKIsDone`, `FilesAccounted` while any call may fail, with the exceptions each of the last three states: peers nobody can know (`unsure`), the calls of `SaidOnly`, the files in `lost` |

**Bounds.** The conveyor's hazards are between one object's operation, its
destructor and its final events: one socket with two events and two operations
each is enough for a stale closure, a second report and a final event to meet, and
two task threads for a task to overtake another. The second run has two objects
for nested destructors and a batch of two reports. Three tasks make two consumers
compete with one left over. Three objects make a chain of closures. With one
task thread `lifecycle` keeps every order of its steps with those of run and stop;
two threads differ by who takes an event, which `task_threads` covers. Two strands
are needed because the first one runs on the thread of `run`. Four descriptors
let each of the four objects of `moves` have one, or one object four in turn, as
leaked connector events use them up. Three tasks in `strand_tasks` let one body run, one
wait in the queue and one be enqueued while the destructor stands at the mutex. In
`sockets` `MaxMade` bounds values made, copied and moved, an io object counting as
two: four let an address become an endpoint, the endpoint be moved and an object
use it, or two objects and no value. Port 258 is 0x0102, whose bytes differ; the texts are a good one
of each family and one with three dots that is no address. The timeouts are 0, which
disarms, and one with seconds and a rest. One connection at a time is in the backlog.

**Fairness.** Threads the service starts, and calls a thread has begun, go on (WF);
nobody has to start an operation, destroy an object, send a signal or stop the
service. Strong fairness stands where a mutex is taken that another thread takes
again and again, and where a queue serves its entries in order while the model
does not keep the order: `Dispose` (lock of the deletion queue, against the reactor
loop), `Lock` of the blocking queue, `Dispose` and `Give` of the registrar,
`StrandTake` in the lifecycle, `Lock`, `Body` and `LockToCancel` of the cancellable
task. A `std::mutex` promises no order of service; what is
assumed is only that a waiting thread is not passed over for ever.

**Deadlock** is checked in the runs of the conveyor and of `Handles`. The other
systems end: queues are stopped, registrars closed, services destroyed, and the
program of `sockets` has used up its `MaxMade`.

## 5. Findings

- `full_duplex`: `event_mask` is read by a starting thread before `epoll_ctl` runs
  and cleared by the reactor in between: the delivered event is armed again and its
  empty `react` called.
- `registrar_deadlock`: `give` destroys the closures of an event under the
  registrar's mutex; if that destroys an object, its destructor waits for the same
  mutex. `close` has a comment about exactly this and takes no lock; `give` does.
- `no_task_threads`: the constructor uses its argument only when it is 0.
- `server_peer`: the example server accepts a second time into the socket it has
  moved from, whose `_pimpl` is null.

Seen while modelling and not given a run of their own, as the models follow the code
and the properties leave them out, each with its reason in a comment:

- The constructor of `timer` leaves `_strand` null (`src/timer.cpp:22`), which
  `strand()` asserts (line 29); `Accounted` excepts timers.
- `socket_impl::connect` tests for v4 twice (`bsd_socket_impl.cpp:50`, `:57`): a
  v6 endpoint is reported connected without a call (`OKIsDone` excepts it). Sockets are blocking, hence
  `EINPROGRESS`, which the code allows for, does not come.
- An address option is passed with the length of its text
  (`ip_address.cpp:64-71`), 16 bytes for an `in_addr`: `set_outgoing_interface` returns
  OK and sets another interface.
- `recv_from` returns OK with the sender misread when the endpoint it is passed is not of
  the family of the file (`bsd_socket_impl.cpp:113-118`).
- A default-built option, `"Used in getting option"` (`socket_option.h:30`), has level
  and name 0; set and get of a default address or group option return OK without a
  call.
- `inet_pton`'s result is ignored: a text with three dots that is no address makes a v4
  address of unwritten bytes.
- `bind` keeps its endpoint when it fails (`epoll_async_acceptor.h:99`), and accept
  reads the peer by that endpoint's family.
- An acceptor destroyed between the system call and its callback loses the
  accepted file; assigning to a socket in use through accept or a conversion loses its
  file; a converted connector's event stays registered.
- A timeout of 0 disarms the timer, and its callback never comes.

## 6. Proofs

For every set of objects, threads and tasks, and without the bounds of the runs
(the guards that bound operations and tasks stay, for an arbitrary bound):

| theorem | argument |
|---|---|
| `EpollServiceProofs!TypeCorrect` | `TypeInv`: the types and `BitsOK`. The types alone are not inductive: a step that takes an event from a pair of descriptor and bit needs to know that the object has that bit |
| `EpollServiceProofs!WakeupNeverLost` | the property is inductive with `TypeInv`: what fills the deletion queue sends its thread to `interrupt`, and the reactor returns to `wait` only from an empty queue |
| `EpollServiceProofs!LockAlwaysHeld` | `LockHeld` is inductive with `TypeInv`, case by case over what takes and what releases the mutex, a destructor inside a callback being the case that matters |
| `EpollServiceProofs!ScopeEnds` | an action property, from `LockHeld`: the destructor that ends the scope holds the mutex the running callback holds |
| `ConveyorProofs!FinalsFollowReports` | `FinalAfterReports`, for every program: `DestructionInv` says where a final event is (`FinalAt`), and that it leaves the deletion queue only when the batch of reports is empty and the closed file can make no other |
| `ConveyorProofs!ConveyorIsSound` | for `Simplex` programs `ConveyorInv` is inductive together with `TypeInv` and `LockHeld`. One lemma per action, and per part the action disturbs: an action moves the operation, or the final event, from one place to the next and finds in the old place's part what the new place's part demands. `LockHeld` is needed where a callback arms while a destructor waits for the mutex |
| `ConveyorProofs!NothingDanglesEver`, `NoCallIsEmpty` | each place that holds a pointer is one of the invariant's, with a function there to be called; what has been given is in none |
| `ConveyorProofs!OperationsOnce` | `CalledInv`, by the numbers: `react` is set at the start of an operation and emptied into `complete`, which `Complete` empties. A thread in a failing `arm` has its operation to itself, as no report, task or worker has an object whose file is not open |
| `ConveyorProofs!CallbacksOnce` | an action property from `CountsOK`, which `ConveyorInv` and `CalledInv` both have: what `Complete` calls is the one operation whose callback is still to come, and the object is in scope |
| `ConveyorProofs!NothingIsLost` | inductive relative to `ConveyorInv`: as the operation has one place, a step that empties that place must be the one that fills the next |
| `ConveyorProofs!KeepsPromise` | `Promise!Spec`, the safety part of `ImplementsAsyncIo`: every step of the conveyor is `Start`, `CallBack`, `Destroy` or `Reclaim` of `AsyncIo` under the mapping of `EpollService`, or leaves its variables alone |
| `BlockingQueueProofs!TypeCorrect` | types, with what a busy consumer has in hand |
| `BlockingQueueProofs!WakeupNeverLost` | `SleepInv`: `Exclusion` (critical sections hold the mutex), `Asleep` (sleepers are at the condition variable) and `NothingToDo` (a thread between its check and its sleep still sees an empty, active queue because it holds the mutex) |
| `BlockingQueueProofs!RefinesTaskQueue` | every step of `BlockingQueue` is a step of `TaskQueue` or a stutter: the safety part of `ImplementsTaskQueue` |
| `BlockingQueueProofs!StrandRunsInOrder` | `OrderInv`: the queue holds the last numbers enqueued, and what has run or is in hand is all before them |
| `BlockingQueueProofs!TasksCounted` | `OnceInv`: the tasks before those in the queue are held, run or dropped, there are as many of these as have left, and no task is held twice or held and dropped (`HeldOnce`); a counting argument over finite sets, as `EachTaskOnce` compares cardinalities |
| `EventRegistrarProofs!SelfCapturesAreSafe` | `NoSelfDeadlock` for programs whose closures hold their own object only: `HoldsItself` (what a closure holds is alive), `FinalsOfTheDead` and `MutexInGive` say together that the object of an event that is given is dead, so erasing the event releases nothing |
| `EventRegistrarProofs!EventsOwnedOnce`, `CloseLeavesNothing` | for any captures: `Stages` says which of its two events an object has, by how far its end has come; `Single` that one thread is at its end; `Referenced` that what is referred to is alive and the other way round; `Reachable` that a closure which holds something is in an event the loop of `close` has still to visit |
| `LifecycleProofs!DestructorIsAlone`, `OnlyStopDrops`, `EverythingReclaimed`, `PipeOutlivesWriters` | `LifeInv`: for each place of the thread in `run`, who has started and who has ended (`StartedAndJoined`), that stop clears `_run` before any strand's flag (`StopClearsRunFirst`), when there is a pipe (`PipeLives`), and that with every thread ended nothing moves after the registrar has been cleared (`ClearedForGood`) |
| `CancellableTaskProofs!WrappedKeepsQueue`, `WrappedInOrder` | each step with wrapped tasks is a step of `BlockingQueue` or leaves it alone: its specification is implied, and with it `InOrder` |
| `CancellableTaskProofs!CancelFinal` | `CInv`: a consumer past `Body` holds the mutex, or the canceller does while the flag is down (`ScopeHeld`), a consumer between `Pin` and `Unpin` keeps the state alive (`KeptAlive`), and consumers in a wrapped task are in a task of the queue |
| `HandlesProofs!OneOwner`, `InUseIsUsable` | `SoleOwner` and `Usable`, for programs that give accept a fresh peer (`FreshPeer`): `Whole` (an implementation in use is complete, any other has no descriptor), `Apart` and `PeerWaits` hold only together - a destructor takes from an object what is its own, which leaves the others whole because they are apart, and accept fills a peer that owns nothing |
| `HandlesProofs!EventsAreFound` | `ReactorFindsEvents`: `Pointing` says, for each object in use, that both pointers of its descriptor are its own events; new events are taken for a descriptor nobody else in use has |
| `HandlesProofs!NothingLost` | `Accounted`: `Balanced` (files and events are the sum of what the objects in use, the disposed and the converted have), `Orphans` (the converted are nobody's else) and `StrandsKept`, carried through each step as the objects that keep what they have plus the one that is given something |
| `HandlesProofs!TypeCorrect` | from `Inv` and `Orphans`: that the converted events are registered is not a matter of types alone |
| `SocketsProofs!TimerExact` | division with remainder by 1000; also `NoWrap` (the product stays below 10^9, hence in 32 bits) and `SwappedTwice` |
| `SocketsProofs!ValuesAgree` | every constructor makes, and every copy and move keeps or clears, a value in `GoodEndpoint`, which is the type of an endpoint with `Agrees` |
| `SocketsProofs!SocketsTyped`, `SocketsAgree` | `Typed`: each object, operation and file is in its set of records, with good endpoints; a lemma for each function of `bsd_socket_impl`, then each action. `SocketsAgree` needs all of it, as `GetEndpoint` hands endpoints that accept made back to the program |
| `SocketsProofs!FilesAreAccounted` | `OneOwner` (no two objects, nor an object and an accept that waits for its callback, know the same file) and `EachOwned` (open files are those that are known or lost): closing takes away one owner's file only because it is nobody else's |
| `SocketsProofs!PeersAreKnown` | `SuccessInv`: what each object keeps of its operation agrees with the kernel's file from the system call to the callback and after (`AcceptedOK`, `ConnectedOK`, `TimingOK`), files and the names that reach them have one family (`FamiliesOK`), options fit their class (`OptionsOK`). A step is followed file by file (`FileSteps`): the peer of an open file is written by the connector's own connect alone, and its time by the timer's own calls. That no other object's step changes it rests on `OneOwner` of the row above |
| `SocketsProofs!SuccessIsReal` | `OKIsDone` with the exceptions of section 3, call by call: what a call that returns OK has written to its file, or what `SuccessInv` says was written when the callback reports it later. That a v6 connect is never true is a part of `SuccessInv` (`NeverV6`): a connector's file gets a peer from its own v4 connects alone. For the calls of `SaidOnly` the theorem says `Undone` and no more |

The assumptions are the named ASSUMEs of the modules: disjoint threads, `None`
apart from everything else, functions with their domains. For
`HandlesProofs` also `FreshPeer`. `SelfCapturesAreSafe` assumes of the closures what
`shared_from_this` gives. The theorems of `ConveyorProofs` but the first assume
`Simplex` (section 3); the instances of `tcp_half_duplex` and `acceptor_and_connector`
satisfy it, and so does any population of acceptors, connectors and timers, with failing
calls and hang-ups of every kind. `OperationsOnce` assumes `~ArmMayFail` in its place, and
`CallbacksOnce` and `KeepsPromise` either of the two.

Only model-checked: everything that rests on fairness (`ReportedIsDelivered`,
`DestroyedIsReclaimed`, `DestructorReturns`, `StopEndsLoops`, `StopEndsRun`,
`DestroyedIsGiven`, `Reclaimed`, `CancelReturns` and the liveness half of
`ImplementsAsyncIo` and `ImplementsTaskQueue`), which is out of the prover's reach here.
Every safety property of a passing run is a theorem, under the assumptions above.

## 7. What is not modelled

- Payloads and error codes other than success and failure; byte counts but for 0.
- `event_mask`'s `|=` and `&=` are one step each; file numbers are not reused while
  the reactor still knows them.
- Blocking system calls in `do_react` return; a signal handler that interrupts a
  thread inside a queue's mutex is left out.
- Strands are created before `run`, as every test and example does.
- In `Handles`, the target of a conversion and the peer of an accept are not in use,
  and the peer outlives its accept: assigning through them would overwrite a socket
  without closing it.
- An operation is started on an event only when none is in progress there.
- `Sockets` makes one call at a time: the interleaving of threads is `EpollService`'s,
  the buffers of a text or a name are what the code looks at of them, and the interface
  of an `IP_MULTICAST_IF` with too long a length may be any.
- `shutdown` and the udp half of `bsd_socket_impl`'s callers: `shutdown` has no caller;
  `create_udp`, `send_to` and `recv_from` have none in the build either and are modelled
  as calls of a program.
- kqueue, iocp and Windows back-ends: the README of the library supports Linux only,
  and they repeat older forms of the epoll code or stubs; `epoll_recv_from` and
  `epoll_send_to` are commented out of the build (`detail/CMakeLists.txt:16-17`) and no
  longer fit the interfaces around them. The logger; the tests, which were read as the
  usage of the library.
