# Verification of the SMP T-Kernel

TLA+ models, TLC runs and TLAPS proofs for the SMP T-Kernel in `src/`, a
real-time kernel for several cores that share one set of kernel data, with its
system manager, memory management and libraries. Processor-dependent parts are
those of the ARM port (`smp_naviengine`); where the SH ports differ in more than
register names, in their dispatcher, they are modelled too. Below, K is
`src/kernel/tkernel/smp_src/`, C `src/kernel/sysdepend/cpu/smp_naviengine/`, M
`src/kernel/sysmgr/` and L `src/lib/`.

## 1. The system

### How it runs

All kernel data is guarded by one nested spin lock. `BEGIN_CRITICAL_SECTION`
disables interrupts and takes it, `END_CRITICAL_SECTION` brings `schedtsk[]` up
to date, asks other cores by an interrupt to switch, and switches tasks itself
or releases the lock (C `cpu_status.h`). What runs inside is atomic for
everybody else. The hard behaviour lies around it:

* a core that has disabled its interrupts and spins for the lock, while another
  core suspends, terminates or deletes the very task that spins;
* `ctxtsk[]` (what each core runs) that lags behind `schedtsk[]` (what it should
  run) until an interrupt, a handler's return or the end of a call;
* contexts and stacks of tasks that have ended but are still in use by a core;
* long computations inside a section that call each other through hooks: a wait
  that ends changes the priority of an owner who waits himself;
* code that does without the lock: handlers that run on the way out of a call,
  the entry of an interrupt, calls between processors, start-up;
* everything above the kernel, which runs as tasks with locks of its own: device
  management, memory management, the log, extended SVCs with their break
  functions, the libraries' locks.

### Components

| component | state | operations | what makes it correct |
|---|---|---|---|
| Choice of tasks (K `ready_queue.c`) | none (a function of the ready queue, affinities, `ctxtsk[]`, `dispatch_disabled[]`) | `ready_queue_top` | every task that can run with the more urgent ones runs, once, on an allowed core; nobody moves for nothing |
| Ready queue (K `ready_queue.h`, `task.c`) | queue per priority, bitmap, `top[]`, `chg` | insert, delete, rotate, move last | `top[]` and bitmap agree with the queues, the schedule with `top[]` |
| Dispatcher (C `cpu_status.h`, `cpu_support*`, `cpu_calls.c`; SH ports) | `ctxtsk[]`, `dispatch_disabled[]`, pending interrupts | critical sections, `chk_dsp`, `into_dsp`, `chk_restore`, `exit_dsp` | one core per task, no missed switch, no freed stack in use |
| Tasks (K `task_manage.c`, `task_sync.c`, `wait.c`) | state, priorities, counts, wait data | create to delete, suspend, wake, events | state and queues agree; suspension and waiting combine |
| Mutexes (K `mutex.c`) | owner, wait queue, owner's list | create, delete, lock, unlock; hooks | exclusive owner, priority rule, no forgotten waiter |
| Semaphores, event flags, mailboxes, message buffers, ports, pools (K) | value or contents, wait queues | signal or send, wait or receive, delete | nobody waits for what is there; nothing lost or doubled; messages in order |
| Timer (K `timer.c`, `time_calls.c`) | timer queue, handler queues per core | interrupt, cyclic and alarm start/stop | due once, in phase; handlers that are queued run |
| Object and SVC locks, subsystems, exceptions (K `klock.c`, `subsystem.c`) | lock queues, pending exceptions, SVC nesting | extended SVC call and return, break, raise, end | a lock has one owner; a break function runs once and in time |
| Domains and names (K `mp_domain.c`, `objname.c`) | hash table, domain counts | create, delete, rename, find | what a name finds may be used; counts are exact |
| Device manager (M `device.c`, `deviceio.c`) | devices, open descriptors, requests | define, open, request, wait, close, suspend | no request lost, none left at a close |
| Memory (M `imalloc.c`, `smpmemmgr.c`, L `memalloc.c`) | free queues with marks | allocate, reallocate, free | areas and pages disjoint, all accounted for |
| Library and spin locks (L `libtk`, `libsplock`) | counts, bits, a semaphore or event flag | lock, try, unlock | exclusion; no waiter is stranded |
| Interrupt controller (L `int.c`, C `cpu_calls.c`) | vectors, handlers, shared words | define, enable, set | an interrupt runs the old handler or the new one |
| Calls between processors (`smpcall_drv.c`) | requests | request, wait, execute | executed once, with its own parameter |
| Start-up and shutdown (K `tkstart.c`, `sysinit`, M `smmain.c`) | what has been initialised | every step, every failure | nothing used before it is there, nothing left behind |
| Log (M `syslog.c`) | a message buffer, a flag | send, print | no message lost |

Components meet through the ready queue (every wait and wake), the wait queue
hooks (`rel_wai_hook`, `chg_pri_hook`), the timer queue, and `schedtsk[]`, which
system calls write and the dispatchers of all cores read. The hazards of this
code, each with its line and the property for it, are in `PROJECT.json`.

## 2. Modules

Definitions have the name of the function they model; where a function is cut
into steps, the parts are named for it. A definition `f_Something` next to `f`
is `f` with a plausible mistake, which one of the properties detects.

    Schedule <-- implements -- ReadyQueueTop       ready_queue_top, step by step
       ^ INSTANCE
    Dispatcher <-- implements -- ShDispatch        cores, critical sections
    ReadyQueue                                     queues, top[], bitmap, chg
    Mutex                                          mutexes, priorities, waits

    Wait ^ TaskSync Semaphore EventFlag Mailbox MessageBuffer Rendezvous
           FixedPool MemoryPool(AreaQueue)  --->  Objects  -- implements --> Channel

    KernelMemory(PagePool, AreaQueue) Directory(Domain) Device TaskException
           UserLock SpinLock IntCtrl        --->  System
    Timer StartUp SysLog SmpCall            --->  Machine

`MCDispatcher`, `MCMutex`, `MCObjects`, `MCSystem` and `MCMachine` hold the definitions the `.cfg` files use. The
modules named `...Proofs` hold the theorems.

**Schedule, ReadyQueueTop.** `Schedule` is the contract: `Selected` goes through
the tasks in ready order and takes each one that can be matched with a core
together with those taken before; a schedule puts the selected tasks on allowed
cores, each once. It is stated over bipartite matchings. The code does without:
it keeps in `hist[]` the union of cores and the number of each set of tasks
selected so far and tests the condition of Hall's theorem on them, then places
tasks greedily. `ReadyQueueTop` has these steps, with the placement order of the
nested loops given as a rank.

**ReadyQueue.** `que`, `bitmap`, `top`, `chg` are the fields of `RDYQUE`; each
action is a function of `ready_queue.h` or its caller in `task.c` and `klock.c`,
with the recomputation of `schedtsk` the caller makes. Tasks may run on any core
here, so `schedtsk` is the set of the first `NProc` tasks. `reschedule` first
chooses and then looks at each task that loses its core (`displaced`), any of
which may be found to have used up its time slice and goes behind the others of
its priority; nothing else happens in between. A task that waits for an extended SVC
lock is READY but in the lock's queue, with `klockwait` set, as in the code.

**Dispatcher.** A core is in one of five places (`PC`): in a task, spinning for
the lock with interrupts disabled, in a handler on top of the task, in the
dispatcher's loop, in a handler on top of the loop. Sections are single steps:
`END_CRITICAL_SECTION` takes the new ready queue and sets `schedtsk`, `ipi` (the
interrupt requests of `dispatch_request_other`) and what the core does next.
`schedtsk` may be any schedule of the contract. `fresh` marks tasks whose saved
context is the start of the task; `stkfree` and `free` tell who has to release a
deleted task. `NoEffect` stands for every call that fails or changes nothing
modelled, `make_wait` for every call that waits, `make_non_wait` for every call
and handler that ends a wait.

**ShDispatch.** The SH dispatcher's loop: one core finds that no core is
left with a wrong task, sets `restore_context_disable` to RDS_ENABLE and keeps
the lock until all have loaded; the others load without the lock. Each load and
store of the loop is a step. `Timely` says that a core that was told to load has
stored its task (a dozen instructions) before the lock is taken again. `PortSpec`
joins both dispatchers under a variable `port` that never changes.

**Mutex.** Task states, priorities, suspend counts, wait masks and timers
together with mutexes of all four kinds. A system call is atomic except for
`change_task_priority`: when the task whose priority changes waits for a mutex,
its hook may change the owner's priority, and so on. Each such call is a step
(`chg` is the call about to be made, `cont` the rest of the system call that
started the chain); nothing else can happen meanwhile. `late` holds the tasks
that another core suspended while they spun and that complete their call all the
same.

**Objects.** `Wait` is `wait.c` and `wait.h`: tasks, wait queues in either order,
timeouts, releases, disabled waits. Each kind of object adds its calls, its
queue and its two hooks; `Objects` composes them as the code does through
`wspec`, with the task calls that reach into every queue (`_ter_tsk`,
`tk_chg_pri`, `tk_rel_wai`, `tk_dis_wai`). `MessageBuffer` keeps the ring byte by
byte, `AreaQueue` the splitting and merging of areas for the variable pools and,
through `KernelMemory`, for `Imalloc` and the library's `malloc`. `Channel` is
what mailboxes and message buffers promise: an ordered channel.

**System.** Seven components that share no state: memory pages and areas
(`PagePool`, `KernelMemory`), domains and the objects of every type with their
names (`Domain`, `Directory`), devices (`Device`), extended SVCs, break
functions and exceptions (`TaskException`), the library's locks (`UserLock`),
spin and read/write locks instruction by instruction with interrupts between an
exclusive load and its store (`SpinLock`), and the interrupt controller
(`IntCtrl`, load by load and store by store). A behaviour uses one of them: the
variable `used` says which; interleaving components that share nothing would only
multiply the states.

**Machine.** What runs beside the tasks, composed in the same way with a variable
`part`: the timer with the handlers that calls execute on their way out
(`Timer`), the way from reset to power off on every processor with any step
failing (`StartUp`), the log (`SysLog`), and functions executed on other
processors (`SmpCall`).

## 3. Runs

| run | asks |
|---|---|
| `Place` | Does `ready_queue_top` implement its contract, exactly at every step, without moving anybody for nothing? |
| `ReadyQueue` | Are `top[]`, the bitmap and the schedule right after every sequence of operations? |
| `Dispatch` | Are contexts, stacks, schedule and interrupt requests right under every interleaving of two cores with three tasks that start, wait, suspend, resume, terminate, delete and create each other, from tasks and from handlers, on both ports; and does the SH dispatcher implement the other? |
| `DispatchLive` | Does a task that may not run any more leave its core, and do the cores come to run the schedule, on both ports? |
| `DispatchRotate` | Violation, see findings. |
| `MutexChains` | Inheritance and ceiling mutexes locked in any order, so that tasks can wait for each other in a cycle: are the priorities and queues right after each chain, and does the chain end? |
| `MutexCalls` | Mutexes of three kinds, ordered locking, and every way a wait or a task can end early. |
| `MutexTerDeadlock` | Violation, see findings. |
| `Objects` | Every other kind of object, one kind at a time, under every call and every disturbance of a wait. |
| `System` | The seven components of `System`. |
| `SvcLockLost` | Violation, see findings. |
| `Machine` | The four parts of `Machine`, with liveness. |

### Bounds

* Two cores are where every race of `Dispatcher` shows: one that changes a task
  and one that runs it; the third task is needed so that a core has something
  else to run and a task can be displaced. `DispatchLive` has two tasks.
* In `Place` the interesting case is a task that must make room because a later
  one has fewer choices; this needs 3 cores and overlapping affinities ({1},
  {1,2}, {2,3}, all). Four tasks for three cores let the selection drop one from
  the middle of the queue. `MAX_PROC` of the ports is at most 4.
* In `ReadyQueue` four tasks of three priorities on two cores fill `top[]` and
  leave two behind it, in one queue or in two.
* In `Mutex` a chain needs three tasks and two mutexes: one runs, one waits
  and owns, one waits for that one. Two priorities tell a raised task from
  others. `MaxSus` bounds the suspend count; the code's own bound is `INT_MAX`.
* `Objects`: three tasks (two wait and compete, one acts), one object of one kind
  (`MaxKinds`), counts up to 2, one wait disturbed per behaviour
  (`MaxDisturbed`), at most two rendezvous of a task. The tasks are alike, so
  they are a symmetry set.
* `System`: four pages of eight bytes, two domains, up to three tasks, mutexes
  and domains and two objects of every other type, of two types at a time; names
  that hash alike; extended SVCs nested twice; three users of a lock, two drivers
  with vectors in one word. Devices: three tasks, two descriptors and two requests,
  so that a close waits for two calls, or for one beside a wait for any; `DeviceBound`
  narrows what is explored of suspension, and after `unseen` and `refused`. Spin
  locks: two processors, one with handlers nested twice (`Depth` 3), which is what a
  store by another level's load takes; `SpinBound` stops after such a store, nests
  handlers between load and store, and lets only tasks disable interrupts.
* `Machine`: two processors, one cyclic and one alarm handler and six ticks for
  the timer; three processors for start-up and for calls between processors, of
  which two call, one asynchronously twice; two senders with two messages each
  and a buffer for one.
* Deadlock checking is on where somebody can always go on; in `System`,
  `Machine` and `SvcLockLost` a component may come to its end (the machine is
  switched off, every message is sent) and it is off.

### Fairness

`MutexChains` uses weak fairness of the steps of the kernel between taking and
releasing the lock: interrupts are disabled and the code runs on.
`DispatchLive` assumes of each core of the ARM port: it gets the lock it spins
for, goes on in the kernel and the dispatcher's loop (weak), and takes a pending
interrupt if its interrupts are enabled again and again (strong, since each
entry to the kernel disables them for a while). On the SH port a core that tries
the lock again and again gets it (strong), because it finds it taken
in between. That a core gets the spin lock is an assumption about the hardware:
it is not a ticket lock. `Machine` assumes of each processor that it executes
and takes interrupts that stay or come again and again, that handlers return,
and that the tasks of the system run; for the lock of the calls between
processors no fairness is assumed. Nothing is assumed of application tasks.

## 4. Properties

The ones a reader should look at first:

* `ImplementsContract`: the selection by `hist[]` and the greedy placement
  are together a correct matching algorithm.
* `ScheduleCurrent`: `reschedule` moves expired tasks back after it has
  chosen; the choice still is the head of the queue.
* `NoDoubleRun`, `DeletedOnce`, `StartsAfresh`: three checks of `is_ctxtsk`, in
  `chk_restore`, `tk_del_tsk` and `tk_sta_tsk`, are what keeps a context and a
  stack from being used twice; each mutant drops one of them.
* `DispatchRequested`, `StopsRunning`, `Settles`: no switch is missed.
* `ImplementsDispatcher`: the SH cores, which load in a protocol of their own,
  do what `Dispatcher` describes.
* `PriorityRule`: after each chain, every priority is what `release_mutex` would
  compute from scratch. `ChainEnds`: a chain around a cycle of waiting tasks
  stops.
* `OwnerLink`, `WaitersHaveOwner`, `WaitQueues`, `DormantHasNothing`: who owns,
  who waits and in which queue, through every way a wait or a task ends.
* `NobodyWaitsForWhatIsThere`, `ResourcesConserved`, `RendezvousSafe`,
  `MessagesInOrder`: what tasks wait for, over all kinds of objects.
* `MemoryCorrect`, `DomainsCorrect`, `DevicesCorrect`, `ExceptionsCorrect`,
  `LocksCorrect`, `InterruptsCorrect` in `System`; `HandlersCorrect`,
  `StartCorrect`, `LogCorrect`, `CallsCorrect`, `InPhase`, `Progress` in
  `Machine`. Each is a conjunction whose parts are defined and explained in the
  component's module.

## 5. Findings

Three runs show what the code does against its own comments.

* `MutexTerDeadlock`. Tasks that wait for each other in a cycle of inheritance
  mutexes, and one of them is terminated. `_ter_tsk` takes it out of the queue
  and runs its `rel_wai_hook` while its state still is TS_WAIT; the chain of
  priority changes comes round to it and `gcb_change_priority` puts it back. The
  DORMANT task then stays in the wait queue. `wait.h:46` says that `wait_cancel`
  removes the task from the wait queue.
* `DispatchRotate`. A task calls `tk_rot_rdq(TPRI_RUN)` and is suspended by
  another core before it gets the lock. `rotate_ready_queue_ctx` moves "the
  running task" to the end of its queue by the links it still has, and the
  suspended task is in the ready queue again, although `make_non_ready` "deletes
  the task from the ready queue" (`task.c:299`). The model follows the links only
  as long as the neighbours are where the task left them. The passing runs
  therefore never combine rotation among tasks of equal priority with suspension.
* `SvcLockLost`. `AllUnlockSVC(tcb)` goes through the list of the task that calls,
  not of `tcb`: when a task terminates another one, the caller's extended SVC
  locks are released and the other's stay taken (`klock.c:178`).

A further one came out of a proof. Without `NoDeletionInDeadlock` the property
`PriorityRule` fails: two tasks wait for each other's inheritance mutex, another
task deletes one of the mutexes, and the chain that lowers its former owner
(`mutex.c:440`) comes round through the task that waits for the mutex being
deleted and raises that owner again. It keeps a priority that nobody claims.
`MutexChains`, the run that checks the property in such cycles, deletes nothing.

More disagreements are kept out of the passing runs by a constant or by the
instance; setting it shows them:

* `IntCtrl.SettingsKept`: `SetIntMode` and `EnableInt` load and store a word with
  only their own processor's interrupts disabled; two processors that do so at
  once for different vectors lose the setting of one (`int.c:101`, `:185`). Give
  both drivers levels or modes.
* `ShDispatch.LoadsComplete` with `Timely = FALSE`: `exit_dsp` counts a core that
  has been told to load and has not stored its task yet as done
  (`cpu_support_c.c:103`); if the schedule changes first, it loads a task that is
  no longer its own, and nobody tells it (`cpu_status.h:42` skips NULL).
* `SysLog.NoneLost` with `Early = TRUE`: a message sent while the log task starts
  on another processor finds no log task at the first look (`syslog.c:91`), one
  at the second (`:103`), and is dropped; or it finds `logtask_alive` set (`:123`)
  and `log_msg_maxmsz` not yet (`:124`), and is cut to length 0, which is an error
  of `tk_snd_mbf` and turns the log task's output off for good.
* `SysLog.LogCompleted`: a full buffer clears `logtask_alive` for good (`:98`),
  and `svc_syslog_wait` ("Wait until log is completed") returns at once from then
  on. A message may also be written twice, and what is in the buffer when it is
  deleted is lost.
* `TaskException` with `Holders = FALSE` excludes the termination of a task that
  holds an SVC lock.

The last kind stays in the passing runs and in the theorems: the model takes the
step, a variable that is only there for the properties records that it was taken,
and the property says what is right until then and what stays right after it.
TLC finds a counterexample when the variable is dropped from the property.

* `Device.unseen`. `abort_allrequest` counts the calls in the driver by `nwaireq`
  and the `tskid` of each request. A wait for any request beside other calls of
  the descriptor (`deviceio.c:811`, `:630`: nothing keeps them apart) overwrites or
  clears `tskid`, and a close counts it for one (`:392`); or `tk_rel_wai` ends the
  wait of the close, whose result nobody looks at (`sysmgr.h:55`). The close then
  goes on while the driver still has a request of the descriptor. Afterwards
  `OpensExact`, `RequestsExact`, `ModesRespected`, `DriverInformed` and
  `SuspensionExact` hold all the same.
* `Device.refused`. A second opener does not call `openfn` because the first one is
  in the queue (`:309`), though its `openfn` is not done; if it fails, the second
  one has a unit open that the driver refused. `DriverInformed` leaves such units
  out.
* `UserLock.released`. `Lock` does not look at the result of `tk_wai_sem`
  (`fastlock.c:59`): a waiter that `tk_rel_wai` releases enters beside the owner, and
  the semaphore's count is one too high from then on, so that two tasks may enter
  again and again. The lock is never lost by that: `cnt >= 0 => Copies >= 1`.
* `SpinLock.crossed`. A handler that has enabled interrupts loads a free lock and
  is interrupted before its `strex`; another processor takes the lock, and the
  inner handler tries it, finds it taken and returns. The way back to a handler
  does not go through the kernel's lock (`chk_dsp`, `cpu_support_c.c:40`), so the
  monitor that the inner `ldrex` has set lets the outer `strex` succeed: two
  holders. Between a task and its handlers this cannot happen, whatever the
  handlers nest.

What looks like a further one is not. `abort_allrequest` reads `abort_cnt` after
`UnlockDM` (`deviceio.c:416`), in a step of its own (`TestCount`). The last call may
leave the driver before that; the close then does not wait, and the `tk_dis_wai`
meant for its wait is left over. But it is taken back when the close ends:
`svc_ientry` clears the wait mask on the way into an extended SVC and restores it
on the way out (`subsystem.c:599`, `:625`), and the one wait for a semaphore in
between that may be disabled is the close's. `AbortSignalled` says so
(`diswai \subseteq At(...)`), and that the disabled wait finds the requests gone.

## 6. Proofs

TLAPS proves the following for every value of the constants that the named
assumptions allow (`ConstAssumption` and its like: NULL is no task, there is at
least one core and priority, sets of users are finite). The theorem of a property
`P` has the form `Spec => []P`; under it stands an inductive invariant that says
more than `P`. Beyond the assumptions on constants a theorem's `ASSUME` names what
it excludes, and each such exclusion is one that a run or a trace shows to be
needed.

**ReadyQueueProofs**: `TopExact`, `BitmapExact`, `OneQueueLink`,
`ScheduleFollows` from `QueueInvariance`, with no assumption but the constants'.
The order is separated from the queues that represent it. `IsTop(S, B, a)` says
that `a` holds the first `NProc` elements of a set `S` under an order `B`;
`PutTopIsTop` and `ShiftIsTop` show what an insertion and a removal do to such
an array, whatever `S` and `B` are, and `NextFollows` that `get_next_tcb` finds the
successor. The order of the queues, `Ord`, is total on the queued tasks and is
extended or restricted by each queue operation (`OneQueueChanges`). `RInv` adds
the lock's waiters, and that the tasks `reschedule` has still to look at are in
the queue and outside `top[]`: moving one of them back then leaves `top[]` and
the choice as they were, which is why the code may end time slices after it has
chosen.

**DispatcherProofs**: `RunsOnOneCore`, `StartContextSafe` and `NoMissedDispatch`
from `Inv` (`Invariance`); `TypeCorrect`, `FreedOnce`, `OnlyReadyScheduled` from
`SafeInv` (`SafeInvariance`). `Inv` strengthens the third one: a core that spins
for the lock and runs a task it should not run must have been told already, since
`tk_del_tsk`, `tk_cre_tsk` and `tk_dis_dsp` return without a look at `schedtsk`.
`SafeInv` adds that a task that waits has left its core when the section ends.
It needs `RotationSafe` (rotation by a task or suspension, not both), which is
what the finding `DispatchRotate` is about. `SectionStep` and `NoDispatchStep`
say once what every `END_CRITICAL_SECTION` does; each call then only has to
describe its effect on the task and the queue.

**PortProofs**: `PortsImplementDispatcher` proves the refinement that the run
`Dispatch` checks: with `Timely`, each load and store of the SH dispatcher's loop is
a step of `Dispatcher` or changes nothing there. `LoopInv` is the invariant of the
protocol: which cores have stored their task, which have been told to load, and
who may reset `restore_context_disable`. Through the refinement the theorems
above hold on the SH port as well (`PortsRunOnOneCore`, `PortsStartAfresh`,
`PortsTellCores`, `PortsFreeOnce`, `PortsScheduleReady`).

**MutexProofs**: `TypeCorrect`, `Ownership`, `NoForgottenWaiter`,
`QueueConsistency`, `TerminationReleasesAll`, `SuspendConsistency` from `IInv`
(`Invariance`). Between the steps of a chain the pending call `chg` and its
continuation `cont` are part of the state, so `IInv` says of each continuation
what it will still do (`ContOK`), and that only suspended tasks are `late`. It
assumes `NoTerminationInDeadlock`: locks are taken in an order, or `tk_ter_tsk` is
not called; the run `MutexTerDeadlock` is the counterexample without. With an
order, the mutexes along a chain descend, so it cannot come back to the task that
is being terminated.

The second half of `MutexProofs` has `QueuesStaySorted`, `PrioritiesExact`, `CeilingsRespected`
from `IInv /\ PInv` (`PriorityInvariance`). In the middle of a chain priorities are
not what they should be; `Settled` says that all would be if only the one pending
change were made (`Target`). `Bounds` and `Reason` state "the highest of its base
priority, its ceilings and its claimants" without a minimum: a lower bound that
is reached. Four lemmas carry the argument: `HighestClaim` (what `release_mutex`
computes), `HandOver`, `LeaveClaim` and `ReleaseDue`. Besides the assumption
above it needs `NoDeletionInDeadlock`, which this proof brought to light (see
findings).

**SystemProofs**: for the composed specification, whose invariant `SysInv` is that
of the component in use. `LocksOfTheSystem`, with `UserLocks` and `SpinLocks` of the components. For `FastLock` the property with
its types is inductive: holder, waiters and wake-ups on their way add up to the
counter. `FastMLock` wakes by an event flag and must know whom the counter of
waiting tasks counts (`WaiCounts`). Its counter and the tasks agree in every
state; that the lock is there once holds as long as no released wait went on
(`released`), that it is not lost in every state. For the spin locks `SeenIsValue`
says that an exclusive store succeeds only if the word still is what was loaded,
provided that the monitor was set by the level that stores (`Fresh`); what runs
over a level that has loaded has either loaded itself, so that the tag names it, or
nothing (`OverLoad`), and a task never finds the tag of a handler.

`InterruptsOfTheSystem`, for any number of processors and vectors: `TargetKept` and
`HandlerCurrent` are about what is left when a call has ended, so `IntInv` goes
through the calls step by step. One call at most is inside the kernel lock
(`OneCall`, `HoldsLock`); `DefineSound` says what `tk_def_int` has written when it is
at a step, so that a vector never leads to a handler that is not there yet; and
`TargetSound` that a word which was loaded is still what the register holds when
it is stored.

`ExceptionsOfTheSystem`, for any number of tasks and any depth of nesting. A task
is described by the stack of calls it is in, and `TexInv` relates that stack to
the control block: `execssid` belongs to the innermost extended SVC and each
SVC has saved what it said of those below (`Traced`), `texflg` says whether a
break or subsystem function is somewhere on the stack (`Flagged`), and the
exceptions that were raised are in `exectex` or in what one of the SVCs has saved
(`Served`). `LocksSound` says of each step which lock the call has or is about to
take, and who is in its queue; `BreaksSound` that a break function called by
another task is called with that lock taken and after the SVC was marked. It
assumes `~Holders`: nobody terminates a task that holds the lock of an SVC. The
finding `SvcLockLost` is what happens otherwise. The proof corrected
`BreakInside`, which had said that the broken task stays in its SVC: a third
task may terminate it and start it again meanwhile, which takes three tasks to
happen.

`DevicesOfTheSystem`, for any number of tasks, devices, descriptors and requests.
Its invariant `DevInv`, in **DeviceProofs**, says who has each block between the
locked sections of a call, where the property only sees the result. Its first half,
`TablesSound`, holds in every state:

* `BlocksSound`: a descriptor that is being opened or closed is with one task,
  which made or took it for its group; `CleanersSound`: one task cleans up a group.
* `QueuesSound`: the queues of the descriptors hold the requests that are not free,
  each once, whoever completes them and how often; they are empty when a descriptor
  is freed. `FirstRemoved` is the lemma on sequences under it.
* `DriversSound`: how often the driver was told that a unit is open, plus the calls
  of `openfn` under way, minus those of `closefn`, is how often it has to be told
  (once for each descriptor with `TDA_OPENREQ`, once for all without). Only with the
  calls under way is this kept by every step; `DriverInformed` follows when there
  are none. An `openfn` that fails while others rely on it breaks it: `refused`.
* `SuspensionSound`: `DisSusCnt` is the sum of what the groups have disabled.

The second half, `CallsSound`, holds as long as a close sees every call in the
driver (`~unseen`):

* `RequestsSound`: a request in the driver names the task that has it there
  (`tskid`), and the requests a close completes name nobody.
* `AbortsSound`: from the section that sets it to the end of the wait, `abort_cnt`
  is the number of tasks with requests of the descriptor in the driver; it is read
  without a lock, and if it is found zero nobody is left. A task whose wait is
  disabled is in the close it was disabled for, and nothing is left to wait for.
  A wait for any request (`nwaireq`) is alone with it.

The steps of a call fall into classes, and there is a lemma for each part of
`DevInv` and class: the block stays (`KeepsBlock`), it opens, closes or moves
(`MovesBlock`), a request enters the driver (`Enters`) or leaves it (`Leaving`), or
is completed by the close. The theorem assumes nothing but the constants' own.

**MachineProofs**: `CallsExecuted` and `LogKeepsAll`, for any number of
processors and requests, and of tasks and messages. In a call between processors
the requester keeps two bits of each processor (`status`); `Accounts` says that
they tell exactly where that processor is with the request, which is why
`smpc_req` may overwrite `func` and `param` once they are clear. In the log a
message that is not safe yet is in the hand of its sender (`InHand`): it was sent
to the buffer, or the switch is off and cannot be turned on before it is written.
`LogKeepsAll` assumes `~Early`; section 5 has what happens otherwise.

**TimerProofs**, with the theorem `HandlersSound` in `MachineProofs`: the event
queues and the handlers, for any number of processors, handlers and tasks. The
calls of `Timer` compute the next state as a record `k`, so the invariant `KInv(k,
e, S)` is about a record: the handlers in `S`, and no others, have their event in
one queue; the timer queue is sorted and what it holds is to come; `act` of a
queue says that its loop is requested, runs, or has ended with its task.
`EventsQueued` and `AlarmAlone` are not inductive, for two reasons. In the
middle of a call `S` is not yet the set of handlers that are started, and a loop
between two handlers is neither requested nor running: `KInv` counts it in
`e`. And that an alarm handler runs alone rests on where it may run: `Placed`
says that only its own processor queues it or runs it from a queue, and that one
called at once shows that in its flags, which is what `WouldOverlap` asks. There is
one lemma for each step (`Inserted`, `Enqueued`, `Executed`, `Expired`, ...) and
one for each call. `PhaseHeld` is the action property `InPhase`: `OnBeat` says of a
step that the time of a cyclic handler moves by a multiple of `cyctim`, and that a
handler that is called is set for a time to come; `NextInPhase` shows it of
`cyc_next_time`.

Only model-checked:

* Liveness: `ChainEnds`, `StopsRunning`, `Settles`, `Progress`.
  Proofs under fairness are out of the prover's reach.
* `GreedyExact`, `NoNeedlessMigration`: the matchings of `Schedule` are defined by
  recursion over the queue, and Hall's theorem would need induction over sets.
* `Objects`, and in `System` memory, domains and names: their contents are rings,
  trees of areas and lists computed by recursive functions and folds. The parts without them can be proved (see plan).
* `StartCorrect` of `Machine`: `StartUp` is about programs of some sixty steps,
  put together from their parts.
* The refinements of `Objects` to `Channel` and of `ReadyQueueTop` to `Schedule`.

## 7. Not modelled

* Calls made by a task with its interrupts disabled: `END_CRITICAL_SECTION` does
  not switch then (`cpu_status.h:85`). `klocked` tasks, which `tk_ter_tsk`
  refuses. A core number or affinity given up while tasks run (`tk_chg_spr`).
  Registers, floating point and caches, low power.
* In `Dispatcher` priorities do not change; rotation by a handler and time slices
  are in `ReadyQueue`. Stacks are freed by marking the control block.
* Object locks (`LockOBJ`): they have the code of the SVC locks without owners.
* Devices: a suspension decided before `UnlockDM` (`deviceio.c:1110`),
  `devmgr_break`, the `tk_evt_dev` message. The manager's own locks (`LockDM`,
  `LockREG`) are taken to exclude: they do not look at the error of `MLock`, so a task
  that `tk_rel_wai` releases while it waits for one would go on without it. The
  list of a wait for any request is the set of requests it began with; in the code
  it is linked through the requests (`req.next`), which another call may link anew.
  A group is cleaned up by one task at a time, when its tasks are in no call.
* Subsystems: one deleted while its functions run, resource groups, a break
  function that makes extended SVC calls. Cleanup of a killed group may wait for
  ever.
* Timer: a cyclic handler of phase 0 that overlaps itself; that a timeout may end
  early by part of a tick; system time.
* Locks: termination of a task that uses a library lock; creation and deletion, so
  a wait that ends with E_DLT; `Lock` where a task may not wait (E_CTX), which goes on
  as a released wait does.
* Rendezvous numbers come again after sixteen calls; the run stays below.
* Domains: `tk_fdel_dom` of a domain that is not empty (`Forced`). The ID of a
  deleted object names the next one created in the same block and domain.
* `IntCtrl`: clearing the handler of an enabled interrupt (`ClearEnabled`) makes
  the entry jump through NULL.
* `StartUp`: an arrival counted before the first processor clears its memory
  (`EarlyEvent`); other processors keep running during a shutdown.
* `ControlCacheM` called with interrupts disabled on two processors at once
  would deadlock; no caller does.
* Pure functions (`libstr`, `bitop`), call stubs, reference calls (`misc_calls.c`),
  configuration strings, register-level drivers.

## 8. Plan

In this order:

1. Proofs for `Objects` without message contents: `QueuesAgree`,
   `NobodyWaitsForWhatIsThere` for semaphores and event flags.
2. Proofs for the numbers and names of `Domain`, and for the memory of `System`.
3. Object locks with their wake-ups, `devmgr_break`, resource groups, subsystems
   that are deleted while they run.
4. An abstract lock service (one owner, waiters served by priority or in order)
   that `Mutex` implements.
5. Base priorities that change in `Dispatcher`, with time slices.
