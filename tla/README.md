# DEmOS scheduler: a TLA+ verification project

DEmOS is a user-space partition scheduler in the style of ARINC 653: one process
that starts the configured programs, freezes and thaws them with cgroups according
to a static table of windows, and talks to them through two eventfds. The scheduler
itself is single-threaded, but everything it controls is not: the programs run
concurrently with it, a freeze is asynchronous, the events of one poll are handled
in an order fixed by libev's priorities, and timers are late by whatever the loop
was doing. Around that core are a configuration reader, power policies that write CPU
frequencies while processes are switched, and a `main()` that borrows cgroups and
cpufreq governors from the host and must give them back. This project models all of
these, model-checks them with TLC on small configurations, and proves their safety
properties with TLAPS for every configuration: those of the scheduler, of the power
policies, of the configuration reader and of `main()`.

Paths below are relative to the repository, e.g. `src/slice.cpp`.

## 1. Inventory

| component | state | operations | interacts with |
|---|---|---|---|
| client library (`lib/demos-sch.c`) | `initialization_pending`, descriptors | `demos_init`, `demos_completed`, `demos_initialization_completed` | two eventfds shared with Process |
| Process (`src/process.cpp`) | `completed`, `actual_budget`, `demos_completed`, `system_process_spawned`, `waiting_for_empty_cgroup` | `exec`, `suspend`, `resume`, `kill`, budget and jitter, callbacks for completion, child exit, empty cgroup | kernel (freezer, exit status, populated), Partition |
| Partition (`src/partition.cpp`) | process list, `current_proc`, completion and exit callback, cpuset | `reset`, `disconnect`, `seek_pending_process`, `kill_all`, `proc_exit_cb` | Process, Slice, PartitionManager |
| Slice (`src/slice.cpp`) | `running_process`, `running_partition`, `timeout`, timer | `start_sc`, `start_be`, `schedule_next`, `stop` | Partition, Window, budget timer |
| Window (`src/window.cpp`) | `finished_sc_partitions`, `stopping` | `start`, `stop`, `slice_sc_end_cb` | Slice, MajorFrame, power policy |
| MajorFrame (`src/majorframe.cpp`) | `current_win`, `timeout`, timer | `start`, `stop`, `timeout_cb`, `find_widest_cpu_set` | Window |
| PartitionManager (`src/partition_manager.hpp`) | `remaining_process_inits`, exit callback | `run_process_init`, `kill_all`, exit and completion callbacks | Partition, DemosScheduler |
| DemosScheduler (`src/demos_scheduler.hpp`) | run timeout, signal watchers | `setup`, `startup_fn`, `start_scheduler`, `initiate_shutdown`, `run` | all of the above |
| timers and eventfds (`src/timerfd.*`, `src/evfd.*`) | started flag, deadline, counter | `start`, `stop`, callbacks | libev |
| cgroups (`src/cgroup.*`) | freezer state, members, cpuset, `remove` | `freeze`, `unfreeze`, `kill_all`, `read_populated_status`, `set_cpus`, creation, `add_process`, removal | kernel |
| Config (`src/config.*`) | the normalised YAML tree | normalisation, validation, construction of the objects above | everything, once |
| CPU sets (`src/lib/cpu_set.hpp`, `src/lib/cpuset.c`) | a bit set | parse, print, set operations | Config, cgroups |
| power policies (`src/power_policy/*`) | requesting processes, next frequency | handlers of window, SC, BE and process events, `validate` | Window, Slice, CpufreqPolicy |
| power manager (`src/power_manager.hpp`, `src/cpufreq_policy.hpp`) | governors, `scaling_max_freq`, intel_pstate mode, and their original values | construction, frequency writes, restoration | kernel |
| cgroup tree (`src/cgroup_setup.*`), command line (`src/main.cpp`) | root cgroups, dummy child, all objects of an instance | construction in order, unwinding | kernel, other instances |
| `cleanup_crash.sh` | - | kills, removes cgroups, resets frequency scaling | what a crash left |
| logging, memory tracker | - | diagnostics | - |

What is hard in this code, and hard to test:

* **The completion handshake.** A program that calls `demos_completed()` bumps one
  eventfd and blocks on another. The scheduler reads the first, sets a flag, and at
  the next `resume()` turns the flag into one token. Suspends and resumes for other
  reasons (budget, window end) come between any two of these steps.
* **Completions that arrive late.** The write may have happened just before the
  freeze settled; when it is read, the slice already runs something else or nothing.
* **Batches.** A window timer, budget timers, completions, exits and signals may be
  ready in one poll. The window timer must win over the budget timers, and a stopped
  timer must take its own event out of the batch.
* **Nested callbacks.** `finished_sc_partitions` is incremented inside the loop that
  starts the slices, and the last increment starts the BE partitions from within.
* **Rounding.** Budgets are whole milliseconds, time is not. A window that ends
  within a millisecond of a budget, late loops, jitter that draws zero, and the
  encoding "a stored budget equal to the budget is no stored budget" meet in
  `Slice::stop`.
* **The end of processes.** A child may leave orphans, so its exit and the emptying
  of its cgroup are different events; initialization, the exit check and the shutdown
  all count processes.
* **Shutdown** by signal, by the run timeout or because every process ended, at any
  moment, including during initialization.
* **Power events.** The handlers of a power policy are called in the middle of the
  loops and nested callbacks above, and keep their own account of who runs where.
* **Half-done setup.** `main()` acquires a dozen things of the host one after the
  other; it may throw after any of them, or be killed, and the next instance or the
  cleanup script finds what is left, with tasks still in it.
* **Boundaries of CPU lists**: unsigned wrap-around in ranges, strides, a print
  buffer of fixed size.

What makes each component correct: the handshake loses no wakeup and grants none
twice; an exit is reported once, when the cgroup is empty; a process runs only while
a slice of the current window runs it, on that slice's CPUs and for no more than its
budget; BE partitions run only after every SC partition of the window; windows
follow each other at their nominal times; initialization ends, and only when
everybody is initialized; shutdown ends, with everybody gone. An accepted
configuration means what it says and gives the scheduler what it relies on; a
requested frequency is in force while its process or slice runs; and the host is left
as it was found, except for what is still in use.

## 2. Modules

| module | models | role |
|---|---|---|
| `ProcessApi` | client library, Process, freezer and eventfds, kernel side of exit | the protocol with one process; the scheduler is abstract and may suspend, resume and kill in any order |
| `PartitionQueue` | `Partition::seek_pending_process`, `Slice::load_next_process` / `start_next_process` | what the search for the next process returns, in closed form |
| `QueueCheck` | the same code, as the loops and the recursion of the source | compares the closed forms with the code over bounded queues |
| `Scheduler` | Partition, Slice, Window, MajorFrame, PartitionManager, DemosScheduler, event loop | extends `ProcessApi` and `PartitionQueue`; the whole program |
| `TimePartitioning` | what Slice, Window and MajorFrame promise | abstract specification, without loop, timers, callbacks and cgroups |
| `Partitioned` | - | the refinement mapping from `Scheduler` to `TimePartitioning` |
| `PowerPolicy` | CpufreqPolicy's frequencies, all power policies | handlers as operators on a policy object |
| `PoweredScheduler` | the calls in Slice and Window | composes `Scheduler` with `PowerPolicy` |
| `CpuList` | `cpulist_parse`, `cpulist_create`, `cpu_set` | CPU lists |
| `Config` | `Config::normalize`, `validate_config`, `create_scheduler_objects` | extends `CpuList`; how a configuration file becomes the constants of `Scheduler` |
| `Host` | `main()`, `create_toplevel_cgroups`, PowerManager and CpufreqPolicy objects, cgroup directories, `cleanup_crash.sh` | instances one after the other on a host, with failures and crashes |
| `MCScheduler`, `MCConfig`, `MCPower`, `MCHost` | - | configurations for TLC |
| `SchedulerProofs` | - | theorems about the protocol, its refinement by the scheduler, and the invariant of the scheduler on which the next three rest |
| `LifecycleProofs` | - | theorems about initialization, isolation and shutdown; the refinement of `TimePartitioning` |
| `TimingProofs` | - | theorems about CPUs, budgets and the time base |
| `PowerProofs` | - | theorems about `PoweredScheduler` |
| `PartitionQueueProofs`, `QueueProofs` | - | what the queue operators return; that the code's loop and recursion compute them |
| `ConfigProofs` | - | theorems about `Config` and `CpuList` |
| `HostProofs` | - | theorems about `Host` |

### ProcessApi

`ApiSpec` is at the same time a component model and the abstract specification that
`Scheduler` implements: it promises something about the handshake and about exits
for *any* scheduler that uses only the methods of Process.

`sysproc` is what the child does (`running`, `blocked` in `demos_completed()`,
`orphaned` when only its children are left, `gone`). `freezer` has the three states
of a v1 freezer: writing `FROZEN` gives `FREEZING`, which settles later
(`FreezeSettles`); until then the child may still finish a step. `completed_w` and
`efd_continue` are the counters of the two eventfds, the second with semaphore
semantics. Boolean fields of Process are sets of processes. The actions of the
client are `DemosCompleted`, `DemosInitializationCompleted`, `ReadNewPeriod`,
`Exit`, `OrphansExit` and `Die`; those of the scheduler are `Completed`, `Switch`,
`ChildTerminatedOrphans`, `HandleEnd`, `KillAll`. `SuspendResume(S, R, dc)` stands
for the suspends and the resumes of one handler, in that order. `Suspend` and
`Tokens` are the bodies of `suspend()` and `resume()`.

`FastStart` names the children that may run between `fork()` and the write that puts
them into the freezer (the TODO at `src/process.cpp:89`).

### PartitionQueue and QueueCheck

`SeekPending` and `StartNext` say what `seek_pending_process` and
`start_next_process` compute: the position of the queue, the processes skipped
because they drew a budget of zero, and the process found, if any. `StartNext` is a
set, as the draws are random. The code is a `do ... while` loop inside a recursion;
`QueueCheck` writes it that way, the loop and the recursion as recursive functions, and
states that both agree; `QueueProofs` proves it for queues of any length.

### Scheduler

State variables keep the names of the fields they stand for. Differences:

* `current_proc` and `current_win` are positions instead of iterators.
* `completed_cb` is who a partition tells: `"null"` before `startup_fn`, `"init"`
  for PartitionManager, `"noop"` after `disconnect()`, or a slice.
* Deadlines (`timeout`, `mf_timeout`, `run_timeout`) are relative to the present, in
  ticks, so the state space is finite without a bound on time. `TicksPerMs` is the
  resolution, which matters to `duration_cast<milliseconds>` (`ToMs`).
* `Window::stopping` is the value `"stop"` of `op`.
* `loop` and `pending` are libev: `Poll` collects everything that is ready, `Dispatch`
  takes the events of the batch by `Priority`. Signals and child exits come first
  (libev feeds them from its own highest-priority watcher), the zero-length startup
  timer next, then descriptors and the window timer, and last the budget timers,
  whose priority the code lowers. Events of equal priority are taken in any order.
* `started`, `stopreq` and `clock` are history variables that only properties read.

A handler that loops over slices is a sequence of forced steps: `op` says which loop,
`todo` which slices are left, `ctime` the time argument, `after` what follows the
loop, `exit_check` whether `process_exit_cb` is still to come. While `op # "idle"`
nothing else moves, so the handler is atomic with respect to the clock, to other
handlers and to the processes, as a loop over in-memory objects nearly is; the
slices of a window are visited in any order, which includes the order of the list.

| action | code |
|---|---|
| `Startup` | `startup_fn`, `PartitionManager::run_process_init` |
| `CompletedIgnored`, `CompletedInit`, `CompletedInSlice`, `CompletedCrash` | `Process::completed_cb` with the callback that the partition has at that moment |
| `ChildTerminatedButPopulated`, `ProcessEnded`, `ExitCheck` | `child_terminated_cb`, `populated_cb`, `handle_end`, `proc_exit_cb`, `process_init_exit_cb`, `process_exit_cb`, `completion_cb` |
| `SliceTimer` | the budget timer: `Slice::schedule_next(timeout)` |
| `WindowTimer`, `StopSlice`, `EnterNextWindow`, `StartSc`, `StartBe`, `StartDone` | `MajorFrame::timeout_cb`, `Window::stop`, `Slice::stop`, `Window::start`, `Slice::start_sc`, `Slice::start_be` |
| `RunTimer`, `Signal`, `KillProcesses`, `BreakLoop`, `LoopReturns` | `DemosScheduler::timeout_cb`, `signal_cb`, `initiate_shutdown`, `completion_cb`, return of `loop.run()` |
| `Tick`, `ReceiveSignal`, `Client` | time, the environment, the processes |

The model is the release build: `ASSERT` is not evaluated. What the assertions claim
is stated as properties instead (`RemainingInRange`, `NoCrash`). Stopping without a process, a null dereference in the release build, is
`CompletedCrash`: execution ends there. The power policy is `none` here, whose callbacks
do nothing (see `PoweredScheduler`); the synchronisation messages of windows and the
schedule log only print.

### TimePartitioning and Partitioned

`TimePartitioning` has no events at all. Windows are opened in cyclic order; in an
open window each slice begins to serve its SC partition (`Begin`), passes the turn
from process to process (`Yield`), and the phase changes to BE in the step in which
the last slice has served everybody, not before. Serving gives a turn to a live
process that had none in this window, and a slice may be idle only if there is none.
`Close` ends the window and `Interrupt` takes the turn away; an interrupted process
may keep its claim (`done` unchanged) or lose it. `Partitioned` maps the fields of the
scheduler to these notions: the phase is "closed" without window timer, "sc" while
`finished_sc_partitions` is below the number of slices, and "be" from then on;
`waiting` is what is left of the loops that start slices.

### PowerPolicy and PoweredScheduler

A policy object is a record with the frequency last written to every cluster, the
requesting processes per cluster, the alternation flag, and whether a handler threw.
Handlers are operators on records, since one handler of the scheduler calls several
of them. `PoweredScheduler` adds the calls to every step of `Scheduler`: a change of
`running_process` is `on_process_end` and `on_process_start`; the end of the loops of
`Window::start` and `slice_sc_end_cb` is where `on_be_start`, `on_window_start` and
`on_sc_start` are called, in the order in which the nested calls reach them. A policy
that cannot be constructed or refuses the configuration ends `main()` and gives no
behaviour; a handler that throws ends the program (`Thrown`).

### CpuList and Config

`CpuList` translates the parser on lists whose entries are records of numbers
("m", "m-n", "m-n:s", a missing number, or junk behind it). `Step` and `Stops` are the
unsigned loop `a += s` modulo `Word`; if no round stops it the parse is "endless" and
the configuration "stuck". `RunEntries` is the printer, `Fits` its buffer.

A YAML mapping is a record whose domain are the keys that are present, so "a key is
missing", "an unknown key" and "the default is filled in" are statements about
domains. Short forms that the code sends to the same place are written alike (a
process given as a string, a single process instead of a list, a partition given as a
list). The walk over partitions, windows, slices and entries is a fold with an
accumulator, because the counter of anonymous partitions and the list of partitions
run through all of it; the first `throw` or endless parse decides how it ends. CPU
lists are those of `CpuList`, or `All` for "all". `Tree` says what the conversions of
yaml-cpp leave of a file, lists and mappings where the code reads them as such; it is
all that is assumed of a file, apart from not using the names the code generates. Default budgets are computed in tenths of a millisecond, which
agrees with the `float` arithmetic of the code for windows of practical length.
`Normalize` and `CreateSchedulerObjects` are the two steps of `main()`, the second for
every set of CPUs that the affinity mask may allow.

The module justifies `SchedulerAssumption`: `SchedulerInput` states what the scheduler
relies on. `Config` does not check that the length of a window is positive, and
`SchedulerAssumption` does not assume it; a window of length zero makes the
event loop run through it again and again.

### Host

`Plan` is the sequence of constructions in `main()`: dummy child, three root cgroups
each with the test of `add_process`, then (with a power policy) the intel_pstate mode,
the CpufreqPolicy objects in any order, the PowerManager, the inner cgroups, the
forks and the moves of the children into their cgroups, and finally `run()`, which is
one step that returns or throws. Every step may fail where the code can throw;
`Unwind` then destroys what was constructed, in the order of `Rank` and `Before`,
which is the reverse of declaration: processes before partitions, the mode before the
governors, root cgroups last. A constructor that throws half-way leaves its object
out of `owned`, so its destructor does not run. Tasks are the dummy child and the
processes, of all instances; they end at any moment (the dummy child only after its
SIGTERM), and a cgroup with a task in it cannot be removed. `Crash` forgets the
objects and leaves everything else as it is; `Restart` starts the next instance on
it; `ScriptKills`, `ScriptRemoves` and `ScriptResets` are `cleanup_crash.sh`, one step
per `rmdir`. The model of the kernel (marked external in PROJECT.json) says that the
governors are reset when the intel_pstate mode changes, which governors a driver
offers, and that writing one it does not offer fails unnoticed, as the stream in
`write_governor` is buffered.

## 3. Runs

`tlc -config X.cfg M` for each row; the longest takes about two minutes.

| run | configuration | checks |
|---|---|---|
| `queue` (`QueueCheck`) | every queue of one to three processes and every choice of zero and positive draws, driven through searches, exits and new rounds | `ClosedForm` |
| `windows_late` (`MCScheduler`, `WindowsLate`) | two windows, three slices, four processes, loop up to 1 ms late, `a` and `c` call the library | `TypeOK`, `Isolation`, `BudgetTimer`, `Phases`, `CpuPlacement`, `NoDrift`, `TimePartitioned`, `TurnKept` |
| `windows_exact` (`WindowsExact`) | the same windows, punctual loop, two ticks per ms, jitter on the SC processes including draws of zero, `b` calls the library and may run before it is frozen | `BudgetBound`, `NoNullCallback`, `BeRotation`, `WakesUp` |
| `lifecycle` (`Lifecycle`) | one window, `a` and `c` initialize in parallel, `c` may leave orphans, run timeout none, 0 or 4 ms, up to one signal at any moment | `Handshake`, `EndReported`, `Isolation`, `StartOrder`, `InitBarrier`, `ReturnsAfterEnd`, `ApiSpec`, `InitEnds`, `NoFreezeAfterShutdown`, `ShutdownCompletes` |
| `config` (`MCConfig`, `ConfigFiles`) | files in six families: any partition, any entries of a slice, any CPUs of up to three slices, any CPU list of up to two entries for a slice and for DEmOS, two windows, the options; four CPUs, and any of them allowed | `NormalFormIsFixed`, `SchedulerInput`, `SlicesDisjoint`, `InlinePartitionFound`, `RoomForBe`, `StuckOnlyAtLimit`, `CpusAsConfigured` |
| `host` (`MCHost`, `Host`) | two instances in a row with one process, two clusters of which one lacks the governor `userspace`, five machines (no intel_pstate, passive, active, off, no power policy), with and without a root cgroup of the user | `UserDirsKept`, `CleanExit`, `LeftoverWasBusy`, `ScriptReachesTasks`, `CpufreqRestored` |
| `power` (`MCPower`, `Power`) | every policy, also with wrong arguments, eight tables of requests, two clusters with different frequencies and one offline, slices that span clusters | `RequestersRunning`, `FrequencyGranted`, `SliceFrequencyGranted`, `WritesSupported`, `ScAtMax` |
| `remaining`, `stale_crash`, `early_shutdown`, `init_hang`, `minbe` | see section 4 | one violated property each |

In every run of the scheduler every process may exit at every moment in which it can run.

**Why these bounds are enough to be interesting.** The configuration `Two` has a
window with two slices (so that one slice's SC partition ends before the other's and
the counter matters), a slice without BE partition and a slice without SC partition,
a BE partition of two processes shared by slices of different windows on different
CPU sets (so that its queue, its CPUs and its remaining budgets are carried over),
and budgets that end before, at and after the window. Time is relative and the clock
is taken modulo the major frame, so no run bounds the number of windows: the state
graph is finite and covers all of them. A lag of one millisecond is what makes a
budget timer and a window timer with different deadlines expire in one batch; two
ticks per millisecond is what makes a remainder of less than a millisecond possible.
The bounded counters are `MaxSignals` and, in `Host`, `MaxInstances`: two instances are
enough for one to find what another left. `CpuList` is checked with an unsigned int of
16 values and a buffer of six characters, so that wrap-around and truncation occur. The small configurations `Duo` and `Trio`
are one window with a single slice: what the runs on them ask does not depend on
several slices. Symmetry is not used: the processes have different roles. `host` does
not check for deadlock, since the last instance may simply have exited.

**What the properties say.**

* `Handshake`: a client blocked in `demos_completed()` has exactly one message of its
  handshake under way (unread completion, flag, or token), a running one none.
  `WakesUp`: it does not wait for ever.
* `EndReported`: a process object stops being spawned once, and only when its whole
  cgroup is empty.
* `Isolation`: a process is thawed only while a slice of the current window runs it,
  it is being initialized, it is being killed, or it has ended.
* `BudgetTimer`: a slice runs a process exactly while its budget timer is started.
* `Phases`: the SC and BE phases do not overlap, `finished_sc_partitions` is exact in
  the SC phase, and a stopped window leaves no timer and no event behind.
* `TimePartitioned`: the scheduler implements `TimePartitioning`: windows in order, BE
  partitions only after every SC partition of the window, at most one turn for each
  process, no slice idle while a process of its partition waits, however timers,
  nested callbacks, completions and exits interleave.
* `CpuPlacement`, `NoDrift`, `BudgetBound`: placement, time base, budgets.
* `TurnKept`: a process loses its turn in the window only because it ran and has no
  whole millisecond left, because a process of the partitions of the very slice that
  runs it reported a completion, or because it drew no budget. `Slice` does not look at
  whose completion it reads, so that a late one may end the turn of another process
  (section 4): in the run `a` does that to `c`, of another partition of the same slice,
  and `c` to `d`, in both windows. The property says that it goes no further.
* `BeRotation`: every BE process runs again and again.
* `InitBarrier`, `StartOrder`, `InitEnds`: initialization.
  The run of `InitBarrier` has no child that runs before it is frozen: with one the
  property breaks (section 4, last paragraph).
* `ReturnsAfterEnd`, `NoFreezeAfterShutdown`, `ShutdownCompletes`: shutdown. Once it was
  requested of the running scheduler, a process is frozen only inside `mf.stop()` of
  that request, before `kill_all()` has signalled it; any other freeze, by a window
  switch above all (the comment at `src/demos_scheduler.hpp:83`), is a violation. The
  stop request of `ShutdownCompletes` is one made of the running scheduler, or the
  run timeout 0; a positive run timeout before it expires is not included, since the
  crash of section 4 may come first, nor is a request during initialization.
* `NoNullCallback`: a completion that precedes `startup_fn` in time is not handled
  before it; this is due to the priority of the startup timer in the first batch.

* `NormalFormIsFixed`: the normal form printed by `-d`, saved and loaded again, is
  accepted and does not change. (Passed as an inline string it would be rejected, as
  it contains `set_cwd`.)
* `SlicesDisjoint`: after the restriction to the allowed CPUs, slices of one window
  share a CPU only because of the fallback at `src/config.cpp:490`.
* `InlinePartitionFound`: a partition defined inside a window is the one its slice
  gets, with everything the file says of its processes. The names the code generates
  are assumed not to be used in the file; a file that names a partition
  `anonymous_0` could capture a reference.
* `RoomForBe`: SC processes without budget leave time for the BE partition.
* `CpusAsConfigured`: a slice gets the allowed CPUs among those its list stands for, and
  printing them for the kernel and reading them again changes nothing.
  `StuckOnlyAtLimit`: parsing hangs only for numbers next to the limit of their type.
* `UserDirsKept`: a root cgroup that an instance found is never removed. `CleanExit`: an
  instance that exits with 0 leaves nothing else, even after a crashed one.
  `LeftoverWasBusy`: whatever fails, a cgroup stays only because a task was in it or
  below it when it was to be removed; the removal order is never the reason. A cgroup
  that stays because its tasks are still dying is tolerated, as the code does not wait.
* `ScriptReachesTasks`: `cleanup_crash.sh` looks for tasks in the freezer hierarchy only,
  and a child is forked outside of it. Wherever an instance is killed, at most one live
  task of it goes without a signal, the dummy child or the one being moved into its cgroups, and
  that one is not yet in the cpuset of its partition. This depends on the order of the
  moves in `Process::exec` and `Partition::create_processes`.
* `CpufreqRestored`: governors, `scaling_max_freq` and the intel_pstate mode are those
  found at the start, wherever `main()` threw. Left out is exactly what the code does not
  restore: the policy whose own constructor threw (`abandoned`), the mode when a policy
  constructor threw and so left the PowerManager uncompleted, and the governors (but
  not the maximum frequencies) of a machine found in the active mode, which the kernel
  sets when the mode changes.
* `RequestersRunning`, `FrequencyGranted`, `SliceFrequencyGranted`: requests are kept
  exactly while their processes run and are in force, also when a partition has moved
  to other clusters. `WritesSupported`: what `validate()` checks once covers every
  later write. `ScAtMax`: with `minbe` the clusters are at the maximum from the start of
  the SC partitions of a window until the last of them has ended.

**Fairness.** `Fairness` assumes that the event loop goes on while it has something
to do, that time passes, that the kernel completes a freeze, and that a killed
process that stays thawed dies. Nothing is assumed of the programs, with one
exception: `InitFairSpec`, for `InitEnds`, assumes that an initializing program
finishes its initialization or exits, on which the code relies too (it has no
timeout for it). `ReadFairSpec`, for `WakesUp`, assumes that a program that is
thawed again and again with a token waiting for it returns from its `read()` at some
time: strong fairness, since every suspend disables the step. A process gets its CPUs
for whole milliseconds each time, and the return from a read that need not wait takes
microseconds.

## 4. Disagreements between the code and what it says of itself

Each is a run that must find a violation; PROJECT.json quotes the lines.

* `remaining`: with jitter, an interrupted BE process may have its budget or more left;
  `set_remaining_budget` asserts that it has less. And when the loop is late by a
  millisecond the window timer is handled before the budget timer that expired first,
  and the remainder is negative; it asserts that it is positive. A debug build throws.
  A release build stores either: a remainder equal to the budget has jitter drawn
  again, a negative one is the budget of the next window. With unlucky draws the former
  repeats, so `BeRotation` is checked with jitter on the SC processes only.
* `stale_crash`: a completion written just before the last process of an SC partition
  is frozen reaches a slice that runs nothing. The assertion in
  `stop_current_process` fails; a release build dereferences a null pointer.
  In a partition of several processes the same race marks another process as
  completed and costs it its turn, which the TODO at `src/slice.cpp:33` suspects.
* `early_shutdown`: a signal during initialization kills the initializing processes;
  the exit of the last of them counts as the end of initialization and starts the
  major frame, after the shutdown has stopped it.
* `init_hang`: a child with initialization that runs before it is frozen and exits
  before `startup_fn` is counted as an initialization that never ends.
* `minbe`: in a window without pending SC process `Window::start` reaches `on_be_start`
  before `on_sc_start`, and the BE processes run at the maximum frequency.

Further observations, not (yet) runs: with `FastStart = {c}` a child without
initialization may complete during the initialization phase, which is counted as one
initialized process, so `InitBarrier` breaks. `README.md:98-108` describes a first
`demos_completed()` as the end of initialization, whereas the library ignores the call
until `demos_initialization_completed()`. `Cgroup::kill_all` treats a task that died after
it was listed as an error. If `chdir` or `execl` fails in a forked child, the exception
unwinds the child's copy of `main()`, whose destructors reset the governors and remove
empty cgroups of the running instance. A PowerManager whose constructor throws leaves
intel_pstate in passive mode. A CPU range that ends at the largest unsigned int, or
within one stride of it, is never parsed to its end.

## 5. Proofs

Checked by `tlapm` to the last leaf; for every value of the constants that satisfies
the assumptions stated with them. `SchedulerAssumption` is what `Config` and `main()`
guarantee of an accepted configuration: finite sets of processes and slices, non-empty
process lists in which every process occurs once, at least one window,
`jitter <= 2 * budget`. It excludes neither a partition in two slices of one window nor
a window of length zero, since `Config` accepts both. `HostAssumption` and
`MachinesAssumption` say that the host is in a state the kernel allows: each governor
is one that the driver offers. `PowerAssumption` and `RequestsAssumption` give the
frequency tables, the arguments of a policy and the requests their types.
`CpuListAssumption` and `ConfigAssumption` say the same of CPU lists and files (`Tree`,
section 2); nothing is assumed of their size. TLC evaluates all of them in the runs.

| theorem | states | hypothesis |
|---|---|---|
| `ApiTypeCorrect`, `HandshakeHolds`, `EndReportedHolds` | `ApiSpec => []...` for any number of processes and any scheduler | - |
| `SchedulerRefinesApi` | `Spec => ApiSpec`: every step of the scheduler is a step of the protocol or leaves it alone | - |
| `SchedulerHandshake`, `SchedulerEndReported` | hence both hold for the scheduler | - |
| `TypeCorrect`, `BudgetTimerHolds`, `PhasesHold`, `StartOrderHolds` | `Spec => []...` | - |
| `TimePartitionedHolds` | `Spec => TimePartitioned`: the scheduler implements `TimePartitioning` | - |
| `ReturnsAfterEndHolds`, `NoNullCallbackHolds` | `Spec => []...` | - |
| `NoFreezeAfterShutdownHolds` | `Spec => NoFreezeAfterShutdown`, an action property: once a shutdown was requested of the running scheduler, no step freezes a process except `mf.stop()`, and it none that was sent its SIGKILL | - |
| `IsolationHolds`, `InitBarrierHolds` | `Spec => []...` | `NoEarlyCompletion` |
| `CpuPlacementHolds` | `Spec => []CpuPlacement` | `PartitionsApart` |
| `TurnKeptHolds` | `Spec => TurnKept`, an action property, for any lateness of the loop | `PartitionsApart` |
| `BudgetBoundHolds` | `Spec => []BudgetBound` | `Punctual` |
| `NoDriftHolds` | `Spec => []NoDrift` | `FrameAdvances` |
| `PolicyPreservesScheduling` | `PowerSpec => Spec`: with a power policy the scheduler behaves as without, until a handler throws | - |
| `SliceFrequencyHolds`, `ScAtMaxHolds` | `PowerSpec => []...`, for any clusters, requests and windows | - |
| `WritesSupportedHolds` | `PowerSpec => []WritesSupported` | `FrequencyTables` |
| `RequestersRunningHolds`, `FrequencyGrantedHolds` | `PowerSpec => []...` | `PartitionsApart` |
| `SchedulerInputHolds`, `SlicesDisjointHolds`, `InlinePartitionFoundHolds`, `RoomForBeHolds`, `NormalFormIsFixedHolds` | `Spec => []...` of `Config`, for any files | - |
| `StuckOnlyAtLimitHolds`, `CpusAsConfiguredHolds` | the same, for any CPU lists, up to 1000 CPUs and any width of the integers | - |
| `ClosedFormHolds` | `Spec => []ClosedForm` of `QueueCheck`, for queues of any length and any draws | - |
| `HostTypeCorrect`, `UserDirsKeptHolds`, `CleanExitHolds`, `LeftoverWasBusyHolds`, `ScriptReachesTasksHolds`, `CpufreqRestoredHolds` | `Spec => []...` of `Host`, for any number of processes, cpufreq policies and instances | - |

The hypotheses are on the configuration or the event loop and each is needed.
`NoEarlyCompletion`: either no process has an initialization, or a child that runs
before it is frozen and calls the library is one with initialization. Otherwise its
completion is counted as somebody else's initialization (section 4, last paragraph);
TLC has a counterexample for both properties. `PartitionsApart`: no two slices of a
window have the same SC or the same BE partition; otherwise the second slice moves the
partition to its CPUs while the first runs it, and may pass over, as one that drew no
budget, the process that the first runs. `Punctual`: `MaxLag = 0` and no negative
window length; the run `remaining` shows that a late loop breaks `BudgetBound`.
`FrameAdvances`: the major frame is longer than zero, without which there is no
nominal time modulo the frame. `NoDrift` needs no punctual loop, which is its point.
`FrequencyTables`: what the kernel shows of a cpufreq policy fits together, the listed
frequencies lying within the limits and the limits being listed; the code writes the
limits without looking them up. `PartitionsApart` is needed again for the requests: a
partition in two slices may be moved to other clusters while one of its processes runs,
and the policy is not told.

*ApiSpec.* `Handshake` and `EndReported` are inductive relative to the type invariant.
The handshake proof shows that each step moves the one message from one of its three
places to the next; the step that needs care is `SuspendResume`, where the flags of
all resumed processes become tokens at once (`SuspendResumeInFlight`).

*Refinement of ApiSpec.* The mapping is the identity on the protocol's variables. The
steps that need an argument are the completions: `Completed` of the protocol requires an
unread completion, whereas the handler runs from an event in the batch. The link is the
invariant `CompletionUnread`: a completion event in `pending` means that the counter
is still positive, since only the handler of that event resets it.

*Phases.* `IInv` is the conjunction of `TypeOK`, `BudgetTimer`, `Phases`, `StartOrder`
and `CompletionUnread`. None of the last four is inductive alone: that a budget timer
finds its process needs the events of the batch (`Phases`); that the counter is exact
needs `BudgetTimer`, to know that a slice without timer has ended; that a window is
not entered twice needs `StartOrder`. The counting argument is the lemma `OneMore`:
in the SC phase `finished_sc_partitions = Cardinality(ScEnded)`, and a step that ends
one slice's SC partition adds one element to `ScEnded`. The proof has one step per
action, and a lemma for each operator that several actions share
(`StartNextProcess`, `StartPartition`, `ScheduleNext`, `MfStart`, `MfStop`).
`PartitionQueueProofs` supplies what the queue operators return: positions in range,
a process of the partition or none (`OutcomeServes`), and that going once round the
queue meets every position exactly once (`OnceRound`), so that "none found" means that
none is left.

*Refinement of TimePartitioning.* Every step is matched with one of the abstract
specification or with a stutter. `Begin` and `Yield` serve a process that is pending, or
none because `OutcomeServes` says that all have had their turn; the change of phase is
the step in which `ScEnded` becomes the whole window. The mapped `done` is empty when a
window opens because `Partition::reset` clears the flags of the partitions it is given;
before the first window the invariant `Fresh` says so.

*Lifecycle.* `BaseInv` adds to `IInv` what shutdown and startup rely on: the loop is
broken only when everybody is gone (`BrokenWhenGone`), the callbacks are set by
`startup_fn`, which precedes every completion (`CallbackSet`), and after a request no
handler that freezes is left in the batch (`ShutdownReached`), and a slice still runs a
process only while `mf.stop()` goes through the slices, when nobody was signalled yet
(`Stopping`). `Preparation` is about the
initialization phase: `remaining_process_inits` is at least the number of processes
whose initialization is not over (`Counted`), and nothing else runs (`Quiet`).
`Isolation` and `InitBarrier` follow from it at the step that starts the major frame.

*Timing.* `OnTime` says that a punctual loop runs each handler at the deadline of its
timer, so that a stored remainder is what the budget timer still had. `InStep` relates
`clock`, the deadline of the window timer and the nominal end of the window modulo the
major frame, also within a handler; `WindowEnd` is a recursive function, whose equations
are derived from the existence of the running sums (`SumsExist`).

`Told` is what `TurnKept` rests on: a budget timer in the batch has expired, the time of a
handler is forgotten when it ends, and a partition reports to a slice that it belongs to.
What the search for the next process passes over drew no budget (`OutcomeSkips`) and is
run by no other slice (`Alone`).

*Host.* `HInv` adds to the properties: cgroups form trees, now and in the state that the
instance found (`Trees`); what the steps of `Plan` before the present one made exists
and is owned (`Made`); a cgroup that was not there before is owned or was busy (`Owned`);
a task below the roots is in the unified cgroup of a process (`Placed`), which is what
`run()` waits for; and each cpufreq policy is as it was found or has an object that
knows how (`Frequencies`, `Switched`; `Capped` for the maximum frequencies, which hold in
every mode). `Reached` says of every live task that was not signalled how far the moves
into its cgroups have come: only one task of an instance, the dummy child or the newest process, is short of the freezer. `Plan` is resolved into what every position holds
(`PlanStep`). The argument for the removals: when an object's turn comes (`Before`), its
children are not owned any more; a child that still exists was therefore busy, or was
there before, and then so was its parent. Steps that do not touch cgroups, or
frequencies, are treated together (`Quiet`, `FreqQuiet`), so that each part of the
invariant has about eight cases instead of twenty-two.

*Power.* A step of the scheduler changes the running process of at most one slice
(`StartsEffect`, `ProcessEventsCases`), so the events of a step are at most one
`on_process_end` followed by one `on_process_start`, and then those of the window.
`Base` adds to `IInv` that the policy object has its type and has accepted the
configuration, and that the flag of `Window::start` agrees with the handler under way.
What `on_process_end` keeps of a list (`Without`) is resolved into its elements: a list
without repetition loses exactly the process. `RequestersRunning` is inductive together
with `CpuPlacement`, since a process ends on the CPUs it was started on, and with
`RunningApart`, no process being run by two slices; `FrequencyGranted` follows because
all requesters of a cluster ask for the same as the first one, or the handler throws.
`SliceFrequencyGranted` and `ScAtMax` are first extended to the states inside handlers
(`SliceGranted`, `MaxGranted`); the latter rests on the exact counter of `Phases`.

*Config.* The walk over a file is a nest of folds. Each fold is first shown to be a loop,
that is a sequence of accumulators of which each follows from the one before
(`PartitionsFold`, `EntriesFold`, `SlicesFold`, `WindowsFold`). Induction along such a
sequence is the lemma `Upwards` about sets of naturals, used with the set of the positions
at which the accumulator is as it should be: `Good`, all that is collected so far is in
normal form and the generated names are numbered and given once (`Names`), and
`SliceMade` and `WindowMade`, what the file defines so far is in the list of partitions
and referred to by name. `WalkResult` sums this up for the whole file, and
`SchedulerInput`, `SlicesDisjoint`, `InlinePartitionFound` and `RoomForBe` follow from it
and from what `create_scheduler_objects` looks up. For `NormalFormIsFixed` the walk over a
normal form is followed step by step: each prefix is reproduced (`Prefix`, `Acc`), as no
name is generated and no error met. For the CPU lists, `LoopStops` says when the loop
`a += s` stops before it wraps, `EntryMeant` that it visits the numbers an entry
stands for, and `PrintedMeant` that the printed runs stand for the set.

*Queue.* The closed form of the loop is found by looking at the first round that does not
behave like it (`SoughtStep`, `SeekLoopFacts`). For the recursion, the closed form is shown
to solve its equation: what the search finds after it has skipped the first pending
process is what it finds starting from there with one process less (`GoesOn`,
`OnwardReached`, `OnwardRecords`). Every call has one pending process less, so the
equation has one solution (`StartFacts`), by induction over their number.

*Only model-checked.* All liveness (`BeRotation`, `WakesUp`, `InitEnds`,
`ShutdownCompletes`), which is outside the prover's reach. The runs that expect a
violation. Every other property of the runs is proved. Induction over data is possible
only in the form above, over a set of naturals that is written down: the library's
induction theorems take an operator as a parameter, which the provers cannot instantiate.

## 6. Not modelled

The YAML syntax (of two identical keys in one mapping the model takes the last, yaml-cpp
the first), numbers in CPU lists too large for `strtoul`, the path of the working directory, the parsing of the command line and
the restart through `systemd-run`, the discovery of the cgroup paths, logging and the
memory tracker: formatting and I/O without influence on the state above. The CPU mask
functions of `cpuset.c`, which nothing uses. The single tasks of a cgroup: SIGKILL goes
to the cgroup as a whole. Errors of system calls inside the event loop, on which the
code throws: `Host` has them as "`run()` throws", `Scheduler` does not. A forked child
that unwinds `main()`. Instances that run at the same time, which need different names
for their cgroups and may not share a power policy. Processes are not restarted by the
code, so they are not in the model.

## 7. Plan

1. Done: all modules of section 2 and the theorems of section 5.
2. A program that never calls `demos_initialization_completed()`; a child that fails
   before `execl`; runs with a partition in two slices of one window, which so far only
   the theorems cover.
3. Errors of system calls inside the event loop, as an action of `Scheduler`.
