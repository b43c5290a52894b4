------------------------------- MODULE Scheduler -------------------------------
(***************************************************************************)
(* The DEmOS scheduler: Partition, Slice, Window, MajorFrame,              *)
(* PartitionManager and DemosScheduler driven by the libev event loop,     *)
(* together with the scheduled processes of ProcessApi.                    *)
(*                                                                         *)
(* Time is counted in ticks, TicksPerMs to the millisecond, and every      *)
(* deadline is kept relative to the present: a timer whose deadline is not *)
(* positive has expired.  A handler that loops over slices is a run of     *)
(* steps (op # "idle") during which neither the clock nor another handler  *)
(* nor a process moves; it is started by one dispatched event.             *)
(***************************************************************************)
EXTENDS ProcessApi, PartitionQueue, FiniteSets

CONSTANTS
    Partition, NoPartition, NoProc,
    Processes,     \* the process list of each partition
    PartOf,        \* the partition of each process
    Slice, Sc, Be, \* the slices with their SC and BE partition, if any
    Cpus,          \* the CPUs of each slice
    Windows,       \* the slices of each window of the major frame
    Length,        \* the length of each window, in ms
    Budget,        \* the budget of each process, in ms
    Jitter,        \* its budget_jitter, in ms
    Timeouts,      \* possible run timeouts in ms (option -t); negative if not given
    TicksPerMs,    \* the resolution of the clock
    MaxLag,        \* by how many ticks the loop may be late for a timer
    MaxSignals     \* how many SIGINT/SIGTERM may be received

\* What Config and main() guarantee.  A configuration may name a partition
\* in several slices of one window; nothing here excludes that.
ASSUME SchedulerAssumption ==
    /\ IsFiniteSet(Proc)
    /\ NoProc \notin Proc
    /\ NoPartition \notin Partition
    /\ PartOf \in [Proc -> Partition]
    /\ DOMAIN Processes = Partition
    /\ \A q \in Partition :
          /\ Processes[q] \in Seq(Proc)
          /\ Len(Processes[q]) > 0
          /\ \A i \in 1 .. Len(Processes[q]) : PartOf[Processes[q][i]] = q
    /\ \A p \in Proc :    \* a process is one entry of its partition's list
          LET ps == Processes[PartOf[p]]
          IN  \E i \in 1 .. Len(ps) : \A j \in 1 .. Len(ps) : ps[j] = p <=> j = i
    /\ IsFiniteSet(Slice)
    /\ Slice \cap {"null", "noop", "init"} = {}
    /\ Sc \in [Slice -> Partition \cup {NoPartition}]
    /\ Be \in [Slice -> Partition \cup {NoPartition}]
    /\ DOMAIN Cpus = Slice
    /\ Windows \in Seq(SUBSET Slice)
    /\ Len(Windows) > 0
    /\ Length \in [DOMAIN Windows -> Int]
    /\ Budget \in [Proc -> Nat]
    /\ Jitter \in [Proc -> Nat]
    /\ \A p \in Proc : Jitter[p] =< 2 * Budget[p]
    /\ Timeouts \subseteq Int
    /\ TicksPerMs \in Nat \ {0}
    /\ MaxLag \in Nat
    /\ MaxSignals \in Nat

VARIABLES
    (* Process and Partition *)
    completed,             \* the processes with Process::completed set
    actual_budget,         \* Process::actual_budget, in ms
    current_proc,          \* Partition::current_proc, as a position
    completed_cb,          \* Partition::_completed_cb: who is told
    cpus,                  \* the cpuset of the partition
    (* Slice *)
    running_process,
    running_partition,
    timeout,               \* deadline of the budget timer (0 while stopped)
    timer,                 \* the slices whose budget timer is started
    (* Window and MajorFrame *)
    finished_sc_partitions,
    current_win,
    mf_timeout,
    mf_timer,
    (* PartitionManager *)
    exit_cb,               \* which exit callback the partitions call
    remaining_process_inits,
    (* DemosScheduler and the event loop *)
    run_timeout,           \* timeout, once the timer is started its deadline
    run_timer,             \* timeout_timer
    signals,               \* signals that may still come
    signal_pending,
    loop,
    pending,               \* events collected by the last poll, not yet handled
    (* the handler being executed *)
    op, todo, ctime, after, exit_check,
    (* history, read by properties only *)
    started,               \* the major frame was started
    stopreq,               \* a shutdown was requested, before or after that
    clock                  \* ticks since the start, modulo the major frame

partVars  == <<completed, actual_budget, current_proc, completed_cb, cpus>>
sliceVars == <<running_process, running_partition, timeout, timer>>
winVars   == <<finished_sc_partitions, current_win, mf_timeout, mf_timer>>
initVars  == <<exit_cb, remaining_process_inits>>
runVars   == <<run_timeout, run_timer>>
sigVars   == <<signals, signal_pending>>
ctlVars   == <<op, todo, ctime, after, exit_check>>
histVars  == <<started, stopreq, clock>>
vars == <<apiVars, partVars, sliceVars, winVars, initVars, runVars, sigVars,
          loop, pending, ctlVars, histVars>>

-------------------------------------------------------------------------------
(* Events *)

CompletedEv(p)  == <<"completed", p>>
ExitEv(p)       == <<"exit", p>>
PopulatedEv(p)  == <<"populated", p>>
SliceEv(s)      == <<"slice", s>>
WindowEv        == <<"loop", "window">>
RunTimerEv      == <<"loop", "timeout">>
SignalEv        == <<"loop", "signal">>
StartupEv       == <<"loop", "startup">>

Event ==
    ({"completed", "exit", "populated"} \X Proc) \cup ({"slice"} \X Slice)
        \cup ({"loop"} \X {"window", "timeout", "signal", "startup"})

PriorityFault(e) ==
    IF e[1] = "exit" \/ e = SignalEv THEN 3 ELSE IF e[1] = "slice" THEN 0 ELSE 1

\* The order in which libev runs the events of one batch.  Signals and child
\* exits are fed by libev's own top-priority watcher; the startup timer is
\* queued after the polled descriptors and libev runs the last queued first;
\* the budget timers have the priority -1.
Priority(e) ==
    IF e[1] = "exit" \/ e = SignalEv THEN 3
    ELSE IF e = StartupEv THEN 2
    ELSE IF e[1] = "slice" THEN 0
    ELSE 1

\* What a poll finds ready.
Ready ==
    {CompletedEv(p) : p \in {r \in Proc : completed_w[r] > 0}}
      \cup {ExitEv(p) : p \in {r \in Proc : ChildExitReady(r)}}
      \cup {PopulatedEv(p) : p \in {r \in Proc : PopulatedReady(r)}}
      \cup {SliceEv(s) : s \in {t \in timer : timeout[t] =< 0}}
      \cup (IF mf_timer /\ mf_timeout =< 0 THEN {WindowEv} ELSE {})
      \cup (IF run_timer /\ run_timeout =< 0 THEN {RunTimerEv} ELSE {})
      \cup (IF signal_pending THEN {SignalEv} ELSE {})

\* The event e is the next one that the loop handles.
Dispatch(e) ==
    /\ loop \in {"run", "breaking"}
    /\ op = "idle"
    /\ e \in pending
    /\ \A f \in pending : Priority(f) =< Priority(e)

-------------------------------------------------------------------------------
(* Helpers *)

\* duration_cast<milliseconds>: truncation towards zero.
ToMs(t) == IF t >= 0 THEN t \div TicksPerMs ELSE -((-t) \div TicksPerMs)

DrawFault(p) ==
    {Budget[p] + j : j \in (-(Jitter[p] \div 2)) .. (1 + Jitter[p] - Jitter[p] \div 2)}

\* Process::get_actual_budget: a stored remainder is used as it is, otherwise
\* the jitter is drawn from -(j / 2) .. j - j / 2.
Draw(p) ==
    IF actual_budget[p] # Budget[p] THEN {actual_budget[p]}
    ELSE {Budget[p] + j : j \in (-(Jitter[p] \div 2)) .. (Jitter[p] - Jitter[p] \div 2)}

\* Process::is_pending, given the completed flags.
PendingProcs(comp) == system_process_spawned \ comp

NextWin(w) == IF w + 1 > Len(Windows) THEN 1 ELSE w + 1

AllGoneFault == system_process_spawned # Proc
AllGone == system_process_spawned = {}

\* MajorFrame::find_widest_cpu_set; of equally wide sets any will do.
UsedBy(q) == {s \in Slice : Sc[s] = q \/ Be[s] = q}
FindWidestCpuSet(q) ==
    IF UsedBy(q) = {} THEN {}
    ELSE Cpus[CHOOSE s \in UsedBy(q) :
                 \A t \in UsedBy(q) : Cardinality(Cpus[t]) =< Cardinality(Cpus[s])]

-------------------------------------------------------------------------------
(* Slice, Window and MajorFrame: the parts that several handlers share *)

\* Window::has_sc_finished, given the number of SC partitions that finished.
HasScFinishedFault(n) == n >= 1
HasScFinished(n) == n = Cardinality(Windows[current_win])

\* Window::slice_sc_end_cb while the window is not stopping: the last slice
\* whose SC partition ends starts the BE partitions of all slices, otherwise
\* the handler goes on with op0 and todo0.
SliceScEnd(op0, todo0, ct) ==
    LET last == HasScFinished(finished_sc_partitions + 1)
    IN  /\ finished_sc_partitions' = finished_sc_partitions + 1
        /\ op' = IF last THEN "startBe" ELSE op0
        /\ todo' = IF last THEN Windows[current_win] ELSE todo0
        /\ ctime' = IF last \/ op0 # "idle" THEN ct ELSE 0

ContinueWith(op0, todo0, ct) ==
    /\ op' = op0
    /\ todo' = todo0
    /\ ctime' = IF op0 # "idle" THEN ct ELSE 0
    /\ UNCHANGED finished_sc_partitions

\* Slice::start_next_process on slice s and partition q at time ct, with the
\* queue at position cur and the completed flags comp.  S has been suspended
\* before, dc is demos_completed; op0 and todo0 are what the handler does next.
StartNextProcess(s, q, cur, comp, ct, S, dc, op0, todo0) ==
    \E o \in StartNext(Processes[q], cur, PendingProcs(comp),
                       [p \in Proc |-> Draw(p)], NoProc) :
        /\ current_proc' = [current_proc EXCEPT ![q] = o.cur]
        /\ completed' = comp \cup o.skipped
        /\ running_process' = [running_process EXCEPT ![s] = o.proc]
        /\ \/ /\ o.proc \in Proc
              /\ timer' = timer \cup {s}
              /\ timeout' = [timeout EXCEPT ![s] = ct + o.budget * TicksPerMs]
              /\ actual_budget' = [actual_budget EXCEPT ![o.proc] = Budget[o.proc]]
              /\ SuspendResume(S, {o.proc}, dc)
              /\ ContinueWith(op0, todo0, ct)
           \/ /\ o.proc = NoProc
              /\ timer' = timer \ {s}
              /\ timeout' = [timeout EXCEPT ![s] = 0]
              /\ SuspendResume(S, {}, dc)
              /\ IF q = Sc[s] THEN SliceScEnd(op0, todo0, ct)
                              ELSE ContinueWith(op0, todo0, ct)
              /\ UNCHANGED actual_budget

\* CgroupCpuset::set_cpus
SetCpusFault(q, set) == IF cpus[q] # {} THEN cpus ELSE [cpus EXCEPT ![q] = set]
SetCpus(q, set) == [cpus EXCEPT ![q] = set]

StartPartitionFault(s, q, move_to_first_proc, op0, todo0) ==
    /\ running_partition' = [running_partition EXCEPT ![s] = q]
    /\ cpus' = SetCpus(q, Cpus[s])
    /\ completed_cb' = [completed_cb EXCEPT ![q] = s]
    /\ StartNextProcess(s, q, 1, {p \in completed : PartOf[p] # q},
                        ctime, {}, demos_completed, op0, todo0)

\* Slice::start_partition, with Partition::reset.
StartPartition(s, q, move_to_first_proc, op0, todo0) ==
    /\ running_partition' = [running_partition EXCEPT ![s] = q]
    /\ cpus' = SetCpus(q, Cpus[s])
    /\ completed_cb' = [completed_cb EXCEPT ![q] = s]
    /\ StartNextProcess(s, q, IF move_to_first_proc THEN 1 ELSE current_proc[q],
                        {p \in completed : PartOf[p] # q},
                        ctime, {}, demos_completed, op0, todo0)

ScheduleNextFault(s, ct, dc) ==
    LET p == running_process[s]
        q == running_partition[s]
    IN  /\ StartNextProcess(s, q, current_proc[q], completed \cup {p},
                            ct, {p}, demos_completed, "idle", {})
        /\ UNCHANGED <<running_partition, cpus, completed_cb>>

\* Slice::schedule_next: stop_current_process(true), then the next process.
ScheduleNext(s, ct, dc) ==
    LET p == running_process[s]
        q == running_partition[s]
    IN  /\ StartNextProcess(s, q, current_proc[q], completed \cup {p},
                            ct, {p}, dc, "idle", {})
        /\ UNCHANGED <<running_partition, cpus, completed_cb>>

\* The slices that Window::stop goes through.
SlicesToStopFault == {s \in Windows[current_win] : Be[s] # NoPartition}
SlicesToStop == Windows[current_win]

MfStartFault(w, ct) ==
    /\ current_win' = w
    /\ UNCHANGED finished_sc_partitions
    /\ mf_timer' = TRUE
    /\ mf_timeout' = ct + Length[w] * TicksPerMs
    /\ op' = "startSc"
    /\ todo' = Windows[w]
    /\ ctime' = ct

MfStartStale(w, ct) ==
    /\ UNCHANGED current_win
    /\ finished_sc_partitions' = 0
    /\ mf_timer' = TRUE
    /\ mf_timeout' = ct + Length[w] * TicksPerMs
    /\ op' = "startSc"
    /\ todo' = Windows[w]
    /\ ctime' = ct

\* MajorFrame::start at time ct: the steps StartSc follow.
MfStart(w, ct) ==
    /\ current_win' = w
    /\ finished_sc_partitions' = 0
    /\ mf_timer' = TRUE
    /\ mf_timeout' = ct + Length[w] * TicksPerMs
    /\ op' = "startSc"
    /\ todo' = Windows[w]
    /\ ctime' = ct

\* MajorFrame::stop at the present time: the steps StopSlice follow, then what
\* aft says.  rest are the events of the batch that remain.
MfStop(aft, rest) ==
    /\ mf_timer' = FALSE
    /\ mf_timeout' = 0
    /\ pending' = rest \ {WindowEv}
    /\ op' = "stop"
    /\ todo' = SlicesToStop
    /\ ctime' = 0
    /\ after' = aft
    /\ UNCHANGED <<current_win, finished_sc_partitions>>

InitiateShutdownFault(rest) ==
    /\ pending' = rest
    /\ op' = "stop"
    /\ todo' = SlicesToStop
    /\ ctime' = 0
    /\ after' = "kill"
    /\ stopreq' = IF stopreq # "no" THEN stopreq
                  ELSE IF started THEN "late" ELSE "early"
    /\ UNCHANGED <<winVars, started, clock>>

\* DemosScheduler::initiate_shutdown
InitiateShutdown(rest) ==
    /\ MfStop("kill", rest)
    /\ stopreq' = IF stopreq # "no" THEN stopreq
                  ELSE IF started THEN "late" ELSE "early"
    /\ UNCHANGED <<started, clock>>

FinishProcessInitFault(rest) ==
    /\ completed_cb' = [q \in Partition |-> "noop"]
    /\ MfStart(current_win, 0)
    /\ run_timer' = (run_timeout > 0)
    /\ started' = TRUE
    /\ clock' = 0
    /\ pending' = rest
    /\ UNCHANGED <<exit_cb, run_timeout, after, stopreq>>

\* PartitionManager::finish_process_init and DemosScheduler::start_scheduler.
FinishProcessInit(rest) ==
    /\ exit_cb' = "normal"
    /\ completed_cb' = [q \in Partition |-> "noop"]
    /\ \/ /\ run_timeout = 0
          /\ InitiateShutdown(rest)
          /\ UNCHANGED runVars
       \/ /\ run_timeout # 0
          /\ MfStart(current_win, 0)
          /\ run_timer' = (run_timeout > 0)
          /\ started' = TRUE
          /\ clock' = 0
          /\ pending' = rest
          /\ UNCHANGED <<run_timeout, after, stopreq>>

-------------------------------------------------------------------------------
(* Initial state: after DemosScheduler::setup(), before the loop runs *)

Init ==
    /\ ApiInit
    /\ completed = {}
    /\ actual_budget = Budget
    /\ current_proc = [q \in Partition |-> 1]
    /\ completed_cb = [q \in Partition |-> "null"]
    /\ cpus = [q \in Partition |-> {}]
    /\ running_process = [s \in Slice |-> NoProc]
    /\ running_partition = [s \in Slice |-> NoPartition]
    /\ timeout = [s \in Slice |-> 0]
    /\ timer = {}
    /\ finished_sc_partitions = 0
    /\ current_win = 1
    /\ mf_timeout = 0
    /\ mf_timer = FALSE
    /\ exit_cb = "normal"
    /\ remaining_process_inits = 0
    /\ run_timeout \in {t * TicksPerMs : t \in Timeouts}
    /\ run_timer = FALSE
    /\ signals = MaxSignals
    /\ signal_pending = FALSE
    /\ loop = "boot"
    /\ pending = {}
    /\ op = "idle"
    /\ todo = {}
    /\ ctime = 0
    /\ after = "none"
    /\ exit_check = FALSE
    /\ started = FALSE
    /\ stopreq = "no"
    /\ clock = 0

-------------------------------------------------------------------------------
(* The event loop, time and signals *)

\* One iteration of the loop collects a batch; the first one also finds the
\* zero-length timer that runs startup_fn.
Poll ==
    /\ op = "idle"
    /\ pending = {}
    /\ \/ /\ loop = "boot"
          /\ pending' = Ready \cup {StartupEv}
       \/ /\ loop = "run"
          /\ Ready # {}
          /\ pending' = Ready
    /\ loop' = "run"
    /\ UNCHANGED <<apiVars, partVars, sliceVars, winVars, initVars, runVars,
                   sigVars, ctlVars, histVars>>

\* loop.run() returns once the batch in which the loop was broken is handled.
LoopReturns ==
    /\ op = "idle"
    /\ loop = "breaking"
    /\ pending = {}
    /\ loop' = "stopped"
    /\ UNCHANGED <<apiVars, partVars, sliceVars, winVars, initVars, runVars,
                   sigVars, pending, ctlVars, histVars>>

\* The end of each window within the major frame, in ticks.
WindowEnd ==
    LET end[w \in 0 .. Len(Windows)] ==
            IF w = 0 THEN 0 ELSE end[w - 1] + Length[w] * TicksPerMs
    IN  end

\* Time passes while some timer is started and none is later than MaxLag.  A
\* freeze that was requested settles within the tick: a process that takes
\* longer is stuck in the kernel and does not run its program.
Tick ==
    /\ loop = "run"
    /\ op = "idle"
    /\ mf_timer \/ run_timer
    /\ \A p \in Proc : freezer[p] # "FREEZING"
    /\ \A s \in timer : timeout[s] > -MaxLag
    /\ mf_timer => mf_timeout > -MaxLag
    /\ run_timer => run_timeout > -MaxLag
    /\ timeout' = [s \in Slice |-> IF s \in timer THEN timeout[s] - 1 ELSE 0]
    /\ mf_timeout' = IF mf_timer THEN mf_timeout - 1 ELSE 0
    /\ run_timeout' = IF run_timer THEN run_timeout - 1 ELSE run_timeout
    /\ clock' = IF mf_timer THEN (clock + 1) % WindowEnd[Len(Windows)] ELSE 0
    /\ UNCHANGED <<apiVars, partVars, running_process, running_partition, timer,
                   finished_sc_partitions, current_win, mf_timer, initVars,
                   run_timer, sigVars, loop, pending, ctlVars, started, stopreq>>

\* SIGINT or SIGTERM reaches the scheduler.
ReceiveSignal ==
    /\ loop \in {"boot", "run"}
    /\ op = "idle"
    /\ signals > 0
    /\ signals' = signals - 1
    /\ signal_pending' = TRUE
    /\ UNCHANGED <<apiVars, partVars, sliceVars, winVars, initVars, runVars,
                   loop, pending, ctlVars, histVars>>

\* A scheduled process or the kernel moves, independently of the scheduler.
Client(p) ==
    /\ loop \in {"boot", "run", "breaking"}
    /\ op = "idle"
    /\ ClientStep(p)
    /\ UNCHANGED <<partVars, sliceVars, winVars, initVars, runVars, sigVars,
                   loop, pending, ctlVars, histVars>>

-------------------------------------------------------------------------------
(* Handlers: startup and initialization *)

\* The initializations that run_process_init starts.
InitsStartedFault == 1
InitsStarted == Cardinality(HasInit)

\* startup_fn and PartitionManager::run_process_init: every partition is reset
\* to report to the manager and the processes with an initialization resumed.
Startup ==
    /\ Dispatch(StartupEv)
    /\ Switch({}, HasInit)
    /\ completed' = {}
    /\ current_proc' = [q \in Partition |-> 1]
    /\ cpus' = [q \in Partition |-> FindWidestCpuSet(q)]
    /\ remaining_process_inits' = InitsStarted
    /\ \/ /\ HasInit # {}
          /\ exit_cb' = "init"
          /\ completed_cb' = [q \in Partition |-> "init"]
          /\ pending' = pending \ {StartupEv}
          /\ UNCHANGED <<winVars, runVars, ctlVars, histVars>>
       \/ /\ HasInit = {}
          /\ FinishProcessInit(pending \ {StartupEv})
          /\ UNCHANGED exit_check
    /\ UNCHANGED <<actual_budget, sliceVars, sigVars, loop>>

\* process_init_completion_cb after the suspend(): one initialization less.
\* The last one starts the scheduler, otherwise the handler goes on with op0.
OneInitLess(rest, op0) ==
    /\ remaining_process_inits' = remaining_process_inits - 1
    /\ \/ /\ remaining_process_inits' = 0
          /\ FinishProcessInit(rest)
       \/ /\ remaining_process_inits' # 0
          /\ pending' = rest
          /\ op' = op0
          /\ UNCHANGED <<exit_cb, completed_cb, winVars, runVars, todo, ctime,
                         after, histVars>>

-------------------------------------------------------------------------------
(* Handlers: completion of a process (Process::completed_cb) *)

CompletedIgnored(p) ==
    /\ Dispatch(CompletedEv(p))
    /\ completed_cb[PartOf[p]] = "noop"
    /\ Completed(p, {}, {})
    /\ pending' = pending \ {CompletedEv(p)}
    /\ UNCHANGED <<partVars, sliceVars, winVars, initVars, runVars, sigVars, loop,
                   ctlVars, histVars>>

\* PartitionManager::process_init_completion_cb
CompletedInit(p) ==
    /\ Dispatch(CompletedEv(p))
    /\ completed_cb[PartOf[p]] = "init"
    /\ Completed(p, {p}, {})
    /\ OneInitLess(pending \ {CompletedEv(p)}, "idle")
    /\ UNCHANGED <<completed, actual_budget, current_proc, cpus, sliceVars, sigVars,
                   loop, exit_check>>

\* The slice that owns the partition is told that some process completed; it
\* does not look at which one.
CompletedInSlice(p, s) ==
    /\ Dispatch(CompletedEv(p))
    /\ completed_cb[PartOf[p]] = s
    /\ running_process[s] # NoProc
    /\ completed_w' = [completed_w EXCEPT ![p] = 0]
    /\ ScheduleNext(s, 0, demos_completed \cup {p})
    /\ pending' = pending \ {CompletedEv(p), SliceEv(s)}
    /\ UNCHANGED <<clientVars, endVars, current_win, mf_timeout, mf_timer, initVars,
                   runVars, sigVars, loop, after, exit_check, histVars>>

\* stop_current_process() with no running process dereferences a null pointer.
CompletedCrash(p, s) ==
    /\ Dispatch(CompletedEv(p))
    /\ completed_cb[PartOf[p]] = s
    /\ running_process[s] = NoProc
    /\ Completed(p, {}, {})
    /\ loop' = "crashed"
    /\ pending' = {}
    /\ UNCHANGED <<partVars, sliceVars, winVars, initVars, runVars, sigVars,
                   ctlVars, histVars>>

-------------------------------------------------------------------------------
(* Handlers: the end of a process *)

ChildTerminatedButPopulated(p) ==
    /\ Dispatch(ExitEv(p))
    /\ ChildTerminatedOrphans(p)
    /\ pending' = pending \ {ExitEv(p)}
    /\ UNCHANGED <<partVars, sliceVars, winVars, initVars, runVars, sigVars, loop,
                   ctlVars, histVars>>

\* process_init_exit_cb treats the end of p as the end of its initialization.
CountsAsInitializedFault(p) == FALSE
CountsAsInitialized(p) == exit_cb = "init" /\ p \in HasInit

\* handle_end() and Partition::proc_exit_cb.  During initialization a process
\* that has one counts as initialized; process_exit_cb (ExitCheck) comes last.
ProcessEnded(p) ==
    \E e \in {ExitEv(p), PopulatedEv(p)} :
        /\ Dispatch(e)
        /\ \/ /\ CountsAsInitialized(p)
              /\ HandleEnd(p, {p})
              /\ OneInitLess(pending \ {e}, "exit")
              /\ exit_check' = (remaining_process_inits' = 0)
           \/ /\ ~CountsAsInitialized(p)
              /\ HandleEnd(p, {})
              /\ pending' = pending \ {e}
              /\ op' = "exit"
              /\ UNCHANGED <<completed_cb, winVars, initVars, runVars, todo,
                             ctime, after, exit_check, histVars>>
        /\ UNCHANGED <<completed, actual_budget, current_proc, cpus, sliceVars,
                       sigVars, loop>>

\* PartitionManager::process_exit_cb and DemosScheduler::completion_cb: with no
\* process left the major frame is stopped and the loop broken.
ExitCheck ==
    /\ op = "exit"
    /\ \/ /\ AllGone
          /\ MfStop("break", pending)
       \/ /\ ~AllGone
          /\ op' = "idle"
          /\ UNCHANGED <<winVars, pending, todo, ctime, after>>
    /\ UNCHANGED <<apiVars, partVars, sliceVars, initVars, runVars, sigVars, loop,
                   exit_check, histVars>>

-------------------------------------------------------------------------------
(* Handlers: timers and signals *)

\* The budget timer of slice s: Slice::schedule_next(timeout).
SliceTimer(s) ==
    /\ Dispatch(SliceEv(s))
    /\ ScheduleNext(s, timeout[s], demos_completed)
    /\ pending' = pending \ {SliceEv(s)}
    /\ UNCHANGED <<clientVars, completed_w, endVars, current_win, mf_timeout,
                   mf_timer, initVars, runVars, sigVars, loop, after, exit_check,
                   histVars>>

\* timeout_cb stops the window as of its deadline, not as of the present.
WindowStopTimeFault == 0
WindowStopTime == mf_timeout

\* MajorFrame::timeout_cb: the window is stopped as of its nominal end.
WindowTimer ==
    /\ Dispatch(WindowEv)
    /\ pending' = pending \ {WindowEv}
    /\ mf_timer' = FALSE
    /\ mf_timeout' = 0
    /\ op' = "stop"
    /\ todo' = SlicesToStop
    /\ ctime' = WindowStopTime
    /\ after' = "next"
    /\ UNCHANGED <<apiVars, partVars, sliceVars, finished_sc_partitions, current_win,
                   initVars, runVars, sigVars, loop, exit_check, histVars>>

\* DemosScheduler::timeout_cb
RunTimer ==
    /\ Dispatch(RunTimerEv)
    /\ run_timer' = FALSE
    /\ run_timeout' = 0
    /\ InitiateShutdown(pending \ {RunTimerEv})
    /\ UNCHANGED <<apiVars, partVars, sliceVars, initVars, sigVars, loop, exit_check>>

\* DemosScheduler::signal_cb
Signal ==
    /\ Dispatch(SignalEv)
    /\ signal_pending' = FALSE
    /\ InitiateShutdown(pending \ {SignalEv})
    /\ UNCHANGED <<apiVars, partVars, sliceVars, initVars, runVars, signals, loop,
                   exit_check>>

-------------------------------------------------------------------------------
(* The loops over the slices of a window *)

\* Slice::start_sc; without SC partition the slice has finished it at once.
StartSc(s) ==
    /\ op = "startSc"
    /\ s \in todo
    /\ \/ /\ Sc[s] = NoPartition
          /\ SliceScEnd("startSc", todo \ {s}, ctime)
          /\ UNCHANGED <<apiVars, partVars, sliceVars>>
       \/ /\ Sc[s] # NoPartition
          /\ StartPartition(s, Sc[s], TRUE, "startSc", todo \ {s})
          /\ UNCHANGED <<clientVars, completed_w, endVars>>
    /\ UNCHANGED <<current_win, mf_timeout, mf_timer, initVars, runVars, sigVars,
                   loop, pending, after, exit_check, histVars>>

\* Slice::start_be
StartBe(s) ==
    /\ op = "startBe"
    /\ s \in todo
    /\ \/ /\ Be[s] = NoPartition
          /\ todo' = todo \ {s}
          /\ UNCHANGED <<apiVars, partVars, sliceVars, finished_sc_partitions, op, ctime>>
       \/ /\ Be[s] # NoPartition
          /\ StartPartition(s, Be[s], FALSE, "startBe", todo \ {s})
          /\ UNCHANGED <<clientVars, completed_w, endVars>>
    /\ UNCHANGED <<current_win, mf_timeout, mf_timer, initVars, runVars, sigVars,
                   loop, pending, after, exit_check, histVars>>

\* What remains of the handler: the exit check if a process ended, or nothing.
Return ==
    /\ op' = IF exit_check THEN "exit" ELSE "idle"
    /\ ctime' = 0
    /\ exit_check' = FALSE

StartDone ==
    /\ op \in {"startSc", "startBe"}
    /\ todo = {}
    /\ Return
    /\ UNCHANGED <<apiVars, partVars, sliceVars, winVars, initVars, runVars, sigVars,
                   loop, pending, todo, after, histVars>>

RemainingFault(s) == (timeout[s] - ctime) \div (2 * TicksPerMs)

\* The time left to the running process of s at time ctime, in whole ms.
Remaining(s) == ToMs(timeout[s] - ctime)

\* Slice::stop.  A process with no whole millisecond left counts as completed
\* and the queue moves on; an interrupted BE process keeps its remainder.
StopSlice(s) ==
    LET p == running_process[s]
        q == running_partition[s]
        comp == completed \cup {p}
    IN  /\ op = "stop"
        /\ s \in todo
        /\ todo' = todo \ {s}
        /\ timer' = timer \ {s}
        /\ timeout' = [timeout EXCEPT ![s] = 0]
        /\ running_process' = [running_process EXCEPT ![s] = NoProc]
        /\ pending' = pending \ {SliceEv(s)}
        /\ completed_cb' = [r \in Partition |-> IF r \in {Sc[s], Be[s]} THEN "noop"
                                                ELSE completed_cb[r]]
        /\ \/ /\ p = NoProc
              /\ UNCHANGED <<freezer, efd_continue, demos_completed, completed,
                             actual_budget, current_proc, finished_sc_partitions>>
           \/ /\ p # NoProc
              /\ Remaining(s) = 0
              /\ SuspendResume({p}, {}, demos_completed)
              /\ completed' = comp
              /\ current_proc' = [current_proc EXCEPT ![q] =
                                     SeekPending(Processes[q], @, PendingProcs(comp))]
              /\ finished_sc_partitions' =
                    IF q = Sc[s] /\ PendingProcs(comp) \cap {r \in Proc : PartOf[r] = q} = {}
                    THEN finished_sc_partitions + 1 ELSE finished_sc_partitions
              /\ UNCHANGED actual_budget
           \/ /\ p # NoProc
              /\ Remaining(s) # 0
              /\ SuspendResume({p}, {}, demos_completed)
              /\ actual_budget' = [actual_budget EXCEPT ![p] =
                                      IF q = Be[s] THEN Remaining(s) ELSE @]
              /\ UNCHANGED <<completed, current_proc, finished_sc_partitions>>
        /\ UNCHANGED <<clientVars, completed_w, endVars, cpus, running_partition,
                       current_win, mf_timeout, mf_timer, initVars, runVars, sigVars,
                       loop, op, ctime, after, exit_check, histVars>>

\* The rest of MajorFrame::timeout_cb: the next window starts where this ended.
EnterNextWindow ==
    /\ op = "stop"
    /\ todo = {}
    /\ after = "next"
    /\ MfStart(NextWin(current_win), ctime)
    /\ after' = "none"
    /\ UNCHANGED <<apiVars, partVars, sliceVars, initVars, runVars, sigVars, loop,
                   pending, exit_check, histVars>>

\* The rest of initiate_shutdown: PartitionManager::kill_all.
KillProcesses ==
    /\ op = "stop"
    /\ todo = {}
    /\ after = "kill"
    /\ KillAll
    /\ Return
    /\ after' = "none"
    /\ UNCHANGED <<partVars, sliceVars, winVars, initVars, runVars, sigVars, loop,
                   pending, todo, histVars>>

\* The rest of completion_cb: loop.break_loop(ev::ALL).
BreakLoop ==
    /\ op = "stop"
    /\ todo = {}
    /\ after = "break"
    /\ loop' = "breaking"
    /\ Return
    /\ after' = "none"
    /\ UNCHANGED <<apiVars, partVars, sliceVars, winVars, initVars, runVars, sigVars,
                   pending, todo, histVars>>

-------------------------------------------------------------------------------
LoopStep ==
    \/ Poll \/ LoopReturns \/ Startup
    \/ \E p \in Proc : \/ CompletedIgnored(p)
                       \/ CompletedInit(p)
                       \/ \E s \in Slice : CompletedInSlice(p, s) \/ CompletedCrash(p, s)
                       \/ ChildTerminatedButPopulated(p)
                       \/ ProcessEnded(p)
    \/ \E s \in Slice : SliceTimer(s) \/ StartSc(s) \/ StartBe(s) \/ StopSlice(s)
    \/ ExitCheck \/ WindowTimer \/ RunTimer \/ Signal
    \/ StartDone \/ EnterNextWindow \/ KillProcesses \/ BreakLoop

\* The scheduler has returned or crashed.
Over ==
    /\ loop \in {"stopped", "crashed"}
    /\ UNCHANGED vars

Next ==
    \/ LoopStep
    \/ Tick
    \/ ReceiveSignal
    \/ \E p \in Proc : Client(p)
    \/ Over

Spec == Init /\ [][Next]_vars

\* The event loop keeps running, time passes, the kernel completes a freeze and
\* a process that is killed and stays thawed dies.
Fairness ==
    /\ WF_vars(LoopStep)
    /\ WF_vars(Tick)
    /\ \A p \in Proc : WF_vars(Client(p) /\ FreezeSettles(p))
    /\ \A p \in Proc : WF_vars(Client(p) /\ Die(p))

FairSpec == Spec /\ Fairness

\* In addition, a process with an initialization finishes it or ends.
InitFairSpec ==
    /\ FairSpec
    /\ \A p \in HasInit :
          WF_vars(Client(p) /\ (DemosInitializationCompleted(p) \/ Exit(p) \/ OrphansExit(p)))

\* In addition, a process that is thawed again and again while its read() of the
\* new-period eventfd could return gets to return from it.
ReadFairSpec ==
    /\ FairSpec
    /\ \A p \in Cooperative : SF_vars(Client(p) /\ ReadNewPeriod(p))

-------------------------------------------------------------------------------
(* Properties *)

PartTypeOK ==
    /\ completed \in SUBSET Proc
    /\ actual_budget \in [Proc -> Int]
    /\ current_proc \in [Partition -> Nat \ {0}]
    /\ \A q \in Partition : current_proc[q] =< Len(Processes[q])
    /\ completed_cb \in [Partition -> {"null", "noop", "init"} \cup Slice]
    /\ DOMAIN cpus = Partition

SliceTypeOK ==
    /\ running_process \in [Slice -> Proc \cup {NoProc}]
    /\ running_partition \in [Slice -> Partition \cup {NoPartition}]
    /\ timeout \in [Slice -> Int]
    /\ timer \in SUBSET Slice

WindowTypeOK ==
    /\ finished_sc_partitions \in Nat
    /\ current_win \in DOMAIN Windows
    /\ mf_timeout \in Int
    /\ mf_timer \in BOOLEAN
    /\ op \in {"idle", "startSc", "startBe", "stop", "exit"}
    /\ todo \subseteq Windows[current_win]
    /\ ctime \in Int

LoopTypeOK ==
    /\ exit_cb \in {"normal", "init"}
    /\ remaining_process_inits \in Int
    /\ run_timeout \in Int
    /\ run_timer \in BOOLEAN
    /\ signals \in Nat
    /\ signal_pending \in BOOLEAN
    /\ loop \in {"boot", "run", "breaking", "stopped", "crashed"}
    /\ pending \subseteq Event
    /\ after \in {"none", "next", "kill", "break"}
    /\ exit_check \in BOOLEAN
    /\ started \in BOOLEAN
    /\ stopreq \in {"no", "early", "late"}

TypeOK == ApiTypeOK /\ PartTypeOK /\ SliceTypeOK /\ WindowTypeOK /\ LoopTypeOK

\* A process is thawed only while a slice of the current window runs it, while
\* it is being initialized, or once it is being killed or has ended.
Isolation ==
    \A p \in Proc : freezer[p] = "THAWED" =>
        \/ \E s \in Windows[current_win] : running_process[s] = p
        \/ exit_cb = "init" /\ p \in HasInit
        \/ p \in doomed
        \/ sysproc[p] = "gone"

\* A slice runs a process exactly while its budget timer is started; it belongs
\* to the current window and the process to the partition that it runs.
BudgetTimer ==
    \A s \in Slice :
        /\ s \in timer <=> running_process[s] # NoProc
        /\ running_process[s] # NoProc =>
              /\ s \in Windows[current_win]
              /\ PartOf[running_process[s]] = running_partition[s]

\* The slices of the window whose SC partition has been started and has ended.
ScEnded == {s \in Windows[current_win] : s \notin todo /\ s \notin timer}

Total == Cardinality(Windows[current_win])
Between == op \in {"idle", "exit"}

ScPhase ==
    /\ finished_sc_partitions = Cardinality(ScEnded)
    /\ \A s \in timer : running_partition[s] = Sc[s]

BePhase ==
    /\ finished_sc_partitions >= Total
    /\ \A s \in timer : running_partition[s] = Be[s]

\* The SC and the BE phase of a window do not overlap, and the counter
\* finished_sc_partitions, from which Window tells them apart, is exact during
\* the SC phase although it is incremented in callbacks nested in the loop that
\* starts the slices.  Stopping a window leaves no budget timer started, and no
\* event of a stopped budget timer is left in the batch.
Phases ==
    /\ op = "startSc" => mf_timer /\ ScPhase /\ todo \cap timer = {}
    /\ op = "startBe" => mf_timer /\ BePhase /\ todo \cap timer = {}
    /\ op = "stop" => ~mf_timer /\ timer \subseteq todo
    /\ Between => todo = {}
    /\ Between /\ mf_timer => IF finished_sc_partitions < Total THEN ScPhase ELSE BePhase
    /\ Between /\ ~mf_timer => timer = {}
    /\ \A s \in Slice : SliceEv(s) \in pending => s \in timer

\* The major frame is started at most once, from startup_fn or by the last
\* initialization; before that no timer is started and no window is entered.
StartOrder ==
    /\ loop = "boot" => pending = {}
    /\ loop = "boot" \/ StartupEv \in pending => ~started /\ exit_cb = "normal"
    /\ (\E q \in Partition : completed_cb[q] = "init") => exit_cb = "init"
    /\ exit_cb = "init" => ~started
    /\ ~started => /\ op \notin {"startSc", "startBe"}
                   /\ timer = {}
                   /\ ~mf_timer
                   /\ WindowEv \notin pending
                   /\ after # "next"

\* A running process has the CPUs of the slice that runs it, although its
\* partition moves between slices of different windows.
CpuPlacement ==
    \A s \in Slice : running_process[s] # NoProc =>
        cpus[PartOf[running_process[s]]] = Cpus[s]

\* The most that a process may be given.
MaxBudget(p) == Budget[p] + Jitter[p] - Jitter[p] \div 2

\* With a punctual loop no process is given more than its budget and jitter
\* allow, and what is stored for an interrupted one is positive.
BudgetBound ==
    /\ \A s \in Slice : running_process[s] # NoProc =>
           timeout[s] =< MaxBudget(running_process[s]) * TicksPerMs
    /\ \A p \in Proc :
           actual_budget[p] # Budget[p] => actual_budget[p] \in 1 .. MaxBudget(p)

\* Windows follow each other at their nominal times however late the loop
\* handles the timers: lateness does not accumulate.
NoDrift ==
    mf_timer /\ op = "idle" =>
        clock = (WindowEnd[current_win] - mf_timeout) % WindowEnd[Len(Windows)]

\* The major frame starts only when every process that has an initialization
\* has completed it or has ended.
InitBarrier ==
    started => \A p \in HasInit : \/ p \notin initialization_pending
                                  \/ sysproc[p] \in {"orphaned", "gone"}
                                  \/ p \in doomed

\* run() returns only after all processes and their children have ended.
ReturnsAfterEnd ==
    loop = "stopped" => \A p \in Proc : sysproc[p] = "gone"

\* No completion finds a partition whose callback was never set.
NoNullCallback ==
    \A p \in Proc : Dispatch(CompletedEv(p)) => completed_cb[PartOf[p]] # "null"

\* stop_current_process() always has a process to stop.
NoCrash == loop # "crashed"

\* Once a shutdown was requested of a running scheduler, the only processes that
\* are frozen again are those that mf.stop() suspends on the way to kill_all():
\* no handler, neither a window switch nor a late completion nor an exit, freezes
\* a process that has been sent its SIGKILL and has to act on it.
NoFreezeAfterShutdown ==
    [][stopreq = "late" =>
          \A p \in Proc : freezer[p] = "THAWED" /\ freezer'[p] # "THAWED" =>
              op = "stop" /\ after = "kill" /\ p \notin doomed]_vars

\* After a shutdown request the major frame is not started any more.
NoStartAfterShutdown == [][stopreq # "no" => started' = started]_vars

\* A process loses its turn in the window only if it is running and has no whole
\* millisecond left, or a process of the partitions of the very slice that runs
\* it reported a completion, or it was given no budget when its turn came.  The
\* slice does not look at whose completion it reads, so one that was written
\* before its process was suspended may end the turn of another process of that
\* slice; it never reaches a process of another slice, although partitions move
\* between slices and the loop handles completions and windows late.
TurnKept ==
    [][\A p \in completed' \ completed :
          \/ 0 \in Draw(p) /\ \A s \in Slice : running_process[s] # p
          \/ \E s \in Slice :
                /\ running_process[s] = p
                /\ \/ ToMs(timeout[s] - ctime) =< 0
                   \/ \E q \in Proc : /\ PartOf[q] \in {Sc[s], Be[s]}
                                      /\ completed_w[q] > 0
                                      /\ completed_w'[q] = 0]_vars

\* The processes whose remaining budget the handler is about to store, as
\* Slice::stop does for interrupted BE processes.
Interrupted ==
    IF op # "stop" THEN {}
    ELSE {s \in todo : /\ running_process[s] # NoProc
                       /\ running_partition[s] = Be[s]
                       /\ Remaining(s) # 0}

\* Process::set_remaining_budget asserts that what it stores is positive and
\* below the budget.
RemainingInRange ==
    \A s \in Interrupted : Remaining(s) > 0 /\ Remaining(s) < Budget[running_process[s]]

\* A shutdown requested of the running scheduler, and one caused by the run
\* timeout zero, ends with every process gone and run() returning.
ShutdownCompletes ==
    (stopreq = "late" \/ (loop = "boot" /\ run_timeout = 0)) ~> loop = "stopped"

\* Every BE process gets to run again and again, unless it has ended, because
\* the queue of a BE partition continues where it was interrupted.
BeRotation ==
    \A p \in Proc : (\E s \in Slice : Be[s] = PartOf[p]) =>
        []<>(\/ \E s \in Slice : running_process[s] = p
             \/ p \notin system_process_spawned
             \/ loop # "run")

\* A process that called demos_completed() does not wait forever: its completion
\* is read, whether before or after it was suspended, and the scheduler resumes
\* it with the token in a later window.
WakesUp ==
    \A p \in Proc : sysproc[p] = "blocked" ~> sysproc[p] # "blocked" \/ loop # "run"

\* The scheduler leaves the initialization phase.
InitEnds == <>(started \/ loop \in {"stopped", "crashed"})
===============================================================================
