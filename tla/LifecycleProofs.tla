---------------------------- MODULE LifecycleProofs ----------------------------
(***************************************************************************)
(* The life of the processes under the scheduler: initialization, running, *)
(* shutdown.  A process runs only when it may, the major frame starts only *)
(* when everybody is initialized, and run() returns only when everybody is *)
(* gone; and the scheduler implements TimePartitioning, for every          *)
(* configuration.                                                          *)
(***************************************************************************)
EXTENDS Partitioned, SchedulerProofs

\* startup_fn has not run yet.
BeforeStartup == loop = "boot" \/ StartupEv \in pending

\* The major frame was not started and nobody asked for a shutdown.
Preparing == ~started /\ stopreq = "no"

\* Every process was sent SIGKILL or has ended.
AllDoomed == \A p \in Proc : p \in doomed \/ sysproc[p] = "gone"

\* The processes whose initialization has not been counted as finished.
Waiting ==
    {p \in HasInit \cap system_process_spawned :
        p \in initialization_pending \/ completed_w[p] > 0}

\* The loop is broken only when no process is left.
BrokenWhenGone ==
    loop \in {"breaking", "stopped"} \/ after = "break" => AllGone

\* The partitions have a completion callback as soon as startup_fn has run, and
\* no handler runs before the first poll.
CallbackSet ==
    /\ loop = "boot" => op = "idle"
    /\ BeforeStartup \/ \A q \in Partition : completed_cb[q] # "null"

\* A shutdown that was requested has reached every process when the handler is
\* done, and the request to a running scheduler has stopped the windows.
ShutdownReached ==
    /\ op = "stop" <=> after # "none"
    /\ stopreq = "no" => doomed = {} /\ after # "kill"
    /\ stopreq # "no" => AllDoomed \/ (op = "stop" /\ after = "kill")
    /\ stopreq = "late" => started /\ ~mf_timer /\ WindowEv \notin pending /\ after # "next"

\* When a shutdown was requested of the running scheduler, a slice still runs a
\* process only while mf.stop() goes through the slices, before kill_all().
Stopping ==
    stopreq = "late" /\ timer # {} => doomed = {} /\ op = "stop" /\ after = "kill"

\* The library's view of the initialization agrees with the eventfds.
InitCompletion ==
    /\ initialization_pending \subseteq HasInit
    /\ \A p \in Proc : /\ p \in initialization_pending => completed_w[p] = 0
                       /\ p \notin Cooperative => completed_w[p] = 0

\* What the initialization phase relies on: exec() lets a child that is already
\* running call demos_completed() only if the scheduler expects it to.
NoEarlyCompletion == HasInit = {} \/ FastStart \cap Cooperative \subseteq HasInit

\* Nothing but initializations runs, and nobody has been told to continue.
Quiet ==
    /\ exit_cb = "normal" => BeforeStartup
    /\ AllGone \/ \A q \in Partition : completed_cb[q] \in {"null", "init"}
    /\ \A p \in Proc :
          /\ efd_continue[p] = 0
          /\ completed_w[p] > 0 => sysproc[p] = "blocked"
          /\ BeforeStartup => freezer[p] # "THAWED"
          /\ p \notin HasInit =>
                /\ freezer[p] # "THAWED"
                /\ p \in FastStart \/ freezer[p] = "FROZEN"
                /\ HasInit # {} => completed_w[p] = 0
          /\ p \in HasInit /\ sysproc[p] # "blocked" => p \in initialization_pending

\* remaining_process_inits covers everybody who is not done, and who is not
\* frozen is not done.
Counted ==
    exit_cb = "init" =>
        /\ remaining_process_inits >= Cardinality(Waiting)
        /\ \A p \in HasInit \cap system_process_spawned : freezer[p] = "THAWED" => p \in Waiting

\* What holds while the processes are being initialized.
Preparation ==
    /\ BeforeStartup => demos_completed = {}
    /\ exit_cb = "init" => HasInit # {}
    /\ Preparing => Quiet /\ Counted

-------------------------------------------------------------------------------
(* What every step leaves as it is *)

\* Nobody comes back: processes are not respawned, SIGKILL is not taken back, an
\* initialization is completed once.
LEMMA NobodyReturns ==
    ASSUME ApiTypeOK, [ApiNext]_apiVars
    PROVE  /\ system_process_spawned' \subseteq system_process_spawned
           /\ doomed \subseteq doomed'
           /\ initialization_pending' \subseteq initialization_pending
           /\ \A p \in Proc : /\ sysproc[p] = "gone" => sysproc'[p] = "gone"
                              /\ sysproc[p] = "orphaned" => sysproc'[p] \in {"orphaned", "gone"}
<1> USE DEF ApiTypeOK, clientVars, endVars
<1>1. CASE UNCHANGED apiVars
  BY <1>1 DEF apiVars
<1>2. ASSUME NEW q \in Proc, ClientStep(q)
      PROVE  /\ system_process_spawned' = system_process_spawned /\ doomed' = doomed
             /\ initialization_pending' \subseteq initialization_pending
             /\ \A p \in Proc : /\ sysproc[p] = "gone" => sysproc'[p] = "gone"
                                /\ sysproc[p] = "orphaned" => sysproc'[p] \in {"orphaned", "gone"}
  BY <1>2 DEF ClientStep, FreezeSettles, DemosCompleted, DemosInitializationCompleted,
     ReadNewPeriod, Exit, OrphansExit, Die
<1>3. CASE SchedulerStep
  BY <1>3 DEF SchedulerStep, Completed, Switch, ChildTerminatedOrphans, HandleEnd, KillAll
<1>4. QED
  BY <1>1, <1>2, <1>3 DEF ApiNext

\* A slice that goes on to a process resumes it, and nobody else.
LEMMA StartNextResumes ==
    ASSUME NEW s, NEW q, NEW cur, NEW comp, NEW ct, NEW S, NEW dc, NEW op0, NEW todo0,
           StartNextProcess(s, q, cur, comp, ct, S, dc, op0, todo0)
    PROVE  \E r \in Proc \cup {NoProc} :
              /\ running_process' = [running_process EXCEPT ![s] = r]
              /\ SuspendResume(S, {r} \cap Proc, dc)
<1>1. NoProc \notin Proc
  BY SchedulerAssumption
<1>2. PICK r : /\ running_process' = [running_process EXCEPT ![s] = r]
               /\ \/ r \in Proc /\ SuspendResume(S, {r}, dc)
                  \/ r = NoProc /\ SuspendResume(S, {}, dc)
  BY DEF StartNextProcess
<1>3. CASE r \in Proc
  <2>1. {r} \cap Proc = {r}
    BY <1>3
  <2>2. QED
    BY <1>1, <1>2, <1>3, <2>1
<1>4. CASE r = NoProc
  <2>1. {r} \cap Proc = {}
    BY <1>1, <1>4
  <2>2. QED
    BY <1>1, <1>2, <1>4, <2>1
<1>5. QED
  BY <1>2, <1>3, <1>4

\* How the event loop is left, and for what a window is stopped.
LEMMA LoopMoves ==
    ASSUME [Next]_vars
    PROVE  /\ \/ loop' \in {loop, "run", "crashed"}
              \/ loop' = "breaking" /\ after = "break"
              \/ loop' = "stopped" /\ loop = "breaking"
           /\ after' \in {after, "none", "kill", "next"} \/ AllGone
<1>1. CASE \/ Poll \/ LoopReturns \/ Tick \/ ReceiveSignal \/ ExitCheck \/ WindowTimer
           \/ RunTimer \/ Signal \/ StartDone \/ EnterNextWindow \/ KillProcesses \/ BreakLoop
  BY <1>1 DEF Poll, LoopReturns, Tick, ReceiveSignal, ExitCheck, WindowTimer, RunTimer, Signal,
     StartDone, EnterNextWindow, KillProcesses, BreakLoop, MfStop, InitiateShutdown, ctlVars
<1>2. CASE Startup
  BY <1>2 DEF Startup, FinishProcessInit, InitiateShutdown, MfStop, ctlVars
<1>3. ASSUME NEW p \in Proc, CompletedIgnored(p) \/ ChildTerminatedButPopulated(p) \/ Client(p)
      PROVE  loop' = loop /\ after' = after
  BY <1>3 DEF CompletedIgnored, ChildTerminatedButPopulated, Client, ctlVars
<1>4. ASSUME NEW p \in Proc, CompletedInit(p) \/ ProcessEnded(p)
      PROVE  loop' = loop /\ after' \in {after, "none", "kill", "next"}
  BY <1>4 DEF CompletedInit, ProcessEnded, OneInitLess, FinishProcessInit, InitiateShutdown,
     MfStop
<1>5. ASSUME NEW p \in Proc, NEW s \in Slice, CompletedInSlice(p, s) \/ CompletedCrash(p, s)
      PROVE  loop' \in {loop, "crashed"} /\ after' = after
  BY <1>5 DEF CompletedInSlice, CompletedCrash, ctlVars
<1>6. ASSUME NEW s \in Slice, SliceTimer(s) \/ StartSc(s) \/ StartBe(s) \/ StopSlice(s)
      PROVE  loop' = loop /\ after' = after
  BY <1>6 DEF SliceTimer, StartSc, StartBe, StopSlice
<1>7. CASE UNCHANGED vars
  BY <1>7 DEF vars, ctlVars
<1>8. QED
  BY <1>1, <1>2, <1>3, <1>4, <1>5, <1>6, <1>7 DEF Next, LoopStep, Over

\* The loop is left only when no process is left.
LEMMA BrokenWhenGoneStep ==
    ASSUME IInv, BrokenWhenGone, [Next]_vars PROVE BrokenWhenGone'
<1>1. AllGone => AllGone'
  BY StepRefines, NobodyReturns DEF IInv, TypeOK, AllGone
<1>2. QED
  BY <1>1, LoopMoves DEF BrokenWhenGone, IInv, TypeOK, LoopTypeOK

-------------------------------------------------------------------------------
(* The completion callbacks *)

\* The startup event outranks everything but signals and exits of children.
LEMMA StartupOutranks ==
    ASSUME NEW p, NEW s
    PROVE  /\ Priority(StartupEv) = 2 /\ Priority(CompletedEv(p)) = 1
           /\ Priority(PopulatedEv(p)) = 1 /\ Priority(SliceEv(s)) = 0
           /\ Priority(WindowEv) = 1 /\ Priority(RunTimerEv) = 1
BY DEF Priority, StartupEv, CompletedEv, PopulatedEv, SliceEv, WindowEv, RunTimerEv, SignalEv

\* Before startup_fn no completion and no end of an emptied cgroup is handled.
LEMMA StartupFirst ==
    ASSUME NEW p, NEW s, BeforeStartup
    PROVE  /\ ~Dispatch(CompletedEv(p)) /\ ~Dispatch(PopulatedEv(p)) /\ ~Dispatch(SliceEv(s))
           /\ ~Dispatch(WindowEv) /\ ~Dispatch(RunTimerEv)
<1>1. ASSUME NEW e, Dispatch(e) PROVE Priority(StartupEv) =< Priority(e)
  BY <1>1 DEF BeforeStartup, Dispatch
<1>2. ~(2 =< 1) /\ ~(2 =< 0)
  OBVIOUS
<1>3. QED
  BY <1>1, <1>2, StartupOutranks

\* startup_fn runs once: until then it is due, and afterwards it is never due.
LEMMA StartupOnce ==
    ASSUME IInv, CallbackSet, [Next]_vars
    PROVE  /\ loop' = "boot" => op' = "idle"
           /\ BeforeStartup' => BeforeStartup
           /\ BeforeStartup => BeforeStartup' \/ Startup
<1>0. /\ loop = "boot" => op = "idle" /\ pending = {}
      /\ StartupEv \notin Ready
  BY ReadyFacts DEF IInv, StartOrder, TypeOK, CallbackSet
<1>1. CASE Poll
  BY <1>0, <1>1 DEF Poll, BeforeStartup, StartupEv
<1>2. CASE Startup
  BY <1>0, <1>2 DEF Startup, Dispatch, BeforeStartup, FinishProcessInit, InitiateShutdown, MfStop,
     StartupEv
<1>3. CASE LoopReturns \/ Tick \/ ReceiveSignal \/ UNCHANGED vars \/ \E p \in Proc : Client(p)
  BY <1>0, <1>3 DEF LoopReturns, Tick, ReceiveSignal, vars, Client, BeforeStartup, StartupEv,
     ctlVars
<1>4. ASSUME loop # "boot", loop' # "boot", NEW e, e # StartupEv,
             \/ pending' \in {pending, pending \ {e}, pending \ {e, WindowEv}}
             \/ pending' = (pending \ {e}) \ {WindowEv}
      PROVE  BeforeStartup' <=> BeforeStartup
  BY <1>4 DEF BeforeStartup, StartupEv, WindowEv
<1>5. ASSUME NEW p \in Proc, CompletedIgnored(p) \/ CompletedInit(p)
                             \/ \E s \in Slice : CompletedInSlice(p, s) \/ CompletedCrash(p, s)
      PROVE  ~BeforeStartup /\ ~BeforeStartup' /\ loop' # "boot"
  <2>1. Dispatch(CompletedEv(p)) /\ loop' # "boot" /\ pending' \subseteq pending
    BY <1>5 DEF CompletedIgnored, CompletedInit, CompletedInSlice, CompletedCrash, Dispatch,
       OneInitLess, FinishProcessInit, InitiateShutdown, MfStop
  <2>2. ~BeforeStartup
    BY <2>1, StartupFirst
  <2>3. QED
    BY <2>1, <2>2 DEF BeforeStartup, StartupEv
<1>6. ASSUME NEW p \in Proc, ChildTerminatedButPopulated(p) \/ ProcessEnded(p)
      PROVE  (BeforeStartup' <=> BeforeStartup) /\ loop' # "boot"
  <2>1. PICK e \in {ExitEv(p), PopulatedEv(p)} :
           /\ loop # "boot" /\ loop' = loop
           /\ \/ pending' = pending \ {e}
              \/ pending' = (pending \ {e}) \ {WindowEv}
    BY <1>6 DEF ChildTerminatedButPopulated, ProcessEnded, Dispatch, OneInitLess,
       FinishProcessInit, InitiateShutdown, MfStop
  <2>2. e # StartupEv
    BY SliceEventsDiffer
  <2>3. QED
    BY <1>4, <2>1, <2>2
<1>7. ASSUME NEW s \in Slice, SliceTimer(s) \/ StartSc(s) \/ StartBe(s) \/ StopSlice(s)
      PROVE  (BeforeStartup' <=> BeforeStartup) /\ loop' # "boot"
  <2>1. loop # "boot" /\ loop' = loop /\ pending' \in {pending, pending \ {SliceEv(s)}}
    BY <1>0, <1>7 DEF SliceTimer, StartSc, StartBe, StopSlice, Dispatch
  <2>2. QED
    BY <1>4, <2>1, SliceEventsDiffer
<1>8. CASE WindowTimer \/ RunTimer \/ Signal
  <2>1. PICK e \in {WindowEv, RunTimerEv, SignalEv} :
           /\ loop # "boot" /\ loop' = loop
           /\ pending' \in {pending \ {e}, (pending \ {e}) \ {WindowEv}}
    BY <1>8 DEF WindowTimer, RunTimer, Signal, Dispatch, InitiateShutdown, MfStop
  <2>2. e # StartupEv
    BY SliceEventsDiffer
  <2>3. QED
    BY <1>4, <2>1, <2>2
<1>9. CASE ExitCheck \/ StartDone \/ EnterNextWindow \/ KillProcesses \/ BreakLoop
  <2>1. /\ loop # "boot" /\ loop' # "boot" /\ pending' \in {pending, pending \ {WindowEv}}
    BY <1>0, <1>9 DEF ExitCheck, StartDone, EnterNextWindow, KillProcesses, BreakLoop, MfStop
  <2>2. QED
    BY <1>4, <2>1, SliceEventsDiffer
<1>10. QED
  BY <1>1, <1>2, <1>3, <1>5, <1>6, <1>7, <1>8, <1>9 DEF Next, LoopStep, Over

\* The callbacks stay set.
LEMMA CallbackSetStep ==
    ASSUME IInv, CallbackSet, [Next]_vars PROVE CallbackSet'
<1>1. CASE Startup
  <2>1. \A q \in Partition : completed_cb'[q] # "null"
    BY <1>1 DEF Startup, FinishProcessInit
  <2>2. QED
    BY <2>1, StartupOnce DEF CallbackSet
<1>2. CASE ~Startup
  <2>1. \A q \in Partition : completed_cb'[q] = "null" => completed_cb[q] = "null"
    <3>1. \A s \in Slice : s # "null"
      BY SchedulerAssumption
    <3>2. ASSUME NEW s \in Slice, StopSlice(s)
          PROVE \A q \in Partition : completed_cb'[q] = "null" => completed_cb[q] = "null"
      BY <3>2 DEF StopSlice
    <3>3. ASSUME NEW s \in Slice, StartSc(s) \/ StartBe(s)
          PROVE \A q \in Partition : completed_cb'[q] = "null" => completed_cb[q] = "null"
      BY <3>1, <3>3 DEF StartSc, StartBe, StartPartition, IInv, TypeOK, PartTypeOK, partVars
    <3>4. ASSUME NEW s \in Slice, SliceTimer(s) \/ \E p \in Proc : CompletedInSlice(p, s)
          PROVE completed_cb' = completed_cb
      BY <3>4 DEF SliceTimer, CompletedInSlice, ScheduleNext
    <3>5. ASSUME NEW p \in Proc, CompletedInit(p) \/ ProcessEnded(p)
          PROVE \A q \in Partition : completed_cb'[q] = "null" => completed_cb[q] = "null"
      BY <3>5 DEF CompletedInit, ProcessEnded, OneInitLess, FinishProcessInit
    <3>6. ASSUME NEW p \in Proc, \/ CompletedIgnored(p) \/ ChildTerminatedButPopulated(p)
                                 \/ Client(p) \/ \E s \in Slice : CompletedCrash(p, s)
          PROVE completed_cb' = completed_cb
      BY <3>6 DEF CompletedIgnored, ChildTerminatedButPopulated, Client, CompletedCrash, partVars
    <3>7. CASE \/ Poll \/ LoopReturns \/ Tick \/ ReceiveSignal \/ UNCHANGED vars \/ ExitCheck
               \/ WindowTimer \/ RunTimer \/ Signal \/ StartDone \/ EnterNextWindow
               \/ KillProcesses \/ BreakLoop
      BY <3>7 DEF Poll, LoopReturns, Tick, ReceiveSignal, vars, ExitCheck, WindowTimer, RunTimer,
         Signal, StartDone, EnterNextWindow, KillProcesses, BreakLoop, partVars
    <3>8. QED
      BY <1>2, <3>2, <3>3, <3>4, <3>5, <3>6, <3>7 DEF Next, LoopStep, Over
  <2>2. QED
    BY <1>2, <2>1, StartupOnce DEF CallbackSet
<1>3. QED
  BY <1>1, <1>2

-------------------------------------------------------------------------------
(* Shutdown *)

\* A shutdown reaches everybody, and the windows do not go on.
LEMMA ShutdownReachedStep ==
    ASSUME IInv, EndReported, ShutdownReached, [Next]_vars PROVE ShutdownReached'
<1>0. AllDoomed => AllDoomed'
  BY StepRefines, NobodyReturns DEF IInv, TypeOK, AllDoomed
<1>1. ASSUME doomed' = doomed, after' = after, op' = op \/ (op # "stop" /\ op' # "stop"),
             stopreq' = stopreq, started' = started, mf_timer' = mf_timer,
             WindowEv \in pending' => mf_timer \/ WindowEv \in pending
      PROVE  ShutdownReached'
  BY <1>0, <1>1 DEF ShutdownReached
<1>2. ASSUME doomed' = doomed, op # "stop", NEW rest, rest \subseteq pending,
             InitiateShutdown(rest)
      PROVE  ShutdownReached'
  <2>1. op' = "stop" /\ after' = "kill" /\ mf_timer' = FALSE /\ WindowEv \notin pending'
    BY <1>2 DEF InitiateShutdown, MfStop
  <2>2. stopreq' # "no" /\ (stopreq' = "late" => started') /\ started' = started
    BY <1>2 DEF InitiateShutdown, ShutdownReached
  <2>3. QED
    BY <2>1, <2>2 DEF ShutdownReached
<1>3. ASSUME doomed' = doomed, ~started, op # "stop", NEW rest, rest \subseteq pending,
             FinishProcessInit(rest)
      PROVE  ShutdownReached'
  <2>1. CASE InitiateShutdown(rest)
    BY <1>2, <1>3, <2>1
  <2>2. CASE MfStart(current_win, 0) /\ after' = after /\ stopreq' = stopreq
    BY <1>0, <1>3, <2>2 DEF MfStart, ShutdownReached
  <2>3. QED
    BY <1>3, <2>1, <2>2 DEF FinishProcessInit
<1>4. ASSUME doomed' = doomed, ~started, op = "idle", NEW rest, rest \subseteq pending,
             NEW op0 \in {"idle", "exit"}, OneInitLess(rest, op0)
      PROVE  ShutdownReached'
  <2>1. CASE FinishProcessInit(rest)
    BY <1>3, <1>4, <2>1
  <2>2. CASE /\ pending' = rest /\ op' = op0
             /\ UNCHANGED <<winVars, after, histVars>>
    <3>1. op' # "stop" /\ WindowEv \in pending' => WindowEv \in pending
      BY <1>4, <2>2
    <3>2. QED
      BY <1>1, <1>4, <2>2, <3>1 DEF winVars, histVars
  <2>3. QED
    BY <1>4, <2>1, <2>2 DEF OneInitLess
<1>5. CASE Poll
  <2>1. WindowEv \in pending' => mf_timer
    BY <1>5, ReadyFacts, SliceEventsDiffer DEF Poll, IInv, TypeOK
  <2>2. QED
    BY <1>1, <1>5, <2>1 DEF Poll, apiVars, clientVars, ctlVars, histVars, winVars
<1>6. CASE Startup
  <2>1. ~started /\ op = "idle" /\ doomed' = doomed
    BY <1>6 DEF Startup, Dispatch, IInv, StartOrder, Switch, clientVars
  <2>2. CASE /\ pending' = pending \ {StartupEv}
             /\ UNCHANGED <<winVars, runVars, ctlVars, histVars>>
    BY <1>1, <2>1, <2>2 DEF ctlVars, histVars, winVars
  <2>3. CASE FinishProcessInit(pending \ {StartupEv})
    BY <1>3, <2>1, <2>3
  <2>4. QED
    BY <1>6, <2>2, <2>3 DEF Startup
<1>7. ASSUME NEW p \in Proc, CompletedInit(p) PROVE ShutdownReached'
  <2>1. doomed' = doomed /\ op = "idle" /\ OneInitLess(pending \ {CompletedEv(p)}, "idle")
    BY <1>7 DEF CompletedInit, Completed, clientVars, Dispatch
  <2>2. ~started
    BY <1>7, SchedulerAssumption DEF CompletedInit, IInv, StartOrder
  <2>3. QED
    BY <1>4, <2>1, <2>2
<1>8. ASSUME NEW p \in Proc, ProcessEnded(p) PROVE ShutdownReached'
  <2>1. PICK e : /\ Dispatch(e)
                 /\ \/ CountsAsInitialized(p) /\ OneInitLess(pending \ {e}, "exit")
                    \/ /\ pending' = pending \ {e}
                       /\ op' = "exit"
                       /\ UNCHANGED <<winVars, after, histVars>>
    BY <1>8 DEF ProcessEnded
  <2>2. op = "idle" /\ doomed' = doomed
    BY <1>8, <2>1 DEF ProcessEnded, HandleEnd, clientVars, Dispatch
  <2>3. CASE CountsAsInitialized(p) /\ OneInitLess(pending \ {e}, "exit")
    BY <1>4, <2>2, <2>3 DEF CountsAsInitialized, IInv, StartOrder
  <2>4. CASE pending' = pending \ {e} /\ op' = "exit" /\ UNCHANGED <<winVars, after, histVars>>
    BY <1>1, <2>2, <2>4 DEF winVars, histVars
  <2>5. QED
    BY <2>1, <2>3, <2>4
<1>9. ASSUME NEW p \in Proc, \/ CompletedIgnored(p) \/ ChildTerminatedButPopulated(p)
                             \/ Client(p) \/ \E s \in Slice : CompletedCrash(p, s)
      PROVE  ShutdownReached'
  <2>1. doomed' = doomed
    BY <1>9 DEF CompletedIgnored, ChildTerminatedButPopulated, ChildTerminatedOrphans,
       CompletedCrash, Completed, Client, ClientStep, FreezeSettles, DemosCompleted,
       DemosInitializationCompleted, ReadNewPeriod, Exit, OrphansExit, Die, clientVars
  <2>2. UNCHANGED <<winVars, ctlVars, histVars>> /\ pending' \subseteq pending
    BY <1>9 DEF CompletedIgnored, ChildTerminatedButPopulated, CompletedCrash, Client
  <2>3. QED
    BY <1>1, <2>1, <2>2 DEF winVars, ctlVars, histVars
<1>10. ASSUME NEW s \in Slice, \/ SliceTimer(s) \/ StartSc(s) \/ StartBe(s)
                               \/ \E p \in Proc : CompletedInSlice(p, s)
       PROVE  ShutdownReached'
  <2>1. doomed' = doomed
    BY <1>10 DEF SliceTimer, StartSc, StartBe, CompletedInSlice, apiVars, clientVars
  <2>2. /\ op # "stop" /\ after' = after /\ mf_timer' = mf_timer /\ UNCHANGED histVars
        /\ pending' \subseteq pending
    BY <1>10 DEF SliceTimer, StartSc, StartBe, CompletedInSlice, Dispatch
  <2>3. op' # "stop"
    BY <1>10, <2>2 DEF SliceTimer, StartSc, StartBe, CompletedInSlice, ScheduleNext,
       StartPartition, StartNextProcess, SliceScEnd, ContinueWith
  <2>4. QED
    BY <1>1, <2>1, <2>2, <2>3 DEF histVars
<1>11. ASSUME NEW s \in Slice, StopSlice(s) PROVE ShutdownReached'
  BY <1>1, <1>11 DEF StopSlice, clientVars, histVars
<1>12. CASE LoopReturns \/ Tick \/ ReceiveSignal \/ UNCHANGED vars
  BY <1>1, <1>12 DEF LoopReturns, Tick, ReceiveSignal, vars, apiVars, clientVars, ctlVars, histVars,
     winVars
<1>13. CASE StartDone
  BY <1>1, <1>13 DEF StartDone, Return, apiVars, clientVars, histVars, winVars
<1>14. CASE ExitCheck
  BY <1>0, <1>14 DEF ExitCheck, MfStop, apiVars, clientVars, histVars, winVars, ShutdownReached
<1>15. CASE WindowTimer
  BY <1>0, <1>15 DEF WindowTimer, Dispatch, apiVars, clientVars, histVars, ShutdownReached
<1>16. CASE RunTimer
  <2>1. doomed' = doomed /\ op # "stop" /\ InitiateShutdown(pending \ {RunTimerEv})
    BY <1>16 DEF RunTimer, Dispatch, apiVars, clientVars
  <2>2. QED
    BY <1>2, <2>1
<1>17. CASE Signal
  <2>1. doomed' = doomed /\ op # "stop" /\ InitiateShutdown(pending \ {SignalEv})
    BY <1>17 DEF Signal, Dispatch, apiVars, clientVars
  <2>2. QED
    BY <1>2, <2>1
<1>18. CASE EnterNextWindow
  BY <1>0, <1>18 DEF EnterNextWindow, MfStart, apiVars, clientVars, histVars, ShutdownReached
<1>19. CASE KillProcesses
  <2>1. AllDoomed'
    BY <1>19 DEF KillProcesses, KillAll, AllDoomed, EndReported
  <2>2. op' # "stop" /\ after' = "none" /\ stopreq # "no" /\ UNCHANGED <<pending, winVars, histVars>>
    BY <1>19 DEF KillProcesses, Return, ShutdownReached
  <2>3. QED
    BY <2>1, <2>2 DEF ShutdownReached, winVars, histVars
<1>20. CASE BreakLoop
  BY <1>0, <1>20 DEF BreakLoop, Return, apiVars, clientVars, winVars, histVars, ShutdownReached
<1>21. QED
  BY <1>5, <1>6, <1>7, <1>8, <1>9, <1>10, <1>11, <1>12, <1>13, <1>14, <1>15, <1>16, <1>17,
     <1>18, <1>19, <1>20 DEF Next, LoopStep, Over

-------------------------------------------------------------------------------
(* Initialization *)

\* The library counts a completion only after the initialization.
LEMMA InitCompletionStep ==
    ASSUME ApiTypeOK, InitCompletion, [ApiNext]_apiVars PROVE InitCompletion'
<1>1. CASE UNCHANGED apiVars
  BY <1>1 DEF apiVars, clientVars, InitCompletion
<1>2. ASSUME NEW q \in Proc, ClientStep(q) PROVE InitCompletion'
  BY <1>2 DEF ApiTypeOK, InitCompletion, ClientStep, FreezeSettles, DemosCompleted,
     DemosInitializationCompleted, ReadNewPeriod, Exit, OrphansExit, Die, clientVars
<1>3. CASE SchedulerStep
  BY <1>3 DEF ApiTypeOK, InitCompletion, SchedulerStep, Completed, Switch,
     ChildTerminatedOrphans, HandleEnd, KillAll, clientVars
<1>4. QED
  BY <1>1, <1>2, <1>3 DEF ApiNext

\* Everybody whose initialization is not counted yet is a process.
LEMMA WaitingFacts ==
    /\ Waiting \subseteq HasInit /\ Waiting \subseteq system_process_spawned
    /\ IsFiniteSet(Waiting) /\ IsFiniteSet(HasInit)
    /\ Cardinality(Waiting) \in Nat
    /\ Cardinality(Waiting) =< Cardinality(HasInit)
    /\ Cardinality(HasInit) \in Nat
    /\ Cardinality(Waiting) = 0 => Waiting = {}
<1>1. Waiting \subseteq HasInit /\ Waiting \subseteq system_process_spawned
  BY DEF Waiting
<1>2. IsFiniteSet(HasInit)
  BY ApiAssumption, SchedulerAssumption, FS_Subset
<1>3. IsFiniteSet(Waiting) /\ Cardinality(Waiting) =< Cardinality(HasInit)
  BY <1>1, <1>2, FS_Subset
<1>4. QED
  BY <1>1, <1>2, <1>3, FS_CardinalityType, FS_EmptySet

\* One of those waiting is done.
LEMMA OneWaitsLess ==
    ASSUME NEW p \in Waiting, NEW W, W = Waiting \ {p}
    PROVE  Cardinality(W) = Cardinality(Waiting) - 1 /\ Cardinality(W) \in Nat
<1>1. IsFiniteSet(Waiting) /\ Cardinality(Waiting) \in Nat
  BY WaitingFacts
<1>2. IsFiniteSet(W)
  BY <1>1, FS_Subset
<1>3. Cardinality(W) = Cardinality(Waiting) - 1
  BY <1>1, FS_RemoveElement
<1>4. QED
  BY <1>2, <1>3, FS_CardinalityType

\* What a handler that reports an initialization as finished finds and leaves.
LEMMA OneInitDone ==
    ASSUME IInv, EndReported, InitCompletion, Preparation, Preparing, NEW p \in Proc,
           \/ CompletedInit(p)
           \/ ProcessEnded(p) /\ CountsAsInitialized(p)
    PROVE  /\ Waiting' \subseteq Waiting
           /\ remaining_process_inits' >= Cardinality(Waiting')
           /\ remaining_process_inits' \in Int /\ Cardinality(Waiting') \in Nat
           /\ \A r \in HasInit \cap system_process_spawned' :
                 freezer'[r] = "THAWED" => r \in Waiting'
<1> USE DEF clientVars
<1>0. exit_cb = "init" /\ HasInit # {}
  BY SchedulerAssumption DEF CompletedInit, CountsAsInitialized, IInv, StartOrder, Preparation
<1>1. /\ remaining_process_inits >= Cardinality(Waiting)
      /\ remaining_process_inits' = remaining_process_inits - 1
      /\ remaining_process_inits \in Int
      /\ \A r \in HasInit \cap system_process_spawned : freezer[r] = "THAWED" => r \in Waiting
  <2>1. remaining_process_inits' = remaining_process_inits - 1
    BY <1>0 DEF CompletedInit, ProcessEnded, CountsAsInitialized, OneInitLess
  <2>2. QED
    BY <1>0, <2>1 DEF Preparation, Counted, IInv, TypeOK, LoopTypeOK
<1>2. CASE CompletedInit(p)
  <2>1. completed_w[p] > 0
    BY <1>2 DEF CompletedInit, Completed
  <2>2. p \in HasInit /\ p \notin initialization_pending /\ sysproc[p] = "blocked"
    BY <1>0, <2>1 DEF Preparation, Quiet, InitCompletion
  <2>3. p \in Waiting
    BY <2>1, <2>2 DEF EndReported, Waiting
  <2>4. Waiting' = Waiting \ {p}
    BY <1>2, <2>2 DEF CompletedInit, Completed, Waiting, IInv, TypeOK, ApiTypeOK, endVars
  <2>5. freezer'[p] # "THAWED" /\ \A r \in Proc \ {p} : freezer'[r] = freezer[r]
    BY <1>2 DEF CompletedInit, Completed, SuspendResume, Suspend
  <2>6. system_process_spawned' = system_process_spawned
    BY <1>2 DEF CompletedInit, Completed, endVars
  <2>7. QED
    BY <1>1, <2>3, <2>4, <2>5, <2>6, OneWaitsLess, WaitingFacts, ApiAssumption
<1>3. CASE ProcessEnded(p) /\ CountsAsInitialized(p)
  <2>1. HandleEnd(p, {p}) /\ p \in HasInit
    BY <1>3 DEF ProcessEnded, CountsAsInitialized
  <2>2. sysproc[p] = "gone" /\ p \in system_process_spawned
    BY <2>1 DEF HandleEnd, CgroupEmpty, ChildExitReady, PopulatedReady, EndReported
  <2>3. p \in Waiting
    BY <2>1, <2>2 DEF Preparation, Quiet, Waiting
  <2>4. Waiting' = Waiting \ {p}
    BY <2>1 DEF HandleEnd, Waiting
  <2>5. freezer'[p] # "THAWED" /\ \A r \in Proc \ {p} : freezer'[r] = freezer[r]
    BY <2>1 DEF HandleEnd, SuspendResume, Suspend
  <2>6. system_process_spawned' \subseteq system_process_spawned
    BY <2>1 DEF HandleEnd
  <2>7. QED
    BY <1>1, <2>3, <2>4, <2>5, <2>6, OneWaitsLess, WaitingFacts, ApiAssumption
<1>4. QED
  BY <1>2, <1>3

\* The handlers that run while the processes are being initialized.
LEMMA PreparingSteps ==
    ASSUME IInv, ShutdownReached, BrokenWhenGone, [Next]_vars, Preparing'
    PROVE  /\ Preparing
           /\ \/ /\ UNCHANGED <<apiVars, initVars, completed_cb>>
                 /\ ~Startup
              \/ Startup /\ HasInit # {} /\ exit_cb' = "init"
                         /\ completed_cb' = [q \in Partition |-> "init"]
              \/ \E p \in Proc :
                    \/ CompletedIgnored(p) \/ CompletedInit(p)
                    \/ ChildTerminatedButPopulated(p) \/ ProcessEnded(p) \/ Client(p)
                    \/ \E s \in Slice : CompletedCrash(p, s)
              \/ /\ AllGone
                 /\ UNCHANGED <<apiVars, initVars>>
                 /\ ~Startup
<1>0. /\ started = TRUE \/ started = FALSE
      /\ stopreq' = "no" /\ ~started'
  BY DEF IInv, TypeOK, LoopTypeOK, Preparing
<1>1. ASSUME NEW rest, InitiateShutdown(rest) PROVE FALSE
  BY <1>0, <1>1 DEF InitiateShutdown
<1>2. ASSUME NEW rest, FinishProcessInit(rest) PROVE FALSE
  BY <1>0, <1>1, <1>2 DEF FinishProcessInit
<1>3. /\ UNCHANGED <<started, stopreq>>
      /\ ~Startup \/ (HasInit # {} /\ exit_cb' = "init"
                                   /\ completed_cb' = [q \in Partition |-> "init"])
      /\ ~RunTimer /\ ~Signal
  <2>1. CASE \/ Poll \/ LoopReturns \/ Tick \/ ReceiveSignal \/ ExitCheck \/ WindowTimer
             \/ StartDone \/ EnterNextWindow \/ KillProcesses \/ BreakLoop \/ UNCHANGED vars
    BY <1>1, <1>2, <2>1 DEF Poll, LoopReturns, Tick, ReceiveSignal, ExitCheck, WindowTimer,
       StartDone, EnterNextWindow, KillProcesses, BreakLoop, vars, histVars, RunTimer, Signal,
       Startup
  <2>2. ~RunTimer /\ ~Signal
    BY <1>1 DEF RunTimer, Signal
  <2>3. ~Startup \/ (/\ HasInit # {} /\ exit_cb' = "init" /\ UNCHANGED <<started, stopreq>>
                     /\ completed_cb' = [q \in Partition |-> "init"])
    BY <1>2 DEF Startup, histVars
  <2>4. ASSUME NEW p \in Proc, NEW s \in Slice,
               \/ CompletedIgnored(p) \/ ChildTerminatedButPopulated(p) \/ Client(p)
               \/ CompletedInit(p) \/ ProcessEnded(p)
               \/ CompletedInSlice(p, s) \/ CompletedCrash(p, s)
        PROVE  UNCHANGED <<started, stopreq>>
    BY <1>2, <2>4 DEF CompletedIgnored, ChildTerminatedButPopulated, Client, CompletedInit,
       ProcessEnded, OneInitLess, CompletedInSlice, CompletedCrash, histVars
  <2>5. ASSUME NEW p \in Proc,
               \/ CompletedIgnored(p) \/ ChildTerminatedButPopulated(p) \/ Client(p)
               \/ CompletedInit(p) \/ ProcessEnded(p)
        PROVE  UNCHANGED <<started, stopreq>>
    BY <1>2, <2>5 DEF CompletedIgnored, ChildTerminatedButPopulated, Client, CompletedInit,
       ProcessEnded, OneInitLess, histVars
  <2>6. ASSUME NEW s \in Slice, SliceTimer(s) \/ StartSc(s) \/ StartBe(s) \/ StopSlice(s)
        PROVE  UNCHANGED <<started, stopreq>>
    BY <2>6 DEF SliceTimer, StartSc, StartBe, StopSlice, histVars
  <2>7. QED
    BY <2>1, <2>2, <2>3, <2>4, <2>5, <2>6 DEF Next, LoopStep, Over
<1>4. Preparing
  BY <1>3 DEF Preparing
<1>5. /\ op \notin {"startSc", "startBe"} /\ timer = {} /\ WindowEv \notin pending
      /\ after \notin {"next", "kill"} /\ (op = "stop" => AllGone)
      /\ after # "none" => AllGone
  BY <1>4 DEF Preparing, IInv, StartOrder, ShutdownReached, BrokenWhenGone, TypeOK, LoopTypeOK
<1>6. ASSUME NEW s \in Slice
      PROVE  /\ running_process[s] = NoProc
             /\ ~SliceTimer(s) /\ ~StartSc(s) /\ ~StartBe(s)
             /\ \A p \in Proc : ~CompletedInSlice(p, s)
             /\ StopSlice(s) => AllGone /\ UNCHANGED <<apiVars, initVars>>
  <2>1. running_process[s] = NoProc
    BY <1>5 DEF IInv, BudgetTimer
  <2>2. ~StartSc(s) /\ ~StartBe(s) /\ \A p \in Proc : ~CompletedInSlice(p, s)
    BY <1>5, <2>1 DEF StartSc, StartBe, CompletedInSlice
  <2>3. ~SliceTimer(s)
    BY <1>5 DEF SliceTimer, Dispatch, IInv, Phases
  <2>4. ASSUME StopSlice(s) PROVE AllGone /\ UNCHANGED <<apiVars, initVars>>
    <3>1. op = "stop" /\ UNCHANGED <<freezer, efd_continue, demos_completed>>
      BY <2>1, <2>4 DEF StopSlice
    <3>2. UNCHANGED <<clientVars, completed_w, endVars, initVars>>
      BY <2>4 DEF StopSlice
    <3>3. QED
      BY <1>5, <3>1, <3>2 DEF apiVars
  <2>5. QED
    BY <2>1, <2>2, <2>3, <2>4
<1>7. ~WindowTimer /\ ~StartDone /\ ~EnterNextWindow /\ ~KillProcesses
  BY <1>5 DEF WindowTimer, Dispatch, StartDone, EnterNextWindow, KillProcesses
<1>8. ~Startup =>
        \/ /\ UNCHANGED <<apiVars, initVars, completed_cb>>
           /\ ~Startup
        \/ \E p \in Proc :
                    \/ CompletedIgnored(p) \/ CompletedInit(p)
                    \/ ChildTerminatedButPopulated(p) \/ ProcessEnded(p) \/ Client(p)
                    \/ \E s \in Slice : CompletedCrash(p, s)
        \/ \E s \in Slice : StopSlice(s)
  <2>1. CASE Poll \/ LoopReturns \/ Tick \/ ReceiveSignal \/ ExitCheck \/ BreakLoop \/ UNCHANGED vars
    BY <2>1 DEF Poll, LoopReturns, Tick, ReceiveSignal, ExitCheck, BreakLoop, vars, partVars
  <2>2. QED
    BY <1>3, <1>6, <1>7, <2>1 DEF Next, LoopStep, Over
<1>9. (\E s \in Slice : StopSlice(s)) => AllGone /\ UNCHANGED <<apiVars, initVars>>
  BY <1>6
<1>10. QED
  BY <1>3, <1>4, <1>8, <1>9

\* A handler that leaves the protocol and the callbacks' owner alone.
LEMMA QuietKept ==
    ASSUME Quiet, Counted, BeforeStartup' <=> BeforeStartup,
           UNCHANGED <<apiVars, initVars>>, AllGone \/ completed_cb' = completed_cb
    PROVE  Quiet' /\ Counted'
<1> USE DEF apiVars, clientVars, endVars, initVars
<1>1. Waiting' = Waiting
  BY DEF Waiting
<1>2. Counted'
  BY <1>1 DEF Counted
<1>3. QED
  BY <1>2 DEF Quiet, AllGone

\* A process moves while the processes are being initialized.
LEMMA ClientQuiet ==
    ASSUME IInv, NoEarlyCompletion, InitCompletion, Quiet, Counted, doomed = {},
           NEW q \in Proc, Client(q), BeforeStartup' <=> BeforeStartup
    PROVE  Quiet' /\ Counted'
<1> USE DEF clientVars, endVars
<1>0. /\ UNCHANGED <<exit_cb, remaining_process_inits, completed_cb>>
      /\ system_process_spawned' = system_process_spawned
      /\ ClientStep(q) /\ ApiTypeOK
  BY DEF Client, ClientStep, FreezeSettles, DemosCompleted, DemosInitializationCompleted,
     ReadNewPeriod, Exit, OrphansExit, Die, initVars, partVars, IInv, TypeOK
<1>1. ~ReadNewPeriod(q) /\ ~Die(q)
  BY DEF ReadNewPeriod, Die, Quiet
<1>2. CASE FreezeSettles(q)
  <2>1. Waiting' = Waiting
    BY <1>0, <1>2 DEF FreezeSettles, Waiting
  <2>2. Counted'
    BY <1>0, <1>2, <2>1, ApiAssumption DEF FreezeSettles, Counted, ApiTypeOK
  <2>3. Quiet'
    BY <1>0, <1>2 DEF FreezeSettles, Quiet, AllGone, ApiTypeOK
  <2>4. QED
    BY <2>2, <2>3
<1>3. CASE Exit(q) \/ OrphansExit(q)
  <2>1. /\ UNCHANGED <<freezer, initialization_pending, completed_w, efd_continue>>
        /\ \E x \in {"gone", "orphaned"} : sysproc' = [sysproc EXCEPT ![q] = x]
        /\ sysproc[q] # "blocked"
    BY <1>3 DEF Exit, OrphansExit
  <2>2. Waiting' = Waiting
    BY <1>0, <2>1 DEF Waiting
  <2>3. Counted'
    BY <1>0, <2>1, <2>2 DEF Counted
  <2>4. Quiet'
    BY <1>0, <2>1 DEF Quiet, AllGone, ApiTypeOK
  <2>5. QED
    BY <2>3, <2>4
<1>4. CASE DemosCompleted(q)
  <2>1. q \in Cooperative /\ sysproc[q] = "running" /\ freezer[q] # "FROZEN"
        /\ q \notin initialization_pending
    BY <1>4 DEF DemosCompleted, CanRun
  <2>2. q \notin HasInit
    BY <2>1 DEF Quiet
  <2>3. HasInit = {}
    BY <2>1, <2>2 DEF Quiet, NoEarlyCompletion
  <2>4. Waiting' = {} /\ Waiting = {}
    BY <2>3 DEF Waiting
  <2>5. Counted'
    BY <1>0, <1>4, <2>3, <2>4 DEF DemosCompleted, Counted
  <2>6. Quiet'
    BY <1>0, <1>4, <2>3 DEF DemosCompleted, Quiet, AllGone, ApiTypeOK
  <2>7. QED
    BY <2>5, <2>6
<1>5. CASE DemosInitializationCompleted(q)
  <2>1. q \in HasInit /\ q \in initialization_pending /\ completed_w[q] = 0
    BY <1>5 DEF DemosInitializationCompleted, InitCompletion
  <2>2. completed_w' = [completed_w EXCEPT ![q] = 1]
    BY <1>5, <2>1 DEF DemosInitializationCompleted, ApiTypeOK
  <2>3. Waiting' = Waiting
    BY <1>0, <1>5, <2>1, <2>2, ApiAssumption DEF DemosInitializationCompleted, Waiting, ApiTypeOK
  <2>4. Counted'
    BY <1>0, <1>5, <2>3 DEF DemosInitializationCompleted, Counted
  <2>5. Quiet'
    BY <1>0, <1>5, <2>1, <2>2 DEF DemosInitializationCompleted, Quiet, AllGone, ApiTypeOK
  <2>6. QED
    BY <2>4, <2>5
<1>6. QED
  BY <1>0, <1>1, <1>2, <1>3, <1>4, <1>5 DEF ClientStep

\* startup_fn resumes the processes that have an initialization.
LEMMA StartupQuiet ==
    ASSUME IInv, Handshake, Preparation, Quiet, Startup, exit_cb' = "init",
           completed_cb' = [q \in Partition |-> "init"], ~BeforeStartup'
    PROVE  Quiet' /\ Counted'
<1> USE DEF clientVars, endVars
<1>1. /\ BeforeStartup /\ demos_completed = {} /\ ApiTypeOK
  BY DEF Startup, Dispatch, BeforeStartup, Preparation, IInv, TypeOK
<1>2. /\ freezer' = [p \in Proc |-> IF p \in HasInit THEN "THAWED" ELSE freezer[p]]
      /\ efd_continue' = [p \in Proc |-> efd_continue[p] + 0]
      /\ UNCHANGED <<sysproc, doomed, initialization_pending, completed_w, system_process_spawned>>
  BY <1>1 DEF Startup, Switch, SuspendResume, Tokens
<1>3. Quiet'
  BY <1>1, <1>2, ApiAssumption DEF Quiet, ApiTypeOK
<1>4. \A p \in HasInit : p \in initialization_pending \/ completed_w[p] > 0
  <2> SUFFICES ASSUME NEW p \in HasInit, p \notin initialization_pending
               PROVE  completed_w[p] > 0
    OBVIOUS
  <2>1. p \in Proc /\ sysproc[p] = "blocked" /\ efd_continue[p] = 0
    BY ApiAssumption DEF Quiet
  <2>2. InFlight(p) = 1 /\ Flag(p, demos_completed) = 0 /\ completed_w[p] \in Nat
    BY <1>1, <2>1 DEF Handshake, Flag, ApiTypeOK
  <2>3. QED
    BY <2>1, <2>2 DEF InFlight
<1>5. \A p \in HasInit \cap system_process_spawned' : p \in Waiting'
  BY <1>2, <1>4 DEF Waiting
<1>6. Waiting' \subseteq HasInit
  BY DEF Waiting
<1>7. remaining_process_inits' >= Cardinality(Waiting')
  <2>1. remaining_process_inits' = Cardinality(HasInit)
    BY DEF Startup, InitsStarted
  <2>2. IsFiniteSet(HasInit)
    BY WaitingFacts
  <2>3. Cardinality(Waiting') =< Cardinality(HasInit)
    BY <1>6, <2>2, FS_Subset
  <2>4. IsFiniteSet(Waiting')
    BY <1>6, <2>2, FS_Subset
  <2>5. Cardinality(Waiting') \in Nat /\ Cardinality(HasInit) \in Nat
    BY <2>2, <2>4, FS_CardinalityType
  <2>6. QED
    BY <2>1, <2>3, <2>5
<1>8. QED
  BY <1>3, <1>5, <1>7 DEF Counted

\* What is said of the initialization phase is inductive.
LEMMA PreparationStep ==
    ASSUME NoEarlyCompletion, IInv, Handshake, EndReported, BrokenWhenGone, CallbackSet,
           ShutdownReached, InitCompletion, Preparation, [Next]_vars
    PROVE  Preparation'
<1>1. BeforeStartup' => demos_completed' = {}
  <2>1. ASSUME BeforeStartup PROVE demos_completed' \subseteq demos_completed
    <3>1. \A p \in Proc : ~Dispatch(CompletedEv(p))
      BY <2>1, StartupFirst
    <3>2. ASSUME NEW p \in Proc, \/ CompletedIgnored(p) \/ CompletedInit(p)
                                 \/ \E s \in Slice : CompletedInSlice(p, s) \/ CompletedCrash(p, s)
          PROVE  FALSE
      BY <3>1, <3>2 DEF CompletedIgnored, CompletedInit, CompletedInSlice, CompletedCrash
    <3>3. ASSUME NEW p \in Proc, \/ ChildTerminatedButPopulated(p) \/ ProcessEnded(p) \/ Client(p)
          PROVE  demos_completed' \subseteq demos_completed
      BY <3>3 DEF ChildTerminatedButPopulated, ChildTerminatedOrphans, ProcessEnded, HandleEnd,
         SuspendResume, Client, ClientStep, FreezeSettles, DemosCompleted,
         DemosInitializationCompleted, ReadNewPeriod, Exit, OrphansExit, Die
    <3>4. ASSUME NEW s \in Slice, SliceTimer(s) \/ StartSc(s) \/ StartBe(s)
          PROVE  demos_completed' \subseteq demos_completed
      <4>1. \/ UNCHANGED demos_completed
            \/ \E T, R : SuspendResume(T, R, demos_completed)
        BY <3>4, StartNextSwitches DEF SliceTimer, ScheduleNext, StartSc, StartBe, StartPartition,
           apiVars
      <4>2. QED
        BY <4>1 DEF SuspendResume
    <3>5. ASSUME NEW s \in Slice, StopSlice(s) PROVE demos_completed' \subseteq demos_completed
      BY <3>5 DEF StopSlice, SuspendResume
    <3>6. CASE Startup \/ KillProcesses
      BY <3>6 DEF Startup, Switch, SuspendResume, KillProcesses, KillAll
    <3>7. CASE \/ Poll \/ LoopReturns \/ Tick \/ ReceiveSignal \/ UNCHANGED vars \/ ExitCheck
               \/ WindowTimer \/ RunTimer \/ Signal \/ StartDone \/ EnterNextWindow \/ BreakLoop
      BY <3>7 DEF Poll, LoopReturns, Tick, ReceiveSignal, vars, ExitCheck, WindowTimer, RunTimer,
         Signal, StartDone, EnterNextWindow, BreakLoop, apiVars
    <3>8. QED
      BY <3>2, <3>3, <3>4, <3>5, <3>6, <3>7 DEF Next, LoopStep, Over
  <2>2. QED
    BY <2>1, StartupOnce DEF Preparation
<1>2. exit_cb' = "init" => HasInit # {}
  <2>1. CASE Startup
    BY <2>1 DEF Startup, FinishProcessInit
  <2>2. ASSUME NEW p \in Proc, \/ CompletedInit(p) \/ ProcessEnded(p)
        PROVE  exit_cb' \in {exit_cb, "normal"}
    BY <2>2 DEF CompletedInit, ProcessEnded, OneInitLess, FinishProcessInit, initVars
  <2>3. ASSUME NEW p \in Proc, \/ CompletedIgnored(p) \/ ChildTerminatedButPopulated(p) \/ Client(p)
                               \/ \E s \in Slice : CompletedInSlice(p, s) \/ CompletedCrash(p, s)
        PROVE  exit_cb' = exit_cb
    BY <2>3 DEF CompletedIgnored, ChildTerminatedButPopulated, Client, CompletedInSlice,
       CompletedCrash, initVars
  <2>4. ASSUME NEW s \in Slice, SliceTimer(s) \/ StartSc(s) \/ StartBe(s) \/ StopSlice(s)
        PROVE  exit_cb' = exit_cb
    BY <2>4 DEF SliceTimer, StartSc, StartBe, StopSlice, initVars
  <2>5. CASE \/ Poll \/ LoopReturns \/ Tick \/ ReceiveSignal \/ UNCHANGED vars \/ ExitCheck
             \/ WindowTimer \/ RunTimer \/ Signal \/ StartDone \/ EnterNextWindow \/ BreakLoop
             \/ KillProcesses
    BY <2>5 DEF Poll, LoopReturns, Tick, ReceiveSignal, vars, ExitCheck, WindowTimer, RunTimer,
       Signal, StartDone, EnterNextWindow, BreakLoop, KillProcesses, initVars, Preparation
  <2>6. QED
    BY <2>1, <2>2, <2>3, <2>4, <2>5 DEF Next, LoopStep, Over, Preparation
<1>3. ASSUME Preparing' PROVE Quiet' /\ Counted'
  <2>1. Preparing /\ Quiet /\ Counted
    BY <1>3, PreparingSteps DEF Preparation
  <2>2. ASSUME ~Startup PROVE BeforeStartup' <=> BeforeStartup
    BY <2>2, StartupOnce
  <2>3. CASE UNCHANGED <<apiVars, initVars>> /\ (AllGone \/ completed_cb' = completed_cb) /\ ~Startup
    BY <2>1, <2>2, <2>3, QuietKept
  <2>4. CASE Startup /\ exit_cb' = "init" /\ completed_cb' = [q \in Partition |-> "init"]
    <3>1. ~BeforeStartup'
      BY <2>4 DEF Startup, Dispatch, BeforeStartup, FinishProcessInit, InitiateShutdown, MfStop,
         StartupEv
    <3>2. QED
      BY <2>1, <2>4, <3>1, StartupQuiet
  <2>5. ASSUME NEW p \in Proc, Client(p) PROVE Quiet' /\ Counted'
    <3>1. doomed = {} /\ BeforeStartup' <=> BeforeStartup
      BY <2>1, <2>5 DEF Preparing, ShutdownReached, Client, BeforeStartup, StartupEv
    <3>2. QED
      BY <2>1, <2>5, <3>1, ClientQuiet DEF Preparing, ShutdownReached
  <2>6. ASSUME NEW p \in Proc, ChildTerminatedButPopulated(p) PROVE Quiet' /\ Counted'
    <3>1. /\ UNCHANGED <<sysproc, freezer, doomed, initialization_pending, completed_w, efd_continue,
                         system_process_spawned, exit_cb, remaining_process_inits, completed_cb>>
          /\ BeforeStartup' <=> BeforeStartup
      BY <2>6, SliceEventsDiffer DEF ChildTerminatedButPopulated, ChildTerminatedOrphans,
         clientVars, initVars, partVars, BeforeStartup, StartupEv
    <3>2. Waiting' = Waiting
      BY <3>1 DEF Waiting
    <3>3. QED
      BY <2>1, <3>1, <3>2 DEF Quiet, Counted, AllGone
  <2>7. ASSUME NEW p \in Proc, CompletedIgnored(p) \/ \E s \in Slice : CompletedCrash(p, s)
        PROVE  Quiet' /\ Counted'
    <3>1. /\ Completed(p, {}, {}) /\ Dispatch(CompletedEv(p))
          /\ UNCHANGED <<exit_cb, remaining_process_inits, completed_cb>>
          /\ completed_cb[PartOf[p]] \notin {"null", "init"}
      BY <2>7, SchedulerAssumption DEF CompletedIgnored, CompletedCrash, initVars, partVars
    <3>2. ~BeforeStartup /\ ~BeforeStartup'
      BY <3>1, StartupFirst, StartupOnce
    <3>3. AllGone
      <4>1. PartOf[p] \in Partition
        BY SchedulerAssumption
      <4>2. QED
        BY <2>1, <3>1, <4>1 DEF Quiet
    <3>4. /\ UNCHANGED <<sysproc, doomed, initialization_pending, system_process_spawned>>
          /\ completed_w' = [completed_w EXCEPT ![p] = 0]
          /\ freezer' = [r \in Proc |-> freezer[r]]
          /\ efd_continue' = [r \in Proc |-> efd_continue[r] + 0]
      BY <3>1 DEF Completed, SuspendResume, Tokens, clientVars, endVars
    <3>5. Waiting' = {}
      BY <3>3, <3>4 DEF Waiting, AllGone
    <3>6. Counted'
      <4>1. Waiting = {}
        BY <3>3 DEF Waiting, AllGone
      <4>2. QED
        BY <2>1, <3>1, <3>3, <3>4, <3>5, <4>1 DEF Counted, AllGone
    <3>7. Quiet'
      BY <2>1, <3>1, <3>2, <3>3, <3>4 DEF Quiet, AllGone, IInv, TypeOK, ApiTypeOK
    <3>8. QED
      BY <3>6, <3>7
  <2>8. ASSUME NEW p \in Proc, CompletedInit(p) PROVE Quiet' /\ Counted'
    <3>1. /\ Completed(p, {p}, {}) /\ Dispatch(CompletedEv(p))
          /\ ~FinishProcessInit(pending \ {CompletedEv(p)})
      BY <1>3, <2>8 DEF CompletedInit, FinishProcessInit, InitiateShutdown, Preparing
    <3>2. UNCHANGED <<exit_cb, completed_cb>>
      BY <2>8, <3>1 DEF CompletedInit, OneInitLess
    <3>3. ~BeforeStartup /\ ~BeforeStartup'
      BY <3>1, StartupFirst, StartupOnce
    <3>4. /\ UNCHANGED <<sysproc, doomed, initialization_pending, system_process_spawned>>
          /\ completed_w' = [completed_w EXCEPT ![p] = 0]
          /\ freezer' = [r \in Proc |-> IF r = p THEN Suspend(freezer[r]) ELSE freezer[r]]
          /\ efd_continue' = [r \in Proc |-> efd_continue[r] + 0]
      BY <3>1 DEF Completed, SuspendResume, Tokens, clientVars, endVars
    <3>5. Quiet'
      BY <2>1, <3>2, <3>3, <3>4 DEF Quiet, AllGone, IInv, TypeOK, ApiTypeOK, Suspend
    <3>6. Counted'
      BY <2>1, <2>8, OneInitDone DEF Counted
    <3>7. QED
      BY <3>5, <3>6
  <2>9. ASSUME NEW p \in Proc, ProcessEnded(p) PROVE Quiet' /\ Counted'
    <3>0. ASSUME NEW rest PROVE ~FinishProcessInit(rest)
      BY <1>3 DEF FinishProcessInit, InitiateShutdown, Preparing
    <3>1. PICK S \in SUBSET {p} : HandleEnd(p, S)
      BY <2>9 DEF ProcessEnded
    <3>2. UNCHANGED <<exit_cb, completed_cb>>
      BY <2>9, <3>0 DEF ProcessEnded, OneInitLess, initVars
    <3>3. BeforeStartup' <=> BeforeStartup
      <4>1. ~Startup
        BY <2>9, SliceEventsDiffer DEF ProcessEnded, Startup, HandleEnd, Switch, EndReported, endVars,
           ChildExitReady, PopulatedReady
      <4>2. QED
        BY <2>2, <4>1
    <3>4. /\ UNCHANGED <<sysproc, doomed, initialization_pending, completed_w>>
          /\ system_process_spawned' = system_process_spawned \ {p}
          /\ freezer' = [r \in Proc |-> IF r \in S THEN Suspend(freezer[r]) ELSE freezer[r]]
          /\ efd_continue' = [r \in Proc |-> efd_continue[r] + 0]
      BY <3>1 DEF HandleEnd, SuspendResume, Tokens, clientVars, endVars
    <3>5. Quiet'
      BY <2>1, <3>2, <3>3, <3>4 DEF Quiet, AllGone, IInv, TypeOK, ApiTypeOK, Suspend
    <3>6. CASE CountsAsInitialized(p)
      <4>1. Counted'
        BY <2>1, <2>9, <3>6, OneInitDone DEF Counted
      <4>2. QED
        BY <3>5, <4>1
    <3>7. CASE ~CountsAsInitialized(p)
      <4>1. remaining_process_inits' = remaining_process_inits
        BY <2>9, <3>7 DEF ProcessEnded, initVars
      <4>2. CASE exit_cb = "init"
        <5>1. p \notin HasInit
          BY <3>7, <4>2 DEF CountsAsInitialized
        <5>2. Waiting' = Waiting
          BY <3>4, <5>1 DEF Waiting
        <5>3. freezer' = freezer \/ \A r \in HasInit : freezer'[r] = freezer[r]
          BY <3>4, <5>1, ApiAssumption
        <5>4. QED
          BY <2>1, <3>2, <3>4, <3>5, <4>1, <5>2, <5>3 DEF Counted
      <4>3. CASE exit_cb # "init"
        BY <3>2, <3>5, <4>3 DEF Counted
      <4>4. QED
        BY <4>2, <4>3
    <3>8. QED
      BY <3>6, <3>7
  <2>10. QED
    BY <1>3, <2>3, <2>4, <2>5, <2>6, <2>7, <2>8, <2>9, PreparingSteps
<1>4. QED
  BY <1>1, <1>2, <1>3 DEF Preparation

-------------------------------------------------------------------------------
(* Isolation and the initialization barrier *)

\* The initialization phase ends, and the major frame starts, in startup_fn if
\* there is nothing to initialize, and with the last initialization otherwise.
LEMMA PhaseEnds ==
    ASSUME IInv, [Next]_vars, (~started /\ started') \/ (exit_cb = "init" /\ exit_cb' = "normal")
    PROVE  /\ ~started /\ op = "idle"
           /\ \/ Startup /\ HasInit = {}
              \/ \E p \in Proc : /\ \/ CompletedInit(p)
                                    \/ ProcessEnded(p) /\ CountsAsInitialized(p)
                                 /\ remaining_process_inits' = 0
<1>0. ~started
  BY DEF IInv, StartOrder
<1>1. CASE Startup
  BY <1>0, <1>1 DEF Startup, Dispatch, histVars
<1>2. ASSUME NEW p \in Proc, CompletedInit(p) \/ ProcessEnded(p)
      PROVE  /\ op = "idle"
             /\ CompletedInit(p) \/ (ProcessEnded(p) /\ CountsAsInitialized(p))
             /\ remaining_process_inits' = 0
  <2>1. ASSUME NEW rest, NEW op0, OneInitLess(rest, op0) PROVE remaining_process_inits' = 0
    BY <2>1 DEF OneInitLess, histVars
  <2>2. CASE CompletedInit(p)
    BY <2>1, <2>2 DEF CompletedInit, Dispatch
  <2>3. CASE ProcessEnded(p) /\ CountsAsInitialized(p)
    BY <2>1, <2>3 DEF ProcessEnded, Dispatch
  <2>4. CASE ProcessEnded(p) /\ ~CountsAsInitialized(p)
    BY <2>4 DEF ProcessEnded, initVars, histVars
  <2>5. QED
    BY <1>2, <2>2, <2>3, <2>4
<1>3. ASSUME NEW p \in Proc, \/ CompletedIgnored(p) \/ ChildTerminatedButPopulated(p) \/ Client(p)
                             \/ \E s \in Slice : CompletedInSlice(p, s) \/ CompletedCrash(p, s)
      PROVE  exit_cb' = exit_cb /\ started' = started
  BY <1>3 DEF CompletedIgnored, ChildTerminatedButPopulated, Client, CompletedInSlice,
     CompletedCrash, initVars, histVars
<1>4. ASSUME NEW s \in Slice, SliceTimer(s) \/ StartSc(s) \/ StartBe(s) \/ StopSlice(s)
      PROVE  exit_cb' = exit_cb /\ started' = started
  BY <1>4 DEF SliceTimer, StartSc, StartBe, StopSlice, initVars, histVars
<1>5. ASSUME \/ Poll \/ LoopReturns \/ Tick \/ ReceiveSignal \/ UNCHANGED vars \/ ExitCheck
             \/ WindowTimer \/ RunTimer \/ Signal \/ StartDone \/ EnterNextWindow \/ BreakLoop
             \/ KillProcesses
      PROVE  exit_cb' = exit_cb /\ started' = started
  BY <1>5 DEF Poll, LoopReturns, Tick, ReceiveSignal, vars, ExitCheck, WindowTimer, RunTimer,
     Signal, StartDone, EnterNextWindow, BreakLoop, KillProcesses, initVars, histVars,
     InitiateShutdown
<1>6. ~(exit_cb' = exit_cb /\ started' = started)
  OBVIOUS
<1>7. QED
  BY <1>0, <1>1, <1>2, <1>3, <1>4, <1>5, <1>6 DEF Next, LoopStep, Over

\* When the initialization phase is over, everybody who has one is done: its
\* process is frozen and its initialization completed, or it has ended, or it was
\* killed.
LEMMA PhaseOver ==
    ASSUME IInv, EndReported, ShutdownReached, InitCompletion, Preparation, [Next]_vars,
           (~started /\ started') \/ (exit_cb = "init" /\ exit_cb' = "normal")
    PROVE  \A p \in HasInit : \/ sysproc'[p] = "gone"
                              \/ p \in doomed'
                              \/ p \notin initialization_pending' /\ freezer'[p] # "THAWED"
<1>0. ~started /\ op = "idle"
  BY PhaseEnds
<1>1. CASE ~Preparing
  <2>1. AllDoomed
    BY <1>0, <1>1 DEF Preparing, ShutdownReached
  <2>2. QED
    BY <2>1, StepRefines, NobodyReturns, ApiAssumption DEF AllDoomed, IInv, TypeOK
<1>2. ASSUME Preparing, NEW p \in Proc, remaining_process_inits' = 0,
             CompletedInit(p) \/ (ProcessEnded(p) /\ CountsAsInitialized(p))
      PROVE  \A r \in HasInit : \/ sysproc'[r] = "gone"
                                \/ r \notin initialization_pending' /\ freezer'[r] # "THAWED"
  <2>1. /\ remaining_process_inits' >= Cardinality(Waiting') /\ Cardinality(Waiting') \in Nat
        /\ Waiting' \subseteq Waiting
        /\ \A r \in HasInit \cap system_process_spawned' :
               freezer'[r] = "THAWED" => r \in Waiting'
    BY <1>2, OneInitDone
  <2>2. Waiting' = {}
    <3>1. Cardinality(Waiting') = 0
      BY <1>2, <2>1
    <3>2. IsFiniteSet(Waiting')
      BY <2>1, WaitingFacts, FS_Subset
    <3>3. QED
      BY <3>1, <3>2, FS_EmptySet
  <2>3. EndReported'
    BY StepRefines, EndStep DEF IInv, TypeOK
  <2>4. \A r \in HasInit \cap system_process_spawned' : r \notin initialization_pending'
    BY <2>2 DEF Waiting
  <2>5. \A r \in HasInit \ system_process_spawned' : sysproc'[r] = "gone"
    BY <2>3, ApiAssumption DEF EndReported
  <2>6. QED
    BY <2>1, <2>2, <2>4, <2>5
<1>3. CASE HasInit = {}
  BY <1>3
<1>4. CASE HasInit # {} /\ Preparing
  <2>1. PICK p \in Proc : /\ CompletedInit(p) \/ (ProcessEnded(p) /\ CountsAsInitialized(p))
                          /\ remaining_process_inits' = 0
    BY <1>4, PhaseEnds
  <2>2. QED
    BY <1>2, <1>4, <2>1
<1>5. QED
  BY <1>1, <1>3, <1>4

\* Every step preserves the isolation.
LEMMA IsolationStep ==
    ASSUME IInv, EndReported, ShutdownReached, InitCompletion, Preparation, Isolation, [Next]_vars
    PROVE  Isolation'
<1>0. /\ doomed \subseteq doomed'
      /\ \A p \in Proc : sysproc[p] = "gone" => sysproc'[p] = "gone"
      /\ exit_cb \in {"init", "normal"} /\ exit_cb' \in {"init", "normal"}
      /\ NoProc \notin Proc
      /\ freezer \in [Proc -> {"THAWED", "FREEZING", "FROZEN"}]
      /\ running_process \in [Slice -> Proc \cup {NoProc}]
      /\ Windows[current_win] \subseteq Slice
  BY StepRefines, NobodyReturns, NextIInv, SchedulerAssumption, WindowFacts
     DEF IInv, TypeOK, LoopTypeOK, ApiTypeOK, SliceTypeOK, WindowTypeOK
<1>1. ASSUME \A p \in Proc : freezer'[p] = "THAWED" => freezer[p] = "THAWED",
             UNCHANGED <<running_process, current_win>>
      PROVE  Isolation'
  <2>1. CASE exit_cb = "init" /\ exit_cb' = "normal"
    BY <1>0, <1>1, <2>1, PhaseOver DEF Isolation
  <2>2. CASE ~(exit_cb = "init" /\ exit_cb' = "normal")
    BY <1>0, <1>1, <2>2 DEF Isolation
  <2>3. QED
    BY <2>1, <2>2
<1>2. ASSUME NEW s \in Windows[current_win], NEW r \in Proc \cup {NoProc}, NEW S, NEW dc,
             running_process' = [running_process EXCEPT ![s] = r],
             SuspendResume(S, {r} \cap Proc, dc), running_process[s] \in S \cup {NoProc},
             UNCHANGED <<current_win, exit_cb>>
      PROVE  Isolation'
  <2>1. ASSUME NEW p \in Proc, p # r, freezer'[p] = "THAWED"
        PROVE  freezer[p] = "THAWED" /\ p \notin S
    BY <1>2, <2>1 DEF SuspendResume, Suspend
  <2>2. r \in Proc => running_process'[s] = r
    BY <1>0, <1>2
  <2>3. ASSUME NEW p \in Proc, p # r, freezer'[p] = "THAWED",
               NEW t \in Windows[current_win], running_process[t] = p
        PROVE  running_process'[t] = p
    BY <1>0, <1>2, <2>1, <2>3
  <2>4. QED
    BY <1>0, <1>2, <2>1, <2>2, <2>3 DEF Isolation
<1>3. ASSUME NEW s \in Slice, SliceTimer(s) \/ \E p \in Proc : CompletedInSlice(p, s)
      PROVE  Isolation'
  <2>1. UNCHANGED <<current_win, exit_cb>> /\ s \in timer
    BY <1>3 DEF SliceTimer, CompletedInSlice, Dispatch, initVars, IInv, Phases, BudgetTimer
  <2>2. s \in Windows[current_win]
    BY <2>1 DEF IInv, BudgetTimer
  <2>3. PICK ct, dc : ScheduleNext(s, ct, dc)
    BY <1>3 DEF SliceTimer, CompletedInSlice
  <2>4. PICK r \in Proc \cup {NoProc} :
           /\ running_process' = [running_process EXCEPT ![s] = r]
           /\ SuspendResume({running_process[s]}, {r} \cap Proc, dc)
    BY <2>3, StartNextResumes DEF ScheduleNext
  <2>5. QED
    BY <1>2, <2>1, <2>2, <2>4
<1>4. ASSUME NEW s \in Slice, StartSc(s) \/ StartBe(s) PROVE Isolation'
  <2>1. /\ UNCHANGED <<current_win, exit_cb>> /\ s \in Windows[current_win]
        /\ running_process[s] = NoProc
    BY <1>4 DEF StartSc, StartBe, initVars, IInv, Phases, BudgetTimer, TypeOK, WindowTypeOK
  <2>2. CASE UNCHANGED <<apiVars, sliceVars>>
    BY <1>1, <2>1, <2>2 DEF apiVars, sliceVars
  <2>3. ASSUME NEW q, NEW b, NEW op0, NEW todo0, StartPartition(s, q, b, op0, todo0)
        PROVE  Isolation'
    <3>1. PICK r \in Proc \cup {NoProc} :
             /\ running_process' = [running_process EXCEPT ![s] = r]
             /\ SuspendResume({}, {r} \cap Proc, demos_completed)
      BY <2>3, StartNextResumes DEF StartPartition
    <3>2. QED
      BY <1>2, <2>1, <3>1
  <2>4. QED
    BY <1>4, <2>2, <2>3 DEF StartSc, StartBe
<1>5. ASSUME NEW s \in Slice, StopSlice(s) PROVE Isolation'
  <2>1. /\ UNCHANGED <<current_win, exit_cb>> /\ s \in Windows[current_win]
        /\ running_process' = [running_process EXCEPT ![s] = NoProc]
    BY <1>5 DEF StopSlice, initVars, IInv, TypeOK, WindowTypeOK
  <2>2. CASE running_process[s] = NoProc
    <3>1. freezer' = freezer
      BY <1>5, <2>2 DEF StopSlice
    <3>2. running_process' = running_process
      BY <1>0, <2>1, <2>2
    <3>3. QED
      BY <1>1, <2>1, <3>1, <3>2
  <2>3. CASE running_process[s] # NoProc
    <3>1. SuspendResume({running_process[s]}, {}, demos_completed)
      BY <1>5, <2>3 DEF StopSlice
    <3>2. {NoProc} \cap Proc = {}
      BY <1>0
    <3>3. SuspendResume({running_process[s]}, {NoProc} \cap Proc, demos_completed)
      BY <3>1, <3>2
    <3>4. running_process[s] \in {running_process[s]} \cup {NoProc} /\ NoProc \in Proc \cup {NoProc}
      OBVIOUS
    <3>5. QED
      BY <1>2, <2>1, <3>3, <3>4
  <2>4. QED
    BY <2>2, <2>3
<1>6. CASE EnterNextWindow
  <2>1. /\ UNCHANGED <<apiVars, sliceVars, initVars>> /\ timer = {}
    BY <1>6 DEF EnterNextWindow, IInv, Phases
  <2>2. \A s \in Windows[current_win] : running_process[s] = NoProc
    BY <1>0, <2>1 DEF IInv, BudgetTimer
  <2>3. QED
    BY <1>0, <2>1, <2>2 DEF Isolation, apiVars, clientVars, initVars
<1>7. CASE KillProcesses
  BY <1>0, <1>7 DEF KillProcesses, KillAll, Isolation, sliceVars, winVars, initVars
<1>8. CASE Startup
  <2>1. Switch({}, HasInit) /\ UNCHANGED <<running_process, current_win>>
    BY <1>8 DEF Startup, FinishProcessInit, InitiateShutdown, MfStop, MfStart, winVars, sliceVars
  <2>2. CASE HasInit = {}
    BY <1>1, <2>1, <2>2 DEF Switch, SuspendResume
  <2>3. CASE HasInit # {}
    <3>1. exit_cb' = "init"
      BY <1>8, <2>3 DEF Startup
    <3>2. \A p \in Proc \ HasInit : freezer'[p] = freezer[p]
      BY <2>1 DEF Switch, SuspendResume
    <3>3. QED
      BY <1>0, <2>1, <3>1, <3>2 DEF Isolation
  <2>4. QED
    BY <2>2, <2>3
<1>9. ASSUME NEW p \in Proc, CompletedInit(p) \/ ProcessEnded(p) PROVE Isolation'
  <2>1. UNCHANGED <<running_process, current_win>>
    BY <1>9 DEF CompletedInit, ProcessEnded, OneInitLess, FinishProcessInit, InitiateShutdown,
       MfStop, MfStart, winVars, sliceVars
  <2>2. \A r \in Proc : freezer'[r] = "THAWED" => freezer[r] = "THAWED"
    BY <1>9 DEF CompletedInit, ProcessEnded, Completed, HandleEnd, SuspendResume, Suspend
  <2>3. QED
    BY <1>1, <2>1, <2>2
<1>10. ASSUME NEW p \in Proc, \/ CompletedIgnored(p) \/ ChildTerminatedButPopulated(p) \/ Client(p)
                              \/ \E s \in Slice : CompletedCrash(p, s)
       PROVE  Isolation'
  <2>1. UNCHANGED <<running_process, current_win>>
    BY <1>10 DEF CompletedIgnored, ChildTerminatedButPopulated, Client, CompletedCrash, winVars,
       sliceVars
  <2>2. \A r \in Proc : freezer'[r] = "THAWED" => freezer[r] = "THAWED"
    BY <1>0, <1>10 DEF CompletedIgnored, ChildTerminatedButPopulated, ChildTerminatedOrphans,
       CompletedCrash, Completed, SuspendResume, Client, ClientStep, FreezeSettles, DemosCompleted,
       DemosInitializationCompleted, ReadNewPeriod, Exit, OrphansExit, Die
  <2>3. QED
    BY <1>1, <2>1, <2>2
<1>11. ASSUME \/ Poll \/ LoopReturns \/ Tick \/ ReceiveSignal \/ UNCHANGED vars \/ ExitCheck
              \/ WindowTimer \/ RunTimer \/ Signal \/ StartDone \/ BreakLoop
       PROVE  Isolation'
  <2>1. UNCHANGED <<running_process, current_win, freezer>>
    BY <1>11 DEF Poll, LoopReturns, Tick, ReceiveSignal, vars, ExitCheck, WindowTimer, RunTimer,
       Signal, StartDone, BreakLoop, InitiateShutdown, MfStop, apiVars, winVars, sliceVars
  <2>2. QED
    BY <1>1, <2>1
<1>12. QED
  BY <1>3, <1>4, <1>5, <1>6, <1>7, <1>8, <1>9, <1>10, <1>11 DEF Next, LoopStep, Over

\* Every step preserves the initialization barrier.
LEMMA InitBarrierStep ==
    ASSUME IInv, EndReported, ShutdownReached, InitCompletion, Preparation, InitBarrier, [Next]_vars
    PROVE  InitBarrier'
<1>1. CASE ~started /\ started'
  BY <1>1, PhaseOver DEF InitBarrier
<1>2. CASE started
  BY <1>2, StepRefines, NobodyReturns, ApiAssumption DEF InitBarrier, IInv, TypeOK
<1>3. QED
  BY <1>1, <1>2 DEF InitBarrier

\* A shutdown is requested once, by a handler that stops the window first.
LEMMA ShutdownRequested ==
    ASSUME IInv, ShutdownReached, [Next]_vars, stopreq' # stopreq
    PROVE  stopreq = "no" /\ doomed' = doomed /\ op' = "stop" /\ after' = "kill"
<1>1. ASSUME NEW rest, InitiateShutdown(rest)
      PROVE  stopreq = "no" /\ op' = "stop" /\ after' = "kill"
  BY <1>1 DEF InitiateShutdown, MfStop
<1>2. ASSUME NEW rest, FinishProcessInit(rest)
      PROVE  stopreq = "no" /\ op' = "stop" /\ after' = "kill"
  BY <1>1, <1>2 DEF FinishProcessInit
<1>3. ASSUME NEW rest, NEW op0, OneInitLess(rest, op0)
      PROVE  stopreq = "no" /\ op' = "stop" /\ after' = "kill"
  BY <1>2, <1>3 DEF OneInitLess, histVars
<1>4. CASE Startup
  BY <1>2, <1>4 DEF Startup, Switch, clientVars, histVars
<1>5. CASE \E p \in Proc : CompletedInit(p)
  BY <1>3, <1>5 DEF CompletedInit, Completed, clientVars
<1>6. CASE \E p \in Proc : ProcessEnded(p)
  BY <1>3, <1>6 DEF ProcessEnded, HandleEnd, clientVars, histVars
<1>7. CASE RunTimer \/ Signal
  BY <1>1, <1>7 DEF RunTimer, Signal, apiVars, clientVars
<1>8. QED
  BY <1>4, <1>5, <1>6, <1>7 DEF Next, LoopStep, Over, vars, Poll, LoopReturns, Tick, ReceiveSignal,
     Client, CompletedIgnored, CompletedInSlice, CompletedCrash, ChildTerminatedButPopulated,
     SliceTimer, StartSc, StartBe, StopSlice, ExitCheck, WindowTimer, StartDone, EnterNextWindow,
     KillProcesses, BreakLoop, histVars

\* Without a window no budget timer is started.
LEMMA NoTimerStarted ==
    ASSUME IInv, ~mf_timer, timer = {}, [Next]_vars PROVE timer' = {}
<1>1. ASSUME NEW s \in Slice PROVE ~SliceTimer(s) /\ ~StartSc(s) /\ ~StartBe(s)
  BY DEF SliceTimer, Dispatch, StartSc, StartBe, IInv, Phases
<1>2. ASSUME NEW p \in Proc, NEW s \in Slice PROVE ~CompletedInSlice(p, s)
  BY DEF CompletedInSlice, IInv, BudgetTimer
<1>3. QED
  BY <1>1, <1>2 DEF Next, LoopStep, Over, vars, Poll, LoopReturns, Startup, Tick, ReceiveSignal,
     Client, CompletedIgnored, CompletedInit, CompletedCrash, ChildTerminatedButPopulated,
     ProcessEnded, StopSlice, ExitCheck, WindowTimer, RunTimer, Signal, StartDone,
     EnterNextWindow, KillProcesses, BreakLoop, sliceVars

\* Every step preserves Stopping.
LEMMA StoppingStep ==
    ASSUME IInv, ShutdownReached, Stopping, [Next]_vars PROVE Stopping'
<1>1. CASE stopreq # "late" /\ stopreq' = "late"
  BY <1>1, ShutdownRequested DEF ShutdownReached, Stopping
<1>2. CASE stopreq' # "late"
  BY <1>2 DEF Stopping
<1>3. CASE stopreq = "late" /\ timer = {}
  BY <1>3, NoTimerStarted DEF ShutdownReached, Stopping
<1>4. CASE stopreq = "late" /\ timer # {}
  <2>1. doomed = {} /\ op = "stop" /\ after = "kill" /\ todo # {}
    BY <1>4 DEF Stopping, IInv, Phases
  <2>2. (\E s \in Slice : StopSlice(s)) \/ UNCHANGED vars
    BY <2>1 DEF Next, LoopStep, Over, Poll, LoopReturns, Startup, Tick,
       ReceiveSignal, Client, CompletedIgnored, CompletedInit, CompletedInSlice, CompletedCrash,
       ChildTerminatedButPopulated, ProcessEnded, SliceTimer, StartSc, StartBe, ExitCheck,
       WindowTimer, RunTimer, Signal, StartDone, EnterNextWindow, KillProcesses, BreakLoop, Dispatch
  <2>3. UNCHANGED <<doomed, op, after>>
    BY <2>2 DEF StopSlice, vars, apiVars, clientVars, ctlVars
  <2>4. QED
    BY <2>1, <2>3 DEF Stopping
<1>5. QED
  BY <1>1, <1>2, <1>3, <1>4

-------------------------------------------------------------------------------
(* The theorems *)

\* What holds of every configuration.
BaseInv ==
    /\ IInv
    /\ Handshake
    /\ EndReported
    /\ BrokenWhenGone
    /\ CallbackSet
    /\ ShutdownReached
    /\ Stopping
    /\ InitCompletion

\* The invariants that need no hypothesis on the configuration.
LEMMA BaseInvariance == Spec => []BaseInv
<1>1. Init => BaseInv
  <2> SUFFICES ASSUME Init PROVE BaseInv
    OBVIOUS
  <2>1. IInv /\ Handshake
    BY InitIInv, HandshakeInit DEF Init
  <2>2. EndReported
    BY DEF Init, ApiInit, EndReported
  <2>3. BrokenWhenGone /\ CallbackSet
    BY DEF Init, BrokenWhenGone, CallbackSet, BeforeStartup
  <2>4. ShutdownReached /\ Stopping
    BY DEF Init, ApiInit, ShutdownReached, Stopping
  <2>5. InitCompletion
    BY DEF Init, ApiInit, InitCompletion
  <2>6. QED
    BY <2>1, <2>2, <2>3, <2>4, <2>5 DEF BaseInv
<1>2. BaseInv /\ [Next]_vars => BaseInv'
  <2> SUFFICES ASSUME BaseInv, [Next]_vars PROVE BaseInv'
    OBVIOUS
  <2>1. ApiTypeOK /\ [ApiNext]_apiVars
    BY StepRefines DEF BaseInv, IInv, TypeOK
  <2>2. IInv'
    BY NextIInv DEF BaseInv
  <2>3. Handshake' /\ EndReported' /\ InitCompletion'
    BY <2>1, HandshakeStep, EndStep, InitCompletionStep DEF BaseInv
  <2>4. BrokenWhenGone' /\ CallbackSet' /\ ShutdownReached' /\ Stopping'
    BY BrokenWhenGoneStep, CallbackSetStep, ShutdownReachedStep, StoppingStep DEF BaseInv
  <2>5. QED
    BY <2>2, <2>3, <2>4 DEF BaseInv
<1>3. QED
  BY <1>1, <1>2, PTL DEF Spec

\* run() returns only after all processes and their children have ended.
THEOREM ReturnsAfterEndHolds == Spec => []ReturnsAfterEnd
<1>1. BaseInv => ReturnsAfterEnd
  BY DEF BaseInv, BrokenWhenGone, AllGone, EndReported, ReturnsAfterEnd
<1>2. QED
  BY <1>1, BaseInvariance, PTL

\* No completion is handled while a partition has no completion callback: the
\* startup timer of the first batch is handled before the polled descriptors.
THEOREM NoNullCallbackHolds == Spec => []NoNullCallback
<1>1. BaseInv => NoNullCallback
  <2> SUFFICES ASSUME BaseInv, NEW p \in Proc, Dispatch(CompletedEv(p))
               PROVE  completed_cb[PartOf[p]] # "null"
    BY DEF NoNullCallback
  <2>1. ~BeforeStartup /\ PartOf[p] \in Partition
    BY StartupFirst, SchedulerAssumption
  <2>2. QED
    BY <2>1 DEF BaseInv, CallbackSet
<1>2. QED
  BY <1>1, BaseInvariance, PTL

\* Once a shutdown was requested of a running scheduler, the only process that a
\* step freezes is one that mf.stop() suspends before kill_all() has sent its
\* SIGKILL: the windows are stopped, no slice is switched any more, and the
\* completions and exits that are still handled suspend nobody.
THEOREM NoFreezeAfterShutdownHolds == Spec => NoFreezeAfterShutdown
<1> DEFINE Thawed(p) == freezer[p] = "THAWED" => freezer'[p] = "THAWED"
<1>1. ASSUME BaseInv, [Next]_vars, stopreq = "late", op = "idle"
      PROVE  \A p \in Proc : Thawed(p)
  <2>0. /\ started /\ timer = {} /\ exit_cb # "init"
        /\ freezer \in [Proc -> {"THAWED", "FREEZING", "FROZEN"}]
        /\ \A q \in Partition : completed_cb[q] # "init"
        /\ \A s \in Slice : running_process[s] = NoProc /\ SliceEv(s) \notin pending
        /\ StartupEv \notin pending
    BY <1>1 DEF BaseInv, ShutdownReached, IInv, StartOrder, Phases, Between, TypeOK, ApiTypeOK,
       BudgetTimer
  <2>1. ASSUME NEW p \in Proc, NEW dc, SuspendResume({}, {}, dc) PROVE Thawed(p)
    BY <2>1 DEF SuspendResume
  <2>2. ASSUME NEW q \in Proc, CompletedIgnored(q) \/ \E s \in Slice : CompletedCrash(q, s)
        PROVE  \A p \in Proc : Thawed(p)
    BY <2>1, <2>2 DEF CompletedIgnored, CompletedCrash, Completed
  <2>3. ASSUME NEW q \in Proc, CompletedInit(q) \/ \E s \in Slice : CompletedInSlice(q, s) PROVE FALSE
    BY <2>0, <2>3, SchedulerAssumption DEF CompletedInit, CompletedInSlice
  <2>4. ASSUME NEW q \in Proc, ProcessEnded(q) PROVE \A p \in Proc : Thawed(p)
    BY <2>0, <2>1, <2>4 DEF ProcessEnded, CountsAsInitialized, HandleEnd
  <2>5. ASSUME NEW q \in Proc, ChildTerminatedButPopulated(q) \/ Client(q)
        PROVE  \A p \in Proc : Thawed(p)
    BY <2>0, <2>5 DEF ChildTerminatedButPopulated, ChildTerminatedOrphans, Client, ClientStep,
       FreezeSettles, DemosCompleted, DemosInitializationCompleted, ReadNewPeriod, Exit,
       OrphansExit, Die
  <2>6. ASSUME NEW s \in Slice, SliceTimer(s) \/ StartSc(s) \/ StartBe(s) \/ StopSlice(s) PROVE FALSE
    BY <1>1, <2>0, <2>6 DEF SliceTimer, Dispatch, StartSc, StartBe, StopSlice
  <2>7. ~Startup
    BY <2>0 DEF Startup, Dispatch
  <2>8. ASSUME \/ Poll \/ LoopReturns \/ Tick \/ ReceiveSignal \/ UNCHANGED vars \/ ExitCheck
               \/ WindowTimer \/ RunTimer \/ Signal \/ StartDone \/ EnterNextWindow \/ BreakLoop
               \/ KillProcesses
        PROVE  \A p \in Proc : Thawed(p)
    BY <1>1, <2>8 DEF Poll, LoopReturns, Tick, ReceiveSignal, vars, ExitCheck, WindowTimer, RunTimer,
       Signal, StartDone, EnterNextWindow, BreakLoop, KillProcesses, apiVars
  <2>9. QED
    BY <1>1, <2>2, <2>3, <2>4, <2>5, <2>6, <2>7, <2>8 DEF Next, LoopStep, Over
<1>2. ASSUME BaseInv, [Next]_vars, stopreq = "late", op # "idle", NEW p \in Proc,
             freezer[p] = "THAWED", freezer'[p] # "THAWED"
      PROVE  op = "stop" /\ after = "kill" /\ p \notin doomed
  <2>1. /\ ~mf_timer /\ op \in {"stop", "exit"}
        /\ freezer \in [Proc -> {"THAWED", "FREEZING", "FROZEN"}]
    BY <1>2 DEF BaseInv, ShutdownReached, IInv, Phases, TypeOK, ApiTypeOK, WindowTypeOK
  <2>2. \E s \in Slice : StopSlice(s)
    BY <1>2, <2>1 DEF Next, LoopStep, Over, vars, apiVars, Poll, LoopReturns, Startup, Tick,
       ReceiveSignal, Client, CompletedIgnored, CompletedInit, CompletedInSlice, CompletedCrash,
       ChildTerminatedButPopulated, ProcessEnded, SliceTimer, StartSc, StartBe, ExitCheck,
       WindowTimer, RunTimer, Signal, StartDone, EnterNextWindow, KillProcesses, KillAll, BreakLoop,
       Dispatch
  <2>3. timer # {}
    BY <1>2, <2>1, <2>2 DEF StopSlice, BaseInv, IInv, BudgetTimer
  <2>4. QED
    BY <1>2, <2>3 DEF BaseInv, Stopping
<1>3. BaseInv /\ [Next]_vars =>
          [stopreq = "late" =>
              \A p \in Proc : freezer[p] = "THAWED" /\ freezer'[p] # "THAWED" =>
                  op = "stop" /\ after = "kill" /\ p \notin doomed]_vars
  BY <1>1, <1>2
<1>4. QED
  BY <1>3, BaseInvariance, PTL DEF Spec, NoFreezeAfterShutdown

\* The invariants of the initialization phase.
LEMMA LifeInvariance ==
    ASSUME NoEarlyCompletion PROVE Spec => [](Preparation /\ Isolation /\ InitBarrier)
<1> DEFINE Inv == Preparation /\ Isolation /\ InitBarrier
<1>1. Init => Inv
  <2> SUFFICES ASSUME Init PROVE Inv
    OBVIOUS
  <2>1. /\ BeforeStartup /\ exit_cb = "normal" /\ demos_completed = {} /\ ~started
        /\ \A p \in Proc : /\ freezer[p] # "THAWED" /\ completed_w[p] = 0 /\ efd_continue[p] = 0
                           /\ p \in FastStart \/ freezer[p] = "FROZEN"
        /\ initialization_pending = HasInit
        /\ \A q \in Partition : completed_cb[q] = "null"
    BY DEF Init, ApiInit, BeforeStartup
  <2>2. Quiet /\ Counted
    BY <2>1 DEF Quiet, Counted
  <2>3. QED
    BY <2>1, <2>2 DEF Preparation, Isolation, InitBarrier
<1>2. BaseInv /\ Inv /\ [Next]_vars => Inv'
  BY PreparationStep, IsolationStep, InitBarrierStep DEF BaseInv
<1>3. QED
  BY <1>1, <1>2, BaseInvariance, PTL DEF Spec

\* A process is thawed only while a slice of the current window runs it, while it
\* is being initialized, or once it is being killed or has ended.
THEOREM IsolationHolds == ASSUME NoEarlyCompletion PROVE Spec => []Isolation
BY LifeInvariance, PTL

\* The major frame starts only when every process that has an initialization has
\* completed it, has ended or was killed: remaining_process_inits is never too low.
THEOREM InitBarrierHolds == ASSUME NoEarlyCompletion PROVE Spec => []InitBarrier
BY LifeInvariance, PTL


-------------------------------------------------------------------------------
(* The scheduler implements TimePartitioning *)

\* The processes of a partition.
Of(q) == {p \in Proc : PartOf[p] = q}

\* The slices that have not begun to serve, as the refinement mapping has them.
Unserved == IF op \in {"startSc", "startBe"} THEN todo ELSE {}

-------------------------------------------------------------------------------
(* Serving a partition *)

\* A process is one entry of the process list of its partition.
LEMMA ListFacts ==
    ASSUME NEW q \in Partition
    PROVE  LET ps == Processes[q]
           IN  /\ ps \in Seq(Proc) /\ Len(ps) > 0
               /\ \A i, j \in 1 .. Len(ps) : ps[i] = ps[j] => i = j
               /\ \A p \in Of(q) : \E i \in 1 .. Len(ps) : ps[i] = p
               /\ \A i \in 1 .. Len(ps) : ps[i] \in Of(q)
<1> DEFINE ps == Processes[q]
<1>1. /\ ps \in Seq(Proc) /\ Len(ps) > 0
      /\ \A i \in 1 .. Len(ps) : PartOf[ps[i]] = q
  BY SchedulerAssumption
<1>2. \A p \in Proc : \E i \in 1 .. Len(Processes[PartOf[p]]) :
         \A j \in 1 .. Len(Processes[PartOf[p]]) : Processes[PartOf[p]][j] = p <=> j = i
  BY SchedulerAssumption
<1>3. \A i \in 1 .. Len(ps) : ps[i] \in Proc /\ ps[i] \in Of(q)
  BY <1>1 DEF Of
<1>4. \A p \in Of(q) : \E i \in 1 .. Len(ps) : \A j \in 1 .. Len(ps) : ps[j] = p <=> j = i
  <2> SUFFICES ASSUME NEW p \in Proc, PartOf[p] = q
               PROVE  \E i \in 1 .. Len(ps) : \A j \in 1 .. Len(ps) : ps[j] = p <=> j = i
    BY DEF Of
  <2> QED
    BY <1>2
<1>5. ASSUME NEW i \in 1 .. Len(ps), NEW j \in 1 .. Len(ps), ps[i] = ps[j] PROVE i = j
  BY <1>3, <1>4, <1>5
<1>6. QED
  BY <1>1, <1>3, <1>4, <1>5

\* Slice::start_next_process gives a turn to a live process of the partition
\* that had none, or leaves the slice idle when there is none.
LEMMA Serves ==
    ASSUME IInv, NEW s \in Slice, NEW q \in Partition, NEW cur \in 1 .. Len(Processes[q]),
           NEW comp, NEW ct, NEW S, NEW dc, NEW op0, NEW todo0,
           StartNextProcess(s, q, cur, comp, ct, S, dc, op0, todo0)
    PROVE  \E skipped \in SUBSET (Of(q) \cap system_process_spawned) :
              /\ completed' = comp \cup skipped
              /\ \/ /\ \E p \in (Of(q) \cap system_process_spawned) \ completed' :
                          running_process' = [running_process EXCEPT ![s] = p]
                    /\ ContinueWith(op0, todo0, ct)
                 \/ /\ Of(q) \cap system_process_spawned \subseteq completed'
                    /\ running_process' = [running_process EXCEPT ![s] = NoProc]
                    /\ IF q = Sc[s] THEN SliceScEnd(op0, todo0, ct)
                                    ELSE ContinueWith(op0, todo0, ct)
<1> DEFINE ps == Processes[q]
           pend == PendingProcs(comp)
           draw == [p \in Proc |-> Draw(p)]
<1>1. PICK o \in StartNext(ps, cur, pend, draw, NoProc) :
        /\ completed' = comp \cup o.skipped
        /\ running_process' = [running_process EXCEPT ![s] = o.proc]
        /\ \/ o.proc \in Proc /\ ContinueWith(op0, todo0, ct)
           \/ /\ o.proc = NoProc
              /\ IF q = Sc[s] THEN SliceScEnd(op0, todo0, ct)
                              ELSE ContinueWith(op0, todo0, ct)
  BY DEF StartNextProcess
<1>2. /\ ps \in Seq(Proc) /\ Len(ps) > 0 /\ NoProc \notin Proc
      /\ \A i, j \in 1 .. Len(ps) : ps[i] = ps[j] => i = j
      /\ \A p \in Of(q) : \E i \in 1 .. Len(ps) : ps[i] = p
      /\ \A i \in 1 .. Len(ps) : ps[i] \in Of(q)
  BY ListFacts, SchedulerAssumption
<1>3. /\ \A p \in o.skipped : p \in pend /\ \E i \in 1 .. Len(ps) : p = ps[i]
      /\ \/ /\ o.proc \in pend \ o.skipped
            /\ o.proc \in Proc
            /\ \E i \in 1 .. Len(ps) : o.proc = ps[i]
         \/ /\ o.proc = NoProc
            /\ \A i \in 1 .. Len(ps) : ps[i] \in pend => ps[i] \in o.skipped
  <2>1. o \in StartNext(ps, cur, pend, draw, NoProc) /\ cur \in 1 .. Len(ps)
    BY <1>1
  <2> HIDE DEF ps, pend, draw
  <2> QED BY <1>2, <2>1, OutcomeServes
<1>4. pend = system_process_spawned \ comp
  BY DEF PendingProcs
<1> HIDE DEF pend, ps, draw
<1>5. o.skipped \in SUBSET (Of(q) \cap system_process_spawned)
  BY <1>2, <1>3, <1>4
<1>6. CASE o.proc \in Proc
  <2>1. o.proc \in (Of(q) \cap system_process_spawned) \ completed'
    BY <1>1, <1>2, <1>3, <1>4, <1>6
  <2>2. ContinueWith(op0, todo0, ct)
    BY <1>1, <1>2, <1>6
  <2>3. QED
    BY <1>1, <1>5, <2>1, <2>2
<1>7. CASE o.proc = NoProc
  <2>1. Of(q) \cap system_process_spawned \subseteq completed'
    BY <1>1, <1>2, <1>3, <1>4, <1>7
  <2>2. IF q = Sc[s] THEN SliceScEnd(op0, todo0, ct) ELSE ContinueWith(op0, todo0, ct)
    BY <1>1, <1>2, <1>7
  <2>3. QED
    BY <1>1, <1>5, <1>7, <2>1, <2>2
<1>8. QED
  BY <1>1, <1>6, <1>7

\* During the SC phase, slice_sc_end_cb finds all SC partitions finished exactly
\* when every other slice of the window has served its own.
LEMMA LastToFinish ==
    ASSUME IInv, ScPhase, NEW s \in Windows[current_win], s \in todo \/ s \in timer
    PROVE  /\ finished_sc_partitions < Total
           /\ HasScFinished(finished_sc_partitions + 1) <=>
                 /\ todo \subseteq {s}
                 /\ \A t \in Windows[current_win] \ {s} : running_process[t] = NoProc
<1> DEFINE W == Windows[current_win]
<1>1. /\ IsFiniteSet(W) /\ W \subseteq Slice /\ todo \subseteq W /\ Cardinality(W) \in Nat
  BY WindowFacts DEF IInv, TypeOK, WindowTypeOK
<1>2. ScEnded \subseteq W \ {s}
  BY DEF ScEnded
<1>3. IsFiniteSet(W \ {s}) /\ Cardinality(W \ {s}) = Cardinality(W) - 1
  BY <1>1, FS_RemoveElement
<1>4. /\ Cardinality(ScEnded) \in Nat
      /\ Cardinality(ScEnded) =< Cardinality(W) - 1
      /\ Cardinality(ScEnded) = Cardinality(W) - 1 <=> ScEnded = W \ {s}
  <2>1. IsFiniteSet(ScEnded)
    BY <1>2, <1>3, FS_Subset
  <2>2. QED
    BY <1>2, <1>3, <2>1, FS_Subset, FS_CardinalityType
<1>5. \A t \in W : t \in timer <=> running_process[t] # NoProc
  BY <1>1 DEF IInv, BudgetTimer
<1>6. ScEnded = W \ {s} <=> todo \subseteq {s} /\ \A t \in W \ {s} : running_process[t] = NoProc
  BY <1>1, <1>2, <1>5 DEF ScEnded
<1>7. finished_sc_partitions = Cardinality(ScEnded) /\ Total = Cardinality(W)
  BY DEF ScPhase, Total
<1>8. finished_sc_partitions < Total
  BY <1>1, <1>4, <1>7
<1>9. HasScFinished(finished_sc_partitions + 1) <=> Cardinality(ScEnded) = Cardinality(W) - 1
  BY <1>1, <1>4, <1>7 DEF HasScFinished
<1>10. QED
  BY <1>4, <1>6, <1>8, <1>9

\* The initial states of the scheduler are initial states of TimePartitioning.
LEMMA InitPartitioned == Init => TP!Init
BY DEF Init, ApiInit, TP!Init, Phase
\* The partition that a slice serves in the present phase.
LEMMA Serving ==
    ASSUME NEW s \in Slice
    PROVE  TP!Members(s) = IF (IF Phase = "sc" THEN Sc[s] ELSE Be[s]) = NoPartition THEN {}
                           ELSE Of(IF Phase = "sc" THEN Sc[s] ELSE Be[s])
BY DEF TP!Members, Of

\* A slice serves its SC partition.
LEMMA ServeSc ==
    ASSUME IInv, ScPhase, mf_timer, NEW s \in Windows[current_win], s \in todo \/ s \in timer,
           NEW op0 \in {"startSc", "idle"}, op = op0, op0 = "idle" => todo = {},
           NEW comp, NEW ct, NEW skipped \in SUBSET (TP!Members(s) \cap system_process_spawned),
           completed' = comp \cup skipped,
           \/ /\ \E p \in (TP!Members(s) \cap system_process_spawned) \ completed' :
                    running_process' = [running_process EXCEPT ![s] = p]
              /\ ContinueWith(op0, todo \ {s}, ct)
           \/ /\ TP!Members(s) \cap system_process_spawned \subseteq completed'
              /\ running_process' = [running_process EXCEPT ![s] = NoProc]
              /\ SliceScEnd(op0, todo \ {s}, ct),
           UNCHANGED <<mf_timer, current_win, started, system_process_spawned>>
    PROVE  TP!Serve(s, comp)
<1>1. /\ finished_sc_partitions < Total
      /\ HasScFinished(finished_sc_partitions + 1) <=>
             /\ todo \subseteq {s}
             /\ \A t \in Windows[current_win] \ {s} : running_process[t] = NoProc
  BY LastToFinish
<1>2. Phase = "sc" /\ Unserved = todo
  BY <1>1 DEF Phase, Unserved
<1>3. TP!ScServed(s) <=> HasScFinished(finished_sc_partitions + 1)
  BY <1>1, <1>2 DEF TP!ScServed, Unserved
<1>4. Total' = Total /\ Total \in Nat /\ finished_sc_partitions \in Nat
  BY WindowFacts DEF Total, IInv, TypeOK, WindowTypeOK
<1>5. CASE ContinueWith(op0, todo \ {s}, ct)
  <2>1. Unserved' = Unserved \ {s} /\ Phase' = Phase
    BY <1>2, <1>4, <1>5 DEF ContinueWith, Unserved, Phase
  <2>2. CASE \E p \in (TP!Members(s) \cap system_process_spawned) \ completed' :
                 running_process' = [running_process EXCEPT ![s] = p]
    BY <2>1, <2>2 DEF TP!Serve, Unserved
  <2>3. CASE SliceScEnd(op0, todo \ {s}, ct)
    BY <1>4, <1>5, <2>3 DEF ContinueWith, SliceScEnd
  <2>4. QED
    BY <2>2, <2>3
<1>6. CASE /\ TP!Members(s) \cap system_process_spawned \subseteq completed'
           /\ running_process' = [running_process EXCEPT ![s] = NoProc]
           /\ SliceScEnd(op0, todo \ {s}, ct)
  <2>1. CASE HasScFinished(finished_sc_partitions + 1)
    <3>1. /\ finished_sc_partitions' = Total' /\ op' = "startBe" /\ todo' = Windows[current_win]
      BY <1>4, <1>6, <2>1 DEF SliceScEnd, HasScFinished, Total
    <3>2. Phase' = "be" /\ Unserved' = Windows[current_win]
      BY <1>4, <3>1 DEF Phase, Unserved
    <3>3. QED
      BY <1>3, <1>6, <2>1, <3>2 DEF TP!Serve, Unserved
  <2>2. CASE ~HasScFinished(finished_sc_partitions + 1)
    <3>1. /\ finished_sc_partitions' = finished_sc_partitions + 1 /\ op' = op0 /\ todo' = todo \ {s}
          /\ finished_sc_partitions + 1 # Total
      BY <1>6, <2>2 DEF SliceScEnd, HasScFinished, Total
    <3>2. Phase' = Phase /\ Unserved' = Unserved \ {s}
      BY <1>1, <1>2, <1>4, <3>1 DEF Phase, Unserved
    <3>3. QED
      BY <1>3, <1>6, <2>2, <3>2 DEF TP!Serve, Unserved
  <2>3. QED
    BY <2>1, <2>2
<1>7. QED
  BY <1>5, <1>6

\* A slice serves its BE partition.  The end of a partition that is also the SC
\* partition of the slice is counted, but no phase starts from that.
LEMMA ServeBe ==
    ASSUME IInv, BePhase, mf_timer, NEW s \in Windows[current_win],
           NEW op0 \in {"startBe", "idle"}, op = op0, op0 = "idle" => todo = {},
           NEW comp, NEW ct, NEW skipped \in SUBSET (TP!Members(s) \cap system_process_spawned),
           completed' = comp \cup skipped,
           \/ /\ \E p \in (TP!Members(s) \cap system_process_spawned) \ completed' :
                    running_process' = [running_process EXCEPT ![s] = p]
              /\ ContinueWith(op0, todo \ {s}, ct)
           \/ /\ TP!Members(s) \cap system_process_spawned \subseteq completed'
              /\ running_process' = [running_process EXCEPT ![s] = NoProc]
              /\ SliceScEnd(op0, todo \ {s}, ct) \/ ContinueWith(op0, todo \ {s}, ct),
           UNCHANGED <<mf_timer, current_win, started, system_process_spawned>>
    PROVE  TP!Serve(s, comp)
<1>1. /\ Total' = Total /\ Total \in Nat /\ finished_sc_partitions \in Nat
      /\ finished_sc_partitions >= Total
  BY WindowFacts DEF BePhase, Total, IInv, TypeOK, WindowTypeOK
<1>2. Phase = "be" /\ Unserved = todo /\ ~TP!ScServed(s)
  BY <1>1 DEF Phase, Unserved, TP!ScServed
<1>3. ~HasScFinished(finished_sc_partitions + 1)
  BY <1>1 DEF HasScFinished, Total
<1>4. /\ op' = op0 /\ todo' = todo \ {s}
      /\ finished_sc_partitions' \in {finished_sc_partitions, finished_sc_partitions + 1}
  BY <1>3 DEF SliceScEnd, ContinueWith
<1>5. Phase' = Phase /\ Unserved' = Unserved \ {s}
  BY <1>1, <1>2, <1>4 DEF Phase, Unserved
<1>6. QED
  BY <1>2, <1>5 DEF TP!Serve, Unserved

-------------------------------------------------------------------------------
(* The steps *)

\* The loop that starts the SC partitions.
LEMMA StartScServes == ASSUME IInv, NEW s \in Slice, StartSc(s) PROVE TP!Begin(s)
<1>1. /\ op = "startSc" /\ s \in todo /\ mf_timer /\ ScPhase /\ todo \cap timer = {}
      /\ s \in Windows[current_win] /\ running_process[s] = NoProc
      /\ completed \in SUBSET Proc /\ running_process \in [Slice -> Proc \cup {NoProc}]
  BY DEF StartSc, IInv, Phases, BudgetTimer, TypeOK, WindowTypeOK, PartTypeOK, SliceTypeOK
<1>2. Phase = "sc"
  BY <1>1, LastToFinish DEF Phase
<1>3. UNCHANGED <<mf_timer, current_win, started, system_process_spawned>>
  BY DEF StartSc, histVars, endVars, apiVars
<1>4. TP!Serve(s, completed \ TP!Members(s))
  <2>1. CASE Sc[s] = NoPartition
    <3>1. TP!Members(s) = {}
      BY <1>2, <2>1, Serving
    <3>2. SliceScEnd("startSc", todo \ {s}, ctime) /\ completed' = completed
          /\ running_process' = running_process
      BY <2>1 DEF StartSc, partVars, sliceVars
    <3>3. running_process' = [running_process EXCEPT ![s] = NoProc]
      BY <1>1, <3>2
    <3>4. completed' = (completed \ TP!Members(s)) \cup {}
      BY <3>1, <3>2
    <3>5. QED
      BY <1>1, <1>3, <3>1, <3>2, <3>3, <3>4, ServeSc
  <2>2. CASE Sc[s] # NoPartition
    <3> DEFINE q == Sc[s]
    <3>1. q \in Partition /\ TP!Members(s) = Of(q) /\ 1 \in 1 .. Len(Processes[q])
      BY <1>2, <2>2, Serving, QueueFacts, SchedulerAssumption
    <3>2. StartNextProcess(s, q, 1, {p \in completed : PartOf[p] # q}, ctime, {},
                           demos_completed, "startSc", todo \ {s})
      BY <2>2 DEF StartSc, StartPartition
    <3>3. {p \in completed : PartOf[p] # q} = completed \ TP!Members(s)
      BY <1>1, <3>1 DEF Of
    <3>4. \E skipped \in SUBSET (Of(q) \cap system_process_spawned) :
              /\ completed' = (completed \ TP!Members(s)) \cup skipped
              /\ \/ /\ \E p \in (Of(q) \cap system_process_spawned) \ completed' :
                          running_process' = [running_process EXCEPT ![s] = p]
                    /\ ContinueWith("startSc", todo \ {s}, ctime)
                 \/ /\ Of(q) \cap system_process_spawned \subseteq completed'
                    /\ running_process' = [running_process EXCEPT ![s] = NoProc]
                    /\ SliceScEnd("startSc", todo \ {s}, ctime)
      BY <3>1, <3>2, <3>3, Serves
    <3> HIDE DEF q
    <3>5. QED
      BY <1>1, <1>3, <3>1, <3>4, ServeSc
  <2>3. QED
    BY <2>1, <2>2
<1>5. QED
  BY <1>1, <1>4 DEF TP!Begin

\* The loop that starts the BE partitions.
LEMMA StartBeServes == ASSUME IInv, NEW s \in Slice, StartBe(s) PROVE TP!Begin(s)
<1>1. /\ op = "startBe" /\ s \in todo /\ mf_timer /\ BePhase /\ todo \cap timer = {}
      /\ s \in Windows[current_win] /\ running_process[s] = NoProc
      /\ completed \in SUBSET Proc /\ running_process \in [Slice -> Proc \cup {NoProc}]
  BY DEF StartBe, IInv, Phases, BudgetTimer, TypeOK, WindowTypeOK, PartTypeOK, SliceTypeOK
<1>2. Phase = "be"
  <2>1. Total \in Nat /\ finished_sc_partitions \in Nat /\ finished_sc_partitions >= Total
    BY <1>1, WindowFacts DEF BePhase, Total, IInv, TypeOK, WindowTypeOK
  <2>2. QED
    BY <1>1, <2>1 DEF Phase
<1>3. UNCHANGED <<mf_timer, current_win, started, system_process_spawned>>
  BY DEF StartBe, histVars, endVars, apiVars
<1>4. TP!Serve(s, completed \ TP!Members(s))
  <2>1. CASE Be[s] = NoPartition
    <3>1. TP!Members(s) = {}
      BY <1>2, <2>1, Serving
    <3>2. /\ ContinueWith("startBe", todo \ {s}, ctime) /\ completed' = completed
          /\ running_process' = running_process
      BY <1>1, <2>1 DEF StartBe, partVars, sliceVars, ContinueWith
    <3>3. running_process' = [running_process EXCEPT ![s] = NoProc]
      BY <1>1, <3>2
    <3>4. completed' = (completed \ TP!Members(s)) \cup {}
      BY <3>1, <3>2
    <3>5. QED
      BY <1>1, <1>3, <3>1, <3>2, <3>3, <3>4, ServeBe
  <2>2. CASE Be[s] # NoPartition
    <3> DEFINE q == Be[s]
    <3>1. q \in Partition /\ TP!Members(s) = Of(q) /\ current_proc[q] \in 1 .. Len(Processes[q])
      <4>1. q \in Partition
        BY <2>2, SchedulerAssumption
      <4>2. current_proc[q] \in Nat \ {0} /\ current_proc[q] =< Len(Processes[q])
            /\ Len(Processes[q]) \in Nat
        BY <4>1, QueueFacts DEF IInv, TypeOK, PartTypeOK
      <4>3. QED
        BY <1>2, <2>2, <4>1, <4>2, Serving
    <3>2. StartNextProcess(s, q, current_proc[q], {p \in completed : PartOf[p] # q}, ctime, {},
                           demos_completed, "startBe", todo \ {s})
      BY <2>2 DEF StartBe, StartPartition
    <3>3. {p \in completed : PartOf[p] # q} = completed \ TP!Members(s)
      BY <1>1, <3>1 DEF Of
    <3>4. \E skipped \in SUBSET (Of(q) \cap system_process_spawned) :
              /\ completed' = (completed \ TP!Members(s)) \cup skipped
              /\ \/ /\ \E p \in (Of(q) \cap system_process_spawned) \ completed' :
                          running_process' = [running_process EXCEPT ![s] = p]
                    /\ ContinueWith("startBe", todo \ {s}, ctime)
                 \/ /\ Of(q) \cap system_process_spawned \subseteq completed'
                    /\ running_process' = [running_process EXCEPT ![s] = NoProc]
                    /\ \/ SliceScEnd("startBe", todo \ {s}, ctime)
                       \/ ContinueWith("startBe", todo \ {s}, ctime)
      BY <3>1, <3>2, <3>3, Serves
    <3> HIDE DEF q
    <3>5. QED
      BY <1>1, <1>3, <3>1, <3>4, ServeBe
  <2>3. QED
    BY <2>1, <2>2
<1>5. QED
  BY <1>1, <1>4 DEF TP!Begin

\* The turn of a process ends: its budget is used up or a completion is reported.
LEMMA ScheduleNextServes ==
    ASSUME IInv, NEW s \in timer, op = "idle", NEW ct, NEW dc, ScheduleNext(s, ct, dc),
           UNCHANGED <<mf_timer, current_win, started, system_process_spawned>>
    PROVE  TP!Yield(s)
<1> DEFINE q == running_partition[s]
           p0 == running_process[s]
<1>1. /\ s \in Slice /\ todo = {} /\ mf_timer /\ p0 \in Proc /\ p0 # NoProc
      /\ s \in Windows[current_win] /\ q = PartOf[p0]
      /\ IF finished_sc_partitions < Total THEN ScPhase ELSE BePhase
  BY DEF IInv, Phases, Between, BudgetTimer, TypeOK, SliceTypeOK
<1>2. q \in Partition /\ q # NoPartition
  BY <1>1, SchedulerAssumption
<1>3. current_proc[q] \in 1 .. Len(Processes[q])
  <2>1. current_proc[q] \in Nat \ {0} /\ current_proc[q] =< Len(Processes[q])
        /\ Len(Processes[q]) \in Nat
    BY <1>2, QueueFacts DEF IInv, TypeOK, PartTypeOK
  <2>2. QED
    BY <2>1
<1>4. PICK skipped \in SUBSET (Of(q) \cap system_process_spawned) :
         /\ completed' = (completed \cup {p0}) \cup skipped
         /\ \/ /\ \E p \in (Of(q) \cap system_process_spawned) \ completed' :
                     running_process' = [running_process EXCEPT ![s] = p]
               /\ ContinueWith("idle", {}, ct)
            \/ /\ Of(q) \cap system_process_spawned \subseteq completed'
               /\ running_process' = [running_process EXCEPT ![s] = NoProc]
               /\ IF q = Sc[s] THEN SliceScEnd("idle", {}, ct) ELSE ContinueWith("idle", {}, ct)
  <2>1. StartNextProcess(s, q, current_proc[q], completed \cup {p0}, ct, {p0}, dc, "idle", {})
    BY DEF ScheduleNext
  <2> HIDE DEF q, p0
  <2> QED BY <1>1, <1>2, <1>3, <2>1, Serves
<1>5. todo \ {s} = {}
  BY <1>1
<1>6. TP!Serve(s, completed \cup {p0})
  <2>1. CASE finished_sc_partitions < Total
    <3>1. ScPhase /\ q = Sc[s]
      BY <1>1, <2>1 DEF ScPhase
    <3>2. TP!Members(s) = Of(q)
      BY <1>1, <1>2, <2>1, <3>1, Serving DEF Phase
    <3>3. /\ skipped \in SUBSET (TP!Members(s) \cap system_process_spawned)
          /\ \/ /\ \E p \in (TP!Members(s) \cap system_process_spawned) \ completed' :
                      running_process' = [running_process EXCEPT ![s] = p]
                /\ ContinueWith("idle", todo \ {s}, ct)
             \/ /\ TP!Members(s) \cap system_process_spawned \subseteq completed'
                /\ running_process' = [running_process EXCEPT ![s] = NoProc]
                /\ SliceScEnd("idle", todo \ {s}, ct)
      BY <1>4, <1>5, <3>1, <3>2
    <3> HIDE DEF q, p0
    <3>4. QED
      BY <1>1, <1>4, <3>1, <3>3, ServeSc
  <2>2. CASE ~(finished_sc_partitions < Total)
    <3>1. BePhase /\ q = Be[s]
      BY <1>1, <2>2 DEF BePhase
    <3>2. TP!Members(s) = Of(q)
      BY <1>1, <1>2, <2>2, <3>1, Serving DEF Phase
    <3>3. /\ skipped \in SUBSET (TP!Members(s) \cap system_process_spawned)
          /\ \/ /\ \E p \in (TP!Members(s) \cap system_process_spawned) \ completed' :
                      running_process' = [running_process EXCEPT ![s] = p]
                /\ ContinueWith("idle", todo \ {s}, ct)
             \/ /\ TP!Members(s) \cap system_process_spawned \subseteq completed'
                /\ running_process' = [running_process EXCEPT ![s] = NoProc]
                /\ SliceScEnd("idle", todo \ {s}, ct) \/ ContinueWith("idle", todo \ {s}, ct)
      BY <1>4, <1>5, <3>1, <3>2
    <3> HIDE DEF q, p0
    <3>4. QED
      BY <1>1, <1>4, <3>1, <3>3, ServeBe
  <2>3. QED
    BY <2>1, <2>2
<1>7. QED
  BY <1>1, <1>6 DEF TP!Yield, Phase

\* Nobody has had a turn before the major frame is started.
Fresh == ~started => completed = {}

\* A window is left: the window timer, a shutdown, or the end of all processes.
LEMMA WindowLeft ==
    ASSUME op \in {"idle", "exit"}, mf_timer' = FALSE, op' = "stop",
           UNCHANGED <<current_win, started, running_process, completed, system_process_spawned>>
    PROVE  [TP!Next]_TP!abstractVars
<1>1. Unserved = {} /\ Unserved' = {} /\ Phase' = "closed"
  BY DEF Unserved, Phase
<1>2. CASE mf_timer
  <2>1. Phase # "closed"
    BY <1>2 DEF Phase
  <2>2. TP!Close
    BY <1>1, <2>1 DEF TP!Close, Unserved
  <2>3. QED
    BY <2>2 DEF TP!Next
<1>3. CASE ~mf_timer
  BY <1>1, <1>3 DEF TP!abstractVars, Phase, Unserved
<1>4. QED
  BY <1>2, <1>3

\* A window is entered, the first one with or without the end of a process.
LEMMA WindowEntered ==
    ASSUME IInv, NEW w \in DOMAIN Windows, NEW ct, MfStart(w, ct),
           \/ op = "stop" /\ todo = {}
           \/ op = "idle" /\ ~started,
           w = IF started THEN NextWin(current_win) ELSE current_win,
           started' = TRUE, UNCHANGED <<running_process, completed>>,
           system_process_spawned' \in {system_process_spawned} \cup
               (IF started THEN {} ELSE {system_process_spawned \ {p} : p \in system_process_spawned})
    PROVE  TP!Open
<1>1. timer = {} /\ ~mf_timer
  BY DEF IInv, Phases, Between, StartOrder
<1>2. Phase = "closed" /\ \A s \in Slice : running_process[s] = NoProc
  BY <1>1 DEF Phase, IInv, BudgetTimer
<1>3. /\ IsFiniteSet(Windows[w]) /\ Cardinality(Windows[w]) \in Nat
      /\ Cardinality(Windows[w]) = 0 <=> Windows[w] = {}
  BY WindowFacts, FS_EmptySet
<1>4. current_win' = w /\ Unserved' = Windows[w]
  BY DEF MfStart, Unserved
<1>5. Phase' = TP!FirstPhase(w)
  <2>1. mf_timer' /\ finished_sc_partitions' = 0 /\ Total' = Cardinality(Windows[w])
    BY DEF MfStart, Total
  <2>2. QED
    BY <1>3, <2>1 DEF Phase, TP!FirstPhase
<1>6. started => w = (current_win % Len(Windows)) + 1
  <2>1. PICK n \in Nat \ {0} : n = Len(Windows) /\ current_win \in 1 .. n
    <3>1. Len(Windows) \in Nat \ {0} /\ DOMAIN Windows = 1 .. Len(Windows)
      BY SchedulerAssumption
    <3>2. current_win \in DOMAIN Windows
      BY DEF IInv, TypeOK, WindowTypeOK
    <3>3. QED
      BY <3>1, <3>2
  <2>2. CASE current_win = n
    <3>1. n % n = 0
      BY ModSmall
    <3>2. QED
      BY <2>1, <2>2, <3>1 DEF NextWin
  <2>3. CASE current_win # n
    <3>1. current_win % n = current_win
      BY <2>1, <2>3, ModSmall
    <3>2. QED
      BY <2>1, <2>3, <3>1 DEF NextWin
  <2>4. QED
    BY <2>2, <2>3
<1>7. current_win' = IF started THEN (current_win % Len(Windows)) + 1 ELSE current_win
  BY <1>4, <1>6
<1>8. QED
  BY <1>2, <1>4, <1>5, <1>7 DEF TP!Open, Unserved

\* PartitionManager::finish_process_init enters the first window, or stops.
LEMMA FinishPartitioned ==
    ASSUME IInv, ~started, op = "idle", NEW rest, FinishProcessInit(rest),
           UNCHANGED <<running_process, completed>>,
           system_process_spawned' \in {system_process_spawned} \cup
               {system_process_spawned \ {p} : p \in system_process_spawned}
    PROVE  [TP!Next]_TP!abstractVars
<1>1. CASE MfStart(current_win, 0) /\ started'
  <2>1. TP!Open
    BY <1>1, WindowEntered DEF IInv, TypeOK, WindowTypeOK, LoopTypeOK, FinishProcessInit
  <2>2. QED
    BY <2>1 DEF TP!Next
<1>2. CASE InitiateShutdown(rest)
  <2>1. /\ mf_timer' = FALSE /\ ~mf_timer /\ op' = "stop" /\ UNCHANGED <<current_win, started>>
    BY <1>2 DEF InitiateShutdown, MfStop, IInv, StartOrder
  <2>2. CASE UNCHANGED system_process_spawned
    BY <2>1, <2>2, WindowLeft
  <2>3. CASE \E p \in system_process_spawned : system_process_spawned' = system_process_spawned \ {p}
    <3>1. PICK p \in system_process_spawned : system_process_spawned' = system_process_spawned \ {p}
      BY <2>3
    <3>2. p \in Proc
      BY DEF IInv, TypeOK, ApiTypeOK
    <3>3. Phase' = Phase /\ Unserved = {} /\ Unserved' = {}
      BY <2>1 DEF Phase, Unserved
    <3>4. TP!End(p)
      BY <2>1, <3>1, <3>3 DEF TP!End, Unserved
    <3>5. QED
      BY <3>2, <3>4 DEF TP!Next
  <2>4. QED
    BY <2>2, <2>3
<1>3. QED
  BY <1>1, <1>2 DEF FinishProcessInit

\* A step that TimePartitioning does not see.
LEMMA Unseen ==
    ASSUME UNCHANGED <<current_win, started, mf_timer, finished_sc_partitions, running_process,
                       completed, system_process_spawned>>,
           Unserved' = Unserved
    PROVE  UNCHANGED TP!abstractVars
BY DEF TP!abstractVars, Phase, Total, Unserved

\* The end of a process outside of its initialization, or one that is not the last.
LEMMA EndSeen ==
    ASSUME IInv, UNCHANGED <<current_win, started, mf_timer, finished_sc_partitions,
                             running_process, completed>>,
           op = "idle", op' \in {"idle", "exit"}, NEW p \in Proc,
           system_process_spawned' = system_process_spawned \ {p}
    PROVE  [TP!Next]_TP!abstractVars
<1>1. Unserved' = Unserved /\ Phase' = Phase
  BY DEF Unserved, Phase, Total
<1>2. CASE p \in system_process_spawned
  <2>1. TP!End(p)
    BY <1>1, <1>2 DEF TP!End, Unserved
  <2>2. QED
    BY <2>1 DEF TP!Next
<1>3. CASE p \notin system_process_spawned
  <2>1. system_process_spawned' = system_process_spawned
    BY <1>3
  <2>2. QED
    BY <1>1, <2>1, Unseen
<1>4. QED
  BY <1>2, <1>3

\* Every step of the scheduler is a step of TimePartitioning or is not seen by it.
LEMMA StepPartitioned ==
    ASSUME IInv, Fresh, [Next]_vars PROVE [TP!Next]_TP!abstractVars
<1> USE DEF histVars
<1>1. ASSUME NEW s \in Slice, StartSc(s) \/ StartBe(s) PROVE TP!Next
  BY <1>1, StartScServes, StartBeServes DEF TP!Next
<1>2. ASSUME NEW s \in Slice, SliceTimer(s) \/ \E p \in Proc : CompletedInSlice(p, s)
      PROVE  TP!Next
  <2>1. s \in timer /\ op = "idle"
    BY <1>2 DEF SliceTimer, CompletedInSlice, Dispatch, IInv, Phases, BudgetTimer
  <2>2. PICK ct, dc : ScheduleNext(s, ct, dc)
    BY <1>2 DEF SliceTimer, CompletedInSlice
  <2>3. UNCHANGED <<mf_timer, current_win, started, system_process_spawned>>
    BY <1>2 DEF SliceTimer, CompletedInSlice, endVars
  <2>4. TP!Yield(s)
    BY <2>1, <2>2, <2>3, ScheduleNextServes
  <2>5. QED
    BY <2>4 DEF TP!Next
<1>3. ASSUME NEW s \in Slice, StopSlice(s) PROVE [TP!Next]_TP!abstractVars
  <2>1. /\ op = "stop" /\ op' = "stop" /\ ~mf_timer
        /\ running_process' = [running_process EXCEPT ![s] = NoProc]
        /\ UNCHANGED <<mf_timer, current_win, started, system_process_spawned>>
    BY <1>3 DEF StopSlice, endVars, IInv, Phases
  <2>2. Phase = "closed" /\ Phase' = "closed" /\ Unserved = {} /\ Unserved' = {}
    BY <2>1 DEF Phase, Unserved
  <2>3. CASE running_process[s] = NoProc
    <3>1. running_process' = running_process /\ completed' = completed
      BY <1>3, <2>1, <2>3 DEF StopSlice, IInv, TypeOK, SliceTypeOK
    <3>2. QED
      BY <2>1, <2>2, <3>1 DEF TP!abstractVars, Unserved
  <2>4. CASE running_process[s] # NoProc
    <3>1. completed' \in {completed, completed \cup {running_process[s]}}
      BY <1>3, <2>4 DEF StopSlice
    <3>2. TP!Interrupt(s)
      BY <2>1, <2>2, <2>4, <3>1 DEF TP!Interrupt, Unserved
    <3>3. QED
      BY <3>2 DEF TP!Next
  <2>5. QED
    BY <2>3, <2>4
<1>4. CASE EnterNextWindow
  <2>1. started /\ current_win \in DOMAIN Windows
    BY <1>4 DEF EnterNextWindow, IInv, StartOrder, TypeOK, WindowTypeOK
  <2>2. NextWin(current_win) \in DOMAIN Windows
    BY <2>1, WindowFacts
  <2>3. TP!Open
    BY <1>4, <2>1, <2>2, WindowEntered DEF EnterNextWindow, apiVars, endVars, partVars, sliceVars
  <2>4. QED
    BY <2>3 DEF TP!Next
<1>5. CASE WindowTimer \/ RunTimer \/ Signal
  BY <1>5, WindowLeft DEF WindowTimer, RunTimer, Signal, Dispatch, InitiateShutdown, MfStop,
     apiVars, endVars, partVars, sliceVars
<1>6. CASE ExitCheck
  <2>1. CASE MfStop("break", pending)
    BY <1>6, <2>1, WindowLeft DEF ExitCheck, MfStop, apiVars, endVars, partVars, sliceVars
  <2>2. CASE op' = "idle" /\ UNCHANGED winVars
    BY <1>6, <2>2, Unseen DEF ExitCheck, Unserved, apiVars, endVars, partVars, sliceVars, winVars
  <2>3. QED
    BY <1>6, <2>1, <2>2 DEF ExitCheck
<1>7. CASE Startup
  <2>1. ~started /\ op = "idle"
    BY <1>7 DEF Startup, Dispatch, IInv, StartOrder
  <2>2. UNCHANGED <<running_process, completed, system_process_spawned>>
    BY <1>7, <2>1 DEF Startup, Switch, endVars, sliceVars, Fresh
  <2>3. CASE FinishProcessInit(pending \ {StartupEv})
    BY <2>1, <2>2, <2>3, FinishPartitioned
  <2>4. CASE UNCHANGED <<winVars, ctlVars, histVars>>
    BY <2>2, <2>4, Unseen DEF winVars, ctlVars, Unserved
  <2>5. QED
    BY <1>7, <2>3, <2>4 DEF Startup
<1>8. ASSUME NEW p \in Proc, CompletedInit(p) PROVE [TP!Next]_TP!abstractVars
  <2>1. ~started /\ op = "idle"
    BY <1>8, SchedulerAssumption DEF CompletedInit, Dispatch, IInv, StartOrder
  <2>2. UNCHANGED <<running_process, completed, system_process_spawned>>
    BY <1>8 DEF CompletedInit, Completed, endVars, sliceVars
  <2>3. CASE FinishProcessInit(pending \ {CompletedEv(p)})
    BY <2>1, <2>2, <2>3, FinishPartitioned
  <2>4. CASE op' = "idle" /\ UNCHANGED <<winVars, todo, histVars>>
    BY <2>1, <2>2, <2>4, Unseen DEF winVars, Unserved
  <2>5. QED
    BY <1>8, <2>3, <2>4 DEF CompletedInit, OneInitLess
<1>9. ASSUME NEW p \in Proc, ProcessEnded(p) PROVE [TP!Next]_TP!abstractVars
  <2>1. PICK e \in {ExitEv(p), PopulatedEv(p)} :
          /\ Dispatch(e) /\ UNCHANGED <<completed, sliceVars>>
          /\ system_process_spawned' = system_process_spawned \ {p}
          /\ \/ CountsAsInitialized(p) /\ OneInitLess(pending \ {e}, "exit")
             \/ op' = "exit" /\ UNCHANGED <<winVars, histVars>>
    BY <1>9 DEF ProcessEnded, HandleEnd
  <2>2. op = "idle" /\ UNCHANGED <<running_process, completed>>
    BY <2>1 DEF Dispatch, sliceVars
  <2>3. CASE op' = "exit" /\ UNCHANGED <<winVars, histVars>>
    BY <2>1, <2>2, <2>3, EndSeen DEF winVars
  <2>4. CASE CountsAsInitialized(p) /\ FinishProcessInit(pending \ {e})
    <3>1. ~started
      BY <2>4 DEF CountsAsInitialized, IInv, StartOrder
    <3>2. system_process_spawned' \in {system_process_spawned} \cup
              {system_process_spawned \ {r} : r \in system_process_spawned}
      <4>1. CASE p \in system_process_spawned
        BY <2>1, <4>1
      <4>2. CASE p \notin system_process_spawned
        BY <2>1, <4>2
      <4>3. QED
        BY <4>1, <4>2
    <3>3. QED
      BY <2>2, <2>4, <3>1, <3>2, FinishPartitioned
  <2>5. QED
    BY <2>1, <2>3, <2>4 DEF OneInitLess
<1>10. CASE StartDone \/ KillProcesses \/ BreakLoop
  <2>1. Unserved = {} /\ Unserved' = {}
    BY <1>10 DEF StartDone, KillProcesses, BreakLoop, Return, Unserved
  <2>2. UNCHANGED <<partVars, sliceVars, winVars, histVars, system_process_spawned>>
    BY <1>10 DEF StartDone, KillProcesses, BreakLoop, KillAll, apiVars, endVars
  <2>3. QED
    BY <2>1, <2>2, Unseen DEF partVars, sliceVars, winVars
<1>11. CASE Poll \/ LoopReturns \/ ReceiveSignal \/ UNCHANGED vars \/ Tick
  <2>1. UNCHANGED <<current_win, started, mf_timer, finished_sc_partitions, running_process,
                    completed, system_process_spawned, op, todo>>
    BY <1>11 DEF Poll, LoopReturns, ReceiveSignal, vars, Tick, apiVars, endVars, partVars, sliceVars,
       winVars, ctlVars
  <2>2. QED
    BY <2>1, Unseen DEF Unserved
<1>12. ASSUME NEW p \in Proc, \/ Client(p) \/ CompletedIgnored(p) \/ ChildTerminatedButPopulated(p)
                              \/ \E s \in Slice : CompletedCrash(p, s)
       PROVE  [TP!Next]_TP!abstractVars
  <2>1. UNCHANGED <<partVars, sliceVars, winVars, ctlVars, histVars>>
    BY <1>12 DEF Client, CompletedIgnored, ChildTerminatedButPopulated, CompletedCrash
  <2>2. UNCHANGED system_process_spawned
    BY <1>12 DEF Client, CompletedIgnored, ChildTerminatedButPopulated, CompletedCrash, Completed,
       ChildTerminatedOrphans, ClientStep, FreezeSettles, DemosCompleted,
       DemosInitializationCompleted, ReadNewPeriod, Exit, OrphansExit, Die, endVars
  <2>3. QED
    BY <2>1, <2>2, Unseen DEF partVars, sliceVars, winVars, ctlVars, Unserved
<1>13. QED
  BY <1>1, <1>2, <1>3, <1>4, <1>5, <1>6, <1>7, <1>8, <1>9, <1>10, <1>11, <1>12
     DEF Next, LoopStep, Over

\* Nobody completes before the major frame is started.
LEMMA FreshStep == ASSUME IInv, Fresh, [Next]_vars PROVE Fresh'
<1>1. ASSUME completed' = completed, ~started' => ~started PROVE Fresh'
  BY <1>1 DEF Fresh
<1>2. ASSUME NEW s \in Slice, \/ SliceTimer(s) \/ StartSc(s) \/ StartBe(s)
                              \/ \E p \in Proc : CompletedInSlice(p, s)
      PROVE  started /\ started' = started
  BY <1>2 DEF SliceTimer, StartSc, StartBe, CompletedInSlice, Dispatch, histVars, IInv, StartOrder,
     Phases, BudgetTimer
<1>3. ASSUME NEW s \in Slice, StopSlice(s), ~started PROVE completed' = completed
  <2>1. running_process[s] = NoProc
    BY <1>3 DEF IInv, StartOrder, BudgetTimer
  <2>2. QED
    BY <1>3, <2>1 DEF StopSlice
<1>4. ASSUME NEW s \in Slice, StopSlice(s) PROVE Fresh'
  BY <1>3, <1>4 DEF Fresh, StopSlice, histVars
<1>5. CASE Startup
  BY <1>5 DEF Startup, Fresh
<1>6. ASSUME NEW p \in Proc, \/ Client(p) \/ CompletedIgnored(p) \/ ChildTerminatedButPopulated(p)
                             \/ CompletedInit(p) \/ ProcessEnded(p)
                             \/ \E s \in Slice : CompletedCrash(p, s)
      PROVE  completed' = completed /\ (~started' => ~started)
  BY <1>6 DEF Client, CompletedIgnored, ChildTerminatedButPopulated, CompletedInit, ProcessEnded,
     CompletedCrash, OneInitLess, FinishProcessInit, InitiateShutdown, partVars, histVars
<1>7. CASE \/ Poll \/ LoopReturns \/ ReceiveSignal \/ UNCHANGED vars \/ Tick \/ StartDone
           \/ KillProcesses \/ BreakLoop \/ ExitCheck \/ WindowTimer \/ RunTimer \/ Signal
           \/ EnterNextWindow
  <2>1. completed' = completed /\ started' = started
    BY <1>7 DEF Poll, LoopReturns, ReceiveSignal, vars, Tick, StartDone, KillProcesses, BreakLoop,
       ExitCheck, WindowTimer, RunTimer, Signal, EnterNextWindow, InitiateShutdown, partVars, histVars
  <2>2. QED
    BY <1>1, <2>1
<1>8. ASSUME started, started' = started PROVE Fresh'
  BY <1>8 DEF Fresh
<1>9. QED
  BY <1>1, <1>2, <1>4, <1>5, <1>6, <1>7, <1>8 DEF Next, LoopStep, Over

\* The scheduler implements TimePartitioning: windows in order, BE partitions
\* after every SC partition of the window, at most one turn for each process and
\* no slice idle while a process of its partition waits, in every configuration
\* and whatever interleaving of timers, completions, exits and signals.
THEOREM TimePartitionedHolds == Spec => TimePartitioned
<1>1. Init => TP!Init /\ Fresh
  BY InitPartitioned DEF Init, Fresh
<1>2. IInv /\ Fresh /\ [Next]_vars => Fresh' /\ [TP!Next]_TP!abstractVars
  BY StepPartitioned, FreshStep
<1>3. QED
  BY <1>1, <1>2, Invariance, PTL DEF Spec, TimePartitioned, TP!Spec

===============================================================================
