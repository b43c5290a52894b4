---------------------------- MODULE SchedulerProofs ----------------------------
(***************************************************************************)
(* Proofs about the scheduler, for every configuration.  First the process *)
(* protocol of ProcessApi, for any order of suspend(), resume() and        *)
(* kill(); then that the scheduler implements it, so that what is proved   *)
(* of the protocol holds of the scheduler; then the inductive invariant of *)
(* the scheduler: types, budget timers and the phases of a window.         *)
(***************************************************************************)
EXTENDS Scheduler, PartitionQueueProofs, FiniteSetTheorems, TLAPS

-------------------------------------------------------------------------------
(* The process protocol *)

\* The types hold initially.
LEMMA ApiTypeInit == ApiInit => ApiTypeOK
BY ApiAssumption DEF ApiInit, ApiTypeOK

\* What the methods of Process that several handlers share do to the types.
LEMMA SuspendResumeType ==
    ASSUME ApiTypeOK, NEW S, NEW R, NEW dc \in SUBSET Proc,
           SuspendResume(S, R, dc)
    PROVE  /\ freezer' \in [Proc -> {"THAWED", "FREEZING", "FROZEN"}]
           /\ efd_continue' \in [Proc -> Nat]
           /\ demos_completed' \in SUBSET Proc
BY DEF SuspendResume, ApiTypeOK, Suspend, Tokens

\* The child process and the kernel preserve the types.
LEMMA ClientType == ASSUME ApiTypeOK, NEW p \in Proc, ClientStep(p) PROVE ApiTypeOK'
BY DEF ApiTypeOK, ClientStep, FreezeSettles, DemosCompleted,
       DemosInitializationCompleted, ReadNewPeriod, Exit, OrphansExit, Die,
       clientVars, endVars

\* The methods of Process preserve the types.
LEMMA SchedulerType == ASSUME ApiTypeOK, SchedulerStep PROVE ApiTypeOK'
<1>1. ASSUME NEW p \in Proc, NEW S \in SUBSET Proc, NEW R \in SUBSET Proc,
             Completed(p, S, R)
      PROVE  ApiTypeOK'
  <2>1. (demos_completed \cup {p}) \in SUBSET Proc
    BY DEF ApiTypeOK
  <2>2. QED
    BY <1>1, <2>1, SuspendResumeType DEF Completed, ApiTypeOK, clientVars, endVars
<1>2. ASSUME NEW S \in SUBSET Proc, NEW R \in SUBSET Proc, Switch(S, R)
      PROVE  ApiTypeOK'
  BY <1>2, SuspendResumeType DEF Switch, ApiTypeOK, clientVars, endVars
<1>3. ASSUME NEW p \in Proc, ChildTerminatedOrphans(p) PROVE ApiTypeOK'
  BY <1>3 DEF ChildTerminatedOrphans, ApiTypeOK, clientVars
<1>4. ASSUME NEW p \in Proc, NEW S \in SUBSET Proc, HandleEnd(p, S)
      PROVE  ApiTypeOK'
  BY <1>4, SuspendResumeType DEF HandleEnd, ApiTypeOK, clientVars
<1>5. CASE KillAll
  BY <1>5 DEF KillAll, ApiTypeOK, endVars
<1>6. QED
  BY <1>1, <1>2, <1>3, <1>4, <1>5 DEF SchedulerStep

\* Every step of the protocol preserves the types.
LEMMA ApiTypeStep == ASSUME ApiTypeOK, [ApiNext]_apiVars PROVE ApiTypeOK'
<1>1. CASE UNCHANGED apiVars
  BY <1>1 DEF apiVars, clientVars, endVars, ApiTypeOK
<1>2. QED
  BY <1>1, ClientType, SchedulerType DEF ApiNext

\* The variables of the protocol keep their types.
THEOREM ApiTypeCorrect == ApiSpec => []ApiTypeOK
BY ApiTypeInit, ApiTypeStep, PTL DEF ApiSpec

-------------------------------------------------------------------------------
(* The handshake.  Handshake is inductive together with the types: its last   *)
(* conjunct, about processes that have ended, is what makes completed_cb()    *)
(* safe when the completion of a dead process is read.                        *)

\* Initially no message of any handshake is under way.
LEMMA HandshakeInit == ApiInit => Handshake
<1> SUFFICES ASSUME ApiInit, NEW p \in Proc
             PROVE  sysproc[p] = "running" /\ InFlight(p) = 0
  BY DEF Handshake
<1>1. completed_w[p] = 0 /\ efd_continue[p] = 0 /\ Flag(p, demos_completed) = 0
  BY DEF ApiInit, Flag
<1>2. QED
  BY <1>1 DEF ApiInit, InFlight

\* suspend() and resume() move a message from the flag to the token counter.
LEMMA SuspendResumeInFlight ==
    ASSUME ApiTypeOK, NEW S, NEW R, NEW dc \in SUBSET Proc,
           SuspendResume(S, R, dc), NEW p \in Proc
    PROVE  Flag(p, demos_completed') + efd_continue'[p] = Flag(p, dc) + efd_continue[p]
BY DEF SuspendResume, ApiTypeOK, Tokens, Flag

\* Every step of the protocol preserves the handshake.
LEMMA HandshakeStep ==
    ASSUME ApiTypeOK, Handshake, [ApiNext]_apiVars PROVE Handshake'
<1>1. ASSUME NEW q \in Proc, ClientStep(q) PROVE Handshake'
  <2> DEFINE F(p) == Flag(p, demos_completed)
  <2>1. ASSUME NEW p \in Proc
        PROVE  /\ completed_w[p] \in Nat /\ efd_continue[p] \in Nat /\ F(p) \in Nat
               /\ completed_w'[p] \in Nat /\ efd_continue'[p] \in Nat
               /\ F(p)' = F(p)
    BY <1>1, ClientType DEF ApiTypeOK, Flag, ClientStep, FreezeSettles, DemosCompleted,
       DemosInitializationCompleted, ReadNewPeriod, Exit, OrphansExit, Die
  <2>2. CASE DemosCompleted(q) \/ DemosInitializationCompleted(q)
    <3>1. /\ sysproc[q] = "running"
          /\ sysproc' = [sysproc EXCEPT ![q] = "blocked"]
          /\ completed_w' = [completed_w EXCEPT ![q] = @ + 1]
          /\ efd_continue' = efd_continue
      BY <2>2 DEF DemosCompleted, DemosInitializationCompleted
    <3>2. InFlight(q) = 0 /\ InFlight(q)' = 1 /\ sysproc'[q] = "blocked"
      BY <2>1, <3>1 DEF ApiTypeOK, Handshake, InFlight
    <3>3. ASSUME NEW p \in Proc, p # q
          PROVE  InFlight(p)' = InFlight(p) /\ sysproc'[p] = sysproc[p]
      BY <2>1, <3>1, <3>3 DEF ApiTypeOK, InFlight
    <3>4. QED
      BY <3>2, <3>3 DEF Handshake
  <2>3. CASE ReadNewPeriod(q)
    BY <2>1, <2>3 DEF ApiTypeOK, Handshake, InFlight, ReadNewPeriod
  <2>4. CASE FreezeSettles(q) \/ Exit(q) \/ OrphansExit(q) \/ Die(q)
    BY <2>1, <2>4 DEF ApiTypeOK, Handshake, InFlight, FreezeSettles, Exit,
       OrphansExit, Die, clientVars
  <2>5. QED
    BY <1>1, <2>2, <2>3, <2>4 DEF ClientStep
<1>2. ASSUME NEW q \in Proc, NEW S \in SUBSET Proc, NEW R \in SUBSET Proc,
             Completed(q, S, R)
      PROVE  Handshake'
  <2> DEFINE dc == demos_completed \cup {q}
  <2>1. dc \in SUBSET Proc
    BY DEF ApiTypeOK
  <2>2. /\ completed_w' = [completed_w EXCEPT ![q] = 0]
        /\ completed_w[q] > 0
        /\ SuspendResume(S, R, dc)
        /\ sysproc' = sysproc
    BY <1>2 DEF Completed, clientVars
  <2>3. ASSUME NEW p \in Proc PROVE InFlight(p)' = InFlight(p)
    <3>1. Flag(p, demos_completed') + efd_continue'[p] = Flag(p, dc) + efd_continue[p]
      BY <2>1, <2>2, SuspendResumeInFlight
    <3>2. completed_w'[p] + Flag(p, dc) = completed_w[p] + Flag(p, demos_completed)
      <4>1. CASE p # q
        BY <2>2, <4>1 DEF ApiTypeOK, Flag
      <4>2. CASE p = q
        <5>1. completed_w[q] + Flag(q, demos_completed) + efd_continue[q] \in {0, 1}
          BY DEF Handshake, InFlight
        <5>2. completed_w[q] \in Nat /\ efd_continue[q] \in Nat /\ completed_w[q] > 0
          BY <2>2 DEF ApiTypeOK
        <5>3. completed_w[q] = 1 /\ Flag(q, demos_completed) = 0
          BY <5>1, <5>2 DEF Flag
        <5>4. completed_w'[q] = 0 /\ Flag(q, dc) = 1
          BY <2>2 DEF ApiTypeOK, Flag
        <5>5. QED
          BY <4>2, <5>3, <5>4
      <4>3. QED
        BY <4>1, <4>2
    <3>3. /\ completed_w[p] \in Nat /\ completed_w'[p] \in Nat
          /\ efd_continue[p] \in Nat /\ efd_continue'[p] \in Nat
      BY <2>1, <2>2, SuspendResumeType DEF ApiTypeOK
    <3>4. /\ Flag(p, demos_completed') \in Nat /\ Flag(p, dc) \in Nat
          /\ Flag(p, demos_completed) \in Nat
      BY DEF Flag
    <3>5. QED
      BY <3>1, <3>2, <3>3, <3>4 DEF InFlight
  <2>4. QED
    BY <2>2, <2>3 DEF Handshake
<1>3. ASSUME NEW S, SuspendResume(S, {}, demos_completed) \/ \E R : SuspendResume(S, R, demos_completed),
             sysproc' = sysproc, completed_w' = completed_w
      PROVE  Handshake'
  <2>1. demos_completed \in SUBSET Proc
    BY DEF ApiTypeOK
  <2>2. PICK R : SuspendResume(S, R, demos_completed)
    BY <1>3
  <2>3. ASSUME NEW p \in Proc PROVE InFlight(p)' = InFlight(p)
    <3>1. Flag(p, demos_completed') + efd_continue'[p] = Flag(p, demos_completed) + efd_continue[p]
      BY <2>1, <2>2, SuspendResumeInFlight
    <3>2. efd_continue[p] \in Nat /\ efd_continue'[p] \in Nat /\ completed_w[p] \in Nat
      BY <2>1, <2>2, SuspendResumeType DEF ApiTypeOK
    <3>3. Flag(p, demos_completed') \in Nat /\ Flag(p, demos_completed) \in Nat
      BY DEF Flag
    <3>4. QED
      BY <1>3, <3>1, <3>2, <3>3 DEF InFlight
  <2>4. QED
    BY <1>3, <2>3 DEF Handshake
<1>4. CASE SchedulerStep
  <2>1. ASSUME NEW S \in SUBSET Proc, NEW R \in SUBSET Proc, Switch(S, R)
        PROVE  Handshake'
    BY <2>1, <1>3 DEF Switch, clientVars
  <2>2. ASSUME NEW p \in Proc, ChildTerminatedOrphans(p) PROVE Handshake'
    BY <2>2 DEF ChildTerminatedOrphans, Handshake, InFlight, clientVars
  <2>3. ASSUME NEW p \in Proc, NEW S \in SUBSET Proc, HandleEnd(p, S)
        PROVE  Handshake'
    BY <2>3, <1>3 DEF HandleEnd, clientVars
  <2>4. CASE KillAll
    BY <2>4 DEF KillAll, Handshake, InFlight
  <2>5. QED
    BY <1>2, <1>4, <2>1, <2>2, <2>3, <2>4 DEF SchedulerStep
<1>5. CASE UNCHANGED apiVars
  BY <1>5 DEF apiVars, clientVars, endVars, Handshake, InFlight
<1>6. QED
  BY <1>1, <1>4, <1>5 DEF ApiNext

\* No wakeup of demos_completed() is lost or granted twice, whatever the order
\* in which the scheduler suspends, resumes and kills processes.
THEOREM HandshakeHolds == ApiSpec => []Handshake
<1>1. ApiInit => ApiTypeOK /\ Handshake
  BY ApiTypeInit, HandshakeInit
<1>2. ApiTypeOK /\ Handshake /\ [ApiNext]_apiVars => (ApiTypeOK /\ Handshake)'
  BY ApiTypeStep, HandshakeStep
<1>3. QED
  BY <1>1, <1>2, PTL DEF ApiSpec

-------------------------------------------------------------------------------
(* The end of a process *)

\* Every step of the protocol preserves the reporting of exits.
LEMMA EndStep ==
    ASSUME ApiTypeOK, EndReported, [ApiNext]_apiVars PROVE EndReported'
<1>1. ASSUME NEW q \in Proc, ClientStep(q) PROVE EndReported'
  BY <1>1 DEF ApiTypeOK, EndReported, ClientStep, FreezeSettles,
       DemosCompleted, DemosInitializationCompleted, ReadNewPeriod, Exit,
       OrphansExit, Die, clientVars, endVars
<1>2. CASE SchedulerStep
  BY <1>2 DEF SchedulerStep, ApiTypeOK, EndReported, Completed, Switch,
       ChildTerminatedOrphans, HandleEnd, ChildExitReady, PopulatedReady,
       CgroupEmpty, KillAll, clientVars, endVars
<1>3. CASE UNCHANGED apiVars
  BY <1>3 DEF apiVars, clientVars, endVars, EndReported
<1>4. QED
  BY <1>1, <1>2, <1>3 DEF ApiNext

\* The end of a process is reported once, and only when its cgroup is empty.
THEOREM EndReportedHolds == ApiSpec => []EndReported
<1>1. ApiInit => ApiTypeOK /\ EndReported
  BY ApiTypeInit DEF ApiInit, EndReported
<1>2. ApiTypeOK /\ EndReported /\ [ApiNext]_apiVars => (ApiTypeOK /\ EndReported)'
  BY ApiTypeStep, EndStep
<1>3. QED
  BY <1>1, <1>2, PTL DEF ApiSpec

-------------------------------------------------------------------------------
(* The scheduler implements the protocol *)

\* A completion that the loop has collected but not handled is still unread:
\* completed_cb() is the only reader of the eventfd.
CompletionUnread ==
    \A p \in Proc : CompletedEv(p) \in pending => completed_w[p] > 0

\* Slice::start_next_process only resumes processes.
LEMMA StartNextSwitches ==
    ASSUME NEW s, NEW q, NEW cur, NEW comp, NEW ct, NEW S, NEW dc, NEW op0, NEW todo0,
           StartNextProcess(s, q, cur, comp, ct, S, dc, op0, todo0)
    PROVE  \E T, R \in SUBSET Proc : SuspendResume(T, R, dc)
<1>1. \E R \in SUBSET Proc : SuspendResume(S, R, dc)
  BY DEF StartNextProcess
<1>2. PICK R \in SUBSET Proc : SuspendResume(S, R, dc)
  BY <1>1
<1>3. SuspendResume(S \cap Proc, R, dc)
  BY <1>2 DEF SuspendResume
<1>4. QED
  BY <1>3

\* A handler that suspends and resumes processes and leaves the rest of the
\* protocol alone is a Switch of ProcessApi.
LEMMA IsSwitch ==
    ASSUME NEW S, NEW R \in SUBSET Proc, SuspendResume(S, R, demos_completed),
           UNCHANGED <<clientVars, completed_w, endVars>>
    PROVE  ApiNext
<1>1. SuspendResume(S \cap Proc, R, demos_completed)
  BY DEF SuspendResume
<1>2. Switch(S \cap Proc, R)
  BY <1>1 DEF Switch
<1>3. QED
  BY <1>2 DEF ApiNext, SchedulerStep

\* Every step of the scheduler is a step of the protocol or leaves it alone.
LEMMA StepRefines == ASSUME ApiTypeOK, CompletionUnread, [Next]_vars PROVE [ApiNext]_apiVars
<1>1. CASE Startup
  BY <1>1, ApiAssumption DEF Startup, ApiNext, SchedulerStep
<1>2. ASSUME NEW p \in Proc, CompletedIgnored(p) PROVE ApiNext
  BY <1>2 DEF CompletedIgnored, ApiNext, SchedulerStep
<1>3. ASSUME NEW p \in Proc, CompletedInit(p) PROVE ApiNext
  BY <1>3 DEF CompletedInit, ApiNext, SchedulerStep
<1>4. ASSUME NEW p \in Proc, NEW s \in Slice, CompletedInSlice(p, s) PROVE ApiNext
  <2>1. PICK T \in SUBSET Proc, R \in SUBSET Proc :
            SuspendResume(T, R, demos_completed \cup {p})
    BY <1>4, StartNextSwitches DEF CompletedInSlice, ScheduleNext
  <2>2. completed_w[p] > 0
    BY <1>4 DEF CompletedInSlice, Dispatch, CompletionUnread
  <2>3. Completed(p, T, R)
    BY <1>4, <2>1, <2>2 DEF CompletedInSlice, Completed
  <2>4. QED
    BY <2>3 DEF ApiNext, SchedulerStep
<1>5. ASSUME NEW p \in Proc, NEW s \in Slice, CompletedCrash(p, s) PROVE ApiNext
  BY <1>5 DEF CompletedCrash, ApiNext, SchedulerStep
<1>6. ASSUME NEW p \in Proc, ChildTerminatedButPopulated(p) PROVE ApiNext
  BY <1>6 DEF ChildTerminatedButPopulated, ApiNext, SchedulerStep
<1>7. ASSUME NEW p \in Proc, ProcessEnded(p) PROVE ApiNext
  BY <1>7 DEF ProcessEnded, ApiNext, SchedulerStep
<1>8. ASSUME NEW s \in Slice, SliceTimer(s) PROVE ApiNext
  <2>1. PICK T \in SUBSET Proc, R \in SUBSET Proc : SuspendResume(T, R, demos_completed)
    BY <1>8, StartNextSwitches DEF SliceTimer, ScheduleNext
  <2>2. QED
    BY <1>8, <2>1, IsSwitch DEF SliceTimer
<1>9. ASSUME NEW s, NEW q, NEW b, NEW op0, NEW todo0, StartPartition(s, q, b, op0, todo0),
             UNCHANGED <<clientVars, completed_w, endVars>>
      PROVE  ApiNext
  <2>1. PICK T \in SUBSET Proc, R \in SUBSET Proc : SuspendResume(T, R, demos_completed)
    BY <1>9, StartNextSwitches DEF StartPartition
  <2>2. QED
    BY <1>9, <2>1, IsSwitch
<1>10. ASSUME NEW s \in Slice, StartSc(s) \/ StartBe(s) PROVE [ApiNext]_apiVars
  BY <1>9, <1>10 DEF StartSc, StartBe
<1>11. ASSUME NEW s \in Slice, StopSlice(s) PROVE [ApiNext]_apiVars
  <2>1. CASE UNCHANGED <<freezer, efd_continue, demos_completed>>
    BY <1>11, <2>1 DEF StopSlice, apiVars
  <2>2. CASE SuspendResume({running_process[s]}, {}, demos_completed)
    BY <1>11, <2>2, IsSwitch DEF StopSlice
  <2>3. QED
    BY <1>11, <2>1, <2>2 DEF StopSlice
<1>12. CASE KillProcesses
  BY <1>12 DEF KillProcesses, ApiNext, SchedulerStep
<1>13. ASSUME NEW p \in Proc, Client(p) PROVE ApiNext
  BY <1>13 DEF Client, ApiNext
<1>14. CASE Poll \/ LoopReturns \/ ExitCheck \/ WindowTimer \/ RunTimer \/ Signal
            \/ StartDone \/ EnterNextWindow \/ BreakLoop \/ Tick \/ ReceiveSignal
  BY <1>14 DEF Poll, LoopReturns, ExitCheck, WindowTimer, RunTimer, Signal, StartDone,
       EnterNextWindow, BreakLoop, Tick, ReceiveSignal
<1>15. CASE UNCHANGED vars
  BY <1>15 DEF vars
<1>16. QED
  BY <1>1, <1>2, <1>3, <1>4, <1>5, <1>6, <1>7, <1>8, <1>10, <1>11, <1>12, <1>13,
     <1>14, <1>15 DEF Next, LoopStep, Over

\* The completion event of a process is no other event.
LEMMA EventsDiffer ==
    ASSUME NEW p, NEW r, NEW s
    PROVE  /\ CompletedEv(p) = CompletedEv(r) => p = r
           /\ CompletedEv(p) # ExitEv(r)
           /\ CompletedEv(p) # PopulatedEv(r)
           /\ CompletedEv(p) # SliceEv(s)
           /\ CompletedEv(p) \notin {WindowEv, RunTimerEv, SignalEv, StartupEv}
BY DEF CompletedEv, ExitEv, PopulatedEv, SliceEv, WindowEv, RunTimerEv, SignalEv, StartupEv

\* A poll reports a completion only while its eventfd is readable.
LEMMA ReadyCompletion ==
    ASSUME NEW p \in Proc, CompletedEv(p) \in Ready \cup {StartupEv}
    PROVE  completed_w[p] > 0
BY EventsDiffer DEF Ready

\* The completion eventfd of a process is emptied by one of three handlers,
\* each of which also takes the event out of the batch.
LEMMA CompletionUnreadStep ==
    ASSUME ApiTypeOK, CompletionUnread, [Next]_vars PROVE CompletionUnread'
<1>1. ASSUME NEW q \in Proc, completed_w' = [completed_w EXCEPT ![q] = 0],
             pending' \subseteq pending \ {CompletedEv(q)}
      PROVE  CompletionUnread'
  BY <1>1, EventsDiffer DEF CompletionUnread, ApiTypeOK, CompletedEv
<1>2. ASSUME completed_w' = completed_w, pending' \subseteq pending PROVE CompletionUnread'
  BY <1>2 DEF CompletionUnread, CompletedEv
<1>3. CASE Poll
  <2>1. completed_w' = completed_w /\ pending' \subseteq Ready \cup {StartupEv}
    BY <1>3 DEF Poll, apiVars
  <2>2. QED
    BY <2>1, ReadyCompletion DEF CompletionUnread, CompletedEv
<1>4. ASSUME NEW q \in Proc, Client(q) PROVE CompletionUnread'
  <2>1. /\ ApiTypeOK'
        /\ pending' = pending
        /\ \A p \in Proc : completed_w'[p] >= completed_w[p]
    BY <1>4, ClientType DEF Client, ClientStep, FreezeSettles, DemosCompleted,
       DemosInitializationCompleted, ReadNewPeriod, Exit, OrphansExit, Die, ApiTypeOK
  <2>2. QED
    BY <2>1 DEF CompletionUnread, ApiTypeOK, CompletedEv
<1>5. ASSUME NEW rest, NEW op0, OneInitLess(rest, op0) PROVE pending' \subseteq rest
  BY <1>5 DEF OneInitLess, FinishProcessInit, InitiateShutdown, MfStop
<1>6. ASSUME NEW q \in Proc, CompletedIgnored(q) PROVE CompletionUnread'
  BY <1>1, <1>6 DEF CompletedIgnored, Completed
<1>7. ASSUME NEW q \in Proc, CompletedInit(q) PROVE CompletionUnread'
  BY <1>1, <1>5, <1>7 DEF CompletedInit, Completed
<1>8. ASSUME NEW q \in Proc, NEW s \in Slice, CompletedInSlice(q, s) \/ CompletedCrash(q, s)
      PROVE  CompletionUnread'
  <2>1. pending' \subseteq pending \ {CompletedEv(q)}
    BY <1>8 DEF CompletedInSlice, CompletedCrash
  <2>2. completed_w' = [completed_w EXCEPT ![q] = 0]
    BY <1>8 DEF CompletedInSlice, CompletedCrash, Completed
  <2>3. QED
    BY <1>1, <2>1, <2>2
<1>9. ASSUME NEW q \in Proc, ChildTerminatedButPopulated(q) \/ ProcessEnded(q)
      PROVE  CompletionUnread'
  <2>1. completed_w' = completed_w
    BY <1>9 DEF ChildTerminatedButPopulated, ChildTerminatedOrphans, ProcessEnded, HandleEnd
  <2>2. pending' \subseteq pending
    BY <1>5, <1>9 DEF ChildTerminatedButPopulated, ProcessEnded
  <2>3. QED
    BY <1>2, <2>1, <2>2
<1>10. CASE Startup
  <2>1. completed_w' = completed_w
    BY <1>10 DEF Startup, Switch
  <2>2. pending' \subseteq pending
    BY <1>10 DEF Startup, FinishProcessInit, InitiateShutdown, MfStop
  <2>3. QED
    BY <1>2, <2>1, <2>2
<1>11. ASSUME NEW s \in Slice, SliceTimer(s) \/ StartSc(s) \/ StartBe(s) \/ StopSlice(s)
       PROVE  CompletionUnread'
  <2>1. completed_w' = completed_w
    BY <1>11 DEF SliceTimer, StartSc, StartBe, StopSlice, apiVars
  <2>2. pending' \subseteq pending
    BY <1>11 DEF SliceTimer, StartSc, StartBe, StopSlice
  <2>3. QED
    BY <1>2, <2>1, <2>2
<1>12. CASE LoopReturns \/ ExitCheck \/ WindowTimer \/ RunTimer \/ Signal
            \/ StartDone \/ EnterNextWindow \/ BreakLoop \/ KillProcesses \/ Tick
            \/ ReceiveSignal
  <2>1. completed_w' = completed_w
    BY <1>12 DEF LoopReturns, ExitCheck, WindowTimer, RunTimer, Signal, StartDone,
       EnterNextWindow, BreakLoop, KillProcesses, KillAll, Tick, ReceiveSignal, apiVars
  <2>2. pending' \subseteq pending
    BY <1>12 DEF LoopReturns, ExitCheck, WindowTimer, RunTimer, Signal, StartDone,
       EnterNextWindow, BreakLoop, KillProcesses, Tick, ReceiveSignal, MfStop,
       InitiateShutdown
  <2>3. QED
    BY <1>2, <2>1, <2>2
<1>13. CASE UNCHANGED vars
  BY <1>2, <1>13 DEF vars, apiVars
<1>14. QED
  BY <1>3, <1>4, <1>6, <1>7, <1>8, <1>9, <1>10, <1>11, <1>12, <1>13
     DEF Next, LoopStep, Over

\* The scheduler implements the process protocol: every handler, whatever it
\* finds in the batch, uses suspend(), resume() and kill() as ApiSpec says.
THEOREM SchedulerRefinesApi == Spec => ApiSpec
<1> DEFINE Inv == ApiTypeOK /\ CompletionUnread
<1>1. Init => ApiInit /\ Inv
  BY ApiTypeInit DEF Init, CompletionUnread
<1>2. Inv /\ [Next]_vars => Inv' /\ [ApiNext]_apiVars
  BY StepRefines, ApiTypeStep, CompletionUnreadStep
<1>3. QED
  BY <1>1, <1>2, PTL DEF Spec, ApiSpec

\* In the whole scheduler no wakeup of demos_completed() is lost or granted
\* twice, for every configuration and every timing.
THEOREM SchedulerHandshake == Spec => []Handshake
BY SchedulerRefinesApi, HandshakeHolds, PTL

\* In the whole scheduler the end of a process is reported once, and only when
\* its cgroup is empty.
THEOREM SchedulerEndReported == Spec => []EndReported
BY SchedulerRefinesApi, EndReportedHolds, PTL

-------------------------------------------------------------------------------
(* Facts about the configuration and the helpers *)

\* A process has a partition, and each partition slot of a slice holds one or is empty.
LEMMA AssignmentFacts ==
    /\ NoPartition \notin Partition
    /\ \A p \in Proc : PartOf[p] \in Partition
    /\ \A s \in Slice : s \notin {"null", "noop", "init"}
    /\ \A s \in Slice : Sc[s] # NoPartition => Sc[s] \in Partition
    /\ \A s \in Slice : Be[s] # NoPartition => Be[s] \in Partition
<1>1. /\ NoPartition \notin Partition /\ PartOf \in [Proc -> Partition]
      /\ Slice \cap {"null", "noop", "init"} = {}
      /\ Sc \in [Slice -> Partition \cup {NoPartition}]
      /\ Be \in [Slice -> Partition \cup {NoPartition}]
  BY SchedulerAssumption
<1>2. QED
  BY <1>1

\* The process list of a partition is a nonempty sequence of its processes.
LEMMA QueueFacts ==
    ASSUME NEW q \in Partition
    PROVE  /\ Processes[q] \in Seq(Proc)
           /\ Len(Processes[q]) \in Nat \ {0}
           /\ \A i \in 1 .. Len(Processes[q]) : PartOf[Processes[q][i]] = q
<1>1. /\ Processes[q] \in Seq(Proc)
      /\ Len(Processes[q]) > 0
      /\ \A i \in 1 .. Len(Processes[q]) : PartOf[Processes[q][i]] = q
  BY SchedulerAssumption
<1>2. Len(Processes[q]) \in Nat
  BY <1>1
<1>3. QED
  BY <1>1, <1>2

\* Windows are finite sets of slices, and NextWin stays within the major frame.
LEMMA WindowFacts ==
    ASSUME NEW w \in DOMAIN Windows
    PROVE  /\ Windows[w] \in SUBSET Slice
           /\ IsFiniteSet(Windows[w])
           /\ Cardinality(Windows[w]) \in Nat
           /\ Length[w] * TicksPerMs \in Int
           /\ NextWin(w) \in DOMAIN Windows
<1>1. Windows[w] \in SUBSET Slice /\ Length[w] \in Int /\ TicksPerMs \in Nat
  BY SchedulerAssumption
<1>2. IsFiniteSet(Windows[w])
  BY <1>1, SchedulerAssumption, FS_Subset
<1>3. Cardinality(Windows[w]) \in Nat
  BY <1>2, FS_CardinalityType
<1>4. NextWin(w) \in DOMAIN Windows
  BY SchedulerAssumption DEF NextWin
<1>5. QED
  BY <1>1, <1>2, <1>3, <1>4

\* A drawn budget (Process::get_actual_budget) is an integer.
LEMMA DrawType ==
    ASSUME PartTypeOK, NEW p \in Proc PROVE Draw(p) \in SUBSET Int
<1>1. /\ actual_budget[p] \in Int /\ Budget[p] \in Int
      /\ Jitter[p] \in Int /\ Jitter[p] \div 2 \in Int
  BY SchedulerAssumption DEF PartTypeOK
<1>2. \A j \in (-(Jitter[p] \div 2)) .. (Jitter[p] - Jitter[p] \div 2) : Budget[p] + j \in Int
  BY <1>1
<1>3. QED
  BY <1>1, <1>2 DEF Draw

\* Truncation to milliseconds yields an integer.
LEMMA ToMsType == ASSUME NEW t \in Int PROVE ToMs(t) \in Int
<1>1. TicksPerMs \in Nat \ {0}
  BY SchedulerAssumption
<1>2. t \div TicksPerMs \in Int /\ (-t) \div TicksPerMs \in Int
  BY <1>1
<1>3. QED
  BY <1>2 DEF ToMs

\* What Slice::start_next_process does: a process of the partition is started
\* together with the budget timer, or the slice is left idle and its timer
\* stopped.
Started(s, q, op0, todo0, ct) ==
    \E p \in Proc, x \in Int :
        /\ PartOf[p] = q
        /\ running_process' = [running_process EXCEPT ![s] = p]
        /\ timer' = timer \cup {s}
        /\ timeout' = [timeout EXCEPT ![s] = x]
        /\ ContinueWith(op0, todo0, ct)

Idled(s, q, op0, todo0, ct) ==
    /\ running_process' = [running_process EXCEPT ![s] = NoProc]
    /\ timer' = timer \ {s}
    /\ timeout' = [timeout EXCEPT ![s] = 0]
    /\ IF q = Sc[s] THEN SliceScEnd(op0, todo0, ct) ELSE ContinueWith(op0, todo0, ct)

\* Slice::start_next_process either starts a process of the partition or idles the
\* slice, reporting the end of an SC partition.
LEMMA StartNextOutcome ==
    ASSUME PartTypeOK, NEW s \in Slice, NEW q \in Partition,
           NEW cur \in 1 .. Len(Processes[q]), NEW comp \in SUBSET Proc, NEW ct \in Int,
           NEW S, NEW dc, NEW op0, NEW todo0,
           StartNextProcess(s, q, cur, comp, ct, S, dc, op0, todo0)
    PROVE  /\ completed' \in SUBSET Proc
           /\ actual_budget' \in [Proc -> Int]
           /\ current_proc' \in [Partition -> Nat \ {0}]
           /\ \A r \in Partition : current_proc'[r] =< Len(Processes[r])
           /\ Started(s, q, op0, todo0, ct) \/ Idled(s, q, op0, todo0, ct)
<1> DEFINE draw == [p \in Proc |-> Draw(p)]
<1>1. PICK o \in StartNext(Processes[q], cur, PendingProcs(comp), draw, NoProc) :
        /\ current_proc' = [current_proc EXCEPT ![q] = o.cur]
        /\ completed' = comp \cup o.skipped
        /\ running_process' = [running_process EXCEPT ![s] = o.proc]
        /\ \/ /\ o.proc \in Proc
              /\ timer' = timer \cup {s}
              /\ timeout' = [timeout EXCEPT ![s] = ct + o.budget * TicksPerMs]
              /\ actual_budget' = [actual_budget EXCEPT ![o.proc] = Budget[o.proc]]
              /\ ContinueWith(op0, todo0, ct)
           \/ /\ o.proc = NoProc
              /\ timer' = timer \ {s}
              /\ timeout' = [timeout EXCEPT ![s] = 0]
              /\ IF q = Sc[s] THEN SliceScEnd(op0, todo0, ct)
                              ELSE ContinueWith(op0, todo0, ct)
              /\ UNCHANGED actual_budget
  BY DEF StartNextProcess
<1>2. /\ cur \in Int /\ NoProc \notin Proc /\ TicksPerMs \in Int
      /\ Processes[q] \in Seq(Proc) /\ Len(Processes[q]) > 0
      /\ \A i \in 1 .. Len(Processes[q]) : PartOf[Processes[q][i]] = q
  <2>1. NoProc \notin Proc /\ TicksPerMs \in Int
    BY SchedulerAssumption
  <2>2. QED
    BY <2>1, QueueFacts
<1>3. \A p \in Proc : draw[p] \in SUBSET Int
  BY DrawType
<1> HIDE DEF draw
<1>4. /\ o.cur \in 1 .. Len(Processes[q])
      /\ o.skipped \subseteq Proc
      /\ \/ o.proc = NoProc
         \/ /\ \E i \in 1 .. Len(Processes[q]) : o.proc = Processes[q][i]
            /\ o.proc \in Proc
            /\ o.budget \in Int
  BY <1>1, <1>2, <1>3, OutcomeType
<1>5. completed' \in SUBSET Proc
  BY <1>1, <1>4
<1>6. actual_budget' \in [Proc -> Int]
  <2>1. actual_budget \in [Proc -> Int]
    BY DEF PartTypeOK
  <2>2. Budget \in [Proc -> Nat]
    BY SchedulerAssumption
  <2>3. QED
    BY <1>1, <2>1, <2>2
<1>7. /\ current_proc' \in [Partition -> Nat \ {0}]
      /\ \A r \in Partition : current_proc'[r] =< Len(Processes[r])
  BY <1>1, <1>4 DEF PartTypeOK
<1>8. CASE o.proc \in Proc
  <2>1. PartOf[o.proc] = q /\ o.proc # NoProc /\ ct + o.budget * TicksPerMs \in Int
    BY <1>2, <1>4, <1>8
  <2>2. Started(s, q, op0, todo0, ct)
    BY <1>1, <1>8, <2>1 DEF Started
  <2>3. QED
    BY <1>5, <1>6, <1>7, <2>2
<1>9. CASE o.proc = NoProc
  <2>1. Idled(s, q, op0, todo0, ct)
    BY <1>1, <1>2, <1>9 DEF Idled
  <2>2. QED
    BY <1>5, <1>6, <1>7, <2>1
<1>10. QED
  BY <1>4, <1>8, <1>9

-------------------------------------------------------------------------------
(* The budget timers and the phases of a window *)

\* Starting or idling a slice of the current window keeps BudgetTimer.
LEMMA OutcomeBudgetTimer ==
    ASSUME SliceTypeOK, BudgetTimer, NEW s \in Slice, s \in Windows[current_win],
           NEW q \in Partition, NEW op0, NEW todo0, NEW ct,
           Started(s, q, op0, todo0, ct) \/ Idled(s, q, op0, todo0, ct),
           running_partition' = [running_partition EXCEPT ![s] = q],
           current_win' = current_win
    PROVE  BudgetTimer' /\ SliceTypeOK'
<1>0. NoProc \notin Proc
  BY SchedulerAssumption
<1>1. CASE Started(s, q, op0, todo0, ct)
  BY <1>0, <1>1 DEF Started, SliceTypeOK, BudgetTimer
<1>2. CASE Idled(s, q, op0, todo0, ct)
  BY <1>0, <1>2 DEF Idled, SliceTypeOK, BudgetTimer
<1>3. QED
  BY <1>1, <1>2

\* One more slice has ended its SC partition: the counter follows, and it
\* reaches the number of slices exactly when all of them have.
LEMMA OneMore ==
    ASSUME NEW W, IsFiniteSet(W), NEW E \in SUBSET W, NEW s \in W, s \notin E
    PROVE  /\ Cardinality(E \cup {s}) = Cardinality(E) + 1
           /\ Cardinality(E) \in Nat
           /\ Cardinality(E) + 1 =< Cardinality(W)
           /\ Cardinality(E) + 1 = Cardinality(W) => E \cup {s} = W
<1>1. IsFiniteSet(E)
  BY FS_Subset
<1>2. Cardinality(E \cup {s}) = Cardinality(E) + 1 /\ Cardinality(E) \in Nat
  BY <1>1, FS_AddElement, FS_CardinalityType
<1>3. E \cup {s} \in SUBSET W
  OBVIOUS
<1>4. /\ Cardinality(E \cup {s}) =< Cardinality(W)
      /\ Cardinality(W) = Cardinality(E \cup {s}) => W = E \cup {s}
  BY <1>3, FS_Subset
<1>5. QED
  BY <1>2, <1>4

\* A step of the SC phase, in the loop that starts the slices (op0 = "startSc")
\* or in a later handler (op0 = "idle").
LEMMA ScPhaseStep ==
    ASSUME TypeOK, BudgetTimer, ScPhase, mf_timer,
           NEW s \in Windows[current_win], s \in todo \/ s \in timer,
           NEW op0 \in {"startSc", "idle"}, NEW todo0 \in SUBSET Windows[current_win],
           todo0 = todo \ {s}, op0 = "idle" => todo0 = {}, todo0 \cap timer = {},
           NEW ct,
           \/ timer' = timer \cup {s} /\ ContinueWith(op0, todo0, ct)
           \/ timer' = timer \ {s} /\ SliceScEnd(op0, todo0, ct),
           \A t \in timer' : running_partition'[t] = Sc[t],
           current_win' = current_win, mf_timer' = mf_timer,
           \A t \in Slice : SliceEv(t) \in pending' => t \in timer \ {s}
    PROVE  Phases' /\ finished_sc_partitions' \in Nat
                   /\ op' \in {"startSc", "startBe", "idle"}
                   /\ todo' \in SUBSET Windows[current_win']
<1> DEFINE W == Windows[current_win]
           E == ScEnded
           n == finished_sc_partitions
<1>1. /\ W \in SUBSET Slice /\ IsFiniteSet(W) /\ Cardinality(W) \in Nat /\ s \in Slice
      /\ n \in Nat /\ n = Cardinality(E) /\ E \in SUBSET W /\ s \notin E
      /\ timer \subseteq W /\ timer \in SUBSET Slice /\ s \in W
  BY WindowFacts DEF TypeOK, WindowTypeOK, SliceTypeOK, ScPhase, ScEnded, BudgetTimer
<1>2. /\ Cardinality(E \cup {s}) = n + 1 /\ n + 1 =< Cardinality(W)
      /\ n + 1 = Cardinality(W) => E \cup {s} = W
  <2> HIDE DEF W, E
  <2> QED BY <1>1, OneMore
<1>3. E = {t \in W : t \notin todo /\ t \notin timer}
  BY DEF ScEnded
<1>4. CASE timer' = timer \cup {s} /\ ContinueWith(op0, todo0, ct)
  <2>1. /\ timer' = timer \cup {s} /\ op' = op0 /\ todo' = todo0
        /\ finished_sc_partitions' = n
    BY <1>4 DEF ContinueWith
  <2>2. ScEnded' = E
    BY <1>1, <1>3, <2>1 DEF ScEnded
  <2>3. ScPhase'
    BY <1>1, <2>1, <2>2 DEF ScPhase
  <2>4. todo' \cap timer' = {}
    BY <2>1
  <2>5. n < Cardinality(W)
    BY <1>1, <1>2
  <2>6. QED
    BY <1>1, <2>1, <2>3, <2>4, <2>5 DEF Phases, Between, Total, SliceEv
<1>5. CASE timer' = timer \ {s} /\ SliceScEnd(op0, todo0, ct)
  <2>1. /\ timer' = timer \ {s}
        /\ SliceScEnd(op0, todo0, ct)
    BY <1>5
  <2>2. {t \in W : t \notin todo0 /\ t \notin timer'} = E \cup {s}
    BY <1>1, <1>3, <2>1
  <2>3. CASE n + 1 = Cardinality(W)
    <3>1. /\ op' = "startBe" /\ todo' = W /\ finished_sc_partitions' = n + 1
      BY <2>1, <2>3 DEF SliceScEnd, HasScFinished
    <3>2. timer' = {}
      BY <1>1, <1>2, <2>1, <2>2, <2>3
    <3>3. BePhase'
      BY <1>1, <2>3, <3>1, <3>2 DEF BePhase, Total
    <3>4. QED
      BY <1>1, <2>1, <3>1, <3>2, <3>3 DEF Phases, Between, SliceEv
  <2>4. CASE n + 1 # Cardinality(W)
    <3>1. /\ op' = op0 /\ todo' = todo0 /\ finished_sc_partitions' = n + 1
      BY <2>1, <2>4 DEF SliceScEnd, HasScFinished
    <3>2. ScEnded' = E \cup {s}
      BY <2>2, <3>1 DEF ScEnded
    <3>3. ScPhase'
      BY <1>2, <3>1, <3>2 DEF ScPhase
    <3>4. n + 1 < Cardinality(W)
      BY <1>1, <1>2, <2>4
    <3>5. QED
      BY <1>1, <2>1, <3>1, <3>3, <3>4 DEF Phases, Between, Total, SliceEv
  <2>5. QED
    BY <2>3, <2>4
<1>6. QED
  BY <1>4, <1>5

\* ScPhaseStep, for an outcome of start_next_process on the SC partition.
LEMMA ScOutcome ==
    ASSUME SliceTypeOK, ScPhase, NEW s \in Slice, NEW q, q = Sc[s], NEW op0, NEW todo0, NEW ct,
           Started(s, q, op0, todo0, ct) \/ Idled(s, q, op0, todo0, ct),
           running_partition' = [running_partition EXCEPT ![s] = q]
    PROVE  /\ \/ timer' = timer \cup {s} /\ ContinueWith(op0, todo0, ct)
              \/ timer' = timer \ {s} /\ SliceScEnd(op0, todo0, ct)
           /\ \A t \in timer' : running_partition'[t] = Sc[t]
BY DEF Started, Idled, ScPhase, SliceTypeOK

\* A step of the BE phase.
LEMMA BePhaseStep ==
    ASSUME TypeOK, BudgetTimer, BePhase, mf_timer,
           NEW s \in Windows[current_win],
           NEW q \in Partition, q = Be[s],
           NEW op0 \in {"startBe", "idle"}, NEW todo0 \in SUBSET Windows[current_win],
           todo0 = todo \ {s}, op0 = "idle" => todo0 = {}, todo0 \cap timer = {},
           NEW ct, Started(s, q, op0, todo0, ct) \/ Idled(s, q, op0, todo0, ct),
           running_partition' = [running_partition EXCEPT ![s] = q],
           current_win' = current_win, mf_timer' = mf_timer,
           \A t \in Slice : SliceEv(t) \in pending' => t \in timer \ {s}
    PROVE  Phases' /\ finished_sc_partitions' \in Nat
                   /\ op' \in {"startBe", "idle"}
                   /\ todo' \in SUBSET Windows[current_win']
<1>1. /\ Windows[current_win] \in SUBSET Slice /\ Total \in Nat /\ s \in Slice
      /\ finished_sc_partitions \in Nat /\ finished_sc_partitions >= Total
      /\ timer \in SUBSET Slice
  BY WindowFacts DEF TypeOK, WindowTypeOK, SliceTypeOK, BePhase, Total
<1>2. \A t \in timer' : running_partition'[t] = Be[t]
  BY <1>1 DEF Started, Idled, BePhase, TypeOK, SliceTypeOK
<1>3. ~HasScFinished(finished_sc_partitions + 1)
  BY <1>1 DEF HasScFinished, Total
<1>4. /\ op' = op0 /\ todo' = todo0
      /\ finished_sc_partitions' \in {finished_sc_partitions, finished_sc_partitions + 1}
  BY <1>3 DEF Started, Idled, SliceScEnd, ContinueWith
<1>5. finished_sc_partitions' \in Nat /\ finished_sc_partitions' >= Total'
  BY <1>1, <1>4 DEF Total
<1>6. BePhase'
  BY <1>2, <1>5 DEF BePhase
<1>7. ~(finished_sc_partitions' < Total')
  BY <1>1, <1>5 DEF Total
<1>8. timer \ {s} \subseteq timer' /\ todo0 \cap timer' = {}
  BY DEF Started, Idled
<1>9. QED
  BY <1>4, <1>5, <1>6, <1>7, <1>8 DEF Phases, Between, SliceEv

-------------------------------------------------------------------------------
(* The inductive invariant and the handlers *)

\* The types of the scheduler's own variables; ApiTypeOK is already proved.
SchedTypeOK == PartTypeOK /\ SliceTypeOK /\ WindowTypeOK /\ LoopTypeOK

Core == SchedTypeOK /\ BudgetTimer /\ Phases /\ StartOrder

\* Budget timer events are told apart by their slice, and from all other events.
LEMMA SliceEventsDiffer ==
    ASSUME NEW p, NEW r, NEW s
    PROVE  /\ SliceEv(s) = SliceEv(r) => s = r
           /\ SliceEv(s) # CompletedEv(p)
           /\ SliceEv(s) # ExitEv(p)
           /\ SliceEv(s) # PopulatedEv(p)
           /\ SliceEv(s) \notin {WindowEv, RunTimerEv, SignalEv, StartupEv}
           /\ {CompletedEv(p), ExitEv(p), PopulatedEv(p)}
                  \cap {WindowEv, RunTimerEv, SignalEv, StartupEv} = {}
           /\ WindowEv # StartupEv
           /\ {RunTimerEv, SignalEv} \cap {WindowEv, StartupEv} = {}
BY DEF CompletedEv, ExitEv, PopulatedEv, SliceEv, WindowEv, RunTimerEv, SignalEv, StartupEv

\* Everything a poll collects is an event; a budget timer or the window timer
\* is collected only while it is started, and startup only once.
LEMMA ReadyFacts ==
    ASSUME SliceTypeOK
    PROVE  /\ Ready \subseteq Event
           /\ \A s \in Slice : SliceEv(s) \in Ready => s \in timer
           /\ WindowEv \in Ready => mf_timer
           /\ StartupEv \notin Ready
           /\ StartupEv \in Event
<1>1. Ready \subseteq Event
  BY DEF Ready, Event, SliceTypeOK, CompletedEv, ExitEv, PopulatedEv, SliceEv, WindowEv,
     RunTimerEv, SignalEv
<1>2. \A s \in Slice : SliceEv(s) \in Ready => s \in timer
  BY SliceEventsDiffer DEF Ready
<1>3. StartupEv \notin Ready
  BY DEF Ready, CompletedEv, ExitEv, PopulatedEv, SliceEv, WindowEv, RunTimerEv, SignalEv,
     StartupEv
<1>4. WindowEv \in Ready => mf_timer
  BY DEF Ready, CompletedEv, ExitEv, PopulatedEv, SliceEv, WindowEv, RunTimerEv, SignalEv
<1>5. QED
  BY <1>1, <1>2, <1>3, <1>4 DEF Event, StartupEv

\* A handler that touches neither timers nor windows.
LEMMA QuietStep ==
    ASSUME Core, UNCHANGED <<partVars, sliceVars, winVars, initVars, runVars, ctlVars, histVars>>,
           signals' \in Nat, signal_pending' \in BOOLEAN,
           loop' \in {"boot", "run", "breaking", "stopped", "crashed"},
           loop' = "boot" => loop = "boot", pending' \subseteq pending
    PROVE  Core'
<1> USE DEF partVars, sliceVars, winVars, initVars, runVars, ctlVars, histVars
<1>1. SchedTypeOK'
  BY DEF Core, SchedTypeOK, PartTypeOK, SliceTypeOK, WindowTypeOK, LoopTypeOK
<1>2. BudgetTimer'
  BY DEF Core, BudgetTimer
<1>3. Phases'
  BY DEF Core, Phases, ScPhase, BePhase, ScEnded, Total, Between, SliceEv
<1>4. StartOrder'
  BY DEF Core, StartOrder, StartupEv, WindowEv
<1>5. QED
  BY <1>1, <1>2, <1>3, <1>4 DEF Core

\* Collecting a batch preserves the core of the invariant.
LEMMA PollStep == ASSUME Core, Poll PROVE Core'
<1> USE DEF partVars, sliceVars, winVars, initVars, runVars, sigVars, ctlVars, histVars
<1>1. /\ pending' \subseteq Ready \cup {StartupEv}
      /\ StartupEv \in pending' => loop = "boot"
      /\ loop' = "run"
  BY ReadyFacts DEF Poll, Core, SchedTypeOK
<1>2. SchedTypeOK'
  BY <1>1, ReadyFacts DEF Poll, Core, SchedTypeOK, PartTypeOK, SliceTypeOK, WindowTypeOK,
     LoopTypeOK
<1>3. BudgetTimer'
  BY DEF Poll, Core, BudgetTimer
<1>4. \A s \in Slice : SliceEv(s) \in pending' => s \in timer
  BY <1>1, ReadyFacts, SliceEventsDiffer DEF Core, SchedTypeOK
<1>5. Phases'
  BY <1>4 DEF Poll, Core, Phases, ScPhase, BePhase, ScEnded, Total, Between, SliceEv
<1>6. WindowEv \in pending' => mf_timer
  BY <1>1, ReadyFacts, SliceEventsDiffer DEF Core, SchedTypeOK
<1>7. StartOrder'
  BY <1>1, <1>6 DEF Poll, Core, StartOrder, StartupEv, WindowEv
<1>8. QED
  BY <1>2, <1>3, <1>5, <1>7 DEF Core

\* The passing of time preserves the core of the invariant.
LEMMA TickStep == ASSUME Core, Tick PROVE Core'
<1> USE DEF partVars, initVars, sigVars, ctlVars
<1>1. SchedTypeOK'
  BY DEF Tick, Core, SchedTypeOK, PartTypeOK, SliceTypeOK, WindowTypeOK, LoopTypeOK
<1>2. BudgetTimer'
  BY DEF Tick, Core, BudgetTimer
<1>3. Phases'
  BY DEF Tick, Core, Phases, ScPhase, BePhase, ScEnded, Total, Between, SliceEv
<1>4. StartOrder'
  BY DEF Tick, Core, StartOrder, StartupEv, WindowEv
<1>5. QED
  BY <1>1, <1>2, <1>3, <1>4 DEF Core

\* MajorFrame::start, when no slice is running.
LEMMA MfStartFacts ==
    ASSUME SliceTypeOK, BudgetTimer, timer = {}, UNCHANGED sliceVars,
           NEW w \in DOMAIN Windows, NEW ct \in Int, MfStart(w, ct),
           \A s \in Slice : SliceEv(s) \notin pending'
    PROVE  WindowTypeOK' /\ SliceTypeOK' /\ BudgetTimer' /\ Phases'
<1>1. /\ current_win' = w /\ op' = "startSc" /\ todo' = Windows[w] /\ ctime' = ct
      /\ mf_timer' = TRUE /\ mf_timeout' = ct + Length[w] * TicksPerMs
      /\ finished_sc_partitions' = 0 /\ timer' = {}
      /\ running_process' = running_process /\ running_partition' = running_partition
      /\ timeout' = timeout
  BY DEF MfStart, sliceVars
<1>2. mf_timeout' \in Int
  BY <1>1, WindowFacts
<1>3. WindowTypeOK' /\ SliceTypeOK'
  BY <1>1, <1>2 DEF WindowTypeOK, SliceTypeOK
<1>4. BudgetTimer'
  BY <1>1 DEF BudgetTimer
<1>5. ScEnded' = {}
  BY <1>1 DEF ScEnded
<1>6. ScPhase'
  BY <1>1, <1>5, FS_EmptySet DEF ScPhase
<1>7. QED
  BY <1>1, <1>3, <1>4, <1>6 DEF Phases, Between, SliceEv

\* MajorFrame::stop and the beginning of MajorFrame::timeout_cb.
LEMMA MfStopFacts ==
    ASSUME SliceTypeOK, WindowTypeOK, BudgetTimer, Phases, UNCHANGED sliceVars,
           mf_timer' = FALSE, mf_timeout' = 0, op' = "stop", todo' = SlicesToStop,
           ctime' \in Int, pending' \subseteq pending,
           UNCHANGED <<current_win, finished_sc_partitions>>
    PROVE  WindowTypeOK' /\ SliceTypeOK' /\ BudgetTimer' /\ Phases'
<1> USE DEF sliceVars
<1>1. WindowTypeOK' /\ SliceTypeOK'
  <2>1. mf_timer' \in BOOLEAN
    OBVIOUS
  <2>2. mf_timeout' \in Int
    OBVIOUS
  <2>3. todo' \subseteq Windows[current_win']
    BY DEF SlicesToStop
  <2>4. QED
    BY <2>1, <2>2, <2>3 DEF WindowTypeOK, SliceTypeOK
<1>2. BudgetTimer'
  BY DEF BudgetTimer
<1>3. timer' \subseteq todo'
  BY DEF BudgetTimer, SlicesToStop, SliceTypeOK
<1>4. QED
  BY <1>1, <1>2, <1>3 DEF Phases, Between, SliceEv

\* initiate_shutdown, from any handler.
LEMMA InitiateShutdownFacts ==
    ASSUME SliceTypeOK, WindowTypeOK, LoopTypeOK, BudgetTimer, Phases, UNCHANGED sliceVars,
           NEW rest, rest \subseteq pending, InitiateShutdown(rest)
    PROVE  /\ WindowTypeOK' /\ SliceTypeOK' /\ BudgetTimer' /\ Phases'
           /\ stopreq' \in {"no", "early", "late"}
           /\ pending' \subseteq rest /\ WindowEv \notin pending'
           /\ op' = "stop" /\ after' = "kill" /\ ~mf_timer' /\ timer' = timer
           /\ started' = started
<1>1. /\ mf_timer' = FALSE /\ mf_timeout' = 0 /\ pending' = rest \ {WindowEv}
      /\ op' = "stop" /\ todo' = SlicesToStop /\ ctime' = 0 /\ after' = "kill"
      /\ UNCHANGED <<current_win, finished_sc_partitions, started>>
      /\ stopreq' \in {stopreq, "late", "early"}
  BY DEF InitiateShutdown, MfStop
<1>2. WindowTypeOK' /\ SliceTypeOK' /\ BudgetTimer' /\ Phases'
  <2>1. ctime' \in Int /\ pending' \subseteq pending
    BY <1>1
  <2>2. QED
    BY <1>1, <2>1, MfStopFacts
<1>3. QED
  BY <1>1, <1>2 DEF LoopTypeOK, sliceVars

\* finish_process_init and start_scheduler, while the scheduler is not started.
LEMMA FinishFacts ==
    ASSUME SchedTypeOK, BudgetTimer, Phases, UNCHANGED sliceVars,
           ~started, timer = {}, loop # "boot", loop' = loop,
           NEW rest, rest \subseteq pending, StartupEv \notin rest, FinishProcessInit(rest)
    PROVE  /\ WindowTypeOK' /\ SliceTypeOK' /\ BudgetTimer' /\ Phases' /\ StartOrder'
           /\ exit_cb' = "normal" /\ completed_cb' = [q \in Partition |-> "noop"]
           /\ run_timer' \in BOOLEAN /\ run_timeout' \in Int
           /\ pending' \subseteq rest /\ after' \in {after, "kill"}
           /\ started' \in BOOLEAN /\ stopreq' \in {"no", "early", "late"}
<1>1. /\ exit_cb' = "normal" /\ completed_cb' = [q \in Partition |-> "noop"]
      /\ timer' = {}
  BY DEF FinishProcessInit, sliceVars
<1>2. CASE InitiateShutdown(rest) /\ UNCHANGED runVars
  <2>1. /\ WindowTypeOK' /\ SliceTypeOK' /\ BudgetTimer' /\ Phases'
        /\ stopreq' \in {"no", "early", "late"}
        /\ pending' \subseteq rest /\ WindowEv \notin pending'
        /\ op' = "stop" /\ after' = "kill" /\ ~mf_timer' /\ started' = started
    BY <1>2, InitiateShutdownFacts DEF SchedTypeOK
  <2>2. StartOrder'
    BY <1>1, <2>1 DEF StartOrder, StartupEv, WindowEv
  <2>3. run_timer' \in BOOLEAN /\ run_timeout' \in Int /\ started' \in BOOLEAN
    BY <1>2, <2>1 DEF runVars, SchedTypeOK, LoopTypeOK
  <2>4. QED
    BY <1>1, <2>1, <2>2, <2>3
<1>3. CASE /\ MfStart(current_win, 0)
           /\ run_timer' = (run_timeout > 0)
           /\ started' = TRUE
           /\ pending' = rest
           /\ UNCHANGED <<run_timeout, after, stopreq>>
  <2>1. \A s \in Slice : SliceEv(s) \notin pending'
    BY <1>3 DEF Phases, SliceEv
  <2>2. current_win \in DOMAIN Windows /\ 0 \in Int
    BY DEF SchedTypeOK, WindowTypeOK
  <2>3. WindowTypeOK' /\ SliceTypeOK' /\ BudgetTimer' /\ Phases'
    BY <1>3, <2>1, <2>2, MfStartFacts DEF SchedTypeOK
  <2>4. run_timer' \in BOOLEAN
    BY <1>3
  <2>5. run_timeout' \in Int
    BY <1>3 DEF SchedTypeOK, LoopTypeOK
  <2>6. StartOrder'
    BY <1>1, <1>3 DEF StartOrder, StartupEv, WindowEv
  <2>7. started' \in BOOLEAN /\ stopreq' \in {"no", "early", "late"}
    BY <1>3 DEF SchedTypeOK, LoopTypeOK
  <2>8. QED
    BY <1>1, <1>3, <2>3, <2>4, <2>5, <2>6, <2>7
<1>4. QED
  BY <1>2, <1>3 DEF FinishProcessInit


\* startup_fn preserves the core of the invariant.
LEMMA StartupStep == ASSUME Core, Startup PROVE Core'
<1>1. /\ UNCHANGED <<actual_budget, sliceVars, sigVars, loop, exit_check>>
      /\ completed' = {} /\ current_proc' = [q \in Partition |-> 1]
      /\ cpus' = [q \in Partition |-> FindWidestCpuSet(q)]
      /\ remaining_process_inits' = Cardinality(HasInit)
      /\ StartupEv \in pending /\ loop # "boot" /\ op = "idle"
  BY DEF Startup, InitsStarted, ctlVars, Dispatch
<1>2. remaining_process_inits' \in Int
  <2>1. IsFiniteSet(HasInit)
    BY ApiAssumption, SchedulerAssumption, FS_Subset
  <2>2. QED
    BY <1>1, <2>1, FS_CardinalityType
<1>3. ~started /\ timer = {}
  BY <1>1 DEF Core, StartOrder
<1>4. /\ completed' \in SUBSET Proc /\ actual_budget' \in [Proc -> Int]
      /\ current_proc' \in [Partition -> Nat \ {0}]
      /\ \A q \in Partition : current_proc'[q] =< Len(Processes[q])
      /\ DOMAIN cpus' = Partition
  BY <1>1, QueueFacts DEF Core, SchedTypeOK, PartTypeOK
<1>5. CASE /\ exit_cb' = "init"
           /\ completed_cb' = [q \in Partition |-> "init"]
           /\ pending' = pending \ {StartupEv}
           /\ UNCHANGED <<winVars, runVars, ctlVars, histVars>>
  <2> USE DEF sliceVars, sigVars, winVars, runVars, ctlVars, histVars
  <2>1. SchedTypeOK'
    BY <1>1, <1>2, <1>4, <1>5 DEF Core, SchedTypeOK, PartTypeOK, SliceTypeOK, WindowTypeOK,
       LoopTypeOK
  <2>2. BudgetTimer'
    BY <1>1, <1>5 DEF Core, BudgetTimer
  <2>3. Phases'
    BY <1>1, <1>5 DEF Core, Phases, ScPhase, BePhase, ScEnded, Total, Between, SliceEv
  <2>4. StartOrder'
    BY <1>1, <1>3, <1>5 DEF Core, StartOrder, StartupEv, WindowEv
  <2>5. QED
    BY <2>1, <2>2, <2>3, <2>4 DEF Core
<1>6. CASE FinishProcessInit(pending \ {StartupEv})
  <2> DEFINE rest == pending \ {StartupEv}
  <2>1. /\ WindowTypeOK' /\ SliceTypeOK' /\ BudgetTimer' /\ Phases' /\ StartOrder'
        /\ exit_cb' = "normal" /\ completed_cb' = [q \in Partition |-> "noop"]
        /\ run_timer' \in BOOLEAN /\ run_timeout' \in Int
        /\ pending' \subseteq rest /\ after' \in {after, "kill"}
        /\ started' \in BOOLEAN /\ stopreq' \in {"no", "early", "late"}
    BY <1>1, <1>3, <1>6, FinishFacts DEF Core
  <2>2. PartTypeOK' /\ LoopTypeOK'
    BY <1>1, <1>2, <1>4, <2>1 DEF Core, SchedTypeOK, PartTypeOK, LoopTypeOK, sigVars
  <2>3. QED
    BY <2>1, <2>2 DEF Core, SchedTypeOK
<1>7. QED
  BY <1>5, <1>6 DEF Startup

\* One initialization less: process_init_completion_cb and process_init_exit_cb.
LEMMA OneInitLessStep ==
    ASSUME Core, exit_cb = "init", op = "idle", loop # "boot",
           NEW e, NEW op0 \in {"idle", "exit"}, OneInitLess(pending \ {e}, op0),
           exit_check' \in BOOLEAN,
           UNCHANGED <<completed, actual_budget, current_proc, cpus, sliceVars, sigVars, loop>>
    PROVE  Core'
<1> DEFINE rest == pending \ {e}
<1>1. /\ ~started /\ timer = {} /\ StartupEv \notin pending
      /\ remaining_process_inits' \in Int
  BY DEF Core, StartOrder, OneInitLess, SchedTypeOK, LoopTypeOK
<1>2. CASE FinishProcessInit(rest)
  <2>1. /\ WindowTypeOK' /\ SliceTypeOK' /\ BudgetTimer' /\ Phases' /\ StartOrder'
        /\ exit_cb' = "normal" /\ completed_cb' = [q \in Partition |-> "noop"]
        /\ run_timer' \in BOOLEAN /\ run_timeout' \in Int
        /\ pending' \subseteq rest /\ after' \in {after, "kill"}
        /\ started' \in BOOLEAN /\ stopreq' \in {"no", "early", "late"}
    BY <1>1, <1>2, FinishFacts DEF Core
  <2>2. PartTypeOK' /\ LoopTypeOK'
    BY <1>1, <2>1 DEF Core, SchedTypeOK, PartTypeOK, LoopTypeOK, sigVars
  <2>3. QED
    BY <2>1, <2>2 DEF Core, SchedTypeOK
<1>3. CASE /\ pending' = rest
           /\ op' = op0
           /\ UNCHANGED <<exit_cb, completed_cb, winVars, runVars, todo, ctime,
                          after, histVars>>
  <2> USE DEF sliceVars, sigVars, winVars, runVars, histVars
  <2>1. SchedTypeOK'
    BY <1>1, <1>3 DEF Core, SchedTypeOK, PartTypeOK, SliceTypeOK, WindowTypeOK, LoopTypeOK
  <2>2. BudgetTimer'
    BY <1>3 DEF Core, BudgetTimer
  <2>3. Phases'
    BY <1>3 DEF Core, Phases, ScPhase, BePhase, ScEnded, Total, Between, SliceEv
  <2>4. StartOrder'
    BY <1>1, <1>3 DEF Core, StartOrder, StartupEv, WindowEv
  <2>5. QED
    BY <2>1, <2>2, <2>3, <2>4 DEF Core
<1>4. QED
  BY <1>2, <1>3 DEF OneInitLess

\* process_init_completion_cb preserves the core of the invariant.
LEMMA CompletedInitStep == ASSUME Core, NEW p \in Proc, CompletedInit(p) PROVE Core'
<1>1. /\ exit_cb = "init" /\ op = "idle" /\ loop # "boot"
  BY SchedulerAssumption DEF Core, StartOrder, CompletedInit, Dispatch
<1>2. exit_check' \in BOOLEAN
  BY DEF CompletedInit, Core, SchedTypeOK, LoopTypeOK
<1>3. QED
  BY <1>1, <1>2, OneInitLessStep DEF CompletedInit

\* handle_end and the exit callbacks preserve the core of the invariant.
LEMMA ProcessEndedStep == ASSUME Core, NEW p \in Proc, ProcessEnded(p) PROVE Core'
<1>1. PICK e \in {ExitEv(p), PopulatedEv(p)} :
        /\ Dispatch(e)
        /\ \/ /\ CountsAsInitialized(p)
              /\ OneInitLess(pending \ {e}, "exit")
              /\ exit_check' = (remaining_process_inits' = 0)
           \/ /\ pending' = pending \ {e}
              /\ op' = "exit"
              /\ UNCHANGED <<completed_cb, winVars, initVars, runVars, todo,
                             ctime, after, exit_check, histVars>>
        /\ UNCHANGED <<completed, actual_budget, current_proc, cpus, sliceVars,
                       sigVars, loop>>
  BY DEF ProcessEnded
<1>2. op = "idle" /\ loop # "boot"
  BY <1>1 DEF Dispatch
<1>3. CASE /\ CountsAsInitialized(p)
           /\ OneInitLess(pending \ {e}, "exit")
           /\ exit_check' = (remaining_process_inits' = 0)
  <2>1. exit_check' \in BOOLEAN
    BY <1>3
  <2>2. QED
    BY <1>1, <1>2, <1>3, <2>1, OneInitLessStep DEF CountsAsInitialized
<1>4. CASE /\ pending' = pending \ {e}
           /\ op' = "exit"
           /\ UNCHANGED <<completed_cb, winVars, initVars, runVars, todo,
                          ctime, after, exit_check, histVars>>
  <2> USE DEF sliceVars, sigVars, winVars, initVars, runVars, histVars
  <2>1. SchedTypeOK'
    BY <1>1, <1>4 DEF Core, SchedTypeOK, PartTypeOK, SliceTypeOK, WindowTypeOK, LoopTypeOK
  <2>2. BudgetTimer'
    BY <1>1, <1>4 DEF Core, BudgetTimer
  <2>3. Phases'
    BY <1>1, <1>2, <1>4 DEF Core, Phases, ScPhase, BePhase, ScEnded, Total, Between, SliceEv
  <2>4. StartOrder'
    BY <1>1, <1>4 DEF Core, StartOrder, StartupEv, WindowEv
  <2>5. QED
    BY <2>1, <2>2, <2>3, <2>4 DEF Core
<1>5. QED
  BY <1>1, <1>3, <1>4

\* Slice::schedule_next on a slice that runs a process.
LEMMA ScheduleNextStep ==
    ASSUME TypeOK, BudgetTimer, Phases, StartOrder, op = "idle", NEW s \in timer,
           NEW ct \in Int, NEW dc, ScheduleNext(s, ct, dc),
           pending' \subseteq pending \ {SliceEv(s)},
           UNCHANGED <<current_win, mf_timeout, mf_timer, initVars,
                       runVars, sigVars, loop, after, exit_check, histVars>>
    PROVE  Core'
<1> DEFINE p == running_process[s]
           q == running_partition[s]
<1>1. /\ s \in Slice /\ p \in Proc /\ q \in Partition /\ s \in Windows[current_win]
      /\ q \in {Sc[s], Be[s]} /\ mf_timer /\ todo = {}
      /\ current_proc[q] \in 1 .. Len(Processes[q])
  <2>1. s \in Slice /\ p \in Proc /\ PartOf[p] = q /\ s \in Windows[current_win]
    BY DEF TypeOK, SliceTypeOK, BudgetTimer
  <2>2. q \in Partition
    BY <2>1, SchedulerAssumption
  <2>3. q \in {Sc[s], Be[s]} /\ mf_timer /\ todo = {}
    BY DEF Phases, Between, ScPhase, BePhase
  <2>4. current_proc[q] \in 1 .. Len(Processes[q])
    BY <2>2, QueueFacts DEF TypeOK, PartTypeOK
  <2>5. QED
    BY <2>1, <2>2, <2>3, <2>4
<1>2. /\ completed' \in SUBSET Proc
      /\ actual_budget' \in [Proc -> Int]
      /\ current_proc' \in [Partition -> Nat \ {0}]
      /\ \A r \in Partition : current_proc'[r] =< Len(Processes[r])
      /\ Started(s, q, "idle", {}, ct) \/ Idled(s, q, "idle", {}, ct)
  <2>1. completed \cup {p} \in SUBSET Proc
    BY <1>1 DEF TypeOK, PartTypeOK
  <2>2. StartNextProcess(s, q, current_proc[q], completed \cup {p}, ct, {p}, dc, "idle", {})
    BY DEF ScheduleNext
  <2> HIDE DEF p, q
  <2>3. QED
    BY <1>1, <2>1, <2>2, StartNextOutcome DEF TypeOK
<1>3. /\ running_partition' = [running_partition EXCEPT ![s] = q]
      /\ UNCHANGED <<cpus, completed_cb>>
  BY DEF ScheduleNext, TypeOK, SliceTypeOK
<1>4. BudgetTimer' /\ SliceTypeOK'
  BY <1>1, <1>2, <1>3, OutcomeBudgetTimer DEF TypeOK
<1>5. \A t \in Slice : SliceEv(t) \in pending' => t \in timer \ {s}
  BY SliceEventsDiffer DEF Phases
<1>6. /\ Phases' /\ finished_sc_partitions' \in Nat
      /\ op' \in {"startSc", "startBe", "idle"}
      /\ todo' \in SUBSET Windows[current_win']
  <2>1. /\ {} \in SUBSET Windows[current_win] /\ {} = todo \ {s}
        /\ {} \cap timer = {}
    BY <1>1
  <2>2. CASE ScPhase
    <3>1. q = Sc[s]
      BY <2>2 DEF ScPhase
    <3>2. /\ \/ timer' = timer \cup {s} /\ ContinueWith("idle", {}, ct)
             \/ timer' = timer \ {s} /\ SliceScEnd("idle", {}, ct)
          /\ \A t \in timer' : running_partition'[t] = Sc[t]
      BY <1>1, <1>2, <1>3, <2>2, <3>1, ScOutcome DEF TypeOK
    <3>3. QED
      BY <1>1, <1>5, <2>1, <2>2, <3>2, ScPhaseStep
  <2>3. CASE BePhase
    <3>1. q = Be[s]
      BY <2>3 DEF BePhase
    <3>2. QED
      BY <1>1, <1>2, <1>3, <1>5, <2>1, <2>3, <3>1, BePhaseStep
  <2>4. QED
    BY <1>1, <2>2, <2>3 DEF Phases, Between
<1>7. ctime' \in Int
  BY <1>2 DEF Started, Idled, SliceScEnd, ContinueWith
<1>8. SchedTypeOK'
  BY <1>2, <1>3, <1>4, <1>6, <1>7 DEF TypeOK, SchedTypeOK, PartTypeOK, WindowTypeOK,
     LoopTypeOK, initVars, runVars, sigVars, histVars
<1>9. StartOrder'
  BY <1>3 DEF StartOrder, StartupEv, WindowEv, initVars, histVars
<1>10. QED
  BY <1>4, <1>6, <1>8, <1>9 DEF Core

\* Slice::start_partition for a slice that does not run yet.
LEMMA StartPartitionStep ==
    ASSUME TypeOK, BudgetTimer, Phases, StartOrder,
           NEW s \in todo, NEW q \in Partition, NEW b, NEW op0,
           \/ op = "startSc" /\ op0 = "startSc" /\ q = Sc[s]
           \/ op = "startBe" /\ op0 = "startBe" /\ q = Be[s],
           StartPartition(s, q, b, op0, todo \ {s}),
           UNCHANGED <<current_win, mf_timeout, mf_timer, initVars, runVars, sigVars,
                       loop, pending, after, exit_check, histVars>>
    PROVE  Core'
<1> DEFINE cur == IF b THEN 1 ELSE current_proc[q]
           comp == {p \in completed : PartOf[p] # q}
           todo0 == todo \ {s}
<1>1. /\ s \in Windows[current_win] /\ s \in Slice /\ s \notin timer /\ mf_timer
      /\ todo \cap timer = {} /\ started
  BY WindowFacts DEF TypeOK, WindowTypeOK, Phases, StartOrder
<1>2. /\ completed' \in SUBSET Proc
      /\ actual_budget' \in [Proc -> Int]
      /\ current_proc' \in [Partition -> Nat \ {0}]
      /\ \A r \in Partition : current_proc'[r] =< Len(Processes[r])
      /\ Started(s, q, op0, todo0, ctime) \/ Idled(s, q, op0, todo0, ctime)
  <2>1. StartNextProcess(s, q, cur, comp, ctime, {}, demos_completed, op0, todo0)
    BY DEF StartPartition
  <2>2. cur \in 1 .. Len(Processes[q])
    BY QueueFacts DEF TypeOK, PartTypeOK
  <2>3. comp \in SUBSET Proc /\ ctime \in Int
    BY DEF TypeOK, PartTypeOK, WindowTypeOK
  <2> HIDE DEF cur, comp, todo0
  <2>4. QED
    BY <1>1, <2>1, <2>2, <2>3, StartNextOutcome DEF TypeOK
<1>3. /\ running_partition' = [running_partition EXCEPT ![s] = q]
      /\ completed_cb' = [completed_cb EXCEPT ![q] = s]
      /\ DOMAIN cpus' = DOMAIN cpus
  BY DEF StartPartition, SetCpus
<1>4. BudgetTimer' /\ SliceTypeOK'
  BY <1>1, <1>2, <1>3, OutcomeBudgetTimer DEF TypeOK
<1>5. \A t \in Slice : SliceEv(t) \in pending' => t \in timer \ {s}
  BY <1>1, SliceEventsDiffer DEF Phases
<1>6. /\ Phases' /\ finished_sc_partitions' \in Nat
      /\ op' \in {"startSc", "startBe", "idle"}
      /\ todo' \in SUBSET Windows[current_win']
  <2>1. /\ todo0 \in SUBSET Windows[current_win] /\ todo0 \cap timer = {}
    BY <1>1 DEF TypeOK, WindowTypeOK
  <2>2. CASE op = "startSc" /\ op0 = "startSc" /\ q = Sc[s]
    <3>1. ScPhase
      BY <2>2 DEF Phases
    <3>2. /\ \/ timer' = timer \cup {s} /\ ContinueWith(op0, todo0, ctime)
             \/ timer' = timer \ {s} /\ SliceScEnd(op0, todo0, ctime)
          /\ \A t \in timer' : running_partition'[t] = Sc[t]
      BY <1>1, <1>2, <1>3, <2>2, <3>1, ScOutcome DEF TypeOK
    <3>3. QED
      BY <1>1, <1>5, <2>1, <2>2, <3>1, <3>2, ScPhaseStep
  <2>3. CASE op = "startBe" /\ op0 = "startBe" /\ q = Be[s]
    <3>1. BePhase
      BY <2>3 DEF Phases
    <3>2. QED
      BY <1>1, <1>2, <1>3, <1>5, <2>1, <2>3, <3>1, BePhaseStep
  <2>4. QED
    BY <2>2, <2>3
<1>7. ctime' \in Int
  BY <1>2 DEF Started, Idled, SliceScEnd, ContinueWith, TypeOK, WindowTypeOK
<1>8. completed_cb' \in [Partition -> {"null", "noop", "init"} \cup Slice]
  BY <1>1, <1>3 DEF TypeOK, PartTypeOK
<1>9. SchedTypeOK'
  BY <1>2, <1>3, <1>4, <1>6, <1>7, <1>8 DEF TypeOK, SchedTypeOK, PartTypeOK, WindowTypeOK,
     LoopTypeOK, initVars, runVars, sigVars, histVars
<1>10. \A r \in Partition : completed_cb'[r] = "init" => completed_cb[r] = "init"
  <2>1. s # "init"
    BY <1>1, AssignmentFacts
  <2>2. QED
    BY <1>3, <2>1 DEF TypeOK, PartTypeOK
<1>11. StartOrder'
  BY <1>1, <1>10 DEF StartOrder, StartupEv, WindowEv, initVars, histVars
<1>12. QED
  BY <1>4, <1>6, <1>9, <1>11 DEF Core

\* Slice::start_sc preserves the core of the invariant.
LEMMA StartScStep ==
    ASSUME TypeOK, BudgetTimer, Phases, StartOrder, NEW s \in Slice, StartSc(s) PROVE Core'
<1>1. CASE Sc[s] # NoPartition
  <2>1. Sc[s] \in Partition
    BY <1>1, AssignmentFacts
  <2>2. QED
    BY <1>1, <2>1, StartPartitionStep DEF StartSc
<1>2. CASE Sc[s] = NoPartition
  <2>1. /\ op = "startSc" /\ s \in todo
        /\ SliceScEnd("startSc", todo \ {s}, ctime)
        /\ UNCHANGED <<partVars, sliceVars>>
        /\ UNCHANGED <<current_win, mf_timeout, mf_timer, initVars, runVars, sigVars,
                       loop, pending, after, exit_check, histVars>>
    BY <1>2 DEF StartSc
  <2> USE DEF partVars, sliceVars
  <2>2. /\ s \in Windows[current_win] /\ s \notin timer /\ mf_timer /\ started
        /\ todo \cap timer = {} /\ ScPhase /\ timer' = timer \ {s}
        /\ todo \ {s} \in SUBSET Windows[current_win]
        /\ \A t \in timer' : running_partition'[t] = Sc[t]
    BY <2>1 DEF TypeOK, WindowTypeOK, Phases, StartOrder, ScPhase
  <2>3. \A t \in Slice : SliceEv(t) \in pending' => t \in timer \ {s}
    BY <2>1, <2>2 DEF Phases, SliceEv
  <2>4. /\ Phases' /\ finished_sc_partitions' \in Nat
        /\ op' \in {"startSc", "startBe", "idle"}
        /\ todo' \in SUBSET Windows[current_win']
    BY <2>1, <2>2, <2>3, ScPhaseStep
  <2>5. BudgetTimer'
    BY <2>1 DEF BudgetTimer
  <2>6. ctime' \in Int
    BY <2>1 DEF SliceScEnd, TypeOK, WindowTypeOK
  <2>7. SchedTypeOK'
    BY <2>1, <2>4, <2>6 DEF TypeOK, SchedTypeOK, PartTypeOK, SliceTypeOK, WindowTypeOK,
       LoopTypeOK, initVars, runVars, sigVars, histVars
  <2>8. StartOrder'
    BY <2>1, <2>2 DEF StartOrder, StartupEv, WindowEv, initVars, histVars
  <2>9. QED
    BY <2>4, <2>5, <2>7, <2>8 DEF Core
<1>3. QED
  BY <1>1, <1>2

\* Slice::start_be preserves the core of the invariant.
LEMMA StartBeStep ==
    ASSUME TypeOK, BudgetTimer, Phases, StartOrder, NEW s \in Slice, StartBe(s) PROVE Core'
<1>1. CASE Be[s] # NoPartition
  <2>1. Be[s] \in Partition
    BY <1>1, AssignmentFacts
  <2>2. QED
    BY <1>1, <2>1, StartPartitionStep DEF StartBe
<1>2. CASE Be[s] = NoPartition
  <2>1. /\ op = "startBe" /\ s \in todo /\ todo' = todo \ {s}
        /\ UNCHANGED <<partVars, sliceVars, winVars, op, ctime>>
        /\ UNCHANGED <<initVars, runVars, sigVars, loop, pending, after, exit_check, histVars>>
    BY <1>2 DEF StartBe, winVars
  <2> USE DEF partVars, sliceVars, winVars, initVars, runVars, sigVars, histVars
  <2>2. SchedTypeOK'
    BY <2>1 DEF TypeOK, SchedTypeOK, PartTypeOK, SliceTypeOK, WindowTypeOK, LoopTypeOK
  <2>3. BudgetTimer'
    BY <2>1 DEF BudgetTimer
  <2>4. Phases'
    BY <2>1 DEF Phases, BePhase, Total, Between, SliceEv
  <2>5. StartOrder'
    BY <2>1 DEF StartOrder, StartupEv, WindowEv
  <2>6. QED
    BY <2>2, <2>3, <2>4, <2>5 DEF Core
<1>3. QED
  BY <1>1, <1>2

\* The end of the loops over the slices preserves the core of the invariant.
LEMMA StartDoneStep == ASSUME Core, StartDone PROVE Core'
<1> USE DEF partVars, sliceVars, winVars, initVars, runVars, sigVars, histVars
<1>1. /\ op \in {"startSc", "startBe"} /\ todo = {} /\ op' \in {"idle", "exit"}
      /\ ctime' = 0 /\ exit_check' = FALSE
      /\ UNCHANGED <<partVars, sliceVars, winVars, initVars, runVars, sigVars,
                     loop, pending, todo, after, histVars>>
  BY DEF StartDone, Return
<1>2. SchedTypeOK'
  <2>1. exit_check' \in BOOLEAN
    BY <1>1
  <2>2. QED
    BY <1>1, <2>1 DEF Core, SchedTypeOK, PartTypeOK, SliceTypeOK, WindowTypeOK, LoopTypeOK
<1>3. BudgetTimer'
  BY <1>1 DEF Core, BudgetTimer
<1>4. StartOrder'
  BY <1>1 DEF Core, StartOrder, StartupEv, WindowEv
<1>5. IF finished_sc_partitions < Total THEN ScPhase ELSE BePhase
  <2> DEFINE W == Windows[current_win]
  <2>1. /\ IsFiniteSet(W) /\ Cardinality(W) \in Nat /\ finished_sc_partitions \in Nat
        /\ timer \subseteq W
    BY WindowFacts DEF Core, SchedTypeOK, WindowTypeOK, SliceTypeOK, BudgetTimer
  <2>2. CASE op = "startBe"
    BY <2>1, <2>2 DEF Core, Phases, BePhase, Total
  <2>3. CASE op = "startSc" /\ finished_sc_partitions < Total
    BY <2>3 DEF Core, Phases
  <2>4. CASE op = "startSc" /\ ~(finished_sc_partitions < Total)
    <3>1. finished_sc_partitions = Cardinality(ScEnded) /\ ScEnded \in SUBSET W
      BY <2>4 DEF Core, Phases, ScPhase, ScEnded
    <3>2. Cardinality(ScEnded) =< Cardinality(W)
      BY <2>1, <3>1, FS_Subset
    <3>3. Cardinality(W) = Cardinality(ScEnded)
      BY <2>1, <2>4, <3>1, <3>2 DEF Total
    <3>4. W = ScEnded
      BY <2>1, <3>1, <3>3, FS_Subset
    <3>5. timer = {}
      BY <2>1, <3>4 DEF ScEnded
    <3>6. QED
      BY <2>1, <2>4, <3>5 DEF BePhase, Total
  <2>5. QED
    BY <1>1, <2>2, <2>3, <2>4
<1>6. mf_timer
  BY <1>1 DEF Core, Phases
<1>7. Phases'
  BY <1>1, <1>5, <1>6 DEF Core, Phases, ScPhase, BePhase, ScEnded, Total, Between, SliceEv
<1>8. QED
  BY <1>2, <1>3, <1>4, <1>7 DEF Core

\* MajorFrame::stop from a handler, followed by kill_all or break_loop.
LEMMA StopStep ==
    ASSUME Core, UNCHANGED <<partVars, sliceVars, initVars, loop, exit_check>>,
           mf_timer' = FALSE, mf_timeout' = 0, op' = "stop", todo' = SlicesToStop,
           ctime' \in Int, pending' \subseteq pending,
           UNCHANGED <<current_win, finished_sc_partitions, started>>,
           stopreq' \in {"no", "early", "late"}, signals' \in Nat,
           signal_pending' \in BOOLEAN, run_timer' \in BOOLEAN, run_timeout' \in Int,
           after' \in {"next", "kill", "break"}, after' = "next" => WindowEv \in pending
    PROVE  Core'
<1> USE DEF partVars, initVars
<1>1. WindowTypeOK' /\ SliceTypeOK' /\ BudgetTimer' /\ Phases'
  BY MfStopFacts DEF Core, SchedTypeOK
<1>2. PartTypeOK' /\ LoopTypeOK'
  BY DEF Core, SchedTypeOK, PartTypeOK, LoopTypeOK
<1>3. timer' = timer
  BY DEF sliceVars
<1>4. StartOrder'
  BY <1>3 DEF Core, StartOrder, StartupEv, WindowEv
<1>5. QED
  BY <1>1, <1>2, <1>4 DEF Core, SchedTypeOK

\* The window timer, the run timeout and the signals preserve the core.
LEMMA TimerSignalStep ==
    ASSUME Core, WindowTimer \/ RunTimer \/ Signal PROVE Core'
<1>0. /\ mf_timeout \in Int /\ run_timer \in BOOLEAN /\ run_timeout \in Int
      /\ signals \in Nat /\ signal_pending \in BOOLEAN
      /\ stopreq \in {"no", "early", "late"} /\ 0 \in Int
  BY DEF Core, SchedTypeOK, WindowTypeOK, LoopTypeOK
<1>1. CASE WindowTimer
  <2>1. ctime' \in Int /\ WindowEv \in pending /\ pending' \subseteq pending
    BY <1>0, <1>1 DEF WindowTimer, WindowStopTime, Dispatch
  <2>2. QED
    BY <1>0, <1>1, <2>1, StopStep DEF WindowTimer, histVars, runVars, sigVars
<1>2. ASSUME NEW rest, rest \subseteq pending, InitiateShutdown(rest)
      PROVE  /\ mf_timer' = FALSE /\ mf_timeout' = 0 /\ op' = "stop" /\ todo' = SlicesToStop
             /\ ctime' \in Int /\ pending' \subseteq pending
             /\ UNCHANGED <<current_win, finished_sc_partitions, started>>
             /\ stopreq' \in {"no", "early", "late"}
             /\ after' = "kill"
  BY <1>0, <1>2 DEF InitiateShutdown, MfStop
<1>3. CASE RunTimer
  <2>1. InitiateShutdown(pending \ {RunTimerEv})
    BY <1>3 DEF RunTimer
  <2>2. run_timer' \in BOOLEAN
    BY <1>3 DEF RunTimer
  <2>3. run_timeout' \in Int /\ signals' \in Nat /\ signal_pending' \in BOOLEAN
    BY <1>0, <1>3 DEF RunTimer, sigVars
  <2>4. UNCHANGED <<partVars, sliceVars, initVars, loop, exit_check>>
    BY <1>3 DEF RunTimer
  <2>5. QED
    BY <1>2, <2>1, <2>2, <2>3, <2>4, StopStep
<1>4. CASE Signal
  <2>1. InitiateShutdown(pending \ {SignalEv})
    BY <1>4 DEF Signal
  <2>2. signal_pending' \in BOOLEAN
    BY <1>4 DEF Signal
  <2>3. signals' \in Nat /\ run_timer' \in BOOLEAN /\ run_timeout' \in Int
    BY <1>0, <1>4 DEF Signal, runVars
  <2>4. UNCHANGED <<partVars, sliceVars, initVars, loop, exit_check>>
    BY <1>4 DEF Signal
  <2>5. QED
    BY <1>2, <2>1, <2>2, <2>3, <2>4, StopStep
<1>5. QED
  BY <1>1, <1>3, <1>4

\* process_exit_cb and completion_cb preserve the core of the invariant.
LEMMA ExitCheckStep == ASSUME Core, ExitCheck PROVE Core'
<1> USE DEF partVars, sliceVars, winVars, initVars, runVars, sigVars, histVars
<1>1. CASE MfStop("break", pending)
  <2>1. /\ ctime' \in Int /\ pending' \subseteq pending
        /\ stopreq' \in {"no", "early", "late"} /\ signals' \in Nat
        /\ signal_pending' \in BOOLEAN /\ run_timer' \in BOOLEAN /\ run_timeout' \in Int
    BY <1>1 DEF ExitCheck, MfStop, Core, SchedTypeOK, LoopTypeOK
  <2>2. QED
    BY <1>1, <2>1, StopStep DEF ExitCheck, MfStop
<1>2. CASE op' = "idle" /\ UNCHANGED <<winVars, pending, todo, ctime, after>>
  <2>1. SchedTypeOK'
    BY <1>2 DEF ExitCheck, Core, SchedTypeOK, PartTypeOK, SliceTypeOK, WindowTypeOK, LoopTypeOK
  <2>2. BudgetTimer'
    BY <1>2 DEF ExitCheck, Core, BudgetTimer
  <2>3. Phases'
    BY <1>2 DEF ExitCheck, Core, Phases, ScPhase, BePhase, ScEnded, Total, Between, SliceEv
  <2>4. StartOrder'
    BY <1>2 DEF ExitCheck, Core, StartOrder, StartupEv, WindowEv
  <2>5. QED
    BY <2>1, <2>2, <2>3, <2>4 DEF Core
<1>3. QED
  BY <1>1, <1>2 DEF ExitCheck

\* Slice::stop
LEMMA StopSliceStep == ASSUME Core, NEW s \in Slice, StopSlice(s) PROVE Core'
<1> DEFINE p == running_process[s]
           q == running_partition[s]
<1>1. /\ op = "stop" /\ s \in todo /\ todo' = todo \ {s} /\ timer' = timer \ {s}
      /\ timeout' = [timeout EXCEPT ![s] = 0]
      /\ running_process' = [running_process EXCEPT ![s] = NoProc]
      /\ pending' = pending \ {SliceEv(s)}
      /\ completed_cb' = [r \in Partition |-> IF r \in {Sc[s], Be[s]} THEN "noop"
                                              ELSE completed_cb[r]]
      /\ UNCHANGED <<cpus, running_partition, current_win, mf_timeout, mf_timer, initVars,
                     runVars, sigVars, loop, op, ctime, after, exit_check, histVars>>
  BY DEF StopSlice
<1>2. p # NoProc => p \in Proc /\ q \in Partition /\ Remaining(s) \in Int
  <2>1. p # NoProc => p \in Proc /\ q \in Partition
    BY SchedulerAssumption DEF Core, SchedTypeOK, SliceTypeOK, BudgetTimer
  <2>2. timeout[s] - ctime \in Int
    BY DEF Core, SchedTypeOK, SliceTypeOK, WindowTypeOK
  <2>3. Remaining(s) \in Int
    BY <2>2, ToMsType DEF Remaining
  <2>4. QED
    BY <2>1, <2>3
<1>3. completed' \in SUBSET Proc /\ actual_budget' \in [Proc -> Int]
  BY <1>2 DEF StopSlice, Core, SchedTypeOK, PartTypeOK
<1>4. /\ current_proc' \in [Partition -> Nat \ {0}]
      /\ \A r \in Partition : current_proc'[r] =< Len(Processes[r])
  <2>1. CASE current_proc' = current_proc
    BY <2>1 DEF Core, SchedTypeOK, PartTypeOK
  <2>2. CASE /\ p # NoProc
             /\ current_proc' = [current_proc EXCEPT ![q] =
                   SeekPending(Processes[q], @, PendingProcs(completed \cup {p}))]
    <3>1. q \in Partition /\ current_proc[q] \in Int /\ Len(Processes[q]) \in Nat \ {0}
      BY <1>2, <2>2, QueueFacts DEF Core, SchedTypeOK, PartTypeOK
    <3>2. SeekPending(Processes[q], current_proc[q], PendingProcs(completed \cup {p}))
            \in 1 .. Len(Processes[q])
      BY <3>1, SeekType
    <3>3. PICK c \in 1 .. Len(Processes[q]) : current_proc' = [current_proc EXCEPT ![q] = c]
      BY <2>2, <3>2
    <3>4. c \in Nat \ {0} /\ c =< Len(Processes[q])
      BY <3>1, <3>3
    <3>5. QED
      BY <3>1, <3>3, <3>4 DEF Core, SchedTypeOK, PartTypeOK
  <2>3. QED
    BY <2>1, <2>2 DEF StopSlice
<1>5. completed_cb' \in [Partition -> {"null", "noop", "init"} \cup Slice]
  BY <1>1 DEF Core, SchedTypeOK, PartTypeOK
<1>6. PartTypeOK'
  BY <1>1, <1>3, <1>4, <1>5 DEF Core, SchedTypeOK, PartTypeOK
<1>7. SliceTypeOK'
  BY <1>1 DEF Core, SchedTypeOK, SliceTypeOK
<1>8. WindowTypeOK'
  <2>1. finished_sc_partitions' \in Nat
    BY DEF StopSlice, Core, SchedTypeOK, WindowTypeOK
  <2>2. QED
    BY <1>1, <2>1 DEF Core, SchedTypeOK, WindowTypeOK
<1>9. LoopTypeOK'
  BY <1>1 DEF Core, SchedTypeOK, LoopTypeOK, initVars, runVars, sigVars, histVars
<1>10. BudgetTimer'
  BY <1>1 DEF Core, SchedTypeOK, SliceTypeOK, BudgetTimer
<1>11. Phases'
  BY <1>1, SliceEventsDiffer DEF Core, Phases, Between, SliceEv
<1>12. StartOrder'
  BY <1>1 DEF Core, StartOrder, StartupEv, WindowEv, initVars, histVars
<1>13. QED
  BY <1>6, <1>7, <1>8, <1>9, <1>10, <1>11, <1>12 DEF Core, SchedTypeOK

\* The rest of MajorFrame::timeout_cb preserves the core of the invariant.
LEMMA EnterNextWindowStep == ASSUME Core, EnterNextWindow PROVE Core'
<1> USE DEF partVars, initVars, runVars, sigVars, histVars
<1>1. timer = {} /\ started
  BY DEF EnterNextWindow, Core, Phases, StartOrder
<1>2. \A s \in Slice : SliceEv(s) \notin pending'
  BY <1>1 DEF EnterNextWindow, Core, Phases, SliceEv
<1>3. NextWin(current_win) \in DOMAIN Windows /\ ctime \in Int
  BY WindowFacts DEF Core, SchedTypeOK, WindowTypeOK
<1>4. WindowTypeOK' /\ SliceTypeOK' /\ BudgetTimer' /\ Phases'
  BY <1>1, <1>2, <1>3, MfStartFacts DEF EnterNextWindow, Core, SchedTypeOK
<1>5. PartTypeOK' /\ LoopTypeOK'
  BY DEF EnterNextWindow, Core, SchedTypeOK, PartTypeOK, LoopTypeOK
<1>6. StartOrder'
  BY <1>1 DEF EnterNextWindow, Core, StartOrder, StartupEv, WindowEv
<1>7. QED
  BY <1>4, <1>5, <1>6 DEF Core, SchedTypeOK

\* The end of a stop: nothing is running any more.
LEMMA StoppedStep == ASSUME Core, KillProcesses \/ BreakLoop PROVE Core'
<1> USE DEF partVars, sliceVars, winVars, initVars, runVars, sigVars, histVars
<1>1. /\ op = "stop" /\ todo = {} /\ op' \in {"idle", "exit"}
      /\ ctime' = 0 /\ exit_check' = FALSE /\ after' = "none" /\ loop' \in {loop, "breaking"}
      /\ UNCHANGED <<partVars, sliceVars, winVars, initVars, runVars, sigVars,
                     pending, todo, histVars>>
  BY DEF KillProcesses, BreakLoop, Return
<1>2. timer = {}
  BY <1>1 DEF Core, Phases
<1>3. SchedTypeOK'
  <2>1. exit_check' \in BOOLEAN
    BY <1>1
  <2>2. QED
    BY <1>1, <2>1 DEF Core, SchedTypeOK, PartTypeOK, SliceTypeOK, WindowTypeOK, LoopTypeOK
<1>4. BudgetTimer'
  BY <1>1 DEF Core, BudgetTimer
<1>5. Phases'
  <2>1. ~mf_timer
    BY <1>1 DEF Core, Phases
  <2>2. QED
    BY <1>1, <1>2, <2>1 DEF Core, Phases, Between, SliceEv
<1>6. StartOrder'
  BY <1>1 DEF Core, StartOrder, StartupEv, WindowEv
<1>7. QED
  BY <1>3, <1>4, <1>5, <1>6 DEF Core

\* Handlers that only move the protocol along.
LEMMA QuietHandlers ==
    ASSUME Core, \/ LoopReturns \/ ReceiveSignal \/ UNCHANGED vars
                 \/ \E p \in Proc : \/ Client(p) \/ CompletedIgnored(p)
                                    \/ ChildTerminatedButPopulated(p)
                                    \/ \E s \in Slice : CompletedCrash(p, s)
    PROVE  Core'
<1>1. /\ signals \in Nat /\ signal_pending \in BOOLEAN
      /\ loop \in {"boot", "run", "breaking", "stopped", "crashed"}
  BY DEF Core, SchedTypeOK, LoopTypeOK
<1>2. UNCHANGED <<partVars, sliceVars, winVars, initVars, runVars, ctlVars, histVars>>
  BY DEF LoopReturns, ReceiveSignal, vars, Client, CompletedIgnored,
     ChildTerminatedButPopulated, CompletedCrash
<1>3. /\ loop' \in {loop, "stopped", "crashed"} /\ pending' \subseteq pending
  BY DEF LoopReturns, ReceiveSignal, vars, Client, CompletedIgnored,
     ChildTerminatedButPopulated, CompletedCrash
<1>4. CASE ReceiveSignal
  <2>1. signals' \in Nat
    BY <1>1, <1>4 DEF ReceiveSignal
  <2>2. signal_pending' \in BOOLEAN
    BY <1>4 DEF ReceiveSignal
  <2>3. QED
    BY <1>1, <1>2, <1>3, <2>1, <2>2, QuietStep
<1>5. CASE UNCHANGED sigVars
  <2>1. signals' \in Nat /\ signal_pending' \in BOOLEAN
    BY <1>1, <1>5 DEF sigVars
  <2>2. QED
    BY <1>1, <1>2, <1>3, <2>1, QuietStep
<1>6. QED
  BY <1>4, <1>5 DEF LoopReturns, vars, Client, CompletedIgnored,
     ChildTerminatedButPopulated, CompletedCrash

\* A completion reported to a slice preserves the core of the invariant.
LEMMA CompletedInSliceStep ==
    ASSUME TypeOK, Core, NEW p \in Proc, NEW s \in Slice, CompletedInSlice(p, s) PROVE Core'
<1>1. op = "idle" /\ s \in timer /\ 0 \in Int
  BY DEF CompletedInSlice, Dispatch, Core, BudgetTimer
<1>2. QED
  BY <1>1, ScheduleNextStep DEF CompletedInSlice, Core

\* The budget timer of a slice preserves the core of the invariant.
LEMMA SliceTimerStep ==
    ASSUME TypeOK, Core, NEW s \in Slice, SliceTimer(s) PROVE Core'
<1>1. op = "idle" /\ s \in timer /\ timeout[s] \in Int
  BY DEF SliceTimer, Dispatch, Core, Phases, TypeOK, SliceTypeOK
<1>2. QED
  BY <1>1, ScheduleNextStep DEF SliceTimer, Core

-------------------------------------------------------------------------------
(* The theorems *)

IInv == TypeOK /\ BudgetTimer /\ Phases /\ StartOrder /\ CompletionUnread

\* The inductive invariant holds initially.
LEMMA InitIInv == Init => IInv
<1> SUFFICES ASSUME Init PROVE IInv
  OBVIOUS
<1>1. ApiTypeOK
  BY ApiTypeInit DEF Init
<1>2. PartTypeOK
  <2>1. actual_budget \in [Proc -> Int]
    BY SchedulerAssumption DEF Init
  <2>2. \A q \in Partition : current_proc[q] =< Len(Processes[q])
    BY QueueFacts DEF Init
  <2>3. QED
    BY <2>1, <2>2 DEF Init, PartTypeOK
<1>3. SliceTypeOK
  BY DEF Init, SliceTypeOK
<1>4. WindowTypeOK
  <2>1. 1 \in DOMAIN Windows
    BY SchedulerAssumption
  <2>2. mf_timer \in BOOLEAN
    BY DEF Init
  <2>3. QED
    BY <2>1, <2>2 DEF Init, WindowTypeOK
<1>5. LoopTypeOK
  <2>1. /\ run_timer \in BOOLEAN /\ signal_pending \in BOOLEAN /\ exit_check \in BOOLEAN
        /\ started \in BOOLEAN
    BY DEF Init
  <2>2. signals \in Nat
    BY SchedulerAssumption DEF Init
  <2>3. run_timeout \in Int
    <3>1. PICK t \in Timeouts : run_timeout = t * TicksPerMs
      BY DEF Init
    <3>2. t \in Int /\ TicksPerMs \in Int
      BY SchedulerAssumption
    <3>3. QED
      BY <3>1, <3>2
  <2>4. QED
    BY <2>1, <2>2, <2>3 DEF Init, LoopTypeOK
<1>6. BudgetTimer
  BY DEF Init, BudgetTimer
<1>7. Phases
  BY DEF Init, Phases, Between
<1>8. StartOrder
  BY DEF Init, StartOrder
<1>9. CompletionUnread
  BY DEF Init, CompletionUnread
<1>10. QED
  BY <1>1, <1>2, <1>3, <1>4, <1>5, <1>6, <1>7, <1>8, <1>9 DEF IInv, TypeOK

\* Every step preserves the inductive invariant.
LEMMA NextIInv == ASSUME IInv, [Next]_vars PROVE IInv'
<1>1. TypeOK /\ Core /\ BudgetTimer /\ Phases /\ StartOrder
  BY DEF IInv, TypeOK, Core, SchedTypeOK
<1>2. ApiTypeOK' /\ CompletionUnread'
  BY StepRefines, ApiTypeStep, CompletionUnreadStep DEF IInv, TypeOK
<1>3. Core'
  <2>1. CASE LoopStep
    BY <1>1, <2>1, PollStep, StartupStep, QuietHandlers, CompletedInitStep,
       CompletedInSliceStep, ProcessEndedStep, SliceTimerStep, StartScStep, StartBeStep,
       StopSliceStep, ExitCheckStep, TimerSignalStep, StartDoneStep, EnterNextWindowStep,
       StoppedStep DEF LoopStep
  <2>2. CASE Tick
    BY <1>1, <2>2, TickStep
  <2>3. CASE ReceiveSignal \/ (\E p \in Proc : Client(p)) \/ UNCHANGED vars
    BY <1>1, <2>3, QuietHandlers
  <2>4. QED
    BY <2>1, <2>2, <2>3 DEF Next, Over
<1>4. QED
  BY <1>2, <1>3 DEF IInv, TypeOK, Core, SchedTypeOK

\* The inductive invariant holds in every reachable state.
LEMMA Invariance == Spec => []IInv
BY InitIInv, NextIInv, PTL DEF Spec

\* The variables of the scheduler keep their types: in particular the queue of
\* a partition always points at a process and the window index at a window.
THEOREM TypeCorrect == Spec => []TypeOK
<1>1. IInv => TypeOK
  BY DEF IInv
<1>2. QED
  BY <1>1, Invariance, PTL

\* A slice runs a process exactly while its budget timer is started, the slice
\* belongs to the current window and the process to the slice's partition.
THEOREM BudgetTimerHolds == Spec => []BudgetTimer
<1>1. IInv => BudgetTimer
  BY DEF IInv
<1>2. QED
  BY <1>1, Invariance, PTL

\* The SC and BE phases of a window do not overlap, finished_sc_partitions is
\* exact, and a stopped window leaves no budget timer and no event of one.
THEOREM PhasesHold == Spec => []Phases
<1>1. IInv => Phases
  BY DEF IInv
<1>2. QED
  BY <1>1, Invariance, PTL

\* The major frame is started at most once and nothing runs before.
THEOREM StartOrderHolds == Spec => []StartOrder
<1>1. IInv => StartOrder
  BY DEF IInv
<1>2. QED
  BY <1>1, Invariance, PTL
===============================================================================
