------------------------------ MODULE TimingProofs ------------------------------
(***************************************************************************)
(* CPUs, budgets and the clock: where a running process is placed, how     *)
(* much time it is given and when windows change.                          *)
(***************************************************************************)
EXTENDS SchedulerProofs

-------------------------------------------------------------------------------
(* The CPUs of the running processes *)

\* No two slices of a window are given the same SC or the same BE partition.
PartitionsApart ==
    \A w \in DOMAIN Windows : \A s, t \in Windows[w] :
        s # t => /\ Sc[s] = Sc[t] => Sc[s] = NoPartition
                 /\ Be[s] = Be[t] => Be[s] = NoPartition

\* Slice::start_next_process touches nothing but its own slice.
LEMMA OwnSlice ==
    ASSUME SliceTypeOK, NEW s \in Slice, NEW q, NEW cur, NEW comp, NEW ct, NEW S, NEW dc,
           NEW op0, NEW todo0, StartNextProcess(s, q, cur, comp, ct, S, dc, op0, todo0)
    PROVE  \A t \in Slice \ {s} : /\ running_process'[t] = running_process[t]
                                  /\ timeout'[t] = timeout[t]
                                  /\ t \in timer' <=> t \in timer
BY DEF StartNextProcess, SliceTypeOK

\* Starting a partition moves it to the CPUs of its slice, and no other partition
\* that is running in the window.
LEMMA StartPartitionCpus ==
    ASSUME PartitionsApart, IInv, CpuPlacement, IInv', NEW s \in todo, NEW q \in Partition,
           NEW b, NEW op0, NEW todo0,
           \/ op = "startSc" /\ q = Sc[s]
           \/ op = "startBe" /\ q = Be[s],
           StartPartition(s, q, b, op0, todo0), UNCHANGED current_win
    PROVE  CpuPlacement'
<1>1. /\ s \in Windows[current_win] /\ s \in Slice /\ q # NoPartition
      /\ current_win \in DOMAIN Windows
      /\ Windows[current_win] \subseteq Slice
      /\ cpus' = [cpus EXCEPT ![q] = Cpus[s]] /\ DOMAIN cpus = Partition
      /\ running_partition' = [running_partition EXCEPT ![s] = q]
      /\ running_partition \in [Slice -> Partition \cup {NoPartition}]
  BY WindowFacts, SchedulerAssumption DEF IInv, TypeOK, WindowTypeOK, PartTypeOK, SliceTypeOK,
     StartPartition, SetCpus
<1>2. \A t \in Slice \ {s} : running_process'[t] = running_process[t]
  BY <1>1, OwnSlice DEF StartPartition, IInv, TypeOK
<1>3. ASSUME NEW t \in Slice, t # s, running_process'[t] # NoProc
      PROVE  cpus'[PartOf[running_process'[t]]] = Cpus[t]
  <2>1. /\ running_process[t] # NoProc /\ t \in timer /\ t \in Windows[current_win]
        /\ PartOf[running_process[t]] = running_partition[t]
        /\ running_process[t] = running_process'[t]
    BY <1>2, <1>3 DEF IInv, BudgetTimer
  <2>2. \/ running_partition[t] = Sc[t] /\ op = "startSc" /\ q = Sc[s]
        \/ running_partition[t] = Be[t] /\ op = "startBe" /\ q = Be[s]
    BY <2>1 DEF IInv, Phases, ScPhase, BePhase
  <2>3. running_partition[t] # q
    BY <1>1, <1>3, <2>1, <2>2 DEF PartitionsApart
  <2>4. running_partition[t] \in Partition
    <3>1. running_process[t] \in Proc
      BY <2>1 DEF IInv, TypeOK, SliceTypeOK
    <3>2. QED
      BY <2>1, <3>1, AssignmentFacts
  <2>5. QED
    BY <1>1, <2>1, <2>3, <2>4 DEF CpuPlacement
<1>4. running_process'[s] # NoProc => PartOf[running_process'[s]] = q
  BY <1>1 DEF IInv, BudgetTimer
<1>5. QED
  BY <1>1, <1>3, <1>4 DEF CpuPlacement

\* Every step keeps the running processes on the CPUs of their slices.
LEMMA CpuPlacementStep ==
    ASSUME PartitionsApart, IInv, CpuPlacement, [Next]_vars PROVE CpuPlacement'
<1>0. IInv'
  BY NextIInv
<1>1. ASSUME UNCHANGED <<cpus, running_process>> PROVE CpuPlacement'
  BY <1>1 DEF CpuPlacement
<1>2. ASSUME NEW s \in Slice, StartSc(s) \/ StartBe(s) PROVE CpuPlacement'
  <2>1. CASE UNCHANGED <<partVars, sliceVars>>
    BY <1>1, <2>1 DEF partVars, sliceVars
  <2>2. CASE /\ op = "startSc" /\ s \in todo /\ Sc[s] # NoPartition /\ UNCHANGED current_win
             /\ StartPartition(s, Sc[s], TRUE, "startSc", todo \ {s})
    <3>1. Sc[s] \in Partition
      BY <2>2, AssignmentFacts
    <3>2. QED
      BY <1>0, <2>2, <3>1, StartPartitionCpus
  <2>3. CASE /\ op = "startBe" /\ s \in todo /\ Be[s] # NoPartition /\ UNCHANGED current_win
             /\ StartPartition(s, Be[s], FALSE, "startBe", todo \ {s})
    <3>1. Be[s] \in Partition
      BY <2>3, AssignmentFacts
    <3>2. QED
      BY <1>0, <2>3, <3>1, StartPartitionCpus
  <2>4. QED
    BY <1>2, <2>1, <2>2, <2>3 DEF StartSc, StartBe
<1>3. ASSUME NEW s \in Slice, SliceTimer(s) \/ \E p \in Proc : CompletedInSlice(p, s)
      PROVE  CpuPlacement'
  <2>1. s \in timer
    BY <1>3 DEF SliceTimer, CompletedInSlice, Dispatch, IInv, Phases, BudgetTimer
  <2>2. PICK ct, dc : ScheduleNext(s, ct, dc)
    BY <1>3 DEF SliceTimer, CompletedInSlice
  <2>3. /\ cpus' = cpus /\ running_partition' = running_partition
        /\ \A t \in Slice \ {s} : running_process'[t] = running_process[t]
    BY <2>2, OwnSlice DEF ScheduleNext, IInv, TypeOK
  <2>4. running_process[s] # NoProc /\ PartOf[running_process[s]] = running_partition[s]
    BY <2>1 DEF IInv, BudgetTimer
  <2>5. running_process'[s] # NoProc => PartOf[running_process'[s]] = running_partition[s]
    BY <1>0, <2>3 DEF IInv, BudgetTimer
  <2>6. QED
    BY <2>3, <2>4, <2>5 DEF CpuPlacement
<1>4. ASSUME NEW s \in Slice, StopSlice(s) PROVE CpuPlacement'
  BY <1>4 DEF StopSlice, CpuPlacement, IInv, TypeOK, SliceTypeOK
<1>5. CASE Startup
  <2>1. timer = {} /\ running_process' = running_process
    BY <1>5 DEF Startup, Dispatch, IInv, StartOrder, sliceVars
  <2>2. QED
    BY <2>1 DEF CpuPlacement, IInv, BudgetTimer
<1>6. ASSUME NEW p \in Proc, \/ CompletedIgnored(p) \/ CompletedInit(p) \/ Client(p) \/ ProcessEnded(p)
                             \/ ChildTerminatedButPopulated(p) \/ \E s \in Slice : CompletedCrash(p, s)
      PROVE  UNCHANGED <<cpus, running_process>>
  BY <1>6 DEF CompletedIgnored, CompletedInit, Client, ProcessEnded, ChildTerminatedButPopulated,
     CompletedCrash, partVars, sliceVars
<1>7. ASSUME \/ Poll \/ LoopReturns \/ Tick \/ ReceiveSignal \/ UNCHANGED vars \/ ExitCheck
             \/ WindowTimer \/ RunTimer \/ Signal \/ StartDone \/ EnterNextWindow \/ BreakLoop
             \/ KillProcesses
      PROVE  UNCHANGED <<cpus, running_process>>
  BY <1>7 DEF Poll, LoopReturns, Tick, ReceiveSignal, vars, ExitCheck, WindowTimer, RunTimer,
     Signal, StartDone, EnterNextWindow, BreakLoop, KillProcesses, partVars, sliceVars
<1>8. QED
  BY <1>1, <1>2, <1>3, <1>4, <1>5, <1>6, <1>7 DEF Next, LoopStep, Over

\* A running process has the CPUs of the slice that runs it, provided that no two
\* slices of one window share an SC or a BE partition.
THEOREM CpuPlacementHolds == ASSUME PartitionsApart PROVE Spec => []CpuPlacement
<1>1. Init => CpuPlacement
  BY DEF Init, CpuPlacement
<1>2. IInv /\ CpuPlacement /\ [Next]_vars => CpuPlacement'
  BY CpuPlacementStep
<1>3. QED
  BY <1>1, <1>2, Invariance, PTL DEF Spec
-------------------------------------------------------------------------------
(* The budgets *)

\* The loop handles every timer when it expires, and no window has a negative
\* length.
Punctual == MaxLag = 0 /\ \A w \in DOMAIN Windows : Length[w] >= 0

\* What a punctual loop keeps: handlers run at the deadline of their timer.
OnTime ==
    /\ ctime = 0
    /\ mf_timer => mf_timeout >= 0
    /\ \A s \in timer : timeout[s] >= 0
    /\ WindowEv \in pending => mf_timer /\ mf_timeout =< 0
    /\ \A s \in Slice : SliceEv(s) \in pending => timeout[s] =< 0

\* Division of a bounded number of ticks.
LEMMA DivBound ==
    ASSUME NEW n \in Nat \ {0}, NEW k \in Nat, NEW t \in Nat, t =< k * n
    PROVE  t \div n \in 0 .. k
<1> DEFINE d == t \div n
<1>1. d \in Int /\ d >= 0 /\ d * n =< t
  OBVIOUS
<1>2. d * n =< k * n
  BY <1>1
<1>3. ASSUME d > k PROVE FALSE
  <2>1. d >= k + 1
    BY <1>1, <1>3
  <2>2. d * n >= (k + 1) * n
    BY <1>1, <2>1
  <2>3. QED
    BY <1>2, <2>2
<1>4. QED
  BY <1>1, <1>3

\* A drawn budget is not negative and at most the largest one.
LEMMA DrawBound ==
    ASSUME PartTypeOK, BudgetBound, NEW p \in Proc
    PROVE  /\ MaxBudget(p) \in Nat
           /\ \A b \in Draw(p) : b \in 0 .. MaxBudget(p)
<1>1. /\ Budget[p] \in Nat /\ Jitter[p] \in Nat /\ Jitter[p] =< 2 * Budget[p]
      /\ actual_budget[p] \in Int
  BY SchedulerAssumption DEF PartTypeOK
<1>2. /\ Jitter[p] \div 2 \in Nat /\ Jitter[p] \div 2 =< Budget[p]
      /\ Jitter[p] \div 2 =< Jitter[p]
  BY <1>1
<1>3. MaxBudget(p) \in Nat
  BY <1>1, <1>2 DEF MaxBudget
<1>4. ASSUME NEW j \in (-(Jitter[p] \div 2)) .. (Jitter[p] - Jitter[p] \div 2)
      PROVE  Budget[p] + j \in 0 .. MaxBudget(p)
  BY <1>1, <1>2 DEF MaxBudget
<1>5. actual_budget[p] # Budget[p] => actual_budget[p] \in 0 .. MaxBudget(p)
  BY <1>1, <1>3 DEF BudgetBound
<1>6. QED
  BY <1>3, <1>4, <1>5 DEF Draw

\* The budget of a process that is started is one that was drawn for it.
LEMMA OutcomeDrawn ==
    ASSUME NEW ps, NEW c, NEW pend, NEW draw, NEW none, NEW o \in StartNext(ps, c, pend, draw, none)
    PROVE  o.proc = none \/ o.budget \in draw[o.proc]
BY DEF StartNext, Chosen, Exhausted

\* Slice::start_next_process at the present time.
LEMMA StartNextBudget ==
    ASSUME TypeOK, BudgetBound, OnTime, NEW s \in Slice, NEW q, NEW cur, NEW comp, NEW S, NEW dc,
           NEW op0, NEW todo0, StartNextProcess(s, q, cur, comp, 0, S, dc, op0, todo0),
           UNCHANGED <<mf_timer, mf_timeout>>, pending' \subseteq pending, SliceEv(s) \notin pending'
    PROVE  OnTime' /\ BudgetBound'
<1> DEFINE draw == [p \in Proc |-> Draw(p)]
<1>1. PICK o \in StartNext(Processes[q], cur, PendingProcs(comp), draw, NoProc) :
        /\ running_process' = [running_process EXCEPT ![s] = o.proc]
        /\ \/ /\ o.proc \in Proc
              /\ timer' = timer \cup {s}
              /\ timeout' = [timeout EXCEPT ![s] = 0 + o.budget * TicksPerMs]
              /\ actual_budget' = [actual_budget EXCEPT ![o.proc] = Budget[o.proc]]
           \/ /\ o.proc = NoProc
              /\ timer' = timer \ {s}
              /\ timeout' = [timeout EXCEPT ![s] = 0]
              /\ UNCHANGED actual_budget
  BY DEF StartNextProcess
<1>2. ctime' = 0
  BY DEF StartNextProcess, SliceScEnd, ContinueWith
<1>3. /\ NoProc \notin Proc /\ TicksPerMs \in Nat \ {0}
      /\ actual_budget \in [Proc -> Int]
      /\ running_process \in [Slice -> Proc \cup {NoProc}]
      /\ timeout \in [Slice -> Int]
  BY SchedulerAssumption DEF TypeOK, PartTypeOK, SliceTypeOK
<1>4. \A t \in Slice : SliceEv(t) \in pending' => t # s /\ SliceEv(t) \in pending
  OBVIOUS
<1>5. CASE o.proc \in Proc
  <2> DEFINE p == o.proc
             x == o.budget * TicksPerMs
  <2>1. o.budget \in draw[p]
    BY <1>3, <1>5, OutcomeDrawn
  <2>2. MaxBudget(p) \in Nat /\ o.budget \in 0 .. MaxBudget(p)
    BY <1>5, <2>1, DrawBound DEF TypeOK
  <2>3. x \in Nat /\ x =< MaxBudget(p) * TicksPerMs
    <3>1. o.budget \in Nat /\ o.budget =< MaxBudget(p)
      BY <2>2
    <3>2. o.budget * TicksPerMs \in Nat
      BY <1>3, <3>1
    <3>3. o.budget * TicksPerMs =< MaxBudget(p) * TicksPerMs
      <4> DEFINE b == o.budget
                 m == MaxBudget(p)
                 n == TicksPerMs
      <4>1. b \in Nat /\ m \in Nat /\ n \in Nat /\ m - b \in Nat
        BY <1>3, <2>2, <3>1
      <4>2. m * n = b * n + (m - b) * n /\ (m - b) * n \in Nat /\ b * n \in Nat
        <5> HIDE DEF b, m, n
        <5> QED BY <4>1
      <4>3. QED
        <5> HIDE DEF b, m, n
        <5>1. b * n =< m * n
          BY <4>1, <4>2
        <5>2. QED
          BY <5>1 DEF b, m, n
    <3>4. QED
      BY <3>2, <3>3
  <2> HIDE DEF x
  <2>4. /\ timer' = timer \cup {s} /\ timeout' = [timeout EXCEPT ![s] = x]
        /\ running_process' = [running_process EXCEPT ![s] = p]
        /\ actual_budget' = [actual_budget EXCEPT ![p] = Budget[p]]
    BY <1>1, <1>3, <1>5, <2>3 DEF x
  <2> HIDE DEF p
  <2>5. OnTime'
    <3>1. \A t \in timer' : timeout'[t] >= 0
      BY <1>3, <2>3, <2>4 DEF OnTime, TypeOK, SliceTypeOK
    <3>2. \A t \in Slice : SliceEv(t) \in pending' => timeout'[t] =< 0
      BY <1>3, <1>4, <2>4 DEF OnTime
    <3>3. QED
      BY <1>2, <3>1, <3>2 DEF OnTime, WindowEv, SliceEv
  <2>6. BudgetBound'
    <3>1. \A t \in Slice : running_process'[t] # NoProc =>
              timeout'[t] =< MaxBudget(running_process'[t]) * TicksPerMs
      BY <1>3, <2>3, <2>4 DEF BudgetBound
    <3>2. \A r \in Proc : actual_budget'[r] # Budget[r] => actual_budget'[r] \in 1 .. MaxBudget(r)
      BY <1>3, <1>5, <2>4 DEF BudgetBound, p
    <3>3. QED
      BY <3>1, <3>2 DEF BudgetBound, MaxBudget
  <2>7. QED
    BY <2>5, <2>6
<1>6. CASE o.proc = NoProc
  <2>1. /\ timer' = timer \ {s} /\ timeout' = [timeout EXCEPT ![s] = 0]
        /\ running_process' = [running_process EXCEPT ![s] = NoProc]
        /\ actual_budget' = actual_budget
    BY <1>1, <1>3, <1>6
  <2>2. OnTime'
    <3>1. \A t \in timer' : timeout'[t] >= 0
      BY <1>3, <2>1 DEF OnTime, TypeOK, SliceTypeOK
    <3>2. \A t \in Slice : SliceEv(t) \in pending' => timeout'[t] =< 0
      BY <1>3, <1>4, <2>1 DEF OnTime
    <3>3. QED
      BY <1>2, <3>1, <3>2 DEF OnTime, WindowEv, SliceEv
  <2>3. BudgetBound'
    BY <1>3, <2>1 DEF BudgetBound, MaxBudget
  <2>4. QED
    BY <2>2, <2>3
<1>7. QED
  BY <1>1, <1>5, <1>6

\* A step that leaves the budgets alone and handles the window timer in time.
LEMMA BudgetsKept ==
    ASSUME OnTime, BudgetBound, UNCHANGED <<timeout, timer, running_process, actual_budget>>,
           ctime' = 0, pending' \subseteq pending,
           \/ UNCHANGED <<mf_timer, mf_timeout>>
           \/ WindowEv \notin pending' /\ (mf_timer' => mf_timeout' >= 0)
    PROVE  OnTime' /\ BudgetBound'
BY DEF OnTime, BudgetBound, MaxBudget, WindowEv, SliceEv

\* MajorFrame::start at the present time.
LEMMA MfStartPunctual ==
    ASSUME Punctual, NEW w \in DOMAIN Windows, MfStart(w, 0)
    PROVE  mf_timeout' >= 0 /\ ctime' = 0
<1>1. Length[w] \in Nat /\ TicksPerMs \in Nat
  BY SchedulerAssumption DEF Punctual
<1>2. Length[w] * TicksPerMs \in Nat
  BY <1>1
<1>3. QED
  BY <1>2 DEF MfStart

\* PartitionManager::finish_process_init and what leads to it.
LEMMA FinishPunctual ==
    ASSUME Punctual, IInv, OnTime, ~started, NEW rest, rest \subseteq pending,
           FinishProcessInit(rest)
    PROVE  /\ ctime' = 0 /\ pending' \subseteq pending
           /\ WindowEv \notin pending' /\ (mf_timer' => mf_timeout' >= 0)
<1>1. WindowEv \notin pending /\ current_win \in DOMAIN Windows
  BY DEF IInv, StartOrder, TypeOK, WindowTypeOK
<1>2. CASE InitiateShutdown(rest)
  BY <1>1, <1>2 DEF InitiateShutdown, MfStop
<1>3. CASE MfStart(current_win, 0) /\ pending' = rest
  BY <1>1, <1>3, MfStartPunctual
<1>4. QED
  BY <1>2, <1>3 DEF FinishProcessInit

\* Starting a partition in its slice.
LEMMA StartPartitionBudget ==
    ASSUME IInv, OnTime, BudgetBound, NEW s \in Slice, s \notin timer,
           NEW q, NEW b, NEW op0, NEW todo0, StartPartition(s, q, b, op0, todo0),
           UNCHANGED <<mf_timer, mf_timeout, pending>>
    PROVE  OnTime' /\ BudgetBound'
<1>1. ctime = 0 /\ SliceEv(s) \notin pending
  BY DEF OnTime, IInv, Phases
<1>2. QED
  BY <1>1, StartNextBudget DEF StartPartition, IInv

\* What is left of a budget when the window ends.
LEMMA RemainingBound ==
    ASSUME IInv, OnTime, BudgetBound, NEW s \in timer
    PROVE  LET p == running_process[s]
           IN  p \in Proc /\ Remaining(s) \in 0 .. MaxBudget(p)
<1> DEFINE p == running_process[s]
<1>1. /\ s \in Slice /\ p \in Proc /\ timeout[s] \in Int /\ timeout[s] >= 0 /\ ctime = 0
      /\ timeout[s] =< MaxBudget(p) * TicksPerMs
  BY SchedulerAssumption DEF IInv, TypeOK, SliceTypeOK, BudgetTimer, OnTime, BudgetBound
<1>2. MaxBudget(p) \in Nat /\ TicksPerMs \in Nat \ {0}
  BY <1>1, DrawBound, SchedulerAssumption DEF IInv, TypeOK
<1>3. timeout[s] \div TicksPerMs \in 0 .. MaxBudget(p)
  <2> HIDE DEF p
  <2> QED BY <1>1, <1>2, DivBound
<1>4. Remaining(s) = timeout[s] \div TicksPerMs
  BY <1>1 DEF Remaining, ToMs
<1>5. QED
  BY <1>1, <1>3, <1>4

\* Slice::stop stores a remainder within the bound.
LEMMA StopSliceBudget ==
    ASSUME IInv, OnTime, BudgetBound, NEW s \in Slice, StopSlice(s)
    PROVE  OnTime' /\ BudgetBound'
<1>1. /\ timer' = timer \ {s} /\ timeout' = [timeout EXCEPT ![s] = 0]
      /\ running_process' = [running_process EXCEPT ![s] = NoProc]
      /\ pending' = pending \ {SliceEv(s)}
      /\ UNCHANGED <<mf_timer, mf_timeout, ctime>>
  BY DEF StopSlice
<1>2. /\ timeout \in [Slice -> Int] /\ running_process \in [Slice -> Proc \cup {NoProc}]
      /\ timer \in SUBSET Slice /\ actual_budget \in [Proc -> Int]
  BY DEF IInv, TypeOK, SliceTypeOK, PartTypeOK
<1>3. OnTime'
  BY <1>1, <1>2 DEF OnTime, WindowEv, SliceEv
<1>4. \A r \in Proc : actual_budget'[r] # Budget[r] => actual_budget'[r] \in 1 .. MaxBudget(r)
  <2>1. CASE UNCHANGED actual_budget
    BY <2>1 DEF BudgetBound
  <2>2. CASE /\ running_process[s] # NoProc /\ Remaining(s) # 0
             /\ actual_budget' = [actual_budget EXCEPT ![running_process[s]] =
                    IF running_partition[s] = Be[s] THEN Remaining(s) ELSE @]
    <3> DEFINE p == running_process[s]
    <3>1. p \in Proc /\ Remaining(s) \in 0 .. MaxBudget(p) /\ MaxBudget(p) \in Nat
      BY <2>2, RemainingBound, DrawBound DEF IInv, BudgetTimer, TypeOK
    <3>2. Remaining(s) \in 1 .. MaxBudget(p)
      BY <2>2, <3>1
    <3>3. ASSUME NEW r \in Proc
          PROVE  actual_budget'[r] = actual_budget[r] \/ (r = p /\ actual_budget'[r] = Remaining(s))
      BY <1>2, <2>2, <3>1
    <3>4. QED
      BY <3>2, <3>3 DEF BudgetBound
  <2>3. QED
    BY <2>1, <2>2 DEF StopSlice
<1>5. QED
  BY <1>1, <1>2, <1>3, <1>4 DEF BudgetBound, MaxBudget

\* With a punctual loop every step keeps the budgets within their bound.
LEMMA BudgetStep ==
    ASSUME Punctual, IInv, OnTime, BudgetBound, [Next]_vars PROVE OnTime' /\ BudgetBound'
<1>0. /\ timer \in SUBSET Slice /\ timeout \in [Slice -> Int] /\ mf_timeout \in Int
      /\ mf_timer \in BOOLEAN /\ current_win \in DOMAIN Windows
      /\ ctime = 0
  BY DEF IInv, TypeOK, SliceTypeOK, WindowTypeOK, OnTime
<1>1. CASE Poll
  <2>1. /\ \A s \in Slice : SliceEv(s) \in Ready => timeout[s] =< 0
        /\ WindowEv \in Ready => mf_timer /\ mf_timeout =< 0
    BY SliceEventsDiffer DEF Ready, CompletedEv, ExitEv, PopulatedEv, SliceEv, WindowEv,
       RunTimerEv, SignalEv
  <2>2. /\ \A s \in Slice : SliceEv(s) \in pending' => SliceEv(s) \in Ready
        /\ WindowEv \in pending' => WindowEv \in Ready
    BY <1>1, SliceEventsDiffer DEF Poll
  <2>3. UNCHANGED <<partVars, sliceVars, winVars, ctlVars>>
    BY <1>1 DEF Poll
  <2>4. QED
    BY <2>1, <2>2, <2>3 DEF partVars, sliceVars, winVars, ctlVars, OnTime, BudgetBound,
       MaxBudget, SliceEv, WindowEv
<1>2. CASE Tick
  <2>1. /\ \A s \in timer : timeout[s] > 0
        /\ mf_timer => mf_timeout > 0
        /\ timeout' = [s \in Slice |-> IF s \in timer THEN timeout[s] - 1 ELSE 0]
        /\ mf_timeout' = IF mf_timer THEN mf_timeout - 1 ELSE 0
        /\ UNCHANGED <<actual_budget, running_process, timer, mf_timer, pending, ctime>>
    BY <1>0, <1>2 DEF Tick, Punctual, partVars, ctlVars
  <2>2. WindowEv \notin pending /\ \A s \in Slice : SliceEv(s) \notin pending
    BY <1>0, <2>1 DEF OnTime, IInv, Phases
  <2>3. OnTime'
    BY <1>0, <2>1, <2>2 DEF OnTime, WindowEv, SliceEv
  <2>4. ASSUME NEW s \in Slice, running_process[s] # NoProc
        PROVE  timeout'[s] =< MaxBudget(running_process[s]) * TicksPerMs
    <3>1. s \in timer /\ running_process[s] \in Proc
      BY <2>4 DEF IInv, BudgetTimer, TypeOK, SliceTypeOK
    <3>2. MaxBudget(running_process[s]) * TicksPerMs \in Int
      BY <3>1, DrawBound, SchedulerAssumption DEF IInv, TypeOK
    <3>3. timeout[s] =< MaxBudget(running_process[s]) * TicksPerMs
      BY <2>4 DEF BudgetBound
    <3>4. QED
      BY <1>0, <2>1, <3>1, <3>2, <3>3
  <2>5. QED
    BY <2>1, <2>3, <2>4 DEF BudgetBound, MaxBudget
<1>3. ASSUME NEW s \in Slice, SliceTimer(s) \/ \E p \in Proc : CompletedInSlice(p, s)
      PROVE  OnTime' /\ BudgetBound'
  <2>1. CASE SliceTimer(s)
    <3>1. SliceEv(s) \in pending
      BY <2>1 DEF SliceTimer, Dispatch
    <3>2. timeout[s] = 0
      BY <1>0, <3>1 DEF OnTime, IInv, Phases
    <3>3. QED
      BY <2>1, <3>2, StartNextBudget DEF SliceTimer, ScheduleNext, IInv
  <2>2. ASSUME NEW p \in Proc, CompletedInSlice(p, s) PROVE OnTime' /\ BudgetBound'
    BY <2>2, StartNextBudget DEF CompletedInSlice, ScheduleNext, IInv
  <2>3. QED
    BY <1>3, <2>1, <2>2
<1>4. ASSUME NEW s \in Slice, StartSc(s) \/ StartBe(s) PROVE OnTime' /\ BudgetBound'
  <2>1. s \notin timer
    BY <1>4 DEF StartSc, StartBe, IInv, Phases
  <2>2. CASE UNCHANGED <<apiVars, partVars, sliceVars>>
    <3>1. ctime' = 0
      BY <1>0, <1>4, SchedulerAssumption DEF StartSc, StartBe, StartPartition, StartNextProcess,
         SliceScEnd, ContinueWith
    <3>2. QED
      BY <1>4, <2>2, <3>1, BudgetsKept DEF StartSc, StartBe, partVars, sliceVars
  <2>3. ASSUME NEW q, NEW b, NEW op0, NEW todo0, StartPartition(s, q, b, op0, todo0)
        PROVE  OnTime' /\ BudgetBound'
    BY <1>4, <2>1, <2>3, StartPartitionBudget DEF StartSc, StartBe
  <2>4. QED
    BY <1>4, <2>2, <2>3 DEF StartSc, StartBe
<1>5. ASSUME NEW s \in Slice, StopSlice(s) PROVE OnTime' /\ BudgetBound'
  BY <1>5, StopSliceBudget
<1>6. CASE WindowTimer
  <2>1. WindowEv \in pending
    BY <1>6 DEF WindowTimer, Dispatch
  <2>2. mf_timeout = 0
    BY <1>0, <2>1 DEF OnTime
  <2>3. QED
    BY <1>6, <2>2, BudgetsKept DEF WindowTimer, WindowStopTime, partVars, sliceVars
<1>7. CASE EnterNextWindow
  <2>1. WindowEv \notin pending
    BY <1>7 DEF EnterNextWindow, OnTime, IInv, Phases
  <2>2. NextWin(current_win) \in DOMAIN Windows
    BY <1>0, WindowFacts
  <2>3. mf_timeout' >= 0 /\ ctime' = 0
    BY <1>0, <1>7, <2>2, MfStartPunctual DEF EnterNextWindow
  <2>4. QED
    BY <1>7, <2>1, <2>3, BudgetsKept DEF EnterNextWindow, partVars, sliceVars
<1>8. ASSUME NEW rest, rest \subseteq pending, NEW op0, OneInitLess(rest, op0), ~started,
             UNCHANGED <<actual_budget, sliceVars>>
      PROVE  OnTime' /\ BudgetBound'
  <2>1. CASE FinishProcessInit(rest)
    BY <1>8, <2>1, FinishPunctual, BudgetsKept DEF sliceVars
  <2>2. CASE pending' = rest /\ UNCHANGED <<winVars, ctime>>
    BY <1>0, <1>8, <2>2, BudgetsKept DEF sliceVars, winVars
  <2>3. QED
    BY <1>8, <2>1, <2>2 DEF OneInitLess
<1>9. CASE Startup
  <2>1. ~started
    BY <1>9 DEF Startup, Dispatch, IInv, StartOrder
  <2>2. CASE FinishProcessInit(pending \ {StartupEv})
    BY <1>9, <2>1, <2>2, FinishPunctual, BudgetsKept DEF Startup, sliceVars
  <2>3. CASE pending' = pending \ {StartupEv} /\ UNCHANGED <<winVars, ctlVars>>
    BY <1>0, <1>9, <2>3, BudgetsKept DEF Startup, sliceVars, winVars, ctlVars
  <2>4. QED
    BY <1>9, <2>2, <2>3 DEF Startup
<1>10. ASSUME NEW p \in Proc, CompletedInit(p) PROVE OnTime' /\ BudgetBound'
  <2>1. ~started
    BY <1>10, SchedulerAssumption DEF CompletedInit, IInv, StartOrder
  <2>2. QED
    BY <1>8, <1>10, <2>1 DEF CompletedInit
<1>11. ASSUME NEW p \in Proc, ProcessEnded(p) PROVE OnTime' /\ BudgetBound'
  <2>1. PICK e \in {ExitEv(p), PopulatedEv(p)} :
          /\ UNCHANGED <<actual_budget, sliceVars>>
          /\ \/ CountsAsInitialized(p) /\ OneInitLess(pending \ {e}, "exit")
             \/ pending' = pending \ {e} /\ UNCHANGED <<winVars, ctime>>
    BY <1>11 DEF ProcessEnded
  <2>2. CASE CountsAsInitialized(p) /\ OneInitLess(pending \ {e}, "exit")
    <3>1. ~started
      BY <2>2 DEF CountsAsInitialized, IInv, StartOrder
    <3>2. QED
      BY <1>8, <2>1, <2>2, <3>1
  <2>3. CASE pending' = pending \ {e} /\ UNCHANGED <<winVars, ctime>>
    BY <1>0, <2>1, <2>3, BudgetsKept DEF sliceVars, winVars
  <2>4. QED
    BY <2>1, <2>2, <2>3
<1>12. CASE RunTimer \/ Signal
  <2>1. PICK rest \in SUBSET pending : InitiateShutdown(rest) /\ UNCHANGED <<partVars, sliceVars>>
    BY <1>12 DEF RunTimer, Signal
  <2>2. QED
    BY <2>1, BudgetsKept DEF InitiateShutdown, MfStop, partVars, sliceVars
<1>13. CASE ExitCheck
  <2>1. CASE MfStop("break", pending)
    BY <1>13, <2>1, BudgetsKept DEF ExitCheck, MfStop, partVars, sliceVars
  <2>2. CASE UNCHANGED <<winVars, pending, ctime>>
    BY <1>0, <1>13, <2>2, BudgetsKept DEF ExitCheck, partVars, sliceVars, winVars
  <2>3. QED
    BY <1>13, <2>1, <2>2 DEF ExitCheck
<1>14. CASE \/ LoopReturns \/ ReceiveSignal \/ UNCHANGED vars \/ StartDone \/ KillProcesses \/ BreakLoop
            \/ \E p \in Proc : \/ Client(p) \/ CompletedIgnored(p) \/ ChildTerminatedButPopulated(p)
                               \/ \E s \in Slice : CompletedCrash(p, s)
  <2>1. UNCHANGED <<partVars, sliceVars, winVars>> /\ pending' \subseteq pending
    BY <1>14 DEF LoopReturns, ReceiveSignal, vars, StartDone, KillProcesses, BreakLoop, Client,
       CompletedIgnored, ChildTerminatedButPopulated, CompletedCrash
  <2>2. ctime' = 0
    BY <1>0, <1>14 DEF LoopReturns, ReceiveSignal, vars, StartDone, KillProcesses, BreakLoop, Client,
       CompletedIgnored, ChildTerminatedButPopulated, CompletedCrash, Return, ctlVars
  <2>3. QED
    BY <2>1, <2>2, BudgetsKept DEF partVars, sliceVars, winVars
<1>15. QED
  BY <1>1, <1>2, <1>3, <1>4, <1>5, <1>6, <1>7, <1>9, <1>10, <1>11, <1>12, <1>13, <1>14
     DEF Next, LoopStep, Over

\* With a loop that handles its timers in time no process is given more than its
\* budget and its jitter allow, and the remainder stored for an interrupted one
\* is positive, in every configuration whose windows have no negative length.
THEOREM BudgetBoundHolds == ASSUME Punctual PROVE Spec => []BudgetBound
<1>1. Init => OnTime /\ BudgetBound
  BY DEF Init, OnTime, BudgetBound
<1>2. IInv /\ OnTime /\ BudgetBound /\ [Next]_vars => OnTime' /\ BudgetBound'
  BY BudgetStep
<1>3. QED
  BY <1>1, <1>2, Invariance, PTL DEF Spec

-------------------------------------------------------------------------------
(* The clock *)

\* The major frame has a positive length.
FrameAdvances == WindowEnd[Len(Windows)] > 0

\* f is the running sum of the lengths of the first n windows.
Sums(n, f) ==
    /\ f \in [0 .. n -> Int]
    /\ \A w \in 0 .. n : f[w] = IF w = 0 THEN 0 ELSE f[w - 1] + Length[w] * TicksPerMs

\* Running sums exist, whatever the number of windows.
LEMMA SumsExist == \E f : Sums(Len(Windows), f)
<1> DEFINE N == Len(Windows)
           Bad == {n \in 0 .. N : ~ \E f : Sums(n, f)}
<1>1. N \in Nat /\ DOMAIN Windows = 1 .. N
  BY SchedulerAssumption
<1>2. \A w \in 1 .. N : Length[w] * TicksPerMs \in Int
  BY <1>1, WindowFacts
<1>3. ASSUME Bad # {} PROVE FALSE
  <2>1. PICK n \in Bad : \A m \in Bad : n =< m
    <3>1. Bad \in SUBSET Nat
      BY <1>1
    <3>2. QED
      BY <1>3, <3>1, HasMin
  <2>2. CASE n = 0
    <3>1. Sums(0, [w \in 0 .. 0 |-> 0])
      BY DEF Sums
    <3>2. QED
      BY <2>1, <2>2, <3>1
  <2>3. CASE n # 0
    <3>1. n \in 1 .. N /\ n - 1 \in 0 .. N /\ n - 1 \notin Bad
      BY <1>1, <2>1, <2>3
    <3>2. PICK f : Sums(n - 1, f)
      BY <3>1
    <3> DEFINE g == [w \in 0 .. n |-> IF w = n THEN f[n - 1] + Length[n] * TicksPerMs ELSE f[w]]
    <3>3. f \in [0 .. n - 1 -> Int]
      BY <3>2 DEF Sums
    <3>4. g \in [0 .. n -> Int]
      <4>1. f[n - 1] + Length[n] * TicksPerMs \in Int
        BY <1>2, <3>1, <3>3
      <4>2. \A w \in 0 .. n : w # n => f[w] \in Int
        BY <3>1, <3>3
      <4>3. QED
        BY <4>1, <4>2
    <3>5. ASSUME NEW w \in 0 .. n
          PROVE  g[w] = IF w = 0 THEN 0 ELSE g[w - 1] + Length[w] * TicksPerMs
      <4>1. CASE w = n
        BY <3>1, <4>1
      <4>2. CASE w # n
        <5>1. /\ w \in 0 .. n - 1 /\ g[w] = f[w]
              /\ w # 0 => w - 1 \in 0 .. n /\ w - 1 # n /\ g[w - 1] = f[w - 1]
          BY <3>1, <4>2
        <5>2. QED
          BY <3>2, <5>1 DEF Sums
      <4>3. QED
        BY <4>1, <4>2
    <3>6. Sums(n, g)
      <4> HIDE DEF g
      <4> QED BY <3>4, <3>5 DEF Sums
    <3>7. QED
      BY <2>1, <3>6
  <2>4. QED
    BY <2>2, <2>3
<1>4. N \in 0 .. N
  BY <1>1
<1>5. QED
  BY <1>3, <1>4

\* The end of a window is the end of the one before plus its length.
LEMMA WindowEndSums == Sums(Len(Windows), WindowEnd)
<1> DEFINE N == Len(Windows)
           Eq(f) == f = [w \in 0 .. N |-> IF w = 0 THEN 0 ELSE f[w - 1] + Length[w] * TicksPerMs]
<1>1. PICK f : Sums(N, f)
  BY SumsExist
<1>2. Eq(f)
  BY <1>1 DEF Sums
<1>3. WindowEnd = CHOOSE g : Eq(g)
  BY DEF WindowEnd
<1>4. Eq(WindowEnd)
  <2> HIDE DEF Eq
  <2> QED BY <1>2, <1>3
<1>5. N \in Nat /\ \A w \in 1 .. N : Length[w] * TicksPerMs \in Int
  <2>1. N \in Nat /\ DOMAIN Windows = 1 .. N
    BY SchedulerAssumption
  <2>2. QED
    BY <2>1, WindowFacts
<1>6. \A w \in 0 .. N : WindowEnd[w] = IF w = 0 THEN 0 ELSE WindowEnd[w - 1] + Length[w] * TicksPerMs
  BY <1>4
<1>7. ASSUME {w \in 0 .. N : WindowEnd[w] \notin Int} # {} PROVE FALSE
  <2> DEFINE Bad == {w \in 0 .. N : WindowEnd[w] \notin Int}
  <2>1. PICK n \in Bad : \A m \in Bad : n =< m
    <3>1. Bad \in SUBSET Nat
      BY <1>5
    <3>2. QED
      BY <1>7, <3>1, HasMin
  <2>2. n # 0
    BY <1>5, <1>6, <2>1
  <2>3. n \in 1 .. N /\ n - 1 \in 0 .. N /\ n - 1 \notin Bad
    BY <1>5, <2>1, <2>2
  <2>4. QED
    BY <1>5, <1>6, <2>1, <2>3
<1>8. DOMAIN WindowEnd = 0 .. N
  BY <1>4
<1>9. QED
  <2>1. WindowEnd \in [0 .. N -> Int]
    BY <1>4, <1>7, <1>8
  <2>2. QED
    BY <1>6, <2>1 DEF Sums

\* The clock is advanced before the remainder is taken again.
LEMMA ModTick ==
    ASSUME NEW M \in Nat \ {0}, NEW a \in Int
    PROVE  ((a % M) + 1) % M = (a + 1) % M
<1>1. PICK p \in Int, r \in 0 .. M - 1 : r = a % M /\ a = M * p + r
  BY DivMod
<1>2. PICK m \in Int : m = -p
  BY <1>1
<1>3. M * m = -(M * p) /\ M * p \in Int
  <2>1. 0 \in Int /\ M \in Int /\ m = 0 - p
    BY <1>2
  <2>2. M * (0 - p) = M * 0 - M * p /\ M * p \in Int /\ M * 0 \in Int
    BY <2>1, Distrib
  <2>3. M * 0 = 0
    OBVIOUS
  <2>4. QED
    BY <2>1, <2>2, <2>3
<1>4. r + 1 = (a + 1) + M * m
  <2>1. a = M * p + r
    BY <1>1
  <2>2. QED
    BY <1>3, <2>1
<1>5. ((a + 1) + M * m) % M = (a + 1) % M
  <2>1. PICK c \in Int : c = a + 1
    OBVIOUS
  <2>2. (c + M * m) % M = c % M
    BY ModShift
  <2>3. QED
    BY <2>1, <2>2
<1>6. QED
  BY <1>1, <1>4, <1>5
\* Where the clock is t ticks before the end of the current window.
Nominal(t) == (WindowEnd[current_win] - t) % WindowEnd[Len(Windows)]

\* The clock stands at the nominal time of the window, also while timeout_cb
\* stops one window and before it starts the next.
InStep ==
    /\ ~started => current_win = 1
    /\ WindowEv \in pending => mf_timer
    /\ mf_timer => clock = Nominal(mf_timeout)
    /\ op = "stop" /\ after = "next" => clock = Nominal(ctime)

\* A window starts where the one before ended, the first one where the last did.
LEMMA NextWindowEnd ==
    ASSUME FrameAdvances, NEW w \in DOMAIN Windows, NEW t \in Int
    PROVE  LET n == NextWin(w)
           IN  (WindowEnd[n] - (t + Length[n] * TicksPerMs)) % WindowEnd[Len(Windows)]
                 = (WindowEnd[w] - t) % WindowEnd[Len(Windows)]
<1> DEFINE n == NextWin(w)
           N == Len(Windows)
           M == WindowEnd[N]
<1>1. N \in Nat \ {0} /\ w \in 1 .. N
  BY SchedulerAssumption
<1>2. /\ \A v \in 0 .. N : WindowEnd[v] \in Int
      /\ WindowEnd[0] = 0
      /\ \A v \in 1 .. N : WindowEnd[v] = WindowEnd[v - 1] + Length[v] * TicksPerMs
  BY <1>1, WindowEndSums DEF Sums
<1>3. n \in 1 .. N /\ n - 1 \in 0 .. N /\ Length[n] * TicksPerMs \in Int
  <2>1. n \in DOMAIN Windows /\ DOMAIN Windows = 1 .. N
    BY WindowFacts, SchedulerAssumption
  <2>2. QED
    BY <1>1, <2>1, WindowFacts
<1>4. WindowEnd[n] - (t + Length[n] * TicksPerMs) = WindowEnd[n - 1] - t
  <2>1. WindowEnd[n] = WindowEnd[n - 1] + Length[n] * TicksPerMs /\ WindowEnd[n - 1] \in Int
    BY <1>2, <1>3
  <2>2. PICK x \in Int : x = Length[n] * TicksPerMs
    BY <1>3
  <2>3. QED
    <3> HIDE DEF n
    <3> QED BY <2>1, <2>2
<1>5. CASE n = w + 1
  BY <1>1, <1>4, <1>5
<1>6. CASE n # w + 1
  <2>1. w = N /\ n = 1
    BY <1>1, <1>6 DEF NextWin
  <2>2. M \in Nat \ {0}
    BY <1>1, <1>2 DEF FrameAdvances
  <2>3. PICK a \in Int : a = 0 - t
    OBVIOUS
  <2>4. (a + M * 1) % M = a % M
    <3>1. PICK k \in Int : k = 1
      OBVIOUS
    <3>2. (a + M * k) % M = a % M
      <4> HIDE DEF M
      <4> QED BY <2>2, ModShift
    <3>3. QED
      BY <3>1, <3>2
  <2>5. a + M * 1 = M - t
    BY <2>2, <2>3
  <2>6. WindowEnd[n - 1] - t = a
    BY <1>2, <2>1, <2>3
  <2>7. WindowEnd[w] - t = M - t
    BY <2>1
  <2>8. QED
    BY <1>4, <2>4, <2>5, <2>6, <2>7
<1>7. QED
  BY <1>5, <1>6

\* A step that leaves the clock and the windows alone.
LEMMA InStepKept ==
    ASSUME InStep, UNCHANGED <<mf_timer, mf_timeout, current_win, clock, started>>,
           WindowEv \in pending' => mf_timer,
           op' = "stop" /\ after' = "next" =>
               op = "stop" /\ after = "next" /\ ctime' = ctime
    PROVE  InStep'
BY DEF InStep, Nominal, WindowEv, WindowEnd

\* A step that stops the major frame for good.
LEMMA InStepStopped ==
    ASSUME InStep, NEW aft, aft # "next", NEW rest, MfStop(aft, rest), UNCHANGED started
    PROVE  InStep'
BY DEF InStep, MfStop, WindowEv

\* The end of the initialization starts the clock with the first window.
LEMMA FinishInStep ==
    ASSUME FrameAdvances, IInv, InStep, ~started, NEW rest, rest \subseteq pending,
           FinishProcessInit(rest)
    PROVE  InStep'
<1>1. CASE InitiateShutdown(rest)
  BY <1>1, InStepStopped DEF InitiateShutdown
<1>2. CASE MfStart(current_win, 0) /\ started' /\ clock' = 0 /\ pending' = rest
  <2>1. current_win = 1 /\ WindowEv \notin pending
    BY DEF InStep, IInv, StartOrder
  <2>2. Len(Windows) \in Nat \ {0} /\ 1 \in DOMAIN Windows
    BY SchedulerAssumption
  <2>3. /\ WindowEnd[Len(Windows)] \in Nat \ {0}
        /\ WindowEnd[1] = 0 + Length[1] * TicksPerMs
        /\ Length[1] * TicksPerMs \in Int
    BY <2>2, WindowEndSums, WindowFacts DEF Sums, FrameAdvances
  <2>4. mf_timeout' = WindowEnd[1] /\ WindowEnd[1] \in Int
    BY <1>2, <2>1, <2>3 DEF MfStart
  <2>5. 0 % WindowEnd[Len(Windows)] = 0
    BY <2>3
  <2>6. WindowEnd[1] - mf_timeout' = 0
    BY <2>4
  <2>7. current_win' = 1 /\ op' = "startSc"
    BY <1>2, <2>1 DEF MfStart
  <2>8. WindowEnd' = WindowEnd
    BY DEF WindowEnd
  <2>9. QED
    BY <1>2, <2>1, <2>5, <2>6, <2>7, <2>8 DEF InStep, Nominal, WindowEv
<1>3. QED
  BY <1>1, <1>2 DEF FinishProcessInit

\* Every step keeps the clock in step with the windows.
LEMMA InStepStep == ASSUME FrameAdvances, IInv, InStep, [Next]_vars PROVE InStep'
<1> USE DEF winVars, ctlVars, histVars
<1>0. /\ mf_timeout \in Int /\ mf_timer \in BOOLEAN /\ ctime \in Int
      /\ current_win \in DOMAIN Windows /\ WindowEnd' = WindowEnd
  BY DEF IInv, TypeOK, WindowTypeOK, WindowEnd
<1>1. CASE Poll
  <2>1. WindowEv \in pending' => mf_timer
    BY <1>1, ReadyFacts, SliceEventsDiffer DEF Poll, IInv, TypeOK
  <2>2. QED
    BY <1>1, <2>1, InStepKept DEF Poll
<1>2. CASE Tick
  <2>1. CASE ~mf_timer
    BY <1>2, <2>1 DEF Tick, InStep, WindowEv
  <2>2. CASE mf_timer
    <3> DEFINE M == WindowEnd[Len(Windows)]
    <3>1. /\ clock' = (clock + 1) % M /\ mf_timeout' = mf_timeout - 1
          /\ UNCHANGED <<current_win, started, pending, op, after, ctime, mf_timer>> /\ op = "idle"
      BY <1>2, <2>2 DEF Tick
    <3>2. /\ M \in Nat \ {0} /\ WindowEnd[current_win] \in Int
      <4>1. Len(Windows) \in Nat \ {0} /\ DOMAIN Windows = 1 .. Len(Windows)
        BY SchedulerAssumption
      <4>2. QED
        BY <1>0, <4>1, WindowEndSums DEF Sums, FrameAdvances
    <3>3. PICK a \in Int : a = WindowEnd[current_win] - mf_timeout
      BY <1>0, <3>2
    <3>4. clock = a % M
      BY <2>2, <3>3 DEF InStep, Nominal
    <3>5. ((a % M) + 1) % M = (a + 1) % M
      <4> HIDE DEF M
      <4> QED BY <3>2, ModTick
    <3>6. a + 1 = WindowEnd[current_win] - mf_timeout'
      BY <1>0, <3>1, <3>2, <3>3
    <3>7. clock' = Nominal(mf_timeout)'
      BY <1>0, <3>1, <3>4, <3>5, <3>6 DEF Nominal
    <3>8. QED
      BY <2>2, <3>1, <3>7 DEF InStep, WindowEv
  <2>3. QED
    BY <2>1, <2>2
<1>3. ASSUME NEW s \in Slice, SliceTimer(s) \/ \E p \in Proc : CompletedInSlice(p, s)
      PROVE  InStep'
  <2>1. op' # "stop"
    BY <1>3 DEF SliceTimer, CompletedInSlice, ScheduleNext, StartNextProcess, SliceScEnd, ContinueWith
  <2>2. UNCHANGED <<mf_timer, mf_timeout, current_win, clock, started>> /\ pending' \subseteq pending
    BY <1>3 DEF SliceTimer, CompletedInSlice
  <2>3. QED
    BY <2>1, <2>2, InStepKept DEF InStep
<1>4. ASSUME NEW s \in Slice, StartSc(s) \/ StartBe(s) PROVE InStep'
  <2>1. op' # "stop"
    BY <1>4 DEF StartSc, StartBe, StartPartition, StartNextProcess, SliceScEnd, ContinueWith
  <2>2. UNCHANGED <<mf_timer, mf_timeout, current_win, clock, started, pending>>
    BY <1>4 DEF StartSc, StartBe
  <2>3. QED
    BY <2>1, <2>2, InStepKept DEF InStep
<1>5. ASSUME NEW s \in Slice, StopSlice(s) PROVE InStep'
  <2>1. /\ UNCHANGED <<mf_timer, mf_timeout, current_win, clock, started, op, after, ctime>>
        /\ pending' \subseteq pending
    BY <1>5 DEF StopSlice
  <2>2. QED
    BY <2>1, InStepKept DEF InStep
<1>6. CASE WindowTimer
  <2>1. mf_timer
    BY <1>6 DEF WindowTimer, Dispatch, InStep
  <2>2. clock' = Nominal(ctime)'
    BY <1>0, <1>6, <2>1 DEF WindowTimer, WindowStopTime, InStep, Nominal
  <2>3. QED
    BY <1>6, <2>2 DEF WindowTimer, InStep, WindowEv
<1>7. CASE EnterNextWindow
  <2>1. WindowEv \notin pending /\ started
    BY <1>7 DEF EnterNextWindow, InStep, IInv, Phases, StartOrder
  <2>2. clock = Nominal(ctime)
    BY <1>7 DEF EnterNextWindow, InStep
  <2>3. clock' = Nominal(mf_timeout)'
    <3> DEFINE n == NextWin(current_win)
    <3>1. clock' = clock /\ current_win' = n /\ mf_timeout' = ctime + Length[n] * TicksPerMs
      BY <1>7 DEF EnterNextWindow, MfStart
    <3>2. QED
      BY <1>0, <2>2, <3>1, NextWindowEnd DEF Nominal
  <2>4. QED
    BY <1>7, <2>1, <2>3 DEF EnterNextWindow, MfStart, InStep, WindowEv
<1>8. ASSUME NEW rest, rest \subseteq pending, NEW op0, op0 # "stop", OneInitLess(rest, op0), ~started
      PROVE  InStep'
  <2>1. CASE FinishProcessInit(rest)
    BY <1>8, <2>1, FinishInStep
  <2>2. CASE pending' = rest /\ op' = op0 /\ UNCHANGED <<winVars, histVars>>
    BY <1>8, <2>2, InStepKept DEF InStep
  <2>3. QED
    BY <1>8, <2>1, <2>2 DEF OneInitLess
<1>9. CASE Startup
  <2>1. ~started
    BY <1>9 DEF Startup, Dispatch, IInv, StartOrder
  <2>2. CASE FinishProcessInit(pending \ {StartupEv})
    BY <2>1, <2>2, FinishInStep
  <2>3. CASE pending' = pending \ {StartupEv} /\ UNCHANGED <<winVars, ctlVars, histVars>>
    BY <2>3, InStepKept DEF InStep
  <2>4. QED
    BY <1>9, <2>2, <2>3 DEF Startup
<1>10. ASSUME NEW p \in Proc, CompletedInit(p) PROVE InStep'
  <2>1. ~started
    BY <1>10, SchedulerAssumption DEF CompletedInit, IInv, StartOrder
  <2>2. QED
    BY <1>8, <1>10, <2>1 DEF CompletedInit
<1>11. ASSUME NEW p \in Proc, ProcessEnded(p) PROVE InStep'
  <2>1. PICK e \in {ExitEv(p), PopulatedEv(p)} :
          \/ CountsAsInitialized(p) /\ OneInitLess(pending \ {e}, "exit")
          \/ pending' = pending \ {e} /\ op' = "exit" /\ UNCHANGED <<winVars, histVars>>
    BY <1>11 DEF ProcessEnded
  <2>2. CASE CountsAsInitialized(p) /\ OneInitLess(pending \ {e}, "exit")
    <3>1. ~started
      BY <2>2 DEF CountsAsInitialized, IInv, StartOrder
    <3>2. QED
      BY <1>8, <2>2, <3>1
  <2>3. CASE pending' = pending \ {e} /\ op' = "exit" /\ UNCHANGED <<winVars, histVars>>
    BY <2>3, InStepKept DEF InStep
  <2>4. QED
    BY <2>1, <2>2, <2>3
<1>12. CASE RunTimer \/ Signal
  <2>1. PICK rest \in SUBSET pending : InitiateShutdown(rest)
    BY <1>12 DEF RunTimer, Signal
  <2>2. QED
    BY <2>1, InStepStopped DEF InitiateShutdown
<1>13. CASE ExitCheck
  <2>1. CASE MfStop("break", pending)
    BY <1>13, <2>1, InStepStopped DEF ExitCheck
  <2>2. CASE UNCHANGED <<winVars, pending>> /\ op' = "idle"
    BY <1>13, <2>2, InStepKept DEF ExitCheck, InStep
  <2>3. QED
    BY <1>13, <2>1, <2>2 DEF ExitCheck
<1>14. CASE StartDone \/ KillProcesses \/ BreakLoop
  <2>1. UNCHANGED <<winVars, histVars, pending>> /\ op' # "stop"
    BY <1>14 DEF StartDone, KillProcesses, BreakLoop, Return
  <2>2. QED
    BY <2>1, InStepKept DEF InStep
<1>15. CASE \/ LoopReturns \/ ReceiveSignal \/ UNCHANGED vars
            \/ \E p \in Proc : \/ Client(p) \/ CompletedIgnored(p) \/ ChildTerminatedButPopulated(p)
                               \/ \E s \in Slice : CompletedCrash(p, s)
  <2>1. UNCHANGED <<winVars, ctlVars, histVars>> /\ pending' \subseteq pending
    BY <1>15 DEF LoopReturns, ReceiveSignal, vars, Client,
       CompletedIgnored, ChildTerminatedButPopulated, CompletedCrash
  <2>2. QED
    BY <2>1, InStepKept DEF InStep
<1>16. QED
  BY <1>1, <1>2, <1>3, <1>4, <1>5, <1>6, <1>7, <1>9, <1>10, <1>11, <1>12, <1>13, <1>14, <1>15
     DEF Next, LoopStep, Over

\* Windows follow each other at their nominal times however late the loop
\* handles the timers, in every major frame of positive length.
THEOREM NoDriftHolds == ASSUME FrameAdvances PROVE Spec => []NoDrift
<1>1. Init => InStep
  BY DEF Init, InStep
<1>2. IInv /\ InStep /\ [Next]_vars => InStep'
  BY InStepStep
<1>3. InStep => NoDrift
  BY DEF InStep, NoDrift, Nominal
<1>4. QED
  BY <1>1, <1>2, <1>3, Invariance, PTL DEF Spec

-------------------------------------------------------------------------------
(* The turns of the processes *)

\* Between two handlers the time of the last one is forgotten, a budget timer
\* in the batch has expired, and a partition reports to a slice it belongs to.
Told ==
    /\ op \in {"idle", "exit"} => ctime = 0
    /\ \A s \in Slice : SliceEv(s) \in pending => timeout[s] =< 0
    /\ \A s \in Slice : \A q \in Partition : completed_cb[q] = s => q \in {Sc[s], Be[s]}

\* A poll collects the budget timers that have expired.
LEMMA ReadyExpired ==
    ASSUME NEW s \in Slice, SliceEv(s) \in Ready \cup {StartupEv} PROVE timeout[s] =< 0
BY SliceEventsDiffer DEF Ready

\* Slice::start_next_process passes over processes of its own queue only, and
\* only over those that are given no budget.
LEMMA OutcomeSkips ==
    ASSUME NEW ps, Len(ps) \in Nat \ {0}, NEW c \in Int, NEW pend, NEW draw, NEW none,
           NEW o \in StartNext(ps, c, pend, draw, none), NEW p \in o.skipped
    PROVE  p \in pend /\ 0 \in draw[p] /\ \E i \in 1 .. Len(ps) : p = ps[i]
<1>1. PICK k \in PendingSteps(ps, c, pend) :
          p = ProcAhead(ps, c, k) /\ 0 \in draw[ProcAhead(ps, c, k)]
  BY DEF StartNext, Chosen, Exhausted
<1>2. k \in Int /\ ProcAhead(ps, c, k) \in pend
  BY DEF PendingSteps, Steps
<1>3. QED
  BY <1>1, <1>2, AheadType DEF ProcAhead

\* The same of the completed flags that it sets.
LEMMA StartNextSkips ==
    ASSUME PartTypeOK, NEW s \in Slice, NEW q \in Partition, NEW cur \in 1 .. Len(Processes[q]),
           NEW comp, NEW ct, NEW S, NEW dc, NEW op0, NEW todo0,
           StartNextProcess(s, q, cur, comp, ct, S, dc, op0, todo0),
           NEW p \in completed', p \notin comp
    PROVE  p \in Proc /\ PartOf[p] = q /\ 0 \in Draw(p)
<1> DEFINE draw == [r \in Proc |-> Draw(r)]
<1>1. PICK o \in StartNext(Processes[q], cur, PendingProcs(comp), draw, NoProc) : p \in o.skipped
  BY DEF StartNextProcess
<1>2. /\ Processes[q] \in Seq(Proc) /\ Len(Processes[q]) \in Nat \ {0} /\ cur \in Int
      /\ \A i \in 1 .. Len(Processes[q]) : Processes[q][i] \in Proc /\ PartOf[Processes[q][i]] = q
  BY QueueFacts
<1>3. 0 \in draw[p] /\ \E i \in 1 .. Len(Processes[q]) : p = Processes[q][i]
  <2> HIDE DEF draw
  <2> QED BY <1>1, <1>2, OutcomeSkips
<1>4. QED
  BY <1>2, <1>3

\* The slice that is served is the only one to run a process of its partition.
LEMMA Alone ==
    ASSUME PartitionsApart, IInv, NEW s \in Windows[current_win], NEW q \in Partition,
           \/ op = "startSc" /\ q = Sc[s]
           \/ op = "startBe" /\ q = Be[s]
           \/ op = "idle" /\ s \in timer /\ q = running_partition[s],
           NEW t \in Slice, t # s, NEW p \in Proc, PartOf[p] = q
    PROVE  running_process[t] # p
<1> SUFFICES ASSUME running_process[t] = p PROVE FALSE
  OBVIOUS
<1>1. /\ p # NoProc /\ q # NoPartition /\ current_win \in DOMAIN Windows
      /\ t \in timer /\ t \in Windows[current_win] /\ running_partition[t] = q
  <2>1. p # NoProc /\ q # NoPartition
    BY SchedulerAssumption
  <2>2. QED
    BY <2>1 DEF IInv, BudgetTimer, TypeOK, WindowTypeOK
<1>2. (q = Sc[s] /\ q = Sc[t]) \/ (q = Be[s] /\ q = Be[t])
  <2>1. CASE op = "idle" /\ s \in timer /\ q = running_partition[s]
    <3>1. ScPhase \/ BePhase
      BY <1>1, <2>1 DEF IInv, Phases, Between
    <3>2. QED
      BY <1>1, <2>1, <3>1 DEF ScPhase, BePhase
  <2>2. CASE op = "startSc" /\ q = Sc[s]
    BY <1>1, <2>2 DEF IInv, Phases, ScPhase
  <2>3. CASE op = "startBe" /\ q = Be[s]
    BY <1>1, <2>3 DEF IInv, Phases, BePhase
  <2>4. QED
    BY <2>1, <2>2, <2>3
<1>3. QED
  BY <1>1, <1>2 DEF PartitionsApart

\* What a handler that starts processes in slice s leaves of Told.
LEMMA ToldStarts ==
    ASSUME IInv, Told, NEW s \in Slice, NEW q, NEW cur, NEW comp, NEW ct, NEW S, NEW dc,
           NEW op0, NEW todo0, StartNextProcess(s, q, cur, comp, ct, S, dc, op0, todo0),
           op0 \in {"idle", "startSc", "startBe"},
           pending' \subseteq pending, SliceEv(s) \notin pending',
           \/ UNCHANGED completed_cb
           \/ q \in {Sc[s], Be[s]} /\ completed_cb' = [completed_cb EXCEPT ![q] = s]
    PROVE  Told'
<1>1. op' \in {"idle", "exit"} => ctime' = 0
  BY DEF StartNextProcess, SliceScEnd, ContinueWith
<1>2. \A t \in Slice : SliceEv(t) \in pending' => timeout'[t] =< 0
  <2> SUFFICES ASSUME NEW t \in Slice, SliceEv(t) \in pending' PROVE timeout'[t] =< 0
    OBVIOUS
  <2>1. t # s /\ timeout'[t] = timeout[t]
    BY OwnSlice DEF IInv, TypeOK
  <2>2. QED
    BY <2>1 DEF Told
<1>3. \A t \in Slice : \A r \in Partition : completed_cb'[r] = t => r \in {Sc[t], Be[t]}
  BY DEF Told, IInv, TypeOK, PartTypeOK
<1>4. QED
  BY <1>1, <1>2, <1>3 DEF Told, SliceEv

\* What a handler that leaves the budget timers alone leaves of Told.
LEMMA ToldKept ==
    ASSUME Told, UNCHANGED timeout, pending' \subseteq pending,
           op' \in {"idle", "exit"} => ctime' = 0,
           completed_cb' = completed_cb \/ \E cb \in {"init", "noop"} :
                                               completed_cb' = [q \in Partition |-> cb]
    PROVE  Told'
<1>0. "init" \notin Slice /\ "noop" \notin Slice
  BY AssignmentFacts
<1>1. \A s \in Slice : \A q \in Partition : completed_cb'[q] = s => q \in {Sc[s], Be[s]}
  BY <1>0 DEF Told
<1>2. QED
  BY <1>1 DEF Told, SliceEv

\* PartitionManager::finish_process_init and what leads to it.
LEMMA ToldFinish ==
    ASSUME NEW rest, rest \subseteq pending, FinishProcessInit(rest)
    PROVE  /\ op' \notin {"idle", "exit"} /\ pending' \subseteq pending
           /\ completed_cb' = [q \in Partition |-> "noop"]
BY DEF FinishProcessInit, InitiateShutdown, MfStop, MfStart

\* Every step preserves Told.
LEMMA ToldStep == ASSUME IInv, Told, [Next]_vars PROVE Told'
<1>1. ASSUME NEW rest, rest \subseteq pending, NEW op0, OneInitLess(rest, op0), op = "idle",
             UNCHANGED timeout
      PROVE  Told'
  <2>1. CASE FinishProcessInit(rest)
    BY <1>1, <2>1, ToldFinish, ToldKept
  <2>2. CASE pending' = rest /\ UNCHANGED <<completed_cb, ctime>>
    BY <1>1, <2>2, ToldKept DEF Told
  <2>3. QED
    BY <1>1, <2>1, <2>2 DEF OneInitLess
<1>2. CASE Poll
  <2>1. UNCHANGED <<timeout, op, ctime, completed_cb>> /\ pending' \subseteq Ready \cup {StartupEv}
    BY <1>2 DEF Poll, partVars, sliceVars, ctlVars
  <2>2. \A s \in Slice : SliceEv(s) \in pending' => timeout[s] =< 0
    BY <2>1, ReadyExpired
  <2>3. QED
    BY <2>1, <2>2 DEF Told, SliceEv
<1>3. CASE Startup
  <2>1. CASE /\ completed_cb' = [q \in Partition |-> "init"]
             /\ pending' = pending \ {StartupEv} /\ UNCHANGED ctlVars
    BY <1>3, <2>1, ToldKept DEF Told, Startup, ctlVars, sliceVars
  <2>2. CASE FinishProcessInit(pending \ {StartupEv})
    BY <1>3, <2>2, ToldFinish, ToldKept DEF Startup, sliceVars
  <2>3. QED
    BY <1>3, <2>1, <2>2 DEF Startup
<1>4. ASSUME NEW p \in Proc, CompletedInit(p) PROVE Told'
  BY <1>1, <1>4 DEF CompletedInit, Dispatch, sliceVars
<1>5. ASSUME NEW p \in Proc, ProcessEnded(p) PROVE Told'
  <2>1. PICK e : /\ Dispatch(e)
                 /\ \/ OneInitLess(pending \ {e}, "exit")
                    \/ pending' = pending \ {e} /\ UNCHANGED <<completed_cb, ctime>>
    BY <1>5 DEF ProcessEnded
  <2>2. op = "idle" /\ UNCHANGED timeout
    BY <1>5, <2>1 DEF ProcessEnded, Dispatch, sliceVars
  <2>3. QED
    BY <1>1, <2>1, <2>2, ToldKept DEF Told
<1>6. ASSUME NEW s \in Slice, SliceTimer(s) \/ \E p \in Proc : CompletedInSlice(p, s) PROVE Told'
  <2>1. PICK ct, dc : ScheduleNext(s, ct, dc)
    BY <1>6 DEF SliceTimer, CompletedInSlice
  <2>2. pending' \subseteq pending /\ SliceEv(s) \notin pending'
    BY <1>6 DEF SliceTimer, CompletedInSlice
  <2>3. QED
    BY <2>1, <2>2, ToldStarts DEF ScheduleNext
<1>7. ASSUME NEW s \in Slice, StartSc(s) \/ StartBe(s) PROVE Told'
  <2>0. SliceEv(s) \notin pending /\ UNCHANGED pending /\ op \in {"startSc", "startBe"}
    BY <1>7 DEF StartSc, StartBe, IInv, Phases
  <2>1. CASE UNCHANGED <<partVars, sliceVars>>
    <3>1. op' \in {"idle", "exit"} => FALSE
      BY <1>7, <2>0, <2>1 DEF StartSc, StartBe, SliceScEnd, StartPartition, StartNextProcess,
         ContinueWith
    <3>2. QED
      BY <2>0, <2>1, <3>1, ToldKept DEF partVars, sliceVars
  <2>2. CASE StartPartition(s, Sc[s], TRUE, "startSc", todo \ {s})
    BY <2>0, <2>2, ToldStarts DEF StartPartition
  <2>3. CASE StartPartition(s, Be[s], FALSE, "startBe", todo \ {s})
    BY <2>0, <2>3, ToldStarts DEF StartPartition
  <2>4. QED
    BY <1>7, <2>1, <2>2, <2>3 DEF StartSc, StartBe
<1>8. ASSUME NEW s \in Slice, StopSlice(s) PROVE Told'
  <2>1. /\ op' = "stop" /\ pending' = pending \ {SliceEv(s)}
        /\ timeout' = [timeout EXCEPT ![s] = 0] /\ timeout \in [Slice -> Int]
        /\ completed_cb' = [r \in Partition |-> IF r \in {Sc[s], Be[s]} THEN "noop"
                                                ELSE completed_cb[r]]
    BY <1>8 DEF StopSlice, IInv, TypeOK, SliceTypeOK
  <2>2. \A t \in Slice : \A r \in Partition : completed_cb'[r] = t => r \in {Sc[t], Be[t]}
    BY <2>1, AssignmentFacts DEF Told
  <2>3. QED
    BY <2>1, <2>2 DEF Told, SliceEv
<1>9. CASE Tick
  <2>1. /\ UNCHANGED <<op, ctime, pending, completed_cb>>
        /\ \A s \in Slice : timeout'[s] = IF s \in timer THEN timeout[s] - 1 ELSE 0
        /\ timeout \in [Slice -> Int]
    BY <1>9 DEF Tick, ctlVars, partVars, IInv, TypeOK, SliceTypeOK
  <2>2. QED
    BY <2>1 DEF Told, SliceEv
<1>10. ASSUME NEW p \in Proc, \/ CompletedIgnored(p) \/ Client(p) \/ ChildTerminatedButPopulated(p)
                              \/ \E s \in Slice : CompletedCrash(p, s)
       PROVE  Told'
  <2>1. UNCHANGED <<timeout, op, ctime, completed_cb>> /\ pending' \subseteq pending
    BY <1>10 DEF CompletedIgnored, Client, ChildTerminatedButPopulated, CompletedCrash, partVars,
       sliceVars, ctlVars
  <2>2. QED
    BY <2>1, ToldKept DEF Told
<1>11. ASSUME \/ LoopReturns \/ ReceiveSignal \/ UNCHANGED vars \/ ExitCheck
              \/ WindowTimer \/ RunTimer \/ Signal \/ StartDone \/ EnterNextWindow \/ BreakLoop
              \/ KillProcesses
       PROVE  Told'
  <2>1. UNCHANGED <<timeout, completed_cb>> /\ pending' \subseteq pending
    BY <1>11 DEF LoopReturns, ReceiveSignal, vars, ExitCheck, WindowTimer, RunTimer, Signal,
       StartDone, EnterNextWindow, BreakLoop, KillProcesses, InitiateShutdown, MfStop, partVars,
       sliceVars
  <2>2. op' \in {"idle", "exit"} => ctime' = 0
    BY <1>11 DEF LoopReturns, ReceiveSignal, vars, ExitCheck, WindowTimer, RunTimer, Signal,
       StartDone, EnterNextWindow, BreakLoop, KillProcesses, InitiateShutdown, MfStop, MfStart,
       Return, ctlVars, Told
  <2>3. QED
    BY <2>1, <2>2, ToldKept
<1>12. QED
  BY <1>2, <1>3, <1>4, <1>5, <1>6, <1>7, <1>8, <1>9, <1>10, <1>11 DEF Next, LoopStep, Over

\* No time, or less than no time, is no whole millisecond.
LEMMA Truncated == ASSUME NEW t \in Int, t =< 0 PROVE ToMs(t) =< 0
<1>1. TicksPerMs \in Nat \ {0}
  BY SchedulerAssumption
<1>2. CASE t = 0
  BY <1>1, <1>2 DEF ToMs
<1>3. CASE t < 0
  <2>1. -t \in Nat /\ (-t) \div TicksPerMs >= 0 /\ (-t) \div TicksPerMs \in Int
    BY <1>1, <1>3
  <2>2. QED
    BY <1>3, <2>1 DEF ToMs
<1>4. QED
  BY <1>2, <1>3

\* Every step that takes away the turn of a process has a reason to.
LEMMA TurnStep ==
    ASSUME PartitionsApart, IInv, Told, [Next]_vars, NEW p \in completed', p \notin completed
    PROVE  \/ 0 \in Draw(p) /\ \A s \in Slice : running_process[s] # p
           \/ \E s \in Slice :
                 /\ running_process[s] = p
                 /\ \/ ToMs(timeout[s] - ctime) =< 0
                    \/ \E q \in Proc : /\ PartOf[q] \in {Sc[s], Be[s]}
                                       /\ completed_w[q] > 0
                                       /\ completed_w'[q] = 0
<1> DEFINE Passed == 0 \in Draw(p) /\ \A s \in Slice : running_process[s] # p
           Reported(s) == \E q \in Proc : /\ PartOf[q] \in {Sc[s], Be[s]}
                                          /\ completed_w[q] > 0
                                          /\ completed_w'[q] = 0
           Reason == \E s \in Slice : /\ running_process[s] = p
                                      /\ ToMs(timeout[s] - ctime) =< 0 \/ Reported(s)
<1>0. /\ PartTypeOK /\ SliceTypeOK /\ TypeOK
      /\ \A s \in timer : s \in Slice /\ s \in Windows[current_win]
      /\ Windows[current_win] \subseteq Slice
      /\ todo \subseteq Windows[current_win]
      /\ \A q \in Partition : current_proc[q] \in 1 .. Len(Processes[q])
      /\ \A q \in Partition : 1 \in 1 .. Len(Processes[q])
  BY WindowFacts, QueueFacts DEF IInv, TypeOK, PartTypeOK, SliceTypeOK, WindowTypeOK, BudgetTimer
<1>1. ASSUME NEW s \in Slice, NEW q \in Partition, q = Sc[s] \/ q = Be[s],
             s \in todo, NEW b \in BOOLEAN, NEW todo0,
             \/ op = "startSc" /\ q = Sc[s]
             \/ op = "startBe" /\ q = Be[s],
             StartPartition(s, q, b, op, todo0)
      PROVE  Passed
  <2>1. PICK cur \in 1 .. Len(Processes[q]), comp \in SUBSET completed :
            StartNextProcess(s, q, cur, comp, ctime, {}, demos_completed, op, todo0)
            /\ \A r \in completed : PartOf[r] # q => r \in comp
    BY <1>0, <1>1 DEF StartPartition
  <2>2. p \in Proc /\ PartOf[p] = q /\ 0 \in Draw(p)
    BY <1>0, <2>1, StartNextSkips
  <2>3. running_process[s] # p
    <3>1. s \notin timer
      BY <1>1 DEF IInv, Phases
    <3>2. NoProc \notin Proc
      BY SchedulerAssumption
    <3>3. QED
      BY <2>2, <3>1, <3>2 DEF IInv, BudgetTimer
  <2>4. \A t \in Slice : t # s => running_process[t] # p
    BY <1>0, <1>1, <2>2, Alone
  <2>5. QED
    BY <2>2, <2>3, <2>4
<1>2. ASSUME NEW s \in Slice, StartSc(s) \/ StartBe(s) PROVE Passed
  <2>1. CASE UNCHANGED partVars
    BY <2>1 DEF partVars
  <2>2. CASE /\ op = "startSc" /\ s \in todo /\ Sc[s] # NoPartition
             /\ StartPartition(s, Sc[s], TRUE, "startSc", todo \ {s})
    BY <1>1, <2>2, AssignmentFacts
  <2>3. CASE /\ op = "startBe" /\ s \in todo /\ Be[s] # NoPartition
             /\ StartPartition(s, Be[s], FALSE, "startBe", todo \ {s})
    BY <1>1, <2>3, AssignmentFacts
  <2>4. QED
    BY <1>2, <2>1, <2>2, <2>3 DEF StartSc, StartBe
<1>3. ASSUME NEW s \in timer, op = "idle", NEW ct, NEW dc, ScheduleNext(s, ct, dc)
      PROVE  Passed \/ running_process[s] = p
  <2>1. PICK r, q : r = running_process[s] /\ q = running_partition[s]
    OBVIOUS
  <2>2. r \in Proc /\ q \in Partition /\ PartOf[r] = q /\ s \in Windows[current_win] /\ s \in Slice
    BY <1>0, <2>1, AssignmentFacts DEF IInv, BudgetTimer, SliceTypeOK
  <2>3. StartNextProcess(s, q, current_proc[q], completed \cup {r}, ct, {r}, dc, "idle", {})
    BY <1>3, <2>1 DEF ScheduleNext
  <2>4. SUFFICES ASSUME p # r PROVE Passed
    BY <2>1
  <2>5. p \in Proc /\ PartOf[p] = q /\ 0 \in Draw(p)
    BY <1>0, <2>2, <2>3, <2>4, StartNextSkips
  <2>6. \A t \in Slice : t # s => running_process[t] # p
    BY <1>3, <2>1, <2>2, <2>5, Alone
  <2>7. QED
    BY <2>1, <2>4, <2>5, <2>6
<1>4. ASSUME NEW s \in Slice, SliceTimer(s) PROVE Passed \/ Reason
  <2>1. op = "idle" /\ s \in timer /\ ctime = 0 /\ timeout[s] =< 0 /\ timeout[s] \in Int
    BY <1>0, <1>4 DEF SliceTimer, Dispatch, IInv, Phases, Told, SliceTypeOK
  <2>2. timeout[s] - ctime \in Int /\ timeout[s] - ctime =< 0
    BY <2>1
  <2>3. ToMs(timeout[s] - ctime) =< 0
    BY <2>2, Truncated
  <2>4. QED
    BY <1>3, <1>4, <2>1, <2>3 DEF SliceTimer
<1>5. ASSUME NEW r \in Proc, NEW s \in Slice, CompletedInSlice(r, s) PROVE Passed \/ Reason
  <2>1. op = "idle" /\ s \in timer
    BY <1>5 DEF CompletedInSlice, Dispatch, IInv, BudgetTimer
  <2>2. PartOf[r] \in {Sc[s], Be[s]}
    BY <1>5, AssignmentFacts DEF CompletedInSlice, Told
  <2>3. completed_w[r] > 0 /\ completed_w'[r] = 0
    BY <1>0, <1>5 DEF CompletedInSlice, Dispatch, IInv, CompletionUnread, TypeOK, ApiTypeOK
  <2>4. Reported(s)
    BY <2>2, <2>3
  <2>5. QED
    BY <1>3, <1>5, <2>1, <2>4 DEF CompletedInSlice
<1>6. ASSUME NEW s \in Slice, StopSlice(s) PROVE Reason
  <2>1. p = running_process[s] /\ Remaining(s) = 0
    BY <1>6 DEF StopSlice
  <2>2. QED
    BY <2>1 DEF Remaining
<1>7. ASSUME NEW r \in Proc, \/ CompletedIgnored(r) \/ CompletedInit(r) \/ Client(r) \/ ProcessEnded(r)
                             \/ ChildTerminatedButPopulated(r) \/ \E s \in Slice : CompletedCrash(r, s)
      PROVE  FALSE
  BY <1>7 DEF CompletedIgnored, CompletedInit, Client, ProcessEnded, ChildTerminatedButPopulated,
     CompletedCrash, partVars
<1>8. ASSUME \/ Poll \/ LoopReturns \/ Tick \/ ReceiveSignal \/ UNCHANGED vars \/ ExitCheck
             \/ WindowTimer \/ RunTimer \/ Signal \/ StartDone \/ EnterNextWindow \/ BreakLoop
             \/ KillProcesses \/ Startup
      PROVE  FALSE
  BY <1>8 DEF Poll, LoopReturns, Tick, ReceiveSignal, vars, ExitCheck, WindowTimer, RunTimer,
     Signal, StartDone, EnterNextWindow, BreakLoop, KillProcesses, Startup, partVars
<1>9. QED
  BY <1>2, <1>4, <1>5, <1>6, <1>7, <1>8 DEF Next, LoopStep, Over

\* A process loses its turn in the window only if it has no whole millisecond
\* left, a process of the partitions of its own slice reported a completion, or it
\* was given no budget, provided that no two slices of one window share an SC or a
\* BE partition.
THEOREM TurnKeptHolds == ASSUME PartitionsApart PROVE Spec => TurnKept
<1>1. Init => Told
  <2> SUFFICES ASSUME Init PROVE Told
    OBVIOUS
  <2>1. "null" \notin Slice
    BY AssignmentFacts
  <2>2. QED
    BY <2>1 DEF Init, Told
<1>2. IInv /\ Told /\ [Next]_vars => Told'
  BY ToldStep
<1>3. IInv /\ Told /\ [Next]_vars =>
          [\A p \in completed' \ completed :
              \/ 0 \in Draw(p) /\ \A s \in Slice : running_process[s] # p
              \/ \E s \in Slice :
                    /\ running_process[s] = p
                    /\ \/ ToMs(timeout[s] - ctime) =< 0
                       \/ \E q \in Proc : /\ PartOf[q] \in {Sc[s], Be[s]}
                                          /\ completed_w[q] > 0
                                          /\ completed_w'[q] = 0]_vars
  BY TurnStep
<1>4. QED
  BY <1>1, <1>2, <1>3, Invariance, PTL DEF Spec, TurnKept

===============================================================================
