------------------------------ MODULE ProcessApi ------------------------------
(***************************************************************************)
(* The protocol between the scheduler and one scheduled system process:    *)
(* the client library (lib/demos-sch.c), the scheduler's Process object    *)
(* (src/process.cpp) and the kernel objects between them: the freezer      *)
(* cgroup, the two eventfds, the exit status and the "populated" flag of   *)
(* the events cgroup.                                                      *)
(*                                                                         *)
(* The scheduler is left abstract: it may suspend and resume any processes *)
(* at any time.  Module Scheduler extends this module, supplies the real   *)
(* scheduler and is shown to implement ApiSpec.                            *)
(***************************************************************************)
EXTENDS Integers

CONSTANTS
    Proc,         \* the configured processes
    HasInit,      \* those configured with `init: yes`
    Cooperative,  \* those whose program calls the client library
    Forking,      \* those that may exit and leave child processes behind
    FastStart     \* those that may run before exec() moved them to the freezer

ASSUME ApiAssumption ==
    /\ HasInit \subseteq Proc
    /\ Cooperative \subseteq Proc
    /\ Forking \subseteq Proc
    /\ FastStart \subseteq Proc

\* Per process; a Boolean attribute is the set of the processes that have it.
VARIABLES
    sysproc,                   \* what the child process is doing
    freezer,                   \* freezer.state of its cgroup, written or settled
    doomed,                    \* SIGKILL was sent
    initialization_pending,    \* static variable of the client library
    completed_w,               \* counter of the completion eventfd
    efd_continue,              \* counter of the new-period semaphore eventfd
    demos_completed,           \* Process::demos_completed
    system_process_spawned,    \* Process::system_process_spawned
    reaped,                    \* child_w was stopped by its callback
    waiting_for_empty_cgroup   \* Process::waiting_for_empty_cgroup

clientVars == <<sysproc, doomed, initialization_pending>>
endVars    == <<system_process_spawned, reaped, waiting_for_empty_cgroup>>
apiVars    == <<clientVars, freezer, completed_w, efd_continue,
                demos_completed, endVars>>

ApiTypeOK ==
    /\ sysproc \in [Proc -> {"running", "blocked", "orphaned", "gone"}]
    /\ freezer \in [Proc -> {"THAWED", "FREEZING", "FROZEN"}]
    /\ doomed \in SUBSET Proc
    /\ initialization_pending \in SUBSET Proc
    /\ completed_w \in [Proc -> Nat]
    /\ efd_continue \in [Proc -> Nat]
    /\ demos_completed \in SUBSET Proc
    /\ system_process_spawned \in SUBSET Proc
    /\ reaped \in SUBSET Proc
    /\ waiting_for_empty_cgroup \in SUBSET Proc

\* The state after create_processes(): every child is forked and its cgroup is
\* told to freeze.  A child in FastStart may still run for a while: exec()
\* moves it into the freezer only after fork().
ApiInit ==
    /\ sysproc = [p \in Proc |-> "running"]
    /\ freezer = [p \in Proc |-> IF p \in FastStart THEN "FREEZING" ELSE "FROZEN"]
    /\ doomed = {}
    /\ initialization_pending = HasInit
    /\ completed_w = [p \in Proc |-> 0]
    /\ efd_continue = [p \in Proc |-> 0]
    /\ demos_completed = {}
    /\ system_process_spawned = Proc
    /\ reaped = {}
    /\ waiting_for_empty_cgroup = {}

-------------------------------------------------------------------------------
(* The child process and the kernel *)

\* Writing FROZEN only requests the freeze: until it has settled the child may
\* still finish what it is doing.
CanRun(p) == freezer[p] # "FROZEN"

FreezeSettles(p) ==
    /\ freezer[p] = "FREEZING"
    /\ freezer' = [freezer EXCEPT ![p] = "FROZEN"]
    /\ UNCHANGED <<clientVars, completed_w, efd_continue, demos_completed, endVars>>

\* demos_completed(): announce completion and block on the new-period eventfd.
\* While initialization is pending the call returns at once and changes nothing.
DemosCompleted(p) ==
    /\ p \in Cooperative
    /\ sysproc[p] = "running"
    /\ CanRun(p)
    /\ p \notin initialization_pending
    /\ completed_w' = [completed_w EXCEPT ![p] = @ + 1]
    /\ sysproc' = [sysproc EXCEPT ![p] = "blocked"]
    /\ UNCHANGED <<freezer, doomed, initialization_pending, efd_continue,
                   demos_completed, endVars>>

\* demos_initialization_completed(): refused without a pending initialization.
DemosInitializationCompleted(p) ==
    /\ p \in Cooperative
    /\ sysproc[p] = "running"
    /\ CanRun(p)
    /\ p \in initialization_pending
    /\ initialization_pending' = initialization_pending \ {p}
    /\ completed_w' = [completed_w EXCEPT ![p] = @ + 1]
    /\ sysproc' = [sysproc EXCEPT ![p] = "blocked"]
    /\ UNCHANGED <<freezer, doomed, efd_continue, demos_completed, endVars>>

\* The blocking read() in demos_completed() takes one token of the semaphore.
ReadNewPeriod(p) ==
    /\ sysproc[p] = "blocked"
    /\ CanRun(p)
    /\ efd_continue[p] > 0
    /\ efd_continue' = [efd_continue EXCEPT ![p] = @ - 1]
    /\ sysproc' = [sysproc EXCEPT ![p] = "running"]
    /\ UNCHANGED <<freezer, doomed, initialization_pending, completed_w,
                   demos_completed, endVars>>

\* The child ends: on its own, or by the SIGKILL sent to its whole cgroup.
Exit(p) ==
    /\ sysproc[p] = "running"
    /\ CanRun(p)
    /\ \/ sysproc' = [sysproc EXCEPT ![p] = "gone"]
       \/ /\ p \in Forking
          /\ sysproc' = [sysproc EXCEPT ![p] = "orphaned"]
    /\ UNCHANGED <<freezer, doomed, initialization_pending, completed_w,
                   efd_continue, demos_completed, endVars>>

OrphansExit(p) ==
    /\ sysproc[p] = "orphaned"
    /\ CanRun(p)
    /\ sysproc' = [sysproc EXCEPT ![p] = "gone"]
    /\ UNCHANGED <<freezer, doomed, initialization_pending, completed_w,
                   efd_continue, demos_completed, endVars>>

Die(p) ==
    /\ p \in doomed
    /\ sysproc[p] # "gone"
    /\ CanRun(p)
    /\ sysproc' = [sysproc EXCEPT ![p] = "gone"]
    /\ UNCHANGED <<freezer, doomed, initialization_pending, completed_w,
                   efd_continue, demos_completed, endVars>>

ClientStep(p) ==
    \/ FreezeSettles(p)
    \/ DemosCompleted(p)
    \/ DemosInitializationCompleted(p)
    \/ ReadNewPeriod(p)
    \/ Exit(p)
    \/ OrphansExit(p)
    \/ Die(p)

-------------------------------------------------------------------------------
(* The scheduler's side: methods of Process *)

SuspendFault(fr) == fr

\* suspend(): the write to freezer.state returns before the freeze has settled.
Suspend(fr) == IF fr = "FROZEN" THEN "FROZEN" ELSE "FREEZING"

\* resume() writes a token to efd_continue if the flag is set, then clears it.
TokensFault(dc, R, p) == IF p \in R THEN 1 ELSE 0
TokensLost(dc, R, p) == 0
Tokens(dc, R, p) == IF p \in R \cap dc THEN 1 ELSE 0

\* suspend() of every process in S followed by resume() of every process in R,
\* where dc is the value of demos_completed when they are called.
SuspendResume(S, R, dc) ==
    /\ freezer' = [p \in Proc |-> IF p \in R THEN "THAWED"
                                  ELSE IF p \in S THEN Suspend(freezer[p])
                                  ELSE freezer[p]]
    /\ efd_continue' = [p \in Proc |-> efd_continue[p] + Tokens(dc, R, p)]
    /\ demos_completed' = dc \ R

\* completed_cb(): the eventfd is read, which zeroes it, and the flag is set.
\* The partition's callback that follows may suspend S and resume R.
Completed(p, S, R) ==
    /\ completed_w[p] > 0
    /\ completed_w' = [completed_w EXCEPT ![p] = 0]
    /\ SuspendResume(S, R, demos_completed \cup {p})
    /\ UNCHANGED <<clientVars, endVars>>

Switch(S, R) ==
    /\ SuspendResume(S, R, demos_completed)
    /\ UNCHANGED <<clientVars, completed_w, endVars>>

\* CgroupUnified::read_populated_status
CgroupEmptyFault(p) == sysproc[p] # "running"
CgroupEmpty(p) == sysproc[p] = "gone"

ChildExitReady(p) == p \notin reaped /\ sysproc[p] \in {"orphaned", "gone"}
PopulatedReady(p) == p \in waiting_for_empty_cgroup /\ CgroupEmpty(p)

\* child_terminated_cb() while the cgroup is populated: wait for it to empty.
ChildTerminatedOrphans(p) ==
    /\ ChildExitReady(p)
    /\ ~CgroupEmpty(p)
    /\ reaped' = reaped \cup {p}
    /\ waiting_for_empty_cgroup' = waiting_for_empty_cgroup \cup {p}
    /\ UNCHANGED <<clientVars, freezer, completed_w, efd_continue,
                   demos_completed, system_process_spawned>>

\* handle_end(), reached from child_terminated_cb() or from populated_cb().
\* The exit callback that follows may suspend the processes in S.
HandleEnd(p, S) ==
    /\ \/ /\ ChildExitReady(p)
          /\ CgroupEmpty(p)
          /\ reaped' = reaped \cup {p}
          /\ UNCHANGED waiting_for_empty_cgroup
       \/ /\ PopulatedReady(p)
          /\ waiting_for_empty_cgroup' = waiting_for_empty_cgroup \ {p}
          /\ UNCHANGED reaped
    /\ system_process_spawned' = system_process_spawned \ {p}
    /\ SuspendResume(S, {}, demos_completed)
    /\ UNCHANGED <<clientVars, completed_w>>

KillAllFault ==
    /\ doomed' = doomed \cup {p \in system_process_spawned : sysproc[p] # "gone"}
    /\ UNCHANGED <<sysproc, freezer, initialization_pending, completed_w,
                   efd_continue, demos_completed, endVars>>

\* kill() of every process: freeze, SIGKILL to the whole cgroup, unfreeze.
KillAll ==
    /\ freezer' = [p \in Proc |-> IF p \in system_process_spawned THEN "THAWED"
                                  ELSE freezer[p]]
    /\ doomed' = doomed \cup {p \in system_process_spawned : sysproc[p] # "gone"}
    /\ UNCHANGED <<sysproc, initialization_pending, completed_w, efd_continue,
                   demos_completed, endVars>>

SchedulerStep ==
    \/ \E p \in Proc, S, R \in SUBSET Proc : Completed(p, S, R)
    \/ \E S, R \in SUBSET Proc : Switch(S, R)
    \/ \E p \in Proc : ChildTerminatedOrphans(p)
    \/ \E p \in Proc, S \in SUBSET Proc : HandleEnd(p, S)
    \/ KillAll

ApiNext == SchedulerStep \/ \E p \in Proc : ClientStep(p)

ApiSpec == ApiInit /\ [][ApiNext]_apiVars

-------------------------------------------------------------------------------
(* Properties *)

Flag(p, set) == IF p \in set THEN 1 ELSE 0

\* How many messages of the completion handshake of p are on their way: the
\* completion not yet read, the flag set by completed_cb(), the token not yet
\* taken by the client.
InFlight(p) == completed_w[p] + Flag(p, demos_completed) + efd_continue[p]

\* No wakeup is lost and none is granted twice: a client blocked in
\* demos_completed() has exactly one message of its handshake under way, and
\* a running client has none, so that resume() lets it pass exactly once.
Handshake ==
    \A p \in Proc :
        /\ sysproc[p] = "blocked" => InFlight(p) = 1
        /\ sysproc[p] = "running" => InFlight(p) = 0
        /\ InFlight(p) \in {0, 1}

\* The exit of a process is reported exactly once and only when its whole
\* cgroup is empty: orphaned children keep the process object spawned.
EndReported ==
    \A p \in Proc :
        /\ p \notin system_process_spawned =>
               sysproc[p] = "gone" /\ p \in reaped /\ p \notin waiting_for_empty_cgroup
        /\ p \in system_process_spawned /\ p \in reaped => p \in waiting_for_empty_cgroup
        /\ p \in waiting_for_empty_cgroup =>
               p \in reaped /\ sysproc[p] \in {"orphaned", "gone"}
===============================================================================
