--------------------------- MODULE PoweredScheduler ---------------------------
(***************************************************************************)
(* The scheduler together with a power policy: Slice and Window call the   *)
(* handlers of PowerPolicy while they start and stop processes.            *)
(***************************************************************************)
EXTENDS Scheduler, PowerPolicy

CONSTANTS
    Policies,        \* values of option -p, as records of a name and unsigned arguments
    Requests         \* tables of the frequencies requested by processes and slices

ASSUME RequestsAssumption ==
    /\ \A o \in Policies : o.args \in Seq(Nat)
    /\ \A r \in Requests : r.proc \in [Proc -> Nat] /\ r.slice \in [Slice -> Nat]

VARIABLES
    power,           \* the policy object
    request,         \* the requested frequencies of the configuration
    starting         \* Window::start is under way

powerVars == <<power, request, starting>>

\* Slice::stop_current_process and start_next_process tell the policy of the
\* process that ends and of the one that starts, which has been resumed before.
ProcessEvents(pw) ==
    LET changed == {s \in Slice : running_process'[s] # running_process[s]}
        s == CHOOSE t \in changed : TRUE
        ended == IF running_process[s] = NoProc THEN pw
                 ELSE OnProcessEnd(pw, running_process[s])
        p == running_process'[s]
    IN  IF changed = {} THEN pw
        ELSE IF p = NoProc THEN ended
        ELSE OnProcessStart(ended, p, request.proc, cpus'[PartOf[p]])

WindowEventsFault(pw) ==
    IF ~(op \in {"startSc", "startBe"} /\ todo = {}) THEN pw
    ELSE LET be == IF op = "startBe" THEN OnBeStart(pw) ELSE pw
         IN  IF ~starting THEN be
             ELSE OnWindowStart(be, Windows[current_win], request.slice, Cpus)

\* The handlers called once the slices have been started: on_be_start by
\* slice_sc_end_cb, then, if that was nested in Window::start, or if it was not
\* called, on_window_start and on_sc_start.
WindowEvents(pw) ==
    IF ~(op \in {"startSc", "startBe"} /\ todo = {}) THEN pw
    ELSE LET be == IF op = "startBe" THEN OnBeStart(pw) ELSE pw
         IN  IF ~starting THEN be
             ELSE OnScStart(OnWindowStart(be, Windows[current_win], request.slice, Cpus))

ValidateFault(name) ==
    /\ name \in PerProcess =>
          \A s \in Slice, c \in PolicyClusters(name), p \in Proc :
              request.proc[p] # 0 /\ PartOf[p] = Sc[s] /\ Touches(Cpus[s], c)
              => ValidFrequency(c, request.proc[p])
    /\ name = "imx8_per_slice" =>
          \A s \in Slice, c \in PolicyClusters(name) :
              request.slice[s] # 0 /\ Touches(Cpus[s], c)
              => ValidFrequency(c, request.slice[s])

\* PowerPolicy::validate, at the end of Config::create_scheduler_objects: every
\* frequency requested on a cluster is one that the cluster supports.
Validate(name) ==
    /\ name \in PerProcess =>
          \A s \in Slice, c \in PolicyClusters(name), p \in Proc :
              request.proc[p] # 0 /\ PartOf[p] \in {Sc[s], Be[s]} /\ Touches(Cpus[s], c)
              => ValidFrequency(c, request.proc[p])
    /\ name = "imx8_per_slice" =>
          \A s \in Slice, c \in PolicyClusters(name) :
              request.slice[s] # 0 /\ Touches(Cpus[s], c)
              => ValidFrequency(c, request.slice[s])

\* A policy that cannot be created, or refuses the configuration, ends main()
\* before the scheduler runs.
PowerInit ==
    /\ Init
    /\ request \in Requests
    /\ \E o \in Policies :
          /\ Accepted(o.name, o.args)
          /\ Validate(o.name)
          /\ power = NewPolicy(o.name, o.args)
    /\ starting = FALSE

\* One step of the scheduler with the events it raises.  A handler that throws
\* ends the program: the exception leaves the event loop.
PowerStep ==
    /\ ~power.threw
    /\ Next
    /\ power' = WindowEvents(ProcessEvents(power))
    /\ starting' = (op' = "startSc" \/ (op' = "startBe" /\ starting))
    /\ UNCHANGED request

Thrown ==
    /\ power.threw
    /\ UNCHANGED <<vars, powerVars>>

PowerNext == PowerStep \/ Thrown

PowerSpec == PowerInit /\ [][PowerNext]_<<vars, powerVars>>

-------------------------------------------------------------------------------
(* Properties *)

Running == {running_process[s] : s \in Slice} \ {NoProc}

\* The running processes that request a frequency on cluster c.
Requesters(c) ==
    {p \in Running : request.proc[p] # 0 /\ Touches(cpus[PartOf[p]], c)}

\* The policy keeps exactly the running requesters of each cluster, each once,
\* although a process may end on other CPUs than it will be started on next.
RequestersRunning ==
    power.name \in PerProcess /\ ~power.threw =>
        \A c \in PolicyClusters(power.name) :
            /\ ToSet(power.requesting_procs[c]) = Requesters(c)
            /\ IsInjective(power.requesting_procs[c])

\* A process that requests a frequency has it on every active cluster that it
\* runs on, for as long as it runs, whatever starts or ends on other CPUs.
FrequencyGranted ==
    power.name \in PerProcess /\ ~power.threw =>
        \A c \in PolicyClusters(power.name) : \A p \in Requesters(c) :
            Active(c) => power.freq[c] = request.proc[p]

\* While a window runs, each of its slices that requests a frequency has it.
SliceFrequencyGranted ==
    power.name = "imx8_per_slice" /\ ~power.threw /\ mf_timer /\ op = "idle" =>
        \A s \in Windows[current_win], c \in {A53, A72} :
            request.slice[s] # 0 /\ Touches(Cpus[s], c) => power.freq[c] = request.slice[s]

\* No frequency is written that the cluster does not support: what validate()
\* checked of the configuration covers all that the handlers write later.
WritesSupported ==
    \A c \in Cluster : power.freq[c] # 0 => ValidFrequency(c, power.freq[c])

RunsOf(part) ==
    {s \in Slice : running_process[s] # NoProc /\ running_partition[s] = part[s]}

\* With minbe every cluster is at the maximum frequency from the start of the SC
\* partitions of a window until the last of them has ended, as the comment in
\* on_sc_start says.
ScAtMax ==
    power.name = "minbe" /\ op = "idle" /\ mf_timer /\ finished_sc_partitions < Total =>
        \A c \in Cluster : Active(c) => power.freq[c] = MaxFrequency[c]

\* With minbe a BE process runs at the minimum frequency, as the comment in
\* on_be_start says.
BeAtMin ==
    power.name = "minbe" /\ op = "idle" /\ RunsOf(Be) # {} =>
        \A c \in Cluster : Active(c) => power.freq[c] = MinFrequency[c]
===============================================================================
