--------------------------------- MODULE Host ---------------------------------
(***************************************************************************)
(* main(): what an instance of DEmOS acquires from the host (cgroups,      *)
(* cpufreq governors, tasks) and what it gives back when main() returns,   *)
(* throws or is killed; a later instance and cleanup_crash.sh find what is *)
(* left.  DemosScheduler::run() is one step here: Scheduler models it.     *)
(*                                                                         *)
(* There is one partition.  A cgroup is <<hierarchy, node>>, its node      *)
(* "root", "part" or a process.                                            *)
(***************************************************************************)
EXTENDS Integers, Sequences, FiniteSets

CONSTANTS
    Processes,         \* the list of processes of the configuration
    Cluster,           \* the cpufreq policies of the machine
    ActiveClusters,    \* those with online CPUs
    UserspaceClusters, \* those that have the governor "userspace"
    Machines,          \* initial values of pstate, governors and scaling_max_freq,
                       \* and whether DEmOS is given a power policy there
    UserDirs,          \* sets of root cgroups that the user may have created
    MaxInstances

Proc == {Processes[i] : i \in DOMAIN Processes}

ASSUME HostAssumption ==
    /\ Processes \in Seq(Proc)
    /\ Proc \cap {"root", "part", "helper"} = {}
    /\ IsFiniteSet(Cluster)
    /\ UserDirs \subseteq SUBSET {<<h, "root">> : h \in {"unified", "freezer", "cpuset"}}
    /\ MaxInstances \in Nat \ {0}

VARIABLES
    dirs,        \* the cgroups that exist
    tasks,       \* the live tasks: a function to the cgroups that each is in
    signalled,   \* the helpers that were sent SIGTERM
    gov,         \* the scaling_governor of each cpufreq policy
    max_freq,    \* its scaling_max_freq, "full" if it is cpuinfo_max_freq
    pstate,      \* the intel_pstate status, "none" without that driver
    (* the instance *)
    instance,    \* its number
    powered,     \* it is given a power policy
    pc,
    pos,         \* the position in Plan while pc = "setup"
    commands,    \* create_toplevel_cgroups has a command to print
    owned,       \* the objects whose destructor will act
    original,    \* what the constructed CpufreqPolicy objects have saved
    original_intel_pstate_status,
    status,      \* the exit status
    (* history, read by properties only *)
    before,      \* the host when the instance was started
    busy,        \* the cgroups that could not be removed because of a task
    abandoned    \* the cpufreq policies whose constructor threw half-way

hostVars == <<dirs, tasks, signalled>>
freqVars == <<gov, max_freq, pstate>>
objVars  == <<owned, original, original_intel_pstate_status>>
histVars == <<before, busy, abandoned>>
vars == <<hostVars, freqVars, instance, powered, pc, pos, commands, objVars, status,
          histVars>>

-------------------------------------------------------------------------------
(* Cgroups *)

Roots == {<<h, "root">> : h \in {"unified", "freezer", "cpuset"}}
Parts == {<<h, "part">> : h \in {"unified", "freezer", "cpuset"}}
Leaves == {<<h, p>> : h \in {"unified", "freezer"}, p \in Proc}

Children(d) ==
    IF d \in Roots THEN {<<d[1], "part">>}
    ELSE IF d \in Parts THEN {e \in Leaves : e[1] = d[1]} ELSE {}

Occupied(d) == \E t \in DOMAIN tasks : d \in tasks[t]

\* The cgroups that rmdir removes, of a set without parent and child in it.
Removable(D) == {d \in D : ~Occupied(d) /\ Children(d) \cap dirs = {}}

\* ~Cgroup of an object that is to remove its cgroup; a failure is only logged.
Rmdir(D) ==
    /\ dirs' = dirs \ Removable(D)
    /\ busy' = busy \cup {d \in D \cap dirs : Occupied(d)}

-------------------------------------------------------------------------------
(* The order of construction in main() *)

RootPlan ==
    <<<<"helper">>, <<"mkroot", "unified">>, <<"join", "unified">>,
      <<"mkroot", "freezer">>, <<"join", "freezer">>,
      <<"mkroot", "cpuset">>, <<"join", "cpuset">>, <<"checked">>>>

PowerPlan == <<<<"pstate">>, <<"policies">>, <<"manager">>>>

\* Config::create_scheduler_objects: Partition, then its Process objects.
TreePlan ==
    <<<<"mkdir", <<"cpuset", "part">>>>, <<"mkdir", <<"freezer", "part">>>>,
      <<"mkdir", <<"unified", "part">>>>>>
    \o [i \in 1 .. 2 * Len(Processes) |->
           <<"mkdir", <<IF i % 2 = 1 THEN "unified" ELSE "freezer",
                        Processes[(i + 1) \div 2]>>>>]
    \o <<<<"validate">>>>

SpawnPlanFault ==
    [i \in 1 .. 4 * Len(Processes) |->
        LET proc == Processes[(i + 3) \div 4]
        IN  <<<<"fork", proc>>, <<"add", proc, <<"cpuset", "part">>>>,
              <<"add", proc, <<"unified", proc>>>>,
              <<"add", proc, <<"freezer", proc>>>>>>[((i - 1) % 4) + 1]]

\* DemosScheduler::setup: Process::exec and Partition::create_processes.
SpawnPlan ==
    [i \in 1 .. 4 * Len(Processes) |->
        LET proc == Processes[(i + 3) \div 4]
        IN  <<<<"fork", proc>>, <<"add", proc, <<"unified", proc>>>>,
              <<"add", proc, <<"freezer", proc>>>>,
              <<"add", proc, <<"cpuset", "part">>>>>>[((i - 1) % 4) + 1]]

Plan == RootPlan \o (IF powered THEN PowerPlan ELSE <<>>) \o TreePlan
            \o SpawnPlan \o <<<<"run">>>>

\* The step that main() takes next is of the given kind.
At(kind) == pc = "setup" /\ Plan[pos][1] = kind
Arg == Plan[pos][2]

Proceed == pos' = pos + 1 /\ UNCHANGED <<pc, status>>

\* An exception, or the return statement: the destructors run.
Unwind(code) == pc' = "unwind" /\ status' = code /\ UNCHANGED pos

-------------------------------------------------------------------------------
(* create_toplevel_cgroups *)

Helper == <<"helper", instance>>

\* The dummy child that tests the permissions.
ForkHelper ==
    /\ At("helper")
    /\ \/ /\ tasks' = [t \in DOMAIN tasks \cup {Helper} |->
                          IF t = Helper THEN {} ELSE tasks[t]]
          /\ Proceed
       \/ Unwind(1) /\ UNCHANGED tasks
    /\ UNCHANGED <<dirs, signalled, freqVars, instance, powered, commands, objVars,
                   histVars>>

\* The destructor of the dummy child.
KillHelper == signalled' = signalled \cup {Helper}

\* A root cgroup that exists is used and will not be removed.
OwnRootFault(d) == owned \cup {d}
OwnRoot(d) == IF d \in dirs THEN owned ELSE owned \cup {d}

\* Cgroup(path, true) and handle_cgroup_exc.
MakeRoot ==
    LET d == <<Arg, "root">>
    IN  /\ At("mkroot")
        /\ \/ /\ dirs' = dirs \cup {d}
              /\ owned' = OwnRoot(d)
              /\ Proceed
              /\ UNCHANGED <<signalled, commands>>
           \/ /\ d \notin dirs   \* EACCES, EPERM, EROFS, ENOENT
              /\ commands' = TRUE
              /\ Proceed
              /\ UNCHANGED <<dirs, signalled, owned>>
           \/ /\ d \notin dirs   \* any other error
              /\ KillHelper
              /\ Unwind(1)
              /\ UNCHANGED <<dirs, commands, owned>>
        /\ UNCHANGED <<tasks, freqVars, instance, powered, original,
                       original_intel_pstate_status, histVars>>

\* Cgroup::add_process of the dummy child; it fails without the cgroup.
JoinRoot ==
    LET d == <<Arg, "root">>
    IN  /\ At("join")
        /\ \/ /\ d \in dirs
              /\ tasks' = [tasks EXCEPT ![Helper] = @ \cup {d}]
              /\ UNCHANGED commands
           \/ /\ commands' = TRUE
              /\ UNCHANGED tasks
        /\ Proceed
        /\ UNCHANGED <<dirs, signalled, freqVars, instance, powered, objVars, histVars>>

\* The end of create_toplevel_cgroups; main() returns 1 if it failed.
RootsChecked ==
    /\ At("checked")
    /\ KillHelper
    /\ IF commands THEN Unwind(1) ELSE Proceed
    /\ UNCHANGED <<dirs, tasks, freqVars, instance, powered, commands, objVars, histVars>>

-------------------------------------------------------------------------------
(* PowerManager and CpufreqPolicy *)

Governor == {"schedutil", "performance", "powersave", "userspace"}

\* The governors of a cpufreq policy in a mode of the driver.
Supported(c, mode) ==
    IF mode = "active" THEN {"performance", "powersave"}
    ELSE IF c \in UserspaceClusters THEN Governor ELSE Governor \ {"userspace"}

\* The host is in a state that the kernel allows before DEmOS is started.
ASSUME MachinesAssumption ==
    \A m \in Machines :
        /\ m.powered \in BOOLEAN
        /\ m.gov \in [Cluster -> Governor]
        /\ \A c \in Cluster : m.gov[c] \in Supported(c, m.pstate)
        /\ DOMAIN m.max = Cluster

\* The kernel resets the governors when intel_pstate changes its mode.
SwitchPstate(mode) ==
    \/ /\ pstate = mode
       /\ UNCHANGED <<gov, pstate>>
    \/ /\ pstate # mode
       /\ pstate' = mode
       /\ \E g \in Governor \ {"userspace"} :
             /\ \A c \in Cluster : g \in Supported(c, mode)
             /\ gov' = [c \in Cluster |-> g]

\* write_governor, given the governor that the object believes to be set.  The
\* stream is buffered: a governor that the kernel refuses goes unnoticed.
GovernorAfter(c, g, current) ==
    IF c \notin ActiveClusters \/ g = current \/ g \notin Supported(c, pstate)
    THEN gov[c] ELSE g

\* check_support and setup_intel_pstate_driver
SetupPstate ==
    /\ At("pstate")
    /\ \/ /\ pstate # "off"
          /\ original_intel_pstate_status' = pstate
          /\ IF pstate = "active" THEN SwitchPstate("passive") ELSE UNCHANGED <<gov, pstate>>
          /\ Proceed
       \/ Unwind(1) /\ UNCHANGED <<gov, pstate, original_intel_pstate_status>>
    /\ UNCHANGED <<hostVars, max_freq, instance, powered, commands, owned, original,
                   histVars>>

\* The constructor of CpufreqPolicy, in the order of the directory iterator.
\* It may throw before it has changed anything, after it has changed the
\* governor, or after both; its destructor does not run then.
SetupPolicy(c) ==
    /\ At("policies")
    /\ c \notin DOMAIN original
    /\ \/ /\ gov' = [gov EXCEPT ![c] = GovernorAfter(c, "userspace", gov[c])]
          /\ max_freq' = [max_freq EXCEPT ![c] = "full"]
          /\ original' = [d \in DOMAIN original \cup {c} |->
                             IF d = c THEN [gov |-> gov[c], max |-> max_freq[c]]
                             ELSE original[d]]
          /\ owned' = owned \cup {<<"policy", c>>}
          /\ UNCHANGED <<original_intel_pstate_status, pc, pos, status, abandoned>>
       \/ /\ gov' = [gov EXCEPT ![c] = GovernorAfter(c, "userspace", gov[c])]
          /\ max_freq' \in {max_freq, [max_freq EXCEPT ![c] = "full"]}
          /\ abandoned' = {c}
          /\ Unwind(1)
          /\ UNCHANGED objVars
       \/ Unwind(1) /\ UNCHANGED <<gov, max_freq, objVars, abandoned>>
    /\ UNCHANGED <<hostVars, pstate, instance, powered, commands, before, busy>>

PoliciesDone ==
    /\ At("policies")
    /\ DOMAIN original = Cluster
    /\ Proceed
    /\ UNCHANGED <<hostVars, freqVars, instance, powered, commands, objVars, histVars>>

\* The PowerManager is complete; the constructor of the power policy, which
\* writes frequencies, may still throw.
ManagerBuilt ==
    /\ At("manager")
    /\ owned' = owned \cup {<<"manager">>}
    /\ Proceed \/ Unwind(1)
    /\ UNCHANGED <<hostVars, freqVars, instance, powered, commands, original,
                   original_intel_pstate_status, histVars>>

-------------------------------------------------------------------------------
(* Partitions, processes and the scheduler *)

\* Cgroup(parent, name): an existing cgroup is used and will be removed.  If
\* a file of it cannot be opened the base class is destroyed: see Destroy.
MakeInner ==
    /\ At("mkdir")
    /\ \/ /\ dirs' = dirs \cup {Arg}
          /\ owned' = owned \cup {Arg}
          /\ Proceed \/ Unwind(1)
       \/ /\ Arg \notin dirs
          /\ Unwind(1)
          /\ UNCHANGED <<dirs, owned>>
    /\ UNCHANGED <<tasks, signalled, freqVars, instance, powered, commands, original,
                   original_intel_pstate_status, histVars>>

\* PowerPolicy::validate, and an empty list of partitions or windows.
ValidateConfig ==
    /\ At("validate")
    /\ Proceed \/ Unwind(1)
    /\ UNCHANGED <<hostVars, freqVars, instance, powered, commands, objVars, histVars>>

ForkProcess ==
    LET t == <<Arg, instance>>
    IN  /\ At("fork")
        /\ \/ /\ tasks' = [u \in DOMAIN tasks \cup {t} |-> IF u = t THEN {} ELSE tasks[u]]
              /\ Proceed
           \/ Unwind(1) /\ UNCHANGED tasks
        /\ UNCHANGED <<dirs, signalled, freqVars, instance, powered, commands, objVars,
                       histVars>>

\* Cgroup::add_process; a task that has ended already is accepted by the kernel.
AddProcess ==
    LET t == <<Arg, instance>>
    IN  /\ At("add")
        /\ \/ /\ tasks' = [u \in DOMAIN tasks |-> IF u = t THEN tasks[u] \cup {Plan[pos][3]}
                                                  ELSE tasks[u]]
              /\ Proceed
           \/ Unwind(1) /\ UNCHANGED tasks
        /\ UNCHANGED <<dirs, signalled, freqVars, instance, powered, commands, objVars,
                       histVars>>

RunEndsFault == TRUE

\* run() returns when the cgroups of all processes are empty, whoever is in them.
RunEnds == \A d \in Leaves : d[1] = "unified" => ~Occupied(d)

\* run() returns, or an exception leaves the event loop.
Run ==
    /\ At("run")
    /\ (RunEnds /\ Unwind(0)) \/ Unwind(1)
    /\ UNCHANGED <<hostVars, freqVars, instance, powered, commands, objVars, histVars>>

-------------------------------------------------------------------------------
(* Destruction *)

RankFault(e) ==
    IF e \in Leaves THEN 3 ELSE IF e \in Parts THEN 6
    ELSE IF e = <<"manager">> THEN 5 ELSE IF e[1] = "policy" THEN 4 ELSE 3

\* Objects are destroyed in the reverse order of their declaration: the members
\* of a Process before those of the Partition (partition.hpp asks for that),
\* the PowerManager before the CpufreqPolicy objects that it contains, the root
\* cgroups last.
Rank(e) ==
    IF e \in Leaves THEN 7 ELSE IF e \in Parts THEN 6
    ELSE IF e = <<"manager">> THEN 5 ELSE IF e[1] = "policy" THEN 4 ELSE 3

\* Within a rank: freezer before unified of the same process; unified, freezer,
\* cpuset of the partition; cpuset, freezer, unified of the roots.
Before(e, f) ==
    \/ Rank(e) > Rank(f)
    \/ e \in Leaves /\ f = <<"unified", e[2]>> /\ e[1] = "freezer"
    \/ e \in Parts /\ f \in Parts /\ <<e[1], f[1]>> \in
          {<<"unified", "freezer">>, <<"unified", "cpuset">>, <<"freezer", "cpuset">>}
    \/ e \in Roots /\ f \in Roots /\ <<f[1], e[1]>> \in
          {<<"unified", "freezer">>, <<"unified", "cpuset">>, <<"freezer", "cpuset">>}

DestroyPolicyFault(c) ==
    /\ gov' = [gov EXCEPT ![c] = GovernorAfter(c, original[c].gov, gov[c])]
    /\ UNCHANGED max_freq

\* ~CpufreqPolicy
DestroyPolicy(c) ==
    LET current == IF c \in ActiveClusters THEN "userspace" ELSE original[c].gov
    IN  /\ max_freq' = [max_freq EXCEPT ![c] = original[c].max]
        /\ gov' = [gov EXCEPT ![c] = GovernorAfter(c, original[c].gov, current)]

DestroyManagerFault == UNCHANGED <<gov, pstate>>

\* ~PowerManager: the driver is reset before the governors are.
DestroyManager ==
    IF original_intel_pstate_status = "active" THEN SwitchPstate("active") ELSE UNCHANGED <<gov, pstate>>

Destroy(e) ==
    /\ pc = "unwind"
    /\ e \in owned
    /\ ~\E f \in owned : Before(f, e)
    /\ owned' = owned \ {e}
    /\ \/ /\ e \in Roots \cup Parts \cup Leaves
          /\ Rmdir({e})
          /\ UNCHANGED <<freqVars, original>>
       \/ /\ e = <<"manager">>
          /\ DestroyManager
          /\ UNCHANGED <<dirs, max_freq, original, busy>>
       \/ /\ e[1] = "policy"
          /\ DestroyPolicy(e[2])
          /\ original' = [c \in DOMAIN original \ {e[2]} |-> original[c]]
          /\ UNCHANGED <<dirs, pstate, busy>>
    /\ UNCHANGED <<tasks, signalled, instance, powered, pc, pos, commands,
                   original_intel_pstate_status, status, before, abandoned>>

ExitMain ==
    /\ pc = "unwind"
    /\ owned = {}
    /\ pc' = "exited"
    /\ original_intel_pstate_status' = "none"
    /\ UNCHANGED <<hostVars, freqVars, instance, powered, pos, commands, owned, original,
                   status, histVars>>

-------------------------------------------------------------------------------
(* The environment *)

\* A process may end at any time, the dummy child only of its SIGTERM.
TaskEnds(t) ==
    /\ t \in DOMAIN tasks
    /\ t[1] = "helper" => t \in signalled
    /\ tasks' = [u \in DOMAIN tasks \ {t} |-> tasks[u]]
    /\ UNCHANGED <<dirs, signalled, freqVars, instance, powered, pc, pos, commands,
                   objVars, status, histVars>>

\* DEmOS is killed or crashes without unwinding.
Crash ==
    /\ pc \in {"setup", "unwind"}
    /\ pc' = "crashed"
    /\ owned' = {}
    /\ original' = << >>
    /\ original_intel_pstate_status' = "none"
    /\ UNCHANGED <<hostVars, freqVars, instance, powered, pos, commands, status, histVars>>

\* The next instance is started on what the last one left.
Restart ==
    /\ pc \in {"exited", "crashed", "cleaned"}
    /\ instance < MaxInstances
    /\ instance' = instance + 1
    /\ pc' = "setup"
    /\ pos' = 1
    /\ commands' = FALSE
    /\ before' = [dirs |-> dirs, gov |-> gov, max |-> max_freq, pstate |-> pstate]
    /\ busy' = {}
    /\ abandoned' = {}
    /\ UNCHANGED <<hostVars, freqVars, powered, objVars, status>>

\* cleanup_crash.sh sends SIGTERM to all tasks of the freezer hierarchy and thaws
\* them; it does not wait for their end.
ScriptKills ==
    /\ pc \in {"crashed", "exited"}
    /\ pc' = "killed"
    /\ pos' = 1
    /\ signalled' = signalled \cup
          {t \in DOMAIN tasks : \E d \in tasks[t] : d[1] = "freezer"}
    /\ busy' = {}
    /\ UNCHANGED <<dirs, tasks, freqVars, instance, powered, commands, objVars, status,
                   before, abandoned>>

In(h, D) == {d \in D : d[1] = h}

ScriptOrderFault ==
    <<In("freezer", Parts), In("freezer", Leaves), In("cpuset", Parts),
      In("unified", Leaves), In("unified", Parts)>>

\* One rmdir for the cgroups of the processes and one for those of the
\* partitions, in one hierarchy after the other.
ScriptOrder ==
    <<In("freezer", Leaves), In("freezer", Parts), In("cpuset", Parts),
      In("unified", Leaves), In("unified", Parts)>>

ScriptRemoves ==
    /\ pc = "killed"
    /\ pos \in DOMAIN ScriptOrder
    /\ Rmdir(ScriptOrder[pos])
    /\ pos' = pos + 1
    /\ UNCHANGED <<tasks, signalled, freqVars, instance, powered, pc, commands, objVars,
                   status, before, abandoned>>

\* The script ends with resetting the frequency scaling.
ScriptResets ==
    /\ pc = "killed"
    /\ pos \notin DOMAIN ScriptOrder
    /\ pc' = "cleaned"
    /\ \/ /\ pstate # "none"
          /\ SwitchPstate("active")
       \/ /\ pstate = "none"
          /\ gov' = [c \in Cluster |-> IF c \in ActiveClusters THEN "schedutil" ELSE gov[c]]
          /\ UNCHANGED pstate
    /\ UNCHANGED <<hostVars, max_freq, instance, powered, pos, commands, objVars, status,
                   histVars>>

-------------------------------------------------------------------------------
\* The user may have created root cgroups by hand.
Init ==
    /\ dirs \in UserDirs
    /\ tasks = << >>
    /\ signalled = {}
    /\ \E m \in Machines : /\ gov = m.gov
                            /\ max_freq = m.max
                            /\ pstate = m.pstate
                            /\ powered = m.powered
    /\ instance = 1
    /\ pc = "setup"
    /\ pos = 1
    /\ commands = FALSE
    /\ owned = {}
    /\ original = << >>
    /\ original_intel_pstate_status = "none"
    /\ status = 0
    /\ before = [dirs |-> dirs, gov |-> gov, max |-> max_freq, pstate |-> pstate]
    /\ busy = {}
    /\ abandoned = {}

MainStep ==
    \/ ForkHelper \/ MakeRoot \/ JoinRoot \/ RootsChecked
    \/ SetupPstate \/ PoliciesDone \/ ManagerBuilt
    \/ \E c \in Cluster : SetupPolicy(c)
    \/ MakeInner \/ ValidateConfig \/ ForkProcess \/ AddProcess \/ Run
    \/ \E e \in owned : Destroy(e)
    \/ ExitMain

Next ==
    \/ MainStep
    \/ \E t \in DOMAIN tasks : TaskEnds(t)
    \/ Crash \/ Restart
    \/ ScriptKills \/ ScriptRemoves \/ ScriptResets

Spec == Init /\ [][Next]_vars

-------------------------------------------------------------------------------
(* Properties *)

Dir == Roots \cup Parts \cup Leaves
FreqEntry == {<<"policy", c>> : c \in Cluster} \cup {<<"manager">>}

\* Types; no cgroup disappears under a task, and a CpufreqPolicy object that was
\* constructed is always one that will be destroyed.
TypeOK ==
    /\ dirs \in SUBSET Dir
    /\ \A t \in DOMAIN tasks : tasks[t] \subseteq dirs
    /\ gov \in [Cluster -> Governor]
    /\ pos \in Nat \ {0}
    /\ pc = "setup" => pos <= Len(Plan)
    /\ owned \subseteq Dir \cup FreqEntry
    /\ DOMAIN original = {c \in Cluster : <<"policy", c>> \in owned}

\* A root cgroup that the user created is never removed, by no instance and not
\* by the script.
UserDirsKept == before.dirs \cap Roots \subseteq dirs

\* An instance that exits with status 0 leaves exactly the root cgroups that it
\* found, once its dummy child is gone, even if earlier instances crashed and
\* left cgroups with tasks in them behind.
CleanExit ==
    pc = "exited" /\ status = 0 /\ busy \cap Roots = {} => dirs = before.dirs \cap Roots

Below(d) == {d} \cup Children(d) \cup UNION {Children(e) : e \in Children(d)}

\* Whatever fails, a cgroup is left by an instance that exits, or by the script,
\* only because a task was in it or below it when it was to be removed.
LeftoverWasBusy ==
    /\ pc = "exited" => \A d \in dirs \ before.dirs : Below(d) \cap busy # {}
    /\ pc = "cleaned" => \A d \in dirs \ Roots : Below(d) \cap busy # {}

\* cleanup_crash.sh finds the tasks of an instance through the freezer hierarchy
\* only.  Wherever the instance was killed, and whichever step of it failed, at
\* most one live task of it escapes the script: the dummy child, or the process
\* that was being moved into its own cgroups.  It was not yet bound to the CPUs of
\* its partition, so that only tasks that are dying hold the partition's cpuset.
ScriptReachesTasks ==
    pc \in {"killed", "cleaned"} =>
        \A t \in DOMAIN tasks \ signalled :
            /\ tasks[t] \cap Parts = {}
            /\ \A u \in DOMAIN tasks \ signalled : t[2] = u[2] => t = u

\* Wherever main() throws, an instance that exits leaves every scaling_max_freq
\* as it found it, and every governor too unless it found intel_pstate active
\* (the kernel resets the governors when it is switched); only what a
\* CpufreqPolicy constructor changed before it threw stays.  The driver is in
\* the mode it was found in, unless the PowerManager was left uncompleted by an
\* exception after it had switched the mode.
CpufreqRestored ==
    pc = "exited" =>
        /\ \A c \in Cluster \ abandoned :
              /\ max_freq[c] = before.max[c]
              /\ before.pstate # "active" => gov[c] = before.gov[c]
        /\ Plan[pos][1] # "policies" => pstate = before.pstate
===============================================================================
