-------------------------------- MODULE Config --------------------------------
(***************************************************************************)
(* Config: a loaded YAML tree is brought to its normal form, validated and *)
(* turned into the objects of the scheduler, the constants of Scheduler.   *)
(*                                                                         *)
(* A YAML mapping is a record with the keys that are present.  Short forms *)
(* that the code maps to the same thing are written alike: a process given *)
(* as a string is a mapping with only cmd, a single process in place of a  *)
(* list is a list of one, a partition given as a list is a mapping with    *)
(* only processes.  A frequency is any value: only whether it is kept      *)
(* matters here.                                                           *)
(***************************************************************************)
EXTENDS CpuList

CONSTANTS
    All,         \* the cpulist "all"
    Cpu,         \* the CPUs of the machine
    Loaded       \* the trees that may be loaded

Has(node, key) == key \in DOMAIN node

\* What the conversions of yaml-cpp make of a file: lists, mappings and numbers
\* where the code reads them as such (any other file is rejected by the library).
\* The names that the code generates are not used in the file.
IsList(l) == l \in Seq(Range(l))
IsMapping(m) == m = [k \in DOMAIN m |-> m[k]]

ProcessTree(proc) == IsMapping(proc) /\ (Has(proc, "budget") => proc.budget \in Int)

PartitionTree(part) ==
    /\ ProcessTree(part)
    /\ Has(part, "name") => part.name[1] # "anonymous"
    /\ Has(part, "processes") =>
          IsList(part.processes) /\ \A p \in Range(part.processes) : ProcessTree(p)

CpuTree(cpulist) ==
    cpulist # All =>
        /\ IsList(cpulist) /\ cpulist # <<>>
        /\ \A e \in Range(cpulist) :
              /\ Has(e, "from")
              /\ \A k \in DOMAIN e \ {"junk"} : e[k] \in Nat \cup {Missing}

SliceTree(slice) ==
    /\ IsMapping(slice)
    /\ Has(slice, "cpu") => CpuTree(slice.cpu)
    /\ Has(slice, "entries") /\ IsList(slice.entries)
    /\ \A e \in Range(slice.entries) :
          IF Has(e, "ref") THEN ~Has(e, "def") ELSE PartitionTree(e.def)

WindowTree(win) ==
    /\ SliceTree(win)
    /\ win.length \in Int
    /\ Has(win, "slices") => IsList(win.slices) /\ \A s \in Range(win.slices) : SliceTree(s)

Tree(c) ==
    /\ IsMapping(c)
    /\ IsList(c.partitions) /\ \A p \in Range(c.partitions) : PartitionTree(p)
    /\ IsList(c.windows) /\ \A w \in Range(c.windows) : WindowTree(w)
    /\ Has(c, "demos_cpu") => CpuTree(c.demos_cpu)

ASSUME ConfigAssumption ==
    /\ Cpu # {}
    /\ Cpu \subseteq 0 .. MaxCpus - 1
    /\ \A c \in Loaded : Tree(c)

VARIABLES
    loaded,      \* the tree as it was loaded
    config,      \* Config::config
    status,
    objects      \* the windows and partitions made by create_scheduler_objects

vars == <<loaded, config, status, objects>>

-------------------------------------------------------------------------------
(* Processes *)

ProcessKeys == {"cmd", "budget", "jitter", "init", "frequency"}

\* The budget of a process of a partition with n processes.  total is the time
\* to be shared by those without a budget, in tenths of a millisecond, or <<>>
\* (NAN) if budgets must be given; int() drops the fraction.
BudgetOf(proc, total, n) ==
    IF Has(proc, "budget") THEN proc.budget ELSE total[1] \div (10 * n)

ProcessOkFault(proc, total, n) ==
    /\ DOMAIN proc \subseteq ProcessKeys
    /\ Has(proc, "budget") \/ total # <<>>
    /\ BudgetOf(proc, total, n) > 0

\* normalize_process does not throw.  (2 * budget is an int in the code: budgets
\* are far below the 12 days at which it would overflow.)
ProcessOk(proc, total, n) ==
    /\ DOMAIN proc \subseteq ProcessKeys
    /\ Has(proc, "budget") \/ total # <<>>
    /\ BudgetOf(proc, total, n) > 0
    /\ Has(proc, "jitter") => proc.jitter \in 0 .. 2 * BudgetOf(proc, total, n)

\* A mapping with the keys that it lacks taken from another one.
Defaults(node, others) ==
    [k \in DOMAIN node \cup DOMAIN others |-> IF Has(node, k) THEN node[k] ELSE others[k]]

NormalizeProcessFault(proc, total, n) == Defaults(proc, [jitter |-> 0, init |-> FALSE])

\* normalize_process
NormalizeProcess(proc, total, n) ==
    Defaults(proc, [budget |-> BudgetOf(proc, total, n), jitter |-> 0, init |-> FALSE])

-------------------------------------------------------------------------------
(* Partitions.  The trees are walked with an accumulator acc: the partitions   *)
(* and windows so far, the slices and entries of the window and slice being    *)
(* normalized, the number of anonymous partitions; end is "ok" until something *)
(* throws or never ends, and then stays: the code goes no further.             *)

Start == [end |-> "ok", partitions |-> <<>>, anonymous |-> 0,
          windows |-> <<>>, slices |-> <<>>, entries |-> <<>>]

Ends(acc, how) == [acc EXCEPT !.end = IF @ = "ok" THEN how ELSE @]

\* The keys of a process that may stand in place of a partition.  They are also
\* tolerated, and ignored, beside processes.
SingleKeys == {"cmd", "budget", "jitter", "init", "a53_freq", "a72_freq"}

\* The process list; with none (or an empty one) the partition is one process.
ProcessList(part) ==
    IF Has(part, "processes") /\ part.processes # <<>> THEN part.processes
    ELSE <<Restrict(part, SingleKeys \cap DOMAIN part)>>

PartitionOk(part, total) ==
    LET procs == ProcessList(part)
    IN  /\ DOMAIN part \subseteq SingleKeys \cup {"name", "processes"}
        /\ \A i \in DOMAIN procs : ProcessOk(procs[i], total, Len(procs))

Anonymous(n) == <<"anonymous", n>>

AddPartitionFault(acc, part, total) ==
    LET procs == ProcessList(part)
    IN  IF ~PartitionOk(part, total) THEN Ends(acc, "throws")
        ELSE [acc EXCEPT
                !.partitions = Append(@,
                    [name |-> IF Has(part, "name") THEN part.name ELSE Anonymous(acc.anonymous),
                     processes |-> [i \in DOMAIN procs |->
                                       NormalizeProcess(procs[i], total, Len(procs))]])]

\* normalize_partition; the result is added to the list of partitions.
AddPartition(acc, part, total) ==
    LET procs == ProcessList(part)
    IN  IF ~PartitionOk(part, total) THEN Ends(acc, "throws")
        ELSE [acc EXCEPT
                !.partitions = Append(@,
                    [name |-> IF Has(part, "name") THEN part.name ELSE Anonymous(acc.anonymous),
                     processes |-> [i \in DOMAIN procs |->
                                       NormalizeProcess(procs[i], total, Len(procs))]]),
                !.anonymous = IF Has(part, "name") THEN @ ELSE @ + 1]

-------------------------------------------------------------------------------
(* Slices and windows.  The partitions of a slice are a list of entries, in    *)
(* the order of the file: [key, ref] names a partition, [key, def] defines it. *)

ScKeys == {"sc_partition", "sc_processes"}

PartitionKey(key) == IF key \in ScKeys THEN "sc_partition" ELSE "be_partition"

\* Processes without budget share 0.6 of the window (SC) or all of it (BE).
TotalBudgetFault(key, length) == <<10 * length>>
TotalBudget(key, length) == <<(IF key \in ScKeys THEN 6 ELSE 10) * length>>

\* norm_slice[key] = name: a second entry for the same key replaces the first.
SetEntry(entries, key, name) ==
    LET e == [key |-> key, ref |-> name]
    IN  IF \E i \in DOMAIN entries : entries[i].key = key
        THEN [i \in DOMAIN entries |-> IF entries[i].key = key THEN e ELSE entries[i]]
        ELSE Append(entries, e)

\* process_xx_partition_and_get_name and process_xx_processes_and_get_name
NormalizeEntry(acc, e, length) ==
    IF Has(e, "ref")
    THEN [acc EXCEPT !.entries = SetEntry(@, PartitionKey(e.key), e.ref)]
    ELSE LET r == AddPartition(acc, e.def, TotalBudget(e.key, length))
         IN  IF r.end # "ok" THEN r
             ELSE [r EXCEPT !.entries =
                       SetEntry(@, PartitionKey(e.key), Last(r.partitions).name)]

\* How parse_cpu_set ends, and the set it makes when "all" stands for all.
CpuSetEnd(cpulist) == IF cpulist = All THEN "ok" ELSE ParseEnd(cpulist)
ParseCpuSet(cpulist, all) == IF cpulist = All THEN all ELSE CpulistParse(cpulist)

\* normalize_slice
NormalizeSlice(acc, slice, length) ==
    LET r == FoldLeft(LAMBDA a, e : NormalizeEntry(a, e, length),
                      [acc EXCEPT !.entries = <<>>], slice.entries)
    IN  IF ~(DOMAIN slice \subseteq {"cpu", "frequency", "entries"}) THEN Ends(r, "throws")
        ELSE IF ~Has(slice, "cpu") THEN Ends(r, "throws")
        ELSE IF CpuSetEnd(slice.cpu) # "ok" THEN Ends(r, CpuSetEnd(slice.cpu))
        ELSE [r EXCEPT !.slices = Append(@, [slice EXCEPT !.entries = r.entries])]

\* win[key], the first entry of that key if there is one.
EntryOf(entries, key) ==
    LET at == {i \in DOMAIN entries : entries[i].key = key}
    IN  IF at = {} THEN <<>> ELSE <<entries[Min(at)]>>

\* The slice that a window without slices describes, its entries in a fixed order.
InlineSlice(win) ==
    [cpu |-> IF Has(win, "cpu") THEN win.cpu ELSE All,
     entries |-> EntryOf(win.entries, "sc_partition") \o EntryOf(win.entries, "be_partition")
                   \o EntryOf(win.entries, "sc_processes") \o EntryOf(win.entries, "be_processes")]

\* A window with nothing but a length stays empty.
SlicesOf(win) ==
    IF Has(win, "slices") THEN win.slices
    ELSE IF ~Has(win, "cpu") /\ win.entries = <<>> THEN <<>>
    ELSE <<InlineSlice(win)>>

\* Keys that exclude each other, and unknown keys (found before the slices are
\* normalized or after, as the file orders them: they throw in any case).
WindowOk(win) ==
    LET keys == {win.entries[i].key : i \in DOMAIN win.entries}
    IN  /\ DOMAIN win \subseteq {"length", "slices", "cpu", "entries"}
        /\ Has(win, "slices") => keys = {} /\ ~Has(win, "cpu")
        /\ ~({"sc_partition", "sc_processes"} \subseteq keys)
        /\ ~({"be_partition", "be_processes"} \subseteq keys)

\* normalize_window
NormalizeWindow(acc, win) ==
    LET r == FoldLeft(LAMBDA a, s : NormalizeSlice(a, s, win.length),
                      [acc EXCEPT !.slices = <<>>], SlicesOf(win))
    IN  IF ~WindowOk(win) THEN Ends(acc, "throws")
        ELSE [r EXCEPT !.windows = Append(@,
                 IF Has(win, "slices") \/ SlicesOf(win) # <<>>
                 THEN [length |-> win.length, entries |-> <<>>, slices |-> r.slices]
                 ELSE [length |-> win.length, entries |-> <<>>])]

-------------------------------------------------------------------------------
(* The whole configuration *)

\* source is an inline string, a regular file or a special file (a FIFO).
SetCwd(c) == IF Has(c, "set_cwd") THEN c.set_cwd ELSE c.source # "inline"

SetCwdOk(c) ==
    /\ Has(c, "set_cwd") => c.source # "inline"
    /\ SetCwd(c) => c.source # "special"

Walk(c) ==
    FoldLeft(NormalizeWindow,
             FoldLeft(LAMBDA a, p : AddPartition(a, p, <<>>), Start, c.partitions),
             c.windows)

DemosCpu(c) == IF Has(c, "demos_cpu") THEN c.demos_cpu ELSE All

\* The new tree that normalize() stores in config.
NormalForm(c) ==
    [source |-> c.source,
     set_cwd |-> SetCwd(c),
     demos_cpu |-> DemosCpu(c),
     partitions |-> Walk(c).partitions,
     windows |-> Walk(c).windows]

OverlapFault(slices) ==
    \/ \E i \in DOMAIN slices : slices[i].cpu = All /\ Len(slices) > 1
    \/ \E i \in DOMAIN slices : i > 1 /\
          ParseCpuSet(slices[i].cpu, {}) \cap ParseCpuSet(slices[i - 1].cpu, {}) # {}

\* Two slices of a window share a CPU, as far as the cpulists tell.
Overlap(slices) ==
    \/ \E i \in DOMAIN slices : slices[i].cpu = All /\ Len(slices) > 1
    \/ \E i, j \in DOMAIN slices : i < j /\
          ParseCpuSet(slices[i].cpu, {}) \cap ParseCpuSet(slices[j].cpu, {}) # {}

\* validate_config
Valid(c) ==
    \A w \in DOMAIN c.windows :
        LET slices == SlicesOf(c.windows[w])
        IN  /\ \A s \in DOMAIN slices : \A e \in DOMAIN slices[s].entries :
                   \E p \in DOMAIN c.partitions :
                       c.partitions[p].name = slices[s].entries[e].ref
            /\ ~Overlap(slices)

TopKeys == {"source", "set_cwd", "demos_cpu", "partitions", "windows"}

\* How normalize() ends, in the order in which it looks.
NormalizeEnd(c) ==
    IF ~SetCwdOk(c) THEN "throws"
    ELSE IF CpuSetEnd(DemosCpu(c)) # "ok" THEN CpuSetEnd(DemosCpu(c))
    ELSE IF Walk(c).end # "ok" THEN Walk(c).end
    ELSE IF DOMAIN c \subseteq TopKeys /\ Valid(NormalForm(c)) THEN "ok"
    ELSE "throws"

\* normalize()
Normalize ==
    /\ status = "loaded"
    /\ \/ /\ NormalizeEnd(config) = "ok"
          /\ config' = NormalForm(config)
          /\ status' = "normalized"
       \/ /\ NormalizeEnd(config) = "throws"
          /\ status' = "rejected"
          /\ UNCHANGED config
       \/ /\ NormalizeEnd(config) = "endless"
          /\ status' = "stuck"
          /\ UNCHANGED config
    /\ UNCHANGED <<loaded, objects>>

-------------------------------------------------------------------------------
(* The scheduler's objects *)

\* find_partition: the first partition of that name, 0 without a reference.
FindPartition(slice, key, parts) ==
    LET refs == {e \in Range(slice.entries) : e.key = key}
    IN  IF refs = {} THEN 0
        ELSE Min({p \in DOMAIN parts : \E e \in refs : parts[p].name = e.ref})

\* The CPUs of a slice when DEmOS may only run on allowed; without any of them
\* the slice falls back to the lowest allowed CPU.
SliceCpus(cpulist, allowed) ==
    LET cpus == ParseCpuSet(cpulist, allowed)
    IN  IF cpus \cap allowed = {} THEN {Min(allowed)} ELSE cpus \cap allowed

CreatedSlice(slice, parts, allowed) ==
    [sc |-> FindPartition(slice, "sc_partition", parts),
     be |-> FindPartition(slice, "be_partition", parts),
     cpus |-> SliceCpus(slice.cpu, allowed),
     frequency |-> IF Has(slice, "frequency") THEN <<slice.frequency>> ELSE <<>>]

CreatedWindow(win, parts, allowed) ==
    [length |-> win.length,
     slices |-> [s \in DOMAIN SlicesOf(win) |->
                    CreatedSlice(SlicesOf(win)[s], parts, allowed)]]

\* create_scheduler_objects, which needs every cmd, and the check in main().
CreateSchedulerObjects ==
    /\ status = "normalized"
    /\ \E allowed \in (SUBSET Cpu) \ {{}} :
        \/ /\ \A p \in Range(config.partitions) : \A r \in Range(p.processes) : Has(r, "cmd")
           /\ config.partitions # <<>>
           /\ config.windows # <<>>
           /\ objects' = [allowed |-> allowed,
                          demos_cpu |-> ParseCpuSet(config.demos_cpu, allowed),
                          partitions |-> config.partitions,
                          windows |-> [w \in DOMAIN config.windows |->
                              CreatedWindow(config.windows[w], config.partitions, allowed)]]
           /\ status' = "created"
        \/ /\ \/ \E p \in Range(config.partitions) : \E r \in Range(p.processes) : ~Has(r, "cmd")
              \/ config.partitions = <<>>
              \/ config.windows = <<>>
           /\ status' = "rejected"
           /\ UNCHANGED objects
    /\ UNCHANGED <<loaded, config>>

Init ==
    /\ loaded \in Loaded
    /\ config = loaded
    /\ status = "loaded"
    /\ objects = <<>>

Over == status \in {"created", "rejected", "stuck"} /\ UNCHANGED vars

Next == Normalize \/ CreateSchedulerObjects \/ Over

Spec == Init /\ [][Next]_vars

-------------------------------------------------------------------------------
(* Properties *)

\* Normalization is idempotent: the printed normal form (option -d), saved to a
\* file and loaded again, is accepted and already normal.
NormalFormIsFixed ==
    status = "normalized" =>
        LET again == [config EXCEPT !.source = "regular"]
        IN  NormalizeEnd(again) = "ok" /\ NormalForm(again) = again

\* What the scheduler relies on: no partition is empty, budgets are positive,
\* jitter never makes one negative, and every slice has CPUs that it may use.
SchedulerInput ==
    status = "created" =>
        /\ \A p \in Range(objects.partitions) :
              /\ p.processes # <<>>
              /\ \A r \in Range(p.processes) : r.budget > 0 /\ r.jitter \in 0 .. 2 * r.budget
        /\ \A w \in Range(objects.windows) : \A s \in Range(w.slices) :
              s.cpus # {} /\ s.cpus \subseteq objects.allowed

\* Slices of one window share a CPU only if one of them asked for CPUs none of
\* which is allowed, and was moved to the lowest one.
SlicesDisjoint ==
    status = "created" =>
        \A w \in DOMAIN objects.windows :
            LET made == objects.windows[w].slices
                asked == SlicesOf(config.windows[w])
            IN  \A i, j \in DOMAIN made :
                    i # j /\ made[i].cpus \cap made[j].cpus # {} =>
                        \E k \in {i, j} :
                            ParseCpuSet(asked[k].cpu, {}) \cap objects.allowed = {}

\* The CPUs a list stands for, read like the cpulists of the kernel.
Meaning(list) ==
    UNION {LET e == list[i]
               to == IF Has(e, "to") THEN e.to ELSE e.from
               stride == IF Has(e, "stride") THEN e.stride ELSE 1
           IN  {n \in e.from .. to : (n - e.from) % stride = 0} : i \in DOMAIN list}

\* A number that an unsigned int cannot hold, or a range that ends within one
\* stride of the largest one.
NearOverflow(list) ==
    \E i \in DOMAIN list :
        \E k \in {"from", "to"} \cap DOMAIN list[i] :
            list[i][k] + (IF Has(list[i], "stride") THEN list[i].stride ELSE 1) >= Word

CpuListsOf(c) ==
    {s.cpu : s \in UNION {Range(SlicesOf(w)) : w \in Range(c.windows)}} \cup {DemosCpu(c)}

\* Loading a file hangs (the loop of cpulist_parse wraps around) only for
\* a list that comes close to the limit of its type.
StuckOnlyAtLimit ==
    status = "stuck" => \E list \in CpuListsOf(loaded) \ {All} : NearOverflow(list)

\* A slice gets the allowed CPUs among those that its cpulist stands for, as
\* README.md describes cpulists, and what as_list prints of them for the kernel
\* reads as the same CPUs again, provided that it fits into the buffer.
CpusAsConfigured ==
    status = "created" =>
        \A w \in DOMAIN objects.windows : \A s \in DOMAIN objects.windows[w].slices :
            LET list == SlicesOf(config.windows[w])[s].cpu
                made == objects.windows[w].slices[s].cpus
                meant == Meaning(list) \cap objects.allowed
            IN  /\ list # All /\ ~NearOverflow(list) /\ meant # {} => made = meant
                /\ Fits(made) => Meaning(CpulistCreate(made)) = made

\* Names that the file itself gives are given to one partition each.
FileNamesUnique ==
    \A i, j \in DOMAIN config.partitions :
        i # j /\ config.partitions[i].name = config.partitions[j].name =>
            config.partitions[i].name[1] = "anonymous"

\* The last entry of a slice for the given partition.
Decisive(entries, i) ==
    \A j \in DOMAIN entries : j > i => PartitionKey(entries[j].key) # PartitionKey(entries[i].key)

Extends(norm, proc) == \A k \in DOMAIN proc : Has(norm, k) /\ norm[k] = proc[k]

\* A partition defined inside a window is what the slice gets: the generated
\* names are unique over all windows and the list of partitions, and nothing
\* that the file says of its processes is changed.  (Of two definitions to which
\* the file itself gives one name, the first wins.)
InlinePartitionFound ==
    status = "created" /\ FileNamesUnique =>
        \A w \in DOMAIN loaded.windows : \A s \in DOMAIN SlicesOf(loaded.windows[w]) :
            LET entries == SlicesOf(loaded.windows[w])[s].entries
                made == objects.windows[w].slices[s]
            IN  \A i \in DOMAIN entries : Has(entries[i], "def") /\ Decisive(entries, i) =>
                    LET p == IF entries[i].key \in ScKeys THEN made.sc ELSE made.be
                        procs == ProcessList(entries[i].def)
                    IN  /\ p # 0
                        /\ Len(objects.partitions[p].processes) = Len(procs)
                        /\ \A k \in DOMAIN procs :
                              Extends(objects.partitions[p].processes[k], procs[k])

\* If no budget is given, the SC processes of a slice together leave time in
\* the window to its BE partition.
RoomForBe ==
    status = "created" /\ FileNamesUnique =>
        \A w \in DOMAIN loaded.windows : \A s \in DOMAIN SlicesOf(loaded.windows[w]) :
            LET entries == SlicesOf(loaded.windows[w])[s].entries
                made == objects.windows[w].slices[s]
            IN  \A i \in DOMAIN entries :
                    /\ Has(entries[i], "def")
                    /\ entries[i].key \in ScKeys
                    /\ Decisive(entries, i)
                    /\ \A r \in Range(ProcessList(entries[i].def)) : ~Has(r, "budget")
                    => FoldLeft(LAMBDA a, r : a + r.budget, 0,
                                objects.partitions[made.sc].processes) < loaded.windows[w].length
===============================================================================
