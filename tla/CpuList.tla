-------------------------------- MODULE CpuList --------------------------------
(***************************************************************************)
(* lib/cpuset.c and lib/cpu_set.hpp: reading and printing a list of CPUs.  *)
(*                                                                         *)
(* A list is a non-empty sequence of entries, the pieces between commas.   *)
(* An entry has the number from and possibly to ("3-5") and stride         *)
(* ("0-6:2"); Missing stands for a place where digits are expected and are *)
(* not there.  junk tells that other characters follow the last number.    *)
(***************************************************************************)
EXTENDS Integers, Sequences, SequencesExt

CONSTANTS
    MaxCpus,     \* cpu_set::max_cpus
    Word,        \* the size of unsigned int: 2^32
    ListSize     \* the size of the buffer in cpu_set::as_list: 100

ASSUME CpuListAssumption ==
    /\ MaxCpus \in Nat \ {0} /\ MaxCpus <= 1000
    /\ Word \in Nat \ {0} /\ MaxCpus < Word
    /\ ListSize \in Nat \ {0}

Missing == -1

-------------------------------------------------------------------------------
(* cpulist_parse *)

\* nextnumber: strtoul and a cast to unsigned int.
NextNumber(n) == n % Word

From(e) == NextNumber(e.from)
To(e) == IF "to" \in DOMAIN e THEN NextNumber(e.to) ELSE From(e)
Stride(e) == IF "stride" \in DOMAIN e THEN NextNumber(e.stride) ELSE 1

EntryOkFault(e) ==
    /\ Missing \notin {e[k] : k \in DOMAIN e \ {"junk"}}
    /\ From(e) <= To(e)

EntryOk(e) ==
    /\ Missing \notin {e[k] : k \in DOMAIN e \ {"junk"}}
    /\ Stride(e) # 0
    /\ From(e) <= To(e)

\* The value of a after k rounds of the loop a += s, and the rounds after which
\* the loop stops.
Step(e, k) == (From(e) + k * Stride(e)) % Word
Stops(e) == {k \in 1 .. Word : Step(e, k) > To(e)}

EntryCpusFault(e) ==
    {n \in {Step(e, k) : k \in 0 .. Min(Stops(e))} : n < MaxCpus}

\* CPU_SET_S ignores the numbers that do not fit.
EntryCpus(e) ==
    {n \in {Step(e, k) : k \in 0 .. Min(Stops(e)) - 1} : n < MaxCpus}

\* How cpulist_parse ends: the first entry that throws or never ends decides;
\* characters after a number are noticed only at the end of the whole list.
ParseEnd(list) ==
    LET bad == {i \in DOMAIN list : ~EntryOk(list[i]) \/ Stops(list[i]) = {}}
    IN  IF bad = {} THEN IF Last(list).junk THEN "throws" ELSE "ok"
        ELSE IF EntryOk(list[Min(bad)]) THEN "endless"
        ELSE "throws"

\* The set that is made of a list whose ParseEnd is "ok".
CpulistParse(list) == UNION {EntryCpus(list[i]) : i \in DOMAIN list}

-------------------------------------------------------------------------------
(* cpulist_create *)

\* The maximal runs of consecutive CPUs: where one starts, and where it ends.
RunEnd(cpus, i) == Min({j \in i .. MaxCpus : j + 1 \notin cpus})
RunStarts(cpus, i) == i \in cpus /\ i - 1 \notin cpus

RunEntriesFault(i, j) ==
    IF j = i THEN <<[from |-> i, junk |-> FALSE]>>
    ELSE <<[from |-> i, to |-> j - 1, junk |-> FALSE]>>

\* One CPU, two CPUs, or a range.
RunEntries(i, j) ==
    IF j = i THEN <<[from |-> i, junk |-> FALSE]>>
    ELSE IF j = i + 1 THEN <<[from |-> i, junk |-> FALSE], [from |-> j, junk |-> FALSE]>>
    ELSE <<[from |-> i, to |-> j, junk |-> FALSE]>>

AddRun(cpus, list, i) ==
    IF RunStarts(cpus, i) THEN list \o RunEntries(i, RunEnd(cpus, i)) ELSE list

\* The loop over all CPUs; inside a run it goes on after its end.
CpulistCreate(cpus) ==
    FoldLeft(LAMBDA list, i : AddRun(cpus, list, i), <<>>, [i \in 1 .. MaxCpus |-> i - 1])

\* The characters an entry takes, with its comma.
Digits(n) == IF n < 10 THEN 1 ELSE IF n < 100 THEN 2 ELSE 3
Width(e) == 1 + Digits(e.from) + (IF "to" \in DOMAIN e THEN 1 + Digits(e.to) ELSE 0)

\* as_list has room for the whole list.  If not, cpulist_create returns NULL,
\* which as_list ignores: the list is cut off after ListSize - 1 characters.
Fits(cpus) ==
    FoldLeft(LAMBDA n, e : n + Width(e), 0, CpulistCreate(cpus)) < ListSize
===============================================================================
