------------------------------- MODULE MCConfig -------------------------------
(* Small configuration files, in families that together use every rule.  *)
EXTENDS Config

CONSTANTS x, y

P == <<"named", "P">>
Q == <<"named", "Q">>

Procs == {[cmd |-> x], [cmd |-> y, budget |-> 2], [cmd |-> x, budget |-> 1, jitter |-> 3],
          [cmd |-> y, jitter |-> 4], [cmd |-> x, budget |-> 2, init |-> TRUE],
          [cmd |-> x, budget |-> 1, frequency |-> 1], [budget |-> 1],
          [cmd |-> x, budget |-> 1, other |-> 1], [cmd |-> x, budget |-> 0]}
ProcLists == {<<>>} \cup {<<p>> : p \in Procs} \cup {<<p, q>> : p, q \in Procs}
Parts == {[processes |-> l] : l \in ProcLists} \cup Procs
           \cup {[processes |-> <<>>, cmd |-> y, budget |-> 1, a53_freq |-> 1],
                 [processes |-> <<[cmd |-> x, budget |-> 1]>>, jitter |-> 9, a53_freq |-> 1]}

Named(n, part) == [name |-> n] @@ part
Budgeted == [processes |-> <<[cmd |-> y, budget |-> 2]>>]
Plain == [processes |-> <<[cmd |-> x], [cmd |-> y]>>]

Ref(key, n) == [key |-> key, ref |-> n]
Def(key, part) == [key |-> key, def |-> part]
File(parts, windows) == [source |-> "inline", partitions |-> parts, windows |-> windows]

\* "n", "m-n" and "m-n:s"
One(n) == [from |-> n, junk |-> FALSE]
To2(m, n) == [from |-> m, to |-> n, junk |-> FALSE]
By(m, n, s) == [from |-> m, to |-> n, stride |-> s, junk |-> FALSE]

SliceKeys == {"sc_partition", "be_partition", "sc_processes", "be_processes"}

\* Any partition, in the list of partitions or inside a window.
AnyPartition ==
    {File(<<Named(P, p)>>, <<[length |-> 5, entries |-> <<Ref("be_partition", P)>>]>>) : p \in Parts}
      \cup {File(<<>>, <<[length |-> l, entries |-> <<Def(k, p)>>]>>) :
               p \in Parts, k \in SliceKeys, l \in {0, 1, 5}}

\* Several entries in one slice, inline or not, in any order.
Entries == {Ref("sc_partition", P), Ref("be_partition", Q), Def("sc_processes", Plain),
            Def("sc_partition", Named(Q, Budgeted)), Def("be_processes", Plain),
            Def("be_partition", [cmd |-> y])}
EntryLists == {<<>>} \cup {<<e>> : e \in Entries} \cup {<<e, f>> : e, f \in Entries}
AnyEntries ==
    UNION {{File(<<Named(P, Budgeted)>>, <<[length |-> 5, entries |-> l]>>),
            File(<<Named(P, Budgeted)>>, <<[length |-> 5, cpu |-> <<One(0)>>, entries |-> l]>>),
            File(<<Named(P, Budgeted)>>,
                 <<[length |-> 5, entries |-> <<>>, slices |-> <<[cpu |-> <<One(1)>>, frequency |-> 1, entries |-> l]>>]>>),
            File(<<Named(P, Budgeted)>>,
                 <<[length |-> 5, entries |-> l, slices |-> <<[entries |-> <<>>]>>]>>)}
           : l \in EntryLists}

\* Up to three slices with any CPUs.
CpuLists == {All} \cup {CpulistCreate(cpus) : cpus \in (SUBSET Cpu) \ {{}}}
OnCpus(cs) ==
    File(<<Named(P, Budgeted)>>,
         <<[length |-> 5, entries |-> <<>>,
            slices |-> [i \in DOMAIN cs |-> [cpu |-> cs[i], entries |-> <<Ref("sc_partition", P)>>]]]>>)
AnyCpus == {OnCpus(cs) : cs \in UNION {[1 .. n -> CpuLists] : n \in 0 .. 3}}

\* One slice, or DEmOS itself, with any list of up to two entries.
Numbers == {0, 1, 3, MaxCpus, Word - 2, Word - 1, Word + 1}
EntryShapes ==
    {One(n) : n \in Numbers \cup {Missing}}
      \cup {To2(m, n) : m \in Numbers, n \in Numbers \cup {Missing}}
      \cup {By(m, n, s) : m \in {0, 1}, n \in Numbers, s \in {Missing, 0, 1, 2, Word + 2}}
SecondEntries == {One(Missing), One(1), To2(1, 2), [One(2) EXCEPT !.junk = TRUE], To2(0, Word - 1)}
RawLists ==
    {<<[e EXCEPT !.junk = j]>> : e \in EntryShapes, j \in BOOLEAN}
      \cup {<<[e EXCEPT !.junk = j], f>> : e \in EntryShapes, f \in SecondEntries, j \in BOOLEAN}
AnyList ==
    {OnCpus(<<l>>) : l \in RawLists}
      \cup {[demos_cpu |-> l] @@ OnCpus(<<<<One(0)>>>>) : l \in RawLists}

\* Partitions defined in two windows, and the options at the top.
TwoWindows ==
    {File(ps, <<[length |-> 5, entries |-> <<e>>], [length |-> 5, entries |-> <<f>>]>>) :
        ps \in {<<>>, <<Named(P, Budgeted)>>, <<Named(P, Budgeted), Named(P, [cmd |-> x, budget |-> 1])>>,
                <<Named(P, Budgeted), [cmd |-> x, budget |-> 1]>>},
        e \in Entries, f \in Entries}
Options ==
    {o @@ [source |-> s, partitions |-> <<Budgeted>>, windows |-> w] :
        o \in {[demos_cpu |-> All], [demos_cpu |-> <<One(0)>>], [set_cwd |-> TRUE], [set_cwd |-> FALSE],
               [other |-> TRUE]},
        s \in {"inline", "regular", "special"},
        w \in {<<>>, <<[length |-> 5, entries |-> <<>>]>>}}

MCLoaded == AnyPartition \cup AnyEntries \cup AnyCpus \cup AnyList \cup TwoWindows \cup Options
===============================================================================
