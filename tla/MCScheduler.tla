------------------------------ MODULE MCScheduler ------------------------------
(* Small configurations of the scheduler.                                     *)
EXTENDS Partitioned, TLC

CONSTANTS a, b, c, d, P1, P2, P3, s1, s2, s3

NoTimeout == {-1}
AnyTimeout == {-1, 0, 4}
NoProcs == {}
OnlyA == {a}
OnlyB == {b}
OnlyC == {c}
AandB == {a, b}
AandC == {a, c}

\* Duo: one window with one slice, SC partition <<a>> and BE partition <<c>>.
ProcDuo == {a, c}
PartitionDuo == {P1, P2}
ProcessesDuo == (P1 :> <<a>>) @@ (P2 :> <<c>>)
PartOfDuo == (a :> P1) @@ (c :> P2)
SliceDuo == {s1}
ScDuo == s1 :> P1
BeDuo == s1 :> P2
CpusDuo == s1 :> {0}
WindowsDuo == <<{s1}>>
LengthDuo == <<3>>
BudgetDuo == (a :> 1) @@ (c :> 3)
NoJitterDuo == (a :> 0) @@ (c :> 0)

\* Trio: as Duo, with two processes in the SC partition.
ProcTrio == {a, b, c}
ProcessesTrio == (P1 :> <<a, b>>) @@ (P2 :> <<c>>)
PartOfTrio == (a :> P1) @@ (b :> P1) @@ (c :> P2)
BudgetTrio == (a :> 1) @@ (b :> 1) @@ (c :> 3)
NoJitterTrio == [p \in ProcTrio |-> 0]

\* Two: two windows.  In the first, slice s1 runs <<a>> and then <<c, d>> while
\* slice s2 runs <<b>>; in the second, slice s3 runs <<c, d>> on both CPUs.
ProcTwo == {a, b, c, d}
PartitionTwo == {P1, P2, P3}
ProcessesTwo == (P1 :> <<a>>) @@ (P2 :> <<b>>) @@ (P3 :> <<c, d>>)
PartOfTwo == (a :> P1) @@ (b :> P2) @@ (c :> P3) @@ (d :> P3)
SliceTwo == {s1, s2, s3}
ScTwo == (s1 :> P1) @@ (s2 :> P2) @@ (s3 :> NoPartition)
BeTwo == (s1 :> P3) @@ (s2 :> NoPartition) @@ (s3 :> P3)
CpusTwo == (s1 :> {0}) @@ (s2 :> {1}) @@ (s3 :> {0, 1})
WindowsTwo == <<{s1, s2}, {s3}>>
LengthTwo == <<3, 1>>
BudgetTwo == (a :> 1) @@ (b :> 2) @@ (c :> 2) @@ (d :> 1)
NoJitterTwo == [p \in ProcTwo |-> 0]
ScJitterTwo == (a :> 2) @@ (b :> 1) @@ (c :> 0) @@ (d :> 0)
BeJitterTwo == (a :> 0) @@ (b :> 0) @@ (c :> 2) @@ (d :> 1)
===============================================================================
