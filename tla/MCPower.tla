-------------------------------- MODULE MCPower --------------------------------
(* Two windows on three CPUs in two clusters, the second cluster with fewer   *)
(* frequencies.  In the first window slice s1 runs <<a>> and then <<c>> and   *)
(* slice s2 runs <<b>>, which shares the first cluster with s1 and is also on *)
(* the second one; in the second window slice s3 has only the BE partition.   *)
EXTENDS PoweredScheduler

CONSTANTS a, b, c, P1, P2, P3, s1, s2, s3, K1, K2, K3

ProcPw == {a, b, c}
PartitionPw == {P1, P2, P3}
ProcessesPw == (P1 :> <<a>>) @@ (P2 :> <<b>>) @@ (P3 :> <<c>>)
PartOfPw == (a :> P1) @@ (b :> P2) @@ (c :> P3)
SlicePw == {s1, s2, s3}
ScPw == (s1 :> P1) @@ (s2 :> P2) @@ (s3 :> NoPartition)
BePw == (s1 :> P3) @@ (s2 :> NoPartition) @@ (s3 :> P3)
CpusPw == (s1 :> {0}) @@ (s2 :> {1, 2}) @@ (s3 :> {0, 2})
WindowsPw == <<{s1, s2}, {s3}>>
LengthPw == <<3, 1>>
BudgetPw == (a :> 1) @@ (b :> 2) @@ (c :> 2)
JitterPw == (a :> 2) @@ (b :> 1) @@ (c :> 0)
OnlyA == {a}
NoProcs == {}
NoTimeout == {-1}

\* K3 is a cpufreq policy whose cores are all offline.
ClusterPw == {K1, K2, K3}
CoresPw == (K1 :> {0, 1}) @@ (K2 :> {2}) @@ (K3 :> {})
MinPw == (K1 :> 1) @@ (K2 :> 1) @@ (K3 :> 1)
MaxPw == (K1 :> 3) @@ (K2 :> 4) @@ (K3 :> 3)
AvailablePw == (K1 :> <<1, 2, 3>>) @@ (K2 :> <<1, 2, 4>>) @@ (K3 :> <<1, 3>>)

Policy(n, as) == [name |-> n, args |-> as]
PoliciesPw ==
    {Policy(n, <<>>) : n \in {"none", "minbe", "low", "high", "per_process",
                              "imx8_per_process", "imx8_per_slice", "imx8_fixed", "eco"}}
      \cup {Policy("imx8_fixed", <<0, 2>>), Policy("imx8_fixed", <<3, 0>>),
            Policy("imx8_alternating", <<0, 1, 2, 2>>)}
MinBePw == {Policy("minbe", <<>>)}

\* Nothing requested; all the same; different in turn but never together; a and
\* b differing, which may run at the same time; 3, which only the first cluster
\* supports, by a, by b, and by the BE process c.
Ask(x, y, z) ==
    [proc |-> (a :> x) @@ (b :> y) @@ (c :> z), slice |-> (s1 :> x) @@ (s2 :> y) @@ (s3 :> z)]
RequestsPw == {Ask(0, 0, 0), Ask(2, 2, 2), Ask(2, 0, 1), Ask(2, 1, 0), Ask(2, 2, 1),
               Ask(3, 0, 1), Ask(0, 3, 0), Ask(1, 0, 3)}
===============================================================================
