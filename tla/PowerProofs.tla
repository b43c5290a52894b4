------------------------------ MODULE PowerProofs ------------------------------
(***************************************************************************)
(* The scheduler with a power policy, for every machine, configuration and *)
(* policy: what the handlers of the policies keep of the running processes *)
(* and what they write.                                                    *)
(***************************************************************************)
EXTENDS PoweredScheduler, TimingProofs, SequenceTheorems

-------------------------------------------------------------------------------
(* Lists of processes *)

\* f holds, for each k up to n, the first k entries of the list without p.
Keeps(list, p, n, f) ==
    f = [k \in 0 .. n |-> IF k = 0 THEN <<>>
                          ELSE IF list[k] = p THEN f[k - 1] ELSE Append(f[k - 1], list[k])]

\* Every list can be gone through in this way.
LEMMA KeepsExists == ASSUME NEW list, NEW p, NEW N \in Nat PROVE \E f : Keeps(list, p, N, f)
<1> DEFINE Bad == {n \in 0 .. N : ~ \E f : Keeps(list, p, n, f)}
<1>1. ASSUME Bad # {} PROVE FALSE
  <2>1. PICK n \in Bad : \A m \in Bad : n =< m
    <3>1. Bad \in SUBSET Nat
      OBVIOUS
    <3>2. QED
      BY <1>1, <3>1, HasMin
  <2>2. CASE n = 0
    <3>1. Keeps(list, p, 0, [k \in 0 .. 0 |-> <<>>])
      BY DEF Keeps
    <3>2. QED
      BY <2>1, <2>2, <3>1
  <2>3. CASE n # 0
    <3>1. n \in 1 .. N /\ n - 1 \in 0 .. N /\ n - 1 \notin Bad
      BY <2>1, <2>3
    <3>2. PICK f : Keeps(list, p, n - 1, f)
      BY <3>1
    <3> DEFINE g == [k \in 0 .. n |->
                        IF k # n THEN f[k]
                        ELSE IF list[n] = p THEN f[n - 1] ELSE Append(f[n - 1], list[n])]
               step(h, k) == IF k = 0 THEN <<>>
                             ELSE IF list[k] = p THEN h[k - 1] ELSE Append(h[k - 1], list[k])
    <3>3. ASSUME NEW k \in 0 .. n PROVE g[k] = step(g, k)
      <4>1. CASE k = n
        BY <3>1, <4>1
      <4>2. CASE k # n
        <5>1. /\ k \in 0 .. n - 1 /\ g[k] = f[k]
              /\ k # 0 => k - 1 \in 0 .. n /\ k - 1 # n /\ g[k - 1] = f[k - 1]
          BY <3>1, <4>2
        <5>2. f[k] = step(f, k)
          BY <3>2, <5>1 DEF Keeps
        <5>3. QED
          BY <5>1, <5>2
      <4>3. QED
        BY <4>1, <4>2
    <3>4. g = [k \in 0 .. n |-> step(g, k)]
      <4>1. g = [k \in 0 .. n |-> g[k]]
        OBVIOUS
      <4> HIDE DEF g, step
      <4> QED BY <3>3, <4>1
    <3>5. Keeps(list, p, n, g)
      <4>1. [k \in 0 .. n |-> step(g, k)] =
              [k \in 0 .. n |-> IF k = 0 THEN <<>>
                                ELSE IF list[k] = p THEN g[k - 1] ELSE Append(g[k - 1], list[k])]
        OBVIOUS
      <4> HIDE DEF g, step
      <4> QED BY <3>4, <4>1 DEF Keeps
    <3>6. QED
      BY <2>1, <3>5
  <2>4. QED
    BY <2>2, <2>3
<1>2. N \in 0 .. N
  OBVIOUS
<1>3. QED
  BY <1>1, <1>2

\* std::remove and erase take exactly p out of a list and repeat nothing.
LEMMA WithoutFacts ==
    ASSUME NEW S, NEW list \in Seq(S), NEW p
    PROVE  /\ Without(list, p) \in Seq(S)
           /\ ToSet(Without(list, p)) = ToSet(list) \ {p}
           /\ IsInjective(list) => IsInjective(Without(list, p))
<1> DEFINE N == Len(list)
           F == CHOOSE f : Keeps(list, p, N, f)
<1>1. N \in Nat /\ DOMAIN list = 1 .. N /\ \A i \in 1 .. N : list[i] \in S
  OBVIOUS
<1>2. Without(list, p) = F[N]
  BY DEF Without, Keeps
<1>3. Keeps(list, p, N, F)
  BY <1>1, KeepsExists
<1>4. \A k \in 0 .. N : F[k] = IF k = 0 THEN <<>>
                               ELSE IF list[k] = p THEN F[k - 1] ELSE Append(F[k - 1], list[k])
  <2> HIDE DEF F, N
  <2> QED BY <1>3 DEF Keeps
<1> DEFINE Good(k) == /\ F[k] \in Seq(S)
                      /\ \A i \in 1 .. Len(F[k]) : \E j \in 1 .. k : F[k][i] = list[j] /\ list[j] # p
                      /\ \A j \in 1 .. k : list[j] # p => \E i \in 1 .. Len(F[k]) : F[k][i] = list[j]
                      /\ (\A i, j \in 1 .. N : list[i] = list[j] => i = j) =>
                            \A i, j \in 1 .. Len(F[k]) : F[k][i] = F[k][j] => i = j
           Bad == {k \in 0 .. N : ~Good(k)}
<1> HIDE DEF F
<1>5. Good(0)
  <2>1. F[0] = <<>>
    BY <1>1, <1>4
  <2>2. QED
    BY <2>1
<1>6. ASSUME NEW k \in 1 .. N, Good(k - 1) PROVE Good(k)
  <2>1. /\ k - 1 \in 0 .. N /\ k \in 0 .. N /\ k # 0 /\ k \in Nat /\ list[k] \in S
        /\ k \in 1 .. k /\ \A j : j \in 1 .. k <=> j = k \/ j \in 1 .. k - 1
    BY <1>1
  <2>2. CASE list[k] = p
    <3>1. F[k] = F[k - 1]
      BY <1>4, <2>1, <2>2
    <3> HIDE DEF F, N
    <3>2. QED
      BY <1>6, <2>1, <2>2, <3>1
  <2>3. CASE list[k] # p
    <3>1. F[k] = Append(F[k - 1], list[k])
      BY <1>4, <2>1, <2>3
    <3> DEFINE old == F[k - 1]
               new == F[k]
               m == Len(old)
    <3>2. /\ old \in Seq(S) /\ m \in Nat /\ new \in Seq(S) /\ Len(new) = m + 1
          /\ new[m + 1] = list[k] /\ \A i \in 1 .. m : new[i] = old[i]
      BY <1>6, <2>1, <3>1
    <3>3. /\ \A i \in 1 .. m : \E j \in 1 .. k - 1 : old[i] = list[j] /\ list[j] # p
          /\ \A j \in 1 .. k - 1 : list[j] # p => \E i \in 1 .. m : old[i] = list[j]
          /\ (\A i, j \in 1 .. N : list[i] = list[j] => i = j) =>
                \A i, j \in 1 .. m : old[i] = old[j] => i = j
      BY <1>6
    <3> HIDE DEF old, new, m, Good
    <3>0. m + 1 \in 1 .. m + 1 /\ \A i : i \in 1 .. m + 1 <=> i = m + 1 \/ i \in 1 .. m
      BY <3>2
    <3>4. \A i \in 1 .. m + 1 : \E j \in 1 .. k : new[i] = list[j] /\ list[j] # p
      <4> SUFFICES ASSUME NEW i \in 1 .. m + 1
                   PROVE  \E j \in 1 .. k : new[i] = list[j] /\ list[j] # p
        OBVIOUS
      <4>1. CASE i = m + 1
        BY <2>1, <2>3, <3>2, <4>1
      <4>2. CASE i \in 1 .. m
        <5>1. PICK j \in 1 .. k - 1 : old[i] = list[j] /\ list[j] # p
          BY <3>3, <4>2
        <5>2. j \in 1 .. k /\ new[i] = old[i]
          BY <2>1, <3>2, <4>2
        <5>3. QED
          BY <5>1, <5>2
      <4>3. QED
        BY <3>0, <4>1, <4>2
    <3>5. \A j \in 1 .. k : list[j] # p => \E i \in 1 .. m + 1 : new[i] = list[j]
      BY <2>1, <2>3, <3>0, <3>2, <3>3
    <3>6. ASSUME \A i, j \in 1 .. N : list[i] = list[j] => i = j
          PROVE  \A i, j \in 1 .. m + 1 : new[i] = new[j] => i = j
      <4>1. \A i \in 1 .. m : new[i] # list[k]
        <5>1. \A j \in 1 .. k - 1 : j \in 1 .. N /\ list[j] # list[k]
          BY <1>1, <2>1, <3>6
        <5>2. QED
          BY <3>2, <3>3, <5>1
      <4>2. \A i, j \in 1 .. m : new[i] = new[j] => i = j
        BY <3>2, <3>3, <3>6
      <4>3. QED
        BY <3>0, <3>2, <4>1, <4>2
    <3>7. QED
      BY <3>2, <3>4, <3>5, <3>6 DEF new, Good
  <2>4. QED
    BY <2>2, <2>3
<1>7. Good(N)
  <2>1. ASSUME Bad # {} PROVE FALSE
    <3> HIDE DEF Good
    <3>1. PICK n \in Bad : \A m \in Bad : n =< m
      <4>1. Bad \in SUBSET Nat
        BY <1>1
      <4>2. QED
        BY <2>1, <4>1, HasMin
    <3>2. n \in 1 .. N /\ n - 1 \in 0 .. N /\ n - 1 \notin Bad
      BY <1>1, <1>5, <3>1
    <3>3. QED
      BY <1>6, <3>1, <3>2
  <2>2. N \in 0 .. N
    BY <1>1
  <2>3. QED
    BY <2>1, <2>2
<1>8. QED
  <2> DEFINE new == F[N]
  <2>1. /\ new \in Seq(S)
        /\ \A i \in 1 .. Len(new) : \E j \in 1 .. N : new[i] = list[j] /\ list[j] # p
        /\ \A j \in 1 .. N : list[j] # p => \E i \in 1 .. Len(new) : new[i] = list[j]
        /\ (\A i, j \in 1 .. N : list[i] = list[j] => i = j) =>
                            \A i, j \in 1 .. Len(new) : new[i] = new[j] => i = j
    BY <1>7
  <2>2. DOMAIN new = 1 .. Len(new)
    BY <2>1
  <2> HIDE DEF new, Good
  <2>3. ToSet(new) = ToSet(list) \ {p}
    <3>1. ASSUME NEW x \in ToSet(new) PROVE x \in ToSet(list) /\ x # p
      BY <1>1, <2>1, <2>2, <3>1 DEF ToSet
    <3>2. ASSUME NEW x \in ToSet(list), x # p PROVE x \in ToSet(new)
      <4>1. PICK j \in 1 .. N : x = list[j]
        BY <1>1 DEF ToSet
      <4>2. PICK i \in 1 .. Len(new) : new[i] = list[j]
        BY <2>1, <3>2, <4>1
      <4>3. QED
        BY <2>2, <4>1, <4>2 DEF ToSet
    <3>3. QED
      BY <3>1, <3>2
  <2>4. IsInjective(list) => IsInjective(new)
    BY <1>1, <2>1, <2>2 DEF IsInjective
  <2>5. QED
    BY <1>2, <2>1, <2>3, <2>4 DEF new

-------------------------------------------------------------------------------
(* The handlers *)

PolicyNames == {"none", "minbe", "low", "high", "per_process", "imx8_alternating",
                "imx8_fixed", "imx8_per_process", "imx8_per_slice"}

\* The states of a policy object.
PolicyObject ==
    [name : PolicyNames, args : Seq(Nat), freq : [Cluster -> Nat],
     requesting_procs : [Cluster -> Seq(Proc)], f1_next : BOOLEAN, threw : BOOLEAN]

\* Two objects that differ at most in the requesting processes.
SameButProcs(pw, qw) ==
    /\ qw.name = pw.name /\ qw.args = pw.args /\ qw.freq = pw.freq
    /\ qw.f1_next = pw.f1_next /\ qw.threw = pw.threw

\* CpufreqPolicy::write_frequency changes nothing but the frequencies of the
\* active cpufreq policies that it is called for.
LEMMA WriteFacts ==
    ASSUME NEW pw \in PolicyObject, NEW C, NEW f,
           \A c \in Cluster : c \in C /\ Active(c) => f[c] \in Nat
    PROVE  LET w == WriteFrequency(pw, C, f)
           IN  /\ w \in PolicyObject
               /\ w.name = pw.name /\ w.args = pw.args /\ w.f1_next = pw.f1_next
               /\ w.threw = pw.threw /\ w.requesting_procs = pw.requesting_procs
               /\ \A c \in Cluster :
                     w.freq[c] = IF c \in C /\ Active(c) THEN f[c] ELSE pw.freq[c]
BY DEF WriteFrequency, PolicyObject

\* on_process_end removes the process from every list.
LEMMA EndFacts ==
    ASSUME NEW pw \in PolicyObject, NEW p
    PROVE  LET e == OnProcessEnd(pw, p)
           IN  /\ e \in PolicyObject
               /\ SameButProcs(pw, e)
               /\ \A c \in Cluster : e.requesting_procs[c] = Without(pw.requesting_procs[c], p)
<1>1. \A c \in Cluster : Without(pw.requesting_procs[c], p) \in Seq(Proc)
  BY WithoutFacts DEF PolicyObject
<1>2. QED
  BY <1>1 DEF OnProcessEnd, PolicyObject, SameButProcs

\* The cpufreq policies of a per-process policy that the CPUs on belong to.
Affected(pw, on) == {c \in PolicyClusters(pw.name) : Touches(on, c)}

\* The cpufreq policies of a power policy are cpufreq policies.
LEMMA ClustersOf == ASSUME NEW name PROVE PolicyClusters(name) \subseteq Cluster
BY PowerAssumption DEF PolicyClusters

\* on_process_start ignores the process, throws, or enters it in the lists of the
\* affected clusters and writes its frequency there.
LEMMA StartFacts ==
    ASSUME NEW pw \in PolicyObject, NEW p \in Proc, NEW req \in [Proc -> Nat], NEW on
    PROVE  LET w == OnProcessStart(pw, p, req, on)
               C == Affected(pw, on)
           IN  /\ w \in PolicyObject
               /\ w.name = pw.name /\ w.args = pw.args /\ w.f1_next = pw.f1_next
               /\ \/ /\ pw.name \in PerProcess => req[p] = 0
                     /\ w = pw
                  \/ /\ pw.name \in PerProcess /\ req[p] # 0
                     /\ w.threw /\ w.freq = pw.freq
                  \/ /\ pw.name \in PerProcess /\ req[p] # 0
                     /\ w.threw = pw.threw
                     /\ \A c \in C : \/ pw.requesting_procs[c] = <<>>
                                     \/ req[Head(pw.requesting_procs[c])] = req[p]
                     /\ \A c \in Cluster :
                           /\ w.requesting_procs[c] =
                                 IF c \in C THEN Append(pw.requesting_procs[c], p)
                                 ELSE pw.requesting_procs[c]
                           /\ w.freq[c] = IF c \in C /\ Active(c) THEN req[p] ELSE pw.freq[c]
<1> DEFINE C == Affected(pw, on)
           compatible == \A c \in C : \/ pw.requesting_procs[c] = <<>>
                                      \/ req[Head(pw.requesting_procs[c])] = req[p]
           entered == [pw EXCEPT !.requesting_procs =
                          [c \in Cluster |-> IF c \in C THEN Append(@[c], p) ELSE @[c]]]
           w == OnProcessStart(pw, p, req, on)
<1>1. w = IF pw.name \notin PerProcess \/ req[p] = 0 THEN pw
          ELSE IF ~compatible THEN [pw EXCEPT !.threw = TRUE]
          ELSE WriteFrequency(entered, C, [c \in C |-> req[p]])
  BY DEF OnProcessStart, Affected
<1>2. /\ entered \in PolicyObject
      /\ entered.name = pw.name /\ entered.args = pw.args /\ entered.f1_next = pw.f1_next
      /\ entered.threw = pw.threw /\ entered.freq = pw.freq
      /\ \A c \in Cluster : entered.requesting_procs[c] =
            IF c \in C THEN Append(pw.requesting_procs[c], p) ELSE pw.requesting_procs[c]
  <2> HIDE DEF C
  <2>1. \A c \in Cluster : /\ pw.requesting_procs[c] \in Seq(Proc)
                           /\ Append(pw.requesting_procs[c], p) \in Seq(Proc)
    BY DEF PolicyObject
  <2>2. QED
    BY <2>1 DEF PolicyObject
<1> HIDE DEF entered, compatible, w
<1>3. CASE pw.name \notin PerProcess \/ req[p] = 0
  BY <1>1, <1>3 DEF w
<1>4. CASE pw.name \in PerProcess /\ req[p] # 0 /\ ~compatible
  <2>1. w = [pw EXCEPT !.threw = TRUE]
    BY <1>1, <1>4
  <2>2. /\ w \in PolicyObject /\ w.name = pw.name /\ w.args = pw.args
        /\ w.f1_next = pw.f1_next /\ w.threw /\ w.freq = pw.freq
    BY <2>1 DEF PolicyObject
  <2>3. QED
    BY <1>4, <2>2 DEF w
<1>5. CASE pw.name \in PerProcess /\ req[p] # 0 /\ compatible
  <2> DEFINE f == [c \in C |-> req[p]]
  <2>1. w = WriteFrequency(entered, C, f)
    BY <1>1, <1>5
  <2>2. \A c \in C : f[c] = req[p] /\ f[c] \in Nat
    OBVIOUS
  <2> HIDE DEF f, C
  <2>3. /\ w \in PolicyObject
        /\ w.name = entered.name /\ w.args = entered.args /\ w.f1_next = entered.f1_next
        /\ w.threw = entered.threw /\ w.requesting_procs = entered.requesting_procs
        /\ \A c \in Cluster : w.freq[c] = IF c \in C /\ Active(c) THEN f[c] ELSE entered.freq[c]
    BY <1>2, <2>1, <2>2, WriteFacts
  <2>4. QED
    BY <1>2, <1>5, <2>2, <2>3 DEF w, compatible, C
<1>6. QED
  BY <1>3, <1>4, <1>5

\* on_be_start writes the minimum frequencies, if at all.
LEMMA BeStartFacts ==
    ASSUME NEW pw \in PolicyObject
    PROVE  LET w == OnBeStart(pw)
           IN  /\ w \in PolicyObject
               /\ w.name = pw.name /\ w.args = pw.args /\ w.threw = pw.threw
               /\ pw.name # "minbe" => w = pw
               /\ \A c \in Cluster : \/ w.freq[c] = pw.freq[c]
                                     \/ pw.name = "minbe" /\ w.freq[c] = MinFrequency[c]
<1>1. \A c \in Cluster : MinFrequency[c] \in Nat
  BY PowerAssumption
<1>2. CASE pw.name = "minbe"
  BY <1>1, <1>2, WriteFacts DEF OnBeStart
<1>3. QED
  BY <1>2 DEF OnBeStart

\* on_sc_start raises every active cluster to its maximum frequency, if any.
LEMMA ScStartFacts ==
    ASSUME NEW pw \in PolicyObject
    PROVE  LET w == OnScStart(pw)
           IN  /\ w \in PolicyObject
               /\ w.name = pw.name /\ w.args = pw.args /\ w.threw = pw.threw
               /\ pw.name # "minbe" => w = pw
               /\ \A c \in Cluster : \/ w.freq[c] = pw.freq[c]
                                     \/ pw.name = "minbe" /\ w.freq[c] = MaxFrequency[c]
               /\ pw.name = "minbe" =>
                     \A c \in Cluster : Active(c) => w.freq[c] = MaxFrequency[c]
<1>1. \A c \in Cluster : MaxFrequency[c] \in Nat
  BY PowerAssumption
<1>2. CASE pw.name = "minbe"
  BY <1>1, <1>2, WriteFacts DEF OnScStart
<1>3. QED
  BY <1>2 DEF OnScStart

\* The frequencies that imx8_alternating was created with are listed ones.
LEMMA AlternatingFacts ==
    ASSUME NEW args \in Seq(Nat), Accepted("imx8_alternating", args), NEW c \in {A53, A72},
           NEW i \in 1 .. 2
    PROVE  /\ AlternatingFreq(args, c)[i] \in ToSet(AvailableFrequencies[c])
           /\ AlternatingFreq(args, c)[i] \in Nat \ {0}
<1> DEFINE policy == <<A53, A53, A72, A72>>
<1>1. Len(args) = 4 /\ \A j \in 1 .. 4 : HasFreq(policy[j], args[j])
  BY DEF Accepted, ArgCount
<1>2. ASSUME NEW j \in 1 .. 4
      PROVE  /\ GetFreq(policy[j], args[j]) \in ToSet(AvailableFrequencies[policy[j]])
             /\ GetFreq(policy[j], args[j]) \in Nat \ {0}
  <2>0. A53 \in Cluster /\ A72 \in Cluster
    BY PowerAssumption
  <2>1. policy[j] \in Cluster /\ args[j] \in Nat /\ HasFreq(policy[j], args[j])
    <3>1. policy[j] \in {A53, A72}
      OBVIOUS
    <3> HIDE DEF policy
    <3>2. args[j] \in Nat
      <4>1. Len(args) = 4 /\ j \in 1 .. Len(args)
        BY <1>1
      <4>2. QED
        BY <4>1, ElementOfSeq
    <3>3. QED
      BY <1>1, <2>0, <3>1, <3>2
  <2> HIDE DEF policy
  <2>2. AvailableFrequencies[policy[j]] \in Seq(Nat \ {0})
    BY <2>1, PowerAssumption
  <2>3. args[j] + 1 \in DOMAIN AvailableFrequencies[policy[j]]
    BY <2>1, <2>2 DEF HasFreq
  <2>4. /\ GetFreq(policy[j], args[j]) \in Nat \ {0}
        /\ \E k \in DOMAIN AvailableFrequencies[policy[j]] :
              GetFreq(policy[j], args[j]) = AvailableFrequencies[policy[j]][k]
    BY <2>2, <2>3 DEF GetFreq
  <2>5. QED
    BY <2>4 DEF ToSet
<1>3. \E j \in 1 .. 4 : policy[j] = c /\ AlternatingFreq(args, c)[i] = GetFreq(policy[j], args[j])
  <2>1. CASE c = A53
    <3>1. i \in 1 .. 4 /\ policy[i] = A53
      OBVIOUS
    <3>2. QED
      BY <2>1, <3>1 DEF AlternatingFreq
  <2>2. CASE c # A53
    <3>1. i + 2 \in 1 .. 4 /\ policy[i + 2] = A72 /\ c = A72
      BY <2>2
    <3>2. AlternatingFreq(args, c)[i] = GetFreq(A72, args[i + 2])
      BY <2>2 DEF AlternatingFreq
    <3>3. QED
      BY <3>1, <3>2
  <2>3. QED
    BY <2>1, <2>2
<1>4. QED
  BY <1>2, <1>3

\* The policy w is pw after on_window_start: every slice of the window has the
\* frequency it requests, or the handler threw, and nothing but requested or
\* alternating frequencies was written.
WindowStarted(pw, slices, req, cores, w) ==
    /\ w \in PolicyObject
    /\ w.name = pw.name /\ w.args = pw.args
    /\ pw.name \notin {"imx8_per_slice", "imx8_alternating"} => w = pw
    /\ pw.name = "imx8_per_slice" =>
          \/ w.threw
          \/ \A s \in slices, c \in {A53, A72} :
                req[s] # 0 /\ Touches(cores[s], c) => w.freq[c] = req[s]
    /\ \A c \in Cluster :
          \/ w.freq[c] = pw.freq[c]
          \/ /\ pw.name = "imx8_per_slice" /\ c \in {A53, A72}
             /\ \E s \in slices : req[s] # 0 /\ Touches(cores[s], c) /\ w.freq[c] = req[s]
          \/ /\ pw.name = "imx8_alternating" /\ c \in {A53, A72}
             /\ \E i \in 1 .. 2 : w.freq[c] = AlternatingFreq(pw.args, c)[i]

\* on_window_start does so, whatever the policy.
LEMMA WindowStartFacts ==
    ASSUME NEW pw \in PolicyObject, Accepted(pw.name, pw.args),
           NEW slices \in SUBSET Slice, NEW req \in [Slice -> Nat], NEW cores
    PROVE  WindowStarted(pw, slices, req, cores, OnWindowStart(pw, slices, req, cores))
<1> USE DEF WindowStarted
<1> DEFINE asked(c) == {req[s] : s \in {t \in slices : req[t] # 0 /\ Touches(cores[t], c)}}
           C == {c \in {A53, A72} : asked(c) # {}}
           w == OnWindowStart(pw, slices, req, cores)
<1>0. {A53, A72} \subseteq Cluster
  BY PowerAssumption
<1>1. CASE pw.name = "imx8_per_slice"
  <2>1. w = IF \E c \in C : \E f, g \in asked(c) : f # g THEN [pw EXCEPT !.threw = TRUE]
            ELSE WriteFrequency(pw, C, [c \in C |-> CHOOSE f \in asked(c) : TRUE])
    BY <1>1 DEF OnWindowStart
  <2>2. CASE \E c \in C : \E f, g \in asked(c) : f # g
    <3> HIDE DEF asked, C
    <3>1. w = [pw EXCEPT !.threw = TRUE]
      BY <2>1, <2>2
    <3>2. w \in PolicyObject /\ w.name = pw.name /\ w.args = pw.args /\ w.threw /\ w.freq = pw.freq
      BY <3>1 DEF PolicyObject
    <3>3. QED
      BY <1>1, <3>2
  <2>3. CASE ~ \E c \in C : \E f, g \in asked(c) : f # g
    <3> DEFINE F == [c \in C |-> CHOOSE f \in asked(c) : TRUE]
    <3>1. \A c \in C : F[c] \in asked(c) /\ \A f \in asked(c) : f = F[c]
      <4> HIDE DEF asked
      <4> QED BY <2>3
    <3>2. \A c \in C : F[c] \in Nat
      BY <3>1
    <3>3. w = WriteFrequency(pw, C, F)
      <4> HIDE DEF asked, C
      <4> QED BY <2>1, <2>3
    <3> HIDE DEF F, w
    <3>4. /\ w \in PolicyObject /\ w.name = pw.name /\ w.args = pw.args
          /\ \A c \in Cluster : w.freq[c] = IF c \in C /\ Active(c) THEN F[c] ELSE pw.freq[c]
      <4> HIDE DEF asked, C
      <4> QED BY <3>2, <3>3, WriteFacts
    <3>5. ASSUME NEW s \in slices, NEW c \in {A53, A72}, req[s] # 0, Touches(cores[s], c)
          PROVE  w.freq[c] = req[s]
      <4>1. c \in C /\ req[s] \in asked(c) /\ Active(c)
        BY <3>5 DEF Active, Touches
      <4>2. QED
        BY <1>0, <3>1, <3>4, <4>1
    <3>6. ASSUME NEW c \in Cluster, w.freq[c] # pw.freq[c]
          PROVE  /\ c \in {A53, A72}
                 /\ \E s \in slices : req[s] # 0 /\ Touches(cores[s], c) /\ w.freq[c] = req[s]
      <4>1. c \in C /\ w.freq[c] \in asked(c)
        BY <3>1, <3>4, <3>6
      <4>2. QED
        BY <4>1
    <3>7. QED
      <4> HIDE DEF asked, C
      <4> QED BY <1>1, <3>4, <3>5, <3>6 DEF w
  <2>4. QED
    BY <2>2, <2>3
<1>2. CASE pw.name = "imx8_alternating"
  <2> DEFINE F == [c \in {A53, A72} |-> AlternatingFreq(pw.args, c)[IF pw.f1_next THEN 1 ELSE 2]]
             D == {A53, A72} \ SamePair(pw.args)
             u == WriteFrequency(pw, D, F)
  <2>1. w = [u EXCEPT !.f1_next = ~pw.f1_next]
    BY <1>2 DEF OnWindowStart
  <2>2. \A c \in {A53, A72} : \E i \in 1 .. 2 : F[c] = AlternatingFreq(pw.args, c)[i]
    OBVIOUS
  <2> HIDE DEF F
  <2>3. pw.args \in Seq(Nat) /\ \A c \in {A53, A72} : F[c] \in Nat
    BY <1>2, <2>2, AlternatingFacts DEF PolicyObject
  <2>4. D \subseteq {A53, A72}
    OBVIOUS
  <2> HIDE DEF D
  <2>5. /\ u \in PolicyObject /\ u.name = pw.name /\ u.args = pw.args
        /\ \A c \in Cluster : u.freq[c] = IF c \in D /\ Active(c) THEN F[c] ELSE pw.freq[c]
    BY <2>3, <2>4, WriteFacts
  <2> HIDE DEF u, w
  <2>6. w \in PolicyObject /\ w.name = pw.name /\ w.args = pw.args /\ w.freq = u.freq
    <3>1. (~pw.f1_next) \in BOOLEAN
      OBVIOUS
    <3>2. QED
      BY <2>1, <2>5, <3>1 DEF PolicyObject
  <2>7. QED
    BY <1>2, <2>2, <2>4, <2>5, <2>6 DEF w
<1>3. CASE pw.name \notin {"imx8_per_slice", "imx8_alternating"}
  <2>1. w = pw
    BY <1>3 DEF OnWindowStart
  <2>2. QED
    BY <1>3, <2>1
<1>4. QED
  BY <1>1, <1>2, <1>3

-------------------------------------------------------------------------------
(* The steps of the scheduler, as far as the handlers depend on them *)

\* No handler is under way once the loop has returned or crashed.
Halted == loop \in {"stopped", "crashed"} => op = "idle"

\* Only a handler that has been dispatched is ever under way.
LEMMA HaltedStep == ASSUME Halted, [Next]_vars PROVE Halted'
<1>1. CASE UNCHANGED <<loop, op>> \/ op' = "idle" \/ loop' \notin {"stopped", "crashed"}
  BY <1>1 DEF Halted
<1>2. ASSUME NEW e, Dispatch(e), UNCHANGED loop PROVE Halted'
  BY <1>2 DEF Dispatch, Halted
<1>3. ASSUME op # "idle", UNCHANGED loop PROVE Halted'
  BY <1>3 DEF Halted
<1>4. ASSUME \/ Startup \/ WindowTimer \/ RunTimer \/ Signal
             \/ \E p \in Proc : \/ CompletedIgnored(p) \/ CompletedInit(p) \/ ProcessEnded(p)
                                \/ ChildTerminatedButPopulated(p)
                                \/ \E s \in Slice : CompletedInSlice(p, s)
             \/ \E s \in Slice : SliceTimer(s)
      PROVE  Halted'
  BY <1>2, <1>4 DEF Startup, WindowTimer, RunTimer, Signal, CompletedIgnored, CompletedInit,
     ProcessEnded, ChildTerminatedButPopulated, CompletedInSlice, SliceTimer
<1>5. ASSUME \/ StartDone \/ EnterNextWindow \/ KillProcesses \/ ExitCheck
             \/ \E s \in Slice : StartSc(s) \/ StartBe(s) \/ StopSlice(s)
      PROVE  Halted'
  BY <1>3, <1>5 DEF StartDone, EnterNextWindow, KillProcesses, ExitCheck, StartSc, StartBe,
     StopSlice
<1>6. ASSUME \/ Poll \/ LoopReturns \/ Tick \/ ReceiveSignal \/ UNCHANGED vars
             \/ BreakLoop
             \/ \E p \in Proc : Client(p) \/ \E s \in Slice : CompletedCrash(p, s)
      PROVE  UNCHANGED <<loop, op>> \/ op' = "idle" \/ loop' \notin {"stopped", "crashed"}
  BY <1>6 DEF Poll, LoopReturns, Tick, ReceiveSignal, vars, BreakLoop, Client, CompletedCrash,
     Dispatch, ctlVars
<1>7. QED
  BY <1>1, <1>4, <1>5, <1>6 DEF Next, LoopStep, Over

\* Slice::start_next_process changes one slice and goes on with the handler or
\* starts the BE partitions.
LEMMA StartNextEffect ==
    ASSUME IInv, NEW s \in Slice, NEW q, NEW cur, NEW comp, NEW ct, NEW S, NEW dc,
           NEW op0, NEW todo0, StartNextProcess(s, q, cur, comp, ct, S, dc, op0, todo0)
    PROVE  /\ \A t \in Slice \ {s} : running_process'[t] = running_process[t]
           /\ op' \in {op0, "startBe"}
           /\ finished_sc_partitions =< finished_sc_partitions'
<1>1. SliceTypeOK /\ finished_sc_partitions \in Nat
  BY DEF IInv, TypeOK, WindowTypeOK
<1>2. SliceScEnd(op0, todo0, ct) \/ ContinueWith(op0, todo0, ct)
  BY DEF StartNextProcess
<1>3. QED
  BY <1>1, <1>2, OwnSlice DEF SliceScEnd, ContinueWith

\* The steps in which a slice starts processes.
Starts(s) == SliceTimer(s) \/ StartSc(s) \/ StartBe(s) \/ \E p \in Proc : CompletedInSlice(p, s)

\* What they do to the slices and the handler.
LEMMA StartsEffect ==
    ASSUME IInv, NEW s \in Slice, Starts(s)
    PROVE  /\ \A t \in Slice \ {s} : running_process'[t] = running_process[t]
           /\ UNCHANGED <<mf_timer, current_win>>
           /\ finished_sc_partitions =< finished_sc_partitions'
           /\ \/ op = "idle" /\ op' \in {"idle", "startBe"}
              \/ op \in {"startSc", "startBe"} /\ todo # {} /\ op' \in {"startSc", "startBe"}
<1>0. finished_sc_partitions \in Nat
  BY DEF IInv, TypeOK, WindowTypeOK
<1>1. CASE SliceTimer(s) \/ \E p \in Proc : CompletedInSlice(p, s)
  <2>1. PICK ct, dc : ScheduleNext(s, ct, dc)
    BY <1>1 DEF SliceTimer, CompletedInSlice
  <2>2. op = "idle" /\ UNCHANGED <<mf_timer, current_win>>
    BY <1>1 DEF SliceTimer, CompletedInSlice, Dispatch
  <2>3. QED
    BY <2>1, <2>2, StartNextEffect DEF ScheduleNext
<1>2. CASE StartSc(s)
  <2>1. op = "startSc" /\ todo # {} /\ UNCHANGED <<mf_timer, current_win>>
    BY <1>2 DEF StartSc
  <2>2. CASE Sc[s] = NoPartition
    BY <1>0, <1>2, <2>1, <2>2 DEF StartSc, SliceScEnd, sliceVars
  <2>3. CASE Sc[s] # NoPartition
    <3>1. PICK b : StartPartition(s, Sc[s], b, "startSc", todo \ {s})
      BY <1>2, <2>3 DEF StartSc
    <3>2. QED
      BY <2>1, <3>1, StartNextEffect DEF StartPartition
  <2>4. QED
    BY <2>2, <2>3
<1>3. CASE StartBe(s)
  <2>1. op = "startBe" /\ todo # {} /\ UNCHANGED <<mf_timer, current_win>>
    BY <1>3 DEF StartBe
  <2>2. CASE Be[s] = NoPartition
    BY <1>0, <1>3, <2>1, <2>2 DEF StartBe, sliceVars
  <2>3. CASE Be[s] # NoPartition
    <3>1. PICK b : StartPartition(s, Be[s], b, "startBe", todo \ {s})
      BY <1>3, <2>3 DEF StartBe
    <3>2. QED
      BY <2>1, <3>1, StartNextEffect DEF StartPartition
  <2>4. QED
    BY <2>2, <2>3
<1>4. QED
  BY <1>1, <1>2, <1>3 DEF Starts

\* The steps in which no slice starts or stops a process.
OtherStep ==
    \/ Poll \/ LoopReturns \/ Startup \/ Tick \/ ReceiveSignal
    \/ \E p \in Proc : \/ CompletedIgnored(p) \/ CompletedInit(p) \/ Client(p) \/ ProcessEnded(p)
                       \/ ChildTerminatedButPopulated(p)
                       \/ \E s \in Slice : CompletedCrash(p, s)
    \/ ExitCheck \/ WindowTimer \/ RunTimer \/ Signal
    \/ StartDone \/ EnterNextWindow \/ KillProcesses \/ BreakLoop
    \/ UNCHANGED vars

\* Every step is one of the three kinds.
LEMMA StepKinds ==
    ASSUME [Next]_vars PROVE \/ \E s \in Slice : Starts(s) \/ StopSlice(s)
                             \/ OtherStep
BY DEF Next, LoopStep, Over, Starts, OtherStep

\* The other steps leave the slices alone.
LEMMA OtherSlices == ASSUME OtherStep PROVE UNCHANGED sliceVars \/ Tick
BY DEF OtherStep, Poll, LoopReturns, Startup, ReceiveSignal, CompletedIgnored, CompletedInit,
   Client, ProcessEnded, ChildTerminatedButPopulated, CompletedCrash, ExitCheck, WindowTimer,
   RunTimer, Signal, StartDone, EnterNextWindow, KillProcesses, BreakLoop, vars

\* Every step changes the running process of at most one slice, and once a window
\* is being stopped no process is started.
LEMMA SliceChange ==
    ASSUME IInv, [Next]_vars
    PROVE  /\ \/ running_process' = running_process
              \/ \E s \in Slice : \A t \in Slice \ {s} : running_process'[t] = running_process[t]
           /\ op' = "stop" =>
                 \A s \in Slice : running_process'[s] \in {running_process[s], NoProc}
<1>1. CASE OtherStep
  <2>1. running_process' = running_process
    BY <1>1, OtherSlices DEF sliceVars, Tick
  <2>2. QED
    BY <2>1
<1>2. ASSUME NEW s \in Slice, Starts(s)
      PROVE  /\ \A t \in Slice \ {s} : running_process'[t] = running_process[t]
             /\ op' # "stop"
  BY <1>2, StartsEffect
<1>3. ASSUME NEW s \in Slice, StopSlice(s)
      PROVE  /\ \A t \in Slice \ {s} : running_process'[t] = running_process[t]
             /\ running_process'[s] = NoProc
  BY <1>3 DEF StopSlice, IInv, TypeOK, SliceTypeOK
<1>4. QED
  BY <1>1, <1>2, <1>3, StepKinds

\* While the timer of a window is started and its slices have been started, the
\* window was running before, or was being started: then the slices are gone
\* through one by one and Window::start calls its handlers at the end.
LEMMA WindowRuns ==
    ASSUME IInv, Halted, Next, mf_timer', op' # "startSc"
    PROVE  /\ mf_timer /\ current_win' = current_win
           /\ finished_sc_partitions =< finished_sc_partitions'
           /\ \/ op \in {"idle", "exit"}
              \/ op \in {"startSc", "startBe"} /\ todo # {} /\ op' \in {"startSc", "startBe"}
              \/ op \in {"startSc", "startBe"} /\ todo = {} /\ op' \in {"idle", "exit"}
<1> DEFINE Same == UNCHANGED <<mf_timer, current_win, finished_sc_partitions>>
<1>0. finished_sc_partitions \in Nat
  BY DEF IInv, TypeOK, WindowTypeOK
<1>00. ASSUME Same PROVE mf_timer /\ current_win' = current_win
                          /\ finished_sc_partitions =< finished_sc_partitions'
  BY <1>0, <1>00
<1>1. CASE \E s \in Slice : Starts(s)
  BY <1>1, StartsEffect
<1>2. CASE \E s \in Slice : StopSlice(s)
  BY <1>2 DEF StopSlice, IInv, Phases
<1>3. CASE KillProcesses \/ BreakLoop
  BY <1>3 DEF KillProcesses, BreakLoop, winVars, IInv, Phases
<1>4. CASE StartDone
  BY <1>0, <1>4 DEF StartDone, Return, winVars
<1>5. ASSUME NEW rest, FinishProcessInit(rest) PROVE FALSE
  BY <1>5 DEF FinishProcessInit, InitiateShutdown, MfStop, MfStart
<1>6. ASSUME Startup PROVE op = "idle" /\ Same
  BY <1>5, <1>6 DEF Startup, Dispatch, winVars, ctlVars
<1>7. ASSUME NEW p \in Proc, CompletedInit(p) \/ ProcessEnded(p)
      PROVE  op = "idle" /\ Same
  BY <1>5, <1>7 DEF CompletedInit, ProcessEnded, OneInitLess, Dispatch, winVars
<1>8. CASE EnterNextWindow \/ WindowTimer \/ RunTimer \/ Signal
  BY <1>8 DEF EnterNextWindow, MfStart, WindowTimer, RunTimer, Signal, InitiateShutdown, MfStop
<1>9. ASSUME ExitCheck PROVE op = "exit" /\ Same
  BY <1>9 DEF ExitCheck, MfStop, winVars
<1>10. ASSUME Over PROVE op = "idle" /\ Same
  BY <1>10 DEF Over, Halted, vars, winVars
<1>11. ASSUME \/ Poll \/ LoopReturns \/ Tick \/ ReceiveSignal
              \/ \E p \in Proc : \/ CompletedIgnored(p) \/ Client(p)
                                 \/ ChildTerminatedButPopulated(p)
                                 \/ \E s \in Slice : CompletedCrash(p, s)
       PROVE  op = "idle" /\ Same
  BY <1>11 DEF Poll, LoopReturns, Tick, ReceiveSignal, CompletedIgnored, Client,
     ChildTerminatedButPopulated, CompletedCrash, Dispatch, winVars
<1> HIDE DEF Same
<1>12. QED
  BY <1>00, <1>1, <1>2, <1>3, <1>4, <1>6, <1>7, <1>8, <1>9, <1>10, <1>11
     DEF Next, LoopStep, Starts

-------------------------------------------------------------------------------
(* The events of a step *)

\* The policy object and the configuration that it has accepted.
PowerOK ==
    /\ power \in PolicyObject
    /\ Accepted(power.name, power.args)
    /\ request \in Requests
    /\ Validate(power.name)

\* The handler of Window::start is under way until it has called the policy.
Starting ==
    /\ op = "startSc" => starting
    /\ starting => op \in {"startSc", "startBe"}

Base == IInv /\ Halted /\ PowerOK /\ Starting

\* The events of processes are those of one slice: the process that it ran ends,
\* then the one that it runs next, if any, starts.
LEMMA ProcessEventsCases ==
    ASSUME IInv, PowerOK, [Next]_vars
    PROVE  LET w == ProcessEvents(power)
           IN  \/ running_process' = running_process /\ w = power
               \/ \E s \in Slice :
                     LET old == running_process[s]
                         new == running_process'[s]
                         e == IF old = NoProc THEN power ELSE OnProcessEnd(power, old)
                     IN  /\ new # old
                         /\ \A t \in Slice \ {s} : running_process'[t] = running_process[t]
                         /\ w = IF new = NoProc THEN e
                                ELSE OnProcessStart(e, new, request.proc, cpus'[PartOf[new]])
<1> DEFINE changed == {s \in Slice : running_process'[s] # running_process[s]}
<1>1. /\ running_process \in [Slice -> Proc \cup {NoProc}]
      /\ running_process' \in [Slice -> Proc \cup {NoProc}]
  BY NextIInv DEF IInv, TypeOK, SliceTypeOK
<1>2. CASE changed = {}
  <2>1. running_process' = running_process
    BY <1>1, <1>2
  <2>2. ProcessEvents(power) = power
    BY <1>2 DEF ProcessEvents
  <2>3. QED
    BY <2>1, <2>2
<1>3. CASE changed # {}
  <2> DEFINE s == CHOOSE t \in changed : TRUE
             old == running_process[s]
             new == running_process'[s]
             e == IF old = NoProc THEN power ELSE OnProcessEnd(power, old)
  <2>1. s \in changed
    BY <1>3
  <2>2. ProcessEvents(power) = IF new = NoProc THEN e
                               ELSE OnProcessStart(e, new, request.proc, cpus'[PartOf[new]])
    BY <1>3 DEF ProcessEvents
  <2>3. \E t \in Slice : \A r \in Slice \ {t} : running_process'[r] = running_process[r]
    BY <2>1, SliceChange
  <2> HIDE DEF s
  <2>4. \A t \in Slice \ {s} : running_process'[t] = running_process[t]
    BY <2>1, <2>3
  <2>5. QED
    BY <2>1, <2>2, <2>4
<1>4. QED
  BY <1>2, <1>3

\* What they leave alone, whatever the policy.
LEMMA ProcessEventsFacts ==
    ASSUME IInv, PowerOK, [Next]_vars
    PROVE  LET w == ProcessEvents(power)
           IN  /\ w \in PolicyObject
               /\ w.name = power.name /\ w.args = power.args
               /\ power.name \notin PerProcess => w.freq = power.freq /\ w.threw = power.threw
<1> DEFINE w == ProcessEvents(power)
<1>1. power \in PolicyObject /\ request.proc \in [Proc -> Nat]
  BY RequestsAssumption DEF PowerOK
<1>2. CASE w = power
  BY <1>1, <1>2
<1>3. ASSUME NEW s \in Slice, NEW old, NEW new, NEW e,
             old = running_process[s], new = running_process'[s],
             e = IF old = NoProc THEN power ELSE OnProcessEnd(power, old),
             w = IF new = NoProc THEN e
                 ELSE OnProcessStart(e, new, request.proc, cpus'[PartOf[new]])
      PROVE  /\ w \in PolicyObject
             /\ w.name = power.name /\ w.args = power.args
             /\ power.name \notin PerProcess => w.freq = power.freq /\ w.threw = power.threw
  <2> HIDE DEF w
  <2>1. e \in PolicyObject /\ SameButProcs(power, e)
    <3>1. CASE old = NoProc
      BY <1>1, <1>3, <3>1 DEF SameButProcs
    <3>2. CASE old # NoProc
      BY <1>1, <1>3, <3>2, EndFacts
    <3>3. QED
      BY <3>1, <3>2
  <2>2. CASE new = NoProc
    BY <1>3, <2>1, <2>2 DEF SameButProcs
  <2>3. CASE new # NoProc
    <3>1. new \in Proc
      BY <1>3, <2>3, NextIInv DEF IInv, TypeOK, SliceTypeOK
    <3>2. w = OnProcessStart(e, new, request.proc, cpus'[PartOf[new]])
      BY <1>3, <2>3
    <3>3. /\ w \in PolicyObject /\ w.name = e.name /\ w.args = e.args
          /\ e.name \notin PerProcess => w = e
      BY <1>1, <2>1, <3>1, <3>2, StartFacts
    <3>4. QED
      BY <2>1, <3>3 DEF SameButProcs
  <2>4. QED
    BY <2>2, <2>3
<1>4. QED
  BY <1>2, <1>3, ProcessEventsCases

\* What the handlers called by Window::start and slice_sc_end_cb do.
LEMMA WindowEventsFacts ==
    ASSUME IInv, PowerOK, NEW pw \in PolicyObject, pw.name = power.name, pw.args = power.args
    PROVE  LET w == WindowEvents(pw)
               done == op \in {"startSc", "startBe"} /\ todo = {}
           IN  /\ w \in PolicyObject
               /\ w.name = pw.name /\ w.args = pw.args
               /\ ~done \/ pw.name \in PerProcess => w = pw
               /\ ~starting /\ pw.name # "minbe" => w = pw
               /\ done /\ starting /\ pw.name = "minbe" =>
                     \A c \in Cluster : Active(c) => w.freq[c] = MaxFrequency[c]
               /\ done /\ starting /\ pw.name = "imx8_per_slice" =>
                     \/ w.threw
                     \/ \A s \in Windows[current_win], c \in {A53, A72} :
                           request.slice[s] # 0 /\ Touches(Cpus[s], c)
                           => w.freq[c] = request.slice[s]
               /\ \A c \in Cluster :
                     \/ w.freq[c] = pw.freq[c]
                     \/ pw.name = "minbe" /\ w.freq[c] \in {MinFrequency[c], MaxFrequency[c]}
                     \/ /\ pw.name = "imx8_per_slice" /\ c \in {A53, A72}
                        /\ \E s \in Slice : /\ request.slice[s] # 0 /\ Touches(Cpus[s], c)
                                            /\ w.freq[c] = request.slice[s]
                     \/ /\ pw.name = "imx8_alternating" /\ c \in {A53, A72}
                        /\ \E i \in 1 .. 2 : w.freq[c] = AlternatingFreq(pw.args, c)[i]
<1> DEFINE done == op \in {"startSc", "startBe"} /\ todo = {}
           be == IF op = "startBe" THEN OnBeStart(pw) ELSE pw
           ws == OnWindowStart(be, Windows[current_win], request.slice, Cpus)
           w == WindowEvents(pw)
<1>1. /\ Windows[current_win] \in SUBSET Slice /\ request.slice \in [Slice -> Nat]
      /\ Accepted(pw.name, pw.args)
  BY WindowFacts, RequestsAssumption DEF IInv, TypeOK, WindowTypeOK, PowerOK
<1>2. w = IF ~done THEN pw ELSE IF ~starting THEN be ELSE OnScStart(ws)
  BY DEF WindowEvents
<1>3. /\ be \in PolicyObject /\ be.name = pw.name /\ be.args = pw.args
      /\ pw.name # "minbe" => be = pw
      /\ \A c \in Cluster : \/ be.freq[c] = pw.freq[c]
                            \/ pw.name = "minbe" /\ be.freq[c] = MinFrequency[c]
  BY BeStartFacts
<1> HIDE DEF be, w
<1>4. /\ ws \in PolicyObject /\ ws.name = pw.name /\ ws.args = pw.args
      /\ pw.name \notin {"imx8_per_slice", "imx8_alternating"} => ws = be
      /\ pw.name = "imx8_per_slice" =>
            \/ ws.threw
            \/ \A s \in Windows[current_win], c \in {A53, A72} :
                  request.slice[s] # 0 /\ Touches(Cpus[s], c) => ws.freq[c] = request.slice[s]
      /\ \A c \in Cluster :
            \/ ws.freq[c] = be.freq[c]
            \/ /\ pw.name = "imx8_per_slice" /\ c \in {A53, A72}
               /\ \E s \in Windows[current_win] :
                     request.slice[s] # 0 /\ Touches(Cpus[s], c) /\ ws.freq[c] = request.slice[s]
            \/ /\ pw.name = "imx8_alternating" /\ c \in {A53, A72}
               /\ \E i \in 1 .. 2 : ws.freq[c] = AlternatingFreq(pw.args, c)[i]
  <2>1. /\ be \in PolicyObject /\ Accepted(be.name, be.args)
        /\ Windows[current_win] \in SUBSET Slice /\ request.slice \in [Slice -> Nat]
    BY <1>1, <1>3
  <2>2. WindowStarted(be, Windows[current_win], request.slice, Cpus, ws)
    BY <2>1, WindowStartFacts
  <2> HIDE DEF ws
  <2>3. QED
    BY <1>3, <2>2 DEF WindowStarted
<1> HIDE DEF ws
<1>5. /\ OnScStart(ws) \in PolicyObject
      /\ OnScStart(ws).name = pw.name /\ OnScStart(ws).args = pw.args
      /\ pw.name # "minbe" => OnScStart(ws) = ws
      /\ \A c \in Cluster : \/ OnScStart(ws).freq[c] = ws.freq[c]
                            \/ pw.name = "minbe" /\ OnScStart(ws).freq[c] = MaxFrequency[c]
      /\ pw.name = "minbe" =>
            \A c \in Cluster : Active(c) => OnScStart(ws).freq[c] = MaxFrequency[c]
  BY <1>4, ScStartFacts
<1>6. /\ w \in PolicyObject /\ w.name = pw.name /\ w.args = pw.args
      /\ ~done \/ pw.name \in PerProcess => w = pw
      /\ ~starting /\ pw.name # "minbe" => w = pw
  <2>1. pw.name \in PerProcess => pw.name \notin {"minbe", "imx8_per_slice", "imx8_alternating"}
    BY DEF PerProcess
  <2>2. QED
    BY <1>2, <1>3, <1>4, <1>5, <2>1
<1>7. /\ done /\ starting /\ pw.name = "minbe" =>
            \A c \in Cluster : Active(c) => w.freq[c] = MaxFrequency[c]
      /\ done /\ starting /\ pw.name = "imx8_per_slice" =>
            \/ w.threw
            \/ \A s \in Windows[current_win], c \in {A53, A72} :
                  request.slice[s] # 0 /\ Touches(Cpus[s], c) => w.freq[c] = request.slice[s]
  BY <1>2, <1>4, <1>5
<1>8. ASSUME NEW c \in Cluster
      PROVE  \/ w.freq[c] = pw.freq[c]
             \/ pw.name = "minbe" /\ w.freq[c] \in {MinFrequency[c], MaxFrequency[c]}
             \/ /\ pw.name = "imx8_per_slice" /\ c \in {A53, A72}
                /\ \E s \in Slice : /\ request.slice[s] # 0 /\ Touches(Cpus[s], c)
                                    /\ w.freq[c] = request.slice[s]
             \/ /\ pw.name = "imx8_alternating" /\ c \in {A53, A72}
                /\ \E i \in 1 .. 2 : w.freq[c] = AlternatingFreq(pw.args, c)[i]
  <2>1. CASE ~done
    BY <1>2, <2>1
  <2>2. CASE done /\ ~starting
    BY <1>2, <1>3, <2>2
  <2>3. CASE done /\ starting
    <3>1. w = OnScStart(ws)
      BY <1>2, <2>3
    <3>2. CASE pw.name = "minbe"
      BY <1>3, <1>4, <1>5, <3>1, <3>2
    <3>3. CASE pw.name # "minbe"
      BY <1>1, <1>3, <1>4, <1>5, <3>1, <3>3
    <3>4. QED
      BY <3>2, <3>3
  <2>4. QED
    BY <2>1, <2>2, <2>3
<1>9. QED
  BY <1>6, <1>7, <1>8, Zenon DEF w

-------------------------------------------------------------------------------
(* The common part of the invariant *)

\* The indices that imx8_fixed was created with are those of listed frequencies.
LEMMA FixedFacts ==
    ASSUME NEW args \in Seq(Nat), Accepted("imx8_fixed", args), NEW c \in {A53, A72}, Active(c)
    PROVE  LET f == GetFreq(c, args[IF c = A53 THEN 1 ELSE 2])
           IN  f \in ToSet(AvailableFrequencies[c]) /\ f \in Nat \ {0}
<1> DEFINE j == IF c = A53 THEN 1 ELSE 2
<1>1. Len(args) = 2 /\ \A i \in 1 .. 2 : Active(<<A53, A72>>[i]) => HasFreq(<<A53, A72>>[i], args[i])
  BY DEF Accepted, ArgCount
<1>2. j \in 1 .. 2 /\ <<A53, A72>>[j] = c
  OBVIOUS
<1>3. HasFreq(c, args[j])
  BY <1>1, <1>2
<1> HIDE DEF j
<1>4. args[j] \in Nat
  <2>1. j \in 1 .. Len(args)
    BY <1>1, <1>2
  <2>2. QED
    BY <2>1, ElementOfSeq
<1>5. AvailableFrequencies[c] \in Seq(Nat \ {0})
  BY PowerAssumption
<1>6. args[j] + 1 \in DOMAIN AvailableFrequencies[c]
  BY <1>3, <1>4, <1>5 DEF HasFreq
<1>7. /\ GetFreq(c, args[j]) \in Nat \ {0}
      /\ \E k \in DOMAIN AvailableFrequencies[c] : GetFreq(c, args[j]) = AvailableFrequencies[c][k]
  BY <1>5, <1>6 DEF GetFreq
<1>8. QED
  BY <1>7 DEF ToSet, j

\* The policy w has been created: nothing runs and each cluster is untouched, at
\* an end of its range, or at a listed frequency.
Created(name, args, w) ==
    /\ w \in PolicyObject
    /\ w.name = name /\ w.args = args /\ w.threw = FALSE
    /\ \A c \in Cluster :
          /\ w.requesting_procs[c] = <<>>
          /\ \/ w.freq[c] \in {0, MinFrequency[c], MaxFrequency[c]}
             \/ w.freq[c] \in ToSet(AvailableFrequencies[c])

\* The constructors of the policies.
LEMMA NewPolicyFacts ==
    ASSUME NEW name, NEW args \in Seq(Nat), Accepted(name, args)
    PROVE  Created(name, args, NewPolicy(name, args))
<1> DEFINE pw == [name |-> name, args |-> args, freq |-> [c \in Cluster |-> 0],
                  requesting_procs |-> [c \in Cluster |-> <<>>], f1_next |-> TRUE,
                  threw |-> FALSE]
           w == NewPolicy(name, args)
<1>0. /\ {A53, A72} \subseteq Cluster
      /\ \A c \in Cluster : MinFrequency[c] \in Nat /\ MaxFrequency[c] \in Nat
  BY PowerAssumption
<1>1. name \in PolicyNames
  BY DEF Accepted, PolicyNames, ArgCount
<1>2. /\ pw \in PolicyObject /\ pw.name = name /\ pw.args = args /\ pw.threw = FALSE
      /\ \A c \in Cluster : pw.requesting_procs[c] = <<>> /\ pw.freq[c] = 0
  <2>1. <<>> \in Seq(Proc) /\ TRUE \in BOOLEAN /\ FALSE \in BOOLEAN
    OBVIOUS
  <2>2. QED
    BY <1>1, <2>1 DEF PolicyObject
<1>3. w = CASE name = "low" -> WriteFrequency(pw, Cluster, MinFrequency)
            [] name \in {"high", "minbe"} -> WriteFrequency(pw, Cluster, MaxFrequency)
            [] name = "imx8_fixed" ->
                  WriteFrequency(pw, {A53, A72},
                      [c \in {A53, A72} |-> GetFreq(c, args[IF c = A53 THEN 1 ELSE 2])])
            [] name = "imx8_alternating" ->
                  WriteFrequency(pw, SamePair(args),
                      [c \in {A53, A72} |-> AlternatingFreq(args, c)[1]])
            [] OTHER -> pw
  BY DEF NewPolicy
<1> HIDE DEF pw, w
<1>4. ASSUME NEW C \in SUBSET Cluster, NEW f, w = WriteFrequency(pw, C, f),
             \A c \in C : Active(c) =>
                 /\ f[c] \in Nat
                 /\ \/ f[c] \in {MinFrequency[c], MaxFrequency[c]}
                    \/ f[c] \in ToSet(AvailableFrequencies[c])
      PROVE  Created(name, args, w)
  <2>1. /\ w \in PolicyObject /\ w.name = pw.name /\ w.args = pw.args /\ w.threw = pw.threw
        /\ w.requesting_procs = pw.requesting_procs
        /\ \A c \in Cluster : w.freq[c] = IF c \in C /\ Active(c) THEN f[c] ELSE pw.freq[c]
    BY <1>2, <1>4, WriteFacts
  <2>2. QED
    BY <1>2, <1>4, <2>1 DEF Created
<1>5. CASE name = "low"
  <2>1. w = WriteFrequency(pw, Cluster, MinFrequency) /\ Cluster \in SUBSET Cluster
    BY <1>3, <1>5
  <2>2. QED
    BY <1>0, <1>4, <2>1 DEF w
<1>6. CASE name \in {"high", "minbe"}
  <2>1. w = WriteFrequency(pw, Cluster, MaxFrequency) /\ Cluster \in SUBSET Cluster
    BY <1>3, <1>6
  <2>2. QED
    BY <1>0, <1>4, <2>1 DEF w
<1>7. CASE name = "imx8_fixed"
  <2> DEFINE f == [c \in {A53, A72} |-> GetFreq(c, args[IF c = A53 THEN 1 ELSE 2])]
  <2>1. w = WriteFrequency(pw, {A53, A72}, f)
    BY <1>3, <1>7
  <2>2. ASSUME NEW c \in {A53, A72}, Active(c)
        PROVE  f[c] \in Nat /\ f[c] \in ToSet(AvailableFrequencies[c])
    <3>1. f[c] = GetFreq(c, args[IF c = A53 THEN 1 ELSE 2])
      OBVIOUS
    <3> HIDE DEF f
    <3>2. QED
      BY <1>7, <2>2, <3>1, FixedFacts
  <2> HIDE DEF f
  <2>3. {A53, A72} \in SUBSET Cluster
    BY <1>0
  <2>4. QED
    BY <1>4, <2>1, <2>2, <2>3 DEF w
<1>8. CASE name = "imx8_alternating"
  <2> DEFINE f == [c \in {A53, A72} |-> AlternatingFreq(args, c)[1]]
  <2>1. w = WriteFrequency(pw, SamePair(args), f)
    BY <1>3, <1>8
  <2>2. \A c \in {A53, A72} : f[c] \in Nat /\ f[c] \in ToSet(AvailableFrequencies[c])
    BY <1>8, AlternatingFacts
  <2>3. SamePair(args) \in SUBSET Cluster /\ SamePair(args) \subseteq {A53, A72}
    BY <1>0 DEF SamePair
  <2> HIDE DEF f
  <2>4. QED
    BY <1>4, <2>1, <2>2, <2>3 DEF w
<1>9. CASE name \notin {"low", "high", "minbe", "imx8_fixed", "imx8_alternating"}
  <2>1. w = pw
    BY <1>3, <1>9
  <2>2. QED
    BY <1>2, <2>1 DEF Created, w
<1>10. QED
  BY <1>5, <1>6, <1>7, <1>8, <1>9

\* The scheduler with a policy is the scheduler.
LEMMA PowerStepIsNext == ASSUME [PowerNext]_<<vars, powerVars>> PROVE [Next]_vars
BY DEF PowerNext, PowerStep, Thrown

\* The common part holds initially.
LEMMA BaseInit == ASSUME PowerInit PROVE Base /\ power.threw = FALSE
<1>1. IInv
  BY InitIInv DEF PowerInit
<1>2. Halted /\ Starting
  BY DEF PowerInit, Init, Halted, Starting
<1>3. PICK o \in Policies : /\ Accepted(o.name, o.args) /\ Validate(o.name)
                            /\ power = NewPolicy(o.name, o.args)
  BY DEF PowerInit
<1>4. Created(o.name, o.args, power)
  BY <1>3, NewPolicyFacts, RequestsAssumption
<1>5. QED
  BY <1>1, <1>2, <1>3, <1>4 DEF Base, PowerOK, Created, PowerInit

\* The effect of one step on the policy object.
LEMMA PowerStepFacts ==
    ASSUME Base, PowerStep
    PROVE  LET pe == ProcessEvents(power)
           IN  /\ pe \in PolicyObject /\ pe.name = power.name /\ pe.args = power.args
               /\ power' = WindowEvents(pe)
               /\ power' \in PolicyObject /\ power'.name = power.name /\ power'.args = power.args
               /\ request' = request /\ Next
<1> DEFINE pe == ProcessEvents(power)
<1>1. IInv /\ PowerOK /\ Next /\ power' = WindowEvents(pe) /\ request' = request
  BY DEF Base, PowerStep
<1>2. pe \in PolicyObject /\ pe.name = power.name /\ pe.args = power.args
  BY <1>1, ProcessEventsFacts
<1> HIDE DEF pe
<1>3. power' \in PolicyObject /\ power'.name = power.name /\ power'.args = power.args
  BY <1>1, <1>2, WindowEventsFacts
<1>4. QED
  BY <1>1, <1>2, <1>3 DEF pe

\* Every step keeps the common part.
LEMMA BaseStep == ASSUME Base, [PowerNext]_<<vars, powerVars>> PROVE Base'
<1>1. IInv' /\ Halted'
  BY PowerStepIsNext, NextIInv, HaltedStep DEF Base
<1>2. CASE PowerStep
  <2>1. power' \in PolicyObject /\ power'.name = power.name /\ power'.args = power.args
        /\ request' = request
    BY <1>2, PowerStepFacts
  <2>2. PowerOK'
    BY <2>1 DEF Base, PowerOK, Validate
  <2>3. Starting'
    BY <1>2 DEF PowerStep, Starting
  <2>4. QED
    BY <1>1, <2>2, <2>3 DEF Base
<1>3. CASE UNCHANGED <<vars, powerVars>>
  <2>1. UNCHANGED <<power, request, starting, op>>
    BY <1>3 DEF vars, powerVars, ctlVars
  <2>2. QED
    BY <1>1, <2>1 DEF Base, PowerOK, Validate, Starting
<1>4. QED
  BY <1>2, <1>3 DEF PowerNext, Thrown

\* The scheduler with a power policy behaves as the scheduler alone: a policy may
\* end it by throwing but changes none of its decisions.
THEOREM PolicyPreservesScheduling == PowerSpec => Spec
<1>1. PowerInit => Init
  BY DEF PowerInit
<1>2. [PowerNext]_<<vars, powerVars>> => [Next]_vars
  BY PowerStepIsNext
<1>3. QED
  BY <1>1, <1>2, PTL DEF PowerSpec, Spec

-------------------------------------------------------------------------------
(* Windows and slices *)

\* The slices of the window have been started and the policy told of it.
Underway == mf_timer /\ (op \in {"idle", "exit"} \/ (op = "startBe" /\ ~starting))

\* SliceFrequencyGranted, also while handlers run.
SliceGranted ==
    power.name = "imx8_per_slice" /\ ~power.threw /\ Underway =>
        \A s \in Windows[current_win], c \in {A53, A72} :
            request.slice[s] # 0 /\ Touches(Cpus[s], c) => power.freq[c] = request.slice[s]

\* What a window was given when it started it keeps until it is stopped.
LEMMA SliceGrantedStep ==
    ASSUME Base, SliceGranted, [PowerNext]_<<vars, powerVars>> PROVE SliceGranted'
<1>1. CASE UNCHANGED <<vars, powerVars>>
  BY <1>1 DEF vars, powerVars, winVars, ctlVars, SliceGranted, Underway
<1>2. CASE PowerStep
  <2> SUFFICES ASSUME power'.name = "imx8_per_slice", ~power'.threw, Underway'
               PROVE  \A s \in Windows[current_win'], c \in {A53, A72} :
                         request'.slice[s] # 0 /\ Touches(Cpus[s], c)
                         => power'.freq[c] = request'.slice[s]
    BY DEF SliceGranted, Underway
  <2> DEFINE pe == ProcessEvents(power)
             done == op \in {"startSc", "startBe"} /\ todo = {}
  <2>1. /\ pe \in PolicyObject /\ pe.name = power.name /\ pe.args = power.args
        /\ power' = WindowEvents(pe) /\ power'.name = power.name /\ request' = request /\ Next
    BY <1>2, PowerStepFacts
  <2>2. IInv /\ Halted /\ PowerOK /\ Starting /\ ~power.threw /\ power.name = "imx8_per_slice"
    BY <1>2, <2>1 DEF Base, PowerStep
  <2>3. pe.freq = power.freq
    BY <2>1, <2>2, ProcessEventsFacts DEF PerProcess
  <2>4. /\ mf_timer /\ current_win' = current_win
        /\ \/ op \in {"idle", "exit"}
           \/ op \in {"startSc", "startBe"} /\ todo # {} /\ op' \in {"startSc", "startBe"}
           \/ op \in {"startSc", "startBe"} /\ todo = {} /\ op' \in {"idle", "exit"}
    BY <2>1, <2>2, WindowRuns DEF Underway
  <2> HIDE DEF pe
  <2>5. /\ ~done => power' = pe
        /\ ~starting => power' = pe
        /\ done /\ starting =>
              \/ power'.threw
              \/ \A s \in Windows[current_win], c \in {A53, A72} :
                    request.slice[s] # 0 /\ Touches(Cpus[s], c)
                    => power'.freq[c] = request.slice[s]
    BY <2>1, <2>2, WindowEventsFacts
  <2>6. CASE done /\ starting
    BY <2>1, <2>4, <2>5, <2>6
  <2>7. CASE ~(done /\ starting)
    <3>1. power'.freq = power.freq
      BY <2>3, <2>5, <2>7
    <3>2. Underway
      <4>1. starting' = (op' = "startSc" \/ (op' = "startBe" /\ starting))
        BY <1>2 DEF PowerStep
      <4>2. QED
        BY <2>2, <2>4, <2>7, <4>1 DEF Underway, Starting
    <3>3. QED
      BY <2>1, <2>2, <2>4, <3>1, <3>2 DEF SliceGranted
  <2>8. QED
    BY <2>6, <2>7
<1>3. QED
  BY <1>1, <1>2 DEF PowerNext, Thrown

\* While a window runs, each of its slices that requests a frequency has it, for
\* every configuration: otherwise on_window_start has thrown.
THEOREM SliceFrequencyHolds == PowerSpec => []SliceFrequencyGranted
<1>1. PowerInit => Base /\ SliceGranted
  <2>1. PowerInit => ~mf_timer
    BY DEF PowerInit, Init
  <2>2. QED
    BY <2>1, BaseInit DEF SliceGranted, Underway
<1>2. Base /\ SliceGranted /\ [PowerNext]_<<vars, powerVars>> => (Base /\ SliceGranted)'
  BY BaseStep, SliceGrantedStep
<1>3. SliceGranted => SliceFrequencyGranted
  BY DEF SliceGranted, SliceFrequencyGranted, Underway
<1>4. QED
  BY <1>1, <1>2, <1>3, PTL DEF PowerSpec

\* ScAtMax, also while a process that ended is looked after.
MaxGranted ==
    power.name = "minbe" /\ Between /\ mf_timer /\ finished_sc_partitions < Total =>
        \A c \in Cluster : Active(c) => power.freq[c] = MaxFrequency[c]

\* on_be_start comes only when the last SC partition has ended.
LEMMA MaxGrantedStep ==
    ASSUME Base, MaxGranted, [PowerNext]_<<vars, powerVars>> PROVE MaxGranted'
<1>1. CASE UNCHANGED <<vars, powerVars>>
  BY <1>1 DEF vars, powerVars, winVars, ctlVars, MaxGranted, Between, Total
<1>2. CASE PowerStep
  <2> SUFFICES ASSUME power'.name = "minbe", op' \in {"idle", "exit"}, mf_timer',
                      finished_sc_partitions' < Total'
               PROVE  \A c \in Cluster : Active(c) => power'.freq[c] = MaxFrequency[c]
    BY DEF MaxGranted, Between
  <2> DEFINE pe == ProcessEvents(power)
             done == op \in {"startSc", "startBe"} /\ todo = {}
  <2>1. /\ pe \in PolicyObject /\ pe.name = power.name /\ pe.args = power.args
        /\ power' = WindowEvents(pe) /\ power'.name = power.name /\ Next
    BY <1>2, PowerStepFacts
  <2>2. IInv /\ Halted /\ PowerOK /\ Starting /\ power.name = "minbe"
    BY <2>1 DEF Base
  <2>3. pe.freq = power.freq
    BY <2>1, <2>2, ProcessEventsFacts DEF PerProcess
  <2>4. /\ mf_timer /\ current_win' = current_win
        /\ finished_sc_partitions =< finished_sc_partitions'
        /\ \/ op \in {"idle", "exit"}
           \/ op \in {"startSc", "startBe"} /\ todo # {} /\ op' \in {"startSc", "startBe"}
           \/ op \in {"startSc", "startBe"} /\ todo = {} /\ op' \in {"idle", "exit"}
    BY <2>1, <2>2, WindowRuns
  <2>5. /\ finished_sc_partitions \in Nat /\ finished_sc_partitions' \in Nat /\ Total \in Nat
        /\ Total' = Total
    BY <2>1, <2>2, <2>4, NextIInv, WindowFacts DEF IInv, TypeOK, WindowTypeOK, Total
  <2>6. finished_sc_partitions < Total
    BY <2>4, <2>5
  <2> HIDE DEF pe
  <2>7. /\ ~done => power' = pe
        /\ done /\ starting => \A c \in Cluster : Active(c) => power'.freq[c] = MaxFrequency[c]
    BY <2>1, <2>2, WindowEventsFacts
  <2>8. CASE op \in {"idle", "exit"}
    BY <2>2, <2>3, <2>4, <2>6, <2>7, <2>8 DEF MaxGranted, Between
  <2>9. CASE op \in {"startSc", "startBe"}
    <3>1. op # "startBe"
      BY <2>2, <2>5, <2>6 DEF IInv, Phases, BePhase
    <3>2. done /\ starting
      BY <2>2, <2>4, <2>9, <3>1 DEF Starting
    <3>3. QED
      BY <2>7, <3>2
  <2>10. QED
    BY <2>4, <2>8, <2>9
<1>3. QED
  BY <1>1, <1>2 DEF PowerNext, Thrown

\* With minbe the SC partitions of a window run at the maximum frequency from the
\* start of the window until the last of them has ended.
THEOREM ScAtMaxHolds == PowerSpec => []ScAtMax
<1>1. PowerInit => Base /\ MaxGranted
  <2>1. PowerInit => ~mf_timer
    BY DEF PowerInit, Init
  <2>2. QED
    BY <2>1, BaseInit DEF MaxGranted
<1>2. Base /\ MaxGranted /\ [PowerNext]_<<vars, powerVars>> => (Base /\ MaxGranted)'
  BY BaseStep, MaxGrantedStep
<1>3. MaxGranted => ScAtMax
  BY DEF MaxGranted, ScAtMax, Between
<1>4. QED
  BY <1>1, <1>2, <1>3, PTL DEF PowerSpec

-------------------------------------------------------------------------------
(* What is written to the cpufreq policies *)

\* What the kernel shows of a cpufreq policy fits together: its frequencies, if
\* they are listed, lie within its limits, which are listed among them.
FrequencyTables ==
    \A c \in Cluster :
        /\ MinFrequency[c] =< MaxFrequency[c]
        /\ AvailableFrequencies[c] # <<>> =>
              {MinFrequency[c], MaxFrequency[c]} \subseteq ToSet(AvailableFrequencies[c])
        /\ \A f \in ToSet(AvailableFrequencies[c]) :
              MinFrequency[c] =< f /\ f =< MaxFrequency[c]

\* Then the frequencies of the constructors, of minbe and of imx8_alternating are
\* ones that the cluster supports.
LEMMA TableFrequencies ==
    ASSUME FrequencyTables, NEW c \in Cluster, NEW f,
           \/ f \in {MinFrequency[c], MaxFrequency[c]}
           \/ f \in ToSet(AvailableFrequencies[c])
    PROVE  ValidFrequency(c, f)
<1>1. MinFrequency[c] \in Nat /\ MaxFrequency[c] \in Nat
  BY PowerAssumption
<1>2. CASE f \in {MinFrequency[c], MaxFrequency[c]}
  BY <1>1, <1>2 DEF FrequencyTables, ValidFrequency
<1>3. CASE f \in ToSet(AvailableFrequencies[c])
  BY <1>3 DEF FrequencyTables, ValidFrequency
<1>4. QED
  BY <1>2, <1>3

\* A running process has the CPUs of some slice that is configured with its
\* partition, though perhaps not of the slice that runs it.
Placed ==
    \A s \in Slice : running_process[s] # NoProc =>
        LET q == PartOf[running_process[s]]
        IN  \E t \in Slice : q \in {Sc[t], Be[t]} /\ cpus[q] = Cpus[t]

\* Slice::start_partition and the scheduling of the next process keep this.
LEMMA PlacedStarts == ASSUME IInv, IInv', Placed, NEW s \in Slice, Starts(s) PROVE Placed'
<1>1. \A t \in Slice \ {s} : running_process'[t] = running_process[t]
  BY StartsEffect
<1>2. ASSUME NEW q \in Partition, q \in {Sc[s], Be[s]}, cpus' = [cpus EXCEPT ![q] = Cpus[s]],
             running_partition' = [running_partition EXCEPT ![s] = q]
      PROVE  Placed'
  <2>1. ASSUME NEW t \in Slice, running_process'[t] # NoProc
        PROVE  \E r \in Slice : /\ PartOf[running_process'[t]] \in {Sc[r], Be[r]}
                                /\ cpus'[PartOf[running_process'[t]]] = Cpus[r]
    <3> DEFINE o == PartOf[running_process'[t]]
    <3>1. DOMAIN cpus = Partition
      BY DEF IInv, TypeOK, PartTypeOK
    <3>2. CASE o = q
      BY <1>2, <3>1, <3>2
    <3>3. CASE o # q
      <4>1. t # s
        BY <1>2, <2>1, <3>3 DEF IInv, BudgetTimer, TypeOK, SliceTypeOK
      <4>2. running_process'[t] = running_process[t]
        BY <1>1, <4>1
      <4>3. PICK r \in Slice : o \in {Sc[r], Be[r]} /\ cpus[o] = Cpus[r]
        BY <2>1, <4>2 DEF Placed
      <4>4. cpus'[o] = cpus[o]
        <5>1. o \in Partition
          BY <2>1, AssignmentFacts DEF IInv, TypeOK, SliceTypeOK
        <5>2. QED
          BY <1>2, <3>1, <3>3, <5>1
      <4>5. QED
        BY <4>3, <4>4
    <3>4. QED
      BY <3>2, <3>3
  <2>2. QED
    BY <2>1 DEF Placed
<1>3. ASSUME UNCHANGED <<cpus, running_process>> PROVE Placed'
  BY <1>3 DEF Placed
<1>4. CASE SliceTimer(s) \/ \E p \in Proc : CompletedInSlice(p, s)
  <2>1. s \in timer
    BY <1>4 DEF SliceTimer, CompletedInSlice, Dispatch, IInv, Phases, BudgetTimer
  <2>2. cpus' = cpus /\ running_partition' = running_partition
    BY <1>4 DEF SliceTimer, CompletedInSlice, ScheduleNext
  <2>3. running_process[s] # NoProc /\ PartOf[running_process[s]] = running_partition[s]
    BY <2>1 DEF IInv, BudgetTimer
  <2>4. running_process'[s] # NoProc => PartOf[running_process'[s]] = running_partition[s]
    BY <2>2 DEF IInv, BudgetTimer
  <2>5. QED
    BY <1>1, <2>2, <2>3, <2>4 DEF Placed
<1>5. CASE StartSc(s)
  <2>1. CASE Sc[s] = NoPartition
    BY <1>3, <1>5, <2>1 DEF StartSc, partVars, sliceVars
  <2>2. CASE Sc[s] # NoPartition
    <3>1. Sc[s] \in Partition
      BY <2>2, AssignmentFacts
    <3>2. /\ cpus' = [cpus EXCEPT ![Sc[s]] = Cpus[s]]
          /\ running_partition' = [running_partition EXCEPT ![s] = Sc[s]]
      BY <1>5, <2>2 DEF StartSc, StartPartition, SetCpus
    <3>3. QED
      BY <1>2, <3>1, <3>2
  <2>3. QED
    BY <2>1, <2>2
<1>6. CASE StartBe(s)
  <2>1. CASE Be[s] = NoPartition
    BY <1>3, <1>6, <2>1 DEF StartBe, partVars, sliceVars
  <2>2. CASE Be[s] # NoPartition
    <3>1. Be[s] \in Partition
      BY <2>2, AssignmentFacts
    <3>2. /\ cpus' = [cpus EXCEPT ![Be[s]] = Cpus[s]]
          /\ running_partition' = [running_partition EXCEPT ![s] = Be[s]]
      BY <1>6, <2>2 DEF StartBe, StartPartition, SetCpus
    <3>3. QED
      BY <1>2, <3>1, <3>2
  <2>3. QED
    BY <2>1, <2>2
<1>7. QED
  BY <1>4, <1>5, <1>6 DEF Starts

\* Every step keeps it.
LEMMA PlacedStep == ASSUME IInv, Placed, [Next]_vars PROVE Placed'
<1>0. IInv'
  BY NextIInv
<1>1. ASSUME NEW s \in Slice, StopSlice(s) PROVE Placed'
  <2>1. cpus' = cpus /\ running_process' = [running_process EXCEPT ![s] = NoProc]
    BY <1>1 DEF StopSlice
  <2>2. \A t \in Slice : running_process'[t] \in {running_process[t], NoProc}
    BY <2>1 DEF IInv, TypeOK, SliceTypeOK
  <2>3. QED
    BY <2>1, <2>2 DEF Placed
<1>2. CASE Startup
  <2>1. timer = {} /\ running_process' = running_process
    BY <1>2 DEF Startup, Dispatch, IInv, StartOrder, sliceVars
  <2>2. QED
    BY <2>1 DEF Placed, IInv, BudgetTimer
<1>3. CASE OtherStep /\ ~Startup
  <2>1. cpus' = cpus /\ running_process' = running_process
    BY <1>3 DEF OtherStep, Poll, LoopReturns, ReceiveSignal, CompletedIgnored, CompletedInit,
       Client, ProcessEnded, ChildTerminatedButPopulated, CompletedCrash, ExitCheck, WindowTimer,
       RunTimer, Signal, StartDone, EnterNextWindow, KillProcesses, BreakLoop, Tick, vars,
       partVars, sliceVars
  <2>2. QED
    BY <2>1 DEF Placed
<1>4. QED
  BY <1>0, <1>1, <1>2, <1>3, StepKinds, PlacedStarts

\* A frequency that a process is started with has passed validate().
LEMMA StartedValid ==
    ASSUME Base, IInv', Placed', UNCHANGED request, power.name \in PerProcess,
           NEW s \in Slice, running_process'[s] # NoProc,
           request.proc[running_process'[s]] # 0,
           NEW c \in PolicyClusters(power.name),
           Touches(cpus'[PartOf[running_process'[s]]], c)
    PROVE  ValidFrequency(c, request.proc[running_process'[s]])
<1> DEFINE p == running_process'[s]
<1>1. p \in Proc
  BY DEF IInv, TypeOK, SliceTypeOK
<1>2. PICK t \in Slice : PartOf[p] \in {Sc[t], Be[t]} /\ cpus'[PartOf[p]] = Cpus[t]
  BY DEF Placed
<1>3. Validate(power.name)
  BY DEF Base, PowerOK
<1> HIDE DEF p
<1>4. request.proc[p] # 0 /\ Touches(Cpus[t], c)
  BY <1>2 DEF p
<1>5. ValidFrequency(c, request.proc[p])
  BY <1>1, <1>2, <1>3, <1>4 DEF Validate
<1>6. QED
  BY <1>5 DEF p

\* Every step writes only supported frequencies.
LEMMA WritesSupportedStep ==
    ASSUME FrequencyTables, Base, Placed, WritesSupported, [PowerNext]_<<vars, powerVars>>
    PROVE  WritesSupported'
<1>1. CASE UNCHANGED <<vars, powerVars>>
  BY <1>1 DEF powerVars, WritesSupported
<1>2. CASE PowerStep
  <2> DEFINE pe == ProcessEvents(power)
  <2>1. /\ pe \in PolicyObject /\ pe.name = power.name /\ pe.args = power.args
        /\ power' = WindowEvents(pe) /\ request' = request /\ Next
    BY <1>2, PowerStepFacts
  <2>2. IInv /\ PowerOK /\ IInv' /\ Placed'
    BY <2>1, NextIInv, PlacedStep DEF Base
  <2>3. ASSUME NEW c \in Cluster, pe.freq[c] # 0 PROVE ValidFrequency(c, pe.freq[c])
    <3>1. CASE pe.freq[c] = power.freq[c]
      BY <2>3, <3>1 DEF WritesSupported
    <3>2. CASE pe.freq[c] # power.freq[c]
      <4>1. power.name \in PerProcess
        BY <2>1, <2>2, <3>2, ProcessEventsFacts
      <4>2. \E s \in Slice :
              /\ running_process'[s] # NoProc /\ request.proc[running_process'[s]] # 0
              /\ c \in PolicyClusters(power.name)
              /\ Touches(cpus'[PartOf[running_process'[s]]], c)
              /\ pe.freq[c] = request.proc[running_process'[s]]
        <5>1. pe # power
          BY <3>2
        <5>2. PICK s \in Slice :
                LET old == running_process[s]
                    new == running_process'[s]
                    e == IF old = NoProc THEN power ELSE OnProcessEnd(power, old)
                IN  pe = IF new = NoProc THEN e
                         ELSE OnProcessStart(e, new, request.proc, cpus'[PartOf[new]])
          BY <2>1, <2>2, <5>1, ProcessEventsCases
        <5> DEFINE old == running_process[s]
                   new == running_process'[s]
                   e == IF old = NoProc THEN power ELSE OnProcessEnd(power, old)
        <5>3. e \in PolicyObject /\ e.name = power.name /\ e.freq = power.freq
          BY <2>2, EndFacts DEF PowerOK, SameButProcs
        <5>4. pe = IF new = NoProc THEN e
                   ELSE OnProcessStart(e, new, request.proc, cpus'[PartOf[new]])
          BY <5>2
        <5> HIDE DEF e, pe
        <5>5. new # NoProc /\ new \in Proc
          BY <2>2, <3>2, <5>3, <5>4 DEF IInv, TypeOK, SliceTypeOK
        <5>6. request.proc \in [Proc -> Nat]
          BY <2>2, RequestsAssumption DEF PowerOK
        <5> DEFINE on == cpus'[PartOf[new]]
        <5>7. pe = OnProcessStart(e, new, request.proc, on)
          BY <5>4, <5>5
        <5> HIDE DEF new, on
        <5>8. /\ request.proc[new] # 0 /\ c \in Affected(e, on)
              /\ pe.freq[c] = request.proc[new]
          BY <3>2, <5>3, <5>5, <5>6, <5>7, StartFacts
        <5>9. QED
          BY <5>3, <5>5, <5>8 DEF Affected, new, on
      <4>3. QED
        BY <2>1, <2>2, <4>1, <4>2, StartedValid
    <3>3. QED
      BY <3>1, <3>2
  <2> HIDE DEF pe
  <2>4. ASSUME NEW c \in Cluster, power'.freq[c] # 0 PROVE ValidFrequency(c, power'.freq[c])
    <3>1. \/ power'.freq[c] = pe.freq[c]
          \/ power'.freq[c] \in {MinFrequency[c], MaxFrequency[c]}
          \/ /\ power.name = "imx8_per_slice" /\ c \in {A53, A72}
             /\ \E s \in Slice : /\ request.slice[s] # 0 /\ Touches(Cpus[s], c)
                                 /\ power'.freq[c] = request.slice[s]
          \/ /\ power.name = "imx8_alternating" /\ c \in {A53, A72}
             /\ \E i \in 1 .. 2 : power'.freq[c] = AlternatingFreq(power.args, c)[i]
      BY <2>1, <2>2, WindowEventsFacts
    <3>2. CASE power'.freq[c] = pe.freq[c]
      BY <2>3, <2>4, <3>2
    <3>3. CASE power'.freq[c] \in {MinFrequency[c], MaxFrequency[c]}
      BY <3>3, TableFrequencies
    <3>4. CASE /\ power.name = "imx8_per_slice" /\ c \in {A53, A72}
               /\ \E s \in Slice : /\ request.slice[s] # 0 /\ Touches(Cpus[s], c)
                                   /\ power'.freq[c] = request.slice[s]
      <4>1. c \in PolicyClusters(power.name) /\ Validate(power.name)
        BY <2>2, <3>4 DEF PolicyClusters, Imx8, PowerOK
      <4>2. QED
        BY <3>4, <4>1 DEF Validate
    <3>5. CASE /\ power.name = "imx8_alternating" /\ c \in {A53, A72}
               /\ \E i \in 1 .. 2 : power'.freq[c] = AlternatingFreq(power.args, c)[i]
      <4>1. power.args \in Seq(Nat) /\ Accepted("imx8_alternating", power.args)
        BY <2>2, <3>5 DEF PowerOK, PolicyObject
      <4>2. power'.freq[c] \in ToSet(AvailableFrequencies[c])
        BY <3>5, <4>1, AlternatingFacts
      <4>3. QED
        BY <4>2, TableFrequencies
    <3>6. QED
      BY <3>1, <3>2, <3>3, <3>4, <3>5
  <2>5. QED
    BY <2>4 DEF WritesSupported
<1>3. QED
  BY <1>1, <1>2 DEF PowerNext, Thrown

\* No frequency is written that the cluster does not support: what the
\* constructors and validate() checked before the scheduler ran covers all that
\* the handlers write later, however partitions move between slices.
THEOREM WritesSupportedHolds == ASSUME FrequencyTables PROVE PowerSpec => []WritesSupported
<1>1. PowerInit => Base /\ Placed /\ WritesSupported
  <2> SUFFICES ASSUME PowerInit PROVE Base /\ Placed /\ WritesSupported
    OBVIOUS
  <2>1. Placed
    BY DEF PowerInit, Init, Placed
  <2>2. PICK o \in Policies : Accepted(o.name, o.args) /\ power = NewPolicy(o.name, o.args)
    BY DEF PowerInit
  <2>3. Created(o.name, o.args, power)
    BY <2>2, NewPolicyFacts, RequestsAssumption
  <2>4. WritesSupported
    BY <2>3, TableFrequencies DEF WritesSupported, Created
  <2>5. QED
    BY <2>1, <2>4, BaseInit
<1>2. Base /\ Placed /\ WritesSupported /\ [PowerNext]_<<vars, powerVars>>
        => (Base /\ Placed /\ WritesSupported)'
  <2>1. Base /\ Placed /\ [PowerNext]_<<vars, powerVars>> => Placed'
    BY PlacedStep, PowerStepIsNext DEF Base
  <2>2. QED
    BY <2>1, BaseStep, WritesSupportedStep
<1>3. QED
  BY <1>1, <1>2, PTL DEF PowerSpec

-------------------------------------------------------------------------------
(* The requests of the running processes *)

\* A list that is extended by a new entry.
LEMMA AppendFacts ==
    ASSUME NEW S, NEW list \in Seq(S), NEW p \in S
    PROVE  /\ ToSet(Append(list, p)) = ToSet(list) \cup {p}
           /\ IsInjective(list) /\ p \notin ToSet(list) => IsInjective(Append(list, p))
           /\ list # <<>> => Head(list) \in ToSet(list)
           /\ list = <<>> => ToSet(list) = {}
<1> DEFINE n == Len(list)
           new == Append(list, p)
<1>1. /\ n \in Nat /\ DOMAIN list = 1 .. n /\ DOMAIN new = 1 .. n + 1
      /\ new[n + 1] = p /\ \A i \in 1 .. n : new[i] = list[i]
  OBVIOUS
<1>2. \A i : i \in 1 .. n + 1 <=> i = n + 1 \/ i \in 1 .. n
  BY <1>1
<1>3. list # <<>> => Head(list) \in ToSet(list)
  <2>1. list # <<>> => 1 \in 1 .. n /\ Head(list) = list[1]
    OBVIOUS
  <2>2. QED
    BY <1>1, <2>1 DEF ToSet
<1>4. list = <<>> => ToSet(list) = {}
  BY DEF ToSet
<1> HIDE DEF new, n
<1>5. ToSet(new) = ToSet(list) \cup {p}
  <2>1. ASSUME NEW x \in ToSet(new) PROVE x \in ToSet(list) \cup {p}
    BY <1>1, <1>2 DEF ToSet
  <2>2. ASSUME NEW x \in ToSet(list) PROVE x \in ToSet(new)
    BY <1>1, <1>2 DEF ToSet
  <2>3. p \in ToSet(new)
    <3>1. n + 1 \in 1 .. n + 1
      BY <1>2
    <3>2. QED
      BY <1>1, <3>1 DEF ToSet
  <2>4. QED
    BY <2>1, <2>2, <2>3
<1>6. ASSUME IsInjective(list), p \notin ToSet(list) PROVE IsInjective(new)
  <2>1. \A i \in 1 .. n : new[i] # p
    BY <1>1, <1>6 DEF ToSet
  <2>2. \A i, j \in 1 .. n : new[i] = new[j] => i = j
    BY <1>1, <1>6 DEF IsInjective
  <2>3. \A i, j \in 1 .. n + 1 : new[i] = new[j] => i = j
    BY <1>1, <1>2, <2>1, <2>2
  <2>4. QED
    BY <1>1, <2>3 DEF IsInjective
<1>7. QED
  BY <1>3, <1>4, <1>5, <1>6 DEF new

\* No process is run by two slices at once.
RunningApart ==
    \A s, t \in Slice :
        s # t /\ running_process[s] # NoProc => running_process[t] # running_process[s]

\* While the slices of a window are started or run, their partitions keep their
\* processes apart; while a window is stopped nothing is started.
LEMMA RunningApartStep ==
    ASSUME PartitionsApart, IInv, RunningApart, [Next]_vars PROVE RunningApart'
<1>1. IInv'
  BY NextIInv
<1>2. CASE op' # "stop"
  <2> SUFFICES ASSUME NEW s \in Slice, NEW t \in Slice, s # t, running_process'[s] # NoProc,
                      running_process'[t] = running_process'[s]
               PROVE  FALSE
    BY DEF RunningApart
  <2>1. /\ s \in timer' /\ t \in timer' /\ current_win' \in DOMAIN Windows
        /\ s \in Windows[current_win'] /\ t \in Windows[current_win']
        /\ running_partition'[s] = PartOf[running_process'[s]]
        /\ running_partition'[t] = running_partition'[s]
    BY <1>1 DEF IInv, BudgetTimer, TypeOK, WindowTypeOK
  <2>2. running_partition'[s] # NoPartition
    BY <1>1, <2>1, AssignmentFacts DEF IInv, TypeOK, SliceTypeOK
  <2>3. \/ running_partition'[s] = Sc[s] /\ running_partition'[t] = Sc[t]
        \/ running_partition'[s] = Be[s] /\ running_partition'[t] = Be[t]
    <3>1. op' \in {"idle", "exit", "startSc", "startBe"}
      BY <1>1, <1>2 DEF IInv, TypeOK, WindowTypeOK
    <3>2. QED
      BY <1>1, <2>1, <3>1 DEF IInv, Phases, Between, ScPhase, BePhase
  <2>4. QED
    BY <2>1, <2>2, <2>3 DEF PartitionsApart
<1>3. CASE op' = "stop"
  BY <1>3, SliceChange DEF RunningApart
<1>4. QED
  BY <1>2, <1>3

\* The requesters of cluster c if the slices run the processes rp.
RequestersOf(rp, req, c) ==
    {rp[s] : s \in {t \in Slice : rp[t] # NoProc /\ req[rp[t]] # 0 /\ Touches(Cpus[t], c)}}

\* A running process has the CPUs of its slice.
LEMMA RequestersByCpu ==
    ASSUME CpuPlacement, NEW c
    PROVE  Requesters(c) = RequestersOf(running_process, request.proc, c)
BY DEF CpuPlacement, Requesters, Running, RequestersOf

\* The same, after a step.
LEMMA RequestersByCpuNext ==
    ASSUME CpuPlacement', NEW c
    PROVE  Requesters(c)' = RequestersOf(running_process', request'.proc, c)
BY DEF CpuPlacement, Requesters, Running, RequestersOf, Touches

\* When one slice changes its process, the requesters lose the old and gain the
\* new one, which is none of the others.
LEMMA RequestersChange ==
    ASSUME NEW rp, NEW np, NEW req, NEW c, NEW s \in Slice,
           \A t \in Slice \ {s} : np[t] = rp[t],
           \A t \in Slice \ {s} : rp[t] # NoProc => rp[t] # rp[s],
           \A t \in Slice \ {s} : np[t] # NoProc => np[t] # np[s]
    PROVE  LET rest == RequestersOf(rp, req, c) \ {rp[s]}
               asks == np[s] # NoProc /\ req[np[s]] # 0 /\ Touches(Cpus[s], c)
           IN  /\ RequestersOf(np, req, c) = IF asks THEN rest \cup {np[s]} ELSE rest
               /\ asks => np[s] \notin rest
<1> DEFINE on(f, t) == f[t] # NoProc /\ req[f[t]] # 0 /\ Touches(Cpus[t], c)
           rest == RequestersOf(rp, req, c) \ {rp[s]}
<1>1. rest = {rp[t] : t \in {r \in Slice \ {s} : on(rp, r)}}
  BY DEF RequestersOf
<1>2. rest = {np[t] : t \in {r \in Slice \ {s} : on(np, r)}}
  BY <1>1
<1>3. \A x : x \in RequestersOf(np, req, c) <=> \E t \in Slice : x = np[t] /\ on(np, t)
  BY DEF RequestersOf
<1>4. \A x : x \in rest <=> \E t \in Slice \ {s} : x = np[t] /\ on(np, t)
  BY <1>2
<1> HIDE DEF rest
<1>5. RequestersOf(np, req, c) = IF on(np, s) THEN rest \cup {np[s]} ELSE rest
  BY <1>3, <1>4
<1>6. on(np, s) => np[s] \notin rest
  BY <1>4
<1>7. QED
  BY <1>5, <1>6 DEF rest

\* The policy keeps the requesters R of cluster c and has granted their request.
Kept(pw, req, c, R) ==
    /\ ToSet(pw.requesting_procs[c]) = R
    /\ IsInjective(pw.requesting_procs[c])
    /\ \A p \in R : Active(c) => pw.freq[c] = req[p]

\* The requesters R of cluster c become R2 when new is run instead of old.
Replaced(R, R2, old, new, req, on, c) ==
    LET asks == new # NoProc /\ req[new] # 0 /\ Touches(on, c)
    IN  /\ R2 = IF asks THEN (R \ {old}) \cup {new} ELSE R \ {old}
        /\ asks => new \notin R \ {old}

\* on_process_end and on_process_start follow this.
LEMMA ListChange ==
    ASSUME NEW pw \in PolicyObject, NEW req \in [Proc -> Nat], NEW on,
           NEW c \in PolicyClusters(pw.name), pw.name \in PerProcess,
           NEW old \in Proc \cup {NoProc}, NEW new \in Proc \cup {NoProc}, NEW e, NEW w,
           e = IF old = NoProc THEN pw ELSE OnProcessEnd(pw, old),
           w = IF new = NoProc THEN e ELSE OnProcessStart(e, new, req, on), ~w.threw,
           NEW R \in SUBSET Proc, NEW R2,
           Kept(pw, req, c, R), Replaced(R, R2, old, new, req, on, c)
    PROVE  Kept(w, req, c, R2)
<1> USE DEF Kept, Replaced
<1> DEFINE asks == new # NoProc /\ req[new] # 0 /\ Touches(on, c)
           E == e.requesting_procs[c]
<1>0. c \in Cluster /\ NoProc \notin Proc /\ pw.requesting_procs[c] \in Seq(Proc)
  BY ClustersOf, SchedulerAssumption DEF PolicyObject
<1>1. /\ e \in PolicyObject /\ e.name = pw.name /\ e.freq = pw.freq
      /\ ToSet(E) = R \ {old} /\ IsInjective(E) /\ E \in Seq(Proc)
  <2>1. CASE old = NoProc
    BY <1>0, <2>1
  <2>2. CASE old # NoProc
    <3>1. e = OnProcessEnd(pw, old)
      BY <2>2
    <3>2. e \in PolicyObject /\ SameButProcs(pw, e) /\ E = Without(pw.requesting_procs[c], old)
      BY <1>0, <3>1, EndFacts
    <3>3. /\ Without(pw.requesting_procs[c], old) \in Seq(Proc)
          /\ ToSet(Without(pw.requesting_procs[c], old)) = ToSet(pw.requesting_procs[c]) \ {old}
          /\ IsInjective(Without(pw.requesting_procs[c], old))
      BY <1>0, WithoutFacts
    <3>4. QED
      BY <3>2, <3>3 DEF SameButProcs
  <2>3. QED
    BY <2>1, <2>2
<1> HIDE DEF E
<1>2. CASE new = NoProc \/ req[new] = 0
  <2>1. w = e
    BY <1>1, <1>2, StartFacts
  <2>2. R2 = R \ {old}
    BY <1>2
  <2>3. QED
    BY <1>1, <2>1, <2>2 DEF E
<1>3. CASE new # NoProc /\ req[new] # 0
  <2>1. w = OnProcessStart(e, new, req, on) /\ new \in Proc
    BY <1>3
  <2>2. /\ \A k \in Affected(e, on) : \/ e.requesting_procs[k] = <<>>
                                      \/ req[Head(e.requesting_procs[k])] = req[new]
        /\ \A k \in Cluster :
              /\ w.requesting_procs[k] =
                    IF k \in Affected(e, on) THEN Append(e.requesting_procs[k], new)
                    ELSE e.requesting_procs[k]
              /\ w.freq[k] = IF k \in Affected(e, on) /\ Active(k) THEN req[new] ELSE e.freq[k]
    BY <1>1, <1>3, <2>1, StartFacts
  <2>3. c \in Affected(e, on) <=> Touches(on, c)
    BY <1>1 DEF Affected
  <2>4. CASE ~Touches(on, c)
    BY <1>0, <1>1, <2>2, <2>3, <2>4 DEF E
  <2>5. CASE Touches(on, c)
    <3>1. R2 = (R \ {old}) \cup {new} /\ new \notin R \ {old}
      BY <1>3, <2>5
    <3>2. /\ w.requesting_procs[c] = Append(E, new)
          /\ w.freq[c] = IF Active(c) THEN req[new] ELSE e.freq[c]
          /\ E = <<>> \/ req[Head(E)] = req[new]
      BY <1>0, <2>2, <2>3, <2>5 DEF E
    <3>3. /\ ToSet(Append(E, new)) = ToSet(E) \cup {new} /\ IsInjective(Append(E, new))
          /\ E # <<>> => Head(E) \in ToSet(E)
          /\ E = <<>> => ToSet(E) = {}
      BY <1>1, <2>1, <3>1, AppendFacts
    <3>4. ASSUME NEW p \in R2, Active(c) PROVE w.freq[c] = req[p]
      <4>1. CASE p = new
        BY <3>2, <3>4, <4>1
      <4>2. CASE p # new
        <5>1. p \in ToSet(E) /\ p \in R /\ E # <<>>
          BY <1>1, <3>1, <3>3, <4>2
        <5>2. Head(E) \in R /\ req[Head(E)] = req[new]
          BY <1>1, <3>2, <3>3, <5>1
        <5>3. pw.freq[c] = req[p] /\ pw.freq[c] = req[Head(E)]
          BY <3>4, <5>1, <5>2
        <5>4. QED
          BY <3>2, <3>4, <5>2, <5>3
      <4>3. QED
        BY <4>1, <4>2
    <3>5. QED
      BY <1>1, <3>1, <3>2, <3>3, <3>4
  <2>6. QED
    BY <2>4, <2>5
<1>4. QED
  BY <1>2, <1>3

\* Every step keeps the lists and the frequencies.
LEMMA RequestsStep ==
    ASSUME PartitionsApart, Base, CpuPlacement, RunningApart, RequestersRunning, FrequencyGranted,
           [PowerNext]_<<vars, powerVars>>
    PROVE  RequestersRunning' /\ FrequencyGranted'
<1>0. CpuPlacement' /\ RunningApart' /\ IInv /\ IInv' /\ PowerOK
  BY PowerStepIsNext, CpuPlacementStep, RunningApartStep, NextIInv DEF Base
<1>1. CASE UNCHANGED <<vars, powerVars>>
  <2>1. UNCHANGED <<power, request, running_process, cpus>>
    BY <1>1 DEF vars, powerVars, sliceVars, partVars
  <2>2. QED
    BY <2>1 DEF RequestersRunning, FrequencyGranted, Requesters, Running
<1>2. CASE PowerStep
  <2> DEFINE pe == ProcessEvents(power)
             req == request.proc
             name == power.name
             R(c) == RequestersOf(running_process, req, c)
             R2(c) == RequestersOf(running_process', req, c)
  <2>1. /\ pe \in PolicyObject /\ pe.name = power.name /\ pe.args = power.args
        /\ power' = WindowEvents(pe) /\ power'.name = power.name /\ request' = request /\ Next
        /\ ~power.threw
    BY <1>2, PowerStepFacts DEF PowerStep
  <2> SUFFICES ASSUME name \in PerProcess, ~power'.threw,
                      NEW c \in PolicyClusters(name)
               PROVE  /\ ToSet(power'.requesting_procs[c]) = Requesters(c)'
                      /\ IsInjective(power'.requesting_procs[c])
                      /\ \A p \in Requesters(c)' : Active(c) => power'.freq[c] = request'.proc[p]
    BY <2>1 DEF RequestersRunning, FrequencyGranted
  <2>2. power' = pe
    BY <1>0, <2>1, WindowEventsFacts
  <2>3. Requesters(c) = R(c) /\ Requesters(c)' = R2(c)
    BY <1>0, <2>1, RequestersByCpu, RequestersByCpuNext
  <2>4. /\ ToSet(power.requesting_procs[c]) = R(c) /\ IsInjective(power.requesting_procs[c])
        /\ \A p \in R(c) : Active(c) => power.freq[c] = req[p]
    BY <2>1, <2>3 DEF RequestersRunning, FrequencyGranted
  <2>5. CASE running_process' = running_process /\ pe = power
    BY <2>1, <2>2, <2>3, <2>4, <2>5
  <2>6. CASE ~(running_process' = running_process /\ pe = power)
    <3>1. PICK s \in Slice :
            LET old == running_process[s]
                new == running_process'[s]
                e == IF old = NoProc THEN power ELSE OnProcessEnd(power, old)
            IN  /\ \A t \in Slice \ {s} : running_process'[t] = running_process[t]
                /\ pe = IF new = NoProc THEN e
                        ELSE OnProcessStart(e, new, req, cpus'[PartOf[new]])
      BY <1>0, <2>1, <2>6, ProcessEventsCases
    <3> DEFINE old == running_process[s]
               new == running_process'[s]
               e == IF old = NoProc THEN power ELSE OnProcessEnd(power, old)
    <3>2. /\ old \in Proc \cup {NoProc} /\ new \in Proc \cup {NoProc}
          /\ power \in PolicyObject /\ req \in [Proc -> Nat]
      BY <1>0, RequestsAssumption DEF IInv, TypeOK, SliceTypeOK, PowerOK
    <3>3. pe = IF new = NoProc THEN e ELSE OnProcessStart(e, new, req, Cpus[s])
      <4>1. new # NoProc => cpus'[PartOf[new]] = Cpus[s]
        BY <1>0 DEF CpuPlacement
      <4>2. QED
        BY <3>1, <4>1
    <3>4. /\ \A t \in Slice \ {s} : running_process'[t] = running_process[t]
          /\ \A t \in Slice \ {s} : running_process[t] # NoProc => running_process[t] # old
          /\ \A t \in Slice \ {s} : running_process'[t] # NoProc => running_process'[t] # new
      BY <1>0, <3>1 DEF RunningApart
    <3> DEFINE asks == new # NoProc /\ req[new] # 0 /\ Touches(Cpus[s], c)
    <3>5. /\ R2(c) = IF asks THEN (R(c) \ {old}) \cup {new} ELSE R(c) \ {old}
          /\ asks => new \notin R(c) \ {old}
      BY <3>4, RequestersChange
    <3>6. R(c) \in SUBSET Proc
      BY <1>0 DEF RequestersOf, IInv, TypeOK, SliceTypeOK
    <3> HIDE DEF pe, req, R, R2, old, new, asks
    <3>7. /\ e = IF old = NoProc THEN power ELSE OnProcessEnd(power, old)
          /\ ~pe.threw /\ power.name \in PerProcess /\ c \in PolicyClusters(power.name)
      BY <2>2
    <3> HIDE DEF e
    <3>8. Kept(power, req, c, R(c)) /\ Replaced(R(c), R2(c), old, new, req, Cpus[s], c)
      BY <2>4, <3>5 DEF Kept, Replaced, asks
    <3>9. Kept(pe, req, c, R2(c))
      BY <3>2, <3>3, <3>6, <3>7, <3>8, ListChange
    <3>10. QED
      BY <2>1, <2>2, <2>3, <3>9 DEF req, Kept
  <2>7. QED
    BY <2>5, <2>6
<1>3. QED
  BY <1>1, <1>2 DEF PowerNext, Thrown

\* The requests of the running processes are kept and granted, if no two slices
\* of a window share an SC or a BE partition.
LEMMA RequestsInvariant ==
    ASSUME PartitionsApart PROVE PowerSpec => [](RequestersRunning /\ FrequencyGranted)
<1> DEFINE PInv == Base /\ CpuPlacement /\ RunningApart /\ RequestersRunning /\ FrequencyGranted
<1>1. PowerInit => PInv
  <2> SUFFICES ASSUME PowerInit PROVE PInv
    OBVIOUS
  <2>1. \A s \in Slice : running_process[s] = NoProc
    BY DEF PowerInit, Init
  <2>2. CpuPlacement /\ RunningApart /\ \A c : Requesters(c) = {}
    BY <2>1 DEF CpuPlacement, RunningApart, Requesters, Running
  <2>3. PICK o \in Policies : Accepted(o.name, o.args) /\ power = NewPolicy(o.name, o.args)
    BY DEF PowerInit
  <2>4. Created(o.name, o.args, power)
    BY <2>3, NewPolicyFacts, RequestsAssumption
  <2>5. \A c \in PolicyClusters(power.name) : power.requesting_procs[c] = <<>>
    BY <2>4, ClustersOf DEF Created
  <2>6. ToSet(<<>>) = {} /\ IsInjective(<<>>)
    BY DEF ToSet, IsInjective
  <2>7. RequestersRunning /\ FrequencyGranted
    BY <2>2, <2>5, <2>6 DEF RequestersRunning, FrequencyGranted
  <2>8. QED
    BY <2>2, <2>7, BaseInit
<1>2. PInv /\ [PowerNext]_<<vars, powerVars>> => PInv'
  <2>1. Base /\ CpuPlacement /\ RunningApart /\ [PowerNext]_<<vars, powerVars>>
          => CpuPlacement' /\ RunningApart'
    BY PowerStepIsNext, CpuPlacementStep, RunningApartStep DEF Base
  <2>2. QED
    BY <2>1, BaseStep, RequestsStep
<1>3. QED
  BY <1>1, <1>2, PTL DEF PowerSpec

\* The policy keeps exactly the running requesters of each cluster, each once,
\* although on_process_end is not told where the process ran.
THEOREM RequestersRunningHolds ==
    ASSUME PartitionsApart PROVE PowerSpec => []RequestersRunning
BY RequestsInvariant, PTL

\* A process that requests a frequency has it on every active cluster that it
\* runs on for as long as it runs: a conflicting request ends the program first.
THEOREM FrequencyGrantedHolds ==
    ASSUME PartitionsApart PROVE PowerSpec => []FrequencyGranted
BY RequestsInvariant, PTL
===============================================================================
