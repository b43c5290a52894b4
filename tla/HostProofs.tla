------------------------------- MODULE HostProofs -------------------------------
(***************************************************************************)
(* What an instance leaves on the host, for every configuration, however   *)
(* it ends and whatever earlier instances left behind.                     *)
(***************************************************************************)
EXTENDS Host, SequenceTheorems, TLAPS

-------------------------------------------------------------------------------
(* The inductive invariant *)

\* Objects exist only while main() runs.
Objects ==
    /\ pc \in {"setup", "unwind", "exited", "crashed", "killed", "cleaned"}
    /\ powered \in BOOLEAN
    /\ pc \notin {"setup", "unwind"} => owned = {} /\ original_intel_pstate_status = "none"

\* A cgroup has a parent.
Tree(D) == \A d \in Dir : Children(d) \cap D # {} => d \in D

Trees ==
    /\ before.dirs \subseteq Dir
    /\ Tree(dirs)
    /\ Tree(before.dirs)

\* What the steps of main() before the present one have made.
MkrootAt == [unified |-> 2, freezer |-> 4, cpuset |-> 6]
Made ==
    pc = "setup" =>
        /\ \A i \in 1 .. pos - 1 : Plan[i][1] = "mkdir" => Plan[i][2] \in dirs \cap owned
        /\ \A h \in {"unified", "freezer", "cpuset"} :
              MkrootAt[h] < pos => <<h, "root">> \in dirs \/ (commands /\ pos =< 8)

\* The root cgroups that were there are kept and nobody owns them.
Kept == UserDirsKept /\ owned \cap Roots \cap before.dirs = {}

\* A new cgroup is removed by its owner unless a task is in it or below.
LeftBusy(d) == Below(d) \cap busy # {}
Owned ==
    /\ pc = "setup" => dirs \ before.dirs \subseteq owned
    /\ pc = "unwind" => \A d \in dirs \ before.dirs : d \in owned \/ LeftBusy(d)
    /\ pc = "killed" => \A j \in 1 .. 5 : j < pos => \A d \in dirs \cap ScriptOrder[j] : LeftBusy(d)
    /\ LeftoverWasBusy

\* A process is moved into the unified cgroup first.
Placed ==
    /\ \A t \in DOMAIN tasks : \A d \in tasks[t] :
          d \in Roots \/ \E p \in Proc : <<"unified", p>> \in tasks[t]
    /\ pc = "setup" /\ Plan[pos][1] = "add" /\ Plan[pos][3] # <<"unified", Plan[pos][2]>> =>
          LET t == <<Plan[pos][2], instance>>
          IN  t \in DOMAIN tasks => <<"unified", Plan[pos][2]>> \in tasks[t]

\* Once run() has returned nobody is in a cgroup below the roots.
Ended ==
    /\ pc = "unwind" /\ status = 0 =>
          /\ \A t \in DOMAIN tasks : tasks[t] \subseteq Roots
          /\ dirs \cap (Parts \cup Leaves) \subseteq owned
          /\ dirs \cap Roots \subseteq before.dirs \cup owned \cup busy
    /\ CleanExit

\* Unless intel_pstate was active the mode stays, and each cpufreq policy is as
\* it was found or has a CpufreqPolicy that knows how it was found.
AsFound(c) ==
    IF c \in DOMAIN original
    THEN /\ original[c] = [gov |-> before.gov[c], max |-> before.max[c]]
         /\ c \notin ActiveClusters \/ before.gov[c] = "userspace" => gov[c] = before.gov[c]
    ELSE c \notin abandoned => gov[c] = before.gov[c] /\ max_freq[c] = before.max[c]

Frequencies ==
    /\ \A c \in Cluster : gov[c] \in Supported(c, pstate)
    /\ DOMAIN max_freq = Cluster
    /\ pc = "setup" => abandoned = {}
    /\ pc \in {"setup", "unwind", "exited"} /\ before.pstate # "active" =>
          /\ pstate = before.pstate
          /\ original_intel_pstate_status # "active"
          /\ \A c \in Cluster : before.gov[c] \in Supported(c, before.pstate) /\ AsFound(c)

\* An active intel_pstate is switched back by the PowerManager.
Switched ==
    before.pstate = "active" =>
        /\ pc = "setup" /\ pos =< 9 => pstate = "active"
        /\ <<"manager">> \in owned \/ (pc = "setup" /\ powered /\ pos \in {10, 11}) =>
              original_intel_pstate_status = "active"
        /\ pc \in {"setup", "unwind", "exited"} =>
              \/ pstate = "active"
              \/ <<"manager">> \in owned
              \/ pc = "setup" /\ powered /\ pos \in {10, 11}
              \/ pc # "setup" /\ powered /\ pos = 10

\* Whatever mode intel_pstate was in, each scaling_max_freq is as it was found or
\* a CpufreqPolicy knows how it was found.
MaxAsFound(c) ==
    IF c \in DOMAIN original THEN original[c].max = before.max[c]
    ELSE c \notin abandoned => max_freq[c] = before.max[c]

Capped == pc \in {"setup", "unwind", "exited"} => \A c \in Cluster : MaxAsFound(c)

\* A task that cleanup_crash.sh would not find.
Exposed(t) == t \notin signalled /\ \A d \in tasks[t] : d[1] # "freezer"

\* The step i of main() moves the new process p into its cgroups.
Moves(i, p) ==
    Plan[i] \in {<<"add", p, <<"unified", p>>>>, <<"add", p, <<"freezer", p>>>>}

\* The instance exposes one task at a time: the dummy child, then each process
\* from its fork() until it is in its freezer cgroup.
Current(t) ==
    \/ t = Helper /\ pos \in 2 .. 8
    \/ t[1] \in Proc /\ t = <<t[1], instance>> /\ Moves(pos, t[1])

Reached ==
    /\ instance \in Nat
    /\ \A t \in DOMAIN tasks : t[2] \in Nat /\ t[2] =< instance
    /\ \A t \in DOMAIN tasks : Exposed(t) =>
          /\ tasks[t] \cap Parts = {}
          /\ \A u \in DOMAIN tasks : Exposed(u) /\ t[2] = u[2] => t = u
          /\ pc = "setup" /\ t[2] = instance => Current(t)
    /\ pc \in {"killed", "cleaned"} => \A t \in DOMAIN tasks \ signalled : Exposed(t)

HInv == /\ TypeOK /\ Objects /\ Trees /\ Made /\ Kept /\ Owned /\ Placed /\ Ended
        /\ Frequencies /\ Switched /\ Capped /\ Reached
-------------------------------------------------------------------------------
(* The plan of construction *)

\* The elements of a concatenation.
LEMMA Concat ==
    ASSUME NEW S, NEW T, NEW s \in Seq(S), NEW t \in Seq(T)
    PROVE  /\ s \o t \in Seq(S \cup T)
           /\ Len(s \o t) = Len(s) + Len(t)
           /\ Len(s) \in Nat /\ Len(t) \in Nat
           /\ \A i \in 1 .. Len(s) : (s \o t)[i] = s[i]
           /\ \A i \in 1 .. Len(t) : (s \o t)[Len(s) + i] = t[i]
<1> DEFINE U == S \cup T
<1>1. s \in Seq(U) /\ t \in Seq(U)
  OBVIOUS
<1>2. Len(s) \in Nat /\ Len(t) \in Nat
  BY LenProperties
<1>3. /\ s \o t \in Seq(U)
      /\ Len(s \o t) = Len(s) + Len(t)
      /\ \A i \in 1 .. Len(s) + Len(t) :
            (s \o t)[i] = IF i <= Len(s) THEN s[i] ELSE t[i - Len(s)]
  BY <1>1, ConcatProperties
<1>4. ASSUME NEW i \in 1 .. Len(s) PROVE (s \o t)[i] = s[i]
  BY <1>2, <1>3
<1>5. ASSUME NEW i \in 1 .. Len(t) PROVE (s \o t)[Len(s) + i] = t[i]
  <2>1. Len(s) + i \in 1 .. Len(s) + Len(t) /\ ~(Len(s) + i <= Len(s)) /\ (Len(s) + i) - Len(s) = i
    BY <1>2
  <2> QED
    BY <2>1, <1>3
<1> QED
  BY <1>2, <1>3, <1>4, <1>5

\* The position of the last step before the cgroups of the partition.
Base == IF powered THEN 11 ELSE 8

\* The list of processes has a length.
LEMMA ProcessesLen ==
    Len(Processes) \in Nat /\ \A i \in 1 .. Len(Processes) : Processes[i] \in Proc
BY HostAssumption, LenProperties

Mkdirs ==
    [i \in 1 .. 2 * Len(Processes) |->
        <<"mkdir", <<IF i % 2 = 1 THEN "unified" ELSE "freezer",
                     Processes[(i + 1) \div 2]>>>>]

\* What TreePlan holds where.
LEMMA TreePlanAt ==
    /\ \E S : TreePlan \in Seq(S)
    /\ Len(TreePlan) = 2 * Len(Processes) + 4
    /\ TreePlan[1] = <<"mkdir", <<"cpuset", "part">>>>
    /\ TreePlan[2] = <<"mkdir", <<"freezer", "part">>>>
    /\ TreePlan[3] = <<"mkdir", <<"unified", "part">>>>
    /\ \A i \in 1 .. 2 * Len(Processes) : TreePlan[3 + i] = Mkdirs[i]
    /\ TreePlan[2 * Len(Processes) + 4] = <<"validate">>
<1> DEFINE n == Len(Processes)
           A == <<<<"mkdir", <<"cpuset", "part">>>>, <<"mkdir", <<"freezer", "part">>>>,
                  <<"mkdir", <<"unified", "part">>>>>>
           C == <<<<"validate">>>>
           SA == {<<"mkdir", <<"cpuset", "part">>>>, <<"mkdir", <<"freezer", "part">>>>,
                  <<"mkdir", <<"unified", "part">>>>}
           SC == {<<"validate">>}
<1>1. n \in Nat
  BY ProcessesLen
<1>2. /\ A \in Seq(SA) /\ Len(A) = 3
      /\ A[1] = <<"mkdir", <<"cpuset", "part">>>>
      /\ A[2] = <<"mkdir", <<"freezer", "part">>>>
      /\ A[3] = <<"mkdir", <<"unified", "part">>>>
  OBVIOUS
<1>3. C \in Seq(SC) /\ Len(C) = 1 /\ C[1] = <<"validate">>
  OBVIOUS
<1>4. PICK SB : Mkdirs \in Seq(SB) /\ Len(Mkdirs) = 2 * n
  <2> DEFINE SB == {Mkdirs[i] : i \in 1 .. 2 * n}
  <2>0. PICK k \in Nat : k = 2 * n
    BY <1>1
  <2>1. DOMAIN Mkdirs = 1 .. k /\ Mkdirs \in [1 .. k -> SB]
    BY <2>0 DEF Mkdirs
  <2> HIDE DEF SB
  <2>2. Mkdirs \in Seq(SB) /\ Len(Mkdirs) = k
    BY <2>1
  <2> QED
    BY <2>0, <2>2
<1>5. TreePlan = (A \o Mkdirs) \o C
  BY DEF TreePlan, Mkdirs
<1> HIDE DEF A, C, SA, SC, n
<1>8. PICK k \in Nat : k = 2 * n
  BY <1>1
<1>6. /\ A \o Mkdirs \in Seq(SA \cup SB)
      /\ Len(A \o Mkdirs) = 3 + k
      /\ \A i \in 1 .. 3 : (A \o Mkdirs)[i] = A[i]
      /\ \A i \in 1 .. k : (A \o Mkdirs)[3 + i] = Mkdirs[i]
  <2>1. /\ A \o Mkdirs \in Seq(SA \cup SB)
        /\ Len(A \o Mkdirs) = Len(A) + Len(Mkdirs)
        /\ \A i \in 1 .. Len(A) : (A \o Mkdirs)[i] = A[i]
        /\ \A i \in 1 .. Len(Mkdirs) : (A \o Mkdirs)[Len(A) + i] = Mkdirs[i]
    <3>1. A \in Seq(SA) /\ Mkdirs \in Seq(SB)
      BY <1>2, <1>4
    <3> QED
      BY ONLY <3>1, Concat
  <2> QED
    BY <2>1, <1>2, <1>4, <1>8
<1> DEFINE B == A \o Mkdirs
           SAB == SA \cup SB
<1>7. /\ TreePlan \in Seq(SAB \cup SC)
      /\ Len(TreePlan) = (3 + k) + 1
      /\ \A i \in 1 .. 3 + k : TreePlan[i] = B[i]
      /\ TreePlan[(3 + k) + 1] = C[1]
  <2>1. B \in Seq(SAB) /\ C \in Seq(SC)
    BY <1>3, <1>6
  <2>3. Len(B) = 3 + k /\ TreePlan = B \o C
    BY <1>5, <1>6
  <2> HIDE DEF B, SAB
  <2>2. /\ B \o C \in Seq(SAB \cup SC)
        /\ Len(B \o C) = Len(B) + Len(C)
        /\ \A i \in 1 .. Len(B) : (B \o C)[i] = B[i]
        /\ \A i \in 1 .. Len(C) : (B \o C)[Len(B) + i] = C[i]
    BY ONLY <2>1, Concat
  <2> QED
    BY <2>2, <2>3, <1>3
<1>9. TreePlan[2 * n + 4] = <<"validate">> /\ Len(TreePlan) = 2 * n + 4
  <2>2. (3 + k) + 1 = k + 4
    OBVIOUS
  <2> QED
    BY <2>2, <1>3, <1>7, <1>8
<1>10. ASSUME NEW i \in 1 .. 3 PROVE TreePlan[i] = A[i]
  <2>1. i \in 1 .. 3 + k
    OBVIOUS
  <2> QED
    BY <2>1, <1>6, <1>7
<1>11. ASSUME NEW i \in 1 .. 2 * n PROVE TreePlan[3 + i] = Mkdirs[i]
  <2>1. 3 + i \in 1 .. 3 + k
    BY <1>8
  <2> QED
    BY <2>1, <1>6, <1>7, <1>8
<1> QED
  BY <1>2, <1>7, <1>9, <1>10, <1>11 DEF n

\* What Plan holds where, in terms of the plans that it is made of.
LEMMA PlanParts ==
    ASSUME powered \in BOOLEAN
    PROVE  LET n == Len(Processes)
           IN  /\ Len(Plan) = Base + 6 * n + 5
               /\ \A i \in 1 .. 8 : Plan[i] = RootPlan[i]
               /\ powered => \A i \in 1 .. 3 : Plan[8 + i] = PowerPlan[i]
               /\ \A i \in 1 .. 2 * n + 4 : Plan[Base + i] = TreePlan[i]
               /\ \A i \in 1 .. 4 * n : Plan[Base + 2 * n + 4 + i] = SpawnPlan[i]
               /\ Plan[Len(Plan)] = <<"run">>
<1> DEFINE n == Len(Processes)
           PP == IF powered THEN PowerPlan ELSE <<>>
           E == <<<<"run">>>>
           H == RootPlan \o PP
           G == H \o TreePlan
           F == G \o SpawnPlan
<1>1. n \in Nat /\ Base \in Nat /\ Base >= 8
  BY ProcessesLen DEF Base
<1>2. PICK k \in Nat : k = 2 * n
  BY <1>1
<1>3. PICK q \in Nat : q = 4 * n
  BY <1>1
<1>4. PICK R : RootPlan \in Seq(R) /\ Len(RootPlan) = 8
  <2> DEFINE R == {<<"helper">>, <<"mkroot", "unified">>, <<"join", "unified">>,
                   <<"mkroot", "freezer">>, <<"join", "freezer">>,
                   <<"mkroot", "cpuset">>, <<"join", "cpuset">>, <<"checked">>}
  <2>1. RootPlan \in Seq(R) /\ Len(RootPlan) = 8
    BY DEF RootPlan
  <2> QED
    BY <2>1
<1>5. PICK W : /\ PP \in Seq(W) /\ Len(PP) = Base - 8
               /\ powered => Base = 11 /\ \A i \in 1 .. 3 : PP[i] = PowerPlan[i]
  <2> DEFINE W == {<<"pstate">>, <<"policies">>, <<"manager">>}
  <2>1. CASE powered
    <3>1. PowerPlan \in Seq(W) /\ Len(PowerPlan) = 3
      BY DEF PowerPlan
    <3>2. PP = PowerPlan /\ Base = 11
      BY <2>1 DEF Base
    <3> HIDE DEF PP, W
    <3> QED
      BY <2>1, <3>1, <3>2
  <2>2. CASE ~powered
    <3>1. <<>> \in Seq(W) /\ Len(<<>>) = 0
      BY EmptySeq
    <3>2. PP = <<>> /\ Base = 8
      BY <2>2 DEF Base
    <3> HIDE DEF PP, W
    <3> QED
      BY <2>2, <3>1, <3>2
  <2> QED
    BY <2>1, <2>2
<1>6. PICK TS : TreePlan \in Seq(TS) /\ Len(TreePlan) = k + 4
  BY TreePlanAt, <1>2
<1>7. PICK S : SpawnPlan \in Seq(S) /\ Len(SpawnPlan) = q
  <2> DEFINE S == {SpawnPlan[i] : i \in 1 .. q}
  <2>1. DOMAIN SpawnPlan = 1 .. q /\ SpawnPlan \in [1 .. q -> S]
    BY <1>3 DEF SpawnPlan
  <2> HIDE DEF S
  <2>2. SpawnPlan \in Seq(S) /\ Len(SpawnPlan) = q
    BY <2>1
  <2> QED
    BY <2>2
<1>8. E \in Seq({<<"run">>}) /\ Len(E) = 1 /\ E[1] = <<"run">>
  OBVIOUS
<1>9. Plan = F \o E
  BY DEF Plan
<1> HIDE DEF E, PP, n
<1>10. PICK HS : /\ H \in Seq(HS)
                 /\ Len(H) = Len(RootPlan) + Len(PP)
                 /\ \A i \in 1 .. Len(RootPlan) : H[i] = RootPlan[i]
                 /\ \A i \in 1 .. Len(PP) : H[Len(RootPlan) + i] = PP[i]
  <2>1. RootPlan \in Seq(R) /\ PP \in Seq(W)
    BY <1>4, <1>5
  <2>2. /\ RootPlan \o PP \in Seq(R \cup W)
        /\ Len(RootPlan \o PP) = Len(RootPlan) + Len(PP)
        /\ \A i \in 1 .. Len(RootPlan) : (RootPlan \o PP)[i] = RootPlan[i]
        /\ \A i \in 1 .. Len(PP) : (RootPlan \o PP)[Len(RootPlan) + i] = PP[i]
    BY ONLY <2>1, Concat
  <2> QED
    BY <2>2
<1> HIDE DEF H
<1>11. PICK GS : /\ G \in Seq(GS)
                 /\ Len(G) = Len(H) + Len(TreePlan)
                 /\ \A i \in 1 .. Len(H) : G[i] = H[i]
                 /\ \A i \in 1 .. Len(TreePlan) : G[Len(H) + i] = TreePlan[i]
  <2>1. H \in Seq(HS) /\ TreePlan \in Seq(TS)
    BY <1>6, <1>10
  <2>2. /\ H \o TreePlan \in Seq(HS \cup TS)
        /\ Len(H \o TreePlan) = Len(H) + Len(TreePlan)
        /\ \A i \in 1 .. Len(H) : (H \o TreePlan)[i] = H[i]
        /\ \A i \in 1 .. Len(TreePlan) : (H \o TreePlan)[Len(H) + i] = TreePlan[i]
    BY ONLY <2>1, Concat
  <2> QED
    BY <2>2
<1> HIDE DEF G
<1>12. PICK FS : /\ F \in Seq(FS)
                 /\ Len(F) = Len(G) + Len(SpawnPlan)
                 /\ \A i \in 1 .. Len(G) : F[i] = G[i]
                 /\ \A i \in 1 .. Len(SpawnPlan) : F[Len(G) + i] = SpawnPlan[i]
  <2>1. G \in Seq(GS) /\ SpawnPlan \in Seq(S)
    BY <1>7, <1>11
  <2>2. /\ G \o SpawnPlan \in Seq(GS \cup S)
        /\ Len(G \o SpawnPlan) = Len(G) + Len(SpawnPlan)
        /\ \A i \in 1 .. Len(G) : (G \o SpawnPlan)[i] = G[i]
        /\ \A i \in 1 .. Len(SpawnPlan) : (G \o SpawnPlan)[Len(G) + i] = SpawnPlan[i]
    BY ONLY <2>1, Concat
  <2> QED
    BY <2>2
<1> HIDE DEF F
<1>13. /\ Len(Plan) = Len(F) + 1
       /\ \A i \in 1 .. Len(F) : Plan[i] = F[i]
       /\ \A i \in 1 .. 1 : Plan[Len(F) + i] = E[i]
  <2>1. F \in Seq(FS) /\ E \in Seq({<<"run">>})
    BY <1>8, <1>12
  <2>2. /\ Len(F \o E) = Len(F) + Len(E)
        /\ \A i \in 1 .. Len(F) : (F \o E)[i] = F[i]
        /\ \A i \in 1 .. Len(E) : (F \o E)[Len(F) + i] = E[i]
    BY ONLY <2>1, Concat
  <2> QED
    BY <2>2, <1>8, <1>9
<1>14. /\ Len(H) = Base /\ Len(G) = Base + k + 4 /\ Len(F) = Base + k + 4 + q
       /\ Len(Plan) = Base + k + 4 + q + 1
  BY <1>1, <1>4, <1>5, <1>6, <1>7, <1>10, <1>11, <1>12, <1>13
<1>15. Len(Plan) = Base + 6 * n + 5
  BY <1>1, <1>2, <1>3, <1>14
<1>16. Plan[Len(Plan)] = <<"run">>
  BY <1>8, <1>13
<1>17. ASSUME NEW i \in 1 .. q PROVE Plan[Base + 2 * n + 4 + i] = SpawnPlan[i]
  <2>1. Base + k + 4 + i \in 1 .. Len(F)
    BY <1>1, <1>14
  <2>2. Plan[Base + k + 4 + i] = F[Base + k + 4 + i]
    BY <2>1, <1>13
  <2> QED
    BY <2>2, <1>2, <1>7, <1>12, <1>14
<1>18. ASSUME NEW i \in 1 .. k + 4 PROVE Plan[Base + i] = TreePlan[i]
  <2>1. Base + i \in 1 .. Len(F) /\ Base + i \in 1 .. Len(G)
    BY <1>1, <1>14
  <2>2. Plan[Base + i] = G[Base + i]
    BY <2>1, <1>12, <1>13
  <2> QED
    BY <2>2, <1>6, <1>11, <1>14
<1>19. ASSUME NEW i \in 1 .. Base PROVE Plan[i] = H[i]
  <2>1. i \in 1 .. Len(F) /\ i \in 1 .. Len(G) /\ i \in 1 .. Len(H)
    BY <1>1, <1>14
  <2> QED
    BY <2>1, <1>11, <1>12, <1>13
<1>20. ASSUME NEW i \in 1 .. 8 PROVE Plan[i] = RootPlan[i]
  BY <1>1, <1>4, <1>10, <1>19
<1>21. ASSUME powered, NEW i \in 1 .. 3 PROVE Plan[8 + i] = PowerPlan[i]
  <2>1. Base = 11 /\ Len(PP) = 3 /\ PP[i] = PowerPlan[i]
    BY <1>5, <1>21
  <2>2. Plan[8 + i] = H[8 + i]
    BY <2>1, <1>19
  <2>3. H[8 + i] = PP[i]
    BY <2>1, <1>4, <1>10
  <2> QED
    BY <2>1, <2>2, <2>3
<1> QED
  BY <1>2, <1>3, <1>15, <1>16, <1>17, <1>18, <1>20, <1>21 DEF n

\* Each process has two cgroups made, and four steps in SpawnPlan.
LEMMA PerProcess ==
    ASSUME NEW a \in 1 .. Len(Processes)
    PROVE  LET p == Processes[a]
           IN  /\ p \in Proc
               /\ 2 * a - 1 \in 1 .. 2 * Len(Processes) /\ 2 * a \in 1 .. 2 * Len(Processes)
               /\ Mkdirs[2 * a - 1] = <<"mkdir", <<"unified", p>>>>
               /\ Mkdirs[2 * a] = <<"mkdir", <<"freezer", p>>>>
               /\ SpawnPlan[4 * a - 3] = <<"fork", p>>
               /\ SpawnPlan[4 * a - 2] = <<"add", p, <<"unified", p>>>>
               /\ SpawnPlan[4 * a - 1] = <<"add", p, <<"freezer", p>>>>
               /\ SpawnPlan[4 * a] = <<"add", p, <<"cpuset", "part">>>>
<1> DEFINE n == Len(Processes)
           p == Processes[a]
           Steps == <<<<"fork", p>>, <<"add", p, <<"unified", p>>>>,
                      <<"add", p, <<"freezer", p>>>>, <<"add", p, <<"cpuset", "part">>>>>>
<1>1. n \in Nat /\ p \in Proc
  BY ProcessesLen
<1>2. 2 * a - 1 \in 1 .. 2 * n /\ 2 * a \in 1 .. 2 * n
  BY <1>1
<1>3. Mkdirs[2 * a - 1] = <<"mkdir", <<"unified", p>>>>
  <2>1. (2 * a - 1) % 2 = 1 /\ ((2 * a - 1) + 1) \div 2 = a
    BY <1>1
  <2> QED
    BY <1>2, <2>1 DEF Mkdirs
<1>4. Mkdirs[2 * a] = <<"mkdir", <<"freezer", p>>>>
  <2>1. (2 * a) % 2 # 1 /\ ((2 * a) + 1) \div 2 = a
    BY <1>1
  <2> QED
    BY <1>2, <2>1 DEF Mkdirs
<1>5. ASSUME NEW r \in 1 .. 4, NEW i \in Nat, i = 4 * a - 4 + r
      PROVE  SpawnPlan[i] = Steps[r]
  <2>1. i \in 1 .. 4 * n
    BY <1>1, <1>5
  <2>2. (i + 3) \div 4 = a
    BY <1>1, <1>5
  <2>3. ((i - 1) % 4) + 1 = r
    BY <1>1, <1>5
  <2> QED
    BY <2>1, <2>2, <2>3 DEF SpawnPlan
<1>6. /\ SpawnPlan[4 * a - 3] = Steps[1] /\ SpawnPlan[4 * a - 2] = Steps[2]
      /\ SpawnPlan[4 * a - 1] = Steps[3] /\ SpawnPlan[4 * a] = Steps[4]
  <2> HIDE DEF Steps
  <2>1. 4 * a - 3 = 4 * a - 4 + 1 /\ 4 * a - 2 = 4 * a - 4 + 2 /\ 4 * a - 1 = 4 * a - 4 + 3
        /\ 4 * a = 4 * a - 4 + 4 /\ 4 * a - 3 \in Nat /\ 4 * a - 2 \in Nat /\ 4 * a - 1 \in Nat
        /\ 4 * a \in Nat
    BY <1>1
  <2> QED
    BY <1>5, <2>1
<1> QED
  BY <1>1, <1>2, <1>3, <1>4, <1>6

\* Every position of Mkdirs and SpawnPlan belongs to a process.
LEMMA OfProcess ==
    /\ \A i \in 1 .. 2 * Len(Processes) :
          \E a \in 1 .. Len(Processes) : i \in {2 * a - 1, 2 * a}
    /\ \A i \in 1 .. 4 * Len(Processes) :
          \E a \in 1 .. Len(Processes) : i \in {4 * a - 3, 4 * a - 2, 4 * a - 1, 4 * a}
<1>1. PICK n \in Nat : n = Len(Processes)
  BY ProcessesLen
<1>2. ASSUME NEW i \in 1 .. 2 * n PROVE \E a \in 1 .. n : i \in {2 * a - 1, 2 * a}
  <2> DEFINE a == (i + 1) \div 2
  <2>1. a \in 1 .. n /\ (i = 2 * a - 1 \/ i = 2 * a)
    OBVIOUS
  <2> QED
    BY <2>1
<1>3. ASSUME NEW i \in 1 .. 4 * n
      PROVE  \E a \in 1 .. n : i \in {4 * a - 3, 4 * a - 2, 4 * a - 1, 4 * a}
  <2> DEFINE a == (i + 3) \div 4
  <2>1. a \in 1 .. n /\ (i = 4 * a - 3 \/ i = 4 * a - 2 \/ i = 4 * a - 1 \/ i = 4 * a)
    OBVIOUS
  <2> QED
    BY <2>1
<1> QED
  BY <1>1, <1>2, <1>3

Hierarchy == {"unified", "freezer", "cpuset"}

\* Plan makes the cgroup d before its step i.
MadeBefore(d, i) == \E j \in 9 .. i - 1 : j < Len(Plan) /\ Plan[j] = <<"mkdir", d>>

\* Plan makes every cgroup of the partition and of its processes, and those of
\* the partition before all that follows TreePlan's first three steps.
LEMMA MkdirOf ==
    ASSUME powered \in BOOLEAN
    PROVE  /\ Len(Plan) \in Nat /\ Base \in 8 .. Len(Plan) - 5
           /\ \A h \in Hierarchy : MadeBefore(<<h, "part">>, Base + 4)
           /\ \A d \in Leaves : MadeBefore(d, Base + 2 * Len(Processes) + 4)
<1> DEFINE n == Len(Processes)
<1>1. n \in Nat /\ Base \in Nat /\ Base >= 8
  BY ProcessesLen DEF Base
<1>2. Len(Plan) \in Nat /\ Base \in 8 .. Len(Plan) - 5 /\ Base + 2 * n + 4 < Len(Plan)
  BY <1>1, PlanParts
<1>3. /\ Plan[Base + 1] = <<"mkdir", <<"cpuset", "part">>>>
      /\ Plan[Base + 2] = <<"mkdir", <<"freezer", "part">>>>
      /\ Plan[Base + 3] = <<"mkdir", <<"unified", "part">>>>
  <2>1. 1 \in 1 .. 2 * n + 4 /\ 2 \in 1 .. 2 * n + 4 /\ 3 \in 1 .. 2 * n + 4
    BY <1>1
  <2> QED
    BY <2>1, PlanParts, TreePlanAt
<1>4. ASSUME NEW h \in Hierarchy PROVE MadeBefore(<<h, "part">>, Base + 4)
  <2>1. \A j \in {1, 2, 3} : Base + j \in 9 .. (Base + 4) - 1 /\ Base + j < Len(Plan)
    BY <1>1, <1>2
  <2> QED
    BY <1>3, <2>1 DEF MadeBefore, Hierarchy
<1>5. ASSUME NEW d \in Leaves PROVE MadeBefore(d, Base + 2 * n + 4)
  <2>1. PICK a \in 1 .. n : d = <<"unified", Processes[a]>> \/ d = <<"freezer", Processes[a]>>
    <3>1. DOMAIN Processes = 1 .. n
      BY HostAssumption, LenProperties
    <3> QED
      BY <3>1 DEF Leaves, Proc
  <2>2. PICK j \in 1 .. 2 * n : Mkdirs[j] = <<"mkdir", d>>
    BY <2>1, PerProcess
  <2>3. 3 + j \in 1 .. 2 * n + 4
    BY <1>1
  <2>4. Plan[Base + (3 + j)] = <<"mkdir", d>>
    BY <2>2, <2>3, PlanParts, TreePlanAt
  <2>5. Base + (3 + j) \in 9 .. (Base + 2 * n + 4) - 1 /\ Base + (3 + j) < Len(Plan)
    BY <1>1, <1>2
  <2> QED
    BY <2>4, <2>5 DEF MadeBefore
<1> QED
  BY <1>2, <1>4, <1>5

\* The step i of Plan after the power management: what it is and what the steps
\* before it are.
InnerStep(i) ==
    \/ \E h \in Hierarchy : Plan[i] = <<"mkdir", <<h, "part">>>>
    \/ \E h \in {"unified", "freezer"}, p \in Proc :
          Plan[i] = <<"mkdir", <<h, p>>>> /\ MadeBefore(<<h, "part">>, i)
    \/ Plan[i] = <<"validate">>
    \/ \E p \in Proc :
          \/ Plan[i] = <<"fork", p>>
          \/ /\ Plan[i] = <<"add", p, <<"unified", p>>>>
             /\ MadeBefore(<<"unified", p>>, i)
          \/ /\ Plan[i] = <<"add", p, <<"freezer", p>>>>
             /\ Plan[i - 1] = <<"add", p, <<"unified", p>>>>
             /\ MadeBefore(<<"freezer", p>>, i)
          \/ /\ Plan[i] = <<"add", p, <<"cpuset", "part">>>>
             /\ Plan[i - 1] = <<"add", p, <<"freezer", p>>>>
             /\ MadeBefore(<<"cpuset", "part">>, i)

\* What is made before a step is made before a later one.
LEMMA MadeLater ==
    ASSUME NEW d, NEW i \in Int, NEW j \in Int, i <= j, MadeBefore(d, i), Len(Plan) \in Nat
    PROVE  MadeBefore(d, j)
BY DEF MadeBefore

\* Every step of Plan is one of these.
LEMMA PlanStep ==
    ASSUME powered \in BOOLEAN, NEW i \in 1 .. Len(Plan)
    PROVE  \/ i <= 8 /\ Plan[i] = RootPlan[i]
           \/ powered /\ i = 9 /\ Plan[i] = <<"pstate">>
           \/ powered /\ i = 10 /\ Plan[i] = <<"policies">>
           \/ powered /\ i = 11 /\ Plan[i] = <<"manager">>
           \/ i \in Base + 1 .. Len(Plan) - 1 /\ InnerStep(i)
           \/ i = Len(Plan) /\ Plan[i] = <<"run">>
<1> DEFINE n == Len(Processes)
<1>1. n \in Nat /\ Base \in Nat /\ Base >= 8 /\ Len(Plan) = Base + 6 * n + 5
  BY ProcessesLen, PlanParts DEF Base
<1>2. CASE i <= 8
  BY <1>2, PlanParts
<1>3. CASE i > 8 /\ i <= Base
  <2>1. powered /\ Base = 11 /\ i \in {9, 10, 11}
    BY <1>1, <1>3 DEF Base
  <2>2. Plan[8 + 1] = PowerPlan[1] /\ Plan[8 + 2] = PowerPlan[2] /\ Plan[8 + 3] = PowerPlan[3]
    BY <2>1, PlanParts
  <2>3. 8 + 1 = 9 /\ 8 + 2 = 10 /\ 8 + 3 = 11
    OBVIOUS
  <2> QED
    BY <2>1, <2>2, <2>3 DEF PowerPlan
<1>4. CASE i > Base /\ i <= Base + 3
  <2>1. i \in {Base + 1, Base + 2, Base + 3} /\ i \in Base + 1 .. Len(Plan) - 1
    BY <1>1, <1>4
  <2>2. 1 \in 1 .. 2 * n + 4 /\ 2 \in 1 .. 2 * n + 4 /\ 3 \in 1 .. 2 * n + 4
    BY <1>1
  <2>3. /\ Plan[Base + 1] = <<"mkdir", <<"cpuset", "part">>>>
        /\ Plan[Base + 2] = <<"mkdir", <<"freezer", "part">>>>
        /\ Plan[Base + 3] = <<"mkdir", <<"unified", "part">>>>
    BY <2>2, PlanParts, TreePlanAt
  <2> QED
    BY <2>1, <2>3 DEF InnerStep, Hierarchy
<1>5. CASE i > Base + 3 /\ i <= Base + 3 + 2 * n
  <2>1. PICK k \in 1 .. 2 * n : i = Base + (3 + k) /\ 3 + k \in 1 .. 2 * n + 4
    <3>1. i - Base - 3 \in 1 .. 2 * n /\ i = Base + (3 + (i - Base - 3))
          /\ 3 + (i - Base - 3) \in 1 .. 2 * n + 4
      BY <1>1, <1>5
    <3> QED
      BY <3>1
  <2>2. Plan[i] = Mkdirs[k]
    BY <2>1, PlanParts, TreePlanAt
  <2>3. PICK a \in 1 .. n : k = 2 * a - 1 \/ k = 2 * a
    BY OfProcess
  <2>4. \E h \in {"unified", "freezer"}, p \in Proc : Plan[i] = <<"mkdir", <<h, p>>>>
    BY <2>2, <2>3, PerProcess
  <2>5. Base + 4 <= i /\ i \in Base + 1 .. Len(Plan) - 1 /\ i \in Int /\ Base + 4 \in Int
        /\ Len(Plan) \in Nat
    BY <1>1, <1>5
  <2>6. \A h \in Hierarchy : MadeBefore(<<h, "part">>, i)
    BY <2>5, MkdirOf, MadeLater
  <2> QED
    BY <2>4, <2>5, <2>6 DEF InnerStep, Hierarchy
<1>6. CASE i = Base + 2 * n + 4
  <2>1. i = Base + (2 * n + 4) /\ 2 * n + 4 \in 1 .. 2 * n + 4 /\ i \in Base + 1 .. Len(Plan) - 1
    BY <1>1, <1>6
  <2>2. Plan[i] = <<"validate">>
    BY <2>1, PlanParts, TreePlanAt
  <2> QED
    BY <2>1, <2>2 DEF InnerStep
<1>7. CASE i > Base + 2 * n + 4 /\ i < Len(Plan)
  <2>1. PICK k \in 1 .. 4 * n : i = Base + 2 * n + 4 + k
    <3>1. i - Base - 2 * n - 4 \in 1 .. 4 * n /\ i = Base + 2 * n + 4 + (i - Base - 2 * n - 4)
      BY <1>1, <1>7
    <3> QED
      BY <3>1
  <2>2. Plan[i] = SpawnPlan[k]
    BY <2>1, PlanParts
  <2>3. PICK a \in 1 .. n : k = 4 * a - 3 \/ k = 4 * a - 2 \/ k = 4 * a - 1 \/ k = 4 * a
    BY OfProcess
  <2>4. k > 1 => Plan[i - 1] = SpawnPlan[k - 1]
    <3>1. k > 1 => k - 1 \in 1 .. 4 * n /\ i - 1 = Base + 2 * n + 4 + (k - 1)
      BY <1>1, <2>1
    <3> QED
      BY <3>1, PlanParts
  <2>5. /\ Base + 4 <= i /\ Base + 2 * n + 4 <= i /\ i \in Base + 1 .. Len(Plan) - 1 /\ i \in Int
        /\ Base + 4 \in Int /\ Base + 2 * n + 4 \in Int /\ Len(Plan) \in Nat
    BY <1>1, <1>7
  <2>6. \A h \in Hierarchy : MadeBefore(<<h, "part">>, i)
    BY <2>5, MkdirOf, MadeLater
  <2>7. \A d \in Leaves : MadeBefore(d, i)
    BY <2>5, MkdirOf, MadeLater
  <2> DEFINE p == Processes[a]
  <2>8. p \in Proc /\ <<"unified", p>> \in Leaves /\ <<"freezer", p>> \in Leaves
    BY PerProcess DEF Leaves
  <2>9. CASE k = 4 * a - 3
    <3>1. Plan[i] = <<"fork", p>>
      BY <2>2, <2>9, PerProcess
    <3> QED
      BY <3>1, <2>5, <2>8 DEF InnerStep
  <2>10. CASE k = 4 * a - 2
    <3>1. Plan[i] = <<"add", p, <<"unified", p>>>>
      BY <2>2, <2>10, PerProcess
    <3> QED
      BY <3>1, <2>5, <2>7, <2>8 DEF InnerStep
  <2>11. CASE k = 4 * a - 1
    <3>0. k > 1 /\ k - 1 = 4 * a - 2
      BY <1>1, <2>11
    <3>1. Plan[i] = <<"add", p, <<"freezer", p>>>>
      BY <2>2, <2>11, PerProcess
    <3>2. Plan[i - 1] = <<"add", p, <<"unified", p>>>>
      BY <2>4, <3>0, PerProcess
    <3> QED
      BY <3>1, <3>2, <2>5, <2>7, <2>8 DEF InnerStep
  <2>12. CASE k = 4 * a
    <3>0. k > 1 /\ k - 1 = 4 * a - 1
      BY <1>1, <2>12
    <3>1. Plan[i] = <<"add", p, <<"cpuset", "part">>>>
      BY <2>2, <2>12, PerProcess
    <3>2. Plan[i - 1] = <<"add", p, <<"freezer", p>>>>
      BY <2>4, <3>0, PerProcess
    <3> QED
      BY <3>1, <3>2, <2>5, <2>6, <2>8 DEF InnerStep, Hierarchy
  <2> QED
    BY <2>3, <2>9, <2>10, <2>11, <2>12
<1>8. CASE i = Len(Plan)
  BY <1>8, PlanParts
<1> QED
  BY <1>1, <1>2, <1>3, <1>4, <1>5, <1>6, <1>7, <1>8

\* The next step of main(): where it is in Plan and what it is given.
LEMMA SetupStep ==
    ASSUME TypeOK, Objects, pc = "setup"
    PROVE  /\ pos \in 1 .. Len(Plan) /\ Len(Plan) \in Nat /\ Len(Plan) > 12
           /\ At("helper") => pos = 1
           /\ At("mkroot") => pos \in {2, 4, 6} /\ Arg \in Hierarchy /\ MkrootAt[Arg] = pos
           /\ At("join") => pos \in {3, 5, 7} /\ Arg \in Hierarchy /\ MkrootAt[Arg] < pos
           /\ At("checked") => pos = 8
           /\ pos \in {2, 4, 6} => At("mkroot")
           /\ At("pstate") => powered /\ pos = 9
           /\ At("policies") => powered /\ pos = 10
           /\ At("manager") => powered /\ pos = 11
           /\ powered /\ pos = 9 => At("pstate")
           /\ powered /\ pos = 10 => At("policies")
           /\ powered /\ pos = 11 => At("manager")
           /\ At("mkdir") => /\ pos \in 9 .. Len(Plan) - 1
                             /\ powered => pos > 11
                             /\ \/ \E h \in Hierarchy : Arg = <<h, "part">>
                                \/ \E h \in {"unified", "freezer"}, p \in Proc :
                                      Arg = <<h, p>> /\ MadeBefore(<<h, "part">>, pos)
           /\ At("validate") => pos \in 9 .. Len(Plan) - 1
           /\ At("fork") => pos \in 9 .. Len(Plan) - 1 /\ Arg \in Proc
           /\ At("add") => /\ pos \in 9 .. Len(Plan) - 1 /\ Arg \in Proc
                           /\ MadeBefore(Plan[pos][3], pos)
           /\ At("run") <=> pos = Len(Plan)
<1> USE DEF At, Arg
<1>1. powered \in BOOLEAN /\ pos \in Nat \ {0} /\ pos <= Len(Plan)
  BY DEF TypeOK, Objects
<1>2. Len(Plan) \in Nat /\ Base \in 8 .. Len(Plan) - 5 /\ (powered => Base = 11)
  BY <1>1, MkdirOf DEF Base
<1>3. pos \in 1 .. Len(Plan) /\ Len(Plan) > 12
  BY <1>1, <1>2
<1>4. Plan[Len(Plan)] = <<"run">>
  BY <1>1, PlanParts
<1> HIDE DEF Plan
<1>5. CASE pos <= 8 /\ Plan[pos] = RootPlan[pos]
  <2>1. pos \in 1 .. 8 /\ pos # Len(Plan)
    BY <1>3, <1>5
  <2>2. pos = 1 \/ pos = 2 \/ pos = 3 \/ pos = 4 \/ pos = 5 \/ pos = 6 \/ pos = 7 \/ pos = 8
    BY <2>1
  <2>3. /\ RootPlan[1][1] = "helper"
        /\ RootPlan[2][1] = "mkroot" /\ RootPlan[2][2] = "unified"
        /\ RootPlan[3][1] = "join" /\ RootPlan[3][2] = "unified"
        /\ RootPlan[4][1] = "mkroot" /\ RootPlan[4][2] = "freezer"
        /\ RootPlan[5][1] = "join" /\ RootPlan[5][2] = "freezer"
        /\ RootPlan[6][1] = "mkroot" /\ RootPlan[6][2] = "cpuset"
        /\ RootPlan[7][1] = "join" /\ RootPlan[7][2] = "cpuset"
        /\ RootPlan[8][1] = "checked"
    BY DEF RootPlan
  <2>4. MkrootAt["unified"] = 2 /\ MkrootAt["freezer"] = 4 /\ MkrootAt["cpuset"] = 6
    BY DEF MkrootAt
  <2> QED
    BY <1>2, <1>3, <1>5, <2>1, <2>2, <2>3, <2>4 DEF Hierarchy
<1>6. CASE /\ powered
           /\ \/ pos = 9 /\ Plan[pos] = <<"pstate">>
              \/ pos = 10 /\ Plan[pos] = <<"policies">>
              \/ pos = 11 /\ Plan[pos] = <<"manager">>
  BY <1>2, <1>3, <1>6
<1>7. CASE pos \in Base + 1 .. Len(Plan) - 1 /\ InnerStep(pos)
  <2>1. pos \in 9 .. Len(Plan) - 1 /\ (powered => pos > 11) /\ pos # Len(Plan)
    BY <1>2, <1>7
  <2> HIDE DEF At
  <2>2. /\ At("mkdir") => \/ \E h \in Hierarchy : Arg = <<h, "part">>
                          \/ \E h \in {"unified", "freezer"}, p \in Proc :
                                Arg = <<h, p>> /\ MadeBefore(<<h, "part">>, pos)
        /\ At("fork") => Arg \in Proc
        /\ At("add") => Arg \in Proc /\ MadeBefore(Plan[pos][3], pos)
        /\ Plan[pos][1] \in {"mkdir", "validate", "fork", "add"}
    <3>1. CASE \E h \in Hierarchy : Plan[pos] = <<"mkdir", <<h, "part">>>>
      BY <3>1 DEF At
    <3>2. CASE \E h \in {"unified", "freezer"}, p \in Proc :
                  Plan[pos] = <<"mkdir", <<h, p>>>> /\ MadeBefore(<<h, "part">>, pos)
      BY <3>2 DEF At
    <3>3. CASE Plan[pos] = <<"validate">>
      BY <3>3 DEF At
    <3>4. CASE \E p \in Proc : Plan[pos] = <<"fork", p>>
      BY <3>4 DEF At
    <3>5. CASE \E p \in Proc : \E d :
                  Plan[pos] = <<"add", p, d>> /\ MadeBefore(d, pos)
      BY <3>5 DEF At
    <3> QED
      BY <1>7, <3>1, <3>2, <3>3, <3>4, <3>5 DEF InnerStep
  <2>3. \A x \in {"helper", "mkroot", "join", "checked", "pstate", "policies", "manager", "run"} :
           ~At(x)
    BY <2>2 DEF At
  <2> QED
    BY <2>1, <2>2, <2>3, <1>2, <1>3
<1>8. CASE pos = Len(Plan) /\ Plan[pos] = <<"run">>
  BY <1>2, <1>3, <1>8
<1> QED
  BY <1>1, <1>3, <1>5, <1>6, <1>7, <1>8, PlanStep

-------------------------------------------------------------------------------
(* The tree of cgroups *)

\* A cgroup is of one of the three levels, and no other object is a cgroup.
LEMMA Levels ==
    /\ Roots \cap Parts = {} /\ Roots \cap Leaves = {} /\ Parts \cap Leaves = {}
    /\ Dir \cap FreqEntry = {}
    /\ \A d \in Dir : d[1] \in Hierarchy /\ d # <<"manager">>
    /\ \A e \in FreqEntry : e[1] \in {"policy", "manager"}
    /\ \A h \in Hierarchy : <<h, "root">> \in Roots /\ <<h, "part">> \in Parts
    /\ \A h \in {"unified", "freezer"}, p \in Proc : <<h, p>> \in Leaves
<1>1. \A d \in Roots : d[1] \in Hierarchy /\ d[2] = "root"
  BY DEF Roots, Hierarchy
<1>2. \A d \in Parts : d[1] \in Hierarchy /\ d[2] = "part"
  BY DEF Parts, Hierarchy
<1>3. \A d \in Leaves : d[1] \in Hierarchy /\ d[2] \in Proc
  BY DEF Leaves, Hierarchy
<1>4. \A e \in FreqEntry : e[1] \in {"policy", "manager"}
  BY DEF FreqEntry
<1>5. "root" \notin Proc /\ "part" \notin Proc
  BY HostAssumption
<1>6. \A d \in Dir : d[1] \in Hierarchy
  BY <1>1, <1>2, <1>3 DEF Dir
<1>7. \A d \in Dir : d # <<"manager">>
  BY <1>6 DEF Hierarchy
<1>8. Roots \cap Parts = {} /\ Roots \cap Leaves = {} /\ Parts \cap Leaves = {}
  BY <1>1, <1>2, <1>3, <1>5
<1>9. Dir \cap FreqEntry = {}
  BY <1>4, <1>6 DEF Hierarchy
<1> QED
  BY <1>4, <1>6, <1>7, <1>8, <1>9 DEF Roots, Parts, Leaves, Hierarchy

\* The children of a cgroup are one level below it and only its own.
LEMMA ChildrenAre ==
    ASSUME NEW d \in Dir
    PROVE  /\ d \in Roots => Children(d) = {<<d[1], "part">>} /\ Children(d) \subseteq Parts
           /\ d \in Parts => Children(d) = {e \in Leaves : e[1] = d[1]}
           /\ d \in Leaves => Children(d) = {}
           /\ Children(d) \subseteq Parts \cup Leaves
           /\ \A c \in Children(d) : Before(c, d) /\ Below(c) \subseteq Below(d) /\ c \in Dir
<1>1. CASE d \in Roots
  <2>1. Children(d) = {<<d[1], "part">>}
    BY <1>1 DEF Children
  <2>2. d[1] \in Hierarchy
    BY Levels
  <2>3. <<d[1], "part">> \in Parts
    BY <2>2, Levels
  <2> DEFINE c == <<d[1], "part">>
  <2>4. c \notin Roots /\ c \notin Leaves /\ d \notin Parts /\ d \notin Leaves /\ c \in Dir
    BY <2>3, <1>1, Levels DEF Dir
  <2>5. Children(c) \subseteq Leaves
    BY <2>3, <2>4 DEF Children
  <2>6. \A l \in Leaves : Children(l) = {}
    BY Levels DEF Children
  <2>7. Below(c) \subseteq Below(d)
    BY <2>1, <2>5, <2>6 DEF Below
  <2>8. Rank(c) = 6 /\ Rank(d) = 3
    <3>1. d[1] # "policy" /\ d # <<"manager">>
      BY <2>2, Levels DEF Hierarchy
    <3> QED
      BY <3>1, <2>3, <2>4 DEF Rank
  <2>9. Before(c, d)
    BY <2>8 DEF Before
  <2> HIDE DEF c
  <2>10. c \in Parts /\ Children(d) = {c}
    BY <2>1, <2>3 DEF c
  <2> QED
    BY <1>1, <2>1, <2>4, <2>7, <2>9, <2>10
<1>2. CASE d \in Parts
  <2>1. d \notin Roots /\ d \notin Leaves
    BY <1>2, Levels
  <2>2. Children(d) = {e \in Leaves : e[1] = d[1]}
    BY <1>2, <2>1 DEF Children
  <2>3. \A l \in Leaves : Children(l) = {}
    BY Levels DEF Children
  <2>4. ASSUME NEW c \in Children(d)
        PROVE  Before(c, d) /\ Below(c) \subseteq Below(d) /\ c \in Dir
    <3>1. c \in Leaves /\ c \in Dir
      BY <2>2 DEF Dir
    <3>2. Rank(c) = 7 /\ Rank(d) = 6
      BY <1>2, <2>1, <3>1 DEF Rank
    <3>3. Below(c) = {c}
      BY <2>3, <3>1 DEF Below
    <3> QED
      BY <3>1, <3>2, <3>3 DEF Before, Below
  <2> QED
    BY <1>2, <2>1, <2>2, <2>4
<1>3. CASE d \in Leaves
  BY <1>3, Levels DEF Children
<1> QED
  BY <1>1, <1>2, <1>3 DEF Dir

-------------------------------------------------------------------------------
(* Types *)

\* No step changes whether there is a power policy.
LEMMA SamePlan ==
    ASSUME Next
    PROVE  powered' = powered /\ Plan' = Plan /\ Base' = Base
<1>1. powered' = powered
  <2>1. CASE MainStep
    BY <2>1 DEF MainStep, ForkHelper, MakeRoot, JoinRoot, RootsChecked, SetupPstate,
          PoliciesDone, ManagerBuilt, SetupPolicy, MakeInner, ValidateConfig, ForkProcess,
          AddProcess, Run, Destroy, ExitMain
  <2> QED
    BY <2>1 DEF Next, TaskEnds, Crash, Restart, ScriptKills, ScriptRemoves, ScriptResets
<1> QED
  BY <1>1 DEF Plan, Base

\* What main() has made by now exists and is owned.
LEMMA MadeIs ==
    ASSUME TypeOK, Objects, Made, pc = "setup", NEW d, MadeBefore(d, pos)
    PROVE  d \in dirs /\ d \in owned
<1>1. PICK j \in 9 .. pos - 1 : Plan[j] = <<"mkdir", d>>
  BY DEF MadeBefore
<1>2. j \in 1 .. pos - 1 /\ Plan[j][1] = "mkdir" /\ Plan[j][2] = d
  BY <1>1
<1> QED
  BY <1>2 DEF Made

\* Rmdir removes only what is in its argument, nothing that has a task or a
\* child in it, and notes what it leaves for a task.
LEMMA RmdirDoes ==
    ASSUME NEW D, D \subseteq Dir, Rmdir(D), Tree(dirs), dirs \subseteq Dir,
           \A t \in DOMAIN tasks : tasks[t] \subseteq dirs
    PROVE  /\ dirs' \subseteq dirs
           /\ \A d \in dirs \ D : d \in dirs'
           /\ \A t \in DOMAIN tasks : tasks[t] \subseteq dirs'
           /\ busy \subseteq busy'
           /\ Tree(dirs')
           /\ \A d \in dirs' \cap D : d \in busy' \/ Children(d) \cap dirs # {}
           /\ \A d \in D \cap dirs : ~Occupied(d) /\ Children(d) \cap dirs = {} => d \notin dirs'
BY DEF Rmdir, Removable, Occupied, Tree

\* Switching intel_pstate leaves governors of that mode.
LEMMA SwitchDoes ==
    ASSUME NEW mode, SwitchPstate(mode), gov \in [Cluster -> Governor],
           \A c \in Cluster : gov[c] \in Supported(c, pstate)
    PROVE  /\ gov' \in [Cluster -> Governor]
           /\ \A c \in Cluster : gov'[c] \in Supported(c, pstate')
           /\ pstate' = mode
<1>1. CASE pstate = mode
  BY <1>1 DEF SwitchPstate
<1>2. CASE pstate # mode
  BY <1>2 DEF SwitchPstate
<1> QED
  BY <1>1, <1>2

\* Writing a governor leaves one that the cpufreq policy supports.
LEMMA GovernorDoes ==
    ASSUME gov \in [Cluster -> Governor], NEW c \in Cluster, NEW g, NEW current,
           \A d \in Cluster : gov[d] \in Supported(d, pstate),
           gov' = [gov EXCEPT ![c] = GovernorAfter(c, g, current)], pstate' = pstate
    PROVE  /\ gov' \in [Cluster -> Governor]
           /\ \A d \in Cluster : gov'[d] \in Supported(d, pstate')
           /\ \A d \in Cluster \ {c} : gov'[d] = gov[d]
           /\ gov'[c] = GovernorAfter(c, g, current)
<1>1. GovernorAfter(c, g, current) \in Supported(c, pstate)
  BY DEF GovernorAfter
<1>2. Supported(c, pstate) \subseteq Governor
  BY DEF Supported, Governor
<1> QED
  BY <1>1, <1>2

\* Every step preserves the types.
LEMMA TypeStep ==
    ASSUME HInv, Next
    PROVE  TypeOK'
<1> USE DEF hostVars, freqVars, objVars, histVars, Proceed, Unwind
<1>1. TypeOK /\ Objects /\ Trees /\ Made /\ Frequencies
  BY DEF HInv
<1>2. powered' = powered /\ Plan' = Plan
  BY SamePlan
<1>3. \A c \in Cluster : gov[c] \in Supported(c, pstate)
  BY <1>1 DEF Frequencies
<1> HIDE DEF Plan
<1>4. CASE ForkHelper
  <2>1. At("helper") /\ pos + 1 <= Len(Plan)
    BY <1>1, <1>4, SetupStep DEF ForkHelper, At
  <2> QED
    BY <1>1, <1>2, <1>4, <2>1 DEF ForkHelper, TypeOK
<1>5. CASE MakeRoot
  <2>1. At("mkroot") /\ pos + 1 <= Len(Plan) /\ Arg \in Hierarchy
    BY <1>1, <1>5, SetupStep DEF MakeRoot, At
  <2>2. <<Arg, "root">> \in Dir /\ <<Arg, "root">> \notin FreqEntry
    BY <2>1, Levels DEF Dir
  <2> QED
    BY <1>1, <1>2, <1>5, <2>1, <2>2 DEF MakeRoot, TypeOK, OwnRoot, KillHelper, FreqEntry
<1>6. CASE JoinRoot
  <2>1. At("join") /\ pos + 1 <= Len(Plan)
    BY <1>1, <1>6, SetupStep DEF JoinRoot, At
  <2> QED
    BY <1>1, <1>2, <1>6, <2>1 DEF JoinRoot, TypeOK
<1>7. CASE RootsChecked
  <2>1. At("checked") /\ pos + 1 <= Len(Plan)
    BY <1>1, <1>7, SetupStep DEF RootsChecked, At
  <2> QED
    BY <1>1, <1>2, <1>7, <2>1 DEF RootsChecked, TypeOK
<1>8. CASE SetupPstate
  <2>1. At("pstate") /\ pos + 1 <= Len(Plan)
    BY <1>1, <1>8, SetupStep DEF SetupPstate, At
  <2>2. gov' \in [Cluster -> Governor]
    BY <1>1, <1>3, <1>8, SwitchDoes DEF SetupPstate, TypeOK
  <2> QED
    BY <1>1, <1>2, <1>8, <2>1, <2>2 DEF SetupPstate, TypeOK
<1>9. CASE PoliciesDone
  <2>1. At("policies") /\ pos + 1 <= Len(Plan)
    BY <1>1, <1>9, SetupStep DEF PoliciesDone, At
  <2> QED
    BY <1>1, <1>2, <1>9, <2>1 DEF PoliciesDone, TypeOK
<1>10. CASE ManagerBuilt
  <2>1. At("manager") /\ pos + 1 <= Len(Plan)
    BY <1>1, <1>10, SetupStep DEF ManagerBuilt, At
  <2> QED
    BY <1>1, <1>2, <1>10, <2>1 DEF ManagerBuilt, TypeOK, FreqEntry
<1>11. ASSUME NEW c \in Cluster, SetupPolicy(c) PROVE TypeOK'
  <2>2. gov' \in [Cluster -> Governor]
    BY <1>1, <1>3, <1>11, GovernorDoes DEF SetupPolicy, TypeOK
  <2>3. DOMAIN original' = {d \in Cluster : <<"policy", d>> \in owned'}
    BY <1>1, <1>11 DEF SetupPolicy, TypeOK
  <2> QED
    BY <1>1, <1>2, <1>11, <2>2, <2>3 DEF SetupPolicy, TypeOK, FreqEntry
<1>12. CASE MakeInner
  <2>1. At("mkdir") /\ pos + 1 <= Len(Plan) /\ Arg \in Dir /\ Arg \notin FreqEntry
    <3>1. At("mkdir")
      BY <1>12 DEF MakeInner
    <3>2. pos + 1 <= Len(Plan)
      BY <1>1, <3>1, SetupStep DEF At
    <3>3. \/ \E h \in Hierarchy : Arg = <<h, "part">>
          \/ \E h \in {"unified", "freezer"}, p \in Proc : Arg = <<h, p>>
      BY <1>1, <3>1, SetupStep DEF At
    <3> QED
      BY <3>1, <3>2, <3>3, Levels DEF Dir
  <2> QED
    BY <1>1, <1>2, <1>12, <2>1 DEF MakeInner, TypeOK, FreqEntry
<1>13. CASE ValidateConfig
  <2>1. At("validate") /\ pos + 1 <= Len(Plan)
    BY <1>1, <1>13, SetupStep DEF ValidateConfig, At
  <2> QED
    BY <1>1, <1>2, <1>13, <2>1 DEF ValidateConfig, TypeOK
<1>14. CASE ForkProcess
  <2>1. At("fork") /\ pos + 1 <= Len(Plan)
    BY <1>1, <1>14, SetupStep DEF ForkProcess, At
  <2> QED
    BY <1>1, <1>2, <1>14, <2>1 DEF ForkProcess, TypeOK
<1>15. CASE AddProcess
  <2>1. At("add") /\ pos + 1 <= Len(Plan) /\ MadeBefore(Plan[pos][3], pos)
    BY <1>1, <1>15, SetupStep DEF AddProcess, At
  <2>2. Plan[pos][3] \in dirs
    BY <1>1, <2>1, MadeIs DEF At
  <2> QED
    BY <1>1, <1>2, <1>15, <2>1, <2>2 DEF AddProcess, TypeOK
<1>16. CASE Run
  BY <1>1, <1>2, <1>16 DEF Run, TypeOK
<1>17. ASSUME NEW e \in owned, Destroy(e) PROVE TypeOK'
  <2>1. CASE e \in Roots \cup Parts \cup Leaves /\ Rmdir({e}) /\ UNCHANGED <<freqVars, original>>
    <3>1. e \in Dir /\ e \notin FreqEntry
      BY <2>1, Levels DEF Dir
    <3>2. dirs' \subseteq dirs /\ \A t \in DOMAIN tasks : tasks[t] \subseteq dirs'
      BY <1>1, <2>1, <3>1, RmdirDoes DEF TypeOK, Trees
    <3>3. \A d \in Cluster : <<"policy", d>> \in owned' <=> <<"policy", d>> \in owned
      BY <1>17, <3>1 DEF Destroy, FreqEntry
    <3> QED
      BY <1>1, <1>2, <1>17, <2>1, <3>2, <3>3 DEF Destroy, TypeOK
  <2>2. CASE e = <<"manager">> /\ DestroyManager /\ UNCHANGED <<dirs, max_freq, original, busy>>
    <3>1. gov' \in [Cluster -> Governor]
      BY <1>1, <1>3, <2>2, SwitchDoes DEF DestroyManager, TypeOK
    <3>2. \A d \in Cluster : <<"policy", d>> # e
      BY <2>2
    <3>3. \A d \in Cluster : <<"policy", d>> \in owned' <=> <<"policy", d>> \in owned
      BY <1>17, <3>2 DEF Destroy
    <3> QED
      BY <1>1, <1>2, <1>17, <2>2, <3>1, <3>3 DEF Destroy, TypeOK
  <2>3. CASE /\ e[1] = "policy"
             /\ DestroyPolicy(e[2])
             /\ original' = [c \in DOMAIN original \ {e[2]} |-> original[c]]
             /\ UNCHANGED <<dirs, pstate, busy>>
    <3>1. PICK c \in Cluster : e = <<"policy", c>>
      <4>1. e \in FreqEntry
        BY <1>1, <2>3, Levels DEF TypeOK, Hierarchy
      <4> QED
        BY <4>1, <2>3 DEF FreqEntry
    <3>2. gov' \in [Cluster -> Governor]
      BY <1>1, <1>3, <2>3, <3>1, GovernorDoes DEF DestroyPolicy, TypeOK
    <3>3. DOMAIN original' = {d \in Cluster : <<"policy", d>> \in owned'}
      <4>1. DOMAIN original' = (DOMAIN original) \ {c}
        BY <2>3, <3>1
      <4>2. owned' = owned \ {<<"policy", c>>}
        BY <1>17, <3>1 DEF Destroy
      <4> QED
        BY <1>1, <4>1, <4>2 DEF TypeOK
    <3> QED
      BY <1>1, <1>2, <1>17, <2>3, <3>2, <3>3 DEF Destroy, TypeOK
  <2> QED
    BY <1>17, <2>1, <2>2, <2>3 DEF Destroy
<1>18. CASE ExitMain
  BY <1>1, <1>2, <1>18 DEF ExitMain, TypeOK
<1>19. ASSUME NEW t \in DOMAIN tasks, TaskEnds(t) PROVE TypeOK'
  BY <1>1, <1>2, <1>19 DEF TaskEnds, TypeOK
<1>20. CASE Crash
  BY <1>1, <1>2, <1>20 DEF Crash, TypeOK
<1>21. CASE Restart
  <2>1. 1 <= Len(Plan)
    BY <1>1, MkdirOf DEF Objects
  <2> QED
    BY <1>1, <1>2, <1>21, <2>1 DEF Restart, TypeOK
<1>22. CASE ScriptKills
  BY <1>1, <1>2, <1>22 DEF ScriptKills, TypeOK
<1>23. CASE ScriptRemoves
  <2>1. ScriptOrder[pos] \subseteq Dir
    BY <1>23 DEF ScriptRemoves, ScriptOrder, In, Dir
  <2>2. dirs' \subseteq dirs /\ \A t \in DOMAIN tasks : tasks[t] \subseteq dirs'
    BY <1>1, <1>23, <2>1, RmdirDoes DEF ScriptRemoves, TypeOK, Trees
  <2> QED
    BY <1>1, <1>2, <1>23, <2>2 DEF ScriptRemoves, TypeOK
<1>24. CASE ScriptResets
  <2>1. gov' \in [Cluster -> Governor]
    <3>1. CASE pstate # "none" /\ SwitchPstate("active")
      BY <1>1, <1>3, <3>1, SwitchDoes DEF TypeOK
    <3>2. CASE gov' = [c \in Cluster |-> IF c \in ActiveClusters THEN "schedutil" ELSE gov[c]]
      BY <1>1, <3>2 DEF TypeOK, Governor
    <3> QED
      BY <1>24, <3>1, <3>2 DEF ScriptResets
  <2> QED
    BY <1>1, <1>2, <1>24, <2>1 DEF ScriptResets, TypeOK
<1> QED
  BY <1>4, <1>5, <1>6, <1>7, <1>8, <1>9, <1>10, <1>11, <1>12, <1>13, <1>14, <1>15, <1>16,
     <1>17, <1>18, <1>19, <1>20, <1>21, <1>22, <1>23, <1>24 DEF Next, MainStep

-------------------------------------------------------------------------------
(* Steps, as far as cgroups are concerned *)

\* Outside main() there are no objects.
LEMMA ObjectsStep ==
    ASSUME HInv, Next
    PROVE  Objects'
<1>1. TypeOK /\ Objects
  BY DEF HInv
<1>2. powered' = powered
  BY SamePlan
<1> USE DEF hostVars, freqVars, objVars, histVars, Proceed, Unwind
<1>3. CASE MainStep /\ pc = "setup"
  <2>1. pc' \in {"setup", "unwind"}
    BY <1>3 DEF MainStep, ForkHelper, MakeRoot, JoinRoot, RootsChecked, SetupPstate,
          PoliciesDone, ManagerBuilt, SetupPolicy, MakeInner, ValidateConfig, ForkProcess,
          AddProcess, Run, Destroy, ExitMain
  <2> QED
    BY <1>1, <1>2, <2>1 DEF Objects
<1>4. CASE MainStep /\ pc # "setup"
  <2>1. (\E e \in owned : Destroy(e)) \/ ExitMain
    BY <1>4 DEF MainStep, ForkHelper, MakeRoot, JoinRoot, RootsChecked, SetupPstate,
          PoliciesDone, ManagerBuilt, SetupPolicy, MakeInner, ValidateConfig, ForkProcess,
          AddProcess, Run, At
  <2> QED
    BY <1>1, <1>2, <2>1 DEF Objects, Destroy, ExitMain
<1>5. CASE \E t \in DOMAIN tasks : TaskEnds(t)
  BY <1>1, <1>2, <1>5 DEF Objects, TaskEnds
<1>6. CASE Crash \/ Restart
  BY <1>1, <1>2, <1>6 DEF Objects, Crash, Restart
<1>7. CASE ScriptKills \/ ScriptRemoves \/ ScriptResets
  BY <1>1, <1>2, <1>7 DEF Objects, ScriptKills, ScriptRemoves, ScriptResets
<1> QED
  BY <1>3, <1>4, <1>5, <1>6, <1>7 DEF Next

\* A step that neither makes, owns nor removes a cgroup.
Quiet ==
    /\ UNCHANGED <<dirs, before, busy>>
    /\ owned' \cap Dir = owned \cap Dir
    /\ pc # "setup" => \A t \in DOMAIN tasks' : t \in DOMAIN tasks /\ tasks'[t] = tasks[t]
    /\ \/ UNCHANGED <<pc, pos, status, commands>>
       \/ /\ pc = "setup" /\ pc' = "setup"
          /\ pos' = pos + 1 /\ pos < Len(Plan) /\ Plan[pos][1] \notin {"mkroot", "mkdir"}
          /\ commands => commands' /\ pos # 8
       \/ /\ pc = "setup" /\ pc' = "unwind"
          /\ status' = 1 \/ (status' = 0 /\ pos = Len(Plan) /\ RunEnds /\ tasks' = tasks)
       \/ pc = "unwind" /\ pc' = "exited" /\ owned = {} /\ UNCHANGED status
       \/ pc = "killed" /\ pc' = "cleaned" /\ pos \notin DOMAIN ScriptOrder

\* The destructor of a Cgroup object.
DestroyCgroup(e) ==
    /\ pc = "unwind" /\ e \in Dir /\ owned' = owned \ {e}
    /\ ~\E f \in owned : Before(f, e)
    /\ Rmdir({e})
    /\ UNCHANGED <<tasks, pc, pos, status, before>>

\* The steps that remain to be looked at.
LEMMA CgroupSteps ==
    ASSUME HInv, Next
    PROVE  \/ Quiet \/ MakeRoot \/ MakeInner
           \/ \E e \in owned : DestroyCgroup(e)
           \/ Crash \/ Restart \/ ScriptKills \/ ScriptRemoves
<1> USE DEF hostVars, freqVars, objVars, histVars, Proceed, Unwind
<1>1. TypeOK /\ Objects
  BY DEF HInv
<1>4. CASE ForkHelper
  <2>1. At("helper") /\ pos < Len(Plan) /\ pos # 8
    BY <1>1, <1>4, SetupStep DEF ForkHelper, At
  <2> QED
    BY <1>4, <2>1 DEF ForkHelper, Quiet, At
<1>6. CASE JoinRoot
  <2>1. At("join") /\ pos < Len(Plan) /\ pos # 8
    BY <1>1, <1>6, SetupStep DEF JoinRoot, At
  <2> QED
    BY <1>6, <2>1 DEF JoinRoot, Quiet, At
<1>7. CASE RootsChecked
  <2>1. At("checked") /\ pos < Len(Plan)
    BY <1>1, <1>7, SetupStep DEF RootsChecked, At
  <2> QED
    BY <1>7, <2>1 DEF RootsChecked, Quiet, At
<1>8. CASE SetupPstate
  <2>1. At("pstate") /\ pos < Len(Plan) /\ pos # 8
    BY <1>1, <1>8, SetupStep DEF SetupPstate, At
  <2> QED
    BY <1>8, <2>1 DEF SetupPstate, Quiet, At
<1>9. CASE PoliciesDone
  <2>1. At("policies") /\ pos < Len(Plan) /\ pos # 8
    BY <1>1, <1>9, SetupStep DEF PoliciesDone, At
  <2> QED
    BY <1>9, <2>1 DEF PoliciesDone, Quiet, At
<1>10. CASE ManagerBuilt
  <2>1. At("manager") /\ pos < Len(Plan) /\ pos # 8
    BY <1>1, <1>10, SetupStep DEF ManagerBuilt, At
  <2>2. owned' \cap Dir = owned \cap Dir
    BY <1>10, Levels DEF ManagerBuilt
  <2> QED
    BY <1>10, <2>1, <2>2 DEF ManagerBuilt, Quiet, At
<1>11. ASSUME NEW c \in Cluster, SetupPolicy(c) PROVE Quiet
  <2>1. owned' = owned \/ owned' = owned \cup {<<"policy", c>>}
    BY <1>11 DEF SetupPolicy
  <2>2. <<"policy", c>> \notin Dir
    BY Levels DEF FreqEntry
  <2>3. owned' \cap Dir = owned \cap Dir
    BY <2>1, <2>2
  <2> QED
    BY <1>11, <2>3 DEF SetupPolicy, Quiet, At
<1>13. CASE ValidateConfig
  <2>1. At("validate") /\ pos < Len(Plan) /\ pos # 8
    BY <1>1, <1>13, SetupStep DEF ValidateConfig, At
  <2> QED
    BY <1>13, <2>1 DEF ValidateConfig, Quiet, At
<1>14. CASE ForkProcess
  <2>1. At("fork") /\ pos < Len(Plan) /\ pos # 8
    BY <1>1, <1>14, SetupStep DEF ForkProcess, At
  <2> QED
    BY <1>14, <2>1 DEF ForkProcess, Quiet, At
<1>15. CASE AddProcess
  <2>1. At("add") /\ pos < Len(Plan) /\ pos # 8
    BY <1>1, <1>15, SetupStep DEF AddProcess, At
  <2> QED
    BY <1>15, <2>1 DEF AddProcess, Quiet, At
<1>16. CASE Run
  <2>1. At("run") /\ pos = Len(Plan)
    BY <1>1, <1>16, SetupStep DEF Run, At
  <2> QED
    BY <1>16, <2>1 DEF Run, Quiet, At
<1>17. ASSUME NEW e \in owned, Destroy(e) PROVE Quiet \/ DestroyCgroup(e)
  <2>1. CASE e \in Roots \cup Parts \cup Leaves /\ Rmdir({e})
    BY <1>17, <2>1 DEF Destroy, DestroyCgroup, Dir
  <2>2. CASE e = <<"manager">> /\ UNCHANGED <<dirs, busy>>
    <3>1. e \notin Dir
      BY <2>2, Levels
    <3> QED
      BY <1>17, <2>2, <3>1 DEF Destroy, Quiet
  <2>3. CASE e[1] = "policy" /\ UNCHANGED <<dirs, busy>>
    <3>1. e \notin Dir
      BY <2>3, Levels DEF Hierarchy
    <3> QED
      BY <1>17, <2>3, <3>1 DEF Destroy, Quiet
  <2> QED
    BY <1>17, <2>1, <2>2, <2>3 DEF Destroy
<1>18. CASE ExitMain
  BY <1>18 DEF ExitMain, Quiet
<1>19. ASSUME NEW t \in DOMAIN tasks, TaskEnds(t) PROVE Quiet
  BY <1>19 DEF TaskEnds, Quiet
<1>24. CASE ScriptResets
  BY <1>24 DEF ScriptResets, Quiet
<1> QED
  BY <1>4, <1>6, <1>7, <1>8, <1>9, <1>10, <1>11, <1>13, <1>14, <1>15, <1>16,
     <1>17, <1>18, <1>19, <1>24 DEF Next, MainStep

-------------------------------------------------------------------------------
(* Cgroups *)

\* What the next cgroup is, and that its parent exists.
LEMMA ArgOfMkdir ==
    ASSUME TypeOK, Objects, Made, At("mkdir")
    PROVE  /\ pos \in 9 .. Len(Plan) - 1 /\ Len(Plan) \in Nat
           /\ Arg \in Parts \cup Leaves
           /\ \A d \in Dir : Arg \in Children(d) => d \in dirs
<1>1. pc = "setup"
  BY DEF At
<1>2. pos \in 9 .. Len(Plan) - 1 /\ Len(Plan) \in Nat
  BY <1>1, SetupStep
<1>3. CASE \E h \in Hierarchy : Arg = <<h, "part">>
  <2>1. PICK h \in Hierarchy : Arg = <<h, "part">>
    BY <1>3
  <2>2. Arg \in Parts /\ Arg \notin Leaves
    BY <2>1, Levels
  <2>3. MkrootAt[h] < pos /\ ~(pos =< 8)
    BY <1>2 DEF MkrootAt, Hierarchy
  <2>4. <<h, "root">> \in dirs
    BY <1>1, <2>3 DEF Made, Hierarchy
  <2>5. ASSUME NEW d \in Dir, Arg \in Children(d) PROVE d \in dirs
    <3>1. d \in Roots /\ Children(d) = {<<d[1], "part">>}
      BY <2>2, <2>5, ChildrenAre DEF Dir
    <3>2. d = <<h, "root">>
      BY <2>1, <2>5, <3>1 DEF Roots
    <3> QED
      BY <2>4, <3>2
  <2> QED
    BY <1>2, <2>2, <2>5
<1>4. CASE \E h \in {"unified", "freezer"}, p \in Proc :
              Arg = <<h, p>> /\ MadeBefore(<<h, "part">>, pos)
  <2>1. PICK h \in {"unified", "freezer"}, p \in Proc :
           Arg = <<h, p>> /\ MadeBefore(<<h, "part">>, pos)
    BY <1>4
  <2>2. Arg \in Leaves /\ Arg \notin Parts
    BY <2>1, Levels
  <2>3. <<h, "part">> \in dirs
    BY <1>1, <2>1, MadeIs
  <2>4. ASSUME NEW d \in Dir, Arg \in Children(d) PROVE d \in dirs
    <3>1. d \in Parts /\ Arg[1] = d[1]
      BY <2>2, <2>4, ChildrenAre DEF Dir
    <3>2. d = <<h, "part">>
      BY <2>1, <3>1 DEF Parts
    <3> QED
      BY <2>3, <3>2
  <2> QED
    BY <1>2, <2>2, <2>4
<1> QED
  BY <1>1, <1>3, <1>4, SetupStep

\* Every cgroup keeps its parent.
LEMMA TreesStep ==
    ASSUME HInv, Next
    PROVE  Trees'
<1> USE DEF hostVars, freqVars, objVars, histVars, Proceed, Unwind
<1>1. TypeOK /\ Objects /\ Trees /\ Made
  BY DEF HInv
<1>2. CASE Quiet \/ Crash \/ ScriptKills
  BY <1>1, <1>2 DEF Quiet, Crash, ScriptKills, Trees, Tree
<1>3. CASE MakeRoot
  <2>1. At("mkroot") /\ Arg \in Hierarchy
    BY <1>1, <1>3, SetupStep DEF MakeRoot, At
  <2>2. \A d \in Dir : <<Arg, "root">> \notin Children(d)
    BY <2>1, Levels, ChildrenAre
  <2>3. (dirs' = dirs \/ dirs' = dirs \cup {<<Arg, "root">>}) /\ before' = before
    BY <1>3 DEF MakeRoot
  <2> QED
    BY <1>1, <2>2, <2>3 DEF Trees, Tree
<1>4. CASE MakeInner
  <2>1. \A d \in Dir : Arg \in Children(d) => d \in dirs
    BY <1>1, <1>4, ArgOfMkdir DEF MakeInner
  <2>2. (dirs' = dirs \/ dirs' = dirs \cup {Arg}) /\ before' = before
    BY <1>4 DEF MakeInner
  <2> QED
    BY <1>1, <2>1, <2>2 DEF Trees, Tree
<1>5. ASSUME NEW e \in owned, DestroyCgroup(e) PROVE Trees'
  <2>1. Tree(dirs') /\ before' = before
    BY <1>1, <1>5, RmdirDoes DEF DestroyCgroup, TypeOK, Trees
  <2> QED
    BY <1>1, <2>1 DEF Trees, Tree
<1>6. CASE Restart
  BY <1>1, <1>6 DEF Restart, Trees, Tree, TypeOK
<1>7. CASE ScriptRemoves
  <2>1. ScriptOrder[pos] \subseteq Dir
    BY <1>7 DEF ScriptRemoves, ScriptOrder, In, Dir
  <2>2. Tree(dirs') /\ before' = before
    BY <1>1, <1>7, <2>1, RmdirDoes DEF ScriptRemoves, TypeOK, Trees
  <2> QED
    BY <1>1, <2>2 DEF Trees, Tree
<1> QED
  BY <1>2, <1>3, <1>4, <1>5, <1>6, <1>7, CgroupSteps

\* What main() has made stays until it unwinds.
LEMMA MadeStep ==
    ASSUME HInv, Next
    PROVE  Made'
<1> USE DEF hostVars, freqVars, objVars, histVars, Proceed, Unwind
<1>1. TypeOK /\ Objects /\ Made
  BY DEF HInv
<1>2. Plan' = Plan
  BY SamePlan
<1>3. pos \in Nat \ {0} /\ \A h \in Hierarchy : MkrootAt[h] \in {2, 4, 6}
  BY <1>1 DEF TypeOK, MkrootAt, Hierarchy
<1> SUFFICES ASSUME pc' = "setup"
             PROVE  /\ \A i \in 1 .. pos' - 1 : Plan[i][1] = "mkdir" =>
                          Plan[i][2] \in dirs' \cap owned'
                    /\ \A h \in Hierarchy :
                          MkrootAt[h] < pos' => <<h, "root">> \in dirs' \/ (commands' /\ pos' =< 8)
  BY <1>2 DEF Made, Hierarchy
<1> DEFINE Dirs == \A i \in 1 .. pos - 1 : Plan[i][1] = "mkdir" => Plan[i][2] \in dirs \cap owned
           Rts == \A h \in Hierarchy :
                     MkrootAt[h] < pos => <<h, "root">> \in dirs \/ (commands /\ pos =< 8)
<1>4. pc = "setup" => Dirs /\ Rts
  BY <1>1 DEF Made, Hierarchy
<1>5. CASE Quiet
  <2>1. pc = "setup"
    BY <1>5 DEF Quiet
  <2>2. \A i \in 1 .. pos - 1 : Plan[i][1] = "mkdir" => Plan[i][2] \in dirs' \cap owned'
    <3>1. SUFFICES ASSUME NEW i \in 1 .. pos - 1, Plan[i][1] = "mkdir"
                   PROVE  Plan[i][2] \in dirs' \cap owned'
      OBVIOUS
    <3>2. Plan[i][2] \in dirs /\ Plan[i][2] \in owned /\ Plan[i][2] \in Dir
      BY <1>1, <1>4, <2>1, <3>1 DEF TypeOK
    <3> QED
      BY <1>5, <3>2 DEF Quiet
  <2>3. CASE UNCHANGED <<pc, pos, status, commands>>
    BY <1>4, <1>5, <2>1, <2>2, <2>3 DEF Quiet
  <2>4. CASE /\ pos' = pos + 1 /\ pos < Len(Plan) /\ Plan[pos][1] \notin {"mkroot", "mkdir"}
             /\ commands => commands' /\ pos # 8
    <3>1. \A i \in 1 .. pos' - 1 : i \in 1 .. pos - 1 \/ i = pos
      BY <1>3, <2>4
    <3>2. pos \notin {2, 4, 6}
      BY <1>1, <2>1, <2>4, SetupStep DEF At
    <3>3. ASSUME NEW h \in Hierarchy, MkrootAt[h] < pos'
          PROVE  <<h, "root">> \in dirs' \/ (commands' /\ pos' =< 8)
      <4>1. MkrootAt[h] < pos
        BY <1>3, <2>4, <3>2, <3>3
      <4>2. <<h, "root">> \in dirs \/ (commands /\ pos =< 8)
        BY <1>4, <2>1, <4>1
      <4>3. dirs' = dirs
        BY <1>5 DEF Quiet
      <4> QED
        BY <1>3, <2>4, <4>2, <4>3
    <3> QED
      BY <2>2, <2>4, <3>1, <3>3
  <2> QED
    BY <1>5, <2>1, <2>3, <2>4 DEF Quiet
<1>6. CASE MakeRoot
  <2>1. At("mkroot") /\ Arg \in Hierarchy /\ MkrootAt[Arg] = pos /\ pos \in {2, 4, 6}
        /\ pc = "setup"
    BY <1>1, <1>6, SetupStep DEF MakeRoot, At
  <2>2. /\ pos' = pos + 1 /\ dirs \subseteq dirs' /\ owned \subseteq owned'
        /\ <<Arg, "root">> \in dirs' \/ commands'
        /\ commands => commands'
    BY <1>6 DEF MakeRoot, OwnRoot
  <2>3. Plan[pos][1] # "mkdir" /\ \A i \in 1 .. pos' - 1 : i \in 1 .. pos - 1 \/ i = pos
    BY <1>3, <2>1, <2>2 DEF At
  <2>4. \A i \in 1 .. pos' - 1 : Plan[i][1] = "mkdir" => Plan[i][2] \in dirs' \cap owned'
    BY <1>4, <2>1, <2>2, <2>3
  <2>5. ASSUME NEW h \in Hierarchy, MkrootAt[h] < pos'
        PROVE  <<h, "root">> \in dirs' \/ (commands' /\ pos' =< 8)
    <3>1. pos' =< 8
      BY <2>1, <2>2
    <3>2. CASE MkrootAt[h] = pos
      <4>1. h = Arg
        BY <2>1, <3>2 DEF MkrootAt, Hierarchy
      <4> QED
        BY <2>2, <3>1, <4>1
    <3>3. CASE MkrootAt[h] # pos
      <4>1. MkrootAt[h] < pos
        BY <1>3, <2>2, <2>5, <3>3
      <4> QED
        BY <1>4, <2>1, <2>2, <3>1, <4>1
    <3> QED
      BY <3>2, <3>3
  <2> QED
    BY <2>4, <2>5
<1>7. CASE MakeInner
  <2>1. At("mkdir") /\ pos > 8 /\ pc = "setup"
    BY <1>1, <1>7, ArgOfMkdir DEF MakeInner, At
  <2>2. pos' = pos + 1 /\ dirs' = dirs \cup {Arg} /\ owned' = owned \cup {Arg}
    BY <1>7 DEF MakeInner
  <2>3. \A i \in 1 .. pos' - 1 : i \in 1 .. pos - 1 \/ (i = pos /\ Plan[i][2] = Arg)
    BY <1>3, <2>1, <2>2 DEF Arg
  <2>4. \A i \in 1 .. pos' - 1 : Plan[i][1] = "mkdir" => Plan[i][2] \in dirs' \cap owned'
    BY <1>4, <2>1, <2>2, <2>3
  <2>5. ASSUME NEW h \in Hierarchy PROVE <<h, "root">> \in dirs'
    BY <1>3, <1>4, <2>1, <2>2
  <2> QED
    BY <2>4, <2>5
<1>8. CASE Restart
  <2>1. pos' = 1 /\ \A i \in 1 .. pos' - 1 : FALSE
    BY <1>8 DEF Restart
  <2> QED
    BY <1>3, <2>1
<1> QED
  BY <1>5, <1>6, <1>7, <1>8, CgroupSteps DEF DestroyCgroup, Crash, ScriptKills, ScriptRemoves

\* The root cgroups that were found stay, and no destructor is to remove them.
LEMMA KeptStep ==
    ASSUME HInv, Next
    PROVE  Kept'
<1> USE DEF hostVars, freqVars, objVars, histVars, Proceed, Unwind
<1>1. TypeOK /\ Objects /\ Trees /\ Made /\ Kept
  BY DEF HInv
<1>2. CASE Quiet \/ ScriptKills
  <2>1. Roots \subseteq Dir
    BY DEF Dir
  <2> QED
    BY <1>1, <1>2, <2>1 DEF Quiet, ScriptKills, Kept, UserDirsKept
<1>3. CASE MakeRoot
  BY <1>1, <1>3 DEF MakeRoot, OwnRoot, Kept, UserDirsKept
<1>4. CASE MakeInner
  <2>1. Arg \notin Roots
    BY <1>1, <1>4, ArgOfMkdir, Levels DEF MakeInner
  <2> QED
    BY <1>1, <1>4, <2>1 DEF MakeInner, Kept, UserDirsKept
<1>5. ASSUME NEW e \in owned, DestroyCgroup(e) PROVE Kept'
  <2>1. (\A d \in dirs \ {e} : d \in dirs') /\ before' = before /\ owned' = owned \ {e}
    BY <1>1, <1>5, RmdirDoes DEF DestroyCgroup, TypeOK, Trees
  <2> QED
    BY <1>1, <2>1 DEF Kept, UserDirsKept
<1>6. CASE Crash
  BY <1>1, <1>6 DEF Crash, Kept, UserDirsKept
<1>7. CASE Restart
  BY <1>1, <1>7 DEF Restart, Kept, UserDirsKept, Objects
<1>8. CASE ScriptRemoves
  <2>1. ScriptOrder[pos] \subseteq Dir /\ ScriptOrder[pos] \cap Roots = {}
    BY <1>8, Levels DEF ScriptRemoves, ScriptOrder, In, Dir
  <2>2. (\A d \in dirs \ ScriptOrder[pos] : d \in dirs') /\ UNCHANGED <<before, owned>>
    BY <1>1, <1>8, <2>1, RmdirDoes DEF ScriptRemoves, TypeOK, Trees
  <2> QED
    BY <1>1, <2>1, <2>2 DEF Kept, UserDirsKept
<1> QED
  BY <1>2, <1>3, <1>4, <1>5, <1>6, <1>7, <1>8, CgroupSteps

\* LeftBusy passes to later states and from a cgroup to its parent.
LEMMA LeftBusyStays ==
    /\ \A d : busy \subseteq busy' /\ LeftBusy(d) => LeftBusy(d)'
    /\ \A d \in Dir : \A c \in Children(d) : LeftBusy(c)' => LeftBusy(d)'
    /\ \A d \in busy' : LeftBusy(d)'
BY ChildrenAre DEF LeftBusy, Below

\* A cgroup that is left is owned, or a task was in it or below.
LEMMA OwnedStep ==
    ASSUME HInv, Next
    PROVE  Owned'
<1> USE DEF hostVars, freqVars, objVars, histVars, Proceed, Unwind
<1>1. TypeOK /\ Objects /\ Trees /\ Made /\ Kept /\ Owned
  BY DEF HInv
<1>2. CASE Quiet
  <2>1. UNCHANGED <<dirs, before, busy>> /\ dirs \subseteq Dir
        /\ \A d \in Dir : d \in owned <=> d \in owned'
    BY <1>1, <1>2 DEF Quiet, TypeOK
  <2>2. \A d : LeftBusy(d)' <=> LeftBusy(d)
    BY <2>1 DEF LeftBusy
  <2>3. CASE UNCHANGED <<pc, pos, status, commands>>
    BY <1>1, <2>1, <2>2, <2>3 DEF Owned, LeftoverWasBusy, LeftBusy
  <2>4. CASE pc = "setup" /\ pc' \in {"setup", "unwind"}
    BY <1>1, <2>1, <2>4 DEF Owned, LeftoverWasBusy
  <2>5. CASE pc = "unwind" /\ pc' = "exited" /\ owned = {}
    BY <1>1, <2>1, <2>5 DEF Owned, LeftoverWasBusy, LeftBusy
  <2>6. CASE pc = "killed" /\ pc' = "cleaned" /\ pos \notin DOMAIN ScriptOrder
    <3>1. \A j \in 1 .. 5 : j < pos
      <4>1. DOMAIN ScriptOrder = 1 .. 5
        BY DEF ScriptOrder
      <4> QED
        BY <1>1, <2>6, <4>1 DEF TypeOK
    <3>2. ASSUME NEW d \in dirs \ Roots PROVE \E j \in 1 .. 5 : d \in ScriptOrder[j]
      <4>1. d \in Parts \/ d \in Leaves
        BY <2>1 DEF Dir
      <4>2. d \in Parts => d[1] \in {"unified", "freezer", "cpuset"}
        BY DEF Parts
      <4>3. d \in Leaves => d[1] \in {"unified", "freezer"}
        BY DEF Leaves
      <4>4. /\ ScriptOrder[1] = In("freezer", Leaves) /\ ScriptOrder[2] = In("freezer", Parts)
            /\ ScriptOrder[3] = In("cpuset", Parts) /\ ScriptOrder[4] = In("unified", Leaves)
            /\ ScriptOrder[5] = In("unified", Parts)
        BY DEF ScriptOrder
      <4> QED
        BY <4>1, <4>2, <4>3, <4>4 DEF In
    <3>3. \A d \in dirs \ Roots : LeftBusy(d)
      BY <1>1, <2>6, <3>1, <3>2 DEF Owned
    <3> QED
      BY <2>1, <2>6, <3>3 DEF Owned, LeftoverWasBusy, LeftBusy
  <2> QED
    BY <1>2, <2>3, <2>4, <2>5, <2>6 DEF Quiet
<1>3. CASE MakeRoot
  <2>1. pc = "setup" /\ pc' \in {"setup", "unwind"} /\ before' = before
    BY <1>3 DEF MakeRoot, At
  <2>2. dirs' \ before.dirs \subseteq owned'
    BY <1>1, <1>3, <2>1 DEF MakeRoot, OwnRoot, Owned
  <2> QED
    BY <2>1, <2>2 DEF Owned, LeftoverWasBusy
<1>4. CASE MakeInner
  <2>1. pc = "setup" /\ pc' \in {"setup", "unwind"} /\ before' = before
    BY <1>4 DEF MakeInner, At
  <2>2. dirs' \ before.dirs \subseteq owned'
    BY <1>1, <1>4, <2>1 DEF MakeInner, Owned
  <2> QED
    BY <2>1, <2>2 DEF Owned, LeftoverWasBusy
<1>5. ASSUME NEW e \in owned, DestroyCgroup(e) PROVE Owned'
  <2>1. /\ dirs' \subseteq dirs /\ busy \subseteq busy'
        /\ e \in dirs' => e \in busy' \/ Children(e) \cap dirs # {}
    BY <1>1, <1>5, RmdirDoes DEF DestroyCgroup, TypeOK, Trees
  <2>2. pc = "unwind" /\ pc' = "unwind" /\ before' = before /\ owned' = owned \ {e} /\ e \in Dir
    BY <1>5 DEF DestroyCgroup
  <2>3. \A d \in dirs \ before.dirs : d \in owned \/ LeftBusy(d)'
    BY <1>1, <2>1, <2>2, LeftBusyStays DEF Owned
  <2>4. ASSUME e \in dirs' \ before.dirs PROVE LeftBusy(e)'
    <3>1. CASE e \in busy'
      BY <3>1, LeftBusyStays
    <3>2. CASE Children(e) \cap dirs # {}
      <4>1. PICK c \in Children(e) : c \in dirs
        BY <3>2
      <4>2. c \notin before.dirs
        BY <1>1, <2>2, <2>4, <4>1 DEF Trees, Tree
      <4>3. c \notin owned
        BY <1>5, <2>2, ChildrenAre DEF DestroyCgroup
      <4> QED
        BY <2>2, <2>3, <4>1, <4>2, <4>3, LeftBusyStays
    <3> QED
      BY <2>1, <2>4, <3>1, <3>2
  <2>5. \A d \in dirs' \ before.dirs : d \in owned' \/ LeftBusy(d)'
    BY <2>1, <2>2, <2>3, <2>4
  <2> QED
    BY <2>2, <2>5 DEF Owned, LeftoverWasBusy
<1>6. CASE Crash
  BY <1>6 DEF Crash, Owned, LeftoverWasBusy
<1>7. CASE Restart
  BY <1>7 DEF Restart, Owned, LeftoverWasBusy
<1>8. CASE ScriptKills
  <2>1. \A j \in 1 .. 5 : ~(j < 1)
    OBVIOUS
  <2> QED
    BY <1>8, <2>1 DEF ScriptKills, Owned, LeftoverWasBusy
<1>9. CASE ScriptRemoves
  <2>1. pos \in 1 .. 5 /\ pc = "killed" /\ pc' = "killed" /\ pos' = pos + 1
    BY <1>9 DEF ScriptRemoves, ScriptOrder
  <2>2. /\ ScriptOrder[1] = In("freezer", Leaves) /\ ScriptOrder[2] = In("freezer", Parts)
        /\ ScriptOrder[3] = In("cpuset", Parts) /\ ScriptOrder[4] = In("unified", Leaves)
        /\ ScriptOrder[5] = In("unified", Parts)
    BY DEF ScriptOrder
  <2>3. \A j \in 1 .. 5 : ScriptOrder[j] \subseteq Dir
    BY <2>2 DEF In, Dir
  <2>4. /\ dirs' \subseteq dirs /\ busy \subseteq busy'
        /\ \A d \in dirs' \cap ScriptOrder[pos] : d \in busy' \/ Children(d) \cap dirs # {}
    BY <1>1, <1>9, <2>1, <2>3, RmdirDoes DEF ScriptRemoves, TypeOK, Trees
  <2>5. ASSUME NEW j \in 1 .. 5, j < pos, NEW d \in dirs \cap ScriptOrder[j]
        PROVE  LeftBusy(d)'
    BY <1>1, <2>1, <2>4, <2>5, LeftBusyStays DEF Owned
  <2>6. ASSUME NEW d \in dirs' \cap ScriptOrder[pos] PROVE LeftBusy(d)'
    <3>1. CASE d \in busy'
      BY <3>1, LeftBusyStays
    <3>2. CASE Children(d) \cap dirs # {}
      <4>1. PICK c \in Children(d) : c \in dirs
        BY <3>2
      <4>2. d \in Dir
        BY <2>1, <2>3
      <4>3. d \notin Leaves /\ pos \in {2, 3, 5}
        <5>1. d \notin Leaves
          BY <4>1, <4>2, ChildrenAre
        <5> QED
          BY <5>1, <2>1, <2>2 DEF In
      <4>4. d \in Parts /\ c \in Leaves /\ c[1] = d[1]
        <5>1. d \in Parts
          BY <2>2, <4>3 DEF In
        <5> QED
          BY <5>1, <4>1, <4>2, ChildrenAre
      <4>5. c[1] # "cpuset"
        BY <4>4 DEF Leaves
      <4>6. \E j \in 1 .. 5 : j < pos /\ c \in ScriptOrder[j]
        <5>1. CASE pos = 2
          BY <5>1, <2>2, <4>4 DEF In
        <5>2. CASE pos = 3
          BY <5>2, <2>2, <4>4, <4>5 DEF In
        <5>3. CASE pos = 5
          BY <5>3, <2>2, <4>4 DEF In
        <5> QED
          BY <4>3, <5>1, <5>2, <5>3
      <4>7. LeftBusy(c)'
        BY <2>5, <4>1, <4>6
      <4> QED
        BY <4>1, <4>2, <4>7, LeftBusyStays
    <3> QED
      BY <2>4, <3>1, <3>2
  <2>7. ASSUME NEW j \in 1 .. 5, j < pos' PROVE j < pos \/ j = pos
    BY <2>1, <2>7
  <2>8. \A j \in 1 .. 5 : j < pos' => \A d \in dirs' \cap ScriptOrder[j] : LeftBusy(d)'
    BY <2>4, <2>5, <2>6, <2>7
  <2>9. ScriptOrder' = ScriptOrder
    BY DEF ScriptOrder, In, Leaves, Parts, Proc
  <2> QED
    BY <2>1, <2>8, <2>9 DEF Owned, LeftoverWasBusy
<1> QED
  BY <1>2, <1>3, <1>4, <1>5, <1>6, <1>7, <1>8, <1>9, CgroupSteps

\* After run() has returned, main() removes every cgroup below the roots.
LEMMA EndedStep ==
    ASSUME HInv, Next
    PROVE  Ended'
<1> USE DEF hostVars, freqVars, objVars, histVars, Proceed, Unwind
<1>1. TypeOK /\ Objects /\ Trees /\ Made /\ Kept /\ Owned /\ Placed /\ Ended
  BY DEF HInv
<1>2. CASE Quiet
  <2>1. /\ UNCHANGED <<dirs, before, busy>> /\ dirs \subseteq Dir
        /\ \A d \in Dir : d \in owned <=> d \in owned'
    BY <1>1, <1>2 DEF Quiet, TypeOK
  <2>2. Roots \subseteq Dir /\ Parts \subseteq Dir /\ Leaves \subseteq Dir
    BY DEF Dir
  <2>3. CASE UNCHANGED <<pc, pos, status, commands>>
    <3>1. CASE pc = "setup"
      BY <2>3, <3>1 DEF Ended, CleanExit
    <3>2. CASE pc # "setup"
      BY <1>1, <1>2, <2>1, <2>2, <2>3, <3>2 DEF Quiet, Ended, CleanExit
    <3> QED
      BY <3>1, <3>2
  <2>4. CASE pc = "setup" /\ pc' = "setup"
    BY <2>4 DEF Ended, CleanExit
  <2>5. CASE pc = "setup" /\ pc' = "unwind" /\ status' = 1
    BY <2>5 DEF Ended, CleanExit
  <2>6. CASE /\ pc = "setup" /\ pc' = "unwind" /\ status' = 0
             /\ pos = Len(Plan) /\ RunEnds /\ tasks' = tasks
    <3>1. ASSUME NEW t \in DOMAIN tasks, NEW d \in tasks[t] PROVE d \in Roots
      <4>1. \A p \in Proc : <<"unified", p>> \notin tasks[t]
        <5>1. ASSUME NEW p \in Proc, <<"unified", p>> \in tasks[t] PROVE FALSE
          <6>1. <<"unified", p>> \in Leaves /\ <<"unified", p>>[1] = "unified"
            BY Levels
          <6> QED
            BY <2>6, <5>1, <6>1 DEF RunEnds, Occupied
        <5> QED
          BY <5>1
      <4> QED
        BY <1>1, <4>1 DEF Placed
    <3>2. ASSUME NEW d \in Parts \cup Leaves PROVE d \in owned
      <4>1. powered \in BOOLEAN
        BY <1>1 DEF Objects
      <4>2. PICK i \in Int : i <= pos /\ MadeBefore(d, i)
        <5>1. d \in Parts => \E h \in Hierarchy : d = <<h, "part">>
          BY DEF Parts, Hierarchy
        <5>2. PICK b \in Int, n \in Nat : b = Base /\ n = Len(Processes) /\ Len(Plan) = b + 6 * n + 5
          BY <4>1, PlanParts, ProcessesLen DEF Base
        <5>3. b + 4 <= pos /\ b + 2 * n + 4 <= pos /\ b + 4 \in Int /\ b + 2 * n + 4 \in Int
          BY <2>6, <5>2
        <5> QED
          BY <4>1, <5>1, <5>2, <5>3, MkdirOf
      <4>3. MadeBefore(d, pos)
        BY <1>1, <2>6, <4>1, <4>2, MadeLater, MkdirOf
      <4> QED
        BY <1>1, <2>6, <4>3, MadeIs
    <3>3. dirs \cap Roots \subseteq before.dirs \cup owned
      BY <1>1, <2>6 DEF Owned
    <3> QED
      BY <2>1, <2>2, <2>6, <3>1, <3>2, <3>3 DEF Ended, CleanExit
  <2>7. CASE pc = "unwind" /\ pc' = "exited" /\ owned = {} /\ UNCHANGED status
    <3>1. status = 0 => dirs \cap (Parts \cup Leaves) = {} /\ dirs \cap Roots \subseteq before.dirs \cup busy
      BY <1>1, <2>7 DEF Ended
    <3>2. before.dirs \cap Roots \subseteq dirs
      BY <1>1 DEF Kept, UserDirsKept
    <3> QED
      BY <2>1, <2>7, <3>1, <3>2 DEF Ended, CleanExit, Dir
  <2>8. CASE pc' = "cleaned"
    BY <2>8 DEF Ended, CleanExit
  <2> QED
    BY <1>2, <2>3, <2>4, <2>5, <2>6, <2>7, <2>8 DEF Quiet
<1>3. CASE MakeRoot
  BY <1>3 DEF MakeRoot, At, Ended, CleanExit
<1>4. CASE MakeInner
  BY <1>4 DEF MakeInner, At, Ended, CleanExit
<1>5. ASSUME NEW e \in owned, DestroyCgroup(e) PROVE Ended'
  <2>1. /\ dirs' \subseteq dirs /\ busy \subseteq busy'
        /\ e \in dirs' => e \in busy' \/ Children(e) \cap dirs # {}
        /\ ~Occupied(e) /\ Children(e) \cap dirs = {} => e \notin dirs'
    BY <1>1, <1>5, RmdirDoes DEF DestroyCgroup, TypeOK, Trees
  <2>2. /\ pc = "unwind" /\ UNCHANGED <<pc, status, before, tasks>>
        /\ owned' = owned \ {e} /\ e \in Dir
    BY <1>5 DEF DestroyCgroup
  <2>3. CASE status = 0
    <3>1. /\ \A t \in DOMAIN tasks : tasks[t] \subseteq Roots
          /\ dirs \cap (Parts \cup Leaves) \subseteq owned
          /\ dirs \cap Roots \subseteq before.dirs \cup owned \cup busy
      BY <1>1, <2>2, <2>3 DEF Ended
    <3>2. Children(e) \cap dirs = {}
      <4>1. SUFFICES ASSUME NEW c \in Children(e), c \in dirs PROVE FALSE
        OBVIOUS
      <4>2. c \in owned /\ Before(c, e)
        BY <2>2, <3>1, <4>1, ChildrenAre
      <4> QED
        BY <1>5, <4>2 DEF DestroyCgroup
    <3>3. e \in Parts \cup Leaves => e \notin dirs'
      <4>1. e \in Parts \cup Leaves => ~Occupied(e)
        BY <3>1, Levels DEF Occupied
      <4> QED
        BY <2>1, <3>2, <4>1
    <3>4. e \in dirs' => e \in busy'
      BY <2>1, <3>2
    <3> QED
      BY <2>1, <2>2, <3>1, <3>3, <3>4 DEF Ended, CleanExit
  <2> QED
    BY <2>2, <2>3 DEF Ended, CleanExit
<1>6. CASE Crash \/ Restart \/ ScriptKills
  BY <1>6 DEF Crash, Restart, ScriptKills, Ended, CleanExit
<1>7. CASE ScriptRemoves
  BY <1>7 DEF ScriptRemoves, Ended, CleanExit
<1> QED
  BY <1>2, <1>3, <1>4, <1>5, <1>6, <1>7, CgroupSteps

-------------------------------------------------------------------------------
(* Tasks *)

\* The first add of a process is into its unified cgroup, the others follow it.
LEMMA AddFollows ==
    ASSUME powered \in BOOLEAN, NEW i \in 1 .. Len(Plan), Plan[i][1] = "add",
           Plan[i][3] # <<"unified", Plan[i][2]>>
    PROVE  /\ i - 1 \in 1 .. Len(Plan)
           /\ Plan[i - 1][1] = "add" /\ Plan[i - 1][2] = Plan[i][2]
<1>1. InnerStep(i) /\ i \in Base + 1 .. Len(Plan) - 1
  <2>1. ASSUME NEW j \in 1 .. 8 PROVE RootPlan[j][1] # "add"
    <3>1. j = 1 \/ j = 2 \/ j = 3 \/ j = 4 \/ j = 5 \/ j = 6 \/ j = 7 \/ j = 8
      OBVIOUS
    <3> QED
      BY <3>1 DEF RootPlan
  <2>2. i <= 8 => i \in 1 .. 8
    OBVIOUS
  <2> QED
    BY <2>1, <2>2, PlanStep
<1>2. Base \in Nat /\ Base >= 8
  BY DEF Base
<1>3. i - 1 \in 1 .. Len(Plan)
  BY <1>1, <1>2
<1>4. PICK p \in Proc : \/ Plan[i] = <<"add", p, <<"unified", p>>>>
                        \/ /\ Plan[i] = <<"add", p, <<"freezer", p>>>>
                           /\ Plan[i - 1] = <<"add", p, <<"unified", p>>>>
                        \/ /\ Plan[i] = <<"add", p, <<"cpuset", "part">>>>
                           /\ Plan[i - 1] = <<"add", p, <<"freezer", p>>>>
  <2>1. \A d : Plan[i] # <<"mkdir", d>> /\ Plan[i] # <<"fork", d>>
    OBVIOUS
  <2>2. Plan[i] # <<"validate">>
    OBVIOUS
  <2>3. \E p \in Proc : \/ Plan[i] = <<"add", p, <<"unified", p>>>>
                        \/ /\ Plan[i] = <<"add", p, <<"freezer", p>>>>
                           /\ Plan[i - 1] = <<"add", p, <<"unified", p>>>>
                        \/ /\ Plan[i] = <<"add", p, <<"cpuset", "part">>>>
                           /\ Plan[i - 1] = <<"add", p, <<"freezer", p>>>>
    BY <1>1, <2>1, <2>2, Zenon DEF InnerStep
  <2> QED
    BY <2>3
<1>5. Plan[i] # <<"add", p, <<"unified", p>>>>
  OBVIOUS
<1> QED
  BY <1>3, <1>4, <1>5

\* A task below the roots is in the unified cgroup of a process.
LEMMA PlacedStep ==
    ASSUME HInv, Next
    PROVE  Placed'
<1> USE DEF hostVars, freqVars, objVars, histVars, Proceed, Unwind
<1>1. TypeOK /\ Objects /\ Placed
  BY DEF HInv
<1>2. powered' = powered /\ Plan' = Plan /\ powered \in BOOLEAN
  BY <1>1, SamePlan DEF Objects
<1> DEFINE In1(T, t) == \A d \in T[t] : d \in Roots \/ \E p \in Proc : <<"unified", p>> \in T[t]
           Later(i) == Plan[i][1] = "add" /\ Plan[i][3] # <<"unified", Plan[i][2]>>
<1>3. \A t \in DOMAIN tasks : In1(tasks, t)
  BY <1>1 DEF Placed
\* A step that is no add leads to none that needs a task to be placed.
<1>4. ASSUME pc' = "setup", pos' = pos + 1, pos + 1 <= Len(Plan), pos \in Nat \ {0},
             Plan[pos][1] # "add"
      PROVE  ~Later(pos')
  <2>1. pos' \in 1 .. Len(Plan) /\ pos' - 1 = pos
    <3>1. Len(Plan) \in Nat
      BY <1>2, MkdirOf
    <3> QED
      BY <1>4, <3>1
  <2> QED
    BY <1>2, <1>4, <2>1, AddFollows
<1>5. pos \in Nat \ {0} /\ (pc' = "setup" => pos' <= Len(Plan))
  BY <1>1, <1>2, TypeStep DEF TypeOK
\* What remains for a step that is no add.
<1>6. ASSUME \A t \in DOMAIN tasks' : In1(tasks', t),
             pc' # "setup" \/ ~Later(pos')
      PROVE  Placed'
  BY <1>2, <1>6 DEF Placed
<1>7. CASE ForkHelper
  <2>1. \A t \in DOMAIN tasks' : In1(tasks', t)
    BY <1>3, <1>7 DEF ForkHelper
  <2>2. pc' # "setup" \/ ~Later(pos')
    BY <1>4, <1>5, <1>7 DEF ForkHelper, At
  <2> QED
    BY <1>6, <2>1, <2>2
<1>8. CASE JoinRoot
  <2>1. <<Arg, "root">> \in Roots
    BY <1>1, <1>8, SetupStep, Levels DEF JoinRoot, At
  <2>2. \A t \in DOMAIN tasks' : In1(tasks', t)
    BY <1>3, <1>8, <2>1 DEF JoinRoot
  <2>3. pc' # "setup" \/ ~Later(pos')
    BY <1>4, <1>5, <1>8 DEF JoinRoot, At
  <2> QED
    BY <1>6, <2>2, <2>3
<1>9. CASE ForkProcess
  <2>1. \A t \in DOMAIN tasks' : In1(tasks', t)
    BY <1>3, <1>9 DEF ForkProcess
  <2>2. pc' # "setup" \/ ~Later(pos')
    BY <1>4, <1>5, <1>9 DEF ForkProcess, At
  <2> QED
    BY <1>6, <2>1, <2>2
<1>10. CASE AddProcess
  <2> DEFINE p == Plan[pos][2]
             t == <<p, instance>>
             d == Plan[pos][3]
  <2>1. At("add") /\ pc = "setup" /\ p \in Proc /\ pos \in 1 .. Len(Plan) /\ instance' = instance
    BY <1>1, <1>10, SetupStep DEF AddProcess, At, Arg
  <2>2. \/ /\ tasks' = [u \in DOMAIN tasks |-> IF u = t THEN tasks[u] \cup {d} ELSE tasks[u]]
           /\ pos' = pos + 1 /\ pc' = "setup"
        \/ tasks' = tasks /\ pc' = "unwind"
    BY <1>10, <2>1 DEF AddProcess, Arg
  <2>3. CASE tasks' = tasks /\ pc' = "unwind"
    BY <1>3, <1>6, <2>3
  <2>4. CASE /\ tasks' = [u \in DOMAIN tasks |-> IF u = t THEN tasks[u] \cup {d} ELSE tasks[u]]
             /\ pos' = pos + 1 /\ pc' = "setup"
    <3>1. t \in DOMAIN tasks => <<"unified", p>> \in tasks'[t]
      <4>1. CASE d = <<"unified", p>>
        BY <2>4, <4>1
      <4>2. CASE d # <<"unified", p>>
        BY <1>1, <2>1, <2>4, <4>2 DEF Placed, At
      <4> QED
        BY <4>1, <4>2
    <3>2. \A u \in DOMAIN tasks' : In1(tasks', u)
      BY <1>3, <2>1, <2>4, <3>1
    <3>3. Later(pos') => Plan[pos'][2] = p
      <4>1. pos' \in 1 .. Len(Plan) /\ pos' - 1 = pos
        <5>1. Len(Plan) \in Nat
          BY <1>2, MkdirOf
        <5> QED
          BY <1>5, <2>4, <5>1
      <4> QED
        BY <1>2, <4>1, AddFollows
    <3>4. Later(pos') => LET u == <<Plan[pos'][2], instance>>
                         IN  u \in DOMAIN tasks' => <<"unified", Plan[pos'][2]>> \in tasks'[u]
      BY <2>4, <3>1, <3>3
    <3> QED
      BY <1>2, <2>1, <3>2, <3>4 DEF Placed
  <2> QED
    BY <2>2, <2>3, <2>4
<1>11. ASSUME NEW t \in DOMAIN tasks, TaskEnds(t) PROVE Placed'
  <2>1. /\ tasks' = [u \in DOMAIN tasks \ {t} |-> tasks[u]]
        /\ UNCHANGED <<pc, pos, instance>>
    BY <1>11 DEF TaskEnds
  <2> QED
    BY <1>1, <1>2, <2>1 DEF Placed
\* The other steps leave the tasks alone.
<1>12. CASE MakeRoot \/ RootsChecked \/ SetupPstate \/ PoliciesDone \/ ManagerBuilt
            \/ MakeInner \/ ValidateConfig \/ Run
  <2>1. tasks' = tasks /\ (pc' = "setup" => pos' = pos + 1 /\ Plan[pos][1] # "add")
    BY <1>12 DEF MakeRoot, RootsChecked, SetupPstate, PoliciesDone, ManagerBuilt, MakeInner,
          ValidateConfig, Run, At
  <2> QED
    BY <1>3, <1>4, <1>5, <1>6, <2>1
<1>13. ASSUME NEW c \in Cluster, SetupPolicy(c) PROVE Placed'
  <2>1. tasks' = tasks /\ (pc' = "setup" => pos' = pos /\ Plan[pos][1] # "add")
    BY <1>13 DEF SetupPolicy, At
  <2> QED
    BY <1>3, <1>6, <2>1
<1>14. CASE (\E e \in owned : Destroy(e)) \/ ExitMain \/ Crash \/ ScriptKills \/ ScriptRemoves
            \/ ScriptResets
  <2>1. tasks' = tasks /\ pc' # "setup"
    BY <1>14 DEF Destroy, ExitMain, Crash, ScriptKills, ScriptRemoves, ScriptResets
  <2> QED
    BY <1>3, <1>6, <2>1
<1>15. CASE Restart
  <2>1. tasks' = tasks /\ pos' = 1
    BY <1>15 DEF Restart
  <2>2. Plan[1][1] = "helper"
    BY <1>2, PlanParts DEF RootPlan
  <2> QED
    BY <1>3, <1>6, <2>1, <2>2
<1> QED
  BY <1>7, <1>8, <1>9, <1>10, <1>11, <1>12, <1>13, <1>14, <1>15 DEF Next, MainStep

-------------------------------------------------------------------------------
(* Frequency scaling *)

\* A step that leaves the cpufreq policies, the PowerManager and its objects alone.
FreqQuiet ==
    /\ UNCHANGED <<freqVars, original, abandoned, before>>
    /\ owned' \cap FreqEntry = owned \cap FreqEntry
    /\ \/ UNCHANGED <<pc, pos, status, original_intel_pstate_status>>
       \/ /\ pc = "setup" /\ pc' = "setup" /\ pos' = pos + 1
          /\ ~(powered /\ pos \in {9, 11})
          /\ UNCHANGED <<status, original_intel_pstate_status>>
       \/ /\ pc = "setup" /\ pc' = "unwind" /\ UNCHANGED original_intel_pstate_status
          /\ UNCHANGED pos /\ ~(powered /\ pos \in {10, 11})
       \/ /\ pc = "unwind" /\ pc' = "exited" /\ owned = {} /\ UNCHANGED <<pos, status>>
          /\ original_intel_pstate_status' = "none"

\* The steps that remain to be looked at.
LEMMA FreqSteps ==
    ASSUME HInv, Next
    PROVE  \/ FreqQuiet \/ SetupPstate \/ ManagerBuilt
           \/ \E c \in Cluster : SetupPolicy(c)
           \/ Destroy(<<"manager">>)
           \/ \E c \in Cluster : <<"policy", c>> \in owned /\ Destroy(<<"policy", c>>)
           \/ Crash \/ Restart \/ ScriptKills
           \/ ScriptRemoves \/ ScriptResets
<1> USE DEF hostVars, freqVars, objVars, histVars, Proceed, Unwind
<1>1. TypeOK /\ Objects /\ Made
  BY DEF HInv
<1>2. ASSUME NEW kind, At(kind), kind \notin {"pstate", "manager"}
      PROVE  /\ ~(powered /\ pos \in {9, 11}) /\ pc = "setup"
             /\ kind # "policies" => ~(powered /\ pos \in {10, 11})
  BY <1>1, <1>2, SetupStep DEF At
<1>3. CASE ForkHelper
  BY <1>2, <1>3 DEF ForkHelper, FreqQuiet, At
<1>4. CASE MakeRoot
  <2>1. <<Arg, "root">> \notin FreqEntry
    BY <1>1, <1>4, SetupStep, Levels DEF MakeRoot, At, Dir
  <2>2. owned' \cap FreqEntry = owned \cap FreqEntry
    BY <1>4, <2>1 DEF MakeRoot, OwnRoot
  <2> QED
    BY <1>2, <1>4, <2>2 DEF MakeRoot, FreqQuiet, At
<1>5. CASE JoinRoot \/ RootsChecked
  BY <1>2, <1>5 DEF JoinRoot, RootsChecked, FreqQuiet, At
<1>6. CASE PoliciesDone
  BY <1>2, <1>6 DEF PoliciesDone, FreqQuiet, At
<1>7. CASE MakeInner
  <2>1. Arg \notin FreqEntry
    BY <1>1, <1>7, ArgOfMkdir, Levels DEF MakeInner, Dir
  <2>2. owned' \cap FreqEntry = owned \cap FreqEntry
    BY <1>7, <2>1 DEF MakeInner
  <2> QED
    BY <1>2, <1>7, <2>2 DEF MakeInner, FreqQuiet, At
<1>8. CASE ValidateConfig \/ ForkProcess \/ AddProcess
  BY <1>2, <1>8 DEF ValidateConfig, ForkProcess, AddProcess, FreqQuiet, At
<1>9. CASE Run
  BY <1>2, <1>9 DEF Run, FreqQuiet, At
<1>10. ASSUME NEW e \in owned, Destroy(e)
       PROVE  \/ FreqQuiet \/ Destroy(<<"manager">>)
              \/ \E c \in Cluster : <<"policy", c>> \in owned /\ Destroy(<<"policy", c>>)
  <2>1. CASE e \in Dir
    <3>1. e \notin FreqEntry /\ e # <<"manager">> /\ e[1] # "policy"
      BY <2>1, Levels DEF Hierarchy
    <3> QED
      BY <1>10, <3>1 DEF Destroy, FreqQuiet
  <2>2. CASE e \in FreqEntry
    BY <1>10, <2>2 DEF FreqEntry
  <2> QED
    BY <1>1, <2>1, <2>2 DEF TypeOK
<1>11. CASE ExitMain
  BY <1>11 DEF ExitMain, FreqQuiet
<1>12. ASSUME NEW t \in DOMAIN tasks, TaskEnds(t) PROVE FreqQuiet
  BY <1>12 DEF TaskEnds, FreqQuiet
<1> QED
  BY <1>3, <1>4, <1>5, <1>6, <1>7, <1>8, <1>9, <1>10, <1>11, <1>12 DEF Next, MainStep

\* Unless intel_pstate was active, what was found can be restored.
LEMMA FrequenciesStep ==
    ASSUME HInv, Next
    PROVE  Frequencies'
<1> USE DEF hostVars, freqVars, objVars, histVars, Proceed, Unwind
<1>1. TypeOK /\ Objects /\ Frequencies
  BY DEF HInv
<1>2. /\ gov \in [Cluster -> Governor] /\ DOMAIN max_freq = Cluster
      /\ \A c \in Cluster : gov[c] \in Supported(c, pstate)
  BY <1>1 DEF TypeOK, Frequencies
<1> DEFINE Active == pc \in {"setup", "unwind", "exited"} /\ before.pstate # "active"
<1>3. Active => /\ pstate = before.pstate
                /\ original_intel_pstate_status # "active"
                /\ \A c \in Cluster : before.gov[c] \in Supported(c, before.pstate) /\ AsFound(c)
  BY <1>1 DEF Frequencies
<1>4. pc = "setup" => abandoned = {}
  BY <1>1 DEF Frequencies
<1>5. CASE FreqQuiet
  <2>1. UNCHANGED <<gov, max_freq, pstate, original, abandoned, before>>
    BY <1>5 DEF FreqQuiet
  <2>2. Active' => Active
    BY <1>5, <2>1 DEF FreqQuiet
  <2>3. /\ original_intel_pstate_status' \in {original_intel_pstate_status, "none"}
        /\ pc' = "setup" => pc = "setup"
    BY <1>5 DEF FreqQuiet
  <2>4. \A c \in Cluster : AsFound(c)' <=> AsFound(c)
    BY <2>1 DEF AsFound
  <2> QED
    BY <1>2, <1>3, <1>4, <2>1, <2>2, <2>3, <2>4 DEF Frequencies
<1>6. CASE SetupPstate
  <2>1. \A c \in Cluster : gov'[c] \in Supported(c, pstate')
    BY <1>2, <1>6, SwitchDoes DEF SetupPstate
  <2>2. UNCHANGED <<max_freq, original, abandoned, before>> /\ pc = "setup" /\ pc' \in {"setup", "unwind"}
    BY <1>6 DEF SetupPstate, At
  <2>3. Active => UNCHANGED <<gov, pstate>> /\ original_intel_pstate_status' # "active"
    BY <1>3, <1>6 DEF SetupPstate
  <2>4. Active => \A c \in Cluster : AsFound(c)' <=> AsFound(c)
    BY <2>2, <2>3 DEF AsFound
  <2> QED
    BY <1>2, <1>3, <1>4, <2>1, <2>2, <2>3, <2>4 DEF Frequencies
<1>7. CASE ManagerBuilt
  <2>1. /\ UNCHANGED <<gov, max_freq, pstate, original, abandoned, before, original_intel_pstate_status>>
        /\ pc = "setup" /\ pc' \in {"setup", "unwind"}
    BY <1>7 DEF ManagerBuilt, At
  <2>2. \A c \in Cluster : AsFound(c)' <=> AsFound(c)
    BY <2>1 DEF AsFound
  <2> QED
    BY <1>2, <1>3, <1>4, <2>1, <2>2 DEF Frequencies
<1>8. ASSUME NEW c \in Cluster, SetupPolicy(c) PROVE Frequencies'
  <2>1. /\ pc = "setup" /\ pc' \in {"setup", "unwind"} /\ c \notin DOMAIN original
        /\ UNCHANGED <<pstate, before, original_intel_pstate_status>>
    BY <1>8 DEF SetupPolicy, At
  <2> DEFINE g == GovernorAfter(c, "userspace", gov[c])
  <2>2. CASE /\ gov' = [gov EXCEPT ![c] = g]
             /\ max_freq' = [max_freq EXCEPT ![c] = "full"]
             /\ original' = [d \in DOMAIN original \cup {c} |->
                                IF d = c THEN [gov |-> gov[c], max |-> max_freq[c]]
                                ELSE original[d]]
             /\ UNCHANGED <<pc, abandoned>>
    <3>1. /\ \A d \in Cluster : gov'[d] \in Supported(d, pstate')
          /\ \A d \in Cluster \ {c} : gov'[d] = gov[d] /\ max_freq'[d] = max_freq[d]
          /\ gov'[c] = g
      BY <1>2, <2>1, <2>2, GovernorDoes
    <3>2. ASSUME Active, NEW d \in Cluster PROVE AsFound(d)'
      <4>1. CASE d = c
        <5>1. gov[c] = before.gov[c] /\ max_freq[c] = before.max[c]
          BY <1>3, <1>4, <2>1, <3>2 DEF AsFound
        <5>2. c \in DOMAIN original' /\ original'[c] = [gov |-> gov[c], max |-> max_freq[c]]
          BY <2>2
        <5>3. c \notin ActiveClusters \/ gov[c] = "userspace" => g = gov[c]
          BY DEF GovernorAfter
        <5> QED
          BY <2>1, <3>1, <4>1, <5>1, <5>2, <5>3 DEF AsFound
      <4>2. CASE d # c
        <5>1. AsFound(d)
          BY <1>3, <3>2
        <5>2. (d \in DOMAIN original' <=> d \in DOMAIN original)
              /\ (d \in DOMAIN original => original'[d] = original[d])
          BY <2>2, <4>2
        <5> QED
          BY <2>1, <2>2, <3>1, <4>2, <5>1, <5>2 DEF AsFound
      <4> QED
        BY <4>1, <4>2
    <3>3. DOMAIN max_freq' = Cluster
      BY <1>2, <2>2
    <3> QED
      BY <1>3, <1>4, <2>1, <2>2, <3>1, <3>2, <3>3 DEF Frequencies
  <2>3. CASE /\ gov' = [gov EXCEPT ![c] = g]
             /\ max_freq' \in {max_freq, [max_freq EXCEPT ![c] = "full"]}
             /\ abandoned' = {c}
             /\ pc' = "unwind" /\ original' = original
    <3>1. /\ \A d \in Cluster : gov'[d] \in Supported(d, pstate')
          /\ \A d \in Cluster \ {c} : gov'[d] = gov[d] /\ max_freq'[d] = max_freq[d]
      BY <1>2, <2>1, <2>3, GovernorDoes
    <3>2. ASSUME Active, NEW d \in Cluster PROVE AsFound(d)'
      <4>1. CASE d = c
        BY <2>1, <2>3, <4>1 DEF AsFound
      <4>2. CASE d # c
        BY <1>3, <1>4, <2>1, <2>3, <3>1, <3>2, <4>2 DEF AsFound
      <4> QED
        BY <4>1, <4>2
    <3>3. DOMAIN max_freq' = Cluster
      BY <1>2, <2>3
    <3> QED
      BY <1>3, <2>1, <2>3, <3>1, <3>2, <3>3 DEF Frequencies
  <2>4. CASE pc' = "unwind" /\ UNCHANGED <<gov, max_freq, original, abandoned>>
    <3>1. \A d \in Cluster : AsFound(d)' <=> AsFound(d)
      BY <2>1, <2>4 DEF AsFound
    <3> QED
      BY <1>2, <1>3, <2>1, <2>4, <3>1 DEF Frequencies
  <2> QED
    BY <1>8, <2>2, <2>3, <2>4 DEF SetupPolicy
<1>9. CASE Destroy(<<"manager">>)
  <2>1. /\ pc = "unwind" /\ UNCHANGED <<pc, max_freq, original, abandoned, before, original_intel_pstate_status>>
        /\ DestroyManager
    <3>1. <<"manager">>[1] # "policy" /\ <<"manager">> \notin Roots \cup Parts \cup Leaves
      BY Levels DEF Dir
    <3> QED
      BY <1>9, <3>1 DEF Destroy
  <2>2. \A c \in Cluster : gov'[c] \in Supported(c, pstate')
    BY <1>2, <2>1, SwitchDoes DEF DestroyManager
  <2>3. Active => UNCHANGED <<gov, pstate>>
    BY <1>3, <2>1 DEF DestroyManager
  <2>4. Active => \A c \in Cluster : AsFound(c)' <=> AsFound(c)
    BY <2>1, <2>3 DEF AsFound
  <2> QED
    BY <1>2, <1>3, <2>1, <2>2, <2>3, <2>4 DEF Frequencies
<1>10. ASSUME NEW c \in Cluster, <<"policy", c>> \in owned, Destroy(<<"policy", c>>)
       PROVE  Frequencies'
  <2>1. /\ pc = "unwind" /\ UNCHANGED <<pc, pstate, abandoned, before, original_intel_pstate_status>>
        /\ DestroyPolicy(c)
        /\ original' = [d \in DOMAIN original \ {c} |-> original[d]]
    <3>1. /\ <<"policy", c>> # <<"manager">> /\ <<"policy", c>>[1] = "policy" /\ <<"policy", c>>[2] = c
          /\ <<"policy", c>> \notin Roots \cup Parts \cup Leaves
      BY Levels DEF Dir, FreqEntry
    <3> QED
      BY <1>10, <3>1 DEF Destroy
  <2> DEFINE current == IF c \in ActiveClusters THEN "userspace" ELSE original[c].gov
             g == GovernorAfter(c, original[c].gov, current)
  <2>2. /\ max_freq' = [max_freq EXCEPT ![c] = original[c].max]
        /\ gov' = [gov EXCEPT ![c] = g]
    BY <2>1 DEF DestroyPolicy
  <2>3. /\ \A d \in Cluster : gov'[d] \in Supported(d, pstate')
        /\ \A d \in Cluster \ {c} : gov'[d] = gov[d] /\ max_freq'[d] = max_freq[d]
        /\ gov'[c] = g /\ max_freq'[c] = original[c].max
    BY <1>2, <2>1, <2>2, GovernorDoes
  <2>4. c \in DOMAIN original
    BY <1>1, <1>10 DEF TypeOK
  <2>5. ASSUME Active, NEW d \in Cluster PROVE AsFound(d)'
    <3>1. CASE d = c
      <4>1. /\ original[c].gov = before.gov[c] /\ original[c].max = before.max[c]
            /\ c \notin ActiveClusters \/ before.gov[c] = "userspace" => gov[c] = before.gov[c]
        BY <1>3, <2>4, <2>5 DEF AsFound
      <4>2. before.gov[c] \in Supported(c, pstate)
        BY <1>3, <2>5
      <4>3. g = before.gov[c]
        BY <4>1, <4>2 DEF GovernorAfter
      <4>4. c \notin DOMAIN original'
        BY <2>1
      <4> QED
        BY <2>1, <2>3, <3>1, <4>1, <4>3, <4>4 DEF AsFound
    <3>2. CASE d # c
      <4>1. AsFound(d)
        BY <1>3, <2>5
      <4>2. (d \in DOMAIN original' <=> d \in DOMAIN original)
            /\ (d \in DOMAIN original => original'[d] = original[d])
        BY <2>1, <3>2
      <4> QED
        BY <2>1, <2>3, <3>2, <4>1, <4>2 DEF AsFound
    <3> QED
      BY <3>1, <3>2
  <2>6. DOMAIN max_freq' = Cluster
    BY <1>2, <2>2
  <2> QED
    BY <1>3, <2>1, <2>3, <2>5, <2>6 DEF Frequencies
<1>11. CASE Crash \/ ScriptKills \/ ScriptRemoves
  <2>1. UNCHANGED <<gov, max_freq, pstate>> /\ pc' \notin {"setup", "unwind", "exited"}
    BY <1>11 DEF Crash, ScriptKills, ScriptRemoves
  <2> QED
    BY <1>2, <2>1 DEF Frequencies
<1>12. CASE Restart
  <2>1. /\ UNCHANGED <<gov, max_freq, pstate, original, original_intel_pstate_status>>
        /\ abandoned' = {}
        /\ before'.gov = gov /\ before'.max = max_freq /\ before'.pstate = pstate
        /\ owned = {} /\ original_intel_pstate_status = "none"
    BY <1>1, <1>12 DEF Restart, Objects
  <2>2. DOMAIN original = {}
    BY <1>1, <2>1 DEF TypeOK
  <2> QED
    BY <1>2, <2>1, <2>2 DEF Frequencies, AsFound
<1>13. CASE ScriptResets
  <2>1. pc' = "cleaned" /\ max_freq' = max_freq
    BY <1>13 DEF ScriptResets
  <2>2. \A c \in Cluster : gov'[c] \in Supported(c, pstate')
    <3>1. CASE SwitchPstate("active")
      BY <1>2, <3>1, SwitchDoes
    <3>2. CASE /\ pstate = "none" /\ pstate' = pstate
               /\ gov' = [c \in Cluster |-> IF c \in ActiveClusters THEN "schedutil" ELSE gov[c]]
      BY <1>2, <3>2 DEF Supported, Governor
    <3> QED
      BY <1>13, <3>1, <3>2 DEF ScriptResets
  <2> QED
    BY <1>2, <2>1, <2>2 DEF Frequencies
<1> QED
  BY <1>5, <1>6, <1>7, <1>8, <1>9, <1>10, <1>11, <1>12, <1>13, FreqSteps

\* An active intel_pstate driver is switched back if the PowerManager was completed.
LEMMA SwitchedStep ==
    ASSUME HInv, Next
    PROVE  Switched'
<1> USE DEF hostVars, freqVars, objVars, histVars, Proceed, Unwind
<1>1. TypeOK /\ Objects /\ Frequencies /\ Switched /\ powered' = powered
  BY SamePlan DEF HInv
<1>2. <<"manager">> \in FreqEntry /\ \A c \in Cluster : <<"policy", c>> # <<"manager">>
  BY DEF FreqEntry
<1>3. pos \in Nat \ {0}
  BY <1>1 DEF TypeOK
<1>4. CASE FreqQuiet
  <2>1. /\ <<"manager">> \in owned' <=> <<"manager">> \in owned
        /\ UNCHANGED <<pstate, before>>
    BY <1>2, <1>4 DEF FreqQuiet
  <2>2. CASE UNCHANGED <<pc, pos, status, original_intel_pstate_status>>
    BY <1>1, <2>1, <2>2 DEF Switched
  <2>3. CASE /\ pc = "setup" /\ pc' = "setup" /\ pos' = pos + 1
             /\ ~(powered /\ pos \in {9, 11})
             /\ UNCHANGED <<status, original_intel_pstate_status>>
    <3>1. powered /\ pos' \in {10, 11} => pos = 10
      BY <1>3, <2>3
    <3>2. powered /\ pos \in {10, 11} => pos' = 11
      BY <1>3, <2>3
    <3>3. pos' =< 9 => pos =< 9
      BY <1>3, <2>3
    <3> QED
      BY <1>1, <2>1, <2>3, <3>1, <3>2, <3>3 DEF Switched
  <2>4. CASE /\ pc = "setup" /\ pc' = "unwind" /\ UNCHANGED original_intel_pstate_status
             /\ UNCHANGED pos /\ ~(powered /\ pos \in {10, 11})
    BY <1>1, <2>1, <2>4 DEF Switched
  <2>5. CASE pc = "unwind" /\ pc' = "exited" /\ owned = {} /\ UNCHANGED <<pos, status>>
    BY <1>1, <2>1, <2>5 DEF Switched
  <2> QED
    BY <1>4, <2>2, <2>3, <2>4, <2>5 DEF FreqQuiet
<1>5. CASE SetupPstate
  <2>1. pc = "setup" /\ powered /\ pos = 9 /\ UNCHANGED <<owned, before>>
    BY <1>1, <1>5, SetupStep DEF SetupPstate, At
  <2>2. before.pstate = "active" => pstate = "active"
    BY <1>1, <2>1 DEF Switched
  <2> QED
    BY <1>1, <1>5, <2>1, <2>2 DEF SetupPstate, Switched
<1>6. CASE ManagerBuilt
  <2>1. pc = "setup" /\ powered /\ pos = 11 /\ <<"manager">> \in owned'
        /\ UNCHANGED <<pstate, before, original_intel_pstate_status>>
        /\ (pc' = "setup" => pos' = pos + 1)
    BY <1>1, <1>6, SetupStep DEF ManagerBuilt, At
  <2> QED
    BY <1>1, <2>1 DEF Switched
<1>7. ASSUME NEW c \in Cluster, SetupPolicy(c) PROVE Switched'
  <2>1. /\ pc = "setup" /\ powered /\ pos = 10 /\ pos' = pos
        /\ pc' \in {"setup", "unwind"}
        /\ UNCHANGED <<pstate, before, original_intel_pstate_status>>
        /\ owned' = owned \/ owned' = owned \cup {<<"policy", c>>}
    BY <1>1, <1>7, SetupStep DEF SetupPolicy, At
  <2>2. <<"manager">> \in owned' <=> <<"manager">> \in owned
    BY <1>2, <2>1
  <2> QED
    BY <1>1, <2>1, <2>2 DEF Switched
<1>8. CASE Destroy(<<"manager">>)
  <2>1. /\ pc = "unwind" /\ UNCHANGED <<pc, before, original_intel_pstate_status>>
        /\ DestroyManager /\ <<"manager">> \in owned /\ owned' = owned \ {<<"manager">>}
    <3>1. <<"manager">>[1] # "policy" /\ <<"manager">> \notin Roots \cup Parts \cup Leaves
      BY Levels DEF Dir
    <3> QED
      BY <1>8, <3>1 DEF Destroy
  <2>2. before.pstate = "active" => pstate' = "active"
    BY <1>1, <2>1, SwitchDoes DEF DestroyManager, Switched, TypeOK, Frequencies
  <2> QED
    BY <1>1, <2>1, <2>2 DEF Switched
<1>9. ASSUME NEW c \in Cluster, Destroy(<<"policy", c>>) PROVE Switched'
  <2>1. /\ pc = "unwind" /\ UNCHANGED <<pc, pos, pstate, before, original_intel_pstate_status>>
        /\ owned' = owned \ {<<"policy", c>>}
    <3>1. /\ <<"policy", c>> # <<"manager">> /\ <<"policy", c>>[1] = "policy" /\ <<"policy", c>>[2] = c
          /\ <<"policy", c>> \notin Roots \cup Parts \cup Leaves
      BY Levels DEF Dir, FreqEntry
    <3> QED
      BY <1>9, <3>1 DEF Destroy
  <2>2. <<"manager">> \in owned' <=> <<"manager">> \in owned
    BY <1>2, <2>1
  <2> QED
    BY <1>1, <2>1, <2>2 DEF Switched
<1>10. CASE Crash \/ ScriptKills \/ ScriptRemoves \/ ScriptResets
  <2>1. owned' = {} /\ pc' \notin {"setup", "unwind", "exited"}
    BY <1>1, <1>10 DEF Crash, ScriptKills, ScriptRemoves, ScriptResets, Objects
  <2> QED
    BY <2>1 DEF Switched
<1>11. CASE Restart
  <2>1. owned' = {} /\ pos' = 1 /\ before'.pstate = pstate /\ pstate' = pstate
    BY <1>1, <1>11 DEF Restart, Objects
  <2> QED
    BY <2>1 DEF Switched
<1> QED
  BY <1>4, <1>5, <1>6, <1>7, <1>8, <1>9, <1>10, <1>11, FreqSteps

\* Each scaling_max_freq stays restorable.
LEMMA CappedStep ==
    ASSUME HInv, Next
    PROVE  Capped'
<1> USE DEF hostVars, freqVars, objVars, histVars, Proceed, Unwind
<1>1. /\ TypeOK /\ Objects /\ Capped /\ DOMAIN max_freq = Cluster
      /\ pc = "setup" => abandoned = {}
  BY DEF HInv, Frequencies
<1> DEFINE Lives == pc \in {"setup", "unwind", "exited"}
<1>2. Lives => \A c \in Cluster : MaxAsFound(c)
  BY <1>1 DEF Capped
<1>3. CASE FreqQuiet \/ SetupPstate \/ ManagerBuilt \/ Destroy(<<"manager">>)
  <2>1. UNCHANGED <<max_freq, original, abandoned, before>>
    <3>1. <<"manager">>[1] # "policy" /\ <<"manager">> \notin Roots \cup Parts \cup Leaves
      BY Levels DEF Dir
    <3> QED
      BY <1>3, <3>1 DEF FreqQuiet, SetupPstate, ManagerBuilt, Destroy
  <2>2. Lives' => Lives
    BY <1>3 DEF FreqQuiet, SetupPstate, ManagerBuilt, Destroy, At
  <2>3. \A c \in Cluster : MaxAsFound(c)' <=> MaxAsFound(c)
    BY <2>1 DEF MaxAsFound
  <2> QED
    BY <1>2, <2>2, <2>3 DEF Capped
<1>4. ASSUME NEW c \in Cluster, SetupPolicy(c) PROVE Capped'
  <2>1. pc = "setup" /\ c \notin DOMAIN original /\ before' = before /\ abandoned = {}
    BY <1>1, <1>4 DEF SetupPolicy, At
  <2>2. ASSUME NEW d \in Cluster PROVE MaxAsFound(d)'
    <3>1. MaxAsFound(d) /\ max_freq[c] = before.max[c]
      BY <1>2, <2>1 DEF MaxAsFound
    <3>2. CASE /\ max_freq' = [max_freq EXCEPT ![c] = "full"]
               /\ original' = [e \in DOMAIN original \cup {c} |->
                                  IF e = c THEN [gov |-> gov[c], max |-> max_freq[c]]
                                  ELSE original[e]]
               /\ abandoned' = abandoned
      <4>1. CASE d = c
        BY <2>1, <3>1, <3>2, <4>1 DEF MaxAsFound
      <4>2. CASE d # c
        <5>1. /\ d \in DOMAIN original' <=> d \in DOMAIN original
              /\ d \in DOMAIN original => original'[d] = original[d]
              /\ max_freq'[d] = max_freq[d]
          BY <1>1, <3>2, <4>2
        <5> QED
          BY <2>1, <3>1, <3>2, <5>1 DEF MaxAsFound
      <4> QED
        BY <4>1, <4>2
    <3>3. CASE /\ max_freq' \in {max_freq, [max_freq EXCEPT ![c] = "full"]}
               /\ abandoned' = {c} /\ original' = original
      BY <1>1, <2>1, <3>1, <3>3 DEF MaxAsFound
    <3>4. CASE UNCHANGED <<max_freq, original, abandoned>>
      BY <2>1, <3>1, <3>4 DEF MaxAsFound
    <3> QED
      BY <1>4, <3>2, <3>3, <3>4 DEF SetupPolicy
  <2> QED
    BY <2>2 DEF Capped
<1>5. ASSUME NEW c \in Cluster, <<"policy", c>> \in owned, Destroy(<<"policy", c>>)
      PROVE  Capped'
  <2>1. /\ pc = "unwind" /\ UNCHANGED <<abandoned, before>>
        /\ DestroyPolicy(c)
        /\ original' = [d \in DOMAIN original \ {c} |-> original[d]]
    <3>1. /\ <<"policy", c>> # <<"manager">> /\ <<"policy", c>>[1] = "policy" /\ <<"policy", c>>[2] = c
          /\ <<"policy", c>> \notin Roots \cup Parts \cup Leaves
      BY Levels DEF Dir, FreqEntry
    <3> QED
      BY <1>5, <3>1 DEF Destroy
  <2>2. c \in DOMAIN original /\ max_freq' = [max_freq EXCEPT ![c] = original[c].max]
    BY <1>1, <1>5, <2>1 DEF TypeOK, DestroyPolicy
  <2>3. ASSUME NEW d \in Cluster PROVE MaxAsFound(d)'
    <3>1. MaxAsFound(d) /\ MaxAsFound(c)
      BY <1>2, <2>1
    <3>2. CASE d = c
      BY <1>1, <2>1, <2>2, <3>1, <3>2 DEF MaxAsFound
    <3>3. CASE d # c
      <4>1. /\ d \in DOMAIN original' <=> d \in DOMAIN original
            /\ d \in DOMAIN original => original'[d] = original[d]
            /\ max_freq'[d] = max_freq[d]
        BY <1>1, <2>1, <2>2, <3>3
      <4> QED
        BY <2>1, <3>1, <4>1 DEF MaxAsFound
    <3> QED
      BY <3>2, <3>3
  <2> QED
    BY <2>3 DEF Capped
<1>6. CASE Crash \/ ScriptKills \/ ScriptRemoves \/ ScriptResets
  <2>1. pc' \in {"crashed", "killed", "cleaned"}
    BY <1>6 DEF Crash, ScriptKills, ScriptRemoves, ScriptResets
  <2> QED
    BY <2>1 DEF Capped
<1>7. CASE Restart
  <2>1. owned = {} /\ UNCHANGED <<max_freq, original>> /\ before'.max = max_freq
    BY <1>1, <1>7 DEF Restart, Objects
  <2>2. DOMAIN original = {}
    BY <1>1, <2>1 DEF TypeOK
  <2> QED
    BY <2>1, <2>2 DEF Capped, MaxAsFound
<1> QED
  BY <1>3, <1>4, <1>5, <1>6, <1>7, FreqSteps

-------------------------------------------------------------------------------
(* The tasks that cleanup_crash.sh finds *)

\* What follows the fork() of a process in the plan, and the move into its
\* unified cgroup.
LEMMA MovesFollow ==
    ASSUME powered \in BOOLEAN, NEW i \in 1 .. Len(Plan), i + 1 =< Len(Plan), NEW p,
           \/ Plan[i] = <<"fork", p>>
           \/ Plan[i] = <<"add", p, <<"unified", p>>>>
    PROVE  Moves(i + 1, p)
<1> DEFINE n == Len(Processes)
<1>1. n \in Nat /\ Base \in Nat /\ Base >= 8 /\ Len(Plan) = Base + 6 * n + 5
  BY ProcessesLen, PlanParts DEF Base
<1>2. i > Base + 2 * n + 4 /\ i < Len(Plan)
  <2>1. CASE i <= 8
    <3>1. Plan[i] = RootPlan[i] /\ i \in {1, 2, 3, 4, 5, 6, 7, 8}
      BY <2>1, PlanParts
    <3> QED
      BY <3>1 DEF RootPlan
  <2>2. CASE i > 8 /\ i <= Base
    <3>1. powered /\ Base = 11 /\ i \in {9, 10, 11}
      BY <1>1, <2>2 DEF Base
    <3>2. Plan[8 + 1] = PowerPlan[1] /\ Plan[8 + 2] = PowerPlan[2] /\ Plan[8 + 3] = PowerPlan[3]
      BY <3>1, PlanParts
    <3> QED
      BY <3>1, <3>2 DEF PowerPlan
  <2>3. CASE i > Base /\ i <= Base + 2 * n + 4
    <3>1. PICK k \in 1 .. 2 * n + 4 : i = Base + k
      <4>1. i - Base \in 1 .. 2 * n + 4 /\ i = Base + (i - Base)
        BY <1>1, <2>3
      <4> QED
        BY <4>1
    <3>2. Plan[i] = TreePlan[k]
      BY <3>1, PlanParts
    <3>3. TreePlan[k][1] \in {"mkdir", "validate"}
      <4>1. CASE k \in {1, 2, 3}
        BY <4>1, TreePlanAt
      <4>2. CASE k \in 4 .. 2 * n + 3
        <5>1. k - 3 \in 1 .. 2 * n /\ 3 + (k - 3) = k
          BY <1>1, <4>2
        <5>2. TreePlan[k] = Mkdirs[k - 3]
          BY <5>1, TreePlanAt
        <5> QED
          BY <5>1, <5>2 DEF Mkdirs
      <4>3. CASE k = 2 * n + 4
        BY <4>3, TreePlanAt
      <4> QED
        BY <1>1, <4>1, <4>2, <4>3
    <3> QED
      BY <3>2, <3>3
  <2>4. i < Len(Plan)
    BY <1>1
  <2> QED
    BY <1>1, <2>1, <2>2, <2>3, <2>4
<1>3. PICK k \in 1 .. 4 * n : i = Base + 2 * n + 4 + k
  <2>1. i - Base - 2 * n - 4 \in 1 .. 4 * n /\ i = Base + 2 * n + 4 + (i - Base - 2 * n - 4)
    BY <1>1, <1>2
  <2> QED
    BY <2>1
<1>4. Plan[i] = SpawnPlan[k]
  BY <1>3, PlanParts
<1>5. PICK a \in 1 .. n : k = 4 * a - 3 \/ k = 4 * a - 2 \/ k = 4 * a - 1 \/ k = 4 * a
  BY OfProcess
<1> DEFINE q == Processes[a]
<1>6. q \in Proc
  BY PerProcess
<1>7. CASE k = 4 * a - 3
  <2>1. Plan[i] = <<"fork", q>>
    BY <1>4, <1>7, PerProcess
  <2>2. k + 1 \in 1 .. 4 * n /\ i + 1 = Base + 2 * n + 4 + (k + 1) /\ k + 1 = 4 * a - 2
    BY <1>1, <1>3, <1>7
  <2>3. Plan[i + 1] = <<"add", q, <<"unified", q>>>>
    <3>1. SpawnPlan[k + 1] = <<"add", q, <<"unified", q>>>>
      BY <2>2, PerProcess
    <3>2. PICK j \in 1 .. 4 * n : j = k + 1
      BY <2>2
    <3>3. Plan[Base + 2 * n + 4 + j] = SpawnPlan[j]
      BY PlanParts
    <3> QED
      BY <2>2, <3>1, <3>2, <3>3
  <2>4. p = q
    BY <2>1
  <2> QED
    BY <2>3, <2>4 DEF Moves
<1>8. CASE k = 4 * a - 2
  <2>1. Plan[i] = <<"add", q, <<"unified", q>>>>
    BY <1>4, <1>8, PerProcess
  <2>2. k + 1 \in 1 .. 4 * n /\ i + 1 = Base + 2 * n + 4 + (k + 1) /\ k + 1 = 4 * a - 1
    BY <1>1, <1>3, <1>8
  <2>3. Plan[i + 1] = <<"add", q, <<"freezer", q>>>>
    <3>1. SpawnPlan[k + 1] = <<"add", q, <<"freezer", q>>>>
      BY <2>2, PerProcess
    <3>2. PICK j \in 1 .. 4 * n : j = k + 1
      BY <2>2
    <3>3. Plan[Base + 2 * n + 4 + j] = SpawnPlan[j]
      BY PlanParts
    <3> QED
      BY <2>2, <3>1, <3>2, <3>3
  <2>4. p = q
    BY <2>1
  <2> QED
    BY <2>3, <2>4 DEF Moves
<1>9. CASE k = 4 * a - 1 \/ k = 4 * a
  <2>1. Plan[i] = <<"add", q, <<"freezer", q>>>> \/ Plan[i] = <<"add", q, <<"cpuset", "part">>>>
    BY <1>4, <1>9, PerProcess
  <2> QED
    BY <2>1
<1> QED
  BY <1>5, <1>7, <1>8, <1>9

\* A step of the plan that forks or moves a process.
LEMMA InnerAt ==
    ASSUME powered \in BOOLEAN, NEW i \in 9 .. Len(Plan) - 1, Len(Plan) \in Nat,
           Plan[i][1] \in {"fork", "add"}
    PROVE  \E p \in Proc : \/ Plan[i] = <<"fork", p>>
                           \/ Plan[i] = <<"add", p, <<"unified", p>>>>
                           \/ Plan[i] = <<"add", p, <<"freezer", p>>>>
                           \/ Plan[i] = <<"add", p, <<"cpuset", "part">>>>
<1>1. i \in 1 .. Len(Plan) /\ i # Len(Plan) /\ ~(i <= 8)
  OBVIOUS
<1>2. ~(Plan[i] = <<"pstate">> \/ Plan[i] = <<"policies">> \/ Plan[i] = <<"manager">>)
  OBVIOUS
<1>3. InnerStep(i)
  BY <1>1, <1>2, PlanStep
<1>4. ~\E h \in Hierarchy : Plan[i] = <<"mkdir", <<h, "part">>>>
  OBVIOUS
<1>5. ~\E h \in {"unified", "freezer"}, p \in Proc : Plan[i] = <<"mkdir", <<h, p>>>>
  OBVIOUS
<1>6. Plan[i] # <<"validate">>
  OBVIOUS
<1> QED
  BY <1>3, <1>4, <1>5, <1>6, Zenon DEF InnerStep

\* Forking the dummy child or a process, given that the instance exposes no task.
LEMMA ForkReaches ==
    ASSUME Reached, NEW x, pc' = "setup", instance' = instance, signalled' = signalled,
           tasks' = [u \in DOMAIN tasks \cup {<<x, instance>>} |->
                        IF u = <<x, instance>> THEN {} ELSE tasks[u]],
           \A t \in DOMAIN tasks : Exposed(t) => t[2] # instance,
           Current(<<x, instance>>)'
    PROVE  Reached'
<1> DEFINE f == <<x, instance>>
<1>1. /\ DOMAIN tasks' = DOMAIN tasks \cup {f} /\ tasks'[f] = {}
      /\ \A t \in DOMAIN tasks \ {f} : tasks'[t] = tasks[t]
      /\ f[2] = instance /\ instance \in Nat
  BY DEF Reached
<1>2. \A t \in DOMAIN tasks' : t[2] \in Nat /\ t[2] =< instance'
  BY <1>1 DEF Reached
<1>3. \A t \in DOMAIN tasks' \ {f} : t \in DOMAIN tasks /\ (Exposed(t)' <=> Exposed(t))
  BY <1>1 DEF Exposed
<1>4. \A t \in DOMAIN tasks' : Exposed(t)' => tasks'[t] \cap Parts = {}
  BY <1>1, <1>3 DEF Reached
<1>5. ASSUME NEW t \in DOMAIN tasks', NEW u \in DOMAIN tasks', Exposed(t)', Exposed(u)', t[2] = u[2]
      PROVE  t = u
  BY <1>1, <1>3, <1>5 DEF Reached
<1>6. \A t \in DOMAIN tasks' : Exposed(t)' /\ t[2] = instance' => Current(t)'
  BY <1>1, <1>3
<1> HIDE DEF f
<1> QED
  BY <1>1, <1>2, <1>4, <1>5, <1>6 DEF Reached

\* The steps of main() at which no task may be exposed.
LEMMA NoneCurrent ==
    ASSUME TypeOK, Objects, Reached, pc = "setup",
           \/ pos = 1
           \/ pos > 8 /\ Plan[pos][1] # "add"
           \/ pos > 8 /\ Plan[pos][3] = <<"cpuset", "part">>
    PROVE  \A t \in DOMAIN tasks : ~Current(t) /\ (Exposed(t) => t[2] # instance)
<1>1. pos \notin 2 .. 8
  BY DEF TypeOK
<1>2. Plan[1][1] = "helper"
  BY PlanParts DEF Objects, RootPlan
<1>3. "part" \notin Proc
  BY HostAssumption
<1>4. \A p \in Proc : ~Moves(pos, p)
  BY <1>2, <1>3 DEF Moves
<1>5. \A t : ~Current(t)
  BY <1>1, <1>4 DEF Current
<1> QED
  BY <1>5 DEF Reached

\* main() exposes at most one task at a time.
LEMMA ReachedStep ==
    ASSUME HInv, Next
    PROVE  Reached'
<1> USE DEF hostVars, freqVars, objVars, histVars, Proceed, Unwind
<1>1. TypeOK /\ Objects /\ Reached /\ powered \in BOOLEAN /\ Plan' = Plan /\ pos \in Nat \ {0}
  BY SamePlan DEF HInv, Objects, TypeOK
\* What is to be shown of a step that adds no task.
<1>2. ASSUME DOMAIN tasks' \subseteq DOMAIN tasks, instance' = instance,
             \A t \in DOMAIN tasks' : Exposed(t)' => Exposed(t) /\ tasks'[t] \cap Parts = {},
             pc' = "setup" =>
                pc = "setup" /\ \A t \in DOMAIN tasks' : Exposed(t)' /\ Current(t) => Current(t)',
             pc' \in {"killed", "cleaned"} => \A t \in DOMAIN tasks' \ signalled' : Exposed(t)'
      PROVE  Reached'
  <2>1. instance' \in Nat /\ \A t \in DOMAIN tasks' : t[2] \in Nat /\ t[2] =< instance'
    BY <1>1, <1>2 DEF Reached
  <2>2. \A t \in DOMAIN tasks' : Exposed(t)' => tasks'[t] \cap Parts = {}
    BY <1>2
  <2>3. ASSUME NEW t \in DOMAIN tasks', NEW u \in DOMAIN tasks', Exposed(t)', Exposed(u)', t[2] = u[2]
        PROVE  t = u
    BY <1>1, <1>2, <2>3 DEF Reached
  <2>4. \A t \in DOMAIN tasks' : Exposed(t)' /\ pc' = "setup" /\ t[2] = instance' => Current(t)'
    BY <1>1, <1>2 DEF Reached
  <2> QED
    BY <1>2, <2>1, <2>2, <2>3, <2>4 DEF Reached
\* The same for a step that leaves the tasks alone.
<1>3. ASSUME tasks' = tasks, instance' = instance, signalled \subseteq signalled',
             pc' = "setup" =>
                pc = "setup" /\ \A t \in DOMAIN tasks : Exposed(t)' /\ Current(t) => Current(t)',
             pc' \in {"killed", "cleaned"} => pc \in {"killed", "cleaned"}
      PROVE  Reached'
  <2>1. \A t \in DOMAIN tasks : Exposed(t)' => Exposed(t) /\ tasks[t] \cap Parts = {}
    BY <1>1, <1>3 DEF Exposed, Reached
  <2>2. pc' \in {"killed", "cleaned"} => \A t \in DOMAIN tasks \ signalled' : Exposed(t)'
    BY <1>1, <1>3 DEF Exposed, Reached
  <2> QED
    BY <1>2, <1>3, <2>1, <2>2
\* A step of create_toplevel_cgroups leaves only the dummy child exposed.
<1>4. ASSUME pc = "setup", pos \in 2 .. 7, pos' = pos + 1, Plan[pos][1] # "add", instance' = instance
      PROVE  \A t : Current(t) => Current(t)'
  <2>1. pos' \in 2 .. 8
    BY <1>4
  <2>2. \A p : ~Moves(pos, p)
    BY <1>4 DEF Moves
  <2> QED
    BY <1>4, <2>1, <2>2 DEF Current, Helper
<1>5. CASE ForkHelper
  <2>1. At("helper") /\ pc = "setup" /\ pos = 1 /\ UNCHANGED <<instance, signalled>>
    BY <1>1, <1>5, SetupStep DEF ForkHelper, At
  <2>2. CASE /\ tasks' = [t \in DOMAIN tasks \cup {Helper} |->
                             IF t = Helper THEN {} ELSE tasks[t]]
             /\ pos' = pos + 1 /\ pc' = pc
    <3>1. \A t \in DOMAIN tasks : Exposed(t) => t[2] # instance
      BY <1>1, <2>1, NoneCurrent
    <3>2. Current(<<"helper", instance>>)'
      BY <2>1, <2>2 DEF Current, Helper
    <3> QED
      BY <1>1, <2>1, <2>2, <3>1, <3>2, ForkReaches DEF Helper
  <2>3. CASE tasks' = tasks /\ pc' = "unwind"
    BY <1>3, <2>1, <2>3
  <2> QED
    BY <1>5, <2>2, <2>3 DEF ForkHelper
<1>6. CASE MakeRoot
  <2>1. pc = "setup" /\ pos \in 2 .. 7 /\ Plan[pos][1] # "add" /\ UNCHANGED <<tasks, instance>>
    BY <1>1, <1>6, SetupStep DEF MakeRoot, At
  <2>2. signalled \subseteq signalled' /\ pc' \in {"setup", "unwind"} /\ (pc' = "setup" => pos' = pos + 1)
    BY <1>6, <2>1 DEF MakeRoot, KillHelper
  <2> QED
    BY <1>3, <1>4, <2>1, <2>2
<1>7. CASE JoinRoot
  <2>1. /\ pc = "setup" /\ pos \in 2 .. 7 /\ Plan[pos][1] # "add" /\ UNCHANGED <<signalled, instance>>
        /\ pc' = pc /\ pos' = pos + 1 /\ <<Arg, "root">> \in Roots
    <3>1. At("join") /\ UNCHANGED <<signalled, instance>> /\ pc' = pc /\ pos' = pos + 1
      BY <1>7 DEF JoinRoot
    <3>2. pc = "setup" /\ Plan[pos][1] # "add"
      BY <3>1 DEF At
    <3>3. pos \in {3, 5, 7} /\ Arg \in Hierarchy
      BY <1>1, <3>1, <3>2, SetupStep
    <3>4. <<Arg, "root">> \in Roots
      BY <3>3, Levels
    <3> QED
      BY <3>1, <3>2, <3>3, <3>4
  <2>2. CASE tasks' = tasks
    BY <1>3, <1>4, <2>1, <2>2
  <2>3. CASE tasks' = [tasks EXCEPT ![Helper] = @ \cup {<<Arg, "root">>}]
    <3>1. /\ DOMAIN tasks' = DOMAIN tasks
          /\ \A t \in DOMAIN tasks : tasks[t] \subseteq tasks'[t] /\ tasks'[t] \subseteq tasks[t] \cup Roots
      BY <2>1, <2>3
    <3>2. \A t \in DOMAIN tasks' : Exposed(t)' => Exposed(t)
      BY <2>1, <3>1 DEF Exposed
    <3>3. \A t \in DOMAIN tasks' : Exposed(t)' => tasks'[t] \cap Parts = {}
      BY <1>1, <3>1, <3>2, Levels DEF Reached
    <3> QED
      BY <1>2, <1>4, <2>1, <3>1, <3>2, <3>3
  <2> QED
    BY <1>7, <2>2, <2>3 DEF JoinRoot
<1>8. CASE RootsChecked
  <2>1. /\ pc = "setup" /\ pos = 8 /\ UNCHANGED <<tasks, instance>> /\ Plan[pos][1] # "add"
        /\ signalled' = signalled \cup {Helper} /\ pc' \in {"setup", "unwind"}
    BY <1>1, <1>8, SetupStep DEF RootsChecked, At, KillHelper
  <2>2. \A t : Current(t) => t = Helper
    BY <2>1 DEF Current, Moves
  <2>3. ~Exposed(Helper)'
    BY <2>1 DEF Exposed, Helper
  <2>4. \A t \in DOMAIN tasks : ~(Exposed(t)' /\ Current(t))
    BY <2>1, <2>2, <2>3 DEF Helper
  <2> QED
    BY <1>3, <2>1, <2>4
<1>9. CASE SetupPstate \/ PoliciesDone \/ ManagerBuilt \/ MakeInner \/ ValidateConfig \/ Run
           \/ \E c \in Cluster : SetupPolicy(c)
  <2>1. /\ pc = "setup" /\ UNCHANGED <<tasks, instance, signalled>> /\ Plan[pos][1] # "add"
        /\ pc' \in {"setup", "unwind"}
    BY <1>9 DEF SetupPstate, PoliciesDone, ManagerBuilt, MakeInner, ValidateConfig, Run,
          SetupPolicy, At
  <2>2. pos > 8
    <3>1. \/ At("pstate") \/ At("policies") \/ At("manager") \/ At("mkdir") \/ At("validate")
          \/ At("run")
      BY <1>9 DEF SetupPstate, PoliciesDone, ManagerBuilt, MakeInner, ValidateConfig, Run,
            SetupPolicy
    <3> QED
      BY <1>1, <2>1, <3>1, SetupStep
  <2>3. \A t \in DOMAIN tasks : ~Current(t)
    BY <1>1, <2>1, <2>2, NoneCurrent
  <2> QED
    BY <1>3, <2>1, <2>3
<1>10. CASE ForkProcess
  <2>1. /\ At("fork") /\ pc = "setup" /\ pos \in 9 .. Len(Plan) - 1 /\ Len(Plan) \in Nat
        /\ UNCHANGED <<instance, signalled>>
    BY <1>1, <1>10, SetupStep DEF ForkProcess, At
  <2>2. PICK p \in Proc : Plan[pos] = <<"fork", p>>
    <3>1. Plan[pos][1] = "fork"
      BY <2>1 DEF At
    <3> QED
      BY <1>1, <2>1, <3>1, InnerAt
  <2>3. Arg = p
    BY <2>2 DEF Arg
  <2>4. CASE /\ tasks' = [u \in DOMAIN tasks \cup {<<p, instance>>} |->
                             IF u = <<p, instance>> THEN {} ELSE tasks[u]]
             /\ pos' = pos + 1 /\ pc' = pc
    <3>1. \A t \in DOMAIN tasks : Exposed(t) => t[2] # instance
      BY <1>1, <2>1, NoneCurrent DEF At
    <3>2. Moves(pos + 1, p)
      <4>1. pos \in 1 .. Len(Plan) /\ pos + 1 =< Len(Plan)
        BY <2>1
      <4> QED
        BY <1>1, <2>2, <4>1, MovesFollow
    <3>3. Moves(pos, p)'
      BY <1>1, <2>4, <3>2 DEF Moves
    <3>4. Current(<<p, instance>>)'
      BY <2>1, <3>3 DEF Current
    <3> QED
      BY <1>1, <2>1, <2>4, <3>1, <3>4, ForkReaches
  <2>5. CASE tasks' = tasks /\ pc' = "unwind"
    BY <1>3, <2>1, <2>5
  <2> QED
    BY <1>10, <2>3, <2>4, <2>5 DEF ForkProcess
<1>11. CASE AddProcess
  <2>1. /\ At("add") /\ pc = "setup" /\ pos \in 9 .. Len(Plan) - 1 /\ Len(Plan) \in Nat
        /\ UNCHANGED <<instance, signalled>>
    BY <1>1, <1>11, SetupStep DEF AddProcess, At
  <2>2. PICK p, d : /\ p \in Proc
                    /\ Plan[pos] = <<"add", p, d>>
                    /\ d \in {<<"unified", p>>, <<"freezer", p>>, <<"cpuset", "part">>}
    <3>1. Plan[pos][1] = "add"
      BY <2>1 DEF At
    <3> QED
      BY <1>1, <2>1, <3>1, InnerAt
  <2>3. PICK f : f = <<p, instance>>
    OBVIOUS
  <2>4. Arg = p /\ Plan[pos][3] = d /\ f[1] = p /\ f[2] = instance
    BY <2>2, <2>3 DEF Arg
  <2>5. CASE tasks' = tasks /\ pc' = "unwind"
    BY <1>3, <2>1, <2>5
  <2>6. CASE /\ tasks' = [u \in DOMAIN tasks |-> IF u = f THEN tasks[u] \cup {d} ELSE tasks[u]]
             /\ pos' = pos + 1 /\ pc' = pc
    <3>1. /\ DOMAIN tasks' = DOMAIN tasks
          /\ \A t \in DOMAIN tasks : tasks[t] \subseteq tasks'[t]
          /\ \A t \in DOMAIN tasks \ {f} : tasks'[t] = tasks[t]
          /\ f \in DOMAIN tasks => tasks'[f] = tasks[f] \cup {d}
      BY <2>6
    <3>2. \A t \in DOMAIN tasks' : Exposed(t)' => Exposed(t)
      BY <2>1, <3>1 DEF Exposed
    <3>3. \A t : Current(t) => t = f
      <4>1. pos \notin 2 .. 8
        BY <2>1
      <4>2. \A r : Moves(pos, r) => r = p
        BY <2>2 DEF Moves
      <4> QED
        BY <2>3, <4>1, <4>2 DEF Current
    <3>4. \A t \in DOMAIN tasks : Exposed(t) => tasks[t] \cap Parts = {}
      BY <1>1 DEF Reached
    <3>5. CASE d = <<"unified", p>>
      <4>1. d \notin Parts
        BY <2>2, <3>5, Levels
      <4>2. \A t \in DOMAIN tasks' : Exposed(t)' => tasks'[t] \cap Parts = {}
        BY <3>1, <3>2, <3>4, <4>1
      <4>3. Moves(pos + 1, p)
        <5>1. pos \in 1 .. Len(Plan) /\ pos + 1 =< Len(Plan)
          BY <2>1
        <5> QED
          BY <1>1, <2>2, <3>5, <5>1, MovesFollow
      <4>4. Moves(pos, p)'
        BY <1>1, <2>6, <4>3 DEF Moves
      <4>5. Current(f)'
        BY <2>1, <2>2, <2>3, <2>4, <4>4 DEF Current
      <4> QED
        BY <1>2, <2>1, <2>6, <3>1, <3>2, <3>3, <4>2, <4>5
    <3>6. CASE d = <<"freezer", p>>
      <4>1. d[1] = "freezer"
        BY <3>6
      <4>2. f \in DOMAIN tasks => ~Exposed(f)'
        BY <3>1, <4>1 DEF Exposed
      <4>3. \A t \in DOMAIN tasks' : Exposed(t)' => tasks'[t] \cap Parts = {}
        BY <3>1, <3>2, <3>4, <4>2
      <4> QED
        BY <1>2, <2>1, <2>6, <3>1, <3>2, <3>3, <4>2, <4>3
    <3>7. CASE d = <<"cpuset", "part">>
      <4>1. \A t \in DOMAIN tasks : ~Current(t) /\ (Exposed(t) => t[2] # instance)
        <5>1. pos > 8
          BY <2>1
        <5> QED
          BY <1>1, <2>1, <2>4, <3>7, <5>1, NoneCurrent
      <4>2. \A t \in DOMAIN tasks' : Exposed(t)' => tasks'[t] \cap Parts = {}
        BY <2>4, <3>1, <3>2, <3>4, <4>1
      <4> QED
        BY <1>2, <2>1, <2>6, <3>1, <3>2, <4>1, <4>2
    <3> QED
      BY <2>2, <3>5, <3>6, <3>7
  <2> QED
    BY <1>11, <2>3, <2>4, <2>5, <2>6 DEF AddProcess
<1>12. ASSUME NEW t \in DOMAIN tasks, TaskEnds(t) PROVE Reached'
  <2>1. /\ tasks' = [u \in DOMAIN tasks \ {t} |-> tasks[u]]
        /\ UNCHANGED <<pc, pos, instance, signalled>>
    BY <1>12 DEF TaskEnds
  <2>2. \A u \in DOMAIN tasks' : Exposed(u)' <=> Exposed(u)
    BY <2>1 DEF Exposed
  <2>3. \A u : Current(u)' <=> Current(u)
    BY <1>1, <2>1 DEF Current, Moves, Helper
  <2> QED
    BY <1>1, <1>2, <2>1, <2>2, <2>3 DEF Reached
<1>13. CASE (\E e \in owned : Destroy(e)) \/ ExitMain \/ Crash \/ ScriptRemoves \/ ScriptResets
  <2>1. /\ UNCHANGED <<tasks, instance, signalled>> /\ pc' # "setup"
        /\ pc' \in {"killed", "cleaned"} => pc \in {"killed", "cleaned"}
    BY <1>13 DEF Destroy, ExitMain, Crash, ScriptRemoves, ScriptResets
  <2> QED
    BY <1>3, <2>1
<1>14. CASE ScriptKills
  <2>1. /\ UNCHANGED <<tasks, instance>> /\ pc' = "killed"
        /\ signalled' = signalled \cup {t \in DOMAIN tasks : \E d \in tasks[t] : d[1] = "freezer"}
    BY <1>14 DEF ScriptKills
  <2>2. \A t \in DOMAIN tasks : Exposed(t)' => Exposed(t) /\ tasks[t] \cap Parts = {}
    BY <1>1, <2>1 DEF Exposed, Reached
  <2>3. \A t \in DOMAIN tasks' \ signalled' : Exposed(t)'
    BY <2>1 DEF Exposed
  <2> QED
    BY <1>2, <2>1, <2>2, <2>3
<1>15. CASE Restart
  <2>1. UNCHANGED <<tasks, signalled>> /\ instance' = instance + 1 /\ pc' = "setup"
    BY <1>15 DEF Restart
  <2>2. instance \in Nat /\ \A t \in DOMAIN tasks : t[2] \in Nat /\ t[2] =< instance'
                                                     /\ t[2] # instance'
    BY <1>1, <2>1 DEF Reached
  <2>3. \A t : Exposed(t)' <=> Exposed(t)
    BY <2>1 DEF Exposed
  <2> QED
    BY <1>1, <2>1, <2>2, <2>3 DEF Reached
<1> QED
  BY <1>5, <1>6, <1>7, <1>8, <1>9, <1>10, <1>11, <1>12, <1>13, <1>14, <1>15 DEF Next, MainStep

-------------------------------------------------------------------------------
(* The theorems *)

\* The first instance starts in a state of the invariant.
LEMMA HostInit == Init => HInv
<1> SUFFICES ASSUME Init PROVE HInv
  OBVIOUS
<1>1. PICK m \in Machines : gov = m.gov /\ max_freq = m.max /\ pstate = m.pstate /\ powered = m.powered
  BY DEF Init
<1>2. /\ gov \in [Cluster -> Governor] /\ DOMAIN max_freq = Cluster /\ powered \in BOOLEAN
      /\ \A c \in Cluster : gov[c] \in Supported(c, pstate)
  BY <1>1, MachinesAssumption
<1>3. dirs \subseteq Roots /\ dirs \subseteq Dir
  BY HostAssumption DEF Init, Roots, Dir
<1>4. DOMAIN tasks = {} /\ DOMAIN original = {} /\ owned = {} /\ pos = 1 /\ pc = "setup" /\ busy = {}
  BY DEF Init
<1>5. before.dirs = dirs /\ before.gov = gov /\ before.max = max_freq /\ before.pstate = pstate
  BY DEF Init
<1>6. 1 <= Len(Plan) /\ Plan[1][1] = "helper"
  <2>1. Len(Plan) \in Nat /\ 1 <= Len(Plan)
    BY <1>2, MkdirOf
  <2> QED
    BY <1>2, <2>1, PlanParts DEF RootPlan
<1>7. TypeOK
  BY <1>2, <1>3, <1>4, <1>6 DEF TypeOK
<1>8. Objects
  BY <1>2, <1>4 DEF Objects
<1>9. Trees
  <2>1. \A d \in Dir : Children(d) \cap dirs = {}
    BY <1>3, Levels, ChildrenAre
  <2> QED
    BY <1>3, <1>5, <2>1 DEF Trees, Tree
<1>10. Made
  <2>1. \A i \in 1 .. 1 - 1 : FALSE
    OBVIOUS
  <2> QED
    BY <1>4, <2>1 DEF Made, MkrootAt
<1>11. Kept /\ Owned /\ Ended
  BY <1>4, <1>5 DEF Kept, UserDirsKept, Owned, Ended, LeftoverWasBusy, CleanExit
<1>12. Placed
  BY <1>4, <1>6 DEF Placed
<1>13. Frequencies
  BY <1>2, <1>4, <1>5 DEF Frequencies, AsFound, Init
<1>14. Switched
  BY <1>4, <1>5 DEF Switched
<1>15. Capped
  BY <1>4, <1>5 DEF Capped, MaxAsFound
<1>16. Reached
  BY <1>4 DEF Reached, Init
<1> QED
  BY <1>7, <1>8, <1>9, <1>10, <1>11, <1>12, <1>13, <1>14, <1>15, <1>16 DEF HInv

\* A step that changes nothing preserves the invariant.
LEMMA HostStutter == HInv /\ UNCHANGED vars => HInv'
<1> SUFFICES ASSUME HInv, UNCHANGED vars PROVE HInv'
  OBVIOUS
<1> USE DEF vars, hostVars, freqVars, objVars, histVars
<1>1. TypeOK' /\ Objects'
  BY DEF HInv, TypeOK, Objects, Plan
<1>2. Trees' /\ Made' /\ Kept'
  BY DEF HInv, Trees, Tree, Made, Kept, UserDirsKept, Plan
<1>3. Owned' /\ Ended'
  BY DEF HInv, Owned, Ended, LeftBusy, LeftoverWasBusy, CleanExit
<1>4. Placed'
  BY DEF HInv, Placed, Plan
<1>5. Frequencies' /\ Switched'
  BY DEF HInv, Frequencies, AsFound, Switched
<1>6. Capped'
  BY DEF HInv, Capped, MaxAsFound
<1>7. Reached'
  BY DEF HInv, Reached, Exposed, Current, Helper, Moves, Plan
<1> QED
  BY <1>1, <1>2, <1>3, <1>4, <1>5, <1>6, <1>7 DEF HInv

\* The invariant of main(), of the environment and of the script.
THEOREM HostInvariant == Spec => []HInv
<1>1. HInv /\ [Next]_vars => HInv'
  <2>1. ASSUME HInv, Next PROVE HInv'
    BY <2>1, TypeStep, ObjectsStep, TreesStep, MadeStep, KeptStep, OwnedStep, PlacedStep,
       EndedStep, FrequenciesStep, SwitchedStep, CappedStep, ReachedStep DEF HInv
  <2> QED
    BY <2>1, HostStutter
<1> QED
  BY <1>1, HostInit, PTL DEF Spec

\* In every state no cgroup has disappeared under a task, main() is within its
\* plan, and exactly the constructed CpufreqPolicy objects will be destroyed.
THEOREM HostTypeCorrect == Spec => []TypeOK
<1>1. HInv => TypeOK
  BY DEF HInv
<1> QED
  BY <1>1, HostInvariant, PTL

\* No instance and no run of cleanup_crash.sh removes a root cgroup that was
\* there when the last instance was started (Cgroup(path, true)).
THEOREM UserDirsKeptHolds == Spec => []UserDirsKept
<1>1. HInv => UserDirsKept
  BY DEF HInv, Kept
<1> QED
  BY <1>1, HostInvariant, PTL

\* An instance whose main() returns 0 leaves the root cgroups that it found and
\* no other cgroup, whatever it found: the destructors run in an order in which
\* every rmdir succeeds.
THEOREM CleanExitHolds == Spec => []CleanExit
<1>1. HInv => CleanExit
  BY DEF HInv, Ended
<1> QED
  BY <1>1, HostInvariant, PTL

\* A cgroup that an exception's unwinding or cleanup_crash.sh leaves behind had
\* a task in it or below it when its rmdir was tried.
THEOREM LeftoverWasBusyHolds == Spec => []LeftoverWasBusy
<1>1. HInv => LeftoverWasBusy
  BY DEF HInv, Owned
<1> QED
  BY <1>1, HostInvariant, PTL

\* However main() is left, ~CpufreqPolicy has restored each scaling_max_freq and,
\* unless intel_pstate was active, each governor, except where a CpufreqPolicy
\* constructor threw half-way; ~PowerManager has restored the mode of
\* intel_pstate unless its own constructor threw while it set up the policies.
THEOREM CpufreqRestoredHolds == Spec => []CpufreqRestored
<1>1. HInv => CpufreqRestored
  <2> SUFFICES ASSUME HInv, pc = "exited" PROVE CpufreqRestored
    BY DEF CpufreqRestored
  <2>1. TypeOK /\ Objects /\ Frequencies /\ Switched /\ Capped
    BY DEF HInv
  <2>2. owned = {} /\ DOMAIN original = {}
    BY <2>1 DEF TypeOK, Objects
  <2>3. before.pstate # "active" =>
           pstate = before.pstate /\ \A c \in Cluster \ abandoned : gov[c] = before.gov[c]
    BY <2>1, <2>2 DEF Frequencies, AsFound
  <2>4. \A c \in Cluster \ abandoned : max_freq[c] = before.max[c]
    BY <2>1, <2>2 DEF Capped, MaxAsFound
  <2>5. before.pstate = "active" => pstate = "active" \/ (powered /\ pos = 10)
    BY <2>1, <2>2 DEF Switched
  <2>6. powered /\ pos = 10 => Plan[pos][1] = "policies"
    <3>1. powered => Plan[8 + 2] = PowerPlan[2]
      BY <2>1, PlanParts DEF Objects
    <3> QED
      BY <3>1 DEF PowerPlan
  <2> QED
    BY <2>3, <2>4, <2>5, <2>6 DEF CpufreqRestored
<1> QED
  BY <1>1, HostInvariant, PTL

\* Whatever the list of processes and wherever the instances were killed or
\* failed, cleanup_crash.sh leaves at most one live task of each instance without
\* a signal, and that one was not yet moved into the cpuset of its partition.
THEOREM ScriptReachesTasksHolds == Spec => []ScriptReachesTasks
<1>1. HInv => ScriptReachesTasks
  <2> SUFFICES ASSUME HInv, pc \in {"killed", "cleaned"} PROVE ScriptReachesTasks
    BY DEF ScriptReachesTasks
  <2>1. Reached
    BY DEF HInv
  <2> QED
    BY <2>1 DEF Reached, ScriptReachesTasks
<1> QED
  BY <1>1, HostInvariant, PTL

===============================================================================
