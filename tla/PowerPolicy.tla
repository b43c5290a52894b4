------------------------------ MODULE PowerPolicy ------------------------------
(***************************************************************************)
(* The power policies (option -p): what each one writes to the cpufreq     *)
(* policies of the machine when the scheduler tells it of an event.        *)
(*                                                                         *)
(* A policy object is a record: its name and arguments, the frequency last *)
(* written to each cpufreq policy (0: none), the processes that request a  *)
(* frequency, the flag f1_next and whether a handler threw.  A handler is  *)
(* an operator from records to records, because one step of the scheduler  *)
(* calls several of them in a row.                                         *)
(***************************************************************************)
EXTENDS Naturals, Sequences, SequencesExt

CONSTANTS
    Cluster,                  \* the cpufreq policies
    A53, A72,                 \* those named "policy0" and "policy4"
    AffectedCores,            \* their online CPUs
    MinFrequency, MaxFrequency,
    AvailableFrequencies      \* the listed frequencies, <<>> if there is no list

ASSUME PowerAssumption ==
    /\ {A53, A72} \subseteq Cluster
    /\ DOMAIN AffectedCores = Cluster
    /\ MinFrequency \in [Cluster -> Nat \ {0}]
    /\ MaxFrequency \in [Cluster -> Nat \ {0}]
    /\ AvailableFrequencies \in [Cluster -> Seq(Nat \ {0})]

-------------------------------------------------------------------------------
(* CpufreqPolicy *)

Active(c) == AffectedCores[c] # {}

\* CpufreqPolicy::validate_frequency does not throw.
ValidFrequency(c, f) ==
    /\ f >= MinFrequency[c]
    /\ f =< MaxFrequency[c]
    /\ AvailableFrequencies[c] # <<>> => f \in ToSet(AvailableFrequencies[c])

\* CpufreqPolicy::write_frequency of f[c] to each cpufreq policy c in C.
WriteFrequency(pw, C, f) ==
    [pw EXCEPT !.freq = [c \in Cluster |-> IF c \in C /\ Active(c) THEN f[c] ELSE @[c]]]

\* CpufreqPolicy::get_freq of an index counted from zero, where it does not throw.
HasFreq(c, i) == i < Len(AvailableFrequencies[c])
GetFreq(c, i) == AvailableFrequencies[c][i + 1]

-------------------------------------------------------------------------------
(* Creating a policy *)

\* The table of policies with the number of their arguments.
ArgCount ==
    [minbe |-> 0, low |-> 0, high |-> 0, per_process |-> 0, imx8_alternating |-> 4,
     imx8_fixed |-> 2, imx8_per_process |-> 0, imx8_per_slice |-> 0]

Imx8 == {"imx8_alternating", "imx8_fixed", "imx8_per_process", "imx8_per_slice"}
PerProcess == {"per_process", "imx8_per_process"}

\* The cpufreq policies that the requests of processes or slices are applied to.
PolicyClusters(name) == IF name \in Imx8 THEN {A53, A72} ELSE Cluster

\* setup_power_policy() and the constructor of the policy do not throw.  An
\* inactive cpufreq policy ignores the index that imx8_fixed is given for it.
Accepted(name, args) ==
    \/ name = "none"
    \/ /\ name \in DOMAIN ArgCount
       /\ Len(args) = ArgCount[name]
       /\ name \in Imx8 => \A c \in Cluster : AvailableFrequencies[c] # <<>>
       /\ name = "imx8_fixed" =>
             \A i \in 1 .. 2 : LET policy == <<A53, A72>>[i]
                               IN  Active(policy) => HasFreq(policy, args[i])
       /\ name = "imx8_alternating" =>
             \A i \in 1 .. 4 : HasFreq(<<A53, A53, A72, A72>>[i], args[i])

\* The two frequencies of imx8_alternating for the cluster c.
AlternatingFreq(args, c) ==
    IF c = A53 THEN <<GetFreq(A53, args[1]), GetFreq(A53, args[2])>>
    ELSE <<GetFreq(A72, args[3]), GetFreq(A72, args[4])>>

SamePair(args) ==
    {c \in {A53, A72} : AlternatingFreq(args, c)[1] = AlternatingFreq(args, c)[2]}

\* The policy object when its constructor has returned.
NewPolicy(name, args) ==
    LET pw == [name |-> name, args |-> args, freq |-> [c \in Cluster |-> 0],
               requesting_procs |-> [c \in Cluster |-> <<>>], f1_next |-> TRUE,
               threw |-> FALSE]
    IN  CASE name = "low" -> WriteFrequency(pw, Cluster, MinFrequency)
          [] name \in {"high", "minbe"} -> WriteFrequency(pw, Cluster, MaxFrequency)
          [] name = "imx8_fixed" ->
                WriteFrequency(pw, {A53, A72},
                    [c \in {A53, A72} |-> GetFreq(c, args[IF c = A53 THEN 1 ELSE 2])])
          [] name = "imx8_alternating" ->
                WriteFrequency(pw, SamePair(args),
                    [c \in {A53, A72} |-> AlternatingFreq(args, c)[1]])
          [] OTHER -> pw

-------------------------------------------------------------------------------
(* Events.  A request is a frequency, or 0 for none; on are the CPUs. *)

Touches(on, c) == on \cap AffectedCores[c] # {}

\* on_process_start of the process p, with the requests of all processes.
OnProcessStartFault(pw, p, request, on) ==
    LET C == {c \in PolicyClusters(pw.name) : Touches(on, c)}
    IN  IF pw.name \notin PerProcess \/ request[p] = 0 THEN pw
        ELSE WriteFrequency([pw EXCEPT !.requesting_procs =
                                [c \in Cluster |-> IF c \in C THEN Append(@[c], p) ELSE @[c]]],
                            C, [c \in C |-> request[p]])

OnProcessStart(pw, p, request, on) ==
    LET C == {c \in PolicyClusters(pw.name) : Touches(on, c)}
        compatible == \A c \in C :
            \/ pw.requesting_procs[c] = <<>>
            \/ request[Head(pw.requesting_procs[c])] = request[p]
    IN  IF pw.name \notin PerProcess \/ request[p] = 0 THEN pw
        ELSE IF ~compatible THEN [pw EXCEPT !.threw = TRUE]
        ELSE WriteFrequency([pw EXCEPT !.requesting_procs =
                                [c \in Cluster |-> IF c \in C THEN Append(@[c], p) ELSE @[c]]],
                            C, [c \in C |-> request[p]])

OnProcessEndFault(pw, p) ==
    [pw EXCEPT !.requesting_procs =
        [c \in Cluster |-> IF @[c] # <<>> /\ Head(@[c]) = p THEN Tail(@[c]) ELSE @[c]]]

\* std::remove and erase: the list without p, the others in their order.
Without(list, p) ==
    LET kept[n \in 0 .. Len(list)] ==
            IF n = 0 THEN <<>>
            ELSE IF list[n] = p THEN kept[n - 1] ELSE Append(kept[n - 1], list[n])
    IN  kept[Len(list)]

\* on_process_end of the process p, wherever it ran.
OnProcessEnd(pw, p) ==
    [pw EXCEPT !.requesting_procs = [c \in Cluster |-> Without(@[c], p)]]

OnWindowStartFault(pw, slices, request, cores) ==
    LET asked(c) == {request[s] : s \in {t \in slices : request[t] # 0}}
        C == {c \in {A53, A72} : \E s \in slices : request[s] # 0 /\ Touches(cores[s], c)}
    IN  IF pw.name # "imx8_per_slice" THEN pw
        ELSE WriteFrequency(pw, C, [c \in C |-> CHOOSE f \in asked(c) : TRUE])

\* on_window_start of a window with the given slices, their requests and CPUs.
OnWindowStart(pw, slices, request, cores) ==
    LET asked(c) == {request[s] : s \in {t \in slices : /\ request[t] # 0
                                                        /\ Touches(cores[t], c)}}
        C == {c \in {A53, A72} : asked(c) # {}}
    IN  CASE pw.name = "imx8_per_slice" ->
                IF \E c \in C : \E f, g \in asked(c) : f # g
                THEN [pw EXCEPT !.threw = TRUE]
                ELSE WriteFrequency(pw, C, [c \in C |-> CHOOSE f \in asked(c) : TRUE])
          [] pw.name = "imx8_alternating" ->
                [WriteFrequency(pw, {A53, A72} \ SamePair(pw.args),
                    [c \in {A53, A72} |->
                        AlternatingFreq(pw.args, c)[IF pw.f1_next THEN 1 ELSE 2]])
                 EXCEPT !.f1_next = ~pw.f1_next]
          [] OTHER -> pw

\* on_sc_start and on_be_start
OnScStart(pw) ==
    IF pw.name = "minbe" THEN WriteFrequency(pw, Cluster, MaxFrequency) ELSE pw
OnBeStart(pw) ==
    IF pw.name = "minbe" THEN WriteFrequency(pw, Cluster, MinFrequency) ELSE pw
===============================================================================
