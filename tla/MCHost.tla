-------------------------------- MODULE MCHost --------------------------------
(* One partition with one process, two cpufreq policies, and a sequence of   *)
(* instances on machines without intel_pstate and with it in each mode.        *)
EXTENDS Host, TLC

CONSTANTS p, k, m

OneProcess == <<p>>
Clusters == {k, m}
OnlyK == {k}

Machine(ps, g, h, f) ==
    [powered |-> TRUE, pstate |-> ps, gov |-> (k :> g) @@ (m :> h),
     max |-> (k :> f) @@ (m :> "full")]

\* Without intel_pstate, one governor set to "userspace" by the user; with
\* intel_pstate in passive, active and off mode; and without power policy.
MachinesMC ==
    {Machine("none", "userspace", "schedutil", "capped"),
     Machine("passive", "schedutil", "performance", "capped"),
     Machine("active", "powersave", "powersave", "full"),
     Machine("off", "schedutil", "schedutil", "full"),
     [Machine("none", "schedutil", "schedutil", "full") EXCEPT !.powered = FALSE]}

NoneOrOne == {{}, {<<"freezer", "root">>}}
===============================================================================
