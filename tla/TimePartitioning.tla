--------------------------- MODULE TimePartitioning ---------------------------
(***************************************************************************)
(* What the scheduler promises to the configured partitions, without the   *)
(* event loop, timers, callbacks and cgroups that it is made of.           *)
(*                                                                         *)
(* The windows of the major frame follow each other in cyclic order.       *)
(* Within a window every slice serves its SC partition; once all of them   *)
(* have been served, and not before, every slice serves its BE partition.  *)
(* Serving a partition gives each live process at most one turn, one       *)
(* process at a time, and a slice is idle only when nobody is left.        *)
(***************************************************************************)
EXTENDS Naturals, Sequences

CONSTANTS
    Proc, NoProc, NoPartition,
    PartOf,      \* the partition of each process
    Slice, Sc, Be,
    Windows      \* the slices of each window

VARIABLES
    win,         \* the current window
    entered,     \* the first window was entered
    phase,       \* "sc" or "be" while the window is open, "closed" otherwise
    waiting,     \* the slices that have not begun to serve in this phase
    active,      \* the process whose turn it is, for each slice
    done,        \* the processes that had their turn
    alive        \* the processes that have not ended

abstractVars == <<win, entered, phase, waiting, active, done, alive>>

\* The processes of the partition that slice s serves in this phase.
Members(s) ==
    LET q == IF phase = "sc" THEN Sc[s] ELSE Be[s]
    IN  {p \in Proc : q # NoPartition /\ PartOf[p] = q}

Init ==
    /\ win = 1
    /\ entered = FALSE
    /\ phase = "closed"
    /\ waiting = {}
    /\ active = [s \in Slice |-> NoProc]
    /\ done = {}
    /\ alive = Proc

\* A window without slices has nothing to serve.
FirstPhase(w) == IF Windows[w] = {} THEN "be" ELSE "sc"

\* The next window is entered, after the last one was left entirely.  In the
\* first one the initialization of a process may have ended with the process.
Open ==
    /\ phase = "closed"
    /\ \A s \in Slice : active[s] = NoProc
    /\ win' = IF entered THEN (win % Len(Windows)) + 1 ELSE win
    /\ entered' = TRUE
    /\ phase' = FirstPhase(win')
    /\ waiting' = Windows[win']
    /\ alive' \in {alive} \cup (IF entered THEN {} ELSE {alive \ {p} : p \in alive})
    /\ UNCHANGED <<active, done>>

\* All slices have served their SC partitions, s as the last one.
ScServed(s) ==
    /\ phase = "sc"
    /\ waiting \subseteq {s}
    /\ \A t \in Windows[win] \ {s} : active[t] = NoProc

\* Slice s gives a turn to one of the live processes outside of d, or becomes
\* idle because there is none.  A turn may have length zero (skipped).
Serve(s, d) ==
    \E skipped \in SUBSET (Members(s) \cap alive) :
        /\ done' = d \cup skipped
        /\ \/ /\ \E p \in (Members(s) \cap alive) \ done' :
                     active' = [active EXCEPT ![s] = p]
              /\ waiting' = waiting \ {s}
              /\ UNCHANGED phase
           \/ /\ Members(s) \cap alive \subseteq done'
              /\ active' = [active EXCEPT ![s] = NoProc]
              /\ phase' = IF ScServed(s) THEN "be" ELSE phase
              /\ waiting' = IF ScServed(s) THEN Windows[win] ELSE waiting \ {s}
        /\ UNCHANGED <<win, entered, alive>>

\* Slice s begins to serve a partition: everybody gets a new turn.
Begin(s) == s \in waiting /\ active[s] = NoProc /\ Serve(s, done \ Members(s))

\* The turn of the active process of s is over.
Yield(s) ==
    /\ phase # "closed"
    /\ waiting = {}
    /\ active[s] # NoProc
    /\ Serve(s, done \cup {active[s]})

\* The window is over, or the scheduler is told to stop.
Close ==
    /\ phase # "closed"
    /\ waiting = {}
    /\ phase' = "closed"
    /\ UNCHANGED <<win, entered, waiting, active, done, alive>>

\* The active process of s is interrupted, or its turn ended with the window.
Interrupt(s) ==
    /\ phase = "closed"
    /\ active[s] # NoProc
    /\ active' = [active EXCEPT ![s] = NoProc]
    /\ done' \in {done, done \cup {active[s]}}
    /\ UNCHANGED <<win, entered, phase, waiting, alive>>

End(p) ==
    /\ p \in alive
    /\ alive' = alive \ {p}
    /\ UNCHANGED <<win, entered, phase, waiting, active, done>>

Next ==
    \/ Open \/ Close
    \/ \E s \in Slice : Begin(s) \/ Yield(s) \/ Interrupt(s)
    \/ \E p \in Proc : End(p)

Spec == Init /\ [][Next]_abstractVars
===============================================================================
