---------------------------- MODULE PartitionQueue ----------------------------
(***************************************************************************)
(* The cyclic process queue of a Partition and the search for the next     *)
(* process to run (Partition::seek_pending_process and the recursion of    *)
(* Slice::start_next_process), in closed form.  QueueCheck compares it     *)
(* with the loops and the recursion of the source.                         *)
(***************************************************************************)
EXTENDS Integers, Sequences

\* The position k steps after position c of the cyclic queue ps, and who is there.
Ahead(ps, c, k) == ((c - 1 + k) % Len(ps)) + 1
ProcAhead(ps, c, k) == ps[Ahead(ps, c, k)]

Steps(ps) == 0 .. (Len(ps) - 1)

\* The steps from c at which a process of the set pend is met.
PendingSteps(ps, c, pend) == {k \in Steps(ps) : ProcAhead(ps, c, k) \in pend}

SeekPendingFault(ps, c, pend) ==
    LET K == PendingSteps(ps, c, pend)
    IN  IF K = {} THEN c ELSE Ahead(ps, c, CHOOSE k \in K : \A j \in K : k =< j)

\* Partition::seek_pending_process: where current_proc ends up.  With nothing
\* pending the queue goes once round and then one process further.
SeekPending(ps, c, pend) ==
    LET K == PendingSteps(ps, c, pend)
    IN  IF K = {} THEN Ahead(ps, c, 1)
        ELSE Ahead(ps, c, CHOOSE k \in K : \A j \in K : k =< j)

\* Slice::start_next_process: the pending processes are tried in queue order;
\* one whose budget comes out as zero is marked completed (skipped) and the
\* search goes on from it.  draw[p] is the set of budgets p may get.
\* Every possible outcome: the chosen process runs with budget b, or nobody.
Chosen(ps, c, pend, draw) ==
    UNION {{[proc |-> ProcAhead(ps, c, k), budget |-> b, cur |-> Ahead(ps, c, k),
             skipped |-> {ProcAhead(ps, c, j) : j \in {i \in PendingSteps(ps, c, pend) : i < k}}]
               : b \in draw[ProcAhead(ps, c, k)] \ {0}}
           : k \in {i \in PendingSteps(ps, c, pend) :
                      \A j \in PendingSteps(ps, c, pend) :
                          j < i => 0 \in draw[ProcAhead(ps, c, j)]}}

Exhausted(ps, c, pend, draw, none) ==
    LET K == PendingSteps(ps, c, pend)
    IN  IF \E k \in K : 0 \notin draw[ProcAhead(ps, c, k)] THEN {}
        ELSE {[proc |-> none, budget |-> 0,
               cur |-> IF K = {} THEN Ahead(ps, c, 1)
                       ELSE Ahead(ps, c, 1 + CHOOSE k \in K : \A j \in K : j =< k),
               skipped |-> {ProcAhead(ps, c, k) : k \in K}]}

StartNext(ps, c, pend, draw, none) ==
    Chosen(ps, c, pend, draw) \cup Exhausted(ps, c, pend, draw, none)
===============================================================================
