------------------------------ MODULE QueueCheck ------------------------------
(***************************************************************************)
(* Compares PartitionQueue with the loops and the recursion of the source, *)
(* and drives one queue through every history of a partition: processes    *)
(* exit, complete, and the queue is searched window after window.          *)
(***************************************************************************)
EXTENDS PartitionQueue, FiniteSets

CONSTANTS Proc, NoProc, MaxLen, Budgets

ASSUME QueueAssumption ==
    /\ NoProc \notin Proc
    /\ MaxLen \in Nat \ {0}
    /\ Budgets \subseteq Nat

VARIABLES
    ps,      \* the processes of the partition, in order
    cur,     \* Partition::current_proc
    pend,    \* the pending processes
    draw     \* the budgets that each may be given

vars == <<ps, cur, pend, draw>>

Queues ==
    {q \in UNION {[1 .. n -> Proc] : n \in 1 .. MaxLen} :
        \A i, j \in DOMAIN q : i # j => q[i] # q[j]}

\* Partition::move_to_next_proc
MoveToNextProc(q, c) == IF c + 1 = Len(q) + 1 THEN 1 ELSE c + 1

\* The loop of Partition::seek_pending_process: with so many rounds left, and
\* current_proc at c, what it returns and where current_proc ends up.
SeekLoop(q, c, pd) ==
    LET loop[left \in 0 .. Len(q)] ==
            [at \in 1 .. Len(q) |->
                IF left = 0 THEN [proc |-> NoProc, cur |-> MoveToNextProc(q, at)]
                ELSE IF q[at] \in pd THEN [proc |-> q[at], cur |-> at]
                ELSE loop[left - 1][MoveToNextProc(q, at)]]
    IN  loop[Len(q)][c]

\* The recursion of Slice::start_next_process: a process without budget is marked
\* completed, and the search is repeated with the others.
StartRecursion(q, c, pd, dr) ==
    LET start[pending \in SUBSET {q[i] : i \in DOMAIN q}] ==
            [at \in 1 .. Len(q) |->
                LET r == SeekLoop(q, at, pending)
                IN  IF r.proc = NoProc
                    THEN {[proc |-> NoProc, budget |-> 0, cur |-> r.cur, skipped |-> {}]}
                    ELSE UNION {IF b = 0
                                THEN {[o EXCEPT !.skipped = @ \cup {r.proc}] :
                                         o \in start[pending \ {r.proc}][r.cur]}
                                ELSE {[proc |-> r.proc, budget |-> b, cur |-> r.cur,
                                       skipped |-> {}]}
                                : b \in dr[r.proc]}]
    IN  start[pd][c]

Init ==
    /\ ps \in Queues
    /\ cur = 1
    /\ pend = {ps[i] : i \in DOMAIN ps}
    /\ draw \in [Proc -> (SUBSET Budgets) \ {{}}]

\* A process is chosen and later stops being pending, or nobody is left.
Search ==
    \E o \in StartNext(ps, cur, pend, draw, NoProc) :
        /\ cur' = o.cur
        /\ pend' = pend \ (o.skipped \cup {o.proc})
        /\ UNCHANGED <<ps, draw>>

\* A new window: some processes are pending again (the others have exited), and
\* the search goes on from where it was (BE) or from the first process (SC).
NewWindow ==
    /\ pend' \in SUBSET {ps[i] : i \in DOMAIN ps}
    /\ cur' \in {1, cur}
    /\ UNCHANGED <<ps, draw>>

Next == Search \/ NewWindow

Spec == Init /\ [][Next]_vars

\* seek_pending_process and start_next_process do exactly what the closed forms
\* of PartitionQueue say, in every state a queue can be in.
ClosedForm ==
    /\ SeekPending(ps, cur, pend) = SeekLoop(ps, cur, pend).cur
    /\ StartNext(ps, cur, pend, draw, NoProc) = StartRecursion(ps, cur, pend, draw)
===============================================================================
