----------------------------- MODULE QueueProofs ------------------------------
(***************************************************************************)
(* The loop of Partition::seek_pending_process and the recursion of        *)
(* Slice::start_next_process compute the closed forms of PartitionQueue,   *)
(* for partitions of every length.                                         *)
(***************************************************************************)
EXTENDS QueueCheck, PartitionQueueProofs, FiniteSetTheorems, TLAPS

-------------------------------------------------------------------------------
(* Steps round the queue                                                       *)

\* Positions of a queue of n processes.
Queue(q) == /\ q \in Seq(Proc) /\ Len(q) > 0
            /\ \A i, j \in 1 .. Len(q) : q[i] = q[j] => i = j

\* Steps add up, a round leads back, and move_to_next_proc is one step.
LEMMA AheadSum ==
    ASSUME NEW q, Len(q) \in Nat \ {0}, NEW c \in 1 .. Len(q)
    PROVE  /\ \A j, k \in Int : Ahead(q, Ahead(q, c, j), k) = Ahead(q, c, j + k)
           /\ \A k \in Int : Ahead(q, c, k + Len(q)) = Ahead(q, c, k)
           /\ Ahead(q, c, 0) = c
           /\ MoveToNextProc(q, c) = Ahead(q, c, 1)
<1>1. PICK n \in Nat \ {0} : n = Len(q)
  OBVIOUS
<1>2. ASSUME NEW j \in Int, NEW k \in Int
      PROVE  Ahead(q, Ahead(q, c, j), k) = Ahead(q, c, j + k)
  <2>1. PICK x \in Int : x = c - 1 + j
    BY <1>1
  <2>2. x \div n \in Int /\ x % n \in 0 .. n - 1 /\ x = n * (x \div n) + (x % n)
    BY DivMod
  <2>3. PICK d \in Int, r \in 0 .. n - 1 : d = x \div n /\ r = x % n /\ x = n * d + r
    BY <2>2
  <2>4. PICK y \in Int : y = r + k
    OBVIOUS
  <2>5. (y + n * d) % n = y % n
    BY ModShift
  <2>6. Ahead(q, c, j) = r + 1
    BY <1>1, <2>1, <2>3 DEF Ahead
  <2>7. Ahead(q, r + 1, k) = (y % n) + 1
    BY <1>1, <2>4 DEF Ahead
  <2>8. c - 1 + (j + k) = y + n * d
    BY <1>1, <2>1, <2>3, <2>4
  <2>9. Ahead(q, c, j + k) = ((y + n * d) % n) + 1
    BY <1>1, <2>8 DEF Ahead
  <2>10. QED
    BY <2>5, <2>6, <2>7, <2>9
<1>3. ASSUME NEW k \in Int PROVE Ahead(q, c, k + Len(q)) = Ahead(q, c, k)
  <2>1. PICK x \in Int : x = c - 1 + k
    BY <1>1
  <2>2. PICK one \in Int : one = 1
    OBVIOUS
  <2>3. (x + n * one) % n = x % n
    BY ModShift
  <2>4. c - 1 + (k + n) = x + n * one
    BY <1>1, <2>1, <2>2
  <2>5. QED
    BY <1>1, <2>1, <2>3, <2>4 DEF Ahead
<1>4. Ahead(q, c, 0) = c /\ MoveToNextProc(q, c) = Ahead(q, c, 1)
  <2>1. /\ \A x \in Int : 0 =< x /\ x < n => x % n = x
        /\ \A x \in Int : n =< x /\ x < n + n => x % n = x - n
    BY ModSmall
  <2>2. c - 1 \in Int /\ c - 1 + 0 = c - 1 /\ (c - 1) % n = c - 1
    BY <1>1, <2>1
  <2>3. c - 1 + 1 = c /\ (c < n => c % n = c) /\ (c = n => c % n = 0)
    BY <1>1, <2>1
  <2>4. QED
    BY <1>1, <2>2, <2>3 DEF Ahead, MoveToNextProc
<1>5. QED
  BY <1>2, <1>3, <1>4

-------------------------------------------------------------------------------
(* The loop of seek_pending_process                                            *)

\* What the loop does next: f is the loop with fewer rounds left.
SeekStep(q, pd, f, left) ==
    [at \in 1 .. Len(q) |->
        IF left = 0 THEN [proc |-> NoProc, cur |-> MoveToNextProc(q, at)]
        ELSE IF q[at] \in pd THEN [proc |-> q[at], cur |-> at]
        ELSE f[left - 1][MoveToNextProc(q, at)]]

Seeks(q, pd, f) == f = [left \in 0 .. Len(q) |-> SeekStep(q, pd, f, left)]

\* What it comes to: the first of so many steps at which somebody is pending.
First(K) == CHOOSE k \in K : \A j \in K : k =< j

PendingIn(q, c, pd, left) == {k \in 0 .. (left - 1) : ProcAhead(q, c, k) \in pd}

Sought(q, c, pd, left) ==
    LET K == PendingIn(q, c, pd, left)
    IN  IF K = {} THEN [proc |-> NoProc, cur |-> Ahead(q, c, left + 1)]
        ELSE [proc |-> ProcAhead(q, c, First(K)), cur |-> Ahead(q, c, First(K))]

\* The first element of a set of steps.
LEMMA FirstFacts ==
    ASSUME NEW K \in SUBSET Nat, NEW m \in K, \A j \in K : m =< j
    PROVE  First(K) = m
<1>1. First(K) \in K /\ \A j \in K : First(K) =< j
  BY DEF First
<1>2. First(K) \in Nat /\ m \in Nat /\ First(K) =< m /\ m =< First(K)
  BY <1>1
<1> HIDE DEF First
<1>3. QED
  BY <1>2

\* One round of the loop.
LEMMA SoughtStep ==
    ASSUME NEW q, Len(q) \in Nat \ {0}, NEW pd, NEW c \in 1 .. Len(q), NEW left \in Nat
    PROVE  Sought(q, c, pd, left) =
              IF left = 0 THEN [proc |-> NoProc, cur |-> MoveToNextProc(q, c)]
              ELSE IF q[c] \in pd THEN [proc |-> q[c], cur |-> c]
              ELSE Sought(q, MoveToNextProc(q, c), pd, left - 1)
<1> DEFINE K == PendingIn(q, c, pd, left)
<1>0. /\ Ahead(q, c, 0) = c /\ MoveToNextProc(q, c) = Ahead(q, c, 1)
      /\ ProcAhead(q, c, 0) = q[c]
  BY AheadSum DEF ProcAhead
<1>1. CASE left = 0
  <2>1. K = {} /\ left + 1 = 1
    BY <1>1 DEF PendingIn
  <2>2. QED
    BY <1>0, <1>1, <2>1 DEF Sought
<1>2. CASE left # 0 /\ q[c] \in pd
  <2>1. 0 \in K /\ K \in SUBSET Nat /\ \A j \in K : 0 =< j
    BY <1>0, <1>2 DEF PendingIn
  <2> HIDE DEF K
  <2>2. First(K) = 0
    BY <2>1, FirstFacts
  <2>3. K # {}
    BY <2>1
  <2>4. Sought(q, c, pd, left) = [proc |-> ProcAhead(q, c, 0), cur |-> Ahead(q, c, 0)]
    BY <2>2, <2>3 DEF Sought, K
  <2>5. QED
    BY <1>0, <1>2, <2>4
<1>3. CASE left # 0 /\ q[c] \notin pd
  <2> DEFINE d == Ahead(q, c, 1)
             L == PendingIn(q, d, pd, left - 1)
  <2>1. \A k \in Int : Ahead(q, d, k) = Ahead(q, c, 1 + k)
    BY AheadSum
  <2>2. \A k \in Int : ProcAhead(q, d, k) = ProcAhead(q, c, 1 + k)
    BY <2>1 DEF ProcAhead
  <2> HIDE DEF d
  <2>3. 0 \notin K
    BY <1>0, <1>3 DEF PendingIn
  <2>4. \A k \in Nat : k \in L <=> 1 + k \in K
    <3> SUFFICES ASSUME NEW k \in Nat PROVE k \in L <=> 1 + k \in K
      OBVIOUS
    <3>1. ProcAhead(q, d, k) = ProcAhead(q, c, 1 + k)
      BY <2>2
    <3>2. k \in 0 .. ((left - 1) - 1) <=> 1 + k \in 0 .. (left - 1)
      BY <1>3
    <3>3. QED
      BY <3>1, <3>2 DEF PendingIn
  <2>5. K \in SUBSET Nat /\ L \in SUBSET Nat
    BY DEF PendingIn
  <2> HIDE DEF K, L
  <2>6. CASE L = {}
    <3>1. K = {}
      <4> SUFFICES ASSUME NEW k \in K PROVE FALSE
        OBVIOUS
      <4>1. k \in Nat \ {0} /\ k - 1 \in Nat /\ 1 + (k - 1) = k
        BY <2>3, <2>5
      <4>2. QED
        BY <2>4, <2>6, <4>1
    <3>2. Ahead(q, d, (left - 1) + 1) = Ahead(q, c, left + 1)
      <4>1. (left - 1) + 1 \in Int /\ 1 + ((left - 1) + 1) = left + 1
        OBVIOUS
      <4>2. QED
        BY <2>1, <4>1
    <3>3. QED
      BY <1>0, <1>3, <2>6, <3>1, <3>2 DEF Sought, K, L, d
  <2>7. CASE L # {}
    <3>1. PICK m \in L : \A j \in L : m =< j
      BY <2>5, <2>7, HasMin
    <3>2. First(L) = m
      BY <2>5, <3>1, FirstFacts
    <3>3. 1 + m \in K /\ \A j \in K : 1 + m =< j
      <4>1. 1 + m \in K
        BY <2>4, <2>5, <3>1
      <4>2. ASSUME NEW j \in K PROVE 1 + m =< j
        <5>1. j \in Nat \ {0} /\ j - 1 \in Nat /\ 1 + (j - 1) = j
          BY <2>3, <2>5
        <5>2. j - 1 \in L
          BY <2>4, <5>1
        <5>3. m \in Nat /\ m =< j - 1
          BY <2>5, <3>1, <5>2
        <5>4. QED
          BY <5>1, <5>3
      <4>3. QED
        BY <4>1, <4>2
    <3>4. First(K) = 1 + m
      BY <2>5, <3>3, FirstFacts
    <3>5. Ahead(q, d, m) = Ahead(q, c, 1 + m) /\ ProcAhead(q, d, m) = ProcAhead(q, c, 1 + m)
      BY <2>1, <2>2, <2>5, <3>1
    <3>6. K # {}
      BY <3>3
    <3>7. Sought(q, c, pd, left) = [proc |-> ProcAhead(q, c, 1 + m), cur |-> Ahead(q, c, 1 + m)]
      BY <3>4, <3>6 DEF Sought, K
    <3>8. Sought(q, d, pd, left - 1) = [proc |-> ProcAhead(q, d, m), cur |-> Ahead(q, d, m)]
      BY <2>7, <3>2 DEF Sought, L
    <3>9. QED
      BY <1>0, <1>3, <3>5, <3>7, <3>8 DEF d
  <2>8. QED
    BY <2>6, <2>7
<1>4. QED
  BY <1>1, <1>2, <1>3

\* The loop finds what is sought, once round the queue.
LEMMA SeekLoopFacts ==
    ASSUME NEW q, Len(q) \in Nat \ {0}, NEW pd, NEW c \in 1 .. Len(q)
    PROVE  SeekLoop(q, c, pd) = Sought(q, c, pd, Len(q))
<1> DEFINE n == Len(q)
           g == [left \in 0 .. n |-> [at \in 1 .. n |-> Sought(q, at, pd, left)]]
           f == CHOOSE h : Seeks(q, pd, h)
<1>1. n \in Nat \ {0}
  OBVIOUS
<1>2. \A at \in 1 .. n : MoveToNextProc(q, at) \in 1 .. n
  BY <1>1 DEF MoveToNextProc
<1>3. Seeks(q, pd, g)
  <2>1. ASSUME NEW left \in 0 .. n PROVE g[left] = SeekStep(q, pd, g, left)
    <3>1. ASSUME NEW at \in 1 .. n
          PROVE  Sought(q, at, pd, left) =
                   IF left = 0 THEN [proc |-> NoProc, cur |-> MoveToNextProc(q, at)]
                   ELSE IF q[at] \in pd THEN [proc |-> q[at], cur |-> at]
                   ELSE g[left - 1][MoveToNextProc(q, at)]
      <4>1. left \in Nat
        BY <1>1
      <4>2. left # 0 => g[left - 1][MoveToNextProc(q, at)] = Sought(q, MoveToNextProc(q, at), pd, left - 1)
        <5>1. left # 0 => left - 1 \in 0 .. n
          BY <1>1
        <5>2. QED
          BY <1>2, <5>1
      <4> HIDE DEF g
      <4>3. Sought(q, at, pd, left) =
              IF left = 0 THEN [proc |-> NoProc, cur |-> MoveToNextProc(q, at)]
              ELSE IF q[at] \in pd THEN [proc |-> q[at], cur |-> at]
              ELSE Sought(q, MoveToNextProc(q, at), pd, left - 1)
        BY <4>1, SoughtStep
      <4>4. QED
        BY <4>2, <4>3
    <3>2. g[left] = [at \in 1 .. n |-> Sought(q, at, pd, left)]
      OBVIOUS
    <3> HIDE DEF g
    <3>3. QED
      BY <3>1, <3>2 DEF SeekStep
  <2>2. g = [left \in 0 .. n |-> g[left]]
    OBVIOUS
  <2> HIDE DEF g
  <2>3. QED
    BY <2>1, <2>2 DEF Seeks
<1>4. Seeks(q, pd, f)
  <2> HIDE DEF g
  <2> QED BY <1>3
<1>5. SeekLoop(q, c, pd) = f[n][c]
  BY DEF SeekLoop, Seeks, SeekStep
<1> HIDE DEF f
<1> DEFINE G == {k \in 0 .. n : f[k] = g[k]}
<1>6. ASSUME NEW k \in 0 .. n PROVE f[k] = SeekStep(q, pd, f, k) /\ g[k] = SeekStep(q, pd, g, k)
  <2> HIDE DEF g
  <2> QED BY <1>3, <1>4 DEF Seeks
<1>7. 0 \in G
  <2>1. 0 \in 0 .. n /\ SeekStep(q, pd, f, 0) = SeekStep(q, pd, g, 0)
    BY <1>1 DEF SeekStep
  <2> HIDE DEF g
  <2>2. QED
    BY <1>6, <2>1
<1>8. ASSUME NEW k \in 1 .. n, k - 1 \in G PROVE k \in G
  <2>1. k \in 0 .. n /\ f[k - 1] = g[k - 1]
    BY <1>1, <1>8
  <2> HIDE DEF g
  <2>2. SeekStep(q, pd, f, k) = SeekStep(q, pd, g, k)
    BY <2>1 DEF SeekStep
  <2>3. QED
    BY <1>6, <2>1, <2>2
<1>9. n \in G
  <2> DEFINE B == {k \in 0 .. n : k \notin G}
  <2> HIDE DEF G
  <2> SUFFICES ASSUME n \notin G PROVE FALSE
    OBVIOUS
  <2>1. B \in SUBSET Nat /\ n \in B
    BY <1>1
  <2>2. PICK m \in B : \A j \in B : m =< j
    <3> HIDE DEF B
    <3> QED BY <2>1, HasMin
  <2>3. m \in 1 .. n /\ m - 1 \in 0 .. n /\ m - 1 \notin B
    BY <1>1, <1>7, <2>2
  <2>4. QED
    BY <1>8, <2>2, <2>3
<1>10. g[n][c] = Sought(q, c, pd, n)
  BY <1>1
<1>11. QED
  <2> HIDE DEF g
  <2> QED BY <1>5, <1>9, <1>10

\* seek_pending_process, once round: the first pending process, or nobody.
LEMMA SeekFacts ==
    ASSUME NEW q, Len(q) \in Nat \ {0}, NEW pd, NEW c \in 1 .. Len(q)
    PROVE  LET K == PendingSteps(q, c, pd)
           IN  SeekLoop(q, c, pd) =
                  IF K = {} THEN [proc |-> NoProc, cur |-> Ahead(q, c, 1)]
                  ELSE [proc |-> ProcAhead(q, c, First(K)), cur |-> Ahead(q, c, First(K))]
<1>1. PendingIn(q, c, pd, Len(q)) = PendingSteps(q, c, pd)
  BY DEF PendingIn, PendingSteps, Steps
<1>2. Ahead(q, c, Len(q) + 1) = Ahead(q, c, 1)
  <2>1. 1 + Len(q) = Len(q) + 1
    OBVIOUS
  <2>2. Ahead(q, c, 1 + Len(q)) = Ahead(q, c, 1)
    BY AheadSum
  <2>3. QED
    BY <2>1, <2>2
<1>3. SeekLoop(q, c, pd) = Sought(q, c, pd, Len(q))
  BY SeekLoopFacts
<1>4. QED
  BY <1>1, <1>2, <1>3 DEF Sought

-------------------------------------------------------------------------------
(* The recursion of start_next_process                                         *)

\* The outcomes of the closed form: the process k steps ahead runs, ...
Skips(q, c, pd, k) == {ProcAhead(q, c, j) : j \in {i \in PendingSteps(q, c, pd) : i < k}}

Runs(q, c, pd, k, b) ==
    [proc |-> ProcAhead(q, c, k), budget |-> b, cur |-> Ahead(q, c, k),
     skipped |-> Skips(q, c, pd, k)]

\* ... after those before it were skipped, ...
Reached(q, c, pd, dr, k) ==
    /\ k \in PendingSteps(q, c, pd)
    /\ \A j \in PendingSteps(q, c, pd) : j < k => 0 \in dr[ProcAhead(q, c, j)]

\* ... or everybody is skipped.
Last(K) == CHOOSE k \in K : \A j \in K : j =< k

Nobody(q, c, pd) ==
    LET K == PendingSteps(q, c, pd)
    IN  [proc |-> NoProc, budget |-> 0,
         cur |-> IF K = {} THEN Ahead(q, c, 1) ELSE Ahead(q, c, 1 + Last(K)),
         skipped |-> {ProcAhead(q, c, k) : k \in K}]

AllSkipped(q, c, pd, dr) == \A k \in PendingSteps(q, c, pd) : 0 \in dr[ProcAhead(q, c, k)]

\* StartNext: a process that was reached runs, or everybody was skipped.
LEMMA Outcomes ==
    ASSUME NEW q, NEW c, NEW pd, NEW dr, NEW o
    PROVE  o \in StartNext(q, c, pd, dr, NoProc) <=>
              \/ \E k : /\ Reached(q, c, pd, dr, k)
                        /\ \E b \in dr[ProcAhead(q, c, k)] \ {0} : o = Runs(q, c, pd, k, b)
              \/ AllSkipped(q, c, pd, dr) /\ o = Nobody(q, c, pd)
<1>1. o \in Chosen(q, c, pd, dr) <=>
        \E k : /\ Reached(q, c, pd, dr, k)
               /\ \E b \in dr[ProcAhead(q, c, k)] \ {0} : o = Runs(q, c, pd, k, b)
  BY DEF Chosen, Reached, Runs, Skips
<1>2. o \in Exhausted(q, c, pd, dr, NoProc) <=> AllSkipped(q, c, pd, dr) /\ o = Nobody(q, c, pd)
  BY DEF Exhausted, AllSkipped, Nobody, Last
<1>3. QED
  BY <1>1, <1>2 DEF StartNext

\* The search goes on from the first pending process, at d, without it: the other
\* pending processes are met in the same order, m steps earlier.
Onward(q, c, pd, m, d, rest) ==
    /\ d \in 1 .. Len(q) /\ rest = pd \ {q[d]}
    /\ m \in Nat
    /\ PendingSteps(q, c, pd) \in SUBSET Nat /\ PendingSteps(q, d, rest) \in SUBSET Nat
    /\ m \in PendingSteps(q, c, pd) /\ \A j \in PendingSteps(q, c, pd) : m =< j
    /\ ProcAhead(q, c, m) = q[d] /\ Ahead(q, c, m) = d
    /\ 0 \notin PendingSteps(q, d, rest)
    /\ \A k \in Nat : k # 0 => (k \in PendingSteps(q, d, rest) <=> m + k \in PendingSteps(q, c, pd))
    /\ \A k \in Nat : /\ ProcAhead(q, d, k) = ProcAhead(q, c, m + k)
                      /\ Ahead(q, d, k) = Ahead(q, c, m + k)

\* The search that skips the first pending process goes on in this way.
LEMMA GoesOn ==
    ASSUME NEW q, Queue(q), NEW c \in 1 .. Len(q), NEW pd, PendingSteps(q, c, pd) # {}
    PROVE  LET m == First(PendingSteps(q, c, pd))
               d == Ahead(q, c, m)
           IN  Onward(q, c, pd, m, d, pd \ {q[d]})
<1> DEFINE K == PendingSteps(q, c, pd)
           m == First(K)
           d == Ahead(q, c, m)
           rest == pd \ {q[d]}
           L == PendingSteps(q, d, rest)
<1>1. PICK n \in Nat \ {0} : n = Len(q) /\ Steps(q) = 0 .. n - 1
  <2>1. Len(q) \in Nat \ {0}
    BY DEF Queue
  <2>2. QED
    BY <2>1 DEF Steps
<1>2. K \in SUBSET (0 .. n - 1) /\ K # {} /\ K \in SUBSET Nat
  BY <1>1 DEF PendingSteps
<1>3. m \in K /\ \A j \in K : m =< j
  <2>1. PICK k \in K : \A j \in K : k =< j
    <3> HIDE DEF K
    <3> QED BY <1>2, HasMin
  <2> HIDE DEF K
  <2>2. QED
    BY <2>1 DEF First
<1>4. m \in 0 .. n - 1 /\ m \in Nat
  BY <1>2, <1>3
<1> HIDE DEF m
<1>5. d \in 1 .. n
  BY <1>1, <1>4, AheadType
<1>6. \A k \in Int : Ahead(q, d, k) = Ahead(q, c, m + k)
  BY <1>1, <1>4, AheadSum
<1>7. \A k \in Int : ProcAhead(q, d, k) = ProcAhead(q, c, m + k)
  BY <1>6 DEF ProcAhead
<1>8. ProcAhead(q, c, m) = q[d] /\ Ahead(q, c, m) = d
  BY DEF ProcAhead
<1>9. Ahead(q, d, 0) = d
  BY <1>1, <1>5, AheadSum
<1> HIDE DEF d
<1>10. 0 \notin L
  BY <1>9 DEF PendingSteps, ProcAhead
<1>11. L \in SUBSET Nat /\ \A k \in L : k \in 0 .. n - 1
  BY <1>1 DEF PendingSteps
<1>12. ASSUME NEW k \in Nat, k # 0, k \in L PROVE m + k \in K
  <2>1. k \in 0 .. n - 1 /\ ProcAhead(q, c, m + k) \in pd
    BY <1>1, <1>7, <1>12 DEF PendingSteps
  <2>2. CASE m + k < n
    BY <1>1, <1>4, <2>1, <2>2 DEF PendingSteps
  <2>3. CASE m + k >= n
    <3> DEFINE j == m + k - n
    <3>1. j \in 0 .. n - 1 /\ j < m /\ j + n = m + k
      BY <1>4, <2>1, <2>3
    <3>2. Ahead(q, c, j + n) = Ahead(q, c, j)
      BY <1>1, <3>1, AheadSum
    <3>3. ProcAhead(q, c, j) \in pd
      BY <2>1, <3>1, <3>2 DEF ProcAhead
    <3>4. j \in K
      BY <1>1, <3>1, <3>3 DEF PendingSteps
    <3>5. QED
      BY <1>3, <1>4, <3>1, <3>4
  <2>4. QED
    BY <1>4, <2>1, <2>2, <2>3
<1>13. ASSUME NEW k \in Nat, k # 0, m + k \in K PROVE k \in L
  <2>1. m + k \in 0 .. n - 1 /\ k \in 0 .. n - 1 /\ m + k # m /\ ProcAhead(q, c, m + k) \in pd
    BY <1>1, <1>4, <1>13 DEF PendingSteps
  <2>2. Ahead(q, c, m + k) # Ahead(q, c, m)
    BY <1>1, <1>4, <2>1, OnceRound
  <2>3. Ahead(q, c, m + k) \in 1 .. n
    BY <1>1, <2>1, AheadType
  <2>4. ProcAhead(q, c, m + k) # q[d]
    BY <1>1, <1>5, <1>8, <2>2, <2>3 DEF ProcAhead, Queue
  <2>5. ProcAhead(q, d, k) \in rest
    BY <1>7, <2>1, <2>4
  <2>6. QED
    BY <1>1, <2>1, <2>5 DEF PendingSteps
<1>14. \A k \in Nat : /\ ProcAhead(q, d, k) = ProcAhead(q, c, m + k)
                      /\ Ahead(q, d, k) = Ahead(q, c, m + k)
  BY <1>6, <1>7
<1>15. Onward(q, c, pd, m, d, rest)
  BY <1>1, <1>2, <1>3, <1>4, <1>5, <1>8, <1>10, <1>11, <1>12, <1>13, <1>14 DEF Onward
<1>16. QED
  BY <1>15 DEF m, d

\* A process with empty budget is marked completed.
Skip(o, p) == [o EXCEPT !.skipped = @ \cup {p}]

\* Skipping changes nothing else in an outcome.
LEMMA SkipFacts ==
    ASSUME NEW x, NEW b, NEW at, NEW s, NEW p
    PROVE  Skip([proc |-> x, budget |-> b, cur |-> at, skipped |-> s], p) =
              [proc |-> x, budget |-> b, cur |-> at, skipped |-> s \cup {p}]
BY DEF Skip

\* What follows the first pending process has the same outcomes for the search
\* that goes on from it, apart from the process that was skipped.
LEMMA OnwardSets ==
    ASSUME NEW q, NEW c, NEW pd, NEW m, NEW d, NEW rest, Onward(q, c, pd, m, d, rest)
    PROVE  LET K == PendingSteps(q, c, pd)
               L == PendingSteps(q, d, rest)
           IN  /\ \A j \in K : j = m \/ (j - m \in L /\ j - m \in Nat \ {0} /\ m + (j - m) = j)
               /\ \A k \in L : k \in Nat \ {0} /\ m + k \in K /\ m < m + k
<1> DEFINE K == PendingSteps(q, c, pd)
           L == PendingSteps(q, d, rest)
<1>1. /\ m \in Nat /\ K \in SUBSET Nat /\ L \in SUBSET Nat
      /\ \A j \in K : m =< j
      /\ 0 \notin L
      /\ \A k \in Nat : k # 0 => (k \in L <=> m + k \in K)
  BY DEF Onward
<1> HIDE DEF K, L
<1>2. ASSUME NEW j \in K, j # m
      PROVE  j - m \in L /\ j - m \in Nat \ {0} /\ m + (j - m) = j
  <2>1. j - m \in Nat \ {0} /\ m + (j - m) = j
    BY <1>1, <1>2
  <2>2. QED
    BY <1>1, <1>2, <2>1
<1>3. \A k \in L : k \in Nat \ {0} /\ m + k \in K /\ m < m + k
  BY <1>1
<1>4. QED
  BY <1>2, <1>3 DEF K, L

\* Who is reached after the first pending process is who the search from there
\* reaches, provided that the first one may draw a budget of zero.
LEMMA OnwardReached ==
    ASSUME NEW q, NEW c, NEW pd, NEW m, NEW d, NEW rest, Onward(q, c, pd, m, d, rest),
           NEW dr
    PROVE  /\ Reached(q, c, pd, dr, m)
           /\ \A k \in PendingSteps(q, d, rest) :
                 Reached(q, c, pd, dr, m + k) <=> 0 \in dr[q[d]] /\ Reached(q, d, rest, dr, k)
           /\ AllSkipped(q, c, pd, dr) <=> 0 \in dr[q[d]] /\ AllSkipped(q, d, rest, dr)
<1> DEFINE K == PendingSteps(q, c, pd)
           L == PendingSteps(q, d, rest)
           Z(k) == 0 \in dr[ProcAhead(q, c, k)]
<1>1. /\ \A j \in K : j = m \/ (j - m \in L /\ j - m \in Nat \ {0} /\ m + (j - m) = j)
      /\ \A k \in L : k \in Nat \ {0} /\ m + k \in K /\ m < m + k
  BY OnwardSets
<1>2. /\ m \in K /\ m \in Nat /\ K \in SUBSET Nat /\ L \in SUBSET Nat /\ \A j \in K : m =< j
      /\ Z(m) <=> 0 \in dr[q[d]]
      /\ \A k \in Nat : 0 \in dr[ProcAhead(q, d, k)] <=> Z(m + k)
  BY DEF Onward
<1>3. \A k : Reached(q, c, pd, dr, k) <=> k \in K /\ \A j \in K : j < k => Z(j)
  BY DEF Reached
<1>4. \A k : Reached(q, d, rest, dr, k) <=> k \in L /\ \A j \in L : j < k => Z(m + j)
  BY <1>2 DEF Reached
<1>5. AllSkipped(q, c, pd, dr) <=> \A k \in K : Z(k)
  BY DEF AllSkipped
<1>6. AllSkipped(q, d, rest, dr) <=> \A k \in L : Z(m + k)
  BY <1>2 DEF AllSkipped
<1> HIDE DEF K, L, Z
<1>7. Reached(q, c, pd, dr, m)
  BY <1>2, <1>3
<1>8. ASSUME NEW k \in L
      PROVE  Reached(q, c, pd, dr, m + k) <=> 0 \in dr[q[d]] /\ Reached(q, d, rest, dr, k)
  <2>1. k \in Nat /\ m + k \in K /\ m < m + k
    BY <1>1
  <2>2. ASSUME Reached(q, c, pd, dr, m + k) PROVE 0 \in dr[q[d]] /\ Reached(q, d, rest, dr, k)
    <3>1. \A j \in K : j < m + k => Z(j)
      BY <1>3, <2>2
    <3>2. \A j \in L : j < k => Z(m + j)
      BY <1>1, <1>2, <2>1, <3>1
    <3>3. QED
      BY <1>2, <1>4, <2>1, <3>1, <3>2
  <2>3. ASSUME 0 \in dr[q[d]], Reached(q, d, rest, dr, k) PROVE Reached(q, c, pd, dr, m + k)
    <3>1. \A j \in L : j < k => Z(m + j)
      BY <1>4, <2>3
    <3>2. ASSUME NEW j \in K, j < m + k PROVE Z(j)
      <4>1. CASE j = m
        BY <1>2, <2>3, <4>1
      <4>2. CASE j # m
        <5>1. j - m \in L /\ j - m \in Nat /\ m + (j - m) = j
          BY <1>1, <4>2
        <5>2. j - m < k
          BY <1>2, <2>1, <3>2, <5>1
        <5>3. Z(m + (j - m))
          BY <3>1, <5>1, <5>2
        <5>4. QED
          BY <5>1, <5>3
      <4>3. QED
        BY <4>1, <4>2
    <3>3. QED
      BY <1>3, <2>1, <3>2
  <2>4. QED
    BY <2>2, <2>3
<1>9. AllSkipped(q, c, pd, dr) <=> 0 \in dr[q[d]] /\ AllSkipped(q, d, rest, dr)
  <2>1. ASSUME \A k \in K : Z(k) PROVE Z(m) /\ \A k \in L : Z(m + k)
    BY <1>1, <1>2, <2>1
  <2>2. ASSUME Z(m), \A k \in L : Z(m + k), NEW k \in K PROVE Z(k)
    <3>1. CASE k = m
      BY <2>2, <3>1
    <3>2. CASE k # m
      <4>1. k - m \in L /\ m + (k - m) = k
        BY <1>1, <3>2
      <4>2. Z(m + (k - m))
        BY <2>2, <4>1
      <4>3. QED
        BY <4>1, <4>2
    <3>3. QED
      BY <3>1, <3>2
  <2>3. QED
    BY <1>2, <1>5, <1>6, <2>1, <2>2
<1>10. QED
  BY <1>7, <1>8, <1>9 DEF L

\* The outcomes are those of the search from there, with the first pending process
\* among the skipped ones.
LEMMA OnwardRecords ==
    ASSUME NEW q, NEW c \in 1 .. Len(q), NEW pd, NEW m, NEW d, NEW rest,
           Len(q) \in Nat \ {0}, Onward(q, c, pd, m, d, rest)
    PROVE  /\ \A b : Runs(q, c, pd, m, b) = [proc |-> q[d], budget |-> b, cur |-> d, skipped |-> {}]
           /\ \A k \in PendingSteps(q, d, rest) : \A b :
                 Runs(q, c, pd, m + k, b) = Skip(Runs(q, d, rest, k, b), q[d])
           /\ Nobody(q, c, pd) = Skip(Nobody(q, d, rest), q[d])
<1> DEFINE K == PendingSteps(q, c, pd)
           L == PendingSteps(q, d, rest)
<1>1. /\ \A j \in K : j = m \/ (j - m \in L /\ j - m \in Nat \ {0} /\ m + (j - m) = j)
      /\ \A k \in L : k \in Nat \ {0} /\ m + k \in K /\ m < m + k
  BY OnwardSets
<1>2. /\ m \in K /\ m \in Nat /\ K \in SUBSET Nat /\ L \in SUBSET Nat /\ \A j \in K : m =< j
      /\ ProcAhead(q, c, m) = q[d] /\ Ahead(q, c, m) = d
      /\ \A k \in Nat : /\ ProcAhead(q, d, k) = ProcAhead(q, c, m + k)
                        /\ Ahead(q, d, k) = Ahead(q, c, m + k)
  BY DEF Onward
<1>3. \A k : Skips(q, c, pd, k) = {ProcAhead(q, c, j) : j \in {i \in K : i < k}}
  BY DEF Skips
<1>4. \A k : Skips(q, d, rest, k) = {ProcAhead(q, d, j) : j \in {i \in L : i < k}}
  BY DEF Skips
<1> HIDE DEF K, L
<1>5. Skips(q, c, pd, m) = {}
  BY <1>2, <1>3
<1>6. ASSUME NEW k \in L PROVE Skips(q, c, pd, m + k) = Skips(q, d, rest, k) \cup {q[d]}
  <2>1. k \in Nat /\ m < m + k
    BY <1>1
  <2>2. ASSUME NEW j \in K, j < m + k
        PROVE  ProcAhead(q, c, j) \in Skips(q, d, rest, k) \cup {q[d]}
    <3>1. CASE j = m
      BY <1>2, <3>1
    <3>2. CASE j # m
      <4>1. PICK i \in L : i \in Nat /\ m + i = j
        BY <1>1, <3>2
      <4>2. i < k
        BY <1>2, <2>1, <2>2, <4>1
      <4>3. ProcAhead(q, d, i) = ProcAhead(q, c, j)
        BY <1>2, <4>1
      <4>4. QED
        BY <1>4, <4>2, <4>3
    <3>3. QED
      BY <3>1, <3>2
  <2>3. ASSUME NEW i \in L, i < k PROVE ProcAhead(q, d, i) \in Skips(q, c, pd, m + k)
    <3>1. i \in Nat /\ m + i \in K /\ m + i < m + k
      BY <1>1, <1>2, <2>1, <2>3
    <3>2. ProcAhead(q, d, i) = ProcAhead(q, c, m + i)
      BY <1>2, <3>1
    <3>3. QED
      BY <1>3, <3>1, <3>2
  <2>4. q[d] \in Skips(q, c, pd, m + k)
    BY <1>2, <1>3, <2>1
  <2>5. QED
    BY <1>3, <1>4, <2>2, <2>3, <2>4
<1>7. \A b : Runs(q, c, pd, m, b) = [proc |-> q[d], budget |-> b, cur |-> d, skipped |-> {}]
  BY <1>2, <1>5 DEF Runs
<1>8. ASSUME NEW k \in L, NEW b
      PROVE  Runs(q, c, pd, m + k, b) = Skip(Runs(q, d, rest, k, b), q[d])
  <2>1. k \in Nat /\ ProcAhead(q, d, k) = ProcAhead(q, c, m + k) /\ Ahead(q, d, k) = Ahead(q, c, m + k)
    BY <1>1, <1>2
  <2>2. QED
    BY <1>6, <2>1, SkipFacts DEF Runs
<1>9. {ProcAhead(q, c, k) : k \in K} = {ProcAhead(q, d, k) : k \in L} \cup {q[d]}
  <2>1. ASSUME NEW j \in K PROVE ProcAhead(q, c, j) \in {ProcAhead(q, d, k) : k \in L} \cup {q[d]}
    <3>1. CASE j = m
      BY <1>2, <3>1
    <3>2. CASE j # m
      <4>1. PICK i \in L : i \in Nat /\ m + i = j
        BY <1>1, <3>2
      <4>2. ProcAhead(q, d, i) = ProcAhead(q, c, j)
        BY <1>2, <4>1
      <4>3. QED
        BY <4>2
    <3>3. QED
      BY <3>1, <3>2
  <2>2. ASSUME NEW i \in L PROVE ProcAhead(q, d, i) \in {ProcAhead(q, c, k) : k \in K}
    <3>1. i \in Nat /\ m + i \in K /\ ProcAhead(q, d, i) = ProcAhead(q, c, m + i)
      BY <1>1, <1>2
    <3>2. QED
      BY <3>1
  <2>3. q[d] \in {ProcAhead(q, c, k) : k \in K}
    BY <1>2
  <2>4. QED
    BY <2>1, <2>2, <2>3
<1> DEFINE cq == IF K = {} THEN Ahead(q, c, 1) ELSE Ahead(q, c, 1 + Last(K))
           dq == IF L = {} THEN Ahead(q, d, 1) ELSE Ahead(q, d, 1 + Last(L))
<1>10. cq = dq
  <2>1. K # {}
    BY <1>2
  <2>2. ASSUME NEW x \in K, \A j \in K : j =< x PROVE Last(K) = x
    <3>1. Last(K) \in K /\ \A j \in K : j =< Last(K)
      BY <2>2 DEF Last
    <3>2. Last(K) =< x /\ x =< Last(K) /\ x \in Nat /\ Last(K) \in Nat
      BY <1>2, <2>2, <3>1
    <3>3. QED
      BY <3>2
  <2>3. CASE L = {}
    <3>1. \A j \in K : j = m
      BY <1>1, <2>3
    <3>2. Last(K) = m
      BY <1>2, <2>2, <3>1
    <3>3. Ahead(q, d, 1) = Ahead(q, c, 1 + m)
      <4>1. 1 \in Nat /\ m + 1 = 1 + m
        BY <1>2
      <4>2. QED
        BY <1>2, <4>1
    <3>4. QED
      BY <2>1, <2>3, <3>2, <3>3
  <2>4. CASE L # {}
    <3>1. L \in SUBSET (0 .. Len(q) - 1)
      BY DEF L, PendingSteps, Steps
    <3>2. \E x \in L : \A j \in L : j =< x
      <4>1. Len(q) - 1 \in Int
        OBVIOUS
      <4>2. QED
        BY <2>4, <3>1, <4>1, HasMax
    <3>3. Last(L) \in L /\ \A j \in L : j =< Last(L)
      BY <3>2 DEF Last
    <3>4. PICK x \in L : x = Last(L) /\ \A j \in L : j =< x
      BY <3>3
    <3>5. m + x \in K /\ x \in Nat
      BY <1>1
    <3>6. \A j \in K : j =< m + x
      <4> SUFFICES ASSUME NEW j \in K PROVE j =< m + x
        OBVIOUS
      <4>1. CASE j = m
        BY <1>2, <3>5, <4>1
      <4>2. CASE j # m
        <5>1. PICK i \in L : i \in Nat /\ m + i = j
          BY <1>1, <4>2
        <5>2. i =< x
          BY <3>4
        <5>3. QED
          BY <1>2, <3>5, <5>1, <5>2
      <4>3. QED
        BY <4>1, <4>2
    <3>7. Last(K) = m + x
      BY <2>2, <3>5, <3>6
    <3>8. Ahead(q, d, 1 + x) = Ahead(q, c, 1 + (m + x))
      <4>1. 1 + x \in Nat /\ m + (1 + x) = 1 + (m + x)
        BY <1>2, <3>5
      <4>2. QED
        BY <1>2, <4>1
    <3>9. QED
      BY <2>1, <2>4, <3>4, <3>7, <3>8
  <2>5. QED
    BY <2>3, <2>4
<1>11. Nobody(q, c, pd) = Skip(Nobody(q, d, rest), q[d])
  <2> DEFINE A == {ProcAhead(q, c, k) : k \in K}
             B == {ProcAhead(q, d, k) : k \in L}
  <2>1. Nobody(q, c, pd) = [proc |-> NoProc, budget |-> 0, cur |-> cq, skipped |-> A]
    BY DEF Nobody, K
  <2>2. Nobody(q, d, rest) = [proc |-> NoProc, budget |-> 0, cur |-> dq, skipped |-> B]
    BY DEF Nobody, L
  <2>3. A = B \cup {q[d]}
    BY <1>9
  <2> HIDE DEF cq, dq, A, B
  <2>4. Skip([proc |-> NoProc, budget |-> 0, cur |-> dq, skipped |-> B], q[d]) =
           [proc |-> NoProc, budget |-> 0, cur |-> dq, skipped |-> B \cup {q[d]}]
    BY SkipFacts
  <2>5. QED
    BY <1>10, <2>1, <2>2, <2>3, <2>4
<1>12. QED
  BY <1>7, <1>8, <1>11 DEF L

\* The first pending process, at d, runs, or is skipped and the search goes on with
\* the outcomes after.
FirstAt(q, c, pd) == Ahead(q, c, First(PendingSteps(q, c, pd)))

Continues(q, dr, d, after) ==
    UNION {IF b = 0 THEN {Skip(o, q[d]) : o \in after}
           ELSE {[proc |-> q[d], budget |-> b, cur |-> d, skipped |-> {}]}
           : b \in dr[q[d]]}

\* The outcomes of the closed form are these.
LEMMA StartStep ==
    ASSUME NEW q, Queue(q), NEW c \in 1 .. Len(q), NEW pd, PendingSteps(q, c, pd) # {}, NEW dr
    PROVE  LET d == FirstAt(q, c, pd)
           IN  StartNext(q, c, pd, dr, NoProc) =
                  Continues(q, dr, d, StartNext(q, d, pd \ {q[d]}, dr, NoProc))
<1> DEFINE m == First(PendingSteps(q, c, pd))
           d == Ahead(q, c, m)
           p == q[d]
           rest == pd \ {p}
           K == PendingSteps(q, c, pd)
           L == PendingSteps(q, d, rest)
           After == StartNext(q, d, rest, dr, NoProc)
           One(b) == [proc |-> p, budget |-> b, cur |-> d, skipped |-> {}]
           Branch(b) == IF b = 0 THEN {Skip(o, p) : o \in After} ELSE {One(b)}
<1>1. Onward(q, c, pd, m, d, rest)
  BY GoesOn
<1>2. Len(q) \in Nat \ {0}
  BY DEF Queue
<1> HIDE DEF m, d, rest
<1>3. /\ \A j \in K : j = m \/ (j - m \in L /\ m + (j - m) = j)
      /\ \A k \in L : k \in Nat /\ m + k \in K
  BY <1>1, OnwardSets
<1>4. /\ Reached(q, c, pd, dr, m)
      /\ \A k \in L :
            Reached(q, c, pd, dr, m + k) <=> 0 \in dr[p] /\ Reached(q, d, rest, dr, k)
      /\ AllSkipped(q, c, pd, dr) <=> 0 \in dr[p] /\ AllSkipped(q, d, rest, dr)
  BY <1>1, OnwardReached
<1>5. /\ \A b : Runs(q, c, pd, m, b) = One(b)
      /\ \A k \in L : \A b : Runs(q, c, pd, m + k, b) = Skip(Runs(q, d, rest, k, b), p)
      /\ Nobody(q, c, pd) = Skip(Nobody(q, d, rest), p)
  BY <1>1, <1>2, OnwardRecords
<1>6. /\ ProcAhead(q, c, m) = p
      /\ \A k \in L : ProcAhead(q, d, k) = ProcAhead(q, c, m + k)
  BY <1>1, <1>3 DEF Onward
<1>7. \A o : o \in After <=>
         \/ \E k : /\ Reached(q, d, rest, dr, k)
                   /\ \E b \in dr[ProcAhead(q, d, k)] \ {0} : o = Runs(q, d, rest, k, b)
         \/ AllSkipped(q, d, rest, dr) /\ o = Nobody(q, d, rest)
  BY Outcomes
<1>8. \A o : o \in StartNext(q, c, pd, dr, NoProc) <=>
         \/ \E k : /\ Reached(q, c, pd, dr, k)
                   /\ \E b \in dr[ProcAhead(q, c, k)] \ {0} : o = Runs(q, c, pd, k, b)
         \/ AllSkipped(q, c, pd, dr) /\ o = Nobody(q, c, pd)
  BY Outcomes
<1>9. /\ \A k : Reached(q, c, pd, dr, k) => k \in K
      /\ \A k : Reached(q, d, rest, dr, k) => k \in L
  BY DEF Reached
<1> HIDE DEF After, One, p, K, L
<1>10. ASSUME NEW o \in StartNext(q, c, pd, dr, NoProc) PROVE \E b \in dr[p] : o \in Branch(b)
  <2>1. CASE AllSkipped(q, c, pd, dr) /\ o = Nobody(q, c, pd)
    <3>1. 0 \in dr[p] /\ Nobody(q, d, rest) \in After
      BY <1>4, <1>7, <2>1
    <3>2. o \in Branch(0)
      BY <1>5, <2>1, <3>1
    <3>3. QED
      BY <3>1, <3>2
  <2>2. ASSUME NEW k, Reached(q, c, pd, dr, k),
               NEW b \in dr[ProcAhead(q, c, k)] \ {0}, o = Runs(q, c, pd, k, b)
        PROVE  \E x \in dr[p] : o \in Branch(x)
    <3>1. CASE k = m
      <4>1. b \in dr[p] /\ b # 0 /\ o = One(b)
        BY <1>5, <1>6, <2>2, <3>1
      <4>2. QED
        BY <4>1
    <3>2. CASE k # m
      <4>1. PICK i \in L : m + i = k
        BY <1>3, <1>9, <2>2, <3>2
      <4>2. 0 \in dr[p] /\ Reached(q, d, rest, dr, i)
        BY <1>4, <2>2, <4>1
      <4>3. b \in dr[ProcAhead(q, d, i)] \ {0}
        BY <1>6, <2>2, <4>1
      <4>4. Runs(q, d, rest, i, b) \in After
        BY <1>7, <4>2, <4>3
      <4>5. o = Skip(Runs(q, d, rest, i, b), p)
        BY <1>5, <2>2, <4>1
      <4>6. o \in Branch(0)
        BY <4>4, <4>5
      <4>7. QED
        BY <4>2, <4>6
    <3>3. QED
      BY <3>1, <3>2
  <2>3. QED
    BY <1>8, <2>1, <2>2
<1>11. ASSUME NEW b \in dr[p], NEW o \in Branch(b) PROVE o \in StartNext(q, c, pd, dr, NoProc)
  <2>1. CASE b # 0
    <3>1. o = Runs(q, c, pd, m, b) /\ b \in dr[ProcAhead(q, c, m)] \ {0}
      BY <1>5, <1>6, <1>11, <2>1
    <3>2. QED
      BY <1>4, <1>8, <3>1
  <2>2. CASE b = 0
    <3>1. PICK x \in After : o = Skip(x, p)
      BY <1>11, <2>2
    <3>2. 0 \in dr[p]
      BY <1>11, <2>2
    <3>3. CASE AllSkipped(q, d, rest, dr) /\ x = Nobody(q, d, rest)
      BY <1>4, <1>5, <1>8, <3>1, <3>2, <3>3
    <3>4. ASSUME NEW k, Reached(q, d, rest, dr, k),
                 NEW e \in dr[ProcAhead(q, d, k)] \ {0}, x = Runs(q, d, rest, k, e)
          PROVE  o \in StartNext(q, c, pd, dr, NoProc)
      <4>1. k \in L
        BY <1>9, <3>4
      <4>2. Reached(q, c, pd, dr, m + k) /\ e \in dr[ProcAhead(q, c, m + k)] \ {0}
        BY <1>4, <1>6, <3>2, <3>4, <4>1
      <4>3. o = Runs(q, c, pd, m + k, e)
        BY <1>5, <3>1, <3>4, <4>1
      <4>4. QED
        BY <1>8, <4>2, <4>3
    <3>5. QED
      BY <1>7, <3>1, <3>3, <3>4
  <2>3. QED
    BY <2>1, <2>2
<1>12. StartNext(q, c, pd, dr, NoProc) = UNION {Branch(b) : b \in dr[p]}
  <2> HIDE DEF Branch
  <2> QED BY <1>10, <1>11
<1>13. QED
  BY <1>12 DEF Branch, One, After, p, rest, d, m, Continues, FirstAt

\* With nobody pending there is one outcome.
LEMMA StartIdle ==
    ASSUME NEW q, NEW c, NEW pd, NEW dr, PendingSteps(q, c, pd) = {}
    PROVE  StartNext(q, c, pd, dr, NoProc) =
              {[proc |-> NoProc, budget |-> 0, cur |-> Ahead(q, c, 1), skipped |-> {}]}
<1>1. AllSkipped(q, c, pd, dr) /\ \A k : ~Reached(q, c, pd, dr, k)
  BY DEF AllSkipped, Reached
<1>2. Nobody(q, c, pd) =
        [proc |-> NoProc, budget |-> 0, cur |-> Ahead(q, c, 1), skipped |-> {}]
  BY DEF Nobody
<1>3. \A o : o \in StartNext(q, c, pd, dr, NoProc) <=> o = Nobody(q, c, pd)
  BY <1>1, Outcomes
<1>4. QED
  BY <1>2, <1>3

\* What start_next_process does: f is the recursive call.
Members(q) == {q[i] : i \in DOMAIN q}

Tries(q, dr, f, pending, at) ==
    LET r == SeekLoop(q, at, pending)
    IN  IF r.proc = NoProc
        THEN {[proc |-> NoProc, budget |-> 0, cur |-> r.cur, skipped |-> {}]}
        ELSE UNION {IF b = 0
                    THEN {[o EXCEPT !.skipped = @ \cup {r.proc}] :
                             o \in f[pending \ {r.proc}][r.cur]}
                    ELSE {[proc |-> r.proc, budget |-> b, cur |-> r.cur, skipped |-> {}]}
                    : b \in dr[r.proc]}

Starts(q, dr, f) ==
    f = [pending \in SUBSET Members(q) |->
            [at \in 1 .. Len(q) |-> Tries(q, dr, f, pending, at)]]

\* One call: nobody is found, ...
LEMMA TriesNobody ==
    ASSUME NEW q, Queue(q), NEW pd, NEW c \in 1 .. Len(q), NEW dr, NEW f,
           PendingSteps(q, c, pd) = {}
    PROVE  Tries(q, dr, f, pd, c) =
              {[proc |-> NoProc, budget |-> 0, cur |-> Ahead(q, c, 1), skipped |-> {}]}
<1>1. Len(q) \in Nat \ {0}
  BY DEF Queue
<1>2. SeekLoop(q, c, pd) = [proc |-> NoProc, cur |-> Ahead(q, c, 1)]
  BY <1>1, SeekFacts
<1>3. SeekLoop(q, c, pd).proc = NoProc /\ SeekLoop(q, c, pd).cur = Ahead(q, c, 1)
  BY <1>2
<1>4. QED
  BY <1>3 DEF Tries

\* ... or the first pending process.
LEMMA TriesFirst ==
    ASSUME NEW q, Queue(q), NEW pd, NEW c \in 1 .. Len(q), NEW dr, NEW f,
           PendingSteps(q, c, pd) # {}
    PROVE  LET d == FirstAt(q, c, pd)
           IN  /\ d \in 1 .. Len(q) /\ q[d] \in pd
               /\ Tries(q, dr, f, pd, c) = Continues(q, dr, d, f[pd \ {q[d]}][d])
<1> DEFINE K == PendingSteps(q, c, pd)
           d == FirstAt(q, c, pd)
<1>1. Len(q) \in Nat \ {0} /\ \A i \in 1 .. Len(q) : q[i] \in Proc
  BY DEF Queue
<1>2. SeekLoop(q, c, pd) = [proc |-> q[d], cur |-> d]
  BY <1>1, SeekFacts DEF ProcAhead, FirstAt
<1>3. Onward(q, c, pd, First(K), d, pd \ {q[d]})
  BY GoesOn DEF FirstAt
<1>4. d \in 1 .. Len(q) /\ q[d] \in pd
  BY <1>3 DEF Onward, PendingSteps
<1>5. SeekLoop(q, c, pd).proc = q[d] /\ SeekLoop(q, c, pd).cur = d
  BY <1>2
<1>6. q[d] # NoProc
  BY <1>1, <1>4, QueueAssumption
<1> HIDE DEF d
<1>7. Tries(q, dr, f, pd, c) = Continues(q, dr, d, f[pd \ {q[d]}][d])
  BY <1>5, <1>6 DEF Tries, Skip, Continues
<1>8. QED
  BY <1>4, <1>7 DEF d

\* The closed form solves the equation of the recursion.
LEMMA ClosedFormStarts ==
    ASSUME NEW q, Queue(q), NEW dr
    PROVE  Starts(q, dr, [pending \in SUBSET Members(q) |->
                             [at \in 1 .. Len(q) |-> StartNext(q, at, pending, dr, NoProc)]])
<1> DEFINE g == [pending \in SUBSET Members(q) |->
                   [at \in 1 .. Len(q) |-> StartNext(q, at, pending, dr, NoProc)]]
<1>1. ASSUME NEW pd \in SUBSET Members(q), NEW c \in 1 .. Len(q)
      PROVE  StartNext(q, c, pd, dr, NoProc) = Tries(q, dr, g, pd, c)
  <2> DEFINE d == FirstAt(q, c, pd)
             rest == pd \ {q[d]}
  <2>1. CASE PendingSteps(q, c, pd) = {}
    <3> HIDE DEF g
    <3> QED BY <2>1, TriesNobody, StartIdle
  <2>2. CASE PendingSteps(q, c, pd) # {}
    <3>1. d \in 1 .. Len(q) /\ Tries(q, dr, g, pd, c) = Continues(q, dr, d, g[rest][d])
      <4> HIDE DEF g
      <4> QED BY <2>2, TriesFirst
    <3>2. StartNext(q, c, pd, dr, NoProc) =
            Continues(q, dr, d, StartNext(q, d, rest, dr, NoProc))
      BY <2>2, StartStep
    <3> HIDE DEF d
    <3>3. g[rest][d] = StartNext(q, d, rest, dr, NoProc)
      BY <3>1
    <3> HIDE DEF g, rest
    <3>4. QED
      BY <3>1, <3>2, <3>3
  <2>3. QED
    BY <2>1, <2>2
<1>2. ASSUME NEW pd \in SUBSET Members(q)
      PROVE  g[pd] = [at \in 1 .. Len(q) |-> Tries(q, dr, g, pd, at)]
  <2>1. g[pd] = [at \in 1 .. Len(q) |-> StartNext(q, at, pd, dr, NoProc)]
    OBVIOUS
  <2> HIDE DEF g
  <2>2. QED
    BY <1>1, <2>1
<1>3. g = [pending \in SUBSET Members(q) |-> g[pending]]
  OBVIOUS
<1> HIDE DEF g
<1>4. Starts(q, dr, g)
  BY <1>2, <1>3 DEF Starts
<1>5. QED
  BY <1>4 DEF g

\* The recursion ends, with the outcomes of the closed form: every call has one
\* pending process less.
LEMMA StartFacts ==
    ASSUME NEW q, Queue(q), NEW pd \in SUBSET Members(q), NEW c \in 1 .. Len(q), NEW dr
    PROVE  StartRecursion(q, c, pd, dr) = StartNext(q, c, pd, dr, NoProc)
<1> DEFINE g == [pending \in SUBSET Members(q) |->
                   [at \in 1 .. Len(q) |-> StartNext(q, at, pending, dr, NoProc)]]
           f == CHOOSE h : Starts(q, dr, h)
<1>1. Starts(q, dr, g)
  BY ClosedFormStarts
<1>2. g[pd][c] = StartNext(q, c, pd, dr, NoProc)
  OBVIOUS
<1> HIDE DEF g
<1>3. Starts(q, dr, f)
  BY <1>1
<1>4. StartRecursion(q, c, pd, dr) = f[pd][c]
  BY DEF StartRecursion, Starts, Tries, Members
<1> HIDE DEF f
<1>5. ASSUME NEW s \in SUBSET Members(q)
      PROVE  /\ f[s] = [at \in 1 .. Len(q) |-> Tries(q, dr, f, s, at)]
             /\ g[s] = [at \in 1 .. Len(q) |-> Tries(q, dr, g, s, at)]
  BY <1>1, <1>3 DEF Starts
<1>6. ASSUME NEW s \in SUBSET Members(q), \A p \in s : f[s \ {p}] = g[s \ {p}]
      PROVE  f[s] = g[s]
  <2>1. ASSUME NEW at \in 1 .. Len(q) PROVE Tries(q, dr, f, s, at) = Tries(q, dr, g, s, at)
    <3> DEFINE d == FirstAt(q, at, s)
    <3>1. CASE PendingSteps(q, at, s) = {}
      <4> DEFINE none == {[proc |-> NoProc, budget |-> 0, cur |-> Ahead(q, at, 1), skipped |-> {}]}
      <4>1. Tries(q, dr, f, s, at) = none
        BY <3>1, TriesNobody
      <4>2. Tries(q, dr, g, s, at) = none
        BY <3>1, TriesNobody
      <4>3. QED
        BY <4>1, <4>2
    <3>2. CASE PendingSteps(q, at, s) # {}
      <4>1. q[d] \in s /\ Tries(q, dr, f, s, at) = Continues(q, dr, d, f[s \ {q[d]}][d])
        BY <3>2, TriesFirst
      <4>2. Tries(q, dr, g, s, at) = Continues(q, dr, d, g[s \ {q[d]}][d])
        BY <3>2, TriesFirst
      <4>3. f[s \ {q[d]}] = g[s \ {q[d]}]
        BY <1>6, <4>1
      <4>4. QED
        BY <4>1, <4>2, <4>3
    <3>3. QED
      BY <3>1, <3>2
  <2>2. QED
    BY <1>5, <2>1
<1>7. IsFiniteSet(Members(q))
  <2>1. Len(q) \in Nat /\ q \in [1 .. Len(q) -> Members(q)]
    BY DEF Members, Queue
  <2>2. q \in Surjection(1 .. Len(q), Members(q))
    BY <2>1 DEF Surjection, Members
  <2>3. IsFiniteSet(1 .. Len(q))
    BY <2>1, FS_Interval
  <2>4. QED
    BY <2>2, <2>3, FS_Surjection
<1>8. ASSUME NEW s \in SUBSET Members(q)
      PROVE  /\ IsFiniteSet(s) /\ Cardinality(s) \in Nat
             /\ \A p \in s : s \ {p} \in SUBSET Members(q) /\ Cardinality(s \ {p}) < Cardinality(s)
  <2>1. IsFiniteSet(s)
    BY <1>7, FS_Subset
  <2>2. Cardinality(s) \in Nat
    BY <2>1, FS_CardinalityType
  <2>3. ASSUME NEW p \in s PROVE Cardinality(s \ {p}) < Cardinality(s)
    <3>1. Cardinality(s \ {p}) = Cardinality(s) - 1
      BY <2>1, FS_RemoveElement
    <3>2. QED
      BY <2>2, <3>1
  <2>4. QED
    BY <2>1, <2>2, <2>3
<1>9. f[pd] = g[pd]
  <2> SUFFICES ASSUME f[pd] # g[pd] PROVE FALSE
    OBVIOUS
  <2> DEFINE Bad == {s \in SUBSET Members(q) : f[s] # g[s]}
             Sizes == {Cardinality(s) : s \in Bad}
  <2>1. Sizes \in SUBSET Nat /\ Sizes # {}
    BY <1>8
  <2>2. PICK n \in Sizes : \A j \in Sizes : n =< j
    <3> HIDE DEF Sizes
    <3> QED BY <2>1, HasMin
  <2>3. PICK s \in Bad : n = Cardinality(s)
    BY <2>2
  <2>4. \A p \in s : s \ {p} \notin Bad
    <3> SUFFICES ASSUME NEW p \in s, s \ {p} \in Bad PROVE FALSE
      OBVIOUS
    <3>1. Cardinality(s \ {p}) < Cardinality(s) /\ Cardinality(s) \in Nat
          /\ Cardinality(s \ {p}) \in Nat
      BY <1>8, <2>3
    <3>2. Cardinality(s) =< Cardinality(s \ {p})
      BY <2>2, <2>3
    <3>3. QED
      BY <3>1, <3>2
  <2>5. QED
    BY <1>6, <1>8, <2>3, <2>4
<1>10. QED
  BY <1>2, <1>4, <1>9

-------------------------------------------------------------------------------
(* The specification                                                           *)

\* Where current_proc may be, and who may be pending.
QueueInv ==
    /\ Queue(ps)
    /\ cur \in 1 .. Len(ps)
    /\ pend \in SUBSET Members(ps)
    /\ draw \in [Proc -> SUBSET Budgets]

\* The partition stays a queue and current_proc a position of it.
LEMMA QueueInvariance == Spec => []QueueInv
<1>1. ASSUME Init PROVE QueueInv
  <2>1. PICK n \in 1 .. MaxLen : ps \in [1 .. n -> Proc]
    BY <1>1 DEF Init, Queues
  <2>2. ps \in Seq(Proc) /\ n \in Nat /\ n > 0
    BY <2>1, QueueAssumption
  <2>3. DOMAIN ps = 1 .. n /\ Len(ps) = n
    BY <2>1, <2>2
  <2>4. Queue(ps)
    BY <1>1, <2>2, <2>3 DEF Init, Queues, Queue
  <2>5. QED
    BY <1>1, <2>2, <2>3, <2>4 DEF Init, QueueInv, Members
<1>2. ASSUME QueueInv, [Next]_vars PROVE QueueInv'
  <2>1. CASE Search
    <3>1. PICK o \in StartNext(ps, cur, pend, draw, NoProc) :
            cur' = o.cur /\ pend' = pend \ (o.skipped \cup {o.proc}) /\ UNCHANGED <<ps, draw>>
      BY <2>1 DEF Search
    <3>2. o.cur \in 1 .. Len(ps)
      <4>1. ps \in Seq(Proc) /\ Len(ps) > 0 /\ cur \in Int
        BY <1>2 DEF QueueInv, Queue
      <4>2. \A p \in Proc : draw[p] \in SUBSET Int
        <5>1. \A p \in Proc : draw[p] \in SUBSET Budgets
          BY <1>2 DEF QueueInv
        <5>2. Budgets \in SUBSET Int
          BY QueueAssumption
        <5>3. QED
          BY <5>1, <5>2
      <4>3. NoProc \notin Proc
        BY QueueAssumption
      <4>4. QED
        BY <4>1, <4>2, <4>3, OutcomeType
    <3>3. QED
      BY <1>2, <3>1, <3>2 DEF QueueInv
  <2>2. CASE NewWindow
    <3>1. 1 \in 1 .. Len(ps)
      BY <1>2 DEF QueueInv, Queue
    <3>2. QED
      BY <1>2, <2>2, <3>1 DEF QueueInv, NewWindow, Members
  <2>3. CASE UNCHANGED vars
    BY <1>2, <2>3 DEF QueueInv, vars
  <2>4. QED
    BY <1>2, <2>1, <2>2, <2>3 DEF Next
<1>3. QED
  BY <1>1, <1>2, PTL DEF Spec

\* The loop of seek_pending_process and the recursion of start_next_process, which
\* ends, compute the closed forms that Scheduler uses, for queues of any length and
\* any budgets.
THEOREM ClosedFormHolds == Spec => []ClosedForm
<1>1. ASSUME QueueInv PROVE ClosedForm
  <2>1. Len(ps) \in Nat \ {0} /\ cur \in 1 .. Len(ps) /\ Queue(ps) /\ pend \in SUBSET Members(ps)
    BY <1>1 DEF QueueInv, Queue
  <2>2. SeekPending(ps, cur, pend) = SeekLoop(ps, cur, pend).cur
    <3> DEFINE K == PendingSteps(ps, cur, pend)
    <3>1. SeekLoop(ps, cur, pend) =
            IF K = {} THEN [proc |-> NoProc, cur |-> Ahead(ps, cur, 1)]
            ELSE [proc |-> ProcAhead(ps, cur, First(K)), cur |-> Ahead(ps, cur, First(K))]
      BY <2>1, SeekFacts
    <3>2. SeekPending(ps, cur, pend) = IF K = {} THEN Ahead(ps, cur, 1) ELSE Ahead(ps, cur, First(K))
      BY DEF SeekPending, First
    <3> HIDE DEF K
    <3>3. QED
      BY <3>1, <3>2
  <2>3. StartRecursion(ps, cur, pend, draw) = StartNext(ps, cur, pend, draw, NoProc)
    BY <2>1, StartFacts
  <2>4. QED
    BY <2>2, <2>3 DEF ClosedForm
<1>2. QED
  BY <1>1, QueueInvariance, PTL

===============================================================================
