------------------------- MODULE PartitionQueueProofs -------------------------
(***************************************************************************)
(* Lemmas about the cyclic process queue of a partition, for queues of any *)
(* length.                                                                 *)
(***************************************************************************)
EXTENDS PartitionQueue, WellFoundedInduction, TLAPS

\* A nonempty set of naturals has a least element.
LEMMA HasMin ==
  ASSUME NEW K \in SUBSET Nat, K # {}
  PROVE  \E k \in K : \A j \in K : k =< j
<1> DEFINE R == OpToRel(<, Nat)
<1>1. IsWellFoundedOn(R, Nat)
  BY NatLessThanWellFounded
<1>2. PICK k \in K : \A j \in K : <<j, k>> \notin R
  <2> HIDE DEF R
  <2> QED BY <1>1, WFMin
<1>3. \A j \in K : ~(j < k)
  BY <1>2 DEF OpToRel
<1>4. QED
  BY <1>3

\* A nonempty set of bounded naturals has a greatest element.
LEMMA HasMax ==
  ASSUME NEW n \in Int, NEW K \in SUBSET (0 .. n), K # {}
  PROVE  \E k \in K : \A j \in K : j =< k
<1> DEFINE L == {n - k : k \in K}
<1>1. /\ L \in SUBSET Nat
      /\ L # {}
  <2>1. \A k \in K : n - k \in Nat
    OBVIOUS
  <2>2. QED
    BY <2>1
<1>2. PICK m \in L : \A j \in L : m =< j
  <2> HIDE DEF L
  <2> QED BY <1>1, HasMin
<1>3. PICK k \in K : m = n - k
  BY <1>2
<1>4. \A j \in K : m =< n - j
  BY <1>2
<1>5. QED
  BY <1>3, <1>4

\* Division with remainder.
LEMMA DivMod ==
    ASSUME NEW M \in Nat \ {0}, NEW a \in Int
    PROVE  /\ a \div M \in Int
           /\ a % M \in 0 .. M - 1
           /\ a = M * (a \div M) + (a % M)
OBVIOUS

\* Multiplication distributes.
LEMMA Distrib ==
    ASSUME NEW M \in Int, NEW x \in Int, NEW y \in Int
    PROVE  /\ M * (x + y) = M * x + M * y
           /\ M * (x - y) = M * x - M * y
           /\ M * x \in Int
OBVIOUS

\* Adding a multiple of M does not change the remainder modulo M.
LEMMA ModShift ==
    ASSUME NEW M \in Nat \ {0}, NEW a \in Int, NEW k \in Int
    PROVE  (a + M * k) % M = a % M
<1>1. PICK b \in Int : b = a + M * k
  OBVIOUS
<1>2. PICK p \in Int, r \in 0 .. M - 1 : r = a % M /\ a = M * p + r
  BY DivMod
<1>3. PICK q \in Int, t \in 0 .. M - 1 : t = b % M /\ b = M * q + t
  BY DivMod
<1>4. PICK d \in Int : d = p + k - q
  BY <1>2, <1>3
<1>5. M * d = t - r
  <2>1. M * d = M * p + M * k - M * q
    <3>1. p + k \in Int /\ M \in Int
      OBVIOUS
    <3>2. M * ((p + k) - q) = M * (p + k) - M * q
      BY <3>1, Distrib
    <3>3. M * (p + k) = M * p + M * k
      BY <3>1, Distrib
    <3>4. QED
      BY <1>4, <3>2, <3>3
  <2>2. a = M * p + r
    BY <1>2
  <2>3. b = M * q + t
    BY <1>3
  <2>4. M * p \in Int /\ M * q \in Int /\ M * k \in Int
    OBVIOUS
  <2>5. QED
    BY <1>1, <2>1, <2>2, <2>3, <2>4
<1>6. d = 0
  <2>1. CASE d >= 1
    <3>1. M * d >= M
      BY <2>1
    <3>2. QED
      BY <1>5, <3>1
  <2>2. CASE d =< -1
    <3>1. M * d =< -M
      BY <2>2
    <3>2. QED
      BY <1>5, <3>1
  <2>3. QED
    BY <2>1, <2>2
<1>7. t = r
  BY <1>5, <1>6
<1>8. QED
  BY <1>1, <1>2, <1>3, <1>7

\* Moving along the cyclic queue stays within it.
LEMMA AheadType ==
  ASSUME NEW ps, Len(ps) \in Nat \ {0}, NEW c \in Int, NEW k \in Int
  PROVE  Ahead(ps, c, k) \in 1 .. Len(ps)
BY DEF Ahead

\* CHOOSE finds the first step of a search.
LEMMA FirstStep ==
  ASSUME NEW K \in SUBSET Nat, K # {}
  PROVE  (CHOOSE k \in K : \A j \in K : k =< j) \in K
BY HasMin

\* CHOOSE finds the last step of a search.
LEMMA LastStep ==
  ASSUME NEW n \in Int, NEW K \in SUBSET (0 .. n), K # {}
  PROVE  (CHOOSE k \in K : \A j \in K : j =< k) \in K
BY HasMax

\* Partition::seek_pending_process leaves current_proc at a process.
LEMMA SeekType ==
  ASSUME NEW ps, Len(ps) \in Nat \ {0}, NEW c \in Int, NEW pend
  PROVE  SeekPending(ps, c, pend) \in 1 .. Len(ps)
<1> DEFINE K == PendingSteps(ps, c, pend)
<1>1. K \in SUBSET Nat
  BY DEF PendingSteps, Steps
<1>2. CASE K = {}
  BY <1>2, AheadType DEF SeekPending
<1>3. CASE K # {}
  <2>1. (CHOOSE k \in K : \A j \in K : k =< j) \in Nat
    <3> HIDE DEF K
    <3> QED BY <1>1, <1>3, FirstStep
  <2>2. QED
    BY <1>3, <2>1, AheadType DEF SeekPending
<1>4. QED
  BY <1>2, <1>3

\* Slice::start_next_process runs a process of the partition's own queue or
\* nobody, marks only processes of the queue as completed, and leaves
\* current_proc at a process.
LEMMA OutcomeType ==
  ASSUME NEW P, NEW ps \in Seq(P), Len(ps) > 0, NEW c \in Int, NEW pend,
         NEW draw, \A p \in P : draw[p] \in SUBSET Int,
         NEW none, none \notin P,
         NEW o \in StartNext(ps, c, pend, draw, none)
  PROVE  /\ o.cur \in 1 .. Len(ps)
         /\ o.skipped \subseteq P
         /\ \/ o.proc = none
            \/ /\ \E i \in 1 .. Len(ps) : o.proc = ps[i]
               /\ o.proc \in P
               /\ o.budget \in Int
<1> DEFINE K == PendingSteps(ps, c, pend)
<1>0. Len(ps) \in Nat \ {0} /\ Len(ps) - 1 \in Int
  OBVIOUS
<1>1. K \in SUBSET (0 .. (Len(ps) - 1))
  BY DEF PendingSteps, Steps
<1>2. \A k \in Int : Ahead(ps, c, k) \in 1 .. Len(ps) /\ ProcAhead(ps, c, k) \in P
  BY <1>0, AheadType DEF ProcAhead
<1>3. \/ \E k \in K : \E b \in draw[ProcAhead(ps, c, k)] \ {0} :
            o = [proc |-> ProcAhead(ps, c, k), budget |-> b, cur |-> Ahead(ps, c, k),
                 skipped |-> {ProcAhead(ps, c, j) : j \in {i \in K : i < k}}]
      \/ o = [proc |-> none, budget |-> 0,
              cur |-> IF K = {} THEN Ahead(ps, c, 1)
                      ELSE Ahead(ps, c, 1 + CHOOSE k \in K : \A j \in K : j =< k),
              skipped |-> {ProcAhead(ps, c, k) : k \in K}]
  BY DEF StartNext, Chosen, Exhausted
<1> HIDE DEF K
<1>4. ASSUME NEW k \in K, NEW b \in draw[ProcAhead(ps, c, k)] \ {0},
             o = [proc |-> ProcAhead(ps, c, k), budget |-> b, cur |-> Ahead(ps, c, k),
                  skipped |-> {ProcAhead(ps, c, j) : j \in {i \in K : i < k}}]
      PROVE  /\ o.cur \in 1 .. Len(ps)
             /\ o.skipped \subseteq P
             /\ \E i \in 1 .. Len(ps) : o.proc = ps[i]
             /\ o.proc \in P
             /\ o.budget \in Int
  <2>1. k \in Int /\ ProcAhead(ps, c, k) \in P
    BY <1>1, <1>2
  <2>2. b \in Int
    BY <2>1
  <2>3. o.skipped \subseteq P
    BY <1>1, <1>2, <1>4
  <2>4. QED
    BY <1>2, <1>4, <2>1, <2>2, <2>3 DEF ProcAhead
<1>5. ASSUME o = [proc |-> none, budget |-> 0,
                  cur |-> IF K = {} THEN Ahead(ps, c, 1)
                          ELSE Ahead(ps, c, 1 + CHOOSE k \in K : \A j \in K : j =< k),
                  skipped |-> {ProcAhead(ps, c, k) : k \in K}]
      PROVE  o.cur \in 1 .. Len(ps) /\ o.skipped \subseteq P /\ o.proc = none
  <2>1. CASE K = {}
    BY <1>1, <1>2, <1>5, <2>1
  <2>2. CASE K # {}
    <3>1. PICK m : m = CHOOSE k \in K : \A j \in K : j =< k
      OBVIOUS
    <3>2. m \in K
      BY <1>0, <1>1, <2>2, <3>1, LastStep
    <3>3. 1 + m \in Int
      BY <1>1, <3>2
    <3>4. o.cur = Ahead(ps, c, 1 + m)
      BY <1>5, <2>2, <3>1
    <3>5. o.skipped \subseteq P
      BY <1>1, <1>2, <1>5
    <3>6. QED
      BY <1>2, <1>5, <3>3, <3>4, <3>5
  <2>3. QED
    BY <2>1, <2>2
<1>6. QED
  BY <1>3, <1>4, <1>5
\* The remainder of a number below twice the modulus.
LEMMA ModSmall ==
  ASSUME NEW n \in Nat \ {0}, NEW x \in Int
  PROVE  /\ 0 =< x /\ x < n => x % n = x
         /\ n =< x /\ x < n + n => x % n = x - n
<1>1. \A y \in Int : 0 =< y /\ y < n => y % n = y
  <2> SUFFICES ASSUME NEW y \in Int, 0 =< y, y < n PROVE y % n = y
    OBVIOUS
  <2>1. PICK p \in Int, r \in 0 .. n - 1 : r = y % n /\ y = n * p + r
    BY DivMod
  <2>2. y = n * p + r
    BY <2>1
  <2>3. p < 1
    <3> SUFFICES ASSUME p >= 1 PROVE FALSE
      OBVIOUS
    <3>1. n * p >= n
      OBVIOUS
    <3>2. QED
      BY <2>2, <3>1
  <2>4. p > -1
    <3> SUFFICES ASSUME p =< -1 PROVE FALSE
      OBVIOUS
    <3>1. n * p =< -n
      OBVIOUS
    <3>2. QED
      BY <2>2, <3>1
  <2>5. p = 0
    BY <2>3, <2>4
  <2>6. y = r
    BY <2>2, <2>5
  <2>7. QED
    BY <2>1, <2>6
<1>2. ASSUME n =< x, x < n + n PROVE x % n = x - n
  <2>1. PICK y \in Int, k \in Int : y = x - n /\ k = 1
    OBVIOUS
  <2>2. (y + n * k) % n = y % n
    BY ModShift
  <2>3. y + n * k = x /\ 0 =< y /\ y < n
    <3>1. n * k = n
      BY <2>1
    <3>2. QED
      BY <1>2, <2>1, <3>1
  <2>4. y % n = y
    BY <1>1, <2>3
  <2>5. QED
    BY <2>1, <2>2, <2>3, <2>4
<1>3. QED
  BY <1>1, <1>2

\* Where the queue is after k steps: it wraps around at most once.
LEMMA AheadCases ==
  ASSUME NEW ps, Len(ps) \in Nat \ {0}, NEW c \in 1 .. Len(ps), NEW k \in Steps(ps)
  PROVE  Ahead(ps, c, k) = IF c + k =< Len(ps) THEN c + k ELSE c + k - Len(ps)
<1>1. PICK n \in Nat \ {0}, x \in Int : n = Len(ps) /\ x = c - 1 + k
  BY DEF Steps
<1>2. k \in 0 .. n - 1 /\ c \in 1 .. n
  BY <1>1 DEF Steps
<1>3. 0 =< x /\ x < n + n
  BY <1>1, <1>2
<1>4. /\ x < n => x % n = x
      /\ ~(x < n) => x % n = x - n
  <2>1. /\ 0 =< x /\ x < n => x % n = x
        /\ n =< x /\ x < n + n => x % n = x - n
    BY ModSmall
  <2>2. ~(x < n) => n =< x
    OBVIOUS
  <2>3. QED
    BY <1>3, <2>1, <2>2
<1>5. QED
  BY <1>1, <1>2, <1>4 DEF Ahead

\* Going once round the queue meets every position exactly once.
LEMMA OnceRound ==
  ASSUME NEW ps, Len(ps) \in Nat \ {0}, NEW c \in 1 .. Len(ps)
  PROVE  /\ \A i \in 1 .. Len(ps) : \E k \in Steps(ps) : Ahead(ps, c, k) = i
         /\ \A j, k \in Steps(ps) : Ahead(ps, c, j) = Ahead(ps, c, k) => j = k
<1>1. PICK n \in Nat \ {0} : n = Len(ps) /\ Steps(ps) = 0 .. n - 1 /\ c \in 1 .. n
  BY DEF Steps
<1>2. \A k \in 0 .. n - 1 : Ahead(ps, c, k) = IF c + k =< n THEN c + k ELSE c + k - n
  BY <1>1, AheadCases
<1>3. ASSUME NEW i \in 1 .. n PROVE \E k \in 0 .. n - 1 : Ahead(ps, c, k) = i
  <2>1. CASE c =< i
    <3>1. PICK k \in 0 .. n - 1 : c + k = i
      BY <1>1, <2>1
    <3>2. c + k =< n
      BY <3>1
    <3>3. Ahead(ps, c, k) = i
      BY <1>2, <3>1, <3>2
    <3>4. QED
      BY <3>3
  <2>2. CASE i < c
    <3>1. PICK k \in 0 .. n - 1 : k = n + i - c
      <4>1. n + i - c \in 0 .. n - 1
        BY <1>1, <2>2
      <4>2. QED
        BY <4>1
    <3>2. c + k - n = i /\ ~(c + k =< n)
      BY <1>1, <3>1
    <3>3. QED
      BY <1>2, <3>2
  <2>3. QED
    BY <1>1, <2>1, <2>2
<1>4. ASSUME NEW j \in 0 .. n - 1, NEW k \in 0 .. n - 1, Ahead(ps, c, j) = Ahead(ps, c, k)
      PROVE  j = k
  BY <1>1, <1>2, <1>4
<1>5. QED
  BY <1>1, <1>3, <1>4

\* In a queue without repetitions Slice::start_next_process passes over pending
\* processes only, and then runs one that it did not pass over, or has passed
\* over all of them.
LEMMA OutcomeServes ==
  ASSUME NEW P, NEW ps \in Seq(P), Len(ps) > 0, NEW c \in 1 .. Len(ps), NEW pend,
         \A i, j \in 1 .. Len(ps) : ps[i] = ps[j] => i = j,
         NEW draw, NEW none, none \notin P,
         NEW o \in StartNext(ps, c, pend, draw, none)
  PROVE  /\ \A p \in o.skipped : p \in pend /\ \E i \in 1 .. Len(ps) : p = ps[i]
         /\ \/ /\ o.proc \in pend \ o.skipped
               /\ o.proc \in P
               /\ \E i \in 1 .. Len(ps) : o.proc = ps[i]
            \/ /\ o.proc = none
               /\ \A i \in 1 .. Len(ps) : ps[i] \in pend => ps[i] \in o.skipped
<1> DEFINE K == PendingSteps(ps, c, pend)
           At(k) == ProcAhead(ps, c, k)
<1>0. Len(ps) \in Nat \ {0} /\ Len(ps) - 1 \in Int /\ c \in Int
  OBVIOUS
<1>1. /\ \A k \in K : k \in Steps(ps) /\ At(k) \in pend
      /\ \A k \in Steps(ps) : At(k) \in pend => k \in K
  BY DEF PendingSteps
<1>2. \A k \in Steps(ps) : /\ k \in Int /\ Ahead(ps, c, k) \in 1 .. Len(ps)
                           /\ At(k) = ps[Ahead(ps, c, k)] /\ At(k) \in P
  <2>1. \A k \in Steps(ps) : k \in Int
    BY <1>0 DEF Steps
  <2>2. QED
    BY <1>0, <2>1, AheadType DEF ProcAhead
<1>3. /\ \A i \in 1 .. Len(ps) : \E k \in Steps(ps) : At(k) = ps[i]
      /\ \A j, k \in Steps(ps) : At(j) = At(k) => j = k
  <2>1. /\ \A i \in 1 .. Len(ps) : \E k \in Steps(ps) : Ahead(ps, c, k) = i
        /\ \A j, k \in Steps(ps) : Ahead(ps, c, j) = Ahead(ps, c, k) => j = k
    BY <1>0, OnceRound
  <2>2. QED
    BY <1>2, <2>1
<1>4. \/ \E k \in K : \E b : o = [proc |-> At(k), budget |-> b, cur |-> Ahead(ps, c, k),
                                  skipped |-> {At(j) : j \in {i \in K : i < k}}]
      \/ \E m : o = [proc |-> none, budget |-> 0, cur |-> m, skipped |-> {At(k) : k \in K}]
  BY DEF StartNext, Chosen, Exhausted
<1> HIDE DEF K, At
<1>5. ASSUME NEW k \in K, NEW b, o = [proc |-> At(k), budget |-> b, cur |-> Ahead(ps, c, k),
                                      skipped |-> {At(j) : j \in {i \in K : i < k}}]
      PROVE  /\ \A p \in o.skipped : p \in pend /\ \E i \in 1 .. Len(ps) : p = ps[i]
             /\ o.proc \in pend \ o.skipped /\ o.proc \in P
             /\ \E i \in 1 .. Len(ps) : o.proc = ps[i]
  <2>1. o.proc = At(k) /\ o.skipped = {At(j) : j \in {i \in K : i < k}}
    BY <1>5
  <2>2. k \in Int /\ k \in Steps(ps)
    BY <1>1, <1>2
  <2>3. At(k) \notin o.skipped
    <3> SUFFICES ASSUME NEW j \in K, j < k, At(k) = At(j) PROVE FALSE
      BY <2>1
    <3>1. j = k
      BY <1>1, <1>3
    <3>2. QED
      BY <2>2, <3>1
  <2>4. QED
    BY <1>1, <1>2, <2>1, <2>2, <2>3
<1>6. ASSUME NEW m, o = [proc |-> none, budget |-> 0, cur |-> m, skipped |-> {At(k) : k \in K}]
      PROVE  /\ \A p \in o.skipped : p \in pend /\ \E i \in 1 .. Len(ps) : p = ps[i]
             /\ o.proc = none
             /\ \A i \in 1 .. Len(ps) : ps[i] \in pend => ps[i] \in o.skipped
  <2>1. o.proc = none /\ o.skipped = {At(k) : k \in K}
    BY <1>6
  <2>2. \A p \in o.skipped : p \in pend /\ \E i \in 1 .. Len(ps) : p = ps[i]
    BY <1>1, <1>2, <2>1
  <2>3. ASSUME NEW i \in 1 .. Len(ps), ps[i] \in pend PROVE ps[i] \in o.skipped
    <3>1. PICK k \in Steps(ps) : At(k) = ps[i]
      BY <1>3
    <3>2. k \in K
      BY <1>1, <2>3, <3>1
    <3>3. QED
      BY <2>1, <3>1, <3>2
  <2>4. QED
    BY <2>1, <2>2, <2>3
<1>7. QED
  BY <1>4, <1>5, <1>6

===============================================================================
