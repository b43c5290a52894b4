----------------------------- MODULE ConfigProofs -----------------------------
(***************************************************************************)
(* Proofs about Config: what normalize() accepts and the objects that are  *)
(* made of it, for every set of files and every machine.                   *)
(*                                                                         *)
(* The trees are walked with FoldLeft.  Each fold is first shown to be     *)
(* what a loop computes: a sequence of accumulators F[0], F[1], ..., of    *)
(* which each follows from the one before and the next element.            *)
(***************************************************************************)
EXTENDS Config, PartitionQueueProofs, SequenceTheorems

-------------------------------------------------------------------------------
(* Lists *)

\* Induction up to n, for a set of naturals.
LEMMA Upwards ==
    ASSUME NEW n \in Nat, NEW G, 0 \in G, \A k \in 1 .. n : k - 1 \in G => k \in G
    PROVE  \A k \in 0 .. n : k \in G
<1> SUFFICES ASSUME NEW k \in 0 .. n, k \notin G PROVE FALSE
  OBVIOUS
<1> DEFINE B == {i \in 0 .. n : i \notin G}
<1>1. B \in SUBSET Nat /\ k \in B
  OBVIOUS
<1>2. PICK m \in B : \A j \in B : m =< j
  <2> HIDE DEF B
  <2> QED BY <1>1, HasMin
<1>3. m \in 1 .. n /\ m - 1 \notin B /\ m - 1 \in 0 .. n
  BY <1>2
<1>4. QED
  BY <1>2, <1>3

\* A list is a function on 1 .. Len.
LEMMA ListFacts ==
    ASSUME NEW l, IsList(l)
    PROVE  /\ Len(l) \in Nat
           /\ DOMAIN l = 1 .. Len(l)
           /\ \A i \in 1 .. Len(l) : l[i] \in Range(l)
           /\ l = [i \in 1 .. Len(l) |-> l[i]]
           /\ l # <<>> <=> Len(l) > 0
<1>1. l \in Seq(Range(l))
  BY DEF IsList
<1>2. /\ Len(l) \in Nat /\ DOMAIN l = 1 .. Len(l)
      /\ l \in [1 .. Len(l) -> Range(l)]
  BY <1>1, LenProperties
<1>3. \A i \in 1 .. Len(l) : l[i] \in Range(l)
  BY <1>2 DEF Range
<1>4. l # <<>> <=> Len(l) > 0
  BY <1>1, EmptySeq
<1>5. QED
  BY <1>2, <1>3, <1>4

\* A function on 1 .. n is a list.
LEMMA MakesList ==
    ASSUME NEW n \in Nat, NEW l, l = [i \in 1 .. n |-> l[i]]
    PROVE  IsList(l) /\ Len(l) = n
<1>1. l \in [1 .. n -> Range(l)]
  BY DEF Range
<1>2. l \in Seq(Range(l))
  BY <1>1
<1>3. DOMAIN l = 1 .. n /\ DOMAIN l = 1 .. Len(l) /\ Len(l) \in Nat
  BY <1>1, <1>2, LenProperties
<1>4. Len(l) = n
  BY <1>3
<1>5. QED
  BY <1>2, <1>4 DEF IsList

\* The empty list, a list of one, and a list with one more element.
LEMMA EmptyList == IsList(<<>>) /\ Len(<<>>) = 0 /\ Range(<<>>) = {}
<1>1. <<>> \in Seq(Range(<<>>)) /\ Len(<<>>) = 0
  BY EmptySeq
<1>2. DOMAIN <<>> = {}
  OBVIOUS
<1>3. QED
  BY <1>1, <1>2 DEF IsList, Range

\* A list of one element.
LEMMA OneList ==
    ASSUME NEW x
    PROVE  IsList(<<x>>) /\ Len(<<x>>) = 1 /\ Range(<<x>>) = {x}
<1>1. <<x>> = [i \in 1 .. 1 |-> <<x>>[i]]
  OBVIOUS
<1>2. IsList(<<x>>) /\ Len(<<x>>) = 1
  BY <1>1, MakesList
<1>3. Range(<<x>>) = {x}
  BY DEF Range
<1>4. QED
  BY <1>2, <1>3

\* push_back: the list with one element more.
LEMMA AppendList ==
    ASSUME NEW l, IsList(l), NEW x
    PROVE  /\ IsList(Append(l, x))
           /\ Len(Append(l, x)) = Len(l) + 1
           /\ \A i \in 1 .. Len(l) : Append(l, x)[i] = l[i]
           /\ Append(l, x)[Len(l) + 1] = x
           /\ Range(Append(l, x)) = Range(l) \cup {x}
<1> DEFINE S == Range(l) \cup {x}
           m == Append(l, x)
<1>1. l \in Seq(S) /\ x \in S
  <2>1. l \in Seq(Range(l)) /\ Range(l) \subseteq S
    BY DEF IsList
  <2> HIDE DEF S
  <2>2. l \in Seq(S)
    BY <2>1, SeqMonotonic
  <2>3. QED
    BY <2>2 DEF S
<1>2. /\ m \in Seq(S) /\ Len(m) = Len(l) + 1
      /\ \A i \in 1 .. Len(l) : m[i] = l[i]
      /\ m[Len(l) + 1] = x
  <2> HIDE DEF S
  <2> QED BY <1>1
<1>3. /\ Len(l) \in Nat /\ DOMAIN l = 1 .. Len(l)
      /\ DOMAIN m = 1 .. Len(l) + 1
      /\ m \in [1 .. Len(l) + 1 -> S]
  <2> HIDE DEF S, m
  <2> QED BY <1>1, <1>2, LenProperties
<1>4. \A i \in 1 .. Len(l) + 1 : i \in 1 .. Len(l) \/ i = Len(l) + 1
  BY <1>3
<1>5. Range(m) = S
  <2> HIDE DEF m
  <2> QED BY <1>2, <1>3, <1>4 DEF Range
<1>6. m \in Seq(Range(m))
  BY <1>2, <1>5
<1>7. QED
  BY <1>2, <1>5, <1>6 DEF IsList

-------------------------------------------------------------------------------
(* FoldLeft is a loop *)

\* The fold takes the greatest position last.
LEMMA TopFacts ==
    ASSUME NEW k \in Nat
    PROVE  /\ k > 0 => Max(1 .. k) = k /\ (1 .. k) \ {k} = 1 .. (k - 1)
           /\ \A T \in SUBSET (1 .. k) : T # {} =>
                 T \ {Max(T)} \in SUBSET (1 .. (k - 1))
<1>1. ASSUME NEW T \in SUBSET (1 .. k), T # {}
      PROVE  Max(T) \in T /\ \A y \in T : Max(T) >= y
  <2>1. k \in Int /\ T \in SUBSET (0 .. k) /\ T # {}
    BY <1>1
  <2>2. \E m \in T : \A j \in T : j =< m
    BY ONLY <2>1, HasMax
  <2>5. PICK m \in T : \A j \in T : j =< m
    BY <2>2
  <2>3. m \in T /\ \A y \in T : m >= y
    BY <2>1, <2>5
  <2>4. QED
    BY <2>3 DEF Max
<1>2. ASSUME k > 0 PROVE Max(1 .. k) = k /\ (1 .. k) \ {k} = 1 .. (k - 1)
  <2>1. 1 .. k \in SUBSET (1 .. k) /\ 1 .. k # {} /\ k \in 1 .. k
    BY <1>2
  <2>2. Max(1 .. k) \in 1 .. k /\ Max(1 .. k) >= k
    BY <1>1, <2>1
  <2>3. QED
    BY <2>2
<1>3. ASSUME NEW T \in SUBSET (1 .. k), T # {}
      PROVE  T \ {Max(T)} \in SUBSET (1 .. (k - 1))
  <2>1. Max(T) \in T /\ \A y \in T : Max(T) >= y
    BY <1>1, <1>3
  <2> DEFINE m == Max(T)
  <2>4. m \in 1 .. k /\ \A y \in T : y \in 1 .. k /\ m >= y
    BY <2>1
  <2>2. \A y \in T : y # m => y \in 1 .. (k - 1)
    <3> HIDE DEF m
    <3> QED BY <2>4
  <2>3. QED
    BY <2>2
<1>4. QED
  BY <1>2, <1>3

\* The loop over the list of partitions.
PartitionsDone(base, s) == FoldLeft(LAMBDA a, p : AddPartition(a, p, <<>>), base, s)

PartitionsRun(F, base, s) ==
    /\ F[0] = base
    /\ \A k \in 1 .. Len(s) : F[k] = AddPartition(F[k - 1], s[k], <<>>)
    /\ F[Len(s)] = PartitionsDone(base, s)

\* normalize() goes through the partitions one after the other.
LEMMA PartitionsFold ==
    ASSUME NEW s, IsList(s), NEW base
    PROVE  \E F : PartitionsRun(F, base, s)
<1> DEFINE Rec(f, T) == IF T = {} THEN base
                        ELSE AddPartition(f[T \ {Max(T)}], s[Max(T)], <<>>)
           Solves(f, k) == f = [T \in SUBSET (1 .. k) |-> Rec(f, T)]
           G == {k \in 0 .. Len(s) : \E f : Solves(f, k)}
<1>1. Len(s) \in Nat /\ DOMAIN s = 1 .. Len(s)
  BY ListFacts
<1>2. 0 \in G
  <2> DEFINE f == [T \in SUBSET (1 .. 0) |-> base]
  <2>1. \A T \in SUBSET (1 .. 0) : T = {}
    OBVIOUS
  <2>2. Solves(f, 0)
    BY <2>1
  <2>3. QED
    <3> HIDE DEF Solves, f
    <3> QED BY <1>1, <2>2
<1>3. ASSUME NEW k \in 1 .. Len(s), k - 1 \in G PROVE k \in G
  <2>1. PICK f : Solves(f, k - 1)
    BY <1>3
  <2> DEFINE g == [T \in SUBSET (1 .. k) |-> Rec(f, T)]
  <2>2. \A T \in SUBSET (1 .. (k - 1)) : g[T] = f[T]
    <3>1. \A T \in SUBSET (1 .. (k - 1)) : T \in SUBSET (1 .. k) /\ f[T] = Rec(f, T)
      <4>1. \A i \in 1 .. (k - 1) : i \in 1 .. k
        BY <1>1
      <4> HIDE DEF Rec
      <4>2. QED
        BY <2>1, <4>1
    <3> HIDE DEF Rec
    <3>2. QED
      BY <3>1
  <2>3. \A T \in SUBSET (1 .. k) : T # {} => T \ {Max(T)} \in SUBSET (1 .. (k - 1))
    BY <1>1, TopFacts
  <2>4. \A T \in SUBSET (1 .. k) : Rec(f, T) = Rec(g, T)
    <3> HIDE DEF g
    <3> QED BY <2>2, <2>3
  <2>5. Solves(g, k)
    <3> HIDE DEF Rec
    <3> QED BY <2>4
  <2>6. k \in 0 .. Len(s)
    BY <1>1
  <2>7. QED
    <3> HIDE DEF Solves, g
    <3> QED BY <2>5, <2>6
<1>4. \E f : Solves(f, Len(s))
  <2> HIDE DEF Solves
  <2>1. \A k \in 0 .. Len(s) : k \in G
    <3> HIDE DEF G
    <3> QED BY <1>1, <1>2, <1>3, Upwards
  <2>2. QED
    BY <1>1, <2>1
<1> DEFINE h == CHOOSE f : Solves(f, Len(s))
           F == [k \in 0 .. Len(s) |-> h[1 .. k]]
           fold == PartitionsDone(base, s)
<1>5. fold = h[DOMAIN s]
  BY <1>1 DEF PartitionsDone, FoldLeft, MapThenFoldSet
<1>6. Solves(h, Len(s))
  <2> HIDE DEF Solves
  <2> QED BY <1>4
<1>7. \A T \in SUBSET (1 .. Len(s)) : h[T] = Rec(h, T)
  <2> HIDE DEF h, Rec
  <2> QED BY <1>6
<1>8. \A k \in 0 .. Len(s) : F[k] = h[1 .. k] /\ 1 .. k \in SUBSET (1 .. Len(s))
  <2> HIDE DEF h
  <2> QED BY <1>1
<1> HIDE DEF h, F, fold
<1>9. F[0] = base
  <2>1. 0 \in 0 .. Len(s) /\ 1 .. 0 = {}
    BY <1>1
  <2>2. QED
    BY <1>7, <1>8, <2>1
<1>10. ASSUME NEW k \in 1 .. Len(s) PROVE F[k] = AddPartition(F[k - 1], s[k], <<>>)
  <2>1. Max(1 .. k) = k /\ (1 .. k) \ {k} = 1 .. (k - 1) /\ 1 .. k # {}
    BY <1>1, TopFacts
  <2>2. k \in 0 .. Len(s) /\ k - 1 \in 0 .. Len(s)
    BY <1>1
  <2>3. F[k] = Rec(h, 1 .. k)
    <3> HIDE DEF Rec
    <3> QED BY <1>7, <1>8, <2>2
  <2>4. Rec(h, 1 .. k) = AddPartition(h[1 .. (k - 1)], s[k], <<>>)
    BY <2>1
  <2>5. QED
    BY <1>8, <2>2, <2>3, <2>4
<1>11. F[Len(s)] = fold
  BY <1>1, <1>5, <1>8
<1>12. QED
  BY <1>9, <1>10, <1>11 DEF fold, PartitionsRun

\* The loop over the entries of a slice.
EntriesDone(base, s, length) == FoldLeft(LAMBDA a, e : NormalizeEntry(a, e, length), base, s)

EntriesRun(F, base, s, length) ==
    /\ F[0] = base
    /\ \A k \in 1 .. Len(s) : F[k] = NormalizeEntry(F[k - 1], s[k], length)
    /\ F[Len(s)] = EntriesDone(base, s, length)

\* normalize_slice goes through the entries one after the other.
LEMMA EntriesFold ==
    ASSUME NEW length, NEW s, IsList(s), NEW base
    PROVE  \E F : EntriesRun(F, base, s, length)
<1> DEFINE Rec(f, T) == IF T = {} THEN base
                        ELSE NormalizeEntry(f[T \ {Max(T)}], s[Max(T)], length)
           Solves(f, k) == f = [T \in SUBSET (1 .. k) |-> Rec(f, T)]
           G == {k \in 0 .. Len(s) : \E f : Solves(f, k)}
<1>1. Len(s) \in Nat /\ DOMAIN s = 1 .. Len(s)
  BY ListFacts
<1>2. 0 \in G
  <2> DEFINE f == [T \in SUBSET (1 .. 0) |-> base]
  <2>1. \A T \in SUBSET (1 .. 0) : T = {}
    OBVIOUS
  <2>2. Solves(f, 0)
    BY <2>1
  <2>3. QED
    <3> HIDE DEF Solves, f
    <3> QED BY <1>1, <2>2
<1>3. ASSUME NEW k \in 1 .. Len(s), k - 1 \in G PROVE k \in G
  <2>1. PICK f : Solves(f, k - 1)
    BY <1>3
  <2> DEFINE g == [T \in SUBSET (1 .. k) |-> Rec(f, T)]
  <2>2. \A T \in SUBSET (1 .. (k - 1)) : g[T] = f[T]
    <3>1. \A T \in SUBSET (1 .. (k - 1)) : T \in SUBSET (1 .. k) /\ f[T] = Rec(f, T)
      <4>1. \A i \in 1 .. (k - 1) : i \in 1 .. k
        BY <1>1
      <4> HIDE DEF Rec
      <4>2. QED
        BY <2>1, <4>1
    <3> HIDE DEF Rec
    <3>2. QED
      BY <3>1
  <2>3. \A T \in SUBSET (1 .. k) : T # {} => T \ {Max(T)} \in SUBSET (1 .. (k - 1))
    BY <1>1, TopFacts
  <2>4. \A T \in SUBSET (1 .. k) : Rec(f, T) = Rec(g, T)
    <3> HIDE DEF g
    <3> QED BY <2>2, <2>3
  <2>5. Solves(g, k)
    <3> HIDE DEF Rec
    <3> QED BY <2>4
  <2>6. k \in 0 .. Len(s)
    BY <1>1
  <2>7. QED
    <3> HIDE DEF Solves, g
    <3> QED BY <2>5, <2>6
<1>4. \E f : Solves(f, Len(s))
  <2> HIDE DEF Solves
  <2>1. \A k \in 0 .. Len(s) : k \in G
    <3> HIDE DEF G
    <3> QED BY <1>1, <1>2, <1>3, Upwards
  <2>2. QED
    BY <1>1, <2>1
<1> DEFINE h == CHOOSE f : Solves(f, Len(s))
           F == [k \in 0 .. Len(s) |-> h[1 .. k]]
           fold == EntriesDone(base, s, length)
<1>5. fold = h[DOMAIN s]
  BY <1>1 DEF EntriesDone, FoldLeft, MapThenFoldSet
<1>6. Solves(h, Len(s))
  <2> HIDE DEF Solves
  <2> QED BY <1>4
<1>7. \A T \in SUBSET (1 .. Len(s)) : h[T] = Rec(h, T)
  <2> HIDE DEF h, Rec
  <2> QED BY <1>6
<1>8. \A k \in 0 .. Len(s) : F[k] = h[1 .. k] /\ 1 .. k \in SUBSET (1 .. Len(s))
  <2> HIDE DEF h
  <2> QED BY <1>1
<1> HIDE DEF h, F, fold
<1>9. F[0] = base
  <2>1. 0 \in 0 .. Len(s) /\ 1 .. 0 = {}
    BY <1>1
  <2>2. QED
    BY <1>7, <1>8, <2>1
<1>10. ASSUME NEW k \in 1 .. Len(s) PROVE F[k] = NormalizeEntry(F[k - 1], s[k], length)
  <2>1. Max(1 .. k) = k /\ (1 .. k) \ {k} = 1 .. (k - 1) /\ 1 .. k # {}
    BY <1>1, TopFacts
  <2>2. k \in 0 .. Len(s) /\ k - 1 \in 0 .. Len(s)
    BY <1>1
  <2>3. F[k] = Rec(h, 1 .. k)
    <3> HIDE DEF Rec
    <3> QED BY <1>7, <1>8, <2>2
  <2>4. Rec(h, 1 .. k) = NormalizeEntry(h[1 .. (k - 1)], s[k], length)
    BY <2>1
  <2>5. QED
    BY <1>8, <2>2, <2>3, <2>4
<1>11. F[Len(s)] = fold
  BY <1>1, <1>5, <1>8
<1>12. QED
  BY <1>9, <1>10, <1>11 DEF fold, EntriesRun

\* The loop over the slices of a window.
SlicesDone(base, s, length) == FoldLeft(LAMBDA a, x : NormalizeSlice(a, x, length), base, s)

SlicesRun(F, base, s, length) ==
    /\ F[0] = base
    /\ \A k \in 1 .. Len(s) : F[k] = NormalizeSlice(F[k - 1], s[k], length)
    /\ F[Len(s)] = SlicesDone(base, s, length)

\* normalize_window goes through the slices one after the other.
LEMMA SlicesFold ==
    ASSUME NEW length, NEW s, IsList(s), NEW base
    PROVE  \E F : SlicesRun(F, base, s, length)
<1> DEFINE Rec(f, T) == IF T = {} THEN base
                        ELSE NormalizeSlice(f[T \ {Max(T)}], s[Max(T)], length)
           Solves(f, k) == f = [T \in SUBSET (1 .. k) |-> Rec(f, T)]
           G == {k \in 0 .. Len(s) : \E f : Solves(f, k)}
<1>1. Len(s) \in Nat /\ DOMAIN s = 1 .. Len(s)
  BY ListFacts
<1>2. 0 \in G
  <2> DEFINE f == [T \in SUBSET (1 .. 0) |-> base]
  <2>1. \A T \in SUBSET (1 .. 0) : T = {}
    OBVIOUS
  <2>2. Solves(f, 0)
    BY <2>1
  <2>3. QED
    <3> HIDE DEF Solves, f
    <3> QED BY <1>1, <2>2
<1>3. ASSUME NEW k \in 1 .. Len(s), k - 1 \in G PROVE k \in G
  <2>1. PICK f : Solves(f, k - 1)
    BY <1>3
  <2> DEFINE g == [T \in SUBSET (1 .. k) |-> Rec(f, T)]
  <2>2. \A T \in SUBSET (1 .. (k - 1)) : g[T] = f[T]
    <3>1. \A T \in SUBSET (1 .. (k - 1)) : T \in SUBSET (1 .. k) /\ f[T] = Rec(f, T)
      <4>1. \A i \in 1 .. (k - 1) : i \in 1 .. k
        BY <1>1
      <4> HIDE DEF Rec
      <4>2. QED
        BY <2>1, <4>1
    <3> HIDE DEF Rec
    <3>2. QED
      BY <3>1
  <2>3. \A T \in SUBSET (1 .. k) : T # {} => T \ {Max(T)} \in SUBSET (1 .. (k - 1))
    BY <1>1, TopFacts
  <2>4. \A T \in SUBSET (1 .. k) : Rec(f, T) = Rec(g, T)
    <3> HIDE DEF g
    <3> QED BY <2>2, <2>3
  <2>5. Solves(g, k)
    <3> HIDE DEF Rec
    <3> QED BY <2>4
  <2>6. k \in 0 .. Len(s)
    BY <1>1
  <2>7. QED
    <3> HIDE DEF Solves, g
    <3> QED BY <2>5, <2>6
<1>4. \E f : Solves(f, Len(s))
  <2> HIDE DEF Solves
  <2>1. \A k \in 0 .. Len(s) : k \in G
    <3> HIDE DEF G
    <3> QED BY <1>1, <1>2, <1>3, Upwards
  <2>2. QED
    BY <1>1, <2>1
<1> DEFINE h == CHOOSE f : Solves(f, Len(s))
           F == [k \in 0 .. Len(s) |-> h[1 .. k]]
           fold == SlicesDone(base, s, length)
<1>5. fold = h[DOMAIN s]
  BY <1>1 DEF SlicesDone, FoldLeft, MapThenFoldSet
<1>6. Solves(h, Len(s))
  <2> HIDE DEF Solves
  <2> QED BY <1>4
<1>7. \A T \in SUBSET (1 .. Len(s)) : h[T] = Rec(h, T)
  <2> HIDE DEF h, Rec
  <2> QED BY <1>6
<1>8. \A k \in 0 .. Len(s) : F[k] = h[1 .. k] /\ 1 .. k \in SUBSET (1 .. Len(s))
  <2> HIDE DEF h
  <2> QED BY <1>1
<1> HIDE DEF h, F, fold
<1>9. F[0] = base
  <2>1. 0 \in 0 .. Len(s) /\ 1 .. 0 = {}
    BY <1>1
  <2>2. QED
    BY <1>7, <1>8, <2>1
<1>10. ASSUME NEW k \in 1 .. Len(s) PROVE F[k] = NormalizeSlice(F[k - 1], s[k], length)
  <2>1. Max(1 .. k) = k /\ (1 .. k) \ {k} = 1 .. (k - 1) /\ 1 .. k # {}
    BY <1>1, TopFacts
  <2>2. k \in 0 .. Len(s) /\ k - 1 \in 0 .. Len(s)
    BY <1>1
  <2>3. F[k] = Rec(h, 1 .. k)
    <3> HIDE DEF Rec
    <3> QED BY <1>7, <1>8, <2>2
  <2>4. Rec(h, 1 .. k) = NormalizeSlice(h[1 .. (k - 1)], s[k], length)
    BY <2>1
  <2>5. QED
    BY <1>8, <2>2, <2>3, <2>4
<1>11. F[Len(s)] = fold
  BY <1>1, <1>5, <1>8
<1>12. QED
  BY <1>9, <1>10, <1>11 DEF fold, SlicesRun

\* The loop over the windows.
WindowsDone(base, s) == FoldLeft(NormalizeWindow, base, s)

WindowsRun(F, base, s) ==
    /\ F[0] = base
    /\ \A k \in 1 .. Len(s) : F[k] = NormalizeWindow(F[k - 1], s[k])
    /\ F[Len(s)] = WindowsDone(base, s)

\* normalize() goes through the windows one after the other.
LEMMA WindowsFold ==
    ASSUME NEW s, IsList(s), NEW base
    PROVE  \E F : WindowsRun(F, base, s)
<1> DEFINE Rec(f, T) == IF T = {} THEN base
                        ELSE NormalizeWindow(f[T \ {Max(T)}], s[Max(T)])
           Solves(f, k) == f = [T \in SUBSET (1 .. k) |-> Rec(f, T)]
           G == {k \in 0 .. Len(s) : \E f : Solves(f, k)}
<1>1. Len(s) \in Nat /\ DOMAIN s = 1 .. Len(s)
  BY ListFacts
<1>2. 0 \in G
  <2> DEFINE f == [T \in SUBSET (1 .. 0) |-> base]
  <2>1. \A T \in SUBSET (1 .. 0) : T = {}
    OBVIOUS
  <2>2. Solves(f, 0)
    BY <2>1
  <2>3. QED
    <3> HIDE DEF Solves, f
    <3> QED BY <1>1, <2>2
<1>3. ASSUME NEW k \in 1 .. Len(s), k - 1 \in G PROVE k \in G
  <2>1. PICK f : Solves(f, k - 1)
    BY <1>3
  <2> DEFINE g == [T \in SUBSET (1 .. k) |-> Rec(f, T)]
  <2>2. \A T \in SUBSET (1 .. (k - 1)) : g[T] = f[T]
    <3>1. \A T \in SUBSET (1 .. (k - 1)) : T \in SUBSET (1 .. k) /\ f[T] = Rec(f, T)
      <4>1. \A i \in 1 .. (k - 1) : i \in 1 .. k
        BY <1>1
      <4> HIDE DEF Rec
      <4>2. QED
        BY <2>1, <4>1
    <3> HIDE DEF Rec
    <3>2. QED
      BY <3>1
  <2>3. \A T \in SUBSET (1 .. k) : T # {} => T \ {Max(T)} \in SUBSET (1 .. (k - 1))
    BY <1>1, TopFacts
  <2>4. \A T \in SUBSET (1 .. k) : Rec(f, T) = Rec(g, T)
    <3> HIDE DEF g
    <3> QED BY <2>2, <2>3
  <2>5. Solves(g, k)
    <3> HIDE DEF Rec
    <3> QED BY <2>4
  <2>6. k \in 0 .. Len(s)
    BY <1>1
  <2>7. QED
    <3> HIDE DEF Solves, g
    <3> QED BY <2>5, <2>6
<1>4. \E f : Solves(f, Len(s))
  <2> HIDE DEF Solves
  <2>1. \A k \in 0 .. Len(s) : k \in G
    <3> HIDE DEF G
    <3> QED BY <1>1, <1>2, <1>3, Upwards
  <2>2. QED
    BY <1>1, <2>1
<1> DEFINE h == CHOOSE f : Solves(f, Len(s))
           F == [k \in 0 .. Len(s) |-> h[1 .. k]]
           fold == WindowsDone(base, s)
<1>5. fold = h[DOMAIN s]
  BY <1>1 DEF WindowsDone, FoldLeft, MapThenFoldSet
<1>6. Solves(h, Len(s))
  <2> HIDE DEF Solves
  <2> QED BY <1>4
<1>7. \A T \in SUBSET (1 .. Len(s)) : h[T] = Rec(h, T)
  <2> HIDE DEF h, Rec
  <2> QED BY <1>6
<1>8. \A k \in 0 .. Len(s) : F[k] = h[1 .. k] /\ 1 .. k \in SUBSET (1 .. Len(s))
  <2> HIDE DEF h
  <2> QED BY <1>1
<1> HIDE DEF h, F, fold
<1>9. F[0] = base
  <2>1. 0 \in 0 .. Len(s) /\ 1 .. 0 = {}
    BY <1>1
  <2>2. QED
    BY <1>7, <1>8, <2>1
<1>10. ASSUME NEW k \in 1 .. Len(s) PROVE F[k] = NormalizeWindow(F[k - 1], s[k])
  <2>1. Max(1 .. k) = k /\ (1 .. k) \ {k} = 1 .. (k - 1) /\ 1 .. k # {}
    BY <1>1, TopFacts
  <2>2. k \in 0 .. Len(s) /\ k - 1 \in 0 .. Len(s)
    BY <1>1
  <2>3. F[k] = Rec(h, 1 .. k)
    <3> HIDE DEF Rec
    <3> QED BY <1>7, <1>8, <2>2
  <2>4. Rec(h, 1 .. k) = NormalizeWindow(h[1 .. (k - 1)], s[k])
    BY <2>1
  <2>5. QED
    BY <1>8, <2>2, <2>3, <2>4
<1>11. F[Len(s)] = fold
  BY <1>1, <1>5, <1>8
<1>12. QED
  BY <1>9, <1>10, <1>11 DEF fold, WindowsRun

\* The loop of cpulist_create over the CPUs.
CpusDone(base, s, cpus) == FoldLeft(LAMBDA list, i : AddRun(cpus, list, i), base, s)

CpusRun(F, base, s, cpus) ==
    /\ F[0] = base
    /\ \A k \in 1 .. Len(s) : F[k] = AddRun(cpus, F[k - 1], s[k])
    /\ F[Len(s)] = CpusDone(base, s, cpus)

\* cpulist_create goes through the CPUs one after the other.
LEMMA CpusFold ==
    ASSUME NEW cpus, NEW s, IsList(s), NEW base
    PROVE  \E F : CpusRun(F, base, s, cpus)
<1> DEFINE Rec(f, T) == IF T = {} THEN base
                        ELSE AddRun(cpus, f[T \ {Max(T)}], s[Max(T)])
           Solves(f, k) == f = [T \in SUBSET (1 .. k) |-> Rec(f, T)]
           G == {k \in 0 .. Len(s) : \E f : Solves(f, k)}
<1>1. Len(s) \in Nat /\ DOMAIN s = 1 .. Len(s)
  BY ListFacts
<1>2. 0 \in G
  <2> DEFINE f == [T \in SUBSET (1 .. 0) |-> base]
  <2>1. \A T \in SUBSET (1 .. 0) : T = {}
    OBVIOUS
  <2>2. Solves(f, 0)
    BY <2>1
  <2>3. QED
    <3> HIDE DEF Solves, f
    <3> QED BY <1>1, <2>2
<1>3. ASSUME NEW k \in 1 .. Len(s), k - 1 \in G PROVE k \in G
  <2>1. PICK f : Solves(f, k - 1)
    BY <1>3
  <2> DEFINE g == [T \in SUBSET (1 .. k) |-> Rec(f, T)]
  <2>2. \A T \in SUBSET (1 .. (k - 1)) : g[T] = f[T]
    <3>1. \A T \in SUBSET (1 .. (k - 1)) : T \in SUBSET (1 .. k) /\ f[T] = Rec(f, T)
      <4>1. \A i \in 1 .. (k - 1) : i \in 1 .. k
        BY <1>1
      <4> HIDE DEF Rec
      <4>2. QED
        BY <2>1, <4>1
    <3> HIDE DEF Rec
    <3>2. QED
      BY <3>1
  <2>3. \A T \in SUBSET (1 .. k) : T # {} => T \ {Max(T)} \in SUBSET (1 .. (k - 1))
    BY <1>1, TopFacts
  <2>4. \A T \in SUBSET (1 .. k) : Rec(f, T) = Rec(g, T)
    <3> HIDE DEF g
    <3> QED BY <2>2, <2>3
  <2>5. Solves(g, k)
    <3> HIDE DEF Rec
    <3> QED BY <2>4
  <2>6. k \in 0 .. Len(s)
    BY <1>1
  <2>7. QED
    <3> HIDE DEF Solves, g
    <3> QED BY <2>5, <2>6
<1>4. \E f : Solves(f, Len(s))
  <2> HIDE DEF Solves
  <2>1. \A k \in 0 .. Len(s) : k \in G
    <3> HIDE DEF G
    <3> QED BY <1>1, <1>2, <1>3, Upwards
  <2>2. QED
    BY <1>1, <2>1
<1> DEFINE h == CHOOSE f : Solves(f, Len(s))
           F == [k \in 0 .. Len(s) |-> h[1 .. k]]
           fold == CpusDone(base, s, cpus)
<1>5. fold = h[DOMAIN s]
  BY <1>1 DEF CpusDone, FoldLeft, MapThenFoldSet
<1>6. Solves(h, Len(s))
  <2> HIDE DEF Solves
  <2> QED BY <1>4
<1>7. \A T \in SUBSET (1 .. Len(s)) : h[T] = Rec(h, T)
  <2> HIDE DEF h, Rec
  <2> QED BY <1>6
<1>8. \A k \in 0 .. Len(s) : F[k] = h[1 .. k] /\ 1 .. k \in SUBSET (1 .. Len(s))
  <2> HIDE DEF h
  <2> QED BY <1>1
<1> HIDE DEF h, F, fold
<1>9. F[0] = base
  <2>1. 0 \in 0 .. Len(s) /\ 1 .. 0 = {}
    BY <1>1
  <2>2. QED
    BY <1>7, <1>8, <2>1
<1>10. ASSUME NEW k \in 1 .. Len(s) PROVE F[k] = AddRun(cpus, F[k - 1], s[k])
  <2>1. Max(1 .. k) = k /\ (1 .. k) \ {k} = 1 .. (k - 1) /\ 1 .. k # {}
    BY <1>1, TopFacts
  <2>2. k \in 0 .. Len(s) /\ k - 1 \in 0 .. Len(s)
    BY <1>1
  <2>3. F[k] = Rec(h, 1 .. k)
    <3> HIDE DEF Rec
    <3> QED BY <1>7, <1>8, <2>2
  <2>4. Rec(h, 1 .. k) = AddRun(cpus, h[1 .. (k - 1)], s[k])
    BY <2>1
  <2>5. QED
    BY <1>8, <2>2, <2>3, <2>4
<1>11. F[Len(s)] = fold
  BY <1>1, <1>5, <1>8
<1>12. QED
  BY <1>9, <1>10, <1>11 DEF fold, CpusRun

\* The budgets of a list of processes, added up.
BudgetsDone(base, s) == FoldLeft(LAMBDA a, r : a + r.budget, base, s)

BudgetsRun(F, base, s) ==
    /\ F[0] = base
    /\ \A k \in 1 .. Len(s) : F[k] = F[k - 1] + s[k].budget
    /\ F[Len(s)] = BudgetsDone(base, s)

\* The sum of the budgets is added up one after the other.
LEMMA BudgetsFold ==
    ASSUME NEW s, IsList(s), NEW base
    PROVE  \E F : BudgetsRun(F, base, s)
<1> DEFINE Rec(f, T) == IF T = {} THEN base
                        ELSE f[T \ {Max(T)}] + s[Max(T)].budget
           Solves(f, k) == f = [T \in SUBSET (1 .. k) |-> Rec(f, T)]
           G == {k \in 0 .. Len(s) : \E f : Solves(f, k)}
<1>1. Len(s) \in Nat /\ DOMAIN s = 1 .. Len(s)
  BY ListFacts
<1>2. 0 \in G
  <2> DEFINE f == [T \in SUBSET (1 .. 0) |-> base]
  <2>1. \A T \in SUBSET (1 .. 0) : T = {}
    OBVIOUS
  <2>2. Solves(f, 0)
    BY <2>1
  <2>3. QED
    <3> HIDE DEF Solves, f
    <3> QED BY <1>1, <2>2
<1>3. ASSUME NEW k \in 1 .. Len(s), k - 1 \in G PROVE k \in G
  <2>1. PICK f : Solves(f, k - 1)
    BY <1>3
  <2> DEFINE g == [T \in SUBSET (1 .. k) |-> Rec(f, T)]
  <2>2. \A T \in SUBSET (1 .. (k - 1)) : g[T] = f[T]
    <3>1. \A T \in SUBSET (1 .. (k - 1)) : T \in SUBSET (1 .. k) /\ f[T] = Rec(f, T)
      <4>1. \A i \in 1 .. (k - 1) : i \in 1 .. k
        BY <1>1
      <4> HIDE DEF Rec
      <4>2. QED
        BY <2>1, <4>1
    <3> HIDE DEF Rec
    <3>2. QED
      BY <3>1
  <2>3. \A T \in SUBSET (1 .. k) : T # {} => T \ {Max(T)} \in SUBSET (1 .. (k - 1))
    BY <1>1, TopFacts
  <2>4. \A T \in SUBSET (1 .. k) : Rec(f, T) = Rec(g, T)
    <3> HIDE DEF g
    <3> QED BY <2>2, <2>3
  <2>5. Solves(g, k)
    <3> HIDE DEF Rec
    <3> QED BY <2>4
  <2>6. k \in 0 .. Len(s)
    BY <1>1
  <2>7. QED
    <3> HIDE DEF Solves, g
    <3> QED BY <2>5, <2>6
<1>4. \E f : Solves(f, Len(s))
  <2> HIDE DEF Solves
  <2>1. \A k \in 0 .. Len(s) : k \in G
    <3> HIDE DEF G
    <3> QED BY <1>1, <1>2, <1>3, Upwards
  <2>2. QED
    BY <1>1, <2>1
<1> DEFINE h == CHOOSE f : Solves(f, Len(s))
           F == [k \in 0 .. Len(s) |-> h[1 .. k]]
           fold == BudgetsDone(base, s)
<1>5. fold = h[DOMAIN s]
  BY <1>1 DEF BudgetsDone, FoldLeft, MapThenFoldSet
<1>6. Solves(h, Len(s))
  <2> HIDE DEF Solves
  <2> QED BY <1>4
<1>7. \A T \in SUBSET (1 .. Len(s)) : h[T] = Rec(h, T)
  <2> HIDE DEF h, Rec
  <2> QED BY <1>6
<1>8. \A k \in 0 .. Len(s) : F[k] = h[1 .. k] /\ 1 .. k \in SUBSET (1 .. Len(s))
  <2> HIDE DEF h
  <2> QED BY <1>1
<1> HIDE DEF h, F, fold
<1>9. F[0] = base
  <2>1. 0 \in 0 .. Len(s) /\ 1 .. 0 = {}
    BY <1>1
  <2>2. QED
    BY <1>7, <1>8, <2>1
<1>10. ASSUME NEW k \in 1 .. Len(s) PROVE F[k] = F[k - 1] + s[k].budget
  <2>1. Max(1 .. k) = k /\ (1 .. k) \ {k} = 1 .. (k - 1) /\ 1 .. k # {}
    BY <1>1, TopFacts
  <2>2. k \in 0 .. Len(s) /\ k - 1 \in 0 .. Len(s)
    BY <1>1
  <2>3. F[k] = Rec(h, 1 .. k)
    <3> HIDE DEF Rec
    <3> QED BY <1>7, <1>8, <2>2
  <2>4. Rec(h, 1 .. k) = h[1 .. (k - 1)] + s[k].budget
    BY <2>1
  <2>5. QED
    BY <1>8, <2>2, <2>3, <2>4
<1>11. F[Len(s)] = fold
  BY <1>1, <1>5, <1>8
<1>12. QED
  BY <1>9, <1>10, <1>11 DEF fold, BudgetsRun

-------------------------------------------------------------------------------
(* What normalize() makes: the normal form of each part of the tree            *)

\* A normalized process.
GoodProcess(r) ==
    /\ IsMapping(r)
    /\ DOMAIN r \subseteq ProcessKeys
    /\ Has(r, "budget") /\ Has(r, "jitter") /\ Has(r, "init")
    /\ r.budget \in Int /\ r.budget > 0
    /\ r.jitter \in 0 .. 2 * r.budget

\* A normalized partition.
GoodPartition(p) ==
    /\ p = [name |-> p.name, processes |-> p.processes]
    /\ IsList(p.processes) /\ p.processes # <<>>
    /\ \A r \in Range(p.processes) : GoodProcess(r)

\* The entries of a normalized slice.
GoodEntries(l) ==
    /\ IsList(l)
    /\ \A i \in 1 .. Len(l) : /\ l[i] = [key |-> l[i].key, ref |-> l[i].ref]
                              /\ l[i].key \in {"sc_partition", "be_partition"}
    /\ \A i, j \in 1 .. Len(l) : l[i].key = l[j].key => i = j

\* A normalized slice.
GoodSlice(s) ==
    /\ IsMapping(s)
    /\ DOMAIN s \subseteq {"cpu", "frequency", "entries"}
    /\ Has(s, "cpu") /\ Has(s, "entries")
    /\ CpuTree(s.cpu) /\ CpuSetEnd(s.cpu) = "ok"
    /\ GoodEntries(s.entries)

\* A normalized window.
GoodWindow(w) ==
    /\ w.length \in Int
    /\ \/ w = [length |-> w.length, entries |-> <<>>]
       \/ /\ w = [length |-> w.length, entries |-> <<>>, slices |-> w.slices]
          /\ IsList(w.slices) /\ \A s \in Range(w.slices) : GoodSlice(s)

\* The generated names are numbered in order and given once.
Names(parts, count) ==
    /\ \A i \in 1 .. Len(parts) :
          parts[i].name[1] = "anonymous" => \E n \in 0 .. (count - 1) : parts[i].name = Anonymous(n)
    /\ \A i, j \in 1 .. Len(parts) :
          parts[i].name = parts[j].name /\ parts[i].name[1] = "anonymous" => i = j

\* What the accumulator holds is normal.
Good(a) ==
    /\ a = [end |-> a.end, partitions |-> a.partitions, anonymous |-> a.anonymous,
            windows |-> a.windows, slices |-> a.slices, entries |-> a.entries]
    /\ a.anonymous \in Nat /\ Names(a.partitions, a.anonymous)
    /\ IsList(a.partitions) /\ \A p \in Range(a.partitions) : GoodPartition(p)
    /\ IsList(a.windows) /\ \A w \in Range(a.windows) : GoodWindow(w)
    /\ IsList(a.slices) /\ \A s \in Range(a.slices) : GoodSlice(s)
    /\ GoodEntries(a.entries)

\* The time to be shared by the processes of a partition: none, or some.
IsTotal(total) == total = <<>> \/ \E t \in Int : total = <<t>>

\* The process list of a partition is a nonempty list of processes.
LEMMA ProcessListFacts ==
    ASSUME NEW part, PartitionTree(part)
    PROVE  /\ IsList(ProcessList(part))
           /\ Len(ProcessList(part)) \in Nat \ {0}
           /\ \A p \in Range(ProcessList(part)) : ProcessTree(p)
<1>1. CASE Has(part, "processes") /\ part.processes # <<>>
  <2>1. ProcessList(part) = part.processes
    BY <1>1 DEF ProcessList
  <2>2. IsList(part.processes) /\ \A p \in Range(part.processes) : ProcessTree(p)
    BY <1>1 DEF PartitionTree
  <2>3. Len(part.processes) \in Nat \ {0}
    BY <1>1, <2>2, ListFacts
  <2>4. QED
    BY <2>1, <2>2, <2>3
<1>2. CASE ~(Has(part, "processes") /\ part.processes # <<>>)
  <2> DEFINE one == Restrict(part, SingleKeys \cap DOMAIN part)
  <2>1. ProcessList(part) = <<one>>
    BY <1>2 DEF ProcessList
  <2>2. ProcessTree(one)
    <3>1. DOMAIN one = SingleKeys \cap DOMAIN part
      BY DEF Restrict
    <3>2. \A k \in DOMAIN one : one[k] = part[k]
      BY DEF Restrict
    <3>3. one = [k \in DOMAIN one |-> one[k]]
      BY <3>1 DEF Restrict
    <3>4. Has(part, "budget") => part.budget \in Int
      BY DEF PartitionTree, ProcessTree
    <3> HIDE DEF one
    <3>5. Has(one, "budget") => one.budget \in Int
      BY <3>1, <3>2, <3>4 DEF Has
    <3>6. QED
      BY <3>3, <3>5 DEF ProcessTree, IsMapping
  <2> HIDE DEF one
  <2>3. QED
    BY <2>1, <2>2, OneList
<1>3. QED
  BY <1>1, <1>2

\* normalize_process makes a normalized process.
LEMMA ProcessNormalized ==
    ASSUME NEW proc, ProcessTree(proc), NEW total, IsTotal(total), NEW n \in Nat \ {0},
           ProcessOk(proc, total, n)
    PROVE  GoodProcess(NormalizeProcess(proc, total, n))
<1> DEFINE b == BudgetOf(proc, total, n)
           r == NormalizeProcess(proc, total, n)
           d == [budget |-> b, jitter |-> 0, init |-> FALSE]
<1>1. b \in Int /\ b > 0
  <2>1. b > 0
    BY DEF ProcessOk
  <2>2. CASE Has(proc, "budget")
    BY <2>1, <2>2 DEF BudgetOf, ProcessTree
  <2>3. CASE ~Has(proc, "budget")
    <3>1. PICK t \in Int : total = <<t>>
      BY <2>3 DEF ProcessOk, IsTotal
    <3>2. b = t \div (10 * n)
      BY <2>3, <3>1 DEF BudgetOf
    <3>3. 10 * n \in Nat \ {0}
      OBVIOUS
    <3>4. t \div (10 * n) \in Int
      BY <3>3, DivMod
    <3>5. QED
      BY <2>1, <3>2, <3>4
  <2>4. QED
    BY <2>2, <2>3
<1>2. Has(proc, "jitter") => proc.jitter \in 0 .. 2 * b
  BY DEF ProcessOk
<1>3. DOMAIN proc \subseteq ProcessKeys
  BY DEF ProcessOk
<1> HIDE DEF b
<1>4. /\ r = Defaults(proc, d)
      /\ Has(proc, "budget") => proc.budget = b
  BY DEF NormalizeProcess, BudgetOf, b
<1>5. /\ DOMAIN r = {"budget", "jitter", "init"} \cup DOMAIN proc
      /\ r = [k \in DOMAIN r |-> r[k]]
      /\ r.budget = b
      /\ r.jitter = IF Has(proc, "jitter") THEN proc.jitter ELSE 0
  BY <1>4 DEF Defaults, Has
<1> HIDE DEF r
<1>6. r.jitter \in 0 .. 2 * b
  BY <1>1, <1>2, <1>5
<1>7. QED
  BY <1>1, <1>3, <1>5, <1>6 DEF GoodProcess, IsMapping, Has, ProcessKeys, r

\* What AddPartition adds.
NormalProcesses(part, total) ==
    [i \in DOMAIN ProcessList(part) |->
        NormalizeProcess(ProcessList(part)[i], total, Len(ProcessList(part)))]

NewPartition(a, part, total) ==
    [name |-> IF Has(part, "name") THEN part.name ELSE Anonymous(a.anonymous),
     processes |-> NormalProcesses(part, total)]

\* The new partition is normal.
LEMMA PartitionNormalized ==
    ASSUME NEW a, NEW part, PartitionTree(part), NEW total, IsTotal(total),
           PartitionOk(part, total)
    PROVE  /\ GoodPartition(NewPartition(a, part, total))
           /\ Len(NewPartition(a, part, total).processes) = Len(ProcessList(part))
<1> DEFINE procs == ProcessList(part)
           p == NewPartition(a, part, total)
           n == Len(procs)
<1>1. /\ IsList(procs) /\ n \in Nat \ {0} /\ DOMAIN procs = 1 .. n
      /\ \A i \in 1 .. n : ProcessTree(procs[i])
  BY ProcessListFacts, ListFacts
<1>2. \A i \in 1 .. n : ProcessOk(procs[i], total, n)
  BY <1>1 DEF PartitionOk
<1> HIDE DEF procs, n
<1>3. \A i \in 1 .. n : GoodProcess(NormalizeProcess(procs[i], total, n))
  BY <1>1, <1>2, ProcessNormalized
<1>4. /\ p = [name |-> p.name, processes |-> p.processes]
      /\ p.processes = [i \in 1 .. n |-> NormalizeProcess(procs[i], total, n)]
  BY <1>1 DEF NewPartition, NormalProcesses, procs, n
<1> HIDE DEF p
<1>5. p.processes = [i \in 1 .. n |-> p.processes[i]]
  BY <1>4
<1>6. IsList(p.processes) /\ Len(p.processes) = n
  BY <1>1, <1>5, MakesList
<1>7. p.processes # <<>>
  BY <1>1, <1>6, ListFacts
<1>8. \A r \in Range(p.processes) : GoodProcess(r)
  <2>1. \A i \in 1 .. n : GoodProcess(p.processes[i])
    BY <1>3, <1>4
  <2>2. DOMAIN p.processes = 1 .. n
    BY <1>4
  <2>3. QED
    BY <2>1, <2>2 DEF Range
<1>9. QED
  BY <1>4, <1>6, <1>7, <1>8 DEF GoodPartition, p, n, procs

\* An ending leaves the lists alone.
LEMMA EndsFacts ==
    ASSUME NEW a, Good(a), NEW how
    PROVE  /\ Good(Ends(a, how))
           /\ Ends(a, how).partitions = a.partitions
           /\ Ends(a, how).windows = a.windows
           /\ Ends(a, how).slices = a.slices
           /\ Ends(a, how).entries = a.entries
           /\ Ends(a, how).anonymous = a.anonymous
           /\ Ends(a, how).end = IF a.end = "ok" THEN how ELSE a.end
<1> DEFINE b == Ends(a, how)
<1>1. a = [end |-> a.end, partitions |-> a.partitions, anonymous |-> a.anonymous,
           windows |-> a.windows, slices |-> a.slices, entries |-> a.entries]
  BY DEF Good
<1>2. b = [end |-> IF a.end = "ok" THEN how ELSE a.end,
           partitions |-> a.partitions, anonymous |-> a.anonymous,
           windows |-> a.windows, slices |-> a.slices, entries |-> a.entries]
  BY <1>1 DEF Ends
<1> HIDE DEF b
<1>3. QED
  BY <1>2 DEF Good, b

-------------------------------------------------------------------------------
(* Every step of the walk keeps the accumulator normal                         *)

\* Generated names differ.
LEMMA AnonymousFacts ==
    ASSUME NEW m \in Nat, NEW n \in Nat
    PROVE  Anonymous(m)[1] = "anonymous" /\ (Anonymous(m) = Anonymous(n) => m = n)
BY DEF Anonymous

\* A new partition has a new name, if the name is generated.
LEMMA NamesKept ==
    ASSUME NEW parts, IsList(parts), NEW count \in Nat, Names(parts, count),
           NEW p, NEW next \in Nat,
           \/ p.name[1] # "anonymous" /\ next = count
           \/ p.name = Anonymous(count) /\ next = count + 1
    PROVE  Names(Append(parts, p), next)
<1> DEFINE l == Append(parts, p)
           n == Len(parts)
<1>1. /\ n \in Nat /\ Len(l) = n + 1
      /\ \A i \in 1 .. n : l[i] = parts[i]
      /\ l[n + 1] = p
      /\ \A i \in 1 .. n + 1 : i \in 1 .. n \/ i = n + 1
  BY AppendList, ListFacts
<1> HIDE DEF l, n
<1>2. \A i \in 1 .. n : parts[i].name[1] = "anonymous" =>
        \E m \in 0 .. (count - 1) : parts[i].name = Anonymous(m)
  BY DEF Names, n
<1>3. \A i, j \in 1 .. n :
        parts[i].name = parts[j].name /\ parts[i].name[1] = "anonymous" => i = j
  BY DEF Names, n
<1>4. ASSUME NEW i \in 1 .. n, parts[i].name[1] = "anonymous" PROVE parts[i].name # p.name
  <2>1. PICK m \in 0 .. (count - 1) : parts[i].name = Anonymous(m)
    BY <1>2, <1>4
  <2>2. m \in Nat /\ m # count
    OBVIOUS
  <2>3. Anonymous(m) # Anonymous(count)
    BY <2>2, AnonymousFacts
  <2>4. QED
    BY <1>4, <2>1, <2>3
<1>5. ASSUME NEW i \in 1 .. Len(l), l[i].name[1] = "anonymous"
      PROVE  \E m \in 0 .. (next - 1) : l[i].name = Anonymous(m)
  <2>1. CASE i \in 1 .. n
    <3>1. PICK m \in 0 .. (count - 1) : parts[i].name = Anonymous(m)
      BY <1>1, <1>2, <1>5, <2>1
    <3>2. m \in 0 .. (next - 1)
      OBVIOUS
    <3>3. QED
      BY <1>1, <2>1, <3>1, <3>2
  <2>2. CASE i = n + 1
    <3>1. p.name = Anonymous(count) /\ count \in 0 .. (next - 1)
      BY <1>1, <1>5, <2>2
    <3>2. QED
      BY <1>1, <2>2, <3>1
  <2>3. QED
    BY <1>1, <2>1, <2>2
<1>6. ASSUME NEW i \in 1 .. Len(l), NEW j \in 1 .. Len(l),
             l[i].name = l[j].name, l[i].name[1] = "anonymous"
      PROVE  i = j
  BY <1>1, <1>3, <1>4, <1>6
<1>7. QED
  BY <1>5, <1>6 DEF Names, l

\* normalize_partition, when it does not throw: one more partition.
LEMMA AddPartitionFacts ==
    ASSUME NEW a, Good(a), NEW part, PartitionTree(part), NEW total, IsTotal(total)
    PROVE  LET b == AddPartition(a, part, total)
           IN  /\ Good(b)
               /\ b.windows = a.windows /\ b.slices = a.slices /\ b.entries = a.entries
               /\ b.end = "endless" => a.end = "endless"
               /\ b.end = "ok" =>
                     /\ a.end = "ok" /\ PartitionOk(part, total)
                     /\ b.partitions = Append(a.partitions, NewPartition(a, part, total))
                     /\ b.anonymous = IF Has(part, "name") THEN a.anonymous ELSE a.anonymous + 1
<1> DEFINE b == AddPartition(a, part, total)
           p == NewPartition(a, part, total)
<1>1. CASE ~PartitionOk(part, total)
  <2>1. b = Ends(a, "throws")
    BY <1>1 DEF AddPartition
  <2>2. QED
    BY <2>1, EndsFacts
<1>2. CASE PartitionOk(part, total)
  <2>1. a = [end |-> a.end, partitions |-> a.partitions, anonymous |-> a.anonymous,
             windows |-> a.windows, slices |-> a.slices, entries |-> a.entries]
    BY DEF Good
  <2>2. b = [a EXCEPT !.partitions = Append(@, p),
                      !.anonymous = IF Has(part, "name") THEN @ ELSE @ + 1]
    BY <1>2 DEF AddPartition, NewPartition, NormalProcesses
  <2> HIDE DEF p
  <2>3. b = [end |-> a.end, partitions |-> Append(a.partitions, p),
             anonymous |-> IF Has(part, "name") THEN a.anonymous ELSE a.anonymous + 1,
             windows |-> a.windows, slices |-> a.slices, entries |-> a.entries]
    BY <2>1, <2>2
  <2>4. GoodPartition(p)
    BY <1>2, PartitionNormalized DEF p
  <2>5. /\ IsList(Append(a.partitions, p))
        /\ \A q \in Range(Append(a.partitions, p)) : GoodPartition(q)
    BY <2>4, AppendList DEF Good
  <2>6. (IF Has(part, "name") THEN a.anonymous ELSE a.anonymous + 1) \in Nat
    BY DEF Good
  <2>9. Names(Append(a.partitions, p),
              IF Has(part, "name") THEN a.anonymous ELSE a.anonymous + 1)
    <3>1. \/ p.name[1] # "anonymous" /\ Has(part, "name")
          \/ p.name = Anonymous(a.anonymous) /\ ~Has(part, "name")
      BY DEF p, NewPartition, PartitionTree
    <3>2. /\ IsList(a.partitions) /\ a.anonymous \in Nat /\ a.anonymous + 1 \in Nat
          /\ Names(a.partitions, a.anonymous)
      BY DEF Good
    <3>3. CASE Has(part, "name")
      BY <3>1, <3>2, <3>3, NamesKept
    <3>4. CASE ~Has(part, "name")
      BY <3>1, <3>2, <3>4, NamesKept
    <3>5. QED
      BY <3>3, <3>4
  <2> HIDE DEF b
  <2>7. Good(b)
    BY <2>3, <2>5, <2>6, <2>9 DEF Good
  <2>8. QED
    BY <1>2, <2>3, <2>7 DEF b, p
<1>3. QED
  BY <1>1, <1>2

\* norm_slice[key] = name keeps one entry for a key.
SetStep(l, m, key, name) ==
    /\ GoodEntries(m)
    /\ \A x : x # key => {e \in Range(m) : e.key = x} = {e \in Range(l) : e.key = x}
    /\ {e \in Range(m) : e.key = key} = {[key |-> key, ref |-> name]}

\* norm_slice[key] = name sets that key and no other.
LEMMA SetEntryFacts ==
    ASSUME NEW l, GoodEntries(l), NEW key \in {"sc_partition", "be_partition"}, NEW name
    PROVE  SetStep(l, SetEntry(l, key, name), key, name)
<1> DEFINE e == [key |-> key, ref |-> name]
           m == SetEntry(l, key, name)
<1>1. /\ Len(l) \in Nat /\ DOMAIN l = 1 .. Len(l)
      /\ l = [i \in 1 .. Len(l) |-> l[i]]
  BY ListFacts DEF GoodEntries
<1>2. /\ e.key = key /\ e.ref = name /\ e = [key |-> e.key, ref |-> e.ref]
  OBVIOUS
<1>3. CASE \E i \in 1 .. Len(l) : l[i].key = key
  <2>1. m = [i \in 1 .. Len(l) |-> IF l[i].key = key THEN e ELSE l[i]]
    BY <1>1, <1>3 DEF SetEntry
  <2> HIDE DEF e, m
  <2>2. /\ m = [i \in 1 .. Len(l) |-> m[i]]
        /\ DOMAIN m = 1 .. Len(l)
        /\ \A i \in 1 .. Len(l) : m[i] = (IF l[i].key = key THEN e ELSE l[i])
        /\ \A i \in 1 .. Len(l) : m[i].key = l[i].key
    BY <1>2, <2>1
  <2>3. IsList(m) /\ Len(m) = Len(l)
    BY <1>1, <2>2, MakesList
  <2>4. GoodEntries(m)
    BY <1>2, <2>2, <2>3 DEF GoodEntries
  <2>5. PICK i \in 1 .. Len(l) : l[i].key = key
    BY <1>3
  <2>6. m[i] = e
    BY <2>2, <2>5
  <2>7. \A x : x # key => {f \in Range(m) : f.key = x} = {f \in Range(l) : f.key = x}
    BY <1>1, <1>2, <2>2 DEF Range
  <2>8. {f \in Range(m) : f.key = key} = {e}
    BY <1>2, <2>2, <2>6 DEF Range
  <2>9. QED
    BY <2>4, <2>7, <2>8 DEF SetStep, e, m
<1>4. CASE ~\E i \in 1 .. Len(l) : l[i].key = key
  <2>1. m = Append(l, e)
    BY <1>1, <1>4 DEF SetEntry
  <2> HIDE DEF e, m
  <2>2. /\ IsList(m) /\ Len(m) = Len(l) + 1
        /\ \A i \in 1 .. Len(l) : m[i] = l[i]
        /\ m[Len(l) + 1] = e
        /\ Range(m) = Range(l) \cup {e}
    BY <2>1, AppendList DEF GoodEntries
  <2>3. \A i \in 1 .. Len(l) + 1 : i \in 1 .. Len(l) \/ i = Len(l) + 1
    BY <1>1
  <2>4. \A i \in 1 .. Len(m) : /\ m[i] = [key |-> m[i].key, ref |-> m[i].ref]
                               /\ m[i].key \in {"sc_partition", "be_partition"}
    BY <1>2, <2>2, <2>3 DEF GoodEntries
  <2>5. \A i, j \in 1 .. Len(m) : m[i].key = m[j].key => i = j
    BY <1>2, <1>4, <2>2, <2>3 DEF GoodEntries
  <2>6. GoodEntries(m)
    BY <2>2, <2>4, <2>5 DEF GoodEntries
  <2>7. Len(l) + 1 \in 1 .. Len(m)
    BY <1>1, <2>2
  <2>8. \A f \in Range(l) : f.key # key
    BY <1>1, <1>4 DEF Range
  <2>9. \A x : x # key => {f \in Range(m) : f.key = x} = {f \in Range(l) : f.key = x}
    BY <1>2, <2>2
  <2>10. {f \in Range(m) : f.key = key} = {e}
    BY <1>2, <2>2, <2>8
  <2>11. QED
    BY <2>6, <2>9, <2>10 DEF SetStep, e, m
<1>5. QED
  BY <1>3, <1>4

\* The accumulator with other entries, slices or windows.
LEMMA WithEntries ==
    ASSUME NEW a, Good(a), NEW l, GoodEntries(l)
    PROVE  LET b == [a EXCEPT !.entries = l]
           IN  /\ Good(b) /\ b.entries = l /\ b.end = a.end /\ b.partitions = a.partitions
               /\ b.windows = a.windows /\ b.slices = a.slices /\ b.anonymous = a.anonymous
<1> DEFINE b == [a EXCEPT !.entries = l]
<1>1. a = [end |-> a.end, partitions |-> a.partitions, anonymous |-> a.anonymous,
           windows |-> a.windows, slices |-> a.slices, entries |-> a.entries]
  BY DEF Good
<1>2. b = [end |-> a.end, partitions |-> a.partitions, anonymous |-> a.anonymous,
           windows |-> a.windows, slices |-> a.slices, entries |-> l]
  BY <1>1
<1> HIDE DEF b
<1>3. QED
  BY <1>2 DEF Good, b

\* The accumulator with other slices is as normal as before.
LEMMA WithSlices ==
    ASSUME NEW a, Good(a), NEW l, IsList(l), \A s \in Range(l) : GoodSlice(s)
    PROVE  LET b == [a EXCEPT !.slices = l]
           IN  /\ Good(b) /\ b.slices = l /\ b.end = a.end /\ b.partitions = a.partitions
               /\ b.windows = a.windows /\ b.entries = a.entries /\ b.anonymous = a.anonymous
<1> DEFINE b == [a EXCEPT !.slices = l]
<1>1. a = [end |-> a.end, partitions |-> a.partitions, anonymous |-> a.anonymous,
           windows |-> a.windows, slices |-> a.slices, entries |-> a.entries]
  BY DEF Good
<1>2. b = [end |-> a.end, partitions |-> a.partitions, anonymous |-> a.anonymous,
           windows |-> a.windows, slices |-> l, entries |-> a.entries]
  BY <1>1
<1> HIDE DEF b
<1>3. QED
  BY <1>2 DEF Good, b

\* The accumulator with one normalized window more is as normal as before.
LEMMA WithWindow ==
    ASSUME NEW a, Good(a), NEW w, GoodWindow(w)
    PROVE  LET b == [a EXCEPT !.windows = Append(@, w)]
           IN  /\ Good(b) /\ b.windows = Append(a.windows, w) /\ b.end = a.end
               /\ b.partitions = a.partitions /\ b.slices = a.slices
               /\ b.entries = a.entries /\ b.anonymous = a.anonymous
<1> DEFINE b == [a EXCEPT !.windows = Append(@, w)]
           l == Append(a.windows, w)
<1>1. a = [end |-> a.end, partitions |-> a.partitions, anonymous |-> a.anonymous,
           windows |-> a.windows, slices |-> a.slices, entries |-> a.entries]
  BY DEF Good
<1>2. b = [end |-> a.end, partitions |-> a.partitions, anonymous |-> a.anonymous,
           windows |-> l, slices |-> a.slices, entries |-> a.entries]
  BY <1>1
<1>3. IsList(l) /\ \A x \in Range(l) : GoodWindow(x)
  BY AppendList DEF Good
<1> HIDE DEF b, l
<1>4. QED
  BY <1>2, <1>3 DEF Good, b, l

\* One entry of a slice is normalized: it refers to a partition, or to the one
\* that it adds.
EntryStep(a, b, e, length) ==
    LET new == NewPartition(a, e.def, TotalBudget(e.key, length))
    IN  /\ Good(b)
        /\ b.windows = a.windows /\ b.slices = a.slices
        /\ b.end = "endless" => a.end = "endless"
        /\ b.end = "ok" => a.end = "ok"
        /\ b.end = "ok" /\ Has(e, "ref") =>
              /\ b.partitions = a.partitions /\ b.anonymous = a.anonymous
              /\ b.entries = SetEntry(a.entries, PartitionKey(e.key), e.ref)
        /\ b.end = "ok" /\ ~Has(e, "ref") =>
              /\ PartitionOk(e.def, TotalBudget(e.key, length))
              /\ b.partitions = Append(a.partitions, new)
              /\ b.entries = SetEntry(a.entries, PartitionKey(e.key), new.name)

\* normalize_slice treats an entry as EntryStep says.
LEMMA EntryFacts ==
    ASSUME NEW a, Good(a), NEW e, Has(e, "ref") \/ PartitionTree(e.def), NEW length \in Int
    PROVE  EntryStep(a, NormalizeEntry(a, e, length), e, length)
<1> DEFINE b == NormalizeEntry(a, e, length)
           total == TotalBudget(e.key, length)
           key == PartitionKey(e.key)
           p == NewPartition(a, e.def, total)
<1>1. key \in {"sc_partition", "be_partition"}
  BY DEF PartitionKey
<1>2. CASE Has(e, "ref")
  <2> DEFINE l == SetEntry(a.entries, key, e.ref)
  <2>1. GoodEntries(l)
    BY <1>1, SetEntryFacts DEF Good, SetStep
  <2>2. b = [a EXCEPT !.entries = l]
    BY <1>2 DEF NormalizeEntry
  <2> HIDE DEF l, b
  <2>3. QED
    BY <1>2, <2>1, <2>2, WithEntries DEF EntryStep, l, b
<1>3. CASE ~Has(e, "ref")
  <2> DEFINE r == AddPartition(a, e.def, total)
             l == SetEntry(r.entries, key, Last(r.partitions).name)
  <2>1. IsTotal(total)
    <3>1. 6 * length \in Int /\ 10 * length \in Int
      OBVIOUS
    <3>2. QED
      BY <3>1 DEF IsTotal, TotalBudget
  <2> HIDE DEF total, p
  <2>2. /\ Good(r) /\ r.windows = a.windows /\ r.slices = a.slices /\ r.entries = a.entries
        /\ r.end = "endless" => a.end = "endless"
        /\ r.end = "ok" =>
              /\ a.end = "ok" /\ PartitionOk(e.def, total)
              /\ r.partitions = Append(a.partitions, p)
              /\ r.anonymous = IF Has(e.def, "name") THEN a.anonymous ELSE a.anonymous + 1
    BY <1>3, <2>1, AddPartitionFacts DEF p
  <2>3. b = IF r.end # "ok" THEN r ELSE [r EXCEPT !.entries = l]
    <3>1. [r EXCEPT !.entries = l] = [r EXCEPT !.entries = SetEntry(@, key, Last(r.partitions).name)]
      OBVIOUS
    <3>2. QED
      BY <1>3, <3>1 DEF NormalizeEntry, total
  <2> HIDE DEF r
  <2>4. CASE r.end # "ok"
    <3>1. b = r
      BY <2>3, <2>4
    <3> HIDE DEF b
    <3>2. QED
      BY <1>3, <2>2, <2>4, <3>1 DEF EntryStep, b
  <2>5. CASE r.end = "ok"
    <3>1. b = [r EXCEPT !.entries = l]
      BY <2>3, <2>5
    <3>2. GoodEntries(l)
      BY <1>1, <2>2, SetEntryFacts DEF Good, SetStep
    <3>3. Last(r.partitions) = p
      <4>1. /\ Len(r.partitions) = Len(a.partitions) + 1
            /\ r.partitions[Len(a.partitions) + 1] = p
        BY <2>2, <2>5, AppendList DEF Good
      <4>2. QED
        BY <4>1 DEF Last
    <3>4. l = SetEntry(a.entries, key, p.name)
      BY <2>2, <3>3
    <3> HIDE DEF b, l
    <3>5. /\ Good(b) /\ b.entries = l /\ b.end = r.end /\ b.partitions = r.partitions
          /\ b.windows = r.windows /\ b.slices = r.slices /\ b.anonymous = r.anonymous
      BY <2>2, <3>1, <3>2, WithEntries
    <3>6. QED
      BY <1>3, <2>2, <2>5, <3>4, <3>5 DEF EntryStep, b, p, total
  <2>6. QED
    BY <2>4, <2>5
<1>4. QED
  BY <1>2, <1>3

-------------------------------------------------------------------------------
(* What becomes of the partitions that are defined inside a slice              *)

\* A list that goes on where another one ends.
Extended(l, m) == Len(l) <= Len(m) /\ \A i \in 1 .. Len(l) : m[i] = l[i]

\* The partition that entry e defines is in parts, and l refers to it by name.
Made(parts, l, e, length) ==
    \E p \in 1 .. Len(parts) :
        /\ PartitionOk(e.def, TotalBudget(e.key, length))
        /\ parts[p].processes = NormalProcesses(e.def, TotalBudget(e.key, length))
        /\ {f \in Range(l) : f.key = PartitionKey(e.key)} =
              {[key |-> PartitionKey(e.key), ref |-> parts[p].name]}

\* So it is for the decisive ones of the first k entries.
MadeUpTo(parts, l, entries, k, length) ==
    \A i \in 1 .. k :
        /\ ~Has(entries[i], "ref")
        /\ \A j \in 1 .. k : j > i => PartitionKey(entries[j].key) # PartitionKey(entries[i].key)
        => Made(parts, l, entries[i], length)

\* The normalized slice s and the partitions that slice became.
SliceMade(parts, slice, s, length) ==
    /\ GoodSlice(s) /\ SliceTree(slice) /\ Has(slice, "cpu") /\ s.cpu = slice.cpu
    /\ MadeUpTo(parts, s.entries, slice.entries, Len(slice.entries), length)

\* The normalized window w and the partitions that win became.
WindowMade(parts, win, w) ==
    /\ w.length = win.length
    /\ Len(SlicesOf(w)) = Len(SlicesOf(win))
    /\ \A i \in 1 .. Len(SlicesOf(win)) :
          SliceMade(parts, SlicesOf(win)[i], SlicesOf(w)[i], win.length)

\* A longer list of partitions still has what was made.
LEMMA MadeKept ==
    ASSUME NEW P, IsList(P), NEW Q, IsList(Q), Extended(P, Q), NEW l, NEW m, NEW e, NEW length,
           {f \in Range(l) : f.key = PartitionKey(e.key)} =
              {f \in Range(m) : f.key = PartitionKey(e.key)},
           Made(P, l, e, length)
    PROVE  Made(Q, m, e, length)
<1> DEFINE total == TotalBudget(e.key, length)
           key == PartitionKey(e.key)
<1> HIDE DEF total, key
<1>1. PICK p \in 1 .. Len(P) :
        /\ PartitionOk(e.def, total)
        /\ P[p].processes = NormalProcesses(e.def, total)
        /\ {f \in Range(l) : f.key = key} = {[key |-> key, ref |-> P[p].name]}
  BY DEF Made, total, key
<1>2. p \in 1 .. Len(Q) /\ Q[p] = P[p]
  BY ListFacts DEF Extended
<1>3. {f \in Range(m) : f.key = key} = {[key |-> key, ref |-> Q[p].name]}
  BY <1>1, <1>2 DEF key
<1>4. QED
  BY <1>1, <1>2, <1>3 DEF Made, total, key

\* What was made of a slice is not changed by partitions added later.
LEMMA SliceMadeKept ==
    ASSUME NEW P, IsList(P), NEW Q, IsList(Q), Extended(P, Q), NEW slice, NEW s, NEW length,
           SliceMade(P, slice, s, length)
    PROVE  SliceMade(Q, slice, s, length)
<1>1. MadeUpTo(Q, s.entries, slice.entries, Len(slice.entries), length)
  <2> SUFFICES ASSUME NEW i \in 1 .. Len(slice.entries),
                      ~Has(slice.entries[i], "ref"),
                      \A j \in 1 .. Len(slice.entries) :
                         j > i => PartitionKey(slice.entries[j].key) # PartitionKey(slice.entries[i].key)
               PROVE  Made(Q, s.entries, slice.entries[i], length)
    BY DEF MadeUpTo
  <2>1. Made(P, s.entries, slice.entries[i], length)
    BY DEF SliceMade, MadeUpTo
  <2>2. QED
    BY <2>1, MadeKept
<1>2. QED
  BY <1>1 DEF SliceMade

\* Nor is what was made of a window.
LEMMA WindowMadeKept ==
    ASSUME NEW P, IsList(P), NEW Q, IsList(Q), Extended(P, Q), NEW win, NEW w,
           WindowMade(P, win, w)
    PROVE  WindowMade(Q, win, w)
BY SliceMadeKept DEF WindowMade

\* A list extends itself, by one element, and by what extends that.
LEMMA ExtendedFacts ==
    ASSUME NEW l, IsList(l)
    PROVE  /\ Extended(l, l)
           /\ \A x : Extended(l, Append(l, x))
<1>1. Len(l) \in Nat
  BY ListFacts
<1>2. \A x : Len(Append(l, x)) = Len(l) + 1 /\ \A i \in 1 .. Len(l) : Append(l, x)[i] = l[i]
  BY AppendList
<1>3. QED
  BY <1>1, <1>2 DEF Extended

\* A list that is extended twice is extended.
LEMMA ExtendedTransitive ==
    ASSUME NEW l, IsList(l), NEW m, IsList(m), NEW n, IsList(n), Extended(l, m), Extended(m, n)
    PROVE  Extended(l, n)
<1>1. Len(l) \in Nat /\ Len(m) \in Nat /\ Len(n) \in Nat
  BY ListFacts
<1>2. QED
  BY <1>1 DEF Extended

\* One entry: what was made stays, and what the entry defines is made.
LEMMA EntryMakes ==
    ASSUME NEW a, Good(a), NEW length \in Int, NEW entries, IsList(entries),
           NEW k \in 1 .. Len(entries),
           Has(entries[k], "ref") \/ PartitionTree(entries[k].def),
           NormalizeEntry(a, entries[k], length).end = "ok",
           MadeUpTo(a.partitions, a.entries, entries, k - 1, length)
    PROVE  LET b == NormalizeEntry(a, entries[k], length)
           IN  /\ Extended(a.partitions, b.partitions)
               /\ MadeUpTo(b.partitions, b.entries, entries, k, length)
<1> DEFINE e == entries[k]
           b == NormalizeEntry(a, e, length)
           total == TotalBudget(e.key, length)
           key == PartitionKey(e.key)
           name == IF Has(e, "ref") THEN e.ref ELSE NewPartition(a, e.def, total).name
<1>1. /\ Good(b)
      /\ Has(e, "ref") => b.partitions = a.partitions
      /\ ~Has(e, "ref") => /\ PartitionOk(e.def, total)
                           /\ b.partitions = Append(a.partitions, NewPartition(a, e.def, total))
      /\ b.entries = SetEntry(a.entries, key, name)
  <2>1. EntryStep(a, b, e, length)
    BY EntryFacts
  <2>2. QED
    BY <2>1 DEF EntryStep
<1>2. key \in {"sc_partition", "be_partition"}
  BY DEF PartitionKey
<1> HIDE DEF b
<1>3. /\ \A x : x # key => {f \in Range(b.entries) : f.key = x} = {f \in Range(a.entries) : f.key = x}
      /\ {f \in Range(b.entries) : f.key = key} = {[key |-> key, ref |-> name]}
  <2> HIDE DEF key, name
  <2>1. SetStep(a.entries, b.entries, key, name)
    BY <1>1, <1>2, SetEntryFacts DEF Good
  <2>2. QED
    BY <2>1 DEF SetStep
<1>4. IsList(a.partitions) /\ IsList(b.partitions) /\ Extended(a.partitions, b.partitions)
  BY <1>1, ExtendedFacts DEF Good
<1>5. ASSUME NEW i \in 1 .. k, ~Has(entries[i], "ref"),
             \A j \in 1 .. k : j > i => PartitionKey(entries[j].key) # PartitionKey(entries[i].key)
      PROVE  Made(b.partitions, b.entries, entries[i], length)
  <2>1. CASE i = k
    <3> DEFINE new == NewPartition(a, e.def, total)
               p == Len(a.partitions) + 1
    <3>1. /\ PartitionOk(e.def, total) /\ b.partitions = Append(a.partitions, new)
          /\ name = new.name
      BY <1>1, <1>5, <2>1
    <3>2. new.processes = NormalProcesses(e.def, total)
      BY DEF NewPartition
    <3> HIDE DEF new
    <3>3. /\ Len(a.partitions) \in Nat /\ Len(b.partitions) = p /\ b.partitions[p] = new
      BY <1>4, <3>1, AppendList, ListFacts
    <3>4. p \in 1 .. Len(b.partitions)
      BY <3>3
    <3> HIDE DEF p, total, key, name
    <3>5. {f \in Range(b.entries) : f.key = key} = {[key |-> key, ref |-> b.partitions[p].name]}
      BY <1>3, <3>1, <3>3
    <3>6. QED
      BY <2>1, <3>1, <3>2, <3>3, <3>4, <3>5 DEF Made, total, key
  <2>2. CASE i # k
    <3>1. i \in 1 .. (k - 1) /\ k \in 1 .. k /\ k > i
      BY <2>2, ListFacts
    <3>2. key # PartitionKey(entries[i].key)
      BY <1>5, <3>1
    <3>3. \A j \in 1 .. (k - 1) : j \in 1 .. k
      BY ListFacts
    <3>4. Made(a.partitions, a.entries, entries[i], length)
      BY <1>5, <3>1, <3>3 DEF MadeUpTo
    <3>5. {f \in Range(a.entries) : f.key = PartitionKey(entries[i].key)} =
          {f \in Range(b.entries) : f.key = PartitionKey(entries[i].key)}
      BY <1>3, <3>2
    <3>6. QED
      BY <1>4, <3>4, <3>5, MadeKept
  <2>3. QED
    BY <2>1, <2>2
<1>6. MadeUpTo(b.partitions, b.entries, entries, k, length)
  BY <1>5 DEF MadeUpTo
<1>7. QED
  BY <1>4, <1>6 DEF b

\* The loop of cpulist_parse does not end for the list of this slice.
Endless(slice) == Has(slice, "cpu") /\ slice.cpu # All /\ ParseEnd(slice.cpu) = "endless"

\* normalize_slice
SliceStep(a, b, slice, length) ==
    /\ Good(b) /\ b.windows = a.windows
    /\ b.end = "endless" => a.end = "endless" \/ Endless(slice)
    /\ b.end = "ok" =>
          /\ a.end = "ok" /\ Extended(a.partitions, b.partitions)
          /\ \E s : b.slices = Append(a.slices, s) /\ SliceMade(b.partitions, slice, s, length)

\* normalize_slice does what SliceStep says: by induction over the entries.
LEMMA SliceFacts ==
    ASSUME NEW a, Good(a), NEW slice, SliceTree(slice), NEW length \in Int
    PROVE  SliceStep(a, NormalizeSlice(a, slice, length), slice, length)
<1> DEFINE es == slice.entries
           n == Len(es)
           a0 == [a EXCEPT !.entries = <<>>]
           b == NormalizeSlice(a, slice, length)
<1>1. /\ IsList(es) /\ n \in Nat
      /\ \A k \in 1 .. n : Has(es[k], "ref") \/ PartitionTree(es[k].def)
  BY ListFacts DEF SliceTree
<1>2. GoodEntries(<<>>)
  BY EmptyList DEF GoodEntries
<1>3. /\ Good(a0) /\ a0.entries = <<>> /\ a0.end = a.end /\ a0.partitions = a.partitions
      /\ a0.windows = a.windows /\ a0.slices = a.slices
  BY <1>2, WithEntries
<1> HIDE DEF es, n, a0
<1> DEFINE r == EntriesDone(a0, es, length)
<1>4. PICK F : EntriesRun(F, a0, es, length)
  BY <1>1, EntriesFold
<1>14. /\ F[0] = a0
       /\ \A k \in 1 .. Len(es) : F[k] = NormalizeEntry(F[k - 1], es[k], length)
       /\ F[Len(es)] = r
  BY <1>4 DEF EntriesRun
<1> HIDE DEF r
<1> DEFINE Inv(k) == /\ Good(F[k]) /\ F[k].windows = a.windows /\ F[k].slices = a.slices
                     /\ F[k].end = "endless" => a.end = "endless"
                     /\ F[k].end = "ok" =>
                           /\ a.end = "ok" /\ Extended(a.partitions, F[k].partitions)
                           /\ MadeUpTo(F[k].partitions, F[k].entries, es, k, length)
           G == {k \in 0 .. n : Inv(k)}
<1>5. Inv(0)
  <2>1. Extended(a.partitions, a.partitions)
    BY ExtendedFacts DEF Good
  <2>2. MadeUpTo(F[0].partitions, F[0].entries, es, 0, length)
    BY DEF MadeUpTo
  <2>3. QED
    BY <1>3, <1>14, <2>1, <2>2
<1>6. ASSUME NEW k \in 1 .. n, Inv(k - 1) PROVE Inv(k)
  <2>1. F[k] = NormalizeEntry(F[k - 1], es[k], length) /\ Good(F[k - 1])
    BY <1>14, <1>6 DEF n
  <2>2. Has(es[k], "ref") \/ PartitionTree(es[k].def)
    BY <1>1
  <2>3. /\ Good(F[k]) /\ F[k].windows = F[k - 1].windows /\ F[k].slices = F[k - 1].slices
        /\ F[k].end = "endless" => F[k - 1].end = "endless"
        /\ F[k].end = "ok" => F[k - 1].end = "ok"
    <3>1. EntryStep(F[k - 1], F[k], es[k], length)
      BY <2>1, <2>2, EntryFacts
    <3>2. QED
      BY <3>1 DEF EntryStep
  <2>4. ASSUME F[k].end = "ok"
        PROVE  /\ Extended(F[k - 1].partitions, F[k].partitions)
               /\ MadeUpTo(F[k].partitions, F[k].entries, es, k, length)
    <3>1. MadeUpTo(F[k - 1].partitions, F[k - 1].entries, es, k - 1, length)
      BY <1>6, <2>3, <2>4
    <3>2. k \in 1 .. Len(es)
      BY DEF n
    <3>3. QED
      BY <1>1, <2>1, <2>2, <2>4, <3>1, <3>2, EntryMakes
  <2>5. IsList(a.partitions) /\ IsList(F[k - 1].partitions) /\ IsList(F[k].partitions)
    BY <2>1, <2>3 DEF Good
  <2>6. QED
    BY <1>6, <2>3, <2>4, <2>5, ExtendedTransitive
<1> HIDE DEF Inv
<1>7. Inv(n)
  <2>1. 0 \in G
    BY <1>1, <1>5
  <2>2. \A k \in 1 .. n : k - 1 \in G => k \in G
    BY <1>1, <1>6
  <2>3. n \in 0 .. n
    BY <1>1
  <2> HIDE DEF G
  <2>4. n \in G
    BY <1>1, <2>1, <2>2, <2>3, Upwards
  <2>5. QED
    BY <2>4 DEF G
<1>8. /\ Good(r) /\ r.windows = a.windows /\ r.slices = a.slices
      /\ r.end = "endless" => a.end = "endless"
      /\ r.end = "ok" => /\ a.end = "ok" /\ Extended(a.partitions, r.partitions)
                         /\ MadeUpTo(r.partitions, r.entries, es, n, length)
  BY <1>14, <1>7 DEF Inv, n
<1> DEFINE s == [slice EXCEPT !.entries = r.entries]
           keysOk == DOMAIN slice \subseteq {"cpu", "frequency", "entries"}
<1>9. b = IF ~keysOk THEN Ends(r, "throws")
          ELSE IF ~Has(slice, "cpu") THEN Ends(r, "throws")
          ELSE IF CpuSetEnd(slice.cpu) # "ok" THEN Ends(r, CpuSetEnd(slice.cpu))
          ELSE [r EXCEPT !.slices = Append(@, s)]
  BY DEF NormalizeSlice, EntriesDone, r, a0, es
<1>10. CASE ~keysOk \/ ~Has(slice, "cpu")
  <2>1. b = Ends(r, "throws")
    BY <1>9, <1>10
  <2> HIDE DEF b
  <2>2. QED
    BY <1>8, <2>1, EndsFacts DEF SliceStep, b
<1>11. CASE keysOk /\ Has(slice, "cpu") /\ CpuSetEnd(slice.cpu) # "ok"
  <2>1. b = Ends(r, CpuSetEnd(slice.cpu))
    BY <1>9, <1>11
  <2>2. CpuSetEnd(slice.cpu) = "endless" => Endless(slice)
    BY <1>11 DEF CpuSetEnd, Endless
  <2> HIDE DEF b
  <2>3. QED
    BY <1>8, <1>11, <2>1, <2>2, EndsFacts DEF SliceStep, b
<1>12. CASE keysOk /\ Has(slice, "cpu") /\ CpuSetEnd(slice.cpu) = "ok"
  <2>1. b = [r EXCEPT !.slices = Append(@, s)]
    BY <1>9, <1>12
  <2>2. /\ DOMAIN s = DOMAIN slice /\ s = [k \in DOMAIN s |-> s[k]]
        /\ s.entries = r.entries /\ s.cpu = slice.cpu
    <3>1. slice = [k \in DOMAIN slice |-> slice[k]] /\ "entries" \in DOMAIN slice
      BY DEF SliceTree, IsMapping, Has
    <3>2. "cpu" \in DOMAIN slice
      BY <1>12 DEF Has
    <3>3. QED
      BY <3>1, <3>2
  <2> HIDE DEF s
  <2>3. GoodSlice(s)
    BY <1>8, <1>12, <2>2 DEF GoodSlice, SliceTree, IsMapping, Has, Good
  <2> DEFINE l == Append(r.slices, s)
  <2>4. b = [r EXCEPT !.slices = l]
    BY <2>1
  <2>5. IsList(l) /\ \A x \in Range(l) : GoodSlice(x)
    BY <1>8, <2>3, AppendList DEF Good
  <2> HIDE DEF b, l
  <2>6. /\ Good(b) /\ b.slices = l /\ b.end = r.end /\ b.partitions = r.partitions
        /\ b.windows = r.windows
    BY <1>8, <2>4, <2>5, WithSlices
  <2>7. r.end = "ok" => SliceMade(b.partitions, slice, s, length)
    BY <1>8, <1>12, <2>2, <2>3, <2>6 DEF SliceMade, es, n
  <2>8. QED
    BY <1>8, <2>6, <2>7 DEF SliceStep, b, l
<1>13. QED
  BY <1>10, <1>11, <1>12

-------------------------------------------------------------------------------
(* Windows and the whole walk                                                  *)

\* Two lists, one after the other.
LEMMA ConcatList ==
    ASSUME NEW l, IsList(l), NEW m, IsList(m)
    PROVE  IsList(l \o m) /\ Range(l \o m) = Range(l) \cup Range(m)
<1> DEFINE S == Range(l) \cup Range(m)
           c == l \o m
<1>1. l \in Seq(Range(l)) /\ m \in Seq(Range(m)) /\ Range(l) \subseteq S /\ Range(m) \subseteq S
  BY DEF IsList
<1> HIDE DEF S
<1>2. l \in Seq(S) /\ m \in Seq(S)
  BY <1>1, SeqMonotonic
<1>3. /\ c \in Seq(S) /\ Len(c) = Len(l) + Len(m)
      /\ \A i \in 1 .. Len(l) + Len(m) : c[i] = IF i <= Len(l) THEN l[i] ELSE m[i - Len(l)]
  BY <1>2, ConcatProperties
<1>4. Len(c) \in Nat /\ c \in [1 .. Len(c) -> S]
  BY <1>3, LenProperties
<1>5. /\ Len(l) \in Nat /\ DOMAIN l = 1 .. Len(l)
      /\ Len(m) \in Nat /\ DOMAIN m = 1 .. Len(m)
  BY ListFacts
<1> HIDE DEF c
<1>6. c = [i \in 1 .. Len(c) |-> c[i]] /\ DOMAIN c = 1 .. Len(l) + Len(m)
  BY <1>3, <1>4
<1>7. IsList(c)
  BY <1>4, <1>6, MakesList
<1>8. \A i \in 1 .. Len(l) : l[i] \in Range(c)
  <2> SUFFICES ASSUME NEW i \in 1 .. Len(l) PROVE l[i] \in Range(c)
    OBVIOUS
  <2>1. i \in 1 .. Len(l) + Len(m) /\ i <= Len(l)
    BY <1>5
  <2>2. c[i] = l[i]
    BY <1>3, <2>1
  <2>3. QED
    BY <1>6, <2>1, <2>2 DEF Range
<1>9. \A i \in 1 .. Len(m) : m[i] \in Range(c)
  <2> SUFFICES ASSUME NEW i \in 1 .. Len(m) PROVE m[i] \in Range(c)
    OBVIOUS
  <2>1. Len(l) + i \in 1 .. Len(l) + Len(m) /\ ~(Len(l) + i <= Len(l)) /\ (Len(l) + i) - Len(l) = i
    BY <1>5
  <2>2. c[Len(l) + i] = m[i]
    BY <1>3, <2>1
  <2>3. QED
    BY <1>6, <2>1, <2>2 DEF Range
<1>10. S \subseteq Range(c)
  <2>1. \A x \in Range(l) : x \in Range(c)
    BY <1>5, <1>8 DEF Range
  <2>2. \A x \in Range(m) : x \in Range(c)
    BY <1>5, <1>9 DEF Range
  <2>3. QED
    BY <2>1, <2>2 DEF S
<1>11. Range(c) \subseteq S
  BY <1>4 DEF Range
<1>12. QED
  BY <1>7, <1>10, <1>11 DEF S, c

\* win[key] is one of the entries of the window.
LEMMA EntryOfFacts ==
    ASSUME NEW entries, IsList(entries), NEW key
    PROVE  IsList(EntryOf(entries, key)) /\ Range(EntryOf(entries, key)) \subseteq Range(entries)
<1> DEFINE at == {i \in DOMAIN entries : entries[i].key = key}
           e == entries[Min(at)]
<1>1. CASE at = {}
  BY <1>1, EmptyList DEF EntryOf
<1>2. CASE at # {}
  <2>1. DOMAIN entries = 1 .. Len(entries) /\ Len(entries) \in Nat
    BY ListFacts
  <2>2. at \in SUBSET Nat
    BY <2>1
  <2>3. PICK k \in at : \A j \in at : k =< j
    <3> HIDE DEF at
    <3> QED BY <1>2, <2>2, HasMin
  <2>4. Min(at) \in at
    <3> HIDE DEF at
    <3> QED BY <2>3 DEF Min
  <2>5. e \in Range(entries)
    BY <2>4 DEF Range
  <2>6. EntryOf(entries, key) = <<e>>
    BY <1>2 DEF EntryOf
  <2> HIDE DEF e
  <2>7. QED
    BY <2>5, <2>6, OneList
<1>3. QED
  BY <1>1, <1>2

\* The slices of a window are trees of slices.
LEMMA SlicesOfFacts ==
    ASSUME NEW win, WindowTree(win)
    PROVE  IsList(SlicesOf(win)) /\ \A s \in Range(SlicesOf(win)) : SliceTree(s)
<1>1. CASE Has(win, "slices")
  BY <1>1 DEF SlicesOf, WindowTree
<1>2. CASE ~Has(win, "slices") /\ ~Has(win, "cpu") /\ win.entries = <<>>
  BY <1>2, EmptyList DEF SlicesOf
<1>3. CASE ~Has(win, "slices") /\ ~(~Has(win, "cpu") /\ win.entries = <<>>)
  <2> DEFINE s == InlineSlice(win)
             A == EntryOf(win.entries, "sc_partition")
             B == EntryOf(win.entries, "be_partition")
             C == EntryOf(win.entries, "sc_processes")
             D == EntryOf(win.entries, "be_processes")
  <2>1. SlicesOf(win) = <<s>>
    BY <1>3 DEF SlicesOf
  <2>2. /\ IsList(win.entries)
        /\ \A e \in Range(win.entries) :
              IF Has(e, "ref") THEN ~Has(e, "def") ELSE PartitionTree(e.def)
    BY DEF WindowTree, SliceTree
  <2>3. /\ IsList(A) /\ IsList(B) /\ IsList(C) /\ IsList(D)
        /\ Range(A) \cup Range(B) \cup Range(C) \cup Range(D) \subseteq Range(win.entries)
    BY <2>2, EntryOfFacts
  <2> HIDE DEF A, B, C, D
  <2>4. IsList(A \o B) /\ Range(A \o B) \subseteq Range(win.entries)
    BY <2>3, ConcatList
  <2>5. IsList(A \o B \o C) /\ Range(A \o B \o C) \subseteq Range(win.entries)
    BY <2>3, <2>4, ConcatList
  <2>6. IsList(A \o B \o C \o D) /\ Range(A \o B \o C \o D) \subseteq Range(win.entries)
    BY <2>3, <2>5, ConcatList
  <2>7. s = [cpu |-> s.cpu, entries |-> A \o B \o C \o D]
    BY DEF InlineSlice, A, B, C, D
  <2>8. CpuTree(s.cpu)
    <3>1. s.cpu = IF Has(win, "cpu") THEN win.cpu ELSE All
      BY DEF InlineSlice
    <3>2. CpuTree(All)
      BY DEF CpuTree
    <3>3. Has(win, "cpu") => CpuTree(win.cpu)
      BY DEF WindowTree, SliceTree
    <3>4. QED
      BY <3>1, <3>2, <3>3
  <2> HIDE DEF s
  <2>9. SliceTree(s)
    <3>1. /\ s = [k \in DOMAIN s |-> s[k]] /\ "entries" \in DOMAIN s
          /\ s.entries = A \o B \o C \o D
      BY <2>7
    <3>2. QED
      BY <2>2, <2>6, <2>8, <3>1 DEF SliceTree, IsMapping, Has
  <2>10. QED
    BY <2>1, <2>9, OneList
<1>4. QED
  BY <1>1, <1>2, <1>3

\* normalize_window
WindowStep(a, b, win) ==
    /\ Good(b)
    /\ b.end = "endless" => a.end = "endless" \/ \E s \in Range(SlicesOf(win)) : Endless(s)
    /\ b.end = "ok" =>
          /\ a.end = "ok" /\ Extended(a.partitions, b.partitions)
          /\ \E w : b.windows = Append(a.windows, w) /\ WindowMade(b.partitions, win, w)

\* normalize_window does what WindowStep says: by induction over the slices.
LEMMA WindowFacts ==
    ASSUME NEW a, Good(a), NEW win, WindowTree(win)
    PROVE  WindowStep(a, NormalizeWindow(a, win), win)
<1> DEFINE ss == SlicesOf(win)
           n == Len(ss)
           a0 == [a EXCEPT !.slices = <<>>]
           b == NormalizeWindow(a, win)
           length == win.length
           r == SlicesDone(a0, ss, length)
<1>1. IsList(ss) /\ n \in Nat /\ \A k \in 1 .. n : ss[k] \in Range(ss) /\ SliceTree(ss[k])
  BY SlicesOfFacts, ListFacts
<1>2. length \in Int
  BY DEF WindowTree
<1>3. /\ Good(a0) /\ a0.slices = <<>> /\ a0.end = a.end /\ a0.partitions = a.partitions
      /\ a0.windows = a.windows
  BY EmptyList, WithSlices
<1> HIDE DEF ss, n, a0, length, r
<1>4. PICK F : SlicesRun(F, a0, ss, length)
  BY <1>1, SlicesFold
<1>5. /\ F[0] = a0
      /\ \A k \in 1 .. n : F[k] = NormalizeSlice(F[k - 1], ss[k], length)
      /\ F[n] = r
  BY <1>4 DEF SlicesRun, n, r
<1> DEFINE Inv(k) == /\ Good(F[k]) /\ F[k].windows = a.windows
                     /\ F[k].end = "endless" => a.end = "endless" \/ \E s \in Range(ss) : Endless(s)
                     /\ F[k].end = "ok" =>
                           /\ a.end = "ok" /\ Extended(a.partitions, F[k].partitions)
                           /\ Len(F[k].slices) = k
                           /\ \A i \in 1 .. k :
                                 SliceMade(F[k].partitions, ss[i], F[k].slices[i], length)
           G == {k \in 0 .. n : Inv(k)}
<1>6. Inv(0)
  <2>1. Extended(a.partitions, a.partitions)
    BY ExtendedFacts DEF Good
  <2>2. Len(<<>>) = 0
    BY EmptyList
  <2>3. QED
    BY <1>3, <1>5, <2>1, <2>2
<1>7. ASSUME NEW k \in 1 .. n, Inv(k - 1) PROVE Inv(k)
  <2>1. SliceStep(F[k - 1], F[k], ss[k], length)
    BY <1>1, <1>2, <1>5, <1>7, SliceFacts
  <2>2. /\ Good(F[k]) /\ F[k].windows = a.windows
        /\ F[k].end = "endless" => a.end = "endless" \/ \E s \in Range(ss) : Endless(s)
    BY <1>1, <1>7, <2>1 DEF SliceStep
  <2>3. IsList(a.partitions) /\ IsList(F[k - 1].partitions) /\ IsList(F[k].partitions)
        /\ IsList(F[k - 1].slices)
    BY <1>7, <2>2 DEF Good
  <2>4. ASSUME F[k].end = "ok"
        PROVE  /\ a.end = "ok" /\ Extended(a.partitions, F[k].partitions)
               /\ Len(F[k].slices) = k
               /\ \A i \in 1 .. k : SliceMade(F[k].partitions, ss[i], F[k].slices[i], length)
    <3>1. PICK s : /\ F[k].slices = Append(F[k - 1].slices, s)
                   /\ SliceMade(F[k].partitions, ss[k], s, length)
      BY <2>1, <2>4 DEF SliceStep
    <3>2. /\ F[k - 1].end = "ok" /\ Extended(F[k - 1].partitions, F[k].partitions)
      BY <2>1, <2>4 DEF SliceStep
    <3>3. /\ a.end = "ok" /\ Extended(a.partitions, F[k - 1].partitions)
          /\ Len(F[k - 1].slices) = k - 1
          /\ \A i \in 1 .. (k - 1) :
                SliceMade(F[k - 1].partitions, ss[i], F[k - 1].slices[i], length)
      BY <1>7, <3>2
    <3>4. Extended(a.partitions, F[k].partitions)
      BY <2>3, <3>2, <3>3, ExtendedTransitive
    <3>5. /\ Len(F[k].slices) = k
          /\ \A i \in 1 .. (k - 1) : F[k].slices[i] = F[k - 1].slices[i]
          /\ F[k].slices[k] = s
      <4>1. /\ Len(F[k].slices) = (k - 1) + 1
            /\ \A i \in 1 .. (k - 1) : F[k].slices[i] = F[k - 1].slices[i]
            /\ F[k].slices[(k - 1) + 1] = s
        BY <2>3, <3>1, <3>3, AppendList
      <4>2. (k - 1) + 1 = k
        BY <1>1
      <4>3. QED
        BY <4>1, <4>2
    <3>6. ASSUME NEW i \in 1 .. k PROVE SliceMade(F[k].partitions, ss[i], F[k].slices[i], length)
      <4>1. CASE i = k
        BY <3>1, <3>5, <4>1
      <4>2. CASE i \in 1 .. (k - 1)
        <5>1. SliceMade(F[k - 1].partitions, ss[i], F[k - 1].slices[i], length)
          BY <3>3, <4>2
        <5>2. SliceMade(F[k].partitions, ss[i], F[k - 1].slices[i], length)
          BY <2>3, <3>2, <5>1, SliceMadeKept
        <5>3. QED
          BY <3>5, <4>2, <5>2
      <4>3. QED
        BY <1>1, <4>1, <4>2
    <3>7. QED
      BY <3>3, <3>4, <3>5, <3>6
  <2>5. QED
    BY <2>2, <2>4
<1> HIDE DEF Inv
<1>8. Inv(n)
  <2>1. 0 \in G
    BY <1>1, <1>6
  <2>2. \A k \in 1 .. n : k - 1 \in G => k \in G
    BY <1>1, <1>7
  <2>3. n \in 0 .. n
    BY <1>1
  <2> HIDE DEF G
  <2>4. n \in G
    BY <1>1, <2>1, <2>2, <2>3, Upwards
  <2>5. QED
    BY <2>4 DEF G
<1>9. /\ Good(r) /\ r.windows = a.windows
      /\ r.end = "endless" => a.end = "endless" \/ \E s \in Range(ss) : Endless(s)
      /\ r.end = "ok" =>
            /\ a.end = "ok" /\ Extended(a.partitions, r.partitions)
            /\ Len(r.slices) = n
            /\ \A i \in 1 .. n : SliceMade(r.partitions, ss[i], r.slices[i], length)
  BY <1>5, <1>8 DEF Inv
<1> DEFINE w == IF Has(win, "slices") \/ ss # <<>>
                THEN [length |-> length, entries |-> <<>>, slices |-> r.slices]
                ELSE [length |-> length, entries |-> <<>>]
<1>10. b = IF ~WindowOk(win) THEN Ends(a, "throws") ELSE [r EXCEPT !.windows = Append(@, w)]
  BY DEF NormalizeWindow, SlicesDone, r, a0, ss, length
<1>11. CASE ~WindowOk(win)
  <2>1. b = Ends(a, "throws")
    BY <1>10, <1>11
  <2> HIDE DEF b
  <2>2. QED
    BY <2>1, EndsFacts DEF WindowStep, b
<1>12. CASE WindowOk(win)
  <2>1. b = [r EXCEPT !.windows = Append(@, w)]
    BY <1>10, <1>12
  <2>2. GoodWindow(w) /\ w.length = length
    BY <1>2, <1>9 DEF GoodWindow, Good
  <2>3. SlicesOf(w) = IF Has(win, "slices") \/ ss # <<>> THEN r.slices ELSE <<>>
    BY DEF SlicesOf, Has
  <2>4. ~(Has(win, "slices") \/ ss # <<>>) => n = 0
    BY EmptyList DEF n
  <2> HIDE DEF w, b
  <2>5. /\ Good(b) /\ b.windows = Append(r.windows, w) /\ b.end = r.end
        /\ b.partitions = r.partitions
    BY <1>9, <2>1, <2>2, WithWindow
  <2>6. r.end = "ok" => WindowMade(b.partitions, win, w)
    <3>1. ASSUME r.end = "ok"
          PROVE  /\ Len(SlicesOf(w)) = n
                 /\ \A i \in 1 .. n : SliceMade(r.partitions, ss[i], SlicesOf(w)[i], length)
      <4>1. CASE Has(win, "slices") \/ ss # <<>>
        BY <1>9, <2>3, <3>1, <4>1
      <4>2. CASE ~(Has(win, "slices") \/ ss # <<>>)
        BY <1>9, <2>3, <2>4, <3>1, <4>2, EmptyList
      <4>3. QED
        BY <4>1, <4>2
    <3>2. QED
      BY <2>2, <2>5, <3>1 DEF WindowMade, ss, n, length
  <2>7. QED
    BY <1>9, <2>5, <2>6 DEF WindowStep, b, ss
<1>13. QED
  BY <1>11, <1>12

\* The walk over the list of partitions.
LEMMA PartitionsWalked ==
    ASSUME NEW l, IsList(l), \A p \in Range(l) : PartitionTree(p)
    PROVE  LET r == PartitionsDone(Start, l)
           IN  Good(r) /\ r.windows = <<>> /\ r.end # "endless"
<1> DEFINE n == Len(l)
           r == PartitionsDone(Start, l)
<1>1. n \in Nat /\ \A k \in 1 .. n : PartitionTree(l[k])
  BY ListFacts
<1>2. PICK F : PartitionsRun(F, Start, l)
  BY PartitionsFold
<1>3. /\ F[0] = Start /\ F[n] = r
      /\ \A k \in 1 .. n : F[k] = AddPartition(F[k - 1], l[k], <<>>)
  BY <1>2 DEF PartitionsRun
<1> HIDE DEF n, r
<1> DEFINE Inv(k) == Good(F[k]) /\ F[k].windows = <<>> /\ F[k].end # "endless"
           G == {k \in 0 .. n : Inv(k)}
<1>4. Inv(0)
  <2>1. GoodEntries(<<>>) /\ Names(<<>>, 0)
    BY EmptyList DEF GoodEntries, Names
  <2>2. Good(Start)
    BY <2>1, EmptyList DEF Good, Start
  <2>3. QED
    BY <1>3, <2>2 DEF Start
<1>5. ASSUME NEW k \in 1 .. n, Inv(k - 1) PROVE Inv(k)
  <2>1. IsTotal(<<>>)
    BY DEF IsTotal
  <2>2. F[k] = AddPartition(F[k - 1], l[k], <<>>) /\ PartitionTree(l[k]) /\ Good(F[k - 1])
    BY <1>1, <1>3, <1>5
  <2>3. /\ Good(F[k]) /\ F[k].windows = F[k - 1].windows
        /\ F[k].end = "endless" => F[k - 1].end = "endless"
    BY <2>1, <2>2, AddPartitionFacts
  <2>4. QED
    BY <1>5, <2>3
<1> HIDE DEF Inv
<1>6. Inv(n)
  <2>1. 0 \in G
    BY <1>1, <1>4
  <2>2. \A k \in 1 .. n : k - 1 \in G => k \in G
    BY <1>1, <1>5
  <2>3. n \in 0 .. n
    BY <1>1
  <2> HIDE DEF G
  <2>4. n \in G
    BY <1>1, <2>1, <2>2, <2>3, Upwards
  <2>5. QED
    BY <2>4 DEF G
<1>7. QED
  BY <1>3, <1>6 DEF Inv, r

\* The walk over the whole tree.
WalkResult(c, r) ==
    /\ Good(r)
    /\ r.end = "endless" =>
          \E i \in 1 .. Len(c.windows) : \E s \in Range(SlicesOf(c.windows[i])) : Endless(s)
    /\ r.end = "ok" =>
          /\ Len(r.windows) = Len(c.windows)
          /\ \A i \in 1 .. Len(c.windows) : WindowMade(r.partitions, c.windows[i], r.windows[i])

\* normalize() walks the tree as WalkResult says: by induction over the windows.
LEMMA WalkFacts ==
    ASSUME NEW c, Tree(c)
    PROVE  WalkResult(c, Walk(c))
<1> DEFINE ws == c.windows
           n == Len(ws)
           a == PartitionsDone(Start, c.partitions)
           r == WindowsDone(a, ws)
<1>1. /\ IsList(ws) /\ n \in Nat
      /\ \A k \in 1 .. n : WindowTree(ws[k])
  BY ListFacts DEF Tree
<1>2. Good(a) /\ a.windows = <<>> /\ a.end # "endless"
  BY PartitionsWalked DEF Tree
<1>3. Walk(c) = r
  BY DEF Walk, WindowsDone, PartitionsDone
<1> HIDE DEF a, r, n, ws
<1>4. PICK F : WindowsRun(F, a, ws)
  BY <1>1, WindowsFold
<1>5. /\ F[0] = a /\ F[n] = r
      /\ \A k \in 1 .. n : F[k] = NormalizeWindow(F[k - 1], ws[k])
  BY <1>4 DEF WindowsRun, n, r
<1> DEFINE Inv(k) ==
             /\ Good(F[k])
             /\ F[k].end = "endless" =>
                   \E i \in 1 .. n : \E s \in Range(SlicesOf(ws[i])) : Endless(s)
             /\ F[k].end = "ok" =>
                   /\ Len(F[k].windows) = k
                   /\ \A i \in 1 .. k : WindowMade(F[k].partitions, ws[i], F[k].windows[i])
           G == {k \in 0 .. n : Inv(k)}
<1>6. Inv(0)
  BY <1>2, <1>5, EmptyList
<1>7. ASSUME NEW k \in 1 .. n, Inv(k - 1) PROVE Inv(k)
  <2>1. WindowStep(F[k - 1], F[k], ws[k])
    BY <1>1, <1>5, <1>7, WindowFacts
  <2>2. /\ Good(F[k])
        /\ F[k].end = "endless" => \E i \in 1 .. n : \E s \in Range(SlicesOf(ws[i])) : Endless(s)
    BY <1>7, <2>1 DEF WindowStep
  <2>3. /\ IsList(F[k - 1].partitions) /\ IsList(F[k].partitions)
        /\ IsList(F[k - 1].windows)
    BY <1>7, <2>2 DEF Good
  <2>4. ASSUME F[k].end = "ok"
        PROVE  /\ Len(F[k].windows) = k
               /\ \A i \in 1 .. k : WindowMade(F[k].partitions, ws[i], F[k].windows[i])
    <3>1. PICK w : /\ F[k].windows = Append(F[k - 1].windows, w)
                   /\ WindowMade(F[k].partitions, ws[k], w)
      BY <2>1, <2>4 DEF WindowStep
    <3>2. /\ F[k - 1].end = "ok" /\ Extended(F[k - 1].partitions, F[k].partitions)
      BY <2>1, <2>4 DEF WindowStep
    <3>3. /\ Len(F[k - 1].windows) = k - 1
          /\ \A i \in 1 .. (k - 1) : WindowMade(F[k - 1].partitions, ws[i], F[k - 1].windows[i])
      BY <1>7, <3>2
    <3>4. /\ Len(F[k].windows) = k
          /\ \A i \in 1 .. (k - 1) : F[k].windows[i] = F[k - 1].windows[i]
          /\ F[k].windows[k] = w
      <4>1. /\ Len(F[k].windows) = (k - 1) + 1
            /\ \A i \in 1 .. (k - 1) : F[k].windows[i] = F[k - 1].windows[i]
            /\ F[k].windows[(k - 1) + 1] = w
        BY <2>3, <3>1, <3>3, AppendList
      <4>2. (k - 1) + 1 = k
        BY <1>1
      <4>3. QED
        BY <4>1, <4>2
    <3>5. ASSUME NEW i \in 1 .. k PROVE WindowMade(F[k].partitions, ws[i], F[k].windows[i])
      <4>1. CASE i = k
        BY <3>1, <3>4, <4>1
      <4>2. CASE i \in 1 .. (k - 1)
        <5>1. WindowMade(F[k - 1].partitions, ws[i], F[k - 1].windows[i])
          BY <3>3, <4>2
        <5>2. WindowMade(F[k].partitions, ws[i], F[k - 1].windows[i])
          BY <2>3, <3>2, <5>1, WindowMadeKept
        <5>3. QED
          BY <3>4, <4>2, <5>2
      <4>3. QED
        BY <1>1, <4>1, <4>2
    <3>6. QED
      BY <3>4, <3>5
  <2>5. QED
    BY <2>2, <2>4
<1> HIDE DEF Inv
<1>8. Inv(n)
  <2>1. 0 \in G
    BY <1>1, <1>6
  <2>2. \A k \in 1 .. n : k - 1 \in G => k \in G
    BY <1>1, <1>7
  <2>3. n \in 0 .. n
    BY <1>1
  <2> HIDE DEF G
  <2>4. n \in G
    BY <1>1, <2>1, <2>2, <2>3, Upwards
  <2>5. QED
    BY <2>4 DEF G
<1>9. QED
  BY <1>3, <1>5, <1>8 DEF Inv, WalkResult, n, ws

-------------------------------------------------------------------------------
(* The specification                                                           *)

\* Where the configuration and the objects come from.
ConfigInv ==
    /\ loaded \in Loaded
    /\ status \in {"loaded", "normalized", "created", "rejected", "stuck"}
    /\ status = "loaded" => config = loaded
    /\ status = "stuck" => NormalizeEnd(loaded) = "endless"
    /\ status \in {"normalized", "created"} =>
          NormalizeEnd(loaded) = "ok" /\ config = NormalForm(loaded)
    /\ status = "created" =>
          \E allowed \in (SUBSET Cpu) \ {{}} :
              objects = [allowed |-> allowed,
                         demos_cpu |-> ParseCpuSet(config.demos_cpu, allowed),
                         partitions |-> config.partitions,
                         windows |-> [w \in DOMAIN config.windows |->
                             CreatedWindow(config.windows[w], config.partitions, allowed)]]

\* It holds in every state.
LEMMA ConfigInvariance == Spec => []ConfigInv
<1>1. Init => ConfigInv
  BY DEF Init, ConfigInv
<1>2. ASSUME ConfigInv, [Next]_vars PROVE ConfigInv'
  <2>1. CASE Normalize
    BY <1>2, <2>1 DEF ConfigInv, Normalize
  <2>2. CASE CreateSchedulerObjects
    <3>1. PICK allowed \in (SUBSET Cpu) \ {{}} :
            \/ /\ objects' = [allowed |-> allowed,
                              demos_cpu |-> ParseCpuSet(config.demos_cpu, allowed),
                              partitions |-> config.partitions,
                              windows |-> [w \in DOMAIN config.windows |->
                                  CreatedWindow(config.windows[w], config.partitions, allowed)]]
               /\ status' = "created"
            \/ status' = "rejected"
      BY <2>2 DEF CreateSchedulerObjects
    <3>2. status = "normalized" /\ loaded' = loaded /\ config' = config
      BY <2>2 DEF CreateSchedulerObjects
    <3>3. QED
      BY <1>2, <3>1, <3>2 DEF ConfigInv
  <2>3. CASE Over \/ UNCHANGED vars
    BY <1>2, <2>3 DEF ConfigInv, Over, vars
  <2>4. QED
    BY <1>2, <2>1, <2>2, <2>3 DEF Next
<1>3. QED
  BY <1>1, <1>2, PTL DEF Spec

\* What the walk of the loaded tree gave is the configuration.
LEMMA ConfigFacts ==
    ASSUME ConfigInv, status \in {"normalized", "created"}
    PROVE  LET r == Walk(loaded)
           IN  /\ WalkResult(loaded, r) /\ r.end = "ok" /\ Tree(loaded)
               /\ config = NormalForm(loaded)
               /\ config.partitions = r.partitions /\ config.windows = r.windows
               /\ Valid(config)
               /\ NormalizeEnd(loaded) = "ok"
<1>1. NormalizeEnd(loaded) = "ok" /\ config = NormalForm(loaded) /\ loaded \in Loaded
  BY DEF ConfigInv
<1>2. Tree(loaded)
  BY <1>1, ConfigAssumption
<1>3. WalkResult(loaded, Walk(loaded))
  BY <1>2, WalkFacts
<1>4. Walk(loaded).end = "ok" /\ Valid(NormalForm(loaded))
  BY <1>1 DEF NormalizeEnd
<1>5. QED
  BY <1>1, <1>2, <1>3, <1>4 DEF NormalForm

-------------------------------------------------------------------------------
(* What the scheduler gets                                                     *)

\* The lowest CPU of a set of CPUs is one of them.
LEMMA LowestCpu == ASSUME NEW S \in SUBSET Cpu, S # {} PROVE Min(S) \in S
<1>1. Cpu \subseteq Nat
  BY ConfigAssumption, CpuListAssumption
<1>2. S \in SUBSET Nat
  BY <1>1
<1>3. PICK k \in S : \A j \in S : k =< j
  BY <1>2, HasMin
<1>4. QED
  BY <1>3 DEF Min

\* A slice gets some of the allowed CPUs: those of its list if there are any.
LEMMA SliceCpusFacts ==
    ASSUME NEW allowed \in (SUBSET Cpu) \ {{}}, NEW list
    PROVE  /\ SliceCpus(list, allowed) # {}
           /\ SliceCpus(list, allowed) \subseteq allowed
           /\ ParseCpuSet(list, allowed) \cap allowed # {} =>
                 SliceCpus(list, allowed) = ParseCpuSet(list, allowed) \cap allowed
BY LowestCpu DEF SliceCpus

\* The slices of a normalized window.
LEMMA GoodSlices ==
    ASSUME NEW w, GoodWindow(w)
    PROVE  IsList(SlicesOf(w)) /\ \A s \in Range(SlicesOf(w)) : GoodSlice(s)
<1>1. CASE w = [length |-> w.length, entries |-> <<>>]
  <2>1. ~Has(w, "slices") /\ ~Has(w, "cpu") /\ w.entries = <<>>
    BY <1>1 DEF Has
  <2>2. SlicesOf(w) = <<>>
    BY <2>1 DEF SlicesOf
  <2>3. QED
    BY <2>2, EmptyList
<1>2. CASE w = [length |-> w.length, entries |-> <<>>, slices |-> w.slices]
           /\ IsList(w.slices) /\ \A s \in Range(w.slices) : GoodSlice(s)
  <2>1. Has(w, "slices")
    BY <1>2 DEF Has
  <2>2. SlicesOf(w) = w.slices
    BY <2>1 DEF SlicesOf
  <2>3. QED
    BY <1>2, <2>2
<1>3. QED
  BY <1>1, <1>2 DEF GoodWindow

\* The objects, by position: window w, slice s of it.
Objects(allowed) ==
    /\ allowed \in (SUBSET Cpu) \ {{}} /\ objects.allowed = allowed
    /\ objects.partitions = config.partitions
    /\ DOMAIN objects.windows = 1 .. Len(config.windows)
    /\ \A w \in 1 .. Len(config.windows) :
          LET asked == SlicesOf(config.windows[w])
              made == objects.windows[w].slices
          IN  /\ IsList(asked) /\ DOMAIN made = 1 .. Len(asked)
              /\ \A s \in 1 .. Len(asked) :
                    /\ GoodSlice(asked[s])
                    /\ made[s].sc = FindPartition(asked[s], "sc_partition", config.partitions)
                    /\ made[s].be = FindPartition(asked[s], "be_partition", config.partitions)
                    /\ made[s].cpus = SliceCpus(asked[s].cpu, allowed)

\* create_scheduler_objects makes these objects.
LEMMA CreatedFacts ==
    ASSUME ConfigInv, status = "created"
    PROVE  \E allowed : Objects(allowed)
<1>1. PICK allowed \in (SUBSET Cpu) \ {{}} :
        objects = [allowed |-> allowed,
                   demos_cpu |-> ParseCpuSet(config.demos_cpu, allowed),
                   partitions |-> config.partitions,
                   windows |-> [w \in DOMAIN config.windows |->
                       CreatedWindow(config.windows[w], config.partitions, allowed)]]
  BY DEF ConfigInv
<1>2. /\ objects.allowed = allowed /\ objects.partitions = config.partitions
      /\ objects.windows = [w \in DOMAIN config.windows |->
                       CreatedWindow(config.windows[w], config.partitions, allowed)]
  BY <1>1
<1>3. IsList(config.windows) /\ \A w \in Range(config.windows) : GoodWindow(w)
  BY ConfigFacts DEF WalkResult, Good
<1>4. /\ DOMAIN config.windows = 1 .. Len(config.windows)
      /\ \A w \in 1 .. Len(config.windows) : GoodWindow(config.windows[w])
  BY <1>3, ListFacts
<1>5. ASSUME NEW w \in 1 .. Len(config.windows)
      PROVE  LET asked == SlicesOf(config.windows[w])
                 made == objects.windows[w].slices
             IN  /\ IsList(asked) /\ DOMAIN made = 1 .. Len(asked)
                 /\ \A s \in 1 .. Len(asked) :
                       /\ GoodSlice(asked[s])
                       /\ made[s].sc = FindPartition(asked[s], "sc_partition", config.partitions)
                       /\ made[s].be = FindPartition(asked[s], "be_partition", config.partitions)
                       /\ made[s].cpus = SliceCpus(asked[s].cpu, allowed)
  <2> DEFINE asked == SlicesOf(config.windows[w])
             made == objects.windows[w].slices
  <2>1. IsList(asked) /\ \A s \in Range(asked) : GoodSlice(s)
    BY <1>4, GoodSlices
  <2>2. objects.windows[w] = CreatedWindow(config.windows[w], config.partitions, allowed)
    BY <1>2, <1>4
  <2>3. made = [s \in DOMAIN asked |-> CreatedSlice(asked[s], config.partitions, allowed)]
    BY <2>2 DEF CreatedWindow
  <2>4. DOMAIN asked = 1 .. Len(asked) /\ \A s \in 1 .. Len(asked) : GoodSlice(asked[s])
    BY <2>1, ListFacts
  <2> HIDE DEF asked, made
  <2>5. \A s \in 1 .. Len(asked) : made[s] = CreatedSlice(asked[s], config.partitions, allowed)
    BY <2>3, <2>4
  <2>6. \A s \in 1 .. Len(asked) :
           /\ made[s].sc = FindPartition(asked[s], "sc_partition", config.partitions)
           /\ made[s].be = FindPartition(asked[s], "be_partition", config.partitions)
           /\ made[s].cpus = SliceCpus(asked[s].cpu, allowed)
    <3>1. \A x, parts :
            /\ CreatedSlice(x, parts, allowed).sc = FindPartition(x, "sc_partition", parts)
            /\ CreatedSlice(x, parts, allowed).be = FindPartition(x, "be_partition", parts)
            /\ CreatedSlice(x, parts, allowed).cpus = SliceCpus(x.cpu, allowed)
      BY DEF CreatedSlice
    <3>2. QED
      BY <2>5, <3>1
  <2>7. DOMAIN made = 1 .. Len(asked)
    BY <2>3, <2>4
  <2>8. QED
    BY <2>1, <2>4, <2>6, <2>7 DEF asked, made
<1>6. Objects(allowed)
  BY <1>1, <1>2, <1>4, <1>5 DEF Objects
<1>7. QED
  BY <1>6

\* The scheduler gets what it relies on: no empty partition, positive budgets,
\* jitter that no budget is too small for, and CPUs for every slice.
THEOREM SchedulerInputHolds == Spec => []SchedulerInput
<1>1. ASSUME ConfigInv PROVE SchedulerInput
  <2> SUFFICES ASSUME status = "created"
               PROVE  /\ \A p \in Range(objects.partitions) :
                            /\ p.processes # <<>>
                            /\ \A r \in Range(p.processes) :
                                  r.budget > 0 /\ r.jitter \in 0 .. 2 * r.budget
                      /\ \A w \in Range(objects.windows) : \A s \in Range(w.slices) :
                            s.cpus # {} /\ s.cpus \subseteq objects.allowed
    BY DEF SchedulerInput
  <2>1. PICK allowed : Objects(allowed)
    BY <1>1, CreatedFacts
  <2>2. \A p \in Range(objects.partitions) : GoodPartition(p)
    <3>1. objects.partitions = config.partitions
      BY <2>1 DEF Objects
    <3>2. \A p \in Range(config.partitions) : GoodPartition(p)
      BY <1>1, ConfigFacts DEF WalkResult, Good
    <3>3. QED
      BY <3>1, <3>2
  <2>3. \A p \in Range(objects.partitions) :
          /\ p.processes # <<>>
          /\ \A r \in Range(p.processes) : r.budget > 0 /\ r.jitter \in 0 .. 2 * r.budget
    BY <2>2 DEF GoodPartition, GoodProcess
  <2>4. ASSUME NEW w \in 1 .. Len(config.windows), NEW s \in DOMAIN objects.windows[w].slices
        PROVE  /\ objects.windows[w].slices[s].cpus # {}
               /\ objects.windows[w].slices[s].cpus \subseteq objects.allowed
    <3> DEFINE list == SlicesOf(config.windows[w])[s].cpu
    <3>1. /\ allowed \in (SUBSET Cpu) \ {{}} /\ objects.allowed = allowed
          /\ objects.windows[w].slices[s].cpus = SliceCpus(list, allowed)
      BY <2>1, <2>4 DEF Objects
    <3> HIDE DEF list
    <3>2. SliceCpus(list, allowed) # {} /\ SliceCpus(list, allowed) \subseteq allowed
      BY <3>1, SliceCpusFacts
    <3>3. QED
      BY <3>1, <3>2
  <2>5. DOMAIN objects.windows = 1 .. Len(config.windows)
    BY <2>1 DEF Objects
  <2>6. \A w \in Range(objects.windows) : \A s \in Range(w.slices) :
          s.cpus # {} /\ s.cpus \subseteq objects.allowed
    BY <2>4, <2>5 DEF Range
  <2>7. QED
    BY <2>3, <2>6
<1>2. QED
  BY <1>1, ConfigInvariance, PTL

\* Slices of one window share a CPU only if one of them was moved to the lowest
\* allowed CPU: validate_config compares every pair of cpulists.
THEOREM SlicesDisjointHolds == Spec => []SlicesDisjoint
<1>1. ASSUME ConfigInv PROVE SlicesDisjoint
  <2> SUFFICES ASSUME status = "created",
                      NEW w \in DOMAIN objects.windows,
                      NEW i \in DOMAIN objects.windows[w].slices,
                      NEW j \in DOMAIN objects.windows[w].slices,
                      i # j,
                      objects.windows[w].slices[i].cpus \cap objects.windows[w].slices[j].cpus # {},
                      \A k \in {i, j} :
                         ParseCpuSet(SlicesOf(config.windows[w])[k].cpu, {}) \cap objects.allowed # {}
               PROVE  FALSE
    BY DEF SlicesDisjoint
  <2> DEFINE asked == SlicesOf(config.windows[w])
             Set(k) == ParseCpuSet(asked[k].cpu, {})
  <2>1. PICK allowed : Objects(allowed)
    BY <1>1, CreatedFacts
  <2>2. /\ allowed \in (SUBSET Cpu) \ {{}} /\ objects.allowed = allowed
        /\ w \in 1 .. Len(config.windows)
        /\ IsList(asked)
        /\ i \in 1 .. Len(asked) /\ j \in 1 .. Len(asked)
        /\ objects.windows[w].slices[i].cpus = SliceCpus(asked[i].cpu, allowed)
        /\ objects.windows[w].slices[j].cpus = SliceCpus(asked[j].cpu, allowed)
    BY <2>1 DEF Objects
  <2>3. Valid(config) /\ w \in DOMAIN config.windows
    <3>1. Valid(config) /\ IsList(config.windows)
      BY <1>1, ConfigFacts DEF WalkResult, Good
    <3>2. QED
      BY <2>2, <3>1, ListFacts
  <2>4. ~Overlap(asked)
    BY <2>3 DEF Valid
  <2>5. ASSUME NEW k \in {i, j} PROVE SliceCpus(asked[k].cpu, allowed) = Set(k) \cap allowed
    <3>1. asked[k].cpu # All
      <4> SUFFICES ASSUME asked[k].cpu = All PROVE FALSE
        OBVIOUS
      <4>1. Set(k) = {}
        BY DEF ParseCpuSet
      <4>2. QED
        BY <2>5, <4>1
    <3>2. ParseCpuSet(asked[k].cpu, allowed) = Set(k)
      BY <3>1 DEF ParseCpuSet
    <3>3. Set(k) \cap allowed # {}
      BY <2>2, <2>5
    <3>4. QED
      BY <2>2, <3>2, <3>3, SliceCpusFacts
  <2>6. Set(i) \cap Set(j) # {}
    <3>1. (Set(i) \cap allowed) \cap (Set(j) \cap allowed) # {}
      BY <2>2, <2>5
    <3> HIDE DEF Set
    <3>2. QED
      BY <3>1
  <2>7. i < j \/ j < i
    BY <2>2, ListFacts
  <2>8. DOMAIN asked = 1 .. Len(asked)
    BY <2>2, ListFacts
  <2>9. QED
    BY <2>2, <2>4, <2>6, <2>7, <2>8 DEF Overlap
<1>2. QED
  BY <1>1, ConfigInvariance, PTL

-------------------------------------------------------------------------------
(* cpulists                                                                    *)

\* The loop a += s of cpulist_parse, for numbers that stay below the limit W of
\* their type: it stops after m rounds, and up to then a is f + k * s.
LoopRuns(f, t, s, W, m) ==
    /\ m \in 1 .. W
    /\ (f + m * s) % W > t
    /\ \A k \in 0 .. (m - 1) : (f + k * s) % W = f + k * s /\ f + k * s =< t
    /\ \A q \in Nat : f + q * s =< t => q =< m - 1

\* The loop stops if no number comes within one stride of the limit.
LEMMA LoopStops ==
    ASSUME NEW f \in Nat, NEW t \in Nat, NEW s \in Nat \ {0}, NEW W \in Nat \ {0},
           f =< t, t + s < W
    PROVE  \E m : LoopRuns(f, t, s, W, m)
<1> DEFINE K == {k \in Nat : f + k * s > t}
<1>1. \A k \in Nat : k * s \in Nat
  OBVIOUS
<1>2. t + 1 \in K
  <2>1. (t + 1) * s >= t + 1
    OBVIOUS
  <2>2. QED
    BY <1>1, <2>1
<1>3. PICK m \in K : \A j \in K : m =< j
  <2>1. K \in SUBSET Nat /\ K # {}
    BY <1>2
  <2> HIDE DEF K
  <2>2. QED
    BY <2>1, HasMin
<1>4. m \in Nat /\ f + m * s > t /\ m =< t + 1
  BY <1>2, <1>3
<1>5. m # 0
  BY <1>4
<1>6. m \in 1 .. W
  BY <1>4, <1>5
<1>7. \A k \in 0 .. (m - 1) : k \in Nat /\ f + k * s =< t
  <2> SUFFICES ASSUME NEW k \in 0 .. (m - 1) PROVE k \in Nat /\ f + k * s =< t
    OBVIOUS
  <2>1. k \in Nat /\ ~(m =< k)
    BY <1>4
  <2>2. k \notin K
    BY <1>3, <2>1
  <2>3. QED
    BY <1>1, <2>1, <2>2
<1>8. \A k \in 0 .. (m - 1) : (f + k * s) % W = f + k * s
  <2> SUFFICES ASSUME NEW k \in 0 .. (m - 1) PROVE (f + k * s) % W = f + k * s
    OBVIOUS
  <2>1. PICK x \in Int : x = f + k * s
    OBVIOUS
  <2>2. 0 =< x /\ x < W
    BY <1>1, <1>7, <2>1
  <2>3. x % W = x
    BY <2>2, ModSmall
  <2>4. QED
    BY <2>1, <2>3
<1>9. (f + m * s) % W > t
  <2>1. m - 1 \in 0 .. (m - 1)
    BY <1>4, <1>5
  <2>2. f + (m - 1) * s =< t
    BY <1>7, <2>1
  <2>3. (m - 1) * s = m * s - s
    BY <1>4
  <2>4. PICK x \in Int : x = f + m * s
    BY <1>4
  <2>5. 0 =< x /\ x < W /\ x > t
    BY <1>1, <1>4, <2>2, <2>3, <2>4
  <2>6. x % W = x
    BY <2>5, ModSmall
  <2>7. QED
    BY <2>4, <2>5, <2>6
<1>10. \A q \in Nat : f + q * s =< t => q =< m - 1
  <2> SUFFICES ASSUME NEW q \in Nat, f + q * s =< t, q >= m PROVE FALSE
    BY <1>4
  <2>1. q * s >= m * s
    BY <1>4
  <2>2. QED
    BY <1>1, <1>4, <2>1
<1>11. QED
  BY <1>6, <1>7, <1>8, <1>9, <1>10 DEF LoopRuns

\* What the numbers of an entry are, unless one of them comes near the limit.
RawTo(e) == IF Has(e, "to") THEN e.to ELSE e.from
RawStride(e) == IF Has(e, "stride") THEN e.stride ELSE 1

NearLimit(e) ==
    \E k \in {"from", "to"} \cap DOMAIN e : e[k] + RawStride(e) >= Word

\* Unless a number is near the limit, nextnumber reads what is written.
LEMMA EntryNumbers ==
    ASSUME NEW e, Has(e, "from"), \A k \in DOMAIN e \ {"junk"} : e[k] \in Nat \cup {Missing},
           EntryOk(e), ~NearLimit(e)
    PROVE  /\ e.from \in Nat /\ RawTo(e) \in Nat /\ RawStride(e) \in Nat \ {0}
           /\ e.from =< RawTo(e) /\ RawTo(e) + RawStride(e) < Word
           /\ From(e) = e.from /\ To(e) = RawTo(e) /\ Stride(e) = RawStride(e)
<1>1. \A k \in DOMAIN e \ {"junk"} : e[k] \in Nat
  BY DEF EntryOk
<1>2. e.from \in Nat /\ (Has(e, "to") => e.to \in Nat) /\ (Has(e, "stride") => e.stride \in Nat)
  BY <1>1 DEF Has
<1>3. RawTo(e) \in Nat /\ RawStride(e) \in Nat
  BY <1>2 DEF RawTo, RawStride
<1>4. e.from + RawStride(e) < Word /\ RawTo(e) + RawStride(e) < Word
  BY <1>2, <1>3, CpuListAssumption DEF NearLimit, RawTo, Has
<1>5. \A x \in Nat : x < Word => x % Word = x
  BY CpuListAssumption, ModSmall
<1>6. e.from < Word /\ RawTo(e) < Word /\ RawStride(e) < Word
  BY <1>2, <1>3, <1>4, CpuListAssumption
<1>7. From(e) = e.from
  BY <1>2, <1>5, <1>6 DEF From, NextNumber
<1>8. To(e) = RawTo(e)
  BY <1>3, <1>5, <1>6, <1>7 DEF To, RawTo, NextNumber, Has
<1>9. Stride(e) = RawStride(e)
  BY <1>3, <1>5, <1>6 DEF Stride, RawStride, NextNumber, Has
<1>10. QED
  BY <1>2, <1>3, <1>4, <1>7, <1>8, <1>9 DEF EntryOk

\* The loop over such an entry stops, after the rounds that it should take.
LEMMA EntryLoop ==
    ASSUME NEW e, Has(e, "from"), \A k \in DOMAIN e \ {"junk"} : e[k] \in Nat \cup {Missing},
           EntryOk(e), ~NearLimit(e)
    PROVE  \E m : /\ LoopRuns(e.from, RawTo(e), RawStride(e), Word, m)
                  /\ m \in Stops(e) /\ Min(Stops(e)) = m
<1> DEFINE f == e.from
           t == RawTo(e)
           s == RawStride(e)
<1>1. /\ f \in Nat /\ t \in Nat /\ s \in Nat \ {0} /\ f =< t /\ t + s < Word
      /\ From(e) = f /\ To(e) = t /\ Stride(e) = s /\ Word \in Nat \ {0}
  BY EntryNumbers, CpuListAssumption
<1> HIDE DEF f, t, s
<1>2. PICK m : LoopRuns(f, t, s, Word, m)
  BY <1>1, LoopStops
<1>3. Stops(e) = {k \in 1 .. Word : (f + k * s) % Word > t}
  BY <1>1 DEF Stops, Step
<1>4. m \in Stops(e)
  BY <1>2, <1>3 DEF LoopRuns
<1>5. ASSUME NEW j \in Stops(e) PROVE m =< j
  <2> SUFFICES ASSUME ~(m =< j) PROVE FALSE
    OBVIOUS
  <2>1. j \in 0 .. (m - 1)
    BY <1>2, <1>3 DEF LoopRuns
  <2>2. (f + j * s) % Word = f + j * s /\ f + j * s =< t
    BY <1>2, <2>1 DEF LoopRuns
  <2>3. (f + j * s) % Word > t
    BY <1>3
  <2>4. j * s \in Int
    BY <1>1, <2>1
  <2>5. QED
    BY <1>1, <2>2, <2>3, <2>4
<1>6. Min(Stops(e)) = m
  <2>1. \A k \in Stops(e) : (\A j \in Stops(e) : k =< j) => k = m
    <3>1. Stops(e) \subseteq Int
      BY <1>3
    <3>2. QED
      BY <1>4, <1>5, <3>1
  <2>2. QED
    BY <1>4, <1>5, <2>1 DEF Min
<1>7. QED
  BY <1>2, <1>4, <1>6 DEF f, t, s

\* A list for which the parser never ends has such an entry.
LEMMA EndlessList ==
    ASSUME NEW list, CpuTree(list), list # All, ParseEnd(list) = "endless"
    PROVE  NearOverflow(list)
<1> DEFINE bad == {i \in DOMAIN list : ~EntryOk(list[i]) \/ Stops(list[i]) = {}}
           m == Min(bad)
<1>1. IsList(list) /\ DOMAIN list \subseteq Nat
  BY ListFacts DEF CpuTree
<1>2. bad # {} /\ EntryOk(list[m])
  BY DEF ParseEnd
<1>3. m \in bad
  <2>1. bad \in SUBSET Nat
    BY <1>1
  <2> HIDE DEF bad
  <2>2. PICK k \in bad : \A j \in bad : k =< j
    BY <1>2, <2>1, HasMin
  <2>3. QED
    BY <2>2 DEF Min
<1>4. m \in DOMAIN list /\ Stops(list[m]) = {}
  BY <1>2, <1>3
<1> HIDE DEF m, bad
<1> DEFINE e == list[m]
<1>5. Has(e, "from") /\ \A k \in DOMAIN e \ {"junk"} : e[k] \in Nat \cup {Missing}
  BY <1>4 DEF CpuTree, Range
<1> HIDE DEF e
<1>6. NearLimit(e)
  <2> SUFFICES ASSUME ~NearLimit(e) PROVE FALSE
    OBVIOUS
  <2>1. \E k : k \in Stops(e)
    BY <1>2, <1>5, EntryLoop DEF e
  <2>2. QED
    BY <1>4, <2>1 DEF e
<1>7. QED
  BY <1>4, <1>6 DEF NearLimit, NearOverflow, RawStride, e

\* Loading a file hangs only for a list that comes close to the limit of
\* unsigned int.
THEOREM StuckOnlyAtLimitHolds == Spec => []StuckOnlyAtLimit
<1>1. ASSUME ConfigInv PROVE StuckOnlyAtLimit
  <2> SUFFICES ASSUME status = "stuck"
               PROVE  \E list \in CpuListsOf(loaded) \ {All} : NearOverflow(list)
    BY DEF StuckOnlyAtLimit
  <2>1. Tree(loaded) /\ NormalizeEnd(loaded) = "endless"
    BY <1>1, ConfigAssumption DEF ConfigInv
  <2>2. CpuSetEnd(DemosCpu(loaded)) = "endless" \/ Walk(loaded).end = "endless"
    BY <2>1 DEF NormalizeEnd
  <2>3. CASE CpuSetEnd(DemosCpu(loaded)) = "endless"
    <3> DEFINE list == DemosCpu(loaded)
    <3>1. list # All /\ ParseEnd(list) = "endless"
      BY <2>3 DEF CpuSetEnd
    <3>2. CpuTree(list)
      BY <2>1, <3>1 DEF Tree, DemosCpu
    <3>3. list \in CpuListsOf(loaded)
      BY DEF CpuListsOf
    <3>4. QED
      BY <3>1, <3>2, <3>3, EndlessList
  <2>4. CASE Walk(loaded).end = "endless"
    <3>6. PICK i \in 1 .. Len(loaded.windows) :
            \E s \in Range(SlicesOf(loaded.windows[i])) : Endless(s)
      BY <2>1, <2>4, WalkFacts DEF WalkResult
    <3>1. PICK s \in Range(SlicesOf(loaded.windows[i])) : Endless(s)
      BY <3>6
    <3>2. /\ loaded.windows[i] \in Range(loaded.windows)
          /\ WindowTree(loaded.windows[i])
      BY <2>1, ListFacts DEF Tree
    <3>3. CpuTree(s.cpu) /\ s.cpu # All /\ ParseEnd(s.cpu) = "endless"
      BY <3>1, <3>2, SlicesOfFacts DEF SliceTree, Endless
    <3>4. s.cpu \in CpuListsOf(loaded)
      BY <3>2 DEF CpuListsOf
    <3>5. QED
      BY <3>3, <3>4, EndlessList
  <2>5. QED
    BY <2>2, <2>3, <2>4
<1>2. QED
  BY <1>1, ConfigInvariance, PTL

\* Multiples.
LEMMA MultipleMod ==
    ASSUME NEW M \in Nat \ {0}, NEW k \in Int
    PROVE  (M * k) % M = 0
<1>1. PICK z \in Int : z = 0
  OBVIOUS
<1>2. (z + M * k) % M = z % M
  BY ModShift
<1>3. z % M = z
  BY <1>1, ModSmall
<1>4. z + M * k = M * k
  BY <1>1
<1>5. QED
  BY <1>1, <1>2, <1>3, <1>4

\* A multiple of M has a quotient.
LEMMA ExactDiv ==
    ASSUME NEW M \in Nat \ {0}, NEW a \in Nat, a % M = 0
    PROVE  \E q \in Nat : a = M * q
<1>5. a \div M \in Int /\ a = M * (a \div M) + (a % M)
  BY DivMod
<1>1. PICK q \in Int : q = a \div M
  BY <1>5
<1>2. a = M * q
  BY <1>1, <1>5
<1>3. q >= 0
  <2> SUFFICES ASSUME q < 0 PROVE FALSE
    BY <1>1
  <2>1. M * q < 0
    OBVIOUS
  <2>2. QED
    BY <1>2, <2>1
<1>4. QED
  BY <1>2, <1>3

\* Every number is a multiple of one: a range without stride has no gaps.
LEMMA ModOne == ASSUME NEW x \in Int PROVE x % 1 = 0
<1>1. PICK M \in Nat \ {0} : M = 1
  OBVIOUS
<1>2. x % M \in 0 .. M - 1
  BY DivMod
<1>3. QED
  BY <1>1, <1>2

\* The CPUs that one entry stands for.
EntryMeaning(e) == {n \in e.from .. RawTo(e) : (n - e.from) % RawStride(e) = 0}

\* A list stands for what its entries stand for.
LEMMA MeaningFacts ==
    ASSUME NEW list
    PROVE  Meaning(list) = UNION {EntryMeaning(e) : e \in Range(list)}
BY DEF Meaning, EntryMeaning, RawTo, RawStride, Range

\* The loop of cpulist_parse meets exactly these.
LEMMA EntryMeant ==
    ASSUME NEW e, Has(e, "from"), \A k \in DOMAIN e \ {"junk"} : e[k] \in Nat \cup {Missing},
           EntryOk(e), ~NearLimit(e)
    PROVE  EntryCpus(e) = {n \in EntryMeaning(e) : n < MaxCpus}
<1> DEFINE f == e.from
           t == RawTo(e)
           s == RawStride(e)
<1>1. /\ f \in Nat /\ t \in Nat /\ s \in Nat \ {0} /\ f =< t
      /\ From(e) = f /\ Stride(e) = s
  BY EntryNumbers
<1>2. PICK m : LoopRuns(f, t, s, Word, m) /\ Min(Stops(e)) = m
  BY EntryLoop
<1>3. EntryMeaning(e) = {n \in f .. t : (n - f) % s = 0}
  BY DEF EntryMeaning
<1> HIDE DEF f, t, s
<1>4. m \in Nat /\ \A k \in 0 .. (m - 1) : Step(e, k) = f + k * s /\ f + k * s =< t
  BY <1>1, <1>2 DEF LoopRuns, Step
<1>5. ASSUME NEW k \in 0 .. (m - 1) PROVE f + k * s \in f .. t /\ ((f + k * s) - f) % s = 0
  <2>1. k \in Int /\ k * s \in Nat
    BY <1>1, <1>4
  <2>2. (s * k) % s = 0
    BY <1>1, <2>1, MultipleMod
  <2>3. (f + k * s) - f = s * k
    BY <1>1, <2>1
  <2>4. f + k * s =< t
    BY <1>4
  <2>5. ((f + k * s) - f) % s = 0
    BY <2>2, <2>3
  <2>6. QED
    BY <1>1, <2>1, <2>4, <2>5
<1>6. ASSUME NEW n \in f .. t, (n - f) % s = 0 PROVE \E k \in 0 .. (m - 1) : n = f + k * s
  <2>1. PICK a \in Nat : a = n - f
    BY <1>1
  <2>2. PICK q \in Nat : a = s * q
    BY <1>1, <1>6, <2>1, ExactDiv
  <2>4. n = f + q * s
    BY <1>1, <2>1, <2>2
  <2>5. f + q * s =< t
    BY <1>1, <2>4
  <2>6. q =< m - 1
    BY <1>2, <2>4, <2>5 DEF LoopRuns
  <2>7. QED
    BY <1>4, <2>4, <2>6
<1>7. {Step(e, k) : k \in 0 .. Min(Stops(e)) - 1} = {n \in f .. t : (n - f) % s = 0}
  <2>1. {Step(e, k) : k \in 0 .. Min(Stops(e)) - 1} = {f + k * s : k \in 0 .. (m - 1)}
    BY <1>2, <1>4
  <2>2. QED
    BY <1>5, <1>6, <2>1
<1>8. QED
  BY <1>3, <1>7 DEF EntryCpus

\* cpulist_parse reads a list as README.md describes it.
LEMMA ListMeant ==
    ASSUME NEW list, CpuTree(list), list # All, CpuSetEnd(list) = "ok", ~NearOverflow(list)
    PROVE  CpulistParse(list) = {n \in Meaning(list) : n < MaxCpus}
<1>1. \A i \in DOMAIN list : EntryOk(list[i])
  BY DEF CpuSetEnd, ParseEnd
<1>2. \A i \in DOMAIN list : ~NearLimit(list[i])
  BY DEF NearOverflow, NearLimit, RawStride
<1>3. \A i \in DOMAIN list :
         Has(list[i], "from") /\ \A k \in DOMAIN list[i] \ {"junk"} : list[i][k] \in Nat \cup {Missing}
  BY DEF CpuTree, Range
<1>4. \A i \in DOMAIN list : EntryCpus(list[i]) = {n \in EntryMeaning(list[i]) : n < MaxCpus}
  BY <1>1, <1>2, <1>3, EntryMeant
<1>5. Meaning(list) = UNION {EntryMeaning(list[i]) : i \in DOMAIN list}
  BY MeaningFacts DEF Range
<1>6. QED
  BY <1>4, <1>5 DEF CpulistParse

\* A run of CPUs: from where it starts to where it ends, all of it.
LEMMA RunFacts ==
    ASSUME NEW cpus \in SUBSET (0 .. MaxCpus - 1), NEW i \in 0 .. MaxCpus - 1, i \in cpus
    PROVE  LET j == RunEnd(cpus, i)
           IN  /\ j \in i .. MaxCpus - 1 /\ i .. j \subseteq cpus
               /\ \A n \in cpus : n >= i /\ i .. n \subseteq cpus => n =< j
<1> DEFINE E == {k \in i .. MaxCpus : k + 1 \notin cpus}
           j == RunEnd(cpus, i)
<1>1. MaxCpus \in Nat \ {0}
  BY CpuListAssumption
<1>2. E \in SUBSET Nat /\ MaxCpus - 1 \in E
  BY <1>1
<1>3. j \in E /\ \A k \in E : j =< k
  <2>1. j = Min(E)
    BY DEF RunEnd
  <2> HIDE DEF E, j
  <2>2. PICK k \in E : \A x \in E : k =< x
    BY <1>2, HasMin
  <2>3. QED
    BY <2>1, <2>2 DEF Min
<1> HIDE DEF j
<1>4. j \in i .. MaxCpus - 1 /\ j + 1 \notin cpus
  BY <1>1, <1>2, <1>3
<1>5. ASSUME NEW n \in i .. j PROVE n \in cpus
  <2>1. CASE n = i
    BY <2>1
  <2>2. CASE n # i
    <3>1. n - 1 \in i .. MaxCpus /\ ~(j =< n - 1)
      BY <1>1, <1>4, <2>2
    <3>2. n - 1 \notin E
      BY <1>3, <3>1
    <3>3. (n - 1) + 1 = n
      BY <1>1
    <3>4. QED
      BY <3>1, <3>2, <3>3
  <2>3. QED
    BY <2>1, <2>2
<1>6. ASSUME NEW n \in cpus, n >= i, i .. n \subseteq cpus, n > j PROVE FALSE
  <2>1. j + 1 \in i .. n
    BY <1>1, <1>4, <1>6
  <2>2. QED
    BY <1>4, <1>6, <2>1
<1>7. \A n \in cpus : n >= i /\ i .. n \subseteq cpus => n =< j
  BY <1>1, <1>4, <1>6
<1>8. QED
  BY <1>4, <1>5, <1>7 DEF j

\* What is printed for a run reads as the run.
LEMMA RunMeant ==
    ASSUME NEW i \in Nat, NEW j \in Nat, i =< j
    PROVE  /\ IsList(RunEntries(i, j))
           /\ UNION {EntryMeaning(e) : e \in Range(RunEntries(i, j))} = i .. j
<1>1. \A x \in Int : x % 1 = 0
  BY ModOne
<1> DEFINE one(n) == [from |-> n, junk |-> FALSE]
           two == [from |-> i, to |-> j, junk |-> FALSE]
<1>2. \A n \in Nat : EntryMeaning(one(n)) = {n}
  <2> SUFFICES ASSUME NEW n \in Nat PROVE EntryMeaning(one(n)) = {n}
    OBVIOUS
  <2>1. one(n).from = n /\ RawTo(one(n)) = n /\ RawStride(one(n)) = 1
    BY DEF RawTo, RawStride, Has
  <2>2. EntryMeaning(one(n)) = {k \in n .. n : (k - n) % 1 = 0}
    BY <2>1 DEF EntryMeaning
  <2>3. \A k \in n .. n : k - n \in Int /\ (k - n) % 1 = 0
    BY <1>1
  <2>4. n .. n = {n}
    OBVIOUS
  <2>5. QED
    BY ONLY <2>2, <2>3, <2>4
<1>3. EntryMeaning(two) = i .. j
  <2>1. two.from = i /\ RawTo(two) = j /\ RawStride(two) = 1
    BY DEF RawTo, RawStride, Has
  <2>2. EntryMeaning(two) = {k \in i .. j : (k - i) % 1 = 0}
    BY <2>1 DEF EntryMeaning
  <2>3. \A k \in i .. j : k - i \in Int /\ (k - i) % 1 = 0
    BY <1>1
  <2>4. QED
    BY ONLY <2>2, <2>3
<1>4. CASE j = i
  <2>1. RunEntries(i, j) = <<one(i)>>
    BY <1>4 DEF RunEntries
  <2> HIDE DEF one
  <2>2. IsList(RunEntries(i, j)) /\ Range(RunEntries(i, j)) = {one(i)}
    BY <2>1, OneList
  <2>3. i .. j = {i}
    BY <1>4
  <2>4. QED
    BY <1>2, <2>2, <2>3
<1>5. CASE j = i + 1
  <2>1. RunEntries(i, j) = <<one(i), one(j)>>
    <3>1. j # i
      BY <1>5
    <3>2. QED
      BY <1>5, <3>1 DEF RunEntries
  <2> HIDE DEF one
  <2>2. <<one(i), one(j)>> = [k \in 1 .. 2 |-> <<one(i), one(j)>>[k]]
    OBVIOUS
  <2>3. IsList(RunEntries(i, j))
    BY <2>1, <2>2, MakesList
  <2>4. Range(RunEntries(i, j)) = {one(i), one(j)}
    <3>1. DOMAIN <<one(i), one(j)>> = {1, 2}
      OBVIOUS
    <3>2. QED
      BY <2>1, <3>1 DEF Range
  <2>5. i .. j = {i, j}
    BY <1>5
  <2>6. QED
    BY <1>2, <2>3, <2>4, <2>5
<1>6. CASE j # i /\ j # i + 1
  <2>1. RunEntries(i, j) = <<two>>
    BY <1>6 DEF RunEntries
  <2> HIDE DEF two
  <2>2. IsList(RunEntries(i, j)) /\ Range(RunEntries(i, j)) = {two}
    BY <2>1, OneList
  <2>3. QED
    BY <1>3, <2>2
<1>7. QED
  BY <1>4, <1>5, <1>6

\* What cpulist_create prints of a set of CPUs reads as that set.
LEMMA PrintedMeant ==
    ASSUME NEW cpus \in SUBSET (0 .. MaxCpus - 1)
    PROVE  Meaning(CpulistCreate(cpus)) = cpus
<1> DEFINE s == [i \in 1 .. MaxCpus |-> i - 1]
           Run(i) == i .. RunEnd(cpus, i)
           Runs(k) == UNION {Run(i) : i \in {x \in 0 .. (k - 1) : RunStarts(cpus, x)}}
           Set(l) == UNION {EntryMeaning(e) : e \in Range(l)}
<1>1. MaxCpus \in Nat \ {0}
  BY CpuListAssumption
<1>2. IsList(s) /\ Len(s) = MaxCpus
  <2>1. s = [i \in 1 .. MaxCpus |-> s[i]]
    OBVIOUS
  <2> HIDE DEF s
  <2>2. QED
    BY <1>1, <2>1, MakesList
<1>3. \A k \in 1 .. MaxCpus : s[k] = k - 1
  OBVIOUS
<1>4. CpulistCreate(cpus) = CpusDone(<<>>, s, cpus)
  BY DEF CpulistCreate, CpusDone
<1> HIDE DEF s
<1>5. PICK F : CpusRun(F, <<>>, s, cpus)
  BY <1>2, CpusFold
<1>6. /\ F[0] = <<>> /\ F[MaxCpus] = CpulistCreate(cpus)
      /\ \A k \in 1 .. MaxCpus : F[k] = AddRun(cpus, F[k - 1], k - 1)
  BY <1>2, <1>3, <1>4, <1>5 DEF CpusRun
<1> DEFINE Inv(k) == IsList(F[k]) /\ Set(F[k]) = Runs(k)
           G == {k \in 0 .. MaxCpus : Inv(k)}
<1>7. Inv(0)
  <2>1. {x \in 0 .. (0 - 1) : RunStarts(cpus, x)} = {}
    OBVIOUS
  <2>2. Runs(0) = {}
    BY <2>1
  <2>3. IsList(<<>>) /\ Range(<<>>) = {}
    BY EmptyList
  <2>4. QED
    BY <1>6, <2>2, <2>3
<1>8. ASSUME NEW k \in 1 .. MaxCpus, Inv(k - 1) PROVE Inv(k)
  <2> DEFINE i == k - 1
  <2>1. i \in 0 .. MaxCpus - 1 /\ i \in Nat
    BY <1>1
  <2>2. 0 .. (k - 1) = (0 .. ((k - 1) - 1)) \cup {i}
    BY <1>1
  <2>3. F[k] = AddRun(cpus, F[k - 1], i)
    BY <1>6
  <2> HIDE DEF i
  <2>4. CASE RunStarts(cpus, i)
    <3> DEFINE j == RunEnd(cpus, i)
    <3>1. F[k] = F[k - 1] \o RunEntries(i, j)
      BY <2>3, <2>4 DEF AddRun
    <3>2. j \in Nat /\ i =< j
      <4>1. j \in i .. MaxCpus - 1
        BY <2>1, <2>4, RunFacts DEF RunStarts
      <4>2. QED
        BY <1>1, <2>1, <4>1
    <3>3. Run(i) = i .. j
      OBVIOUS
    <3> HIDE DEF j
    <3>4. IsList(RunEntries(i, j)) /\ Set(RunEntries(i, j)) = i .. j
      BY <2>1, <3>2, RunMeant
    <3>5. IsList(F[k]) /\ Range(F[k]) = Range(F[k - 1]) \cup Range(RunEntries(i, j))
      BY <1>8, <3>1, <3>4, ConcatList
    <3>6. Set(F[k]) = Set(F[k - 1]) \cup (i .. j)
      BY <3>4, <3>5
    <3>7. Runs(k) = Runs(k - 1) \cup Run(i)
      <4> HIDE DEF Run
      <4> QED BY <2>2, <2>4
    <3> HIDE DEF Set, Runs, Run
    <3>8. QED
      BY <1>8, <3>3, <3>5, <3>6, <3>7
  <2>5. CASE ~RunStarts(cpus, i)
    <3>1. F[k] = F[k - 1]
      BY <2>3, <2>5 DEF AddRun
    <3>2. Runs(k) = Runs(k - 1)
      <4> HIDE DEF Run
      <4> QED BY <2>2, <2>5
    <3> HIDE DEF Set, Runs
    <3>3. QED
      BY <1>8, <3>1, <3>2
  <2>6. QED
    BY <2>4, <2>5
<1> HIDE DEF Inv
<1>9. Inv(MaxCpus)
  <2>1. 0 \in G
    BY <1>1, <1>7
  <2>2. \A k \in 1 .. MaxCpus : k - 1 \in G => k \in G
    BY <1>1, <1>8
  <2>3. MaxCpus \in 0 .. MaxCpus /\ MaxCpus \in Nat
    BY <1>1
  <2> HIDE DEF G
  <2>4. MaxCpus \in G
    BY <2>1, <2>2, <2>3, Upwards
  <2>5. QED
    BY <2>4 DEF G
<1>10. Runs(MaxCpus) \subseteq cpus
  <2> SUFFICES ASSUME NEW i \in 0 .. (MaxCpus - 1), RunStarts(cpus, i) PROVE Run(i) \subseteq cpus
    OBVIOUS
  <2>1. i \in cpus
    BY DEF RunStarts
  <2>2. QED
    BY <2>1, RunFacts
<1>11. cpus \subseteq Runs(MaxCpus)
  <2> SUFFICES ASSUME NEW n \in cpus
               PROVE  \E i \in 0 .. (MaxCpus - 1) : RunStarts(cpus, i) /\ n \in Run(i)
    OBVIOUS
  <2> DEFINE B == {i \in 0 .. n : i .. n \subseteq cpus}
  <2>1. n \in 0 .. MaxCpus - 1 /\ n \in Nat
    BY <1>1
  <2>2. B \in SUBSET Nat /\ n \in B
    <3>1. n .. n = {n}
      BY <2>1
    <3>2. QED
      BY <2>1, <3>1
  <2>3. PICK i \in B : \A j \in B : i =< j
    <3> HIDE DEF B
    <3> QED BY <2>2, HasMin
  <2>4. i \in 0 .. n /\ i .. n \subseteq cpus /\ i \in i .. n /\ i \in 0 .. MaxCpus - 1
    BY <1>1, <2>1, <2>3
  <2>5. i \in cpus
    BY <2>4
  <2>6. i - 1 \notin cpus
    <3> SUFFICES ASSUME i - 1 \in cpus PROVE FALSE
      OBVIOUS
    <3>1. i - 1 \in 0 .. n
      BY <1>1, <2>1, <2>4
    <3>2. (i - 1) .. n = {i - 1} \cup (i .. n)
      BY <2>1, <2>4
    <3>3. i - 1 \in B
      BY <2>4, <3>1, <3>2
    <3>4. QED
      BY <2>3, <2>4, <3>3
  <2>7. n =< RunEnd(cpus, i) /\ RunEnd(cpus, i) \in i .. MaxCpus - 1
    BY <2>1, <2>4, <2>5, RunFacts
  <2>8. QED
    BY <1>1, <2>1, <2>4, <2>5, <2>6, <2>7 DEF RunStarts
<1>12. QED
  <2>1. Meaning(F[MaxCpus]) = Set(F[MaxCpus])
    BY MeaningFacts
  <2> HIDE DEF Set, Runs
  <2>2. QED
    BY <1>6, <1>9, <1>10, <1>11, <2>1 DEF Inv

\* A slice runs on the allowed CPUs of its list, and its cpuset is printed for
\* the kernel as what it is.
THEOREM CpusAsConfiguredHolds == Spec => []CpusAsConfigured
<1>1. ASSUME ConfigInv PROVE CpusAsConfigured
  <2> SUFFICES ASSUME status = "created",
                      NEW w \in DOMAIN objects.windows,
                      NEW s \in DOMAIN objects.windows[w].slices
               PROVE  LET list == SlicesOf(config.windows[w])[s].cpu
                          made == objects.windows[w].slices[s].cpus
                          meant == Meaning(list) \cap objects.allowed
                      IN  /\ list # All /\ ~NearOverflow(list) /\ meant # {} => made = meant
                          /\ Fits(made) => Meaning(CpulistCreate(made)) = made
    BY DEF CpusAsConfigured
  <2> DEFINE list == SlicesOf(config.windows[w])[s].cpu
             made == objects.windows[w].slices[s].cpus
             meant == Meaning(list) \cap objects.allowed
  <2>1. PICK allowed : Objects(allowed)
    BY <1>1, CreatedFacts
  <2>2. /\ allowed \in (SUBSET Cpu) \ {{}} /\ objects.allowed = allowed
        /\ made = SliceCpus(list, allowed)
        /\ GoodSlice(SlicesOf(config.windows[w])[s])
    BY <2>1 DEF Objects
  <2>3. CpuTree(list) /\ CpuSetEnd(list) = "ok"
    BY <2>2 DEF GoodSlice
  <2> HIDE DEF list, made
  <2>4. allowed \subseteq 0 .. MaxCpus - 1
    BY <2>2, ConfigAssumption
  <2>5. made \in SUBSET (0 .. MaxCpus - 1)
    BY <2>2, <2>4, SliceCpusFacts
  <2>6. Meaning(CpulistCreate(made)) = made
    BY <2>5, PrintedMeant
  <2>7. ASSUME list # All, ~NearOverflow(list), meant # {} PROVE made = meant
    <3>1. CpulistParse(list) = {n \in Meaning(list) : n < MaxCpus}
      BY <2>3, <2>7, ListMeant
    <3>2. ParseCpuSet(list, allowed) = CpulistParse(list)
      BY <2>7 DEF ParseCpuSet
    <3>3. \A n \in allowed : n < MaxCpus
      BY <2>4, CpuListAssumption
    <3>4. CpulistParse(list) \cap allowed = meant
      BY <2>2, <3>1, <3>3
    <3>5. QED
      BY <2>2, <2>7, <3>2, <3>4, SliceCpusFacts
  <2>8. QED
    BY <2>6, <2>7 DEF list, made
<1>2. QED
  BY <1>1, ConfigInvariance, PTL

-------------------------------------------------------------------------------
(* Partitions that are defined inside a window                                 *)

\* A name that one partition has finds that partition.
LEMMA FindUnique ==
    ASSUME NEW parts, IsList(parts), NEW p \in 1 .. Len(parts),
           \A q \in 1 .. Len(parts) : parts[q].name = parts[p].name => q = p,
           NEW slice, NEW key,
           {e \in Range(slice.entries) : e.key = key} = {[key |-> key, ref |-> parts[p].name]}
    PROVE  FindPartition(slice, key, parts) = p
<1> DEFINE e == [key |-> key, ref |-> parts[p].name]
           refs == {f \in Range(slice.entries) : f.key = key}
           found == {q \in DOMAIN parts : \E f \in refs : parts[q].name = f.ref}
<1>1. DOMAIN parts = 1 .. Len(parts) /\ Len(parts) \in Nat
  BY ListFacts
<1>2. refs = {e} /\ e.ref = parts[p].name
  OBVIOUS
<1>3. found = {p}
  <2> HIDE DEF e, refs
  <2> QED BY <1>1, <1>2
<1>4. FindPartition(slice, key, parts) = Min(found)
  BY <1>2 DEF FindPartition
<1>5. Min({p}) = p
  BY DEF Min
<1>6. QED
  BY <1>3, <1>4, <1>5

\* The partition that a slice gets for entry e is the one that e defines.
Found(parts, p, e, length) ==
    /\ p \in 1 .. Len(parts)
    /\ PartitionTree(e.def)
    /\ PartitionOk(e.def, TotalBudget(e.key, length))
    /\ parts[p].processes = NormalProcesses(e.def, TotalBudget(e.key, length))

\* The entry of a slice that decides on a partition gives the slice the partition
\* that it defines.
LEMMA DecisiveFound ==
    ASSUME ConfigInv, status = "created", FileNamesUnique,
           NEW w \in DOMAIN loaded.windows,
           NEW s \in DOMAIN SlicesOf(loaded.windows[w]),
           NEW i \in DOMAIN SlicesOf(loaded.windows[w])[s].entries,
           Has(SlicesOf(loaded.windows[w])[s].entries[i], "def"),
           Decisive(SlicesOf(loaded.windows[w])[s].entries, i)
    PROVE  LET e == SlicesOf(loaded.windows[w])[s].entries[i]
               made == objects.windows[w].slices[s]
           IN  Found(objects.partitions, IF e.key \in ScKeys THEN made.sc ELSE made.be,
                     e, loaded.windows[w].length)
<1> DEFINE win == loaded.windows[w]
           slices == SlicesOf(win)
           entries == slices[s].entries
           e == entries[i]
           parts == config.partitions
           new == config.windows[w]
           made == objects.windows[w].slices[s]
           key == PartitionKey(e.key)
<1>1. PICK allowed : Objects(allowed)
  BY CreatedFacts
<1>2. /\ Good(Walk(loaded)) /\ Tree(loaded)
      /\ parts = Walk(loaded).partitions /\ config.windows = Walk(loaded).windows
      /\ Len(config.windows) = Len(loaded.windows)
      /\ \A k \in 1 .. Len(loaded.windows) : WindowMade(parts, loaded.windows[k], config.windows[k])
  BY ConfigFacts DEF WalkResult
<1>3. /\ IsList(loaded.windows) /\ w \in 1 .. Len(loaded.windows) /\ WindowTree(win)
  BY <1>2, ListFacts DEF Tree
<1>4. IsList(slices) /\ s \in 1 .. Len(slices) /\ SliceTree(slices[s])
  BY <1>3, SlicesOfFacts, ListFacts
<1>5. /\ IsList(entries) /\ i \in 1 .. Len(entries) /\ DOMAIN entries = 1 .. Len(entries)
      /\ ~Has(e, "ref") /\ PartitionTree(e.def)
  BY <1>4, ListFacts DEF SliceTree
<1>6. /\ Len(SlicesOf(new)) = Len(slices)
      /\ SliceMade(parts, slices[s], SlicesOf(new)[s], win.length)
  BY <1>2, <1>3, <1>4 DEF WindowMade
<1> DEFINE l == SlicesOf(new)[s].entries
<1>7. Made(parts, l, e, win.length)
  <2>1. MadeUpTo(parts, l, entries, Len(entries), win.length)
    BY <1>6 DEF SliceMade
  <2>2. \A j \in 1 .. Len(entries) : j > i => PartitionKey(entries[j].key) # PartitionKey(e.key)
    BY <1>5 DEF Decisive
  <2>3. QED
    BY <1>5, <2>1, <2>2 DEF MadeUpTo
<1>8. /\ made.sc = FindPartition(SlicesOf(new)[s], "sc_partition", parts)
      /\ made.be = FindPartition(SlicesOf(new)[s], "be_partition", parts)
      /\ objects.partitions = parts
  BY <1>1, <1>2, <1>3, <1>4, <1>6 DEF Objects
<1>9. IsList(parts) /\ Names(parts, Walk(loaded).anonymous)
  BY <1>2 DEF Good
<1>10. PICK p \in 1 .. Len(parts) :
         /\ PartitionOk(e.def, TotalBudget(e.key, win.length))
         /\ parts[p].processes = NormalProcesses(e.def, TotalBudget(e.key, win.length))
         /\ {f \in Range(l) : f.key = key} = {[key |-> key, ref |-> parts[p].name]}
  BY <1>7 DEF Made
<1>11. \A q \in 1 .. Len(parts) : parts[q].name = parts[p].name => q = p
  <2>1. DOMAIN parts = 1 .. Len(parts)
    BY <1>9, ListFacts
  <2>2. QED
    BY <1>9, <2>1 DEF FileNamesUnique, Names
<1>12. FindPartition(SlicesOf(new)[s], key, parts) = p
  <2> HIDE DEF key, parts
  <2> QED BY <1>9, <1>10, <1>11, FindUnique
<1>13. (IF e.key \in ScKeys THEN made.sc ELSE made.be) = p
  BY <1>8, <1>12 DEF PartitionKey
<1>14. QED
  <2> HIDE DEF e, made, parts, win
  <2>1. Found(parts, p, e, win.length)
    BY <1>5, <1>10 DEF Found
  <2>2. Found(objects.partitions, IF e.key \in ScKeys THEN made.sc ELSE made.be, e, win.length)
    BY <1>8, <1>13, <2>1
  <2>3. QED
    BY <2>2 DEF e, made, win

\* Normalization gives a process what it lacks and changes nothing that the
\* file says of it.
LEMMA ProcessExtended ==
    ASSUME NEW proc, NEW total, NEW n
    PROVE  Extends(NormalizeProcess(proc, total, n), proc)
BY DEF Extends, NormalizeProcess, Defaults, Has

\* A partition that is defined inside a window is the one that the slice gets,
\* with the processes that the file gives it: the names that normalize()
\* generates never collide.
THEOREM InlinePartitionFoundHolds == Spec => []InlinePartitionFound
<1>1. ASSUME ConfigInv PROVE InlinePartitionFound
  <2> SUFFICES ASSUME status = "created", FileNamesUnique,
                      NEW w \in DOMAIN loaded.windows,
                      NEW s \in DOMAIN SlicesOf(loaded.windows[w])
               PROVE  LET entries == SlicesOf(loaded.windows[w])[s].entries
                          made == objects.windows[w].slices[s]
                      IN  \A i \in DOMAIN entries : Has(entries[i], "def") /\ Decisive(entries, i) =>
                              LET p == IF entries[i].key \in ScKeys THEN made.sc ELSE made.be
                                  procs == ProcessList(entries[i].def)
                              IN  /\ p # 0
                                  /\ Len(objects.partitions[p].processes) = Len(procs)
                                  /\ \A k \in DOMAIN procs :
                                        Extends(objects.partitions[p].processes[k], procs[k])
    BY Zenon DEF InlinePartitionFound
  <2> SUFFICES ASSUME NEW i \in DOMAIN SlicesOf(loaded.windows[w])[s].entries,
                      Has(SlicesOf(loaded.windows[w])[s].entries[i], "def"),
                      Decisive(SlicesOf(loaded.windows[w])[s].entries, i)
               PROVE  LET e == SlicesOf(loaded.windows[w])[s].entries[i]
                          made == objects.windows[w].slices[s]
                          p == IF e.key \in ScKeys THEN made.sc ELSE made.be
                          procs == ProcessList(e.def)
                      IN  /\ p # 0
                          /\ Len(objects.partitions[p].processes) = Len(procs)
                          /\ \A k \in DOMAIN procs :
                                Extends(objects.partitions[p].processes[k], procs[k])
    BY Zenon
  <2> DEFINE e == SlicesOf(loaded.windows[w])[s].entries[i]
             made == objects.windows[w].slices[s]
             p == IF e.key \in ScKeys THEN made.sc ELSE made.be
             procs == ProcessList(e.def)
             parts == objects.partitions
             total == TotalBudget(e.key, loaded.windows[w].length)
  <2>1. Found(parts, p, e, loaded.windows[w].length)
    BY <1>1, DecisiveFound
  <2> HIDE DEF e, made, p, parts, total
  <2>2. /\ p \in 1 .. Len(parts) /\ PartitionTree(e.def)
        /\ parts[p].processes = [k \in DOMAIN procs |-> NormalizeProcess(procs[k], total, Len(procs))]
    BY <2>1 DEF Found, NormalProcesses, total
  <2>3. IsList(procs) /\ Len(procs) \in Nat /\ DOMAIN procs = 1 .. Len(procs)
    BY <2>2, ProcessListFacts, ListFacts
  <2> HIDE DEF procs
  <2>4. Len(parts[p].processes) = Len(procs)
    <3> DEFINE l == parts[p].processes
    <3>1. l = [k \in 1 .. Len(procs) |-> l[k]]
      BY <2>2, <2>3
    <3> HIDE DEF l
    <3>2. QED
      BY <2>3, <3>1, MakesList DEF l
  <2>5. \A k \in DOMAIN procs : Extends(parts[p].processes[k], procs[k])
    BY <2>2, ProcessExtended
  <2>6. p # 0
    BY <2>2
  <2>7. QED
    BY <2>4, <2>5, <2>6 DEF e, made, p, parts, procs
<1>2. QED
  BY <1>1, ConfigInvariance, PTL

\* Equal budgets add up to their number times the budget.
LEMMA EqualBudgets ==
    ASSUME NEW l, IsList(l), NEW b \in Int, \A k \in 1 .. Len(l) : l[k].budget = b
    PROVE  BudgetsDone(0, l) = Len(l) * b
<1> DEFINE n == Len(l)
<1>1. n \in Nat
  BY ListFacts
<1>2. PICK F : BudgetsRun(F, 0, l)
  BY BudgetsFold
<1>3. F[0] = 0 /\ F[n] = BudgetsDone(0, l) /\ \A k \in 1 .. n : F[k] = F[k - 1] + b
  BY <1>2 DEF BudgetsRun
<1> HIDE DEF n
<1> DEFINE G == {k \in 0 .. n : F[k] = k * b}
<1>4. 0 \in G
  <2>1. 0 * b = 0 /\ 0 \in 0 .. n
    BY <1>1
  <2>2. QED
    BY <1>3, <2>1
<1>5. ASSUME NEW k \in 1 .. n, k - 1 \in G PROVE k \in G
  <2>1. F[k] = (k - 1) * b + b
    BY <1>3, <1>5
  <2>2. (k - 1) * b + b = k * b
    BY <1>1
  <2>3. k \in 0 .. n
    BY <1>1
  <2>4. QED
    BY <2>1, <2>2, <2>3
<1>6. n \in G
  <2>1. n \in 0 .. n
    BY <1>1
  <2> HIDE DEF G
  <2>2. QED
    BY <1>1, <1>4, <1>5, <2>1, Upwards
<1>7. QED
  BY <1>3, <1>6 DEF n

\* n equal shares of six tenths of a length leave some of it.
LEMMA SharesLeaveRoom ==
    ASSUME NEW n \in Nat \ {0}, NEW length \in Int, NEW b \in Int, b > 0,
           b = (6 * length) \div (10 * n)
    PROVE  n * b < length
<1>1. PICK M \in Nat \ {0} : M = 10 * n
  OBVIOUS
<1>2. PICK t \in Int : t = 6 * length
  OBVIOUS
<1>3. t = M * (t \div M) + (t % M) /\ t % M \in 0 .. (M - 1)
  BY DivMod
<1>4. t \div M = b
  BY <1>1, <1>2
<1>5. PICK rest \in Nat : rest = t % M
  BY <1>3
<1>6. t = M * b + rest
  BY <1>3, <1>4, <1>5
<1>7. PICK x \in Int : x = n * b
  OBVIOUS
<1>8. M * b = 10 * x
  BY <1>1, <1>7
<1>9. x > 0
  BY <1>7
<1>10. 6 * length = 10 * x + rest
  BY <1>2, <1>6, <1>8
<1>11. x < length
  BY <1>9, <1>10
<1>12. QED
  BY <1>7, <1>11

\* SC processes without a budget share six tenths of the window, so that they
\* leave time to the BE partition of the slice, however many they are.
THEOREM RoomForBeHolds == Spec => []RoomForBe
<1>1. ASSUME ConfigInv PROVE RoomForBe
  <2> SUFFICES ASSUME status = "created", FileNamesUnique,
                      NEW w \in DOMAIN loaded.windows,
                      NEW s \in DOMAIN SlicesOf(loaded.windows[w]),
                      NEW i \in DOMAIN SlicesOf(loaded.windows[w])[s].entries,
                      Has(SlicesOf(loaded.windows[w])[s].entries[i], "def"),
                      SlicesOf(loaded.windows[w])[s].entries[i].key \in ScKeys,
                      Decisive(SlicesOf(loaded.windows[w])[s].entries, i),
                      \A r \in Range(ProcessList(SlicesOf(loaded.windows[w])[s].entries[i].def)) :
                         ~Has(r, "budget")
               PROVE  BudgetsDone(0, objects.partitions[objects.windows[w].slices[s].sc].processes)
                         < loaded.windows[w].length
    BY Zenon DEF RoomForBe, BudgetsDone
  <2> DEFINE e == SlicesOf(loaded.windows[w])[s].entries[i]
             p == objects.windows[w].slices[s].sc
             parts == objects.partitions
             procs == ProcessList(e.def)
             n == Len(procs)
             length == loaded.windows[w].length
             b == (6 * length) \div (10 * n)
             l == parts[p].processes
  <2>1. Found(parts, p, e, length)
    <3>1. Found(parts, IF e.key \in ScKeys THEN p ELSE objects.windows[w].slices[s].be, e, length)
      BY <1>1, DecisiveFound
    <3>2. QED
      BY <3>1
  <2>2. length \in Int
    <3>1. Tree(loaded)
      BY <1>1, ConfigFacts
    <3>2. QED
      BY <3>1, ListFacts DEF Tree, WindowTree
  <2>3. TotalBudget(e.key, length) = <<6 * length>>
    BY DEF TotalBudget
  <2> HIDE DEF e, p, parts, length
  <2>4. /\ PartitionTree(e.def) /\ PartitionOk(e.def, <<6 * length>>)
        /\ l = [k \in DOMAIN procs |-> NormalizeProcess(procs[k], <<6 * length>>, n)]
    BY <2>1, <2>3 DEF Found, NormalProcesses
  <2>5. /\ IsList(procs) /\ n \in Nat \ {0} /\ DOMAIN procs = 1 .. n
        /\ \A k \in 1 .. n : procs[k] \in Range(procs)
    BY <2>4, ProcessListFacts, ListFacts
  <2>6. \A k \in 1 .. n : ~Has(procs[k], "budget") /\ ProcessOk(procs[k], <<6 * length>>, n)
    BY <2>4, <2>5 DEF PartitionOk, e
  <2> HIDE DEF procs, n
  <2>7. \A k \in 1 .. n : BudgetOf(procs[k], <<6 * length>>, n) = b
    BY <2>6 DEF BudgetOf
  <2>8. b \in Int /\ b > 0
    <3>1. b > 0
      BY <2>5, <2>6, <2>7 DEF ProcessOk
    <3>2. 10 * n \in Nat \ {0} /\ 6 * length \in Int
      BY <2>2, <2>5
    <3>3. QED
      BY <3>1, <3>2, DivMod
  <2>9. \A k \in 1 .. n : l[k] = NormalizeProcess(procs[k], <<6 * length>>, n)
    BY <2>4, <2>5
  <2> HIDE DEF b
  <2>10. \A k \in 1 .. n : l[k].budget = b
    <3> SUFFICES ASSUME NEW k \in 1 .. n PROVE l[k].budget = b
      OBVIOUS
    <3>1. l[k] = Defaults(procs[k], [budget |-> b, jitter |-> 0, init |-> FALSE])
      BY <2>7, <2>9 DEF NormalizeProcess
    <3>2. ~Has(procs[k], "budget")
      BY <2>6
    <3>3. QED
      BY <3>1, <3>2 DEF Defaults, Has
  <2>11. IsList(l) /\ Len(l) = n
    <3>1. l = [k \in 1 .. n |-> l[k]]
      BY <2>4, <2>5
    <3> HIDE DEF l
    <3>2. QED
      BY <2>5, <3>1, MakesList
  <2>12. BudgetsDone(0, l) = n * b
    <3> HIDE DEF l
    <3> QED BY <2>8, <2>10, <2>11, EqualBudgets
  <2>13. n * b < length
    BY <2>2, <2>5, <2>8, SharesLeaveRoom DEF b
  <2>14. QED
    BY <2>12, <2>13 DEF p, parts, length
<1>2. QED
  BY <1>1, ConfigInvariance, PTL

-------------------------------------------------------------------------------
(* The normal form is already normal                                           *)

\* The first k elements of a list.
Prefix(l, k) == [i \in 1 .. k |-> l[i]]

\* Prefixes grow by one element at a time to the whole list.
LEMMA PrefixFacts ==
    ASSUME NEW l, IsList(l)
    PROVE  /\ Prefix(l, 0) = <<>>
           /\ Prefix(l, Len(l)) = l
           /\ \A k \in 1 .. Len(l) : Append(Prefix(l, k - 1), l[k]) = Prefix(l, k)
           /\ \A k \in 0 .. Len(l) :
                 /\ IsList(Prefix(l, k)) /\ Len(Prefix(l, k)) = k
                 /\ \A i \in 1 .. k : Prefix(l, k)[i] = l[i]
<1>1. Len(l) \in Nat /\ l = [i \in 1 .. Len(l) |-> l[i]]
  BY ListFacts
<1>2. ASSUME NEW k \in 0 .. Len(l)
      PROVE  /\ IsList(Prefix(l, k)) /\ Len(Prefix(l, k)) = k
             /\ \A i \in 1 .. k : Prefix(l, k)[i] = l[i]
  <2> DEFINE m == Prefix(l, k)
  <2>1. m = [i \in 1 .. k |-> m[i]] /\ \A i \in 1 .. k : m[i] = l[i]
    BY DEF Prefix
  <2>2. k \in Nat
    BY <1>1
  <2> HIDE DEF m
  <2>3. IsList(m) /\ Len(m) = k
    BY <2>1, <2>2, MakesList
  <2>4. QED
    BY <2>1, <2>3 DEF m
<1>3. Prefix(l, 0) = <<>>
  <2>1. IsList(Prefix(l, 0)) /\ Len(Prefix(l, 0)) = 0
    BY <1>1, <1>2
  <2>2. QED
    BY <2>1, ListFacts
<1>4. ASSUME NEW k \in 1 .. Len(l) PROVE Append(Prefix(l, k - 1), l[k]) = Prefix(l, k)
  <2> DEFINE m == Prefix(l, k - 1)
             n == Append(m, l[k])
  <2>1. k - 1 \in 0 .. Len(l)
    BY <1>1
  <2>2. IsList(m) /\ Len(m) = k - 1 /\ \A i \in 1 .. (k - 1) : m[i] = l[i]
    BY <1>2, <2>1
  <2> HIDE DEF m
  <2>3. /\ IsList(n) /\ Len(n) = (k - 1) + 1
        /\ \A i \in 1 .. (k - 1) : n[i] = m[i]
        /\ n[(k - 1) + 1] = l[k]
    BY <2>2, AppendList
  <2>4. (k - 1) + 1 = k
    BY <1>1
  <2> HIDE DEF n
  <2>5. n = [i \in 1 .. k |-> n[i]]
    BY <2>3, <2>4, ListFacts
  <2>6. \A i \in 1 .. k : n[i] = l[i]
    <3>1. \A i \in 1 .. k : i = k \/ i \in 1 .. (k - 1)
      BY <1>1
    <3>2. QED
      BY <2>2, <2>3, <2>4, <3>1
  <2>7. n = [i \in 1 .. k |-> l[i]]
    BY <2>5, <2>6
  <2>8. QED
    BY <2>7 DEF Prefix, m, n
<1>5. QED
  BY <1>1, <1>2, <1>3, <1>4 DEF Prefix

\* The accumulator of a walk that generates no name and meets no error.
Acc(P, W, S, E) == [end |-> "ok", partitions |-> P, anonymous |-> 0,
                    windows |-> W, slices |-> S, entries |-> E]

\* A normalized process lacks nothing.
LEMMA NormalProcess ==
    ASSUME NEW r, GoodProcess(r), NEW n
    PROVE  ProcessOk(r, <<>>, n) /\ NormalizeProcess(r, <<>>, n) = r
<1>1. /\ r = [k \in DOMAIN r |-> r[k]]
      /\ "budget" \in DOMAIN r /\ "jitter" \in DOMAIN r /\ "init" \in DOMAIN r
  BY DEF GoodProcess, IsMapping, Has
<1>2. ProcessOk(r, <<>>, n)
  BY DEF GoodProcess, ProcessOk, BudgetOf
<1>3. \A d : Defaults(r, [budget |-> d, jitter |-> 0, init |-> FALSE]) = r
  <2> SUFFICES ASSUME NEW d
               PROVE  Defaults(r, [budget |-> d, jitter |-> 0, init |-> FALSE]) = r
    OBVIOUS
  <2>1. DOMAIN r \cup DOMAIN [budget |-> d, jitter |-> 0, init |-> FALSE] = DOMAIN r
    BY <1>1
  <2>2. Defaults(r, [budget |-> d, jitter |-> 0, init |-> FALSE]) = [k \in DOMAIN r |-> r[k]]
    BY <2>1 DEF Defaults, Has
  <2>3. QED
    BY <1>1, <2>2
<1>4. QED
  BY <1>2, <1>3 DEF NormalizeProcess

\* A normalized partition is added as it is.
LEMMA NormalPartition ==
    ASSUME NEW p, GoodPartition(p), NEW P, NEW W, NEW S, NEW E
    PROVE  AddPartition(Acc(P, W, S, E), p, <<>>) = Acc(Append(P, p), W, S, E)
<1> DEFINE procs == p.processes
           a == Acc(P, W, S, E)
<1>1. /\ p = [name |-> p.name, processes |-> procs]
      /\ IsList(procs) /\ procs # <<>> /\ \A r \in Range(procs) : GoodProcess(r)
  BY DEF GoodPartition
<1> HIDE DEF procs
<1>2. Has(p, "name") /\ Has(p, "processes") /\ DOMAIN p = {"name", "processes"}
  BY <1>1 DEF Has
<1>3. ProcessList(p) = procs
  BY <1>1, <1>2 DEF ProcessList, procs
<1>4. /\ DOMAIN procs = 1 .. Len(procs) /\ procs = [i \in 1 .. Len(procs) |-> procs[i]]
      /\ \A i \in 1 .. Len(procs) : GoodProcess(procs[i])
  BY <1>1, ListFacts
<1>5. PartitionOk(p, <<>>)
  BY <1>2, <1>3, <1>4, NormalProcess DEF PartitionOk
<1>6. [i \in DOMAIN procs |-> NormalizeProcess(procs[i], <<>>, Len(procs))] = procs
  <2>1. \A i \in 1 .. Len(procs) : NormalizeProcess(procs[i], <<>>, Len(procs)) = procs[i]
    BY <1>4, NormalProcess
  <2>2. QED
    BY <1>4, <2>1
<1>7. AddPartition(a, p, <<>>) =
        [a EXCEPT !.partitions = Append(@, [name |-> p.name, processes |-> procs]),
                  !.anonymous = @]
  BY <1>2, <1>3, <1>5, <1>6 DEF AddPartition
<1>8. AddPartition(a, p, <<>>) =
        [a EXCEPT !.partitions = Append(@, p), !.anonymous = @]
  BY <1>1, <1>7
<1>9. QED
  BY <1>8 DEF Acc

\* So is an entry, under a key that has none.
LEMMA NormalEntry ==
    ASSUME NEW e, e = [key |-> e.key, ref |-> e.ref], e.key \in {"sc_partition", "be_partition"},
           NEW l, IsList(l), \A i \in 1 .. Len(l) : l[i].key # e.key,
           NEW P, NEW W, NEW S, NEW length
    PROVE  NormalizeEntry(Acc(P, W, S, l), e, length) = Acc(P, W, S, Append(l, e))
<1>1. Has(e, "ref") /\ PartitionKey(e.key) = e.key
  BY DEF Has, PartitionKey, ScKeys
<1>2. SetEntry(l, e.key, e.ref) = Append(l, e)
  BY ListFacts DEF SetEntry
<1>3. NormalizeEntry(Acc(P, W, S, l), e, length) =
        [Acc(P, W, S, l) EXCEPT !.entries = SetEntry(@, e.key, e.ref)]
  BY <1>1 DEF NormalizeEntry
<1>4. [Acc(P, W, S, l) EXCEPT !.entries = SetEntry(@, e.key, e.ref)]
        = Acc(P, W, S, SetEntry(l, e.key, e.ref))
  BY DEF Acc
<1>5. QED
  BY <1>2, <1>3, <1>4

\* The entries of a normalized slice stay what they are.
LEMMA NormalEntries ==
    ASSUME NEW l, GoodEntries(l), NEW P, NEW W, NEW S, NEW length
    PROVE  EntriesDone(Acc(P, W, S, <<>>), l, length) = Acc(P, W, S, l)
<1> DEFINE n == Len(l)
           a == Acc(P, W, S, <<>>)
<1>1. IsList(l) /\ n \in Nat
  BY ListFacts DEF GoodEntries
<1>2. PICK F : EntriesRun(F, a, l, length)
  BY <1>1, EntriesFold
<1>3. /\ F[0] = a /\ F[n] = EntriesDone(a, l, length)
      /\ \A k \in 1 .. n : F[k] = NormalizeEntry(F[k - 1], l[k], length)
  BY <1>2 DEF EntriesRun
<1> HIDE DEF n, a
<1> DEFINE G == {k \in 0 .. n : F[k] = Acc(P, W, S, Prefix(l, k))}
<1>4. 0 \in G
  BY <1>1, <1>3, PrefixFacts DEF a
<1>5. ASSUME NEW k \in 1 .. n, k - 1 \in G PROVE k \in G
  <2> DEFINE m == Prefix(l, k - 1)
  <2>1. k - 1 \in 0 .. n /\ k \in 0 .. n
    BY <1>1
  <2>2. IsList(m) /\ Len(m) = k - 1 /\ \A i \in 1 .. (k - 1) : m[i] = l[i]
    BY <1>1, <2>1, PrefixFacts DEF n
  <2>3. /\ l[k] = [key |-> l[k].key, ref |-> l[k].ref]
        /\ l[k].key \in {"sc_partition", "be_partition"}
    BY DEF GoodEntries, n
  <2>4. \A i \in 1 .. (k - 1) : l[i].key # l[k].key
    BY <1>1 DEF GoodEntries, n
  <2>5. \A i \in 1 .. Len(m) : m[i].key # l[k].key
    BY <2>2, <2>4
  <2>6. F[k] = NormalizeEntry(Acc(P, W, S, m), l[k], length)
    BY <1>3, <1>5
  <2>7. Append(m, l[k]) = Prefix(l, k)
    BY <1>1, PrefixFacts DEF n
  <2> HIDE DEF m
  <2>8. NormalizeEntry(Acc(P, W, S, m), l[k], length) = Acc(P, W, S, Append(m, l[k]))
    BY <2>2, <2>3, <2>5, NormalEntry
  <2>9. QED
    BY <2>1, <2>6, <2>7, <2>8
<1>6. n \in G
  <2>1. n \in 0 .. n
    BY <1>1
  <2> HIDE DEF G
  <2>2. QED
    BY <1>1, <1>4, <1>5, <2>1, Upwards
<1>7. Prefix(l, n) = l
  BY <1>1, PrefixFacts DEF n
<1>8. QED
  BY <1>3, <1>6, <1>7 DEF a

\* A normalized slice stays what it is.
LEMMA NormalSlice ==
    ASSUME NEW s, GoodSlice(s), NEW P, NEW W, NEW S, NEW E, NEW length
    PROVE  NormalizeSlice(Acc(P, W, S, E), s, length) = Acc(P, W, Append(S, s), s.entries)
<1> DEFINE r == EntriesDone([Acc(P, W, S, E) EXCEPT !.entries = <<>>], s.entries, length)
<1>1. [Acc(P, W, S, E) EXCEPT !.entries = <<>>] = Acc(P, W, S, <<>>)
  BY DEF Acc
<1>2. r = Acc(P, W, S, s.entries)
  BY <1>1, NormalEntries DEF GoodSlice
<1>3. NormalizeSlice(Acc(P, W, S, E), s, length) =
        [r EXCEPT !.slices = Append(@, [s EXCEPT !.entries = r.entries])]
  BY DEF GoodSlice, NormalizeSlice, EntriesDone
<1>4. r.entries = s.entries
  BY <1>2 DEF Acc
<1>5. [s EXCEPT !.entries = s.entries] = s
  BY DEF GoodSlice, IsMapping, Has
<1> HIDE DEF r
<1>6. [r EXCEPT !.slices = Append(@, s)] = Acc(P, W, Append(S, s), s.entries)
  <2>1. r.slices = S
    BY <1>2 DEF Acc
  <2>2. ASSUME NEW l PROVE [r EXCEPT !.slices = l] = Acc(P, W, l, s.entries)
    BY <1>2 DEF Acc
  <2>3. QED
    BY <2>1, <2>2
<1>7. QED
  BY <1>3, <1>4, <1>5, <1>6

\* The slices of a normalized window stay what they are.
LEMMA NormalSlices ==
    ASSUME NEW l, IsList(l), \A s \in Range(l) : GoodSlice(s), NEW P, NEW W, NEW E, NEW length
    PROVE  \E X : SlicesDone(Acc(P, W, <<>>, E), l, length) = Acc(P, W, l, X)
<1> DEFINE n == Len(l)
           a == Acc(P, W, <<>>, E)
<1>1. n \in Nat /\ \A k \in 1 .. n : GoodSlice(l[k])
  BY ListFacts
<1>2. PICK F : SlicesRun(F, a, l, length)
  BY SlicesFold
<1>3. /\ F[0] = a /\ F[n] = SlicesDone(a, l, length)
      /\ \A k \in 1 .. n : F[k] = NormalizeSlice(F[k - 1], l[k], length)
  BY <1>2 DEF SlicesRun
<1> HIDE DEF n, a
<1> DEFINE G == {k \in 0 .. n : \E X : F[k] = Acc(P, W, Prefix(l, k), X)}
<1>4. 0 \in G
  <2>1. F[0] = Acc(P, W, Prefix(l, 0), E)
    BY <1>3, PrefixFacts DEF a
  <2>2. QED
    BY <1>1, <2>1
<1>5. ASSUME NEW k \in 1 .. n, k - 1 \in G PROVE k \in G
  <2>1. PICK X : F[k - 1] = Acc(P, W, Prefix(l, k - 1), X)
    BY <1>5
  <2>2. NormalizeSlice(Acc(P, W, Prefix(l, k - 1), X), l[k], length)
          = Acc(P, W, Append(Prefix(l, k - 1), l[k]), l[k].entries)
    BY <1>1, NormalSlice
  <2>3. Append(Prefix(l, k - 1), l[k]) = Prefix(l, k)
    BY PrefixFacts DEF n
  <2>4. F[k] = Acc(P, W, Prefix(l, k), l[k].entries)
    BY <1>3, <2>1, <2>2, <2>3
  <2>5. k \in 0 .. n
    BY <1>1
  <2>6. QED
    BY <2>4, <2>5
<1>6. n \in G
  <2>1. n \in 0 .. n
    BY <1>1
  <2> HIDE DEF G
  <2>2. QED
    BY <1>1, <1>4, <1>5, <2>1, Upwards
<1>7. Prefix(l, n) = l
  BY PrefixFacts DEF n
<1>8. QED
  BY <1>3, <1>6, <1>7 DEF a

\* A normalized window stays what it is.
Walked(a, P, W) == \E X, Y : a = Acc(P, W, X, Y)

\* normalize_window appends a normalized window unchanged and adds no partition.
LEMMA NormalWindow ==
    ASSUME NEW w, GoodWindow(w), NEW P, NEW W, NEW S, NEW E
    PROVE  Walked(NormalizeWindow(Acc(P, W, S, E), w), P, Append(W, w))
<1> DEFINE a == Acc(P, W, S, E)
           l == SlicesOf(w)
           r == SlicesDone([a EXCEPT !.slices = <<>>], l, w.length)
<1>1. IsList(l) /\ \A s \in Range(l) : GoodSlice(s)
  BY GoodSlices
<1>2. [a EXCEPT !.slices = <<>>] = Acc(P, W, <<>>, E)
  BY DEF Acc
<1>3. PICK X : r = Acc(P, W, l, X)
  BY <1>1, <1>2, NormalSlices
<1>4. w.entries = <<>> /\ DOMAIN w \subseteq {"length", "slices", "cpu", "entries"} /\ ~Has(w, "cpu")
  BY DEF GoodWindow, Has
<1>5. WindowOk(w)
  <2>1. {w.entries[i].key : i \in DOMAIN w.entries} = {}
    BY <1>4
  <2>2. QED
    BY <1>4, <2>1 DEF WindowOk
<1> DEFINE v == IF Has(w, "slices") \/ l # <<>>
                THEN [length |-> w.length, entries |-> <<>>, slices |-> r.slices]
                ELSE [length |-> w.length, entries |-> <<>>]
<1>6. NormalizeWindow(a, w) = [r EXCEPT !.windows = Append(@, v)]
  BY <1>5 DEF NormalizeWindow, SlicesDone
<1>7. r.slices = l
  BY <1>3 DEF Acc
<1> HIDE DEF r
<1>8. v = w
  <2>1. CASE w = [length |-> w.length, entries |-> <<>>]
    <3>1. ~Has(w, "slices")
      BY <2>1 DEF Has
    <3>2. l = <<>>
      BY <1>4, <3>1 DEF SlicesOf
    <3>3. QED
      BY <2>1, <3>1, <3>2
  <2>2. CASE w = [length |-> w.length, entries |-> <<>>, slices |-> w.slices]
    <3>1. Has(w, "slices")
      BY <2>2 DEF Has
    <3>2. l = w.slices
      BY <3>1 DEF SlicesOf
    <3>3. v = [length |-> w.length, entries |-> <<>>, slices |-> w.slices]
      BY <1>7, <3>1, <3>2
    <3>4. QED
      BY <2>2, <3>3
  <2>3. QED
    BY <2>1, <2>2 DEF GoodWindow
<1> HIDE DEF v, l
<1>9. [r EXCEPT !.windows = Append(@, w)] = Acc(P, Append(W, w), l, X)
  <2>1. \A V : [Acc(P, W, l, X) EXCEPT !.windows = V] = Acc(P, V, l, X)
    BY DEF Acc
  <2>2. r.windows = W
    BY <1>3 DEF Acc
  <2>3. [r EXCEPT !.windows = Append(@, w)] = [Acc(P, W, l, X) EXCEPT !.windows = Append(W, w)]
    BY <1>3, <2>2
  <2>4. QED
    BY <2>1, <2>3
<1>10. QED
  BY <1>6, <1>8, <1>9 DEF Walked

\* The walk over a normal form comes back with its partitions and windows.
LEMMA NormalWalk ==
    ASSUME NEW c, IsList(c.partitions), \A p \in Range(c.partitions) : GoodPartition(p),
           IsList(c.windows), \A w \in Range(c.windows) : GoodWindow(w)
    PROVE  Walked(Walk(c), c.partitions, c.windows)
<1> DEFINE P == c.partitions
           W == c.windows
<1>1. /\ Len(P) \in Nat /\ \A k \in 1 .. Len(P) : GoodPartition(P[k])
      /\ Len(W) \in Nat /\ \A k \in 1 .. Len(W) : GoodWindow(W[k])
  BY ListFacts
<1>2. Walk(c) = WindowsDone(PartitionsDone(Start, P), W)
  BY DEF Walk, WindowsDone, PartitionsDone
<1>3. IsList(P) /\ IsList(W)
  OBVIOUS
<1> HIDE DEF P, W
<1>4. PartitionsDone(Start, P) = Acc(P, <<>>, <<>>, <<>>)
  <2>1. PICK F : PartitionsRun(F, Start, P)
    BY <1>3, PartitionsFold
  <2>2. /\ F[0] = Start /\ F[Len(P)] = PartitionsDone(Start, P)
        /\ \A k \in 1 .. Len(P) : F[k] = AddPartition(F[k - 1], P[k], <<>>)
    BY <2>1 DEF PartitionsRun
  <2> DEFINE G == {k \in 0 .. Len(P) : F[k] = Acc(Prefix(P, k), <<>>, <<>>, <<>>)}
  <2>3. 0 \in G
    BY <1>1, <1>3, <2>2, PrefixFacts DEF Acc, Start
  <2>4. ASSUME NEW k \in 1 .. Len(P), k - 1 \in G PROVE k \in G
    <3>1. F[k - 1] = Acc(Prefix(P, k - 1), <<>>, <<>>, <<>>)
      BY <2>4
    <3>2. AddPartition(Acc(Prefix(P, k - 1), <<>>, <<>>, <<>>), P[k], <<>>)
            = Acc(Append(Prefix(P, k - 1), P[k]), <<>>, <<>>, <<>>)
      BY <1>1, NormalPartition
    <3>3. Append(Prefix(P, k - 1), P[k]) = Prefix(P, k) /\ k \in 0 .. Len(P)
      BY <1>1, <1>3, PrefixFacts
    <3>4. QED
      BY <2>2, <3>1, <3>2, <3>3
  <2>5. Len(P) \in G
    <3>1. Len(P) \in 0 .. Len(P)
      BY <1>1
    <3> HIDE DEF G
    <3>2. QED
      BY <1>1, <2>3, <2>4, <3>1, Upwards
  <2>6. Prefix(P, Len(P)) = P
    BY <1>3, PrefixFacts
  <2>7. QED
    BY <2>2, <2>5, <2>6
<1> DEFINE a == Acc(P, <<>>, <<>>, <<>>)
<1>5. PICK F : WindowsRun(F, a, W)
  BY <1>3, WindowsFold
<1>6. /\ F[0] = a /\ F[Len(W)] = WindowsDone(a, W)
      /\ \A k \in 1 .. Len(W) : F[k] = NormalizeWindow(F[k - 1], W[k])
  BY <1>5 DEF WindowsRun
<1> HIDE DEF a
<1> DEFINE G == {k \in 0 .. Len(W) : \E X, Y : F[k] = Acc(P, Prefix(W, k), X, Y)}
<1>7. 0 \in G
  <2>1. F[0] = Acc(P, Prefix(W, 0), <<>>, <<>>)
    BY <1>3, <1>6, PrefixFacts DEF a
  <2>2. QED
    BY <1>1, <2>1
<1>8. ASSUME NEW k \in 1 .. Len(W), k - 1 \in G PROVE k \in G
  <2>1. PICK X, Y : F[k - 1] = Acc(P, Prefix(W, k - 1), X, Y)
    BY <1>8
  <2>2. PICK X2, Y2 : NormalizeWindow(Acc(P, Prefix(W, k - 1), X, Y), W[k])
                        = Acc(P, Append(Prefix(W, k - 1), W[k]), X2, Y2)
    <3>1. Walked(NormalizeWindow(Acc(P, Prefix(W, k - 1), X, Y), W[k]), P,
                 Append(Prefix(W, k - 1), W[k]))
      BY <1>1, NormalWindow
    <3>2. QED
      BY <3>1 DEF Walked
  <2>3. Append(Prefix(W, k - 1), W[k]) = Prefix(W, k) /\ k \in 0 .. Len(W)
    BY <1>1, <1>3, PrefixFacts
  <2>4. F[k] = Acc(P, Prefix(W, k), X2, Y2)
    BY <1>6, <2>1, <2>2, <2>3
  <2>5. QED
    BY <2>3, <2>4
<1>9. Len(W) \in G
  <2>1. Len(W) \in 0 .. Len(W)
    BY <1>1
  <2> HIDE DEF G
  <2>2. QED
    BY <1>1, <1>7, <1>8, <2>1, Upwards
<1>10. PICK X, Y : F[Len(W)] = Acc(P, Prefix(W, Len(W)), X, Y)
  BY <1>9
<1>11. Prefix(W, Len(W)) = W
  BY <1>3, PrefixFacts
<1>12. Walk(c) = Acc(P, W, X, Y)
  BY <1>2, <1>4, <1>6, <1>10, <1>11 DEF a
<1>13. QED
  BY <1>12 DEF P, W, Walked

\* What normalize() stores is accepted when it is loaded from a file, and comes
\* out unchanged.
THEOREM NormalFormIsFixedHolds == Spec => []NormalFormIsFixed
<1>1. ASSUME ConfigInv PROVE NormalFormIsFixed
  <2> DEFINE again == [config EXCEPT !.source = "regular"]
  <2> SUFFICES ASSUME status = "normalized"
               PROVE  NormalizeEnd(again) = "ok" /\ NormalForm(again) = again
    BY DEF NormalFormIsFixed
  <2>1. /\ Good(Walk(loaded)) /\ config = NormalForm(loaded)
        /\ config.partitions = Walk(loaded).partitions /\ config.windows = Walk(loaded).windows
        /\ Valid(config) /\ NormalizeEnd(loaded) = "ok"
    BY <1>1, ConfigFacts DEF WalkResult
  <2>2. config = [source |-> config.source, set_cwd |-> config.set_cwd,
                  demos_cpu |-> config.demos_cpu, partitions |-> config.partitions,
                  windows |-> config.windows]
    BY <2>1 DEF NormalForm
  <2>3. config.demos_cpu = DemosCpu(loaded) /\ CpuSetEnd(DemosCpu(loaded)) = "ok"
    BY <2>1 DEF NormalForm, NormalizeEnd
  <2>4. again = [source |-> "regular", set_cwd |-> config.set_cwd,
                 demos_cpu |-> config.demos_cpu, partitions |-> config.partitions,
                 windows |-> config.windows]
    BY <2>2
  <2> HIDE DEF again
  <2>5. /\ again.source = "regular" /\ again.set_cwd = config.set_cwd
        /\ again.demos_cpu = config.demos_cpu /\ again.partitions = config.partitions
        /\ again.windows = config.windows
        /\ DOMAIN again = TopKeys
    BY <2>4 DEF TopKeys
  <2>6. /\ Has(again, "set_cwd") /\ Has(again, "demos_cpu")
    BY <2>5 DEF Has, TopKeys
  <2>7. SetCwd(again) = again.set_cwd /\ DemosCpu(again) = again.demos_cpu /\ SetCwdOk(again)
    BY <2>5, <2>6 DEF SetCwd, DemosCpu, SetCwdOk
  <2>8. PICK X, Y : Walk(again) = Acc(again.partitions, again.windows, X, Y)
    <3>1. Walked(Walk(again), again.partitions, again.windows)
      BY <2>1, <2>5, NormalWalk DEF Good
    <3>2. QED
      BY <3>1 DEF Walked
  <2>9. /\ Walk(again).end = "ok" /\ Walk(again).partitions = again.partitions
        /\ Walk(again).windows = again.windows
    BY <2>8 DEF Acc
  <2>10. NormalForm(again) = again
    BY <2>4, <2>5, <2>7, <2>9 DEF NormalForm
  <2>11. Valid(again)
    <3> DEFINE V(W, P) == \A w \in DOMAIN W :
                             LET slices == SlicesOf(W[w])
                             IN  /\ \A s \in DOMAIN slices : \A e \in DOMAIN slices[s].entries :
                                        \E p \in DOMAIN P : P[p].name = slices[s].entries[e].ref
                                 /\ ~Overlap(slices)
    <3>1. Valid(config) <=> V(config.windows, config.partitions)
      BY Zenon DEF Valid
    <3>2. Valid(again) <=> V(again.windows, again.partitions)
      BY Zenon DEF Valid
    <3> HIDE DEF V
    <3>3. QED
      BY <2>1, <2>5, <3>1, <3>2
  <2>12. NormalizeEnd(again) = "ok"
    BY <2>3, <2>5, <2>7, <2>9, <2>10, <2>11 DEF NormalizeEnd
  <2>13. QED
    BY <2>10, <2>12
<1>2. QED
  BY <1>1, ConfigInvariance, PTL

===============================================================================
