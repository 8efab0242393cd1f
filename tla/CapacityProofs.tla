--------------------------- MODULE CapacityProofs ---------------------------
(***************************************************************************)
(* Counters and capacities. The proofs that the byte counter of a tier is  *)
(* the sum of what the tier holds, and that a tier is above its capacity   *)
(* only while all it holds is pinned, or a release that saw it so is on    *)
(* its way.                                                                *)
(*                                                                         *)
(* A sum over the keys changes by the difference of one term when one key  *)
(* changes; so a counter that gives back the old length and takes the new  *)
(* one stays exact, and its saturating subtraction never saturates.        *)
(*                                                                         *)
(* Every step that makes a tier heavier leaves the eviction of that tier   *)
(* on the lock holder's stack, and an eviction is only taken off it when   *)
(* the tier fits or nothing unpinned is left in it. The SSD write of a put *)
(* is the exception: it makes its room first, and what it was promised     *)
(* still holds when it comes to write.                                     *)
(***************************************************************************)
EXTENDS TieredCacheProofs, FiniteSetTheorems, WellFoundedInduction, NaturalsInduction

-----------------------------------------------------------------------------
(* Sums over a finite set, by induction on its size: the least size at     *)
(* which a claim fails is not zero, and the size below it shows the claim. *)

\* The partial sums of a function, as SumFunctionOnSet accumulates them.
Accumulates(it, f, D) ==
    it = [s \in D |-> IF s = {} THEN 0
                      ELSE f[CHOOSE x \in s : TRUE] + it[s \ {CHOOSE x \in s : TRUE}]]

\* A set of naturals that is not empty has a least element.
LEMMA LeastNatural ==
    ASSUME NEW T \in SUBSET Nat, T # {}
    PROVE  \E n \in T : \A m \in T : n <= m
  <1>1. \E n \in T : \A m \in T : ~ (<<m, n>> \in OpToRel(<, Nat))
    BY NatLessThanWellFounded, WFMin, Zenon
  <1>2. PICK n \in T : \A m \in T : ~ (<<m, n>> \in OpToRel(<, Nat))  BY <1>1
  <1>3. \A m \in T : <<m, n>> \in Nat \X Nat  OBVIOUS
  <1>4. \A m \in T : ~ (m < n)  BY <1>2, <1>3 DEF OpToRel
  <1> QED BY <1>4

\* A subset of S loses one element at each step of the sum.
LEMMA Smaller ==
    ASSUME NEW S, IsFiniteSet(S), NEW s \in SUBSET S, s # {}
    PROVE  LET x == CHOOSE y \in s : TRUE
           IN /\ x \in s /\ s \ {x} \in SUBSET S
              /\ Cardinality(s) \in Nat /\ Cardinality(s \ {x}) \in Nat
              /\ Cardinality(s \ {x}) = Cardinality(s) - 1
  <1> DEFINE x == CHOOSE y \in s : TRUE
  <1>1. x \in s  OBVIOUS
  <1>2. IsFiniteSet(s)  BY FS_Subset
  <1>3. Cardinality(s) \in Nat  BY <1>2, FS_CardinalityType
  <1>4. IsFiniteSet(s \ {x}) /\ Cardinality(s \ {x}) = Cardinality(s) - 1
    BY <1>1, <1>2, FS_RemoveElement
  <1>5. Cardinality(s \ {x}) \in Nat  BY <1>4, FS_CardinalityType
  <1> QED BY <1>1, <1>3, <1>4, <1>5

\* The partial sums up to sets of n elements.
UpTo(S, n) == {s \in SUBSET S : Cardinality(s) <= n}

LEMMA AccumulatesUpTo ==
    ASSUME NEW f, NEW S, IsFiniteSet(S), NEW n \in Nat
    PROVE  \E it : Accumulates(it, f, UpTo(S, n))
  <1> DEFINE Bad == {m \in Nat : ~ \E it : Accumulates(it, f, UpTo(S, m))}
  <1> SUFFICES ASSUME Bad # {} PROVE FALSE  OBVIOUS
  <1>1. PICK m \in Bad : \A j \in Bad : m <= j  BY LeastNatural
  <1> m \in Nat  OBVIOUS
  <1>2. CASE m = 0
    <2> DEFINE it == [s \in UpTo(S, 0) |-> 0]
    <2>1. \A s \in UpTo(S, 0) : s = {}
      BY FS_Subset, FS_CardinalityType, FS_EmptySet DEF UpTo
    <2>2. Accumulates(it, f, UpTo(S, 0))  BY <2>1 DEF Accumulates
    <2> QED BY <1>2, <2>2
  <1>3. CASE m > 0
    <2> DEFINE j == m - 1
    <2>1. j \in Nat /\ j \notin Bad /\ j + 1 = m  BY <1>1, <1>3
    <2>2. PICK it : Accumulates(it, f, UpTo(S, j))  BY <2>1
    <2> DEFINE G(s) == IF s = {} THEN 0
                       ELSE f[CHOOSE x \in s : TRUE] + it[s \ {CHOOSE x \in s : TRUE}]
               next == [s \in UpTo(S, m) |-> G(s)]
    <2>3. \A s \in UpTo(S, j) : it[s] = G(s) /\ s \in UpTo(S, m)
      <3> TAKE s \in UpTo(S, j)
      <3>1. it[s] = G(s)  BY <2>2 DEF Accumulates
      <3>2. Cardinality(s) \in Nat  BY FS_Subset, FS_CardinalityType DEF UpTo
      <3> QED BY <3>1, <3>2, <2>1 DEF UpTo
    <2>4. \A s \in UpTo(S, m) : s # {} => s \ {CHOOSE x \in s : TRUE} \in UpTo(S, j)
      BY <2>1, Smaller DEF UpTo
    <2>5. \A s \in UpTo(S, j) : next[s] = it[s]  BY <2>3
    <2> HIDE DEF next
    <2>6. \A s \in UpTo(S, m) :
             G(s) = IF s = {} THEN 0
                    ELSE f[CHOOSE x \in s : TRUE] + next[s \ {CHOOSE x \in s : TRUE}]
      BY <2>4, <2>5
    <2>7. Accumulates(next, f, UpTo(S, m))  BY <2>6 DEF next, Accumulates
    <2> QED BY <2>7
  <1> QED BY <1>2, <1>3

\* SumFunctionOnSet takes its terms one by one.
LEMMA SumUnfolds ==
    ASSUME NEW f, NEW S, IsFiniteSet(S)
    PROVE  \E it : Accumulates(it, f, SUBSET S) /\ SumFunctionOnSet(f, S) = it[S]
  <1>1. SumFunctionOnSet(f, S) = (CHOOSE it : Accumulates(it, f, SUBSET S))[S]
    BY DEF SumFunctionOnSet, FoldFunctionOnSet, MapThenFoldSet, Accumulates
  <1>2. \E it : Accumulates(it, f, SUBSET S)
    <2>1. Cardinality(S) \in Nat  BY FS_CardinalityType
    <2>2. UpTo(S, Cardinality(S)) = SUBSET S  BY FS_Subset DEF UpTo
    <2>3. \E it : Accumulates(it, f, UpTo(S, Cardinality(S)))  BY <2>1, AccumulatesUpTo
    <2> QED BY <2>2, <2>3
  <1> QED BY <1>1, <1>2

\* Two functions that differ at most at k: their sums differ by that term.
LEMMA OneTermApart ==
    ASSUME NEW S, IsFiniteSet(S), NEW f \in [S -> Nat], NEW g \in [S -> Nat], NEW k \in S,
           \A x \in S \ {k} : f[x] = g[x]
    PROVE  /\ SumFunctionOnSet(f, S) \in Nat /\ SumFunctionOnSet(g, S) \in Nat
           /\ SumFunctionOnSet(g, S) = SumFunctionOnSet(f, S) - f[k] + g[k]
  <1>1. PICK F : Accumulates(F, f, SUBSET S) /\ SumFunctionOnSet(f, S) = F[S]  BY SumUnfolds
  <1>2. PICK G : Accumulates(G, g, SUBSET S) /\ SumFunctionOnSet(g, S) = G[S]  BY SumUnfolds
  <1> DEFINE P(s) == /\ F[s] \in Nat /\ G[s] \in Nat
                     /\ G[s] = IF k \in s THEN F[s] - f[k] + g[k] ELSE F[s]
             Bad == {n \in Nat : \E s \in SUBSET S : Cardinality(s) = n /\ ~ P(s)}
  <1>3. \A s \in SUBSET S : Cardinality(s) \in Nat  BY FS_Subset, FS_CardinalityType
  <1>4. Bad = {}
    <2> SUFFICES ASSUME Bad # {} PROVE FALSE  OBVIOUS
    <2>1. PICK n \in Bad : \A m \in Bad : n <= m  BY LeastNatural
    <2>2. PICK s \in SUBSET S : Cardinality(s) = n /\ ~ P(s)  BY <2>1
    <2>3. CASE s = {}  BY <1>1, <1>2, <2>2, <2>3 DEF Accumulates
    <2>4. CASE s # {}
      <3> DEFINE x == CHOOSE y \in s : TRUE
      <3>1. /\ x \in s /\ s \ {x} \in SUBSET S /\ Cardinality(s \ {x}) \in Nat
            /\ Cardinality(s \ {x}) < n
        BY <2>2, <2>4, Smaller
      <3>2. P(s \ {x})  BY <2>1, <3>1
      <3>3. F[s] = f[x] + F[s \ {x}] /\ G[s] = g[x] + G[s \ {x}]
        BY <1>1, <1>2, <2>4 DEF Accumulates
      <3>4. f[x] \in Nat /\ g[x] \in Nat /\ f[k] \in Nat /\ g[k] \in Nat  BY <3>1
      <3>5. x # k => f[x] = g[x]  BY <3>1
      <3> HIDE DEF x
      <3>6. P(s)  BY <3>1, <3>2, <3>3, <3>4, <3>5
      <3> QED BY <3>6, <2>2
    <2> QED BY <2>3, <2>4
  <1>5. P(S)  BY <1>3, <1>4
  <1> QED BY <1>1, <1>2, <1>5

\* Changing one term changes the sum by the difference, and no term is larger
\* than the sum.
LEMMA SumChange ==
    ASSUME NEW S, IsFiniteSet(S), NEW f \in [S -> Nat], NEW g \in [S -> Nat], NEW k \in S,
           \A x \in S \ {k} : f[x] = g[x]
    PROVE  /\ SumFunctionOnSet(f, S) \in Nat
           /\ f[k] <= SumFunctionOnSet(f, S)
           /\ SumFunctionOnSet(g, S) = SumFunctionOnSet(f, S) - f[k] + g[k]
  <1> DEFINE h == [f EXCEPT ![k] = 0]
  <1>1. h \in [S -> Nat] /\ h[k] = 0 /\ \A x \in S \ {k} : f[x] = h[x]  OBVIOUS
  <1> HIDE DEF h
  <1>2. /\ SumFunctionOnSet(f, S) \in Nat
        /\ SumFunctionOnSet(g, S) = SumFunctionOnSet(f, S) - f[k] + g[k]
    BY OneTermApart
  <1>3. /\ SumFunctionOnSet(h, S) \in Nat
        /\ SumFunctionOnSet(h, S) = SumFunctionOnSet(f, S) - f[k] + h[k]
    BY <1>1, OneTermApart
  <1>4. f[k] \in Nat  OBVIOUS
  <1> QED BY <1>1, <1>2, <1>3, <1>4

\* The sum of nothing but zeros.
LEMMA SumOfZeros ==
    ASSUME NEW S, IsFiniteSet(S), NEW f \in [S -> Nat], \A x \in S : f[x] = 0
    PROVE  SumFunctionOnSet(f, S) = 0
  <1>1. PICK F : Accumulates(F, f, SUBSET S) /\ SumFunctionOnSet(f, S) = F[S]  BY SumUnfolds
  <1> DEFINE Bad == {n \in Nat : \E s \in SUBSET S : Cardinality(s) = n /\ F[s] # 0}
  <1>2. Cardinality(S) \in Nat  BY FS_CardinalityType
  <1> SUFFICES ASSUME Bad # {} PROVE FALSE  BY <1>1, <1>2
  <1>3. PICK n \in Bad : \A m \in Bad : n <= m  BY LeastNatural
  <1>4. PICK s \in SUBSET S : Cardinality(s) = n /\ F[s] # 0  BY <1>3
  <1>5. CASE s = {}  BY <1>1, <1>4, <1>5 DEF Accumulates
  <1>6. CASE s # {}
    <2> DEFINE x == CHOOSE y \in s : TRUE
    <2>1. /\ x \in s /\ s \ {x} \in SUBSET S /\ Cardinality(s \ {x}) \in Nat
          /\ Cardinality(s \ {x}) < n
      BY <1>4, <1>6, Smaller
    <2>2. F[s \ {x}] = 0  BY <1>3, <2>1
    <2>3. F[s] = f[x] + F[s \ {x}]  BY <1>1, <1>6 DEF Accumulates
    <2> QED BY <1>4, <2>1, <2>2, <2>3
  <1> QED BY <1>5, <1>6

-----------------------------------------------------------------------------
(* Counters.                                                               *)

\* What the counters of a cache record should add up.
MemoryLens(c) == [k \in Keys |-> LenOf(c.memory[k])]
PmemLens(c) == [k \in Keys |-> LenOf(c.pmem[k])]
IndexLens(c) == [k \in Keys |-> IndexedLen(c, k)]

Exact(c) ==
    /\ c.memory_bytes = SumFunctionOnSet(MemoryLens(c), Keys)
    /\ c.pmem_bytes = SumFunctionOnSet(PmemLens(c), Keys)
    /\ c.ssd_bytes = SumFunctionOnSet(IndexLens(c), Keys)

\* The lengths are naturals.
LEMMA LensType ==
    ASSUME NEW c \in Inner
    PROVE  /\ MemoryLens(c) \in [Keys -> Nat] /\ PmemLens(c) \in [Keys -> Nat]
           /\ IndexLens(c) \in [Keys -> Nat]
  BY Lengths DEF MemoryLens, PmemLens, IndexLens

\* A counter that gives back the old length of k and takes the new one stays
\* exact: the saturating subtraction never saturates.
LEMMA CounterKept ==
    ASSUME NEW f \in [Keys -> Nat], NEW g \in [Keys -> Nat], NEW k \in Keys,
           \A x \in Keys \ {k} : f[x] = g[x]
    PROVE  Monus(SumFunctionOnSet(f, Keys), f[k]) + g[k] = SumFunctionOnSet(g, Keys)
  <1>1. /\ SumFunctionOnSet(f, Keys) \in Nat /\ f[k] <= SumFunctionOnSet(f, Keys)
        /\ SumFunctionOnSet(g, Keys) = SumFunctionOnSet(f, Keys) - f[k] + g[k]
    BY SumChange, KeysAssumption
  <1>2. f[k] \in Nat /\ g[k] \in Nat  OBVIOUS
  <1> QED BY <1>1, <1>2 DEF Monus

\* What holds the same values weighs the same.
LEMMA SameLens ==
    ASSUME NEW c, NEW d
    PROVE  /\ d.memory = c.memory => MemoryLens(d) = MemoryLens(c)
           /\ d.pmem = c.pmem => PmemLens(d) = PmemLens(c)
           /\ d.disk_index = c.disk_index => IndexLens(d) = IndexLens(c)
  BY DEF MemoryLens, PmemLens, IndexLens, IndexedLen

\* A step that changes no tier.
LEMMA ExactSame ==
    ASSUME NEW c, NEW d, Exact(c), d.memory = c.memory, d.memory_bytes = c.memory_bytes,
           d.pmem = c.pmem, d.pmem_bytes = c.pmem_bytes,
           d.disk_index = c.disk_index, d.ssd_bytes = c.ssd_bytes
    PROVE  Exact(d)
  BY SameLens DEF Exact

\* One entry of memory changes, and the counter with it.
LEMMA ExactMemory ==
    ASSUME NEW c \in Inner, NEW d \in Inner, NEW k \in Keys, NEW v \in Values \cup {None}, Exact(c),
           d.memory = [c.memory EXCEPT ![k] = v],
           d.memory_bytes = Monus(c.memory_bytes, LenOf(c.memory[k])) + LenOf(v),
           SamePmem(c, d), SameIndex(c, d)
    PROVE  Exact(d)
  <1>1. \A x \in Keys : d.memory[x] = IF x = k THEN v ELSE c.memory[x]  BY DEF Inner
  <1>2. /\ MemoryLens(c)[k] = LenOf(c.memory[k]) /\ MemoryLens(d)[k] = LenOf(v)
        /\ \A x \in Keys \ {k} : MemoryLens(c)[x] = MemoryLens(d)[x]
    BY <1>1 DEF MemoryLens
  <1>3. d.memory_bytes = SumFunctionOnSet(MemoryLens(d), Keys)
    <2>1. Monus(SumFunctionOnSet(MemoryLens(c), Keys), MemoryLens(c)[k]) + MemoryLens(d)[k]
            = SumFunctionOnSet(MemoryLens(d), Keys)
      BY <1>2, LensType, CounterKept
    <2> QED BY <1>2, <2>1 DEF Exact
  <1> QED BY <1>3, SameLens DEF Exact, SamePmem, SameIndex

\* One entry of PMEM.
LEMMA ExactPmem ==
    ASSUME NEW c \in Inner, NEW d \in Inner, NEW k \in Keys, NEW v \in Values \cup {None}, Exact(c),
           d.pmem = [c.pmem EXCEPT ![k] = v],
           d.pmem_bytes = Monus(c.pmem_bytes, LenOf(c.pmem[k])) + LenOf(v),
           SameMemory(c, d), SameIndex(c, d)
    PROVE  Exact(d)
  <1>1. \A x \in Keys : d.pmem[x] = IF x = k THEN v ELSE c.pmem[x]  BY DEF Inner
  <1>2. /\ PmemLens(c)[k] = LenOf(c.pmem[k]) /\ PmemLens(d)[k] = LenOf(v)
        /\ \A x \in Keys \ {k} : PmemLens(c)[x] = PmemLens(d)[x]
    BY <1>1 DEF PmemLens
  <1>3. d.pmem_bytes = SumFunctionOnSet(PmemLens(d), Keys)
    <2>1. Monus(SumFunctionOnSet(PmemLens(c), Keys), PmemLens(c)[k]) + PmemLens(d)[k]
            = SumFunctionOnSet(PmemLens(d), Keys)
      BY <1>2, LensType, CounterKept
    <2> QED BY <1>2, <2>1 DEF Exact
  <1> QED BY <1>3, SameLens DEF Exact, SameMemory, SameIndex

\* One entry of the SSD index.
LEMMA ExactIndex ==
    ASSUME NEW c \in Inner, NEW d \in Inner, NEW k \in Keys, NEW n \in Nat, Exact(c),
           \A x \in Keys \ {k} : d.disk_index[x] = c.disk_index[x],
           IndexedLen(d, k) = n,
           d.ssd_bytes = Monus(c.ssd_bytes, IndexedLen(c, k)) + n,
           SameMemory(c, d), SamePmem(c, d)
    PROVE  Exact(d)
  <1>1. /\ IndexLens(c)[k] = IndexedLen(c, k) /\ IndexLens(d)[k] = n
        /\ \A x \in Keys \ {k} : IndexLens(c)[x] = IndexLens(d)[x]
    BY DEF IndexLens, IndexedLen
  <1>2. d.ssd_bytes = SumFunctionOnSet(IndexLens(d), Keys)
    <2>1. Monus(SumFunctionOnSet(IndexLens(c), Keys), IndexLens(c)[k]) + IndexLens(d)[k]
            = SumFunctionOnSet(IndexLens(d), Keys)
      BY <1>1, LensType, CounterKept
    <2> QED BY <1>1, <2>1 DEF Exact
  <1> QED BY <1>2, SameLens DEF Exact, SameMemory, SamePmem

\* Taking off and adding nothing.
LEMMA MonusPlusNothing ==
    ASSUME NEW a \in Nat, NEW b \in Nat
    PROVE  Monus(a, b) = Monus(a, b) + LenOf(None) /\ Monus(a, b) = Monus(a, b) + 0
  BY MonusFacts DEF LenOf

-----------------------------------------------------------------------------
\* The operators that move a value keep the counters exact.
LEMMA MakeResidentExact ==
    ASSUME NEW c \in Inner, NEW k \in Keys, NEW v \in Values, Exact(c)
    PROVE  MakeResident(c, k, v) \in Inner /\ Exact(MakeResident(c, k, v))
  <1> DEFINE d == MakeResident(c, k, v)
  <1>1. d \in Inner /\ SamePmem(c, d) /\ SameSsd(c, d)  BY MakeResidentFields
  <1>2. /\ d.memory_bytes = Monus(c.memory_bytes, LenOf(c.memory[k])) + LenOf(v)
        /\ d.memory = [c.memory EXCEPT ![k] = v]
    <2>1. Noted(c, k) \in Inner /\ SameMemory(c, Noted(c, k))  BY NotedFields
    <2>2. LenOf(v) = Size[v]  BY InnerAssumption DEF LenOf
    <2> QED BY <2>1, <2>2 DEF MakeResident, SameMemory, Inner
  <1> HIDE DEF d
  <1>3. Exact(d)  BY <1>1, <1>2, ExactMemory DEF SameSsd
  <1> QED BY <1>1, <1>3 DEF d

\* take_resident
LEMMA TakeResidentExact ==
    ASSUME NEW c \in Inner, NEW k \in Keys, Exact(c)
    PROVE  TakeResident(c, k) \in Inner /\ Exact(TakeResident(c, k))
  <1> DEFINE d == TakeResident(c, k)
  <1>1. /\ d \in Inner /\ SamePmem(c, d) /\ SameSsd(c, d) /\ d.memory = [c.memory EXCEPT ![k] = None]
        /\ d.memory_bytes = Monus(c.memory_bytes, LenOf(c.memory[k]))
    BY TakeResidentFields
  <1>2. c.memory_bytes \in Nat /\ LenOf(c.memory[k]) \in Nat  BY Lengths DEF Inner
  <1> HIDE DEF d
  <1>3. Exact(d)  BY <1>1, <1>2, MonusPlusNothing, ExactMemory DEF SameSsd
  <1> QED BY <1>1, <1>3 DEF d

\* make_pmem_resident
LEMMA MakePmemResidentExact ==
    ASSUME NEW c \in Inner, NEW k \in Keys, NEW v \in Values, Exact(c)
    PROVE  MakePmemResident(c, k, v) \in Inner /\ Exact(MakePmemResident(c, k, v))
  <1> DEFINE d == MakePmemResident(c, k, v)
  <1>1. d \in Inner /\ SameMemory(c, d) /\ SameSsd(c, d)  BY MakePmemResidentFields
  <1>2. /\ d.pmem_bytes = Monus(c.pmem_bytes, LenOf(c.pmem[k])) + LenOf(v)
        /\ d.pmem = [c.pmem EXCEPT ![k] = v]
    <2>1. LenOf(v) = Size[v]  BY InnerAssumption DEF LenOf
    <2> QED BY <2>1 DEF MakePmemResident, Inner
  <1> HIDE DEF d
  <1>3. Exact(d)  BY <1>1, <1>2, ExactPmem DEF SameSsd
  <1> QED BY <1>1, <1>3 DEF d

\* take_pmem_resident
LEMMA TakePmemResidentExact ==
    ASSUME NEW c \in Inner, NEW k \in Keys, Exact(c)
    PROVE  TakePmemResident(c, k) \in Inner /\ Exact(TakePmemResident(c, k))
  <1> DEFINE d == TakePmemResident(c, k)
  <1>1. /\ d \in Inner /\ SameMemory(c, d) /\ SameSsd(c, d) /\ d.pmem = [c.pmem EXCEPT ![k] = None]
        /\ d.pmem_bytes = Monus(c.pmem_bytes, LenOf(c.pmem[k]))
    BY TakePmemResidentFields
  <1>2. c.pmem_bytes \in Nat /\ LenOf(c.pmem[k]) \in Nat  BY Lengths DEF Inner
  <1> HIDE DEF d
  <1>3. Exact(d)  BY <1>1, <1>2, MonusPlusNothing, ExactPmem DEF SameSsd
  <1> QED BY <1>1, <1>3 DEF d

\* The index after a block was stored.
LEMMA IndexInsertExact ==
    ASSUME NEW c \in Inner, NEW k \in Keys, NEW v \in Values, Exact(c)
    PROVE  IndexInsert(c, k, v) \in Inner /\ Exact(IndexInsert(c, k, v))
  <1> DEFINE d == IndexInsert(c, k, v)
  <1>1. /\ d \in Inner /\ SameMemory(c, d) /\ SamePmem(c, d)
        /\ d.disk_index = [c.disk_index EXCEPT ![k] = BlockLen[v]]
        /\ d.ssd_bytes = Monus(c.ssd_bytes, IndexedLen(c, k)) + BlockLen[v]
    BY IndexInsertFields
  <1> HIDE DEF d
  <1>2. BlockLen[v] \in Nat /\ BlockLen[v] # None  BY InnerAssumption
  <1>3. \A x \in Keys : d.disk_index[x] = IF x = k THEN BlockLen[v] ELSE c.disk_index[x]
    BY <1>1 DEF Inner
  <1>4. IndexedLen(d, k) = BlockLen[v]  BY <1>2, <1>3 DEF IndexedLen
  <1>5. Exact(d)  BY <1>1, <1>2, <1>3, <1>4, ExactIndex
  <1> QED BY <1>1, <1>5 DEF d

\* The index after a block was given up.
LEMMA IndexRemoveExact ==
    ASSUME NEW c \in Inner, NEW k \in Keys, Exact(c)
    PROVE  IndexRemove(c, k) \in Inner /\ Exact(IndexRemove(c, k))
  <1> DEFINE d == IndexRemove(c, k)
  <1>1. /\ d \in Inner /\ SameMemory(c, d) /\ SamePmem(c, d)
        /\ d.disk_index = [c.disk_index EXCEPT ![k] = None]
        /\ d.ssd_bytes = Monus(c.ssd_bytes, IndexedLen(c, k))
    BY IndexRemoveFields
  <1>2. c.ssd_bytes \in Nat /\ IndexedLen(c, k) \in Nat  BY Lengths DEF Inner
  <1> HIDE DEF d
  <1>3. \A x \in Keys : d.disk_index[x] = IF x = k THEN None ELSE c.disk_index[x]
    BY <1>1 DEF Inner
  <1>4. IndexedLen(d, k) = 0  BY <1>3 DEF IndexedLen
  <1>5. d.ssd_bytes = Monus(c.ssd_bytes, IndexedLen(c, k)) + 0  BY <1>1, <1>2, MonusPlusNothing
  <1>6. Exact(d)
    <2>1. 0 \in Nat /\ \A x \in Keys \ {k} : d.disk_index[x] = c.disk_index[x]  BY <1>3
    <2> QED BY <1>1, <1>4, <1>5, <2>1, ExactIndex, Zenon
  <1> QED BY <1>1, <1>6 DEF d

-----------------------------------------------------------------------------
\* Operators that touch no tier and no counter.
LEMMA NotedExact ==
    ASSUME NEW c \in Inner, NEW k \in Keys, Exact(c)
    PROVE  Noted(c, k) \in Inner /\ Exact(Noted(c, k))
  <1> DEFINE d == Noted(c, k)
  <1>1. d \in Inner /\ SameMemory(c, d) /\ SamePmem(c, d) /\ SameSsd(c, d)  BY NotedFields
  <1> HIDE DEF d
  <1>2. Exact(d)  BY <1>1, ExactSame DEF SameMemory, SamePmem, SameSsd, SameIndex
  <1> QED BY <1>1, <1>2 DEF d

\* record_metadata, record_hit_metadata, forget_metadata_of
LEMMA MetadataExact ==
    ASSUME NEW c \in Inner, NEW k \in Keys, Exact(c)
    PROVE  /\ RecordMetadata(c, k) \in Inner /\ Exact(RecordMetadata(c, k))
           /\ RecordHit(c, k) \in Inner /\ Exact(RecordHit(c, k))
           /\ ForgetMetadata(c, k) \in Inner /\ Exact(ForgetMetadata(c, k))
           /\ ForgetMetadataUnlessResident(c, k) \in Inner
           /\ Exact(ForgetMetadataUnlessResident(c, k))
  <1>1. RecordMetadata(c, k) \in Inner /\ Exact(RecordMetadata(c, k))
    <2> DEFINE d == RecordMetadata(c, k)
    <2>1. d \in Inner /\ SameMemory(c, d) /\ SamePmem(c, d) /\ SameSsd(c, d)
      BY RecordMetadataFields
    <2> HIDE DEF d
    <2>2. Exact(d)  BY <2>1, ExactSame DEF SameMemory, SamePmem, SameSsd, SameIndex
    <2> QED BY <2>1, <2>2 DEF d
  <1>2. RecordHit(c, k) \in Inner /\ Exact(RecordHit(c, k))
    <2> DEFINE d == RecordHit(c, k)
    <2>1. d \in Inner /\ SameMemory(c, d) /\ SamePmem(c, d) /\ SameSsd(c, d)  BY RecordHitFields
    <2> HIDE DEF d
    <2>2. Exact(d)  BY <2>1, ExactSame DEF SameMemory, SamePmem, SameSsd, SameIndex
    <2> QED BY <2>1, <2>2 DEF d
  <1>3. ForgetMetadata(c, k) \in Inner /\ Exact(ForgetMetadata(c, k))
    <2> DEFINE d == ForgetMetadata(c, k)
    <2>1. d \in Inner /\ SameMemory(c, d) /\ SamePmem(c, d) /\ SameSsd(c, d)
      BY ForgetMetadataFields
    <2> HIDE DEF d
    <2>2. Exact(d)  BY <2>1, ExactSame DEF SameMemory, SamePmem, SameSsd, SameIndex
    <2> QED BY <2>1, <2>2 DEF d
  <1> QED BY <1>1, <1>2, <1>3 DEF ForgetMetadataUnlessResident

\* A key leaves an eviction order.
LEMMA UnlistedExact ==
    ASSUME NEW c \in Inner, NEW k \in Keys, Exact(c)
    PROVE  /\ [c EXCEPT !.memory_order = @ \ {k}] \in Inner
           /\ Exact([c EXCEPT !.memory_order = @ \ {k}])
           /\ [c EXCEPT !.pmem_order = @ \ {k}] \in Inner
           /\ Exact([c EXCEPT !.pmem_order = @ \ {k}])
           /\ [c EXCEPT !.memory_order = @ \ {k}, !.pmem_order = @ \ {k}] \in Inner
           /\ Exact([c EXCEPT !.memory_order = @ \ {k}, !.pmem_order = @ \ {k}])
  <1> DEFINE m == [c EXCEPT !.memory_order = @ \ {k}]
             p == [c EXCEPT !.pmem_order = @ \ {k}]
             b == [c EXCEPT !.memory_order = @ \ {k}, !.pmem_order = @ \ {k}]
  <1>1. m \in Inner /\ p \in Inner /\ b \in Inner  BY DEF Inner
  <1>2. \A d \in {m, p, b} :
           /\ d.memory = c.memory /\ d.memory_bytes = c.memory_bytes
           /\ d.pmem = c.pmem /\ d.pmem_bytes = c.pmem_bytes
           /\ d.disk_index = c.disk_index /\ d.ssd_bytes = c.ssd_bytes
    BY DEF Inner
  <1> HIDE DEF m, p, b
  <1>3. Exact(m) /\ Exact(p) /\ Exact(b)  BY <1>2, ExactSame
  <1> QED BY <1>1, <1>3 DEF m, p, b

\* Reads and writes of blocks.
LEMMA BlockExact ==
    ASSUME NEW c \in Inner, NEW k \in Keys, Exact(c)
    PROVE  /\ \A v \in Values \cup {None} :
                WriteSsdBlock(c, k, v) \in Inner /\ Exact(WriteSsdBlock(c, k, v))
           /\ \A ok \in BOOLEAN :
                DeleteSsdBlock(c, k, ok) \in Inner /\ Exact(DeleteSsdBlock(c, k, ok))
  <1>1. ASSUME NEW v \in Values \cup {None}
        PROVE  WriteSsdBlock(c, k, v) \in Inner /\ Exact(WriteSsdBlock(c, k, v))
    <2> DEFINE d == WriteSsdBlock(c, k, v)
    <2>1. d \in Inner /\ SameMemory(c, d) /\ SamePmem(c, d) /\ SameIndex(c, d)
      BY WriteSsdBlockFields
    <2> HIDE DEF d
    <2>2. Exact(d)  BY <2>1, ExactSame DEF SameMemory, SamePmem, SameIndex
    <2> QED BY <2>1, <2>2 DEF d
  <1>2. ASSUME NEW ok \in BOOLEAN
        PROVE  DeleteSsdBlock(c, k, ok) \in Inner /\ Exact(DeleteSsdBlock(c, k, ok))
    <2> DEFINE d == DeleteSsdBlock(c, k, ok)
    <2>1. d \in Inner /\ SameMemory(c, d) /\ SamePmem(c, d) /\ SameIndex(c, d)
      BY DeleteSsdBlockFields
    <2> HIDE DEF d
    <2>2. Exact(d)  BY <2>1, ExactSame DEF SameMemory, SamePmem, SameIndex
    <2> QED BY <2>1, <2>2 DEF d
  <1> QED BY <1>1, <1>2

\* The removals of a key from several tiers.
LEMMA RemovalsExact ==
    ASSUME NEW c \in Inner, NEW k \in Keys, Exact(c)
    PROVE  /\ Exact(DropStaleMemory(c, k)) /\ Exact(DropStalePmem(c, k))
           /\ Exact(InvalidateMemoryOnly(c, k))
           /\ \A ok \in BOOLEAN :
                Exact(RemoveExpiredEntry(c, k, ok)) /\ Exact(InvalidateKey(c, k, ok))
  <1>1. Exact(DropStaleMemory(c, k))
    BY TakeResidentExact, UnlistedExact DEF DropStaleMemory
  <1>2. Exact(DropStalePmem(c, k))
    BY NotedExact, TakePmemResidentExact, UnlistedExact DEF DropStalePmem
  <1> DEFINE upper == TakePmemResident(TakeResident(c, k), k)
  <1>3. upper \in Inner /\ Exact(upper)  BY TakeResidentExact, TakePmemResidentExact
  <1>4. ASSUME NEW ok \in BOOLEAN PROVE Exact(RemoveExpiredEntry(c, k, ok))
    <2> DEFINE lower == DeleteSsdBlock(IndexRemove(upper, k), k, ok)
    <2> HIDE DEF upper
    <2>1. IndexRemove(upper, k) \in Inner /\ Exact(IndexRemove(upper, k))
      BY <1>3, IndexRemoveExact
    <2>2. lower \in Inner /\ Exact(lower)  BY <2>1, BlockExact
    <2> HIDE DEF lower
    <2>3. Exact(ForgetMetadata([lower EXCEPT !.memory_order = @ \ {k}, !.pmem_order = @ \ {k}], k))
      BY <2>2, UnlistedExact, MetadataExact
    <2> QED BY <2>3 DEF RemoveExpiredEntry, upper, lower
  <1>5. ASSUME NEW ok \in BOOLEAN PROVE Exact(InvalidateKey(c, k, ok))
    <2> DEFINE above == [TakeResident(c, k) EXCEPT !.memory_order = @ \ {k}]
               taken == TakePmemResident(IndexRemove(above, k), k)
               all == [taken EXCEPT !.pmem_order = @ \ {k}]
    <2>1. above \in Inner /\ Exact(above)  BY TakeResidentExact, UnlistedExact
    <2> HIDE DEF above
    <2>2. taken \in Inner /\ Exact(taken)  BY <2>1, IndexRemoveExact, TakePmemResidentExact
    <2> HIDE DEF taken
    <2>3. all \in Inner /\ Exact(all)  BY <2>2, UnlistedExact
    <2> HIDE DEF all
    <2>4. Exact(DeleteSsdBlock(ForgetMetadataUnlessResident(all, k), k, ok))
      BY <2>3, MetadataExact, BlockExact
    <2> QED BY <2>4 DEF InvalidateKey, above, taken, all
  <1> QED BY <1>1, <1>2, <1>3, <1>4, <1>5 DEF InvalidateMemoryOnly

\* An empty cache, and one whose volatile tiers were emptied.
LEMMA EmptiedExact ==
    ASSUME NEW d \in Inner
    PROVE  /\ NothingIn(d) => Exact(d)
           /\ \A c \in Inner : Exact(c) /\ SameIndex(c, d) /\ d.memory_bytes = 0 /\ d.pmem_bytes = 0
                 /\ (\A k \in Keys : d.memory[k] = None /\ d.pmem[k] = None) => Exact(d)
  <1>1. (\A k \in Keys : d.memory[k] = None) => SumFunctionOnSet(MemoryLens(d), Keys) = 0
    BY SumOfZeros, KeysAssumption, LensType DEF MemoryLens, LenOf
  <1>2. (\A k \in Keys : d.pmem[k] = None) => SumFunctionOnSet(PmemLens(d), Keys) = 0
    BY SumOfZeros, KeysAssumption, LensType DEF PmemLens, LenOf
  <1>3. (\A k \in Keys : d.disk_index[k] = None) => SumFunctionOnSet(IndexLens(d), Keys) = 0
    BY SumOfZeros, KeysAssumption, LensType DEF IndexLens, IndexedLen
  <1>4. \A c : SameIndex(c, d) => IndexLens(d) = IndexLens(c)  BY SameLens DEF SameIndex
  <1> QED BY <1>1, <1>2, <1>3, <1>4 DEF Exact, NothingIn, SameIndex

-----------------------------------------------------------------------------
(* The actions.                                                            *)

\* The answers of the store are answers.
LEMMA AnswersAreBoolean == \A fault : Ok(fault) \subseteq BOOLEAN
  BY DEF Ok

\* Every step of the lock holder keeps the counters exact.
LEMMA ExactLockHolder ==
    ASSUME Shape, Exact(cache), LockHolder
    PROVE  Exact(cache')
  <1>0. cache \in Inner  BY DEF Shape, Tidy
  <1>1. CASE EvictMemory
    <2>1. ASSUME NEW k \in Keys
          PROVE  Exact([TakeResident(cache, k) EXCEPT !.memory_order = @ \ {k}])
      BY <1>0, TakeResidentExact, UnlistedExact
    <2>2. OnOffer(cache.memory_order) \subseteq Keys  BY <1>0 DEF OnOffer, Inner
    <2> QED BY <1>1, <2>1, <2>2 DEF EvictMemory, Then
  <1>2. CASE DemoteMemory  BY <1>2, DemoteMemoryEffect
  <1>3. CASE PutPmem
    <2> DEFINE k == todo[1].key
               v == todo[1].val
    <2>1. k \in Keys /\ v \in Values  BY <1>3, PutPmemEffect
    <2>2. Head(todo) = todo[1]  BY <1>3, TopFacts DEF PutPmem
    <2>3. Noted(cache, k) \in Inner /\ Exact(Noted(cache, k))  BY <1>0, <2>1, NotedExact
    <2>4. Exact(MakePmemResident(Noted(cache, k), k, v))  BY <2>1, <2>3, MakePmemResidentExact
    <2> QED BY <1>3, <2>2, <2>3, <2>4 DEF PutPmem, Then
  <1>4. CASE EvictPmem
    <2>1. ASSUME NEW k \in Keys
          PROVE  Exact([TakePmemResident(cache, k) EXCEPT !.pmem_order = @ \ {k}])
      BY <1>0, TakePmemResidentExact, UnlistedExact
    <2>2. OnOffer(cache.pmem_order) \subseteq Keys  BY <1>0 DEF OnOffer, Inner
    <2> QED BY <1>4, <2>1, <2>2 DEF EvictPmem, Then
  <1>5. CASE Forget
    <2>1. Head(todo).key \in Keys  BY <1>5, ForgetEffect, TopFacts DEF Forget
    <2> QED BY <1>0, <1>5, <2>1, MetadataExact DEF Forget, Then
  <1>6. CASE SsdBypass  BY <1>6, SsdBypassEffect
  <1>7. CASE EvictSsd
    <2>1. ASSUME NEW k \in Keys, NEW ok \in BOOLEAN
          PROVE  Exact(DeleteSsdBlock(ForgetMetadataUnlessResident(IndexRemove(cache, k), k), k, ok))
      BY <1>0, IndexRemoveExact, MetadataExact, BlockExact
    <2>2. OnOffer(cache.disk_order) \subseteq Keys  BY <1>0 DEF OnOffer, Inner
    <2>3. CASE cache' = cache  BY <2>3
    <2>4. CASE cache' # cache
      <3>1. PICK k \in OnOffer(cache.disk_order), ok \in Ok("ssdDelete") :
               cache' = DeleteSsdBlock(ForgetMetadataUnlessResident(IndexRemove(cache, k), k), k, ok)
        BY <1>7, <2>4 DEF EvictSsd, Then
      <3>2. k \in Keys /\ ok \in BOOLEAN  BY <2>2, AnswersAreBoolean
      <3> QED BY <2>1, <3>1, <3>2
    <2> QED BY <2>3, <2>4
  <1>8. CASE WriteBypass
    <2> DEFINE k == todo[1].key
               v == todo[1].val
    <2>1. k \in Keys /\ v \in Values  BY <1>8, WriteBypassEffect
    <2>2. Head(todo) = todo[1]  BY <1>8, TopFacts DEF WriteBypass
    <2>3. Leftovers(k, v) \subseteq Values \cup {None}  BY <1>0, <2>1 DEF Leftovers, Inner
    <2>4. \A w \in Values \cup {None} :
             WriteSsdBlock(cache, k, w) \in Inner /\ Exact(WriteSsdBlock(cache, k, w))
      BY <1>0, <2>1, BlockExact
    <2>5. \A ok \in BOOLEAN : Exact(DeleteSsdBlock(WriteSsdBlock(cache, k, v), k, ok))
      BY <2>1, <2>4, BlockExact
    <2>6. Exact(IndexInsert(WriteSsdBlock(cache, k, v), k, v))  BY <2>1, <2>4, IndexInsertExact
    <2> QED BY <1>8, <2>2, <2>3, <2>4, <2>5, <2>6, AnswersAreBoolean DEF WriteBypass, Then
  <1>9. CASE Sweep
    <2>1. \A k \in Keys, ok \in BOOLEAN : Exact(RemoveExpiredEntry(cache, k, ok))
      BY <1>0, RemovalsExact
    <2>2. cache.memory_order \cup cache.pmem_order \cup cache.disk_order \subseteq Keys
      BY <1>0 DEF Inner
    <2> QED BY <1>9, <2>1, <2>2, AnswersAreBoolean DEF Sweep, Then
  <1>10. CASE PutMemory
    <2> DEFINE k == req.key
               v == req.val
               c == RecordMetadata(cache, k)
    <2>1. k \in Keys /\ v \in Values  BY <1>10, PutMemoryEffect
    <2>2. c \in Inner /\ Exact(c)  BY <1>0, <2>1, MetadataExact
    <2> HIDE DEF c
    <2>3. Exact(MakeResident(c, k, v)) /\ Exact(RecordMetadata(c, k))
      BY <2>1, <2>2, MakeResidentExact, MetadataExact
    <2>4. Exact(DropStaleMemory(cache, k))  BY <1>0, <2>1, RemovalsExact
    <2> QED BY <1>10, <2>2, <2>3, <2>4 DEF PutMemory, Then, c
  <1>11. CASE PutPmemPart
    <2> DEFINE k == req.key
    <2>1. k \in Keys  BY <1>11, PutPmemPartEffect
    <2>2. Exact(RecordMetadata(cache, k))  BY <1>0, <2>1, MetadataExact
    <2>3. Exact(DropStalePmem(cache, k))  BY <1>0, <2>1, RemovalsExact
    <2> QED BY <1>11, <2>2, <2>3 DEF PutPmemPart, Then
  <1>12. CASE PutSsd  BY <1>12, PutSsdEffect
  <1>13. CASE MakeRoom  BY <1>13, MakeRoomEffect
  <1>14. CASE WriteSsd
    <2> DEFINE k == req.key
               v == req.val
    <2>1. k \in Keys /\ v \in Values  BY <1>14, PutFacts DEF WriteSsd, PutSteps
    <2>2. Leftovers(k, v) \subseteq Values \cup {None}  BY <1>0, <2>1 DEF Leftovers, Inner
    <2>3. \A w \in Values \cup {None} :
             WriteSsdBlock(cache, k, w) \in Inner /\ Exact(WriteSsdBlock(cache, k, w))
      BY <1>0, <2>1, BlockExact
    <2>4. Exact(RecordMetadata(IndexInsert(WriteSsdBlock(cache, k, v), k, v), k))
      BY <2>1, <2>3, IndexInsertExact, MetadataExact
    <2> QED BY <1>14, <2>2, <2>3, <2>4 DEF WriteSsd, Then
  <1>15. CASE PutFinish
    <2> DEFINE k == req.key
    <2>1. k \in Keys  BY <1>15, PutFinishEffect
    <2>2. ASSUME NEW deleted \in BOOLEAN, NEW b \in BOOLEAN, NEW e \in BOOLEAN
          PROVE  LET dropped == DeleteSsdBlock(cache, k, deleted)
                     clean == ForgetMetadataUnlessResident(
                                  IF b THEN IndexRemove(dropped, k) ELSE cache, k)
                     c == IF e THEN dropped ELSE clean
                 IN Exact(c) /\ c \in Inner
      BY <1>0, <2>1, BlockExact, IndexRemoveExact, MetadataExact
    <2>3. ASSUME NEW c \in Inner, Exact(c), NEW l PROVE Exact([c EXCEPT !.expiry[k] = l])
      <3> DEFINE d == [c EXCEPT !.expiry[k] = l]
      <3>1. /\ d.memory = c.memory /\ d.memory_bytes = c.memory_bytes
            /\ d.pmem = c.pmem /\ d.pmem_bytes = c.pmem_bytes
            /\ d.disk_index = c.disk_index /\ d.ssd_bytes = c.ssd_bytes
        BY <2>3 DEF Inner
      <3> HIDE DEF d
      <3>2. Exact(d)  BY <2>3, <3>1, ExactSame
      <3> QED BY <3>2 DEF d
    <2>4. PICK deleted \in Ok("ssdDelete"), recorded \in Ok("manifest") :
             LET stale == req.outcome = "no" /\ Indexed(cache, k) /\ cache.block[k] # req.val
                 failed == req.outcome = "err" \/ (stale /\ ~ (deleted /\ recorded))
                 dropped == DeleteSsdBlock(cache, k, deleted)
                 clean == ForgetMetadataUnlessResident(
                              IF stale THEN IndexRemove(dropped, k) ELSE cache, k)
                 c == IF stale /\ ~ (deleted /\ recorded) THEN dropped ELSE clean
                 stamp == req.life # "default" /\ ~ failed /\ Described(c, k)
             IN cache' = IF stamp
                         THEN [c EXCEPT !.expiry[k] = IF req.life = "finite" THEN "live" ELSE "none"]
                         ELSE c
      BY <1>15 DEF PutFinish
    <2> DEFINE stale == req.outcome = "no" /\ Indexed(cache, k) /\ cache.block[k] # req.val
               kept == stale /\ ~ (deleted /\ recorded)
               dropped == DeleteSsdBlock(cache, k, deleted)
               c == IF kept THEN dropped
                    ELSE ForgetMetadataUnlessResident(
                             IF stale THEN IndexRemove(dropped, k) ELSE cache, k)
    <2>5. deleted \in BOOLEAN /\ stale \in BOOLEAN /\ kept \in BOOLEAN  BY AnswersAreBoolean
    <2> HIDE DEF stale, kept
    <2>6. Exact(c) /\ c \in Inner  BY <2>2, <2>5
    <2> HIDE DEF c
    <2>7. cache' = c \/ \E l : cache' = [c EXCEPT !.expiry[k] = l]  BY <2>4 DEF c, kept, stale
    <2> QED BY <2>3, <2>6, <2>7
  <1>16. CASE Purge
    <2>1. \A k \in Keys, ok \in BOOLEAN : Exact(RemoveExpiredEntry(cache, k, ok))
      BY <1>0, RemovalsExact
    <2> QED BY <1>16, <2>1, AnswersAreBoolean DEF Purge, Then
  <1> QED BY <1>1, <1>2, <1>3, <1>4, <1>5, <1>6, <1>7, <1>8, <1>9, <1>10, <1>11, <1>12, <1>13,
             <1>14, <1>15, <1>16 DEF LockHolder

\* A refill keeps the counters exact.
LEMMA RefillExact ==
    ASSUME NEW c \in Inner, Exact(c), NEW k \in Keys, NEW v \in Values, NEW admitted \in BOOLEAN
    PROVE  Exact(Refill(c, k, v, admitted).cache)
  <1> DEFINE placed == MakeResident(c, k, v)
             d == [placed EXCEPT !.changed = c.changed]
  <1>1. placed \in Inner /\ Exact(placed)  BY MakeResidentExact
  <1> HIDE DEF placed
  <1>2. /\ d.memory = placed.memory /\ d.memory_bytes = placed.memory_bytes
        /\ d.pmem = placed.pmem /\ d.pmem_bytes = placed.pmem_bytes
        /\ d.disk_index = placed.disk_index /\ d.ssd_bytes = placed.ssd_bytes
    BY <1>1 DEF Inner
  <1> HIDE DEF d
  <1>3. Exact(d)  BY <1>1, <1>2, ExactSame
  <1> QED BY <1>1, <1>3 DEF Refill, placed, d

\* So does every section of a read.
LEMMA ExactRead ==
    ASSUME Shape, Exact(cache), NEW r \in Readers, Read(r)
    PROVE  Exact(cache')
  <1>0. cache \in Inner /\ reader \in [Readers -> ReaderState]  BY DEF Shape, Tidy
  <1>1. ASSUME NEW c \in Inner, Exact(c), NEW q \in Readers, NEW ks \in SUBSET Keys
        PROVE  LET d == [c EXCEPT !.changed[q] = ks] IN d \in Inner /\ Exact(d)
    <2> DEFINE d == [c EXCEPT !.changed[q] = ks]
    <2>1. d \in Inner /\ SameMemory(c, d) /\ SamePmem(c, d) /\ SameSsd(c, d)  BY ProbeFields
    <2> HIDE DEF d
    <2>2. Exact(d)  BY <1>1, <2>1, ExactSame DEF SameMemory, SamePmem, SameSsd, SameIndex
    <2> QED BY <2>1, <2>2 DEF d
  <1>2. ASSUME NEW k \in Keys, StartGet(r, k) PROVE Exact(cache')  BY <1>2 DEF StartGet
  <1>3. CASE RemoveExpired(r)
    <2>1. reader[r].key \in Keys  BY <1>3, RemoveExpiredEffect
    <2>2. \A ok \in BOOLEAN : Exact(RemoveExpiredEntry(cache, reader[r].key, ok))
      BY <1>0, <2>1, RemovalsExact
    <2> QED BY <1>3, <2>2, AnswersAreBoolean DEF RemoveExpired
  <1>4. CASE ReadSsd(r)
    <2>1. CASE cache' = cache  BY <2>1
    <2>2. CASE cache' # cache
      <3>1. cache' = CaptureProbe(cache, r, reader[r].key)  BY <1>4, <2>2 DEF ReadSsd
      <3> QED BY <1>0, <1>1, <3>1 DEF CaptureProbe
    <2> QED BY <2>1, <2>2
  <1>5. CASE FinishSsd(r)
    <2> DEFINE k == reader[r].key
               v == reader[r].val
               hit == DropProbe(RecordHit(cache, k), r)
    <2>1. k \in Keys /\ v \in Values  BY <1>5, FinishSsdEffect
    <2>2. RecordHit(cache, k) \in Inner /\ Exact(RecordHit(cache, k))  BY <1>0, <2>1, MetadataExact
    <2>3. hit \in Inner /\ Exact(hit)  BY <1>1, <2>2 DEF DropProbe
    <2>4. Exact(DropProbe(cache, r))  BY <1>0, <1>1 DEF DropProbe
    <2> HIDE DEF hit
    <2>5. \A admitted \in BOOLEAN : Exact(Refill(hit, k, v, admitted).cache)
      BY <2>1, <2>3, RefillExact
    <2>6. MemoryAdmits(cache, k, v) \subseteq BOOLEAN  BY DEF MemoryAdmits
    <2>7. \/ cache' \in {hit, DropProbe(cache, r)}
          \/ \E admitted \in BOOLEAN : cache' = Refill(hit, k, v, admitted).cache
      BY <1>5, <2>6 DEF FinishSsd, hit
    <2> QED BY <2>3, <2>4, <2>5, <2>7
  <1>6. CASE Promote(r)
    <2> DEFINE k == reader[r].key
               v == reader[r].val
               hit == RecordHit(cache, k)
    <2>1. k \in Keys /\ v \in Values  BY <1>6, PromoteEffect
    <2>2. hit \in Inner /\ Exact(hit)  BY <1>0, <2>1, MetadataExact
    <2> HIDE DEF hit
    <2>3. Exact(MakeResident(hit, k, v))  BY <2>1, <2>2, MakeResidentExact
    <2>4. cache' \in {cache, hit, MakeResident(hit, k, v)}  BY <1>6 DEF Promote, hit
    <2> QED BY <2>2, <2>3, <2>4
  <1> QED BY <1>2, <1>3, <1>4, <1>5, <1>6 DEF Read

\* The writes, as long as no clear fails half-way.
LEMMA ExactWrite ==
    ASSUME NoHalfClear, Shape, Exact(cache), Write
    PROVE  Exact(cache')
  <1>0. cache \in Inner  BY DEF Shape, Tidy
  <1>1. ASSUME NEW k \in Keys, NEW v \in Values, NEW heat \in Heats, NEW life \in Lifetimes,
               PutStart(k, v, heat, life)
        PROVE  Exact(cache')
    BY <1>1 DEF PutStart
  <1>2. ASSUME NEW k \in Keys, NEW v \in Values, PutMemoryOnly(k, v) PROVE Exact(cache')
    <2> DEFINE c == RecordMetadata(cache, k)
    <2>1. c \in Inner /\ Exact(c)  BY <1>0, MetadataExact
    <2> HIDE DEF c
    <2>2. Exact(MakeResident(c, k, v))  BY <2>1, MakeResidentExact
    <2>3. cache' \in {c, MakeResident(c, k, v)}  BY <1>2 DEF PutMemoryOnly, c
    <2> QED BY <2>1, <2>2, <2>3
  <1>3. ASSUME NEW k \in Keys, DropVolatile(k) PROVE Exact(cache')
    BY <1>0, <1>3, RemovalsExact DEF DropVolatile
  <1>4. ASSUME NEW k \in Keys, Invalidate(k) PROVE Exact(cache')
    BY <1>0, <1>4, RemovalsExact, AnswersAreBoolean DEF Invalidate
  <1>5. CASE Clear
    <2>1. NothingIn(cache') /\ Tidy(cache')  BY <1>5, ClearEffect DEF NoHalfClear
    <2> QED BY <2>1, EmptiedExact DEF Tidy
  <1>6. CASE PurgeStart  BY <1>6 DEF PurgeStart
  <1> QED BY <1>1, <1>2, <1>3, <1>4, <1>5, <1>6 DEF Write

\* The calls that manage the cache.
LEMMA ExactManage ==
    ASSUME Shape, Exact(cache), Manage
    PROVE  Exact(cache')
  <1>0. cache \in Inner  BY DEF Shape, Tidy
  <1>1. SameEntries(cache, cache') => Exact(cache')
    BY ExactSame DEF SameEntries, SameMemory, SamePmem, SameSsd, SameIndex
  <1>2. CASE \/ \E m \in MemoryCapacities : SetMemoryCapacity(m)
             \/ \E p \in PmemCapacities : SetPmemCapacity(p)
             \/ \E s \in SsdCapacities : SetSsdCapacity(s)
    BY <1>1, <1>2, CapacityEffect
  <1>3. ASSUME NEW b \in BOOLEAN, SetSsdOnly(b) PROVE Exact(cache')
    <2>1. Tidy(cache') /\ SameSsd(cache, cache')  BY <1>3, SetSsdOnlyEffect
    <2>2. \/ SameEntries(cache, cache')
          \/ /\ cache'.memory_bytes = 0 /\ cache'.pmem_bytes = 0
             /\ \A k \in Keys : cache'.memory[k] = None /\ cache'.pmem[k] = None
      BY <1>3, SetSsdOnlyEffect
    <2> QED BY <1>0, <1>1, <2>1, <2>2, EmptiedExact DEF Tidy, SameSsd
  <1>4. ASSUME NEW b \in BOOLEAN, SetStarted(b) \/ SetDefaultTtl(b) PROVE Exact(cache')
    BY <1>1, <1>4, SwitchEffect
  <1>5. ASSUME NEW k \in Keys, Pin(k) \/ Unpin(k) PROVE Exact(cache')  BY <1>5 DEF Pin, Unpin
  <1>6. ASSUME NEW k \in Keys, Lapse(k) PROVE Exact(cache')
    <2>1. SameMemory(cache, cache') /\ SamePmem(cache, cache') /\ SameSsd(cache, cache')
      BY <1>6, LapseEffect
    <2> QED BY <2>1, ExactSame DEF SameMemory, SamePmem, SameSsd, SameIndex
  <1>7. CASE Reclaim  BY <1>7 DEF Reclaim
  <1> QED BY <1>2, <1>3, <1>4, <1>5, <1>6, <1>7 DEF Manage

\* Each tier's byte counter is the sum of the lengths of what the tier holds, at
\* every moment and whatever fails, as long as no clear_all_locked gives up
\* half-way with its maps emptied and its counters kept (NoHalfClear). So the
\* saturating subtractions of make_resident, take_resident, their PMEM
\* counterparts and the index updates never saturate.
THEOREM CountersAreExact ==
    ASSUME NoHalfClear
    PROVE  Spec => []BytesExact
  <1>1. Init => Exact(cache)
    <2> SUFFICES ASSUME Init PROVE Exact(cache)  OBVIOUS
    <2>1. PICK m \in MemoryCapacities, p \in PmemCapacities, s \in SsdCapacities :
             cache = EmptyInner(m, p, s)
      BY DEF Init
    <2>2. m \in Nat /\ p \in Nat /\ s \in Nat  BY CacheAssumption
    <2>3. cache \in Inner /\ NothingIn(cache)  BY <2>1, <2>2, EmptyInnerFields
    <2> QED BY <2>3, EmptiedExact
  <1>2. Shape /\ Exact(cache) /\ [Next]_vars => Exact(cache)'
    <2> SUFFICES ASSUME Shape, Exact(cache), [Next]_vars PROVE Exact(cache')
      OBVIOUS
    <2>1. CASE LockHolder  BY <2>1, ExactLockHolder
    <2>2. ASSUME NEW r \in Readers, Read(r) PROVE Exact(cache')  BY <2>2, ExactRead
    <2>3. CASE Write  BY <2>3, ExactWrite
    <2>4. CASE Manage  BY <2>4, ExactManage
    <2>5. CASE UNCHANGED vars  BY <2>5 DEF vars
    <2> QED BY <2>1, <2>2, <2>3, <2>4, <2>5 DEF Next
  <1>3. Exact(cache) => BytesExact  BY DEF Exact, BytesExact, MemoryLens, PmemLens, IndexLens
  <1> QED BY <1>1, <1>2, <1>3, ShapeInvariant, PTL DEF Spec

-----------------------------------------------------------------------------
(* Capacities.                                                             *)

\* No value and no block is empty. An eviction round that frees nothing ends
\* the loop, so an empty victim would leave a tier above its capacity; an
\* encoded block always has a header.
NothingWeightless == \A v \in Values : Size[v] > 0 /\ BlockLen[v] > 0

\* Nobody uses both pins and invalidate_memory_only, which drops the pins of a
\* key that only the SSD holds without looking at the capacities.
PinsCounted == ~ ({"pin", "memoryOnly"} \subseteq Calls)

\* What a tier would have to evict.
MemoryDue == OverMemory /\ \E k \in Keys : InMemory(cache, k) /\ ~ Pinned(k)
PmemDue == OverPmem /\ \E k \in Keys : InPmem(cache, k) /\ ~ Pinned(k)
SsdDue == OverSsd /\ \E k \in Keys : Indexed(cache, k) /\ ~ Pinned(k)

Pending(step) == \E x \in OnStack(todo) : x.step = step

\* The SSD write of a put fits in the room that was made for it.
RoomMade ==
    Pending("WriteSsd") /\ ~ Pending("MakeRoom") /\ req.outcome # "no" =>
        ProjectedSsdBytes(cache, req.key, req.val) <= cache.ssd_capacity

\* Every block the index lists has a length.
Weighted == \A k \in Keys : Indexed(cache, k) => cache.disk_index[k] > 0

Capped ==
    /\ "pin" \notin Calls => \A k \in Keys : pins[k] = 0
    /\ Weighted
    /\ RoomMade
    /\ reclaims = 0 => /\ MemoryDue => Pending("EvictMemory")
                       /\ PmemDue => Pending("EvictPmem")
                       /\ SsdDue => Pending("EvictSsd")

-----------------------------------------------------------------------------
(* The stack.                                                              *)

\* The step before an SSD write is the one that makes room for it.
LEMMA RoomFirst ==
    ASSUME Shape, todo # <<>>, NEW x \in OnStack(Tail(todo)), x.step = "WriteSsd"
    PROVE  todo[1].step = "MakeRoom" \/ \E y \in OnStack(Tail(todo)) : y.step = "MakeRoom"
  <1>1. Stacked(todo) BY DEF Shape, Agenda
  <1>2. /\ Len(Tail(todo)) = Len(todo) - 1 /\ \A i \in 1 .. Len(todo) - 1 : Tail(todo)[i] = todo[i + 1]
    BY <1>1, PoppedStack
  <1>3. Len(todo) \in Nat BY <1>1 DEF Stacked
  <1> DEFINE n == Len(todo)
  <1> HIDE DEF n
  <1>4. PICK i \in 1 .. n - 1 : x = todo[i + 1] BY <1>2 DEF OnStack, n
  <1>5. n \in Nat BY <1>3 DEF n
  <1>6. i + 1 \in 1 .. n /\ i + 1 > 1 /\ (i + 1) - 1 = i BY <1>4, <1>5
  <1>7. todo[i + 1].step \in Below(todo[i].step) BY <1>1, <1>6 DEF Stacked, n
  <1>8. todo[i].step = "MakeRoom" BY <1>4, <1>7 DEF Below, Rest
  <1>9. CASE i = 1 BY <1>8, <1>9
  <1>10. CASE i # 1
    <2>1. i - 1 \in 1 .. n - 1 /\ (i - 1) + 1 = i BY <1>4, <1>5, <1>10
    <2>2. Tail(todo)[i - 1] = todo[i] BY <1>2, <2>1 DEF n
    <2>3. todo[i] \in OnStack(Tail(todo)) BY <1>2, <2>1, <2>2 DEF OnStack, n
    <2> QED BY <1>8, <2>3
  <1> QED BY <1>9, <1>10

\* What is pending stays pending until it is on top.
LEMMA PendingKept ==
    ASSUME Shape, LockHolder, NEW step, Pending(step), todo[1].step # step
    PROVE  Pending(step)'
  BY StackKept DEF Pending

-----------------------------------------------------------------------------
(* The memory tier.                                                        *)

\* A step that makes no tier heavier and puts nothing in it.
MemoryShrinks ==
    /\ cache'.memory_bytes <= cache.memory_bytes
    /\ cache'.memory_capacity = cache.memory_capacity
    /\ \A k \in Keys : InMemory(cache', k) => InMemory(cache, k)
PmemShrinks ==
    /\ cache'.pmem_bytes <= cache.pmem_bytes
    /\ cache'.pmem_capacity = cache.pmem_capacity
    /\ \A k \in Keys : InPmem(cache', k) => InPmem(cache, k)
SsdShrinks ==
    /\ cache'.ssd_bytes <= cache.ssd_bytes
    /\ cache'.ssd_capacity = cache.ssd_capacity
    /\ \A k \in Keys : Indexed(cache', k) => Indexed(cache, k)

\* The counters and capacities are naturals.
LEMMA Counters ==
    ASSUME Shape
    PROVE  /\ cache \in Inner
           /\ cache.memory_bytes \in Nat /\ cache.memory_capacity \in Nat
           /\ cache.pmem_bytes \in Nat /\ cache.pmem_capacity \in Nat
           /\ cache.ssd_bytes \in Nat /\ cache.ssd_capacity \in Nat
  BY DEF Shape, Tidy, Inner

\* Nothing falls due in a tier that shrinks while what it keeps stays pinned.
LEMMA ShrinkingIsCalm ==
    ASSUME Shape, Shape', \A k \in Keys : Pinned(k) => Pinned(k)' \/ ~ InSomeTier(cache', k)
    PROVE  /\ MemoryShrinks /\ MemoryDue' => MemoryDue
           /\ PmemShrinks /\ PmemDue' => PmemDue
           /\ SsdShrinks /\ SsdDue' => SsdDue
  <1>1. /\ cache.memory_bytes \in Nat /\ cache.memory_capacity \in Nat
        /\ cache.pmem_bytes \in Nat /\ cache.pmem_capacity \in Nat
        /\ cache.ssd_bytes \in Nat /\ cache.ssd_capacity \in Nat
        /\ cache'.memory_bytes \in Nat /\ cache'.pmem_bytes \in Nat /\ cache'.ssd_bytes \in Nat
    BY Counters DEF Shape, Tidy, Inner
  <1>2. MemoryShrinks /\ MemoryDue' => MemoryDue
    BY <1>1 DEF MemoryShrinks, MemoryDue, OverMemory, InSomeTier
  <1>3. PmemShrinks /\ PmemDue' => PmemDue
    BY <1>1 DEF PmemShrinks, PmemDue, OverPmem, InSomeTier
  <1>4. SsdShrinks /\ SsdDue' => SsdDue
    BY <1>1 DEF SsdShrinks, SsdDue, OverSsd, InSomeTier
  <1> QED BY <1>2, <1>3, <1>4

\* A step that touches one key, or none, in a way that makes a tier no heavier.
LEMMA Shrinking ==
    ASSUME Shape, SameSettings(cache, cache')
    PROVE  /\ SameMemory(cache, cache') => MemoryShrinks
           /\ SamePmem(cache, cache') => PmemShrinks
           /\ SameIndex(cache, cache') => SsdShrinks
           /\ \A k \in Keys : Touches(cache, cache', k) =>
                /\ cache'.memory[k] = None /\ cache'.memory_bytes <= cache.memory_bytes => MemoryShrinks
                /\ cache'.pmem[k] = None /\ cache'.pmem_bytes <= cache.pmem_bytes => PmemShrinks
                /\ cache'.disk_index[k] = None /\ cache'.ssd_bytes <= cache.ssd_bytes => SsdShrinks
  <1>1. /\ cache.memory_bytes \in Nat /\ cache.pmem_bytes \in Nat /\ cache.ssd_bytes \in Nat
    BY Counters
  <1>2. /\ SameMemory(cache, cache') => MemoryShrinks
        /\ SamePmem(cache, cache') => PmemShrinks
        /\ SameIndex(cache, cache') => SsdShrinks
    BY <1>1 DEF SameSettings, SameMemory, SamePmem, SameIndex, MemoryShrinks, PmemShrinks, SsdShrinks,
                InMemory, InPmem, Indexed
  <1>3. ASSUME NEW k \in Keys, Touches(cache, cache', k)
        PROVE  /\ cache'.memory[k] = None /\ cache'.memory_bytes <= cache.memory_bytes => MemoryShrinks
               /\ cache'.pmem[k] = None /\ cache'.pmem_bytes <= cache.pmem_bytes => PmemShrinks
               /\ cache'.disk_index[k] = None /\ cache'.ssd_bytes <= cache.ssd_bytes => SsdShrinks
    BY <1>3 DEF Touches, SameSettings, SameEntry, MemoryShrinks, PmemShrinks, SsdShrinks, InMemory,
                InPmem, Indexed
  <1> QED BY <1>2, <1>3

-----------------------------------------------------------------------------
(* The lock holder.                                                        *)

\* The lock holder puts an SSD write on the stack only with the step that makes
\* room for it.
LEMMA NewWrites ==
    ASSUME Shape, LockHolder, todo[1].step # "MakeRoom", Pending("WriteSsd")'
    PROVE  Pending("MakeRoom")'
  <1>0. ASSUME NEW x \in OnStack(Tail(todo)), x.step = "WriteSsd" PROVE Pending("MakeRoom")'
    BY <1>0, RoomFirst, StackKept DEF Pending
  <1>1. ASSUME NEW new, Becomes(new), \A x \in new : x.step # "WriteSsd" PROVE Pending("MakeRoom")'
    BY <1>0, <1>1 DEF Becomes, Pending
  <1>2. ASSUME todo' = todo, todo[1].step # "WriteSsd" PROVE Pending("MakeRoom")'
    BY <1>0, <1>2, StackKept DEF Pending
  <1>3. CASE EvictMemory
    <2>1. todo[1].step = "EvictMemory" BY <1>3, TopFacts DEF EvictMemory
    <2>2. CASE todo' = todo BY <1>2, <2>1, <2>2
    <2>3. CASE todo' # todo
      <3>1. CASE Becomes({}) BY <1>1, <3>1
      <3>2. CASE ~ Becomes({})
        <4>1. PICK k \in Keys, again \in {{}, {todo[1]}} :
                 Becomes({[step |-> "DemoteMemory", key |-> k, val |-> cache.memory[k]],
                          [step |-> "Forget", key |-> k]} \cup again)
          BY <1>3, <2>3, <3>2, EvictMemoryEffect
        <4> DEFINE new == {[step |-> "DemoteMemory", key |-> k, val |-> cache.memory[k]],
                           [step |-> "Forget", key |-> k]} \cup again
        <4>2. \A x \in new : x.step # "WriteSsd" BY <2>1
        <4> HIDE DEF new
        <4> QED BY <1>1, <4>1, <4>2 DEF new
      <3> QED BY <3>1, <3>2
    <2> QED BY <2>2, <2>3
  <1>4. CASE DemoteMemory BY <1>1, <1>4, DemoteMemoryEffect
  <1>5. CASE PutPmem BY <1>1, <1>5, PutPmemEffect
  <1>6. CASE EvictPmem
    <2>1. todo[1].step = "EvictPmem" BY <1>6, TopFacts DEF EvictPmem
    <2>2. CASE todo' = todo BY <1>2, <2>1, <2>2
    <2>3. CASE todo' # todo
      <3>1. CASE Becomes({}) BY <1>1, <3>1
      <3>2. CASE ~ Becomes({})
        <4>0. PICK k \in Keys :
                 \E down \in {{}, {[step |-> "SsdBypass", key |-> k, val |-> cache.pmem[k]]}},
                    again \in {{}, {todo[1]}} :
                   Becomes(down \cup {[step |-> "Forget", key |-> k]} \cup again)
          BY <1>6, <2>3, <3>2, EvictPmemEffect
        <4>1. PICK down \in {{}, {[step |-> "SsdBypass", key |-> k, val |-> cache.pmem[k]]}},
                   again \in {{}, {todo[1]}} :
                 Becomes(down \cup {[step |-> "Forget", key |-> k]} \cup again)
          BY <4>0
        <4> DEFINE new == down \cup {[step |-> "Forget", key |-> k]} \cup again
        <4>2. \A x \in new : x.step # "WriteSsd" BY <2>1
        <4> HIDE DEF new
        <4> QED BY <1>1, <4>1, <4>2 DEF new
      <3> QED BY <3>1, <3>2
    <2> QED BY <2>2, <2>3
  <1>7. CASE Forget BY <1>1, <1>7, ForgetEffect
  <1>8. CASE SsdBypass BY <1>1, <1>8, SsdBypassEffect
  <1>9. CASE EvictSsd
    <2>1. todo[1].step = "EvictSsd" BY <1>9, TopFacts DEF EvictSsd
    <2> QED BY <1>1, <1>2, <1>9, <2>1, EvictSsdEffect
  <1>10. CASE WriteBypass BY <1>1, <1>10, WriteBypassEffect
  <1>11. CASE Sweep \/ Purge
    <2>1. todo[1].step \in {"Sweep", "Purge"} BY <1>11, TopFacts DEF Sweep, Purge
    <2> QED BY <1>1, <1>2, <1>11, <2>1, SweepEffect
  <1>12. CASE PutMemory
    <2>1. CASE Becomes({}) BY <1>1, <2>1
    <2>2. CASE Becomes({[step |-> "EvictMemory"]}) BY <1>1, <2>2
    <2>3. CASE Becomes({[step |-> "PutPmem", key |-> req.key, val |-> req.val, fallback |-> TRUE]})
      BY <1>1, <2>3
    <2> QED BY <1>12, <2>1, <2>2, <2>3, PutMemoryEffect
  <1>13. CASE PutPmemPart BY <1>1, <1>13, PutPmemPartEffect
  <1>14. CASE PutSsd
    <2>1. CASE Becomes({}) BY <1>1, <2>1
    <2>2. CASE Becomes({[step |-> "MakeRoom", before |-> None], [step |-> "WriteSsd"]})
      <3>1. [step |-> "MakeRoom", before |-> None] \in OnStack(todo') BY <2>2 DEF Becomes
      <3>2. [step |-> "MakeRoom", before |-> None].step = "MakeRoom" OBVIOUS
      <3> QED BY <3>1, <3>2 DEF Pending
    <2> QED BY <1>14, <2>1, <2>2, PutSsdEffect
  <1>15. CASE MakeRoom BY <1>15, MakeRoomEffect
  <1>16. CASE WriteSsd BY <1>1, <1>16, WriteSsdEffect
  <1>17. CASE PutFinish BY <1>17, PutFinishEffect, EmptyStack DEF Pending
  <1> QED BY <1>3, <1>4, <1>5, <1>6, <1>7, <1>8, <1>9, <1>10, <1>11, <1>12, <1>13, <1>14, <1>15,
             <1>16, <1>17 DEF LockHolder

\* make_room_for_ssd_install keeps its promise until the write.
LEMMA RoomKept ==
    ASSUME Shape, LockHolder
    PROVE  RoomMade'
  <1>1. CASE todo[1].step # "MakeRoom" BY <1>1, NewWrites DEF RoomMade
  <1>2. CASE todo[1].step = "MakeRoom"
    <2>1. MakeRoom
      <3>1. \A step : Doing(step) => step = "MakeRoom" BY <1>2, TopFacts
      <3> QED BY <3>1 DEF LockHolder, EvictMemory, DemoteMemory, PutPmem, EvictPmem, Forget, SsdBypass,
           EvictSsd, WriteBypass, Sweep, PutMemory, PutPmemPart, PutSsd, WriteSsd, PutFinish, Purge
    <2>2. CASE /\ req' = req /\ cache' = cache
               /\ ProjectedSsdBytes(cache, req.key, req.val) <= cache.ssd_capacity
      BY <2>2 DEF RoomMade
    <2>3. CASE req'.outcome = "no" BY <2>3 DEF RoomMade
    <2>4. ASSUME NEW n \in Nat, NEW b \in Nat,
                 Becomes({[step |-> "EvictSsd", need |-> n], [step |-> "MakeRoom", before |-> b]})
          PROVE  RoomMade'
      <3> DEFINE x == [step |-> "MakeRoom", before |-> b]
      <3>1. x \in OnStack(todo') BY <2>4 DEF Becomes
      <3>2. x.step = "MakeRoom" OBVIOUS
      <3> HIDE DEF x
      <3>3. Pending("MakeRoom")' BY <3>1, <3>2 DEF Pending
      <3> QED BY <3>3 DEF RoomMade
    <2> QED BY <2>1, <2>2, <2>3, <2>4, MakeRoomEffect
  <1> QED BY <1>1, <1>2

\* A round of an eviction takes something off the counter.
LEMMA RoundsCount ==
    ASSUME NothingWeightless, Shape, Capped, NEW k \in Keys
    PROVE  /\ OverMemory /\ cache.memory[k] \in Values =>
                Monus(cache.memory_bytes, LenOf(cache.memory[k])) # cache.memory_bytes
           /\ OverPmem /\ cache.pmem[k] \in Values =>
                Monus(cache.pmem_bytes, LenOf(cache.pmem[k])) # cache.pmem_bytes
           /\ OverSsd /\ Indexed(cache, k) =>
                Monus(cache.ssd_bytes, IndexedLen(cache, k)) # cache.ssd_bytes
  <1>1. /\ cache.memory_bytes \in Nat /\ cache.memory_capacity \in Nat
        /\ cache.pmem_bytes \in Nat /\ cache.pmem_capacity \in Nat
        /\ cache.ssd_bytes \in Nat /\ cache.ssd_capacity \in Nat /\ cache \in Inner
    BY Counters
  <1>2. /\ LenOf(cache.memory[k]) \in Nat /\ LenOf(cache.pmem[k]) \in Nat
        /\ IndexedLen(cache, k) \in Nat
    BY <1>1, Lengths
  <1>3. \A v \in Values : LenOf(v) > 0 BY InnerAssumption DEF NothingWeightless, LenOf
  <1>4. Indexed(cache, k) => IndexedLen(cache, k) > 0 BY DEF Capped, Weighted, Indexed, IndexedLen
  <1>5. \A a, b \in Nat : a > 0 /\ b > 0 => Monus(a, b) # a BY DEF Monus
  <1>6. ASSUME OverMemory /\ cache.memory[k] \in Values
        PROVE  Monus(cache.memory_bytes, LenOf(cache.memory[k])) # cache.memory_bytes
    <2>1. cache.memory_bytes > 0 /\ LenOf(cache.memory[k]) > 0 BY <1>1, <1>3, <1>4, <1>6 DEF OverMemory
    <2> QED BY <1>1, <1>2, <1>5, <2>1
  <1>7. ASSUME OverPmem /\ cache.pmem[k] \in Values
        PROVE  Monus(cache.pmem_bytes, LenOf(cache.pmem[k])) # cache.pmem_bytes
    <2>1. cache.pmem_bytes > 0 /\ LenOf(cache.pmem[k]) > 0 BY <1>1, <1>3, <1>4, <1>7 DEF OverPmem
    <2> QED BY <1>1, <1>2, <1>5, <2>1
  <1>8. ASSUME OverSsd /\ Indexed(cache, k)
        PROVE  Monus(cache.ssd_bytes, IndexedLen(cache, k)) # cache.ssd_bytes
    <2>1. cache.ssd_bytes > 0 /\ IndexedLen(cache, k) > 0 BY <1>1, <1>3, <1>4, <1>8 DEF OverSsd
    <2> QED BY <1>1, <1>2, <1>5, <2>1
  <1> QED BY <1>6, <1>7, <1>8

\* A step of the lock holder that takes nothing off the stack but its own step,
\* and makes the tier no heavier, leaves the tier's eviction pending.
LEMMA StillDue ==
    ASSUME Shape, Shape', LockHolder
    PROVE  /\ MemoryShrinks /\ todo[1].step # "EvictMemory" /\ (MemoryDue => Pending("EvictMemory"))
                => (MemoryDue' => Pending("EvictMemory")')
           /\ PmemShrinks /\ todo[1].step # "EvictPmem" /\ (PmemDue => Pending("EvictPmem"))
                => (PmemDue' => Pending("EvictPmem")')
           /\ SsdShrinks /\ todo[1].step # "EvictSsd" /\ (SsdDue => Pending("EvictSsd"))
                => (SsdDue' => Pending("EvictSsd")')
  <1>1. \A k \in Keys : Pinned(k) => Pinned(k)' \/ ~ InSomeTier(cache', k)
    BY StackKept DEF Pinned
  <1> QED BY <1>1, ShrinkingIsCalm, PendingKept

\* Every step but EvictMemory leaves the memory tier no heavier or its eviction
\* pending, and EvictMemory stops only when there is nothing left to evict.
LEMMA MemoryLockHolder ==
    ASSUME NothingWeightless, Shape, Shape', Capped, LockHolder, MemoryDue => Pending("EvictMemory")
    PROVE  MemoryDue' => Pending("EvictMemory")'
  <1>0. SameSettings(cache, cache') /\ SameMemory(cache, cache') => MemoryShrinks BY Shrinking
  <1>01. cache' = cache => MemoryShrinks BY Counters DEF MemoryShrinks
  <1>02. ASSUME NEW k \in Keys, Touches(cache, cache', k), SameMemory(cache, cache')
         PROVE  MemoryShrinks
    BY <1>0, <1>02 DEF Touches
  <1>03. ASSUME NEW k \in Keys, Touches(cache, cache', k), cache'.memory[k] = None,
                cache'.memory_bytes <= cache.memory_bytes
         PROVE  MemoryShrinks
    BY <1>03, Shrinking DEF Touches
  <1>04. ASSUME Becomes({[step |-> "EvictMemory"]}) PROVE Pending("EvictMemory")'
    <2> DEFINE x == [step |-> "EvictMemory"]
    <2>1. x \in OnStack(todo') /\ x.step = "EvictMemory" BY <1>04 DEF Becomes
    <2> HIDE DEF x
    <2> QED BY <2>1 DEF Pending
  <1>05. MemoryShrinks /\ todo[1].step # "EvictMemory" => (MemoryDue' => Pending("EvictMemory")')
    BY StillDue
  <1>1. CASE EvictMemory
    <2>1. todo[1].step = "EvictMemory" BY <1>1, TopFacts DEF EvictMemory
    <2>2. CASE /\ cache' = cache
               /\ OverMemory => \A k \in Keys : InMemory(cache, k) => Pinned(k)
      <3>1. pins' = pins BY StackKept
      <3> QED BY <2>2, <3>1 DEF MemoryDue, OverMemory, Pinned
    <2>3. ASSUME todo' = todo PROVE Pending("EvictMemory")'
      BY <2>1, <2>3, StackKept DEF Pending
    <2>4. ASSUME NEW k \in Keys, OverMemory, cache.memory[k] \in Values,
                 cache'.memory_bytes = Monus(cache.memory_bytes, LenOf(cache.memory[k])),
                 NEW again \in {{}, {todo[1]}},
                 Becomes({[step |-> "DemoteMemory", key |-> k, val |-> cache.memory[k]],
                          [step |-> "Forget", key |-> k]} \cup again),
                 again = {} => cache'.memory_bytes = cache.memory_bytes
          PROVE  Pending("EvictMemory")'
      <3>1. again = {todo[1]} BY <2>4, RoundsCount
      <3>2. todo[1] \in OnStack(todo') BY <2>4, <3>1 DEF Becomes
      <3> QED BY <2>1, <3>2 DEF Pending
    <2>5. CASE todo' = todo BY <2>3, <2>5
    <2>6. CASE /\ todo' # todo
               /\ ~ (cache' = cache /\ (OverMemory => \A k \in Keys : InMemory(cache, k) => Pinned(k)))
      <3>1. PICK k \in Keys :
                 /\ OverMemory /\ cache.memory[k] \in Values
                 /\ cache'.memory_bytes = Monus(cache.memory_bytes, LenOf(cache.memory[k]))
                 /\ \E again \in {{}, {todo[1]}} :
                      /\ Becomes({[step |-> "DemoteMemory", key |-> k, val |-> cache.memory[k]],
                                  [step |-> "Forget", key |-> k]} \cup again)
                      /\ again = {} => cache'.memory_bytes = cache.memory_bytes
        BY <1>1, <2>6, EvictMemoryEffect
      <3> QED BY <2>4, <3>1
    <2> QED BY <2>2, <2>5, <2>6
  <1>2. CASE DemoteMemory \/ SsdBypass \/ PutSsd \/ MakeRoom
    <2>1. cache' = cache
      BY <1>2, DemoteMemoryEffect, SsdBypassEffect, PutSsdEffect, MakeRoomEffect
    <2>2. todo[1].step # "EvictMemory"
      BY <1>2, DemoteMemoryEffect, SsdBypassEffect, PutSsdEffect, MakeRoomEffect
    <2> QED BY <1>01, <1>05, <2>1, <2>2
  <1>3. CASE PutPmem BY <1>3, <1>02, <1>05, PutPmemEffect
  <1>4. CASE EvictPmem
    <2>1. todo[1].step = "EvictPmem" BY <1>4, TopFacts DEF EvictPmem
    <2>2. MemoryShrinks BY <1>4, <1>01, <1>02, EvictPmemEffect
    <2> QED BY <1>05, <2>1, <2>2
  <1>5. CASE Forget
    <2>1. todo[1].step = "Forget" BY <1>5, TopFacts DEF Forget
    <2> QED BY <1>5, <1>02, <1>05, <2>1, ForgetEffect
  <1>6. CASE EvictSsd
    <2>1. todo[1].step = "EvictSsd" BY <1>6, TopFacts DEF EvictSsd
    <2>2. MemoryShrinks BY <1>6, <1>01, <1>02, EvictSsdEffect
    <2> QED BY <1>05, <2>1, <2>2
  <1>7. CASE WriteBypass
    <2>1. todo[1].step = "WriteBypass" BY <1>7, WriteBypassEffect
    <2>2. MemoryShrinks BY <1>7, <1>01, <1>02, WriteBypassEffect
    <2> QED BY <1>05, <2>1, <2>2
  <1>8. CASE Sweep \/ Purge
    <2>1. todo[1].step \in {"Sweep", "Purge"} BY <1>8, TopFacts DEF Sweep, Purge
    <2>2. MemoryShrinks BY <1>8, <1>01, <1>03, SweepEffect DEF Removed
    <2> QED BY <1>05, <2>1, <2>2
  <1>9. CASE PutMemory
    <2>1. todo[1].step = "PutMemory" BY <1>9, PutMemoryEffect
    <2>2. MemoryShrinks \/ Becomes({[step |-> "EvictMemory"]})
      BY <1>9, <1>01, <1>02, <1>03, PutMemoryEffect
    <2> QED BY <1>04, <1>05, <2>1, <2>2
  <1>10. CASE PutPmemPart
    <2>1. todo[1].step = "PutPmemPart" BY <1>10, PutPmemPartEffect
    <2>2. MemoryShrinks BY <1>10, <1>01, <1>02, PutPmemPartEffect
    <2> QED BY <1>05, <2>1, <2>2
  <1>11. CASE WriteSsd
    <2>1. todo[1].step = "WriteSsd" BY <1>11, WriteSsdEffect
    <2>2. MemoryShrinks BY <1>11, <1>01, <1>02, WriteSsdEffect
    <2> QED BY <1>05, <2>1, <2>2
  <1>12. CASE PutFinish
    <2>1. todo[1].step = "PutFinish" BY <1>12, PutFinishEffect
    <2>2. MemoryShrinks BY <1>12, <1>02, PutFinishEffect
    <2> QED BY <1>05, <2>1, <2>2
  <1> QED BY <1>1, <1>2, <1>3, <1>4, <1>5, <1>6, <1>7, <1>8, <1>9, <1>10, <1>11, <1>12 DEF LockHolder

\* The same of the PMEM tier: put_pmem_shared leaves its eviction behind.
LEMMA PmemLockHolder ==
    ASSUME NothingWeightless, Shape, Shape', Capped, LockHolder, PmemDue => Pending("EvictPmem")
    PROVE  PmemDue' => Pending("EvictPmem")'
  <1>0. SameSettings(cache, cache') /\ SamePmem(cache, cache') => PmemShrinks BY Shrinking
  <1>01. cache' = cache => PmemShrinks BY Counters DEF PmemShrinks
  <1>02. ASSUME NEW k \in Keys, Touches(cache, cache', k), SamePmem(cache, cache')
         PROVE  PmemShrinks
    BY <1>0, <1>02 DEF Touches
  <1>03. ASSUME NEW k \in Keys, Touches(cache, cache', k), cache'.pmem[k] = None,
                cache'.pmem_bytes <= cache.pmem_bytes
         PROVE  PmemShrinks
    BY <1>03, Shrinking DEF Touches
  <1>04. ASSUME Becomes({[step |-> "EvictPmem"]}) PROVE Pending("EvictPmem")'
    <2> DEFINE x == [step |-> "EvictPmem"]
    <2>1. x \in OnStack(todo') /\ x.step = "EvictPmem" BY <1>04 DEF Becomes
    <2> HIDE DEF x
    <2> QED BY <2>1 DEF Pending
  <1>05. PmemShrinks /\ todo[1].step # "EvictPmem" => (PmemDue' => Pending("EvictPmem")')
    BY StillDue
  <1>1. CASE EvictPmem
    <2>1. todo[1].step = "EvictPmem" BY <1>1, TopFacts DEF EvictPmem
    <2>2. CASE /\ cache' = cache
               /\ OverPmem => \A k \in Keys : InPmem(cache, k) => Pinned(k)
      <3>1. pins' = pins BY StackKept
      <3> QED BY <2>2, <3>1 DEF PmemDue, OverPmem, Pinned
    <2>3. ASSUME todo' = todo PROVE Pending("EvictPmem")'
      BY <2>1, <2>3, StackKept DEF Pending
    <2>4. ASSUME NEW k \in Keys, OverPmem, cache.pmem[k] \in Values,
                 cache'.pmem_bytes = Monus(cache.pmem_bytes, LenOf(cache.pmem[k])),
                 NEW down, NEW again \in {{}, {todo[1]}},
                 Becomes(down \cup {[step |-> "Forget", key |-> k]} \cup again),
                 again = {} => cache'.pmem_bytes = cache.pmem_bytes
          PROVE  Pending("EvictPmem")'
      <3>1. again = {todo[1]} BY <2>4, RoundsCount
      <3>2. todo[1] \in OnStack(todo') BY <2>4, <3>1 DEF Becomes
      <3> QED BY <2>1, <3>2 DEF Pending
    <2>5. CASE todo' = todo BY <2>3, <2>5
    <2>6. CASE /\ todo' # todo
               /\ ~ (cache' = cache /\ (OverPmem => \A k \in Keys : InPmem(cache, k) => Pinned(k)))
      <3>1. PICK k \in Keys :
                 /\ OverPmem /\ cache.pmem[k] \in Values
                 /\ cache'.pmem_bytes = Monus(cache.pmem_bytes, LenOf(cache.pmem[k]))
                 /\ \E down \in {{}, {[step |-> "SsdBypass", key |-> k, val |-> cache.pmem[k]]}},
                       again \in {{}, {todo[1]}} :
                      /\ Becomes(down \cup {[step |-> "Forget", key |-> k]} \cup again)
                      /\ again = {} => cache'.pmem_bytes = cache.pmem_bytes
        BY <1>1, <2>6, EvictPmemEffect
      <3> QED BY <2>4, <3>1
    <2> QED BY <2>2, <2>5, <2>6
  <1>2. CASE DemoteMemory \/ SsdBypass \/ PutSsd \/ MakeRoom
    <2>1. cache' = cache
      BY <1>2, DemoteMemoryEffect, SsdBypassEffect, PutSsdEffect, MakeRoomEffect
    <2>2. todo[1].step # "EvictPmem"
      BY <1>2, DemoteMemoryEffect, SsdBypassEffect, PutSsdEffect, MakeRoomEffect
    <2> QED BY <1>01, <1>05, <2>1, <2>2
  <1>3. CASE PutPmem
    <2>1. todo[1].step = "PutPmem" BY <1>3, PutPmemEffect
    <2>2. PmemShrinks \/ Becomes({[step |-> "EvictPmem"]}) BY <1>3, <1>02, PutPmemEffect
    <2> QED BY <1>04, <1>05, <2>1, <2>2
  <1>4. CASE EvictMemory
    <2>1. todo[1].step = "EvictMemory" BY <1>4, TopFacts DEF EvictMemory
    <2>2. PmemShrinks BY <1>4, <1>01, <1>02, EvictMemoryEffect
    <2> QED BY <1>05, <2>1, <2>2
  <1>5. CASE Forget
    <2>1. todo[1].step = "Forget" BY <1>5, TopFacts DEF Forget
    <2> QED BY <1>5, <1>02, <1>05, <2>1, ForgetEffect
  <1>6. CASE EvictSsd
    <2>1. todo[1].step = "EvictSsd" BY <1>6, TopFacts DEF EvictSsd
    <2>2. PmemShrinks BY <1>6, <1>01, <1>02, EvictSsdEffect
    <2> QED BY <1>05, <2>1, <2>2
  <1>7. CASE WriteBypass
    <2>1. todo[1].step = "WriteBypass" BY <1>7, WriteBypassEffect
    <2>2. PmemShrinks BY <1>7, <1>01, <1>02, WriteBypassEffect
    <2> QED BY <1>05, <2>1, <2>2
  <1>8. CASE Sweep \/ Purge
    <2>1. todo[1].step \in {"Sweep", "Purge"} BY <1>8, TopFacts DEF Sweep, Purge
    <2>2. PmemShrinks BY <1>8, <1>01, <1>03, SweepEffect DEF Removed
    <2> QED BY <1>05, <2>1, <2>2
  <1>9. CASE PutMemory
    <2>1. todo[1].step = "PutMemory" BY <1>9, PutMemoryEffect
    <2>2. PmemShrinks BY <1>9, <1>02, PutMemoryEffect
    <2> QED BY <1>05, <2>1, <2>2
  <1>10. CASE PutPmemPart
    <2>1. todo[1].step = "PutPmemPart" BY <1>10, PutPmemPartEffect
    <2>2. PmemShrinks BY <1>10, <1>01, <1>02, <1>03, PutPmemPartEffect
    <2> QED BY <1>05, <2>1, <2>2
  <1>11. CASE WriteSsd
    <2>1. todo[1].step = "WriteSsd" BY <1>11, WriteSsdEffect
    <2>2. PmemShrinks BY <1>11, <1>01, <1>02, WriteSsdEffect
    <2> QED BY <1>05, <2>1, <2>2
  <1>12. CASE PutFinish
    <2>1. todo[1].step = "PutFinish" BY <1>12, PutFinishEffect
    <2>2. PmemShrinks BY <1>12, <1>02, PutFinishEffect
    <2> QED BY <1>05, <2>1, <2>2
  <1> QED BY <1>1, <1>2, <1>3, <1>4, <1>5, <1>6, <1>7, <1>8, <1>9, <1>10, <1>11, <1>12 DEF LockHolder

\* The SSD write of a put fits in the tier: write_ssd_block after
\* make_room_for_ssd_install.
LEMMA WriteFits ==
    ASSUME Shape, Capped, WriteSsd, req.outcome # "no"
    PROVE  Monus(cache.ssd_bytes, IndexedLen(cache, req.key)) + BlockLen[req.val] <= cache.ssd_capacity
  <1>1. /\ todo[1].step = "WriteSsd" /\ req.key \in Keys /\ req.val \in Values
    BY WriteSsdEffect
  <1>2. Doing("WriteSsd") BY DEF WriteSsd
  <1>3. todo # <<>> /\ Stacked(todo) BY <1>2, TopFacts DEF Agenda
  <1>4. \A x \in OnStack(todo) : x.step # "MakeRoom" BY <1>1, <1>3, UnderTheTop
  <1>5. todo[1] \in OnStack(todo) BY <1>3, UnderTheTop
  <1>6. Pending("WriteSsd") /\ ~ Pending("MakeRoom") BY <1>1, <1>4, <1>5 DEF Pending
  <1>7. ProjectedSsdBytes(cache, req.key, req.val) <= cache.ssd_capacity
    BY <1>6 DEF Capped, RoomMade
  <1>8. /\ cache.ssd_bytes \in Nat /\ cache.ssd_capacity \in Nat /\ cache \in Inner BY Counters
  <1>9. IndexedLen(cache, req.key) \in Nat /\ BlockLen[req.val] \in Nat
    BY <1>1, <1>8, Lengths, InnerAssumption
  <1> DEFINE m == Monus(cache.ssd_bytes, IndexedLen(cache, req.key))
             b == BlockLen[req.val]
  <1>10. m \in Nat /\ m <= cache.ssd_bytes BY <1>8, <1>9, MonusFacts
  <1>11. \/ cache.ssd_bytes + b <= cache.ssd_capacity
         \/ m + b <= cache.ssd_capacity
    BY <1>7 DEF ProjectedSsdBytes
  <1> HIDE DEF m
  <1>12. m + b <= cache.ssd_capacity BY <1>8, <1>9, <1>10, <1>11
  <1> QED BY <1>12 DEF m

\* The same of the SSD tier, whose two writers make room first.
LEMMA SsdLockHolder ==
    ASSUME NothingWeightless, Shape, Shape', Capped, LockHolder, SsdDue => Pending("EvictSsd")
    PROVE  SsdDue' => Pending("EvictSsd")'
  <1>00. /\ cache.ssd_bytes \in Nat /\ cache.ssd_capacity \in Nat
         /\ cache'.ssd_bytes \in Nat /\ cache'.ssd_capacity \in Nat
    BY Counters DEF Shape, Tidy, Inner
  <1>0. SameSettings(cache, cache') /\ SameIndex(cache, cache') => SsdShrinks BY Shrinking
  <1>01. cache' = cache => SsdShrinks BY Counters DEF SsdShrinks
  <1>02. ASSUME NEW k \in Keys, Touches(cache, cache', k), SameIndex(cache, cache')
         PROVE  SsdShrinks
    BY <1>0, <1>02 DEF Touches
  <1>03. ASSUME NEW k \in Keys, Touches(cache, cache', k), cache'.disk_index[k] = None,
                cache'.ssd_bytes <= cache.ssd_bytes
         PROVE  SsdShrinks
    BY <1>03, Shrinking DEF Touches
  <1>04. ASSUME NEW k \in Keys, Touches(cache, cache', k), cache'.ssd_bytes <= cache.ssd_capacity
         PROVE  ~ SsdDue'
    BY <1>00, <1>04 DEF Touches, SameSettings, SsdDue, OverSsd
  <1>05. SsdShrinks /\ todo[1].step # "EvictSsd" => (SsdDue' => Pending("EvictSsd")')
    BY StillDue
  <1>1. CASE EvictSsd
    <2>1. todo[1].step = "EvictSsd" /\ todo[1].need \in Nat
      BY <1>1, TopFacts, EvictSsdEffect DEF EvictSsd
    <2>2. pins' = pins BY StackKept
    <2>3. CASE /\ cache' = cache
               /\ \/ cache.ssd_bytes + todo[1].need <= cache.ssd_capacity
                  \/ \A k \in Keys : Indexed(cache, k) => Pinned(k)
      <3> DEFINE n == todo[1].need
      <3>1. n \in Nat BY <2>1
      <3>2. \/ cache.ssd_bytes + n <= cache.ssd_capacity
            \/ \A k \in Keys : Indexed(cache, k) => Pinned(k)
        BY <2>3
      <3> HIDE DEF n
      <3>3. ~ OverSsd \/ \A k \in Keys : Indexed(cache, k) => Pinned(k)
        BY <1>00, <3>1, <3>2 DEF OverSsd
      <3> QED BY <2>2, <2>3, <3>3 DEF SsdDue, OverSsd, Pinned
    <2>4. CASE todo' = todo BY <2>1, <2>4, StackKept DEF Pending
    <2>5. CASE todo' # todo /\ cache' # cache
      <3>1. PICK k \in Keys :
                 /\ Indexed(cache, k) /\ Touches(cache, cache', k)
                 /\ cache'.ssd_bytes = Monus(cache.ssd_bytes, IndexedLen(cache, k))
                 /\ cache'.ssd_bytes = cache.ssd_bytes
        BY <1>1, <2>5, EvictSsdEffect
      <3>2. ~ OverSsd BY <3>1, RoundsCount
      <3>3. ~ SsdDue' BY <3>1, <3>2 DEF Touches, SameSettings, SsdDue, OverSsd
      <3> QED BY <3>3
    <2>6. CASE todo' # todo /\ cache' = cache
      <3>1. CASE \/ cache.ssd_bytes + todo[1].need <= cache.ssd_capacity
                 \/ \A k \in Keys : Indexed(cache, k) => Pinned(k)
        BY <2>3, <2>6, <3>1
      <3>2. CASE ~ (\/ cache.ssd_bytes + todo[1].need <= cache.ssd_capacity
                    \/ \A k \in Keys : Indexed(cache, k) => Pinned(k))
        <4>1. PICK k \in Keys : Indexed(cache, k) /\ cache'.disk_index[k] = None
          BY <1>1, <2>6, <3>2, EvictSsdEffect
        <4> QED BY <2>6, <4>1 DEF Indexed
      <3> QED BY <3>1, <3>2
    <2> QED BY <2>4, <2>5, <2>6
  <1>2. CASE DemoteMemory \/ SsdBypass \/ PutSsd \/ MakeRoom
    <2>1. cache' = cache
      BY <1>2, DemoteMemoryEffect, SsdBypassEffect, PutSsdEffect, MakeRoomEffect
    <2>2. todo[1].step # "EvictSsd"
      BY <1>2, DemoteMemoryEffect, SsdBypassEffect, PutSsdEffect, MakeRoomEffect
    <2> QED BY <1>01, <1>05, <2>1, <2>2
  <1>3. CASE PutPmem BY <1>3, <1>02, <1>05, PutPmemEffect DEF SameSsd
  <1>4. CASE EvictMemory
    <2>1. todo[1].step = "EvictMemory" BY <1>4, TopFacts DEF EvictMemory
    <2>2. SsdShrinks BY <1>4, <1>01, <1>02, EvictMemoryEffect DEF SameSsd
    <2> QED BY <1>05, <2>1, <2>2
  <1>5. CASE Forget
    <2>1. todo[1].step = "Forget" BY <1>5, TopFacts DEF Forget
    <2> QED BY <1>5, <1>02, <1>05, <2>1, ForgetEffect DEF SameSsd
  <1>6. CASE EvictPmem
    <2>1. todo[1].step = "EvictPmem" BY <1>6, TopFacts DEF EvictPmem
    <2>2. SsdShrinks BY <1>6, <1>01, <1>02, EvictPmemEffect DEF SameSsd
    <2> QED BY <1>05, <2>1, <2>2
  <1>7. CASE WriteBypass
    <2>1. todo[1].step = "WriteBypass" BY <1>7, WriteBypassEffect
    <2>2. SsdShrinks \/ ~ SsdDue' BY <1>7, <1>01, <1>02, <1>04, WriteBypassEffect
    <2> QED BY <1>05, <2>1, <2>2
  <1>8. CASE Sweep \/ Purge
    <2>1. todo[1].step \in {"Sweep", "Purge"} BY <1>8, TopFacts DEF Sweep, Purge
    <2>2. SsdShrinks BY <1>8, <1>01, <1>03, SweepEffect DEF Removed
    <2> QED BY <1>05, <2>1, <2>2
  <1>9. CASE PutMemory
    <2>1. todo[1].step = "PutMemory" BY <1>9, PutMemoryEffect
    <2>2. SsdShrinks BY <1>9, <1>02, PutMemoryEffect DEF SameSsd
    <2> QED BY <1>05, <2>1, <2>2
  <1>10. CASE PutPmemPart
    <2>1. todo[1].step = "PutPmemPart" BY <1>10, PutPmemPartEffect
    <2>2. SsdShrinks BY <1>10, <1>01, <1>02, PutPmemPartEffect DEF SameSsd
    <2> QED BY <1>05, <2>1, <2>2
  <1>11. CASE WriteSsd
    <2>1. todo[1].step = "WriteSsd" BY <1>11, WriteSsdEffect
    <2>2. SsdShrinks \/ ~ SsdDue' BY <1>11, <1>01, <1>02, <1>04, WriteSsdEffect, WriteFits
    <2> QED BY <1>05, <2>1, <2>2
  <1>12. CASE PutFinish
    <2>1. todo[1].step = "PutFinish" BY <1>12, PutFinishEffect
    <2>2. SsdShrinks BY <1>12, <1>02, <1>03, PutFinishEffect DEF SameSsd
    <2> QED BY <1>05, <2>1, <2>2
  <1> QED BY <1>1, <1>2, <1>3, <1>4, <1>5, <1>6, <1>7, <1>8, <1>9, <1>10, <1>11, <1>12 DEF LockHolder

\* The index lists no block without a length.
LEMMA WeightedStep ==
    ASSUME NothingWeightless, Shape, Weighted, Next
    PROVE  Weighted'
  <1>01. ASSUME cache' = cache PROVE Weighted' BY <1>01 DEF Weighted
  <1>02. ASSUME SameIndex(cache, cache') PROVE Weighted' BY <1>02 DEF SameIndex, Weighted, Indexed
  <1>03. ASSUME NEW k \in Keys, Touches(cache, cache', k),
                \/ cache'.disk_index[k] = None
                \/ \E v \in Values : cache'.disk_index[k] = BlockLen[v]
         PROVE  Weighted'
    BY <1>03 DEF Touches, SameEntry, Weighted, Indexed, NothingWeightless
  <1>1. CASE LockHolder
    <2>1. CASE EvictMemory BY <2>1, <1>01, <1>02, EvictMemoryEffect DEF SameSsd
    <2>2. CASE DemoteMemory \/ SsdBypass \/ PutSsd \/ MakeRoom
      BY <2>2, <1>01, DemoteMemoryEffect, SsdBypassEffect, PutSsdEffect, MakeRoomEffect
    <2>3. CASE PutPmem BY <2>3, <1>02, PutPmemEffect DEF SameSsd
    <2>4. CASE EvictPmem BY <2>4, <1>01, <1>02, EvictPmemEffect DEF SameSsd
    <2>5. CASE Forget BY <2>5, <1>02, ForgetEffect DEF SameSsd
    <2>6. CASE EvictSsd BY <2>6, <1>01, <1>03, EvictSsdEffect
    <2>7. CASE WriteBypass BY <2>7, <1>01, <1>02, <1>03, WriteBypassEffect
    <2>8. CASE Sweep \/ Purge BY <2>8, <1>01, <1>03, SweepEffect DEF Removed
    <2>9. CASE PutMemory BY <2>9, <1>02, PutMemoryEffect DEF SameSsd
    <2>10. CASE PutPmemPart BY <2>10, <1>01, <1>02, PutPmemPartEffect DEF SameSsd
    <2>11. CASE WriteSsd BY <2>11, <1>01, <1>02, <1>03, WriteSsdEffect
    <2>12. CASE PutFinish BY <2>12, <1>02, <1>03, PutFinishEffect DEF SameSsd
    <2> QED BY <1>1, <2>1, <2>2, <2>3, <2>4, <2>5, <2>6, <2>7, <2>8, <2>9, <2>10, <2>11, <2>12
            DEF LockHolder
  <1>2. ASSUME NEW r \in Readers, Read(r) PROVE Weighted'
    <2>1. ASSUME NEW k \in Keys, StartGet(r, k) PROVE Weighted' BY <2>1, <1>01, StartGetEffect
    <2>2. CASE RemoveExpired(r) BY <2>2, <1>01, <1>03, RemoveExpiredEffect DEF Removed
    <2>3. CASE ReadSsd(r) BY <2>3, <1>01, <1>02, ReadSsdEffect DEF SameEntries, SameSsd
    <2>4. CASE FinishSsd(r) BY <2>4, <1>02, FinishSsdEffect DEF SameSsd
    <2>5. CASE Promote(r) BY <2>5, <1>02, PromoteEffect DEF SameSsd
    <2> QED BY <1>2, <2>1, <2>2, <2>3, <2>4, <2>5 DEF Read
  <1>3. CASE Write
    <2>1. ASSUME NEW k \in Keys, NEW v \in Values, NEW heat \in Heats, NEW life \in Lifetimes,
                 PutStart(k, v, heat, life)
          PROVE  Weighted'
      BY <2>1, <1>01, PutStartEffect
    <2>2. ASSUME NEW k \in Keys, NEW v \in Values, PutMemoryOnly(k, v) PROVE Weighted'
      BY <2>2, <1>02, PutMemoryOnlyEffect DEF SameSsd
    <2>3. ASSUME NEW k \in Keys, DropVolatile(k) PROVE Weighted'
      BY <2>3, <1>02, DropVolatileEffect DEF SameSsd
    <2>4. ASSUME NEW k \in Keys, Invalidate(k) PROVE Weighted'
      BY <2>4, <1>03, InvalidateEffect DEF Removed
    <2>5. CASE Clear
      <3>1. NothingIn(cache') \/ SameSsd(cache, cache') BY <2>5, ClearEffect
      <3> QED BY <1>02, <3>1 DEF NothingIn, Weighted, Indexed, SameSsd
    <2>6. CASE PurgeStart BY <2>6, <1>01, PurgeStartEffect
    <2> QED BY <1>3, <2>1, <2>2, <2>3, <2>4, <2>5, <2>6 DEF Write
  <1>4. CASE Manage
    <2>1. CASE \/ \E n \in MemoryCapacities : SetMemoryCapacity(n)
               \/ \E n \in PmemCapacities : SetPmemCapacity(n)
               \/ \E n \in SsdCapacities : SetSsdCapacity(n)
      BY <2>1, <1>02, CapacityEffect DEF SameEntries, SameSsd
    <2>2. ASSUME NEW b \in BOOLEAN, SetSsdOnly(b) PROVE Weighted'
      BY <2>2, <1>02, SetSsdOnlyEffect DEF SameSsd
    <2>3. ASSUME NEW b \in BOOLEAN, SetStarted(b) \/ SetDefaultTtl(b) PROVE Weighted'
      BY <2>3, <1>02, SwitchEffect DEF SameEntries, SameSsd
    <2>4. ASSUME NEW k \in Keys, Pin(k) \/ Unpin(k) PROVE Weighted' BY <2>4, <1>01, PinEffect
    <2>5. ASSUME NEW k \in Keys, Lapse(k) PROVE Weighted' BY <2>5, <1>02, LapseEffect DEF SameSsd
    <2>6. CASE Reclaim BY <2>6, <1>01, ReclaimEffect
    <2> QED BY <1>4, <2>1, <2>2, <2>3, <2>4, <2>5, <2>6 DEF Manage
  <1> QED BY <1>1, <1>2, <1>3, <1>4 DEF Next

\* Together: what the lock holder does keeps the tiers within their capacities.
LEMMA CappedLockHolder ==
    ASSUME NothingWeightless, Shape, Shape', Capped, LockHolder
    PROVE  Capped'
  <1>1. UNCHANGED <<pins, reclaims>> BY StackKept
  <1>2. Weighted' BY WeightedStep DEF Capped, Next
  <1>3. RoomMade' BY RoomKept
  <1>4. reclaims = 0 => /\ MemoryDue' => Pending("EvictMemory")'
                        /\ PmemDue' => Pending("EvictPmem")'
                        /\ SsdDue' => Pending("EvictSsd")'
    BY MemoryLockHolder, PmemLockHolder, SsdLockHolder DEF Capped
  <1> QED BY <1>1, <1>2, <1>3, <1>4 DEF Capped

-----------------------------------------------------------------------------
(* The calls.                                                              *)

\* A call that starts with the lock free leaves every tier within its capacity
\* or its eviction before it.
LEMMA CappedCalled ==
    ASSUME Shape, Shape', Unlocked, Capped, Weighted',
           "pin" \notin Calls => \A k \in Keys : pins'[k] = 0,
           \/ todo' = todo
           \/ \E new : Begins(new) /\ \A x \in new : x.step # "WriteSsd",
           reclaims' = 0 => /\ MemoryDue' => Pending("EvictMemory")'
                            /\ PmemDue' => Pending("EvictPmem")'
                            /\ SsdDue' => Pending("EvictSsd")'
    PROVE  Capped'
  <1>1. ~ Pending("WriteSsd")' BY UnlockedFacts DEF Begins, Pending
  <1>2. RoomMade' BY <1>1 DEF RoomMade
  <1> QED BY <1>2 DEF Capped

\* A call after which every tier holds no more than before, pinned as before.
LEMMA CappedShrunk ==
    ASSUME Shape, Shape', Unlocked, Capped, Weighted', MemoryShrinks, PmemShrinks, SsdShrinks,
           reclaims' = reclaims,
           "pin" \notin Calls => \A k \in Keys : pins'[k] = 0,
           \A k \in Keys : Pinned(k) => Pinned(k)' \/ ~ InSomeTier(cache', k),
           \/ todo' = todo
           \/ \E new : Begins(new) /\ \A x \in new : x.step # "WriteSsd"
    PROVE  Capped'
  <1>1. \A step : ~ Pending(step) BY UnlockedFacts DEF Pending
  <1>2. reclaims = 0 => ~ MemoryDue /\ ~ PmemDue /\ ~ SsdDue BY <1>1 DEF Capped
  <1>3. reclaims = 0 => ~ MemoryDue' /\ ~ PmemDue' /\ ~ SsdDue' BY <1>2, ShrinkingIsCalm
  <1> QED BY <1>3, CappedCalled

\* A call that changes nothing a capacity depends on.
LEMMA CappedSame ==
    ASSUME Shape, Shape', Unlocked, Capped, Weighted', UNCHANGED <<pins, reclaims>>,
           SameMemory(cache, cache'), SamePmem(cache, cache'), SameIndex(cache, cache'),
           cache'.memory_capacity = cache.memory_capacity,
           cache'.pmem_capacity = cache.pmem_capacity, cache'.ssd_capacity = cache.ssd_capacity,
           \/ todo' = todo
           \/ \E new : Begins(new) /\ \A x \in new : x.step # "WriteSsd"
    PROVE  Capped'
  <1>1. MemoryShrinks /\ PmemShrinks /\ SsdShrinks
    BY Counters DEF MemoryShrinks, PmemShrinks, SsdShrinks, SameMemory, SamePmem, SameIndex,
                    InMemory, InPmem, Indexed
  <1> QED BY <1>1, CappedShrunk DEF Capped, Pinned

\* Removing an entry from every tier, with or without its pins.
LEMMA CappedRemoved ==
    ASSUME Shape, Shape', Unlocked, Capped, Weighted', NEW k \in Keys, NEW ok, Removed(k, ok),
           reclaims' = reclaims, todo' = todo,
           "pin" \notin Calls => pins'[k] = 0, \A x \in Keys \ {k} : pins'[x] = pins[x]
    PROVE  Capped'
  <1>1. MemoryShrinks /\ PmemShrinks /\ SsdShrinks BY Shrinking DEF Removed, Touches
  <1>2. ~ InSomeTier(cache', k) BY DEF Removed, InSomeTier, InMemory, InPmem, Indexed
  <1>3. \A x \in Keys : Pinned(x) => Pinned(x)' \/ ~ InSomeTier(cache', x) BY <1>2 DEF Pinned
  <1>4. "pin" \notin Calls => \A x \in Keys : pins'[x] = 0 BY DEF Capped
  <1> QED BY <1>1, <1>3, <1>4, CappedShrunk

\* A call that leaves an eviction of the memory tier before it.
LEMMA CappedFilled ==
    ASSUME Shape, Shape', Unlocked, Capped, Weighted', UNCHANGED <<pins, reclaims>>,
           SamePmem(cache, cache'), SameIndex(cache, cache'), SameSettings(cache, cache'),
           Begins({[step |-> "EvictMemory"]})
    PROVE  Capped'
  <1> DEFINE x == [step |-> "EvictMemory"]
  <1>1. x \in OnStack(todo') /\ x.step = "EvictMemory" BY DEF Begins
  <1> HIDE DEF x
  <1>2. Pending("EvictMemory")' BY <1>1 DEF Pending
  <1>3. \A step : ~ Pending(step) BY UnlockedFacts DEF Pending
  <1>4. reclaims = 0 => ~ PmemDue /\ ~ SsdDue BY <1>3 DEF Capped
  <1>5. PmemShrinks /\ SsdShrinks BY Shrinking
  <1>6. \A k \in Keys : Pinned(k) => Pinned(k)' \/ ~ InSomeTier(cache', k) BY DEF Pinned
  <1>7. reclaims = 0 => ~ PmemDue' /\ ~ SsdDue' BY <1>4, <1>5, <1>6, ShrinkingIsCalm
  <1>8. \A y \in {[step |-> "EvictMemory"]} : y.step # "WriteSsd" OBVIOUS
  <1> QED BY <1>2, <1>7, <1>8, CappedCalled DEF Capped

\* A read.
LEMMA CappedRead ==
    ASSUME NothingWeightless, Shape, Shape', Capped, NEW r \in Readers, Read(r)
    PROVE  Capped'
  <1>0. Weighted' BY WeightedStep DEF Capped, Next
  <1>01. ASSUME Unlocked, cache' = cache, UNCHANGED <<pins, reclaims, todo>> PROVE Capped'
    BY <1>0, <1>01, CappedSame DEF SameMemory, SamePmem, SameIndex
  <1>1. ASSUME NEW k \in Keys, StartGet(r, k) PROVE Capped'
    BY <1>01, <1>1, StartGetEffect DEF StartGet
  <1>2. CASE RemoveExpired(r)
    <2>1. CASE cache' = cache BY <1>01, <1>2, <2>1, RemoveExpiredEffect
    <2>2. CASE cache' # cache
      <3>1. \E ok : Removed(reader[r].key, ok) BY <1>2, <2>2, RemoveExpiredEffect
      <3>2. Unlocked /\ reader[r].key \in Keys /\ UNCHANGED <<pins, reclaims, todo>>
        BY <1>2, RemoveExpiredEffect
      <3>3. "pin" \notin Calls => pins'[reader[r].key] = 0 BY <3>2 DEF Capped
      <3> QED BY <1>0, <3>1, <3>2, <3>3, CappedRemoved
    <2> QED BY <2>1, <2>2
  <1>3. CASE ReadSsd(r)
    <2>1. CASE cache' = cache BY <1>01, <1>3, <2>1, ReadSsdEffect
    <2>2. CASE cache' # cache
      BY <1>0, <1>3, <2>2, ReadSsdEffect, CappedSame DEF SameEntries, SameSsd, SameSettings
    <2> QED BY <2>1, <2>2
  <1>4. CASE FinishSsd(r)
    <2> DEFINE k == reader[r].key
               v == reader[r].val
    <2>1. /\ Unlocked /\ UNCHANGED <<pins, reclaims>> /\ SamePmem(cache, cache')
          /\ SameIndex(cache, cache') /\ SameSettings(cache, cache')
      BY <1>4, FinishSsdEffect DEF SameSsd, Touches
    <2>2. CASE Begins({[step |-> "EvictMemory"]}) BY <1>0, <2>1, <2>2, CappedFilled
    <2>3. CASE SameMemory(cache, cache') /\ todo' = todo
      BY <1>0, <2>1, <2>3, CappedSame DEF SameSettings
    <2>4. CASE /\ SameMemory(cache, cache')
               /\ Begins({[step |-> "PutPmem", key |-> k, val |-> v, fallback |-> FALSE]})
      <3>1. \A x \in {[step |-> "PutPmem", key |-> k, val |-> v, fallback |-> FALSE]} :
               x.step # "WriteSsd"
        OBVIOUS
      <3> QED BY <1>0, <2>1, <2>4, <3>1, CappedSame DEF SameSettings
    <2> QED BY <1>4, <2>2, <2>3, <2>4, FinishSsdEffect
  <1>5. CASE Promote(r)
    <2>1. /\ Unlocked /\ UNCHANGED <<pins, reclaims>> /\ SamePmem(cache, cache')
          /\ SameIndex(cache, cache') /\ SameSettings(cache, cache')
      BY <1>5, PromoteEffect DEF SameSsd, Touches
    <2>2. CASE Begins({[step |-> "EvictMemory"]}) BY <1>0, <2>1, <2>2, CappedFilled
    <2>3. CASE SameMemory(cache, cache') /\ todo' = todo
      BY <1>0, <2>1, <2>3, CappedSame DEF SameSettings
    <2>4. CASE cache' = cache /\ todo' = todo BY <1>01, <2>1, <2>4
    <2> QED BY <1>5, <2>2, <2>3, <2>4, PromoteEffect
  <1> QED BY <1>1, <1>2, <1>3, <1>4, <1>5 DEF Read

\* A call that writes or removes.
LEMMA CappedWrite ==
    ASSUME NothingWeightless, PinsCounted, Shape, Shape', Capped, Write
    PROVE  Capped'
  <1>0. Weighted' BY WeightedStep DEF Capped, Next
  <1>1. ASSUME NEW k \in Keys, NEW v \in Values, NEW heat \in Heats, NEW life \in Lifetimes,
               PutStart(k, v, heat, life)
        PROVE  Capped'
    <2> DEFINE new == {[step |-> "Sweep"], [step |-> "PutMemory"], [step |-> "PutPmemPart"],
                       [step |-> "PutSsd"], [step |-> "PutFinish"]}
    <2>1. \A x \in new : x.step # "WriteSsd" OBVIOUS
    <2> HIDE DEF new
    <2>2. Begins(new) BY <1>1, PutStartEffect DEF new
    <2>3. Unlocked /\ UNCHANGED <<cache, pins, reclaims>> BY <1>1, PutStartEffect
    <2> QED BY <1>0, <2>1, <2>2, <2>3, CappedSame DEF SameMemory, SamePmem, SameIndex
  <1>2. ASSUME NEW k \in Keys, NEW v \in Values, PutMemoryOnly(k, v) PROVE Capped'
    <2>1. /\ Unlocked /\ UNCHANGED <<pins, reclaims>> /\ SamePmem(cache, cache')
          /\ SameIndex(cache, cache') /\ SameSettings(cache, cache')
      BY <1>2, PutMemoryOnlyEffect DEF SameSsd, Touches
    <2>2. CASE Begins({[step |-> "EvictMemory"]}) BY <1>0, <2>1, <2>2, CappedFilled
    <2>3. CASE SameMemory(cache, cache') /\ todo' = todo
      BY <1>0, <2>1, <2>3, CappedSame DEF SameSettings
    <2> QED BY <1>2, <2>2, <2>3, PutMemoryOnlyEffect
  <1>3. ASSUME NEW k \in Keys, DropVolatile(k) PROVE Capped'
    <2>1. /\ Unlocked /\ "pin" \notin Calls /\ UNCHANGED <<reclaims, todo>>
          /\ Touches(cache, cache', k) /\ SameIndex(cache, cache')
          /\ cache'.memory[k] = None /\ cache'.pmem[k] = None
          /\ cache'.memory_bytes <= cache.memory_bytes /\ cache'.pmem_bytes <= cache.pmem_bytes
      BY <1>3, DropVolatileEffect DEF PinsCounted, SameSsd
    <2>2. \A x \in Keys : pins[x] = 0 BY <2>1 DEF Capped
    <2>3. \A x \in Keys : pins'[x] = 0 BY <1>3, <2>2, DropVolatileEffect DEF Unpinning
    <2>4. MemoryShrinks /\ PmemShrinks /\ SsdShrinks BY <2>1, Shrinking DEF Touches
    <2>5. \A x \in Keys : Pinned(x) => Pinned(x)' \/ ~ InSomeTier(cache', x) BY <2>2 DEF Pinned
    <2> QED BY <1>0, <2>1, <2>3, <2>4, <2>5, CappedShrunk
  <1>4. ASSUME NEW k \in Keys, Invalidate(k) PROVE Capped'
    <2>1. Unlocked /\ UNCHANGED <<reclaims, todo>> /\ \E ok : Removed(k, ok)
      BY <1>4, InvalidateEffect
    <2>2. /\ \A x \in Keys \ {k} : pins'[x] = pins[x]
          /\ pins'[k] = pins[k] \/ pins'[k] = 0
      BY <1>4, InvalidateEffect DEF Unpinning
    <2>3. "pin" \notin Calls => pins'[k] = 0 BY <2>2 DEF Capped
    <2> QED BY <1>0, <2>1, <2>2, <2>3, CappedRemoved
  <1>5. CASE Clear
    <2>1. /\ Unlocked /\ UNCHANGED <<reclaims, todo>> /\ SameSettings(cache, cache')
          /\ pins' = [k \in Keys |-> 0] \/ pins' = pins
      BY <1>5, ClearEffect DEF Clear
    <2>2. "pin" \notin Calls => \A k \in Keys : pins'[k] = 0 BY <2>1 DEF Capped
    <2>3. cache'.memory_capacity \in Nat /\ cache'.pmem_capacity \in Nat /\ cache'.ssd_capacity \in Nat
      BY <2>1, Counters DEF SameSettings
    <2>4. CASE NothingIn(cache')
      <3>1. ~ MemoryDue' /\ ~ PmemDue' /\ ~ SsdDue'
        BY <2>3, <2>4 DEF NothingIn, MemoryDue, PmemDue, SsdDue, InMemory, InPmem, Indexed
      <3> QED BY <1>0, <2>1, <2>2, <3>1, CappedCalled
    <2>5. CASE /\ pins' = pins /\ SameSsd(cache, cache')
               /\ \A k \in Keys : cache'.memory[k] = None /\ cache'.pmem[k] = None
      <3>1. ~ MemoryDue' /\ ~ PmemDue' BY <2>5 DEF MemoryDue, PmemDue, InMemory, InPmem
      <3>2. SsdShrinks BY <2>1, <2>5, Shrinking DEF SameSsd
      <3>3. \A step : ~ Pending(step) BY <2>1, UnlockedFacts DEF Pending
      <3>4. reclaims = 0 => ~ SsdDue BY <3>3 DEF Capped
      <3>5. \A k \in Keys : Pinned(k) => Pinned(k)' \/ ~ InSomeTier(cache', k) BY <2>5 DEF Pinned
      <3>6. reclaims = 0 => ~ SsdDue' BY <3>2, <3>4, <3>5, ShrinkingIsCalm
      <3> QED BY <1>0, <2>1, <2>2, <3>1, <3>6, CappedCalled
    <2> QED BY <1>5, <2>4, <2>5, ClearEffect
  <1>6. CASE PurgeStart
    <2>1. \A x \in {[step |-> "Purge"]} : x.step # "WriteSsd" OBVIOUS
    <2> QED BY <1>0, <1>6, <2>1, PurgeStartEffect, CappedSame DEF SameMemory, SamePmem, SameIndex
  <1> QED BY <1>1, <1>2, <1>3, <1>4, <1>5, <1>6 DEF Write

\* A call that manages the cache.
LEMMA CappedManage ==
    ASSUME NothingWeightless, Shape, Shape', Capped, Manage
    PROVE  Capped'
  <1>0. Weighted' BY WeightedStep DEF Capped, Next
  <1>00. Unlocked => \A step : ~ Pending(step) BY UnlockedFacts DEF Pending
  <1>01. UNCHANGED pins => /\ "pin" \notin Calls => \A k \in Keys : pins'[k] = 0
                           /\ \A k \in Keys : Pinned(k) => Pinned(k)' \/ ~ InSomeTier(cache', k)
    BY DEF Capped, Pinned
  <1>1. CASE \/ \E n \in MemoryCapacities : SetMemoryCapacity(n)
             \/ \E n \in PmemCapacities : SetPmemCapacity(n)
             \/ \E n \in SsdCapacities : SetSsdCapacity(n)
    <2>1. Unlocked /\ UNCHANGED <<pins, reclaims>> /\ SameEntries(cache, cache')
      BY <1>1, CapacityEffect
    <2>2. reclaims = 0 => ~ MemoryDue /\ ~ PmemDue /\ ~ SsdDue BY <1>00, <2>1 DEF Capped
    <2>3. /\ cache'.memory_capacity = cache.memory_capacity => MemoryShrinks
          /\ cache'.pmem_capacity = cache.pmem_capacity => PmemShrinks
          /\ cache'.ssd_capacity = cache.ssd_capacity => SsdShrinks
      BY <2>1, Counters
         DEF SameEntries, SameSsd, SameMemory, SamePmem, SameIndex, MemoryShrinks, PmemShrinks,
             SsdShrinks, InMemory, InPmem, Indexed
    <2>4. reclaims = 0 => /\ MemoryShrinks => ~ MemoryDue'
                          /\ PmemShrinks => ~ PmemDue'
                          /\ SsdShrinks => ~ SsdDue'
      BY <1>01, <2>1, <2>2, ShrinkingIsCalm
    <2>5. ASSUME NEW x, Begins({x}), x.step # "WriteSsd",
                 reclaims = 0 => /\ MemoryDue' => x.step = "EvictMemory"
                                 /\ PmemDue' => x.step = "EvictPmem"
                                 /\ SsdDue' => x.step = "EvictSsd"
          PROVE  Capped'
      <3>1. x \in OnStack(todo') BY <2>5 DEF Begins
      <3>2. \A step : x.step = step => Pending(step)' BY <3>1 DEF Pending
      <3>3. \A y \in {x} : y.step # "WriteSsd" BY <2>5
      <3> QED BY <1>0, <1>01, <2>1, <2>5, <3>2, <3>3, CappedCalled
    <2>6. [step |-> "EvictMemory"].step = "EvictMemory" /\ [step |-> "EvictPmem"].step = "EvictPmem"
          /\ [step |-> "EvictSsd", need |-> 0].step = "EvictSsd"
      OBVIOUS
    <2>7. CASE /\ Begins({[step |-> "EvictMemory"]})
               /\ cache'.pmem_capacity = cache.pmem_capacity
               /\ cache'.ssd_capacity = cache.ssd_capacity
      BY <2>3, <2>4, <2>5, <2>6, <2>7
    <2>8. CASE /\ Begins({[step |-> "EvictPmem"]})
               /\ cache'.memory_capacity = cache.memory_capacity
               /\ cache'.ssd_capacity = cache.ssd_capacity
      BY <2>3, <2>4, <2>5, <2>6, <2>8
    <2>9. CASE /\ Begins({[step |-> "EvictSsd", need |-> 0]})
               /\ cache'.memory_capacity = cache.memory_capacity
               /\ cache'.pmem_capacity = cache.pmem_capacity
      BY <2>3, <2>4, <2>5, <2>6, <2>9
    <2> QED BY <1>1, <2>7, <2>8, <2>9, CapacityEffect
  <1>2. ASSUME NEW b \in BOOLEAN, SetSsdOnly(b) PROVE Capped'
    <2>1. /\ Unlocked /\ UNCHANGED <<pins, reclaims, todo>> /\ SameIndex(cache, cache')
          /\ cache'.memory_capacity = cache.memory_capacity
          /\ cache'.pmem_capacity = cache.pmem_capacity /\ cache'.ssd_capacity = cache.ssd_capacity
      BY <1>2, SetSsdOnlyEffect DEF SameSsd
    <2>2. CASE SameEntries(cache, cache')
      BY <1>0, <2>1, <2>2, CappedSame DEF SameEntries
    <2>3. CASE /\ cache'.memory_bytes = 0 /\ cache'.pmem_bytes = 0
               /\ \A k \in Keys : cache'.memory[k] = None /\ cache'.pmem[k] = None
      <3>1. MemoryShrinks /\ PmemShrinks /\ SsdShrinks
        BY <2>1, <2>3, Counters DEF MemoryShrinks, PmemShrinks, SsdShrinks, SameIndex, InMemory,
                                    InPmem, Indexed
      <3> QED BY <1>0, <1>01, <2>1, <3>1, CappedShrunk
    <2> QED BY <1>2, <2>2, <2>3, SetSsdOnlyEffect
  <1>3. ASSUME NEW b \in BOOLEAN, SetStarted(b) \/ SetDefaultTtl(b) PROVE Capped'
    BY <1>0, <1>3, SwitchEffect, CappedSame DEF SameEntries, SameSsd
  <1>4. ASSUME NEW k \in Keys, Pin(k) \/ Unpin(k) PROVE Capped'
    <2>1. /\ Unlocked /\ "pin" \in Calls /\ UNCHANGED <<cache, todo>>
          /\ pins \in [Keys -> 0 .. MaxPins]
          /\ reclaims \in Nat /\ \A x \in Keys \ {k} : pins'[x] = pins[x]
      BY <1>4, PinEffect, CacheAssumption DEF Shape
    <2>2. CASE pins'[k] = pins[k] + 1 /\ reclaims' = reclaims
      <3>1. pins[k] \in Nat BY <2>1, CacheAssumption
      <3>2. \A x \in Keys : Pinned(x) => Pinned(x)' BY <2>1, <2>2, <3>1 DEF Pinned
      <3>3. MemoryShrinks /\ PmemShrinks /\ SsdShrinks
        BY <2>1, Counters DEF MemoryShrinks, PmemShrinks, SsdShrinks
      <3> QED BY <1>0, <2>1, <2>2, <3>2, <3>3, CappedShrunk
    <2>3. CASE reclaims' = IF OverMemory \/ OverPmem \/ OverSsd THEN reclaims + 1 ELSE reclaims
      <3>1. reclaims' = 0 => ~ (OverMemory \/ OverPmem \/ OverSsd) BY <2>1, <2>3
      <3>2. reclaims' = 0 => ~ MemoryDue' /\ ~ PmemDue' /\ ~ SsdDue'
        BY <2>1, <3>1 DEF MemoryDue, PmemDue, SsdDue, OverMemory, OverPmem, OverSsd
      <3> QED BY <1>0, <2>1, <3>2, CappedCalled
    <2> QED BY <1>4, <2>2, <2>3, PinEffect
  <1>5. ASSUME NEW k \in Keys, Lapse(k) PROVE Capped'
    BY <1>0, <1>5, LapseEffect, CappedSame DEF SameSsd, Touches, SameSettings
  <1>6. CASE Reclaim
    <2> DEFINE m == [step |-> "EvictMemory"]
               p == [step |-> "EvictPmem"]
               s == [step |-> "EvictSsd", need |-> 0]
    <2>1. m.step = "EvictMemory" /\ p.step = "EvictPmem" /\ s.step = "EvictSsd" OBVIOUS
    <2>2. Unlocked /\ UNCHANGED <<cache, pins>> /\ Begins({m, p, s}) BY <1>6, ReclaimEffect
    <2> HIDE DEF m, p, s
    <2>3. m \in OnStack(todo') /\ p \in OnStack(todo') /\ s \in OnStack(todo') BY <2>2 DEF Begins
    <2>4. Pending("EvictMemory")' /\ Pending("EvictPmem")' /\ Pending("EvictSsd")'
      BY <2>1, <2>3 DEF Pending
    <2>5. \A x \in {m, p, s} : x.step # "WriteSsd" BY <2>1
    <2> QED BY <1>0, <1>01, <2>2, <2>4, <2>5, CappedCalled
  <1> QED BY <1>1, <1>2, <1>3, <1>4, <1>5, <1>6 DEF Manage

\* A cache with nothing in it is above no capacity.
LEMMA CappedInit == Init => Capped
  <1> SUFFICES ASSUME Init PROVE Capped OBVIOUS
  <1>1. PICK m \in MemoryCapacities, p \in PmemCapacities, s \in SsdCapacities :
           cache = EmptyInner(m, p, s)
    BY DEF Init
  <1>2. m \in Nat /\ p \in Nat /\ s \in Nat BY CacheAssumption
  <1>3. NothingIn(cache) BY <1>1, <1>2, EmptyInnerFields
  <1>4. \A k \in Keys : pins[k] = 0 BY DEF Init
  <1>5. Weighted BY <1>3 DEF NothingIn, Weighted, Indexed
  <1>6. ~ MemoryDue /\ ~ PmemDue /\ ~ SsdDue
    BY <1>3 DEF NothingIn, MemoryDue, PmemDue, SsdDue, InMemory, InPmem, Indexed
  <1>7. RoomMade
    <2>1. OnStack(todo) = {} BY EmptyStack DEF Init
    <2> QED BY <2>1 DEF RoomMade, Pending
  <1> QED BY <1>4, <1>5, <1>6, <1>7 DEF Capped

\* Nothing the cache does leaves a tier above its capacity with something in it
\* that could be evicted, once the lock is free and the releases are through.
\* put_memory_shared, put_pmem_shared, put_ssd_bypass_if_absent,
\* make_room_for_ssd_install, set_capacity_for_tier and reclaim_after_release
\* each end in the eviction of what they filled, or wrote only what fits.
\* Excluded: empty values, and invalidate_memory_only beside pins.
THEOREM OverOnlyWhilePinned ==
    ASSUME NothingWeightless, PinsCounted
    PROVE  Spec => []OverOnlyWhenPinned
  <1>1. Init => Capped BY CappedInit
  <1>2. Capped /\ Shape /\ Shape' /\ [Next]_vars => Capped'
    <2> SUFFICES ASSUME Capped, Shape, Shape', [Next]_vars PROVE Capped' OBVIOUS
    <2>1. CASE LockHolder BY <2>1, CappedLockHolder
    <2>2. ASSUME NEW r \in Readers, Read(r) PROVE Capped' BY <2>2, CappedRead
    <2>3. CASE Write BY <2>3, CappedWrite
    <2>4. CASE Manage BY <2>4, CappedManage
    <2>5. CASE UNCHANGED vars
      BY <2>5 DEF vars, Capped, Weighted, RoomMade, MemoryDue, PmemDue, SsdDue, Pending, OverMemory,
                  OverPmem, OverSsd, Pinned
    <2> QED BY <2>1, <2>2, <2>3, <2>4, <2>5 DEF Next
  <1>3. Shape /\ Capped => OverOnlyWhenPinned
    <2> SUFFICES ASSUME Shape, Capped, Unlocked, reclaims = 0
                 PROVE  ~ MemoryDue /\ ~ PmemDue /\ ~ SsdDue
      BY DEF OverOnlyWhenPinned, MemoryDue, PmemDue, SsdDue
    <2>1. \A step : ~ Pending(step) BY UnlockedFacts DEF Pending
    <2> QED BY <2>1 DEF Capped
  <1> QED BY <1>1, <1>2, <1>3, ShapeInvariant, PTL DEF Spec
=============================================================================
