--------------------------- MODULE PinTableProofs ---------------------------
(***************************************************************************)
(* The proofs that pin_handles is never less than what the stripes hold,   *)
(* however many threads acquire and release at once and whatever entries   *)
(* are dropped in between; and that a key therefore counts as pinned for   *)
(* as long as a handle on it is out.                                       *)
(*                                                                         *)
(* The total is ahead of the entries by what threads are about to add to   *)
(* them, or have taken from them and not yet from the total. Entries that  *)
(* are dropped may leave it further ahead, never behind.                   *)
(***************************************************************************)
EXTENDS PinTable, FiniteSetTheorems, WellFoundedInduction, NaturalsInduction, TLAPS

-----------------------------------------------------------------------------
(* Sums over a finite set, by induction on its size: the least size at     *)
(* which a claim fails is not zero, and the size below it shows the claim. *)

\* The partial sums of a function, as SumFunctionOnSet accumulates them.
Accumulates(it, f, D) ==
    it = [s \in D |-> IF s = {} THEN 0
                      ELSE f[CHOOSE x \in s : TRUE] + it[s \ {CHOOSE x \in s : TRUE}]]

\* A set of naturals that is not empty has a least element.
LEMMA LeastNatural ==
    ASSUME NEW T \in SUBSET Nat, T # {}
    PROVE  \E n \in T : \A m \in T : n <= m
  <1>1. \E n \in T : \A m \in T : ~ (<<m, n>> \in OpToRel(<, Nat))
    BY NatLessThanWellFounded, WFMin, Zenon
  <1>2. PICK n \in T : \A m \in T : ~ (<<m, n>> \in OpToRel(<, Nat))  BY <1>1
  <1>3. \A m \in T : <<m, n>> \in Nat \X Nat  OBVIOUS
  <1>4. \A m \in T : ~ (m < n)  BY <1>2, <1>3 DEF OpToRel
  <1> QED BY <1>4

\* A subset of S loses one element at each step of the sum.
LEMMA OneFewer ==
    ASSUME NEW S, IsFiniteSet(S), NEW s \in SUBSET S, s # {}
    PROVE  LET x == CHOOSE y \in s : TRUE
           IN /\ x \in s /\ s \ {x} \in SUBSET S
              /\ Cardinality(s) \in Nat /\ Cardinality(s \ {x}) \in Nat
              /\ Cardinality(s \ {x}) = Cardinality(s) - 1
  <1> DEFINE x == CHOOSE y \in s : TRUE
  <1>1. x \in s  OBVIOUS
  <1>2. IsFiniteSet(s)  BY FS_Subset
  <1>3. Cardinality(s) \in Nat  BY <1>2, FS_CardinalityType
  <1>4. IsFiniteSet(s \ {x}) /\ Cardinality(s \ {x}) = Cardinality(s) - 1
    BY <1>1, <1>2, FS_RemoveElement
  <1>5. Cardinality(s \ {x}) \in Nat  BY <1>4, FS_CardinalityType
  <1> QED BY <1>1, <1>3, <1>4, <1>5

\* The partial sums up to sets of n elements.
UpTo(S, n) == {s \in SUBSET S : Cardinality(s) <= n}

LEMMA AccumulatesUpTo ==
    ASSUME NEW f, NEW S, IsFiniteSet(S), NEW n \in Nat
    PROVE  \E it : Accumulates(it, f, UpTo(S, n))
  <1> DEFINE Bad == {m \in Nat : ~ \E it : Accumulates(it, f, UpTo(S, m))}
  <1> SUFFICES ASSUME Bad # {} PROVE FALSE  OBVIOUS
  <1>1. PICK m \in Bad : \A j \in Bad : m <= j  BY LeastNatural
  <1> m \in Nat  OBVIOUS
  <1>2. CASE m = 0
    <2> DEFINE it == [s \in UpTo(S, 0) |-> 0]
    <2>1. \A s \in UpTo(S, 0) : s = {}
      BY FS_Subset, FS_CardinalityType, FS_EmptySet DEF UpTo
    <2>2. Accumulates(it, f, UpTo(S, 0))  BY <2>1 DEF Accumulates
    <2> QED BY <1>2, <2>2
  <1>3. CASE m > 0
    <2> DEFINE j == m - 1
    <2>1. j \in Nat /\ j \notin Bad /\ j + 1 = m  BY <1>1, <1>3
    <2>2. PICK it : Accumulates(it, f, UpTo(S, j))  BY <2>1
    <2> DEFINE G(s) == IF s = {} THEN 0
                       ELSE f[CHOOSE x \in s : TRUE] + it[s \ {CHOOSE x \in s : TRUE}]
               next == [s \in UpTo(S, m) |-> G(s)]
    <2>3. \A s \in UpTo(S, j) : it[s] = G(s) /\ s \in UpTo(S, m)
      <3> TAKE s \in UpTo(S, j)
      <3>1. it[s] = G(s)  BY <2>2 DEF Accumulates
      <3>2. Cardinality(s) \in Nat  BY FS_Subset, FS_CardinalityType DEF UpTo
      <3> QED BY <3>1, <3>2, <2>1 DEF UpTo
    <2>4. \A s \in UpTo(S, m) : s # {} => s \ {CHOOSE x \in s : TRUE} \in UpTo(S, j)
      BY <2>1, OneFewer DEF UpTo
    <2>5. \A s \in UpTo(S, j) : next[s] = it[s]  BY <2>3
    <2> HIDE DEF next
    <2>6. \A s \in UpTo(S, m) :
             G(s) = IF s = {} THEN 0
                    ELSE f[CHOOSE x \in s : TRUE] + next[s \ {CHOOSE x \in s : TRUE}]
      BY <2>4, <2>5
    <2>7. Accumulates(next, f, UpTo(S, m))  BY <2>6 DEF next, Accumulates
    <2> QED BY <2>7
  <1> QED BY <1>2, <1>3

\* SumFunctionOnSet takes its terms one by one.
LEMMA SumUnfolds ==
    ASSUME NEW f, NEW S, IsFiniteSet(S)
    PROVE  \E it : Accumulates(it, f, SUBSET S) /\ SumFunctionOnSet(f, S) = it[S]
  <1>1. SumFunctionOnSet(f, S) = (CHOOSE it : Accumulates(it, f, SUBSET S))[S]
    BY DEF SumFunctionOnSet, FoldFunctionOnSet, MapThenFoldSet, Accumulates
  <1>2. \E it : Accumulates(it, f, SUBSET S)
    <2>1. Cardinality(S) \in Nat  BY FS_CardinalityType
    <2>2. UpTo(S, Cardinality(S)) = SUBSET S  BY FS_Subset DEF UpTo
    <2>3. \E it : Accumulates(it, f, UpTo(S, Cardinality(S)))  BY <2>1, AccumulatesUpTo
    <2> QED BY <2>2, <2>3
  <1> QED BY <1>1, <1>2

\* Partial sums do not depend on the set they were begun for.
LEMMA SamePartialSums ==
    ASSUME NEW f, NEW S, IsFiniteSet(S), NEW T \in SUBSET S, NEW F, NEW G,
           Accumulates(F, f, SUBSET S), Accumulates(G, f, SUBSET T)
    PROVE  \A s \in SUBSET T : F[s] = G[s]
  <1> DEFINE Bad == {n \in Nat : \E s \in SUBSET T : Cardinality(s) = n /\ F[s] # G[s]}
  <1>1. \A s \in SUBSET T : Cardinality(s) \in Nat  BY FS_Subset, FS_CardinalityType
  <1> SUFFICES ASSUME Bad # {} PROVE FALSE  BY <1>1
  <1>2. PICK n \in Bad : \A m \in Bad : n <= m  BY LeastNatural
  <1>3. PICK s \in SUBSET T : Cardinality(s) = n /\ F[s] # G[s]  BY <1>2
  <1>4. CASE s = {}  BY <1>3, <1>4 DEF Accumulates
  <1>5. CASE s # {}
    <2> DEFINE x == CHOOSE y \in s : TRUE
    <2>1. /\ x \in s /\ s \ {x} \in SUBSET T /\ Cardinality(s \ {x}) \in Nat
          /\ Cardinality(s \ {x}) < n
      <3>1. IsFiniteSet(T)  BY FS_Subset
      <3> QED BY <1>3, <1>5, <3>1, OneFewer
    <2>2. F[s \ {x}] = G[s \ {x}]  BY <1>2, <2>1
    <2>3. F[s] = f[x] + F[s \ {x}] /\ G[s] = f[x] + G[s \ {x}]  BY <1>5 DEF Accumulates
    <2> QED BY <1>3, <2>2, <2>3
  <1> QED BY <1>4, <1>5

\* The sum of no terms, and the sum without the term taken first.
LEMMA SumFirst ==
    ASSUME NEW f, NEW S, IsFiniteSet(S)
    PROVE  /\ S = {} => SumFunctionOnSet(f, S) = 0
           /\ S # {} => LET x == CHOOSE y \in S : TRUE
                        IN SumFunctionOnSet(f, S) = f[x] + SumFunctionOnSet(f, S \ {x})
  <1>1. PICK F : Accumulates(F, f, SUBSET S) /\ SumFunctionOnSet(f, S) = F[S]  BY SumUnfolds
  <1>2. S = {} => SumFunctionOnSet(f, S) = 0  BY <1>1 DEF Accumulates
  <1>3. ASSUME S # {}
        PROVE  LET x == CHOOSE y \in S : TRUE
               IN SumFunctionOnSet(f, S) = f[x] + SumFunctionOnSet(f, S \ {x})
    <2> DEFINE x == CHOOSE y \in S : TRUE
               T == S \ {x}
    <2>1. F[S] = f[x] + F[T]  BY <1>1, <1>3 DEF Accumulates
    <2>2. T \in SUBSET S /\ IsFiniteSet(T)  BY FS_Subset
    <2> HIDE DEF T
    <2>3. PICK G : Accumulates(G, f, SUBSET T) /\ SumFunctionOnSet(f, T) = G[T]
      BY <2>2, SumUnfolds
    <2>4. \A s \in SUBSET T : F[s] = G[s]
      <3> HIDE DEF x
      <3>1. Accumulates(F, f, SUBSET S) /\ Accumulates(G, f, SUBSET T)  BY <1>1, <2>3
      <3> QED BY <2>2, <3>1, SamePartialSums
    <2> QED BY <1>1, <2>1, <2>3, <2>4 DEF T
  <1> QED BY <1>2, <1>3

\* Sums of naturals are naturals, and any term may be taken first.
LEMMA SumTerm ==
    ASSUME NEW D, NEW f \in [D -> Nat], NEW S \in SUBSET D, IsFiniteSet(S)
    PROVE  /\ SumFunctionOnSet(f, S) \in Nat
           /\ \A x \in S : SumFunctionOnSet(f, S) = f[x] + SumFunctionOnSet(f, S \ {x})
  <1> DEFINE Sum(s) == SumFunctionOnSet(f, s)
             P(s) == Sum(s) \in Nat /\ \A x \in s : Sum(s) = f[x] + Sum(s \ {x})
             Bad == {n \in Nat : \E s \in SUBSET S : Cardinality(s) = n /\ ~ P(s)}
  <1>1. \A s \in SUBSET S : IsFiniteSet(s) /\ Cardinality(s) \in Nat
    BY FS_Subset, FS_CardinalityType
  <1> SUFFICES ASSUME Bad # {} PROVE FALSE  BY <1>1
  <1>2. PICK n \in Bad : \A m \in Bad : n <= m  BY LeastNatural
  <1>3. PICK s \in SUBSET S : Cardinality(s) = n /\ ~ P(s)  BY <1>2
  <1>4. /\ s = {} => Sum(s) = 0
        /\ s # {} => Sum(s) = f[CHOOSE y \in s : TRUE] + Sum(s \ {CHOOSE y \in s : TRUE})
    BY <1>1, SumFirst
  <1>5. \A t \in SUBSET s : t # s => P(t)
    <2> SUFFICES ASSUME NEW t \in SUBSET s, t # s PROVE P(t)  OBVIOUS
    <2>1. Cardinality(t) \in Nat /\ Cardinality(t) < n
      BY <1>1, <1>3, FS_Subset
    <2>2. Cardinality(t) \notin Bad  BY <1>2, <2>1
    <2> QED BY <2>1, <2>2
  <1>6. \A x \in s : P(s \ {x})
    <2> TAKE x \in s
    <2>1. s \ {x} \in SUBSET s /\ s \ {x} # s  OBVIOUS
    <2> QED BY <1>5, <2>1
  <1> HIDE DEF Sum
  <1>7. CASE s = {}  BY <1>3, <1>4, <1>7
  <1>8. CASE s # {}
    <2> DEFINE c == CHOOSE y \in s : TRUE
    <2>1. c \in s /\ Sum(s) = f[c] + Sum(s \ {c})  BY <1>4, <1>8
    <2> HIDE DEF c
    <2>2. f[c] \in Nat /\ Sum(s \ {c}) \in Nat  BY <1>6, <2>1
    <2>3. ASSUME NEW x \in s PROVE Sum(s) = f[x] + Sum(s \ {x})
      <3>1. CASE x = c  BY <2>1, <3>1
      <3>2. CASE x # c
        <4>1. x \in s \ {c} /\ c \in s \ {x} /\ (s \ {c}) \ {x} = (s \ {x}) \ {c}
          BY <2>1, <3>2
        <4>2. Sum(s \ {c}) = f[x] + Sum((s \ {c}) \ {x})  BY <1>6, <2>1, <4>1
        <4>3. Sum(s \ {x}) = f[c] + Sum((s \ {x}) \ {c})  BY <1>6, <4>1
        <4>4. f[x] \in Nat /\ Sum(s \ {x}) \in Nat  BY <1>6
        <4>5. Sum((s \ {c}) \ {x}) \in Nat
          <5>1. (s \ {c}) \ {x} \in SUBSET s /\ (s \ {c}) \ {x} # s  BY <4>1
          <5> QED BY <1>5, <5>1
        <4>6. Sum((s \ {c}) \ {x}) = Sum((s \ {x}) \ {c})  BY <4>1
        <4>7. \A a, b, d \in Nat : a + (b + d) = b + (a + d)  OBVIOUS
        <4>8. f[c] + (f[x] + Sum((s \ {c}) \ {x})) = f[x] + (f[c] + Sum((s \ {c}) \ {x}))
          BY <2>2, <4>4, <4>5, <4>7
        <4> QED BY <2>1, <4>2, <4>3, <4>6, <4>8
      <3> QED BY <3>1, <3>2
    <2>4. Sum(s) \in Nat  BY <2>1, <2>2
    <2> QED BY <1>3, <2>3, <2>4
  <1> QED BY <1>7, <1>8

\* Functions that agree on a set have the same sum over it.
LEMMA SumSame ==
    ASSUME NEW D, NEW f \in [D -> Nat], NEW E, NEW g \in [E -> Nat],
           NEW S \in SUBSET D, S \subseteq E, IsFiniteSet(S), \A x \in S : f[x] = g[x]
    PROVE  SumFunctionOnSet(f, S) = SumFunctionOnSet(g, S)
  <1> DEFINE Bad == {n \in Nat : \E s \in SUBSET S : /\ Cardinality(s) = n
                                  /\ SumFunctionOnSet(f, s) # SumFunctionOnSet(g, s)}
  <1>1. \A s \in SUBSET S : IsFiniteSet(s) /\ Cardinality(s) \in Nat
    BY FS_Subset, FS_CardinalityType
  <1> SUFFICES ASSUME Bad # {} PROVE FALSE  BY <1>1
  <1>2. PICK n \in Bad : \A m \in Bad : n <= m  BY LeastNatural
  <1>3. PICK s \in SUBSET S : /\ Cardinality(s) = n
                              /\ SumFunctionOnSet(f, s) # SumFunctionOnSet(g, s)
    BY <1>2
  <1>4. s # {}  BY <1>1, <1>3, SumFirst
  <1>5. PICK x \in s : TRUE  BY <1>4
  <1>6. s \ {x} \in SUBSET S /\ Cardinality(s \ {x}) \in Nat /\ Cardinality(s \ {x}) < n
    <2>1. IsFiniteSet(s) /\ n \in Nat  BY <1>1, <1>3
    <2>2. Cardinality(s \ {x}) = n - 1  BY <1>3, <1>5, <2>1, FS_RemoveElement
    <2>3. s \ {x} \in SUBSET S  OBVIOUS
    <2> QED BY <1>1, <2>1, <2>2, <2>3
  <1>7. SumFunctionOnSet(f, s \ {x}) = SumFunctionOnSet(g, s \ {x})  BY <1>2, <1>6
  <1>8. SumFunctionOnSet(f, s) = f[x] + SumFunctionOnSet(f, s \ {x})  BY <1>1, <1>5, SumTerm
  <1>9. SumFunctionOnSet(g, s) = g[x] + SumFunctionOnSet(g, s \ {x})  BY <1>1, <1>5, SumTerm
  <1> QED BY <1>3, <1>7, <1>8, <1>9

\* Changing one term changes the sum by the difference, and no term is larger
\* than the sum.
LEMMA SumChange ==
    ASSUME NEW S, IsFiniteSet(S), NEW f \in [S -> Nat], NEW g \in [S -> Nat], NEW k \in S,
           \A x \in S \ {k} : f[x] = g[x]
    PROVE  /\ SumFunctionOnSet(f, S) \in Nat /\ SumFunctionOnSet(g, S) \in Nat
           /\ f[k] <= SumFunctionOnSet(f, S)
           /\ SumFunctionOnSet(g, S) = SumFunctionOnSet(f, S) - f[k] + g[k]
  <1> DEFINE T == S \ {k}
  <1>1. T \in SUBSET S /\ IsFiniteSet(T)  BY FS_Subset
  <1>2. SumFunctionOnSet(f, T) = SumFunctionOnSet(g, T)  BY <1>1, SumSame
  <1>3. SumFunctionOnSet(f, T) \in Nat  BY <1>1, SumTerm
  <1>4. SumFunctionOnSet(f, S) = f[k] + SumFunctionOnSet(f, T)  BY SumTerm
  <1>5. SumFunctionOnSet(g, S) = g[k] + SumFunctionOnSet(g, T)  BY SumTerm
  <1>6. f[k] \in Nat /\ g[k] \in Nat  OBVIOUS
  <1> HIDE DEF T
  <1> QED BY <1>2, <1>3, <1>4, <1>5, <1>6

\* A function that is zero on T and f elsewhere adds up to what f does outside T.
LEMMA SumWithout ==
    ASSUME NEW S, IsFiniteSet(S), NEW f \in [S -> Nat], NEW g \in [S -> Nat], NEW T \in SUBSET S,
           \A x \in T : g[x] = 0, \A x \in S \ T : g[x] = f[x]
    PROVE  /\ SumFunctionOnSet(f, T) \in Nat
           /\ SumFunctionOnSet(g, S) = SumFunctionOnSet(f, S) - SumFunctionOnSet(f, T)
  <1> DEFINE P(s) == SumFunctionOnSet(f, s) = SumFunctionOnSet(g, s) + SumFunctionOnSet(f, s \cap T)
             Bad == {n \in Nat : \E s \in SUBSET S : Cardinality(s) = n /\ ~ P(s)}
  <1>1. \A s \in SUBSET S : /\ IsFiniteSet(s) /\ Cardinality(s) \in Nat /\ s \cap T \in SUBSET S
                             /\ IsFiniteSet(s \cap T)
    BY FS_Subset, FS_CardinalityType
  <1>2. \A s \in SUBSET S : SumFunctionOnSet(f, s) \in Nat /\ SumFunctionOnSet(g, s) \in Nat
    BY <1>1, SumTerm
  <1>3. Bad = {}
    <2> SUFFICES ASSUME Bad # {} PROVE FALSE  OBVIOUS
    <2>1. PICK n \in Bad : \A m \in Bad : n <= m  BY LeastNatural
    <2>2. PICK s \in SUBSET S : Cardinality(s) = n /\ ~ P(s)  BY <2>1
    <2>3. CASE s = {}
      <3>1. s \cap T = {}  BY <2>3
      <3>2. SumFunctionOnSet(f, s) = 0 /\ SumFunctionOnSet(g, s) = 0  BY <1>1, <2>3, SumFirst
      <3> QED BY <2>2, <2>3, <3>1, <3>2
    <2>4. CASE s # {}
      <3>1. PICK x \in s : TRUE  BY <2>4
      <3>t. PICK t \in SUBSET S : t = s \ {x}  OBVIOUS
      <3>2. Cardinality(t) \in Nat /\ Cardinality(t) < n
        <4>1. IsFiniteSet(s) /\ n \in Nat /\ Cardinality(t) \in Nat  BY <1>1, <2>2
        <4>2. Cardinality(t) = n - 1  BY <2>2, <3>1, <3>t, <4>1, FS_RemoveElement
        <4> QED BY <4>1, <4>2
      <3>3. P(t)
        <4>1. Cardinality(t) \notin Bad
          <5>1. n \in Nat  BY <2>1
          <5>2. Cardinality(t) \in Bad => n <= Cardinality(t)  BY <2>1
          <5> HIDE DEF Bad
          <5> QED BY <3>2, <5>1, <5>2
        <4> QED BY <3>2, <4>1
      <3>s. IsFiniteSet(s)  BY <1>1
      <3>4. SumFunctionOnSet(f, s) = f[x] + SumFunctionOnSet(f, t)  BY <3>1, <3>t, <3>s, SumTerm
      <3>5. SumFunctionOnSet(g, s) = g[x] + SumFunctionOnSet(g, t)  BY <3>1, <3>t, <3>s, SumTerm
      <3>6. CASE x \in T
        <4>1. SumFunctionOnSet(f, s \cap T) = f[x] + SumFunctionOnSet(f, (s \cap T) \ {x})
          <5>1. x \in s \cap T /\ s \cap T \in SUBSET S /\ IsFiniteSet(s \cap T)
            BY <1>1, <3>1, <3>6
          <5> QED BY <5>1, SumTerm
        <4>2. (s \cap T) \ {x} = t \cap T  BY <3>t
        <4>3. g[x] = 0 /\ f[x] \in Nat  BY <3>6
        <4>4. SumFunctionOnSet(f, t \cap T) \in Nat /\ SumFunctionOnSet(g, t) \in Nat
          BY <1>1, <1>2, <3>2
        <4> QED BY <2>2, <3>3, <3>4, <3>5, <4>1, <4>2, <4>3, <4>4
      <3>7. CASE x \notin T
        <4>1. s \cap T = t \cap T  BY <3>t, <3>7
        <4>2. g[x] = f[x] /\ f[x] \in Nat  BY <3>7
        <4>3. SumFunctionOnSet(f, t \cap T) \in Nat /\ SumFunctionOnSet(g, t) \in Nat
          BY <1>1, <1>2, <3>2
        <4>4. SumFunctionOnSet(f, s \cap T) = SumFunctionOnSet(f, t \cap T)  BY <4>1
        <4> QED BY <2>2, <3>3, <3>4, <3>5, <4>2, <4>3, <4>4
      <3> QED BY <3>6, <3>7
    <2> QED BY <2>3, <2>4
  <1>4. P(S)  BY <1>1, <1>3
  <1>5. S \cap T = T  OBVIOUS
  <1>6. /\ SumFunctionOnSet(f, T) \in Nat /\ SumFunctionOnSet(f, S) \in Nat
        /\ SumFunctionOnSet(g, S) \in Nat
    BY <1>2
  <1>7. SumFunctionOnSet(f, S) = SumFunctionOnSet(g, S) + SumFunctionOnSet(f, T)  BY <1>4, <1>5
  <1> QED BY <1>6, <1>7

\* The sum of nothing but zeros.
LEMMA SumOfZeros ==
    ASSUME NEW S, IsFiniteSet(S), NEW f \in [S -> Nat], \A x \in S : f[x] = 0
    PROVE  SumFunctionOnSet(f, S) = 0
  <1>1. SumFunctionOnSet(f, S) = SumFunctionOnSet(f, S) - SumFunctionOnSet(f, S)
    BY SumWithout
  <1>2. SumFunctionOnSet(f, S) \in Nat  BY SumTerm
  <1> QED BY <1>1, <1>2

-----------------------------------------------------------------------------
(* The invariant.                                                          *)

Finite == IsFiniteSet(Keys) /\ IsFiniteSet(Threads)

Typed ==
    /\ entries \in [Keys -> Nat] /\ pin_handles \in Int
    /\ pc \in [Threads -> {"idle", "probed", "counted", "taking", "taken"}]
    /\ work \in [Threads -> [Keys -> Nat]] /\ removed \in [Threads -> Nat]
    /\ fresh \in [Keys -> Nat] /\ stale \in [Keys -> Nat]
    /\ wronged \in [Keys -> BOOLEAN]

\* What a thread keeps the total ahead of the entries by: handles it has counted
\* and not yet entered, or has taken from entries and not yet from the total.
Owed(t) == IF pc[t] = "counted" THEN Total(work[t]) ELSE removed[t]

Ahead == SumFunctionOnSet([t \in Threads |-> Owed(t)], Threads)

Covered ==
    /\ Typed
    /\ \A t \in Threads : removed[t] # 0 => pc[t] \in {"taking", "taken"}
    /\ pin_handles >= Total(entries) + Ahead
    /\ \A k \in Keys : ~ wronged[k] => fresh[k] <= entries[k]

\* Totals are naturals.
LEMMA TotalType ==
    ASSUME Finite, NEW f \in [Keys -> Nat]
    PROVE  Total(f) \in Nat /\ \A k \in Keys : f[k] <= Total(f)
  <1>1. Total(f) \in Nat  BY SumTerm DEF Finite, Total
  <1>2. ASSUME NEW k \in Keys PROVE f[k] <= Total(f)  BY SumChange DEF Finite, Total
  <1> QED BY <1>1, <1>2

\* One entry changes.
LEMMA TotalChange ==
    ASSUME Finite, NEW f \in [Keys -> Nat], NEW g \in [Keys -> Nat], NEW k \in Keys,
           \A x \in Keys \ {k} : f[x] = g[x]
    PROVE  Total(g) = Total(f) - f[k] + g[k]
  BY SumChange DEF Finite, Total

LEMMA OwedType ==
    ASSUME Finite, Typed
    PROVE  Ahead \in Nat /\ \A t \in Threads : Owed(t) \in Nat
  <1>1. \A t \in Threads : Owed(t) \in Nat
    <2> TAKE t \in Threads
    <2>1. work[t] \in [Keys -> Nat] /\ removed[t] \in Nat  BY DEF Typed
    <2> QED BY <2>1, TotalType DEF Owed
  <1>2. [t \in Threads |-> Owed(t)] \in [Threads -> Nat]  BY <1>1
  <1>3. Ahead \in Nat  BY <1>2, SumTerm DEF Ahead, Finite
  <1> QED BY <1>1, <1>3

\* One thread takes a step.
LEMMA AheadChange ==
    ASSUME Finite, Typed, Typed', NEW t \in Threads,
           \A u \in Threads \ {t} : pc'[u] = pc[u] /\ work'[u] = work[u] /\ removed'[u] = removed[u]
    PROVE  /\ Ahead \in Nat /\ Ahead' \in Nat /\ Owed(t) \in Nat /\ Owed(t)' \in Nat
           /\ Ahead' = Ahead - Owed(t) + Owed(t)'
  <1> DEFINE f == [u \in Threads |-> Owed(u)]
             g == [u \in Threads |-> Owed(u)']
  <1>1. Ahead \in Nat /\ \A u \in Threads : Owed(u) \in Nat  BY OwedType
  <1>2. \A u \in Threads : Owed(u)' \in Nat
    <2> TAKE u \in Threads
    <2>1. work'[u] \in [Keys -> Nat] /\ removed'[u] \in Nat  BY DEF Typed
    <2> QED BY <2>1, TotalType DEF Owed, Total
  <1>3. \A u \in Threads \ {t} : Owed(u)' = Owed(u)  BY DEF Owed, Total
  <1>4. /\ f \in [Threads -> Nat] /\ g \in [Threads -> Nat] /\ f[t] = Owed(t) /\ g[t] = Owed(t)'
        /\ \A u \in Threads \ {t} : f[u] = g[u]
    BY <1>1, <1>2, <1>3
  <1>5. Ahead = SumFunctionOnSet(f, Threads) /\ Ahead' = SumFunctionOnSet(g, Threads)
    BY DEF Ahead
  <1> HIDE DEF f, g
  <1>6. /\ SumFunctionOnSet(g, Threads) \in Nat
        /\ SumFunctionOnSet(g, Threads) = SumFunctionOnSet(f, Threads) - f[t] + g[t]
    BY <1>4, SumChange DEF Finite
  <1> QED BY <1>1, <1>2, <1>4, <1>5, <1>6

\* No thread does.
LEMMA AheadSame ==
    ASSUME Finite, Typed, UNCHANGED local
    PROVE  Ahead \in Nat /\ Ahead' = Ahead
  <1>1. Ahead' = Ahead  BY DEF Ahead, Owed, Total, local
  <1> QED BY <1>1, OwedType

\* No thread holds the read lock.
LEMMA NothingOwed ==
    ASSUME Finite, Covered, Writable
    PROVE  Ahead = 0
  <1>1. \A t \in Threads : Owed(t) = 0  BY DEF Covered, Typed, Writable, ReadLocked, Owed
  <1>2. [t \in Threads |-> Owed(t)] \in [Threads -> Nat]  BY <1>1
  <1> QED BY <1>1, <1>2, SumOfZeros DEF Ahead, Finite

-----------------------------------------------------------------------------
(* Every step keeps it.                                                    *)

LEMMA CoveredInit ==
    ASSUME Finite, Init
    PROVE  Covered
  <1>1. Typed  BY DEF Init, Typed, Zero
  <1>2. Total(entries) = 0  BY SumOfZeros DEF Init, Zero, Total, Finite
  <1>3. Ahead = 0
    <2>1. \A t \in Threads : Owed(t) = 0  BY DEF Init, Owed
    <2>2. [t \in Threads |-> Owed(t)] \in [Threads -> Nat]  BY <2>1
    <2> QED BY <2>1, <2>2, SumOfZeros DEF Ahead, Finite
  <1> QED BY <1>1, <1>2, <1>3 DEF Covered, Init, Zero

\* Threads that begin: what they are about to do is not owed yet, or is counted.
LEMMA BeginCovered ==
    ASSUME Finite, Covered, NEW t \in Threads, NEW w \in Counts,
           Probe(t, w) \/ PinFound(t, w) \/ Release(t, w)
    PROVE  Covered'
  <1> USE DEF Covered
  <1>1. w \in [Keys -> Nat]  BY DEF Counts
  <1>2. /\ UNCHANGED <<entries, removed, fresh, stale, wronged>> /\ pc[t] = "idle"
        /\ work' = [work EXCEPT ![t] = w]
        /\ \/ pc' = [pc EXCEPT ![t] = "probed"] /\ pin_handles' = pin_handles
           \/ pc' = [pc EXCEPT ![t] = "taking"] /\ pin_handles' = pin_handles
           \/ pc' = [pc EXCEPT ![t] = "counted"] /\ pin_handles' = pin_handles + Total(w)
    BY DEF Probe, PinFound, Release, HandlesOf, history
  <1>3. Total(w) \in Nat /\ Total(entries) \in Nat /\ Total(entries)' = Total(entries)
    BY <1>1, <1>2, TotalType DEF Typed, Total
  <1>4. Typed'  BY <1>1, <1>2, <1>3 DEF Typed
  <1>5. /\ Ahead \in Nat /\ Ahead' \in Nat /\ Owed(t) \in Nat /\ Owed(t)' \in Nat
        /\ Ahead' = Ahead - Owed(t) + Owed(t)'
    <2>1. \A u \in Threads \ {t} : /\ pc'[u] = pc[u] /\ work'[u] = work[u]
                                   /\ removed'[u] = removed[u]
      BY <1>2 DEF Typed
    <2> QED BY <1>4, <2>1, AheadChange
  <1>6. Owed(t) = 0 /\ removed[t] = 0  BY <1>2 DEF Owed, Typed
  <1>7. /\ pc'[t] = "counted" => Owed(t)' = Total(w)
        /\ pc'[t] # "counted" => Owed(t)' = 0
    BY <1>2, <1>6 DEF Owed, Total, Typed
  <1>8. pin_handles' >= Total(entries)' + Ahead'
    BY <1>2, <1>3, <1>5, <1>6, <1>7 DEF Typed
  <1>9. \A u \in Threads : removed'[u] # 0 => pc'[u] \in {"taking", "taken"}
    BY <1>2, <1>6 DEF Typed
  <1> QED BY <1>2, <1>4, <1>8, <1>9

LEMMA AddPinHandlesCovered ==
    ASSUME Finite, Covered, NEW t \in Threads, AddPinHandles(t)
    PROVE  Covered'
  <1> USE DEF Covered
  <1>1. /\ UNCHANGED <<entries, work, removed, fresh, stale, wronged>> /\ pc[t] = "probed"
        /\ pc' = [pc EXCEPT ![t] = "counted"] /\ pin_handles' = pin_handles + Total(work[t])
    BY DEF AddPinHandles, HandlesOf, history
  <1>2. /\ Total(work[t]) \in Nat /\ Total(entries) \in Nat
        /\ Total(entries)' = Total(entries)
    BY <1>1, TotalType DEF Typed, Total
  <1>3. Typed'  BY <1>1, <1>2 DEF Typed
  <1>4. /\ Ahead \in Nat /\ Ahead' \in Nat /\ Owed(t) \in Nat /\ Owed(t)' \in Nat
        /\ Ahead' = Ahead - Owed(t) + Owed(t)'
    <2>1. \A u \in Threads \ {t} : /\ pc'[u] = pc[u] /\ work'[u] = work[u]
                                   /\ removed'[u] = removed[u]
      BY <1>1 DEF Typed
    <2> QED BY <1>3, <2>1, AheadChange
  <1>5. Owed(t) = 0 /\ removed[t] = 0  BY <1>1 DEF Owed, Typed
  <1>6. Owed(t)' = Total(work[t])  BY <1>1 DEF Owed, Total, Typed
  <1>7. pin_handles' >= Total(entries)' + Ahead'  BY <1>1, <1>2, <1>4, <1>5, <1>6 DEF Typed
  <1>8. \A u \in Threads : removed'[u] # 0 => pc'[u] \in {"taking", "taken"}
    BY <1>1, <1>5 DEF Typed
  <1> QED BY <1>1, <1>3, <1>7, <1>8

\* What was owed goes into the entry.
LEMMA AddToEntryCovered ==
    ASSUME Finite, Covered, NEW t \in Threads, NEW k \in Keys, AddToEntry(t, k)
    PROVE  Covered'
  <1> USE DEF Covered
  <1> DEFINE n == work[t][k]
             w == [work[t] EXCEPT ![k] = 0]
  <1>1. n \in Nat /\ work[t] \in [Keys -> Nat] /\ entries[k] \in Nat /\ fresh[k] \in Nat
    BY DEF Typed
  <1>2. /\ UNCHANGED <<pin_handles, removed, stale, wronged>> /\ pc[t] = "counted"
        /\ entries' = [entries EXCEPT ![k] = entries[k] + n]
        /\ fresh' = [fresh EXCEPT ![k] = fresh[k] + n]
        /\ work' = [work EXCEPT ![t] = w]
        /\ pc' = [pc EXCEPT ![t] = IF work'[t] = Zero THEN "idle" ELSE "counted"]
    BY <1>1 DEF AddToEntry, Typed
  <1>3. w \in [Keys -> Nat] /\ Total(w) = Total(work[t]) - n /\ Total(w) \in Nat
    <2>0. w \in [Keys -> Nat] /\ w[k] = 0 /\ \A x \in Keys \ {k} : work[t][x] = w[x]  BY <1>1
    <2> HIDE DEF w
    <2>1. Total(w) = Total(work[t]) - n + w[k]  BY <1>1, <2>0, TotalChange
    <2>2. Total(w) \in Nat /\ Total(work[t]) \in Nat  BY <1>1, <2>0, TotalType
    <2> QED BY <1>1, <2>0, <2>1, <2>2
  <1>4. Total(entries) \in Nat /\ Total(entries') = Total(entries) + n
    <2>0. PICK m \in Nat : m = entries[k] + n  BY <1>1
    <2>1. Total(entries') = Total(entries) - entries[k] + m
      <3>1. /\ entries \in [Keys -> Nat] /\ entries' \in [Keys -> Nat] /\ entries'[k] = m
            /\ \A x \in Keys \ {k} : entries[x] = entries'[x]
        BY <1>2, <2>0 DEF Typed
      <3> QED BY <3>1, TotalChange
    <2>2. Total(entries) \in Nat  BY TotalType DEF Typed
    <2> QED BY <1>1, <2>0, <2>1, <2>2
  <1> HIDE DEF w, n
  <1>5. Typed'
    <2>1. entries' \in [Keys -> Nat] /\ fresh' \in [Keys -> Nat]  BY <1>1, <1>2 DEF Typed
    <2>2. work' \in [Threads -> [Keys -> Nat]]  BY <1>2, <1>3 DEF Typed
    <2>3. pc' \in [Threads -> {"idle", "probed", "counted", "taking", "taken"}]
      BY <1>2 DEF Typed
    <2> QED BY <1>2, <2>1, <2>2, <2>3 DEF Typed
  <1>6. /\ Ahead \in Nat /\ Ahead' \in Nat /\ Owed(t) \in Nat /\ Owed(t)' \in Nat
        /\ Ahead' = Ahead - Owed(t) + Owed(t)'
    <2>1. \A u \in Threads \ {t} : /\ pc'[u] = pc[u] /\ work'[u] = work[u]
                                   /\ removed'[u] = removed[u]
      BY <1>2 DEF Typed
    <2> QED BY <1>5, <2>1, AheadChange
  <1>7. work'[t] = w /\ removed[t] = 0 /\ removed' = removed  BY <1>2 DEF Typed
  <1>8. Owed(t) = Total(w) + n
    <2>1. Owed(t) = Total(work[t])  BY <1>2 DEF Owed
    <2>2. Total(work[t]) \in Nat  BY <1>1, TotalType
    <2> QED BY <1>1, <1>3, <2>1, <2>2
  <1>9. Owed(t)' = Total(w)
    <2>1. CASE work'[t] = Zero
      <3>1. Owed(t)' = 0  BY <1>2, <1>7, <2>1 DEF Owed, Typed
      <3>2. Total(Zero) = 0
        <4>1. Zero \in [Keys -> Nat] /\ \A x \in Keys : Zero[x] = 0  BY DEF Zero
        <4> QED BY <4>1, SumOfZeros DEF Total, Finite
      <3> QED BY <1>7, <2>1, <3>1, <3>2
    <2>2. CASE work'[t] # Zero  BY <1>2, <1>7, <2>2 DEF Owed, Total, Typed
    <2> QED BY <2>1, <2>2
  <1>10. pin_handles' >= Total(entries)' + Ahead'
    <2>1. Total(entries)' = Total(entries')  BY DEF Total
    <2> QED BY <1>1, <1>2, <1>3, <1>4, <1>6, <1>8, <1>9, <2>1 DEF Typed
  <1>11. \A u \in Threads : removed'[u] # 0 => pc'[u] \in {"taking", "taken"}
    BY <1>2, <1>7 DEF Typed
  <1>12. \A x \in Keys : ~ wronged'[x] => fresh'[x] <= entries'[x]
    BY <1>1, <1>2 DEF Typed
  <1> QED BY <1>5, <1>10, <1>11, <1>12

\* What leaves the entry is owed to the total. Only what the entry had leaves it.
LEMMA TakeFromEntryCovered ==
    ASSUME Finite, Covered, NEW t \in Threads, NEW k \in Keys, TakeFromEntry(t, k)
    PROVE  Covered'
  <1> USE DEF Covered
  <1>1. /\ work[t] \in [Keys -> Nat] /\ work[t][k] \in Nat /\ entries[k] \in Nat
        /\ fresh[k] \in Nat /\ stale[k] \in Nat /\ removed[t] \in Nat
    BY DEF Typed
  <1>2. PICK old \in 0..Smaller(work[t][k], stale[k]) :
          /\ work[t][k] - old <= fresh[k]
          /\ entries' = [entries EXCEPT ![k] = @ - Smaller(@, work[t][k])]
          /\ removed' = [removed EXCEPT ![t] = @ + RemovedFrom(k, work[t][k])]
          /\ stale' = [stale EXCEPT ![k] = @ - old]
          /\ fresh' = [fresh EXCEPT ![k] = @ - (work[t][k] - old)]
          /\ wronged' = [wronged EXCEPT ![k] = fresh'[k] > 0 /\ (@ \/ old > 0)]
    BY DEF TakeFromEntry
  <1>3. PICK n \in Nat : n = work[t][k]  BY <1>1
  <1>4. PICK m \in Nat : m = Smaller(entries[k], n)  BY <1>1, <1>3 DEF Smaller
  <1>5. PICK e \in Nat : e = entries[k] - m  BY <1>1, <1>3, <1>4 DEF Smaller
  <1>6. old \in Nat /\ old <= n /\ old <= stale[k] /\ n - old <= fresh[k]
    BY <1>1, <1>2, <1>3 DEF Smaller
  <1>7. PICK h \in Nat : h = fresh[k] - (n - old)  BY <1>1, <1>3, <1>6
  <1>8. /\ entries' = [entries EXCEPT ![k] = e] /\ removed' = [removed EXCEPT ![t] = removed[t] + m]
        /\ stale' = [stale EXCEPT ![k] = stale[k] - old] /\ fresh' = [fresh EXCEPT ![k] = h]
    BY <1>2, <1>3, <1>4, <1>5, <1>7 DEF RemovedFrom
  <1>9. /\ pc[t] = "taking" /\ pin_handles' = pin_handles
        /\ work' = [work EXCEPT ![t] = [work[t] EXCEPT ![k] = 0]]
        /\ pc' = [pc EXCEPT ![t] = IF work'[t] = Zero THEN "taken" ELSE "taking"]
    BY DEF TakeFromEntry, Typed
  <1>10. wronged' = [wronged EXCEPT ![k] = h > 0 /\ (wronged[k] \/ old > 0)]
    <2>1. fresh'[k] = h  BY <1>8 DEF Typed
    <2> QED BY <1>2, <2>1
  <1>11. Typed'
    <2>1. entries' \in [Keys -> Nat] /\ fresh' \in [Keys -> Nat]  BY <1>8 DEF Typed
    <2>2. stale[k] - old \in Nat /\ removed[t] + m \in Nat  BY <1>1, <1>6
    <2>3. stale' \in [Keys -> Nat] /\ removed' \in [Threads -> Nat]  BY <1>8, <2>2 DEF Typed
    <2>4. work' \in [Threads -> [Keys -> Nat]]  BY <1>1, <1>9 DEF Typed
    <2>5. pc' \in [Threads -> {"idle", "probed", "counted", "taking", "taken"}]
      BY <1>9 DEF Typed
    <2>6. wronged' \in [Keys -> BOOLEAN]  BY <1>10 DEF Typed
    <2> QED BY <1>9, <2>1, <2>3, <2>4, <2>5, <2>6 DEF Typed
  <1>12. Total(entries) \in Nat /\ Total(entries)' = Total(entries) - m
    <2>1. entries \in [Keys -> Nat]  BY DEF Typed
    <2>2. Total(entries') = Total(entries) - entries[k] + e
      <3>1. /\ entries' \in [Keys -> Nat] /\ entries'[k] = e
            /\ \A x \in Keys \ {k} : entries[x] = entries'[x]
        BY <1>8, <2>1
      <3> QED BY <2>1, <3>1, TotalChange
    <2>3. Total(entries) \in Nat  BY <2>1, TotalType
    <2>4. Total(entries)' = Total(entries')  BY DEF Total
    <2> QED BY <1>1, <1>5, <2>2, <2>3, <2>4
  <1>13. /\ Ahead \in Nat /\ Ahead' \in Nat /\ Owed(t) \in Nat /\ Owed(t)' \in Nat
         /\ Ahead' = Ahead - Owed(t) + Owed(t)'
    <2>1. \A u \in Threads \ {t} : /\ pc'[u] = pc[u] /\ work'[u] = work[u]
                                   /\ removed'[u] = removed[u]
      BY <1>8, <1>9 DEF Typed
    <2> QED BY <1>11, <2>1, AheadChange
  <1>14. Owed(t) = removed[t] /\ Owed(t)' = removed[t] + m
    <2>1. pc'[t] # "counted" /\ removed'[t] = removed[t] + m  BY <1>8, <1>9 DEF Typed
    <2> QED BY <1>9, <2>1 DEF Owed
  <1>15. pin_handles' >= Total(entries)' + Ahead'
    BY <1>1, <1>9, <1>12, <1>13, <1>14 DEF Typed
  <1>16. \A u \in Threads : removed'[u] # 0 => pc'[u] \in {"taking", "taken"}
    BY <1>8, <1>9 DEF Typed
  <1>17. ASSUME NEW x \in Keys, ~ wronged'[x] PROVE fresh'[x] <= entries'[x]
    <2>1. CASE x # k
      <3>1. wronged'[x] = wronged[x]  BY <1>10, <2>1 DEF Typed
      <3>2. fresh[x] <= entries[x]  BY <1>17, <3>1
      <3> QED BY <1>8, <2>1, <3>2 DEF Typed
    <2>2. CASE x = k
      <3>1. fresh'[k] = h /\ entries'[k] = e  BY <1>8 DEF Typed
      <3>2. ~ (h > 0 /\ (wronged[k] \/ old > 0))
        <4>1. wronged'[k] = (h > 0 /\ (wronged[k] \/ old > 0))  BY <1>10 DEF Typed
        <4> QED BY <1>17, <2>2, <4>1
      <3>3. CASE h = 0  BY <2>2, <3>1, <3>3
      <3>4. CASE h > 0
        <4>1. ~ wronged[k] /\ old = 0  BY <1>6, <3>2, <3>4
        <4>2. fresh[k] <= entries[k]  BY <4>1
        <4>3. h <= e  BY <1>1, <1>4, <1>5, <1>6, <1>7, <4>1, <4>2 DEF Smaller
        <4> QED BY <2>2, <3>1, <4>3
      <3> QED BY <3>3, <3>4
    <2> QED BY <2>1, <2>2
  <1> QED BY <1>11, <1>15, <1>16, <1>17

LEMMA RemovePinHandlesCovered ==
    ASSUME Finite, Covered, NEW t \in Threads, RemovePinHandles(t)
    PROVE  Covered'
  <1> USE DEF Covered
  <1>1. /\ UNCHANGED <<entries, work, fresh, stale, wronged>> /\ pc[t] = "taken"
        /\ pc' = [pc EXCEPT ![t] = "idle"] /\ pin_handles' = pin_handles - removed[t]
        /\ removed' = [removed EXCEPT ![t] = 0]
    BY DEF RemovePinHandles, history
  <1>2. removed[t] \in Nat  BY DEF Typed
  <1>3. Total(entries) \in Nat /\ Total(entries)' = Total(entries)
    BY <1>1, TotalType DEF Typed, Total
  <1>4. Typed'  BY <1>1, <1>2 DEF Typed
  <1>5. /\ Ahead \in Nat /\ Ahead' \in Nat /\ Owed(t) \in Nat /\ Owed(t)' \in Nat
        /\ Ahead' = Ahead - Owed(t) + Owed(t)'
    <2>1. \A u \in Threads \ {t} : /\ pc'[u] = pc[u] /\ work'[u] = work[u]
                                   /\ removed'[u] = removed[u]
      BY <1>1 DEF Typed
    <2> QED BY <1>4, <2>1, AheadChange
  <1>6. Owed(t) = removed[t] /\ Owed(t)' = 0
    <2>1. pc'[t] # "counted" /\ removed'[t] = 0  BY <1>1 DEF Typed
    <2> QED BY <1>1, <2>1 DEF Owed
  <1>7. pin_handles' >= Total(entries)' + Ahead'  BY <1>1, <1>2, <1>3, <1>5, <1>6 DEF Typed
  <1>8. \A u \in Threads : removed'[u] # 0 => pc'[u] \in {"taking", "taken"}
    BY <1>1 DEF Typed
  <1> QED BY <1>1, <1>4, <1>7, <1>8

\* Entries that are dropped leave no young handles behind.
LEMMA OrphanKeeps ==
    ASSUME Covered, NEW ks \in SUBSET Keys, Orphan(ks),
           entries' = [k \in Keys |-> IF k \in ks THEN 0 ELSE entries[k]]
    PROVE  /\ entries' \in [Keys -> Nat] /\ fresh' \in [Keys -> Nat] /\ stale' \in [Keys -> Nat]
           /\ wronged' \in [Keys -> BOOLEAN]
           /\ \A k \in Keys : ~ wronged'[k] => fresh'[k] <= entries'[k]
  <1> USE DEF Covered, Typed, Orphan
  <1>1. entries' \in [Keys -> Nat] /\ fresh' \in [Keys -> Nat] /\ stale' \in [Keys -> Nat]
    OBVIOUS
  <1>2. wronged' \in [Keys -> BOOLEAN]  OBVIOUS
  <1>3. ASSUME NEW k \in Keys, ~ wronged'[k] PROVE fresh'[k] <= entries'[k]
    <2>1. CASE k \in ks  BY <2>1
    <2>2. CASE k \notin ks
      <3>1. wronged'[k] = wronged[k]  BY <2>2
      <3>2. fresh[k] <= entries[k]  BY <1>3, <3>1
      <3> QED BY <2>2, <3>2
    <2> QED BY <2>1, <2>2
  <1> QED BY <1>1, <1>2, <1>3

\* Whatever drops entries and leaves the total alone, or takes from it what the
\* dropped entries held, or empties it with all entries.
LEMMA DropsCovered ==
    ASSUME Finite, Covered, NEW ks \in SUBSET Keys, Writable, Orphan(ks), UNCHANGED local,
           entries' = [k \in Keys |-> IF k \in ks THEN 0 ELSE entries[k]],
           \/ pin_handles' = pin_handles
           \/ pin_handles' = pin_handles - SumFunctionOnSet(entries, ks)
           \/ pin_handles' = 0 /\ ks = Keys
    PROVE  Covered'
  <1>1. /\ entries' \in [Keys -> Nat] /\ fresh' \in [Keys -> Nat] /\ stale' \in [Keys -> Nat]
        /\ wronged' \in [Keys -> BOOLEAN]
        /\ \A k \in Keys : ~ wronged'[k] => fresh'[k] <= entries'[k]
    BY OrphanKeeps
  <1>2. entries \in [Keys -> Nat]  BY DEF Covered, Typed
  <1>3. /\ SumFunctionOnSet(entries, ks) \in Nat
        /\ Total(entries') = Total(entries) - SumFunctionOnSet(entries, ks)
    <2>1. (\A x \in ks : entries'[x] = 0) /\ \A x \in Keys \ ks : entries'[x] = entries[x]
      OBVIOUS
    <2> QED BY <1>1, <1>2, <2>1, SumWithout DEF Total, Finite
  <1>4. Total(entries) \in Nat /\ Total(entries') \in Nat  BY <1>1, <1>2, TotalType
  <1>5. Typed'
    <2>1. pin_handles' \in Int  BY <1>3 DEF Covered, Typed
    <2> QED BY <1>1, <2>1 DEF Covered, Typed, local
  <1>6. Ahead' = 0 /\ Ahead = 0
    <2>1. Typed  BY DEF Covered
    <2> QED BY <2>1, NothingOwed, AheadSame
  <1>7. pin_handles' >= Total(entries)' + Ahead'
    <2>1. Total(entries)' = Total(entries')  BY DEF Total
    <2>2. ks = Keys => Total(entries') = 0
      <3>1. ks = Keys => \A x \in Keys : entries'[x] = 0  OBVIOUS
      <3> QED BY <1>1, <3>1, SumOfZeros DEF Total, Finite
    <2>3. pin_handles \in Int /\ pin_handles >= Total(entries) + Ahead  BY DEF Covered, Typed
    <2> QED BY <1>3, <1>4, <1>6, <2>1, <2>2, <2>3
  <1> QED BY <1>1, <1>5, <1>7 DEF Covered, local

\* Calls that keep the entries.
LEMMA KeepsCovered ==
    ASSUME Finite, Covered, UNCHANGED <<entries, pin_handles, local, history>>
    PROVE  Covered'
  <1>1. Typed'  BY DEF Covered, Typed, local, history
  <1>2. Ahead' = Ahead
    <2>1. Typed  BY DEF Covered
    <2> QED BY <2>1, AheadSame
  <1>3. Total(entries)' = Total(entries)  BY DEF Total
  <1> QED BY <1>1, <1>2, <1>3 DEF Covered, local, history

LEMMA WriterCovered ==
    ASSUME Finite, Covered, NEW k \in Keys, NEW found \in BOOLEAN, NEW left \in BOOLEAN,
           Put(k) \/ Evict(k) \/ Invalidate(k, found, left)
    PROVE  Covered'
  <1>1. \/ UNCHANGED <<entries, pin_handles, local, history>>
        \/ /\ Writable /\ UNCHANGED <<pin_handles, local>>
           /\ entries' = [entries EXCEPT ![k] = 0] /\ Orphan({k})
    BY DEF Put, Evict, Invalidate
  <1>2. CASE UNCHANGED <<entries, pin_handles, local, history>>  BY <1>2, KeepsCovered
  <1>3. CASE /\ Writable /\ UNCHANGED <<pin_handles, local>>
             /\ entries' = [entries EXCEPT ![k] = 0] /\ Orphan({k})
    <2>1. entries' = [x \in Keys |-> IF x \in {k} THEN 0 ELSE entries[x]]
      BY <1>3 DEF Covered, Typed
    <2>2. {k} \in SUBSET Keys  OBVIOUS
    <2> QED BY <1>3, <2>1, <2>2, DropsCovered
  <1> QED BY <1>1, <1>2, <1>3

LEMMA InvalidateGroupCovered ==
    ASSUME Finite, Covered, NEW ks \in SUBSET Keys, InvalidateGroup(ks)
    PROVE  Covered'
  BY DropsCovered DEF InvalidateGroup

LEMMA ClearCovered ==
    ASSUME Finite, Covered, Clear
    PROVE  Covered'
  <1>1. entries' = [k \in Keys |-> IF k \in Keys THEN 0 ELSE entries[k]]  BY DEF Clear, Zero
  <1>2. Keys \in SUBSET Keys  OBVIOUS
  <1> QED BY <1>1, <1>2, DropsCovered DEF Clear

\* The total covers the entries and what is owed, and a key that was not wronged has
\* at least its young handles in its entry, for any finite sets of keys and threads.
THEOREM HandlesAreCovered == Finite /\ Spec => []Covered
  <1> SUFFICES ASSUME Finite PROVE Spec => []Covered  OBVIOUS
  <1>1. Init => Covered  BY CoveredInit
  <1>2. Covered /\ [Next]_vars => Covered'
    <2> SUFFICES ASSUME Covered, [Next]_vars PROVE Covered'  OBVIOUS
    <2>1. CASE \E t \in Threads, w \in Counts : Probe(t, w) \/ PinFound(t, w) \/ Release(t, w)
      BY <2>1, BeginCovered
    <2>2. CASE \E t \in Threads, k \in Keys : AddToEntry(t, k) \/ TakeFromEntry(t, k)
      BY <2>2, AddToEntryCovered, TakeFromEntryCovered
    <2>3. CASE \E t \in Threads : AddPinHandles(t) \/ RemovePinHandles(t)
      BY <2>3, AddPinHandlesCovered, RemovePinHandlesCovered
    <2>4. CASE \/ \E k \in Keys : Put(k) \/ Evict(k)
               \/ \E k \in Keys, found, left \in BOOLEAN : Invalidate(k, found, left)
      BY <2>4, WriterCovered
    <2>5. CASE \E ks \in SUBSET Keys : ks # {} /\ InvalidateGroup(ks)
      BY <2>5, InvalidateGroupCovered
    <2>6. CASE Clear  BY <2>6, ClearCovered
    <2>7. CASE UNCHANGED vars  BY <2>7, KeepsCovered DEF vars
    <2> QED BY <2>1, <2>2, <2>3, <2>4, <2>5, <2>6, <2>7 DEF Next
  <1> QED BY <1>1, <1>2, PTL DEF Spec

\* pin_handles never falls below the handles in the entries, so the subtractions of
\* release_pins and of the calls that drop entries do not underflow, and a total
\* of zero means that nothing is pinned.
THEOREM TotalIsEnough == Finite /\ Spec => []TotalCoversEntries
  <1> SUFFICES ASSUME Finite PROVE Spec => []TotalCoversEntries  OBVIOUS
  <1>1. Covered => TotalCoversEntries
    <2> SUFFICES ASSUME Covered PROVE TotalCoversEntries  OBVIOUS
    <2>1. Typed /\ pin_handles \in Int /\ pin_handles >= Total(entries) + Ahead
      BY DEF Covered, Typed
    <2>2. Ahead \in Nat  BY <2>1, OwedType
    <2>3. Total(entries) \in Nat  BY <2>1, TotalType DEF Typed
    <2> QED BY <2>1, <2>2, <2>3 DEF TotalCoversEntries
  <1>2. Spec => []Covered  BY HandlesAreCovered
  <1> QED BY <1>1, <1>2, PTL

\* A key with a handle out that is younger than the last removal of its entry is
\* pinned, unless an older handle of it was released meanwhile.
THEOREM HeldKeysArePinned == Finite /\ Spec => []PinnedWhileHeld
  <1> SUFFICES ASSUME Finite PROVE Spec => []PinnedWhileHeld  OBVIOUS
  <1>1. Covered => PinnedWhileHeld
    <2> SUFFICES ASSUME Covered, NEW k \in Keys, fresh[k] > 0, ~ wronged[k]
                 PROVE  IsPinned(k) /\ entries[k] >= fresh[k]
      BY DEF PinnedWhileHeld
    <2>1. Typed /\ pin_handles \in Int /\ pin_handles >= Total(entries) + Ahead
      BY DEF Covered, Typed
    <2>2. Ahead \in Nat  BY <2>1, OwedType
    <2>3. entries[k] \in Nat /\ fresh[k] \in Nat /\ fresh[k] <= entries[k]
      BY <2>1 DEF Covered, Typed
    <2>4. Total(entries) \in Nat /\ entries[k] <= Total(entries)
      BY <2>1, TotalType DEF Typed
    <2> QED BY <2>1, <2>2, <2>3, <2>4 DEF IsPinned
  <1>2. Spec => []Covered  BY HandlesAreCovered
  <1> QED BY <1>1, <1>2, PTL
=============================================================================
