------------------------- MODULE PlanPatterns_proofs -------------------------
(***************************************************************************)
(* Proofs about PlanPatterns: that the pattern extraction counts what its   *)
(* docstrings say, for any plans whose dependencies have no cycle, and what *)
(* a window of plans adds up to.                                            *)
(*                                                                         *)
(* Induction is by a least counterexample, in the subsets of a finite set   *)
(* or the numbers.  A function that is defined by recursion is unfolded by  *)
(* showing that there is one which satisfies the recursion, and, where the  *)
(* domains differ, that any two of them agree.                              *)
(***************************************************************************)
EXTENDS PlanPatterns, FiniteSetTheorems, TLAPS

-----------------------------------------------------------------------------
(* Induction, over sets: the theorems of the library that take an operator  *)
(* are of no use to the provers.                                            *)

\* A set of numbers has a least element.
LEMMA LeastNumber ==
  ASSUME NEW T \in SUBSET Nat, T # {}
  PROVE  \E n \in T : \A m \in T : n <= m
  <1>1. PICK n \in T : \A m \in T : <<m, n>> \notin OpToRel(<, Nat)
    BY NatLessThanWellFounded, WFMin
  <1>2. \A m \in T : ~(m < n)
    BY <1>1 DEF OpToRel
  <1> QED
    BY <1>2

\* A set of numbers with 0 and the successor of each of its elements has all.
LEMMA AllNumbers ==
  ASSUME NEW T \in SUBSET Nat, 0 \in T, \A n \in T : n + 1 \in T
  PROVE  \A n \in Nat : n \in T
  <1> SUFFICES ASSUME Nat \ T # {} PROVE FALSE
    OBVIOUS
  <1>1. PICK n \in Nat \ T : \A m \in Nat \ T : n <= m
    BY LeastNumber
  <1>2. n - 1 \in T
    BY <1>1
  <1> QED
    BY <1>1, <1>2

\* A family of subsets of a finite set has a minimal member.
LEMMA MinimalSet ==
  ASSUME NEW S, IsFiniteSet(S), NEW F \in SUBSET (SUBSET S), F # {}
  PROVE  \E T \in F : \A U \in F : U \subseteq T => U = T
  <1>1. IsWellFoundedOn(StrictSubsetOrdering(S), FiniteSubsetsOf(S))
    BY FS_StrictSubsetOrderingWellFounded
  <1>2. F \subseteq FiniteSubsetsOf(S)
    BY FS_FiniteSubsetsOfFinite
  <1>3. PICK T \in F : \A U \in F : <<U, T>> \notin StrictSubsetOrdering(S)
    BY <1>1, <1>2, WFMin
  <1> QED
    BY <1>3 DEF StrictSubsetOrdering

\* A family of subsets of a finite set has all of them if it has the empty one, and each
\* that has all its elements but one in the family, whichever that is.
LEMMA AllSubsets ==
  ASSUME NEW S, IsFiniteSet(S), NEW G, {} \in G,
         \A T \in SUBSET S : T # {} /\ (\A x \in T : T \ {x} \in G) => T \in G
  PROVE  \A T \in SUBSET S : T \in G
  <1> DEFINE F == (SUBSET S) \ G
  <1> SUFFICES ASSUME F # {} PROVE FALSE
    OBVIOUS
  <1>0. F \in SUBSET (SUBSET S)
    OBVIOUS
  <1> HIDE DEF F
  <1>1. PICK T \in F : \A U \in F : U \subseteq T => U = T
    BY <1>0, MinimalSet
  <1> USE DEF F
  <1>2. \A x \in T : T \ {x} \in G
    BY <1>1
  <1> QED
    BY <1>1, <1>2

\* A finite set of numbers has a greatest element.
LEMMA GreatestNumber ==
  ASSUME NEW T \in SUBSET Nat, IsFiniteSet(T), T # {}
  PROVE  \E n \in T : \A m \in T : m <= n
  <1> DEFINE G == {U \in SUBSET T : U # {} => \E n \in U : \A m \in U : m <= n}
  <1>1. {} \in G
    OBVIOUS
  <1>2. ASSUME NEW U \in SUBSET T, U # {}, \A x \in U : U \ {x} \in G PROVE U \in G
    <2>1. PICK x \in U : TRUE
      BY <1>2
    <2>2. CASE U = {x}
      BY <2>2
    <2>3. CASE U # {x}
      <3>1. PICK n \in U \ {x} : \A m \in U \ {x} : m <= n
        BY <1>2, <2>1, <2>3
      <3>2. n \in Nat /\ x \in Nat
        OBVIOUS
      <3>3. CASE x <= n
        BY <3>1, <3>3
      <3>4. CASE n <= x
        BY <2>1, <3>1, <3>2, <3>4
      <3> QED
        BY <3>2, <3>3, <3>4
    <2> QED
      BY <2>2, <2>3
  <1> HIDE DEF G
  <1>3. \A U \in SUBSET T : U \in G
    BY <1>1, <1>2, AllSubsets
  <1> QED
    BY <1>3 DEF G

\* What a function is iterated to.
LEMMA Iterates ==
  ASSUME NEW V, NEW base \in V, NEW step \in [V -> V]
  PROVE  \E f \in [Nat -> V] : f[0] = base /\ \A n \in Nat : f[n + 1] = step[f[n]]
  <1> DEFINE UpTo(n) == {g \in [0 .. n -> V] :
                           g[0] = base /\ \A i \in 0 .. n - 1 : g[i + 1] = step[g[i]]}
             At(n) == (CHOOSE g \in UpTo(n) : TRUE)[n]
             f == [n \in Nat |-> At(n)]
  <1>1. ASSUME NEW n \in Nat PROVE UpTo(n) # {}
    <2> DEFINE T == {m \in Nat : UpTo(m) # {}}
    <2>1. 0 \in T
      <3>1. [i \in 0 .. 0 |-> base] \in UpTo(0)
        OBVIOUS
      <3> QED
        BY <3>1
    <2>2. ASSUME NEW m \in T PROVE m + 1 \in T
      <3>1. PICK g : g \in UpTo(m)
        BY <2>2
      <3> DEFINE h == [i \in 0 .. m + 1 |-> IF i = m + 1 THEN step[g[m]] ELSE g[i]]
      <3>2. h \in [0 .. m + 1 -> V]
        BY <3>1
      <3>3. h[0] = base /\ \A i \in 0 .. m : h[i + 1] = step[h[i]]
        BY <3>1
      <3> HIDE DEF h
      <3>4. h \in UpTo(m + 1)
        BY <3>2, <3>3
      <3> QED
        BY <3>4
    <2> HIDE DEF T
    <2>3. n \in T
      BY <2>1, <2>2, AllNumbers DEF T
    <2> QED
      BY <2>3 DEF T
  <1>2. ASSUME NEW m \in Nat, NEW n \in Nat, NEW g \in UpTo(m), NEW h \in UpTo(n), NEW i \in Nat,
               i <= m, i <= n
        PROVE  g[i] = h[i]
    <2> DEFINE T == {j \in Nat : j <= m /\ j <= n => g[j] = h[j]}
    <2>1. 0 \in T
      OBVIOUS
    <2>2. ASSUME NEW j \in T PROVE j + 1 \in T
      <3> SUFFICES ASSUME j + 1 <= m, j + 1 <= n PROVE g[j + 1] = h[j + 1]
        OBVIOUS
      <3>1. j \in 0 .. m - 1 /\ j \in 0 .. n - 1
        OBVIOUS
      <3> QED
        BY <3>1
    <2> HIDE DEF T, UpTo
    <2>3. i \in T
      BY <2>1, <2>2, AllNumbers DEF T
    <2> QED
      BY <1>2, <2>3 DEF T
  <1>3. ASSUME NEW n \in Nat
        PROVE  \E g \in UpTo(n) : f[n] = g[n]
    BY <1>1
  <1> HIDE DEF f
  <1>4. f \in [Nat -> V]
    <2>1. ASSUME NEW n \in Nat PROVE At(n) \in V
      <3>1. (CHOOSE g \in UpTo(n) : TRUE) \in UpTo(n)
        BY ONLY <1>1, n \in Nat, Zenon
      <3>2. \A g \in UpTo(n) : g[n] \in V
        OBVIOUS
      <3> HIDE DEF UpTo
      <3> QED
        BY <3>1, <3>2
    <2> HIDE DEF At
    <2> QED
      BY <2>1 DEF f
  <1>5. f[0] = base
    BY <1>3
  <1>6. ASSUME NEW n \in Nat PROVE f[n + 1] = step[f[n]]
    <2>1. PICK g \in UpTo(n) : f[n] = g[n]
      BY <1>3
    <2>2. PICK h \in UpTo(n + 1) : f[n + 1] = h[n + 1]
      <3>1. n + 1 \in Nat
        OBVIOUS
      <3> HIDE DEF UpTo
      <3> QED
        BY <1>3, <3>1
    <2>3. g[n] = h[n]
      <3>1. n \in Nat /\ n + 1 \in Nat /\ n <= n /\ n <= n + 1
        OBVIOUS
      <3> HIDE DEF UpTo
      <3> QED
        BY <1>2, <2>1, <2>2, <3>1
    <2> QED
      BY <2>1, <2>2, <2>3
  <1> QED
    BY <1>4, <1>5, <1>6

-----------------------------------------------------------------------------
(* Sums over finite sets.  IsSum(g, f, S) is the recursion SumFunctionOnSet  *)
(* is defined by.                                                           *)

Some(s) == CHOOSE x \in s : TRUE
IsSum(g, f, S) ==
  g = [s \in SUBSET S |-> IF s = {} THEN 0 ELSE f[Some(s)] + g[s \ {Some(s)}]]

\* Sums agree where both are defined.
LEMMA SumUnique ==
  ASSUME NEW S, IsFiniteSet(S), NEW A \in SUBSET S, NEW B \in SUBSET S, NEW f, NEW g, NEW h,
         IsSum(g, f, A), IsSum(h, f, B)
  PROVE  \A s \in SUBSET (A \cap B) : g[s] = h[s]
  <1> DEFINE G == {s \in SUBSET (A \cap B) : g[s] = h[s]}
  <1>1. {} \in G
    BY DEF IsSum
  <1>2. ASSUME NEW s \in SUBSET (A \cap B), s # {}, \A x \in s : s \ {x} \in G PROVE s \in G
    <2>1. Some(s) \in s
      BY <1>2 DEF Some
    <2>2. g[s] = f[Some(s)] + g[s \ {Some(s)}] /\ h[s] = f[Some(s)] + h[s \ {Some(s)}]
      BY <1>2 DEF IsSum
    <2> QED
      BY <1>2, <2>1, <2>2
  <1>3. IsFiniteSet(A \cap B)
    BY FS_Subset
  <1> HIDE DEF G
  <1>4. \A s \in SUBSET (A \cap B) : s \in G
    BY <1>1, <1>2, <1>3, AllSubsets
  <1> QED
    BY <1>4 DEF G

\* The recursion is well-founded.
LEMMA SumExists ==
  ASSUME NEW S, IsFiniteSet(S), NEW f
  PROVE  \E g : IsSum(g, f, S)
  <1> DEFINE G == {T \in SUBSET S : \E g : IsSum(g, f, T)}
  <1>1. {} \in G
    <2>1. IsSum([s \in SUBSET {} |-> 0], f, {})
      BY DEF IsSum
    <2> QED
      BY <2>1
  <1>2. ASSUME NEW T \in SUBSET S, T # {}, \A x \in T : T \ {x} \in G PROVE T \in G
    <2> DEFINE Sums(x)  == CHOOSE g : IsSum(g, f, T \ {x})
               Below(s) == Sums(Some(T \ s))[s]
               c        == Some(T)
               h        == [s \in SUBSET T |-> IF s = T THEN f[c] + Below(T \ {c}) ELSE Below(s)]
    <2>1. \A x \in T : IsSum(Sums(x), f, T \ {x})
      BY <1>2
    <2>2. c \in T /\ \A s \in SUBSET T : s # T => Some(T \ s) \in T \ s
      BY <1>2 DEF Some
    <2> HIDE DEF Sums, c
    <2>3. ASSUME NEW x \in T, NEW s \in SUBSET (T \ {x})
          PROVE  Below(s) = Sums(x)[s]
      <3>1. Some(T \ s) \in T \ s
        BY <2>2
      <3> DEFINE y == Some(T \ s)
                 A == T \ {y}
                 B == T \ {x}
      <3>2. A \in SUBSET S /\ B \in SUBSET S /\ s \in SUBSET (A \cap B)
        BY <3>1
      <3>3. IsSum(Sums(y), f, A) /\ IsSum(Sums(x), f, B)
        BY <2>1, <3>1
      <3> HIDE DEF y, A, B
      <3>4. Sums(y)[s] = Sums(x)[s]
        BY <3>2, <3>3, SumUnique
      <3> QED
        BY <3>4 DEF y
    <2>4. ASSUME NEW s \in SUBSET T, s # T, s # {}
          PROVE  Below(s) = f[Some(s)] + Below(s \ {Some(s)})
      <3>1. PICK x \in T : x \notin s
        BY <2>4
      <3> DEFINE r == s \ {Some(s)}
      <3>2. s \in SUBSET (T \ {x}) /\ r \in SUBSET (T \ {x})
        BY <3>1
      <3>3. Sums(x)[s] = f[Some(s)] + Sums(x)[r]
        BY <2>1, <2>4, <3>2 DEF IsSum
      <3> HIDE DEF r, Below
      <3>4. Below(s) = Sums(x)[s] /\ Below(r) = Sums(x)[r]
        BY <2>3, <3>2
      <3> QED
        BY <3>3, <3>4 DEF r
    <2>5. Below({}) = 0
      <3>1. Sums(c)[{}] = 0
        BY <2>1, <2>2 DEF IsSum
      <3> HIDE DEF Below
      <3> QED
        BY <2>2, <2>3, <3>1
    <2> HIDE DEF Below
    <2>6. ASSUME NEW s \in SUBSET T
          PROVE  h[s] = IF s = {} THEN 0 ELSE f[Some(s)] + h[s \ {Some(s)}]
      <3>1. CASE s = T
        BY <1>2, <2>2, <3>1 DEF c
      <3>2. CASE s = {}
        BY <1>2, <2>5, <3>2
      <3>3. CASE s # T /\ s # {}
        <4>1. s \ {Some(s)} # T
          BY <3>3
        <4> QED
          BY <2>4, <3>3, <4>1
      <3> QED
        BY <3>1, <3>2, <3>3
    <2>7. IsSum(h, f, T)
      <3>1. h = [s \in SUBSET T |-> h[s]]
        OBVIOUS
      <3> HIDE DEF h
      <3> QED
        BY <2>6, <3>1 DEF IsSum
    <2> QED
      BY <2>7
  <1> HIDE DEF G
  <1>3. \A U \in SUBSET S : U \in G
    BY <1>1, <1>2, AllSubsets
  <1>4. S \in G
    BY <1>3
  <1> QED
    BY <1>4 DEF G

\* What SumFunctionOnSet computes.
LEMMA SumIsSum ==
  ASSUME NEW S, IsFiniteSet(S), NEW f
  PROVE  \E g : IsSum(g, f, S) /\ SumFunctionOnSet(f, S) = g[S]
  <1> DEFINE g == CHOOSE g : IsSum(g, f, S)
  <1>1. IsSum(g, f, S)
    BY SumExists
  <1>2. SumFunctionOnSet(f, S) = g[S]
    BY Zenon DEF IsSum, Some, SumFunctionOnSet, FoldFunctionOnSet, MapThenFoldSet
  <1> QED
    BY <1>1, <1>2

LEMMA SumStep ==
  ASSUME NEW S, IsFiniteSet(S), NEW f
  PROVE  /\ SumFunctionOnSet(f, {}) = 0
         /\ S # {} => /\ Some(S) \in S
                      /\ SumFunctionOnSet(f, S) = f[Some(S)] + SumFunctionOnSet(f, S \ {Some(S)})
  <1>1. SumFunctionOnSet(f, {}) = 0
    <2>1. PICK g : IsSum(g, f, {}) /\ SumFunctionOnSet(f, {}) = g[{}]
      BY SumIsSum, FS_EmptySet
    <2> QED
      BY <2>1 DEF IsSum
  <1>2. ASSUME S # {}
        PROVE  /\ Some(S) \in S
               /\ SumFunctionOnSet(f, S) = f[Some(S)] + SumFunctionOnSet(f, S \ {Some(S)})
    <2> DEFINE T == S \ {Some(S)}
    <2>1. Some(S) \in S
      BY <1>2 DEF Some
    <2>2. IsFiniteSet(T)
      BY FS_Subset
    <2>3. PICK g : IsSum(g, f, S) /\ SumFunctionOnSet(f, S) = g[S]
      BY SumIsSum
    <2>4. PICK h : IsSum(h, f, T) /\ SumFunctionOnSet(f, T) = h[T]
      BY <2>2, SumIsSum
    <2>5. g[S] = f[Some(S)] + g[T]
      BY <1>2, <2>3 DEF IsSum
    <2>6. g[T] = h[T]
      <3>1. S \in SUBSET S /\ T \in SUBSET S /\ T \in SUBSET (S \cap T)
        OBVIOUS
      <3> HIDE DEF T
      <3> QED
        BY <2>3, <2>4, <3>1, SumUnique
    <2> QED
      BY <2>1, <2>3, <2>4, <2>5, <2>6
  <1> QED
    BY <1>1, <1>2

LEMMA SumEmpty == \A f : SumFunctionOnSet(f, {}) = 0
  <1>1. IsFiniteSet({})
    BY FS_EmptySet
  <1> QED
    BY <1>1, SumStep

\* A sum of numbers is a number, and its order does not matter.
LEMMA SumType ==
  ASSUME NEW S, IsFiniteSet(S), NEW f, \A x \in S : f[x] \in Nat
  PROVE  SumFunctionOnSet(f, S) \in Nat
  <1> DEFINE G == {T \in SUBSET S : SumFunctionOnSet(f, T) \in Nat}
  <1>1. {} \in G
    BY SumEmpty
  <1>2. ASSUME NEW T \in SUBSET S, T # {}, \A x \in T : T \ {x} \in G PROVE T \in G
    <2>1. IsFiniteSet(T)
      BY FS_Subset
    <2>2. /\ Some(T) \in T
          /\ SumFunctionOnSet(f, T) = f[Some(T)] + SumFunctionOnSet(f, T \ {Some(T)})
      BY <1>2, <2>1, SumStep
    <2>3. f[Some(T)] \in Nat /\ SumFunctionOnSet(f, T \ {Some(T)}) \in Nat
      BY <1>2, <2>2
    <2> QED
      BY <2>2, <2>3
  <1> HIDE DEF G
  <1>3. \A U \in SUBSET S : U \in G
    BY <1>1, <1>2, AllSubsets
  <1>4. S \in G
    BY <1>3
  <1> QED
    BY <1>4 DEF G

LEMMA SumRemove ==
  ASSUME NEW S, IsFiniteSet(S), NEW f, \A x \in S : f[x] \in Nat
  PROVE  \A x \in S : SumFunctionOnSet(f, S) = f[x] + SumFunctionOnSet(f, S \ {x})
  <1> DEFINE G == {T \in SUBSET S : \A x \in T : SumFunctionOnSet(f, T)
                                                  = f[x] + SumFunctionOnSet(f, T \ {x})}
  <1>0. ASSUME NEW T \in SUBSET S PROVE IsFiniteSet(T) /\ SumFunctionOnSet(f, T) \in Nat
    BY FS_Subset, SumType
  <1>1. {} \in G
    OBVIOUS
  <1>2. ASSUME NEW T \in SUBSET S, T # {}, \A x \in T : T \ {x} \in G PROVE T \in G
    <2> SUFFICES ASSUME NEW x \in T
                 PROVE  SumFunctionOnSet(f, T) = f[x] + SumFunctionOnSet(f, T \ {x})
      OBVIOUS
    <2> DEFINE c == Some(T)
    <2>1. c \in T /\ SumFunctionOnSet(f, T) = f[c] + SumFunctionOnSet(f, T \ {c})
      BY <1>0, <1>2, SumStep
    <2> HIDE DEF c
    <2>2. CASE x = c
      BY <2>1, <2>2
    <2>3. CASE x # c
      <3> DEFINE U == (T \ {c}) \ {x}
      <3>1. U = (T \ {x}) \ {c}
        OBVIOUS
      <3>2. SumFunctionOnSet(f, T \ {c}) = f[x] + SumFunctionOnSet(f, U)
        BY <1>2, <2>1, <2>3
      <3>3. SumFunctionOnSet(f, T \ {x}) = f[c] + SumFunctionOnSet(f, U)
        BY <1>2, <2>1, <2>3, <3>1
      <3>4. SumFunctionOnSet(f, U) \in Nat /\ f[x] \in Nat /\ f[c] \in Nat
        BY <1>0, <2>1
      <3> HIDE DEF U
      <3> QED
        BY <2>1, <3>2, <3>3, <3>4
    <2> QED
      BY <2>2, <2>3
  <1> HIDE DEF G
  <1>3. \A U \in SUBSET S : U \in G
    BY <1>1, <1>2, AllSubsets
  <1>4. S \in G
    BY <1>3
  <1> QED
    BY <1>4 DEF G

\* Sums are monotonic, and linear.
LEMMA SumMonotonic ==
  ASSUME NEW S, IsFiniteSet(S), NEW f, NEW g,
         \A x \in S : f[x] \in Nat /\ g[x] \in Nat /\ f[x] <= g[x]
  PROVE  SumFunctionOnSet(f, S) <= SumFunctionOnSet(g, S)
  <1> DEFINE G == {T \in SUBSET S : SumFunctionOnSet(f, T) <= SumFunctionOnSet(g, T)}
  <1>0. ASSUME NEW T \in SUBSET S
        PROVE  /\ IsFiniteSet(T)
               /\ SumFunctionOnSet(f, T) \in Nat /\ SumFunctionOnSet(g, T) \in Nat
    BY FS_Subset, SumType
  <1>1. {} \in G
    BY SumEmpty
  <1>2. ASSUME NEW T \in SUBSET S, T # {}, \A x \in T : T \ {x} \in G PROVE T \in G
    <2>1. PICK x \in T : TRUE
      BY <1>2
    <2>2. SumFunctionOnSet(f, T) = f[x] + SumFunctionOnSet(f, T \ {x})
      BY <1>0, SumRemove
    <2>3. SumFunctionOnSet(g, T) = g[x] + SumFunctionOnSet(g, T \ {x})
      BY <1>0, SumRemove
    <2>4. /\ SumFunctionOnSet(f, T \ {x}) \in Nat /\ SumFunctionOnSet(g, T \ {x}) \in Nat
          /\ SumFunctionOnSet(f, T \ {x}) <= SumFunctionOnSet(g, T \ {x})
      BY <1>0, <1>2
    <2>5. SumFunctionOnSet(f, T) <= SumFunctionOnSet(g, T)
      BY <2>2, <2>3, <2>4
    <2> QED
      BY <2>5
  <1> HIDE DEF G
  <1>3. \A U \in SUBSET S : U \in G
    BY <1>1, <1>2, AllSubsets
  <1>4. S \in G
    BY <1>3
  <1> QED
    BY <1>4 DEF G

LEMMA SumLinear ==
  ASSUME NEW S, IsFiniteSet(S), NEW f, NEW g, NEW h,
         \A x \in S : f[x] \in Nat /\ g[x] \in Nat /\ h[x] = f[x] + g[x]
  PROVE  SumFunctionOnSet(h, S) = SumFunctionOnSet(f, S) + SumFunctionOnSet(g, S)
  <1> DEFINE G == {T \in SUBSET S : SumFunctionOnSet(h, T)
                                     = SumFunctionOnSet(f, T) + SumFunctionOnSet(g, T)}
  <1>0. ASSUME NEW T \in SUBSET S
        PROVE  /\ IsFiniteSet(T) /\ \A x \in T : h[x] \in Nat
               /\ SumFunctionOnSet(f, T) \in Nat /\ SumFunctionOnSet(g, T) \in Nat
    BY FS_Subset, SumType
  <1>1. {} \in G
    BY SumEmpty
  <1>2. ASSUME NEW T \in SUBSET S, T # {}, \A x \in T : T \ {x} \in G PROVE T \in G
    <2>1. PICK x \in T : TRUE
      BY <1>2
    <2>2. SumFunctionOnSet(f, T) = f[x] + SumFunctionOnSet(f, T \ {x})
      BY <1>0, SumRemove
    <2>3. SumFunctionOnSet(g, T) = g[x] + SumFunctionOnSet(g, T \ {x})
      BY <1>0, SumRemove
    <2>4. SumFunctionOnSet(h, T) = h[x] + SumFunctionOnSet(h, T \ {x})
      BY <1>0, SumRemove
    <2>5. /\ SumFunctionOnSet(f, T \ {x}) \in Nat /\ SumFunctionOnSet(g, T \ {x}) \in Nat
          /\ SumFunctionOnSet(h, T \ {x})
               = SumFunctionOnSet(f, T \ {x}) + SumFunctionOnSet(g, T \ {x})
      BY <1>0, <1>2
    <2>6. SumFunctionOnSet(h, T) = SumFunctionOnSet(f, T) + SumFunctionOnSet(g, T)
      BY <2>2, <2>3, <2>4, <2>5
    <2> QED
      BY <2>6
  <1> HIDE DEF G
  <1>3. \A U \in SUBSET S : U \in G
    BY <1>1, <1>2, AllSubsets
  <1>4. S \in G
    BY <1>3
  <1> QED
    BY <1>4 DEF G

\* What is zero may be left out.
LEMMA SumPart ==
  ASSUME NEW S, IsFiniteSet(S), NEW f, \A x \in S : f[x] \in Nat,
         NEW T \in SUBSET S, \A x \in S \ T : f[x] = 0
  PROVE  SumFunctionOnSet(f, S) = SumFunctionOnSet(f, T)
  <1> DEFINE G == {U \in SUBSET S : T \subseteq U
                                      => SumFunctionOnSet(f, U) = SumFunctionOnSet(f, T)}
  <1>0. ASSUME NEW U \in SUBSET S PROVE IsFiniteSet(U) /\ SumFunctionOnSet(f, U) \in Nat
    BY FS_Subset, SumType
  <1>1. {} \in G
    <2>1. T \subseteq {} => T = {}
      OBVIOUS
    <2> QED
      BY <2>1
  <1>2. ASSUME NEW U \in SUBSET S, U # {}, \A x \in U : U \ {x} \in G PROVE U \in G
    <2> SUFFICES ASSUME T \subseteq U, U # T
                 PROVE  SumFunctionOnSet(f, U) = SumFunctionOnSet(f, T)
      OBVIOUS
    <2>1. PICK x \in U : x \notin T
      OBVIOUS
    <2>2. SumFunctionOnSet(f, U) = f[x] + SumFunctionOnSet(f, U \ {x})
      BY <1>0, SumRemove
    <2>3. SumFunctionOnSet(f, U \ {x}) = SumFunctionOnSet(f, T)
      BY <1>2, <2>1
    <2> QED
      BY <1>0, <2>1, <2>2, <2>3
  <1> HIDE DEF G
  <1>3. \A U \in SUBSET S : U \in G
    BY <1>1, <1>2, AllSubsets
  <1>4. S \in G
    BY <1>3
  <1> QED
    BY <1>4 DEF G

LEMMA SumOne ==
  ASSUME NEW S, IsFiniteSet(S), NEW p \in S, NEW f,
         \A x \in S : f[x] = IF x = p THEN 1 ELSE 0
  PROVE  SumFunctionOnSet(f, S) = 1
  <1>1. SumFunctionOnSet(f, S) = f[p] + SumFunctionOnSet(f, S \ {p})
    BY SumRemove
  <1>2. SumFunctionOnSet(f, S \ {p}) = SumFunctionOnSet(f, {})
    <2> DEFINE T == S \ {p}
    <2>1. IsFiniteSet(T)
      BY FS_Subset
    <2>2. \A x \in T : f[x] = 0
      OBVIOUS
    <2> HIDE DEF T
    <2>3. SumFunctionOnSet(f, T) = SumFunctionOnSet(f, {})
      BY <2>1, <2>2, SumPart
    <2> QED
      BY <2>3 DEF T
  <1> QED
    BY <1>1, <1>2, SumEmpty

-----------------------------------------------------------------------------
(* Iterations over the steps of a plan.                                    *)

\* An iteration that adds something each time until it is done, and then stays done, is
\* done after as many rounds as there are elements, or has them all.
LEMMA Saturates ==
  ASSUME NEW S, IsFiniteSet(S), NEW A \in [Nat -> SUBSET S], NEW Done \in SUBSET Nat,
         \A n \in Nat : A[n] \subseteq A[n + 1],
         \A n \in Nat : A[n] # A[n + 1] \/ n \in Done,
         \A n \in Done : n + 1 \in Done
  PROVE  Cardinality(S) \in Done \/ A[Cardinality(S)] = S
  <1> DEFINE T == {n \in Nat : n \in Done \/ n <= Cardinality(A[n])}
  <1>0. ASSUME NEW n \in Nat
        PROVE  /\ A[n] \in SUBSET S /\ IsFiniteSet(A[n]) /\ Cardinality(A[n]) \in Nat
               /\ Cardinality(A[n]) <= Cardinality(S)
               /\ Cardinality(A[n]) = Cardinality(S) => A[n] = S
    <2>1. A[n] \in SUBSET S
      OBVIOUS
    <2> QED
      BY <2>1, FS_Subset, FS_CardinalityType
  <1>1. 0 \in T
    BY <1>0
  <1>2. ASSUME NEW n \in T PROVE n + 1 \in T
    <2> SUFFICES ASSUME n \notin Done PROVE n + 1 <= Cardinality(A[n + 1])
      OBVIOUS
    <2>1. A[n] \subseteq A[n + 1] /\ A[n] # A[n + 1] /\ n <= Cardinality(A[n])
      OBVIOUS
    <2>2. /\ IsFiniteSet(A[n + 1])
          /\ Cardinality(A[n]) \in Nat /\ Cardinality(A[n + 1]) \in Nat
      BY <1>0
    <2>3. /\ Cardinality(A[n]) <= Cardinality(A[n + 1])
          /\ Cardinality(A[n + 1]) = Cardinality(A[n]) => A[n + 1] = A[n]
      BY <2>1, <2>2, FS_Subset
    <2> QED
      BY <2>1, <2>2, <2>3
  <1> HIDE DEF T
  <1>3. \A n \in Nat : n \in T
    BY <1>1, <1>2, AllNumbers DEF T
  <1>4. Cardinality(S) \in Nat
    BY FS_CardinalityType
  <1>5. Cardinality(S) \in T
    BY <1>3, <1>4
  <1> QED
    BY <1>0, <1>4, <1>5 DEF T

\* Reached follows its recursion, and grows.
IsReached(f, p, s) ==
  f = [n \in Nat |-> IF n = 0 THEN Successors(Dag(p), s)
                     ELSE f[n - 1] \cup AllSuccessors(Dag(p), f[n - 1])]

LEMMA ReachedExists ==
  ASSUME NEW p, NEW s
  PROVE  \E f : /\ IsReached(f, p, s) /\ f \in [Nat -> SUBSET DOMAIN p.tool]
                /\ Reached(p, s) = f[Cardinality(DOMAIN p.tool)]
  <1> DEFINE V    == SUBSET DOMAIN p.tool
             On(A) == A \cup AllSuccessors(Dag(p), A)
             step == [A \in V |-> On(A)]
  <1>0. Successors(Dag(p), s) \in V /\ \A A \in V : On(A) \in V
    BY DEF Successors, AllSuccessors, Dag
  <1>1. step \in [V -> V]
    <2> HIDE DEF V, On
    <2> QED
      BY <1>0
  <1>2. PICK f \in [Nat -> V] : f[0] = Successors(Dag(p), s) /\ \A n \in Nat : f[n + 1] = step[f[n]]
    <2> DEFINE base == Successors(Dag(p), s)
    <2>1. base \in V
      BY <1>0
    <2> HIDE DEF V, step, base
    <2>2. \E f \in [Nat -> V] : f[0] = base /\ \A n \in Nat : f[n + 1] = step[f[n]]
      BY <1>1, <2>1, Iterates
    <2> QED
      BY <2>2 DEF base
  <1>3. IsReached(f, p, s)
    <2> DEFINE Row(n) == IF n = 0 THEN Successors(Dag(p), s) ELSE On(f[n - 1])
    <2> HIDE DEF V, On
    <2>1. ASSUME NEW n \in Nat PROVE f[n] = Row(n)
      <3>1. CASE n = 0
        BY <1>2, <3>1
      <3>2. CASE n # 0
        <4>1. n - 1 \in Nat /\ (n - 1) + 1 = n
          BY <3>2
        <4> QED
          BY <1>2, <3>2, <4>1
      <3> QED
        BY <3>1, <3>2
    <2> HIDE DEF Row
    <2>2. f = [n \in Nat |-> Row(n)]
      BY <1>2, <2>1
    <2> QED
      BY <2>2, Zenon DEF Row, On, IsReached
  <1> DEFINE g == CHOOSE g : IsReached(g, p, s)
  <1>4. IsReached(g, p, s)
    BY <1>3
  <1>5. Reached(p, s) = g[Cardinality(DOMAIN p.tool)]
    <2>1. Dag(p).node = DOMAIN p.tool
      BY DEF Dag
    <2> QED
      BY <2>1, Zenon DEF IsReached, Reached
  <1>6. g = f
    <2> DEFINE T == {n \in Nat : g[n] = f[n]}
    <2>1. \A n \in Nat : n \in T
      <3>1. 0 \in T
        BY <1>3, <1>4 DEF IsReached
      <3>2. ASSUME NEW n \in T PROVE n + 1 \in T
        <4>1. n + 1 \in Nat /\ n + 1 # 0 /\ (n + 1) - 1 = n
          OBVIOUS
        <4>2. /\ g[n + 1] = g[n] \cup AllSuccessors(Dag(p), g[n])
              /\ f[n + 1] = f[n] \cup AllSuccessors(Dag(p), f[n])
          BY <1>3, <1>4, <4>1 DEF IsReached
        <4> QED
          BY <4>1, <4>2
      <3> HIDE DEF T
      <3>3. T \in SUBSET Nat
        BY DEF T
      <3> QED
        BY <3>1, <3>2, <3>3, AllNumbers
    <2> QED
      BY <1>3, <1>4, <2>1 DEF IsReached
  <1> QED
    BY <1>2, <1>4, <1>5, <1>6

\* The sets of steps no dependency leads out of, with s before them.
Closed(p, s, past) == \A e \in Dag(p).edge : e[1] = s \/ e[1] \in past => e[2] \in past

LEMMA ClosedSets ==
  ASSUME NEW p, NEW s \in DOMAIN p.tool, NEW past \in SUBSET DOMAIN p.tool
  PROVE  Closed(p, s, past) <=> /\ Successors(Dag(p), s) \subseteq past
                                /\ AllSuccessors(Dag(p), past) \subseteq past
  <1>1. ASSUME NEW a, NEW b
        PROVE  <<a, b>> \in Dag(p).edge => a \in DOMAIN p.tool /\ b \in DOMAIN p.tool
    BY DEF Dag
  <1>2. \A e \in Dag(p).edge : e = <<e[1], e[2]>>
    BY DEF Dag
  <1>3. ASSUME NEW a PROVE Successors(Dag(p), a) = {m \in DOMAIN p.tool : <<a, m>> \in Dag(p).edge}
    BY DEF Successors, Dag
  <1>4. AllSuccessors(Dag(p), past) \subseteq past
          <=> \A a \in past : Successors(Dag(p), a) \subseteq past
    BY DEF AllSuccessors
  <1>5. ASSUME Closed(p, s, past), NEW a, a = s \/ a \in past
        PROVE  Successors(Dag(p), a) \subseteq past
    <2> SUFFICES ASSUME NEW m \in Successors(Dag(p), a) PROVE m \in past
      OBVIOUS
    <2> DEFINE e == <<a, m>>
    <2>1. e \in Dag(p).edge /\ e[1] = a /\ e[2] = m
      BY <1>3
    <2> HIDE DEF e
    <2> QED
      BY <1>5, <2>1 DEF Closed
  <1>6. ASSUME \A a : a = s \/ a \in past => Successors(Dag(p), a) \subseteq past
        PROVE  Closed(p, s, past)
    <2> SUFFICES ASSUME NEW e \in Dag(p).edge, e[1] = s \/ e[1] \in past PROVE e[2] \in past
      BY DEF Closed
    <2>1. <<e[1], e[2]>> \in Dag(p).edge /\ e[2] \in DOMAIN p.tool
      BY <1>1, <1>2
    <2>2. e[2] \in Successors(Dag(p), e[1])
      BY <1>3, <2>1
    <2> QED
      BY <1>6, <2>2
  <1> QED
    BY <1>4, <1>5, <1>6

\* A dependency, and one dependency after another.
LEMMA PrecedesStep ==
  ASSUME NEW p, NEW s, NEW t, <<s, t>> \in Dag(p).edge
  PROVE  Precedes(p, s, t)
  BY DEF Precedes

LEMMA PrecedesTransitive ==
  ASSUME NEW p, NEW s, NEW t, NEW u, Precedes(p, s, t), Precedes(p, t, u)
  PROVE  Precedes(p, s, u)
  <1> SUFFICES ASSUME NEW past \in SUBSET DOMAIN p.tool, Closed(p, s, past)
               PROVE  u \in past
    BY DEF Precedes, Closed
  <1>1. t \in past
    BY DEF Precedes, Closed
  <1>2. Closed(p, t, past)
    BY <1>1 DEF Closed
  <1> QED
    BY <1>2 DEF Precedes, Closed

\* The transitive closure has what there is a way to.
LEMMA ReachedFollows ==
  ASSUME NEW p, IsFiniteSet(DOMAIN p.tool), NEW s \in DOMAIN p.tool
  PROVE  \A t : t \in Reached(p, s) <=> t \in DOMAIN p.tool /\ Precedes(p, s, t)
  <1> DEFINE S == DOMAIN p.tool
  <1>1. PICK f : /\ IsReached(f, p, s) /\ f \in [Nat -> SUBSET S]
                 /\ Reached(p, s) = f[Cardinality(S)]
    BY ReachedExists
  <1>2. /\ f[0] = Successors(Dag(p), s)
        /\ \A n \in Nat : f[n + 1] = f[n] \cup AllSuccessors(Dag(p), f[n])
    <2>1. \A n \in Nat : n + 1 \in Nat /\ n + 1 # 0 /\ (n + 1) - 1 = n
      OBVIOUS
    <2> QED
      BY <1>1, <2>1 DEF IsReached
  <1> DEFINE Done == {n \in Nat : Closed(p, s, f[n])}
             From == {n \in Nat : Successors(Dag(p), s) \subseteq f[n]}
  <1>3. \A n \in Nat : n \in From
    <2>1. 0 \in From /\ \A n \in From : n + 1 \in From
      BY <1>2
    <2>2. From \in SUBSET Nat
      OBVIOUS
    <2> HIDE DEF From
    <2> QED
      BY <2>1, <2>2, AllNumbers
  <1>4. \A n \in Nat : f[n] \subseteq f[n + 1] /\ (f[n] = f[n + 1] <=> n \in Done)
    <2> SUFFICES ASSUME NEW n \in Nat
                 PROVE  f[n] \subseteq f[n + 1] /\ (f[n] = f[n + 1] <=> n \in Done)
      OBVIOUS
    <2>1. f[n] \in SUBSET DOMAIN p.tool
      BY <1>1
    <2>2. n \in Done <=> AllSuccessors(Dag(p), f[n]) \subseteq f[n]
      BY <1>3, <2>1, ClosedSets
    <2> QED
      BY <1>2, <2>2
  <1>5. \A n \in Done : n + 1 \in Done
    <2> SUFFICES ASSUME NEW n \in Done PROVE n + 1 \in Done
      OBVIOUS
    <2>1. f[n + 1] = f[n]
      BY <1>4
    <2> QED
      BY <2>1
  <1>6. Closed(p, s, f[Cardinality(S)])
    <2>1. Cardinality(S) \in Done \/ f[Cardinality(S)] = S
      <3>1. Done \in SUBSET Nat
        OBVIOUS
      <3> HIDE DEF Done, S
      <3> QED
        BY <1>1, <1>4, <1>5, <3>1, Saturates DEF S
    <2>2. Closed(p, s, S)
      BY DEF Closed, Dag
    <2> QED
      BY <2>1, <2>2
  <1>7. ASSUME NEW past \in SUBSET S, Closed(p, s, past)
        PROVE  f[Cardinality(S)] \subseteq past
    <2> DEFINE T == {n \in Nat : f[n] \subseteq past}
    <2>1. /\ Successors(Dag(p), s) \subseteq past
          /\ AllSuccessors(Dag(p), past) \subseteq past
      BY <1>7, ClosedSets
    <2>2. 0 \in T
      BY <1>2, <2>1
    <2>3. \A n \in T : n + 1 \in T
      BY <1>2, <2>1 DEF AllSuccessors
    <2>4. T \in SUBSET Nat
      OBVIOUS
    <2> HIDE DEF T
    <2>5. \A n \in Nat : n \in T
      BY <2>2, <2>3, <2>4, AllNumbers
    <2> QED
      BY <2>5, FS_CardinalityType DEF T
  <1>8. f[Cardinality(S)] \in SUBSET S
    BY <1>1, FS_CardinalityType
  <1>9. \A t : Precedes(p, s, t) <=> \A past \in SUBSET S : Closed(p, s, past) => t \in past
    BY DEF Precedes, Closed
  <1> HIDE DEF S
  <1> QED
    BY <1>1, <1>6, <1>7, <1>8, <1>9 DEF S

\* Among any steps of a plan there is one that none of them precedes.
LEMMA FirstStep ==
  ASSUME NEW p, IsPlan(p), NEW T \in SUBSET DOMAIN p.tool, T # {}
  PROVE  \E s \in T : \A t \in T : ~Precedes(p, t, s)
  <1> DEFINE S == DOMAIN p.tool
             G == {U \in SUBSET S : U # {} => \E s \in U : \A t \in U : ~Precedes(p, t, s)}
  <1>0. IsFiniteSet(S)
    BY DEF IsPlan
  <1>1. {} \in G
    OBVIOUS
  <1>2. ASSUME NEW U \in SUBSET S, U # {}, \A x \in U : U \ {x} \in G PROVE U \in G
    <2>1. PICK x \in U : TRUE
      BY <1>2
    <2>2. ~Precedes(p, x, x)
      BY <2>1 DEF IsPlan
    <2>3. CASE U = {x}
      BY <2>2, <2>3
    <2>4. CASE U # {x}
      <3>1. PICK y \in U \ {x} : \A t \in U \ {x} : ~Precedes(p, t, y)
        BY <1>2, <2>1, <2>4
      <3>2. CASE Precedes(p, x, y)
        <4>1. \A t \in U \ {x} : ~Precedes(p, t, x)
          BY <3>1, <3>2, PrecedesTransitive
        <4> QED
          BY <2>1, <2>2, <4>1
      <3> QED
        BY <3>1, <3>2
    <2> QED
      BY <2>3, <2>4
  <1> HIDE DEF G
  <1>3. \A U \in SUBSET S : U \in G
    BY <1>0, <1>1, <1>2, AllSubsets
  <1> QED
    BY <1>3 DEF G

-----------------------------------------------------------------------------
(* Rounds.                                                                 *)

\* Generation follows its recursion.
IsDone(f, p) ==
  f = [n \in Nat |-> IF n = 0 THEN {}
                     ELSE {s \in Dag(p).node : Predecessors(Dag(p), s) \subseteq f[n - 1]}]

LEMMA DoneExists ==
  ASSUME NEW p
  PROVE  \E f : /\ f \in [Nat -> SUBSET DOMAIN p.tool]
                /\ f[0] = {}
                /\ \A n \in Nat : f[n + 1] = {s \in DOMAIN p.tool :
                                                Predecessors(Dag(p), s) \subseteq f[n]}
                /\ Generation(p) = [n \in 1 .. Cardinality(DOMAIN p.tool) |-> f[n] \ f[n - 1]]
  <1> DEFINE V      == SUBSET DOMAIN p.tool
             Nxt(A) == {s \in DOMAIN p.tool : Predecessors(Dag(p), s) \subseteq A}
             step   == [A \in V |-> Nxt(A)]
             base   == {}
  <1>0. Dag(p).node = DOMAIN p.tool
    BY DEF Dag
  <1>1. step \in [V -> V] /\ base \in V
    OBVIOUS
  <1>2. PICK f \in [Nat -> V] : f[0] = base /\ \A n \in Nat : f[n + 1] = step[f[n]]
    <2> HIDE DEF V, step, base
    <2> QED
      BY <1>1, Iterates
  <1>3. IsDone(f, p)
    <2> DEFINE Row(n) == IF n = 0 THEN {} ELSE Nxt(f[n - 1])
    <2> HIDE DEF V, Nxt
    <2>1. ASSUME NEW n \in Nat PROVE f[n] = Row(n)
      <3>1. CASE n = 0
        BY <1>2, <3>1
      <3>2. CASE n # 0
        <4>1. n - 1 \in Nat /\ (n - 1) + 1 = n
          BY <3>2
        <4> QED
          BY <1>2, <3>2, <4>1
      <3> QED
        BY <3>1, <3>2
    <2> HIDE DEF Row
    <2>2. f = [n \in Nat |-> Row(n)]
      BY <1>2, <2>1
    <2> QED
      BY <1>0, <2>2, Zenon DEF Row, Nxt, IsDone
  <1> DEFINE g == CHOOSE g : IsDone(g, p)
  <1>4. IsDone(g, p)
    BY <1>3
  <1>5. Generation(p) = [n \in 1 .. Cardinality(DOMAIN p.tool) |-> g[n] \ g[n - 1]]
    BY <1>0, Zenon DEF IsDone, Generation
  <1>6. g = f
    <2> DEFINE T == {n \in Nat : g[n] = f[n]}
    <2>1. 0 \in T
      BY <1>3, <1>4 DEF IsDone
    <2>2. ASSUME NEW n \in T PROVE n + 1 \in T
      <3>1. n + 1 \in Nat /\ n + 1 # 0 /\ (n + 1) - 1 = n
        OBVIOUS
      <3>2. g[n + 1] = Nxt(g[n])
        <4>1. g[n + 1] = {s \in Dag(p).node : Predecessors(Dag(p), s) \subseteq g[(n + 1) - 1]}
          BY <1>4, <3>1 DEF IsDone
        <4> QED
          BY <1>0, <3>1, <4>1
      <3>3. f[n + 1] = Nxt(f[n])
        BY <1>2
      <3> QED
        BY <3>1, <3>2, <3>3
    <2>3. T \in SUBSET Nat
      OBVIOUS
    <2> HIDE DEF T
    <2>4. \A n \in Nat : n \in T
      BY <2>1, <2>2, <2>3, AllNumbers
    <2> QED
      BY <1>3, <1>4, <2>4 DEF IsDone, T
  <1>7. \A n \in Nat : f[n + 1] = Nxt(f[n])
    BY <1>2
  <1> HIDE DEF g
  <1>8. Generation(p) = [n \in 1 .. Cardinality(DOMAIN p.tool) |-> f[n] \ f[n - 1]]
    BY <1>5, <1>6, Zenon
  <1> QED
    BY <1>2, <1>7, <1>8

\* The recursion EarliestRound solves, and the maximum in it.
IsRound(round, p) ==
  /\ round \in [DOMAIN p.tool -> 1 .. Cardinality(DOMAIN p.tool)]
  /\ \A s \in DOMAIN p.tool :
       round[s] = Max({0} \cup {round[t] : t \in Predecessors(Dag(p), s)}) + 1

LEMMA MaxIs ==
  ASSUME NEW M \in SUBSET Int, NEW m \in M, \A x \in M : x <= m
  PROVE  Max(M) = m
  <1>1. Max(M) \in M /\ \A x \in M : Max(M) >= x
    BY DEF Max
  <1>2. Max(M) \in Int /\ m \in Int /\ Max(M) <= m /\ Max(M) >= m
    BY <1>1
  <1> QED
    BY <1>2

\* The steps a step depends on precede it.
LEMMA PredecessorsPrecede ==
  ASSUME NEW p, NEW s, NEW t \in Predecessors(Dag(p), s)
  PROVE  t \in DOMAIN p.tool /\ Precedes(p, t, s)
  BY PrecedesStep DEF Predecessors, Dag

\* A plan has one schedule.
LEMMA OneRound ==
  ASSUME NEW p, IsPlan(p), NEW f, IsRound(f, p), NEW g, IsRound(g, p)
  PROVE  f = g
  <1> DEFINE T == {s \in DOMAIN p.tool : f[s] # g[s]}
  <1> SUFFICES ASSUME T # {} PROVE FALSE
    BY DEF IsRound
  <1>1. PICK s \in T : \A t \in T : ~Precedes(p, t, s)
    <2>1. T \in SUBSET DOMAIN p.tool
      OBVIOUS
    <2> HIDE DEF T
    <2> QED
      BY <2>1, FirstStep
  <1>2. \A t \in Predecessors(Dag(p), s) : f[t] = g[t]
    BY <1>1, PredecessorsPrecede
  <1>3. {f[t] : t \in Predecessors(Dag(p), s)} = {g[t] : t \in Predecessors(Dag(p), s)}
    BY <1>2
  <1>4. f[s] = g[s]
    BY <1>3 DEF IsRound
  <1> QED
    BY <1>4

\* The generations are that schedule.
LEMMA GenerationIsRound ==
  ASSUME NEW p, IsPlan(p)
  PROVE  /\ IsRound(EarliestRound(p), p)
         /\ Generation(p) = [n \in 1 .. Cardinality(DOMAIN p.tool) |->
                               {s \in DOMAIN p.tool : EarliestRound(p)[s] = n}]
  <1> DEFINE S == DOMAIN p.tool
             N == Cardinality(S)
             Before(s) == Predecessors(Dag(p), s)
  <1>0. IsFiniteSet(S) /\ N \in Nat
    BY FS_CardinalityType DEF IsPlan
  <1>1. PICK f :
          /\ f \in [Nat -> SUBSET S]
          /\ f[0] = {}
          /\ \A n \in Nat : f[n + 1] = {s \in S : Before(s) \subseteq f[n]}
          /\ Generation(p) = [n \in 1 .. N |-> f[n] \ f[n - 1]]
    BY DoneExists, Zenon
  <1>2. \A n \in Nat : f[n] \subseteq f[n + 1]
    <2> DEFINE T == {n \in Nat : f[n] \subseteq f[n + 1]}
    <2>1. 0 \in T
      BY <1>1
    <2>2. \A n \in T : n + 1 \in T
      BY <1>1
    <2>3. T \in SUBSET Nat
      OBVIOUS
    <2> HIDE DEF T
    <2>4. \A n \in Nat : n \in T
      BY <2>1, <2>2, <2>3, AllNumbers
    <2> QED
      BY <2>4 DEF T
  <1>3. f[N] = S
    <2> DEFINE Done == {n \in Nat : f[n] = S}
    <2>1. \A n \in Done : n + 1 \in Done
      <3> SUFFICES ASSUME NEW n \in Nat, f[n] = S PROVE f[n + 1] = S
        OBVIOUS
      <3>1. n + 1 \in Nat /\ f[n + 1] \subseteq S
        BY <1>1
      <3> HIDE DEF S
      <3> QED
        BY <1>2, <3>1
    <2>2. ASSUME NEW n \in Nat, f[n] = f[n + 1] PROVE n \in Done
      <3> DEFINE T == S \ f[n]
      <3> SUFFICES ASSUME T # {} PROVE FALSE
        BY <1>1
      <3>1. T \in SUBSET DOMAIN p.tool
        OBVIOUS
      <3> HIDE DEF T
      <3>2. PICK s \in T : \A t \in T : ~Precedes(p, t, s)
        BY <3>1, FirstStep
      <3>3. Before(s) \subseteq f[n]
        BY <3>2, PredecessorsPrecede DEF T
      <3>4. s \in S /\ s \notin f[n]
        BY <3>2 DEF T
      <3>5. s \in f[n + 1]
        BY <1>1, <3>3, <3>4
      <3> QED
        BY <2>2, <3>4, <3>5
    <2>3. Done \in SUBSET Nat /\ (N \in Done => f[N] = S)
      OBVIOUS
    <2>4. f \in [Nat -> SUBSET S]
      BY <1>1
    <2> HIDE DEF Done, S
    <2> QED
      BY <1>0, <1>2, <2>1, <2>2, <2>3, <2>4, Saturates
  <1> DEFINE In(s) == {n \in Nat : s \in f[n]}
             Least(s) == CHOOSE n \in In(s) : \A m \in In(s) : n <= m
             round == [s \in S |-> Least(s)]
  <1>4. ASSUME NEW s \in S
        PROVE  /\ round[s] \in 1 .. N
               /\ \A n \in Nat : s \in f[n] <=> round[s] <= n
    <2>1. N \in In(s)
      BY <1>0, <1>3
    <2>2. Least(s) \in In(s) /\ \A m \in In(s) : Least(s) <= m
      <3>1. In(s) \in SUBSET Nat
        OBVIOUS
      <3> HIDE DEF In
      <3> QED
        BY <2>1, <3>1, LeastNumber
    <2> DEFINE k == round[s]
    <2>3. k \in Nat /\ s \in f[k] /\ \A m \in Nat : s \in f[m] => k <= m
      BY <2>2
    <2> HIDE DEF k, In, Least, round
    <2>4. k # 0 /\ k <= N
      BY <1>0, <1>1, <1>3, <2>3
    <2>5. ASSUME NEW n \in Nat, k <= n PROVE s \in f[n]
      <3> DEFINE T == {i \in Nat : s \in f[k + i]}
      <3>1. 0 \in T
        BY <2>3
      <3>2. ASSUME NEW i \in T PROVE i + 1 \in T
        <4>1. k + i \in Nat /\ (k + i) + 1 = k + (i + 1)
          BY <2>3
        <4> QED
          BY <1>2, <4>1
      <3>3. T \in SUBSET Nat
        OBVIOUS
      <3> HIDE DEF T
      <3>4. \A i \in Nat : i \in T
        BY <3>1, <3>2, <3>3, AllNumbers
      <3>5. n - k \in Nat /\ k + (n - k) = n
        BY <2>3, <2>5
      <3> QED
        BY <3>4, <3>5 DEF T
    <2> QED
      BY <1>0, <2>3, <2>4, <2>5 DEF k
  <1>5. round \in [S -> 1 .. N]
    <2>1. \A s \in S : Least(s) \in 1 .. N
      BY <1>4
    <2> HIDE DEF Least
    <2> QED
      BY <2>1
  <1> HIDE DEF round
  <1>6. ASSUME NEW s \in S
        PROVE  round[s] = Max({0} \cup {round[t] : t \in Before(s)}) + 1
    <2> DEFINE k == round[s] - 1
               M == {0} \cup {round[t] : t \in Before(s)}
    <2>1. k \in Nat /\ k + 1 = round[s]
      BY <1>0, <1>5
    <2>2. Before(s) \subseteq S
      BY DEF Predecessors, Dag
    <2>3. M \in SUBSET Int
      BY <1>0, <1>5, <2>2
    <2>4. s \in f[k + 1] /\ s \notin f[k]
      BY <1>4, <2>1
    <2>5. ASSUME NEW t \in Before(s) PROVE round[t] <= k
      BY <1>1, <1>4, <2>1, <2>2, <2>4
    <2>6. k \in M
      <3>1. CASE k = 0
        BY <3>1
      <3>2. CASE k # 0
        <4>1. k - 1 \in Nat /\ (k - 1) + 1 = k
          BY <2>1, <3>2
        <4>2. PICK t \in Before(s) : t \notin f[k - 1]
          BY <1>1, <2>4, <4>1
        <4>3. round[t] = k
          <5>1. round[t] \in Int /\ ~(round[t] <= k - 1) /\ round[t] <= k
            BY <1>0, <1>4, <1>5, <2>2, <2>5, <4>1, <4>2
          <5> QED
            BY <2>1, <5>1
        <4> QED
          BY <4>3
      <3> QED
        BY <3>1, <3>2
    <2>7. \A x \in M : x <= k
      BY <2>1, <2>5
    <2> HIDE DEF M, k
    <2>8. Max(M) = k
      BY <2>3, <2>6, <2>7, MaxIs
    <2> QED
      BY <2>1, <2>8 DEF M
  <1>7. IsRound(round, p)
    BY <1>5, <1>6 DEF IsRound
  <1>8. EarliestRound(p) = round
    <2> DEFINE Solves(r) == \A s \in DOMAIN p.tool :
                              r[s] = Max({0} \cup {r[t] : t \in Predecessors(Dag(p), s)}) + 1
               R == [DOMAIN p.tool -> 1 .. Cardinality(DOMAIN p.tool)]
    <2>0. round \in R /\ Solves(round)
      BY <1>7, Zenon DEF IsRound
    <2>1. IsRound(EarliestRound(p), p)
      <3>1. EarliestRound(p) = CHOOSE r \in R : Solves(r)
        BY Zenon DEF EarliestRound
      <3> HIDE DEF R, Solves
      <3>2. EarliestRound(p) \in R /\ Solves(EarliestRound(p))
        BY <2>0, <3>1
      <3> QED
        BY <3>2, Zenon DEF IsRound, R, Solves
    <2> QED
      BY <1>7, <2>1, OneRound
  <1>9. ASSUME NEW n \in 1 .. N PROVE f[n] \ f[n - 1] = {s \in S : round[s] = n}
    <2>1. n \in Nat /\ n - 1 \in Nat
      BY <1>0
    <2>2. \A s \in S : round[s] \in Int
      BY <1>0, <1>5
    <2> QED
      BY <1>1, <1>4, <2>1, <2>2
  <1> QED
    BY <1>1, <1>7, <1>8, <1>9

\* A step is done in a later round than those that precede it.
LEMMA RoundsFollow ==
  ASSUME NEW p, IsPlan(p), NEW s \in DOMAIN p.tool, NEW t \in DOMAIN p.tool, Precedes(p, s, t)
  PROVE  EarliestRound(p)[s] < EarliestRound(p)[t]
  <1> DEFINE round   == EarliestRound(p)
             past    == {u \in DOMAIN p.tool : round[s] < round[u]}
  <1>1. IsRound(round, p) /\ Cardinality(DOMAIN p.tool) \in Nat
    BY GenerationIsRound, FS_CardinalityType DEF IsPlan
  <1> HIDE DEF round
  <1>2. \A u \in DOMAIN p.tool : round[u] \in Nat
    BY <1>1 DEF IsRound
  <1>3. ASSUME NEW e \in Dag(p).edge
        PROVE  /\ e[1] \in DOMAIN p.tool /\ e[2] \in DOMAIN p.tool
               /\ round[e[1]] < round[e[2]]
    <2>1. e[1] \in DOMAIN p.tool /\ e[2] \in DOMAIN p.tool /\ e = <<e[1], e[2]>>
      BY DEF Dag
    <2> DEFINE M == {0} \cup {round[u] : u \in Predecessors(Dag(p), e[2])}
               m == round[e[2]] - 1
    <2>2. round[e[2]] = Max(M) + 1
      BY <1>1, <2>1 DEF IsRound
    <2>3. e[1] \in Predecessors(Dag(p), e[2]) /\ Predecessors(Dag(p), e[2]) \subseteq DOMAIN p.tool
      BY <2>1 DEF Predecessors, Dag
    <2>4. M \in SUBSET Nat /\ round[e[1]] \in M
      BY <1>2, <2>3
    <2>5. \A x \in M : x <= Max(M) /\ Max(M) \in Nat
      <3>1. IsFiniteSet(M)
        <4> DEFINE R == 0 .. Cardinality(DOMAIN p.tool)
        <4>1. IsFiniteSet(R)
          BY <1>1, FS_Interval
        <4>2. M \in SUBSET R
          BY <1>1, <2>3 DEF IsRound
        <4> HIDE DEF R, M
        <4> QED
          BY <4>1, <4>2, FS_Subset
      <3>2. \E x \in M : \A y \in M : y <= x
        <4> HIDE DEF M
        <4> QED
          BY <2>4, <3>1, GreatestNumber
      <3>3. M \in SUBSET Int /\ \A x \in M : x \in Nat
        BY <2>4
      <3> HIDE DEF M
      <3>4. PICK x \in M : \A y \in M : y <= x
        BY <3>2
      <3>5. Max(M) = x
        BY <3>3, <3>4, MaxIs
      <3> QED
        BY <3>3, <3>4, <3>5
    <2> HIDE DEF M
    <2> QED
      BY <1>2, <2>1, <2>2, <2>4, <2>5
  <1>4. Closed(p, s, past)
    BY <1>2, <1>3 DEF Closed
  <1>5. past \in SUBSET DOMAIN p.tool
    OBVIOUS
  <1> HIDE DEF past
  <1>6. t \in past
    BY <1>4, <1>5 DEF Precedes, Closed
  <1> QED
    BY <1>6 DEF past, round

\* How many elements a set has that has no two.
LEMMA AtMostOne ==
  ASSUME NEW A, IsFiniteSet(A)
  PROVE  /\ Cardinality(A) \in Nat
         /\ Cardinality(A) > 0 <=> A # {}
         /\ (\A x, y \in A : x = y) => Cardinality(A) <= 1
  <1>1. Cardinality(A) \in Nat /\ (Cardinality(A) = 0 <=> A = {})
    BY FS_CardinalityType, FS_EmptySet
  <1>2. ASSUME \A x, y \in A : x = y, A # {} PROVE Cardinality(A) = 1
    <2>1. PICK x \in A : A = {x}
      BY <1>2
    <2> QED
      BY <2>1, FS_Singleton
  <1> QED
    BY <1>1, <1>2

-----------------------------------------------------------------------------
(* What CountOf counts.                                                    *)

\* Rules have two tools, and the kinds differ.
LEMMA RuleTools ==
  /\ \A r \in Orderings : r.type = "hard_ordering" /\ r.tools[1] # r.tools[2]
                          /\ r = Ordering(r.tools[1], r.tools[2])
  /\ \A r \in Parallels : r.type = "soft_parallel" /\ r.tools[1] < r.tools[2]
                          /\ r.tools[1] \in Tool /\ r.tools[2] \in Tool
                          /\ r = Parallel(r.tools[1], r.tools[2])
  /\ Orderings \cap Parallels = {}
  BY DEF Orderings, Parallels, Ordering, Parallel

\* The pairs of steps an ordering is counted for.
LEMMA OrderedPairs ==
  ASSUME NEW p, IsPlan(p), NEW r
  PROVE  /\ IsFiniteSet(OrderedSteps(p, r))
         /\ \A q : q \in OrderedSteps(p, r)
                     <=> \E s, t \in DOMAIN p.tool :
                           /\ q = <<s, t>> /\ Precedes(p, s, t)
                           /\ p.tool[s] = r.tools[1] /\ p.tool[t] = r.tools[2]
  <1> DEFINE S == DOMAIN p.tool
  <1>1. \A s \in S : \A t : t \in Reached(p, s) <=> t \in S /\ Precedes(p, s, t)
    BY ReachedFollows DEF IsPlan
  <1>2. \A q : q \in OrderedSteps(p, r)
                 <=> \E s \in S : \E t \in Reached(p, s) :
                       /\ q = <<s, t>>
                       /\ p.tool[s] = r.tools[1] /\ p.tool[t] = r.tools[2]
    BY DEF OrderedSteps
  <1>3. OrderedSteps(p, r) \in SUBSET (S \X S)
    BY <1>1, <1>2
  <1>4. IsFiniteSet(S \X S)
    BY FS_Product DEF IsPlan
  <1>5. IsFiniteSet(OrderedSteps(p, r))
    BY <1>3, <1>4, FS_Subset
  <1> HIDE DEF S
  <1>6. \A q : q \in OrderedSteps(p, r)
                 <=> \E s, t \in S :
                       /\ q = <<s, t>> /\ Precedes(p, s, t)
                       /\ p.tool[s] = r.tools[1] /\ p.tool[t] = r.tools[2]
    BY <1>1, <1>2
  <1> QED
    BY <1>5, <1>6 DEF S

\* The rounds a pair is counted for.
LEMMA PairRounds ==
  ASSUME NEW p, IsPlan(p), NEW r
  PROVE  /\ IsFiniteSet(RoundsOfRule(p, r))
         /\ \A n : n \in RoundsOfRule(p, r)
                     <=> \E s, t \in DOMAIN p.tool :
                           /\ n = EarliestRound(p)[s] /\ n = EarliestRound(p)[t]
                           /\ p.tool[s] = r.tools[1] /\ p.tool[t] = r.tools[2]
  <1> DEFINE S     == DOMAIN p.tool
             N     == Cardinality(S)
             round == EarliestRound(p)
             Gen(n) == {s \in S : round[s] = n}
  <1>1. IsRound(round, p) /\ Generation(p) = [n \in 1 .. N |-> Gen(n)] /\ N \in Nat
    BY GenerationIsRound, FS_CardinalityType DEF IsPlan
  <1> HIDE DEF round
  <1>2. round \in [S -> 1 .. N]
    BY <1>1 DEF IsRound
  <1>3. Rounds(p) = [n \in 1 .. N |-> {p.tool[s] : s \in Gen(n)}]
    BY <1>1 DEF Rounds
  <1>4. RoundsOfRule(p, r) = {n \in 1 .. N : {r.tools[1], r.tools[2]}
                                                \subseteq {p.tool[s] : s \in Gen(n)}}
    BY <1>3 DEF RoundsOfRule
  <1>5. IsFiniteSet(RoundsOfRule(p, r))
    <2>1. RoundsOfRule(p, r) \in SUBSET (1 .. N)
      BY <1>4
    <2>2. IsFiniteSet(1 .. N)
      BY <1>1, FS_Interval
    <2> QED
      BY <2>1, <2>2, FS_Subset
  <1>6. ASSUME NEW n
        PROVE  n \in RoundsOfRule(p, r)
                 <=> \E s, t \in S : /\ n = round[s] /\ n = round[t]
                                     /\ p.tool[s] = r.tools[1] /\ p.tool[t] = r.tools[2]
    BY <1>2, <1>4
  <1> QED
    BY <1>5, <1>6 DEF round

-----------------------------------------------------------------------------
(* What a plan adds to the counts.                                          *)

\* The rules, by their type.
LEMMA RuleCases ==
  ASSUME NEW r \in Rule
  PROVE  r \in Orderings \/ (r \in Parallels /\ r \notin Orderings)
  BY RuleTools DEF Rule

\* A count is a number, and positive where the rule is seen.
LEMMA CountIsSeen ==
  ASSUME NEW p, IsPlan(p), NEW r \in Rule
  PROVE  CountOf(p, r) \in Nat /\ (CountOf(p, r) > 0 <=> Seen(p, r))
  <1>1. CASE r \in Orderings
    <2>1. /\ IsFiniteSet(OrderedSteps(p, r))
          /\ OrderedSteps(p, r) # {}
               <=> \E s, t \in DOMAIN p.tool :
                     /\ Precedes(p, s, t)
                     /\ p.tool[s] = r.tools[1] /\ p.tool[t] = r.tools[2]
      <3> DEFINE O == OrderedSteps(p, r)
      <3>1. /\ IsFiniteSet(O)
            /\ \A q : q \in O <=> \E s, t \in DOMAIN p.tool :
                                    /\ q = <<s, t>> /\ Precedes(p, s, t)
                                    /\ p.tool[s] = r.tools[1] /\ p.tool[t] = r.tools[2]
        BY OrderedPairs
      <3> HIDE DEF O
      <3>2. ASSUME NEW q \in O
            PROVE  \E s, t \in DOMAIN p.tool :
                     /\ Precedes(p, s, t)
                     /\ p.tool[s] = r.tools[1] /\ p.tool[t] = r.tools[2]
        BY <3>1
      <3>3. ASSUME NEW s \in DOMAIN p.tool, NEW t \in DOMAIN p.tool, Precedes(p, s, t),
                   p.tool[s] = r.tools[1], p.tool[t] = r.tools[2]
            PROVE  <<s, t>> \in O
        BY <3>1, <3>3
      <3>4. IsFiniteSet(OrderedSteps(p, r)) /\ O = OrderedSteps(p, r)
        BY <3>1 DEF O
      <3> QED
        BY <3>2, <3>3, <3>4
    <2>2. CountOf(p, r) = Cardinality(OrderedSteps(p, r))
      BY <1>1 DEF CountOf
    <2>3. CountOf(p, r) \in Nat /\ (CountOf(p, r) > 0 <=> OrderedSteps(p, r) # {})
      BY <2>1, <2>2, AtMostOne
    <2> QED
      BY <1>1, <2>1, <2>3 DEF Seen
  <1>2. CASE r \in Parallels /\ r \notin Orderings
    <2>1. /\ IsFiniteSet(RoundsOfRule(p, r))
          /\ RoundsOfRule(p, r) # {}
               <=> \E s, t \in DOMAIN p.tool :
                     /\ EarliestRound(p)[s] = EarliestRound(p)[t]
                     /\ p.tool[s] = r.tools[1] /\ p.tool[t] = r.tools[2]
      BY PairRounds
    <2>2. CountOf(p, r) = Cardinality(RoundsOfRule(p, r))
      BY <1>2 DEF CountOf
    <2>3. CountOf(p, r) \in Nat /\ (CountOf(p, r) > 0 <=> RoundsOfRule(p, r) # {})
      BY <2>1, <2>2, AtMostOne
    <2> QED
      BY <1>2, <2>1, <2>3 DEF Seen
  <1> QED
    BY <1>1, <1>2, RuleCases

\* A plan that runs no tool twice counts at most once for a rule.
LEMMA CountsOnce ==
  ASSUME NEW p, IsPlan(p), NoRepeats(p), NEW r \in Rule
  PROVE  CountOf(p, r) <= 1
  <1>1. CASE r \in Orderings
    <2>1. \A q1, q2 \in OrderedSteps(p, r) : q1 = q2
      BY OrderedPairs DEF NoRepeats
    <2> QED
      BY <1>1, <2>1, OrderedPairs, AtMostOne DEF CountOf
  <1>2. CASE r \in Parallels /\ r \notin Orderings
    <2>1. \A n1, n2 \in RoundsOfRule(p, r) : n1 = n2
      BY PairRounds DEF NoRepeats
    <2> QED
      BY <1>2, <2>1, PairRounds, AtMostOne DEF CountOf
  <1> QED
    BY <1>1, <1>2, RuleCases

\* The pattern extraction counts what its docstrings say, for any plans whose
\* dependencies have no cycle.
THEOREM CountsAreExact == CountsWhatIsSeen
  <1>1. ASSUME NEW p \in Samples, NEW r \in Rule
        PROVE  /\ CountOf(p, r) > 0 <=> Seen(p, r)
               /\ NoRepeats(p) => CountOf(p, r) <= 1
    <2>1. IsPlan(p)
      BY SamplesAssumption
    <2> QED
      BY <2>1, CountIsSeen, CountsOnce
  <1> QED
    BY <1>1 DEF CountsWhatIsSeen

-----------------------------------------------------------------------------
(* What a plan that runs no tool twice, or has no dependencies, adds to the *)
(* counts of rules for the same two tools.                                  *)

\* Without dependencies all steps are done in the first round.
LEMMA FlatPlan ==
  ASSUME NEW p, IsPlan(p), p.deps = {}
  PROVE  /\ \A s, t : ~Precedes(p, s, t)
         /\ \A s \in DOMAIN p.tool : EarliestRound(p)[s] = 1
  <1>1. Dag(p).edge = {}
    BY DEF Dag
  <1>2. \A s, t : ~Precedes(p, s, t)
    BY <1>1 DEF Precedes
  <1>3. ASSUME NEW s \in DOMAIN p.tool PROVE EarliestRound(p)[s] = 1
    <2>1. IsRound(EarliestRound(p), p)
      BY GenerationIsRound
    <2>2. Predecessors(Dag(p), s) = {}
      BY <1>1 DEF Predecessors
    <2>3. EarliestRound(p)[s] = Max({0}) + 1
      <3>1. {0} \cup {EarliestRound(p)[t] : t \in Predecessors(Dag(p), s)} = {0}
        BY <2>2
      <3> QED
        BY <2>1, <3>1 DEF IsRound
    <2>4. Max({0}) = 0
      <3>1. {0} \in SUBSET Int /\ 0 \in {0} /\ \A x \in {0} : x <= 0
        OBVIOUS
      <3> QED
        BY <3>1, MaxIs
    <2> QED
      BY <2>3, <2>4
  <1> QED
    BY <1>2, <1>3

\* The plans report.py writes, and those whose tools are all different.
Simple(p) == IsPlan(p) /\ (NoRepeats(p) \/ p.deps = {})

LEMMA SimpleCounts ==
  ASSUME NEW p, Simple(p), NEW r \in Rule
  PROVE  CountOf(p, r) \in 0 .. 1 /\ (CountOf(p, r) = 1 <=> Seen(p, r))
  <1>1. CountOf(p, r) \in Nat /\ (CountOf(p, r) > 0 <=> Seen(p, r))
    BY CountIsSeen DEF Simple
  <1>2. CountOf(p, r) <= 1
    <2>1. CASE NoRepeats(p)
      BY <2>1, CountsOnce DEF Simple
    <2>2. CASE p.deps = {}
      <3>1. IsPlan(p) /\ (\A s, t : ~Precedes(p, s, t))
            /\ \A s \in DOMAIN p.tool : EarliestRound(p)[s] = 1
        BY <2>2, FlatPlan DEF Simple
      <3>2. CASE r \in Orderings
        BY <1>1, <3>1, <3>2 DEF Seen
      <3>3. CASE r \in Parallels /\ r \notin Orderings
        <4>1. \A n1, n2 \in RoundsOfRule(p, r) : n1 = n2
          BY <3>1, PairRounds
        <4> QED
          BY <3>1, <3>3, <4>1, PairRounds, AtMostOne DEF CountOf
      <3> QED
        BY <3>2, <3>3, RuleCases
    <2> QED
      BY <2>1, <2>2 DEF Simple
  <1> QED
    BY <1>1, <1>2

\* Rules about the same two tools.
SameTools(r, q) == {r.tools[1], r.tools[2]} = {q.tools[1], q.tools[2]}

\* Two of them are the two orderings, or an ordering and the parallel.
LEMMA SameToolsCases ==
  ASSUME NEW r \in Rule, NEW q \in Rule, r # q, SameTools(r, q)
  PROVE  \/ /\ r \in Orderings /\ q \in Orderings
            /\ r.tools[1] = q.tools[2] /\ r.tools[2] = q.tools[1]
         \/ /\ r \in Orderings /\ q \in Parallels
         \/ /\ q \in Orderings /\ r \in Parallels
  <1>1. \/ r.tools[1] = q.tools[1] /\ r.tools[2] = q.tools[2]
        \/ r.tools[1] = q.tools[2] /\ r.tools[2] = q.tools[1]
    BY DEF SameTools
  <1>2. CASE r \in Orderings /\ q \in Orderings
    BY <1>1, <1>2, RuleTools
  <1>3. CASE r \in Parallels /\ q \in Parallels
    <2>1. /\ r.tools[1] \in Nat /\ r.tools[2] \in Nat /\ q.tools[1] \in Nat /\ q.tools[2] \in Nat
          /\ r.tools[1] < r.tools[2] /\ q.tools[1] < q.tools[2]
      BY <1>3, RuleTools, PatternsAssumption
    <2>2. r.tools[1] = q.tools[1] /\ r.tools[2] = q.tools[2]
      BY <1>1, <2>1
    <2> QED
      BY <1>3, <2>2, RuleTools
  <1> QED
    BY <1>2, <1>3 DEF Rule

\* Such a plan counts for one of them at most.
LEMMA SameToolsExclude ==
  ASSUME NEW p, Simple(p), NEW r \in Rule, NEW q \in Rule, r # q, SameTools(r, q)
  PROVE  CountOf(p, r) + CountOf(p, q) <= 1
  <1>0. IsPlan(p)
    BY DEF Simple
  <1>1. ASSUME NEW a \in Orderings, NEW b \in Parallels, SameTools(a, b),
               Seen(p, a), Seen(p, b)
        PROVE  FALSE
    <2>1. PICK s, t \in DOMAIN p.tool :
            Precedes(p, s, t) /\ p.tool[s] = a.tools[1] /\ p.tool[t] = a.tools[2]
      BY <1>1 DEF Seen
    <2>2. b \notin Orderings
      BY <1>1, RuleTools
    <2>3. PICK u, v \in DOMAIN p.tool :
            /\ EarliestRound(p)[u] = EarliestRound(p)[v]
            /\ p.tool[u] = b.tools[1] /\ p.tool[v] = b.tools[2]
      BY <1>1, <2>2 DEF Seen
    <2>4. p.deps # {}
      BY <1>0, <2>1, FlatPlan
    <2>5. NoRepeats(p)
      BY <2>4 DEF Simple
    <2>6. (s = u /\ t = v) \/ (s = v /\ t = u)
      <3>1. {p.tool[s], p.tool[t]} = {p.tool[u], p.tool[v]}
        BY <1>1, <2>1, <2>3 DEF SameTools
      <3>2. \/ p.tool[s] = p.tool[u] /\ p.tool[t] = p.tool[v]
            \/ p.tool[s] = p.tool[v] /\ p.tool[t] = p.tool[u]
        BY <3>1
      <3> QED
        BY <2>5, <3>2 DEF NoRepeats
    <2>7. EarliestRound(p)[s] = EarliestRound(p)[t]
      BY <2>3, <2>6
    <2>8. /\ EarliestRound(p)[s] < EarliestRound(p)[t]
          /\ EarliestRound(p)[s] \in Int /\ EarliestRound(p)[t] \in Int
      <3>1. IsRound(EarliestRound(p), p) /\ Cardinality(DOMAIN p.tool) \in Nat
        BY <1>0, GenerationIsRound, FS_CardinalityType DEF IsPlan
      <3>2. EarliestRound(p)[s] < EarliestRound(p)[t]
        BY <1>0, <2>1, RoundsFollow
      <3> QED
        BY <3>1, <3>2 DEF IsRound
    <2> QED
      BY <2>7, <2>8
  <1>2. ASSUME r \in Orderings, q \in Orderings,
               r.tools[1] = q.tools[2], r.tools[2] = q.tools[1],
               Seen(p, r), Seen(p, q)
        PROVE  FALSE
    <2>1. PICK s, t \in DOMAIN p.tool :
            Precedes(p, s, t) /\ p.tool[s] = r.tools[1] /\ p.tool[t] = r.tools[2]
      BY <1>2 DEF Seen
    <2>2. PICK u, v \in DOMAIN p.tool :
            Precedes(p, u, v) /\ p.tool[u] = q.tools[1] /\ p.tool[v] = q.tools[2]
      BY <1>2 DEF Seen
    <2>3. NoRepeats(p)
      BY <1>0, <2>1, FlatPlan DEF Simple
    <2>4. u = t /\ v = s
      BY <1>2, <2>1, <2>2, <2>3 DEF NoRepeats
    <2>5. Precedes(p, s, s)
      BY <2>1, <2>2, <2>4, PrecedesTransitive
    <2> QED
      BY <1>0, <2>5 DEF IsPlan
  <1>3. ~(Seen(p, r) /\ Seen(p, q))
    BY <1>1, <1>2, SameToolsCases DEF SameTools
  <1>4. /\ CountOf(p, r) \in 0 .. 1 /\ (CountOf(p, r) = 1 <=> Seen(p, r))
        /\ CountOf(p, q) \in 0 .. 1 /\ (CountOf(p, q) = 1 <=> Seen(p, q))
    BY SimpleCounts
  <1> QED
    BY <1>3, <1>4

-----------------------------------------------------------------------------
(* What a window adds up to.                                                *)

\* A window of plans.
IsWindow(w, S) == /\ IsFiniteSet(S)
                  /\ w \in [S -> Nat]
                  /\ \A p \in S : IsPlan(p)

\* The number of plans, and of the times a rule is in them, are numbers.
LEMMA WindowType ==
  ASSUME NEW w, NEW S, IsWindow(w, S), NEW r \in Rule
  PROVE  SumFunction(w) \in Nat /\ InWindow(w, r) \in Nat
  <1>1. SumFunction(w) = SumFunctionOnSet(w, S) /\ \A p \in S : w[p] \in Nat
    BY DEF SumFunction, IsWindow
  <1> DEFINE f == [p \in S |-> w[p] * CountOf(p, r)]
  <1>2. InWindow(w, r) = SumFunctionOnSet(f, S)
    BY DEF InWindow, SumFunction, IsWindow
  <1>3. \A p \in S : f[p] \in Nat
    <2> SUFFICES ASSUME NEW p \in S PROVE w[p] * CountOf(p, r) \in Nat
      OBVIOUS
    <2>1. w[p] \in Nat /\ CountOf(p, r) \in Nat
      BY <1>1, CountIsSeen DEF IsWindow
    <2> QED
      BY ONLY <2>1
  <1> HIDE DEF f
  <1> QED
    BY <1>1, <1>2, <1>3, SumType DEF IsWindow

\* No more than the plans of the window can be for one of two rules about the same tools.
LEMMA WindowExcludes ==
  ASSUME NEW w, NEW S, IsWindow(w, S), \A p \in S : Simple(p),
         NEW r \in Rule, NEW q \in Rule, r # q, SameTools(r, q)
  PROVE  InWindow(w, r) + InWindow(w, q) <= SumFunction(w)
  <1> DEFINE f == [p \in S |-> w[p] * CountOf(p, r)]
             g == [p \in S |-> w[p] * CountOf(p, q)]
             h == [p \in S |-> f[p] + g[p]]
  <1>1. /\ InWindow(w, r) = SumFunctionOnSet(f, S)
        /\ InWindow(w, q) = SumFunctionOnSet(g, S)
        /\ SumFunction(w) = SumFunctionOnSet(w, S)
    BY DEF InWindow, SumFunction, IsWindow
  <1>2. ASSUME NEW p \in S
        PROVE  /\ f[p] \in Nat /\ g[p] \in Nat /\ h[p] = f[p] + g[p]
               /\ h[p] \in Nat /\ w[p] \in Nat /\ h[p] <= w[p]
    <2>1. /\ w[p] \in Nat /\ CountOf(p, r) \in 0 .. 1 /\ CountOf(p, q) \in 0 .. 1
          /\ CountOf(p, r) + CountOf(p, q) <= 1
      BY SimpleCounts, SameToolsExclude DEF IsWindow
    <2>2. f[p] = w[p] * CountOf(p, r) /\ g[p] = w[p] * CountOf(p, q) /\ h[p] = f[p] + g[p]
      OBVIOUS
    <2> HIDE DEF f, g, h
    <2>3. CASE CountOf(p, r) = 0 /\ CountOf(p, q) = 0
      <3>1. f[p] = w[p] * 0 /\ g[p] = w[p] * 0 /\ h[p] = f[p] + g[p] /\ w[p] \in Nat
        BY <2>1, <2>2, <2>3
      <3>2. f[p] = 0 /\ g[p] = 0
        BY <3>1
      <3>3. h[p] = 0
        BY <3>1, <3>2
      <3> QED
        BY <3>1, <3>2, <3>3
    <2>4. CASE CountOf(p, r) = 1 /\ CountOf(p, q) = 0
      BY <2>1, <2>2, <2>4
    <2>5. CASE CountOf(p, r) = 0 /\ CountOf(p, q) = 1
      BY <2>1, <2>2, <2>5
    <2> QED
      BY <2>1, <2>3, <2>4, <2>5
  <1> HIDE DEF f, g, h
  <1>3. SumFunctionOnSet(h, S) = SumFunctionOnSet(f, S) + SumFunctionOnSet(g, S)
    BY <1>2, SumLinear DEF IsWindow
  <1>4. SumFunctionOnSet(h, S) <= SumFunctionOnSet(w, S)
    BY <1>2, SumMonotonic DEF IsWindow
  <1> QED
    BY <1>1, <1>3, <1>4

\* The plans of a window that a rule is seen in are as many as it is counted.
LEMMA WindowSeen ==
  ASSUME NEW w, NEW S, IsWindow(w, S), \A p \in S : Simple(p), NEW r \in Rule
  PROVE  InWindow(w, r) = SumFunctionOnSet(w, {p \in S : Seen(p, r)})
  <1> DEFINE f == [p \in S |-> w[p] * CountOf(p, r)]
             T == {p \in S : Seen(p, r)}
  <1>1. InWindow(w, r) = SumFunctionOnSet(f, S)
    BY DEF InWindow, SumFunction, IsWindow
  <1>2. ASSUME NEW p \in S
        PROVE  /\ f[p] \in Nat /\ w[p] \in Nat
               /\ p \in T => f[p] = w[p]
               /\ p \notin T => f[p] = 0
    <2>1. w[p] \in Nat /\ CountOf(p, r) \in 0 .. 1 /\ (CountOf(p, r) = 1 <=> Seen(p, r))
      BY SimpleCounts DEF IsWindow
    <2>2. f[p] = w[p] * CountOf(p, r) /\ (p \in T <=> Seen(p, r))
      OBVIOUS
    <2> HIDE DEF f, T
    <2>3. CASE CountOf(p, r) = 0
      BY <2>1, <2>2, <2>3
    <2>4. CASE CountOf(p, r) = 1
      BY <2>1, <2>2, <2>4
    <2> QED
      BY <2>1, <2>3, <2>4
  <1>3. IsFiniteSet(S) /\ T \in SUBSET S
    BY DEF IsWindow
  <1>4. IsFiniteSet(T)
    BY <1>3, FS_Subset
  <1> HIDE DEF f, T
  <1>5. SumFunctionOnSet(f, S) = SumFunctionOnSet(f, T)
    BY <1>2, <1>3, SumPart
  <1>6. SumFunctionOnSet(f, T) <= SumFunctionOnSet(w, T)
    <2>1. \A p \in T : f[p] \in Nat /\ w[p] \in Nat /\ f[p] <= w[p]
      BY <1>2, <1>3
    <2> QED
      BY <1>4, <2>1, SumMonotonic
  <1>7. SumFunctionOnSet(w, T) <= SumFunctionOnSet(f, T)
    <2>1. \A p \in T : w[p] \in Nat /\ f[p] \in Nat /\ w[p] <= f[p]
      BY <1>2, <1>3
    <2> QED
      BY <1>4, <2>1, SumMonotonic
  <1>8. SumFunctionOnSet(f, T) \in Nat /\ SumFunctionOnSet(w, T) \in Nat
    <2>1. (\A p \in T : w[p] \in Nat) /\ (\A p \in T : f[p] \in Nat)
      BY <1>2, <1>3
    <2> QED
      BY <1>4, <2>1, SumType
  <1> QED
    BY <1>1, <1>5, <1>6, <1>7, <1>8 DEF T
=============================================================================
