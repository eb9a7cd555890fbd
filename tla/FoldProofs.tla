----------------------------- MODULE FoldProofs -----------------------------
(***************************************************************************)
(* Facts about counts, and about the folds and sums of the community       *)
(* modules, for sets and sequences of any size.  A fold is a recursive     *)
(* function over the subsets of its domain; that there is one, and what it *)
(* computes, is shown by induction over their size, the least              *)
(* counterexample being the one that WellFoundedInduction picks.           *)
(***************************************************************************)
EXTENDS Integers, Sequences, FiniteSetsExt, FiniteSetTheorems, TLAPS

(* Induction over the natural numbers, for a set of them. *)
LEMMA SetInduction ==
  ASSUME NEW N, 0 \in N, \A n \in Nat : n \in N => n + 1 \in N
  PROVE  Nat \subseteq N
<1> SUFFICES ASSUME Nat \ N # {} PROVE FALSE
  OBVIOUS
<1>1. IsWellFoundedOn(OpToRel(<, Nat), Nat)
  BY NatLessThanWellFounded
<1>2. PICK m \in Nat \ N : \A n \in Nat \ N : <<n, m>> \notin OpToRel(<, Nat)
  BY <1>1, WFMin
<1>3. \A n \in Nat \ N : ~(n < m)
  BY <1>2 DEF OpToRel
<1>4. m # 0 /\ m - 1 \in Nat /\ m - 1 < m
  OBVIOUS
<1>5. m - 1 \in N
  BY <1>3, <1>4
<1>6. (m - 1) + 1 \in N
  BY <1>4, <1>5
<1> QED BY <1>6

(* Induction over the subsets of a finite set, one element at a time. *)
LEMMA SubsetInduction ==
  ASSUME NEW S, IsFiniteSet(S), NEW G, {} \in G,
         \A s \in SUBSET S : s # {} /\ (\A x \in s : s \ {x} \in G) => s \in G
  PROVE  SUBSET S \subseteq G
<1> DEFINE N == {n \in Nat : \A s \in SUBSET S : Cardinality(s) = n => s \in G}
<1>0. \A s \in SUBSET S : IsFiniteSet(s) /\ Cardinality(s) \in Nat
  BY FS_Subset, FS_CardinalityType
<1>1. 0 \in N
  BY <1>0, FS_EmptySet
<1>2. ASSUME NEW n \in Nat, n \in N
      PROVE  n + 1 \in N
  <2> SUFFICES ASSUME NEW s \in SUBSET S, Cardinality(s) = n + 1
               PROVE  s \in G
    OBVIOUS
  <2>1. s # {}
    <3>1. Cardinality({}) = 0 /\ n + 1 # 0
      BY FS_EmptySet
    <3> QED BY <3>1
  <2>2. ASSUME NEW x \in s
        PROVE  s \ {x} \in G
    <3>1. IsFiniteSet(s) /\ s \ {x} \in SUBSET S
      BY <1>0
    <3>2. Cardinality(s \ {x}) = Cardinality(s) - 1
      BY <2>2, <3>1, FS_RemoveElement
    <3>3. Cardinality(s \ {x}) = n
      BY <3>1, <3>2
    <3> QED BY <1>2, <3>1, <3>3
  <2> QED BY <2>1, <2>2
<1> HIDE DEF N
<1>3. Nat \subseteq N
  BY <1>1, <1>2, SetInduction
<1> QED BY <1>0, <1>3 DEF N

(* A fold over the subsets of S: which element is taken, what is done then. *)
Folding(S, V, base, pick, step) ==
  /\ IsFiniteSet(S) /\ base \in V
  /\ \A s \in SUBSET S : s # {} => pick[s] \in s
  /\ \A s \in SUBSET S, v \in V : s # {} => step[s][v] \in V

IsFold(g, S, base, pick, step) ==
  \A s \in SUBSET S : g[s] = IF s = {} THEN base ELSE step[s][g[s \ {pick[s]}]]

(* A recursion over the subsets of a finite set that takes one element     *)
(* away has a solution.                                                    *)
LEMMA FoldExists ==
  ASSUME NEW S, NEW V, NEW base, NEW pick, NEW step, Folding(S, V, base, pick, step)
  PROVE  \E g \in [SUBSET S -> V] : IsFold(g, S, base, pick, step)
<1> USE DEF Folding, IsFold
<1> DEFINE Next(g, s) == IF s = {} THEN base ELSE step[s][g[s \ {pick[s]}]]
           Solves(g, n) == \A s \in SUBSET S : Cardinality(s) <= n => g[s] = Next(g, s)
           N == {n \in Nat : \E g \in [SUBSET S -> V] : Solves(g, n)}
<1>0. \A s \in SUBSET S : /\ IsFiniteSet(s) /\ Cardinality(s) \in Nat
                          /\ Cardinality(s) <= Cardinality(S)
  BY FS_Subset, FS_CardinalityType
<1>1. 0 \in N
  <2> DEFINE g == [s \in SUBSET S |-> base]
  <2>1. g \in [SUBSET S -> V]
    OBVIOUS
  <2>2. ASSUME NEW s \in SUBSET S, Cardinality(s) <= 0
        PROVE  g[s] = Next(g, s)
    <3>1. s = {}
      BY <1>0, <2>2, FS_EmptySet
    <3> QED BY <3>1
  <2> HIDE DEF g
  <2> QED BY <2>1, <2>2
<1>2. ASSUME NEW n \in Nat, n \in N
      PROVE  n + 1 \in N
  <2>1. PICK g \in [SUBSET S -> V] : Solves(g, n)
    BY <1>2
  <2> DEFINE h == [s \in SUBSET S |-> Next(g, s)]
  <2>2. \A s \in SUBSET S : s # {} => s \ {pick[s]} \in SUBSET S
    OBVIOUS
  <2>3. h \in [SUBSET S -> V]
    BY <2>2
  <2>4. \A s \in SUBSET S : h[s] = Next(g, s)
    OBVIOUS
  <2> HIDE DEF h
  <2>5. ASSUME NEW s \in SUBSET S, Cardinality(s) <= n + 1
        PROVE  h[s] = Next(h, s)
    <3>1. CASE s = {}
      BY <2>4, <3>1
    <3>2. CASE s # {}
      <4> DEFINE t == s \ {pick[s]}
      <4>1. pick[s] \in s /\ t \in SUBSET S
        BY <3>2
      <4>2. Cardinality(t) <= n
        BY <1>0, <2>5, <4>1, FS_RemoveElement
      <4>3. h[t] = g[t]
        BY <2>1, <2>4, <4>1, <4>2
      <4> HIDE DEF t
      <4>4. h[s] = step[s][g[t]] /\ Next(h, s) = step[s][h[t]]
        BY <2>4, <3>2 DEF t
      <4> QED BY <4>3, <4>4
    <3> QED BY <3>1, <3>2
  <2>6. Solves(h, n + 1)
    BY <2>5
  <2> HIDE DEF Solves
  <2> QED BY <2>3, <2>6
<1> HIDE DEF N
<1>3. Cardinality(S) \in N
  BY <1>0, <1>1, <1>2, SetInduction
<1>4. PICK g \in [SUBSET S -> V] : Solves(g, Cardinality(S))
  BY <1>3 DEF N
<1> QED BY <1>0, <1>4

-----------------------------------------------------------------------------
(* Counting *)

(* How many elements the subsets of a finite set have. *)
LEMMA SubsetCounts ==
  ASSUME NEW R, IsFiniteSet(R)
  PROVE  /\ Cardinality(R) \in Nat /\ Cardinality({}) = 0
         /\ \A S \in SUBSET R :
              /\ IsFiniteSet(S) /\ Cardinality(S) \in Nat
              /\ Cardinality(S) <= Cardinality(R)
              /\ \A r \in R \ S : /\ Cardinality(S \cup {r}) = Cardinality(S) + 1
                                 /\ Cardinality(S) + 1 <= Cardinality(R)
              /\ \A r \in S : Cardinality(S \ {r}) = Cardinality(S) - 1
              /\ \A T \in SUBSET S : Cardinality(T) <= Cardinality(S)
<1>1. Cardinality(R) \in Nat /\ Cardinality({}) = 0
  BY FS_CardinalityType, FS_EmptySet
<1>2. ASSUME NEW S \in SUBSET R
      PROVE  /\ IsFiniteSet(S) /\ Cardinality(S) \in Nat
             /\ Cardinality(S) <= Cardinality(R)
             /\ \A r \in R \ S : /\ Cardinality(S \cup {r}) = Cardinality(S) + 1
                                /\ Cardinality(S) + 1 <= Cardinality(R)
             /\ \A r \in S : Cardinality(S \ {r}) = Cardinality(S) - 1
             /\ \A T \in SUBSET S : Cardinality(T) <= Cardinality(S)
  <2>1. IsFiniteSet(S) /\ Cardinality(S) \in Nat /\ Cardinality(S) <= Cardinality(R)
    BY FS_Subset, FS_CardinalityType
  <2>2. ASSUME NEW r \in R \ S
        PROVE  /\ Cardinality(S \cup {r}) = Cardinality(S) + 1
               /\ Cardinality(S) + 1 <= Cardinality(R)
    <3>1. Cardinality(S \cup {r}) = Cardinality(S) + 1
      BY <2>1, FS_AddElement
    <3>2. S \cup {r} \subseteq R
      OBVIOUS
    <3> QED BY <1>1, <3>1, <3>2, FS_Subset
  <2>3. \A r \in S : Cardinality(S \ {r}) = Cardinality(S) - 1
    BY <2>1, FS_RemoveElement
  <2>4. \A T \in SUBSET S : Cardinality(T) <= Cardinality(S)
    BY <2>1, FS_Subset
  <2> QED BY <2>1, <2>2, <2>3, <2>4
<1> QED BY <1>1, <1>2

(* How a count changes when all but one element were counted before. *)
LEMMA CountChanges ==
  ASSUME NEW R, IsFiniteSet(R), NEW S \in SUBSET R, NEW T \in SUBSET R, NEW r,
         \A q \in T : q # r => q \in S
  PROVE  /\ Cardinality(S) \in Nat /\ Cardinality(T) \in Nat
         /\ Cardinality(T) <= Cardinality(S) + 1
         /\ r \notin T \/ r \in S => Cardinality(T) <= Cardinality(S)
         /\ r \notin T /\ r \in S => Cardinality(T) <= Cardinality(S) - 1
<1>1. Cardinality(S) \in Nat /\ Cardinality(T) \in Nat
  BY SubsetCounts
<1>2. CASE r \notin T
  <2>1. T \in SUBSET S
    BY <1>2
  <2>2. Cardinality(T) <= Cardinality(S)
    BY <2>1, SubsetCounts
  <2>3. ASSUME r \in S
        PROVE  Cardinality(T) <= Cardinality(S) - 1
    <3>1. T \in SUBSET (S \ {r}) /\ S \ {r} \in SUBSET R
      BY <1>2, <2>1
    <3>2. Cardinality(S \ {r}) = Cardinality(S) - 1
      BY <2>3, SubsetCounts
    <3>3. Cardinality(T) <= Cardinality(S \ {r})
      BY <3>1, SubsetCounts
    <3> QED BY <3>2, <3>3
  <2> QED BY <1>1, <1>2, <2>2, <2>3
<1>3. CASE r \in T
  <2>1. T \ {r} \in SUBSET S
    OBVIOUS
  <2>2. Cardinality(T \ {r}) <= Cardinality(S)
    BY <2>1, SubsetCounts
  <2>3. Cardinality(T \ {r}) = Cardinality(T) - 1
    BY <1>3, SubsetCounts
  <2>4. r \in S => Cardinality(T) <= Cardinality(S)
    <3>1. r \in S => T \in SUBSET S
      OBVIOUS
    <3> QED BY <3>1, SubsetCounts
  <2> QED BY <1>1, <1>3, <2>2, <2>3, <2>4
<1> QED BY <1>2, <1>3

-----------------------------------------------------------------------------
(* Sums *)

(* The sum of the values of f. *)
SumOf(f, S) == MapThenSumSet(LAMBDA x : f[x], S)

Chosen(s) == CHOOSE x \in s : TRUE

(* The sums of f over all subsets of S. *)
AreSums(g, f, S) ==
  /\ g[S] = SumOf(f, S)
  /\ g[{}] = 0
  /\ \A s \in SUBSET S : s # {} => g[s] = f[Chosen(s)] + g[s \ {Chosen(s)}]

(* A sum takes the elements one by one, in the order in which they are     *)
(* chosen, which does not depend on what is summed.                        *)
LEMMA SumRecursion ==
  ASSUME NEW S, IsFiniteSet(S), NEW f \in [S -> Int]
  PROVE  \E g \in [SUBSET S -> Int] : AreSums(g, f, S)
<1> DEFINE Rec(g) == [s \in SUBSET S |->
                        IF s = {} THEN 0 ELSE f[Chosen(s)] + g[s \ {Chosen(s)}]]
           pick == [s \in SUBSET S |-> Chosen(s)]
           step == [s \in SUBSET S |-> [v \in Int |-> f[Chosen(s)] + v]]
<1>1. \A s \in SUBSET S : s # {} => pick[s] \in s /\ Chosen(s) \in s /\ pick[s] = Chosen(s)
  BY DEF Chosen
<1>2. ASSUME NEW s \in SUBSET S, NEW v \in Int, s # {}
      PROVE  step[s][v] \in Int /\ step[s][v] = f[Chosen(s)] + v
  <2>1. Chosen(s) \in S /\ f[Chosen(s)] \in Int
    BY <1>1, <1>2
  <2>2. step[s][v] = f[Chosen(s)] + v
    OBVIOUS
  <2> QED BY <2>1, <2>2
<1> HIDE DEF pick, step
<1>3. PICK h \in [SUBSET S -> Int] : \A s \in SUBSET S :
        h[s] = IF s = {} THEN 0 ELSE step[s][h[s \ {pick[s]}]]
  <2> DEFINE V == Int
  <2>1. \A s \in SUBSET S, v \in V : s # {} => step[s][v] \in V
    BY <1>2
  <2>2. \A s \in SUBSET S : s # {} => pick[s] \in s
    BY <1>1
  <2> DEFINE zero == 0
  <2>3. zero \in V
    OBVIOUS
  <2> HIDE DEF V, zero
  <2>4. \E g \in [SUBSET S -> V] : \A s \in SUBSET S :
          g[s] = IF s = {} THEN zero ELSE step[s][g[s \ {pick[s]}]]
    <3>1. Folding(S, V, zero, pick, step)
      BY <2>1, <2>2, <2>3 DEF Folding
    <3>2. \E g \in [SUBSET S -> V] : IsFold(g, S, zero, pick, step)
      BY <3>1, FoldExists
    <3> QED BY <3>2 DEF IsFold
  <2> QED BY <2>4 DEF V, zero
<1>4. ASSUME NEW s \in SUBSET S
      PROVE  h[s] = IF s = {} THEN 0 ELSE f[Chosen(s)] + h[s \ {Chosen(s)}]
  BY <1>1, <1>2, <1>3
<1>5. h = Rec(h)
  BY <1>4
<1> DEFINE g == CHOOSE g : g = Rec(g)
<1>6. SumOf(f, S) = g[S]
  BY DEF SumOf, MapThenSumSet, MapThenFoldSet, Chosen
<1>7. g = Rec(g)
  <2> HIDE DEF Rec
  <2> QED BY <1>5
<1> HIDE DEF g
<1>8. \A s \in SUBSET S : g[s] = IF s = {} THEN 0 ELSE f[Chosen(s)] + g[s \ {Chosen(s)}]
  BY <1>7
<1>9. g \in [SUBSET S -> Int]
  <2> DEFINE G == {s \in SUBSET S : g[s] = h[s]}
  <2>1. {} \in G
    BY <1>4, <1>8
  <2>2. ASSUME NEW s \in SUBSET S, s # {}, \A x \in s : s \ {x} \in G
        PROVE  s \in G
    BY <1>1, <1>4, <1>8, <2>2
  <2> HIDE DEF G
  <2>3. SUBSET S \subseteq G
    BY <2>1, <2>2, SubsetInduction
  <2>4. \A s \in SUBSET S : g[s] \in Int
    BY <2>3 DEF G
  <2>5. g = [s \in SUBSET S |-> g[s]]
    BY <1>7
  <2> QED BY <2>4, <2>5
<1>10. AreSums(g, f, S)
  BY <1>6, <1>8 DEF AreSums
<1> HIDE DEF AreSums
<1> QED BY <1>9, <1>10

(* What is chosen of a set is in it; what is left are fewer. *)
LEMMA ChosenLeaves ==
  ASSUME NEW S, NEW s \in SUBSET S, s # {}
  PROVE  Chosen(s) \in s /\ Chosen(s) \in S /\ s \ {Chosen(s)} \in SUBSET S
BY DEF Chosen

(* A sum is a number. *)
LEMMA SumType ==
  ASSUME NEW S, IsFiniteSet(S), NEW f \in [S -> Int]
  PROVE  SumOf(f, S) \in Int
<1>1. PICK g \in [SUBSET S -> Int] : AreSums(g, f, S)
  BY SumRecursion
<1> QED BY <1>1 DEF AreSums

(* Sums of the same elements add up. *)
LEMMA SumAdds ==
  ASSUME NEW S, IsFiniteSet(S), NEW f \in [S -> Int], NEW d \in [S -> Int],
         NEW h \in [S -> Int], \A x \in S : h[x] = f[x] + d[x]
  PROVE  SumOf(h, S) = SumOf(f, S) + SumOf(d, S)
<1>1. PICK ff \in [SUBSET S -> Int] : AreSums(ff, f, S)
  BY SumRecursion
<1>2. PICK dd \in [SUBSET S -> Int] : AreSums(dd, d, S)
  BY SumRecursion
<1>3. PICK hh \in [SUBSET S -> Int] : AreSums(hh, h, S)
  BY SumRecursion
<1> DEFINE G == {s \in SUBSET S : hh[s] = ff[s] + dd[s]}
<1>4. {} \in G
  BY <1>1, <1>2, <1>3 DEF AreSums
<1>5. ASSUME NEW s \in SUBSET S, s # {}, \A x \in s : s \ {x} \in G
      PROVE  s \in G
  <2> DEFINE x == Chosen(s)
             t == s \ {x}
  <2>1. x \in s /\ x \in S /\ t \in SUBSET S
    BY <1>5, ChosenLeaves
  <2>2. ff[s] = f[x] + ff[t] /\ dd[s] = d[x] + dd[t] /\ hh[s] = h[x] + hh[t]
    BY <1>1, <1>2, <1>3, <1>5 DEF AreSums
  <2>3. t \in G
    BY <1>5, <2>1
  <2> HIDE DEF x, t
  <2>4. hh[t] = ff[t] + dd[t] /\ h[x] = f[x] + d[x]
    BY <2>1, <2>3
  <2>5. /\ ff[t] \in Int /\ dd[t] \in Int /\ hh[t] \in Int
        /\ f[x] \in Int /\ d[x] \in Int /\ h[x] \in Int
    BY <2>1
  <2> QED BY <2>2, <2>4, <2>5
<1> HIDE DEF G
<1>6. S \in G
  BY <1>4, <1>5, SubsetInduction
<1> QED BY <1>1, <1>2, <1>3, <1>6 DEF G, AreSums

(* A sum of nothing but one element is that element. *)
LEMMA SumOfOne ==
  ASSUME NEW S, IsFiniteSet(S), NEW d \in [S -> Int], NEW u,
         \A x \in S : x # u => d[x] = 0
  PROVE  SumOf(d, S) = IF u \in S THEN d[u] ELSE 0
<1>1. PICK dd \in [SUBSET S -> Int] : AreSums(dd, d, S)
  BY SumRecursion
<1> DEFINE G == {s \in SUBSET S : dd[s] = IF u \in s THEN d[u] ELSE 0}
<1>2. {} \in G
  BY <1>1 DEF AreSums
<1>3. ASSUME NEW s \in SUBSET S, s # {}, \A x \in s : s \ {x} \in G
      PROVE  s \in G
  <2> DEFINE x == Chosen(s)
             t == s \ {x}
  <2>1. x \in s /\ x \in S /\ t \in SUBSET S
    BY <1>3, ChosenLeaves
  <2>2. dd[s] = d[x] + dd[t]
    BY <1>1, <1>3 DEF AreSums
  <2>3. dd[t] = IF u \in t THEN d[u] ELSE 0
    BY <1>3, <2>1
  <2>4. d[x] \in Int /\ dd[t] \in Int
    BY <2>1
  <2>5. CASE x = u
    <3>1. u \notin t /\ u \in s
      BY <2>1, <2>5
    <3>2. dd[s] = d[u]
      BY <2>2, <2>3, <2>4, <2>5, <3>1
    <3> QED BY <3>1, <3>2
  <2>6. CASE x # u
    <3>1. (u \in t <=> u \in s) /\ d[x] = 0
      BY <2>1, <2>6
    <3>2. dd[s] = dd[t]
      BY <2>2, <2>4, <3>1
    <3> QED BY <2>3, <3>1, <3>2
  <2> QED BY <2>5, <2>6
<1> HIDE DEF G
<1>4. S \in G
  BY <1>2, <1>3, SubsetInduction
<1> QED BY <1>1, <1>4 DEF G, AreSums

(* A sum changes by what one of its elements changes. *)
LEMMA SumChanges ==
  ASSUME NEW S, IsFiniteSet(S), NEW f \in [S -> Int], NEW h \in [S -> Int], NEW u \in S,
         \A x \in S : x # u => h[x] = f[x]
  PROVE  SumOf(h, S) = SumOf(f, S) + h[u] - f[u]
<1> DEFINE d == [x \in S |-> h[x] - f[x]]
<1>1. d \in [S -> Int] /\ \A x \in S : h[x] = f[x] + d[x]
  OBVIOUS
<1>2. (\A x \in S : x # u => d[x] = 0) /\ d[u] = h[u] - f[u]
  OBVIOUS
<1> HIDE DEF d
<1>3. SumOf(h, S) = SumOf(f, S) + SumOf(d, S)
  BY <1>1, SumAdds
<1>4. SumOf(d, S) = d[u]
  BY <1>1, <1>2, SumOfOne
<1>5. SumOf(f, S) \in Int /\ h[u] \in Int /\ f[u] \in Int
  BY SumType
<1> QED BY <1>2, <1>3, <1>4, <1>5

-----------------------------------------------------------------------------
(* Sequences *)

(* The greatest of a set of numbers up to n is in it. *)
LEMMA MaxIsIn ==
  ASSUME NEW n \in Nat, NEW s \in SUBSET (1..n), s # {}
  PROVE  Max(s) \in s /\ \A x \in s : Max(s) >= x
<1> DEFINE Gaps == {k \in Nat : n - k \in s}
<1>1. Gaps # {} /\ Gaps \subseteq Nat
  <2>1. PICK x \in s : TRUE
    OBVIOUS
  <2>2. x \in 1..n /\ n - x \in Nat /\ n - (n - x) = x
    BY <2>1
  <2> QED BY <2>1, <2>2
<1>2. PICK g \in Gaps : \A k \in Gaps : <<k, g>> \notin OpToRel(<, Nat)
  BY <1>1, NatLessThanWellFounded, WFMin
<1>3. n - g \in s /\ g \in Nat
  OBVIOUS
<1>4. \A x \in s : n - g >= x
  <2> TAKE x \in s
  <2>1. n - x \in Nat /\ n - (n - x) = x /\ x \in Nat
    OBVIOUS
  <2>2. n - x \in Gaps
    BY <2>1
  <2>3. ~(n - x < g)
    BY <1>2, <1>3, <2>1, <2>2 DEF OpToRel
  <2> QED BY <1>3, <2>1, <2>3
<1>5. \E x \in s : \A y \in s : x >= y
  BY <1>3, <1>4
<1> QED BY <1>5 DEF Max

(* The values of a fold from left to right, after each prefix. *)
ArePrefixes(p, n, base, step) ==
  p[0] = base /\ \A k \in 1..n : p[k] = step[k][p[k - 1]]

(* The fold of the first n elements, as the recursion over subsets that    *)
(* takes the greatest index first.                                         *)
IsSeqFold(g, n, base, step) ==
  /\ g[{}] = base
  /\ \A s \in SUBSET (1..n) : s # {} => g[s] = step[Max(s)][g[s \ {Max(s)}]]

SeqFolding(n, V, base, step) ==
  n \in Nat /\ base \in V /\ \A k \in 1..n, v \in V : step[k][v] \in V

HasSeqFold(n, V, base, step) ==
  \E g \in [SUBSET (1..n) -> V] : \E p \in [0..n -> V] :
    /\ IsSeqFold(g, n, base, step)
    /\ ArePrefixes(p, n, base, step)
    /\ g[1..n] = p[n]

(* A fold over a sequence has a solution, and goes from prefix to prefix. *)
LEMMA SequenceFold ==
  ASSUME NEW n, NEW V, NEW base, NEW step, SeqFolding(n, V, base, step)
  PROVE  HasSeqFold(n, V, base, step)
<1> SUFFICES ASSUME n \in Nat, base \in V, \A k \in 1..n, v \in V : step[k][v] \in V
             PROVE  \E g \in [SUBSET (1..n) -> V] : \E p \in [0..n -> V] :
                      /\ IsSeqFold(g, n, base, step)
                      /\ ArePrefixes(p, n, base, step)
                      /\ g[1..n] = p[n]
  BY DEF SeqFolding, HasSeqFold
<1> DEFINE S == 1..n
           pick == [s \in SUBSET S |-> Max(s)]
           move == [s \in SUBSET S |-> step[Max(s)]]
<1>1. IsFiniteSet(S)
  BY FS_Interval
<1>2. \A s \in SUBSET S : s # {} => pick[s] \in s /\ pick[s] = Max(s) /\ move[s] = step[Max(s)]
  BY MaxIsIn
<1>3. \A s \in SUBSET S, v \in V : s # {} => move[s][v] \in V
  BY <1>2
<1> HIDE DEF pick, move
<1>4. Folding(S, V, base, pick, move)
  BY <1>1, <1>2, <1>3 DEF Folding
<1>5. PICK g \in [SUBSET S -> V] : IsFold(g, S, base, pick, move)
  BY <1>4, FoldExists
<1>6. IsSeqFold(g, n, base, step)
  BY <1>2, <1>5 DEF IsFold, IsSeqFold
<1> DEFINE p == [k \in 0..n |-> g[1..k]]
<1>7. \A k \in 0..n : 1..k \in SUBSET S
  OBVIOUS
<1>8. p \in [0..n -> V] /\ \A k \in 0..n : p[k] = g[1..k]
  BY <1>7
<1>9. ASSUME NEW k \in 1..n
      PROVE  p[k] = step[k][p[k - 1]]
  <2>1. 1..k \in SUBSET S /\ 1..k # {} /\ k \in 1..k
    BY <1>7
  <2>2. Max(1..k) = k
    <3>1. Max(1..k) \in 1..k /\ Max(1..k) >= k
      BY <2>1, MaxIsIn
    <3> QED BY <3>1
  <2>3. (1..k) \ {k} = 1..(k - 1) /\ k - 1 \in 0..n
    OBVIOUS
  <2>4. g[1..k] = step[k][g[1..(k - 1)]]
    BY <1>6, <2>1, <2>2, <2>3 DEF IsSeqFold
  <2> QED BY <1>8, <2>3, <2>4
<1>10. p[0] = base
  <2>1. 1..0 = {} /\ 0 \in 0..n
    OBVIOUS
  <2> QED BY <1>6, <1>8, <2>1 DEF IsSeqFold
<1>11. g[1..n] = p[n]
  BY <1>8
<1> HIDE DEF p
<1>12. ArePrefixes(p, n, base, step)
  BY <1>9, <1>10 DEF ArePrefixes
<1> QED BY <1>5, <1>6, <1>8, <1>11, <1>12

-----------------------------------------------------------------------------
(* Sums over sequences *)

(* The sums of the first elements of q, and the fold that computes them.   *)
Adds(p, q, n) == p[0] = 0 /\ \A k \in 1..n : p[k] = p[k - 1] + q[k]

SumsUp(g, q, n) ==
  /\ g[{}] = 0
  /\ \A s \in SUBSET (1..n) : s # {} => g[s] = g[s \ {Max(s)}] + q[Max(s)]

HasSums(q, n) ==
  /\ \E g \in [SUBSET (1..n) -> Int] : SumsUp(g, q, n)
  /\ \E p \in [0..n -> Int] :
       Adds(p, q, n) /\ \A h : SumsUp(h, q, n) => h[1..n] = p[n]

(* Only one fold sums up the elements of q. *)
LEMMA OneSumUp ==
  ASSUME NEW n \in Nat, NEW q, NEW g, NEW h, SumsUp(g, q, n), SumsUp(h, q, n)
  PROVE  h[1..n] = g[1..n]
<1> DEFINE S == 1..n
           G == {s \in SUBSET S : h[s] = g[s]}
<1>1. {} \in G
  BY DEF SumsUp
<1>2. ASSUME NEW s \in SUBSET S, s # {}, \A x \in s : s \ {x} \in G
      PROVE  s \in G
  <2>1. Max(s) \in s
    BY <1>2, MaxIsIn
  <2>2. s \ {Max(s)} \in G
    BY <1>2, <2>1
  <2> QED BY <1>2, <2>2 DEF SumsUp
<1>3. IsFiniteSet(S)
  BY FS_Interval
<1> HIDE DEF G, S
<1>4. SUBSET S \subseteq G
  BY <1>1, <1>2, <1>3, SubsetInduction
<1> QED BY <1>4 DEF G, S

(* A sum over a sequence has a value, reached element by element. *)
LEMMA SequenceSum ==
  ASSUME NEW n \in Nat, NEW q \in [1..n -> Int]
  PROVE  HasSums(q, n)
<1> DEFINE S == SUBSET (1..n)
           step == [k \in 1..n |-> [v \in Int |-> v + q[k]]]
<1>1. \A k \in 1..n, v \in Int : step[k][v] = v + q[k] /\ step[k][v] \in Int
  OBVIOUS
<1> HIDE DEF step
<1>2. HasSeqFold(n, Int, 0, step)
  <2>1. SeqFolding(n, Int, 0, step)
    BY <1>1 DEF SeqFolding
  <2> QED BY <2>1, SequenceFold
<1>3. PICK g \in [S -> Int], p \in [0..n -> Int] :
        /\ IsSeqFold(g, n, 0, step)
        /\ ArePrefixes(p, n, 0, step)
        /\ g[1..n] = p[n]
  BY <1>2 DEF HasSeqFold
<1>4. \A s \in S : s # {} => Max(s) \in s /\ Max(s) \in 1..n /\ s \ {Max(s)} \in S
  BY MaxIsIn
<1>5. SumsUp(g, q, n)
  <2>1. ASSUME NEW s \in S, s # {}
        PROVE  g[s] = g[s \ {Max(s)}] + q[Max(s)]
    <3>1. g[s \ {Max(s)}] \in Int /\ Max(s) \in 1..n
      BY <1>3, <1>4, <2>1
    <3>2. g[s] = step[Max(s)][g[s \ {Max(s)}]]
      BY <1>3, <2>1 DEF IsSeqFold
    <3> QED BY <1>1, <3>1, <3>2
  <2> QED BY <1>3, <2>1 DEF IsSeqFold, SumsUp
<1>6. Adds(p, q, n)
  <2>1. \A k \in 1..n : k - 1 \in 0..n
    OBVIOUS
  <2> QED BY <1>1, <1>3, <2>1 DEF ArePrefixes, Adds
<1>7. ASSUME NEW h, SumsUp(h, q, n)
      PROVE  h[1..n] = p[n]
  <2>1. h[1..n] = g[1..n]
    BY <1>5, <1>7, OneSumUp
  <2> QED BY <1>3, <2>1
<1> QED BY <1>3, <1>5, <1>6, <1>7 DEF HasSums

(* There is one such sequence of sums. *)
LEMMA OneSum ==
  ASSUME NEW n \in Nat, NEW q, NEW p, NEW r, Adds(p, q, n), Adds(r, q, n)
  PROVE  p[n] = r[n]
<1> DEFINE N == {k \in Nat : k <= n => p[k] = r[k]}
<1>1. 0 \in N
  BY DEF Adds
<1>2. ASSUME NEW k \in Nat, k \in N
      PROVE  k + 1 \in N
  <2> SUFFICES ASSUME k + 1 <= n PROVE p[k + 1] = r[k + 1]
    OBVIOUS
  <2>1. k + 1 \in 1..n /\ (k + 1) - 1 = k /\ p[k] = r[k]
    BY <1>2
  <2> QED BY <2>1 DEF Adds
<1> HIDE DEF N
<1>3. Nat \subseteq N
  BY <1>1, <1>2, SetInduction
<1> QED BY <1>3 DEF N


-----------------------------------------------------------------------------
(* Sums over the subsets of a set *)

(* The sums of f over the subsets of U; the members of each may be taken   *)
(* in any order.                                                           *)
Totals(g, f, U) ==
  /\ g[{}] = 0
  /\ \A s \in SUBSET U : \A x \in s : g[s] = f[x] + g[s \ {x}]

(* There are such sums. *)
LEMMA TotalsExist ==
  ASSUME NEW U, IsFiniteSet(U), NEW f \in [U -> Int]
  PROVE  \E g \in [SUBSET U -> Int] : Totals(g, f, U)
<1>1. PICK g \in [SUBSET U -> Int] : AreSums(g, f, U)
  BY SumRecursion
<1> DEFINE G == {s \in SUBSET U : \A x \in s : g[s] = f[x] + g[s \ {x}]}
<1>2. {} \in G
  OBVIOUS
<1>3. ASSUME NEW s \in SUBSET U, s # {}, \A x \in s : s \ {x} \in G
      PROVE  s \in G
  <2> DEFINE c == Chosen(s)
  <2>1. c \in s /\ g[s] = f[c] + g[s \ {c}]
    BY <1>1, <1>3, ChosenLeaves DEF AreSums
  <2> HIDE DEF c
  <2>2. ASSUME NEW x \in s, x # c
        PROVE  g[s] = f[x] + g[s \ {x}]
    <3>1. x \in s \ {c} /\ s \ {c} \in G /\ c \in s \ {x} /\ s \ {x} \in G
      BY <1>3, <2>1, <2>2
    <3>2. g[s \ {c}] = f[x] + g[(s \ {c}) \ {x}]
      BY <3>1
    <3>3. g[s \ {x}] = f[c] + g[(s \ {x}) \ {c}]
      BY <3>1
    <3>4. (s \ {c}) \ {x} = (s \ {x}) \ {c} /\ (s \ {x}) \ {c} \in SUBSET U
      OBVIOUS
    <3>5. f[x] \in Int /\ f[c] \in Int /\ g[(s \ {x}) \ {c}] \in Int
      BY <2>1, <3>4
    <3> DEFINE rest == g[(s \ {x}) \ {c}]
    <3>6. g[s] = f[c] + (f[x] + rest) /\ g[s \ {x}] = f[c] + rest
      BY <2>1, <3>2, <3>3, <3>4
    <3> HIDE DEF rest
    <3> QED BY <3>5, <3>6 DEF rest
  <2> QED BY <2>1, <2>2
<1> HIDE DEF G
<1>4. SUBSET U \subseteq G
  BY <1>2, <1>3, SubsetInduction
<1> QED BY <1>1, <1>4 DEF G, Totals, AreSums

(* The recursion by which MapThenSumSet sums over the subsets of S. *)
AddsChosen(h, f, S) ==
  \A s \in SUBSET S : h[s] = IF s = {} THEN 0 ELSE f[Chosen(s)] + h[s \ {Chosen(s)}]

(* Such a function has the totals' values. *)
LEMMA TotalFoundBy ==
  ASSUME NEW U, IsFiniteSet(U), NEW f, NEW g, Totals(g, f, U), NEW S \in SUBSET U,
         NEW h, AddsChosen(h, f, S)
  PROVE  h[S] = g[S]
<1> DEFINE G == {s \in SUBSET S : h[s] = g[s]}
<1>0. IsFiniteSet(S)
  BY FS_Subset
<1>1. {} \in G
  BY DEF Totals, AddsChosen
<1>2. ASSUME NEW s \in SUBSET S, s # {}, \A x \in s : s \ {x} \in G
      PROVE  s \in G
  <2>1. Chosen(s) \in s
    BY <1>2, ChosenLeaves
  <2>2. h[s \ {Chosen(s)}] = g[s \ {Chosen(s)}]
    BY <1>2, <2>1
  <2>3. g[s] = f[Chosen(s)] + g[s \ {Chosen(s)}]
    BY <2>1 DEF Totals
  <2> QED BY <1>2, <2>2, <2>3 DEF AddsChosen
<1> HIDE DEF G
<1>3. SUBSET S \subseteq G
  BY <1>0, <1>1, <1>2, SubsetInduction
<1> QED BY <1>3 DEF G

(* Sums of naturals grow with the set. *)
LEMMA TotalsGrow ==
  ASSUME NEW U, IsFiniteSet(U), NEW f \in [U -> Nat], NEW g \in [SUBSET U -> Int],
         Totals(g, f, U)
  PROVE  \A T \in SUBSET U : \A S \in SUBSET T : 0 <= g[S] /\ g[S] <= g[T]
<1> DEFINE G == {T \in SUBSET U : 0 <= g[T] /\ \A S \in SUBSET T : g[S] <= g[T]}
<1>1. {} \in G
  <2>1. g[{}] = 0
    BY DEF Totals
  <2>2. ASSUME NEW S \in SUBSET {}
        PROVE  g[S] <= g[{}]
    <3>1. S = {}
      OBVIOUS
    <3> QED BY <2>1, <3>1
  <2> QED BY <2>1, <2>2
<1>2. ASSUME NEW T \in SUBSET U, T # {}, \A x \in T : T \ {x} \in G
      PROVE  T \in G
  <2>1. ASSUME NEW x \in T
        PROVE  g[T \ {x}] <= g[T] /\ 0 <= g[T \ {x}]
    <3>1. g[T] = f[x] + g[T \ {x}] /\ f[x] \in Nat /\ g[T \ {x}] \in Int /\ g[T] \in Int
      BY DEF Totals
    <3>2. 0 <= g[T \ {x}]
      BY <1>2
    <3> QED BY <3>1, <3>2
  <2>2. ASSUME NEW S \in SUBSET T
        PROVE  g[S] <= g[T]
    <3>1. CASE S = T
      <4>1. g[T] \in Int
        OBVIOUS
      <4> QED BY <3>1, <4>1
    <3>2. CASE S # T
      <4>1. PICK x \in T : x \notin S
        BY <3>2
      <4>2. S \in SUBSET (T \ {x})
        BY <4>1
      <4>3. g[S] <= g[T \ {x}]
        BY <1>2, <4>2
      <4>4. g[S] \in Int /\ g[T] \in Int /\ g[T \ {x}] \in Int
        OBVIOUS
      <4> QED BY <2>1, <4>3, <4>4
    <3> QED BY <3>1, <3>2
  <2>3. 0 <= g[T]
    <3>1. PICK x \in T : TRUE
      BY <1>2
    <3>2. g[T \ {x}] \in Int /\ g[T] \in Int
      OBVIOUS
    <3> QED BY <2>1, <3>2
  <2> QED BY <2>2, <2>3
<1> HIDE DEF G
<1>3. SUBSET U \subseteq G
  BY <1>1, <1>2, SubsetInduction
<1>4. \A T \in SUBSET U : 0 <= g[T] /\ \A S \in SUBSET T : g[S] <= g[T]
  BY <1>3 DEF G
<1> QED BY <1>4

Joins(g, U) == \A S, T \in SUBSET U : S \cap T = {} => g[S \cup T] = g[S] + g[T]

(* Sums over sets that nothing is in both of. *)
LEMMA TotalsJoin ==
  ASSUME NEW U, IsFiniteSet(U), NEW f \in [U -> Int], NEW g \in [SUBSET U -> Int],
         Totals(g, f, U)
  PROVE  Joins(g, U)
<1> SUFFICES ASSUME NEW S \in SUBSET U, NEW T \in SUBSET U, S \cap T = {}
             PROVE  g[S \cup T] = g[S] + g[T]
  BY DEF Joins
<1> DEFINE G == {t \in SUBSET T : g[S \cup t] = g[S] + g[t]}
<1>0. IsFiniteSet(T)
  BY FS_Subset
<1>1. {} \in G
  <2>1. g[S] \in Int /\ S \cup {} = S
    OBVIOUS
  <2> QED BY <2>1 DEF Totals
<1>2. ASSUME NEW t \in SUBSET T, t # {}, \A x \in t : t \ {x} \in G
      PROVE  t \in G
  <2>1. PICK x \in t : TRUE
    BY <1>2
  <2>2. (S \cup t) \ {x} = S \cup (t \ {x}) /\ x \in S \cup t /\ S \cup t \in SUBSET U
        /\ t \in SUBSET U /\ x \in U /\ t \ {x} \in SUBSET U
    BY <2>1
  <2>3. g[S \cup t] = f[x] + g[S \cup (t \ {x})] /\ g[t] = f[x] + g[t \ {x}]
    BY <2>1, <2>2 DEF Totals
  <2>4. g[S \cup (t \ {x})] = g[S] + g[t \ {x}]
    BY <1>2, <2>1
  <2>5. f[x] \in Int /\ g[S] \in Int /\ g[t \ {x}] \in Int
    BY <2>2
  <2> QED BY <2>3, <2>4, <2>5
<1> HIDE DEF G
<1>3. SUBSET T \subseteq G
  BY <1>0, <1>1, <1>2, SubsetInduction
<1> QED BY <1>3 DEF G

-----------------------------------------------------------------------------
(* Ranks *)

(* A strict total order on S, as a set of pairs. *)
Orders(R, S) ==
  /\ \A x \in S : <<x, x>> \notin R
  /\ \A x, y \in S : x # y => <<x, y>> \in R \/ <<y, x>> \in R
  /\ \A x, y, z \in S : <<x, y>> \in R /\ <<y, z>> \in R => <<x, z>> \in R

(* Each place of a finite set in order has a member, and one only. *)
LEMMA RankedOnce ==
  ASSUME NEW S, IsFiniteSet(S), NEW R, Orders(R, S)
  PROVE  /\ Cardinality(S) \in Nat
         /\ \A i \in 1..Cardinality(S) :
              \E m \in S : Cardinality({n \in S : <<n, m>> \in R}) = i - 1
<1> DEFINE Before(m) == {n \in S : <<n, m>> \in R}
           rank == [m \in S |-> Cardinality(Before(m)) + 1]
           c == Cardinality(S)
<1>1. c \in Nat /\ \A m \in S : Before(m) \in SUBSET S /\ Cardinality(Before(m)) \in Nat
  BY SubsetCounts
<1>2. ASSUME NEW m \in S, NEW n \in S, <<n, m>> \in R
      PROVE  Cardinality(Before(n)) < Cardinality(Before(m))
  <2>1. Before(n) \subseteq Before(m) \ {n} /\ n \in Before(m)
    BY <1>2 DEF Orders
  <2>2. Cardinality(Before(m) \ {n}) = Cardinality(Before(m)) - 1
    BY <1>1, <2>1, SubsetCounts
  <2>3. Before(m) \ {n} \in SUBSET S /\ Before(n) \in SUBSET (Before(m) \ {n})
    BY <2>1
  <2>4. Cardinality(Before(n)) <= Cardinality(Before(m) \ {n})
    BY <2>3, SubsetCounts
  <2> QED BY <1>1, <2>2, <2>4
<1>3. ASSUME NEW m \in S
      PROVE  rank[m] \in 1..c
  <2>1. m \notin Before(m) /\ m \in S \ Before(m)
    BY DEF Orders
  <2>2. Cardinality(Before(m)) + 1 <= c
    BY <1>1, <2>1, SubsetCounts
  <2> QED BY <1>1, <2>2
<1>4. \A m, n \in S : rank[m] = rank[n] => m = n
  <2> SUFFICES ASSUME NEW m \in S, NEW n \in S, m # n PROVE rank[m] # rank[n]
    OBVIOUS
  <2>1. <<n, m>> \in R \/ <<m, n>> \in R
    BY DEF Orders
  <2>2. Cardinality(Before(n)) # Cardinality(Before(m))
    BY <1>1, <1>2, <2>1
  <2> QED BY <1>1, <2>2
<1>5. rank \in Injection(S, 1..c)
  BY <1>3, <1>4 DEF Injection, IsInjective
<1>6. IsFiniteSet(1..c) /\ Cardinality(1..c) = c
  BY <1>1, FS_Interval
<1>7. rank \in Surjection(S, 1..c)
  BY <1>5, <1>6, FS_Injection
<1>8. \A i \in 1..c : \E m \in S : rank[m] = i
  BY <1>7 DEF Surjection
<1>9. ASSUME NEW i \in 1..c
      PROVE  \E m \in S : Cardinality(Before(m)) = i - 1
  <2>1. PICK m \in S : rank[m] = i
    BY <1>8
  <2>2. Cardinality(Before(m)) + 1 = i /\ Cardinality(Before(m)) \in Nat
    BY <1>1, <2>1
  <2> DEFINE k == Cardinality(Before(m))
  <2> HIDE DEF k
  <2>3. k = i - 1
    BY <2>2 DEF k
  <2> QED BY <2>3 DEF k
<1> QED BY <1>1, <1>9

(* The sums of SumOf are those of its terms. *)
LEMMA SumFound ==
  ASSUME NEW U, IsFiniteSet(U), NEW f, NEW g, Totals(g, f, U), NEW S \in SUBSET U
  PROVE  SumOf(f, S) = g[S]
<1> DEFINE Rec(h) == [s \in SUBSET S |->
                        IF s = {} THEN 0 ELSE f[Chosen(s)] + h[s \ {Chosen(s)}]]
           h == CHOOSE h : h = Rec(h)
           k == [s \in SUBSET S |-> g[s]]
<1>1. SumOf(f, S) = h[S]
  BY DEF SumOf, MapThenSumSet, MapThenFoldSet, Chosen
<1>2. \A s \in SUBSET S : s # {} => Chosen(s) \in s /\ s \ {Chosen(s)} \in SUBSET S
  BY ChosenLeaves
<1>3. \A s \in SUBSET S : s # {} => g[s] = f[Chosen(s)] + g[s \ {Chosen(s)}]
  BY <1>2 DEF Totals
<1>4. k = Rec(k)
  <2>1. \A s \in SUBSET S :
          k[s] = IF s = {} THEN 0 ELSE f[Chosen(s)] + k[s \ {Chosen(s)}]
    BY <1>2, <1>3 DEF Totals
  <2> QED BY <2>1
<1>5. h = Rec(h)
  <2> HIDE DEF Rec
  <2> QED BY <1>4
<1> HIDE DEF h
<1>6. \A s \in SUBSET S : h[s] = IF s = {} THEN 0 ELSE f[Chosen(s)] + h[s \ {Chosen(s)}]
  BY <1>5
<1>7. AddsChosen(h, f, S)
  BY <1>6 DEF AddsChosen
<1> QED BY <1>1, <1>7, TotalFoundBy

(* Some terms have sums, whatever else the function is defined on. *)
LEMMA TotalsOf ==
  ASSUME NEW U, IsFiniteSet(U), NEW f, \A x \in U : f[x] \in Int
  PROVE  \E g \in [SUBSET U -> Int] : Totals(g, f, U)
<1> DEFINE r == [x \in U |-> f[x]]
<1>1. r \in [U -> Int] /\ \A x \in U : r[x] = f[x]
  OBVIOUS
<1> HIDE DEF r
<1>2. PICK g \in [SUBSET U -> Int] : Totals(g, r, U)
  BY <1>1, TotalsExist
<1>3. Totals(g, f, U)
  BY <1>1, <1>2 DEF Totals
<1> QED BY <1>3

(* Greater terms have a greater sum. *)
LEMMA SumGrows ==
  ASSUME NEW S, IsFiniteSet(S), NEW f, NEW h,
         \A x \in S : f[x] \in Int /\ h[x] \in Int /\ f[x] <= h[x]
  PROVE  SumOf(f, S) \in Int /\ SumOf(h, S) \in Int /\ SumOf(f, S) <= SumOf(h, S)
<1>1. PICK g \in [SUBSET S -> Int] : Totals(g, f, S)
  BY TotalsOf
<1>2. PICK k \in [SUBSET S -> Int] : Totals(k, h, S)
  BY TotalsOf
<1> DEFINE G == {s \in SUBSET S : g[s] <= k[s]}
<1>3. {} \in G
  BY <1>1, <1>2 DEF Totals
<1>4. ASSUME NEW s \in SUBSET S, s # {}, \A x \in s : s \ {x} \in G
      PROVE  s \in G
  <2>1. PICK x \in s : TRUE
    BY <1>4
  <2>2. g[s] = f[x] + g[s \ {x}] /\ k[s] = h[x] + k[s \ {x}]
    BY <1>1, <1>2 DEF Totals
  <2>3. g[s \ {x}] <= k[s \ {x}] /\ g[s \ {x}] \in Int /\ k[s \ {x}] \in Int
        /\ f[x] \in Int /\ h[x] \in Int /\ f[x] <= h[x]
    BY <1>4
  <2> QED BY <2>2, <2>3
<1> HIDE DEF G
<1>5. S \in G
  BY <1>3, <1>4, SubsetInduction
<1>6. SumOf(f, S) = g[S] /\ SumOf(h, S) = k[S]
  BY <1>1, <1>2, SumFound
<1> QED BY <1>5, <1>6 DEF G

(* Of terms none of which grows but one, the sum grows by that, at most. *)
LEMMA SumGrowsByOne ==
  ASSUME NEW S, IsFiniteSet(S), NEW f, NEW h, NEW u,
         \A x \in S : f[x] \in Int /\ h[x] \in Int /\ (x # u => h[x] <= f[x])
  PROVE  /\ SumOf(f, S) \in Int /\ SumOf(h, S) \in Int
         /\ u \in S => SumOf(h, S) <= SumOf(f, S) + (h[u] - f[u])
         /\ u \notin S => SumOf(h, S) <= SumOf(f, S)
<1>1. SumOf(f, S) \in Int /\ SumOf(h, S) \in Int
  BY SumGrows
<1>2. ASSUME u \notin S PROVE SumOf(h, S) <= SumOf(f, S)
  BY <1>2, SumGrows
<1>3. ASSUME u \in S PROVE SumOf(h, S) <= SumOf(f, S) + (h[u] - f[u])
  <2> DEFINE m == [x \in S |-> IF x = u THEN f[u] ELSE h[x]]
             k == [x \in S |-> h[x]]
  <2>1. /\ m \in [S -> Int] /\ k \in [S -> Int] /\ m[u] = f[u] /\ k[u] = h[u]
        /\ \A x \in S : (x # u => k[x] = m[x]) /\ m[x] <= f[x] /\ h[x] <= k[x]
    BY <1>3
  <2> HIDE DEF m, k
  <2>2. SumOf(m, S) <= SumOf(f, S) /\ SumOf(h, S) <= SumOf(k, S)
        /\ SumOf(m, S) \in Int /\ SumOf(k, S) \in Int
    BY <2>1, SumGrows
  <2>3. SumOf(k, S) = SumOf(m, S) + k[u] - m[u]
    BY <1>3, <2>1, SumChanges
  <2>4. h[u] \in Int /\ f[u] \in Int
    BY <1>3
  <2> QED BY <1>1, <2>1, <2>2, <2>3, <2>4
<1> QED BY <1>1, <1>2, <1>3

(* A term of nothing adds nothing. *)
LEMMA SumWithNone ==
  ASSUME NEW S, IsFiniteSet(S), NEW u, u \notin S, NEW f, f[u] = 0,
         \A x \in S : f[x] \in Int
  PROVE  SumOf(f, S \cup {u}) = SumOf(f, S)
<1> DEFINE U == S \cup {u}
<1>1. IsFiniteSet(U) /\ \A x \in U : f[x] \in Int
  BY FS_AddElement
<1>2. PICK g \in [SUBSET U -> Int] : Totals(g, f, U)
  BY <1>1, TotalsOf
<1>3. SumOf(f, U) = g[U] /\ SumOf(f, S) = g[S]
  BY <1>1, <1>2, SumFound
<1>4. g[U] = f[u] + g[U \ {u}] /\ U \ {u} = S /\ g[S] \in Int
  BY <1>2 DEF Totals
<1> HIDE DEF U
<1>5. g[U \ {u}] = g[S]
  BY <1>4
<1>6. g[U] = g[S]
  BY <1>4, <1>5
<1> QED BY <1>3, <1>6 DEF U

(* Of terms that stay but for one, the sum changes by what that one does.  *)
LEMMA SumMoves ==
  ASSUME NEW S, IsFiniteSet(S), NEW f, NEW h, NEW u,
         \A x \in S : f[x] \in Int /\ h[x] \in Int /\ (x # u => h[x] = f[x])
  PROVE  /\ SumOf(f, S) \in Int /\ SumOf(h, S) \in Int
         /\ u \in S => SumOf(h, S) = SumOf(f, S) + (h[u] - f[u])
         /\ u \notin S => SumOf(h, S) = SumOf(f, S)
<1>1. /\ SumOf(f, S) \in Int /\ SumOf(h, S) \in Int
      /\ u \in S => SumOf(h, S) <= SumOf(f, S) + (h[u] - f[u])
      /\ u \notin S => SumOf(h, S) <= SumOf(f, S)
  <2>1. \A x \in S : f[x] \in Int /\ h[x] \in Int /\ (x # u => h[x] <= f[x])
    OBVIOUS
  <2> QED BY <2>1, SumGrowsByOne
<1>2. /\ u \in S => SumOf(f, S) <= SumOf(h, S) + (f[u] - h[u])
      /\ u \notin S => SumOf(f, S) <= SumOf(h, S)
  <2>1. \A x \in S : f[x] \in Int /\ h[x] \in Int /\ (x # u => f[x] <= h[x])
    OBVIOUS
  <2> QED BY <2>1, SumGrowsByOne
<1>3. u \in S => f[u] \in Int /\ h[u] \in Int
  OBVIOUS
<1> QED BY <1>1, <1>2, <1>3

(* Terms that are nothing can be left out of a sum. *)
LEMMA SumOfSome ==
  ASSUME NEW S, IsFiniteSet(S), NEW f, \A x \in S : f[x] \in Int,
         NEW T \in SUBSET S, \A x \in S \ T : f[x] = 0
  PROVE  SumOf(f, S) = SumOf(f, T)
<1>1. PICK g \in [SUBSET S -> Int] : Totals(g, f, S)
  BY TotalsOf
<1>2. SumOf(f, S) = g[S] /\ SumOf(f, T) = g[T]
  BY <1>1, SumFound
<1> DEFINE G == {s \in SUBSET S : g[s] = g[s \cap T]}
<1>3. {} \in G
  <2>1. {} \cap T = {}
    OBVIOUS
  <2> QED BY <2>1
<1>4. ASSUME NEW s \in SUBSET S, s # {}, \A x \in s : s \ {x} \in G
      PROVE  s \in G
  <2>1. PICK x \in s : TRUE
    BY <1>4
  <2>2. g[s] = f[x] + g[s \ {x}] /\ g[s \ {x}] = g[(s \ {x}) \cap T]
        /\ f[x] \in Int
    BY <1>1, <1>4 DEF Totals
  <2>3. CASE x \in T
    <3>1. s \cap T \in SUBSET S /\ x \in s \cap T
      BY <2>3
    <3>2. g[s \cap T] = f[x] + g[(s \cap T) \ {x}]
      BY <1>1, <3>1 DEF Totals
    <3>3. (s \cap T) \ {x} = (s \ {x}) \cap T
      OBVIOUS
    <3> QED BY <2>2, <3>2, <3>3
  <2>4. CASE x \notin T
    <3>1. (s \ {x}) \cap T = s \cap T /\ f[x] = 0 /\ s \cap T \in SUBSET S
      BY <2>4
    <3>2. g[s \cap T] \in Int
      BY <3>1
    <3>3. g[s \ {x}] = g[s \cap T]
      BY <2>2, <3>1
    <3>4. g[s] = g[s \cap T]
      BY <2>2, <3>1, <3>2, <3>3
    <3> QED BY <3>4
  <2> QED BY <2>3, <2>4
<1> HIDE DEF G
<1>5. \A s \in SUBSET S : s # {} /\ (\A x \in s : s \ {x} \in G) => s \in G
  BY <1>4
<1>6. SUBSET S \subseteq G
  BY <1>3, <1>5, SubsetInduction
<1>7. S \cap T = T
  OBVIOUS
<1> QED BY <1>2, <1>6, <1>7 DEF G

-----------------------------------------------------------------------------
(* Comparing sums *)

(* The values of f, compared with c times those of h. *)
AtMost(f, c, h, U) == \A x \in U : f[x] <= c * h[x]
Exactly(f, c, h, U) == \A x \in U : f[x] = c * h[x]

(* Sums are compared as their terms are. *)
LEMMA TotalsCompare ==
  ASSUME NEW U, IsFiniteSet(U), NEW f \in [U -> Int], NEW h \in [U -> Int],
         NEW g \in [SUBSET U -> Int], NEW k \in [SUBSET U -> Int],
         Totals(g, f, U), Totals(k, h, U), NEW c \in Int
  PROVE  /\ AtMost(f, c, h, U) => AtMost(g, c, k, SUBSET U)
         /\ Exactly(f, c, h, U) => Exactly(g, c, k, SUBSET U)
<1>0. \A a, b \in Int : c * (a + b) = c * a + c * b /\ c * a \in Int
  OBVIOUS
<1>1. c * 0 = 0
  OBVIOUS
<1>2. ASSUME AtMost(f, c, h, U)
      PROVE  AtMost(g, c, k, SUBSET U)
  <2> DEFINE G == {s \in SUBSET U : g[s] <= c * k[s]}
  <2>1. {} \in G
    BY <1>1 DEF Totals
  <2>2. ASSUME NEW s \in SUBSET U, s # {}, \A x \in s : s \ {x} \in G
        PROVE  s \in G
    <3>1. PICK x \in s : TRUE
      BY <2>2
    <3> DEFINE r == s \ {x}
    <3>2. g[s] = f[x] + g[r] /\ k[s] = h[x] + k[r] /\ r \in SUBSET U
      BY <3>1 DEF Totals
    <3>3. r \in G
      BY <2>2, <3>1
    <3> HIDE DEF r
    <3>4. /\ g[r] <= c * k[r] /\ f[x] <= c * h[x] /\ g[r] \in Int /\ k[r] \in Int
          /\ f[x] \in Int /\ h[x] \in Int
      BY <1>2, <3>1, <3>2, <3>3 DEF AtMost
    <3>5. c * (h[x] + k[r]) = c * h[x] + c * k[r] /\ c * h[x] \in Int /\ c * k[r] \in Int
      BY <1>0, <3>4
    <3>6. f[x] + g[r] <= c * h[x] + c * k[r]
      BY <3>4, <3>5
    <3> QED BY <3>2, <3>5, <3>6
  <2> HIDE DEF G
  <2>3. SUBSET U \subseteq G
    BY <2>1, <2>2, SubsetInduction
  <2> QED BY <2>3 DEF G, AtMost
<1>3. ASSUME Exactly(f, c, h, U)
      PROVE  Exactly(g, c, k, SUBSET U)
  <2> DEFINE G == {s \in SUBSET U : g[s] = c * k[s]}
  <2>1. {} \in G
    BY <1>1 DEF Totals
  <2>2. ASSUME NEW s \in SUBSET U, s # {}, \A x \in s : s \ {x} \in G
        PROVE  s \in G
    <3>1. PICK x \in s : TRUE
      BY <2>2
    <3> DEFINE r == s \ {x}
    <3>2. g[s] = f[x] + g[r] /\ k[s] = h[x] + k[r] /\ r \in SUBSET U
      BY <3>1 DEF Totals
    <3>3. r \in G
      BY <2>2, <3>1
    <3> HIDE DEF r
    <3>4. /\ g[r] = c * k[r] /\ f[x] = c * h[x] /\ k[r] \in Int /\ h[x] \in Int
      BY <1>3, <3>1, <3>2, <3>3 DEF Exactly
    <3>5. c * (h[x] + k[r]) = c * h[x] + c * k[r]
      BY <1>0, <3>4
    <3> QED BY <3>2, <3>4, <3>5
  <2> HIDE DEF G
  <2>3. SUBSET U \subseteq G
    BY <2>1, <2>2, SubsetInduction
  <2> QED BY <2>3 DEF G, Exactly
<1> QED BY <1>2, <1>3

(* What is left of an order, at the rate m, and what was executed, at the  *)
(* rate r, cost no more than the whole at the higher rate.                 *)
LEMMA RatesBound ==
  ASSUME NEW m \in Nat, NEW r \in Nat, m <= r, NEW l \in Nat, NEW e \in Nat, NEW q \in Nat,
         l + e <= q
  PROVE  /\ m * l \in Nat /\ m * e \in Nat /\ r * e \in Nat /\ r * q \in Nat
         /\ m * l + r * e <= r * q
         /\ m * l + m * e <= r * q
<1>1. PICK d \in Nat : q = l + e + d
  <2>1. q - l - e \in Nat /\ q = l + e + (q - l - e)
    OBVIOUS
  <2> QED BY <2>1
<1>2. PICK k \in Nat : r = m + k
  <2>1. r - m \in Nat /\ r = m + (r - m)
    OBVIOUS
  <2> QED BY <2>1
<1>3. m * l \in Nat /\ m * e \in Nat /\ r * e \in Nat /\ r * q \in Nat /\ k * l \in Nat
      /\ k * e \in Nat /\ r * d \in Nat
  OBVIOUS
<1>4. r * q = m * l + k * l + r * e + r * d
  BY <1>1, <1>2
<1>5. r * e = m * e + k * e
  BY <1>2
<1> QED BY <1>3, <1>4, <1>5
=============================================================================
