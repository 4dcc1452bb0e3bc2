----------------------------- MODULE FoldTheorems -----------------------------
(***************************************************************************)
(* Facts about the folds the models are written with, over finite sets and *)
(* over sequences, for every set, base and operation.  An operation is a   *)
(* function here and what is to be shown of a fold is a set it stays in,   *)
(* so that nothing is quantified over operators.  Each proof looks at a    *)
(* smallest set, or the least number, for which its claim would fail.      *)
(***************************************************************************)
EXTENDS FiniteSetsExt, FiniteSetTheorems, WellFoundedInduction, TLAPS

\* Of some subsets of a finite set one has none of the others below it.
LEMMA MinimalSubset ==
  ASSUME NEW S, IsFiniteSet(S), NEW Bad \in SUBSET SUBSET S, Bad # {}
  PROVE  \E T \in Bad : \A U \in Bad : U \subseteq T => U = T
<1>1. IsWellFoundedOn(StrictSubsetOrdering(S), SUBSET S)
  BY FS_StrictSubsetOrderingWellFounded, FS_FiniteSubsetsOfFinite
<1>2. PICK T \in Bad : \A U \in Bad : <<U, T>> \notin StrictSubsetOrdering(S)
  BY <1>1, WFMin, Zenon
<1>3. \A U \in Bad : U \subseteq T => U = T
  BY <1>2 DEF StrictSubsetOrdering
<1> QED
  BY <1>3

Recurses(f, S, base, choose, op) ==
  f = [s \in SUBSET S |-> IF s = {} THEN base ELSE op[choose[s]][f[s \ {choose[s]}]]]

\* A fold is determined by its base, its order and its operation.
LEMMA RecursionUnique ==
  ASSUME NEW S, IsFiniteSet(S), NEW base, NEW choose, NEW op,
         \A s \in SUBSET S : s # {} => choose[s] \in s,
         NEW T \in SUBSET S, NEW U \in SUBSET S, NEW f, NEW g,
         Recurses(f, T, base, choose, op), Recurses(g, U, base, choose, op),
         NEW s \in SUBSET (T \cap U)
  PROVE  f[s] = g[s]
<1> DEFINE Bad == {r \in SUBSET (T \cap U) : f[r] # g[r]}
<1>1. SUFFICES ASSUME Bad # {} PROVE FALSE
  OBVIOUS
<1>2. PICK r \in Bad : \A q \in Bad : q \subseteq r => q = r
  <2>1. Bad \in SUBSET SUBSET S
    OBVIOUS
  <2> HIDE DEF Bad
  <2> QED
    BY <1>1, <2>1, MinimalSubset
<1>3. r # {}
  BY <1>2 DEF Recurses
<1>4. choose[r] \in r
  BY <1>3
<1> DEFINE q == r \ {choose[r]}
<1>5. q \notin Bad /\ q \in SUBSET (T \cap U)
  BY <1>2, <1>4
<1>6. f[r] = op[choose[r]][f[q]] /\ g[r] = op[choose[r]][g[q]]
  BY <1>3, <1>2 DEF Recurses
<1> QED
  BY <1>2, <1>5, <1>6

\* A fold over a finite set is defined, and stays among the values its base and
\* its operation range over.
THEOREM RecursionExists ==
  ASSUME NEW S, IsFiniteSet(S), NEW V, NEW base \in V, NEW choose, NEW op \in [S -> [V -> V]],
         \A s \in SUBSET S : s # {} => choose[s] \in s
  PROVE  \E f \in [SUBSET S -> V] : Recurses(f, S, base, choose, op)
<1> DEFINE Good(T) == \E f \in [SUBSET T -> V] : Recurses(f, T, base, choose, op)
           Bad     == {T \in SUBSET S : ~Good(T)}
<1>1. SUFFICES ASSUME Bad # {} PROVE FALSE
  <2>1. S \in SUBSET S
    OBVIOUS
  <2> QED
    BY <2>1
<1>2. PICK T \in Bad : \A U \in Bad : U \subseteq T => U = T
  <2>1. Bad \in SUBSET SUBSET S
    OBVIOUS
  <2> HIDE DEF Bad
  <2> QED
    BY <1>1, <2>1, MinimalSubset
<1> DEFINE Part(x) == CHOOSE f \in [SUBSET (T \ {x}) -> V] : Recurses(f, T \ {x}, base, choose, op)
<1>3. ASSUME NEW x \in T
      PROVE  Part(x) \in [SUBSET (T \ {x}) -> V] /\ Recurses(Part(x), T \ {x}, base, choose, op)
  <2>1. T \ {x} \in SUBSET S /\ T \ {x} \subseteq T /\ T \ {x} # T
    OBVIOUS
  <2>2. Good(T \ {x})
    BY <1>2, <2>1
  <2> QED
    BY <2>2
<1>3a. T \in SUBSET S
  BY <1>2
<1> HIDE DEF Part, Good, Bad
<1> DEFINE f == [s \in SUBSET T |-> IF s = {} THEN base
                                   ELSE op[choose[s]][Part(choose[s])[s \ {choose[s]}]]]
<1>4. ASSUME NEW s \in SUBSET T, s # {}
      PROVE  /\ choose[s] \in T /\ s \ {choose[s]} \in SUBSET (T \ {choose[s]})
             /\ f[s] = op[choose[s]][Part(choose[s])[s \ {choose[s]}]]
             /\ f[s] \in V
  <2>1. choose[s] \in T /\ choose[s] \in S /\ s \ {choose[s]} \in SUBSET (T \ {choose[s]})
    BY <1>3a, <1>4
  <2>2. Part(choose[s]) \in [SUBSET (T \ {choose[s]}) -> V]
    BY <1>3, <2>1
  <2>3. f[s] = op[choose[s]][Part(choose[s])[s \ {choose[s]}]]
    BY <1>4
  <2> HIDE DEF f
  <2> QED
    BY <2>1, <2>2, <2>3
<1>4a. f[{}] = base
  OBVIOUS
<1>5. f \in [SUBSET T -> V]
  <2>1. \A s \in SUBSET T : f[s] \in V
    <3> SUFFICES ASSUME NEW s \in SUBSET T PROVE f[s] \in V
      OBVIOUS
    <3>1. CASE s = {}
      BY <1>4a, <3>1
    <3> QED
      BY <1>4, <3>1
  <2> QED
    BY <2>1 DEF f
<1> HIDE DEF f
<1>6. ASSUME NEW x \in T, NEW q \in SUBSET (T \ {x}) PROVE Part(x)[q] = f[q]
  <2>1. PICK g : g = Part(x)
    OBVIOUS
  <2>2. T \ {x} \in SUBSET S /\ Recurses(g, T \ {x}, base, choose, op)
    BY <1>3, <1>3a, <2>1
  <2>3. g[q] = IF q = {} THEN base ELSE op[choose[q]][g[q \ {choose[q]}]]
    <3>1. PICK U : U = T \ {x}
      OBVIOUS
    <3>2. Recurses(g, U, base, choose, op) /\ q \in SUBSET U
      BY <2>2, <3>1
    <3> QED
      BY <3>2 DEF Recurses
  <2>4. CASE q = {}
    BY <1>4a, <2>1, <2>3, <2>4
  <2>5. CASE q # {}
    <3> DEFINE y == choose[q]
               r == q \ {y}
    <3>1. /\ y \in T /\ r \in SUBSET (T \ {y}) /\ r \in SUBSET ((T \ {x}) \cap (T \ {y}))
          /\ f[q] = op[y][Part(y)[r]]
      BY <1>4, <2>5
    <3>2. PICK h : h = Part(y)
      OBVIOUS
    <3>3. T \ {y} \in SUBSET S /\ Recurses(h, T \ {y}, base, choose, op)
      BY <1>3, <1>3a, <3>1, <3>2
    <3>4. g[r] = h[r]
      <4> HIDE DEF y, r
      <4> QED
        BY <2>2, <3>1, <3>3, RecursionUnique
    <3> QED
      BY <2>1, <2>3, <2>5, <3>1, <3>2, <3>4
  <2> QED
    BY <2>4, <2>5
<1>7. Recurses(f, T, base, choose, op)
  <2>1. ASSUME NEW s \in SUBSET T
        PROVE  f[s] = IF s = {} THEN base ELSE op[choose[s]][f[s \ {choose[s]}]]
    <3>1. CASE s = {}
      BY <1>4a, <3>1
    <3>2. CASE s # {}
      <4>1. choose[s] \in T /\ s \ {choose[s]} \in SUBSET (T \ {choose[s]})
        BY <1>4, <3>2
      <4>2. Part(choose[s])[s \ {choose[s]}] = f[s \ {choose[s]}]
        BY <1>6, <4>1
      <4> QED
        BY <1>4, <3>2, <4>2
    <3> QED
      BY <3>1, <3>2
  <2>2. f = [s \in SUBSET T |-> f[s]]
    BY <1>5
  <2> QED
    BY <2>1, <2>2 DEF Recurses
<1> QED
  BY <1>2, <1>5, <1>7 DEF Bad, Good

\* While its values are among V, g follows the steps of a fold.
Follows(g, S, V, base, choose, op) ==
  /\ g[{}] = base
  /\ \A s \in SUBSET S : s # {} /\ g[s \ {choose[s]}] \in V
                             => g[s] = op[choose[s]][g[s \ {choose[s]}]]

\* What follows the steps of a fold as long as its values are among V is that
\* fold: its values are all among V.
LEMMA RecursionTyped ==
  ASSUME NEW S, IsFiniteSet(S), NEW V, NEW base \in V, NEW choose, NEW op \in [S -> [V -> V]],
         \A s \in SUBSET S : s # {} => choose[s] \in s,
         NEW g, Follows(g, S, V, base, choose, op)
  PROVE  \A s \in SUBSET S : g[s] \in V
<1> DEFINE Bad == {s \in SUBSET S : g[s] \notin V}
<1>1. SUFFICES ASSUME Bad # {} PROVE FALSE
  OBVIOUS
<1>2. PICK s \in Bad : \A r \in Bad : r \subseteq s => r = s
  <2>1. Bad \in SUBSET SUBSET S
    OBVIOUS
  <2> HIDE DEF Bad
  <2> QED
    BY <1>1, <2>1, MinimalSubset
<1>3. s \in SUBSET S /\ s # {} /\ choose[s] \in s
  BY <1>2 DEF Follows
<1>4. s \ {choose[s]} \in SUBSET S /\ s \ {choose[s]} \notin Bad
  BY <1>2, <1>3
<1>5. g[s \ {choose[s]}] \in V
  BY <1>4
<1>6. g[s] = op[choose[s]][g[s \ {choose[s]}]] /\ op[choose[s]] \in [V -> V]
  BY <1>3, <1>5 DEF Follows
<1>7. g[s] \in V
  BY <1>5, <1>6
<1> QED
  BY <1>2, <1>7

--------------------------------------------------------------------------------
(* Numbers. *)

\* A finite set of numbers that is not empty has a greatest one.
LEMMA MaxOfFinite ==
  ASSUME NEW S \in SUBSET Int, IsFiniteSet(S), S # {}
  PROVE  Max(S) \in S /\ \A x \in S : x <= Max(S)
<1> DEFINE Top(T) == \E x \in T : \A y \in T : x >= y
           Bad    == {T \in SUBSET S : T # {} /\ ~Top(T)}
<1>1. Bad = {}
  <2> SUFFICES ASSUME Bad # {} PROVE FALSE
    OBVIOUS
  <2>1. PICK T \in Bad : \A U \in Bad : U \subseteq T => U = T
    <3>1. PICK R : R = S
      OBVIOUS
    <3>2. Bad \in SUBSET SUBSET R /\ Bad # {} /\ IsFiniteSet(R)
      BY <3>1
    <3> HIDE DEF Bad
    <3> QED
      BY <3>2, MinimalSubset
  <2>2. PICK x \in T : TRUE
    OBVIOUS
  <2>3. T \ {x} \in SUBSET S /\ T \ {x} # T
    OBVIOUS
  <2>4. T \ {x} # {} => \E m \in T \ {x} : \A y \in T \ {x} : m >= y
    BY <2>1, <2>3
  <2>5. \A y \in T : y \in Int
    OBVIOUS
  <2>6. Top(T)
    <3>1. CASE T \ {x} = {}
      BY <2>5, <3>1
    <3>2. CASE T \ {x} # {}
      <4>1. PICK m \in T \ {x} : \A y \in T \ {x} : m >= y
        BY <2>4, <3>2
      <4>2. CASE x >= m
        BY <2>5, <4>1, <4>2
      <4>3. CASE m >= x
        BY <2>5, <4>1, <4>3
      <4> QED
        BY <2>5, <4>1, <4>2, <4>3
    <3> QED
      BY <3>1, <3>2
  <2> QED
    BY <2>6
<1>2. S \in SUBSET S /\ Top(S)
  BY <1>1
<1>3. Max(S) \in S /\ \A y \in S : Max(S) >= y
  BY <1>2 DEF Max
<1> QED
  BY <1>3

\* Of some numbers one is the least.
LEMMA LeastNumber ==
  ASSUME NEW Bad \in SUBSET Nat, Bad # {}
  PROVE  \E k \in Bad : \A j \in Bad : k <= j
<1>1. PICK k \in Bad : \A j \in Bad : <<j, k>> \notin OpToRel(<, Nat)
  BY NatLessThanWellFounded, WFMin
<1>2. \A j \in Bad : ~(j < k)
  BY <1>1 DEF OpToRel
<1> QED
  BY <1>2

\* A fold over a sequence takes one step for each of its elements, in order.
THEOREM SequenceFold ==
  ASSUME NEW n \in Nat, NEW base, NEW choose, NEW op, NEW f,
         \A s \in SUBSET (1 .. n) : choose[s] = Max(s),
         Recurses(f, 1 .. n, base, choose, op)
  PROVE  /\ f[1 .. 0] = base
         /\ \A k \in 1 .. n : f[1 .. k] = op[k][f[1 .. (k - 1)]]
<1>1. f[1 .. 0] = base
  <2>1. 1 .. 0 = {} /\ {} \in SUBSET (1 .. n)
    OBVIOUS
  <2> QED
    BY <2>1 DEF Recurses
<1>2. ASSUME NEW k \in 1 .. n PROVE f[1 .. k] = op[k][f[1 .. (k - 1)]]
  <2>1. /\ 1 .. k \in SUBSET (1 .. n) /\ k \in 1 .. k
        /\ (1 .. k) \ {k} = 1 .. (k - 1)
    OBVIOUS
  <2>2. Max(1 .. k) = k
    <3>1. IsFiniteSet(1 .. k)
      BY FS_Interval
    <3>2. Max(1 .. k) \in 1 .. k /\ k <= Max(1 .. k)
      <4>1. PICK T : T = 1 .. k
        OBVIOUS
      <4>2. T \in SUBSET Int /\ T # {} /\ IsFiniteSet(T) /\ k \in T
        BY <2>1, <3>1, <4>1
      <4>3. Max(T) \in T /\ k <= Max(T)
        BY <4>2, MaxOfFinite
      <4> QED
        BY <4>1, <4>3
    <3> QED
      BY <3>2
  <2>3. choose[1 .. k] = k /\ 1 .. k # {}
    BY <2>1, <2>2
  <2>4. f[1 .. k] = op[choose[1 .. k]][f[(1 .. k) \ {choose[1 .. k]}]]
    BY <2>1, <2>3 DEF Recurses
  <2> QED
    BY <2>1, <2>3, <2>4
<1> QED
  BY <1>1, <1>2

\* The folds of a sequence of n elements are those that take its last first.
Latest(n) == [s \in SUBSET (1 .. n) |-> Max(s)]

\* The last of some elements is one of them.
LEMMA LatestChooses ==
  ASSUME NEW n \in Nat
  PROVE  IsFiniteSet(1 .. n) /\ \A s \in SUBSET (1 .. n) : s # {} => Latest(n)[s] \in s
<1>1. IsFiniteSet(1 .. n)
  BY FS_Interval
<1>2. ASSUME NEW s \in SUBSET (1 .. n), s # {} PROVE Max(s) \in s
  <2>1. PICK S : S = 1 .. n
    OBVIOUS
  <2>2. IsFiniteSet(S) /\ s \in SUBSET S
    BY <1>1, <1>2, <2>1
  <2>3. IsFiniteSet(s)
    BY <2>2, FS_Subset
  <2>4. s \in SUBSET Int
    OBVIOUS
  <2> QED
    BY <1>2, <2>3, <2>4, MaxOfFinite
<1> QED
  BY <1>1, <1>2 DEF Latest

FoldsUp(f, n, base, op) ==
  f = [s \in SUBSET (1 .. n) |-> IF s = {} THEN base ELSE op[Max(s)][f[s \ {Max(s)}]]]

\* While its values are among V, g is such a fold.
FoldsAmong(g, n, V, base, op) ==
  /\ g = [s \in SUBSET (1 .. n) |-> g[s]] /\ g[{}] = base
  /\ \A s \in SUBSET (1 .. n) : s # {} /\ g[s \ {Max(s)}] \in V => g[s] = op[Max(s)][g[s \ {Max(s)}]]

\* There is such a fold.
LEMMA SequenceFoldExists ==
  ASSUME NEW n \in Nat, NEW V, NEW base \in V, NEW op \in [1 .. n -> [V -> V]]
  PROVE  \E f \in [SUBSET (1 .. n) -> V] : FoldsUp(f, n, base, op)
<1>1. PICK S, choose : S = 1 .. n /\ choose = Latest(n)
  OBVIOUS
<1>2. IsFiniteSet(S) /\ op \in [S -> [V -> V]] /\ \A s \in SUBSET S : s # {} => choose[s] \in s
  BY <1>1, LatestChooses
<1>3. PICK f \in [SUBSET S -> V] : Recurses(f, S, base, choose, op)
  <2> DEFINE o == op
             c == choose
  <2>1. IsFiniteSet(S) /\ o \in [S -> [V -> V]] /\ \A s \in SUBSET S : s # {} => c[s] \in s
    BY <1>2
  <2> HIDE DEF o, c
  <2>2. \E f \in [SUBSET S -> V] : Recurses(f, S, base, c, o)
    BY <2>1, RecursionExists
  <2> QED
    BY <2>2 DEF o, c
<1>4. \A s \in SUBSET S : choose[s] = Max(s)
  BY <1>1 DEF Latest
<1>5. f = [s \in SUBSET S |-> IF s = {} THEN base ELSE op[Max(s)][f[s \ {Max(s)}]]]
  <2>1. \A s \in SUBSET S : f[s] = IF s = {} THEN base ELSE op[Max(s)][f[s \ {Max(s)}]]
    BY <1>3, <1>4 DEF Recurses
  <2> QED
    BY <1>3, <2>1
<1> QED
  BY <1>1, <1>3, <1>5 DEF FoldsUp

\* h goes from base to last by a step for each of the n elements.
StepsTo(h, n, base, op, last) ==
  h[0] = base /\ h[n] = last /\ \A k \in 1 .. n : h[k] = op[k][h[k - 1]]

\* What such a fold ends with is reached by a step for each of the elements.
LEMMA SequenceFoldSteps ==
  ASSUME NEW n \in Nat, NEW V, NEW base \in V, NEW op \in [1 .. n -> [V -> V]],
         NEW g, FoldsAmong(g, n, V, base, op)
  PROVE  \E h \in [0 .. n -> V] : StepsTo(h, n, base, op, g[1 .. n])
<1>1. PICK S, choose : S = 1 .. n /\ choose = Latest(n)
  OBVIOUS
<1>2. IsFiniteSet(S) /\ op \in [S -> [V -> V]] /\ \A s \in SUBSET S : s # {} => choose[s] \in s
  BY <1>1, LatestChooses
<1>3. \A s \in SUBSET S : choose[s] = Max(s)
  BY <1>1 DEF Latest
<1>4. \A s \in SUBSET S : s # {} /\ g[s \ {choose[s]}] \in V => g[s] = op[choose[s]][g[s \ {choose[s]}]]
  BY <1>1, <1>3 DEF FoldsAmong
<1>5. \A s \in SUBSET S : g[s] \in V
  <2> DEFINE o == op
             c == choose
             t == g
  <2>1. IsFiniteSet(S) /\ o \in [S -> [V -> V]] /\ \A s \in SUBSET S : s # {} => c[s] \in s
    BY <1>2
  <2>2. Follows(t, S, V, base, c, o)
    BY <1>4 DEF Follows, FoldsAmong
  <2> HIDE DEF o, c, t
  <2>3. \A s \in SUBSET S : t[s] \in V
    BY <2>1, <2>2, RecursionTyped
  <2> QED
    BY <2>3 DEF t
<1>6. \A s \in SUBSET S : g[s] = IF s = {} THEN base ELSE op[choose[s]][g[s \ {choose[s]}]]
  BY <1>4, <1>5 DEF FoldsAmong
<1>7. Recurses(g, S, base, choose, op)
  <2>1. g = [s \in SUBSET S |-> g[s]]
    BY <1>1 DEF FoldsAmong
  <2>2. g = [s \in SUBSET S |-> IF s = {} THEN base ELSE op[choose[s]][g[s \ {choose[s]}]]]
    BY <1>6, <2>1
  <2> QED
    BY <2>2 DEF Recurses
<1>8. g[1 .. 0] = base /\ \A k \in 1 .. n : g[1 .. k] = op[k][g[1 .. (k - 1)]]
  <2> DEFINE o == op
             c == choose
             t == g
  <2>1. Recurses(t, 1 .. n, base, c, o) /\ \A s \in SUBSET (1 .. n) : c[s] = Max(s)
    BY <1>1, <1>3, <1>7
  <2> HIDE DEF o, c, t
  <2>2. t[1 .. 0] = base /\ \A k \in 1 .. n : t[1 .. k] = o[k][t[1 .. (k - 1)]]
    BY <2>1, SequenceFold
  <2> QED
    BY <2>2 DEF t, o
<1> DEFINE h == [k \in 0 .. n |-> g[1 .. k]]
<1>9. h \in [0 .. n -> V]
  <2>1. \A k \in 0 .. n : 1 .. k \in SUBSET S
    BY <1>1
  <2> QED
    BY <1>5, <2>1
<1>10. ASSUME NEW k \in 1 .. n PROVE h[k] = op[k][h[k - 1]]
  <2>1. k \in 0 .. n /\ k - 1 \in 0 .. n
    OBVIOUS
  <2>2. h[k] = g[1 .. k] /\ h[k - 1] = g[1 .. (k - 1)]
    BY <2>1
  <2> QED
    BY <1>8, <2>2
<1>11. h[0] = base /\ h[n] = g[1 .. n]
  BY <1>8
<1> HIDE DEF h
<1> QED
  BY <1>9, <1>10, <1>11 DEF StepsTo

--------------------------------------------------------------------------------
(* Sums.  A fold that adds up numbers does not depend on the order in which it   *)
(* takes them.                                                                   *)

SumsUp(f, S, size, choose) ==
  /\ f \in [SUBSET S -> Nat] /\ f[{}] = 0
  /\ \A s \in SUBSET S : s # {} => /\ choose[s] \in s
                                   /\ f[s] = size[choose[s]] + f[s \ {choose[s]}]

\* Any element of a set can be taken first.
LEMMA SumTakes ==
  ASSUME NEW S, IsFiniteSet(S), NEW size \in [S -> Nat], NEW choose, NEW f, SumsUp(f, S, size, choose)
  PROVE  \A s \in SUBSET S : \A x \in s : f[s] = size[x] + f[s \ {x}]
<1> DEFINE Free(s) == \A x \in s : f[s] = size[x] + f[s \ {x}]
           Bad     == {s \in SUBSET S : ~Free(s)}
<1>1. SUFFICES ASSUME Bad # {} PROVE FALSE
  OBVIOUS
<1>2. PICK s \in Bad : \A r \in Bad : r \subseteq s => r = s
  <2>1. Bad \in SUBSET SUBSET S
    OBVIOUS
  <2> HIDE DEF Bad
  <2> QED
    BY <1>1, <2>1, MinimalSubset
<1>3. PICK x \in s : f[s] # size[x] + f[s \ {x}]
  BY <1>2
<1>4. s \in SUBSET S /\ choose[s] \in s /\ f[s] = size[choose[s]] + f[s \ {choose[s]}]
  BY <1>2, <1>3 DEF SumsUp
<1> DEFINE c == choose[s]
           r == s \ {x}
           q == s \ {c}
           o == s \ {x, c}
<1>5. x # c
  BY <1>3, <1>4
<1>6. r \in SUBSET S /\ q \in SUBSET S /\ r # s /\ q # s /\ c \in r /\ x \in q /\ r \subseteq s /\ q \subseteq s
  BY <1>3, <1>4, <1>5
<1>7. Free(r) /\ Free(q)
  BY <1>2, <1>6
<1>8. r \ {c} = o /\ q \ {x} = o /\ o \in SUBSET S
  BY <1>4
<1> HIDE DEF r, q, o, c
<1>9. f[r] = size[c] + f[o] /\ f[q] = size[x] + f[o]
  BY <1>6, <1>7, <1>8
<1>10. f[s] = size[c] + f[q] /\ f[s] # size[x] + f[r]
  BY <1>3, <1>4 DEF c, q, r
<1>11. size[c] \in Nat /\ size[x] \in Nat /\ f[o] \in Nat
  BY <1>3, <1>4, <1>8 DEF SumsUp, c
<1> QED
  BY <1>9, <1>10, <1>11

\* The sum of two sets that have nothing in common is the sum of their sums.
THEOREM SumSplits ==
  ASSUME NEW S, IsFiniteSet(S), NEW size \in [S -> Nat], NEW choose, NEW f, SumsUp(f, S, size, choose),
         NEW T \in SUBSET S, NEW U \in SUBSET S, T \cap U = {}
  PROVE  f[T \cup U] = f[T] + f[U]
<1> DEFINE Bad == {V \in SUBSET U : f[T \cup V] # f[T] + f[V]}
<1>1. SUFFICES ASSUME Bad # {} PROVE FALSE
  <2>1. U \in SUBSET U
    OBVIOUS
  <2> QED
    BY <2>1
<1>2. PICK V \in Bad : \A W \in Bad : W \subseteq V => W = V
  <2>1. PICK R : R = S
    OBVIOUS
  <2>2. Bad \in SUBSET SUBSET R /\ Bad # {} /\ IsFiniteSet(R)
    BY <1>1, <2>1
  <2> HIDE DEF Bad
  <2> QED
    BY <2>2, MinimalSubset
<1>3. V \in SUBSET U /\ f[T \cup V] # f[T] + f[V]
  BY <1>2
<1>4. f[T] \in Nat /\ f[V] \in Nat
  BY <1>3 DEF SumsUp
<1>5. CASE V = {}
  <2>1. T \cup V = T /\ f[V] = 0
    BY <1>5 DEF SumsUp
  <2> QED
    BY <1>3, <1>4, <2>1
<1>6. CASE V # {}
  <2>1. PICK x \in V : TRUE
    BY <1>6
  <2> DEFINE W == V \ {x}
  <2>2. /\ W \in SUBSET U /\ W # V /\ W \subseteq V /\ W \in SUBSET S
        /\ V \in SUBSET S /\ T \cup V \in SUBSET S /\ T \cup W \in SUBSET S
        /\ x \in T \cup V /\ x \in S /\ (T \cup V) \ {x} = T \cup W
    BY <1>3, <2>1
  <2>3. f[T \cup W] = f[T] + f[W]
    BY <1>2, <2>2
  <2>4. f[V] = size[x] + f[W] /\ f[T \cup V] = size[x] + f[T \cup W]
    BY <2>1, <2>2, SumTakes
  <2>5. size[x] \in Nat /\ f[W] \in Nat
    BY <2>2 DEF SumsUp
  <2> HIDE DEF W
  <2> QED
    BY <1>3, <1>4, <2>3, <2>4, <2>5
<1> QED
  BY <1>5, <1>6

\* A sum is at most as many times its largest number as there are numbers.
THEOREM SumBounded ==
  ASSUME NEW S, IsFiniteSet(S), NEW size \in [S -> Nat], NEW choose, NEW f, SumsUp(f, S, size, choose),
         NEW m \in Nat, \A x \in S : size[x] <= m
  PROVE  \A U \in SUBSET S : f[U] <= Cardinality(U) * m
<1> DEFINE Bad == {V \in SUBSET S : ~(f[V] <= Cardinality(V) * m)}
<1>1. SUFFICES ASSUME Bad # {} PROVE FALSE
  OBVIOUS
<1>2. PICK V \in Bad : \A W \in Bad : W \subseteq V => W = V
  <2>1. Bad \in SUBSET SUBSET S
    OBVIOUS
  <2> HIDE DEF Bad
  <2> QED
    BY <1>1, <2>1, MinimalSubset
<1>3. V \in SUBSET S /\ ~(f[V] <= Cardinality(V) * m)
  BY <1>2
<1>4. CASE V = {}
  <2>1. f[V] = 0 /\ Cardinality(V) = 0
    BY <1>4, FS_EmptySet DEF SumsUp
  <2> QED
    BY <1>3, <2>1
<1>5. CASE V # {}
  <2>1. PICK x \in V : TRUE
    BY <1>5
  <2> DEFINE W == V \ {x}
             k == Cardinality(W)
  <2>2. W \in SUBSET S /\ W # V /\ W \subseteq V /\ x \in S
    BY <1>3, <2>1
  <2>3. IsFiniteSet(V) /\ IsFiniteSet(W) /\ k \in Nat /\ Cardinality(V) = k + 1
    <3>1. IsFiniteSet(V) /\ IsFiniteSet(W)
      BY <1>3, <2>2, FS_Subset
    <3>2. Cardinality(V) \in Nat /\ Cardinality(W) \in Nat
      BY <3>1, FS_CardinalityType
    <3>3. Cardinality(W) = Cardinality(V) - 1
      BY <2>1, <3>1, FS_RemoveElement
    <3> QED
      BY <3>1, <3>2, <3>3
  <2>4. f[W] <= k * m
    BY <1>2, <2>2
  <2>5. f[V] = size[x] + f[W]
    BY <1>3, <2>1, SumTakes
  <2>6. size[x] \in Nat /\ size[x] <= m /\ f[W] \in Nat
    BY <2>2 DEF SumsUp
  <2>7. (k + 1) * m = k * m + m /\ k * m \in Nat
    BY <2>3
  <2> HIDE DEF W, k
  <2> QED
    BY <1>3, <2>3, <2>4, <2>5, <2>6, <2>7
<1> QED
  BY <1>4, <1>5

(* Sums as MapThenSumSet makes them.                                             *)

SumOf(size, T) == MapThenSumSet(LAMBDA x : size[x], T)

AddsUp(g, T, size) ==
  g = [s \in SUBSET T |-> IF s = {} THEN 0
                          ELSE size[CHOOSE x \in s : TRUE] + g[s \ {CHOOSE x \in s : TRUE}]]

\* Numbers can be added up.
LEMMA SumExists ==
  ASSUME NEW S, IsFiniteSet(S), NEW size \in [S -> Nat]
  PROVE  \E f, choose : /\ SumsUp(f, S, size, choose)
                        /\ \A s \in SUBSET S : choose[s] = CHOOSE x \in s : TRUE
<1> DEFINE choose == [s \in SUBSET S |-> CHOOSE x \in s : TRUE]
           op     == [x \in S |-> [v \in Nat |-> size[x] + v]]
<1>1. op \in [S -> [Nat -> Nat]] /\ \A x \in S, v \in Nat : op[x][v] = size[x] + v
  OBVIOUS
<1>2. \A s \in SUBSET S : choose[s] = (CHOOSE x \in s : TRUE) /\ (s # {} => choose[s] \in s)
  OBVIOUS
<1> HIDE DEF choose, op
<1>3. PICK f \in [SUBSET S -> Nat] : Recurses(f, S, 0, choose, op)
  <2>1. PICK V : V = Nat
    OBVIOUS
  <2>2. op \in [S -> [V -> V]] /\ 0 \in V /\ \A s \in SUBSET S : s # {} => choose[s] \in s
    BY <1>1, <1>2, <2>1
  <2>3. \E f \in [SUBSET S -> V] : Recurses(f, S, 0, choose, op)
    BY <2>2, RecursionExists
  <2> QED
    BY <2>1, <2>3
<1>4. f[{}] = 0
  <2>1. {} \in SUBSET S
    OBVIOUS
  <2> QED
    BY <1>3, <2>1 DEF Recurses
<1>5. ASSUME NEW s \in SUBSET S, s # {} PROVE f[s] = size[choose[s]] + f[s \ {choose[s]}]
  <2>1. f[s] = op[choose[s]][f[s \ {choose[s]}]]
    BY <1>3, <1>5 DEF Recurses
  <2>2. choose[s] \in S /\ f[s \ {choose[s]}] \in Nat
    BY <1>2, <1>5
  <2> QED
    BY <1>1, <2>1, <2>2
<1>6. SumsUp(f, S, size, choose)
  BY <1>2, <1>4, <1>5 DEF SumsUp
<1> QED
  BY <1>2, <1>6

\* Whatever adds up some of them adds up to the same.
LEMMA SumUnique ==
  ASSUME NEW S, IsFiniteSet(S), NEW size, NEW choose, NEW f, SumsUp(f, S, size, choose),
         \A s \in SUBSET S : choose[s] = CHOOSE x \in s : TRUE,
         NEW T \in SUBSET S, NEW g, AddsUp(g, T, size)
  PROVE  g[T] = f[T]
<1> DEFINE Bad == {s \in SUBSET T : g[s] # f[s]}
<1>1. SUFFICES ASSUME Bad # {} PROVE FALSE
  <2>1. T \in SUBSET T
    OBVIOUS
  <2> QED
    BY <2>1
<1>2. PICK s \in Bad : \A r \in Bad : r \subseteq s => r = s
  <2>1. PICK R : R = S
    OBVIOUS
  <2>2. Bad \in SUBSET SUBSET R /\ Bad # {} /\ IsFiniteSet(R)
    BY <1>1, <2>1
  <2> HIDE DEF Bad
  <2> QED
    BY <2>2, MinimalSubset
<1>3. s \in SUBSET T /\ s \in SUBSET S /\ g[s] # f[s]
  BY <1>2
<1>4. s # {}
  BY <1>3 DEF SumsUp, AddsUp
<1>5. choose[s] \in s /\ choose[s] = CHOOSE x \in s : TRUE
  BY <1>3, <1>4
<1>6. PICK c, r : c = choose[s] /\ r = s \ {c}
  OBVIOUS
<1>7. r \in SUBSET T /\ r \subseteq s /\ r # s
  BY <1>3, <1>5, <1>6
<1>8. g[r] = f[r]
  BY <1>2, <1>7
<1>9. f[s] = size[c] + f[r]
  BY <1>3, <1>4, <1>6 DEF SumsUp
<1>10. g[s] = size[c] + g[r]
  BY <1>3, <1>4, <1>5, <1>6 DEF AddsUp
<1> QED
  BY <1>3, <1>8, <1>9, <1>10

\* There is something that adds them up.
LEMMA AddsUpExists ==
  ASSUME NEW S, IsFiniteSet(S), NEW size \in [S -> Nat], NEW T \in SUBSET S
  PROVE  \E g : AddsUp(g, T, size)
<1>1. PICK f, choose : SumsUp(f, S, size, choose) /\ \A s \in SUBSET S : choose[s] = CHOOSE x \in s : TRUE
  BY SumExists
<1> DEFINE g == [s \in SUBSET T |-> f[s]]
<1>2. ASSUME NEW s \in SUBSET T
      PROVE  g[s] = IF s = {} THEN 0 ELSE size[CHOOSE x \in s : TRUE] + g[s \ {CHOOSE x \in s : TRUE}]
  <2>1. g[s] = f[s] /\ s \in SUBSET S
    OBVIOUS
  <2>2. CASE s = {}
    BY <1>1, <2>1, <2>2 DEF SumsUp
  <2>3. CASE s # {}
    <3>1. PICK c : c = CHOOSE x \in s : TRUE
      OBVIOUS
    <3>2. c = choose[s] /\ f[s] = size[c] + f[s \ {c}]
      BY <1>1, <2>1, <2>3, <3>1 DEF SumsUp
    <3>3. g[s \ {c}] = f[s \ {c}]
      OBVIOUS
    <3> HIDE DEF g
    <3> QED
      BY <2>1, <2>3, <3>1, <3>2, <3>3
  <2> QED
    BY <2>2, <2>3
<1>3. g = [s \in SUBSET T |-> g[s]]
  OBVIOUS
<1> HIDE DEF g
<1>4. AddsUp(g, T, size)
  BY <1>2, <1>3 DEF AddsUp
<1> QED
  BY <1>4

\* What a sum is.
LEMMA SumOfSums ==
  ASSUME NEW S, IsFiniteSet(S), NEW size \in [S -> Nat]
  PROVE  \E f, choose : SumsUp(f, S, size, choose) /\ \A T \in SUBSET S : SumOf(size, T) = f[T]
<1>1. PICK f, choose : SumsUp(f, S, size, choose) /\ \A s \in SUBSET S : choose[s] = CHOOSE x \in s : TRUE
  BY SumExists
<1>2. ASSUME NEW T \in SUBSET S PROVE SumOf(size, T) = f[T]
  <2> DEFINE total == CHOOSE g : AddsUp(g, T, size)
  <2>1. SumOf(size, T) = total[T]
    BY DEF SumOf, MapThenSumSet, MapThenFoldSet, AddsUp
  <2>2. AddsUp(total, T, size)
    BY AddsUpExists
  <2> HIDE DEF total
  <2> QED
    BY <1>1, <2>1, <2>2, SumUnique
<1> QED
  BY <1>1, <1>2

\* What adds some numbers up is their sum.
LEMMA SumOfUnique ==
  ASSUME NEW S, IsFiniteSet(S), NEW size \in [S -> Nat], NEW T \in SUBSET S, NEW g, AddsUp(g, T, size)
  PROVE  g[T] = SumOf(size, T)
<1> DEFINE total == CHOOSE h : AddsUp(h, T, size)
<1>1. SumOf(size, T) = total[T]
  BY DEF SumOf, MapThenSumSet, MapThenFoldSet, AddsUp
<1>2. AddsUp(total, T, size)
  BY AddsUpExists
<1> HIDE DEF total
<1>3. PICK f, choose : SumsUp(f, S, size, choose) /\ \A s \in SUBSET S : choose[s] = CHOOSE x \in s : TRUE
  BY SumExists
<1> QED
  BY <1>1, <1>2, <1>3, SumUnique

\* A sum grows by what is added to it.
LEMMA SumOfSteps ==
  ASSUME NEW S, IsFiniteSet(S), NEW size \in [S -> Nat]
  PROVE  /\ SumOf(size, {}) = 0
         /\ \A T \in SUBSET S : SumOf(size, T) \in Nat
         /\ \A T \in SUBSET S : \A x \in S \ T : SumOf(size, T \cup {x}) = size[x] + SumOf(size, T)
<1>1. PICK f, choose : SumsUp(f, S, size, choose) /\ \A T \in SUBSET S : SumOf(size, T) = f[T]
  BY SumOfSums
<1>2. SumOf(size, {}) = 0 /\ \A T \in SUBSET S : SumOf(size, T) \in Nat
  BY <1>1 DEF SumsUp
<1>3. ASSUME NEW T \in SUBSET S, NEW x \in S \ T PROVE SumOf(size, T \cup {x}) = size[x] + SumOf(size, T)
  <2>1. PICK U : U = T \cup {x}
    OBVIOUS
  <2>2. U \in SUBSET S /\ x \in U /\ U \ {x} = T
    BY <2>1
  <2>3. f[U] = size[x] + f[U \ {x}]
    BY <1>1, <2>2, SumTakes
  <2> QED
    BY <1>1, <2>1, <2>2, <2>3
<1> QED
  BY <1>2, <1>3

\* Adding up ones counts.
LEMMA SumOfCounts ==
  ASSUME NEW S, IsFiniteSet(S), NEW size \in [S -> Nat],
         NEW W, \A x \in S : size[x] = IF x \in W THEN 1 ELSE 0
  PROVE  \A T \in SUBSET S : SumOf(size, T) = Cardinality(T \cap W)
<1> DEFINE Bad == {T \in SUBSET S : SumOf(size, T) # Cardinality(T \cap W)}
<1>1. SUFFICES ASSUME Bad # {} PROVE FALSE
  OBVIOUS
<1>2. PICK T \in Bad : \A U \in Bad : U \subseteq T => U = T
  <2>1. Bad \in SUBSET SUBSET S
    OBVIOUS
  <2> HIDE DEF Bad
  <2> QED
    BY <1>1, <2>1, MinimalSubset
<1>3. T \in SUBSET S /\ SumOf(size, T) # Cardinality(T \cap W)
  BY <1>2
<1>4. CASE T = {}
  <2>1. T \cap W = {} /\ SumOf(size, T) = 0
    BY <1>4, SumOfSteps
  <2> QED
    BY <1>3, <2>1, FS_EmptySet
<1>5. CASE T # {}
  <2>1. PICK x \in T : TRUE
    BY <1>5
  <2>2. PICK R : R = T \ {x}
    OBVIOUS
  <2>3. R \in SUBSET S /\ R \subseteq T /\ R # T /\ x \in S \ R /\ T = R \cup {x}
    BY <1>3, <2>1, <2>2
  <2>4. SumOf(size, R) = Cardinality(R \cap W)
    BY <1>2, <2>3
  <2>5. SumOf(size, T) = size[x] + SumOf(size, R)
    BY <2>3, SumOfSteps
  <2>6. PICK V : V = R \cap W
    OBVIOUS
  <2>7. IsFiniteSet(V) /\ Cardinality(V) \in Nat
    <3>1. V \in SUBSET S
      BY <2>3, <2>6
    <3> QED
      BY <3>1, FS_Subset, FS_CardinalityType
  <2>8. CASE x \in W
    <3>1. T \cap W = V \cup {x} /\ x \notin V
      BY <2>3, <2>6, <2>8
    <3>2. Cardinality(V \cup {x}) = Cardinality(V) + 1
      BY <2>7, <3>1, FS_AddElement
    <3>3. size[x] = 1
      BY <2>3, <2>8
    <3>4. Cardinality(T \cap W) = Cardinality(V) + 1
      BY <3>1, <3>2
    <3>5. SumOf(size, T) = 1 + Cardinality(V)
      BY <2>4, <2>5, <2>6, <3>3
    <3> QED
      BY <1>3, <2>7, <3>4, <3>5
  <2>9. CASE x \notin W
    <3>1. T \cap W = V
      BY <2>3, <2>6, <2>9
    <3>2. size[x] = 0
      BY <2>3, <2>9
    <3>3. SumOf(size, T) = 0 + Cardinality(V)
      BY <2>4, <2>5, <2>6, <3>2
    <3>4. Cardinality(T \cap W) = Cardinality(V)
      BY <3>1
    <3> QED
      BY <1>3, <2>7, <3>3, <3>4
  <2> QED
    BY <2>8, <2>9
<1> QED
  BY <1>4, <1>5

COROLLARY SumOfOnes ==
  ASSUME NEW S, IsFiniteSet(S), NEW size \in [S -> Nat], \A x \in S : size[x] = 1
  PROVE  \A T \in SUBSET S : SumOf(size, T) = Cardinality(T)
<1>1. PICK W : W = S
  OBVIOUS
<1>2. \A x \in S : size[x] = IF x \in W THEN 1 ELSE 0
  BY <1>1
<1>3. \A T \in SUBSET S : SumOf(size, T) = Cardinality(T \cap W)
  BY <1>2, SumOfCounts
<1>4. \A T \in SUBSET S : T \cap W = T
  BY <1>1
<1> QED
  BY <1>3, <1>4

\* What is so of every number is so of the sums.
LEMMA SumOfBounds ==
  ASSUME NEW S, IsFiniteSet(S), NEW a \in [S -> Nat], NEW b \in [S -> Nat], NEW c \in [S -> Nat],
         \A x \in S : a[x] + b[x] <= c[x]
  PROVE  \A T \in SUBSET S : SumOf(a, T) + SumOf(b, T) <= SumOf(c, T)
<1> DEFINE Bad == {T \in SUBSET S : ~(SumOf(a, T) + SumOf(b, T) <= SumOf(c, T))}
<1>1. SUFFICES ASSUME Bad # {} PROVE FALSE
  OBVIOUS
<1>2. PICK T \in Bad : \A U \in Bad : U \subseteq T => U = T
  <2>1. Bad \in SUBSET SUBSET S
    OBVIOUS
  <2> HIDE DEF Bad
  <2> QED
    BY <1>1, <2>1, MinimalSubset
<1>3. T \in SUBSET S /\ ~(SumOf(a, T) + SumOf(b, T) <= SumOf(c, T))
  BY <1>2
<1>4. CASE T = {}
  <2>1. SumOf(a, T) = 0 /\ SumOf(b, T) = 0 /\ SumOf(c, T) = 0
    BY <1>4, SumOfSteps
  <2> QED
    BY <1>3, <2>1
<1>5. CASE T # {}
  <2>1. PICK x \in T : TRUE
    BY <1>5
  <2>2. PICK R : R = T \ {x}
    OBVIOUS
  <2>3. R \in SUBSET S /\ R \subseteq T /\ R # T /\ x \in S /\ x \in S \ R /\ T = R \cup {x}
    BY <1>3, <2>1, <2>2
  <2>4. SumOf(a, R) + SumOf(b, R) <= SumOf(c, R)
    BY <1>2, <2>3
  <2>5. SumOf(a, T) = a[x] + SumOf(a, R) /\ SumOf(a, R) \in Nat
    BY <2>3, SumOfSteps
  <2>6. SumOf(b, T) = b[x] + SumOf(b, R) /\ SumOf(b, R) \in Nat
    BY <2>3, SumOfSteps
  <2>7. SumOf(c, T) = c[x] + SumOf(c, R) /\ SumOf(c, R) \in Nat
    BY <2>3, SumOfSteps
  <2>8. a[x] + b[x] <= c[x] /\ a[x] \in Nat /\ b[x] \in Nat /\ c[x] \in Nat
    BY <2>3
  <2> QED
    BY <1>3, <2>4, <2>5, <2>6, <2>7, <2>8
<1> QED
  BY <1>4, <1>5

\* The sums of the parts of a set, by kinds, make the sum of the parts.
LEMMA SumOfParts ==
  ASSUME NEW S, IsFiniteSet(S), NEW size \in [S -> Nat], NEW kind,
         NEW K, IsFiniteSet(K), NEW part \in [K -> Nat],
         \A k \in K : part[k] = SumOf(size, {x \in S : kind[x] = k})
  PROVE  \A L \in SUBSET K : SumOf(part, L) = SumOf(size, {x \in S : kind[x] \in L})
<1> DEFINE Bad == {L \in SUBSET K : SumOf(part, L) # SumOf(size, {x \in S : kind[x] \in L})}
<1>1. SUFFICES ASSUME Bad # {} PROVE FALSE
  OBVIOUS
<1>2. PICK L \in Bad : \A M \in Bad : M \subseteq L => M = L
  <2>1. Bad \in SUBSET SUBSET K
    OBVIOUS
  <2> HIDE DEF Bad
  <2> QED
    BY <1>1, <2>1, MinimalSubset
<1>3. L \in SUBSET K /\ SumOf(part, L) # SumOf(size, {x \in S : kind[x] \in L})
  BY <1>2
<1>4. CASE L = {}
  <2>1. {x \in S : kind[x] \in L} = {}
    BY <1>4
  <2>2. SumOf(size, {}) = 0 /\ SumOf(part, {}) = 0
    BY SumOfSteps
  <2> QED
    BY <1>3, <1>4, <2>1, <2>2
<1>5. CASE L # {}
  <2>1. PICK k \in L : TRUE
    BY <1>5
  <2>2. PICK M : M = L \ {k}
    OBVIOUS
  <2>3. M \in SUBSET K /\ M \subseteq L /\ M # L /\ k \in K /\ k \in K \ M /\ L = M \cup {k}
    BY <1>3, <2>1, <2>2
  <2>4. PICK A, B, C : /\ A = {x \in S : kind[x] \in M} /\ B = {x \in S : kind[x] = k}
                       /\ C = {x \in S : kind[x] \in L}
    OBVIOUS
  <2>5. A \in SUBSET S /\ B \in SUBSET S /\ A \cap B = {} /\ C = A \cup B
    BY <2>3, <2>4
  <2>6. SumOf(part, M) = SumOf(size, A)
    BY <1>2, <2>3, <2>4
  <2>7. SumOf(part, L) = part[k] + SumOf(part, M)
    BY <2>3, SumOfSteps
  <2>8. part[k] = SumOf(size, B)
    BY <2>3, <2>4
  <2>9. PICK f, choose : SumsUp(f, S, size, choose) /\ \A T \in SUBSET S : SumOf(size, T) = f[T]
    BY SumOfSums
  <2>10. f[A \cup B] = f[A] + f[B]
    BY <2>5, <2>9, SumSplits
  <2>11. f[A] \in Nat /\ f[B] \in Nat
    BY <2>5, <2>9 DEF SumsUp
  <2>12. SumOf(size, C) = f[A \cup B] /\ SumOf(size, A) = f[A] /\ SumOf(size, B) = f[B]
    BY <2>5, <2>9
  <2> QED
    BY <1>3, <2>4, <2>6, <2>7, <2>8, <2>10, <2>11, <2>12
<1> QED
  BY <1>4, <1>5
=============================================================================
