-------------------------- MODULE ExternalTypesProofs --------------------------
(***************************************************************************)
(* Theorems about ExternalTypes, for every list of references, every       *)
(* registry that satisfies RegistryAssumption, all budgets and all faults: *)
(* a load stays within its bounds, and the batch merges what was loaded.   *)
(***************************************************************************)
EXTENDS ExternalTypes, FoldTheorems

\* The total of some files' sizes is a sum: it splits and is bounded as sums are.
LEMMA TotalSums ==
  ASSUME NEW S, IsFiniteSet(S), NEW sizes \in [S -> Nat]
  PROVE  \E f, choose : /\ SumsUp(f, S, sizes, choose)
                        /\ \A T \in SUBSET S : Total(sizes, T) = f[T]
<1> DEFINE choose == [s \in SUBSET S |-> CHOOSE x \in s : TRUE]
           op     == [x \in S |-> [v \in Nat |-> v + sizes[x]]]
<1>1. op \in [S -> [Nat -> Nat]] /\ \A x \in S, v \in Nat : op[x][v] = v + sizes[x]
  OBVIOUS
<1>2. \A s \in SUBSET S : choose[s] = (CHOOSE x \in s : TRUE) /\ (s # {} => choose[s] \in s)
  OBVIOUS
<1> HIDE DEF choose, op
<1>3. PICK f \in [SUBSET S -> Nat] : Recurses(f, S, 0, choose, op)
  <2>1. PICK V : V = Nat
    OBVIOUS
  <2>2. op \in [S -> [V -> V]] /\ 0 \in V /\ \A s \in SUBSET S : s # {} => choose[s] \in s
    BY <1>1, <1>2, <2>1
  <2>3. \E f \in [SUBSET S -> V] : Recurses(f, S, 0, choose, op)
    BY <2>2, RecursionExists
  <2> QED
    BY <2>1, <2>3
<1>4. /\ f[{}] = 0
      /\ \A s \in SUBSET S : s # {} => f[s] = f[s \ {choose[s]}] + sizes[choose[s]]
  <2>1. {} \in SUBSET S
    OBVIOUS
  <2>2. f[{}] = 0
    BY <1>3, <2>1 DEF Recurses
  <2>3. ASSUME NEW s \in SUBSET S, s # {} PROVE f[s] = f[s \ {choose[s]}] + sizes[choose[s]]
    <3>1. f[s] = op[choose[s]][f[s \ {choose[s]}]]
      BY <1>3, <2>3 DEF Recurses
    <3>2. choose[s] \in S /\ f[s \ {choose[s]}] \in Nat
      BY <1>2, <2>3
    <3> QED
      BY <1>1, <3>1, <3>2
  <2> QED
    BY <2>2, <2>3
<1>5. SumsUp(f, S, sizes, choose)
  BY <1>2, <1>4 DEF SumsUp
<1>6. ASSUME NEW T \in SUBSET S PROVE Total(sizes, T) = f[T]
  <2> DEFINE Folds(g) == g = [s \in SUBSET T |-> IF s = {} THEN 0
                             ELSE g[s \ {CHOOSE x \in s : TRUE}] + sizes[CHOOSE x \in s : TRUE]]
             total == CHOOSE g : Folds(g)
  <2>1. Total(sizes, T) = total[T]
    BY DEF Total, FoldSet, MapThenFoldSet
  <2>2. Folds([s \in SUBSET T |-> f[s]])
    <3>1. ASSUME NEW s \in SUBSET T
          PROVE  f[s] = IF s = {} THEN 0
                        ELSE f[s \ {CHOOSE x \in s : TRUE}] + sizes[CHOOSE x \in s : TRUE]
      BY <1>2, <1>4
    <3> QED
      BY <3>1
  <2>3. PICK t : t = total /\ Folds(t)
    <3>1. \E g : Folds(g)
      BY <2>2
    <3> HIDE DEF Folds
    <3> QED
      BY <3>1
  <2> HIDE DEF total
  <2>4. \A s \in SUBSET T : t[s] = IF s = {} THEN 0 ELSE t[s \ {choose[s]}] + sizes[choose[s]]
    BY <1>2, <2>3
  <2> HIDE DEF Folds
  <2> DEFINE Bad == {s \in SUBSET T : t[s] # f[s]}
  <2>5. CASE Bad = {}
    <3>1. T \in SUBSET T
      OBVIOUS
    <3> QED
      BY <2>1, <2>3, <2>5, <3>1
  <2>6. CASE Bad # {}
    <3>1. PICK s \in Bad : \A r \in Bad : r \subseteq s => r = s
      <4>1. PICK R : R = S
        OBVIOUS
      <4>2. Bad \in SUBSET SUBSET R /\ Bad # {} /\ IsFiniteSet(R)
        BY <2>6, <4>1
      <4> HIDE DEF Bad
      <4> QED
        BY <4>2, MinimalSubset
    <3>2. s \in SUBSET T /\ t[s] # f[s]
      BY <3>1
    <3>3. s # {}
      BY <1>4, <2>4, <3>2
    <3>4. choose[s] \in s
      BY <1>2, <3>2, <3>3
    <3>5. s \ {choose[s]} \in SUBSET T /\ s \ {choose[s]} \notin Bad
      BY <3>1, <3>2, <3>4
    <3>6. t[s \ {choose[s]}] = f[s \ {choose[s]}]
      BY <3>5
    <3> QED
      BY <1>4, <2>4, <3>2, <3>3, <3>6
  <2> QED
    BY <2>5, <2>6
<1> QED
  BY <1>5, <1>6

--------------------------------------------------------------------------------
(* What a load holds at each stage. *)

Stages == {"waiting", "versions", "dropped", "pinned", "loaded", "failed"} \cup Loading
Wait   == [at : {"queued", "sent", "body", "done"}, tries : 0 .. Retries]

Shape ==
  /\ DOMAIN load = Packages
  /\ \A n \in Packages :
       /\ load[n] = [stage |-> load[n].stage, version |-> load[n].version, req |-> load[n].req]
       /\ load[n].stage \in Stages
       /\ load[n].req \in [DOMAIN load[n].req -> Wait]

\* The requests of a load are those of its stage.
Asks(n) ==
  DOMAIN load[n].req =
    CASE load[n].stage = "versions" -> {"versions"}
      [] load[n].stage = "manifest" -> {"manifest"}
      [] load[n].stage = "tree" -> {"tree"}
      [] load[n].stage = "files" -> DOMAIN FilesOf(n)
      [] OTHER -> {}

\* What has been answered is there.
Known(n) ==
  /\ load[n].stage = "versions" /\ Request(n, "versions").at = "body" => asked[n].name \in DOMAIN Published
  /\ load[n].stage \in {"pinned"} \cup Loading => asked[n].name \in DOMAIN Published
  /\ load[n].stage = "manifest" /\ Request(n, "manifest").at = "body"
       => load[n].version \in DOMAIN Tree[asked[n].name]
  /\ load[n].stage \in {"tree", "files", "commit"} => load[n].version \in DOMAIN Tree[asked[n].name]

\* What a load keeps is within the budget, and no more is under way than may be.
Within(n) ==
  /\ load[n].stage = "files" =>
       /\ DOMAIN FilesOf(n) # {}
       /\ Cardinality(InFlight(n)) <= FileSlots
       /\ Total(Size(n), Arrived(n)) <= MaxBytes
  /\ load[n].stage = "commit" => Total(Size(n), DOMAIN Size(n)) <= MaxBytes

LoadInv == Shape /\ \A n \in Packages : Asks(n) /\ Known(n) /\ Within(n)

\* The files of a load whose tree is known.
LEMMA FilesKnown ==
  ASSUME Shape, NEW n \in Packages, Known(n), load[n].stage \in {"tree", "files", "commit"}
  PROVE  /\ IsFiniteSet(DOMAIN FilesOf(n)) /\ DOMAIN FilesOf(n) \cap {"versions", "manifest", "tree"} = {}
         /\ Size(n) \in [DOMAIN FilesOf(n) -> Nat]
<1>1. asked[n].name \in DOMAIN Tree /\ load[n].version \in DOMAIN Tree[asked[n].name]
  BY RegistryAssumption DEF Known, Loading
<1> QED
  BY <1>1, RegistryAssumption DEF FilesOf, Size

\* No files have no size.
LEMMA EmptyTotal ==
  ASSUME NEW S, IsFiniteSet(S), NEW sizes \in [S -> Nat]
  PROVE  Total(sizes, {}) = 0
<1>1. PICK f, choose : SumsUp(f, S, sizes, choose) /\ \A T \in SUBSET S : Total(sizes, T) = f[T]
  BY TotalSums
<1>2. {} \in SUBSET S
  OBVIOUS
<1>3. f[{}] = 0
  BY <1>1 DEF SumsUp
<1> QED
  BY <1>1, <1>2, <1>3

\* What has been received and is being received exceeds the budget by no more
\* than what may be under way.
LEMMA Overdraft ==
  ASSUME Shape, NEW n \in Packages, Known(n), Asks(n), Within(n), load[n].stage = "files"
  PROVE  Total(Size(n), Arrived(n) \cup InFlight(n))
           <= MaxBytes + FileSlots * Max({Size(n)[f] : f \in DOMAIN Size(n)})
<1> DEFINE S == DOMAIN FilesOf(n)
           A == Arrived(n)
           B == InFlight(n)
           m == Max({Size(n)[f] : f \in DOMAIN Size(n)})
<1>1. IsFiniteSet(S) /\ S # {} /\ Size(n) \in [S -> Nat]
  BY FilesKnown DEF Within
<1>2. A \in SUBSET S /\ B \in SUBSET S /\ A \cap B = {}
  BY DEF Asks, Arrived, InFlight, Request
<1>3. PICK f, choose : SumsUp(f, S, Size(n), choose) /\ \A T \in SUBSET S : Total(Size(n), T) = f[T]
  BY <1>1, TotalSums
<1>4. m \in Nat /\ \A x \in S : Size(n)[x] <= m
  <2> DEFINE sizes == {Size(n)[x] : x \in S}
  <2>1. PICK N : N = sizes
    OBVIOUS
  <2>2. IsFiniteSet(N)
    <3>1. Size(n) \in Surjection(S, N)
      BY <1>1, <2>1 DEF Surjection
    <3> QED
      BY <1>1, <3>1, FS_Surjection
  <2>3. N \in SUBSET Int /\ N # {} /\ N \subseteq Nat /\ \A x \in S : Size(n)[x] \in N
    BY <1>1, <2>1
  <2>4. Max(N) \in N /\ \A y \in N : y <= Max(N)
    BY <2>2, <2>3, MaxOfFinite
  <2>5. m = Max(N)
    BY <1>1, <2>1
  <2> QED
    BY <2>3, <2>4, <2>5
<1> HIDE DEF S, A, B, m
<1>5. f[A \cup B] = f[A] + f[B]
  BY <1>1, <1>2, <1>3, SumSplits
<1>6. f[B] <= Cardinality(B) * m
  BY <1>1, <1>2, <1>3, <1>4, SumBounded
<1>7. Total(Size(n), A \cup B) = f[A \cup B] /\ Total(Size(n), A) = f[A]
  BY <1>2, <1>3
<1>8. f[A] \in Nat /\ f[B] \in Nat /\ Cardinality(B) \in Nat
  <2>1. IsFiniteSet(B)
    BY <1>1, <1>2, FS_Subset
  <2> QED
    BY <1>2, <1>3, <2>1, FS_CardinalityType DEF SumsUp
<1>9. f[A] <= MaxBytes /\ Cardinality(B) <= FileSlots
  BY <1>7 DEF Within, A, B
<1>10. MaxBytes \in Nat /\ FileSlots \in Nat
  BY BoundsAssumption
<1>11. Cardinality(B) * m <= FileSlots * m
  BY <1>4, <1>8, <1>9, <1>10
<1>12. Cardinality(B) * m \in Nat /\ FileSlots * m \in Nat
  BY <1>4, <1>8, <1>10
<1> QED
  BY <1>5, <1>6, <1>7, <1>8, <1>9, <1>10, <1>11, <1>12 DEF A, B, m

--------------------------------------------------------------------------------
(* What one step does to a load. *)

\* A load whose record is left alone keeps what it has.
LEMMA KeptWhole ==
  ASSUME NEW k, asked' = asked, load'[k] = load[k], Asks(k), Known(k), Within(k)
  PROVE  (Asks(k) /\ Known(k) /\ Within(k))'
<1>1. FilesOf(k)' = FilesOf(k)
  BY DEF FilesOf
<1>2. Size(k)' = Size(k)
  BY <1>1 DEF Size
<1>3. InFlight(k)' = InFlight(k) /\ Arrived(k)' = Arrived(k)
  BY DEF InFlight, Arrived, Request
<1>4. Asks(k)'
  BY <1>1 DEF Asks
<1>5. Known(k)'
  BY DEF Known, Request
<1>6. Within(k)'
  BY <1>1, <1>2, <1>3 DEF Within
<1> QED
  BY <1>4, <1>5, <1>6

\* A load that moves on has what its stage asks for.
LEMMA ToSets ==
  ASSUME Shape, NEW n \in Packages, NEW stage, NEW names, To(n, stage, names)
  PROVE  /\ DOMAIN load' = Packages
         /\ load'[n] = [stage |-> stage, version |-> load[n].version, req |-> Requests(names)]
         /\ \A k \in Packages \ {n} : load'[k] = load[k]
<1>1. load[n] = [stage |-> load[n].stage, version |-> load[n].version, req |-> load[n].req]
      /\ DOMAIN load = Packages
  BY DEF Shape
<1>2. PICK q : q = Requests(names)
  OBVIOUS
<1>3. load' = [load EXCEPT ![n] = [load[n] EXCEPT !.stage = stage, !.req = q]]
  BY <1>2 DEF To
<1>4. [load[n] EXCEPT !.stage = stage, !.req = q] = [stage |-> stage, version |-> load[n].version, req |-> q]
  <2>1. PICK e : e = load[n]
    OBVIOUS
  <2>2. e = [stage |-> e.stage, version |-> e.version, req |-> e.req]
    BY <1>1, <2>1
  <2>3. [e EXCEPT !.stage = stage] = [stage |-> stage, version |-> e.version, req |-> e.req]
    BY <2>2
  <2>4. [e EXCEPT !.stage = stage, !.req = q] = [stage |-> stage, version |-> e.version, req |-> q]
    <3>1. PICK d : d = [e EXCEPT !.stage = stage, !.req = q]
      OBVIOUS
    <3>2. DOMAIN d = {"stage", "version", "req"} /\ d = [x \in {"stage", "version", "req"} |-> d[x]]
      BY <2>2, <3>1
    <3>3. d.stage = stage /\ d.version = e.version /\ d.req = q
      BY <2>2, <3>1
    <3> QED
      BY <3>1, <3>2, <3>3
  <2> QED
    BY <2>1, <2>4
<1> QED
  BY <1>1, <1>2, <1>3, <1>4

\* A load one of whose requests goes on keeps the others.
LEMMA PutSets ==
  ASSUME Shape, NEW n \in Packages, NEW w \in DOMAIN load[n].req, NEW r, Put(n, w, r)
  PROVE  /\ DOMAIN load' = Packages
         /\ load'[n] = [stage |-> load[n].stage, version |-> load[n].version,
                        req |-> [load[n].req EXCEPT ![w] = r]]
         /\ \A k \in Packages \ {n} : load'[k] = load[k]
<1>1. load[n] = [stage |-> load[n].stage, version |-> load[n].version, req |-> load[n].req]
      /\ DOMAIN load = Packages
  BY DEF Shape
<1>2. load' = [load EXCEPT ![n] = [load[n] EXCEPT !.req = [load[n].req EXCEPT ![w] = r]]]
  BY DEF Put
<1>3. PICK q : q = [load[n].req EXCEPT ![w] = r]
  OBVIOUS
<1>4. [load[n] EXCEPT !.req = q] = [stage |-> load[n].stage, version |-> load[n].version, req |-> q]
  BY <1>1
<1> QED
  BY <1>1, <1>2, <1>3, <1>4

\* Moving a load on keeps the invariant, when the next stage may begin.
LEMMA MoveKeeps ==
  ASSUME LoadInv, asked' = asked, NEW n \in Packages, NEW stage \in Stages, NEW names,
         To(n, stage, names),
         names = CASE stage = "versions" -> {"versions"}
                   [] stage = "manifest" -> {"manifest"}
                   [] stage = "tree" -> {"tree"}
                   [] stage = "files" -> DOMAIN FilesOf(n)
                   [] OTHER -> {},
         stage \in {"pinned"} \cup Loading => asked[n].name \in DOMAIN Published,
         stage \in {"tree", "files", "commit"} => load[n].version \in DOMAIN Tree[asked[n].name],
         stage = "files" => DOMAIN FilesOf(n) # {},
         stage = "commit" => Total(Size(n), DOMAIN Size(n)) <= MaxBytes
  PROVE  LoadInv'
<1> DEFINE q == Requests(names)
<1>1. /\ DOMAIN load' = Packages
      /\ load'[n] = [stage |-> stage, version |-> load[n].version, req |-> q]
      /\ \A k \in Packages \ {n} : load'[k] = load[k]
  BY ToSets DEF LoadInv
<1>2. Packages' = Packages
  BY DEF Packages
<1>3. q = [w \in names |-> [at |-> "queued", tries |-> 0]]
  BY DEF Requests
<1>4. q \in [names -> Wait] /\ DOMAIN q = names /\ \A w \in names : q[w].at = "queued"
  <2>1. 0 \in 0 .. Retries
    BY BoundsAssumption
  <2> QED
    BY <1>3, <2>1 DEF Wait
<1> HIDE DEF q
<1>5. load'[n].stage = stage /\ load'[n].version = load[n].version /\ load'[n].req = q
  BY <1>1
<1>6. Shape'
  <2>1. ASSUME NEW k \in Packages
        PROVE  /\ load'[k] = [stage |-> load'[k].stage, version |-> load'[k].version, req |-> load'[k].req]
               /\ load'[k].stage \in Stages
               /\ load'[k].req \in [DOMAIN load'[k].req -> Wait]
    <3>1. CASE k = n
      BY <1>1, <1>4, <1>5, <3>1
    <3>2. CASE k # n
      BY <1>1, <3>2 DEF LoadInv, Shape
    <3> QED
      BY <3>1, <3>2
  <2> QED
    BY <1>1, <1>2, <2>1 DEF Shape
<1>7. FilesOf(n)' = FilesOf(n)
  BY <1>5 DEF FilesOf
<1>8. Size(n)' = Size(n)
  BY <1>7 DEF Size
<1>9. Asks(n)'
  BY <1>4, <1>5, <1>7 DEF Asks
<1>10. Known(n)'
  <2>1. stage = "versions" => load'[n].req["versions"].at # "body"
    BY <1>4, <1>5
  <2>2. stage = "manifest" => load'[n].req["manifest"].at # "body"
    BY <1>4, <1>5
  <2> QED
    BY <1>5, <2>1, <2>2 DEF Known, Request
<1>11. Within(n)'
  <2>1. InFlight(n)' = {} /\ Arrived(n)' = {}
    BY <1>4, <1>5 DEF InFlight, Arrived, Request
  <2>2. stage = "files" => Total(Size(n), {}) = 0
    <3>1. ASSUME stage = "files"
          PROVE  IsFiniteSet(DOMAIN FilesOf(n)) /\ Size(n) \in [DOMAIN FilesOf(n) -> Nat]
      <4>1. asked[n].name \in DOMAIN Tree /\ load[n].version \in DOMAIN Tree[asked[n].name]
        BY <3>1, RegistryAssumption DEF Loading
      <4> QED
        BY <4>1, RegistryAssumption DEF FilesOf, Size
    <3> QED
      BY <3>1, EmptyTotal
  <2>3. (stage = "files" =>
           /\ DOMAIN FilesOf(n) # {}
           /\ Cardinality(InFlight(n)) <= FileSlots
           /\ Total(Size(n), Arrived(n)) <= MaxBytes)'
    BY <1>5, <1>7, <1>8, <2>1, <2>2, FS_EmptySet, BoundsAssumption
  <2>4. (stage = "commit" => Total(Size(n), DOMAIN Size(n)) <= MaxBytes)'
    BY <1>8
  <2> QED
    BY <1>5, <2>3, <2>4 DEF Within
<1>12. ASSUME NEW k \in Packages PROVE (Asks(k) /\ Known(k) /\ Within(k))'
  <2>1. CASE k = n
    BY <1>9, <1>10, <1>11, <2>1
  <2>2. CASE k # n
    BY <1>1, <2>2, KeptWhole DEF LoadInv
  <2> QED
    BY <2>1, <2>2
<1> QED
  BY <1>2, <1>6, <1>12 DEF LoadInv

\* Giving a load up keeps the invariant.
LEMMA GiveUpKeeps ==
  ASSUME LoadInv, asked' = asked, NEW n \in Packages, GiveUp(n)
  PROVE  LoadInv'
<1>1. PICK stage : stage = IF load[n].stage = "versions" THEN "dropped" ELSE "failed"
  OBVIOUS
<1>2. To(n, stage, {})
  BY <1>1 DEF GiveUp
<1>3. stage \in {"dropped", "failed"}
  BY <1>1
<1> QED
  BY <1>2, <1>3, MoveKeeps DEF Stages, Loading

\* A request that goes on keeps the invariant, when what it is told is there and
\* what it brings is within the budget.
LEMMA PutKeeps ==
  ASSUME LoadInv, asked' = asked, NEW n \in Packages, NEW w \in DOMAIN load[n].req, NEW r \in Wait,
         Put(n, w, r),
         r.at = "body" => Exists(n, w),
         load[n].stage = "files" /\ r.at \in {"sent", "body"}
           => Cardinality(InFlight(n) \cup {w}) <= FileSlots,
         load[n].stage = "files" /\ r.at = "done" => Total(Size(n), Arrived(n) \cup {w}) <= MaxBytes,
         r.at # "done" => w \notin Arrived(n),
         r.at # "queued"
  PROVE  LoadInv'
<1>1. PICK q : q = [load[n].req EXCEPT ![w] = r]
  OBVIOUS
<1>2. /\ DOMAIN load' = Packages
      /\ load'[n] = [stage |-> load[n].stage, version |-> load[n].version, req |-> q]
      /\ \A k \in Packages \ {n} : load'[k] = load[k]
  BY <1>1, PutSets DEF LoadInv
<1>3. Packages' = Packages
  BY DEF Packages
<1>4. load[n].req \in [DOMAIN load[n].req -> Wait]
  BY DEF LoadInv, Shape
<1>5. q \in [DOMAIN load[n].req -> Wait] /\ q[w] = r /\ \A x \in DOMAIN load[n].req \ {w} : q[x] = Request(n, x)
  BY <1>1, <1>4 DEF Request
<1>6. load'[n].stage = load[n].stage /\ load'[n].version = load[n].version /\ load'[n].req = q
  BY <1>2
<1>7. Shape'
  <2>1. ASSUME NEW k \in Packages
        PROVE  /\ load'[k] = [stage |-> load'[k].stage, version |-> load'[k].version, req |-> load'[k].req]
               /\ load'[k].stage \in Stages
               /\ load'[k].req \in [DOMAIN load'[k].req -> Wait]
    <3>1. CASE k = n
      BY <1>2, <1>5, <1>6, <3>1 DEF LoadInv, Shape
    <3>2. CASE k # n
      BY <1>2, <3>2 DEF LoadInv, Shape
    <3> QED
      BY <3>1, <3>2
  <2> QED
    BY <1>2, <1>3, <2>1 DEF Shape
<1>8. FilesOf(n)' = FilesOf(n)
  BY <1>6 DEF FilesOf
<1>9. Size(n)' = Size(n)
  BY <1>8 DEF Size
<1>10. DOMAIN q = DOMAIN load[n].req
  BY <1>5
<1>11. Asks(n) /\ Known(n) /\ Within(n)
  BY DEF LoadInv
<1>12. Asks(n)'
  BY <1>6, <1>8, <1>10, <1>11 DEF Asks
<1>13. Known(n)'
  <2>1. load[n].stage = "versions" /\ q["versions"].at = "body" => asked[n].name \in DOMAIN Published
    <3>1. SUFFICES ASSUME load[n].stage = "versions", q["versions"].at = "body"
                   PROVE  asked[n].name \in DOMAIN Published
      OBVIOUS
    <3>2. w = "versions" /\ q["versions"] = r
      BY <1>5, <1>11, <3>1 DEF Asks
    <3> QED
      BY <3>1, <3>2 DEF Exists
  <2>2. load[n].stage = "manifest" /\ q["manifest"].at = "body" => load[n].version \in DOMAIN Tree[asked[n].name]
    <3>1. SUFFICES ASSUME load[n].stage = "manifest", q["manifest"].at = "body"
                   PROVE  load[n].version \in DOMAIN Tree[asked[n].name]
      OBVIOUS
    <3>2. w = "manifest" /\ q["manifest"] = r
      BY <1>5, <1>11, <3>1 DEF Asks
    <3> QED
      BY <3>1, <3>2 DEF Exists
  <2> QED
    BY <1>6, <1>11, <2>1, <2>2 DEF Known, Request
<1>14. Within(n)'
  <2>1. InFlight(n)' = {x \in DOMAIN q : q[x].at \in {"sent", "body"}} /\ Arrived(n)' = {x \in DOMAIN q : q[x].at = "done"}
    BY <1>6 DEF InFlight, Arrived, Request
  <2>2. ASSUME load[n].stage = "files" PROVE Cardinality(InFlight(n)') <= FileSlots /\ Total(Size(n), Arrived(n)') <= MaxBytes
    <3>1. IsFiniteSet(DOMAIN FilesOf(n)) /\ DOMAIN load[n].req = DOMAIN FilesOf(n)
      BY <1>11, <2>2, FilesKnown DEF Asks, LoadInv
    <3>2. Cardinality(InFlight(n)) <= FileSlots /\ Total(Size(n), Arrived(n)) <= MaxBytes
      BY <1>11, <2>2 DEF Within
    <3>3. CASE r.at = "done"
      <4>1. Arrived(n)' = Arrived(n) \cup {w}
        BY <1>5, <1>10, <2>1, <3>3 DEF Arrived
      <4>2. InFlight(n)' \subseteq InFlight(n)
        BY <1>5, <1>10, <2>1, <3>3 DEF InFlight
      <4>3. InFlight(n) \subseteq DOMAIN FilesOf(n)
        BY <3>1 DEF InFlight
      <4>4. PICK B, C : B = InFlight(n) /\ C = InFlight(n)'
        OBVIOUS
      <4>5. IsFiniteSet(B)
        BY <3>1, <4>3, <4>4, FS_Subset
      <4>6. Cardinality(C) <= Cardinality(B) /\ Cardinality(C) \in Nat /\ Cardinality(B) \in Nat
        BY <4>2, <4>4, <4>5, FS_Subset, FS_CardinalityType
      <4>7. Cardinality(C) <= FileSlots
        BY <3>2, <4>4, <4>6, BoundsAssumption
      <4> QED
        BY <2>2, <3>3, <4>1, <4>4, <4>7
    <3>4. CASE r.at \in {"sent", "body"}
      <4>1. Arrived(n)' = Arrived(n)
        BY <1>5, <1>10, <2>1, <3>4 DEF Arrived
      <4>2. InFlight(n)' = InFlight(n) \cup {w}
        BY <1>5, <1>10, <2>1, <3>4 DEF InFlight
      <4> QED
        BY <2>2, <3>2, <3>4, <4>1, <4>2
    <3> QED
      BY <3>3, <3>4 DEF Wait
  <2>3. (load[n].stage = "files" =>
           /\ DOMAIN FilesOf(n) # {}
           /\ Cardinality(InFlight(n)) <= FileSlots
           /\ Total(Size(n), Arrived(n)) <= MaxBytes)'
    BY <1>6, <1>8, <1>9, <1>11, <2>2 DEF Within
  <2>4. (load[n].stage = "commit" => Total(Size(n), DOMAIN Size(n)) <= MaxBytes)'
    BY <1>6, <1>9, <1>11 DEF Within
  <2> QED
    BY <2>3, <2>4 DEF Within
<1>15. ASSUME NEW k \in Packages PROVE (Asks(k) /\ Known(k) /\ Within(k))'
  <2>1. CASE k = n
    BY <1>12, <1>13, <1>14, <2>1
  <2>2. CASE k # n
    BY <1>2, <2>2, KeptWhole DEF LoadInv
  <2> QED
    BY <2>1, <2>2
<1> QED
  BY <1>3, <1>7, <1>15 DEF LoadInv

--------------------------------------------------------------------------------
(* The invariant. *)

\* Nothing has been asked for at first.
LEMMA InitLoads ==
  ASSUME Init PROVE LoadInv
<1>1. /\ load = [n \in Packages |-> [stage |-> "waiting", version |-> None, req |-> Requests({})]]
      /\ DOMAIN Requests({}) = {}
  BY DEF Init, Requests
<1>2. PICK q : q = Requests({})
  OBVIOUS
<1>3. ASSUME NEW n \in Packages
      PROVE  /\ load[n] = [stage |-> "waiting", version |-> None, req |-> q]
             /\ load[n].stage = "waiting" /\ load[n].version = None /\ load[n].req = q
  BY <1>1, <1>2
<1>4. q \in [{} -> Wait] /\ DOMAIN q = {}
  BY <1>1, <1>2 DEF Requests
<1>5. Shape
  BY <1>1, <1>3, <1>4 DEF Shape, Stages
<1>6. ASSUME NEW n \in Packages PROVE Asks(n) /\ Known(n) /\ Within(n)
  BY <1>3, <1>4 DEF Asks, Known, Within, Loading
<1> QED
  BY <1>5, <1>6 DEF LoadInv

\* Only the load at a request's stage waits for it.
LEMMA StageOf ==
  ASSUME Shape, NEW n \in Packages, Asks(n), Known(n), NEW w \in {"versions", "manifest", "tree"},
         w \in DOMAIN load[n].req
  PROVE  load[n].stage = w
<1>1. load[n].stage = "files" => w \notin DOMAIN FilesOf(n)
  BY FilesKnown
<1> QED
  BY <1>1 DEF Shape, Asks, Stages, Loading

\* What is done about one request.
LEMMA RequestKeeps ==
  ASSUME LoadInv, asked' = asked, NEW n \in Packages, NEW w \in DOMAIN load[n].req,
         Send(n, w) \/ Answer(n, w) \/ Lose(n, w) \/ Spoil(n, w) \/ TakeFile(n, w)
  PROVE  LoadInv'
<1>0. /\ Asks(n) /\ Known(n) /\ Within(n) /\ Shape
      /\ load[n].stage \in Stages /\ load[n].req \in [DOMAIN load[n].req -> Wait]
  BY DEF LoadInv, Shape
<1>1. /\ Request(n, w) \in Wait /\ Request(n, w).at \in {"queued", "sent", "body", "done"}
      /\ Request(n, w).tries \in 0 .. Retries
      /\ Request(n, w) = [at |-> Request(n, w).at, tries |-> Request(n, w).tries]
  BY <1>0 DEF Request, Wait
<1>2. ASSUME NEW at \in {"sent", "body", "done"}
      PROVE  [Request(n, w) EXCEPT !.at = at] = [at |-> at, tries |-> Request(n, w).tries]
  BY <1>1
<1>3. ASSUME load[n].stage = "files"
      PROVE  /\ IsFiniteSet(InFlight(n)) /\ Cardinality(InFlight(n)) \in Nat
             /\ Cardinality(InFlight(n)) <= FileSlots
  <2>1. IsFiniteSet(DOMAIN load[n].req)
    BY <1>0, <1>3, FilesKnown DEF Asks
  <2>2. InFlight(n) \subseteq DOMAIN load[n].req
    BY DEF InFlight
  <2>3. PICK S, B : S = DOMAIN load[n].req /\ B = InFlight(n)
    OBVIOUS
  <2>4. IsFiniteSet(B) /\ Cardinality(B) \in Nat
    BY <2>1, <2>2, <2>3, FS_Subset, FS_CardinalityType
  <2> QED
    BY <1>0, <1>3, <2>3, <2>4 DEF Within
<1>4. CASE Send(n, w)
  <2>1. PICK r : r = [at |-> "sent", tries |-> Request(n, w).tries]
    OBVIOUS
  <2>2. Put(n, w, r)
    BY <1>2, <1>4, <2>1 DEF Send
  <2>3. r \in Wait /\ r.at = "sent"
    BY <1>1, <2>1 DEF Wait
  <2>4. ASSUME load[n].stage = "files" PROVE Cardinality(InFlight(n) \cup {w}) <= FileSlots
    <3>1. PICK B : B = InFlight(n)
      OBVIOUS
    <3>2. IsFiniteSet(B) /\ Cardinality(B) \in Nat /\ w \notin B /\ Cardinality(B) < FileSlots
      BY <1>3, <1>4, <2>4, <3>1 DEF Send, Is, InFlight
    <3>3. Cardinality(B \cup {w}) = Cardinality(B) + 1
      BY <3>2, FS_AddElement
    <3> QED
      BY <3>1, <3>2, <3>3, BoundsAssumption
  <2>5. w \notin Arrived(n)
    BY <1>4 DEF Send, Is, Arrived
  <2> QED
    BY <2>2, <2>3, <2>4, <2>5, PutKeeps
<1>5. CASE Answer(n, w)
  <2>1. CASE GiveUp(n)
    BY <2>1, GiveUpKeeps
  <2>2. CASE Exists(n, w) /\ Put(n, w, [Request(n, w) EXCEPT !.at = "body"])
    <3>1. PICK r : r = [at |-> "body", tries |-> Request(n, w).tries]
      OBVIOUS
    <3>2. Put(n, w, r)
      BY <1>2, <2>2, <3>1
    <3>3. r \in Wait /\ r.at = "body"
      BY <1>1, <3>1 DEF Wait
    <3>4. InFlight(n) \cup {w} = InFlight(n) /\ w \notin Arrived(n)
      BY <1>5 DEF Answer, Is, InFlight, Arrived
    <3> QED
      BY <1>3, <2>2, <3>2, <3>3, <3>4, PutKeeps
  <2> QED
    BY <1>5, <2>1, <2>2 DEF Answer
<1>6. CASE Lose(n, w)
  <2>1. CASE Request(n, w).tries < Retries
    <3>1. PICK r : r = [at |-> "sent", tries |-> Request(n, w).tries + 1]
      OBVIOUS
    <3>2. Put(n, w, r)
      BY <1>6, <2>1, <3>1 DEF Lose
    <3>3. r \in Wait /\ r.at = "sent"
      <4>1. Request(n, w).tries + 1 \in 0 .. Retries
        BY <1>1, <2>1, BoundsAssumption
      <4> QED
        BY <3>1, <4>1 DEF Wait
    <3>4. InFlight(n) \cup {w} = InFlight(n) /\ w \notin Arrived(n)
      BY <1>6 DEF Lose, Is, InFlight, Arrived
    <3> QED
      BY <1>3, <3>2, <3>3, <3>4, PutKeeps
  <2>2. CASE ~(Request(n, w).tries < Retries)
    <3>1. GiveUp(n)
      BY <1>6, <2>2 DEF Lose
    <3> QED
      BY <3>1, GiveUpKeeps
  <2> QED
    BY <2>1, <2>2
<1>7. CASE Spoil(n, w)
  BY <1>7, GiveUpKeeps DEF Spoil
<1>8. CASE TakeFile(n, w)
  <2>1. load[n].stage = "files" /\ Is(n, w, "body")
    BY <1>8 DEF TakeFile
  <2>2. CASE GiveUp(n)
    BY <2>2, GiveUpKeeps
  <2>3. CASE ~GiveUp(n)
    <3> DEFINE A == Arrived(n) \cup {w}
    <3>1. ~(Total(Size(n), A) > MaxBytes)
      BY <1>8, <2>3 DEF TakeFile
    <3>2. /\ IsFiniteSet(DOMAIN FilesOf(n)) /\ Size(n) \in [DOMAIN FilesOf(n) -> Nat]
          /\ DOMAIN load[n].req = DOMAIN FilesOf(n) /\ DOMAIN Size(n) = DOMAIN FilesOf(n)
      BY <1>0, <2>1, FilesKnown DEF Asks
    <3>3. A \in SUBSET DOMAIN FilesOf(n)
      BY <3>2 DEF Arrived
    <3> HIDE DEF A
    <3>4. Total(Size(n), A) \in Nat
      <4>1. PICK S : S = DOMAIN FilesOf(n)
        OBVIOUS
      <4>2. PICK f, choose : SumsUp(f, S, Size(n), choose) /\ \A T \in SUBSET S : Total(Size(n), T) = f[T]
        BY <3>2, <4>1, TotalSums
      <4>3. f[A] \in Nat
        BY <3>3, <4>1, <4>2 DEF SumsUp
      <4> QED
        BY <3>3, <4>1, <4>2, <4>3
    <3>5. Total(Size(n), A) <= MaxBytes
      BY <3>1, <3>4, BoundsAssumption
    <3>6. CASE DOMAIN load[n].req = A
      <4>1. To(n, "commit", {})
        BY <1>8, <2>3, <3>1, <3>6 DEF TakeFile, A
      <4>2. Total(Size(n), DOMAIN Size(n)) <= MaxBytes
        BY <3>2, <3>5, <3>6
      <4>3. asked[n].name \in DOMAIN Published /\ load[n].version \in DOMAIN Tree[asked[n].name]
        BY <1>0, <2>1 DEF Known, Loading
      <4> QED
        BY <4>1, <4>2, <4>3, MoveKeeps DEF Stages, Loading
    <3>7. CASE DOMAIN load[n].req # A
      <4>1. PICK r : r = [at |-> "done", tries |-> Request(n, w).tries]
        OBVIOUS
      <4>2. Put(n, w, r)
        BY <1>2, <1>8, <2>3, <3>1, <3>7, <4>1 DEF TakeFile, A
      <4>3. r \in Wait /\ r.at = "done"
        BY <1>1, <4>1 DEF Wait
      <4> QED
        BY <3>5, <4>2, <4>3, PutKeeps DEF A
    <3> QED
      BY <3>6, <3>7
  <2> QED
    BY <2>2, <2>3
<1> QED
  BY <1>4, <1>5, <1>6, <1>7, <1>8

\* What is done about one load.
LEMMA StepKeeps ==
  ASSUME LoadInv, asked' = asked, NEW n \in Packages, Step(n)
  PROVE  LoadInv'
<1>0. /\ Asks(n) /\ Known(n) /\ Within(n) /\ Shape
      /\ load[n].stage \in Stages /\ load[n].req \in [DOMAIN load[n].req -> Wait]
  BY DEF LoadInv, Shape
<1>1. CASE StartVersions(n)
  <2>1. To(n, "versions", {"versions"})
    BY <1>1 DEF StartVersions
  <2> QED
    BY <2>1, MoveKeeps DEF Stages, Loading
<1>2. CASE TakeVersions(n)
  <2>1. PICK v : v = ResolveVersion(asked[n].name, asked[n].ref)
    OBVIOUS
  <2>2. PICK stage, q : stage = (IF v = None THEN "dropped" ELSE "pinned") /\ q = Requests({})
    OBVIOUS
  <2>3. load' = [load EXCEPT ![n] = [stage |-> stage, version |-> v, req |-> q]]
    BY <1>2, <2>1, <2>2 DEF TakeVersions
  <2>4. /\ DOMAIN load' = Packages /\ load'[n] = [stage |-> stage, version |-> v, req |-> q]
        /\ \A k \in Packages \ {n} : load'[k] = load[k]
    BY <1>0, <2>3 DEF Shape
  <2>5. load'[n].stage = stage /\ load'[n].version = v /\ load'[n].req = q
    BY <2>4
  <2>6. q \in [{} -> Wait] /\ DOMAIN q = {}
    BY <2>2 DEF Requests
  <2>7. stage \in {"dropped", "pinned"}
    BY <2>2
  <2>8. asked[n].name \in DOMAIN Published
    <3>1. load[n].stage = "versions"
      BY <1>0, <1>2, StageOf DEF TakeVersions, Is
    <3> QED
      BY <1>0, <1>2, <3>1 DEF TakeVersions, Is, Known, Request
  <2>9. Packages' = Packages
    BY DEF Packages
  <2>10. Shape'
    <3>1. ASSUME NEW k \in Packages
          PROVE  /\ load'[k] = [stage |-> load'[k].stage, version |-> load'[k].version, req |-> load'[k].req]
                 /\ load'[k].stage \in Stages
                 /\ load'[k].req \in [DOMAIN load'[k].req -> Wait]
      <4>1. CASE k = n
        BY <2>4, <2>5, <2>6, <2>7, <4>1 DEF Stages
      <4>2. CASE k # n
        BY <2>4, <4>2 DEF LoadInv, Shape
      <4> QED
        BY <4>1, <4>2
    <3> QED
      BY <2>4, <2>9, <3>1 DEF Shape
  <2>11. (Asks(n) /\ Known(n) /\ Within(n))'
    BY <2>5, <2>6, <2>7, <2>8 DEF Asks, Known, Within, Loading
  <2>12. ASSUME NEW k \in Packages PROVE (Asks(k) /\ Known(k) /\ Within(k))'
    <3>1. CASE k = n
      BY <2>11, <3>1
    <3>2. CASE k # n
      BY <2>4, <3>2, KeptWhole DEF LoadInv
    <3> QED
      BY <3>1, <3>2
  <2> QED
    BY <2>9, <2>10, <2>12 DEF LoadInv
<1>3. CASE StartLoad(n)
  <2>1. load[n].stage = "pinned"
    BY <1>3 DEF StartLoad, First, At
  <2>2. asked[n].name \in DOMAIN Published
    BY <1>0, <2>1 DEF Known
  <2>3. CASE To(n, "loaded", {})
    BY <2>3, MoveKeeps DEF Stages, Loading
  <2>4. CASE To(n, "manifest", {"manifest"})
    BY <2>2, <2>4, MoveKeeps DEF Stages, Loading
  <2>5. CASE GiveUp(n)
    BY <2>5, GiveUpKeeps
  <2> QED
    BY <1>3, <2>3, <2>4, <2>5 DEF StartLoad
<1>4. CASE TakeManifest(n)
  <2>1. To(n, "tree", {"tree"}) /\ Is(n, "manifest", "body")
    BY <1>4 DEF TakeManifest
  <2>2. load[n].stage = "manifest"
    BY <1>0, <2>1, StageOf DEF Is
  <2>3. asked[n].name \in DOMAIN Published /\ load[n].version \in DOMAIN Tree[asked[n].name]
    BY <1>0, <2>1, <2>2 DEF Known, Loading, Is
  <2> QED
    BY <2>1, <2>3, MoveKeeps DEF Stages, Loading
<1>5. CASE TakeTree(n)
  <2>1. Is(n, "tree", "body")
    BY <1>5 DEF TakeTree
  <2>2. load[n].stage = "tree"
    BY <1>0, <2>1, StageOf DEF Is
  <2>3. asked[n].name \in DOMAIN Published /\ load[n].version \in DOMAIN Tree[asked[n].name]
    BY <1>0, <2>2 DEF Known, Loading
  <2>4. CASE GiveUp(n)
    BY <2>4, GiveUpKeeps
  <2>5. CASE ~GiveUp(n)
    <3>1. To(n, IF DOMAIN FilesOf(n) = {} THEN "commit" ELSE "files", DOMAIN FilesOf(n))
      BY <1>5, <2>5 DEF TakeTree
    <3>2. CASE DOMAIN FilesOf(n) = {}
      <4>1. To(n, "commit", {})
        BY <3>1, <3>2
      <4>2. IsFiniteSet(DOMAIN FilesOf(n)) /\ Size(n) \in [DOMAIN FilesOf(n) -> Nat]
        BY <1>0, <2>2, FilesKnown
      <4>3. Total(Size(n), {}) = 0
        BY <4>2, EmptyTotal
      <4>4. DOMAIN Size(n) = {}
        BY <3>2, <4>2
      <4>5. Total(Size(n), DOMAIN Size(n)) <= MaxBytes
        BY <4>3, <4>4, BoundsAssumption
      <4> QED
        BY <2>3, <4>1, <4>5, MoveKeeps DEF Stages, Loading
    <3>3. CASE DOMAIN FilesOf(n) # {}
      <4>1. To(n, "files", DOMAIN FilesOf(n))
        BY <3>1, <3>3
      <4>2. PICK names : names = DOMAIN FilesOf(n)
        OBVIOUS
      <4>3. To(n, "files", names)
        BY <4>1, <4>2
      <4> QED
        BY <2>3, <3>3, <4>2, <4>3, MoveKeeps DEF Stages, Loading
    <3> QED
      BY <3>2, <3>3
  <2> QED
    BY <2>4, <2>5
<1>6. CASE Commit(n)
  <2>1. CASE To(n, "loaded", {})
    BY <2>1, MoveKeeps DEF Stages, Loading
  <2>2. CASE GiveUp(n)
    BY <2>2, GiveUpKeeps
  <2> QED
    BY <1>6, <2>1, <2>2 DEF Commit
<1>7. ASSUME NEW w \in DOMAIN load[n].req, Send(n, w) \/ Answer(n, w) \/ Lose(n, w) \/ Spoil(n, w) \/ TakeFile(n, w)
      PROVE  LoadInv'
  BY <1>7, RequestKeeps
<1> QED
  BY <1>1, <1>2, <1>3, <1>4, <1>5, <1>6, <1>7 DEF Step

\* Every step of the batch keeps the invariant of the loads.
LEMMA NextKeeps ==
  ASSUME LoadInv, [Next]_vars PROVE LoadInv'
<1>1. CASE Merge \/ UNCHANGED vars
  <2>1. load' = load /\ asked' = asked
    BY <1>1 DEF Merge, vars
  <2>2. Packages' = Packages
    BY <2>1 DEF Packages
  <2>3. Shape'
    BY <2>1, <2>2 DEF LoadInv, Shape
  <2>4. ASSUME NEW k \in Packages PROVE (Asks(k) /\ Known(k) /\ Within(k))'
    BY <2>1, KeptWhole DEF LoadInv
  <2> QED
    BY <2>2, <2>3, <2>4 DEF LoadInv
<1>2. ASSUME NEW n \in Packages, Step(n), UNCHANGED <<up, asked, cached, merged>> PROVE LoadInv'
  BY <1>2, StepKeeps
<1> QED
  BY <1>1, <1>2 DEF Next

\* The invariant of the loads holds in every behaviour.
LEMMA LoadsHold == Spec => []LoadInv
<1>1. Init => LoadInv
  BY InitLoads
<1>2. LoadInv /\ [Next]_vars => LoadInv'
  BY NextKeeps
<1> QED
  BY <1>1, <1>2, PTL DEF Spec

\* However the requests of the packages interleave, however many are lost and
\* however much larger the files are than their trees say, no request is repeated
\* more often than allowed, a load never holds more than its budget and the files
\* that may be under way, and what is kept of a package is within its budget
\* (the request and file loops of the package fetcher).
THEOREM ResourcesAreBounded == Spec => []ResourcesBounded
<1>1. LoadInv => ResourcesBounded
  <2> SUFFICES ASSUME LoadInv, NEW n \in Packages
               PROVE  /\ \A w \in DOMAIN load[n].req : Request(n, w).tries \in 0 .. Retries
                      /\ load[n].stage = "files" =>
                           Total(Size(n), Arrived(n) \cup InFlight(n))
                             <= MaxBytes + FileSlots * Max({Size(n)[f] : f \in DOMAIN Size(n)})
                      /\ load[n].stage = "commit" => Total(Size(n), DOMAIN Size(n)) <= MaxBytes
    BY DEF ResourcesBounded
  <2>1. Shape /\ Asks(n) /\ Known(n) /\ Within(n)
    BY DEF LoadInv
  <2>2. \A w \in DOMAIN load[n].req : Request(n, w).tries \in 0 .. Retries
    BY <2>1 DEF Shape, Wait, Request
  <2>3. load[n].stage = "files" =>
          Total(Size(n), Arrived(n) \cup InFlight(n))
            <= MaxBytes + FileSlots * Max({Size(n)[f] : f \in DOMAIN Size(n)})
    BY <2>1, Overdraft
  <2>4. load[n].stage = "commit" => Total(Size(n), DOMAIN Size(n)) <= MaxBytes
    BY <2>1 DEF Within
  <2> QED
    BY <2>2, <2>3, <2>4
<1> QED
  BY <1>1, LoadsHold, PTL

--------------------------------------------------------------------------------
(* What is asked for, and what is merged. *)

Foreign == {r \in [name : STRING, ref : STRING] : r.name \notin Documented}

\* Nothing is asked for that the site documents itself.
LEMMA ForeignAsked ==
  ASSUME NEW list \in Lists PROVE ToLoad(list) \in Seq(Foreign)
<1> DEFINE n == Len(list)
           op == [k \in 1 .. n |-> [kept \in Seq(Foreign) |->
                    IF list[k].name \in Documented THEN kept ELSE Append(kept, list[k])]]
           Folds(g) == g = [s \in SUBSET DOMAIN list |-> IF s = {} THEN <<>>
                          ELSE IF list[Max(s)].name \in Documented THEN g[s \ {Max(s)}]
                               ELSE Append(g[s \ {Max(s)}], list[Max(s)])]
           chosen == CHOOSE g : Folds(g)
<1>1. n \in Nat /\ DOMAIN list = 1 .. n /\ \A k \in 1 .. n : list[k] \in [name : STRING, ref : STRING]
  <2>1. PICK T : T = [name : STRING, ref : STRING]
    OBVIOUS
  <2>2. list \in Seq(T)
    BY <2>1, RegistryAssumption
  <2>3. Len(list) \in Nat /\ DOMAIN list = 1 .. Len(list) /\ \A k \in 1 .. Len(list) : list[k] \in T
    BY <2>2
  <2> QED
    BY <2>1, <2>3
<1>2. ToLoad(list) = chosen[DOMAIN list]
  BY DEF ToLoad, FoldLeft, MapThenFoldSet
<1>3. ASSUME NEW k \in 1 .. n, NEW kept \in Seq(Foreign)
      PROVE  (IF list[k].name \in Documented THEN kept ELSE Append(kept, list[k])) \in Seq(Foreign)
  BY <1>1 DEF Foreign
<1>4. op \in [1 .. n -> [Seq(Foreign) -> Seq(Foreign)]]
  BY <1>3
<1>5. <<>> \in Seq(Foreign)
  OBVIOUS
<1>6. ASSUME NEW k \in 1 .. n, NEW kept \in Seq(Foreign)
      PROVE  op[k][kept] = IF list[k].name \in Documented THEN kept ELSE Append(kept, list[k])
  OBVIOUS
<1> HIDE DEF op, n
<1>7. ASSUME NEW s \in SUBSET (1 .. n), s # {} PROVE Max(s) \in 1 .. n
  BY <1>1, <1>7, LatestChooses DEF Latest
<1>8. \E g : Folds(g)
  <2>1. PICK f \in [SUBSET (1 .. n) -> Seq(Foreign)] : FoldsUp(f, n, <<>>, op)
    BY <1>1, <1>4, <1>5, SequenceFoldExists
  <2>2. ASSUME NEW s \in SUBSET (1 .. n)
        PROVE  f[s] = IF s = {} THEN <<>>
                      ELSE IF list[Max(s)].name \in Documented THEN f[s \ {Max(s)}]
                           ELSE Append(f[s \ {Max(s)}], list[Max(s)])
    <3>1. f[s] = IF s = {} THEN <<>> ELSE op[Max(s)][f[s \ {Max(s)}]]
      BY <2>1 DEF FoldsUp
    <3>2. f[s \ {Max(s)}] \in Seq(Foreign)
      OBVIOUS
    <3> QED
      BY <1>6, <1>7, <3>1, <3>2
  <2>3. Folds(f)
    BY <1>1, <2>1, <2>2 DEF FoldsUp
  <2> QED
    BY <2>3
<1>9. PICK g : g = chosen /\ Folds(g)
  <2> HIDE DEF Folds
  <2> QED
    BY <1>8
<1> HIDE DEF chosen
<1>10. g = [s \in SUBSET (1 .. n) |-> g[s]] /\ g[{}] = <<>>
  BY <1>1, <1>9
<1>11. ASSUME NEW s \in SUBSET (1 .. n), s # {}, g[s \ {Max(s)}] \in Seq(Foreign)
       PROVE  g[s] = op[Max(s)][g[s \ {Max(s)}]]
  BY <1>1, <1>6, <1>7, <1>9, <1>11
<1>12. PICK h \in [0 .. n -> Seq(Foreign)] : h[n] = g[1 .. n]
  <2> DEFINE V == Seq(Foreign)
             t == g
             o == op
             b == <<>>
  <2>1. FoldsAmong(t, n, V, b, o)
    BY <1>10, <1>11 DEF FoldsAmong
  <2>2. o \in [1 .. n -> [V -> V]] /\ b \in V
    BY <1>4, <1>5
  <2> HIDE DEF t, V, o, b
  <2>3. \E h \in [0 .. n -> V] : StepsTo(h, n, b, o, t[1 .. n])
    BY <1>1, <2>1, <2>2, SequenceFoldSteps
  <2> QED
    BY <2>3 DEF t, V, StepsTo
<1>13. n \in 0 .. n
  BY <1>1
<1>14. h[n] \in Seq(Foreign)
  BY <1>12, <1>13
<1>15. ToLoad(list) = g[1 .. n]
  BY <1>1, <1>2, <1>9
<1> QED
  BY <1>12, <1>14, <1>15

\* The next value when package k is merged into vfs.
Laid(vfs, k, name, files, version) ==
  LET here == {name[k]} \X files[k]
  IN [f \in DOMAIN vfs \cup here |-> IF f \in here THEN version[k] ELSE vfs[f]]

\* The files of n packages, laid one over the other.
LaidOver(h, n, loaded, name, files, version) ==
  /\ DOMAIN h[0] = {}
  /\ \A k \in 1 .. n : h[k] = IF k \notin loaded THEN h[k - 1]
                          ELSE Laid(h[k - 1], k, name, files, version)

Placed(vfs, n, loaded, name, files, version) ==
  /\ \A i \in loaded \cap 1 .. n : \A f \in files[i] :
       /\ <<name[i], f>> \in DOMAIN vfs
       /\ \E j \in loaded \cap i .. n : name[j] = name[i] /\ vfs[<<name[i], f>>] = version[j]
  /\ \A p \in DOMAIN vfs : \E i \in loaded \cap 1 .. n : p[1] = name[i] /\ vfs[p] = version[i]

\* Files that are laid over each other are all there, in the version of the last
\* package of their name that was loaded, and no others.
LEMMA LaterOverEarlier ==
  ASSUME NEW n \in Nat, NEW name, NEW files, NEW version, NEW loaded, NEW h,
         LaidOver(h, n, loaded, name, files, version)
  PROVE  Placed(h[n], n, loaded, name, files, version)
<1> DEFINE There(k) == \A i \in loaded \cap 1 .. k : \A f \in files[i] :
                         /\ <<name[i], f>> \in DOMAIN h[k]
                         /\ \E j \in loaded \cap i .. k : name[j] = name[i] /\ h[k][<<name[i], f>>] = version[j]
           Owned(k) == \A p \in DOMAIN h[k] :
                         \E i \in loaded \cap 1 .. k : p[1] = name[i] /\ h[k][p] = version[i]
           Bad == {k \in 0 .. n : ~(There(k) /\ Owned(k))}
<1>1. SUFFICES ASSUME Bad # {} PROVE FALSE
  <2>1. n \in 0 .. n
    OBVIOUS
  <2> QED
    BY <2>1 DEF Placed
<1>2. PICK k \in Bad : \A m \in Bad : k <= m
  <2>1. Bad \in SUBSET Nat
    OBVIOUS
  <2> HIDE DEF Bad
  <2> QED
    BY <1>1, <2>1, LeastNumber
<1>3. k \in 0 .. n /\ ~(There(k) /\ Owned(k))
  BY <1>2
<1>4. k # 0
  <2>1. There(0) /\ Owned(0)
    BY DEF LaidOver
  <2> QED
    BY <1>3, <2>1
<1>5. k \in 1 .. n /\ k - 1 \in 0 .. n
  BY <1>3, <1>4
<1>6. There(k - 1) /\ Owned(k - 1)
  <2>1. k - 1 \notin Bad
    BY <1>2, <1>5
  <2> QED
    BY <1>5, <2>1
<1> HIDE DEF Bad
<1>7. CASE k \notin loaded
  <2>1. h[k] = h[k - 1] /\ loaded \cap 1 .. k = loaded \cap 1 .. (k - 1)
    BY <1>5, <1>7 DEF LaidOver
  <2>2. ASSUME NEW i \in loaded \cap 1 .. k PROVE loaded \cap i .. k = loaded \cap i .. (k - 1)
    BY <1>5, <1>7
  <2> QED
    BY <1>3, <1>6, <2>1, <2>2
<1>8. CASE k \in loaded
  <2> DEFINE here == {name[k]} \X files[k]
             vfs == h[k - 1]
  <2>1. h[k] = [f \in DOMAIN vfs \cup here |-> IF f \in here THEN version[k] ELSE vfs[f]]
    BY <1>5, <1>8 DEF Laid, LaidOver
  <2> HIDE DEF here, vfs
  <2>2. /\ DOMAIN h[k] = DOMAIN vfs \cup here
        /\ \A p \in here : h[k][p] = version[k]
        /\ \A p \in DOMAIN vfs \ here : h[k][p] = vfs[p]
    BY <2>1
  <2>3. \A p \in here : p[1] = name[k]
    BY DEF here
  <2>4. There(k)
    <3>1. ASSUME NEW i \in loaded \cap 1 .. k, NEW f \in files[i]
          PROVE  /\ <<name[i], f>> \in DOMAIN h[k]
                 /\ \E j \in loaded \cap i .. k : name[j] = name[i] /\ h[k][<<name[i], f>>] = version[j]
      <4>1. PICK p : p = <<name[i], f>>
        OBVIOUS
      <4>2. CASE p \in here
        <5>1. p[1] = name[k] /\ p[1] = name[i]
          BY <2>3, <4>1, <4>2
        <5>2. k \in loaded \cap i .. k
          BY <1>5, <1>8
        <5>3. p \in DOMAIN h[k] /\ h[k][p] = version[k]
          BY <2>2, <4>2
        <5> QED
          BY <4>1, <5>1, <5>2, <5>3
      <4>3. CASE p \notin here
        <5>1. i # k
          BY <4>1, <4>3 DEF here
        <5>2. i \in loaded \cap 1 .. (k - 1)
          BY <1>5, <5>1
        <5>3. PICK j \in loaded \cap i .. (k - 1) : p \in DOMAIN vfs /\ name[j] = name[i] /\ vfs[p] = version[j]
          BY <1>6, <4>1, <5>2 DEF vfs
        <5>4. j \in loaded \cap i .. k
          BY <1>5, <5>2, <5>3
        <5>5. p \in DOMAIN h[k] /\ h[k][p] = version[j]
          BY <2>2, <4>3, <5>3
        <5> QED
          BY <4>1, <5>3, <5>4, <5>5
      <4> QED
        BY <4>2, <4>3
    <3> QED
      BY <3>1
  <2>5. Owned(k)
    <3>1. ASSUME NEW p \in DOMAIN h[k]
          PROVE  \E i \in loaded \cap 1 .. k : p[1] = name[i] /\ h[k][p] = version[i]
      <4>1. CASE p \in here
        <5>1. k \in loaded \cap 1 .. k
          BY <1>5, <1>8
        <5> QED
          BY <2>2, <2>3, <4>1, <5>1
      <4>2. CASE p \notin here
        <5>1. p \in DOMAIN vfs /\ h[k][p] = vfs[p]
          BY <2>2, <3>1, <4>2
        <5>2. PICK i \in loaded \cap 1 .. (k - 1) : p[1] = name[i] /\ vfs[p] = version[i]
          BY <1>6, <5>1 DEF vfs
        <5>3. i \in loaded \cap 1 .. k
          BY <1>5
        <5> QED
          BY <5>1, <5>2, <5>3
      <4> QED
        BY <4>1, <4>2
    <3> QED
      BY <3>1
  <2> QED
    BY <1>3, <2>4, <2>5
<1> QED
  BY <1>7, <1>8

\* Files by their paths, in some of the versions.
Vfs(paths, versions) == UNION {[D -> versions] : D \in SUBSET paths}

\* Laying the files of one more package over a VFS gives a VFS.
LEMMA LaidIsVfs ==
  ASSUME NEW paths, NEW versions, NEW vfs \in Vfs(paths, versions), NEW k, NEW name, NEW files, NEW version,
         {name[k]} \X files[k] \subseteq paths, version[k] \in versions
  PROVE  Laid(vfs, k, name, files, version) \in Vfs(paths, versions)
<1>1. PICK here : here = {name[k]} \X files[k]
  OBVIOUS
<1>2. PICK D \in SUBSET paths : vfs \in [D -> versions]
  BY DEF Vfs
<1>3. Laid(vfs, k, name, files, version) = [f \in D \cup here |-> IF f \in here THEN version[k] ELSE vfs[f]]
  BY <1>1, <1>2 DEF Laid
<1>4. Laid(vfs, k, name, files, version) \in [D \cup here -> versions]
  BY <1>2, <1>3
<1>5. D \cup here \in SUBSET paths
  BY <1>1, <1>2
<1> QED
  BY <1>4, <1>5 DEF Vfs

\* h is MergeVfs, package by package.
Lays(h, loaded, name, files, version) ==
  /\ \A k \in Packages : /\ name[k] = asked[k].name /\ files[k] = DOMAIN FilesOf(k)
                        /\ version[k] = load[k].version
  /\ LaidOver(h, Len(asked), loaded, name, files, version) /\ h[Len(asked)] = MergeVfs(loaded)

\* MergeVfs lays the files of the packages that were loaded over each other.
LEMMA MergeLays ==
  ASSUME asked \in Seq(Foreign), NEW loaded
  PROVE  \E name, files, version, h : Lays(h, loaded, name, files, version)
<1> DEFINE n       == Len(asked)
           name    == [k \in 1 .. n |-> asked[k].name]
           files   == [k \in 1 .. n |-> DOMAIN FilesOf(k)]
           version == [k \in 1 .. n |-> load[k].version]
           V       == Vfs(UNION {{name[k]} \X files[k] : k \in 1 .. n}, {version[k] : k \in 1 .. n})
           Next1(vfs, k) == IF k \notin loaded THEN vfs ELSE Laid(vfs, k, name, files, version)
           op      == [k \in 1 .. n |-> [vfs \in V |-> Next1(vfs, k)]]
           order   == [k \in Packages |-> k]
           Body(g, s) ==
             IF order[Max(s)] \notin loaded THEN g[s \ {Max(s)}]
             ELSE LET here == {asked[order[Max(s)]].name} \X DOMAIN FilesOf(order[Max(s)])
                  IN [f \in DOMAIN g[s \ {Max(s)}] \cup here |->
                        IF f \in here THEN load[order[Max(s)]].version ELSE g[s \ {Max(s)}][f]]
           Folds(g) == g = [s \in SUBSET DOMAIN order |-> IF s = {} THEN NoFiles ELSE Body(g, s)]
           chosen  == CHOOSE g : Folds(g)
<1>1. n \in Nat /\ Packages = 1 .. n
  BY DEF Packages
<1>2. DOMAIN order = 1 .. n /\ \A k \in 1 .. n : order[k] = k
  BY <1>1
<1>3. MergeVfs(loaded) = chosen[DOMAIN order]
  BY DEF MergeVfs, FoldLeft, MapThenFoldSet
<1>4. \A k \in 1 .. n : name[k] = asked[k].name /\ files[k] = DOMAIN FilesOf(k) /\ version[k] = load[k].version
  OBVIOUS
<1> HIDE DEF n, name, files, version, order
<1>5. ASSUME NEW k \in 1 .. n, NEW vfs \in V PROVE Next1(vfs, k) \in V
  <2> DEFINE paths == UNION {{name[j]} \X files[j] : j \in 1 .. n}
             versions == {version[j] : j \in 1 .. n}
  <2>1. {name[k]} \X files[k] \subseteq paths /\ version[k] \in versions
    OBVIOUS
  <2>2. vfs \in Vfs(paths, versions)
    OBVIOUS
  <2> HIDE DEF paths, versions
  <2>3. Laid(vfs, k, name, files, version) \in Vfs(paths, versions)
    BY <2>1, <2>2, LaidIsVfs
  <2> QED
    BY <2>3 DEF paths, versions
<1>6. NoFiles \in V /\ DOMAIN NoFiles = {}
  <2>1. NoFiles \in [{} -> {version[k] : k \in 1 .. n}] /\ DOMAIN NoFiles = {}
    BY DEF NoFiles
  <2> QED
    BY <2>1 DEF Vfs
<1> HIDE DEF V
<1>7. op \in [1 .. n -> [V -> V]] /\ \A k \in 1 .. n : \A vfs \in V : op[k][vfs] = Next1(vfs, k)
  BY <1>5
<1> HIDE DEF op
<1>8. ASSUME NEW s \in SUBSET (1 .. n), s # {} PROVE Max(s) \in 1 .. n
  BY <1>1, <1>8, LatestChooses DEF Latest
<1>9. ASSUME NEW g, NEW s \in SUBSET (1 .. n), s # {}
      PROVE  Body(g, s) = Next1(g[s \ {Max(s)}], Max(s))
  <2>1. PICK k : k = Max(s)
    OBVIOUS
  <2>2. k \in 1 .. n /\ order[k] = k
    BY <1>2, <1>8, <1>9, <2>1
  <2>3. name[k] = asked[k].name /\ files[k] = DOMAIN FilesOf(k) /\ version[k] = load[k].version
    BY <1>4, <2>2
  <2> QED
    BY <2>1, <2>2, <2>3 DEF Laid
<1> HIDE DEF Next1, Body
<1>10. \E g : Folds(g)
  <2>1. PICK f \in [SUBSET (1 .. n) -> V] : FoldsUp(f, n, NoFiles, op)
    <3> DEFINE b == NoFiles
    <3>1. b \in V
      BY <1>6
    <3> HIDE DEF b
    <3>2. \E f \in [SUBSET (1 .. n) -> V] : FoldsUp(f, n, b, op)
      BY <1>1, <1>7, <3>1, SequenceFoldExists
    <3> QED
      BY <3>2 DEF b
  <2>2. ASSUME NEW s \in SUBSET (1 .. n), s # {} PROVE f[s] = Next1(f[s \ {Max(s)}], Max(s))
    <3>1. f[s] = op[Max(s)][f[s \ {Max(s)}]]
      BY <2>1, <2>2 DEF FoldsUp
    <3>2. f[s \ {Max(s)}] \in V
      OBVIOUS
    <3> QED
      BY <1>7, <1>8, <2>2, <3>1, <3>2
  <2>3. f[{}] = NoFiles
    BY <2>1 DEF FoldsUp
  <2>4. Folds(f)
    BY <1>2, <1>9, <2>2, <2>3
  <2> QED
    BY <2>4
<1>11. PICK g : g = chosen /\ Folds(g)
  <2> HIDE DEF Folds
  <2> QED
    BY <1>10
<1> HIDE DEF chosen
<1>12. g = [s \in SUBSET (1 .. n) |-> g[s]] /\ g[{}] = NoFiles
  BY <1>2, <1>11
<1>13. ASSUME NEW s \in SUBSET (1 .. n), s # {} PROVE g[s] = Next1(g[s \ {Max(s)}], Max(s))
  BY <1>2, <1>9, <1>11, <1>13
<1>14. PICK h \in [0 .. n -> V] : StepsTo(h, n, NoFiles, op, g[1 .. n])
  <2> DEFINE b == NoFiles
             t == g
             o == op
  <2>1. FoldsAmong(t, n, V, b, o)
    BY <1>7, <1>8, <1>12, <1>13 DEF FoldsAmong
  <2>2. b \in V /\ o \in [1 .. n -> [V -> V]]
    BY <1>6, <1>7
  <2> HIDE DEF b, t, o
  <2>3. \E h \in [0 .. n -> V] : StepsTo(h, n, b, o, t[1 .. n])
    BY <1>1, <2>1, <2>2, SequenceFoldSteps
  <2> QED
    BY <2>3 DEF b, t, o
<1>15. DOMAIN h[0] = {} /\ h[n] = MergeVfs(loaded)
  BY <1>2, <1>3, <1>6, <1>11, <1>14 DEF StepsTo
<1>16. ASSUME NEW k \in 1 .. n
       PROVE  h[k] = IF k \notin loaded THEN h[k - 1] ELSE Laid(h[k - 1], k, name, files, version)
  <2>1. h[k] = op[k][h[k - 1]]
    BY <1>14 DEF StepsTo
  <2>2. h[k - 1] \in V
    BY <1>1
  <2> QED
    BY <1>7, <2>1, <2>2 DEF Next1
<1>17. Lays(h, loaded, name, files, version)
  BY <1>1, <1>4, <1>15, <1>16 DEF n, Lays, LaidOver
<1> QED
  BY <1>17

\* What MergeVfs makes of the packages that were loaded.
LEMMA MergeVfsHolds ==
  ASSUME asked \in Seq(Foreign), NEW vfs, vfs = MergeVfs(At({"loaded"}))
  PROVE  /\ \A n \in At({"loaded"}) : \A f \in DOMAIN FilesOf(n) :
              <<asked[n].name, f>> \in DOMAIN vfs
                /\ \E k \in At({"loaded"}) : k >= n /\ asked[k].name = asked[n].name
                                          /\ vfs[<<asked[n].name, f>>] = load[k].version
         /\ \A f \in DOMAIN vfs : f[1] \notin Documented
              /\ \E n \in At({"loaded"}) : asked[n].name = f[1] /\ load[n].version = vfs[f]
<1> DEFINE loaded == At({"loaded"})
           N == Len(asked)
<1>1. N \in Nat /\ Packages = 1 .. N /\ loaded \subseteq 1 .. N
  BY DEF Packages, At
<1>2. \A n \in 1 .. N : asked[n].name \notin Documented
  <2>1. PICK F : F = Foreign
    OBVIOUS
  <2>2. asked \in Seq(F)
    BY <2>1
  <2>3. \A n \in 1 .. N : asked[n] \in F
    BY <2>2
  <2> QED
    BY <2>1, <2>3 DEF Foreign
<1>3. vfs = MergeVfs(loaded)
  OBVIOUS
<1> HIDE DEF loaded
<1>4. PICK name, files, version, h : Lays(h, loaded, name, files, version)
  BY MergeLays
<1>5. /\ \A k \in 1 .. N : name[k] = asked[k].name /\ files[k] = DOMAIN FilesOf(k) /\ version[k] = load[k].version
      /\ LaidOver(h, N, loaded, name, files, version) /\ h[N] = vfs
  BY <1>1, <1>3, <1>4 DEF Lays
<1> HIDE DEF N
<1>6. Placed(h[N], N, loaded, name, files, version)
  BY <1>1, <1>5, LaterOverEarlier
<1>7. ASSUME NEW n \in loaded, NEW f \in DOMAIN FilesOf(n)
      PROVE  <<asked[n].name, f>> \in DOMAIN vfs
               /\ \E k \in loaded : k >= n /\ asked[k].name = asked[n].name
                                  /\ vfs[<<asked[n].name, f>>] = load[k].version
  <2>1. n \in loaded \cap 1 .. N /\ name[n] = asked[n].name /\ f \in files[n]
    BY <1>1, <1>5
  <2>2. PICK p : p = <<name[n], f>>
    OBVIOUS
  <2>3. PICK j \in loaded \cap n .. N : p \in DOMAIN vfs /\ name[j] = name[n] /\ vfs[p] = version[j]
    BY <1>5, <1>6, <2>1, <2>2 DEF Placed
  <2>4. j \in loaded /\ j >= n /\ asked[j].name = asked[n].name /\ version[j] = load[j].version
    BY <1>1, <1>5, <2>1, <2>3
  <2> QED
    BY <2>1, <2>2, <2>3, <2>4
<1>8. ASSUME NEW f \in DOMAIN vfs
      PROVE  f[1] \notin Documented /\ \E n \in loaded : asked[n].name = f[1] /\ load[n].version = vfs[f]
  <2>1. PICK i \in loaded \cap 1 .. N : f[1] = name[i] /\ vfs[f] = version[i]
    BY <1>5, <1>6 DEF Placed
  <2> QED
    BY <1>2, <1>5, <2>1
<1> QED
  BY <1>7, <1>8 DEF loaded

\* The batch is merged once nothing is left to do, and then nothing is done.
MergeInv ==
  /\ LoadInv /\ asked \in Seq(Foreign) /\ LoadedIsMerged
  /\ merged # None /\ up => At({"waiting", "versions", "pinned"} \cup Loading) = {}

\* A load is worked on only while there is something to do for it.
LEMMA StepIsLeft ==
  ASSUME LoadInv, NEW n \in Packages, Step(n)
  PROVE  At({"waiting", "versions", "pinned"} \cup Loading) # {}
<1> DEFINE left == {"waiting", "versions", "pinned"} \cup Loading
<1>1. SUFFICES load[n].stage \in left
  BY DEF At
<1>2. Asks(n) /\ load[n].stage \in Stages
  BY DEF LoadInv, Shape
<1>3. DOMAIN load[n].req # {} => load[n].stage \in left
  BY <1>2 DEF Asks, Stages, Loading
<1>4. CASE StartVersions(n) \/ StartLoad(n) \/ Commit(n)
  BY <1>4 DEF StartVersions, StartLoad, Commit, First, At, Loading
<1>5. CASE TakeVersions(n) \/ TakeManifest(n) \/ TakeTree(n)
  BY <1>3, <1>5 DEF TakeVersions, TakeManifest, TakeTree, Is
<1>6. ASSUME NEW w \in DOMAIN load[n].req PROVE load[n].stage \in left
  BY <1>3, <1>6
<1> QED
  BY <1>4, <1>5, <1>6 DEF Step

\* When the batch has been merged, every package that was loaded has all its
\* files there, in the version that was loaded last; whatever became of the
\* others, no file comes from one that failed or that the site documents itself
\* (mergeExternalTypes and the fetch layer's batch).
THEOREM WhatIsLoadedIsMerged == Spec => []LoadedIsMerged
<1>1. ASSUME Init PROVE MergeInv
  <2>1. asked \in Seq(Foreign)
    BY <1>1, ForeignAsked DEF Init
  <2>2. merged = None
    BY <1>1 DEF Init
  <2> QED
    BY <1>1, <2>1, <2>2, InitLoads DEF MergeInv, LoadedIsMerged
<1>2. ASSUME MergeInv, [Next]_vars PROVE MergeInv'
  <2>1. LoadInv'
    BY <1>2, NextKeeps DEF MergeInv
  <2>2. asked' = asked /\ up' = up
    BY <1>2 DEF Next, Merge, vars
  <2>3. CASE merged' = None
    BY <1>2, <2>1, <2>2, <2>3 DEF MergeInv, LoadedIsMerged
  <2>4. CASE UNCHANGED vars
    <3>1. At({"loaded"})' = At({"loaded"})
          /\ At({"waiting", "versions", "pinned"} \cup Loading)' = At({"waiting", "versions", "pinned"} \cup Loading)
      BY <2>4 DEF vars, At, Packages, Loading
    <3>2. LoadedIsMerged'
      <4>1. merged' = merged /\ up' = up /\ asked' = asked /\ load' = load
        BY <2>4 DEF vars
      <4> QED
        BY <1>2, <3>1, <4>1 DEF MergeInv, LoadedIsMerged, FilesOf
    <3>3. merged' = merged
      BY <2>4 DEF vars
    <3>4. (merged # None /\ up => At({"waiting", "versions", "pinned"} \cup Loading) = {})'
      BY <1>2, <2>2, <3>1, <3>3 DEF MergeInv
    <3> QED
      BY <1>2, <2>1, <2>2, <3>2, <3>4 DEF MergeInv
  <2>5. CASE Merge
    <3>1. load' = load /\ merged = None /\ (up => At({"waiting", "versions", "pinned"} \cup Loading) = {})
          /\ (up => merged' = MergeVfs(At({"loaded"})))
      BY <2>5 DEF Merge
    <3>2. At({"loaded"})' = At({"loaded"})
          /\ At({"waiting", "versions", "pinned"} \cup Loading)' = At({"waiting", "versions", "pinned"} \cup Loading)
      BY <2>2, <3>1 DEF At, Packages, Loading
    <3>3. LoadedIsMerged'
      <4>1. CASE ~up
        BY <2>2, <4>1 DEF LoadedIsMerged
      <4>2. CASE up
        <5>1. PICK vfs : vfs = merged'
          OBVIOUS
        <5>2. /\ \A n \in At({"loaded"}) : \A f \in DOMAIN FilesOf(n) :
                   <<asked[n].name, f>> \in DOMAIN vfs
                     /\ \E k \in At({"loaded"}) : k >= n /\ asked[k].name = asked[n].name
                                               /\ vfs[<<asked[n].name, f>>] = load[k].version
              /\ \A f \in DOMAIN vfs : f[1] \notin Documented
                   /\ \E n \in At({"loaded"}) : asked[n].name = f[1] /\ load[n].version = vfs[f]
          BY <1>2, <3>1, <4>2, <5>1, MergeVfsHolds DEF MergeInv
        <5> QED
          BY <2>2, <3>1, <3>2, <5>1, <5>2 DEF LoadedIsMerged, FilesOf
      <4> QED
        BY <4>1, <4>2
    <3> QED
      BY <1>2, <2>1, <2>2, <3>1, <3>2, <3>3 DEF MergeInv
  <2>6. ASSUME NEW n \in Packages, Step(n), UNCHANGED <<up, asked, cached, merged>>, merged' # None PROVE MergeInv'
    <3>1. ~up
      BY <1>2, <2>6, StepIsLeft DEF MergeInv
    <3> QED
      BY <1>2, <2>1, <2>2, <3>1 DEF MergeInv, LoadedIsMerged
  <2> QED
    BY <1>2, <2>3, <2>4, <2>5, <2>6 DEF Next
<1>3. MergeInv => LoadedIsMerged
  BY DEF MergeInv
<1> QED
  BY <1>1, <1>2, <1>3, PTL DEF Spec
=============================================================================
