---------------------------- MODULE RenderPassCode ----------------------------
(***************************************************************************)
(* Theorems about the code a render pass shows, for every site: what a     *)
(* declaration file imports, what of a block is seen and copied, and where *)
(* the links in it lead.                                                   *)
(***************************************************************************)
EXTENDS RenderPassProofs, SequenceTheorems

--------------------------------------------------------------------------------
(* Lists. *)

Concats(v, s, t) == List(s) /\ List(t) /\ v = s \o t
Together(v, s, t) ==
  /\ List(v) /\ ToSet(v) = ToSet(s) \cup ToSet(t) /\ Len(v) = Len(s) + Len(t)
  /\ \A k \in 1 .. Len(s) : v[k] = s[k]
  /\ \A k \in 1 .. Len(t) : v[Len(s) + k] = t[k]

\* Two lists, one after the other.
LEMMA ListsJoin ==
  ASSUME NEW s, NEW t, NEW v, Concats(v, s, t)
  PROVE  Together(v, s, t)
<1>1. PICK X : X = ToSet(s) \cup ToSet(t)
  OBVIOUS
<1>2. s \in Seq(X) /\ t \in Seq(X) /\ v = s \o t
  BY <1>1 DEF List, Concats
<1>3. PICK m, n : m = Len(s) /\ n = Len(t)
  OBVIOUS
<1>4. m \in Nat /\ n \in Nat /\ DOMAIN s = 1 .. m /\ DOMAIN t = 1 .. n
  BY <1>2, <1>3
<1>5. v \in Seq(X) /\ Len(v) = m + n /\ DOMAIN v = 1 .. m + n
  BY <1>2, <1>3
<1>6. (\A k \in 1 .. m : v[k] = s[k]) /\ \A k \in 1 .. n : v[m + k] = t[k]
  BY <1>2, <1>3
<1>7. ToSet(v) = X
  <2>1. ASSUME NEW x \in ToSet(v) PROVE x \in X
    BY <1>5, <2>1 DEF ToSet
  <2>2. ASSUME NEW x \in ToSet(s) PROVE x \in ToSet(v)
    <3>1. PICK k \in 1 .. m : x = s[k]
      BY <1>4 DEF ToSet
    <3>2. x = v[k] /\ k \in 1 .. m + n
      BY <1>4, <1>6, <3>1
    <3> QED
      BY <1>5, <3>2 DEF ToSet
  <2>3. ASSUME NEW x \in ToSet(t) PROVE x \in ToSet(v)
    <3>1. PICK k \in 1 .. n : x = t[k]
      BY <1>4 DEF ToSet
    <3>2. x = v[m + k] /\ m + k \in 1 .. m + n
      BY <1>4, <1>6, <3>1
    <3> QED
      BY <1>5, <3>2 DEF ToSet
  <2> QED
    BY <1>1, <2>1, <2>2, <2>3
<1> QED
  BY <1>1, <1>3, <1>5, <1>6, <1>7 DEF List, Together

\* A list of one.
LEMMA ListOfOne ==
  ASSUME NEW x PROVE List(<<x>>) /\ ToSet(<<x>>) = {x} /\ Len(<<x>>) = 1
<1>1. PICK v : v = <<x>>
  OBVIOUS
<1>2. DOMAIN v = {1} /\ v[1] = x /\ Len(v) = 1 /\ v \in Seq({x})
  BY <1>1
<1>3. ToSet(v) = {x}
  BY <1>2 DEF ToSet
<1> QED
  BY <1>1, <1>2, <1>3 DEF List

LEMMA ListOfNone == List(<<>>) /\ ToSet(<<>>) = {} /\ Len(<<>>) = 0
BY DEF List, ToSet

\* Of each of n.
LEMMA ListOfEach ==
  ASSUME NEW n \in Nat, NEW v, DOMAIN v = 1 .. n, v = [k \in 1 .. n |-> v[k]]
  PROVE  List(v) /\ Len(v) = n /\ ToSet(v) = {v[k] : k \in 1 .. n}
<1>1. PICK X : X = {v[k] : k \in 1 .. n}
  OBVIOUS
<1>2. v \in [1 .. n -> X]
  BY <1>1
<1>3. v \in Seq(X) /\ Len(v) = n
  BY <1>2
<1>4. ToSet(v) = X
  BY <1>1 DEF ToSet
<1> QED
  BY <1>1, <1>3, <1>4 DEF List

\* Lists put together one after the other are a list of what each of them holds.
LEMMA FlattenHolds ==
  ASSUME NEW n \in Nat, NEW seqs, DOMAIN seqs = 1 .. n, seqs = [k \in 1 .. n |-> seqs[k]],
         \A k \in 1 .. n : List(seqs[k])
  PROVE  List(FlattenSeq(seqs)) /\ ToSet(FlattenSeq(seqs)) = UNION {ToSet(seqs[k]) : k \in 1 .. n}
<1>1. Len(seqs) = n
  BY ListOfEach
<1>2. CASE n = 0
  <2>1. FlattenSeq(seqs) = seqs
    BY <1>1, <1>2 DEF FlattenSeq
  <2>2. seqs = <<>>
    BY <1>2
  <2> QED
    BY <1>2, <2>1, <2>2, ListOfNone
<1>3. CASE n # 0
  <2>1. PICK f : /\ FlattenSeq(seqs) = f[n] /\ f[1] = seqs[1]
                 /\ \A i \in 2 .. n : f[i] = f[i - 1] \o seqs[i]
    <3>1. n \in Nat \ {0}
      BY <1>3
    <3> QED
      BY <1>1, <3>1, FlattenSteps
  <2> DEFINE Fine(k) == List(f[k]) /\ ToSet(f[k]) = UNION {ToSet(seqs[j]) : j \in 1 .. k}
             Bad == {k \in 1 .. n : ~Fine(k)}
  <2>2. Bad = {}
    <3> SUFFICES ASSUME Bad # {} PROVE FALSE
      OBVIOUS
    <3>1. PICK k \in Bad : \A j \in Bad : k <= j
      <4>1. Bad \in SUBSET Nat
        OBVIOUS
      <4> HIDE DEF Bad
      <4> QED
        BY <4>1, LeastNumber
    <3>2. k \in 1 .. n /\ ~Fine(k)
      OBVIOUS
    <3>3. k # 1
      <4>1. 1 \in 1 .. n /\ 1 .. 1 = {1}
        BY <1>3
      <4>2. Fine(1)
        BY <2>1, <4>1
      <4> QED
        BY <3>2, <4>2
    <3>4. k - 1 \in 1 .. n /\ k \in 2 .. n /\ ~(k <= k - 1) /\ 1 .. k = (1 .. k - 1) \cup {k}
      BY <3>2, <3>3
    <3>5. Fine(k - 1)
      BY <3>1, <3>4
    <3>6. PICK s, t, v : s = f[k - 1] /\ t = seqs[k] /\ v = f[k]
      OBVIOUS
    <3>7. v = s \o t /\ List(s) /\ List(t)
      BY <2>1, <3>2, <3>4, <3>5, <3>6
    <3>8. List(v) /\ ToSet(v) = ToSet(s) \cup ToSet(t)
      BY <3>7, ListsJoin DEF Concats, Together
    <3>9. ToSet(v) = UNION {ToSet(seqs[j]) : j \in 1 .. k}
      BY <3>4, <3>5, <3>6, <3>8
    <3> QED
      BY <3>2, <3>6, <3>8, <3>9
  <2>3. Fine(n)
    BY <1>3, <2>2
  <2> QED
    BY <2>1, <2>3
<1> QED
  BY <1>2, <1>3

Encloses(v, p, s, q) == List(p) /\ List(s) /\ List(q) /\ v = p \o s \o q

\* What stands between the beginning and the end of a list.
LEMMA MiddleOfList ==
  ASSUME NEW p, NEW s, NEW q, NEW v, Encloses(v, p, s, q)
  PROVE  List(v) /\ Len(v) = Len(p) + Len(s) + Len(q) /\ SubSeq(v, Len(p) + 1, Len(p) + Len(s)) = s
<1>1. PICK X : X = ToSet(p) \cup ToSet(s) \cup ToSet(q)
  OBVIOUS
<1>2. p \in Seq(X) /\ s \in Seq(X) /\ q \in Seq(X)
  BY <1>1 DEF List, Encloses
<1>3. PICK u : u = p \o s
  OBVIOUS
<1>4. Together(u, p, s)
  BY <1>3, ListsJoin DEF Concats, Encloses
<1>5. Together(v, u, q)
  <2>1. v = u \o q /\ List(q)
    BY <1>3 DEF Encloses
  <2>2. List(u)
    BY <1>4 DEF Together
  <2>3. Concats(v, u, q)
    BY <2>1, <2>2 DEF Concats
  <2> QED
    BY <2>3, ListsJoin
<1>6. /\ List(v) /\ Len(v) = Len(p) + Len(s) + Len(q)
      /\ \A k \in 1 .. Len(p) + Len(s) : v[k] = u[k]
      /\ \A k \in 1 .. Len(s) : u[Len(p) + k] = s[k]
  BY <1>4, <1>5 DEF Together
<1>7. PICK a, m, b : a = Len(p) /\ m = Len(s) /\ b = Len(q)
  OBVIOUS
<1>8. a \in Nat /\ m \in Nat /\ b \in Nat
  BY <1>2, <1>7
<1>9. PICK w : w = SubSeq(v, a + 1, a + m)
  OBVIOUS
<1>10. w = [k \in 1 .. m |-> v[a + k]]
  <2>1. PICK Y : v \in Seq(Y)
    BY <1>6 DEF List
  <2>2. w \in Seq(Y) /\ Len(w) = m
    BY <1>6, <1>7, <1>8, <1>9, <2>1
  <2>3. ASSUME NEW k \in 1 .. m PROVE w[k] = v[a + k]
    BY <1>6, <1>7, <1>8, <1>9, <2>1
  <2>4. w = [k \in 1 .. m |-> w[k]]
    BY <2>2
  <2> QED
    BY <2>3, <2>4
<1>11. \A k \in 1 .. m : v[a + k] = s[k]
  <2>1. \A k \in 1 .. m : a + k \in 1 .. a + m
    BY <1>8
  <2> QED
    BY <1>6, <1>7, <2>1
<1>12. s = [k \in 1 .. m |-> s[k]]
  BY <1>2, <1>7
<1>13. w = s
  BY <1>10, <1>11, <1>12
<1> QED
  BY <1>6, <1>7, <1>9, <1>13

--------------------------------------------------------------------------------
(* References. *)

\* Partial functions from canonical references to references.
Known(R) == UNION {[D -> R] : D \in SUBSET {Canonical(r) : r \in R}}
Learned(known, r) == [c \in DOMAIN known \cup {Canonical(r)} |-> IF c = Canonical(r) THEN r ELSE known[c]]

\* A reference that is learned is added to what is known.
LEMMA LearnedIsKnown ==
  ASSUME NEW R, NEW known \in Known(R), NEW r \in R
  PROVE  Learned(known, r) \in Known(R)
<1> DEFINE C == {Canonical(q) : q \in R}
           D == DOMAIN known \cup {Canonical(r)}
<1>1. PICK E \in SUBSET C : known \in [E -> R]
  BY DEF Known
<1>2. D \in SUBSET C
  BY <1>1
<1>3. ASSUME NEW c \in D PROVE (IF c = Canonical(r) THEN r ELSE known[c]) \in R
  BY <1>1
<1>4. Learned(known, r) \in [D -> R]
  BY <1>3 DEF Learned
<1> HIDE DEF C, D
<1> QED
  BY <1>2, <1>4 DEF Known, C

\* h goes from nothing to e by learning the n references of refs.
Learns(h, n, refs, e) ==
  h[0] = <<>> /\ h[n] = e /\ \A k \in 1 .. n : h[k] = Learned(h[k - 1], refs[k])

\* What is extracted from some references is learned one reference after the other.
LEMMA ExtractSteps ==
  ASSUME NEW R, NEW n \in Nat, NEW refs, DOMAIN refs = 1 .. n, \A k \in 1 .. n : refs[k] \in R
  PROVE  \E h \in [0 .. n -> Known(R)] : Learns(h, n, refs, Extract(<<>>, refs))
<1> DEFINE op == [k \in 1 .. n |-> [known \in Known(R) |-> Learned(known, refs[k])]]
           Folds(g) == g = [s \in SUBSET DOMAIN refs |->
                              IF s = {} THEN <<>> ELSE Learned(g[s \ {Max(s)}], refs[Max(s)])]
           chosen == CHOOSE g : Folds(g)
<1>1. Extract(<<>>, refs) = chosen[DOMAIN refs]
  BY DEF Extract, FoldLeft, MapThenFoldSet, Learned
<1>2. op \in [1 .. n -> [Known(R) -> Known(R)]]
  BY LearnedIsKnown
<1>3. <<>> \in Known(R)
  <2>1. <<>> \in [{} -> R] /\ {} \in SUBSET {Canonical(r) : r \in R}
    OBVIOUS
  <2> QED
    BY <2>1 DEF Known
<1>4. ASSUME NEW k \in 1 .. n, NEW known \in Known(R) PROVE op[k][known] = Learned(known, refs[k])
  OBVIOUS
<1> HIDE DEF op
<1>5. ASSUME NEW s \in SUBSET (1 .. n), s # {} PROVE Max(s) \in 1 .. n
  BY <1>5, LatestChooses DEF Latest
<1>6. \E g : Folds(g)
  <2>1. PICK f \in [SUBSET (1 .. n) -> Known(R)] : FoldsUp(f, n, <<>>, op)
    BY <1>2, <1>3, SequenceFoldExists
  <2>2. ASSUME NEW s \in SUBSET (1 .. n)
        PROVE  f[s] = IF s = {} THEN <<>> ELSE Learned(f[s \ {Max(s)}], refs[Max(s)])
    <3>1. f[s] = IF s = {} THEN <<>> ELSE op[Max(s)][f[s \ {Max(s)}]]
      BY <2>1 DEF FoldsUp
    <3>2. f[s \ {Max(s)}] \in Known(R)
      OBVIOUS
    <3> QED
      BY <1>4, <1>5, <3>1, <3>2
  <2>3. Folds(f)
    BY <2>1, <2>2 DEF FoldsUp
  <2> QED
    BY <2>3
<1>7. PICK g : g = chosen /\ Folds(g)
  <2> HIDE DEF Folds
  <2> QED
    BY <1>6
<1> HIDE DEF chosen
<1>8. g = [s \in SUBSET (1 .. n) |-> g[s]] /\ g[{}] = <<>>
  BY <1>7
<1>9. ASSUME NEW s \in SUBSET (1 .. n), s # {}, g[s \ {Max(s)}] \in Known(R)
      PROVE  g[s] = op[Max(s)][g[s \ {Max(s)}]]
  BY <1>4, <1>5, <1>7, <1>9
<1>10. PICK h \in [0 .. n -> Known(R)] : StepsTo(h, n, <<>>, op, g[1 .. n])
  <2> DEFINE V == Known(R)
             t == g
             o == op
             b == <<>>
  <2>1. FoldsAmong(t, n, V, b, o)
    BY <1>8, <1>9 DEF FoldsAmong
  <2>2. o \in [1 .. n -> [V -> V]] /\ b \in V
    BY <1>2, <1>3
  <2> HIDE DEF t, V, o, b
  <2>3. \E h \in [0 .. n -> V] : StepsTo(h, n, b, o, t[1 .. n])
    BY <2>1, <2>2, SequenceFoldSteps
  <2> QED
    BY <2>3 DEF t, V, o, b
<1>11. ASSUME NEW k \in 1 .. n PROVE h[k] = Learned(h[k - 1], refs[k])
  <2>1. h[k - 1] \in Known(R)
    OBVIOUS
  <2> QED
    BY <1>4, <1>10, <2>1 DEF StepsTo
<1> QED
  BY <1>1, <1>7, <1>10, <1>11 DEF StepsTo, Learns

Extracts(e, refs, n) == DOMAIN refs = 1 .. n /\ e = Extract(<<>>, refs)
Knows(e, refs, n) ==
  /\ DOMAIN e = {Canonical(refs[k]) : k \in 1 .. n}
  /\ \A c \in DOMAIN e : \E k \in 1 .. n : e[c] = refs[k] /\ c = Canonical(refs[k])

\* Everything referred to is known, by one of the references to it.
LEMMA ExtractKnows ==
  ASSUME NEW n \in Nat, NEW refs, NEW e, Extracts(e, refs, n)
  PROVE  Knows(e, refs, n)
<1>1. PICK h : Learns(h, n, refs, e)
  <2>1. PICK R : R = {refs[k] : k \in 1 .. n}
    OBVIOUS
  <2>2. DOMAIN refs = 1 .. n /\ \A k \in 1 .. n : refs[k] \in R
    BY <2>1 DEF Extracts
  <2>3. \E h \in [0 .. n -> Known(R)] : Learns(h, n, refs, Extract(<<>>, refs))
    BY <2>2, ExtractSteps
  <2> QED
    BY <2>3 DEF Extracts
<1> DEFINE Fine(k) ==
             /\ DOMAIN h[k] = {Canonical(refs[j]) : j \in 1 .. k}
             /\ \A c \in DOMAIN h[k] : \E j \in 1 .. k : h[k][c] = refs[j] /\ c = Canonical(refs[j])
           Bad == {k \in 0 .. n : ~Fine(k)}
<1>2. Bad = {}
  <2> SUFFICES ASSUME Bad # {} PROVE FALSE
    OBVIOUS
  <2>1. PICK k \in Bad : \A j \in Bad : k <= j
    <3>1. Bad \in SUBSET Nat
      OBVIOUS
    <3> HIDE DEF Bad
    <3> QED
      BY <3>1, LeastNumber
  <2>2. k \in 0 .. n /\ ~Fine(k)
    OBVIOUS
  <2>3. k # 0
    <3>1. h[0] = <<>> /\ DOMAIN h[0] = {}
      BY <1>1 DEF Learns
    <3>2. Fine(0)
      BY <3>1
    <3> QED
      BY <2>2, <3>2
  <2>4. k - 1 \in 0 .. n /\ k \in 1 .. n /\ ~(k <= k - 1) /\ 1 .. k = (1 .. k - 1) \cup {k}
    BY <2>2, <2>3
  <2>5. Fine(k - 1)
    BY <2>1, <2>4
  <2>6. h[k] = Learned(h[k - 1], refs[k])
    BY <1>1, <2>4 DEF Learns
  <2>7. PICK a, b, r : a = h[k - 1] /\ b = h[k] /\ r = refs[k]
    OBVIOUS
  <2>8. DOMAIN b = DOMAIN a \cup {Canonical(r)} /\ \A c \in DOMAIN b : b[c] = IF c = Canonical(r) THEN r ELSE a[c]
    BY <2>6, <2>7 DEF Learned
  <2>9. DOMAIN b = {Canonical(refs[j]) : j \in 1 .. k}
    BY <2>4, <2>5, <2>7, <2>8
  <2>10. \A c \in DOMAIN b : \E j \in 1 .. k : b[c] = refs[j] /\ c = Canonical(refs[j])
    BY <2>4, <2>5, <2>7, <2>8
  <2> QED
    BY <2>2, <2>7, <2>9, <2>10
<1>3. n \in 0 .. n /\ h[n] = e
  BY <1>1 DEF Learns
<1>4. Fine(n)
  BY <1>2, <1>3
<1> QED
  BY <1>3, <1>4 DEF Knows

\* v is the references refs, then those of each of the list inner.
CitesDeep(v, refs, inner) ==
  /\ Cited(refs) /\ List(inner) /\ \A n \in ToSet(inner) : Cited(n.refs)
  /\ v = refs \o FlattenSeq([n \in DOMAIN inner |-> inner[n].refs])
CitesAll(v, refs, inner) == Cited(v) /\ ToSet(v) = ToSet(refs) \cup UNION {ToSet(n.refs) : n \in ToSet(inner)}

\* These are all of them.
LEMMA DeepCited ==
  ASSUME NEW refs, NEW inner, NEW v, CitesDeep(v, refs, inner)
  PROVE  CitesAll(v, refs, inner)
<1>1. Cited(refs) /\ List(inner) /\ \A n \in ToSet(inner) : Cited(n.refs)
  BY DEF CitesDeep
<1>2. PICK k \in Nat : DOMAIN inner = 1 .. k
  BY <1>1, ListIsListed
<1>3. PICK seqs : seqs = [n \in 1 .. k |-> inner[n].refs]
  OBVIOUS
<1>4. DOMAIN seqs = 1 .. k /\ seqs = [n \in 1 .. k |-> seqs[n]] /\ \A n \in 1 .. k : seqs[n] = inner[n].refs
  BY <1>3
<1>5. \A n \in 1 .. k : inner[n] \in ToSet(inner) /\ List(seqs[n])
  BY <1>1, <1>2, <1>4 DEF ToSet, Cited
<1>6. PICK rest : rest = FlattenSeq(seqs)
  OBVIOUS
<1>7. List(rest) /\ ToSet(rest) = UNION {ToSet(seqs[n]) : n \in 1 .. k}
  BY <1>4, <1>5, <1>6, FlattenHolds
<1>8. ToSet(rest) = UNION {ToSet(n.refs) : n \in ToSet(inner)}
  <2>1. ToSet(inner) = {inner[n] : n \in 1 .. k}
    BY <1>2 DEF ToSet
  <2> QED
    BY <1>4, <1>7, <2>1
<1>9. List(v) /\ ToSet(v) = ToSet(refs) \cup ToSet(rest)
  <2>1. Concats(v, refs, rest)
    BY <1>1, <1>2, <1>3, <1>6, <1>7 DEF Concats, Cited, CitesDeep
  <2> QED
    BY <2>1, ListsJoin DEF Together
<1>10. \A r \in ToSet(v) : List(r.text) /\ r.text # <<>>
  BY <1>1, <1>8, <1>9 DEF Cited
<1> QED
  BY <1>8, <1>9, <1>10 DEF CitesAll, Cited

\* v is the references refs, then those in lists[m] for each of n numbers m.
CitesEach(v, refs, lists, n) ==
  /\ n \in Nat /\ Cited(refs) /\ DOMAIN lists = 1 .. n /\ lists = [m \in 1 .. n |-> lists[m]]
  /\ \A m \in 1 .. n : Cited(lists[m])
  /\ v = refs \o FlattenSeq(lists)
CitesThem(v, refs, lists, n) == Cited(v) /\ ToSet(v) = ToSet(refs) \cup UNION {ToSet(lists[m]) : m \in 1 .. n}

LEMMA EachCited ==
  ASSUME NEW refs, NEW lists, NEW n, NEW v, CitesEach(v, refs, lists, n)
  PROVE  CitesThem(v, refs, lists, n)
<1>1. /\ n \in Nat /\ Cited(refs) /\ DOMAIN lists = 1 .. n /\ lists = [m \in 1 .. n |-> lists[m]]
      /\ \A m \in 1 .. n : List(lists[m])
  BY DEF CitesEach, Cited
<1>2. PICK rest : rest = FlattenSeq(lists)
  OBVIOUS
<1>3. List(rest) /\ ToSet(rest) = UNION {ToSet(lists[m]) : m \in 1 .. n}
  BY <1>1, <1>2, FlattenHolds
<1>4. List(v) /\ ToSet(v) = ToSet(refs) \cup ToSet(rest)
  <2>1. Concats(v, refs, rest)
    BY <1>1, <1>2, <1>3 DEF Concats, Cited, CitesEach
  <2> QED
    BY <2>1, ListsJoin DEF Together
<1>5. \A r \in ToSet(v) : List(r.text) /\ r.text # <<>>
  BY <1>3, <1>4 DEF Cited, CitesEach
<1> QED
  BY <1>3, <1>4, <1>5 DEF CitesThem, Cited

\* The references of an item are a list, of its own, its members' and theirs.
LEMMA RefsListed ==
  ASSUME NEW i, Refers(i)
  PROVE  /\ Cited(Refs(i))
         /\ ToSet(Refs(i)) = ToSet(i.refs) \cup
              UNION {ToSet(m.refs) \cup UNION {ToSet(n.refs) : n \in ToSet(m.members)} : m \in ToSet(i.members)}
<1>1. PICK own, members : own = i.refs /\ members = i.members
  OBVIOUS
<1>2. Cited(own) /\ List(members)
  BY <1>1 DEF Refers
<1> DEFINE Deep(m) == m.refs \o FlattenSeq([n \in DOMAIN m.members |-> m.members[n].refs])
           All(m)  == ToSet(m.refs) \cup UNION {ToSet(n.refs) : n \in ToSet(m.members)}
<1>3. ASSUME NEW m \in ToSet(members)
      PROVE  Cited(Deep(m)) /\ ToSet(Deep(m)) = All(m)
  <2>1. PICK refs, inner, v : refs = m.refs /\ inner = m.members /\ v = Deep(m)
    OBVIOUS
  <2>2. CitesDeep(v, refs, inner)
    BY <1>1, <2>1 DEF Refers, CitesDeep
  <2>3. CitesAll(v, refs, inner)
    BY <2>2, DeepCited
  <2> QED
    BY <2>1, <2>3 DEF CitesAll
<1>4. PICK k \in Nat : DOMAIN members = 1 .. k
  BY <1>2, ListIsListed
<1>5. PICK lists : lists = [m \in 1 .. k |-> Deep(members[m])]
  OBVIOUS
<1>6. DOMAIN lists = 1 .. k /\ lists = [m \in 1 .. k |-> lists[m]] /\ \A m \in 1 .. k : lists[m] = Deep(members[m])
  BY <1>5
<1>7. Refs(i) = own \o FlattenSeq(lists)
  BY <1>1, <1>4, <1>5 DEF Refs
<1> HIDE DEF Deep, All
<1>8. \A m \in 1 .. k : members[m] \in ToSet(members) /\ Cited(lists[m]) /\ ToSet(lists[m]) = All(members[m])
  BY <1>3, <1>4, <1>6 DEF ToSet
<1>9. PICK v : v = Refs(i)
  OBVIOUS
<1>10. CitesThem(v, own, lists, k)
  <2>1. CitesEach(v, own, lists, k)
    BY <1>2, <1>6, <1>7, <1>8, <1>9 DEF CitesEach
  <2> QED
    BY <2>1, EachCited
<1>11. UNION {ToSet(lists[m]) : m \in 1 .. k} = UNION {All(m) : m \in ToSet(members)}
  <2>1. ToSet(members) = {members[m] : m \in 1 .. k}
    BY <1>4 DEF ToSet
  <2> QED
    BY <1>8, <2>1
<1> QED
  BY <1>1, <1>9, <1>10, <1>11 DEF CitesThem, All

--------------------------------------------------------------------------------
(* What is hidden of a block. *)

SeenBetween(seen, lines, a, b) ==
  /\ List(lines) /\ a \in Nat /\ b \in Nat /\ a <= b /\ b <= Len(lines)
  /\ \A n \in 1 .. Len(lines) : n \in seen <=> a < n /\ n <= b

\* The rows from one line to another are those lines.
LEMMA RowsBetween ==
  ASSUME NEW lines, NEW a, NEW b, NEW seen, SeenBetween(seen, lines, a, b)
  PROVE  Rows(lines, seen) = SubSeq(lines, a + 1, b)
<1>0. /\ List(lines) /\ a \in Nat /\ b \in Nat /\ a <= b /\ b <= Len(lines)
      /\ \A n \in 1 .. Len(lines) : n \in seen <=> a < n /\ n <= b
  BY DEF SeenBetween
<1> USE <1>0
<1>1. PICK N, X : N = Len(lines) /\ X = ToSet(lines)
  OBVIOUS
<1>2. lines \in Seq(X) /\ N \in Nat /\ DOMAIN lines = 1 .. N /\ \A k \in 1 .. N : lines[k] \in X
  BY <1>1 DEF List
<1>3. PICK seqs : seqs = [k \in 1 .. N |-> IF k \in seen THEN <<lines[k]>> ELSE <<>>]
  OBVIOUS
<1>4. Rows(lines, seen) = FlattenSeq(seqs)
  BY <1>2, <1>3 DEF Rows
<1>5. Len(seqs) = N /\ DOMAIN seqs = 1 .. N
  <2>1. DOMAIN seqs = 1 .. N /\ seqs = [k \in 1 .. N |-> seqs[k]]
    BY <1>3
  <2> QED
    BY <1>2, <2>1, ListOfEach
<1>6. \A k \in 1 .. N : seqs[k] = IF a < k /\ k <= b THEN <<lines[k]>> ELSE <<>>
  BY <1>1, <1>3
<1>7. CASE N = 0
  <2>1. FlattenSeq(seqs) = seqs
    BY <1>5, <1>7 DEF FlattenSeq
  <2>2. seqs = <<>>
    BY <1>3, <1>7
  <2>3. a = 0 /\ b = 0
    BY <1>1, <1>7
  <2>4. SubSeq(lines, a + 1, b) = <<>>
    BY <1>2, <2>3
  <2> QED
    BY <1>4, <2>1, <2>2, <2>4
<1>8. CASE N # 0
  <2>1. PICK f : /\ FlattenSeq(seqs) = f[N] /\ f[1] = seqs[1]
                 /\ \A i \in 2 .. N : f[i] = f[i - 1] \o seqs[i]
    <3>1. N \in Nat \ {0}
      BY <1>2, <1>8
    <3> QED
      BY <1>5, <3>1, FlattenSteps
  <2> DEFINE Upto(k) == SubSeq(lines, a + 1, IF k < b THEN k ELSE b)
             Bad == {k \in 1 .. N : f[k] # Upto(k)}
  <2>2. Bad = {}
    <3> SUFFICES ASSUME Bad # {} PROVE FALSE
      OBVIOUS
    <3>1. PICK k \in Bad : \A j \in Bad : k <= j
      <4>1. Bad \in SUBSET Nat
        BY <1>2
      <4> HIDE DEF Bad
      <4> QED
        BY <4>1, LeastNumber
    <3>2. k \in 1 .. N /\ f[k] # Upto(k)
      OBVIOUS
    <3>3. CASE k = 1
      <4>1. f[1] = IF a < 1 /\ 1 <= b THEN <<lines[1]>> ELSE <<>>
        BY <1>6, <2>1, <3>2, <3>3
      <4>2. Upto(1) = IF a < 1 /\ 1 <= b THEN <<lines[1]>> ELSE <<>>
        <5>1. CASE a < 1 /\ 1 <= b
          <6>1. a = 0 /\ (IF 1 < b THEN 1 ELSE b) = 1
            BY <5>1
          <6>2. SubSeq(lines, 1, 1) = <<lines[1]>>
            <7>1. PICK v, w : v = <<lines[1]>> /\ w = SubSeq(lines, 1, 1)
              OBVIOUS
            <7>2. w \in Seq(X) /\ Len(w) = 1 /\ w[1] = lines[1]
              BY <1>2, <3>2, <3>3, <7>1
            <7>3. v \in Seq(X) /\ Len(v) = 1 /\ v[1] = lines[1]
              BY <1>2, <3>2, <3>3, <7>1
            <7>4. v = [j \in 1 .. 1 |-> v[j]] /\ w = [j \in 1 .. 1 |-> w[j]]
              BY <7>2, <7>3
            <7>5. \A j \in 1 .. 1 : v[j] = w[j]
              BY <7>2, <7>3
            <7> QED
              BY <7>1, <7>4, <7>5
          <6> QED
            BY <5>1, <6>1, <6>2
        <5>2. CASE ~(a < 1 /\ 1 <= b)
          <6>1. PICK e : e = IF 1 < b THEN 1 ELSE b
            OBVIOUS
          <6>2. e \in Nat /\ e <= N /\ e < a + 1
            BY <1>1, <5>2, <6>1
          <6>3. SubSeq(lines, a + 1, e) = <<>>
            BY <1>2, <6>2
          <6> QED
            BY <5>2, <6>1, <6>3
        <5> QED
          BY <5>1, <5>2
      <4> QED
        BY <3>2, <3>3, <4>1, <4>2
    <3>4. CASE k # 1
      <4>1. k - 1 \in 1 .. N /\ k \in 2 .. N /\ ~(k <= k - 1)
        BY <1>2, <3>2, <3>4
      <4>2. f[k] = Upto(k - 1) \o seqs[k]
        BY <2>1, <3>1, <4>1
      <4>3. CASE a < k /\ k <= b
        <5>1. (IF k < b THEN k ELSE b) = k /\ (IF k - 1 < b THEN k - 1 ELSE b) = k - 1
          BY <4>1, <4>3
        <5>2. f[k] = SubSeq(lines, a + 1, k - 1) \o <<lines[k]>>
          BY <1>6, <3>2, <4>2, <4>3, <5>1
        <5>3. SubSeq(lines, a + 1, k) = SubSeq(lines, a + 1, k - 1) \o <<lines[k]>>
          <6>1. PICK u, v, w : u = SubSeq(lines, a + 1, k - 1) /\ w = SubSeq(lines, a + 1, k) /\ v = u \o <<lines[k]>>
            OBVIOUS
          <6>2. /\ u \in Seq(X) /\ Len(u) = k - 1 - a /\ w \in Seq(X) /\ Len(w) = k - a
                /\ \A j \in 1 .. k - 1 - a : u[j] = lines[a + j]
                /\ \A j \in 1 .. k - a : w[j] = lines[a + j]
            BY <1>1, <1>2, <3>2, <4>1, <4>3, <6>1
          <6>3. /\ v \in Seq(X) /\ Len(v) = k - a /\ v[k - a] = lines[k]
                /\ \A j \in 1 .. k - 1 - a : v[j] = u[j]
            BY <1>2, <3>2, <4>1, <4>3, <6>1, <6>2
          <6>4. \A j \in 1 .. k - a : v[j] = w[j]
            <7> TAKE j \in 1 .. k - a
            <7>1. j \in 1 .. k - 1 - a \/ (j = k - a /\ a + j = k)
              BY <3>2, <4>1, <4>3
            <7> QED
              BY <6>2, <6>3, <7>1
          <6>5. v = w
            <7>1. v = [j \in 1 .. k - a |-> v[j]] /\ w = [j \in 1 .. k - a |-> w[j]]
              BY <6>2, <6>3
            <7> QED
              BY <6>4, <7>1
          <6> QED
            BY <6>1, <6>5
        <5> QED
          BY <3>2, <5>1, <5>2, <5>3
      <4>4. CASE ~(a < k /\ k <= b)
        <5>1. f[k] = Upto(k - 1) \o <<>>
          BY <1>6, <3>2, <4>2, <4>4
        <5>2. PICK d, e : d = (IF k - 1 < b THEN k - 1 ELSE b) /\ e = IF k < b THEN k ELSE b
          OBVIOUS
        <5>3. /\ d \in Nat /\ e \in Nat /\ d <= N /\ e <= N
              /\ (d = e \/ (d < a + 1 /\ e < a + 1))
          BY <1>1, <1>2, <4>1, <4>4, <5>2
        <5>4. SubSeq(lines, a + 1, d) \in Seq(X) /\ SubSeq(lines, a + 1, d) = SubSeq(lines, a + 1, e)
          <6>1. CASE d = e
            BY <1>1, <1>2, <5>3, <6>1
          <6>2. CASE d < a + 1 /\ e < a + 1
            BY <1>2, <5>3, <6>2
          <6> QED
            BY <5>3, <6>1, <6>2
        <5>5. Upto(k - 1) = SubSeq(lines, a + 1, d) /\ Upto(k) = SubSeq(lines, a + 1, e)
          BY <5>2
        <5> HIDE DEF Upto
        <5>6. PICK v : v = SubSeq(lines, a + 1, d)
          OBVIOUS
        <5>7. v \in Seq(X) /\ v \o <<>> = v
          BY <5>4, <5>6
        <5> QED
          BY <3>2, <5>1, <5>4, <5>5, <5>6, <5>7
      <4> QED
        BY <4>3, <4>4
    <3> QED
      BY <3>3, <3>4
  <2>3. f[N] = Upto(N)
    BY <1>2, <1>8, <2>2
  <2>4. (IF N < b THEN N ELSE b) = b
    BY <1>1, <1>2
  <2> QED
    BY <1>4, <2>1, <2>3, <2>4
<1> QED
  BY <1>7, <1>8

\* Import lines and a cut, or nothing.
Hidden(list) ==
  \/ list = <<>>
  \/ /\ List(list) /\ list # <<>> /\ list[Len(list)].part = "cut"
     /\ \A k \in 1 .. Len(list) - 1 : list[k].part = "import"
     /\ \A l \in ToSet(list) : l.words = <<>> /\ l.opens = 0 /\ l.closes = 0 /\ l.declares = None

\* What a block imports is hidden.
LEMMA ImportsHidden ==
  ASSUME NEW scope, Cited(Refs(scope))
  PROVE  Hidden(HiddenImports(scope))
<1>1. PICK refs, e : refs = Refs(scope) /\ e = Extract(<<>>, refs)
  OBVIOUS
<1>2. PICK n \in Nat : DOMAIN refs = 1 .. n
  BY <1>1, ListIsListed DEF Cited
<1>3. DOMAIN e = {Canonical(refs[k]) : k \in 1 .. n}
  <2>1. Extracts(e, refs, n)
    BY <1>1, <1>2 DEF Extracts
  <2>2. Knows(e, refs, n)
    BY <2>1, ExtractKnows
  <2> QED
    BY <2>2 DEF Knows
<1>4. IsFiniteSet(DOMAIN e)
  <2>1. PICK f : f = [k \in 1 .. n |-> Canonical(refs[k])]
    OBVIOUS
  <2>2. DOMAIN f = 1 .. n /\ DOMAIN e = {f[k] : k \in DOMAIN f}
    BY <1>3, <2>1
  <2>3. IsFiniteSet(DOMAIN f)
    BY <2>2, FS_Interval
  <2> QED
    BY <2>2, <2>3, ImageFinite
<1>5. IsFiniteSet(Imports(e))
  <2>1. PICK D : D = {d \in DOMAIN e : d[1] \notin {BuiltIn, Own}}
    OBVIOUS
  <2>2. IsFiniteSet(D)
    BY <1>4, <2>1, FS_Subset
  <2>3. PICK f : f = [c \in D |-> Imported(e[c])]
    OBVIOUS
  <2>4. DOMAIN f = D /\ Imports(e) = {f[c] : c \in DOMAIN f}
    BY <2>1, <2>3 DEF Imports
  <2> QED
    BY <2>2, <2>4, ImageFinite
<1>6. PICK m : m = Cardinality(Imports(e))
  OBVIOUS
<1>7. m \in Nat
  BY <1>5, <1>6, FS_CardinalityType
<1>8. PICK list : list = HiddenImports(scope)
  OBVIOUS
<1>9. CASE Imports(e) = {}
  BY <1>1, <1>9 DEF Hidden, HiddenImports
<1>10. CASE Imports(e) # {}
  <2>1. PICK x, y, b : x = Line("import", <<>>) /\ y = Line("cut", <<>>) /\ b = [k \in 1 .. m |-> x]
    OBVIOUS
  <2>2. list = Append(b, y)
    BY <1>1, <1>6, <1>8, <1>10, <2>1 DEF HiddenImports
  <2>3. PICK X : X = {x, y}
    OBVIOUS
  <2>4. b \in Seq(X) /\ Len(b) = m /\ y \in X /\ \A k \in 1 .. m : b[k] = x
    BY <1>7, <2>1, <2>3
  <2>5. /\ list \in Seq(X) /\ Len(list) = m + 1 /\ list[m + 1] = y /\ \A k \in 1 .. m : list[k] = x
    BY <1>7, <2>2, <2>4
  <2>6. DOMAIN list = 1 .. m + 1 /\ ToSet(list) \subseteq X
    BY <1>7, <2>5 DEF ToSet
  <2>7. List(list)
    <3>1. \A k \in 1 .. m + 1 : list[k] \in ToSet(list)
      BY <2>6 DEF ToSet
    <3>2. list = [k \in 1 .. m + 1 |-> list[k]]
      BY <1>7, <2>5
    <3> QED
      BY <1>7, <2>6, <3>2, ListOfEach
  <2>8. \A l \in X : l.words = <<>> /\ l.opens = 0 /\ l.closes = 0 /\ l.declares = None
    BY <2>1, <2>3 DEF Line
  <2>9. x.part = "import" /\ y.part = "cut"
    BY <2>1 DEF Line
  <2>10. Len(list) - 1 = m
    BY <1>7, <2>5
  <2>11. list # <<>>
    BY <1>7, <2>5
  <2> QED
    BY <1>8, <2>5, <2>6, <2>7, <2>8, <2>9, <2>10, <2>11 DEF Hidden
<1> QED
  BY <1>9, <1>10

\* v is the hidden lines h, then s, in which nothing is cut.
CutOff(v, h, s) == Hidden(h) /\ List(s) /\ (\A l \in ToSet(s) : l.part # "cut") /\ v = h \o s
CutAtEnd(v, h, s) ==
  /\ List(v) /\ Len(v) = Len(h) + Len(s) /\ Len(h) \in Nat /\ Len(s) \in Nat /\ DOMAIN v = 1 .. Len(v)
  /\ \A n \in 1 .. Len(v) : CutAt(v) = {} \/ n > FirstCut(v) <=> n > Len(h)
  /\ CutAt(v) = {} => h = <<>>
  /\ CutAt(v) # {} => FirstCut(v) = Len(h)

\* What follows is cut off where the hidden lines end.
LEMMA CutAfterHidden ==
  ASSUME NEW h, NEW s, NEW v, CutOff(v, h, s)
  PROVE  CutAtEnd(v, h, s)
<1>1. Hidden(h) /\ List(s) /\ (\A l \in ToSet(s) : l.part # "cut") /\ v = h \o s
  BY DEF CutOff
<1>2. List(h) /\ Len(h) \in Nat /\ Len(s) \in Nat
  <2>1. List(h)
    BY <1>1, ListOfNone DEF Hidden
  <2> QED
    BY <1>1, <2>1 DEF List
<1>3. Together(v, h, s)
  <2>1. Concats(v, h, s)
    BY <1>1, <1>2 DEF Concats
  <2> QED
    BY <2>1, ListsJoin
<1>4. PICK a, b : a = Len(h) /\ b = Len(s)
  OBVIOUS
<1>5. /\ a \in Nat /\ b \in Nat /\ Len(v) = a + b /\ List(v) /\ DOMAIN v = 1 .. a + b
      /\ \A k \in 1 .. a : v[k] = h[k]
      /\ \A k \in 1 .. b : v[a + k] = s[k]
  BY <1>2, <1>3, <1>4 DEF Together, List
<1>6. \A n \in 1 .. a + b : n > a => v[n].part # "cut"
  <2> TAKE n \in 1 .. a + b
  <2> HAVE n > a
  <2>1. PICK k \in 1 .. b : n = a + k
    <3>1. n - a \in 1 .. b /\ n = a + (n - a)
      BY <1>5
    <3> QED
      BY <3>1
  <2>2. s[k] \in ToSet(s)
    BY <1>1, <1>2, <1>4, <2>1 DEF List, ToSet
  <2> QED
    BY <1>1, <1>5, <2>1, <2>2
<1>7. CASE h = <<>>
  <2>1. a = 0
    BY <1>4, <1>7
  <2>2. CutAt(v) = {}
    BY <1>5, <1>6, <2>1 DEF CutAt
  <2> QED
    BY <1>2, <1>4, <1>5, <1>7, <2>1, <2>2 DEF CutAtEnd
<1>8. CASE h # <<>>
  <2>1. a \in 1 .. a + b /\ a > 0
    <3>1. a # 0
      BY <1>2, <1>4, <1>8 DEF List
    <3> QED
      BY <1>5, <3>1
  <2>2. h[a].part = "cut" /\ \A k \in 1 .. a - 1 : h[k].part = "import"
    BY <1>1, <1>4, <1>8 DEF Hidden
  <2>3. v[a].part = "cut" /\ \A k \in 1 .. a - 1 : v[k].part = "import"
    BY <1>5, <2>1, <2>2
  <2>4. CutAt(v) = {a}
    <3>1. ASSUME NEW n \in 1 .. a + b PROVE v[n].part = "cut" <=> n = a
      <4>1. n > a \/ n = a \/ n \in 1 .. a - 1
        BY <1>5
      <4> QED
        BY <1>6, <2>3, <4>1
    <3> QED
      BY <1>5, <2>1, <3>1 DEF CutAt
  <2>5. FirstCut(v) = a
    BY <1>5, <2>4 DEF FirstCut
  <2> QED
    BY <1>2, <1>4, <1>5, <2>4, <2>5 DEF CutAtEnd
<1> QED
  BY <1>7, <1>8

\* The lines of the members of an item.
MemberLines(i) == FlattenSeq([m \in DOMAIN i.members |-> i.members[m].lines])

\* What the members of a class print is a list of their lines.
LEMMA MembersPrint ==
  ASSUME NEW i, WellFormed(i), i.kind \in {"Class", "Interface"}
  PROVE  /\ List(MemberLines(i))
         /\ \A l \in ToSet(MemberLines(i)) : \E m \in ToSet(i.members) : l \in ToSet(m.lines)
<1>1. PICK members : members = i.members
  OBVIOUS
<1>2. List(members) /\ \A m \in ToSet(members) : List(m.lines)
  BY <1>1 DEF WellFormed, Refers, Prints, Lines
<1>3. PICK k \in Nat : DOMAIN members = 1 .. k
  BY <1>2, ListIsListed
<1>4. PICK seqs : seqs = [m \in 1 .. k |-> members[m].lines]
  OBVIOUS
<1>5. DOMAIN seqs = 1 .. k /\ seqs = [m \in 1 .. k |-> seqs[m]] /\ \A m \in 1 .. k : seqs[m] = members[m].lines
  BY <1>4
<1>6. \A m \in 1 .. k : members[m] \in ToSet(members) /\ List(seqs[m])
  BY <1>2, <1>3, <1>5 DEF ToSet
<1>7. PICK list : list = FlattenSeq(seqs)
  OBVIOUS
<1>8. List(list) /\ ToSet(list) = UNION {ToSet(seqs[m]) : m \in 1 .. k}
  BY <1>5, <1>6, <1>7, FlattenHolds
<1>9. list = MemberLines(i)
  BY <1>1, <1>3, <1>4, <1>7 DEF MemberLines
<1> QED
  BY <1>1, <1>5, <1>6, <1>8, <1>9

\* In its declaration nothing is cut.
LEMMA SkeletonPrints ==
  ASSUME NEW i, WellFormed(i)
  PROVE  /\ List(Skeleton(i))
         /\ \A l \in ToSet(Skeleton(i)) : l.part # "cut" /\ l.part \in Shown \cup {"opening", "closing", "member"}
<1>1. CASE i.kind \notin {"Class", "Interface"}
  BY <1>1 DEF Skeleton, WellFormed, Prints, Lines, Shown
<1>2. CASE i.kind \in {"Class", "Interface"}
  <2>1. PICK o, f, c, v : o = <<Opening(i)>> /\ f = MemberLines(i) /\ c = <<Closing>> /\ v = o \o f \o c
    OBVIOUS
  <2>2. Skeleton(i) = v
    BY <1>2, <2>1 DEF Skeleton, MemberLines
  <2>3. List(f) /\ \A l \in ToSet(f) : l.part = "member"
    <3>1. List(f) /\ \A l \in ToSet(f) : \E m \in ToSet(i.members) : l \in ToSet(m.lines)
      BY <1>2, <2>1, MembersPrint
    <3> QED
      BY <1>2, <3>1 DEF WellFormed, Prints
  <2>4. List(o) /\ ToSet(o) = {Opening(i)} /\ List(c) /\ ToSet(c) = {Closing}
    BY <2>1, ListOfOne
  <2>5. PICK u : u = o \o f
    OBVIOUS
  <2>6. Together(u, o, f)
    BY <2>3, <2>4, <2>5, ListsJoin DEF Concats
  <2>7. Together(v, u, c)
    <3>1. v = u \o c /\ List(u)
      BY <2>1, <2>5, <2>6 DEF Together
    <3>2. Concats(v, u, c)
      BY <2>4, <3>1 DEF Concats
    <3> QED
      BY <3>2, ListsJoin
  <2>8. List(v) /\ ToSet(v) = {Opening(i)} \cup ToSet(f) \cup {Closing}
    BY <2>4, <2>6, <2>7 DEF Together
  <2>9. Opening(i).part = "opening" /\ Closing.part = "closing"
    BY DEF Opening, Closing, Line
  <2> QED
    BY <2>2, <2>3, <2>8, <2>9
<1> QED
  BY <1>1, <1>2

\* A block with the declaration of an item shows that declaration.
LEMMA ItemShows ==
  ASSUME NEW i, WellFormed(i), NEW v, v = SignatureSource(i)
  PROVE  Rows(v, HideCutLines(v)) = Skeleton(i)
<1>1. PICK h, s : h = HiddenImports(i) /\ s = Skeleton(i)
  OBVIOUS
<1>2. Hidden(h) /\ List(s) /\ (\A l \in ToSet(s) : l.part # "cut") /\ v = h \o s
  BY <1>1, RefsListed, ImportsHidden, SkeletonPrints DEF WellFormed, SignatureSource
<1>3. PICK a, n : a = Len(h) /\ n = Len(v)
  OBVIOUS
<1>4. CutAtEnd(v, h, s)
  BY <1>2, CutAfterHidden DEF CutOff
<1>5. /\ List(v) /\ n = a + Len(s) /\ a \in Nat /\ Len(s) \in Nat /\ DOMAIN v = 1 .. n
      /\ \A k \in 1 .. n : CutAt(v) = {} \/ k > FirstCut(v) <=> k > a
  BY <1>3, <1>4 DEF CutAtEnd
<1>6. PICK seen : seen = HideCutLines(v)
  OBVIOUS
<1>7. \A k \in 1 .. n : k \in seen <=> a < k /\ k <= n
  BY <1>5, <1>6 DEF HideCutLines
<1>8. Rows(v, seen) = SubSeq(v, a + 1, n)
  <2>1. n \in Nat /\ a <= n /\ n <= Len(v)
    BY <1>3, <1>5
  <2> QED
    <3>1. SeenBetween(seen, v, a, n)
      BY <1>3, <1>5, <1>7, <2>1 DEF SeenBetween
    <3> QED
      BY <3>1, RowsBetween
<1>9. SubSeq(v, a + 1, n) = s
  <2>1. PICK q : q = <<>> /\ List(q) /\ Len(q) = 0
    BY ListOfNone
  <2>2. List(h) /\ v = h \o s \o q
    <3>1. List(h)
      BY <1>2, ListOfNone DEF Hidden
    <3>2. PICK X : v \in Seq(X)
      BY <1>5 DEF List
    <3> QED
      BY <1>2, <2>1, <3>1, <3>2
  <2>3. SubSeq(v, Len(h) + 1, Len(h) + Len(s)) = s
    <3>1. Encloses(v, h, s, q)
      BY <1>2, <2>1, <2>2 DEF Encloses
    <3> QED
      BY <3>1, MiddleOfList
  <2> QED
    BY <1>3, <1>5, <2>3
<1> QED
  BY <1>1, <1>6, <1>8, <1>9

\* A block with a member shows that member and not the class around it.
LEMMA MemberShows ==
  ASSUME NEW i, WellFormed(i), i.kind \in {"Class", "Interface"}, NEW m \in ToSet(i.members),
         NEW v, v = MemberSource(i, m)
  PROVE  Rows(v, MemberFormat(v)) = m.lines
<1>1. PICK h, o, s, c : h = HiddenImports(m) /\ o = <<Opening(i)>> /\ s = m.lines /\ c = <<Closing>>
  OBVIOUS
<1>2. /\ m.members = <<>> /\ List(s) /\ s # <<>> /\ (\A l \in ToSet(s) : l.part = "member")
      /\ Cited(m.refs)
  BY <1>1 DEF WellFormed, Prints, Refers, Lines
<1>3. Hidden(h)
  <2>1. Refers(m)
    BY <1>2, ListOfNone DEF Refers
  <2> QED
    BY <1>1, <2>1, RefsListed, ImportsHidden
<1>4. List(h)
  BY <1>3, ListOfNone DEF Hidden
<1>5. List(o) /\ ToSet(o) = {Opening(i)} /\ Len(o) = 1 /\ List(c) /\ ToSet(c) = {Closing} /\ Len(c) = 1
  BY <1>1, ListOfOne
<1>6. v = h \o o \o s \o c
  BY <1>1 DEF MemberSource
<1>7. PICK p, w, u : p = h \o o /\ w = o \o s /\ u = w \o c
  OBVIOUS
<1>8. Together(p, h, o) /\ Together(w, o, s)
  BY <1>2, <1>4, <1>5, <1>7, ListsJoin DEF Concats
<1>9. Together(u, w, c)
  <2>1. Concats(u, w, c)
    BY <1>5, <1>7, <1>8 DEF Concats, Together
  <2> QED
    BY <2>1, ListsJoin
<1>10. List(p) /\ Len(p) = Len(h) + 1 /\ List(u) /\ Len(u) = Len(s) + 2
       /\ ToSet(u) = {Opening(i)} \cup ToSet(s) \cup {Closing}
  <2>1. Len(s) \in Nat
    BY <1>2 DEF List
  <2> QED
    BY <1>5, <1>8, <1>9, <2>1 DEF Together
<1>11. v = h \o u
  <2>1. PICK X : X = ToSet(h) \cup ToSet(o) \cup ToSet(s) \cup ToSet(c)
    OBVIOUS
  <2>2. h \in Seq(X) /\ o \in Seq(X) /\ s \in Seq(X) /\ c \in Seq(X)
    BY <1>2, <1>4, <1>5, <2>1 DEF List
  <2>3. (h \o o) \o s = h \o w
    BY <1>7, <2>2, ConcatAssociative, SMTT(30)
  <2>4. w \in Seq(X)
    BY <1>7, <2>2
  <2>5. (h \o w) \o c = h \o u
    BY <1>7, <2>2, <2>4, ConcatAssociative, SMTT(30)
  <2> QED
    BY <1>6, <2>3, <2>5
<1>12. \A l \in ToSet(u) : l.part # "cut"
  <2>1. Opening(i).part = "opening" /\ Closing.part = "closing"
    BY DEF Opening, Closing, Line
  <2> QED
    BY <1>2, <1>10, <2>1
<1>13. PICK a, n, k : a = Len(h) /\ n = Len(v) /\ k = Len(s)
  OBVIOUS
<1>14. /\ List(v) /\ n = a + k + 2 /\ a \in Nat /\ k \in Nat /\ DOMAIN v = 1 .. n
       /\ CutAt(v) = {} => h = <<>>
       /\ CutAt(v) # {} => FirstCut(v) = a
  <2>1. k \in Nat
    BY <1>2, <1>13 DEF List
  <2>2. CutAtEnd(v, h, u)
    BY <1>3, <1>10, <1>11, <1>12, CutAfterHidden DEF CutOff
  <2> QED
    BY <1>10, <1>13, <2>1, <2>2 DEF CutAtEnd
<1>15. k >= 1
  BY <1>2, <1>13, <1>14 DEF List
<1>16. h = <<>> => a = 0
  BY <1>13
<1>17. PICK seen : seen = MemberFormat(v)
  OBVIOUS
<1>18. \A j \in 1 .. n : j \in seen <=> a + 1 < j /\ j <= a + 1 + k
  <2>1. seen = {j \in 2 .. n - 1 : CutAt(v) = {} \/ j > FirstCut(v) + 1}
    <3>1. ~(Len(v) < 3)
      BY <1>13, <1>14, <1>15
    <3> QED
      BY <1>13, <1>17, <3>1 DEF MemberFormat
  <2> QED
    BY <1>14, <1>15, <1>16, <2>1
<1>19. Rows(v, seen) = SubSeq(v, a + 2, a + 1 + k)
  <2>1. PICK b, d : b = a + 1 /\ d = a + 1 + k
    OBVIOUS
  <2>2. b \in Nat /\ d \in Nat /\ b <= d /\ d <= Len(v) /\ b + 1 = a + 2
    BY <1>13, <1>14, <2>1
  <2>3. \A j \in 1 .. Len(v) : j \in seen <=> b < j /\ j <= d
    BY <1>13, <1>18, <2>1
  <2>4. Rows(v, seen) = SubSeq(v, b + 1, d)
    <3>1. SeenBetween(seen, v, b, d)
      BY <1>14, <2>2, <2>3 DEF SeenBetween
    <3> QED
      BY <3>1, RowsBetween
  <2> QED
    BY <2>1, <2>2, <2>4
<1>20. SubSeq(v, a + 2, a + 1 + k) = s
  <2>1. v = p \o s \o c
    BY <1>6, <1>7
  <2>2. SubSeq(v, Len(p) + 1, Len(p) + Len(s)) = s
    <3>1. Encloses(v, p, s, c)
      BY <1>2, <1>5, <1>10, <2>1 DEF Encloses
    <3> QED
      BY <3>1, MiddleOfList
  <2>3. Len(p) + 1 = a + 2 /\ Len(p) + Len(s) = a + 1 + k
    BY <1>10, <1>13, <1>14
  <2> QED
    BY <2>2, <2>3
<1> QED
  BY <1>1, <1>17, <1>19, <1>20

\* A block is one of those of its page.
LEMMA BlockShows ==
  ASSUME PassInv, NEW b \in Blocks
  PROVE  ShowsCode(At(b))
<1>1. site \in Sites /\ pages = Pages
  BY DEF PassInv, TypeInv
<1>2. PICK p \in DOMAIN pages : b \in {p} \X DOMAIN pages[p]
  BY DEF Blocks
<1>3. b[1] = p /\ b[2] \in DOMAIN pages[p]
  BY <1>2
<1>4. ShowsCode(pages[p][b[2]])
  BY <1>1, <1>2, <1>3, PagesShow
<1> QED
  BY <1>3, <1>4 DEF At

\* What a block is of is told by its component.
LEMMA ComponentTells ==
  ASSUME NEW x, ShowsCode(x)
  PROVE  /\ x.component = "ApiSignature" => ShowsItem(x)
         /\ x.component = "ApiMember" => ShowsMember(x)
         /\ x.component = "ApiExample" => ShowsExample(x)
         /\ x.component = "with-api" => ShowsFence(x)
<1>1. ShowsItem(x) => x.component = "ApiSignature"
  BY DEF ShowsItem, Signature, Block
<1>2. ShowsMember(x) => x.component = "ApiMember"
  <2>1. ASSUME ShowsMember(x) PROVE \E lines, of : x = [Block("ApiMember", lines, {}, 1) EXCEPT !.of = of]
    BY <2>1, Zenon DEF ShowsMember
  <2> QED
    BY <2>1 DEF Block
<1>3. ShowsExample(x) => x.component = "ApiExample"
  BY DEF ShowsExample, ExampleBlock, Block
<1>4. ShowsFence(x) => x.component = "with-api"
  BY DEF ShowsFence, Block
<1> QED
  BY <1>1, <1>2, <1>3, <1>4 DEF ShowsCode

\* A reader of a signature or a member sees its declaration, all of it and
\* nothing else (prependHiddenImports, memberContext and the transformers that
\* hide what they add).
THEOREM DeclarationsShow == Spec => []VisibleIsDeclared
<1>1. ASSUME PassInv, NEW b \in Blocks, At(b).component = "ApiSignature"
      PROVE  Rows(At(b).lines, HideCutLines(At(b).lines)) = Skeleton(At(b).of)
  <2>1. PICK x : x = At(b)
    OBVIOUS
  <2>2. ShowsItem(x)
    BY <1>1, <2>1, BlockShows, ComponentTells
  <2>3. PICK i \in ToSet(Items) : x = Signature(i)
    BY <2>2 DEF ShowsItem
  <2>4. x.lines = SignatureSource(i) /\ x.of = i
    BY <2>3 DEF Signature, Block
  <2>5. WellFormed(i)
    BY <1>1, ItemsListed DEF PassInv, TypeInv
  <2> QED
    BY <2>1, <2>4, <2>5, ItemShows
<1>2. ASSUME PassInv, NEW b \in Blocks, At(b).component = "ApiMember"
      PROVE  Rows(At(b).lines, MemberFormat(At(b).lines)) = At(b).of.lines
  <2>1. PICK x : x = At(b)
    OBVIOUS
  <2>2. ShowsMember(x)
    BY <1>2, <2>1, BlockShows, ComponentTells
  <2>3. PICK i \in ToSet(Items) : i.kind \in {"Class", "Interface"} /\ \E m \in ToSet(i.members) :
          x = [Block("ApiMember", MemberSource(i, m), {}, 1) EXCEPT !.of = m]
    BY <2>2, Zenon DEF ShowsMember
  <2>4. PICK m \in ToSet(i.members) : x = [Block("ApiMember", MemberSource(i, m), {}, 1) EXCEPT !.of = m]
    BY <2>3, Zenon
  <2>5. x.lines = MemberSource(i, m) /\ x.of = m
    BY <2>4 DEF Block
  <2>6. WellFormed(i)
    BY <1>2, ItemsListed DEF PassInv, TypeInv
  <2> QED
    BY <2>1, <2>3, <2>5, <2>6, MemberShows
<1>3. PassInv => VisibleIsDeclared
  BY <1>1, <1>2 DEF VisibleIsDeclared
<1> QED
  BY <1>3, PassInvAlways, PTL

--------------------------------------------------------------------------------
(* What a file mentions, and what it imports. *)

Keeps(v, list, kinds) == List(list) /\ v = OfKind(list, kinds)
Kept(v, list, kinds) == List(v) /\ ToSet(v) = {x \in ToSet(list) : x.kind \in kinds}

\* Of a list those of some kinds.
LEMMA OfKindKeeps ==
  ASSUME NEW v, NEW list, NEW kinds, Keeps(v, list, kinds)
  PROVE  Kept(v, list, kinds)
<1>1. List(list) /\ v = OfKind(list, kinds)
  BY DEF Keeps
<1>2. PICK n \in Nat : DOMAIN list = 1 .. n
  BY <1>1, ListIsListed
<1>3. PICK seqs : seqs = [k \in 1 .. n |-> IF list[k].kind \in kinds THEN <<list[k]>> ELSE <<>>]
  OBVIOUS
<1>4. DOMAIN seqs = 1 .. n /\ seqs = [k \in 1 .. n |-> seqs[k]]
  BY <1>3
<1>5. ASSUME NEW k \in 1 .. n
      PROVE  List(seqs[k]) /\ ToSet(seqs[k]) = IF list[k].kind \in kinds THEN {list[k]} ELSE {}
  <2>1. seqs[k] = IF list[k].kind \in kinds THEN <<list[k]>> ELSE <<>>
    BY <1>3
  <2> QED
    BY <2>1, ListOfOne, ListOfNone
<1>6. v = FlattenSeq(seqs)
  BY <1>1, <1>2, <1>3 DEF OfKind
<1>7. List(v) /\ ToSet(v) = UNION {ToSet(seqs[k]) : k \in 1 .. n}
  BY <1>4, <1>5, <1>6, FlattenHolds
<1>8. ToSet(list) = {list[k] : k \in 1 .. n}
  BY <1>2 DEF ToSet
<1>9. ToSet(v) = {x \in ToSet(list) : x.kind \in kinds}
  <2>1. ASSUME NEW x \in ToSet(v) PROVE x \in ToSet(list) /\ x.kind \in kinds
    <3>1. PICK k \in 1 .. n : x \in ToSet(seqs[k])
      BY <1>7, <2>1
    <3>2. x = list[k] /\ list[k].kind \in kinds
      BY <1>5, <3>1
    <3> QED
      BY <1>8, <3>2
  <2>2. ASSUME NEW x \in ToSet(list), x.kind \in kinds PROVE x \in ToSet(v)
    <3>1. PICK k \in 1 .. n : x = list[k]
      BY <1>8, <2>2
    <3>2. x \in ToSet(seqs[k])
      BY <1>5, <2>2, <3>1
    <3> QED
      BY <1>7, <3>2
  <2> QED
    BY <2>1, <2>2
<1> QED
  BY <1>7, <1>9 DEF Kept

\* What is printed of the members are some of them.
LEMMA PrintedAreMembers ==
  ASSUME NEW i, List(i.members), NEW v, v = Printed(i)
  PROVE  List(v) /\ ToSet(v) \subseteq ToSet(i.members)
<1>1. PICK kinds : v = OfKind(i.members, kinds)
  BY DEF Printed
<1>2. Keeps(v, i.members, kinds)
  BY <1>1 DEF Keeps
<1> QED
  BY <1>2, OfKindKeeps DEF Kept

\* Every mention is a reference of the item to another package.
LEMMA MentionsReferred ==
  ASSUME NEW i, Refers(i), NEW x \in Mentions(i)
  PROVE  x.of \in ToSet(Refs(i)) /\ x.of.pkg \notin {BuiltIn, Own} /\ x.text = Normalize(x.of)
<1>1. PICK own, members, direct : own = i.refs /\ members = i.members /\ direct = Printed(i)
  OBVIOUS
<1>2. Cited(own) /\ List(members) /\ List(direct) /\ ToSet(direct) \subseteq ToSet(members)
  BY <1>1, PrintedAreMembers DEF Refers
<1> DEFINE Deep(m) == m.refs \o FlattenSeq([n \in DOMAIN Printed(m) |-> Printed(m)[n].refs])
           All(m)  == ToSet(m.refs) \cup UNION {ToSet(n.refs) : n \in ToSet(m.members)}
<1>3. ASSUME NEW m \in ToSet(members)
      PROVE  Cited(Deep(m)) /\ ToSet(Deep(m)) \subseteq All(m)
  <2>1. PICK refs, inner, v : refs = m.refs /\ inner = Printed(m) /\ v = Deep(m)
    OBVIOUS
  <2>2. List(m.members) /\ Cited(m.refs) /\ \A n \in ToSet(m.members) : Cited(n.refs)
    BY <1>1 DEF Refers
  <2>3. List(inner) /\ ToSet(inner) \subseteq ToSet(m.members)
    BY <2>1, <2>2, PrintedAreMembers
  <2>4. CitesDeep(v, refs, inner)
    BY <2>1, <2>2, <2>3 DEF CitesDeep
  <2>5. CitesAll(v, refs, inner)
    BY <2>4, DeepCited
  <2> QED
    BY <2>1, <2>3, <2>5 DEF CitesAll
<1>4. PICK k \in Nat : DOMAIN direct = 1 .. k
  BY <1>2, ListIsListed
<1>5. PICK lists : lists = [m \in 1 .. k |-> Deep(direct[m])]
  OBVIOUS
<1>6. DOMAIN lists = 1 .. k /\ lists = [m \in 1 .. k |-> lists[m]] /\ \A m \in 1 .. k : lists[m] = Deep(direct[m])
  BY <1>5
<1>7. PICK v : v = own \o FlattenSeq(lists)
  OBVIOUS
<1>8. Mentions(i) = {[text |-> Normalize(r), of |-> r] : r \in {q \in ToSet(v) : q.pkg \notin {BuiltIn, Own}}}
  BY <1>1, <1>4, <1>5, <1>7 DEF Mentions
<1> HIDE DEF Deep, All
<1>9. \A m \in 1 .. k : direct[m] \in ToSet(members) /\ Cited(lists[m]) /\ ToSet(lists[m]) \subseteq All(direct[m])
  <2>1. \A m \in 1 .. k : direct[m] \in ToSet(direct)
    BY <1>4 DEF ToSet
  <2> QED
    BY <1>2, <1>3, <1>6, <2>1
<1>10. CitesThem(v, own, lists, k)
  <2>1. CitesEach(v, own, lists, k)
    BY <1>2, <1>6, <1>7, <1>9 DEF CitesEach
  <2> QED
    BY <2>1, EachCited
<1>11. ToSet(Refs(i)) = ToSet(own) \cup UNION {All(m) : m \in ToSet(members)}
  BY <1>1, RefsListed DEF All
<1>12. ToSet(v) \subseteq ToSet(Refs(i))
  BY <1>9, <1>10, <1>11 DEF CitesThem
<1>13. PICK r \in ToSet(v) : r.pkg \notin {BuiltIn, Own} /\ x = [text |-> Normalize(r), of |-> r]
  BY <1>8
<1> QED
  BY <1>12, <1>13

\* A reference is imported under the first of the names the file uses for it.
LEMMA RootImported ==
  ASSUME NEW r, List(r.text), r.text # <<>>, ByItsName(r)
  PROVE  Imported(r) = [pkg |-> r.pkg, name |-> <<Root(Normalize(r))>>]
<1>1. PICK text, X, n : text = r.text /\ X = ToSet(r.text) /\ n = Len(r.text)
  OBVIOUS
<1>2. text \in Seq(X) /\ n \in Nat /\ n = Len(text) /\ n >= 1
  BY <1>1 DEF List
<1>3. PICK stem, bare, last : last = text[n] /\ stem = Stem[last] /\ bare = Front(text) \o <<stem>>
  OBVIOUS
<1>4. Normalize(r) = IF bare \in {r.sym, <<Last(r.sym)>>} THEN bare ELSE text
  BY <1>1, <1>2, <1>3 DEF Normalize, Last
<1>5. PICK Y : Y = X \cup {stem}
  OBVIOUS
<1>6. PICK front : front = Front(text)
  OBVIOUS
<1>7. front \in Seq(Y) /\ Len(front) = n - 1 /\ \A k \in 1 .. n - 1 : front[k] = text[k]
  BY <1>2, <1>5, <1>6 DEF Front
<1>8. bare \in Seq(Y) /\ Len(bare) = n /\ \A k \in 1 .. n - 1 : bare[k] = text[k]
  BY <1>2, <1>3, <1>5, <1>6, <1>7
<1>9. CASE n > 1
  <2>1. bare[1] = text[1] /\ Head(bare) = bare[1] /\ Head(text) = text[1]
    BY <1>2, <1>8, <1>9
  <2>2. Head(Normalize(r)) = text[1]
    BY <1>4, <2>1
  <2> QED
    BY <1>1, <1>9, <2>2 DEF Imported, Root
<1>10. CASE n = 1
  <2>1. r.sym = Normalize(r)
    BY <1>1, <1>10 DEF ByItsName
  <2>2. PICK sym : sym = r.sym /\ sym \in Seq(Y) /\ Len(sym) = 1
    <3>1. r.sym = bare \/ r.sym = text
      BY <1>4, <2>1
    <3>2. bare \in Seq(Y) /\ text \in Seq(Y) /\ Len(bare) = 1 /\ Len(text) = 1
      BY <1>2, <1>5, <1>8, <1>10
    <3> QED
      BY <3>1, <3>2
  <2>3. sym = <<Head(sym)>>
    BY <2>2
  <2>4. Imported(r) = [pkg |-> r.pkg, name |-> r.sym]
    BY <1>1, <1>10 DEF Imported
  <2> QED
    BY <2>1, <2>2, <2>3, <2>4 DEF Root
<1> QED
  BY <1>2, <1>9, <1>10

\* All references of the items of an entry point.
EntryRefs(f) == FlattenSeq([i \in DOMAIN site.entries[f].items |-> Refs(site.entries[f].items[i])])

\* They are those it refers with.
LEMMA EntryRefsListed ==
  ASSUME site \in Sites, NEW f \in DOMAIN site.entries
  PROVE  /\ Cited(EntryRefs(f)) /\ ToSet(EntryRefs(f)) = Referred(f)
         /\ List(site.entries[f].items) /\ \A i \in ToSet(site.entries[f].items) : WellFormed(i)
<1>1. PICK items : items = site.entries[f].items
  OBVIOUS
<1>2. List(items) /\ \A i \in ToSet(items) : WellFormed(i)
  <2>1. site.entries[f] \in ToSet(site.entries)
    BY DEF ToSet
  <2> QED
    BY <1>1, <2>1, SitesAssumption
<1>3. PICK n \in Nat : DOMAIN items = 1 .. n
  BY <1>2, ListIsListed
<1>4. PICK lists : lists = [i \in 1 .. n |-> Refs(items[i])]
  OBVIOUS
<1>5. DOMAIN lists = 1 .. n /\ lists = [i \in 1 .. n |-> lists[i]] /\ \A i \in 1 .. n : lists[i] = Refs(items[i])
  BY <1>4
<1>6. \A i \in 1 .. n : Cited(lists[i])
  <2>1. \A i \in 1 .. n : items[i] \in ToSet(items)
    BY <1>3 DEF ToSet
  <2> QED
    BY <1>2, <1>5, <2>1, RefsListed DEF WellFormed
<1>7. PICK v : v = EntryRefs(f)
  OBVIOUS
<1>8. v = FlattenSeq(lists)
  BY <1>1, <1>3, <1>4, <1>7 DEF EntryRefs
<1>9. List(v) /\ ToSet(v) = UNION {ToSet(lists[i]) : i \in 1 .. n}
  BY <1>5, <1>6, <1>8, FlattenHolds DEF Cited
<1>10. Referred(f) = UNION {ToSet(lists[i]) : i \in 1 .. n}
  <2>1. ToSet(items) = {items[i] : i \in 1 .. n}
    BY <1>3 DEF ToSet
  <2> QED
    BY <1>1, <1>5, <2>1 DEF Referred
<1>11. \A r \in ToSet(v) : List(r.text) /\ r.text # <<>>
  BY <1>6, <1>9 DEF Cited
<1> QED
  BY <1>1, <1>2, <1>7, <1>9, <1>10, <1>11 DEF Cited

KnownOf(e, R) == DOMAIN e = {Canonical(r) : r \in R} /\ \A c \in DOMAIN e : e[c] \in R /\ Canonical(e[c]) = c

\* What the entry point refers with is what its imports are made from.
LEMMA EntryImports ==
  ASSUME site \in Sites, NEW f \in DOMAIN site.entries,
         NEW e, e = Extract(<<>>, EntryRefs(f))
  PROVE  KnownOf(e, Referred(f))
<1>1. PICK refs : refs = EntryRefs(f) /\ List(refs) /\ ToSet(refs) = Referred(f)
  BY EntryRefsListed DEF Cited
<1>2. PICK n \in Nat : DOMAIN refs = 1 .. n
  BY <1>1, ListIsListed
<1>3. Knows(e, refs, n)
  <2>1. Extracts(e, refs, n)
    BY <1>1, <1>2 DEF Extracts
  <2> QED
    BY <2>1, ExtractKnows
<1>4. PICK R : R = Referred(f) /\ R = {refs[k] : k \in 1 .. n}
  <2>1. ToSet(refs) = {refs[k] : k \in 1 .. n}
    BY <1>2 DEF ToSet
  <2> QED
    BY <1>1, <2>1
<1>5. DOMAIN e = {Canonical(r) : r \in R}
  <2>1. DOMAIN e = {Canonical(refs[k]) : k \in 1 .. n}
    BY <1>3 DEF Knows
  <2>2. \A c : (\E k \in 1 .. n : c = Canonical(refs[k])) <=> (\E r \in R : c = Canonical(r))
    BY <1>4, Zenon
  <2> QED
    BY <2>1, <2>2
<1>6. ASSUME NEW c \in DOMAIN e PROVE e[c] \in R /\ Canonical(e[c]) = c
  <2>1. PICK k \in 1 .. n : e[c] = refs[k] /\ c = Canonical(refs[k])
    BY <1>3 DEF Knows
  <2> QED
    BY <1>4, <2>1
<1> QED
  BY <1>4, <1>5, <1>6 DEF KnownOf

\* Files say what their entry points do, and have been given their imports
\* unless they are still to be.
FilesInv ==
  /\ phase \in {"modelled", "failed"} => files = <<>>
  /\ phase \in {"rendering", "reported"} => todo = {}
  /\ phase \in {"declaring", "rendering", "reported"} =>
       /\ DOMAIN files = DOMAIN site.entries
       /\ \A f \in DOMAIN files :
            /\ "imports" \in DOMAIN files[f]
            /\ files[f].mentions = Body(site.entries[f].items).mentions
            /\ files[f].comments = Body(site.entries[f].items).comments
            /\ files[f].imports = IF f \in todo THEN {} ELSE Imports(Extract(<<>>, EntryRefs(f)))

LEMMA InitFiles == Init => FilesInv
BY DEF Init, FilesInv

LEMMA NextFiles == PassInv /\ FilesInv /\ [Next]_vars => FilesInv'
<1> SUFFICES ASSUME PassInv, FilesInv, [Next]_vars PROVE FilesInv'
  OBVIOUS
<1>1. ASSUME site' = site, files' = files, todo' = todo,
             phase' = phase \/ (phase = "rendering" /\ phase' = "reported") \/ (phase = "modelled" /\ phase' = "failed")
      PROVE  FilesInv'
  BY <1>1 DEF FilesInv, EntryRefs
<1>2. CASE Fail \/ WriteArtifacts \/ UNCHANGED vars
  BY <1>1, <1>2 DEF Fail, WriteArtifacts, vars
<1>3. CASE Declare
  <2>1. site' = site /\ files' = Files(site.entries) /\ todo' = DOMAIN site.entries /\ phase' = "declaring"
    BY <1>3 DEF Declare
  <2>2. DOMAIN files' = DOMAIN site.entries /\ \A f \in DOMAIN site.entries : files'[f] = Body(site.entries[f].items)
    BY <2>1 DEF Files
  <2>3. \A items : "imports" \in DOMAIN Body(items) /\ Body(items).imports = {}
    BY DEF Body
  <2>4. ASSUME NEW f \in DOMAIN site.entries
        PROVE  /\ "imports" \in DOMAIN files'[f] /\ files'[f].imports = {}
               /\ files'[f].mentions = Body(site.entries[f].items).mentions
               /\ files'[f].comments = Body(site.entries[f].items).comments
    BY <2>2, <2>3
  <2> QED
    BY <2>1, <2>2, <2>4 DEF FilesInv
<1>4. ASSUME NEW e \in DOMAIN site.entries, PrependImports(e) PROVE FilesInv'
  <2>1. /\ site' = site /\ phase = "declaring" /\ e \in todo /\ todo' = todo \ {e}
        /\ phase' = (IF todo' = {} THEN "rendering" ELSE phase)
        /\ files' = [files EXCEPT ![e].imports = Imports(Extract(<<>>, EntryRefs(e)))]
    BY <1>4 DEF PrependImports, EntryRefs
  <2>2. PICK I : I = Imports(Extract(<<>>, EntryRefs(e)))
    OBVIOUS
  <2>3. DOMAIN files = DOMAIN site.entries
    BY <2>1 DEF FilesInv
  <2>4. DOMAIN files' = DOMAIN files /\ \A f \in DOMAIN files : files'[f] = IF f = e THEN [files[e] EXCEPT !.imports = I] ELSE files[f]
    BY <2>1, <2>2, <2>3
  <2>5. ASSUME NEW f \in DOMAIN files
        PROVE  /\ "imports" \in DOMAIN files'[f]
               /\ files'[f].mentions = Body(site.entries[f].items).mentions
               /\ files'[f].comments = Body(site.entries[f].items).comments
               /\ files'[f].imports = IF f \in todo' THEN {} ELSE Imports(Extract(<<>>, EntryRefs(f)))
    <3>1. PICK old, new : old = files[f] /\ new = files'[f]
      OBVIOUS
    <3>2. /\ "imports" \in DOMAIN old /\ old.mentions = Body(site.entries[f].items).mentions
          /\ old.comments = Body(site.entries[f].items).comments
          /\ old.imports = IF f \in todo THEN {} ELSE Imports(Extract(<<>>, EntryRefs(f)))
      BY <2>1, <3>1 DEF FilesInv
    <3>3. CASE f = e
      <4>1. new = [old EXCEPT !.imports = I] /\ f \notin todo'
        BY <2>1, <2>4, <3>1, <3>3
      <4>2. new.mentions = old.mentions /\ new.comments = old.comments /\ new.imports = I /\ "imports" \in DOMAIN new
        BY <3>2, <4>1
      <4> QED
        BY <2>2, <3>1, <3>2, <3>3, <4>1, <4>2
    <3>4. CASE f # e
      <4>1. new = old /\ (f \in todo' <=> f \in todo)
        BY <2>1, <2>4, <3>1, <3>4
      <4> QED
        BY <3>1, <3>2, <4>1
    <3> QED
      BY <3>3, <3>4
  <2> QED
    BY <2>1, <2>3, <2>4, <2>5 DEF FilesInv, EntryRefs
<1>5. ASSUME NEW p \in DOMAIN pages, StartGenerated(p) \/ SkipGenerated(p) \/ StartAuthored(p) PROVE FilesInv'
  BY <1>1, <1>5 DEF StartGenerated, SkipGenerated, StartAuthored
<1>6. ASSUME NEW b \in Blocks, Format(b) \/ Highlight(b) \/ Link(b) PROVE FilesInv'
  BY <1>1, <1>6 DEF Format, Highlight, Link
<1> QED
  BY <1>2, <1>3, <1>4, <1>5, <1>6 DEF Next

LEMMA FilesInvAlways == Spec => [](PassInv /\ FilesInv)
<1>1. Init => PassInv /\ FilesInv
  BY InitInv, InitFiles
<1>2. PassInv /\ FilesInv /\ [Next]_vars => (PassInv /\ FilesInv)'
  BY NextInv, NextFiles
<1> QED
  BY <1>1, <1>2, PTL DEF Spec

\* Whatever a declaration file mentions of another package is imported into it
\* under the name it is mentioned by, and nothing is that its entry point does
\* not refer to (VirtualPackage, prependImportsToVfs and TypeReferenceExtractor).
THEOREM FilesImportWhatTheyUse == Spec => []ImportsFit
<1>1. ASSUME PassInv, FilesInv PROVE ImportsBindMentions
  <2> SUFFICES ASSUME phase \in {"rendering", "reported"}, NEW f \in DOMAIN files, NEW m \in files[f].mentions,
                      OneWay(f, m.of)
               PROVE  [pkg |-> m.of.pkg, name |-> <<Root(m.text)>>] \in files[f].imports
    BY DEF ImportsBindMentions
  <2>1. PICK e : e = Extract(<<>>, EntryRefs(f))
    OBVIOUS
  <2>2. /\ site \in Sites /\ f \in DOMAIN site.entries
        /\ files[f].mentions = Body(site.entries[f].items).mentions /\ files[f].imports = Imports(e)
    BY <1>1, <2>1 DEF FilesInv, PassInv, TypeInv
  <2>3. PICK items, shown : items = site.entries[f].items /\ shown = OfKind(items, Declared)
    OBVIOUS
  <2>4. List(items) /\ (\A i \in ToSet(items) : WellFormed(i)) /\ \A q \in Referred(f) : List(q.text) /\ q.text # <<>>
    BY <2>2, <2>3, EntryRefsListed DEF Cited
  <2>5. ToSet(shown) \subseteq ToSet(items)
    <3>1. Keeps(shown, items, Declared)
      BY <2>3, <2>4 DEF Keeps
    <3> QED
      BY <3>1, OfKindKeeps DEF Kept
  <2>6. PICK i \in ToSet(items) : m \in Mentions(i)
    <3>1. Body(items).mentions = UNION {Mentions(i) : i \in ToSet(shown)}
      BY <2>3 DEF Body
    <3> QED
      BY <2>2, <2>3, <2>5, <3>1
  <2>7. PICK r : r = m.of
    OBVIOUS
  <2>8. r \in Referred(f) /\ r.pkg \notin {BuiltIn, Own} /\ m.text = Normalize(r)
    <3>1. r \in ToSet(Refs(i)) /\ r.pkg \notin {BuiltIn, Own} /\ m.text = Normalize(r)
      BY <2>4, <2>6, <2>7, MentionsReferred DEF WellFormed
    <3> QED
      BY <2>3, <2>6, <3>1 DEF Referred
  <2>9. PICK c, q : c = Canonical(r) /\ q = e[c]
    OBVIOUS
  <2>10. c \in DOMAIN e /\ q \in Referred(f) /\ Canonical(q) = c
    <3>1. KnownOf(e, Referred(f))
      BY <2>1, <2>2, EntryImports
    <3> QED
      BY <2>8, <2>9, <3>1 DEF KnownOf
  <2>11. c[1] = r.pkg /\ q.pkg = r.pkg
    BY <2>9, <2>10 DEF Canonical
  <2>12. Imported(q) \in Imports(e)
    BY <2>8, <2>9, <2>10, <2>11 DEF Imports
  <2>13. ByItsName(q) /\ Root(Normalize(q)) = Root(Normalize(r))
    BY <2>7, <2>9, <2>10 DEF OneWay
  <2>14. Imported(q) = [pkg |-> q.pkg, name |-> <<Root(Normalize(q))>>]
    BY <2>4, <2>10, <2>13, RootImported
  <2> QED
    BY <2>2, <2>7, <2>8, <2>11, <2>12, <2>13, <2>14
<1>2. ASSUME PassInv, FilesInv PROVE ImportsAreOwn
  <2> SUFFICES ASSUME NEW f \in DOMAIN files, NEW x \in files[f].imports
               PROVE  \E n \in DOMAIN site.entries[f].items : \E r \in ToSet(Refs(site.entries[f].items[n])) : Imported(r) = x
    BY DEF ImportsAreOwn
  <2>1. PICK e : e = Extract(<<>>, EntryRefs(f))
    OBVIOUS
  <2>2. site \in Sites /\ phase \in Phases /\ files # <<>>
    BY <1>2 DEF PassInv, TypeInv
  <2>3. phase \in {"declaring", "rendering", "reported"}
    BY <1>2, <2>2 DEF FilesInv, Phases
  <2>4. f \in DOMAIN site.entries /\ x \in Imports(e)
    BY <1>2, <2>1, <2>3 DEF FilesInv
  <2>5. PICK c \in DOMAIN e : x = Imported(e[c])
    BY <2>4 DEF Imports
  <2>6. e[c] \in Referred(f)
    BY <2>1, <2>2, <2>4, <2>5, EntryImports DEF KnownOf
  <2>7. PICK i \in ToSet(site.entries[f].items) : e[c] \in ToSet(Refs(i))
    BY <2>6 DEF Referred
  <2>8. PICK n \in DOMAIN site.entries[f].items : i = site.entries[f].items[n]
    BY <2>7 DEF ToSet
  <2> QED
    BY <2>5, <2>7, <2>8
<1>3. PassInv /\ FilesInv => ImportsFit
  BY <1>1, <1>2 DEF ImportsFit
<1> QED
  BY <1>3, FilesInvAlways, PTL

--------------------------------------------------------------------------------
(* What cut-start and cut-end lines enclose. *)

\* The starts that are open and the ranges found, a line further.
Taken(st, parts, n) ==
  CASE parts[n] = "cut-start" -> [st EXCEPT !.open = Append(@, n)]
    [] parts[n] = "cut-end" /\ st.open # <<>> ->
         [open |-> Front(st.open), ranges |-> st.ranges \cup {<<Last(st.open), n>>}]
    [] OTHER -> st
Scans(n) == [open : Seq(1 .. n), ranges : SUBSET ((1 .. n) \X (1 .. n))]
NoScan   == [open |-> <<>>, ranges |-> {}]

LEMMA TakenIsScan ==
  ASSUME NEW n \in Nat, NEW parts, NEW k \in 1 .. n, NEW st \in Scans(n)
  PROVE  Taken(st, parts, k) \in Scans(n)
<1>1. PICK open, ranges : open = st.open /\ ranges = st.ranges /\ st = [open |-> open, ranges |-> ranges]
  BY DEF Scans
<1>2. open \in Seq(1 .. n) /\ ranges \in SUBSET ((1 .. n) \X (1 .. n))
  BY <1>1 DEF Scans
<1>3. CASE parts[k] = "cut-start"
  <2>1. Append(open, k) \in Seq(1 .. n)
    BY <1>2
  <2>2. Taken(st, parts, k) = [open |-> Append(open, k), ranges |-> ranges]
    BY <1>1, <1>3 DEF Taken
  <2> QED
    BY <1>2, <2>1, <2>2 DEF Scans
<1>4. CASE parts[k] = "cut-end" /\ open # <<>>
  <2>1. PICK front, last : front = Front(open) /\ last = Last(open)
    OBVIOUS
  <2>2. front \in Seq(1 .. n) /\ last \in 1 .. n
    BY <1>2, <1>4, <2>1 DEF Front, Last
  <2>3. Taken(st, parts, k) = [open |-> front, ranges |-> ranges \cup {<<last, k>>}]
    BY <1>1, <1>4, <2>1 DEF Taken
  <2> QED
    BY <1>2, <2>2, <2>3 DEF Scans
<1>5. CASE parts[k] # "cut-start" /\ ~(parts[k] = "cut-end" /\ open # <<>>)
  BY <1>1, <1>5 DEF Taken
<1> QED
  BY <1>3, <1>4, <1>5

\* h goes from nothing over the n lines, and ranges are what it finds.
ScansTo(h, parts, n, ranges) ==
  /\ h \in [0 .. n -> Scans(n)] /\ h[0] = NoScan /\ h[n].ranges = ranges
  /\ \A k \in 1 .. n : h[k] = Taken(h[k - 1], parts, k)

\* The ranges of some parts are found line by line.
LEMMA RangesSteps ==
  ASSUME NEW n \in Nat, NEW parts, DOMAIN parts = 1 .. n
  PROVE  \E h : ScansTo(h, parts, n, Ranges(parts))
<1> DEFINE list == [k \in DOMAIN parts |-> k]
           op == [k \in 1 .. n |-> [st \in Scans(n) |-> Taken(st, parts, k)]]
           Folds(g) == g = [s \in SUBSET DOMAIN list |->
                              IF s = {} THEN NoScan ELSE Taken(g[s \ {Max(s)}], parts, list[Max(s)])]
           chosen == CHOOSE g : Folds(g)
<1>1. Ranges(parts) = chosen[DOMAIN list].ranges
  BY DEF Ranges, FoldLeft, MapThenFoldSet, Taken, NoScan
<1>2. DOMAIN list = 1 .. n /\ \A k \in 1 .. n : list[k] = k
  OBVIOUS
<1> HIDE DEF list
<1>3. op \in [1 .. n -> [Scans(n) -> Scans(n)]]
  BY TakenIsScan
<1>4. NoScan \in Scans(n)
  BY DEF NoScan, Scans
<1>5. ASSUME NEW k \in 1 .. n, NEW st \in Scans(n) PROVE op[k][st] = Taken(st, parts, k)
  OBVIOUS
<1> HIDE DEF op
<1>6. ASSUME NEW s \in SUBSET (1 .. n), s # {} PROVE Max(s) \in 1 .. n /\ list[Max(s)] = Max(s)
  BY <1>2, <1>6, LatestChooses DEF Latest
<1>7. \E g : Folds(g)
  <2>1. PICK f \in [SUBSET (1 .. n) -> Scans(n)] : FoldsUp(f, n, NoScan, op)
    BY <1>3, <1>4, SequenceFoldExists
  <2>2. ASSUME NEW s \in SUBSET (1 .. n)
        PROVE  f[s] = IF s = {} THEN NoScan ELSE Taken(f[s \ {Max(s)}], parts, list[Max(s)])
    <3>1. f[s] = IF s = {} THEN NoScan ELSE op[Max(s)][f[s \ {Max(s)}]]
      BY <2>1 DEF FoldsUp
    <3>2. f[s \ {Max(s)}] \in Scans(n)
      OBVIOUS
    <3> QED
      BY <1>5, <1>6, <3>1, <3>2
  <2>3. Folds(f)
    BY <1>2, <2>1, <2>2 DEF FoldsUp
  <2> QED
    BY <2>3
<1>8. PICK g : g = chosen /\ Folds(g)
  <2> HIDE DEF Folds
  <2> QED
    BY <1>7
<1> HIDE DEF chosen
<1>9. g = [s \in SUBSET (1 .. n) |-> g[s]] /\ g[{}] = NoScan
  BY <1>2, <1>8
<1>10. ASSUME NEW s \in SUBSET (1 .. n), s # {}, g[s \ {Max(s)}] \in Scans(n)
       PROVE  g[s] = op[Max(s)][g[s \ {Max(s)}]]
  <2>1. g[s] = Taken(g[s \ {Max(s)}], parts, list[Max(s)])
    BY <1>2, <1>8, <1>10
  <2> QED
    BY <1>5, <1>6, <1>10, <2>1
<1>11. PICK h \in [0 .. n -> Scans(n)] : StepsTo(h, n, NoScan, op, g[1 .. n])
  <2> DEFINE V == Scans(n)
             t == g
             o == op
             b == NoScan
  <2>1. FoldsAmong(t, n, V, b, o)
    BY <1>9, <1>10 DEF FoldsAmong
  <2>2. o \in [1 .. n -> [V -> V]] /\ b \in V
    BY <1>3, <1>4
  <2> HIDE DEF t, V, o, b
  <2>3. \E h \in [0 .. n -> V] : StepsTo(h, n, b, o, t[1 .. n])
    BY <2>1, <2>2, SequenceFoldSteps
  <2> QED
    BY <2>3 DEF t, V, o, b
<1>12. ASSUME NEW k \in 1 .. n PROVE h[k] = Taken(h[k - 1], parts, k)
  <2>1. h[k - 1] \in Scans(n)
    OBVIOUS
  <2> QED
    BY <1>5, <1>11, <2>1 DEF StepsTo
<1>13. h[n].ranges = Ranges(parts)
  BY <1>1, <1>2, <1>8, <1>11 DEF StepsTo
<1> QED
  BY <1>11, <1>12, <1>13 DEF StepsTo, ScansTo

\* How many of some parts are a cut.
CutsFrom(parts, cut, s, n) == Cardinality({m \in s .. n : parts[m] = cut})
CutsUpto(parts, cut, n)    == CutsFrom(parts, cut, 1, n)

\* A start and an end with as many starts as ends from the one to the other, and
\* with more of them at every line on the way.
Balanced(parts, s, e) ==
  /\ parts[s] = "cut-start" /\ parts[e] = "cut-end"
  /\ CutsFrom(parts, "cut-start", s, e) = CutsFrom(parts, "cut-end", s, e)
  /\ \A k \in s .. e - 1 : CutsFrom(parts, "cut-start", s, k) > CutsFrom(parts, "cut-end", s, k)

LEMMA CutsCount ==
  ASSUME NEW parts, NEW cut, NEW s \in Nat, NEW n \in Nat
  PROVE  IsFiniteSet({m \in s .. n : parts[m] = cut}) /\ CutsFrom(parts, cut, s, n) \in Nat
<1>1. PICK S : S = {m \in s .. n : parts[m] = cut}
  OBVIOUS
<1>2. IsFiniteSet(s .. n) /\ S \subseteq s .. n
  BY <1>1, FS_Interval
<1>3. IsFiniteSet(S) /\ Cardinality(S) \in Nat
  BY <1>2, FS_Subset, FS_CardinalityType
<1> QED
  BY <1>1, <1>3 DEF CutsFrom

LEMMA CutsNext ==
  ASSUME NEW parts, NEW cut, NEW n \in Nat \ {0}
  PROVE  CutsUpto(parts, cut, n) = IF parts[n] = cut THEN CutsUpto(parts, cut, n - 1) + 1 ELSE CutsUpto(parts, cut, n - 1)
<1>1. PICK S, T : S = {m \in 1 .. n - 1 : parts[m] = cut} /\ T = {m \in 1 .. n : parts[m] = cut}
  OBVIOUS
<1>3. IsFiniteSet(S) /\ n \notin S
  <2>1. IsFiniteSet(1 .. n - 1) /\ S \subseteq 1 .. n - 1
    BY <1>1, FS_Interval
  <2>2. n \notin 1 .. n - 1
    OBVIOUS
  <2> QED
    BY <2>1, <2>2, FS_Subset
<1>4. T = IF parts[n] = cut THEN S \cup {n} ELSE S
  BY <1>1
<1>5. Cardinality(S \cup {n}) = Cardinality(S) + 1
  BY <1>3, FS_AddElement
<1>6. CutsUpto(parts, cut, n) = Cardinality(T) /\ CutsUpto(parts, cut, n - 1) = Cardinality(S)
  BY <1>1 DEF CutsUpto, CutsFrom
<1> QED
  BY <1>4, <1>5, <1>6

LEMMA CutsBetween ==
  ASSUME NEW parts, NEW cut, NEW s \in Nat \ {0}, NEW n \in Nat, s <= n + 1
  PROVE  CutsFrom(parts, cut, s, n) = CutsUpto(parts, cut, n) - CutsUpto(parts, cut, s - 1)
<1>1. PICK A, B, W : /\ A = {m \in 1 .. s - 1 : parts[m] = cut} /\ B = {m \in s .. n : parts[m] = cut}
                     /\ W = {m \in 1 .. n : parts[m] = cut}
  OBVIOUS
<1>3. IsFiniteSet(A) /\ IsFiniteSet(B)
  <2>1. IsFiniteSet(1 .. s - 1) /\ IsFiniteSet(s .. n) /\ A \subseteq 1 .. s - 1 /\ B \subseteq s .. n
    BY <1>1, FS_Interval
  <2> QED
    BY <2>1, FS_Subset
<1>4. W = A \cup B /\ A \cap B = {}
  BY <1>1
<1>5. Cardinality(A \cup B) = Cardinality(A) + Cardinality(B) - Cardinality(A \cap B)
  BY <1>3, FS_Union
<1>6. Cardinality(A \cap B) = 0 /\ Cardinality(A) \in Nat /\ Cardinality(B) \in Nat
  BY <1>3, <1>4, FS_EmptySet, FS_CardinalityType
<1>7. /\ CutsUpto(parts, cut, n) = Cardinality(W) /\ CutsUpto(parts, cut, s - 1) = Cardinality(A)
      /\ CutsFrom(parts, cut, s, n) = Cardinality(B)
  BY <1>1 DEF CutsUpto, CutsFrom
<1> QED
  BY <1>4, <1>5, <1>6, <1>7

\* A number goes up at a start and down at an end.
Counts(d, parts, n) ==
  /\ d \in [0 .. n -> Int]
  /\ \A k \in 1 .. n : d[k] = d[k - 1] + CASE parts[k] = "cut-start" -> 1 [] parts[k] = "cut-end" -> -1 [] OTHER -> 0

\* By it, a start is open up to k, and an end is that of a start.
OpenTo(d, parts, s, k)  == parts[s] = "cut-start" /\ \A m \in s .. k : d[m] > d[s - 1]
Enclosed(d, parts, s, e) == parts[e] = "cut-end" /\ OpenTo(d, parts, s, e - 1) /\ d[e] = d[s - 1]

LEMMA BalancedByCounts ==
  ASSUME NEW n \in Nat, NEW parts
  PROVE  \E d : /\ Counts(d, parts, n)
                /\ \A k \in 0 .. n : d[k] = Begun(parts, k)
                /\ \A s \in 1 .. n : \A e \in s .. n : Balanced(parts, s, e) <=> Enclosed(d, parts, s, e)
<1> DEFINE d == [k \in 0 .. n |-> Begun(parts, k)]
<1>1. ASSUME NEW k \in 0 .. n
      PROVE  /\ CutsUpto(parts, "cut-start", k) \in Nat /\ CutsUpto(parts, "cut-end", k) \in Nat
             /\ d[k] = CutsUpto(parts, "cut-start", k) - CutsUpto(parts, "cut-end", k)
  <2>1. k \in Nat /\ 1 \in Nat
    OBVIOUS
  <2>2. CutsFrom(parts, "cut-start", 1, k) \in Nat
    BY <2>1, CutsCount
  <2>3. CutsFrom(parts, "cut-end", 1, k) \in Nat
    BY <2>1, CutsCount
  <2>4. d[k] = Begun(parts, k)
    OBVIOUS
  <2> HIDE DEF d
  <2>5. Begun(parts, k) = CutsFrom(parts, "cut-start", 1, k) - CutsFrom(parts, "cut-end", 1, k)
    BY DEF Begun, CutsFrom
  <2> QED
    BY <2>2, <2>3, <2>4, <2>5 DEF CutsUpto
<1>2. d \in [0 .. n -> Int]
  <2>1. \A k \in 0 .. n : Begun(parts, k) \in Int
    BY <1>1
  <2> QED
    BY <2>1
<1>5. \A k \in 0 .. n : d[k] = Begun(parts, k)
  OBVIOUS
<1> HIDE DEF d
<1>3. ASSUME NEW k \in 1 .. n
      PROVE  d[k] = d[k - 1] + CASE parts[k] = "cut-start" -> 1 [] parts[k] = "cut-end" -> -1 [] OTHER -> 0
  <2>1. PICK a, b, x, y : /\ a = CutsUpto(parts, "cut-start", k) /\ b = CutsUpto(parts, "cut-end", k)
                          /\ x = CutsUpto(parts, "cut-start", k - 1) /\ y = CutsUpto(parts, "cut-end", k - 1)
    OBVIOUS
  <2>2. k \in Nat \ {0} /\ k \in 0 .. n /\ k - 1 \in 0 .. n
    OBVIOUS
  <2>3. /\ a = IF parts[k] = "cut-start" THEN x + 1 ELSE x
        /\ b = IF parts[k] = "cut-end" THEN y + 1 ELSE y
    BY <2>1, <2>2, CutsNext
  <2>4. x \in Nat /\ y \in Nat /\ d[k] = a - b /\ d[k - 1] = x - y
    BY <1>1, <2>1, <2>2
  <2> QED
    BY <2>3, <2>4
<1>4. ASSUME NEW s \in 1 .. n, NEW e \in s .. n PROVE Balanced(parts, s, e) <=> Enclosed(d, parts, s, e)
  <2>1. ASSUME NEW k \in s .. n
        PROVE  /\ CutsFrom(parts, "cut-start", s, k) = CutsFrom(parts, "cut-end", s, k) <=> d[k] = d[s - 1]
               /\ CutsFrom(parts, "cut-start", s, k) > CutsFrom(parts, "cut-end", s, k) <=> d[k] > d[s - 1]
    <3>1. PICK a, b, x, y, u, v :
            /\ a = CutsUpto(parts, "cut-start", k) /\ b = CutsUpto(parts, "cut-end", k)
            /\ x = CutsUpto(parts, "cut-start", s - 1) /\ y = CutsUpto(parts, "cut-end", s - 1)
            /\ u = CutsFrom(parts, "cut-start", s, k) /\ v = CutsFrom(parts, "cut-end", s, k)
      OBVIOUS
    <3>2. k \in 0 .. n /\ s - 1 \in 0 .. n /\ k \in Nat /\ s \in Nat \ {0} /\ s <= k + 1
      OBVIOUS
    <3>3. a \in Nat /\ b \in Nat /\ x \in Nat /\ y \in Nat /\ d[k] = a - b /\ d[s - 1] = x - y
      BY <1>1, <3>1, <3>2
    <3>4. u = a - x /\ v = b - y
      BY <3>1, <3>2, CutsBetween
    <3>5. (u = v <=> d[k] = d[s - 1]) /\ (u > v <=> d[k] > d[s - 1])
      BY <3>3, <3>4
    <3> QED
      BY <3>1, <3>5
  <2>2. Balanced(parts, s, e) <=> /\ parts[s] = "cut-start" /\ parts[e] = "cut-end"
                                  /\ CutsFrom(parts, "cut-start", s, e) = CutsFrom(parts, "cut-end", s, e)
                                  /\ \A k \in s .. e - 1 :
                                       CutsFrom(parts, "cut-start", s, k) > CutsFrom(parts, "cut-end", s, k)
    BY DEF Balanced
  <2>3. Enclosed(d, parts, s, e) <=> /\ parts[s] = "cut-start" /\ parts[e] = "cut-end" /\ d[e] = d[s - 1]
                                     /\ \A k \in s .. e - 1 : d[k] > d[s - 1]
    BY DEF Enclosed, OpenTo
  <2>4. e \in s .. n /\ s .. e - 1 \subseteq s .. n
    OBVIOUS
  <2> QED
    BY <2>1, <2>2, <2>3, <2>4
<1> QED
  BY <1>2, <1>3, <1>4, <1>5 DEF Counts

\* Where nothing is ended that was not begun and nothing is left begun, a line is
\* enclosed when something is begun at it.
LEMMA BegunIsEnclosed ==
  ASSUME NEW n \in Nat, NEW parts, NEW d, Counts(d, parts, n), d[0] = 0, d[n] = 0,
         \A k \in 0 .. n : d[k] >= 0, NEW x \in 1 .. n, parts[x] = "code"
  PROVE  (\E s \in 1 .. x : \E e \in x .. n : Enclosed(d, parts, s, e)) <=> d[x] # 0
<1>1. \A k \in 0 .. n : d[k] \in Nat
  BY DEF Counts
<1>2. ASSUME NEW s \in 1 .. x, NEW e \in x .. n, Enclosed(d, parts, s, e) PROVE d[x] # 0
  <2>1. e # x
    BY <1>2 DEF Enclosed
  <2>2. x \in s .. e - 1 /\ s - 1 \in 0 .. n /\ x \in 0 .. n
    BY <2>1
  <2>3. d[x] > d[s - 1]
    BY <1>2, <2>2 DEF Enclosed, OpenTo
  <2> QED
    BY <1>1, <2>2, <2>3
<1>3. ASSUME d[x] # 0 PROVE \E s \in 1 .. x : \E e \in x .. n : Enclosed(d, parts, s, e)
  <2>1. PICK Z, E : Z = {k \in 0 .. x : d[k] = 0} /\ E = {k \in x .. n : d[k] = 0}
    OBVIOUS
  <2>2. \E z \in Z : \A k \in Z : k <= z
    <3>1. PICK T : T = 0 .. x /\ IsFiniteSet(T)
      BY FS_Interval
    <3>2. Z \in SUBSET T /\ Z \in SUBSET Int /\ 0 \in Z
      BY <2>1, <3>1
    <3>3. IsFiniteSet(Z)
      BY <3>1, <3>2, FS_Subset
    <3> QED
      BY <3>2, <3>3, MaxOfFinite
  <2>3. PICK z \in Z : \A k \in Z : k <= z
    BY <2>2
  <2>4. PICK e \in E : \A k \in E : e <= k
    <3>1. E \in SUBSET Nat /\ n \in E
      BY <2>1
    <3> QED
      BY <3>1, LeastNumber
  <2>5. PICK s : s = z + 1
    OBVIOUS
  <2>6. z \in 0 .. x /\ d[z] = 0 /\ z # x /\ e \in x .. n /\ d[e] = 0 /\ e # x
    BY <1>3, <2>1
  <2>7. s \in 1 .. x /\ s \in 1 .. n /\ s - 1 = z /\ e \in 1 .. n /\ e - 1 \in x .. n
    BY <2>5, <2>6
  <2>8. ASSUME NEW k \in s .. e - 1 PROVE d[k] > 0
    <3>1. k \in 0 .. n /\ (k \in 0 .. x \/ k \in x .. n)
      BY <2>7
    <3>2. k \notin Z /\ k \notin E
      BY <2>3, <2>4, <2>5, <2>6
    <3>3. d[k] # 0
      BY <2>1, <3>1, <3>2
    <3> QED
      BY <1>1, <3>1, <3>3
  <2>9. d[s] > 0 /\ d[e - 1] > 0
    <3>1. s \in s .. e - 1 /\ e - 1 \in s .. e - 1
      BY <2>6, <2>7
    <3> QED
      BY <2>8, <3>1
  <2>10. parts[s] = "cut-start"
    <3>1. d[s] = d[s - 1] + CASE parts[s] = "cut-start" -> 1 [] parts[s] = "cut-end" -> -1 [] OTHER -> 0
      BY <2>7 DEF Counts
    <3> QED
      BY <2>6, <2>7, <2>9, <3>1
  <2>11. parts[e] = "cut-end"
    <3>1. d[e] = d[e - 1] + CASE parts[e] = "cut-start" -> 1 [] parts[e] = "cut-end" -> -1 [] OTHER -> 0
      BY <2>7 DEF Counts
    <3>2. d[e - 1] \in Nat
      BY <1>1, <2>7
    <3> QED
      BY <2>6, <2>9, <3>1, <3>2
  <2>12. Enclosed(d, parts, s, e)
    BY <2>6, <2>7, <2>8, <2>10, <2>11 DEF Enclosed, OpenTo
  <2> QED
    BY <2>6, <2>7, <2>12
<1> QED
  BY <1>2, <1>3

\* What is open after k lines: the starts that are open to there, each with as
\* many above it as have been begun since; and what has been found.
ScanFits(st, d, parts, k) ==
  /\ \A j \in 1 .. Len(st.open) :
       /\ st.open[j] \in 1 .. k /\ OpenTo(d, parts, st.open[j], k)
       /\ d[k] - d[st.open[j] - 1] = Len(st.open) - j + 1
  /\ \A s \in 1 .. k : OpenTo(d, parts, s, k) => \E j \in 1 .. Len(st.open) : s = st.open[j]
  /\ \A s, e : <<s, e>> \in st.ranges <=> e \in 1 .. k /\ s \in 1 .. e /\ Enclosed(d, parts, s, e)

LEMMA ScanGoesOn ==
  ASSUME NEW n \in Nat, NEW parts, NEW d, Counts(d, parts, n), NEW k \in 1 .. n,
         NEW st \in Scans(n), ScanFits(st, d, parts, k - 1)
  PROVE  ScanFits(Taken(st, parts, k), d, parts, k)
<1>1. PICK open, ranges : open = st.open /\ ranges = st.ranges /\ st = [open |-> open, ranges |-> ranges]
  BY DEF Scans
<1>2. PICK L : L = Len(open)
  OBVIOUS
<1>3. open \in Seq(1 .. n) /\ L \in Nat
  BY <1>1, <1>2 DEF Scans
<1>4. ASSUME NEW j \in 1 .. L
      PROVE  /\ open[j] \in 1 .. k - 1 /\ OpenTo(d, parts, open[j], k - 1)
             /\ d[k - 1] - d[open[j] - 1] = L - j + 1
  BY <1>1, <1>2 DEF ScanFits
<1>5. \A s \in 1 .. k - 1 : OpenTo(d, parts, s, k - 1) => \E j \in 1 .. L : s = open[j]
  BY <1>1, <1>2 DEF ScanFits
<1>6. \A s, e : <<s, e>> \in ranges <=> e \in 1 .. k - 1 /\ s \in 1 .. e /\ Enclosed(d, parts, s, e)
  BY <1>1 DEF ScanFits
<1>7. \A m \in 0 .. n : d[m] \in Int
  BY DEF Counts
<1>8. ASSUME NEW s \in 1 .. k - 1 PROVE OpenTo(d, parts, s, k) <=> OpenTo(d, parts, s, k - 1) /\ d[k] > d[s - 1]
  <2>1. s .. k = (s .. k - 1) \cup {k}
    OBVIOUS
  <2> QED
    BY <2>1 DEF OpenTo
<1>9. CASE parts[k] = "cut-start"
  <2>1. d[k] = d[k - 1] + 1
    BY <1>9 DEF Counts
  <2>2. PICK new, next : new = Append(open, k) /\ next = Taken(st, parts, k)
    OBVIOUS
  <2>3. next.open = new /\ next.ranges = ranges
    BY <1>1, <1>9, <2>2 DEF Taken
  <2>4. Len(new) = L + 1 /\ new[L + 1] = k /\ \A j \in 1 .. L : new[j] = open[j]
    BY <1>2, <1>3, <2>2
  <2>5. OpenTo(d, parts, k, k)
    BY <1>7, <1>9, <2>1 DEF OpenTo
  <2>6. ASSUME NEW j \in 1 .. L + 1
        PROVE  new[j] \in 1 .. k /\ OpenTo(d, parts, new[j], k) /\ d[k] - d[new[j] - 1] = (L + 1) - j + 1
    <3>1. CASE j = L + 1
      BY <1>3, <1>7, <2>1, <2>4, <2>5, <3>1
    <3>2. CASE j # L + 1
      <4>1. PICK s : s = new[j] /\ j \in 1 .. L /\ s = open[j]
        BY <1>3, <2>4, <3>2
      <4>2. s \in 1 .. k - 1 /\ OpenTo(d, parts, s, k - 1) /\ d[k - 1] - d[s - 1] = L - j + 1
        BY <1>4, <4>1
      <4>3. d[k] \in Int /\ d[k - 1] \in Int /\ d[s - 1] \in Int
        BY <1>7, <4>2
      <4>4. d[k] - d[s - 1] = (L + 1) - j + 1 /\ d[k] > d[s - 1]
        <5>1. PICK x, y, z : x = d[k] /\ y = d[k - 1] /\ z = d[s - 1]
          OBVIOUS
        <5>2. x \in Int /\ y \in Int /\ z \in Int /\ x = y + 1 /\ y - z = L - j + 1 /\ L \in Nat /\ j \in 1 .. L
          BY <1>3, <2>1, <4>1, <4>2, <4>3, <5>1
        <5>3. x - z = (L + 1) - j + 1 /\ x > z
          BY <5>2
        <5> QED
          BY <5>1, <5>3
      <4> QED
        BY <1>8, <4>1, <4>2, <4>4
    <3> QED
      BY <3>1, <3>2
  <2>7. ASSUME NEW s \in 1 .. k, OpenTo(d, parts, s, k) PROVE \E j \in 1 .. L + 1 : s = new[j]
    <3>1. CASE s = k
      BY <1>3, <2>4, <3>1
    <3>2. CASE s # k
      <4>1. s \in 1 .. k - 1
        BY <3>2
      <4>2. PICK j \in 1 .. L : s = open[j]
        BY <1>5, <1>8, <2>7, <4>1
      <4> QED
        BY <1>3, <2>4, <4>2
    <3> QED
      BY <3>1, <3>2
  <2>8. \A s, e : e \in 1 .. k /\ s \in 1 .. e /\ Enclosed(d, parts, s, e) <=> <<s, e>> \in ranges
    <3>1. \A s : ~Enclosed(d, parts, s, k)
      BY <1>9 DEF Enclosed
    <3>2. \A e : e \in 1 .. k <=> e \in 1 .. k - 1 \/ e = k
      OBVIOUS
    <3> QED
      BY <1>6, <3>1, <3>2
  <2> QED
    BY <2>2, <2>3, <2>4, <2>6, <2>7, <2>8 DEF ScanFits
<1>10. CASE parts[k] = "cut-end" /\ open # <<>>
  <2>1. d[k] = d[k - 1] - 1
    BY <1>7, <1>10 DEF Counts
  <2>2. PICK front, last, next : front = Front(open) /\ last = Last(open) /\ next = Taken(st, parts, k)
    OBVIOUS
  <2>3. next.open = front /\ next.ranges = ranges \cup {<<last, k>>}
    BY <1>1, <1>10, <2>2 DEF Taken
  <2>4. L >= 1 /\ last = open[L] /\ Len(front) = L - 1 /\ \A j \in 1 .. L - 1 : front[j] = open[j]
    BY <1>2, <1>3, <1>10, <2>2 DEF Front, Last
  <2>5. last \in 1 .. k - 1 /\ OpenTo(d, parts, last, k - 1) /\ d[k] = d[last - 1]
    <3>1. L \in 1 .. L /\ last \in 1 .. k - 1 /\ OpenTo(d, parts, last, k - 1) /\ d[k - 1] - d[last - 1] = L - L + 1
      BY <1>3, <1>4, <2>4
    <3>2. d[k - 1] \in Int /\ d[last - 1] \in Int
      BY <1>7, <3>1
    <3> QED
      BY <1>3, <2>1, <3>1, <3>2
  <2>6. Enclosed(d, parts, last, k)
    BY <1>10, <2>5 DEF Enclosed
  <2>7. ASSUME NEW s \in 1 .. k, OpenTo(d, parts, s, k - 1)
        PROVE  \E j \in 1 .. L : s = open[j] /\ d[k] - d[s - 1] = L - j
    <3>1. s # k
      BY <1>10, <2>7 DEF OpenTo
    <3>2. s \in 1 .. k - 1
      BY <3>1
    <3>3. PICK j \in 1 .. L : s = open[j]
      BY <1>5, <2>7, <3>2
    <3>4. d[k - 1] - d[s - 1] = L - j + 1
      BY <1>4, <3>3
    <3>5. d[k - 1] \in Int /\ d[s - 1] \in Int
      BY <1>7, <3>2
    <3>6. PICK x, y, z : x = d[k] /\ y = d[k - 1] /\ z = d[s - 1]
      OBVIOUS
    <3>7. x \in Int /\ y \in Int /\ z \in Int /\ x = y - 1 /\ y - z = L - j + 1
      BY <1>7, <2>1, <3>4, <3>5, <3>6
    <3>8. x - z = L - j
      BY <1>3, <3>7
    <3> QED
      BY <3>3, <3>6, <3>8
  <2>8. ASSUME NEW j \in 1 .. L - 1
        PROVE  front[j] \in 1 .. k /\ OpenTo(d, parts, front[j], k) /\ d[k] - d[front[j] - 1] = (L - 1) - j + 1
    <3>1. PICK s : s = front[j] /\ j \in 1 .. L /\ s = open[j]
      BY <1>3, <2>4
    <3>2. s \in 1 .. k - 1 /\ OpenTo(d, parts, s, k - 1) /\ d[k - 1] - d[s - 1] = L - j + 1
      BY <1>4, <3>1
    <3>3. d[k] \in Int /\ d[k - 1] \in Int /\ d[s - 1] \in Int
      BY <1>7, <3>2
    <3>4. d[k] - d[s - 1] = (L - 1) - j + 1 /\ d[k] > d[s - 1]
      <4>1. PICK x, y, z : x = d[k] /\ y = d[k - 1] /\ z = d[s - 1]
        OBVIOUS
      <4>2. x \in Int /\ y \in Int /\ z \in Int /\ x = y - 1 /\ y - z = L - j + 1 /\ L \in Nat /\ j \in 1 .. L - 1
        BY <1>3, <2>1, <3>1, <3>2, <3>3, <4>1
      <4>3. x - z = (L - 1) - j + 1 /\ x > z
        BY <4>2
      <4> QED
        BY <4>1, <4>3
    <3> QED
      BY <1>8, <3>1, <3>2, <3>4
  <2>9. ASSUME NEW s \in 1 .. k, OpenTo(d, parts, s, k) PROVE \E j \in 1 .. L - 1 : s = front[j]
    <3>1. s # k
      BY <1>10, <2>9 DEF OpenTo
    <3>2. s \in 1 .. k - 1 /\ OpenTo(d, parts, s, k - 1) /\ d[k] > d[s - 1]
      <4>1. s \in 1 .. k - 1
        BY <3>1
      <4> QED
        BY <1>8, <2>9, <4>1
    <3>3. PICK j \in 1 .. L : s = open[j] /\ d[k] - d[s - 1] = L - j
      BY <2>7, <3>2
    <3>4. d[k] \in Int /\ d[s - 1] \in Int
      BY <1>7, <3>2
    <3>5. j \in 1 .. L - 1
      BY <1>3, <3>2, <3>3, <3>4
    <3> QED
      BY <2>4, <3>3, <3>5
  <2>10. ASSUME NEW s \in 1 .. k, Enclosed(d, parts, s, k) PROVE s = last
    <3>1. OpenTo(d, parts, s, k - 1) /\ d[k] = d[s - 1]
      BY <2>10 DEF Enclosed
    <3>2. PICK j \in 1 .. L : s = open[j] /\ d[k] - d[s - 1] = L - j
      BY <2>7, <3>1
    <3>3. d[k] \in Int
      BY <1>7
    <3>4. j = L
      BY <1>3, <3>1, <3>2, <3>3
    <3> QED
      BY <2>4, <3>2, <3>4
  <2>11. ASSUME NEW s, NEW e
         PROVE  <<s, e>> \in next.ranges <=> e \in 1 .. k /\ s \in 1 .. e /\ Enclosed(d, parts, s, e)
    <3>1. <<s, e>> \in next.ranges <=> <<s, e>> \in ranges \/ (s = last /\ e = k)
      BY <2>3
    <3>2. CASE e = k
      <4>1. <<s, e>> \notin ranges
        BY <1>6, <3>2
      <4>2. s = last <=> s \in 1 .. k /\ Enclosed(d, parts, s, k)
        BY <2>5, <2>6, <2>10
      <4> QED
        BY <3>1, <3>2, <4>1, <4>2
    <3>3. CASE e # k
      <4>1. e \in 1 .. k <=> e \in 1 .. k - 1
        BY <3>3
      <4> QED
        BY <1>6, <3>1, <3>3, <4>1
    <3> QED
      BY <3>2, <3>3
  <2> QED
    BY <2>2, <2>3, <2>4, <2>8, <2>9, <2>11 DEF ScanFits
<1>11. CASE parts[k] # "cut-start" /\ ~(parts[k] = "cut-end" /\ open # <<>>)
  <2>1. Taken(st, parts, k) = st
    BY <1>1, <1>11 DEF Taken
  <2>2. ~OpenTo(d, parts, k, k) /\ ~OpenTo(d, parts, k, k - 1)
    BY <1>11 DEF OpenTo
  <2>3. parts[k] = "cut-end" => L = 0
    BY <1>2, <1>3, <1>11
  <2>4. L # 0 => d[k] = d[k - 1]
    BY <1>7, <1>11, <2>3 DEF Counts
  <2>5. ASSUME NEW j \in 1 .. L
        PROVE  open[j] \in 1 .. k /\ OpenTo(d, parts, open[j], k) /\ d[k] - d[open[j] - 1] = L - j + 1
    <3>1. PICK s : s = open[j]
      OBVIOUS
    <3>2. s \in 1 .. k - 1 /\ OpenTo(d, parts, s, k - 1) /\ d[k - 1] - d[s - 1] = L - j + 1
      BY <1>4, <3>1
    <3>3. d[k] = d[k - 1] /\ d[k] \in Int /\ d[s - 1] \in Int
      BY <1>3, <1>7, <2>4, <3>2
    <3>4. d[k] > d[s - 1]
      BY <1>3, <3>2, <3>3
    <3> QED
      BY <1>8, <3>1, <3>2, <3>3, <3>4
  <2>6. ASSUME NEW s \in 1 .. k, OpenTo(d, parts, s, k) PROVE \E j \in 1 .. L : s = open[j]
    <3>1. s \in 1 .. k - 1
      BY <2>2, <2>6
    <3> QED
      BY <1>5, <1>8, <2>6, <3>1
  <2>7. ASSUME NEW s \in 1 .. k PROVE ~Enclosed(d, parts, s, k)
    <3>1. SUFFICES ASSUME parts[k] = "cut-end", OpenTo(d, parts, s, k - 1) PROVE FALSE
      BY DEF Enclosed
    <3>2. s \in 1 .. k - 1
      BY <2>2, <3>1
    <3> QED
      BY <1>5, <2>3, <3>1, <3>2
  <2>8. \A s, e : <<s, e>> \in ranges <=> e \in 1 .. k /\ s \in 1 .. e /\ Enclosed(d, parts, s, e)
    <3>1. \A e : e \in 1 .. k <=> e \in 1 .. k - 1 \/ e = k
      OBVIOUS
    <3> QED
      BY <1>6, <2>7, <3>1
  <2> QED
    <3>1. PICK next : next = Taken(st, parts, k) /\ next.open = open /\ next.ranges = ranges /\ Len(next.open) = L
      BY <1>1, <1>2, <2>1
    <3>2. ScanFits(next, d, parts, k)
      BY <2>5, <2>6, <2>8, <3>1 DEF ScanFits
    <3> QED
      BY <3>1, <3>2
<1> QED
  BY <1>1, <1>9, <1>10, <1>11

\* A range is a start and an end that balance, and there is one for each such pair.
LEMMA RangesBalance ==
  ASSUME NEW n \in Nat, NEW parts, DOMAIN parts = 1 .. n
  PROVE  /\ Ranges(parts) \in SUBSET ((1 .. n) \X (1 .. n))
         /\ \A s, e : <<s, e>> \in Ranges(parts) <=> e \in 1 .. n /\ s \in 1 .. e /\ Balanced(parts, s, e)
<1>1. PICK h : ScansTo(h, parts, n, Ranges(parts))
  BY RangesSteps
<1>2. PICK d : /\ Counts(d, parts, n)
               /\ \A s \in 1 .. n : \A e \in s .. n : Balanced(parts, s, e) <=> Enclosed(d, parts, s, e)
  BY BalancedByCounts
<1> DEFINE Bad == {k \in 0 .. n : ~ScanFits(h[k], d, parts, k)}
<1>3. Bad = {}
  <2> SUFFICES ASSUME Bad # {} PROVE FALSE
    OBVIOUS
  <2>1. PICK k \in Bad : \A j \in Bad : k <= j
    <3>1. Bad \in SUBSET Nat
      OBVIOUS
    <3> HIDE DEF Bad
    <3> QED
      BY <3>1, LeastNumber
  <2>2. k \in 0 .. n /\ ~ScanFits(h[k], d, parts, k)
    OBVIOUS
  <2>3. k # 0
    <3>1. h[0].open = <<>> /\ h[0].ranges = {} /\ Len(<<>>) = 0
      BY <1>1 DEF ScansTo, NoScan
    <3>2. ScanFits(h[0], d, parts, 0)
      BY <3>1 DEF ScanFits
    <3> QED
      BY <2>2, <3>2
  <2>4. k - 1 \in 0 .. n /\ k \in 1 .. n /\ ~(k <= k - 1)
    BY <2>2, <2>3
  <2>5. ScanFits(h[k - 1], d, parts, k - 1)
    BY <2>1, <2>4
  <2>6. PICK st : st = h[k - 1] /\ st \in Scans(n) /\ h[k] = Taken(st, parts, k)
    BY <1>1, <2>4 DEF ScansTo
  <2>7. ScanFits(Taken(st, parts, k), d, parts, k)
    BY <1>2, <2>4, <2>5, <2>6, ScanGoesOn
  <2> QED
    BY <2>2, <2>6, <2>7
<1>4. ScanFits(h[n], d, parts, n) /\ h[n].ranges = Ranges(parts)
  BY <1>1, <1>3 DEF ScansTo
<1>5. \A s, e : <<s, e>> \in Ranges(parts) <=> e \in 1 .. n /\ s \in 1 .. e /\ Enclosed(d, parts, s, e)
  <2>1. \A s, e : <<s, e>> \in h[n].ranges <=> e \in 1 .. n /\ s \in 1 .. e /\ Enclosed(d, parts, s, e)
    BY <1>4 DEF ScanFits
  <2> QED
    BY <1>4, <2>1
<1>6. \A s, e : e \in 1 .. n /\ s \in 1 .. e => s \in 1 .. n /\ e \in s .. n
  OBVIOUS
<1>7. Ranges(parts) \in SUBSET ((1 .. n) \X (1 .. n))
  <2>1. h[n] \in Scans(n)
    BY <1>1 DEF ScansTo
  <2>2. h[n].ranges \in SUBSET ((1 .. n) \X (1 .. n))
    BY <2>1 DEF Scans
  <2> QED
    BY <1>4, <2>2
<1> QED
  BY <1>2, <1>5, <1>6, <1>7

--------------------------------------------------------------------------------
(* What is copied. *)

\* The last of some of the first n positions, 0 if there is none.
LastIn(l, S, n) == l \in 0 .. n /\ (IF S = {} THEN l = 0 ELSE l \in S) /\ \A m \in S : m <= l

LEMMA LastFound ==
  ASSUME NEW n \in Nat, NEW S \in SUBSET (1 .. n)
  PROVE  LastIn(LastOf(S), S, n)
<1>1. CASE S = {}
  BY <1>1 DEF LastOf, LastIn
<1>2. CASE S # {}
  <2>1. PICK T : T = 1 .. n /\ IsFiniteSet(T)
    BY FS_Interval
  <2>2. IsFiniteSet(S) /\ S \in SUBSET Int
    <3>1. S \in SUBSET T
      BY <2>1
    <3>2. IsFiniteSet(S)
      BY <2>1, <3>1, FS_Subset
    <3> QED
      BY <3>2
  <2>3. \E l \in S : \A m \in S : m <= l
    BY <1>2, <2>2, MaxOfFinite
  <2>4. PICK l : l = LastOf(S) /\ l \in S /\ \A m \in S : m <= l
    BY <1>2, <2>3 DEF LastOf
  <2> QED
    BY <1>2, <2>4 DEF LastIn
<1> QED
  BY <1>1, <1>2

\* The parts of n lines, of which the code is what may be shown.
PartsOf(parts, n) ==
  DOMAIN parts = 1 .. n /\ Len(parts) = n /\ \A k \in 1 .. n : parts[k] \in Shown <=> parts[k] = "code"

\* No range stands around a position.
Free(parts, x) == \A s, e : <<s, e>> \in Ranges(parts) => x < s \/ e < x

\* What is copied is the code between the last cut-before, at b, and the last
\* cut-after, at a, that no range stands around.
CopiedAt(parts, b, a, x) == parts[x] = "code" /\ b < x /\ (a > b => x < a) /\ Free(parts, x)

LEMMA StripKeeps ==
  ASSUME NEW n \in Nat, NEW parts, PartsOf(parts, n)
  PROVE  /\ LastIn(LastOf(Cuts(parts, "cut-before")), Cuts(parts, "cut-before"), n)
         /\ LastIn(LastOf(Cuts(parts, "cut-after")), Cuts(parts, "cut-after"), n)
         /\ StripDirectives(parts) =
              {x \in 1 .. n : CopiedAt(parts, LastOf(Cuts(parts, "cut-before")), LastOf(Cuts(parts, "cut-after")), x)}
<1>1. PICK b, a, R : /\ b = LastOf(Cuts(parts, "cut-before")) /\ a = LastOf(Cuts(parts, "cut-after"))
                     /\ R = Ranges(parts)
  OBVIOUS
<1>2. LastIn(b, Cuts(parts, "cut-before"), n) /\ LastIn(a, Cuts(parts, "cut-after"), n)
  <2>1. Cuts(parts, "cut-before") \in SUBSET (1 .. n) /\ Cuts(parts, "cut-after") \in SUBSET (1 .. n)
    BY DEF PartsOf, Cuts
  <2> QED
    BY <1>1, <2>1, LastFound
<1>3. b \in 0 .. n /\ a \in 0 .. n
  BY <1>2 DEF LastIn
<1>4. R \in SUBSET ((1 .. n) \X (1 .. n))
  BY <1>1, RangesBalance DEF PartsOf
<1>5. PICK e, S, K : /\ e = (IF a - b > 0 THEN a - b - 1 ELSE n - b)
                     /\ S = {<<r[1] - b, r[2] - b>> : r \in R}
                     /\ K = {j \in 1 .. e : (\A r \in S : j < r[1] \/ r[2] < j) /\ parts[j + b] \in Shown}
  OBVIOUS
<1>6. StripDirectives(parts) = {j + b : j \in K}
  BY <1>1, <1>5 DEF StripDirectives, PartsOf
<1>7. ASSUME NEW j \in Int PROVE (\A r \in S : j < r[1] \/ r[2] < j) <=> Free(parts, j + b)
  <2>1. ASSUME \A r \in S : j < r[1] \/ r[2] < j, NEW s, NEW f, <<s, f>> \in R PROVE j + b < s \/ f < j + b
    <3>1. s \in 1 .. n /\ f \in 1 .. n
      BY <1>4, <2>1
    <3>2. <<s - b, f - b>> \in S
      BY <1>5, <2>1
    <3>3. j < s - b \/ f - b < j
      BY <2>1, <3>2
    <3> QED
      BY <1>3, <3>1, <3>3
  <2>2. ASSUME Free(parts, j + b), NEW q \in S PROVE j < q[1] \/ q[2] < j
    <3>1. PICK r \in R : q = <<r[1] - b, r[2] - b>>
      BY <1>5
    <3>2. PICK s, f : s \in 1 .. n /\ f \in 1 .. n /\ r = <<s, f>> /\ q = <<s - b, f - b>>
      BY <1>4, <3>1
    <3>3. j + b < s \/ f < j + b
      BY <1>1, <2>2, <3>2 DEF Free
    <3> QED
      BY <1>3, <3>2, <3>3
  <2> QED
    BY <1>1, <2>1, <2>2 DEF Free
<1>8. ASSUME NEW x \in StripDirectives(parts) PROVE x \in 1 .. n /\ CopiedAt(parts, b, a, x)
  <2>1. PICK j \in K : x = j + b
    BY <1>6
  <2>2. j \in 1 .. e /\ parts[x] \in Shown /\ \A r \in S : j < r[1] \/ r[2] < j
    BY <1>5, <2>1
  <2>3. x \in 1 .. n /\ b < x /\ (a > b => x < a)
    BY <1>3, <1>5, <2>1, <2>2
  <2>4. Free(parts, x)
    BY <1>7, <2>1, <2>2
  <2>5. parts[x] = "code"
    BY <2>2, <2>3 DEF PartsOf
  <2> QED
    BY <2>3, <2>4, <2>5 DEF CopiedAt
<1>9. ASSUME NEW x \in 1 .. n, CopiedAt(parts, b, a, x) PROVE x \in StripDirectives(parts)
  <2>1. PICK j : j = x - b
    OBVIOUS
  <2>2. j \in 1 .. e /\ x = j + b
    BY <1>3, <1>5, <1>9, <2>1 DEF CopiedAt
  <2>3. \A r \in S : j < r[1] \/ r[2] < j
    BY <1>7, <1>9, <2>2 DEF CopiedAt
  <2>4. parts[j + b] \in Shown
    BY <1>9, <2>2 DEF CopiedAt, PartsOf
  <2>5. j \in K
    BY <1>5, <2>2, <2>3, <2>4
  <2> QED
    BY <1>6, <2>2, <2>5
<1> QED
  BY <1>1, <1>2, <1>8, <1>9

\* What is copied of an example is what its directives leave of it, as long as its
\* cuts are paired and nothing is cut again behind a cut-after.
LEMMA CopyShown ==
  ASSUME NEW n \in Nat, NEW parts, PartsOf(parts, n), Paired(parts), CutOnce(parts)
  PROVE  StripDirectives(parts) = Uncut(parts)
<1>1. PICK P, Q, b, a : /\ P = Cuts(parts, "cut-before") /\ Q = Cuts(parts, "cut-after")
                        /\ b = LastOf(P) /\ a = LastOf(Q)
  OBVIOUS
<1>2. LastIn(b, P, n) /\ LastIn(a, Q, n) /\ StripDirectives(parts) = {x \in 1 .. n : CopiedAt(parts, b, a, x)}
  BY <1>1, StripKeeps
<1>3. DOMAIN parts = 1 .. n /\ Len(parts) = n
  BY DEF PartsOf
<1>4. \A m \in 1 .. n : (m \in P <=> parts[m] = "cut-before") /\ (m \in Q <=> parts[m] = "cut-after")
  BY <1>1, <1>3 DEF Cuts
<1>5. P \subseteq 1 .. n /\ Q \subseteq 1 .. n
  BY <1>1, <1>3 DEF Cuts
<1>6. b \in 0 .. n /\ a \in 0 .. n /\ (b # 0 => b \in P) /\ (a # 0 => a \in Q)
        /\ (\A m \in P : m <= b) /\ (\A m \in Q : m <= a)
  BY <1>2 DEF LastIn
<1>7. ASSUME NEW x \in 1 .. n, parts[x] = "code"
      PROVE  (\A m \in 1 .. n : parts[m] = "cut-before" => m < x) <=> b < x
  <2>1. ASSUME b < x, NEW m \in 1 .. n, parts[m] = "cut-before" PROVE m < x
    <3>1. m <= b
      BY <1>4, <1>6, <2>1
    <3> QED
      BY <1>6, <2>1, <3>1
  <2>2. ASSUME \A m \in 1 .. n : parts[m] = "cut-before" => m < x PROVE b < x
    <3>1. CASE b = 0
      BY <3>1
    <3>2. CASE b # 0
      <4>1. b \in 1 .. n /\ parts[b] = "cut-before"
        BY <1>4, <1>5, <1>6, <3>2
      <4> QED
        BY <2>2, <4>1
    <3> QED
      BY <3>1, <3>2
  <2> QED
    BY <2>1, <2>2
<1>8. ASSUME NEW x \in 1 .. n, parts[x] = "code", b < x
      PROVE  (\A m \in 1 .. n : parts[m] = "cut-after" => x < m) <=> (a > b => x < a)
  <2>1. a # 0 => a \in 1 .. n /\ parts[a] = "cut-after"
    BY <1>4, <1>5, <1>6
  <2>2. b # 0 => b \in 1 .. n /\ parts[b] = "cut-before"
    BY <1>4, <1>5, <1>6
  <2>3. ASSUME NEW m \in 1 .. n, parts[m] = "cut-after" PROVE m = a /\ a > b
    <3>1. m <= a /\ a # 0
      BY <1>4, <1>6, <2>3
    <3>2. ~(m < a)
      <4>1. SUFFICES ASSUME m < a PROVE FALSE
        OBVIOUS
      <4>2. m \in DOMAIN parts /\ a \in DOMAIN parts
        BY <1>3, <2>1, <3>1
      <4> QED
        BY <2>1, <2>3, <3>1, <4>1, <4>2 DEF CutOnce
    <3>3. m = a
      BY <1>6, <3>1, <3>2
    <3>4. ~(m < b)
      <4>1. SUFFICES ASSUME m < b PROVE FALSE
        OBVIOUS
      <4>2. b # 0 /\ m \in DOMAIN parts
        BY <1>3, <1>6, <4>1
      <4>3. b \in DOMAIN parts
        BY <1>3, <2>2, <4>2
      <4> QED
        BY <2>2, <2>3, <4>1, <4>2, <4>3 DEF CutOnce
    <3>5. m # b
      BY <2>2, <2>3
    <3> QED
      BY <1>6, <3>3, <3>4, <3>5
  <2>4. ASSUME \A m \in 1 .. n : parts[m] = "cut-after" => x < m, a > b PROVE x < a
    <3>1. a # 0
      BY <1>6, <2>4
    <3> QED
      BY <2>1, <2>4, <3>1
  <2> QED
    BY <2>3, <2>4
<1>9. ASSUME NEW x \in 1 .. n, parts[x] = "code" PROVE Begun(parts, x) = 0 <=> Free(parts, x)
  <2>1. PICK d : /\ Counts(d, parts, n)
                 /\ \A k \in 0 .. n : d[k] = Begun(parts, k)
                 /\ \A s \in 1 .. n : \A e \in s .. n : Balanced(parts, s, e) <=> Enclosed(d, parts, s, e)
    BY BalancedByCounts
  <2>2. \A s, e : <<s, e>> \in Ranges(parts) <=> e \in 1 .. n /\ s \in 1 .. e /\ Balanced(parts, s, e)
    BY <1>3, RangesBalance
  <2>3. \A s, e : e \in 1 .. n /\ s \in 1 .. e /\ ~(x < s \/ e < x) <=> s \in 1 .. x /\ e \in x .. n
    OBVIOUS
  <2>4. Free(parts, x) <=> ~\E s \in 1 .. x : \E e \in x .. n : Balanced(parts, s, e)
    BY <2>2, <2>3 DEF Free
  <2>5. \A s \in 1 .. x : \A e \in x .. n : s \in 1 .. n /\ e \in s .. n
    OBVIOUS
  <2>6. (\E s \in 1 .. x : \E e \in x .. n : Balanced(parts, s, e))
          <=> \E s \in 1 .. x : \E e \in x .. n : Enclosed(d, parts, s, e)
    BY <2>1, <2>5
  <2>7. d[0] = 0
    <3>1. \A cut : {m \in 1 .. 0 : parts[m] = cut} = {}
      OBVIOUS
    <3>2. Cardinality({m \in 1 .. 0 : parts[m] = "cut-start"}) = 0
            /\ Cardinality({m \in 1 .. 0 : parts[m] = "cut-end"}) = 0
      BY <3>1, FS_EmptySet
    <3>3. Begun(parts, 0) = 0
      BY <3>2 DEF Begun
    <3> QED
      BY <2>1, <3>3
  <2>8. d[n] = 0 /\ \A k \in 0 .. n : d[k] >= 0
    <3>1. \A k \in 1 .. n : d[k] >= 0
      BY <1>3, <2>1 DEF Paired
    <3>2. \A k \in 0 .. n : k = 0 \/ k \in 1 .. n
      OBVIOUS
    <3>3. \A k \in 0 .. n : d[k] >= 0
      BY <2>7, <3>1, <3>2
    <3> QED
      BY <1>3, <2>1, <3>3 DEF Paired
  <2>9. (\E s \in 1 .. x : \E e \in x .. n : Enclosed(d, parts, s, e)) <=> d[x] # 0
    BY <1>9, <2>1, <2>7, <2>8, BegunIsEnclosed
  <2>10. d[x] = Begun(parts, x)
    BY <2>1
  <2> QED
    BY <2>4, <2>6, <2>9, <2>10
<1>10. Uncut(parts) =
         {x \in 1 .. n :
            /\ parts[x] = "code" /\ Begun(parts, x) = 0
            /\ \A m \in 1 .. n : parts[m] = "cut-before" => m < x
            /\ \A m \in 1 .. n : parts[m] = "cut-after" => x < m}
  BY <1>3 DEF Uncut
<1>11. ASSUME NEW x \in 1 .. n PROVE x \in Uncut(parts) <=> CopiedAt(parts, b, a, x)
  <2>1. CASE parts[x] # "code"
    BY <1>10, <2>1 DEF CopiedAt
  <2>2. CASE parts[x] = "code" /\ ~(b < x)
    BY <1>7, <1>10, <2>2 DEF CopiedAt
  <2>3. CASE parts[x] = "code" /\ b < x
    BY <1>7, <1>8, <1>9, <1>10, <2>3 DEF CopiedAt
  <2> QED
    BY <2>1, <2>2, <2>3
<1>12. Uncut(parts) \subseteq 1 .. n
  BY <1>10
<1> QED
  BY <1>2, <1>11, <1>12

\* Every line is a part of its own.
LEMMA PartsAre ==
  ASSUME NEW lines, List(lines)
  PROVE  PartsOf(Parts(lines), Len(lines))
<1>1. PICK n \in Nat : DOMAIN lines = 1 .. n /\ n = Len(lines)
  BY ListIsListed
<1>2. PICK parts : parts = Parts(lines)
  OBVIOUS
<1>3. DOMAIN parts = 1 .. n /\ parts = [k \in 1 .. n |-> parts[k]]
  BY <1>1, <1>2 DEF Parts
<1>4. Len(parts) = n
  BY <1>3, ListOfEach
<1>5. ASSUME NEW k \in 1 .. n PROVE parts[k] \in Shown <=> parts[k] = "code"
  <2>1. PICK part : part = lines[k].part
    OBVIOUS
  <2>2. parts[k] = CASE part = "cut" -> "cut-before"
                     [] part \in Shown \cup {"opening", "closing", "member"} -> "code"
                     [] OTHER -> part
    BY <1>1, <1>2, <2>1 DEF Parts
  <2>3. CASE part = "cut"
    BY <2>2, <2>3 DEF Shown
  <2>4. CASE part # "cut" /\ part \in Shown \cup {"opening", "closing", "member"}
    <3>1. parts[k] = "code"
      BY <2>2, <2>4
    <3> QED
      BY <3>1 DEF Shown
  <2>5. CASE part # "cut" /\ part \notin Shown \cup {"opening", "closing", "member"}
    <3>1. parts[k] = part
      BY <2>2, <2>5
    <3> QED
      BY <2>5, <3>1 DEF Shown
  <2> QED
    BY <2>3, <2>4, <2>5
<1> QED
  BY <1>1, <1>2, <1>3, <1>4, <1>5 DEF PartsOf

LinesJoined(v, s, t) == Lines(s) /\ Lines(t) /\ v = s \o t

LEMMA LinesJoin ==
  ASSUME NEW s, NEW t, NEW v, LinesJoined(v, s, t)
  PROVE  Lines(v)
<1>1. Concats(v, s, t)
  BY DEF LinesJoined, Lines, Concats
<1>2. List(v) /\ ToSet(v) = ToSet(s) \cup ToSet(t)
  BY <1>1, ListsJoin DEF Together
<1>3. \A l \in ToSet(s) \cup ToSet(t) : l.opens \in Nat /\ l.closes \in Nat
  BY DEF LinesJoined, Lines
<1> QED
  BY <1>2, <1>3 DEF Lines

LEMMA OneLine ==
  ASSUME NEW l, l.opens \in Nat, l.closes \in Nat
  PROVE  Lines(<<l>>)
<1>1. PICK v : v = <<l>>
  OBVIOUS
<1>2. List(v) /\ ToSet(v) = {l}
  BY <1>1, ListOfOne
<1> QED
  BY <1>1, <1>2 DEF Lines

LEMMA NoLines == Lines(<<>>)
BY ListOfNone DEF Lines

LEMMA HiddenLines ==
  ASSUME NEW h, Hidden(h)
  PROVE  Lines(h)
<1>1. CASE h = <<>>
  BY <1>1, NoLines
<1>2. CASE h # <<>>
  <2>1. List(h) /\ \A l \in ToSet(h) : l.opens = 0 /\ l.closes = 0
    BY <1>2 DEF Hidden
  <2> QED
    BY <2>1 DEF Lines
<1> QED
  BY <1>1, <1>2

\* What the source of a block is made of are lines.
LEMMA SkeletonLines ==
  ASSUME NEW i, WellFormed(i)
  PROVE  Lines(Skeleton(i))
<1>1. CASE i.kind \notin {"Class", "Interface"}
  BY <1>1 DEF Skeleton, WellFormed, Prints
<1>2. CASE i.kind \in {"Class", "Interface"}
  <2>1. PICK o, f, c, u, v : /\ o = <<Opening(i)>> /\ f = MemberLines(i) /\ c = <<Closing>>
                             /\ u = o \o f /\ v = u \o c
    OBVIOUS
  <2>2. Skeleton(i) = v
    BY <1>2, <2>1 DEF Skeleton, MemberLines
  <2>3. Lines(f)
    <3>1. List(f) /\ \A l \in ToSet(f) : \E m \in ToSet(i.members) : l \in ToSet(m.lines)
      BY <1>2, <2>1, MembersPrint
    <3>2. \A m \in ToSet(i.members) : \A l \in ToSet(m.lines) : l.opens \in Nat /\ l.closes \in Nat
      BY <1>2 DEF WellFormed, Prints, Lines
    <3> QED
      BY <3>1, <3>2 DEF Lines
  <2>4. Lines(o) /\ Lines(c)
    <3>1. Opening(i).opens = 1 /\ Opening(i).closes = 0 /\ Closing.opens = 0 /\ Closing.closes = 1
      BY DEF Opening, Closing, Line
    <3>2. Opening(i).opens \in Nat /\ Opening(i).closes \in Nat /\ Closing.opens \in Nat /\ Closing.closes \in Nat
      BY <3>1
    <3> QED
      BY <2>1, <3>2, OneLine
  <2>5. Lines(u)
    <3>1. LinesJoined(u, o, f)
      BY <2>1, <2>3, <2>4 DEF LinesJoined
    <3> QED
      BY <3>1, LinesJoin
  <2>6. Lines(v)
    <3>1. LinesJoined(v, u, c)
      BY <2>1, <2>4, <2>5 DEF LinesJoined
    <3> QED
      BY <3>1, LinesJoin
  <2> QED
    BY <2>2, <2>6
<1> QED
  BY <1>1, <1>2

LEMMA SignatureLines ==
  ASSUME NEW i, WellFormed(i)
  PROVE  Lines(SignatureSource(i))
<1>1. PICK h, s, v : h = HiddenImports(i) /\ s = Skeleton(i) /\ v = SignatureSource(i)
  OBVIOUS
<1>2. Lines(h)
  BY <1>1, RefsListed, ImportsHidden, HiddenLines DEF WellFormed
<1>3. LinesJoined(v, h, s)
  BY <1>1, <1>2, SkeletonLines DEF SignatureSource, LinesJoined
<1> QED
  BY <1>1, <1>3, LinesJoin

LEMMA MemberSourceLines ==
  ASSUME NEW i, WellFormed(i), i.kind \in {"Class", "Interface"}, NEW m \in ToSet(i.members)
  PROVE  Lines(MemberSource(i, m))
<1>1. PICK h, o, s, c, p, q, v : /\ h = HiddenImports(m) /\ o = <<Opening(i)>> /\ s = m.lines /\ c = <<Closing>>
                                 /\ p = h \o o /\ q = p \o s /\ v = q \o c
  OBVIOUS
<1>2. m.members = <<>> /\ Lines(s) /\ Cited(m.refs)
  BY <1>1 DEF WellFormed, Prints, Refers
<1>3. Lines(h)
  <2>1. Refers(m)
    BY <1>2, ListOfNone DEF Refers
  <2> QED
    BY <1>1, <2>1, RefsListed, ImportsHidden, HiddenLines
<1>4. Lines(o) /\ Lines(c)
  <2>1. Opening(i).opens = 1 /\ Opening(i).closes = 0 /\ Closing.opens = 0 /\ Closing.closes = 1
    BY DEF Opening, Closing, Line
  <2>2. Opening(i).opens \in Nat /\ Opening(i).closes \in Nat /\ Closing.opens \in Nat /\ Closing.closes \in Nat
    BY <2>1
  <2> QED
    BY <1>1, <2>2, OneLine
<1>5. Lines(p)
  <2>1. LinesJoined(p, h, o)
    BY <1>1, <1>3, <1>4 DEF LinesJoined
  <2> QED
    BY <2>1, LinesJoin
<1>6. Lines(q)
  <2>1. LinesJoined(q, p, s)
    BY <1>1, <1>2, <1>5 DEF LinesJoined
  <2> QED
    BY <2>1, LinesJoin
<1>7. Lines(v)
  <2>1. LinesJoined(v, q, c)
    BY <1>1, <1>4, <1>6 DEF LinesJoined
  <2> QED
    BY <2>1, LinesJoin
<1>8. MemberSource(i, m) = v
  BY <1>1 DEF MemberSource
<1> QED
  BY <1>7, <1>8

LEMMA PreparedLines ==
  ASSUME NEW x, Lines(x.lines), NEW suppress
  PROVE  Lines(Prepared(x, suppress))
<1>1. PICK d, h, s, p, v : /\ d = (IF suppress THEN <<Line("directive", <<>>)>> ELSE <<>>)
                           /\ h = (IF x.imports THEN <<>> ELSE <<Line("import", <<>>)>>)
                           /\ s = x.lines /\ p = d \o h /\ v = p \o s
  OBVIOUS
<1>2. \A part : Line(part, <<>>).opens \in Nat /\ Line(part, <<>>).closes \in Nat
  BY DEF Line
<1>3. Lines(d) /\ Lines(h)
  BY <1>1, <1>2, OneLine, NoLines
<1>4. Lines(p)
  <2>1. LinesJoined(p, d, h)
    BY <1>1, <1>3 DEF LinesJoined
  <2> QED
    BY <2>1, LinesJoin
<1>5. Lines(v)
  <2>1. LinesJoined(v, p, s)
    BY <1>1, <1>4 DEF LinesJoined
  <2> QED
    BY <2>1, LinesJoin
<1>6. Prepared(x, suppress) = v
  BY <1>1 DEF Prepared
<1> QED
  BY <1>5, <1>6

--------------------------------------------------------------------------------
(* What formatting adds. *)

\* No blank line is put next to a directive.
LEMMA GapsAreSmall ==
  ASSUME NEW prev, NEW line
  PROVE  Gap(prev, line) \in Nat /\ (Gap(prev, line) # 0 => prev \notin Directive /\ line \notin Directive)
<1>1. CASE prev = "blank" \/ line = "import"
  BY <1>1 DEF Gap
<1>2. CASE ~(prev = "blank" \/ line = "import") /\ prev = "import"
  <2>1. Gap(prev, line) = (IF line \notin Directive \cup {"blank"} THEN 1 ELSE 0) + (IF line = "return" THEN 1 ELSE 0)
    BY <1>2 DEF Gap
  <2>2. "return" \notin Directive /\ "import" \notin Directive
    BY DEF Directive, Cutting
  <2> QED
    BY <1>2, <2>1, <2>2
<1>3. CASE ~(prev = "blank" \/ line = "import") /\ prev # "import"
  <2>1. Gap(prev, line) = IF line \in {"comment", "return"} /\ prev \notin Directive \cup {"comment"} THEN 1 ELSE 0
    BY <1>3 DEF Gap
  <2>2. "return" \notin Directive /\ "comment" \notin Directive
    BY DEF Directive, Cutting
  <2> QED
    BY <2>1, <2>2
<1> QED
  BY <1>1, <1>2, <1>3

\* m blank lines and x.
SectionOf(s, x, m) ==
  /\ m \in Nat /\ List(s) /\ Len(s) = m + 1 /\ s[m + 1] = x
  /\ \A j \in 1 .. m : s[j] = Line("blank", <<>>)
  /\ ToSet(s) \subseteq {x, Line("blank", <<>>)}
Section(x, m) == [k \in 1 .. m |-> Line("blank", <<>>)] \o <<x>>

LEMMA SectionIs ==
  ASSUME NEW x, NEW m \in Nat
  PROVE  SectionOf(Section(x, m), x, m)
<1>1. PICK b, e, s, l : b = [k \in 1 .. m |-> l] /\ e = <<x>> /\ s = b \o e /\ l = Line("blank", <<>>)
  OBVIOUS
<1>2. DOMAIN b = 1 .. m /\ b = [k \in 1 .. m |-> b[k]] /\ \A k \in 1 .. m : b[k] = l
  BY <1>1
<1>3. List(b) /\ Len(b) = m /\ ToSet(b) \subseteq {l}
  BY <1>2, ListOfEach
<1>4. List(e) /\ Len(e) = 1 /\ ToSet(e) = {x} /\ e[1] = x
  BY <1>1, ListOfOne
<1>5. Together(s, b, e)
  <2>1. Concats(s, b, e)
    BY <1>1, <1>3, <1>4 DEF Concats
  <2> QED
    BY <2>1, ListsJoin
<1>6. SectionOf(s, x, m)
  <2>1. \A j \in 1 .. m : s[j] = l
    BY <1>2, <1>3, <1>5 DEF Together
  <2>2. s[m + 1] = x
    BY <1>3, <1>4, <1>5 DEF Together
  <2>3. ToSet(s) \subseteq {x, l}
    BY <1>3, <1>4, <1>5 DEF Together
  <2> QED
    BY <1>1, <1>3, <1>4, <1>5, <2>1, <2>2, <2>3 DEF Together, SectionOf
<1> QED
  BY <1>1, <1>6 DEF Section

\* Two lines of which one is a directive.
Annotates(l, k) == {l.part, k.part} \cap Directive # {}

\* What stands next to a directive among the first n lines.
AttachedTo(lines, n) ==
  {<<lines[k], lines[k + 1]>> : k \in {j \in 1 .. n - 1 : Annotates(lines[j], lines[j + 1])}}

\* s, with some lines after it of which only the last is not blank, has the line x
\* next to its last if it has one directive of the two.
Prolongs(v, s, t, x, m) ==
  /\ List(s) /\ s # <<>> /\ SectionOf(t, x, m) /\ v = s \o t
  /\ m # 0 => s[Len(s)].part \notin Directive /\ x.part \notin Directive

LEMMA AttachedJoin ==
  ASSUME NEW s, NEW t, NEW v, NEW x, NEW m, Prolongs(v, s, t, x, m)
  PROVE  /\ List(v) /\ v # <<>> /\ v[1] = s[1] /\ v[Len(v)] = x
         /\ AttachedTo(v, Len(v)) =
              AttachedTo(s, Len(s)) \cup IF Annotates(s[Len(s)], x) THEN {<<s[Len(s)], x>>} ELSE {}
<1>1. PICK n, l : n = Len(s) /\ l = Line("blank", <<>>)
  OBVIOUS
<1>2. n \in Nat /\ n # 0 /\ m \in Nat
  BY <1>1 DEF Prolongs, List, SectionOf
<1>3. Together(v, s, t)
  <2>1. Concats(v, s, t)
    BY DEF Concats, Prolongs, SectionOf
  <2> QED
    BY <2>1, ListsJoin
<1>4. /\ List(v) /\ Len(v) = n + m + 1
      /\ \A k \in 1 .. n : v[k] = s[k]
      /\ \A k \in 1 .. m : v[n + k] = l
      /\ v[n + m + 1] = x
  <2>1. Len(t) = m + 1 /\ t[m + 1] = x /\ \A k \in 1 .. m : t[k] = l
    BY <1>1 DEF Prolongs, SectionOf
  <2>2. \A k \in 1 .. m + 1 : v[n + k] = t[k]
    BY <1>1, <1>3, <2>1 DEF Together
  <2>3. m + 1 \in 1 .. m + 1 /\ \A k \in 1 .. m : k \in 1 .. m + 1
    BY <1>2
  <2>4. v[n + m + 1] = x
    <3>1. v[n + (m + 1)] = x
      BY <2>1, <2>2, <2>3
    <3>2. n + (m + 1) = n + m + 1
      BY <1>2
    <3> QED
      BY <3>1, <3>2
  <2>5. \A k \in 1 .. m : v[n + k] = l
    BY <2>1, <2>2, <2>3
  <2>6. Len(v) = n + m + 1
    <3>1. Len(v) = n + (m + 1)
      BY <1>1, <1>3, <2>1 DEF Together
    <3> QED
      BY <1>2, <3>1
  <2> QED
    BY <1>1, <1>3, <2>4, <2>5, <2>6 DEF Together
<1>5. l.part \notin Directive
  <2>1. l.part = "blank"
    BY <1>1 DEF Line
  <2> QED
    BY <2>1 DEF Directive, Cutting
<1>6. m # 0 => s[n].part \notin Directive /\ x.part \notin Directive
  BY <1>1 DEF Prolongs
<1>7. PICK A, B, C : /\ A = AttachedTo(v, n + m + 1) /\ B = AttachedTo(s, n)
                     /\ C = IF Annotates(s[n], x) THEN {<<s[n], x>>} ELSE {}
  OBVIOUS
<1>8. \A p : p \in A <=> \E k \in 1 .. n + m : p = <<v[k], v[k + 1]>> /\ Annotates(v[k], v[k + 1])
  <2>1. n + m + 1 - 1 = n + m
    BY <1>2
  <2>2. A = {<<v[k], v[k + 1]>> : k \in {j \in 1 .. n + m : Annotates(v[j], v[j + 1])}}
    <3>1. PICK e, w : e = n + m + 1 /\ w = e - 1
      OBVIOUS
    <3>2. A = {<<v[k], v[k + 1]>> : k \in {j \in 1 .. w : Annotates(v[j], v[j + 1])}}
      <4>1. A = AttachedTo(v, e)
        BY <1>7, <3>1
      <4> QED
        BY <3>1, <4>1, Zenon DEF AttachedTo
    <3>3. w = n + m
      BY <1>2, <2>1, <3>1
    <3> QED
      BY <3>2, <3>3
  <2> QED
    BY <2>2, Zenon
<1>9. ASSUME NEW p \in A PROVE p \in B \cup C
  <2>1. PICK k \in 1 .. n + m : p = <<v[k], v[k + 1]>> /\ Annotates(v[k], v[k + 1])
    BY <1>8
  <2>2. CASE k <= n - 1
    <3>1. k \in 1 .. n - 1 /\ v[k] = s[k] /\ v[k + 1] = s[k + 1]
      BY <1>2, <1>4, <2>2
    <3> QED
      BY <1>7, <2>1, <3>1 DEF AttachedTo
  <2>3. CASE k = n /\ m = 0
    <3>1. v[k] = s[n] /\ v[k + 1] = x
      BY <1>2, <1>4, <2>3
    <3> QED
      BY <1>7, <2>1, <3>1
  <2>4. CASE k >= n /\ m # 0
    <3>1. v[k].part \notin Directive
      <4>1. CASE k = n
        BY <1>2, <1>4, <1>6, <2>4, <4>1
      <4>2. CASE k # n
        <5>1. PICK j : j = k - n
          OBVIOUS
        <5>2. j \in 1 .. m /\ k = n + j
          BY <1>2, <2>4, <4>2, <5>1
        <5> QED
          BY <1>4, <1>5, <5>2
      <4> QED
        BY <4>1, <4>2
    <3>2. v[k + 1].part \notin Directive
      <4>1. CASE k = n + m
        <5>1. k + 1 = n + m + 1
          BY <1>2, <4>1
        <5> QED
          BY <1>4, <1>6, <2>4, <5>1
      <4>2. CASE k # n + m
        <5>1. PICK j : j = k + 1 - n
          OBVIOUS
        <5>2. j \in 1 .. m /\ k + 1 = n + j
          BY <1>2, <2>4, <4>2, <5>1
        <5> QED
          BY <1>4, <1>5, <5>2
      <4> QED
        BY <4>1, <4>2
    <3> QED
      BY <2>1, <3>1, <3>2 DEF Annotates
  <2>5. k <= n - 1 \/ (k = n /\ m = 0) \/ (k >= n /\ m # 0)
    BY <1>2
  <2> QED
    BY <2>2, <2>3, <2>4, <2>5
<1>10. ASSUME NEW p \in B PROVE p \in A
  <2>1. PICK k \in 1 .. n - 1 : p = <<s[k], s[k + 1]>> /\ Annotates(s[k], s[k + 1])
    BY <1>7 DEF AttachedTo
  <2>2. v[k] = s[k] /\ v[k + 1] = s[k + 1] /\ k \in 1 .. n + m
    BY <1>2, <1>4
  <2>3. p = <<v[k], v[k + 1]>> /\ Annotates(v[k], v[k + 1])
    BY <2>1, <2>2
  <2> QED
    BY <1>8, <2>2, <2>3
<1>11. ASSUME NEW p \in C PROVE p \in A
  <2>1. p = <<s[n], x>> /\ Annotates(s[n], x)
    BY <1>7, <1>11
  <2>2. m = 0
    BY <1>6, <2>1 DEF Annotates
  <2>3. v[n] = s[n] /\ v[n + 1] = x /\ n \in 1 .. n + m
    BY <1>2, <1>4, <2>2
  <2>4. p = <<v[n], v[n + 1]>> /\ Annotates(v[n], v[n + 1])
    BY <2>1, <2>3
  <2> QED
    BY <1>8, <2>3, <2>4
<1>12. A = B \cup C
  BY <1>9, <1>10, <1>11
<1>13. v # <<>> /\ v[1] = s[1]
  BY <1>2, <1>4
<1> QED
  BY <1>1, <1>4, <1>7, <1>12, <1>13

\* g with blank lines between is a list with the same beginning and end, and the
\* same lines next to each directive.
SpacedOut(laid, g) ==
  /\ List(laid) /\ ToSet(laid) \subseteq ToSet(g) \cup {Line("blank", <<>>)}
  /\ AttachedTo(laid, Len(laid)) = AttachedTo(g, Len(g))
  /\ laid # <<>> => laid[1] = g[1] /\ laid[Len(laid)] = g[Len(g)]

LEMMA SpacedIsSpacedOut ==
  ASSUME NEW g, List(g)
  PROVE  SpacedOut(Spaced(g), g)
<1>1. PICK n \in Nat : DOMAIN g = 1 .. n /\ n = Len(g)
  BY ListIsListed
<1>2. PICK gap : gap = [k \in 1 .. n |-> IF k = 1 THEN 0 ELSE Gap(g[k - 1].part, g[k].part)]
  OBVIOUS
<1>3. ASSUME NEW k \in 1 .. n
      PROVE  gap[k] \in Nat /\ (gap[k] # 0 => k # 1 /\ g[k - 1].part \notin Directive /\ g[k].part \notin Directive)
  <2>1. CASE k = 1
    BY <1>2, <2>1
  <2>2. CASE k # 1
    <3>1. gap[k] = Gap(g[k - 1].part, g[k].part)
      BY <1>2, <2>2
    <3> QED
      BY <2>2, <3>1, GapsAreSmall
  <2> QED
    BY <2>1, <2>2
<1>4. PICK seqs : seqs = [k \in 1 .. n |-> Section(g[k], gap[k])]
  OBVIOUS
<1>5. DOMAIN seqs = 1 .. n /\ seqs = [k \in 1 .. n |-> seqs[k]] /\ \A k \in 1 .. n : seqs[k] = Section(g[k], gap[k])
  BY <1>4
<1>6. Spaced(g) = FlattenSeq(seqs)
  <2>1. \A k \in 1 .. n : [j \in 1 .. IF k = 1 THEN 0 ELSE Gap(g[k - 1].part, g[k].part) |-> Line("blank", <<>>)]
          \o <<g[k]>> = seqs[k]
    BY <1>2, <1>5 DEF Section
  <2>2. [k \in DOMAIN g |->
           [j \in 1 .. IF k = 1 THEN 0 ELSE Gap(g[k - 1].part, g[k].part) |-> Line("blank", <<>>)] \o <<g[k]>>] = seqs
    BY <1>1, <1>5, <2>1
  <2> QED
    BY <2>2 DEF Spaced
<1>7. \A k \in 1 .. n : SectionOf(seqs[k], g[k], gap[k])
  BY <1>3, <1>5, SectionIs
<1>8. PICK laid : laid = Spaced(g)
  OBVIOUS
<1>9. List(laid) /\ ToSet(laid) \subseteq ToSet(g) \cup {Line("blank", <<>>)}
  <2>1. \A k \in 1 .. n : List(seqs[k]) /\ ToSet(seqs[k]) \subseteq {g[k], Line("blank", <<>>)}
    BY <1>7 DEF SectionOf
  <2>2. List(laid) /\ ToSet(laid) = UNION {ToSet(seqs[k]) : k \in 1 .. n}
    BY <1>5, <1>6, <1>8, <2>1, FlattenHolds
  <2>3. \A k \in 1 .. n : g[k] \in ToSet(g)
    BY <1>1 DEF ToSet
  <2> QED
    BY <2>1, <2>2, <2>3
<1>10. CASE n = 0
  <2>1. laid = <<>>
    <3>1. seqs = <<>> /\ Len(seqs) = 0
      BY <1>5, <1>10
    <3>2. FlattenSeq(seqs) = seqs
      BY <3>1 DEF FlattenSeq
    <3> QED
      BY <1>6, <1>8, <3>1, <3>2
  <2>2. Len(laid) = 0 /\ \A v : AttachedTo(v, 0) = {}
    BY <2>1 DEF AttachedTo
  <2> QED
    BY <1>1, <1>8, <1>9, <1>10, <2>1, <2>2 DEF SpacedOut
<1>11. CASE n # 0
  <2>1. PICK f : /\ FlattenSeq(seqs) = f[n] /\ f[1] = seqs[1]
                 /\ \A k \in 2 .. n : f[k] = f[k - 1] \o seqs[k]
    <3>1. n \in Nat \ {0} /\ Len(seqs) = n
      BY <1>5, <1>11, ListOfEach
    <3> QED
      BY <3>1, FlattenSteps
  <2> DEFINE Fine(v, k) == /\ List(v) /\ v # <<>> /\ v[1] = g[1] /\ v[Len(v)] = g[k]
                           /\ AttachedTo(v, Len(v)) = AttachedTo(g, k)
             Bad == {k \in 1 .. n : ~Fine(f[k], k)}
  <2>2. Bad = {}
    <3> SUFFICES ASSUME Bad # {} PROVE FALSE
      OBVIOUS
    <3>1. PICK k \in Bad : \A j \in Bad : k <= j
      <4>1. Bad \in SUBSET Nat
        OBVIOUS
      <4> HIDE DEF Bad
      <4> QED
        BY <4>1, LeastNumber
    <3>2. k \in 1 .. n /\ ~Fine(f[k], k)
      OBVIOUS
    <3>3. CASE k = 1
      <4>1. PICK v : v = f[1] /\ SectionOf(v, g[1], 0)
        <5>1. gap[1] = 0 /\ 1 \in 1 .. n
          BY <1>2, <1>11
        <5> QED
          BY <1>7, <2>1, <5>1
      <4>2. List(v) /\ Len(v) = 1 /\ v[1] = g[1]
        BY <4>1 DEF SectionOf
      <4>3. \A w : AttachedTo(w, 1) = {}
        BY DEF AttachedTo
      <4>4. v # <<>>
        BY <4>2
      <4> QED
        BY <3>2, <3>3, <4>1, <4>2, <4>3, <4>4
    <3>4. CASE k # 1
      <4>1. k - 1 \in 1 .. n /\ k \in 2 .. n /\ ~(k <= k - 1)
        BY <3>2, <3>4
      <4>2. PICK s, t, v, x, m : s = f[k - 1] /\ t = seqs[k] /\ v = f[k] /\ x = g[k] /\ m = gap[k]
        OBVIOUS
      <4>3. Fine(s, k - 1)
        BY <3>1, <4>1, <4>2
      <4>4. v = s \o t /\ SectionOf(t, x, m)
        BY <1>7, <2>1, <3>2, <4>1, <4>2
      <4>5. m # 0 => s[Len(s)].part \notin Directive /\ x.part \notin Directive
        BY <1>3, <3>2, <4>2, <4>3
      <4>6. Prolongs(v, s, t, x, m)
        BY <4>3, <4>4, <4>5 DEF Prolongs
      <4>7. /\ List(v) /\ v # <<>> /\ v[1] = s[1] /\ v[Len(v)] = x
            /\ AttachedTo(v, Len(v)) =
                 AttachedTo(s, Len(s)) \cup IF Annotates(s[Len(s)], x) THEN {<<s[Len(s)], x>>} ELSE {}
        BY <4>6, AttachedJoin
      <4>8. AttachedTo(g, k) = AttachedTo(g, k - 1) \cup IF Annotates(g[k - 1], g[k]) THEN {<<g[k - 1], g[k]>>} ELSE {}
        <5>1. 1 .. k - 1 = (1 .. (k - 1) - 1) \cup {k - 1} /\ (k - 1) + 1 = k
          BY <3>2, <4>1
        <5> QED
          BY <5>1 DEF AttachedTo
      <4>9. AttachedTo(v, Len(v)) = AttachedTo(g, k) /\ v[1] = g[1]
        BY <4>2, <4>3, <4>7, <4>8
      <4> QED
        BY <3>2, <4>2, <4>7, <4>9
    <3> QED
      BY <3>3, <3>4
  <2>3. Fine(f[n], n)
    BY <1>11, <2>2
  <2>4. laid = f[n]
    BY <1>6, <1>8, <2>1
  <2> QED
    BY <1>1, <1>8, <1>9, <2>3, <2>4 DEF SpacedOut
<1> QED
  BY <1>10, <1>11

\* What is formatted are still lines.
LEMMA FormattedLines ==
  ASSUME NEW g, Lines(g), NEW fails
  PROVE  Lines(Formatted(g, fails)) /\ SpacedOut(Formatted(g, fails), g)
<1>1. SpacedOut(Spaced(g), g) /\ SpacedOut(g, g)
  BY SpacedIsSpacedOut DEF Lines, SpacedOut
<1>2. Formatted(g, fails) \in {g, Spaced(g)}
  BY DEF Formatted
<1>3. Line("blank", <<>>).opens \in Nat /\ Line("blank", <<>>).closes \in Nat
  BY DEF Line
<1>4. Lines(Spaced(g))
  BY <1>1, <1>3 DEF Lines, SpacedOut
<1> QED
  BY <1>1, <1>2, <1>4

\* What every block is made of are lines.
LEMMA BlockLines ==
  ASSUME site \in Sites, NEW x, ShowsCode(x)
  PROVE  Lines(x.lines)
<1>1. CASE ShowsItem(x)
  <2>1. PICK i \in ToSet(Items) : x = Signature(i)
    BY <1>1 DEF ShowsItem
  <2>2. x.lines = SignatureSource(i)
    BY <2>1 DEF Signature, Block
  <2> QED
    BY <2>2, ItemsListed, SignatureLines
<1>2. CASE ShowsMember(x)
  <2>1. PICK i \in ToSet(Items) : i.kind \in {"Class", "Interface"} /\ \E m \in ToSet(i.members) :
          x = [Block("ApiMember", MemberSource(i, m), {}, 1) EXCEPT !.of = m]
    BY <1>2, Zenon DEF ShowsMember
  <2>2. PICK m \in ToSet(i.members) : x = [Block("ApiMember", MemberSource(i, m), {}, 1) EXCEPT !.of = m]
    BY <2>1, Zenon
  <2>3. x.lines = MemberSource(i, m)
    BY <2>2 DEF Block
  <2> QED
    BY <2>1, <2>3, ItemsListed, MemberSourceLines
<1>3. CASE ShowsExample(x)
  <2>1. PICK i \in ToSet(Items) : \E e \in ToSet(i.examples) : x = ExampleBlock(e)
    BY <1>3 DEF ShowsExample
  <2>2. PICK e \in ToSet(i.examples) : x = ExampleBlock(e)
    BY <2>1
  <2>3. Lines(e.lines)
    BY <2>1, ItemsListed DEF WellFormed, Timed
  <2>4. Lines(Prepared(e, site.suppress))
    BY <2>3, PreparedLines
  <2>5. x.lines = Formatted(Prepared(e, site.suppress), e.fails)
    BY <2>2 DEF ExampleBlock, Block
  <2> QED
    BY <2>4, <2>5, FormattedLines
<1>4. CASE ShowsFence(x)
  <2>1. PICK a \in ToSet(site.authored) : \E f \in ToSet(a.fences) :
          x = Block("with-api", Formatted(f.lines, f.fails), f.fails, f.ms)
    BY <1>4 DEF ShowsFence
  <2>2. PICK f \in ToSet(a.fences) : x = Block("with-api", Formatted(f.lines, f.fails), f.fails, f.ms)
    BY <2>1
  <2>3. Lines(f.lines)
    BY <2>1, SitesAssumption DEF Timed
  <2>4. x.lines = Formatted(f.lines, f.fails)
    BY <2>2 DEF Block
  <2> QED
    BY <2>3, <2>4, FormattedLines
<1> QED
  BY <1>1, <1>2, <1>3, <1>4 DEF ShowsCode

\* Of a declaration all that follows its imports is copied.
LEMMA SignatureCopied ==
  ASSUME NEW i, WellFormed(i), NEW v, v = SignatureSource(i)
  PROVE  StripDirectives(Parts(v)) = HideCutLines(v)
<1>1. PICK h, s : h = HiddenImports(i) /\ s = Skeleton(i)
  OBVIOUS
<1>2. Hidden(h) /\ List(s) /\ (\A l \in ToSet(s) : l.part # "cut") /\ v = h \o s
  BY <1>1, RefsListed, ImportsHidden, SkeletonPrints DEF WellFormed, SignatureSource
<1>3. PICK a, n : a = Len(h) /\ n = Len(v)
  OBVIOUS
<1>4. CutAtEnd(v, h, s)
  BY <1>2, CutAfterHidden DEF CutOff
<1>5. /\ List(v) /\ n = a + Len(s) /\ a \in Nat /\ n \in Nat /\ Len(s) \in Nat /\ DOMAIN v = 1 .. n
      /\ \A k \in 1 .. n : CutAt(v) = {} \/ k > FirstCut(v) <=> k > a
  BY <1>3, <1>4 DEF CutAtEnd
<1>6. HideCutLines(v) = {k \in 1 .. n : k > a}
  BY <1>5 DEF HideCutLines
<1>7. /\ \A k \in 1 .. a : v[k].part = IF k = a THEN "cut" ELSE "import"
      /\ \A k \in 1 .. n : k > a => v[k].part \in Shown \cup {"opening", "closing", "member"}
  <2>1. Together(v, h, s)
    <3>1. List(h)
      BY <1>2, ListOfNone DEF Hidden
    <3>2. Concats(v, h, s)
      BY <1>2, <3>1 DEF Concats
    <3> QED
      BY <3>2, ListsJoin
  <2>2. ASSUME NEW k \in 1 .. a PROVE v[k].part = IF k = a THEN "cut" ELSE "import"
    <3>1. v[k] = h[k]
      BY <1>3, <2>1 DEF Together
    <3>2. h # <<>>
      BY <1>3
    <3>3. h[a].part = "cut" /\ \A j \in 1 .. a - 1 : h[j].part = "import"
      BY <1>2, <1>3, <3>2 DEF Hidden
    <3>4. k = a \/ k \in 1 .. a - 1
      BY <1>5
    <3> QED
      BY <3>1, <3>3, <3>4
  <2>3. ASSUME NEW k \in 1 .. n, k > a PROVE v[k].part \in Shown \cup {"opening", "closing", "member"}
    <3>1. PICK j \in 1 .. Len(s) : k = a + j
      <4>1. k - a \in 1 .. Len(s) /\ k = a + (k - a)
        BY <1>5, <2>3
      <4> QED
        BY <4>1
    <3>2. v[k] = s[j]
      BY <1>3, <2>1, <3>1 DEF Together
    <3>3. s[j] \in ToSet(s)
      BY <1>2, <3>1 DEF List, ToSet
    <3> QED
      BY <1>1, <3>2, <3>3, SkeletonPrints
  <2> QED
    BY <2>2, <2>3
<1>8. PICK parts : parts = Parts(v)
  OBVIOUS
<1>9. PartsOf(parts, n)
  BY <1>3, <1>5, <1>8, PartsAre
<1>10. ASSUME NEW k \in 1 .. n PROVE parts[k] = IF k = a THEN "cut-before" ELSE "code"
  <2>1. PICK part : part = v[k].part
    OBVIOUS
  <2>2. parts[k] = CASE part = "cut" -> "cut-before"
                     [] part \in Shown \cup {"opening", "closing", "member"} -> "code"
                     [] OTHER -> part
    BY <1>5, <1>8, <2>1 DEF Parts
  <2>3. CASE k = a
    <3>1. part = "cut"
      BY <1>7, <2>1, <2>3
    <3> QED
      BY <2>2, <2>3, <3>1 DEF Shown
  <2>4. CASE k # a
    <3>1. part \in Shown \cup {"opening", "closing", "member"}
      <4>1. k \in 1 .. a \/ k > a
        BY <1>5
      <4> QED
        BY <1>7, <2>1, <2>4, <4>1 DEF Shown
    <3>2. "cut" \notin Shown \cup {"opening", "closing", "member"}
      BY DEF Shown
    <3> QED
      BY <2>2, <2>4, <3>1, <3>2
  <2> QED
    BY <2>3, <2>4
<1>11. Cuts(parts, "cut-before") = {k \in 1 .. n : k = a} /\ Cuts(parts, "cut-after") = {}
  BY <1>9, <1>10 DEF Cuts, PartsOf
<1>12. LastOf(Cuts(parts, "cut-before")) = a /\ LastOf(Cuts(parts, "cut-after")) = 0
  <2>1. PICK b, c, S, T : /\ S = Cuts(parts, "cut-before") /\ T = Cuts(parts, "cut-after")
                          /\ b = LastOf(S) /\ c = LastOf(T)
    OBVIOUS
  <2>2. LastIn(b, S, n) /\ LastIn(c, T, n)
    BY <1>5, <1>9, <2>1, StripKeeps
  <2>3. (S = {} => b = 0) /\ (S # {} => b \in S) /\ (T = {} => c = 0)
    BY <2>2 DEF LastIn
  <2>4. S = {} => a = 0
    <3>1. a \in 1 .. n \/ a = 0
      BY <1>5
    <3> QED
      BY <1>11, <2>1, <3>1
  <2> QED
    BY <1>11, <2>1, <2>3, <2>4
<1>13. \A x : Free(parts, x)
  <2>1. \A s0, e : <<s0, e>> \in Ranges(parts) => e \in 1 .. n /\ s0 \in 1 .. e /\ Balanced(parts, s0, e)
    BY <1>5, <1>9, RangesBalance DEF PartsOf
  <2>2. \A s0, e : e \in 1 .. n /\ s0 \in 1 .. e => ~Balanced(parts, s0, e)
    <3> TAKE s0, e
    <3> HAVE e \in 1 .. n /\ s0 \in 1 .. e
    <3>1. s0 \in 1 .. n
      BY <1>5
    <3>2. parts[s0] # "cut-start"
      BY <1>10, <3>1
    <3> QED
      BY <3>2 DEF Balanced
  <2> QED
    BY <2>1, <2>2 DEF Free
<1>14. StripDirectives(parts) = {x \in 1 .. n : CopiedAt(parts, a, 0, x)}
  BY <1>5, <1>9, <1>12, StripKeeps
<1>15. ASSUME NEW x \in 1 .. n PROVE CopiedAt(parts, a, 0, x) <=> x > a
  <2>1. ~(0 > a)
    BY <1>5
  <2>2. x > a => parts[x] = "code"
    BY <1>5, <1>10
  <2>3. x > a <=> a < x
    BY <1>5
  <2> QED
    BY <1>13, <2>1, <2>2, <2>3 DEF CopiedAt
<1> QED
  BY <1>6, <1>8, <1>14, <1>15

\* What is copied from a block is what it shows (codeText and
\* stripTwoslashDirectives): of a signature what the hide-cut transformer leaves,
\* of an example or a fence what its directives say, as long as cuts are paired
\* and nothing is cut again behind a cut-after; and formatting leaves next to each
\* directive of an example the line that the author put there
\* (addLogicalBlankLines).
THEOREM CopiesAreWhatShows == Spec => []CopyIsWhatShows
<1>1. ASSUME PassInv, NEW b \in Blocks, At(b).component = "ApiSignature"
      PROVE  StripDirectives(Parts(At(b).lines)) = HideCutLines(At(b).lines)
  <2>1. PICK x : x = At(b)
    OBVIOUS
  <2>2. ShowsCode(x) /\ site \in Sites
    BY <1>1, <2>1, BlockShows DEF PassInv, TypeInv
  <2>3. ShowsItem(x)
    BY <1>1, <2>1, <2>2, ComponentTells
  <2>4. PICK i \in ToSet(Items) : x = Signature(i)
    BY <2>3 DEF ShowsItem
  <2>5. x.lines = SignatureSource(i)
    BY <2>4 DEF Signature, Block
  <2>6. WellFormed(i)
    BY <2>2, ItemsListed
  <2> QED
    BY <2>1, <2>5, <2>6, SignatureCopied
<1>2. ASSUME PassInv, NEW b \in Blocks, Paired(Parts(At(b).lines)), CutOnce(Parts(At(b).lines))
      PROVE  StripDirectives(Parts(At(b).lines)) = Uncut(Parts(At(b).lines))
  <2>1. PICK x, lines, n : x = At(b) /\ lines = x.lines /\ n = Len(lines)
    OBVIOUS
  <2>2. ShowsCode(x) /\ site \in Sites
    BY <1>2, <2>1, BlockShows DEF PassInv, TypeInv
  <2>3. List(lines)
    BY <2>1, <2>2, BlockLines DEF Lines
  <2>4. n \in Nat
    BY <2>1, <2>3 DEF List
  <2>5. PartsOf(Parts(lines), n)
    BY <2>1, <2>3, PartsAre
  <2> QED
    BY <1>2, <2>1, <2>4, <2>5, CopyShown
<1>5. PassInv => CopiedAsShown
  BY <1>1, <1>2 DEF CopiedAsShown
<1>3. ASSUME PassInv, NEW b \in Blocks, At(b).component = "ApiExample"
      PROVE  /\ Attached(At(b).lines) = Attached(At(b).of)
             /\ At(b).lines # <<>> => /\ At(b).lines[1] = At(b).of[1]
                                      /\ At(b).lines[Len(At(b).lines)] = At(b).of[Len(At(b).of)]
  <2>1. PICK x : x = At(b)
    OBVIOUS
  <2>2. ShowsCode(x) /\ site \in Sites
    BY <1>3, <2>1, BlockShows DEF PassInv, TypeInv
  <2>3. ShowsExample(x)
    BY <1>3, <2>1, <2>2, ComponentTells
  <2>4. PICK i \in ToSet(Items) : \E e \in ToSet(i.examples) : x = ExampleBlock(e)
    BY <2>3 DEF ShowsExample
  <2>5. PICK e \in ToSet(i.examples) : x = ExampleBlock(e)
    BY <2>4
  <2>6. Lines(e.lines)
    BY <2>2, <2>4, ItemsListed DEF WellFormed, Timed
  <2>7. PICK laid, given : given = Prepared(e, site.suppress) /\ laid = Formatted(given, e.fails)
    OBVIOUS
  <2>8. x.lines = laid /\ x.of = given
    BY <2>5, <2>7 DEF ExampleBlock, Block
  <2>9. SpacedOut(laid, given)
    BY <2>6, <2>7, PreparedLines, FormattedLines
  <2>10. \A v : Attached(v) = AttachedTo(v, Len(v))
    BY DEF Attached, AttachedTo, Annotates
  <2>11. /\ Attached(laid) = Attached(given)
         /\ laid # <<>> => laid[1] = given[1] /\ laid[Len(laid)] = given[Len(given)]
    BY <2>9, <2>10 DEF SpacedOut
  <2> QED
    BY <2>1, <2>8, <2>11
<1>4. PassInv => DirectivesStayAttached
  BY <1>3 DEF DirectivesStayAttached
<1> QED
  BY <1>4, <1>5, PassInvAlways, PTL DEF CopyIsWhatShows

--------------------------------------------------------------------------------
(* The braces and the classes that are open. *)

SumOfBraces(v) == FoldLeft(LAMBDA sum, l : sum + l.opens - l.closes, 0, v)
OpenAfter(v)   == FoldLeft(ScopeAfter, <<>>, v)

\* n lines, of each of which so many braces are known.
Braces(v, n) == DOMAIN v = 1 .. n /\ \A k \in 1 .. n : v[k].opens \in Nat /\ v[k].closes \in Nat

\* h goes over n lines and ends with e.
SumsTo(h, v, n, e) ==
  /\ h \in [0 .. n -> Int] /\ h[0] = 0 /\ h[n] = e
  /\ \A k \in 1 .. n : h[k] = h[k - 1] + v[k].opens - v[k].closes
OpensTo(h, v, n, e) ==
  /\ h \in [0 .. n -> Seq({v[k].declares : k \in 1 .. n})] /\ h[0] = <<>> /\ h[n] = e
  /\ \A k \in 1 .. n : h[k] = ScopeAfter(h[k - 1], v[k])

\* The braces of some lines are summed up line by line.
LEMMA DepthSteps ==
  ASSUME NEW n \in Nat, NEW v, Braces(v, n)
  PROVE  \E h : SumsTo(h, v, n, SumOfBraces(v))
<1> DEFINE op == [k \in 1 .. n |-> [sum \in Int |-> sum + v[k].opens - v[k].closes]]
           Folds(g) == g = [s \in SUBSET DOMAIN v |->
                              IF s = {} THEN 0
                              ELSE g[s \ {Max(s)}] + v[Max(s)].opens - v[Max(s)].closes]
           chosen == CHOOSE g : Folds(g)
<1>1. SumOfBraces(v) = chosen[DOMAIN v]
  BY DEF SumOfBraces, FoldLeft, MapThenFoldSet
<1>2. DOMAIN v = 1 .. n /\ \A k \in 1 .. n : v[k].opens \in Int /\ v[k].closes \in Int
  BY DEF Braces
<1>3. op \in [1 .. n -> [Int -> Int]] /\ 0 \in Int
  BY <1>2
<1>4. ASSUME NEW k \in 1 .. n, NEW sum \in Int PROVE op[k][sum] = sum + v[k].opens - v[k].closes
  OBVIOUS
<1> HIDE DEF op
<1>5. ASSUME NEW s \in SUBSET (1 .. n), s # {} PROVE Max(s) \in 1 .. n
  BY <1>5, LatestChooses DEF Latest
<1>6. \E g : Folds(g)
  <2>1. PICK f \in [SUBSET (1 .. n) -> Int] : FoldsUp(f, n, 0, op)
    BY <1>3, SequenceFoldExists
  <2>2. ASSUME NEW s \in SUBSET (1 .. n)
        PROVE  f[s] = IF s = {} THEN 0 ELSE f[s \ {Max(s)}] + v[Max(s)].opens - v[Max(s)].closes
    <3>1. f[s] = IF s = {} THEN 0 ELSE op[Max(s)][f[s \ {Max(s)}]]
      BY <2>1 DEF FoldsUp
    <3>2. f[s \ {Max(s)}] \in Int
      OBVIOUS
    <3> QED
      BY <1>4, <1>5, <3>1, <3>2
  <2>3. Folds(f)
    BY <1>2, <2>1, <2>2 DEF FoldsUp
  <2> QED
    BY <2>3
<1>7. PICK g : g = chosen /\ Folds(g)
  <2> HIDE DEF Folds
  <2> QED
    BY <1>6
<1> HIDE DEF chosen
<1>8. g = [s \in SUBSET (1 .. n) |-> g[s]] /\ g[{}] = 0
  BY <1>2, <1>7
<1>9. ASSUME NEW s \in SUBSET (1 .. n), s # {}, g[s \ {Max(s)}] \in Int
      PROVE  g[s] = op[Max(s)][g[s \ {Max(s)}]]
  <2>1. g[s] = g[s \ {Max(s)}] + v[Max(s)].opens - v[Max(s)].closes
    BY <1>2, <1>7, <1>9
  <2> QED
    BY <1>4, <1>5, <1>9, <2>1
<1>10. PICK h \in [0 .. n -> Int] : StepsTo(h, n, 0, op, g[1 .. n])
  <2> DEFINE V == Int
             t == g
             o == op
             b == 0
  <2>1. FoldsAmong(t, n, V, b, o)
    BY <1>8, <1>9 DEF FoldsAmong
  <2>2. o \in [1 .. n -> [V -> V]] /\ b \in V
    BY <1>3
  <2> HIDE DEF t, V, o, b
  <2>3. \E h \in [0 .. n -> V] : StepsTo(h, n, b, o, t[1 .. n])
    BY <2>1, <2>2, SequenceFoldSteps
  <2> QED
    BY <2>3 DEF t, V, o, b
<1>11. ASSUME NEW k \in 1 .. n PROVE h[k] = h[k - 1] + v[k].opens - v[k].closes
  <2>1. h[k - 1] \in Int
    OBVIOUS
  <2> QED
    BY <1>4, <1>10, <2>1 DEF StepsTo
<1>12. h[n] = SumOfBraces(v)
  BY <1>1, <1>2, <1>7, <1>10 DEF StepsTo
<1> QED
  BY <1>10, <1>11, <1>12 DEF StepsTo, SumsTo

\* The stack of classes stays a list of names that are declared.
LEMMA ScopeIsStack ==
  ASSUME NEW X, NEW stack \in Seq(X), NEW line, line.opens \in Nat, line.closes \in Nat, line.declares \in X
  PROVE  ScopeAfter(stack, line) \in Seq(X)
<1>1. PICK pushed, excess, j :
        /\ pushed = (IF line.declares # None /\ line.opens > line.closes THEN Append(stack, line.declares) ELSE stack)
        /\ excess = (IF line.closes > line.opens THEN line.closes - line.opens ELSE 0)
        /\ j = (IF excess > Len(pushed) THEN 0 ELSE Len(pushed) - excess)
  OBVIOUS
<1>2. pushed \in Seq(X)
  BY <1>1
<1>3. excess \in Nat /\ j \in Nat /\ j <= Len(pushed)
  BY <1>1, <1>2
<1>4. SubSeq(pushed, 1, j) \in Seq(X)
  BY <1>2, <1>3
<1>5. ScopeAfter(stack, line) = SubSeq(pushed, 1, j)
  BY <1>1 DEF ScopeAfter
<1> QED
  BY <1>4, <1>5

\* Classes are opened and left line by line.
LEMMA ScopeSteps ==
  ASSUME NEW n \in Nat, NEW v, Braces(v, n)
  PROVE  \E h : OpensTo(h, v, n, OpenAfter(v))
<1> DEFINE X == {v[k].declares : k \in 1 .. n}
           op == [k \in 1 .. n |-> [stack \in Seq(X) |-> ScopeAfter(stack, v[k])]]
           Folds(g) == g = [s \in SUBSET DOMAIN v |->
                              IF s = {} THEN <<>> ELSE ScopeAfter(g[s \ {Max(s)}], v[Max(s)])]
           chosen == CHOOSE g : Folds(g)
<1>1. OpenAfter(v) = chosen[DOMAIN v]
  BY DEF OpenAfter, FoldLeft, MapThenFoldSet
<1>2. DOMAIN v = 1 .. n /\ \A k \in 1 .. n : v[k].opens \in Nat /\ v[k].closes \in Nat /\ v[k].declares \in X
  BY DEF Braces
<1> HIDE DEF X
<1>3. op \in [1 .. n -> [Seq(X) -> Seq(X)]] /\ <<>> \in Seq(X)
  BY <1>2, ScopeIsStack
<1>4. ASSUME NEW k \in 1 .. n, NEW stack \in Seq(X) PROVE op[k][stack] = ScopeAfter(stack, v[k])
  OBVIOUS
<1> HIDE DEF op
<1>5. ASSUME NEW s \in SUBSET (1 .. n), s # {} PROVE Max(s) \in 1 .. n
  BY <1>5, LatestChooses DEF Latest
<1>6. \E g : Folds(g)
  <2>1. PICK f \in [SUBSET (1 .. n) -> Seq(X)] : FoldsUp(f, n, <<>>, op)
    BY <1>3, SequenceFoldExists
  <2>2. ASSUME NEW s \in SUBSET (1 .. n)
        PROVE  f[s] = IF s = {} THEN <<>> ELSE ScopeAfter(f[s \ {Max(s)}], v[Max(s)])
    <3>1. f[s] = IF s = {} THEN <<>> ELSE op[Max(s)][f[s \ {Max(s)}]]
      BY <2>1 DEF FoldsUp
    <3>2. f[s \ {Max(s)}] \in Seq(X)
      OBVIOUS
    <3> QED
      BY <1>4, <1>5, <3>1, <3>2
  <2>3. Folds(f)
    BY <1>2, <2>1, <2>2 DEF FoldsUp
  <2> QED
    BY <2>3
<1>7. PICK g : g = chosen /\ Folds(g)
  <2> HIDE DEF Folds
  <2> QED
    BY <1>6
<1> HIDE DEF chosen
<1>8. g = [s \in SUBSET (1 .. n) |-> g[s]] /\ g[{}] = <<>>
  BY <1>2, <1>7
<1>9. ASSUME NEW s \in SUBSET (1 .. n), s # {}, g[s \ {Max(s)}] \in Seq(X)
      PROVE  g[s] = op[Max(s)][g[s \ {Max(s)}]]
  <2>1. g[s] = ScopeAfter(g[s \ {Max(s)}], v[Max(s)])
    BY <1>2, <1>7, <1>9
  <2> QED
    BY <1>4, <1>5, <1>9, <2>1
<1>10. PICK h \in [0 .. n -> Seq(X)] : StepsTo(h, n, <<>>, op, g[1 .. n])
  <2> DEFINE V == Seq(X)
             t == g
             o == op
             b == <<>>
  <2>1. FoldsAmong(t, n, V, b, o)
    BY <1>8, <1>9 DEF FoldsAmong
  <2>2. o \in [1 .. n -> [V -> V]] /\ b \in V
    BY <1>3
  <2> HIDE DEF t, V, o, b
  <2>3. \E h \in [0 .. n -> V] : StepsTo(h, n, b, o, t[1 .. n])
    BY <2>1, <2>2, SequenceFoldSteps
  <2> QED
    BY <2>3 DEF t, V, o, b
<1>11. ASSUME NEW k \in 1 .. n PROVE h[k] = ScopeAfter(h[k - 1], v[k])
  <2>1. h[k - 1] \in Seq(X)
    OBVIOUS
  <2> QED
    BY <1>4, <1>10, <2>1 DEF StepsTo
<1>12. h[n] = OpenAfter(v)
  BY <1>1, <1>2, <1>7, <1>10 DEF StepsTo
<1> QED
  BY <1>10, <1>11, <1>12 DEF StepsTo, OpensTo, X

\* Where a list begins.
Begins(u, v, n) == DOMAIN u = 1 .. n /\ n \in Nat /\ \A k \in 1 .. n : u[k] = v[k]

LEMMA ListBegins ==
  ASSUME NEW v, List(v), NEW n \in 0 .. Len(v)
  PROVE  Begins(SubSeq(v, 1, n), v, n)
<1>1. PICK X, N, u : X = ToSet(v) /\ N = Len(v) /\ u = SubSeq(v, 1, n)
  OBVIOUS
<1>2. v \in Seq(X) /\ N \in Nat /\ n \in Nat /\ n <= N
  BY <1>1 DEF List
<1>3. u \in Seq(X) /\ Len(u) = n /\ \A k \in 1 .. n : u[k] = v[k]
  BY <1>1, <1>2
<1>4. DOMAIN u = 1 .. n
  BY <1>3
<1> QED
  BY <1>1, <1>2, <1>3, <1>4 DEF Begins

\* The depth after a line is that before it and what the line opens and closes.
Deepens(d, lines, n) ==
  /\ d \in [0 .. n -> Int]
  /\ \A k \in 0 .. n : Depth(lines, k) = d[k]
  /\ \A k \in 1 .. n : d[k] = d[k - 1] + lines[k].opens - lines[k].closes

LEMMA DepthMoves ==
  ASSUME NEW lines, Lines(lines), NEW n, n = Len(lines)
  PROVE  \E d : Deepens(d, lines, n)
<1>1. n \in Nat /\ Braces(lines, n)
  <2>1. PICK m \in Nat : DOMAIN lines = 1 .. m /\ m = Len(lines)
    BY ListIsListed DEF Lines
  <2>2. \A k \in 1 .. m : lines[k] \in ToSet(lines)
    BY <2>1 DEF ToSet
  <2> QED
    BY <2>1, <2>2 DEF Braces, Lines
<1>2. PICK d : SumsTo(d, lines, n, SumOfBraces(lines))
  BY <1>1, DepthSteps
<1>3. ASSUME NEW k \in 0 .. n PROVE Depth(lines, k) = d[k]
  <2>1. PICK u : u = SubSeq(lines, 1, k)
    OBVIOUS
  <2>2. Begins(u, lines, k)
    BY <2>1, ListBegins DEF Lines
  <2>3. Braces(u, k) /\ k \in Nat
    BY <1>1, <2>2 DEF Begins, Braces
  <2>4. PICK h : SumsTo(h, u, k, SumOfBraces(u))
    BY <2>3, DepthSteps
  <2> DEFINE Bad == {j \in 0 .. k : h[j] # d[j]}
  <2>5. Bad = {}
    <3> SUFFICES ASSUME Bad # {} PROVE FALSE
      OBVIOUS
    <3>1. PICK j \in Bad : \A i \in Bad : j <= i
      <4>1. Bad \in SUBSET Nat
        OBVIOUS
      <4> HIDE DEF Bad
      <4> QED
        BY <4>1, LeastNumber
    <3>2. j \in 0 .. k /\ h[j] # d[j]
      OBVIOUS
    <3>3. j # 0
      BY <1>2, <2>4, <3>2 DEF SumsTo
    <3>4. j \in 1 .. k /\ j \in 1 .. n /\ j - 1 \in 0 .. k /\ ~(j <= j - 1)
      BY <1>1, <3>2, <3>3
    <3>5. h[j - 1] = d[j - 1]
      BY <3>1, <3>4
    <3>6. h[j] = h[j - 1] + u[j].opens - u[j].closes /\ d[j] = d[j - 1] + lines[j].opens - lines[j].closes
      BY <1>2, <2>4, <3>4 DEF SumsTo
    <3>7. u[j] = lines[j]
      BY <2>2, <3>4 DEF Begins
    <3> QED
      BY <3>2, <3>5, <3>6, <3>7
  <2>6. h[k] = d[k]
    BY <2>3, <2>5
  <2>7. Depth(lines, k) = SumOfBraces(u)
    BY <2>1 DEF Depth, SumOfBraces
  <2> QED
    BY <2>4, <2>6, <2>7 DEF SumsTo
<1> QED
  BY <1>2, <1>3 DEF SumsTo, Deepens

\* In the k lines before, each class that is open after them was begun and not
\* left, with as much depth gained since as there are classes open in it.
StackFits(stack, d, lines, k) ==
  \A j \in 1 .. Len(stack) : \E q \in 1 .. k :
    /\ lines[q].declares = stack[j]
    /\ d[k] - d[q - 1] >= Len(stack) - j + 1
    /\ \A m \in q .. k : d[m] > d[q - 1]

LEMMA StackGoesOn ==
  ASSUME NEW n \in Nat, NEW lines, Braces(lines, n), NEW d, Deepens(d, lines, n), NEW k \in 1 .. n,
         NEW X, NEW stack \in Seq(X), lines[k].declares \in X, StackFits(stack, d, lines, k - 1)
  PROVE  StackFits(ScopeAfter(stack, lines[k]), d, lines, k)
<1>1. PICK line, o, c, L : line = lines[k] /\ o = line.opens /\ c = line.closes /\ L = Len(stack)
  OBVIOUS
<1>2. o \in Nat /\ c \in Nat /\ L \in Nat
  BY <1>1 DEF Braces
<1>3. \A m \in 0 .. n : d[m] \in Int
  BY DEF Deepens
<1>4. d[k] = d[k - 1] + o - c
  BY <1>1 DEF Deepens
<1>5. k - 1 \in 0 .. n /\ k \in 0 .. n
  OBVIOUS
<1>6. ASSUME NEW j \in 1 .. L
      PROVE  \E q \in 1 .. k - 1 : /\ lines[q].declares = stack[j] /\ d[k - 1] - d[q - 1] >= L - j + 1
                                   /\ \A m \in q .. k - 1 : d[m] > d[q - 1]
  BY <1>1 DEF StackFits
<1>7. ASSUME NEW j \in 1 .. L, NEW r \in Int, (L - j + 1) + o - c >= r, r >= 1
      PROVE  \E q \in 1 .. k : /\ lines[q].declares = stack[j] /\ d[k] - d[q - 1] >= r
                               /\ \A m \in q .. k : d[m] > d[q - 1]
  <2>1. PICK q \in 1 .. k - 1 : /\ lines[q].declares = stack[j] /\ d[k - 1] - d[q - 1] >= L - j + 1
                                /\ \A m \in q .. k - 1 : d[m] > d[q - 1]
    BY <1>6
  <2>2. q \in 1 .. k /\ q - 1 \in 0 .. n /\ \A m \in q .. k : m \in q .. k - 1 \/ m = k
    OBVIOUS
  <2>3. PICK x, y, z : x = d[k] /\ y = d[k - 1] /\ z = d[q - 1]
    OBVIOUS
  <2>4. x \in Int /\ y \in Int /\ z \in Int /\ x = y + o - c /\ y - z >= L - j + 1
    BY <1>3, <1>4, <1>5, <2>1, <2>2, <2>3
  <2>5. x - z >= r /\ x > z
    BY <1>2, <1>7, <2>4
  <2>6. \A m \in q .. k : d[m] > d[q - 1]
    BY <2>1, <2>2, <2>3, <2>5
  <2> QED
    BY <2>1, <2>2, <2>3, <2>5, <2>6
<1>8. PICK next : next = ScopeAfter(stack, line)
  OBVIOUS
<1>9. CASE line.declares # None /\ o > c
  <2>1. PICK new : new = Append(stack, line.declares)
    OBVIOUS
  <2>2. new \in Seq(X) /\ Len(new) = L + 1 /\ new[L + 1] = line.declares /\ \A j \in 1 .. L : new[j] = stack[j]
    BY <1>1, <2>1
  <2>3. next = SubSeq(new, 1, IF 0 > Len(new) THEN 0 ELSE Len(new) - 0)
    BY <1>1, <1>2, <1>8, <1>9, <2>1 DEF ScopeAfter
  <2>4. (IF 0 > Len(new) THEN 0 ELSE Len(new) - 0) = Len(new)
    BY <1>2, <2>2
  <2>5. next = new
    BY <2>2, <2>3, <2>4, SubSeqFull
  <2>6. ASSUME NEW j \in 1 .. L + 1
        PROVE  \E q \in 1 .. k : /\ lines[q].declares = new[j] /\ d[k] - d[q - 1] >= (L + 1) - j + 1
                                 /\ \A m \in q .. k : d[m] > d[q - 1]
    <3>1. CASE j = L + 1
      <4>1. k \in 1 .. k /\ \A m \in k .. k : m = k
        OBVIOUS
      <4>2. PICK x, y : x = d[k] /\ y = d[k - 1]
        OBVIOUS
      <4>3. x \in Int /\ y \in Int /\ x = y + o - c
        BY <1>3, <1>4, <1>5, <4>2
      <4>4. x - y >= (L + 1) - j + 1 /\ x > y
        BY <1>2, <1>9, <3>1, <4>3
      <4>5. lines[k].declares = new[j]
        BY <1>1, <2>2, <3>1
      <4> QED
        BY <4>1, <4>2, <4>4, <4>5
    <3>2. CASE j # L + 1
      <4>1. PICK r : r = (L + 1) - j + 1
        OBVIOUS
      <4>2. j \in 1 .. L /\ r \in Int /\ (L - j + 1) + o - c >= r /\ r >= 1
        BY <1>2, <1>9, <3>2, <4>1
      <4>3. \E q \in 1 .. k : /\ lines[q].declares = stack[j] /\ d[k] - d[q - 1] >= r
                              /\ \A m \in q .. k : d[m] > d[q - 1]
        BY <1>7, <4>2
      <4> QED
        BY <2>2, <4>1, <4>2, <4>3
    <3> QED
      BY <3>1, <3>2
  <2>7. StackFits(new, d, lines, k)
    <3>1. PICK M : M = Len(new) /\ M = L + 1
      BY <2>2
    <3>2. \A j \in 1 .. M : \E q \in 1 .. k :
            /\ lines[q].declares = new[j]
            /\ d[k] - d[q - 1] >= M - j + 1
            /\ \A m \in q .. k : d[m] > d[q - 1]
      BY <2>6, <3>1
    <3> QED
      BY <3>1, <3>2 DEF StackFits
  <2> QED
    BY <1>1, <1>8, <2>5, <2>7
<1>10. CASE ~(line.declares # None /\ o > c)
  <2>1. PICK excess, M : /\ excess = (IF c > o THEN c - o ELSE 0)
                         /\ M = IF excess > L THEN 0 ELSE L - excess
    OBVIOUS
  <2>2. next = SubSeq(stack, 1, M)
    BY <1>1, <1>8, <1>10, <2>1 DEF ScopeAfter
  <2>3. excess \in Nat /\ M \in Nat /\ M <= L /\ (M = 0 \/ M = L - excess)
    BY <1>2, <2>1
  <2>4. next \in Seq(X) /\ Len(next) = M /\ \A j \in 1 .. M : next[j] = stack[j]
    BY <1>1, <2>2, <2>3
  <2>5. ASSUME NEW j \in 1 .. M
        PROVE  \E q \in 1 .. k : /\ lines[q].declares = next[j] /\ d[k] - d[q - 1] >= M - j + 1
                                 /\ \A m \in q .. k : d[m] > d[q - 1]
    <3>1. PICK r : r = M - j + 1
      OBVIOUS
    <3>2. j \in 1 .. L /\ r \in Int /\ r >= 1 /\ M = L - excess
      BY <1>2, <2>3, <3>1
    <3>3. (L - j + 1) + o - c >= r
      BY <1>2, <2>1, <3>1, <3>2
    <3>4. \E q \in 1 .. k : /\ lines[q].declares = stack[j] /\ d[k] - d[q - 1] >= r
                            /\ \A m \in q .. k : d[m] > d[q - 1]
      BY <1>7, <3>2, <3>3
    <3> QED
      BY <2>4, <3>1, <3>4
  <2>6. StackFits(next, d, lines, k)
    BY <2>4, <2>5 DEF StackFits
  <2> QED
    BY <1>1, <1>8, <2>6
<1> QED
  BY <1>9, <1>10

\* The class that is taken for open at a line has the line in its body.
LEMMA ScopeIsBody ==
  ASSUME NEW lines, Lines(lines), NEW n \in 1 .. Len(lines), ScopeAt(lines, n) # None
  PROVE  InBody(lines, n, ScopeAt(lines, n))
<1>1. PICK N, p, v : N = Len(lines) /\ p = n - 1 /\ v = SubSeq(lines, 1, p)
  OBVIOUS
<1>2. N \in Nat /\ Braces(lines, N) /\ p \in 0 .. N /\ n = p + 1
  <2>1. PICK m \in Nat : DOMAIN lines = 1 .. m /\ m = Len(lines)
    BY ListIsListed DEF Lines
  <2>2. \A k \in 1 .. m : lines[k] \in ToSet(lines)
    BY <2>1 DEF ToSet
  <2> QED
    BY <1>1, <2>1, <2>2 DEF Braces, Lines
<1>3. Begins(v, lines, p)
  BY <1>1, <1>2, ListBegins DEF Lines
<1>4. Braces(v, p) /\ p \in Nat
  BY <1>2, <1>3 DEF Begins, Braces
<1>5. PICK h : OpensTo(h, v, p, OpenAfter(v))
  BY <1>4, ScopeSteps
<1>6. PICK d : Deepens(d, lines, N)
  BY <1>1, DepthMoves
<1> DEFINE X == {v[k].declares : k \in 1 .. p}
           Bad == {k \in 0 .. p : ~StackFits(h[k], d, lines, k)}
<1>7. \A k \in 0 .. p : h[k] \in Seq(X)
  BY <1>5 DEF OpensTo
<1>8. Bad = {}
  <2> SUFFICES ASSUME Bad # {} PROVE FALSE
    OBVIOUS
  <2>1. PICK k \in Bad : \A i \in Bad : k <= i
    <3>1. Bad \in SUBSET Nat
      OBVIOUS
    <3> HIDE DEF Bad
    <3> QED
      BY <3>1, LeastNumber
  <2>2. k \in 0 .. p /\ ~StackFits(h[k], d, lines, k)
    OBVIOUS
  <2>3. k # 0
    <3>1. h[0] = <<>> /\ Len(<<>>) = 0
      BY <1>5 DEF OpensTo
    <3> QED
      BY <2>2, <3>1 DEF StackFits
  <2>4. k \in 1 .. p /\ k \in 1 .. N /\ k - 1 \in 0 .. p /\ ~(k <= k - 1)
    BY <1>2, <2>2, <2>3
  <2>5. StackFits(h[k - 1], d, lines, k - 1)
    BY <2>1, <2>4
  <2>6. PICK stack : stack = h[k - 1] /\ stack \in Seq(X) /\ h[k] = ScopeAfter(stack, lines[k])
    BY <1>3, <1>5, <1>7, <2>4 DEF OpensTo, Begins
  <2>7. lines[k].declares \in X
    BY <1>3, <2>4 DEF Begins
  <2> HIDE DEF X, Bad
  <2>8. StackFits(ScopeAfter(stack, lines[k]), d, lines, k)
    BY <1>2, <1>6, <2>4, <2>5, <2>6, <2>7, StackGoesOn
  <2> QED
    BY <2>2, <2>6, <2>8
<1>9. PICK stack : stack = OpenAfter(v) /\ stack \in Seq(X) /\ StackFits(stack, d, lines, p)
  <2>1. p \in 0 .. p
    BY <1>4
  <2>2. StackFits(h[p], d, lines, p) /\ h[p] \in Seq(X)
    BY <1>7, <1>8, <2>1
  <2>3. h[p] = OpenAfter(v)
    BY <1>5 DEF OpensTo
  <2> QED
    BY <2>2, <2>3
<1>10. ScopeAt(lines, n) = IF stack = <<>> THEN None ELSE Last(stack)
  BY <1>1, <1>9 DEF ScopeAt, OpenAfter
<1>11. stack # <<>> /\ ScopeAt(lines, n) = stack[Len(stack)] /\ Len(stack) \in 1 .. Len(stack)
  BY <1>9, <1>10 DEF Last
<1>12. PICK q \in 1 .. p : lines[q].declares = stack[Len(stack)] /\ \A m \in q .. p : d[m] > d[q - 1]
  BY <1>9, <1>11 DEF StackFits
<1>13. \A k \in q .. n - 1 : Depth(lines, k) > Depth(lines, q - 1)
  <2>1. q \in 1 .. N /\ q - 1 \in 0 .. N /\ \A k \in q .. p : k \in 0 .. N
    BY <1>2
  <2>2. \A k \in q .. p : Depth(lines, k) = d[k]
    BY <1>6, <2>1 DEF Deepens
  <2>3. Depth(lines, q - 1) = d[q - 1]
    BY <1>6, <2>1 DEF Deepens
  <2> QED
    BY <1>1, <1>12, <2>2, <2>3
<1> QED
  BY <1>1, <1>11, <1>12, <1>13 DEF InBody

--------------------------------------------------------------------------------
(* Where links lead. *)

Laid(b) == LinkLines(At(b).lines, RoutesFor(b[1]))

\* A block has no links before it is done, and then those of its lines.
LinksInv ==
  /\ DOMAIN links = Blocks
  /\ \A b \in Blocks : links[b] \in {<<>>, Laid(b)} /\ (stage[b] = "done" => links[b] = Laid(b))

LEMMA RoutesStay ==
  ASSUME site' = site
  PROVE  \A p : RoutesFor(p)' = RoutesFor(p)
BY DEF RoutesFor, Scoped, Routes, Items, Authored

LEMMA InitLinks == Init => LinksInv
<1> SUFFICES ASSUME Init PROVE LinksInv
  OBVIOUS
<1>1. DOMAIN links = Blocks /\ \A b \in Blocks : links[b] = <<>> /\ stage[b] # "done"
  BY DEF Init
<1> QED
  BY <1>1 DEF LinksInv

\* Every step keeps it.
LEMMA NextLinks == PassInv /\ LinksInv /\ [Next]_vars => LinksInv'
<1> SUFFICES ASSUME PassInv, LinksInv, [Next]_vars PROVE LinksInv'
  OBVIOUS
<1>1. site' = site /\ pages' = pages
  BY DEF Next, vars, Fail, Declare, WriteArtifacts, PrependImports, StartGenerated, SkipGenerated, StartAuthored,
         Format, Highlight, Link
<1>2. Blocks' = Blocks /\ \A b : Laid(b)' = Laid(b)
  BY <1>1, PagesStay, RoutesStay DEF Laid
<1>3. DOMAIN stage = Blocks
  BY DEF PassInv, TypeInv
<1>4. ASSUME links' = links, \A b \in Blocks : stage'[b] = "done" => stage[b] = "done" PROVE LinksInv'
  BY <1>2, <1>4 DEF LinksInv
<1>5. ASSUME NEW p, NEW next, next # "done", stage' = Move(p, next), links' = links PROVE LinksInv'
  <2>1. \A b \in Blocks : stage'[b] = "done" => stage[b] = "done"
    BY <1>5 DEF Move
  <2> QED
    BY <1>4, <1>5, <2>1
<1>6. ASSUME NEW b \in Blocks, NEW next, next # "done", stage' = [stage EXCEPT ![b] = next], links' = links
      PROVE  LinksInv'
  <2>1. \A c \in Blocks : stage'[c] = "done" => stage[c] = "done"
    BY <1>3, <1>6
  <2> QED
    BY <1>4, <1>6, <2>1
<1>7. CASE Fail \/ Declare \/ WriteArtifacts \/ UNCHANGED vars
  BY <1>4, <1>7 DEF Fail, Declare, WriteArtifacts, vars
<1>8. ASSUME NEW e \in DOMAIN site.entries, PrependImports(e) PROVE LinksInv'
  BY <1>4, <1>8 DEF PrependImports
<1>9. ASSUME NEW p \in DOMAIN pages, StartGenerated(p) \/ SkipGenerated(p) \/ StartAuthored(p) PROVE LinksInv'
  BY <1>5, <1>9 DEF StartGenerated, SkipGenerated, StartAuthored
<1>10. ASSUME NEW b \in Blocks, Format(b) \/ Highlight(b) PROVE LinksInv'
  BY <1>6, <1>10 DEF Format, Highlight
<1>11. ASSUME NEW b \in Blocks, Link(b) PROVE LinksInv'
  <2>1. stage' = [stage EXCEPT ![b] = "done"] /\ links' = [links EXCEPT ![b] = Laid(b)]
    BY <1>11 DEF Link, Laid
  <2>2. links'[b] = Laid(b) /\ \A c \in Blocks : c # b => links'[c] = links[c] /\ stage'[c] = stage[c]
    BY <1>3, <2>1 DEF LinksInv
  <2>3. DOMAIN links' = Blocks
    BY <2>1 DEF LinksInv
  <2> QED
    BY <1>2, <2>2, <2>3 DEF LinksInv
<1> QED
  BY <1>7, <1>8, <1>9, <1>10, <1>11 DEF Next

\* So it always holds.
LEMMA LinksInvAlways == Spec => [](PassInv /\ LinksInv)
<1>1. Init => PassInv /\ LinksInv
  BY InitInv, InitLinks
<1>2. PassInv /\ LinksInv /\ [Next]_vars => (PassInv /\ LinksInv)'
  BY NextInv, NextLinks
<1> QED
  BY <1>1, <1>2, PTL DEF Spec

\* A link of two names is a tooltip's, or leads to a member of the class that is
\* taken for open.
LEMMA MemberLinkIsScoped ==
  ASSUME NEW word, NEW scope, NEW routes, NEW link, link = LinkOf(word, scope, routes),
         link # None, Len(link) = 2, word.span # "hover"
  PROVE  scope # None /\ link[1] = scope
<1>1. CASE MemberLink(word, scope, routes)
  <2>1. link = <<scope, word.text>>
    BY <1>1 DEF LinkOf
  <2> QED
    BY <1>1, <2>1 DEF MemberLink
<1>2. CASE ~MemberLink(word, scope, routes)
  <2>1. link = IF TypeLink(word, routes) THEN <<word.text>> ELSE None
    BY <1>2 DEF LinkOf, TipLink
  <2>2. Len(<<word.text>>) = 1
    OBVIOUS
  <2> QED
    BY <2>1, <2>2
<1> QED
  BY <1>1, <1>2

LEMMA LinksStandInTheirClass == PassInv /\ LinksInv => MemberLinksInTheirClass
<1> SUFFICES ASSUME PassInv, LinksInv, NEW b \in Blocks, NEW n \in DOMAIN links[b], NEW w \in DOMAIN links[b][n],
                    links[b][n][w] # None, Len(links[b][n][w]) = 2, At(b).lines[n].words[w].span # "hover"
             PROVE  InBody(At(b).lines, n, links[b][n][w][1])
  BY DEF MemberLinksInTheirClass
<1>1. PICK x, lines, routes : x = At(b) /\ lines = x.lines /\ routes = RoutesFor(b[1])
  OBVIOUS
<1>2. Lines(lines)
  BY <1>1, BlockShows, BlockLines DEF PassInv, TypeInv
<1>3. links[b] = LinkLines(lines, routes)
  <2>1. links[b] # <<>>
    OBVIOUS
  <2> QED
    BY <1>1, <2>1 DEF LinksInv, Laid
<1>4. n \in DOMAIN lines /\ w \in DOMAIN lines[n].words /\ links[b][n][w] = LinkOf(lines[n].words[w], ScopeAt(lines, n), routes)
  BY <1>3 DEF LinkLines
<1>5. PICK word, scope, link : word = lines[n].words[w] /\ scope = ScopeAt(lines, n) /\ link = links[b][n][w]
  OBVIOUS
<1>6. scope # None /\ link[1] = scope
  BY <1>1, <1>4, <1>5, MemberLinkIsScoped
<1>7. n \in 1 .. Len(lines)
  BY <1>2, <1>4, ListIsListed DEF Lines
<1>8. InBody(lines, n, scope)
  BY <1>2, <1>5, <1>6, <1>7, ScopeIsBody
<1> QED
  BY <1>1, <1>5, <1>6, <1>8

\* A line that begins no class and closes no more than it opens leaves the
\* classes that are open as they are; one that begins a class enters it.
LEMMA ScopeKept ==
  ASSUME NEW X, NEW stack \in Seq(X), NEW line, line.opens \in Nat, line.closes \in Nat,
         line.declares = None, line.opens >= line.closes
  PROVE  ScopeAfter(stack, line) = stack
<1>1. (IF line.closes > line.opens THEN line.closes - line.opens ELSE 0) = 0
  OBVIOUS
<1>2. PICK L : L = Len(stack) /\ L \in Nat
  OBVIOUS
<1>3. (IF 0 > L THEN 0 ELSE L - 0) = L
  BY <1>2
<1>4. ScopeAfter(stack, line) = SubSeq(stack, 1, L)
  BY <1>1, <1>2, <1>3 DEF ScopeAfter
<1> QED
  BY <1>2, <1>4, SubSeqFull

LEMMA ScopeEntered ==
  ASSUME NEW line, line.opens = 1, line.closes = 0, line.declares # None
  PROVE  ScopeAfter(<<>>, line) = <<line.declares>>
<1>1. PICK new : new = Append(<<>>, line.declares)
  OBVIOUS
<1>2. new = <<line.declares>> /\ new \in Seq({line.declares}) /\ Len(new) = 1
  BY <1>1
<1>3. ScopeAfter(<<>>, line) = SubSeq(new, 1, Len(new))
  BY <1>1, <1>2 DEF ScopeAfter
<1> QED
  BY <1>2, <1>3, SubSeqFull

\* n lines v, of which line c begins a class that is not left.
Enters(v, n, c, name) ==
  /\ Braces(v, n) /\ n \in Nat /\ c \in 1 .. n /\ name # None
  /\ \A k \in 1 .. n : k # c => v[k].declares = None /\ v[k].opens >= v[k].closes
  /\ v[c].opens = 1 /\ v[c].closes = 0 /\ v[c].declares = name

LEMMA ClassIsOpen ==
  ASSUME NEW v, NEW n, NEW c, NEW name, Enters(v, n, c, name)
  PROVE  OpenAfter(v) = <<name>>
<1>1. n \in Nat /\ Braces(v, n) /\ c \in 1 .. n
  BY DEF Enters
<1>2. PICK h : OpensTo(h, v, n, OpenAfter(v))
  BY <1>1, ScopeSteps
<1> DEFINE Fine(k) == h[k] = IF k < c THEN <<>> ELSE <<name>>
           Bad == {k \in 0 .. n : ~Fine(k)}
<1>3. ASSUME NEW k \in 1 .. n, Fine(k - 1) PROVE Fine(k)
  <2>1. PICK line : line = v[k] /\ line.opens \in Nat /\ line.closes \in Nat
    BY <1>1 DEF Braces
  <2>2. h[k] = ScopeAfter(h[k - 1], line)
    BY <1>2, <2>1 DEF OpensTo
  <2>3. CASE k < c
    <3>1. h[k - 1] = <<>> /\ <<>> \in Seq({name}) /\ line.declares = None /\ line.opens >= line.closes
      BY <1>1, <1>3, <2>1, <2>3 DEF Enters
    <3>2. ScopeAfter(<<>>, line) = <<>>
      BY <2>1, <3>1, ScopeKept
    <3> QED
      BY <2>2, <2>3, <3>1, <3>2
  <2>4. CASE k = c
    <3>1. k - 1 < c /\ ~(k < c)
      BY <1>1, <2>4
    <3>2. h[k - 1] = <<>>
      BY <1>3, <3>1
    <3>3. line.opens = 1 /\ line.closes = 0 /\ line.declares = name /\ name # None
      BY <2>1, <2>4 DEF Enters
    <3>4. ScopeAfter(<<>>, line) = <<name>>
      BY <3>3, ScopeEntered
    <3> QED
      BY <2>2, <3>1, <3>2, <3>4
  <2>5. CASE k > c
    <3>1. ~(k - 1 < c) /\ ~(k < c) /\ k # c
      BY <1>1, <2>5
    <3>2. h[k - 1] = <<name>> /\ line.declares = None /\ line.opens >= line.closes
      BY <1>3, <2>1, <3>1 DEF Enters
    <3>3. <<name>> \in Seq({name})
      OBVIOUS
    <3>4. ScopeAfter(<<name>>, line) = <<name>>
      BY <2>1, <3>2, <3>3, ScopeKept
    <3> QED
      BY <2>2, <3>1, <3>2, <3>4
  <2>6. k < c \/ k = c \/ k > c
    BY <1>1
  <2> QED
    BY <2>3, <2>4, <2>5, <2>6
<1>4. Fine(0)
  BY <1>1, <1>2 DEF OpensTo
<1> HIDE DEF Fine
<1>5. Bad = {}
  <2> SUFFICES ASSUME Bad # {} PROVE FALSE
    OBVIOUS
  <2>1. PICK k \in Bad : \A j \in Bad : k <= j
    <3>1. Bad \in SUBSET Nat
      OBVIOUS
    <3> HIDE DEF Bad
    <3> QED
      BY <3>1, LeastNumber
  <2>2. k \in 0 .. n /\ ~Fine(k)
    OBVIOUS
  <2>3. k # 0
    BY <1>4, <2>2
  <2>4. k \in 1 .. n /\ k - 1 \in 0 .. n /\ ~(k <= k - 1)
    BY <1>1, <2>2, <2>3
  <2>5. Fine(k - 1)
    BY <2>1, <2>4
  <2> QED
    BY <1>3, <2>2, <2>4, <2>5
<1>6. Fine(n) /\ ~(n < c)
  BY <1>1, <1>5
<1>7. h[n] = OpenAfter(v)
  BY <1>2 DEF OpensTo
<1> QED
  BY <1>6, <1>7 DEF Fine

\* What a class is written with: a lines are hidden, the next opens it, and all
\* but the last of N are its members'.
ClassSource(v, a, N, name) ==
  /\ Lines(v) /\ a \in Nat /\ N \in Nat /\ N = Len(v) /\ DOMAIN v = 1 .. N /\ a + 2 <= N
  /\ \A k \in 1 .. a : v[k].part # "member" /\ v[k].declares = None /\ v[k].opens = 0 /\ v[k].closes = 0
  /\ v[a + 1].part # "member" /\ v[a + 1].declares = name /\ v[a + 1].opens = 1 /\ v[a + 1].closes = 0
  /\ \A k \in a + 2 .. N - 1 : v[k].part = "member" /\ v[k].declares = None /\ List(v[k].words)
  /\ v[N].part # "member"

LEMMA SourceOfClass ==
  ASSUME NEW i, WellFormed(i), i.kind \in {"Class", "Interface"}, NEW v, v = SignatureSource(i)
  PROVE  \E a, N : ClassSource(v, a, N, i.name)
<1>1. PICK h, o, f, c, u, s : /\ h = HiddenImports(i) /\ o = <<Opening(i)>> /\ f = MemberLines(i) /\ c = <<Closing>>
                              /\ u = o \o f /\ s = u \o c
  OBVIOUS
<1>2. v = h \o s /\ s = Skeleton(i)
  BY <1>1 DEF SignatureSource, Skeleton, MemberLines
<1>3. Hidden(h)
  BY <1>1, RefsListed, ImportsHidden DEF WellFormed
<1>4. List(h)
  BY <1>3, ListOfNone DEF Hidden
<1>5. List(f) /\ \A l \in ToSet(f) : l.part = "member" /\ l.declares = None /\ List(l.words)
  <2>1. List(f) /\ \A l \in ToSet(f) : \E m \in ToSet(i.members) : l \in ToSet(m.lines)
    BY <1>1, MembersPrint
  <2> QED
    BY <2>1 DEF WellFormed, Prints
<1>6. List(o) /\ List(c) /\ Len(o) = 1 /\ Len(c) = 1
  BY <1>1, ListOfOne
<1>7. Together(u, o, f)
  BY <1>1, <1>5, <1>6, ListsJoin DEF Concats
<1>8. Together(s, u, c)
  <2>1. Concats(s, u, c)
    BY <1>1, <1>6, <1>7 DEF Concats, Together
  <2> QED
    BY <2>1, ListsJoin
<1>9. Together(v, h, s)
  <2>1. Concats(v, h, s)
    BY <1>2, <1>4, <1>8 DEF Concats, Together
  <2> QED
    BY <2>1, ListsJoin
<1>10. PICK a, b, N : a = Len(h) /\ b = Len(f) /\ N = Len(v)
  OBVIOUS
<1>11. a \in Nat /\ b \in Nat
  BY <1>4, <1>5, <1>10 DEF List
<1>12. Len(u) = b + 1 /\ Len(s) = b + 2 /\ N = a + b + 2 /\ DOMAIN v = 1 .. N
  <2>1. Len(u) = 1 + b /\ Len(s) = Len(u) + 1 /\ N = a + Len(s) /\ List(v)
    BY <1>6, <1>7, <1>8, <1>9, <1>10 DEF Together
  <2>2. DOMAIN v = 1 .. N
    BY <1>10, <2>1, ListIsListed
  <2> QED
    BY <1>11, <2>1, <2>2
<1>13. v[a + 1] = Opening(i)
  <2>1. 1 \in 1 .. Len(s) /\ 1 \in 1 .. Len(u) /\ 1 \in 1 .. Len(o)
    BY <1>6, <1>11, <1>12
  <2>2. v[a + 1] = s[1] /\ s[1] = u[1] /\ u[1] = o[1]
    BY <1>7, <1>8, <1>9, <1>10, <2>1 DEF Together
  <2> QED
    BY <1>1, <2>2
<1>14. v[N] = Closing
  <2>1. b + 2 \in 1 .. Len(s) /\ 1 \in 1 .. Len(c) /\ N = a + (b + 2) /\ Len(u) + 1 = b + 2
    BY <1>6, <1>11, <1>12
  <2>2. v[a + (b + 2)] = s[b + 2] /\ s[Len(u) + 1] = c[1]
    BY <1>8, <1>9, <1>10, <2>1 DEF Together
  <2> QED
    BY <1>1, <2>1, <2>2
<1>15. ASSUME NEW k \in a + 2 .. N - 1 PROVE v[k] \in ToSet(f)
  <2>1. PICK j \in 1 .. b : k = a + (1 + j)
    <3>1. k - a - 1 \in 1 .. b /\ k = a + (1 + (k - a - 1))
      BY <1>11, <1>12
    <3> QED
      BY <3>1
  <2>2. j \in 1 .. Len(f) /\ 1 + j \in 1 .. Len(u) /\ 1 + j \in 1 .. Len(s)
    BY <1>10, <1>11, <1>12
  <2>3. v[a + (1 + j)] = s[1 + j] /\ s[1 + j] = u[1 + j] /\ u[1 + j] = f[j]
    BY <1>6, <1>7, <1>8, <1>9, <1>10, <2>2 DEF Together
  <2>4. f[j] \in ToSet(f)
    BY <1>5, <2>2, ListIsListed DEF ToSet
  <2> QED
    BY <2>1, <2>3, <2>4
<1>16. ASSUME NEW k \in 1 .. a
       PROVE  v[k].part # "member" /\ v[k].declares = None /\ v[k].opens = 0 /\ v[k].closes = 0
  <2>1. v[k] = h[k] /\ h # <<>>
    BY <1>9, <1>10 DEF Together
  <2>2. h[k] \in ToSet(h)
    BY <1>4, <1>10, ListIsListed DEF ToSet
  <2>3. h[a].part = "cut" /\ \A j \in 1 .. a - 1 : h[j].part = "import"
    BY <1>3, <1>10, <2>1 DEF Hidden
  <2>4. k = a \/ k \in 1 .. a - 1
    BY <1>11
  <2>5. h[k].part # "member"
    BY <2>3, <2>4
  <2> QED
    BY <1>3, <2>1, <2>2, <2>5 DEF Hidden
<1>17. /\ Opening(i).part = "opening" /\ Opening(i).declares = i.name /\ Opening(i).opens = 1 /\ Opening(i).closes = 0
       /\ Closing.part = "closing"
  BY DEF Opening, Closing, Line
<1>18. Lines(v)
  BY SignatureLines
<1>19. N \in Nat /\ a + 2 <= N
  BY <1>11, <1>12
<1>20. ClassSource(v, a, N, i.name)
  BY <1>5, <1>10, <1>11, <1>12, <1>13, <1>14, <1>15, <1>16, <1>17, <1>18, <1>19 DEF ClassSource
<1> QED
  BY <1>20

\* In the declaration of a class the class is open at every member, up to the
\* first line that closes more than it opens.
LEMMA MemberInClass ==
  ASSUME NEW v, NEW a, NEW N, NEW name, ClassSource(v, a, N, name), name # None, NEW n \in 1 .. N,
         v[n].part = "member", \A m \in 1 .. n - 1 : v[m].part = "member" => v[m].opens >= v[m].closes
  PROVE  ScopeAt(v, n) = name /\ List(v[n].words)
<1>1. a \in Nat /\ N \in Nat /\ N = Len(v) /\ Lines(v) /\ DOMAIN v = 1 .. N
  BY DEF ClassSource
<1>2. n \in a + 2 .. N - 1
  <2>1. n \notin 1 .. a /\ n # a + 1 /\ n # N
    BY DEF ClassSource
  <2> QED
    BY <1>1, <2>1
<1>3. PICK p, c, u : p = n - 1 /\ c = a + 1 /\ u = SubSeq(v, 1, p)
  OBVIOUS
<1>4. p \in Nat /\ p \in 0 .. N /\ c \in 1 .. p /\ p = n - 1
  BY <1>1, <1>2, <1>3
<1>5. Begins(u, v, p)
  BY <1>1, <1>3, <1>4, ListBegins DEF Lines
<1>6. ASSUME NEW k \in 1 .. p
      PROVE  /\ v[k].opens \in Nat /\ v[k].closes \in Nat
             /\ k # c => v[k].declares = None /\ v[k].opens >= v[k].closes
  <2>1. k \in 1 .. N
    BY <1>1, <1>4
  <2>2. v[k] \in ToSet(v)
    BY <1>1, <2>1 DEF ToSet
  <2>3. v[k].opens \in Nat /\ v[k].closes \in Nat
    BY <1>1, <2>2 DEF Lines
  <2>4. k \in 1 .. a \/ k = c \/ k \in a + 2 .. N - 1
    BY <1>1, <1>2, <1>3, <1>4
  <2>5. CASE k \in 1 .. a
    BY <2>3, <2>5 DEF ClassSource
  <2>6. CASE k \in a + 2 .. N - 1
    <3>1. v[k].part = "member" /\ v[k].declares = None
      BY <2>6 DEF ClassSource
    <3>2. v[k].opens >= v[k].closes
      BY <1>4, <3>1
    <3> QED
      BY <2>3, <3>1, <3>2
  <2> QED
    BY <2>3, <2>4, <2>5, <2>6
<1>7. v[c].opens = 1 /\ v[c].closes = 0 /\ v[c].declares = name
  BY <1>3 DEF ClassSource
<1>8. Enters(u, p, c, name)
  <2>1. Braces(u, p)
    BY <1>5, <1>6 DEF Begins, Braces
  <2> QED
    BY <1>4, <1>5, <1>6, <1>7, <2>1 DEF Begins, Enters
<1>9. OpenAfter(u) = <<name>>
  BY <1>8, ClassIsOpen
<1>10. ScopeAt(v, n) = name
  BY <1>3, <1>9 DEF ScopeAt, OpenAfter, Last
<1> QED
  BY <1>2, <1>10 DEF ClassSource

\* A declaration that is no class has no members.
LEMMA MembersAreOfClasses ==
  ASSUME NEW i, WellFormed(i), NEW n \in DOMAIN SignatureSource(i), SignatureSource(i)[n].part = "member"
  PROVE  i.kind \in {"Class", "Interface"}
<1> SUFFICES ASSUME i.kind \notin {"Class", "Interface"} PROVE FALSE
  OBVIOUS
<1>1. PICK v, h, s : v = SignatureSource(i) /\ h = HiddenImports(i) /\ s = Skeleton(i)
  OBVIOUS
<1>2. List(s) /\ \A l \in ToSet(s) : l.part # "member"
  BY <1>1 DEF Skeleton, WellFormed, Prints, Lines, Shown
<1>3. Hidden(h)
  BY <1>1, RefsListed, ImportsHidden DEF WellFormed
<1>4. List(h) /\ \A l \in ToSet(h) : l.part # "member"
  <2>1. CASE h = <<>>
    BY <2>1, ListOfNone
  <2>2. CASE h # <<>>
    <3>1. PICK m : m = Len(h)
      OBVIOUS
    <3>2. List(h) /\ h[m].part = "cut" /\ \A k \in 1 .. m - 1 : h[k].part = "import"
      BY <1>3, <2>2, <3>1 DEF Hidden
    <3>3. m \in Nat /\ DOMAIN h = 1 .. m
      BY <3>1, <3>2, ListIsListed
    <3>4. ASSUME NEW l \in ToSet(h) PROVE l.part # "member"
      <4>1. PICK k \in 1 .. m : l = h[k]
        BY <3>3 DEF ToSet
      <4>2. k = m \/ k \in 1 .. m - 1
        BY <3>3
      <4>3. CASE k = m
        BY <3>2, <4>1, <4>3
      <4>4. CASE k \in 1 .. m - 1
        <5>1. h[k].part = "import"
          BY <3>2, <4>4
        <5> QED
          BY <4>1, <5>1
      <4> QED
        BY <4>2, <4>3, <4>4
    <3> QED
      BY <3>2, <3>4
  <2> QED
    BY <2>1, <2>2
<1>5. Concats(v, h, s)
  BY <1>1, <1>2, <1>4 DEF Concats, SignatureSource
<1>6. ToSet(v) = ToSet(h) \cup ToSet(s)
  BY <1>5, ListsJoin DEF Together
<1>7. v[n] \in ToSet(v)
  BY <1>1 DEF ToSet
<1> QED
  BY <1>1, <1>2, <1>4, <1>6, <1>7

\* A page that shows a declaration is not an authored one, and has the routes.
LEMMA SignaturesAreScoped ==
  ASSUME PassInv, NEW b \in Blocks, At(b).component = "ApiSignature"
  PROVE  RoutesFor(b[1]) = Routes
<1>1. pages = Pages
  BY DEF PassInv, TypeInv
<1>2. PICK p \in DOMAIN pages : b \in {p} \X DOMAIN pages[p]
  BY DEF Blocks
<1>3. b[1] = p /\ b[2] \in DOMAIN pages[p]
  BY <1>2
<1>4. p \notin Authored
  <2> SUFFICES ASSUME p \in Authored PROVE FALSE
    OBVIOUS
  <2>1. PICK page : pages[p] = AuthoredBlocks(page)
    BY <1>1, <1>2 DEF Pages
  <2>2. pages[p][b[2]].component = "with-api"
    BY <1>3, <2>1 DEF AuthoredBlocks, Block
  <2> QED
    BY <1>3, <2>2 DEF At
<1> QED
  BY <1>3, <1>4 DEF RoutesFor, Scoped

LEMMA SkeletonLinked == PassInv /\ LinksInv => SkeletonMembersLinked
<1> SUFFICES ASSUME PassInv, LinksInv, NEW b \in Blocks, stage[b] = "done", At(b).component = "ApiSignature",
                    NEW n \in DOMAIN At(b).lines,
                    At(b).lines[n].part = "member", At(b).lines[n].words # <<>>,
                    At(b).lines[n].words[1].span = "own",
                    At(b).lines[n].words[1].text \in {m.name : m \in ToSet(At(b).of.members)},
                    \A m \in 1 .. n - 1 :
                      At(b).lines[m].part = "member" => At(b).lines[m].opens >= At(b).lines[m].closes
             PROVE  links[b][n][1] = <<At(b).of.name, At(b).lines[n].words[1].text>>
  BY DEF SkeletonMembersLinked
<1>1. PICK x, lines : x = At(b) /\ lines = x.lines
  OBVIOUS
<1>2. ShowsItem(x)
  BY <1>1, BlockShows, ComponentTells
<1>3. PICK i \in ToSet(Items) : x = Signature(i)
  BY <1>2 DEF ShowsItem
<1>4. lines = SignatureSource(i) /\ x.of = i
  BY <1>1, <1>3 DEF Signature, Block
<1>5. WellFormed(i) /\ i.name # None
  BY ItemsListed DEF PassInv, TypeInv, WellFormed
<1>6. i.kind \in {"Class", "Interface"}
  BY <1>1, <1>4, <1>5, MembersAreOfClasses
<1>7. PICK a, N : ClassSource(lines, a, N, i.name)
  BY <1>4, <1>5, <1>6, SourceOfClass
<1>8. n \in 1 .. N
  BY <1>1, <1>7 DEF ClassSource
<1>9. ScopeAt(lines, n) = i.name /\ List(lines[n].words)
  BY <1>1, <1>5, <1>7, <1>8, MemberInClass
<1>10. PICK words : words = lines[n].words
  OBVIOUS
<1>11. 1 \in DOMAIN words
  <2>1. words # <<>> /\ List(words)
    BY <1>1, <1>9, <1>10
  <2> QED
    BY <2>1 DEF List
<1>12. <<i.name, words[1].text>> \in Routes
  BY <1>1, <1>4, <1>10 DEF Routes
<1>13. links[b] = LinkLines(lines, Routes)
  BY <1>1, SignaturesAreScoped DEF LinksInv, Laid
<1>14. links[b][n][1] = LinkOf(words[1], ScopeAt(lines, n), Routes)
  BY <1>1, <1>10, <1>11, <1>13 DEF LinkLines
<1>15. MemberLink(words[1], i.name, Routes)
  BY <1>1, <1>5, <1>10, <1>12 DEF MemberLink
<1>16. links[b][n][1] = <<i.name, words[1].text>>
  BY <1>9, <1>14, <1>15 DEF LinkOf
<1> QED
  BY <1>1, <1>4, <1>10, <1>16

\* A member's name leads to the member of the class it stands in: no class is
\* taken for open behind its last brace, and in the declaration of a class every
\* member has its link, up to the first line that closes more than it opens
\* (the scope stack of the member links).
THEOREM LinksLeadToTheirMembers == Spec => []MemberLinksRight
<1>1. PassInv /\ LinksInv => MemberLinksRight
  BY LinksStandInTheirClass, SkeletonLinked DEF MemberLinksRight
<1> QED
  BY <1>1, LinksInvAlways, PTL

--------------------------------------------------------------------------------
(* Lists put together. *)

\* h goes from nothing to e by adding the n lists of seqs.
Amounts(h, n, seqs, e) ==
  h[0] = <<>> /\ h[n] = e /\ \A k \in 1 .. n : h[k] = h[k - 1] \o seqs[k]

\* n lists.
ListsOf(seqs, n) ==
  /\ n \in Nat /\ DOMAIN seqs = 1 .. n /\ seqs = [k \in 1 .. n |-> seqs[k]]
  /\ \A k \in 1 .. n : List(seqs[k])

LEMMA NoneBefore ==
  ASSUME NEW s, List(s) PROVE <<>> \o s = s /\ s \o <<>> = s
<1>1. PICK X : s \in Seq(X)
  BY DEF List
<1> QED
  BY <1>1

Grouped(v, s, t, u) == List(s) /\ List(t) /\ List(u) /\ v = (s \o t) \o u

\* Lists go after each other in any grouping.
LEMMA JoinAssociates ==
  ASSUME NEW s, NEW t, NEW u, NEW v, Grouped(v, s, t, u)
  PROVE  v = s \o (t \o u)
<1>1. PICK X : X = ToSet(s) \cup ToSet(t) \cup ToSet(u)
  OBVIOUS
<1>2. s \in Seq(X) /\ t \in Seq(X) /\ u \in Seq(X) /\ v = (s \o t) \o u
  BY <1>1 DEF List, Grouped
<1>3. (s \o t) \o u = s \o (t \o u)
  BY <1>2, ConcatAssociative, SMTT(30)
<1> QED
  BY <1>2, <1>3

\* What lists add up to is what they are put together.
LEMMA SumIsFlat ==
  ASSUME NEW n, NEW seqs, NEW h, NEW e, ListsOf(seqs, n), Amounts(h, n, seqs, e)
  PROVE  FlattenSeq(seqs) = e
<1>1. n \in Nat /\ Len(seqs) = n
  BY ListOfEach DEF ListsOf
<1>2. CASE n = 0
  <2>1. FlattenSeq(seqs) = seqs
    BY <1>1, <1>2 DEF FlattenSeq
  <2>2. seqs = <<>>
    BY <1>2 DEF ListsOf
  <2> QED
    BY <1>2, <2>1, <2>2 DEF Amounts
<1>3. CASE n # 0
  <2>1. PICK f : /\ FlattenSeq(seqs) = f[n] /\ f[1] = seqs[1]
                 /\ \A i \in 2 .. n : f[i] = f[i - 1] \o seqs[i]
    <3>1. n \in Nat \ {0}
      BY <1>1, <1>3
    <3> QED
      BY <1>1, <3>1, FlattenSteps
  <2> DEFINE Bad == {k \in 1 .. n : f[k] # h[k]}
  <2>2. Bad = {}
    <3> SUFFICES ASSUME Bad # {} PROVE FALSE
      OBVIOUS
    <3>1. PICK k \in Bad : \A j \in Bad : k <= j
      <4>1. Bad \in SUBSET Nat
        OBVIOUS
      <4> HIDE DEF Bad
      <4> QED
        BY <4>1, LeastNumber
    <3>2. k \in 1 .. n /\ f[k] # h[k]
      OBVIOUS
    <3>3. h[k] = h[k - 1] \o seqs[k] /\ h[0] = <<>>
      BY <3>2 DEF Amounts
    <3>4. CASE k = 1
      <4>1. List(seqs[1])
        BY <3>2, <3>4 DEF ListsOf
      <4>2. <<>> \o seqs[1] = seqs[1]
        BY <4>1, NoneBefore
      <4>3. k - 1 = 0
        BY <3>4
      <4> QED
        BY <2>1, <3>2, <3>3, <3>4, <4>2, <4>3
    <3>5. CASE k # 1
      <4>1. k - 1 \in 1 .. n /\ k \in 2 .. n /\ ~(k <= k - 1)
        BY <1>1, <3>2, <3>5
      <4>2. f[k - 1] = h[k - 1]
        BY <3>1, <4>1
      <4> QED
        BY <2>1, <3>2, <3>3, <4>1, <4>2
    <3> QED
      BY <3>4, <3>5
  <2>3. f[n] = h[n]
    BY <1>1, <1>3, <2>2
  <2> QED
    BY <2>1, <2>3 DEF Amounts
<1> QED
  BY <1>2, <1>3

\* They do add up to that.
LEMMA FlatIsSum ==
  ASSUME NEW n, NEW seqs, ListsOf(seqs, n)
  PROVE  \E h : Amounts(h, n, seqs, FlattenSeq(seqs)) /\ \A k \in 0 .. n : List(h[k])
<1>1. n \in Nat /\ Len(seqs) = n /\ \A k \in 1 .. n : List(seqs[k])
  BY ListOfEach DEF ListsOf
<1>2. PICK h : Amounts(h, n, seqs, FlattenSeq(seqs))
  <2>1. CASE n = 0
    <3>1. PICK h : h = [k \in 0 .. n |-> <<>>]
      OBVIOUS
    <3>2. h[0] = <<>> /\ h[n] = seqs
      BY <2>1, <3>1 DEF ListsOf
    <3>3. FlattenSeq(seqs) = seqs
      BY <1>1, <2>1 DEF FlattenSeq
    <3>4. Amounts(h, n, seqs, FlattenSeq(seqs))
      BY <2>1, <3>2, <3>3 DEF Amounts
    <3> QED
      BY <3>4
  <2>2. CASE n # 0
    <3>1. PICK f : /\ FlattenSeq(seqs) = f[n] /\ f[1] = seqs[1]
                   /\ \A i \in 2 .. n : f[i] = f[i - 1] \o seqs[i]
      <4>1. n \in Nat \ {0}
        BY <1>1, <2>2
      <4> QED
        BY <1>1, <4>1, FlattenSteps
    <3>2. PICK h : h = [k \in 0 .. n |-> IF k = 0 THEN <<>> ELSE f[k]]
      OBVIOUS
    <3>3. h[0] = <<>> /\ h[n] = f[n]
      BY <1>1, <2>2, <3>2
    <3>4. ASSUME NEW k \in 1 .. n PROVE h[k] = h[k - 1] \o seqs[k]
      <4>1. CASE k = 1
        <5>1. h[k] = seqs[k] /\ h[k - 1] = <<>>
          BY <1>1, <3>1, <3>2, <4>1
        <5>2. <<>> \o seqs[k] = seqs[k]
          BY <1>1, NoneBefore
        <5> QED
          BY <5>1, <5>2
      <4>2. CASE k # 1
        <5>1. k \in 2 .. n /\ h[k] = f[k] /\ h[k - 1] = f[k - 1]
          BY <1>1, <3>2, <4>2
        <5> QED
          BY <3>1, <5>1
      <4> QED
        BY <4>1, <4>2
    <3>5. Amounts(h, n, seqs, FlattenSeq(seqs))
      BY <3>1, <3>3, <3>4 DEF Amounts
    <3> QED
      BY <3>5
  <2> QED
    BY <2>1, <2>2
<1> DEFINE Bad == {k \in 0 .. n : ~List(h[k])}
<1>3. Bad = {}
  <2> SUFFICES ASSUME Bad # {} PROVE FALSE
    OBVIOUS
  <2>1. PICK k \in Bad : \A j \in Bad : k <= j
    <3>1. Bad \in SUBSET Nat
      OBVIOUS
    <3> HIDE DEF Bad
    <3> QED
      BY <3>1, LeastNumber
  <2>2. k \in 0 .. n /\ ~List(h[k])
    OBVIOUS
  <2>3. k # 0
    BY <1>2, <2>2, ListOfNone DEF Amounts
  <2>4. k \in 1 .. n /\ k - 1 \in 0 .. n /\ ~(k <= k - 1)
    BY <1>1, <2>2, <2>3
  <2>5. PICK s, t, v : s = h[k - 1] /\ t = seqs[k] /\ v = h[k]
    OBVIOUS
  <2>6. List(s) /\ List(t) /\ v = s \o t
    BY <1>1, <1>2, <2>1, <2>4, <2>5 DEF Amounts
  <2>7. List(v)
    BY <2>6, ListsJoin DEF Concats, Together
  <2> QED
    BY <2>2, <2>5, <2>7
<1> QED
  BY <1>2, <1>3

TwoOf(v, s, t, m, n) == ListsOf(s, m) /\ ListsOf(t, n) /\ v = s \o t

\* What is put together of two lists of lists.
LEMMA FlatsJoin ==
  ASSUME NEW m, NEW n, NEW s, NEW t, NEW v, TwoOf(v, s, t, m, n)
  PROVE  FlattenSeq(v) = FlattenSeq(s) \o FlattenSeq(t)
<1> ListsOf(s, m) /\ ListsOf(t, n)
  BY DEF TwoOf
<1>1. PICK f : Amounts(f, m, s, FlattenSeq(s)) /\ \A k \in 0 .. m : List(f[k])
  BY FlatIsSum
<1>2. PICK g : Amounts(g, n, t, FlattenSeq(t)) /\ \A k \in 0 .. n : List(g[k])
  BY FlatIsSum
<1>3. m \in Nat /\ n \in Nat /\ List(s) /\ List(t) /\ Len(s) = m /\ Len(t) = n
  BY ListOfEach DEF ListsOf
<1>4. /\ List(v) /\ Len(v) = m + n
      /\ (\A k \in 1 .. m : v[k] = s[k]) /\ \A k \in 1 .. n : v[m + k] = t[k]
  <2>1. Concats(v, s, t)
    BY <1>3 DEF Concats, TwoOf
  <2>2. Together(v, s, t)
    BY <2>1, ListsJoin
  <2> QED
    BY <1>3, <2>2 DEF Together
<1>5. DOMAIN v = 1 .. m + n /\ v = [k \in 1 .. m + n |-> v[k]]
  <2>1. PICK N \in Nat : N = m + n
    BY <1>3
  <2>2. PICK N0 \in Nat : v \in [1 .. N0 -> ToSet(v)] /\ DOMAIN v = 1 .. N0 /\ N0 = Len(v)
    BY <1>4, ListIsListed
  <2>3. N0 = N
    BY <1>4, <2>1, <2>2
  <2> QED
    BY <2>1, <2>2, <2>3
<1>6. ListsOf(v, m + n)
  <2>1. ASSUME NEW k \in 1 .. m + n PROVE List(v[k])
    <3>1. CASE k \in 1 .. m
      BY <1>4, <3>1 DEF ListsOf
    <3>2. CASE k \notin 1 .. m
      <4>1. k - m \in 1 .. n /\ m + (k - m) = k
        BY <1>3, <3>2
      <4>2. v[m + (k - m)] = t[k - m] /\ List(t[k - m])
        BY <1>4, <4>1 DEF ListsOf
      <4> QED
        BY <4>1, <4>2
    <3> QED
      BY <3>1, <3>2
  <2> QED
    BY <1>3, <1>5, <2>1 DEF ListsOf
<1>7. PICK a : a = FlattenSeq(s)
  OBVIOUS
<1>8. List(a) /\ a = f[m] /\ g[0] = <<>> /\ f[0] = <<>> /\ FlattenSeq(t) = g[n]
  BY <1>1, <1>2, <1>3, <1>7 DEF Amounts
<1>9. PICK h : h = [k \in 0 .. m + n |-> IF k <= m THEN f[k] ELSE a \o g[k - m]]
  OBVIOUS
<1>10. ASSUME NEW k \in 0 .. n PROVE h[m + k] = a \o g[k]
  <2>1. CASE k = 0
    <3>1. h[m + k] = a
      BY <1>3, <1>8, <1>9, <2>1
    <3>2. a \o <<>> = a
      BY <1>8, NoneBefore
    <3> QED
      BY <1>8, <2>1, <3>1, <3>2
  <2>2. CASE k # 0
    <3>1. m + k \in 0 .. m + n /\ ~(m + k <= m) /\ (m + k) - m = k
      BY <1>3, <2>2
    <3> QED
      BY <1>9, <3>1
  <2> QED
    BY <2>1, <2>2
<1>11. ASSUME NEW k \in 1 .. m + n PROVE h[k] = h[k - 1] \o v[k]
  <2>1. CASE k \in 1 .. m
    <3>1. h[k] = f[k] /\ h[k - 1] = f[k - 1] /\ v[k] = s[k]
      BY <1>3, <1>4, <1>9, <2>1
    <3> QED
      BY <1>1, <2>1, <3>1 DEF Amounts
  <2>2. CASE k \notin 1 .. m
    <3>1. PICK j : j = k - m
      OBVIOUS
    <3>2. j \in 1 .. n /\ j \in 0 .. n /\ j - 1 \in 0 .. n /\ k = m + j /\ k - 1 = m + (j - 1)
      BY <1>3, <2>2, <3>1
    <3>3. PICK b, c : b = g[j - 1] /\ c = t[j]
      OBVIOUS
    <3>4. h[k] = a \o g[j] /\ h[k - 1] = a \o b /\ v[k] = c /\ g[j] = b \o c
      BY <1>2, <1>4, <1>10, <3>2, <3>3 DEF Amounts
    <3>5. List(b) /\ List(c)
      BY <1>2, <3>2, <3>3 DEF ListsOf
    <3>6. PICK d : d = (a \o b) \o c
      OBVIOUS
    <3>7. Grouped(d, a, b, c)
      BY <1>8, <3>5, <3>6 DEF Grouped
    <3>8. d = a \o (b \o c)
      BY <3>7, JoinAssociates
    <3> QED
      BY <3>4, <3>6, <3>8
  <2> QED
    BY <2>1, <2>2
<1>12. h[0] = <<>> /\ h[m + n] = a \o FlattenSeq(t)
  <2>1. n \in 0 .. n /\ 0 \in 0 .. m + n /\ 0 <= m
    BY <1>3
  <2> QED
    BY <1>8, <1>9, <1>10, <2>1
<1>13. Amounts(h, m + n, v, a \o FlattenSeq(t))
  BY <1>11, <1>12 DEF Amounts
<1> QED
  BY <1>6, <1>7, <1>13, SumIsFlat

--------------------------------------------------------------------------------
(* What each element of a list stands for, put together. *)

Image(g, s) == FlattenSeq([k \in DOMAIN s |-> g[s[k]]])
Maps(g, s)  == List(s) /\ \A x \in ToSet(s) : List(g[x])

Mapped(v, g, s, n) ==
  /\ n = Len(s) /\ DOMAIN s = 1 .. n /\ s = [k \in 1 .. n |-> s[k]]
  /\ v = [k \in DOMAIN s |-> g[s[k]]] /\ ListsOf(v, n)

LEMMA MapsEach ==
  ASSUME NEW g, NEW s, Maps(g, s)
  PROVE  \E n, v : n \in Nat /\ Mapped(v, g, s, n) /\ Image(g, s) = FlattenSeq(v)
<1>1. PICK n \in Nat : s \in [1 .. n -> ToSet(s)] /\ DOMAIN s = 1 .. n /\ n = Len(s)
  BY ListIsListed DEF Maps
<1>2. PICK v : v = [k \in DOMAIN s |-> g[s[k]]]
  OBVIOUS
<1>3. ASSUME NEW k \in 1 .. n PROVE List(v[k])
  BY <1>1, <1>2 DEF Maps
<1>4. DOMAIN v = 1 .. n /\ v = [k \in 1 .. n |-> v[k]]
  BY <1>1, <1>2
<1>5. ListsOf(v, n)
  BY <1>3, <1>4 DEF ListsOf
<1>6. Mapped(v, g, s, n)
  BY <1>1, <1>2, <1>5 DEF Mapped
<1>7. Image(g, s) = FlattenSeq(v)
  BY <1>2 DEF Image
<1> QED
  BY <1>6, <1>7

LEMMA ImageIsList ==
  ASSUME NEW g, NEW s, Maps(g, s) PROVE List(Image(g, s))
<1>1. PICK n, v : n \in Nat /\ Mapped(v, g, s, n) /\ Image(g, s) = FlattenSeq(v)
  BY MapsEach
<1>2. ListsOf(v, n)
  BY <1>1 DEF Mapped
<1>3. List(FlattenSeq(v))
  BY <1>2, FlattenHolds DEF ListsOf
<1> QED
  BY <1>1, <1>3

\* Of none, of one and of one list after the other.
LEMMA ImageOfNone == \A g : Image(g, <<>>) = <<>>
<1> SUFFICES ASSUME NEW g PROVE Image(g, <<>>) = <<>>
  OBVIOUS
<1>1. PICK v : v = [k \in DOMAIN <<>> |-> g[<<>>[k]]]
  OBVIOUS
<1>2. v = <<>> /\ Len(v) = 0
  BY <1>1
<1> QED
  BY <1>1, <1>2 DEF Image, FlattenSeq

LEMMA ImageOfOne ==
  ASSUME NEW g, NEW x, List(g[x]) PROVE Image(g, <<x>>) = g[x]
<1>1. PICK v : v = [k \in DOMAIN <<x>> |-> g[<<x>>[k]]]
  OBVIOUS
<1>2. DOMAIN v = 1 .. 1 /\ v = [k \in 1 .. 1 |-> v[k]] /\ v[1] = g[x]
  BY <1>1
<1>3. ListsOf(v, 1)
  BY <1>2 DEF ListsOf
<1>4. PICK h : h = [k \in 0 .. 1 |-> IF k = 0 THEN <<>> ELSE g[x]]
  OBVIOUS
<1>5. h[0] = <<>> /\ h[1] = g[x] /\ <<>> \o g[x] = g[x]
  BY <1>4, NoneBefore
<1>6. Amounts(h, 1, v, g[x])
  <2>1. ASSUME NEW k \in 1 .. 1 PROVE h[k] = h[k - 1] \o v[k]
    <3>1. k = 1 /\ k - 1 = 0
      OBVIOUS
    <3> QED
      BY <1>2, <1>5, <3>1
  <2> QED
    BY <1>5, <2>1 DEF Amounts
<1>7. FlattenSeq(v) = g[x]
  BY <1>3, <1>6, SumIsFlat
<1> QED
  BY <1>1, <1>7 DEF Image

LEMMA FlatOfOne ==
  ASSUME NEW x, List(x) PROVE FlattenSeq(<<x>>) = x
<1>1. PICK g : g = [y \in {x} |-> y]
  OBVIOUS
<1>2. g[x] = x /\ List(g[x])
  BY <1>1
<1>3. PICK v : v = [k \in DOMAIN <<x>> |-> g[<<x>>[k]]]
  OBVIOUS
<1>4. v = <<x>>
  BY <1>2, <1>3
<1> QED
  BY <1>2, <1>3, <1>4, ImageOfOne DEF Image

Pictures(v, g, s, t) == Maps(g, s) /\ Maps(g, t) /\ v = s \o t

LEMMA ImagesJoin ==
  ASSUME NEW g, NEW s, NEW t, NEW v, Pictures(v, g, s, t)
  PROVE  Maps(g, v) /\ Image(g, v) = Image(g, s) \o Image(g, t)
<1>0. Maps(g, s) /\ Maps(g, t) /\ v = s \o t
  BY DEF Pictures
<1>1. PICK m, a : m \in Nat /\ Mapped(a, g, s, m) /\ Image(g, s) = FlattenSeq(a)
  BY <1>0, MapsEach
<1>2. PICK n, b : n \in Nat /\ Mapped(b, g, t, n) /\ Image(g, t) = FlattenSeq(b)
  BY <1>0, MapsEach
<1>3. Len(s) = m /\ Len(t) = n /\ ListsOf(a, m) /\ ListsOf(b, n)
  BY <1>1, <1>2 DEF Mapped
<1>4. Together(v, s, t)
  <2>1. Concats(v, s, t)
    BY <1>0 DEF Concats, Maps
  <2> QED
    BY <2>1, ListsJoin
<1>5. /\ List(v) /\ Len(v) = m + n /\ ToSet(v) = ToSet(s) \cup ToSet(t)
      /\ (\A k \in 1 .. m : v[k] = s[k]) /\ \A k \in 1 .. n : v[m + k] = t[k]
  BY <1>3, <1>4 DEF Together
<1>6. Maps(g, v)
  BY <1>0, <1>5 DEF Maps
<1>7. PICK N, c : N \in Nat /\ Mapped(c, g, v, N) /\ Image(g, v) = FlattenSeq(c)
  BY <1>6, MapsEach
<1>8. PICK d : d = a \o b
  OBVIOUS
<1>9. c = d
  <2>1. List(a) /\ List(b) /\ Len(a) = m /\ Len(b) = n
    BY <1>3, ListOfEach DEF ListsOf
  <2>2. Together(d, a, b)
    <3>1. Concats(d, a, b)
      BY <1>8, <2>1 DEF Concats
    <3> QED
      BY <3>1, ListsJoin
  <2>3. /\ List(d) /\ Len(d) = m + n
        /\ (\A k \in 1 .. m : d[k] = a[k]) /\ \A k \in 1 .. n : d[m + k] = b[k]
    BY <2>1, <2>2 DEF Together
  <2>4. N = m + n /\ DOMAIN c = 1 .. N /\ c = [k \in 1 .. N |-> c[k]] /\ \A k \in 1 .. N : c[k] = g[v[k]]
    BY <1>5, <1>7 DEF Mapped, ListsOf
  <2>5. d = [k \in 1 .. N |-> d[k]]
    <3>1. PICK M \in Nat : d \in [1 .. M -> ToSet(d)] /\ DOMAIN d = 1 .. M /\ M = Len(d)
      BY <2>3, ListIsListed
    <3>2. M = N
      BY <2>3, <2>4, <3>1
    <3> QED
      BY <3>1, <3>2
  <2>6. ASSUME NEW k \in 1 .. N PROVE d[k] = c[k]
    <3>1. CASE k \in 1 .. m
      <4>1. d[k] = a[k] /\ v[k] = s[k]
        BY <1>5, <2>3, <3>1
      <4>2. a[k] = g[s[k]]
        BY <1>1, <3>1 DEF Mapped
      <4> QED
        BY <2>4, <4>1, <4>2
    <3>2. CASE k \notin 1 .. m
      <4>1. PICK j : j = k - m
        OBVIOUS
      <4>2. j \in 1 .. n /\ k = m + j
        BY <1>1, <1>2, <2>4, <3>2, <4>1
      <4>3. d[k] = b[j] /\ v[k] = t[j]
        BY <1>5, <2>3, <4>2
      <4>4. b[j] = g[t[j]]
        BY <1>2, <4>2 DEF Mapped
      <4> QED
        BY <2>4, <4>3, <4>4
    <3> QED
      BY <3>1, <3>2
  <2> QED
    BY <2>4, <2>5, <2>6
<1>10. TwoOf(c, a, b, m, n)
  BY <1>3, <1>8, <1>9 DEF TwoOf
<1>11. FlattenSeq(c) = FlattenSeq(a) \o FlattenSeq(b)
  BY <1>10, FlatsJoin
<1> QED
  BY <1>1, <1>2, <1>6, <1>7, <1>11

\* Of lists put together: what each of the lists stands for, put together.
LEMMA ImageOfFlat ==
  ASSUME NEW g, NEW n, NEW seqs, ListsOf(seqs, n), \A k \in 1 .. n : Maps(g, seqs[k])
  PROVE  /\ Maps(g, FlattenSeq(seqs))
         /\ Image(g, FlattenSeq(seqs)) = FlattenSeq([k \in 1 .. n |-> Image(g, seqs[k])])
<1>1. PICK h : Amounts(h, n, seqs, FlattenSeq(seqs)) /\ \A k \in 0 .. n : List(h[k])
  BY FlatIsSum
<1>2. n \in Nat
  BY DEF ListsOf
<1>3. PICK i, w : i = [k \in 1 .. n |-> Image(g, seqs[k])] /\ w = [k \in 0 .. n |-> Image(g, h[k])]
  OBVIOUS
<1> DEFINE Bad == {k \in 0 .. n : ~Maps(g, h[k])}
<1>4. Bad = {}
  <2> SUFFICES ASSUME Bad # {} PROVE FALSE
    OBVIOUS
  <2>1. PICK k \in Bad : \A j \in Bad : k <= j
    <3>1. Bad \in SUBSET Nat
      OBVIOUS
    <3> HIDE DEF Bad
    <3> QED
      BY <3>1, LeastNumber
  <2>2. k \in 0 .. n /\ ~Maps(g, h[k])
    OBVIOUS
  <2>3. k # 0
    <3>1. Maps(g, <<>>)
      BY ListOfNone DEF Maps
    <3> QED
      BY <1>1, <2>2, <3>1 DEF Amounts
  <2>4. k \in 1 .. n /\ k - 1 \in 0 .. n /\ ~(k <= k - 1)
    BY <1>2, <2>2, <2>3
  <2>5. PICK s, t, v : s = h[k - 1] /\ t = seqs[k] /\ v = h[k]
    OBVIOUS
  <2>6. Maps(g, s) /\ Maps(g, t) /\ v = s \o t
    BY <1>1, <2>1, <2>4, <2>5 DEF Amounts
  <2>7. Maps(g, v)
    <3>1. Pictures(v, g, s, t)
      BY <2>6 DEF Pictures
    <3> QED
      BY <3>1, ImagesJoin
  <2> QED
    BY <2>2, <2>5, <2>7
<1>5. ASSUME NEW k \in 0 .. n PROVE Maps(g, h[k])
  BY <1>4
<1> HIDE DEF Bad
<1>6. ASSUME NEW k \in 1 .. n PROVE w[k] = w[k - 1] \o i[k] /\ List(i[k])
  <2>1. k \in 0 .. n /\ k - 1 \in 0 .. n
    BY <1>2
  <2>2. PICK s, t, v : s = h[k - 1] /\ t = seqs[k] /\ v = h[k]
    OBVIOUS
  <2>3. Maps(g, s) /\ Maps(g, t) /\ v = s \o t
    BY <1>1, <1>5, <2>1, <2>2 DEF Amounts
  <2>4. Image(g, v) = Image(g, s) \o Image(g, t)
    <3>1. Pictures(v, g, s, t)
      BY <2>3 DEF Pictures
    <3> QED
      BY <3>1, ImagesJoin
  <2>5. w[k] = Image(g, v) /\ w[k - 1] = Image(g, s) /\ i[k] = Image(g, t)
    BY <1>3, <2>1, <2>2
  <2>6. List(Image(g, t))
    BY <2>3, ImageIsList
  <2> QED
    BY <2>4, <2>5, <2>6
<1>7. w[0] = <<>> /\ w[n] = Image(g, FlattenSeq(seqs))
  BY <1>1, <1>2, <1>3, ImageOfNone DEF Amounts
<1>8. Amounts(w, n, i, Image(g, FlattenSeq(seqs)))
  BY <1>6, <1>7 DEF Amounts
<1>9. ListsOf(i, n)
  <2>1. DOMAIN i = 1 .. n /\ i = [k \in 1 .. n |-> i[k]]
    BY <1>3
  <2> QED
    BY <1>2, <1>6, <2>1 DEF ListsOf
<1>10. FlattenSeq(i) = Image(g, FlattenSeq(seqs))
  BY <1>8, <1>9, SumIsFlat
<1>11. Maps(g, FlattenSeq(seqs))
  <2>1. n \in 0 .. n
    BY <1>2
  <2> QED
    BY <1>1, <1>5, <2>1 DEF Amounts
<1> QED
  BY <1>3, <1>10, <1>11

--------------------------------------------------------------------------------
(* Words. *)

\* Lists of lists put together, and then what they hold put together.
LEMMA FlatOfFlats ==
  ASSUME NEW n, NEW seqs, ListsOf(seqs, n),
         \A k \in 1 .. n : \A x \in ToSet(seqs[k]) : List(x)
  PROVE  FlattenSeq(FlattenSeq(seqs)) = FlattenSeq([k \in 1 .. n |-> FlattenSeq(seqs[k])])
<1>1. PICK E : E = UNION {ToSet(seqs[k]) : k \in 1 .. n}
  OBVIOUS
<1>2. PICK g : g = [x \in E |-> x]
  OBVIOUS
<1>3. ASSUME NEW s, List(s), ToSet(s) \subseteq E PROVE Image(g, s) = FlattenSeq(s)
  <2>1. PICK m \in Nat : s \in [1 .. m -> ToSet(s)] /\ DOMAIN s = 1 .. m /\ m = Len(s)
    BY <1>3, ListIsListed
  <2>2. s = [k \in DOMAIN s |-> s[k]] /\ \A k \in DOMAIN s : s[k] \in E
    BY <1>3, <2>1
  <2>3. [k \in DOMAIN s |-> g[s[k]]] = s
    BY <1>2, <2>2
  <2> QED
    BY <2>3 DEF Image
<1>4. \A k \in 1 .. n : Maps(g, seqs[k]) /\ ToSet(seqs[k]) \subseteq E
  BY <1>1, <1>2 DEF Maps, ListsOf
<1>5. /\ Maps(g, FlattenSeq(seqs))
      /\ Image(g, FlattenSeq(seqs)) = FlattenSeq([k \in 1 .. n |-> Image(g, seqs[k])])
  BY <1>4, ImageOfFlat
<1>6. ToSet(FlattenSeq(seqs)) \subseteq E
  BY <1>1, FlattenHolds DEF ListsOf
<1>7. Image(g, FlattenSeq(seqs)) = FlattenSeq(FlattenSeq(seqs))
  <2>1. PICK s : s = FlattenSeq(seqs)
    OBVIOUS
  <2>2. List(s) /\ ToSet(s) \subseteq E
    BY <1>5, <1>6, <2>1 DEF Maps
  <2> QED
    BY <1>3, <2>1, <2>2
<1>8. [k \in 1 .. n |-> Image(g, seqs[k])] = [k \in 1 .. n |-> FlattenSeq(seqs[k])]
  BY <1>3, <1>4 DEF ListsOf
<1> QED
  BY <1>5, <1>7, <1>8

\* The plain text of a word.
Voice(S) == [w \in S |-> IF w = "mute" THEN <<>> ELSE <<w>>]

LEMMA SpokenIsImage ==
  ASSUME NEW s, NEW S, List(s), ToSet(s) \subseteq S
  PROVE  Maps(Voice(S), s) /\ Image(Voice(S), s) = Spoken(s)
<1>1. PICK m \in Nat : s \in [1 .. m -> ToSet(s)] /\ DOMAIN s = 1 .. m /\ m = Len(s)
  BY ListIsListed
<1>2. PICK g : g = Voice(S)
  OBVIOUS
<1>3. ASSUME NEW w \in S PROVE g[w] = (IF w = "mute" THEN <<>> ELSE <<w>>) /\ List(g[w])
  <2>1. g[w] = IF w = "mute" THEN <<>> ELSE <<w>>
    BY <1>2 DEF Voice
  <2> QED
    BY <2>1, ListOfOne, ListOfNone
<1>4. Maps(g, s)
  BY <1>3 DEF Maps
<1>5. [k \in DOMAIN s |-> g[s[k]]] = [k \in DOMAIN s |-> IF s[k] = "mute" THEN <<>> ELSE <<s[k]>>]
  <2>1. \A k \in DOMAIN s : s[k] \in S
    BY <1>1
  <2> QED
    BY <1>3, <2>1
<1> QED
  BY <1>2, <1>4, <1>5 DEF Image, Spoken

\* What is said of lists of words put together.
LEMMA SpokenOfFlat ==
  ASSUME NEW n, NEW seqs, ListsOf(seqs, n)
  PROVE  Spoken(FlattenSeq(seqs)) = FlattenSeq([k \in 1 .. n |-> Spoken(seqs[k])])
<1>1. PICK S, s : S = UNION {ToSet(seqs[k]) : k \in 1 .. n} /\ s = FlattenSeq(seqs)
  OBVIOUS
<1>2. PICK g : g = Voice(S)
  OBVIOUS
<1>3. ASSUME NEW k \in 1 .. n PROVE Maps(g, seqs[k]) /\ Image(g, seqs[k]) = Spoken(seqs[k])
  <2>1. List(seqs[k]) /\ ToSet(seqs[k]) \subseteq S
    BY <1>1 DEF ListsOf
  <2> QED
    BY <1>2, <2>1, SpokenIsImage
<1>4. Image(g, s) = FlattenSeq([k \in 1 .. n |-> Image(g, seqs[k])])
  BY <1>1, <1>3, ImageOfFlat
<1>5. List(s) /\ ToSet(s) \subseteq S
  BY <1>1, FlattenHolds DEF ListsOf
<1>6. Image(g, s) = Spoken(s)
  BY <1>2, <1>5, SpokenIsImage
<1>7. [k \in 1 .. n |-> Image(g, seqs[k])] = [k \in 1 .. n |-> Spoken(seqs[k])]
  BY <1>3
<1> QED
  BY <1>1, <1>4, <1>6, <1>7

LEMMA SpokenIsList ==
  ASSUME NEW s, List(s) PROVE List(Spoken(s))
<1>1. PICK S : S = ToSet(s)
  OBVIOUS
<1>2. Maps(Voice(S), s) /\ Image(Voice(S), s) = Spoken(s)
  BY <1>1, SpokenIsImage
<1> QED
  BY <1>2, ImageIsList

\* Leaving out the empty ones of some lists changes nothing of what they are put
\* together.
LEMMA NonEmptyKeeps ==
  ASSUME NEW n, NEW seqs, ListsOf(seqs, n)
  PROVE  /\ List(NonEmpty(seqs))
         /\ \A x \in ToSet(NonEmpty(seqs)) : x # <<>> /\ \E k \in 1 .. n : x = seqs[k]
         /\ FlattenSeq(NonEmpty(seqs)) = FlattenSeq(seqs)
<1>1. PICK v : v = [k \in DOMAIN seqs |-> IF seqs[k] = <<>> THEN <<>> ELSE <<seqs[k]>>]
  OBVIOUS
<1>2. NonEmpty(seqs) = FlattenSeq(v)
  BY <1>1 DEF NonEmpty
<1>3. n \in Nat /\ DOMAIN v = 1 .. n /\ v = [k \in 1 .. n |-> v[k]]
  BY <1>1 DEF ListsOf
<1>4. ASSUME NEW k \in 1 .. n
      PROVE  /\ List(v[k]) /\ FlattenSeq(v[k]) = seqs[k] /\ List(seqs[k])
             /\ \A x \in ToSet(v[k]) : x # <<>> /\ x = seqs[k]
  <2>1. List(seqs[k]) /\ v[k] = IF seqs[k] = <<>> THEN <<>> ELSE <<seqs[k]>>
    BY <1>1 DEF ListsOf
  <2>2. CASE seqs[k] = <<>>
    <3>1. v[k] = <<>> /\ FlattenSeq(<<>>) = <<>>
      BY <2>1, <2>2 DEF FlattenSeq
    <3> QED
      BY <2>1, <2>2, <3>1, ListOfNone
  <2>3. CASE seqs[k] # <<>>
    <3>1. PICK x : x = seqs[k]
      OBVIOUS
    <3>2. v[k] = <<x>> /\ List(x) /\ x # <<>>
      BY <2>1, <2>3, <3>1
    <3>3. List(v[k]) /\ ToSet(v[k]) = {x}
      BY <3>2, ListOfOne
    <3>4. FlattenSeq(<<x>>) = x
      BY <3>2, FlatOfOne
    <3> QED
      BY <2>1, <3>1, <3>2, <3>3, <3>4
  <2> QED
    BY <2>2, <2>3
<1>5. ListsOf(v, n)
  BY <1>3, <1>4 DEF ListsOf
<1>6. List(FlattenSeq(v)) /\ ToSet(FlattenSeq(v)) = UNION {ToSet(v[k]) : k \in 1 .. n}
  BY <1>3, <1>4, FlattenHolds
<1>7. FlattenSeq(FlattenSeq(v)) = FlattenSeq([k \in 1 .. n |-> FlattenSeq(v[k])])
  <2>1. \A k \in 1 .. n : \A x \in ToSet(v[k]) : List(x)
    BY <1>4
  <2> QED
    BY <1>5, <2>1, FlatOfFlats
<1>8. [k \in 1 .. n |-> FlattenSeq(v[k])] = seqs
  BY <1>4 DEF ListsOf
<1>9. PICK o : o = NonEmpty(seqs)
  OBVIOUS
<1>10. FlattenSeq(o) = FlattenSeq(seqs)
  BY <1>2, <1>7, <1>8, <1>9
<1>11. List(o) /\ ToSet(o) = UNION {ToSet(v[k]) : k \in 1 .. n}
  BY <1>2, <1>6, <1>9
<1>12. ASSUME NEW x \in ToSet(o) PROVE x # <<>> /\ \E k \in 1 .. n : x = seqs[k]
  <2>1. PICK k \in 1 .. n : x \in ToSet(v[k])
    BY <1>11
  <2> QED
    BY <1>4, <2>1
<1> QED
  BY <1>9, <1>10, <1>11, <1>12

\* The paragraphs of a text that have words, and their words.
LEMMA PlainSays ==
  ASSUME NEW t, Text(t)
  PROVE  /\ List(Plain(t)) /\ \A p \in ToSet(Plain(t)) : List(p) /\ p # <<>>
         /\ FlattenSeq(Plain(t)) = Spoken(FlattenSeq(t))
<1>1. PICK n \in Nat : t \in [1 .. n -> ToSet(t)] /\ DOMAIN t = 1 .. n /\ n = Len(t)
  BY ListIsListed DEF Text
<1>2. ListsOf(t, n)
  BY <1>1 DEF ListsOf, Text
<1>3. PICK s : s = [p \in DOMAIN t |-> Spoken(t[p])]
  OBVIOUS
<1>4. ASSUME NEW k \in 1 .. n PROVE List(s[k]) /\ s[k] = Spoken(t[k])
  <2>1. List(t[k])
    BY <1>2 DEF ListsOf
  <2> QED
    BY <1>1, <1>3, <2>1, SpokenIsList
<1>5. ListsOf(s, n) /\ s = [k \in 1 .. n |-> Spoken(t[k])]
  <2>1. DOMAIN s = 1 .. n /\ s = [k \in 1 .. n |-> s[k]]
    BY <1>1, <1>3
  <2> QED
    BY <1>1, <1>3, <1>4, <2>1 DEF ListsOf
<1>6. /\ List(NonEmpty(s)) /\ FlattenSeq(NonEmpty(s)) = FlattenSeq(s)
      /\ \A x \in ToSet(NonEmpty(s)) : x # <<>> /\ \E k \in 1 .. n : x = s[k]
  BY <1>5, NonEmptyKeeps
<1>7. Spoken(FlattenSeq(t)) = FlattenSeq(s)
  BY <1>2, <1>5, SpokenOfFlat
<1>8. Plain(t) = NonEmpty(s)
  BY <1>3 DEF Plain
<1> QED
  BY <1>4, <1>6, <1>7, <1>8

--------------------------------------------------------------------------------
(* The lines of a comment. *)

Spelled(lines)  == FlattenSeq([k \in DOMAIN lines |-> lines[k].says])
Readable(lines) == List(lines) /\ \A l \in ToSet(lines) : List(l.says)
Speech(S) == [l \in S |-> l.says]

LEMMA SpelledIsImage ==
  ASSUME NEW s, NEW S, Readable(s), ToSet(s) \subseteq S
  PROVE  Maps(Speech(S), s) /\ Image(Speech(S), s) = Spelled(s)
<1>1. PICK m \in Nat : s \in [1 .. m -> ToSet(s)] /\ DOMAIN s = 1 .. m /\ m = Len(s)
  BY ListIsListed DEF Readable
<1>2. PICK g : g = Speech(S)
  OBVIOUS
<1>3. \A l \in S : g[l] = l.says
  BY <1>2 DEF Speech
<1>4. Maps(g, s)
  BY <1>3 DEF Maps, Readable
<1>5. [k \in DOMAIN s |-> g[s[k]]] = [k \in DOMAIN s |-> s[k].says]
  <2>1. \A k \in DOMAIN s : s[k] \in S
    BY <1>1
  <2> QED
    BY <1>3, <2>1
<1> QED
  BY <1>2, <1>4, <1>5 DEF Image, Spelled

LEMMA SpelledJoin ==
  ASSUME NEW s, NEW t, NEW v, Readable(s), Readable(t), v = s \o t
  PROVE  Readable(v) /\ Spelled(v) = Spelled(s) \o Spelled(t)
<1>1. PICK S : S = ToSet(s) \cup ToSet(t)
  OBVIOUS
<1>2. PICK g : g = Speech(S)
  OBVIOUS
<1>3. Maps(g, s) /\ Image(g, s) = Spelled(s)
  BY <1>1, <1>2, SpelledIsImage
<1>4. Maps(g, t) /\ Image(g, t) = Spelled(t)
  BY <1>1, <1>2, SpelledIsImage
<1>5. Image(g, v) = Image(g, s) \o Image(g, t)
  <2>1. Pictures(v, g, s, t)
    BY <1>3, <1>4 DEF Pictures
  <2> QED
    BY <2>1, ImagesJoin
<1>6. Readable(v) /\ ToSet(v) \subseteq S
  <2>1. Concats(v, s, t)
    BY DEF Concats, Readable
  <2>2. Together(v, s, t)
    BY <2>1, ListsJoin
  <2>3. List(v) /\ ToSet(v) = S
    BY <1>1, <2>2 DEF Together
  <2> QED
    BY <1>1, <2>3 DEF Readable
<1>7. Image(g, v) = Spelled(v)
  BY <1>2, <1>6, SpelledIsImage
<1> QED
  BY <1>3, <1>4, <1>5, <1>6, <1>7

LEMMA SpelledNone == Readable(<<>>) /\ Spelled(<<>>) = <<>>
<1>1. Readable(<<>>)
  BY ListOfNone DEF Readable
<1>2. Image(Speech({}), <<>>) = Spelled(<<>>)
  <2>1. ToSet(<<>>) \subseteq {}
    BY ListOfNone
  <2> QED
    BY <1>1, <2>1, SpelledIsImage
<1> QED
  BY <1>1, <1>2, ImageOfNone

LEMMA SpelledOne ==
  ASSUME NEW l, List(l.says) PROVE Readable(<<l>>) /\ Spelled(<<l>>) = l.says
<1>1. PICK s : s = <<l>>
  OBVIOUS
<1>2. List(s) /\ ToSet(s) = {l}
  BY <1>1, ListOfOne
<1>3. Readable(s)
  BY <1>2 DEF Readable
<1>4. PICK g : g = Speech({l})
  OBVIOUS
<1>5. Image(g, s) = Spelled(s)
  BY <1>2, <1>3, <1>4, SpelledIsImage
<1>6. g[l] = l.says
  BY <1>4 DEF Speech
<1>7. Image(g, <<l>>) = g[l]
  BY <1>6, ImageOfOne
<1> QED
  BY <1>1, <1>3, <1>5, <1>6, <1>7

\* Lines of which blank ones only separate others.
Apart(lines) ==
  /\ Readable(lines)
  /\ \A k \in 1 .. Len(lines) : lines[k] = Blank => k # 1 /\ k # Len(lines) /\ lines[k + 1] # Blank

Gathers(v, lines, group) == Apart(lines) /\ Apart(group) /\ v = Group(lines, group)

\* A group is added: to the words its words, and a blank line at most between.
LEMMA GroupJoins ==
  ASSUME NEW lines, NEW group, NEW v, Gathers(v, lines, group)
  PROVE  Apart(v) /\ Spelled(v) = Spelled(lines) \o Spelled(group)
<1>1. Apart(lines) /\ Apart(group) /\ Readable(lines) /\ Readable(group)
  BY DEF Gathers, Apart
<1>2. List(Spelled(lines)) /\ List(Spelled(group))
  <2>1. ASSUME NEW s, Readable(s) PROVE List(Spelled(s))
    <3>1. PICK S : S = ToSet(s)
      OBVIOUS
    <3>2. Maps(Speech(S), s) /\ Image(Speech(S), s) = Spelled(s)
      BY <2>1, <3>1, SpelledIsImage
    <3> QED
      BY <3>2, ImageIsList
  <2> QED
    BY <1>1, <2>1
<1>3. CASE group = <<>>
  <2>1. v = lines
    BY <1>3 DEF Gathers, Group
  <2>2. Spelled(lines) \o <<>> = Spelled(lines)
    BY <1>2, NoneBefore
  <2>3. Spelled(group) = <<>>
    BY <1>3, SpelledNone
  <2> QED
    BY <1>1, <2>1, <2>2, <2>3
<1>4. CASE group # <<>> /\ lines = <<>>
  <2>1. v = group
    BY <1>4 DEF Gathers, Group
  <2>2. <<>> \o Spelled(group) = Spelled(group)
    BY <1>2, NoneBefore
  <2>3. Spelled(lines) = <<>>
    BY <1>4, SpelledNone
  <2> QED
    BY <1>1, <2>1, <2>2, <2>3
<1>5. CASE group # <<>> /\ lines # <<>>
  <2>1. PICK b, u : b = <<Blank>> /\ u = lines \o b
    OBVIOUS
  <2>2. v = u \o group
    <3>1. v = Append(lines, Blank) \o group
      BY <1>5 DEF Gathers, Group
    <3>2. PICK X : lines \in Seq(X)
      BY <1>1 DEF Readable, List
    <3>3. Append(lines, Blank) = u
      <4>1. PICK Y, y : Y = X \cup {Blank} /\ y = Blank
        OBVIOUS
      <4>2. lines \in Seq(Y) /\ y \in Y /\ b = <<y>>
        BY <2>1, <3>2, <4>1
      <4>3. Append(lines, y) = lines \o b
        BY <4>2
      <4> QED
        BY <2>1, <4>1, <4>3
    <3> QED
      BY <3>1, <3>3
  <2>3. Blank.says = <<>> /\ List(Blank.says)
    BY ListOfNone DEF Blank, Said
  <2>4. Readable(b) /\ Spelled(b) = <<>> /\ List(b) /\ Len(b) = 1 /\ b[1] = Blank
    <3>1. Readable(b) /\ Spelled(b) = Blank.says
      BY <2>1, <2>3, SpelledOne
    <3>2. List(b) /\ Len(b) = 1
      BY <2>1, ListOfOne
    <3> QED
      BY <2>1, <2>3, <3>1, <3>2
  <2>5. Readable(u) /\ Spelled(u) = Spelled(lines) \o Spelled(b)
    BY <1>1, <2>1, <2>4, SpelledJoin
  <2>6. Readable(v) /\ Spelled(v) = Spelled(u) \o Spelled(group)
    BY <1>1, <2>2, <2>5, SpelledJoin
  <2>7. Spelled(u) = Spelled(lines)
    BY <1>2, <2>4, <2>5, NoneBefore
  <2>8. Together(u, lines, b)
    <3>1. Concats(u, lines, b)
      BY <1>1, <2>1, <2>4 DEF Concats, Readable
    <3> QED
      BY <3>1, ListsJoin
  <2>9. Together(v, u, group)
    <3>1. Concats(v, u, group)
      BY <1>1, <2>2, <2>5 DEF Concats, Readable
    <3> QED
      BY <3>1, ListsJoin
  <2>10. PICK m, n : m = Len(lines) /\ n = Len(group)
    OBVIOUS
  <2>11. m \in Nat \ {0} /\ n \in Nat \ {0}
    <3>1. PICK m0 \in Nat : lines \in [1 .. m0 -> ToSet(lines)] /\ m0 = Len(lines)
      BY <1>1, ListIsListed DEF Readable
    <3>2. PICK n0 \in Nat : group \in [1 .. n0 -> ToSet(group)] /\ n0 = Len(group)
      BY <1>1, ListIsListed DEF Readable
    <3>3. m0 # 0
      BY <1>5, <3>1
    <3>4. n0 # 0
      BY <1>5, <3>2
    <3> QED
      BY <2>10, <3>1, <3>2, <3>3, <3>4
  <2>12. /\ Len(v) = m + 1 + n /\ v[m + 1] = Blank
         /\ (\A k \in 1 .. m : v[k] = lines[k]) /\ \A k \in 1 .. n : v[m + 1 + k] = group[k]
    <3>1. /\ Len(u) = m + 1 /\ u[m + 1] = Blank
          /\ \A k \in 1 .. m : u[k] = lines[k]
      BY <2>4, <2>8, <2>10 DEF Together
    <3>2. /\ Len(v) = m + 1 + n /\ (\A k \in 1 .. m + 1 : v[k] = u[k])
          /\ \A k \in 1 .. n : v[m + 1 + k] = group[k]
      BY <2>9, <2>10, <3>1 DEF Together
    <3>3. m + 1 \in 1 .. m + 1 /\ \A k \in 1 .. m : k \in 1 .. m + 1
      BY <2>11
    <3> QED
      BY <3>1, <3>2, <3>3
  <2>13. /\ \A k \in 1 .. m : lines[k] = Blank => k # 1 /\ k # m /\ lines[k + 1] # Blank
         /\ \A k \in 1 .. n : group[k] = Blank => k # 1 /\ k # n /\ group[k + 1] # Blank
    BY <1>1, <2>10 DEF Apart
  <2>14. ASSUME NEW k \in 1 .. m + 1 + n, v[k] = Blank
         PROVE  k # 1 /\ k # m + 1 + n /\ v[k + 1] # Blank
    <3>1. CASE k \in 1 .. m
      <4>1. k # 1 /\ k # m
        BY <2>12, <2>13, <2>14, <3>1
      <4>2. k + 1 \in 1 .. m /\ k # m + 1 + n
        BY <2>11, <3>1, <4>1
      <4> QED
        BY <2>12, <2>13, <2>14, <3>1, <4>1, <4>2
    <3>2. CASE k = m + 1
      <4>1. k # 1 /\ k # m + 1 + n /\ 1 \in 1 .. n /\ k + 1 = m + 1 + 1
        BY <2>11, <3>2
      <4>2. v[k + 1] = group[1] /\ group[1] # Blank
        BY <2>12, <2>13, <4>1
      <4> QED
        BY <4>1, <4>2
    <3>3. CASE k \notin 1 .. m + 1
      <4>1. PICK j : j = k - (m + 1)
        OBVIOUS
      <4>2. j \in 1 .. n /\ k = m + 1 + j
        BY <2>11, <3>3, <4>1
      <4>3. j # 1 /\ j # n /\ group[j + 1] # Blank
        BY <2>12, <2>13, <2>14, <4>2
      <4>4. j + 1 \in 1 .. n /\ k + 1 = m + 1 + (j + 1) /\ k # 1 /\ k # m + 1 + n
        BY <2>11, <4>2, <4>3
      <4>5. v[k + 1] = group[j + 1]
        BY <2>12, <4>4
      <4> QED
        BY <4>3, <4>4, <4>5
    <3> QED
      BY <2>11, <3>1, <3>2, <3>3
  <2>15. Apart(v)
    BY <2>6, <2>12, <2>14 DEF Apart
  <2> QED
    BY <2>6, <2>7, <2>15
<1> QED
  BY <1>3, <1>4, <1>5

LEMMA SpelledIsList ==
  ASSUME NEW s, Readable(s) PROVE List(Spelled(s))
<1>1. PICK S : S = ToSet(s)
  OBVIOUS
<1>2. Maps(Speech(S), s) /\ Image(Speech(S), s) = Spelled(s)
  BY <1>1, SpelledIsImage
<1> QED
  BY <1>2, ImageIsList

\* h goes from nothing to e by gathering n groups.
GathersAll(h, n, groups, e) ==
  /\ n \in Nat /\ h[0] = <<>> /\ h[n] = e
  /\ \A k \in 1 .. n : Apart(groups[k]) /\ h[k] = Group(h[k - 1], groups[k])

\* So many groups: the words of all of them, and blank lines between at most.
LEMMA GroupsJoin ==
  ASSUME NEW h, NEW n, NEW groups, NEW e, GathersAll(h, n, groups, e)
  PROVE  Apart(e) /\ Spelled(e) = FlattenSeq([k \in 1 .. n |-> Spelled(groups[k])])
<1>1. n \in Nat /\ h[0] = <<>> /\ h[n] = e
  BY DEF GathersAll
<1> DEFINE Bad == {k \in 0 .. n : ~Apart(h[k])}
<1>2. Bad = {}
  <2> SUFFICES ASSUME Bad # {} PROVE FALSE
    OBVIOUS
  <2>1. PICK k \in Bad : \A j \in Bad : k <= j
    <3>1. Bad \in SUBSET Nat
      OBVIOUS
    <3> HIDE DEF Bad
    <3> QED
      BY <3>1, LeastNumber
  <2>2. k \in 0 .. n /\ ~Apart(h[k])
    OBVIOUS
  <2>3. k # 0
    <3>1. Apart(<<>>)
      BY SpelledNone, ListOfNone DEF Apart
    <3> QED
      BY <1>1, <2>2, <3>1
  <2>4. k \in 1 .. n /\ k - 1 \in 0 .. n /\ ~(k <= k - 1)
    BY <1>1, <2>2, <2>3
  <2>5. PICK s, t, v : s = h[k - 1] /\ t = groups[k] /\ v = h[k]
    OBVIOUS
  <2>6. Gathers(v, s, t)
    BY <2>1, <2>4, <2>5 DEF GathersAll, Gathers
  <2>7. Apart(v)
    BY <2>6, GroupJoins
  <2> QED
    BY <2>2, <2>5, <2>7
<1>3. \A k \in 0 .. n : Apart(h[k])
  BY <1>2
<1> HIDE DEF Bad
<1>4. PICK w, s : w = [k \in 0 .. n |-> Spelled(h[k])] /\ s = [k \in 1 .. n |-> Spelled(groups[k])]
  OBVIOUS
<1>5. ASSUME NEW k \in 1 .. n PROVE w[k] = w[k - 1] \o s[k] /\ List(s[k])
  <2>1. k \in 0 .. n /\ k - 1 \in 0 .. n
    BY <1>1
  <2>2. PICK b, g, v : b = h[k - 1] /\ g = groups[k] /\ v = h[k]
    OBVIOUS
  <2>3. Gathers(v, b, g) /\ Apart(g)
    BY <1>3, <2>1, <2>2 DEF GathersAll, Gathers
  <2>4. Spelled(v) = Spelled(b) \o Spelled(g)
    BY <2>3, GroupJoins
  <2>5. List(Spelled(g))
    BY <2>3, SpelledIsList DEF Apart
  <2> QED
    BY <1>4, <2>1, <2>2, <2>4, <2>5
<1>6. w[0] = <<>> /\ w[n] = Spelled(e)
  BY <1>1, <1>4, SpelledNone
<1>7. Amounts(w, n, s, Spelled(e))
  BY <1>5, <1>6 DEF Amounts
<1>8. ListsOf(s, n)
  <2>1. DOMAIN s = 1 .. n /\ s = [k \in 1 .. n |-> s[k]]
    BY <1>4
  <2> QED
    BY <1>1, <1>5, <2>1 DEF ListsOf
<1>9. FlattenSeq(s) = Spelled(e)
  BY <1>7, <1>8, SumIsFlat
<1>10. Apart(e)
  <2>1. n \in 0 .. n
    BY <1>1
  <2> QED
    BY <1>1, <1>3, <2>1
<1> QED
  BY <1>4, <1>9, <1>10

\* The lines of a text: a paragraph each, with a blank line between.
LEMMA ParagraphsSay ==
  ASSUME NEW tag, NEW t, Text(t)
  PROVE  Apart(Paragraphs(tag, t)) /\ Spelled(Paragraphs(tag, t)) = Spoken(FlattenSeq(t))
<1>1. PICK plain : plain = Plain(t)
  OBVIOUS
<1>2. /\ List(plain) /\ \A p \in ToSet(plain) : List(p) /\ p # <<>>
      /\ FlattenSeq(plain) = Spoken(FlattenSeq(t))
  BY <1>1, PlainSays
<1>3. PICK n \in Nat : plain \in [1 .. n -> ToSet(plain)] /\ DOMAIN plain = 1 .. n /\ n = Len(plain)
  BY <1>2, ListIsListed
<1>4. ASSUME NEW k \in 1 .. n PROVE List(plain[k]) /\ plain[k] # <<>>
  BY <1>2, <1>3
<1>5. PICK seqs : seqs = [p \in DOMAIN plain |-> IF p = 1 THEN <<Said(tag, plain[1])>> ELSE <<Blank, Said("", plain[p])>>]
  OBVIOUS
<1>6. PICK x : x = [k \in 1 .. n |-> Said(IF k = 1 THEN tag ELSE "", plain[k])]
  OBVIOUS
<1>7. ASSUME NEW k \in 1 .. n
      PROVE  x[k].says = plain[k] /\ x[k] # Blank /\ seqs[k] = IF k = 1 THEN <<x[k]>> ELSE <<Blank, x[k]>>
  <2>1. x[k] = Said(IF k = 1 THEN tag ELSE "", plain[k])
    BY <1>6
  <2>2. x[k].says = plain[k] /\ Blank.says = <<>>
    <3>1. PICK u, w : u = (IF k = 1 THEN tag ELSE "") /\ w = plain[k]
      OBVIOUS
    <3>2. x[k] = Said(u, w)
      BY <2>1, <3>1
    <3>3. Said(u, w).says = w
      BY DEF Said
    <3> QED
      BY <3>1, <3>2, <3>3 DEF Said, Blank
  <2>3. x[k] # Blank
    BY <1>4, <2>2
  <2>4. seqs[k] = IF k = 1 THEN <<x[k]>> ELSE <<Blank, x[k]>>
    BY <1>3, <1>5, <2>1
  <2> QED
    BY <2>2, <2>3, <2>4
<1>8. ASSUME NEW k \in 1 .. n PROVE List(seqs[k]) /\ seqs[k] # <<>>
  <2>1. PICK y : y = x[k]
    OBVIOUS
  <2>2. List(<<y>>) /\ <<y>> # <<>>
    BY ListOfOne
  <2>3. List(<<Blank, y>>) /\ <<Blank, y>> # <<>>
    <3>1. PICK z, v : z = Blank /\ v = <<z, y>>
      OBVIOUS
    <3>2. DOMAIN v = 1 .. 2 /\ v = [j \in 1 .. 2 |-> v[j]]
      BY <3>1
    <3>3. List(v)
      BY <3>2, ListOfEach
    <3> QED
      BY <3>1, <3>2, <3>3
  <2> QED
    BY <1>7, <2>1, <2>2, <2>3
<1>9. ListsOf(seqs, n)
  <2>1. DOMAIN seqs = 1 .. n /\ seqs = [k \in 1 .. n |-> seqs[k]]
    BY <1>3, <1>5
  <2> QED
    BY <1>8, <2>1 DEF ListsOf
<1>10. PICK h : Amounts(h, n, seqs, FlattenSeq(seqs)) /\ \A k \in 0 .. n : List(h[k])
  BY <1>9, FlatIsSum
<1>11. PICK groups : groups = [k \in 1 .. n |-> <<x[k]>>]
  OBVIOUS
<1>12. ASSUME NEW k \in 1 .. n PROVE Apart(groups[k]) /\ Spelled(groups[k]) = plain[k]
  <2>1. PICK y, g : y = x[k] /\ g = <<y>>
    OBVIOUS
  <2>2. g = groups[k] /\ y # Blank /\ y.says = plain[k] /\ List(y.says)
    BY <1>4, <1>7, <1>11, <2>1
  <2>3. Readable(g) /\ Spelled(g) = y.says
    BY <2>1, <2>2, SpelledOne
  <2>4. Len(g) = 1 /\ g[1] = y
    BY <2>1
  <2>5. Apart(g)
    BY <2>2, <2>3, <2>4 DEF Apart
  <2> QED
    BY <2>2, <2>3, <2>5
<1>13. ASSUME NEW k \in 1 .. n PROVE h[k] = Group(h[k - 1], groups[k])
  <2>1. PICK y, g, b : y = x[k] /\ g = <<y>> /\ b = h[k - 1]
    OBVIOUS
  <2>2. g = groups[k] /\ g # <<>> /\ List(b) /\ h[k] = b \o seqs[k]
    <3>1. g = groups[k] /\ g # <<>>
      BY <1>11, <2>1
    <3>2. k - 1 \in 0 .. n
      OBVIOUS
    <3>3. List(b)
      BY <1>10, <2>1, <3>2
    <3>4. h[k] = b \o seqs[k]
      BY <1>10, <2>1 DEF Amounts
    <3> QED
      BY <3>1, <3>3, <3>4
  <2>3. CASE k = 1
    <3>1. b = <<>> /\ seqs[k] = g
      <4>1. seqs[k] = g
        BY <1>7, <2>1, <2>3
      <4>2. k - 1 = 0 /\ h[0] = <<>>
        BY <1>10, <2>3 DEF Amounts
      <4> QED
        BY <2>1, <4>1, <4>2
    <3>2. <<>> \o g = g
      BY <2>1, ListOfOne, NoneBefore
    <3>3. Group(<<>>, g) = g
      BY <2>2 DEF Group
    <3> QED
      BY <2>1, <2>2, <3>1, <3>2, <3>3
  <2>4. CASE k # 1
    <3>1. b # <<>>
      <4>1. k - 1 \in 1 .. n /\ (k - 1) - 1 \in 0 .. n
        BY <2>4
      <4>2. PICK c, s : c = h[(k - 1) - 1] /\ s = seqs[k - 1]
        OBVIOUS
      <4>3. b = c \o s /\ List(c) /\ List(s) /\ s # <<>>
        BY <1>8, <1>10, <2>1, <4>1, <4>2 DEF Amounts
      <4>4. Together(b, c, s)
        BY <4>3, ListsJoin DEF Concats
      <4>5. Len(b) = Len(c) + Len(s)
        BY <4>4 DEF Together
      <4>6. Len(c) \in Nat /\ Len(s) \in Nat \ {0}
        <5>1. PICK X, Y : c \in Seq(X) /\ s \in Seq(Y)
          BY <4>3 DEF List
        <5> QED
          BY <4>3, <5>1
      <4>7. Len(b) # 0
        BY <4>5, <4>6
      <4> QED
        BY <4>7, ListOfNone
    <3>2. Group(b, g) = Append(b, Blank) \o g
      BY <2>2, <3>1 DEF Group
    <3>3. seqs[k] = <<Blank, y>>
      BY <1>7, <2>1, <2>4
    <3>4. b \o <<Blank, y>> = Append(b, Blank) \o <<y>>
      <4>1. PICK X, z : X = ToSet(b) \cup {Blank, y} /\ z = Blank
        OBVIOUS
      <4>2. b \in Seq(X) /\ z \in X /\ y \in X
        BY <2>2, <4>1 DEF List
      <4>3. b \o <<z, y>> = Append(b, z) \o <<y>>
        BY <4>2
      <4> QED
        BY <4>1, <4>3
    <3> QED
      BY <2>1, <2>2, <3>2, <3>3, <3>4
  <2> QED
    BY <2>3, <2>4
<1>14. PICK e : e = Paragraphs(tag, t)
  OBVIOUS
<1>15. e = FlattenSeq(seqs)
  BY <1>1, <1>5, <1>14 DEF Paragraphs
<1>16. GathersAll(h, n, groups, e)
  BY <1>10, <1>12, <1>13, <1>15 DEF GathersAll, Amounts
<1>17. Apart(e) /\ Spelled(e) = FlattenSeq([k \in 1 .. n |-> Spelled(groups[k])])
  BY <1>16, GroupsJoin
<1>18. [k \in 1 .. n |-> Spelled(groups[k])] = plain
  BY <1>3, <1>12
<1> QED
  BY <1>2, <1>14, <1>17, <1>18

\* What is said in some texts.
Voiced(ts) == Spoken(Words(ts))

LEMMA WordsSay ==
  ASSUME NEW n, NEW ts, Texts(ts), n \in Nat, DOMAIN ts = 1 .. n
  PROVE  /\ ListsOf(ts, n) /\ \A k \in 1 .. n : Text(ts[k]) /\ List(FlattenSeq(ts[k]))
         /\ List(Words(ts)) /\ List(Voiced(ts))
         /\ Voiced(ts) = FlattenSeq([k \in 1 .. n |-> Spoken(FlattenSeq(ts[k]))])
<1>1. ts \in [1 .. n -> ToSet(ts)]
  <2>1. PICK m \in Nat : ts \in [1 .. m -> ToSet(ts)] /\ DOMAIN ts = 1 .. m
    BY ListIsListed DEF Texts
  <2> QED
    BY <2>1
<1>2. ASSUME NEW k \in 1 .. n PROVE Text(ts[k]) /\ List(ts[k]) /\ \A p \in ToSet(ts[k]) : List(p)
  BY <1>1 DEF Texts, Text
<1>3. ListsOf(ts, n)
  BY <1>1, <1>2 DEF ListsOf
<1>4. PICK f : f = [k \in 1 .. n |-> FlattenSeq(ts[k])]
  OBVIOUS
<1>5. Words(ts) = FlattenSeq(f)
  BY <1>2, <1>3, <1>4, FlatOfFlats DEF Words
<1>6. ASSUME NEW k \in 1 .. n PROVE List(f[k]) /\ List(FlattenSeq(ts[k]))
  <2>1. PICK s : s = ts[k]
    OBVIOUS
  <2>2. PICK m \in Nat : s \in [1 .. m -> ToSet(s)] /\ DOMAIN s = 1 .. m
    BY <1>2, <2>1, ListIsListed
  <2>3. ListsOf(s, m)
    BY <1>2, <2>1, <2>2 DEF ListsOf
  <2>4. List(FlattenSeq(s))
    BY <2>3, FlattenHolds DEF ListsOf
  <2> QED
    BY <1>4, <2>1, <2>4
<1>7. ListsOf(f, n)
  <2>1. DOMAIN f = 1 .. n /\ f = [k \in 1 .. n |-> f[k]]
    BY <1>4
  <2> QED
    BY <1>6, <2>1 DEF ListsOf
<1>8. Voiced(ts) = FlattenSeq([k \in 1 .. n |-> Spoken(f[k])])
  BY <1>5, <1>7, SpokenOfFlat DEF Voiced
<1>9. [k \in 1 .. n |-> Spoken(f[k])] = [k \in 1 .. n |-> Spoken(FlattenSeq(ts[k]))]
  BY <1>4
<1>10. List(Words(ts))
  BY <1>5, <1>7, FlattenHolds DEF ListsOf
<1>11. List(Voiced(ts))
  BY <1>10, SpokenIsList DEF Voiced
<1> QED
  BY <1>2, <1>3, <1>6, <1>8, <1>9, <1>10, <1>11

VoicedOf(v, s, t) == Texts(s) /\ Texts(t) /\ v = s \o t

LEMMA VoicedJoin ==
  ASSUME NEW s, NEW t, NEW v, VoicedOf(v, s, t)
  PROVE  Texts(v) /\ Voiced(v) = Voiced(s) \o Voiced(t)
<1>1. List(s) /\ List(t) /\ Texts(s) /\ Texts(t) /\ v = s \o t
  BY DEF VoicedOf, Texts
<1>2. PICK m \in Nat : DOMAIN s = 1 .. m
  BY <1>1, ListIsListed
<1>3. PICK n \in Nat : DOMAIN t = 1 .. n
  BY <1>1, ListIsListed
<1>4. /\ ListsOf(s, m) /\ List(Words(s)) /\ List(Voiced(s))
      /\ \A k \in 1 .. m : Text(s[k]) /\ List(FlattenSeq(s[k]))
  BY <1>1, <1>2, WordsSay
<1>5. /\ ListsOf(t, n) /\ List(Words(t)) /\ List(Voiced(t))
      /\ \A k \in 1 .. n : Text(t[k]) /\ List(FlattenSeq(t[k]))
  BY <1>1, <1>3, WordsSay
<1>6. Texts(v)
  <2>1. Together(v, s, t)
    BY <1>1, ListsJoin DEF Concats
  <2>2. List(v) /\ ToSet(v) = ToSet(s) \cup ToSet(t)
    BY <2>1 DEF Together
  <2> QED
    BY <1>1, <2>2 DEF Texts
<1>7. PICK a, b, c : a = FlattenSeq(s) /\ b = FlattenSeq(t) /\ c = FlattenSeq(v)
  OBVIOUS
<1>8. c = a \o b
  <2>1. TwoOf(v, s, t, m, n)
    BY <1>1, <1>4, <1>5 DEF TwoOf
  <2>2. FlattenSeq(v) = FlattenSeq(s) \o FlattenSeq(t)
    BY <2>1, FlatsJoin
  <2> QED
    BY <1>7, <2>2
<1>9. ASSUME NEW z, Texts(z), NEW f, f = FlattenSeq(z)
      PROVE  \E i \in Nat : ListsOf(f, i)
  <2>1. PICK i \in Nat : DOMAIN z = 1 .. i
    BY <1>9, ListIsListed DEF Texts
  <2>2. ListsOf(z, i) /\ \A k \in 1 .. i : Text(z[k])
    BY <1>9, <2>1, WordsSay
  <2>3. List(f) /\ ToSet(f) = UNION {ToSet(z[k]) : k \in 1 .. i}
    BY <1>9, <2>2, FlattenHolds DEF ListsOf
  <2>4. \A p \in ToSet(f) : List(p)
    BY <2>2, <2>3 DEF Text
  <2>5. PICK j \in Nat : f \in [1 .. j -> ToSet(f)] /\ DOMAIN f = 1 .. j
    BY <2>3, ListIsListed
  <2>6. ListsOf(f, j)
    BY <2>4, <2>5 DEF ListsOf
  <2> QED
    BY <2>6
<1>10. PICK i \in Nat : ListsOf(a, i)
  BY <1>1, <1>7, <1>9
<1>11. PICK j \in Nat : ListsOf(b, j)
  BY <1>1, <1>7, <1>9
<1>12. FlattenSeq(c) = FlattenSeq(a) \o FlattenSeq(b)
  <2>1. TwoOf(c, a, b, i, j)
    BY <1>8, <1>10, <1>11 DEF TwoOf
  <2> QED
    BY <2>1, FlatsJoin
<1>13. PICK p, q, w : p = Words(s) /\ q = Words(t) /\ w = Words(v)
  OBVIOUS
<1>14. w = p \o q /\ List(p) /\ List(q)
  BY <1>4, <1>5, <1>7, <1>12, <1>13 DEF Words
<1>15. PICK S : S = ToSet(p) \cup ToSet(q)
  OBVIOUS
<1>16. PICK g : g = Voice(S)
  OBVIOUS
<1>17. Maps(g, p) /\ Image(g, p) = Spoken(p)
  BY <1>14, <1>15, <1>16, SpokenIsImage
<1>18. Maps(g, q) /\ Image(g, q) = Spoken(q)
  BY <1>14, <1>15, <1>16, SpokenIsImage
<1>19. Image(g, w) = Image(g, p) \o Image(g, q)
  <2>1. Pictures(w, g, p, q)
    BY <1>14, <1>17, <1>18 DEF Pictures
  <2> QED
    BY <2>1, ImagesJoin
<1>20. List(w) /\ ToSet(w) \subseteq S
  <2>1. Together(w, p, q)
    BY <1>14, ListsJoin DEF Concats
  <2> QED
    BY <1>15, <2>1 DEF Together
<1>21. Image(g, w) = Spoken(w)
  BY <1>16, <1>20, SpokenIsImage
<1> QED
  BY <1>6, <1>13, <1>17, <1>18, <1>19, <1>21 DEF Voiced

LEMMA VoicedOne ==
  ASSUME NEW t, Text(t)
  PROVE  Texts(<<t>>) /\ Voiced(<<t>>) = Spoken(FlattenSeq(t))
<1>1. PICK v : v = <<t>>
  OBVIOUS
<1>2. List(v) /\ ToSet(v) = {t}
  BY <1>1, ListOfOne
<1>3. Texts(v)
  BY <1>2 DEF Texts
<1>4. FlattenSeq(<<t>>) = t
  BY FlatOfOne DEF Text
<1> QED
  BY <1>1, <1>3, <1>4 DEF Voiced, Words

Solid(lines) == Readable(lines) /\ \A l \in ToSet(lines) : l # Blank

LEMMA SolidJoin ==
  ASSUME NEW s, NEW t, NEW v, Solid(s), Solid(t), v = s \o t
  PROVE  Solid(v) /\ Spelled(v) = Spelled(s) \o Spelled(t)
<1>1. Readable(v) /\ Spelled(v) = Spelled(s) \o Spelled(t)
  BY SpelledJoin DEF Solid
<1>2. Together(v, s, t)
  BY ListsJoin DEF Concats, Solid, Readable
<1>3. ToSet(v) = ToSet(s) \cup ToSet(t)
  BY <1>2 DEF Together
<1> QED
  BY <1>1, <1>3 DEF Solid

LEMMA SolidApart ==
  ASSUME NEW s, Solid(s) PROVE Apart(s)
<1>1. PICK n \in Nat : s \in [1 .. n -> ToSet(s)] /\ n = Len(s)
  BY ListIsListed DEF Solid, Readable
<1>2. \A k \in 1 .. n : s[k] \in ToSet(s)
  BY <1>1
<1> QED
  BY <1>1, <1>2 DEF Solid, Apart

\* The lines of some blocks: a line each, without blank ones.
LEMMA TaggedSays ==
  ASSUME NEW tag, tag # "", NEW blocks, Texts(blocks)
  PROVE  Solid(Tagged(tag, blocks)) /\ Spelled(Tagged(tag, blocks)) = Voiced(blocks)
<1>1. PICK n \in Nat : blocks \in [1 .. n -> ToSet(blocks)] /\ DOMAIN blocks = 1 .. n
  BY ListIsListed DEF Texts
<1>2. /\ \A k \in 1 .. n : Text(blocks[k])
      /\ Voiced(blocks) = FlattenSeq([k \in 1 .. n |-> Spoken(FlattenSeq(blocks[k]))])
  BY <1>1, WordsSay
<1>3. PICK s : s = [b \in DOMAIN blocks |-> Plain(blocks[b])]
  OBVIOUS
<1>4. ASSUME NEW k \in 1 .. n
      PROVE  List(s[k]) /\ (\A p \in ToSet(s[k]) : List(p)) /\ FlattenSeq(s[k]) = Spoken(FlattenSeq(blocks[k]))
  <2>1. PICK t : t = blocks[k]
    OBVIOUS
  <2>2. Text(t) /\ s[k] = Plain(t)
    BY <1>1, <1>2, <1>3, <2>1
  <2> QED
    BY <2>1, <2>2, PlainSays
<1>5. ListsOf(s, n)
  <2>1. DOMAIN s = 1 .. n /\ s = [k \in 1 .. n |-> s[k]]
    BY <1>1, <1>3
  <2> QED
    BY <1>4, <2>1 DEF ListsOf
<1>6. PICK kept : kept = NonEmpty(s)
  OBVIOUS
<1>7. /\ List(kept) /\ FlattenSeq(kept) = FlattenSeq(s)
      /\ \A x \in ToSet(kept) : \E k \in 1 .. n : x = s[k]
  BY <1>5, <1>6, NonEmptyKeeps
<1>8. PICK m \in Nat : kept \in [1 .. m -> ToSet(kept)] /\ DOMAIN kept = 1 .. m
  BY <1>7, ListIsListed
<1>9. ASSUME NEW k \in 1 .. m
      PROVE  List(kept[k]) /\ (\A p \in ToSet(kept[k]) : List(p)) /\ List(FlattenSeq(kept[k]))
  <2>1. PICK j \in 1 .. n : kept[k] = s[j]
    BY <1>7, <1>8
  <2>2. PICK x : x = kept[k]
    OBVIOUS
  <2>3. List(x) /\ \A p \in ToSet(x) : List(p)
    BY <1>4, <2>1, <2>2
  <2>4. PICK i \in Nat : x \in [1 .. i -> ToSet(x)] /\ DOMAIN x = 1 .. i
    BY <2>3, ListIsListed
  <2>5. ListsOf(x, i)
    BY <2>3, <2>4 DEF ListsOf
  <2>6. List(FlattenSeq(x))
    BY <2>5, FlattenHolds DEF ListsOf
  <2> QED
    BY <2>2, <2>3, <2>6
<1>10. ListsOf(kept, m)
  BY <1>8, <1>9 DEF ListsOf
<1>11. PICK v : v = [b \in DOMAIN kept |-> Said(tag, FlattenSeq(kept[b]))]
  OBVIOUS
<1>12. v = Tagged(tag, blocks)
  BY <1>3, <1>6, <1>11 DEF Tagged
<1>13. ASSUME NEW k \in 1 .. m
       PROVE  v[k].says = FlattenSeq(kept[k]) /\ v[k] # Blank /\ List(v[k].says)
  <2>1. PICK w : w = FlattenSeq(kept[k])
    OBVIOUS
  <2>2. v[k] = Said(tag, w) /\ List(w)
    BY <1>8, <1>9, <1>11, <2>1
  <2>3. Said(tag, w).says = w /\ Said(tag, w).tag = tag /\ Blank.tag = ""
    BY DEF Said, Blank
  <2> QED
    BY <2>1, <2>2, <2>3
<1>14. List(v) /\ ToSet(v) = {v[k] : k \in 1 .. m} /\ DOMAIN v = 1 .. m
  <2>1. DOMAIN v = 1 .. m /\ v = [k \in 1 .. m |-> v[k]]
    BY <1>8, <1>11
  <2> QED
    BY <2>1, ListOfEach
<1>15. Solid(v)
  BY <1>13, <1>14 DEF Solid, Readable
<1>16. Spelled(v) = FlattenSeq([k \in 1 .. m |-> FlattenSeq(kept[k])])
  <2>1. [k \in DOMAIN v |-> v[k].says] = [k \in 1 .. m |-> FlattenSeq(kept[k])]
    BY <1>13, <1>14
  <2> QED
    BY <2>1 DEF Spelled
<1>17. FlattenSeq(FlattenSeq(kept)) = FlattenSeq([k \in 1 .. m |-> FlattenSeq(kept[k])])
  <2>1. \A k \in 1 .. m : \A x \in ToSet(kept[k]) : List(x)
    BY <1>9
  <2> QED
    BY <1>10, <2>1, FlatOfFlats
<1>18. FlattenSeq(FlattenSeq(s)) = FlattenSeq([k \in 1 .. n |-> FlattenSeq(s[k])])
  <2>1. \A k \in 1 .. n : \A x \in ToSet(s[k]) : List(x)
    BY <1>4
  <2> QED
    BY <1>5, <2>1, FlatOfFlats
<1>19. [k \in 1 .. n |-> FlattenSeq(s[k])] = [k \in 1 .. n |-> Spoken(FlattenSeq(blocks[k]))]
  BY <1>4
<1>20. Spelled(v) = Voiced(blocks)
  BY <1>2, <1>7, <1>16, <1>17, <1>18, <1>19
<1> QED
  BY <1>12, <1>15, <1>20

\* A comment gathers its groups one after the other.
LEMMA CommentSteps ==
  ASSUME NEW n \in Nat, NEW groups, DOMAIN groups = 1 .. n, \A k \in 1 .. n : Apart(groups[k])
  PROVE  \E h : GathersAll(h, n, groups, FoldLeft(Group, <<>>, groups))
<1>1. PICK L : L = {Blank} \cup UNION {ToSet(groups[k]) : k \in 1 .. n}
  OBVIOUS
<1>2. ASSUME NEW k \in 1 .. n, NEW s \in Seq(L) PROVE Group(s, groups[k]) \in Seq(L)
  <2>1. PICK g, b : g = groups[k] /\ b = Blank
    OBVIOUS
  <2>2. g \in Seq(L) /\ b \in L
    <3>1. g \in Seq(ToSet(g)) /\ ToSet(g) \subseteq L
      BY <1>1, <2>1 DEF Apart, Readable, List
    <3>2. PICK X : X = ToSet(g)
      OBVIOUS
    <3> QED
      BY <1>1, <2>1, <3>1, <3>2
  <2>3. Append(s, b) \in Seq(L)
    BY <2>2
  <2>4. Append(s, b) \o g \in Seq(L)
    BY <2>2, <2>3
  <2> QED
    BY <2>1, <2>2, <2>4 DEF Group
<1> DEFINE V == Seq(L)
           op == [k \in 1 .. n |-> [s \in V |-> Group(s, groups[k])]]
           Folds(g) == g = [s \in SUBSET DOMAIN groups |->
                              IF s = {} THEN <<>> ELSE Group(g[s \ {Max(s)}], groups[Max(s)])]
           chosen == CHOOSE g : Folds(g)
<1>3. FoldLeft(Group, <<>>, groups) = chosen[DOMAIN groups]
  BY DEF FoldLeft, MapThenFoldSet
<1>4. op \in [1 .. n -> [V -> V]]
  BY <1>2
<1>5. <<>> \in V
  OBVIOUS
<1>6. ASSUME NEW k \in 1 .. n, NEW s \in V PROVE op[k][s] = Group(s, groups[k])
  OBVIOUS
<1> HIDE DEF op, V
<1>7. ASSUME NEW s \in SUBSET (1 .. n), s # {} PROVE Max(s) \in 1 .. n
  BY <1>7, LatestChooses DEF Latest
<1>8. \E g : Folds(g)
  <2>1. PICK f \in [SUBSET (1 .. n) -> V] : FoldsUp(f, n, <<>>, op)
    BY <1>4, <1>5, SequenceFoldExists
  <2>2. ASSUME NEW s \in SUBSET (1 .. n)
        PROVE  f[s] = IF s = {} THEN <<>> ELSE Group(f[s \ {Max(s)}], groups[Max(s)])
    <3>1. f[s] = IF s = {} THEN <<>> ELSE op[Max(s)][f[s \ {Max(s)}]]
      BY <2>1 DEF FoldsUp
    <3>2. f[s \ {Max(s)}] \in V
      OBVIOUS
    <3> QED
      BY <1>6, <1>7, <3>1, <3>2
  <2>3. Folds(f)
    BY <2>1, <2>2 DEF FoldsUp
  <2> QED
    BY <2>3
<1>9. PICK g : g = chosen /\ Folds(g)
  <2> HIDE DEF Folds
  <2> QED
    BY <1>8
<1> HIDE DEF chosen
<1>10. g = [s \in SUBSET (1 .. n) |-> g[s]] /\ g[{}] = <<>>
  BY <1>9
<1>11. ASSUME NEW s \in SUBSET (1 .. n), s # {}, g[s \ {Max(s)}] \in V
       PROVE  g[s] = op[Max(s)][g[s \ {Max(s)}]]
  BY <1>6, <1>7, <1>9, <1>11
<1>12. PICK h \in [0 .. n -> V] : StepsTo(h, n, <<>>, op, g[1 .. n])
  <2> DEFINE t == g
             o == op
             b == <<>>
  <2>1. FoldsAmong(t, n, V, b, o)
    BY <1>10, <1>11 DEF FoldsAmong
  <2>2. o \in [1 .. n -> [V -> V]] /\ b \in V
    BY <1>4, <1>5
  <2> HIDE DEF t, o, b
  <2>3. \E h \in [0 .. n -> V] : StepsTo(h, n, b, o, t[1 .. n])
    BY <2>1, <2>2, SequenceFoldSteps
  <2> QED
    BY <2>3 DEF t, o, b
<1>13. ASSUME NEW k \in 1 .. n PROVE h[k] = Group(h[k - 1], groups[k])
  <2>1. h[k - 1] \in V
    OBVIOUS
  <2> QED
    BY <1>6, <1>12, <2>1 DEF StepsTo
<1>14. h[0] = <<>> /\ h[n] = g[1 .. n]
  BY <1>12 DEF StepsTo
<1>15. GathersAll(h, n, groups, FoldLeft(Group, <<>>, groups))
  BY <1>3, <1>9, <1>13, <1>14 DEF GathersAll
<1> QED
  BY <1>15

\* Groups that each stand apart and together tell v.
Speaks(groups, v) ==
  /\ List(groups) /\ \A g \in ToSet(groups) : Apart(g)
  /\ List(v) /\ v = FlattenSeq([k \in DOMAIN groups |-> Spelled(groups[k])])

SpeaksOne(g, v) == Apart(g) /\ v = Spelled(g)

LEMMA NoneSpeak == Speaks(<<>>, <<>>)
<1>1. PICK s : s = <<>>
  OBVIOUS
<1>2. List(s) /\ ToSet(s) = {}
  BY <1>1, ListOfNone
<1>3. FlattenSeq(s) = <<>>
  BY <1>1 DEF FlattenSeq
<1>4. [k \in DOMAIN s |-> Spelled(s[k])] = s
  BY <1>1
<1> QED
  BY <1>1, <1>2, <1>3, <1>4 DEF Speaks

\* A list with one more at its end.
LEMMA OneAtEnd ==
  ASSUME NEW s, NEW n \in Nat, DOMAIN s = 1 .. n, s = [k \in 1 .. n |-> s[k]], NEW x, NEW v, v = s \o <<x>>
  PROVE  v = [k \in 1 .. n + 1 |-> IF k = n + 1 THEN x ELSE s[k]]
<1>1. List(s) /\ Len(s) = n
  BY ListOfEach
<1>2. PICK t : t = <<x>> /\ List(t) /\ Len(t) = 1 /\ t[1] = x
  BY ListOfOne
<1>3. Together(v, s, t)
  BY <1>1, <1>2, ListsJoin DEF Concats
<1>4. Len(v) = n + 1 /\ (\A k \in 1 .. n : v[k] = s[k]) /\ v[n + 1] = x /\ List(v)
  BY <1>1, <1>2, <1>3 DEF Together
<1>5. PICK m \in Nat : v \in [1 .. m -> ToSet(v)] /\ m = Len(v)
  BY <1>4, ListIsListed
<1> QED
  BY <1>4, <1>5

Follow(v, a, b, c, d) == v = <<a>> \o <<b>> \o <<c>> \o <<d>>

LEMMA FourInRow ==
  ASSUME NEW a, NEW b, NEW c, NEW d, NEW v, Follow(v, a, b, c, d)
  PROVE  v = <<a, b, c, d>>
<1>1. PICK s1 : s1 = <<a>>
  OBVIOUS
<1>2. PICK s2 : s2 = s1 \o <<b>>
  OBVIOUS
<1>3. PICK s3 : s3 = s2 \o <<c>>
  OBVIOUS
<1>4. v = s3 \o <<d>>
  BY <1>1, <1>2, <1>3 DEF Follow
<1>5. DOMAIN s1 = 1 .. 1 /\ s1 = [k \in 1 .. 1 |-> s1[k]] /\ s1[1] = a
  BY <1>1
<1>6. s2 = [k \in 1 .. 2 |-> IF k = 2 THEN b ELSE s1[k]]
  <2>1. s2 = [k \in 1 .. 1 + 1 |-> IF k = 1 + 1 THEN b ELSE s1[k]]
    BY <1>2, <1>5, OneAtEnd
  <2> QED
    BY <2>1
<1>7. s3 = [k \in 1 .. 3 |-> IF k = 3 THEN c ELSE s2[k]]
  <2>1. DOMAIN s2 = 1 .. 2 /\ s2 = [k \in 1 .. 2 |-> s2[k]]
    BY <1>6
  <2>2. s3 = [k \in 1 .. 2 + 1 |-> IF k = 2 + 1 THEN c ELSE s2[k]]
    BY <1>3, <2>1, OneAtEnd
  <2> QED
    BY <2>2
<1>8. v = [k \in 1 .. 4 |-> IF k = 4 THEN d ELSE s3[k]]
  <2>1. DOMAIN s3 = 1 .. 3 /\ s3 = [k \in 1 .. 3 |-> s3[k]]
    BY <1>7
  <2>2. v = [k \in 1 .. 3 + 1 |-> IF k = 3 + 1 THEN d ELSE s3[k]]
    BY <1>4, <2>1, OneAtEnd
  <2> QED
    BY <2>2
<1>9. v[1] = a /\ v[2] = b /\ v[3] = c /\ v[4] = d /\ DOMAIN v = 1 .. 4 /\ v = [k \in 1 .. 4 |-> v[k]]
  BY <1>5, <1>6, <1>7, <1>8
<1> QED
  BY <1>9

LEMMA OneSpeaks ==
  ASSUME NEW g, NEW v, SpeaksOne(g, v)
  PROVE  Speaks(<<g>>, v)
<1>1. PICK s : s = <<g>>
  OBVIOUS
<1>2. List(s) /\ ToSet(s) = {g}
  BY <1>1, ListOfOne
<1>3. List(v)
  BY SpelledIsList DEF Apart, SpeaksOne
<1>4. [k \in DOMAIN s |-> Spelled(s[k])] = <<v>>
  BY <1>1 DEF SpeaksOne
<1> QED
  BY <1>1, <1>2, <1>3, <1>4, FlatOfOne DEF Speaks, SpeaksOne

SpeakTwo(v, s, t, a, b) == Speaks(s, a) /\ Speaks(t, b) /\ v = s \o t

LEMMA TwoSpeak ==
  ASSUME NEW s, NEW t, NEW v, NEW a, NEW b, SpeakTwo(v, s, t, a, b)
  PROVE  Speaks(v, a \o b)
<1>1. Speaks(s, a) /\ Speaks(t, b) /\ v = s \o t
  BY DEF SpeakTwo
<1>2. PICK S : S = ToSet(s) \cup ToSet(t)
  OBVIOUS
<1>3. PICK voice : voice = [g \in S |-> Spelled(g)]
  OBVIOUS
<1>4. ASSUME NEW g \in S PROVE voice[g] = Spelled(g) /\ List(Spelled(g)) /\ Apart(g)
  <2>1. Apart(g)
    BY <1>1, <1>2 DEF Speaks
  <2>2. List(Spelled(g))
    BY <2>1, SpelledIsList DEF Apart
  <2> QED
    BY <1>3, <2>1, <2>2
<1>5. ASSUME NEW z, List(z), ToSet(z) \subseteq S
      PROVE  Maps(voice, z) /\ Image(voice, z) = FlattenSeq([k \in DOMAIN z |-> Spelled(z[k])])
  <2>1. \A k \in DOMAIN z : z[k] \in S
    BY <1>5 DEF ToSet
  <2>2. [k \in DOMAIN z |-> voice[z[k]]] = [k \in DOMAIN z |-> Spelled(z[k])]
    BY <1>4, <2>1
  <2>3. \A x \in ToSet(z) : List(voice[x])
    BY <1>4, <1>5
  <2> QED
    BY <1>5, <2>2, <2>3 DEF Maps, Image
<1>6. Maps(voice, s) /\ Image(voice, s) = a
  <2>1. Maps(voice, s) /\ Image(voice, s) = FlattenSeq([k \in DOMAIN s |-> Spelled(s[k])])
    BY <1>1, <1>2, <1>5 DEF Speaks
  <2> QED
    BY <1>1, <2>1 DEF Speaks
<1>7. Maps(voice, t) /\ Image(voice, t) = b
  <2>1. Maps(voice, t) /\ Image(voice, t) = FlattenSeq([k \in DOMAIN t |-> Spelled(t[k])])
    BY <1>1, <1>2, <1>5 DEF Speaks
  <2> QED
    BY <1>1, <2>1 DEF Speaks
<1>8. Maps(voice, v) /\ Image(voice, v) = Image(voice, s) \o Image(voice, t)
  <2>1. Pictures(v, voice, s, t)
    BY <1>1, <1>6, <1>7 DEF Pictures
  <2> QED
    BY <2>1, ImagesJoin
<1>9. List(v) /\ ToSet(v) = S
  <2>1. Together(v, s, t)
    BY <1>1, ListsJoin DEF Concats, Speaks
  <2> QED
    BY <1>2, <2>1 DEF Together
<1>10. Image(voice, v) = FlattenSeq([k \in DOMAIN v |-> Spelled(v[k])])
  BY <1>5, <1>9
<1>11. List(Image(voice, v))
  BY <1>8, ImageIsList
<1>12. \A g \in ToSet(v) : Apart(g)
  BY <1>4, <1>9
<1> QED
  BY <1>6, <1>7, <1>8, <1>9, <1>10, <1>11, <1>12 DEF Speaks

\* A comment stands apart and tells what its groups tell.
LEMMA GroupsSpeak ==
  ASSUME NEW groups, NEW v, Speaks(groups, v)
  PROVE  Apart(FoldLeft(Group, <<>>, groups)) /\ Spelled(FoldLeft(Group, <<>>, groups)) = v
<1>1. PICK n \in Nat : groups \in [1 .. n -> ToSet(groups)] /\ DOMAIN groups = 1 .. n
  BY ListIsListed DEF Speaks
<1>2. \A k \in 1 .. n : Apart(groups[k])
  BY <1>1 DEF Speaks
<1>3. PICK e : e = FoldLeft(Group, <<>>, groups)
  OBVIOUS
<1>4. PICK h : GathersAll(h, n, groups, e)
  BY <1>1, <1>2, <1>3, CommentSteps
<1>5. Apart(e) /\ Spelled(e) = FlattenSeq([k \in 1 .. n |-> Spelled(groups[k])])
  BY <1>4, GroupsJoin
<1> QED
  BY <1>1, <1>3, <1>5 DEF Speaks

\* The groups of a comment: each stands apart and says its part of the doc.
Marked(doc) ==
  Tagged("@typeParam", doc.typeParams) \o Tagged("@param", doc.params) \o Tagged("@returns", doc.returns)
Shows(doc) == [x \in DOMAIN doc.examples |-> Paragraphs("@example", doc.examples[x])]
Finale(doc) == IF doc.public THEN << <<Said("@public", <<>>)>> >> ELSE <<>>
Leading(doc) ==
  << Paragraphs("", doc.summary), Marked(doc), Tagged("@deprecated", doc.deprecated),
     Paragraphs("@remarks", doc.remarks) >>

Documents(doc) ==
  /\ Text(doc.summary) /\ Text(doc.remarks)
  /\ Texts(doc.typeParams) /\ Texts(doc.params) /\ Texts(doc.returns)
  /\ Texts(doc.deprecated) /\ Texts(doc.examples)

LEMMA MarkedSays ==
  ASSUME NEW doc, Documents(doc)
  PROVE  /\ Apart(Marked(doc))
         /\ Spelled(Marked(doc)) = (Voiced(doc.typeParams) \o Voiced(doc.params)) \o Voiced(doc.returns)
<1>1. PICK p, q, r : /\ p = Tagged("@typeParam", doc.typeParams)
                     /\ q = Tagged("@param", doc.params)
                     /\ r = Tagged("@returns", doc.returns)
  OBVIOUS
<1>2. Solid(p) /\ Spelled(p) = Voiced(doc.typeParams)
  BY <1>1, TaggedSays DEF Documents
<1>3. Solid(q) /\ Spelled(q) = Voiced(doc.params)
  BY <1>1, TaggedSays DEF Documents
<1>4. Solid(r) /\ Spelled(r) = Voiced(doc.returns)
  BY <1>1, TaggedSays DEF Documents
<1>5. PICK s : s = p \o q
  OBVIOUS
<1>6. Solid(s) /\ Spelled(s) = Spelled(p) \o Spelled(q)
  BY <1>2, <1>3, <1>5, SolidJoin
<1>7. PICK v : v = s \o r
  OBVIOUS
<1>8. Solid(v) /\ Spelled(v) = Spelled(s) \o Spelled(r)
  BY <1>4, <1>6, <1>7, SolidJoin
<1>9. v = Marked(doc)
  BY <1>1, <1>5, <1>7 DEF Marked
<1> QED
  BY <1>2, <1>3, <1>4, <1>6, <1>8, <1>9, SolidApart

\* The examples, each in a group of its own.
LEMMA ShownSpeak ==
  ASSUME NEW doc, Documents(doc)
  PROVE  Speaks(Shows(doc), Voiced(doc.examples))
<1>1. PICK ts : ts = doc.examples /\ Texts(ts)
  BY DEF Documents
<1>2. PICK n \in Nat : DOMAIN ts = 1 .. n
  BY <1>1, ListIsListed DEF Texts
<1>3. /\ \A k \in 1 .. n : Text(ts[k])
      /\ List(Voiced(ts)) /\ Voiced(ts) = FlattenSeq([k \in 1 .. n |-> Spoken(FlattenSeq(ts[k]))])
  BY <1>1, <1>2, WordsSay
<1>4. PICK s : s = Shows(doc)
  OBVIOUS
<1>5. s = [k \in 1 .. n |-> Paragraphs("@example", ts[k])]
  BY <1>1, <1>2, <1>4 DEF Shows
<1>6. ASSUME NEW k \in 1 .. n PROVE Apart(s[k]) /\ Spelled(s[k]) = Spoken(FlattenSeq(ts[k]))
  <2>1. PICK t : t = ts[k] /\ Text(t)
    BY <1>3
  <2>2. s[k] = Paragraphs("@example", t)
    BY <1>5, <2>1
  <2> QED
    BY <2>1, <2>2, ParagraphsSay
<1>7. List(s) /\ ToSet(s) = {s[k] : k \in 1 .. n} /\ DOMAIN s = 1 .. n
  <2>1. DOMAIN s = 1 .. n /\ s = [k \in 1 .. n |-> s[k]]
    BY <1>5
  <2> QED
    BY <2>1, ListOfEach
<1>8. [k \in DOMAIN s |-> Spelled(s[k])] = [k \in 1 .. n |-> Spoken(FlattenSeq(ts[k]))]
  BY <1>6, <1>7
<1>9. \A g \in ToSet(s) : Apart(g)
  BY <1>6, <1>7
<1> QED
  BY <1>1, <1>3, <1>4, <1>7, <1>8, <1>9 DEF Speaks

LEMMA FinaleSpeaks ==
  ASSUME NEW doc PROVE Speaks(Finale(doc), <<>>)
<1>1. CASE ~doc.public
  <2>1. Finale(doc) = <<>>
    BY <1>1 DEF Finale
  <2> QED
    BY <2>1, NoneSpeak
<1>2. CASE doc.public
  <2>1. PICK l : l = Said("@public", <<>>)
    OBVIOUS
  <2>2. l.says = <<>> /\ l.tag = "@public" /\ Blank.tag = ""
    BY <2>1 DEF Said, Blank
  <2>3. Readable(<<l>>) /\ Spelled(<<l>>) = <<>>
    <3>1. List(l.says)
      BY <2>2, ListOfNone
    <3> QED
      BY <2>2, <3>1, SpelledOne
  <2>4. ToSet(<<l>>) = {l}
    BY ListOfOne
  <2>5. PICK g : g = <<l>>
    OBVIOUS
  <2>6. Solid(g)
    BY <2>2, <2>3, <2>4, <2>5 DEF Solid
  <2>7. SpeaksOne(g, <<>>)
    BY <2>3, <2>5, <2>6, SolidApart DEF SpeaksOne
  <2>8. Finale(doc) = <<g>>
    BY <1>2, <2>1, <2>5 DEF Finale
  <2> QED
    BY <2>7, <2>8, OneSpeaks
<1> QED
  BY <1>1, <1>2

\* What a comment tells is what its doc says, in the order it is written down.
LEMMA CommentSpeaks ==
  ASSUME NEW doc, Documents(doc)
  PROVE  Apart(Comment(doc)) /\ Spelled(Comment(doc)) = Written(doc)
<1>1. PICK a, b, c, d : /\ a = Paragraphs("", doc.summary) /\ b = Marked(doc)
                        /\ c = Tagged("@deprecated", doc.deprecated)
                        /\ d = Paragraphs("@remarks", doc.remarks)
  OBVIOUS
<1>2. PICK S : S = Voiced(<<doc.summary>>)
  OBVIOUS
<1>3. PICK T, P, R, D : /\ T = Voiced(doc.typeParams) /\ P = Voiced(doc.params)
                        /\ R = Voiced(doc.returns) /\ D = Voiced(doc.deprecated)
  OBVIOUS
<1>4. PICK M, E : M = Voiced(<<doc.remarks>>) /\ E = Voiced(doc.examples)
  OBVIOUS
<1>5. Apart(a) /\ Spelled(a) = S /\ Texts(<<doc.summary>>)
  BY <1>1, <1>2, ParagraphsSay, VoicedOne DEF Documents
<1>6. Apart(b) /\ Spelled(b) = (T \o P) \o R
  BY <1>1, <1>3, MarkedSays
<1>7. Apart(c) /\ Spelled(c) = D
  BY <1>1, <1>3, TaggedSays, SolidApart DEF Documents
<1>8. Apart(d) /\ Spelled(d) = M /\ Texts(<<doc.remarks>>)
  BY <1>1, <1>4, ParagraphsSay, VoicedOne DEF Documents
<1>9. List(S) /\ List(T) /\ List(P) /\ List(R) /\ List(D) /\ List(M) /\ List(E)
  <2>1. ASSUME NEW ts, Texts(ts) PROVE List(Voiced(ts))
    <3>1. PICK n \in Nat : DOMAIN ts = 1 .. n
      BY <2>1, ListIsListed DEF Texts
    <3> QED
      BY <2>1, <3>1, WordsSay
  <2> QED
    BY <1>2, <1>3, <1>4, <1>5, <1>8, <2>1 DEF Documents
<1>10. Speaks(<<a>>, S) /\ Speaks(<<b>>, (T \o P) \o R) /\ Speaks(<<c>>, D) /\ Speaks(<<d>>, M)
  BY <1>5, <1>6, <1>7, <1>8, OneSpeaks DEF SpeaksOne
<1>11. Speaks(<<a>> \o <<b>>, S \o ((T \o P) \o R))
  <2>1. PICK u : u = (T \o P) \o R
    OBVIOUS
  <2>2. SpeakTwo(<<a>> \o <<b>>, <<a>>, <<b>>, S, u)
    BY <1>10, <2>1 DEF SpeakTwo
  <2> QED
    BY <2>1, <2>2, TwoSpeak
<1>12. PICK V : V = ((S \o T) \o P) \o R
  OBVIOUS
<1>13. S \o ((T \o P) \o R) = V
  <2>1. PICK u : u = T \o P
    OBVIOUS
  <2>2. List(u) /\ List(S \o T)
    BY <1>9, <2>1, ListsJoin DEF Concats, Together
  <2>3. (S \o T) \o P = S \o u
    <3>1. PICK v : v = (S \o T) \o P
      OBVIOUS
    <3>2. Grouped(v, S, T, P)
      BY <1>9, <3>1 DEF Grouped
    <3> QED
      BY <2>1, <3>1, <3>2, JoinAssociates
  <2>4. Grouped(V, S, u, R)
    BY <1>9, <1>12, <2>2, <2>3 DEF Grouped
  <2> QED
    BY <2>1, <2>4, JoinAssociates
<1>14. PICK g2, g3, g4 : g2 = <<a>> \o <<b>> /\ g3 = g2 \o <<c>> /\ g4 = g3 \o <<d>>
  OBVIOUS
<1>15. PICK V2, V3, V4 : V2 = V \o D /\ V3 = V2 \o M /\ V4 = V3 \o E
  OBVIOUS
<1>16. Speaks(g3, V2)
  <2>1. SpeakTwo(g3, g2, <<c>>, V, D)
    BY <1>10, <1>11, <1>13, <1>14 DEF SpeakTwo
  <2> QED
    BY <1>15, <2>1, TwoSpeak
<1>17. Speaks(g4, V3)
  <2>1. SpeakTwo(g4, g3, <<d>>, V2, M)
    BY <1>10, <1>14, <1>16 DEF SpeakTwo
  <2> QED
    BY <1>15, <2>1, TwoSpeak
<1>18. PICK g5, g6 : g5 = g4 \o Shows(doc) /\ g6 = g5 \o Finale(doc)
  OBVIOUS
<1>19. Speaks(g5, V4)
  <2>1. SpeakTwo(g5, g4, Shows(doc), V3, E)
    BY <1>4, <1>17, <1>18, ShownSpeak DEF SpeakTwo
  <2> QED
    BY <1>15, <2>1, TwoSpeak
<1>20. Speaks(g6, V4)
  <2>1. SpeakTwo(g6, g5, Finale(doc), V4, <<>>)
    BY <1>18, <1>19, FinaleSpeaks DEF SpeakTwo
  <2>2. Speaks(g6, V4 \o <<>>)
    BY <2>1, TwoSpeak
  <2>3. V4 \o <<>> = V4
    BY <1>19, NoneBefore DEF Speaks
  <2> QED
    BY <2>2, <2>3
<1>21. Comment(doc) = FoldLeft(Group, <<>>, g6)
  <2>1. g4 = <<a, b, c, d>>
    <3>1. Follow(g4, a, b, c, d)
      BY <1>14 DEF Follow
    <3> QED
      BY <3>1, FourInRow
  <2>2. <<a, b, c, d>> = Leading(doc)
    BY <1>1 DEF Leading
  <2>3. Comment(doc) = FoldLeft(Group, <<>>, Leading(doc) \o Shows(doc) \o Finale(doc))
    BY DEF Comment, Leading, Marked, Shows, Finale
  <2> QED
    BY <1>18, <2>1, <2>2, <2>3
<1>22. Written(doc) = V4
  <2>1. PICK s, t, p, r, dd, m, e : /\ s = <<doc.summary>> /\ t = doc.typeParams /\ p = doc.params
                                    /\ r = doc.returns /\ dd = doc.deprecated
                                    /\ m = <<doc.remarks>> /\ e = doc.examples
    OBVIOUS
  <2>2. /\ Texts(s) /\ Texts(t) /\ Texts(p) /\ Texts(r) /\ Texts(dd) /\ Texts(m) /\ Texts(e)
        /\ Voiced(s) = S /\ Voiced(t) = T /\ Voiced(p) = P /\ Voiced(r) = R
        /\ Voiced(dd) = D /\ Voiced(m) = M /\ Voiced(e) = E
    BY <1>2, <1>3, <1>4, <1>5, <1>8, <2>1 DEF Documents
  <2>3. PICK w1, w2, w3, w4 : w1 = s \o t /\ w2 = w1 \o p /\ w3 = w2 \o r /\ w4 = w3 \o dd
    OBVIOUS
  <2>4. PICK w5, w6 : w5 = w4 \o m /\ w6 = w5 \o e
    OBVIOUS
  <2>5. Texts(w1) /\ Voiced(w1) = S \o T
    BY <2>2, <2>3, VoicedJoin DEF VoicedOf
  <2>6. Texts(w2) /\ Voiced(w2) = (S \o T) \o P
    <3>1. VoicedOf(w2, w1, p)
      BY <2>2, <2>3, <2>5 DEF VoicedOf
    <3> QED
      BY <2>2, <2>5, <3>1, VoicedJoin
  <2>7. Texts(w3) /\ Voiced(w3) = V
    <3>1. VoicedOf(w3, w2, r)
      BY <2>2, <2>3, <2>6 DEF VoicedOf
    <3> QED
      BY <1>12, <2>2, <2>6, <3>1, VoicedJoin
  <2>8. Texts(w4) /\ Voiced(w4) = V2
    <3>1. VoicedOf(w4, w3, dd)
      BY <2>2, <2>3, <2>7 DEF VoicedOf
    <3> QED
      BY <1>15, <2>2, <2>7, <3>1, VoicedJoin
  <2>9. Texts(w5) /\ Voiced(w5) = V3
    <3>1. VoicedOf(w5, w4, m)
      BY <2>2, <2>4, <2>8 DEF VoicedOf
    <3> QED
      BY <1>15, <2>2, <2>8, <3>1, VoicedJoin
  <2>10. Voiced(w6) = V4
    <3>1. VoicedOf(w6, w5, e)
      BY <2>2, <2>4, <2>9 DEF VoicedOf
    <3> QED
      BY <1>15, <2>2, <2>9, <3>1, VoicedJoin
  <2>11. w6 = <<doc.summary>> \o doc.typeParams \o doc.params \o doc.returns
                \o doc.deprecated \o <<doc.remarks>> \o doc.examples
    BY <2>1, <2>3, <2>4
  <2> QED
    BY <2>10, <2>11 DEF Written, Voiced, Spoken
<1> QED
  BY <1>20, <1>21, <1>22, GroupsSpeak

Ahead(v, x, s) == List(s) /\ v = <<x>> \o s

LEMMA OneAhead ==
  ASSUME NEW v, NEW x, NEW s, Ahead(v, x, s)
  PROVE  List(v) /\ ToSet(v) = {x} \cup ToSet(s)
<1>1. PICK o : o = <<x>> /\ List(o) /\ ToSet(o) = {x}
  BY ListOfOne
<1>2. Concats(v, o, s)
  BY <1>1 DEF Ahead, Concats
<1>3. Together(v, o, s)
  BY <1>2, ListsJoin
<1> QED
  BY <1>1, <1>3 DEF Together

\* The declarations of a file that carry a comment are documented.
Bearers(v) == List(v) /\ \A x \in ToSet(v) : Documented(x)

LEMMA MemberBearers ==
  ASSUME NEW m, Documented(m), List(m.members), \A n \in ToSet(m.members) : Documented(n),
         NEW v, v = <<m>> \o Printed(m)
  PROVE  Bearers(v)
<1>1. PICK s : s = Printed(m) /\ List(s) /\ ToSet(s) \subseteq ToSet(m.members)
  BY PrintedAreMembers
<1>2. Ahead(v, m, s)
  BY <1>1 DEF Ahead
<1>3. List(v) /\ ToSet(v) = {m} \cup ToSet(s)
  BY <1>2, OneAhead
<1> QED
  BY <1>1, <1>3 DEF Bearers

Below(i, v) ==
  v = <<i>> \o LET direct == Printed(i) IN FlattenSeq([m \in DOMAIN direct |-> <<direct[m]>> \o Printed(direct[m])])

LEMMA ItemBearers ==
  ASSUME NEW i, Refers(i), Explains(i), NEW v, Below(i, v)
  PROVE  Bearers(v)
<1>0. PICK direct : direct = Printed(i)
  OBVIOUS
<1>1. List(direct) /\ ToSet(direct) \subseteq ToSet(i.members)
  BY <1>0, PrintedAreMembers DEF Refers
<1>2. PICK n \in Nat : DOMAIN direct = 1 .. n /\ direct \in [1 .. n -> ToSet(direct)]
  BY <1>1, ListIsListed
<1>3. PICK lists : lists = [m \in 1 .. n |-> <<direct[m]>> \o Printed(direct[m])]
  OBVIOUS
<1>4. ASSUME NEW k \in 1 .. n PROVE Bearers(lists[k])
  <2>1. PICK m : m = direct[k] /\ m \in ToSet(i.members)
    BY <1>1, <1>2
  <2>2. lists[k] = <<m>> \o Printed(m)
    BY <1>3, <2>1
  <2>3. List(m.members) /\ Documented(m) /\ \A x \in ToSet(m.members) : Documented(x)
    BY <2>1 DEF Refers, Explains
  <2> QED
    BY <2>2, <2>3, MemberBearers
<1>5. DOMAIN lists = 1 .. n /\ lists = [k \in 1 .. n |-> lists[k]]
  BY <1>3
<1>6. PICK s : s = FlattenSeq(lists)
  OBVIOUS
<1>7. List(s) /\ ToSet(s) = UNION {ToSet(lists[k]) : k \in 1 .. n}
  BY <1>4, <1>5, <1>6, FlattenHolds DEF Bearers
<1>8. \A x \in ToSet(s) : Documented(x)
  BY <1>4, <1>7 DEF Bearers
<1>9. Ahead(v, i, s)
  BY <1>0, <1>2, <1>3, <1>6, <1>7 DEF Ahead, Below
<1>10. List(v) /\ ToSet(v) = {i} \cup ToSet(s)
  BY <1>9, OneAhead
<1>11. Documented(i)
  BY DEF Explains
<1> QED
  BY <1>8, <1>10, <1>11 DEF Bearers

LEMMA FileBearers ==
  ASSUME NEW items, List(items), \A i \in ToSet(items) : WellFormed(i)
  PROVE  Bearers(Commented(OfKind(items, Declared)))
<1>1. PICK shown : shown = OfKind(items, Declared)
  OBVIOUS
<1>2. Keeps(shown, items, Declared)
  BY <1>1 DEF Keeps
<1>3. List(shown) /\ ToSet(shown) \subseteq ToSet(items)
  BY <1>2, OfKindKeeps DEF Kept
<1>4. PICK n \in Nat : DOMAIN shown = 1 .. n /\ shown \in [1 .. n -> ToSet(shown)]
  BY <1>3, ListIsListed
<1>5. PICK lists : lists = [k \in 1 .. n |->
         LET direct == Printed(shown[k]) IN
         <<shown[k]>> \o FlattenSeq([m \in DOMAIN direct |-> <<direct[m]>> \o Printed(direct[m])])]
  OBVIOUS
<1>6. ASSUME NEW k \in 1 .. n PROVE Bearers(lists[k])
  <2>1. PICK i : i = shown[k] /\ Refers(i) /\ Explains(i)
    BY <1>3, <1>4 DEF WellFormed
  <2>2. Below(i, lists[k])
    BY <1>5, <2>1 DEF Below
  <2> QED
    BY <2>1, <2>2, ItemBearers
<1>7. DOMAIN lists = 1 .. n /\ lists = [k \in 1 .. n |-> lists[k]]
  BY <1>5
<1>8. PICK v : v = FlattenSeq(lists)
  OBVIOUS
<1>9. List(v) /\ ToSet(v) = UNION {ToSet(lists[k]) : k \in 1 .. n}
  BY <1>6, <1>7, <1>8, FlattenHolds DEF Bearers
<1>10. \A x \in ToSet(v) : Documented(x)
  BY <1>6, <1>9 DEF Bearers
<1>11. v = Commented(shown)
  BY <1>4, <1>5, <1>8 DEF Commented
<1> QED
  BY <1>1, <1>9, <1>10, <1>11 DEF Bearers

\* The comment a declaration is printed with says every word its author wrote
\* that has a plain text, once and in the order of the parts, and its blank
\* lines only separate (formatJSDoc and extractPlainText).
THEOREM CommentsSayWhatIsWritten == Spec => []CommentsSayTheDoc
<1>1. ASSUME PassInv, FilesInv PROVE CommentsSayTheDoc
  <2> SUFFICES ASSUME NEW f \in DOMAIN files,
                      NEW bearers, bearers = Commented(OfKind(site.entries[f].items, Declared)),
                      NEW n \in DOMAIN bearers,
                      NEW lines, lines = files[f].comments[n]
               PROVE  /\ FlattenSeq([k \in DOMAIN lines |-> lines[k].says]) = Written(bearers[n].doc)
                      /\ \A k \in {j \in DOMAIN lines : lines[j] = Blank} :
                           k \notin {1, Len(lines)} /\ k + 1 \notin {j \in DOMAIN lines : lines[j] = Blank}
    BY DEF CommentsSayTheDoc
  <2>1. phase \in {"declaring", "rendering", "reported"}
    <3>1. phase \in {"modelled", "failed"} => DOMAIN files = {}
      BY <1>1 DEF FilesInv
    <3>2. phase \in {"modelled", "declaring", "rendering", "reported", "failed"}
      BY <1>1 DEF PassInv, TypeInv, Phases
    <3> QED
      BY <3>1, <3>2
  <2>2. /\ site \in Sites /\ f \in DOMAIN site.entries
        /\ files[f].comments = Body(site.entries[f].items).comments
    BY <1>1, <2>1 DEF PassInv, TypeInv, FilesInv
  <2>3. PICK items : items = site.entries[f].items
    OBVIOUS
  <2>4. List(items) /\ \A i \in ToSet(items) : WellFormed(i)
    BY <2>2, <2>3, EntryRefsListed
  <2>5. Bearers(bearers)
    BY <2>3, <2>4, FileBearers
  <2>6. PICK doc : doc = bearers[n].doc
    OBVIOUS
  <2>7. Documents(doc)
    <3>1. Documented(bearers[n])
      BY <2>5 DEF Bearers, ToSet
    <3> QED
      BY <2>6, <3>1 DEF Documented, Documents
  <2>8. lines = Comment(doc)
    <3>1. Body(items).comments = [k \in DOMAIN bearers |-> Comment(bearers[k].doc)]
      BY <2>3 DEF Body
    <3> QED
      BY <2>2, <2>3, <2>6, <3>1
  <2>9. Apart(lines) /\ Spelled(lines) = Written(doc)
    BY <2>7, <2>8, CommentSpeaks
  <2>10. PICK m \in Nat : DOMAIN lines = 1 .. m /\ m = Len(lines)
    BY <2>9, ListIsListed DEF Apart, Readable
  <2>11. ASSUME NEW k \in DOMAIN lines, lines[k] = Blank
         PROVE  k # 1 /\ k # Len(lines) /\ lines[k + 1] # Blank
    BY <2>9, <2>10, <2>11 DEF Apart
  <2> QED
    BY <2>6, <2>9, <2>11 DEF Spelled
<1> QED
  BY <1>1, FilesInvAlways, PTL

================================================================================
