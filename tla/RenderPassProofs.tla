--------------------------- MODULE RenderPassProofs ---------------------------
(***************************************************************************)
(* Theorems about what a render pass reports, for every site and every     *)
(* order in which its pages are rendered.                                  *)
(***************************************************************************)
EXTENDS RenderPass, FoldTheorems

--------------------------------------------------------------------------------
(* Sequences. *)

\* The greatest of the first numbers.
LEMMA LastIsGreatest ==
  ASSUME NEW n \in Nat, NEW s \in SUBSET (1 .. n)
  PROVE  /\ n \in s => Max(s) = n
         /\ s # {} => Max(s) \in s
<1>1. s # {} => Max(s) \in s /\ \A x \in s : x <= Max(s)
  <2>1. PICK S : S = 1 .. n /\ IsFiniteSet(S)
    BY FS_Interval
  <2>2. IsFiniteSet(s) /\ s \in SUBSET Int
    <3>1. s \in SUBSET S
      BY <2>1
    <3>2. IsFiniteSet(s)
      BY <2>1, <3>1, FS_Subset
    <3> QED
      BY <3>2
  <2> QED
    BY <2>2, MaxOfFinite
<1>2. ASSUME n \in s PROVE Max(s) = n
  <2>1. PICK m : m = Max(s)
    OBVIOUS
  <2>2. m \in 1 .. n /\ n <= m
    BY <1>1, <1>2, <2>1
  <2> QED
    BY <2>1, <2>2
<1> QED
  BY <1>1, <1>2

FlattensTo(f, seqs, n) ==
  f = [i \in 1 .. n |-> IF i = 1 THEN seqs[i] ELSE f[i - 1] \o seqs[i]]

\* Sequences are put together one after the other.
LEMMA FlattenExists ==
  ASSUME NEW seqs, NEW n \in Nat
  PROVE  \E f : FlattensTo(f, seqs, n)
<1> DEFINE Bad == {k \in 0 .. n : ~\E f : FlattensTo(f, seqs, k)}
<1>1. SUFFICES ASSUME Bad # {} PROVE FALSE
  OBVIOUS
<1>2. PICK k \in Bad : \A j \in Bad : k <= j
  <2>1. Bad \in SUBSET Nat
    OBVIOUS
  <2> HIDE DEF Bad
  <2> QED
    BY <1>1, <2>1, LeastNumber
<1>3. k \in 0 .. n /\ ~\E f : FlattensTo(f, seqs, k)
  OBVIOUS
<1>4. CASE k = 0
  <2>1. FlattensTo(<<>>, seqs, 0)
    BY DEF FlattensTo
  <2> QED
    BY <1>3, <1>4, <2>1
<1>5. CASE k # 0
  <2>1. k - 1 \in 0 .. n /\ k - 1 \notin Bad
    BY <1>2, <1>3, <1>5
  <2>2. PICK f : FlattensTo(f, seqs, k - 1)
    BY <2>1
  <2>3. \A i \in 1 .. k - 1 : f[i] = IF i = 1 THEN seqs[i] ELSE f[i - 1] \o seqs[i]
    BY <2>2 DEF FlattensTo
  <2> DEFINE g == [i \in 1 .. k |-> IF i = k THEN IF k = 1 THEN seqs[k] ELSE f[k - 1] \o seqs[k] ELSE f[i]]
  <2>4. ASSUME NEW i \in 1 .. k PROVE g[i] = IF i = 1 THEN seqs[i] ELSE g[i - 1] \o seqs[i]
    <3>1. CASE i = k
      BY <1>3, <3>1
    <3>2. CASE i # k
      <4>1. i \in 1 .. k - 1 /\ g[i] = f[i]
        BY <1>3, <3>2
      <4>2. i # 1 => g[i - 1] = f[i - 1]
        BY <1>3, <4>1
      <4> HIDE DEF g
      <4> QED
        BY <2>3, <4>1, <4>2
    <3> QED
      BY <3>1, <3>2
  <2>5. g = [i \in 1 .. k |-> g[i]]
    OBVIOUS
  <2> HIDE DEF g
  <2>6. FlattensTo(g, seqs, k)
    BY <2>4, <2>5 DEF FlattensTo
  <2> QED
    BY <1>3, <2>6
<1> QED
  BY <1>4, <1>5

\* What sequences make together, by steps.
LEMMA FlattenSteps ==
  ASSUME NEW seqs, NEW n \in Nat \ {0}, Len(seqs) = n
  PROVE  \E f : /\ FlattenSeq(seqs) = f[n] /\ f[1] = seqs[1]
                /\ \A i \in 2 .. n : f[i] = f[i - 1] \o seqs[i]
<1> DEFINE chosen == CHOOSE f : FlattensTo(f, seqs, n)
<1>1. FlattensTo(chosen, seqs, n)
  BY FlattenExists
<1>2. FlattenSeq(seqs) = chosen[n]
  BY DEF FlattenSeq, FlattensTo
<1> HIDE DEF chosen
<1>3. \A i \in 1 .. n : chosen[i] = IF i = 1 THEN seqs[i] ELSE chosen[i - 1] \o seqs[i]
  BY <1>1 DEF FlattensTo
<1>4. chosen[1] = seqs[1]
  BY <1>3
<1>5. ASSUME NEW i \in 2 .. n PROVE chosen[i] = chosen[i - 1] \o seqs[i]
  <2>1. i \in 1 .. n /\ i # 1
    OBVIOUS
  <2> QED
    BY <1>3, <2>1
<1> QED
  BY <1>2, <1>4, <1>5

\* Together they have the elements that each of them has.
LEMMA FlattenTyped ==
  ASSUME NEW X, NEW n \in Nat, NEW seqs \in [1 .. n -> Seq(X)]
  PROVE  FlattenSeq(seqs) \in Seq(X)
<1>1. PICK V : V = Seq(X)
  OBVIOUS
<1>2. seqs \in Seq(V) /\ Len(seqs) = n
  BY <1>1
<1>3. CASE n = 0
  <2>1. FlattenSeq(seqs) = seqs
    BY <1>2, <1>3 DEF FlattenSeq
  <2>2. seqs = <<>>
    BY <1>2, <1>3
  <2> QED
    BY <2>1, <2>2
<1>4. CASE n # 0
  <2>1. PICK f : /\ FlattenSeq(seqs) = f[n] /\ f[1] = seqs[1]
                 /\ \A i \in 2 .. n : f[i] = f[i - 1] \o seqs[i]
    <3>1. n \in Nat \ {0}
      BY <1>4
    <3> QED
      BY <1>2, <3>1, FlattenSteps
  <2> DEFINE Bad == {k \in 1 .. n : f[k] \notin Seq(X)}
  <2>2. Bad = {}
    <3> SUFFICES ASSUME Bad # {} PROVE FALSE
      OBVIOUS
    <3>1. Bad \in SUBSET Nat
      OBVIOUS
    <3> HIDE DEF Bad
    <3>2. PICK k \in Bad : \A j \in Bad : k <= j
      BY <3>1, LeastNumber
    <3> USE DEF Bad
    <3>3. k \in 1 .. n /\ f[k] \notin Seq(X)
      OBVIOUS
    <3>4. k # 1
      BY <1>4, <2>1, <3>3
    <3>5. k - 1 \in 1 .. n /\ k \in 2 .. n /\ ~(k <= k - 1)
      BY <3>3, <3>4
    <3>6. f[k - 1] \in Seq(X) /\ seqs[k] \in Seq(X) /\ f[k] = f[k - 1] \o seqs[k]
      BY <2>1, <3>2, <3>5
    <3>7. PICK a, b : a = f[k - 1] /\ b = seqs[k]
      OBVIOUS
    <3>8. a \in Seq(X) /\ b \in Seq(X) /\ f[k] = a \o b
      BY <3>6, <3>7
    <3> QED
      BY <3>3, <3>8
  <2> QED
    BY <1>4, <2>1, <2>2
<1> QED
  BY <1>3, <1>4

\* A finite set in some order.
LEMMA SetInOrder ==
  ASSUME NEW S, IsFiniteSet(S)
  PROVE  \E n \in Nat : /\ SetToSeq(S) \in [1 .. n -> S]
                        /\ \A j, k \in 1 .. n : SetToSeq(S)[j] = SetToSeq(S)[k] => j = k
                        /\ \A x \in S : \E k \in 1 .. n : SetToSeq(S)[k] = x
<1>1. PICK n : n = Cardinality(S)
  OBVIOUS
<1>2. n \in Nat /\ ExistsBijection(1 .. n, S)
  BY <1>1, FS_CardinalityType
<1>3. PICK f : f = SetToSeq(S)
  OBVIOUS
<1>4. f \in [1 .. n -> S] /\ IsInjective(f)
  <2>1. \E g \in [1 .. n -> S] : IsInjective(g)
    BY <1>2 DEF ExistsBijection, Bijection, Injection
  <2> QED
    BY <1>1, <1>3, <2>1 DEF SetToSeq
<1>5. PICK I : I = 1 .. n /\ IsFiniteSet(I) /\ Cardinality(I) = n
  BY <1>2, FS_Interval
<1>6. f \in Injection(I, S)
  BY <1>4, <1>5 DEF Injection
<1>7. f \in Surjection(I, S)
  BY <1>1, <1>5, <1>6, FS_Injection
<1>8. \A j, k \in 1 .. n : f[j] = f[k] => j = k
  BY <1>4 DEF IsInjective
<1>9. \A x \in S : \E k \in 1 .. n : f[k] = x
  BY <1>5, <1>7 DEF Surjection
<1> QED
  BY <1>2, <1>3, <1>4, <1>8, <1>9

--------------------------------------------------------------------------------
(* Events, one after the other. *)

EmitsTo(g, s, ev, n) ==
  g = [T \in SUBSET (1 .. n) |-> IF T = {} THEN s ELSE Emit(g[T \ {Max(T)}], ev[Max(T)])]

\* Any number of events can be emitted.
LEMMA EmitExists ==
  ASSUME NEW s, NEW ev, NEW n \in Nat
  PROVE  \E g : EmitsTo(g, s, ev, n)
<1> DEFINE Bad == {k \in 0 .. n : ~\E g : EmitsTo(g, s, ev, k)}
<1>1. SUFFICES ASSUME Bad # {} PROVE FALSE
  OBVIOUS
<1>2. PICK k \in Bad : \A j \in Bad : k <= j
  <2>1. Bad \in SUBSET Nat
    OBVIOUS
  <2> HIDE DEF Bad
  <2> QED
    BY <1>1, <2>1, LeastNumber
<1>3. k \in 0 .. n /\ ~\E g : EmitsTo(g, s, ev, k)
  OBVIOUS
<1>4. CASE k = 0
  <2> DEFINE g == [T \in SUBSET (1 .. 0) |-> s]
  <2>1. \A T \in SUBSET (1 .. 0) : T = {}
    OBVIOUS
  <2>2. EmitsTo(g, s, ev, 0)
    BY <2>1 DEF EmitsTo
  <2> QED
    BY <1>3, <1>4, <2>2
<1>5. CASE k # 0
  <2>1. k - 1 \in 0 .. n /\ k - 1 \notin Bad
    BY <1>2, <1>3, <1>5
  <2>2. PICK f : EmitsTo(f, s, ev, k - 1)
    BY <2>1
  <2>3. \A T \in SUBSET (1 .. k - 1) :
          f[T] = IF T = {} THEN s ELSE Emit(f[T \ {Max(T)}], ev[Max(T)])
    BY <2>2 DEF EmitsTo
  <2> DEFINE g == [T \in SUBSET (1 .. k) |-> IF k \in T THEN Emit(f[T \ {k}], ev[k]) ELSE f[T]]
  <2>4. ASSUME NEW T \in SUBSET (1 .. k)
        PROVE  g[T] = IF T = {} THEN s ELSE Emit(g[T \ {Max(T)}], ev[Max(T)])
    <3>1. k \in Nat
      BY <1>3
    <3>2. CASE k \in T
      <4>1. Max(T) = k
        BY <3>1, <3>2, LastIsGreatest
      <4>2. T \ {k} \in SUBSET (1 .. k) /\ g[T \ {k}] = f[T \ {k}]
        OBVIOUS
      <4>3. g[T] = Emit(f[T \ {k}], ev[k])
        BY <3>2
      <4> HIDE DEF g
      <4> QED
        BY <3>2, <4>1, <4>2, <4>3
    <3>3. CASE k \notin T
      <4>1. T \in SUBSET (1 .. k - 1) /\ g[T] = f[T]
        BY <3>1, <3>3
      <4>2. T \ {Max(T)} \in SUBSET (1 .. k) /\ g[T \ {Max(T)}] = f[T \ {Max(T)}]
        BY <3>3
      <4> HIDE DEF g
      <4> QED
        BY <2>3, <4>1, <4>2
    <3> QED
      BY <3>2, <3>3
  <2>5. g = [T \in SUBSET (1 .. k) |-> g[T]]
    OBVIOUS
  <2> HIDE DEF g
  <2>6. EmitsTo(g, s, ev, k)
    BY <2>4, <2>5 DEF EmitsTo
  <2> QED
    BY <1>3, <2>6
<1> QED
  BY <1>4, <1>5

EmitsBySteps(h, s, ev, n) ==
  h[0] = s /\ h[n] = EmitAll(s, ev) /\ \A k \in 1 .. n : h[k] = Emit(h[k - 1], ev[k])

\* What sinks hold after some events, by steps.
LEMMA EmitSteps ==
  ASSUME NEW s, NEW ev, NEW n \in Nat, DOMAIN ev = 1 .. n
  PROVE  \E h : EmitsBySteps(h, s, ev, n)
<1> DEFINE chosen == CHOOSE g : EmitsTo(g, s, ev, n)
<1>1. EmitsTo(chosen, s, ev, n)
  BY EmitExists
<1>2. EmitAll(s, ev) = chosen[1 .. n]
  BY DEF EmitAll, FoldLeft, MapThenFoldSet, EmitsTo
<1> HIDE DEF chosen
<1>3. \A T \in SUBSET (1 .. n) : chosen[T] = IF T = {} THEN s ELSE Emit(chosen[T \ {Max(T)}], ev[Max(T)])
  BY <1>1 DEF EmitsTo
<1> DEFINE h == [k \in 0 .. n |-> chosen[1 .. k]]
<1>4. h[0] = s /\ h[n] = EmitAll(s, ev)
  <2>1. 1 .. 0 = {} /\ {} \in SUBSET (1 .. n) /\ 0 \in 0 .. n /\ n \in 0 .. n
    OBVIOUS
  <2>2. chosen[{}] = s
    BY <1>3, <2>1
  <2>3. h[0] = chosen[1 .. 0] /\ h[n] = chosen[1 .. n]
    BY <2>1
  <2> QED
    BY <1>2, <2>1, <2>2, <2>3
<1>5. ASSUME NEW k \in 1 .. n PROVE h[k] = Emit(h[k - 1], ev[k])
  <2>1. /\ 1 .. k \in SUBSET (1 .. n) /\ 1 .. k # {} /\ k \in 1 .. k
        /\ (1 .. k) \ {k} = 1 .. k - 1
    OBVIOUS
  <2>2. Max(1 .. k) = k
    <3>1. k \in Nat /\ 1 .. k \in SUBSET (1 .. k)
      OBVIOUS
    <3> QED
      BY <2>1, <3>1, LastIsGreatest
  <2>3. h[k] = chosen[1 .. k] /\ h[k - 1] = chosen[1 .. k - 1]
    OBVIOUS
  <2> HIDE DEF h
  <2> QED
    BY <1>3, <2>1, <2>2, <2>3
<1> HIDE DEF h
<1> QED
  BY <1>4, <1>5 DEF EmitsBySteps

--------------------------------------------------------------------------------
(* What the sinks hold of the errors in blocks. *)

Levels   == {"error", "warn", "info", "debug", "trace"}
Twoslash == {"TwoslashDiagnostic", "TwoslashCheckFailed"}
Tags     == Twoslash \cup Errors \cup {"PrettierError", "CodeBlockProcessed", "VfsGenerated", "ImportsPrepended"}

\* The counter of a tag that the summary has.
Summed == {"TwoslashDiagnostic", "PrettierError"}
Counter(tag) == <<IF tag = "PrettierError" THEN "prettier.errors" ELSE "twoslash.errors", Untagged>>

\* The blocks an issue was raised for.
Told(s, tag) == {i.block : i \in {j \in s.issues : j.tag = tag}}

\* Each of these counters has counted the blocks told of, once.
Accounted(s) ==
  \A tag \in Summed : IsFiniteSet(Told(s, tag)) /\ Read(s.metrics, Counter(tag)) = Cardinality(Told(s, tag))

\* Every sink but the console takes every event.
LEMMA AllAdmitted == \A level \in Levels : Admits("trace", level)
<1> DEFINE order == <<"error", "warn", "info", "debug", "trace">>
           rank(l) == CHOOSE n \in 1 .. 5 : order[n] = l
<1>1. \A level \in Levels : \E n \in 1 .. 5 : order[n] = level
  BY DEF Levels
<1>2. \A n \in 1 .. 5 : order[n] = "trace" => n = 5
  OBVIOUS
<1>3. rank("trace") = 5
  BY <1>1, <1>2 DEF Levels
<1>4. \A level \in Levels : rank(level) \in 1 .. 5
  BY <1>1
<1>5. \A level \in Levels : rank(level) <= rank("trace")
  <2> HIDE DEF rank
  <2> QED
    BY <1>3, <1>4
<1> QED
  BY <1>5 DEF Admits

\* What one event adds.
LEMMA EmitAdds ==
  ASSUME NEW s, NEW e, e.level \in Levels, e.tag \in Tags
  PROVE  /\ Emit(s, e).issues = s.issues \cup Issues(e)
         /\ Emit(s, e).metrics = Counted(s.metrics, e)
BY AllAdmitted DEF Emit

\* The issue an event raises.
LEMMA IssueOf ==
  ASSUME NEW e, e.tag \in Tags
  PROVE  /\ \A i \in Issues(e) : i.tag = e.tag /\ i.file = e.file /\ i.block = e.block
         /\ e.tag \in Twoslash \cup {"PrettierError"} => Issues(e) # {}
<1> DEFINE bucket == IF e.tag \in Errors THEN "errors" ELSE "warnings"
           issue  == [tag |-> e.tag, bucket |-> bucket, file |-> e.file, block |-> e.block]
<1>1. Issues(e) = IF e.tag \notin Warnings \cup Errors THEN {} ELSE {issue}
  BY DEF Issues
<1> HIDE DEF bucket
<1>2. issue.tag = e.tag /\ issue.file = e.file /\ issue.block = e.block
  OBVIOUS
<1> HIDE DEF issue
<1>3. e.tag \in Twoslash \cup {"PrettierError"} => e.tag \in Warnings \cup Errors
  BY DEF Twoslash, Warnings
<1> QED
  BY <1>1, <1>2, <1>3

\* What an event adds to the counters.
LEMMA CounterAdds ==
  ASSUME NEW e, e.tag \in Tags, NEW tag \in Summed
  PROVE  Read(Increments(e), Counter(tag)) = IF e.tag = tag THEN 1 ELSE 0
<1>1. CASE e.tag = "CodeBlockProcessed"
  <2>1. \A key \in DOMAIN Increments(e) : key[1] \in Fields
    BY <1>1 DEF Increments, Measured
  <2>2. Counter(tag)[1] \notin Fields
    BY DEF Counter, Fields
  <2> QED
    BY <1>1, <2>1, <2>2 DEF Read, Summed
<1>2. CASE e.tag = "TwoslashDiagnostic"
  BY <1>2 DEF Increments, Once, Twice, Read, Counter, Summed, Untagged
<1>3. CASE e.tag = "PrettierError"
  BY <1>3 DEF Increments, Once, Twice, Read, Counter, Summed, Untagged
<1>4. CASE e.tag = "ImportsPrepended"
  BY <1>4 DEF Increments, Once, Twice, Read, Counter, Summed, Untagged
<1>5. CASE e.tag = "VfsGenerated"
  BY <1>5 DEF Increments, Once, Twice, Read, Counter, Summed, Untagged
<1>6. CASE e.tag \in Errors \cup {"TwoslashCheckFailed"}
  BY <1>6 DEF Increments, Errors, Read, Counter, Summed
<1> QED
  BY <1>1, <1>2, <1>3, <1>4, <1>5, <1>6 DEF Tags, Twoslash

\* Whom an event is told of.
LEMMA EmitTells ==
  ASSUME NEW s, NEW e, e.level \in Levels, e.tag \in Tags,
         NEW tag \in Twoslash \cup {"PrettierError"}
  PROVE  Told(Emit(s, e), tag) = Told(s, tag) \cup IF e.tag = tag THEN {e.block} ELSE {}
<1>1. Emit(s, e).issues = s.issues \cup Issues(e)
  BY EmitAdds
<1>2. \A i \in Issues(e) : i.tag = e.tag /\ i.block = e.block
  BY IssueOf
<1>3. e.tag = tag => Issues(e) # {}
  BY IssueOf
<1> QED
  BY <1>1, <1>2, <1>3 DEF Told

\* An event about a block that was not told of is counted.
LEMMA EmitCounts ==
  ASSUME NEW s, NEW e, e.level \in Levels, e.tag \in Tags, Accounted(s),
         e.tag \in Summed => e.block \notin Told(s, e.tag)
  PROVE  Accounted(Emit(s, e))
<1> SUFFICES ASSUME NEW tag \in Summed
             PROVE  /\ IsFiniteSet(Told(Emit(s, e), tag))
                    /\ Read(Emit(s, e).metrics, Counter(tag)) = Cardinality(Told(Emit(s, e), tag))
  BY DEF Accounted
<1>1. PICK old, new, key, before, more :
         /\ old = Told(s, tag) /\ new = Told(Emit(s, e), tag) /\ key = Counter(tag)
         /\ before = s.metrics /\ more = Increments(e)
  OBVIOUS
<1>2. IsFiniteSet(old) /\ Read(before, key) = Cardinality(old)
  BY <1>1 DEF Accounted
<1>3. new = old \cup IF e.tag = tag THEN {e.block} ELSE {}
  BY <1>1, EmitTells DEF Summed, Twoslash
<1>4. Read(more, key) = IF e.tag = tag THEN 1 ELSE 0
  BY <1>1, CounterAdds
<1>5. Cardinality(old) \in Nat
  BY <1>2, FS_CardinalityType
<1>6. PICK after : after = [k \in DOMAIN before \cup DOMAIN more |-> Read(before, k) + Read(more, k)]
  OBVIOUS
<1>7. Read(after, key) = Read(before, key) + Read(more, key)
  <2>1. CASE key \in DOMAIN after
    BY <1>6, <2>1 DEF Read
  <2>2. CASE key \notin DOMAIN after
    <3>1. key \notin DOMAIN before /\ key \notin DOMAIN more
      BY <1>6, <2>2
    <3> QED
      BY <2>2, <3>1 DEF Read
  <2> QED
    BY <2>1, <2>2
<1>8. Emit(s, e).metrics = after
  BY <1>1, <1>6, EmitAdds DEF Counted
<1>9. CASE e.tag = tag
  <2>1. e.block \notin old
    BY <1>1, <1>9
  <2>2. IsFiniteSet(old \cup {e.block}) /\ Cardinality(old \cup {e.block}) = Cardinality(old) + 1
    BY <1>2, <2>1, FS_AddElement
  <2> QED
    BY <1>1, <1>2, <1>3, <1>4, <1>5, <1>7, <1>8, <1>9, <2>2
<1>10. CASE e.tag # tag
  <2>1. new = old
    BY <1>3, <1>10
  <2> QED
    BY <1>1, <1>2, <1>4, <1>5, <1>7, <1>8, <1>10, <2>1
<1> QED
  BY <1>9, <1>10

\* The blocks that events of a tag are about, the first n of them.
Tells(ev, tag, n) == {ev[k].block : k \in {j \in 1 .. n : ev[j].tag = tag}}

\* No two of them are about one block.
Singly(ev, tag, n) ==
  \A j, k \in 1 .. n : ev[j].tag = tag /\ ev[k].tag = tag /\ ev[j].block = ev[k].block => j = k

\* n events that a pass may emit.
Sound(ev, n) == DOMAIN ev = 1 .. n /\ \A k \in 1 .. n : ev[k].level \in Levels /\ ev[k].tag \in Tags

\* What events add, one after the other.
LEMMA EmitAllTells ==
  ASSUME NEW s, NEW ev, NEW n \in Nat, Sound(ev, n)
  PROVE  /\ \A tag \in Twoslash \cup {"PrettierError"} :
              Told(EmitAll(s, ev), tag) = Told(s, tag) \cup Tells(ev, tag, n)
         /\ \A i \in EmitAll(s, ev).issues :
              \/ i \in s.issues
              \/ \E k \in 1 .. n : i.tag = ev[k].tag /\ i.file = ev[k].file /\ i.block = ev[k].block
         /\ Accounted(s) /\ (\A tag \in Summed : Singly(ev, tag, n) /\ Tells(ev, tag, n) \cap Told(s, tag) = {})
              => Accounted(EmitAll(s, ev))
<1>1. PICK h : h[0] = s /\ h[n] = EmitAll(s, ev) /\ \A k \in 1 .. n : h[k] = Emit(h[k - 1], ev[k])
  <2>1. DOMAIN ev = 1 .. n
    BY DEF Sound
  <2>2. \E h : EmitsBySteps(h, s, ev, n)
    BY <2>1, EmitSteps
  <2> QED
    BY <2>2 DEF EmitsBySteps
<1> DEFINE Apart == Accounted(s) /\ \A tag \in Summed : Singly(ev, tag, n) /\ Tells(ev, tag, n) \cap Told(s, tag) = {}
           Tell(k)  == \A tag \in Twoslash \cup {"PrettierError"} : Told(h[k], tag) = Told(s, tag) \cup Tells(ev, tag, k)
           Raise(k) == \A i \in h[k].issues :
                         \/ i \in s.issues
                         \/ \E j \in 1 .. n : i.tag = ev[j].tag /\ i.file = ev[j].file /\ i.block = ev[j].block
           Good(k) == Tell(k) /\ Raise(k) /\ (Apart => Accounted(h[k]))
           Bad     == {k \in 0 .. n : ~Good(k)}
<1>2. Good(0)
  <2>1. \A tag : Tells(ev, tag, 0) = {}
    BY DEF Tells
  <2> QED
    BY <1>1, <2>1
<1>3. ASSUME NEW k \in 1 .. n, Good(k - 1) PROVE Good(k)
  <2>1. PICK before, e : before = h[k - 1] /\ e = ev[k]
    OBVIOUS
  <2>2. h[k] = Emit(before, e) /\ e.level \in Levels /\ e.tag \in Tags
    BY <1>1, <2>1 DEF Sound
  <2>3. ASSUME NEW tag PROVE Tells(ev, tag, k) = Tells(ev, tag, k - 1) \cup IF e.tag = tag THEN {e.block} ELSE {}
    BY <2>1 DEF Tells
  <2>4. Tell(k)
    <3> SUFFICES ASSUME NEW tag \in Twoslash \cup {"PrettierError"}
                 PROVE  Told(h[k], tag) = Told(s, tag) \cup Tells(ev, tag, k)
      OBVIOUS
    <3>1. Told(before, tag) = Told(s, tag) \cup Tells(ev, tag, k - 1)
      BY <1>3, <2>1
    <3>2. Told(Emit(before, e), tag) = Told(before, tag) \cup IF e.tag = tag THEN {e.block} ELSE {}
      BY <2>2, EmitTells
    <3> QED
      BY <2>2, <2>3, <3>1, <3>2
  <2>5. Raise(k)
    <3> SUFFICES ASSUME NEW i \in h[k].issues, i \notin s.issues
                 PROVE  \E j \in 1 .. n : i.tag = ev[j].tag /\ i.file = ev[j].file /\ i.block = ev[j].block
      OBVIOUS
    <3>1. i \in before.issues \/ i \in Issues(e)
      BY <2>2, EmitAdds
    <3>2. CASE i \in before.issues
      BY <1>3, <2>1, <3>2
    <3>3. CASE i \in Issues(e)
      <4>1. i.tag = e.tag /\ i.file = e.file /\ i.block = e.block
        BY <2>2, <3>3, IssueOf
      <4> QED
        BY <2>1, <4>1
    <3> QED
      BY <3>1, <3>2, <3>3
  <2>6. ASSUME Apart PROVE Accounted(h[k])
    <3>1. Accounted(before)
      BY <1>3, <2>1, <2>6
    <3>2. ASSUME e.tag \in Summed PROVE e.block \notin Told(before, e.tag)
      <4>1. PICK tag : tag = e.tag /\ tag \in Summed
        BY <3>2
      <4>2. Told(before, tag) = Told(s, tag) \cup Tells(ev, tag, k - 1)
        BY <1>3, <2>1, <4>1 DEF Summed, Twoslash
      <4>3. e.block \in Tells(ev, tag, n)
        BY <2>1, <4>1 DEF Tells
      <4>4. e.block \notin Tells(ev, tag, k - 1)
        <5> SUFFICES ASSUME NEW j \in 1 .. k - 1, ev[j].tag = tag, ev[j].block = e.block PROVE FALSE
          BY DEF Tells
        <5>1. j \in 1 .. n /\ j # k
          OBVIOUS
        <5> QED
          BY <2>1, <2>6, <4>1, <5>1 DEF Singly
      <4> QED
        BY <2>6, <4>1, <4>2, <4>3, <4>4
    <3> QED
      BY <2>2, <3>1, <3>2, EmitCounts
  <2> QED
    BY <2>4, <2>5, <2>6
<1> HIDE DEF Good
<1>4. Bad = {}
  <2> SUFFICES ASSUME Bad # {} PROVE FALSE
    OBVIOUS
  <2>1. Bad \in SUBSET Nat
    OBVIOUS
  <2> HIDE DEF Bad
  <2>2. PICK k \in Bad : \A j \in Bad : k <= j
    BY <2>1, LeastNumber
  <2> USE DEF Bad
  <2>3. k \in 0 .. n /\ ~Good(k)
    OBVIOUS
  <2>4. k # 0
    BY <1>2, <2>3
  <2>5. k - 1 \in 0 .. n /\ ~(k <= k - 1) /\ k \in 1 .. n
    BY <2>3, <2>4
  <2>6. Good(k - 1)
    BY <2>2, <2>5
  <2> QED
    BY <1>3, <2>3, <2>5, <2>6
<1>5. Good(n)
  BY <1>4
<1> QED
  BY <1>1, <1>5 DEF Good

--------------------------------------------------------------------------------
(* The events of a page, and those of the declaration files. *)

\* The errors in the blocks among F of a page, in the order of its n blocks.
PageErrors(p, F, n) == FlattenSeq([k \in 1 .. n |-> IF k \in F THEN Diagnosed(<<p, k>>, p) ELSE <<>>])

DiagnosesOf(p, n) ==
  {Event("TwoslashDiagnostic", "warn", <<p, k>>, p) : k \in 1 .. n}
    \cup {Event("TwoslashCheckFailed", "trace", <<p, k>>, p) : k \in 1 .. n}

\* Events that tell of every block among the first k of F once.
TellsOnce(e, p, F, k) ==
  \A tag \in Twoslash : Singly(e, tag, Len(e)) /\ Tells(e, tag, Len(e)) = {<<p, j>> : j \in F \cap (1 .. k)}

\* The diagnoses of one more block.
LEMMA OneMore ==
  ASSUME NEW p, NEW n \in Nat, NEW F \in SUBSET (1 .. n), NEW k \in 1 .. n,
         NEW e \in Seq(DiagnosesOf(p, n)), TellsOnce(e, p, F, k - 1),
         NEW d, d = IF k \in F THEN Diagnosed(<<p, k>>, p) ELSE <<>>
  PROVE  e \o d \in Seq(DiagnosesOf(p, n)) /\ TellsOnce(e \o d, p, F, k)
<1>1. PICK T, len : T = DiagnosesOf(p, n) /\ len = Len(e)
  OBVIOUS
<1>2. e \in Seq(T) /\ len \in Nat /\ DOMAIN e = 1 .. len
  BY <1>1
<1>3. CASE k \notin F
  <2>1. d = <<>> /\ e \o d = e /\ F \cap (1 .. k) = F \cap (1 .. (k - 1))
    BY <1>2, <1>3
  <2> QED
    BY <2>1 DEF TellsOnce
<1>4. CASE k \in F
  <2>1. PICK a, b : /\ a = Event("TwoslashDiagnostic", "warn", <<p, k>>, p)
                    /\ b = Event("TwoslashCheckFailed", "trace", <<p, k>>, p)
    OBVIOUS
  <2>2. d = <<a, b>> /\ a \in T /\ b \in T
    BY <1>1, <1>4, <2>1 DEF Diagnosed, DiagnosesOf
  <2>3. PICK g : g = e \o d
    OBVIOUS
  <2>4. /\ g \in Seq(T) /\ Len(g) = len + 2
        /\ \A j \in 1 .. len : g[j] = e[j]
        /\ g[len + 1] = a /\ g[len + 2] = b
    BY <1>1, <1>2, <2>2, <2>3
  <2>5. /\ a.tag = "TwoslashDiagnostic" /\ a.block = <<p, k>>
        /\ b.tag = "TwoslashCheckFailed" /\ b.block = <<p, k>>
    BY <2>1 DEF Event
  <2>6. ASSUME NEW tag \in Twoslash
        PROVE  Singly(g, tag, Len(g)) /\ Tells(g, tag, Len(g)) = {<<p, j>> : j \in F \cap (1 .. k)}
    <3>1. PICK x : x \in {len + 1, len + 2} /\ g[x].tag = tag /\ g[x].block = <<p, k>>
                   /\ \A j \in {len + 1, len + 2} : g[j].tag = tag => j = x
      BY <2>4, <2>5, <2>6, <1>2 DEF Twoslash
    <3>2. Singly(e, tag, len) /\ Tells(e, tag, len) = {<<p, j>> : j \in F \cap (1 .. (k - 1))}
      BY <1>1, <2>6 DEF TellsOnce
    <3>3. \A j \in 1 .. Len(g) : j \in 1 .. len \/ j \in {len + 1, len + 2}
      BY <1>2, <2>4
    <3>4. x \in 1 .. Len(g) /\ 1 .. len \subseteq 1 .. Len(g)
      BY <1>2, <2>4, <3>1
    <3>5. Tells(g, tag, Len(g)) = Tells(e, tag, len) \cup {<<p, k>>}
      BY <2>4, <3>1, <3>3, <3>4 DEF Tells
    <3>6. \A j \in 1 .. len : e[j].tag = tag => e[j].block # <<p, k>>
      <4>1. <<p, k>> \notin {<<p, j>> : j \in F \cap (1 .. (k - 1))}
        OBVIOUS
      <4> QED
        BY <3>2, <4>1 DEF Tells
    <3>7. Singly(g, tag, Len(g))
      <4> SUFFICES ASSUME NEW i \in 1 .. Len(g), NEW j \in 1 .. Len(g),
                          g[i].tag = tag, g[j].tag = tag, g[i].block = g[j].block
                   PROVE  i = j
        BY DEF Singly
      <4>1. ASSUME NEW y \in 1 .. Len(g), g[y].tag = tag
            PROVE  y = x \/ (y \in 1 .. len /\ e[y] = g[y] /\ g[y].block # <<p, k>>)
        BY <2>4, <3>1, <3>3, <3>6, <4>1
      <4>2. (i = x \/ (i \in 1 .. len /\ e[i] = g[i] /\ g[i].block # <<p, k>>))
            /\ (j = x \/ (j \in 1 .. len /\ e[j] = g[j] /\ g[j].block # <<p, k>>))
        BY <4>1
      <4>3. CASE i = x \/ j = x
        BY <3>1, <4>2, <4>3
      <4>4. CASE i # x /\ j # x
        BY <3>2, <4>2, <4>4 DEF Singly
      <4> QED
        BY <4>3, <4>4
    <3>8. F \cap (1 .. k) = (F \cap (1 .. (k - 1))) \cup {k}
      BY <1>4
    <3> QED
      BY <3>2, <3>5, <3>7, <3>8
  <2> QED
    BY <1>1, <2>3, <2>4, <2>6 DEF TellsOnce
<1> QED
  BY <1>3, <1>4

\* Every error of a page is told of once, for that page.
LEMMA PageErrorsTell ==
  ASSUME NEW p, NEW n \in Nat, NEW F \in SUBSET (1 .. n)
  PROVE  PageErrors(p, F, n) \in Seq(DiagnosesOf(p, n)) /\ TellsOnce(PageErrors(p, F, n), p, F, n)
<1> DEFINE seqs == [k \in 1 .. n |-> IF k \in F THEN Diagnosed(<<p, k>>, p) ELSE <<>>]
<1>1. PICK S : S = seqs
  OBVIOUS
<1>2. PageErrors(p, F, n) = FlattenSeq(S) /\ Len(S) = n
  BY <1>1 DEF PageErrors
<1>3. \A k \in 1 .. n : S[k] = IF k \in F THEN Diagnosed(<<p, k>>, p) ELSE <<>>
  BY <1>1
<1>4. <<>> \in Seq(DiagnosesOf(p, n)) /\ TellsOnce(<<>>, p, F, 0)
  BY DEF TellsOnce, Singly, Tells
<1>5. CASE n = 0
  <2>1. FlattenSeq(S) = <<>>
    BY <1>1, <1>5 DEF FlattenSeq
  <2> QED
    BY <1>2, <1>4, <1>5, <2>1
<1>6. CASE n # 0
  <2>1. n \in Nat \ {0}
    BY <1>6
  <2>2. PICK f : /\ FlattenSeq(S) = f[n] /\ f[1] = S[1]
                 /\ \A i \in 2 .. n : f[i] = f[i - 1] \o S[i]
    BY <1>2, <2>1, FlattenSteps
  <2> DEFINE Good(k) == f[k] \in Seq(DiagnosesOf(p, n)) /\ TellsOnce(f[k], p, F, k)
             Bad     == {k \in 1 .. n : ~Good(k)}
  <2>3. Good(1)
    <3>1. PICK d : d = S[1]
      OBVIOUS
    <3>2. 1 \in 1 .. n /\ d = IF 1 \in F THEN Diagnosed(<<p, 1>>, p) ELSE <<>>
      BY <1>3, <2>1, <3>1
    <3>3. PICK e : e = <<>>
      OBVIOUS
    <3>4. e \in Seq(DiagnosesOf(p, n)) /\ TellsOnce(e, p, F, 1 - 1)
      BY <1>4, <3>3
    <3>5. e \o d \in Seq(DiagnosesOf(p, n)) /\ TellsOnce(e \o d, p, F, 1)
      BY <3>2, <3>4, OneMore
    <3>6. e \o d = d
      <4>1. d \in Seq(DiagnosesOf(p, n))
        <5>1. PICK a, b : /\ a = Event("TwoslashDiagnostic", "warn", <<p, 1>>, p)
                          /\ b = Event("TwoslashCheckFailed", "trace", <<p, 1>>, p)
          OBVIOUS
        <5>2. PICK T : T = DiagnosesOf(p, n)
          OBVIOUS
        <5>3. a \in T /\ b \in T
          BY <3>2, <5>1, <5>2 DEF DiagnosesOf
        <5>4. d = <<a, b>> \/ d = <<>>
          BY <3>2, <5>1 DEF Diagnosed
        <5>5. <<a, b>> \in Seq(T)
          BY <5>3
        <5>6. <<>> \in Seq(T)
          OBVIOUS
        <5>7. d \in Seq(T)
          BY <5>4, <5>5, <5>6
        <5> QED
          BY <5>2, <5>7
      <4> QED
        BY <3>3, <4>1
    <3> QED
      BY <2>2, <3>1, <3>5, <3>6
  <2>4. ASSUME NEW k \in 2 .. n, Good(k - 1) PROVE Good(k)
    <3>1. PICK e, d : e = f[k - 1] /\ d = S[k]
      OBVIOUS
    <3>2. k \in 1 .. n /\ d = IF k \in F THEN Diagnosed(<<p, k>>, p) ELSE <<>>
      BY <1>3, <3>1
    <3>3. e \in Seq(DiagnosesOf(p, n)) /\ TellsOnce(e, p, F, k - 1)
      BY <2>4, <3>1
    <3>4. e \o d \in Seq(DiagnosesOf(p, n)) /\ TellsOnce(e \o d, p, F, k)
      BY <3>2, <3>3, OneMore
    <3> QED
      BY <2>2, <3>1, <3>4
  <2> HIDE DEF Good
  <2>5. Bad = {}
    <3> SUFFICES ASSUME Bad # {} PROVE FALSE
      OBVIOUS
    <3>1. Bad \in SUBSET Nat
      OBVIOUS
    <3> HIDE DEF Bad
    <3>2. PICK k \in Bad : \A j \in Bad : k <= j
      BY <3>1, LeastNumber
    <3> USE DEF Bad
    <3>3. k \in 1 .. n /\ ~Good(k)
      OBVIOUS
    <3>4. k # 1
      BY <2>3, <3>3
    <3>5. k \in 2 .. n /\ k - 1 \in 1 .. n /\ ~(k <= k - 1)
      BY <3>3, <3>4
    <3>6. Good(k - 1)
      BY <3>2, <3>5
    <3> QED
      BY <2>4, <3>3, <3>5, <3>6
  <2>6. Good(n)
    BY <2>1, <2>5
  <2> QED
    BY <1>2, <2>2, <2>6 DEF Good
<1> QED
  BY <1>5, <1>6

\* They are events that a pass may emit, and nothing but type errors of the page.
LEMMA PageErrorsSound ==
  ASSUME NEW p, NEW n \in Nat, NEW e \in Seq(DiagnosesOf(p, n))
  PROVE  /\ Len(e) \in Nat /\ Sound(e, Len(e))
         /\ \A k \in 1 .. Len(e) : e[k].tag \in Twoslash /\ e[k].file = p /\ e[k].block[1] = p
<1>1. ASSUME NEW d \in DiagnosesOf(p, n)
      PROVE  d.level \in Levels /\ d.tag \in Tags /\ d.tag \in Twoslash /\ d.file = p /\ d.block[1] = p
  <2>1. PICK k : d = Event("TwoslashDiagnostic", "warn", <<p, k>>, p) \/ d = Event("TwoslashCheckFailed", "trace", <<p, k>>, p)
    BY DEF DiagnosesOf
  <2>2. PICK b : b = <<p, k>>
    OBVIOUS
  <2>3. /\ d.level \in {"warn", "trace"} /\ d.tag \in {"TwoslashDiagnostic", "TwoslashCheckFailed"}
        /\ d.file = p /\ d.block = b
    BY <2>1, <2>2 DEF Event
  <2>4. b[1] = p
    BY <2>2
  <2> QED
    BY <2>3, <2>4 DEF Levels, Tags, Twoslash
<1>2. Len(e) \in Nat /\ DOMAIN e = 1 .. Len(e) /\ \A k \in 1 .. Len(e) : e[k] \in DiagnosesOf(p, n)
  OBVIOUS
<1> QED
  BY <1>1, <1>2 DEF Sound

Declarings == {Event("VfsGenerated", "debug", None, ""), Event("ImportsPrepended", "debug", None, "")}

\* The events of the declaration files.
LEMMA VfsEventsSound ==
  ASSUME NEW declared, NEW m \in Nat, DOMAIN declared = 1 .. m
  PROVE  \E n \in Nat :
           /\ VfsEvents(declared) \in Seq(Declarings)
           /\ n = Len(VfsEvents(declared)) /\ DOMAIN VfsEvents(declared) = 1 .. n
<1>1. PICK a, b : a = Event("VfsGenerated", "debug", None, "") /\ b = Event("ImportsPrepended", "debug", None, "")
  OBVIOUS
<1>2. PICK X : X = {a, b}
  OBVIOUS
<1> DEFINE seqs == [e \in 1 .. m |-> <<a>> \o (IF declared[e].imports = {} THEN <<>> ELSE <<b>>)]
<1>3. PICK S : S = seqs
  OBVIOUS
<1>4. VfsEvents(declared) = FlattenSeq(S)
  BY <1>1, <1>3 DEF VfsEvents
<1>5. <<a>> \o <<>> \in Seq(X) /\ <<a>> \o <<b>> \in Seq(X)
  BY <1>2
<1>6. S \in [1 .. m -> Seq(X)]
  BY <1>3, <1>5
<1>7. FlattenSeq(S) \in Seq(X)
  BY <1>6, FlattenTyped
<1>8. PICK v : v = VfsEvents(declared)
  OBVIOUS
<1>9. v \in Seq(X) /\ Len(v) \in Nat /\ DOMAIN v = 1 .. Len(v)
  BY <1>4, <1>7, <1>8
<1>10. X = Declarings
  BY <1>1, <1>2 DEF Declarings
<1> QED
  BY <1>8, <1>9, <1>10, Zenon

--------------------------------------------------------------------------------
(* The pages of a site. *)

Listed(s) == \E n \in Nat : DOMAIN s = 1 .. n

\* What a list holds.
LEMMA ListIsListed ==
  ASSUME NEW s, List(s)
  PROVE  \E n \in Nat : s \in [1 .. n -> ToSet(s)] /\ DOMAIN s = 1 .. n /\ n = Len(s)
BY SMTT(30) DEF List

\* v is x, then b, which may be empty or be y alone, the list s, which may be
\* empty, and the list t; X is what is in it.
Joined(x, y, b, s, t, X, v) ==
  /\ b = <<>> \/ b = <<y>>
  /\ s = <<>> \/ (Listed(s) /\ s = [k \in DOMAIN s |-> s[k]])
  /\ Listed(t) /\ t = [k \in DOMAIN t |-> t[k]]
  /\ X = {x} \cup {b[j] : j \in DOMAIN b} \cup {s[j] : j \in DOMAIN s} \cup {t[j] : j \in DOMAIN t}
  /\ v = <<x>> \o b \o s \o t

\* Lists one after the other are a list.
LEMMA ListedTogether ==
  ASSUME NEW x, NEW y, NEW b, NEW s, NEW t, NEW X, NEW v, Joined(x, y, b, s, t, X, v)
  PROVE  Listed(v) /\ \A k \in DOMAIN v : v[k] \in X
<1>1. PICK n \in Nat : DOMAIN s = 1 .. n /\ s = [k \in 1 .. n |-> s[k]]
  <2>1. CASE s = <<>>
    BY <2>1
  <2>2. CASE Listed(s) /\ s = [k \in DOMAIN s |-> s[k]]
    BY <2>2 DEF Listed
  <2> QED
    BY <2>1, <2>2 DEF Joined
<1>2. PICK m \in Nat : DOMAIN t = 1 .. m /\ t = [k \in 1 .. m |-> t[k]]
  BY DEF Listed, Joined
<1>3. X = {x} \cup {b[k] : k \in DOMAIN b} \cup {s[k] : k \in 1 .. n} \cup {t[k] : k \in 1 .. m}
  BY <1>1, <1>2 DEF Joined
<1>4. s \in [1 .. n -> X]
  BY <1>1, <1>3
<1>5. t \in [1 .. m -> X]
  BY <1>2, <1>3
<1>6. s \in Seq(X) /\ t \in Seq(X) /\ <<x>> \in Seq(X) /\ b \in Seq(X)
  <2>1. b \in Seq(X)
    <3>1. CASE b = <<>>
      BY <3>1
    <3>2. CASE b = <<y>>
      <4>1. y \in X
        BY <1>3, <3>2
      <4> QED
        BY <3>2, <4>1
    <3> QED
      BY <3>1, <3>2 DEF Joined
  <2>2. s \in Seq(X) /\ t \in Seq(X)
    BY <1>4, <1>5
  <2>3. x \in X
    BY <1>3
  <2> QED
    BY <2>1, <2>2, <2>3
<1>7. v = <<x>> \o b \o s \o t
  BY DEF Joined
<1>8. v \in Seq(X)
  BY <1>6, <1>7
<1>9. Len(v) \in Nat /\ DOMAIN v = 1 .. Len(v) /\ \A k \in 1 .. Len(v) : v[k] \in X
  BY <1>8
<1> QED
  BY <1>9 DEF Listed

\* What a finite function takes on.
LEMMA ImageFinite ==
  ASSUME NEW f, IsFiniteSet(DOMAIN f)
  PROVE  IsFiniteSet({f[x] : x \in DOMAIN f})
<1>1. PICK S, T : S = DOMAIN f /\ T = {f[x] : x \in DOMAIN f}
  OBVIOUS
<1> DEFINE g == [x \in S |-> f[x]]
<1>2. g \in Surjection(S, T)
  BY <1>1 DEF Surjection
<1> HIDE DEF g
<1> QED
  BY <1>1, <1>2, FS_Surjection

\* The items of a site are a list, and have lists of members and of examples.
LEMMA ItemsListed ==
  ASSUME site \in Sites
  PROVE  /\ IsFiniteSet(ToSet(Items))
         /\ \A i \in ToSet(Items) : WellFormed(i)
<1>1. PICK entries : entries = site.entries
  OBVIOUS
<1>2. List(entries) /\ \A e \in ToSet(entries) :
        List(e.items) /\ \A i \in ToSet(e.items) : WellFormed(i)
  BY <1>1, SitesAssumption
<1>3. PICK m \in Nat : entries \in [1 .. m -> ToSet(entries)] /\ DOMAIN entries = 1 .. m
  BY <1>2, ListIsListed
<1>4. PICK X : X = UNION {ToSet(e.items) : e \in ToSet(entries)}
  OBVIOUS
<1> DEFINE seqs == [e \in 1 .. m |-> entries[e].items]
<1>5. PICK S : S = seqs
  OBVIOUS
<1>6. S \in [1 .. m -> Seq(X)]
  <2>1. ASSUME NEW e \in 1 .. m PROVE entries[e].items \in Seq(X)
    <3>1. PICK x, list : x = entries[e] /\ list = x.items
      OBVIOUS
    <3>2. x \in ToSet(entries)
      BY <1>3, <3>1
    <3>3. List(list) /\ ToSet(list) \subseteq X
      BY <1>2, <1>4, <3>1, <3>2
    <3>4. list \in Seq(ToSet(list))
      BY <3>3 DEF List
    <3> QED
      BY <3>1, <3>3, <3>4
  <2> QED
    BY <1>5, <2>1
<1>7. PICK items : items = Items
  OBVIOUS
<1>8. items = FlattenSeq(S)
  BY <1>1, <1>3, <1>5, <1>7 DEF Items
<1>9. items \in Seq(X)
  BY <1>6, <1>8, FlattenTyped
<1>10. PICK n \in Nat : DOMAIN items = 1 .. n /\ \A k \in 1 .. n : items[k] \in X
  BY <1>9
<1>11. ToSet(items) = {items[k] : k \in 1 .. n}
  BY <1>10 DEF ToSet
<1>12. ASSUME NEW i \in ToSet(items) PROVE WellFormed(i)
  <2>1. i \in X
    BY <1>10, <1>11
  <2>2. PICK e \in ToSet(entries) : i \in ToSet(e.items)
    BY <1>4, <2>1
  <2> QED
    BY <1>2, <2>2
<1>13. IsFiniteSet(ToSet(items))
  <2>1. IsFiniteSet(1 .. n)
    BY FS_Interval
  <2>2. PICK f : f = [k \in 1 .. n |-> items[k]]
    OBVIOUS
  <2>3. DOMAIN f = 1 .. n /\ \A k \in 1 .. n : f[k] = items[k]
    BY <2>2
  <2>4. IsFiniteSet({f[k] : k \in DOMAIN f})
    BY <2>1, <2>3, ImageFinite
  <2>5. {f[k] : k \in DOMAIN f} = ToSet(items)
    BY <1>11, <2>3
  <2> QED
    BY <2>4, <2>5
<1> QED
  BY <1>7, <1>12, <1>13

Components == {"ApiSignature", "ApiMember", "ApiExample", "with-api"}

\* What a block is made from.
ShowsItem(x)    == \E i \in ToSet(Items) : x = Signature(i)
ShowsMember(x)  ==
  \E i \in ToSet(Items) : i.kind \in {"Class", "Interface"} /\ \E m \in ToSet(i.members) :
    x = [Block("ApiMember", MemberSource(i, m), {}, 1) EXCEPT !.of = m]
ShowsExample(x) == \E i \in ToSet(Items) : \E e \in ToSet(i.examples) : x = ExampleBlock(e)
ShowsFence(x)   ==
  \E a \in ToSet(site.authored) : \E f \in ToSet(a.fences) :
    x = Block("with-api", Formatted(f.lines, f.fails), f.fails, f.ms)
ShowsCode(x)    == ShowsItem(x) \/ ShowsMember(x) \/ ShowsExample(x) \/ ShowsFence(x)

\* There are only so many pages, and what stands on one is a list of blocks.
LEMMA PagesShow ==
  ASSUME site \in Sites
  PROVE  /\ IsFiniteSet(DOMAIN Pages) /\ Authored \subseteq DOMAIN Pages
         /\ \A p \in DOMAIN Pages : Listed(Pages[p]) /\ \A k \in DOMAIN Pages[p] : ShowsCode(Pages[p][k])
<1>1. PICK I, A : I = ToSet(Items) /\ A = ToSet(site.authored)
  OBVIOUS
<1>2. IsFiniteSet(I) /\ \A i \in I : List(i.members) /\ Timed(i.examples)
  BY <1>1, ItemsListed DEF WellFormed, Refers
<1>3. IsFiniteSet(A) /\ \A a \in A : Timed(a.fences)
  <2>1. PICK s : s = site.authored
    OBVIOUS
  <2>2. List(s) /\ \A a \in ToSet(s) : Timed(a.fences)
    BY <2>1, SitesAssumption
  <2>3. PICK n \in Nat : DOMAIN s = 1 .. n
    BY <2>2, ListIsListed
  <2>4. IsFiniteSet({s[k] : k \in DOMAIN s})
    <3>1. IsFiniteSet(DOMAIN s)
      BY <2>3, FS_Interval
    <3> QED
      BY <3>1, ImageFinite
  <2> QED
    BY <1>1, <2>1, <2>2, <2>4 DEF ToSet
<1>4. PICK J, N : J = OnOwnPage /\ N = {i.name : i \in J} \cup Authored
  OBVIOUS
<1>5. J \subseteq I /\ IsFiniteSet(J)
  <2>1. J \subseteq I
    BY <1>1, <1>4 DEF OnOwnPage
  <2> QED
    BY <1>2, <2>1, FS_Subset
<1>6. DOMAIN Pages = N
  BY <1>1, <1>4 DEF Pages
<1>7. IsFiniteSet(N)
  <2>1. PICK f : f = [i \in J |-> i.name]
    OBVIOUS
  <2>2. IsFiniteSet({f[i] : i \in DOMAIN f}) /\ {f[i] : i \in DOMAIN f} = {i.name : i \in J}
    BY <1>5, <2>1, ImageFinite
  <2>3. PICK g : g = [a \in A |-> a.name]
    OBVIOUS
  <2>4. IsFiniteSet({g[a] : a \in DOMAIN g}) /\ {g[a] : a \in DOMAIN g} = Authored
    BY <1>1, <1>3, <2>3, ImageFinite DEF Authored
  <2> QED
    BY <1>4, <2>2, <2>4, FS_Union
<1>8. ASSUME NEW p \in N PROVE Listed(Pages[p]) /\ \A k \in DOMAIN Pages[p] : ShowsCode(Pages[p][k])
  <2>1. CASE p \in Authored
    <3>1. PICK a : a = CHOOSE x \in ToSet(site.authored) : x.name = p
      OBVIOUS
    <3>2. a \in A
      BY <1>1, <2>1, <3>1 DEF Authored
    <3>3. Pages[p] = AuthoredBlocks(a)
      BY <1>1, <1>4, <2>1, <3>1 DEF Pages
    <3>4. PICK fences : fences = a.fences
      OBVIOUS
    <3>5. Timed(fences)
      BY <1>3, <3>2, <3>4
    <3>6. PICK n \in Nat : DOMAIN fences = 1 .. n
      BY <3>5, ListIsListed DEF Timed
    <3>7. PICK blocks : blocks = AuthoredBlocks(a)
      OBVIOUS
    <3>8. DOMAIN blocks = DOMAIN fences
      BY <3>4, <3>7 DEF AuthoredBlocks
    <3>9. ASSUME NEW k \in DOMAIN fences PROVE ShowsCode(blocks[k])
      <4>1. PICK x, f : x = blocks[k] /\ f = fences[k]
        OBVIOUS
      <4>2. x = Block("with-api", Formatted(f.lines, f.fails), f.fails, f.ms)
        BY <3>4, <3>7, <3>9, <4>1 DEF AuthoredBlocks
      <4>3. f \in ToSet(a.fences) /\ a \in ToSet(site.authored)
        BY <1>1, <3>2, <3>4, <4>1 DEF ToSet
      <4> QED
        BY <4>1, <4>2, <4>3 DEF ShowsCode, ShowsFence
    <3> QED
      BY <3>3, <3>6, <3>7, <3>8, <3>9 DEF Listed
  <2>2. CASE p \notin Authored
    <3>1. PICK i : i = CHOOSE x \in OnOwnPage : x.name = p
      OBVIOUS
    <3>2. i \in I
      BY <1>4, <1>5, <2>2, <3>1
    <3>3. Pages[p] = GeneratedBlocks(i)
      BY <1>1, <1>4, <2>2, <3>1 DEF Pages
    <3>4. PICK members, examples : members = i.members /\ examples = i.examples
      OBVIOUS
    <3>5. PICK m \in Nat : DOMAIN members = 1 .. m
      BY <1>2, <3>2, <3>4, ListIsListed
    <3>6. Timed(examples)
      BY <1>2, <3>2, <3>4
    <3>7. PICK n \in Nat : DOMAIN examples = 1 .. n
      BY <3>6, ListIsListed DEF Timed
    <3>8. PICK x, c : x = Signature(i) /\ c = CHOOSE k \in Base(i) : TRUE
      OBVIOUS
    <3>9. PICK y, b : y = Signature(c) /\ b = IF Base(i) = {} THEN <<>> ELSE <<y>>
      OBVIOUS
    <3>10. b = <<>> \/ b = <<y>>
      BY <3>9
    <3>11. PICK s : s = IF i.kind \notin {"Class", "Interface"} THEN <<>>
                       ELSE [k \in DOMAIN members |->
                               [Block("ApiMember", MemberSource(i, members[k]), {}, 1) EXCEPT !.of = members[k]]]
      OBVIOUS
    <3>12. PICK t : t = [k \in DOMAIN examples |-> ExampleBlock(examples[k])]
      OBVIOUS
    <3>13. s = <<>> \/ (Listed(s) /\ s = [k \in DOMAIN s |-> s[k]])
      BY <3>5, <3>11 DEF Listed
    <3>14. Listed(t) /\ t = [k \in DOMAIN t |-> t[k]]
      BY <3>7, <3>12 DEF Listed
    <3>15. PICK X, v : /\ X = {x} \cup {b[j] : j \in DOMAIN b} \cup {s[j] : j \in DOMAIN s} \cup {t[j] : j \in DOMAIN t}
                       /\ v = <<x>> \o b \o s \o t
      OBVIOUS
    <3>16. Listed(v) /\ \A k \in DOMAIN v : v[k] \in X
      <4>1. Joined(x, y, b, s, t, X, v)
        BY <3>10, <3>13, <3>14, <3>15 DEF Joined
      <4> QED
        BY <4>1, ListedTogether
    <3>17. Pages[p] = v
      BY <3>3, <3>4, <3>8, <3>9, <3>11, <3>12, <3>15 DEF GeneratedBlocks
    <3>18. ShowsCode(x)
      BY <1>1, <3>2, <3>8 DEF ShowsCode, ShowsItem
    <3>19. ASSUME NEW j \in DOMAIN b PROVE ShowsCode(b[j])
      <4>1. Base(i) # {} /\ b[j] = y
        BY <3>9, <3>19
      <4>2. c \in ToSet(Items)
        BY <3>8, <4>1 DEF Base
      <4> QED
        BY <3>9, <4>1, <4>2 DEF ShowsCode, ShowsItem
    <3>20. ASSUME NEW j \in DOMAIN s PROVE ShowsCode(s[j])
      <4>1. i.kind \in {"Class", "Interface"} /\ j \in DOMAIN members
        BY <3>11, <3>20
      <4>2. s[j] = [Block("ApiMember", MemberSource(i, members[j]), {}, 1) EXCEPT !.of = members[j]]
        BY <3>11, <4>1
      <4>3. members[j] \in ToSet(i.members)
        BY <3>4, <4>1 DEF ToSet
      <4> QED
        BY <1>1, <3>2, <4>1, <4>2, <4>3 DEF ShowsCode, ShowsMember
    <3>21. ASSUME NEW j \in DOMAIN t PROVE ShowsCode(t[j])
      <4>1. j \in DOMAIN examples /\ t[j] = ExampleBlock(examples[j])
        BY <3>12, <3>21
      <4>2. examples[j] \in ToSet(i.examples)
        BY <3>4, <4>1 DEF ToSet
      <4> QED
        BY <1>1, <3>2, <4>1, <4>2 DEF ShowsCode, ShowsExample
    <3> QED
      BY <3>15, <3>16, <3>17, <3>18, <3>19, <3>20, <3>21
  <2> QED
    BY <2>1, <2>2
<1> QED
  BY <1>4, <1>6, <1>7, <1>8

\* What a block shows, and how long it takes.
LEMMA PagesListed ==
  ASSUME site \in Sites
  PROVE  /\ IsFiniteSet(DOMAIN Pages) /\ Authored \subseteq DOMAIN Pages
         /\ \A p \in DOMAIN Pages :
              /\ Listed(Pages[p])
              /\ \A k \in DOMAIN Pages[p] : Pages[p][k].component \in Components /\ Pages[p][k].ms \in Nat
<1>1. ASSUME NEW x, ShowsCode(x) PROVE x.component \in Components /\ x.ms \in Nat
  <2>1. CASE ShowsItem(x) \/ ShowsMember(x)
    <3>1. PICK c, lines, of : x = [Block(c, lines, {}, 1) EXCEPT !.of = of] /\ c \in Components
      BY <2>1, Zenon DEF ShowsItem, ShowsMember, Components, Signature
    <3> QED
      BY <3>1 DEF Block
  <2>2. CASE ShowsExample(x)
    <3>1. PICK i \in ToSet(Items) : \E e \in ToSet(i.examples) : x = ExampleBlock(e)
      BY <2>2 DEF ShowsExample
    <3>2. Timed(i.examples)
      BY <3>1, ItemsListed DEF WellFormed
    <3>3. PICK e \in ToSet(i.examples) : x = ExampleBlock(e)
      BY <3>1
    <3> QED
      BY <3>2, <3>3 DEF Timed, ExampleBlock, Block, Components
  <2>3. CASE ShowsFence(x)
    <3>1. PICK a \in ToSet(site.authored) : \E f \in ToSet(a.fences) :
            x = Block("with-api", Formatted(f.lines, f.fails), f.fails, f.ms)
      BY <2>3 DEF ShowsFence
    <3>2. Timed(a.fences)
      BY <3>1, SitesAssumption
    <3>3. PICK f \in ToSet(a.fences) : x.component = "with-api" /\ x.ms = f.ms
      BY <3>1 DEF Block
    <3> QED
      BY <3>2, <3>3 DEF Timed, Components
  <2> QED
    BY <1>1, <2>1, <2>2, <2>3 DEF ShowsCode
<1> QED
  BY <1>1, PagesShow

\* There are only so many blocks.
LEMMA BlocksFinite ==
  ASSUME site \in Sites, pages = Pages
  PROVE  IsFiniteSet(Blocks)
<1>1. PICK P : P = pages
  OBVIOUS
<1>2. IsFiniteSet(DOMAIN P) /\ \A p \in DOMAIN P : Listed(P[p])
  BY <1>1, PagesListed
<1>3. PICK f : f = [p \in DOMAIN P |-> {p} \X DOMAIN P[p]]
  OBVIOUS
<1>4. IsFiniteSet({f[p] : p \in DOMAIN f})
  <2>1. IsFiniteSet(DOMAIN f)
    BY <1>2, <1>3
  <2> QED
    BY <2>1, ImageFinite
<1>5. ASSUME NEW p \in DOMAIN P PROVE IsFiniteSet({p} \X DOMAIN P[p])
  <2>1. PICK D : D = DOMAIN P[p]
    OBVIOUS
  <2>2. PICK n \in Nat : D = 1 .. n
    BY <1>2, <1>5, <2>1 DEF Listed
  <2>3. IsFiniteSet(D)
    BY <2>2, FS_Interval
  <2>4. IsFiniteSet({p})
    BY FS_Singleton
  <2> QED
    BY <2>1, <2>3, <2>4, FS_Product
<1>6. PICK U : U = {f[p] : p \in DOMAIN f}
  OBVIOUS
<1>7. \A T \in U : IsFiniteSet(T)
  BY <1>3, <1>5, <1>6
<1>8. IsFiniteSet(UNION U)
  BY <1>4, <1>6, <1>7, FS_UNION
<1>9. UNION U = Blocks
  BY <1>1, <1>3, <1>6 DEF Blocks
<1> QED
  BY <1>8, <1>9

\* The examples on generated pages that cannot be formatted.
Misformed == {b \in Blocks : b[1] \notin Authored /\ "format" \in At(b).fails}

Complaints == {Event("PrettierError", "warn", b, "unknown") : b \in Misformed}

\* n events that tell of each of them once.
Complains(ev, n) ==
  /\ ev \in Seq(Complaints) /\ n = Len(ev) /\ DOMAIN ev = 1 .. n
  /\ \A j, k \in 1 .. n : ev[j].block = ev[k].block => j = k
  /\ {ev[k].block : k \in 1 .. n} = Misformed

\* Each of them is told of once, before any page is rendered.
LEMMA PageEventsTell ==
  ASSUME site \in Sites, pages = Pages
  PROVE  \E n \in Nat : Complains(PageEvents, n)
<1>1. PICK bad : bad = Misformed
  OBVIOUS
<1>2. IsFiniteSet(bad)
  <2>1. bad \in SUBSET Blocks
    BY <1>1 DEF Misformed
  <2> QED
    BY <2>1, BlocksFinite, FS_Subset
<1>3. PICK order : order = SetToSeq(bad)
  OBVIOUS
<1>4. PICK n \in Nat : /\ order \in [1 .. n -> bad]
                       /\ \A j, k \in 1 .. n : order[j] = order[k] => j = k
                       /\ \A x \in bad : \E k \in 1 .. n : order[k] = x
  BY <1>2, <1>3, SetInOrder
<1>5. PICK ev : ev = PageEvents
  OBVIOUS
<1>6. ev = [k \in 1 .. n |-> Event("PrettierError", "warn", order[k], "unknown")]
  BY <1>1, <1>3, <1>4, <1>5 DEF PageEvents, Misformed
<1>7. PICK X : X = {Event("PrettierError", "warn", b, "unknown") : b \in bad}
  OBVIOUS
<1>8. ev \in [1 .. n -> X]
  BY <1>4, <1>6, <1>7
<1>9. ev \in Seq(X) /\ Len(ev) = n /\ DOMAIN ev = 1 .. n
  BY <1>8
<1>10. \A k \in 1 .. n : ev[k].block = order[k]
  BY <1>6 DEF Event
<1>11. {ev[k].block : k \in 1 .. n} = bad
  BY <1>4, <1>10
<1>12. X = Complaints
  BY <1>1, <1>7 DEF Complaints
<1>13. \A j, k \in 1 .. n : ev[j].block = ev[k].block => j = k
  BY <1>4, <1>10
<1>14. Complains(ev, n)
  BY <1>1, <1>9, <1>11, <1>12, <1>13 DEF Complains
<1> QED
  BY <1>5, <1>14

Firsts == {"VfsGenerated", "ImportsPrepended", "PrettierError"}

\* What is told of when generating the declaration files and pages has ended.
LEMMA FirstEventsTell ==
  ASSUME site \in Sites, pages = Pages,
         NEW declared, NEW m \in Nat, DOMAIN declared = 1 .. m
  PROVE  \E n \in Nat :
           /\ Sound(VfsEvents(declared) \o PageEvents, n)
           /\ \A k \in 1 .. n : (VfsEvents(declared) \o PageEvents)[k].tag \in Firsts
           /\ Tells(VfsEvents(declared) \o PageEvents, "PrettierError", n) = Misformed
           /\ Singly(VfsEvents(declared) \o PageEvents, "PrettierError", n)
<1>1. PICK X : X = Declarings
  OBVIOUS
<1>2. PICK Y : Y = Complaints
  OBVIOUS
<1>3. PICK v, p : v = VfsEvents(declared) /\ p = PageEvents
  OBVIOUS
<1>4. PICK j \in Nat : v \in Seq(X) /\ j = Len(v)
  BY <1>1, <1>3, VfsEventsSound
<1>5. PICK n \in Nat : /\ p \in Seq(Y) /\ n = Len(p)
                       /\ \A i, k \in 1 .. n : p[i].block = p[k].block => i = k
                       /\ {p[k].block : k \in 1 .. n} = Misformed
  <2>1. PICK n \in Nat : Complains(p, n)
    BY <1>3, PageEventsTell
  <2> QED
    BY <1>2, <2>1 DEF Complains
<1>6. PICK ev : ev = v \o p
  OBVIOUS
<1>7. /\ Len(ev) = j + n /\ j + n \in Nat /\ DOMAIN ev = 1 .. (j + n)
      /\ \A k \in 1 .. j : ev[k] = v[k] /\ v[k] \in X
      /\ \A k \in 1 .. n : ev[j + k] = p[k] /\ p[k] \in Y
  BY <1>4, <1>5, <1>6
<1>8. \A x \in X : x.level \in Levels /\ x.tag \in Tags /\ x.tag \in Firsts /\ x.tag # "PrettierError"
  <2>1. PICK a, b : /\ a = Event("VfsGenerated", "debug", None, "")
                    /\ b = Event("ImportsPrepended", "debug", None, "")
    OBVIOUS
  <2>2. \A x \in X : x = a \/ x = b
    BY <1>1, <2>1 DEF Declarings
  <2>3. a.level = "debug" /\ a.tag = "VfsGenerated" /\ b.level = "debug" /\ b.tag = "ImportsPrepended"
    BY <2>1 DEF Event
  <2> QED
    BY <2>2, <2>3 DEF Levels, Tags, Firsts
<1>9. \A y \in Y : y.level \in Levels /\ y.tag \in Tags /\ y.tag \in Firsts /\ y.tag = "PrettierError"
  <2>1. \A y \in Y : y.level = "warn" /\ y.tag = "PrettierError"
    BY <1>2 DEF Complaints, Event
  <2> QED
    BY <2>1 DEF Levels, Tags, Firsts
<1>10. PICK N \in Nat : N = j + n
  OBVIOUS
<1>11. ASSUME NEW k \in 1 .. N
       PROVE  ev[k] \in X \/ (k - j \in 1 .. n /\ ev[k] = p[k - j] /\ ev[k] \in Y)
  <2>1. CASE k <= j
    <3>1. k \in 1 .. j
      BY <1>4, <1>10, <2>1
    <3> QED
      BY <1>7, <3>1
  <2>2. CASE ~(k <= j)
    <3>1. PICK i : i = k - j
      OBVIOUS
    <3>2. i \in 1 .. n /\ j + i = k
      BY <1>4, <1>5, <1>10, <2>2, <3>1
    <3>3. ev[j + i] = p[i] /\ p[i] \in Y
      BY <1>7, <3>2
    <3> QED
      BY <3>1, <3>2, <3>3
  <2> QED
    BY <2>1, <2>2
<1>12. \A k \in 1 .. N : ev[k].level \in Levels /\ ev[k].tag \in Tags /\ ev[k].tag \in Firsts
  BY <1>8, <1>9, <1>11
<1>13. \A k \in 1 .. N : ev[k].tag = "PrettierError" => k - j \in 1 .. n /\ ev[k] = p[k - j]
  BY <1>8, <1>11
<1>14. ASSUME NEW k \in 1 .. n
       PROVE  \E i \in 1 .. N : ev[i].tag = "PrettierError" /\ ev[i].block = p[k].block
  <2>1. PICK i : i = j + k
    OBVIOUS
  <2>2. i \in 1 .. N
    BY <1>4, <1>5, <1>10, <2>1
  <2>3. ev[i] = p[k] /\ p[k] \in Y
    BY <1>7, <2>1
  <2> QED
    BY <1>9, <2>2, <2>3
<1>15. Tells(ev, "PrettierError", N) = {p[k].block : k \in 1 .. n}
  <2>1. ASSUME NEW x \in Tells(ev, "PrettierError", N) PROVE \E k \in 1 .. n : x = p[k].block
    <3>1. PICK i \in 1 .. N : ev[i].tag = "PrettierError" /\ x = ev[i].block
      BY DEF Tells
    <3>2. PICK k : k = i - j
      OBVIOUS
    <3>3. k \in 1 .. n /\ ev[i] = p[k]
      BY <1>13, <3>1, <3>2
    <3> QED
      BY <3>1, <3>3
  <2>2. ASSUME NEW k \in 1 .. n PROVE p[k].block \in Tells(ev, "PrettierError", N)
    BY <1>14 DEF Tells
  <2> QED
    BY <2>1, <2>2
<1>16. Singly(ev, "PrettierError", N)
  <2> SUFFICES ASSUME NEW x \in 1 .. N, NEW y \in 1 .. N, ev[x].tag = "PrettierError",
                      ev[y].tag = "PrettierError", ev[x].block = ev[y].block
               PROVE  x = y
    BY DEF Singly
  <2>1. PICK a, b : a = x - j /\ b = y - j
    OBVIOUS
  <2>2. a \in 1 .. n /\ b \in 1 .. n /\ p[a].block = p[b].block
    BY <1>13, <2>1
  <2>3. a = b
    BY <1>5, <2>2
  <2> QED
    BY <1>4, <2>1, <2>3
<1>17. Sound(ev, N)
  BY <1>7, <1>10, <1>12 DEF Sound
<1> QED
  BY <1>3, <1>5, <1>6, <1>12, <1>15, <1>16, <1>17

--------------------------------------------------------------------------------
(* What the sinks hold of the time that blocks took.                             *)

Typed == {"ApiExample", "with-api"}

\* What a block adds to a field, and the series it adds it to.
Gain(f)   == [b \in Blocks |-> Read(Measured(Processed(b)), f)]
Series(b) == <<Processed(b).scope, Processed(b).component, Processed(b).twoslash>>

\* One or nothing.
LEMMA MinOfTwo == \A k \in Nat : Min({1, k}) = IF k = 0 THEN 0 ELSE 1
<1> SUFFICES ASSUME NEW k \in Nat PROVE Min({1, k}) = IF k = 0 THEN 0 ELSE 1
  OBVIOUS
<1>1. \E x \in {1, k} : \A y \in {1, k} : x <= y
  OBVIOUS
<1>2. Min({1, k}) \in {1, k} /\ \A y \in {1, k} : Min({1, k}) <= y
  BY <1>1 DEF Min
<1> QED
  BY <1>2

\* What is measured of a block.
LEMMA ProcessedSays ==
  ASSUME site \in Sites, pages = Pages, NEW b \in Blocks
  PROVE  /\ At(b).ms \in Nat /\ At(b).component \in Components
         /\ Processed(b).tag = "CodeBlockProcessed" /\ Processed(b).level = "debug"
         /\ Processed(b).block = b /\ Processed(b).file = b[1]
         /\ Processed(b).scope = IF Scoped(b[1]) THEN "api" ELSE "(unscoped)"
         /\ Processed(b).component = At(b).component
         /\ Processed(b).twoslash = (At(b).component \in Typed)
         /\ Processed(b).totalMs = At(b).ms
         /\ Processed(b).twoslashMs \in Nat /\ Processed(b).shikiMs \in Nat
         /\ Processed(b).twoslashMs + Processed(b).shikiMs <= At(b).ms
<1>1. PICK x, e : x = At(b) /\ e = Processed(b)
  OBVIOUS
<1>2. x.ms \in Nat /\ x.component \in Components
  <2>1. PICK p, k : p \in DOMAIN pages /\ k \in DOMAIN pages[p] /\ b = <<p, k>>
    BY DEF Blocks
  <2>2. x = pages[p][k]
    BY <1>1, <2>1 DEF At
  <2> QED
    BY <2>1, <2>2, PagesListed
<1>3. PICK typed, types : /\ typed = (x.component \in Typed)
                          /\ types = IF typed THEN Min({1, x.ms}) ELSE 0
  OBVIOUS
<1>4. /\ e.tag = "CodeBlockProcessed" /\ e.level = "debug" /\ e.block = b /\ e.file = b[1]
      /\ e.scope = IF Scoped(b[1]) THEN "api" ELSE "(unscoped)"
      /\ e.component = x.component /\ e.twoslash = typed
      /\ e.totalMs = x.ms /\ e.twoslashMs = types /\ e.shikiMs = Min({1, x.ms - types})
  BY <1>1, <1>3 DEF Processed, Typed
<1>5. types \in Nat /\ types <= x.ms /\ x.ms - types \in Nat
  BY <1>2, <1>3, MinOfTwo
<1>6. Min({1, x.ms - types}) \in Nat /\ Min({1, x.ms - types}) <= x.ms - types
  <2>1. PICK k \in Nat : k = x.ms - types
    BY <1>5
  <2>2. Min({1, k}) \in Nat /\ Min({1, k}) <= k
    BY MinOfTwo
  <2> QED
    BY <2>1, <2>2
<1>7. e.twoslashMs \in Nat /\ e.shikiMs \in Nat /\ e.twoslashMs + e.shikiMs <= x.ms
  <2>1. PICK t, m, k : t = types /\ m = x.ms /\ k = Min({1, x.ms - types})
    OBVIOUS
  <2>2. t \in Nat /\ m \in Nat /\ k \in Nat /\ k <= m - t /\ e.twoslashMs = t /\ e.shikiMs = k
    BY <1>2, <1>4, <1>5, <1>6, <2>1
  <2> QED
    BY <2>1, <2>2
<1> QED
  BY <1>1, <1>2, <1>3, <1>4, <1>7

\* What each field gains.
LEMMA GainSays ==
  ASSUME site \in Sites, pages = Pages
  PROVE  /\ \A f \in Fields : Gain(f) \in [Blocks -> Nat]
         /\ \A b \in Blocks :
              /\ Gain("blocks")[b] = 1
              /\ Gain("twoslashBlocks")[b] = IF At(b).component \in Typed THEN 1 ELSE 0
              /\ Gain("totalMs")[b] = At(b).ms
              /\ Gain("twoslashMs")[b] + Gain("shikiMs")[b] <= Gain("totalMs")[b]
<1>1. ASSUME NEW b \in Blocks
      PROVE  /\ \A f \in Fields : Read(Measured(Processed(b)), f) \in Nat
             /\ Read(Measured(Processed(b)), "blocks") = 1
             /\ Read(Measured(Processed(b)), "twoslashBlocks") = IF At(b).component \in Typed THEN 1 ELSE 0
             /\ Read(Measured(Processed(b)), "totalMs") = At(b).ms
             /\ Read(Measured(Processed(b)), "twoslashMs") = Processed(b).twoslashMs
             /\ Read(Measured(Processed(b)), "shikiMs") = Processed(b).shikiMs
  <2>1. PICK e : e = Processed(b)
    OBVIOUS
  <2>2. PICK m : m = Measured(e)
    OBVIOUS
  <2>3. PICK absent : absent = (IF e.twoslash THEN {} ELSE {"twoslashBlocks"})
                                 \cup (IF e.totalMs > SlowMs THEN {} ELSE {"slowBlocks"})
    OBVIOUS
  <2>4. DOMAIN m = Fields \ absent
    BY <2>2, <2>3 DEF Measured
  <2>5. \A f \in Fields \ absent :
          m[f] = CASE f = "totalMs" -> e.totalMs [] f = "twoslashMs" -> e.twoslashMs
                   [] f = "shikiMs" -> e.shikiMs [] OTHER -> 1
    BY <2>2, <2>3 DEF Measured
  <2>6. /\ e.totalMs \in Nat /\ e.twoslashMs \in Nat /\ e.shikiMs \in Nat
        /\ e.totalMs = At(b).ms /\ e.twoslash = (At(b).component \in Typed)
    BY <2>1, ProcessedSays
  <2>7. \A f \in Fields : Read(m, f) \in Nat
    BY <2>4, <2>5, <2>6 DEF Read
  <2>8. /\ \A f \in {"blocks", "totalMs", "twoslashMs", "shikiMs"} : f \in Fields \ absent
        /\ "twoslashBlocks" \in Fields \ absent <=> e.twoslash
    BY <2>3 DEF Fields
  <2>9. /\ Read(m, "blocks") = 1 /\ Read(m, "totalMs") = e.totalMs
        /\ Read(m, "twoslashMs") = e.twoslashMs /\ Read(m, "shikiMs") = e.shikiMs
    BY <2>4, <2>5, <2>8 DEF Read
  <2>10. Read(m, "twoslashBlocks") = IF e.twoslash THEN 1 ELSE 0
    BY <2>4, <2>5, <2>8 DEF Read
  <2> QED
    BY <2>1, <2>2, <2>6, <2>7, <2>9, <2>10
<1>2. \A f : Gain(f) = [b \in Blocks |-> Gain(f)[b]] /\ \A b \in Blocks : Gain(f)[b] = Read(Measured(Processed(b)), f)
  BY DEF Gain
<1>3. \A f \in Fields : Gain(f) \in [Blocks -> Nat]
  BY <1>1, <1>2
<1>4. ASSUME NEW b \in Blocks
      PROVE  /\ Gain("blocks")[b] = 1
             /\ Gain("twoslashBlocks")[b] = IF At(b).component \in Typed THEN 1 ELSE 0
             /\ Gain("totalMs")[b] = At(b).ms
             /\ Gain("twoslashMs")[b] + Gain("shikiMs")[b] <= Gain("totalMs")[b]
  BY <1>1, <1>2, ProcessedSays
<1> QED
  BY <1>3, <1>4

\* Every field of every series is a number.
Numbered(s) == \A f \in Fields : \A x : Read(s.metrics, <<f, x>>) \in Nat

\* t holds of the blocks what s does.
SameMeasures(s, t) ==
  /\ \A f \in Fields : \A x : Read(t.metrics, <<f, x>>) = Read(s.metrics, <<f, x>>)
  /\ \A k : k[1] \in Fields => (k \in DOMAIN t.metrics <=> k \in DOMAIN s.metrics)
  /\ t.byFile = s.byFile /\ t.slowest = s.slowest

\* What is counted of an event is added.
LEMMA CountedAdds ==
  ASSUME NEW m, NEW e, NEW key, Read(m, key) \in Nat, Read(Increments(e), key) \in Nat
  PROVE  /\ Read(Counted(m, e), key) = Read(m, key) + Read(Increments(e), key)
         /\ key \in DOMAIN Counted(m, e) <=> key \in DOMAIN m \/ key \in DOMAIN Increments(e)
<1>1. PICK more : more = Increments(e)
  OBVIOUS
<1>2. PICK c : c = Counted(m, e)
  OBVIOUS
<1>3. c = [k \in DOMAIN m \cup DOMAIN more |-> Read(m, k) + Read(more, k)]
  BY <1>1, <1>2 DEF Counted
<1>4. key \in DOMAIN c <=> key \in DOMAIN m \/ key \in DOMAIN more
  BY <1>3
<1>5. CASE key \in DOMAIN c
  <2>1. Read(c, key) = c[key]
    BY <1>5 DEF Read
  <2> QED
    BY <1>1, <1>2, <1>3, <1>4, <1>5, <2>1
<1>6. CASE key \notin DOMAIN c
  <2>1. Read(c, key) = 0 /\ Read(m, key) = 0 /\ Read(more, key) = 0
    BY <1>4, <1>6 DEF Read
  <2> QED
    BY <1>1, <1>2, <1>4, <2>1
<1> QED
  BY <1>5, <1>6

\* Only blocks add to the fields of the report.
LEMMA OtherIncrements ==
  ASSUME NEW e, e.tag \in Tags, e.tag # "CodeBlockProcessed"
  PROVE  \A k \in DOMAIN Increments(e) : k[1] \notin Fields
<1>1. CASE e.tag = "TwoslashDiagnostic"
  BY <1>1 DEF Increments, Once, Twice, Fields
<1>2. CASE e.tag = "PrettierError"
  BY <1>2 DEF Increments, Once, Twice, Fields
<1>3. CASE e.tag = "ImportsPrepended"
  BY <1>3 DEF Increments, Once, Twice, Fields
<1>4. CASE e.tag = "VfsGenerated"
  BY <1>4 DEF Increments, Once, Twice, Fields
<1>5. CASE e.tag \in Errors \cup {"TwoslashCheckFailed"}
  BY <1>5 DEF Increments, Errors
<1> QED
  BY <1>1, <1>2, <1>3, <1>4, <1>5 DEF Tags, Twoslash

\* An event that is not of a block changes nothing of it.
LEMMA EmitSameMeasures ==
  ASSUME NEW s, NEW e, Numbered(s), e.level \in Levels, e.tag \in Tags, e.tag # "CodeBlockProcessed"
  PROVE  SameMeasures(s, Emit(s, e))
<1>1. PICK m, c : m = s.metrics /\ c = Counted(m, e)
  OBVIOUS
<1>2. PICK t : t = Emit(s, e)
  OBVIOUS
<1>3. t.metrics = c /\ t.byFile = s.byFile /\ t.slowest = s.slowest
  BY <1>1, <1>2, AllAdmitted DEF Emit
<1>4. \A k \in DOMAIN Increments(e) : k[1] \notin Fields
  BY OtherIncrements
<1>5. ASSUME NEW f \in Fields, NEW x PROVE Read(c, <<f, x>>) = Read(m, <<f, x>>)
  <2>1. PICK key : key = <<f, x>>
    OBVIOUS
  <2>2. key[1] = f
    BY <2>1
  <2>3. Read(Increments(e), key) = 0
    BY <1>4, <2>2 DEF Read
  <2>4. Read(m, key) \in Nat
    BY <1>1, <2>1 DEF Numbered
  <2>5. Read(c, key) = Read(m, key) + 0
    BY <1>1, <2>3, <2>4, CountedAdds
  <2> QED
    BY <2>1, <2>4, <2>5
<1>6. ASSUME NEW k, k[1] \in Fields PROVE k \in DOMAIN c <=> k \in DOMAIN m
  BY <1>1, <1>4, <1>6 DEF Counted
<1> QED
  BY <1>1, <1>2, <1>3, <1>5, <1>6 DEF SameMeasures

\* Events that are not of blocks change nothing of it.
LEMMA EmitAllSameMeasures ==
  ASSUME NEW s, NEW ev, NEW n \in Nat, Sound(ev, n), Numbered(s),
         \A k \in 1 .. n : ev[k].tag # "CodeBlockProcessed"
  PROVE  SameMeasures(s, EmitAll(s, ev))
<1>1. PICK h : h[0] = s /\ h[n] = EmitAll(s, ev) /\ \A k \in 1 .. n : h[k] = Emit(h[k - 1], ev[k])
  <2>1. DOMAIN ev = 1 .. n
    BY DEF Sound
  <2>2. \E h : EmitsBySteps(h, s, ev, n)
    BY <2>1, EmitSteps
  <2> QED
    BY <2>2 DEF EmitsBySteps
<1> DEFINE Bad == {k \in 0 .. n : ~SameMeasures(s, h[k])}
<1>2. SameMeasures(s, h[0])
  BY <1>1 DEF SameMeasures
<1>3. ASSUME NEW k \in 1 .. n, SameMeasures(s, h[k - 1]) PROVE SameMeasures(s, h[k])
  <2>1. PICK before, e, after : before = h[k - 1] /\ e = ev[k] /\ after = h[k]
    OBVIOUS
  <2>2. after = Emit(before, e) /\ e.level \in Levels /\ e.tag \in Tags /\ e.tag # "CodeBlockProcessed"
    BY <1>1, <2>1 DEF Sound
  <2>3. SameMeasures(s, before)
    BY <1>3, <2>1
  <2>4. Numbered(before)
    BY <2>3 DEF SameMeasures, Numbered
  <2>5. SameMeasures(before, after)
    BY <2>2, <2>4, EmitSameMeasures
  <2>6. SameMeasures(s, after)
    BY <2>3, <2>5 DEF SameMeasures
  <2> QED
    BY <2>1, <2>6
<1>4. Bad = {}
  <2> SUFFICES ASSUME Bad # {} PROVE FALSE
    OBVIOUS
  <2>1. Bad \in SUBSET Nat
    OBVIOUS
  <2> HIDE DEF Bad
  <2>2. PICK k \in Bad : \A j \in Bad : k <= j
    BY <2>1, LeastNumber
  <2> USE DEF Bad
  <2>3. k \in 0 .. n /\ ~SameMeasures(s, h[k])
    OBVIOUS
  <2>4. k # 0
    BY <1>2, <2>3
  <2>5. k - 1 \in 0 .. n /\ ~(k <= k - 1) /\ k \in 1 .. n
    BY <2>3, <2>4
  <2>6. SameMeasures(s, h[k - 1])
    BY <2>2, <2>5
  <2> QED
    BY <1>3, <2>3, <2>5, <2>6
<1> QED
  BY <1>1, <1>4

\* The blocks of D that add to a series, and those of a page.
Share(D, x)  == {b \in D : x = Untagged \/ Series(b) = x}
OnPage(D, p) == {b \in D : b[1] = p}

\* The fields of the tally of a page.
TallyFields == {"blocks", "twoslashBlocks", "totalMs", "twoslashMs"}

\* The sinks hold the sums over the blocks in D.
Totalled(s, D) == \A f \in Fields : \A x : Read(s.metrics, <<f, x>>) = SumOf(Gain(f), Share(D, x))
Named(s, D) ==
  /\ \A k \in DOMAIN s.metrics : k[1] \in Fields /\ k[2] # Untagged => \E b \in D : k[2] = Series(b)
  /\ \A b \in D : <<"blocks", Series(b)>> \in DOMAIN s.metrics
Paged(s, D) ==
  /\ DOMAIN s.byFile = {b[1] : b \in D}
  /\ \A p \in DOMAIN s.byFile : s.byFile[p] = [f \in TallyFields |-> SumOf(Gain(f), OnPage(D, p))]
Measures(s, D) == Totalled(s, D) /\ Named(s, D) /\ Paged(s, D)

\* What is measured is in numbers.
LEMMA MeasuresNumbers ==
  ASSUME site \in Sites, pages = Pages, NEW D \in SUBSET Blocks, NEW s, Totalled(s, D)
  PROVE  Numbered(s)
<1>1. PICK B : B = Blocks /\ IsFiniteSet(B)
  BY BlocksFinite
<1>2. ASSUME NEW f \in Fields, NEW x PROVE Read(s.metrics, <<f, x>>) \in Nat
  <2>1. PICK g, T : g = Gain(f) /\ T = Share(D, x)
    OBVIOUS
  <2>2. g \in [B -> Nat] /\ T \in SUBSET B
    BY <1>1, <2>1, GainSays DEF Share
  <2>3. SumOf(g, T) \in Nat
    BY <1>1, <2>2, SumOfSteps
  <2> QED
    BY <2>1, <2>3 DEF Totalled
<1> QED
  BY <1>2 DEF Numbered

\* Sinks that hold the same of the blocks measure the same blocks.
LEMMA MeasuresStay ==
  ASSUME NEW D, NEW s, NEW t, Measures(s, D), SameMeasures(s, t)
  PROVE  Measures(t, D)
<1>1. Totalled(t, D)
  BY DEF Measures, Totalled, SameMeasures
<1>2. Named(t, D)
  <2>1. \A b \in D : <<"blocks", Series(b)>> \in DOMAIN t.metrics
    <3>1. ASSUME NEW b \in D PROVE <<"blocks", Series(b)>> \in DOMAIN t.metrics
      <4>1. PICK k : k = <<"blocks", Series(b)>>
        OBVIOUS
      <4>2. k[1] \in Fields /\ k \in DOMAIN s.metrics
        BY <4>1 DEF Measures, Named, Fields
      <4> QED
        BY <4>1, <4>2 DEF SameMeasures
    <3> QED
      BY <3>1
  <2> QED
    BY <2>1 DEF Measures, Named, SameMeasures
<1>3. Paged(t, D)
  BY DEF Measures, Paged, SameMeasures
<1> QED
  BY <1>1, <1>2, <1>3 DEF Measures

\* Silent sinks measure no block.
LEMMA SilentMeasures ==
  ASSUME site \in Sites, pages = Pages
  PROVE  Measures(Silent, {})
<1>1. Silent.metrics = <<>> /\ Silent.byFile = <<>>
  BY DEF Silent
<1>2. DOMAIN <<>> = {}
  OBVIOUS
<1>3. ASSUME NEW f \in Fields, NEW x PROVE SumOf(Gain(f), Share({}, x)) = 0
  <2>1. PICK g, B : g = Gain(f) /\ B = Blocks /\ IsFiniteSet(B)
    BY BlocksFinite
  <2>2. g \in [B -> Nat] /\ Share({}, x) = {}
    BY <2>1, GainSays DEF Share
  <2>3. SumOf(g, {}) = 0
    BY <2>1, <2>2, SumOfSteps
  <2> QED
    BY <2>1, <2>2, <2>3
<1>4. \A key : Read(<<>>, key) = 0
  BY <1>2 DEF Read
<1> QED
  BY <1>1, <1>2, <1>3, <1>4 DEF Measures, Totalled, Named, Paged

\* What a block adds to a series.
LEMMA BlockIncrements ==
  ASSUME site \in Sites, pages = Pages, NEW b \in Blocks
  PROVE  /\ \A f \in Fields : \A x :
              Read(Increments(Processed(b)), <<f, x>>) = IF x \in {Untagged, Series(b)} THEN Gain(f)[b] ELSE 0
         /\ \A k \in DOMAIN Increments(Processed(b)) : k[2] \in {Untagged, Series(b)}
         /\ <<"blocks", Series(b)>> \in DOMAIN Increments(Processed(b))
<1>1. PICK e, x0 : e = Processed(b) /\ x0 = Series(b)
  OBVIOUS
<1>2. PICK m, more : m = Measured(e) /\ more = Increments(e)
  OBVIOUS
<1>3. e.tag = "CodeBlockProcessed" /\ x0 = <<e.scope, e.component, e.twoslash>>
  BY <1>1, ProcessedSays DEF Series
<1>4. more = [key \in (DOMAIN m) \X {Untagged, x0} |-> m[key[1]]]
  BY <1>2, <1>3 DEF Increments
<1>5. ASSUME NEW f \in Fields, NEW x
      PROVE  Read(more, <<f, x>>) = IF x \in {Untagged, x0} THEN Read(m, f) ELSE 0
  <2>1. <<f, x>> \in DOMAIN more <=> f \in DOMAIN m /\ x \in {Untagged, x0}
    BY <1>4
  <2>2. <<f, x>> \in DOMAIN more => more[<<f, x>>] = m[f]
    BY <1>4
  <2> QED
    BY <2>1, <2>2 DEF Read
<1>6. \A f : Gain(f)[b] = Read(m, f)
  BY <1>1, <1>2 DEF Gain
<1>7. \A k \in DOMAIN more : k[2] \in {Untagged, x0}
  BY <1>4
<1>8. "blocks" \in DOMAIN m
  BY <1>2 DEF Measured, Fields
<1>9. <<"blocks", x0>> \in DOMAIN more
  BY <1>4, <1>8
<1> QED
  BY <1>1, <1>2, <1>5, <1>6, <1>7, <1>9

\* A block adds to the sums of the series it is of.
LEMMA LinkTotals ==
  ASSUME site \in Sites, pages = Pages, NEW D \in SUBSET Blocks, NEW b \in Blocks \ D,
         NEW s, NEW t, Totalled(s, D), t.metrics = Counted(s.metrics, Processed(b))
  PROVE  Totalled(t, D \cup {b})
<1>1. PICK B : B = Blocks /\ IsFiniteSet(B)
  BY BlocksFinite
<1>2. ASSUME NEW f \in Fields, NEW x PROVE Read(t.metrics, <<f, x>>) = SumOf(Gain(f), Share(D \cup {b}, x))
  <2>1. PICK g, T, U, key : g = Gain(f) /\ T = Share(D, x) /\ U = Share(D \cup {b}, x) /\ key = <<f, x>>
    OBVIOUS
  <2>2. g \in [B -> Nat] /\ T \in SUBSET B /\ b \in B \ T
    BY <1>1, <2>1, GainSays DEF Share
  <2>3. SumOf(g, T) \in Nat /\ SumOf(g, T \cup {b}) = g[b] + SumOf(g, T)
    BY <1>1, <2>2, SumOfSteps
  <2>4. Read(s.metrics, key) = SumOf(g, T)
    BY <2>1 DEF Totalled
  <2>5. Read(Increments(Processed(b)), key) = IF x \in {Untagged, Series(b)} THEN g[b] ELSE 0
    BY <2>1, BlockIncrements
  <2>6. g[b] \in Nat
    BY <1>1, <2>2
  <2>7. Read(s.metrics, key) \in Nat /\ Read(Increments(Processed(b)), key) \in Nat
    BY <2>3, <2>4, <2>5, <2>6
  <2>8. PICK m, e : m = s.metrics /\ e = Processed(b)
    OBVIOUS
  <2>9. Read(Counted(m, e), key) = Read(m, key) + Read(Increments(e), key)
    BY <2>7, <2>8, CountedAdds
  <2>10. U = T \cup IF x \in {Untagged, Series(b)} THEN {b} ELSE {}
    BY <2>1 DEF Share
  <2>11. CASE x \in {Untagged, Series(b)}
    <3>1. U = T \cup {b}
      BY <2>10, <2>11
    <3>2. Read(t.metrics, key) = SumOf(g, T) + g[b]
      BY <2>4, <2>5, <2>8, <2>9, <2>11
    <3>3. SumOf(g, U) = SumOf(g, T) + g[b]
      BY <2>3, <2>6, <3>1
    <3> QED
      BY <2>1, <3>2, <3>3
  <2>12. CASE x \notin {Untagged, Series(b)}
    <3>1. U = T
      BY <2>10, <2>12
    <3> QED
      BY <2>1, <2>3, <2>4, <2>5, <2>8, <2>9, <2>12, <3>1
  <2> QED
    BY <2>11, <2>12
<1> QED
  BY <1>2 DEF Totalled

\* A block that is done names its series.
LEMMA LinkNames ==
  ASSUME site \in Sites, pages = Pages, NEW D \in SUBSET Blocks, NEW b \in Blocks \ D,
         NEW s, NEW t, Named(s, D), t.metrics = Counted(s.metrics, Processed(b))
  PROVE  Named(t, D \cup {b})
<1>1. PICK more : more = Increments(Processed(b))
  OBVIOUS
<1>2. DOMAIN t.metrics = DOMAIN s.metrics \cup DOMAIN more
  BY <1>1 DEF Counted
<1>3. /\ \A k \in DOMAIN more : k[2] \in {Untagged, Series(b)}
      /\ <<"blocks", Series(b)>> \in DOMAIN more
  BY <1>1, BlockIncrements
<1>4. \A k \in DOMAIN t.metrics : k[1] \in Fields /\ k[2] # Untagged => \E c \in D \cup {b} : k[2] = Series(c)
  BY <1>2, <1>3 DEF Named
<1>5. \A c \in D \cup {b} : <<"blocks", Series(c)>> \in DOMAIN t.metrics
  BY <1>2, <1>3 DEF Named
<1> QED
  BY <1>4, <1>5 DEF Named

\* A block that is done adds to the tally of its page, and to no other.
LEMMA LinkPages ==
  ASSUME site \in Sites, pages = Pages, NEW D \in SUBSET Blocks, NEW b \in Blocks \ D,
         NEW s, NEW t, Paged(s, D), t.byFile = Tallied(s.byFile, Processed(b))
  PROVE  Paged(t, D \cup {b})
<1>1. PICK B : B = Blocks /\ IsFiniteSet(B)
  BY BlocksFinite
<1>2. PICK e, q, old, new : e = Processed(b) /\ q = b[1] /\ old = s.byFile /\ new = t.byFile
  OBVIOUS
<1>3. e.file = q
  BY <1>2, ProcessedSays
<1> DEFINE Zero == [blocks |-> 0, twoslashBlocks |-> 0, totalMs |-> 0, twoslashMs |-> 0]
           Before(p) == IF p \in DOMAIN old THEN old[p] ELSE Zero
           Grown(o)  == [f \in DOMAIN o |-> o[f] + Read(Measured(e), f)]
<1>4. new = [p \in DOMAIN old \cup {q} |-> IF p # q THEN Before(p) ELSE Grown(Before(p))]
  BY <1>2, <1>3 DEF Tallied
<1>5. DOMAIN old = {c[1] : c \in D} /\ \A p \in DOMAIN old : old[p] = [f \in TallyFields |-> SumOf(Gain(f), OnPage(D, p))]
  BY <1>2 DEF Paged
<1>6. DOMAIN new = {c[1] : c \in D \cup {b}}
  BY <1>2, <1>4, <1>5
<1>7. TallyFields \subseteq Fields
  BY DEF TallyFields, Fields
<1>8. ASSUME NEW p, p \notin DOMAIN old
      PROVE  Zero = [f \in TallyFields |-> SumOf(Gain(f), OnPage(D, p))]
  <2>1. OnPage(D, p) = {}
    BY <1>5, <1>8 DEF OnPage
  <2>2. ASSUME NEW f \in TallyFields PROVE SumOf(Gain(f), OnPage(D, p)) = 0
    <3>1. PICK g : g = Gain(f)
      OBVIOUS
    <3>2. g \in [B -> Nat]
      BY <1>1, <1>7, <3>1, GainSays
    <3>3. SumOf(g, {}) = 0
      BY <1>1, <3>2, SumOfSteps
    <3> QED
      BY <2>1, <3>1, <3>3
  <2> DEFINE sums == [f \in TallyFields |-> SumOf(Gain(f), OnPage(D, p))]
  <2>3. \A f \in TallyFields : sums[f] = 0
    BY <2>2
  <2>4. DOMAIN sums = TallyFields /\ sums = [f \in TallyFields |-> sums[f]]
    OBVIOUS
  <2> HIDE DEF sums
  <2>5. sums = [f \in TallyFields |-> 0]
    BY <2>3, <2>4
  <2>6. Zero = [f \in TallyFields |-> 0]
    BY DEF TallyFields
  <2> QED
    BY <2>5, <2>6 DEF sums
<1>9. \A p : Before(p) = [f \in TallyFields |-> SumOf(Gain(f), OnPage(D, p))]
  BY <1>5, <1>8
<1> HIDE DEF Before, Zero
<1>10. ASSUME NEW p \in DOMAIN new PROVE new[p] = [f \in TallyFields |-> SumOf(Gain(f), OnPage(D \cup {b}, p))]
  <2>1. CASE p # q
    <3>1. OnPage(D \cup {b}, p) = OnPage(D, p)
      BY <1>2, <2>1 DEF OnPage
    <3>2. new[p] = Before(p)
      BY <1>4, <2>1
    <3> QED
      BY <1>9, <3>1, <3>2
  <2>2. CASE p = q
    <3>1. OnPage(D \cup {b}, p) = OnPage(D, p) \cup {b} /\ b \notin OnPage(D, p) /\ OnPage(D, p) \in SUBSET B
      BY <1>1, <1>2, <2>2 DEF OnPage
    <3>2. new[p] = Grown(Before(p))
      BY <1>4, <2>2
    <3>3. ASSUME NEW f \in TallyFields
          PROVE  SumOf(Gain(f), OnPage(D, p)) + Read(Measured(e), f) = SumOf(Gain(f), OnPage(D \cup {b}, p))
      <4>1. PICK g, T : g = Gain(f) /\ T = OnPage(D, p)
        OBVIOUS
      <4>2. g \in [B -> Nat] /\ T \in SUBSET B /\ b \in B \ T
        BY <1>1, <1>7, <3>1, <4>1, GainSays
      <4>3. SumOf(g, T) \in Nat /\ SumOf(g, T \cup {b}) = g[b] + SumOf(g, T) /\ g[b] \in Nat
        BY <1>1, <4>2, SumOfSteps
      <4>4. g[b] = Read(Measured(e), f)
        BY <1>2, <4>1 DEF Gain
      <4>5. OnPage(D \cup {b}, p) = T \cup {b}
        BY <3>1, <4>1
      <4>6. SumOf(g, T) + Read(Measured(e), f) = SumOf(g, T \cup {b})
        BY <4>3, <4>4
      <4> QED
        BY <4>1, <4>5, <4>6
    <3>4. PICK o : o = Before(p)
      OBVIOUS
    <3>5. DOMAIN o = TallyFields /\ \A f \in TallyFields : o[f] = SumOf(Gain(f), OnPage(D, p))
      BY <1>9, <3>4
    <3>6. Grown(o) = [f \in TallyFields |-> o[f] + Read(Measured(e), f)]
      BY <3>5
    <3>7. \A f \in TallyFields : o[f] + Read(Measured(e), f) = SumOf(Gain(f), OnPage(D \cup {b}, p))
      BY <3>3, <3>5
    <3> QED
      BY <3>2, <3>4, <3>6, <3>7
  <2> QED
    BY <2>1, <2>2
<1> QED
  BY <1>2, <1>6, <1>10 DEF Paged

\* A block that is done is measured.
LEMMA LinkMeasures ==
  ASSUME site \in Sites, pages = Pages, NEW D \in SUBSET Blocks, NEW b \in Blocks \ D, NEW s, Measures(s, D)
  PROVE  Measures(Emit(s, Processed(b)), D \cup {b})
<1>1. PICK t, e : t = Emit(s, e) /\ e = Processed(b)
  OBVIOUS
<1>2. e.tag = "CodeBlockProcessed" /\ e.level \in Levels
  BY <1>1, ProcessedSays DEF Levels
<1>3. t.metrics = Counted(s.metrics, e) /\ t.byFile = Tallied(s.byFile, e)
  BY <1>1, <1>2, AllAdmitted DEF Emit
<1>4. Totalled(t, D \cup {b}) /\ Named(t, D \cup {b}) /\ Paged(t, D \cup {b})
  BY <1>1, <1>3, LinkTotals, LinkNames, LinkPages DEF Measures
<1> QED
  BY <1>1, <1>4 DEF Measures

--------------------------------------------------------------------------------
(* The list of the slowest blocks. *)

\* A list of n samples with x put in at p, the others in their order.
Put(v, list, n, p, x) ==
  /\ v[p] = x
  /\ \A k \in 1 .. p - 1 : v[k] = list[k]
  /\ \A k \in p + 1 .. n + 1 : v[k] = list[k - 1]

\* A sample goes in and the others stay in their order.
LEMMA InsertedAt ==
  ASSUME NEW X, NEW list \in Seq(X), NEW x \in X, NEW n \in Nat, n = Len(list), NEW p \in 1 .. n + 1,
         NEW v, v = InsertAt(list, p, x)
  PROVE  v \in Seq(X) /\ Len(v) = n + 1 /\ Put(v, list, n, p, x)
<1>1. PICK a, c : a = SubSeq(list, 1, p - 1) /\ c = SubSeq(list, p, n)
  OBVIOUS
<1>2. a \in Seq(X) /\ Len(a) = p - 1 /\ \A k \in 1 .. p - 1 : a[k] = list[k]
  BY <1>1
<1>3. c \in Seq(X) /\ Len(c) = n + 1 - p /\ \A k \in 1 .. n + 1 - p : c[k] = list[p + k - 1]
  BY <1>1
<1>4. PICK d : d = a \o <<x>>
  OBVIOUS
<1>5. d \in Seq(X) /\ Len(d) = p /\ d[p] = x /\ \A k \in 1 .. p - 1 : d[k] = list[k]
  BY <1>2, <1>4
<1>6. v = d \o c
  BY <1>1, <1>4 DEF InsertAt
<1>7. /\ v \in Seq(X) /\ Len(v) = n + 1 /\ \A k \in 1 .. p : v[k] = d[k]
      /\ \A k \in p + 1 .. n + 1 : v[k] = c[k - p]
  BY <1>3, <1>5, <1>6
<1>8. \A k \in p + 1 .. n + 1 : v[k] = list[k - 1]
  <2> SUFFICES ASSUME NEW k \in p + 1 .. n + 1 PROVE v[k] = list[k - 1]
    OBVIOUS
  <2>1. k - p \in 1 .. n + 1 - p /\ p + (k - p) - 1 = k - 1
    OBVIOUS
  <2> QED
    BY <1>3, <1>7, <2>1
<1> QED
  BY <1>5, <1>7, <1>8 DEF Put

\* No sample takes less time than one after it.
Descending(list) == \A j, k \in 1 .. Len(list) : j <= k => list[k].totalMs <= list[j].totalMs

\* Where a sample goes.
LEMMA PlaceSays ==
  ASSUME NEW X, \A x \in X : x.totalMs \in Nat, NEW list \in Seq(X), NEW n \in Nat, n = Len(list),
         Descending(list), NEW e, e.totalMs \in Nat
  PROVE  /\ Place(list, e) \in 1 .. n + 1
         /\ \A k \in 1 .. n : IF k < Place(list, e) THEN list[k].totalMs >= e.totalMs
                              ELSE list[k].totalMs < e.totalMs
<1>1. PICK slower : slower = {k \in 1 .. n : list[k].totalMs < e.totalMs}
  OBVIOUS
<1>2. PICK p : p = Place(list, e)
  OBVIOUS
<1>3. p = IF slower = {} THEN n + 1 ELSE Min(slower)
  <2>1. DOMAIN list = 1 .. n
    OBVIOUS
  <2> QED
    BY <1>1, <1>2, <2>1 DEF Place
<1>4. \A k \in 1 .. n : list[k].totalMs \in Nat
  OBVIOUS
<1>5. CASE slower = {}
  BY <1>1, <1>2, <1>3, <1>4, <1>5
<1>6. CASE slower # {}
  <2>1. \E m \in slower : \A y \in slower : m <= y
    <3>1. slower \in SUBSET Nat
      BY <1>1
    <3> QED
      BY <1>6, <3>1, LeastNumber
  <2>2. p \in slower /\ \A y \in slower : p <= y
    BY <1>3, <1>6, <2>1 DEF Min
  <2>3. p \in 1 .. n /\ list[p].totalMs < e.totalMs
    BY <1>1, <2>2
  <2>4. ASSUME NEW k \in 1 .. n, k < p PROVE list[k].totalMs >= e.totalMs
    <3>1. k \notin slower
      BY <2>2, <2>3, <2>4
    <3> QED
      BY <1>1, <1>4, <3>1
  <2>5. ASSUME NEW k \in 1 .. n, ~(k < p) PROVE list[k].totalMs < e.totalMs
    <3>1. p <= k /\ list[k].totalMs <= list[p].totalMs
      BY <2>3, <2>5 DEF Descending
    <3> QED
      BY <1>4, <2>3, <3>1
  <2> QED
    BY <1>2, <2>3, <2>4, <2>5
<1> QED
  BY <1>5, <1>6

\* A sample is in a list.
In(list, x) == \E k \in 1 .. Len(list) : list[k] = x

\* A list that is not full takes any sample, a full one gives up its last for
\* one that took longer.
Replaced(list, t, x) ==
  /\ In(t, x) /\ \A k \in 1 .. SlowestLimit - 1 : In(t, list[k])
  /\ \A j \in 1 .. SlowestLimit : list[SlowestLimit].totalMs <= t[j].totalMs
Took(list, t, x) ==
  /\ Descending(t)
  /\ Len(list) < SlowestLimit =>
       Len(t) = Len(list) + 1 /\ In(t, x) /\ \A k \in 1 .. Len(list) : In(t, list[k])
  /\ Len(list) = SlowestLimit =>
       /\ Len(t) = SlowestLimit
       /\ \/ t = list /\ \A k \in 1 .. SlowestLimit : x.totalMs <= list[k].totalMs
          \/ Replaced(list, t, x)

\* What sampling a block does to the list of the slowest.
LEMMA SampledTakes ==
  ASSUME NEW X, \A x \in X : x.totalMs \in Nat, NEW list \in Seq(X), Len(list) <= SlowestLimit,
         Descending(list), NEW e, NEW x \in X, x = [block |-> e.block, totalMs |-> e.totalMs]
  PROVE  Sampled(list, e) \in Seq(X) /\ Took(list, Sampled(list, e), x)
<1>1. PICK n \in Nat, L \in Nat \ {0} : n = Len(list) /\ L = SlowestLimit
  BY SlowestAssumption
<1>2. x.totalMs = e.totalMs /\ e.totalMs \in Nat /\ \A k \in 1 .. n : list[k] \in X /\ list[k].totalMs \in Nat
  BY <1>1
<1>3. PICK p : p = Place(list, e)
  OBVIOUS
<1>4. /\ p \in 1 .. n + 1
      /\ \A k \in 1 .. n : IF k < p THEN list[k].totalMs >= e.totalMs ELSE list[k].totalMs < e.totalMs
  BY <1>1, <1>2, <1>3, PlaceSays
<1>5. PICK v : v = InsertAt(list, p, x)
  OBVIOUS
<1>6. /\ v \in Seq(X) /\ Len(v) = n + 1 /\ v[p] = x
      /\ \A k \in 1 .. p - 1 : v[k] = list[k]
      /\ \A k \in p + 1 .. n + 1 : v[k] = list[k - 1]
  <2>1. n = Len(list) /\ p \in 1 .. n + 1
    BY <1>1, <1>4
  <2>2. v \in Seq(X) /\ Len(v) = n + 1 /\ Put(v, list, n, p, x)
    BY <1>5, <2>1, InsertedAt
  <2> QED
    BY <2>2 DEF Put
<1>7. PICK t : t = Sampled(list, e)
  OBVIOUS
<1>8. PICK m : m = IF n + 1 > L THEN L ELSE n + 1
  OBVIOUS
<1>9. m \in 1 .. n + 1 /\ n <= L /\ (n < L => m = n + 1) /\ (n = L => m = n)
  BY <1>1, <1>8
<1>10. PICK w : w = SubSeq(v, 1, m)
  OBVIOUS
<1>11. w \in Seq(X) /\ Len(w) = m /\ \A k \in 1 .. m : w[k] = v[k]
  BY <1>6, <1>9, <1>10
<1>12. Cut(v) = w
  BY <1>1, <1>6, <1>8, <1>10 DEF Cut
<1>13. t = IF n < L \/ e.totalMs > Last(list).totalMs THEN w ELSE list
  BY <1>1, <1>3, <1>5, <1>7, <1>12 DEF Sampled
<1>14. \A k \in 1 .. n + 1 : v[k] \in X /\ v[k].totalMs \in Nat
  BY <1>6
<1>15. \A j, k \in 1 .. n + 1 : j <= k => v[k].totalMs <= v[j].totalMs
  <2> SUFFICES ASSUME NEW j \in 1 .. n + 1, NEW k \in 1 .. n + 1, j <= k
               PROVE  v[k].totalMs <= v[j].totalMs
    OBVIOUS
  <2>1. CASE k < p
    <3>1. k \in 1 .. n /\ j \in 1 .. n /\ k \in 1 .. p - 1 /\ j \in 1 .. p - 1
      BY <1>1, <1>4, <2>1
    <3>2. v[k] = list[k] /\ v[j] = list[j]
      BY <1>6, <3>1
    <3> QED
      BY <1>1, <3>1, <3>2 DEF Descending
  <2>2. CASE j < p /\ k = p
    <3>1. j \in 1 .. n /\ j \in 1 .. p - 1
      BY <1>1, <1>4, <2>2
    <3>2. v[k] = x /\ v[j] = list[j]
      BY <1>6, <2>2, <3>1
    <3>3. list[j].totalMs >= e.totalMs /\ list[j].totalMs \in Nat
      BY <1>2, <1>4, <2>2, <3>1
    <3> QED
      BY <1>2, <3>2, <3>3
  <2>3. CASE j < p /\ k > p
    <3>1. /\ j \in 1 .. n /\ k - 1 \in 1 .. n /\ j <= k - 1
          /\ j \in 1 .. p - 1 /\ k \in p + 1 .. n + 1
      BY <1>1, <1>4, <2>3
    <3>2. v[k] = list[k - 1] /\ v[j] = list[j]
      BY <1>6, <3>1
    <3> QED
      BY <1>1, <3>1, <3>2 DEF Descending
  <2>4. CASE j = p /\ k = p
    BY <1>14, <2>4
  <2>5. CASE j = p /\ k > p
    <3>1. k - 1 \in 1 .. n /\ ~(k - 1 < p) /\ k \in p + 1 .. n + 1
      BY <1>1, <1>4, <2>5
    <3>2. v[k] = list[k - 1] /\ v[j] = x
      BY <1>6, <2>5, <3>1
    <3>3. list[k - 1].totalMs < e.totalMs /\ list[k - 1].totalMs \in Nat
      BY <1>2, <1>4, <3>1
    <3> QED
      BY <1>2, <3>2, <3>3
  <2>6. CASE j > p
    <3>1. /\ j - 1 \in 1 .. n /\ k - 1 \in 1 .. n /\ j - 1 <= k - 1
          /\ j \in p + 1 .. n + 1 /\ k \in p + 1 .. n + 1
      BY <1>1, <1>4, <2>6
    <3>2. v[k] = list[k - 1] /\ v[j] = list[j - 1]
      BY <1>6, <3>1
    <3> QED
      BY <1>1, <3>1, <3>2 DEF Descending
  <2> QED
    BY <1>4, <2>1, <2>2, <2>3, <2>4, <2>5, <2>6
<1>16. Descending(w)
  <2> SUFFICES ASSUME NEW j \in 1 .. m, NEW k \in 1 .. m, j <= k PROVE w[k].totalMs <= w[j].totalMs
    BY <1>11 DEF Descending
  <2>1. j \in 1 .. n + 1 /\ k \in 1 .. n + 1 /\ w[j] = v[j] /\ w[k] = v[k]
    BY <1>9, <1>11
  <2> QED
    BY <1>15, <2>1
<1>17. ASSUME n < L PROVE Len(w) = n + 1 /\ In(w, x) /\ \A k \in 1 .. n : In(w, list[k])
  <2>1. m = n + 1 /\ \A k \in 1 .. n + 1 : w[k] = v[k]
    BY <1>9, <1>11, <1>17
  <2>2. In(w, x)
    BY <1>4, <1>6, <1>11, <2>1 DEF In
  <2>3. ASSUME NEW k \in 1 .. n PROVE In(w, list[k])
    <3>1. CASE k < p
      BY <1>4, <1>6, <1>11, <2>1, <3>1 DEF In
    <3>2. CASE ~(k < p)
      <4>1. k + 1 \in p + 1 .. n + 1 /\ k + 1 \in 1 .. n + 1 /\ (k + 1) - 1 = k
        BY <1>4, <3>2
      <4>2. w[k + 1] = list[k]
        BY <1>6, <2>1, <4>1
      <4> QED
        BY <1>11, <2>1, <4>1, <4>2 DEF In
    <3> QED
      BY <3>1, <3>2
  <2> QED
    BY <1>11, <2>1, <2>2, <2>3
<1>18. ASSUME n = L PROVE Last(list) = list[L] /\ L \in 1 .. n /\ list[L].totalMs \in Nat
  BY <1>1, <1>2, <1>18 DEF Last
<1>19. ASSUME n = L, e.totalMs > list[L].totalMs PROVE Replaced(list, w, x)
  <2>1. m = L /\ p <= L /\ L \in 1 .. n
    <3>1. IF L < p THEN list[L].totalMs >= e.totalMs ELSE list[L].totalMs < e.totalMs
      BY <1>4, <1>18, <1>19
    <3> QED
      BY <1>2, <1>4, <1>9, <1>18, <1>19, <3>1
  <2>2. In(w, x)
    <3>1. p \in 1 .. m
      BY <1>4, <2>1
    <3> QED
      BY <1>6, <1>11, <3>1 DEF In
  <2>3. ASSUME NEW k \in 1 .. L - 1 PROVE In(w, list[k])
    <3>1. CASE k < p
      <4>1. k \in 1 .. p - 1 /\ k \in 1 .. m
        BY <1>4, <2>1, <3>1
      <4> QED
        BY <1>6, <1>11, <4>1 DEF In
    <3>2. CASE ~(k < p)
      <4>1. k + 1 \in p + 1 .. n + 1 /\ k + 1 \in 1 .. m /\ (k + 1) - 1 = k
        BY <1>4, <1>19, <2>1, <3>2
      <4>2. w[k + 1] = list[k]
        BY <1>6, <1>11, <4>1
      <4> QED
        BY <1>11, <4>1, <4>2 DEF In
    <3> QED
      BY <3>1, <3>2
  <2>4. ASSUME NEW j \in 1 .. L PROVE list[L].totalMs <= w[j].totalMs
    <3>1. v[L + 1] = list[L]
      <4>1. L + 1 \in p + 1 .. n + 1 /\ (L + 1) - 1 = L
        BY <1>4, <1>19, <2>1
      <4> QED
        BY <1>6, <4>1
    <3>2. w[j] = v[j]
      BY <1>11, <2>1
    <3>3. j \in 1 .. n + 1 /\ L + 1 \in 1 .. n + 1 /\ j <= L + 1
      BY <1>19
    <3> QED
      BY <1>15, <3>1, <3>2, <3>3
  <2> QED
    BY <1>1, <2>2, <2>3, <2>4 DEF Replaced
<1>20. t \in Seq(X) /\ Descending(t)
  BY <1>11, <1>13, <1>16
<1>21. ASSUME n < L PROVE Len(t) = n + 1 /\ In(t, x) /\ \A k \in 1 .. n : In(t, list[k])
  BY <1>13, <1>17, <1>21
<1>22. ASSUME n = L
       PROVE  /\ Len(t) = L
              /\ (t = list /\ \A k \in 1 .. L : x.totalMs <= list[k].totalMs) \/ Replaced(list, t, x)
  <2>1. CASE e.totalMs > list[L].totalMs
    <3>1. t = w
      BY <1>13, <1>18, <1>22, <2>1
    <3> QED
      BY <1>9, <1>11, <1>19, <1>22, <2>1, <3>1
  <2>2. CASE ~(e.totalMs > list[L].totalMs)
    <3>1. t = list
      BY <1>13, <1>18, <1>22, <2>2
    <3>2. ASSUME NEW k \in 1 .. L PROVE x.totalMs <= list[k].totalMs
      <4>1. list[L].totalMs <= list[k].totalMs /\ list[k].totalMs \in Nat
        BY <1>1, <1>2, <1>18, <1>22 DEF Descending
      <4> QED
        BY <1>2, <1>18, <1>22, <2>2, <4>1
    <3> QED
      BY <1>1, <1>22, <3>1, <3>2
  <2> QED
    BY <2>1, <2>2
<1> QED
  BY <1>1, <1>7, <1>20, <1>21, <1>22 DEF Took

\* The sample of a block, and those of the blocks in D.
Sample(b)  == [block |-> b, totalMs |-> At(b).ms]
Samples(D) == {Sample(b) : b \in D}

\* The list samples the slowest of the blocks in D.
Ranked(list, D) ==
  /\ list \in Seq(Samples(D)) /\ Descending(list)
  /\ Len(list) = IF Cardinality(D) < SlowestLimit THEN Cardinality(D) ELSE SlowestLimit
  /\ Len(list) < SlowestLimit => \A b \in D : In(list, Sample(b))
  /\ \A b \in D : In(list, Sample(b)) \/ \A k \in 1 .. Len(list) : At(b).ms <= list[k].totalMs

\* No block is ranked in an empty list.
LEMMA SilentRanks == Ranked(<<>>, {})
<1>1. Cardinality({}) = 0 /\ Len(<<>>) = 0 /\ SlowestLimit \in Nat /\ 0 < SlowestLimit
  BY FS_EmptySet, SlowestAssumption
<1>2. <<>> \in Seq(Samples({})) /\ Descending(<<>>)
  BY DEF Descending
<1> QED
  BY <1>1, <1>2 DEF Ranked

\* A block that is done is ranked.
LEMMA LinkRanks ==
  ASSUME site \in Sites, pages = Pages, NEW D \in SUBSET Blocks, NEW b \in Blocks \ D,
         NEW list, Ranked(list, D)
  PROVE  Ranked(Sampled(list, Processed(b)), D \cup {b})
<1>1. PICK E, X, x, e, t : /\ E = D \cup {b} /\ X = Samples(E) /\ x = Sample(b) /\ e = Processed(b)
                           /\ t = Sampled(list, e)
  OBVIOUS
<1>2. E \in SUBSET Blocks /\ b \in E
  BY <1>1
<1>3. /\ \A c \in E : At(c).ms \in Nat /\ Sample(c).totalMs = At(c).ms /\ Sample(c) \in X
      /\ \A y \in X : y.totalMs \in Nat /\ \E c \in E : y = Sample(c)
  <2>1. \A c \in E : At(c).ms \in Nat
    BY <1>2, ProcessedSays
  <2>2. \A c \in E : Sample(c).totalMs = At(c).ms
    BY DEF Sample
  <2>3. X = {Sample(c) : c \in E}
    BY <1>1 DEF Samples
  <2> HIDE DEF Sample
  <2> QED
    BY <2>1, <2>2, <2>3
<1>4. PICK L \in Nat \ {0} : L = SlowestLimit
  BY SlowestAssumption
<1>5. PICK d \in Nat : d = Cardinality(D) /\ Cardinality(E) = d + 1
  <2>1. IsFiniteSet(D)
    <3>1. PICK B : B = Blocks /\ IsFiniteSet(B)
      BY BlocksFinite
    <3> QED
      BY <3>1, FS_Subset
  <2>2. Cardinality(D) \in Nat /\ Cardinality(D \cup {b}) = Cardinality(D) + 1
    BY <2>1, FS_CardinalityType, FS_AddElement
  <2> QED
    BY <1>1, <2>2
<1>6. list \in Seq(X) /\ Descending(list)
  <2>1. PICK Y : Y = Samples(D)
    OBVIOUS
  <2>2. Y \subseteq X /\ list \in Seq(Y)
    BY <1>1, <2>1 DEF Ranked, Samples
  <2> QED
    BY <2>2 DEF Ranked
<1>7. PICK n \in Nat : n = Len(list) /\ n = IF d < L THEN d ELSE L
  BY <1>4, <1>5 DEF Ranked
<1>8. x \in X /\ x = [block |-> e.block, totalMs |-> e.totalMs]
  BY <1>1, <1>2, <1>3, ProcessedSays DEF Sample
<1>9. t \in Seq(X) /\ Took(list, t, x)
  <2>1. Len(list) <= SlowestLimit
    BY <1>4, <1>7
  <2>2. \A y \in X : y.totalMs \in Nat
    BY <1>3
  <2> QED
    BY <1>1, <1>6, <1>8, <2>1, <2>2, SampledTakes
<1>10. \A k \in 1 .. n : list[k] \in X /\ list[k].totalMs \in Nat
  <2>1. \A y \in X : y.totalMs \in Nat
    BY <1>3
  <2>2. \A k \in 1 .. n : list[k] \in X
    <3>1. PICK Y : Y = X
      OBVIOUS
    <3>2. list \in Seq(Y) /\ Len(list) = n
      BY <1>6, <1>7, <3>1
    <3>3. \A k \in 1 .. n : list[k] \in Y
      BY <3>2
    <3> QED
      BY <3>1, <3>3
  <2> QED
    BY <2>1, <2>2
<1>11. PICK m \in Nat : m = Len(t) /\ \A k \in 1 .. m : t[k] \in X /\ t[k].totalMs \in Nat
  BY <1>3, <1>9
<1> DEFINE Fair(c) == In(t, Sample(c)) \/ \A k \in 1 .. m : At(c).ms <= t[k].totalMs
<1>12. CASE n < L
  <2>1. d < L /\ n = d
    BY <1>7, <1>12
  <2>2. m = n + 1 /\ In(t, x) /\ \A k \in 1 .. n : In(t, list[k])
    BY <1>4, <1>7, <1>9, <1>11, <1>12 DEF Took
  <2>3. \A c \in D : In(list, Sample(c))
    BY <1>4, <1>7, <1>12 DEF Ranked
  <2>4. \A c \in D : \E k \in 1 .. n : list[k] = Sample(c)
    BY <1>7, <2>3 DEF In
  <2>5. \A c \in E : In(t, Sample(c))
    BY <1>1, <2>2, <2>4
  <2>6. m = IF d + 1 < L THEN d + 1 ELSE L
    BY <1>12, <2>1, <2>2
  <2> QED
    BY <1>1, <1>4, <1>5, <1>9, <1>11, <2>5, <2>6 DEF Ranked, Took
<1>13. CASE ~(n < L)
  <2>1. n = L /\ ~(d < L)
    BY <1>7, <1>13
  <2>2. /\ m = L
        /\ (t = list /\ \A k \in 1 .. L : x.totalMs <= list[k].totalMs) \/ Replaced(list, t, x)
    BY <1>4, <1>7, <1>9, <1>11, <2>1 DEF Took
  <2>3. \A c \in D : In(list, Sample(c)) \/ \A k \in 1 .. L : At(c).ms <= list[k].totalMs
    BY <1>7, <2>1 DEF Ranked
  <2>4. ASSUME NEW c \in E PROVE Fair(c)
    <3>1. CASE t = list /\ \A k \in 1 .. L : x.totalMs <= list[k].totalMs
      <4>1. CASE c = b
        <5>1. x.totalMs = At(c).ms
          BY <1>1, <1>3, <4>1
        <5> QED
          BY <2>2, <3>1, <5>1
      <4>2. CASE c # b
        BY <1>1, <2>2, <2>3, <3>1, <4>2
      <4> QED
        BY <4>1, <4>2
    <3>2. CASE Replaced(list, t, x)
      <4>1. /\ In(t, x) /\ \A k \in 1 .. L - 1 : In(t, list[k])
            /\ \A j \in 1 .. L : list[L].totalMs <= t[j].totalMs
        BY <1>4, <3>2 DEF Replaced
      <4>2. L \in 1 .. n /\ list[L].totalMs \in Nat
        BY <1>10, <2>1
      <4>3. ASSUME At(c).ms <= list[L].totalMs PROVE Fair(c)
        <5>1. At(c).ms \in Nat
          BY <1>3
        <5>2. \A k \in 1 .. m : t[k].totalMs \in Nat /\ list[L].totalMs <= t[k].totalMs
          BY <1>11, <2>2, <4>1
        <5>3. \A k \in 1 .. m : At(c).ms <= t[k].totalMs
          BY <4>2, <4>3, <5>1, <5>2
        <5> QED
          BY <5>3
      <4>4. CASE c = b
        BY <1>1, <4>1, <4>4
      <4>5. CASE c # b /\ In(list, Sample(c))
        <5>1. PICK k \in 1 .. n : list[k] = Sample(c)
          BY <1>7, <4>5 DEF In
        <5>2. CASE k = L
          <6>1. list[L].totalMs = At(c).ms
            BY <1>3, <5>1, <5>2
          <6>2. At(c).ms <= list[L].totalMs
            BY <1>3, <6>1
          <6> QED
            BY <4>3, <6>2
        <5>3. CASE k # L
          <6>1. k \in 1 .. L - 1
            BY <2>1, <5>3
          <6> QED
            BY <4>1, <5>1, <6>1
        <5> QED
          BY <5>2, <5>3
      <4>6. CASE c # b /\ ~In(list, Sample(c))
        <5>1. c \in D /\ At(c).ms <= list[L].totalMs
          BY <1>1, <2>1, <2>3, <4>2, <4>6
        <5> QED
          BY <4>3, <5>1
      <4> QED
        BY <4>4, <4>5, <4>6
    <3> QED
      BY <2>2, <3>1, <3>2
  <2>5. m = IF d + 1 < L THEN d + 1 ELSE L
    BY <2>1, <2>2
  <2>6. ~(m < L)
    BY <2>2
  <2> QED
    BY <1>1, <1>4, <1>5, <1>9, <1>11, <2>4, <2>5, <2>6 DEF Ranked, Took
<1> QED
  BY <1>12, <1>13

--------------------------------------------------------------------------------
(* The inductive invariant: at every moment the sinks hold the errors of   *)
(* exactly the blocks that got so far.                                     *)

\* Sinks tell of type errors in C and of formatting errors in U.
Says(s, C, U) ==
  /\ \A tag \in Twoslash : Told(s, tag) = C
  /\ Told(s, "PrettierError") = U
  /\ Accounted(s)

\* More blocks are told of.
LEMMA SaysMore ==
  ASSUME NEW s, NEW ev, NEW n \in Nat, Sound(ev, n), NEW C, NEW U, Says(s, C, U),
         NEW D, \A tag \in Twoslash : Tells(ev, tag, n) = D,
         NEW V, Tells(ev, "PrettierError", n) = V,
         D \cap C = {}, V \cap U = {}, \A tag \in Summed : Singly(ev, tag, n)
  PROVE  Says(EmitAll(s, ev), C \cup D, U \cup V)
<1>1. PICK t : t = EmitAll(s, ev)
  OBVIOUS
<1>2. \A tag \in Twoslash \cup {"PrettierError"} : Told(t, tag) = Told(s, tag) \cup Tells(ev, tag, n)
  BY <1>1, EmitAllTells
<1>3. \A tag \in Summed : Singly(ev, tag, n) /\ Tells(ev, tag, n) \cap Told(s, tag) = {}
  BY DEF Summed, Twoslash, Says
<1>4. Accounted(t)
  BY <1>1, <1>3, EmitAllTells DEF Says
<1> QED
  BY <1>1, <1>2, <1>4 DEF Says

\* So is what one event adds.
LEMMA SaysOneMore ==
  ASSUME NEW s, NEW e, e.level \in Levels, e.tag \in Tags \ Twoslash, NEW C, NEW U, Says(s, C, U),
         e.tag = "PrettierError" => e.block \notin U
  PROVE  Says(Emit(s, e), C, U \cup IF e.tag = "PrettierError" THEN {e.block} ELSE {})
<1>1. PICK t : t = Emit(s, e)
  OBVIOUS
<1>2. e.tag \in Tags /\ e.tag \notin Twoslash
  OBVIOUS
<1>3. \A tag \in Twoslash \cup {"PrettierError"} : Told(t, tag) = Told(s, tag) \cup IF e.tag = tag THEN {e.block} ELSE {}
  BY <1>1, <1>2, EmitTells
<1>4. e.tag \in Summed => e.block \notin Told(s, e.tag)
  BY <1>2 DEF Summed, Twoslash, Says
<1>5. Accounted(t)
  BY <1>1, <1>2, <1>4, EmitCounts DEF Says
<1> QED
  BY <1>1, <1>2, <1>3, <1>5 DEF Says

Phases == {"modelled", "declaring", "rendering", "reported", "failed"}

TypeInv ==
  /\ site \in Sites /\ pages = Pages /\ phase \in Phases
  /\ DOMAIN stage = Blocks
  /\ phase \in {"modelled", "declaring", "failed"} => \A b \in Blocks : stage[b] = "waiting"
  /\ phase \in {"modelled", "declaring"} => sinks = Silent
  /\ phase = "declaring" => DOMAIN files = DOMAIN site.entries

\* A block of a generated page waits for nothing before it has been checked.
AtOnce == \A b \in Blocks : stage[b] \in {"formatting", "highlighting"} => b[1] \in Authored

\* The blocks whose types were found wrong, and those that could not be
\* formatted.
Checked     == {b \in Blocks : stage[b] \in {"linking", "done"} /\ "types" \in At(b).fails}
Unformatted == {b \in Blocks : /\ "format" \in At(b).fails
                               /\ b[1] \in Authored => stage[b] \in {"highlighting", "linking", "done"}}
ToldAll ==
  /\ phase \in {"rendering", "reported"} => Says(sinks, Checked, Unformatted)
  /\ phase = "reported" => artifacts = Artifacts(sinks) /\ \A b \in Blocks : stage[b] \in {"done", "skipped"}

PassInv == TypeInv /\ AtOnce /\ ToldAll /\ ErrorsNameTheirPage

\* Nothing is told of before anything happens.
LEMMA SilentSays == Says(Silent, {}, {}) /\ Silent.issues = {}
<1>1. Silent.issues = {} /\ Silent.metrics = <<>>
  BY DEF Silent
<1>2. \A tag : Told(Silent, tag) = {}
  BY <1>1 DEF Told
<1>3. \A key : Read(<<>>, key) = 0
  BY DEF Read
<1> QED
  BY <1>1, <1>2, <1>3, FS_EmptySet DEF Says, Accounted

LEMMA InitInv == Init => PassInv
<1> SUFFICES ASSUME Init PROVE PassInv
  OBVIOUS
<1>1. TypeInv
  BY DEF Init, TypeInv, Phases
<1>2. AtOnce
  BY DEF Init, AtOnce
<1>3. ToldAll
  BY DEF Init, ToldAll
<1>4. ErrorsNameTheirPage
  BY SilentSays DEF Init, ErrorsNameTheirPage
<1> QED
  BY <1>1, <1>2, <1>3, <1>4 DEF PassInv

\* The site, its pages and their blocks stay what they are.
LEMMA PagesStay ==
  ASSUME site' = site, pages' = pages
  PROVE  /\ Pages' = Pages /\ Blocks' = Blocks /\ Authored' = Authored
         /\ \A b : At(b)' = At(b)
<1>1. Items' = Items /\ Authored' = Authored
  BY DEF Items, Authored
<1>2. OnOwnPage' = OnOwnPage
  BY <1>1 DEF OnOwnPage, Base
<1>3. ASSUME NEW i PROVE GeneratedBlocks(i)' = GeneratedBlocks(i)
  BY <1>1 DEF GeneratedBlocks, Base, Signature, ExampleBlock, Block
<1>4. Pages' = Pages
  BY <1>1, <1>2, <1>3 DEF Pages
<1> QED
  BY <1>1, <1>4 DEF Blocks, At

\* A page that keeps its components says nothing of its blocks.
LEMMA SkipGeneratedKeeps ==
  ASSUME PassInv, NEW p \in DOMAIN pages, SkipGenerated(p)
  PROVE  PassInv'
<1>1. /\ site' = site /\ pages' = pages /\ files' = files /\ sinks' = sinks /\ phase = "rendering" /\ phase' = phase
      /\ p \notin Authored /\ Unstarted(p) /\ stage' = [b \in Blocks |-> IF b[1] = p THEN "skipped" ELSE stage[b]]
  BY DEF SkipGenerated, Move
<1>2. /\ Pages' = Pages /\ Blocks' = Blocks /\ Authored' = Authored /\ \A b : At(b)' = At(b)
  BY <1>1, PagesStay
<1>3. TypeInv' /\ AtOnce'
  BY <1>1, <1>2 DEF PassInv, TypeInv, AtOnce
<1>4. Checked' = Checked /\ Unformatted' = Unformatted
  BY <1>1, <1>2 DEF Checked, Unformatted, Unstarted
<1>5. ToldAll'
  BY <1>1, <1>2, <1>4 DEF PassInv, ToldAll
<1>6. ErrorsNameTheirPage'
  BY <1>1, <1>2 DEF PassInv, ErrorsNameTheirPage
<1> QED
  BY <1>3, <1>5, <1>6 DEF PassInv

\* Nor does one that hands its blocks to the formatter.
LEMMA StartAuthoredKeeps ==
  ASSUME PassInv, NEW p \in DOMAIN pages, StartAuthored(p)
  PROVE  PassInv'
<1>1. /\ site' = site /\ pages' = pages /\ files' = files /\ sinks' = sinks /\ phase = "rendering" /\ phase' = phase
      /\ p \in Authored /\ Unstarted(p) /\ stage' = [b \in Blocks |-> IF b[1] = p THEN "formatting" ELSE stage[b]]
  BY DEF StartAuthored, Move
<1>2. /\ Pages' = Pages /\ Blocks' = Blocks /\ Authored' = Authored /\ \A b : At(b)' = At(b)
  BY <1>1, PagesStay
<1>3. TypeInv' /\ AtOnce'
  BY <1>1, <1>2 DEF PassInv, TypeInv, AtOnce
<1>4. Checked' = Checked /\ Unformatted' = Unformatted
  BY <1>1, <1>2 DEF Checked, Unformatted, Unstarted
<1>5. ToldAll'
  BY <1>1, <1>2, <1>4 DEF PassInv, ToldAll
<1>6. ErrorsNameTheirPage'
  BY <1>1, <1>2 DEF PassInv, ErrorsNameTheirPage
<1> QED
  BY <1>3, <1>5, <1>6 DEF PassInv

\* A generated page is checked, and its errors told of, before anything waits.
LEMMA StartGeneratedKeeps ==
  ASSUME PassInv, NEW p \in DOMAIN pages, StartGenerated(p)
  PROVE  PassInv'
<1>1. /\ site' = site /\ pages' = pages /\ files' = files /\ phase = "rendering" /\ phase' = phase
      /\ p \notin Authored /\ Unstarted(p) /\ stage' = [b \in Blocks |-> IF b[1] = p THEN "linking" ELSE stage[b]]
  BY DEF StartGenerated, Move
<1>2. /\ Pages' = Pages /\ Blocks' = Blocks /\ Authored' = Authored /\ \A b : At(b)' = At(b)
  BY <1>1, PagesStay
<1>3. TypeInv' /\ AtOnce'
  BY <1>1, <1>2 DEF PassInv, TypeInv, AtOnce
<1>4. PICK n \in Nat : DOMAIN pages[p] = 1 .. n
  <2>1. site \in Sites /\ pages = Pages
    BY DEF PassInv, TypeInv
  <2>2. Listed(pages[p])
    BY <2>1, PagesListed
  <2> QED
    BY <2>2 DEF Listed
<1>5. PICK F : F = {k \in 1 .. n : <<p, k>> \in Failing(p)}
  OBVIOUS
<1>6. Failing(p) = {<<p, j>> : j \in F}
  <2>1. ASSUME NEW b \in Failing(p) PROVE \E j \in F : b = <<p, j>>
    <3>1. b \in Blocks /\ b[1] = p
      BY DEF Failing
    <3>2. PICK j \in DOMAIN pages[p] : b = <<p, j>>
      BY <3>1 DEF Blocks
    <3> QED
      BY <1>4, <1>5, <3>2
  <2> QED
    BY <1>5, <2>1
<1>7. PICK ev : ev = PageErrors(p, F, n)
  OBVIOUS
<1>8. sinks' = EmitAll(sinks, ev)
  <2>1. [k \in DOMAIN pages[p] |-> IF <<p, k>> \in Failing(p) THEN Diagnosed(<<p, k>>, p) ELSE <<>>]
          = [k \in 1 .. n |-> IF k \in F THEN Diagnosed(<<p, k>>, p) ELSE <<>>]
    BY <1>4, <1>5
  <2> QED
    BY <1>7, <2>1 DEF StartGenerated, PageErrors
<1>9. ev \in Seq(DiagnosesOf(p, n)) /\ TellsOnce(ev, p, F, n)
  BY <1>5, <1>7, PageErrorsTell
<1>10. PICK m \in Nat : m = Len(ev) /\ Sound(ev, m)
         /\ \A k \in 1 .. m : ev[k].tag \in Twoslash /\ ev[k].file = p /\ ev[k].block[1] = p
  BY <1>9, PageErrorsSound
<1>11. \A tag \in Twoslash : Singly(ev, tag, m) /\ Tells(ev, tag, m) = Failing(p)
  <2>1. F \cap (1 .. n) = F
    BY <1>5
  <2> QED
    BY <1>6, <1>9, <1>10, <2>1 DEF TellsOnce
<1>12. Tells(ev, "PrettierError", m) = {} /\ Singly(ev, "PrettierError", m)
  BY <1>10 DEF Tells, Singly, Twoslash
<1>13. Failing(p) \cap Checked = {} /\ Checked' = Checked \cup Failing(p) /\ Unformatted' = Unformatted
  BY <1>1, <1>2 DEF Checked, Unformatted, Unstarted, Failing
<1>14. Says(sinks, Checked, Unformatted)
  BY <1>1 DEF PassInv, ToldAll
<1>15. Says(sinks', Checked', Unformatted')
  <2>1. \A tag \in Summed : Singly(ev, tag, m)
    BY <1>11, <1>12 DEF Summed, Twoslash
  <2>2. PICK C, U, D : C = Checked /\ U = Unformatted /\ D = Failing(p)
    OBVIOUS
  <2>3. /\ Says(sinks, C, U) /\ D \cap C = {}
        /\ \A tag \in Twoslash : Tells(ev, tag, m) = D
        /\ Tells(ev, "PrettierError", m) = {}
    BY <1>11, <1>12, <1>13, <1>14, <2>2
  <2>4. Says(EmitAll(sinks, ev), C \cup D, U \cup {})
    BY <1>10, <2>1, <2>3, SaysMore
  <2>5. U \cup {} = U
    OBVIOUS
  <2> QED
    BY <1>8, <1>13, <2>2, <2>4, <2>5
<1>16. ToldAll'
  BY <1>1, <1>15 DEF ToldAll
<1>17. ErrorsNameTheirPage'
  <2> SUFFICES ASSUME NEW i \in sinks'.issues, i.tag \in Twoslash, i.block[1] \notin Authored
               PROVE  i.file = i.block[1]
    BY <1>2 DEF ErrorsNameTheirPage, Twoslash
  <2>1. CASE i \in sinks.issues
    BY <2>1 DEF PassInv, ErrorsNameTheirPage, Twoslash
  <2>2. CASE i \notin sinks.issues
    <3>1. PICK k \in 1 .. m : i.file = ev[k].file /\ i.block = ev[k].block
      BY <1>8, <1>10, <2>2, EmitAllTells
    <3> QED
      BY <1>10, <3>1
  <2> QED
    BY <2>1, <2>2
<1> QED
  BY <1>3, <1>16, <1>17 DEF PassInv

\* A block moves on only while pages are rendered.
LEMMA OnlyWhileRendering ==
  ASSUME PassInv, NEW b \in Blocks, stage[b] \in {"formatting", "highlighting", "linking"}
  PROVE  phase = "rendering"
BY DEF PassInv, TypeInv, ToldAll, Phases

\* A fence that cannot be formatted is told of when the formatter answers.
LEMMA FormatKeeps ==
  ASSUME PassInv, NEW b \in Blocks, Format(b)
  PROVE  PassInv'
<1>1. /\ site' = site /\ pages' = pages /\ files' = files /\ phase' = phase
      /\ stage[b] = "formatting" /\ stage' = [stage EXCEPT ![b] = "highlighting"]
  BY DEF Format
<1>2. /\ Pages' = Pages /\ Blocks' = Blocks /\ Authored' = Authored /\ \A c : At(c)' = At(c)
  BY <1>1, PagesStay
<1>3. phase = "rendering" /\ b[1] \in Authored /\ DOMAIN stage = Blocks
  BY <1>1, OnlyWhileRendering DEF PassInv, AtOnce, TypeInv
<1>4. \A c \in Blocks : stage'[c] = IF c = b THEN "highlighting" ELSE stage[c]
  BY <1>1, <1>3
<1>5. TypeInv' /\ AtOnce'
  BY <1>1, <1>2, <1>3, <1>4 DEF PassInv, TypeInv, AtOnce
<1>6. Checked' = Checked
  BY <1>1, <1>2, <1>4 DEF Checked
<1>7. PICK wrong : wrong = ("format" \in At(b).fails)
  OBVIOUS
<1>8. b \notin Unformatted /\ Unformatted' = Unformatted \cup IF wrong THEN {b} ELSE {}
  BY <1>1, <1>2, <1>3, <1>4, <1>7 DEF Unformatted
<1>9. Says(sinks, Checked, Unformatted)
  BY <1>3 DEF PassInv, ToldAll
<1>10. CASE ~wrong
  <2>1. sinks' = sinks /\ Unformatted' = Unformatted
    BY <1>7, <1>8, <1>10 DEF Format
  <2>2. ToldAll'
    BY <1>1, <1>3, <1>6, <1>9, <2>1 DEF ToldAll
  <2>3. ErrorsNameTheirPage'
    BY <1>2, <2>1 DEF PassInv, ErrorsNameTheirPage
  <2> QED
    BY <1>5, <2>2, <2>3 DEF PassInv
<1>11. CASE wrong
  <2>1. PICK e : e = Event("PrettierError", "warn", b, "unknown")
    OBVIOUS
  <2>2. sinks' = Emit(sinks, e)
    BY <1>7, <1>11, <2>1 DEF Format
  <2>3. e.tag = "PrettierError" /\ e.level = "warn" /\ e.block = b
    BY <2>1 DEF Event
  <2>4. e.level \in Levels /\ e.tag \in Tags /\ e.tag \in Tags \ Twoslash
    BY <2>3 DEF Levels, Tags, Twoslash
  <2>5. PICK C, U : C = Checked /\ U = Unformatted
    OBVIOUS
  <2>6. Says(sinks, C, U) /\ e.block \notin U
    BY <1>8, <1>9, <2>3, <2>5
  <2>7. Says(Emit(sinks, e), C, U \cup {b})
    BY <2>3, <2>4, <2>6, SaysOneMore
  <2>8. ToldAll'
    BY <1>1, <1>3, <1>6, <1>8, <1>11, <2>2, <2>5, <2>7 DEF ToldAll
  <2>9. ErrorsNameTheirPage'
    <3>1. \A i \in sinks'.issues : i \in sinks.issues \/ i.tag = "PrettierError"
      BY <2>2, <2>3, <2>4, EmitAdds, IssueOf
    <3> QED
      BY <1>2, <3>1 DEF PassInv, ErrorsNameTheirPage
  <2> QED
    BY <1>5, <2>8, <2>9 DEF PassInv
<1> QED
  BY <1>10, <1>11

\* A fence is checked when its own highlighter is ready, and its errors are
\* told of for whatever page was noted last.
LEMMA HighlightKeeps ==
  ASSUME PassInv, NEW b \in Blocks, Highlight(b)
  PROVE  PassInv'
<1>1. /\ site' = site /\ pages' = pages /\ files' = files /\ phase' = phase
      /\ stage[b] = "highlighting" /\ stage' = [stage EXCEPT ![b] = "linking"]
  BY DEF Highlight
<1>2. /\ Pages' = Pages /\ Blocks' = Blocks /\ Authored' = Authored /\ \A c : At(c)' = At(c)
  BY <1>1, PagesStay
<1>3. phase = "rendering" /\ b[1] \in Authored /\ DOMAIN stage = Blocks
  BY <1>1, OnlyWhileRendering DEF PassInv, AtOnce, TypeInv
<1>4. \A c \in Blocks : stage'[c] = IF c = b THEN "linking" ELSE stage[c]
  BY <1>1, <1>3
<1>5. TypeInv' /\ AtOnce'
  BY <1>1, <1>2, <1>3, <1>4 DEF PassInv, TypeInv, AtOnce
<1>6. Unformatted' = Unformatted
  BY <1>1, <1>2, <1>4 DEF Unformatted
<1>7. PICK wrong : wrong = ("types" \in At(b).fails)
  OBVIOUS
<1>8. b \notin Checked /\ Checked' = Checked \cup IF wrong THEN {b} ELSE {}
  BY <1>1, <1>2, <1>4, <1>7 DEF Checked
<1>9. Says(sinks, Checked, Unformatted)
  BY <1>3 DEF PassInv, ToldAll
<1>10. CASE ~wrong
  <2>1. sinks' = sinks /\ Checked' = Checked
    BY <1>7, <1>8, <1>10 DEF Highlight
  <2>2. ToldAll'
    BY <1>1, <1>3, <1>6, <1>9, <2>1 DEF ToldAll
  <2>3. ErrorsNameTheirPage'
    BY <1>2, <2>1 DEF PassInv, ErrorsNameTheirPage
  <2> QED
    BY <1>5, <2>2, <2>3 DEF PassInv
<1>11. CASE wrong
  <2>1. PICK x, y : x = Event("TwoslashDiagnostic", "warn", b, current) /\ y = Event("TwoslashCheckFailed", "trace", b, current)
    OBVIOUS
  <2>2. PICK ev : ev = <<x, y>>
    OBVIOUS
  <2>3. sinks' = EmitAll(sinks, ev)
    BY <1>7, <1>11, <2>1, <2>2 DEF Highlight, Diagnosed
  <2>4. /\ x.tag = "TwoslashDiagnostic" /\ x.level = "warn" /\ x.block = b
        /\ y.tag = "TwoslashCheckFailed" /\ y.level = "trace" /\ y.block = b
    BY <2>1 DEF Event
  <2>5. DOMAIN ev = 1 .. 2 /\ ev[1] = x /\ ev[2] = y
    BY <2>2
  <2>6. Sound(ev, 2)
    BY <2>4, <2>5 DEF Sound, Levels, Tags, Twoslash
  <2>7. \A tag \in Twoslash : Tells(ev, tag, 2) = {b} /\ Singly(ev, tag, 2)
    BY <2>4, <2>5 DEF Tells, Singly, Twoslash
  <2>8. Tells(ev, "PrettierError", 2) = {} /\ Singly(ev, "PrettierError", 2)
    BY <2>4, <2>5 DEF Tells, Singly
  <2>9. PICK C, U : C = Checked /\ U = Unformatted
    OBVIOUS
  <2>10. /\ Says(sinks, C, U) /\ {b} \cap C = {}
         /\ \A tag \in Summed : Singly(ev, tag, 2)
    BY <1>8, <1>9, <2>7, <2>8, <2>9 DEF Summed, Twoslash
  <2>11. Says(EmitAll(sinks, ev), C \cup {b}, U \cup {})
    BY <2>6, <2>7, <2>8, <2>10, SaysMore
  <2>12. U \cup {} = U
    OBVIOUS
  <2>13. ToldAll'
    BY <1>1, <1>3, <1>6, <1>8, <1>11, <2>3, <2>9, <2>11, <2>12 DEF ToldAll
  <2>14. ErrorsNameTheirPage'
    <3>1. \A i \in sinks'.issues : i \in sinks.issues \/ i.block = b
      BY <2>3, <2>4, <2>5, <2>6, EmitAllTells
    <3> QED
      BY <1>2, <1>3, <3>1 DEF PassInv, ErrorsNameTheirPage
  <2> QED
    BY <1>5, <2>13, <2>14 DEF PassInv
<1> QED
  BY <1>10, <1>11

\* A block that is done raises no issue.
LEMMA LinkKeeps ==
  ASSUME PassInv, NEW b \in Blocks, Link(b)
  PROVE  PassInv'
<1>1. /\ site' = site /\ pages' = pages /\ files' = files /\ phase' = phase
      /\ stage[b] = "linking" /\ stage' = [stage EXCEPT ![b] = "done"]
  BY DEF Link
<1>2. /\ Pages' = Pages /\ Blocks' = Blocks /\ Authored' = Authored /\ \A c : At(c)' = At(c)
  BY <1>1, PagesStay
<1>3. phase = "rendering" /\ DOMAIN stage = Blocks
  BY <1>1, OnlyWhileRendering DEF PassInv, TypeInv
<1>4. \A c \in Blocks : stage'[c] = IF c = b THEN "done" ELSE stage[c]
  BY <1>1, <1>3
<1>5. TypeInv' /\ AtOnce'
  BY <1>1, <1>2, <1>3, <1>4 DEF PassInv, TypeInv, AtOnce
<1>6. Checked' = Checked /\ Unformatted' = Unformatted
  BY <1>1, <1>2, <1>4 DEF Checked, Unformatted
<1>7. PICK e : e = Processed(b)
  OBVIOUS
<1>8. sinks' = Emit(sinks, e)
  BY <1>7 DEF Link
<1>9. e.tag = "CodeBlockProcessed" /\ e.level = "debug"
  BY <1>7 DEF Processed
<1>10. e.level \in Levels /\ e.tag \in Tags /\ e.tag \in Tags \ Twoslash
  BY <1>9 DEF Levels, Tags, Twoslash
<1>11. PICK C, U : C = Checked /\ U = Unformatted
  OBVIOUS
<1>12. Says(sinks, C, U)
  BY <1>3, <1>11 DEF PassInv, ToldAll
<1>13. Says(Emit(sinks, e), C, U \cup {})
  BY <1>9, <1>10, <1>12, SaysOneMore
<1>14. U \cup {} = U
  OBVIOUS
<1>15. ToldAll'
  BY <1>1, <1>3, <1>6, <1>8, <1>11, <1>13, <1>14 DEF ToldAll
<1>16. ErrorsNameTheirPage'
  <2>1. \A i \in sinks'.issues : i \in sinks.issues \/ i.tag = "CodeBlockProcessed"
    BY <1>8, <1>9, <1>10, EmitAdds, IssueOf
  <2> QED
    BY <1>2, <2>1 DEF PassInv, ErrorsNameTheirPage
<1> QED
  BY <1>5, <1>15, <1>16 DEF PassInv

\* A build that fails before its files are made tells of no block.
LEMMA FailKeeps ==
  ASSUME PassInv, Fail
  PROVE  PassInv'
<1>1. /\ site' = site /\ pages' = pages /\ files' = files /\ stage' = stage
      /\ phase = "modelled" /\ phase' = "failed"
  BY DEF Fail
<1>2. /\ Pages' = Pages /\ Blocks' = Blocks /\ Authored' = Authored /\ \A c : At(c)' = At(c)
  BY <1>1, PagesStay
<1>3. TypeInv' /\ AtOnce'
  BY <1>1, <1>2 DEF PassInv, TypeInv, AtOnce, Phases
<1>4. ToldAll'
  BY <1>1 DEF ToldAll
<1>5. PICK tag \in {"ModelLoadFailed", "RouteCollisionDetected"} :
        sinks' = EmitAll(sinks, <<Event(tag, "error", None, "model"), Event("BuildFailed", "error", None, "")>>)
  BY DEF Fail
<1>6. PICK x, y : x = Event(tag, "error", None, "model") /\ y = Event("BuildFailed", "error", None, "")
  OBVIOUS
<1>7. PICK ev : ev = <<x, y>>
  OBVIOUS
<1>8. sinks' = EmitAll(sinks, ev) /\ DOMAIN ev = 1 .. 2 /\ ev[1] = x /\ ev[2] = y
  <2>1. sinks' = EmitAll(sinks, ev)
    BY <1>5, <1>6, <1>7
  <2>2. DOMAIN ev = 1 .. 2 /\ ev[1] = x /\ ev[2] = y
    BY <1>7
  <2> QED
    BY <2>1, <2>2
<1>9. x.tag \in Errors /\ x.level = "error" /\ y.tag \in Errors /\ y.level = "error"
  BY <1>6 DEF Event, Errors
<1>10. Sound(ev, 2)
  BY <1>8, <1>9 DEF Sound, Levels, Tags
<1>11. \A i \in sinks'.issues : i \in sinks.issues \/ i.tag \in Errors
  BY <1>8, <1>9, <1>10, EmitAllTells
<1>12. ErrorsNameTheirPage'
  BY <1>2, <1>11 DEF PassInv, ErrorsNameTheirPage, Errors
<1> QED
  BY <1>3, <1>4, <1>12 DEF PassInv

LEMMA DeclareKeeps ==
  ASSUME PassInv, Declare
  PROVE  PassInv'
<1>1. /\ site' = site /\ pages' = pages /\ stage' = stage /\ sinks' = sinks
      /\ phase = "modelled" /\ phase' = "declaring" /\ files' = Files(site.entries)
  BY DEF Declare
<1>2. /\ Pages' = Pages /\ Blocks' = Blocks /\ Authored' = Authored /\ \A c : At(c)' = At(c)
  BY <1>1, PagesStay
<1>3. DOMAIN files' = DOMAIN site.entries
  BY <1>1 DEF Files
<1>4. TypeInv' /\ AtOnce'
  BY <1>1, <1>2, <1>3 DEF PassInv, TypeInv, AtOnce, Phases
<1>5. ToldAll'
  BY <1>1 DEF ToldAll
<1>6. ErrorsNameTheirPage'
  BY <1>1, <1>2 DEF PassInv, ErrorsNameTheirPage
<1> QED
  BY <1>4, <1>5, <1>6 DEF PassInv

\* When the last file has its imports the examples of every generated page have
\* been through the formatter.
LEMMA PrependImportsKeeps ==
  ASSUME PassInv, NEW e \in DOMAIN site.entries, PrependImports(e)
  PROVE  PassInv'
<1>1. /\ site' = site /\ pages' = pages /\ stage' = stage /\ phase = "declaring" /\ sinks = Silent
      /\ \A b \in Blocks : stage[b] = "waiting"
  BY DEF PrependImports, PassInv, TypeInv
<1>2. /\ Pages' = Pages /\ Blocks' = Blocks /\ Authored' = Authored /\ \A c : At(c)' = At(c)
  BY <1>1, PagesStay
<1>3. DOMAIN files' = DOMAIN site.entries
  <2>1. PICK i : i = Imports(references')
    OBVIOUS
  <2>2. files' = [files EXCEPT ![e].imports = i]
    BY <2>1 DEF PrependImports
  <2> QED
    BY <1>1, <2>2 DEF PassInv, TypeInv
<1>4. AtOnce'
  BY <1>1, <1>2 DEF AtOnce
<1>5. CASE todo' # {}
  <2>1. phase' = "declaring" /\ sinks' = sinks
    BY <1>1, <1>5 DEF PrependImports
  <2>2. TypeInv'
    BY <1>1, <1>2, <1>3, <2>1 DEF PassInv, TypeInv, Phases
  <2>3. ToldAll'
    BY <2>1 DEF ToldAll
  <2>4. ErrorsNameTheirPage'
    BY <1>2, <2>1 DEF PassInv, ErrorsNameTheirPage
  <2> QED
    BY <1>4, <2>2, <2>3, <2>4 DEF PassInv
<1>6. CASE todo' = {}
  <2>1. PICK declared : declared = files'
    OBVIOUS
  <2>2. PICK m \in Nat : DOMAIN declared = 1 .. m
    <3>1. PICK entries : entries = site.entries
      OBVIOUS
    <3>2. List(entries)
      BY <3>1, SitesAssumption DEF PassInv, TypeInv
    <3>3. PICK m \in Nat : DOMAIN entries = 1 .. m
      BY <3>2, ListIsListed
    <3> QED
      BY <1>3, <2>1, <3>1, <3>3
  <2>3. PICK ev : ev = VfsEvents(declared) \o PageEvents
    OBVIOUS
  <2>4. phase' = "rendering" /\ sinks' = EmitAll(Silent, ev)
    BY <1>1, <1>6, <2>1, <2>3 DEF PrependImports
  <2>5. PICK n \in Nat : /\ Sound(ev, n) /\ \A k \in 1 .. n : ev[k].tag \in Firsts
                         /\ Tells(ev, "PrettierError", n) = Misformed
                         /\ Singly(ev, "PrettierError", n)
    BY <2>2, <2>3, FirstEventsTell DEF PassInv, TypeInv
  <2>6. \A tag \in Twoslash : Tells(ev, tag, n) = {} /\ Singly(ev, tag, n)
    BY <2>5 DEF Tells, Singly, Firsts, Twoslash
  <2>7. \A tag \in Summed : Singly(ev, tag, n)
    BY <2>5, <2>6 DEF Summed, Twoslash
  <2>8. PICK V : V = Misformed
    OBVIOUS
  <2>9. Says(Silent, {}, {}) /\ Tells(ev, "PrettierError", n) = V /\ V \cap {} = {} /\ {} \cap {} = {}
    BY <2>5, <2>8, SilentSays
  <2>10. Says(EmitAll(Silent, ev), {} \cup {}, {} \cup V)
    BY <2>5, <2>6, <2>7, <2>9, SaysMore
  <2>11. {} \cup {} = {} /\ {} \cup V = V
    OBVIOUS
  <2>12. Checked' = {} /\ Unformatted' = V
    BY <1>1, <1>2, <2>8 DEF Checked, Unformatted, Misformed
  <2>13. ToldAll'
    BY <2>4, <2>10, <2>11, <2>12 DEF ToldAll
  <2>14. TypeInv'
    BY <1>1, <1>2, <2>4 DEF PassInv, TypeInv, Phases
  <2>15. ErrorsNameTheirPage'
    <3>1. \A i \in sinks'.issues : i.tag \notin Twoslash
      BY <2>4, <2>5, SilentSays, EmitAllTells DEF Firsts, Twoslash
    <3> QED
      BY <3>1 DEF ErrorsNameTheirPage, Twoslash
  <2> QED
    BY <1>4, <2>13, <2>14, <2>15 DEF PassInv
<1> QED
  BY <1>5, <1>6

LEMMA WriteArtifactsKeeps ==
  ASSUME PassInv, WriteArtifacts
  PROVE  PassInv'
<1>1. /\ site' = site /\ pages' = pages /\ files' = files /\ stage' = stage /\ sinks' = sinks
      /\ phase = "rendering" /\ phase' = "reported" /\ artifacts' = Artifacts(sinks)
      /\ \A b \in Blocks : stage[b] \in {"done", "skipped"}
  BY DEF WriteArtifacts
<1>2. /\ Pages' = Pages /\ Blocks' = Blocks /\ Authored' = Authored /\ \A c : At(c)' = At(c)
  BY <1>1, PagesStay
<1>3. TypeInv' /\ AtOnce'
  BY <1>1, <1>2 DEF PassInv, TypeInv, AtOnce, Phases
<1>4. Checked' = Checked /\ Unformatted' = Unformatted
  BY <1>1, <1>2 DEF Checked, Unformatted
<1>5. Says(sinks, Checked, Unformatted)
  BY <1>1 DEF PassInv, ToldAll
<1>6. Artifacts(sinks)' = Artifacts(sinks)
  BY <1>1
<1>7. ToldAll'
  BY <1>1, <1>2, <1>4, <1>5, <1>6 DEF ToldAll
<1>8. ErrorsNameTheirPage'
  BY <1>1, <1>2 DEF PassInv, ErrorsNameTheirPage
<1> QED
  BY <1>3, <1>7, <1>8 DEF PassInv

LEMMA NextInv == PassInv /\ [Next]_vars => PassInv'
<1> SUFFICES ASSUME PassInv, [Next]_vars PROVE PassInv'
  OBVIOUS
<1>1. CASE Fail
  BY <1>1, FailKeeps
<1>2. CASE Declare
  BY <1>2, DeclareKeeps
<1>3. CASE WriteArtifacts
  BY <1>3, WriteArtifactsKeeps
<1>4. ASSUME NEW e \in DOMAIN site.entries, PrependImports(e) PROVE PassInv'
  BY <1>4, PrependImportsKeeps
<1>5. ASSUME NEW p \in DOMAIN pages, StartGenerated(p) \/ SkipGenerated(p) \/ StartAuthored(p) PROVE PassInv'
  BY <1>5, StartGeneratedKeeps, SkipGeneratedKeeps, StartAuthoredKeeps
<1>6. ASSUME NEW b \in Blocks, Format(b) \/ Highlight(b) \/ Link(b) PROVE PassInv'
  BY <1>6, FormatKeeps, HighlightKeeps, LinkKeeps
<1>7. CASE UNCHANGED vars
  <2>1. /\ site' = site /\ pages' = pages /\ files' = files /\ stage' = stage /\ sinks' = sinks
        /\ phase' = phase /\ artifacts' = artifacts
    BY <1>7 DEF vars
  <2>2. /\ Pages' = Pages /\ Blocks' = Blocks /\ Authored' = Authored /\ \A c : At(c)' = At(c)
    BY <2>1, PagesStay
  <2>3. Checked' = Checked /\ Unformatted' = Unformatted
    BY <2>1, <2>2 DEF Checked, Unformatted
  <2>4. TypeInv' /\ AtOnce' /\ ErrorsNameTheirPage'
    BY <2>1, <2>2 DEF PassInv, TypeInv, AtOnce, ErrorsNameTheirPage
  <2>5. ToldAll'
    BY <2>1, <2>2, <2>3 DEF PassInv, ToldAll
  <2> QED
    BY <2>4, <2>5 DEF PassInv
<1> QED
  BY <1>1, <1>2, <1>3, <1>4, <1>5, <1>6, <1>7 DEF Next

--------------------------------------------------------------------------------
(* What a build reports of its errors. *)

LEMMA PassInvAlways == Spec => []PassInv
<1> QED
  BY InitInv, NextInv, PTL DEF Spec

\* A type error on a generated page is reported for that page (PageContext and
\* TwoslashErrorReporter), however the pages' rendering interleaves.
THEOREM ErrorsAreNamed == Spec => []ErrorsNameTheirPage
<1>1. PassInv => ErrorsNameTheirPage
  BY DEF PassInv
<1> QED
  BY <1>1, PassInvAlways, PTL

\* The issues file names exactly the blocks whose types were wrong and those
\* that could not be formatted, and the summary counts each of them once
\* (IssuesSink and MetricsSink, fed with the same events).
THEOREM IssuesAreComplete == Spec => []IssuesComplete
<1>1. PassInv => IssuesComplete
  <2> SUFFICES ASSUME PassInv, phase = "reported" PROVE IssuesComplete
    BY DEF IssuesComplete
  <2>1. /\ Says(sinks, Checked, Unformatted) /\ artifacts = Artifacts(sinks)
        /\ \A b \in Blocks : stage[b] \in {"done", "skipped"}
    BY DEF PassInv, ToldAll
  <2>2. Checked = {b \in Blocks : stage[b] = "done" /\ "types" \in At(b).fails}
    BY <2>1 DEF Checked
  <2>3. Unformatted = {b \in Blocks : "format" \in At(b).fails /\ (b[1] \in Authored => stage[b] = "done")}
    BY <2>1 DEF Unformatted
  <2>4. artifacts.issues = sinks.issues /\ artifacts.summary = Summary(sinks.metrics)
    BY <2>1 DEF Artifacts
  <2>5. /\ artifacts.summary["twoslash.errors"] = Read(sinks.metrics, <<"twoslash.errors", Untagged>>)
        /\ artifacts.summary["prettier.errors"] = Read(sinks.metrics, <<"prettier.errors", Untagged>>)
    BY <2>4 DEF Summary
  <2>6. \A tag : {i.block : i \in {i \in artifacts.issues : i.tag = tag}} = Told(sinks, tag)
    BY <2>4 DEF Told
  <2>7. /\ Told(sinks, "TwoslashDiagnostic") = Checked /\ Told(sinks, "TwoslashCheckFailed") = Checked
        /\ Told(sinks, "PrettierError") = Unformatted
    BY <2>1 DEF Says, Twoslash
  <2>8. /\ Read(sinks.metrics, <<"twoslash.errors", Untagged>>) = Cardinality(Checked)
        /\ Read(sinks.metrics, <<"prettier.errors", Untagged>>) = Cardinality(Unformatted)
    <3>1. \A tag \in Summed : Read(sinks.metrics, Counter(tag)) = Cardinality(Told(sinks, tag))
      BY <2>1 DEF Says, Accounted
    <3>2. /\ Counter("TwoslashDiagnostic") = <<"twoslash.errors", Untagged>>
          /\ Counter("PrettierError") = <<"prettier.errors", Untagged>>
      BY DEF Counter
    <3>3. "TwoslashDiagnostic" \in Summed /\ "PrettierError" \in Summed
      BY DEF Summed
    <3> QED
      BY <2>7, <3>1, <3>2, <3>3
  <2>9. PICK T, U : T = Checked /\ U = Unformatted
    OBVIOUS
  <2>10. /\ artifacts.summary["twoslash.errors"] = Cardinality(T)
         /\ artifacts.summary["prettier.errors"] = Cardinality(U)
    BY <2>5, <2>8, <2>9
  <2> QED
    BY <2>2, <2>3, <2>6, <2>7, <2>9, <2>10 DEF IssuesComplete
<1> QED
  BY <1>1, PassInvAlways, PTL

--------------------------------------------------------------------------------
(* What the sinks hold of the blocks that are done. *)

\* The blocks that are done.
Done == {b \in Blocks : stage[b] = "done"}

\* What is measured of a block stays what it is.
LEMMA TimesStay ==
  ASSUME site' = site, pages' = pages
  PROVE  /\ Blocks' = Blocks /\ \A b : At(b)' = At(b)
         /\ \A f : Gain(f)' = Gain(f)
         /\ \A b : Series(b)' = Series(b)
         /\ \A b : Sample(b)' = Sample(b)
<1>1. Blocks' = Blocks /\ Authored' = Authored /\ \A b : At(b)' = At(b)
  BY PagesStay
<1>2. \A p : Scoped(p)' = Scoped(p)
  BY <1>1 DEF Scoped
<1>3. \A b : Processed(b)' = Processed(b)
  BY <1>1, <1>2 DEF Processed
<1>4. \A f : Gain(f)' = Gain(f)
  BY <1>1, <1>3 DEF Gain
<1>5. \A b : Series(b)' = Series(b)
  BY <1>3 DEF Series
<1>6. \A b : Sample(b)' = Sample(b)
  BY <1>1 DEF Sample
<1> QED
  BY <1>1, <1>4, <1>5, <1>6

\* The sinks hold the time of the blocks that are done, and of no others.
ReportInv == Measures(sinks, Done) /\ Ranked(sinks.slowest, Done)

\* Sinks that hold the same rank and measure the same blocks.
LEMMA ReportCarries ==
  ASSUME site' = site, pages' = pages,
         NEW t, t = sinks', NEW E, E = Done', Measures(t, E), Ranked(t.slowest, E)
  PROVE  ReportInv'
<1>1. /\ Blocks' = Blocks /\ \A b : At(b)' = At(b)
      /\ \A f : Gain(f)' = Gain(f)
      /\ \A b : Series(b)' = Series(b)
      /\ \A b : Sample(b)' = Sample(b)
  BY TimesStay
<1>2. \A x : Share(Done, x)' = Share(E, x)
  BY <1>1 DEF Share
<1>3. \A p : OnPage(Done, p)' = OnPage(E, p)
  BY DEF OnPage
<1>4. Totalled(sinks, Done)'
  BY <1>1, <1>2 DEF Measures, Totalled
<1>5. Named(sinks, Done)'
  BY <1>1 DEF Measures, Named
<1>6. Paged(sinks, Done)'
  BY <1>1, <1>3 DEF Measures, Paged
<1>7. Samples(Done)' = Samples(E)
  BY <1>1 DEF Samples
<1>8. Ranked(sinks.slowest, Done)'
  BY <1>1, <1>7 DEF Ranked, Descending, In
<1> QED
  BY <1>4, <1>5, <1>6, <1>8 DEF ReportInv, Measures

\* It holds at the start.
LEMMA InitReport == Init => ReportInv
<1> SUFFICES ASSUME Init PROVE ReportInv
  OBVIOUS
<1>1. site \in Sites /\ pages = Pages /\ sinks = Silent
  BY DEF Init
<1>2. Done = {}
  BY DEF Init, Done
<1>3. Silent.slowest = <<>>
  BY DEF Silent
<1> QED
  BY <1>1, <1>2, <1>3, SilentMeasures, SilentRanks DEF ReportInv

LEMMA SameIsSame == ASSUME NEW s, NEW t, t = s PROVE SameMeasures(s, t)
BY DEF SameMeasures

\* No step but that which ends a block adds to it.
LEMMA FailSame ==
  ASSUME PassInv, Numbered(sinks), Fail
  PROVE  SameMeasures(sinks, sinks')
<1>1. PICK tag \in {"ModelLoadFailed", "RouteCollisionDetected"} :
        sinks' = EmitAll(sinks, <<Event(tag, "error", None, "model"), Event("BuildFailed", "error", None, "")>>)
  BY DEF Fail
<1>2. PICK x, y : x = Event(tag, "error", None, "model") /\ y = Event("BuildFailed", "error", None, "")
  OBVIOUS
<1>3. PICK ev : ev = <<x, y>>
  OBVIOUS
<1>4. sinks' = EmitAll(sinks, ev)
  BY <1>1, <1>2, <1>3
<1>5. DOMAIN ev = 1 .. 2 /\ ev[1] = x /\ ev[2] = y
  BY <1>3
<1>6. x.tag \in Errors /\ x.level = "error" /\ y.tag \in Errors /\ y.level = "error"
  BY <1>2 DEF Event, Errors
<1>7. Sound(ev, 2) /\ \A k \in 1 .. 2 : ev[k].tag # "CodeBlockProcessed"
  BY <1>5, <1>6 DEF Sound, Levels, Tags, Errors
<1> QED
  BY <1>4, <1>7, EmitAllSameMeasures

LEMMA PrependImportsSame ==
  ASSUME PassInv, Numbered(sinks), NEW e \in DOMAIN site.entries, PrependImports(e)
  PROVE  SameMeasures(sinks, sinks')
<1>1. phase = "declaring" /\ sinks = Silent /\ DOMAIN files = DOMAIN site.entries
  BY DEF PrependImports, PassInv, TypeInv
<1>2. CASE todo' # {}
  BY <1>2, SameIsSame DEF PrependImports
<1>3. CASE todo' = {}
  <2>1. PICK declared : declared = files'
    OBVIOUS
  <2>2. PICK m \in Nat : DOMAIN declared = 1 .. m
    <3>1. PICK entries : entries = site.entries
      OBVIOUS
    <3>2. List(entries)
      BY <3>1, SitesAssumption DEF PassInv, TypeInv
    <3>3. PICK m \in Nat : DOMAIN entries = 1 .. m
      BY <3>2, ListIsListed
    <3>4. PICK i : i = Imports(references')
      OBVIOUS
    <3>5. files' = [files EXCEPT ![e].imports = i]
      BY <3>4 DEF PrependImports
    <3>6. DOMAIN files' = DOMAIN files
      BY <3>5
    <3> QED
      BY <1>1, <2>1, <3>1, <3>3, <3>6
  <2>3. PICK ev : ev = VfsEvents(declared) \o PageEvents
    OBVIOUS
  <2>4. sinks' = EmitAll(sinks, ev)
    BY <1>3, <2>1, <2>3 DEF PrependImports
  <2>5. PICK n \in Nat : Sound(ev, n) /\ \A k \in 1 .. n : ev[k].tag \in Firsts
    BY <2>2, <2>3, FirstEventsTell DEF PassInv, TypeInv
  <2>6. \A k \in 1 .. n : ev[k].tag # "CodeBlockProcessed"
    BY <2>5 DEF Firsts
  <2> QED
    BY <2>4, <2>5, <2>6, EmitAllSameMeasures
<1> QED
  BY <1>2, <1>3

LEMMA StartGeneratedSame ==
  ASSUME PassInv, Numbered(sinks), NEW p \in DOMAIN pages, StartGenerated(p)
  PROVE  SameMeasures(sinks, sinks')
<1>1. PICK n \in Nat : DOMAIN pages[p] = 1 .. n
  <2>1. site \in Sites /\ pages = Pages
    BY DEF PassInv, TypeInv
  <2>2. Listed(pages[p])
    BY <2>1, PagesListed
  <2> QED
    BY <2>2 DEF Listed
<1>2. PICK F : F = {k \in 1 .. n : <<p, k>> \in Failing(p)}
  OBVIOUS
<1>3. PICK ev : ev = PageErrors(p, F, n)
  OBVIOUS
<1>4. sinks' = EmitAll(sinks, ev)
  <2>1. [k \in DOMAIN pages[p] |-> IF <<p, k>> \in Failing(p) THEN Diagnosed(<<p, k>>, p) ELSE <<>>]
          = [k \in 1 .. n |-> IF k \in F THEN Diagnosed(<<p, k>>, p) ELSE <<>>]
    BY <1>1, <1>2
  <2> QED
    BY <1>3, <2>1 DEF StartGenerated, PageErrors
<1>5. ev \in Seq(DiagnosesOf(p, n))
  BY <1>2, <1>3, PageErrorsTell
<1>6. PICK m \in Nat : m = Len(ev) /\ Sound(ev, m) /\ \A k \in 1 .. m : ev[k].tag \in Twoslash
  BY <1>5, PageErrorsSound
<1>7. \A k \in 1 .. m : ev[k].tag # "CodeBlockProcessed"
  BY <1>6 DEF Twoslash
<1> QED
  BY <1>4, <1>6, <1>7, EmitAllSameMeasures

LEMMA FormatSame ==
  ASSUME Numbered(sinks), NEW b \in Blocks, Format(b)
  PROVE  SameMeasures(sinks, sinks')
<1>1. PICK e : e = Event("PrettierError", "warn", b, "unknown")
  OBVIOUS
<1>2. e.tag = "PrettierError" /\ e.level = "warn"
  BY <1>1 DEF Event
<1>3. e.level \in Levels /\ e.tag \in Tags /\ e.tag # "CodeBlockProcessed"
  BY <1>2 DEF Levels, Tags
<1>4. sinks' = sinks \/ sinks' = Emit(sinks, e)
  BY <1>1 DEF Format
<1> QED
  BY <1>3, <1>4, SameIsSame, EmitSameMeasures

LEMMA HighlightSame ==
  ASSUME Numbered(sinks), NEW b \in Blocks, Highlight(b)
  PROVE  SameMeasures(sinks, sinks')
<1>1. PICK x, y : x = Event("TwoslashDiagnostic", "warn", b, current) /\ y = Event("TwoslashCheckFailed", "trace", b, current)
  OBVIOUS
<1>2. PICK ev : ev = <<x, y>>
  OBVIOUS
<1>3. sinks' = sinks \/ sinks' = EmitAll(sinks, ev)
  BY <1>1, <1>2 DEF Highlight, Diagnosed
<1>4. x.tag = "TwoslashDiagnostic" /\ x.level = "warn" /\ y.tag = "TwoslashCheckFailed" /\ y.level = "trace"
  BY <1>1 DEF Event
<1>5. DOMAIN ev = 1 .. 2 /\ ev[1] = x /\ ev[2] = y
  BY <1>2
<1>6. Sound(ev, 2) /\ \A k \in 1 .. 2 : ev[k].tag # "CodeBlockProcessed"
  BY <1>4, <1>5 DEF Sound, Levels, Tags, Twoslash
<1> QED
  BY <1>3, <1>6, SameIsSame, EmitAllSameMeasures

\* A step that ends no block leaves it what it is.
LEMMA SameKeeps ==
  ASSUME ReportInv, site' = site, pages' = pages, SameMeasures(sinks, sinks'), Done' = Done
  PROVE  ReportInv'
<1>1. PICK s, t, E : s = sinks /\ t = sinks' /\ E = Done
  OBVIOUS
<1>2. Measures(s, E) /\ Ranked(s.slowest, E) /\ SameMeasures(s, t) /\ E = Done'
  BY <1>1 DEF ReportInv
<1>3. Measures(t, E) /\ t.slowest = s.slowest
  BY <1>2, MeasuresStay DEF SameMeasures
<1> QED
  BY <1>1, <1>2, <1>3, ReportCarries

LEMMA LinkReport ==
  ASSUME PassInv, ReportInv, NEW b \in Blocks, Link(b)
  PROVE  ReportInv'
<1>1. site' = site /\ pages' = pages /\ stage[b] = "linking" /\ stage' = [stage EXCEPT ![b] = "done"]
  BY DEF Link
<1>2. site \in Sites /\ pages = Pages /\ DOMAIN stage = Blocks
  BY DEF PassInv, TypeInv
<1>3. PICK s, t, D : s = sinks /\ t = sinks' /\ D = Done
  OBVIOUS
<1>4. D \in SUBSET Blocks /\ b \in Blocks \ D
  BY <1>1, <1>3 DEF Done
<1>5. D \cup {b} = Done'
  <2>1. Blocks' = Blocks
    BY <1>1, PagesStay
  <2> QED
    BY <1>1, <1>2, <1>3, <2>1 DEF Done
<1>6. PICK e : e = Processed(b)
  OBVIOUS
<1>7. t = Emit(s, e)
  BY <1>3, <1>6 DEF Link
<1>8. e.tag = "CodeBlockProcessed" /\ e.level \in Levels
  BY <1>2, <1>6, ProcessedSays DEF Levels
<1>9. t.slowest = Sampled(s.slowest, e)
  BY <1>7, <1>8, AllAdmitted DEF Emit
<1>10. Measures(s, D) /\ Ranked(s.slowest, D)
  BY <1>3 DEF ReportInv
<1>11. Measures(t, D \cup {b})
  BY <1>2, <1>4, <1>6, <1>7, <1>10, LinkMeasures
<1>12. PICK l : l = s.slowest
  OBVIOUS
<1>13. Ranked(Sampled(l, e), D \cup {b})
  BY <1>2, <1>4, <1>6, <1>10, <1>12, LinkRanks
<1>14. Ranked(t.slowest, D \cup {b})
  BY <1>9, <1>12, <1>13
<1> QED
  BY <1>1, <1>3, <1>5, <1>11, <1>14, ReportCarries

\* Every step keeps it.
LEMMA NextReport == PassInv /\ ReportInv /\ [Next]_vars => ReportInv'
<1> SUFFICES ASSUME PassInv, ReportInv, [Next]_vars PROVE ReportInv'
  OBVIOUS
<1>1. site \in Sites /\ pages = Pages /\ DOMAIN stage = Blocks
  BY DEF PassInv, TypeInv
<1>2. Numbered(sinks)
  <2>1. PICK D : D = Done
    OBVIOUS
  <2>2. D \in SUBSET Blocks /\ Totalled(sinks, D)
    BY <2>1 DEF Done, ReportInv, Measures
  <2> QED
    BY <1>1, <2>2, MeasuresNumbers
<1>3. site' = site /\ pages' = pages
  BY DEF Next, vars, Fail, Declare, WriteArtifacts, PrependImports, StartGenerated, SkipGenerated, StartAuthored,
         Format, Highlight, Link
<1>4. Blocks' = Blocks
  BY <1>3, PagesStay
<1>5. ASSUME SameMeasures(sinks, sinks'), stage' = stage PROVE ReportInv'
  <2>1. Done' = Done
    BY <1>4, <1>5 DEF Done
  <2> QED
    BY <1>3, <1>5, <2>1, SameKeeps
<1>6. ASSUME NEW p \in DOMAIN pages, NEW next, next # "done", stage' = Move(p, next), Unstarted(p),
             SameMeasures(sinks, sinks')
      PROVE  ReportInv'
  <2>1. Done' = Done
    BY <1>4, <1>6 DEF Done, Move, Unstarted
  <2> QED
    BY <1>3, <1>6, <2>1, SameKeeps
<1>7. ASSUME NEW b \in Blocks, NEW next, next # "done", stage[b] # "done", stage' = [stage EXCEPT ![b] = next],
             SameMeasures(sinks, sinks')
      PROVE  ReportInv'
  <2>1. Done' = Done
    BY <1>1, <1>4, <1>7 DEF Done
  <2> QED
    BY <1>3, <1>7, <2>1, SameKeeps
<1>8. CASE Fail
  BY <1>2, <1>5, <1>8, FailSame DEF Fail
<1>9. CASE Declare \/ WriteArtifacts \/ UNCHANGED vars
  BY <1>5, <1>9, SameIsSame DEF Declare, WriteArtifacts, vars
<1>10. ASSUME NEW e \in DOMAIN site.entries, PrependImports(e) PROVE ReportInv'
  BY <1>2, <1>5, <1>10, PrependImportsSame DEF PrependImports
<1>11. ASSUME NEW p \in DOMAIN pages, StartGenerated(p) PROVE ReportInv'
  BY <1>2, <1>6, <1>11, StartGeneratedSame DEF StartGenerated
<1>12. ASSUME NEW p \in DOMAIN pages, SkipGenerated(p) \/ StartAuthored(p) PROVE ReportInv'
  BY <1>6, <1>12, SameIsSame DEF SkipGenerated, StartAuthored
<1>13. ASSUME NEW b \in Blocks, Format(b) PROVE ReportInv'
  BY <1>2, <1>7, <1>13, FormatSame DEF Format
<1>14. ASSUME NEW b \in Blocks, Highlight(b) PROVE ReportInv'
  BY <1>2, <1>7, <1>14, HighlightSame DEF Highlight
<1>15. ASSUME NEW b \in Blocks, Link(b) PROVE ReportInv'
  BY <1>15, LinkReport
<1> QED
  BY <1>8, <1>9, <1>10, <1>11, <1>12, <1>13, <1>14, <1>15 DEF Next

\* So it always holds.
LEMMA ReportInvAlways == Spec => [](PassInv /\ ReportInv)
<1>1. Init => PassInv /\ ReportInv
  BY InitInv, InitReport
<1>2. PassInv /\ ReportInv /\ [Next]_vars => (PassInv /\ ReportInv)'
  BY NextInv, NextReport
<1> QED
  BY <1>1, <1>2, PTL DEF Spec

--------------------------------------------------------------------------------
(* What a build reports of the blocks it rendered. *)

\* What the series in S hold of a field.
SeriesTotal(m, f, S) == MapThenSumSet(LAMBDA s : Read(m, <<f, s>>), S)

\* What a bucket sums is the sum of what its series hold.
LEMMA SeriesSum ==
  ASSUME NEW S, IsFiniteSet(S), NEW m, NEW f, NEW part \in [S -> Nat], \A x \in S : part[x] = Read(m, <<f, x>>),
         NEW T \in SUBSET S
  PROVE  SeriesTotal(m, f, T) = SumOf(part, T)
<1> DEFINE Adds(g) == g = [s \in SUBSET T |-> IF s = {} THEN 0
                                              ELSE Read(m, <<f, CHOOSE x \in s : TRUE>>) + g[s \ {CHOOSE x \in s : TRUE}]]
           total   == CHOOSE g : Adds(g)
<1>1. SeriesTotal(m, f, T) = total[T]
  BY DEF SeriesTotal, MapThenSumSet, MapThenFoldSet
<1>2. ASSUME NEW s \in SUBSET T, s # {} PROVE part[CHOOSE x \in s : TRUE] = Read(m, <<f, CHOOSE x \in s : TRUE>>)
  <2>1. PICK c : c = CHOOSE x \in s : TRUE
    OBVIOUS
  <2>2. c \in S
    BY <1>2, <2>1
  <2> QED
    BY <2>1, <2>2
<1>3. ASSUME NEW g PROVE Adds(g) <=> AddsUp(g, T, part)
  <2> DEFINE a(s) == IF s = {} THEN 0 ELSE Read(m, <<f, CHOOSE x \in s : TRUE>>) + g[s \ {CHOOSE x \in s : TRUE}]
             u(s) == IF s = {} THEN 0 ELSE part[CHOOSE x \in s : TRUE] + g[s \ {CHOOSE x \in s : TRUE}]
  <2>1. \A s \in SUBSET T : a(s) = u(s)
    BY <1>2
  <2>2. Adds(g) <=> g = [s \in SUBSET T |-> a(s)]
    OBVIOUS
  <2>3. AddsUp(g, T, part) <=> g = [s \in SUBSET T |-> u(s)]
    BY DEF AddsUp
  <2> HIDE DEF a, u, Adds
  <2>4. [s \in SUBSET T |-> a(s)] = [s \in SUBSET T |-> u(s)]
    BY <2>1
  <2> QED
    BY <2>2, <2>3, <2>4
<1> HIDE DEF Adds
<1>4. AddsUp(total, T, part)
  <2>1. \E g : Adds(g)
    BY <1>3, AddsUpExists
  <2> QED
    BY <1>3, <2>1
<1> HIDE DEF total
<1> QED
  BY <1>1, <1>4, SumOfUnique

\* So is what a report's groups sum to.
LEMMA GroupSum ==
  ASSUME NEW S, IsFiniteSet(S), NEW r, NEW part \in [S -> Nat], \A x \in S : part[x] = r[x]["blocks"]
  PROVE  MapThenSumSet(LAMBDA s : r[s]["blocks"], S) = SumOf(part, S)
<1> DEFINE Adds(g) == g = [s \in SUBSET S |-> IF s = {} THEN 0
                                              ELSE r[CHOOSE x \in s : TRUE]["blocks"] + g[s \ {CHOOSE x \in s : TRUE}]]
           total   == CHOOSE g : Adds(g)
<1>1. MapThenSumSet(LAMBDA s : r[s]["blocks"], S) = total[S]
  BY DEF MapThenSumSet, MapThenFoldSet
<1>2. ASSUME NEW s \in SUBSET S, s # {} PROVE part[CHOOSE x \in s : TRUE] = r[CHOOSE x \in s : TRUE]["blocks"]
  <2>1. PICK c : c = CHOOSE x \in s : TRUE
    OBVIOUS
  <2>2. c \in S
    BY <1>2, <2>1
  <2> QED
    BY <2>1, <2>2
<1>3. ASSUME NEW g PROVE Adds(g) <=> AddsUp(g, S, part)
  <2> DEFINE a(s) == IF s = {} THEN 0 ELSE r[CHOOSE x \in s : TRUE]["blocks"] + g[s \ {CHOOSE x \in s : TRUE}]
             u(s) == IF s = {} THEN 0 ELSE part[CHOOSE x \in s : TRUE] + g[s \ {CHOOSE x \in s : TRUE}]
  <2>1. \A s \in SUBSET S : a(s) = u(s)
    BY <1>2
  <2>2. Adds(g) <=> g = [s \in SUBSET S |-> a(s)]
    OBVIOUS
  <2>3. AddsUp(g, S, part) <=> g = [s \in SUBSET S |-> u(s)]
    BY DEF AddsUp
  <2> HIDE DEF a, u, Adds
  <2>4. [s \in SUBSET S |-> a(s)] = [s \in SUBSET S |-> u(s)]
    BY <2>1
  <2> QED
    BY <2>2, <2>3, <2>4
<1> HIDE DEF Adds
<1>4. AddsUp(total, S, part)
  <2>1. S \in SUBSET S
    OBVIOUS
  <2>2. \E g : Adds(g)
    BY <1>3, <2>1, AddsUpExists
  <2> QED
    BY <1>3, <2>2
<1> HIDE DEF total
<1>5. S \in SUBSET S
  OBVIOUS
<1> QED
  BY <1>1, <1>4, <1>5, SumOfUnique

\* And the time spent on blocks.
LEMMA SpentSum ==
  ASSUME site \in Sites, pages = Pages, NEW T \in SUBSET Blocks
  PROVE  Spent(T) = SumOf(Gain("totalMs"), T)
<1>1. PICK B, part : B = Blocks /\ IsFiniteSet(B) /\ part = Gain("totalMs")
  BY BlocksFinite
<1>2. part \in [B -> Nat] /\ \A b \in B : part[b] = At(b).ms
  BY <1>1, GainSays DEF Fields
<1> DEFINE Adds(g) == g = [s \in SUBSET T |-> IF s = {} THEN 0
                                              ELSE At(CHOOSE x \in s : TRUE).ms + g[s \ {CHOOSE x \in s : TRUE}]]
           total   == CHOOSE g : Adds(g)
<1>3. Spent(T) = total[T]
  BY DEF Spent, MapThenSumSet, MapThenFoldSet
<1>4. ASSUME NEW s \in SUBSET T, s # {} PROVE part[CHOOSE x \in s : TRUE] = At(CHOOSE x \in s : TRUE).ms
  <2>1. PICK c : c = CHOOSE x \in s : TRUE
    OBVIOUS
  <2>2. c \in B
    BY <1>1, <1>4, <2>1
  <2> QED
    BY <1>2, <2>1, <2>2
<1>5. ASSUME NEW g PROVE Adds(g) <=> AddsUp(g, T, part)
  <2> DEFINE a(s) == IF s = {} THEN 0 ELSE At(CHOOSE x \in s : TRUE).ms + g[s \ {CHOOSE x \in s : TRUE}]
             u(s) == IF s = {} THEN 0 ELSE part[CHOOSE x \in s : TRUE] + g[s \ {CHOOSE x \in s : TRUE}]
  <2>1. \A s \in SUBSET T : a(s) = u(s)
    BY <1>4
  <2>2. Adds(g) <=> g = [s \in SUBSET T |-> a(s)]
    OBVIOUS
  <2>3. AddsUp(g, T, part) <=> g = [s \in SUBSET T |-> u(s)]
    BY DEF AddsUp
  <2> HIDE DEF a, u, Adds
  <2>4. [s \in SUBSET T |-> a(s)] = [s \in SUBSET T |-> u(s)]
    BY <2>1
  <2> QED
    BY <2>2, <2>3, <2>4
<1> HIDE DEF Adds
<1>6. T \in SUBSET B
  BY <1>1
<1>7. AddsUp(total, T, part)
  <2>1. \E g : Adds(g)
    BY <1>1, <1>2, <1>5, <1>6, AddsUpExists
  <2> QED
    BY <1>5, <2>1
<1> HIDE DEF total
<1> QED
  BY <1>1, <1>2, <1>3, <1>6, <1>7, SumOfUnique

\* The series of the blocks in D, and the blocks of D in some series.
SeriesOf(D) == {Series(b) : b \in D}
Of(D, L)    == {b \in D : Series(b) \in L}

\* What a report says of some blocks.
Agrees(bucket, S) ==
  /\ bucket["blocks"] = Cardinality(S) /\ bucket["totalMs"] = Spent(S)
  /\ bucket["twoslashBlocks"] = Cardinality({b \in S : At(b).component \notin {"ApiSignature", "ApiMember"}})
  /\ bucket["totalMs"] = bucket["twoslashMs"] + bucket["shikiMs"] + bucket["otherMs"]

\* The series of a report are those of the blocks that are done.
LEMMA ReportSeries ==
  ASSUME NEW s, NEW D, Named(s, D)
  PROVE  {key[2] : key \in {k \in DOMAIN s.metrics : k[1] \in Fields /\ k[2] # Untagged}} = SeriesOf(D)
<1>1. ASSUME NEW k \in DOMAIN s.metrics, k[1] \in Fields, k[2] # Untagged PROVE k[2] \in SeriesOf(D)
  BY <1>1 DEF Named, SeriesOf
<1>2. ASSUME NEW b \in D
      PROVE  \E k \in DOMAIN s.metrics : k[1] \in Fields /\ k[2] # Untagged /\ k[2] = Series(b)
  <2>1. PICK k : k = <<"blocks", Series(b)>>
    OBVIOUS
  <2>2. k \in DOMAIN s.metrics
    BY <2>1 DEF Named
  <2>3. Series(b) # Untagged
    BY DEF Series, Untagged
  <2>4. k[1] \in Fields /\ k[2] = Series(b)
    BY <2>1 DEF Fields
  <2> QED
    BY <2>2, <2>3, <2>4
<1> QED
  BY <1>1, <1>2 DEF SeriesOf

\* There are finitely many series.
LEMMA SeriesFinite ==
  ASSUME NEW D, IsFiniteSet(D)
  PROVE  IsFiniteSet(SeriesOf(D))
<1>1. PICK f : f = [b \in D |-> Series(b)]
  OBVIOUS
<1>2. IsFiniteSet(DOMAIN f) /\ {f[b] : b \in DOMAIN f} = SeriesOf(D)
  BY <1>1 DEF SeriesOf
<1> QED
  BY <1>2, ImageFinite

\* What some series hold of a field.
LEMMA BucketSum ==
  ASSUME site \in Sites, pages = Pages, NEW D \in SUBSET Blocks, NEW s, Totalled(s, D),
         NEW L \in SUBSET SeriesOf(D), NEW f \in Fields
  PROVE  SeriesTotal(s.metrics, f, L) = SumOf(Gain(f), Of(D, L))
<1>1. PICK B, K, m, g : B = Blocks /\ IsFiniteSet(B) /\ K = SeriesOf(D) /\ m = s.metrics /\ g = Gain(f)
  BY BlocksFinite
<1>2. IsFiniteSet(K)
  BY <1>1, FS_Subset, SeriesFinite
<1>3. g \in [B -> Nat]
  BY <1>1, GainSays
<1>4. PICK part : part = [x \in K |-> Read(m, <<f, x>>)]
  OBVIOUS
<1>5. PICK kind : kind = [b \in B |-> IF b \in D THEN Series(b) ELSE Untagged]
  OBVIOUS
<1>6. Untagged \notin K
  BY <1>1 DEF SeriesOf, Series, Untagged
<1>7. ASSUME NEW x \in K PROVE part[x] = SumOf(g, {b \in B : kind[b] = x})
  <2>1. x # Untagged
    BY <1>6
  <2>2. {b \in B : kind[b] = x} = Share(D, x)
    BY <1>1, <1>5, <2>1 DEF Share
  <2> QED
    BY <1>1, <1>4, <2>2 DEF Totalled
<1>8. ASSUME NEW x \in K PROVE part[x] \in Nat
  <2>1. PICK T : T = {b \in B : kind[b] = x}
    OBVIOUS
  <2>2. T \in SUBSET B
    BY <2>1
  <2>3. SumOf(g, T) \in Nat
    BY <1>1, <1>3, <2>2, SumOfSteps
  <2> QED
    BY <1>7, <2>1, <2>3
<1>9. part \in [K -> Nat]
  BY <1>4, <1>8
<1>10. SumOf(part, L) = SumOf(g, {b \in B : kind[b] \in L})
  <2>1. L \in SUBSET K
    BY <1>1
  <2> QED
    BY <1>1, <1>2, <1>3, <1>7, <1>9, <2>1, SumOfParts
<1>11. {b \in B : kind[b] \in L} = Of(D, L)
  <2>1. Untagged \notin L
    BY <1>1, <1>6
  <2> QED
    BY <1>1, <1>5, <2>1 DEF Of
<1>12. SeriesTotal(m, f, L) = SumOf(part, L)
  <2>1. L \in SUBSET K /\ \A x \in K : part[x] = Read(m, <<f, x>>)
    BY <1>1, <1>4
  <2> QED
    BY <1>2, <1>9, <2>1, SeriesSum
<1> QED
  BY <1>1, <1>10, <1>11, <1>12

\* What a bucket says.
LEMMA BucketSays ==
  ASSUME site \in Sites, pages = Pages, NEW D \in SUBSET Blocks, NEW s, Totalled(s, D),
         NEW L \in SUBSET SeriesOf(D)
  PROVE  /\ Agrees(Bucket(s.metrics, L), Of(D, L))
         /\ \A f \in Fields : Bucket(s.metrics, L)[f] = SumOf(Gain(f), Of(D, L))
<1>1. PICK B, T, m : B = Blocks /\ IsFiniteSet(B) /\ T = Of(D, L) /\ m = s.metrics
  BY BlocksFinite
<1>2. T \in SUBSET B /\ T \in SUBSET Blocks
  BY <1>1 DEF Of
<1>3. PICK bucket : bucket = Bucket(m, L)
  OBVIOUS
<1> DEFINE sum   == [f \in Fields |-> SeriesTotal(m, f, L)]
           known == sum["twoslashMs"] + sum["shikiMs"]
<1>4. bucket = [f \in Fields \cup {"otherMs"} |->
                  IF f # "otherMs" THEN sum[f]
                  ELSE IF sum["totalMs"] > known THEN sum["totalMs"] - known ELSE 0]
  BY <1>3 DEF Bucket, SeriesTotal
<1>5. \A f \in Fields : sum[f] = SumOf(Gain(f), T)
  BY <1>1, BucketSum
<1> HIDE DEF sum
<1>6. \A f \in Fields : f # "otherMs"
  BY DEF Fields
<1>7. \A f \in Fields : bucket[f] = SumOf(Gain(f), T)
  BY <1>4, <1>5, <1>6
<1>8. bucket["otherMs"] = IF sum["totalMs"] > known THEN sum["totalMs"] - known ELSE 0
  BY <1>4
<1>9. {"blocks", "twoslashBlocks", "totalMs", "twoslashMs", "shikiMs"} \subseteq Fields
  BY DEF Fields
<1>10. PICK n, c, t, w, k : /\ n = Gain("blocks") /\ c = Gain("twoslashBlocks") /\ t = Gain("totalMs")
                            /\ w = Gain("twoslashMs") /\ k = Gain("shikiMs")
  OBVIOUS
<1>11. /\ n \in [B -> Nat] /\ c \in [B -> Nat] /\ t \in [B -> Nat] /\ w \in [B -> Nat] /\ k \in [B -> Nat]
       /\ \A b \in B : /\ n[b] = 1 /\ c[b] = IF At(b).component \in Typed THEN 1 ELSE 0
                       /\ w[b] + k[b] <= t[b]
  BY <1>1, <1>9, <1>10, GainSays
<1>12. bucket["blocks"] = Cardinality(T)
  <2>1. SumOf(n, T) = Cardinality(T)
    <3>1. n \in [B -> Nat] /\ IsFiniteSet(B) /\ \A b \in B : n[b] = 1
      BY <1>1, <1>11
    <3> QED
      BY <1>2, <3>1, SumOfOnes
  <2>2. bucket["blocks"] = SumOf(n, T)
    BY <1>7, <1>9, <1>10
  <2> QED
    BY <2>1, <2>2
<1>13. bucket["totalMs"] = Spent(T)
  <2>1. bucket["totalMs"] = SumOf(Gain("totalMs"), T)
    BY <1>7, <1>9
  <2> QED
    BY <1>2, <2>1, SpentSum
<1>14. bucket["twoslashBlocks"] = Cardinality({b \in T : At(b).component \notin {"ApiSignature", "ApiMember"}})
  <2>1. PICK W : W = {b \in B : At(b).component \in Typed}
    OBVIOUS
  <2>2. \A b \in B : c[b] = IF b \in W THEN 1 ELSE 0
    BY <1>11, <2>1
  <2>3. SumOf(c, T) = Cardinality(T \cap W)
    <3>1. c \in [B -> Nat] /\ IsFiniteSet(B)
      BY <1>1, <1>11
    <3>2. \A U \in SUBSET B : SumOf(c, U) = Cardinality(U \cap W)
      BY <2>2, <3>1, SumOfCounts
    <3> QED
      BY <1>2, <3>2
  <2>4. \A b \in T : At(b).component \in Components
    BY <1>2, ProcessedSays
  <2>5. T \cap W = {b \in T : At(b).component \notin {"ApiSignature", "ApiMember"}}
    BY <1>2, <2>1, <2>4 DEF Components, Typed
  <2>6. bucket["twoslashBlocks"] = SumOf(c, T)
    BY <1>7, <1>9, <1>10
  <2> QED
    BY <2>3, <2>5, <2>6
<1>15. bucket["totalMs"] = bucket["twoslashMs"] + bucket["shikiMs"] + bucket["otherMs"]
  <2>1. SumOf(w, T) + SumOf(k, T) <= SumOf(t, T)
    BY <1>1, <1>2, <1>11, SumOfBounds
  <2>2. SumOf(w, T) \in Nat /\ SumOf(k, T) \in Nat /\ SumOf(t, T) \in Nat
    BY <1>1, <1>2, <1>11, SumOfSteps
  <2>3. PICK x, y, z : x = SumOf(w, T) /\ y = SumOf(k, T) /\ z = SumOf(t, T)
    OBVIOUS
  <2>4. x \in Nat /\ y \in Nat /\ z \in Nat /\ x + y <= z
    BY <2>1, <2>2, <2>3
  <2>5. bucket["twoslashMs"] = x /\ bucket["shikiMs"] = y /\ bucket["totalMs"] = z
    BY <1>7, <1>9, <1>10, <2>3
  <2>6. sum["twoslashMs"] = x /\ sum["shikiMs"] = y /\ sum["totalMs"] = z
    BY <1>5, <1>9, <1>10, <2>3
  <2>7. bucket["otherMs"] = IF z > x + y THEN z - (x + y) ELSE 0
    BY <1>8, <2>6
  <2>8. bucket["otherMs"] = z - (x + y)
    BY <2>4, <2>7
  <2> QED
    BY <2>4, <2>5, <2>8
<1>16. Agrees(bucket, T)
  BY <1>12, <1>13, <1>14, <1>15 DEF Agrees
<1> QED
  BY <1>1, <1>3, <1>7, <1>16

\* The scope that a block is reported under.
ScopeOf(b) == IF Scoped(b[1]) THEN "api" ELSE "(unscoped)"

\* The series of a block are of its scope and its component.
LEMMA SeriesSays ==
  ASSUME site \in Sites, pages = Pages, NEW b \in Blocks
  PROVE  Series(b)[1] = ScopeOf(b) /\ Series(b)[2] = At(b).component
BY ProcessedSays DEF Series, ScopeOf

\* A report accounts for the blocks in D.
Accounts(r, D) ==
  /\ Agrees(r.overall, D) /\ \A f \in Fields : r.overall[f] = SumOf(Gain(f), D)
  /\ DOMAIN r.byScope = {ScopeOf(b) : b \in D}
  /\ \A v \in DOMAIN r.byScope :
       /\ Agrees(r.byScope[v], {b \in D : ScopeOf(b) = v})
       /\ r.byScope[v]["blocks"] = SumOf(Gain("blocks"), {b \in D : ScopeOf(b) = v})
  /\ \A c \in DOMAIN r.byComponent : Agrees(r.byComponent[c], {b \in D : At(b).component = c})

\* So does the report made of the measures of the blocks in D.
LEMMA ReportSays ==
  ASSUME site \in Sites, pages = Pages, NEW D \in SUBSET Blocks, NEW s, Measures(s, D), NEW r, r = Report(s.metrics)
  PROVE  Accounts(r, D)
<1>1. PICK m, K : m = s.metrics /\ K = SeriesOf(D)
  OBVIOUS
<1>2. Totalled(s, D) /\ Named(s, D)
  BY DEF Measures
<1>3. {key[2] : key \in {k \in DOMAIN m : k[1] \in Fields /\ k[2] # Untagged}} = K
  BY <1>1, <1>2, ReportSeries
<1> DEFINE group(n) == [v \in {x[n] : x \in K} |-> Bucket(m, {x \in K : x[n] = v})]
<1>4. r.overall = Bucket(m, K) /\ r.byScope = group(1) /\ r.byComponent = group(2)
  BY <1>1, <1>3 DEF Report
<1>5. K = {Series(b) : b \in D}
  BY <1>1 DEF SeriesOf
<1>6. \A b \in D : Series(b)[1] = ScopeOf(b) /\ Series(b)[2] = At(b).component
  BY SeriesSays
<1>7. ASSUME NEW L \in SUBSET K
      PROVE  Agrees(Bucket(m, L), Of(D, L)) /\ \A f \in Fields : Bucket(m, L)[f] = SumOf(Gain(f), Of(D, L))
  BY <1>1, <1>2, BucketSays
<1>8. Of(D, K) = D
  BY <1>5 DEF Of
<1>9. Agrees(r.overall, D) /\ \A f \in Fields : r.overall[f] = SumOf(Gain(f), D)
  <2>1. K \in SUBSET K
    OBVIOUS
  <2> QED
    BY <1>4, <1>7, <1>8, <2>1
<1>10. DOMAIN r.byScope = {ScopeOf(b) : b \in D}
  BY <1>4, <1>5, <1>6
<1>11. ASSUME NEW v \in DOMAIN r.byScope
       PROVE  /\ Agrees(r.byScope[v], {b \in D : ScopeOf(b) = v})
              /\ r.byScope[v]["blocks"] = SumOf(Gain("blocks"), {b \in D : ScopeOf(b) = v})
  <2>1. PICK L : L = {x \in K : x[1] = v}
    OBVIOUS
  <2>2. r.byScope[v] = Bucket(m, L)
    BY <1>4, <2>1
  <2>3. Of(D, L) = {b \in D : ScopeOf(b) = v}
    BY <1>5, <1>6, <2>1 DEF Of
  <2>4. L \in SUBSET K /\ "blocks" \in Fields
    BY <2>1 DEF Fields
  <2>5. Agrees(Bucket(m, L), Of(D, L)) /\ Bucket(m, L)["blocks"] = SumOf(Gain("blocks"), Of(D, L))
    BY <1>7, <2>4
  <2> QED
    BY <2>2, <2>3, <2>5
<1>12. ASSUME NEW c \in DOMAIN r.byComponent
       PROVE  Agrees(r.byComponent[c], {b \in D : At(b).component = c})
  <2>1. PICK L : L = {x \in K : x[2] = c}
    OBVIOUS
  <2>2. r.byComponent[c] = Bucket(m, L)
    BY <1>4, <2>1
  <2>3. Of(D, L) = {b \in D : At(b).component = c}
    BY <1>5, <1>6, <2>1 DEF Of
  <2>4. L \in SUBSET K
    BY <2>1
  <2> QED
    BY <1>7, <2>2, <2>3, <2>4
<1> QED
  BY <1>9, <1>10, <1>11, <1>12 DEF Accounts

\* Every block is of one scope.
LEMMA ScopesAddUp ==
  ASSUME site \in Sites, pages = Pages, NEW D \in SUBSET Blocks, NEW g, DOMAIN g = {ScopeOf(b) : b \in D},
         \A v \in DOMAIN g : g[v]["blocks"] = SumOf(Gain("blocks"), {b \in D : ScopeOf(b) = v})
  PROVE  MapThenSumSet(LAMBDA s : g[s]["blocks"], DOMAIN g) = Cardinality(D)
<1>1. PICK B, K, n : B = Blocks /\ IsFiniteSet(B) /\ K = DOMAIN g /\ n = Gain("blocks")
  BY BlocksFinite
<1>2. n \in [B -> Nat] /\ \A b \in B : n[b] = 1
  BY <1>1, GainSays DEF Fields
<1>3. IsFiniteSet(K)
  <2>1. PICK f : f = [b \in D |-> ScopeOf(b)]
    OBVIOUS
  <2>2. IsFiniteSet(DOMAIN f)
    BY <1>1, <2>1, FS_Subset
  <2>3. {f[b] : b \in DOMAIN f} = K
    BY <1>1, <2>1
  <2>4. IsFiniteSet({f[b] : b \in DOMAIN f})
    BY <2>2, ImageFinite
  <2> QED
    BY <2>3, <2>4
<1>4. PICK part : part = [v \in K |-> g[v]["blocks"]]
  OBVIOUS
<1>5. PICK kind : kind = [b \in B |-> IF b \in D THEN ScopeOf(b) ELSE ""]
  OBVIOUS
<1>6. \A b \in D : ScopeOf(b) # ""
  BY DEF ScopeOf
<1>7. "" \notin K
  BY <1>1, <1>6
<1>8. ASSUME NEW v \in K PROVE part[v] = SumOf(n, {b \in B : kind[b] = v})
  <2>1. v # ""
    BY <1>7
  <2>2. {b \in B : kind[b] = v} = {b \in D : ScopeOf(b) = v}
    BY <1>1, <1>5, <2>1
  <2> QED
    BY <1>1, <1>4, <2>2
<1>9. ASSUME NEW v \in K PROVE part[v] \in Nat
  <2>1. PICK T : T = {b \in B : kind[b] = v}
    OBVIOUS
  <2>2. T \in SUBSET B
    BY <2>1
  <2>3. SumOf(n, T) \in Nat
    BY <1>1, <1>2, <2>2, SumOfSteps
  <2> QED
    BY <1>8, <2>1, <2>3
<1>10. part \in [K -> Nat]
  BY <1>4, <1>9
<1>11. SumOf(part, K) = SumOf(n, {b \in B : kind[b] \in K})
  <2>1. K \in SUBSET K
    OBVIOUS
  <2> QED
    BY <1>1, <1>2, <1>3, <1>8, <1>10, <2>1, SumOfParts
<1>12. {b \in B : kind[b] \in K} = D
  BY <1>1, <1>5, <1>7
<1>13. SumOf(n, D) = Cardinality(D)
  <2>1. D \in SUBSET B
    BY <1>1
  <2> QED
    BY <1>1, <1>2, <2>1, SumOfOnes
<1>14. MapThenSumSet(LAMBDA s : g[s]["blocks"], K) = SumOf(part, K)
  <2>1. \A v \in K : part[v] = g[v]["blocks"]
    BY <1>4
  <2> QED
    BY <1>3, <1>10, <2>1, GroupSum
<1> QED
  BY <1>1, <1>11, <1>12, <1>13, <1>14

\* What the tally of a page says.
LEMMA TallySays ==
  ASSUME site \in Sites, pages = Pages, NEW D \in SUBSET Blocks, NEW s, Paged(s, D), NEW file \in DOMAIN s.byFile
  PROVE  /\ s.byFile[file].blocks = Cardinality(OnPage(D, file))
         /\ s.byFile[file].totalMs = Spent(OnPage(D, file))
<1>1. PICK B, n, T : B = Blocks /\ IsFiniteSet(B) /\ n = Gain("blocks") /\ T = OnPage(D, file)
  BY BlocksFinite
<1>2. n \in [B -> Nat] /\ \A b \in B : n[b] = 1
  BY <1>1, GainSays DEF Fields
<1>3. T \in SUBSET B
  BY <1>1 DEF OnPage
<1>4. s.byFile[file] = [f \in TallyFields |-> SumOf(Gain(f), T)]
  BY <1>1 DEF Paged
<1>5. s.byFile[file].blocks = SumOf(n, T) /\ s.byFile[file].totalMs = SumOf(Gain("totalMs"), T)
  BY <1>1, <1>4 DEF TallyFields
<1>6. SumOf(n, T) = Cardinality(T)
  BY <1>1, <1>2, <1>3, SumOfOnes
<1>7. SumOf(Gain("totalMs"), T) = Spent(T)
  BY <1>1, <1>3, SpentSum
<1> QED
  BY <1>1, <1>5, <1>6, <1>7

\* The list of the slowest is what it says.
LEMMA RankedIsSlowest ==
  ASSUME NEW D, Ranked(sinks.slowest, D), D = Done
  PROVE  SlowestAreSlowest
<1>1. PICK list : list = sinks.slowest
  OBVIOUS
<1>2. list \in Seq(Samples(D)) /\ Descending(list)
  BY <1>1 DEF Ranked
<1>3. PICK n \in Nat : n = Len(list) /\ DOMAIN list = 1 .. n
  BY <1>2
<1>4. \A k \in 2 .. n : list[k].totalMs <= list[k - 1].totalMs
  BY <1>2, <1>3 DEF Descending
<1>5. ToSet(list) = {list[k] : k \in 1 .. n}
  BY <1>3 DEF ToSet
<1>6. ASSUME NEW b \in D \ {x.block : x \in ToSet(list)}, NEW x \in ToSet(list) PROVE At(b).ms <= x.totalMs
  <2>1. ~In(list, Sample(b))
    <3>1. Sample(b).block = b
      BY DEF Sample
    <3> HIDE DEF Sample
    <3> QED
      BY <1>3, <1>5, <1>6, <3>1 DEF In
  <2>2. \A k \in 1 .. n : At(b).ms <= list[k].totalMs
    BY <1>1, <1>3, <2>1 DEF Ranked
  <2> QED
    BY <1>5, <2>2
<1>7. Len(list) = IF Cardinality(D) < SlowestLimit THEN Cardinality(D) ELSE SlowestLimit
  BY <1>1 DEF Ranked
<1> QED
  BY <1>1, <1>3, <1>4, <1>6, <1>7 DEF SlowestAreSlowest, Done

\* The blocks that a group of buckets counts.
BlocksIn(group) == MapThenSumSet(LAMBDA s : group[s]["blocks"], DOMAIN group)

\* What is reported of the blocks in D is so.
SoReported(report, byFile, summary, D) ==
  /\ Agrees(report.overall, D)
  /\ \A f \in Fields : summary[f] = report.overall[f]
  /\ \A s \in DOMAIN report.byScope : Agrees(report.byScope[s], {b \in D : (s = "api") = Scoped(b[1])})
  /\ \A c \in DOMAIN report.byComponent : Agrees(report.byComponent[c], {b \in D : At(b).component = c})
  /\ BlocksIn(report.byScope) = Cardinality(D)
  /\ \A file \in DOMAIN byFile :
       byFile[file].blocks = Cardinality(OnPage(D, file)) /\ byFile[file].totalMs = Spent(OnPage(D, file))

\* A build that has reported has reported what is so.
LEMMA ReportIsSo == PassInv /\ ReportInv => ReportAddsUp
<1> SUFFICES ASSUME PassInv, ReportInv, phase = "reported", Done # {} PROVE ReportAddsUp
  BY DEF ReportAddsUp, Done
<1>1. site \in Sites /\ pages = Pages
  BY DEF PassInv, TypeInv
<1>2. artifacts = Artifacts(sinks)
  BY DEF PassInv, ToldAll
<1>3. PICK D, s, r : D = Done /\ s = sinks /\ r = Report(s.metrics)
  OBVIOUS
<1>4. D \in SUBSET Blocks /\ D # {} /\ Measures(s, D) /\ IsFiniteSet(D)
  <2>1. D \in SUBSET Blocks /\ D # {} /\ Measures(s, D)
    BY <1>3 DEF Done, ReportInv
  <2>2. PICK B : B = Blocks /\ IsFiniteSet(B)
    BY <1>1, BlocksFinite
  <2> QED
    BY <2>1, <2>2, FS_Subset
<1>5. /\ Agrees(r.overall, D) /\ \A f \in Fields : r.overall[f] = SumOf(Gain(f), D)
      /\ DOMAIN r.byScope = {ScopeOf(b) : b \in D}
      /\ \A v \in DOMAIN r.byScope :
           Agrees(r.byScope[v], {b \in D : ScopeOf(b) = v})
           /\ r.byScope[v]["blocks"] = SumOf(Gain("blocks"), {b \in D : ScopeOf(b) = v})
      /\ \A c \in DOMAIN r.byComponent : Agrees(r.byComponent[c], {b \in D : At(b).component = c})
  <2>1. Accounts(r, D)
    BY <1>1, <1>3, <1>4, ReportSays
  <2> QED
    BY <2>1 DEF Accounts
<1>6. r.overall["blocks"] # 0
  <2>1. r.overall["blocks"] = Cardinality(D)
    BY <1>5 DEF Agrees
  <2>2. Cardinality(D) # 0
    BY <1>4, FS_EmptySet
  <2> QED
    BY <2>1, <2>2
<1>7. artifacts.render = [report |-> r, byFile |-> s.byFile, slowest |-> s.slowest]
  BY <1>2, <1>3, <1>6 DEF Artifacts
<1>8. artifacts.render.report = r /\ artifacts.render.byFile = s.byFile
  BY <1>7
<1>9. \A f \in Fields : artifacts.summary[f] = r.overall[f]
  <2> SUFFICES ASSUME NEW f \in Fields PROVE artifacts.summary[f] = r.overall[f]
    OBVIOUS
  <2>1. artifacts.summary = Summary(s.metrics)
    BY <1>2, <1>3 DEF Artifacts
  <2>2. artifacts.summary[f] = Read(s.metrics, <<f, Untagged>>)
    BY <2>1 DEF Summary
  <2>3. Share(D, Untagged) = D
    BY DEF Share
  <2> QED
    BY <1>4, <1>5, <2>2, <2>3 DEF Measures, Totalled
<1>10. \A v \in DOMAIN r.byScope : Agrees(r.byScope[v], {b \in D : (v = "api") = Scoped(b[1])})
  <2> SUFFICES ASSUME NEW v \in DOMAIN r.byScope PROVE Agrees(r.byScope[v], {b \in D : (v = "api") = Scoped(b[1])})
    OBVIOUS
  <2>1. v = "api" \/ v = "(unscoped)"
    BY <1>5 DEF ScopeOf
  <2>2. {b \in D : ScopeOf(b) = v} = {b \in D : (v = "api") = Scoped(b[1])}
    BY <2>1 DEF ScopeOf, Scoped
  <2> QED
    BY <1>5, <2>2
<1>11. BlocksIn(r.byScope) = Cardinality(D)
  <2>1. PICK g : g = r.byScope
    OBVIOUS
  <2>2. DOMAIN g = {ScopeOf(b) : b \in D} /\ \A v \in DOMAIN g : g[v]["blocks"] = SumOf(Gain("blocks"), {b \in D : ScopeOf(b) = v})
    BY <1>5, <2>1
  <2>3. BlocksIn(g) = Cardinality(D)
    BY <1>1, <1>4, <2>2, ScopesAddUp DEF BlocksIn
  <2> QED
    BY <2>1, <2>3
<1>12. \A file \in DOMAIN s.byFile :
         s.byFile[file].blocks = Cardinality(OnPage(D, file)) /\ s.byFile[file].totalMs = Spent(OnPage(D, file))
  BY <1>1, <1>4, TallySays DEF Measures
<1>13. artifacts.render.report = r /\ artifacts.render.byFile = s.byFile /\ D = {b \in Blocks : stage[b] = "done"}
  BY <1>3, <1>8 DEF Done
<1>14. SoReported(artifacts.render.report, artifacts.render.byFile, artifacts.summary, D)
  <2>1. SoReported(r, s.byFile, artifacts.summary, D)
    BY <1>5, <1>9, <1>10, <1>11, <1>12 DEF SoReported
  <2> QED
    BY <1>13, <2>1
<1> HIDE DEF Done
<1> QED
  BY <1>13, <1>14 DEF ReportAddsUp, Agrees, OnPage, SoReported, BlocksIn

\* What a build reports of the blocks it rendered, and of the slowest of them,
\* is so, whatever the order they were rendered in.
THEOREM ReportsHold == Spec => []ReportHolds
<1>1. PassInv /\ ReportInv => ReportHolds
  BY ReportIsSo, RankedIsSlowest DEF ReportInv, ReportHolds
<1> QED
  BY <1>1, ReportInvAlways, PTL
================================================================================
