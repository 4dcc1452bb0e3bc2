-------------------------- MODULE TypeRegistryProofs --------------------------
(***************************************************************************)
(* Theorems about TypeRegistry, for any number of packages, files, loaders *)
(* and keepers and under every fault.                                      *)
(***************************************************************************)
EXTENDS TypeRegistry, TLAPS

--------------------------------------------------------------------------------
(* Type correctness. *)

\* None is nobody's name, no directory and no row.
LEMMA NoneIsNothing ==
  /\ \A tree \in Trees : tree # None
  /\ \A f \in Loaders \cup Keepers : f # None
  /\ "live" # None /\ "expired" # None
  /\ Files \in Trees /\ {} \in Trees
BY ConstantsAssumption DEF Trees

LEMMA InitType == Init => TypeOK
BY DEF Init, TypeOK, Trees, Pcs

LEMMA GotoType ==
  ASSUME TypeOK, NEW l \in Loaders, NEW s \in Pcs, Goto(l, s)
  PROVE  pc' \in [Loaders -> Pcs]
BY DEF Goto, TypeOK

LEMMA FailType ==
  ASSUME TypeOK, NEW l \in Loaders, Fail(l)
  PROVE  pc' \in [Loaders -> Pcs] /\ lock' \in Loaders \cup Keepers \cup {None}
BY DEF Fail, Goto, TypeOK, Pcs

LEMMA StepType == TypeOK /\ [Next]_vars => TypeOK'
<1> SUFFICES ASSUME TypeOK, [Next]_vars PROVE TypeOK'
  OBVIOUS
<1> USE DEF disk, reading
<1>a. /\ \A l \in Loaders : Pkg(l) \in Pkgs
      /\ \A p \in Pkgs : live[p] \in {None} \cup Trees
      /\ \A p \in Pkgs : retired[p] \in {None} \cup Trees
  BY DEF TypeOK, Pkg, Calls
<1>b. \A s \in {"idle", "meta", "exists", "fetch", "commit", "retire", "promote",
                "cleanup", "record", "list", "read", "served", "failed"} : s \in Pcs
  BY DEF Pcs
<1>1. ASSUME NEW l \in Loaders, NEW call \in Calls, Request(l, call) PROVE TypeOK'
  BY <1>1, <1>b, GotoType DEF Request, TypeOK
<1>2. ASSUME NEW l \in Loaders, ReadMetadata(l) PROVE TypeOK'
  BY <1>2, <1>a, <1>b, GotoType, FailType DEF ReadMetadata, FailIf, TypeOK
<1>3. ASSUME NEW l \in Loaders, Classify(l) PROVE TypeOK'
  BY <1>3, <1>b, GotoType, FailType DEF Classify, FailIf, TypeOK
<1>4. ASSUME NEW l \in Loaders, Fetch(l) PROVE TypeOK'
  BY <1>4, <1>b, GotoType, FailType DEF Fetch, FailIf, TypeOK
<1>5. ASSUME NEW l \in Loaders, Stage(l) PROVE TypeOK'
  BY <1>5, <1>a, <1>b, GotoType DEF Stage, TypeOK
<1>6. ASSUME NEW l \in Loaders, Retire(l) PROVE TypeOK'
  BY <1>6, <1>a, <1>b, GotoType DEF Retire, TypeOK
<1>7. ASSUME NEW l \in Loaders, Promote(l) PROVE TypeOK'
  BY <1>7, <1>a, <1>b, GotoType DEF Promote, TypeOK, Trees
<1>8. ASSUME NEW l \in Loaders, Cleanup(l) PROVE TypeOK'
  BY <1>8, <1>a, <1>b, GotoType DEF Cleanup, TypeOK
<1>9. ASSUME NEW l \in Loaders, Record(l) PROVE TypeOK'
  BY <1>9, <1>a, <1>b, GotoType, FailType DEF Record, FailIf, TypeOK
<1>10. ASSUME NEW l \in Loaders, List(l) PROVE TypeOK'
  BY <1>10, <1>a, <1>b, GotoType, FailType DEF List, TypeOK
<1>11. ASSUME NEW l \in Loaders, NEW f \in Files, ReadFile(l, f) PROVE TypeOK'
  BY <1>11, <1>b, FailType DEF ReadFile, TypeOK, Trees
<1>12. ASSUME NEW l \in Loaders, Serve(l) PROVE TypeOK'
  BY <1>12, <1>b, GotoType DEF Serve, TypeOK
<1>13. ASSUME NEW l \in Loaders, Return(l) PROVE TypeOK'
  BY <1>13, <1>b, GotoType DEF Return, TypeOK, Trees
<1>14. ASSUME NEW k \in Keepers, NEW p \in Pkgs, ClearMetadata(k, p) PROVE TypeOK'
  BY <1>14 DEF ClearMetadata, TypeOK
<1>15. ASSUME NEW k \in Keepers, PruneMetadata(k) PROVE TypeOK'
  BY <1>15 DEF PruneMetadata, TypeOK
<1>16. ASSUME NEW k \in Keepers, NEW p \in Pkgs, NEW f \in Files, RemoveFile(k, p, f)
       PROVE TypeOK'
  <2>1. live[p] \in Trees
    BY <1>16, <1>a DEF RemoveFile, OnDisk
  <2> QED
    BY <1>16, <2>1 DEF RemoveFile, TypeOK, Trees
<1>17. ASSUME NEW k \in Keepers, NEW p \in Pkgs, RemoveDirectory(k, p) \/ RemovalFails(k, p)
       PROVE TypeOK'
  BY <1>17 DEF RemoveDirectory, RemovalFails, TypeOK
<1>18. ASSUME NEW k \in Keepers, ReleaseKeeper(k) PROVE TypeOK'
  BY <1>18 DEF ReleaseKeeper, TypeOK
<1>19. ASSUME NEW p \in Pkgs, Expire(p) PROVE TypeOK'
  BY <1>19 DEF Expire, TypeOK
<1>20. CASE Crash
  BY <1>20 DEF Crash, TypeOK, Trees, Pcs
<1>21. CASE UNCHANGED vars
  BY <1>21 DEF vars, TypeOK
<1> QED
  BY <1>1, <1>2, <1>3, <1>4, <1>5, <1>6, <1>7, <1>8, <1>9, <1>10, <1>11, <1>12, <1>13,
     <1>14, <1>15, <1>16, <1>17, <1>18, <1>19, <1>20, <1>21
     DEF Next, LoadStep, KeepStep

\* Every reachable state is well typed, whatever fails (all of TypeRegistry.ts
\* and TypeCache.ts).
THEOREM TypeCorrect == Spec => []TypeOK
BY InitType, StepType, PTL DEF Spec

--------------------------------------------------------------------------------
(* Mutual exclusion. *)

LEMMA InitOne == Init => OneMutatorAtATime
BY NoneIsNothing DEF Init, OneMutatorAtATime, Writing

\* A loader that fails leaves the critical section and hands its permit back.
LEMMA FailOne ==
  ASSUME TypeOK, OneMutatorAtATime, NEW l \in Loaders, Fail(l), todo' = todo
  PROVE  OneMutatorAtATime'
BY NoneIsNothing, ConstantsAssumption DEF Fail, Goto, TypeOK, OneMutatorAtATime, Writing

\* Moving on within, or outside, the critical section takes no permit.
LEMMA GotoOne ==
  ASSUME TypeOK, OneMutatorAtATime, NEW l \in Loaders, NEW s, Goto(l, s),
         s \in Writing <=> pc[l] \in Writing, lock' = lock, todo' = todo
  PROVE  OneMutatorAtATime'
BY DEF Goto, TypeOK, OneMutatorAtATime

LEMMA StepOne == TypeOK /\ OneMutatorAtATime /\ [Next]_vars => OneMutatorAtATime'
<1> SUFFICES ASSUME TypeOK, OneMutatorAtATime, [Next]_vars PROVE OneMutatorAtATime'
  OBVIOUS
<1>w. Writing = {"retire", "promote", "cleanup", "record"}
  BY DEF Writing
<1>1. ASSUME NEW l \in Loaders, NEW call \in Calls, Request(l, call) PROVE OneMutatorAtATime'
  BY <1>1, <1>w, GotoOne DEF Request
<1>2. ASSUME NEW l \in Loaders, ReadMetadata(l) PROVE OneMutatorAtATime'
  BY <1>2, <1>w, GotoOne, FailOne DEF ReadMetadata, FailIf
<1>3. ASSUME NEW l \in Loaders, Classify(l) PROVE OneMutatorAtATime'
  BY <1>3, <1>w, GotoOne, FailOne DEF Classify, FailIf
<1>4. ASSUME NEW l \in Loaders, Fetch(l) PROVE OneMutatorAtATime'
  BY <1>4, <1>w, GotoOne, FailOne DEF Fetch, FailIf
<1>5. ASSUME NEW l \in Loaders, Stage(l) PROVE OneMutatorAtATime'
  BY <1>5, NoneIsNothing, ConstantsAssumption
     DEF Stage, Goto, TypeOK, OneMutatorAtATime, Writing
<1>6. ASSUME NEW l \in Loaders, Retire(l) \/ Promote(l) \/ Cleanup(l) PROVE OneMutatorAtATime'
  BY <1>6, <1>w, GotoOne DEF Retire, Promote, Cleanup
<1>7. ASSUME NEW l \in Loaders, Record(l) PROVE OneMutatorAtATime'
  <2>1. CASE lock' = None /\ Goto(l, "list") /\ todo' = todo
    BY <1>7, <2>1, NoneIsNothing, ConstantsAssumption
       DEF Record, Goto, TypeOK, OneMutatorAtATime, Writing
  <2> QED
    BY <1>7, <2>1, FailOne DEF Record, FailIf
<1>8. ASSUME NEW l \in Loaders, List(l) PROVE OneMutatorAtATime'
  BY <1>8, <1>w, GotoOne, FailOne DEF List
<1>9. ASSUME NEW l \in Loaders, NEW f \in Files, ReadFile(l, f) PROVE OneMutatorAtATime'
  BY <1>9, FailOne DEF ReadFile, OneMutatorAtATime
<1>10. ASSUME NEW l \in Loaders, Serve(l) \/ Return(l) PROVE OneMutatorAtATime'
  BY <1>10, <1>w, GotoOne DEF Serve, Return
<1>11. ASSUME NEW k \in Keepers, NEW p \in Pkgs, ClearMetadata(k, p) PROVE OneMutatorAtATime'
  BY <1>11, NoneIsNothing, ConstantsAssumption DEF ClearMetadata, TypeOK, OneMutatorAtATime
<1>12. ASSUME NEW k \in Keepers, PruneMetadata(k) PROVE OneMutatorAtATime'
  BY <1>12, NoneIsNothing, ConstantsAssumption DEF PruneMetadata, TypeOK, OneMutatorAtATime
<1>13. ASSUME NEW k \in Keepers, KeepStep(k) PROVE OneMutatorAtATime'
  BY <1>13, NoneIsNothing, ConstantsAssumption
     DEF KeepStep, RemoveFile, RemoveDirectory, RemovalFails, ReleaseKeeper, TypeOK,
         OneMutatorAtATime
<1>14. ASSUME NEW p \in Pkgs, Expire(p) PROVE OneMutatorAtATime'
  BY <1>14 DEF Expire, OneMutatorAtATime
<1>15. CASE Crash
  BY <1>15, NoneIsNothing DEF Crash, OneMutatorAtATime, Writing
<1>16. CASE UNCHANGED vars
  BY <1>16 DEF vars, OneMutatorAtATime
<1> QED
  BY <1>1, <1>2, <1>3, <1>4, <1>5, <1>6, <1>7, <1>8, <1>9, <1>10, <1>11, <1>12, <1>13,
     <1>14, <1>15, <1>16 DEF Next, LoadStep

\* Commits, clearCache and pruneCache exclude each other (the mutations
\* semaphore of TypeRegistry.ts), on failure paths and after a crash too.
THEOREM MutualExclusion == Spec => []OneMutatorAtATime
<1>1. Init => TypeOK /\ OneMutatorAtATime
  BY InitType, InitOne
<1>2. TypeOK /\ OneMutatorAtATime /\ [Next]_vars => (TypeOK /\ OneMutatorAtATime)'
  BY StepType, StepOne
<1> QED
  BY <1>1, <1>2, PTL DEF Spec
--------------------------------------------------------------------------------
(* Rows never promise files that are not there.  Two facts about the holder of  *)
(* the semaphore carry the argument: a loader about to retire the live tree has *)
(* nothing else retired, and one past its promotion has a whole package behind  *)
(* it; a keeper removes only what no row vouches for any more.                  *)

CommitShape ==
  /\ \A l \in Loaders : pc[l] = "retire" => retired[Pkg(l)] = None
  /\ \A l \in Loaders : pc[l] \in {"cleanup", "record"} => live[Pkg(l)] = Files
RemovalShape ==
  \A k \in Keepers, p \in Pkgs : p \in todo[k] => meta[p] = None

Consistent == TypeOK /\ OneMutatorAtATime /\ CommitShape /\ RemovalShape /\ NoPhantomHit

LEMMA InitConsistent == Init => Consistent
BY InitType, InitOne, NoneIsNothing
   DEF Init, Consistent, CommitShape, RemovalShape, NoPhantomHit

\* Both planes and every call stay as they are, and no loader enters or moves
\* inside its commit.
LEMMA PlanesUntouched ==
  ASSUME Consistent, live' = live, retired' = retired, meta' = meta, todo' = todo,
         \A l \in Loaders : pc'[l] \in Writing => pc'[l] = pc[l] /\ Pkg(l)' = Pkg(l)
  PROVE  (CommitShape /\ RemovalShape /\ NoPhantomHit)'
BY DEF Consistent, CommitShape, RemovalShape, NoPhantomHit, Writing

LEMMA StepConsistent == Consistent /\ [Next]_vars => Consistent'
<1> SUFFICES ASSUME Consistent, [Next]_vars
             PROVE  (CommitShape /\ RemovalShape /\ NoPhantomHit)'
  BY StepType, StepOne DEF Consistent
<1> USE DEF disk, reading
<1>0. /\ TypeOK /\ OneMutatorAtATime /\ CommitShape /\ RemovalShape /\ NoPhantomHit
      /\ \A l \in Loaders : Pkg(l) \in Pkgs
  BY DEF Consistent, TypeOK, Pkg, Calls
<1>w. Writing = {"retire", "promote", "cleanup", "record"}
  BY DEF Writing
\* The holder of the semaphore is alone in it.
<1>s. \A l, m \in Loaders : pc[l] \in Writing /\ pc[m] \in Writing => l = m
  BY <1>0 DEF OneMutatorAtATime
<1>k. \A l \in Loaders, k \in Keepers : pc[l] \in Writing => todo[k] = {}
  BY <1>0, ConstantsAssumption DEF OneMutatorAtATime
<1>n. lock = None => /\ \A l \in Loaders : pc[l] \notin Writing
                     /\ \A k \in Keepers : todo[k] = {}
  BY <1>0, NoneIsNothing DEF OneMutatorAtATime
<1>1. ASSUME NEW l \in Loaders, NEW call \in Calls, Request(l, call)
      PROVE  (CommitShape /\ RemovalShape /\ NoPhantomHit)'
  BY <1>0, <1>1, <1>w, PlanesUntouched DEF Request, Goto, Pkg, TypeOK
<1>2. ASSUME NEW l \in Loaders, ReadMetadata(l)
      PROVE  (CommitShape /\ RemovalShape /\ NoPhantomHit)'
  <2>1. CASE Fail(l) /\ meta' = meta
    BY <1>0, <1>2, <2>1, <1>w, PlanesUntouched DEF ReadMetadata, Fail, Goto, Pkg, TypeOK
  <2>2. CASE Goto(l, "exists") /\ meta' = [meta EXCEPT ![Pkg(l)] = IF @ = "expired" THEN None ELSE @]
    <3>1. \A p \in Pkgs : meta'[p] = meta[p] \/ meta'[p] = None
      BY <1>0, <2>2 DEF TypeOK
    <3>2. CommitShape'
      BY <1>0, <1>2, <2>2 DEF ReadMetadata, Goto, CommitShape, Pkg, TypeOK
    <3> QED
      BY <1>0, <1>2, <3>1, <3>2, NoneIsNothing DEF ReadMetadata, RemovalShape, NoPhantomHit
  <2> QED
    BY <1>2, <2>1, <2>2 DEF ReadMetadata, FailIf
<1>3. ASSUME NEW l \in Loaders, Classify(l) \/ Fetch(l) \/ List(l) \/ Serve(l) \/ Return(l)
      PROVE  (CommitShape /\ RemovalShape /\ NoPhantomHit)'
  <2>1. /\ live' = live /\ retired' = retired /\ meta' = meta /\ todo' = todo /\ want' = want
        /\ \E s \in {"list", "fetch", "commit", "read", "served", "failed", "idle"} : Goto(l, s)
    BY <1>3 DEF Classify, Fetch, List, Serve, Return, FailIf, Fail
  <2> QED
    BY <1>0, <2>1, <1>w, PlanesUntouched DEF Goto, Pkg, TypeOK
<1>4. ASSUME NEW l \in Loaders, NEW f \in Files, ReadFile(l, f)
      PROVE  (CommitShape /\ RemovalShape /\ NoPhantomHit)'
  BY <1>0, <1>4, <1>w, PlanesUntouched DEF ReadFile, Fail, Goto, Pkg, TypeOK
<1>5. ASSUME NEW l \in Loaders, Stage(l)
      PROVE  (CommitShape /\ RemovalShape /\ NoPhantomHit)'
  <2>1. CommitShape'
    <3>1. \A m \in Loaders : m # l => pc'[m] \notin Writing
      BY <1>0, <1>5, <1>n DEF Stage, Goto, TypeOK
    <3>2. pc'[l] \in {"retire", "failed"} /\ retired'[Pkg(l)] = None /\ Pkg(l)' = Pkg(l)
      BY <1>0, <1>5 DEF Stage, Goto, TypeOK, Pkg
    <3> QED
      BY <3>1, <3>2 DEF CommitShape, Writing
  <2>2. RemovalShape'
    BY <1>0, <1>5 DEF Stage, RemovalShape
  <2>3. NoPhantomHit'
    BY <1>0, <1>5, NoneIsNothing DEF Stage, NoPhantomHit, TypeOK
  <2> QED
    BY <2>1, <2>2, <2>3
<1>6. ASSUME NEW l \in Loaders, Retire(l)
      PROVE  (CommitShape /\ RemovalShape /\ NoPhantomHit)'
  <2>1. CommitShape'
    <3>1. \A m \in Loaders : m # l => pc'[m] \notin Writing
      BY <1>0, <1>6, <1>s, <1>w DEF Retire, Goto, TypeOK
    <3>2. pc'[l] = "promote"
      BY <1>0, <1>6 DEF Retire, Goto, TypeOK
    <3> QED
      BY <3>1, <3>2 DEF CommitShape, Writing
  <2>2. RemovalShape'
    BY <1>0, <1>6 DEF Retire, RemovalShape
  <2>3. meta[Pkg(l)] = "live" => live[Pkg(l)] = Files
    BY <1>0, <1>6, NoneIsNothing DEF Retire, CommitShape, NoPhantomHit
  <2>4. NoPhantomHit'
    BY <1>0, <1>6, <2>3, NoneIsNothing DEF Retire, NoPhantomHit, TypeOK
  <2> QED
    BY <2>1, <2>2, <2>4
<1>7. ASSUME NEW l \in Loaders, Promote(l)
      PROVE  (CommitShape /\ RemovalShape /\ NoPhantomHit)'
  <2>1. CommitShape'
    <3>1. \A m \in Loaders : m # l => pc'[m] \notin Writing
      BY <1>0, <1>7, <1>s, <1>w DEF Promote, Goto, TypeOK
    <3>2. pc'[l] = "cleanup" /\ live'[Pkg(l)] = Files /\ Pkg(l)' = Pkg(l)
      BY <1>0, <1>7 DEF Promote, Goto, TypeOK, Pkg
    <3> QED
      BY <3>1, <3>2 DEF CommitShape, Writing
  <2>2. RemovalShape' /\ NoPhantomHit'
    BY <1>0, <1>7 DEF Promote, RemovalShape, NoPhantomHit, TypeOK
  <2> QED
    BY <2>1, <2>2
<1>8. ASSUME NEW l \in Loaders, Cleanup(l)
      PROVE  (CommitShape /\ RemovalShape /\ NoPhantomHit)'
  <2>0. live[Pkg(l)] = Files
    BY <1>0, <1>8 DEF Cleanup, CommitShape
  <2>1. CommitShape'
    <3>1. \A m \in Loaders : m # l => pc'[m] \notin Writing
      BY <1>0, <1>8, <1>s, <1>w DEF Cleanup, Goto, TypeOK
    <3>2. pc'[l] = "record" /\ live'[Pkg(l)] = Files /\ Pkg(l)' = Pkg(l)
      BY <1>0, <1>8, <2>0 DEF Cleanup, Goto, TypeOK, Pkg
    <3> QED
      BY <3>1, <3>2 DEF CommitShape, Writing
  <2>2. RemovalShape' /\ NoPhantomHit'
    BY <1>0, <1>8, <2>0 DEF Cleanup, RemovalShape, NoPhantomHit, TypeOK
  <2> QED
    BY <2>1, <2>2
<1>9. ASSUME NEW l \in Loaders, Record(l)
      PROVE  (CommitShape /\ RemovalShape /\ NoPhantomHit)'
  <2>0. live[Pkg(l)] = Files
    BY <1>0, <1>9 DEF Record, CommitShape
  <2>1. \A m \in Loaders : pc'[m] \notin Writing
    BY <1>0, <1>9, <1>s, <1>w DEF Record, FailIf, Fail, Goto, TypeOK
  <2>2. RemovalShape'
    BY <1>0, <1>9, <1>k, <1>w DEF Record, RemovalShape, TypeOK
  <2>3. NoPhantomHit'
    BY <1>0, <1>9, <2>0 DEF Record, NoPhantomHit, TypeOK
  <2> QED
    BY <2>1, <2>2, <2>3 DEF CommitShape, Writing
<1>10. ASSUME NEW k \in Keepers, NEW p \in Pkgs, ClearMetadata(k, p)
       PROVE  (CommitShape /\ RemovalShape /\ NoPhantomHit)'
  BY <1>0, <1>10, <1>n, NoneIsNothing
     DEF ClearMetadata, CommitShape, RemovalShape, NoPhantomHit, TypeOK, Pkg
<1>11. ASSUME NEW k \in Keepers, PruneMetadata(k)
       PROVE  (CommitShape /\ RemovalShape /\ NoPhantomHit)'
  BY <1>0, <1>11, <1>n, NoneIsNothing
     DEF PruneMetadata, CommitShape, RemovalShape, NoPhantomHit, TypeOK, Pkg
<1>12. ASSUME NEW k \in Keepers, NEW p \in Pkgs, p \in todo[k],
              live' = [live EXCEPT ![p] = live'[p]], live' \in [Pkgs -> {None} \cup Trees],
              retired' = retired, meta' = meta, pc' = pc, want' = want,
              \A j \in Keepers : todo'[j] \subseteq todo[j]
       PROVE  (CommitShape /\ RemovalShape /\ NoPhantomHit)'
  <2>1. \A l \in Loaders : pc[l] \notin Writing
    BY <1>12, <1>k
  <2>2. meta[p] = None /\ \A q \in Pkgs : q # p => live'[q] = live[q]
    BY <1>0, <1>12 DEF RemovalShape, TypeOK
  <2> QED
    BY <1>0, <1>12, <2>1, <2>2, NoneIsNothing
       DEF CommitShape, RemovalShape, NoPhantomHit, Writing
<1>13. ASSUME NEW k \in Keepers, KeepStep(k)
       PROVE  (CommitShape /\ RemovalShape /\ NoPhantomHit)'
  <2>t. live' \in [Pkgs -> {None} \cup Trees]
    BY <1>0, StepType DEF TypeOK
  <2>1. ASSUME NEW p \in Pkgs, NEW f \in Files, RemoveFile(k, p, f)
        PROVE  (CommitShape /\ RemovalShape /\ NoPhantomHit)'
    BY <2>1, <2>t, <1>0, <1>12 DEF RemoveFile, TypeOK
  <2>2. ASSUME NEW p \in Pkgs, RemoveDirectory(k, p) \/ RemovalFails(k, p)
        PROVE  (CommitShape /\ RemovalShape /\ NoPhantomHit)'
    BY <2>2, <2>t, <1>0, <1>12 DEF RemoveDirectory, RemovalFails, TypeOK
  <2>3. CASE ReleaseKeeper(k)
    BY <2>3, <1>0 DEF ReleaseKeeper, CommitShape, RemovalShape, NoPhantomHit, Pkg
  <2> QED
    BY <1>13, <2>1, <2>2, <2>3 DEF KeepStep
<1>14. ASSUME NEW p \in Pkgs, Expire(p)
       PROVE  (CommitShape /\ RemovalShape /\ NoPhantomHit)'
  BY <1>0, <1>14, NoneIsNothing DEF Expire, CommitShape, RemovalShape, NoPhantomHit, TypeOK, Pkg
<1>15. CASE Crash
  BY <1>0, <1>15 DEF Crash, CommitShape, RemovalShape, NoPhantomHit
<1>16. CASE UNCHANGED vars
  BY <1>0, <1>16 DEF vars, CommitShape, RemovalShape, NoPhantomHit, Pkg
<1> QED
  BY <1>1, <1>2, <1>3, <1>4, <1>5, <1>6, <1>7, <1>8, <1>9, <1>10, <1>11, <1>13,
     <1>14, <1>15, <1>16 DEF Next, LoadStep

\* A live row always has the whole package behind it, whatever interleaves,
\* fails or dies (TypeCache.remove's order, prune, fetchAndCacheImpl's commit).
THEOREM RowsAreBacked == Spec => []NoPhantomHit
<1>1. Consistent => NoPhantomHit
  BY DEF Consistent
<1> QED
  BY <1>1, InitConsistent, StepConsistent, PTL DEF Spec

--------------------------------------------------------------------------------
(* Where no keeper runs, what a reader sees of a package is all of it. *)

Whole ==
  /\ \A p \in Pkgs : live[p] \in {None, Files} /\ retired[p] \in {None, Files}
  /\ \A l \in Loaders : pc[l] = "read" => listed[l] = Files
  /\ ServedWhole

LEMMA StepWhole == Keepers = {} /\ TypeOK /\ Whole /\ [Next]_vars => Whole'
<1> SUFFICES ASSUME Keepers = {}, TypeOK, Whole, [Next]_vars PROVE Whole'
  OBVIOUS
<1> USE DEF disk, reading
<1>0. \A l \in Loaders : Pkg(l) \in Pkgs
  BY DEF TypeOK, Pkg, Calls
<1>1. ASSUME NEW l \in Loaders, NEW call \in Calls, Request(l, call) PROVE Whole'
  BY <1>1 DEF Request, Goto, TypeOK, Whole, ServedWhole
<1>2. ASSUME NEW l \in Loaders, ReadMetadata(l) \/ Classify(l) \/ Fetch(l) PROVE Whole'
  BY <1>2 DEF ReadMetadata, Classify, Fetch, FailIf, Fail, Goto, TypeOK, Whole, ServedWhole
<1>3. ASSUME NEW l \in Loaders, Stage(l) PROVE Whole'
  BY <1>0, <1>3 DEF Stage, Goto, TypeOK, Whole, ServedWhole
<1>4. ASSUME NEW l \in Loaders, Retire(l) \/ Promote(l) \/ Cleanup(l) PROVE Whole'
  BY <1>0, <1>4 DEF Retire, Promote, Cleanup, Goto, TypeOK, Whole, ServedWhole
<1>5. ASSUME NEW l \in Loaders, Record(l) PROVE Whole'
  BY <1>5 DEF Record, FailIf, Fail, Goto, TypeOK, Whole, ServedWhole
<1>6. ASSUME NEW l \in Loaders, List(l) PROVE Whole'
  BY <1>0, <1>6 DEF List, Fail, Goto, TypeOK, Whole, ServedWhole
<1>7. ASSUME NEW l \in Loaders, NEW f \in Files, ReadFile(l, f) PROVE Whole'
  <2>1. pc[l] = "read" /\ live' = live /\ retired' = retired /\ listed' = listed
    BY <1>7 DEF ReadFile
  <2>2. CASE pc' = pc /\ got' = [got EXCEPT ![l] = @ \cup {f}]
    BY <2>1, <2>2 DEF TypeOK, Whole, ServedWhole
  <2>3. CASE Fail(l) /\ got' = got
    BY <2>1, <2>3 DEF Fail, Goto, TypeOK, Whole, ServedWhole
  <2> QED
    BY <1>7, <2>2, <2>3 DEF ReadFile
<1>8. ASSUME NEW l \in Loaders, Serve(l) \/ Return(l) PROVE Whole'
  BY <1>8 DEF Serve, Return, Goto, TypeOK, Whole, ServedWhole
<1>9. ASSUME NEW p \in Pkgs, Expire(p) PROVE Whole'
  BY <1>9 DEF Expire, Whole, ServedWhole
<1>10. CASE Crash
  BY <1>10 DEF Crash, Whole, ServedWhole
<1>11. CASE UNCHANGED vars
  BY <1>11 DEF vars, Whole, ServedWhole
<1> QED
  BY <1>1, <1>2, <1>3, <1>4, <1>5, <1>6, <1>7, <1>8, <1>9, <1>10, <1>11
     DEF Next, LoadStep

\* A successful load is a whole package as long as nothing removes packages: no
\* crash and no concurrent commit ever shows a reader half of one (writePackage).
THEOREM LoadsAreWhole == ASSUME Keepers = {} PROVE Spec => []ServedWhole
<1>1. Init => TypeOK /\ Whole
  BY InitType DEF Init, Whole, ServedWhole
<1>2. TypeOK /\ Whole /\ [Next]_vars => (TypeOK /\ Whole)'
  BY StepType, StepWhole
<1>3. Whole => ServedWhole
  BY DEF Whole
<1> QED
  BY <1>1, <1>2, <1>3, PTL DEF Spec
================================================================================
