------------------------ MODULE IncrementalBuildProofs ------------------------
(***************************************************************************)
(* Theorems about IncrementalBuild, for every set of items, categories and *)
(* contents and any number of builds.  The first ones, except where a      *)
(* theorem says so, hold for every combination of faults: crashes, failing *)
(* statements and failing file system calls may fall anywhere.  The last   *)
(* ones say what a build leaves behind while no process dies, no snapshot  *)
(* statement fails and no generated file disappears: the navigation is     *)
(* current, dates are honest, building a settled site again touches        *)
(* nothing, and seen from its pages the build is DocsSite.                 *)
(***************************************************************************)
EXTENDS IncrementalBuild, TLAPS

(* Shapes of the values the decisions produce. *)

LEMMA KeptType ==
  ASSUME NEW pub \in Times, NEW mod \in Times
  PROVE  Kept(pub, mod) \in Plans
BY DEF Kept, Plans

LEMMA RewrittenType ==
  ASSUME NEW pub \in Times, now \in Times
  PROVE  Rewritten(pub) \in Plans
BY DEF Rewritten, Plans

LEMMA DatesExist == Epoch \in Times /\ Undated \in Times
BY ConstantsAssumption DEF Epoch, Undated, Times

LEMMA PageDecisionType ==
  ASSUME NEW i \in Items, NEW content, NEW seen, now \in Times,
         NEW row \in TextOf(i) \cup {None}
  PROVE  PageDecision(row, content, seen) \in Plans
<1>1. row # None => row.pub \in Times /\ row.mod \in Times
  BY DEF TextOf
<1>2. OrBuildTime(TopLevelTime(seen)) \in Times
  BY DEF OrBuildTime, TopLevelTime
<1> QED
  BY <1>1, <1>2, KeptType, RewrittenType DEF PageDecision

LEMMA MetaDecisionType ==
  ASSUME NEW f \in Files, NEW content, NEW exists \in BOOLEAN, NEW seen, now \in Times,
         NEW row \in TextOf(f) \cup {None}
  PROVE  MetaDecision(row, content, exists, seen) \in Plans
<1>1. row # None => row.pub \in Times /\ row.mod \in Times
  BY DEF TextOf
<1> QED
  BY <1>1, DatesExist, KeptType, RewrittenType DEF MetaDecision

LEMMA RowType ==
  ASSUME NEW f \in Files, NEW content \in ContentsOf(f), NEW p \in Plans
  PROVE  Row(content, p) \in TextOf(f)
BY DEF Row, TextOf, Plans

LEMMA NavContentType ==
  ASSUME NEW f \in Cats \cup {RootMeta}, TypeOK
  PROVE  NavContent(f) \in ContentsOf(f)
BY ConstantsAssumption DEF NavContent, ContentsOf, NonEmpty, Filed, Documented

LEMMA FileKinds ==
  /\ Items \subseteq Files /\ Cats \subseteq Files
  /\ RootMeta \in Files /\ Index \in Files
  /\ ContentsOf(Index) = {Generated, Authored, Torn}
  /\ \A i \in Items : ContentsOf(i) = Contents \cup {Torn}
BY ConstantsAssumption DEF Files, ContentsOf

LEMMA UndatedType ==
  /\ \A t \in {Generated, Authored, Torn} : Landing(t) \in TextOf(Index)
  /\ \A f \in Files : Half(f) \in TextOf(f)
<1>1. ASSUME NEW f \in Files PROVE (IF f \in Cats \cup {RootMeta} THEN TornList ELSE Torn) \in ContentsOf(f)
  <2>1. f \in Items => f \notin Cats \cup {RootMeta}
    BY ConstantsAssumption
  <2>2. f = Index => f \notin Items \cup Cats \cup {RootMeta}
    BY ConstantsAssumption
  <2>3. RootMeta \notin Items \cup Cats
    BY ConstantsAssumption
  <2>4. CASE f \in Items
    BY <2>1, <2>4 DEF ContentsOf
  <2>5. CASE f \in Cats
    BY <2>1, <2>5 DEF ContentsOf
  <2>6. CASE f = RootMeta
    BY <2>3, <2>6 DEF ContentsOf
  <2>7. CASE f = Index
    BY <2>2, <2>3, <2>7, ConstantsAssumption DEF ContentsOf
  <2> QED
    BY <2>4, <2>5, <2>6, <2>7 DEF Files
<1>2. \A t \in {Generated, Authored, Torn} : Landing(t) \in TextOf(Index)
  BY FileKinds, DatesExist DEF Landing, TextOf
<1> QED
  BY <1>1, <1>2, DatesExist DEF Landing, Half, TextOf

LEMMA NavTextType ==
  ASSUME NEW f \in Cats \cup {RootMeta}, TypeOK
  PROVE  NavText(f) \in TextOf(f)
BY NavContentType, DatesExist DEF NavText, TextOf

--------------------------------------------------------------------------------
(* Type correctness.  An idle build holds no memory of an earlier one, which is *)
(* why an edit of the model cannot contradict a decision already taken; past    *)
(* the page stage every documented item has a plan, so its row can be built.    *)

Decided == /\ \A i \in written : plan[i] # None
           /\ phase \notin {"idle", "pages"} => written = Documented

TypeInv == TypeOK /\ (phase = "idle" => NoMemory) /\ Decided

LEMMA InitTypeInv == Init => TypeInv
<1> SUFFICES ASSUME Init PROVE TypeInv
  OBVIOUS
<1> USE DEF Init, NoMemory
<1>1. now \in Times
  BY ConstantsAssumption DEF Times
<1>2. phase \in Phases /\ health \in Healths
  BY DEF Phases, Healths
<1>3. plan \in [Items -> Plans \cup {None}] /\ \A i \in Items : plan[i] = None
  OBVIOUS
<1> QED
  BY <1>1, <1>2, <1>3, FileKinds DEF TypeInv, TypeOK, Decided

\* The memory variables after ForgetMemory have their shapes.
LEMMA ForgetType == ForgetMemory => NoMemory'
BY DEF ForgetMemory, NoMemory

LEMMA IdleShape ==
  ASSUME NoMemory'
  PROVE  /\ (DOMAIN snaps = Files /\ \A f \in Files : snaps[f] \in TextOf(f) \cup {None})'
         /\ (plan \in [Items -> Plans \cup {None}])'
         /\ (\A i \in Items : plan[i] # None => i \in Documented)'
         /\ (written \subseteq Documented)'
         /\ (DOMAIN metaRows = Cats \cup {RootMeta})'
         /\ (\A f \in Cats \cup {RootMeta} : metaRows[f] \in TextOf(f) \cup {None})'
         /\ (generated \subseteq Files /\ stale \subseteq Files)'
         /\ (orphans \subseteq Files /\ dropping \subseteq Files)'
BY DEF NoMemory

LEMMA StepTypeInv == TypeInv /\ [Next]_vars => TypeInv'
<1> SUFFICES ASSUME TypeInv, [Next]_vars PROVE TypeInv'
  OBVIOUS
<1> USE DEF TypeInv, Decided
<1>0. TypeOK
  OBVIOUS
<1>1. CASE BeginBuild
  <2>1. now' \in Times
    BY <1>1, ConstantsAssumption DEF BeginBuild, TypeOK, Times
  <2>2. phase' \in Phases /\ phase' # "idle" /\ health' \in Healths
    BY <1>1 DEF BeginBuild, Phases, Healths
  <2> QED
    BY <1>1, <2>1, <2>2 DEF BeginBuild, TypeOK, Documented
<1>2. ASSUME NEW i \in Items, GeneratePage(i) PROVE TypeInv'
  <2>1. PICK seen : plan' = [plan EXCEPT ![i] = PageDecision(snaps[i], model[i], seen)]
                    /\ DisturbIf(snaps[i] = None /\ seen # disk[i])
    BY <1>2 DEF GeneratePage
  <2>2. PageDecision(snaps[i], model[i], seen) \in Plans
    BY PageDecisionType, FileKinds DEF TypeOK
  <2>3. plan' \in [Items -> Plans \cup {None}]
    BY <2>1, <2>2 DEF TypeOK
  <2>4. \A j \in Items : plan'[j] # None => j \in Documented
    BY <1>2, <2>1 DEF GeneratePage, TypeOK
  <2>5. health' \in Healths
    BY <2>1 DEF DisturbIf, TypeOK, Healths
  <2>6. Documented' = Documented
    BY <1>2 DEF GeneratePage, Documented
  <2> QED
    BY <1>2, <2>3, <2>4, <2>5, <2>6 DEF GeneratePage, TypeOK
<1>3. ASSUME NEW i \in Items, WritePage(i) PROVE TypeInv'
  <2>1. i \in Documented /\ plan[i] \in Plans /\ model[i] \in ContentsOf(i)
    BY <1>3, FileKinds DEF WritePage, TypeOK, Documented
  <2>2. Row(model[i], plan[i]) \in TextOf(i)
    BY <2>1, RowType, FileKinds
  <2>3. DOMAIN disk' = Files /\ \A f \in Files : disk'[f] \in TextOf(f) \cup {None}
    BY <1>3, <2>2 DEF WritePage, TypeOK
  <2>4. Documented' = Documented
    BY <1>3 DEF WritePage, Documented
  <2> QED
    BY <1>3, <2>1, <2>3, <2>4 DEF WritePage, TypeOK
<1>4. CASE EndPages
  BY <1>4, FileKinds DEF EndPages, TypeOK, Documented, Phases
<1>5. ASSUME NEW f \in Cats \cup {RootMeta}, NEW keep \in BOOLEAN, WriteMeta(f, keep),
             UNCHANGED <<model, db, now, snaps, plan, written, stale, orphans, dropping>>,
             phase \notin {"idle", "pages"}, phase' \in Phases \ {"idle"}
      PROVE  TypeInv'
  <2>1. PICK exists \in BOOLEAN, seen \in ReadBack(f) : LET p == MetaDecision(snaps[f], NavContent(f), exists, seen)
          IN  /\ disk' = IF p.unchanged THEN disk ELSE [disk EXCEPT ![f] = NavText(f)]
              /\ metaRows' = [metaRows EXCEPT ![f] =
                                IF p.unchanged /\ ~keep THEN None ELSE Row(NavContent(f), p)]
              /\ generated' = generated \cup {f}
              /\ DisturbIf(exists # (disk[f] # None) \/ seen # disk[f])
    BY <1>5 DEF WriteMeta, Found
  <2>2. f \in Files
    BY FileKinds
  <2> DEFINE p == MetaDecision(snaps[f], NavContent(f), exists, seen)
  <2>3. p \in Plans
    BY <2>2, MetaDecisionType DEF TypeOK
  <2>4. Row(NavContent(f), p) \in TextOf(f)
    BY <2>2, <2>3, NavContentType, RowType
  <2> HIDE DEF p
  <2>5. DOMAIN disk' = Files /\ \A g \in Files : disk'[g] \in TextOf(g) \cup {None}
    BY <2>1, NavTextType DEF TypeOK, p
  <2>6. /\ DOMAIN metaRows' = Cats \cup {RootMeta}
        /\ \A g \in Cats \cup {RootMeta} : metaRows'[g] \in TextOf(g) \cup {None}
    BY <2>1, <2>4 DEF TypeOK, p
  <2>7. generated' \subseteq Files /\ health' \in Healths
    BY <2>1, <2>2 DEF TypeOK, DisturbIf, Healths
  <2>8. Documented' = Documented
    BY <1>5 DEF Documented
  <2> QED
    BY <1>5, <2>5, <2>6, <2>7, <2>8 DEF TypeOK
<1>6. CASE WriteRootMeta
  BY <1>6, <1>5 DEF WriteRootMeta, Phases
<1>7. ASSUME NEW rows, NEW files, Commit(rows, files),
             \A f \in files \cap Files : rows[f] \in TextOf(f) \cup {None}
      PROVE  /\ DOMAIN db' = Files
             /\ \A f \in Files : db'[f] \in TextOf(f) \cup {None}
             /\ health' \in Healths
  BY <1>7 DEF Commit, TypeOK, Disturb, Healths
<1>8. CASE UpsertRootRow
  <2>1. \A f \in {RootMeta} \cap Files : metaRows[f] \in TextOf(f) \cup {None}
    BY DEF TypeOK
  <2>2. Documented' = Documented
    BY <1>8 DEF UpsertRootRow, Documented
  <2> QED
    BY <1>7, <1>8, <2>1, <2>2 DEF UpsertRootRow, TypeOK, Phases
<1>9. CASE WriteIndex
  <2>1. DOMAIN disk' = Files /\ \A f \in Files : disk'[f] \in TextOf(f) \cup {None}
    BY <1>9, UndatedType DEF WriteIndex, TypeOK
  <2>2. health' \in Healths /\ generated' \subseteq Files
    BY <1>9, FileKinds DEF WriteIndex, TypeOK, DisturbIf, Healths
  <2>3. Documented' = Documented
    BY <1>9 DEF WriteIndex, Documented
  <2> QED
    BY <1>9, <2>1, <2>2, <2>3 DEF WriteIndex, TypeOK, Phases
<1>10. ASSUME NEW c \in Cats, WriteCatMeta(c) PROVE TypeInv'
  <2>1. phase' \in Phases \ {"idle"}
    BY <1>10 DEF WriteCatMeta, Phases
  <2> QED
    BY <1>5, <1>10, <2>1 DEF WriteCatMeta
<1>11. CASE CommitCatRows
  <2>1. \A f \in {c \in Cats : metaRows[c] # None} \cap Files :
          metaRows[f] \in TextOf(f) \cup {None}
    BY DEF TypeOK
  <2>2. Documented' = Documented
    BY <1>11 DEF CommitCatRows, Documented
  <2> QED
    BY <1>7, <1>11, <2>1, <2>2 DEF CommitCatRows, TypeOK, Phases
<1>12. CASE CommitPages
  <2> DEFINE changed == {i \in Documented : ~plan[i].unchanged}
             rows    == [i \in changed |-> Row(model[i], plan[i])]
  <2>1. \A i \in changed : plan[i] \in Plans /\ model[i] \in ContentsOf(i)
    BY <1>12, FileKinds DEF CommitPages, TypeOK, Documented
  <2>2. \A i \in changed : Row(model[i], plan[i]) \in TextOf(i)
    BY <2>1, RowType, FileKinds DEF Documented
  <2>3. Commit(rows, changed) /\ Documented' = Documented
    BY <1>12 DEF CommitPages, Documented
  <2> HIDE DEF changed
  <2>4. \A f \in changed \cap Files : rows[f] \in TextOf(f) \cup {None}
    BY <2>2
  <2> QED
    BY <1>7, <1>12, <2>3, <2>4 DEF CommitPages, TypeOK, Phases
<1>13. ASSUME NEW f \in Files, DeleteStaleRow(f) PROVE TypeInv'
  <2>1. Documented' = Documented
    BY <1>13 DEF DeleteStaleRow, Documented
  <2> QED
    BY <1>13, <2>1 DEF DeleteStaleRow, TypeOK
<1>14. CASE EndStale
  <2>1. Documented' = Documented
    BY <1>14 DEF EndStale, Documented
  <2> QED
    BY <1>14, <2>1 DEF EndStale, TypeOK, Phases, Disturb, Healths
<1>15. ASSUME NEW f \in Files, Removed(f)
       PROVE  /\ DOMAIN disk' = Files
              /\ \A g \in Files : disk'[g] \in TextOf(g) \cup {None}
              /\ health' \in Healths
  BY <1>15 DEF Removed, TypeOK, Disturb, Healths
<1>16. ASSUME NEW f \in Files, UnlinkStale(f) PROVE TypeInv'
  <2>1. Documented' = Documented
    BY <1>16 DEF UnlinkStale, Documented
  <2> QED
    BY <1>15, <1>16, <2>1 DEF UnlinkStale, TypeOK
<1>17. CASE ScanOrphans
  <2>1. Documented' = Documented
    BY <1>17 DEF ScanOrphans, Documented
  <2> QED
    BY <1>17, <2>1 DEF ScanOrphans, TypeOK, Phases, Disturb, Healths
<1>18. ASSUME NEW f \in Files, RemoveOrphan(f) PROVE TypeInv'
  <2>1. Documented' = Documented
    BY <1>18 DEF RemoveOrphan, Documented
  <2> QED
    BY <1>15, <1>18, <2>1 DEF RemoveOrphan, TypeOK
<1>19. ASSUME NEW f \in Files, DropOrphanRow(f) PROVE TypeInv'
  <2>1. Documented' = Documented
    BY <1>19 DEF DropOrphanRow, Documented
  <2>2. \A g \in {f} \cap Files : [h \in {f} |-> None][g] \in TextOf(g) \cup {None}
    OBVIOUS
  <2> QED
    BY <1>7, <1>19, <2>1, <2>2 DEF DropOrphanRow, TypeOK
<1>20. ASSUME NoMemory', model' \in [Items -> Contents \cup {None}], now' \in Times,
              DOMAIN disk' = Files, \A f \in Files : disk'[f] \in TextOf(f) \cup {None},
              DOMAIN db' = Files, \A f \in Files : db'[f] \in TextOf(f) \cup {None},
              phase' = "idle", health' \in Healths
       PROVE  TypeInv'
  <2>1. Decided'
    BY <1>20 DEF NoMemory
  <2> QED
    BY <1>20, <2>1, IdleShape DEF TypeOK, Phases
<1>21. CASE FinishBuild
  BY <1>20, <1>21, ForgetType DEF FinishBuild, TypeOK, Healths
<1>22. ASSUME phase = "idle", UNCHANGED memory PROVE NoMemory'
  BY <1>22 DEF NoMemory, memory
<1>23. ASSUME NEW i \in Items, NEW content \in Contents \cup {None}, EditModel(i, content)
       PROVE  TypeInv'
  BY <1>20, <1>22, <1>23 DEF EditModel, TypeOK, Disturb, Healths
<1>24. CASE AuthorIndex
  BY <1>20, <1>22, <1>24, UndatedType DEF AuthorIndex, TypeOK
<1>25. CASE LoseDb
  BY <1>20, <1>22, <1>25 DEF LoseDb, TypeOK
<1>26. ASSUME NEW f \in Files, LoseFile(f) PROVE TypeInv'
  BY <1>20, <1>22, <1>26 DEF LoseFile, TypeOK, Disturb, Healths
<1>27. CASE Crash
  <2>2. DOMAIN disk' = Files /\ \A f \in Files : disk'[f] \in TextOf(f) \cup {None}
    BY <1>27, UndatedType DEF Crash, TypeOK
  <2> QED
    BY <1>20, <1>27, <2>2, ForgetType DEF Crash, TypeOK, Disturb, Healths
<1>28. CASE UNCHANGED vars
  <2>1. Documented' = Documented /\ (NoMemory => NoMemory')
    BY <1>28 DEF vars, Documented, NoMemory
  <2> QED
    BY <1>28, <2>1 DEF vars, TypeOK
<1>29. CASE BuildStep
  BY <1>29, <1>1, <1>2, <1>3, <1>4, <1>6, <1>8, <1>9, <1>10, <1>11, <1>12, <1>13, <1>14,
     <1>16, <1>17, <1>18, <1>19, <1>21 DEF BuildStep, Pipeline
<1>30. CASE Environment
  BY <1>30, <1>23, <1>24, <1>25, <1>26, <1>27 DEF Environment
<1> QED
  BY <1>28, <1>29, <1>30 DEF Next

THEOREM TypeInvariant == Spec => []TypeInv
<1> QED
  BY InitTypeInv, StepTypeInv, PTL DEF Spec

(* Every variable keeps its shape in every behaviour, whatever faults occur.    *)
THEOREM TypeCorrect == Spec => []TypeOK
<1>1. TypeInv => TypeOK
  BY DEF TypeInv
<1> QED
  BY <1>1, TypeInvariant, PTL

--------------------------------------------------------------------------------
(* Nothing is left over, whatever faults occur.  The row sweep leaves only rows *)
(* of generated files, the directory scan queues every other file, and both are *)
(* only relied upon while the build is undisturbed.                             *)

Undisturbed == health \in {"building", "rebuilding"}

Swept ==
  /\ phase # "idle" => generated \subseteq Expected /\ health # "settled"
  /\ Undisturbed /\ phase \in {"unlink", "orphans"} =>
       \A f \in Files \ generated : db[f] = None
  /\ Undisturbed /\ phase = "orphans" =>
       \A f \in Files \ (generated \cup orphans) : disk[f] = None
  /\ NoLeftovers

SweepInv == TypeInv /\ Swept

LEMMA InitSwept == Init => Swept
BY DEF Init, NoMemory, Swept, Undisturbed, NoLeftovers, Settled

\* What the sweep looks at, apart from the files and rows themselves.
LEMMA SameExpected ==
  ASSUME UNCHANGED model
  PROVE  Documented' = Documented /\ NonEmpty' = NonEmpty /\ Expected' = Expected
<1>1. Documented' = Documented
  BY DEF Documented
<1>2. \A c : Filed(c)' = Filed(c)
  BY <1>1 DEF Filed
<1>3. NonEmpty' = NonEmpty
  BY <1>2 DEF NonEmpty
<1> QED
  BY <1>1, <1>3 DEF Expected

LEMMA StepSwept == SweepInv /\ [Next]_vars => Swept'
<1> SUFFICES ASSUME TypeInv, Swept, [Next]_vars PROVE Swept'
  BY DEF SweepInv
<1> USE DEF Swept, Undisturbed, Settled, NoLeftovers
<1>1. CASE BeginBuild
  <2>1. generated = {}
    BY <1>1 DEF BeginBuild, TypeInv, NoMemory
  <2> QED
    BY <1>1, <2>1, SameExpected DEF BeginBuild
<1>2. ASSUME NEW i \in Items, GeneratePage(i) PROVE Swept'
  BY <1>2, SameExpected DEF GeneratePage, DisturbIf
<1>3. ASSUME NEW i \in Items, WritePage(i) PROVE Swept'
  BY <1>3, SameExpected DEF WritePage
<1>4. CASE EndPages
  BY <1>4, SameExpected DEF EndPages, Expected
<1>5. CASE WriteRootMeta
  <2>1. generated' = generated \cup {RootMeta} /\ health' \in {health, "disturbed"}
    BY <1>5 DEF WriteRootMeta, WriteMeta, DisturbIf
  <2> QED
    BY <1>5, <2>1, SameExpected DEF WriteRootMeta, Expected
<1>6. CASE UpsertRootRow
  BY <1>6, SameExpected DEF UpsertRootRow, Commit, Disturb
<1>7. CASE WriteIndex
  BY <1>7, SameExpected DEF WriteIndex, Expected, DisturbIf
<1>8. ASSUME NEW c \in Cats, WriteCatMeta(c) PROVE Swept'
  <2>1. /\ generated' = generated \cup {c} /\ c \in NonEmpty
        /\ health' \in {health, "disturbed"}
    BY <1>8 DEF WriteCatMeta, WriteMeta, DisturbIf
  <2> QED
    BY <1>8, <2>1, SameExpected DEF WriteCatMeta, Expected
<1>9. CASE CommitCatRows
  BY <1>9, SameExpected DEF CommitCatRows, Commit, Disturb
<1>10. CASE CommitPages
  BY <1>10, SameExpected DEF CommitPages, Commit, Disturb
<1>11. ASSUME NEW f \in Files, DeleteStaleRow(f) PROVE Swept'
  BY <1>11, SameExpected DEF DeleteStaleRow
<1>12. CASE EndStale
  BY <1>12, SameExpected DEF EndStale, StaleRows, Disturb
<1>13. ASSUME NEW f \in Files, UnlinkStale(f) PROVE Swept'
  BY <1>13, SameExpected DEF UnlinkStale, Removed, Disturb
<1>14. CASE ScanOrphans
  BY <1>14, SameExpected DEF ScanOrphans, Disturb
<1>15. ASSUME NEW f \in Files, RemoveOrphan(f) PROVE Swept'
  <2>1. DOMAIN disk = Files
    BY DEF TypeInv, TypeOK
  <2> QED
    BY <1>15, <2>1, SameExpected DEF RemoveOrphan, Removed, Disturb
<1>16. ASSUME NEW f \in Files, DropOrphanRow(f) PROVE Swept'
  BY <1>16, SameExpected DEF DropOrphanRow, Commit, Disturb
<1>17. CASE FinishBuild
  <2>1. health \in Healths
    BY DEF TypeInv, TypeOK
  <2> QED
    BY <1>17, <2>1, SameExpected DEF FinishBuild, Healths, ForgetMemory
<1>18. ASSUME NEW i \in Items, NEW content \in Contents \cup {None}, EditModel(i, content)
       PROVE  Swept'
  BY <1>18 DEF EditModel, Disturb
<1>19. CASE AuthorIndex
  BY <1>19, SameExpected DEF AuthorIndex, Expected
<1>20. CASE LoseDb
  BY <1>20, SameExpected DEF LoseDb
<1>21. ASSUME NEW f \in Files, LoseFile(f) PROVE Swept'
  BY <1>21 DEF LoseFile, Disturb
<1>22. CASE Crash
  BY <1>22 DEF Crash, Disturb
<1>23. CASE UNCHANGED vars
  BY <1>23, SameExpected DEF vars
<1>24. CASE BuildStep
  BY <1>24, <1>1, <1>2, <1>3, <1>4, <1>5, <1>6, <1>7, <1>8, <1>9, <1>10, <1>11, <1>12,
     <1>13, <1>14, <1>15, <1>16, <1>17 DEF BuildStep, Pipeline
<1>25. CASE Environment
  BY <1>25, <1>18, <1>19, <1>20, <1>21, <1>22 DEF Environment
<1> QED
  BY <1>23, <1>24, <1>25 DEF Next

(* A build that nothing disturbed leaves no file and no row that the model does *)
(* not call for, however earlier builds failed or died.                         *)
THEOREM NothingLeftOver == Spec => []NoLeftovers
<1>1. Init => SweepInv
  BY InitTypeInv, InitSwept DEF SweepInv
<1>2. SweepInv /\ [Next]_vars => SweepInv'
  BY StepTypeInv, StepSwept DEF SweepInv
<1>3. SweepInv => NoLeftovers
  BY DEF SweepInv, Swept
<1> QED
  BY <1>1, <1>2, <1>3, PTL DEF Spec

--------------------------------------------------------------------------------
(* Pages are current, when no process dies, no snapshot statement fails and no  *)
(* generated file disappears: then a row never records anything but what the    *)
(* file holds, so an equal hash may stand for the file itself.                  *)

Benign == Faults \subseteq {"losedb", "fsread", "fsremove"}

RowMatches(i) == db[i] # None => disk[i] # None /\ disk[i].content = db[i].content
Fresh(i)      == disk[i] # None /\ disk[i].content = model[i]
Uncommitted   == {"pages", "root", "rootrow", "index", "cats", "commit"}

Faithful ==
  /\ phase \in Uncommitted =>
       stale = {} /\ orphans = {} /\ \A i \in Items : snaps[i] = db[i]
  /\ \A i \in Items : RowMatches(i) \/ (phase \in Uncommitted /\ i \in written)
  /\ \A i \in Items : plan[i] # None /\ plan[i].unchanged => RowMatches(i) /\ Fresh(i)
  /\ \A i \in written : Fresh(i)
  /\ phase \notin {"idle", "pages"} => Documented \subseteq generated
  /\ \A f \in stale : db[f] = None /\ f \notin generated
  /\ \A f \in orphans : f \notin generated
  /\ phase \in {"unlink", "orphans"} => \A f \in Files \ generated : db[f] = None
  /\ PagesCurrent

FaithInv == TypeInv /\ Faithful

LEMMA InitFaithful == Init => Faithful
BY DEF Init, NoMemory, Faithful, RowMatches, Uncommitted, PagesCurrent, Settled

\* What an unchanged verdict means: an equal row, or an equal file without a row.
LEMMA KeptIsFresh ==
  ASSUME NEW i \in Documented, NEW seen \in {disk[i], None}, TypeOK,
         snaps[i] = db[i], RowMatches(i),
         PageDecision(snaps[i], model[i], seen).unchanged
  PROVE  Fresh(i)
<1> DEFINE row == snaps[i]
<1>1. i \in Items /\ model[i] \in Contents
  BY DEF TypeOK, Documented
<1>2. \A p : ~Rewritten(p).unchanged
  BY DEF Rewritten
<1>3. CASE row # None
  <2>1. row.content \in Contents \cup {Torn} /\ SameHashes(row.content, model[i])
    BY <1>1, <1>2, <1>3, FileKinds DEF PageDecision, TypeOK, TextOf
  <2>2. row.content = model[i]
    BY <1>1, <2>1, ConstantsAssumption DEF SameHashes
  <2> QED
    BY <1>3, <2>2 DEF RowMatches, Fresh
<1>4. CASE row = None
  <2>1. seen # None /\ SameHashes(seen.content, model[i])
    BY <1>2, <1>4 DEF PageDecision
  <2>2. seen = disk[i] /\ seen.content \in Contents \cup {Torn}
    BY <1>1, <2>1, FileKinds DEF TypeOK, TextOf
  <2>3. seen.content = model[i]
    BY <1>1, <2>1, <2>2, ConstantsAssumption DEF SameHashes
  <2> QED
    BY <2>1, <2>2, <2>3 DEF Fresh
<1> QED
  BY <1>3, <1>4

LEMMA StepFaithful == ASSUME Benign PROVE FaithInv /\ [Next]_vars => Faithful'
<1> SUFFICES ASSUME TypeInv, Faithful, [Next]_vars PROVE Faithful'
  BY DEF FaithInv
<1> USE DEF Faithful
<1>a. /\ TypeOK
      /\ "crash" \notin Faults /\ "dbfail" \notin Faults /\ "losefile" \notin Faults
  BY DEF TypeInv, Benign
<1>c. written \subseteq Documented /\ Documented \subseteq Items
  BY <1>a DEF TypeOK, Documented
<1>b. ASSUME UNCHANGED <<model, disk, db>>
      PROVE  \A i \in Items : RowMatches(i)' = RowMatches(i) /\ Fresh(i)' = Fresh(i)
  BY <1>b DEF RowMatches, Fresh
<1>1. CASE BeginBuild
  <2>1. plan = [i \in Items |-> None] /\ written = {} /\ orphans = {} /\ stale = {}
    BY <1>1 DEF BeginBuild, TypeInv, NoMemory
  <2> QED
    BY <1>1, <1>b, <2>1 DEF BeginBuild, PagesCurrent, Settled, Uncommitted
<1>2. ASSUME NEW i \in Items, GeneratePage(i) PROVE Faithful'
  <2>1. PICK seen \in {disk[i], None} :
          plan' = [plan EXCEPT ![i] = PageDecision(snaps[i], model[i], seen)]
    BY <1>2 DEF GeneratePage, ReadBack
  <2>2. i \notin written /\ i \in Documented /\ snaps[i] = db[i] /\ RowMatches(i)
    BY <1>2 DEF GeneratePage, TypeInv, Decided, Uncommitted
  <2>3. plan'[i] = PageDecision(snaps[i], model[i], seen)
    BY <1>a, <2>1 DEF TypeOK
  <2>4. plan'[i].unchanged => Fresh(i)
    BY <1>a, <2>2, <2>3, KeptIsFresh
  <2>5. \A j \in Items : plan'[j] # None /\ plan'[j].unchanged => RowMatches(j) /\ Fresh(j)
    BY <1>a, <2>1, <2>2, <2>4 DEF TypeOK
  <2> QED
    BY <1>2, <1>b, <1>c, <2>5, SameExpected DEF GeneratePage, PagesCurrent, Settled
<1>3. ASSUME NEW i \in Items, WritePage(i) PROVE Faithful'
  <2>0. i \in Documented /\ model[i] \in ContentsOf(i)
    BY <1>3, <1>a, FileKinds DEF WritePage, TypeOK, Documented
  <2>1. Fresh(i)'
    <3>1. CASE plan[i].unchanged
      BY <1>3, <3>1 DEF WritePage, Fresh
    <3>2. CASE ~plan[i].unchanged
      <4>1. Row(model[i], plan[i]) \in TextOf(i)
        BY <1>3, <1>a, <2>0, FileKinds, RowType DEF WritePage, TypeOK
      <4>2. disk'[i] = Row(model[i], plan[i]) /\ model' = model
        BY <1>3, <1>a, <3>2, FileKinds DEF WritePage, TypeOK
      <4> QED
        BY <4>1, <4>2, FileKinds, NoneAssumption DEF Fresh, Row
    <3> QED
      BY <3>1, <3>2
  <2>2. \A j \in Items \ {i} : RowMatches(j)' = RowMatches(j) /\ Fresh(j)' = Fresh(j)
    BY <1>3 DEF WritePage, RowMatches, Fresh
  <2>3. plan[i].unchanged => RowMatches(i)'
    BY <1>3, <1>b DEF WritePage
  <2>4. i \in written'
    BY <1>3 DEF WritePage
  <2>5. \A j \in Items : j \in written' \/ RowMatches(j)'
    BY <1>3, <2>2, <2>4 DEF WritePage, Uncommitted
  <2>6. \A j \in Items : plan'[j] # None /\ plan'[j].unchanged => RowMatches(j)' /\ Fresh(j)'
    BY <1>3, <2>1, <2>2, <2>3 DEF WritePage
  <2>7. \A j \in written' : Fresh(j)'
    BY <1>3, <1>c, <2>1, <2>2 DEF WritePage
  <2> QED
    BY <1>3, <2>5, <2>6, <2>7 DEF WritePage, PagesCurrent, Settled, Uncommitted
<1>4. ASSUME model' = model, \A i \in Items : disk'[i] = disk[i] /\ db'[i] = db[i]
      PROVE  \A i \in Items : RowMatches(i)' = RowMatches(i) /\ Fresh(i)' = Fresh(i)
  BY <1>4 DEF RowMatches, Fresh
<1>5. CASE EndPages
  BY <1>5, <1>b, <1>c, SameExpected DEF EndPages, PagesCurrent, Settled, Uncommitted
<1>6. ASSUME NEW f \in Cats \cup {RootMeta}, WriteMeta(f, TRUE) \/ WriteMeta(f, FALSE),
             UNCHANGED <<model, db, now, snaps, plan, written, stale, orphans, dropping>>,
             phase \in Uncommitted, phase' \in Uncommitted, phase # "pages"
      PROVE  Faithful'
  <2>0. \A g \in Files \ {f} : disk'[g] = disk[g]
    <3>1. CASE WriteMeta(f, TRUE)
      BY <1>a, <3>1, FileKinds DEF WriteMeta, Found, TypeOK
    <3>2. CASE WriteMeta(f, FALSE)
      BY <1>a, <3>2, FileKinds DEF WriteMeta, Found, TypeOK
    <3> QED
      BY <1>6, <3>1, <3>2
  <2>1. \A i \in Items : disk'[i] = disk[i] /\ db'[i] = db[i]
    BY <1>6, <2>0, FileKinds, ConstantsAssumption
  <2>2. generated' = generated \cup {f}
    <3>1. CASE WriteMeta(f, TRUE)
      BY <3>1 DEF WriteMeta, Found
    <3>2. CASE WriteMeta(f, FALSE)
      BY <3>2 DEF WriteMeta, Found
    <3> QED
      BY <1>6, <3>1, <3>2
  <2> QED
    BY <1>4, <1>6, <1>c, <2>1, <2>2, SameExpected DEF PagesCurrent, Settled, Uncommitted
<1>7. CASE WriteRootMeta
  BY <1>6, <1>7 DEF WriteRootMeta, Uncommitted
<1>8. ASSUME NEW c \in Cats, WriteCatMeta(c) PROVE Faithful'
  BY <1>6, <1>8 DEF WriteCatMeta, Uncommitted
<1>9. CASE UpsertRootRow
  <2>1. \A i \in Items : db'[i] = db[i]
    BY <1>9, <1>a, ConstantsAssumption, FileKinds DEF UpsertRootRow, Commit
  <2> QED
    BY <1>4, <1>9, <1>c, <2>1, SameExpected
       DEF UpsertRootRow, PagesCurrent, Settled, Uncommitted
<1>10. CASE WriteIndex
  <2>1. \A i \in Items : disk'[i] = disk[i]
    BY <1>10, ConstantsAssumption DEF WriteIndex
  <2> QED
    BY <1>4, <1>10, <1>c, <2>1, SameExpected DEF WriteIndex, PagesCurrent, Settled, Uncommitted
<1>11. CASE CommitCatRows
  <2>1. \A i \in Items : db'[i] = db[i]
    BY <1>11, <1>a, ConstantsAssumption, FileKinds DEF CommitCatRows, Commit
  <2> QED
    BY <1>4, <1>11, <1>c, <2>1, SameExpected
       DEF CommitCatRows, PagesCurrent, Settled, Uncommitted
<1>12. CASE CommitPages
  <2> DEFINE changed == {i \in Documented : ~plan[i].unchanged}
  <2>1. \A i \in Items : db'[i] = IF i \in changed THEN Row(model[i], plan[i]) ELSE db[i]
    BY <1>12, <1>a, FileKinds DEF CommitPages, Commit
  <2>2. written = Documented /\ \A i \in Documented : plan[i] # None
    BY <1>12 DEF CommitPages, TypeInv, Decided
  <2>3. \A i \in Items : Fresh(i)' = Fresh(i)
    BY <1>12 DEF CommitPages, Fresh
  <2>4. \A i \in Items : RowMatches(i)'
    <3> SUFFICES ASSUME NEW i \in Items PROVE RowMatches(i)'
      OBVIOUS
    <3>1. CASE i \in changed
      BY <1>12, <2>1, <2>2, <3>1 DEF CommitPages, RowMatches, Fresh, Row
    <3>2. CASE i \notin changed
      BY <1>12, <2>1, <2>2, <3>2 DEF CommitPages, RowMatches, Fresh
    <3> QED
      BY <3>1, <3>2
  <2> QED
    BY <1>12, <1>c, <2>3, <2>4, SameExpected DEF CommitPages, PagesCurrent, Settled, Uncommitted
<1>13. ASSUME NEW f \in Files, DeleteStaleRow(f) PROVE Faithful'
  <2>1. \A i \in Items : Fresh(i)' = Fresh(i) /\ (RowMatches(i) => RowMatches(i)')
    BY <1>13, <1>a DEF DeleteStaleRow, Fresh, RowMatches, TypeOK
  <2>2. \A g \in stale' : db'[g] = None /\ g \notin generated
    BY <1>13, <1>a DEF DeleteStaleRow, StaleRows, TypeOK
  <2> QED
    BY <1>13, <1>c, <2>1, <2>2, SameExpected
       DEF DeleteStaleRow, PagesCurrent, Settled, Uncommitted
<1>14. CASE EndStale
  BY <1>14, <1>a, <1>b, <1>c, SameExpected
     DEF EndStale, StaleRows, PagesCurrent, Settled, Uncommitted
<1>15. ASSUME NEW f \in Files, Removed(f), f \notin generated, db[f] = None,
              UNCHANGED <<model, db, plan, written, generated>>,
              phase \notin Uncommitted \cup {"idle"}
       PROVE  \A i \in Items : /\ RowMatches(i) => RowMatches(i)'
                               /\ i \in Documented => Fresh(i)' = Fresh(i)
  <2>1. \A i \in Items \ {f} : disk'[i] = disk[i]
    BY <1>15, <1>a, FileKinds DEF Removed, TypeOK
  <2>2. f \notin Documented
    BY <1>15 DEF Uncommitted
  <2> QED
    BY <1>15, <2>1, <2>2 DEF RowMatches, Fresh
<1>16. ASSUME NEW f \in Files, UnlinkStale(f) PROVE Faithful'
  <2>1. \A i \in Items : /\ RowMatches(i) => RowMatches(i)'
                         /\ i \in Documented => Fresh(i)' = Fresh(i)
    BY <1>15, <1>16 DEF UnlinkStale, Uncommitted
  <2>2. \A i \in Items : plan[i] # None => i \in Documented
    BY <1>a DEF TypeOK
  <2> QED
    BY <1>16, <1>c, <2>1, <2>2, SameExpected
       DEF UnlinkStale, PagesCurrent, Settled, Uncommitted
<1>17. CASE ScanOrphans
  BY <1>17, <1>b, <1>c, SameExpected DEF ScanOrphans, PagesCurrent, Settled, Uncommitted
<1>18. ASSUME NEW f \in Files, RemoveOrphan(f) PROVE Faithful'
  <2>1. \A i \in Items : /\ RowMatches(i) => RowMatches(i)'
                         /\ i \in Documented => Fresh(i)' = Fresh(i)
    BY <1>15, <1>18 DEF RemoveOrphan, Uncommitted
  <2>2. \A i \in Items : plan[i] # None => i \in Documented
    BY <1>a DEF TypeOK
  <2> QED
    BY <1>18, <1>c, <2>1, <2>2, SameExpected
       DEF RemoveOrphan, PagesCurrent, Settled, Uncommitted
<1>19. ASSUME NEW f \in Files, DropOrphanRow(f) PROVE Faithful'
  <2>1. \A g \in Files : db'[g] = IF g = f THEN None ELSE db[g]
    BY <1>19, <1>a DEF DropOrphanRow, Commit
  <2>2. \A i \in Items : Fresh(i)' = Fresh(i) /\ (RowMatches(i) => RowMatches(i)')
    BY <1>19, <2>1, FileKinds DEF DropOrphanRow, Fresh, RowMatches
  <2>3. stale \subseteq Files
    BY <1>a DEF TypeOK
  <2> QED
    BY <1>19, <1>c, <2>1, <2>2, <2>3, SameExpected
       DEF DropOrphanRow, PagesCurrent, Settled, Uncommitted
<1>20. CASE FinishBuild
  <2>1. \A i \in Documented : Fresh(i)
    BY <1>20 DEF FinishBuild, TypeInv, Decided
  <2>2. \A i \in Items : RowMatches(i)
    BY <1>20 DEF FinishBuild, Uncommitted
  <2>3. PagesCurrent'
    BY <1>20, <1>b, <1>c, <2>1, SameExpected DEF FinishBuild, PagesCurrent, Current, Fresh
  <2> QED
    BY <1>20, <1>b, <2>2, <2>3 DEF FinishBuild, ForgetMemory, Uncommitted
<1>21. ASSUME phase = "idle", phase' = "idle", UNCHANGED memory,
              \A i \in Items : RowMatches(i)', PagesCurrent'
       PROVE  Faithful'
  <2>1. /\ plan = [i \in Items |-> None] /\ written = {}
        /\ stale = {} /\ orphans = {}
    BY <1>21 DEF TypeInv, NoMemory
  <2> QED
    BY <1>21, <2>1 DEF memory, Uncommitted
<1>22. ASSUME NEW i \in Items, NEW content \in Contents \cup {None}, EditModel(i, content)
       PROVE  Faithful'
  BY <1>21, <1>22
     DEF EditModel, RowMatches, PagesCurrent, Settled, Disturb, Uncommitted
<1>23. CASE AuthorIndex
  <2>1. \A i \in Items : disk'[i] = disk[i]
    BY <1>23, ConstantsAssumption DEF AuthorIndex
  <2> QED
    BY <1>4, <1>21, <1>23, <1>c, <2>1, SameExpected
       DEF AuthorIndex, PagesCurrent, Settled, Uncommitted, Current
<1>24. CASE LoseDb
  BY <1>21, <1>24, <1>c, SameExpected, FileKinds
     DEF LoseDb, RowMatches, PagesCurrent, Settled, Current
<1>25. CASE UNCHANGED vars
  BY <1>25, <1>b, <1>c, SameExpected DEF vars, PagesCurrent, Settled, Uncommitted, Current
<1>26. CASE BuildStep
  BY <1>26, <1>1, <1>2, <1>3, <1>5, <1>7, <1>8, <1>9, <1>10, <1>11, <1>12, <1>13, <1>14,
     <1>16, <1>17, <1>18, <1>19, <1>20 DEF BuildStep, Pipeline
<1>27. CASE Environment
  BY <1>27, <1>a, <1>22, <1>23, <1>24 DEF Environment, LoseFile, Crash
<1> QED
  BY <1>25, <1>26, <1>27 DEF Next

(* When no process dies and no row is lost behind the back of its file, every   *)
(* completed build leaves every documented item's page saying what the model    *)
(* says, even though most pages were never rewritten.                           *)
THEOREM PagesAreCurrent == ASSUME Benign PROVE Spec => []PagesCurrent
<1>1. Init => FaithInv
  BY InitTypeInv, InitFaithful DEF FaithInv
<1>2. FaithInv /\ [Next]_vars => FaithInv'
  BY StepTypeInv, StepFaithful DEF FaithInv
<1>3. FaithInv => PagesCurrent
  BY DEF FaithInv, Faithful
<1> QED
  BY <1>1, <1>2, <1>3, PTL DEF Spec

--------------------------------------------------------------------------------
(* What a build does to the rows, the dates, the landing page and the        *)
(* navigation.                                                               *)

(* What the sweep spares: everything the build has generated so far.            *)

AfterIndex == {"cats", "commit", "stale", "unlink", "orphans"}

Spared ==
  /\ phase \in Uncommitted => stale = {} /\ orphans = {}
  /\ phase \notin {"idle", "pages"} => Documented \subseteq generated
  /\ phase \notin {"idle", "pages", "root"} => RootMeta \in generated
  /\ phase \in AfterIndex => Index \in generated
  /\ phase \in AfterIndex \ {"cats"} => NonEmpty \subseteq generated
  /\ (stale \cup orphans) \cap generated = {}

(* Dates: nothing is dated after the running build, and only what this build    *)
(* wrote is dated by it.                                                        *)

ItemDated(i) ==
  /\ db[i] # None => db[i].pub <= now
  /\ disk[i] # None => /\ disk[i].mod <= now
                       /\ phase # "idle" /\ i \notin written => disk[i].mod < now
  /\ plan[i] # None => /\ plan[i].pub <= now
                       /\ ~plan[i].unchanged => plan[i].mod = now

Dated == \A i \in Items : ItemDated(i)

(* Memory: until its row is committed, what the build knows of a file agrees    *)
(* with the database, and what it means to record agrees with the file.         *)

ItemRemembered(i) ==
  /\ snaps[i] = db[i]
  /\ plan[i] # None /\ db[i] # None => plan[i].pub = db[i].pub
  /\ i \in written /\ ~plan[i].unchanged => disk[i] = Row(model[i], plan[i])

NavRemembered(f) ==
  /\ snaps[f] = db[f]
  /\ metaRows[f] # None =>
       /\ metaRows[f] = db[f] \/ (disk[f] # None /\ disk[f].content = metaRows[f].content)
       /\ db[f] # None => metaRows[f].pub = db[f].pub

UntilRootRow == {"pages", "root", "rootrow"}
UntilCatRows == {"pages", "root", "rootrow", "index", "cats"}

Remembered ==
  /\ phase \in Uncommitted  => \A i \in Items : ItemRemembered(i)
  /\ phase \in UntilRootRow => NavRemembered(RootMeta)
  /\ phase \in UntilCatRows => \A c \in Cats : NavRemembered(c)

HistoryInv == TypeInv /\ Spared /\ Dated /\ Remembered

--------------------------------------------------------------------------------
(* What the shared parts of the actions leave alone. *)

Navigation == Cats \cup {RootMeta}

\* Navigation files, the landing page and the pages of the items are three kinds.
LEMMA NavigationIsNoPage ==
  /\ Navigation \subseteq Files /\ Index \in Files /\ Items \subseteq Files
  /\ Navigation \cap Items = {} /\ Index \notin Navigation \cup Items
BY ConstantsAssumption DEF Navigation, Files

\* A navigation file is written, its row set aside, and nothing else is touched.
LEMMA WriteMetaFrame ==
  ASSUME TypeOK, NEW f \in Navigation, NEW keep \in BOOLEAN, WriteMeta(f, keep)
  PROVE  /\ \A g \in Files \ {f} : disk'[g] = disk[g]
         /\ \A g \in Navigation \ {f} : metaRows'[g] = metaRows[g]
         /\ generated' = generated \cup {f}
BY DEF WriteMeta, Found, TypeOK, Navigation

\* A transaction sets its own rows, or none of them.
LEMMA CommitFrame ==
  ASSUME TypeOK, NEW rows, NEW files, Commit(rows, files)
  PROVE  /\ \A g \in Files \ files : db'[g] = db[g]
         /\ \A g \in Files \cap files : db'[g] \in {rows[g], db[g]}
BY DEF Commit, TypeOK

\* A removal takes its own file, or leaves it.
LEMMA RemovedFrame ==
  ASSUME TypeOK, NEW f \in Files, Removed(f)
  PROVE  /\ \A g \in Files \ {f} : disk'[g] = disk[g]
         /\ disk'[f] \in {disk[f], None}
BY DEF Removed, TypeOK

\* What dying leaves of the file that was being written.
LEMMA CrashFrame ==
  ASSUME TypeOK, Crash
  PROVE  /\ \A g \in Files : disk'[g] = disk[g] \/ (g \in BeingWritten /\ disk'[g] = Half(g))
         /\ BeingWritten \subseteq Files
         /\ \A i \in Items : Half(i) = Landing(Torn)
<1>1. BeingWritten \subseteq Files
  BY FileKinds DEF BeingWritten, Documented, NonEmpty
<1>2. \A i \in Items : Half(i) = Landing(Torn)
  BY ConstantsAssumption DEF Half
<1> QED
  BY <1>1, <1>2 DEF Crash, TypeOK

\* What the memory of a build holds while no build runs.
LEMMA IdleMemory ==
  ASSUME NoMemory
  PROVE  /\ plan = [i \in Items |-> None] /\ written = {} /\ generated = {}
         /\ stale = {} /\ orphans = {} /\ dropping = {}
         /\ snaps = [f \in Files |-> None]
         /\ metaRows = [f \in Navigation |-> None]
BY DEF NoMemory, Navigation

\* What ForgetMemory leaves in the memory of a build.
LEMMA ForgottenMemory ==
  ASSUME ForgetMemory
  PROVE  /\ plan' = [i \in Items |-> None] /\ written' = {} /\ generated' = {}
         /\ stale' = {} /\ orphans' = {} /\ dropping' = {}
BY DEF ForgetMemory

--------------------------------------------------------------------------------
(* The sweep spares what the build generated, whatever faults occur. *)

\* At first nothing is orphaned.
LEMMA InitSpared == Init => Spared
BY IdleMemory DEF Init, Spared, Uncommitted, AfterIndex

\* No step puts what the build generated among its orphans.
LEMMA StepSpared == TypeInv /\ Spared /\ [Next]_vars => Spared'
<1> SUFFICES ASSUME TypeInv, Spared, [Next]_vars PROVE Spared'
  OBVIOUS
<1> USE DEF Spared, Uncommitted, AfterIndex
<1>a. TypeOK /\ (phase = "idle" => NoMemory)
  BY DEF TypeInv
<1>1. CASE BeginBuild
  BY <1>1, <1>a, IdleMemory, SameExpected DEF BeginBuild
<1>2. ASSUME NEW i \in Items, GeneratePage(i) PROVE Spared'
  BY <1>2, SameExpected DEF GeneratePage
<1>3. ASSUME NEW i \in Items, WritePage(i) PROVE Spared'
  BY <1>3, SameExpected DEF WritePage
<1>4. CASE EndPages
  BY <1>4, SameExpected DEF EndPages
<1>5. CASE WriteRootMeta
  <2>1. generated' = generated \cup {RootMeta}
    BY <1>5, <1>a, WriteMetaFrame DEF WriteRootMeta, Navigation
  <2> QED
    BY <1>5, <2>1, SameExpected DEF WriteRootMeta
<1>6. CASE UpsertRootRow
  BY <1>6, SameExpected DEF UpsertRootRow
<1>7. CASE WriteIndex
  BY <1>7, SameExpected DEF WriteIndex
<1>8. ASSUME NEW c \in Cats, WriteCatMeta(c) PROVE Spared'
  <2>1. generated' = generated \cup {c}
    BY <1>8, <1>a, WriteMetaFrame DEF WriteCatMeta, Navigation
  <2> QED
    BY <1>8, <2>1, SameExpected DEF WriteCatMeta
<1>9. CASE CommitCatRows
  BY <1>9, SameExpected DEF CommitCatRows
<1>10. CASE CommitPages
  BY <1>10, SameExpected DEF CommitPages
<1>11. ASSUME NEW f \in Files, DeleteStaleRow(f) PROVE Spared'
  BY <1>11, SameExpected DEF DeleteStaleRow, StaleRows
<1>12. CASE EndStale
  BY <1>12, SameExpected DEF EndStale
<1>13. ASSUME NEW f \in Files, UnlinkStale(f) PROVE Spared'
  BY <1>13, SameExpected DEF UnlinkStale
<1>14. CASE ScanOrphans
  BY <1>14, SameExpected DEF ScanOrphans
<1>15. ASSUME NEW f \in Files, RemoveOrphan(f) PROVE Spared'
  BY <1>15, SameExpected DEF RemoveOrphan
<1>16. ASSUME NEW f \in Files, DropOrphanRow(f) PROVE Spared'
  BY <1>16, SameExpected DEF DropOrphanRow
<1>17. CASE FinishBuild
  BY <1>17, ForgottenMemory DEF FinishBuild
<1>18. CASE phase = "idle" /\ phase' = "idle" /\ UNCHANGED memory
  BY <1>18, <1>a, IdleMemory DEF memory
<1>19. CASE Crash
  BY <1>19, ForgottenMemory DEF Crash
<1>20. CASE UNCHANGED vars
  BY <1>20, SameExpected DEF vars
<1>21. CASE BuildStep
  BY <1>21, <1>1, <1>2, <1>3, <1>4, <1>5, <1>6, <1>7, <1>8, <1>9, <1>10, <1>11, <1>12,
     <1>13, <1>14, <1>15, <1>16, <1>17 DEF BuildStep, Pipeline
<1>22. CASE Environment
  BY <1>22, <1>18, <1>19 DEF Environment, EditModel, AuthorIndex, LoseDb, LoseFile
<1> QED
  BY <1>20, <1>21, <1>22 DEF Next

\* The sweep after a build (sweepOrphans) never removes a file the build generated.
THEOREM GeneratedIsSpared == Spec => [](TypeInv /\ Spared)
<1>1. Init => TypeInv /\ Spared
  BY InitTypeInv, InitSpared
<1>2. TypeInv /\ Spared /\ [Next]_vars => (TypeInv /\ Spared)'
  BY StepTypeInv, StepSpared
<1> QED
  BY <1>1, <1>2, PTL DEF Spec

(* As long as looking at the disk never fails, no step of a build replaces or   *)
(* deletes a landing page that exists: the reader's own index.mdx is safe.      *)
THEOREM LandingPageIsKept ==
  ASSUME "fsread" \notin Faults
  PROVE  Spec => LandingPagePreserved
<1>1. ASSUME TypeInv, Spared, [Next]_vars, phase # "idle", disk[Index] # None
      PROVE  disk'[Index] = disk[Index]
  <2> USE <1>1, NavigationIsNoPage DEF Spared, AfterIndex
  <2>a. TypeOK
    BY DEF TypeInv
  <2>b. \A f \in stale \cup orphans : phase \in AfterIndex => f # Index
    OBVIOUS
  <2>1. ASSUME NEW i \in Items, WritePage(i) PROVE disk'[Index] = disk[Index]
    BY <2>1 DEF WritePage
  <2>2. CASE WriteRootMeta
    BY <2>2, <2>a, WriteMetaFrame DEF WriteRootMeta, Navigation
  <2>3. CASE WriteIndex
    BY <2>3 DEF WriteIndex, ReadBack
  <2>4. ASSUME NEW c \in Cats, WriteCatMeta(c) PROVE disk'[Index] = disk[Index]
    <3>1. c \in Navigation /\ WriteMeta(c, FALSE)
      BY <2>4 DEF WriteCatMeta, Navigation
    <3> QED
      BY <2>a, <3>1, WriteMetaFrame
  <2>5. ASSUME NEW f \in Files, UnlinkStale(f) PROVE disk'[Index] = disk[Index]
    BY <2>5, <2>a, <2>b, RemovedFrame DEF UnlinkStale
  <2>6. ASSUME NEW f \in Files, RemoveOrphan(f) PROVE disk'[Index] = disk[Index]
    BY <2>6, <2>a, <2>b, RemovedFrame DEF RemoveOrphan
  <2>7. CASE Crash
    <3>1. Index \notin BeingWritten
      <4>1. Index \notin Items \cup Cats \cup {RootMeta}
        BY ConstantsAssumption
      <4>2. None \notin ReadBack(Index)
        BY <1>1 DEF ReadBack
      <4> QED
        BY <4>1, <4>2 DEF BeingWritten, Documented, NonEmpty
    <3> QED
      BY <2>7, <2>a, <3>1, CrashFrame
  <2>8. CASE UNCHANGED disk
    BY <2>8
  <2>9. CASE BuildStep
    BY <2>9, <2>1, <2>2, <2>3, <2>4, <2>5, <2>6, <2>8
       DEF BuildStep, Pipeline, BeginBuild, GeneratePage, EndPages, UpsertRootRow,
           CommitCatRows, CommitPages, DeleteStaleRow, EndStale, ScanOrphans,
           DropOrphanRow, FinishBuild
  <2>10. CASE Environment
    BY <2>10, <2>7 DEF Environment, EditModel, AuthorIndex, LoseDb, LoseFile
  <2> QED
    BY <2>8, <2>9, <2>10 DEF Next, vars
<1>2. TypeInv /\ Spared /\ [Next]_vars
        => [phase # "idle" /\ disk[Index] # None => disk'[Index] = disk[Index]]_vars
  BY <1>1
<1> QED
  BY <1>2, GeneratedIsSpared, PTL DEF Spec, LandingPagePreserved

--------------------------------------------------------------------------------
(* What the decisions promise about dates. *)

\* The decision on a page dates its change no later than the build, and no earlier
\* than its publication.
LEMMA PageDecisionDates ==
  ASSUME NEW row, NEW content, NEW seen, now \in Times, row # None => row.pub <= now
  PROVE  LET p == PageDecision(row, content, seen)
         IN  /\ p.pub <= now
             /\ ~p.unchanged => p.mod = now
             /\ row # None => p.pub = row.pub
<1>1. now <= now
  BY ConstantsAssumption DEF Times
<1>2. OrBuildTime(TopLevelTime(seen)) = now
  BY DEF OrBuildTime, TopLevelTime
<1> QED
  BY <1>1, <1>2 DEF PageDecision, Kept, Rewritten

\* A navigation file is kept for an equal row, whose dates stay, or for an equal
\* file when there is no row.
LEMMA MetaDecisionDates ==
  ASSUME NEW row, NEW content, NEW exists, NEW seen
  PROVE  LET p == MetaDecision(row, content, exists, seen)
         IN  /\ row # None => p.pub = row.pub
             /\ p.unchanged /\ row # None => row.content = content /\ p.mod = row.mod
             /\ p.unchanged /\ row = None => seen # None /\ seen.content = content
             /\ p.unchanged => exists
BY DEF MetaDecision, Kept, Rewritten

--------------------------------------------------------------------------------
(* The dates, whatever faults occur. *)

\* At first no page has a date.
LEMMA InitDated == Init => Dated
BY FileKinds DEF Init, NoMemory, Dated, ItemDated

\* Rows and files that stay or go, in a build that goes on or is over.
LEMMA StillDated ==
  ASSUME NEW j \in Items, ItemDated(j), now' = now,
         disk'[j] \in {disk[j], None}, db'[j] \in {db[j], None}, plan'[j] \in {plan[j], None},
         phase' = "idle" \/ (phase # "idle" /\ written \subseteq written')
  PROVE  ItemDated(j)'
BY DEF ItemDated

\* Every step keeps the dates of every page in order.
LEMMA StepDated == HistoryInv /\ [Next]_vars => Dated'
<1> SUFFICES ASSUME HistoryInv, [Next]_vars, NEW j \in Items PROVE ItemDated(j)'
  BY DEF Dated
<1> USE NavigationIsNoPage
<1>a. /\ TypeOK /\ ItemDated(j) /\ j \in Files /\ DOMAIN plan = Items
      /\ now \in Int /\ (disk[j] # None => disk[j].mod \in Int)
      /\ db[j] # None => db[j].pub \in Int
  BY ConstantsAssumption DEF HistoryInv, TypeInv, TypeOK, Dated, Times, TextOf
<1>b. phase = "idle" => NoMemory
  BY DEF HistoryInv, TypeInv
<1>c. ASSUME now' = now, disk'[j] \in {disk[j], None}, db'[j] \in {db[j], None},
             plan' = plan, written' = written, phase # "idle"
      PROVE  ItemDated(j)'
  BY <1>a, <1>c, StillDated
<1>1. CASE BeginBuild
  <2>1. plan'[j] = None /\ now' = now + 1 /\ disk' = disk /\ db' = db
    BY <1>1, <1>b, IdleMemory DEF BeginBuild
  <2> QED
    BY <1>a, <2>1 DEF ItemDated
<1>2. ASSUME NEW i \in Items, GeneratePage(i) PROVE ItemDated(j)'
  <2>1. PICK seen : plan' = [plan EXCEPT ![i] = PageDecision(snaps[i], model[i], seen)]
    BY <1>2 DEF GeneratePage
  <2>2. snaps[i] = db[i] /\ ItemDated(i) /\ now \in Times
    BY <1>2 DEF GeneratePage, HistoryInv, Remembered, ItemRemembered, Uncommitted, Dated,
                TypeInv, TypeOK
  <2>3. /\ PageDecision(snaps[i], model[i], seen).pub <= now
        /\ ~PageDecision(snaps[i], model[i], seen).unchanged
             => PageDecision(snaps[i], model[i], seen).mod = now
    BY <2>2, PageDecisionDates DEF ItemDated
  <2> QED
    BY <1>2, <1>a, <2>1, <2>3 DEF GeneratePage, ItemDated
<1>3. ASSUME NEW i \in Items, WritePage(i) PROVE ItemDated(j)'
  <2>1. CASE j # i
    BY <1>3, <1>a, <2>1 DEF WritePage, ItemDated
  <2>2. CASE j = i /\ plan[i].unchanged
    BY <1>3, <1>a, <2>2 DEF WritePage, ItemDated
  <2>3. CASE j = i /\ ~plan[i].unchanged
    <3>1. disk'[j] = Row(model[i], plan[i]) /\ j \in written' /\ plan[j].mod = now
      BY <1>3, <1>a, <2>3 DEF WritePage, TypeOK, ItemDated
    <3> QED
      BY <1>3, <1>a, <2>3, <3>1 DEF WritePage, ItemDated, Row
  <2> QED
    BY <2>1, <2>2, <2>3
<1>4. CASE EndPages
  BY <1>4, <1>c DEF EndPages
<1>5. CASE WriteRootMeta
  <2>1. disk'[j] = disk[j]
    BY <1>5, <1>a, WriteMetaFrame DEF WriteRootMeta, Navigation
  <2> QED
    BY <1>5, <1>c, <2>1 DEF WriteRootMeta
<1>6. CASE UpsertRootRow
  <2>1. db'[j] = db[j]
    BY <1>6, <1>a, CommitFrame DEF UpsertRootRow, Navigation
  <2> QED
    BY <1>6, <1>c, <2>1 DEF UpsertRootRow
<1>7. CASE WriteIndex
  <2>1. disk'[j] = disk[j]
    BY <1>7 DEF WriteIndex
  <2> QED
    BY <1>7, <1>c, <2>1 DEF WriteIndex
<1>8. ASSUME NEW c \in Cats, WriteCatMeta(c) PROVE ItemDated(j)'
  <2>1. c \in Navigation /\ WriteMeta(c, FALSE)
    BY <1>8 DEF WriteCatMeta, Navigation
  <2>2. disk'[j] = disk[j]
    BY <1>a, <2>1, WriteMetaFrame
  <2> QED
    BY <1>8, <1>c, <2>2 DEF WriteCatMeta
<1>9. CASE CommitCatRows
  <2>1. db'[j] = db[j]
    BY <1>9, <1>a, CommitFrame DEF CommitCatRows, Navigation
  <2> QED
    BY <1>9, <1>c, <2>1 DEF CommitCatRows
<1>10. CASE CommitPages
  <2> DEFINE changed == {i \in Documented : ~plan[i].unchanged}
             rows    == [i \in changed |-> Row(model[i], plan[i])]
  <2>1. Commit(rows, changed)
    BY <1>10 DEF CommitPages
  <2>2. CASE j \in changed
    <3>1. plan[j] # None
      BY <1>10, <2>2 DEF CommitPages, HistoryInv, TypeInv, Decided
    <3>2. db'[j] \in {Row(model[j], plan[j]), db[j]}
      BY <1>a, <2>1, <2>2, CommitFrame
    <3> QED
      BY <1>10, <1>a, <3>1, <3>2 DEF CommitPages, ItemDated, Row
  <2>3. CASE j \notin changed
    <3>1. db'[j] = db[j]
      BY <1>a, <2>1, <2>3, CommitFrame
    <3> QED
      BY <1>10, <1>c, <3>1 DEF CommitPages
  <2> QED
    BY <2>2, <2>3
<1>11. ASSUME NEW f \in Files, DeleteStaleRow(f) PROVE ItemDated(j)'
  BY <1>11, <1>a, <1>c DEF DeleteStaleRow, TypeOK
<1>12. CASE EndStale
  BY <1>12, <1>c DEF EndStale
<1>13. ASSUME NEW f \in Files, UnlinkStale(f) PROVE ItemDated(j)'
  BY <1>13, <1>a, <1>c, RemovedFrame DEF UnlinkStale
<1>14. CASE ScanOrphans
  BY <1>14, <1>c DEF ScanOrphans
<1>15. ASSUME NEW f \in Files, RemoveOrphan(f) PROVE ItemDated(j)'
  BY <1>15, <1>a, <1>c, RemovedFrame DEF RemoveOrphan
<1>16. ASSUME NEW f \in Files, DropOrphanRow(f) PROVE ItemDated(j)'
  <2>1. db'[j] \in {db[j], None}
    BY <1>16, <1>a, CommitFrame DEF DropOrphanRow
  <2> QED
    BY <1>16, <1>c, <2>1 DEF DropOrphanRow
<1>17. CASE FinishBuild
  BY <1>17, <1>a, StillDated, ForgottenMemory DEF FinishBuild
<1>18. CASE Environment /\ ~Crash
  <2>1. /\ now' = now /\ phase' = "idle" /\ plan' = plan
        /\ disk'[j] \in {disk[j], None} /\ db'[j] \in {db[j], None}
    BY <1>18, <1>a DEF Environment, EditModel, AuthorIndex, LoseDb, LoseFile, memory, TypeOK
  <2> QED
    BY <1>a, <2>1, StillDated
<1>19. CASE Crash
  <2>1. CASE disk'[j] = disk[j]
    BY <1>19, <1>a, <2>1, StillDated, ForgottenMemory DEF Crash
  <2>2. CASE disk'[j] = Landing(Torn)
    <3>1. disk'[j].mod <= now /\ plan'[j] = None
      BY <1>19, <1>a, <2>2, ForgottenMemory, ConstantsAssumption
         DEF Crash, Landing, Undated, TypeOK, Times
    <3> QED
      BY <1>19, <1>a, <3>1 DEF Crash, ItemDated
  <2> QED
    BY <1>19, <1>a, <2>1, <2>2, CrashFrame
<1>20. CASE UNCHANGED vars
  BY <1>20, <1>a DEF vars, ItemDated
<1>21. CASE BuildStep
  BY <1>21, <1>1, <1>2, <1>3, <1>4, <1>5, <1>6, <1>7, <1>8, <1>9, <1>10, <1>11, <1>12,
     <1>13, <1>14, <1>15, <1>16, <1>17 DEF BuildStep, Pipeline
<1> QED
  BY <1>18, <1>19, <1>20, <1>21 DEF Next, Environment

--------------------------------------------------------------------------------
(* The memory of a build, whatever faults occur. *)

\* At first no snapshot is remembered.
LEMMA InitRemembered == Init => Remembered
BY DEF Init, Remembered, Uncommitted, UntilRootRow, UntilCatRows

\* The row set aside for a navigation file whose row the database still holds.
LEMMA MetaRowRemembered ==
  ASSUME TypeOK, NEW f \in Navigation, NEW keep \in BOOLEAN, WriteMeta(f, keep),
         snaps[f] = db[f], snaps' = snaps, db' = db
  PROVE  NavRemembered(f)'
<1>1. PICK exists \in BOOLEAN, seen \in ReadBack(f) :
        LET p == MetaDecision(snaps[f], NavContent(f), exists, seen)
        IN  /\ disk' = IF p.unchanged THEN disk ELSE [disk EXCEPT ![f] = NavText(f)]
            /\ metaRows' = [metaRows EXCEPT ![f] =
                              IF p.unchanged /\ ~keep THEN None ELSE Row(NavContent(f), p)]
  BY DEF WriteMeta, Found
<1> DEFINE p == MetaDecision(snaps[f], NavContent(f), exists, seen)
<1>2. f \in Files /\ f \in DOMAIN disk /\ f \in DOMAIN metaRows
  BY NavigationIsNoPage DEF TypeOK, Navigation
<1>3. /\ snaps[f] # None => p.pub = snaps[f].pub
      /\ p.unchanged /\ snaps[f] # None => snaps[f].content = NavContent(f) /\ p.mod = snaps[f].mod
      /\ p.unchanged /\ snaps[f] = None => seen # None /\ seen.content = NavContent(f)
  BY MetaDecisionDates
<1> HIDE DEF p
<1>4. metaRows'[f] # None => metaRows'[f] = Row(NavContent(f), p)
  BY <1>1, <1>2 DEF p
<1>5. db[f] # None => db[f] = [content |-> db[f].content, pub |-> db[f].pub, mod |-> db[f].mod]
  BY <1>2 DEF TypeOK, TextOf
<1>6. CASE p.unchanged /\ db[f] # None
  BY <1>3, <1>4, <1>5, <1>6 DEF NavRemembered, Row
<1>7. CASE p.unchanged /\ db[f] = None
  <2>1. seen = disk[f] /\ disk'[f] = disk[f]
    BY <1>1, <1>3, <1>7 DEF ReadBack, p
  <2> QED
    BY <1>3, <1>4, <1>7, <2>1 DEF NavRemembered, Row
<1>8. CASE ~p.unchanged
  <2>1. disk'[f] = NavText(f) /\ NavText(f) # None
    BY <1>1, <1>2, <1>8, NavTextType, NoneAssumption DEF p, Navigation
  <2> QED
    BY <1>3, <1>4, <2>1 DEF NavRemembered, Row, NavText
<1> QED
  BY <1>6, <1>7, <1>8

\* Every step keeps what the build remembers in line with its rows.
LEMMA StepRemembered == HistoryInv /\ [Next]_vars => Remembered'
<1> SUFFICES ASSUME HistoryInv, [Next]_vars PROVE Remembered'
  OBVIOUS
<1> USE NavigationIsNoPage DEF Uncommitted, UntilRootRow, UntilCatRows
<1>a. TypeOK /\ Remembered /\ (phase = "idle" => NoMemory)
  BY DEF HistoryInv, TypeInv
\* A step that keeps what a file's memory is made of keeps the memory.
<1>b. ASSUME NEW j \in Items, ItemRemembered(j), snaps' = snaps, db'[j] = db[j],
             plan' = plan, written' = written, disk'[j] = disk[j], model' = model
      PROVE  ItemRemembered(j)'
  BY <1>b DEF ItemRemembered, Row
<1>c. ASSUME NEW f \in Navigation, NavRemembered(f), snaps' = snaps, db'[f] = db[f],
             metaRows'[f] = metaRows[f], disk'[f] = disk[f]
      PROVE  NavRemembered(f)'
  BY <1>c DEF NavRemembered
<1>1. CASE BeginBuild
  <2>1. /\ snaps' = db' /\ written' = {} /\ \A j \in Items : plan'[j] = None
        /\ \A f \in Navigation : metaRows'[f] = None
    BY <1>1, <1>a, IdleMemory DEF BeginBuild
  <2> QED
    BY <1>1, <2>1 DEF BeginBuild, Remembered, ItemRemembered, NavRemembered, Navigation
<1>2. ASSUME NEW i \in Items, GeneratePage(i) PROVE Remembered'
  <2>1. PICK seen : plan' = [plan EXCEPT ![i] = PageDecision(snaps[i], model[i], seen)]
    BY <1>2 DEF GeneratePage
  <2>2. /\ i \notin written /\ snaps[i] = db[i] /\ now \in Times
        /\ db[i] # None => db[i].pub <= now
    BY <1>2, <1>a DEF GeneratePage, HistoryInv, TypeInv, Decided, Remembered, ItemRemembered,
                      TypeOK, Dated, ItemDated
  <2>3. snaps[i] # None => PageDecision(snaps[i], model[i], seen).pub = snaps[i].pub
    BY <2>2, PageDecisionDates
  <2>4. \A j \in Items : ItemRemembered(j)'
    <3> SUFFICES ASSUME NEW j \in Items PROVE ItemRemembered(j)'
      OBVIOUS
    <3>1. ItemRemembered(j) /\ DOMAIN plan = Items
      BY <1>2, <1>a DEF GeneratePage, Remembered, TypeOK
    <3> QED
      BY <1>2, <2>1, <2>2, <2>3, <3>1 DEF GeneratePage, ItemRemembered
  <2>5. \A f \in Navigation : NavRemembered(f)'
    BY <1>2, <1>a, <1>c DEF GeneratePage, Remembered, Navigation
  <2> QED
    BY <2>4, <2>5 DEF Remembered, Navigation
<1>3. ASSUME NEW i \in Items, WritePage(i) PROVE Remembered'
  <2>1. \A j \in Items : ItemRemembered(j)'
    <3> SUFFICES ASSUME NEW j \in Items PROVE ItemRemembered(j)'
      OBVIOUS
    <3>1. ItemRemembered(j) /\ DOMAIN disk = Files
      BY <1>3, <1>a DEF WritePage, Remembered, TypeOK
    <3> QED
      BY <1>3, <3>1 DEF WritePage, ItemRemembered, Row
  <2>2. \A f \in Navigation : NavRemembered(f)'
    BY <1>3, <1>a, <1>c DEF WritePage, Remembered, Navigation
  <2> QED
    BY <2>1, <2>2 DEF Remembered, Navigation
<1>4. CASE EndPages
  BY <1>4, <1>a, <1>b, <1>c DEF EndPages, Remembered, Navigation
<1>5. CASE WriteRootMeta
  <2>1. RootMeta \in Navigation /\ WriteMeta(RootMeta, TRUE)
    BY <1>5 DEF WriteRootMeta, Navigation
  <2>2. /\ \A g \in Files \ {RootMeta} : disk'[g] = disk[g]
        /\ \A g \in Navigation \ {RootMeta} : metaRows'[g] = metaRows[g]
    BY <1>a, <2>1, WriteMetaFrame
  <2>3. NavRemembered(RootMeta)'
    BY <1>5, <1>a, <2>1, MetaRowRemembered DEF WriteRootMeta, Remembered, NavRemembered
  <2>4. \A c \in Cats : NavRemembered(c)'
    BY <1>5, <1>a, <1>c, <2>2, ConstantsAssumption DEF WriteRootMeta, Remembered, Navigation
  <2>5. \A j \in Items : ItemRemembered(j)'
    BY <1>5, <1>a, <1>b, <2>1, <2>2 DEF WriteRootMeta, Remembered
  <2> QED
    BY <2>3, <2>4, <2>5 DEF Remembered
<1>6. CASE UpsertRootRow
  <2>1. \A g \in Files \ {RootMeta} : db'[g] = db[g]
    BY <1>6, <1>a, CommitFrame DEF UpsertRootRow
  <2>2. \A c \in Cats : NavRemembered(c)'
    BY <1>6, <1>a, <1>c, <2>1, ConstantsAssumption DEF UpsertRootRow, Remembered, Navigation
  <2>3. \A j \in Items : ItemRemembered(j)'
    BY <1>6, <1>a, <1>b, <2>1 DEF UpsertRootRow, Remembered, Navigation
  <2> QED
    BY <1>6, <2>2, <2>3 DEF UpsertRootRow, Remembered
<1>7. CASE WriteIndex
  <2>1. \A g \in Files \ {Index} : disk'[g] = disk[g]
    BY <1>7 DEF WriteIndex
  <2>2. \A c \in Cats : NavRemembered(c)'
    BY <1>7, <1>a, <1>c, <2>1 DEF WriteIndex, Remembered, Navigation
  <2>3. \A j \in Items : ItemRemembered(j)'
    BY <1>7, <1>a, <1>b, <2>1 DEF WriteIndex, Remembered
  <2> QED
    BY <1>7, <2>2, <2>3 DEF WriteIndex, Remembered
<1>8. ASSUME NEW c \in Cats, WriteCatMeta(c) PROVE Remembered'
  <2>1. c \in Navigation /\ WriteMeta(c, FALSE)
    BY <1>8 DEF WriteCatMeta, Navigation
  <2>2. /\ \A g \in Files \ {c} : disk'[g] = disk[g]
        /\ \A g \in Navigation \ {c} : metaRows'[g] = metaRows[g]
    BY <1>a, <2>1, WriteMetaFrame
  <2>3. NavRemembered(c)'
    BY <1>8, <1>a, <2>1, MetaRowRemembered DEF WriteCatMeta, Remembered, NavRemembered
  <2>4. \A d \in Cats \ {c} : NavRemembered(d)'
    BY <1>8, <1>a, <1>c, <2>2 DEF WriteCatMeta, Remembered, Navigation
  <2>5. \A j \in Items : ItemRemembered(j)'
    BY <1>8, <1>a, <1>b, <2>1, <2>2 DEF WriteCatMeta, Remembered
  <2> QED
    BY <1>8, <2>3, <2>4, <2>5 DEF WriteCatMeta, Remembered
<1>9. CASE CommitCatRows
  <2>1. \A g \in Files \ {c \in Cats : metaRows[c] # None} : db'[g] = db[g]
    BY <1>9, <1>a, CommitFrame DEF CommitCatRows
  <2>2. \A j \in Items : ItemRemembered(j)'
    BY <1>9, <1>a, <1>b, <2>1 DEF CommitCatRows, Remembered, Navigation
  <2> QED
    BY <1>9, <2>2 DEF CommitCatRows, Remembered
<1>10. CASE phase' \notin Uncommitted
  BY <1>10 DEF Remembered
<1>11. CASE UNCHANGED vars
  BY <1>11, <1>a, <1>b, <1>c DEF vars, Remembered, Navigation
<1>12. CASE BuildStep
  BY <1>12, <1>1, <1>2, <1>3, <1>4, <1>5, <1>6, <1>7, <1>8, <1>9, <1>10
     DEF BuildStep, Pipeline, CommitPages, DeleteStaleRow, EndStale, UnlinkStale,
         ScanOrphans, RemoveOrphan, DropOrphanRow, FinishBuild
<1>13. CASE Environment
  BY <1>13, <1>10 DEF Environment, EditModel, AuthorIndex, LoseDb, LoseFile, Crash
<1> QED
  BY <1>11, <1>12, <1>13 DEF Next

\* The three invariants hold together, whatever faults occur during a build.
THEOREM HistoryInvariant == Spec => []HistoryInv
<1>1. Init => HistoryInv
  BY InitTypeInv, InitSpared, InitDated, InitRemembered DEF HistoryInv
<1>2. HistoryInv /\ [Next]_vars => HistoryInv'
  BY StepTypeInv, StepSpared, StepDated, StepRemembered DEF HistoryInv
<1> QED
  BY <1>1, <1>2, PTL DEF Spec

--------------------------------------------------------------------------------
(* What may enter the database. *)

\* A row that appears or changes comes from one of the three commits, says what
\* its file says at that moment and keeps the publication date it had.
LEMMA RecordedIsBacked ==
  ASSUME HistoryInv, [Next]_vars, NEW f \in Files, db'[f] \notin {db[f], None}
  PROVE  /\ disk[f] # None /\ disk[f].content = db'[f].content
         /\ f \in Items => disk[f] = db'[f]
         /\ db[f] # None => db'[f].pub = db[f].pub
<1> USE NavigationIsNoPage DEF Uncommitted, UntilRootRow, UntilCatRows
<1>a. TypeOK /\ Remembered
  BY DEF HistoryInv, TypeInv
<1>1. ASSUME f \in Navigation, NavRemembered(f), db'[f] = metaRows[f]
      PROVE  /\ disk[f] # None /\ disk[f].content = db'[f].content
             /\ db[f] # None => db'[f].pub = db[f].pub
  BY <1>1 DEF NavRemembered
<1>2. CASE UpsertRootRow
  <2>1. f = RootMeta /\ db'[f] = metaRows[f]
    BY <1>2, <1>a, CommitFrame DEF UpsertRootRow
  <2> QED
    BY <1>1, <1>2, <1>a, <2>1 DEF UpsertRootRow, Remembered, Navigation
<1>3. CASE CommitCatRows
  <2>1. f \in Cats /\ db'[f] = metaRows[f]
    BY <1>3, <1>a, CommitFrame DEF CommitCatRows
  <2> QED
    BY <1>1, <1>3, <1>a, <2>1 DEF CommitCatRows, Remembered, Navigation
<1>4. CASE CommitPages
  <2> DEFINE changed == {i \in Documented : ~plan[i].unchanged}
             rows    == [i \in changed |-> Row(model[i], plan[i])]
  <2>1. Commit(rows, changed)
    BY <1>4 DEF CommitPages
  <2>2. f \in changed /\ db'[f] = Row(model[f], plan[f])
    BY <1>a, <2>1, CommitFrame
  <2>3. /\ f \in Items /\ ItemRemembered(f) /\ f \in written
        /\ plan[f] \in Plans /\ model[f] \in ContentsOf(f)
    BY <1>4, <1>a, <2>2, FileKinds
       DEF CommitPages, Remembered, Documented, HistoryInv, TypeInv, Decided, TypeOK
  <2>4. disk[f] = db'[f] /\ plan[f] # None
    BY <2>2, <2>3, NoneAssumption DEF ItemRemembered
  <2>5. disk[f] # None
    BY <2>2, <2>3, <2>4, RowType, NoneAssumption
  <2> QED
    BY <2>2, <2>3, <2>4, <2>5 DEF ItemRemembered, Row
<1>5. CASE UNCHANGED db
  BY <1>5
<1>6. ASSUME NEW g \in Files, DeleteStaleRow(g) PROVE FALSE
  BY <1>6, <1>a DEF DeleteStaleRow, TypeOK
<1>7. ASSUME NEW g \in Files, DropOrphanRow(g) PROVE FALSE
  BY <1>7, <1>a, CommitFrame DEF DropOrphanRow
<1>8. CASE LoseDb
  BY <1>8 DEF LoseDb
<1>9. CASE BuildStep
  BY <1>9, <1>2, <1>3, <1>4, <1>5, <1>6, <1>7
     DEF BuildStep, Pipeline, BeginBuild, GeneratePage, WritePage, EndPages, WriteRootMeta,
         WriteIndex, WriteCatMeta, EndStale, UnlinkStale, ScanOrphans, RemoveOrphan,
         FinishBuild
<1>10. CASE Environment
  BY <1>10, <1>5, <1>8 DEF Environment, EditModel, AuthorIndex, LoseFile, Crash
<1> QED
  BY <1>5, <1>9, <1>10 DEF Next, vars

\* The steps that touch the page of an item.
LEMMA PageChanges ==
  ASSUME TypeOK, [Next]_vars, NEW i \in Items, disk'[i] # disk[i]
  PROVE  WritePage(i) \/ UnlinkStale(i) \/ RemoveOrphan(i) \/ LoseFile(i) \/ Crash
<1> USE NavigationIsNoPage
<1>a. i \in Files /\ DOMAIN disk = Files
  BY DEF TypeOK
<1>1. ASSUME NEW j \in Items, WritePage(j) PROVE WritePage(i)
  <2>1. i = j
    BY <1>1, <1>a DEF WritePage
  <2> QED
    BY <1>1, <2>1
<1>2. ~WriteRootMeta
  BY <1>a, WriteMetaFrame DEF WriteRootMeta, Navigation
<1>3. ASSUME NEW c \in Cats PROVE ~WriteCatMeta(c)
  <2>1. c \in Navigation /\ (WriteCatMeta(c) => WriteMeta(c, FALSE))
    BY DEF WriteCatMeta, Navigation
  <2> QED
    BY <1>a, <2>1, WriteMetaFrame
<1>4. ~WriteIndex /\ ~AuthorIndex
  BY <1>a DEF WriteIndex, AuthorIndex
<1>5. ASSUME NEW f \in Files, UnlinkStale(f) \/ RemoveOrphan(f)
      PROVE  UnlinkStale(i) \/ RemoveOrphan(i)
  <2>1. i = f
    BY <1>5, <1>a, RemovedFrame DEF UnlinkStale, RemoveOrphan
  <2> QED
    BY <1>5, <2>1
<1>6. ASSUME NEW f \in Files, LoseFile(f) PROVE LoseFile(i)
  <2>1. i = f
    BY <1>6, <1>a DEF LoseFile
  <2> QED
    BY <1>6, <2>1
<1>7. disk' # disk
  OBVIOUS
<1>8. CASE BuildStep
  BY <1>8, <1>1, <1>2, <1>3, <1>4, <1>5, <1>7
     DEF BuildStep, Pipeline, BeginBuild, GeneratePage, EndPages, UpsertRootRow, CommitCatRows,
         CommitPages, DeleteStaleRow, EndStale, ScanOrphans, DropOrphanRow, FinishBuild
<1>9. CASE Environment
  BY <1>9, <1>4, <1>6, <1>7 DEF Environment, EditModel, LoseDb
<1> QED
  BY <1>7, <1>8, <1>9 DEF Next, vars

\* Only the page stage gives a page new text, and dates it with this build.
LEMMA ChangedIsDated ==
  ASSUME HistoryInv, [Next]_vars, NEW i \in Items, disk[i] # None, disk'[i] # None,
         disk'[i].content \notin {disk[i].content, Torn}
  PROVE  disk'[i].mod > disk[i].mod /\ disk'[i].pub <= disk'[i].mod
<1>a. /\ TypeOK /\ ItemDated(i) /\ i \in Files /\ now \in Int
      /\ disk[i].mod \in Int
  BY NavigationIsNoPage, ConstantsAssumption
     DEF HistoryInv, TypeInv, TypeOK, Dated, Times, TextOf
<1>1. ~Crash
  BY <1>a, CrashFrame DEF Landing
<1>2. ~UnlinkStale(i) /\ ~RemoveOrphan(i) /\ ~LoseFile(i)
  BY <1>a DEF UnlinkStale, RemoveOrphan, Removed, LoseFile, TypeOK
<1>3. WritePage(i)
  BY <1>a, <1>1, <1>2, PageChanges
<1>4. disk'[i] = Row(model[i], plan[i]) /\ ~plan[i].unchanged
  BY <1>3, <1>a DEF WritePage, TypeOK
<1>5. plan[i].mod = now /\ plan[i].pub <= now /\ disk[i].mod < now
  BY <1>3, <1>a, <1>4 DEF WritePage, ItemDated
<1> QED
  BY <1>a, <1>4, <1>5 DEF Row

(* Whatever crashes and failing calls fall where, a row is recorded only for    *)
(* content and dates its file already holds: a lost commit leaves a row too     *)
(* old, never one too new, and the next build compares against something real.  *)
THEOREM RowsFollowFiles == Spec => RowsNeverLead
<1>1. HistoryInv /\ [Next]_vars
        => [\A f \in Files : db'[f] # db[f] /\ db'[f] # None
              => /\ disk[f] # None
                 /\ disk[f].content = db'[f].content
                 /\ f \in Items => disk[f] = db'[f]]_vars
  BY RecordedIsBacked
<1> QED
  BY <1>1, HistoryInvariant, PTL DEF Spec, RowsNeverLead

(* Under every fault, the publication date of a row stays while the row does,   *)
(* and a page whose text changes is dated later than before and not before it   *)
(* was published.                                                               *)
THEOREM DatesFollow == Spec => DatesFollowContent
<1>1. HistoryInv /\ [Next]_vars
        => [\A f \in Files : db[f] # None /\ db'[f] # None => db'[f].pub = db[f].pub]_vars
  BY RecordedIsBacked
<1>2. HistoryInv /\ [Next]_vars
        => [\A i \in Items :
              disk[i] # None /\ disk'[i] # None /\ disk'[i].content \notin {disk[i].content, Torn}
                => disk'[i].mod > disk[i].mod /\ disk'[i].pub <= disk'[i].mod]_vars
  BY ChangedIsDated
<1>3. Spec => RecordedDateKept
  BY <1>1, HistoryInvariant, PTL DEF Spec, RecordedDateKept
<1>4. Spec => ContentChangeAdvancesModified
  BY <1>2, HistoryInvariant, PTL DEF Spec, ContentChangeAdvancesModified
<1> QED
  BY <1>3, <1>4 DEF DatesFollowContent

--------------------------------------------------------------------------------
(* While nothing harmful happens.                                               *)

(* Navigation files whose row waits for its commit, and what the row says.      *)

NavFresh(f) == disk[f] # None /\ disk[f].content = NavContent(f)

AwaitsRow(f) ==
  \/ f = RootMeta /\ phase = "rootrow"
  \/ f \in Cats /\ phase = "cats" /\ f \in generated

NavTracked(f) ==
  /\ RowMatches(f) \/ AwaitsRow(f)
  /\ AwaitsRow(f) => IF metaRows[f] # None
                     THEN metaRows[f].content = NavContent(f)
                     ELSE f # RootMeta /\ RowMatches(f)
  /\ f \in generated => NavFresh(f)

NavFaithful ==
  /\ \A f \in Navigation : NavTracked(f)
  /\ phase \in UntilCatRows => \A c \in Cats : metaRows[c] # None => c \in generated
  /\ phase \in UntilCatRows \ {"cats"} => generated \cap Cats = {}
  /\ phase \in AfterIndex => disk[Index] # None
  /\ NavigationCurrent

NavInv == HistoryInv /\ Faithful /\ NavFaithful

(* A page is only rewritten for content it does not have.                       *)
Honest ==
  \A i \in Items \ written :
    plan[i] # None /\ ~plan[i].unchanged /\ disk[i] # None => disk[i].content # model[i]

(* A site that a build of a settled site finds, and that it leaves as it is.    *)
SiteStands ==
  /\ \A f \in Expected \ {Index} : Current(f)
  /\ disk[Index] # None
  /\ \A f \in Files \ Expected : disk[f] = None

Quiet ==
  health = "rebuilding" =>
    /\ phase # "idle"
    /\ SiteStands
    /\ \A i \in Items : plan[i] # None => plan[i].unchanged

(* The directory scan finds every file that was not generated.                  *)
Cleared ==
  phase = "orphans" => \A f \in Files \ (generated \cup orphans) : disk[f] = None

--------------------------------------------------------------------------------
(* The navigation. *)

\* The navigation depends on the model alone.
LEMMA SameNavigation ==
  ASSUME UNCHANGED model
  PROVE  \A f : NavContent(f)' = NavContent(f)
<1>1. Documented' = Documented /\ NonEmpty' = NonEmpty
  BY SameExpected
<1>2. \A c : Filed(c)' = Filed(c)
  BY <1>1 DEF Filed
<1> QED
  BY <1>1, <1>2 DEF NavContent

\* Whatever was decided, the file then lists what it should, and the row that is
\* set aside, or the one that stays, says so too.
LEMMA WriteMetaFresh ==
  ASSUME TypeOK, NEW f \in Navigation, NEW keep \in BOOLEAN, WriteMeta(f, keep),
         snaps[f] = db[f], RowMatches(f), model' = model, db' = db
  PROVE  /\ NavFresh(f)'
         /\ metaRows'[f] # None => metaRows'[f].content = NavContent(f)
         /\ keep => metaRows'[f] # None
         /\ metaRows'[f] = None => RowMatches(f)'
<1>1. PICK exists \in {disk[f] # None, FALSE}, seen \in ReadBack(f) :
        LET p == MetaDecision(snaps[f], NavContent(f), exists, seen)
        IN  /\ disk' = IF p.unchanged THEN disk ELSE [disk EXCEPT ![f] = NavText(f)]
            /\ metaRows' = [metaRows EXCEPT ![f] =
                              IF p.unchanged /\ ~keep THEN None ELSE Row(NavContent(f), p)]
  BY DEF WriteMeta, Found
<1> DEFINE p == MetaDecision(snaps[f], NavContent(f), exists, seen)
<1>2. f \in Files /\ f \in DOMAIN disk /\ f \in DOMAIN metaRows
  BY NavigationIsNoPage DEF TypeOK, Navigation
<1>3. /\ p.unchanged => exists
      /\ p.unchanged /\ snaps[f] # None => snaps[f].content = NavContent(f)
      /\ p.unchanged /\ snaps[f] = None => seen # None /\ seen.content = NavContent(f)
  BY MetaDecisionDates
<1>4. p \in Plans /\ NavContent(f) \in ContentsOf(f)
  BY <1>2, MetaDecisionType, NavContentType DEF TypeOK, Navigation
<1>5. NavContent(f)' = NavContent(f)
  BY SameNavigation
<1> HIDE DEF p
<1>6. Row(NavContent(f), p) # None
  BY <1>2, <1>4, RowType, NoneAssumption
<1>7. CASE p.unchanged
  <2>1. disk[f] # None /\ disk' = disk
    BY <1>1, <1>3, <1>7 DEF p
  <2>2. disk[f].content = NavContent(f)
    BY <1>1, <1>3, <1>7, <2>1 DEF RowMatches, ReadBack
  <2>3. metaRows'[f] = IF keep THEN Row(NavContent(f), p) ELSE None
    BY <1>1, <1>2, <1>7 DEF p
  <2>4. RowMatches(f)'
    BY <2>1 DEF RowMatches
  <2> QED
    BY <1>5, <1>6, <2>1, <2>2, <2>3, <2>4 DEF NavFresh, Row
<1>8. CASE ~p.unchanged
  <2>1. disk'[f] = NavText(f) /\ NavText(f) # None
    BY <1>1, <1>2, <1>8, NavTextType, NoneAssumption DEF p, Navigation
  <2>2. metaRows'[f] = Row(NavContent(f), p)
    BY <1>1, <1>2, <1>8 DEF p
  <2> QED
    BY <1>5, <1>6, <2>1, <2>2 DEF NavFresh, NavText, Row
<1> QED
  BY <1>7, <1>8

\* At first there is no navigation.
LEMMA InitNavFaithful == Init => NavFaithful
BY NavigationIsNoPage DEF Init, NoMemory, NavFaithful, NavTracked, RowMatches, AwaitsRow,
   NavigationCurrent, Settled, UntilCatRows, AfterIndex, Navigation

\* Without harmful faults every step keeps rows and navigation files in step.
LEMMA StepNavFaithful == ASSUME Benign PROVE NavInv /\ [Next]_vars => NavFaithful'
<1> SUFFICES ASSUME NavInv, [Next]_vars PROVE NavFaithful'
  OBVIOUS
<1> USE NavigationIsNoPage DEF UntilCatRows, AfterIndex
<1>a. /\ TypeOK /\ NavFaithful /\ Remembered /\ Spared /\ (phase = "idle" => NoMemory)
      /\ "crash" \notin Faults /\ "dbfail" \notin Faults /\ "losefile" \notin Faults
  BY DEF NavInv, HistoryInv, TypeInv, Benign
<1>b. ASSUME NEW f \in Navigation, NavTracked(f), model' = model, disk'[f] = disk[f],
             db'[f] = db[f], metaRows'[f] = metaRows[f],
             AwaitsRow(f)' = AwaitsRow(f), f \in generated' => f \in generated
      PROVE  NavTracked(f)'
  BY <1>b, SameNavigation DEF NavTracked, RowMatches, NavFresh
<1>c. RootMeta \in Navigation /\ Cats \subseteq Navigation /\ RootMeta \notin Cats
  BY ConstantsAssumption DEF Navigation
<1>d. ASSUME phase' # "idle" \/ health' # "settled"
      PROVE  NavigationCurrent'
  BY <1>d DEF NavigationCurrent, Settled
<1>1. CASE BeginBuild
  <2>1. generated = {} /\ \A f \in Navigation : metaRows[f] = None
    BY <1>1, <1>a, IdleMemory DEF BeginBuild
  <2>2. \A f \in Navigation : NavTracked(f)'
    BY <1>1, <1>a, <1>b, <2>1 DEF BeginBuild, NavFaithful, AwaitsRow
  <2> QED
    BY <1>1, <1>c, <1>d, <2>1, <2>2 DEF BeginBuild, NavFaithful
<1>2. ASSUME NEW i \in Items, GeneratePage(i) PROVE NavFaithful'
  <2>1. \A f \in Navigation : NavTracked(f)'
    BY <1>2, <1>a, <1>b DEF GeneratePage, NavFaithful, AwaitsRow
  <2> QED
    BY <1>2, <1>a, <1>d, <2>1 DEF GeneratePage, NavFaithful
<1>3. ASSUME NEW i \in Items, WritePage(i) PROVE NavFaithful'
  <2>1. \A f \in Navigation : NavTracked(f)'
    BY <1>3, <1>a, <1>b DEF WritePage, NavFaithful, AwaitsRow
  <2> QED
    BY <1>3, <1>a, <1>d, <2>1 DEF WritePage, NavFaithful
<1>4. CASE EndPages
  <2>1. \A f \in Navigation : f \notin generated'
    BY <1>4 DEF EndPages, Documented
  <2>2. \A f \in Navigation : NavTracked(f)'
    BY <1>4, <1>a, <1>b, <2>1 DEF EndPages, NavFaithful, AwaitsRow
  <2> QED
    BY <1>4, <1>a, <1>c, <1>d, <2>1, <2>2 DEF EndPages, NavFaithful
<1>5. CASE WriteRootMeta
  <2>1. WriteMeta(RootMeta, TRUE) /\ snaps[RootMeta] = db[RootMeta] /\ RowMatches(RootMeta)
    BY <1>5, <1>a, <1>c
       DEF WriteRootMeta, Remembered, UntilRootRow, NavRemembered, NavFaithful, NavTracked,
           AwaitsRow
  <2>2. /\ \A g \in Files \ {RootMeta} : disk'[g] = disk[g]
        /\ \A g \in Navigation \ {RootMeta} : metaRows'[g] = metaRows[g]
        /\ generated' = generated \cup {RootMeta}
    BY <1>a, <1>c, <2>1, WriteMetaFrame
  <2>3. /\ NavFresh(RootMeta)' /\ metaRows'[RootMeta] # None
        /\ metaRows'[RootMeta].content = NavContent(RootMeta)
    BY <1>5, <1>a, <1>c, <2>1, WriteMetaFresh DEF WriteRootMeta
  <2>4. AwaitsRow(RootMeta)'
    BY <1>5 DEF WriteRootMeta, AwaitsRow
  <2>5. NavTracked(RootMeta)'
    BY <1>5, <2>3, <2>4, SameNavigation DEF WriteRootMeta, NavTracked
  <2>6. \A c \in Cats : NavTracked(c)'
    BY <1>5, <1>a, <1>b, <1>c, <2>2 DEF WriteRootMeta, NavFaithful, AwaitsRow
  <2> QED
    BY <1>5, <1>a, <1>c, <1>d, <2>2, <2>5, <2>6 DEF WriteRootMeta, NavFaithful, Navigation
<1>6. CASE UpsertRootRow
  <2>1. db'[RootMeta] = metaRows[RootMeta] /\ \A g \in Files \ {RootMeta} : db'[g] = db[g]
    BY <1>6, <1>a, <1>c DEF UpsertRootRow, Commit
  <2>2. NavTracked(RootMeta) /\ AwaitsRow(RootMeta) /\ RootMeta \in generated
    BY <1>6, <1>a, <1>c DEF UpsertRootRow, NavFaithful, AwaitsRow, Spared
  <2>3. RowMatches(RootMeta)' /\ NavFresh(RootMeta)'
    BY <1>6, <2>1, <2>2, SameNavigation DEF UpsertRootRow, NavTracked, RowMatches, NavFresh
  <2>4. ~AwaitsRow(RootMeta)'
    BY <1>6, <1>c DEF UpsertRootRow, AwaitsRow
  <2>5. NavTracked(RootMeta)'
    BY <2>3, <2>4 DEF NavTracked
  <2>6. \A c \in Cats : NavTracked(c)'
    BY <1>6, <1>a, <1>b, <1>c, <2>1 DEF UpsertRootRow, NavFaithful, AwaitsRow
  <2> QED
    BY <1>6, <1>a, <1>d, <2>5, <2>6 DEF UpsertRootRow, NavFaithful, Navigation
<1>7. CASE WriteIndex
  <2>1. /\ disk'[Index] # None /\ \A g \in Files \ {Index} : disk'[g] = disk[g]
    BY <1>7, <1>a, UndatedType, NoneAssumption DEF WriteIndex, ReadBack, TypeOK
  <2>2. \A f \in Navigation : AwaitsRow(f)' = AwaitsRow(f) /\ f \notin generated' \ generated
    BY <1>7, <1>a, <1>c DEF WriteIndex, AwaitsRow, NavFaithful
  <2>3. \A f \in Navigation : NavTracked(f)'
    BY <1>7, <1>a, <1>b, <2>1, <2>2 DEF WriteIndex, NavFaithful
  <2> QED
    BY <1>7, <1>a, <1>d, <2>1, <2>3 DEF WriteIndex, NavFaithful
<1>8. ASSUME NEW c \in Cats, WriteCatMeta(c) PROVE NavFaithful'
  <2>1. /\ c \in Navigation /\ WriteMeta(c, FALSE) /\ snaps[c] = db[c]
        /\ RowMatches(c) /\ c # RootMeta
    BY <1>8, <1>a, <1>c
       DEF WriteCatMeta, Remembered, NavRemembered, NavFaithful, NavTracked, AwaitsRow
  <2>2. /\ \A g \in Files \ {c} : disk'[g] = disk[g]
        /\ \A g \in Navigation \ {c} : metaRows'[g] = metaRows[g]
        /\ generated' = generated \cup {c}
    BY <1>a, <2>1, WriteMetaFrame
  <2>3. /\ NavFresh(c)'
        /\ metaRows'[c] # None => metaRows'[c].content = NavContent(c)
        /\ metaRows'[c] = None => RowMatches(c)'
    BY <1>8, <1>a, <2>1, WriteMetaFresh DEF WriteCatMeta
  <2>4. AwaitsRow(c)'
    BY <1>8, <2>2 DEF WriteCatMeta, AwaitsRow
  <2>5. NavTracked(c)'
    BY <1>8, <2>1, <2>3, <2>4, SameNavigation DEF WriteCatMeta, NavTracked
  <2>6. \A f \in Navigation \ {c} : NavTracked(f)'
    BY <1>8, <1>a, <1>b, <2>2 DEF WriteCatMeta, NavFaithful, AwaitsRow
  <2> QED
    BY <1>8, <1>a, <1>c, <1>d, <2>2, <2>5, <2>6 DEF WriteCatMeta, NavFaithful
<1>9. CASE CommitCatRows
  <2>1. /\ \A c \in Cats : metaRows[c] # None => db'[c] = metaRows[c]
        /\ \A g \in Navigation : (g \in Cats /\ metaRows[g] # None) \/ db'[g] = db[g]
    BY <1>9, <1>a, <1>c DEF CommitCatRows, Commit
  <2>2. \A f \in Navigation : RowMatches(f)'
    <3> SUFFICES ASSUME NEW f \in Navigation PROVE RowMatches(f)'
      OBVIOUS
    <3>1. NavTracked(f) /\ disk' = disk
      BY <1>9, <1>a DEF CommitCatRows, NavFaithful
    <3>2. CASE f \in Cats /\ metaRows[f] # None
      <4>1. AwaitsRow(f) /\ f \in generated /\ db'[f] = metaRows[f]
        BY <1>9, <1>a, <2>1, <3>2 DEF CommitCatRows, NavFaithful, AwaitsRow
      <4> QED
        BY <3>1, <3>2, <4>1 DEF NavTracked, RowMatches, NavFresh
    <3>3. CASE ~(f \in Cats /\ metaRows[f] # None)
      BY <1>9, <1>c, <2>1, <3>1, <3>3 DEF CommitCatRows, NavTracked, RowMatches, AwaitsRow
    <3> QED
      BY <3>2, <3>3
  <2>3. \A f \in Navigation : NavTracked(f)'
    BY <1>9, <1>a, <1>c, <2>2, SameNavigation
       DEF CommitCatRows, NavFaithful, NavTracked, AwaitsRow, NavFresh
  <2> QED
    BY <1>9, <1>a, <1>d, <2>3 DEF CommitCatRows, NavFaithful
<1>10. CASE CommitPages
  <2>1. \A f \in Navigation : db'[f] = db[f]
    <3> DEFINE changed == {i \in Documented : ~plan[i].unchanged}
    <3>1. Commit([i \in changed |-> Row(model[i], plan[i])], changed)
      BY <1>10 DEF CommitPages
    <3>2. changed \cap Navigation = {}
      BY DEF Documented
    <3> HIDE DEF changed
    <3> QED
      BY <1>a, <3>1, <3>2, CommitFrame
  <2>2. \A f \in Navigation : NavTracked(f)'
    BY <1>10, <1>a, <1>b, <2>1 DEF CommitPages, NavFaithful, AwaitsRow
  <2> QED
    BY <1>10, <1>a, <1>d, <2>2 DEF CommitPages, NavFaithful
\* Late in the build rows only go, and files that were not generated.
<1>11. ASSUME phase \in {"stale", "unlink", "orphans"}, phase' \in {"stale", "unlink", "orphans"},
              model' = model, generated' = generated, disk'[Index] = disk[Index],
              \A f \in Navigation : /\ db'[f] \in {db[f], None}
                                    /\ disk'[f] = disk[f] \/ (f \notin generated /\ db[f] = None)
       PROVE  NavFaithful'
  <2>1. \A f \in Navigation : NavTracked(f)'
    BY <1>11, <1>a, <1>c, SameNavigation DEF NavFaithful, NavTracked, AwaitsRow, RowMatches, NavFresh
  <2> QED
    BY <1>11, <1>a, <1>d, <2>1 DEF NavFaithful
<1>12. ASSUME NEW f \in Files, DeleteStaleRow(f) PROVE NavFaithful'
  BY <1>12, <1>a, <1>11 DEF DeleteStaleRow, TypeOK
<1>13. CASE EndStale
  BY <1>13, <1>11 DEF EndStale
<1>14. ASSUME NEW f \in Files, f \notin generated, db[f] = None, Removed(f),
              phase \in {"unlink", "orphans"}
       PROVE  /\ disk'[Index] = disk[Index]
              /\ \A g \in Navigation : disk'[g] = disk[g] \/ (g \notin generated /\ db[g] = None)
  BY <1>14, <1>a, RemovedFrame DEF Spared
<1>15. ASSUME NEW f \in Files, UnlinkStale(f) PROVE NavFaithful'
  <2>1. f \notin generated /\ db[f] = None
    BY <1>15 DEF UnlinkStale, NavInv, Faithful
  <2> QED
    BY <1>15, <1>11, <1>14, <2>1 DEF UnlinkStale
<1>16. CASE ScanOrphans
  BY <1>16, <1>11 DEF ScanOrphans
<1>17. ASSUME NEW f \in Files, RemoveOrphan(f) PROVE NavFaithful'
  <2>1. f \notin generated /\ db[f] = None
    BY <1>17 DEF RemoveOrphan, NavInv, Faithful
  <2> QED
    BY <1>17, <1>11, <1>14, <2>1 DEF RemoveOrphan
<1>18. ASSUME NEW f \in Files, DropOrphanRow(f) PROVE NavFaithful'
  <2>1. \A g \in Files : db'[g] \in {db[g], None}
    BY <1>18, <1>a, CommitFrame DEF DropOrphanRow
  <2> QED
    BY <1>18, <1>11, <2>1 DEF DropOrphanRow
<1>19. CASE FinishBuild
  <2>1. /\ \A f \in Navigation : NavTracked(f) /\ ~AwaitsRow(f)
        /\ RootMeta \in generated /\ NonEmpty \subseteq generated /\ NonEmpty \subseteq Cats
        /\ disk[Index] # None
    BY <1>19, <1>a, <1>c DEF FinishBuild, NavFaithful, AwaitsRow, Spared, NonEmpty
  <2>2. NavigationCurrent'
    BY <1>19, <1>c, <2>1, SameNavigation, SameExpected
       DEF FinishBuild, NavigationCurrent, Current, NavTracked, NavFresh
  <2>3. \A f \in Navigation : NavTracked(f)'
    BY <1>19, <2>1, ForgottenMemory DEF FinishBuild, NavTracked, RowMatches, AwaitsRow
  <2> QED
    BY <1>19, <2>2, <2>3 DEF FinishBuild, NavFaithful
<1>20. ASSUME phase = "idle", phase' = "idle", UNCHANGED memory, NavigationCurrent',
              \A f \in Navigation : RowMatches(f)'
       PROVE  NavFaithful'
  <2>1. generated' = {}
    BY <1>20, <1>a, IdleMemory DEF memory
  <2> QED
    BY <1>20, <2>1 DEF NavFaithful, NavTracked, AwaitsRow
<1>21. ASSUME phase = "idle" PROVE \A f \in Navigation : RowMatches(f)
  BY <1>21, <1>a DEF NavFaithful, NavTracked, AwaitsRow
<1>22. ASSUME NEW i \in Items, NEW content \in Contents \cup {None}, EditModel(i, content)
       PROVE  NavFaithful'
  BY <1>20, <1>21, <1>22, <1>d DEF EditModel, Disturb, RowMatches
<1>23. CASE AuthorIndex
  <2>1. disk'[Index] # None /\ \A g \in Files \ {Index} : disk'[g] = disk[g]
    BY <1>23, <1>a, UndatedType, NoneAssumption DEF AuthorIndex, TypeOK
  <2>2. NavigationCurrent'
    BY <1>23, <1>a, <1>c, <2>1, SameNavigation, SameExpected
       DEF AuthorIndex, NavFaithful, NavigationCurrent, Settled, Current, NonEmpty
  <2> QED
    BY <1>20, <1>21, <1>23, <2>1, <2>2 DEF AuthorIndex, RowMatches
<1>24. CASE LoseDb
  <2>1. NavigationCurrent'
    BY <1>24, <1>a, SameNavigation, SameExpected
       DEF LoseDb, NavFaithful, NavigationCurrent, Settled, Current
  <2> QED
    BY <1>20, <1>24, <2>1 DEF LoseDb, RowMatches
<1>25. CASE UNCHANGED vars
  <2>1. NavigationCurrent'
    BY <1>25, <1>a, SameNavigation, SameExpected
       DEF vars, NavFaithful, NavigationCurrent, Settled, Current
  <2>2. \A f \in Navigation : NavTracked(f)'
    BY <1>25, <1>a, <1>b DEF vars, NavFaithful, AwaitsRow
  <2> QED
    BY <1>25, <1>a, <2>1, <2>2 DEF vars, NavFaithful
<1>26. CASE BuildStep
  BY <1>26, <1>1, <1>2, <1>3, <1>4, <1>5, <1>6, <1>7, <1>8, <1>9, <1>10, <1>12, <1>13,
     <1>15, <1>16, <1>17, <1>18, <1>19 DEF BuildStep, Pipeline
<1>27. CASE Environment
  BY <1>27, <1>a, <1>22, <1>23, <1>24 DEF Environment, LoseFile, Crash
<1> QED
  BY <1>25, <1>26, <1>27 DEF Next

\* All the invariants about pages and navigation hold together.
LEMMA NavInvariant == ASSUME Benign PROVE Spec => []NavInv
<1>1. Init => NavInv
  BY InitTypeInv, InitSpared, InitDated, InitRemembered, InitFaithful, InitNavFaithful
     DEF NavInv, HistoryInv
<1>2. NavInv /\ [Next]_vars => NavInv'
  BY StepTypeInv, StepSpared, StepDated, StepRemembered, StepFaithful, StepNavFaithful
     DEF NavInv, HistoryInv, FaithInv
<1> QED
  BY <1>1, <1>2, PTL DEF Spec

(* When no process dies and no row is lost behind the back of its file, every   *)
(* completed build leaves a root and a category _meta.json that list exactly    *)
(* what has a page, and a landing page, even where nothing was rewritten.       *)
THEOREM NavigationIsCurrent == ASSUME Benign PROVE Spec => []NavigationCurrent
<1>1. NavInv => NavigationCurrent
  BY DEF NavInv, NavFaithful
<1> QED
  BY <1>1, NavInvariant, PTL

--------------------------------------------------------------------------------
(* Dates are honest and rebuilds are quiet when, besides, looking at the disk   *)
(* never fails: a page that could not be read back would be written again.      *)

Legible == Faults \subseteq {"losedb", "fsremove"}

\* Readable files are a case of faults that do no harm.
LEMMA LegibleIsBenign == Legible => Benign
BY DEF Legible, Benign

\* With readable files every step keeps modification times honest.
LEMMA StepHonest == ASSUME Legible PROVE NavInv /\ Honest /\ [Next]_vars => Honest'
<1> SUFFICES ASSUME NavInv, Honest, [Next]_vars PROVE Honest'
  OBVIOUS
<1>a. /\ TypeInv /\ TypeOK /\ TypeInv' /\ Remembered /\ Faithful /\ "fsread" \notin Faults
  BY StepTypeInv DEF NavInv, HistoryInv, TypeInv, Legible
<1>b. phase' # "pages" => Honest'
  <2>1. phase' = "idle" => \A i \in Items : plan'[i] = None
    BY <1>a DEF TypeInv, NoMemory
  <2>2. phase' \notin {"idle", "pages"} => \A i \in Items : plan'[i] # None => i \in written'
    BY <1>a DEF TypeInv, TypeOK, Decided
  <2> QED
    BY <2>1, <2>2 DEF Honest
<1>1. CASE BeginBuild
  BY <1>1, <1>a, IdleMemory DEF BeginBuild, Honest, TypeInv
<1>2. ASSUME NEW i \in Items, GeneratePage(i) PROVE Honest'
  <2>1. PICK seen \in (IF snaps[i] = None THEN {disk[i]} ELSE {None}) :
          plan' = [plan EXCEPT ![i] = PageDecision(snaps[i], model[i], seen)]
    BY <1>2, <1>a DEF GeneratePage, ReadBack
  <2>2. snaps[i] = db[i] /\ RowMatches(i)
    BY <1>2, <1>a DEF GeneratePage, Faithful, Uncommitted, TypeInv, Decided
  <2>3. PageDecision(snaps[i], model[i], seen).unchanged \/ disk[i] = None
          \/ disk[i].content # model[i]
    BY <2>1, <2>2 DEF RowMatches, PageDecision, Kept, Rewritten, SameHashes
  <2> QED
    BY <1>2, <1>a, <2>1, <2>3 DEF GeneratePage, Honest, TypeOK
<1>3. ASSUME NEW i \in Items, WritePage(i) PROVE Honest'
  BY <1>3, <1>a, NavigationIsNoPage DEF WritePage, Honest, TypeOK
<1>4. CASE UNCHANGED vars
  BY <1>4 DEF vars, Honest
<1>5. CASE BuildStep
  BY <1>5, <1>b, <1>1, <1>2, <1>3
     DEF BuildStep, Pipeline, EndPages, WriteRootMeta, UpsertRootRow, WriteIndex, WriteCatMeta,
         CommitCatRows, CommitPages, DeleteStaleRow, EndStale, UnlinkStale, ScanOrphans,
         RemoveOrphan, DropOrphanRow, FinishBuild
<1>6. CASE Environment
  BY <1>6, <1>b DEF Environment, EditModel, AuthorIndex, LoseDb, LoseFile, Crash
<1> QED
  BY <1>4, <1>5, <1>6 DEF Next

(* A page whose modification date moves has other content than before: a lost   *)
(* database does not make the site tell its readers of changes that never were. *)
THEOREM DatesAreHonest == ASSUME Legible PROVE Spec => ModifiedTimeHonest
<1>1. Init => Honest
  BY DEF Init, NoMemory, Honest
<1>2. Spec => [](NavInv /\ Honest)
  BY <1>1, LegibleIsBenign, NavInvariant, StepHonest, PTL DEF Spec
<1>3. ASSUME NavInv, Honest, [Next]_vars, NEW i \in Items, disk[i] # None, disk'[i] # None,
             disk'[i].mod # disk[i].mod
      PROVE  disk'[i].content # disk[i].content
  <2>a. TypeOK /\ i \in Files
    BY <1>3, NavigationIsNoPage DEF NavInv, HistoryInv, TypeInv
  <2>1. ~Crash /\ ~LoseFile(i)
    BY DEF Crash, LoseFile, Legible
  <2>2. ~UnlinkStale(i) /\ ~RemoveOrphan(i)
    BY <1>3, <2>a DEF UnlinkStale, RemoveOrphan, Removed, TypeOK
  <2>3. WritePage(i)
    BY <1>3, <2>a, <2>1, <2>2, PageChanges
  <2>4. disk'[i] = Row(model[i], plan[i]) /\ ~plan[i].unchanged
    BY <1>3, <2>3, <2>a DEF WritePage, TypeOK
  <2> QED
    BY <1>3, <2>3, <2>4 DEF WritePage, Honest, Row
<1>4. NavInv /\ Honest /\ [Next]_vars
        => [\A i \in Items : disk[i] # None /\ disk'[i] # None
              => (disk'[i].mod # disk[i].mod => disk'[i].content # disk[i].content)]_vars
  BY <1>3
<1> QED
  BY <1>2, <1>4, PTL DEF Spec, ModifiedTimeHonest

--------------------------------------------------------------------------------
(* Building a settled site again. *)

\* Removing a file that does not exist leaves the disk as it is.
DiskIsFunction == disk = [f \in Files |-> disk[f]]

\* The disk stays a function on the files.
LEMMA StepDiskIsFunction == DiskIsFunction /\ [Next]_vars => DiskIsFunction'
<1> SUFFICES ASSUME DiskIsFunction, [Next]_vars PROVE DiskIsFunction'
  OBVIOUS
<1>1. ASSUME NEW f, NEW text, disk' = [disk EXCEPT ![f] = text] PROVE DiskIsFunction'
  BY <1>1 DEF DiskIsFunction
<1>2. CASE disk' = disk
  BY <1>2 DEF DiskIsFunction
<1>3. CASE BuildStep
  BY <1>3, <1>1, <1>2
     DEF BuildStep, Pipeline, BeginBuild, GeneratePage, WritePage, EndPages, WriteRootMeta,
         WriteMeta, UpsertRootRow, WriteIndex, WriteCatMeta, CommitCatRows, CommitPages,
         DeleteStaleRow, EndStale, UnlinkStale, Removed, ScanOrphans, RemoveOrphan,
         DropOrphanRow, FinishBuild
<1>5. CASE Crash
  BY <1>5 DEF Crash, DiskIsFunction
<1>4. CASE Environment
  BY <1>4, <1>1, <1>2, <1>5 DEF Environment, EditModel, AuthorIndex, LoseDb, LoseFile
<1> QED
  BY <1>2, <1>3, <1>4 DEF Next, vars

\* Where the site stands, nothing a build may do touches a file.
LEMMA NothingToDo ==
  ASSUME Legible, NavInv, DiskIsFunction, Quiet, [Next]_vars, health = "rebuilding"
  PROVE  disk' = disk
<1> USE NavigationIsNoPage
<1>a. /\ TypeInv /\ TypeOK /\ Remembered /\ Spared /\ Faithful /\ NavFaithful
      /\ "fsread" \notin Faults /\ "crash" \notin Faults
      /\ phase # "idle" /\ SiteStands
      /\ \A i \in Items : plan[i] # None => plan[i].unchanged
  BY DEF NavInv, HistoryInv, TypeInv, Legible, Quiet
<1>1. ASSUME NEW i \in Items, WritePage(i) PROVE disk' = disk
  BY <1>1, <1>a DEF WritePage
<1>2. ASSUME NEW f \in Navigation, NEW keep \in BOOLEAN, WriteMeta(f, keep), f \in Expected,
             snaps[f] = db[f], RowMatches(f)
      PROVE  disk' = disk
  <2>1. NavFresh(f)
    BY <1>2, <1>a DEF SiteStands, Current, NavFresh
  <2>2. MetaDecision(snaps[f], NavContent(f), TRUE, disk[f]).unchanged
    BY <1>2, <2>1 DEF MetaDecision, Kept, NavFresh, RowMatches
  <2> QED
    BY <1>2, <1>a, <2>1, <2>2 DEF WriteMeta, Found, ReadBack, NavFresh
<1>3. CASE WriteRootMeta
  <2>1. snaps[RootMeta] = db[RootMeta] /\ RowMatches(RootMeta)
    BY <1>3, <1>a, ConstantsAssumption
       DEF WriteRootMeta, Remembered, UntilRootRow, NavRemembered, NavFaithful, NavTracked,
           AwaitsRow, Navigation
  <2> QED
    BY <1>2, <1>3, <2>1 DEF WriteRootMeta, Navigation, Expected
<1>4. CASE WriteIndex
  BY <1>4, <1>a DEF WriteIndex, ReadBack, SiteStands
<1>5. ASSUME NEW c \in Cats, WriteCatMeta(c) PROVE disk' = disk
  <2>1. snaps[c] = db[c] /\ RowMatches(c)
    BY <1>5, <1>a, ConstantsAssumption
       DEF WriteCatMeta, Remembered, UntilCatRows, NavRemembered, NavFaithful, NavTracked,
           AwaitsRow, Navigation
  <2> QED
    BY <1>2, <1>5, <2>1 DEF WriteCatMeta, Navigation, Expected
<1>6. ASSUME NEW f \in Files, UnlinkStale(f) \/ RemoveOrphan(f) PROVE disk' = disk
  <2>1. f \notin generated
    BY <1>6, <1>a DEF UnlinkStale, RemoveOrphan, Spared
  <2>2. Expected \subseteq generated
    BY <1>6, <1>a DEF UnlinkStale, RemoveOrphan, Spared, AfterIndex, Expected
  <2>3. disk[f] = None /\ DOMAIN disk = Files
    BY <1>a, <2>1, <2>2 DEF SiteStands, TypeOK
  <2> QED
    BY <1>6, <2>3 DEF UnlinkStale, RemoveOrphan, Removed, DiskIsFunction
<1>7. CASE BuildStep
  BY <1>7, <1>1, <1>3, <1>4, <1>5, <1>6
     DEF BuildStep, Pipeline, BeginBuild, GeneratePage, EndPages, UpsertRootRow, CommitCatRows,
         CommitPages, DeleteStaleRow, EndStale, ScanOrphans, DropOrphanRow, FinishBuild
<1>8. CASE Environment
  BY <1>8, <1>a DEF Environment, EditModel, AuthorIndex, LoseDb, LoseFile, Crash
<1> QED
  BY <1>7, <1>8 DEF Next, vars

\* With readable files no step of a rebuild of the same model changes the disk.
LEMMA StepQuiet ==
  ASSUME Legible
  PROVE  NavInv /\ SweepInv /\ DiskIsFunction /\ Quiet /\ [Next]_vars => Quiet'
<1> SUFFICES ASSUME NavInv, SweepInv, DiskIsFunction, Quiet, [Next]_vars, health' = "rebuilding"
             PROVE  phase' # "idle" /\ SiteStands'
                    /\ \A i \in Items : plan'[i] # None => plan'[i].unchanged
  BY DEF Quiet
<1> USE NavigationIsNoPage
<1>a. /\ TypeInv /\ TypeOK /\ Faithful /\ NavFaithful /\ Swept
      /\ "fsread" \notin Faults /\ "crash" \notin Faults
  BY DEF NavInv, HistoryInv, SweepInv, TypeInv, Legible
<1>b. ASSUME model' = model, disk' = disk, SiteStands PROVE SiteStands'
  BY <1>b, SameExpected, SameNavigation DEF SiteStands, Current
<1>1. CASE BeginBuild
  <2>1. CASE Settled
    <3>1. \A f \in Expected \ {Index} : Current(f)
      BY <1>a, <2>1 DEF Expected, Faithful, PagesCurrent, NavFaithful, NavigationCurrent
    <3>2. disk[Index] # None /\ \A f \in Files \ Expected : disk[f] = None
      BY <1>a, <2>1 DEF NavFaithful, NavigationCurrent, Swept, NoLeftovers
    <3>3. plan = [i \in Items |-> None]
      BY <1>1, <1>a, IdleMemory DEF BeginBuild, TypeInv
    <3> QED
      BY <1>1, <1>b, <3>1, <3>2, <3>3 DEF BeginBuild, SiteStands
  <2>2. CASE ~Settled
    BY <1>1, <2>2 DEF BeginBuild, Settled
  <2> QED
    BY <2>1, <2>2
<1>2. CASE ~BeginBuild
  <2>1. health = "rebuilding"
    BY <1>2
       DEF Next, BuildStep, Pipeline, Environment, GeneratePage, WritePage, EndPages, WriteRootMeta,
           WriteMeta, UpsertRootRow, WriteIndex, WriteCatMeta, CommitCatRows, CommitPages, Commit,
           DeleteStaleRow, EndStale, UnlinkStale, Removed, ScanOrphans, RemoveOrphan, DropOrphanRow,
           FinishBuild, EditModel, AuthorIndex, LoseDb, LoseFile, Crash, Disturb, DisturbIf, vars
  <2>2. disk' = disk /\ phase # "idle" /\ SiteStands
        /\ \A i \in Items : plan[i] # None => plan[i].unchanged
    BY <2>1, NothingToDo DEF Quiet
  <2>3. model' = model /\ phase' # "idle"
    BY <1>2, <1>a, <2>1, <2>2
       DEF Next, BuildStep, Pipeline, Environment, GeneratePage, WritePage, EndPages, WriteRootMeta,
           UpsertRootRow, WriteIndex, WriteCatMeta, CommitCatRows, CommitPages,
           DeleteStaleRow, EndStale, UnlinkStale, ScanOrphans, RemoveOrphan, DropOrphanRow,
           FinishBuild, EditModel, AuthorIndex, LoseDb, LoseFile, Crash, vars
  <2>4. ASSUME NEW i \in Items, GeneratePage(i)
        PROVE  \A j \in Items : plan'[j] # None => plan'[j].unchanged
    <3>1. PICK seen \in (IF snaps[i] = None THEN {disk[i]} ELSE {None}) :
            plan' = [plan EXCEPT ![i] = PageDecision(snaps[i], model[i], seen)]
      BY <1>a, <2>4 DEF GeneratePage, ReadBack
    <3>2. snaps[i] = db[i] /\ RowMatches(i)
      BY <1>a, <2>4 DEF GeneratePage, Faithful, Uncommitted, TypeInv, Decided
    <3>3. i \in Expected \ {Index} /\ disk[i] # None /\ disk[i].content = model[i]
      BY <2>2, <2>4 DEF GeneratePage, SiteStands, Current, Expected
    <3>4. PageDecision(snaps[i], model[i], seen).unchanged
      BY <3>1, <3>2, <3>3 DEF RowMatches, PageDecision, Kept, SameHashes
    <3> QED
      BY <1>a, <2>2, <3>1, <3>4 DEF TypeOK
  <2>5. CASE plan' = plan
    BY <1>b, <2>2, <2>3, <2>5
  <2>6. CASE \A i \in Items : ~GeneratePage(i)
    <3>1. plan' = plan
      BY <1>2, <2>3, <2>6
         DEF Next, BuildStep, Pipeline, Environment, WritePage, EndPages, WriteRootMeta,
             UpsertRootRow, WriteIndex, WriteCatMeta, CommitCatRows, CommitPages,
             DeleteStaleRow, EndStale, UnlinkStale, ScanOrphans, RemoveOrphan, DropOrphanRow,
             FinishBuild, EditModel, AuthorIndex, LoseDb, LoseFile, Crash, memory, vars
    <3> QED
      BY <2>5, <3>1
  <2> QED
    BY <1>b, <2>2, <2>3, <2>4, <2>6
<1> QED
  BY <1>1, <1>2

(* Building a settled site again writes, replaces and removes no file, even     *)
(* when the snapshot database was lost in between.                              *)
THEOREM RebuildsAreQuiet == ASSUME Legible PROVE Spec => RebuildIsQuiet
<1> DEFINE QuietInv == NavInv /\ SweepInv /\ DiskIsFunction /\ Quiet
<1>1. Init => SweepInv /\ DiskIsFunction /\ Quiet
  BY InitTypeInv, InitSwept DEF SweepInv, DiskIsFunction, Quiet, Init
<1>2. Spec => []NavInv
  BY LegibleIsBenign, NavInvariant
<1>3. SweepInv /\ [Next]_vars => SweepInv'
  BY StepTypeInv, StepSwept DEF SweepInv
<1>4. QuietInv /\ [Next]_vars => Quiet'
  BY StepQuiet
<1>5. QuietInv /\ [Next]_vars => [health = "rebuilding" => disk' = disk]_vars
  BY NothingToDo
<1> QED
  BY <1>1, <1>2, <1>3, <1>4, <1>5, StepDiskIsFunction, PTL DEF Spec, RebuildIsQuiet

--------------------------------------------------------------------------------
(* Seen from its pages, the build is DocsSite, when removals never fail either. *)

Removable == Faults \subseteq {"losedb", "fsread"}

\* Removals that succeed are a case of faults that do no harm.
LEMMA RemovableIsBenign == Removable => Benign
BY DEF Removable, Benign

SiteInv == FaithInv /\ SweepInv /\ Spared /\ Cleared

\* The orphans a sweep is given cover every file the build did not generate.
LEMMA StepCleared == ASSUME Removable PROVE SiteInv /\ [Next]_vars => Cleared'
<1> SUFFICES ASSUME SiteInv, [Next]_vars, phase' = "orphans",
                    NEW f \in Files, f \notin generated' \cup orphans'
             PROVE  disk'[f] = None
  BY DEF Cleared
<1>a. TypeOK /\ Cleared /\ "fsremove" \notin Faults /\ "dbfail" \notin Faults
  BY DEF SiteInv, SweepInv, TypeInv, Removable
<1>1. CASE ScanOrphans
  BY <1>1, <1>a DEF ScanOrphans
<1>2. ASSUME NEW g \in Files, RemoveOrphan(g) PROVE disk'[f] = None
  BY <1>2, <1>a DEF RemoveOrphan, Removed, Cleared, TypeOK
<1>3. CASE phase = "orphans" /\ UNCHANGED <<disk, generated, orphans>>
  BY <1>3, <1>a DEF Cleared
<1>4. ASSUME NEW g \in Files, DropOrphanRow(g) PROVE disk'[f] = None
  BY <1>3, <1>4 DEF DropOrphanRow
<1>5. CASE BuildStep
  BY <1>5, <1>1, <1>2, <1>4
     DEF BuildStep, Pipeline, BeginBuild, GeneratePage, WritePage, EndPages, WriteRootMeta,
         UpsertRootRow, WriteIndex, WriteCatMeta, CommitCatRows, CommitPages, DeleteStaleRow,
         EndStale, UnlinkStale, FinishBuild
<1>6. CASE Environment
  BY <1>6 DEF Environment, EditModel, AuthorIndex, LoseDb, LoseFile, Crash
<1> QED
  BY <1>3, <1>5, <1>6 DEF Next, vars

\* The invariants the refinement needs hold together.
LEMMA SiteInvariant == ASSUME Removable PROVE Spec => []SiteInv
<1>1. Init => SiteInv
  BY InitTypeInv, InitFaithful, InitSwept, InitSpared
     DEF SiteInv, FaithInv, SweepInv, Cleared, Init
<1>2. SiteInv /\ [Next]_vars => SiteInv'
  BY RemovableIsBenign, StepTypeInv, StepFaithful, StepSwept, StepSpared, StepCleared
     DEF SiteInv, FaithInv, SweepInv
<1> QED
  BY <1>1, <1>2, PTL DEF Spec

\* What a reader sees of an item's page.
Shown == [i \in Items |-> IF disk[i] = None THEN None ELSE disk[i].content]

\* The initial states map to the initial states of DocsSite.
LEMMA SiteInit == Init => Site!Init
<1> SUFFICES ASSUME Init PROVE Site!Init
  OBVIOUS
<1>1. \A i \in Items : disk[i] = None
  BY FileKinds DEF Init
<1> QED
  BY <1>1 DEF Init, Site!Init

\* Every step of a build maps to a step of DocsSite, or to none.
LEMMA SiteStep == ASSUME Removable PROVE SiteInv /\ [Next]_vars => [Site!Next]_(Site!vars)
<1> SUFFICES ASSUME SiteInv, [Next]_vars PROVE [Site!Next]_(Site!vars)
  OBVIOUS
<1> USE NavigationIsNoPage
<1>a. /\ TypeOK /\ Faithful /\ Swept /\ Spared /\ Cleared /\ TypeInv
      /\ "crash" \notin Faults /\ "losefile" \notin Faults /\ "fsremove" \notin Faults
  BY DEF SiteInv, FaithInv, SweepInv, TypeInv, Removable
<1>b. ASSUME \A i \in Items : disk'[i] = disk[i] PROVE Shown' = Shown
  BY <1>b DEF Shown
<1>c. ASSUME model' = model, Shown' = Shown, phase = "idle" <=> phase' = "idle"
      PROVE  UNCHANGED Site!vars
  BY <1>c DEF Site!vars, Shown
<1>d. ASSUME NEW i \in Items, phase # "idle", phase' # "idle", model' = model,
             Shown' = [Shown EXCEPT ![i] = model[i]]
      PROVE  Site!Publish(i)
  BY <1>d DEF Site!Publish, Shown
<1>1. CASE \A i \in Items : disk'[i] = disk[i]
  <2>1. CASE BeginBuild
    BY <1>1, <1>b, <2>1 DEF BeginBuild, Site!Next, Site!Begin, Shown
  <2>2. ASSUME NEW i \in Items, NEW content \in Contents \cup {None}, EditModel(i, content)
        PROVE  Site!Next
    BY <1>1, <1>b, <2>2 DEF EditModel, Site!Next, Site!Edit, Shown
  <2>3. CASE FinishBuild
    <3>1. \A i \in Documented : Fresh(i)
      BY <1>a, <2>3 DEF FinishBuild, TypeInv, Decided, Faithful
    <3>2. \A i \in Items \ Documented : i \notin generated
      BY <1>a, <2>3, ConstantsAssumption DEF FinishBuild, Swept, Expected, NonEmpty
    <3>3. \A i \in Items \ Documented : disk[i] = None /\ model[i] = None
      BY <1>a, <2>3, <3>2 DEF FinishBuild, Cleared, Documented
    <3>4. Shown = model
      BY <1>a, <3>1, <3>3 DEF Fresh, Shown, TypeOK
    <3> QED
      BY <1>1, <1>b, <2>3, <3>4 DEF FinishBuild, Site!Next, Site!End, Shown
  <2>4. CASE model' = model /\ (phase = "idle" <=> phase' = "idle")
    BY <1>1, <1>b, <1>c, <2>4
  <2>5. CASE BuildStep
    BY <2>1, <2>3, <2>4, <2>5
       DEF BuildStep, Pipeline, GeneratePage, WritePage, EndPages, WriteRootMeta,
           UpsertRootRow, WriteIndex, WriteCatMeta, CommitCatRows, CommitPages, DeleteStaleRow,
           EndStale, UnlinkStale, ScanOrphans, RemoveOrphan, DropOrphanRow
  <2>6. CASE Environment
    BY <1>a, <2>2, <2>4, <2>6 DEF Environment, AuthorIndex, LoseDb, LoseFile, Crash
  <2> QED
    BY <2>4, <2>5, <2>6 DEF Next, vars
<1>2. ASSUME NEW i \in Items, disk'[i] # disk[i] PROVE [Site!Next]_(Site!vars)
  <2>1. WritePage(i) \/ UnlinkStale(i) \/ RemoveOrphan(i)
    BY <1>2, <1>a, PageChanges DEF LoseFile, Crash
  <2>2. CASE WritePage(i)
    <3>1. disk' = [disk EXCEPT ![i] = Row(model[i], plan[i])]
      BY <1>2, <2>2 DEF WritePage
    <3>2. i \in Documented /\ Row(model[i], plan[i]) # None
      <4>1. i \in Documented /\ plan[i] \in Plans /\ model[i] \in ContentsOf(i)
        BY <1>a, <2>2, FileKinds DEF WritePage, TypeOK, Documented
      <4> QED
        BY <4>1, RowType, NoneAssumption
    <3>3. Shown' = [Shown EXCEPT ![i] = model[i]]
      BY <1>a, <3>1, <3>2 DEF Shown, Row, TypeOK
    <3> QED
      BY <1>d, <2>2, <3>3 DEF WritePage, Site!Next
  <2>3. CASE UnlinkStale(i) \/ RemoveOrphan(i)
    <3>1. disk' = [disk EXCEPT ![i] = None] /\ i \notin generated
      BY <1>2, <1>a, <2>3 DEF UnlinkStale, RemoveOrphan, Removed, Spared
    <3>2. model[i] = None
      BY <1>a, <2>3, <3>1 DEF UnlinkStale, RemoveOrphan, Spared, Documented
    <3>3. Shown' = [Shown EXCEPT ![i] = model[i]]
      BY <1>a, <3>1, <3>2 DEF Shown, TypeOK
    <3> QED
      BY <1>d, <2>3, <3>3 DEF UnlinkStale, RemoveOrphan, Site!Next
  <2> QED
    BY <2>1, <2>2, <2>3
<1> QED
  BY <1>1, <1>2

(* Seen from its pages alone, the incremental build implements DocsSite: every  *)
(* page moves in one step to what the model says, or goes with its item, and no *)
(* build ends before all of them have.                                          *)
THEOREM BuildImplementsSite == ASSUME Removable PROVE Spec => ImplementsSite
<1> QED
  BY SiteInvariant, SiteInit, SiteStep, PTL DEF Spec, ImplementsSite, Site!Spec
================================================================================
