--------------------------- MODULE IncrementalBuild ---------------------------
(***************************************************************************)
(* The incremental page build of @tsdoctor/rspress for ONE output          *)
(* directory: build-stages.ts decides, writes and sweeps the files,        *)
(* SnapshotService keeps one row per file it wrote, and generateApiDocs    *)
(* in build-program.ts orders the stages.  Builds repeat over an API       *)
(* model that is edited between them; the process may die inside one.      *)
(*                                                                         *)
(* A file is named by what it documents: an item for its page, a category  *)
(* for its _meta.json, RootMeta for the root _meta.json and Index for the  *)
(* landing page index.mdx.  Times are build numbers: `now` is the          *)
(* buildTime of the build that is running or ran last.                     *)
(***************************************************************************)
EXTENDS Integers, FiniteSets

CONSTANTS
  Items,       \* API items that can be documented; each owns one page
  Cats,        \* configured categories; each owns one _meta.json
  CategoryOf,  \* the category an item is filed under
  Contents,    \* page contents, records [body, front]: one field per hash
  RootMeta,    \* the root _meta.json
  Index,       \* the landing page index.mdx
  Generated,   \* the landing page text buildIndexPage emits
  Authored,    \* a landing page text somebody wrote by hand
  Torn,        \* the truncated content an interrupted write leaves behind
  None,        \* no page, no file, no row, no plan
  Faults,      \* the faults this instance may inject
  MaxBuilds    \* bound on the number of builds

AllFaults == {"crash",      \* the process dies inside a build
              "dbfail",     \* a snapshot statement fails (and is ignored)
              "fsread",     \* exists() or readFileString() fails
              "fsremove",   \* remove() or readDirectory() fails
              "losedb",     \* the snapshot database is deleted
              "losefile"}   \* a generated file is deleted

ASSUME ConstantsAssumption ==
  /\ CategoryOf \in [Items -> Cats]
  /\ Items \cap Cats = {}
  /\ {RootMeta, Index} \cap (Items \cup Cats) = {}
  /\ RootMeta # Index
  /\ \A c \in Contents \cup {Torn} : c = [body |-> c.body, front |-> c.front]
  /\ Torn \notin Contents \cup {Generated, Authored}
  /\ Faults \subseteq AllFaults
  /\ MaxBuilds \in Nat \ {0}

Files   == Items \cup Cats \cup {RootMeta, Index}
Times   == 0 .. MaxBuilds
Epoch   == 0          \* "2024-01-01T00:00:00.000Z", older than any build
Undated == 0          \* navigation files and index.mdx carry no dates

\* A navigation file that is not the JSON of any list.
TornList == {None}

\* What a file may hold, apart from its dates.
ContentsOf(f) ==
  IF f \in Items THEN Contents \cup {Torn}
  ELSE IF f \in Cats THEN (SUBSET Items) \cup {TornList}
  ELSE IF f = RootMeta THEN (SUBSET Cats) \cup {TornList}
  ELSE {Generated, Authored, Torn}

\* A file's text, and the same fields as a snapshot row (its hashes and dates).
TextOf(f) == [content : ContentsOf(f), pub : Times, mod : Times]
Plans     == [pub : Times, mod : Times, unchanged : BOOLEAN]

\* "Nothing there" is distinguishable from a text and from a plan.
ASSUME NoneAssumption ==
  /\ \A f \in Files : None \notin TextOf(f)
  /\ None \notin Plans
  /\ None \notin Items \cup Cats

VARIABLES
  model,      \* item -> its content in the API model, None when not documented
  disk,       \* file -> its text, None when it does not exist
  db,         \* file -> its committed snapshot row, None without one
  now,        \* buildTime of the running or the last build
  phase,      \* where the build stands
  snaps,      \* existingSnapshots: the rows loaded when the build began
  plan,       \* item -> the decision generateSinglePage took, None before it
  written,    \* items whose page left writeSingleFile
  metaRows,   \* navigation file -> the row still to be committed for it
  generated,  \* generatedFiles
  stale,      \* files whose row cleanupStale deleted, still to be unlinked
  orphans,    \* files the orphan scan found, still to be removed
  dropping,   \* orphans whose file is gone and whose row is not
  health      \* history: does the site reflect an undisturbed build?

vars == <<model, disk, db, now, phase, snaps, plan, written, metaRows,
          generated, stale, orphans, dropping, health>>
memory == <<snaps, plan, written, metaRows, generated, stale, orphans, dropping>>

Phases == {"idle", "pages", "root", "rootrow", "index", "cats",
           "commit", "stale", "unlink", "orphans"}
Healths == {"disturbed", "building", "settled", "rebuilding"}

--------------------------------------------------------------------------------
(* What a build of the current model should leave behind. *)

Documented == {i \in Items : model[i] # None}
Filed(c)   == {i \in Documented : CategoryOf[i] = c}
NonEmpty   == {c \in Cats : Filed(c) # {}}
Expected   == Documented \cup NonEmpty \cup {RootMeta, Index}

\* renderRootMeta and renderCategoryMeta list what received a page.
NavContent(f) == IF f = RootMeta THEN NonEmpty ELSE Filed(f)

--------------------------------------------------------------------------------
(* Decisions: the row and the disk in, dates and write-or-skip out. *)

Kept(pub, mod)  == [pub |-> pub, mod |-> mod, unchanged |-> TRUE]
Rewritten(pub)  == [pub |-> pub, mod |-> now, unchanged |-> FALSE]

\* Mutation of SameHashes: the frontmatter hash is forgotten.
SameBodyHash(a, b) == a.body = b.body

\* Both hashes must agree; the frontmatter hash ignores the dates.
SameHashes(a, b) == a.body = b.body /\ a.front = b.front

\* What reading a file back yields: its text, or nothing when the call fails.
ReadBack(f) == {disk[f]} \cup (IF "fsread" \in Faults THEN {None} ELSE {})
\* And what asking for it does: a call that fails says that it is not there.
Found(f) == {disk[f] # None} \cup (IF "fsread" \in Faults THEN {FALSE} ELSE {})

\* existingFrontmatter["article:published_time"]: generateFrontmatter puts the
\* dates under `head`, never at the top level, so the lookup finds nothing.
TopLevelTime(text) == None
OrBuildTime(t)     == IF t = None THEN now ELSE t

\* Mutations of PageDecision: a changed page keeps its modification date, or is
\* never compared with the file on disk.
PageDecisionKeepingModified(row, content, seen) ==
  IF row # None /\ ~SameHashes(row.content, content)
  THEN [pub |-> row.pub, mod |-> row.mod, unchanged |-> FALSE]
  ELSE IF row # None THEN Kept(row.pub, row.mod) ELSE Rewritten(now)

PageDecisionWithoutDisk(row, content, seen) ==
  IF row = None THEN Rewritten(now)
  ELSE IF SameHashes(row.content, content) THEN Kept(row.pub, row.mod)
  ELSE Rewritten(row.pub)

PageDecision(row, content, seen) ==
  IF row # None
  THEN IF SameHashes(row.content, content)
       THEN Kept(row.pub, row.mod)
       ELSE Rewritten(row.pub)
  ELSE IF seen = None
       THEN Rewritten(now)
       ELSE IF SameHashes(seen.content, content)
            THEN Kept(OrBuildTime(TopLevelTime(seen)), OrBuildTime(TopLevelTime(seen)))
            ELSE Rewritten(OrBuildTime(TopLevelTime(seen)))

\* Mutations of MetaDecision: a regenerated file dates from today, or a row is
\* trusted without comparing it.
MetaDecisionRedating(row, content, exists, seen) ==
  IF ~exists \/ row = None THEN Rewritten(now)
  ELSE IF row.content = content THEN Kept(row.pub, row.mod)
  ELSE Rewritten(row.pub)

MetaDecisionTrusting(row, content, exists, seen) ==
  IF exists /\ row # None THEN Kept(row.pub, row.mod)
  ELSE Rewritten(now)

\* The root and the category _meta.json files follow one rule: the file must
\* exist before its row is trusted, and a file without a row dates from Epoch.
MetaDecision(row, content, exists, seen) ==
  IF ~exists
  THEN Rewritten(IF row = None THEN now ELSE row.pub)
  ELSE IF row # None
       THEN IF row.content = content
            THEN Kept(row.pub, row.mod)
            ELSE Rewritten(row.pub)
       ELSE IF seen # None /\ seen.content = content
            THEN Kept(Epoch, Epoch)
            ELSE Rewritten(Epoch)

Row(content, p) == [content |-> content, pub |-> p.pub, mod |-> p.mod]
NavText(f)      == [content |-> NavContent(f), pub |-> Undated, mod |-> Undated]
Landing(t)      == [content |-> t, pub |-> Undated, mod |-> Undated]

--------------------------------------------------------------------------------
(* The stages of a build. *)

NoMemory ==
  /\ snaps     = [f \in Files |-> None]
  /\ plan      = [i \in Items |-> None]
  /\ written   = {}
  /\ metaRows  = [f \in Cats \cup {RootMeta} |-> None]
  /\ generated = {}
  /\ stale     = {}
  /\ orphans   = {}
  /\ dropping  = {}

Init ==
  /\ model \in [Items -> Contents \cup {None}]
  /\ disk   = [f \in Files |-> None]
  /\ db     = [f \in Files |-> None]
  /\ now    = 0
  /\ phase  = "idle"
  /\ health = "disturbed"
  /\ NoMemory

\* The history variable: a fault or an edit disturbs the site until the next
\* build that nothing disturbs.
Disturb == health' = "disturbed"
DisturbIf(fault) == health' = IF fault THEN "disturbed" ELSE health

\* generateApiDocs stamps buildTime and loads the rows of its output directory.
BeginBuild ==
  /\ phase = "idle" /\ now < MaxBuilds
  /\ now'    = now + 1
  /\ snaps'  = db
  /\ phase'  = "pages"
  /\ health' = IF health = "settled" THEN "rebuilding" ELSE "building"
  /\ UNCHANGED <<model, disk, db, plan, written, metaRows, generated, stale,
                 orphans, dropping>>

\* Mutation of GeneratePage: an unsupported kind is not filtered out.
GenerateAnyPage(i) ==
  /\ phase = "pages" /\ plan[i] = None
  /\ plan' = [plan EXCEPT ![i] = PageDecision(snaps[i], model[i], None)]
  /\ UNCHANGED <<model, disk, db, now, phase, snaps, written, metaRows,
                 generated, stale, orphans, dropping, health>>

\* The disk is read only when the row is missing.
GeneratePage(i) ==
  /\ phase = "pages" /\ i \in Documented /\ plan[i] = None
  /\ \E seen \in (IF snaps[i] = None THEN ReadBack(i) ELSE {None}) :
       /\ plan' = [plan EXCEPT ![i] = PageDecision(snaps[i], model[i], seen)]
       /\ DisturbIf(snaps[i] = None /\ seen # disk[i])
  /\ UNCHANGED <<model, disk, db, now, phase, snaps, written, metaRows,
                 generated, stale, orphans, dropping>>

\* Mutation of WritePage: a file that exists is not overwritten.
WriteMissingPage(i) ==
  /\ phase = "pages" /\ plan[i] # None /\ i \notin written
  /\ written' = written \cup {i}
  /\ disk' = IF plan[i].unchanged \/ disk[i] # None
             THEN disk
             ELSE [disk EXCEPT ![i] = Row(model[i], plan[i])]
  /\ UNCHANGED <<model, db, now, phase, snaps, plan, metaRows, generated,
                 stale, orphans, dropping, health>>

WritePage(i) ==
  /\ phase = "pages" /\ plan[i] # None /\ i \notin written
  /\ written' = written \cup {i}
  /\ disk' = IF plan[i].unchanged
             THEN disk
             ELSE [disk EXCEPT ![i] = Row(model[i], plan[i])]
  /\ UNCHANGED <<model, db, now, phase, snaps, plan, metaRows, generated,
                 stale, orphans, dropping, health>>

\* The page stream has drained: generatedFiles starts from its results.
EndPages ==
  /\ phase = "pages" /\ written = Documented
  /\ generated' = Documented
  /\ phase' = "root"
  /\ UNCHANGED <<model, disk, db, now, snaps, plan, written, metaRows, stale,
                 orphans, dropping, health>>

\* Decide and write one navigation file; `keep` says whether an unchanged file
\* still leaves a row to upsert (the root does, a category does not).
WriteMeta(f, keep) ==
  \E exists \in Found(f), seen \in ReadBack(f) :
    LET p == MetaDecision(snaps[f], NavContent(f), exists, seen)
    IN  /\ disk' = IF p.unchanged THEN disk ELSE [disk EXCEPT ![f] = NavText(f)]
        /\ metaRows' = [metaRows EXCEPT ![f] =
                          IF p.unchanged /\ ~keep THEN None ELSE Row(NavContent(f), p)]
        /\ generated' = generated \cup {f}
        /\ DisturbIf(exists # (disk[f] # None) \/ seen # disk[f])

WriteRootMeta ==
  /\ phase = "root"
  /\ WriteMeta(RootMeta, TRUE)
  /\ phase' = "rootrow"
  /\ UNCHANGED <<model, db, now, snaps, plan, written, stale, orphans, dropping>>

\* A transaction over rows: all of them, or none when it fails (Effect.ignore).
Commit(rows, files) ==
  \/ /\ db' = [f \in Files |-> IF f \in files THEN rows[f] ELSE db[f]]
     /\ UNCHANGED health
  \/ /\ "dbfail" \in Faults /\ files # {}
     /\ UNCHANGED db
     /\ Disturb

UpsertRootRow ==
  /\ phase = "rootrow"
  /\ Commit(metaRows, {RootMeta})
  /\ phase' = "index"
  /\ UNCHANGED <<model, disk, now, snaps, plan, written, metaRows, generated,
                 stale, orphans, dropping>>

\* Mutation of WriteIndex: the landing page is not counted as generated.
WriteIndexUncounted ==
  /\ phase = "index"
  /\ disk' = IF disk[Index] = None THEN [disk EXCEPT ![Index] = Landing(Generated)] ELSE disk
  /\ phase' = "cats"
  /\ UNCHANGED <<model, db, now, snaps, plan, written, metaRows, generated,
                 stale, orphans, dropping, health>>

\* index.mdx is written once and never again: it may be the reader's own page.
WriteIndex ==
  /\ phase = "index"
  /\ \E seen \in ReadBack(Index) :
       /\ disk' = IF seen = None THEN [disk EXCEPT ![Index] = Landing(Generated)] ELSE disk
       /\ DisturbIf(seen # disk[Index])
  /\ generated' = generated \cup {Index}
  /\ phase' = "cats"
  /\ UNCHANGED <<model, db, now, snaps, plan, written, metaRows, stale, orphans,
                 dropping>>

WriteCatMeta(c) ==
  /\ phase = "cats" /\ c \in NonEmpty \ generated
  /\ WriteMeta(c, FALSE)
  /\ UNCHANGED <<model, db, now, phase, snaps, plan, written, stale, orphans,
                 dropping>>

CommitCatRows ==
  /\ phase = "cats" /\ NonEmpty \subseteq generated
  /\ Commit(metaRows, {c \in Cats : metaRows[c] # None})
  /\ phase' = "commit"
  /\ UNCHANGED <<model, disk, now, snaps, plan, written, metaRows, generated,
                 stale, orphans, dropping>>

\* Mutation of CommitPages: pages that were skipped are recorded too.
CommitEveryPage ==
  /\ phase = "commit"
  /\ Commit([i \in Documented |-> Row(model[i], plan[i])], Documented)
  /\ phase' = "stale"
  /\ UNCHANGED <<model, disk, now, snaps, plan, written, metaRows, generated,
                 stale, orphans, dropping>>

\* cleanupAndCommit, step 1: rows for the pages this build wrote.
CommitPages ==
  /\ phase = "commit"
  /\ LET changed == {i \in Documented : ~plan[i].unchanged}
     IN  Commit([i \in changed |-> Row(model[i], plan[i])], changed)
  /\ phase' = "stale"
  /\ UNCHANGED <<model, disk, now, snaps, plan, written, metaRows, generated,
                 stale, orphans, dropping>>

\* Step 2, cleanupStale: rows of files this build did not generate go one by
\* one.  A failing statement loses the list of those already deleted.
StaleRows == {f \in Files : db[f] # None} \ generated

DeleteStaleRow(f) ==
  /\ phase = "stale" /\ f \in StaleRows
  /\ db'    = [db EXCEPT ![f] = None]
  /\ stale' = stale \cup {f}
  /\ UNCHANGED <<model, disk, now, phase, snaps, plan, written, metaRows,
                 generated, orphans, dropping, health>>

EndStale ==
  /\ phase = "stale"
  /\ \/ StaleRows = {} /\ UNCHANGED <<stale, health>>
     \/ "dbfail" \in Faults /\ stale' = {} /\ Disturb
  /\ phase' = "unlink"
  /\ UNCHANGED <<model, disk, db, now, snaps, plan, written, metaRows, generated,
                 orphans, dropping>>

\* remove() under Effect.ignore: the file goes, or stays when the call fails.
Removed(f) ==
  \/ disk' = [disk EXCEPT ![f] = None] /\ UNCHANGED health
  \/ "fsremove" \in Faults /\ disk[f] # None /\ UNCHANGED disk /\ Disturb

UnlinkStale(f) ==
  /\ phase = "unlink" /\ f \in stale
  /\ Removed(f)
  /\ stale' = stale \ {f}
  /\ UNCHANGED <<model, db, now, phase, snaps, plan, written, metaRows,
                 generated, orphans, dropping>>

\* Mutation of ScanOrphans: only files with a row are candidates.
ScanRecordedOrphans ==
  /\ phase = "unlink" /\ stale = {}
  /\ orphans' = {f \in Files : disk[f] # None /\ snaps[f] # None} \ generated
  /\ phase' = "orphans"
  /\ UNCHANGED <<model, disk, db, now, snaps, plan, written, metaRows, generated,
                 stale, dropping, health>>

\* Step 3: whatever is on disk and was not generated is an orphan, row or no row.
ScanOrphans ==
  /\ phase = "unlink" /\ stale = {}
  /\ \/ orphans' = {f \in Files : disk[f] # None} \ generated /\ UNCHANGED health
     \/ "fsremove" \in Faults /\ orphans' = {} /\ Disturb
  /\ phase' = "orphans"
  /\ UNCHANGED <<model, disk, db, now, snaps, plan, written, metaRows, generated,
                 stale, dropping>>

RemoveOrphan(f) ==
  /\ phase = "orphans" /\ f \in orphans
  /\ Removed(f)
  /\ orphans'  = orphans \ {f}
  /\ dropping' = dropping \cup {f}
  /\ UNCHANGED <<model, db, now, phase, snaps, plan, written, metaRows,
                 generated, stale>>

DropOrphanRow(f) ==
  /\ phase = "orphans" /\ f \in dropping
  /\ Commit([g \in {f} |-> None], {f})
  /\ dropping' = dropping \ {f}
  /\ UNCHANGED <<model, disk, now, phase, snaps, plan, written, metaRows,
                 generated, stale, orphans>>

ForgetMemory ==
  /\ snaps'     = [f \in Files |-> None]
  /\ plan'      = [i \in Items |-> None]
  /\ written'   = {}
  /\ metaRows'  = [f \in Cats \cup {RootMeta} |-> None]
  /\ generated' = {}
  /\ stale'     = {}
  /\ orphans'   = {}
  /\ dropping'  = {}

FinishBuild ==
  /\ phase = "orphans" /\ orphans = {} /\ dropping = {}
  /\ phase' = "idle"
  /\ health' = IF health = "disturbed" THEN "disturbed" ELSE "settled"
  /\ ForgetMemory
  /\ UNCHANGED <<model, disk, db, now>>

--------------------------------------------------------------------------------
(* What happens around a build. *)

\* The author edits, adds or removes one API item and rebuilds the model.
EditModel(i, content) ==
  /\ phase = "idle" /\ model[i] # content
  /\ model' = [model EXCEPT ![i] = content]
  /\ Disturb
  /\ UNCHANGED <<disk, db, now, phase>> /\ UNCHANGED memory

\* The author replaces the generated landing page by one of their own.
AuthorIndex ==
  /\ phase = "idle" /\ disk[Index] # Landing(Authored)
  /\ disk' = [disk EXCEPT ![Index] = Landing(Authored)]
  /\ UNCHANGED <<model, db, now, phase, health>> /\ UNCHANGED memory

\* A fresh checkout with the pages committed and the database not, or a wiped
\* .api-docs directory.
LoseDb ==
  /\ "losedb" \in Faults /\ phase = "idle"
  /\ db' = [f \in Files |-> None]
  /\ UNCHANGED <<model, disk, now, phase, health>> /\ UNCHANGED memory

\* A generated file is deleted, or a checkout carries the database without it.
LoseFile(f) ==
  /\ "losefile" \in Faults /\ phase = "idle" /\ disk[f] # None
  /\ disk' = [disk EXCEPT ![f] = None]
  /\ Disturb
  /\ UNCHANGED <<model, db, now, phase>> /\ UNCHANGED memory

\* Files a write may be half way through: pages and categories are written
\* several at a time.
Rewriting(f) == \E exists \in Found(f), seen \in ReadBack(f) :
                  ~MetaDecision(snaps[f], NavContent(f), exists, seen).unchanged
BeingWritten ==
  CASE phase = "pages" -> {i \in Documented \ written : plan[i] # None /\ ~plan[i].unchanged}
    [] phase = "root"  -> {f \in {RootMeta} : Rewriting(f)}
    [] phase = "index" -> {f \in {Index} : None \in ReadBack(f)}
    [] phase = "cats"  -> {c \in NonEmpty \ generated : Rewriting(c)}
    [] OTHER -> {}
Half(f) == Landing(IF f \in Cats \cup {RootMeta} THEN TornList ELSE Torn)

\* The process dies; a defect (Effect.orDie) ends the build the same way.
Crash ==
  /\ "crash" \in Faults /\ phase # "idle"
  /\ \E torn \in SUBSET BeingWritten :
       disk' = [f \in Files |-> IF f \in torn THEN Half(f) ELSE disk[f]]
  /\ phase' = "idle"
  /\ Disturb
  /\ ForgetMemory
  /\ UNCHANGED <<model, db, now>>

--------------------------------------------------------------------------------
\* Work items go through both stages beside one another, the unchanged ones too.
Pipeline == \E i \in Items : GeneratePage(i) \/ WritePage(i)

BuildStep ==
  \/ BeginBuild
  \/ Pipeline
  \/ EndPages
  \/ WriteRootMeta
  \/ UpsertRootRow
  \/ WriteIndex
  \/ \E c \in Cats : WriteCatMeta(c)
  \/ CommitCatRows
  \/ CommitPages
  \/ \E f \in Files : DeleteStaleRow(f) \/ UnlinkStale(f)
  \/ EndStale
  \/ ScanOrphans
  \/ \E f \in Files : RemoveOrphan(f) \/ DropOrphanRow(f)
  \/ FinishBuild

Environment ==
  \/ \E i \in Items, content \in Contents \cup {None} : EditModel(i, content)
  \/ AuthorIndex
  \/ LoseDb
  \/ \E f \in Files : LoseFile(f)
  \/ Crash

Next == BuildStep \/ Environment

Spec == Init /\ [][Next]_vars

--------------------------------------------------------------------------------
(* Properties. *)

\* Every variable keeps its shape.
TypeOK ==
  /\ model \in [Items -> Contents \cup {None}]
  /\ DOMAIN disk = Files /\ \A f \in Files : disk[f] \in TextOf(f) \cup {None}
  /\ DOMAIN db = Files /\ \A f \in Files : db[f] \in TextOf(f) \cup {None}
  /\ now \in Times
  /\ phase \in Phases
  /\ DOMAIN snaps = Files /\ \A f \in Files : snaps[f] \in TextOf(f) \cup {None}
  /\ plan \in [Items -> Plans \cup {None}]
  /\ \A i \in Items : plan[i] # None => i \in Documented
  /\ written \subseteq Documented
  /\ DOMAIN metaRows = Cats \cup {RootMeta}
  /\ \A f \in Cats \cup {RootMeta} : metaRows[f] \in TextOf(f) \cup {None}
  /\ generated \subseteq Files
  /\ stale \subseteq Files
  /\ orphans \subseteq Files
  /\ dropping \subseteq Files
  /\ health \in Healths

Settled == phase = "idle" /\ health = "settled"

Current(f) ==
  /\ disk[f] # None
  /\ disk[f].content = IF f \in Items THEN model[f] ELSE NavContent(f)

\* Once a build completed and nothing touched the inputs, every documented item
\* has a page with exactly the content of the model: the hash comparison of
\* generateSinglePage may skip a write but never a needed one.
PagesCurrent == Settled => \A i \in Documented : Current(i)

\* ... and the sidebar lists exactly the pages that exist, category by category
\* (writeMetadata).
NavigationCurrent ==
  Settled => /\ Current(RootMeta)
             /\ \A c \in NonEmpty : Current(c)
             /\ disk[Index] # None

\* A build that ran undisturbed leaves no page, no _meta.json and no row of an
\* item or category that is gone, whatever earlier builds failed to delete
\* (cleanupAndCommit sweeps by row AND by directory listing).
NoLeftovers ==
  Settled => \A f \in Files \ Expected : disk[f] = None /\ db[f] = None

\* A page keeps its publication date for as long as it exists.
PublishedTimeKept ==
  [][\A i \in Items : disk[i] # None /\ disk'[i] # None
       => disk'[i].pub = disk[i].pub]_vars

\* The publication date a row records never moves while the row exists.
RecordedDateKept ==
  [][\A f \in Files : db[f] # None /\ db'[f] # None => db'[f].pub = db[f].pub]_vars

\* A page that is rewritten with the content it had keeps its modification date:
\* search engines are not told of changes that did not happen.
ModifiedTimeHonest ==
  [][\A i \in Items : disk[i] # None /\ disk'[i] # None
       => (disk'[i].mod # disk[i].mod => disk'[i].content # disk[i].content)]_vars

\* A page whose content changes gets a later modification date, and its dates
\* never run backwards or past the build.
ContentChangeAdvancesModified ==
  [][\A i \in Items :
       disk[i] # None /\ disk'[i] # None /\ disk'[i].content \notin {disk[i].content, Torn}
         => disk'[i].mod > disk[i].mod /\ disk'[i].pub <= disk'[i].mod]_vars

\* The dates of a page follow its content: what was published stays published
\* since then, and what changes is later.
DatesFollowContent == RecordedDateKept /\ ContentChangeAdvancesModified

\* Building a settled site again touches no file, with or without its database.
RebuildIsQuiet == [][health = "rebuilding" => disk' = disk]_vars

\* A row is recorded only for content and dates the file already holds, so a
\* crash between the write and the commit can only make a row too old.
RowsNeverLead ==
  [][\A f \in Files : db'[f] # db[f] /\ db'[f] # None
       => /\ disk[f] # None
          /\ disk[f].content = db'[f].content
          /\ f \in Items => disk[f] = db'[f]]_vars

\* No build ever replaces or deletes a landing page that exists.
LandingPagePreserved ==
  [][phase # "idle" /\ disk[Index] # None => disk'[Index] = disk[Index]]_vars

\* Seen from its pages, the build is DocsSite: a page only ever changes to what
\* the model says, and no build ends before every page has.
Site == INSTANCE DocsSite WITH
          site     <- [i \in Items |-> IF disk[i] = None THEN None ELSE disk[i].content],
          building <- phase # "idle"

ImplementsSite == Site!Spec
================================================================================
