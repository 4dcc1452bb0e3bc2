----------------------------- MODULE TypeRegistry -----------------------------
(***************************************************************************)
(* The registry of external type declarations: TypeRegistry's stale-vs-    *)
(* miss ladder over TypeCache's two planes, a directory per package and a  *)
(* metadata row with a time to live.  Loads run concurrently and read the  *)
(* directory file by file outside any lock; one semaphore serialises the   *)
(* commits of fetched packages, clearCache and pruneCache.  Every package  *)
(* is pinned to a version, so the content behind a path never changes and  *)
(* a directory is known by the set of files it holds.                      *)
(***************************************************************************)
EXTENDS FiniteSets

CONSTANTS
  Pkgs,     \* pinned packages
  Files,    \* the files a package publishes, its manifest included
  Loaders,  \* fibers inside getPackageVfs
  Keepers,  \* fibers inside clearCache or pruneCache
  None,     \* no directory, no row, nobody
  Faults    \* the faults this instance may inject

AllFaults == {"net",      \* the CDN cannot serve the package
              "fs",       \* a file system or metadata operation fails
              "crash"}    \* the process dies

ASSUME ConstantsAssumption ==
  /\ Files # {}
  /\ Loaders \cap Keepers = {}
  /\ None \notin Loaders \cup Keepers
  /\ \A tree \in SUBSET Files : tree # None
  /\ None \notin {"live", "expired"}
  /\ Faults \subseteq AllFaults

VARIABLES
  live,     \* package -> files in <cacheDir>/<name>/<version>, None when absent
  retired,  \* package -> files in the sibling .<version>.old, None when absent
  meta,     \* package -> its metadata row: "live", "expired" or None
  lock,     \* the fiber holding the mutations semaphore, or None
  pc,       \* loader -> where it stands in getPackageVfs
  want,     \* loader -> the package and the autoFetch option of its call
  fresh,    \* loader -> readMetadata found a live row
  listed,   \* loader -> the files getVfs listed
  got,      \* loader -> the files getVfs has read
  todo      \* keeper -> packages whose directory it still has to remove

vars == <<live, retired, meta, lock, pc, want, fresh, listed, got, todo>>
disk == <<live, retired>>
reading == <<listed, got>>

Trees   == SUBSET Files
Calls   == [pkg : Pkgs, auto : BOOLEAN]
Pcs     == {"idle", "meta", "exists", "fetch", "commit", "retire", "promote",
            "cleanup", "record", "list", "read", "served", "failed"}
Writing == {"retire", "promote", "cleanup", "record"}   \* inside the semaphore

Init ==
  /\ live    = [p \in Pkgs |-> None]
  /\ retired = [p \in Pkgs |-> None]
  /\ meta    = [p \in Pkgs |-> None]
  /\ lock    = None
  /\ pc      = [l \in Loaders |-> "idle"]
  /\ want    \in [Loaders -> Calls]
  /\ fresh   = [l \in Loaders |-> FALSE]
  /\ listed  = [l \in Loaders |-> {}]
  /\ got     = [l \in Loaders |-> {}]
  /\ todo    = [k \in Keepers |-> {}]

Pkg(l)     == want[l].pkg
OnDisk(p)  == IF live[p] = None THEN {} ELSE live[p]
Goto(l, s) == pc' = [pc EXCEPT ![l] = s]

\* The step of loader l fails with a typed error; a held permit is released.
Fail(l) ==
  /\ Goto(l, "failed")
  /\ lock' = IF lock = l THEN None ELSE lock
FailIf(fault, l) == fault \in Faults /\ Fail(l)

--------------------------------------------------------------------------------
(* One load: classify, fetch when needed, read the directory back. *)

Request(l, call) ==
  /\ pc[l] = "idle"
  /\ want' = [want EXCEPT ![l] = call]
  /\ Goto(l, "meta")
  /\ UNCHANGED <<disk, meta, lock, fresh, reading, todo>>

\* An expired row is evicted by the read that meets it.
ReadMetadata(l) ==
  /\ pc[l] = "meta"
  /\ \/ /\ fresh' = [fresh EXCEPT ![l] = meta[Pkg(l)] = "live"]
        /\ meta'  = [meta EXCEPT ![Pkg(l)] = IF @ = "expired" THEN None ELSE @]
        /\ Goto(l, "exists")
        /\ UNCHANGED lock
     \/ FailIf("fs", l) /\ UNCHANGED <<fresh, meta>>
  /\ UNCHANGED <<disk, want, reading, todo>>

\* Hit: a live row and files.  Stale: files only.  Miss: everything else.
Classify(l) ==
  /\ pc[l] = "exists"
  /\ LET hit   == fresh[l] /\ live[Pkg(l)] # None
         stale == ~fresh[l] /\ live[Pkg(l)] # None
     IN  \/ /\ hit \/ (stale /\ ~want[l].auto)
            /\ Goto(l, "list") /\ UNCHANGED lock
         \/ /\ ~hit /\ want[l].auto
            /\ Goto(l, "fetch") /\ UNCHANGED lock
         \/ /\ ~hit /\ ~stale /\ ~want[l].auto
            /\ Fail(l)
         \/ FailIf("fs", l)
  /\ UNCHANGED <<disk, meta, want, fresh, reading, todo>>

\* The manifest and the declaration files arrive, outside the semaphore.
Fetch(l) ==
  /\ pc[l] = "fetch"
  /\ \/ Goto(l, "commit") /\ UNCHANGED lock
     \/ FailIf("net", l)
  /\ UNCHANGED <<disk, meta, want, fresh, reading, todo>>

\* Mutation of Stage: the files go straight into the live directory.
StageInPlace(l) ==
  /\ pc[l] = "commit" /\ lock = None
  /\ \E written \in Trees : live' = [live EXCEPT ![Pkg(l)] = written]
  /\ \/ lock' = l /\ Goto(l, "retire")
     \/ "fs" \in Faults /\ UNCHANGED lock /\ Goto(l, "failed")
  /\ UNCHANGED <<retired, meta, want, fresh, reading, todo>>

\* AtomicDirectory.write, first half: put back what a crash left retired, clear
\* what a failed cleanup left behind, and stage the new tree beside the old one.
Stage(l) ==
  /\ pc[l] = "commit" /\ lock = None
  /\ live'    = [live EXCEPT ![Pkg(l)] = IF @ = None THEN retired[Pkg(l)] ELSE @]
  /\ retired' = [retired EXCEPT ![Pkg(l)] = None]
  /\ \/ lock' = l /\ Goto(l, "retire")
     \/ "fs" \in Faults /\ UNCHANGED lock /\ Goto(l, "failed")
  /\ UNCHANGED <<meta, want, fresh, reading, todo>>

\* The two renames, with the live directory absent in between.
Retire(l) ==
  /\ pc[l] = "retire"
  /\ retired' = [retired EXCEPT ![Pkg(l)] = live[Pkg(l)]]
  /\ live'    = [live EXCEPT ![Pkg(l)] = None]
  /\ Goto(l, "promote")
  /\ UNCHANGED <<meta, lock, want, fresh, reading, todo>>

Promote(l) ==
  /\ pc[l] = "promote"
  /\ live' = [live EXCEPT ![Pkg(l)] = Files]
  /\ Goto(l, "cleanup")
  /\ UNCHANGED <<retired, meta, lock, want, fresh, reading, todo>>

\* Failing to remove the retired tree is not a failure of the write.
Cleanup(l) ==
  /\ pc[l] = "cleanup"
  /\ \/ retired' = [retired EXCEPT ![Pkg(l)] = None]
     \/ "fs" \in Faults /\ UNCHANGED retired
  /\ Goto(l, "record")
  /\ UNCHANGED <<live, meta, lock, want, fresh, reading, todo>>

\* Mutation of Record: a failing metadata write keeps the permit.
RecordKeepingPermit(l) ==
  /\ pc[l] = "record"
  /\ \/ /\ meta' = [meta EXCEPT ![Pkg(l)] = "live"]
        /\ lock' = None
        /\ Goto(l, "list")
     \/ "fs" \in Faults /\ Goto(l, "failed") /\ UNCHANGED <<meta, lock>>
  /\ UNCHANGED <<disk, want, fresh, reading, todo>>

Record(l) ==
  /\ pc[l] = "record"
  /\ \/ /\ meta' = [meta EXCEPT ![Pkg(l)] = "live"]
        /\ lock' = None
        /\ Goto(l, "list")
     \/ FailIf("fs", l) /\ UNCHANGED meta
  /\ UNCHANGED <<disk, want, fresh, reading, todo>>

\* getVfs: list the live directory, then read what was listed.
List(l) ==
  /\ pc[l] = "list"
  /\ \/ /\ live[Pkg(l)] # None
        /\ listed' = [listed EXCEPT ![l] = live[Pkg(l)]]
        /\ Goto(l, "read") /\ UNCHANGED lock
     \/ /\ live[Pkg(l)] = None \/ "fs" \in Faults
        /\ Fail(l) /\ UNCHANGED listed
  /\ UNCHANGED <<disk, meta, want, fresh, got, todo>>

ReadFile(l, f) ==
  /\ pc[l] = "read" /\ f \in listed[l] \ got[l]
  /\ \/ /\ f \in OnDisk(Pkg(l))
        /\ got' = [got EXCEPT ![l] = @ \cup {f}]
        /\ UNCHANGED <<pc, lock>>
     \/ /\ f \notin OnDisk(Pkg(l)) \/ "fs" \in Faults
        /\ Fail(l) /\ UNCHANGED got
  /\ UNCHANGED <<disk, meta, want, fresh, listed, todo>>

Serve(l) ==
  /\ pc[l] = "read" /\ got[l] = listed[l]
  /\ Goto(l, "served")
  /\ UNCHANGED <<disk, meta, lock, want, fresh, reading, todo>>

\* The caller takes the result; the fiber is free for the next call.
Return(l) ==
  /\ pc[l] \in {"served", "failed"}
  /\ Goto(l, "idle")
  /\ fresh'  = [fresh EXCEPT ![l] = FALSE]
  /\ listed' = [listed EXCEPT ![l] = {}]
  /\ got'    = [got EXCEPT ![l] = {}]
  /\ UNCHANGED <<disk, meta, lock, want, todo>>

--------------------------------------------------------------------------------
(* clearCache and pruneCache: rows first, then directories. *)

\* Mutation of ClearMetadata: clearCache does not wait for the semaphore.
ClearWithoutPermit(k, p) ==
  /\ todo[k] = {}
  /\ meta' = [meta EXCEPT ![p] = None]
  /\ todo' = [todo EXCEPT ![k] = {p}]
  /\ UNCHANGED <<disk, lock, pc, want, fresh, reading>>

ClearMetadata(k, p) ==
  /\ lock = None /\ lock' = k
  /\ meta' = [meta EXCEPT ![p] = None]
  /\ todo' = [todo EXCEPT ![k] = {p}]
  /\ UNCHANGED <<disk, pc, want, fresh, reading>>

\* Mutation of PruneMetadata: every directory is swept, expired or not.
PruneEverything(k) ==
  /\ lock = None /\ lock' = k
  /\ meta' = [p \in Pkgs |-> IF meta[p] = "expired" THEN None ELSE meta[p]]
  /\ todo' = [todo EXCEPT ![k] = Pkgs]
  /\ UNCHANGED <<disk, pc, want, fresh, reading>>

PruneMetadata(k) ==
  /\ lock = None /\ lock' = k
  /\ LET expired == {p \in Pkgs : meta[p] = "expired"}
     IN  /\ meta' = [p \in Pkgs |-> IF p \in expired THEN None ELSE meta[p]]
         /\ todo' = [todo EXCEPT ![k] = expired]
  /\ UNCHANGED <<disk, pc, want, fresh, reading>>

\* A recursive removal unlinks file by file.
RemoveFile(k, p, f) ==
  /\ lock = k /\ p \in todo[k] /\ f \in OnDisk(p)
  /\ live' = [live EXCEPT ![p] = @ \ {f}]
  /\ UNCHANGED <<retired, meta, lock, pc, want, fresh, reading, todo>>

RemoveDirectory(k, p) ==
  /\ lock = k /\ p \in todo[k] /\ OnDisk(p) = {}
  /\ live' = [live EXCEPT ![p] = None]
  /\ todo' = [todo EXCEPT ![k] = @ \ {p}]
  /\ UNCHANGED <<retired, meta, lock, pc, want, fresh, reading>>

\* clearCache fails, pruneCache swallows it: either way the rest stays on disk.
RemovalFails(k, p) ==
  /\ "fs" \in Faults
  /\ lock = k /\ p \in todo[k]
  /\ todo' = [todo EXCEPT ![k] = @ \ {p}]
  /\ UNCHANGED <<disk, meta, lock, pc, want, fresh, reading>>

ReleaseKeeper(k) ==
  /\ lock = k /\ todo[k] = {}
  /\ lock' = None
  /\ UNCHANGED <<disk, meta, pc, want, fresh, reading, todo>>

--------------------------------------------------------------------------------
(* The world outside. *)

Expire(p) ==
  /\ meta[p] = "live"
  /\ meta' = [meta EXCEPT ![p] = "expired"]
  /\ UNCHANGED <<disk, lock, pc, want, fresh, reading, todo>>

\* The process dies: fibers and the semaphore go, both planes stay.
Crash ==
  /\ "crash" \in Faults
  /\ lock'   = None
  /\ pc'     = [l \in Loaders |-> "idle"]
  /\ fresh'  = [l \in Loaders |-> FALSE]
  /\ listed' = [l \in Loaders |-> {}]
  /\ got'    = [l \in Loaders |-> {}]
  /\ todo'   = [k \in Keepers |-> {}]
  /\ UNCHANGED <<disk, meta, want>>

--------------------------------------------------------------------------------
\* Everything a loader does once it was called, up to its result.
LoadStep(l) ==
  \/ ReadMetadata(l)
  \/ Classify(l)
  \/ Fetch(l)
  \/ Stage(l)
  \/ Retire(l)
  \/ Promote(l)
  \/ Cleanup(l)
  \/ Record(l)
  \/ List(l)
  \/ \E f \in Files : ReadFile(l, f)
  \/ Serve(l)

\* Everything a keeper does once it holds the semaphore.
KeepStep(k) ==
  \/ \E p \in Pkgs, f \in Files : RemoveFile(k, p, f)
  \/ \E p \in Pkgs : RemoveDirectory(k, p) \/ RemovalFails(k, p)
  \/ ReleaseKeeper(k)

Next ==
  \/ \E l \in Loaders : LoadStep(l) \/ Return(l)
  \/ \E l \in Loaders, call \in Calls : Request(l, call)
  \/ \E k \in Keepers : KeepStep(k) \/ PruneMetadata(k)
  \/ \E k \in Keepers, p \in Pkgs : ClearMetadata(k, p)
  \/ \E p \in Pkgs : Expire(p)
  \/ Crash

Spec == Init /\ [][Next]_vars

\* A fiber that can run does run, and the semaphore serves its waiters in order:
\* a commit that keeps finding it free gets it.
Fairness ==
  /\ \A l \in Loaders : WF_vars(LoadStep(l)) /\ SF_vars(Stage(l))
  /\ \A k \in Keepers : WF_vars(KeepStep(k))

FairSpec == Spec /\ Fairness

--------------------------------------------------------------------------------
(* Properties. *)

\* Every variable keeps its shape.
TypeOK ==
  /\ live \in [Pkgs -> {None} \cup Trees]
  /\ retired \in [Pkgs -> {None} \cup Trees]
  /\ meta \in [Pkgs -> {"live", "expired", None}]
  /\ lock \in Loaders \cup Keepers \cup {None}
  /\ pc \in [Loaders -> Pcs]
  /\ want \in [Loaders -> Calls]
  /\ fresh \in [Loaders -> BOOLEAN]
  /\ listed \in [Loaders -> Trees]
  /\ got \in [Loaders -> Trees]
  /\ todo \in [Keepers -> SUBSET Pkgs]

\* The rows never promise files that are not there: behind live metadata stands
\* the complete package, at worst under the name it was retired to a moment or
\* a crash ago.  clearCache, pruneCache and commits interleave, fail and die
\* half way (the order in TypeCache.remove, the semaphore in fetchAndCacheImpl).
NoPhantomHit ==
  \A p \in Pkgs : meta[p] = "live" =>
    live[p] = Files \/ (live[p] = None /\ retired[p] = Files)

\* Where nothing removes packages, a load that succeeds returns every file the
\* package publishes: no reader observes part of a commit, not after a crash
\* and not with a concurrent commit of the same package (writePackage).
ServedWhole ==
  \A l \in Loaders : pc[l] = "served" => got[l] = Files

\* Two commits, or a commit and a removal, never overlap, and the holder of the
\* semaphore always is the fiber that is changing the cache.
OneMutatorAtATime ==
  /\ \A l \in Loaders : pc[l] \in Writing <=> lock = l
  /\ \A k \in Keepers : todo[k] # {} => lock = k

\* Every load ends, if only because the process died: the semaphore is released
\* on every path out of a commit, a removal or a failure, and nobody waits for
\* it forever.
LoadsEnd ==
  \A l \in Loaders : pc[l] = "meta" ~> pc[l] \in {"served", "failed", "idle"}

\* With fetching enabled, nothing failing and nothing cleared, a load succeeds: a
\* reader that meets the moment without a live directory treats it as a miss.
AutoFetchSucceeds ==
  \A l \in Loaders : pc[l] = "failed" => ~want[l].auto
================================================================================
