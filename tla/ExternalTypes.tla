----------------------------- MODULE ExternalTypes -----------------------------
(* How the declarations of the packages a site depends on get into its virtual   *)
(* file system: each reference is resolved to a published version, then each     *)
(* package is loaded from the cache or, request by request, from the CDN, several *)
(* at a time; those that fail are left out. A load asks for the package's        *)
(* manifest, then for the tree of its files, then for the files, several at a    *)
(* time and within a budget. A request that gets no answer is repeated a few     *)
(* times, one whose body does not arrive is not.                                 *)
EXTENDS Integers, FiniteSets, Sequences, SequencesExt, FiniteSetsExt

CONSTANTS
  Lists,       \* the lists of references [name, ref] that may be asked for
  Documented,  \* the packages the site documents itself
  Published,   \* Published[name]: [tags, versions], of the packages there are
  Satisfying,  \* Satisfying[range]: the versions that satisfy a range
  Rank,        \* the order of the versions
  Tree,        \* Tree[name][version]: the declared and the true size of each file
  MaxFiles, MaxBytes,   \* what may be loaded of one package
  LoadSlots, FileSlots, \* packages, and files of a package, loaded at a time
  Retries,     \* times an unanswered request is repeated
  Faults,      \* of AllFaults
  None

AllFaults == {"lost",      \* no connection, or no answer in time
              "status",    \* an answer that is an error
              "body",      \* a body that does not arrive in time, or does not decode
              "cache"}     \* the cache cannot be read or written

ASSUME BoundsAssumption ==
  /\ {MaxFiles, MaxBytes, Retries} \subseteq Nat
  /\ {LoadSlots, FileSlots} \subseteq Nat \ {0}
  /\ Faults \subseteq AllFaults

\* What the registry and the CDN may say. What is published has its trees, and a
\* tree names finitely many files, none of them as the other requests are named.
ASSUME RegistryAssumption ==
  /\ \A list \in Lists : list \in Seq([name : STRING, ref : STRING])
  /\ DOMAIN Published \subseteq DOMAIN Tree
  /\ \A name \in DOMAIN Tree : \A v \in DOMAIN Tree[name] :
       /\ IsFiniteSet(DOMAIN Tree[name][v])
       /\ DOMAIN Tree[name][v] \cap {"versions", "manifest", "tree"} = {}
       /\ \A f \in DOMAIN Tree[name][v] : Tree[name][v][f].size \in Nat

VARIABLES
  up,     \* the registry could be set up
  asked,  \* the packages that are to be loaded
  cached, \* those of them, by position, the cache has
  load,   \* load[n]: its stage, its version and its requests
  merged  \* the declarations that reached the site: versions by package and file

vars == <<up, asked, cached, load, merged>>

Packages   == DOMAIN asked
At(stages) == {n \in Packages : load[n].stage \in stages}
Requests(names) == [w \in names |-> [at |-> "queued", tries |-> 0]]
To(n, stage, names) ==
  load' = [load EXCEPT ![n] = [@ EXCEPT !.stage = stage, !.req = Requests(names)]]
FilesOf(n) == Tree[asked[n].name][load[n].version]

\* A reference is dropped; a package fails. What else it was waiting for is given up.
GiveUp(n) == To(n, IF load[n].stage = "versions" THEN "dropped" ELSE "failed", {})

\* Packages documented here are not asked for.
ToLoad(list) ==
  FoldLeft(LAMBDA kept, s : IF s.name \in Documented THEN kept ELSE Append(kept, s), <<>>, list)

\* Without a registry references stand as they are, and nothing can be loaded.
Init ==
  /\ up \in BOOLEAN
  /\ asked \in {ToLoad(list) : list \in Lists}
  /\ cached \in SUBSET Packages
  /\ load = [n \in Packages |-> [stage |-> "waiting", version |-> None, req |-> Requests({})]]
  /\ merged = None

-----------------------------------------------------------------------------
(* Requests. *)

Request(n, w) == load[n].req[w]
InFlight(n)   == {w \in DOMAIN load[n].req : Request(n, w).at \in {"sent", "body"}}
Is(n, w, at)  == w \in DOMAIN load[n].req /\ Request(n, w).at = at
Put(n, w, r)  == load' = [load EXCEPT ![n].req[w] = r]

\* Mutation of Send: files are asked for all at a time.
SendAll(n, w) ==
  /\ Is(n, w, "queued")
  /\ Put(n, w, [Request(n, w) EXCEPT !.at = "sent"])
Send(n, w) ==
  /\ Is(n, w, "queued") /\ Cardinality(InFlight(n)) < FileSlots
  /\ Put(n, w, [Request(n, w) EXCEPT !.at = "sent"])

\* Mutation of Lose: a request is repeated until it is answered.
LoseForEver(n, w) ==
  /\ Is(n, w, "sent") /\ "lost" \in Faults
  /\ Put(n, w, [at |-> "sent", tries |-> 1 - Request(n, w).tries])
\* No connection, or no answer before the deadline.
Lose(n, w) ==
  /\ Is(n, w, "sent") /\ "lost" \in Faults
  /\ IF Request(n, w).tries < Retries
     THEN Put(n, w, [at |-> "sent", tries |-> Request(n, w).tries + 1])
     ELSE GiveUp(n)

Exists(n, w) ==
  IF w = "versions" THEN asked[n].name \in DOMAIN Published
  ELSE load[n].version \in DOMAIN Tree[asked[n].name]

\* An error is an answer, and is not asked for again.
Answer(n, w) ==
  /\ Is(n, w, "sent")
  /\ \/ Exists(n, w) /\ Put(n, w, [Request(n, w) EXCEPT !.at = "body"])
     \/ (~Exists(n, w) \/ "status" \in Faults) /\ GiveUp(n)

\* The body comes too late, breaks off or is not what was asked for.
Spoil(n, w) == Is(n, w, "body") /\ "body" \in Faults /\ GiveUp(n)

-----------------------------------------------------------------------------
(* References. *)

\* A tag, a version or the highest version in a range, of those there are.
ResolveVersion(name, ref) ==
  LET p == Published[name]
      fit == IF ref \in DOMAIN Satisfying THEN Satisfying[ref] \cap p.versions ELSE {}
  IN IF ref \in DOMAIN p.tags THEN p.tags[ref]
     ELSE IF ref \in p.versions THEN ref
     ELSE IF fit # {} THEN CHOOSE v \in fit : \A u \in fit : Rank[u] <= Rank[v]
     ELSE None

First(stage) == {n \in At({stage}) : \A k \in At({stage}) : n <= k}

StartVersions(n) ==
  /\ up /\ n \in First("waiting") /\ Cardinality(At({"versions"})) < LoadSlots
  /\ To(n, "versions", {"versions"})

TakeVersions(n) ==
  /\ Is(n, "versions", "body")
  /\ LET v == ResolveVersion(asked[n].name, asked[n].ref)
     IN load' = [load EXCEPT ![n] = [stage |-> IF v = None THEN "dropped" ELSE "pinned",
                                     version |-> v, req |-> Requests({})]]

-----------------------------------------------------------------------------
(* Loads. They start when every reference is resolved or dropped. *)

Loading == {"manifest", "tree", "files", "commit"}

StartLoad(n) ==
  /\ n \in First("pinned") /\ At({"waiting", "versions"}) = {}
  /\ Cardinality(At(Loading)) < LoadSlots
  /\ \/ n \in cached /\ To(n, "loaded", {})
     \/ n \notin cached /\ To(n, "manifest", {"manifest"})
     \/ "cache" \in Faults /\ GiveUp(n)

TakeManifest(n) == Is(n, "manifest", "body") /\ To(n, "tree", {"tree"})

Total(sizes, names) == FoldSet(LAMBDA f, sum : sum + sizes[f], 0, names)

\* What the tree says is looked at before anything is asked for. It may not say
\* how large a file is.
TakeTree(n) ==
  /\ Is(n, "tree", "body")
  /\ LET files    == FilesOf(n)
         declared == [f \in DOMAIN files |-> IF files[f].declared = None THEN 0 ELSE files[f].declared]
     IN IF Cardinality(DOMAIN files) > MaxFiles \/ Total(declared, DOMAIN files) > MaxBytes THEN GiveUp(n)
        ELSE To(n, IF DOMAIN files = {} THEN "commit" ELSE "files", DOMAIN files)

Size(n)    == [f \in DOMAIN FilesOf(n) |-> FilesOf(n)[f].size]
Arrived(n) == {f \in DOMAIN load[n].req : Request(n, f).at = "done"}

\* What has arrived is counted once it has; over the budget the load fails.
TakeFile(n, f) ==
  /\ load[n].stage = "files" /\ Is(n, f, "body")
  /\ IF Total(Size(n), Arrived(n) \cup {f}) > MaxBytes THEN GiveUp(n)
     ELSE IF DOMAIN load[n].req = Arrived(n) \cup {f} THEN To(n, "commit", {})
     ELSE Put(n, f, [Request(n, f) EXCEPT !.at = "done"])

Commit(n) ==
  /\ load[n].stage = "commit"
  /\ To(n, "loaded", {}) \/ ("cache" \in Faults /\ GiveUp(n))

-----------------------------------------------------------------------------
(* The batch. *)

NoFiles == [f \in {} |-> None]
\* The files of the packages that were loaded, later ones over earlier ones.
MergeVfs(loaded) ==
  FoldLeft(LAMBDA vfs, n :
             IF n \notin loaded THEN vfs
             ELSE LET here == {asked[n].name} \X DOMAIN FilesOf(n)
                  IN [f \in DOMAIN vfs \cup here |-> IF f \in here THEN load[n].version ELSE vfs[f]],
           NoFiles, [n \in Packages |-> n])

\* Mutation of Merge: one package that cannot be loaded fails the batch.
MergeAllOrNothing ==
  /\ merged = None /\ up /\ At({"waiting", "versions", "pinned"} \cup Loading) = {}
  /\ merged' = IF At({"failed"}) # {} THEN NoFiles ELSE MergeVfs(At({"loaded"}))
  /\ UNCHANGED <<up, asked, cached, load>>
Merge ==
  /\ merged = None /\ (up => At({"waiting", "versions", "pinned"} \cup Loading) = {})
  /\ merged' = IF up THEN MergeVfs(At({"loaded"})) ELSE NoFiles
  /\ UNCHANGED <<up, asked, cached, load>>

Step(n) ==
  \/ StartVersions(n) \/ TakeVersions(n)
  \/ StartLoad(n) \/ TakeManifest(n) \/ TakeTree(n) \/ Commit(n)
  \/ \E w \in DOMAIN load[n].req :
       Send(n, w) \/ Answer(n, w) \/ Lose(n, w) \/ Spoil(n, w) \/ TakeFile(n, w)

Next == Merge \/ (\E n \in Packages : Step(n) /\ UNCHANGED <<up, asked, cached, merged>>)

\* The runtime runs every fiber, and every wait for the network has a deadline.
Spec == Init /\ [][Next]_vars
FairSpec == Spec /\ WF_vars(Next)

-----------------------------------------------------------------------------
(* Properties. *)

\* Every variable has its shape.
TypeOK ==
  /\ asked \in Seq([name : STRING, ref : STRING]) /\ cached \subseteq Packages
  /\ \A n \in Packages :
       /\ load[n].stage \in {"waiting", "versions", "dropped", "pinned", "loaded", "failed"} \cup Loading
       /\ \A w \in DOMAIN load[n].req : Request(n, w).at \in {"queued", "sent", "body", "done"}

\* When all is merged every package that was loaded has all its declaration
\* files, in the version it was last loaded in, whatever became of the others;
\* no file comes from a package that failed or is documented here.
LoadedIsMerged ==
  merged # None /\ up =>
    /\ \A n \in At({"loaded"}) : \A f \in DOMAIN FilesOf(n) :
         <<asked[n].name, f>> \in DOMAIN merged /\ \E k \in At({"loaded"}) : k >= n /\ asked[k].name = asked[n].name
                                   /\ merged[<<asked[n].name, f>>] = load[k].version
    /\ \A f \in DOMAIN merged : f[1] \notin Documented
         /\ \E n \in At({"loaded"}) : asked[n].name = f[1] /\ load[n].version = merged[f]

\* No request is repeated more often than allowed; what a load has received and
\* is receiving exceeds the budget by no more than the files that arrive at a
\* time, and what it keeps is within the budget.
ResourcesBounded ==
  \A n \in Packages :
    /\ \A w \in DOMAIN load[n].req : Request(n, w).tries \in 0 .. Retries
    /\ load[n].stage = "files" =>
         LET largest == Max({Size(n)[f] : f \in DOMAIN Size(n)})
         IN Total(Size(n), Arrived(n) \cup InFlight(n)) <= MaxBytes + FileSlots * largest
    /\ load[n].stage = "commit" => Total(Size(n), DOMAIN Size(n)) <= MaxBytes

\* However often the network fails, the build gets its answer.
BatchEnds == <>(merged # None)
=============================================================================
