----------------------------- MODULE BundleCache -----------------------------
(* Bundles fetched from the npm registry and from the assets of a GitHub        *)
(* release, through a cache on disk that outlives the process. A slot of the    *)
(* cache is a directory and, in a database, a record of the files fetched into  *)
(* it; the two are written one after the other, file by file, by one fetch at   *)
(* a time, which may fail or be killed at every step. What is published under   *)
(* a tag may be replaced while its slot stays.                                  *)
EXTENDS Bundles

CONSTANTS
  Npm,        \* the slot of an exact version of a package in the registry
  Assets,     \* the assets the release may come to have, each with its slot
  MetaAssets, \* those of them whose name ends in .npm.meta.tgz
  Uploads,    \* Uploads[slot]: the archives that may be published there
  Initial,    \* what is published at first
  Stuck,      \* files whose removal may fail
  Unpublished, Idle, None

Slots == {Npm} \cup Assets

(* An archive is the sequence of directories a bundle is looked for in:        *)
(* package/, the archive's own root, then the other directories at its root.   *)
ASSUME CacheAssumption ==
  /\ MetaAssets \subseteq Assets /\ Npm \notin Assets /\ DOMAIN Initial = Slots
  /\ \A s \in Slots :
       /\ Initial[s] \in Uploads[s] \cup {Unpublished}
       /\ \A archive \in Uploads[s] :
            /\ archive # <<>> /\ archive \in Seq(ToSet(archive))
            /\ \A dir \in ToSet(archive) : IsFiniteSet(DOMAIN dir) /\ Images(dir) \in Seq(ToSet(Images(dir)))

VARIABLES
  published, \* the archive of each slot, or Unpublished
  disk,      \* the directory of each slot
  record,    \* the files that are listed in the record of each slot that has one
  fetch,     \* the fetch that is running, or Idle
  served,    \* the bundle the last fetch returned, or None
  moved,     \* slots whose archive was replaced
  fetched    \* slots fetched and neither replaced nor damaged nor written since

vars == <<published, disk, record, fetch, served, moved, fetched>>

Requests == [source : {"npm"}, asset : {Npm}, refresh : BOOLEAN]
            \cup [source : {"github"}, asset : Assets \cup {Absent}, refresh : BOOLEAN]

EmptyDir == [f \in {} |-> Broken]
Named(request) == request.asset # Absent
With(dir, file, contents) == [f \in DOMAIN dir \cup {file} |-> IF f = file THEN contents ELSE dir[f]]

Init ==
  /\ published = Initial
  /\ disk = [s \in Slots |-> EmptyDir]
  /\ record = EmptyDir
  /\ fetch = Idle /\ served = None
  /\ moved = {} /\ fetched = {}

-----------------------------------------------------------------------------
(* Looking for the bundle. *)

\* A request that names its slot looks there first, unless it is a refresh.
Request(r) ==
  /\ fetch = Idle
  /\ fetch' = [stage |-> IF Named(r) /\ ~r.refresh THEN "probe" ELSE "lookup",
               request |-> r, asset |-> r.asset, root |-> EmptyDir, left |-> <<>>, files |-> {},
               merged |-> FALSE]
  /\ served' = None
  /\ UNCHANGED <<published, disk, record, moved, fetched>>

\* The slot of a request, once its asset is known.
SlotOf(f) == f.asset

\* A record, every file of it on disk, and a bundle that can be read there.
Cached(slot) ==
  /\ slot \in DOMAIN record
  /\ record[slot] \subseteq DOMAIN disk[slot]
  /\ Ok(Load(disk[slot], Nothing))

Serve(slot, how) ==
  /\ served' = [slot |-> slot, how |-> how, dir |-> disk[slot], root |-> fetch.root,
                merged |-> fetch.merged]
  /\ fetch' = Idle

Hit ==
  /\ fetch # Idle /\ fetch.stage = "probe"
  /\ Cached(SlotOf(fetch))
  /\ Serve(SlotOf(fetch), "cache")
  /\ UNCHANGED <<published, disk, record, moved, fetched>>

\* Anything amiss is a miss, and so is a record that cannot be read now. A
\* request that names its slot has not asked the network yet.
Miss ==
  /\ fetch # Idle /\ fetch.stage = "probe"
  /\ fetch' = [fetch EXCEPT !.stage = IF Named(fetch.request) THEN "lookup" ELSE "download"]
  /\ UNCHANGED <<published, disk, record, served, moved, fetched>>

\* The exact asset, or the only one that is a bundle by its name.
PickAsset(request) ==
  LET there == {a \in Assets : published[a] # Unpublished}
  IN IF Named(request) THEN there \cap {request.asset}
     ELSE IF Cardinality(there \cap MetaAssets) = 1 THEN there \cap MetaAssets ELSE {}

\* The version asked for, when the registry has it.
Version == {v \in {Npm} : published[v] # Unpublished}

\* The version or the asset is looked up; with none, the fetch fails.
Lookup ==
  /\ fetch # Idle /\ fetch.stage = "lookup"
  /\ LET found == IF fetch.request.source = "npm" THEN Version ELSE PickAsset(fetch.request)
         probes == ~Named(fetch.request) /\ ~fetch.request.refresh
     IN IF found = {} THEN fetch' = Idle
        ELSE fetch' = [fetch EXCEPT !.stage = IF probes THEN "probe" ELSE "download",
                                    !.asset = CHOOSE a \in found : TRUE]
  /\ UNCHANGED <<published, disk, record, served, moved, fetched>>

-----------------------------------------------------------------------------
(* Fetching it. *)

\* The directory of a release's archive that has a model in it; a package of
\* the registry is read in package/ alone.
BundleRoot(archive, source) ==
  IF source = "npm" THEN Head(archive)
  ELSE IF \E n \in DOMAIN archive : Models(archive[n]) # {}
       THEN archive[SelectInSeq(archive, LAMBDA dir : Models(dir) # {})] ELSE EmptyDir

Download ==
  /\ fetch # Idle /\ fetch.stage = "download"
  /\ LET root  == BundleRoot(published[fetch.asset], fetch.request.source)
         found == Discover(root, Nothing)
     IN fetch' = IF ~Ok(found) THEN Idle
                 ELSE [fetch EXCEPT !.stage = "clear", !.root = root,
                                    !.left = <<found.model>> \o found.layers]
  /\ UNCHANGED <<published, disk, record, served, moved, fetched>>

\* The slot is emptied first. A removal that fails is ignored, and what it
\* left is merged with what is copied.
Keeping(files, dir) == [f \in files |-> dir[f]]
Clear ==
  /\ fetch # Idle /\ fetch.stage = "clear"
  /\ \E kept \in SUBSET (Stuck \cap DOMAIN disk[SlotOf(fetch)]) :
       /\ disk' = [disk EXCEPT ![SlotOf(fetch)] = Keeping(kept, @)]
       /\ fetch' = [fetch EXCEPT !.stage = "layers", !.merged = kept # {}]
  /\ fetched' = fetched \ {fetch.asset}
  /\ UNCHANGED <<published, record, served, moved>>

\* Mutation of Listed: the record lists the layers and not the images.
ListedLayers(f, file) == f.files
Listed(f, file) == f.files \cup {file}

CopyLayer ==
  /\ fetch # Idle /\ fetch.stage = "layers" /\ fetch.left # <<>>
  /\ LET file == Head(fetch.left)
     IN /\ disk' = [disk EXCEPT ![SlotOf(fetch)] = With(@, file, fetch.root[file])]
        /\ fetch' = [fetch EXCEPT !.left = Tail(@), !.files = @ \cup {file}]
  /\ UNCHANGED <<published, record, served, moved, fetched>>

StartImages ==
  /\ fetch # Idle /\ fetch.stage = "layers" /\ fetch.left = <<>>
  /\ fetch' = [fetch EXCEPT !.stage = "images", !.left = ImagePaths(fetch.root)]
  /\ UNCHANGED <<published, disk, record, served, moved, fetched>>

\* An image that leaves the bundle, or is not in it, fails the fetch.
CopyImage ==
  /\ fetch # Idle /\ fetch.stage = "images" /\ fetch.left # <<>>
  /\ LET file == Head(fetch.left)
     IN IF file \in UnsafePaths \/ file \notin DOMAIN fetch.root
        THEN fetch' = Idle /\ UNCHANGED disk
        ELSE /\ disk' = [disk EXCEPT ![SlotOf(fetch)] = With(@, file, fetch.root[file])]
             /\ fetch' = [fetch EXCEPT !.left = Tail(@), !.files = Listed(fetch, file)]
  /\ UNCHANGED <<published, record, served, moved, fetched>>

Record ==
  /\ fetch # Idle /\ fetch.stage = "images" /\ fetch.left = <<>>
  /\ record' = With(record, SlotOf(fetch), fetch.files)
  /\ fetch' = [fetch EXCEPT !.stage = "read"]
  /\ UNCHANGED <<published, disk, served, moved, fetched>>

\* What was copied is read back from the cache.
ReadBack ==
  /\ fetch # Idle /\ fetch.stage = "read"
  /\ IF Ok(Load(disk[SlotOf(fetch)], Nothing))
     THEN Serve(SlotOf(fetch), "network") /\ fetched' = fetched \cup {fetch.asset}
     ELSE fetch' = Idle /\ UNCHANGED <<served, fetched>>
  /\ UNCHANGED <<published, disk, record, moved>>

-----------------------------------------------------------------------------
(* What goes wrong. *)

\* A failed step, or the end of the process: the fetch is over, and what it
\* wrote stays.
Stop ==
  /\ fetch # Idle /\ fetch.stage # "probe"
  /\ fetch' = Idle
  /\ UNCHANGED <<published, disk, record, served, moved, fetched>>

\* Stopped in the middle of copying a file: what there is of a layer is not
\* JSON, and of an image not the picture.
Tear ==
  /\ fetch # Idle /\ fetch.stage \in {"layers", "images"} /\ fetch.left # <<>>
  /\ Head(fetch.left) \in DOMAIN fetch.root \ UnsafePaths
  /\ disk' = [disk EXCEPT ![SlotOf(fetch)] = With(@, Head(fetch.left), Broken)]
  /\ fetch' = Idle
  /\ UNCHANGED <<published, record, served, moved, fetched>>

\* Someone deletes a file of the cache; not while another is missing.
Damage(slot, file) ==
  /\ fetch = Idle
  /\ \A s \in DOMAIN record : record[s] \subseteq DOMAIN disk[s]
  /\ slot \in DOMAIN record
  /\ file \in DOMAIN disk[slot]
  /\ disk' = [disk EXCEPT ![slot] = Keeping(DOMAIN @ \ {file}, @)]
  /\ fetched' = fetched \ {slot}
  /\ UNCHANGED <<published, record, fetch, served, moved>>

\* An asset is uploaded, or replaced by another; a version of a package is not.
Upload(asset, archive) ==
  /\ fetch = Idle
  /\ archive # published[asset]
  /\ published' = [published EXCEPT ![asset] = archive]
  /\ moved' = IF published[asset] = Unpublished THEN moved ELSE moved \cup {asset}
  /\ served' = None
  /\ UNCHANGED <<disk, record, fetch, fetched>>

Next ==
  \/ \E r \in Requests : Request(r)
  \/ Hit \/ Miss \/ Lookup \/ Download
  \/ Clear \/ CopyLayer \/ StartImages \/ CopyImage \/ Record \/ ReadBack
  \/ Stop \/ Tear
  \/ \E s \in Slots : \E file \in DOMAIN disk[s] : Damage(s, file)
  \/ \E a \in Assets : \E archive \in Uploads[a] : Upload(a, archive)

Spec == Init /\ [][Next]_vars

-----------------------------------------------------------------------------
(* Properties. *)

\* The files a bundle is read from, and with them the images it declares.
Layered(root)  == {Discover(root, Nothing).model} \cup ToSet(LayersIn(root))
Promised(root) == Layered(root) \cup ToSet(ImagePaths(root))

Whole(dir, root) ==
  /\ Load(dir, Nothing) = Load(root, Nothing)
  /\ \A file \in ToSet(ImagePaths(root)) : file \in DOMAIN dir /\ dir[file] = root[file]

\* The same, but for images that were cut short.
WholeButImages(dir, root) ==
  /\ Load(dir, Nothing) = Load(root, Nothing)
  /\ \A file \in ToSet(ImagePaths(root)) : file \in DOMAIN dir /\ dir[file] \in {root[file], Broken}

\* Where the bundle of a slot is now, in what is published there.
Current(slot) == BundleRoot(published[slot], IF slot = Npm THEN "npm" ELSE "github")

\* Whatever a fetch returns, after failures and kills at any step and files
\* lost from the cache, reads as the bundle published there, with a file for
\* every image of it, as long as what is published has not been replaced: a
\* slot with a missing file or a half-written layer reads as a miss. An image
\* is known by its file alone, and one of the cache may have been cut short.
WholeBundles ==
  served # None /\ served.slot \notin moved => WholeButImages(served.dir, Current(served.slot))

\* What comes from the network has every layer and image as it was downloaded,
\* and nothing else of an earlier fetch of the slot, unless the archive was
\* replaced since and the removal of the earlier files failed.
FetchedIsCurrent ==
  served # None /\ served.how = "network" =>
    /\ \A file \in Promised(served.root) :
         file \in DOMAIN served.dir /\ served.dir[file] = served.root[file]
    /\ ~served.merged \/ served.slot \notin moved => Whole(served.dir, served.root)

\* A request that names its asset finds what a request that did not has cached:
\* they share the slot.
NamedAfterUnnamedHits ==
  fetch # Idle /\ fetch.stage = "probe" /\ Named(fetch.request) /\ fetch.asset \in fetched
    => Cached(fetch.asset)

\* What a fetch returns is what was published, but for images cut short in the
\* cache and files of an earlier archive that could not be removed, and what was
\* fetched is found again, with every failure, kill and loss between.
CacheKeepsItsWord == WholeBundles /\ FetchedIsCurrent /\ NamedAfterUnnamedHits

\* The comment on the copying of images: a fetched bundle's image is never
\* dangling.
ImagesNeverDangle ==
  served # None => ToSet(ImagePaths(served.dir)) \subseteq DOMAIN served.dir

\* The comment on the probe: a damaged cache heals itself by fetching again, so
\* that a bundle from the cache has the images that were published.
CachedImagesWhole ==
  served # None /\ served.slot \notin moved => Whole(served.dir, Current(served.slot))

\* The comment on the removal: stale files of an earlier fetch do not survive.
ReplacedNeverMerged ==
  served # None /\ served.how = "network" => Whole(served.dir, served.root)
=============================================================================
