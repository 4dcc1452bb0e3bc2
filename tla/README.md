# A formal model of tsdoctor

tsdoctor turns the API Extractor models of TypeScript packages into a documentation
site: one page per API item, sidebars, and code blocks whose hovers come from the
TypeScript compiler. This directory holds TLA+ modules that model it from the model
files to the published site, TLC configurations that check them on small instances,
and proofs of what matters most for every value of their constants. `PROJECT.json` maps
every definition to the lines it translates and lists the runs, the hazards they are
aimed at, the mutants that show each property can fail, and the theorems.

Reading order: this file, then `IncrementalBuild.tla`, `TypeRegistry.tla` and
`TypeEnvironments.tla` (state that outlives a step), `ApiPages.tla` and `RenderPass.tla`
(what a page says and shows), `LlmsFiles.tla` with the four modules below it (a site put
together from its options), `BundleCache.tla` and `ExternalTypes.tla` (what comes from the
network). Each ends with its properties. Check a run with
`tlc -config IncrementalBuild_crash.cfg MCIncrementalBuild.tla` and a proof with
`tlapm TypeRegistryProofs.tla`.

## 1. Inventory

Paths are relative to `src/`. `P` stands for `platforms/rspress/src`, `V` for
`platforms/vitepress/src`, `K` for `packages`.

### 1.1 The parts and how they meet

```
 author ── edits ──► api.json, tsconfig, options        npm registry, GitHub, CDN
                        │                          BundleFetch │     │ PackageFetcher
        plugin.ts config()  (every build)               ▼            ▼
                        │                          BundleCache   TypeRegistry ── TypeCache
        config-resolution ── bundles ──────────────────┘             │  (directory + row)
              │  layers, routes, scopes    └─ external-types ────────┘
              │  combined declarations, compiler options
              ▼
        TwoslashEnvironments ◄── TwoslashCacheService ── persisted results
              │                                             ▲
        build-program (2 packages at a time)                │ afterBuild(), first
          prepare → generate+write → navigation → sweep     │ build only
              │            │             │                  │
         VfsRegistry    the output    SnapshotService       │
              │         directory       (SQLite)            │
              ▼                                             │
        render pass: remark-api-codeblocks, remark-with-api ┤
              │ events                                      │
              ▼                                             │
        EventBus ── issues, metrics, render reports ────────┤
                                                            │
        llms-program: files for language models ────────────┘
```

| Component | Code | State it keeps | Operations |
|---|---|---|---|
| Incremental page build | `P/build-stages.ts`, `P/build-program.ts` | the output directory; in memory the rows loaded at the start, the decisions, the files generated | decide, write, write navigation, commit rows, sweep stale rows and orphans |
| Snapshot store | `K/snapshot/src` | one row per file it wrote: two hashes, two dates | upsert, batchUpsert, deleteSnapshot, cleanupStale, getAllForDir |
| Type registry | `K/registry/src/TypeRegistry.ts` | the mutations semaphore | getPackageVfs, clearCache, pruneCache, resolveVersion |
| Type cache | `K/registry/src/TypeCache.ts` | a directory per package version, a metadata row with a time to live | exists, readMetadata, writePackage, getVfs, remove, prune |
| Package fetcher | `K/registry/src/PackageFetcher.ts` | per fetch: requests in flight, bytes received | fetch with deadlines, three retries, ten downloads at once |
| External types | `P/layers/external-types.ts`, `P/config-utils.ts`, `V/Registry.ts` | none | references resolved and loaded best effort, merged into one VFS |
| Twoslash environments | `P/twoslash-transformer.ts`, `P/services/TwoslashEnvironments.ts`, `P/layers/type-environment.ts` | environment per compiler configuration, configuration per scope, the fallback | registerEnvironment, registerScope, transformerFor, clear |
| Twoslash result cache | `K/vfs/src/TwoslashCache.ts`, `P/services/TwoslashCacheService.ts` | in-memory generation of the VFS it was opened for; one blob per hash on disk | open, read, write, persist |
| Plugin life cycle | `P/plugin.ts` | the runtime and its services, isFirstBuild | factory, config(), afterBuild() |
| Config resolution | `P/layers/config-resolution.ts`, `P/config-helpers.ts`, `P/path-derivation.ts`, `K/vfs/src` | none | bundles, routes, directories, scopes, compiler options, versions |
| Bundles | `K/bundle/src` | a cached copy of each remote bundle with a record | fetch, discover, resolve layers, publish images |
| Work items and routes | `K/pages/src/WorkItems.ts`, `K/model/src/{Routes,EntryPoints,SyntheticBases,CrossLinker}.ts` | none | items to pages, routes, anchors, links |
| Page building, navigation | `K/pages/src`, `P/emit`, `V/emit` | none | pages, sidebars, code blocks |
| API model | `K/model/src` | none | declaration files, imports, comments |
| Render pass | `P/remark-api-codeblocks.ts`, `P/remark-with-api.ts`, `P/shiki-transformer.ts`, `P/vfs-registry.ts` | VfsRegistry entry per scope; the file diagnostics are attributed to | render a block through its scope's environment and linker |
| Search metadata | `K/seo/src`, `P/services/OgService.ts` | none | canonical links, images, the schema.org graph |
| Observability | `P/observability`, `P/layers/observability.ts` | issues, counters, samples | record events, write reports |
| Llms files | `P/llms-program.ts`, `K/pages/src/Llms.ts` | the text files of the published site | read, empty, fill |
| VitePress adapter | `V` | its output directory (no snapshots) | generate |

Interactions are calls within one Node process, plus the media that outlive it: the
output directory with the snapshot database, the type cache directory with its rows, the
bundle cache with its records, and the twoslash result store. Concurrency is Effect
fibers: two packages generated at a time, pages and commits streamed, loads of external
packages in a batch and their files ten at a time, render workers over the shared
registries, versions and packages of the llms files all at once.

### 1.2 What is hard, and what makes each part correct

The hazards, each at its line, are `PROJECT.json` "hazards". By part:

* **Incremental build.** A page is skipped when two hashes agree with a row that was
  loaded when the build began; the file itself is not looked at. Files are written
  before their rows are committed, a failing commit is ignored, the process may die
  anywhere, the database is in a directory people delete, and pages may be checked in
  without it. *Correct* means: after a build nothing disturbed, pages and sidebars say
  what the model says and nothing else is left; dates move only with content and never
  backwards; a row never claims what its file does not hold; a landing page somebody
  wrote is never touched; a rebuild of an unchanged site is quiet.
* **Type registry and cache.** Commits replace a directory by two renames with a gap in
  between; readers hold no lock; a row is written after the tree and dropped before it;
  every operation can fail or be the last of its process. *Correct* means: a live row
  always has the whole package behind it; one mutator at a time; a load that succeeds
  returns the whole package; every load ends.
* **External types.** Requests are lost and repeated, bodies break off, budgets are
  checked before (by what a tree declares) and after (by what arrives), and one package
  must not take the others with it. *Correct* means: what loads reaches the site whole;
  retries and memory stay within their bounds; the build gets an answer.
* **Type environments.** The same key is derived twice by different code, unknown keys
  fall back silently, results persist across compilers and declarations, and services
  outlive a build in development. *Correct* means: the store holds nothing but what
  checking would give; a block shows the types of its own package's options and of
  this build; type names link into the block's own package; a save loses nothing.
* **Bundles.** A slot of the cache is emptied and filled file by file while its old record
  stands, after a removal whose failure is ignored; what is published under a tag may be
  replaced. *Correct* means: what a fetch downloads it returns whole, and what it finds in the
  cache reads as what is published. Two things the code says it also gives, it does not (§4):
  that an image of the cache is whole, and that files of an earlier archive never survive.
* **Pages and routes.** The route map links are taken from and the pages they must land on
  are computed by separate code, over merged entry points, folded bases, categories and
  two adapters. *Correct* means: every link lands; every export has a page.
* **Code blocks.** Imports and text of a declaration file are made apart; cuts are positions in a
  text that shrinks; classes are tracked by counting braces; blocks of several pages end in
  any order. *Correct* means: what is imported, shown, copied and linked agrees with the
  code it is about, and the reports with what was rendered.
* **The site.** Versions, packages and locales share directories, routes, images, one virtual
  file system and text files that are written concurrently. *Correct* means: a page is
  where it says it is; the declarations documented here stand; each package is checked under
  its own options; each text file lists its pages.

## 2. Modules and the code

### 2.1 `DocsSite` and `IncrementalBuild`

`IncrementalBuild` is one output directory over a sequence of builds, edits and
mishaps. One action stands for one step another event can come between; a crash leaves any of the pages and
navigation files that are being written cut short:

| Actions | Code |
|---|---|
| `BeginBuild` | `generateApiDocs`: buildTime and `getAllForDir` |
| `GeneratePage`, `PageDecision`, `SameHashes` | `generateSinglePage`: row, else the file on disk, else new |
| `WritePage`, `EndPages` | `writeSingleFile` and the end of the page stream |
| `WriteRootMeta`, `UpsertRootRow`, `WriteIndex`, `WriteCatMeta`, `CommitCatRows`, `MetaDecision` | `writeMetadata` in the order it awaits them |
| `CommitPages`, `DeleteStaleRow`, `EndStale`, `UnlinkStale`, `ScanOrphans`, `RemoveOrphan`, `DropOrphanRow`, `FinishBuild` | `cleanupAndCommit`, `cleanupStale` |
| `EditModel`, `AuthorIndex`, `LoseDb`, `LoseFile`, `Crash` | what happens around a build |

`disk` is the directory, `db` the table, `snaps` the rows loaded at the start, `plan`
the decisions. A page's content is a record of the two things that are hashed, so a
comparison of hashes is a comparison of fields (SHA-256 is taken to be injective); a
date is the number of the build that set it. `None` as a written row models a deletion.
Faults are a constant, so that a run, or the assumption of a theorem, says which it
admits. `health` is a history variable: it says whether the present state is the
outcome of a build that no fault and no edit has disturbed since it began. No action's
guard reads it.

`DocsSite` is what a reader is promised: during a build each page moves in one step from what
it said to what the model says, and a build is over only when all pages agree with the
model. `ImplementsSite` maps `disk` to the site and checks it as a refinement.

The theorems are in `IncrementalBuildProofs`: types, sweeps and pages first, then what steps may do to rows,
dates and the landing page, what a build leaves when nothing harmful happens, and the refinement.

### 2.2 `TypeRegistry`

Loads (`Loaders`), each a fiber inside `getPackageVfs`, go through the code's ladder:
`ReadMetadata`, `Classify` (hit, stale, miss), `Fetch`, then under the semaphore `Stage`,
`Retire`, `Promote`, `Cleanup`, `Record`, and outside it `List`, `ReadFile`, `Serve`.
`Keepers` run `clearCache` (`ClearMetadata`) and `pruneCache` (`PruneMetadata`), then
remove directories file by file. `Expire` is the clock of the time to live, `Crash` the
end of the process, which forgets the fibers and the semaphore and keeps `live`,
`retired` and `meta`. A package is pinned to its version, so the content behind a path
never changes and a directory is the set of files in it; the staging directory has a
unique name and is invisible to readers.

### 2.3 `ExternalTypes`

The other side of a load, which `TypeRegistry` takes as one step: `asked` is the list of
references, `load[n]` the stage of each with its requests. `StartVersions`, `TakeVersions` and
`ResolveVersion` pin a reference (`resolveVersion`); `StartLoad`, `TakeManifest`,
`TakeTree`, `TakeFile` and `Commit` are `PackageFetcher.fetch` inside `getPackageVfs`. A request is
`Send`, then `Lose` (no connection, or the deadline of an attempt; repeated by the retry schedule),
`Answer` (an error is an answer and is not repeated) and `Spoil` (the body comes too late or does not
decode; not repeated). `Merge` is the end of the best-effort batch, with `MergeVfs` in the order the
packages were asked for. `ToLoad` leaves out the packages documented here, as `mergeExternalTypes` does
before it starts. Packages and files start in order and at most `LoadSlots` and `FileSlots` at a
time, as `Effect.forEach` with a concurrency runs them.

### 2.4 `TypeEnvironments`

One machine whose process starts, builds (`BeginConfig` … `EndConfig`), renders
(`RenderExample` for the examples of generated pages, `RenderFence` for `with-api` fences of
authored pages, each under the scope its file's path gives it, inside a package or not),
saves (`AfterBuild`) and exits, with the author editing declarations or tsconfig files in
between. `envs` maps encoded compiler options to the environment registered for them,
`scopeKey` and `wide` are the lookup and its fallback, `routed` the VfsRegistry, `typeRoutes` the
names that a {@link} in a hover is looked up in, one map for all packages, `gens`
the generations of the result cache opened so far (an environment keeps writing to the
one of its own build), `store` the persisted blobs. Scopes are computed from route
segments exactly as the two places in the code do: `RegisteredScope` from the base
route, `MountedScope` from the route with the apiFolder appended. A failing `config()`
ends the process in production; in development the same is assumed.

### 2.5 `Bundles` and `BundleCache`

`Bundles` takes a directory as a function from files to contents. `Discover`, `PickModel` and
`PackageName` find what is in it, `Read` and `Load` read it, `Resolve` puts the layers over one
another (a field of the options, then `tsdoctor.json`, then `package.json`), `Publish` names the images.

`BundleCache` is one fetch at a time over a cache that outlives it: `Request`, `Hit`, `Miss`, `Lookup`
(`PickAsset`, `Version`), `Download`, `Clear`, `CopyLayer`, `StartImages`, `CopyImage`, `Record`, `ReadBack`,
in the order `persistAndRead` awaits them; `Stop` ends a fetch at any of them and `Tear` in the middle of
copying a layer or an image, `Damage` deletes a file of the cache, `Upload` replaces what is published.
`Clear` may leave any of the files that are in `Stuck`: the code ignores a removal that fails. `record` is
the table, a slot without a row being outside its domain; `moved`, `fetched` and the fields `root` and
`merged` of what is served are history.

### 2.6 `ApiPages`, `Categories`, `ProseLinks`

`Prepare` is `prepareWorkItems` with what it calls: entry points merged (`Resolve`, `SameKey`), bases the
compiler made folded into their owners (`Bases`, `HiddenRefs`), items filed by `CategoryOf` over the
categories of `Categories` (each layer of options merged over the ones before), and the route map
(`NameRoutes`, `MemberRoutes`, `QualifiedRoutes`, `BareMemberRoutes`, in the order of standing in which the
code lets one override another). `BuildPage` is `buildPage` and one adapter's emission, reduced to
the elements a link can land on or start from; `Finish` is the navigation of the adapter. Anchors
are `Slug`s with the prefix `AnchorOf` gives. The prose of an item is what of its comment the code cross-links:
deprecations, parameters, returns and the summaries of members, not its own summary. `ProseLinks` is `CrossLinker` over words and marks.

### 2.7 `Declarations`, `CodeBlocks`, `Reports`, `RenderPass`

`Declarations` makes the declaration file of an entry point (`Files`), its imports (`Extract`, `Imports`)
and its comments (`Comment`). `CodeBlocks` has the source a block is given (`Skeleton`, `MemberSource`,
`Prepared`; a class shows the base that the compiler made for it as a second signature), what the transformers hide (`HideCutLines`, `MemberFormat`), what is copied (`StripDirectives`) and
which words are links (`LinkLines`). `Reports` has the sinks and the artifacts made from them.
`RenderPass` composes them: `Declare` and `PrependImports` make the declarations; `StartGenerated`, `SkipGenerated` and
`StartAuthored` take a page up and note it as the one errors are attributed to (a generated page is checked in
the same step, an authored one after two awaits); `Format`, `Highlight` and `Link` are what happens to a block after
each await; `Fail` is a failing build, `WriteArtifacts` the end. `stage[b]` is how far a block is and `links[b]` what it was given; `pages` are the blocks of
each page, fixed when the behaviour begins.

### 2.8 `CompilerConfig`, `SiteLayout`, `PageHead`, `LlmsFiles`

Each extends the one before, because a site's options determine all of them. `CompilerConfig` is
the decoding of compiler options, their overlay and registration per scope. `SiteLayout` is
`config-resolution`: the bundle, directory, route and images of each package or version (`ConfigOf`,
`DeriveOutputPaths`), the helpers that write options (`FromDir`, `FromParentDir`), the external packages a site
asks for (`ExternalPackages`) and whose declarations stand (`CombinedVfs`). `PageHead` is the head of a
page: `Canonical`, `PageImage`, `OpenGraphTags`, `PackageNodes` and `PageNodes`. `LlmsFiles` is the program that runs over
the published site: every prefix goes through `ReadIndex`, `ReadText`, `WriteIndex`, `WriteText` and
then, package by package, through the files of `WritePackageFile`; a write is two steps, since it empties
the file before it fills it. `order` is the order in which the pages of the packages were done, two at a time:
it decides which of two nested packages a guide is put with. What RSPress itself emits (`Emitted`, `HomeOf`, `ApiPagesAt`) is external.

## 3. What is checked

The `cfg` files give the constants; `MC*.tla` only define the values those files cannot
write down. Every property of a passing run has a mutant: a plausible mistake in a mapped
definition that TLC then finds.

| Run | Instance | Shows |
|---|---|---|
| `build_lostdb` | 2 items, 1 category, 3 contents, 3 builds, lost database | `ModifiedTimeHonest`, `RebuildIsQuiet`, and the refinement `ImplementsSite` |
| `build_degraded` | 2 items, 2 categories, 2 contents, 2 builds, failing reads and removals, lost database | `PagesCurrent`, `NavigationCurrent` |
| `build_crash` | 1 item, 1 category, 2 contents, 3 builds, every fault but failing reads | `TypeOK`, `NoLeftovers`, `RowsNeverLead`, `DatesFollowContent`, `LandingPagePreserved` |
| `registry_keepers` | 2 loads, 1 keeper, 1 package of one file; network, file system and crash faults; fair | `NoPhantomHit`, `OneMutatorAtATime`, `LoadsEnd` |
| `registry_pinned` | 2 loads, no keeper, a package of two files, all faults | `ServedWhole` |
| `types_cache` | 2 packages under options of their own, 2 VFS contents, 2 compilers, 2 builds, all faults | `StoreSound`, `BlockLinksRight`, `FirstHoversCurrent`, `SavedWork` |
| `types_batch` | 5 lists of two or three references; packages within, over and at the budgets, one not published; 2 loads of 2 files at a time; every fault; fair | `LoadedIsMerged`, `ResourcesBounded`, `BatchEnds` |
| `bundles_fetch` | a package version and a release of up to two assets, five archives of different shape | `CacheKeepsItsWord` |
| `pages_site` | any three of nine declarations, at most one more from a second entry point, both adapters | `EveryItemHasItsPage`, `LinksLand`, `NamesLeadWhereTheySay`, `EveryExportDocumented`, `ProseLinkedWhole` |
| `render_blocks` | declaration files, every example of up to four lines, every order of what formatting sets apart, and two generated and two authored pages at once | `ImportsFit`, `CommentsSayTheDoc`, `VisibleIsDeclared`, `CopyIsWhatShows`, `MemberLinksRight`, `ErrorsNameTheirPage`, `ReportHolds`, `IssuesComplete` |
| `site_llms` | 114 sites of one and two packages, two versions, two languages, their packages done in every order | `PagesAreWhereTheySay`, `DocumentedDeclarationsStand`, `HeadsResolve`, `ScopesCheckedAsConfigured`, `FilesListTheirPages` |
| `site_versions` | two versions of one package | the finding of section 4: `IndexesComplete` fails |

### 3.1 Bounds, and why they are enough

* `MaxBuilds` bounds the behaviours of `IncrementalBuild` and `TypeEnvironments`. Nothing is carried
  from a build to the next but the directory and the table, and a row or a file is
  distinguished only by being older than, equal to or newer than another: three builds
  give an old row, a newer file and the build that confuses them. Two are enough where
  the properties do not speak of dates.
* Two items meet in one category or fill two, so that a category can lose its last or
  not its last page; pages interact in no other way. Three contents make an
  edit of either hash alone possible. The runs that inject the most faults have one
  item, which makes every order of its faults reachable.
* Two loads are what the rename window and the double commit need. A third would only
  queue. Two files are the fewest of which a reader can get a part; where no property
  speaks of parts there is one. Different packages share nothing but the
  semaphore, which one package with two loads and a keeper already contends for.
* Two packages, two contents, two compilers, two builds: one of each to be confused with
  the other. Two configurations, whose names differ from what they encode, make packages agree
  and disagree. Authored pages have two scopes, a package's and another. The routes of the packages are the
  instance's choice: apart, one at the root, both below one segment.
* `MaxFiles` and `MaxBytes` are 3 and 2 against the code's hundreds and megabytes: the packages of the
  instance are within, at and over each of them, by what they declare and by what arrives.
  `Retries` is the code's own three. With two files at a time out of three, one waits.
* The cache of bundles has no counter; its state space is finite as it is. Two assets make
  a request that names none ambiguous; three archives in one slot are an old, a new and one that
  misses an image. The removal of the manifest and of the image may fail (`Stuck`), a layer and
  the file that only the manifest knows of; the proof has any files.
* `MaxItems` items of the default entry point: collisions of names, of routes and of anchors
  are between two declarations, and a third can be the one that links to them.
* `MaxParts` lines of an example: a cut before, a cut after and a pair around, with one line to
  be kept. The samples kept (`SlowestLimit`) are two, fewer than the blocks rendered.
* Sites vary in one respect at a time around an ordinary one, since the code reads the options one by
  one; those with several packages, versions or languages keep everything else at its default. Only languages
  and packages are also combined, since both lengthen the routes from which a prefix is taken.

### 3.2 Fairness

`LoadsEnd` and `BatchEnds` need it. Under `FairSpec` of `TypeRegistry` a fiber that can step does (Effect's
scheduler runs every ready fiber), and `Stage` is strongly fair, because
`Semaphore.withPermits` serves its waiters in the order they came, so a commit cannot be
passed over for ever. Nothing is assumed of callers, of the clock or of crashes:
`LoadsEnd` counts the death of the process as an end. `FairSpec` of `ExternalTypes` says that the
batch does not stop while a step is possible: its steps are those of ready fibers, and a wait for the
network always ends, by an answer or by its deadline.

### 3.3 Deadlock

The build, the type registry, the type environments and the bundle cache are never stuck: an idle
build can be edited, a load or a bundle can be requested, a process can be started. The other runs
check programs that end when their work is done (a batch, a set of pages, a render pass, the llms files),
and say `CHECK_DEADLOCK FALSE`; that the batch ends with its result is `BatchEnds`.

## 4. Where the code disagrees with what it says

`site_versions` is the finding of `PROJECT.json`: every package file of a version is written once for the
version and once for the root, which reads only the default version's index; when the root
writes last, the file of the other version lists no page.

The following are kept as configurations outside the runs. TLC finds each of them violated; where a configuration
lists several, it stops at the first, and with `-continue` it goes on to the others.

| Configuration | Property | The code, and what it says of itself |
|---|---|---|
| `IncrementalBuild_diskdates` | `PublishedTimeKept` | without a row, the dates of an existing page are looked up under a key its frontmatter does not have, so a changed page is republished as of today after a fresh checkout, against the comment above the line |
| `IncrementalBuild_interrupted` | `PagesCurrent` | a build that dies between writing a page and committing its row leaves the older row; when the model goes back to what that row recorded, the newer or truncated file is kept |
| `TypeRegistry_swap` | `AutoFetchSucceeds` | a load that found the package present can list the directory in the gap of another's commit and fails, where the comment promises a miss |
| `TypeEnvironments_dev` | `HoversCurrent` | the environments of the first build of a development process are kept by later builds although their declarations have changed |
| `TypeEnvironments_root` | `FirstHoversCurrent` | a package at the site root is registered under its name and looked up under `api`, so its blocks are checked under another package's options |
| `TypeEnvironments_nested` | `BlockLinksRight` | packages below one first route segment share a VfsRegistry entry; the last one generated owns the links of both |
| `TypeEnvironments_hovers` | `DocLinksStayHome` | a {@link} in a hover is looked up in the names of all packages, so a name that two packages have pages for leads to the one generated last, where `build-program.ts:127` says that a name resolves to the same page in prose and in code blocks |
| `BundleCache_claims` | `ImagesNeverDangle` | a refresh that fails on a missing image leaves the new manifest under the old record, which the next fetch accepts |
| `BundleCache_claims` | `CachedImagesWhole` | the probe asks of an image only that its file exists, so one whose copying was cut short is served under the record of an earlier fetch, against the comment that a damaged cache self-heals by refetching (`BundleFetch.ts:177`) |
| `BundleCache_claims` | `ReplacedNeverMerged` | the failure of the removal is ignored (`BundleFetch.ts:261`) and the new archive is copied over the old one, so a manifest that the new one no longer has is read with it, against the comment above: "Replace, never merge" |
| `RenderPass_claims` | `CutsAsDocumented` | only the last cut-after counts, and none that stands before a cut-before, so lines behind a first cut-after are copied, where `Examples.ts:115` says that it removes itself and every line after |
| `LlmsFiles_claims` | `FirstPartyExcluded` | a versioned package is known as `name (version)` (`config-resolution.ts:707`), so the exclusion at `external-types.ts:51` misses one that asks for itself by its bare name, and the published declarations replace those made here, which `external-types.ts:24` calls load-bearing to prevent |
| `LlmsFiles_claims` | `EachUnderItsOwn` | configurations are told apart by `String(tsconfig)` (`type-environment.ts:120`), so of two packages whose tsconfig functions have one text and return different options one is checked under the other's, against "each documented package is type-checked under its OWN configuration" (`config-resolution.ts:420`) |
| `ApiPages_claims` | `AnchorsUnique` | the second and third overload of a method have one anchor |
| `ApiPages_claims` | `LinksNotNested` | a part of a name that is already a link is linked again |
| `RenderPass_claims` | `DeclarationsParse` | a constant written as an arrow function inside a namespace is printed without its keyword |
| `LlmsFiles_claims` | `ApiTextWritten` | the prefix of a route is all of its segments but the last (`llms-program.ts:100`), so a portal's packages in a language that is not the site's are looked for below `en/kit`, where there is no index, and their `llms-api.txt` is never written, against `docs/09-llms.md:48`; `ApiTextComplete`, part of `FilesListTheirPages`, says of every other site that it is |

## 5. What is proved

`tlapm` checks these for every value of the constants that satisfies the named
assumptions of the modules, which say only that values of different kinds differ
(`NoneAssumption`: `None` is no text and no plan; `ConstantsAssumption`: items,
categories, the root file and the landing page are four kinds of file; a directory is
not `None`; fibers that load are not fibers that clean up; and so on). TLC evaluates
every one of them on every run.

| Theorem | Statement | Argument |
|---|---|---|
| `IncrementalBuildProofs!TypeCorrect` | `Spec => []TypeOK` | `TypeInv` adds to the type invariant that an idle build holds nothing in memory, without which a decision could outlive the item it was made for |
| `IncrementalBuildProofs!NothingLeftOver` | `Spec => []NoLeftovers`, under every fault | `Swept`: while the build is undisturbed, after the row sweep only generated files have rows, after the scan every other file is queued, and what is generated is expected |
| `IncrementalBuildProofs!PagesAreCurrent` | `Spec => []PagesCurrent` if no process dies, no snapshot statement fails and no page is deleted (`Benign`) | `Faithful`: a row matches its file unless the page was just written; an unchanged verdict and a finished write both mean the file says what the model says; neither sweep ever queues a generated file |
| `TypeRegistryProofs!TypeCorrect` | `Spec => []TypeOK` | inductive as it stands |
| `TypeRegistryProofs!MutualExclusion` | `Spec => []OneMutatorAtATime` | inductive with the types: every way out of the semaphore, failures and death included, leaves the writing states |
| `TypeRegistryProofs!RowsAreBacked` | `Spec => []NoPhantomHit`, under every fault | `Consistent` adds what the holder of the semaphore knows: before the first rename nothing else is retired, after the second the live tree is whole, and what a keeper removes has no row any more |
| `TypeRegistryProofs!LoadsAreWhole` | without keepers, `Spec => []ServedWhole` | `Whole`: every tree, live or retired, is absent or complete, and so is every listing |
| `TypeEnvironmentsProofs!CacheIsSound` | `Spec => []StoreSound`, for any packages, options, declarations, compilers, builds and faults | `IInv`: each generation in memory is true of its own hash; each environment writes to the generation of its own declarations, even one kept from an earlier build; while a build runs the service holds that build's generation; hence a save is true of the hash it is filed under |
| `IncrementalBuildProofs!LandingPageIsKept` | `Spec => LandingPagePreserved` if looking at the disk never fails | `Spared`: what the build has generated so far is disjoint from what it is to remove, and the landing page is generated before any sweep starts |
| `IncrementalBuildProofs!RowsFollowFiles` | `Spec => RowsNeverLead`, under every fault | `Remembered`: until its row is committed, what the build knows of a file is what the database says, and what it means to record is what the disk says |
| `IncrementalBuildProofs!DatesFollow` | `Spec => DatesFollowContent`, under every fault | `Remembered` for the publication date; `Dated` for the modification date: nothing is dated after the running build and only what this build wrote is dated by it |
| `IncrementalBuildProofs!NavigationIsCurrent` | `Spec => []NavigationCurrent` under `Benign` | `NavFaithful`: a navigation file and its row agree, or the row waits for its commit in memory and says what the file will say; a navigation file that was generated says what the model says |
| `IncrementalBuildProofs!DatesAreHonest` | `Spec => ModifiedTimeHonest` if, besides, the disk can be read (`Legible`) | `Honest`: a page not yet written is only to be rewritten for content it does not have |
| `IncrementalBuildProofs!RebuildsAreQuiet` | `Spec => RebuildIsQuiet` under `Legible` | `Quiet`: a build that follows a settled one finds exactly the expected files, and every decision it makes is that the page is unchanged |
| `IncrementalBuildProofs!BuildImplementsSite` | `Spec => ImplementsSite` if removals succeed, no process dies, no statement fails and no file disappears (`Removable`) | `Cleared`: after the scan, every file that was not generated is queued; then one lemma for the initial states and one with a step per action |
| `TypeEnvironmentsProofs!WorkIsSaved` | `Spec => SavedWork` | `Kept`: what the first build of a process shows is among the results of the generation it opened, and no later build of the process saves anything |
| `TypeEnvironmentsProofs!LinksLeadRight` | `Spec => []BlockLinksRight` if no two packages are mounted under one scope (`MountedApart`) | `Linked`: each scope's linker is that of the package mounted there, and no other scope has one; `Leading`: from the clearing on, a name leads nowhere or to a package that documents it, and somewhere once such a package is generated |
| `TypeEnvironmentsProofs!FirstHoversAreCurrent` | `Spec => []FirstHoversCurrent` if every package has a first segment of its own (`Apart`) | `Keyed`: from the end of registration on, the scope a package is looked up under holds its own options; `Kept` for the environment behind them; `StoreSound` for what comes out of the cache |
| `ExternalTypesProofs!ResourcesAreBounded` | `Spec => []ResourcesBounded`, for any registry, references, budgets and faults | `LoadInv`: what a load asks for at each stage, what of the registry's answers it knows, and that at most `FileSlots` files are in flight beyond a total within the budget; `FoldTheorems!SumSplits` and `SumBounded` turn the counts into bytes |
| `ExternalTypesProofs!WhatIsLoadedIsMerged` | `Spec => []LoadedIsMerged`, likewise | `MergeInv`: nothing documented here is asked for, and after the merge no load is left to change; the merge itself is a fold over the loads, followed step by step with `FoldTheorems!SequenceFold` |
| `BundleCacheProofs!WordIsKept` | `Spec => []CacheKeepsItsWord`, for any release, archives, requests and failures | `Inv`: while a slot is written it does not count as fetched, what a fetch has listed is on disk, and its record is written last, as exactly that list. `WordInv` adds what is being copied (`Placed`, `Copied`) and what stays (`Kept`): a slot whose archive was not replaced holds files of that archive only, whatever removal failed, some of them perhaps torn, and a record of it lists all that the archive promises; what the running fetch has listed is in its slot as downloaded. `WholeOrUnread`: a directory with every layer of a bundle, and besides only files of it, reads as that bundle or, if a layer is torn, not at all |
| `RenderPassProofs!ErrorsAreNamed` | `Spec => []ErrorsNameTheirPage`, for any site and any order of steps | `AtOnce`: a block that waits for anything before it has been checked is on an authored page; so whatever is attributed to the page noted last is not on a generated one |
| `RenderPassProofs!IssuesAreComplete` | `Spec => []IssuesComplete`, likewise | `ToldAll`: while pages are rendered the sinks hold the type errors of exactly the blocks that are past their check, the formatting errors of those that are past the formatter, and counters that equal the sizes of these sets; no event is emitted for a block that was told of before. `EmitSteps` and `FlattenSteps` take lists of events apart |
| `RenderPassProofs!ReportsHold` | `Spec => []ReportHolds`, for any site, any order of steps, any times and any limit on samples | `ReportInv`: at every moment each series of each metric, and the tally of each page, is the sum over the blocks that are done (`Measures`), and the samples are the slowest of these in descending order, the limit's number if there are that many (`Ranked`). `LinkReport` is the step that ends a block; `SameMeasures` says of every other event that it leaves the sums alone. The report sums over series and not over blocks: `SumOfParts` turns one into the other, as every block is of exactly one series |
| `RenderPassCode!FilesImportWhatTheyUse` | `Spec => []ImportsFit`, for any site | the extractor is a fold that remembers one reference per symbol, the last one (`ExtractKnows`, by a least counterexample over the length of the list); what a file shows is among what its entry point refers to (`MentionsReferred`), so if all references to a symbol agree, the remembered one binds the same name. `FilesInv` carries this through `Declare` and `PrependImports` |
| `RenderPassCode!DeclarationsShow` | `Spec => []VisibleIsDeclared`, for any site | line by line: the cut removes exactly the hidden imports (`ImportsHidden`), `MemberFormat` exactly the opening and the closing of the class put around a member, and both leave every line of the item |
| `RenderPassCode!CopiesAreWhatShows` | `Spec => []CopyIsWhatShows`: a signature copies what the hide-cut transformer leaves of it; an example or a fence with paired cuts, in which nothing is cut again behind a cut-after, copies the lines that stand behind every cut-before, before the cut-after and outside every pair; for any site and any number of lines | the ranges that the code pairs with a stack balance (`RangesBalance`), so a line is in one of them exactly if more cuts have started than ended before it (`BegunIsEnclosed`); shifting them by what a cut-before takes away keeps what they enclose (`StripKeeps`, `CopyShown`). Behind a cut-after the claim is false (`RenderPass_claims`), hence the condition. For the formatter, `SpacedIsSpacedOut`: blank lines go only between lines of which neither is a directive |
| `RenderPassCode!LinksLeadToTheirMembers` | `Spec => []MemberLinksRight`, for any site and any routes | the scope stack is a fold over the lines (`StackGoesOn`); as long as no line of a class closes more than it opens, the class stays on the stack until its last line (`ClassIsOpen`, with `ScopeEntered` and `ScopeKept`), and what is on it while a line is read is the class the line stands in (`ScopeIsBody`). `LinksInv` says that a block has no links until it is done, and then those of its lines under the routes of its page |
| `RenderPassCode!CommentsSayWhatIsWritten` | `Spec => []CommentsSayTheDoc`, for any texts, blocks, items and members | what is said of lists put together is what is said of each, put together (`ImagesJoin`, `FlatOfFlats`), so dropping words without a plain text and paragraphs without words loses no word (`PlainSays`). Groups whose blank lines stand apart stay so when they are gathered (`GroupJoins`, and `CommentSteps` over the fold), and say one after the other what each says (`CommentSpeaks`). `FilesInv` keeps the comments of a file those of its items |

The conditions are those the code needs. `Benign` cannot be dropped from `PagesAreCurrent`:
`IncrementalBuild_interrupted` is the counterexample. If the disk cannot be read the code takes a page or
the landing page for absent and writes it anew, hence `Legible` and the condition of `LandingPageIsKept`;
a file whose removal failed outlives the build, which `DocsSite` has no step for, hence `Removable`. A lost
database is admitted by all of them. `MountedApart` and `Apart` exclude packages that share a first segment
and packages at the site root, which section 4 shows to be wrong (`TypeEnvironments_nested`,
`TypeEnvironments_root`), and nothing else. `Keepers = {}` cannot be dropped from `LoadsAreWhole`, as
`clearCache` may remove files under a reader. `RegistryAssumption` says what the registry's answers are,
not that they are right: a published version has a tree, a tree has finitely many files, and sizes are
natural numbers. `CacheAssumption` and `NamesAssumption` say as much of archives: one is a list of finite
directories, of which the first is there, the images of a manifest are a list, as its schema demands, and a model file has a
name. Nothing is assumed of what a directory holds: any layer may be absent, misshapen or not JSON. `SitesAssumption`
says that entry points, items, members, references, examples, fences and their lines come as lists, that what takes time takes a
natural number of milliseconds (the code subtracts clock readings and does not round), that a line has some
number of braces, that comments are made of texts, which are lists of paragraphs, and paragraphs of words, that a reference is written with at least one identifier, that items have names, and that a member of a class or
an interface prints as at least one line, none of which begins a class, and has no members itself; `SlowestAssumption`
says that at least one sample is kept, where `render-sink.ts` keeps 25.

`ImportsFit` promises an import only for symbols that the entry point refers to in one way (`OneWay`), members its
file does not print included. The proof is what showed that printed ones are not enough: the extractor walks
every member and keeps one reference per symbol, so a member of a nested namespace, which the file leaves out, can be
the one that decides under which name the symbol is imported, and the name the file uses is then not imported. TLC finds
that site in a few steps when `Referred` is narrowed to what is printed.

Induction over data. `FiniteSetsExt`, `SequencesExt` and `Folds` define their folds by recursion on a set, and the library's
induction theorems take operators, which the provers cannot instantiate. `FoldTheorems` does without:
an operation is a function, a claim about all subsets of a finite set becomes the set of those it fails
for, and that set has a minimal element when it is not empty (`MinimalSubset`, from the library's
well-foundedness of the strict subset relation, itself first order). So the recursion has a solution
(`RecursionExists`), only one, it stays in the set its steps stay in, over a sequence it takes the elements
in their order (`SequenceFold`), and sums split and are bounded (`SumSplits`, `SumBounded`). `SumOf` is
`MapThenSumSet` of a function: it is determined (`SumOfUnique`), grows by what is added (`SumOfSteps`), and the
sums over the parts of a partition make the sum over the whole (`SumOfParts`).

Only model-checked: the properties of `ApiPages` and `LlmsFiles`. Most of them compare two computations over
one input (the routes against the pages, the options against what they resolve to), made of texts, routes and
files filtered with `SelectSeq`. Its test is an operator, so nothing can be said of it for every test: each
filter needs a lemma of its own, as `RenderPassCode` has them for the lists it joins with `FlattenSeq`. Those lemmas
are not written. `LoadsEnd` and `BatchEnds`, since liveness and `ENABLED` are
out of the prover's reach. No module here uses a RECURSIVE operator.

## 6. What is left out, and why

* Text: the wording of pages, frontmatter, highlighting, themes and labels. SHA-256 is
  taken to be injective: a hash is the thing it is computed from.
* Incremental build: edits happen between builds only (the watcher starts a new `config()`
  after a change, and nothing reads the model while a build runs but the build); the sweep of
  emptied directories and the schema migrations; several packages whose output directories nest, since two
  builds over one directory multiply the largest instance by itself. The two dates of a page's graph, which
  are made before those of its tags, are in `PageHead` and not in the build.
* Type registry: several processes on one cache directory, failing renames and their roll-back, the
  degraded in-memory cache, `resolveImport` and `getTypeEntries` (neither adapter calls them). `ExternalTypes` takes the
  cache of a package as given when a load starts.
* Type environments: what the type checker itself answers.
* `BundleCache`: one fetch at a time; npm requests name an exact version; one missing file at a time; the unpacking
  of an archive. A layer that was cut short is taken not to be JSON.
* `Bundles`: the schemas, beyond that a misshapen layer is refused.
* `ApiPages`: parsing, the flattening of TSDoc, tables and prose that cannot be linked to. The categories of an
  instance have distinct folders: with two categories in one folder items collide, which the code
  refuses or overwrites depending on the adapter, and no property speaks of it.
* `RenderPass`: comments of enum members, the package's header, examples that are not TypeScript; the rewriting
  Prettier does, of which only the blank lines between sections are modelled; the markup of tooltips. Twoslash and
  Shiki answer as the example says they do.
* `Reports`: console and trace output and the heartbeat, which change nothing.
* `CodeBlocks`: how a container's members are grouped and filtered (they are given as the page shows them) and how a
  namespace's are abbreviated.
* `CompilerConfig`: of a function that returns options, its text and what it returns. `ScopesCheckedAsConfigured`
  and `DocumentedDeclarationsStand` say which packages they except; what happens to those is in section 4.
* `LlmsFiles`: two writers of one file whose bytes mix, as when the longer of two texts is written first and the other
  over it: the file is empty or what one of them wrote. The titles and sections of the files.
* `SiteLayout`, `PageHead`: display names, locales beyond the choice of the default, theme options, warnings; search metadata is
  always on; two images of one name in a bundle are outside the instance (the later one then stands for both).
* The VitePress adapter's Twoslash cache and its running of API Extractor; the browser components, the preview
  server, example sites and the agent plugin: conversions, or pure input and output, without state that a
  property of the system speaks of.

`PROJECT.json` "components" gives the status of each part.

## 7. Plan

1. Proofs for `LlmsFiles` (`FilesListTheirPages`, over any configuration of scopes), with its filters written as folds.
2. Proofs for `ApiPages`: `EveryItemHasItsPage`, from categories with distinct folders.
3. Two builds over nested directories; several fetches of one slot.
