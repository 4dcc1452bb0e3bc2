----------------------------- MODULE SiteLayout ------------------------------
(* What the RSPress adapter makes of its options: for each documented package, *)
(* or each version of the one package, the directory its pages are written to, *)
(* the route they are served at, its bundle's image, and the declarations the  *)
(* packages and what they depend on put into one virtual file system. A route, *)
(* or a directory of the site, is the sequence of its segments.                *)
EXTENDS CompilerConfig

CONSTANTS
  Rank,          \* the order of the versions a range begins with, where one can be read
  Unscoped,      \* a package's name without its scope
  Segments,      \* the segments of a package's name in a route
  ModelFile      \* ModelFile[package]: the model in a package's bundle

\* Options: the documented packages (`apis` when `multi`, else the one `api`),
\* RSPress's versions and default version, its locales and language, and the
\* tsconfig files by name. A package.json is a bundle's, with the dependencies
\* `deps`, `dev` and `peers` and a `manifest`.

-----------------------------------------------------------------------------
(* Directories and routes. *)

OrNone(list)  == IF list = <<>> THEN <<Absent>> ELSE list
Present(list) == SelectSeq(list, LAMBDA s : s # Absent)
Segment(s)    == IF s = Absent THEN <<>> ELSE <<s>>

\* Mutation of PathOf: the default version is served under its own name.
PathOfEveryVersion(o, base, folder, version, locale) ==
  [dir   |-> Present(<<version, locale>>) \o base \o Segment(folder),
   route |-> Present(<<version, IF locale = o.lang THEN Absent ELSE locale>>)
             \o base \o Segment(folder)]

\* The default version and language have no segment in a route.
PathOf(o, base, folder, version, locale) ==
  [dir   |-> Present(<<version, locale>>) \o base \o Segment(folder),
   route |-> Present(<<IF version = o.default THEN Absent ELSE version,
                       IF locale = o.lang THEN Absent ELSE locale>>)
             \o base \o Segment(folder)]

\* The paths of all versions and locales.
DeriveOutputPaths(o, base, folder, versions) ==
  LET vs == OrNone(versions)
      ls == OrNone(o.locales)
  IN [n \in 1 .. Len(vs) * Len(ls) |->
        PathOf(o, base, folder, vs[(n - 1) \div Len(ls) + 1], ls[((n - 1) % Len(ls)) + 1])]

\* An apiFolder of null is taken for one that was left out.
FolderOf(api) == IF api.folder = Absent THEN "api" ELSE api.folder
BaseOf(o, api) ==
  IF api.base # Absent THEN api.base ELSE IF o.multi THEN <<Unscoped[api.pkg]>> ELSE <<>>

\* The route a package's files for language models belong to; none is known
\* for the versions of a package, which are not found by the name they have.
PackageRoutes(o) == [p \in {api.pkg : api \in ToSet(o.apis)} |->
  BaseOf(o, o.apis[CHOOSE n \in DOMAIN o.apis : o.apis[n].pkg = p])]

Invalid(o) ==
  LET keys == {v.version : v \in ToSet(Head(o.apis).versions)}
  IN o.versions # <<>> /\ (o.multi \/ keys # ToSet(o.versions))

-----------------------------------------------------------------------------
(* Packages found in a directory. *)

\* Placeholders in a route stand for the folder's and the package's name.
Interpolated(route, folder, pkg) ==
  FlattenSeq([n \in DOMAIN route |->
    CASE route[n] = "{dirname}" -> <<folder>> [] route[n] = "{packageName}" -> Segments[pkg] [] OTHER -> <<route[n]>>])

Unset == [f \in {"base", "folder", "package", "tsconfig", "options", "externals", "auto", "og", "loader"} |-> Absent]

\* What the caller gives, but for a route, stands over what is found.
FromDir(folder, over) ==
  LET files == folder.files
      name  == PackageName(files)
      found == Discover(files, [n \in {"name"} |-> name])
      given == [f \in DOMAIN over \ {"base"} |-> over[f]]
  IN IF "package.json" \notin DOMAIN files \/ ~Parses(files, "package.json") \/ name = Absent \/ ~Ok(found) THEN Broken
     ELSE Overlay(Overlay(Unset,
            [pkg |-> name, bundle |-> files, versions |-> <<>>, package |-> files["package.json"],
             base |-> IF "base" \in DOMAIN over THEN Interpolated(over.base, folder.name, name) ELSE Absent,
             tsconfig |-> IF "tsconfig.json" \in ToSet(found.layers)
                          THEN [form |-> "path", name |-> <<folder.name, "tsconfig.json">>] ELSE Absent]), given)

\* Every folder beside it must be a model's; folders come in order of their names.
IsModelFolder(folder) == "package.json" \in DOMAIN folder.files /\ Models(folder.files) # {}
FromParentDir(entries, over) ==
  LET folders == SelectSeq(entries, LAMBDA e : e.directory /\ ~e.hidden)
      apis    == [n \in DOMAIN folders |-> FromDir(folders[n], over)]
  IN IF folders = <<>> \/ (\E f \in ToSet(folders) : ~IsModelFolder(f)) \/ Broken \in ToSet(apis) THEN Broken ELSE apis

-----------------------------------------------------------------------------
(* Models and bundles. `v` is the package itself or a version of it. *)

\* A model is read from its file or comes from a function, which may answer
\* with none.
ModelLoads(v, pkg) ==
  IF v.loader = Absent THEN ModelFile[pkg] \in DOMAIN v.bundle /\ Fits(v.bundle, ModelFile[pkg]) ELSE v.loader = "model"

\* The bundle beside a package's model. A manifest that cannot be read stops the
\* build; anything else amiss, or no file, leaves a bundle that has only a name.
Inferred(pkg) == [error |-> "", name |-> pkg, model |-> [name |-> pkg], layers |-> Nothing]
ApiBundle(v, pkg) ==
  LET bundle == Load(v.bundle, [model |-> ModelFile[pkg], name |-> pkg])
  IN IF v.loader = Absent /\ (Ok(bundle) \/ bundle.error = "tsdoctor.json") THEN bundle ELSE Inferred(pkg)

ImagesOf(bundle) ==
  LET images == Resolve(bundle, Nothing).openGraph IN IF images = Absent THEN <<>> ELSE images.value

Under(config) == <<Unscoped[config.pkg]>> \o Segment(config.version)

-----------------------------------------------------------------------------
(* External packages. *)

Specs(deps) == LET names == SetToSeq(DOMAIN deps)
               IN [n \in DOMAIN names |-> [name |-> names[n], version |-> deps[names[n]]]]

\* The version that begins the highest of some ranges; those that begin with
\* none are passed over, and the last is taken when all do.
HighestVersion(ranges) ==
  LET known == {n \in DOMAIN ranges : ranges[n] \in DOMAIN Rank}
  IN IF known = {} THEN ranges[Len(ranges)]
     ELSE ranges[CHOOSE n \in known :
            \A k \in known : Rank[ranges[k]] < Rank[ranges[n]]
                             \/ (Rank[ranges[k]] = Rank[ranges[n]] /\ n <= k)]

\* Packages of types that are of use in examples.
TypeUtilities == {"type-fest", "ts-extras"}
Among(deps, names) == [p \in DOMAIN deps \cap names |-> deps[p]]
AutoDefault == {"dependencies", "peerDependencies", "autoDependencies"}

\* The kinds of dependency that are asked for, each package once.
AutoDetected(package, auto) ==
  LET When(kind, deps) == IF kind \in auto THEN Specs(deps) ELSE <<>>
      dev == IF "autoDependencies" \in auto THEN Among(package.dev, DOMAIN package.dev \ TypeUtilities) ELSE package.dev
      all == When("dependencies", package.deps) \o When("devDependencies", dev)
             \o When("peerDependencies", package.peers)
             \o When("autoDependencies", Among(package.dev, TypeUtilities))
      Of(p) == LET its == SelectSeq(all, LAMBDA s : s.name = p) IN [n \in DOMAIN its |-> its[n].version]
      names == SetToSeq({s.name : s \in ToSet(all)})
  IN [n \in DOMAIN names |-> [name |-> names[n], version |-> HighestVersion(Of(names[n]))]]

\* What a version says stands over what its package says.
Either(v, api, field) == FirstOf(<<At(v, field), api[field]>>)
NoPackage == [manifest |-> Absent, deps |-> Nothing, dev |-> Nothing, peers |-> Nothing]
PackageOf(api, v) ==
  LET given == Either(v, api, "package") IN IF given \in {Absent, Broken} THEN NoPackage ELSE given

\* Those listed by hand may not disagree with the peer dependencies.
Conflicts(api, v) ==
  LET listed == Either(v, api, "externals")
      peers  == PackageOf(api, v).peers
  IN listed # Absent /\ \E s \in ToSet(listed) : s.name \in DOMAIN peers /\ peers[s.name] # s.version
ExternalPackages(api, v) ==
  LET listed == Either(v, api, "externals")
      auto   == FirstOf(<<Either(v, api, "auto"), AutoDefault>>)
  IN IF listed # Absent THEN listed ELSE AutoDetected(PackageOf(api, v), auto)

-----------------------------------------------------------------------------
(* Resolution. *)

\* A version of a package has a name of its own.
Label(pkg, version) == <<pkg, version>>

\* A package, or the version `v` of one. An image option of the version is
\* preferred to the package's, and that to the site's.
ConfigOf(o, api, v) ==
  LET path == DeriveOutputPaths(o, BaseOf(o, api), FolderOf(api), Segment(v.version))[1]
  IN [pkg |-> api.pkg, version |-> v.version, label |-> Label(api.pkg, v.version),
      dir |-> path.dir, route |-> path.route,
      og |-> FirstOf(<<Either(v, api, "og"), o.og>>), manifest |-> PackageOf(api, v).manifest,
      bundleDir |-> v.bundle, bundle |-> ApiBundle(v, api.pkg),
      images |-> ImagesOf(ApiBundle(v, api.pkg)), externals |-> ExternalPackages(api, v)]

\* What a site documents, each package as the only version of itself.
Documents(o) ==
  IF o.versions # <<>> THEN [n \in DOMAIN Head(o.apis).versions |-> <<Head(o.apis), Head(o.apis).versions[n]>>]
  ELSE [n \in DOMAIN o.apis |-> <<o.apis[n], [version |-> Absent, bundle |-> o.apis[n].bundle, loader |-> o.apis[n].loader]>>]
Configs(o) == IF Invalid(o) THEN <<>> ELSE [n \in DOMAIN Documents(o) |-> ConfigOf(o, Documents(o)[n][1], Documents(o)[n][2])]

\* The compiler options of a package are registered under the first segment of
\* its route, or its name at the root, whatever versions it has.
ScopeOf(base, pkg) == IF base = <<>> THEN pkg ELSE Head(base)
Scoped(o) == [n \in DOMAIN o.apis |->
  [scope |-> ScopeOf(BaseOf(o, o.apis[n]), o.apis[n].pkg), tsconfig |-> o.apis[n].tsconfig, options |-> o.apis[n].options]]

Fails(o) ==
  \/ Invalid(o) \/ ConfigFails(o.tsconfigs, Scoped(o))
  \/ \E d \in ToSet(Documents(o)) :
       \/ ~ModelLoads(d[2], d[1].pkg) \/ Unmade(d[1].pkg)
       \/ Either(d[2], d[1], "package") = Broken \/ Conflicts(d[1], d[2])
       \/ ~Ok(ApiBundle(d[2], d[1].pkg))

\* Declarations, by file; a later package's overwrite an earlier one's.
Merge(vfs, pkg, version, origin) ==
  [f \in DOMAIN vfs \cup ToVfs(pkg) |->
     IF f \in ToVfs(pkg) THEN [pkg |-> pkg, version |-> version, origin |-> origin] ELSE vfs[f]]

Documented(configs) ==
  FoldLeft(LAMBDA vfs, c : Merge(vfs, c.pkg, c.version, "model"), Nothing, configs)

\* Mutation of ToLoad: packages that are documented here are fetched as well.
ToLoadAll(configs) == FlattenSeq([n \in DOMAIN configs |-> configs[n].externals])
\* What the packages depend on and this site does not document itself.
ToLoad(configs) ==
  LET labels == {c.label : c \in ToSet(configs)}
  IN SelectSeq(FlattenSeq([n \in DOMAIN configs |-> configs[n].externals]),
               LAMBDA s : Label(s.name, Absent) \notin labels)

\* The registry drops the versions it does not find; one that could not be
\* opened hands the specs back unresolved, and loads none of them.
ResolveVersions(registry, specs) ==
  IF registry.opens THEN SelectSeq(specs, LAMBDA s : s.name \in registry.resolves) ELSE specs
Loads(registry) == registry.opens /\ registry.loads

\* It answers for all that are found or not at all.
CombinedVfs(configs, registry) ==
  LET found == ResolveVersions(registry, ToLoad(configs))
  IN IF ~Loads(registry) THEN Documented(configs)
     ELSE FoldLeft(LAMBDA vfs, s : Merge(vfs, s.name, s.version, "registry"), Documented(configs), found)

\* The site's public directory, with the images of every bundle.
PublicDir(configs) ==
  FoldLeft(LAMBDA public, c : Publish(c.bundleDir, c.images, Under(c), public).public,
           Nothing, configs)
UrlsOf(config) == Publish(config.bundleDir, config.images, Under(config), Nothing).urls
=============================================================================
