------------------------------ MODULE LlmsFiles ------------------------------
(* After RSPress has built a site it has left an index of pages for language    *)
(* models (llms.txt) and their text (llms-full.txt), for the default version at *)
(* the root and for every other under its name. The plugin takes the API pages  *)
(* out of these and writes files of its own for each package. It treats every   *)
(* prefix of an API's route as a version, all of them at the same time, and all *)
(* packages of one at the same time. A write empties the file before it fills   *)
(* it, which those can see who read the file meanwhile.                         *)
EXTENDS PageHead

CONSTANTS
  Sites,   \* options, registry answers and llms settings the plugin may be given
  Pages,   \* Pages[package]: the pages of its API, below its route
  Guides   \* the authored pages of a site, by their routes without a version

VARIABLES
  site,    \* the options
  configs, \* the documented packages they resolve to
  order,   \* the packages in the order in which their pages were done
  files,   \* the files in the output directory: an index or a text lists pages
  prefix,  \* prefix[p]: how far it is, and the two files it read
  package  \* package[p, n]: what is being written for package n under p

vars == <<site, configs, order, files, prefix, package>>

Results == DOMAIN configs
Below(base, url) == IsStrictPrefix(base, url)
UrlsUnder(base, list) == SelectSeq(list, LAMBDA u : Below(base, u))
PagesOf(n) == {configs[n].route \o page : page \in Pages[configs[n].pkg]}
ApiRoutes  == UNION {PagesOf(n) : n \in Results}
Exists(dir, name) == <<dir, name>> \in DOMAIN files
Contents(dir, name) == IF Exists(dir, name) THEN files[<<dir, name>>] ELSE <<>>
Written(dir, name, list) ==
  [f \in DOMAIN files \cup {<<dir, name>>} |-> IF f = <<dir, name>> THEN list ELSE files[f]]

\* Every segment of a route but the last, when there are several.
RoutePrefixes == {<<>>} \cup {Front(configs[n].route) : n \in {k \in Results : Len(configs[k].route) > 1}}

\* Found by the package's name, which a version's label is not; known only when
\* packages have files of their own.
PackageRoute(n) ==
  LET routes == PackageRoutes(site)
  IN IF site.scopes /\ configs[n].version = Absent THEN routes[configs[n].pkg] ELSE configs[n].route

\* The root takes every package, any other prefix those below it.
ResultsOf(p) == IF p = <<>> THEN Results ELSE {n \in Results : Below(p, configs[n].route)}

-----------------------------------------------------------------------------
(* What RSPress leaves: an index and a text for every version and language, of  *)
(* its authored pages and the API pages served below it.                        *)

HomeOf(o, v, l) ==
  Segment(IF v = o.default THEN Absent ELSE v) \o Segment(IF l = o.lang THEN Absent ELSE l)
ApiPagesAt(o, cs, v, l) ==
  IF l # OrNone(o.locales)[1] THEN {}
  ELSE UNION {{cs[n].route \o page : page \in Pages[cs[n].pkg]} : n \in {k \in DOMAIN cs : cs[k].version = v}}

Emitted(o, cs) ==
  LET all == ToSet(OrNone(o.versions)) \X ToSet(OrNone(o.locales))
      at(dir) == CHOOSE vl \in all : HomeOf(o, vl[1], vl[2]) = dir
  IN [f \in {HomeOf(o, vl[1], vl[2]) : vl \in all} \X {"llms.txt", "llms-full.txt"} |->
        SetToSeq({f[1] \o g : g \in Guides[o.shape]} \cup ApiPagesAt(o, cs, at(f[1])[1], at(f[1])[2]))]

\* The pages of two packages are made at a time.
Completions ==
  {o \in [Results -> Results] :
     /\ IsInjective(o)
     /\ \A i \in Results : Cardinality({j \in Results : j > i /\ o[j] < o[i]}) <= 1}

Init ==
  /\ site \in Sites /\ ~Fails(site)
  /\ configs = Configs(site)
  /\ order \in Completions
  /\ files = Emitted(site, configs)
  /\ prefix = [p \in RoutePrefixes |-> [stage |-> "index", txt |-> <<>>, full |-> <<>>]]
  /\ package = [w \in {<<p, n>> \in RoutePrefixes \X Results : n \in ResultsOf(p)} |-> [stage |-> "waiting", blank |-> FALSE]]

-----------------------------------------------------------------------------
(* The files of a prefix. *)

To(p, stage) == [prefix EXCEPT ![p].stage = stage]

\* Without an index there is nothing to do under the prefix.
ReadIndex(p) ==
  /\ prefix[p].stage = "index"
  /\ prefix' = IF Exists(p, "llms.txt")
               THEN [prefix EXCEPT ![p] = [@ EXCEPT !.stage = "text", !.txt = Contents(p, "llms.txt")]]
               ELSE To(p, "done")
  /\ UNCHANGED <<site, configs, order, files, package>>

ReadText(p) ==
  /\ prefix[p].stage = "text"
  /\ prefix' = [prefix EXCEPT ![p] = [@ EXCEPT !.stage = "write index", !.full = Contents(p, "llms-full.txt")]]
  /\ UNCHANGED <<site, configs, order, files, package>>

\* The pages that are not of an API: those of no package first, then each
\* package's, the first done whose route they are under, and a link to its API.
Pointer(n) == PackageRoute(n) \o <<"llms-api.txt">>
Home(url) ==
  LET its == {n \in Results : IsPrefix(PackageRoute(n), url)}
  IN IF its = {} THEN 0 ELSE order[SelectInSeq(order, LAMBDA n : n \in its)]
\* Mutation of Structured: a page is put with every package whose route it is under.
StructuredByAll(list) ==
  LET others == SelectSeq(list, LAMBDA u : u \notin ApiRoutes)
  IN SelectSeq(others, LAMBDA u : Home(u) = 0)
     \o FlattenSeq([i \in DOMAIN order |-> Append(SelectSeq(others, LAMBDA u : IsPrefix(PackageRoute(order[i]), u)), Pointer(order[i]))])
Structured(list) ==
  LET others == SelectSeq(list, LAMBDA u : u \notin ApiRoutes)
      Group(n) == SelectSeq(others, LAMBDA u : Home(u) = n)
  IN Group(0) \o FlattenSeq([i \in DOMAIN order |-> Append(Group(order[i]), Pointer(order[i]))])

\* Without files of their own the packages get a line each that is no entry.
Filtered(list) == SelectSeq(list, LAMBDA u : u \notin ApiRoutes)
Index(list)    == IF site.scopes THEN Structured(list) ELSE Filtered(list)

WriteIndex(p) ==
  /\ prefix[p].stage = "write index"
  /\ files' = Written(p, "llms.txt", Index(prefix[p].txt))
  /\ prefix' = To(p, IF prefix[p].full = <<>> THEN "packages" ELSE "write text")
  /\ UNCHANGED <<site, configs, order, package>>

WriteText(p) ==
  /\ prefix[p].stage = "write text"
  /\ files' = Written(p, "llms-full.txt", Filtered(prefix[p].full))
  /\ prefix' = To(p, "packages")
  /\ UNCHANGED <<site, configs, order, package>>

\* The packages start together, and the prefix is done when they are.
StartPackages(p) ==
  /\ prefix[p].stage = "packages"
  /\ prefix' = To(p, "done")
  /\ package' = [w \in DOMAIN package |->
                   IF w[1] = p /\ site.scopes THEN [package[w] EXCEPT !.stage = "llms.txt"] ELSE package[w]]
  /\ UNCHANGED <<site, configs, order, files>>

-----------------------------------------------------------------------------
(* The files of a package, written from what its prefix read. *)

ApiEntries(n, list) == UrlsUnder(configs[n].route, list)

GuideEntries(n, list) ==
  SelectSeq(list, LAMBDA u : IsPrefix(PackageRoute(n), u) /\ u \notin ApiRoutes)

\* What a package's file is to hold; a text without pages is not written.
FileOf(n, name, read) ==
  LET guides == GuideEntries(n, read.txt)
      docs   == SelectSeq(read.full, LAMBDA u : u \in ToSet(guides))
      api    == ApiEntries(n, read.full)
  IN CASE name = "llms.txt"      -> guides \o ApiEntries(n, read.txt)
       [] name = "llms-full.txt" -> docs \o api
       [] name = "llms-api.txt"  -> IF site.apiTxt THEN api ELSE <<>>
       [] name = "llms-docs.txt" -> docs

FileNames == <<"llms.txt", "llms-full.txt", "llms-api.txt", "llms-docs.txt">>

\* The file a package writes after one.
After(name, n, read) ==
  LET later == SubSeq(FileNames, SelectInSeq(FileNames, LAMBDA f : f = name) + 1, Len(FileNames))
      kept  == SelectSeq(later, LAMBDA f : FileOf(n, f, read) # <<>>)
  IN IF kept = <<>> THEN "done" ELSE Head(kept)

\* Files that another prefix reads are seen empty before they are filled.
Watched(p, n, name) ==
  PackageRoute(n) \in DOMAIN prefix \ {p} /\ name \in {"llms.txt", "llms-full.txt"}

WritePackageFile(p, n, name) ==
  LET w == <<p, n>>
      list == FileOf(n, name, prefix[p])
      filled == package[w].blank \/ ~Watched(p, n, name) \/ list = <<>>
  IN /\ w \in DOMAIN package /\ package[w].stage = name
     /\ files' = Written(PackageRoute(n), name, IF filled THEN list ELSE <<>>)
     /\ package' = [package EXCEPT ![w] =
                      [stage |-> IF filled THEN After(name, n, prefix[p]) ELSE name, blank |-> ~filled]]
     /\ UNCHANGED <<site, configs, order, prefix>>

Next ==
  \/ \E p \in DOMAIN prefix :
       \/ ReadIndex(p) \/ ReadText(p)
       \/ WriteIndex(p) \/ WriteText(p)
       \/ StartPackages(p)
  \/ \E w \in DOMAIN package, name \in ToSet(FileNames) : WritePackageFile(w[1], w[2], name)

Spec == Init /\ [][Next]_vars

Done ==
  /\ \A p \in DOMAIN prefix : prefix[p].stage = "done"
  /\ \A w \in DOMAIN package : package[w].stage \in {"waiting", "done"}

-----------------------------------------------------------------------------
(* Properties. *)

\* The options have been resolved, and none of the files is written yet.
Resolved == \A p \in DOMAIN prefix : prefix[p].stage = "index"

\* RSPress serves the file at a version's, then a locale's, directory without
\* the default one of each: the route the pages are linked under is the one the
\* directory they are written to is served at.
ServedAt(dir) ==
  LET v == IF site.versions = <<>> THEN 0 ELSE 1
      l == IF site.locales = <<>> THEN 0 ELSE 1
      kept == {k \in DOMAIN dir : ~(k = v /\ dir[k] = site.default) /\ ~(l = 1 /\ k = v + 1 /\ dir[k] = site.lang)}
  IN [n \in 1 .. Cardinality(kept) |-> dir[CHOOSE k \in kept : Cardinality({j \in kept : j <= k}) = n]]
\* The head of a page that was first published by an earlier build.
HeadIn(n, page) == HeadOf(site, configs[n], page, "now", [published |-> "before", modified |-> "now"])
OwnPages == UNION {{n} \X Pages[configs[n].pkg] : n \in Results}

\* A page is served where it says it is, in its canonical link, its Open Graph
\* block and every node of its graph that is about it.
PagesAreWhereTheySay == Resolved =>
  \A w \in OwnPages :
    \A head \in {HeadIn(w[1], w[2])} :
      LET served == [host |-> site.origin, path |-> site.base \o ServedAt(configs[w[1]].dir) \o w[2]]
      IN /\ head.canonical = served /\ head.og.url = served
         /\ head.graph # Absent => \A node \in ToSet(head.graph) :
              node.id[2] \in {"article", "symbol"} => node.address = served

\* The declarations made here of a package are those it has in the end, and all
\* that its manifest names are there.
MadeHere(vfs, pkg) ==
  /\ \A f \in ToVfs(pkg) : vfs[f].origin = "model"
  /\ \A e \in DOMAIN ManifestOf(pkg) : <<pkg, ManifestOf(pkg)[e]>> \in DOMAIN vfs
AskedFor(pkg) == \E n \in Results : \E s \in ToSet(configs[n].externals) : s.name = pkg

\* The comment on mergeExternalTypes: no package that is documented here has the
\* declarations of a published version of it, whatever the packages depend on,
\* themselves included, and the registry answers; but for the versions of a
\* package that asks for itself, which are not known by its bare name.
DocumentedDeclarationsStand == Resolved =>
  \A n \in Results :
    configs[n].version = Absent \/ ~AskedFor(configs[n].pkg)
      => MadeHere(CombinedVfs(configs, site.registry), configs[n].pkg)

\* The same without exception.
FirstPartyExcluded == Resolved =>
  \A n \in Results : MadeHere(CombinedVfs(configs, site.registry), configs[n].pkg)

\* A package that gives options and has its scope to itself; and one whose
\* tsconfig is no function, or one that no other of the same text disagrees with.
OwnScope(apis, n) ==
  /\ apis[n].tsconfig # Absent \/ apis[n].options # Absent
  /\ \A k \in DOMAIN apis \ {n} : apis[k].scope # apis[n].scope
OwnText(apis, n) ==
  apis[n].tsconfig # Absent =>
    \A k \in DOMAIN apis :
      apis[k].tsconfig # Absent /\ apis[k].tsconfig.name = apis[n].tsconfig.name => apis[k].tsconfig = apis[n].tsconfig

\* Its options are, one by one, what it says itself, then what its tsconfig says
\* and then the default.
CheckedAsSaid(apis, n) ==
  LET Says(input, k) == IF input = Absent THEN Absent ELSE At(Decode(input), k)
      got     == Register(site.tsconfigs, apis)
      options == got.scopes[apis[n].scope]
  IN /\ options \in got.environments
     /\ \A k \in Whitelist : At(options, k) =
          FirstOf(<<Says(apis[n].options, k), Says(Holds(site.tsconfigs, apis[n].tsconfig), k), At(Defaults, k)>>)

\* The comment on scopeTsConfigs: each documented package is checked under its
\* own configuration, whatever any other package says, as long as functions of
\* one text are one function.
ScopesCheckedAsConfigured == Resolved =>
  \A n \in DOMAIN Scoped(site) :
    OwnScope(Scoped(site), n) /\ OwnText(Scoped(site), n) => CheckedAsSaid(Scoped(site), n)

\* The same without exception.
EachUnderItsOwn == Resolved =>
  \A n \in DOMAIN Scoped(site) : OwnScope(Scoped(site), n) => CheckedAsSaid(Scoped(site), n)

\* An id names one node on every page of the site, no page is without its graph
\* for naming a node twice, and every reference leads to a node of the page.
NodesNamedOnce == Resolved =>
  \A graphs \in {{HeadIn(w[1], w[2]).graph : w \in {v \in OwnPages : Decodes(configs[v[1]])}}} :
    \A g \in graphs :
       /\ g # Absent
       /\ \A a \in ToSet(g) :
            /\ a.refs \subseteq {b.id : b \in ToSet(g)}
            /\ \A h \in graphs : \A b \in ToSet(h) : a.id = b.id => a = b

\* The image a page names is there: of an image of its bundle's, the site's
\* public directory has the contents and the head their size, and a page is
\* without one only when neither the option nor the bundle gives one.
ImagesServed == Resolved =>
  \A n \in Results :
    \A image \in {PageImage(site, configs[n])} :
    LET c     == configs[n]
        own   == c.images
        dest  == UrlsOf(c)[1]
    IN /\ image = Absent => own = <<>> \/ own[1].image.path \notin DOMAIN c.bundleDir
       /\ image # Absent /\ image = BundleImage(site, c) =>
            LET contents == PublicDir(configs)[dest]
            IN /\ image.url = [host |-> site.origin, path |-> site.base \o <<"tsdoctor">> \o dest[1] \o <<dest[2]>>]
               /\ contents = c.bundleDir[own[1].image.path]
               /\ image.width = At(Measured(contents), "width")

\* Whatever the head of a page refers to is there, once.
HeadsResolve == NodesNamedOnce /\ ImagesServed

Listed(dir, name, url) == Cardinality({k \in DOMAIN Contents(dir, name) : Contents(dir, name)[k] = url})

\* When all is written the index at the root names every authored page once and
\* no page of an API, unless a package has its files at the root.
GuidesListedOnce ==
  Done /\ (\A n \in Results : PackageRoute(n) # <<>>) =>
    /\ \A g \in Guides[site.shape] : Listed(<<>>, "llms.txt", g) = 1 /\ Listed(<<>>, "llms-full.txt", g) = 1
    /\ \A u \in ApiRoutes : Listed(<<>>, "llms.txt", u) = 0 /\ Listed(<<>>, "llms-full.txt", u) = 0

\* At no time does a package's file name a page outside the package, though it
\* may be taken for a version's index and written over.
OwnPagesOnly ==
  \A n \in Results : PackageRoute(n) # <<>> =>
    \A name \in ToSet(FileNames) : \A k \in DOMAIN Contents(PackageRoute(n), name) :
      \/ IsPrefix(PackageRoute(n), Contents(PackageRoute(n), name)[k])
      \/ \E m \in Results : Contents(PackageRoute(n), name)[k] = Pointer(m)

\* The docs on generated files: with scopes, llms-api.txt is written for every
\* package, and it is the package's pages, all and only those.
ApiTextWritten ==
  Done /\ site.scopes /\ site.apiTxt =>
    \A n \in Results : ToSet(Contents(PackageRoute(n), "llms-api.txt")) = PagesOf(n)

\* So it is whichever prefixes wrote it and whatever they read half-written, but
\* for packages below the root whose language is not the site's: their prefix is
\* taken to begin with the language and the package, where there is no index.
ApiTextComplete ==
  (\A api \in ToSet(site.apis) : BaseOf(site, api) = <<>>) \/ OrNone(site.locales)[1] \in {Absent, site.lang}
    => ApiTextWritten

\* Every page is told of where it belongs: the authored ones at the root, those
\* of a package in its own files.
FilesListTheirPages == GuidesListedOnce /\ OwnPagesOnly /\ ApiTextComplete

\* The comment on the pointers to packages' files: each result produces a file
\* of its own, which lists its API pages.
IndexesComplete ==
  Done /\ site.scopes => \A n \in Results : PagesOf(n) \subseteq ToSet(Contents(PackageRoute(n), "llms.txt"))
=============================================================================
