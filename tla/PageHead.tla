------------------------------- MODULE PageHead -------------------------------
(* What a generated page says of itself to search engines and social networks:  *)
(* its address, an image, who made the package it is about, and a graph of      *)
(* schema.org nodes that link the page, its symbol, the package and its people. *)
(* An address is a host, or Absent for the page's own, and a path.              *)
EXTENDS SiteLayout

CONSTANT SizeOf   \* SizeOf[contents]: type, width and height, of images that can be measured

\* Beyond SiteLayout's, options have the site's origin and base, and the files
\* of its public directory by path; an API has an image option, and its
\* package.json a manifest, which is Broken when it does not decode.

-----------------------------------------------------------------------------
(* Addresses. *)

\* Without an origin an address is relative to the root of whatever serves it.
SiteUrl(o) == [host |-> o.origin, path |-> o.base]
Canonical(siteUrl, route) == [siteUrl EXCEPT !.path = @ \o route]

\* What is neither absolute nor rooted is refused.
ResolveUrl(siteUrl, url) ==
  CASE url.form = "absolute" -> [host |-> url.host, path |-> url.path]
    [] url.form = "rooted"   -> Canonical(siteUrl, url.path)
    [] OTHER -> Absent

-----------------------------------------------------------------------------
(* The image: what the option says, when it can be used, else the bundle's. *)

Measured(contents) == IF contents \in DOMAIN SizeOf THEN SizeOf[contents] ELSE Nothing
\* An image option's file is looked for under the public directory.
LocalFacts(o, url) ==
  IF url.form = "rooted" /\ url.path \in DOMAIN o.public THEN Measured(o.public[url.path]) ELSE Nothing

Image(url, secure, facts, alt) ==
  [url |-> url, secure |-> secure, alt |-> alt,
   type |-> At(facts, "type"), width |-> At(facts, "width"), height |-> At(facts, "height")]

\* A plain option is measured; one with fields of its own is taken at its word,
\* but for a secure address that is not one.
OptionImage(o, config) ==
  LET og  == config.og
      url == ResolveUrl(SiteUrl(o), og.url)
  IN IF og = Absent \/ url = Absent THEN Absent
     ELSE IF DOMAIN og = {"url"} THEN Image(url, Absent, LocalFacts(o, og.url), config.pkg)
     ELSE Image(url, IF "secure" \in DOMAIN og /\ og.secure.form = "absolute" THEN og.secure ELSE Absent,
                og, IF "alt" \in DOMAIN og THEN og.alt ELSE config.pkg)

\* The first of the bundle's images, all or none of which are published. What
\* the manifest leaves out is measured.
BundleImage(o, config) ==
  LET result == Publish(config.bundleDir, config.images, Under(config), Nothing)
      first  == config.images[1]
      dest   == result.urls[1]
      size   == Measured(result.public[dest])
      Field(f) == IF f \in DOMAIN first.image THEN first.image[f] ELSE At(size, f)
  IN IF config.images = <<>> \/ result.failed THEN Absent
     ELSE IF "url" \in DOMAIN first.image THEN Image(dest, Absent, first.image, first.alt.value)
     ELSE Image(Canonical(SiteUrl(o), <<"tsdoctor">> \o dest[1] \o <<dest[2]>>), Absent,
                [width |-> Field("width"), height |-> Field("height"),
                 type |-> IF first.type = Absent THEN Absent ELSE first.type.value],
                first.alt.value)

PageImage(o, config) ==
  FirstOf(<<OptionImage(o, config), BundleImage(o, config)>>)

-----------------------------------------------------------------------------
(* Attribution, from the package's manifest. *)

\* Every licence the expression names that has a page; none when it is no SPDX.
LicenseUrls(m) ==
  IF m.license = Absent THEN <<>>
  ELSE LET known == SelectSeq(m.license, LAMBDA l : l.url # Absent) IN [n \in DOMAIN known |-> known[n].url]

\* The package's own directory, when the host has a convention for it.
RepositoryUrl(m) == IF m.repository = Absent THEN Absent ELSE FirstOf(<<m.repository.directory, m.repository.browse>>)

\* The author and the maintainers, each name once.
Names(m) == (IF m.author = Absent THEN <<>> ELSE <<m.author.name>>) \o m.maintainers
\* Mutation of People: nobody is looked for among those already named.
PeopleAsListed(m) == Names(m)
People(m) ==
  FoldLeft(LAMBDA so, name : IF Contains(so, name) THEN so ELSE Append(so, name), <<>>, Names(m))

-----------------------------------------------------------------------------
(* The graph. A node is named by an address and a fragment. *)

Id(url, fragment) == <<url, fragment>>
SourceId(at) == Id(at, "source")

\* The nodes every page of a package shares: the package and its people.
PackageNodes(o, config) ==
  LET at == Canonical(SiteUrl(o), config.route)
      m  == config.manifest
      PersonNode(name) ==
        [id |-> Id(at, name), address |-> IF m.author # Absent /\ m.author.name = name THEN m.author.url ELSE Absent,
         refs |-> {}]
      people == People(m)
  IN << [id |-> SourceId(at), address |-> at, refs |-> {Id(at, p) : p \in ToSet(people)},
         version |-> m.version, description |-> m.description, repository |-> RepositoryUrl(m),
         licenses |-> LicenseUrls(m), keywords |-> m.keywords, sameAs |-> m.homepage] >>
     \o [n \in DOMAIN people |-> PersonNode(people[n])]

\* The page is part of the package and is about its symbol, which is part of it too.
PageNodes(o, config, page, dates) ==
  LET at  == Canonical(SiteUrl(o), config.route \o page)
      pkg == SourceId(Canonical(SiteUrl(o), config.route))
  IN << [id |-> Id(at, "article"), address |-> at, refs |-> {pkg, Id(at, "symbol")}, dates |-> dates],
        [id |-> Id(at, "symbol"), address |-> at, refs |-> {pkg}, version |-> config.manifest.version] >>

\* A document in which an id is given twice is not made; a package whose
\* manifest does not decode has none.
Build(nodes) == IF \E a, b \in DOMAIN nodes : a # b /\ nodes[a].id = nodes[b].id THEN Absent ELSE nodes
Decodes(config) == config.manifest \notin {Absent, Broken}
Graph(o, config, page, dates) ==
  IF ~Decodes(config) THEN Absent ELSE Build(PackageNodes(o, config) \o PageNodes(o, config, page, dates))

-----------------------------------------------------------------------------
(* The head. A page that was written before keeps the date it was published;   *)
(* its graph was made before that date was looked up, with the build's.        *)

OpenGraphTags(o, config, page, image, dates) ==
  [url |-> Canonical(SiteUrl(o), config.route \o page), image |-> image, dates |-> dates, site |-> config.bundle.name]
TwitterTags(image) ==
  [card |-> IF image = Absent THEN "summary" ELSE "summary_large_image", image |-> image]

HeadWith(o, config, page, image, built, dates) ==
  [canonical |-> Canonical(SiteUrl(o), config.route \o page),
   og        |-> OpenGraphTags(o, config, page, image, dates),
   twitter   |-> TwitterTags(image),
   graph     |-> Graph(o, config, page, [published |-> built, modified |-> built])]
HeadOf(o, config, page, built, dates) ==
  HeadWith(o, config, page, PageImage(o, config), built, dates)
=============================================================================
