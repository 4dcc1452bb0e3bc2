----------------------------- MODULE MCLlmsFiles -----------------------------
(* Instances of LlmsFiles for TLC: one package, two packages next to and below  *)
(* one another, and two versions of a package, in one and two languages.        *)
EXTENDS LlmsFiles, TLC

MCUnscoped  == [p \in {"@x/kit", "core", "zod"} |-> IF p = "@x/kit" THEN "kit" ELSE p]
MCSegments  == [p \in {"@x/kit", "core"} |-> IF p = "core" THEN <<"core">> ELSE <<"@x", "kit">>]
MCEntries   == [p \in {"@x/kit", "core", "zod", "type-fest"} |-> IF p = "@x/kit" THEN <<"index.d.ts", "test.d.ts">> ELSE <<"index.d.ts">>]
MCExportKey == [f \in {"index.d.ts", "test.d.ts"} |-> IF f = "index.d.ts" THEN "." ELSE "./test"]
MCSpelled   == "ES2022" :> "es2022" @@ "es2022" :> "es2022" @@ "99" :> "esnext" @@ "lib.dom.d.ts" :> "dom" @@ "true" :> "true" @@ "none" :> Absent
MCModelFile == [p \in {"@x/kit", "core"} |-> "model.api.json"]
MCPreferred == [p \in {"@x/kit", "core"} |-> "model.api.json"]
MCRank      == "1.0.0" :> 1 @@ "^1.2.0" :> 2 @@ "~2.0.0" :> 3
MCBasename  == [p \in {"og.png", "art/og.png", "art/card.png"} |->
                 IF p = "art/card.png" THEN "card.png" ELSE "og.png"]
MCMimeOf    == [p \in {"og.png", "art/og.png"} |-> "image/png"]

MCPages  == [p \in {"@x/kit", "core"} |-> IF p = "core" THEN {<<"class", "a">>} ELSE {<<"class", "a">>, <<"type", "b">>}]
MCGuides == [s \in {"one", "portal", "below", "versions"} |->
  CASE s \in {"one", "versions"} -> {<<"guide">>}
    [] s = "portal" -> {<<"guide">>, <<"kit", "start">>, <<"core">>}
    [] OTHER -> {<<"kit", "more", "start">>}]

Bundle(name, image) ==
  "model.api.json" :> [name |-> name]
    @@ "tsdoctor.json" :> [tagline |-> "docs", images |-> <<[path |-> image]>>] @@ image :> image \o " of " \o name
Manifest == [version |-> "1.0.0", description |-> "a kit", author |-> [name |-> "ann", url |-> "ann.dev"],
  maintainers |-> <<"ann", "bob", "bob">>, keywords |-> <<"kit">>, homepage |-> "kit.dev",
  repository |-> [directory |-> Absent, browse |-> "host/kit"],
  license |-> <<[id |-> "MIT", url |-> "spdx/MIT"], [id |-> "LicenseRef-x", url |-> Absent]>>]
PackageJson(name) ==
  "name" :> name @@ "manifest" :> Manifest @@ "dev" :> ("type-fest" :> "1.0.0" @@ "core" :> "1.0.0")
    @@ "deps" :> (IF name = "core" THEN "zod" :> "^1.2.0" ELSE "core" :> "1.0.0" @@ "zod" :> "latest") @@ "peers" :> ("zod" :> "~2.0.0")
Api(pkg) == Overlay(Unset, [pkg |-> pkg, bundle |-> Bundle(pkg, "og.png"), versions |-> <<>>, package |-> PackageJson(pkg)])
Kit  == Api("@x/kit")
Core == [Api("core") EXCEPT !.bundle = @ @@ "package.json" :> Broken]
Version(name, bundle) == [version |-> name, bundle |-> bundle, loader |-> Absent]
Versioned == [Kit EXCEPT !.versions =
  << Version("v1", Bundle("old", "og.png")), Version("v2", Bundle("new", "art/og.png")) >>]

\* Folders of packages, one of them with a tsconfig.
Folder(name, pkg, more) ==
  [name |-> name, directory |-> TRUE, hidden |-> FALSE, files |-> more @@ "package.json" :> PackageJson(pkg) @@ Bundle(pkg, "og.png")]
Loose(name) == [name |-> name, directory |-> FALSE, hidden |-> FALSE, files |-> Nothing]
Hidden == [Folder(".git", "core", Nothing) EXCEPT !.hidden = TRUE, !.files = Nothing]
Parent(base) ==
  FromParentDir(<<Hidden, Folder("a", "@x/kit", "tsconfig.json" :> Nothing), Folder("b", "core", Nothing), Loose("readme")>>, base)

\* Ways to write options: a file beside the models, one with what is not
\* understood, and functions, two of them of one text.
Tsconfigs == <<"a", "tsconfig.json">> :> ("target" :> "ES2022" @@ "outDir" :> "true" @@ "lib" :> "none")
               @@ <<"old">> :> ("target" :> "es2022") @@ <<"bad">> :> ("target" :> "es1999")
File(name) == [form |-> "path", name |-> <<name>>]
Loader(text, returns) == [form |-> "function", name |-> <<text>>, returns |-> returns]
Strict == Loader("() => options", "strict" :> "true")
Newer  == Loader("() => newer", "target" :> "99")
Alike  == Loader("() => options", "target" :> "99")

Site(shape, apis) ==
  [shape |-> shape, apis |-> apis, multi |-> Len(apis) > 1, versions |-> <<>>, default |-> Absent,
   locales |-> <<>>, lang |-> Absent, origin |-> "kit.dev", base |-> <<"docs">>, og |-> Absent, public |-> <<"hero.png">> :> "hero", scopes |-> TRUE, apiTxt |-> TRUE,
   tsconfigs |-> Tsconfigs, registry |-> [opens |-> TRUE, resolves |-> {"zod", "core", "@x/kit"}, loads |-> TRUE]]
One    == Site("one", <<Kit>>)
Portal == Site("portal", <<Kit, Core>>)
Inner  == [Site("below", <<[Core EXCEPT !.base = <<"kit", "more">>], Kit>>) EXCEPT !.apiTxt = FALSE]
Both   == [Site("versions", <<Versioned>>) EXCEPT !.versions = <<"v1", "v2">>, !.default = "v2"]

MCSizeOf == [c \in {"hero", "og.png of @x/kit", "og.png of old", "art/og.png of new"} |->
  "type" :> "image/png" @@ "width" :> (CASE c = "hero" -> 1200 [] c = "og.png of old" -> 100 [] OTHER -> 600)]
Url(form, host, path) == [form |-> form, host |-> host, path |-> path]
Rooted(file)   == Url("rooted", Absent, <<file>>)
Relative(file) == Url("relative", Absent, <<file>>)
OgOptions == {"url" :> Rooted(f) : f \in {"hero.png", "gone.png"}} \cup {"url" :> Relative("hero.png")}
  \cup {[url |-> u, secure |-> Url("absolute", "cdn", <<"a">>), width |-> 10] : u \in {Url("absolute", "cdn", <<"a">>), Relative("a")}}
Small == [One EXCEPT !.scopes = FALSE]
HeadSites ==
  {[Small EXCEPT !.apis[1].og = og, !.origin = h, !.base = b] : og \in OgOptions \cup {Absent}, h \in {Absent, "kit.dev"}, b \in {<<>>, <<"docs">>}}
  \cup {[Small EXCEPT !.apis[1].package["manifest"] = m] : m \in {Absent, Broken, [Manifest EXCEPT !.author = Absent, !.repository = Absent, !.license = Absent]}}
  \cup {[Small EXCEPT !.apis[1].bundle = b] : b \in {[Bundle("@x/kit", "og.png") EXCEPT !["tsdoctor.json"].images[1].path = "gone.png"], "model.api.json" :> [name |-> "@x/kit"]}}

\* Two packages whose options agree in part, or are not to be read.
TypeSites ==
  {[Portal EXCEPT !.scopes = FALSE, !.apis[1].tsconfig = t, !.apis[2].tsconfig = u, !.apis[1].options = x, !.apis[2].options = y] :
     t \in {Absent, File("old"), Strict}, u \in {Absent, File("old"), File("bad"), Strict, Newer, Alike},
     x \in {Absent, "lib" :> "lib.dom.d.ts"}, y \in {Absent, "target" :> "99" @@ "types" :> "none"}}
  \cup {[Site("portal", Parent(over)) EXCEPT !.scopes = FALSE] : over \in {Nothing, "base" :> <<"{dirname}">>, "base" :> <<"{packageName}">> @@ "auto" :> {"devDependencies"}}}
  \cup {[Small EXCEPT !.apis[1].loader = l] : l \in {"model", "empty"}}

\* A package that depends on itself.
OfItself(s) == [s EXCEPT !.scopes = FALSE, !.apis[1].package["peers"] = "zod" :> "~2.0.0" @@ "@x/kit" :> "1.0.0"]

Answers == [opens : BOOLEAN, resolves : {{}, {"zod", "core", "@x/kit"}}, loads : BOOLEAN]
MCSites ==
  HeadSites \cup TypeSites \cup {One, Both, Inner} \cup {[Portal EXCEPT !.apiTxt = t] : t \in BOOLEAN}
  \cup {[Portal EXCEPT !.scopes = FALSE, !.registry = a] : a \in Answers} \cup {OfItself(s) : s \in {One, Portal, Both}}
  \cup {[s EXCEPT !.locales = <<"en", "zh">>, !.lang = l] : s \in {One, Both, Portal}, l \in {"en", "zh"}}
  \cup {[Both EXCEPT !.versions = <<"v1">>], [One EXCEPT !.apis[1].externals = <<[name |-> "zod", version |-> "1.0.0"]>>]}
VersionSites == {Both}
ClaimSites   ==
  {OfItself(Both), [Portal EXCEPT !.scopes = FALSE, !.apis[1].tsconfig = Strict, !.apis[2].tsconfig = Alike],
   [Portal EXCEPT !.locales = <<"en", "zh">>, !.lang = "zh"]}
=============================================================================
