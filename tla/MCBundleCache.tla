---------------------------- MODULE MCBundleCache ----------------------------
(* Instances of BundleCache for TLC: a package in the registry and a release of *)
(* up to two bundles, one of which may be replaced.                             *)
EXTENDS BundleCache, TLC

MCPreferred == [n \in {"core", "kit"} |-> n \o ".api.json"]
MCBasename  == [p \in {"og.png", "art/og.png", "../og.png"} |-> "og.png"]
MCMimeOf    == [p \in {"og.png", "art/og.png"} |-> "image/png"]

Model(name) == [name |-> name]
Pkg(name)   == [name |-> name, version |-> "1.0.0"]
Manifest(paths) == [tagline |-> "docs", images |-> [n \in DOMAIN paths |-> [path |-> paths[n]]]]

Bare == "core.api.json" :> Model("core")
\* Two models, told apart by the name in package.json.
Two == "core.api.json" :> Model("core") @@ "kit.api.json" :> Model("kit")
         @@ "package.json" :> Pkg("kit")
\* Every layer, an image, and other files of the package.
Rich == Bare @@ "package.json" :> Pkg("core")
          @@ "tsdoctor.json" :> Manifest(<<"art/og.png">>) @@ "art/og.png" :> "picture" @@ "index.js" :> "code"
\* A manifest whose image was left out, and one whose image is elsewhere.
Missing == Bare @@ "package.json" :> Pkg("core") @@ "tsdoctor.json" :> Manifest(<<"og.png">>)
\* A tsconfig that extends a file next to it, which is not copied.
Extends == Bare @@ "tsconfig.json" :> [options |-> "strict", extends |-> "base.json"] @@ "base.json" :> "base"
Empty   == EmptyDir
Code    == "index.js" :> "code"

MCUploads == [s \in Slots |->
  CASE s = Npm -> {<<Two, Empty>>}
    [] s = "a.npm.meta.tgz" -> {<<Code, Empty, Rich>>, <<Empty, Bare>>, <<Missing, Empty>>}
    [] OTHER -> {<<Empty, Extends>>}]
MCInitial == [s \in Slots |->
  CASE s = Npm -> <<Two, Empty>> [] s = "a.npm.meta.tgz" -> <<Code, Empty, Rich>> [] OTHER -> Unpublished]
=============================================================================
