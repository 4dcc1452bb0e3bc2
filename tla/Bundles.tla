------------------------------- MODULE Bundles -------------------------------
(* A bundle is a directory: a function from the files in it to their contents. *)
(* Four of its files are layers, only the first of which is required: the    *)
(* model, package.json, tsconfig.json and the manifest tsdoctor.json.   *)
(* The contents of a layer are a function from the fields it has to their      *)
(* values; one that does not have the shape of its layer has a field           *)
(* "misshapen", and text that is not JSON is Broken.                           *)
EXTENDS Integers, FiniteSets, Sequences, SequencesExt

CONSTANTS
  ModelFiles,    \* names of files that end in .api.json
  Preferred,     \* the model file named after a package: <unscoped name>.api.json
  UnsafePaths,   \* image paths that leave the bundle
  Basename,      \* the last segment of an image path
  MimeOf,        \* the MIME type an image's extension stands for
  Broken, Absent

ASSUME NamesAssumption == "" \notin ModelFiles

At(f, field) == IF field \in DOMAIN f THEN f[field] ELSE Absent
Failed(why)  == [error |-> why]
Ok(result)   == result.error = ""

\* The first value that is there, of a sequence of them.
FirstOf(values) ==
  IF \E n \in DOMAIN values : values[n] # Absent
  THEN values[SelectInSeq(values, LAMBDA v : v # Absent)] ELSE Absent

Parses(dir, file) == dir[file] # Broken
Fits(dir, file)   == Parses(dir, file) /\ "misshapen" \notin DOMAIN dir[file]
Models(dir)       == DOMAIN dir \cap ModelFiles

-----------------------------------------------------------------------------
(* Discovery and reading. *)

\* One model wins, and among several the one named after the package.
PickModel(dir, name) ==
  CASE Models(dir) = {} -> Failed("noApiModel")
    [] Cardinality(Models(dir)) = 1 -> [error |-> "", file |-> CHOOSE m \in Models(dir) : TRUE]
    [] name # Absent /\ Preferred[name] \in Models(dir) -> [error |-> "", file |-> Preferred[name]]
    [] OTHER -> Failed("ambiguousApiModel")

\* The name in package.json: what does not have its shape reads as absent.
PackageName(dir) ==
  IF "package.json" \in DOMAIN dir THEN At(dir["package.json"], "name") ELSE Absent

\* The layers besides the model, in the order they are read.
LayersIn(dir) ==
  LET Only(layer) == IF layer \in DOMAIN dir THEN <<layer>> ELSE <<>>
  IN Only("package.json") \o Only("tsconfig.json") \o Only("tsdoctor.json")

\* `over` holds what the caller knows: a model file, a name.
Discover(dir, over) ==
  IF "package.json" \in DOMAIN dir /\ ~Parses(dir, "package.json") THEN Failed("invalidPackageJson")
  ELSE LET known  == FirstOf(<<At(over, "name"), PackageName(dir)>>)
           picked == IF "model" \in DOMAIN over THEN [error |-> "", file |-> over.model]
                     ELSE PickModel(dir, known)
       IN IF ~Ok(picked) THEN picked
          ELSE IF known = Absent /\ ~Fits(dir, picked.file) THEN Failed("apiModel")
          ELSE [error  |-> "",
                name   |-> IF known = Absent THEN dir[picked.file].name ELSE known,
                model  |-> picked.file,
                layers |-> LayersIn(dir)]

\* A layer that is there and cannot be read fails the bundle. A tsconfig is
\* read with the file it extends.
Readable(dir, layer) ==
  /\ Fits(dir, layer)
  /\ layer = "tsconfig.json" => At(dir[layer], "extends") \in DOMAIN dir \cup {Absent}

Read(dir, found) ==
  LET files == <<found.model>> \o found.layers
  IN IF \E n \in DOMAIN files : ~Readable(dir, files[n])
     THEN Failed(files[SelectInSeq(files, LAMBDA l : ~Readable(dir, l))])
     ELSE [error |-> "", name |-> found.name, model |-> dir[found.model],
           layers |-> [l \in ToSet(found.layers) |-> dir[l]]]

Load(dir, over) ==
  LET found == Discover(dir, over) IN IF Ok(found) THEN Read(dir, found) ELSE found

\* The images a manifest declares; none when it cannot be read.
Images(dir) ==
  IF "tsdoctor.json" \in DOMAIN dir /\ Fits(dir, "tsdoctor.json") /\ "images" \in DOMAIN dir["tsdoctor.json"]
  THEN dir["tsdoctor.json"].images ELSE <<>>

\* Those of them that are files.
ImagePaths(dir) ==
  FoldLeft(LAMBDA paths, i : IF "path" \in DOMAIN i THEN Append(paths, i.path) ELSE paths, <<>>, Images(dir))

-----------------------------------------------------------------------------
(* Resolution: each field is taken from the highest tier that has it. *)

Nothing == [f \in {} |-> Absent]
LayerOf(bundle, l) == IF l \in DOMAIN bundle.layers THEN bundle.layers[l] ELSE Nothing

\* The highest-ranked candidate <<value, source>> that is there.
Pick(candidates) ==
  LET there == SelectSeq(candidates, LAMBDA c : c[1] # Absent)
  IN IF there = <<>> THEN Absent ELSE [value |-> Head(there)[1], source |-> Head(there)[2]]

\* An image's alternative text, when it has none of its own, is the resolved
\* tagline, else the description, else the name.
Alt(image, source, tagline, description, name) ==
  IF "alt" \in DOMAIN image THEN [value |-> image.alt, source |-> source]
  ELSE [value |-> FirstOf(<<tagline, description, name>>).value, source |-> "inferred"]

ImageType(image, source) ==
  LET location == IF "path" \in DOMAIN image THEN image.path ELSE image.url
  IN IF "type" \in DOMAIN image THEN [value |-> image.type, source |-> source]
     ELSE IF location \in DOMAIN MimeOf THEN [value |-> MimeOf[location], source |-> "inferred"]
     ELSE Absent

Fields == {"name", "tagline", "description", "version", "project", "openGraph", "compilerOptions"}

Resolve(bundle, platform) ==
  LET leaf    == LayerOf(bundle, "tsdoctor.json")
      pkg     == LayerOf(bundle, "package.json")
      project == IF "project" \in DOMAIN leaf THEN leaf.project ELSE Nothing
      Own(f)  == << <<At(platform, f), "manifest.platform">>, <<At(leaf, f), "manifest.leaf">> >>
      name    == Pick(Own("name") \o << <<At(pkg, "name"), "packageJson">>, <<bundle.model.name, "apiModel">> >>)
      tagline == Pick(Own("tagline") \o << <<At(project, "tagline"), "manifest.project">> >>)
      text    == Pick(Own("description") \o << <<At(pkg, "description"), "packageJson">> >>)
      raw     == Pick(Own("images"))
      images  == IF raw = Absent THEN Absent
                 ELSE [value |-> [n \in DOMAIN raw.value |->
                                    [image |-> raw.value[n],
                                     type  |-> ImageType(raw.value[n], raw.source),
                                     alt   |-> Alt(raw.value[n], raw.source, tagline, text, name)]],
                       source |-> raw.source]
  IN [name |-> name, tagline |-> tagline, description |-> text, openGraph |-> images,
      version         |-> Pick(<< <<At(pkg, "version"), "packageJson">> >>),
      project         |-> Pick(<< <<At(leaf, "project"), "manifest.project">> >>),
      compilerOptions |-> Pick(<< <<At(LayerOf(bundle, "tsconfig.json"), "options"), "tsconfig">> >>)]

-----------------------------------------------------------------------------
(* Publishing images: each is copied to the site's public directory, under the *)
(* package (and version) it belongs to and its own last segment; the first that *)
(* cannot be copied fails the call and leaves those before it in place.         *)

PublishOne(dir, under, so, image) ==
  IF so.failed THEN so
  ELSE IF "url" \in DOMAIN image THEN [so EXCEPT !.urls = Append(@, image.url)]
  ELSE IF image.path \in UnsafePaths \/ image.path \notin DOMAIN dir THEN [so EXCEPT !.failed = TRUE]
  ELSE LET dest == <<under, Basename[image.path]>>
       IN [so EXCEPT !.urls   = Append(@, dest),
                     !.public = [d \in DOMAIN @ \cup {dest} |-> IF d = dest THEN dir[image.path] ELSE @[d]]]

Publish(dir, images, under, public) ==
  FoldLeft(LAMBDA so, i : PublishOne(dir, under, so, i.image),
           [public |-> public, urls |-> <<>>, failed |-> FALSE], images)
=============================================================================
