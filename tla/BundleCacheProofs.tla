-------------------------- MODULE BundleCacheProofs --------------------------
(* What a fetch returns is the bundle that is published, but for what its       *)
(* properties leave out, and what a request that did not name its asset has     *)
(* cached is found by one that does, for every release, every archive and every *)
(* way to fail.                                                                 *)
EXTENDS BundleCache, FoldTheorems

Writing == {"layers", "images", "read"}

\* A fetch is over, or is a record with its seven fields.
FetchShape ==
  fetch # Idle =>
    fetch = [stage |-> fetch.stage, request |-> fetch.request, asset |-> fetch.asset,
             root |-> fetch.root, left |-> fetch.left, files |-> fetch.files,
             merged |-> fetch.merged]

\* A fetch knows its slot once it downloads, and a request that does not name
\* it once it probes.
SlotKnown ==
  fetch # Idle =>
    /\ fetch.request \in Requests
    /\ fetch.stage \in Writing \cup {"download", "clear"} => fetch.asset \in Slots
    /\ fetch.stage = "probe" => fetch.asset \in Slots

\* The files a fetch has listed so far are in its slot, and so is what it recorded.
ListedIsThere ==
  fetch # Idle =>
    /\ fetch.stage \in Writing => fetch.files \subseteq DOMAIN disk[fetch.asset]
    /\ fetch.stage \notin Writing => fetch.files = {}
    /\ fetch.stage = "read" => fetch.asset \in DOMAIN record /\ record[fetch.asset] = fetch.files

\* A slot that is being written does not count as fetched; every other that
\* does has its record, its files and a bundle that can be read.
FetchedIsCached ==
  /\ fetch # Idle /\ fetch.stage \in Writing => fetch.asset \notin fetched
  /\ \A s \in fetched : s \in Slots /\ Cached(s)

\* What is in the cache is what its records say.
Inv ==
  /\ DOMAIN disk = Slots
  /\ FetchShape /\ SlotKnown /\ ListedIsThere /\ FetchedIsCached

-----------------------------------------------------------------------------
(* Lemmas. *)

\* What a lookup finds is a slot.
LEMMA FoundIsASlot ==
  ASSUME NEW request \in Requests
  PROVE  Version \subseteq Slots /\ PickAsset(request) \subseteq Slots
BY DEF Version, PickAsset, Requests, Slots

\* Copying one file, and listing it, keeps the invariant.
LEMMA CopyKeepsInv ==
  ASSUME Inv, NEW file, NEW contents, NEW left,
         fetch # Idle, fetch.stage \in {"layers", "images"},
         disk' = [disk EXCEPT ![SlotOf(fetch)] = With(@, file, contents)],
         fetch' = [fetch EXCEPT !.left = left, !.files = @ \cup {file}],
         UNCHANGED <<record, fetched>>
  PROVE  Inv'
<1> USE DEF Inv, FetchShape, SlotKnown, ListedIsThere, FetchedIsCached, Cached, Writing, SlotOf
<1>1. /\ DOMAIN disk' = Slots
      /\ DOMAIN disk'[fetch.asset] = DOMAIN disk[fetch.asset] \cup {file}
      /\ \A s \in Slots \ {fetch.asset} : disk'[s] = disk[s]
  <2>1. fetch.asset \in Slots
        OBVIOUS
  <2>2. disk'[fetch.asset] = With(disk[fetch.asset], file, contents)
        BY <2>1
  <2>3. DOMAIN With(disk[fetch.asset], file, contents) = DOMAIN disk[fetch.asset] \cup {file}
        BY DEF With
  <2>4. QED
        BY <2>1, <2>2, <2>3
<1>2. \A s \in fetched : s # fetch.asset
      OBVIOUS
<1>3. /\ fetch'.asset = fetch.asset /\ fetch'.stage = fetch.stage /\ fetch'.request = fetch.request
      /\ fetch'.files = fetch.files \cup {file}
      /\ FetchShape'
      OBVIOUS
<1>4. ASSUME NEW s \in fetched' PROVE s \in Slots /\ Cached(s)'
  <2>1. s \in Slots /\ Cached(s) /\ disk'[s] = disk[s] /\ record' = record
        BY <1>1, <1>2
  <2>2. QED
        BY <2>1
<1>5. QED
      BY <1>1, <1>2, <1>3, <1>4

\* Initially nothing is cached and nothing runs.
LEMMA InitInv == Init => Inv
BY DEF Init, Inv, FetchShape, SlotKnown, ListedIsThere, FetchedIsCached, Writing

\* The invariant is kept by every step.
LEMMA NextInv == Inv /\ [Next]_vars => Inv'
<1> SUFFICES ASSUME Inv, [Next]_vars PROVE Inv'
    OBVIOUS
<1> USE DEF Inv, FetchShape, SlotKnown, ListedIsThere, FetchedIsCached, Cached, Writing, SlotOf
<1>1. ASSUME NEW r \in Requests, Request(r) PROVE Inv'
      BY <1>1 DEF Request, Requests, Named, Slots
<1>2. CASE Hit
      BY <1>2 DEF Hit, Serve
<1>3. CASE Miss
      BY <1>3 DEF Miss
<1>4. CASE Lookup
  <2> DEFINE found == IF fetch.request.source = "npm" THEN Version ELSE PickAsset(fetch.request)
  <2>1. found \subseteq Slots
        BY <1>4, FoundIsASlot DEF Lookup
  <2>2. CASE found = {}
        BY <1>4, <2>2 DEF Lookup
  <2>3. CASE found # {}
    <3>1. PICK a \in Slots, stage \in {"probe", "download"} :
            fetch' = [fetch EXCEPT !.stage = stage, !.asset = a]
          BY <1>4, <2>1, <2>3 DEF Lookup
    <3>2. QED
          BY <1>4, <3>1 DEF Lookup
  <2>4. QED
        BY <2>2, <2>3
<1>5. CASE Download
      BY <1>5 DEF Download
<1>6. CASE Clear
      BY <1>6 DEF Clear
<1>7. CASE CopyLayer
      BY <1>7, CopyKeepsInv DEF CopyLayer
<1>8. CASE StartImages
      BY <1>8 DEF StartImages
<1>9. CASE CopyImage
      BY <1>9, CopyKeepsInv DEF CopyImage, Listed
<1>10. CASE Record
  <2>1. /\ DOMAIN record' = DOMAIN record \cup {fetch.asset}
        /\ record'[fetch.asset] = fetch.files
        /\ \A s \in DOMAIN record \ {fetch.asset} : record'[s] = record[s]
        BY <1>10 DEF Record, With
  <2>2. fetch' = [fetch EXCEPT !.stage = "read"] /\ UNCHANGED <<disk, fetched>>
        BY <1>10 DEF Record
  <2>3. fetch # Idle /\ fetch.stage = "images"
        BY <1>10 DEF Record
  <2>4. \A s \in fetched : s # fetch.asset
        BY <2>3
  <2>5. ASSUME NEW s \in fetched' PROVE s \in Slots /\ Cached(s)'
    <3>1. s \in Slots /\ Cached(s) /\ s \in DOMAIN record' /\ record'[s] = record[s] /\ disk' = disk
          BY <2>1, <2>2, <2>4
    <3>2. QED
          BY <3>1
  <2>6. FetchShape' /\ SlotKnown'
        BY <2>2, <2>3
  <2>7. ListedIsThere'
        BY <2>1, <2>2, <2>3
  <2>8. FetchedIsCached'
        BY <2>2, <2>3, <2>4, <2>5
  <2>9. QED
        BY <2>2, <2>6, <2>7, <2>8
<1>11. CASE ReadBack
      BY <1>11 DEF ReadBack, Serve
<1>12. CASE Stop
      BY <1>12 DEF Stop
<1>13. CASE Tear
      BY <1>13 DEF Tear, With
<1>14. ASSUME NEW s \in Slots, NEW file \in DOMAIN disk[s], Damage(s, file) PROVE Inv'
      BY <1>14 DEF Damage
<1>15. ASSUME NEW a \in Assets, NEW archive \in Uploads[a], Upload(a, archive) PROVE Inv'
      BY <1>15 DEF Upload
<1>16. CASE UNCHANGED vars
      BY <1>16 DEF vars
<1>17. QED
      BY <1>1, <1>2, <1>3, <1>4, <1>5, <1>6, <1>7, <1>8, <1>9, <1>10, <1>11, <1>12,
         <1>13, <1>14, <1>15, <1>16 DEF Next

-----------------------------------------------------------------------------
(* Sequences, and what a directory says. *)

\* A sequence, whatever its elements are.
IsSeq(s) == s \in Seq(ToSet(s))

\* A sequence of elements of T is a sequence, and its values are in T.
LEMMA SeqIsSeq ==
  ASSUME NEW T, NEW s \in Seq(T)
  PROVE  IsSeq(s) /\ ToSet(s) \subseteq T
BY DEF IsSeq, ToSet

\* Taking the first element.
LEMMA TakeFirst ==
  ASSUME NEW s, IsSeq(s), s # <<>>
  PROVE  IsSeq(Tail(s)) /\ Head(s) \in ToSet(s) /\ ToSet(s) = {Head(s)} \cup ToSet(Tail(s))
<1>1. PICK T : T = ToSet(s)
  OBVIOUS
<1>2. s \in Seq(T) /\ \A k \in 1 .. Len(s) : s[k] \in T
  BY <1>1 DEF IsSeq
<1>3. /\ Tail(s) \in Seq(T) /\ Head(s) = s[1] /\ Len(s) \in Nat \ {0}
      /\ DOMAIN s = 1 .. Len(s) /\ DOMAIN Tail(s) = 1 .. Len(s) - 1
      /\ \A k \in 1 .. Len(s) - 1 : Tail(s)[k] = s[k + 1]
  BY <1>2
<1>4. 1 \in DOMAIN s
  BY <1>3
<1>5. \A k \in DOMAIN Tail(s) : k + 1 \in DOMAIN s
  BY <1>3
<1>6. ASSUME NEW k \in DOMAIN s, k # 1 PROVE k - 1 \in DOMAIN Tail(s) /\ Tail(s)[k - 1] = s[k]
  <2>1. k \in Int /\ k - 1 \in 1 .. Len(s) - 1 /\ (k - 1) + 1 = k
    BY <1>3, <1>6
  <2> QED
    BY <1>3, <2>1
<1>7. ToSet(s) = {Head(s)} \cup ToSet(Tail(s))
  <2>1. \A x : x \in ToSet(s) <=> \E k \in DOMAIN s : s[k] = x
    BY DEF ToSet
  <2>2. \A x : x \in ToSet(Tail(s)) <=> \E k \in DOMAIN Tail(s) : Tail(s)[k] = x
    BY DEF ToSet
  <2>3. \A k \in DOMAIN Tail(s) : Tail(s)[k] = s[k + 1]
    BY <1>3
  <2>4. ASSUME NEW x \in ToSet(s), x # Head(s) PROVE x \in ToSet(Tail(s))
    <3>1. PICK k \in DOMAIN s : s[k] = x
      BY <2>1, <2>4
    <3>2. k # 1
      BY <1>3, <2>4, <3>1
    <3> QED
      BY <1>6, <2>2, <3>1, <3>2
  <2>5. ASSUME NEW x \in ToSet(Tail(s)) PROVE x \in ToSet(s)
    BY <1>5, <2>1, <2>2, <2>3, <2>5
  <2>6. Head(s) \in ToSet(s)
    BY <1>3, <1>4, <2>1
  <2> QED
    BY <2>4, <2>5, <2>6
<1> QED
  BY <1>3, <1>7, SeqIsSeq

\* One sequence after another.
LEMMA Joined ==
  ASSUME NEW T, NEW s \in Seq(T), NEW t \in Seq(T)
  PROVE  s \o t \in Seq(T) /\ ToSet(s \o t) = ToSet(s) \cup ToSet(t)
<1>1. /\ Len(s) \in Nat /\ Len(t) \in Nat /\ s \o t \in Seq(T)
      /\ DOMAIN s = 1 .. Len(s) /\ DOMAIN t = 1 .. Len(t) /\ DOMAIN (s \o t) = 1 .. Len(s) + Len(t)
      /\ \A k \in 1 .. Len(s) : (s \o t)[k] = s[k]
      /\ \A k \in Len(s) + 1 .. Len(s) + Len(t) : (s \o t)[k] = t[k - Len(s)]
  OBVIOUS
<1>2. \A k \in DOMAIN s : k \in DOMAIN (s \o t)
  BY <1>1
<1>3. ASSUME NEW k \in DOMAIN t PROVE k + Len(s) \in DOMAIN (s \o t) /\ (s \o t)[k + Len(s)] = t[k]
  <2>1. k \in Nat /\ k + Len(s) \in Len(s) + 1 .. Len(s) + Len(t) /\ (k + Len(s)) - Len(s) = k
    BY <1>1
  <2> QED
    BY <1>1, <2>1
<1>4. ASSUME NEW k \in DOMAIN (s \o t), k \notin DOMAIN s
      PROVE  k - Len(s) \in DOMAIN t /\ (s \o t)[k] = t[k - Len(s)]
  BY <1>1, <1>4
<1>5. /\ \A x : x \in ToSet(s) <=> \E k \in DOMAIN s : s[k] = x
      /\ \A x : x \in ToSet(t) <=> \E k \in DOMAIN t : t[k] = x
      /\ \A x : x \in ToSet(s \o t) <=> \E k \in DOMAIN (s \o t) : (s \o t)[k] = x
  BY DEF ToSet
<1>6. \A x \in ToSet(s) : x \in ToSet(s \o t)
  <2>1. \A k \in DOMAIN s : (s \o t)[k] = s[k]
    BY <1>1
  <2> QED
    BY <1>2, <1>5, <2>1
<1>7. \A x \in ToSet(t) : x \in ToSet(s \o t)
  BY <1>3, <1>5
<1>8. ASSUME NEW x \in ToSet(s \o t), x \notin ToSet(s) PROVE x \in ToSet(t)
  <2>1. PICK k \in DOMAIN (s \o t) : (s \o t)[k] = x
    BY <1>5, <1>8
  <2>2. k \notin DOMAIN s
    BY <1>1, <1>5, <1>8, <2>1
  <2> QED
    BY <1>4, <1>5, <2>1, <2>2
<1> QED
  BY <1>1, <1>6, <1>7, <1>8

LayerNames == {"package.json", "tsconfig.json", "tsdoctor.json"}

\* The layers in a directory are those of the three that are files of it.
LEMMA LayersFound ==
  ASSUME NEW dir
  PROVE  /\ LayersIn(dir) \in Seq(LayerNames)
         /\ ToSet(LayersIn(dir)) = LayerNames \cap DOMAIN dir
<1> DEFINE Only(layer) == IF layer \in DOMAIN dir THEN <<layer>> ELSE <<>>
<1>1. ASSUME NEW layer \in LayerNames
      PROVE  Only(layer) \in Seq(LayerNames) /\ ToSet(Only(layer)) = {layer} \cap DOMAIN dir
  <2>1. <<layer>> \in Seq(LayerNames) /\ <<>> \in Seq(LayerNames)
    OBVIOUS
  <2>2. ToSet(<<layer>>) = {layer} /\ ToSet(<<>>) = {}
    BY DEF ToSet
  <2> QED
    BY <2>1, <2>2
<1>2. LayersIn(dir) = Only("package.json") \o Only("tsconfig.json") \o Only("tsdoctor.json")
  BY DEF LayersIn
<1> HIDE DEF Only
<1>3. PICK p, t, m : p = Only("package.json") /\ t = Only("tsconfig.json") /\ m = Only("tsdoctor.json")
  OBVIOUS
<1>4. /\ p \in Seq(LayerNames) /\ t \in Seq(LayerNames) /\ m \in Seq(LayerNames)
      /\ ToSet(p) = {"package.json"} \cap DOMAIN dir /\ ToSet(t) = {"tsconfig.json"} \cap DOMAIN dir
      /\ ToSet(m) = {"tsdoctor.json"} \cap DOMAIN dir
  BY <1>1, <1>3 DEF LayerNames
<1>5. p \o t \in Seq(LayerNames) /\ ToSet(p \o t) = ToSet(p) \cup ToSet(t)
  BY <1>4, Joined
<1>6. (p \o t) \o m \in Seq(LayerNames) /\ ToSet((p \o t) \o m) = ToSet(p \o t) \cup ToSet(m)
  <2>1. PICK q : q = p \o t
    OBVIOUS
  <2>2. q \in Seq(LayerNames) /\ m \in Seq(LayerNames)
    BY <1>4, <1>5, <2>1
  <2>3. q \o m \in Seq(LayerNames) /\ ToSet(q \o m) = ToSet(q) \cup ToSet(m)
    BY <2>2, Joined
  <2> QED
    BY <2>1, <2>3
<1> QED
  BY <1>2, <1>3, <1>4, <1>5, <1>6 DEF LayerNames

\* Of a sequence with an element that fails a test, the first such is one.
LEMMA FirstUnreadable ==
  ASSUME NEW dir, NEW T, NEW files \in Seq(T), NEW n \in DOMAIN files, ~Readable(dir, files[n])
  PROVE  files[SelectInSeq(files, LAMBDA l : ~Readable(dir, l))] \in T
<1> DEFINE bad == {k \in 1 .. Len(files) : ~Readable(dir, files[k])}
<1>1. Len(files) \in Nat /\ DOMAIN files = 1 .. Len(files)
  OBVIOUS
<1>2. n \in bad /\ bad \subseteq Nat
  BY <1>1
<1>3. SelectInSeq(files, LAMBDA l : ~Readable(dir, l)) = Min(bad)
  BY <1>2 DEF SelectInSeq
<1> HIDE DEF bad
<1>4. PICK k \in bad : \A j \in bad : k <= j
  BY <1>2, LeastNumber
<1>5. Min(bad) \in bad
  BY <1>2, <1>4 DEF Min
<1> QED
  BY <1>1, <1>3, <1>5 DEF bad

-----------------------------------------------------------------------------
(* Copies of a bundle: reading one that is complete is reading the bundle.     *)

\* The name a directory gives, and that it is finite and declares a list of
\* images.
Known(dir)   == FirstOf(<<At(Nothing, "name"), PackageName(dir)>>)
Finite(root) == IsFiniteSet(DOMAIN root) /\ Images(root) \in Seq(ToSet(Images(root)))

\* Files of root, each as it is there or torn.
Remains(dir, root) ==
  \A f \in DOMAIN dir : f \in DOMAIN root /\ dir[f] \in {root[f], Broken}

\* One more of them, or some of them lost.
LEMMA RemainsWith ==
  ASSUME NEW dir, NEW root, Remains(dir, root), NEW file \in DOMAIN root, NEW contents \in {root[file], Broken}
  PROVE  Remains(With(dir, file, contents), root)
BY DEF Remains, With

LEMMA RemainsKeeping ==
  ASSUME NEW dir, NEW root, NEW files \in SUBSET DOMAIN dir, Remains(dir, root) \/ files = {}
  PROVE  Remains(Keeping(files, dir), root)
BY DEF Remains, Keeping

\* The fields of a description.
LEMMA Described ==
  ASSUME NEW d, NEW n, NEW m, NEW l, d = [error |-> "", name |-> n, model |-> m, layers |-> l]
  PROVE  d.name = n /\ d.model = m /\ d.layers = l
OBVIOUS

\* The fields of what is picked, found and reported.
LEMMA Fieldwise ==
  /\ \A m : [error |-> "", file |-> m].file = m /\ Ok([error |-> "", file |-> m])
  /\ \A n, m, l : /\ [error |-> "", name |-> n, model |-> m, layers |-> l].name = n
                 /\ [error |-> "", name |-> n, model |-> m, layers |-> l].model = m
                 /\ [error |-> "", name |-> n, model |-> m, layers |-> l].layers = l
                 /\ Ok([error |-> "", name |-> n, model |-> m, layers |-> l])
  /\ \A why : Ok(Failed(why)) <=> why = ""
BY DEF Ok, Failed

\* Discovery, when nothing is known of a bundle.
LEMMA Discovering ==
  ASSUME NEW dir
  PROVE  Discover(dir, Nothing) =
           IF "package.json" \in DOMAIN dir /\ ~Parses(dir, "package.json") THEN Failed("invalidPackageJson")
           ELSE IF ~Ok(PickModel(dir, Known(dir))) THEN PickModel(dir, Known(dir))
           ELSE LET file == PickModel(dir, Known(dir)).file IN
                IF Known(dir) = Absent /\ ~Fits(dir, file) THEN Failed("apiModel")
                ELSE [error  |-> "",
                      name   |-> IF Known(dir) = Absent THEN dir[file].name ELSE Known(dir),
                      model  |-> file,
                      layers |-> LayersIn(dir)]
<1>1. "model" \notin DOMAIN Nothing
  BY DEF Nothing
<1> QED
  BY <1>1 DEF Discover, Known

\* A model is picked among the models that are there.
LEMMA Picking ==
  ASSUME NEW dir, NEW name, IsFiniteSet(Models(dir))
  PROVE  /\ Ok(PickModel(dir, name)) =>
              /\ PickModel(dir, name) = [error |-> "", file |-> PickModel(dir, name).file]
              /\ PickModel(dir, name).file \in Models(dir)
              /\ \/ Models(dir) = {PickModel(dir, name).file}
                 \/ name # Absent /\ PickModel(dir, name).file = Preferred[name]
         /\ \A m : Models(dir) = {m} => PickModel(dir, name) = [error |-> "", file |-> m]
         /\ name # Absent /\ Preferred[name] \in Models(dir)
              => PickModel(dir, name) = [error |-> "", file |-> Preferred[name]]
<1>1. Models(dir) = {} \/ (\E m : Models(dir) = {m}) \/ (Models(dir) # {} /\ Cardinality(Models(dir)) # 1)
  BY FS_CardinalityType, FS_Singleton
<1>2. ASSUME Models(dir) = {}
      PROVE  PickModel(dir, name) = Failed("noApiModel") /\ ~Ok(PickModel(dir, name))
  <2>1. Cardinality(Models(dir)) # 1
    BY <1>2, FS_EmptySet
  <2> QED
    BY <1>2, <2>1 DEF PickModel, Failed, Ok
<1>3. ASSUME NEW m, Models(dir) = {m} PROVE PickModel(dir, name) = [error |-> "", file |-> m]
  <2>1. Cardinality(Models(dir)) = 1
    BY <1>3, FS_Singleton
  <2>2. (CHOOSE x \in Models(dir) : TRUE) = m
    BY <1>3
  <2>3. Preferred[name] \in Models(dir) => Preferred[name] = m
    BY <1>3
  <2> QED
    BY <1>3, <2>1, <2>2, <2>3 DEF PickModel
<1>4. ASSUME Models(dir) # {}, Cardinality(Models(dir)) # 1
      PROVE  PickModel(dir, name) =
               IF name # Absent /\ Preferred[name] \in Models(dir)
               THEN [error |-> "", file |-> Preferred[name]] ELSE Failed("ambiguousApiModel")
  BY <1>4 DEF PickModel
<1>5. ~Ok(Failed("ambiguousApiModel"))
  BY DEF Ok, Failed
<1>6. ASSUME NEW m PROVE [error |-> "", file |-> m].file = m
  OBVIOUS
<1> QED
  <2>1. CASE Models(dir) = {}
    BY <1>2, <2>1
  <2>2. ASSUME NEW m, Models(dir) = {m} PROVE
         /\ PickModel(dir, name) = [error |-> "", file |-> m] /\ PickModel(dir, name).file = m
         /\ Preferred[name] \in Models(dir) => Preferred[name] = m
    <3>1. PickModel(dir, name) = [error |-> "", file |-> m]
      BY <1>3, <2>2
    <3> QED
      BY <1>6, <2>2, <3>1
  <2>3. CASE \E m : Models(dir) = {m}
    BY <2>2, <2>3
  <2>4. CASE Models(dir) # {} /\ Cardinality(Models(dir)) # 1
    <3>1. \A m : Models(dir) # {m}
      BY <2>4, FS_Singleton
    <3> QED
      BY <1>4, <1>5, <1>6, <2>4, <3>1
  <2> QED
    BY <1>1, <2>1, <2>3, <2>4

\* The layers of a bundle that is discovered.
LEMMA LayeredFiles ==
  ASSUME NEW root, Finite(root), Ok(Discover(root, Nothing))
  PROVE  LET file == PickModel(root, Known(root)).file IN
         /\ "package.json" \in DOMAIN root => Parses(root, "package.json")
         /\ Ok(PickModel(root, Known(root))) /\ file \in Models(root)
         /\ Known(root) = Absent => Fits(root, file)
         /\ Discover(root, Nothing) =
              [error  |-> "",
               name   |-> IF Known(root) = Absent THEN root[file].name ELSE Known(root),
               model  |-> file,
               layers |-> LayersIn(root)]
         /\ Discover(root, Nothing).model = file /\ Discover(root, Nothing).layers = LayersIn(root)
         /\ Layered(root) = {file} \cup (LayerNames \cap DOMAIN root)
         /\ Layered(root) \subseteq DOMAIN root
<1> DEFINE pick == PickModel(root, Known(root))
<1>1. IsFiniteSet(Models(root))
  BY FS_Intersection DEF Finite, Models
<1>2. /\ "package.json" \in DOMAIN root => Parses(root, "package.json")
      /\ Ok(pick) /\ (Known(root) = Absent => Fits(root, pick.file))
      /\ Discover(root, Nothing) =
           [error  |-> "",
            name   |-> IF Known(root) = Absent THEN root[pick.file].name ELSE Known(root),
            model  |-> pick.file,
            layers |-> LayersIn(root)]
  <2>1. ~Ok(Failed("invalidPackageJson")) /\ ~Ok(Failed("apiModel"))
    BY DEF Ok, Failed
  <2> HIDE DEF pick
  <2>2. Discover(root, Nothing) =
           IF "package.json" \in DOMAIN root /\ ~Parses(root, "package.json") THEN Failed("invalidPackageJson")
           ELSE IF ~Ok(pick) THEN pick
           ELSE IF Known(root) = Absent /\ ~Fits(root, pick.file) THEN Failed("apiModel")
                ELSE [error  |-> "",
                      name   |-> IF Known(root) = Absent THEN root[pick.file].name ELSE Known(root),
                      model  |-> pick.file,
                      layers |-> LayersIn(root)]
    BY Discovering, Zenon DEF pick
  <2> QED
    BY <2>1, <2>2
<1>3. pick.file \in Models(root)
  BY <1>1, <1>2, Picking
<1>5. Discover(root, Nothing).model = pick.file /\ Discover(root, Nothing).layers = LayersIn(root)
  <2>1. PICK d, n, f, l : /\ d = Discover(root, Nothing) /\ f = pick.file /\ l = LayersIn(root)
                          /\ d = [error |-> "", name |-> n, model |-> f, layers |-> l]
    <3> HIDE DEF pick
    <3> QED
      BY <1>2
  <2>2. d = [error |-> "", name |-> n, model |-> f, layers |-> l]
    BY <2>1
  <2>3. d.model = f /\ d.layers = l
    BY <2>2
  <2> QED
    BY <2>1, <2>3
<1>4. Layered(root) = {pick.file} \cup (LayerNames \cap DOMAIN root)
  BY <1>5, LayersFound DEF Layered
<1> QED
  BY <1>2, <1>3, <1>4, <1>5 DEF Models

\* What remains of a bundle, with all its layers there, is discovered as the
\* bundle is, unless its package.json is torn.
LEMMA DiscoveredAgain ==
  ASSUME NEW root, NEW dir, Finite(root), Ok(Discover(root, Nothing)), Remains(dir, root),
         Layered(root) \subseteq DOMAIN dir, Ok(Discover(dir, Nothing))
  PROVE  Discover(dir, Nothing) = Discover(root, Nothing)
<1>1. DOMAIN dir \subseteq DOMAIN root /\ LayerNames \cap DOMAIN dir = LayerNames \cap DOMAIN root
  BY LayeredFiles DEF Remains
<1>2. "package.json" \in DOMAIN dir <=> "package.json" \in DOMAIN root
  BY <1>1 DEF LayerNames
<1>3. IsFiniteSet(Models(dir)) /\ IsFiniteSet(Models(root)) /\ Models(dir) \subseteq Models(root)
  BY <1>1, FS_Intersection, FS_Subset DEF Finite, Models
<1>4. "package.json" \in DOMAIN dir => dir["package.json"] = root["package.json"]
  <2>1. ~Ok(Failed("invalidPackageJson"))
    BY DEF Ok, Failed
  <2>2. "package.json" \in DOMAIN dir => Parses(dir, "package.json")
    BY <2>1, Discovering
  <2> QED
    BY <2>2 DEF Remains, Parses
<1>5. PackageName(dir) = PackageName(root)
  BY <1>2, <1>4 DEF PackageName
<1>6. Known(dir) = Known(root)
  BY <1>5 DEF Known
<1>7. PICK k, file : k = Known(root) /\ file = PickModel(root, k).file
  OBVIOUS
<1>8. /\ Ok(PickModel(root, k)) /\ file \in Models(root) /\ file \in Models(dir)
      /\ Known(root) = Absent => Fits(root, file)
  BY <1>7, LayeredFiles DEF Models
<1>9. PickModel(dir, k) = [error |-> "", file |-> file]
  <2>1. Models(root) = {file} \/ (k # Absent /\ file = Preferred[k])
    BY <1>3, <1>7, <1>8, Picking
  <2>2. CASE Models(root) = {file}
    <3>1. Models(dir) = {file}
      BY <1>3, <1>8, <2>2
    <3> QED
      BY <1>3, <3>1, Picking
  <2>3. CASE k # Absent /\ file = Preferred[k]
    BY <1>3, <1>8, <2>3, Picking
  <2> QED
    BY <2>1, <2>2, <2>3
<1>10. PickModel(dir, k).file = file /\ Ok(PickModel(dir, k))
  BY <1>9, Fieldwise
<1>11. LayersIn(dir) = LayersIn(root)
  BY <1>1 DEF LayersIn, LayerNames
<1>12. ~Ok(Failed("invalidPackageJson")) /\ ~Ok(Failed("apiModel"))
  BY DEF Ok, Failed
<1>13. /\ k = Absent => Fits(dir, file)
       /\ Discover(dir, Nothing) =
            [error  |-> "", name |-> IF k = Absent THEN dir[file].name ELSE k,
             model  |-> file, layers |-> LayersIn(dir)]
  <2>1. Discover(dir, Nothing) =
          IF "package.json" \in DOMAIN dir /\ ~Parses(dir, "package.json") THEN Failed("invalidPackageJson")
          ELSE IF k = Absent /\ ~Fits(dir, file) THEN Failed("apiModel")
               ELSE [error  |-> "", name |-> IF k = Absent THEN dir[file].name ELSE k,
                     model  |-> file, layers |-> LayersIn(dir)]
    BY <1>6, <1>7, <1>10, Discovering
  <2> QED
    BY <1>12, <2>1
<1>14. k = Absent => dir[file] = root[file]
  BY <1>8, <1>13 DEF Fits, Parses, Remains, Models
<1>15. Discover(root, Nothing) =
         [error  |-> "", name |-> IF k = Absent THEN root[file].name ELSE k,
          model  |-> file, layers |-> LayersIn(root)]
  BY <1>7, LayeredFiles
<1>16. (IF k = Absent THEN dir[file].name ELSE k) = (IF k = Absent THEN root[file].name ELSE k)
  BY <1>14
<1>17. PICK n : n = IF k = Absent THEN root[file].name ELSE k
  OBVIOUS
<1>18. PICK m, l : m = LayersIn(root) /\ l = [error |-> "", name |-> n, model |-> file, layers |-> m]
  OBVIOUS
<1>19. Discover(dir, Nothing) = l
  BY <1>11, <1>13, <1>16, <1>17, <1>18
<1>20. Discover(root, Nothing) = l
  BY <1>15, <1>17, <1>18
<1> QED
  BY <1>19, <1>20

\* The model and the layers of a bundle, in the order they are copied.
LEMMA LayersToCopy ==
  ASSUME NEW root, Finite(root), Ok(Discover(root, Nothing))
  PROVE  LET found == Discover(root, Nothing)
             files == <<found.model>> \o found.layers
         IN IsSeq(files) /\ ToSet(files) = Layered(root)
<1>1. PICK found, T : found = Discover(root, Nothing) /\ T = Layered(root)
  OBVIOUS
<1>2. found.layers = LayersIn(root)
  BY <1>1, LayeredFiles
<1>3. PICK s, t : s = <<found.model>> /\ t = found.layers
  OBVIOUS
<1>4. s \in Seq(T) /\ t \in Seq(T)
  <2>1. found.model \in T
    BY <1>1 DEF Layered
  <2>2. IsSeq(LayersIn(root)) /\ ToSet(LayersIn(root)) \subseteq T
    BY <1>1, LayersFound, SeqIsSeq DEF Layered
  <2>3. PICK L : L = ToSet(LayersIn(root))
    OBVIOUS
  <2>4. LayersIn(root) \in Seq(L) /\ L \subseteq T
    BY <2>2, <2>3 DEF IsSeq
  <2> QED
    BY <1>2, <1>3, <2>1, <2>4
<1>5. s \o t \in Seq(T) /\ ToSet(s \o t) = ToSet(s) \cup ToSet(t)
  BY <1>4, Joined
<1>6. ToSet(s) = {found.model}
  BY <1>3 DEF ToSet
<1>7. ToSet(s \o t) = Layered(root)
  BY <1>1, <1>2, <1>3, <1>5, <1>6 DEF Layered
<1> QED
  BY <1>1, <1>3, <1>5, <1>7 DEF IsSeq

\* A layer that cannot be read is the error of its bundle.
LEMMA ReadFails ==
  ASSUME NEW dir, NEW root, Finite(root), Ok(Discover(root, Nothing)),
         Ok(Read(dir, Discover(root, Nothing))), NEW file \in Layered(root)
  PROVE  Readable(dir, file)
<1>1. PICK found : found = Discover(root, Nothing)
  OBVIOUS
<1>2. PICK T : T = Layered(root)
  OBVIOUS
<1>3. found.model \in ModelFiles
  BY <1>1, LayeredFiles DEF Models
<1>5. PICK files : files = <<found.model>> \o found.layers
  OBVIOUS
<1>6. files \in Seq(T) /\ ToSet(files) = T
  BY <1>1, <1>2, <1>5, LayersToCopy DEF IsSeq
<1>7. "" \notin T
  <2>1. T = {found.model} \cup (LayerNames \cap DOMAIN root)
    BY <1>1, <1>2, LayeredFiles
  <2> QED
    BY <1>3, <2>1, NamesAssumption DEF LayerNames
<1>8. Read(dir, found) = IF \E n \in DOMAIN files : ~Readable(dir, files[n])
                         THEN Failed(files[SelectInSeq(files, LAMBDA l : ~Readable(dir, l))])
                         ELSE [error |-> "", name |-> found.name, model |-> dir[found.model],
                               layers |-> [l \in ToSet(found.layers) |-> dir[l]]]
  BY <1>5 DEF Read
<1>9. ASSUME NEW n \in DOMAIN files, ~Readable(dir, files[n]) PROVE FALSE
  <2>1. PICK e : e = files[SelectInSeq(files, LAMBDA l : ~Readable(dir, l))]
    OBVIOUS
  <2>2. e \in T
    BY <1>6, <1>9, <2>1, FirstUnreadable
  <2>3. Read(dir, found) = Failed(e)
    BY <1>8, <1>9, <2>1
  <2> QED
    BY <1>1, <1>7, <2>2, <2>3, Fieldwise
<1> QED
  BY <1>2, <1>6, <1>9 DEF ToSet

\* A directory that holds every layer of a bundle, and nothing but its files or
\* torn ones, reads as the bundle does if it can be read; and then no layer is
\* torn.
LEMMA WholeOrUnread ==
  ASSUME NEW root, NEW dir, Finite(root), Ok(Discover(root, Nothing)), Remains(dir, root),
         Layered(root) \subseteq DOMAIN dir, Ok(Load(dir, Nothing))
  PROVE  /\ Load(dir, Nothing) = Load(root, Nothing)
         /\ \A f \in Layered(root) : dir[f] = root[f]
<1>1. Ok(Discover(dir, Nothing))
  BY DEF Load
<1>2. PICK found : found = Discover(root, Nothing)
  OBVIOUS
<1>3. Discover(dir, Nothing) = found
  BY <1>1, <1>2, DiscoveredAgain
<1>4. Load(dir, Nothing) = Read(dir, found) /\ Load(root, Nothing) = Read(root, found)
  BY <1>1, <1>2, <1>3 DEF Load
<1>5. \A f \in Layered(root) : Readable(dir, f)
  BY <1>2, <1>4, ReadFails
<1>6. \A f \in Layered(root) : dir[f] = root[f]
  BY <1>5 DEF Remains, Readable, Fits, Parses
<1>7. \A f \in Layered(root) : Readable(root, f)
  BY <1>5, <1>6 DEF Readable, Fits, Parses, Remains
<1>8. PICK files : files = <<found.model>> \o found.layers
  OBVIOUS
<1>9. found.model \in Layered(root) /\ ToSet(found.layers) \subseteq Layered(root)
  BY <1>2, LayeredFiles DEF Layered
<1>10. \A n \in DOMAIN files : files[n] \in Layered(root)
  <2>1. PICK T : T = Layered(root)
    OBVIOUS
  <2>2. found.layers \in Seq(LayerNames) /\ ToSet(found.layers) \subseteq T /\ found.model \in T
    BY <1>2, <1>9, <2>1, LayeredFiles, LayersFound
  <2>3. found.layers \in Seq(T)
    BY <2>2 DEF ToSet
  <2>4. files \in Seq(T)
    BY <1>8, <2>2, <2>3
  <2> QED
    BY <2>1, <2>4
<1>11. /\ Read(dir, found) = [error |-> "", name |-> found.name, model |-> dir[found.model],
                              layers |-> [l \in ToSet(found.layers) |-> dir[l]]]
       /\ Read(root, found) = [error |-> "", name |-> found.name, model |-> root[found.model],
                               layers |-> [l \in ToSet(found.layers) |-> root[l]]]
  BY <1>5, <1>7, <1>8, <1>10 DEF Read
<1>12. [l \in ToSet(found.layers) |-> dir[l]] = [l \in ToSet(found.layers) |-> root[l]]
  BY <1>6, <1>9
<1>13. dir[found.model] = root[found.model]
  BY <1>6, <1>9
<1> QED
  BY <1>4, <1>6, <1>11, <1>12, <1>13

-----------------------------------------------------------------------------
(* What is published, and what a fetch copies of it. *)

\* Every directory a bundle is looked for in is finite and lists its images.
LEMMA RootFinite ==
  ASSUME NEW s \in Slots, published[s] \in Uploads[s] PROVE Finite(Current(s))
<1>1. PICK archive : archive = published[s]
  OBVIOUS
<1>2. /\ archive # <<>> /\ IsSeq(archive)
      /\ \A dir \in ToSet(archive) : Finite(dir)
  BY <1>1, CacheAssumption DEF IsSeq, Finite
<1>3. Finite(EmptyDir)
  <2>1. DOMAIN EmptyDir = {} /\ IsFiniteSet({})
    BY FS_EmptySet DEF EmptyDir
  <2>2. Images(EmptyDir) = <<>>
    BY <2>1 DEF Images
  <2>3. <<>> \in Seq(ToSet(<<>>))
    OBVIOUS
  <2> QED
    BY <2>1, <2>2, <2>3 DEF Finite
<1>4. CASE s = Npm
  BY <1>1, <1>2, <1>4, TakeFirst DEF Current, BundleRoot
<1>5. CASE s # Npm
  <2> DEFINE with == {n \in 1 .. Len(archive) : Models(archive[n]) # {}}
  <2>1. Len(archive) \in Nat /\ DOMAIN archive = 1 .. Len(archive)
    <3>1. PICK T : T = ToSet(archive)
      OBVIOUS
    <3>2. archive \in Seq(T)
      BY <1>2, <3>1 DEF IsSeq
    <3> QED
      BY <3>2
  <2>2. CASE with = {}
    BY <1>1, <1>3, <1>5, <2>1, <2>2 DEF Current, BundleRoot
  <2>3. CASE with # {}
    <3>1. SelectInSeq(archive, LAMBDA dir : Models(dir) # {}) = Min(with)
      BY <2>3 DEF SelectInSeq
    <3>2. \E n \in DOMAIN archive : Models(archive[n]) # {}
      BY <2>1, <2>3
    <3>3. Current(s) = archive[Min(with)]
      BY <1>1, <1>5, <3>1, <3>2 DEF Current, BundleRoot
    <3>4. with \in SUBSET Nat /\ with \subseteq DOMAIN archive
      BY <2>1
    <3> HIDE DEF with
    <3>5. PICK k \in with : \A j \in with : k <= j
      BY <2>3, <3>4, LeastNumber
    <3>6. Min(with) \in with
      BY <3>5 DEF Min
    <3>7. archive[Min(with)] \in ToSet(archive)
      BY <3>4, <3>6 DEF ToSet
    <3> QED
      BY <1>2, <3>3, <3>7
  <2> QED
    BY <2>2, <2>3
<1> QED
  BY <1>4, <1>5

\* The image files of a bundle are a sequence.
LEMMA PathsAreSeq ==
  ASSUME NEW root, Finite(root) PROVE IsSeq(ImagePaths(root))
<1>1. PICK list, n, T : list = Images(root) /\ n = Len(list) /\ T = {i.path : i \in ToSet(list)}
  OBVIOUS
<1> DEFINE next(k, paths) == IF "path" \in DOMAIN list[k] THEN Append(paths, list[k].path) ELSE paths
           op == [k \in 1 .. n |-> [paths \in Seq(T) |-> next(k, paths)]]
           Folds(g) == g = [s \in SUBSET DOMAIN list |->
                              IF s = {} THEN <<>> ELSE next(Max(s), g[s \ {Max(s)}])]
           chosen == CHOOSE g : Folds(g)
<1>2. n \in Nat /\ DOMAIN list = 1 .. n
  <2>1. PICK L : L = ToSet(list)
    OBVIOUS
  <2>2. list \in Seq(L)
    BY <1>1, <2>1 DEF Finite
  <2> QED
    BY <1>1, <2>2
<1>3. ImagePaths(root) = chosen[DOMAIN list]
  BY <1>1 DEF ImagePaths, FoldLeft, MapThenFoldSet
<1>4. \A k \in 1 .. n : list[k].path \in T
  BY <1>1, <1>2 DEF ToSet
<1>5. ASSUME NEW k \in 1 .. n, NEW paths \in Seq(T) PROVE next(k, paths) \in Seq(T)
  BY <1>4
<1> HIDE DEF next
<1>6. op \in [1 .. n -> [Seq(T) -> Seq(T)]] /\ <<>> \in Seq(T)
  BY <1>5
<1>7. ASSUME NEW k \in 1 .. n, NEW paths \in Seq(T) PROVE op[k][paths] = next(k, paths)
  OBVIOUS
<1> HIDE DEF op
<1>8. ASSUME NEW s \in SUBSET (1 .. n), s # {} PROVE Max(s) \in 1 .. n
  BY <1>2, <1>8, LatestChooses DEF Latest
<1>9. \E g : Folds(g)
  <2>1. PICK f \in [SUBSET (1 .. n) -> Seq(T)] : FoldsUp(f, n, <<>>, op)
    BY <1>2, <1>6, SequenceFoldExists
  <2>2. ASSUME NEW s \in SUBSET (1 .. n)
        PROVE  f[s] = IF s = {} THEN <<>> ELSE next(Max(s), f[s \ {Max(s)}])
    <3>1. f[s] = IF s = {} THEN <<>> ELSE op[Max(s)][f[s \ {Max(s)}]]
      BY <2>1 DEF FoldsUp
    <3>2. f[s \ {Max(s)}] \in Seq(T)
      OBVIOUS
    <3> QED
      BY <1>7, <1>8, <3>1, <3>2
  <2>3. Folds(f)
    BY <1>2, <2>1, <2>2 DEF FoldsUp
  <2> QED
    BY <2>3
<1>10. PICK g : g = chosen /\ Folds(g)
  <2> HIDE DEF Folds
  <2> QED
    BY <1>9
<1> HIDE DEF chosen
<1>11. g = [s \in SUBSET (1 .. n) |-> g[s]] /\ g[{}] = <<>>
  BY <1>2, <1>10
<1>12. ASSUME NEW s \in SUBSET (1 .. n), s # {}, g[s \ {Max(s)}] \in Seq(T)
       PROVE  g[s] = op[Max(s)][g[s \ {Max(s)}]]
  BY <1>2, <1>7, <1>8, <1>10, <1>12
<1>13. PICK h \in [0 .. n -> Seq(T)] : h[n] = g[1 .. n]
  <2> DEFINE V == Seq(T)
             t == g
             o == op
             b == <<>>
  <2>1. FoldsAmong(t, n, V, b, o)
    BY <1>11, <1>12 DEF FoldsAmong
  <2>2. o \in [1 .. n -> [V -> V]] /\ b \in V
    BY <1>6
  <2> HIDE DEF t, V, o, b
  <2>3. \E h \in [0 .. n -> V] : StepsTo(h, n, b, o, t[1 .. n])
    BY <1>2, <2>1, <2>2, SequenceFoldSteps
  <2> QED
    BY <2>3 DEF t, V, StepsTo
<1>14. n \in 0 .. n
  BY <1>2
<1>15. h[n] \in Seq(T)
  BY <1>13, <1>14
<1>16. ImagePaths(root) \in Seq(T)
  BY <1>2, <1>3, <1>10, <1>13, <1>15
<1> QED
  BY <1>16, SeqIsSeq

-----------------------------------------------------------------------------
(* A fetch serves what is published: the invariant.                            *)

\* What is published at a slot is one of the archives that may be.
PublishedTyped == DOMAIN published = Slots /\ \A s \in Slots : published[s] \in Uploads[s] \cup {Unpublished}

\* The registry is asked for its own slot and the release for the others; what
\* is downloaded is there, and stays while it is copied.
Placed ==
  fetch # Idle =>
    /\ fetch.stage \in Writing \cup {"download", "clear", "probe"} =>
         (fetch.request.source = "npm" <=> fetch.asset = Npm)
    /\ \/ fetch.stage \in Writing \cup {"download", "clear"}
       \/ fetch.stage = "probe" /\ ~Named(fetch.request)
       => published[fetch.asset] # Unpublished
    /\ fetch.stage \in Writing \cup {"clear"} =>
         fetch.root = Current(fetch.asset) /\ Ok(Discover(fetch.root, Nothing))

\* What a bundle promises is listed or left to copy, what is listed is in the
\* slot as it was downloaded, and nothing else is if the slot was emptied.
Copied ==
  fetch # Idle =>
    /\ fetch.stage = "clear" => IsSeq(fetch.left) /\ ToSet(fetch.left) = Layered(fetch.root)
    /\ fetch.stage = "layers" =>
         /\ IsSeq(fetch.left) /\ ToSet(fetch.left) \subseteq Layered(fetch.root)
         /\ Layered(fetch.root) \subseteq fetch.files \cup ToSet(fetch.left)
    /\ fetch.stage = "images" =>
         /\ IsSeq(fetch.left) /\ Layered(fetch.root) \subseteq fetch.files
         /\ ToSet(ImagePaths(fetch.root)) \subseteq fetch.files \cup ToSet(fetch.left)
    /\ fetch.stage = "read" => Promised(fetch.root) \subseteq fetch.files
    /\ fetch.stage \in Writing =>
         /\ \A f \in fetch.files : disk[fetch.asset][f] = fetch.root[f]
         /\ ~fetch.merged => Remains(disk[fetch.asset], fetch.root)

\* What is published at a slot and was not replaced is all that was ever put
\* there, possibly torn or lost since, and a record of it is complete.
SlotKept(s) ==
  /\ published[s] = Unpublished => s \notin DOMAIN record /\ DOMAIN disk[s] = {}
  /\ Remains(disk[s], Current(s))
  /\ s \in DOMAIN record => Ok(Discover(Current(s), Nothing)) /\ Promised(Current(s)) \subseteq record[s]

Kept == \A s \in Slots \ moved : SlotKept(s)

\* The inductive invariant.
WordInv == Inv /\ PublishedTyped /\ Placed /\ Copied /\ Kept /\ WholeBundles /\ FetchedIsCurrent

\* A directory with all that a bundle promises, and nothing else but what is
\* torn, is the bundle but for images if it can be read.
LEMMA ReadIsWhole ==
  ASSUME NEW root, NEW dir, Finite(root), Ok(Discover(root, Nothing)), Remains(dir, root),
         Promised(root) \subseteq DOMAIN dir, Ok(Load(dir, Nothing))
  PROVE  WholeButImages(dir, root)
<1>1. Layered(root) \subseteq DOMAIN dir /\ ToSet(ImagePaths(root)) \subseteq DOMAIN dir
  BY DEF Promised
<1>2. Load(dir, Nothing) = Load(root, Nothing)
  BY <1>1, WholeOrUnread
<1> QED
  BY <1>1, <1>2 DEF WholeButImages, Remains

\* What is served stays as good while nothing is published.
LEMMA ServedStays ==
  ASSUME WholeBundles, FetchedIsCurrent,
         served' = None \/ (served' = served /\ published' = published /\ moved' = moved)
  PROVE  WholeBundles' /\ FetchedIsCurrent'
BY DEF WholeBundles, FetchedIsCurrent, Current

\* Nothing is promised of a fetch that is over.
LEMMA NoFetch ==
  ASSUME fetch' = Idle PROVE Placed' /\ Copied'
BY DEF Placed, Copied

\* Writing files of what was downloaded, torn or not, into the slot of a fetch.
LEMMA SlotWritten ==
  ASSUME Inv, Placed, Kept, fetch # Idle, fetch.stage \in Writing \cup {"clear"},
         UNCHANGED <<published, record, moved>>,
         \A s \in Slots \ {fetch.asset} : disk'[s] = disk[s],
         fetch.asset \notin moved => Remains(disk'[fetch.asset], fetch.root)
  PROVE  Kept'
<1> SUFFICES ASSUME NEW s \in Slots \ moved PROVE SlotKept(s)'
  BY DEF Kept
<1>1. Current(s)' = Current(s) /\ SlotKept(s)
  BY DEF Current, Kept
<1>2. CASE s = fetch.asset
  BY <1>1, <1>2 DEF SlotKept, Placed, Writing
<1>3. CASE s # fetch.asset
  BY <1>1, <1>3 DEF SlotKept
<1> QED
  BY <1>2, <1>3

\* What is in the slot of a fetch is of what it downloaded, unless it was replaced.
LEMMA SlotRemains ==
  ASSUME Kept, Placed, fetch # Idle, fetch.stage \in Writing \cup {"clear"}, fetch.asset \in Slots \ moved
  PROVE  Remains(disk[fetch.asset], fetch.root)
BY DEF Kept, SlotKept, Placed, Writing

\* At first nothing is cached, fetched or served.
LEMMA InitWord == Init => WordInv
<1> SUFFICES ASSUME Init PROVE WordInv
  OBVIOUS
<1>1. PublishedTyped
  BY CacheAssumption DEF Init, PublishedTyped
<1>2. Kept
  BY DEF Init, Kept, SlotKept, Remains, EmptyDir
<1> QED
  BY <1>1, <1>2, InitInv DEF Init, WordInv, Placed, Copied, WholeBundles, FetchedIsCurrent

\* Copying the file that is next.
LEMMA CopyNext ==
  ASSUME WordInv, NEW file, fetch # Idle, fetch.stage \in {"layers", "images"}, fetch.left # <<>>,
         file = Head(fetch.left), file \in DOMAIN fetch.root,
         disk' = [disk EXCEPT ![SlotOf(fetch)] = With(@, file, fetch.root[file])],
         fetch' = [fetch EXCEPT !.left = Tail(@), !.files = @ \cup {file}],
         UNCHANGED <<published, record, served, moved>>
  PROVE  Placed' /\ Copied' /\ Kept'
<1>1. fetch.asset \in Slots /\ FetchShape /\ DOMAIN disk = Slots
  BY DEF WordInv, Inv, SlotKnown, Writing
<1>2. /\ fetch'.asset = fetch.asset /\ fetch'.stage = fetch.stage /\ fetch'.request = fetch.request
      /\ fetch'.root = fetch.root /\ fetch'.left = Tail(fetch.left)
      /\ fetch'.files = fetch.files \cup {file} /\ fetch'.merged = fetch.merged
  BY <1>1 DEF FetchShape
<1>3. /\ \A s \in Slots \ {fetch.asset} : disk'[s] = disk[s]
      /\ disk'[fetch.asset] = With(disk[fetch.asset], file, fetch.root[file])
  BY <1>1 DEF SlotOf
<1>10. \A f \in fetch'.files : disk'[fetch.asset][f] = fetch.root[f]
  <2>1. \A f \in fetch.files : f \in DOMAIN disk[fetch.asset] /\ disk[fetch.asset][f] = fetch.root[f]
    BY DEF WordInv, Inv, ListedIsThere, Copied, Writing
  <2> QED
    BY <1>2, <1>3, <2>1 DEF With
<1>11. ~fetch.merged => Remains(disk'[fetch.asset], fetch.root)
  BY <1>3, RemainsWith DEF WordInv, Copied, Writing
<1>4. IsSeq(fetch.left)
  BY DEF WordInv, Copied
<1>5. /\ IsSeq(Tail(fetch.left)) /\ file \in ToSet(fetch.left)
      /\ ToSet(fetch.left) = {file} \cup ToSet(Tail(fetch.left))
  BY <1>4, TakeFirst
<1>6. Placed'
  <2>1. Current(fetch.asset)' = Current(fetch.asset)
    BY DEF Current
  <2> QED
    BY <1>2, <2>1 DEF WordInv, Placed
<1>7. Copied'
  <2>1. CASE fetch.stage = "layers"
    BY <1>2, <1>5, <1>10, <1>11, <2>1 DEF WordInv, Copied
  <2>2. CASE fetch.stage = "images"
    BY <1>2, <1>5, <1>10, <1>11, <2>2 DEF WordInv, Copied
  <2> QED
    BY <2>1, <2>2
<1>8. fetch.asset \notin moved => Remains(disk'[fetch.asset], fetch.root)
  BY <1>1, <1>3, RemainsWith, SlotRemains DEF WordInv, Writing
<1>9. Kept'
  BY <1>3, <1>8, SlotWritten DEF WordInv, Writing
<1> QED
  BY <1>6, <1>7, <1>9

\* What the invariant adds to Inv.
NewWord == PublishedTyped /\ Placed /\ Copied /\ Kept /\ WholeBundles /\ FetchedIsCurrent

\* While neither the network nor the disk changes, slots and archives keep what
\* they had.
LEMMA SlotsStay ==
  ASSUME WordInv, UNCHANGED <<published, disk, record, moved>>
  PROVE  PublishedTyped' /\ Kept'
<1>1. \A s \in Slots : Current(s)' = Current(s)
  BY DEF Current
<1> QED
  BY <1>1 DEF WordInv, PublishedTyped, Kept, SlotKept

\* A bundle that is read where nothing was replaced is the one published there.
LEMMA CachedIsWhole ==
  ASSUME WordInv, NEW s \in Slots \ moved, Cached(s)
  PROVE  WholeButImages(disk[s], Current(s))
<1>1. SlotKept(s) /\ s \in DOMAIN record /\ record[s] \subseteq DOMAIN disk[s] /\ Ok(Load(disk[s], Nothing))
  BY DEF WordInv, Kept, Cached
<1>2. published[s] \in Uploads[s]
  BY <1>1 DEF SlotKept, WordInv, PublishedTyped
<1>3. Finite(Current(s))
  BY <1>2, RootFinite
<1>4. /\ Ok(Discover(Current(s), Nothing)) /\ Remains(disk[s], Current(s))
      /\ Promised(Current(s)) \subseteq DOMAIN disk[s]
  BY <1>1 DEF SlotKept
<1> QED
  BY <1>1, <1>3, <1>4, ReadIsWhole

\* Every step keeps it.
LEMMA NextWord == WordInv /\ [Next]_vars => NewWord'
<1> SUFFICES ASSUME WordInv, [Next]_vars PROVE NewWord'
  OBVIOUS
<1> USE DEF NewWord
<1>a. /\ FetchShape /\ DOMAIN disk = Slots /\ SlotKnown /\ Placed /\ Copied /\ ListedIsThere
      /\ WholeBundles /\ FetchedIsCurrent
  BY DEF WordInv, Inv
<1>1. ASSUME NEW r \in Requests, Request(r) PROVE NewWord'
  <2>1. UNCHANGED <<published, disk, record, moved>> /\ served' = None
    BY <1>1 DEF Request
  <2>2. /\ fetch'.stage \in {"probe", "lookup"} /\ fetch'.request = r /\ fetch'.asset = r.asset
        /\ fetch'.stage = "probe" => Named(r)
    BY <1>1 DEF Request
  <2>3. Named(r) => (r.source = "npm" <=> r.asset = Npm)
    BY CacheAssumption DEF Requests, Named
  <2>4. Placed' /\ Copied'
    BY <2>1, <2>2, <2>3 DEF Placed, Copied, Writing
  <2> QED
    BY <1>a, <2>1, <2>4, SlotsStay, ServedStays
<1>2. CASE Hit
  <2>1. PICK slot : slot = fetch.asset
    OBVIOUS
  <2>2. /\ slot \in Slots /\ Cached(slot) /\ UNCHANGED <<published, disk, record, moved>>
        /\ fetch' = Idle
        /\ served' = [slot |-> slot, how |-> "cache", dir |-> disk[slot], root |-> fetch.root,
                      merged |-> fetch.merged]
    BY <1>2, <1>a, <2>1 DEF Hit, Serve, SlotOf, SlotKnown
  <2>3. slot \notin moved => WholeButImages(disk[slot], Current(slot))
    BY <2>2, CachedIsWhole
  <2>4. served'.slot = slot /\ served'.how = "cache" /\ served'.dir = disk[slot]
    BY <2>2
  <2>5. WholeBundles' /\ FetchedIsCurrent'
    BY <2>2, <2>3, <2>4 DEF WholeBundles, FetchedIsCurrent, Current
  <2> QED
    BY <2>2, <2>5, SlotsStay, NoFetch
<1>3. CASE Miss
  <2>1. UNCHANGED <<published, disk, record, served, moved>>
    BY <1>3 DEF Miss
  <2>2. PICK stage : /\ stage = (IF Named(fetch.request) THEN "lookup" ELSE "download")
                     /\ fetch' = [fetch EXCEPT !.stage = stage]
    BY <1>3 DEF Miss
  <2>3. /\ fetch # Idle /\ fetch.stage = "probe" /\ fetch'.stage = stage
        /\ fetch'.request = fetch.request /\ fetch'.asset = fetch.asset
    BY <1>3, <1>a, <2>2 DEF Miss, FetchShape
  <2>4. Placed' /\ Copied'
    BY <1>a, <2>1, <2>2, <2>3 DEF Placed, Copied, Writing
  <2> QED
    BY <1>a, <2>1, <2>4, SlotsStay, ServedStays
<1>4. CASE Lookup
  <2>1. UNCHANGED <<published, disk, record, served, moved>> /\ fetch # Idle
    BY <1>4 DEF Lookup
  <2>2. CASE fetch' = Idle
    BY <1>a, <2>1, <2>2, SlotsStay, ServedStays, NoFetch
  <2>3. CASE fetch' # Idle
    <3> DEFINE found == IF fetch.request.source = "npm" THEN Version ELSE PickAsset(fetch.request)
    <3>1. PICK a \in found, stage \in {"probe", "download"} :
            fetch' = [fetch EXCEPT !.stage = stage, !.asset = a]
      BY <1>4, <2>3 DEF Lookup
    <3>2. published[a] # Unpublished /\ (fetch.request.source = "npm" <=> a = Npm)
      BY <3>1, CacheAssumption DEF Version, PickAsset
    <3>3. fetch'.stage = stage /\ fetch'.request = fetch.request /\ fetch'.asset = a
      BY <1>a, <2>1, <3>1 DEF FetchShape
    <3>4. Placed' /\ Copied'
      BY <2>1, <3>1, <3>2, <3>3 DEF Placed, Copied, Writing
    <3> QED
      BY <1>a, <2>1, <3>4, SlotsStay, ServedStays
  <2> QED
    BY <2>2, <2>3
<1>5. CASE Download
  <2>1. UNCHANGED <<published, disk, record, served, moved>> /\ fetch # Idle /\ fetch.stage = "download"
    BY <1>5 DEF Download
  <2>2. CASE fetch' = Idle
    BY <1>a, <2>1, <2>2, SlotsStay, ServedStays, NoFetch
  <2>3. CASE fetch' # Idle
    <3>1. PICK root, found, left :
            /\ root = BundleRoot(published[fetch.asset], fetch.request.source)
            /\ found = Discover(root, Nothing) /\ left = <<found.model>> \o found.layers /\ Ok(found)
            /\ fetch' = [fetch EXCEPT !.stage = "clear", !.root = root, !.left = left]
      BY <1>5, <2>3 DEF Download
    <3>2. /\ fetch.asset \in Slots /\ published[fetch.asset] # Unpublished
          /\ fetch.request.source = "npm" <=> fetch.asset = Npm
      BY <1>a, <2>1 DEF SlotKnown, Placed
    <3>3. root = Current(fetch.asset)
      BY <3>1, <3>2 DEF Current, BundleRoot
    <3>4. Finite(root)
      BY <3>2, <3>3, RootFinite DEF WordInv, PublishedTyped
    <3>5. IsSeq(left) /\ ToSet(left) = Layered(root)
      BY <3>1, <3>4, LayersToCopy
    <3>6. /\ fetch'.stage = "clear" /\ fetch'.request = fetch.request /\ fetch'.asset = fetch.asset
          /\ fetch'.root = root /\ fetch'.left = left
      BY <1>a, <2>1, <3>1 DEF FetchShape
    <3>7. Current(fetch.asset)' = Current(fetch.asset)
      BY <2>1, <3>6 DEF Current
    <3>8. Placed' /\ Copied'
      BY <2>1, <3>1, <3>2, <3>3, <3>5, <3>6, <3>7 DEF Placed, Copied, Writing
    <3> QED
      BY <1>a, <2>1, <3>8, SlotsStay, ServedStays
  <2> QED
    BY <2>2, <2>3
<1>6. CASE Clear
  <2>1. UNCHANGED <<published, record, served, moved>> /\ fetch # Idle /\ fetch.stage = "clear"
    BY <1>6 DEF Clear
  <2>2. PICK kept \in SUBSET DOMAIN disk[fetch.asset] :
          /\ disk' = [disk EXCEPT ![fetch.asset] = Keeping(kept, @)]
          /\ fetch' = [fetch EXCEPT !.stage = "layers", !.merged = kept # {}]
    BY <1>6 DEF Clear, SlotOf
  <2>3. /\ fetch'.stage = "layers" /\ fetch'.request = fetch.request /\ fetch'.asset = fetch.asset
        /\ fetch'.root = fetch.root /\ fetch'.left = fetch.left /\ fetch'.files = fetch.files
        /\ ~fetch'.merged => kept = {}
    BY <1>a, <2>1, <2>2 DEF FetchShape
  <2>4. fetch.asset \in Slots /\ disk'[fetch.asset] = Keeping(kept, disk[fetch.asset])
    BY <1>a, <2>1, <2>2 DEF SlotKnown
  <2>5. Current(fetch.asset)' = Current(fetch.asset) /\ fetch.files = {}
    BY <1>a, <2>1, <2>3 DEF Current, ListedIsThere, Writing
  <2>6. ~fetch'.merged => Remains(disk'[fetch.asset], fetch.root)
    BY <2>3, <2>4, RemainsKeeping
  <2>9. Placed' /\ Copied'
    BY <1>a, <2>1, <2>3, <2>5, <2>6 DEF Placed, Copied, Writing
  <2>7. fetch.asset \notin moved => Remains(disk'[fetch.asset], fetch.root)
    BY <1>a, <2>1, <2>4, RemainsKeeping, SlotRemains DEF WordInv
  <2>8. Kept'
    BY <1>a, <2>1, <2>2, <2>7, SlotWritten DEF WordInv
  <2> QED
    BY <1>a, <2>1, <2>8, <2>9, ServedStays DEF WordInv, PublishedTyped
<1>7. CASE CopyLayer
  <2>1. Head(fetch.left) \in DOMAIN fetch.root
    <3>1. IsSeq(fetch.left) /\ fetch.left # <<>> /\ ToSet(fetch.left) \subseteq Layered(fetch.root)
      BY <1>7, <1>a DEF CopyLayer, Copied
    <3>2. /\ fetch.root = Current(fetch.asset) /\ Ok(Discover(fetch.root, Nothing)) /\ fetch.asset \in Slots
          /\ published[fetch.asset] # Unpublished
      BY <1>7, <1>a DEF CopyLayer, Placed, Writing, SlotKnown
    <3>3. Finite(fetch.root)
      BY <3>2, RootFinite DEF WordInv, PublishedTyped
    <3>4. Layered(fetch.root) \subseteq DOMAIN fetch.root
      BY <3>2, <3>3, LayeredFiles
    <3> QED
      BY <3>1, <3>4, TakeFirst
  <2>2. Placed' /\ Copied' /\ Kept'
    BY <1>7, <2>1, CopyNext DEF CopyLayer
  <2> QED
    BY <1>7, <1>a, <2>2, ServedStays DEF CopyLayer, WordInv, PublishedTyped
<1>8. CASE StartImages
  <2>1. /\ UNCHANGED <<published, disk, record, served, moved>>
        /\ fetch # Idle /\ fetch.stage = "layers" /\ fetch.left = <<>>
    BY <1>8 DEF StartImages
  <2>2. /\ fetch'.stage = "images" /\ fetch'.request = fetch.request /\ fetch'.asset = fetch.asset
        /\ fetch'.root = fetch.root /\ fetch'.left = ImagePaths(fetch.root) /\ fetch'.files = fetch.files
        /\ fetch'.merged = fetch.merged
    BY <1>8, <1>a DEF StartImages, FetchShape
  <2>3. /\ fetch.root = Current(fetch.asset) /\ fetch.asset \in Slots /\ published[fetch.asset] # Unpublished
    BY <1>a, <2>1 DEF Placed, Writing, SlotKnown
  <2>4. IsSeq(ImagePaths(fetch.root))
    BY <2>3, RootFinite, PathsAreSeq DEF WordInv, PublishedTyped
  <2>5. ToSet(fetch.left) = {}
    BY <2>1 DEF ToSet
  <2>6. Current(fetch.asset)' = Current(fetch.asset)
    BY <2>1, <2>2 DEF Current
  <2>7. Placed' /\ Copied'
    BY <1>a, <2>1, <2>2, <2>4, <2>5, <2>6 DEF Placed, Copied, Writing
  <2> QED
    BY <1>a, <2>1, <2>7, SlotsStay, ServedStays
<1>9. CASE CopyImage
  <2>1. CASE fetch' = Idle
    <3>1. UNCHANGED <<published, record, served, moved>> /\ fetch # Idle /\ fetch.stage = "images"
      BY <1>9 DEF CopyImage
    <3>2. CASE disk' = disk
      BY <1>a, <2>1, <3>1, <3>2, SlotsStay, ServedStays, NoFetch
    <3>3. CASE disk' # disk
      <4>1. fetch' = [fetch EXCEPT !.left = Tail(@), !.files = Listed(fetch, Head(fetch.left))]
        BY <1>9, <3>3 DEF CopyImage
      <4>2. /\ Head(fetch.left) \in DOMAIN fetch.root
            /\ disk' = [disk EXCEPT ![SlotOf(fetch)] = With(@, Head(fetch.left), fetch.root[Head(fetch.left)])]
            /\ fetch.left # <<>>
        BY <1>9, <3>3 DEF CopyImage
      <4>3. Placed' /\ Copied' /\ Kept'
        BY <3>1, <4>1, <4>2, CopyNext DEF Listed
      <4> QED
        BY <1>a, <3>1, <4>3, ServedStays DEF WordInv, PublishedTyped
    <3> QED
      BY <3>2, <3>3
  <2>2. CASE fetch' # Idle
    <3>1. /\ UNCHANGED <<published, record, served, moved>>
          /\ fetch # Idle /\ fetch.stage = "images" /\ fetch.left # <<>>
          /\ Head(fetch.left) \in DOMAIN fetch.root
          /\ disk' = [disk EXCEPT ![SlotOf(fetch)] = With(@, Head(fetch.left), fetch.root[Head(fetch.left)])]
          /\ fetch' = [fetch EXCEPT !.left = Tail(@), !.files = @ \cup {Head(fetch.left)}]
      BY <1>9, <2>2 DEF CopyImage, Listed
    <3>2. Placed' /\ Copied' /\ Kept'
      BY <3>1, CopyNext
    <3> QED
      BY <1>a, <3>1, <3>2, ServedStays DEF WordInv, PublishedTyped
  <2> QED
    BY <2>1, <2>2
<1>10. CASE Record
  <2>1. /\ UNCHANGED <<published, disk, served, moved>>
        /\ fetch # Idle /\ fetch.stage = "images" /\ fetch.left = <<>>
    BY <1>10 DEF Record
  <2>2. /\ fetch'.stage = "read" /\ fetch'.request = fetch.request /\ fetch'.asset = fetch.asset
        /\ fetch'.root = fetch.root /\ fetch'.files = fetch.files /\ fetch'.merged = fetch.merged
    BY <1>10, <1>a DEF Record, FetchShape
  <2>3. /\ DOMAIN record' = DOMAIN record \cup {fetch.asset}
        /\ record'[fetch.asset] = fetch.files
        /\ \A s \in DOMAIN record \ {fetch.asset} : record'[s] = record[s]
    BY <1>10 DEF Record, With, SlotOf
  <2>4. ToSet(fetch.left) = {}
    BY <2>1 DEF ToSet
  <2>5. Promised(fetch.root) \subseteq fetch.files
    BY <1>a, <2>1, <2>4 DEF Copied, Promised
  <2>6. \A s \in Slots : Current(s)' = Current(s)
    BY <2>1 DEF Current
  <2>7. fetch.asset \in Slots
    BY <1>a, <2>1 DEF SlotKnown, Writing
  <2>8. Placed' /\ Copied'
    BY <1>a, <2>1, <2>2, <2>5, <2>6, <2>7 DEF Placed, Copied, Writing
  <2>9. ASSUME NEW s \in Slots \ moved PROVE SlotKept(s)'
    <3>1. SlotKept(s) /\ Current(s)' = Current(s)
      BY <2>6, <2>9 DEF WordInv, Kept
    <3>2. CASE s = fetch.asset
      <4>1. /\ published[s] # Unpublished /\ fetch.root = Current(s) /\ Ok(Discover(fetch.root, Nothing))
        BY <1>a, <2>1, <3>2 DEF Placed, Writing
      <4> QED
        BY <2>1, <2>3, <2>5, <3>1, <3>2, <4>1 DEF SlotKept
    <3>3. CASE s # fetch.asset
      BY <2>1, <2>3, <3>1, <3>3 DEF SlotKept
    <3> QED
      BY <3>2, <3>3
  <2>10. Kept'
    BY <2>1, <2>9 DEF Kept
  <2> QED
    BY <1>a, <2>1, <2>8, <2>10, ServedStays DEF WordInv, PublishedTyped
<1>11. CASE ReadBack
  <2>1. UNCHANGED <<published, disk, record, moved>> /\ fetch # Idle /\ fetch.stage = "read" /\ fetch' = Idle
    BY <1>11 DEF ReadBack, Serve
  <2>2. CASE served' = served
    BY <1>a, <2>1, <2>2, SlotsStay, ServedStays, NoFetch
  <2>3. CASE served' # served
    <3>1. PICK slot, root : slot = fetch.asset /\ root = fetch.root
      OBVIOUS
    <3>2. /\ Ok(Load(disk[slot], Nothing))
          /\ served' = [slot |-> slot, how |-> "network", dir |-> disk[slot], root |-> root,
                         merged |-> fetch.merged]
      BY <1>11, <2>3, <3>1 DEF ReadBack, Serve, SlotOf
    <3>3. /\ slot \in Slots /\ root = Current(slot) /\ Ok(Discover(root, Nothing))
          /\ published[slot] # Unpublished
      BY <1>a, <2>1, <3>1 DEF SlotKnown, Placed, Writing
    <3>4. Finite(root)
      BY <3>3, RootFinite DEF WordInv, PublishedTyped
    <3>5. \A f \in Promised(root) : f \in DOMAIN disk[slot] /\ disk[slot][f] = root[f]
      BY <1>a, <2>1, <3>1 DEF Copied, ListedIsThere, Writing
    <3>6. ~fetch.merged \/ slot \notin moved => Remains(disk[slot], root)
      BY <1>a, <2>1, <3>1, <3>3, SlotRemains DEF Copied, Writing, WordInv
    <3>7. Remains(disk[slot], root) => WholeButImages(disk[slot], root) /\ Whole(disk[slot], root)
      <4>1. Remains(disk[slot], root) => WholeButImages(disk[slot], root)
        BY <3>2, <3>3, <3>4, <3>5, ReadIsWhole
      <4> QED
        BY <3>5, <4>1 DEF WholeButImages, Whole, Promised
    <3>9. /\ served'.slot = slot /\ served'.dir = disk[slot] /\ served'.root = root
          /\ served'.merged = fetch.merged /\ served'.how = "network"
      BY <3>2
    <3>10. WholeBundles'
      BY <2>1, <3>3, <3>6, <3>7, <3>9 DEF WholeBundles, Current
    <3>11. FetchedIsCurrent'
      BY <2>1, <3>5, <3>6, <3>7, <3>9 DEF FetchedIsCurrent
    <3>8. WholeBundles' /\ FetchedIsCurrent'
      BY <3>10, <3>11
    <3> QED
      BY <2>1, <3>8, SlotsStay, NoFetch
  <2> QED
    BY <2>2, <2>3
<1>12. CASE Stop
  BY <1>12, <1>a, SlotsStay, ServedStays, NoFetch DEF Stop
<1>13. CASE Tear
  <2>1. /\ UNCHANGED <<published, record, served, moved>> /\ fetch' = Idle
        /\ fetch # Idle /\ fetch.stage \in {"layers", "images"}
    BY <1>13 DEF Tear
  <2>2. PICK file \in DOMAIN fetch.root : disk' = [disk EXCEPT ![fetch.asset] = With(@, file, Broken)]
    BY <1>13 DEF Tear, SlotOf
  <2>3. /\ fetch.asset \in Slots /\ disk'[fetch.asset] = With(disk[fetch.asset], file, Broken)
        /\ \A s \in Slots \ {fetch.asset} : disk'[s] = disk[s]
    BY <1>a, <2>1, <2>2 DEF SlotKnown, Writing
  <2>4. fetch.asset \notin moved => Remains(disk'[fetch.asset], fetch.root)
    BY <1>a, <2>1, <2>3, RemainsWith, SlotRemains DEF WordInv, Writing
  <2>5. Kept'
    BY <1>a, <2>1, <2>3, <2>4, SlotWritten DEF WordInv, Writing
  <2> QED
    BY <1>a, <2>1, <2>5, ServedStays, NoFetch DEF WordInv, PublishedTyped
<1>14. ASSUME NEW slot \in Slots, NEW file \in DOMAIN disk[slot], Damage(slot, file) PROVE NewWord'
  <2>1. UNCHANGED <<published, record, served, moved, fetch>> /\ fetch = Idle
    BY <1>14 DEF Damage
  <2>2. /\ \A s \in Slots \ {slot} : disk'[s] = disk[s]
        /\ disk'[slot] = [f \in DOMAIN disk[slot] \ {file} |-> disk[slot][f]]
    BY <1>14, <1>a DEF Damage, Keeping
  <2>3. ASSUME NEW s \in Slots \ moved PROVE SlotKept(s)'
    <3>1. SlotKept(s) /\ Current(s)' = Current(s)
      BY <2>1, <2>3 DEF WordInv, Kept, Current
    <3>2. DOMAIN disk'[s] \subseteq DOMAIN disk[s] /\ \A f \in DOMAIN disk'[s] : disk'[s][f] = disk[s][f]
      BY <2>2
    <3> QED
      BY <2>1, <3>1, <3>2 DEF SlotKept, Remains
  <2>4. Kept'
    BY <2>1, <2>3 DEF Kept
  <2> QED
    BY <1>a, <2>1, <2>4, ServedStays, NoFetch DEF WordInv, PublishedTyped
<1>15. ASSUME NEW a \in Assets, NEW archive \in Uploads[a], Upload(a, archive) PROVE NewWord'
  <2>1. UNCHANGED <<disk, record, fetch>> /\ fetch = Idle /\ served' = None
    BY <1>15 DEF Upload
  <2>2. /\ published' = [published EXCEPT ![a] = archive] /\ archive # published[a]
        /\ moved' = IF published[a] = Unpublished THEN moved ELSE moved \cup {a}
    BY <1>15 DEF Upload
  <2>3. DOMAIN published = Slots /\ a \in Slots
    BY DEF WordInv, PublishedTyped, Slots
  <2>4. PublishedTyped'
    BY <2>2, <2>3 DEF WordInv, PublishedTyped
  <2>5. ASSUME NEW s \in Slots \ moved' PROVE SlotKept(s)'
    <3>1. s \notin moved /\ SlotKept(s)
      BY <2>2, <2>5 DEF WordInv, Kept
    <3>2. CASE s # a
      <4>1. published'[s] = published[s]
        BY <2>2, <2>3, <3>2
      <4>2. Current(s)' = Current(s)
        BY <4>1 DEF Current
      <4> QED
        BY <2>1, <3>1, <4>1, <4>2 DEF SlotKept
    <3>3. CASE s = a
      <4>1. published[s] = Unpublished /\ published'[s] # Unpublished
        BY <2>2, <2>3, <2>5, <3>3
      <4> QED
        BY <2>1, <3>1, <4>1 DEF SlotKept, Remains
    <3> QED
      BY <3>2, <3>3
  <2>6. Kept'
    BY <2>5 DEF Kept
  <2> QED
    BY <1>a, <2>1, <2>4, <2>6, ServedStays, NoFetch
<1>16. CASE UNCHANGED vars
  <2>1. UNCHANGED <<published, disk, record, fetch, served, moved>>
    BY <1>16 DEF vars
  <2>2. Placed' /\ Copied'
    BY <1>a, <2>1 DEF Placed, Copied, Current
  <2> QED
    BY <1>a, <2>1, <2>2, SlotsStay, ServedStays
<1> QED
  BY <1>1, <1>2, <1>3, <1>4, <1>5, <1>6, <1>7, <1>8, <1>9, <1>10, <1>11, <1>12,
     <1>13, <1>14, <1>15, <1>16 DEF Next

-----------------------------------------------------------------------------
(* Theorems. *)

\* A request that names its asset finds what has been fetched, by whichever
\* request, whatever has failed or been lost since in other slots.
THEOREM FetchedIsFound == Spec => []NamedAfterUnnamedHits
<1>1. Inv => NamedAfterUnnamedHits
      BY DEF Inv, FetchedIsCached, NamedAfterUnnamedHits
<1>2. QED
      BY <1>1, InitInv, NextInv, PTL DEF Spec

\* Whichever step of whichever fetch before it failed or was killed, whatever
\* file was lost and whatever could not be removed: a fetch from the network has
\* every layer and image as downloaded; it reads as what was downloaded unless a
\* replaced archive left files that could not be removed; what comes from the
\* cache reads as what is published unless that was replaced, every image there,
\* though one may be cut short; and a request that names its asset finds what
\* was fetched.
THEOREM WordIsKept == Spec => []CacheKeepsItsWord
<1>1. WordInv /\ [Next]_vars => WordInv'
      BY NextInv, NextWord DEF WordInv, NewWord
<1>2. WordInv => CacheKeepsItsWord
      BY DEF WordInv, Inv, FetchedIsCached, NamedAfterUnnamedHits, CacheKeepsItsWord
<1>3. QED
      BY <1>1, <1>2, InitWord, PTL DEF Spec
=============================================================================
