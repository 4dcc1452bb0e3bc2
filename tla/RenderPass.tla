------------------------------ MODULE RenderPass ------------------------------
(***************************************************************************)
(* What happens to code between the API model and the reader: declaration  *)
(* files are generated and given their imports, and the remark plugins     *)
(* render the code blocks of generated and authored pages.  Pages are      *)
(* rendered concurrently in one process: everything up to an await is one  *)
(* step.                                                                   *)
(*                                                                         *)
(* A site is [entries, authored, ssg, suppress]: entry points [name,       *)
(* items], pages written by hand [name, scoped, fences], whether pages are *)
(* rendered to markdown, and whether errors in examples are suppressed.    *)
(* An item names its base when the compiler made that for it, or None.     *)
(* An example or a fence is [lines, imports, fails, ms]: whether it        *)
(* imports from the package, what is wrong with it, of "types" and         *)
(* "format", and how long it takes.                                        *)
(***************************************************************************)
EXTENDS CodeBlocks, Reports

CONSTANT Sites

\* Entry points, items, members, references, examples, fences and their lines
\* come as arrays.  What takes time takes some milliseconds, a line has some
\* braces, and a reference is written with some identifiers.
List(x)     == x \in Seq(ToSet(x))
Lines(list) == List(list) /\ \A l \in ToSet(list) : l.opens \in Nat /\ l.closes \in Nat
Timed(list) == List(list) /\ \A x \in ToSet(list) : x.ms \in Nat /\ Lines(x.lines)
Cited(refs) == List(refs) /\ \A r \in ToSet(refs) : List(r.text) /\ r.text # <<>>

\* An item prints as code, and a member of a class as some lines that begin no
\* class of their own; it has no members.
Prints(item) ==
  /\ Lines(item.lines) /\ \A l \in ToSet(item.lines) : l.part \in Shown
  /\ item.kind \in {"Class", "Interface"} =>
       \A m \in ToSet(item.members) :
         /\ m.members = <<>> /\ Lines(m.lines) /\ m.lines # <<>>
         /\ \A l \in ToSet(m.lines) : l.part = "member" /\ l.declares = None /\ List(l.words)
Refers(item) ==
  /\ Cited(item.refs) /\ List(item.members)
  /\ \A m \in ToSet(item.members) :
       Cited(m.refs) /\ List(m.members) /\ \A n \in ToSet(m.members) : Cited(n.refs)

\* A comment is made of texts, and a text of paragraphs of words.
Text(t)   == List(t) /\ \A p \in ToSet(t) : List(p)
Texts(ts) == List(ts) /\ \A t \in ToSet(ts) : Text(t)
Documented(item) ==
  /\ Text(item.doc.summary) /\ Text(item.doc.remarks)
  /\ \A part \in {"typeParams", "params", "returns", "deprecated", "examples"} : Texts(item.doc[part])
Explains(item) ==
  /\ Documented(item)
  /\ \A m \in ToSet(item.members) : Documented(m) /\ \A n \in ToSet(m.members) : Documented(n)
WellFormed(item) == item.name # None /\ Refers(item) /\ Prints(item) /\ Explains(item) /\ Timed(item.examples)

ASSUME SitesAssumption ==
  \A s \in Sites :
    /\ List(s.entries) /\ List(s.authored)
    /\ \A e \in ToSet(s.entries) : List(e.items) /\ \A i \in ToSet(e.items) : WellFormed(i)
    /\ \A a \in ToSet(s.authored) : Timed(a.fences)

VARIABLES
  site,
  pages,       \* page -> its code blocks
  phase,       \* "modelled", "declaring", "rendering", "reported" or "failed"
  files,       \* entry point -> its declaration file
  references,  \* what the reference extractor holds
  todo,        \* entry points whose file has not been given its imports
  current,     \* the page type errors are attributed to
  stage,       \* block -> "waiting", "formatting", "highlighting", "linking", "done", "skipped"
  links,       \* block -> the links over its words
  sinks,       \* what the observability sinks hold
  artifacts    \* the files written for the build, or None

vars == <<site, pages, phase, files, references, todo, current, stage, links, sinks, artifacts>>

Items    == FlattenSeq([e \in DOMAIN site.entries |-> site.entries[e].items])
Routes   == {<<i.name>> : i \in ToSet(Items)}
              \cup UNION {{<<i.name, m.name>> : m \in ToSet(i.members)} : i \in ToSet(Items)}
Authored == {a.name : a \in ToSet(site.authored)}

Block(component, lines, fails, ms) ==
  [component |-> component, lines |-> lines, fails |-> fails, ms |-> ms, of |-> None]

\* buildExampleWithFallback; types are not checked where errors are suppressed.
ExampleBlock(x) ==
  [Block("ApiExample", Formatted(Prepared(x, site.suppress), x.fails),
         IF site.suppress THEN x.fails \ {"types"} ELSE x.fails, x.ms) EXCEPT !.of = Prepared(x, site.suppress)]

\* A base class that the compiler made is shown on the page of its class and has
\* none of its own.
Base(item) == {i \in ToSet(Items) : i.name = item.base}
OnOwnPage  == {i \in ToSet(Items) : \A k \in ToSet(Items) : i \notin Base(k)}
Signature(item) == [Block("ApiSignature", SignatureSource(item), {}, 1) EXCEPT !.of = item]

\* The components a generated page shows code in.
GeneratedBlocks(item) ==
  <<Signature(item)>>
    \o (IF Base(item) = {} THEN <<>> ELSE <<Signature(CHOOSE i \in Base(item) : TRUE)>>)
    \o (IF item.kind \notin {"Class", "Interface"} THEN <<>>
        ELSE [m \in DOMAIN item.members |->
                [Block("ApiMember", MemberSource(item, item.members[m]), {}, 1)
                   EXCEPT !.of = item.members[m]]])
    \o [n \in DOMAIN item.examples |-> ExampleBlock(item.examples[n])]
AuthoredBlocks(page) ==
  [f \in DOMAIN page.fences |->
     Block("with-api", Formatted(page.fences[f].lines, page.fences[f].fails), page.fences[f].fails, page.fences[f].ms)]

Pages == [p \in {i.name : i \in OnOwnPage} \cup Authored |->
            IF p \in Authored
            THEN AuthoredBlocks(CHOOSE a \in ToSet(site.authored) : a.name = p)
            ELSE GeneratedBlocks(CHOOSE i \in OnOwnPage : i.name = p)]
Blocks == UNION {{p} \X DOMAIN pages[p] : p \in DOMAIN pages}
At(b)  == pages[b[1]][b[2]]

--------------------------------------------------------------------------------
Init ==
  /\ site \in Sites /\ pages = Pages /\ phase = "modelled"
  /\ files = <<>> /\ references = <<>> /\ todo = {} /\ current = None
  /\ stage = [b \in Blocks |-> "waiting"] /\ links = [b \in Blocks |-> <<>>]
  /\ sinks = Silent /\ artifacts = None

Event(tag, level, b, file) == [tag |-> tag, level |-> level, block |-> b, file |-> file, scope |-> "(unscoped)"]

\* A model that cannot be loaded, or two items of one route, end the build;
\* what is known by then is written.
Fail ==
  /\ phase = "modelled" /\ phase' = "failed"
  /\ \E tag \in {"ModelLoadFailed", "RouteCollisionDetected"} :
       sinks' = EmitAll(sinks, <<Event(tag, "error", None, "model"), Event("BuildFailed", "error", None, "")>>)
  /\ artifacts' = [issues |-> sinks'.issues]
  /\ UNCHANGED <<site, pages, files, references, todo, current, stage, links>>

\* The bodies of all files, then their imports one after the other.
Declare ==
  /\ phase = "modelled"
  /\ files' = Files(site.entries) /\ todo' = DOMAIN site.entries
  /\ phase' = "declaring"
  /\ UNCHANGED <<site, pages, references, current, stage, links, sinks, artifacts>>

\* emitVfsEvents: every declaration file, and whether it was given imports.
VfsEvents(declared) ==
  FlattenSeq([e \in DOMAIN declared |->
    <<Event("VfsGenerated", "debug", None, "")>>
      \o (IF declared[e].imports = {} THEN <<>> ELSE <<Event("ImportsPrepended", "debug", None, "")>>)])

\* generateSinglePage: an example that cannot be formatted is told of.
PageEvents ==
  LET bad == {b \in Blocks : b[1] \notin Authored /\ "format" \in At(b).fails}
  IN [n \in DOMAIN SetToSeq(bad) |-> Event("PrettierError", "warn", SetToSeq(bad)[n], "unknown")]

\* prependImportsToVfs, one entry point; after the last, the pages are generated.
PrependImports(e) ==
  /\ phase = "declaring" /\ e \in todo /\ \A d \in todo : e <= d
  /\ references' = Extract(<<>>, FlattenSeq([i \in DOMAIN site.entries[e].items |-> Refs(site.entries[e].items[i])]))
  /\ files' = [files EXCEPT ![e].imports = Imports(references')]
  /\ todo' = todo \ {e}
  /\ phase' = IF todo' = {} THEN "rendering" ELSE phase
  /\ sinks' = IF todo' = {} THEN EmitAll(sinks, VfsEvents(files') \o PageEvents) ELSE sinks
  /\ UNCHANGED <<site, pages, current, stage, links, artifacts>>

Unstarted(p) == \A b \in Blocks : b[1] = p => stage[b] = "waiting"
Move(p, next) == [b \in Blocks |-> IF b[1] = p THEN next ELSE stage[b]]
Failing(p)   == {b \in Blocks : b[1] = p /\ "types" \in At(b).fails}

\* handleTwoslashError tells of an error twice.
Diagnosed(b, file) ==
  <<Event("TwoslashDiagnostic", "warn", b, file), Event("TwoslashCheckFailed", "trace", b, file)>>

\* Mutation of StartGenerated: blocks are formatted before they are checked.
StartGeneratedAsync(p) ==
  /\ phase = "rendering" /\ p \in DOMAIN pages \ Authored /\ Unstarted(p) /\ ~site.ssg
  /\ current' = p /\ stage' = Move(p, "highlighting")
  /\ UNCHANGED <<site, pages, phase, files, references, todo, links, sinks, artifacts>>

\* remarkApiCodeblocks: every block of the page is highlighted, and its examples
\* checked, before the first of them waits for anything.
StartGenerated(p) ==
  /\ phase = "rendering" /\ p \in DOMAIN pages \ Authored /\ Unstarted(p) /\ ~site.ssg
  /\ current' = p /\ stage' = Move(p, "linking")
  /\ sinks' = EmitAll(sinks, FlattenSeq([n \in DOMAIN pages[p] |->
                 IF <<p, n>> \in Failing(p) THEN Diagnosed(<<p, n>>, p) ELSE <<>>]))
  /\ UNCHANGED <<site, pages, phase, files, references, todo, links, artifacts>>

\* A page that becomes markdown keeps its components as they are.
SkipGenerated(p) ==
  /\ phase = "rendering" /\ p \in DOMAIN pages \ Authored /\ Unstarted(p) /\ site.ssg
  /\ current' = p /\ stage' = Move(p, "skipped")
  /\ UNCHANGED <<site, pages, phase, files, references, todo, links, sinks, artifacts>>

\* remarkWithApi: the page is noted and every fence handed to the formatter.
StartAuthored(p) ==
  /\ phase = "rendering" /\ p \in Authored /\ Unstarted(p) /\ pages[p] # <<>>
  /\ current' = p /\ stage' = Move(p, "formatting")
  /\ UNCHANGED <<site, pages, phase, files, references, todo, links, sinks, artifacts>>

\* The formatter answers, what it cannot format stays as it is, and
\* highlighting begins; it waits for its own highlighter before it checks
\* anything.
Format(b) ==
  /\ stage[b] = "formatting" /\ stage' = [stage EXCEPT ![b] = "highlighting"]
  /\ sinks' = IF "format" \in At(b).fails
              THEN Emit(sinks, Event("PrettierError", "warn", b, "unknown")) ELSE sinks
  /\ UNCHANGED <<site, pages, phase, files, references, todo, current, links, artifacts>>

Highlight(b) ==
  /\ stage[b] = "highlighting" /\ stage' = [stage EXCEPT ![b] = "linking"]
  /\ sinks' = IF "types" \in At(b).fails THEN EmitAll(sinks, Diagnosed(b, current)) ELSE sinks
  /\ UNCHANGED <<site, pages, phase, files, references, todo, current, links, artifacts>>

\* A page outside every documented package has no routes to link to.
Scoped(p) == p \in Authored => (CHOOSE a \in ToSet(site.authored) : a.name = p).scoped
RoutesFor(p) == IF Scoped(p) THEN Routes ELSE {}

\* The event of a block: examples and fences are type-checked, signatures and
\* members are not; what neither checking nor highlighting took is the rest.
Processed(b) ==
  LET typed == At(b).component \in {"ApiExample", "with-api"}
      types == IF typed THEN Min({1, At(b).ms}) ELSE 0
  IN [tag |-> "CodeBlockProcessed", level |-> "debug", block |-> b, file |-> b[1],
      scope |-> IF Scoped(b[1]) THEN "api" ELSE "(unscoped)", component |-> At(b).component,
      twoslash |-> typed, totalMs |-> At(b).ms, twoslashMs |-> types,
      shikiMs |-> Min({1, At(b).ms - types})]

\* The rest of a block: links, its event, and the component that shows it.
Link(b) ==
  /\ stage[b] = "linking" /\ stage' = [stage EXCEPT ![b] = "done"]
  /\ links' = [links EXCEPT ![b] = LinkLines(At(b).lines, RoutesFor(b[1]))]
  /\ sinks' = Emit(sinks, Processed(b))
  /\ UNCHANGED <<site, pages, phase, files, references, todo, current, artifacts>>

\* afterBuild, once every page is rendered.
WriteArtifacts ==
  /\ phase = "rendering" /\ \A b \in Blocks : stage[b] \in {"done", "skipped"}
  /\ phase' = "reported" /\ artifacts' = Artifacts(sinks)
  /\ UNCHANGED <<site, pages, files, references, todo, current, stage, links, sinks>>

Next ==
  \/ Fail \/ Declare \/ WriteArtifacts
  \/ \E e \in DOMAIN site.entries : PrependImports(e)
  \/ \E p \in DOMAIN pages : StartGenerated(p) \/ SkipGenerated(p) \/ StartAuthored(p)
  \/ \E b \in Blocks : Format(b) \/ Highlight(b) \/ Link(b)

Spec == Init /\ [][Next]_vars

--------------------------------------------------------------------------------
(* Properties. *)

Root(text) == Head(text)

\* Whatever a declaration file borrows from another package is imported into it
\* under the name the file uses, "$1" names of the rollup included, as long as
\* the entry point refers to the symbol one way, by its own name or by a path,
\* also in members the file does not show: the text of the file (renderExcerpt)
\* and its imports (TypeReferenceExtractor) are made apart.
ByItsName(r) == Len(r.text) > 1 \/ Normalize(r) = r.sym
Referred(f)  == UNION {ToSet(Refs(i)) : i \in ToSet(site.entries[f].items)}
OneWay(f, r) ==
  \A q \in Referred(f) :
    Canonical(q) = Canonical(r) => ByItsName(q) /\ Root(Normalize(q)) = Root(Normalize(r))
ImportsBindMentions ==
  phase \in {"rendering", "reported"} => \A f \in DOMAIN files : \A m \in files[f].mentions :
    OneWay(f, m.of) => [pkg |-> m.of.pkg, name |-> <<Root(m.text)>>] \in files[f].imports

\* A file imports nothing but what its own entry point mentions: an import left
\* over from another file would clash with a declaration of the same name.
ImportsAreOwn ==
  \A f \in DOMAIN files : \A i \in files[f].imports :
    \E n \in DOMAIN site.entries[f].items : \E r \in ToSet(Refs(site.entries[f].items[n])) : Imported(r) = i

\* The imports of a file are those its text needs and no others.
ImportsFit == ImportsBindMentions /\ ImportsAreOwn

\* The comment a hover shows says what the author wrote: every word that has a
\* plain text stands once, in the compiler's order of the parts, and blank lines
\* only separate (formatJSDoc against the comment it was parsed from).
Words(text) == FlattenSeq(FlattenSeq(text))
Written(doc) ==
  LET words == Words(<<doc.summary>> \o doc.typeParams \o doc.params \o doc.returns
                       \o doc.deprecated \o <<doc.remarks>> \o doc.examples)
  IN FlattenSeq([n \in DOMAIN words |-> IF words[n] = "mute" THEN <<>> ELSE <<words[n]>>])
CommentsSayTheDoc ==
  \A f \in DOMAIN files :
    LET bearers == Commented(OfKind(site.entries[f].items, Declared)) IN
    \A n \in DOMAIN bearers :
      LET lines == files[f].comments[n]
          blank == {k \in DOMAIN lines : lines[k] = Blank}
      IN /\ FlattenSeq([k \in DOMAIN lines |-> lines[k].says]) = Written(bearers[n].doc)
         /\ \A k \in blank : k \notin {1, Len(lines)} /\ k + 1 \notin blank

\* Declarations written as "name: (...) => ..." are given the keyword without
\* which the whole file does not parse.
DeclarationsParse ==
  \A f \in DOMAIN files : \A d \in ToSet(files[f].declares) \cup files[f].inner : d[2] # "none"

\* A reader sees exactly the declaration a block is about: no hidden import, no
\* cut line and no wrapper shows, and no line of the declaration is hidden
\* (prependHiddenImports and memberContext against the hide-cut transformers).
Rows(lines, seen) == FlattenSeq([n \in DOMAIN lines |-> IF n \in seen THEN <<lines[n]>> ELSE <<>>])
VisibleIsDeclared ==
  \A b \in {c \in Blocks : stage[c] = "done"} :
    CASE At(b).component = "ApiSignature" -> Rows(At(b).lines, HideCutLines(At(b).lines)) = Skeleton(At(b).of)
      [] At(b).component = "ApiMember" -> Rows(At(b).lines, MemberFormat(At(b).lines)) = At(b).of.lines
      [] OTHER -> TRUE

\* What is left of an example by what the directives mean, each by itself: a cut
\* removes itself and every line before it, a cut-after itself and every line
\* after it, and a cut-start with its cut-end what stands between them.
Parts(lines) ==
  [n \in DOMAIN lines |-> CASE lines[n].part = "cut" -> "cut-before"
                            [] lines[n].part \in Shown \cup {"opening", "closing", "member"} -> "code"
                            [] OTHER -> lines[n].part]
Begun(parts, n) ==
  Cardinality({m \in 1 .. n : parts[m] = "cut-start"}) - Cardinality({m \in 1 .. n : parts[m] = "cut-end"})
Uncut(parts) ==
  {n \in DOMAIN parts :
     /\ parts[n] = "code" /\ Begun(parts, n) = 0
     /\ \A m \in DOMAIN parts : CASE parts[m] = "cut-before" -> m < n
                                [] parts[m] = "cut-after" -> n < m
                                [] OTHER -> TRUE}

\* Every cut-start has its cut-end; without, Twoslash shows nothing at all.
Paired(parts) ==
  Begun(parts, Len(parts)) = 0 /\ \A n \in DOMAIN parts : Begun(parts, n) >= 0

\* A cut-after is the last cut of the lines before and after it.
CutOnce(parts) ==
  \A m, n \in DOMAIN parts :
    m < n /\ parts[m] = "cut-after" => parts[n] \notin {"cut-before", "cut-after"}

\* What is copied from a block is what it shows (codeText and
\* stripTwoslashDirectives): of a signature what the hide-cut transformer leaves,
\* of an example what the meaning of its directives leaves, as long as its cuts
\* are paired and nothing is cut again behind a cut-after. A member is copied as
\* its excerpt, without any directive: VisibleIsDeclared compares that.
Directed(b) == stage[b] = "done" /\ At(b).component \in {"ApiExample", "with-api"}
CopiedAsShown ==
  \A b \in Blocks :
    LET parts == Parts(At(b).lines) IN
    /\ stage[b] = "done" /\ At(b).component = "ApiSignature" => StripDirectives(parts) = HideCutLines(At(b).lines)
    /\ Directed(b) /\ Paired(parts) /\ CutOnce(parts) => StripDirectives(parts) = Uncut(parts)

\* The comment on stripTwoslashDirectives, without exception: a cut-after removes
\* itself and every line after it.
CutsAsDocumented ==
  \A b \in {c \in Blocks : Directed(c)} :
    LET parts == Parts(At(b).lines) IN Paired(parts) => StripDirectives(parts) = Uncut(parts)

\* What formatting adds sets the sections of an example apart and never a
\* directive from the line it annotates (addLogicalBlankLines): next to a
\* directive stands what the author put there, and so at either end.
Attached(lines) ==
  {<<lines[n], lines[n + 1]>> : n \in {k \in 1 .. Len(lines) - 1 : {lines[k].part, lines[k + 1].part} \cap Directive # {}}}
DirectivesStayAttached ==
  \A b \in {c \in Blocks : At(c).component = "ApiExample"} :
    LET laid == At(b).lines
        given == At(b).of
    IN /\ Attached(laid) = Attached(given)
       /\ laid # <<>> => laid[1] = given[1] /\ laid[Len(laid)] = given[Len(given)]

\* An example is copied as it shows and checked as it is written.
CopyIsWhatShows == CopiedAsShown /\ DirectivesStayAttached

\* A member link on a name that no tooltip explains stands in the body of the
\* class it leads to: no class is taken for open after its last brace.
Depth(lines, n) ==
  FoldLeft(LAMBDA sum, l : sum + l.opens - l.closes, 0, SubSeq(lines, 1, n))
InBody(lines, n, class) ==
  \E m \in 1 .. n - 1 :
    /\ lines[m].declares = class
    /\ \A k \in m .. n - 1 : Depth(lines, k) > Depth(lines, m - 1)
MemberLinksInTheirClass ==
  \A b \in Blocks : \A n \in DOMAIN links[b] : \A w \in DOMAIN links[b][n] :
    LET link == links[b][n][w] IN
    link # None /\ Len(link) = 2 /\ At(b).lines[n].words[w].span # "hover"
      => InBody(At(b).lines, n, link[1])

\* In the skeleton of a class every member's name links to that member, down to
\* the first member whose type spreads over several lines: its closing brace is
\* taken for that of the class.
SkeletonMembersLinked ==
  \A b \in {c \in Blocks : stage[c] = "done" /\ At(c).component = "ApiSignature"} :
    LET lines == At(b).lines IN
    \A n \in DOMAIN lines :
      /\ lines[n].part = "member" /\ lines[n].words # <<>> /\ lines[n].words[1].span = "own"
      /\ lines[n].words[1].text \in {m.name : m \in ToSet(At(b).of.members)}
      /\ \A m \in 1 .. n - 1 : lines[m].part = "member" => lines[m].opens >= lines[m].closes
      => links[b][n][1] = <<At(b).of.name, lines[n].words[1].text>>

\* A member's name leads to the member of the class it stands in.
MemberLinksRight == MemberLinksInTheirClass /\ SkeletonMembersLinked

\* A type error found on a generated page is reported for that page, whatever
\* pages are rendered at the same time.
ErrorsNameTheirPage ==
  \A i \in sinks.issues :
    i.tag \in {"TwoslashDiagnostic", "TwoslashCheckFailed"} /\ i.block[1] \notin Authored => i.file = i.block[1]

\* The issues file of a build names every block that failed, twice if its types
\* did, and nothing else; the summary counts it once.
IssuesComplete ==
  phase = "reported" =>
    LET rendered(what) == {b \in Blocks : stage[b] = "done" /\ what \in At(b).fails}
        told(tag) == {i.block : i \in {i \in artifacts.issues : i.tag = tag}}
        formatted == {b \in Blocks : "format" \in At(b).fails /\ (b[1] \in Authored => stage[b] = "done")}
    IN /\ told("TwoslashDiagnostic") = rendered("types") /\ told("TwoslashCheckFailed") = rendered("types")
       /\ told("PrettierError") = formatted
       /\ artifacts.summary["twoslash.errors"] = Cardinality(rendered("types"))
       /\ artifacts.summary["prettier.errors"] = Cardinality(formatted)

\* The render report accounts for every block once: in all, by scope, by
\* component and by page, whatever the order pages were rendered in; and the
\* summary, from other series of the same metrics, says the same.
Spent(S) == MapThenSumSet(LAMBDA b : At(b).ms, S)
ReportAddsUp ==
  LET done == {b \in Blocks : stage[b] = "done"} IN
  phase = "reported" /\ done # {} =>
    LET r == artifacts.render.report
        agrees(bucket, S) ==
          /\ bucket["blocks"] = Cardinality(S) /\ bucket["totalMs"] = Spent(S)
          /\ bucket["twoslashBlocks"] = Cardinality({b \in S : At(b).component \notin {"ApiSignature", "ApiMember"}})
          /\ bucket["totalMs"] = bucket["twoslashMs"] + bucket["shikiMs"] + bucket["otherMs"]
        page(file) == {b \in done : b[1] = file}
    IN /\ agrees(r.overall, done)
       /\ \A f \in Fields : artifacts.summary[f] = r.overall[f]
       /\ \A s \in DOMAIN r.byScope : agrees(r.byScope[s], {b \in done : (s = "api") = Scoped(b[1])})
       /\ \A c \in DOMAIN r.byComponent : agrees(r.byComponent[c], {b \in done : At(b).component = c})
       /\ MapThenSumSet(LAMBDA s : r.byScope[s]["blocks"], DOMAIN r.byScope) = Cardinality(done)
       /\ \A file \in DOMAIN artifacts.render.byFile :
            LET tally == artifacts.render.byFile[file]
            IN tally.blocks = Cardinality(page(file)) /\ tally.totalMs = Spent(page(file))

\* The report's samples are the slowest blocks rendered so far, in order.
SlowestAreSlowest ==
  LET slowest == sinks.slowest
      done == {b \in Blocks : stage[b] = "done"}
  IN /\ Len(slowest) = IF Cardinality(done) < SlowestLimit THEN Cardinality(done) ELSE SlowestLimit
     /\ \A n \in 2 .. Len(slowest) : slowest[n].totalMs <= slowest[n - 1].totalMs
     /\ \A b \in done \ {s.block : s \in ToSet(slowest)} : \A s \in ToSet(slowest) : At(b).ms <= s.totalMs

\* What the build reports of the blocks it rendered is so.
ReportHolds == ReportAddsUp /\ SlowestAreSlowest
================================================================================
