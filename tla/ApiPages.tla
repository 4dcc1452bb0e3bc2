------------------------------- MODULE ApiPages -------------------------------
(***************************************************************************)
(* From an API model to pages that link to one another: entry points are   *)
(* merged, compiler-made base classes folded into their owners, items      *)
(* filed under categories, routes and anchors handed out, and every page   *)
(* rendered.  The route map the links are taken from (prepareWorkItems)    *)
(* and the elements they must land on (buildPage) are computed by separate *)
(* code that has to agree.                                                 *)
(*                                                                         *)
(* An item is [ref, name, kind, exported, tags, extends, members, items,   *)
(* tail, prose]: ref is its canonical reference, extends the references in *)
(* its extends clause, items what a namespace declares, tail the sections  *)
(* after its body and prose what of its comment is cross-linked: a         *)
(* deprecation, a parameter, a return or a member's summary, not its own.  *)
(* A member is [ref, name, kind, static, accessor, excerpt].  A qualified  *)
(* name is a sequence of names, a page path is <<folder, lowercased        *)
(* qualified name>> and an anchor <<prefix, slug>>.                        *)
(***************************************************************************)
EXTENDS ProseLinks, Categories

CONSTANTS
  Sites,   \* <<adapter, API package>>: what may document what; a package is
           \* its entry points in order
  Lower,   \* name -> what toLowerCase makes of it
  Slug,    \* name -> what sanitizeId makes of it
  Pascal   \* the names that begin with a capital letter

VARIABLES
  adapter, \* the framework the site is built with
  cats,    \* the categories it files pages under
  api,     \* the package being documented
  phase,   \* "idle", "building", "failed" or "built"
  work,    \* work items, top-level ones first
  routes,  \* cross-link key -> [path, anchor]
  todo,    \* indices of work items whose page is not yet written
  pages    \* page path -> the page written there

vars == <<adapter, cats, api, phase, work, routes, todo, pages>>

MinOf(S)     == CHOOSE x \in S : \A y \in S : x <= y
Numbers(seq) == DOMAIN seq
Best(S, rank(_)) ==   \* the lowest rank, the first of those that share it
  LET top == MinOf({rank(x) : x \in S}) IN MinOf({x \in S : rank(x) = top})

--------------------------------------------------------------------------------
(* Which items there are. *)

\* Declarations in the order of the entry points that export them.
Exports(a) ==
  FlattenSeq([e \in Numbers(a) |->
    [m \in Numbers(a[e].members) |-> [item |-> a[e].members[m], from |-> a[e].name]]])

SameKey(x, y) == x.item.name = y.item.name /\ x.item.kind = y.item.kind

\* Mutation of Resolve: only the defining entry point is remembered.
ResolveDefining(a) ==
  LET all     == Exports(a)
      same(p) == {q \in Numbers(all) : SameKey(all[q], all[p])}
  IN FlattenSeq([p \in Numbers(all) |->
       IF p = MinOf(same(p)) THEN <<[item |-> all[p].item, from |-> {all[p].from}]>> ELSE <<>>])

\* EntryPoints.resolve: one entry per name and kind, owned by "default" if it
\* exports one and by the first entry point otherwise.
Resolve(a) ==
  LET all      == Exports(a)
      same(p)  == {q \in Numbers(all) : SameKey(all[q], all[p])}
      main(p)  == {q \in same(p) : all[q].from = "default"}
      owner(p) == MinOf(IF main(p) = {} THEN same(p) ELSE main(p))
  IN FlattenSeq([p \in Numbers(all) |->
       IF p = MinOf(same(p))
       THEN <<[item |-> all[owner(p)].item, from |-> {all[q].from : q \in same(p)}]>>
       ELSE <<>>])

\* SyntheticBases.detect: the first unexported declaration a class extends.
HiddenRefs(items) == {items[p].item.ref : p \in {q \in Numbers(items) : ~items[q].item.exported}}
BaseOf(items, class) ==
  LET hidden == {j \in Numbers(class.extends) :
                   class.extends[j] \in HiddenRefs(items) \ {class.ref}}
  IN IF class.kind # "Class" \/ hidden = {} THEN None ELSE class.extends[MinOf(hidden)]

Bases(items) == {BaseOf(items, items[p].item) : p \in Numbers(items)} \ {None}

\* A base class gets no page: its owner's page shows it.
DocItems(items) == SelectSeq(items, LAMBDA r : r.item.ref \notin Bases(items))

\* ApiItems.categorize: categories with a modifier are asked first, whichever
\* of their two rules then matches.
Matches(cat, item) == (cat.modifier # None /\ cat.modifier \in item.tags) \/ item.kind \in cat.kinds
CategoryOf(item) ==
  LET fits == {c \in Numbers(cats) : Matches(cats[c], item)}
  IN IF fits = {} THEN None
     ELSE Best(fits, LAMBDA c : IF cats[c].modifier = None THEN 1 ELSE 0)

\* categoryFor: a namespace member is filed by kind alone.
KindCategoryOf(item) ==
  LET fits == {c \in Numbers(cats) : item.kind \in cats[c].kinds}
  IN IF fits = {} THEN None ELSE MinOf(fits)

\* ApiItems.namespaceMembers: what top-level namespaces declare, one level deep.
NamespaceMembers(docs) ==
  FlattenSeq([p \in Numbers(docs) |->
    IF docs[p].item.kind # "Namespace" THEN <<>>
    ELSE [m \in Numbers(docs[p].item.items) |->
            [item |-> docs[p].item.items[m],
             name |-> <<docs[p].item.name, docs[p].item.items[m].name>>]]])

\* The flat list of pages to build: each category's items, then the members of
\* namespaces.
WorkItems(items) ==
  LET docs    == DocItems(items)
      spaced  == NamespaceMembers(docs)
      filed(c) == SelectSeq(docs, LAMBDA r : CategoryOf(r.item) = c)
      top     == FlattenSeq([c \in Numbers(cats) |->
                   [p \in Numbers(filed(c)) |->
                      [item |-> filed(c)[p].item, cat |-> c, name |-> <<filed(c)[p].item.name>>,
                       from |-> filed(c)[p].from, base |-> BaseOf(items, filed(c)[p].item)]]])
      nested  == FlattenSeq([p \in Numbers(spaced) |->
                   LET c == KindCategoryOf(spaced[p].item)
                   IN IF c = None THEN <<>>
                      ELSE <<[item |-> spaced[p].item, cat |-> c, name |-> spaced[p].name,
                              from |-> {}, base |-> None]>>])
  IN top \o nested

\* The last two segments of a page's route.
PathOf(w) == <<cats[w.cat].folder, [j \in Numbers(w.name) |-> Lower[w.name[j]]]>>

\* Mutation of Collisions: names are compared as they are written.
CollisionsByName(ws) ==
  {p \in Numbers(ws) \X Numbers(ws) :
     p[1] < p[2] /\ cats[ws[p[1]].cat].folder = cats[ws[p[2]].cat].folder
                 /\ ws[p[1]].name = ws[p[2]].name}

\* Routes.detectCollisions.
Collisions(ws) ==
  {p \in Numbers(ws) \X Numbers(ws) : p[1] < p[2] /\ PathOf(ws[p[1]]) = PathOf(ws[p[2]])}

--------------------------------------------------------------------------------
(* Anchors of the members of a class or an interface. *)

\* memberSlot, as the rank SLOT_PRIORITY gives it.  An accessor is a getter
\* whether static or not.
Rank(m) ==
  LET method == m.kind \in {"Method", "MethodSignature"}
  IN IF m.kind = "Method" /\ m.accessor THEN 4
     ELSE IF m.static THEN (IF method THEN 1 ELSE 2)
     ELSE IF method THEN 3 ELSE 5
StaticSlot(m)  == Rank(m) \in {1, 2}
SlotPrefix(m)  == IF StaticSlot(m) THEN "static" ELSE "instance"

\* Mutation of AnchorOf: the prefix goes by the name, so both halves of a pair
\* get it (the bug memberAnchors' comment remembers).
AnchorByName(ms, k) ==
  LET bucket == {j \in Numbers(ms) : Slug[ms[j].name] = Slug[ms[k].name]}
  IN <<IF Cardinality(bucket) = 1 THEN "" ELSE "static", Slug[ms[k].name]>>

\* Routes.memberAnchors: of the members that share a slug, the best slot keeps
\* it bare and every other one is prefixed by its side.
AnchorOf(ms, k) ==
  LET bucket == {j \in Numbers(ms) : Slug[ms[j].name] = Slug[ms[k].name]}
      winner == Best(bucket, LAMBDA j : Rank(ms[j]))
  IN <<IF k = winner THEN "" ELSE SlotPrefix(ms[k]), Slug[ms[k].name]>>

\* Routes.memberRouteKeys: the bare name means the static member when there is
\* one; selector keys exist only when both sides do.  Key -> member index.
MemberKeys(ms) ==
  LET called(n)  == {k \in Numbers(ms) : ms[k].name = n}
      statics(n) == {k \in called(n) : StaticSlot(ms[k])}
      others(n)  == called(n) \ statics(n)
      names      == {ms[k].name : k \in Numbers(ms)}
      both       == {n \in names : statics(n) # {} /\ others(n) # {}}
      target(n, as) ==
        MinOf(IF as \in {"instance", "prototype"} \/ statics(n) = {} THEN others(n) ELSE statics(n))
  IN {<<n, "bare", target(n, "bare")>> : n \in names}
       \cup {<<n, as, target(n, as)>> : n \in both, as \in {"static", "instance", "prototype"}}

--------------------------------------------------------------------------------
(* Cross-link routes. *)

HasMembers(item) == item.kind \in {"Class", "Interface"}
TopLevel(w)      == Len(w.name) = 1
Key(name)        == [name |-> name, as |-> "bare"]

\* CROSS_LINK_KIND_PRIORITY.
KindPriority(kind) ==
  CASE kind = "Class" -> 0 [] kind = "Function" -> 1 [] kind = "Variable" -> 2
    [] kind = "Enum" -> 3 [] kind = "Interface" -> 4 [] kind = "TypeAlias" -> 5
    [] kind = "Namespace" -> 6 [] OTHER -> 100

\* The routes of one kind of key, as sets of [key, path, anchor, rank]; of the
\* entries for a key the lowest rank stands.  Namespace members are written
\* after class members and later ones over earlier ones.
NameRoutes(ws) ==
  {[key |-> Key(ws[p].name), path |-> PathOf(ws[p]), anchor |-> None,
    rank |-> <<2, KindPriority(ws[p].item.kind), p>>] : p \in {q \in Numbers(ws) : TopLevel(ws[q])}}

\* Mutation of MemberRoutes: the route map derives its own anchors.
MemberRoutesBySlug(ws) ==
  UNION {{[key |-> [name |-> <<ws[p].item.name, k[1]>>, as |-> k[2]], path |-> PathOf(ws[p]),
           anchor |-> <<"", Slug[k[1]]>>, rank |-> <<2, 0, -p>>]
            : k \in MemberKeys(ws[p].item.members)}
          : p \in {q \in Numbers(ws) : TopLevel(ws[q]) /\ HasMembers(ws[q].item)}}

MemberRoutes(ws) ==
  UNION {{[key |-> [name |-> <<ws[p].item.name, k[1]>>, as |-> k[2]], path |-> PathOf(ws[p]),
           anchor |-> AnchorOf(ws[p].item.members, k[3]), rank |-> <<2, 0, -p>>]
            : k \in MemberKeys(ws[p].item.members)}
          : p \in {q \in Numbers(ws) : TopLevel(ws[q]) /\ HasMembers(ws[q].item)}}

QualifiedRoutes(ws) ==
  {[key |-> Key(ws[p].name), path |-> PathOf(ws[p]), anchor |-> None, rank |-> <<1, 0, -p>>]
     : p \in {q \in Numbers(ws) : ~TopLevel(ws[q])}}

\* A PascalCase member that is the only one of its name (spaced: the members of
\* all namespaces, filed or not) also answers to its bare name.
BareMemberRoutes(ws, spaced) ==
  {[key |-> Key(<<ws[p].item.name>>), path |-> PathOf(ws[p]), anchor |-> None, rank |-> <<3, 0, p>>]
     : p \in {q \in Numbers(ws) :
                /\ ~TopLevel(ws[q]) /\ ws[q].item.name \in Pascal
                /\ Cardinality({s \in Numbers(spaced) : spaced[s].item.name = ws[q].item.name}) = 1}}

Before(x, y) == \/ x[1] < y[1]
                \/ x[1] = y[1] /\ x[2] < y[2]
                \/ x[1] = y[1] /\ x[2] = y[2] /\ x[3] < y[3]

Standing(entries) ==
  [key \in {e.key : e \in entries} |->
     LET e == CHOOSE e \in entries : e.key = key /\ \A o \in entries : o.key = key /\ o # e => Before(e.rank, o.rank)
     IN [path |-> e.path, anchor |-> e.anchor]]

BaseAnchor == <<"", "base-class">>

\* The crossLinkData.routes of prepareWorkItems.  A base class's name leads to
\* wherever the name of its first owner leads.
RouteMap(items) ==
  LET ws     == WorkItems(items)
      named  == Standing(NameRoutes(ws) \cup MemberRoutes(ws) \cup QualifiedRoutes(ws)
                          \cup BareMemberRoutes(ws, NamespaceMembers(DocItems(items))))
      owners(b) == {p \in Numbers(items) : BaseOf(items, items[p].item) = b}
      owner(b)  == items[MinOf(owners(b))].item.name
      base(p)   == items[p].item.name
      inlined == {p \in Numbers(items) :
                    /\ items[p].item.ref \in Bases(items)
                    /\ Key(<<base(p)>>) \notin DOMAIN named
                    /\ Key(<<owner(items[p].item.ref)>>) \in DOMAIN named}
  IN [key \in DOMAIN named \cup {Key(<<base(p)>>) : p \in inlined} |->
        IF key \in DOMAIN named THEN named[key]
        ELSE LET p == CHOOSE p \in inlined : Key(<<base(p)>>) = key
             IN [path   |-> named[Key(<<owner(items[p].item.ref)>>)].path,
                 anchor |-> BaseAnchor]]

--------------------------------------------------------------------------------
(* Pages. *)

PageKinds == {"Class", "Interface", "Function", "TypeAlias", "Enum", "Variable", "Namespace"}

\* classMembers and interfaceBody: which members a page lists under which
\* heading, and the anchor they share when their role fixes it.
OfKind(ms, kinds) == {k \in Numbers(ms) : ms[k].kind \in kinds}
ClassGroups(ms) ==
  LET props   == OfKind(ms, {"Property", "PropertySignature"})
      methods == OfKind(ms, {"Method", "MethodSignature"})
      getters == {k \in methods : ms[k].kind = "Method" /\ ms[k].accessor}
      static(S) == {k \in S : ms[k].static}
  IN << <<"constructors", OfKind(ms, {"Constructor"}), <<"", "constructor">> >>,
        <<"static-properties", static(props), None>>,
        <<"static-methods", static(methods \ getters), None>>,
        <<"properties", {k \in props \ static(props) : ~ms[k].accessor}, None>>,
        <<"getters--setters", getters, None>>,
        <<"methods", (methods \ getters) \ static(methods), None>> >>
InterfaceGroups(ms) ==
  << <<"call-signatures", OfKind(ms, {"CallSignature"}), <<"", "call-signature">> >>,
     <<"construct-signatures", OfKind(ms, {"ConstructSignature"}), <<"", "construct-signature">> >>,
     <<"index-signature", OfKind(ms, {"IndexSignature"}), <<"", "index-signature">> >>,
     <<"properties", OfKind(ms, {"PropertySignature"}), None>>,
     <<"methods", OfKind(ms, {"MethodSignature"}), None>> >>

\* A page is a sequence of blocks; `shows` holds what a reader can point at.
Block(kind, title, shows) == <<[kind |-> kind, title |-> title, shows |-> shows]>>

\* memberGroup and buildMember: a heading whenever a member is listed, a member
\* only when it has an excerpt.
Group(ms, g) ==
  IF g[2] = {} THEN <<>>
  ELSE Block("member-group", g[1],
             {<<IF g[3] = None THEN AnchorOf(ms, k) ELSE g[3], ms[k].ref>>
                : k \in {j \in g[2] : ms[j].excerpt}})

\* classBody and interfaceBody.
ContainerBody(w) ==
  LET ms     == w.item.members
      groups == IF w.item.kind = "Class" THEN ClassGroups(ms) ELSE InterfaceGroups(ms)
  IN Block("signature", "", {})
       \o (IF w.base = None THEN <<>> ELSE Block("base-class", "base-class", {w.base}))
       \o FlattenSeq([g \in Numbers(groups) |-> Group(ms, groups[g])])

\* NAMESPACE_SECTIONS: a namespace's page names its members by fixed folders.
SectionFolder(kind) ==
  CASE kind = "Class" -> "class" [] kind = "Interface" -> "interface"
    [] kind = "Function" -> "function" [] kind = "Variable" -> "variable"
    [] kind = "TypeAlias" -> "type" [] kind = "Enum" -> "enum"
    [] kind = "Namespace" -> "namespace"
Sections == <<"Class", "Interface", "Function", "Variable", "TypeAlias", "Enum", "Namespace">>

\* namespaceBody: an index of links for every kind the namespace declares.
NamespaceBody(w) ==
  LET ofKind(kind) == {m \in ToSet(w.item.items) : m.kind = kind}
      link(m)      == <<SectionFolder(m.kind), <<Lower[w.item.name], Lower[m.name]>>>>
  IN Block("signature", "", {})
       \o FlattenSeq([s \in Numbers(Sections) |->
            IF ofKind(Sections[s]) = {} THEN <<>>
            ELSE Block("member-index", Sections[s], {link(m) : m \in ofKind(Sections[s])})])

Body(w) ==
  IF HasMembers(w.item) THEN ContainerBody(w)
  ELSE IF w.item.kind = "Namespace" THEN NamespaceBody(w)
  ELSE Block("signature", "", {})

\* headBlocks before the body, tailBlocks ("examples", "see-also") after it.
Blocks(w) ==
  Block("title", "", {}) \o Block("prose", "", {})
    \o (IF Cardinality(w.from) > 1 THEN Block("available-from", "", w.from) ELSE <<>>)
    \o Body(w)
    \o FlattenSeq([t \in Numbers(w.item.tail) |-> Block(w.item.tail[t], w.item.tail[t], {})])

\* The elements a block becomes, as <<id, what it shows>>.  A framework gives a
\* second-level heading the slug of its text.
Heading(title) == {<<<<"", title>>, title>>}

\* emitBlock of the RSPress emitter ...
EmitMdx(b) ==
  CASE b.kind = "member-group" -> Heading(b.title) \cup b.shows
    [] b.kind = "base-class"   -> {<<BaseAnchor, base>> : base \in b.shows}
    [] b.kind \in {"member-index", "examples", "see-also"} -> Heading(b.title)
    [] OTHER -> {}

\* ... and markdownBlockTree of the VitePress one, which also titles signatures.
EmitMarkdown(b) ==
  IF b.kind = "signature" THEN Heading("signature") ELSE EmitMdx(b)

Elements(blocks) ==
  UNION {IF adapter = "rspress" THEN EmitMdx(blocks[j]) ELSE EmitMarkdown(blocks[j]) : j \in Numbers(blocks)}

Shown(blocks, kind) == UNION {b.shows : b \in {c \in ToSet(blocks) : c.kind = kind}}

\* The names and targets the prose linker is built from.
Dotted(name) == IF Len(name) = 1 THEN name ELSE <<name[1], ".", name[2]>>
WordsOf(key) ==
  CASE key.as = "bare" -> Dotted(key.name)
    [] key.as = "prototype" -> <<key.name[1], ".", "prototype", ".", key.name[2]>>
    [] OTHER -> <<key.name[1], ".", "(", key.name[2], ":", key.as, ")">>
HrefOf(r) ==
  <<"/", r.path[1], "/">> \o Dotted(r.path[2])
    \o (IF r.anchor = None THEN <<>>
        ELSE IF r.anchor[1] = "" THEN <<"#", r.anchor[2]>> ELSE <<"#", r.anchor[1], "-", r.anchor[2]>>)
LinkNames == {[words |-> WordsOf(key), href |-> HrefOf(routes[key])] : key \in DOMAIN routes}

\* buildPage, emitted by each adapter; None for a kind that has no page.
Page(w) ==
  IF w.item.kind \notin PageKinds THEN None
  ELSE [ref |-> w.item.ref, cat |-> w.cat, label |-> w.name,
        source |-> w.item.prose, prose |-> Link(w.item.prose, LinkNames),
        from |-> Shown(Blocks(w), "available-from"),
        links |-> Shown(Blocks(w), "member-index"),
        elements |-> Elements(Blocks(w))]

\* buildNav: the categories that received a page, with their pages.
Filed(ps, c) == {q \in DOMAIN ps : ps[q].cat = c}
Nav(ps) ==
  LET used == SelectSeq([c \in Numbers(cats) |-> c], LAMBDA c : Filed(ps, c) # {})
  IN [g \in Numbers(used) |-> [cat |-> used[g], pages |-> Filed(ps, used[g])]]

\* sidebarItems of VitePress: the index, then a group of links per category.
SidebarItems(ps) ==
  << [links |-> {<<"index", <<>>>>}, collapsed |-> None] >>
    \o [g \in Numbers(Nav(ps)) |-> [links |-> Nav(ps)[g].pages, collapsed |-> cats[Nav(ps)[g].cat].collapsed]]

\* Of RSPress, the root _meta.json names folders and each folder's _meta.json
\* the files in it; a folder two categories share has the later one's.
RootMeta(ps) == [g \in Numbers(Nav(ps)) |-> cats[Nav(ps)[g].cat].folder]
CategoryMeta(ps, folder) ==
  LET last == CHOOSE g \in Numbers(Nav(ps)) :
                /\ RootMeta(ps)[g] = folder
                /\ \A h \in Numbers(Nav(ps)) : RootMeta(ps)[h] = folder => h <= g
  IN {q[2] : q \in Nav(ps)[last].pages}

\* How often the sidebar lists a page.
Listings(ps, path) ==
  IF adapter = "vitepress"
  THEN Cardinality({g \in Numbers(SidebarItems(ps)) : path \in SidebarItems(ps)[g].links})
  ELSE Cardinality({g \in Numbers(RootMeta(ps)) :
                      RootMeta(ps)[g] = path[1] /\ path[2] \in CategoryMeta(ps, path[1])})

--------------------------------------------------------------------------------
Blank ==
  /\ work = <<>> /\ routes = <<>> /\ todo = {} /\ pages = <<>>

Init ==
  /\ \E site \in Sites : adapter = site[1] /\ cats = CategoriesOf(site[1]) /\ api = site[2]
  /\ phase = "idle" /\ Blank

\* prepareWorkItems, and the adapter's refusal to build over a collision.
Prepare ==
  /\ phase = "idle"
  /\ LET items == Resolve(api) IN
     /\ work'   = WorkItems(items)
     /\ routes' = RouteMap(items)
     /\ IF Collisions(WorkItems(items)) = {}
        THEN phase' = "building" /\ todo' = Numbers(work')
        ELSE phase' = "failed" /\ todo' = {}
  /\ UNCHANGED <<adapter, cats, api, pages>>

\* One page is built and written; pages are built in any order.
BuildPage(p) ==
  /\ phase = "building" /\ p \in todo
  /\ todo' = todo \ {p}
  /\ pages' = IF Page(work[p]) = None THEN pages
              ELSE [q \in DOMAIN pages \cup {PathOf(work[p])} |->
                      IF q = PathOf(work[p]) THEN Page(work[p]) ELSE pages[q]]
  /\ UNCHANGED <<adapter, cats, api, phase, work, routes>>

Finish ==
  /\ phase = "building" /\ todo = {}
  /\ phase' = "built"
  /\ UNCHANGED <<adapter, cats, api, work, routes, todo, pages>>

Next ==
  \/ Prepare
  \/ \E p \in Numbers(work) : BuildPage(p)
  \/ Finish

Spec == Init /\ [][Next]_vars

--------------------------------------------------------------------------------
(* Properties. *)

Built == phase = "built"

\* No page is written over another one: every work item of a kind that has
\* pages is found at its own path, and the sidebar names it exactly once
\* (detectCollisions refuses anything else).
EveryItemHasItsPage ==
  Built => \A p \in Numbers(work) : work[p].item.kind \in PageKinds =>
             LET path == PathOf(work[p]) IN
             /\ path \in DOMAIN pages /\ pages[path].ref = work[p].item.ref
             /\ Listings(pages, path) = 1

\* The element a link lands on shows what its key names.
Shows(e, key) ==
  \E p \in Numbers(work) :
    \/ e[1] = BaseAnchor /\ work[p].base = e[2]
    \/ /\ work[p].item.name = key.name[1]
       /\ \E k \in Numbers(work[p].item.members) :
            work[p].item.members[k].ref = e[2] /\ work[p].item.members[k].name = key.name[2]
Lands(key) ==
  LET r == routes[key] IN
  /\ r.path \in DOMAIN pages
  /\ r.anchor # None =>
       \E e \in pages[r.path].elements : e[1] = r.anchor /\ Shows(e, key)

\* Members no prose can name: "(call)", "(new)" and "(index)".
UnnamedKinds == {"CallSignature", "ConstructSignature", "IndexSignature"}
UnnamedKeys ==
  UNION {{Key(<<work[p].item.name, m.name>>)
            : m \in {m \in ToSet(work[p].item.members) : m.kind \in UnnamedKinds}}
         : p \in Numbers(work)}

\* The route map and the pages agree: a link lands on a page that exists and on
\* an element there that shows what the link names (prepareWorkItems against
\* classBody and interfaceBody), for every member that can be named.
NamedLinksLand == Built => \A key \in DOMAIN routes \ UnnamedKeys : Lands(key)

\* No two elements of a page share an id (memberAnchors: a collision is exactly
\* one static and one instance member).
AnchorsUnique ==
  \A path \in DOMAIN pages :
    \A e, f \in pages[path].elements : e[1] = f[1] => e = f

\* Of a static and an instance member of one name, the bare name and `:static`
\* lead to the static one alone, `:instance` and `prototype` to the other.
SelectorsSelect ==
  Built => \A p \in Numbers(work) : \A j, k \in Numbers(work[p].item.members) :
    LET ms == work[p].item.members
        sides(as) ==
          LET r == routes[[name |-> <<work[p].item.name, ms[j].name>>, as |-> as]]
          IN {StaticSlot(ms[i]) : i \in {i \in Numbers(ms) : <<r.anchor, ms[i].ref>> \in pages[r.path].elements}}
    IN HasMembers(work[p].item) /\ TopLevel(work[p])
         /\ ms[j].name = ms[k].name /\ StaticSlot(ms[j]) /\ ~StaticSlot(ms[k])
         => /\ sides("bare") = {TRUE} /\ sides("static") = {TRUE}
            /\ sides("instance") = {FALSE} /\ sides("prototype") = {FALSE}

\* Of a constant and a type of one name, the bare name leads to the constant,
\* whatever order the categories are configured in, and never to a namespace
\* member while something at the top level has the name.
Values == {"Class", "Function", "Variable", "Enum"}
BareNamesLeadToValues ==
  Built => \A p \in Numbers(work) : TopLevel(work[p]) =>
    \E q \in Numbers(work) :
      /\ TopLevel(work[q]) /\ work[q].name = work[p].name
      /\ routes[Key(work[p].name)] = [path |-> PathOf(work[q]), anchor |-> None]
      /\ work[p].item.kind \in Values => work[q].item.kind \in Values

\* Every link on the page of a top-level namespace lands, tagged members
\* included: the folders namespaceBody writes down are those its members are
\* filed in (namespaceBody against categoryFor).
NamespaceIndexLands ==
  Built => \A path \in DOMAIN pages :
    Len(pages[path].label) = 1 => pages[path].links \subseteq DOMAIN pages

\* No link the site writes by itself leads nowhere.
LinksLand == NamedLinksLand /\ NamespaceIndexLands

\* Where several things share a name, each way to write it leads to the one the
\* reader means.
NamesLeadWhereTheySay == SelectorsSelect /\ BareNamesLeadToValues

\* Every exported declaration is found under its own name and kind, and its
\* page tells every entry point that exports it; a base class nobody exports
\* has no page of its own.
EveryExportDocumented ==
  Built => \A e \in Numbers(api) : \A m \in Numbers(api[e].members) :
    LET item == api[e].members[m] IN
    IF item.ref \in Bases(Resolve(api))
    THEN \A path \in DOMAIN pages : pages[path].ref # item.ref
    ELSE CategoryOf(item) # None /\ item.kind \in PageKinds =>
           \E p \in Numbers(work) :
             /\ work[p].name = <<item.name>> /\ work[p].item.kind = item.kind
             /\ Len(api) > 1 /\ (\E f \in Numbers(api) : f # e /\
                                  \E o \in ToSet(api[f].members) : o.name = item.name /\ o.kind = item.kind)
                  => api[e].name \in pages[PathOf(work[p])].from

\* Linking leaves code spans alone and never links the beginning of a longer
\* name (CrossLinker.link).
ProseLinkedWhole ==
  Built => \A path \in {q \in DOMAIN pages : pages[q].source # <<>>} :
    LET t == pages[path].prose IN
    /\ CodeOf(t) = CodeOf(pages[path].source)
    /\ \A short, long \in LinkNames :
         Len(short.words) < Len(long.words) /\ At(long.words, 1, short.words)
           => LET cut == Linked(short.words, short.href)
                           \o SubSeq(long.words, Len(short.words) + 1, Len(long.words))
              IN \A p \in Numbers(t) : ~At(t, p, cut)

\* A name inside a link is not linked again (CrossLinker.link: "skipping code
\* spans + existing links").
LinksNotNested == \A path \in DOMAIN pages : ~Nested(pages[path].prose)
================================================================================
