--------------------------- MODULE TypeEnvironments ---------------------------
(***************************************************************************)
(* Type-checking the code blocks of a site.  config() registers one        *)
(* Twoslash environment per distinct compiler configuration and routes     *)
(* each documented package to one of them by its scope; the render pass    *)
(* then checks blocks through a result cache that is loaded when the       *)
(* environments are built and saved once, after the first build.  The      *)
(* environments live as long as the process, which in development outlives *)
(* many builds.                                                            *)
(***************************************************************************)
EXTENDS Naturals, Sequences, SequencesExt

CONSTANTS
  Apis,       \* the documented packages, in the order of the options
  BaseRoute,  \* package -> the segments of its baseRoute
  Folder,     \* the apiFolder segment under which the pages are mounted
  RawConfig,  \* package -> the tsconfig it declares, or None
  Raws,       \* tsconfig files
  Spellings,  \* ways to write compiler options
  Encode,     \* spelling -> the programmatic options it stands for
  Default,    \* the spelling of DEFAULT_COMPILER_OPTIONS
  Malformed,  \* a tsconfig that does not parse
  Authored,   \* scopes of authored pages; below no package, or in another
              \* language than English, a page has one that is no package's
  Blocks,     \* code blocks
  Decls,      \* contents of the combined VFS
  Words,      \* names a {@link} in a doc comment may give
  Documents,  \* VFS -> package -> the names it has pages for
  Compilers,  \* TypeScript versions
  MaxBuilds,  \* bound: builds over all processes
  None,
  Faults      \* the faults this instance may inject

AllFaults == {"cache",    \* the result cache cannot be read or written
              "build",    \* page generation fails
              "crash"}    \* the process dies

Names   == {Apis[i] : i \in DOMAIN Apis}
Options == {Encode[s] : s \in Spellings}
Builds  == 1..MaxBuilds
Environment == [decls : Decls, gen : Builds]
Route == [key : Options \cup {None}, linker : Names]

ASSUME ConstantsAssumption ==
  /\ Apis \in Seq(STRING)
  /\ BaseRoute \in [Names -> Seq(STRING)]
  /\ RawConfig \in [Names -> Raws \cup {None}]
  /\ Documents \in [Decls -> [Names -> SUBSET Words]]
  /\ Default \in Spellings /\ Malformed \notin Spellings
  /\ None \notin Names \cup Options \cup Raws \cup Environment \cup Route
  /\ MaxBuilds \in Nat
  /\ Faults \subseteq AllFaults

\* A scope is the first segment of a route, or the package name at the root.
ScopeOf(route, name) == IF route = <<>> THEN name ELSE Head(route)

\* Config resolution derives the scope from the base route, the build program
\* from the route the pages are mounted at.
RegisteredScope(a) == ScopeOf(BaseRoute[a], a)
MountedScope(a)    == ScopeOf(Append(BaseRoute[a], Folder), a)
Scopes == {RegisteredScope(a) : a \in Names} \cup {MountedScope(a) : a \in Names}

\* The build-wide configuration is the first one any package declares.
BuildWide ==
  LET First(i) == /\ RawConfig[Apis[i]] # None
                  /\ \A j \in 1..(i - 1) : RawConfig[Apis[j]] = None
  IN  IF \E i \in DOMAIN Apis : First(i)
      THEN RawConfig[Apis[CHOOSE i \in DOMAIN Apis : First(i)]]
      ELSE None

\* Who shows blocks: the examples on a package's generated pages, and the
\* with-api fences on authored pages, by the scope inferred from the page's file.
Example(a) == <<"example", a>>
Fence(s)   == <<"fence", s>>
Readers == {Example(a) : a \in Names} \cup {Fence(s) : s \in Authored}

Result == [block : Blocks, options : Options, decls : Decls, ts : Compilers]
Check(b, o, d, t) == [block |-> b, options |-> o, decls |-> d, ts |-> t]

\* A generation holds the results of one VFS under one compiler.
EnvHashWithoutCompiler(d, t) == <<d>>
EnvHash(d, t)  == <<d, t>>
EntryKey(b, o) == <<b, o>>
Hashes == {EnvHash(d, t) : d \in Decls, t \in Compilers}
Keys   == {EntryKey(b, o) : b \in Blocks, o \in Options}
Entry  == [key : Keys, result : Result]
Closed == [hash |-> None, entries |-> {}, dirty |-> FALSE]

VARIABLES
  decls,     \* the declarations the models and registries provide now
  tsconfig,  \* tsconfig file -> what it says now
  store,     \* the persisted cache: one blob of entries per environment hash
  stage,     \* where the plugin's life cycle stands
  ts,        \* the compiler of this process
  prod,      \* production build or dev server
  first,     \* isFirstBuild
  build,     \* builds begun so far
  opened,    \* the build whose generation the cache service holds, 0 for none
  gens,      \* build -> the in-memory generation it opened
  envs,      \* options -> the environment registered for them, or None
  wide,      \* defaultConfigKey
  scopeKey,  \* scope -> the options its package is documented under, or None
  routed,    \* mounted scope -> its VfsRegistry entry, or None
  typeRoutes, \* name -> the package a {@link} to it in a hover leads to, or None
  todo,      \* packages whose scope is not registered yet
  shown      \* what the blocks of this build show: reader -> block -> hover

vars == <<decls, tsconfig, store, stage, ts, prod, first, build, opened, gens,
          envs, wide, scopeKey, routed, typeRoutes, todo, shown>>
sources == <<decls, tsconfig>>
process == <<ts, prod, first>>
memory  == <<opened, gens, envs, wide, scopeKey>>
links   == <<routed, typeRoutes>>

Stages == {"off", "idle", "resolve", "open", "scopes", "generate", "render"}
Blank  == [r \in Readers |-> [b \in Blocks |-> None]]
NoScopes == [s \in Scopes |-> None]
NoRoutes == [w \in Words |-> None]

\* The options a tsconfig stands for; undefined while it is malformed.
OptionsOf(raw) == IF raw = None THEN Encode[Default] ELSE Encode[tsconfig[raw]]
Parses(raw)    == raw = None \/ tsconfig[raw] # Malformed

Init ==
  /\ decls \in Decls
  /\ tsconfig \in [Raws -> Spellings]
  /\ store = [h \in Hashes |-> {}]
  /\ stage = "off"
  /\ ts \in Compilers /\ prod \in BOOLEAN /\ first = TRUE
  /\ build = 0 /\ opened = 0
  /\ gens = [n \in Builds |-> Closed]
  /\ envs = [o \in Options |-> None]
  /\ wide = None
  /\ scopeKey = NoScopes /\ routed = NoScopes /\ typeRoutes = NoRoutes
  /\ todo = <<>>
  /\ shown = Blank

--------------------------------------------------------------------------------
(* Between builds. *)

EditModel(d) ==
  /\ stage \in {"off", "idle"}
  /\ decls' = d
  /\ UNCHANGED <<tsconfig, store, stage, process, build, memory, links, todo, shown>>

EditTsconfig(raw, s) ==
  /\ stage \in {"off", "idle"}
  /\ tsconfig' = [tsconfig EXCEPT ![raw] = s]
  /\ UNCHANGED <<decls, store, stage, process, build, memory, links, todo, shown>>

\* The plugin factory runs: a new runtime with empty services.
StartProcess(t, p) ==
  /\ stage = "off" /\ stage' = "idle"
  /\ ts' = t /\ prod' = p /\ first' = TRUE
  /\ opened' = 0
  /\ gens' = [n \in Builds |-> Closed]
  /\ envs' = [o \in Options |-> None]
  /\ wide' = None
  /\ scopeKey' = NoScopes /\ routed' = NoScopes /\ typeRoutes' = NoRoutes
  /\ shown' = Blank
  /\ UNCHANGED <<sources, store, build, todo>>

\* The process ends, by itself or not; only the cache on disk stays.
Exit ==
  /\ stage' = "off"
  /\ UNCHANGED <<sources, process, build, memory, links, shown>>

--------------------------------------------------------------------------------
(* config(): resolve, open the cache, register the environments, generate. *)

\* Mutation of BeginConfig: names of earlier builds keep their routes (the bug
\* the comment on clearTypeRoutes remembers).
BeginConfigKeepingRoutes ==
  /\ stage = "idle" /\ build < MaxBuilds
  /\ stage' = "resolve"
  /\ build' = build + 1
  /\ routed' = NoScopes
  /\ shown' = Blank
  /\ UNCHANGED <<sources, store, process, memory, typeRoutes, todo>>

\* What module state config() resets; the services of the runtime stay.
BeginConfig ==
  /\ stage = "idle" /\ build < MaxBuilds
  /\ stage' = "resolve"
  /\ build' = build + 1
  /\ routed' = NoScopes /\ typeRoutes' = NoRoutes
  /\ shown' = Blank
  /\ UNCHANGED <<sources, store, process, memory, todo>>

ResolveOptions ==
  /\ stage = "resolve"
  /\ \/ Parses(BuildWide) /\ stage' = "open"
        /\ UNCHANGED <<sources, process, build, memory, links, shown>>
     \/ ~Parses(BuildWide) /\ Exit
  /\ UNCHANGED <<store, todo>>

\* registerEnvironment: an environment that exists is kept as it is.
Registered(o) ==
  IF envs[o] # None THEN envs
  ELSE [envs EXCEPT ![o] = [decls |-> decls, gen |-> build]]

\* registerTypeEnvironments, first half: open the generation of this VFS and
\* register the build-wide environment, the fallback of every unknown scope.
OpenCache ==
  /\ stage = "open"
  /\ \E loaded \in {store[EnvHash(decls, ts)]} \cup (IF "cache" \in Faults THEN {{}} ELSE {}) :
       gens' = [gens EXCEPT ![build] =
                  [hash |-> EnvHash(decls, ts), entries |-> loaded, dirty |-> FALSE]]
  /\ opened' = build
  /\ LET o == OptionsOf(BuildWide)
     IN  /\ envs' = Registered(o)
         /\ wide' = IF wide = None THEN o ELSE wide
  /\ todo' = Apis
  /\ stage' = "scopes"
  /\ UNCHANGED <<sources, store, process, build, scopeKey, links, shown>>

\* Mutation of RegisterScope: the key is the spelling, not what it encodes.
RegisterScopeAsWritten ==
  /\ stage = "scopes" /\ todo # <<>>
  /\ LET a   == Head(todo)
         raw == IF RawConfig[a] = None THEN BuildWide ELSE RawConfig[a]
     IN  /\ Parses(raw)
         /\ envs' = Registered(OptionsOf(raw))
         /\ scopeKey' = [scopeKey EXCEPT ![RegisteredScope(a)] =
                           IF raw = None THEN Encode[Default] ELSE tsconfig[raw]]
  /\ todo' = Tail(todo)
  /\ UNCHANGED <<sources, store, stage, process, build, opened, gens, wide, links, shown>>

\* Second half: one environment and one scope per documented package.
RegisterScope ==
  /\ stage = "scopes" /\ todo # <<>>
  /\ LET a   == Head(todo)
         raw == IF RawConfig[a] = None THEN BuildWide ELSE RawConfig[a]
     IN  \/ /\ Parses(raw)
            /\ envs' = Registered(OptionsOf(raw))
            /\ scopeKey' = [scopeKey EXCEPT ![RegisteredScope(a)] = OptionsOf(raw)]
            /\ todo' = Tail(todo)
            /\ UNCHANGED <<sources, stage, process, build, opened, gens, wide, links, shown>>
         \/ ~Parses(raw) /\ Exit /\ UNCHANGED todo
  /\ UNCHANGED store

EndRegistration ==
  /\ stage = "scopes" /\ todo = <<>>
  /\ stage' = "generate"
  /\ todo' = Apis
  /\ UNCHANGED <<sources, store, process, build, memory, links, shown>>

\* transformerFor: the environment of a scope, of the fallback when unknown.
KeyFor(scope) ==
  IF scope \in Scopes /\ scopeKey[scope] # None THEN scopeKey[scope] ELSE wide

\* generateApiDocs registers the scope's transformer and cross-linker for the
\* render pass, and adds the names of its pages to the routes all packages
\* share; two packages are generated at a time, in either order.
Generate(i) ==
  /\ stage = "generate" /\ i \in DOMAIN todo /\ i <= 2
  /\ LET a == todo[i]
     IN  /\ routed' = [routed EXCEPT ![MountedScope(a)] =
                         [key |-> KeyFor(MountedScope(a)), linker |-> a]]
         /\ typeRoutes' = [w \in Words |-> IF w \in Documents[decls][a] THEN a ELSE typeRoutes[w]]
  /\ todo' = RemoveAt(todo, i)
  /\ UNCHANGED <<sources, store, stage, process, build, memory, shown>>

EndConfig ==
  /\ stage = "generate"
  /\ \/ /\ todo = <<>> /\ stage' = "render"
        /\ UNCHANGED <<sources, process, build, memory, links, shown>>
     \/ "build" \in Faults /\ Exit
  /\ UNCHANGED <<store, todo>>

--------------------------------------------------------------------------------
(* The render pass and afterBuild(). *)

\* A block goes through the environment of these options: a cached result is
\* taken as it is, anything else is checked and written back. Type names are
\* linked by the linker, and a {@link} in a doc by the routes of all packages.
Hover(r, linker) == [result |-> r, linker |-> linker, docs |-> typeRoutes]
Show(reader, b, o, linker) ==
  LET env == envs[o]
      gen == env.gen
  IN  \/ \E e \in gens[gen].entries :
           /\ e.key = EntryKey(b, o)
           /\ shown' = [shown EXCEPT ![reader][b] = Hover(e.result, linker)]
           /\ UNCHANGED gens
      \/ /\ \A e \in gens[gen].entries : e.key # EntryKey(b, o)
         /\ LET r == Check(b, o, env.decls, ts)
            IN  /\ shown' = [shown EXCEPT ![reader][b] = Hover(r, linker)]
                /\ gens' = [gens EXCEPT ![gen].entries = @ \cup {[key |-> EntryKey(b, o), result |-> r]},
                                        ![gen].dirty = TRUE]

\* A key without an environment renders the block without types.
ShowPlain(reader, b, linker) ==
  /\ shown' = [shown EXCEPT ![reader][b] = Hover(None, linker)]
  /\ UNCHANGED gens

Render(reader, b, key, linker) ==
  /\ stage = "render" /\ shown[reader][b] = None
  /\ IF key \in Options /\ envs[key] # None
     THEN Show(reader, b, key, linker)
     ELSE ShowPlain(reader, b, linker)
  /\ UNCHANGED <<sources, store, stage, process, build, opened, envs, wide, scopeKey, links, todo>>

\* An example on a generated page: all it needs is in its VfsRegistry entry.
RenderExample(a, b) ==
  LET entry == routed[MountedScope(a)]
  IN  Render(Example(a), b, entry.key, entry.linker)

\* A with-api fence: checked under the options of its scope, and linked only when
\* a package is mounted there.
LinkerFor(s) == IF s \in Scopes /\ routed[s] # None THEN routed[s].linker ELSE None
RenderFence(s, b) == Render(Fence(s), b, KeyFor(s), LinkerFor(s))

Persisted(entries) == [store EXCEPT ![gens[opened].hash] = entries]

\* Mutation of AfterBuild: the blob is replaced by what this build checked.
AfterBuildFreshOnly ==
  /\ stage = "render"
  /\ IF first /\ gens[opened].dirty
     THEN store' = Persisted(gens[opened].entries \ store[gens[opened].hash])
     ELSE UNCHANGED store
  /\ first' = FALSE
  /\ stage' = IF prod THEN "off" ELSE "idle"
  /\ UNCHANGED <<sources, ts, prod, build, memory, links, todo, shown>>

\* persist: on the first build, when dirty; a failing write is absorbed.
AfterBuild ==
  /\ stage = "render"
  /\ \/ /\ IF first /\ gens[opened].dirty
           THEN store' = Persisted(gens[opened].entries)
           ELSE UNCHANGED store
     \/ "cache" \in Faults /\ UNCHANGED store
  /\ first' = FALSE
  /\ stage' = IF prod THEN "off" ELSE "idle"
  /\ UNCHANGED <<sources, ts, prod, build, memory, links, todo, shown>>

Crash ==
  /\ stage # "off"
  /\ "crash" \in Faults
  /\ Exit
  /\ UNCHANGED <<store, todo>>

--------------------------------------------------------------------------------
Next ==
  \/ \E d \in Decls : EditModel(d)
  \/ \E raw \in Raws, s \in Spellings \cup {Malformed} : EditTsconfig(raw, s)
  \/ \E t \in Compilers, p \in BOOLEAN : StartProcess(t, p)
  \/ BeginConfig \/ ResolveOptions \/ OpenCache
  \/ RegisterScope \/ EndRegistration
  \/ \E i \in {1, 2} : Generate(i)
  \/ EndConfig
  \/ \E a \in Names, b \in Blocks : RenderExample(a, b)
  \/ \E s \in Authored, b \in Blocks : RenderFence(s, b)
  \/ AfterBuild \/ Crash

Spec == Init /\ [][Next]_vars

--------------------------------------------------------------------------------
(* Properties. *)

\* Every variable keeps its shape.
TypeOK ==
  /\ decls \in Decls
  /\ tsconfig \in [Raws -> Spellings \cup {Malformed}]
  /\ store \in [Hashes -> SUBSET Entry]
  /\ stage \in Stages
  /\ ts \in Compilers /\ prod \in BOOLEAN /\ first \in BOOLEAN
  /\ build \in 0..MaxBuilds /\ opened \in 0..MaxBuilds
  /\ gens \in [Builds -> [hash : Hashes \cup {None}, entries : SUBSET Entry, dirty : BOOLEAN]]
  /\ envs \in [Options -> {None} \cup Environment]
  /\ wide \in Options \cup {None}
  /\ scopeKey \in [Scopes -> Options \cup {None}]
  /\ routed \in [Scopes -> {None} \cup Route]
  /\ typeRoutes \in [Words -> {None} \cup Names]
  /\ todo \in Seq(Names)

\* The persisted cache never lies: whatever edits, compiler upgrades, rebuilds,
\* crashes and cache failures came before, an entry found under the hash of a
\* VFS and a compiler is what checking its block there would give
\* (twoslashEnvHash, twoslashEntryKey).
TrueOf(entries, d, t) ==
  \A e \in entries : /\ e.result = Check(e.result.block, e.result.options, d, t)
                     /\ e.key = EntryKey(e.result.block, e.result.options)
StoreSound == \A d \in Decls, t \in Compilers : TrueOf(store[EnvHash(d, t)], d, t)

\* A page is a package's that is generated for it or is authored where it is
\* mounted.
PageOf(r, a) == r \in {Example(a), Fence(MountedScope(a))}
Outside(r)   == \A a \in Names : ~PageOf(r, a)

\* Every block of a build shows what its package's own compiler options say
\* about the declarations of that build, and a page outside every package
\* what the build-wide options say (registerScope, transformerFor).
Own(a) == IF RawConfig[a] = None THEN BuildWide ELSE RawConfig[a]
HoversCurrent ==
  stage = "render" => \A r \in Readers, b \in Blocks : shown[r][b] # None =>
    /\ \A a \in Names : PageOf(r, a) => shown[r][b].result = Check(b, OptionsOf(Own(a)), decls, ts)
    /\ Outside(r) => shown[r][b].result = Check(b, OptionsOf(BuildWide), decls, ts)

\* The same for the first build of a process, whose services were empty.
FirstHoversCurrent == first => HoversCurrent

\* The type names of a block link into its own package's pages, and outside every
\* package nowhere (VfsRegistry.register, remarkWithApi). A {@link} in its docs
\* leads into a package that has a page of that name in this build, if one has,
\* though not always into the block's own: the routes are those of all packages
\* (addTypeRoutes, clearTypeRoutes).
Documenting(w) == {a \in Names : w \in Documents[decls][a]}
TypeNamesStayHome(r, hover) ==
  /\ \A a \in Names : PageOf(r, a) => hover.linker = a
  /\ Outside(r) => hover.linker = None
DocLinksLead(hover) ==
  \A w \in Words : hover.docs[w] \in IF Documenting(w) = {} THEN {None} ELSE Documenting(w)
BlockLinksRight ==
  stage = "render" => \A r \in Readers, b \in Blocks :
    shown[r][b] # None => TypeNamesStayHome(r, shown[r][b]) /\ DocLinksLead(shown[r][b])

\* The comment on the two cross-linkers, that a name resolves to the same page in
\* prose and in code blocks: on the pages of a package that has a page of a name,
\* a {@link} to it leads there.
DocLinksStayHome ==
  stage = "render" => \A a \in Names, b \in Blocks : shown[Example(a)][b] # None =>
    \A w \in Documents[decls][a] : shown[Example(a)][b].docs[w] = a

\* A save keeps whatever the build shows, whether it was checked now or found
\* in the cache, and leaves the results of other declarations and compilers
\* alone (persist, save).
SavedWork ==
  [][store' # store =>
       /\ \A h \in Hashes \ {EnvHash(decls, ts)} : store'[h] = store[h]
       /\ \A r \in Readers, b \in Blocks : shown[r][b] # None =>
            \E e \in store'[EnvHash(decls, ts)] : e.result = shown[r][b].result]_vars
================================================================================
