------------------------ MODULE TypeEnvironmentsProofs ------------------------
(***************************************************************************)
(* Type-checking the code blocks, for any packages, compiler options,      *)
(* declarations, compilers, number of builds and faults: the persisted     *)
(* result cache is sound, a save keeps what is shown, links lead where they *)
(* should, and the first build of a process shows current hovers.          *)
(***************************************************************************)
EXTENDS TypeEnvironments, TLAPS

\* The part of the state the cache depends on, well typed.
CacheTyped ==
  /\ decls \in Decls /\ ts \in Compilers
  /\ build \in 0..MaxBuilds
  /\ tsconfig \in [Raws -> Spellings \cup {Malformed}]
  /\ store \in [Hashes -> SUBSET Entry]
  /\ gens \in [Builds -> [hash : Hashes \cup {None}, entries : SUBSET Entry, dirty : BOOLEAN]]
  /\ envs \in [Options -> {None} \cup Environment]
  /\ wide \in Options \cup {None}

\* Every generation in memory holds results of its own VFS and compiler.
GensTrue ==
  \A n \in Builds, d \in Decls, t \in Compilers :
    gens[n].hash = EnvHash(d, t) => TrueOf(gens[n].entries, d, t)

\* An environment writes to the generation of its own declarations, which an
\* earlier build opened unless this one's is already there.
EnvsMatch ==
  \A o \in Options : envs[o] # None =>
    /\ gens[envs[o].gen].hash = EnvHash(envs[o].decls, ts)
    /\ envs[o].gen <= build
    /\ stage \in {"resolve", "open"} => envs[o].gen < build

\* The build-wide environment, once chosen, exists.
WideExists == wide # None => envs[wide] # None

\* From the registration to the end of the build the cache service holds this
\* build's generation, opened for what the sources say now.
Serving ==
  /\ stage \in {"resolve", "open", "scopes", "generate", "render"} => build \in Builds
  /\ stage = "open" => Parses(BuildWide)
  /\ stage \in {"scopes", "generate", "render"} =>
       /\ opened = build
       /\ gens[build].hash = EnvHash(decls, ts)
       /\ wide # None

IInv == CacheTyped /\ StoreSound /\ GensTrue /\ EnvsMatch /\ WideExists /\ Serving

--------------------------------------------------------------------------------
(* Operators. *)

\* A hash names one VFS and one compiler.
LEMMA HashInjective ==
  \A d1, d2 \in Decls, t1, t2 \in Compilers :
    EnvHash(d1, t1) = EnvHash(d2, t2) => d1 = d2 /\ t1 = t2
BY DEF EnvHash

\* The hash of a type environment is one of Hashes.
LEMMA HashType == \A d \in Decls, t \in Compilers : EnvHash(d, t) \in Hashes
BY DEF Hashes

\* The build-wide tsconfig is one some package declares, or none.
LEMMA BuildWideType == BuildWide \in Raws \cup {None}
<1> DEFINE First(i) == /\ RawConfig[Apis[i]] # None
                       /\ \A j \in 1..(i - 1) : RawConfig[Apis[j]] = None
<1>1. \A i \in DOMAIN Apis : RawConfig[Apis[i]] \in Raws \cup {None}
  BY ConstantsAssumption DEF Names
<1>2. CASE \E i \in DOMAIN Apis : First(i)
  <2> DEFINE i == CHOOSE i \in DOMAIN Apis : First(i)
  <2>1. i \in DOMAIN Apis
    BY <1>2
  <2> QED
    BY <1>1, <1>2, <2>1 DEF BuildWide
<1>3. CASE ~ \E i \in DOMAIN Apis : First(i)
  BY <1>3 DEF BuildWide
<1> QED
  BY <1>2, <1>3

\* A tsconfig that parses stands for compiler options.
LEMMA OptionsType ==
  ASSUME CacheTyped, NEW raw \in Raws \cup {None}, Parses(raw)
  PROVE  OptionsOf(raw) \in Options
BY ConstantsAssumption DEF CacheTyped, Parses, OptionsOf, Options

\* Checking a block for real yields a well typed, true entry.
LEMMA CheckedEntry ==
  ASSUME NEW b \in Blocks, NEW o \in Options, NEW d \in Decls, NEW t \in Compilers,
         NEW e, e = [key |-> EntryKey(b, o), result |-> Check(b, o, d, t)]
  PROVE  e \in Entry /\ TrueOf({e}, d, t)
<1>1. Check(b, o, d, t) \in Result /\ EntryKey(b, o) \in Keys
  BY DEF Check, Result, Keys
<1>2. e \in Entry
  BY <1>1 DEF Entry
<1>3. e.result.block = b /\ e.result.options = o
  BY DEF Check
<1> QED
  BY <1>2, <1>3 DEF TrueOf

--------------------------------------------------------------------------------
(* The invariant is inductive. *)

\* The invariant holds at first.
LEMMA InitInv == Init => IInv
<1> SUFFICES ASSUME Init PROVE IInv
  OBVIOUS
<1>1. CacheTyped
  BY ConstantsAssumption DEF Init, CacheTyped, Closed
<1>2. StoreSound
  BY HashType DEF Init, StoreSound, TrueOf
<1>3. GensTrue
  BY DEF Init, GensTrue, Closed, TrueOf
<1> QED
  BY <1>1, <1>2, <1>3 DEF Init, IInv, EnvsMatch, WideExists, Serving

\* Adding an environment over the generation this build has open.
LEMMA RegisteredInv ==
  ASSUME NEW o, build \in Builds, decls \in Decls,
         envs \in [Options -> {None} \cup Environment],
         NEW r, r = Registered(o)
  PROVE  /\ r \in [Options -> {None} \cup Environment]
         /\ \A p \in Options :
              \/ r[p] = envs[p]
              \/ p = o /\ r[p] = [decls |-> decls, gen |-> build]
         /\ o \in Options => envs[o] # None \/ r[o] = [decls |-> decls, gen |-> build]
         /\ \A p \in Options : envs[p] # None => r[p] = envs[p]
BY DEF Registered, Environment

\* Nothing the invariant speaks of changes but the stage, to a harmless one.
LEMMA Idling ==
  ASSUME IInv, stage' \in {"off", "idle"},
         UNCHANGED <<decls, tsconfig, store, ts, build, opened, gens, envs, wide>>
  PROVE  IInv'
BY DEF IInv, CacheTyped, StoreSound, GensTrue, EnvsMatch, WideExists, Serving

\* Every step preserves the invariant.
LEMMA StepInv == IInv /\ [Next]_vars => IInv'
<1> SUFFICES ASSUME IInv, [Next]_vars PROVE IInv'
  OBVIOUS
<1> USE DEF sources, process, memory, links
<1>0. CacheTyped /\ StoreSound /\ GensTrue /\ EnvsMatch /\ WideExists /\ Serving
  BY DEF IInv
<1>1. ASSUME NEW d \in Decls, EditModel(d) PROVE IInv'
  BY <1>1, <1>0 DEF EditModel, IInv, CacheTyped, StoreSound, GensTrue, EnvsMatch,
                    WideExists, Serving
<1>2. ASSUME NEW raw \in Raws, NEW s \in Spellings \cup {Malformed}, EditTsconfig(raw, s)
      PROVE IInv'
  <2>1. tsconfig' \in [Raws -> Spellings \cup {Malformed}]
    BY <1>2, <1>0 DEF EditTsconfig, CacheTyped
  <2> QED
    BY <1>2, <1>0, <2>1 DEF EditTsconfig, IInv, CacheTyped, StoreSound, GensTrue, EnvsMatch,
                            WideExists, Serving
<1>3. ASSUME NEW t \in Compilers, NEW p \in BOOLEAN, StartProcess(t, p) PROVE IInv'
  <2>1. CacheTyped'
    BY <1>3, <1>0 DEF StartProcess, CacheTyped, Closed
  <2>2. StoreSound' /\ GensTrue'
    BY <1>3, <1>0 DEF StartProcess, StoreSound, GensTrue, Closed, TrueOf
  <2>3. EnvsMatch' /\ WideExists' /\ Serving'
    BY <1>3 DEF StartProcess, EnvsMatch, WideExists, Serving
  <2> QED
    BY <2>1, <2>2, <2>3 DEF IInv
<1>4. CASE BeginConfig
  <2>1. build' \in Builds /\ build \in Nat /\ build' = build + 1
    BY <1>4, <1>0, ConstantsAssumption DEF BeginConfig, CacheTyped, Builds
  <2>2. \A o \in Options : envs[o] # None => envs[o].gen < build' /\ envs[o].gen <= build'
    BY <2>1, <1>0 DEF CacheTyped, EnvsMatch, Environment, Builds
  <2>3. CacheTyped' /\ Serving'
    BY <1>4, <1>0, <2>1 DEF BeginConfig, CacheTyped, Serving, Builds
  <2>3a. StoreSound' /\ GensTrue' /\ WideExists'
    BY <1>4, <1>0 DEF BeginConfig, StoreSound, GensTrue, WideExists
  <2>4. EnvsMatch'
    BY <1>4, <1>0, <2>1, <2>2 DEF BeginConfig, EnvsMatch
  <2> QED
    BY <2>3, <2>3a, <2>4 DEF IInv
<1>5. CASE ResolveOptions
  <2>1. CASE Exit
    BY <1>5, <2>1, Idling DEF ResolveOptions, Exit
  <2>2. CASE Parses(BuildWide) /\ stage' = "open" /\ UNCHANGED <<decls, tsconfig, ts, build, opened, gens, envs, wide>>
    BY <1>5, <2>2, <1>0 DEF ResolveOptions, IInv, CacheTyped, StoreSound, GensTrue, EnvsMatch,
                            WideExists, Serving, Parses
  <2> QED
    BY <1>5, <2>1, <2>2 DEF ResolveOptions
<1>6. CASE OpenCache
  <2> DEFINE o == OptionsOf(BuildWide)
             h == EnvHash(decls, ts)
  <2>1. build \in Builds /\ stage = "open" /\ Parses(BuildWide) /\ h \in Hashes
    BY <1>6, <1>0, HashType DEF OpenCache, Serving, CacheTyped
  <2>2. o \in Options /\ o # None
    BY <2>1, <1>0, BuildWideType, OptionsType, ConstantsAssumption
  <2>3. PICK loaded \in {store[h], {}} :
          gens' = [gens EXCEPT ![build] = [hash |-> h, entries |-> loaded, dirty |-> FALSE]]
    BY <1>6 DEF OpenCache
  <2>4. /\ loaded \in SUBSET Entry
        /\ TrueOf(loaded, decls, ts)
    BY <2>1, <2>3, <1>0 DEF CacheTyped, StoreSound, TrueOf
  <2>5. envs' = Registered(o) /\ wide' = (IF wide = None THEN o ELSE wide)
    BY <1>6 DEF OpenCache
  <2>6. /\ envs' \in [Options -> {None} \cup Environment]
        /\ \A p \in Options : \/ envs'[p] = envs[p]
                              \/ p = o /\ envs'[p] = [decls |-> decls, gen |-> build]
        /\ envs[o] # None \/ envs'[o] = [decls |-> decls, gen |-> build]
        /\ \A p \in Options : envs[p] # None => envs'[p] = envs[p]
    BY <2>1, <2>2, <2>5, <1>0, RegisteredInv DEF CacheTyped
  <2>7. CacheTyped'
    BY <1>6, <1>0, <2>1, <2>2, <2>3, <2>4, <2>5, <2>6 DEF OpenCache, CacheTyped
  <2>8. StoreSound'
    BY <1>6, <1>0 DEF OpenCache, StoreSound
  <2>9. GensTrue'
    <3> SUFFICES ASSUME NEW n \in Builds, NEW d \in Decls, NEW t \in Compilers,
                        gens'[n].hash = EnvHash(d, t)
                 PROVE  TrueOf(gens'[n].entries, d, t)
      BY DEF GensTrue
    <3>1. CASE n = build
      BY <3>1, <1>0, <2>3, <2>4, HashInjective DEF CacheTyped
    <3>2. CASE n # build
      BY <3>2, <1>0, <2>3 DEF CacheTyped, GensTrue
    <3> QED
      BY <3>1, <3>2
  <2>10. gens'[build].hash = h /\ \A n \in Builds : n # build => gens'[n] = gens[n]
    BY <2>1, <2>3, <1>0 DEF CacheTyped
  <2>11. EnvsMatch'
    <3> SUFFICES ASSUME NEW p \in Options, envs'[p] # None
                 PROVE  /\ gens'[envs'[p].gen].hash = EnvHash(envs'[p].decls, ts)
                        /\ envs'[p].gen <= build
      BY <1>6 DEF EnvsMatch, OpenCache
    <3>1. CASE envs'[p] = [decls |-> decls, gen |-> build]
      BY <3>1, <2>1, <2>10 DEF Builds
    <3>2. CASE envs'[p] = envs[p]
      <4>1. /\ envs[p] # None
            /\ envs[p].gen \in Builds /\ envs[p].gen < build
            /\ gens[envs[p].gen].hash = EnvHash(envs[p].decls, ts)
        BY <3>2, <2>1, <1>0 DEF CacheTyped, EnvsMatch, Environment
      <4> QED
        BY <3>2, <4>1, <2>1, <2>10 DEF Builds
    <3> QED
      BY <2>6, <3>1, <3>2
  <2>12. wide' # None /\ WideExists'
    <3>1. [decls |-> decls, gen |-> build] # None
      BY <2>1, <1>0, ConstantsAssumption DEF CacheTyped, Environment
    <3> QED
      BY <3>1, <2>2, <2>5, <2>6, <1>0 DEF WideExists, CacheTyped
  <2>13. Serving'
    BY <1>6, <2>1, <2>10, <2>12 DEF OpenCache, Serving
  <2> QED
    BY <2>7, <2>8, <2>9, <2>11, <2>12, <2>13 DEF IInv
<1>7. CASE RegisterScope
  <2>1. CASE Exit
    BY <1>7, <2>1, Idling DEF RegisterScope, Exit
  <2>2. CASE /\ \E raw : envs' = Registered(OptionsOf(raw))
             /\ UNCHANGED <<decls, tsconfig, store, stage, ts, build, opened, gens, wide>>
    <3>1. PICK o : envs' = Registered(o)
      BY <2>2
    <3>2. build \in Builds /\ gens[build].hash = EnvHash(decls, ts) /\ stage = "scopes"
      BY <1>7, <1>0 DEF RegisterScope, Serving
    <3>3. /\ envs' \in [Options -> {None} \cup Environment]
          /\ \A p \in Options : \/ envs'[p] = envs[p]
                                \/ p = o /\ envs'[p] = [decls |-> decls, gen |-> build]
          /\ \A p \in Options : envs[p] # None => envs'[p] = envs[p]
      BY <3>1, <3>2, <1>0, RegisteredInv DEF CacheTyped
    <3>4. CacheTyped' /\ StoreSound' /\ GensTrue' /\ Serving'
      BY <2>2, <3>3, <1>0 DEF CacheTyped, StoreSound, GensTrue, Serving, Parses
    <3>5. EnvsMatch'
      BY <2>2, <3>2, <3>3, <1>0 DEF EnvsMatch, Builds
    <3>6. WideExists'
      BY <2>2, <3>3, <1>0 DEF WideExists, CacheTyped
    <3> QED
      BY <3>4, <3>5, <3>6 DEF IInv
  <2> QED
    BY <1>7, <2>1, <2>2 DEF RegisterScope
<1>8. ASSUME EndRegistration \/ \E i \in {1, 2} : Generate(i) PROVE IInv'
  <2>1. /\ stage \in {"scopes", "generate"} /\ stage' = "generate"
        /\ UNCHANGED <<decls, tsconfig, store, ts, build, opened, gens, envs, wide>>
    BY <1>8 DEF EndRegistration, Generate
  <2> QED
    BY <2>1, <1>0 DEF IInv, CacheTyped, StoreSound, GensTrue, EnvsMatch, WideExists, Serving
<1>9. CASE EndConfig
  <2>1. CASE Exit
    BY <1>9, <2>1, Idling DEF EndConfig, Exit
  <2>2. CASE /\ stage = "generate" /\ stage' = "render"
             /\ UNCHANGED <<decls, tsconfig, store, ts, build, opened, gens, envs, wide>>
    BY <2>2, <1>0 DEF IInv, CacheTyped, StoreSound, GensTrue, EnvsMatch, WideExists, Serving
  <2> QED
    BY <1>9, <2>1, <2>2 DEF EndConfig
<1>10. ASSUME NEW r, NEW b \in Blocks, NEW o \in Options, NEW linker, envs[o] # None,
              Show(r, b, o, linker), stage = "render",
              UNCHANGED <<decls, tsconfig, store, stage, ts, build, opened, envs, wide>>
       PROVE  IInv'
  <2> DEFINE gen == envs[o].gen
             d   == envs[o].decls
             e   == [key |-> EntryKey(b, o), result |-> Check(b, o, d, ts)]
  <2>1. /\ envs[o] \in Environment /\ gen \in Builds /\ d \in Decls
        /\ gens[gen].hash = EnvHash(d, ts)
    BY <1>10, <1>0 DEF CacheTyped, EnvsMatch, Environment
  <2>2. CASE UNCHANGED gens
    BY <1>10, <2>2, <1>0 DEF IInv, CacheTyped, StoreSound, GensTrue, EnvsMatch, WideExists,
                             Serving
  <2>3. CASE gens' = [gens EXCEPT ![gen].entries = @ \cup {e}, ![gen].dirty = TRUE]
    <3>1. e \in Entry /\ TrueOf({e}, d, ts)
      BY <2>1, <1>0, CheckedEntry DEF CacheTyped
    <3>2. /\ gens' \in [Builds -> [hash : Hashes \cup {None}, entries : SUBSET Entry, dirty : BOOLEAN]]
          /\ \A n \in Builds : gens'[n].hash = gens[n].hash
          /\ gens'[gen].entries = gens[gen].entries \cup {e}
          /\ \A n \in Builds : n # gen => gens'[n] = gens[n]
      BY <2>1, <2>3, <3>1, <1>0 DEF CacheTyped
    <3>3. CacheTyped' /\ StoreSound' /\ WideExists'
      BY <1>10, <3>2, <1>0 DEF CacheTyped, StoreSound, WideExists
    <3>4. EnvsMatch'
      BY <1>10, <3>2, <1>0 DEF EnvsMatch, CacheTyped, Environment
    <3>5. Serving'
      BY <1>10, <3>2, <1>0 DEF Serving
    <3>6. GensTrue'
      <4> SUFFICES ASSUME NEW n \in Builds, NEW dd \in Decls, NEW t \in Compilers,
                          gens'[n].hash = EnvHash(dd, t)
                   PROVE  TrueOf(gens'[n].entries, dd, t)
        BY DEF GensTrue
      <4>1. TrueOf(gens[n].entries, dd, t)
        BY <3>2, <1>0 DEF GensTrue
      <4>2. CASE n = gen
        <5>1. dd = d /\ t = ts
          BY <4>2, <2>1, <3>2, <1>0, HashInjective DEF CacheTyped
        <5> QED
          BY <4>1, <4>2, <5>1, <3>1, <3>2 DEF TrueOf
      <4>3. CASE n # gen
        BY <4>1, <4>3, <3>2
      <4> QED
        BY <4>2, <4>3
    <3> QED
      BY <3>3, <3>4, <3>5, <3>6 DEF IInv
  <2> QED
    BY <1>10, <2>2, <2>3 DEF Show
<1>11. ASSUME NEW r, NEW b \in Blocks, NEW key, NEW linker, Render(r, b, key, linker)
       PROVE  IInv'
  <2>1. /\ stage = "render"
        /\ UNCHANGED <<decls, tsconfig, store, stage, ts, build, opened, envs, wide>>
    BY <1>11 DEF Render
  <2>2. CASE key \in Options /\ envs[key] # None
    BY <1>11, <2>1, <2>2, <1>10 DEF Render
  <2>3. CASE UNCHANGED gens
    BY <2>1, <2>3, <1>0 DEF IInv, CacheTyped, StoreSound, GensTrue, EnvsMatch, WideExists,
                            Serving
  <2> QED
    BY <1>11, <2>2, <2>3 DEF Render, ShowPlain
<1>12. /\ \A a \in Names, b \in Blocks : RenderExample(a, b) => IInv'
       /\ \A s \in Authored, b \in Blocks : RenderFence(s, b) => IInv'
  BY <1>11 DEF RenderExample, RenderFence
<1>13. CASE AfterBuild
  <2>1. /\ stage' \in {"off", "idle"} /\ stage = "render"
        /\ UNCHANGED <<decls, tsconfig, ts, build, opened, gens, envs, wide>>
    BY <1>13 DEF AfterBuild
  <2>2. CASE UNCHANGED store
    BY <2>1, <2>2, Idling
  <2>3. CASE store' = Persisted(gens[opened].entries)
    <3>1. opened \in Builds /\ gens[opened].hash = EnvHash(decls, ts)
      BY <2>1, <1>0 DEF Serving
    <3>2. TrueOf(gens[opened].entries, decls, ts) /\ gens[opened].entries \in SUBSET Entry
      BY <3>1, <1>0 DEF GensTrue, CacheTyped
    <3>3. store' \in [Hashes -> SUBSET Entry]
      BY <2>3, <3>2, <1>0 DEF Persisted, CacheTyped
    <3>4. StoreSound'
      <4> SUFFICES ASSUME NEW d \in Decls, NEW t \in Compilers
                   PROVE  TrueOf(store'[EnvHash(d, t)], d, t)
        BY DEF StoreSound
      <4>1. EnvHash(d, t) \in Hashes /\ TrueOf(store[EnvHash(d, t)], d, t)
        BY <1>0, HashType DEF StoreSound
      <4>2. CASE EnvHash(d, t) = EnvHash(decls, ts)
        <5>1. d = decls /\ t = ts
          BY <4>2, <1>0, HashInjective DEF CacheTyped
        <5>2. store'[EnvHash(d, t)] = gens[opened].entries
          BY <4>1, <4>2, <2>3, <3>1, <1>0 DEF Persisted, CacheTyped
        <5> QED
          BY <5>1, <5>2, <3>2
      <4>3. CASE EnvHash(d, t) # EnvHash(decls, ts)
        BY <4>1, <4>3, <2>3, <3>1, <1>0 DEF Persisted, CacheTyped
      <4> QED
        BY <4>2, <4>3
    <3>5. CacheTyped'
      BY <2>1, <3>3, <1>0 DEF CacheTyped
    <3>6. GensTrue' /\ EnvsMatch' /\ WideExists' /\ Serving'
      BY <2>1, <1>0 DEF GensTrue, EnvsMatch, WideExists, Serving
    <3> QED
      BY <3>4, <3>5, <3>6 DEF IInv
  <2> QED
    BY <1>13, <2>2, <2>3 DEF AfterBuild
<1>14. CASE Crash
  BY <1>14, Idling DEF Crash, Exit
<1>15. CASE UNCHANGED vars
  BY <1>15, <1>0 DEF vars, IInv, CacheTyped, StoreSound, GensTrue, EnvsMatch, WideExists,
                     Serving, Parses
<1> QED
  BY <1>1, <1>2, <1>3, <1>4, <1>5, <1>6, <1>7, <1>8, <1>9, <1>12, <1>13, <1>14, <1>15
     DEF Next

\* Whatever packages, compiler options, edits, compiler upgrades, rebuilds and
\* faults: what the persisted cache holds under a VFS and a compiler is what
\* checking would give (TwoslashCacheService, makeTwoslashCache).
THEOREM CacheIsSound == Spec => []StoreSound
<1>1. IInv => StoreSound
  BY DEF IInv
<1> QED
  BY <1>1, InitInv, StepInv, PTL DEF Spec

--------------------------------------------------------------------------------
(* What the blocks show, and where their results are kept.  Every key a block   *)
(* can be rendered under has its environment, in every build; in the first      *)
(* build of a process, whose services were empty, every environment was         *)
(* registered for the declarations of this build and writes to its generation.  *)

BuildStages == {"resolve", "open", "scopes", "generate", "render"}

ShownShape ==
  /\ DOMAIN shown = Readers /\ \A r \in Readers : DOMAIN shown[r] = Blocks
  /\ DOMAIN scopeKey = Scopes /\ DOMAIN routed = Scopes
  /\ todo \in Seq(Names)

KeysServed ==
  \A s \in Scopes :
    /\ scopeKey[s] # None => scopeKey[s] \in Options /\ envs[scopeKey[s]] # None
    /\ routed[s] # None   => routed[s].key \in Options /\ envs[routed[s].key] # None

AllRouted ==
  /\ stage = "generate" => \A a \in Names : \/ \E j \in DOMAIN todo : todo[j] = a
                                            \/ routed[MountedScope(a)] # None
  /\ stage \in {"resolve", "open", "scopes"} => \A a \in Names : routed[MountedScope(a)] = None
  /\ stage = "render" => \A a \in Names : routed[MountedScope(a)] # None

FirstFresh ==
  /\ first /\ stage \in {"idle", "resolve", "open"} =>
       wide = None /\ \A o \in Options : envs[o] = None
  /\ first /\ stage \in {"scopes", "generate", "render"} =>
       /\ wide = OptionsOf(BuildWide)
       /\ \A o \in Options : envs[o] # None => envs[o].decls = decls /\ envs[o].gen = build

\* Nothing is shown before the render pass, and then nothing that is not kept.
ShownKept ==
  /\ stage \in BuildStages \ {"render"} => \A r \in Readers, b \in Blocks : shown[r][b] = None
  /\ first /\ stage = "render" =>
       \A r \in Readers, b \in Blocks : shown[r][b] # None =>
         \E e \in gens[build].entries : e.result = shown[r][b].result

(* Links: each scope's linker is the one of the package mounted there, and once  *)
(* a package is generated a name it documents leads to one that documents it.    *)

MountedApart == \A a, b \in Names : MountedScope(a) = MountedScope(b) => a = b

Linked ==
  /\ \A a \in Names : routed[MountedScope(a)] # None => routed[MountedScope(a)].linker = a
  /\ \A s \in Scopes : routed[s] # None => \E a \in Names : MountedScope(a) = s

Leading ==
  /\ DOMAIN typeRoutes = Words
  /\ stage \in {"resolve", "open", "scopes"} => typeRoutes = NoRoutes
  /\ stage \in {"generate", "render"} => \A w \in Words :
       /\ typeRoutes[w] \in {None} \cup Documenting(w)
       /\ \A a \in Documenting(w) :
            \/ typeRoutes[w] # None
            \/ stage = "generate" /\ \E j \in DOMAIN todo : todo[j] = a

(* Options: each scope's key stands for what its own package declares.          *)

Apart ==
  /\ \A a \in Names : BaseRoute[a] # <<>>
  /\ \A a, b \in Names : Head(BaseRoute[a]) = Head(BaseRoute[b]) => a = b

KeyIsOwn(a) == /\ scopeKey[RegisteredScope(a)] = OptionsOf(Own(a))
               /\ scopeKey[RegisteredScope(a)] \in Options

Keyed ==
  /\ stage = "scopes" => \A a \in Names : (\E j \in DOMAIN todo : todo[j] = a) \/ KeyIsOwn(a)
  /\ stage \in {"generate", "render"} => \A a \in Names :
       /\ KeyIsOwn(a)
       /\ routed[MountedScope(a)] # None => routed[MountedScope(a)].key = OptionsOf(Own(a))

\* The packages of a site are a sequence of names.
LEMMA ApisType == Apis \in Seq(Names)
<1>1. \A i \in DOMAIN Apis : Apis[i] \in Names
  BY DEF Names
<1> QED
  BY <1>1, ConstantsAssumption

\* Both ways of finding a package's scope give a scope.
LEMMA ScopeTypes ==
  \A a \in Names : RegisteredScope(a) \in Scopes /\ MountedScope(a) \in Scopes
BY DEF Scopes

\* What is left of a queue after its head, or one of its elements, is taken.
LEMMA TailKeeps ==
  ASSUME NEW S, NEW s \in Seq(S), s # <<>>
  PROVE  /\ Tail(s) \in Seq(S) /\ Head(s) \in S
         /\ \A j \in DOMAIN s : s[j] = Head(s) \/ \E k \in DOMAIN Tail(s) : Tail(s)[k] = s[j]
<1>1. Tail(s) \in Seq(S) /\ Head(s) \in S
  OBVIOUS
<1>2. /\ Len(s) \in Nat /\ DOMAIN s = 1..Len(s) /\ Head(s) = s[1]
      /\ DOMAIN Tail(s) = 1..(Len(s) - 1) /\ \A k \in 1..(Len(s) - 1) : Tail(s)[k] = s[k + 1]
  OBVIOUS
<1>3. ASSUME NEW j \in DOMAIN s, j # 1
      PROVE  j - 1 \in DOMAIN Tail(s) /\ Tail(s)[j - 1] = s[j]
  <2>1. j \in Int /\ j - 1 \in 1..(Len(s) - 1) /\ (j - 1) + 1 = j
    BY <1>2, <1>3
  <2> QED
    BY <1>2, <2>1
<1> QED
  BY <1>1, <1>2, <1>3

\* Taking one work item out of a queue leaves the others in their order.
LEMMA RemoveAtKeeps ==
  ASSUME NEW S, NEW s \in Seq(S), NEW i \in DOMAIN s
  PROVE  /\ RemoveAt(s, i) \in Seq(S)
         /\ \A j \in DOMAIN s : j = i \/ \E k \in DOMAIN RemoveAt(s, i) : RemoveAt(s, i)[k] = s[j]
<1> DEFINE before == SubSeq(s, 1, i - 1)
           after  == SubSeq(s, i + 1, Len(s))
<1>1. /\ before \in Seq(S) /\ Len(before) = i - 1
      /\ \A k \in 1..(i - 1) : before[k] = s[k]
  OBVIOUS
<1>2. /\ after \in Seq(S) /\ Len(after) = Len(s) - i
      /\ \A k \in 1..(Len(s) - i) : after[k] = s[i + k]
  OBVIOUS
<1>3. RemoveAt(s, i) = before \o after
  BY DEF RemoveAt
<1> HIDE DEF before, after
<1>4. /\ RemoveAt(s, i) \in Seq(S) /\ DOMAIN RemoveAt(s, i) = 1..(Len(s) - 1)
      /\ \A k \in 1..(i - 1) : RemoveAt(s, i)[k] = s[k]
      /\ \A k \in i..(Len(s) - 1) : RemoveAt(s, i)[k] = after[k - (i - 1)]
  <2>1. RemoveAt(s, i) \in Seq(S) /\ Len(s) \in Nat /\ i \in 1..Len(s)
    BY <1>1, <1>2, <1>3
  <2>2. /\ DOMAIN RemoveAt(s, i) = 1..(Len(before) + Len(after))
        /\ \A k \in 1..(Len(before) + Len(after)) :
             RemoveAt(s, i)[k] = IF k <= Len(before) THEN before[k] ELSE after[k - Len(before)]
    BY <1>1, <1>2, <1>3
  <2>3. Len(before) = i - 1 /\ Len(before) + Len(after) = Len(s) - 1
    BY <1>1, <1>2, <2>1
  <2>4. /\ DOMAIN RemoveAt(s, i) = 1..(Len(s) - 1)
        /\ \A k \in 1..(Len(s) - 1) :
             RemoveAt(s, i)[k] = IF k <= i - 1 THEN before[k] ELSE after[k - (i - 1)]
    BY <2>2, <2>3
  <2>5. \A k \in 1..(i - 1) : RemoveAt(s, i)[k] = s[k]
    BY <1>1, <2>1, <2>4
  <2>6. \A k \in i..(Len(s) - 1) : k \in 1..(Len(s) - 1) /\ ~(k <= i - 1)
    BY <2>1
  <2> QED
    BY <2>1, <2>4, <2>5, <2>6
<1>5. ASSUME NEW j \in DOMAIN s, j > i
      PROVE  j - 1 \in DOMAIN RemoveAt(s, i) /\ RemoveAt(s, i)[j - 1] = s[j]
  <2>1. /\ j - 1 \in i..(Len(s) - 1) /\ j - 1 \in 1..(Len(s) - 1)
        /\ (j - 1) - (i - 1) = j - i /\ j - i \in 1..(Len(s) - i) /\ i + (j - i) = j
    BY <1>5
  <2> QED
    BY <1>2, <1>4, <2>1
<1>6. ASSUME NEW j \in DOMAIN s, j < i
      PROVE  j \in DOMAIN RemoveAt(s, i) /\ RemoveAt(s, i)[j] = s[j]
  BY <1>4, <1>6
<1> QED
  BY <1>4, <1>5, <1>6

\* The tsconfig a package is documented under.
LEMMA OwnType == \A a \in Names : Own(a) \in Raws \cup {None}
BY BuildWideType, ConstantsAssumption DEF Own

--------------------------------------------------------------------------------

Kept == ShownShape /\ KeysServed /\ AllRouted /\ FirstFresh /\ ShownKept

\* At first nothing has been shown or routed.
LEMMA InitKept == Init => Kept
<1> SUFFICES ASSUME Init PROVE Kept
  OBVIOUS
<1>1. ShownShape
  BY DEF Init, ShownShape, Blank, NoScopes
<1>2. KeysServed /\ AllRouted
  BY ScopeTypes DEF Init, KeysServed, AllRouted, NoScopes
<1>3. FirstFresh /\ ShownKept
  BY DEF Init, FirstFresh, ShownKept, BuildStages
<1> QED
  BY <1>1, <1>2, <1>3 DEF Kept

\* Outside the build stages only the services and what they served are at stake.
LEMMA RestingKept ==
  ASSUME Kept, stage' \in {"off", "idle"}, stage' = "idle" => ~first' \/ stage = "idle",
         first' => first,
         UNCHANGED <<envs, wide, scopeKey, routed, shown>>, todo' \in Seq(Names)
  PROVE  Kept'
BY DEF Kept, ShownShape, KeysServed, AllRouted, FirstFresh, ShownKept, BuildStages

\* Every step keeps what has been shown and routed in line with the packages.
LEMMA StepKept == IInv /\ Kept /\ [Next]_vars => Kept'
<1> SUFFICES ASSUME IInv, Kept, [Next]_vars PROVE Kept'
  OBVIOUS
<1> USE DEF sources, process, memory, links
<1>0. /\ CacheTyped /\ GensTrue /\ EnvsMatch /\ WideExists /\ Serving
      /\ ShownShape /\ KeysServed /\ AllRouted /\ FirstFresh /\ ShownKept
  BY DEF IInv, Kept
<1>1. ASSUME NEW d \in Decls, EditModel(d) PROVE Kept'
  BY <1>1, <1>0, RestingKept DEF EditModel, ShownShape
<1>2. ASSUME NEW raw \in Raws, NEW s \in Spellings \cup {Malformed}, EditTsconfig(raw, s)
      PROVE Kept'
  BY <1>2, <1>0, RestingKept DEF EditTsconfig, ShownShape
<1>3. ASSUME NEW t \in Compilers, NEW p \in BOOLEAN, StartProcess(t, p) PROVE Kept'
  <2>1. ShownShape' /\ KeysServed'
    BY <1>3, <1>0 DEF StartProcess, ShownShape, KeysServed, Blank, NoScopes
  <2>2. AllRouted' /\ FirstFresh' /\ ShownKept'
    BY <1>3 DEF StartProcess, AllRouted, FirstFresh, ShownKept, BuildStages
  <2> QED
    BY <2>1, <2>2 DEF Kept
<1>4. CASE BeginConfig
  <2>1. ShownShape' /\ KeysServed'
    BY <1>4, <1>0 DEF BeginConfig, ShownShape, KeysServed, Blank, NoScopes
  <2>2. AllRouted'
    BY <1>4, ScopeTypes DEF BeginConfig, AllRouted, NoScopes
  <2>3. FirstFresh' /\ ShownKept'
    BY <1>4, <1>0 DEF BeginConfig, FirstFresh, ShownKept, BuildStages, Blank
  <2> QED
    BY <2>1, <2>2, <2>3 DEF Kept
<1>5. CASE ResolveOptions
  <2>1. CASE Exit
    BY <1>5, <1>0, <2>1, RestingKept DEF ResolveOptions, Exit, ShownShape
  <2>2. CASE stage' = "open" /\ UNCHANGED <<sources, process, build, memory, routed, shown>>
    BY <1>5, <1>0, <2>2
       DEF ResolveOptions, Kept, ShownShape, KeysServed, AllRouted, FirstFresh, ShownKept,
           BuildStages
  <2> QED
    BY <1>5, <2>1, <2>2 DEF ResolveOptions
\* A registration adds an environment of this build and takes none away.
<1>6. ASSUME NEW o \in Options, envs' = Registered(o), build \in Builds,
             UNCHANGED <<decls, tsconfig, build>>
      PROVE  /\ envs'[o] # None
             /\ \A q \in Options : envs[q] # None => envs'[q] = envs[q]
             /\ \A q \in Options : \/ envs'[q] = envs[q]
                                   \/ envs'[q].decls = decls /\ envs'[q].gen = build
  <2>1. [decls |-> decls, gen |-> build] # None
    BY <1>6, <1>0, ConstantsAssumption DEF CacheTyped, Environment
  <2> QED
    BY <1>6, <1>0, <2>1, RegisteredInv DEF CacheTyped
<1>7. CASE OpenCache
  <2> DEFINE o == OptionsOf(BuildWide)
  <2>1. /\ o \in Options /\ envs' = Registered(o) /\ build \in Builds
        /\ wide' = (IF wide = None THEN o ELSE wide)
    BY <1>7, <1>0, BuildWideType, OptionsType DEF OpenCache, Serving
  <2> HIDE DEF o
  <2>2. /\ \A q \in Options : envs[q] # None => envs'[q] = envs[q]
        /\ \A q \in Options : \/ envs'[q] = envs[q]
                              \/ envs'[q].decls = decls /\ envs'[q].gen = build
    BY <1>7, <1>6, <2>1 DEF OpenCache
  <2>3. ShownShape' /\ KeysServed'
    BY <1>7, <1>0, <2>2, ApisType DEF OpenCache, ShownShape, KeysServed
  <2>4. AllRouted' /\ ShownKept'
    BY <1>7, <1>0 DEF OpenCache, AllRouted, ShownKept, BuildStages
  <2>5. OptionsOf(BuildWide)' = o
    BY <1>7 DEF OpenCache, OptionsOf, o
  <2>6. FirstFresh'
    BY <1>7, <1>0, <2>1, <2>2, <2>5 DEF OpenCache, FirstFresh
  <2> QED
    BY <2>3, <2>4, <2>6 DEF Kept
<1>8. CASE RegisterScope
  <2>1. CASE Exit
    BY <1>8, <1>0, <2>1, RestingKept DEF RegisterScope, Exit, ShownShape
  <2>2. CASE ~Exit
    <3> DEFINE a   == Head(todo)
               raw == IF RawConfig[a] = None THEN BuildWide ELSE RawConfig[a]
    <3>1. /\ stage = "scopes" /\ Parses(raw) /\ envs' = Registered(OptionsOf(raw))
          /\ scopeKey' = [scopeKey EXCEPT ![RegisteredScope(a)] = OptionsOf(raw)]
          /\ todo' = Tail(todo) /\ todo # <<>>
          /\ UNCHANGED <<sources, stage, process, build, opened, gens, wide, routed, shown>>
      BY <1>8, <2>2 DEF RegisterScope
    <3>2. a \in Names /\ Tail(todo) \in Seq(Names) /\ build \in Builds
      BY <1>0, <3>1, TailKeeps DEF ShownShape, Serving
    <3>3. OptionsOf(raw) \in Options
      BY <1>0, <3>1, <3>2, BuildWideType, OptionsType, ConstantsAssumption
    <3> HIDE DEF a, raw
    <3>4. /\ envs'[OptionsOf(raw)] # None
          /\ \A q \in Options : envs[q] # None => envs'[q] = envs[q]
          /\ \A q \in Options : \/ envs'[q] = envs[q]
                                \/ envs'[q].decls = decls /\ envs'[q].gen = build
      BY <1>6, <3>1, <3>2, <3>3
    <3>5. ShownShape' /\ KeysServed'
      BY <1>0, <3>1, <3>2, <3>3, <3>4 DEF ShownShape, KeysServed
    <3>6. OptionsOf(BuildWide)' = OptionsOf(BuildWide)
      BY <3>1 DEF OptionsOf
    <3>7. AllRouted' /\ ShownKept' /\ FirstFresh'
      BY <1>0, <3>1, <3>4, <3>6 DEF AllRouted, ShownKept, FirstFresh, BuildStages
    <3> QED
      BY <3>5, <3>7 DEF Kept
  <2> QED
    BY <2>1, <2>2
<1>9. CASE EndRegistration
  <2>1. AllRouted'
    BY <1>9 DEF EndRegistration, AllRouted, Names
  <2> QED
    BY <1>9, <1>0, <2>1, ApisType
       DEF EndRegistration, Kept, ShownShape, KeysServed, FirstFresh, ShownKept, BuildStages, OptionsOf
<1>10. ASSUME NEW i \in {1, 2}, Generate(i) PROVE Kept'
  <2> DEFINE a == todo[i]
             k == KeyFor(MountedScope(a))
  <2>1. /\ stage = "generate" /\ i \in DOMAIN todo /\ todo' = RemoveAt(todo, i)
        /\ routed' = [routed EXCEPT ![MountedScope(a)] = [key |-> k, linker |-> a]]
        /\ UNCHANGED <<sources, store, stage, process, build, memory, shown>>
    BY <1>10 DEF Generate
  <2>2. /\ RemoveAt(todo, i) \in Seq(Names) /\ a \in Names
        /\ \A j \in DOMAIN todo : j = i \/ \E m \in DOMAIN todo' : todo'[m] = todo[j]
    BY <1>0, <2>1, RemoveAtKeeps DEF ShownShape
  <2>3. k \in Options /\ envs[k] # None
    BY <1>0, <2>1 DEF KeyFor, KeysServed, Serving, WideExists, CacheTyped
  <2> HIDE DEF a, k
  <2>4. ShownShape' /\ KeysServed'
    BY <1>0, <2>1, <2>2, <2>3 DEF ShownShape, KeysServed
  <2>5. AllRouted'
    <3> SUFFICES ASSUME NEW p \in Names
                 PROVE  (\E j \in DOMAIN todo' : todo'[j] = p) \/ routed'[MountedScope(p)] # None
      BY <2>1 DEF AllRouted
    <3>1. [key |-> k, linker |-> a] # None
      BY <2>2, <2>3, ConstantsAssumption DEF Route
    <3>2. routed[MountedScope(p)] # None \/ p = a => routed'[MountedScope(p)] # None
      BY <1>0, <2>1, <3>1, ScopeTypes DEF ShownShape
    <3>3. CASE \E j \in DOMAIN todo : todo[j] = p
      BY <2>2, <3>2, <3>3 DEF a
    <3>4. CASE routed[MountedScope(p)] # None
      BY <3>2, <3>4
    <3> QED
      BY <1>0, <2>1, <3>3, <3>4 DEF AllRouted
  <2>6. FirstFresh' /\ ShownKept'
    BY <1>0, <2>1 DEF FirstFresh, ShownKept, BuildStages, OptionsOf
  <2> QED
    BY <2>4, <2>5, <2>6 DEF Kept
<1>11. CASE EndConfig
  <2>1. CASE Exit
    BY <1>11, <1>0, <2>1, RestingKept DEF EndConfig, Exit, ShownShape
  <2>2. CASE /\ todo = <<>> /\ stage' = "render"
             /\ UNCHANGED <<sources, process, build, memory, routed, shown, todo>>
    BY <1>11, <1>0, <2>2
       DEF EndConfig, Kept, ShownShape, KeysServed, AllRouted, FirstFresh, ShownKept,
           BuildStages, OptionsOf
  <2> QED
    BY <1>11, <2>1, <2>2 DEF EndConfig
\* A hover that is shown is the result of an entry of its environment's generation.
<1>12. ASSUME NEW r \in Readers, NEW b \in Blocks, NEW o \in Options, NEW linker, envs[o] # None,
              Show(r, b, o, linker), stage = "render",
              UNCHANGED <<sources, store, stage, process, build, opened, envs, wide, scopeKey,
                          routed, todo>>
       PROVE  Kept'
  <2> DEFINE gen == envs[o].gen
             e0  == [key |-> EntryKey(b, o), result |-> Check(b, o, envs[o].decls, ts)]
  <2>1. gen \in Builds
    BY <1>12, <1>0 DEF CacheTyped, Environment
  <2>2. PICK e : /\ e \in gens'[gen].entries
                 /\ shown' = [shown EXCEPT ![r][b] = Hover(e.result, linker)]
                 /\ \A n \in Builds : gens[n].entries \subseteq gens'[n].entries
    <3>1. CASE \E e \in gens[gen].entries :
                 /\ e.key = EntryKey(b, o)
                 /\ shown' = [shown EXCEPT ![r][b] = Hover(e.result, linker)]
                 /\ UNCHANGED gens
      BY <3>1
    <3>2. CASE /\ shown' = [shown EXCEPT ![r][b] = Hover(e0.result, linker)]
               /\ gens' = [gens EXCEPT ![gen].entries = @ \cup {e0}, ![gen].dirty = TRUE]
      <4>1. /\ gens'[gen].entries = gens[gen].entries \cup {e0}
            /\ \A n \in Builds : n # gen => gens'[n] = gens[n]
        BY <1>0, <2>1, <3>2 DEF CacheTyped
      <4> QED
        BY <3>2, <4>1
    <3> QED
      BY <1>12, <3>1, <3>2 DEF Show
  <2> HIDE DEF gen, e0
  <2>3. /\ DOMAIN shown' = Readers /\ \A q \in Readers : DOMAIN shown'[q] = Blocks
        /\ shown'[r][b] = Hover(e.result, linker)
        /\ \A q \in Readers, c \in Blocks : <<q, c>> # <<r, b>> => shown'[q][c] = shown[q][c]
    BY <1>0, <2>2 DEF ShownShape
  <2>4. ShownShape' /\ KeysServed' /\ AllRouted' /\ FirstFresh'
    BY <1>12, <1>0, <2>3 DEF ShownShape, KeysServed, AllRouted, FirstFresh, OptionsOf
  <2>5. ASSUME first, NEW q \in Readers, NEW c \in Blocks, shown'[q][c] # None
        PROVE  \E f \in gens'[build].entries : f.result = shown'[q][c].result
    <3>1. build \in Builds /\ gen = build
      BY <1>12, <1>0, <2>5 DEF FirstFresh, Serving, gen
    <3>2. CASE <<q, c>> = <<r, b>>
      BY <2>2, <2>3, <3>1, <3>2 DEF Hover
    <3>3. CASE <<q, c>> # <<r, b>>
      <4>1. PICK f \in gens[build].entries : f.result = shown[q][c].result
        BY <1>12, <1>0, <2>3, <2>5, <3>3 DEF ShownKept
      <4> QED
        BY <2>2, <2>3, <3>1, <3>3, <4>1
    <3> QED
      BY <3>2, <3>3
  <2> QED
    BY <1>12, <2>4, <2>5 DEF Kept, ShownKept, BuildStages
<1>13. ASSUME NEW a \in Names, NEW b \in Blocks, RenderExample(a, b) PROVE Kept'
  <2> DEFINE entry == routed[MountedScope(a)]
  <2>1. Example(a) \in Readers /\ Render(Example(a), b, entry.key, entry.linker)
    BY <1>13 DEF RenderExample, Readers
  <2>2. entry.key \in Options /\ envs[entry.key] # None
    BY <2>1, <1>0, ScopeTypes DEF Render, AllRouted, KeysServed
  <2> QED
    BY <2>1, <2>2, <1>12 DEF Render
<1>14. ASSUME NEW s \in Authored, NEW b \in Blocks, RenderFence(s, b) PROVE Kept'
  <2>1. Fence(s) \in Readers /\ Render(Fence(s), b, KeyFor(s), LinkerFor(s))
    BY <1>14 DEF RenderFence, Readers
  <2>2. KeyFor(s) \in Options /\ envs[KeyFor(s)] # None
    BY <2>1, <1>0 DEF Render, KeyFor, KeysServed, Serving, WideExists, CacheTyped
  <2> QED
    BY <2>1, <2>2, <1>12 DEF Render
<1>15. CASE AfterBuild
  BY <1>15, <1>0, RestingKept DEF AfterBuild, ShownShape
<1>16. CASE Crash
  BY <1>16, <1>0, RestingKept DEF Crash, Exit, ShownShape
<1>17. CASE UNCHANGED vars
  BY <1>17, <1>0 DEF vars, Kept, ShownShape, KeysServed, AllRouted, FirstFresh, ShownKept, OptionsOf
<1> QED
  BY <1>1, <1>2, <1>3, <1>4, <1>5, <1>7, <1>8, <1>9, <1>10, <1>11, <1>13, <1>14, <1>15, <1>16,
     <1>17 DEF Next

\* Both invariants hold together.
LEMMA KeptInvariant == Spec => [](IInv /\ Kept)
<1> QED
  BY InitInv, StepInv, InitKept, StepKept, PTL DEF Spec

\* Whatever faults and edits, a save replaces the results of one VFS and one
\* compiler only, and keeps there everything the build shows: a result found in
\* the cache is not lost because nothing had to be checked (persist, save).
THEOREM WorkIsSaved == Spec => SavedWork
<1>1. ASSUME IInv, Kept, [Next]_vars, store' # store
      PROVE  /\ \A h \in Hashes \ {EnvHash(decls, ts)} : store'[h] = store[h]
             /\ \A r \in Readers, b \in Blocks : shown[r][b] # None =>
                  \E e \in store'[EnvHash(decls, ts)] : e.result = shown[r][b].result
  <2> USE DEF sources, process, memory, links
  <2>1. AfterBuild
    BY <1>1 DEF Next, EditModel, EditTsconfig, StartProcess, BeginConfig, ResolveOptions, OpenCache,
                RegisterScope, EndRegistration, Generate, EndConfig, RenderExample, RenderFence,
                Render, Crash, vars
  <2>2. first /\ stage = "render" /\ store' = Persisted(gens[opened].entries)
    BY <1>1, <2>1 DEF AfterBuild
  <2>3. opened = build /\ gens[opened].hash = EnvHash(decls, ts) /\ EnvHash(decls, ts) \in Hashes
    BY <1>1, <2>2, HashType DEF IInv, Serving, CacheTyped
  <2>4. store' = [store EXCEPT ![EnvHash(decls, ts)] = gens[build].entries]
    BY <2>2, <2>3 DEF Persisted
  <2> QED
    BY <1>1, <2>2, <2>3, <2>4 DEF IInv, CacheTyped, Kept, ShownKept
<1>2. IInv /\ Kept /\ [Next]_vars
        => [store' # store =>
              /\ \A h \in Hashes \ {EnvHash(decls, ts)} : store'[h] = store[h]
              /\ \A r \in Readers, b \in Blocks : shown[r][b] # None =>
                   \E e \in store'[EnvHash(decls, ts)] : e.result = shown[r][b].result]_vars
  BY <1>1
<1> QED
  BY <1>2, KeptInvariant, PTL DEF Spec, SavedWork

--------------------------------------------------------------------------------
(* Type names link home when no two packages are mounted under one scope.       *)

LinksInv == IInv /\ Kept /\ Linked /\ Leading /\ BlockLinksRight

\* The linker of a scope is its package's, and that of any other scope is none.
LEMMA LinkerOf ==
  ASSUME Linked, NEW s
  PROVE  /\ \A a \in Names : s = MountedScope(a) /\ routed[s] # None => LinkerFor(s) = a
         /\ (\A a \in Names : s # MountedScope(a)) => LinkerFor(s) = None
BY ScopeTypes DEF Linked, LinkerFor

\* While scopes are kept apart every step links a page's type names to its own
\* package and leads the names in its docs to a package that documents them.
LEMMA StepLinked ==
  ASSUME MountedApart
  PROVE  LinksInv /\ [Next]_vars => (Linked /\ Leading /\ BlockLinksRight)'
<1> SUFFICES ASSUME LinksInv, [Next]_vars PROVE Linked' /\ Leading' /\ BlockLinksRight'
  OBVIOUS
<1> USE DEF sources, process, memory, links
<1> DEFINE Resting == UNCHANGED links /\ stage' \in {"off", "idle"}
           Cleared == routed' = NoScopes /\ typeRoutes' = NoRoutes /\ stage' \in {"idle", "resolve"}
           Waiting == /\ stage \in {"resolve", "open", "scopes"} /\ stage' \in {"open", "scopes"}
                      /\ UNCHANGED links
<1>0. ShownShape /\ AllRouted /\ ShownKept /\ Linked /\ Leading /\ BlockLinksRight
  BY DEF LinksInv, Kept
<1>1. CASE UNCHANGED <<links, decls, todo, stage, shown>>
  BY <1>1, <1>0 DEF Linked, Leading, BlockLinksRight, Documenting, DocLinksLead
<1>2. CASE Resting
  BY <1>2, <1>0 DEF Linked, Leading, BlockLinksRight
<1>3. CASE Cleared
  BY <1>3, ScopeTypes DEF Linked, Leading, BlockLinksRight, NoScopes, NoRoutes
<1>4. CASE Waiting
  BY <1>4, <1>0 DEF Linked, Leading, BlockLinksRight
<1>5. CASE EndRegistration
  <2>1. \A a \in Names : \E j \in DOMAIN todo' : todo'[j] = a
    BY <1>5 DEF EndRegistration, Names
  <2>2. \A w \in Words : typeRoutes'[w] = None /\ Documenting(w)' \subseteq Names
    BY <1>5, <1>0 DEF EndRegistration, Leading, NoRoutes, Documenting
  <2> QED
    BY <1>5, <1>0, <2>1, <2>2 DEF EndRegistration, Linked, Leading, BlockLinksRight
<1>6. ASSUME NEW i \in {1, 2}, Generate(i) PROVE Linked' /\ Leading' /\ BlockLinksRight'
  <2> DEFINE a == todo[i]
  <2>1. /\ stage = "generate" /\ stage' = "generate" /\ decls' = decls
        /\ i \in DOMAIN todo /\ a \in Names /\ todo' = RemoveAt(todo, i)
        /\ routed' = [routed EXCEPT ![MountedScope(a)] =
                        [key |-> KeyFor(MountedScope(a)), linker |-> a]]
        /\ typeRoutes' = [w \in Words |-> IF w \in Documents[decls][a] THEN a ELSE typeRoutes[w]]
    BY <1>6, <1>0 DEF Generate, ShownShape
  <2>2. \A j \in DOMAIN todo : todo[j] = a \/ \E m \in DOMAIN todo' : todo'[m] = todo[j]
    BY <1>0, <2>1, RemoveAtKeeps DEF ShownShape
  <2>3. a # None
    BY <2>1, ConstantsAssumption
  <2> HIDE DEF a
  <2>4. Linked'
    BY <1>0, <2>1, ScopeTypes DEF Linked, MountedApart, ShownShape
  <2>5. \A w \in Words : Documenting(w)' = Documenting(w)
    BY <2>1 DEF Documenting
  <2>6. Leading'
    <3>1. ASSUME NEW w \in Words
          PROVE  /\ typeRoutes'[w] \in {None} \cup Documenting(w)
                 /\ \A c \in Documenting(w) :
                      typeRoutes'[w] # None \/ \E j \in DOMAIN todo' : todo'[j] = c
      <4>1. CASE w \in Documents[decls][a]
        BY <2>1, <2>3, <4>1 DEF Documenting
      <4>2. CASE w \notin Documents[decls][a]
        <5>1. a \notin Documenting(w) /\ typeRoutes'[w] = typeRoutes[w]
          BY <2>1, <4>2 DEF Documenting
        <5>2. ASSUME NEW c \in Documenting(w), typeRoutes[w] = None
              PROVE  \E j \in DOMAIN todo' : todo'[j] = c
          BY <1>0, <2>1, <2>2, <5>1, <5>2 DEF Leading
        <5> QED
          BY <1>0, <2>1, <5>1, <5>2 DEF Leading
      <4> QED
        BY <4>1, <4>2
    <3>2. DOMAIN typeRoutes' = Words
      BY <2>1
    <3>3. \A w \in Words :
            /\ typeRoutes'[w] \in {None} \cup Documenting(w)'
            /\ \A c \in Documenting(w)' :
                 typeRoutes'[w] # None \/ \E j \in DOMAIN todo' : todo'[j] = c
      BY <2>5, <3>1, Zenon
    <3> QED
      BY <2>1, <3>2, <3>3, Zenon DEF Leading
  <2> QED
    BY <2>1, <2>4, <2>6 DEF BlockLinksRight
<1>7. CASE EndConfig /\ stage' = "render"
  <2>1. /\ stage = "generate" /\ todo = <<>> /\ UNCHANGED <<links, decls, shown>>
    BY <1>7 DEF EndConfig, Exit
  <2>2. Linked' /\ Leading'
    BY <1>0, <1>7, <2>1 DEF Linked, Leading, Documenting
  <2>3. \A r \in Readers, b \in Blocks : shown'[r][b] = None
    BY <1>0, <2>1 DEF ShownKept, BuildStages
  <2> QED
    BY <2>2, <2>3 DEF BlockLinksRight
\* The block that is rendered gets the routes of all packages; the others stay.
<1>8. ASSUME NEW r \in Readers, NEW c \in Blocks, NEW key, NEW linker,
             Render(r, c, key, linker),
             \A a \in Names : PageOf(r, a) => linker = a, Outside(r) => linker = None
      PROVE  Linked' /\ Leading' /\ BlockLinksRight'
  <2>1. stage = "render" /\ UNCHANGED <<decls, stage, links, todo>>
    BY <1>8 DEF Render
  <2>2. PICK result : shown' = [shown EXCEPT ![r][c] = Hover(result, linker)]
    <3>1. (\E o : Show(r, c, o, linker)) \/ ShowPlain(r, c, linker)
      BY <1>8, Zenon DEF Render
    <3>2. ASSUME NEW o, Show(r, c, o, linker)
          PROVE  \E result : shown' = [shown EXCEPT ![r][c] = Hover(result, linker)]
      BY <3>2, Zenon DEF Show
    <3>3. ShowPlain(r, c, linker)
            => \E result : shown' = [shown EXCEPT ![r][c] = Hover(result, linker)]
      BY Zenon DEF ShowPlain
    <3> QED
      BY <3>1, <3>2, <3>3
  <2>3. PICK hover : hover = Hover(result, linker)
    OBVIOUS
  <2>4. \A q \in Readers, d \in Blocks :
          shown'[q][d] = IF q = r /\ d = c THEN hover ELSE shown[q][d]
    BY <2>2, <2>3, <1>0 DEF ShownShape
  <2>5. hover.linker = linker /\ hover.docs = typeRoutes
    BY <2>3 DEF Hover
  <2>6. DocLinksLead(hover) /\ TypeNamesStayHome(r, hover)
    <3>1. \A w \in Words : typeRoutes[w] \in IF Documenting(w) = {} THEN {None} ELSE Documenting(w)
      BY <1>0, <2>1 DEF Leading
    <3> QED
      BY <1>8, <2>5, <3>1 DEF DocLinksLead, TypeNamesStayHome
  <2>7. Linked' /\ Leading' /\ \A h : DocLinksLead(h)' <=> DocLinksLead(h)
    BY <1>0, <2>1 DEF Linked, Leading, Documenting, DocLinksLead
  <2> QED
    BY <1>0, <2>1, <2>4, <2>6, <2>7 DEF BlockLinksRight
<1>9. ASSUME NEW a \in Names, NEW b \in Blocks, RenderExample(a, b)
      PROVE  Linked' /\ Leading' /\ BlockLinksRight'
  <2> DEFINE entry == routed[MountedScope(a)]
  <2>1. Example(a) \in Readers /\ Render(Example(a), b, entry.key, entry.linker)
    BY <1>9 DEF RenderExample, Readers
  <2>2. entry.linker = a
    BY <2>1, <1>0 DEF Render, AllRouted, Linked
  <2>3. ~Outside(Example(a)) /\ \A c \in Names : PageOf(Example(a), c) => c = a
    BY DEF Outside, PageOf, Example, Fence
  <2> QED
    BY <2>1, <2>2, <2>3, <1>8
<1>10. ASSUME NEW s \in Authored, NEW b \in Blocks, RenderFence(s, b)
       PROVE  Linked' /\ Leading' /\ BlockLinksRight'
  <2>1. Fence(s) \in Readers /\ Render(Fence(s), b, KeyFor(s), LinkerFor(s))
    BY <1>10 DEF RenderFence, Readers
  <2>2. \A a \in Names : PageOf(Fence(s), a) <=> s = MountedScope(a)
    BY DEF PageOf, Example, Fence
  <2>3. \A a \in Names : routed[MountedScope(a)] # None
    BY <2>1, <1>0 DEF Render, AllRouted
  <2> QED
    BY <2>1, <2>2, <2>3, <1>0, <1>8, LinkerOf DEF Outside
<1>11. CASE UNCHANGED vars
  BY <1>1, <1>11 DEF vars
<1>12. /\ \A d \in Decls : EditModel(d) => Resting
       /\ \A raw \in Raws, s \in Spellings \cup {Malformed} : EditTsconfig(raw, s) => Resting
       /\ AfterBuild \/ Crash => Resting
  BY DEF EditModel, EditTsconfig, AfterBuild, Crash, Exit
<1>13. (\E t \in Compilers, p \in BOOLEAN : StartProcess(t, p)) \/ BeginConfig => Cleared
  BY DEF StartProcess, BeginConfig
<1>14. ResolveOptions \/ OpenCache \/ RegisterScope => Resting \/ Waiting
  BY DEF ResolveOptions, OpenCache, RegisterScope, Exit
<1>15. EndConfig => Resting \/ stage' = "render"
  BY DEF EndConfig, Exit
<1> HIDE DEF Resting, Cleared, Waiting
<1> QED
  BY <1>2, <1>3, <1>4, <1>5, <1>6, <1>7, <1>9, <1>10, <1>11, <1>12, <1>13, <1>14, <1>15 DEF Next

\* In every build of every process, first or not, and in whichever order the
\* packages were generated: the type names of a block link into its own package's
\* pages, outside every package nowhere, and a {@link} in its docs to a name some
\* package documents leads to a package that documents it (VfsRegistry.register,
\* addTypeRoutes). No two packages may be mounted under one first segment.
THEOREM LinksLeadRight == ASSUME MountedApart PROVE Spec => []BlockLinksRight
<1>1. Init => Linked /\ Leading /\ BlockLinksRight
  BY ScopeTypes DEF Init, Linked, Leading, BlockLinksRight, NoScopes, NoRoutes
<1>2. (IInv /\ Kept) /\ (Linked /\ Leading /\ BlockLinksRight) /\ [Next]_vars
        => (Linked /\ Leading /\ BlockLinksRight)'
  BY StepLinked DEF LinksInv
<1> QED
  BY <1>1, <1>2, KeptInvariant, PTL DEF Spec

--------------------------------------------------------------------------------
(* Hovers are current in the first build of a process, when every package has a *)
(* first segment of its own.                                                    *)

\* Packages with first segments of their own find one scope, whichever way is taken.
LEMMA OneScope ==
  ASSUME Apart, NEW a \in Names
  PROVE  /\ MountedScope(a) = RegisteredScope(a)
         /\ \A c \in Names : RegisteredScope(c) = RegisteredScope(a) => c = a
<1>1. ASSUME NEW c \in Names
      PROVE  RegisteredScope(c) = Head(BaseRoute[c]) /\ BaseRoute[c] \in Seq(STRING)
  BY <1>1, ConstantsAssumption DEF Apart, RegisteredScope, ScopeOf
<1>2. Append(BaseRoute[a], Folder) # <<>> /\ Head(Append(BaseRoute[a], Folder)) = Head(BaseRoute[a])
  BY <1>1 DEF Apart
<1> QED
  BY <1>1, <1>2 DEF Apart, MountedScope, ScopeOf

HoverInv == IInv /\ Kept /\ Keyed /\ FirstHoversCurrent

\* The options a reader's blocks are to be checked under.
Wanted(r, o) ==
  /\ \A a \in Names : PageOf(r, a) => o = OptionsOf(Own(a))
  /\ Outside(r) => o = OptionsOf(BuildWide)

\* A result shown under some options is what checking under them gives.
LEMMA ShownIsChecked ==
  ASSUME IInv, NEW r, NEW b \in Blocks, NEW o \in Options, NEW linker, envs[o] # None,
         Show(r, b, o, linker)
  PROVE  \E hover : /\ hover.result = Check(b, o, envs[o].decls, ts)
                    /\ shown' = [shown EXCEPT ![r][b] = hover]
<1>1. envs[o] \in Environment /\ gens[envs[o].gen].hash = EnvHash(envs[o].decls, ts)
  BY DEF IInv, CacheTyped, EnvsMatch
<1>2. TrueOf(gens[envs[o].gen].entries, envs[o].decls, ts)
  BY <1>1 DEF IInv, GensTrue, CacheTyped, Environment
<1>3. ASSUME NEW e \in gens[envs[o].gen].entries, e.key = EntryKey(b, o)
      PROVE  e.result = Check(b, o, envs[o].decls, ts)
  <2>1. /\ e.result = Check(e.result.block, e.result.options, envs[o].decls, ts)
        /\ EntryKey(b, o) = EntryKey(e.result.block, e.result.options)
    BY <1>2, <1>3 DEF TrueOf
  <2>2. e.result.block = b /\ e.result.options = o
    BY <2>1 DEF EntryKey
  <2> QED
    BY <2>1, <2>2
<1>4. shown' = [shown EXCEPT ![r][b] = Hover(Check(b, o, envs[o].decls, ts), linker)]
  BY <1>3 DEF Show
<1>5. Hover(Check(b, o, envs[o].decls, ts), linker).result = Check(b, o, envs[o].decls, ts)
  BY DEF Hover
<1> QED
  BY <1>4, <1>5, Zenon

\* While first segments are apart every step shows a page its own declarations.
LEMMA StepHovers == ASSUME Apart PROVE HoverInv /\ [Next]_vars => (Keyed /\ FirstHoversCurrent)'
<1> SUFFICES ASSUME HoverInv, [Next]_vars PROVE Keyed' /\ FirstHoversCurrent'
  OBVIOUS
<1> USE DEF sources, process, memory, links
<1>0. /\ CacheTyped /\ WideExists /\ Serving /\ ShownShape /\ KeysServed /\ AllRouted
      /\ FirstFresh /\ ShownKept /\ Keyed /\ FirstHoversCurrent
  BY DEF HoverInv, IInv, Kept
<1>a. ASSUME tsconfig' = tsconfig
      PROVE  /\ \A a \in Names : OptionsOf(Own(a))' = OptionsOf(Own(a))
             /\ OptionsOf(BuildWide)' = OptionsOf(BuildWide)
  BY <1>a DEF OptionsOf
<1>1. CASE stage' \notin {"scopes", "generate", "render"}
  BY <1>1 DEF Keyed, FirstHoversCurrent, HoversCurrent
<1>2. CASE OpenCache
  <2>1. \A a \in Names : \E j \in DOMAIN todo' : todo'[j] = a
    BY <1>2 DEF OpenCache, Names
  <2> QED
    BY <1>2, <2>1 DEF OpenCache, Keyed, FirstHoversCurrent, HoversCurrent
<1>3. CASE RegisterScope /\ stage' = "scopes"
  <2> DEFINE a   == Head(todo)
             raw == IF RawConfig[a] = None THEN BuildWide ELSE RawConfig[a]
  <2>1. /\ stage = "scopes" /\ todo # <<>> /\ todo' = Tail(todo) /\ tsconfig' = tsconfig
        /\ scopeKey' = [scopeKey EXCEPT ![RegisteredScope(a)] = OptionsOf(raw)] /\ Parses(raw)
    BY <1>3 DEF RegisterScope, Exit
  <2>2. /\ a \in Names
        /\ \A j \in DOMAIN todo : todo[j] = a \/ \E k \in DOMAIN todo' : todo'[k] = todo[j]
    BY <1>0, <2>1, TailKeeps DEF ShownShape
  <2>3. raw = Own(a) /\ OptionsOf(raw) \in Options
    <3>1. raw = Own(a)
      BY <2>2 DEF Own
    <3> HIDE DEF a, raw
    <3> QED
      BY <1>0, <2>1, <2>2, <3>1, OwnType, OptionsType
  <2> HIDE DEF a, raw
  <2>4. \A c \in Names :
          RegisteredScope(c) \in Scopes /\ (RegisteredScope(c) = RegisteredScope(a) => c = a)
    BY <2>2, OneScope, ScopeTypes
  <2>5. ASSUME NEW c \in Names PROVE (\E j \in DOMAIN todo' : todo'[j] = c) \/ KeyIsOwn(c)'
    <3>1. CASE c = a
      BY <1>0, <1>a, <2>1, <2>2, <2>3, <2>4, <3>1 DEF KeyIsOwn, ShownShape
    <3>2. CASE c # a
      <4>1. KeyIsOwn(c)' = KeyIsOwn(c)
        BY <1>0, <1>a, <2>1, <2>4, <3>2 DEF KeyIsOwn, ShownShape
      <4> QED
        BY <1>0, <2>1, <2>2, <3>2, <4>1 DEF Keyed
    <3> QED
      BY <3>1, <3>2
  <2> QED
    BY <1>3, <2>5 DEF Keyed, FirstHoversCurrent, HoversCurrent
<1>4. CASE EndRegistration
  <2>1. /\ todo = <<>> /\ stage = "scopes" /\ stage' = "generate"
        /\ UNCHANGED <<tsconfig, scopeKey, routed>>
    BY <1>4 DEF EndRegistration
  <2>2. \A a \in Names : KeyIsOwn(a)
    BY <1>0, <2>1 DEF Keyed
  <2>3. \A a \in Names : KeyIsOwn(a)'
    BY <1>a, <2>1, <2>2 DEF KeyIsOwn
  <2>4. \A a \in Names : routed[MountedScope(a)] = None
    BY <1>0, <2>1 DEF AllRouted
  <2> QED
    BY <2>1, <2>3, <2>4 DEF Keyed, FirstHoversCurrent, HoversCurrent
\* A package's pages get the key registered for its own scope.
<1>5. ASSUME NEW i \in {1, 2}, Generate(i) PROVE Keyed' /\ FirstHoversCurrent'
  <2> DEFINE a == todo[i]
             k == KeyFor(MountedScope(a))
  <2>1. /\ stage = "generate" /\ stage' = "generate" /\ a \in Names
        /\ routed' = [routed EXCEPT ![MountedScope(a)] = [key |-> k, linker |-> a]]
        /\ UNCHANGED <<tsconfig, scopeKey>>
    BY <1>5, <1>0 DEF Generate, ShownShape
  <2>2. k = OptionsOf(Own(a))
    <3>1. KeyIsOwn(a) /\ MountedScope(a) = RegisteredScope(a) /\ MountedScope(a) \in Scopes
      BY <1>0, <2>1, OneScope, ScopeTypes DEF Keyed
    <3> QED
      BY <3>1, ConstantsAssumption DEF KeyIsOwn, KeyFor
  <2> HIDE DEF a, k
  <2>3. ASSUME NEW c \in Names
        PROVE  KeyIsOwn(c)' /\ (routed'[MountedScope(c)] # None
                                  => routed'[MountedScope(c)].key = OptionsOf(Own(c))')
    <3>1. KeyIsOwn(c) /\ (routed[MountedScope(c)] # None
                            => routed[MountedScope(c)].key = OptionsOf(Own(c)))
      BY <1>0, <2>1 DEF Keyed
    <3>2. OptionsOf(Own(c))' = OptionsOf(Own(c))
      BY <1>a, <2>1
    <3>3. MountedScope(c) \in Scopes /\ (MountedScope(c) = MountedScope(a) => c = a)
      BY <2>1, OneScope, ScopeTypes
    <3>4. KeyIsOwn(c)'
      BY <2>1, <3>1, <3>2 DEF KeyIsOwn
    <3> QED
      BY <1>0, <2>1, <2>2, <3>1, <3>2, <3>3, <3>4 DEF ShownShape
  <2> QED
    BY <2>1, <2>3 DEF Keyed, FirstHoversCurrent, HoversCurrent
<1>6. CASE EndConfig /\ stage' = "render"
  <2>1. /\ stage = "generate" /\ shown' = shown /\ UNCHANGED <<tsconfig, scopeKey, routed>>
    BY <1>6 DEF EndConfig, Exit
  <2>2. \A r \in Readers, b \in Blocks : shown'[r][b] = None
    BY <1>0, <2>1 DEF ShownKept, BuildStages
  <2>3. Keyed'
    <3>1. \A c \in Names : /\ KeyIsOwn(c)' = KeyIsOwn(c)
                           /\ OptionsOf(Own(c))' = OptionsOf(Own(c))
      BY <1>a, <2>1 DEF KeyIsOwn
    <3> QED
      BY <1>0, <1>6, <2>1, <3>1 DEF Keyed
  <2> QED
    BY <2>2, <2>3 DEF FirstHoversCurrent, HoversCurrent
\* The block that is rendered shows its own options; the others stay.
<1>7. ASSUME NEW r \in Readers, NEW c \in Blocks, NEW o \in Options, NEW linker,
             envs[o] # None, first => Wanted(r, o), Render(r, c, o, linker)
      PROVE  Keyed' /\ FirstHoversCurrent'
  <2>0. /\ stage = "render" /\ Show(r, c, o, linker)
        /\ UNCHANGED <<sources, stage, process, build, scopeKey, routed, todo>>
    BY <1>7 DEF Render
  <2>1. /\ \A a \in Names : OptionsOf(Own(a))' = OptionsOf(Own(a))
        /\ OptionsOf(BuildWide)' = OptionsOf(BuildWide)
    BY <1>a, <2>0
  <2>2. Keyed'
    <3>1. \A d \in Names : KeyIsOwn(d)' = KeyIsOwn(d)
      BY <2>0, <2>1 DEF KeyIsOwn
    <3> QED
      BY <1>0, <2>0, <2>1, <3>1 DEF Keyed
  <2>3. CASE first
    <3>1. PICK hover : /\ hover.result = Check(c, o, envs[o].decls, ts)
                       /\ shown' = [shown EXCEPT ![r][c] = hover]
      BY <1>7, <2>0, ShownIsChecked DEF HoverInv
    <3>3. \A q \in Readers, d \in Blocks :
            shown'[q][d] = IF q = r /\ d = c THEN hover ELSE shown[q][d]
      BY <1>0, <3>1 DEF ShownShape
    <3>4. hover.result = Check(c, o, decls, ts)
      BY <1>0, <1>7, <2>0, <2>3, <3>1 DEF FirstFresh
    <3>5. ASSUME NEW q \in Readers, NEW d \in Blocks, shown'[q][d] # None
          PROVE  /\ \A a \in Names :
                      PageOf(q, a) => shown'[q][d].result = Check(d, OptionsOf(Own(a)), decls, ts)
                 /\ Outside(q) => shown'[q][d].result = Check(d, OptionsOf(BuildWide), decls, ts)
      <4>1. CASE q = r /\ d = c
        BY <1>7, <2>3, <3>3, <3>4, <4>1 DEF Wanted
      <4>2. CASE ~(q = r /\ d = c)
        BY <1>0, <2>0, <2>3, <3>3, <3>5, <4>2 DEF FirstHoversCurrent, HoversCurrent
      <4> QED
        BY <4>1, <4>2
    <3>6. /\ \A a \in Names, d \in Blocks :
                Check(d, OptionsOf(Own(a)), decls, ts)' = Check(d, OptionsOf(Own(a)), decls, ts)
          /\ \A d \in Blocks :
                Check(d, OptionsOf(BuildWide), decls, ts)' = Check(d, OptionsOf(BuildWide), decls, ts)
      BY <2>0, <2>1 DEF Check
    <3>7. HoversCurrent'
      BY <3>5, <3>6 DEF HoversCurrent
    <3> QED
      BY <2>2, <3>7 DEF FirstHoversCurrent
  <2>4. CASE ~first
    BY <2>0, <2>2, <2>4 DEF FirstHoversCurrent
  <2> QED
    BY <2>3, <2>4
<1>8. ASSUME NEW a \in Names, NEW b \in Blocks, RenderExample(a, b)
      PROVE  Keyed' /\ FirstHoversCurrent'
  <2> DEFINE entry == routed[MountedScope(a)]
  <2>1. Example(a) \in Readers /\ Render(Example(a), b, entry.key, entry.linker)
    BY <1>8 DEF RenderExample, Readers
  <2>2. stage = "render" /\ entry # None /\ MountedScope(a) \in Scopes
    BY <2>1, <1>0, ScopeTypes DEF Render, AllRouted
  <2>3. /\ entry.key = OptionsOf(Own(a))
        /\ entry.key \in Options /\ envs[entry.key] # None
    BY <1>0, <2>2 DEF Keyed, KeysServed
  <2>4. Wanted(Example(a), entry.key)
    BY <2>3 DEF Wanted, PageOf, Outside, Example, Fence
  <2> QED
    BY <1>7, <2>1, <2>3, <2>4
\* A fence is checked under the options of the package mounted at its scope, and
\* at any other scope under the build-wide ones.
<1>9. ASSUME NEW s \in Authored, NEW b \in Blocks, RenderFence(s, b)
      PROVE  Keyed' /\ FirstHoversCurrent'
  <2>1. Fence(s) \in Readers /\ Render(Fence(s), b, KeyFor(s), LinkerFor(s)) /\ stage = "render"
    BY <1>9 DEF RenderFence, Render, Readers
  <2>2. KeyFor(s) \in Options /\ envs[KeyFor(s)] # None
    BY <2>1, <1>0 DEF KeyFor, KeysServed, Serving, WideExists, CacheTyped
  <2>3. \A a \in Names : PageOf(Fence(s), a) <=> s = MountedScope(a)
    BY DEF PageOf, Example, Fence
  <2>4. ASSUME NEW a \in Names, s = MountedScope(a) PROVE KeyFor(s) = OptionsOf(Own(a))
    <3>1. KeyIsOwn(a) /\ s = RegisteredScope(a) /\ s \in Scopes
      BY <1>0, <2>1, <2>4, OneScope, ScopeTypes DEF Keyed
    <3> QED
      BY <3>1, ConstantsAssumption DEF KeyIsOwn, KeyFor
  <2>5. ASSUME first, \A a \in Names : s # MountedScope(a)
        PROVE  KeyFor(s) = OptionsOf(BuildWide)
    <3>1. s \notin Scopes
      BY <2>5, OneScope DEF Scopes
    <3> QED
      BY <1>0, <2>1, <2>5, <3>1 DEF KeyFor, FirstFresh
  <2>6. first => Wanted(Fence(s), KeyFor(s))
    BY <2>3, <2>4, <2>5 DEF Wanted, Outside
  <2> QED
    BY <1>7, <2>1, <2>2, <2>6
<1>10. CASE UNCHANGED vars
  <2>1. /\ \A a \in Names : OptionsOf(Own(a))' = OptionsOf(Own(a)) /\ KeyIsOwn(a)' = KeyIsOwn(a)
        /\ OptionsOf(BuildWide)' = OptionsOf(BuildWide)
    BY <1>10, <1>a DEF vars, KeyIsOwn
  <2>2. Keyed'
    BY <1>10, <1>0, <2>1 DEF vars, Keyed
  <2>3. /\ \A a \in Names, d \in Blocks :
              Check(d, OptionsOf(Own(a)), decls, ts)' = Check(d, OptionsOf(Own(a)), decls, ts)
        /\ \A d \in Blocks :
              Check(d, OptionsOf(BuildWide), decls, ts)' = Check(d, OptionsOf(BuildWide), decls, ts)
    BY <1>10, <2>1 DEF vars, Check
  <2>4. FirstHoversCurrent'
    BY <1>10, <1>0, <2>3 DEF vars, FirstHoversCurrent, HoversCurrent
  <2> QED
    BY <2>2, <2>4
<1>11. ASSUME NEW d \in Decls, EditModel(d) PROVE stage' \notin {"scopes", "generate", "render"}
  BY <1>11 DEF EditModel
<1>12. ASSUME NEW raw \in Raws, NEW s \in Spellings \cup {Malformed}, EditTsconfig(raw, s)
       PROVE  stage' \notin {"scopes", "generate", "render"}
  BY <1>12 DEF EditTsconfig
<1>13. (\E t \in Compilers, p \in BOOLEAN : StartProcess(t, p))
         => stage' \notin {"scopes", "generate", "render"}
  BY DEF StartProcess
<1>14. BeginConfig \/ ResolveOptions \/ AfterBuild \/ Crash
         => stage' \notin {"scopes", "generate", "render"}
  BY DEF BeginConfig, ResolveOptions, AfterBuild, Crash, Exit
<1>15. /\ RegisterScope => stage' \in {"scopes", "off"}
       /\ EndConfig => stage' \in {"render", "off"}
  BY DEF RegisterScope, EndConfig, Exit
<1> QED
  BY <1>1, <1>2, <1>3, <1>4, <1>5, <1>6, <1>8, <1>9, <1>10, <1>11, <1>12, <1>13, <1>14, <1>15
     DEF Next

\* In the first build of a process every block shows what its own package's
\* options say about this build's declarations, whatever builds, edits and
\* crashes filled the cache, and a page of no package what the build-wide
\* options say (registerScope, transformerFor). Every package must have a first
\* route segment of its own: a package at the site root is registered under its
\* name and looked up under the apiFolder.
THEOREM FirstHoversAreCurrent == ASSUME Apart PROVE Spec => []FirstHoversCurrent
<1>1. Init => Keyed /\ FirstHoversCurrent
  BY DEF Init, Keyed, FirstHoversCurrent, HoversCurrent
<1>2. (IInv /\ Kept) /\ (Keyed /\ FirstHoversCurrent) /\ [Next]_vars
        => (Keyed /\ FirstHoversCurrent)'
  BY StepHovers DEF HoverInv
<1> QED
  BY <1>1, <1>2, KeptInvariant, PTL DEF Spec
================================================================================
