---------------------------- MODULE CompilerConfig ----------------------------
(* The compiler options examples are checked under, and the declarations they  *)
(* are checked against. Every documented package may name a tsconfig (a path or *)
(* a function) and options of its own; each is registered under the scope of    *)
(* its package, over the defaults and over nothing of another package, and what *)
(* has no scope is checked under options put together for the whole build.      *)
EXTENDS Bundles

CONSTANTS
  Spelled,   \* Spelled[s]: the value a spelling of an option stands for; Absent for an empty list
  Entries,   \* Entries[package]: its declaration files
  ExportKey  \* ExportKey[file]: the file's name without its extension

-----------------------------------------------------------------------------
(* Options: a function from the options that are given to their values. *)

Whitelist ==
  {"target", "module", "moduleResolution", "jsx", "lib", "types", "typeRoots", "strict",
   "skipLibCheck", "esModuleInterop", "allowSyntheticDefaultImports"}
Defaults ==
  [target |-> "esnext", module |-> "esnext", moduleResolution |-> "bundler", lib |-> "esnext, dom",
   strict |-> "false", skipLibCheck |-> "true", esModuleInterop |-> "true",
   allowSyntheticDefaultImports |-> "true"]

\* A spelling that stands for nothing fails the input, wherever it is in it;
\* an option that is not on the list, and an empty list, are dropped.
Decode(input) ==
  IF input = Broken \/ \E k \in DOMAIN input : input[k] \notin DOMAIN Spelled THEN Broken
  ELSE [k \in {k \in DOMAIN input \cap Whitelist : Spelled[input[k]] # Absent} |-> Spelled[input[k]]]

\* Lists are replaced and not joined.
Overlay(base, over) ==
  IF Broken \in {base, over} THEN Broken
  ELSE [k \in DOMAIN base \cup DOMAIN over |-> IF k \in DOMAIN over THEN over[k] ELSE base[k]]

\* A function answers; a file must be there, and parse with all it extends.
Holds(files, tsconfig) ==
  IF tsconfig = Absent THEN Nothing
  ELSE IF tsconfig.form = "function" THEN tsconfig.returns
  ELSE IF tsconfig.name \in DOMAIN files THEN files[tsconfig.name]
  ELSE Broken

\* What one level of configuration says: its own options over its tsconfig's.
Single(files, config) ==
  IF config = Absent THEN Nothing
  ELSE Overlay(Decode(Holds(files, config.tsconfig)),
               IF config.options = Absent THEN Nothing ELSE Decode(config.options))
\* A global level and one of a package's own, either of which may be absent.
ResolveOptions(files, global, own) ==
  FoldLeft(LAMBDA options, config : Overlay(options, Single(files, config)), Defaults, <<global, own>>)

-----------------------------------------------------------------------------
(* Scopes. `apis` are records with the scope, tsconfig and options of each.    *)

Config(tsconfig, options) ==
  IF tsconfig = Absent /\ options = Absent THEN Absent ELSE [tsconfig |-> tsconfig, options |-> options]

\* The first tsconfig and the first options that some package names, be they of
\* two packages.
BuildWide(files, apis) ==
  ResolveOptions(files, Config(FirstOf([n \in DOMAIN apis |-> apis[n].tsconfig]),
                               FirstOf([n \in DOMAIN apis |-> apis[n].options])), Absent)

\* The raw configuration of each scope: the last package of the scope's.
ScopeConfigs(apis) ==
  [s \in {apis[n].scope : n \in DOMAIN apis} |->
     LET last == CHOOSE n \in DOMAIN apis : apis[n].scope = s /\ \A k \in DOMAIN apis : apis[k].scope = s => k <= n
     IN Config(apis[last].tsconfig, apis[last].options)]

\* Mutation of RawKey: what was resolved is looked up by the tsconfig alone.
RawKeyOfFile(config) == IF config.tsconfig = Absent THEN <<>> ELSE config.tsconfig.name
\* A configuration is resolved once: a path is known by its name and a function
\* by its text.
RawKey(config) == <<IF config.tsconfig = Absent THEN <<>> ELSE config.tsconfig.name, config.options>>

Put(f, key, value) == [k \in DOMAIN f \cup {key} |-> IF k = key THEN value ELSE f[k]]

\* The options of the whole build come first; a scope without any has those.
\* What is resolved stands for every later scope with the same key.
Register(files, apis) ==
  LET raw     == ScopeConfigs(apis)
      names   == [n \in DOMAIN apis |-> apis[n].scope]
      firsts  == SelectSeq([n \in DOMAIN apis |-> n], LAMBDA n : \A k \in 1 .. n - 1 : names[k] # names[n])
      wide    == BuildWide(files, apis)
      add(so, n) ==
        LET config  == raw[names[n]]
            key     == IF config = Absent THEN Absent ELSE RawKey(config)
            options == IF config = Absent THEN wide
                       ELSE IF key \in DOMAIN so.memo THEN so.memo[key]
                       ELSE ResolveOptions(files, config, Absent)
        IN [memo   |-> IF config = Absent THEN so.memo ELSE Put(so.memo, key, options),
            scopes |-> Put(so.scopes, names[n], options),
            environments |-> so.environments \cup {options}]
  IN FoldLeft(add, [memo |-> Nothing, scopes |-> Nothing, environments |-> {wide}], firsts)

\* A malformed configuration stops the build.
ConfigFails(files, apis) == Broken \in Register(files, apis).environments

-----------------------------------------------------------------------------
(* A package's declarations, and the manifest that leads to them. *)

\* A package without files, with one that replaces the manifest, or with two
\* that answer to one export, is not made.
Unmade(pkg) ==
  \/ Entries[pkg] = <<>> \/ "package.json" \in ToSet(Entries[pkg])
  \/ \E f, g \in ToSet(Entries[pkg]) : f # g /\ ExportKey[f] = ExportKey[g]

\* One file is the package's types; of several each has an export.
ManifestOf(pkg) ==
  IF Len(Entries[pkg]) = 1 THEN [e \in {"."} |-> Entries[pkg][1]]
  ELSE [e \in {ExportKey[f] : f \in ToSet(Entries[pkg])} |-> CHOOSE f \in ToSet(Entries[pkg]) : ExportKey[f] = e]
ToVfs(pkg) == {<<pkg, f>> : f \in ToSet(Entries[pkg]) \cup {"package.json"}}
=============================================================================
