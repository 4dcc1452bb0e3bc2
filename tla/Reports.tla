-------------------------------- MODULE Reports --------------------------------
(***************************************************************************)
(* What a build says about itself: an event is handed to every sink that   *)
(* admits its level, and the artifacts are made from what the sinks hold.  *)
(* Sinks are [issues, metrics, byFile, slowest]; an event has a tag, a     *)
(* level and the facts of its tag.  A metric is a number per name and      *)
(* attributes, Untagged for the series without any.                            *)
(***************************************************************************)
EXTENDS Naturals, Sequences, SequencesExt, FiniteSetsExt

CONSTANTS
  SlowestLimit,  \* SLOWEST_LIMIT: samples the render report keeps
  SlowMs         \* a block that takes longer is slow

ASSUME SlowestAssumption == SlowestLimit \in Nat \ {0}

Untagged == <<>>

Silent == [issues |-> {}, metrics |-> <<>>, byFile |-> <<>>, slowest |-> <<>>]

Read(series, key) == IF key \in DOMAIN series THEN series[key] ELSE 0

\* Mutation of Admits: a sink is not given the events of its own level.
AdmitsBelow(minLevel, level) ==
  LET rank(l) == CHOOSE n \in 1 .. 5 : <<"error", "warn", "info", "debug", "trace">>[n] = l
  IN rank(level) < rank(minLevel)

\* LEVEL_RANK, as EventBus.emit compares it.
Admits(minLevel, level) ==
  LET rank(l) == CHOOSE n \in 1 .. 5 : <<"error", "warn", "info", "debug", "trace">>[n] = l
  IN rank(level) <= rank(minLevel)

\* eventToIssue: the bucket of an issue.  A page that cannot be formatted or
\* highlighted is not named.
Warnings == {"TwoslashDiagnostic", "TwoslashCheckFailed", "PrettierError", "ShikiError",
             "ConfigValidationWarning"}
Errors   == {"RouteCollisionDetected", "ModelLoadFailed", "BuildFailed"}
Issues(e) ==
  IF e.tag \notin Warnings \cup Errors THEN {}
  ELSE {[tag |-> e.tag, bucket |-> IF e.tag \in Errors THEN "errors" ELSE "warnings",
         file |-> e.file, block |-> e.block]}

Fields == {"blocks", "twoslashBlocks", "slowBlocks", "totalMs", "twoslashMs", "shikiMs"}

\* What one block adds to each field; what it adds nothing to is not touched.
Measured(e) ==
  [f \in Fields \ ((IF e.twoslash THEN {} ELSE {"twoslashBlocks"})
                     \cup (IF e.totalMs > SlowMs THEN {} ELSE {"slowBlocks"})) |->
     CASE f = "totalMs" -> e.totalMs [] f = "twoslashMs" -> e.twoslashMs
       [] f = "shikiMs" -> e.shikiMs [] OTHER -> 1]

Twice(metric, attributes) == {<<metric, Untagged>>, <<metric, attributes>>}
Once(keys) == [key \in keys |-> 1]

\* The metrics sink: what an event adds to which series.
Increments(e) ==
  CASE e.tag = "CodeBlockProcessed" ->
         [key \in (DOMAIN Measured(e)) \X {Untagged, <<e.scope, e.component, e.twoslash>>} |-> Measured(e)[key[1]]]
    [] e.tag = "TwoslashDiagnostic" ->
         Once(Twice("twoslash.diagnostics", <<e.scope>>) \cup {<<"twoslash.errors", Untagged>>})
    [] e.tag = "PrettierError"    -> Once(Twice("prettier.errors", <<e.scope>>))
    [] e.tag = "ShikiError"       -> Once(Twice("shiki.errors", <<e.scope>>))
    [] e.tag = "ImportsPrepended" -> Once({<<"imports", Untagged>>})
    [] e.tag = "VfsGenerated"     -> Once({<<"vfs.files", Untagged>>})
    [] OTHER -> <<>>
Counted(metrics, e) ==
  LET more == Increments(e)
  IN [key \in DOMAIN metrics \cup DOMAIN more |-> Read(metrics, key) + Read(more, key)]

\* The render sink: totals of each page ...
Tallied(byFile, e) ==
  [file \in DOMAIN byFile \cup {e.file} |->
     LET old == IF file \in DOMAIN byFile THEN byFile[file]
                ELSE [blocks |-> 0, twoslashBlocks |-> 0, totalMs |-> 0, twoslashMs |-> 0]
     IN IF file # e.file THEN old ELSE [f \in DOMAIN old |-> old[f] + Read(Measured(e), f)]]

Cut(list) == SubSeq(list, 1, IF Len(list) > SlowestLimit THEN SlowestLimit ELSE Len(list))
Place(list, e) ==
  LET slower == {n \in DOMAIN list : list[n].totalMs < e.totalMs}
  IN IF slower = {} THEN Len(list) + 1 ELSE Min(slower)

\* Mutation of Sampled: a full report only takes what beats its first sample.
SampledAgainstFirst(list, e) ==
  IF Len(list) < SlowestLimit \/ e.totalMs > Head(list).totalMs
  THEN Cut(InsertAt(list, Place(list, e), [block |-> e.block, totalMs |-> e.totalMs]))
  ELSE list

\* ... and the slowest blocks: a sample goes before the first one that took
\* less time.
Sampled(list, e) ==
  IF Len(list) < SlowestLimit \/ e.totalMs > Last(list).totalMs
  THEN Cut(InsertAt(list, Place(list, e), [block |-> e.block, totalMs |-> e.totalMs]))
  ELSE list

\* EventBus.emit: all sinks but the console admit everything.
Emit(sinks, e) ==
  IF ~Admits("trace", e.level) THEN sinks
  ELSE LET measured == e.tag = "CodeBlockProcessed" IN
       [issues  |-> sinks.issues \cup Issues(e),
        metrics |-> Counted(sinks.metrics, e),
        byFile  |-> IF measured THEN Tallied(sinks.byFile, e) ELSE sinks.byFile,
        slowest |-> IF measured THEN Sampled(sinks.slowest, e) ELSE sinks.slowest]
EmitAll(sinks, events) == FoldLeft(Emit, sinks, events)

--------------------------------------------------------------------------------
\* codeBlockReportFrom: only series with attributes count, and every total is a
\* sum of them.
Bucket(metrics, S) ==
  LET sum == [f \in Fields |-> MapThenSumSet(LAMBDA s : Read(metrics, <<f, s>>), S)]
      known == sum["twoslashMs"] + sum["shikiMs"]
  IN [f \in Fields \cup {"otherMs"} |->
        IF f # "otherMs" THEN sum[f]
        ELSE IF sum["totalMs"] > known THEN sum["totalMs"] - known ELSE 0]
Report(metrics) ==
  LET series == {key[2] : key \in {k \in DOMAIN metrics : k[1] \in Fields /\ k[2] # Untagged}}
      group(n) == [v \in {s[n] : s \in series} |-> Bucket(metrics, {s \in series : s[n] = v})]
  IN [overall |-> Bucket(metrics, series), byScope |-> group(1), byComponent |-> group(2)]

\* logBuildSummary reads the series without attributes.
Summary(metrics) ==
  [m \in Fields \cup {"twoslash.errors", "prettier.errors"} |-> Read(metrics, <<m, Untagged>>)]

\* The files under .api-docs/build; without a block there is no render report.
Artifacts(sinks) ==
  [issues  |-> sinks.issues,
   summary |-> Summary(sinks.metrics),
   render  |-> IF Report(sinks.metrics).overall["blocks"] = 0 THEN <<>>
               ELSE [report |-> Report(sinks.metrics), byFile |-> sinks.byFile, slowest |-> sinks.slowest]]
================================================================================
