------------------------------ MODULE CodeBlocks ------------------------------
(***************************************************************************)
(* The code blocks of API pages: the source a block is given, the lines of *)
(* it a reader sees, and the links laid over its words.                    *)
(*                                                                         *)
(* A line is [part, words, opens, closes, declares]: what it is, its       *)
(* words, how many braces it opens and closes, and the class it begins, if *)
(* any.  A word is [text, span, tip]: "own" when it is a span by itself,   *)
(* "shared" when it stands among others, "hover" when the type checker     *)
(* wrapped it, tip then being the member its tooltip names.                *)
(***************************************************************************)
EXTENDS Declarations

CONSTANT None   \* no class begins here, no tooltip, no link

Word(text) == [text |-> text, span |-> "own", tip |-> None]
Line(part, words) ==
  [part |-> part, words |-> words, opens |-> 0, closes |-> 0, declares |-> None]

\* containerDeclaration and the brace that ends it.
Opening(item) == [Line("opening", <<Word(item.name)>>) EXCEPT !.opens = 1, !.declares = item.name]
Closing       == [Line("closing", <<>>) EXCEPT !.closes = 1]

\* prependHiddenImports: import lines, then a cut, if there is anything to import.
HiddenImports(scope) ==
  LET imports == Imports(Extract(<<>>, Refs(scope))) IN
  IF imports = {} THEN <<>>
  ELSE Append([n \in 1 .. Cardinality(imports) |-> Line("import", <<>>)], Line("cut", <<>>))

\* containerSkeleton, memberContext, or the excerpt of what has no members.  The
\* members of a container are those its page shows, by their groups; an enum has
\* no references, and the lines of a namespace are what is left of its members'.
Skeleton(item) ==
  IF item.kind \in {"Class", "Interface"}
  THEN <<Opening(item)>> \o FlattenSeq([m \in DOMAIN item.members |-> item.members[m].lines]) \o <<Closing>>
  ELSE item.lines
SignatureSource(item)    == HiddenImports(item) \o Skeleton(item)
MemberSource(item, member) == HiddenImports(member) \o <<Opening(item)>> \o member.lines \o <<Closing>>

--------------------------------------------------------------------------------
(* Examples.  Their lines are code, the imports and returns among it, comments, *)
(* blank lines, and Twoslash's directives, its cuts among them.                 *)

Cutting   == {"cut-before", "cut-after", "cut-start", "cut-end"}
Directive == {"directive"} \cup Cutting
Shown     == {"code", "import", "return", "comment"}

\* prepareExampleCode: the item is imported unless the example imports from the
\* package, and errors are suppressed if so asked.
Prepared(x, suppress) ==
  (IF suppress THEN <<Line("directive", <<>>)>> ELSE <<>>)
    \o (IF x.imports THEN <<>> ELSE <<Line("import", <<>>)>>) \o x.lines

\* addLogicalBlankLines: how many lines go between two.
Gap(prev, line) ==
  IF prev = "blank" \/ line = "import" THEN 0
  ELSE IF prev = "import" THEN
         (IF line \notin Directive \cup {"blank"} THEN 1 ELSE 0) + (IF line = "return" THEN 1 ELSE 0)
  ELSE IF line \in {"comment", "return"} /\ prev \notin Directive \cup {"comment"} THEN 1
  ELSE 0
Spaced(lines) ==
  FlattenSeq([n \in DOMAIN lines |->
    [k \in 1 .. IF n = 1 THEN 0 ELSE Gap(lines[n - 1].part, lines[n].part) |-> Line("blank", <<>>)]
      \o <<lines[n]>>])

\* formatExampleCode: what cannot be formatted stays as it is.
Formatted(lines, fails) == IF "format" \in fails THEN lines ELSE Spaced(lines)

--------------------------------------------------------------------------------
(* What is seen. *)

CutAt(lines) == {n \in DOMAIN lines : lines[n].part = "cut"}
FirstCut(lines) == CHOOSE n \in CutAt(lines) : \A m \in CutAt(lines) : n <= m

\* HideCutLinesTransformer.
HideCutLines(lines) ==
  {n \in DOMAIN lines : CutAt(lines) = {} \/ n > FirstCut(lines)}

\* Mutation of MemberFormat: the wrapper is looked for on the first line.
MemberFormatFirstLine(lines) ==
  IF Len(lines) < 3 THEN DOMAIN lines ELSE 2 .. Len(lines) - 1

\* MemberFormatTransformer: the imports, the cut and the lines of the wrapper.
MemberFormat(lines) ==
  IF Len(lines) < 3 THEN DOMAIN lines
  ELSE {n \in 2 .. Len(lines) - 1 : CutAt(lines) = {} \/ n > FirstCut(lines) + 1}

\* stripTwoslashDirectives, over the parts of an example's lines.
Cuts(parts, cut) == {n \in DOMAIN parts : parts[n] = cut}
LastOf(S) == IF S = {} THEN 0 ELSE CHOOSE n \in S : \A m \in S : m <= n

\* The innermost open start is taken by the next end.
Ranges(parts) ==
  FoldLeft(LAMBDA st, n :
      CASE parts[n] = "cut-start" -> [st EXCEPT !.open = Append(@, n)]
        [] parts[n] = "cut-end" /\ st.open # <<>> ->
             [open |-> Front(st.open), ranges |-> st.ranges \cup {<<Last(st.open), n>>}]
        [] OTHER -> st,
    [open |-> <<>>, ranges |-> {}], [n \in DOMAIN parts |-> n]).ranges

\* Mutation of StripDirectives: the ranges keep the positions they were found at.
StripUnshifted(parts) ==
  LET before == LastOf(Cuts(parts, "cut-before"))
      after  == LastOf(Cuts(parts, "cut-after")) - before
      end    == IF after > 0 THEN after - 1 ELSE Len(parts) - before
  IN {n + before : n \in {n \in 1 .. end :
        /\ \A r \in Ranges(parts) : n < r[1] \/ r[2] < n
        /\ parts[n + before] \in Shown}}

\* Positions are shifted by what the last cut-before takes away, and a cut-after
\* that stood before it no longer counts.
StripDirectives(parts) ==
  LET before == LastOf(Cuts(parts, "cut-before"))
      after  == LastOf(Cuts(parts, "cut-after")) - before
      end    == IF after > 0 THEN after - 1 ELSE Len(parts) - before
      shifted == {<<r[1] - before, r[2] - before>> : r \in Ranges(parts)}
  IN {n + before : n \in {n \in 1 .. end :
        /\ \A r \in shifted : n < r[1] \/ r[2] < n
        /\ parts[n + before] \in Shown}}

--------------------------------------------------------------------------------
(* Links. *)

\* Mutation of ScopeAfter: a class is left only by a line that opens nothing.
ScopeNeverLeft(stack, line) ==
  IF line.declares # None /\ line.opens > line.closes THEN Append(stack, line.declares) ELSE stack

\* The scope stack after a line: a class that stays open is pushed, and every
\* brace closed beyond those opened pops one.
ScopeAfter(stack, line) ==
  LET pushed == IF line.declares # None /\ line.opens > line.closes
                THEN Append(stack, line.declares) ELSE stack
      excess == IF line.closes > line.opens THEN line.closes - line.opens ELSE 0
  IN SubSeq(pushed, 1, IF excess > Len(pushed) THEN 0 ELSE Len(pushed) - excess)

ScopeAt(lines, n) ==
  LET stack == FoldLeft(ScopeAfter, <<>>, SubSeq(lines, 1, n - 1))
  IN IF stack = <<>> THEN None ELSE Last(stack)

\* A member name in its class ...
MemberLink(word, scope, routes) ==
  word.span = "own" /\ scope # None /\ <<scope, word.text>> \in routes

\* ... what a tooltip names ...
TipLink(word, routes) == word.span = "hover" /\ word.tip # None /\ word.tip \in routes

\* ... and any known type, wherever it stands in a text.
TypeNames(routes) == {r \in routes : Len(r) = 1}
TypeLink(word, routes) == <<word.text>> \in TypeNames(routes)

\* A word that is linked is left alone by the later phases.
LinkOf(word, scope, routes) ==
  IF MemberLink(word, scope, routes) THEN <<scope, word.text>>
  ELSE IF TipLink(word, routes) THEN word.tip
  ELSE IF TypeLink(word, routes) THEN <<word.text>>
  ELSE None

\* transformHast, over every line, hidden ones included.
LinkLines(lines, routes) ==
  [n \in DOMAIN lines |->
     [w \in DOMAIN lines[n].words |-> LinkOf(lines[n].words[w], ScopeAt(lines, n), routes)]]
================================================================================
