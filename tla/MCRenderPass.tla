----------------------------- MODULE MCRenderPass -----------------------------
(* Instances of RenderPass for TLC. *)
EXTENDS RenderPass

CONSTANT MaxParts   \* lines of an example

MCStem == [t \in {"Effect", "Schema", "Schema$1", "Struct", "Option", "Opt", "Foo", "Promise"} |->
             IF t = "Schema$1" THEN "Schema" ELSE t]

R(text, pkg, sym) == [text |-> text, pkg |-> pkg, sym |-> sym]
Effect  == R(<<"Effect">>, "effect", <<"Effect">>)
Rolled  == R(<<"Schema$1">>, "effect", <<"Schema">>)
Struct  == R(<<"Schema", "Struct">>, "effect", <<"Schema", "Struct">>)
Leaf    == R(<<"Struct">>, "effect", <<"Schema", "Struct">>)
Renamed == R(<<"Opt">>, "effect", <<"Option">>)
Inside  == R(<<"Foo">>, "own", <<"Foo">>)
Global  == R(<<"Promise">>, "", <<"Promise">>)

Ws(texts) == [n \in DOMAIN texts |-> Word(texts[n])]
NoDoc == [summary |-> <<>>, typeParams |-> <<>>, params |-> <<>>, returns |-> <<>>,
          deprecated |-> <<>>, remarks |-> <<>>, examples |-> <<>>, public |-> FALSE]
Item(name, kind, refs, lines) ==
  [name |-> name, kind |-> kind, form |-> "plain", refs |-> refs, members |-> <<>>,
   base |-> None, lines |-> lines, examples |-> <<>>, doc |-> NoDoc]
Member(name, kind, refs) == Item(name, kind, refs, <<Line("member", Ws(<<name>>))>>)

\* Comments with and without a summary, and with parts that say nothing.
Full ==
  [NoDoc EXCEPT !.summary = << <<"runs">>, <<"mute">>, <<"twice", "mute">> >>,
     !.typeParams = << << <<"A">> >> >>, !.params = << << <<"mute">> >>, << <<"n">>, <<"times">> >> >>,
     !.returns = << << <<"done">> >> >>, !.deprecated = << << <<"old">> >> >>,
     !.remarks = << <<"slow">>, <<"safe">> >>, !.examples = << << <<"run">> >>, << <<"mute">> >> >>,
     !.public = TRUE]
Late  == [NoDoc EXCEPT !.summary = << <<"mute">> >>, !.remarks = << <<"slow">> >>, !.public = TRUE]
Given == [NoDoc EXCEPT !.params = << << <<"n">> >> >>, !.examples = << << <<"use">> >>, << <<"reuse">> >> >>]

\* Static and instance members of one name, a type in braces, and a type over
\* several lines with members after it.
FooClass ==
  [Item("Foo", "Class", <<>>, <<>>) EXCEPT !.doc = Full,
     !.members = << [Member("opts", "Property", <<>>) EXCEPT
                       !.lines = <<[Line("member", Ws(<<"opts", "Foo">>)) EXCEPT !.opens = 1, !.closes = 1]>>],
                    [Member("run", "Method", <<Rolled, Inside>>) EXCEPT !.doc = Late],
                    [Member("deps", "Property", <<Effect>>) EXCEPT
                       !.lines = <<[Line("member", Ws(<<"deps">>)) EXCEPT !.opens = 1],
                                   [Line("member", <<>>) EXCEPT !.closes = 1]>>],
                    Member("run", "Method", <<>>) >>]
Based   == [FooClass EXCEPT !.base = "Foo_base"]
FooBase == Item("Foo_base", "Variable", <<Struct>>, <<Line("code", Ws(<<"Foo_base">>))>>)
Shape ==
  [Item("Shape", "Interface", <<Global>>, <<>>) EXCEPT
     !.members = <<Member("run", "PropertySignature", <<Struct>>), Member("gone", "Method", <<Renamed>>)>>]
Make    == [Item("make", "Function", <<Effect, Rolled>>, <<Line("code", Ws(<<"make", "Foo">>))>>) EXCEPT !.doc = Given]
Arrow   == [Item("lift", "Function", <<Struct>>, <<Line("code", Ws(<<"lift">>))>>) EXCEPT !.form = "arrow"]
Alias   == Item("Any", "TypeAlias", <<Leaf, Renamed, Rolled, Global>>, <<Line("code", Ws(<<"Any", "Shape">>))>>)
Nested(of) ==
  [Item("Ns", "Namespace", <<>>, <<Line("code", Ws(<<"Ns">>))>>) EXCEPT !.members = of]
Space   == Nested(<<FooClass, Make, Nested(<<>>)>>)
Arrows  == Nested(<<Arrow>>)

Entry(name, items) == [name |-> name, items |-> items]
Site(entries, authored, ssg) == [entries |-> entries, authored |-> authored, ssg |-> ssg, suppress |-> FALSE]

\* Two entry points: an item or two, a class and its base among them, and none
\* or one.
Pool == {<<Based, FooBase>>, <<Shape>>, <<Arrow, Make>>, <<Alias, Make>>, <<Space>>}
Packages ==
  {Site(<<Entry("index", items), Entry("testing", rest)>>, <<>>, FALSE) :
     items \in Pool, rest \in {<<>>, <<[Make EXCEPT !.name = "mock"]>>, <<Alias>>}}
Distinct == {s \in Packages : s.entries[1].items[1] # Alias \/ s.entries[2].items # <<Alias>>}

\* Every example of a few lines.
Fence(lines, fails, ms) == [lines |-> lines, imports |-> FALSE, fails |-> fails, ms |-> ms]
PartsOf == {"code", "directive", "cut-before", "cut-after", "cut-start", "cut-end"}
Example(parts, imports, fails) ==
  Site(<<Entry("index", <<[Make EXCEPT !.examples =
           <<[Fence([n \in DOMAIN parts |-> Line(parts[n], <<>>)], fails, 2) EXCEPT !.imports = imports]>>]>>)>>, <<>>, FALSE)
Examples ==
  {Example(parts, TRUE, {}) : parts \in UNION {[1 .. n -> PartsOf] : n \in 1 .. MaxParts}}

\* Every order of what is set apart, in one that cannot be formatted too.
Sections ==
  {[Example(parts, imports, fails) EXCEPT !.suppress = suppress] :
     parts \in [1 .. 3 -> {"import", "comment", "return", "directive", "blank"}],
     imports \in BOOLEAN, suppress \in BOOLEAN, fails \in {{}, {"types", "format"}}}

\* Code written by hand: a class, its use after it, and names with tooltips.
Use == <<[Line("code", Ws(<<"Foo">>)) EXCEPT !.opens = 1, !.declares = "Foo"],
         Line("code", Ws(<<"run">>)), [Line("code", <<>>) EXCEPT !.closes = 1],
         Line("code", <<Word("run"), [Word("run") EXCEPT !.span = "hover", !.tip = <<"Foo", "run">>],
                        [Word("Foo") EXCEPT !.span = "shared"]>>)>>
Short(name, fails, ms) ==
  [Item(name, "Function", <<>>, <<>>) EXCEPT !.examples = <<Fence(Use, fails, ms)>>]
Page(name, scoped, fences) == [name |-> name, scoped |-> scoped, fences |-> fences]
Concurrent ==
  {Site(<<Entry("index", <<Short("make", {"types"}, ms), Short("lift", {}, 2)>>)>>,
        <<Page("guide", scoped, <<Fence(Use, {"types"}, 3), Fence(<<>>, {"format"}, 2)>>),
          Page("intro", TRUE, <<Fence(Use, {}, 4)>>)>>, ssg) :
     ms \in {0, 3}, <<scoped, ssg>> \in {<<TRUE, FALSE>>, <<FALSE, TRUE>>}}

Linked ==
  {Site(<<Entry("index", <<[FooClass EXCEPT !.members = <<@[2]>>]>>)>>,
        <<Page("guide", scoped, <<Fence(Use, {}, 3)>>)>>, ssg) :
     scoped \in BOOLEAN, ssg \in BOOLEAN}

MCSites  == Distinct \cup Examples \cup Sections \cup Concurrent \cup Linked
ClaimSites ==
  {Site(<<Entry("index", <<Make, Arrows>>)>>, <<>>, FALSE)}
  \cup {Example(parts, TRUE, {}) : parts \in [1 .. 4 -> {"code", "cut-before", "cut-after"}]}
================================================================================
