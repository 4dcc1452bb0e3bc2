------------------------------ MODULE MCApiPages ------------------------------
(* Instances of ApiPages for TLC. *)
EXTENDS ApiPages

CONSTANTS MaxItems

MCLower == [n \in {"Foo", "foo", "Foo_base", "Bar", "bar", "Ns", "Inner", "Fn", "run"} |->
              CASE n \in {"Foo", "foo"} -> "foo" [] n \in {"Bar", "bar"} -> "bar"
                [] n = "Foo_base" -> "foo_base" [] n = "Ns" -> "ns"
                [] n = "Inner" -> "inner" [] n = "Fn" -> "fn" [] OTHER -> "run"]
MCSlug == [n \in {"create", "run", "a_b", "a-b", "methods", "(constructor)", "(call)"} |->
             CASE n \in {"a_b", "a-b"} -> "a-b" [] n = "(constructor)" -> "constructor"
               [] n = "(call)" -> "call" [] OTHER -> n]
MCPascal == {"Foo", "Foo_base", "Bar", "Ns", "Inner", "Fn"}

M(ref, name, kind, static) ==
  [ref |-> ref, name |-> name, kind |-> kind, static |-> static, accessor |-> FALSE, excerpt |-> TRUE]
I(ref, name, kind) ==
  [ref |-> ref, name |-> name, kind |-> kind, exported |-> TRUE, tags |-> {}, extends |-> <<>>,
   members |-> <<>>, items |-> <<>>, tail |-> <<>>, prose |-> <<>>]

\* A class with a static and an instance member of one name, a compiler-made
\* base, and members whose names differ only in punctuation.
Foo == [I("Foo:class", "Foo", "Class") EXCEPT
          !.extends = <<"Gone", "Foo_base">>, !.tail = <<"examples">>,
          !.prose = <<"Foo", ".", "create", ",", "code", "Foo", "code", ",", "Bar">>,
          !.members = << M("Foo.ctor", "(constructor)", "Constructor", FALSE),
                         M("Foo#create", "create", "Method", FALSE),
                         M("Foo.create", "create", "Method", TRUE),
                         M("Foo#a_b", "a_b", "Property", FALSE),
                         M("Foo.a-b", "a-b", "Property", TRUE) >>]
FooBase == [I("Foo_base", "Foo_base", "Variable") EXCEPT !.exported = FALSE]
\* The same class name as an interface merged into it.
FooShape == [I("Foo:interface", "Foo", "Interface") EXCEPT
               !.members = << M("Foo#run", "run", "MethodSignature", FALSE) >>]
BarValue == I("Bar:var", "Bar", "Variable")
BarType  == I("Bar:type", "Bar", "TypeAlias")
barValue == I("bar:var", "bar", "Variable")
Hidden   == [I("Fn:function", "Fn", "Function") EXCEPT !.tags = {"internal"}]
Space(items) == [I("Ns:namespace", "Ns", "Namespace") EXCEPT !.items = items]
Inner == [I("Ns.Inner:class", "Inner", "Class") EXCEPT
            !.members = << M("Ns.Inner#run", "run", "Method", FALSE) >>]
NsBar == I("Ns.Bar:type", "Bar", "TypeAlias")
NsRun == [I("Ns.run:function", "run", "Function") EXCEPT !.tags = {"internal"}]

\* Three overloads of one method, and a function that shares their name.
Overloaded == [I("Bar:class", "Bar", "Class") EXCEPT
                 !.members = [k \in 1 .. 3 |-> M(<<"Bar#run", k>>, "run", "Method", FALSE)],
                 !.prose = <<"Bar", ".", "run">>]
Run == I("run:function", "run", "Function")

Pool == {Foo, FooBase, FooShape, BarValue, BarType, barValue, Hidden,
         Space(<<Inner, NsBar>>), Space(<<NsRun, NsBar>>)}

\* Any few of them from the default entry point, and one or none from another;
\* which adapter documents them goes by the other.
Coherent(S) == \A x, y \in S : x.ref = y.ref => x = y
Seqs(S) == SetToSeq(S)
MCSites ==
  {<<IF T \subseteq {FooShape, BarType, Hidden, Space(<<NsRun, NsBar>>)} THEN "vitepress" ELSE "rspress",
     <<[name |-> "default", members |-> Seqs(S)], [name |-> "testing", members |-> Seqs(T)]>> >> :
     S \in {S \in SUBSET Pool : Cardinality(S) <= MaxItems /\ Coherent(S)},
     T \in {T \in SUBSET Pool : Cardinality(T) <= 1}}

ClaimSites ==
  Adapters \X {<<[name |-> "default", members |-> <<Overloaded>>]>>,
               <<[name |-> "default", members |-> <<[Overloaded EXCEPT !.members = <<@[1]>>], Run>>]>>}

\* Lengths of the words of a name; marks and targets do not matter.
MCWidth == [w \in DOMAIN MCLower \cup DOMAIN MCSlug
                   \cup {".", "(", ":", ")", "static", "instance", "prototype"} |->
              CASE w \in {".", "(", ":", ")"} -> 1
                [] w \in {"Fn", "Ns"} -> 2
                [] w \in {"Foo", "foo", "Bar", "bar", "run", "a_b", "a-b"} -> 3
                [] w \in {"Inner"} -> 5 [] w \in {"create", "static", "(call)"} -> 6
                [] w \in {"Foo_base", "instance"} -> 8 [] w = "methods" -> 7 [] OTHER -> 12]

\* An "internal" item leaves its kind's category where modifiers can be given;
\* VitePress takes part of a category for an override and ignores part of a new
\* one.
Internal == <<"internals", [title |-> "i", singular |-> "i", folder |-> "internal", modifier |-> "internal"]>>
Unfolded == <<"classes", [title |-> "c", singular |-> "c", folder |-> "class", collapsed |-> FALSE]>>
MCLayers ==
  [a \in Adapters |->
     IF a = "rspress" THEN << <<Unfolded>>, <<Internal>> >>
     ELSE << << <<"classes", [collapsible |-> FALSE]>>, Internal, <<"broken", [folder |-> "broken"]>> >> >>]
================================================================================
