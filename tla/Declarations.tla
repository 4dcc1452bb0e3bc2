----------------------------- MODULE Declarations -----------------------------
(***************************************************************************)
(* The declaration files the type checker is given for a documented        *)
(* package, and the lines put before a piece of code so that the types it  *)
(* borrows from other packages are bound.                                  *)
(*                                                                         *)
(* An item is [name, kind, form, refs, members, lines, doc]: form tells a  *)
(* function from a constant holding an arrow function, refs are the        *)
(* references of its own excerpt in order, lines is how that excerpt       *)
(* prints, and doc is its comment: texts and named blocks, a text being a  *)
(* sequence of paragraphs of words.  A reference is [text, pkg, sym]: the  *)
(* identifiers it is written with, the package its canonical reference     *)
(* names, and the path of the symbol there.                                *)
(***************************************************************************)
EXTENDS Integers, FiniteSets, SequencesExt

CONSTANTS
  Stem,      \* identifier -> what is left without a "$1" the rollup added
  Own,       \* the package being documented
  BuiltIn    \* the empty package of a canonical reference to a built-in

\* walkApiItem: an item, then its members, then theirs.
Refs(item) ==
  item.refs \o FlattenSeq([m \in DOMAIN item.members |->
    LET member == item.members[m] IN
    member.refs \o FlattenSeq([n \in DOMAIN member.members |-> member.members[n].refs])])

Canonical(r) == <<r.pkg, r.sym>>

\* Mutation of Imported: a qualified name imports its last part.
ImportedLeaf(r) ==
  [pkg |-> r.pkg, name |-> IF Len(r.text) > 1 THEN <<Last(r.text)>> ELSE r.sym]

\* parseCanonicalReference: a qualified name imports its root, as written;
\* any other imports the symbol.
Imported(r) == [pkg |-> r.pkg, name |-> IF Len(r.text) > 1 THEN <<r.text[1]>> ELSE r.sym]

\* extractFromExcerptTokens: of two references to one symbol the later stands.
Extract(references, refs) ==
  FoldLeft(LAMBDA known, r : [c \in DOMAIN known \cup {Canonical(r)} |->
                                IF c = Canonical(r) THEN r ELSE known[c]],
           references, refs)

\* generateImportStatements.
Imports(references) ==
  {Imported(references[c]) : c \in {d \in DOMAIN references : d[1] \notin {BuiltIn, Own}}}

--------------------------------------------------------------------------------
(* What a file says. *)

\* normalizeTokenText: a "$1" goes when what is left is the symbol.
Normalize(r) ==
  LET bare == Front(r.text) \o <<Stem[Last(r.text)]>>
  IN IF bare \in {r.sym, <<Last(r.sym)>>} THEN bare ELSE r.text

ClassParts     == {"Constructor", "Method", "Property"}
InterfaceParts == {"MethodSignature", "PropertySignature", "CallSignature", "ConstructSignature", "IndexSignature"}
Declared       == {"Class", "Interface", "TypeAlias", "Function", "Enum", "Variable", "Namespace"}

OfKind(list, kinds) == FlattenSeq([n \in DOMAIN list |-> IF list[n].kind \in kinds THEN <<list[n]>> ELSE <<>>])

\* generateClassMember, generateInterfaceMember, generateNamespaceMember: what
\* is printed of a container's members.
Printed(item) ==
  LET parts == CASE item.kind = "Class" -> ClassParts
                 [] item.kind = "Interface" -> InterfaceParts
                 [] item.kind = "Namespace" -> Declared \ {"Namespace"}
                 [] OTHER -> {}
  IN OfKind(item.members, parts)

\* The references a printed item shows, as its file spells them.
Mentions(item) ==
  LET direct == Printed(item)
      all == item.refs \o FlattenSeq([m \in DOMAIN direct |->
               direct[m].refs \o FlattenSeq([n \in DOMAIN Printed(direct[m]) |-> Printed(direct[m])[n].refs])])
  IN {[text |-> Normalize(r), of |-> r] : r \in {q \in ToSet(all) : q.pkg \notin {BuiltIn, Own}}}

\* generateFunctionDeclaration and generateVariableDeclaration put a keyword
\* before what is not written as a function ...
Keyword(item) ==
  CASE item.kind = "Function" -> IF item.form = "arrow" THEN "const" ELSE "function"
    [] item.kind = "Variable" -> "const"
    [] OTHER -> item.kind

\* ... and generateNamespaceFunction does not.
NamespaceKeyword(item) ==
  IF item.kind = "Function" /\ item.form = "arrow" THEN "none" ELSE Keyword(item)

\* extractPlainText: a "mute" word has no plain text, a link to an address that
\* shows no text of its own or an HTML tag; a paragraph without words is dropped.
Spoken(words)   == FlattenSeq([n \in DOMAIN words |-> IF words[n] = "mute" THEN <<>> ELSE <<words[n]>>])
NonEmpty(lists) == FlattenSeq([n \in DOMAIN lists |-> IF lists[n] = <<>> THEN <<>> ELSE <<lists[n]>>])
Plain(text)     == NonEmpty([p \in DOMAIN text |-> Spoken(text[p])])

Said(tag, words) == [tag |-> tag, says |-> words]
Blank == Said("", <<>>)

\* Paragraphs with a blank line between, and blocks on a line each.
Paragraphs(tag, text) ==
  LET plain == Plain(text) IN
  FlattenSeq([p \in DOMAIN plain |-> IF p = 1 THEN <<Said(tag, plain[1])>> ELSE <<Blank, Said("", plain[p])>>])
Tagged(tag, blocks) ==
  LET kept == NonEmpty([b \in DOMAIN blocks |-> Plain(blocks[b])])
  IN [b \in DOMAIN kept |-> Said(tag, FlattenSeq(kept[b]))]

\* Mutation of Group: a blank line before every group, the first included.
GroupAfterBlank(lines, group) == IF group = <<>> THEN lines ELSE Append(lines, Blank) \o group

\* What goes into a comment goes after a blank line, unless it comes first.
Group(lines, group) ==
  CASE group = <<>> -> lines
    [] lines = <<>> -> group
    [] OTHER -> Append(lines, Blank) \o group

\* formatJSDoc.
Comment(doc) ==
  FoldLeft(Group, <<>>,
    << Paragraphs("", doc.summary),
       Tagged("@typeParam", doc.typeParams) \o Tagged("@param", doc.params) \o Tagged("@returns", doc.returns),
       Tagged("@deprecated", doc.deprecated),
       Paragraphs("@remarks", doc.remarks) >>
    \o [x \in DOMAIN doc.examples |-> Paragraphs("@example", doc.examples[x])]
    \o IF doc.public THEN << <<Said("@public", <<>>)>> >> ELSE <<>>)

\* The declarations of a file that carry a comment, in order.
Commented(items) ==
  FlattenSeq([i \in DOMAIN items |->
    LET direct == Printed(items[i]) IN
    <<items[i]>> \o FlattenSeq([m \in DOMAIN direct |-> <<direct[m]>> \o Printed(direct[m])])])

\* generateDeclarations.
Body(items) ==
  LET shown == OfKind(items, Declared) IN
  [declares |-> [i \in DOMAIN shown |-> <<shown[i].name, Keyword(shown[i])>>],
   inner    |-> UNION {{<<m.name, NamespaceKeyword(m)>> : m \in ToSet(Printed(i))}
                        : i \in {j \in ToSet(shown) : j.kind = "Namespace"}},
   mentions |-> UNION {Mentions(i) : i \in ToSet(shown)},
   comments |-> LET bearers == Commented(shown) IN [n \in DOMAIN bearers |-> Comment(bearers[n].doc)],
   imports  |-> {}]

\* fromPackage and toVfs: a file for every entry point.
Files(entries) == [e \in DOMAIN entries |-> Body(entries[e].items)]
================================================================================
