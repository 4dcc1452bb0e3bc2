------------------------------ MODULE ProseLinks ------------------------------
(***************************************************************************)
(* CrossLinker: names in prose become markdown links.  A text is a         *)
(* sequence of words and punctuation marks, so that a match on whole       *)
(* tokens is a match between word boundaries.                              *)
(***************************************************************************)
EXTENDS Integers, FiniteSets, SequencesExt

CONSTANT Width   \* token -> its length in characters

Open  == "["
Mid   == "]("
Shut  == ")"
Quote == "code"   \* a backtick

At(t, p, words) ==
  p + Len(words) - 1 <= Len(t) /\ SubSeq(t, p, p + Len(words) - 1) = words

\* What comes right before a match, and the code span it may stand in.
AfterBracket(t, p) == p > 1 /\ t[p - 1] \in {Open, Mid}
InCode(t, p)       == Cardinality({q \in 1 .. p - 1 : t[q] = Quote}) % 2 = 1

MayLink(t, p) == ~AfterBracket(t, p) /\ ~InCode(t, p)

Linked(words, href) == <<Open>> \o words \o <<Mid>> \o href \o <<Shut>>

\* One name: every match that is neither at the start of a link nor in code.
LinkName(t, words, href) ==
  LET hits == {p \in 1 .. Len(t) : At(t, p, words) /\ MayLink(t, p)}
  IN FlattenSeq([p \in 1 .. Len(t) |->
       IF p \in hits THEN Linked(words, href)
       ELSE IF \E q \in hits : q < p /\ p < q + Len(words) THEN <<>>
       ELSE <<t[p]>>])

WidthOf(words) == FoldLeft(LAMBDA sum, w : sum + Width[w], 0, words)

Longest(names) == Max({WidthOf(n.words) : n \in names})

\* Mutation of Widths: the short names are tried first.
WidthsUpward(names) == [k \in 1 .. Longest(names) |-> k]

\* Longest first, so that a name is not cut short by one it begins with.
Widths(names) == [k \in 1 .. Longest(names) |-> Longest(names) + 1 - k]

\* CrossLinker.link over a set of [words, href].
Link(t, names) ==
  LET linkAll(text, width) ==
        FoldSet(LAMBDA n, x : LinkName(x, n.words, n.href), text,
                {n \in names : WidthOf(n.words) = width})
  IN IF names = {} \/ t = <<>> THEN t ELSE FoldLeft(linkAll, t, Widths(names))

\* The code spans of a text, in order.
CodeOf(t) == SelectSeq([p \in 1 .. Len(t) |-> IF InCode(t, p) /\ t[p] # Quote THEN t[p] ELSE Quote],
                       LAMBDA w : w # Quote)

\* A link inside the text or the target of another.
Nested(t) ==
  \E p, q \in 1 .. Len(t) :
    /\ p < q /\ t[p] = Open /\ t[q] = Open
    /\ \A r \in p .. q : t[r] # Shut
================================================================================
