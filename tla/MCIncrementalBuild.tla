-------------------------- MODULE MCIncrementalBuild --------------------------
(* Instances of IncrementalBuild for TLC. *)
EXTENDS IncrementalBuild

CONSTANTS i1, i2, c1, c2

\* Two bodies and two frontmatters: an edit may touch either hash alone.
MCContents == {[body |-> "b1", front |-> "f1"],
               [body |-> "b2", front |-> "f1"],
               [body |-> "b1", front |-> "f2"]}
MCTwoContents == {[body |-> "b1", front |-> "f1"], [body |-> "b1", front |-> "f2"]}
MCTorn == [body |-> "half", front |-> "half"]

MCOneCategory   == [i \in Items |-> c1]
MCTwoCategories == [i \in Items |-> IF i = i1 THEN c1 ELSE c2]
================================================================================
