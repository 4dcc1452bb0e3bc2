--------------------------- MODULE MCExternalTypes ---------------------------
(* Instances of ExternalTypes for TLC: an ordinary package of two versions, two  *)
(* whose trees do not say how large their files are, one that is not published. *)
EXTENDS ExternalTypes, TLC

Ref(name, ref) == [name |-> name, ref |-> ref]
MCLists ==
  { << Ref("zod", "^1"), Ref("big", "latest") >>, << Ref("zod", "^1"), Ref("own", "1.0.0"), Ref("gone", "^1") >>,
    << Ref("zod", "^1"), Ref("zod", "1.0.0") >>, << Ref("big", "workspace"), Ref("sum", "1.0.0") >>,
    << Ref("zod", "latest"), Ref("zod", "3.0.0") >> }

MCPublished == "zod" :> [tags |-> "latest" :> "2.0.0", versions |-> {"1.0.0", "1.1.0", "2.0.0", "3.0.0"}]
  @@ [p \in {"big", "sum"} |-> [tags |-> "latest" :> "1.0.0", versions |-> {"1.0.0"}]]
MCSatisfying == "^1" :> {"1.0.0", "1.1.0"}
MCRank       == "1.0.0" :> 1 @@ "1.1.0" :> 2 @@ "2.0.0" :> 3 @@ "3.0.0" :> 4
File(declared, size) == [declared |-> declared, size |-> size]
Unsized(size) == "a" :> File(None, size) @@ "b" :> File(None, size) @@ "c" :> File(None, size)
MCTree ==
  "zod" :> ("1.0.0" :> ("a" :> File(1, 1))
    @@ "1.1.0" :> ("a" :> File(1, 1) @@ "b" :> File(1, 1))
    @@ "2.0.0" :> ("a" :> File(5, 1))
    @@ "3.0.0" :> (Unsized(0) @@ "d" :> File(0, 0)))
  @@ "big" :> ("1.0.0" :> Unsized(3)) @@ "sum" :> ("1.0.0" :> Unsized(1))
=============================================================================
