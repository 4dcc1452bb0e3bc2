---------------------------- MODULE MCTypeRegistry ----------------------------
(* Instances of TypeRegistry for TLC. *)
EXTENDS TypeRegistry

CONSTANTS l1, l2, k1, p1
================================================================================
