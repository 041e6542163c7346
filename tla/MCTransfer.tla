----------------------------- MODULE MCTransfer -----------------------------
(* Transfer with files of one and of two chunks. *)
EXTENDS Transfer, TLC

CONSTANTS s1, s2, r1, r2, p1, p2, short, long

MCFileOf == [s \in Sender |-> IF s = s1 THEN long ELSE short]
MCParts == short :> 1 @@ long :> 2

Symmetry == Permutations({r1, r2}) \cup Permutations({p1, p2})
=============================================================================
