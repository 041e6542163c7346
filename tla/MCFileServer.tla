---------------------------- MODULE MCFileServer ----------------------------
(* FileServer on a small instance: bodies of every size that matters to    *)
(* the size check, with a hash of 2 bytes, chunks of 1 and sizes modulo 8. *)
EXTENDS FileServer, TLC

CONSTANTS c1, c2, c3, p1, p2, f1, runt, full, fat

MCBodySize == runt :> 1 @@ full :> 3 @@ fat :> 4

Symmetry == Permutations({c1, c2, c3}) \cup Permutations({p1, p2})
=============================================================================
