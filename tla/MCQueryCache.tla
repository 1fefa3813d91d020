---------------------------- MODULE MCQueryCache ----------------------------
(***************************************************************************)
(* One re-evaluation and one other mutation of the user, the requests of   *)
(* the user's browser, and one request of somebody else.                   *)
(***************************************************************************)
EXTENDS QueryCache

CONSTANTS rescore, mutation, r1, r2

ReaderSymmetry == Permutations(Readers)
=============================================================================
