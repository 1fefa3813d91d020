--------------------------- MODULE MCAdapterJobs ---------------------------
(***************************************************************************)
(* Small instances of AdapterJobs: submissions a, b, c and queries q1..q3  *)
(* are model values. No symmetry: the instances check liveness or are tiny.*)
(***************************************************************************)
EXTENDS AdapterJobs

CONSTANTS a, b, c, q1, q2, q3
=============================================================================
