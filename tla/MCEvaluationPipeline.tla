------------------------ MODULE MCEvaluationPipeline ------------------------
(***************************************************************************)
(* Small instances of EvaluationPipeline. In all of them the runs belong   *)
(* to one asset and one evaluation name.                                   *)
(***************************************************************************)
EXTENDS EvaluationPipeline, TLC

CONSTANTS r1, r2, s1, s2, j1, j2, t1, t2

MCAssetOf == [r \in Runs |-> "asset"]
MCNameOf == [r \in Runs |-> "nightly"]

\* A second request for the period of the first.
SamePeriod == [r \in Runs |-> 1]

\* r2 evaluates the period after r1's.
NextPeriod == [r \in Runs |-> IF r = r1 THEN 1 ELSE 2]

JobSymmetry == Permutations(Jobs) \cup Permutations(Ticks)
=============================================================================
