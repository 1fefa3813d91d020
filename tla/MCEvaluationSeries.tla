------------------------- MODULE MCEvaluationSeries -------------------------
(***************************************************************************)
(* One SLO in two columns, and two transactions.                           *)
(***************************************************************************)
EXTENDS EvaluationSeries

CONSTANT slo

MCRows == {<<1, slo>>, <<2, slo>>}
=============================================================================
