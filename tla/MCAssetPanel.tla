---------------------------- MODULE MCAssetPanel ----------------------------
(***************************************************************************)
(* Two runs: one of two SLOs and a newer one of a single SLO, which may    *)
(* still be running; a time range that shows both and one that shows only  *)
(* the newer.                                                              *)
(***************************************************************************)
EXTENDS AssetPanel, TLC

CONSTANTS pass, fail

MCRows == {<<1, 1>>, <<1, 2>>, <<2, 1>>}
Symmetry == Permutations(Outcomes)
MCWindows == {{1, 2}, {2}}

\* The other user interferes while the panel stays where it is, or the user moves
\* about alone.
MCSessions ==
    {[forms |-> {"override"}, others |-> {"overrideOne"}, clicks |-> 0],
     [forms |-> {"re-evaluate"}, others |-> {"pinOne"}, clicks |-> 0],
     [forms |-> {"restore"}, others |-> {"invalidate"}, clicks |-> 0],
     [forms |-> {"invalidate"}, others |-> {}, clicks |-> 0],
     [forms |-> {"baseline"}, others |-> {}, clicks |-> 1]}
=============================================================================
