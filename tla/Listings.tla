------------------------------ MODULE Listings ------------------------------
(***************************************************************************)
(* Lists that one pass over numbered things makes: a filter, a push.       *)
(***************************************************************************)
EXTENDS Integers, Sequences

\* The numbers from 1 to n that are in S, in order.
InOrder(S, n) ==
    LET up[k \in 0..n] ==
          IF k = 0 THEN << >>
          ELSE IF k \in S THEN Append(up[k - 1], k)
          ELSE up[k - 1]
    IN  up[n]
=============================================================================
