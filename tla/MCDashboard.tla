---------------------------- MODULE MCDashboard ----------------------------
(* Dashboard with two requests at a time and the two organizations of the   *)
(* user, or with a second organization in which he is no member; the texts  *)
(* that are posted and the changes of an inbox are bounded together.        *)
EXTENDS Dashboard, TLC

CONSTANTS o1, o2, c1, c2

Symmetry == Permutations({c1, c2})

=============================================================================
