---------------------------- MODULE MCFlowEditor ----------------------------
(* FlowEditor with two tabs and two requests at a time.                      *)
EXTENDS FlowEditor, TLC

CONSTANTS t1, t2, c1, c2

Symmetry == Permutations({t1, t2}) \union Permutations({c1, c2})

=============================================================================
