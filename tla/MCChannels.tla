----------------------------- MODULE MCChannels -----------------------------
(* An instance of Channels for TLC.                                         *)
EXTENDS Channels, TLC

CONSTANTS o1, o2, a1, a2, f1, f2, t1, t2, t3

MCSymmetry == Permutations({o1, o2}) \union Permutations({a1, a2})
                \union Permutations({f1, f2}) \union Permutations({t1, t2, t3})
=============================================================================
