----------------------------- MODULE MCOutbound -----------------------------
(* Outbound for TLC: the messages of one conversation. *)
EXTENDS Outbound, TLC

CONSTANT theConversation

MCConversations == {theConversation}
MCConvOf == [m \in Messages |-> theConversation]

\* Messages and workers are interchangeable, and the run that uses this checks
\* no liveness.
Symmetry == Permutations(Messages) \union Permutations(Workers)
=============================================================================
