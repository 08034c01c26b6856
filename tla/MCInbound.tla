------------------------------ MODULE MCInbound ------------------------------
(* Inbound for TLC: a message of a contact, and a later event of the same    *)
(* contact that is an echo or a second message.                              *)
EXTENDS Inbound

CONSTANTS first, second, secondIsEcho, theContact, sent, again

MCEvents == {first, second}
MCEchoes == IF secondIsEcho THEN {second} ELSE {}
MCContacts == {theContact}
MCContactOf == [e \in MCEvents |-> theContact]
MCMaxStamp == 2
MCStamp == [e \in MCEvents |-> IF e = first THEN 1 ELSE 2]

\* One request with a batch of two, and a second delivery of its first event.
MCRequests == {sent, again}
MCBatchOf == [r \in MCRequests |-> IF r = sent THEN <<first, second>> ELSE <<first>>]
=============================================================================
