----------------------------- MODULE MCAnswers -----------------------------
(* An instance of Answers for TLC.                                          *)
EXTENDS Answers, TLC

CONSTANTS m1, m2, u1, t1

Price == [trigger |-> [type |-> "keyword", match |-> "contains",
                       keywords |-> {"price"}],
          actions |-> <<[type |-> "reply"], [type |-> "add_tag", tag |-> t1]>>,
          priority |-> 1, cooldown |-> TRUE, here |-> TRUE]
Anything == [trigger |-> [type |-> "any_message"],
             actions |-> <<[type |-> "assign", user |-> u1],
                           [type |-> "set_status", status |-> "resolved"]>>,
             priority |-> 2, cooldown |-> FALSE, here |-> TRUE]

Welcome == [trigger |-> [type |-> "new_contact"],
            actions |-> <<[type |-> "reply"]>>,
            priority |-> 1, cooldown |-> FALSE, here |-> TRUE]

MCDefinitions == {Price, Anything, Welcome}
MCFirstRules == {[u \in {1, 2} |-> IF u = 1 THEN Anything ELSE Price],
                 [u \in {1, 2} |-> IF u = 1 THEN Welcome ELSE None]}
MCContent == [m \in {m1, m2} |-> [kind |-> "message", isNewContact |-> FALSE,
                contains |-> {"price"}, equals |-> "price now"]]

\* The two messages are alike.
MCSymmetry == Permutations({m1, m2})
=============================================================================
