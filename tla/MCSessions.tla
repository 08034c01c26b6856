----------------------------- MODULE MCSessions -----------------------------
(* Sessions for TLC: one session of an earlier day, of a user in the only      *)
(* organization there is; a second user and a second organization may come.    *)
EXTENDS Sessions, TLC

CONSTANTS ana, luis, shop, lab, old, New

MCUsers == {ana, luis}
MCOrgs == {shop, lab}
MCRequests == New \union {old}
MCPast == {old}
MCPastUser == old :> ana
MCPastOrg == old :> shop

\* Requests that have not been made yet are alike.
NewRequests == Permutations(New)
=============================================================================
