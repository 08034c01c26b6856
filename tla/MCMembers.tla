----------------------------- MODULE MCMembers -----------------------------
(* Members for TLC: two owners, an admin and an agent. *)
EXTENDS Members, TLC

CONSTANTS ana, luis, eva, max

MCUsers == {ana, luis, eva, max}
MCFirst == ana :> "owner" @@ luis :> "owner" @@ eva :> "admin" @@ max :> "agent"
MCStaff == {ana, eva}

\* Requests that have not been made yet are alike.
AnyRequests == Permutations(Requests)
=============================================================================
