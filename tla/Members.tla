------------------------------ MODULE Members ------------------------------
(***************************************************************************)
(* Who governs: the roles of the members of an organization, its           *)
(* invitations, and the platform's Super Admins.  OrgsService promises     *)
(* that an organization keeps an owner, PlatformService that the platform  *)
(* keeps a Super Admin; both count in one statement and write in another,  *)
(* in a READ COMMITTED transaction, and other requests commit in between.  *)
(*                                                                         *)
(* A request acts with the role its access token claims, which may be up   *)
(* to fifteen minutes old.  One organization: every route requires the     *)
(* organization of the token to be the one of the path.  What a removal    *)
(* does to refresh tokens is in Sessions.                                  *)
(***************************************************************************)
EXTENDS Naturals, FiniteSets

CONSTANTS
  Users,
  First,         (* First[u]: u's role at the start, or None              *)
  Staff,         (* the Super Admins the platform starts with              *)
  Requests,      (* HTTP requests; each one runs once                      *)
  Ranks,         (* the roles a request may name, a subset of Role         *)
  MaxInviting,   (* how many invitations are being created at a time       *)
  None

Role == {"owner", "admin", "agent", "analyst"}

ASSUME MembersAssumption ==
  /\ First \in [Users -> Role \union {None}]
  /\ \E u \in Users : First[u] = "owner"
  /\ Staff \subseteq Users /\ Staff # {}
  /\ Ranks \subseteq Role
  /\ MaxInviting \in Nat
  /\ None \notin Role \union Users

VARIABLES
  role,       (* role[u]: the role of u's membership, or None              *)
  staff,      (* the users whose isPlatformAdmin is set                    *)
  invited,    (* invited[u]: the role u may accept, or None                *)
  inviting,   (* open creates, as pairs of a user and a role               *)
  holding,    (* the accepting requests whose invitation still has its row *)
  stale,      (* stale[u]: what older access tokens of u still claim       *)
  pc,         (* pc[r]: what request r does next, or how it ended          *)
  kind,       (* kind[r]: the operation                                    *)
  claim,      (* claim[r]: the role its access token claims                *)
  target,     (* target[r]: the user it is about                           *)
  grant,      (* grant[r]: the role it would give, None to remove          *)
  seen,       (* seen[r]: the target's role when it was read               *)
  before      (* before[r]: the requests that had ended when r read first  *)

inviteVars == <<invited, inviting, holding>>
rowVars == <<role, staff, inviteVars, stale>>
askVars == <<kind, claim, target, grant, seen, before>>
vars == <<rowVars, pc, askVars>>

-----------------------------------------------------------------------------
Rank == [owner |-> 4, admin |-> 3, agent |-> 2, analyst |-> 1]
Invitable == Role \ {"owner"}
Kind == {"none", "update", "remove", "accept", "demote"}
Ended == {"done", "refused"}
Step == Ended \union {"idle", "count", "write"}

TypeOK ==
  /\ role \in [Users -> Role \union {None}]
  /\ staff \subseteq Users
  /\ invited \in [Users -> Invitable \union {None}]
  /\ inviting \subseteq Users \X Invitable
  /\ holding \subseteq Requests
  /\ stale \in [Users -> SUBSET (Role \union {"staff"})]
  /\ pc \in [Requests -> Step]
  /\ kind \in [Requests -> Kind]
  /\ claim \in [Requests -> Role \union {None}]
  /\ target \in [Requests -> Users \union {None}]
  /\ grant \in [Requests -> Role \union {None}]
  /\ seen \in [Requests -> Role \union {None}]
  /\ before \in [Requests -> SUBSET Requests]

Init ==
  /\ role = First
  /\ staff = Staff
  /\ invited = [u \in Users |-> None]
  /\ inviting = {} /\ holding = {}
  /\ stale = [u \in Users |-> {}]
  /\ pc = [r \in Requests |-> "idle"]
  /\ kind = [r \in Requests |-> "none"]
  /\ claim = [r \in Requests |-> None]
  /\ target = [r \in Requests |-> None]
  /\ grant = [r \in Requests |-> None]
  /\ seen = [r \in Requests |-> None]
  /\ before = [r \in Requests |-> {}]

Owners == {u \in Users : role[u] = "owner"}

-----------------------------------------------------------------------------
(* Access tokens *)

\* TokensService: the claims of a token that u may present now - a fresh one
\* says what the rows say, an older one what they said.
IsStaff(u) == u \in staff \/ "staff" \in stale[u]

\* PlatformService.impersonate gives its caller the role of an owner.
Claims(u) ==
  (stale[u] \intersect Role) \union ({role[u]} \ {None})
    \union (IF IsStaff(u) THEN {"owner"} ELSE {})

\* ACCESS_TOKEN_TTL_SECONDS have passed since u's rows changed.
Expire(u) ==
  /\ stale[u] # {}
  /\ stale' = [stale EXCEPT ![u] = {}]
  /\ UNCHANGED <<role, staff, inviteVars, pc, askVars>>

\* memberships.role of u becomes k; u's tokens still say what it was.
SetRole(u, k) ==
  /\ role' = [role EXCEPT ![u] = k]
  /\ stale' = [stale EXCEPT ![u] = @ \union ({role[u]} \ {None})]

-----------------------------------------------------------------------------
\* Request r reads the row of its target.
Arrive(r, k, c, u, g, next) ==
  /\ pc[r] = "idle"
  /\ kind' = [kind EXCEPT ![r] = k]
  /\ claim' = [claim EXCEPT ![r] = c]
  /\ target' = [target EXCEPT ![r] = u]
  /\ grant' = [grant EXCEPT ![r] = g]
  /\ seen' = [seen EXCEPT ![r] = role[u]]
  /\ before' = [before EXCEPT ![r] = {q \in Requests : pc[q] \in Ended}]
  /\ pc' = [pc EXCEPT ![r] = next]

Goto(r, next) ==
  /\ pc' = [pc EXCEPT ![r] = next]
  /\ UNCHANGED askVars

\* assertCanManage
CanManage(c, k) == c = "owner" \/ Rank[c] > Rank[k]

\* The roles a claim may grant.
CanGrant(c, g) == Rank[g] <= Rank[c] /\ (g = "owner" => c = "owner")

\* An owner who is to stop being one is counted first.
AfterRead(k, g) == IF k = "owner" /\ g # "owner" THEN "count" ELSE "write"

\* updateMemberRole of user u by a, up to the checks on the row it read.
UpdateRead(r, a, c, u, g) ==
  /\ c \in Claims(a) /\ c \in {"owner", "admin"} /\ u # a
  /\ Arrive(r, "update", c, u, g,
            IF role[u] # None /\ CanManage(c, role[u]) /\ CanGrant(c, g)
              THEN AfterRead(role[u], g) ELSE "refused")
  /\ UNCHANGED rowVars

\* As if an owner who leaves were not counted.
RemoveUncounted(r, a, c, u) ==
  /\ c \in Claims(a)
  /\ Arrive(r, "remove", c, u, None,
            IF role[u] # None /\ (u = a \/ CanManage(c, role[u]))
              THEN (IF u = a THEN "write" ELSE AfterRead(role[u], None))
              ELSE "refused")
  /\ UNCHANGED rowVars

\* removeMember; anybody may leave.
RemoveRead(r, a, c, u) ==
  /\ c \in Claims(a)
  /\ Arrive(r, "remove", c, u, None,
            IF role[u] # None /\ (u = a \/ CanManage(c, role[u]))
              THEN AfterRead(role[u], None) ELSE "refused")
  /\ UNCHANGED rowVars

\* assertNotLastOwner
CountOwners(r) ==
  /\ pc[r] = "count" /\ kind[r] \in {"update", "remove"}
  /\ Goto(r, IF Owners \ {target[r]} = {} THEN "refused" ELSE "write")
  /\ UNCHANGED rowVars

\* The update or the delete, by the key of the row: it fails if the row has
\* gone, and looks at nothing else.
Write(r) ==
  /\ pc[r] = "write" /\ kind[r] \in {"update", "remove"}
  /\ IF role[target[r]] = None
       THEN Goto(r, "refused") /\ UNCHANGED <<role, stale>>
       ELSE Goto(r, "done") /\ SetRole(target[r], grant[r])
  /\ UNCHANGED <<staff, inviteVars>>

-----------------------------------------------------------------------------
(* Invitations *)

\* The requests that have read the invitation of u and not written yet.
Accepting(u) ==
  {r \in Requests : kind[r] = "accept" /\ pc[r] = "write" /\ target[r] = u}

\* InvitationsService.create by an owner or an admin, for somebody who is not
\* a member ...
InviteRead(a, u, g) ==
  /\ Claims(a) \intersect {"owner", "admin"} # {}
  /\ role[u] = None /\ g \in Invitable
  /\ Cardinality(inviting) < MaxInviting
  /\ inviting' = inviting \union {<<u, g>>}
  /\ UNCHANGED <<role, staff, invited, holding, stale, pc, askVars>>

\* ... at the time it looked.  A new row replaces an earlier one.
InviteWrite(u, g) ==
  /\ <<u, g>> \in inviting
  /\ inviting' = inviting \ {<<u, g>>}
  /\ invited' = [invited EXCEPT ![u] = g]
  /\ holding' = holding \ Accepting(u)
  /\ UNCHANGED <<role, staff, stale, pc, askVars>>

\* InvitationsService.revoke deletes the row.
Withdraw(u) ==
  /\ invited[u] # None \/ holding \intersect Accepting(u) # {}
  /\ invited' = [invited EXCEPT ![u] = None]
  /\ holding' = holding \ Accepting(u)
  /\ UNCHANGED <<role, staff, inviting, stale, pc, askVars>>

\* The invitation passes its expiresAt.
Lapse(u) ==
  /\ invited[u] # None
  /\ invited' = [invited EXCEPT ![u] = None]
  /\ UNCHANGED <<role, staff, inviting, holding, stale, pc, askVars>>

\* acceptInvitation reads the invitation and the membership ...
AcceptRead(r, u) ==
  /\ Arrive(r, "accept", None, u, invited[u],
            IF invited[u] = None THEN "refused" ELSE "write")
  /\ holding' = IF invited[u] = None THEN holding ELSE holding \union {r}
  /\ UNCHANGED <<role, staff, invited, inviting, stale>>

\* ... and writes: the row of the invitation must still be there, a membership
\* that was read keeps its role, and a new one must not have been created
\* meanwhile.
AcceptWrite(r) ==
  /\ pc[r] = "write" /\ kind[r] = "accept"
  /\ LET u == target[r]
     IN  IF r \in holding /\ (seen[r] = None => role[u] = None)
           THEN /\ Goto(r, "done")
                /\ invited' = [invited EXCEPT ![u] = None]
                /\ IF seen[r] = None THEN SetRole(u, grant[r])
                                     ELSE UNCHANGED <<role, stale>>
           ELSE /\ Goto(r, "refused")
                /\ UNCHANGED <<role, stale, invited>>
  /\ holding' = holding \ {r}
  /\ UNCHANGED <<staff, inviting>>

-----------------------------------------------------------------------------
(* Super Admins *)

\* promote.  (SuperAdminSeeder's own promotion, at a start of the API, only adds
\* to staff and is left out.)
Promote(a, u) ==
  /\ IsStaff(a)
  /\ staff' = staff \union {u}
  /\ UNCHANGED <<role, inviteVars, stale, pc, askVars>>

\* demote of u by a up to its first read; nobody demotes himself.
DemoteRead(r, a, u) ==
  /\ IsStaff(a) /\ a # u
  /\ Arrive(r, "demote", None, u, None, IF u \in staff THEN "count" ELSE "refused")
  /\ UNCHANGED rowVars

\* As if the remaining Super Admins were not counted.
CountNobody(r) ==
  /\ pc[r] = "count" /\ kind[r] = "demote"
  /\ Goto(r, "write")
  /\ UNCHANGED rowVars

CountStaff(r) ==
  /\ pc[r] = "count" /\ kind[r] = "demote"
  /\ Goto(r, IF staff \ {target[r]} = {} THEN "refused" ELSE "write")
  /\ UNCHANGED rowVars

DemoteWrite(r) ==
  /\ pc[r] = "write" /\ kind[r] = "demote"
  /\ Goto(r, "done")
  /\ staff' = staff \ {target[r]}
  /\ stale' = [stale EXCEPT ![target[r]] = @ \union {"staff"}]
  /\ UNCHANGED <<role, inviteVars>>

-----------------------------------------------------------------------------
Asking(r) ==
  \/ \E a, u \in Users, c \in Ranks, g \in Ranks : UpdateRead(r, a, c, u, g)
  \/ \E a, u \in Users, c \in Ranks : RemoveRead(r, a, c, u)
  \/ \E u \in Users : AcceptRead(r, u)
  \/ \E a, u \in Users : DemoteRead(r, a, u)

Going(r) ==
  \/ CountOwners(r)
  \/ Write(r)
  \/ AcceptWrite(r)
  \/ CountStaff(r)
  \/ DemoteWrite(r)

Next ==
  \/ \E r \in Requests : Asking(r) \/ Going(r)
  \/ \E u \in Users : Expire(u) \/ Withdraw(u) \/ Lapse(u)
  \/ \E a, u \in Users : Promote(a, u)
  \/ \E a, u \in Users, g \in Ranks : InviteRead(a, u, g)
  \/ \E u \in Users, g \in Ranks : InviteWrite(u, g)

Spec == Init /\ [][Next]_vars

-----------------------------------------------------------------------------
(* Properties *)

Changed(r) == pc[r] = "done" /\ kind[r] \in {"update", "remove"}
Demoted(r) == pc[r] = "done" /\ kind[r] = "demote"
Overlap(r, q) == r # q /\ r \notin before[q] /\ q \notin before[r]

\* Served one after the other, requests never take the last owner away, even
\* with roles claimed by old tokens: an organization without an owner means
\* that two changes of its members ran at the same time.
OwnerlessNeedsARace ==
  Owners = {} => \E r, q \in Requests : Changed(r) /\ Changed(q) /\ Overlap(r, q)

\* The same for the Super Admins of the platform.
StafflessNeedsARace ==
  staff = {} => \E r, q \in Requests : Demoted(r) /\ Demoted(q) /\ Overlap(r, q)

\* Whoever is an owner was one at the start or was named by a request that
\* claimed an owner's role; no invitation and no admin makes an owner.
OwnersAreNamed ==
  \A u \in Owners : First[u] # "owner" =>
    \E r \in Requests : Changed(r) /\ target[r] = u /\ grant[r] = "owner" /\ claim[r] = "owner"

\* "La organizacion debe conservar al menos un owner."
AnOwnerRemains == Owners # {}
=============================================================================
