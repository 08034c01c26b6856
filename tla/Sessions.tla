------------------------------ MODULE Sessions ------------------------------
(***************************************************************************)
(* Dashboard sessions: refresh tokens, their rotation inside a family, and *)
(* the requests that end them - logout, the removal of a member, the       *)
(* suspension of an organization - while memberships come and go.          *)
(*                                                                         *)
(* AuthService, OrgsService and PlatformService run every request in one   *)
(* or two PostgreSQL transactions at READ COMMITTED: what a request reads  *)
(* may have changed when it writes, a write waits for the row locks of an  *)
(* open transaction, and an exception rolls the whole transaction back.    *)
(* Requests run concurrently, a process may die in the middle of one.      *)
(*                                                                         *)
(* A request issues at most one refresh token, so the token carries the    *)
(* request's name: it exists when pc[r] = "granted", with the user and the *)
(* organization of the request.  Who may remove whom is left to Members.   *)
(***************************************************************************)
EXTENDS Naturals, FiniteSets

CONSTANTS
  Users,
  Orgs,
  Requests,      (* HTTP requests; each one runs once                      *)
  Past,          (* the requests that were logins of an earlier day        *)
  PastUser,      (* PastUser[r], PastOrg[r]: whose session each one opened *)
  PastOrg,
  MayExpire,     (* the tokens that may reach their expiresAt              *)
  Mortal,        (* the requests whose process may die                     *)
  MaxInviting,   (* how many invitations are being created at a time       *)
  None

ASSUME SessionsAssumption ==
  /\ Past \subseteq Requests
  /\ PastUser \in [Past -> Users]
  /\ PastOrg \in [Past -> Orgs]
  /\ MayExpire \subseteq Requests
  /\ Mortal \subseteq Requests
  /\ MaxInviting \in Nat
  /\ None \notin Requests \union Users \union Orgs

VARIABLES
  known,      (* the users and organizations that have a row               *)
  member,     (* memberships, as pairs of a user and an organization       *)
  invited,    (* the pairs with an invitation that may be accepted         *)
  inviting,   (* the pairs an open create has found to be no member        *)
  holding,    (* the accepting requests whose invitation still has its row *)
  suspended,  (* the organizations whose suspendedAt is set                *)
  live,       (* the refresh tokens whose revokedAt is null                *)
  expired,    (* the refresh tokens past their expiresAt                   *)
  family,     (* family[r]: familyId of token r                            *)
  pc,         (* pc[r]: what request r does next, or how it ended          *)
  kind,       (* kind[r]: the operation it asks for                        *)
  who,        (* who[r]: the user it is about                              *)
  where,      (* where[r]: the organization it is about                    *)
  with,       (* with[r]: the refresh token in its cookie                  *)
  caught,     (* caught[r]: tokens a suspension not yet committed revokes  *)
  before      (* before[r]: the requests that had ended when r read first  *)

inviteVars == <<invited, inviting, holding>>
orgVars == <<known, member, inviteVars, suspended>>
tokenVars == <<live, expired, family>>
askVars == <<kind, who, where, with, before>>
vars == <<orgVars, tokenVars, pc, askVars, caught>>

-----------------------------------------------------------------------------
Kind == {"login", "register", "accept", "refresh", "switch",
         "logout", "remove", "suspend", "reactivate"}
Exchanges == {"refresh", "switch"}
Ended == {"granted", "refused", "reused", "done", "dead"}
Step == Ended \union
  {"idle", "issue", "check", "rotate", "create", "join", "enter", "revoke",
   "commit"}

\* The rows of refresh_tokens.
Tokens == {t \in Requests : pc[t] = "granted"}

TypeOK ==
  /\ known \subseteq Users \union Orgs
  /\ member \subseteq Users \X Orgs
  /\ invited \subseteq Users \X Orgs
  /\ inviting \subseteq Users \X Orgs
  /\ holding \subseteq Requests
  /\ suspended \subseteq Orgs
  /\ live \subseteq Tokens
  /\ expired \subseteq Tokens
  /\ family \in [Requests -> Requests]
  /\ pc \in [Requests -> Step]
  /\ kind \in [Requests -> Kind]
  /\ who \in [Requests -> Users \union {None}]
  /\ where \in [Requests -> Orgs \union {None}]
  /\ with \in [Requests -> Requests \union {None}]
  /\ caught \in [Requests -> SUBSET Requests]
  /\ before \in [Requests -> SUBSET Requests]
  /\ \A t \in Tokens : who[t] \in Users /\ where[t] \in Orgs

Init ==
  /\ known = {PastUser[r] : r \in Past} \union {PastOrg[r] : r \in Past}
  /\ member = {<<PastUser[r], PastOrg[r]>> : r \in Past}
  /\ invited = {} /\ inviting = {} /\ holding = {}
  /\ suspended = {}
  /\ live = Past
  /\ expired = {}
  /\ family = [r \in Requests |-> r]
  /\ pc = [r \in Requests |-> IF r \in Past THEN "granted" ELSE "idle"]
  /\ kind = [r \in Requests |-> "login"]
  /\ who = [r \in Requests |-> IF r \in Past THEN PastUser[r] ELSE None]
  /\ where = [r \in Requests |-> IF r \in Past THEN PastOrg[r] ELSE None]
  /\ with = [r \in Requests |-> None]
  /\ caught = [r \in Requests |-> {}]
  /\ before = [r \in Requests |-> {}]

\* A membership that login, refresh and switch-org accept.
Active(u, o) == <<u, o>> \in member /\ o \notin suspended

\* The tokens whose rows an open suspension has locked.
Locked == UNION {caught[q] : q \in {p \in Requests : pc[p] = "commit"}}

-----------------------------------------------------------------------------
\* Request r reads for the first time, and goes on with `next`.
Arrive(r, k, u, o, t, next) ==
  /\ pc[r] = "idle"
  /\ kind' = [kind EXCEPT ![r] = k]
  /\ who' = [who EXCEPT ![r] = u]
  /\ where' = [where EXCEPT ![r] = o]
  /\ with' = [with EXCEPT ![r] = t]
  /\ before' = [before EXCEPT ![r] = {q \in Requests : pc[q] \in Ended}]
  /\ pc' = [pc EXCEPT ![r] = next]

Goto(r, next) ==
  /\ pc' = [pc EXCEPT ![r] = next]
  /\ UNCHANGED askVars

\* AuthService.createRefreshToken, in the family f; the request is answered.
Issue(r, f) ==
  /\ family' = [family EXCEPT ![r] = f]
  /\ pc' = [pc EXCEPT ![r] = "granted"]
  /\ UNCHANGED expired

-----------------------------------------------------------------------------
(* AuthService.login, register *)

\* The first transaction takes the oldest of the user's active memberships;
\* which one is the oldest is left open.
LoginRead(r, u, o) ==
  /\ Active(u, o)
  /\ Arrive(r, "login", u, o, None, "issue")
  /\ UNCHANGED <<orgVars, tokenVars, caught>>

LoginRefused(r, u) ==
  /\ \A o \in Orgs : ~Active(u, o)
  /\ Arrive(r, "login", u, None, None, "refused")
  /\ UNCHANGED <<orgVars, tokenVars, caught>>

\* The second transaction issues the token; it reads no membership again.
LoginIssue(r) ==
  /\ pc[r] = "issue"
  /\ Issue(r, r)
  /\ live' = live \union {r}
  /\ UNCHANGED <<orgVars, askVars, caught>>

Register(r, u, o) ==
  /\ o \notin known
  /\ IF u \in known
       THEN /\ Arrive(r, "register", u, o, None, "refused")
            /\ UNCHANGED <<known, member, live>>
       ELSE /\ Arrive(r, "register", u, o, None, "granted")
            /\ known' = known \union {u, o}
            /\ member' = member \union {<<u, o>>}
            /\ live' = live \union {r}
  /\ UNCHANGED <<inviteVars, suspended, expired, family, caught>>

-----------------------------------------------------------------------------
(* Invitations *)

\* The requests that have read the invitation of u to o and not written yet.
Accepting(u, o) ==
  {r \in Requests : pc[r] \in {"create", "join", "enter"} /\ who[r] = u /\ where[r] = o}

\* InvitationsService.create, for somebody who is not a member ...
InviteRead(u, o) ==
  /\ o \in known
  /\ <<u, o>> \notin member
  /\ Cardinality(inviting) < MaxInviting
  /\ inviting' = inviting \union {<<u, o>>}
  /\ UNCHANGED <<known, member, invited, holding, suspended,
                 tokenVars, pc, askVars, caught>>

\* ... at the time it looked.  A new row replaces the pair's old one.
InviteWrite(u, o) ==
  /\ <<u, o>> \in inviting
  /\ inviting' = inviting \ {<<u, o>>}
  /\ invited' = invited \union {<<u, o>>}
  /\ holding' = holding \ Accepting(u, o)
  /\ UNCHANGED <<known, member, suspended, tokenVars, pc, askVars, caught>>

\* InvitationsService.revoke deletes the row.
Withdraw(u, o) ==
  /\ <<u, o>> \in invited \/ holding \intersect Accepting(u, o) # {}
  /\ invited' = invited \ {<<u, o>>}
  /\ holding' = holding \ Accepting(u, o)
  /\ UNCHANGED <<known, member, inviting, suspended, tokenVars, pc, askVars, caught>>

\* The invitation passes its expiresAt.
Lapse(u, o) ==
  /\ <<u, o>> \in invited
  /\ invited' = invited \ {<<u, o>>}
  /\ UNCHANGED <<known, member, inviting, holding, suspended,
                 tokenVars, pc, askVars, caught>>

\* acceptInvitation up to existingMembership.  It asks whether the
\* organization is deleted, not whether it is suspended.
AcceptRead(r, u, o) ==
  /\ Arrive(r, "accept", u, o, None,
            IF <<u, o>> \notin invited THEN "refused"
            ELSE IF u \notin known THEN "create"
            ELSE IF <<u, o>> \in member THEN "enter" ELSE "join")
  /\ holding' = IF <<u, o>> \in invited THEN holding \union {r} ELSE holding
  /\ UNCHANGED <<known, member, invited, inviting, suspended, tokenVars, caught>>

\* Its writes fail if the invitation's row has gone, or if somebody else has
\* created the account or the membership (both unique).  Whether somebody else
\* has accepted the invitation is not looked at again.
AcceptWrite(r) ==
  /\ pc[r] \in {"create", "join", "enter"}
  /\ LET pair == <<who[r], where[r]>>
     IN  /\ IF /\ r \in holding
               /\ pc[r] = "create" => who[r] \notin known
               /\ pc[r] = "join" => pair \notin member
              THEN /\ invited' = invited \ {pair}
                   /\ member' = IF pc[r] = "enter" THEN member ELSE member \union {pair}
                   /\ known' = known \union {who[r]}
                   /\ Issue(r, r)
                   /\ live' = live \union {r}
                   /\ UNCHANGED askVars
              ELSE /\ Goto(r, "refused")
                   /\ UNCHANGED <<known, invited, member, tokenVars>>
  /\ holding' = holding \ {r}
  /\ UNCHANGED <<inviting, suspended, caught>>

-----------------------------------------------------------------------------
(* AuthService.refresh and switchOrg: read the token, read the membership, *)
(* rotate.                                                                 *)

\* As if the revoked token were not looked at.
RefreshUnread(r, t) ==
  /\ t \in Tokens
  /\ Arrive(r, "refresh", who[t], where[t], t,
            IF t \in expired THEN "refused" ELSE "check")
  /\ UNCHANGED <<orgVars, tokenVars, caught>>

\* A token already revoked is answered SESSION_REVOKED: the update that would
\* revoke its family is in the transaction that the exception rolls back.
RefreshRead(r, t) ==
  /\ t \in Tokens
  /\ Arrive(r, "refresh", who[t], where[t], t,
            IF t \notin live THEN "reused"
            ELSE IF t \in expired THEN "refused" ELSE "check")
  /\ UNCHANGED <<orgVars, tokenVars, caught>>

SwitchRead(r, u, o, t) ==
  /\ t \in Tokens
  /\ Arrive(r, "switch", u, o, t,
            IF who[t] = u /\ t \in live /\ t \notin expired
              THEN "check" ELSE "refused")
  /\ UNCHANGED <<orgVars, tokenVars, caught>>

\* As if the membership were looked up without its organization.
CheckMembershipOnly(r) ==
  /\ pc[r] = "check"
  /\ Goto(r, IF <<who[r], where[r]>> \in member THEN "rotate" ELSE "refused")
  /\ UNCHANGED <<orgVars, tokenVars, caught>>

\* As if only the organization were looked up.
CheckOrganizationOnly(r) ==
  /\ pc[r] = "check"
  /\ Goto(r, IF where[r] \notin suspended THEN "rotate" ELSE "refused")
  /\ UNCHANGED <<orgVars, tokenVars, caught>>

\* Without an active membership refresh revokes the token and throws, which
\* rolls the revocation back; switchOrg throws.
CheckMembership(r) ==
  /\ pc[r] = "check"
  /\ Goto(r, IF Active(who[r], where[r]) THEN "rotate" ELSE "refused")
  /\ UNCHANGED <<orgVars, tokenVars, caught>>

\* The old token is revoked by its id, whatever happened to it since the read.
Rotate(r) ==
  /\ pc[r] = "rotate"
  /\ with[r] \notin Locked
  /\ Issue(r, family[with[r]])
  /\ live' = (live \ {with[r]}) \union {r}
  /\ UNCHANGED <<orgVars, askVars, caught>>

-----------------------------------------------------------------------------
(* What ends sessions *)

Revoke(tokens) ==
  /\ tokens \intersect Locked = {}
  /\ live' = live \ tokens
  /\ UNCHANGED <<expired, family>>

Logout(r, t) ==
  /\ t \in Tokens
  /\ Arrive(r, "logout", who[t], where[t], t, "done")
  /\ Revoke({s \in Tokens : family[s] = family[t]} \intersect live)
  /\ UNCHANGED <<orgVars, caught>>

\* OrgsService.removeMember, first transaction: the membership.
RemoveMember(r, u, o) ==
  /\ <<u, o>> \in member
  /\ Arrive(r, "remove", u, o, None, "revoke")
  /\ member' = member \ {<<u, o>>}
  /\ UNCHANGED <<known, inviteVars, suspended, tokenVars, caught>>

\* As if the second transaction were skipped.
ForgetSessions(r) ==
  /\ pc[r] = "revoke"
  /\ Goto(r, "done")
  /\ UNCHANGED <<orgVars, tokenVars, caught>>

\* Second transaction: the refresh tokens of the user in the organization.
RevokeSessions(r) ==
  /\ pc[r] = "revoke"
  /\ Goto(r, "done")
  /\ Revoke({t \in Tokens : who[t] = who[r] /\ where[t] = where[r]} \intersect live)
  /\ UNCHANGED <<orgVars, caught>>

\* setSuspended(true) up to its updateMany: the rows it caught stay locked
\* and nobody sees its writes before the commit.
Suspend(r, o) ==
  /\ o \in known
  /\ \A q \in Requests : pc[q] = "commit" => where[q] # o
  /\ Arrive(r, "suspend", None, o, None, "commit")
  /\ caught' = [caught EXCEPT ![r] = {t \in Tokens : where[t] = o} \intersect live]
  /\ UNCHANGED <<orgVars, tokenVars>>

SuspendCommit(r) ==
  /\ pc[r] = "commit"
  /\ Goto(r, "done")
  /\ suspended' = suspended \union {where[r]}
  /\ live' = live \ caught[r]
  /\ caught' = [caught EXCEPT ![r] = {}]
  /\ UNCHANGED <<known, member, inviteVars, expired, family>>

\* setSuspended(false); the organization's row may be locked by a suspension.
Reactivate(r, o) ==
  /\ o \in known
  /\ \A q \in Requests : pc[q] = "commit" => where[q] # o
  /\ Arrive(r, "reactivate", None, o, None, "done")
  /\ suspended' = suspended \ {o}
  /\ UNCHANGED <<known, member, inviteVars, tokenVars, caught>>

-----------------------------------------------------------------------------
(* Time and faults *)

Expire(t) ==
  /\ t \in MayExpire \intersect Tokens
  /\ expired' = expired \union {t}
  /\ UNCHANGED <<orgVars, live, family, pc, askVars, caught>>

\* The process dies: an open transaction is rolled back, a committed one not.
Die(r) ==
  /\ r \in Mortal
  /\ pc[r] \notin Ended \union {"idle"}
  /\ Goto(r, "dead")
  /\ caught' = [caught EXCEPT ![r] = {}]
  /\ holding' = holding \ {r}
  /\ UNCHANGED <<known, member, invited, inviting, suspended, tokenVars>>

-----------------------------------------------------------------------------
Asking(r) ==
  \/ \E u \in Users, o \in Orgs : LoginRead(r, u, o)
  \/ \E u \in Users : LoginRefused(r, u)
  \/ \E u \in Users, o \in Orgs : Register(r, u, o)
  \/ \E u \in Users, o \in Orgs : AcceptRead(r, u, o)
  \/ \E t \in Requests : RefreshRead(r, t)
  \/ \E u \in Users, o \in Orgs, t \in Requests : SwitchRead(r, u, o, t)
  \/ \E t \in Requests : Logout(r, t)
  \/ \E u \in Users, o \in Orgs : RemoveMember(r, u, o)
  \/ \E o \in Orgs : Suspend(r, o)
  \/ \E o \in Orgs : Reactivate(r, o)

Going(r) ==
  \/ LoginIssue(r)
  \/ AcceptWrite(r)
  \/ CheckMembership(r)
  \/ Rotate(r)
  \/ RevokeSessions(r)
  \/ SuspendCommit(r)

Next ==
  \/ \E r \in Requests : Asking(r) \/ Going(r) \/ Expire(r) \/ Die(r)
  \/ \E u \in Users, o \in Orgs :
       InviteRead(u, o) \/ InviteWrite(u, o) \/ Withdraw(u, o) \/ Lapse(u, o)

Spec == Init /\ [][Next]_vars

-----------------------------------------------------------------------------
(* Properties *)

Exchanged(r) == pc[r] = "granted" /\ kind[r] \in Exchanges

\* A refresh token buys one new token.  Two requests can exchange the same
\* token only if they ran at the same time: one that begins when the other has
\* been answered finds the token revoked.
SpentOnce ==
  \A r, q \in Requests :
    Exchanged(r) /\ Exchanged(q) /\ r # q /\ with[r] = with[q]
      => q \notin before[r]

\* Every token of a family belongs to one user, also after switch-org.
FamilyHasOneUser ==
  \A s, t \in Tokens : family[s] = family[t] => who[s] = who[t]

SamePair(r, q) == who[r] = who[q] /\ where[r] = where[q]

\* Who was removed from an organization gets no session there by a request
\* that begins when the removal has been answered, however many of the old
\* tokens survived, unless an invitation was accepted in between.
RemovedStayOut ==
  \A r, q \in Requests :
    /\ pc[r] = "granted"
    /\ kind[q] = "remove" /\ pc[q] = "done" /\ q \in before[r]
    /\ SamePair(r, q)
    => \E j \in Tokens : kind[j] = "accept" /\ SamePair(j, q) /\ j \notin before[q]

\* No login, refresh or switch-org that begins when an organization has been
\* suspended opens a session there, unless it was reactivated in between.
SuspendedStayOut ==
  \A r, q \in Requests :
    /\ pc[r] = "granted" /\ kind[r] \in {"login", "refresh", "switch"}
    /\ kind[q] = "suspend" /\ pc[q] = "done" /\ q \in before[r]
    /\ where[r] = where[q]
    => \E j \in Requests : /\ kind[j] = "reactivate" /\ pc[j] = "done"
                           /\ where[j] = where[q] /\ j \notin before[q]

\* The tokens a logout, a removal or a suspension is about.
Covers(q, t) ==
  \/ kind[q] = "logout" /\ family[t] = family[with[q]]
  \/ kind[q] = "remove" /\ SamePair(t, q)
  \/ kind[q] = "suspend" /\ where[t] = where[q]

\* When a logout, a removal or a suspension has been answered, every token it
\* is about that was issued before it began is revoked, for good.  Only what
\* was being issued meanwhile may outlive it.
OldSessionsEnd ==
  \A q \in Requests, t \in Tokens :
    pc[q] = "done" /\ Covers(q, t) /\ t \in before[q] => t \notin live

\* "si un refresh revocado se reusa, se revoca toda la familia": once a reused
\* token has been answered SESSION_REVOKED, no token of its family that was
\* there when the request began is still valid.
ReuseEndsTheFamily ==
  \A r \in Requests, t \in Tokens :
    pc[r] = "reused" /\ t \in before[r] /\ family[t] = family[with[r]]
      => t \notin live
=============================================================================
