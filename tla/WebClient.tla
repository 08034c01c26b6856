----------------------------- MODULE WebClient -----------------------------
(***************************************************************************)
(* The session of a browser tab: the refresh token in a cookie that all    *)
(* tabs share, the access token in the memory of the tab, the organization *)
(* it shows, and the requests it makes.                                    *)
(*                                                                         *)
(* A request that is answered 401 refreshes the session and is sent once   *)
(* more; several requests of a tab do so independently.  Serving a request *)
(* and receiving its answer are steps of their own, and the answer may be  *)
(* lost.  The other tabs of the browser are abstracted to what they do to  *)
(* the cookie.                                                             *)
(*                                                                         *)
(* Access tokens expire at any time: any request may be answered 401.  The *)
(* server's side of the refresh tokens is the module Sessions; here it is  *)
(* one statement per request.                                              *)
(***************************************************************************)
EXTENDS Naturals

CONSTANTS
  Orgs,       (* organizations                                             *)
  Mine,       (* those the user is a member of                             *)
  Calls,      (* requests that are under way at the same time              *)
  MaxTokens,  (* bound: refresh tokens that are ever issued                *)
  MaxEvents,  (* bound: what the user does to the session and goes wrong   *)
  Nothing, Nobody, Unknown

ASSUME WebClientAssumption ==
  /\ Mine \subseteq Orgs /\ Mine # {}
  /\ MaxTokens \in Nat \ {0} /\ MaxEvents \in Nat
  /\ {Nothing, Nobody, Unknown} \intersect Orgs = {} /\ Nobody # Unknown

VARIABLES
  token,   (* token[n]: a refresh token as the server has it               *)
  issued,  (* how many have been issued                                    *)
  cookie,  (* the one in the browser's cookie, 0 without                   *)
  other,   (* the one on its way to another tab, 0 without                 *)
  access,  (* accessToken of lib/api.ts                                    *)
  me,      (* the organization of the profile that is shown                *)
  banner,  (* impersonating                                                *)
  call,    (* call[c]: a request                                           *)
  lost,    (* whether the successor of a token has been lost               *)
  mixed,   (* whether it may act for an organization it does not show      *)
  left     (* how many of MaxEvents may still happen                       *)

sessionVars == <<token, issued, cookie, other, access, me, banner>>
clientVars == <<sessionVars, call, lost, mixed, left>>

-----------------------------------------------------------------------------
Numbers == 1..MaxTokens
Access == [org : Orgs, imp : BOOLEAN]
SessionOps == {"boot", "login", "switch", "enter", "leave", "logout", "me", "bootMe"}
PageOps == {"list", "post", "act", "ignored"}
CallAt == {"idle", "sent", "ok", "unauthorized", "failed",
           "refreshing", "rotated", "refused"}
Call == [op : SessionOps \union PageOps, at : CallAt, org : Orgs \union {Nothing},
         acc : Access \union {Nothing}, tok : 0..MaxTokens, again : BOOLEAN, ver : Nat]

NoCall == [op |-> "me", at |-> "idle", org |-> Nothing, acc |-> Nothing, tok |-> 0,
           again |-> FALSE, ver |-> 0]

ClientTypeOK ==
  /\ token \in [Numbers -> [org : Orgs \union {Nothing}, fam : 0..MaxTokens,
                            state : {"free", "live", "rotated", "ended"}]]
  /\ issued \in 0..MaxTokens
  /\ cookie \in 0..issued /\ other \in 0..issued
  /\ access \in Access \union {Nothing}
  /\ me \in Orgs \union {Nobody, Unknown} /\ banner \in BOOLEAN
  /\ call \in [Calls -> Call]
  /\ lost \in BOOLEAN /\ mixed \in BOOLEAN /\ left \in 0..MaxEvents
  /\ \A n \in Numbers : (token[n].state = "free") = (n > issued)

\* A browser that has a session from before, or none.
ClientInit ==
  /\ \E o \in Mine, there \in BOOLEAN :
       /\ token = [n \in Numbers |->
            IF n = 1 /\ there THEN [org |-> o, fam |-> 1, state |-> "live"]
            ELSE [org |-> Nothing, fam |-> 0, state |-> "free"]]
       /\ issued = IF there THEN 1 ELSE 0
  /\ cookie = issued /\ other = 0
  /\ access = Nothing /\ me = Unknown /\ banner = FALSE
  /\ call = [c \in Calls |-> NoCall]
  /\ lost = FALSE /\ mixed = FALSE /\ left = MaxEvents

Event == left > 0 /\ left' = left - 1

-----------------------------------------------------------------------------
(* The server's refresh tokens. *)

Live(n) == n # 0 /\ token[n].state = "live"

\* createRefreshToken of a new family, or of that of token n, which it ends.
Issue(o) ==
  /\ issued < MaxTokens
  /\ issued' = issued + 1
  /\ token' = [token EXCEPT ![issued + 1] =
                 [org |-> o, fam |-> issued + 1, state |-> "live"]]

Rotate(n, o) ==
  /\ issued < MaxTokens
  /\ issued' = issued + 1
  /\ token' = [token EXCEPT ![n].state = "rotated",
                            ![issued + 1] = [org |-> o, fam |-> token[n].fam,
                                             state |-> "live"]]

\* logout, and whatever else revokes the tokens of a family.
EndFamily(n) ==
  token' = IF n = 0 THEN token
           ELSE [m \in Numbers |->
                   IF token[m].fam = token[n].fam /\ token[m].state = "live"
                   THEN [token[m] EXCEPT !.state = "ended"] ELSE token[m]]

-----------------------------------------------------------------------------
(* request and tryRefresh of lib/api.ts. *)

Send(c, op, o) ==
  /\ call[c].at = "idle"
  /\ call' = [call EXCEPT ![c] = [NoCall EXCEPT !.op = op, !.at = "sent", !.org = o,
                                                !.acc = access, !.tok = cookie]]

SendRefresh(c, op) ==
  /\ call[c].at = "idle"
  /\ call' = [call EXCEPT ![c] = [NoCall EXCEPT !.op = op, !.at = "refreshing",
                                                !.tok = cookie]]

Answered(c, answer) == call' = [call EXCEPT ![c].at = answer]

\* JwtAuthGuard: without a token, or with one that has expired.
Unauthorized(c) ==
  /\ call[c].at = "sent" /\ call[c].op \notin {"login", "logout"}
  /\ Answered(c, "unauthorized")
  /\ UNCHANGED <<sessionVars, lost, mixed>>
  /\ IF call[c].acc = Nothing THEN UNCHANGED left ELSE Event

\* Any error that has nothing to do with the session.
Broken(c) ==
  /\ call[c].at = "sent"
  /\ Answered(c, "failed")
  /\ UNCHANGED <<sessionVars, lost, mixed>>
  /\ Event

Authorized(c) == call[c].at = "sent" /\ call[c].acc # Nothing

\* Without _retried: the session is refreshed.
RefreshFirst(c) ==
  /\ call[c].at = "unauthorized" /\ ~call[c].again
  /\ call' = [call EXCEPT ![c].at = "refreshing", ![c].tok = cookie]
  /\ UNCHANGED <<left, sessionVars, lost, mixed>>

\* As if the new session were for any organization of the user.
ServeRefreshAny(c) ==
  /\ call[c].at = "refreshing"
  /\ IF Live(call[c].tok)
     THEN \E o \in Mine :
            /\ Rotate(call[c].tok, o)
            /\ call' = [call EXCEPT ![c].at = "rotated", ![c].tok = issued + 1]
     ELSE Answered(c, "refused") /\ UNCHANGED <<token, issued>>
  /\ UNCHANGED <<left, cookie, other, access, me, banner, lost, mixed>>

\* refresh: only the token that is presented counts, not the access token.
ServeRefresh(c) ==
  /\ call[c].at = "refreshing"
  /\ IF Live(call[c].tok)
     THEN /\ Rotate(call[c].tok, token[call[c].tok].org)
          /\ call' = [call EXCEPT ![c].at = "rotated", ![c].tok = issued + 1]
     ELSE Answered(c, "refused") /\ UNCHANGED <<token, issued>>
  /\ UNCHANGED <<left, cookie, other, access, me, banner, lost, mixed>>

Own(n) == [org |-> token[n].org, imp |-> FALSE]

\* An answer that was overtaken by that of a later session.
Overtaken(n) == n < cookie

\* The cookie and the access token are replaced, and the request is repeated
\* with what is the access token now; or the profile is loaded.
Refreshed(c) ==
  /\ call[c].at = "rotated"
  /\ cookie' = call[c].tok
  /\ access' = Own(call[c].tok)
  /\ banner' = (banner /\ call[c].op # "leave")
  /\ call' = [call EXCEPT ![c] =
       CASE call[c].op = "boot" -> [NoCall EXCEPT !.op = "bootMe", !.at = "sent", !.acc = access']
         [] call[c].op = "leave" -> [NoCall EXCEPT !.op = "me", !.at = "sent", !.acc = access']
         [] OTHER -> [call[c] EXCEPT !.at = "sent", !.acc = access', !.again = TRUE,
                                     !.tok = cookie']]
  /\ mixed' = \/ mixed \/ Overtaken(call[c].tok)
              \/ banner /\ call[c].op # "leave"
  /\ UNCHANGED <<left, token, issued, other, me, lost>>

\* What a request that comes to nothing leaves behind.
Fails(c) ==
  /\ me' = IF call[c].op \in {"boot", "bootMe", "leave", "logout"} THEN Nobody ELSE me
  /\ banner' = (banner /\ call[c].op # "leave")
  /\ mixed' = (mixed \/ (call[c].op = "me" /\ me \in Orgs))
  /\ call' = [call EXCEPT ![c] = NoCall]

\* The refresh is refused, by a server that knows why.
Refused(c) ==
  /\ call[c].at = "refused" /\ call[c].op \in SessionOps
  /\ access' = Nothing
  /\ Fails(c)
  /\ UNCHANGED <<left, token, issued, cookie, other, lost>>

\* An answer that is an error, or the second 401.
Rejected(c) ==
  /\ call[c].op \in SessionOps
  /\ \/ call[c].at = "failed"
     \/ call[c].at = "unauthorized" /\ call[c].again
  /\ access' = IF call[c].op = "logout" THEN Nothing ELSE access
  /\ Fails(c)
  /\ UNCHANGED <<left, token, issued, cookie, other, lost>>

\* Answers that carry a cookie.
Carries(c) ==
  \/ call[c].at = "rotated"
  \/ call[c].at = "ok" /\ call[c].op \in {"login", "switch"}

\* The request or its answer is lost: fetch throws.
Lost(c) ==
  /\ call[c].at # "idle" /\ call[c].op \in SessionOps
  /\ lost' = (lost \/ Carries(c))
  /\ access' = IF call[c].at \in {"refreshing", "rotated", "refused"} \/ call[c].op = "logout"
               THEN Nothing ELSE access
  /\ Fails(c)
  /\ UNCHANGED <<token, issued, cookie, other>>
  /\ Event

-----------------------------------------------------------------------------
(* The operations of lib/auth-context.tsx. *)

\* Nothing that changes the session is under way in this tab.
AtRest == \A c \in Calls : call[c].at # "idle" => call[c].op \in PageOps

\* Two operations of the session in a tab at the same time mix it up.
Begins ==
  /\ mixed' = (mixed \/ ~AtRest)
  /\ UNCHANGED <<sessionVars, lost>>

\* The tab is opened or loaded again.
Boot(c) ==
  /\ me = Unknown /\ \A d \in Calls : call[d].op \notin {"boot", "bootMe"} \/ call[d].at = "idle"
  /\ SendRefresh(c, "boot")
  /\ Begins
  /\ UNCHANGED left

\* So does one that begins a session while requests of the one before are under
\* way: nothing cancels them, and they refresh the session that they belong to.
Login(c) ==
  /\ me = Nobody /\ Send(c, "login", Nothing)
  /\ mixed' = (mixed \/ \E d \in Calls : call[d].at # "idle")
  /\ UNCHANGED <<sessionVars, lost>>
  /\ Event

SwitchOrg(c, o) ==
  /\ me \in Orgs /\ o \in Mine \ {me} /\ Send(c, "switch", o)
  /\ Begins
  /\ Event

\* impersonate, by a Super Admin.
Enter(c, o) ==
  /\ me \in Orgs /\ ~banner /\ Send(c, "enter", o)
  /\ Begins
  /\ Event

\* stopImpersonation.
Leave(c) ==
  /\ me \in Orgs /\ banner /\ SendRefresh(c, "leave")
  /\ Begins
  /\ Event

Logout(c) ==
  /\ me \in Orgs /\ Send(c, "logout", Nothing)
  /\ Begins
  /\ Event

ServeLogin(c) ==
  /\ call[c].at = "sent" /\ call[c].op = "login"
  /\ \/ \E o \in Mine :
          /\ Issue(o)
          /\ call' = [call EXCEPT ![c].at = "ok", ![c].org = o, ![c].tok = issued + 1]
     \/ Answered(c, "unauthorized") /\ UNCHANGED <<token, issued>>
  /\ UNCHANGED <<left, cookie, other, access, me, banner, lost, mixed>>

\* switch-org, of a session of the same user.
ServeSwitch(c) ==
  /\ Authorized(c) /\ call[c].op = "switch"
  /\ IF Live(call[c].tok)
     THEN /\ Rotate(call[c].tok, call[c].org)
          /\ call' = [call EXCEPT ![c].at = "ok", ![c].tok = issued + 1]
     ELSE Answered(c, "unauthorized") /\ UNCHANGED <<token, issued>>
  /\ UNCHANGED <<left, cookie, other, access, me, banner, lost, mixed>>

ServeEnter(c) ==
  /\ Authorized(c) /\ call[c].op = "enter"
  /\ Answered(c, "ok")
  /\ UNCHANGED <<left, sessionVars, lost, mixed>>

ServeLogout(c) ==
  /\ call[c].at = "sent" /\ call[c].op = "logout"
  /\ EndFamily(call[c].tok)
  /\ Answered(c, "ok")
  /\ UNCHANGED <<left, issued, cookie, other, access, me, banner, lost, mixed>>

\* me: only organizations the user is a member of have a profile.
ServeMe(c) ==
  /\ Authorized(c) /\ call[c].op \in {"me", "bootMe"}
  /\ call' = IF call[c].acc.org \in Mine
             THEN [call EXCEPT ![c].at = "ok", ![c].org = call[c].acc.org]
             ELSE [call EXCEPT ![c].at = "unauthorized"]
  /\ UNCHANGED <<left, sessionVars, lost, mixed>>

\* login and switchOrg: the session is adopted and the profile loaded.  As if
\* the answer to a switch had no cookie.
AdoptWithoutCookie(c) ==
  /\ call[c].at = "ok" /\ call[c].op \in {"login", "switch"}
  /\ cookie' = IF call[c].op = "switch" THEN cookie ELSE call[c].tok
  /\ access' = [org |-> call[c].org, imp |-> FALSE]
  /\ call' = [call EXCEPT ![c] = [NoCall EXCEPT !.op = "me", !.at = "sent", !.acc = access']]
  /\ UNCHANGED <<left, token, issued, other, me, banner, lost, mixed>>

Adopt(c) ==
  /\ call[c].at = "ok" /\ call[c].op \in {"login", "switch"}
  /\ cookie' = call[c].tok
  /\ access' = [org |-> call[c].org, imp |-> FALSE]
  /\ mixed' = (mixed \/ Overtaken(call[c].tok))
  /\ call' = [call EXCEPT ![c] = [NoCall EXCEPT !.op = "me", !.at = "sent", !.acc = access']]
  /\ UNCHANGED <<left, token, issued, other, me, banner, lost>>

Entered(c) ==
  /\ call[c].at = "ok" /\ call[c].op = "enter"
  /\ access' = [org |-> call[c].org, imp |-> TRUE]
  /\ banner' = TRUE
  /\ call' = [call EXCEPT ![c] = [NoCall EXCEPT !.op = "me", !.at = "sent", !.acc = access']]
  /\ UNCHANGED <<left, token, issued, cookie, other, me, lost, mixed>>

LoggedOut(c) ==
  /\ call[c].at = "ok" /\ call[c].op = "logout"
  /\ cookie' = 0 /\ access' = Nothing /\ me' = Nobody
  /\ call' = [call EXCEPT ![c] = NoCall]
  /\ UNCHANGED <<left, token, issued, other, banner, lost, mixed>>

\* loadMe: the profile of whatever organization the request was for.
Loaded(c) ==
  /\ call[c].at = "ok" /\ call[c].op \in {"me", "bootMe"}
  /\ me' = call[c].org
  /\ call' = [call EXCEPT ![c] = NoCall]
  /\ UNCHANGED <<left, token, issued, cookie, other, access, banner, lost, mixed>>

-----------------------------------------------------------------------------
(* The rest of the browser and the server. *)

\* Another tab refreshes, or changes the organization; later it has the answer.
OtherRotates(o) ==
  /\ other = 0 /\ Live(cookie)
  /\ Rotate(cookie, o)
  /\ other' = issued + 1
  /\ UNCHANGED <<cookie, access, me, banner, call, lost, mixed>>
  /\ Event

OtherReceives ==
  /\ other # 0
  /\ cookie' = other /\ other' = 0
  /\ mixed' = \/ mixed \/ Overtaken(other)
              \/ cookie = 0 \/ token[other].org # token[cookie].org
              \/ token[other].fam # token[cookie].fam
  /\ UNCHANGED <<left, token, issued, access, me, banner, call, lost>>

\* The session ends: a logout elsewhere, a removal, a suspension, its expiry.
SessionEnds ==
  /\ Live(cookie)
  /\ EndFamily(cookie)
  /\ UNCHANGED <<issued, cookie, other, access, me, banner, call, lost, mixed>>
  /\ Event

\* The page is loaded again: what was under way is given up.
Reload ==
  /\ me \in Orgs
  /\ access' = Nothing /\ me' = Unknown /\ banner' = FALSE /\ mixed' = FALSE
  /\ lost' = (lost \/ \E c \in Calls : Carries(c))
  /\ call' = [c \in Calls |-> NoCall]
  /\ UNCHANGED <<token, issued, cookie, other>>

ClientStep(c) ==
  \/ Boot(c) \/ Login(c) \/ Leave(c) \/ Logout(c)
  \/ \E o \in Orgs : SwitchOrg(c, o) \/ Enter(c, o)
  \/ Unauthorized(c) \/ Broken(c) \/ RefreshFirst(c) \/ ServeRefresh(c) \/ Refreshed(c)
  \/ Refused(c) \/ Rejected(c) \/ Lost(c)
  \/ ServeLogin(c) \/ ServeSwitch(c) \/ ServeEnter(c) \/ ServeLogout(c) \/ ServeMe(c)
  \/ Adopt(c) \/ Entered(c) \/ LoggedOut(c) \/ Loaded(c)

Elsewhere ==
  \/ \E o \in Mine : OtherRotates(o)
  \/ OtherReceives
  \/ SessionEnds

-----------------------------------------------------------------------------
(* Properties. *)

\* The successor of a token is on its way to the browser.
OnItsWay ==
  \/ other # 0
  \/ \E c \in Calls : Carries(c)

\* The cookie is a token that can still be used, unless its family was ended,
\* the answer with its successor was lost, or that answer is on its way: a user
\* is not logged out by requests of his own that do not cross.
\* (lib/api.ts: "ante un 401 se intenta UNA rotación")
CookieIsLive ==
  cookie # 0 => \/ token[cookie].state \in {"live", "ended"}
                \/ lost
                \/ OnItsWay

\* The tab acts for the organization that it shows, unless it was mixed up:
\* another tab changed the organization or the session, two operations overlapped,
\* a login overlapped with requests of the session before, answers came in another
\* order, a profile was not loaded, or an impersonation ended.
\* (JwtAuthGuard takes the organization from the access token alone)
ActsForShown ==
  AtRest /\ access # Nothing /\ me \in Orgs /\ ~mixed => access.org = me

\* While the banner is shown the tab acts as a Super Admin in the tenant that
\* it names.  The code does not keep this: a tenant of which the Super Admin
\* is no member has no profile, the 401 refreshes the session, and the tab is
\* back in his own organization.
\* (layout.tsx: "Estás operando como Super Admin dentro de")
BannerIsTrue ==
  AtRest /\ banner /\ access # Nothing => access.imp /\ access.org = me

=============================================================================
