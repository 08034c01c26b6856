------------------------------ MODULE Channels ------------------------------
(***************************************************************************)
(* The channels: Instagram accounts that organizations connect by OAuth,   *)
(* by Instagram Login or by Facebook Login, and the tokens they are used   *)
(* with.                                                                   *)
(*                                                                         *)
(* An authorization at Meta gives one or several accounts; with several    *)
(* the candidates stay in Redis until one is selected.  Then the row is    *)
(* looked for, written, and the account is subscribed to webhooks.  Checks *)
(* of a channel, the daily renewal of tokens and every message sent read   *)
(* the row, ask Meta and write what they have learnt, all with the row as  *)
(* it was before the call.                                                 *)
(*                                                                         *)
(* A token is named by the authorization it comes from, and a renewed one  *)
(* likewise.  What Meta does is external: it revokes tokens and keeps the  *)
(* subscriptions.                                                          *)
(***************************************************************************)
EXTENDS Naturals, FiniteSets

CONSTANTS
  Orgs,      (* organizations                                              *)
  Accounts,  (* Instagram accounts                                         *)
  Flows,     (* authorizations; each is asked for once                     *)
  Tasks,     (* requests and jobs; each runs once                          *)
  None

VARIABLES
  row,        (* row[a]: the channel of account a, if there is one         *)
  flow,       (* flow[f]: an authorization, its owner and its candidates   *)
  at,         (* at[t]: what task t does next                              *)
  acct,       (* acct[t]: the account it is about                          *)
  tok,        (* tok[t]: the token it has got or read                      *)
  had,        (* had[t]: whether it has found a row                        *)
  said,       (* said[t]: what Meta has answered                           *)
  dead,       (* the tokens that Meta does not accept any more             *)
  unrenewed,  (* the tokens whose renewal has failed                       *)
  subscribed, (* the accounts whose events Meta delivers                   *)
  cut,        (* the accounts disconnected and not connected again         *)
  crossed     (* the accounts written to for a token they no longer had    *)

taskVars == <<at, acct, tok, had, said>>
metaVars == <<dead, subscribed>>
history == <<unrenewed, cut, crossed>>
vars == <<row, flow, taskVars, metaVars, history>>

-----------------------------------------------------------------------------
Type == {"instagram_login", "facebook_login"}
ChannelStatus == {"active", "token_expired", "error", "disconnected"}
Channel == [org : Orgs, type : Type, token : Flows, status : ChannelStatus,
            hooks : BOOLEAN, due : BOOLEAN]

ASSUME ChannelsAssumption == None \notin Orgs \union Accounts \union Flows \union Channel

FlowAt == {"idle", "asked", "choose", "over"}
TaskAt == {"idle", "lookup", "save", "subscribe", "mark", "probe", "endCheck",
           "refresh", "endRenewal", "send", "endSend", "over"}
Calling == {"subscribe", "probe", "refresh", "send"}

There(a) == row[a] # None

TypeOK ==
  /\ row \in [Accounts -> Channel \union {None}]
  /\ flow \in [Flows -> [at : FlowAt, org : Orgs \union {None},
                         type : Type, accounts : SUBSET Accounts]]
  /\ at \in [Tasks -> TaskAt]
  /\ acct \in [Tasks -> Accounts \union {None}]
  /\ tok \in [Tasks -> Flows \union {None}]
  /\ had \in [Tasks -> BOOLEAN]
  /\ said \in [Tasks -> {"nothing", "ok", "refused", "failed"}]
  /\ dead \subseteq Flows /\ unrenewed \subseteq Flows
  /\ subscribed \subseteq Accounts /\ cut \subseteq Accounts
  /\ crossed \subseteq Accounts
  /\ \A f \in Flows : flow[f].at = "choose" => flow[f].accounts # {}

Init ==
  /\ row = [a \in Accounts |-> None]
  /\ flow \in [Flows -> [at : {"idle"}, org : {None},
                         type : {"instagram_login"}, accounts : {{}}]]
  /\ at = [t \in Tasks |-> "idle"]
  /\ acct = [t \in Tasks |-> None]
  /\ tok = [t \in Tasks |-> None]
  /\ had = [t \in Tasks |-> FALSE]
  /\ said = [t \in Tasks |-> "nothing"]
  /\ dead = {} /\ unrenewed = {} /\ subscribed = {} /\ cut = {} /\ crossed = {}

Goto(t, place) == at' = [at EXCEPT ![t] = place]

-----------------------------------------------------------------------------
(* The OAuth flow. *)

\* connect: the state that is signed names the organization.
Connect(f, o, type) ==
  /\ flow[f].at = "idle"
  /\ flow' = [flow EXCEPT ![f] = [at |-> "asked", org |-> o, type |-> type,
                                  accounts |-> {}]]
  /\ UNCHANGED <<row, taskVars, metaVars, history>>

\* Denied, or never finished; or the session in Redis has expired.
ExpireFlow(f) ==
  /\ flow[f].at \in {"asked", "choose"}
  /\ flow' = [flow EXCEPT ![f].at = "over"]
  /\ UNCHANGED <<row, taskVars, metaVars, history>>

\* What Meta may grant: Instagram Login is for one account.
Grants(f, S) ==
  flow[f].type = "instagram_login" => Cardinality(S) = 1

\* As if an authorization without accounts were not an error.
CallbackUnchecked(t, f, S) ==
  /\ at[t] = "idle" /\ flow[f].at = "asked" /\ Grants(f, S)
  /\ IF Cardinality(S) = 1
     THEN /\ flow' = [flow EXCEPT ![f].at = "over", ![f].accounts = S]
          /\ Goto(t, "lookup")
          /\ \E a \in S : acct' = [acct EXCEPT ![t] = a]
          /\ tok' = [tok EXCEPT ![t] = f]
     ELSE /\ flow' = [flow EXCEPT ![f].at = "choose", ![f].accounts = S]
          /\ Goto(t, "over")
          /\ UNCHANGED <<acct, tok>>
  /\ UNCHANGED <<row, had, said, metaVars, history>>

\* handleCallback: no account is an error, a single one is connected at once,
\* several are kept for the user to choose.
Callback(t, f, S) ==
  /\ at[t] = "idle" /\ flow[f].at = "asked" /\ Grants(f, S)
  /\ IF Cardinality(S) = 1
     THEN /\ flow' = [flow EXCEPT ![f].at = "over", ![f].accounts = S]
          /\ Goto(t, "lookup")
          /\ \E a \in S : acct' = [acct EXCEPT ![t] = a]
          /\ tok' = [tok EXCEPT ![t] = f]
     ELSE /\ flow' = [flow EXCEPT ![f].at = IF S = {} THEN "over" ELSE "choose",
                                  ![f].accounts = S]
          /\ Goto(t, "over")
          /\ UNCHANGED <<acct, tok>>
  /\ UNCHANGED <<row, had, said, metaVars, history>>

\* selectAccount, by an admin of organization o; twice at a time, even.
SelectAccount(t, o, f, a) ==
  /\ at[t] = "idle" /\ flow[f].at = "choose" /\ flow[f].org = o
  /\ a \in flow[f].accounts
  /\ Goto(t, "lookup")
  /\ acct' = [acct EXCEPT ![t] = a]
  /\ tok' = [tok EXCEPT ![t] = f]
  /\ UNCHANGED <<row, flow, had, said, metaVars, history>>

-----------------------------------------------------------------------------
(* createChannel. *)

\* An account of another organization cannot be connected.
Lookup(t) ==
  /\ at[t] = "lookup"
  /\ had' = [had EXCEPT ![t] = There(acct[t])]
  /\ Goto(t, IF There(acct[t]) /\ row[acct[t]].org # flow[tok[t]].org
             THEN "over" ELSE "save")
  /\ UNCHANGED <<row, flow, acct, tok, said, metaVars, history>>

Connected(t, hooks) ==
  [org |-> flow[tok[t]].org, type |-> flow[tok[t]].type, token |-> tok[t],
   status |-> "active", hooks |-> hooks, due |-> FALSE]

\* As if the row were upserted, whoever has it by now.
SaveUpsert(t) ==
  /\ at[t] = "save"
  /\ row' = [row EXCEPT ![acct[t]] =
               IF There(acct[t]) THEN [Connected(t, @.hooks) EXCEPT !.org = row[acct[t]].org]
               ELSE Connected(t, FALSE)]
  /\ cut' = cut \ {acct[t]} /\ crossed' = crossed \ {acct[t]}
  /\ Goto(t, "subscribe")
  /\ UNCHANGED <<flow, acct, tok, had, said, metaVars, unrenewed>>

\* The transaction updates the row that was found or creates one; of two that
\* create one, the second fails: igUserId is unique.
Save(t) ==
  /\ at[t] = "save"
  /\ IF had[t] = There(acct[t])
     THEN /\ row' = [row EXCEPT ![acct[t]] =
                       Connected(t, had[t] /\ row[acct[t]].hooks)]
          /\ cut' = cut \ {acct[t]} /\ crossed' = crossed \ {acct[t]}
          /\ Goto(t, "subscribe")
     ELSE Goto(t, "over") /\ UNCHANGED <<row, cut, crossed>>
  /\ UNCHANGED <<flow, acct, tok, had, said, metaVars, unrenewed>>

\* The outcome of the subscription, and the end of the session.
Mark(t) ==
  /\ at[t] = "mark"
  /\ row' = [row EXCEPT ![acct[t]].hooks = (said[t] = "ok")]
  /\ flow' = [flow EXCEPT ![tok[t]].at = "over"]
  /\ Goto(t, "over")
  /\ UNCHANGED <<acct, tok, had, said, metaVars, history>>

-----------------------------------------------------------------------------
(* What Meta answers to a call with a token. *)

After(place) == CASE place = "subscribe" -> "mark"
                  [] place = "probe" -> "endCheck"
                  [] place = "refresh" -> "endRenewal"
                  [] place = "send" -> "endSend"

\* subscribeWebhooks: an error is no reason to undo the connection.
Subscribes(t, answer) ==
  subscribed' = IF at[t] = "subscribe" /\ answer = "ok"
                THEN subscribed \union {acct[t]} ELSE subscribed

Call(t, answer) ==
  /\ at[t] \in Calling
  /\ answer = "ok" => tok[t] \notin dead
  /\ answer = "refused" => tok[t] \in dead
  /\ said' = [said EXCEPT ![t] = answer]
  /\ Subscribes(t, answer)
  /\ Goto(t, After(at[t]))
  /\ UNCHANGED <<row, flow, acct, tok, had, dead, history>>

\* A token expires, or its owner revokes it.
TokenDies(f) ==
  /\ flow[f].at \in {"choose", "over"} /\ f \notin dead
  /\ dead' = dead \union {f}
  /\ UNCHANGED <<row, flow, taskVars, subscribed, history>>

-----------------------------------------------------------------------------
(* Checks, renewals, messages: the row is read, then written to. *)

Read(t, a, place) ==
  /\ at[t] = "idle" /\ There(a)
  /\ acct' = [acct EXCEPT ![t] = a]
  /\ tok' = [tok EXCEPT ![t] = row[a].token]
  /\ Goto(t, place)
  /\ UNCHANGED <<row, flow, had, said, metaVars, history>>

\* What is written is about a token that the row may not have any more.
Cross(t) ==
  crossed' = IF row[acct[t]].token # tok[t] THEN crossed \union {acct[t]} ELSE crossed

\* healthCheck, of a channel in any status.
HealthCheck(t, a) == Read(t, a, "probe")

\* As if any error were taken for the end of the token.
EndCheckAnyError(t) ==
  /\ at[t] = "endCheck"
  /\ row' = [row EXCEPT ![acct[t]].status =
               IF said[t] = "ok" THEN "active" ELSE "token_expired"]
  /\ Cross(t) /\ Goto(t, "over")
  /\ UNCHANGED <<flow, acct, tok, had, said, metaVars, unrenewed, cut>>

\* probeChannel tells a refused token from other errors.
EndCheck(t) ==
  /\ at[t] = "endCheck"
  /\ row' = [row EXCEPT ![acct[t]].status =
               CASE said[t] = "ok" -> "active"
                 [] said[t] = "refused" -> "token_expired"
                 [] OTHER -> "error"]
  /\ Cross(t) /\ Goto(t, "over")
  /\ UNCHANGED <<flow, acct, tok, had, said, metaVars, unrenewed, cut>>

\* The token of an Instagram Login has less than ten days left.
BecomesDue(a) ==
  /\ There(a) /\ row[a].type = "instagram_login" /\ ~row[a].due
  /\ row' = [row EXCEPT ![a].due = TRUE]
  /\ UNCHANGED <<flow, taskVars, metaVars, history>>

\* renewExpiringTokens, for one of the channels it has found: any error at all
\* is written down as an expired token.
Renew(t, a) ==
  /\ There(a) /\ row[a].status = "active" /\ row[a].due
  /\ row[a].type = "instagram_login"
  /\ Read(t, a, "refresh")

EndRenewal(t) ==
  /\ at[t] = "endRenewal"
  /\ IF said[t] = "ok"
     THEN /\ row' = [row EXCEPT ![acct[t]].token = tok[t], ![acct[t]].due = FALSE]
          /\ UNCHANGED unrenewed
     ELSE /\ row' = [row EXCEPT ![acct[t]].status = "token_expired"]
          /\ unrenewed' = unrenewed \union {tok[t]}
  /\ Cross(t) /\ Goto(t, "over")
  /\ UNCHANGED <<flow, acct, tok, had, said, metaVars, cut>>

\* process of the outbound queue, as far as the channel goes.
SendMessage(t, a) ==
  /\ There(a) /\ row[a].status = "active"
  /\ Read(t, a, "send")

EndSend(t) ==
  /\ at[t] = "endSend"
  /\ IF said[t] = "refused"
     THEN row' = [row EXCEPT ![acct[t]].status = "token_expired"] /\ Cross(t)
     ELSE UNCHANGED <<row, crossed>>
  /\ Goto(t, "over")
  /\ UNCHANGED <<flow, acct, tok, had, said, metaVars, unrenewed, cut>>

\* disconnect: Meta is not told.
Disconnect(a) ==
  /\ There(a)
  /\ row' = [row EXCEPT ![a].status = "disconnected", ![a].hooks = FALSE]
  /\ cut' = cut \union {a}
  /\ UNCHANGED <<flow, taskVars, metaVars, unrenewed, crossed>>

-----------------------------------------------------------------------------
OAuth(f) ==
  \/ \E o \in Orgs, type \in Type : Connect(f, o, type)
  \/ ExpireFlow(f)
  \/ TokenDies(f)

Start(t) ==
  \/ \E f \in Flows, S \in SUBSET Accounts : Callback(t, f, S)
  \/ \E o \in Orgs, f \in Flows, a \in Accounts : SelectAccount(t, o, f, a)
  \/ \E a \in Accounts : HealthCheck(t, a) \/ Renew(t, a) \/ SendMessage(t, a)

Proceed(t) ==
  \/ Lookup(t) \/ Save(t) \/ Mark(t)
  \/ \E answer \in {"ok", "refused", "failed"} : Call(t, answer)
  \/ EndCheck(t) \/ EndRenewal(t) \/ EndSend(t)

Next ==
  \/ \E f \in Flows : OAuth(f)
  \/ \E t \in Tasks : Start(t) \/ Proceed(t)
  \/ \E a \in Accounts : Disconnect(a) \/ BecomesDue(a)

Spec == Init /\ [][Next]_vars

-----------------------------------------------------------------------------
(* Properties. *)

\* The token of a channel was granted to its own organization and for that
\* account, even when two organizations connect an account at the same time; and
\* it is used with the host of its own kind of connection, unless a call with an
\* earlier token was under way when the channel was connected again.
\* (createChannel: "una cuenta IG solo puede estar conectada a un tenant";
\* sendMessage chooses the host by connectionType)
TokenIsItsOwn ==
  \A a \in Accounts : There(a) =>
    LET granted == flow[row[a].token] IN
    /\ granted.org = row[a].org /\ a \in granted.accounts
    /\ a \in crossed \/ granted.type = row[a].type

\* A channel is shown as expired only if Meta refused the token it has or its
\* renewal failed, with the same exception.
\* (probeChannel, renewExpiringTokens and process write token_expired)
ExpiredIsTrue ==
  \A a \in Accounts :
    There(a) /\ row[a].status = "token_expired" /\ a \notin crossed =>
      row[a].token \in dead \union unrenewed

\* The events of a disconnected account are not processed until it is connected
\* again: either Meta does not deliver them or the channel is disconnected.  The
\* code does not keep this.  (docs/05-API.md: "desconecta (revoca suscripcion
\* webhook)")
DisconnectedIsSilent ==
  \A a \in cut : a \in subscribed => row[a].status = "disconnected"

=============================================================================
