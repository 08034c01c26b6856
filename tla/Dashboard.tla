----------------------------- MODULE Dashboard -----------------------------
(***************************************************************************)
(* A tab of the dashboard with the inbox open: the session of WebClient,   *)
(* the socket that tells of changes, the query of the list of              *)
(* conversations and the composer that sends messages.                     *)
(*                                                                         *)
(* What is shown is a version of the inbox of an organization.  Changes    *)
(* are committed before they are told to the sockets in the room of their  *)
(* organization; a socket enters the room of the access token it connects  *)
(* with.  A change that is heard invalidates the query: a fetch that is    *)
(* under way is abandoned for a new one, unless it is the first, when      *)
(* there is nothing to show yet: that one stays.  The query of the         *)
(* messages of one conversation is left out: the same events invalidate    *)
(* it, and what its composer has sent.                                     *)
(***************************************************************************)
EXTENDS WebClient

CONSTANT MaxChanges  (* bound: changes of the inbox of an organization; texts that *)
                     (* are posted after that are not told apart                *)

ASSUME DashboardAssumption ==
  MaxChanges \in Nat /\ {"off", "closed"} \intersect Orgs = {}

VARIABLES
  inbox,  (* inbox[o]: how many changes organization o has had             *)
  room,   (* where the socket is: an organization, "off" or "closed"       *)
  news,   (* the change that is on its way on the socket, 0 without        *)
  query,  (* the query ['conversations']                                   *)
  heard,  (* history: the last change that the list was invalidated for,   *)
          (* and if its first fetch was under way then                     *)
  draft,  (* the text in the composer and the request that sends it        *)
  posted  (* history: how often it was stored, and if the composer was     *)
          (* not told so                                                   *)

pageVars == <<inbox, room, news, query, heard, draft, posted>>
tabVars == <<clientVars, pageVars>>

-----------------------------------------------------------------------------
Unheard == [org |-> Nothing, ver |-> 0, early |-> FALSE]
NoQuery == [org |-> Nothing, ver |-> 0, at |-> "idle", failures |-> 0]

TabTypeOK ==
  /\ ClientTypeOK
  /\ inbox \in [Orgs -> Nat]
  /\ room \in Orgs \union {"off", "closed"}
  /\ news \in Nat
  /\ query \in [org : Orgs \union {Nothing}, ver : Nat,
                at : {"idle", "fetch", "retry", "fresh", "error"}, failures : 0..1]
  /\ heard \in [org : Orgs \union {Nothing}, ver : Nat, early : BOOLEAN]
  /\ draft \in {"empty", "text", "sending"}
  /\ posted \in [times : Nat, unsure : BOOLEAN]

TabInit ==
  /\ ClientInit
  /\ inbox = [o \in Orgs |-> 0]
  /\ room = "off" /\ news = 0
  /\ query = NoQuery /\ heard = Unheard
  /\ draft = "empty" /\ posted = [times |-> 0, unsure |-> FALSE]

\* The page is there while there is a profile: without one it is the login.
OnPage == me \in Orgs

Listing == {c \in Calls : call[c].at # "idle" /\ call[c].op = "list"}
Posting == {c \in Calls : call[c].at # "idle" /\ call[c].op = "post"}

-----------------------------------------------------------------------------
(* The list of conversations. *)

\* The page is mounted, or a fetch has failed for the first time: it is sent
\* again, and knows of all that was heard.
Fetch(c) ==
  /\ OnPage /\ query.at \in {"idle", "retry"}
  /\ Send(c, "list", Nothing)
  /\ query' = [query EXCEPT !.at = "fetch"]
  /\ heard' = [heard EXCEPT !.early = FALSE]
  /\ UNCHANGED <<left, sessionVars, lost, mixed, inbox, room, news, draft, posted>>

\* list: the conversations of an organization, in the order and with the messages
\* that they have now.
Rows(o) == inbox[o]

\* list, messages: what the organization of the access token has.
ServeList(c) ==
  /\ Authorized(c) /\ call[c].op \in {"list", "ignored"}
  /\ call' = [call EXCEPT ![c].at = "ok", ![c].org = call[c].acc.org,
                          ![c].ver = Rows(call[c].acc.org)]
  /\ UNCHANGED <<left, sessionVars, lost, mixed, pageVars>>

Show(c) ==
  /\ call[c].at = "ok" /\ call[c].op = "list"
  /\ query' = [org |-> call[c].org, ver |-> call[c].ver, at |-> "fresh", failures |-> 0]
  /\ call' = [call EXCEPT ![c] = NoCall]
  /\ UNCHANGED <<left, sessionVars, lost, mixed, inbox, room, news, heard, draft, posted>>

\* As if a query were fetched again until it succeeds.
UnshownForever ==
  query' = [query EXCEPT !.at = "retry", !.failures = @ + 1]

\* retry: 1.
Unshown ==
  query' = IF query.failures = 0 THEN [query EXCEPT !.at = "retry", !.failures = 1]
           ELSE [query EXCEPT !.at = "error", !.failures = 0]

\* invalidateQueries, when request c is free or has been answered: a fetch that
\* is under way is abandoned if there is something to show, and a new one is sent.
Abandon == [c \in Calls |-> IF c \in Listing THEN [call[c] EXCEPT !.op = "ignored"] ELSE call[c]]

Again(c) ==
  /\ call' = [Abandon EXCEPT ![c] = [NoCall EXCEPT !.op = "list", !.at = "sent",
                                                   !.acc = access, !.tok = cookie]]
  /\ query' = [query EXCEPT !.at = "fetch", !.failures = 0]

NotAgain(c) == call' = [call EXCEPT ![c] = NoCall] /\ UNCHANGED query

\* As if a fetch that is under way were good enough.
InvalidateIfIdle(c) == IF query.at \in {"idle", "fetch"} THEN NotAgain(c) ELSE Again(c)

Invalidate(c) == IF query.org = Nothing /\ query.at # "error" THEN NotAgain(c) ELSE Again(c)

\* What an invalidation is for.
Learn(o, v) ==
  heard' = [org |-> o, ver |-> v, early |-> query.org = Nothing /\ query.at = "fetch"]

-----------------------------------------------------------------------------
(* The socket. *)

\* getSocket and handleConnection: the token is looked at once; a socket that
\* the server disconnects does not come back.
Connect ==
  /\ room = "off" /\ OnPage
  /\ \/ access # Nothing /\ room' = access.org
     \/ room' = "closed"
  /\ UNCHANGED <<clientVars, inbox, news, query, heard, draft, posted>>

Disconnect ==
  /\ room \in Orgs
  /\ room' = "off" /\ news' = 0
  /\ Event
  /\ UNCHANGED <<sessionVars, call, lost, mixed, inbox, query, heard, draft, posted>>

Emit(o) == news' = IF room = o THEN inbox'[o] ELSE news

\* A message of a contact, an outcome of a message, a hand-over.
Change(o) ==
  /\ inbox[o] < MaxChanges
  /\ inbox' = [inbox EXCEPT ![o] = @ + 1]
  /\ Emit(o)
  /\ UNCHANGED <<clientVars, room, query, heard, draft, posted>>

\* onMessage, onStatus, onConversation.
Hear(c) ==
  /\ news # 0 /\ OnPage /\ call[c].at = "idle"
  /\ Invalidate(c)
  /\ Learn(room, news)
  /\ news' = 0
  /\ UNCHANGED <<left, sessionVars, lost, mixed, inbox, room, draft, posted>>

-----------------------------------------------------------------------------
(* The composer. *)

Type ==
  /\ OnPage /\ draft = "empty"
  /\ draft' = "text" /\ posted' = [times |-> 0, unsure |-> FALSE]
  /\ UNCHANGED <<clientVars, inbox, room, news, query, heard>>

\* As if Enter sent the text whatever is under way.
SubmitAgain(c) ==
  /\ OnPage /\ draft # "empty"
  /\ Send(c, "post", Nothing)
  /\ draft' = "sending"
  /\ UNCHANGED <<left, sessionVars, lost, mixed, inbox, room, news, query, heard, posted>>

\* submit: not while send is pending.
Submit(c) ==
  /\ OnPage /\ draft = "text"
  /\ Send(c, "post", Nothing)
  /\ draft' = "sending"
  /\ UNCHANGED <<left, sessionVars, lost, mixed, inbox, room, news, query, heard, posted>>

Stored(o) == inbox' = [inbox EXCEPT ![o] = IF @ < MaxChanges THEN @ + 1 ELSE @]

\* A request that changes the inbox is carried out; some tell the room.
Serve(c, told) ==
  LET o == call[c].acc.org IN
  /\ Stored(o)
  /\ IF told THEN Emit(o) ELSE UNCHANGED news
  /\ call' = [call EXCEPT ![c].at = "ok", ![c].org = o, ![c].ver = inbox'[o]]

\* send: the message is queued and told to the room.
ServePost(c) ==
  /\ Authorized(c) /\ call[c].op = "post" /\ posted.times < 2
  /\ Serve(c, TRUE)
  /\ posted' = [posted EXCEPT !.times = @ + 1]
  /\ UNCHANGED <<left, sessionVars, lost, mixed, room, query, heard, draft>>

\* enqueue: the row is committed, and then its job cannot be added.  Nobody is
\* told, and the answer is an error.
StorePost(c) ==
  /\ Authorized(c) /\ call[c].op = "post" /\ posted.times < 2
  /\ Stored(call[c].acc.org)
  /\ Answered(c, "failed")
  /\ posted' = [times |-> posted.times + 1, unsure |-> TRUE]
  /\ Event
  /\ UNCHANGED <<sessionVars, lost, mixed, room, news, query, heard, draft>>

\* onSuccess: the list waits to be told of the message by the socket.
Sent(c) ==
  /\ call[c].at = "ok" /\ call[c].op = "post"
  /\ draft' = "empty"
  /\ call' = [call EXCEPT ![c] = NoCall]
  /\ UNCHANGED <<left, sessionVars, lost, mixed, inbox, room, news, query, heard, posted>>

-----------------------------------------------------------------------------
(* The status, the mode, the tags and the notes of a conversation. *)

Act(c) ==
  /\ OnPage /\ query.org # Nothing
  /\ Send(c, "act", Nothing)
  /\ UNCHANGED <<left, sessionVars, lost, mixed, pageVars>>

\* handover and returnToAi tell the room, update, addTag and removeTag do not.
ServeAct(c) ==
  /\ Authorized(c) /\ call[c].op = "act" /\ inbox[call[c].acc.org] < MaxChanges
  /\ \E told \in BOOLEAN : Serve(c, told)
  /\ UNCHANGED <<left, sessionVars, lost, mixed, room, query, heard, draft, posted>>

\* setStatus, setMode and the onSuccess of the tags.
Acted(c) ==
  /\ call[c].at = "ok" /\ call[c].op = "act"
  /\ Invalidate(c)
  /\ Learn(call[c].org, call[c].ver)
  /\ UNCHANGED <<left, sessionVars, lost, mixed, inbox, room, news, draft, posted>>

-----------------------------------------------------------------------------
(* Requests of the page that come to nothing. *)

Given(c) ==
  /\ call' = [call EXCEPT ![c] = NoCall]
  /\ IF call[c].op = "list" THEN Unshown ELSE UNCHANGED query
  /\ draft' = IF call[c].op = "post" THEN "text" ELSE draft
  /\ UNCHANGED <<token, issued, cookie, other, me, banner, mixed, inbox, room, news, heard>>

PageRefused(c) ==
  /\ call[c].at = "refused" /\ call[c].op \in PageOps
  /\ access' = Nothing
  /\ Given(c)
  /\ UNCHANGED <<left, lost, posted>>

PageRejected(c) ==
  /\ call[c].op \in PageOps
  /\ \/ call[c].at = "failed"
     \/ call[c].at = "unauthorized" /\ call[c].again
  /\ Given(c)
  /\ UNCHANGED <<left, access, lost, posted>>

PageLost(c) ==
  /\ call[c].op \in PageOps /\ call[c].at # "idle"
  /\ lost' = (lost \/ Carries(c))
  /\ access' = IF call[c].at \in {"refreshing", "rotated", "refused"} THEN Nothing ELSE access
  /\ posted' = [posted EXCEPT !.unsure = @ \/ (call[c].op = "post" /\ call[c].at = "ok")]
  /\ Given(c)
  /\ Event

\* The answer to a fetch that was abandoned.
Dropped(c) ==
  /\ call[c].at = "ok" /\ call[c].op = "ignored"
  /\ call' = [call EXCEPT ![c] = NoCall]
  /\ UNCHANGED <<left, sessionVars, lost, mixed, pageVars>>

\* The page goes with the session, and comes back with nothing.
PageReload ==
  /\ Reload
  /\ room' = "off" /\ news' = 0 /\ query' = NoQuery
  /\ heard' = Unheard
  /\ draft' = "empty" /\ posted' = [times |-> 0, unsure |-> FALSE]
  /\ UNCHANGED inbox
  /\ Event

-----------------------------------------------------------------------------
PageStep(c) ==
  \/ Fetch(c) \/ ServeList(c) \/ Show(c) \/ Hear(c) \/ Dropped(c)
  \/ Submit(c) \/ ServePost(c) \/ StorePost(c) \/ Sent(c)
  \/ Act(c) \/ ServeAct(c) \/ Acted(c)
  \/ PageRefused(c) \/ PageRejected(c) \/ PageLost(c)

TabNext ==
  \/ \E c \in Calls : (ClientStep(c) /\ UNCHANGED pageVars) \/ PageStep(c)
  \/ Elsewhere /\ UNCHANGED pageVars
  \/ \E o \in Orgs : Change(o)
  \/ Connect \/ Disconnect \/ Type \/ PageReload

TabSpec == TabInit /\ [][TabNext]_tabVars

-----------------------------------------------------------------------------
(* Properties. *)

\* A change of the list that was heard of, or that an action of the tab has made,
\* is shown as soon as the query has settled, whatever fetches were under way,
\* unless it was heard during the first, which stays: no later one that read the
\* inbox before the change comes last (invalidate and setStatus, setMode, tags).
HeardIsShown ==
  query.at = "fresh" /\ heard.org = query.org /\ ~heard.early => query.ver >= heard.ver

\* Every change that was heard of is shown.
\* (inbox page: "aparecerá aquí en tiempo real")
AllHeardIsShown ==
  query.at = "fresh" /\ heard.org = query.org => query.ver >= heard.ver

\* A text is stored again only if the composer was not told that it was: the answer
\* was lost, or was an error after the row was committed.  The repetition after a
\* 401 and the key Enter store it once (lib/api.ts, submit of the composer).
PostedOnce == posted.times <= 1 \/ posted.unsure

=============================================================================
