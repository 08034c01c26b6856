# A TLA+ model of the Instagram agent platform

The repository is a multi-tenant service that answers Instagram direct messages: people, keyword
automations, conversation flows and an AI answer from one inbox. This directory holds TLA+ models of
the parts of it whose correctness depends on *when* things happen — two executions of a job, a crash
between two transactions, an echo that overtakes an answer, two requests that count the same rows —
together with TLC configurations that check them on small instances and TLAPS proofs for every
instance.

Paths below are relative to the repository. `apps/api/src/modules/` is abbreviated `modules/`.

## 1. The system

| part | state it keeps | operations | talks to |
|---|---|---|---|
| Webhooks (`modules/webhooks`) | `webhook_events` (unique by external id and type) | `receive`, `ingest` | called by Instagram; adds jobs to queue *inbound* |
| Inbound processor (`modules/inbox/inbound.processor.ts`) | `contacts`, `conversations`, `messages` | `process`, `handleEvent`, `route` | queue *inbound*; flow engine, automations, flow triggers, AI reply; dashboards |
| Messaging (`modules/messaging`) | `messages` (outbound), `first_response_ms` | `sendAs…`, `enqueue`, `process`, `fail` | queue *outbound*; Graph API; dashboards |
| Flow engine (`modules/flows`) | `flow_executions`, `flow_versions` | start, resume, wake, commit; publish | called by inbound; queue *flow* (delayed jobs); messaging, AI service |
| AI replies (`modules/ai`) | `ai_profiles` (budget) | `maybeReply`, `handover` | AI service over HTTP; messaging |
| Automations (`modules/automations`) | `automations`, cooldown keys in Redis | `evaluate`, `execute`; create, update, toggle, remove | messaging, conversations |
| Inbox (`modules/inbox/*.controller.ts`) | `conversations` (mode, status, assignee), tags | hand over, return, status, assign, tag, list | dashboards |
| Channels (`modules/channels`) | `channels`, OAuth sessions in Redis | connect, OAuth callback, health check, disconnect, renewal | Graph API |
| Knowledge (`modules/knowledge`, `apps/ai-service`) | `knowledge_sources`, chunks | create, refresh, reindex, ingest | queue *ingest*; AI service |
| IAM (`modules/iam`) | `users`, `memberships`, `invitations`, `refresh_tokens` | login, register, refresh, switch-org, logout, roles, removal, invitations | dashboards |
| Platform (`modules/platform`) | `is_platform_admin`, `suspended_at` | suspend, reactivate, impersonate, promote, demote | dashboards |
| Queues (`common/queue`) | BullMQ jobs | attempts, backoff, stalled jobs | all processors |
| Transactions (`common/prisma`) | PostgreSQL | `withTenant`, `withSystem` | everything |
| Realtime (`modules/realtime`) | rooms of sockets, one per organization | `handleConnection`, emit | dashboards |
| Dashboard (`apps/web`) | per tab: access token, profile, queries, the editor's copy of a graph; a cookie for all tabs | `request`, `tryRefresh`, session operations, inbox, flow editor | API, websocket |

What makes the system hard:

* **Two stores and no common transaction.** A row is committed in PostgreSQL and its job is added to
  Redis afterwards; a message is handed to Instagram and recorded afterwards.
* **At-least-once jobs.** BullMQ repeats a job that threw, and runs one again whose worker died or
  could not renew its lock — while that worker may still be alive.
* **Echoes.** Instagram sends every message of the business back as a webhook. It is stored by another
  pipeline under the same unique `mid`, before or after the send's own transaction.
* **READ COMMITTED.** Requests read, decide and write in one transaction, and others commit in
  between. An exception takes everything back that the transaction did, the intended part included.
* **Job ids.** BullMQ ignores a job whose id is still known, for a day after it completed and for ever
  after it failed.
* **Many requests of one page.** Each refreshes the session on its own when the token has expired, all with
  the same cookie; an editor that was left has requests under way.
* **Snapshots across awaits.** The mode, the window, the role in a token, the existence of a contact
  are read before calls that may take seconds or minutes.

What should hold, part by part: inbound — no event is answered twice, none is lost behind a processed
row; outbound — a recorded outcome is true and final, the number of sends is bounded, every job ends;
sessions — rotation, reuse detection, and that removal, suspension and logout really end access;
members — an owner and a Super Admin remain, roles are given only by those who may; flows — an
execution is resumed once and never forgotten; AI — no answer after a hand-over, the budget is kept;
automations — one per message and per cooldown; channels — one active owner of an account, no stale
status; knowledge — a source has the chunks of one ingestion and the catalog's is the current one;
dashboard — a tab acts for the organization it shows, and shows what it was told of.

## 2. Modules

| module | models | proofs |
|---|---|---|
| `Outbound` | messaging service, outbound processor, its BullMQ queue, the Graph API's answers, the echo | `OutboundProofs` |
| `Delivery` | abstract: what outbound messaging promises for each message | (refined by `Outbound`) |
| `Inbound` | webhook ingest, inbound processor, its queue, the order of the handlers | `InboundProofs` |
| `Conversation` | the row of a conversation, what agents do to it, members and tags | `AnswersProofs` |
| `Automations` | rules, their edits, matcher, cooldown and actions; extends `Conversation` | `AnswersProofs` |
| `AiReply` | `maybeReply`, the profile and its budget; extends `Conversation` | `AnswersProofs` |
| `Answers` | the composition: `route` over both of them and everything people do meanwhile | `AnswersProofs` |
| `Sessions` | refresh tokens against memberships, invitations and suspension | `SessionsProofs` |
| `Members` | roles, invitations, Super Admins, stale access tokens | `AccessProofs` |
| `FlowGraph` | where the interpreter goes from a node, and what `validateGraph` demands | (used by `FlowEngine`, `FlowSimulator`, `FlowCanvas`) |
| `FlowEngine` | the executions of a flow in one conversation, the interpreter, the wake jobs, the editor | `FlowProofs` |
| `FlowSimulator` | the sandbox: a function of a graph and the answers given in advance | |
| `FlowEditor` | the draft of a flow, the tabs that edit it, saving and publishing | `FlowProofs` |
| `FlowCanvas` | what each edit of the editor's canvas makes of a graph, as functions | `FlowProofs` |
| `Channels` | OAuth, the rows of channels, health check, renewal, sends, disconnection | `ChannelsProofs` |
| `Knowledge` | sources, their jobs, the processor, the AI service's ingestion, the catalog | `KnowledgeProofs` |
| `Chunking` | `chunk_text` and what the parsers hand it, as functions | |
| `WebClient` | a tab's session: cookie, access token, refreshes, impersonation | `AccessProofs` |
| `Dashboard` | `WebClient` with the inbox: socket, query and composer | `AccessProofs` |
| `MC…` | the instances TLC runs | |

**How the models correspond to the code.** A transaction is one action, or several where what it read
may be out of date when it writes (READ COMMITTED); everything between two `await`s that touches no
shared state belongs to the action before it. An execution of a processor has a program counter `pc[w]`
that names the next step, and local variables (`cur`, `tries`, …) for what it read and still uses. An
HTTP request has `pc[r]` in the same way and runs once. A comment at each action names the method.
Some operators are variants of an action that a plausible bug would produce; they are introduced by
*"As if …"* or *"A fault for checking"*, they are not part of any specification, and show that a
property can fail (section 6).

One idea recurs. Where the code keeps a property only as long as something rare does not happen, the model
has a history variable for that — `crossed`, `crowded`, `mishap`, `meddled`, `mixed`, `lost` — and the
property excepts it by name. What sets the variable is written at the action that does it, so that the
exception is no wider than the code's.

**Outbound.** `CheckWindow`, `CreateRow`, `AddJob` are `sendAs…` and `enqueue`; `AbandonCall` is the
gap between the row and the job. `StartJob`, `AckJob`, `NackJob`, `Crash`, `LoseLock` and
`ReclaimStalled` are BullMQ as documented for the version in use: attempts are counted when a processor
throws, stalls separately, and whoever lost the lock cannot settle the job. `Read` is the processor's one
read; `CallAccepted`/`CallRefused` the Graph API with its answer arriving or not; `Commit`, `Expire`,
`Fail`, `Catch` its four endings. `StoreEcho` is the inbound pipeline's insert, `MoveWindow` and
`MoveChannel` what the rest of the system does to what `Read` looks at. The `mid` is a pair of the
message and the start of its job: each start makes at most one call. An accepted call is taken to carry a
`message_id` (the code stores null if it did not).

**Inbound.** `Receive`, `StoreEvent`, `AddJob`, `IngestFails`, `IngestDies` are the controller and
`ingest`; `ReadEvent`, `ReadChannel`, `DropEvent`, `StoreMessage` the processor up to its transaction,
with the rollback that the unique `mid` causes; `FindWaiting` to `ReplyWithAi` are `route`, where each
handler is what it may do to `waiting`, `mode` and the message; `MarkProcessed` and `RecordError` end the
job. The model assumes that every event has a `mid` (a postback's is optional in the code).

**Sessions.** One request, one operation, at most one token: so the token is named by the request that
issued it. `Arrive` is the first read, later steps the rest; `before[r]` remembers which requests had been
answered when `r` began, which is how "after" and "at the same time" are told apart in the properties.
Row locks matter in one place — an open suspension holds the rows it updated (`caught`, `Locked`) — and
are modelled there. Account and membership creation fail on their unique keys.

**Members.** One organization; requests act with any role an access token of the actor may claim, fresh or
old (`stale`), and impersonation adds `owner` for Super Admins. `CountOwners` and `Write`, `CountStaff` and
`DemoteWrite` are the count and the write that other requests may come between.

**FlowEngine.** A *run* is a message whose handler has come to the flows, or an execution of `FlowProcessor`. A
message that starts an execution gives it its name, so that there is one row per message. `FindWaiting`, `Match`
and `Create` are stages (b) and (d) of `route` with `FlowTriggerService`; `ReadExecution` and `Load` what `wake`
and `resumeWithMessage` read before they interpret; `Answer`, `Wake` and the actions named for what a node does
(`Ask`, `Pause`, `ConsultAi`, `CallPerson`, `Pass`, `End`) are `FlowInterpreter`, one action per node, so that
anything may happen between two nodes; `Transfer` and `Note` the two transactions of a transfer; `Commit` and
`AddJob` the two halves of `commit`. `Publish`, `SetEnabled`, `Remove` are the editor. Variables are left out: a
condition, an answer, an intent take any branch they could take. `sees[r]` is the open window of the
conversation that run `r` has read, `window` the contact's: the first ends with the second at the latest; `Wake`
looks at it. What a node sends is left to `Outbound`, where the look at the window, the row and the job are
three steps. `woken` counts the runs of a wake job that went on with an execution. A wait for a timer has a
name, which stands for its `wakeAt` and for its job, and is used again when nothing refers to it; a job that
completed is gone at once. `MaxSteps` is `MAX_STEPS`. Only flows are removed in the model; that a conversation
or a channel goes, with the executions in it, is left out.

**Conversation, Automations, AiReply, Answers.** `Conversation` has one row and the inbox's requests; each is
one transaction but for the assignment, whose check (`CheckAssignee`) and write (`Assign`) are two.
`Automations` follows one call of `evaluate` per message: `ReadRules`, then `PassOver`, `Fire`,
`FireWithoutRedis` or `NothingFits` for each rule in the order in which they were read, then one action of the
rule at a time (`Reply`, `TagIt`, `Keep`) and `Finish`; `Break` is an error in the middle, after which the
message still counts as handled, and `Abandon` one outside the `try`. `Create`, `Update`, `Toggle`/`ToggleWrite`
and `RemoveRule` are the owner's. A message's text is the set of keywords it contains and the one it equals.
`AiReply` follows `maybeReply`: `LoadProfile` (profile, budget, has the AI spoken), `AiAnswers` with `Verdict`,
which is `generate_reply` as a function of what it finds, `Charge`, then `GiveToPerson` and `WriteNote`, or
`Send`. `Answers` composes them in the order of `route`; a flow takes a message or does not. `open` remembers
the window of the conversation as a handler has read it, not as it is.

**FlowEditor.** A graph is the set of changes it contains. A tab is in the list, loading or in the editor;
`Mount` takes the copy from the query's cache (`OpenEditor`) or from its answer (`Loaded`). A request under
way is a record with its operation and its stage; `ServePatch`, `ServeValidate`, `ReadDraft`, `NumberIt` and
`WriteVersion` are the server, `Saved`, `Validated`, `Post`, `Announced` and `Failed` the mutations' callbacks,
which act only while the editor that sent the request is there (`mine`). `Lost` is a connection that breaks,
before or after the server has the request. `WriteVersion` fails if the number is taken, which the unique
key on flow and version does.

**FlowSimulator.** `Step` is one iteration of the interpreter's loop, `Walk` the loop, `Simulate` the service
with its answers and `Execute` the same answers in the engine, which goes on counting. All outcomes of
conditions and of the AI are followed, so that a simulation is a set of walks.

**FlowCanvas.** A graph of the canvas has which of its AI nodes are routed and by which intents, and the nodes
whose data `graphSchema` refuses besides; `blank` are the nodes without the text or variable that
`validateGraph` demands. `Edited` is the set of graphs that one edit makes of a graph: `Add` (palette), `Joined`
(`onConnect`, from one of a node's `Outlets` to a node that has a point for it), `Disjoined` and `Without`
(keyboard, `deleteNode`), `Configured` (the panel of a node). `Savable` is `graphSchema`, `WaysOut` what the
interpreter asks `nextNode` for — for an AI node whatever the AI names, so that the connection of an intent that
the panel does not list any more is taken, too. `Unseen` are the connections whose point is gone. Lengths and
numbers of texts are left out: `graphSchema` refuses more than the model does.

**Channels.** A token is named by the authorization it comes from. `Connect`, `Callback`, `SelectAccount` are
the two ways through OAuth; `Lookup`, `Save`, `Call` (the subscription) and `Mark` are `createChannel`.
`HealthCheck`/`EndCheck`, `Renew`/`EndRenewal`, `SendMessage`/`EndSend` read a row, ask Meta and write with the
row as they had read it; `Cross` notes when it has another token by then. `TokenDies` is Meta's or the
user's.

**Knowledge.** A source is a page or a row that `reindexCatalog` made. `CreateSource`, `Refresh`, `ChangeItems`
are the requests' first writes, `Reindex`, `DeleteCatalog`, `WriteCatalog` the transaction of the catalog, and
`Add` the job, which is ignored if one of that id is known. `StartJob`, `AckJob`, `NoAnswer`, `WorkerDies` and
`ForgetJob` are the worker and BullMQ; `Extract`, `Delete`, `Insert` and `Finalize` the AI service, which goes
on when the worker has given up. Texts are version numbers; `Blank` are those without text.

**Chunking.** Pieces of text are their lengths and whether they end like a sentence. An overlap may lose up
to two blanks when it is stripped: `Tails` has all lengths that can result, and a text a set of cuts.

**WebClient and Dashboard.** A request is sent with the access token of the moment; the server's step and the
receipt of the answer are separate, and either may get lost. `Unauthorized`, `RefreshFirst`, `ServeRefresh`,
`Refreshed` and `Refused` are `request` and `tryRefresh`; `Boot`, `Login`, `SwitchOrg`, `Enter`, `Leave` and
`Logout` the operations of `auth-context.tsx` with their answers (`Adopt`, `Entered`, `LoggedOut`, `Loaded`).
The other tabs appear as what they do to the cookie, where an answer may come late. `Dashboard` adds the query
of the list of conversations, which is fetched, retried once and invalidated, a socket that is in the room of
the token it connected with, and a composer. An invalidation abandons the fetch that is under way (`Again`),
unless there is nothing to show yet (`NotAgain`). What is shown is the number of changes of an organization's
inbox. Sending a message invalidates the thread only, so that `Sent` leaves the list to the socket; the thread's
own query is left out. `ServePost` stores the row and its job, `StorePost` the row only, for which the answer is
an error.

## 3. Runs

| run | instance | checks | states |
|---|---|---|---|
| `outbound` | 1 message, 2 workers, 3 attempts, 1 stall, every fault | `SentWasAccepted`, `EchoIsNotDoubled`, `HandOffsAreBounded`, liveness `JobsEnd` | 0.43 M |
| `outbound_delivery` | 2 messages, 2 workers, no lost locks | `ImplementsDelivery` (refinement) | 1.15 M |
| `inbound` | a message and an echo, delivered in a batch and again; a mortal and a slow worker | `HandledOnce`, `ProcessedIsStored` | 6.48 M |
| `answers` | 2 messages, 2 rules of 3 definitions, 1 agent, 1 tag, 1 intervention of people, a budget of 1 and answers that cost up to 2 | `TypeOK`, `OneVoice`, `CooldownHolds`, `FirstAnswerDiscloses`, `OverrunIsBounded` | 0.49 M |
| `sessions` | 1 old session, 3 requests, 2 users, 2 organizations | `SpentOnce`, `RemovedStayOut`, `SuspendedStayOut`, `OldSessionsEnd` | 1.21 M |
| `sessions_reuse` | 1 old session, 2 requests | *violated:* `ReuseEndsTheFamily` | |
| `members` | 4 members, 2 Super Admins, 2 requests | `OwnerlessNeedsARace`, `StafflessNeedsARace` | 0.19 M |
| `flows` | 2 messages, 2 wakers (one mortal, one slow), 2 good and 2 bad drafts, 3 steps | `WaitsWhereItCanResume`, `FailsOnlyAtTheLimit`, `JobEndsItsWait`, `RepeatsArePaidFor`, liveness `AnswersEnd`, `QueuedWaitsEnd` | 0.17 M |
| `editor` | 2 tabs, 2 requests at a time, 2 changes, 2 versions, 2 lost answers, removals or visits | `EditorTypeOK`, `PublishedIsNewest`, `AnnouncedIsPublished`, `CleanIsSaved` | 7.16 M |
| `knowledge` | a page and 2 rows for the catalog, 2 requests, 3 calls, any change of the catalog, one of the page, 2 attempts, 1 stall, every fault | `TypeOK`, `OneIngestion`, `RemovedIsForgotten`, `CatalogIsKnown` | 2.29 M |
| `channels` | 2 accounts, 2 organizations, 2 authorizations, 3 requests or jobs | `TypeOK`, `TokenIsItsOwn`, `ExpiredIsTrue` | 0.46 M |
| `dashboard` | 2 requests at a time, 2 organizations, 3 refresh tokens, 1 change told, 2 events of the session | `TabTypeOK`, `CookieIsLive`, `ActsForShown`, `HeardIsShown`, `PostedOnce` | 3.08 M |

The invariants of `Outbound`, `Inbound`, `Sessions`, `Members` and `FlowEngine` that are proved and that the
properties above rest on, or say less than they do, are not among the runs: `TypeOK` of each,
`CompletedIsSettled`, `CompletedIsProcessed`, `UnqueuedHasARequest`, `FamilyHasOneUser`, `OwnersAreNamed`,
`RunningIsAtWork`.

**Functions** are compared with what they promise before the states of a run, as assumptions that TLC evaluates:
in `MCKnowledge` that `chunk_text` loses nothing and keeps its chunks within the limit that it really has, for
all texts of up to four pieces of three lengths; in `MCFlowEngine` that the sandbox shows whatever the engine
may do up to its first timer, that it ends there, and that a valid graph fails in it by its steps only, for five
graphs and all lists of up to four answers; and, for all graphs that four edits of the canvas make of a new
flow, or three of two that may be published, what `FlowCanvas` says of them (`CanvasHolds`), with a graph whose
"invalid" leads to a message that no list of answers brings (`InvalidIsNotTaken`), one whose removed intent is
followed (`RemovedIntentIsTaken`) and drafts that are blank and may be saved, or that may not (`BlankIsSavable`,
`PaletteIsNotSavable`).

**Counterexamples.** Besides `sessions_reuse`, these configurations are kept; TLC finds the invariant in each of
them violated (`tlc -config MCOutboundEcho.cfg MCOutbound`, and so on).

| configuration | module | violated |
|---|---|---|
| `MCOutboundEcho.cfg` | `MCOutbound` | `AnswerIsRecorded` |
| `MCInboundWindow.cfg` | `MCInbound` | `WindowNeverGoesBack` |
| `MCInboundAck.cfg` | `MCInbound` | `AckedIsStored` |
| `MCMembersOwner.cfg` | `MCMembers` | `AnOwnerRemains` |
| `MCFlowHuman.cfg` | `MCFlowEngine` | `PersonIsNotTalkedOver` |
| `MCKnowledgeRefresh.cfg` | `MCKnowledge` | `RefreshIsCarriedOut` |
| `MCChannelsDisconnect.cfg` | `MCChannels` | `DisconnectedIsSilent` |
| `MCDashboardBanner.cfg` | `MCDashboard` | `BannerIsTrue` |
| `MCDashboardFirst.cfg` | `MCDashboard` | `AllHeardIsShown` |

**Bounds and why they are enough.** `MaxAttempts` is 4 for outbound, 5 for inbound, 3 for ingestion and flows in
the code; 3, 2, 2 and 2 are checked, because what matters is a first, a repeated and a last attempt.
`MaxStalls` is BullMQ's default, 1. Two workers give every overlap of two executions of a job; a third would
have to share a job with two others, which needs a second stall. Jobs wait for no backoff, so retries come at
any time. In `inbound` one worker may die and the other may lose its lock and go on: between them every
execution has a successor that overlaps it. `sessions` has one token from before and three requests: two that
race and one that begins after both were answered, which every property there needs at most. `MaxInviting`
bounds how many invitations are being created at one time, not how many are created. In `flows` a step limit
of 3 (200 in the code) is enough to reach a question, a wait after its answer and the limit itself, and one
of the good drafts is a loop; two messages can both resume the execution one of them started, and each wake
job can run twice at once. The four drafts give the same names to nodes of different types, so that taking
the wrong version shows. An execution that waits twice for a timer needs more steps than that and is left to
the proofs.

In `answers` two messages are handled at the same time, which is what the cooldown, the disclosure and the
budget are about; one rule has a cooldown, one ends what the other begins, and one can never match; a budget of
1 is passed by the first answer and overrun by the second. `MaxMoves` counts what agents and owners do; one is
enough to take the conversation over, to change or remove a rule or to lower the budget at any point of the two
handlers. In `editor` two tabs and two requests give every overlap of two saves, two publications or one of
each; a third version would need a third change. In `knowledge` two requests make the catalog twice, which may
add, change or take away all there is, before or after the first ingestion, and three calls allow one that was
given up, its repetition and that of the next job. In `channels` two of the three tasks can be at work with an
account while the third connects it again. In `dashboard` three refresh tokens are two refreshes after a login;
two requests can be refused at once and both refresh. The proofs have none of these bounds. `CHECK_DEADLOCK
FALSE` is used where requests, messages or changes are finitely many, so that the system stops when all of them
are served.

## 4. Fairness

Three properties are about liveness. For `JobsEnd`, `FairSpec` gives weak fairness to the steps of each
execution that is not killed, to a waiting job being taken by some worker, and to the check for stalled jobs. This is
what BullMQ does as long as a worker process and Redis are up: workers block on the queue, and the
stalled check runs on a timer. Nothing is assumed of crashes, lost locks, lost answers, echoes, the window
or the channel. Nothing is assumed of callers: a row whose job was never added stays queued, and
`JobsEnd` starts from the job. Crashes and lost locks cannot go on for ever because every one uses up a
stall, and every error uses up an attempt.

`FlowEngine`'s `Fairness` is the same for wakers and wake jobs (a delayed job's time comes, waiting jobs are
taken, stalled ones are found), and adds that the handler of a message goes on to its next step or fails,
which is what an `await` does. `AnswersEnd` then needs `MAX_STEPS`, and `QueuedWaitsEnd` the attempts. Nothing
is assumed of contacts, agents or the editor.

## 5. Where the code and what is said of it part

`PROJECT.json` quotes the line in question for each.

*Sending and receiving.* An echo that is stored before the send's own transaction makes that transaction fail: the
message is sent again and may end as `failed` although Instagram delivered it (`outbound.processor.ts:104`).
Two messages of a contact are handled at the same time although one at a time is promised, and can set the
24h window back (`webhooks.service.ts:64`). An error drops the rest of a batch that was acknowledged
(`webhooks.controller.ts:74`). An error while the rules are read is the one error of a stage that fails the
webhook's job (`inbound.processor.ts:250`).

*Access.* The revocation of a family whose token was reused is rolled back by the exception that answers the
reuse (`auth.service.ts:184`). Two owners who leave together leave nobody (`orgs.service.ts:204`). A Super
Admin who enters an organization that he is no member of is back in his own one at once, with the banner on
(`layout.tsx:63`).

*Answers.* A flow that waits for a timer, and an answer of the AI that is being made, go on when a person has taken
the conversation over (`flow-engine.service.ts:114`, `ai-reply.service.ts:129`). The monthly budget is never set
back (`ai-reply.service.ts:49`). Only the AI's answers carry the disclosure (`automations.engine.ts:104`). A
rule's references are checked when it is edited and not when it is carried out (`automations.engine.ts:126`).
The limit on executions per contact and day does not exist (`flow-trigger.service.ts:29`).

*Channels.* Disconnecting does not end the subscription, and a health check makes a disconnected channel active
again (`channels.service.ts:226`); the hourly check does not exist (`channels.service.ts:208`).

*Knowledge.* A refresh within a day of the last ingestion, or ever after a failed one, is ignored by the queue
and leaves the source as `processing` (`knowledge.service.ts:192`). Two calls for one source both leave their
chunks (`ingest_service.py:45`). A chunk may be longer than the limit, and rows without full stops are one chunk
(`chunking.py:39`).

*Canvas.* An AI node goes on following the connection of an intent that was removed from its panel, which the
editor does not draw (`flow-interpreter.ts:200`). The connection from a question's "invalid" is never followed,
and makes the node it leads to count as reachable (`flow-node.tsx:15`). A draft with a call that has no url yet,
no tag or no seconds can be neither saved nor validated nor simulated, although drafts may be incomplete
(`flow-graph.schema.ts:34`). The lists of options and intents lose a line break as it is typed
(`config-panel.tsx:126`).

*Editor and dashboard.* The sandbox ends at a wait instead of skipping it (`flow-simulator.service.ts:94`). An
editor opened from the cache goes back to an older graph (`editor.tsx:155`). The second page of a search is
not of that search (`conversations.controller.ts:184`). A message whose answer was lost and that is sent again is
sent twice, as nothing reads an `Idempotency-Key` (`conversations.controller.ts:255`), and so is one whose row was
committed before its job could not be added, for which the composer is given an error
(`messaging.service.ts:128`). An event during the first fetch does not fetch the list again, which may stay
older than what was heard (`inbox/page.tsx:73`). A tab that has changed its
organization hears nothing of it, and a socket that was refused is not connected again (`socket.ts:15`).

## 6. Every property can fail

For each property of a passing run `PROJECT.json` names a variant of one definition, the way a bug would
change it, under which TLC finds the property violated: the status check dropped before a send, an error
that is swallowed, a membership looked up without its organization, an owner who is not counted, a cooldown key
set without NX, a version number that need not be unique, a query that does not fetch again. It is the
guard against properties that hold by construction.

## 7. Proofs

Each proof module extends its component's module, states an inductive invariant `IInv` as a conjunction of
named parts, proves `Init => IInv` and `IInv /\ [Next]_vars => IInv'` with one step per action, and derives
the properties.

* **`OutboundProofs`** proves the invariants of run `outbound`, `CompletedIsSettled` and `ImplementsDelivery`
  under the assumption that locks are not lost. Type correctness alone is not inductive, since attempts and
  starts are bounded only because a job that has used them up is not started again. `LockShape` and `OneOwner`
  say that an execution with a lock is the only one and saw the job's current number of attempts; `Counted`
  bounds starts by attempts and stalls; `RunProgress` and `MidShape` carry what an execution did to where it is
  recorded. The refinement needs that an execution past its read, with its lock, still finds the row queued.
* **`InboundProofs`** proves the invariants of run `inbound`, `UnqueuedHasARequest` and `CompletedIsProcessed`.
  `HandledOnce` rests on `RouteShape`: only the execution whose transaction stored a message is ever in `route`
  with it, and nothing has acted on the message before. `UnqueuedHasARequest` rests on `RequestShape`: two
  requests are never about to add the same event.
* **`SessionsProofs`** proves the invariants of run `sessions` and `FamilyHasOneUser`. The parts are about what
  an open request read and what may have happened since (`ReadMember`, `ReadActive`, `SpentBefore`,
  `CaughtShape`), each relative to the requests that had been answered before it began.
* **`FlowProofs`**, first part, proves the type invariant, `RunningIsAtWork`, the three invariants and the
  action property of run `flows`, for any drafts. `InterpreterSteps` reduces all steps of the interpreter to one
  shape: they move only the run's own variables, stay in the run's graph, and leave a result that fits the node
  they stop at. It uses of `validateGraph` that no connection dangles and that waits have a duration
  (`FlowShape`). `JobEndsItsWait` rests on `WakesItsOwner`: as long as an execution waits for the job that a
  waker holds, that waker works for this execution and has not committed, or has thrown; and on `WaitShape`, by
  which the job of a wait names the execution that waits. `FailsOnlyAtTheLimit` rests on `AtItsNode`: a run's
  graph is the execution's version, so the node of its row is of the type that the resume expects.
  `RepeatsArePaidFor` is a count (`RepeatShape`): the runs of a job that went on with an execution, and those on
  their way to do so, are no more than its failed attempts, its stalls and, once it has begun, one.
* **`ChannelsProofs`** proves all three invariants of run `channels`. An authorization that a row or a task
  refers to is over (`RowShape`, `SaverShape`), so that what was granted stays as it is; `UserShape` says that a
  task that uses a channel has a token of the row's organization and account, although the row may have another
  one by now; `AnswerShape` that Meta refuses only dead tokens. That a row never goes nor changes its
  organization is the lemma `RowWritten`.
* **`KnowledgeProofs`** proves all four invariants of run `knowledge`. `OneIngestion` rests on `OneAtWork` and
  `SeesAll`: a call that is alone at work for its source has found all chunks it is to replace. `CatalogIsKnown`
  has an invariant of its own, `CatalogInv`, most of which holds as long as there was no mishap: there is one
  change of the catalog at a time (`OneChange`) and one source made of it (`OneRow`), the change writes what the
  catalog is (`UpToDate`), the worker waits for the only call at work (`Awaited`), and once no change is under
  way the source has the current text, in its job, in the call or in its chunks (`InSync`).
* **`FlowProofs`**, second part, proves all four invariants of run `editor`. `NumberShape` bounds a number by
  the next one, so that the version it names is the newest when it is written; `ReadShape` carries what a
  publication saved to what it reads, unless it was crossed; `SaveShape` says what an editor that nobody meddled
  with has under way, from which `CleanIsSaved` follows when an answer arrives.
* **`FlowProofs`**, third part, proves of every graph, of any size and with any names, what TLC evaluates on
  those of four edits: an edit keeps `Whole` (`CanvasTheorem`), from which `SavedIsNearlyValid` follows; that in
  a graph that may be published the interpreter takes no connection that the canvas does not draw but those of
  removed intents (`UnseenTheorem`: a question's options all have their connections, so that its "default" is
  not fallen back on); and that the connections no answer takes can be taken away (`IdleTheorem`).
  `DrawnTheorem` puts them together: from a new flow on, through any edits, all of this holds (`NewGraphTheorem`
  and `CanvasTheorem` are base and step). An option may be named "true", which falls back on "default" as a
  condition's branch does: the proof of `IdleTheorem` failed until `TakenBy` said so.
* **`AnswersProofs`** proves all five invariants of run `answers`, for any number of messages, rules, users and
  tags. `OneVoice` needs that no rule has acted on a message before one is chosen for it (`FiredShape`) and that
  the AI is asked only when none has (`AskedShape`); `CooldownHolds` that a rule without a key has acted on
  nothing since the key expired (`KeyShape`); `FirstAnswerDiscloses` that a call which is to disclose nothing
  has found an answer (`NoticeShape`). `OverrunIsBounded` is a count (`ChargeShape`): what is used, and the
  highest price of every call under way, stay below the highest budget there was and the highest price of the
  most calls there were at one time. It takes facts about products of variables (`Products`) and about sets that
  gain or lose one element (`OneMoreUnderway`, `FewerUnderway`).
* **`AccessProofs`** proves the invariants of run `members` and `OwnersAreNamed` (a request past its count that
  would take the last owner away overlaps another that changed the members: `ReadHolds`, `CountHolds`) and, in
  its second part, all five of run `dashboard`, for any number of requests, refresh tokens, organizations and
  changes. The invariant of the tab, `TabInv`, is inductive; TLC checked it on the run's instance before it was
  proved. `CookieIsLive` needs that within a family only the last token is not rotated (`TokenShape`) and that a
  token on its way to the browser is in no other place (`WayShape`). For `ActsForShown` a tab that was not mixed
  up has one operation of the session at a time (`OneOperation`), all of its requests have tokens of the
  cookie's family (`OneFamily`), and its cookie, its access token and its profile agree once the profile is
  loaded (`ShownShape`). `HeardIsShown` rests on `FetchShape`: the answer to a fetch that was not abandoned
  knows of what was heard before, but for the first, of which `early` tells, and on `ListShape`: a fetch is
  under way only when the query says so; `PostedOnce` on `PostShape`.

  `ActsForShown` was not provable at first, for a good reason: with more requests than TLC's instance has, one
  that was left over from before a logout refreshes the session after the next login, with a token of the old
  one. `Login` now sets `mixed` when any request is under way, and `OtherReceives` when the family of the cookie
  changes; that the words for no organization name none of them is now part of the assumptions.

The assumptions are the named `ASSUME`s of the modules: shapes of the constants, finite sets of calls, at least one
attempt, at least one owner and one Super Admin at the start, and that `None`, `Nothing` and the names of the models'
own states are none of the values they stand beside. The theorems about graphs assume the shape `IsCanvas` of a
graph, which every graph that is drawn has.

Model-checked only: `JobsEnd`, `AnswersEnd` and `QueuedWaitsEnd` (liveness under fairness is beyond the
prover), the functions of `Chunking` and `FlowSimulator`
(what a fold computes for every input needs an induction the provers cannot instantiate), and the violated
properties, which a counterexample settles.

## 8. Not modelled, and the plan

* **Data.** Texts, attachments, profiles, media, audit entries, passwords, signatures, the forms of nodes, the
  prompts of the AI, its retrieval and its analysis of conversations: nothing here depends on them. Rate limits
  and backoff are left to the scheduler's choice.
* **Crypto helpers** (`common/crypto`): pure functions over bytes on top of `node:crypto`.
* **Configuration, health and deployment**: no behaviour over time.
* **Row-level security**: the policies are SQL; the models take it that a query sees its organization's rows.
* **Other pages of the dashboard** (contacts, automations, knowledge, settings, team, platform): forms over one
  query each, with the same invalidation as the inbox.
* **Uploads, templates and duplicates of flows, notes, the lists' filters, the seeder**: single statements that
  no other step depends on.
* **Postbacks without a `mid`**, of which `Inbound` assumes that there are none, and rows whose job was never
  added, of which `Outbound` only says that they exist.

Left in the plan:

1. A composition of `Inbound` and `Outbound` in which `StoreEcho` is `StoreMessage` of an echo and the window is
   the one `Upsert` writes.
2. `WebClient` over `Sessions` instead of one statement per request, with the abstract tokens as the refinement.
3. Liveness of `Knowledge` (a job ends) and of the query in `Dashboard`.
